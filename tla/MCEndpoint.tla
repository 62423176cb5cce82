----------------------------- MODULE MCEndpoint -----------------------------
(***************************************************************************)
(* Endpoint for two terminals, with one state directory and one socket to  *)
(* name, on Unix, where every directory has a socket file of its own, and  *)
(* on Windows, where all share one pipe.                                   *)
(***************************************************************************)
EXTENDS Endpoint, TLC

CONSTANTS home, other, homeSock, otherSock, pipe, custom

MCDirs        == {other}
MCSockets     == {custom}
MCEndpoints   == {homeSock, otherSock, pipe, custom}
Unix          == (home :> homeSock) @@ (other :> otherSock)
Win           == (home :> pipe) @@ (other :> pipe)
MCPlatforms   == {Unix, Win}
MCSocketFiles == {Unix}
Symmetry      == Permutations(Terminals)
=============================================================================
