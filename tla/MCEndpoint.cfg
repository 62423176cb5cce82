SPECIFICATION Spec
CONSTANTS
    Terminals = {t1, t2}
    home = home
    other = other
    homeSock = homeSock
    otherSock = otherSock
    pipe = pipe
    custom = custom
    Home <- home
    Dirs <- MCDirs
    Sockets <- MCSockets
    Endpoints <- MCEndpoints
    Platforms <- MCPlatforms
    SocketFiles <- MCSocketFiles
    None = None
    MaxEdits = 1
SYMMETRY Symmetry
INVARIANTS
    TypeOK
    OwnsItsState
    ReachesItsState
