SPECIFICATION FairSpec
CONSTANTS
    Handler = {h1, h2, h3}
    MaxExits = 3
    Scripts <- AnyScripts
    MaxFd = 6
    PipeScripts <- Pipelines
    MaxPipeFd = 4
    MAX_DIRS = 2
    Handles = {g, h}
    Listings <- Directories
    Stale = {300}
    MaxReads = 3
    Devices = 1
    Ips <- Addresses
    Sizes = {0, 65535}
    MaxSockets = 1
    MaxQueue = 2
CHECK_DEADLOCK FALSE
INVARIANTS
    HandlersRun
    TextsArrive
    DirectoriesRead
    NetworkMeant
PROPERTY
    SystemEnds
