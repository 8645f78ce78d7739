\* Two processes creating, linking, unlinking, opening and closing names
\* under / and /d, changing directory, and crashes between calls.
CONSTANTS
    NINODE = 4
    NOFILE = 2
    NFILE = 2
    p1 = p1
    p2 = p2
    Procs <- MCProcs
    Inums <- MCInums
    Names <- FsNames
    Disk0 <- FsDisk
    SymTarget <- NoTarget
    Calls <- FsCalls
    DataBlocks <- MCDataBlocks
    MaxFileBlocks = 1
    NDIRECT = 0
    NINDIRECT = 2
SPECIFICATION Spec
VIEW FsView
INVARIANTS
    TypeOK
    RefCountsMatch
    LinkCountsMatch
    InodeLive
    BlocksOwned
    SizeMapped
    WriteiBlocksInRange
