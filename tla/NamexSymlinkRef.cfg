\* Two processes opening /d/f and /s/f through the symlink s -> /d with a
\* three-slot inode table.
CONSTANTS
    NINODE = 3
    NOFILE = 1
    NFILE = 2
    p1 = p1
    p2 = p2
    Procs <- MCProcs
    Inums <- MCInums
    Names <- SymNames
    Disk0 <- SymDisk
    SymTarget <- SymTargets
    Calls <- SymCalls
    DataBlocks <- MCDataBlocks
    MaxFileBlocks = 2
    NDIRECT = 1
    NINDIRECT = 2
SPECIFICATION Spec
INVARIANT RefCountsMatch
