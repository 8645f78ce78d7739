\* Frame allocator, COW reference counts and sbrk: 2 frames, 3 address
\* spaces of two pages each: a frame is shared three ways, memory runs out
\* in the middle of an eager sbrk of 2 pages, and a shrink or a lazy sbrk
\* leaves pages of the size unmapped.
CONSTANTS
    NFRAMES = 2
    NPROCS = 3
    NPAGES = 2
    NoFrame = NoFrame
    SbrkN <- MCSbrkN
SPECIFICATION Spec
INVARIANTS
    TypeOK
    FrameConservation
    WritableIsPrivate
    MappedBelowSz
VIEW KallocView
