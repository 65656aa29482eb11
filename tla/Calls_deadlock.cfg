SPECIFICATION Spec
CONSTANTS
    NInodes = 15
    NBlocks = 30
    BSIZE = 4
    NDIRECT = 2
    NINODE = 7
    NPAGES = 44
    PGSIZE = 16
    NPTE = 4
    NUPT = 2
    NKPT = 1
    NPROC = 4
    NOFILE = 5
    NFILE = 6
    MAXARG = 5
    MAXARGS = 5
    PIPESIZE = 2
    WMAX = 4
    Files <- TestFiles
    Scenarios <- linkunlink
INVARIANT NoLockCycle
