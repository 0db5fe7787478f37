SPECIFICATION FairSpec
CONSTANTS
    Top = 15
    ProcMaps <- MCProcMaps
    NoFile = {"", "[stack]"}
    Elf <- MCElf
    Kallsyms <- MCKallsyms
    Threads = {1, 2, 3}
    Tgid <- MCTgid
    Target = 1
    Redis = 1
    MaxFrames = 3
    KStacks <- MCKStacks
    UStacks <- MCUStacks
    Room = 2
    MaxSamples = 2
INVARIANTS
    TypeOK
    SamplesOfPrefix
    PictureAddsUp
    FramesNamed
    FramesInOrder
PROPERTIES
    CtrlCEnds
CHECK_DEADLOCK FALSE
