\* All personas, tested twice a run, killed and tested again.  The last game is
\* longer than the accesses of the next run up to its own start.
CONSTANTS
    WordSize = 8
    DspSize = 4
    Values = {1, 2, 7}
    Cards <- SomeCards
    Directories <- SomeDirectories
    Names <- SomeNames
    number_of_runs = 2
    MemSize = 4
    FinalStages = 3
    CalcGap = 3
    DdrGap = 8
    GolGap = 1
    MaxWait = 1
    MaxReads = 2
    CounterSize = 8
    Offsets = {0, 1, 3}
    Rows = 4
    Cols = 4
    Runs = {0, 1, 16}
    Boards <- SomeBoards
SPECIFICATION Spec
INVARIANTS
    TypeOK
    ResultIsTheGame
    ZeroMeansAPass
PROPERTIES
    PassedMeansSwept
    SoundPersonaPasses
    ProgramEnds
