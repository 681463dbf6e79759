SPECIFICATION FairSpec
CONSTANTS
    NumDaemons = 3
    Invokers = 2
    Size <- MCSize
    MaxExits = 2
    MaxTraps = 2
    MaxCommands = 2
    Init_ = InitThread
    Cli = CliThread
    Nil = Nil
INVARIANTS
    TypeOK
    NotSilentlyOff
    AlarmIsTrue
    AtMostOneExtra
PROPERTIES
    EventuallyRestored
