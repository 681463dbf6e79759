SPECIFICATION Spec
CONSTANTS
    NumDaemons = 3
    Invokers = 2
    Size <- MCSize
    MaxExits = 2
    MaxTraps = 0
    MaxCommands = 0
    Init_ = InitThread
    Cli = CliThread
    Nil = Nil
INVARIANTS
    NoneForgotten
