SPECIFICATION FairSpec
CONSTANTS
    N = 2
    Flexible <- FirstThread
    Nil = Nil
INVARIANTS
    RunsAlone
PROPERTIES
    KeepsItsTurn
    EventuallyRuns
