SPECIFICATION RestartSpec
CONSTANTS
    Nil = Nil
    IO = IO
    Invokers = {i1}
    Contexts = {c1, c2}
    Msgs = {m1, m2, m3}
    MsgPriorities = {0}
    MaxDeaths = 0
    MaxRestarts = 1
SYMMETRY Symmetry
INVARIANTS
    ContextsAreRequeued
