SPECIFICATION RestartSpec
CONSTANTS
    Nil = Nil
    IO = IO
    Invokers = {i1, i2}
    Contexts = {c1, c2}
    Msgs = {m1, m2, m3, m4}
    MsgPriorities = {0, 3}
    MaxDeaths = 0
    MaxRestarts = 2
SYMMETRY Symmetry
INVARIANTS
    LinkedOnce
    ReadyIsQueued
    NoneLeftRunning
