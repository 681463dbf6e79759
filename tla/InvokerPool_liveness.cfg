SPECIFICATION FairSpec
CONSTANTS
    Nil = Nil
    IO = IO
    Invokers = {i1, i2}
    Contexts = {c1, c2}
    Msgs = {m1, m2}
    MsgPriorities = {0, 3}
    MaxDeaths = 1
PROPERTIES
    EventuallyServed
    Drained
