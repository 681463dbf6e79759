SPECIFICATION Spec
CONSTANTS
    Nil = Nil
    IO = IO
    Invokers = {i1, i2}
    Contexts = {c1, c2}
    Msgs = {m1, m2, m3, m4}
    MsgPriorities = {0, 2, 3}
    MaxDeaths = 1
SYMMETRY Symmetry
INVARIANTS
    QueueConsistent
    OneInvoker
    NoStrandedMsg
    NeverInVain
    ImmediateFirst
    WorkIsNoticed
    NoLockout
PROPERTIES
    ServesContexts
