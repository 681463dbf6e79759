CONSTANTS
  u1 = u1
  u2 = u2
  Users = {u1, u2}
  MaxContexts = 4
  Tones = 1
  MaxOffhooks <- Offhooks
  MaxDials <- Dialling
  MaxRejects <- Rejected
  MaxMsgs = 1
  Nil = Nil
SPECIFICATION Spec
INVARIANTS OneOwner HalvesInStep RingsForCall NeverHangs
CHECK_DEADLOCK FALSE

