SPECIFICATION Spec
CONSTANTS
  l = l
  r = r
  b = b
  s = s
  p = p
  q = q
  t1 = t1
  t2 = t2
  t3 = t3
  Tokens = {t1, t2, t3}
  Tasks = {l, r, b, s, p, q}
  Batches <- MCBatches
  Kind <- MCKind
  Find <- MCFind
  Configured = {0, 1}
  Cap = 3
  FaultKinds = {"fetch", "outage", "pins", "edit", "answer", "pin", "history", "send", "read", "delete", "load", "channel"}
  MaxBoards = 3
  MaxFaults = 1
  MaxBoots = 1
CHECK_DEADLOCK FALSE
INVARIANTS Remembered
PROPERTIES Grows NoStrayBoard Learned
