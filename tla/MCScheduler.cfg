SPECIFICATION Spec
CONSTANTS
  c1 = c1  c2 = c2  t1 = t1  t2 = t2  t3 = t3  p1 = p1  p2 = p2
  CPU = {c1, c2}
  AP = {c2}
  Thread = {t1, t2}
  Process = {p1}
  Owner <- TwoOwner
  Main <- TwoMain
  Masks <- AnyPinning
  NoCpu = NoCpu
  NoThread = NoThread
INVARIANTS SingleRunner QueueExact NoLostWakeup 
CHECK_DEADLOCK FALSE
