SPECIFICATION FairSpec
CONSTANTS
  c1 = c1  c2 = c2  t1 = t1  t2 = t2  t3 = t3  p1 = p1  p2 = p2
  CPU = {c1}
  AP = {c1}
  Thread = {t1, t2, t3}
  Process = {p1, p2}
  Owner <- ThreeOwner
  Main <- ThreeMain
  Masks <- NoPinning
  NoCpu = NoCpu
  NoThread = NoThread
PROPERTIES ThreadsProgress
CHECK_DEADLOCK FALSE
