SPECIFICATION Spec
CONSTANTS
  t1 = t1  t2 = t2  t3 = t3
  m1 = m1  m2 = m2  s1 = s1  c1 = c1  c2 = c2
  Thread = {t1, t2, t3}
  Timer = Timer
  Mutex = {m1, m2}
  Semaphore = {s1}
  Condition = {c1, c2}
  Maximum = 2
  Closable = {m1, m2, s1, c1}
  Programs <- AllPrograms
  Timed = {m1, s1, c2}
  Disciplined = TRUE
  PostBound = 3
  NoThread = NoThread
  NoObject = NoObject
SYMMETRY Threads
INVARIANTS MutexOwned  SemaphoreNoForgery
PROPERTIES ConditionReacquires
CHECK_DEADLOCK FALSE
