SPECIFICATION FairSpec
CONSTANTS
  Tasks = {t1, t2, t3}
  Handlers = {h1, h2}
  Workers = {w1, w2}
  QueueSize = 1
  None = None
INVARIANTS TypeOK NoTaskForgotten NoOrphan RunOnce
PROPERTIES KeepsPromise ClientHears
