SPECIFICATION AnalysisSpec
CONSTANTS
  p1 = p1
  p2 = p2
  t1 = t1
  t2 = t2
  t3 = t3
  Projects = {p1}
  Tasks = {t1, t2}
  Handlers = {h1, h2}
  Workers = {w1, w2}
  QueueSize = 1
  None = None
  ProjectOf <- TasksOfOne
PROPERTY ConflictMeansRunning
