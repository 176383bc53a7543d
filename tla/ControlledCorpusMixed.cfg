SPECIFICATION Spec
CONSTANTS
  t1 = t1  t2 = t2  a = a  b = b  h = h  g = g
  Operators = {o1}
  Tasks = {t1, t2}
  People = {a, b, h, g}
  Windows = {1, 2, 3}
  Unknown = 99
  Shapes = {0, 1, 2}
  Corpora <- PairsTwice
  MinSessions = 1
  MaxRuns = 2
  One = 4
  Levels = {1, 2, 4}
  Rates = {0, 2, 4}
INVARIANTS NobodyIsScoredByOwnModel
CHECK_DEADLOCK FALSE
