SPECIFICATION StratifiedSpec
CONSTANTS
  o1 = o1
  o2 = o2
  a = a
  b = b
  c1 = c1
  c2 = c2
  Operators = {o1, o2}
  Dirs = {"out"}
  Ids = {a, b}
  Corpora = {c1, c2}
  LabelFiles <- MCLabelFiles
  MaxLines = 2
  MaxCommands = 2
  Descriptions <- MCDescriptions
  Malformed = malformed
  NoSession = "none"
  MetadataFiles <- MCMetadataFiles
SYMMETRY TwoOperators
INVARIANTS TypeOK PublishedRunsAreWhole ReadyRunsAreCovered StrataAddUp
PROPERTIES PublishedRunsStay
CHECK_DEADLOCK FALSE
