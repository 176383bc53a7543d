CONSTANTS
  Uris = {u1, u2}
  Contents = {c1, c2}
  Metadata <- PlainMetadata
  Procs = {w1, w2, r}
  Writers = {w1, w2}
  NoEntry = NoEntry
  Stored = Stored
  Raised = Raised
  NoAnswer = NoAnswer
  NoCall = NoCall
  MaxKills = 1
SPECIFICATION Spec
PROPERTIES PutChangesOneEntry
