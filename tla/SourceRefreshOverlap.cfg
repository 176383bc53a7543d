CONSTANTS
  rangeList = rangeList
  keyDirectory = keyDirectory
  v1 = v1
  v2 = v2
  keys = keys
  mirror = mirror
  Uris = {rangeList, keyDirectory}
  Contents = {v1, v2}
  Metadata <- AllMetadata
  Procs = {w1, w2}
  Writers = {w1, w2}
  NoEntry = NoEntry
  Stored = Stored
  Raised = Raised
  NoAnswer = NoAnswer
  NoCall = NoCall
  MaxKills = 0
  Directories = {keyDirectory}
  Selections <- OneOfEach
  Validity = 1
  MaxAges = {NoExpiry}
  NoExpiry = NoExpiry
  Unsigned = Unsigned
  MaxTime = 2
  Places = {rangeList, keyDirectory}
  Host <- HostPerPlace
  Offers <- EveryContent
  Etag <- TagPerContent
  Modified <- NoValidators
  NoValidator = NoValidator
  NoTrip = NoTrip
  MaxRedirects = 1
SPECIFICATION Spec
INVARIANTS RetrievalIsBacked VouchesOnlyNearPublication BindingsAreEndorsed
CONSTRAINT OneSourceAtATime
SYMMETRY WriterSymmetry
