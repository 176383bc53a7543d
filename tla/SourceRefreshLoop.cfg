CONSTANTS
  rangeList = rangeList
  keyDirectory = keyDirectory
  v1 = v1
  v2 = v2
  keys = keys
  mirror = mirror
  Uris = {rangeList, keyDirectory}
  Contents = {v1, v2, keys}
  Metadata <- AllMetadata
  Procs = {w1}
  Writers = {w1}
  NoEntry = NoEntry
  Stored = Stored
  Raised = Raised
  NoAnswer = NoAnswer
  NoCall = NoCall
  MaxKills = 1
  Directories = {keyDirectory}
  Selections <- BothSources
  Validity = 1
  MaxAges = {NoExpiry}
  NoExpiry = NoExpiry
  Unsigned = Unsigned
  MaxTime = 1
  Places = {rangeList, keyDirectory, mirror}
  Host <- HostPerPlace
  Offers <- WithMirror
  Etag <- SameTags
  Modified <- NoValidators
  NoValidator = NoValidator
  NoTrip = NoTrip
  MaxRedirects = 1
SPECIFICATION Spec
INVARIANTS RetrievalIsBacked VisitedSourcesAreFresh
PROPERTIES CacheNeverGoesBack RunsEnd ImplementsStore
