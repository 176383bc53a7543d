CONSTANTS
  rangeList = rangeList
  keyDirectory = keyDirectory
  v1 = v1
  v2 = v2
  keys = keys
  mirror = mirror
  Uris = {rangeList}
  Contents = {v1, v2}
  Metadata <- AllMetadata
  Procs = {w1}
  Writers = {w1}
  NoEntry = NoEntry
  Stored = Stored
  Raised = Raised
  NoAnswer = NoAnswer
  NoCall = NoCall
  MaxKills = 0
  Directories = {}
  Selections <- OneList
  Validity = 1
  MaxAges = {NoExpiry}
  NoExpiry = NoExpiry
  Unsigned = Unsigned
  MaxTime = 1
  Places = {rangeList, mirror}
  Host <- HostPerPlace
  Offers <- Moving
  Etag <- NoValidators
  Modified <- Dates
  NoValidator = NoValidator
  NoTrip = NoTrip
  MaxRedirects = 1
SPECIFICATION Spec
PROPERTIES RenewalIsConfirmed
