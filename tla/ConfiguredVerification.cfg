\* Two providers with a list and a directory each, requests of two moments.
SPECIFICATION Spec
CONSTANTS
  n = n  la = la  lq = lq  da = da  dq = dq
  o = o  q = q  a = a  b = b  x = x  k = k  m = m  j = j  none = none
  Providers = {o, q}
  Agents = {a, b}
  NoName = none
  Lists = {la, lq}
  KeySources = {da, dq}
  KeySets = {n}
  Trusted = {}
  Signing = {da}
  DnsScope <- MCDnsScope
  Tagged = {la, da}
  Addresses = {x}
  Keys = {k, m, j}
  ed = ed  ec = ec  pss = pss
  Methods = {ed, ec, pss}
  Jwk <- MCJwk
  NoAddress = NoAddress
  NoSignature = NoSignature
  NoSnapshot = NoSnapshot
  NoRequest = NoRequest
  NoResolution = NoResolution
  Worlds <- MCWorlds
  Requests <- MCRequests
  Validity = 0
  MaxAges = {0}
  MaxTime = 1
INVARIANTS EstablishedWasPublished ForeignSignerConflicts  InlineKeyIdentifiesNobody OldSnapshotsDecideNothing
