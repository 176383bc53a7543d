\* Three verifiers on two workers: answers of every kind, exceptions, timeouts.
SPECIFICATION ManagerSpec
CONSTANTS
  v1 = v1  v2 = v2  v3 = v3
  o = o  other = other  a = a  b = b  none = none
  Verifiers = {v1, v2, v3}
  Providers = {o, other}
  Agents = {a, b}
  NoName = none
  NoAnswer = NoAnswer
  NoResolution = NoResolution
  MaxWorkers = 2
  Order <- MCOrder
  BindingScope <- MCScope
  Requests <- MCRequests
INVARIANTS TypeOK LateAnswersAreNeutral LostAnswerEffect
PROPERTIES NothingBeginsAfterReturn ImplementsOutcome VerifyReturns
CHECK_DEADLOCK FALSE
