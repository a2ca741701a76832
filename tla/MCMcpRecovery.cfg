SPECIFICATION Spec
CONSTANTS
  Names <- MCNames
  BashNames = {}
  Builtin <- MCBuiltin
  Offers <- MCOffers
  MaxReloads = 2
  MaxDeaths = 1
  MaxSwitches = 0
  Serial = TRUE
  Calls = {c1, c2}
  NoCall = NoCall
INVARIANTS TypeOK AnswersOwnRequest
PROPERTIES RequestsJustified EveryCallEnds
CHECK_DEADLOCK FALSE
