SPECIFICATION ToolSpec
CONSTANTS
  Names <- MCNames
  BashNames <- MCBash
  Builtin <- MCBuiltin
  Offers <- MCOffers
  MaxReloads = 3
  MaxDeaths = 1
  MaxSwitches = 2
  Serial = TRUE
INVARIANTS RegistrySettled ToolsOnOpenConnections
CHECK_DEADLOCK FALSE
