\* The run pure_calls; see MCPureCalls for the arguments.  A behaviour is one call.
CONSTANTS
  Words     <- MCWords
  Few       <- MCFew
  Floats    <- MCFloats
  Exponents <- MCExponents
  Lines     <- MCLines
SPECIFICATION Spec
INVARIANTS
  IntegersAsDescribed
  FloatsOtherwiseAsDescribed
  ArgumentsAsTyped
CHECK_DEADLOCK FALSE
