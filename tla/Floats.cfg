\* The run floats; see MCPureCalls for the arguments.  A behaviour is one call.
CONSTANTS
  Words     = {}
  Few       = {}
  Floats    <- MCFloats
  Exponents <- MCExponents
  Lines     = {}
SPECIFICATION Spec
INVARIANT
  FloatsAsDescribed
CHECK_DEADLOCK FALSE
