\* decNumber's functions in small contexts; objects with small buffers.
SPECIFICATION MCSpec
CONSTANTS
  LONGEST = 9
  MAX_CALLS = 1
  Contexts <- MCContexts
  Operands <- MCOperands
  Factors <- MCFactors
  Bases <- MCBases
  Written <- MCWritten
  Addends <- MCAddends
  Powers <- MCPowers
  Masks <- MCMasks
  Coefficients <- MCCoefficients
  ShiftsBy <- MCShiftsBy
  INT32_DIGITS = 2
  INT32_MAX = 42
  PRECISION = 3
  COMPARISON_DIGITS = 2
  PLACES = 8
  BUFFER_SIZE = 14
  THRESHOLD = 3
  INT64_DIGITS = 2
  INT64_MAX = 73
  COMPONENT_DIGITS = 2
  Numbers <- MCNumbers
  Wholes <- MCWholes
  Places <- MCPlaces
  Scientific <- MCScientific
  MAX_USES = 2
  Deltas <- MCDeltas
  Begun <- MCBegun
INVARIANTS
  TypeOK SumsRounded QuotientsRounded QuantizedExactly OrderAgrees TextRoundTrip PowerClose DigitsAgree
  RoundsToPlaces ComparesWithin IntegersExact
CHECK_DEADLOCK FALSE
