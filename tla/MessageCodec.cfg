\* Every small request and response, the Meta pairs in every order.
SPECIFICATION CodecSpec
CONSTANTS
  Fixed <- MCFixed
  Name <- MCName
  Metas <- MCMetas
  Body <- MCBody
INVARIANTS WireExact RoundTrip
CHECK_DEADLOCK FALSE
