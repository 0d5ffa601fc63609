SPECIFICATION Spec
CONSTANTS
  Types <- MCTypes
  MaxOps = 1
  MaxEdits = 1
INVARIANTS
  SizeExact
  Canonical
  RoundTrip
  RelayLossless
  
  HasMatchesWire
