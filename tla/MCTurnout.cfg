CONSTANTS
  m1 = m1
  c1 = c1
  Real <- OneReal
  Coupled <- OneCoupled
  Original <- Follows
  Invert = {c1}
  Default = {}
  Kinds = {"MovableTurnout", "FixedThrown", "MovableDKW"}
  TurnoutMagnet = c1
  Asking = {"points", "closed", "A1"}
SPECIFICATION TurnoutFairSpec
INVARIANTS TurnoutInv AskedInOnePlace RouteMatchesPoints
PROPERTIES RequestDecided MagnetsFollow
