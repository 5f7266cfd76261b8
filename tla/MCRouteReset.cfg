CONSTANTS
  N = 5
  Kind <- TwoSignals
  Order <- BlockOrder
  NoStop = {}
  GreenAt = {2, 4}
  Changing = {}
  Asking = {}
SPECIFICATION RoundSpec
INVARIANT NoOpposingRoutes
