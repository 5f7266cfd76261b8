CONSTANTS
  N = 6
  Kind <- Line
  NoStop = {4}
  GreenAt = {2, 5}
  Changing = {1}
  Asking = {"ab", "ba"}
SPECIFICATION Spec
INVARIANTS NoOpposingRoutes OneRequestPerPiece RequestInOnePlace RouteGoesOn
