CONSTANTS
  N = 5
  Kind <- TwoSignals
  Order <- BlockOrder
  NoStop = {}
  GreenAt = {2}
  Changing = {}
  Asking = {"ba"}
SPECIFICATION FairRoundSpec
PROPERTIES EveryRequestAnswered ResetReleases
