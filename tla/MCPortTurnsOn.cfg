CONSTANTS
  Tests = 5
  Retry = 3
  ShortCount = 1
  CounterModulus = 5
  OvercurrentTime = 2
  RetryCount = 2
  TryModulus = 8
SPECIFICATION ProtectionSpec
PROPERTY TurnsOn
