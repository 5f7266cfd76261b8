CONSTANTS
  m1 = m1
  m2 = m2
  c1 = c1
  c2 = c2
  t1 = t1
  t2 = t2
  NoClient = NoClient
  NoMagnet = NoMagnet
  Real <- TwoReals
  Coupled <- None
  Original <- None
  Invert = {}
  Default = {}
  Clients <- TwoClients
  WaitTimeout = 3
  HoldTimeout = 2
  Trains <- TwoTrains
  Transitions <- Loop
  Start <- InEntryAndSiding
  GreenTimeout = 2
  ReverseTimeout = 3
  MaxRounds = 2
  Operable = {"reset_routes"}
SPECIFICATION SchedulesFairSpec
PROPERTY TrafficFlows
