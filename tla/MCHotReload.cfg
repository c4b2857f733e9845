CONSTANTS
  Any = Any
  None = None
  Requests = {r1}
  MaxEdits = 3
  g1 = g1
  g2 = g2
  q1 = q1
  q2 = q2
  comp = comp
  tag = tag
  Contents <- MCContents
  Tickets <- MCTickets
SPECIFICATION ReloadSpec
INVARIANTS
  LastGood
  ReloadsDoNotMix
  OneConfigPerRequest
  GroupLostOnlyByReload
  NothingOverlooked
PROPERTIES
  ReloadConverges
