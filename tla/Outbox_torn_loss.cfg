SPECIFICATION Spec
CONSTANTS
  Event = {e1, e2}
  Handler = {h1}
  boot = boot
  NoEvent = NoEvent
  MaxPending = 2
  MaxDelivered = 1
  DrainLimit = 2
  PendingSize = 2
  DeliveredSize = 3
  SizeLimit = 20
  OtherSizes = {0, 2}
  TornWrites = TRUE
  MaxFaults = 2
INVARIANTS
  DeliveredIsReadable
