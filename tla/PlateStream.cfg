SPECIFICATION FairSpec
CONSTANTS
  e1 = e1
  e2 = e2
  e3 = e3
  e4 = e4
  e5 = e5
  c1 = c1
  c2 = c2
  r1 = r1
  r2 = r2
  Event <- MCEvent
  Callback <- MCCallback
  Reader <- MCReader
  Poller <- MCPoller
  Closer = {k1, k2}
  EventsOf <- MCEventsOf
  Bytes <- MCBytes
  MaxEvents = 2
  MaxBytes = 4
  CloseSignal = CloseSignal
INVARIANTS
  SignalLast
  NoLostWakeup
  AccountsKept
PROPERTIES
  IsLossyBuffer
  CallsReturn
