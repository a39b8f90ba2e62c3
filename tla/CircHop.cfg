CONSTANTS
  Hops <- MCHops
  StreamIds <- MCStreamIds
  UsesStreamSendme <- MCUsesStreamSendme
  CircWindow = 1
  StreamWindow = 1
  SendmeInc = 1
  SinkCap = 1
  MaxQueued = 1
  MaxDropped = 1

SPECIFICATION Spec
INVARIANT TypeOK
INVARIANT NoRedundantEnd
PROPERTY QueuedStreamServed
\* A protocol violation tears the circuit down: no step follows it.
CHECK_DEADLOCK FALSE
