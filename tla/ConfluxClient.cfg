CONSTANTS
  Hops <- MCHops
  JoinPoint <- MCJoinPoint
  OurNonce = n1
  Nonces = {n1, n2}
  Times <- MCTimes
  LinkTimeout = 60
  MaxSwitchSeqno = 2
  MaxSeq = 3
  NoValue = NoValue
  HugeRtt = HugeRtt

SPECIFICATION Spec

INVARIANT TypeOK
INVARIANT LinkedOnlyByJoinPointWithOurNonce
INVARIANT HandshakeCompletesOnce

PROPERTY ImplementsConfluxLeg

CHECK_DEADLOCK FALSE
