\* Three connections from one address on two workers.
CONSTANTS
  c1 = c1
  c2 = c2
  c3 = c3
  p1 = p1
  Conn = {c1, c2, c3}
  Peer = {p1}
  NoPeer = NoPeer
  MAX_FAILURES = 3
  WINDOW = 3
  Workers = 2
  NoAuth = FALSE
SPECIFICATION FairSpec
INVARIANTS TypeOK OldestFirst SlotAccurate FailureBound
PROPERTIES SlotSpec HandshakeEnds LimitLifted
