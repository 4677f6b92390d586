SPECIFICATION Spec
CONSTANTS
  p1 = p1
  p2 = p2
  h1 = h1
  h2 = h2
  h3 = h3
  Peer = {p1, p2}
  Hash = {h1, h2, h3}
  Offers <- MCOffers
  NoPeer = NoPeer
  NoRequest = NoRequest
  MaxTxAnnounces = 2
  MaxTxRetrievals = 2
INVARIANT
  QueuedHasOrigin
CHECK_DEADLOCK FALSE
