SPECIFICATION FairSpec
CONSTANTS
  r1 = r1
  r2 = r2
  r3 = r3
  Req = {r1, r2}
  Confirmable = {r1, r2}
  NoMetadata = NoMetadata
  COAP_MAX_OPEN_SEPARATE = 2
  COAP_MAX_OPEN_TRANSACTIONS = 2
  Observers = 1
  MaxRetransmit = 0
  MaxResponseRetransmit = 1
  MaxLosses = 2
PROPERTIES AckedIsServed ServesMailbox
