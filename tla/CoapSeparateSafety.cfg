SPECIFICATION Spec
CONSTANTS
  r1 = r1
  r2 = r2
  r3 = r3
  Req = {r1, r2, r3}
  Confirmable = {r1}
  NoMetadata = NoMetadata
  COAP_MAX_OPEN_SEPARATE = 2
  COAP_MAX_OPEN_TRANSACTIONS = 2
  Observers = 1
  MaxRetransmit = 1
  MaxResponseRetransmit = 0
  MaxLosses = 1
SYMMETRY Symmetry
INVARIANTS SlotHoldsLatest NeverAnsweredTwice SilenceNeedsLoss
PROPERTIES ReleaseAnswers ImplementsMailbox
