SPECIFICATION FairSpec
CONSTANTS
  e1 = e1
  e2 = e2
  p1 = p1
  m1 = m1
  m2 = m2
  EventObserver = {e1, e2}
  PushObserver = {p1}
  COAP_MAX_OPEN_TRANSACTIONS = 1
  COAP_OBSERVE_REFRESH_INTERVAL = 2
  COAP_MAX_RETRANSMIT = 1
  MaxEvents = 3
  Accept <- MCAccept
  Word <- MCWord
  Reading <- MCReading
  Raw <- MCRaw
  LenArg <- MCLenArg
  Request <- MCRequest
  REST_MAX_CHUNK_SIZE = 64
  LIGHT_SENSOR_VALUE_SCALE = 10
  Temp <- MCTemp
  ResourceIds <- MCResourceIds
  Manifest = {m1, m2}
  SUIT_MANIFEST_RESOURCE = m1
  PayloadLen = {0, 1, 2, 3}
  CONFIG_SOCK_URLPATH_MAXLEN = 2
  Available = 4
  Offset = {0, 2, 4, 5}
  Length = {0, 1, 2, 4, 6, 65535}
  SIZE_BITS = 16
  MaxVersion = 3
  Humidity = {0, 403, 405, 1000}
  Temperature <- MCTemperature
CHECK_DEADLOCK FALSE
INVARIANTS UpToDateOrMissed CutIsMarked Sht11WithinADegree EtagIdentifies OneReader
  PrintsOnlyRange SentIsMeasured StoppedIsSilent
PROPERTIES ImplementsCounter DeletedIsGone SlotsReported ServerCatchesUp GoesOn
