\* Two CAs with one key, two more entries, one revocation, one list or response.
SPECIFICATION FetchSpec
\* The clock stops.
CHECK_DEADLOCK FALSE
CONSTANTS
  Key = {"kCA", "kReq", "k1", "k2"}
  RequestKey = {"kReq"}
  NoKey = NoKey
  Subject = {"A", "B", "S"}
  RequestSubject = {"S"}
  NoPathLen = NoPathLen
  Serial = {1, 2, 3, 4, 9}
  NoSerial = NoSerial
  NoTime = NoTime
  Existing <- MCExisting
  RootOptions <- MCRootOptions
  CertOptions <- MCCertOptions
  ListOptions <- MCListOptions
  BackDate = 1
  ListBackDate = 1
  RootLife = 4
  CaLife = 3
  LeafLife = 2
  ListLife = 1
  ResponseLife = 1
  Skew = {0, 1}
  MaxTime = 4
  MaxIssued = 2
  MaxRevoked = 1
  MaxAnswers = 1
  FetchOptions <- MCFetchOptions
  BodySizes = {1, 2, 3}
  DefaultMaxSize = 2
  Largest = 7
  MaxKnown = 1
INVARIANTS
  IssuedChainsVerify
  NoForeignRevocation
  RevocationTakesEffect
  FetchedAnswersTakeEffect
  SizeLimitIsExact
