\* Up to four versions, five things a server may send, three trust stores and
\* a root to add.
SPECIFICATION ProbeSpec
\* InspectTLS returns.
CHECK_DEADLOCK FALSE
CONSTANTS
  Cert <- ProbeCert
  Key = {"kLeaf", "kEnc", "kInter", "kRoot"}
  Info <- ProbeInfo
  NoId = NoId
  Name = {"site", "alias", "other"}
  Empty = ""
  Matching <- ProbeMatching
  Current = {"leaf", "enc", "inter", "root"}
  ServerAuth = {"leaf", "enc", "inter", "stale", "root"}
  WithAia = {"leaf"}
  NoRoots = NoRoots
  SystemPool = {"root"}
  Trust <- MCTrust
  Added = {"root"}
  Requests <- MCRequests
  Served <- MCServed
INVARIANTS
  OneResultEach
  TrustedIsEarned
  RootsMakeNoDifference
PROPERTIES
  AddOnlyExtendsTrust
  CancellationEndsProbing
