\* A statement of the documentation that the code does not keep, with the
\* values of TlsProbe.cfg.
SPECIFICATION ProbeSpec
\* InspectTLS returns.
CHECK_DEADLOCK FALSE
CONSTANTS
  Cert <- ProbeCert
  Key = {"kLeaf", "kEnc", "kInter", "kRoot"}
  Info <- ProbeInfo
  NoId = NoId
  Name = {"site", "alias", "other"}
  Empty = ""
  Matching <- ProbeMatching
  Current = {"leaf", "enc", "inter", "root"}
  ServerAuth = {"leaf", "enc", "inter", "stale", "root"}
  WithAia = {"leaf"}
  NoRoots = NoRoots
  SystemPool = {"root"}
  Trust <- MCTrust
  Added = {"root"}
  Requests <- MCRequests
  Served <- MCServed
INVARIANT CompletenessIsSeparate
