\* As Open.cfg, with fewer files.
SPECIFICATION OpenSpec
CHECK_DEADLOCK FALSE
CONSTANTS
  Cert <- OpeningCert
  Key <- OpeningKey
  Info <- OpeningInfo
  NoId = NoId
  Alias <- BagAlias
  Empty = ""
  Fold <- BagFold
  Trim <- BagTrim
  Synthetic <- OpeningSynthetic
  DefaultAlias <- MCDefaultAlias
  NoKey = NoKey
  NoCert = NoCert
  NoPassword = NoPassword
  Failed = Failed
  Password = {"store", "own", "changeit", "a", "b"}
  Changeit = "changeit"
  JksFiles <- OpenJksFiles
  JksOptions <- MCJksOptions
  PemFiles <- OpenPemFiles
  PemOptions <- MCPemOptions
  MaxBlocks = 1
  Pkcs12Files <- OpenPkcs12Files
  Pkcs12Options <- MCPkcs12Options
  Numbered <- MCNumbered
  TrustAliases <- MCTrustAliases
  MaxBags = 1
  Calls <- MCCalls
  DefaultLimits <- MCDefaultLimits
  Unreadable <- MCUnreadable
INVARIANT
  DerIsDetected
