\* Three certificates, two of one key, two keys, at most two entries; three
\* option values; containers of at most four bags.
SPECIFICATION ConvertSpec
CHECK_DEADLOCK FALSE
CONSTANTS
  Cert <- ConvertCert
  Key <- ConvertKey
  Info <- SmallInfo
  NoId = NoId
  Alias <- ConvertAlias
  Empty = ""
  Fold <- ConvertFold
  Trim <- ConvertTrim
  Lower <- ConvertFold
  MyKey = "mykey"
  Synthetic <- OpeningSynthetic
  DefaultAlias <- MCDefaultAlias
  CertificateAlias <- MCCertificateAlias
  NoKey = NoKey
  NoCert = NoCert
  CallerAliases = {"app"}
  CallerKeys = {"kRoot"}
  CallerChains <- ConvertChains
  Files <- ConvertFiles
  MaxCertificates = 3
  MaxPrivateKeys = 3
  MaxEntries = 2
  Options <- ConvertOptions
  NoPassword = NoPassword
  Failed = Failed
  Password = {"", "short", "long", "own", "other", "altered"}
  LongPasswords = {"long", "own", "other"}
  EmptyPassword = ""
  Altered = "altered"
  Before <- MCBefore
  Foreign <- MCForeign
  Convertible = {"kRoot"}
  Changeit = "long"
  JksFiles = {}
  JksOptions = {}
  PemFiles = {}
  PemOptions = {}
  Pkcs12Files = {}
  Pkcs12Options = {}
  Numbered <- MCNumbered
  TrustAliases <- MCTrustAliases
  Calls = {}
  DefaultLimits <- MCDefaultLimits
  Unreadable <- MCUnreadable
INVARIANTS
  RoundTripKeepsObjects
  RoundTripKeepsBindings
  AlterationIsNoticed
