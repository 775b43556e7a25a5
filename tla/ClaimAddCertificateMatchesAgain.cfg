\* A statement of the documentation that the code does not keep.
SPECIFICATION Spec
CONSTANTS
  Cert <- PairCert
  Key <- MCKey
  Info <- PairInfo
  NoId = NoId
  Alias <- EncodeAlias
  Empty = ""
  Fold <- EncodeFold
  Trim <- EncodeTrim
  Lower <- EncodeFold
  MyKey = "mykey"
  Synthetic <- MCSynthetic
  DefaultAlias <- MCDefaultAlias
  CertificateAlias <- MCCertificateAlias
  NoKey = NoKey
  NoCert = NoCert
  CallerAliases = {"app", "ca"}
  CallerKeys = {"kLeaf", "kRoot"}
  CallerChains <- RepeatingChains
  Files <- SplitFiles
  MaxCertificates = 2
  MaxPrivateKeys = 2
  MaxEntries = 2
  Options <- MCOptions
  Password = {"short", "long"}
  LongPasswords = {"long"}
  NoPassword = NoPassword
  Failed = Failed
PROPERTY AddCertificateMatchesAgain
