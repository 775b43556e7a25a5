\* Two certificates, two keys, at most three entries; chains may repeat a
\* certificate; six option values.
SPECIFICATION Spec
CONSTANTS
  Cert <- PairCert
  Key <- MCKey
  Info <- PairInfo
  NoId = NoId
  Alias <- EncodeAlias
  Empty = ""
  Fold <- EncodeFold
  Trim <- EncodeTrim
  Lower <- EncodeFold
  MyKey = "mykey"
  Synthetic <- MCSynthetic
  DefaultAlias <- MCDefaultAlias
  CertificateAlias <- MCCertificateAlias
  NoKey = NoKey
  NoCert = NoCert
  CallerAliases = {"app", "ca"}
  CallerKeys = {"kLeaf", "kRoot"}
  CallerChains <- RepeatingChains
  Files <- EncodeFiles
  MaxCertificates = 2
  MaxPrivateKeys = 2
  MaxEntries = 3
  Options <- MCOptions
  Password = {"short", "long"}
  LongPasswords = {"long"}
  NoPassword = NoPassword
  Failed = Failed
INVARIANTS
  LossIsDeclared
  ReportBalances
  JksIsSound
  ExportedEntriesReopen
