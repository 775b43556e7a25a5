\* Three certificates, two keys held by callers, at most two entries.
SPECIFICATION Spec
CONSTANTS
  Cert <- SmallCert
  Key <- MCKey
  Info <- SmallInfo
  NoId = NoId
  Alias <- StoreAlias
  Empty = ""
  Fold <- StoreFold
  Trim <- StoreTrim
  Synthetic <- MCSynthetic
  DefaultAlias <- MCDefaultAlias
  NoKey = NoKey
  NoCert = NoCert
  CallerAliases = {"app", "App"}
  CallerKeys = {"kLeaf", "kRoot"}
  CallerChains <- MCCallerChains
  Files <- SmallFiles
  MaxCertificates = 2
  MaxPrivateKeys = 2
  MaxEntries = 2
INVARIANTS
  TypeOK
  ObjectsAreUnique
  ChainsResolve
  KeysResolve
  NamedAliasesUnique
PROPERTIES
  AddsReconcile
  OnlyRemovalDetaches
  ChainsOnlyExtend
  ImplementsKeyring
