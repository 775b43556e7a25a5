\* Up to three entries, blocks or bags in a file, and one call of each kind
\* with other limits, sizes and formats; five passwords; Open stops when it
\* has returned.
SPECIFICATION OpenSpec
CHECK_DEADLOCK FALSE
CONSTANTS
  Cert <- OpeningCert
  Key <- OpeningKey
  Info <- OpeningInfo
  NoId = NoId
  Alias <- BagAlias
  Empty = ""
  Fold <- BagFold
  Trim <- BagTrim
  Synthetic <- OpeningSynthetic
  DefaultAlias <- MCDefaultAlias
  NoKey = NoKey
  NoCert = NoCert
  NoPassword = NoPassword
  Failed = Failed
  Password = {"store", "own", "changeit", "a", "b"}
  Changeit = "changeit"
  JksFiles <- OpenJksFiles
  JksOptions <- MCJksOptions
  PemFiles <- OpenPemFiles
  PemOptions <- MCPemOptions
  MaxBlocks = 3
  Pkcs12Files <- OpenPkcs12Files
  Pkcs12Options <- MCPkcs12Options
  Numbered <- MCNumbered
  TrustAliases <- MCTrustAliases
  MaxBags = 3
  Calls <- MCCalls
  DefaultLimits <- MCDefaultLimits
  Unreadable <- MCUnreadable
INVARIANTS
  OpensSoundly
  SuccessIsComplete
  PasswordsLoseNoEntry
  KeysNeedPasswords
  ReturnsWhatWasRead
  EncryptionNeedsPassword
  AliasesDiffer
  EveryBagHasEntry
  OpenFindsSettled
  OpenReturnsSettled
PROPERTY
  Finishes
