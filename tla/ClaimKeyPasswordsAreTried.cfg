\* A statement of the documentation that the code does not keep, with the
\* values of OpenJks.cfg.
SPECIFICATION JksSpec
CHECK_DEADLOCK FALSE
CONSTANTS
  Cert <- OpeningCert
  Key <- OpeningKey
  Info <- OpeningInfo
  NoId = NoId
  Alias <- MCAlias
  Empty = ""
  Fold <- MCFold
  Trim <- MCTrim
  Synthetic <- OpeningSynthetic
  DefaultAlias <- MCDefaultAlias
  NoKey = NoKey
  NoCert = NoCert
  NoPassword = NoPassword
  Failed = Failed
  Password = {"store", "own", "changeit"}
  Changeit = "changeit"
  JksFiles <- MCJksFiles
  JksOptions <- MCJksOptions
INVARIANT
  KeyPasswordsAreTried
