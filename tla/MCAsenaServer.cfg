CONSTANTS
  unset = unset
  malformed = malformed
  Order <- MCOrder
  Unset = unset
  Default <- MCDefault
  Saves <- MCSaves
  Flags <- MCFlags
  Malformed = malformed
  MaxRenewals = 2
SPECIFICATION AsenaServerSpec
INVARIANTS
  AsenaServerTypeOK
  SettingsSurvive
  PlainOnlyByFallback
PROPERTIES
  CertificatesMoveForward
  RenewalIsServed
