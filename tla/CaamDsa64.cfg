\* 64-bit CAAM (CFG_CAAM_64BIT: two words per pointer), with every
\* crypto_bignum_bin2bn call allowed to fail.
CONSTANTS
  PtrWords = 2
  Bin2BnMayFail = TRUE
SPECIFICATION Spec
INVARIANTS
  DeviceReadsIntended
  NoLeakOnReturn
  DescriptorFitsLayout
PROPERTIES
  VerifyVerdictRespected
