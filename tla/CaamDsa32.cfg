\* 32-bit CAAM (one word per pointer), crypto_bignum_bin2bn infallible.
CONSTANTS
  PtrWords = 1
  Bin2BnMayFail = FALSE
SPECIFICATION Spec
INVARIANTS
  TypeOK
  DeviceReadsIntended
  NoLeakOnReturn
  DescriptorFitsLayout
PROPERTIES
  SuccessCarriesDeviceOutput
  VerifyVerdictRespected
