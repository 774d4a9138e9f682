\* 32-bit CAAM with every crypto_bignum_bin2bn allowed to fail: the driver
\* refines the DSA service.
CONSTANTS
  PtrWords = 1
  Bin2BnMayFail = TRUE
SPECIFICATION Spec
PROPERTIES
  DsaRefinement
