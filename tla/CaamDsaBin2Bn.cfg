\* crypto_bignum_bin2bn allowed to fail: get_keypair_domain_params ignores
\* its result when it copies generated domain parameters into the key.
CONSTANTS
  PtrWords = 1
  Bin2BnMayFail = TRUE
SPECIFICATION Spec
PROPERTIES
  SuccessCarriesDeviceOutput
