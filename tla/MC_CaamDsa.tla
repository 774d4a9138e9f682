----------------------------- MODULE MC_CaamDsa -----------------------------
(* The CAAM DSA driver for TLC: the pointer width and whether             *)
(* crypto_bignum_bin2bn may fail come from the cfg.                        *)
EXTENDS CaamDsa
=============================================================================
