--------------------------- MODULE MC_CaamKeyConv ---------------------------
(* The three key conversions of caam_dsa.c over every small bignum.        *)
EXTENDS CaamKeyConv
=============================================================================
