---------------------------- MODULE MC_DcpUdelay ----------------------------
(* dcp_udelay for a few delays, at a reduced counter width.                *)
EXTENDS DcpUdelay
=============================================================================
