--------------------------- MODULE MC_DcpLeftShift ---------------------------
(* left_shift_buffer over every input of at most MaxSize bytes.            *)
EXTENDS DcpLeftShift
=============================================================================
