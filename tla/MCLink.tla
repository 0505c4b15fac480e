------------------------------- MODULE MCLink -------------------------------
(* One key on our box, with another box beside it.                          *)
EXTENDS Link
=============================================================================
