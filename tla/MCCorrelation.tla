---------------------------- MODULE MCCorrelation ----------------------------
(* Correlation on a SEQ of a few values, so that it wraps and fills up.       *)
EXTENDS Correlation
=============================================================================
