------------------------- MODULE MCSerialEvaluation -------------------------
(* Small instances of SerialEvaluation; the constants are given by the cfg.  *)
EXTENDS SerialEvaluation
=============================================================================
