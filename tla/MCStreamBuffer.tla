-------------------------- MODULE MCStreamBuffer --------------------------
(* StreamBuffer for TLC: nothing to define but the constants.                 *)
EXTENDS StreamBuffer
=============================================================================
