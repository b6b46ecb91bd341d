---------------------------- MODULE MCStateLock ----------------------------
(* StateLock for TLC.  Identifiers are numbers, so that NewId is the least    *)
(* one that nothing carries: one behaviour stands for all its renamings.      *)
EXTENDS StateLock
=============================================================================
