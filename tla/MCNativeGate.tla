---------------------------- MODULE MCNativeGate ----------------------------
(* NativeGate for TLC.  Callers, directories and threads are interchangeable, *)
(* but there is no symmetry where fairness counts.                           *)
EXTENDS NativeGate
=============================================================================
