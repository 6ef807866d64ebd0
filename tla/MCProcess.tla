------------------------------ MODULE MCProcess ------------------------------
(* Process for TLC: two installers, one connection, the deadline of two        *)
(* seconds and the ten of a year.                                             *)
EXTENDS Process
=============================================================================
