------------------------------ MODULE MCServer ------------------------------
(* Server for TLC; requests, flights and elements are interchangeable, and   *)
(* so are the keys of one route.                                             *)
EXTENDS Server, TLC

Symmetry == Permutations(Requests) \cup Permutations(Flights) \cup Permutations(Elements)
=============================================================================
