------------------------------ MODULE MCMemory ------------------------------
(* An instance of Memory: one address besides UCOW. *)
EXTENDS Memory

MCData == <<"a">>
=============================================================================
