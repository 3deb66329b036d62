------------------------------ MODULE MCRouting ------------------------------
(* Two models, "b-32b" being the one the fallback for haiku looks for, and *)
(* three jobs, enough for a handoff of one model beside the other.         *)
EXTENDS Routing

MCModelList == <<"a", "b-32b">>
MCServed    == [m \in ToSet(MCModelList) |-> IF m = "a" THEN "org/a" ELSE m]
=============================================================================
