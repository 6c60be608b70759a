----------------------------- MODULE MCFtsIndex -----------------------------
(* Values of FtsIndex's constants for TLC. *)
EXTENDS FtsIndex

\* any message may turn up under any id
AnyContent == [id \in Ids |-> SUBSET Terms]

=============================================================================
