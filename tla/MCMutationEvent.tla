---------------------------- MODULE MCMutationEvent ---------------------------
(* Instances of MutationEvent: two keys, one of a record that exists.       *)
EXTENDS MutationEvent

MCKeys == {1, 2}
MCStored == {1}
=============================================================================
