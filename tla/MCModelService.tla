---------------------------- MODULE MCModelService ----------------------------
(* Instances of ModelService: two keys that callers name, further keys for  *)
(* the generator.                                                           *)
EXTENDS ModelService

Anything == [given |-> {1, 2}, seeded |-> {1}, kinds |-> Mutations,
             batches |-> {}, silent |-> {FALSE}, subscribers |-> {},
             calls |-> 3, active |-> 2]

(* Subscribers that interfere, and batches with repeated and missing keys.  *)
Interfering == [Anything EXCEPT
    !.kinds = {"update", "bulkUpsert", "duplicate"},
    !.batches = {<<2, 2>>, <<0, 0>>},
    !.subscribers = {"replace", "rekey", "veto", "reject"}, !.calls = 2]

(* Sequences of every kind of mutation, one call at a time. *)
Sequential == [Anything EXCEPT !.batches = {<<1, 2>>, <<0, 2>>}, !.active = 1]

(* Everything that moves records, two calls at a time.                      *)
Removing == [Anything EXCEPT !.kinds = Trashing \cup {"emptyTrash"}]

(* A query beside a mutation that may be vetoed. *)
Reading == [Anything EXCEPT !.kinds = Mutations \cup Queries, !.batches = {<<1, 2>>},
                            !.subscribers = {"veto"}, !.calls = 2]

(* Mutations without events. *)
Quiet == [Sequential EXCEPT !.silent = {TRUE}, !.calls = 2]

AllClients == {Quiet, Interfering, Sequential, Removing, Reading}
=============================================================================
