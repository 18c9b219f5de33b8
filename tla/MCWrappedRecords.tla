--------------------------- MODULE MCWrappedRecords ---------------------------
(* Instances of WrappedRecords: the schemas of a few models, and records of *)
(* up to three fields with an object or a list of objects in one of them.   *)
EXTENDS WrappedRecords, TLC

MCNames == {"id", "key", "sub", "first"}
MCModels == {"flat", "tree", "union", "map", "pattern", "open", "hidden", "alias", "extended"}

Closing(props) == [Node EXCEPT !.object = TRUE, !.props = props]
Ref(n) == [Node EXCEPT !.ref = n]
Private == [Node EXCEPT !.private = TRUE]
AnyOf(branches) == [Node EXCEPT !.branches = branches]
Items(n) == [Node EXCEPT !.items = n]

MCDocument == <<
    (* 1, 2: a public and a private leaf *)
    Node, Private,
    (* 3: a closed object with both *)
    Closing(("id" :> 1) @@ ("key" :> 2)),
    (* 4, 5: a tree of itself, with children in a list *)
    Closing(("id" :> 1) @@ ("key" :> 2) @@ ("sub" :> 5)), Items(6), Ref(4),
    (* 7, 8, 9: a union of object 3 and one with an object of its own *)
    AnyOf(<<3, 8>>), Closing(("id" :> 1) @@ ("sub" :> 3)), Ref(7),
    (* 10: closed but for the fields of object 3 *)
    [Closing("id" :> 1) EXCEPT !.additional = 3],
    (* 11: a field that is forbidden, and a pattern *)
    [Closing(("id" :> 1) @@ ("key" :> Never)) EXCEPT
        !.patterns = <<[names |-> {"sub"}, schema |-> 3]>>],
    (* 12: an open object *)
    [Closing(("id" :> 1) @@ ("key" :> 2) @@ ("sub" :> 1)) EXCEPT !.additional = Nothing],
    (* 13, 14: an object whose object is private *)
    [Closing("id" :> 1) EXCEPT !.private = TRUE],
    Closing(("id" :> 1) @@ ("sub" :> 13)),
    (* 15, 16: a key that refers to a private definition *)
    Ref(2), Closing(("id" :> 1) @@ ("key" :> 15) @@ ("sub" :> 3)),
    (* 17, 18: a union of object 3 and an open one *)
    [Closing("id" :> 1) EXCEPT !.additional = Nothing], AnyOf(<<3, 17>>)
>>

MCRoots == [flat |-> 3, tree |-> 4, union |-> 7, map |-> 10, pattern |-> 11,
            open |-> 12, hidden |-> 14,
            alias |-> 16, extended |-> 18]

Small == {Object({Field(k, Leaf("open")) : k \in s}) : s \in SUBSET {"id", "key"}}
Subs == {Leaf("open")} \cup Small \cup {List({Field("first", x)}) : x \in Small}
MCPlain == {Object({Field(k, IF k = "sub" THEN x ELSE Leaf("open")) : k \in s}) :
                s \in SUBSET {"id", "key", "sub"}, x \in Subs}

ASSUME DocumentOrderly == AllOrderly /\ AllUnder
=============================================================================
