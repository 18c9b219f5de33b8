------------------------------ MODULE SchemaFields ----------------------------
(***************************************************************************)
(* What a JSON schema says of the fields of a value:                       *)
(* lib/core/src/shared/utils/schema-utils.ts.                              *)
(*                                                                         *)
(* A document is a function from numbers to nodes, and a node refers to    *)
(* others by their numbers: that is how it is shared and recursive.        *)
(* Nothing stands for a definition that is `true` or missing, Never for    *)
(* `false`.  A value is a tree: an object or a list with its children, or  *)
(* a leaf, of which only matters whether it is meant for everybody (see    *)
(* WrappedRecords).  What the code does by recursion into a value is a     *)
(* function of the height that is left: MaxDepth - depth.                  *)
(***************************************************************************)
EXTENDS Integers, Sequences, SequencesExt, FiniteSets

CONSTANTS
    Names,      \* the names of fields, and the positions in lists
    Models,     \* the names of models
    MaxDepth    \* MAX_SCHEMA_DEPTH and MAX_WRAP_DEPTH: no value is deeper

Nothing == 0
Never == -1
Unsaid == -2        \* no additionalProperties

(* A node: $ref, private, whether it lists properties and which, the        *)
(* branches of anyOf, oneOf and allOf in this order, items (Nothing for a   *)
(* tuple), patternProperties with the names each pattern matches,           *)
(* additionalProperties, and $defs.                                         *)
Node == [ref |-> Nothing, private |-> FALSE, object |-> FALSE, props |-> <<>>,
         branches |-> <<>>, items |-> Nothing, patterns |-> <<>>,
         additional |-> Unsaid, defs |-> {}]

Options == [model : Models, validate : BOOLEAN, private : BOOLEAN]
NoWrap == [model |-> "none", validate |-> FALSE, private |-> FALSE]

Wraps == Options \cup {NoWrap}

(* The kinds of values, and the values of a height: a value has a set of    *)
(* fields, a leaf has none.                                                 *)
Labels == {"open", "private", "extra"}
Kinds == Labels \cup {"error", "object", "list"}
Trees ==
    LET trees[h \in 0..MaxDepth] ==
          [kind : Kinds, wrap : Wraps,
           kids : SUBSET IF h = 0 THEN {} ELSE [name : Names, value : trees[h - 1]]]
    IN  [h \in 0..MaxDepth |-> trees[h]]

Tree(kind, wrap, kids) == [kind |-> kind, wrap |-> wrap, kids |-> kids]
Leaf(kind) == Tree(kind, NoWrap, {})
Object(kids) == Tree("object", NoWrap, kids)
List(kids) == Tree("list", NoWrap, kids)
Field(k, v) == [name |-> k, value |-> v]
IsLeaf(v) == v.kind \notin {"object", "list"}

-----------------------------------------------------------------------------
(* Reading a schema. *)

(* dereference: follows $ref while it can be resolved. *)
Dereference(doc, n) ==
    LET at[depth \in 0..MaxDepth] ==
          IF depth = 0 THEN n
          ELSE LET m == at[depth - 1]
               IN  IF doc[m].ref \in DOMAIN doc THEN doc[m].ref ELSE m
    IN  at[MaxDepth]

(* collectApplicableSchemas: the node and the branches below it, each once, *)
(* in the order they are met.                                               *)
Collect(doc) ==
    LET visit[left \in 0..MaxDepth] ==
          [n \in DOMAIN doc |-> [collected \in Seq(DOMAIN doc) |->
             LET m == Dereference(doc, n)
                 branches == doc[m].branches
                 after[i \in 0..Len(branches)] ==
                     IF i = 0 THEN Append(collected, m)
                     ELSE IF branches[i] \in DOMAIN doc
                          THEN visit[left - 1][branches[i]][after[i - 1]]
                          ELSE after[i - 1]
             IN  IF left = 0 \/ m \in Range(collected) THEN collected
                 ELSE after[Len(branches)]]]
    IN  visit[MaxDepth]

Applicable(doc, n) ==
    LET s == Collect(doc)[n][<<>>] IN [i \in DOMAIN s |-> doc[s[i]]]

(* What is first in a sequence: the first of the elements at I, the first   *)
(* schema, the first that is not Never.                                     *)
FirstAt(s, I, default) == IF I = {} THEN default ELSE s[Min(I)]
FirstSchema(doc, s) == FirstAt(s, {i \in DOMAIN s : s[i] \in DOMAIN doc}, Nothing)
FirstSaid(s) == FirstAt(s, {i \in DOMAIN s : s[i] # Never}, Never)

Property(node, k) == IF k \in DOMAIN node.props THEN node.props[k] ELSE Never
Pattern(node, k) ==
    FirstSaid([j \in DOMAIN node.patterns |->
        IF k \in node.patterns[j].names THEN node.patterns[j].schema ELSE Never])

IsPrivate(doc, p) ==
    p \in DOMAIN doc /\ (doc[p].private \/ doc[Dereference(doc, p)].private)

ClosedMut(nodes) ==                 \* although a branch allows extras
    \E x \in nodes : x.object \/ x.patterns # <<>> \/ x.additional = Never

(* Closed to the fields it does not describe: no branch allows extras.      *)
Closed(nodes) ==
    /\ \A x \in nodes : x.additional \in {Unsaid, Never}
    /\ \E x \in nodes : x.object \/ x.patterns # <<>> \/ x.additional = Never

(* readSchemaFields and readItemSchema, of the nodes that apply; and whether*)
(* zod takes the value for an object of its own (shaped).                   *)
Read(doc, nodes) ==
    LET all == Range(nodes)
    IN  [private |-> {k \in Names : \E x \in all : IsPrivate(doc, Property(x, k))},
         named   |-> {k \in Names : \E x \in all : Property(x, k) # Never},
         schema  |-> [k \in Names |->
             FirstSchema(doc, [i \in DOMAIN nodes |-> Property(nodes[i], k)])],
         pattern |-> [k \in Names |-> FirstSaid([i \in DOMAIN nodes |-> Pattern(nodes[i], k)])],
         additional |-> FirstSchema(doc, [i \in DOMAIN nodes |-> nodes[i].additional]),
         closed  |-> Closed(all),
         items   |-> FirstSchema(doc, [i \in DOMAIN nodes |-> nodes[i].items]),
         shaped  |-> \E x \in all : x.object \/ x.additional # Unsaid]

(* What is read at each node of a document. *)
Reading(doc) == [n \in DOMAIN doc |-> Read(doc, Applicable(doc, n))]

(* readUnnamedField: the first pattern that matches, else what is said of   *)
(* additional properties.                                                   *)
Unnamed(fields, k) ==
    IF fields.pattern[k] # Never THEN fields.pattern[k] ELSE fields.additional

SchemaOf(fields, k) ==
    IF k \in fields.named THEN fields.schema[k] ELSE Unnamed(fields, k)

Described(fields, k) == ~fields.closed \/ k \in fields.named \/ fields.pattern[k] # Never

-----------------------------------------------------------------------------
(* Stripping a value, by what is read in its document. *)

KidSchema(fields, v, k) == IF v.kind = "list" THEN fields.items ELSE SchemaOf(fields, k)

(* stripValue: which fields of an object stay.  The fields a schema does    *)
(* not describe go from plain objects only.                                 *)
StripKeeps(fields, v, k, keepPrivate) ==
    v.kind = "object" =>
       /\ keepPrivate \/ k \notin fields.private
       /\ fields.closed /\ v.wrap = NoWrap => Described(fields, k)

(* A value that loses nothing is returned as it is, one that does is        *)
(* rebuilt as a plain object.                                               *)
Rebuilt(v, kids) ==
    IF kids = v.kids THEN v ELSE Tree(v.kind, NoWrap, kids)

(* What becomes of a field of a value by its schema, if it has one.         *)
Below(become, reading, f, schema) ==
    IF schema \in DOMAIN reading THEN Field(f.name, become[schema][f.value]) ELSE f

(* stripValue. *)
Strip(reading, keepPrivate) ==
    LET strip[h \in 0..MaxDepth] ==
          [n \in Nat |-> [v \in Trees[h] |->
             IF IsLeaf(v) THEN v
             ELSE Rebuilt(v, {Below(strip[h - 1], reading, f, KidSchema(reading[n], v, f.name)) :
                                f \in {x \in v.kids : StripKeeps(reading[n], v, x.name, keepPrivate)}})]]
    IN  strip

-----------------------------------------------------------------------------
(* Stripping a schema. *)

(* The properties of a node that are published. *)
Public(doc, n) ==
    {k \in DOMAIN doc[n].props : LET p == doc[n].props[k] IN p \in DOMAIN doc => ~doc[p].private}

WalkedMut(doc, n) ==    \* no unions
    {doc[n].props[k] : k \in Public(doc, n)} \cup {doc[n].items} \cup doc[n].defs

(* The schemas below a node; $ref is not followed. *)
Walked(doc, n) ==
    {doc[n].props[k] : k \in Public(doc, n)} \cup Range(doc[n].branches)
      \cup {doc[n].items} \cup doc[n].defs

(* The schemas the walk from a root comes to. *)
WalkedFrom(doc, root) ==
    LET walked[depth \in 0..MaxDepth] ==
          IF depth = 0 THEN {}
          ELSE {root} \cup ((UNION {Walked(doc, n) : n \in walked[depth - 1]}) \cap DOMAIN doc)
    IN  walked[MaxDepth]

(* stripSchema: deletes the private properties of every node it walks, in   *)
(* the document itself.                                                     *)
StripSchema(doc, root) ==
    LET walked == WalkedFrom(doc, root)
    IN  [n \in DOMAIN doc |->
           IF n \in walked
           THEN [doc[n] EXCEPT !.props = [k \in Public(doc, n) |-> doc[n].props[k]]]
           ELSE doc[n]]
=============================================================================
