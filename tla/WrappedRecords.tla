---------------------------- MODULE WrappedRecords ----------------------------
(***************************************************************************)
(* Records that pass through the services of an application and leave it:  *)
(* the wrappers of lib/core/src/schema/wrap-model.ts, which carry the model*)
(* of a record until it is serialised, and the models of                   *)
(* lib/core/src/schema/model.ts, with zod                                  *)
(* (lib/zod/src/zod-model.ts) as the validator.                            *)
(*                                                                         *)
(* A leaf is "open", "private" or "extra": its field is public, private or *)
(* unknown to the model of the record it belongs to.  That is read off the *)
(* document by Labelled, independently of SchemaFields.                    *)
(***************************************************************************)
EXTENDS SchemaFields

CONSTANTS
    Document,   \* the schemas of all models, private fields included
    Roots,      \* Roots[m]: the schema of model m
    Plain,      \* values records are made of
    MaxSteps    \* bound: calls in a behaviour

VARIABLES
    own,    \* the model of the record
    value,  \* the record, and what it has been put in
    place,  \* the field of the payload the record is in, or "alone"
    out,    \* what left the application or entered it
    steps   \* calls so far

vars == <<own, value, place, out, steps>>

Nodes == DOMAIN Document

-----------------------------------------------------------------------------
(* What a document means for the leaves of a value. *)

(* Everything that can be reached from a set by the edges of a graph.       *)
Reached(edges, S) ==
    LET within[i \in 0..Cardinality(DOMAIN edges)] ==
          IF i = 0 THEN S
          ELSE LET W == within[i - 1] IN W \cup UNION {edges[n] : n \in W}
    IN  within[Cardinality(DOMAIN edges)]

(* The schemas that describe a value besides one that does: its definition  *)
(* and its branches.                                                        *)
Besides == [n \in Nodes |-> ({Document[n].ref} \cup Range(Document[n].branches)) \cap Nodes]
Near == [n \in Nodes |-> Reached(Besides, {n})]
Closure(S) == UNION {Near[n] : n \in S}

PropertyNodes(S, k) ==
    {Document[n].props[k] : n \in {m \in S : k \in DOMAIN Document[m].props}}
PatternNodes(S, k) ==
    UNION {{p.schema : p \in {q \in Range(Document[n].patterns) : k \in q.names}} : n \in S}
FurtherNodes(S) == {Document[n].additional : n \in S}

(* The schemas a field of an object has by the schemas S of the object. *)
FieldNodes(S, k) ==
    (IF PropertyNodes(S, k) \ {Never} # {} THEN PropertyNodes(S, k)
     ELSE IF PatternNodes(S, k) \ {Never} # {} THEN PatternNodes(S, k)
     ELSE FurtherNodes(S)) \cap Nodes
ItemNodes(S) == {Document[n].items : n \in S} \cap Nodes

Known(S, k) ==
    \/ (PropertyNodes(S, k) \cup PatternNodes(S, k)) \ {Never} # {}
    \/ FurtherNodes(S) \ {Unsaid, Never} # {}
    \/ \A n \in S : /\ ~Document[n].object /\ Document[n].patterns = <<>>
                    /\ Document[n].additional # Never

Secret(S, k) ==
    \E p \in Closure(PropertyNodes(S, k) \cap Nodes) : Document[p].private

(* A field is private when any schema that may describe it says so, and     *)
(* unknown when none describes it and none allows further fields.           *)
Label(S, k, label) ==
    IF label # "open" THEN label
    ELSE IF Secret(S, k) THEN "private"
    ELSE IF ~Known(S, k) THEN "extra" ELSE "open"

(* Where a value is: the schemas that describe it, and the label of all     *)
(* that is in it.                                                           *)
Places == [schemas : SUBSET Nodes, label : Labels]
At(m) == [schemas |-> {Roots[m]}, label |-> "open"]
KidPlace(at, v, k) ==
    LET S == Closure(at.schemas) IN
    IF v.kind = "list" THEN [schemas |-> ItemNodes(S), label |-> at.label]
    ELSE [schemas |-> FieldNodes(S, k), label |-> Label(S, k, at.label)]

(* A value with the labels of its leaves. *)
Labelled[h \in 0..MaxDepth] ==
    [at \in Places |-> [v \in Trees[h] |->
       IF IsLeaf(v) THEN Leaf(at.label)
       ELSE Tree(v.kind, v.wrap,
                 {Field(f.name, Labelled[h - 1][KidPlace(at, v, f.name)][f.value]) : f \in v.kids})]]

Leaves[h \in 0..MaxDepth] ==
    [v \in Trees[h] |->
       IF IsLeaf(v) THEN {v.kind} ELSE UNION {Leaves[h - 1][f.value] : f \in v.kids}]

-----------------------------------------------------------------------------
(* Wrappers. *)

(* wrapModel: the same fields with another prototype. *)
Wrapped(v, o) == IF v.kind = "object" THEN Tree(v.kind, o, v.kids) ELSE v
Unwrapped(v) == Tree(v.kind, NoWrap, v.kids)

(* What becomes of a wrapper: none, or other settings with the same model.  *)
Mapped(wrap, o) == IF NoWrap \in {wrap, o} THEN NoWrap ELSE [o EXCEPT !.model = wrap.model]

(* What becomes of the fields of a value. *)
Each(become, v) == {Field(f.name, become[f.value]) : f \in v.kids}

MapDeepMut(o) ==                \* stops at the outermost wrapper
    LET map[h \in 0..MaxDepth] ==
          [v \in Trees[h] |->
             IF IsLeaf(v) THEN v
             ELSE IF v.wrap # NoWrap THEN Tree(v.kind, Mapped(v.wrap, o), v.kids)
             ELSE Tree(v.kind, NoWrap, Each(map[h - 1], v))]
    IN  map

(* mapDeep with wrapModel, or unwrapModel when o is NoWrap: every wrapper   *)
(* in the value is replaced.                                                *)
MapDeep(o) ==
    LET map[h \in 0..MaxDepth] ==
          [v \in Trees[h] |->
             IF IsLeaf(v) THEN v
             ELSE Tree(v.kind, Mapped(v.wrap, o), Each(map[h - 1], v))]
    IN  map

RewrapDeep(v, o) == MapDeep(o)[MaxDepth][v]
UnwrapDeep(v) == MapDeep(NoWrap)[MaxDepth][v]

-----------------------------------------------------------------------------
(* Models. *)

(* getInternalJSONSchema, of the document with private fields. *)
Told == Reading(Document)

(* toJSONSchema: the document a model is asked for, generated anew each     *)
(* time and so safe to strip in place.                                      *)
Published == [m \in Models |-> StripSchema(Document, Roots[m])]
ToldPublished == [m \in Models |-> Reading(Published[m])]

(* What zod makes of a value it accepts: new objects with the fields the    *)
(* schema describes; what a schema says nothing of is passed on as it is.   *)
Parsed[h \in 0..MaxDepth] ==
    [n \in Nat |-> [v \in Trees[h] |->
       IF IsLeaf(v) \/ (v.kind = "object" /\ ~Told[n].shaped) THEN v
       ELSE Tree(v.kind, NoWrap,
                 {Below(Parsed[h - 1], Told, f, KidSchema(Told[n], v, f.name)) :
                    f \in {x \in v.kids : v.kind = "list" \/ Described(Told[n], x.name)}})]]

(* stripExcludedFields. *)
StripExcluded(h, m, v, keepPrivate) == Strip(Told, keepPrivate)[h][Roots[m]][v]

Error == Leaf("error")

(* validate and validateSync, by a model that accepts the values in ok: the *)
(* value is stripped first.  Issues are returned or thrown.                 *)
Validated(h, m, v, keepPrivate, ok) ==
    IF m \in ok THEN Parsed[h][Roots[m]][StripExcluded(h, m, v, keepPrivate)] ELSE Error

(* washPayload and validatePayload: unless asked to validate, a payload the *)
(* model rejects, or cannot judge at once, is passed through.               *)
Source(h, v, ok) ==
    IF v.wrap.validate \/ v.wrap.model \in ok
    THEN Validated(h, v.wrap.model, Unwrapped(v), TRUE, ok) ELSE Unwrapped(v)

ToJSONMut(h, v, ok) ==              \* what the model accepted is not stripped
    IF v.wrap.model \in ok THEN Source(h, v, ok)
    ELSE StripExcluded(h, v.wrap.model, Source(h, v, ok), v.wrap.private)

(* toJSON of a wrapper. *)
ToJSON(h, v, ok) == StripExcluded(h, v.wrap.model, Source(h, v, ok), v.wrap.private)

(* JSON.stringify: calls toJSON of every wrapper it meets, from without. *)
Sent(h, v, ok) == IF v.wrap = NoWrap THEN v ELSE ToJSON(h, v, ok)

Json(ok) ==
    LET json[h \in 0..MaxDepth] ==
          [v \in Trees[h] |->
             LET w == Sent(h, v, ok) IN
             IF IsLeaf(w) THEN w
             ELSE Tree(w.kind, w.wrap, Each(json[h - 1], w))]
    IN  json

(* Whether a node says anything of the fields of an object. *)
Says(n) == Document[n].object \/ Document[n].patterns # <<>> \/ Document[n].additional # Unsaid

(* What is read of a node is what the document means: of a document of      *)
(* which every schema is legible, no two schemas say different things of    *)
(* one field.                                                               *)
Legible(n) ==
    LET S == Near[n]
    IN  /\ \A k \in Names :
             /\ k \in Told[n].private <=> Secret(S, k)
             /\ Described(Told[n], k) <=> Known(S, k)
             /\ FieldNodes(S, k) = {SchemaOf(Told[n], k)} \cap Nodes
        /\ ItemNodes(S) = {Told[n].items} \cap Nodes
        /\ Told[n].shaped => \E m \in S : Says(m)

AllLegible == \A n \in Nodes : Legible(n)

(* A document that is easy to read: a schema is one of few for a value, one *)
(* that refers to another says nothing else and in the end refers to one    *)
(* that does not, of one field or the items of a list there is one schema,  *)
(* and what makes a field private is its own schema or the definition.      *)
Single(S) == \A a, b \in S : a = b
Orderly(n) ==
    LET S == Near[n]
    IN  /\ Cardinality(S) < MaxDepth
        /\ Document[Dereference(Document, n)].ref \notin Nodes
        /\ Document[n].ref \in Nodes =>
              ~Says(n) /\ Document[n].branches = <<>> /\ Document[n].items \notin Nodes
        /\ Single(ItemNodes(S)) /\ Single(FurtherNodes(S) \cap Nodes)
        /\ \A k \in Names :
              /\ Single(PropertyNodes(S, k) \ {Never}) /\ Single(PatternNodes(S, k) \ {Never})
              /\ \A p \in PropertyNodes(S, k) \cap Nodes :
                    (\E q \in Near[p] : Document[q].private) => IsPrivate(Document, p)

AllOrderly == \A n \in Nodes : Orderly(n)

ASSUME RecordsAssumption ==
    /\ MaxDepth \in Nat \ {0} /\ {"first", "id", "sub"} \subseteq Names
    /\ "none" \notin Models /\ Roots \in [Models -> Nodes]
    /\ IsFiniteSet(Nodes) /\ Nodes \subseteq Nat \ {0}
    /\ \A n \in Nodes : ~Document[n].object => DOMAIN Document[n].props = {}
    /\ \A v \in Plain : v \in Trees[MaxDepth - 1] /\ UnwrapDeep(v) = v

ASSUME DocumentAssumption ==
    \A n \in Nodes : /\ DOMAIN Document[n] = DOMAIN Node
                     /\ Document[n].branches \in Seq(Int)
                     /\ Document[n].patterns \in Seq([names : SUBSET Names, schema : Int])

-----------------------------------------------------------------------------
(* The application. *)

NoOut == [json |-> Error, ok |-> {}, as |-> "none"]

Init ==
    /\ own \in Models
    /\ \E v \in Plain : value = Labelled[MaxDepth][At(own)][v]
    /\ place = "alone" /\ out = NoOut /\ steps = 0

Do == /\ out = NoOut /\ steps < MaxSteps
      /\ steps' = steps + 1 /\ UNCHANGED own

(* wrapDetail and wrapSummary: a service returns the record with its model, *)
(* or another service a payload the record is part of.                      *)
Wrap(o) ==
    /\ Do /\ value.kind = "object"
    /\ (o.model = own) = (place = "alone")
    /\ value' = Wrapped(value, o)
    /\ UNCHANGED <<place, out>>

Embed(field, payload) ==
    /\ Do /\ place = "alone" /\ value.wrap # NoWrap
    /\ value' = payload /\ place' = field
    /\ UNCHANGED out

(* A trusted consumer reconfigures the payload, storage unwraps it. *)
Rewrap(o) == Do /\ value' = RewrapDeep(value, o) /\ UNCHANGED <<place, out>>
Unwrap == Do /\ value' = UnwrapDeep(value) /\ UNCHANGED <<place, out>>

(* A response or an event is serialised. *)
Serialise(ok) ==
    /\ Do
    /\ out' = [json |-> Json(ok)[MaxDepth][value], ok |-> ok, as |-> "json"]
    /\ UNCHANGED <<value, place>>

(* A client sends a record, and its model validates it. *)
Validate(ok) ==
    /\ Do /\ steps = 0
    /\ out' = [json |-> Validated(MaxDepth, own, value, FALSE, ok), ok |-> ok, as |-> "input"]
    /\ UNCHANGED <<value, place>>

Next ==
    \/ \E o \in Options : Wrap(o)
    \/ Embed("first", List({Field("first", value)}))
    \/ Embed("sub", Object({Field("id", Leaf("open")), Field("sub", value)}))
    \/ \E o \in Options : o.model = own /\ Rewrap(o)
    \/ Unwrap
    \/ \E ok \in {{}, Models, {own}} : Serialise(ok) \/ Validate(ok)

Spec == Init /\ [][Next]_vars

-----------------------------------------------------------------------------
(* Properties. *)

InPlace(v) == IF place = "alone" THEN v ELSE (CHOOSE f \in v.kids : f.name = place).value
Record == InPlace(value)

(* The payload is wrapped too, by a model that says something of the fields *)
(* of the record.                                                           *)
Overruled ==
    /\ place # "alone" /\ value.wrap # NoWrap
    /\ \E n \in Closure({SchemaOf(Told[Roots[value.wrap.model]], place)} \cap Nodes) : Says(n)

(* "No private field and no undeclared field goes out", and none comes in:  *)
(* what a wrapped record serialises to has no leaf that its model hides,    *)
(* whether the model accepts the record or not, however deep the leaf is    *)
(* and whatever payload the record is in; and what validation passes on has *)
(* none either.  A payload whose own model has a shape for the record       *)
(* decides instead: then nothing goes out that this model calls private.    *)
Sealed ==
    LET hidden == Leaves[MaxDepth][out.json] \cap {"private", "extra"} IN
    /\ out.as = "input" => hidden = {}
    /\ out.as = "json" /\ Record.wrap # NoWrap /\ ~Record.wrap.private /\ ~Overruled
         => hidden = {}
    /\ out.as = "json" /\ value.wrap # NoWrap /\ ~value.wrap.private
         => "private" \notin Leaves[MaxDepth][Labelled[MaxDepth][At(value.wrap.model)][out.json]]

(* json has every public leaf of the value it was made from. *)
Keeps[h \in 0..MaxDepth] ==
    [json \in Trees[h] |-> [v \in Trees[h] |->
       IF IsLeaf(v) THEN v.kind = "open" => json = v
       ELSE /\ ~IsLeaf(json)
            /\ \A f \in v.kids : "open" \in Leaves[h - 1][f.value] =>
                 \E g \in json.kids : g.name = f.name /\ Keeps[h - 1][g.value][f.value]]]

(* "A payload is never stripped on the strength of a branch it does not     *)
(* match": a wrapped record keeps every field that its model lets out.      *)
Complete ==
    out.as = "json" /\ place = "alone" /\ out.json # Error => Keeps[MaxDepth][out.json][value]

(* The schemas of what a model sends. *)
Shown(root) ==
    Reached([n \in Nodes |->
        Besides[n] \cup (({Document[n].props[k] : k \in Public(Document, n)} \cup {Document[n].items})
                          \cap Nodes)], {root})

(* Every field is in the properties of a node, and private there. *)
Listed(n) == /\ Document[n].additional \in {Unsaid, Never}
             /\ Document[n].patterns = <<>>
             /\ Document[n].ref \in Nodes => ~Document[Document[n].ref].private

(* The models of which every schema lists its fields. *)
Listing == {m \in Models : \A n \in Shown(Roots[m]) : Listed(n)}

(* The schemas below that of a model, definitions included; and documents   *)
(* of which they are all the schemas that list what the model sends, and    *)
(* few.                                                                     *)
Under(root) ==
    Reached([n \in Nodes |->
        ({Document[n].props[k] : k \in Public(Document, n)} \cup Range(Document[n].branches)
           \cup {Document[n].items} \cup Document[n].defs) \cap Nodes], {root})

AllUnder ==
    \A m \in Listing :
        /\ Cardinality(Under(Roots[m])) < MaxDepth
        /\ \A n \in Shown(Roots[m]) : Document[n].object => n \in Under(Roots[m])

(* The schema a model publishes describes what it sends, and does not name  *)
(* what it hides: reducing a record to the published schema gives what      *)
(* stripping its private fields gives, for a document that lists its fields.*)
(* (The schemas of patternProperties and additionalProperties are published *)
(* as they are, and so is a reference to a private definition.)             *)
Agreed ==
    value.wrap.model = own /\ own \in Listing
    => Strip(ToldPublished[own], TRUE)[MaxDepth][Roots[own]][Unwrapped(value)]
           = StripExcluded(MaxDepth, own, Unwrapped(value), FALSE)

(* What is unwrapped to be stored, or rewrapped for a trusted consumer,     *)
(* keeps all its data at any depth, and no wrapper or each with its model.  *)
Trusted ==
    /\ Json({})[MaxDepth][UnwrapDeep(value)] = UnwrapDeep(value)
    /\ \A o \in Options : o.model = own =>
           /\ UnwrapDeep(RewrapDeep(value, o)) = UnwrapDeep(value)
           /\ InPlace(RewrapDeep(value, o)).wrap =
                  IF Record.wrap = NoWrap THEN NoWrap ELSE o
=============================================================================
