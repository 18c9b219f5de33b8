-------------------------------- MODULE Access --------------------------------
(***************************************************************************)
(* From the bearer token of a request to the call of a service: the        *)
(* sessions of @declaro/auth (domain/services/auth-service.ts and          *)
(* infrastructure/impl/redis-auth-service.ts), what its module registers   *)
(* in a request context (application/module.ts), its AuthValidator, the    *)
(* PermissionValidator of @declaro/core, and the controllers of            *)
(* @declaro/data.                                                          *)
(*                                                                         *)
(* A session is stored in Redis under an identifier, for a limited time;   *)
(* a token names the identifier and expires on its own.  A request reads   *)
(* the session, builds its AuthValidator from what it read, and asks that  *)
(* validator before it calls the service.  Meanwhile time passes, and      *)
(* sessions are created, replaced and deleted.                             *)
(*                                                                         *)
(* A claim is the name of an action: the descriptors that controllers ask  *)
(* for end in ":*", so they match a claim for the action whatever its      *)
(* scope.  Claims for other resources match nothing and are left out.      *)
(*                                                                         *)
(* The operators whose names end in Mut are slips the properties are there *)
(* to catch; no definition uses them.                                      *)
(***************************************************************************)
EXTENDS Naturals

CONSTANTS
    Tokens,
    Sid,          \* Sid[t]: the session identifier in the payload of token t
    Exp,          \* Exp[t]: the time at which t expires
    Genuine,      \* the tokens that are signed with the secret
    Ids,          \* the session identifiers
    Teams,
    Claims,       \* the names of actions
    Inputs,       \* what createSession is called with
    Methods,      \* the methods of the controllers that are requested
    Requests,
    Saves,        \* calls of createSession
    None,         \* no token, no team, no session
    Timeout,      \* authConfig.authTimeout
    MaxTime       \* bound: the clock

(* A session: its token, its claims, and the claims of its memberships.     *)
Session == [token : Tokens, claims : SUBSET Claims,
            member : UNION {[S -> SUBSET Claims] : S \in SUBSET Teams}]

ASSUME AccessAssumption ==
    /\ Sid \in [Tokens -> Ids] /\ Exp \in [Tokens -> Nat] /\ Genuine \subseteq Tokens
    /\ Inputs \subseteq Ids \X Session
    /\ None \notin Tokens \cup Teams \cup Session
    /\ Timeout \in Nat \ {0} /\ MaxTime \in Nat

VARIABLES
    now,        \* the clock, in seconds
    store,      \* store[i]: the session under i and when it expires
    saves,      \* saves[s]: a call of createSession
    requests    \* requests[r]: a request

vars == <<now, store, saves, requests>>

Slot == [session : Session \cup {None}, until : 0..(MaxTime + Timeout)]

Save == [phase : {"free", "saved", "failed"}, id : {None}, session : {None}]
          \cup [phase : {"sent", "stored"}, id : Ids, session : Session]

Running == {"arrived", "reading", "rereading", "resolved", "granted"}

(* own is the session the validator holds, active the team it takes claims  *)
(* of; seen, steady and checked are history: the sessions stored for the    *)
(* token since the request came, whether there was only one, and when       *)
(* permission was asked.                                                    *)
Request == [phase : Running \cup {"free", "served", "refused"},
            token : Tokens \cup {None}, team : Teams \cup {None},
            method : Methods \cup {None}, valid : BOOLEAN,
            own : Session \cup {None}, active : Teams \cup {None},
            seen : SUBSET Session, steady : BOOLEAN, checked : 0..MaxTime]

Empty == [session |-> None, until |-> 0]
NoSave == [phase |-> "free", id |-> None, session |-> None]
NoRequest == [phase |-> "free", token |-> None, team |-> None, method |-> None,
              valid |-> TRUE, own |-> None, active |-> None,
              seen |-> {}, steady |-> TRUE, checked |-> 0]

(* Redis outlives the process: there may be sessions at the start.          *)
Init ==
    /\ now = 0
    /\ store \in [Ids -> {Empty} \cup {[session |-> input[2], until |-> Timeout] :
                                          input \in Inputs}]
    /\ \A i \in Ids : store[i] = Empty \/ <<i, store[i].session>> \in Inputs
    /\ saves = [s \in Saves |-> NoSave]
    /\ requests = [r \in Requests |-> NoRequest]

-----------------------------------------------------------------------------
(* Permission rules. *)

Rule(type, claims, nested) == [type |-> type, claims |-> claims, nested |-> nested]
SomeOf(claims) == Rule("SOME_OF", claims, {})
AllOf(claims) == Rule("ALL_OF", claims, {})

(* validateRule, where holding are the nested validators that accept.       *)
ValidateRule(rule, claims, holding) ==
    \/ rule.type = "ALL_OF"  /\ rule.claims \subseteq claims
                             /\ rule.nested \subseteq holding
    \/ rule.type = "NONE_OF" /\ rule.claims \cap claims = {}
                             /\ rule.nested \cap holding = {}
    \/ rule.type = "SOME_OF" /\ \/ rule.claims \cap claims # {}
                                \/ rule.nested \cap holding # {}

(* safeValidate of a validator without nested ones, and validate of one with *)
(* such validators nested in it; the repository nests no deeper.            *)
SafeValidate(rules, claims) == \A rule \in rules : ValidateRule(rule, claims, {})

Validate(rules, claims) ==
    \A rule \in rules :
        ValidateRule(rule, claims, {v \in rule.nested : SafeValidate(v, claims)})

(* The claims of which one is enough for a method of a controller.          *)
Enough == [
    load |-> {"load", "read"},        loadMany |-> {"loadMany", "read"},
    search |-> {"search", "read"},    count |-> {"count", "read"},
    create |-> {"create", "write"},   update |-> {"update", "write"},
    remove |-> {"remove", "write"},   restore |-> {"restore", "write"},
    upsert |-> {"write"},             bulkUpsert |-> {"write"},
    permanentlyDeleteFromTrash |-> {"permanently-delete-from-trash",
                                    "permanently-delete", "empty-trash"},
    permanentlyDelete |-> {"permanently-delete"},
    emptyTrash |-> {"empty-trash"}]

ASSUME MethodsAssumption == Methods \subseteq DOMAIN Enough

Upserting == {"upsert", "bulkUpsert"}
Parsing == {"create", "update"} \cup Upserting    \* methods that take an input

PermissionsMut(method) ==
    IF method \in Upserting
    THEN {SomeOf(Enough[method]), AllOf({"create", "update"})}
    ELSE {SomeOf(Enough[method])}

(* createPermissions, updatePermissions and so on.                          *)
Permissions(method) ==
    IF method \in Upserting
    THEN {Rule("SOME_OF", Enough[method], {{AllOf({"create", "update"})}})}
    ELSE {SomeOf(Enough[method])}

-----------------------------------------------------------------------------
(* Sessions. *)

(* validateJWT accepts the token. *)
ValidJWT(t) == t \in Genuine /\ now < Exp[t]

Stored(r, st) == IF requests[r].token = None THEN None
                 ELSE st[Sid[requests[r].token]].session

(* What requests remember when the store becomes st: the sessions that were *)
(* stored for their token while they ran, and whether that changed.         *)
Watched(st) ==
    [r \in Requests |->
        IF requests[r].phase \in Running /\ Stored(r, st) # Stored(r, store)
        THEN [requests[r] EXCEPT !.seen = @ \cup ({Stored(r, st)} \ {None}),
                                 !.steady = FALSE]
        ELSE requests[r]]

(* createSession and saveSession, up to the command SETEX.                  *)
CreateSession(s) ==
    /\ saves[s].phase = "free"
    /\ \E input \in Inputs :
         saves' = [saves EXCEPT ![s] =
            [phase |-> "sent", id |-> input[1], session |-> input[2]]]
    /\ UNCHANGED <<now, store, requests>>

(* Redis executes SETEX; the answer makes saveSession send GET.             *)
SetEx(s) ==
    /\ saves[s].phase = "sent"
    /\ store' = [store EXCEPT ![saves[s].id] =
                    [session |-> saves[s].session, until |-> now + Timeout]]
    /\ requests' = Watched(store')
    /\ saves' = [saves EXCEPT ![s].phase = "stored"]
    /\ UNCHANGED now

(* Redis executes GET; without a session saveSession throws.                *)
Confirm(s) ==
    /\ saves[s].phase = "stored"
    /\ saves' = [saves EXCEPT ![s] = [NoSave EXCEPT !.phase =
                    IF store[saves[s].id] = Empty THEN "failed" ELSE "saved"]]
    /\ UNCHANGED <<now, store, requests>>

DeleteSession(i) ==
    /\ store[i] # Empty
    /\ store' = [store EXCEPT ![i] = Empty]
    /\ requests' = Watched(store')
    /\ UNCHANGED <<now, saves>>

TickMut ==
    /\ now < MaxTime
    /\ now' = now + 1
    /\ UNCHANGED <<store, saves, requests>>

(* A second passes; Redis drops what has expired.                           *)
Tick ==
    /\ now < MaxTime
    /\ now' = now + 1
    /\ store' = [i \in Ids |-> IF store[i].until <= now' THEN Empty ELSE store[i]]
    /\ requests' = Watched(store')
    /\ UNCHANGED saves

-----------------------------------------------------------------------------
(* Requests. *)

Move(r, phase) == requests' = [requests EXCEPT ![r].phase = phase]

(* A request comes with or without a token (header authorization) and a     *)
(* team (header x-team), for a method, with an input its model accepts or   *)
(* rejects.  Resolving authValidator resolves authSession twice: once for   *)
(* the validator and once for authMembership (both are transient).          *)
Arrive(r) ==
    /\ requests[r].phase = "free"
    /\ \E t \in Tokens \cup {None}, x \in Teams \cup {None}, m \in Methods,
          valid \in BOOLEAN :
         /\ m \notin Parsing => valid
         /\ LET session == IF t = None THEN None ELSE store[Sid[t]].session
            IN requests' = [requests EXCEPT ![r] =
                 [NoRequest EXCEPT !.phase = "arrived", !.token = t, !.team = x,
                                   !.method = m, !.valid = valid,
                                   !.seen = {session} \ {None}]]
    /\ UNCHANGED <<now, store, saves>>

(* Both authSession factories check the token and send GET.                 *)
CheckToken(r) ==
    /\ requests[r].phase = "arrived"
    /\ Move(r, IF requests[r].token = None THEN "resolved"
               ELSE IF ValidJWT(requests[r].token) THEN "reading" ELSE "refused")
    /\ UNCHANGED <<now, store, saves>>

(* The session for the validator. *)
ReadSession(r) ==
    /\ requests[r].phase = "reading"
    /\ requests' = [requests EXCEPT ![r].phase = "rereading",
                                    ![r].own = Stored(r, store)]
    /\ UNCHANGED <<now, store, saves>>

ReadMembershipMut(r) ==
    /\ requests[r].phase = "rereading"
    /\ LET session == Stored(r, store)
           team == requests[r].team
       IN \/ /\ session = None \/ team = None
             /\ Move(r, "resolved")
          \/ /\ session # None /\ team # None
             /\ team \in DOMAIN session.member
             /\ requests' = [requests EXCEPT ![r].phase = "resolved",
                                             ![r].active = team]
    /\ UNCHANGED <<now, store, saves>>

(* The session for authMembership: a team it is no member of is refused,    *)
(* but without a session there is no membership and no refusal.             *)
ReadMembership(r) ==
    /\ requests[r].phase = "rereading"
    /\ LET session == Stored(r, store)
           team == requests[r].team
       IN \/ /\ session = None \/ team = None
             /\ Move(r, "resolved")
          \/ /\ session # None /\ team # None
             /\ team \in DOMAIN session.member
             /\ requests' = [requests EXCEPT ![r].phase = "resolved",
                                             ![r].active = team]
          \/ /\ session # None /\ team # None
             /\ team \notin DOMAIN session.member
             /\ Move(r, "refused")
    /\ UNCHANGED <<now, store, saves>>

ActiveClaimsMut(session, team) ==
    session.claims \cup UNION {session.member[x] : x \in DOMAIN session.member}

(* getActiveClaims *)
ActiveClaims(session, team) ==
    session.claims \cup (IF team = None THEN {} ELSE session.member[team])

(* validatePermissions of the AuthValidator accepts. *)
Grants(r) ==
    LET session == requests[r].own
        team == requests[r].active
    IN /\ session # None
       /\ ValidJWT(session.token)
       /\ team # None => team \in DOMAIN session.member
       /\ Validate(Permissions(requests[r].method), ActiveClaims(session, team))

(* A method of the controller asks for permission, and calls the service if *)
(* it has no input to parse.                                                *)
Ask(r) ==
    /\ requests[r].phase = "resolved"
    /\ requests' = [requests EXCEPT
         ![r].phase = IF ~Grants(r) THEN "refused"
                      ELSE IF requests[r].method \in Parsing THEN "granted"
                      ELSE "served",
         ![r].checked = now]
    /\ UNCHANGED <<now, store, saves>>

(* parseInput throws, or the service is called.                             *)
ParseInput(r) ==
    /\ requests[r].phase = "granted"
    /\ Move(r, IF requests[r].valid THEN "served" ELSE "refused")
    /\ UNCHANGED <<now, store, saves>>

Progress(r) == \/ CheckToken(r) \/ ReadSession(r) \/ ReadMembership(r)
               \/ Ask(r) \/ ParseInput(r)

Next ==
    \/ \E s \in Saves : CreateSession(s) \/ SetEx(s) \/ Confirm(s)
    \/ \E i \in Ids : DeleteSession(i)
    \/ Tick
    \/ \E r \in Requests : Arrive(r) \/ Progress(r)

(* Redis answers and continuations are run. *)
Spec == /\ Init /\ [][Next]_vars
        /\ \A r \in Requests : WF_vars(Progress(r))
        /\ \A s \in Saves : WF_vars(SetEx(s) \/ Confirm(s))

-----------------------------------------------------------------------------
(* Properties. *)

(* The state is well formed, and nothing that has expired is stored.        *)
TypeOK ==
    /\ now \in 0..MaxTime
    /\ store \in [Ids -> Slot]
    /\ \A i \in Ids : IF store[i].session = None THEN store[i] = Empty
                      ELSE store[i].until > now
    /\ saves \in [Saves -> Save]
    /\ requests \in [Requests -> Request]
    /\ \A r \in Requests :
         /\ requests[r].phase # "free" => requests[r].method \in Methods
         /\ requests[r].active \in {requests[r].team, None}
         /\ requests[r].checked <= now

(* What a claim allows on its own, and what create and update allow         *)
(* together (model-controller.test.ts, lines 275-395).                      *)
AllowedBy(claim) ==
    CASE claim = "write" -> {"create", "update", "remove", "restore"} \cup Upserting
      [] claim = "read" -> {"load", "loadMany", "search", "count"}
      [] claim = "empty-trash" -> {"emptyTrash", "permanentlyDeleteFromTrash"}
      [] claim = "permanently-delete" ->
            {"permanentlyDelete", "permanentlyDeleteFromTrash"}
      [] claim = "permanently-delete-from-trash" -> {"permanentlyDeleteFromTrash"}
      [] claim \in {"load", "loadMany", "search", "count",
                    "create", "update", "remove", "restore"} -> {claim}
      [] OTHER -> {}

Allowed(method, claims) ==
    \/ \E claim \in claims : method \in AllowedBy(claim)
    \/ method \in Upserting /\ {"create", "update"} \subseteq claims

(* The claims a session gives a request that names a team or none.          *)
ClaimsFor(session, team) ==
    session.claims \cup (IF team \in DOMAIN session.member
                         THEN session.member[team] ELSE {})

(* A service is called only for a request during which one session was      *)
(* stored that allowed all of it: its token was still valid when permission *)
(* was asked, and its own claims and those of the team the request names,   *)
(* no other, allow the method.  A session that was deleted before the       *)
(* request came and not saved again allows nothing.                         *)
ServedBySession ==
    \A r \in Requests : requests[r].phase \in {"granted", "served"} =>
        /\ requests[r].token \in Genuine
        /\ \E session \in requests[r].seen :
             /\ session.token \in Genuine /\ requests[r].checked < Exp[session.token]
             /\ Allowed(requests[r].method, ClaimsFor(session, requests[r].team))

(* Nobody is turned away without a reason: if the session of a request      *)
(* stayed what it was until the answer, a refusal means that it did not     *)
(* allow the method, was not in the team, had expired, or that the input    *)
(* was rejected.                                                            *)
RefusedForReason ==
    \A r \in Requests :
        (requests[r].phase = "refused" /\ requests[r].steady
            /\ requests[r].token # None /\ ValidJWT(requests[r].token)) =>
            \A session \in requests[r].seen :
                \/ ~ValidJWT(session.token)
                \/ requests[r].team \notin DOMAIN session.member \cup {None}
                \/ ~Allowed(requests[r].method, ClaimsFor(session, requests[r].team))
                \/ ~requests[r].valid

(* Every request is answered, and every call of createSession returns.      *)
RequestEnds ==
    /\ \A r \in Requests : requests[r].phase \in Running
                              ~> requests[r].phase \in {"served", "refused"}
    /\ \A s \in Saves : saves[s].phase \in {"sent", "stored"}
                              ~> saves[s].phase \in {"saved", "failed"}
=============================================================================
