----------------------------- MODULE AccessProofs -----------------------------
(* Type correctness of Access, and that a service is called only for a      *)
(* request that a session allowed, whatever happens to sessions meanwhile.  *)
EXTENDS Access, TLAPS

-----------------------------------------------------------------------------
(* The rules of the controllers say what their claims allow. *)

LEMMA SomeOfMeans ==
    ASSUME NEW S, NEW claims, Validate({SomeOf(S)}, claims)
    PROVE  \E claim \in S : claim \in claims
  BY DEF Validate, ValidateRule, SomeOf, Rule

LEMMA UpsertMeans ==
    ASSUME NEW S, NEW claims,
           Validate({Rule("SOME_OF", S, {{AllOf({"create", "update"})}})}, claims)
    PROVE  (\E claim \in S : claim \in claims) \/ {"create", "update"} \subseteq claims
  <1> DEFINE both == {AllOf({"create", "update"})}
             rule == Rule("SOME_OF", S, {both})
  <1>1. SafeValidate(both, claims) => {"create", "update"} \subseteq claims
    BY DEF SafeValidate, ValidateRule, AllOf, Rule
  <1>2. ValidateRule(rule, claims, {v \in rule.nested : SafeValidate(v, claims)})
    BY DEF Validate
  <1>3. rule.type = "SOME_OF" /\ rule.claims = S /\ rule.nested = {both}
    BY DEF Rule
  <1> HIDE DEF both, rule
  <1>4. rule.claims \cap claims # {}
           \/ \E v \in rule.nested : SafeValidate(v, claims)
    BY <1>2, <1>3 DEF ValidateRule
  <1> QED
    BY <1>1, <1>3, <1>4

(* Each claim that is enough for a method allows it.                        *)
LEMMA EnoughAllows ==
    ASSUME NEW method \in DOMAIN Enough, NEW claim \in Enough[method]
    PROVE  method \in AllowedBy(claim)
  BY DEF Enough, AllowedBy, Upserting

LEMMA RulesSound ==
    ASSUME NEW method \in Methods, NEW claims,
           Validate(Permissions(method), claims)
    PROVE  Allowed(method, claims)
  <1>1. method \in DOMAIN Enough
    BY MethodsAssumption DEF MethodsAssumption
  <1>2. CASE method \in Upserting
    BY <1>1, <1>2, UpsertMeans, EnoughAllows DEF Permissions, Allowed
  <1>3. CASE method \notin Upserting
    BY <1>1, <1>3, SomeOfMeans, EnoughAllows DEF Permissions, Allowed
  <1> QED
    BY <1>2, <1>3

(* More claims allow no less.                                               *)
LEMMA AllowedGrows ==
    ASSUME NEW method, NEW claims, NEW more, claims \subseteq more,
           Allowed(method, claims)
    PROVE  Allowed(method, more)
  BY DEF Allowed

-----------------------------------------------------------------------------
(* Types. *)

LEMMA StoredType ==
    ASSUME TypeOK, NEW r \in Requests, NEW st \in [Ids -> Slot]
    PROVE  Stored(r, st) \in Session \cup {None}
  <1>1. requests[r].token \in Tokens \cup {None}
    BY DEF TypeOK, Request
  <1> QED
    BY <1>1, AccessAssumption DEF AccessAssumption, Stored, Slot

(* A change of the store leaves of a request all but what it remembers.     *)
LEMMA WatchedType ==
    ASSUME TypeOK, NEW st \in [Ids -> Slot]
    PROVE  /\ Watched(st) \in [Requests -> Request]
           /\ \A r \in Requests :
                /\ Watched(st)[r].phase = requests[r].phase
                /\ Watched(st)[r].token = requests[r].token
                /\ Watched(st)[r].team = requests[r].team
                /\ Watched(st)[r].method = requests[r].method
                /\ Watched(st)[r].own = requests[r].own
                /\ Watched(st)[r].active = requests[r].active
                /\ Watched(st)[r].checked = requests[r].checked
                /\ requests[r].seen \subseteq Watched(st)[r].seen
                /\ requests[r].phase \in Running =>
                     \/ Stored(r, st) = Stored(r, store)
                     \/ Stored(r, st) \in Watched(st)[r].seen \cup {None}
  <1> SUFFICES ASSUME NEW r \in Requests
               PROVE  /\ Watched(st)[r] \in Request
                      /\ Watched(st)[r].phase = requests[r].phase
                      /\ Watched(st)[r].token = requests[r].token
                      /\ Watched(st)[r].team = requests[r].team
                      /\ Watched(st)[r].method = requests[r].method
                      /\ Watched(st)[r].own = requests[r].own
                      /\ Watched(st)[r].active = requests[r].active
                      /\ Watched(st)[r].checked = requests[r].checked
                      /\ requests[r].seen \subseteq Watched(st)[r].seen
                      /\ requests[r].phase \in Running =>
                           \/ Stored(r, st) = Stored(r, store)
                           \/ Stored(r, st) \in Watched(st)[r].seen \cup {None}
    BY DEF Watched
  <1> DEFINE after == [requests[r] EXCEPT
                         !.seen = @ \cup ({Stored(r, st)} \ {None}), !.steady = FALSE]
  <1>1. requests[r] \in Request
    BY DEF TypeOK
  <1>2. {Stored(r, st)} \ {None} \subseteq Session
    BY StoredType
  <1>3. CASE requests[r].phase \in Running /\ Stored(r, st) # Stored(r, store)
    <2>1. Watched(st)[r] = after
      BY <1>3 DEF Watched
    <2>2. after \in Request
      BY <1>1, <1>2 DEF Request
    <2> QED
      BY <1>1, <2>1, <2>2 DEF Request
  <1>4. CASE ~(requests[r].phase \in Running /\ Stored(r, st) # Stored(r, store))
    <2>1. Watched(st)[r] = requests[r]
      BY <1>4 DEF Watched
    <2> QED
      BY <1>1, <1>4, <2>1
  <1> QED
    BY <1>3, <1>4

LEMMA NoRequestType == NoRequest \in Request /\ NoRequest.phase = "free"
  BY AccessAssumption DEF AccessAssumption, NoRequest, Request

(* What each kind of step changes. *)
StoreOK ==
    /\ store \in [Ids -> Slot]
    /\ \A i \in Ids : IF store[i].session = None THEN store[i] = Empty
                      ELSE store[i].until > now

RequestOK(request, time) ==
    /\ request \in Request
    /\ request.phase # "free" => request.method \in Methods
    /\ request.active \in {request.team, None}
    /\ request.checked <= time

LEMMA TypeOKParts ==
    TypeOK <=> /\ now \in 0..MaxTime /\ StoreOK /\ saves \in [Saves -> Save]
               /\ requests \in [Requests -> Request]
               /\ \A r \in Requests : RequestOK(requests[r], now)
  BY DEF TypeOK, StoreOK, RequestOK

(* A request goes on and the rest stays. *)
LEMMA RequestStep ==
    ASSUME TypeOK, NEW r \in Requests, NEW after, RequestOK(after, now),
           requests' = [requests EXCEPT ![r] = after],
           UNCHANGED <<now, store, saves>>
    PROVE  TypeOK'
  BY DEF TypeOK, RequestOK

(* The store changes, and time may pass. *)
LEMMA StoreStep ==
    ASSUME TypeOK, now' \in 0..MaxTime, now <= now', StoreOK',
           requests' = Watched(store'), saves' \in [Saves -> Save]
    PROVE  TypeOK'
  <1>1. store' \in [Ids -> Slot]
    BY DEF StoreOK
  <1>2. requests' \in [Requests -> Request]
    BY <1>1, WatchedType
  <1>3. ASSUME NEW r \in Requests PROVE RequestOK(requests'[r], now')
    <2>1. RequestOK(requests[r], now) /\ now \in Nat /\ requests[r].checked \in Nat
      BY DEF TypeOK, RequestOK, Request
    <2> QED
      BY <1>1, <1>2, <2>1, WatchedType, AccessAssumption
      DEF RequestOK, AccessAssumption
  <1> QED
    BY <1>1, <1>2, <1>3 DEF TypeOK, StoreOK, RequestOK

LEMMA InitTypes == Init => TypeOK
  <1> SUFFICES ASSUME Init PROVE TypeOK
    OBVIOUS
  <1>1. Empty \in Slot
    BY AccessAssumption DEF AccessAssumption, Empty, Slot
  <1>2. ASSUME NEW input \in Inputs
        PROVE  [session |-> input[2], until |-> Timeout] \in Slot
    BY AccessAssumption DEF AccessAssumption, Slot
  <1>3. store \in [Ids -> Slot]
    BY <1>1, <1>2 DEF Init
  <1>4. StoreOK
    BY <1>3, AccessAssumption DEF Init, StoreOK, Empty, AccessAssumption
  <1>5. NoSave \in Save
    BY DEF NoSave, Save
  <1>6. RequestOK(NoRequest, now)
    BY NoRequestType DEF Init, RequestOK, NoRequest
  <1> QED
    BY <1>4, <1>5, <1>6, AccessAssumption
    DEF Init, TypeOK, StoreOK, RequestOK, AccessAssumption

LEMMA CreateSessionTypes ==
    ASSUME TypeOK, NEW s \in Saves, CreateSession(s) PROVE TypeOK'
  <1>1. PICK input \in Inputs :
          saves' = [saves EXCEPT ![s] =
                      [phase |-> "sent", id |-> input[1], session |-> input[2]]]
    BY DEF CreateSession
  <1>2. [phase |-> "sent", id |-> input[1], session |-> input[2]] \in Save
    BY AccessAssumption DEF AccessAssumption, Save
  <1> QED
    BY <1>1, <1>2 DEF TypeOK, CreateSession

LEMMA SetExTypes == ASSUME TypeOK, NEW s \in Saves, SetEx(s) PROVE TypeOK'
  <1>1. /\ saves[s].id \in Ids /\ saves[s].session \in Session
        /\ [saves EXCEPT ![s].phase = "stored"] \in [Saves -> Save]
    BY DEF TypeOK, SetEx, Save
  <1>2. [session |-> saves[s].session, until |-> now + Timeout] \in Slot
    BY <1>1, AccessAssumption DEF AccessAssumption, TypeOK, Slot
  <1>3. StoreOK'
    BY <1>1, <1>2, AccessAssumption DEF AccessAssumption, TypeOK, SetEx, StoreOK
  <1> QED
    <2>1. now' \in 0..MaxTime /\ now <= now' /\ saves' \in [Saves -> Save]
      BY <1>1, AccessAssumption DEF SetEx, TypeOK, AccessAssumption
    <2> QED
      BY <1>3, <2>1, StoreStep DEF SetEx

LEMMA ConfirmTypes == ASSUME TypeOK, NEW s \in Saves, Confirm(s) PROVE TypeOK'
  BY DEF TypeOK, Confirm, NoSave, Save

LEMMA DeleteSessionTypes ==
    ASSUME TypeOK, NEW i \in Ids, DeleteSession(i) PROVE TypeOK'
  <1>1. Empty \in Slot /\ Empty.session = None
    BY AccessAssumption DEF AccessAssumption, Empty, Slot
  <1>2. StoreOK'
    BY <1>1 DEF TypeOK, DeleteSession, StoreOK
  <1> QED
    <2>1. now' \in 0..MaxTime /\ now <= now' /\ saves' \in [Saves -> Save]
      BY AccessAssumption DEF DeleteSession, TypeOK, AccessAssumption
    <2> QED
      BY <1>2, <2>1, StoreStep DEF DeleteSession

LEMMA TickTypes == ASSUME TypeOK, Tick PROVE TypeOK'
  <1>1. Empty \in Slot /\ Empty.session = None
    BY AccessAssumption DEF AccessAssumption, Empty, Slot
  <1>2. now \in Nat /\ now' = now + 1 /\ now' \in 0..MaxTime
    BY AccessAssumption DEF AccessAssumption, TypeOK, Tick
  <1>3. \A i \in Ids : store[i] \in Slot /\ store[i].until \in Nat
    BY AccessAssumption DEF AccessAssumption, TypeOK, Slot
  <1>4. StoreOK'
    BY <1>1, <1>2, <1>3 DEF TypeOK, Tick, StoreOK
  <1> QED
    BY <1>2, <1>4, StoreStep DEF Tick, TypeOK

LEMMA ArriveTypes == ASSUME TypeOK, NEW r \in Requests, Arrive(r) PROVE TypeOK'
  <1>1. PICK t \in Tokens \cup {None}, x \in Teams \cup {None}, m \in Methods,
             valid \in BOOLEAN :
          /\ m \notin Parsing => valid
          /\ LET session == IF t = None THEN None ELSE store[Sid[t]].session
             IN requests' = [requests EXCEPT ![r] =
                  [NoRequest EXCEPT !.phase = "arrived", !.token = t, !.team = x,
                                    !.method = m, !.valid = valid,
                                    !.seen = {session} \ {None}]]
    BY Zenon DEF Arrive
  <1> DEFINE session == IF t = None THEN None ELSE store[Sid[t]].session
             after == [NoRequest EXCEPT !.phase = "arrived", !.token = t, !.team = x,
                                        !.method = m, !.valid = valid,
                                        !.seen = {session} \ {None}]
  <1>2. {session} \ {None} \subseteq Session
    BY AccessAssumption DEF AccessAssumption, TypeOK, Slot
  <1>3. after \in Request
    BY <1>2, NoRequestType DEF Request, Running
  <1>4. after.method \in Methods /\ after.active = None /\ after.checked = 0
    BY DEF NoRequest
  <1>5. RequestOK(after, now)
    BY <1>3, <1>4, AccessAssumption DEF AccessAssumption, RequestOK, TypeOK
  <1> QED
    BY <1>1, <1>5, RequestStep DEF Arrive

LEMMA ProgressTypes == ASSUME TypeOK, NEW r \in Requests, Progress(r) PROVE TypeOK'
  <1>1. RequestOK(requests[r], now) /\ now \in 0..MaxTime
    BY TypeOKParts
  <1>2. ASSUME NEW phase \in Running \cup {"served", "refused"},
               requests[r].phase \in Running
        PROVE  RequestOK([requests[r] EXCEPT !.phase = phase], now)
    BY <1>1, <1>2 DEF RequestOK, Request, Running
  <1>3. CASE CheckToken(r)
    BY <1>2, <1>3, RequestStep DEF CheckToken, Move, Running
  <1>4. CASE ReadSession(r)
    <2>1. RequestOK([requests[r] EXCEPT !.phase = "rereading",
                                        !.own = Stored(r, store)], now)
      BY <1>1, <1>4, StoredType
      DEF ReadSession, RequestOK, Request, Running, TypeOK
    <2> QED
      BY <1>4, <2>1, RequestStep DEF ReadSession
  <1>5. CASE ReadMembership(r)
    <2>1. RequestOK([requests[r] EXCEPT !.phase = "resolved",
                                        !.active = requests[r].team], now)
      BY <1>1, <1>5 DEF ReadMembership, RequestOK, Request, Running
    <2> QED
      BY <1>2, <1>5, <2>1, RequestStep DEF ReadMembership, Move, Running
  <1>6. CASE Ask(r)
    <2> DEFINE phase == IF ~Grants(r) THEN "refused"
                        ELSE IF requests[r].method \in Parsing THEN "granted"
                        ELSE "served"
    <2>1. ASSUME NEW p \in Running \cup {"served", "refused"}
          PROVE  RequestOK([requests[r] EXCEPT !.phase = p, !.checked = now], now)
      <3>1. now <= now /\ requests[r].method \in Methods
        BY <1>1, <1>6, AccessAssumption DEF Ask, RequestOK, AccessAssumption
      <3>2. [requests[r] EXCEPT !.phase = p, !.checked = now] \in Request
        BY <1>1, <2>1 DEF RequestOK, Request
      <3> QED
        BY <1>1, <3>1, <3>2 DEF RequestOK, Request
    <2>2. phase \in Running \cup {"served", "refused"}
      BY DEF Running
    <2>3. requests' = [requests EXCEPT ![r] =
                          [requests[r] EXCEPT !.phase = phase, !.checked = now]]
      BY <1>6 DEF Ask
    <2> HIDE DEF phase
    <2> QED
      BY <1>6, <2>1, <2>2, <2>3, RequestStep DEF Ask
  <1>7. CASE ParseInput(r)
    BY <1>2, <1>7, RequestStep DEF ParseInput, Move, Running
  <1> QED
    BY <1>3, <1>4, <1>5, <1>6, <1>7 DEF Progress

(* The state stays well formed whatever sessions and requests do, and at no *)
(* time is a session stored that has expired.                               *)
THEOREM AccessTypeCorrect == Spec => []TypeOK
  <1>1. TypeOK /\ [Next]_vars => TypeOK'
    <2> SUFFICES ASSUME TypeOK, [Next]_vars PROVE TypeOK'
      OBVIOUS
    <2>1. CASE \E s \in Saves : CreateSession(s) \/ SetEx(s) \/ Confirm(s)
      BY <2>1, CreateSessionTypes, SetExTypes, ConfirmTypes
    <2>2. CASE \E i \in Ids : DeleteSession(i)
      BY <2>2, DeleteSessionTypes
    <2>3. CASE Tick
      BY <2>3, TickTypes
    <2>4. CASE \E r \in Requests : Arrive(r) \/ Progress(r)
      BY <2>4, ArriveTypes, ProgressTypes
    <2>5. CASE UNCHANGED vars
      BY <2>5 DEF vars, TypeOK, Stored, ValidJWT
    <2> QED
      BY <2>1, <2>2, <2>3, <2>4, <2>5 DEF Next
  <1> QED
    BY <1>1, InitTypes, PTL DEF Spec

-----------------------------------------------------------------------------
(* Who is served. *)

(* Why: what the validator holds is a session that was stored while the     *)
(* request ran, for a token that was checked.                               *)
HoldsSeen ==
    \A r \in Requests :
        /\ requests[r].own \in requests[r].seen \cup {None}
        /\ requests[r].phase \in Running =>
             Stored(r, store) \in requests[r].seen \cup {None}
        /\ (requests[r].phase \notin {"free", "arrived", "refused"}
              /\ requests[r].token # None) => requests[r].token \in Genuine
        /\ requests[r].token = None => requests[r].own = None

(* HoldsSeen and ServedBySession of one request.                            *)
Holds(request, st) ==
    /\ request.own \in request.seen \cup {None}
    /\ request.phase \in Running =>
         (IF request.token = None THEN None ELSE st[Sid[request.token]].session)
            \in request.seen \cup {None}
    /\ (request.phase \notin {"free", "arrived", "refused"} /\ request.token # None)
         => request.token \in Genuine
    /\ request.token = None => request.own = None

Justified(request) ==
    request.phase \in {"granted", "served"} =>
        /\ request.token \in Genuine
        /\ \E session \in request.seen :
             /\ session.token \in Genuine /\ request.checked < Exp[session.token]
             /\ Allowed(request.method, ClaimsFor(session, request.team))

LEMMA PerRequest ==
    /\ HoldsSeen <=> \A r \in Requests : Holds(requests[r], store)
    /\ ServedBySession <=> \A r \in Requests : Justified(requests[r])
  BY DEF HoldsSeen, Holds, Stored, ServedBySession, Justified

IInv == TypeOK /\ HoldsSeen /\ ServedBySession

LEMMA StoreKeeps ==
    ASSUME IInv, store' \in [Ids -> Slot], requests' = Watched(store')
    PROVE  (HoldsSeen /\ ServedBySession)'
  <1> SUFFICES ASSUME NEW r \in Requests
               PROVE  Holds(requests'[r], store') /\ Justified(requests'[r])
    BY DEF HoldsSeen, Holds, Stored, ServedBySession, Justified
  <1>1. Holds(requests[r], store) /\ Justified(requests[r])
    BY PerRequest DEF IInv
  <1>2. /\ requests'[r].phase = requests[r].phase
        /\ requests'[r].token = requests[r].token
        /\ requests'[r].team = requests[r].team
        /\ requests'[r].method = requests[r].method
        /\ requests'[r].own = requests[r].own
        /\ requests'[r].checked = requests[r].checked
        /\ requests[r].seen \subseteq requests'[r].seen
        /\ requests[r].phase \in Running =>
             \/ Stored(r, store') = Stored(r, store)
             \/ Stored(r, store') \in requests'[r].seen \cup {None}
    BY WatchedType DEF IInv
  <1>3. Holds(requests'[r], store')
    BY <1>1, <1>2 DEF Holds, Stored
  <1>4. Justified(requests'[r])
    BY <1>1, <1>2 DEF Justified
  <1> QED
    BY <1>3, <1>4

LEMMA RequestKeeps ==
    ASSUME IInv, NEW r \in Requests, NEW after,
           Holds(after, store), Justified(after),
           requests' = [requests EXCEPT ![r] = after],
           UNCHANGED <<now, store, saves>>
    PROVE  (HoldsSeen /\ ServedBySession)'
  <1>1. requests \in [Requests -> Request]
    BY DEF IInv, TypeOK
  <1> SUFFICES ASSUME NEW q \in Requests
               PROVE  Holds(requests'[q], store) /\ Justified(requests'[q])
    BY DEF HoldsSeen, Holds, Stored, ServedBySession, Justified
  <1>2. Holds(requests[q], store) /\ Justified(requests[q])
    BY PerRequest DEF IInv
  <1> QED
    BY <1>1, <1>2

(* What the validator holds allows what it accepts.                         *)
LEMMA GrantsJustifies ==
    ASSUME IInv, NEW r \in Requests, requests[r].phase = "resolved", Grants(r)
    PROVE  /\ requests[r].token \in Genuine
           /\ \E session \in requests[r].seen :
                /\ session.token \in Genuine /\ now < Exp[session.token]
                /\ Allowed(requests[r].method, ClaimsFor(session, requests[r].team))
  <1> DEFINE own == requests[r].own
             active == requests[r].active
  <1>1. Holds(requests[r], store)
    BY PerRequest DEF IInv
  <1>2. /\ own # None /\ own.token \in Genuine /\ now < Exp[own.token]
        /\ active # None => active \in DOMAIN own.member
        /\ Validate(Permissions(requests[r].method), ActiveClaims(own, active))
    BY DEF Grants, ValidJWT
  <1>3. own \in requests[r].seen /\ requests[r].token \in Genuine
    BY <1>1, <1>2 DEF Holds
  <1>4. requests[r].method \in Methods /\ active \in {requests[r].team, None}
    BY DEF IInv, TypeOK
  <1>5. Allowed(requests[r].method, ActiveClaims(own, active))
    BY <1>2, <1>4, RulesSound
  <1>6. ActiveClaims(own, active) \subseteq ClaimsFor(own, requests[r].team)
    BY <1>2, <1>4 DEF ActiveClaims, ClaimsFor
  <1>7. Allowed(requests[r].method, ClaimsFor(own, requests[r].team))
    BY <1>5, <1>6, AllowedGrows
  <1> QED
    BY <1>2, <1>3, <1>7

LEMMA ArriveKeeps ==
    ASSUME IInv, NEW r \in Requests, Arrive(r) PROVE (HoldsSeen /\ ServedBySession)'
  <1>1. PICK t \in Tokens \cup {None}, x \in Teams \cup {None}, m \in Methods,
             valid \in BOOLEAN :
          /\ m \notin Parsing => valid
          /\ LET session == IF t = None THEN None ELSE store[Sid[t]].session
             IN requests' = [requests EXCEPT ![r] =
                  [NoRequest EXCEPT !.phase = "arrived", !.token = t, !.team = x,
                                    !.method = m, !.valid = valid,
                                    !.seen = {session} \ {None}]]
    BY Zenon DEF Arrive
  <1> DEFINE session == IF t = None THEN None ELSE store[Sid[t]].session
             after == [NoRequest EXCEPT !.phase = "arrived", !.token = t, !.team = x,
                                        !.method = m, !.valid = valid,
                                        !.seen = {session} \ {None}]
  <1>2. /\ after.phase = "arrived" /\ after.token = t /\ after.own = None
        /\ after.seen = {session} \ {None}
    BY DEF NoRequest
  <1>3. requests' = [requests EXCEPT ![r] = after]
    BY <1>1
  <1> HIDE DEF after
  <1>4. Holds(after, store) /\ Justified(after)
    BY <1>2 DEF Holds, Justified
  <1> QED
    BY <1>3, <1>4, RequestKeeps DEF Arrive

LEMMA ProgressKeeps ==
    ASSUME IInv, NEW r \in Requests, Progress(r)
    PROVE  (HoldsSeen /\ ServedBySession)'
  <1>1. Holds(requests[r], store) /\ Justified(requests[r])
    BY PerRequest DEF IInv
  <1>2. requests[r] \in Request /\ now \in 0..MaxTime
    BY DEF IInv, TypeOK
  <1>3. CASE CheckToken(r)
    <2>1. PICK phase \in {"resolved", "reading", "refused"} :
            /\ requests' = [requests EXCEPT ![r] =
                               [requests[r] EXCEPT !.phase = phase]]
            /\ phase # "refused" =>
                 requests[r].token = None \/ requests[r].token \in Genuine
      BY <1>3 DEF CheckToken, Move, ValidJWT
    <2> DEFINE after == [requests[r] EXCEPT !.phase = phase]
    <2>2. Holds(after, store) /\ Justified(after)
      BY <1>1, <1>2, <1>3, <2>1 DEF CheckToken, Holds, Justified, Request, Running
    <2> QED
      BY <1>3, <2>1, <2>2, RequestKeeps DEF CheckToken
  <1>4. CASE ReadSession(r)
    <2> DEFINE after == [requests[r] EXCEPT !.phase = "rereading",
                                            !.own = Stored(r, store)]
    <2>1. Holds(after, store) /\ Justified(after)
      BY <1>1, <1>2, <1>4 DEF ReadSession, Stored, Holds, Justified, Request, Running
    <2> QED
      BY <1>4, <2>1, RequestKeeps DEF ReadSession
  <1>5. CASE ReadMembership(r)
    <2>1. PICK phase \in {"resolved", "refused"}, active \in {requests[r].active,
                                                              requests[r].team} :
            requests' = [requests EXCEPT ![r] =
                            [requests[r] EXCEPT !.phase = phase, !.active = active]]
      BY <1>2, <1>5 DEF ReadMembership, Move, Request
    <2> DEFINE after == [requests[r] EXCEPT !.phase = phase, !.active = active]
    <2>2. Holds(after, store) /\ Justified(after)
      BY <1>1, <1>2, <1>5 DEF ReadMembership, Holds, Justified, Request, Running
    <2> QED
      BY <1>5, <2>1, <2>2, RequestKeeps DEF ReadMembership
  <1>6. CASE Ask(r)
    <2>1. PICK phase \in {"refused", "granted", "served"} :
            /\ requests' = [requests EXCEPT ![r] =
                               [requests[r] EXCEPT !.phase = phase, !.checked = now]]
            /\ phase # "refused" => Grants(r)
      BY <1>6 DEF Ask
    <2> DEFINE after == [requests[r] EXCEPT !.phase = phase, !.checked = now]
    <2>2. /\ after.phase = phase /\ after.token = requests[r].token
          /\ after.own = requests[r].own /\ after.seen = requests[r].seen
          /\ after.method = requests[r].method /\ after.team = requests[r].team
          /\ after.checked = now
      BY <1>2 DEF Request
    <2> HIDE DEF after
    <2>3. Holds(after, store)
      BY <1>1, <1>6, <2>2 DEF Ask, Holds, Running
    <2>4. Justified(after)
      BY <1>6, <2>1, <2>2, GrantsJustifies DEF Ask, Justified
    <2> QED
      BY <1>6, <2>1, <2>3, <2>4, RequestKeeps DEF Ask, after
  <1>7. CASE ParseInput(r)
    <2>1. PICK phase \in {"refused", "served"} :
            requests' = [requests EXCEPT ![r] = [requests[r] EXCEPT !.phase = phase]]
      BY <1>7 DEF ParseInput, Move
    <2> DEFINE after == [requests[r] EXCEPT !.phase = phase]
    <2>2. Holds(after, store) /\ Justified(after)
      BY <1>1, <1>2, <1>7 DEF ParseInput, Holds, Justified, Request, Running
    <2> QED
      BY <1>7, <2>1, <2>2, RequestKeeps DEF ParseInput
  <1> QED
    BY <1>3, <1>4, <1>5, <1>6, <1>7 DEF Progress

LEMMA SeenAlways == Spec => []IInv
  <1>1. Init => IInv
    BY InitTypes DEF Init, IInv, HoldsSeen, ServedBySession, NoRequest, Running
  <1>2. IInv /\ TypeOK' /\ [Next]_vars => IInv'
    <2> SUFFICES ASSUME IInv, TypeOK', [Next]_vars
                 PROVE  (HoldsSeen /\ ServedBySession)'
      BY DEF IInv
    <2>1. ASSUME NEW s \in Saves, CreateSession(s) \/ Confirm(s)
          PROVE  (HoldsSeen /\ ServedBySession)'
      BY <2>1 DEF CreateSession, Confirm, IInv, HoldsSeen, Stored, ServedBySession
    <2>2. ASSUME NEW s \in Saves, SetEx(s) PROVE (HoldsSeen /\ ServedBySession)'
      BY <2>2, StoreKeeps DEF SetEx, TypeOK
    <2>3. ASSUME NEW i \in Ids, DeleteSession(i)
          PROVE  (HoldsSeen /\ ServedBySession)'
      BY <2>3, StoreKeeps DEF DeleteSession, TypeOK
    <2>4. CASE Tick
      BY <2>4, StoreKeeps DEF Tick, TypeOK
    <2>5. CASE \E r \in Requests : Arrive(r) \/ Progress(r)
      BY <2>5, ArriveKeeps, ProgressKeeps
    <2>6. CASE UNCHANGED vars
      BY <2>6 DEF vars, IInv, HoldsSeen, Stored, ServedBySession
    <2> QED
      BY <2>1, <2>2, <2>3, <2>4, <2>5, <2>6 DEF Next
  <1> QED
    BY <1>1, <1>2, AccessTypeCorrect, PTL DEF Spec
(* A service is called only for a request that a session allowed which was  *)
(* stored while the request ran, however tokens expire and sessions are     *)
(* created, replaced and deleted between its steps.                         *)
THEOREM ServedJustified == Spec => []ServedBySession
  <1>1. IInv => ServedBySession
    BY DEF IInv
  <1> QED
    BY <1>1, SeenAlways, PTL

-----------------------------------------------------------------------------
(* Who is refused. *)

(* No claim but those that are enough for a method allows it. *)
LEMMA AllowsEnough ==
    ASSUME NEW method \in DOMAIN Enough, NEW claim, method \in AllowedBy(claim)
    PROVE  claim \in Enough[method]
  BY DEF Enough, AllowedBy, Upserting

LEMMA RulesComplete ==
    ASSUME NEW method \in Methods, NEW claims, Allowed(method, claims)
    PROVE  Validate(Permissions(method), claims)
  <1> DEFINE S == Enough[method]
             both == {AllOf({"create", "update"})}
             one == SomeOf(S)
             rule == Rule("SOME_OF", S, {both})
  <1>1. method \in DOMAIN Enough
    BY MethodsAssumption DEF MethodsAssumption
  <1>2. /\ one.type = "SOME_OF" /\ one.claims = S
        /\ rule.type = "SOME_OF" /\ rule.claims = S /\ rule.nested = {both}
    BY DEF Rule, SomeOf
  <1>3. {"create", "update"} \subseteq claims => SafeValidate(both, claims)
    BY DEF SafeValidate, ValidateRule, AllOf, Rule
  <1>4. \/ S \cap claims # {}
        \/ method \in Upserting /\ {"create", "update"} \subseteq claims
    BY <1>1, AllowsEnough DEF Allowed
  <1>5. Permissions(method) = IF method \in Upserting THEN {rule} ELSE {one}
    BY DEF Permissions
  <1> HIDE DEF S, both, one, rule
  <1>6. CASE method \in Upserting
    <2>1. \/ rule.claims \cap claims # {}
          \/ rule.nested \cap {v \in rule.nested : SafeValidate(v, claims)} # {}
      BY <1>2, <1>3, <1>4
    <2> QED
      BY <1>2, <1>5, <1>6, <2>1 DEF Validate, ValidateRule
  <1>7. CASE method \notin Upserting
    BY <1>2, <1>4, <1>5, <1>7 DEF Validate, ValidateRule
  <1> QED
    BY <1>6, <1>7

(* As long as the session of a request stayed what it was, the request saw  *)
(* this one alone, and the validator holds it with the membership of the    *)
(* team that was named.                                                     *)
Current(request, st) ==
    IF request.token = None THEN None ELSE st[Sid[request.token]].session

Knows(request, st) ==
    request.steady =>
      /\ request.phase \in Running =>
           request.seen = {Current(request, st)} \ {None}
      /\ request.phase \in {"rereading", "resolved"} =>
           request.own = Current(request, st)
      /\ (request.phase = "resolved" /\ request.own # None) =>
           /\ request.active = request.team
           /\ request.team # None => request.team \in DOMAIN request.own.member

Live(t, time) == t \in Genuine /\ time < Exp[t]

Explained(request, time) ==
    (request.phase = "refused" /\ request.steady
        /\ request.token # None /\ Live(request.token, time)) =>
        \A session \in request.seen :
            \/ ~Live(session.token, time)
            \/ request.team \notin DOMAIN session.member \cup {None}
            \/ ~Allowed(request.method, ClaimsFor(session, request.team))
            \/ ~request.valid

Reasons == \A r \in Requests : Knows(requests[r], store) /\ Explained(requests[r], now)

LEMMA ReasonsGiven == Reasons => RefusedForReason
  BY DEF Reasons, Explained, RefusedForReason, Live, ValidJWT

(* Time lets tokens expire and never revives one. *)
LEMMA ExplainedStays ==
    ASSUME NEW request \in Request, NEW a \in Nat, NEW b \in Nat, a <= b,
           Explained(request, a)
    PROVE  Explained(request, b)
  <1>1. ASSUME NEW t \in Tokens, Live(t, b) PROVE Live(t, a)
    <2>1. Exp[t] \in Nat
      BY AccessAssumption DEF AccessAssumption
    <2> QED
      BY <1>1, <2>1 DEF Live
  <1>2. /\ request.token # None => request.token \in Tokens
        /\ \A session \in request.seen : session.token \in Tokens
    BY DEF Request, Session
  <1> QED
    BY <1>1, <1>2 DEF Explained

LEMMA StoreReasons ==
    ASSUME TypeOK, Reasons, store' \in [Ids -> Slot], requests' = Watched(store'),
           now' \in Nat, now <= now'
    PROVE  Reasons'
  <1> SUFFICES ASSUME NEW r \in Requests
               PROVE  Knows(requests'[r], store') /\ Explained(requests'[r], now')
    BY DEF Reasons
  <1>1. /\ requests[r] \in Request /\ now \in Nat
        /\ Knows(requests[r], store) /\ Explained(requests[r], now)
    BY AccessAssumption DEF TypeOK, Reasons, AccessAssumption
  <1>2. CASE requests[r].phase \in Running /\ Stored(r, store') # Stored(r, store)
    <2>1. ~requests'[r].steady
      BY <1>1, <1>2 DEF Watched, Request
    <2> QED
      BY <2>1 DEF Knows, Explained
  <1>3. CASE ~(requests[r].phase \in Running /\ Stored(r, store') # Stored(r, store))
    <2>1. requests'[r] = requests[r]
      BY <1>3 DEF Watched
    <2>2. requests[r].phase \in Running =>
             Current(requests[r], store') = Current(requests[r], store)
      BY <1>3 DEF Current, Stored
    <2>3. Knows(requests[r], store')
      BY <1>1, <2>2 DEF Knows, Running
    <2>4. Explained(requests[r], now')
      BY <1>1, ExplainedStays
    <2> QED
      BY <2>1, <2>3, <2>4
  <1> QED
    BY <1>2, <1>3

LEMMA RequestReasons ==
    ASSUME TypeOK, Reasons, NEW r \in Requests, NEW after,
           Knows(after, store), Explained(after, now),
           requests' = [requests EXCEPT ![r] = after],
           UNCHANGED <<now, store, saves>>
    PROVE  Reasons'
  <1>1. requests \in [Requests -> Request]
    BY DEF TypeOK
  <1> SUFFICES ASSUME NEW q \in Requests
               PROVE  Knows(requests'[q], store) /\ Explained(requests'[q], now)
    BY DEF Reasons
  <1>2. Knows(requests[q], store) /\ Explained(requests[q], now)
    BY DEF Reasons
  <1> QED
    BY <1>1, <1>2

LEMMA ArriveReasons ==
    ASSUME TypeOK, Reasons, NEW r \in Requests, Arrive(r) PROVE Reasons'
  <1>1. PICK t \in Tokens \cup {None}, x \in Teams \cup {None}, m \in Methods,
             valid \in BOOLEAN :
          /\ m \notin Parsing => valid
          /\ LET session == IF t = None THEN None ELSE store[Sid[t]].session
             IN requests' = [requests EXCEPT ![r] =
                  [NoRequest EXCEPT !.phase = "arrived", !.token = t, !.team = x,
                                    !.method = m, !.valid = valid,
                                    !.seen = {session} \ {None}]]
    BY Zenon DEF Arrive
  <1> DEFINE session == IF t = None THEN None ELSE store[Sid[t]].session
             after == [NoRequest EXCEPT !.phase = "arrived", !.token = t, !.team = x,
                                        !.method = m, !.valid = valid,
                                        !.seen = {session} \ {None}]
  <1>2. after.phase = "arrived" /\ after.token = t /\ after.seen = {session} \ {None}
    BY DEF NoRequest
  <1>3. requests' = [requests EXCEPT ![r] = after]
    BY <1>1
  <1> HIDE DEF after
  <1>4. Knows(after, store) /\ Explained(after, now)
    BY <1>2 DEF Knows, Explained, Current
  <1> QED
    BY <1>3, <1>4, RequestReasons DEF Arrive

(* A validator that knows the session refuses what the session does not     *)
(* allow.                                                                   *)
LEMMA RefusalExplained ==
    ASSUME TypeOK, HoldsSeen, Reasons, NEW r \in Requests,
           requests[r].phase = "resolved", requests[r].steady, ~Grants(r),
           NEW session \in requests[r].seen
    PROVE  \/ ~Live(session.token, now)
           \/ requests[r].team \notin DOMAIN session.member \cup {None}
           \/ ~Allowed(requests[r].method, ClaimsFor(session, requests[r].team))
  <1> DEFINE own == requests[r].own
             team == requests[r].team
             method == requests[r].method
  <1>1. Knows(requests[r], store)
    BY DEF Reasons
  <1>2. requests[r].phase \in Running
    BY DEF Running
  <1>3. session = own /\ own # None
    BY <1>1, <1>2 DEF Knows
  <1>4. requests[r].active = team /\ (team # None => team \in DOMAIN own.member)
    BY <1>1, <1>3 DEF Knows
  <1>5. method \in Methods /\ session \in Session
    BY DEF TypeOK, Request
  <1>6. ClaimsFor(own, team) = ActiveClaims(own, team)
    <2>1. None \notin DOMAIN own.member
      BY <1>3, <1>5, AccessAssumption DEF AccessAssumption, Session
    <2> QED
      BY <1>4, <2>1 DEF ClaimsFor, ActiveClaims
  <1>7. ~ValidJWT(own.token) \/ ~Validate(Permissions(method), ActiveClaims(own, team))
    BY <1>3, <1>4 DEF Grants
  <1>8. ValidJWT(own.token) <=> Live(own.token, now)
    BY DEF ValidJWT, Live
  <1> QED
    BY <1>3, <1>5, <1>6, <1>7, <1>8, RulesComplete

LEMMA ProgressReasons ==
    ASSUME TypeOK, HoldsSeen, Reasons, NEW r \in Requests, Progress(r)
    PROVE  Reasons'
  <1>1. Holds(requests[r], store) /\ Knows(requests[r], store) /\ Explained(requests[r], now)
    BY PerRequest DEF Reasons
  <1>2. requests[r] \in Request /\ Stored(r, store) = Current(requests[r], store)
    BY DEF TypeOK, Stored, Current
  <1>3. CASE CheckToken(r)
    <2>1. PICK phase \in {"resolved", "reading", "refused"} :
            /\ requests' = [requests EXCEPT ![r] =
                               [requests[r] EXCEPT !.phase = phase]]
            /\ phase = "resolved" => requests[r].token = None
            /\ phase = "refused" => ~ValidJWT(requests[r].token)
      BY <1>3 DEF CheckToken, Move
    <2> DEFINE after == [requests[r] EXCEPT !.phase = phase]
    <2>2. /\ after.phase = phase /\ after.token = requests[r].token
          /\ after.own = requests[r].own /\ after.seen = requests[r].seen
          /\ after.steady = requests[r].steady
      BY <1>2 DEF Request
    <2> HIDE DEF after
    <2>3. Knows(after, store)
      BY <1>1, <1>3, <2>1, <2>2 DEF CheckToken, Knows, Holds, Current, Running
    <2>4. Explained(after, now)
      BY <2>1, <2>2 DEF Explained, Live, ValidJWT
    <2> QED
      BY <1>3, <2>1, <2>3, <2>4, RequestReasons DEF CheckToken, after
  <1>4. CASE ReadSession(r)
    <2> DEFINE after == [requests[r] EXCEPT !.phase = "rereading",
                                            !.own = Stored(r, store)]
    <2>1. /\ after.phase = "rereading" /\ after.token = requests[r].token
          /\ after.own = Stored(r, store) /\ after.seen = requests[r].seen
          /\ after.steady = requests[r].steady
      BY <1>2 DEF Request
    <2>2. requests' = [requests EXCEPT ![r] = after]
      BY <1>4 DEF ReadSession
    <2> HIDE DEF after
    <2>3. Knows(after, store) /\ Explained(after, now)
      BY <1>1, <1>2, <1>4, <2>1 DEF ReadSession, Knows, Explained, Current, Running
    <2> QED
      BY <1>4, <2>2, <2>3, RequestReasons DEF ReadSession
  <1>5. CASE ReadMembership(r)
    <2> DEFINE session == Stored(r, store)
               team == requests[r].team
    <2>1. PICK phase \in {"resolved", "refused"}, active \in {requests[r].active, team} :
            /\ requests' = [requests EXCEPT ![r] =
                              [requests[r] EXCEPT !.phase = phase, !.active = active]]
            /\ \/ phase = "resolved" /\ session = None
               \/ phase = "resolved" /\ team = None /\ active = requests[r].active
               \/ /\ phase = "resolved" /\ session # None /\ team # None
                  /\ team \in DOMAIN session.member /\ active = team
               \/ /\ phase = "refused" /\ session # None /\ team # None
                  /\ team \notin DOMAIN session.member
      BY <1>2, <1>5 DEF ReadMembership, Move, Request
    <2> DEFINE after == [requests[r] EXCEPT !.phase = phase, !.active = active]
    <2>2. /\ after.phase = phase /\ after.token = requests[r].token
          /\ after.own = requests[r].own /\ after.seen = requests[r].seen
          /\ after.steady = requests[r].steady /\ after.active = active
          /\ after.team = team
      BY <1>2 DEF Request
    <2>3. requests[r].active \in {team, None} /\ requests[r].phase = "rereading"
      BY <1>5 DEF TypeOK, ReadMembership
    <2> HIDE DEF after
    <2>4. Knows(after, store)
      BY <1>1, <1>2, <2>1, <2>2, <2>3 DEF Knows, Current, Running
    <2>5. Explained(after, now)
      BY <1>1, <1>2, <2>1, <2>2, <2>3 DEF Explained, Knows, Running
    <2> QED
      BY <1>5, <2>1, <2>4, <2>5, RequestReasons DEF ReadMembership, after
  <1>6. CASE Ask(r)
    <2>1. PICK phase \in {"refused", "granted", "served"} :
            /\ requests' = [requests EXCEPT ![r] =
                               [requests[r] EXCEPT !.phase = phase, !.checked = now]]
            /\ phase = "refused" => ~Grants(r)
      BY <1>6 DEF Ask
    <2> DEFINE after == [requests[r] EXCEPT !.phase = phase, !.checked = now]
    <2>2. /\ after.phase = phase /\ after.token = requests[r].token
          /\ after.own = requests[r].own /\ after.seen = requests[r].seen
          /\ after.method = requests[r].method /\ after.team = requests[r].team
          /\ after.steady = requests[r].steady
      BY <1>2 DEF Request
    <2> HIDE DEF after
    <2>3. requests[r].phase = "resolved"
      BY <1>6 DEF Ask
    <2>4. Knows(after, store)
      BY <1>1, <2>1, <2>2, <2>3 DEF Knows, Current, Running
    <2>5. Explained(after, now)
      BY <2>1, <2>2, <2>3, RefusalExplained DEF Explained
    <2> QED
      BY <1>6, <2>1, <2>4, <2>5, RequestReasons DEF Ask, after
  <1>7. CASE ParseInput(r)
    <2>1. PICK phase \in {"refused", "served"} :
            /\ requests' = [requests EXCEPT ![r] = [requests[r] EXCEPT !.phase = phase]]
            /\ phase = "refused" => ~requests[r].valid
      BY <1>7 DEF ParseInput, Move
    <2> DEFINE after == [requests[r] EXCEPT !.phase = phase]
    <2>2. after.phase = phase /\ after.valid = requests[r].valid
      BY <1>2 DEF Request
    <2> HIDE DEF after
    <2>3. Knows(after, store) /\ Explained(after, now)
      BY <2>1, <2>2 DEF Knows, Explained, Running
    <2> QED
      BY <1>7, <2>1, <2>3, RequestReasons DEF ParseInput, after
  <1> QED
    BY <1>3, <1>4, <1>5, <1>6, <1>7 DEF Progress

(* A request whose session stayed what it was is refused only if the session*)
(* does not allow it, it is not in the team, it expired, or the input was   *)
(* rejected.                                                                *)
THEOREM RefusalsJustified == Spec => []RefusedForReason
  <1>1. Init => Reasons
    BY DEF Init, Reasons, Knows, Explained, NoRequest, Running
  <1>2. TypeOK /\ TypeOK' /\ HoldsSeen /\ Reasons /\ [Next]_vars => Reasons'
    <2> SUFFICES ASSUME TypeOK, TypeOK', HoldsSeen, Reasons, [Next]_vars PROVE Reasons'
      OBVIOUS
    <2>1. now \in Nat /\ now' \in Nat /\ store' \in [Ids -> Slot]
      BY AccessAssumption DEF TypeOK, AccessAssumption
    <2>2. ASSUME NEW s \in Saves, CreateSession(s) \/ Confirm(s) PROVE Reasons'
      BY <2>2 DEF CreateSession, Confirm, Reasons
    <2>3. ASSUME NEW s \in Saves, SetEx(s) PROVE Reasons'
      BY <2>1, <2>3, StoreReasons DEF SetEx
    <2>4. ASSUME NEW i \in Ids, DeleteSession(i) PROVE Reasons'
      BY <2>1, <2>4, StoreReasons DEF DeleteSession
    <2>5. CASE Tick
      BY <2>1, <2>5, StoreReasons DEF Tick
    <2>6. CASE \E r \in Requests : Arrive(r) \/ Progress(r)
      BY <2>6, ArriveReasons, ProgressReasons
    <2>7. CASE UNCHANGED vars
      BY <2>7 DEF vars, Reasons
    <2> QED
      BY <2>2, <2>3, <2>4, <2>5, <2>6, <2>7 DEF Next
  <1>3. IInv => HoldsSeen
    BY DEF IInv
  <1> QED
    BY <1>1, <1>2, <1>3, SeenAlways, AccessTypeCorrect, ReasonsGiven, PTL DEF Spec
=============================================================================
