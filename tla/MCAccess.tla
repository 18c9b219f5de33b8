------------------------------ MODULE MCAccess ------------------------------
(* Instances of Access: one session identifier with two tokens, of which    *)
(* one expires early, a token with a false signature, and two teams.        *)
EXTENDS Access, TLC

CONSTANTS short, long, forged          \* tokens
CONSTANTS i                            \* session identifiers
CONSTANTS x, y                         \* teams
CONSTANTS r                            \* a request
CONSTANTS s1                            \* calls of createSession

SomeTokens == {short, long, forged}
SidOf == [t \in Tokens |-> i]
ExpOf == [t \in Tokens |-> IF t = short THEN 1 ELSE 3]
Signed == Tokens \ {forged}

OneId == {i}
TwoTeams == {x, y}
OneRequest == {r}
OneSave == {s1}

AllClaims == {"create", "update", "write", "read", "load", "empty-trash",
              "upsert"}
With(token, claims, member) ==
    [token |-> token, claims |-> claims, member |-> member]

SomeInputs == {i} \X {
    With(short, {"create"}, x :> {"update"}),
    With(long, {}, x :> {"create"} @@ y :> {"update"}),
    With(long, {"write"}, <<>>),
    With(long, {"read", "empty-trash", "upsert"}, x :> {})}

EveryMethod == DOMAIN Enough
=============================================================================
