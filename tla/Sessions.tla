------------------------------ MODULE Sessions ------------------------------
(***************************************************************************)
(* The refresh tokens of the operators: login, rotation by compare-and-set *)
(* in a transaction, logout.  The tabs of a browser share one cookie and   *)
(* ask at the same time; their answers arrive in any order or not at all.  *)
(***************************************************************************)
EXTENDS Integers, Sequences, FiniteSets

CONSTANTS
  Tab,       \* requests to /auth that may overlap
  MaxTokens  \* bound: refresh tokens ever issued

ASSUME MaxTokensAssumption == MaxTokens \in Nat

VARIABLES
  issued,  \* the refresh_tokens rows; login is the row the chain of rotations began with
  cookie,  \* the row the browser's cookie names, or 0
  asking,  \* the requests under way
  ended    \* history: logins that a logout ended by revoking their token

sessionVars == <<issued, cookie, asking, ended>>

Idle == [phase |-> "idle", presented |-> 0, minted |-> 0]

SessionsInit ==
  /\ issued = <<>> /\ cookie = 0 /\ ended = {}
  /\ asking = [t \in Tab |-> Idle]

Valid(i) == i \in DOMAIN issued /\ issued[i].state = "valid"
Revoked(i) == [issued EXCEPT ![i].state = "revoked"]
Minted(rows, login) ==
  Append(rows, [state |-> "valid", login |-> IF login = 0 THEN Len(rows) + 1 ELSE login])

\* A login leaves the tokens of earlier ones as they are.
SignIn ==
  /\ Len(issued) < MaxTokens
  /\ issued' = Minted(issued, 0)
  /\ cookie' \in {cookie, Len(issued) + 1}  \* the answer may be lost
  /\ UNCHANGED <<asking, ended>>

StartRefresh(t) ==
  /\ asking[t] = Idle /\ cookie # 0
  /\ asking' = [asking EXCEPT ![t] = [Idle EXCEPT !.phase = "read", !.presented = cookie]]
  /\ UNCHANGED <<issued, cookie, ended>>

ReadToken(t) ==
  /\ asking[t].phase = "read"
  /\ asking' = [asking EXCEPT ![t] = IF Valid(@.presented) THEN [@ EXCEPT !.phase = "claim"]
                                     ELSE Idle]
  /\ UNCHANGED <<issued, cookie, ended>>

\* Mutant: the rotation trusts what it read.
Trusted(t) == TRUE
\* updateMany ... where revokedAt is null and the token has not expired.
Claimed(t) == Valid(asking[t].presented)

Rotate(t) ==
  /\ asking[t].phase = "claim" /\ Len(issued) < MaxTokens
  /\ LET i == asking[t].presented IN
     IF Claimed(t)
     THEN /\ issued' = Minted(Revoked(i), issued[i].login)
          /\ asking' = [asking EXCEPT ![t].phase = "answer", ![t].minted = Len(issued) + 1]
     ELSE /\ asking' = [asking EXCEPT ![t] = Idle]
          /\ UNCHANGED issued
  /\ UNCHANGED <<cookie, ended>>

RefreshAnswered(t) ==
  /\ asking[t].phase = "answer"
  /\ cookie' \in {cookie, asking[t].minted}
  /\ asking' = [asking EXCEPT ![t] = Idle]
  /\ UNCHANGED <<issued, ended>>

StartSignOut(t) ==
  /\ asking[t] = Idle
  /\ asking' = [asking EXCEPT ![t] = [Idle EXCEPT !.phase = "logout", !.presented = cookie]]
  /\ UNCHANGED <<issued, cookie, ended>>

\* A token that a refresh has replaced meanwhile is not found: its successor stays valid.
SignOut(t) ==
  /\ asking[t].phase = "logout"
  /\ LET i == asking[t].presented IN
     IF Valid(i) THEN issued' = Revoked(i) /\ ended' = ended \cup {issued[i].login}
     ELSE UNCHANGED <<issued, ended>>
  /\ asking' = [asking EXCEPT ![t].phase = "clear"]
  /\ UNCHANGED cookie

ClearCookie(t) ==
  /\ asking[t].phase = "clear"
  /\ cookie' \in {cookie, 0}
  /\ asking' = [asking EXCEPT ![t] = Idle]
  /\ UNCHANGED <<issued, ended>>

Expire(i) ==
  /\ Valid(i)
  /\ issued' = [issued EXCEPT ![i].state = "expired"]
  /\ UNCHANGED <<cookie, asking, ended>>

SessionsNext ==
  \/ SignIn
  \/ \E t \in Tab : \/ StartRefresh(t) \/ ReadToken(t) \/ Rotate(t) \/ RefreshAnswered(t)
                    \/ StartSignOut(t) \/ SignOut(t) \/ ClearCookie(t)
  \/ \E i \in DOMAIN issued : Expire(i)

SessionsSpec == SessionsInit /\ [][SessionsNext]_sessionVars

-----------------------------------------------------------------------------
\* However refreshes of one token and logouts overlap, a login never has two valid refresh
\* tokens, and none at all once a logout has revoked its token: no refresh that read the token
\* before brings it back.
OneDescendant ==
  \A login \in DOMAIN issued :
    LET valid == {i \in DOMAIN issued : Valid(i) /\ issued[i].login = login} IN
    /\ Cardinality(valid) <= 1
    /\ login \in ended => valid = {}
=============================================================================
