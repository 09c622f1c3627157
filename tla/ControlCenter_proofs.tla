------------------------ MODULE ControlCenter_proofs ------------------------
(***************************************************************************)
(* What is proved of the control center, for any number of tabs, calls,    *)
(* devices, registrations, edits and heartbeats: a login has one valid     *)
(* token at most, the page of a device is of one device, the registry      *)
(* keeps sites, tamper keys, tokens and quotas consistent, no device that  *)
(* is heard of is shown OFFLINE, and a score agrees with its explanation.  *)
(***************************************************************************)
EXTENDS ControlCenter, TLAPS, FiniteSetTheorems, SequenceTheorems, WellFoundedInduction, SequencesExt

-----------------------------------------------------------------------------
(* Sessions                                                                 *)

TokenState == {"valid", "revoked", "expired"}
Refresh == [state : TokenState, login : Nat]

\* A login is the number of the row it began with.  One valid row at most is of
\* a login, and none is of a login that was ended.
SInv ==
  /\ issued \in Seq(Refresh)
  /\ \A i \in DOMAIN issued : issued[i].login \in DOMAIN issued
  /\ \A i, j \in DOMAIN issued : (Valid(i) /\ Valid(j) /\ issued[i].login = issued[j].login) => i = j
  /\ ended \subseteq DOMAIN issued
  /\ \A i \in DOMAIN issued : Valid(i) => issued[i].login \notin ended

\* Rows cease to be valid; the others, and the logins, stay as they are.
Fewer(rows) ==
  /\ rows \in Seq(Refresh) /\ DOMAIN rows = DOMAIN issued
  /\ \A i \in DOMAIN issued : /\ rows[i].login = issued[i].login
                              /\ rows[i].state = "valid" => issued[i].state = "valid"

LEMMA Withdrawn ==
  ASSUME SInv, NEW i \in DOMAIN issued, NEW state \in TokenState \ {"valid"},
         NEW rows, rows = [issued EXCEPT ![i].state = state]
  PROVE  Fewer(rows) /\ rows[i].state # "valid"
<1>1. issued \in Seq(Refresh) BY DEF SInv
<1>2. issued[i] \in Refresh BY <1>1
<1> DEFINE new == [issued[i] EXCEPT !.state = state]
<1>3. new \in Refresh /\ new.state = state /\ new.login = issued[i].login
  BY <1>2 DEF Refresh
<1>4. rows = [issued EXCEPT ![i] = new] OBVIOUS
<1> HIDE DEF new
<1>5. rows \in Seq(Refresh) /\ DOMAIN rows = DOMAIN issued BY <1>1, <1>3, <1>4
<1>6. rows[i] = new /\ \A j \in DOMAIN issued : j # i => rows[j] = issued[j]
  BY <1>1, <1>4
<1>7. \A j \in DOMAIN issued : /\ rows[j].login = issued[j].login
                               /\ rows[j].state = "valid" => issued[j].state = "valid"
  BY <1>3, <1>6
<1> QED BY <1>3, <1>5, <1>6, <1>7 DEF Fewer

LEMMA FewerSInv ==
  ASSUME SInv, Fewer(issued'), ended' \subseteq DOMAIN issued,
         \A i \in DOMAIN issued : issued'[i].state = "valid" => issued[i].login \notin ended'
  PROVE  SInv'
<1>1. /\ issued' \in Seq(Refresh) /\ DOMAIN issued' = DOMAIN issued
      /\ \A i \in DOMAIN issued : /\ issued'[i].login = issued[i].login
                                  /\ issued'[i].state = "valid" => issued[i].state = "valid"
  BY DEF Fewer
<1>2. \A i \in DOMAIN issued' : issued'[i].login \in DOMAIN issued' BY <1>1 DEF SInv
<1>3. \A i \in DOMAIN issued : Valid(i)' => Valid(i) BY <1>1 DEF Valid
<1>4. \A i, j \in DOMAIN issued' :
        (Valid(i)' /\ Valid(j)' /\ issued'[i].login = issued'[j].login) => i = j
  BY <1>1, <1>3 DEF SInv
<1>5. \A i \in DOMAIN issued' : Valid(i)' => issued'[i].login \notin ended'
  BY <1>1 DEF Valid
<1> QED BY <1>1, <1>2, <1>4, <1>5 DEF SInv

\* A row that is added is the only valid one of its login.
LEMMA Added ==
  ASSUME SInv, NEW rows, Fewer(rows), NEW login \in Nat,
         issued' = Minted(rows, login), ended' = ended,
         login = 0 \/ (login \in DOMAIN issued /\ login \notin ended),
         \A i \in DOMAIN issued : rows[i].state = "valid" => issued[i].login # login
  PROVE  SInv'
<1>1. /\ rows \in Seq(Refresh) /\ DOMAIN rows = DOMAIN issued
      /\ \A i \in DOMAIN issued : /\ rows[i].login = issued[i].login
                                  /\ rows[i].state = "valid" => issued[i].state = "valid"
  BY DEF Fewer
<1> DEFINE n == Len(rows) + 1
           l == IF login = 0 THEN n ELSE login
           new == [state |-> "valid", login |-> l]
<1>2. Len(rows) \in Nat /\ DOMAIN rows = 1..Len(rows) BY <1>1
<1>3. new \in Refresh /\ new.state = "valid" /\ new.login = l BY <1>2 DEF Refresh, TokenState
<1>4. issued' = Append(rows, new) BY DEF Minted
<1>5. l \in 1..n /\ l \notin ended /\ (\A i \in DOMAIN issued : rows[i].state = "valid" => issued[i].login # l)
  <2>1. CASE login = 0
    <3>1. l = n /\ n \notin DOMAIN issued BY <1>1, <1>2, <2>1
    <3> QED BY <1>1, <1>2, <3>1 DEF SInv
  <2>2. CASE login # 0 BY <1>1, <1>2, <2>2
  <2> QED BY <2>1, <2>2
<1> HIDE DEF new, l
<1>6. /\ issued' \in Seq(Refresh) /\ DOMAIN issued' = 1..n
      /\ issued'[n] = new /\ \A i \in 1..Len(rows) : issued'[i] = rows[i]
  BY <1>1, <1>2, <1>3, <1>4
<1> HIDE DEF n
<1>7. \A i \in DOMAIN issued' : i = n \/ i \in DOMAIN issued
  BY <1>1, <1>2, <1>6 DEF n
<1>8. DOMAIN issued \subseteq DOMAIN issued' BY <1>1, <1>2, <1>6 DEF n
<1>9. \A i \in DOMAIN issued : issued'[i] = rows[i] BY <1>1, <1>2, <1>6
<1>10. \A i \in DOMAIN issued' : issued'[i].login \in DOMAIN issued'
  BY <1>1, <1>3, <1>5, <1>6, <1>7, <1>8, <1>9 DEF SInv
<1>11. \A i \in DOMAIN issued : Valid(i)' => /\ Valid(i) /\ rows[i].state = "valid"
                                             /\ issued'[i].login = issued[i].login
  BY <1>1, <1>8, <1>9 DEF Valid
<1>12. ASSUME NEW i \in DOMAIN issued', NEW j \in DOMAIN issued', Valid(i)', Valid(j)',
              issued'[i].login = issued'[j].login
       PROVE  i = j
  <2>1. \A k \in DOMAIN issued : Valid(k)' => issued'[k].login # l BY <1>5, <1>11
  <2>2. issued'[n].login = l BY <1>3, <1>6
  <2>3. CASE i = n BY <1>7, <1>12, <2>1, <2>2, <2>3
  <2>4. CASE j = n BY <1>7, <1>12, <2>1, <2>2, <2>4
  <2>5. CASE i # n /\ j # n
    <3>1. i \in DOMAIN issued /\ j \in DOMAIN issued BY <1>7, <2>5
    <3> QED BY <1>11, <1>12, <3>1 DEF SInv
  <2> QED BY <2>3, <2>4, <2>5
<1>13. ASSUME NEW i \in DOMAIN issued', Valid(i)' PROVE issued'[i].login \notin ended'
  <2>1. CASE i = n BY <1>3, <1>5, <1>6, <2>1
  <2>2. CASE i # n
    <3>1. i \in DOMAIN issued BY <1>7, <2>2
    <3> QED BY <1>11, <1>13, <3>1 DEF SInv
  <2> QED BY <2>1, <2>2
<1>14. ended' \subseteq DOMAIN issued' BY <1>8 DEF SInv
<1> QED BY <1>6, <1>10, <1>12, <1>13, <1>14 DEF SInv

LEMMA RowsRest == ASSUME SInv PROVE Fewer(issued)
BY DEF SInv, Fewer

LEMMA SignInSInv == ASSUME SInv, SignIn PROVE SInv'
<1>1. issued' = Minted(issued, 0) /\ ended' = ended BY DEF SignIn
<1>2. \A i \in DOMAIN issued : issued[i].login # 0
  <2>1. \A i \in DOMAIN issued : issued[i].login \in DOMAIN issued BY DEF SInv
  <2>2. DOMAIN issued = 1..Len(issued) /\ Len(issued) \in Nat BY DEF SInv
  <2> QED BY <2>1, <2>2
<1> QED BY <1>1, <1>2, RowsRest, Added

LEMMA RotateSInv == ASSUME SInv, NEW t \in Tab, Rotate(t) PROVE SInv'
<1> DEFINE i == asking[t].presented
           rows == Revoked(i)
<1>1. CASE Claimed(t)
  <2>1. issued' = Minted(rows, issued[i].login) /\ ended' = ended BY <1>1 DEF Rotate
  <2>2. i \in DOMAIN issued /\ Valid(i) BY <1>1 DEF Claimed, Valid
  <2>3. Fewer(rows) /\ rows[i].state # "valid" BY <2>2, Withdrawn DEF Revoked, TokenState
  <2>4. /\ issued[i].login \in DOMAIN issued /\ issued[i].login \notin ended
        /\ issued[i].login \in Nat
    BY <2>2 DEF SInv, Refresh
  <2> HIDE DEF rows
  <2>5. ASSUME NEW j \in DOMAIN issued, rows[j].state = "valid"
        PROVE  issued[j].login # issued[i].login
    <3>1. j # i BY <2>3, <2>5
    <3>2. Valid(j) BY <2>3, <2>5 DEF Fewer, Valid
    <3> QED BY <2>2, <3>1, <3>2 DEF SInv
  <2> HIDE DEF i
  <2> QED BY <2>1, <2>3, <2>4, <2>5, Added
<1>2. CASE ~Claimed(t)
  <2>1. UNCHANGED <<issued, ended>> BY <1>2 DEF Rotate
  <2> QED BY <2>1 DEF SInv, Valid
<1> QED BY <1>1, <1>2

LEMMA SignOutSInv == ASSUME SInv, NEW t \in Tab, SignOut(t) PROVE SInv'
<1> DEFINE i == asking[t].presented
<1>1. CASE Valid(i)
  <2>1. issued' = Revoked(i) /\ ended' = ended \cup {issued[i].login} BY <1>1 DEF SignOut
  <2>2. i \in DOMAIN issued BY <1>1 DEF Valid
  <2>3. Fewer(issued') /\ issued'[i].state # "valid"
    BY <2>1, <2>2, Withdrawn DEF Revoked, TokenState
  <2>4. ended' \subseteq DOMAIN issued BY <2>1, <2>2 DEF SInv
  <2>5. ASSUME NEW j \in DOMAIN issued, issued'[j].state = "valid"
        PROVE  issued[j].login \notin ended'
    <3>1. j # i BY <2>3, <2>5
    <3>2. Valid(j) BY <2>3, <2>5 DEF Fewer, Valid
    <3>3. issued[j].login # issued[i].login BY <1>1, <2>2, <3>1, <3>2 DEF SInv
    <3> QED BY <2>1, <3>2, <3>3 DEF SInv
  <2> QED BY <2>3, <2>4, <2>5, FewerSInv
<1>2. CASE ~Valid(i)
  <2>1. UNCHANGED <<issued, ended>> BY <1>2 DEF SignOut
  <2> QED BY <2>1 DEF SInv, Valid
<1> QED BY <1>1, <1>2

LEMMA ExpireSInv == ASSUME SInv, NEW i \in DOMAIN issued, Expire(i) PROVE SInv'
<1>1. issued' = [issued EXCEPT ![i].state = "expired"] /\ ended' = ended BY DEF Expire
<1>2. Fewer(issued') BY <1>1, Withdrawn DEF TokenState
<1>3. \A j \in DOMAIN issued : issued'[j].state = "valid" => Valid(j) BY <1>2 DEF Fewer, Valid
<1> QED BY <1>1, <1>2, <1>3, FewerSInv DEF SInv

LEMMA SessionsSInv == ASSUME SInv, [SessionsNext]_sessionVars PROVE SInv'
<1>1. CASE UNCHANGED <<issued, ended>> BY <1>1 DEF SInv, Valid
<1>2. CASE SignIn BY <1>2, SignInSInv
<1>3. ASSUME NEW t \in Tab,
             \/ StartRefresh(t) \/ ReadToken(t) \/ Rotate(t) \/ RefreshAnswered(t)
             \/ StartSignOut(t) \/ SignOut(t) \/ ClearCookie(t)
      PROVE  SInv'
  BY <1>1, <1>3, RotateSInv, SignOutSInv
     DEF StartRefresh, ReadToken, RefreshAnswered, StartSignOut, ClearCookie
<1>4. ASSUME NEW i \in DOMAIN issued, Expire(i) PROVE SInv' BY <1>4, ExpireSInv
<1> QED BY <1>1, <1>2, <1>3, <1>4 DEF SessionsNext, sessionVars

LEMMA SInvDescendant == ASSUME SInv PROVE OneDescendant
<1> SUFFICES ASSUME NEW login \in DOMAIN issued
             PROVE  LET valid == {i \in DOMAIN issued : Valid(i) /\ issued[i].login = login} IN
                    /\ Cardinality(valid) <= 1
                    /\ login \in ended => valid = {}
  BY DEF OneDescendant
<1> DEFINE valid == {i \in DOMAIN issued : Valid(i) /\ issued[i].login = login}
<1>1. login \in ended => valid = {} BY DEF SInv
<1>2. \A i, j \in valid : i = j BY DEF SInv
<1> HIDE DEF valid
<1>3. Cardinality(valid) <= 1
  <2>1. CASE valid = {} BY <2>1, FS_EmptySet
  <2>2. CASE valid # {}
    <3>1. PICK i : i \in valid BY <2>2
    <3>2. valid \subseteq {i} BY <1>2, <3>1
    <3>3. IsFiniteSet({i}) /\ Cardinality({i}) = 1 BY FS_Singleton
    <3> QED BY <3>2, <3>3, FS_Subset
  <2> QED BY <2>1, <2>2
<1> QED BY <1>1, <1>3 DEF valid

\* In every state of the control center a login has one valid refresh token at
\* most, however refreshes and logouts of the tabs overlap, and none once a
\* logout has revoked its token.
THEOREM OneTokenOfLogin == ControlSpec => []OneDescendant
<1>1. ControlInit => SInv
  <2> SUFFICES ASSUME SessionsInit PROVE SInv BY DEF ControlInit
  <2>1. issued \in Seq(Refresh) /\ Len(issued) = 0 /\ ended = {} BY EmptySeq DEF SessionsInit
  <2>2. DOMAIN issued = {} BY <2>1
  <2> QED BY <2>1, <2>2 DEF SInv
<1>2. SInv /\ [ControlNext]_controlVars => SInv'
  <2> SUFFICES ASSUME SInv, [ControlNext]_controlVars PROVE SInv' OBVIOUS
  <2>1. [SessionsNext]_sessionVars BY DEF ControlNext, controlVars
  <2> QED BY <2>1, SessionsSInv
<1> QED BY <1>1, <1>2, SInvDescendant, PTL DEF ControlSpec

-----------------------------------------------------------------------------
(* Console: sequences of calls                                              *)

LEMMA NoneOf == ASSUME NEW R PROVE <<>> \in Seq(R) /\ Range(<<>>) = {}
<1>1. PICK e : e = <<>> OBVIOUS
<1>2. e \in Seq(R) /\ Len(e) = 0 BY <1>1, EmptySeq
<1>3. Range(e) = {} BY <1>2 DEF Range
<1> QED BY <1>1, <1>2, <1>3

LEMMA OneOf == ASSUME NEW R, NEW c \in R PROVE <<c>> \in Seq(R) /\ Range(<<c>>) = {c}
<1>1. <<c>> \in Seq(R) /\ Len(<<c>>) = 1 /\ <<c>>[1] = c OBVIOUS
<1>2. DOMAIN <<c>> = {1} BY <1>1
<1>3. Range(<<c>>) = {c} BY <1>1, <1>2 DEF Range
<1> QED BY <1>1, <1>3

LEMMA Joined ==
  ASSUME NEW R, NEW s \in Seq(R), NEW t \in Seq(R)
  PROVE  s \o t \in Seq(R) /\ Range(s \o t) \subseteq Range(s) \cup Range(t)
<1>1. /\ s \o t \in Seq(R) /\ Len(s \o t) = Len(s) + Len(t)
      /\ \A i \in 1..(Len(s) + Len(t)) :
           (s \o t)[i] = IF i <= Len(s) THEN s[i] ELSE t[i - Len(s)]
  BY ConcatProperties
<1>2. Len(s) \in Nat /\ Len(t) \in Nat /\ DOMAIN s = 1..Len(s) /\ DOMAIN t = 1..Len(t)
      /\ DOMAIN (s \o t) = 1..(Len(s) + Len(t))
  BY <1>1
<1>3. ASSUME NEW i \in 1..(Len(s) + Len(t)) PROVE (s \o t)[i] \in Range(s) \cup Range(t)
  <2>1. CASE i <= Len(s)
    <3>1. i \in DOMAIN s /\ (s \o t)[i] = s[i] BY <1>1, <1>2, <2>1
    <3> QED BY <3>1 DEF Range
  <2>2. CASE i > Len(s)
    <3>1. i - Len(s) \in DOMAIN t /\ (s \o t)[i] = t[i - Len(s)] BY <1>1, <1>2, <2>2
    <3> QED BY <3>1 DEF Range
  <2> QED BY <1>2, <2>1, <2>2
<1>4. Range(s \o t) \subseteq Range(s) \cup Range(t) BY <1>2, <1>3 DEF Range
<1> QED BY <1>1, <1>4

LEMMA Appended ==
  ASSUME NEW R, NEW s \in Seq(R), NEW c \in R
  PROVE  Append(s, c) \in Seq(R) /\ Range(Append(s, c)) \subseteq Range(s) \cup {c}
<1>1. /\ Append(s, c) \in Seq(R) /\ Len(Append(s, c)) = Len(s) + 1
      /\ \A i \in 1..Len(s) : Append(s, c)[i] = s[i]
      /\ Append(s, c)[Len(s) + 1] = c
  BY AppendProperties
<1>2. Len(s) \in Nat /\ DOMAIN s = 1..Len(s) /\ DOMAIN Append(s, c) = 1..(Len(s) + 1)
  BY <1>1
<1>3. ASSUME NEW i \in 1..(Len(s) + 1) PROVE Append(s, c)[i] \in Range(s) \cup {c}
  <2>1. CASE i = Len(s) + 1 BY <1>1, <2>1
  <2>2. CASE i # Len(s) + 1
    <3>1. i \in DOMAIN s /\ Append(s, c)[i] = s[i] BY <1>1, <1>2, <2>2
    <3> QED BY <3>1 DEF Range
  <2> QED BY <2>1, <2>2
<1>4. Range(Append(s, c)) \subseteq Range(s) \cup {c} BY <1>2, <1>3 DEF Range
<1> QED BY <1>1, <1>4

\* What remains when a call has ended.
LEMMA OthersRemain ==
  ASSUME NEW R, calls \in Seq(R), NEW i \in DOMAIN calls
  PROVE  /\ Others(i) \in Seq(R) /\ Range(Others(i)) \subseteq Range(calls)
         /\ Len(Others(i)) = Len(calls) - 1
         /\ \A j \in 1..(i - 1) : Others(i)[j] = calls[j]
<1>1. Len(calls) \in Nat /\ DOMAIN calls = 1..Len(calls) /\ i \in 1..Len(calls) OBVIOUS
<1> DEFINE before == SubSeq(calls, 1, i - 1)
           after  == SubSeq(calls, i + 1, Len(calls))
<1>2. /\ before \in Seq(R) /\ Len(before) = i - 1
      /\ \A j \in 1..(i - 1) : before[j] = calls[j]
  BY <1>1
<1>3. /\ after \in Seq(R) /\ Len(after) = Len(calls) - i
      /\ \A j \in 1..(Len(calls) - i) : after[j] = calls[i + j]
  BY <1>1
<1>4. Others(i) = before \o after BY DEF Others, RemoveAt
<1> HIDE DEF before, after
<1>5. /\ before \o after \in Seq(R) /\ Len(before \o after) = Len(before) + Len(after)
      /\ \A j \in 1..(Len(before) + Len(after)) :
           (before \o after)[j] = IF j <= Len(before) THEN before[j] ELSE after[j - Len(before)]
  BY <1>2, <1>3, ConcatProperties
<1>6. Len(Others(i)) = Len(calls) - 1 BY <1>1, <1>2, <1>3, <1>4, <1>5
<1>7. \A j \in 1..(i - 1) : Others(i)[j] = calls[j] BY <1>1, <1>2, <1>3, <1>4, <1>5
<1>8. Range(before) \subseteq Range(calls)
  <2>1. DOMAIN before = 1..(i - 1) BY <1>1, <1>2
  <2> QED BY <1>1, <1>2, <2>1 DEF Range
<1>9. Range(after) \subseteq Range(calls)
  <2>1. DOMAIN after = 1..(Len(calls) - i) BY <1>1, <1>3
  <2>2. \A j \in 1..(Len(calls) - i) : i + j \in DOMAIN calls BY <1>1
  <2> QED BY <1>1, <1>3, <2>1, <2>2 DEF Range
<1>10. Range(Others(i)) \subseteq Range(calls)
  <2>1. Range(before \o after) \subseteq Range(before) \cup Range(after)
    BY <1>2, <1>3, Joined
  <2> QED BY <1>4, <1>8, <1>9, <2>1
<1> QED BY <1>4, <1>5, <1>6, <1>7, <1>10

-----------------------------------------------------------------------------
(* Console: what the page, the calls and the answers say of each other      *)

Choice == Computer \cup {Nobody}
Following == {"", "poll", "move", "evaluate"}
Reply == Answers \cup {""}
ListReply == Progress \cup {"", "error"}
CallRow ==
  {c \in [kind : Kind, device : Choice, next : Following, as : Nat, answer : Reply,
          old : BOOLEAN] :
     /\ c.kind # "live" => c.device \in Computer
     /\ c.kind = "actions" => c.answer \in ListReply}
\* Nothing but the fetch was awaited.
Plain(c) == c.next \notin {"move", "evaluate"}

ConsoleTypes ==
  /\ study \in Studies /\ currentActiveView \in {"elsewhere", "device-detail"}
  /\ selectedDeviceId \in Choice /\ selectedDevice \in Choice
  /\ tamperKey \in [of : Choice, revealed : BOOLEAN]
  /\ currentDevices \in SUBSET Computer
  /\ cachedDeviceActions \in [of : Choice, state : Progress]
  /\ remote \in [Computer -> Progress]
  /\ logins \in Nat /\ session \in 0..logins
  /\ calls \in Seq(CallRow)

\* While the link that opened the page was good, its key and its device agree.
PageOK ==
  /\ (currentActiveView = "device-detail" \/ refreshTimer) => selectedDeviceId \in Computer
  /\ ~missing => tamperKey.of \in {Nobody, selectedDeviceId} \cup late
  /\ (~missing /\ currentActiveView = "device-detail") => selectedDevice = selectedDeviceId

\* What follows the answer of a call has a device to work on, and a key that is
\* on its way is of the page, or was on its way before.
CallOK(c) ==
  /\ (c.kind = "move" \/ c.next = "move") => selectedDevice \in Computer
  /\ (c.kind # "live" \/ c.next \in {"move", "evaluate"}) => selectedDeviceId \in Computer
  /\ (c.kind \in KeyKinds /\ ~missing) => c.device \in late \cup {selectedDeviceId}
CallsOK == \A c \in Range(calls) : CallOK(c)

PInv == ConsoleTypes /\ PageOK /\ CallsOK

LEMMA CTypes ==
  ASSUME PInv
  PROVE  /\ study \in Studies /\ currentActiveView \in {"elsewhere", "device-detail"}
         /\ selectedDeviceId \in Choice /\ selectedDevice \in Choice
         /\ tamperKey \in [of : Choice, revealed : BOOLEAN]
         /\ currentDevices \in SUBSET Computer
         /\ cachedDeviceActions \in [of : Choice, state : Progress]
         /\ remote \in [Computer -> Progress]
         /\ logins \in Nat /\ session \in 0..logins /\ session \in Nat
         /\ calls \in Seq(CallRow)
BY DEF PInv, ConsoleTypes

LEMMA RowOf ==
  ASSUME PInv, NEW i \in DOMAIN calls
  PROVE  /\ calls[i] \in CallRow /\ calls[i] \in Range(calls) /\ CallOK(calls[i])
         /\ calls[i].kind \in Kind /\ calls[i].device \in Choice
         /\ calls[i].next \in Following /\ calls[i].answer \in Reply
         /\ calls[i].kind # "live" => calls[i].device \in Computer
         /\ calls[i].kind = "actions" => calls[i].answer \in ListReply
<1>1. calls[i] \in CallRow BY CTypes
<1>2. calls[i] \in Range(calls) BY DEF Range
<1>3. CallOK(calls[i]) BY <1>2 DEF PInv, CallsOK
<1> QED BY <1>1, <1>2, <1>3 DEF CallRow

LEMMA NewCall ==
  ASSUME PInv, NEW kind \in Kind, NEW device \in Choice,
         NEW next \in Following, kind # "live" => device \in Computer
  PROVE  /\ Call(kind, device, next) \in CallRow
         /\ Call(kind, device, next).kind = kind /\ Call(kind, device, next).device = device
         /\ Call(kind, device, next).next = next
<1>1. session \in Nat BY CTypes
<1>2. "" \in Reply /\ "" \in ListReply BY DEF Reply, ListReply
<1>3. PICK none : none = "" OBVIOUS
<1>4. Call(kind, device, next) = [kind |-> kind, device |-> device, next |-> next, as |-> session,
                                  answer |-> none, old |-> FALSE]
  BY <1>3 DEF Call
<1>5. none \in Reply /\ none \in ListReply BY <1>2, <1>3
<1> QED BY <1>1, <1>4, <1>5 DEF CallRow

\* A call without a continuation.
Single(kind, device) == Call(kind, device, "")

LEMMA PlainCall ==
  ASSUME PInv, NEW kind \in Kind, NEW device \in Choice, kind # "live" => device \in Computer,
         NEW c, c = Single(kind, device)
  PROVE  c \in CallRow /\ c.kind = kind /\ c.device = device /\ Plain(c)
<1>1. PICK next : next = "" OBVIOUS
<1>2. next \in Following /\ next \notin {"move", "evaluate"} BY <1>1 DEF Following
<1>3. c = Call(kind, device, next) BY <1>1 DEF Single
<1> QED BY <1>2, <1>3, NewCall DEF Plain

LEMMA SentCalls ==
  ASSUME NEW c \in CallRow
  PROVE  Sent(c) \in Seq(CallRow) /\ Range(Sent(c)) \subseteq {c}
<1>1. CASE c.kind \in study.kinds BY <1>1, OneOf DEF Sent
<1>2. CASE c.kind \notin study.kinds BY <1>2, NoneOf DEF Sent
<1> QED BY <1>1, <1>2

LEMMA LoadedCalls ==
  ASSUME PInv, NEW d \in Computer
  PROVE  /\ LoadActions(d) \in Seq(CallRow)
         /\ \A c \in Range(LoadActions(d)) : c.kind = "actions" /\ Plain(c)
<1> DEFINE c == Single("actions", d)
<1>1. c \in CallRow /\ c.kind = "actions" /\ Plain(c) BY PlainCall DEF Choice, Kind
<1> HIDE DEF c
<1>2. CASE session = 0
  <2>1. LoadActions(d) = <<>> BY <1>2 DEF LoadActions
  <2> QED BY <2>1, NoneOf
<1>3. CASE session # 0
  <2>1. LoadActions(d) = Sent(c) BY <1>3 DEF LoadActions, Single, c
  <2> QED BY <1>1, <2>1, SentCalls
<1> QED BY <1>2, <1>3

\* Calls of the same kind, device and continuation.
Alike(c, d) == c.kind = d.kind /\ c.device = d.device /\ c.next = d.next

LEMMA AlikeOK == ASSUME NEW c, NEW d, Alike(c, d), CallOK(d) PROVE CallOK(c)
BY DEF Alike, CallOK

LEMMA CallKept ==
  ASSUME NEW c, CallOK(c), UNCHANGED <<selectedDeviceId, late, missing>>,
         selectedDevice' = selectedDevice \/ selectedDevice' \in Computer
  PROVE  CallOK(c)'
BY DEF CallOK

\* Every call under way was under way, or is one that belongs to this page.
FromCalls == \A c \in Range(calls') : CallOK(c) \/ \E d \in Range(calls) : Alike(c, d)

LEMMA PageStep ==
  ASSUME PInv, ConsoleTypes', PageOK', FromCalls, UNCHANGED <<selectedDeviceId, late, missing>>,
         selectedDevice' = selectedDevice \/ selectedDevice' \in Computer
  PROVE  PInv'
<1>1. ASSUME NEW c \in Range(calls') PROVE CallOK(c)'
  <2>1. CallOK(c)
    <3>1. CASE CallOK(c) BY <3>1
    <3>2. ASSUME NEW d \in Range(calls), Alike(c, d) PROVE CallOK(c)
      BY <3>2, AlikeOK DEF PInv, CallsOK
    <3> QED BY <3>1, <3>2 DEF FromCalls
  <2> QED BY <2>1, CallKept
<1>2. CallsOK' BY <1>1 DEF CallsOK
<1> QED BY <1>2 DEF PInv

LEMMA PageStays ==
  ASSUME PInv, currentActiveView' \in {currentActiveView, "elsewhere"},
         UNCHANGED <<selectedDeviceId, selectedDevice, tamperKey, late, missing>>,
         refreshTimer' => refreshTimer \/ selectedDeviceId \in Computer
  PROVE  PageOK'
BY DEF PInv, PageOK

LEMMA SameCalls == ASSUME calls' = calls PROVE FromCalls
BY DEF FromCalls, Alike

LEMMA CallsJoin ==
  ASSUME PInv, NEW s \in Seq(CallRow), Range(s) \subseteq Range(calls), NEW t \in Seq(CallRow),
         \A c \in Range(t) : CallOK(c), calls' = s \o t
  PROVE  calls' \in Seq(CallRow) /\ FromCalls
<1>1. calls' \in Seq(CallRow) /\ Range(calls') \subseteq Range(s) \cup Range(t) BY Joined
<1>2. \A c \in Range(calls') : CallOK(c) BY <1>1 DEF PInv, CallsOK
<1> QED BY <1>1, <1>2 DEF FromCalls

LEMMA CallsAppend ==
  ASSUME PInv, NEW s \in Seq(CallRow), Range(s) \subseteq Range(calls), NEW c \in CallRow,
         CallOK(c), calls' = Append(s, c)
  PROVE  calls' \in Seq(CallRow) /\ FromCalls
<1>1. calls' \in Seq(CallRow) /\ Range(calls') \subseteq Range(s) \cup {c} BY Appended
<1>2. \A d \in Range(calls') : CallOK(d) BY <1>1 DEF PInv, CallsOK
<1> QED BY <1>1, <1>2 DEF FromCalls

LEMMA CallsEnd ==
  ASSUME PInv, NEW i \in DOMAIN calls
  PROVE  /\ Others(i) \in Seq(CallRow) /\ Range(Others(i)) \subseteq Range(calls)
         /\ calls' = Others(i) => calls' \in Seq(CallRow) /\ FromCalls
<1>1. Others(i) \in Seq(CallRow) /\ Range(Others(i)) \subseteq Range(calls)
  BY CTypes, OthersRemain
<1>2. ASSUME calls' = Others(i) PROVE FromCalls
  BY <1>1, <1>2 DEF FromCalls, PInv, CallsOK
<1> QED BY <1>1, <1>2

\* The rows keep their kind, device and continuation.
LEMMA CallsAnswered ==
  ASSUME PInv, calls' \in Seq(CallRow), Len(calls') <= Len(calls),
         \A j \in DOMAIN calls' : \E k \in DOMAIN calls : Alike(calls'[j], calls[k])
  PROVE  FromCalls
<1> SUFFICES ASSUME NEW c \in Range(calls') PROVE \E d \in Range(calls) : Alike(c, d)
  BY DEF FromCalls
<1>1. PICK j \in DOMAIN calls' : c = calls'[j] BY DEF Range
<1>2. PICK k \in DOMAIN calls : Alike(c, calls[k]) BY <1>1
<1> QED BY <1>2 DEF Range

\* The list of the actions of the page's own device.
LEMMA LoadBelongs ==
  ASSUME PInv, selectedDeviceId \in Computer, NEW d \in Computer, NEW load,
         load = LoadActions(d) \/ load = <<>>
  PROVE  load \in Seq(CallRow) /\ \A c \in Range(load) : CallOK(c)
<1>1. CASE load = LoadActions(d)
  <2>1. load \in Seq(CallRow) /\ \A c \in Range(load) : c.kind = "actions" /\ Plain(c)
    BY <1>1, LoadedCalls
  <2> QED BY <2>1 DEF CallOK, KeyKinds, Plain
<1>2. CASE load = <<>> BY <1>2, NoneOf
<1> QED BY <1>1, <1>2

\* The calls under way, the page that is loaded and the list of its actions.
Opened(under, d, found, tab) ==
  under \o (IF found THEN Sent(Single("deep", d)) ELSE <<>>)
        \o (IF tab = "acciones" THEN LoadActions(d) ELSE <<>>)

LEMMA OpenedCalls ==
  ASSUME PInv, NEW d \in Computer, NEW under \in Seq(CallRow), NEW found, NEW tab,
         NEW s, s = Opened(under, d, found, tab)
  PROVE  /\ s \in Seq(CallRow)
         /\ \A c \in Range(s) : \/ c \in Range(under)
                                \/ c.kind \in {"deep", "actions"} /\ Plain(c)
<1> DEFINE deep == IF found THEN Sent(Single("deep", d)) ELSE <<>>
           load == IF tab = "acciones" THEN LoadActions(d) ELSE <<>>
<1>1. deep \in Seq(CallRow) /\ \A c \in Range(deep) : c.kind = "deep" /\ Plain(c)
  <2> DEFINE c == Single("deep", d)
  <2>1. c \in CallRow /\ c.kind = "deep" /\ Plain(c) BY PlainCall DEF Choice, Kind
  <2> HIDE DEF c
  <2>2. CASE found
    <3>1. deep = Sent(c) BY <2>2 DEF c
    <3> QED BY <2>1, <3>1, SentCalls
  <2>3. CASE ~found
    <3>1. deep = <<>> BY <2>3
    <3> QED BY <3>1, NoneOf
  <2> QED BY <2>2, <2>3
<1>2. load \in Seq(CallRow) /\ \A c \in Range(load) : c.kind = "actions" /\ Plain(c)
  <2>1. CASE tab = "acciones"
    <3>1. load = LoadActions(d) BY <2>1
    <3> QED BY <3>1, LoadedCalls
  <2>2. CASE tab # "acciones"
    <3>1. load = <<>> BY <2>2
    <3> QED BY <3>1, NoneOf
  <2> QED BY <2>1, <2>2
<1>3. s = (under \o deep) \o load BY DEF Opened
<1> HIDE DEF deep, load
<1>4. under \o deep \in Seq(CallRow) /\ Range(under \o deep) \subseteq Range(under) \cup Range(deep)
  BY <1>1, Joined
<1>5. s \in Seq(CallRow) /\ Range(s) \subseteq Range(under \o deep) \cup Range(load)
  BY <1>2, <1>3, <1>4, Joined
<1> QED BY <1>1, <1>2, <1>4, <1>5

\* The page of d is opened: what the list of its key was of before is forgotten, and whatever
\* key is still under way is on its way.
LEMMA OpenStep ==
  ASSUME PInv, NEW d \in Computer, NEW tab, NEW list, NEW chosen, NEW allowed,
         NEW under \in Seq(CallRow), Range(under) \subseteq Range(calls),
         chosen = selectedDevice \/ chosen \in Computer,
         Open(d, tab, list, chosen, under, allowed),
         currentDevices' \in SUBSET Computer, UNCHANGED <<study, cachedDeviceActions, remote>>,
         logins' = logins, session' \in {0, session}
  PROVE  PInv'
<1>1. /\ selectedDeviceId' = d /\ tamperKey' = Hidden /\ late' = OnTheirWay(under)
      /\ missing' = (d \notin list)
      /\ selectedDevice' = IF d \in list THEN d ELSE chosen
      /\ currentActiveView' = IF d \in list THEN "device-detail" ELSE currentActiveView
  BY DEF Open
<1>2. /\ calls' \in Seq(CallRow)
      /\ \A c \in Range(calls') : \/ c \in Range(under)
                                  \/ c.kind \in {"deep", "actions"} /\ Plain(c)
  <2>1. calls' = Opened(under, d, d \in list /\ allowed, tab) BY DEF Open, Opened, Single
  <2> QED BY <2>1, OpenedCalls
<1>3. selectedDevice' \in Choice /\ Hidden \in [of : Choice, revealed : BOOLEAN]
      /\ Hidden.of = Nobody
  BY <1>1, CTypes DEF Choice, Hidden
<1>4. ConsoleTypes'
  <2>1. session' \in 0..logins' BY CTypes
  <2> QED BY <1>1, <1>2, <1>3, <2>1, CTypes DEF ConsoleTypes, Choice
<1>5. PageOK' BY <1>1, <1>3 DEF PageOK
<1>6. ASSUME NEW c \in Range(calls') PROVE CallOK(c)'
  <2>1. CASE c.kind \in {"deep", "actions"} /\ Plain(c)
    BY <1>1, <2>1 DEF CallOK, KeyKinds, Plain
  <2>2. CASE c \in Range(under)
    <3>1. CallOK(c) BY <2>2 DEF PInv, CallsOK
    <3>2. (c.kind = "move" \/ c.next = "move") => selectedDevice' \in Computer
      BY <1>1, <3>1 DEF CallOK
    <3>3. c.kind \in KeyKinds => c.device \in late' BY <1>1, <2>2 DEF OnTheirWay
    <3> QED BY <1>1, <3>2, <3>3 DEF CallOK
  <2> QED BY <1>2, <2>1, <2>2
<1>7. CallsOK' BY <1>6 DEF CallsOK
<1> QED BY <1>4, <1>5, <1>7 DEF PInv

LEMMA OpenDeviceKeeps ==
  ASSUME PInv, NEW d \in Computer, NEW tab \in SubTab, OpenDevice(d, tab)
  PROVE  PInv'
<1>1. /\ Open(d, tab, currentDevices, selectedDevice, calls, session # 0)
      /\ UNCHANGED <<study, currentDevices, cachedDeviceActions, session, remote, logins>>
  BY DEF OpenDevice, serverSide
<1> QED BY <1>1, CTypes, OpenStep

LEMMA SwitchSubTabKeeps ==
  ASSUME PInv, NEW tab \in SubTab, SwitchSubTab(tab)
  PROVE  PInv'
<1>1. selectedDeviceId \in Computer BY DEF SwitchSubTab, PInv, PageOK
<1>2. /\ UNCHANGED <<study, currentActiveView, selectedDeviceId, missing, late, selectedDevice,
                     currentDevices, tamperKey, cachedDeviceActions, session, remote, logins>>
      /\ refreshTimer' => refreshTimer
      /\ calls' = calls \o (IF tab = "acciones" THEN LoadActions(selectedDeviceId) ELSE <<>>)
  BY DEF SwitchSubTab, serverSide
<1>3. PICK load : /\ load = LoadActions(selectedDeviceId) \/ load = <<>>
                  /\ calls' = calls \o load
  BY <1>2
<1>4. load \in Seq(CallRow) /\ \A c \in Range(load) : CallOK(c) BY <1>1, <1>3, LoadBelongs
<1>5. calls' \in Seq(CallRow) /\ FromCalls BY <1>3, <1>4, CTypes, CallsJoin
<1>6. ConsoleTypes' BY <1>2, <1>5, CTypes DEF ConsoleTypes
<1>7. PageOK' BY <1>2, PageStays
<1> QED BY <1>2, <1>5, <1>6, <1>7, PageStep

LEMMA LeaveKeeps == ASSUME PInv, Leave PROVE PInv'
<1>1. /\ currentActiveView' = "elsewhere"
      /\ UNCHANGED <<study, selectedDeviceId, missing, late, selectedDevice, refreshTimer,
                     currentDevices, tamperKey, cachedDeviceActions, session, remote, logins,
                     calls>>
  BY DEF Leave, serverSide, listVars
<1>2. ConsoleTypes' BY <1>1, CTypes DEF ConsoleTypes
<1>3. PageOK' BY <1>1, PageStays
<1> QED BY <1>1, <1>2, <1>3, SameCalls, PageStep

LEMMA RefreshActionsKeeps == ASSUME PInv, RefreshActions PROVE PInv'
<1>1. selectedDeviceId \in Computer BY DEF RefreshActions, PInv, PageOK
<1>2. /\ UNCHANGED <<study, currentActiveView, selectedDeviceId, missing, late, selectedDevice,
                     currentDevices, tamperKey, cachedDeviceActions, session, remote, logins>>
      /\ ~refreshTimer'
      /\ calls' = calls \o LoadActions(selectedDeviceId)
  BY DEF RefreshActions, serverSide, deviceVars, pageVars
<1>3. PICK load : load = LoadActions(selectedDeviceId) /\ calls' = calls \o load
  BY <1>2
<1>4. load \in Seq(CallRow) /\ \A c \in Range(load) : CallOK(c) BY <1>1, <1>3, LoadBelongs
<1>5. calls' \in Seq(CallRow) /\ FromCalls BY <1>3, <1>4, CTypes, CallsJoin
<1>6. ConsoleTypes' BY <1>2, <1>5, CTypes DEF ConsoleTypes
<1>7. PageOK' BY <1>2, PageStays
<1> QED BY <1>2, <1>5, <1>6, <1>7, PageStep

\* On a page an order has a device, and it is the page's own.
LEMMA AskStep ==
  ASSUME PInv, NEW kind \in Kind \ {"live"}, NEW device,
         device \in {selectedDeviceId, selectedDevice}, Ask(kind, device)
  PROVE  calls' \in Seq(CallRow) /\ FromCalls
<1>1. /\ currentActiveView = "device-detail" /\ selectedDevice # Nobody
      /\ calls' = Append(calls, Single(kind, device))
  BY DEF Ask, OnPage, Single
<1>2. selectedDeviceId \in Computer /\ selectedDevice \in Computer
  BY <1>1, CTypes DEF PInv, PageOK, Choice
<1>3. ~missing => selectedDevice = selectedDeviceId BY <1>1 DEF PInv, PageOK
<1>4. PICK c : c = Single(kind, device) OBVIOUS
<1>5. c \in CallRow /\ c.kind = kind /\ c.device = device /\ Plain(c)
  BY <1>2, <1>4, PlainCall DEF Choice
<1>6. CallOK(c) BY <1>2, <1>3, <1>5 DEF CallOK, Plain
<1>7. calls' = Append(calls, c) BY <1>1, <1>4
<1> QED BY <1>5, <1>6, <1>7, CTypes, CallsAppend

\* The page rests while a call is added or the server works.
LEMMA PageRests ==
  ASSUME PInv, calls' \in Seq(CallRow), FromCalls, UNCHANGED <<study, deviceVars>>,
         cachedDeviceActions' = cachedDeviceActions, refreshTimer' = refreshTimer,
         remote' \in [Computer -> Progress], logins' \in Nat, session' \in 0..logins'
  PROVE  PInv'
<1>1. UNCHANGED <<study, currentActiveView, selectedDeviceId, missing, late, selectedDevice,
                  currentDevices, tamperKey>>
  BY DEF deviceVars, pageVars
<1>2. ConsoleTypes' BY <1>1, CTypes DEF ConsoleTypes
<1>3. PageOK' BY <1>1, PageStays
<1> QED BY <1>1, <1>2, <1>3, PageStep

LEMMA CommandKeeps == ASSUME PInv, Command PROVE PInv'
<1>1. /\ Ask("command", selectedDeviceId)
      /\ UNCHANGED <<study, deviceVars, cachedDeviceActions, refreshTimer, session, remote, logins>>
  BY DEF Command, listVars, serverSide
<1>2. calls' \in Seq(CallRow) /\ FromCalls BY <1>1, AskStep DEF Kind
<1> QED BY <1>1, <1>2, CTypes, PageRests

LEMMA OrderKeeps ==
  ASSUME PInv, NEW kind \in {"regenerate", "move", "evaluate"}, Order(kind)
  PROVE  PInv'
<1>1. /\ Ask(kind, selectedDevice)
      /\ UNCHANGED <<study, deviceVars, cachedDeviceActions, refreshTimer, session, remote, logins>>
  BY DEF Order, listVars, serverSide
<1>2. calls' \in Seq(CallRow) /\ FromCalls BY <1>1, AskStep DEF Kind
<1> QED BY <1>1, <1>2, CTypes, PageRests

LEMMA ShowKeyKeeps == ASSUME PInv, ShowKey PROVE PInv'
<1>1. /\ UNCHANGED <<study, currentActiveView, selectedDeviceId, missing, late, selectedDevice,
                     refreshTimer, currentDevices, cachedDeviceActions, session, remote, logins>>
      /\ \/ Ask("key", selectedDevice) /\ tamperKey' = tamperKey
         \/ tamperKey' = [tamperKey EXCEPT !.revealed = ~@] /\ calls' = calls
  BY DEF ShowKey, listVars, serverSide, pageVars
<1>2. calls' \in Seq(CallRow) /\ FromCalls
  <2>1. CASE Ask("key", selectedDevice) BY <2>1, AskStep DEF Kind
  <2>2. CASE calls' = calls BY <2>2, CTypes, SameCalls
  <2> QED BY <1>1, <2>1, <2>2
<1>3. tamperKey' \in [of : Choice, revealed : BOOLEAN] /\ tamperKey'.of = tamperKey.of
  BY <1>1, CTypes
<1>4. ConsoleTypes' BY <1>1, <1>2, <1>3, CTypes DEF ConsoleTypes
<1>5. PageOK' BY <1>1, <1>3 DEF PInv, PageOK
<1> QED BY <1>1, <1>2, <1>4, <1>5, PageStep

LEMMA LoginKeeps == ASSUME PInv, Login PROVE PInv'
<1>1. /\ UNCHANGED <<study, deviceVars, cachedDeviceActions, refreshTimer, remote>>
      /\ logins' = logins + 1 /\ session' = logins + 1
      /\ calls' = Append(calls, [Call("live", Nobody, "poll") EXCEPT !.as = logins + 1])
  BY DEF Login, listVars, serverSide
<1>2. logins + 1 \in Nat BY CTypes
<1>3. PICK b : b = Call("live", Nobody, "poll") OBVIOUS
<1>4. b \in CallRow /\ b.kind = "live" /\ b.next = "poll"
  <2>1. "live" \in Kind BY DEF Kind
  <2>2. "poll" \in Following BY DEF Following
  <2>3. Nobody \in Choice BY DEF Choice
  <2> QED BY <1>3, <2>1, <2>2, <2>3, NewCall
<1>5. PICK c : c = [b EXCEPT !.as = logins + 1] OBVIOUS
<1>6. c \in CallRow /\ c.kind = "live" /\ c.next = "poll" BY <1>2, <1>4, <1>5 DEF CallRow
<1>7. CallOK(c) BY <1>6 DEF CallOK, KeyKinds
<1>8. calls' = Append(calls, c) BY <1>1, <1>3, <1>5
<1>9. calls' \in Seq(CallRow) /\ FromCalls BY <1>6, <1>7, <1>8, CTypes, CallsAppend
<1>10. logins' \in Nat /\ session' \in 0..logins' BY <1>1, CTypes
<1> QED BY <1>1, <1>9, <1>10, CTypes, PageRests

LEMMA TickKeeps == ASSUME PInv, Tick PROVE PInv'
<1>1. /\ UNCHANGED <<study, deviceVars, cachedDeviceActions, refreshTimer, session, remote, logins>>
      /\ calls' = calls \/ calls' = Append(calls, Single("live", Nobody))
  BY DEF Tick, listVars, serverSide, Single
<1>2. PICK c : c = Single("live", Nobody) OBVIOUS
<1>3. c \in CallRow /\ c.kind = "live" /\ Plain(c) BY <1>2, PlainCall DEF Choice, Kind
<1>4. CallOK(c) BY <1>3 DEF CallOK, KeyKinds, Plain
<1>5. calls' \in Seq(CallRow) /\ FromCalls
  <2>1. CASE calls' = calls BY <2>1, CTypes, SameCalls
  <2>2. CASE calls' = Append(calls, c) BY <1>3, <1>4, <2>2, CTypes, CallsAppend
  <2> QED BY <1>1, <1>2, <2>1, <2>2
<1> QED BY <1>1, <1>5, CTypes, PageRests

LEMMA SessionKeeps ==
  ASSUME PInv, Logout \/ ChangeInterval \/ ExpireSession
  PROVE  PInv'
<1>1. /\ UNCHANGED <<study, deviceVars, cachedDeviceActions, refreshTimer, calls, remote, logins>>
      /\ session' \in {0, session}
  BY DEF Logout, ChangeInterval, ExpireSession, listVars, serverSide
<1>2. session' \in 0..logins' /\ calls' \in Seq(CallRow) BY <1>1, CTypes
<1> QED BY <1>1, <1>2, CTypes, SameCalls, PageRests

LEMMA ProgressesKeeps == ASSUME PInv, NEW d \in Computer, Progresses(d) PROVE PInv'
<1>1. /\ UNCHANGED <<study, deviceVars, cachedDeviceActions, refreshTimer, calls, session, logins>>
      /\ \E state \in Progress : remote' = [remote EXCEPT ![d] = state]
  BY DEF Progresses, listVars, Progress
<1>2. remote' \in [Computer -> Progress] BY <1>1, CTypes
<1>3. calls' \in Seq(CallRow) /\ session' \in 0..logins' BY <1>1, CTypes
<1> QED BY <1>1, <1>2, <1>3, CTypes, SameCalls, PageRests

LEMMA ReplyStep ==
  ASSUME PInv, NEW i \in DOMAIN calls, NEW with \in Reply,
         calls[i].kind = "actions" => with \in ListReply, ReplyWith(i, with)
  PROVE  calls' \in Seq(CallRow) /\ FromCalls
<1> DEFINE new == [calls[i] EXCEPT !.answer = with]
<1>1. new \in CallRow /\ Alike(new, calls[i]) BY RowOf DEF CallRow, Alike
<1>2. calls' = [calls EXCEPT ![i] = new] BY DEF ReplyWith
<1> HIDE DEF new
<1>3. calls \in Seq(CallRow) BY CTypes
<1>4. calls' \in Seq(CallRow) /\ DOMAIN calls' = DOMAIN calls /\ Len(calls') = Len(calls)
  BY <1>1, <1>2, <1>3
<1>5. ASSUME NEW j \in DOMAIN calls' PROVE Alike(calls'[j], calls[j])
  <2>1. CASE j = i BY <1>1, <1>2, <1>4, <2>1
  <2>2. CASE j # i
    <3>1. calls'[j] = calls[j] BY <1>2, <1>4, <2>2
    <3> QED BY <3>1 DEF Alike
  <2> QED BY <2>1, <2>2
<1>6. Len(calls') <= Len(calls) BY <1>3, <1>4
<1> QED BY <1>4, <1>5, <1>6, CallsAnswered

LEMMA ServeKeeps == ASSUME PInv, NEW i \in DOMAIN calls, Serve(i) PROVE PInv'
<1>1. /\ UNCHANGED <<study, deviceVars, cachedDeviceActions, refreshTimer, session, logins>>
      /\ \/ /\ remote' = remote
            /\ \E with \in Answers : /\ ReplyWith(i, with)
                                     /\ calls[i].kind = "actions" => with = "error"
         \/ /\ remote' = remote /\ calls[i].kind = "actions"
            /\ ReplyWith(i, remote[calls[i].device])
         \/ /\ remote' = [remote EXCEPT ![calls[i].device] = "queued"]
            /\ calls[i].kind = "command" /\ ReplyWith(i, "ok")
  <2>1. UNCHANGED <<study, deviceVars, cachedDeviceActions, refreshTimer, session, logins>>
    BY DEF Serve, listVars
  <2>2. CASE Unauthenticated(calls[i])
    <3>1. /\ ReplyWith(i, IF calls[i].kind = "live" THEN "unauthorized" ELSE "error")
          /\ remote' = remote
      BY <2>2 DEF Serve
    <3>2. CASE calls[i].kind = "live"
      <4>1. ReplyWith(i, "unauthorized") /\ "unauthorized" \in Answers
        BY <3>1, <3>2 DEF Answers
      <4> QED BY <2>1, <3>1, <3>2, <4>1
    <3>3. CASE calls[i].kind # "live"
      <4>1. ReplyWith(i, "error") /\ "error" \in Answers BY <3>1, <3>3 DEF Answers
      <4> QED BY <2>1, <3>1, <4>1
    <3> QED BY <3>2, <3>3
  <2>3. CASE ~Unauthenticated(calls[i])
    <3>1. \/ /\ remote' = remote /\ calls[i].kind = "live"
             /\ \E with \in {"all", "empty"} : ReplyWith(i, with)
          \/ /\ remote' = remote /\ calls[i].kind = "actions"
             /\ ReplyWith(i, remote[calls[i].device])
          \/ /\ remote' = [remote EXCEPT ![calls[i].device] = "queued"]
             /\ calls[i].kind = "command" /\ ReplyWith(i, "ok")
          \/ /\ remote' = remote /\ calls[i].kind \notin {"live", "actions", "command"}
             /\ ReplyWith(i, "ok")
      BY <2>3 DEF Serve
    <3>2. {"all", "empty", "ok"} \subseteq Answers BY DEF Answers
    <3>3. "live" # "actions" OBVIOUS
    <3> QED BY <2>1, <3>1, <3>2, <3>3
  <2> QED BY <2>2, <2>3
<1>2. Answers \subseteq Reply /\ Progress \subseteq Reply /\ Progress \subseteq ListReply
      /\ "error" \in ListReply /\ "ok" \in Answers /\ "queued" \in Progress
  BY DEF Reply, ListReply, Answers, Progress
<1>3. remote' \in [Computer -> Progress] BY <1>1, <1>2, CTypes
<1>4. PICK with \in Reply : /\ ReplyWith(i, with)
                            /\ calls[i].kind = "actions" => with \in ListReply
  <2>1. CASE \E with \in Answers : /\ ReplyWith(i, with)
                                   /\ calls[i].kind = "actions" => with = "error"
    BY <1>2, <2>1
  <2>2. CASE calls[i].kind = "actions" /\ ReplyWith(i, remote[calls[i].device])
    <3>1. calls[i].device \in Computer BY <2>2, RowOf
    <3>2. remote[calls[i].device] \in Progress BY <3>1, CTypes
    <3> QED BY <1>2, <2>2, <3>2
  <2>3. CASE calls[i].kind = "command" /\ ReplyWith(i, "ok") BY <1>2, <2>3
  <2> QED BY <1>1, <2>1, <2>2, <2>3
<1>5. calls' \in Seq(CallRow) /\ FromCalls BY <1>4, ReplyStep
<1> QED BY <1>1, <1>3, <1>5, CTypes, PageRests

LEMMA ReopenedDevice ==
  ASSUME PInv, NEW c, CallOK(c), c.next \in {"move", "evaluate"}, NEW shown,
         shown = selectedDevice \/ shown \in Computer
  PROVE  Reopened(c, shown) \in Computer
BY DEF Reopened, CallOK

LEMMA LiveAnsweredKeeps ==
  ASSUME PInv, NEW i \in DOMAIN calls, NEW o \in Answers, LiveAnswered(i, o)
  PROVE  PInv'
<1> DEFINE list == CASE o = "all" -> Computer [] o = "empty" -> {} [] OTHER -> currentDevices
           shown == IF o \in {"all", "empty"} /\ currentActiveView = "device-detail"
                         /\ selectedDeviceId \in list
                    THEN selectedDeviceId ELSE selectedDevice
<1>1. list \in SUBSET Computer BY CTypes
<1>2. shown = selectedDevice \/ (shown = selectedDeviceId /\ shown \in Computer) BY <1>1
<1>3. /\ currentDevices' = list
      /\ session' = (IF o = "unauthorized" THEN 0 ELSE session)
      /\ UNCHANGED <<study, cachedDeviceActions, remote, logins>>
  BY DEF LiveAnswered, serverSide
<1>4. Others(i) \in Seq(CallRow) /\ Range(Others(i)) \subseteq Range(calls) BY CallsEnd
<1>5. CASE calls[i].next \in {"move", "evaluate"}
  <2>1. Open(Reopened(calls[i], shown), "other", list, shown, Others(i),
             session # 0 /\ o # "unauthorized")
    BY <1>5 DEF LiveAnswered
  <2>2. Reopened(calls[i], shown) \in Computer BY <1>2, <1>5, RowOf, ReopenedDevice
  <2> HIDE DEF list, shown
  <2>3. session' \in {0, session} BY <1>3
  <2> QED BY <1>1, <1>2, <1>3, <1>4, <2>1, <2>2, <2>3, OpenStep
<1>6. CASE calls[i].next \notin {"move", "evaluate"}
  <2>1. /\ selectedDevice' = shown /\ calls' = Others(i)
        /\ UNCHANGED <<pageVars, tamperKey, refreshTimer>>
    BY <1>6 DEF LiveAnswered
  <2> HIDE DEF list, shown
  <2>2. UNCHANGED <<currentActiveView, selectedDeviceId, missing, late, tamperKey, refreshTimer>>
    BY <2>1 DEF pageVars
  <2>3. calls' \in Seq(CallRow) /\ FromCalls BY <2>1, CallsEnd
  <2>4. session' \in 0..logins' BY <1>3, CTypes
  <2>5. selectedDevice' \in Choice BY <1>2, <2>1, CTypes DEF Choice
  <2>6. ConsoleTypes' BY <1>1, <1>3, <2>2, <2>3, <2>4, <2>5, CTypes DEF ConsoleTypes
  <2>7. PageOK' BY <1>2, <2>1, <2>2 DEF PInv, PageOK
  <2> QED BY <1>2, <2>1, <2>2, <2>3, <2>6, <2>7, PageStep
<1> QED BY <1>5, <1>6

LEMMA DeepAnsweredKeeps ==
  ASSUME PInv, NEW i \in DOMAIN calls, NEW o \in Answers, DeepAnswered(i, o)
  PROVE  PInv'
<1>1. /\ calls[i].kind = "deep" /\ calls' = Others(i)
      /\ \/ selectedDevice' = selectedDevice
         \/ selectedDevice' = calls[i].device /\ selectedDeviceId = calls[i].device
      /\ UNCHANGED <<study, currentActiveView, selectedDeviceId, missing, late, currentDevices,
                     tamperKey, cachedDeviceActions, refreshTimer, session, remote, logins>>
  BY DEF DeepAnswered, Ends, SameDevice, pageVars, listVars, serverSide
<1>2. calls[i].device \in Computer BY <1>1, RowOf
<1>3. calls' \in Seq(CallRow) /\ FromCalls BY <1>1, CallsEnd
<1>4. ConsoleTypes' BY <1>1, <1>2, <1>3, CTypes DEF ConsoleTypes, Choice
<1>5. PageOK' BY <1>1 DEF PInv, PageOK
<1> QED BY <1>1, <1>2, <1>3, <1>4, <1>5, PageStep

\* A list that came is one that the server gave.
LEMMA ListOf ==
  ASSUME PInv, NEW i \in DOMAIN calls, NEW o, Ends(i, "actions", o), o # "error"
  PROVE  o \in Progress /\ calls[i].kind = "actions"
<1>1. o = calls[i].answer /\ calls[i].answer # "" /\ calls[i].kind = "actions"
  BY DEF Ends
<1>2. o \in ListReply BY <1>1, RowOf
<1>3. \A x \in ListReply : (x # "" /\ x # "error") => x \in Progress BY DEF ListReply
<1> QED BY <1>1, <1>2, <1>3

LEMMA OutdatedCalls ==
  ASSUME PInv, NEW i \in DOMAIN calls, calls' = Outdated(i)
  PROVE  calls' \in Seq(CallRow) /\ FromCalls
<1>1. /\ calls \in Seq(CallRow) /\ Len(calls) \in Nat /\ DOMAIN calls = 1..Len(calls)
      /\ i \in 1..Len(calls)
  BY CTypes
<1>2. /\ Others(i) \in Seq(CallRow) /\ Len(Others(i)) = Len(calls) - 1
      /\ Range(Others(i)) \subseteq Range(calls)
  BY <1>1, OthersRemain
<1>3. DOMAIN Others(i) = 1..(Len(calls) - 1) BY <1>1, <1>2
<1>4. DOMAIN calls' = 1..(Len(calls) - 1) BY <1>3 DEF Outdated
<1>5. ASSUME NEW j \in 1..(Len(calls) - 1)
      PROVE  calls'[j] \in CallRow /\ \E k \in DOMAIN calls : Alike(calls'[j], calls[k])
  <2>1. CASE j < i
    <3>1. calls'[j] = [calls[j] EXCEPT !.old = TRUE] BY <1>3, <2>1 DEF Outdated
    <3>2. j \in DOMAIN calls /\ calls[j] \in CallRow BY <1>1
    <3> QED BY <3>1, <3>2 DEF CallRow, Alike
  <2>2. CASE ~(j < i)
    <3>1. calls'[j] = Others(i)[j] BY <1>3, <2>2 DEF Outdated
    <3>2. Others(i)[j] \in CallRow /\ Others(i)[j] \in Range(calls)
      <4>1. j \in DOMAIN Others(i) BY <1>3
      <4>2. Others(i)[j] \in Range(Others(i)) BY <4>1 DEF Range
      <4>3. Others(i)[j] \in CallRow BY <1>2, <4>1
      <4> QED BY <1>2, <4>2, <4>3
    <3>3. PICK k \in DOMAIN calls : Others(i)[j] = calls[k] BY <3>2 DEF Range
    <3> QED BY <3>1, <3>2, <3>3 DEF Alike
  <2> QED BY <2>1, <2>2
<1>6. calls' = [j \in 1..(Len(calls) - 1) |-> calls'[j]] BY <1>3 DEF Outdated
<1>7. Len(calls) - 1 \in Nat BY <1>1
<1>8. calls' \in [1..(Len(calls) - 1) -> CallRow] BY <1>5, <1>6
<1>9. calls' \in Seq(CallRow) /\ Len(calls') = Len(calls) - 1
  BY <1>4, <1>7, <1>8
<1>10. Len(calls') <= Len(calls) BY <1>1, <1>9
<1> QED BY <1>4, <1>5, <1>9, <1>10, CallsAnswered

LEMMA ActionsAnsweredKeeps ==
  ASSUME PInv, NEW i \in DOMAIN calls, NEW o \in Answers, ActionsAnswered(i, o)
  PROVE  PInv'
<1>1. /\ Ends(i, "actions", o)
      /\ UNCHANGED <<study, currentActiveView, selectedDeviceId, missing, late, selectedDevice,
                     currentDevices, tamperKey, session, remote, logins>>
  BY DEF ActionsAnswered, deviceVars, pageVars, serverSide
<1>2. CASE o = "error"
  <2>1. calls' = Others(i) /\ UNCHANGED <<cachedDeviceActions, refreshTimer>>
    BY <1>2 DEF ActionsAnswered
  <2>2. calls' \in Seq(CallRow) /\ FromCalls BY <2>1, CallsEnd
  <2>3. ConsoleTypes' BY <1>1, <2>1, <2>2, CTypes DEF ConsoleTypes
  <2>4. PageOK' BY <1>1, <2>1, PageStays
  <2> QED BY <1>1, <2>2, <2>3, <2>4, PageStep
<1>3. CASE o # "error"
  <2>1. /\ cachedDeviceActions' = [of |-> calls[i].device, state |-> o]
        /\ calls' = Outdated(i)
    BY <1>3 DEF ActionsAnswered
  <2>2. o \in Progress /\ calls[i].kind = "actions" BY <1>1, <1>3, ListOf
  <2>3. selectedDeviceId \in Computer /\ calls[i].device \in Choice
    BY <2>2, RowOf DEF CallOK
  <2>4. calls' \in Seq(CallRow) /\ FromCalls BY <2>1, OutdatedCalls
  <2>5. ConsoleTypes' BY <1>1, <2>1, <2>2, <2>3, <2>4, CTypes DEF ConsoleTypes
  <2>6. PageOK' BY <1>1, <2>3, PageStays
  <2> QED BY <1>1, <2>4, <2>5, <2>6, PageStep
<1> QED BY <1>2, <1>3

LEMMA CommandAnsweredKeeps ==
  ASSUME PInv, NEW i \in DOMAIN calls, NEW o \in Answers, CommandAnswered(i, o)
  PROVE  PInv'
<1>1. /\ calls[i].kind = "command"
      /\ UNCHANGED <<study, currentActiveView, selectedDeviceId, missing, late, selectedDevice,
                     currentDevices, tamperKey, cachedDeviceActions, refreshTimer, session, remote,
                     logins>>
  BY DEF CommandAnswered, Ends, deviceVars, pageVars, serverSide
<1>2. selectedDeviceId \in Computer BY <1>1, RowOf DEF CallOK
<1>3. PICK load : /\ load = LoadActions(selectedDeviceId) \/ load = <<>>
                  /\ calls' = Others(i) \o load
  BY DEF CommandAnswered
<1>4. load \in Seq(CallRow) /\ \A c \in Range(load) : CallOK(c) BY <1>2, <1>3, LoadBelongs
<1>5. Others(i) \in Seq(CallRow) /\ Range(Others(i)) \subseteq Range(calls) BY CallsEnd
<1>6. PICK others : others = Others(i) OBVIOUS
<1>7. calls' = others \o load BY <1>3, <1>6
<1>8. calls' \in Seq(CallRow) /\ FromCalls BY <1>4, <1>5, <1>6, <1>7, CallsJoin
<1>9. ConsoleTypes' BY <1>1, <1>8, CTypes DEF ConsoleTypes
<1>10. PageOK' BY <1>1, PageStays
<1> QED BY <1>1, <1>8, <1>9, <1>10, PageStep

LEMMA KeyAnsweredKeeps ==
  ASSUME PInv, NEW i \in DOMAIN calls, NEW o \in Answers, KeyAnswered(i, o)
  PROVE  PInv'
<1>1. /\ calls[i].kind \in KeyKinds /\ calls' = Others(i)
      /\ UNCHANGED <<study, currentActiveView, selectedDeviceId, missing, late, selectedDevice,
                     currentDevices, cachedDeviceActions, refreshTimer, session, remote, logins>>
      /\ \/ tamperKey' = tamperKey
         \/ \E shown \in BOOLEAN : tamperKey' = [of |-> calls[i].device, revealed |-> shown]
  <2>1. calls[i].kind \in KeyKinds BY DEF KeyAnswered, Ends
  <2>2. \/ tamperKey' = tamperKey
        \/ \E shown \in BOOLEAN : tamperKey' = [of |-> calls[i].device, revealed |-> shown]
    BY CTypes DEF KeyAnswered
  <2> QED BY <2>1, <2>2 DEF KeyAnswered, pageVars, listVars, serverSide
<1>2. calls[i].device \in Choice BY RowOf
<1>3. ~missing => calls[i].device \in late \cup {selectedDeviceId} BY <1>1, RowOf DEF CallOK
<1>4. /\ tamperKey' \in [of : Choice, revealed : BOOLEAN]
      /\ tamperKey'.of = tamperKey.of \/ tamperKey'.of = calls[i].device
  BY <1>1, <1>2, CTypes
<1>5. calls' \in Seq(CallRow) /\ FromCalls BY <1>1, CallsEnd
<1>6. ConsoleTypes' BY <1>1, <1>4, <1>5, CTypes DEF ConsoleTypes
<1>7. PageOK' BY <1>1, <1>3, <1>4 DEF PInv, PageOK
<1> QED BY <1>1, <1>5, <1>6, <1>7, PageStep

\* The fetch after a move or an evaluation, whose page opens when it has ended.
LEMMA AgainCall ==
  ASSUME PInv, NEW i \in DOMAIN calls, calls[i].kind \in {"move", "evaluate"},
         NEW c, c = [Single("live", Nobody) EXCEPT !.next = calls[i].kind]
  PROVE  /\ c \in CallRow /\ CallOK(c) /\ c.next \in {"move", "evaluate"}
<1>1. PICK b : b = Single("live", Nobody) OBVIOUS
<1>2. b \in CallRow /\ b.kind = "live" BY <1>1, PlainCall DEF Choice, Kind
<1>3. calls[i].kind \in Following BY DEF Following
<1>4. c = [b EXCEPT !.next = calls[i].kind] BY <1>1
<1>5. c \in CallRow /\ c.kind = "live" /\ c.next = calls[i].kind
  BY <1>2, <1>3, <1>4 DEF CallRow
<1>6. /\ calls[i].kind = "move" => selectedDevice \in Computer
      /\ selectedDeviceId \in Computer
  BY RowOf DEF CallOK
<1>7. CallOK(c) BY <1>5, <1>6 DEF CallOK, KeyKinds
<1> QED BY <1>5, <1>7

LEMMA OrderAnsweredKeeps ==
  ASSUME PInv, NEW i \in DOMAIN calls, NEW o \in Answers, OrderAnswered(i, o)
  PROVE  PInv'
<1>1. PICK c : c = [Single("live", Nobody) EXCEPT !.next = calls[i].kind] OBVIOUS
<1>2. /\ calls[i].kind \in {"move", "evaluate"}
      /\ UNCHANGED <<study, session, remote, logins>>
  BY DEF OrderAnswered, Ends, serverSide
<1>3. \/ /\ Open(Reopened(c, selectedDevice), "other", currentDevices, selectedDevice, Others(i),
                 FALSE)
         /\ UNCHANGED <<currentDevices, cachedDeviceActions>>
      \/ /\ calls' = IF o = "ok" THEN Append(Others(i), c) ELSE Others(i)
         /\ UNCHANGED <<deviceVars, cachedDeviceActions, refreshTimer>>
  BY <1>1 DEF OrderAnswered, listVars, Single
<1>4. c \in CallRow /\ CallOK(c) /\ c.next \in {"move", "evaluate"} BY <1>1, <1>2, AgainCall
<1>5. Others(i) \in Seq(CallRow) /\ Range(Others(i)) \subseteq Range(calls) BY CallsEnd
<1>6. CASE /\ Open(Reopened(c, selectedDevice), "other", currentDevices, selectedDevice,
                   Others(i), FALSE)
           /\ UNCHANGED <<currentDevices, cachedDeviceActions>>
  <2>1. Reopened(c, selectedDevice) \in Computer BY <1>4, ReopenedDevice
  <2> QED BY <1>2, <1>5, <1>6, <2>1, CTypes, OpenStep
<1>7. CASE /\ calls' = IF o = "ok" THEN Append(Others(i), c) ELSE Others(i)
           /\ UNCHANGED <<deviceVars, cachedDeviceActions, refreshTimer>>
  <2>1. calls' \in Seq(CallRow) /\ FromCalls
    <3>1. CASE calls' = Others(i) BY <3>1, CallsEnd
    <3>2. CASE calls' = Append(Others(i), c)
      <4>1. PICK others : others = Others(i) OBVIOUS
      <4>2. calls' = Append(others, c) BY <3>2, <4>1
      <4> QED BY <1>4, <1>5, <4>1, <4>2, CallsAppend
    <3> QED BY <1>7, <3>1, <3>2
  <2> QED BY <1>2, <1>7, <2>1, CTypes, PageRests
<1> QED BY <1>3, <1>6, <1>7

LEMMA ConsoleKeepsPInv == ASSUME PInv, [ConsoleNext]_consoleVars PROVE PInv'
<1>1. CASE UNCHANGED consoleVars
  <2>1. UNCHANGED <<study, currentActiveView, selectedDeviceId, missing, late, selectedDevice,
                    currentDevices, tamperKey, cachedDeviceActions, refreshTimer, session, remote,
                    logins, calls>>
    BY <1>1 DEF consoleVars, deviceVars, pageVars, listVars, serverSide
  <2>2. ConsoleTypes' BY <2>1, CTypes DEF ConsoleTypes
  <2>3. PageOK' BY <2>1, PageStays
  <2> QED BY <2>1, <2>2, <2>3, SameCalls, PageStep
<1>2. ASSUME NEW d \in Computer, NEW tab \in SubTab, OpenDevice(d, tab) PROVE PInv'
  BY <1>2, OpenDeviceKeeps
<1>3. ASSUME NEW d \in Computer, Progresses(d) PROVE PInv' BY <1>3, ProgressesKeeps
<1>4. ASSUME NEW tab \in SubTab, SwitchSubTab(tab) PROVE PInv' BY <1>4, SwitchSubTabKeeps
<1>5. CASE Leave BY <1>5, LeaveKeeps
<1>6. CASE RefreshActions BY <1>6, RefreshActionsKeeps
<1>7. CASE Command BY <1>7, CommandKeeps
<1>8. CASE ShowKey BY <1>8, ShowKeyKeeps
<1>9. CASE RegenerateTamperKey \/ Move \/ Evaluate
  BY <1>9, OrderKeeps DEF RegenerateTamperKey, Move, Evaluate
<1>10. CASE Login BY <1>10, LoginKeeps
<1>11. CASE Tick BY <1>11, TickKeeps
<1>12. CASE Logout \/ ChangeInterval \/ ExpireSession BY <1>12, SessionKeeps
<1>13. ASSUME NEW i \in DOMAIN calls, Serve(i) PROVE PInv' BY <1>13, ServeKeeps
<1>14. ASSUME NEW i \in DOMAIN calls, NEW o \in Answers, Deliver(i, o) PROVE PInv'
  BY <1>14, LiveAnsweredKeeps, DeepAnsweredKeeps, ActionsAnsweredKeeps, CommandAnsweredKeeps,
     KeyAnsweredKeeps, OrderAnsweredKeeps DEF Deliver
<1> QED
  BY <1>1, <1>2, <1>3, <1>4, <1>5, <1>6, <1>7, <1>8, <1>9, <1>10, <1>11, <1>12, <1>13, <1>14
  DEF ConsoleNext

LEMMA ConsoleInitPInv == ASSUME ConsoleInit PROVE PInv
<1>1. /\ study \in Studies /\ currentActiveView = "elsewhere"
      /\ selectedDeviceId = Nobody /\ selectedDevice = Nobody
      /\ cachedDeviceActions = [of |-> Nobody, state |-> "none"] /\ refreshTimer = FALSE
      /\ tamperKey = Hidden /\ remote = [d \in Computer |-> "none"]
      /\ session \in {0, 1} /\ logins = session
      /\ currentDevices \in {{}, Computer}
      /\ calls = IF session = 0 THEN <<>> ELSE Sent(Call("live", Nobody, "poll"))
  BY DEF ConsoleInit
<1>2. Hidden \in [of : Choice, revealed : BOOLEAN] /\ Hidden.of = Nobody
  BY DEF Hidden, Choice
<1>3. "none" \in Progress BY DEF Progress
<1>4. calls \in Seq(CallRow) /\ \A c \in Range(calls) : c.kind = "live" /\ c.next = "poll"
  <2>1. CASE calls = <<>> BY <2>1, NoneOf
  <2>2. CASE calls = Sent(Call("live", Nobody, "poll"))
    <3>1. PICK c : c = Call("live", Nobody, "poll") OBVIOUS
    <3>2. logins \in Nat /\ session \in Nat BY <1>1
    <3>3. c \in CallRow /\ c.kind = "live" /\ c.next = "poll"
      <4>1. PICK none : none = "" OBVIOUS
      <4>2. none \in Reply /\ none \in ListReply BY <4>1 DEF Reply, ListReply
      <4>3. c = [kind |-> "live", device |-> Nobody, next |-> "poll", as |-> session,
                 answer |-> none, old |-> FALSE]
        BY <3>1, <4>1 DEF Call
      <4> QED BY <3>2, <4>2, <4>3 DEF CallRow, Choice, Kind, Following
    <3>4. calls = Sent(c) BY <2>2, <3>1
    <3> QED BY <3>3, <3>4, SentCalls
  <2> QED BY <1>1, <2>1, <2>2
<1>5. ConsoleTypes BY <1>1, <1>2, <1>3, <1>4 DEF ConsoleTypes, Choice
<1>6. PageOK BY <1>1, <1>2 DEF PageOK
<1>7. CallsOK BY <1>4 DEF CallsOK, CallOK, KeyKinds
<1> QED BY <1>5, <1>6, <1>7 DEF PInv

LEMMA PInvPage == ASSUME PInv PROVE PageOfOneDevice
<1>1. ConsoleTypeOK
  <2>1. \A i \in DOMAIN calls : calls[i].kind \in Kind /\ calls[i].answer \in Answers \cup {""}
    BY RowOf DEF Reply
  <2>2. cachedDeviceActions.state \in Progress /\ tamperKey.of \in Choice BY CTypes
  <2> QED BY <2>1, <2>2, CTypes DEF ConsoleTypeOK, Choice
<1> QED BY <1>1 DEF PageOfOneDevice, PInv, PageOK

\* On the page of a device that was in the list, the device a confirmation names is the one the
\* command is sent to, and the tamper key shown is that device's or was on its way when the page
\* was opened, however many calls are under way and in whatever order their answers come.
THEOREM OnePageOneDevice == ControlSpec => []PageOfOneDevice
<1>1. ControlInit => PInv BY ConsoleInitPInv DEF ControlInit
<1>2. PInv /\ [ControlNext]_controlVars => PInv'
  <2> SUFFICES ASSUME PInv, [ControlNext]_controlVars PROVE PInv' OBVIOUS
  <2>1. [ConsoleNext]_consoleVars BY DEF ControlNext, controlVars
  <2> QED BY <2>1, ConsoleKeepsPInv
<1>3. PInv => PageOfOneDevice BY PInvPage
<1> QED BY <1>1, <1>2, <1>3, PTL DEF ControlSpec

-----------------------------------------------------------------------------
(* The registry: what its rows and the handlers under way say of each other *)

Serial == {None} \cup {id.serial : id \in UNION {Identity[m] : m \in Machine}}
DeviceRow ==
  [customer : Customer \cup {None}, site : Site \cup {None}, hw : Machine \cup {None},
   serial : Serial, host : Machine \cup {None}, secret : Nat, status : Status, key : Nat,
   age : Minute]
TokenRow ==
  {t \in [customer : Customer \cup {None}, site : Site \cup {None}, max : Nat, used : Nat,
          expired : BOOLEAN] : t.used <= t.max}
AgentRow == [device : 0..MaxRows, secret : Nat, key : Nat]

\* What a registration read was of the customer of its token, and left room on it.
RequestRow ==
  {q \in [phase : {"idle", "begin", "commit", "reply"}, machine : Machine \cup {None},
          token : Token \cup {None}, hw : Machine \cup {None}, serial : Serial, attempt : Nat,
          found : 0..MaxRows, row : DeviceRow, read : TokenRow \cup {None}, doomed : BOOLEAN,
          secret : Nat, abandoned : BOOLEAN] :
     /\ q.phase # "idle" => q.machine \in Machine /\ q.token \in Token /\ q.hw \in {q.machine, None}
     /\ q.phase = "commit" =>
          /\ q.read \in TokenRow /\ q.read.used < q.read.max
          /\ q.found # 0 => q.row.secret # 0 /\ q.row.customer = q.read.customer}

Place == [customer : Customer \cup {None}, site : Site \cup {None}]
DeviceEdit ==
  {p \in [phase : {"check", "write"}, kind : {"device"}, target : Row,
          customer : Customer \cup {None}, site : Site \cup {None, Clear},
          status : Status \cup {None}, max : {0}, read : Place, attached : {{}}] :
     p.phase = "check" => p.site \in Site}
\* A site that gets another customer had no device when they were counted.
SiteEdit ==
  {p \in [phase : {"count", "write"}, kind : {"site"}, target : Site, customer : Customer,
          site : {None}, status : {None}, max : {0}, read : Customer, attached : SUBSET Row] :
     p.phase = "write" => p.customer = p.read \/ p.attached = {}}
TokenEdit ==
  [phase : {"write"}, kind : {"token"}, target : Token, customer : Customer,
   site : Site \cup {None}, status : {None}, max : Nat, read : {None}, attached : {{}}]
KeyEdit ==
  [phase : {"write"}, kind : {"key"}, target : Row, customer : {None}, site : {None},
   status : {None}, max : {0}, read : {None}, attached : {{}}]
EditRow == {NoEdit} \cup DeviceEdit \cup SiteEdit \cup TokenEdit \cup KeyEdit

BeatRow ==
  {b \in [phase : {"idle", "update", "provision", "reread", "answer"},
          machine : Machine \cup {None}, device : 0..MaxRows, key : Nat, candidate : Nat,
          current : BOOLEAN] :
     b.phase # "idle" => b.machine \in Machine /\ b.device # 0}

\* Rows are created in order, and one with a secret is a device.
DevicesOK ==
  /\ devices \in [Row -> DeviceRow] /\ secrets \in Nat /\ keys \in Nat
  /\ created \in 0..MaxRows
  /\ \A i \in Row : /\ devices[i].secret <= secrets /\ devices[i].key <= keys
                    /\ (devices[i].secret = 0 \/ i > created) => devices[i] = NoDevice
AgentsOK   == agent \in [Machine -> AgentRow] /\ \A m \in Machine : agent[m].device <= created
RequestsOK == request \in [Request -> RequestRow] /\ \A r \in Request : request[r].found <= created
EditsOK    == edit \in [Editor -> EditRow]
BeatsOK    == beat \in [Beat -> BeatRow] /\ \A b \in Beat : beat[b].device <= created
RestOK ==
  /\ focus \in Focus /\ tokens \in [Token -> TokenRow] /\ siteOf \in [Site -> Customer]
  /\ agreed \subseteq Machine

RegistryOK == DevicesOK /\ AgentsOK /\ RequestsOK /\ EditsOK /\ BeatsOK /\ RestOK

SitesAgree ==
  \A i \in Row \ dirty : devices[i].site # None => siteOf[devices[i].site] = devices[i].customer

\* A key on its way to an agent is the device's own, unless an operator set another.
KeysAgree ==
  /\ \A m \in agreed : /\ Exists(agent[m].device) /\ agent[m].key # 0
                       /\ agent[m].key = devices[agent[m].device].key
  /\ \A b \in Beat :
       (beat[b].phase = "answer" /\ beat[b].current /\ beat[b].key # 0 /\ Exists(beat[b].device))
         => beat[b].key = devices[beat[b].device].key

\* A registration that may commit has room, and found the row of its machine if there is one.
Same(hw, customer) ==
  {i \in Enrolled \ moved : devices[i].hw = hw /\ devices[i].customer = customer}
Good(q) ==
  (q.phase = "commit" /\ ~q.doomed) =>
    /\ q.found = 0 => Cardinality(Enrolled) < Quota
    /\ q.hw # None => (q.found # 0 /\ q.row.hw = q.hw) \/ Same(q.hw, q.read.customer) = {}
OneEach ==
  /\ Cardinality(Enrolled) <= Quota
  /\ \A i, j \in Enrolled \ moved :
       (devices[i].hw # None /\ devices[i].hw = devices[j].hw
         /\ devices[i].customer = devices[j].customer) => i = j
  /\ \A r \in Request : Good(request[r])

LEMMA Blank ==
  /\ NoDevice \in DeviceRow /\ NoDevice.secret = 0 /\ NoDevice.key = 0 /\ NoDevice.site = None
  /\ NoDevice.customer = None /\ NoDevice.hw = None /\ NoDevice.age = Threshold + 1
  /\ NoToken \in TokenRow /\ NoEdit \in EditRow
  /\ NoRequest \in RequestRow /\ NoRequest.phase = "idle" /\ NoRequest.found = 0
  /\ NoBeat \in BeatRow /\ NoBeat.phase = "idle" /\ NoBeat.device = 0
<1>1. Threshold + 1 \in Minute /\ 0 \in 0..MaxRows
  BY ThresholdAssumption, BoundAssumption DEF Minute
<1>2. NoDevice \in DeviceRow /\ NoDevice.secret = 0 /\ NoDevice.key = 0 /\ NoDevice.site = None
      /\ NoDevice.customer = None /\ NoDevice.hw = None /\ NoDevice.age = Threshold + 1
  BY <1>1 DEF NoDevice, DeviceRow, Serial, Status
<1>3. NoRequest \in RequestRow /\ NoRequest.phase = "idle" /\ NoRequest.found = 0
  BY <1>1, <1>2 DEF NoRequest, RequestRow, Serial
<1>4. NoBeat \in BeatRow /\ NoBeat.phase = "idle" /\ NoBeat.device = 0
  BY <1>1 DEF NoBeat, BeatRow
<1>5. NoToken \in TokenRow BY DEF NoToken, TokenRow
<1> QED BY <1>2, <1>3, <1>4, <1>5 DEF EditRow

LEMMA Rows == /\ Row = 1..MaxRows /\ MaxRows \in Nat /\ IsFiniteSet(Row)
              /\ Threshold \in Nat /\ Minute = 0..(Threshold + 1) /\ Quota \in Nat \ {0}
BY BoundAssumption, ThresholdAssumption, FS_Interval DEF Row, Minute

LEMMA DeviceOf ==
  ASSUME DevicesOK, NEW i \in Row
  PROVE  /\ devices[i] \in DeviceRow
         /\ devices[i].customer \in Customer \cup {None} /\ devices[i].site \in Site \cup {None}
         /\ devices[i].hw \in Machine \cup {None} /\ devices[i].secret \in Nat
         /\ devices[i].key \in Nat /\ devices[i].age \in Minute /\ devices[i].status \in Status
         /\ Exists(i) <=> devices[i].secret # 0
         /\ Exists(i) => i <= created
<1>1. devices[i] \in DeviceRow BY DEF DevicesOK
<1>2. devices[i].secret = 0 => devices[i] = NoDevice BY DEF DevicesOK
<1>3. i > created => devices[i] = NoDevice BY DEF DevicesOK
<1>4. i \in Nat /\ created \in Nat BY Rows DEF DevicesOK
<1>5. Exists(i) <=> devices[i].secret # 0 BY <1>2, Blank DEF Exists
<1>6. Exists(i) => i <= created BY <1>3, <1>4 DEF Exists
<1> QED BY <1>1, <1>5, <1>6 DEF DeviceRow

\* One row is written: it is or becomes a device, or is blank again.
LEMMA RowWritten ==
  ASSUME DevicesOK, NEW i \in Row, NEW new \in DeviceRow, devices' = [devices EXCEPT ![i] = new],
         secrets' \in Nat, secrets <= secrets', keys' \in Nat, keys <= keys',
         created' \in 0..MaxRows, created <= created',
         new = NoDevice \/ (new.secret # 0 /\ i <= created'),
         new.secret <= secrets', new.key <= keys'
  PROVE  DevicesOK' /\ devices'[i] = new /\ \A j \in Row \ {i} : devices'[j] = devices[j]
<1>1. devices \in [Row -> DeviceRow] /\ secrets \in Nat /\ keys \in Nat /\ created \in 0..MaxRows
  BY DEF DevicesOK
<1>2. /\ devices' \in [Row -> DeviceRow] /\ devices'[i] = new
      /\ \A j \in Row \ {i} : devices'[j] = devices[j]
  BY <1>1
<1>3. i \in Nat /\ created \in Nat /\ created' \in Nat BY Rows, <1>1
<1>4. ASSUME NEW j \in Row
      PROVE  /\ devices'[j].secret <= secrets' /\ devices'[j].key <= keys'
             /\ (devices'[j].secret = 0 \/ j > created') => devices'[j] = NoDevice
  <2>1. CASE j = i BY <1>2, <1>3, <2>1
  <2>2. CASE j # i
    <3>1. /\ devices[j].secret <= secrets /\ devices[j].key <= keys
          /\ (devices[j].secret = 0 \/ j > created) => devices[j] = NoDevice
      BY DEF DevicesOK
    <3>2. devices[j].secret \in Nat /\ devices[j].key \in Nat /\ j \in Nat BY DeviceOf, Rows
    <3> QED BY <1>1, <1>2, <1>3, <2>2, <3>1, <3>2
  <2> QED BY <2>1, <2>2
<1> QED BY <1>2, <1>4 DEF DevicesOK

LEMMA Parts ==
  ASSUME RegistryOK
  PROVE  /\ DevicesOK /\ AgentsOK /\ RequestsOK /\ EditsOK /\ BeatsOK /\ RestOK
         /\ created \in Nat /\ created <= MaxRows
BY Rows DEF RegistryOK, DevicesOK

LEMMA DevicesStay ==
  ASSUME DevicesOK, UNCHANGED <<devices, secrets, keys, created>> PROVE DevicesOK'
BY DEF DevicesOK

Grows == created' \in Nat /\ created <= created'

LEMMA AgentsStay == ASSUME DevicesOK, AgentsOK, agent' = agent, Grows PROVE AgentsOK'
<1>1. created \in Nat BY Rows DEF DevicesOK
<1>2. \A m \in Machine : agent[m].device \in Nat BY Rows DEF AgentsOK, AgentRow
<1> QED BY <1>1, <1>2 DEF AgentsOK, Grows
LEMMA RequestsStay == ASSUME DevicesOK, RequestsOK, request' = request, Grows PROVE RequestsOK'
<1>1. created \in Nat BY Rows DEF DevicesOK
<1>2. \A r \in Request : request[r].found \in Nat BY Rows DEF RequestsOK, RequestRow
<1> QED BY <1>1, <1>2 DEF RequestsOK, Grows
LEMMA BeatsStay == ASSUME DevicesOK, BeatsOK, beat' = beat, Grows PROVE BeatsOK'
<1>1. created \in Nat BY Rows DEF DevicesOK
<1>2. \A b \in Beat : beat[b].device \in Nat BY Rows DEF BeatsOK, BeatRow
<1> QED BY <1>1, <1>2 DEF BeatsOK, Grows
LEMMA EditsStay == ASSUME EditsOK, edit' = edit PROVE EditsOK'
BY DEF EditsOK
LEMMA RestStays ==
  ASSUME RestOK, UNCHANGED <<focus, tokens, siteOf>>, agreed' \subseteq Machine PROVE RestOK'
BY DEF RestOK
LEMMA Same0 == ASSUME DevicesOK, created' = created PROVE Grows
BY Rows DEF DevicesOK, Grows

\* One registration changes.
LEMMA RequestWritten ==
  ASSUME RequestsOK, NEW r \in Request, NEW q \in RequestRow, q.found <= created,
         request' = [request EXCEPT ![r] = q], created' = created
  PROVE  RequestsOK'
BY DEF RequestsOK
LEMMA RequestCleared ==
  ASSUME DevicesOK, RequestsOK, NEW r \in Request, request' = [request EXCEPT ![r] = NoRequest],
         created' = created
  PROVE  RequestsOK'
<1>1. NoRequest \in RequestRow /\ NoRequest.found <= created BY Blank, Rows DEF DevicesOK
<1> QED BY <1>1 DEF RequestsOK
LEMMA BeatWritten ==
  ASSUME BeatsOK, NEW b \in Beat, NEW q \in BeatRow, q.device <= created,
         beat' = [beat EXCEPT ![b] = q], created' = created
  PROVE  BeatsOK'
BY DEF BeatsOK
LEMMA BeatCleared ==
  ASSUME DevicesOK, BeatsOK, NEW b \in Beat, beat' = [beat EXCEPT ![b] = NoBeat],
         created' = created
  PROVE  BeatsOK'
<1>1. NoBeat \in BeatRow /\ NoBeat.device <= created BY Blank, Rows DEF DevicesOK
<1> QED BY <1>1 DEF BeatsOK
LEMMA EditWritten ==
  ASSUME EditsOK, NEW e \in Editor, NEW p \in EditRow, edit' = [edit EXCEPT ![e] = p]
  PROVE  EditsOK'
BY DEF EditsOK

-----------------------------------------------------------------------------
(* The registry: the rows stay well formed                                  *)

LEMMA RequestOf ==
  ASSUME RequestsOK, NEW r \in Request
  PROVE  /\ request[r] \in RequestRow /\ request[r].found \in 0..MaxRows
         /\ request[r].found <= created /\ request[r].row \in DeviceRow
         /\ request[r].phase # "idle" =>
              /\ request[r].machine \in Machine /\ request[r].token \in Token
              /\ request[r].hw \in {request[r].machine, None}
         /\ request[r].phase = "commit" =>
              /\ request[r].read \in TokenRow /\ request[r].read.used < request[r].read.max
              /\ request[r].found # 0 => /\ request[r].row.secret # 0
                                         /\ request[r].row.customer = request[r].read.customer
<1>1. request[r] \in RequestRow /\ request[r].found <= created BY DEF RequestsOK
<1> QED BY <1>1 DEF RequestRow

\* A step of one registration alone.
LEMMA OnlyRequest ==
  ASSUME RegistryOK, RequestsOK', UNCHANGED <<focus, serverVars, agent, edit, beat, historyVars>>
  PROVE  RegistryOK'
<1>1. UNCHANGED <<focus, devices, tokens, siteOf, secrets, keys, created, agent, edit, beat, agreed>>
  BY DEF serverVars, historyVars
<1>2. DevicesOK' /\ Grows BY <1>1, DevicesStay, Same0 DEF RegistryOK
<1>3. AgentsOK' /\ BeatsOK' /\ EditsOK' BY <1>1, <1>2, AgentsStay, BeatsStay, EditsStay DEF RegistryOK
<1>4. RestOK' BY <1>1 DEF RegistryOK, RestOK
<1> QED BY <1>2, <1>3, <1>4 DEF RegistryOK

LEMMA RegisterOK ==
  ASSUME RegistryOK, NEW r \in Request, NEW m \in Machine, NEW t \in Token, Register(r, m, t)
  PROVE  RegistryOK'
<1>1. PICK id \in Identity[m] : request' = [q \in Request |->
         IF q = r THEN [NoRequest EXCEPT !.phase = "begin", !.machine = m, !.token = t,
                                         !.hw = id.hw, !.serial = id.serial]
         ELSE [request[q] EXCEPT !.abandoned = @ \/ request[q].machine = m]]
  BY DEF Register
<1> DEFINE new == [NoRequest EXCEPT !.phase = "begin", !.machine = m, !.token = t,
                                    !.hw = id.hw, !.serial = id.serial]
<1>2. id.hw \in {m, None} /\ id.serial \in Serial BY IdentityAssumption DEF Serial
<1>3. new \in RequestRow /\ new.found = 0
  BY <1>2, Blank DEF RequestRow
<1>4. created \in Nat BY Rows DEF RegistryOK, DevicesOK
<1>5. ASSUME NEW q \in Request PROVE request'[q] \in RequestRow /\ request'[q].found <= created
  <2>1. CASE q = r
    <3>1. request'[q] = new BY <1>1, <2>1
    <3> QED BY <1>3, <1>4, <3>1
  <2>2. CASE q # r
    <3>1. request'[q] = [request[q] EXCEPT !.abandoned = @ \/ request[q].machine = m]
      BY <1>1, <2>2
    <3>2. PICK a \in BOOLEAN : request'[q] = [request[q] EXCEPT !.abandoned = a]
      BY <3>1, RequestOf DEF RegistryOK, RequestRow
    <3>3. request[q] \in RequestRow /\ request[q].found <= created BY RequestOf DEF RegistryOK
    <3> QED BY <3>2, <3>3 DEF RequestRow
  <2> QED BY <2>1, <2>2
<1>6. request' = [q \in Request |-> request'[q]] BY <1>1
<1>7. UNCHANGED <<focus, serverVars, agent, edit, beat, historyVars>> BY DEF Register
<1>8. created' = created BY <1>7 DEF serverVars
<1>9. RequestsOK' BY <1>5, <1>6, <1>8 DEF RequestsOK
<1> QED BY <1>7, <1>9, OnlyRequest

\* The rows that a machine can be taken for are the customer's.
LEMMA IdentifiedRows ==
  ASSUME NEW q, NEW customer, NEW i \in Identified(q, customer)
  PROVE  i \in Enrolled /\ devices[i].customer = customer
BY DEF Identified

LEMMA BeginOK == ASSUME RegistryOK, NEW r \in Request, Begin(r) PROVE RegistryOK'
<1> DEFINE q == request[r]
           t == tokens[q.token]
           rows == Identified(q, t.customer)
<1>1. q.phase = "begin" /\ UNCHANGED <<focus, serverVars, agent, edit, beat, historyVars>>
  BY DEF Begin
<1>2. PICK i \in IF rows = {} THEN {0} ELSE rows :
        request' = [request EXCEPT ![r] =
          IF Refused(t, i) THEN NoRequest
          ELSE [q EXCEPT !.phase = "commit", !.found = i, !.read = t, !.doomed = FALSE,
                         !.row = IF i = 0 THEN NoDevice ELSE devices[i]]]
  BY DEF Begin
<1>3. q \in RequestRow /\ q.machine \in Machine /\ q.token \in Token /\ q.hw \in {q.machine, None}
  BY <1>1, RequestOf DEF RegistryOK
<1>4. t \in TokenRow BY <1>3 DEF RegistryOK, RestOK
<1>5. created \in Nat /\ created <= MaxRows BY Rows DEF RegistryOK, DevicesOK
<1> DEFINE new == [q EXCEPT !.phase = "commit", !.found = i, !.read = t, !.doomed = FALSE,
                            !.row = IF i = 0 THEN NoDevice ELSE devices[i]]
<1>6. CASE Refused(t, i)
  <2>1. request' = [request EXCEPT ![r] = NoRequest] BY <1>2, <1>6
  <2>2. created' = created BY <1>1 DEF serverVars
  <2>3. RequestsOK' BY <2>1, <2>2, Parts, RequestCleared
  <2> QED BY <1>1, <2>3, OnlyRequest
<1>7. CASE ~Refused(t, i)
  <2>1. request' = [request EXCEPT ![r] = new] BY <1>2, <1>7
  <2>2. t.used < t.max
    <3>1. ~(t.used >= t.max) BY <1>7 DEF Refused
    <3> QED BY <1>4, <3>1 DEF TokenRow
  <2>3. CASE i = 0
    <3>1. new \in RequestRow /\ new.found = 0
      BY <1>3, <1>4, <2>2, <2>3, Blank, Rows DEF RequestRow
    <3> HIDE DEF new
    <3>2. created' = created /\ new.found <= created BY <1>1, <1>5, <3>1 DEF serverVars
    <3>3. RequestsOK' BY <2>1, <3>1, <3>2, Parts, RequestWritten
    <3> QED BY <1>1, <3>3, OnlyRequest
  <2>4. CASE i # 0
    <3>1. i \in Identified(q, t.customer) BY <1>2, <2>4
    <3>2. i \in Enrolled /\ devices[i].customer = t.customer BY <3>1, IdentifiedRows
    <3>3. i \in Row /\ Exists(i) BY <3>2 DEF Enrolled
    <3>4. devices[i] \in DeviceRow /\ devices[i].secret # 0 /\ i <= created
      BY <3>3, DeviceOf DEF RegistryOK
    <3>5. i \in 0..MaxRows BY <3>3, Rows
    <3>6. new \in RequestRow /\ new.found = i
      BY <1>3, <1>4, <2>2, <2>4, <3>2, <3>4, <3>5 DEF RequestRow
    <3> HIDE DEF new
    <3>7. created' = created /\ new.found <= created BY <1>1, <3>4, <3>6 DEF serverVars
    <3>8. RequestsOK' BY <2>1, <3>6, <3>7, Parts, RequestWritten
    <3> QED BY <1>1, <3>8, OnlyRequest
  <2> QED BY <2>3, <2>4
<1> QED BY <1>6, <1>7

LEMMA AgainRow ==
  ASSUME NEW q \in RequestRow, q.phase = "commit", NEW again,
         again = [q EXCEPT !.phase = "begin", !.attempt = @ + 1, !.doomed = FALSE]
  PROVE  again \in RequestRow /\ again.found = q.found
<1>1. q.attempt + 1 \in Nat BY DEF RequestRow
<1>2. PICK n \in Nat : again = [q EXCEPT !.phase = "begin", !.attempt = n, !.doomed = FALSE]
  BY <1>1
<1> QED BY <1>2 DEF RequestRow

LEMMA AbortOK == ASSUME RegistryOK, NEW r \in Request, Abort(r) PROVE RegistryOK'
<1>1. PICK q : q = request[r] OBVIOUS
<1>2. PICK again : again = [q EXCEPT !.phase = "begin", !.attempt = @ + 1, !.doomed = FALSE]
  OBVIOUS
<1>3. /\ q.phase = "commit"
      /\ \/ request' = [request EXCEPT ![r] = NoRequest]
         \/ request' = [request EXCEPT ![r] = again]
      /\ UNCHANGED <<focus, serverVars, agent, edit, beat, historyVars>>
  <2>1. request' = [request EXCEPT ![r] = IF q.attempt + 1 = Attempts THEN NoRequest ELSE again]
    BY <1>1, <1>2 DEF Abort
  <2>2. \/ request' = [request EXCEPT ![r] = NoRequest]
        \/ request' = [request EXCEPT ![r] = again]
    BY <2>1
  <2>3. q.phase = "commit" /\ UNCHANGED <<focus, serverVars, agent, edit, beat, historyVars>>
    BY <1>1 DEF Abort
  <2> QED BY <2>2, <2>3
<1>4. q \in RequestRow /\ q.found <= created BY <1>1, RequestOf, Parts
<1>5. again \in RequestRow /\ again.found = q.found BY <1>2, <1>3, <1>4, AgainRow
<1>6. created' = created BY <1>3 DEF serverVars
<1>7. RequestsOK' BY <1>3, <1>4, <1>5, <1>6, Parts, RequestCleared, RequestWritten
<1> QED BY <1>3, <1>7, OnlyRequest

LEMMA AnsweredOK == ASSUME RegistryOK, NEW r \in Request, Answered(r) PROVE RegistryOK'
<1> DEFINE q == request[r]
<1>1. /\ q.phase = "reply" /\ request' = [request EXCEPT ![r] = NoRequest]
      /\ \/ /\ agent' = [agent EXCEPT ![q.machine].device = q.found, ![q.machine].secret = q.secret]
            /\ agreed' = agreed \ {q.machine}
         \/ UNCHANGED <<agent, agreed>>
      /\ UNCHANGED <<focus, devices, tokens, siteOf, secrets, keys, created, edit, beat>>
  BY DEF Answered, serverVars
<1>2. created \in Nat BY Rows DEF RegistryOK, DevicesOK
<1>3. RequestsOK' BY <1>1, Parts, RequestCleared
<1>4. DevicesOK' /\ Grows BY <1>1, DevicesStay, Same0 DEF RegistryOK
<1>5. BeatsOK' /\ EditsOK' BY <1>1, <1>4, BeatsStay, EditsStay DEF RegistryOK
<1>6. RestOK' BY <1>1 DEF RegistryOK, RestOK
<1>7. AgentsOK'
  <2>1. CASE UNCHANGED <<agent, agreed>> BY <1>4, <2>1, AgentsStay DEF RegistryOK
  <2>2. CASE agent' = [agent EXCEPT ![q.machine].device = q.found, ![q.machine].secret = q.secret]
    <3>1. q.machine \in Machine /\ q.found \in 0..MaxRows /\ q.found <= created /\ q.secret \in Nat
      BY <1>1, RequestOf DEF RegistryOK, RequestRow
    <3>2. agent' \in [Machine -> AgentRow] BY <2>2, <3>1 DEF RegistryOK, AgentsOK, AgentRow
    <3>3. \A m \in Machine : agent'[m].device \in {agent[m].device, q.found}
      BY <2>2, <3>1 DEF RegistryOK, AgentsOK, AgentRow
    <3> QED BY <1>1, <3>1, <3>2, <3>3 DEF RegistryOK, AgentsOK
  <2> QED BY <1>1, <2>1, <2>2
<1> QED BY <1>3, <1>4, <1>5, <1>6, <1>7 DEF RegistryOK

\* The row that a registration writes.
LEMMA RegisteredRow ==
  ASSUME NEW q \in RequestRow, NEW old \in DeviceRow, q.phase = "commit", keys \in Nat,
         secrets \in Nat, NEW new, new = Registered(q, old)
  PROVE  /\ new \in DeviceRow /\ new.secret = secrets + 1
         /\ new.customer = Kept(old.customer, q.read.customer)
         /\ new.site = Kept(q.read.site, old.site)
         /\ new.hw = Kept(q.hw, old.hw)
         /\ new.key = IF old.key = 0 THEN keys + 1 ELSE old.key
<1>1. /\ q.machine \in Machine /\ q.hw \in Machine \cup {None} /\ q.serial \in Serial
      /\ q.read \in TokenRow
  BY DEF RequestRow
<1>2. /\ q.read.customer \in Customer \cup {None} /\ q.read.site \in Site \cup {None}
  BY <1>1 DEF TokenRow
<1>3. /\ old.customer \in Customer \cup {None} /\ old.site \in Site \cup {None}
      /\ old.hw \in Machine \cup {None} /\ old.serial \in Serial /\ old.key \in Nat
      /\ old.age \in Minute
  BY DEF DeviceRow
<1>4. PICK customer \in Customer \cup {None} : customer = Kept(old.customer, q.read.customer)
  BY <1>2, <1>3 DEF Kept
<1>5. PICK site \in Site \cup {None} : site = Kept(q.read.site, old.site)
  BY <1>2, <1>3 DEF Kept
<1>6. PICK hw \in Machine \cup {None} : hw = Kept(q.hw, old.hw) BY <1>1, <1>3 DEF Kept
<1>7. PICK serial \in Serial : serial = Kept(q.serial, old.serial) BY <1>1, <1>3 DEF Kept
<1>8. PICK key \in Nat : key = IF old.key = 0 THEN keys + 1 ELSE old.key BY <1>3
<1>9. PICK host \in Machine : host = q.machine BY <1>1
<1>10. PICK secret \in Nat : secret = secrets + 1 OBVIOUS
<1>11. new = [old EXCEPT !.customer = customer, !.site = site, !.hw = hw, !.serial = serial,
                         !.host = host, !.key = key, !.secret = secret, !.status = "OFFLINE"]
  BY <1>4, <1>5, <1>6, <1>7, <1>8, <1>9, <1>10 DEF Registered
<1>12. /\ new \in DeviceRow /\ new.secret = secret /\ new.customer = customer /\ new.site = site
       /\ new.hw = hw /\ new.key = key
  <2>1. PICK half : half = [old EXCEPT !.customer = customer, !.site = site, !.hw = hw,
                                       !.serial = serial]
    OBVIOUS
  <2>2. /\ half \in DeviceRow /\ half.customer = customer /\ half.site = site /\ half.hw = hw
    BY <2>1 DEF DeviceRow
  <2>3. new = [half EXCEPT !.host = host, !.key = key, !.secret = secret, !.status = "OFFLINE"]
    BY <1>11, <2>1
  <2> QED BY <2>2, <2>3 DEF DeviceRow, Status
<1> QED BY <1>4, <1>5, <1>6, <1>8, <1>10, <1>12

\* What a registration writes: a new row, or the row it read and that nothing changed since.
Writes(r, i, new) ==
  /\ devices' = [devices EXCEPT ![i] = new]
  /\ \/ request[r].found = 0 /\ i = created + 1 /\ devices[i] = NoDevice
        /\ created' = created + 1
     \/ request[r].found = i /\ Exists(i) /\ i <= created /\ created' = created
        /\ devices[i].customer = request[r].read.customer
        /\ devices[i].hw = request[r].row.hw
  /\ new.secret = secrets + 1 /\ secrets' = secrets + 1
  /\ new.customer = request[r].read.customer
  /\ new.site = Kept(request[r].read.site, devices[i].site)
  /\ new.hw = Kept(request[r].hw, devices[i].hw)
  /\ new.key = IF devices[i].key = 0 THEN keys + 1 ELSE devices[i].key
  /\ keys' = IF devices[i].key = 0 THEN keys + 1 ELSE keys
  /\ dirty' = IF request[r].read.site # None
                   /\ siteOf[request[r].read.site] # request[r].read.customer
              THEN dirty \cup {i}
              ELSE IF request[r].read.site # None THEN dirty \ {i} ELSE dirty
  /\ request' = [p \in Request |->
       IF p = r THEN [request[r] EXCEPT !.phase = "reply", !.found = i,
                                        !.secret = secrets + 1]
       ELSE IF p \in Conflicts(r) THEN [request[p] EXCEPT !.doomed = TRUE]
       ELSE request[p]]

LEMMA CommitSummary ==
  ASSUME RegistryOK, NEW r \in Request, Commit(r)
  PROVE  \E i \in Row, new \in DeviceRow : Writes(r, i, new)
<1> DEFINE i == IF request[r].found = 0 THEN created + 1 ELSE request[r].found
           new == Registered(request[r], devices[i])
<1>1. /\ request[r].phase = "commit" /\ Serializable(r) /\ i \in Row
      /\ devices' = [devices EXCEPT ![i] = new]
      /\ created' = IF request[r].found = 0 THEN created + 1 ELSE created
      /\ keys' = IF devices[i].key = 0 THEN keys + 1 ELSE keys
      /\ secrets' = secrets + 1
      /\ dirty' = IF request[r].read.site # None
                       /\ siteOf[request[r].read.site] # request[r].read.customer
                  THEN dirty \cup {i}
                  ELSE IF request[r].read.site # None THEN dirty \ {i} ELSE dirty
      /\ request' = [p \in Request |->
           IF p = r THEN [request[r] EXCEPT !.phase = "reply", !.found = i, !.secret = secrets + 1]
           ELSE IF p \in Conflicts(r) THEN [request[p] EXCEPT !.doomed = TRUE]
           ELSE request[p]]
  BY DEF Commit
<1>2. PICK j \in Row : j = i BY <1>1
<1>3. PICK q \in RequestRow : q = request[r] BY RequestOf, Parts
<1>4. PICK old \in DeviceRow : old = devices[j] BY DeviceOf, Parts
<1>5. PICK row : row = Registered(q, old) OBVIOUS
<1>6. keys \in Nat /\ secrets \in Nat BY Parts DEF DevicesOK
<1>7. q.phase = "commit" BY <1>1, <1>3
<1>8. /\ row \in DeviceRow /\ row.secret = secrets + 1
      /\ row.customer = Kept(old.customer, q.read.customer)
      /\ row.site = Kept(q.read.site, old.site)
      /\ row.hw = Kept(q.hw, old.hw)
      /\ row.key = IF old.key = 0 THEN keys + 1 ELSE old.key
  BY <1>5, <1>6, <1>7, RegisteredRow
<1>9. new = row BY <1>2, <1>3, <1>4, <1>5
<1>20. j = IF q.found = 0 THEN created + 1 ELSE q.found BY <1>2, <1>3
<1> HIDE DEF new, i
<1>10. CASE q.found = 0
  <2>1. j = created + 1 BY <1>10, <1>20
  <2>2. created \in Nat BY Parts
  <2>3. old = NoDevice BY <1>4, <2>1, <2>2, Parts DEF DevicesOK
  <2>4. row.customer = q.read.customer BY <1>8, <2>3, Blank DEF Kept
  <2>5. Writes(r, j, row)
    BY <1>1, <1>2, <1>3, <1>4, <1>8, <1>9, <1>10, <2>1, <2>3, <2>4 DEF Writes
  <2> QED BY <1>8, <2>5
<1>11. CASE q.found # 0
  <2>1. j = q.found BY <1>11, <1>20
  <2>2. [old EXCEPT !.age = q.row.age] = q.row
    BY <1>1, <1>3, <1>4, <1>11, <2>1 DEF Serializable
  <2>3. q.row \in DeviceRow /\ q.row.secret # 0 /\ q.row.customer = q.read.customer
    BY <1>3, <1>7, <1>11, RequestOf, Parts
  <2>4. old.secret = q.row.secret /\ old.customer = q.row.customer /\ old.hw = q.row.hw
    BY <2>2, <2>3 DEF DeviceRow
  <2>5. Exists(j) /\ j <= created BY <1>4, <2>3, <2>4, DeviceOf, Parts
  <2>6. row.customer = q.read.customer BY <1>8, <2>3, <2>4 DEF Kept
  <2>7. Writes(r, j, row)
    BY <1>1, <1>2, <1>3, <1>4, <1>8, <1>9, <1>11, <2>1, <2>3, <2>4, <2>5, <2>6 DEF Writes
  <2> QED BY <1>8, <2>7
<1> QED BY <1>10, <1>11

LEMMA CommitOK == ASSUME RegistryOK, NEW r \in Request, Commit(r) PROVE RegistryOK'
<1>0. PICK i \in Row, new \in DeviceRow : Writes(r, i, new) BY CommitSummary
<1>1. /\ devices' = [devices EXCEPT ![i] = new]
      /\ \/ i = created + 1 /\ created' = created + 1
         \/ i <= created /\ created' = created
      /\ new.secret = secrets + 1 /\ secrets' = secrets + 1
      /\ new.key = IF devices[i].key = 0 THEN keys + 1 ELSE devices[i].key
      /\ keys' = IF devices[i].key = 0 THEN keys + 1 ELSE keys
      /\ request' = [p \in Request |->
           IF p = r THEN [request[r] EXCEPT !.phase = "reply", !.found = i, !.secret = secrets + 1]
           ELSE IF p \in Conflicts(r) THEN [request[p] EXCEPT !.doomed = TRUE]
           ELSE request[p]]
  BY <1>0 DEF Writes
<1>2. /\ request[r].phase = "commit" /\ Serializable(r)
      /\ tokens' = [tokens EXCEPT ![request[r].token].used = @ + 1]
      /\ UNCHANGED <<focus, siteOf, agent, edit, beat, agreed>>
  BY DEF Commit
<1>3. i \in 1..MaxRows /\ created \in Nat /\ created <= MaxRows /\ secrets \in Nat /\ keys \in Nat
  BY Parts, Rows DEF DevicesOK
<1>4. devices[i].key \in Nat /\ devices[i].key <= keys BY DeviceOf, Parts DEF DevicesOK
<1>5. created' \in 0..MaxRows /\ Grows /\ i <= created' BY <1>1, <1>3 DEF Grows
<1>6. DevicesOK'
  <2>1. new.secret # 0 /\ new.secret <= secrets' /\ new.key <= keys'
        /\ secrets' \in Nat /\ secrets <= secrets' /\ keys' \in Nat /\ keys <= keys'
    BY <1>1, <1>3, <1>4
  <2> QED BY <1>1, <1>5, <2>1, Parts, RowWritten DEF Grows
<1>7. RequestsOK'
  <2>1. ASSUME NEW p \in Request PROVE request'[p] \in RequestRow /\ request'[p].found <= created'
    <3>1. request[p] \in RequestRow /\ request[p].found <= created /\ request[p].found \in Nat
      BY RequestOf, Parts, Rows
    <3>2. CASE p = r
      <4>1. request'[p] = [request[p] EXCEPT !.phase = "reply", !.found = i, !.secret = secrets + 1]
        BY <1>1, <3>2
      <4>2. i \in 0..MaxRows /\ secrets + 1 \in Nat BY <1>3
      <4>3. request[p].phase = "commit" BY <1>2, <3>2
      <4> QED BY <1>5, <3>1, <4>1, <4>2, <4>3 DEF RequestRow
    <3>3. CASE p # r
      <4>1. request'[p] = request[p] \/ request'[p] = [request[p] EXCEPT !.doomed = TRUE]
        BY <1>1, <3>3
      <4>2. request'[p] \in RequestRow /\ request'[p].found = request[p].found
        BY <3>1, <4>1 DEF RequestRow
      <4> QED BY <1>3, <1>5, <3>1, <4>2 DEF Grows
    <3> QED BY <3>2, <3>3
  <2>2. request' = [p \in Request |-> request'[p]] BY <1>1
  <2> QED BY <2>1, <2>2 DEF RequestsOK
<1>8. RestOK'
  <2>1. PICK t \in Token : t = request[r].token BY <1>2, RequestOf, Parts
  <2>2. PICK read \in TokenRow : read = request[r].read /\ read.used < read.max
    BY <1>2, RequestOf, Parts
  <2>3. tokens[t] = read BY <1>2, <2>1, <2>2 DEF Serializable
  <2>4. [read EXCEPT !.used = @ + 1] \in TokenRow BY <2>2 DEF TokenRow
  <2>5. tokens' = [tokens EXCEPT ![t] = [read EXCEPT !.used = @ + 1]] BY <1>2, <2>1, <2>3
  <2>6. tokens' \in [Token -> TokenRow] BY <2>4, <2>5, Parts DEF RestOK
  <2> QED BY <1>2, <2>6, Parts DEF RestOK
<1>9. AgentsOK' /\ BeatsOK' /\ EditsOK' BY <1>2, <1>5, Parts, AgentsStay, BeatsStay, EditsStay
<1> QED BY <1>6, <1>7, <1>8, <1>9 DEF RegistryOK

LEMMA EditOf ==
  ASSUME EditsOK, NEW e \in Editor
  PROVE  /\ edit[e].kind = "device" /\ edit[e].phase # "idle" => edit[e] \in DeviceEdit
         /\ edit[e].kind = "site" => edit[e] \in SiteEdit
         /\ edit[e].kind = "token" => edit[e] \in TokenEdit
         /\ edit[e].kind = "key" => edit[e] \in KeyEdit
<1>1. edit[e] \in EditRow BY DEF EditsOK
<1>2. NoEdit.kind = "device" /\ NoEdit.phase = "idle" BY DEF NoEdit
<1>3. /\ \A p \in DeviceEdit : p.kind = "device"
      /\ \A p \in SiteEdit : p.kind = "site"
      /\ \A p \in TokenEdit : p.kind = "token"
      /\ \A p \in KeyEdit : p.kind = "key"
  BY DEF DeviceEdit, SiteEdit, TokenEdit, KeyEdit
<1> QED BY <1>1, <1>2, <1>3 DEF EditRow

\* A step of one edit alone.
LEMMA OnlyEdit ==
  ASSUME RegistryOK, EditsOK', UNCHANGED <<focus, serverVars, agent, request, beat, historyVars>>
  PROVE  RegistryOK'
<1>1. UNCHANGED <<focus, devices, tokens, siteOf, secrets, keys, created, agent, request, beat,
                  agreed>>
  BY DEF serverVars, historyVars
<1>2. DevicesOK' /\ Grows BY <1>1, Parts, DevicesStay, Same0
<1>3. AgentsOK' /\ BeatsOK' /\ RequestsOK' BY <1>1, <1>2, Parts, AgentsStay, BeatsStay, RequestsStay
<1>4. RestOK' BY <1>1, Parts DEF RestOK
<1> QED BY <1>2, <1>3, <1>4 DEF RegistryOK

LEMMA NoEditRow == ASSUME EditsOK, NEW e \in Editor, Finish(e) PROVE EditsOK'
BY Blank, EditWritten DEF Finish

LEMMA StartRow == ASSUME EditsOK, NEW e \in Editor, NEW p \in EditRow, Start(e, p) PROVE EditsOK'
BY EditWritten DEF Start

LEMMA RequestTokenOK ==
  ASSUME RegistryOK, NEW e \in Editor, NEW t \in Token, RequestToken(e, t)
  PROVE  RegistryOK'
<1>1. PICK customer \in Customer, max \in 1..focus.registrations,
           site \in IF On("assign") THEN Site \cup {None} ELSE {None} :
        Start(e, [NoEdit EXCEPT !.kind = "token", !.phase = "write", !.target = t,
                                !.customer = customer, !.site = site, !.max = max])
  BY DEF RequestToken
<1>2. PICK p : p = [NoEdit EXCEPT !.kind = "token", !.phase = "write", !.target = t,
                                  !.customer = customer, !.site = site, !.max = max]
  OBVIOUS
<1>3. focus.registrations \in Nat BY Parts, FocusAssumption DEF RestOK
<1>4. max \in Nat /\ site \in Site \cup {None} BY <1>3
<1>5. p \in TokenEdit BY <1>2, <1>4 DEF NoEdit, TokenEdit
<1>6. EditsOK' BY <1>1, <1>2, <1>5, Parts, StartRow DEF EditRow
<1>7. UNCHANGED <<focus, serverVars, agent, request, beat, historyVars>> BY DEF RequestToken
<1> QED BY <1>6, <1>7, OnlyEdit

LEMMA ReadDeviceOK ==
  ASSUME RegistryOK, NEW e \in Editor, NEW i \in Row, ReadDevice(e, i)
  PROVE  RegistryOK'
<1>1. PICK customer \in IF On("assign") THEN Customer \cup {None} ELSE {None},
           site     \in IF On("assign") THEN Site \cup {None, Clear} ELSE {None},
           status   \in IF On("presence") THEN Status ELSE {None} :
        Start(e, [NoEdit EXCEPT !.phase = IF site \in Site THEN "check" ELSE "write",
                                !.kind = "device", !.target = i, !.customer = customer,
                                !.read = Assignment(i), !.site = site, !.status = status])
  BY DEF ReadDevice
<1>2. PICK read : read = Assignment(i) OBVIOUS
<1>3. PICK phase : phase = IF site \in Site THEN "check" ELSE "write" OBVIOUS
<1>4. PICK p : p = [NoEdit EXCEPT !.phase = phase,
                                !.kind = "device", !.target = i, !.customer = customer,
                                !.read = read, !.site = site, !.status = status]
  OBVIOUS
<1>5. read \in Place BY <1>2, Parts, DeviceOf DEF Assignment, Place
<1>6. /\ customer \in Customer \cup {None} /\ site \in Site \cup {None, Clear}
      /\ status \in Status \cup {None}
  OBVIOUS
<1>7. p \in DeviceEdit
  <2>1. p = [phase |-> phase, kind |-> "device", target |-> i, customer |-> customer,
             site |-> site, status |-> status, max |-> 0, read |-> read, attached |-> {}]
    BY <1>4 DEF NoEdit
  <2> QED BY <1>3, <1>5, <1>6, <2>1 DEF DeviceEdit
<1>8. Start(e, p) BY <1>1, <1>2, <1>3, <1>4
<1>9. EditsOK' BY <1>7, <1>8, Parts, StartRow DEF EditRow
<1>10. UNCHANGED <<focus, serverVars, agent, request, beat, historyVars>> BY DEF ReadDevice
<1> QED BY <1>9, <1>10, OnlyEdit

LEMMA ReadSiteOK ==
  ASSUME RegistryOK, NEW e \in Editor, NEW s \in Site, ReadSite(e, s)
  PROVE  RegistryOK'
<1>1. PICK customer \in Customer :
        Start(e, [NoEdit EXCEPT !.phase = IF siteOf[s] = customer THEN "write" ELSE "count",
                                !.kind = "site", !.target = s, !.read = siteOf[s],
                                !.customer = customer, !.attached = Attached(s)])
  BY DEF ReadSite
<1>2. PICK read \in Customer : read = siteOf[s] BY Parts DEF RestOK
<1>3. PICK attached \in SUBSET Row : attached = Attached(s) BY DEF Attached, Enrolled
<1>4. PICK phase : phase = IF read = customer THEN "write" ELSE "count" OBVIOUS
<1>5. PICK p : p = [NoEdit EXCEPT !.phase = phase, !.kind = "site", !.target = s, !.read = read,
                                  !.customer = customer, !.attached = attached]
  OBVIOUS
<1>6. p \in SiteEdit BY <1>4, <1>5 DEF NoEdit, SiteEdit
<1>7. Start(e, p) BY <1>1, <1>2, <1>3, <1>4, <1>5
<1>8. EditsOK' BY <1>6, <1>7, Parts, StartRow DEF EditRow
<1>9. UNCHANGED <<focus, serverVars, agent, request, beat, historyVars>> BY DEF ReadSite
<1> QED BY <1>8, <1>9, OnlyEdit

LEMMA ReadKeyOK ==
  ASSUME RegistryOK, NEW e \in Editor, NEW i \in Row, ReadKey(e, i)
  PROVE  RegistryOK'
<1>1. PICK p : p = [NoEdit EXCEPT !.kind = "key", !.phase = "write", !.target = i] OBVIOUS
<1>2. Start(e, p) BY <1>1 DEF ReadKey
<1>3. p \in KeyEdit BY <1>1 DEF NoEdit, KeyEdit
<1>4. EditsOK' BY <1>2, <1>3, Parts, StartRow DEF EditRow
<1>5. UNCHANGED <<focus, serverVars, agent, request, beat, historyVars>> BY DEF ReadKey
<1> QED BY <1>4, <1>5, OnlyEdit

LEMMA CheckSiteOK == ASSUME RegistryOK, NEW e \in Editor, CheckSite(e) PROVE RegistryOK'
<1>1. PICK p : p = edit[e] OBVIOUS
<1>2. PICK next : next = [p EXCEPT !.phase = "write"] OBVIOUS
<1>3. p.kind = "device" /\ p.phase = "check" BY <1>1 DEF CheckSite, At
<1>4. Finish(e) \/ edit' = [edit EXCEPT ![e] = next]
  BY <1>1, <1>2 DEF CheckSite, Goto
<1>5. p \in DeviceEdit BY <1>1, <1>3, Parts, EditOf
<1>6. next \in DeviceEdit BY <1>2, <1>5 DEF DeviceEdit
<1>7. EditsOK' BY <1>4, <1>6, Parts, NoEditRow, EditWritten DEF EditRow
<1>8. UNCHANGED <<focus, serverVars, agent, request, beat, historyVars>> BY DEF CheckSite
<1> QED BY <1>7, <1>8, OnlyEdit

LEMMA CountDevicesOK == ASSUME RegistryOK, NEW e \in Editor, CountDevices(e) PROVE RegistryOK'
<1>1. PICK p : p = edit[e] OBVIOUS
<1>2. PICK next : next = [p EXCEPT !.phase = "write", !.attached = {}] OBVIOUS
<1>3. p.kind = "site" BY <1>1 DEF CountDevices, At
<1>4. Finish(e) \/ edit' = [edit EXCEPT ![e] = next]
  BY <1>1, <1>2 DEF CountDevices
<1>5. p \in SiteEdit BY <1>1, <1>3, Parts, EditOf
<1>6. next \in SiteEdit BY <1>2, <1>5 DEF SiteEdit
<1>7. EditsOK' BY <1>4, <1>6, Parts, NoEditRow, EditWritten DEF EditRow
<1>8. UNCHANGED <<focus, serverVars, agent, request, beat, historyVars>> BY DEF CountDevices
<1> QED BY <1>7, <1>8, OnlyEdit

\* A step of the tokens.
LEMMA OnlyTokens ==
  ASSUME RegistryOK, EditsOK', tokens' \in [Token -> TokenRow],
         UNCHANGED <<focus, devices, siteOf, secrets, keys, created, agent, request, beat, agreed>>
  PROVE  RegistryOK'
<1>1. DevicesOK' /\ Grows BY Parts, DevicesStay, Same0
<1>2. AgentsOK' /\ BeatsOK' /\ RequestsOK' BY <1>1, Parts, AgentsStay, BeatsStay, RequestsStay
<1>3. RestOK' BY Parts DEF RestOK
<1> QED BY <1>1, <1>2, <1>3 DEF RegistryOK

LEMMA NewToken ==
  ASSUME NEW c \in Customer, NEW s \in Site \cup {None}, NEW n \in Nat, NEW t,
         t = [customer |-> c, site |-> s, max |-> n, used |-> 0, expired |-> FALSE]
  PROVE  t \in TokenRow
BY DEF TokenRow

LEMMA CreateTokenOK == ASSUME RegistryOK, NEW e \in Editor, CreateToken(e) PROVE RegistryOK'
<1>1. PICK p : p = edit[e] OBVIOUS
<1>2. PICK t : t = [NoToken EXCEPT !.customer = p.customer, !.site = p.site, !.max = p.max] OBVIOUS
<1>3. /\ p.kind = "token" /\ tokens' = [tokens EXCEPT ![p.target] = t] /\ Finish(e)
      /\ UNCHANGED <<focus, devices, siteOf, secrets, keys, created, agent, request, beat, agreed>>
  BY <1>1, <1>2 DEF CreateToken, At, historyVars
<1>4. p \in TokenEdit BY <1>1, <1>3, Parts, EditOf
<1>5. t \in TokenRow
  <2>1. p.customer \in Customer /\ p.site \in Site \cup {None} /\ p.max \in Nat
    BY <1>4 DEF TokenEdit
  <2>2. t = [customer |-> p.customer, site |-> p.site, max |-> p.max, used |-> 0,
             expired |-> FALSE]
    BY <1>2 DEF NoToken
  <2> QED BY <2>1, <2>2, NewToken
<1>6. tokens' \in [Token -> TokenRow] BY <1>3, <1>5, Parts DEF RestOK
<1>7. EditsOK' BY <1>3, Parts, NoEditRow
<1> QED BY <1>3, <1>6, <1>7, OnlyTokens

LEMMA CreateCompatibilityTokenOK ==
  ASSUME RegistryOK, NEW t \in Token, CreateCompatibilityToken(t)
  PROVE  RegistryOK'
<1>1. PICK customer \in Customer :
        tokens' = [tokens EXCEPT ![t] = [NoToken EXCEPT !.customer = customer, !.max = 1]]
  BY DEF CreateCompatibilityToken
<1>2. PICK row : row = [NoToken EXCEPT !.customer = customer, !.max = 1] OBVIOUS
<1>3. row \in TokenRow
  <2>1. row = [customer |-> customer, site |-> None, max |-> 1, used |-> 0, expired |-> FALSE]
    BY <1>2 DEF NoToken
  <2> QED BY <2>1, NewToken
<1>4. tokens' \in [Token -> TokenRow] BY <1>1, <1>2, <1>3, Parts DEF RestOK
<1>5. UNCHANGED <<focus, devices, siteOf, secrets, keys, created, agent, request, edit, beat, agreed>>
  BY DEF CreateCompatibilityToken, historyVars
<1>6. EditsOK' BY <1>5, Parts, EditsStay
<1> QED BY <1>4, <1>5, <1>6, OnlyTokens

LEMMA RevokeTokenOK == ASSUME RegistryOK, NEW t \in Token, RevokeToken(t) PROVE RegistryOK'
<1>1. tokens' = [tokens EXCEPT ![t].expired = TRUE] BY DEF RevokeToken
<1>2. PICK row : row = [tokens[t] EXCEPT !.expired = TRUE] OBVIOUS
<1>3. row \in TokenRow BY <1>2, Parts DEF RestOK, TokenRow
<1>4. tokens' \in [Token -> TokenRow] BY <1>1, <1>2, <1>3, Parts DEF RestOK
<1>5. UNCHANGED <<focus, devices, siteOf, secrets, keys, created, agent, request, edit, beat, agreed>>
  BY DEF RevokeToken, historyVars
<1>6. EditsOK' BY <1>5, Parts, EditsStay
<1> QED BY <1>4, <1>5, <1>6, OnlyTokens

-----------------------------------------------------------------------------
(* The registry: steps that write rows of devices                           *)

\* Who and where the devices are stays as it is.
SameRow(a, b) == a.customer = b.customer /\ a.site = b.site /\ a.hw = b.hw /\ a.secret = b.secret
SameRows == \A i \in Row : SameRow(devices'[i], devices[i])

LEMMA RowsStay == ASSUME devices' = devices PROVE SameRows
BY DEF SameRows, SameRow

LEMMA FieldWritten ==
  ASSUME DevicesOK, NEW i \in Row, Exists(i), NEW new \in DeviceRow, SameRow(new, devices[i]),
         devices' = [devices EXCEPT ![i] = new], UNCHANGED <<created, secrets>>,
         keys' \in Nat, keys <= keys', new.key <= keys'
  PROVE  /\ DevicesOK' /\ Grows /\ SameRows /\ devices'[i] = new
         /\ \A j \in Row \ {i} : devices'[j] = devices[j]
<1>1. new.secret # 0 /\ i <= created' BY DeviceOf DEF SameRow
<1>2. secrets \in Nat /\ created \in 0..MaxRows /\ devices[i].secret <= secrets BY DEF DevicesOK
<1>3. new.secret <= secrets' BY <1>2 DEF SameRow
<1>4. Grows BY Same0
<1>5. DevicesOK' /\ devices'[i] = new /\ \A j \in Row \ {i} : devices'[j] = devices[j]
  <2>1. secrets' \in Nat /\ secrets <= secrets' /\ created' \in 0..MaxRows /\ created <= created'
    BY <1>2, <1>4 DEF Grows
  <2> QED BY <1>1, <1>3, <2>1, RowWritten
<1>6. SameRows BY <1>5 DEF SameRows, SameRow
<1> QED BY <1>4, <1>5, <1>6

LEMMA SameExist ==
  ASSUME DevicesOK, DevicesOK', SameRows
  PROVE  Enrolled' = Enrolled /\ \A i : Exists(i)' <=> Exists(i)
<1>1. ASSUME NEW i \in Row PROVE Exists(i)' <=> Exists(i)
  <2>1. Exists(i) <=> devices[i].secret # 0 BY DeviceOf
  <2>2. Exists(i)' <=> devices'[i].secret # 0
    <3>1. devices'[i].secret = 0 => devices'[i] = NoDevice BY DEF DevicesOK
    <3> QED BY <3>1, Blank DEF Exists
  <2> QED BY <2>1, <2>2 DEF SameRows, SameRow
<1>2. \A i : Exists(i)' <=> Exists(i) BY <1>1 DEF Exists
<1> QED BY <1>2 DEF Enrolled

\* An edit writes one device, or finds it gone.
Edited(p, i, new) ==
  /\ Exists(i) /\ devices' = [devices EXCEPT ![i] = new]
  /\ new.customer = Kept(p.customer, devices[i].customer)
  /\ new.site = NewSite(p, devices[i].site)
  /\ new.hw = devices[i].hw /\ new.secret = devices[i].secret /\ new.key = devices[i].key

LEMMA WriteDeviceSummary ==
  ASSUME RegistryOK, NEW e \in Editor, WriteDevice(e)
  PROVE  /\ edit[e] \in DeviceEdit /\ edit[e].target \in Row
         /\ edit[e].site \notin Site => edit[e].site \in {None, Clear}
         /\ \/ /\ devices' = devices /\ UNCHANGED <<moved, dirty>>
            \/ \E new \in DeviceRow : Edited(edit[e], edit[e].target, new)
<1>1. PICK p : p = edit[e] OBVIOUS
<1>2. p.kind = "device" /\ p.phase = "write" BY <1>1 DEF WriteDevice, At
<1>3. p \in DeviceEdit BY <1>1, <1>2, Parts, EditOf
<1>4. PICK i \in Row : i = p.target BY <1>3 DEF DeviceEdit
<1>5. /\ p.customer \in Customer \cup {None} /\ p.site \in Site \cup {None, Clear}
      /\ p.status \in Status \cup {None}
  BY <1>3 DEF DeviceEdit
<1>6. PICK old \in DeviceRow : old = devices[i] BY Parts, DeviceOf
<1>7. PICK customer \in Customer \cup {None} : customer = Kept(p.customer, old.customer)
  BY <1>5, <1>6 DEF Kept, DeviceRow
<1>8. PICK site \in Site \cup {None} : site = NewSite(p, old.site)
  BY <1>5, <1>6 DEF NewSite, Kept, DeviceRow
<1>9. PICK status \in Status : status = Kept(p.status, old.status)
  BY <1>5, <1>6 DEF Kept, DeviceRow
<1>10. CASE Exists(i)
  <2>1. PICK new : new = [old EXCEPT !.customer = customer, !.site = site, !.status = status]
    OBVIOUS
  <2>2. devices' = [devices EXCEPT
             ![i].customer = Kept(p.customer, @), ![i].site = NewSite(p, @),
             ![i].status = Kept(p.status, @)]
    BY <1>1, <1>4, <1>10 DEF WriteDevice
  <2>3. devices' = [devices EXCEPT ![i] = new]
    <3>1. devices \in [Row -> DeviceRow] BY Parts DEF DevicesOK
    <3> QED BY <1>6, <1>7, <1>8, <1>9, <2>1, <2>2, <3>1
  <2>4. new \in DeviceRow BY <2>1 DEF DeviceRow
  <2>5. Edited(p, i, new)
    BY <1>6, <1>7, <1>8, <1>10, <2>1, <2>3 DEF Edited, DeviceRow
  <2> QED BY <1>1, <1>3, <1>4, <1>5, <2>4, <2>5
<1>11. CASE ~Exists(i)
  <2>1. devices' = devices /\ UNCHANGED <<moved, dirty>>
    BY <1>1, <1>4, <1>11 DEF WriteDevice
  <2> QED BY <1>1, <1>3, <1>4, <1>5, <2>1
<1> QED BY <1>10, <1>11

LEMMA WriteDeviceOK == ASSUME RegistryOK, NEW e \in Editor, WriteDevice(e) PROVE RegistryOK'
<1>1. /\ Finish(e)
      /\ UNCHANGED <<focus, tokens, siteOf, secrets, keys, created, agent, request, beat, agreed>>
  BY DEF WriteDevice
<1>2. EditsOK' BY <1>1, Parts, NoEditRow
<1>3. Grows BY <1>1, Parts, Same0
<1>4. DevicesOK'
  <2>1. PICK i \in Row : i = edit[e].target BY WriteDeviceSummary
  <2>2. CASE devices' = devices BY <1>1, <2>2, Parts, DevicesStay
  <2>3. ASSUME NEW new \in DeviceRow, Edited(edit[e], i, new) PROVE DevicesOK'
    <3>1. /\ Exists(i) /\ devices' = [devices EXCEPT ![i] = new]
          /\ new.secret = devices[i].secret /\ new.key = devices[i].key
      BY <2>3 DEF Edited
    <3>2. /\ new.secret # 0 /\ i <= created /\ new.secret <= secrets /\ new.key <= keys
          /\ secrets \in Nat /\ keys \in Nat /\ created \in 0..MaxRows
      BY <3>1, Parts, DeviceOf DEF DevicesOK
    <3>3. secrets <= secrets /\ keys <= keys /\ created <= created BY <3>2
    <3> QED BY <1>1, <3>1, <3>2, <3>3, Parts, RowWritten
  <2> QED BY <2>1, <2>2, <2>3, WriteDeviceSummary
<1>5. AgentsOK' /\ BeatsOK' /\ RequestsOK' BY <1>1, <1>3, Parts, AgentsStay, BeatsStay, RequestsStay
<1>6. RestOK' BY <1>1, Parts DEF RestOK
<1> QED BY <1>2, <1>4, <1>5, <1>6 DEF RegistryOK

LEMMA DeleteDeviceOK ==
  ASSUME RegistryOK, NEW i \in Row, DeleteDevice(i)
  PROVE  /\ RegistryOK' /\ devices'[i] = NoDevice
         /\ \A j \in Row \ {i} : devices'[j] = devices[j]
<1>1. /\ devices' = [devices EXCEPT ![i] = NoDevice]
      /\ agreed' = {m \in agreed : agent[m].device # i}
      /\ UNCHANGED <<focus, tokens, siteOf, secrets, keys, created, agent, request, edit, beat>>
  BY DEF DeleteDevice
<1>2. secrets \in Nat /\ keys \in Nat /\ created \in 0..MaxRows /\ created \in Nat
  BY Parts DEF DevicesOK
<1>3. /\ NoDevice.secret <= secrets' /\ NoDevice.key <= keys'
      /\ secrets <= secrets' /\ keys <= keys' /\ created <= created'
  BY <1>1, <1>2, Blank
<1>4. /\ DevicesOK' /\ devices'[i] = NoDevice
      /\ \A j \in Row \ {i} : devices'[j] = devices[j]
  BY <1>1, <1>2, <1>3, Parts, Blank, RowWritten
<1>5. Grows BY <1>1, Parts, Same0
<1>6. AgentsOK' /\ BeatsOK' /\ RequestsOK' /\ EditsOK'
  BY <1>1, <1>5, Parts, AgentsStay, BeatsStay, RequestsStay, EditsStay
<1>7. RestOK' BY <1>1, Parts DEF RestOK
<1> QED BY <1>4, <1>6, <1>7 DEF RegistryOK

LEMMA WriteSiteOK == ASSUME RegistryOK, NEW e \in Editor, WriteSite(e) PROVE RegistryOK'
<1>1. PICK p : p = edit[e] OBVIOUS
<1>2. /\ p.kind = "site" /\ siteOf' = [siteOf EXCEPT ![p.target] = p.customer] /\ Finish(e)
      /\ UNCHANGED <<focus, devices, tokens, secrets, keys, created, agent, request, beat, agreed>>
  BY <1>1 DEF WriteSite, At
<1>3. p \in SiteEdit BY <1>1, <1>2, Parts, EditOf
<1>4. p.target \in Site /\ p.customer \in Customer BY <1>3 DEF SiteEdit
<1>5. siteOf' \in [Site -> Customer] BY <1>2, <1>4, Parts DEF RestOK
<1>6. RestOK' BY <1>2, <1>5, Parts DEF RestOK
<1>7. EditsOK' BY <1>2, Parts, NoEditRow
<1>8. DevicesOK' /\ Grows BY <1>2, Parts, DevicesStay, Same0
<1>9. AgentsOK' /\ BeatsOK' /\ RequestsOK' BY <1>2, <1>8, Parts, AgentsStay, BeatsStay, RequestsStay
<1> QED BY <1>6, <1>7, <1>8, <1>9 DEF RegistryOK

LEMMA BeatOf ==
  ASSUME RegistryOK, NEW b \in Beat
  PROVE  /\ beat[b] \in BeatRow /\ beat[b].device <= created /\ beat[b].device \in Nat
         /\ beat[b].key \in Nat
         /\ beat[b].phase # "idle" => beat[b].machine \in Machine /\ beat[b].device \in Row
<1>1. beat[b] \in BeatRow /\ beat[b].device <= created BY Parts DEF BeatsOK
<1>2. /\ beat[b].device \in 0..MaxRows /\ beat[b].key \in Nat
      /\ beat[b].phase # "idle" => beat[b].machine \in Machine /\ beat[b].device # 0
  BY <1>1 DEF BeatRow
<1> QED BY <1>1, <1>2, Rows

\* A heartbeat's step leaves the registrations, the edits and the sites as they are.
LEMMA OnlyBeat ==
  ASSUME RegistryOK, DevicesOK', Grows, AgentsOK', BeatsOK', agreed' \subseteq Machine,
         UNCHANGED <<focus, tokens, siteOf, request, edit>>
  PROVE  RegistryOK'
<1>1. RequestsOK' /\ EditsOK' BY Parts, RequestsStay, EditsStay
<1>2. RestOK' BY Parts DEF RestOK
<1> QED BY <1>1, <1>2 DEF RegistryOK

LEMMA HeartbeatOK ==
  ASSUME RegistryOK, NEW b \in Beat, NEW m \in Machine, Heartbeat(b, m)
  PROVE  /\ RegistryOK' /\ SameRows /\ \A j \in Row : devices'[j].key = devices[j].key
         /\ \E q : beat' = [beat EXCEPT ![b] = q] /\ q.phase = "update"
         /\ UNCHANGED <<agent, agreed>>
<1>1. PICK i : i = agent[m].device OBVIOUS
<1>2. Exists(i) /\ UNCHANGED <<focus, tokens, siteOf, secrets, keys, created, agent, request, edit, agreed>>
  BY <1>1 DEF Heartbeat, Authentic, historyVars
<1>3. i \in Row BY <1>2 DEF Exists
<1>4. PICK age \in Minute : devices' = [devices EXCEPT ![i].age = Younger(age, @)]
  <2>1. 0 \in Minute BY Rows
  <2>2. PICK age \in IF On("presence") THEN Minute ELSE {0} :
          devices' = [devices EXCEPT ![i].age = Younger(age, @)]
    BY <1>1 DEF Heartbeat
  <2>3. age \in Minute BY <2>1, <2>2
  <2> QED BY <2>2, <2>3
<1>5. PICK old \in DeviceRow : old = devices[i] BY <1>3, Parts, DeviceOf
<1>6. PICK a \in Minute : a = Younger(age, old.age) BY DEF Younger, DeviceRow
<1>7. PICK new : new = [old EXCEPT !.age = a] OBVIOUS
<1>8. new \in DeviceRow /\ SameRow(new, old) /\ new.key = old.key
  BY <1>7 DEF DeviceRow, SameRow
<1>9. devices' = [devices EXCEPT ![i] = new] BY <1>4, <1>5, <1>6, <1>7
<1>10. keys \in Nat /\ devices[i].key <= keys BY <1>3, Parts DEF DevicesOK
<1>11. /\ DevicesOK' /\ Grows /\ SameRows /\ devices'[i] = new
       /\ \A j \in Row \ {i} : devices'[j] = devices[j]
  <2>1. keys' \in Nat /\ keys <= keys' /\ new.key <= keys' BY <1>2, <1>5, <1>8, <1>10
  <2> QED BY <1>2, <1>3, <1>5, <1>8, <1>9, <2>1, Parts, FieldWritten
<1>12. \A j \in Row : devices'[j].key = devices[j].key BY <1>5, <1>8, <1>11
<1>13. PICK q : q = [NoBeat EXCEPT !.phase = "update", !.machine = m, !.device = i] OBVIOUS
<1>14. q \in BeatRow /\ q.device = i /\ q.phase = "update"
  <2>1. i \in 0..MaxRows /\ i # 0 BY <1>3, Rows
  <2> QED BY <1>13, <2>1 DEF NoBeat, BeatRow
<1>15. beat' = [beat EXCEPT ![b] = q] BY <1>1, <1>13 DEF Heartbeat
<1>16. q.device <= created BY <1>2, <1>3, <1>14, Parts, DeviceOf
<1>17. BeatsOK' BY <1>2, <1>14, <1>15, <1>16, Parts, BeatWritten
<1>18. AgentsOK' /\ agreed' \subseteq Machine BY <1>2, <1>11, Parts, AgentsStay DEF RestOK
<1>19. RegistryOK' BY <1>2, <1>11, <1>17, <1>18, OnlyBeat
<1> QED BY <1>2, <1>11, <1>12, <1>14, <1>15, <1>19

LEMMA UpdateDeviceOK ==
  ASSUME RegistryOK, NEW b \in Beat, UpdateDevice(b)
  PROVE  /\ RegistryOK' /\ SameRows /\ \A j \in Row : devices'[j].key = devices[j].key
         /\ \E q : /\ beat' = [beat EXCEPT ![b] = q]
                   /\ \/ q.phase # "answer"
                      \/ q.device \in Row /\ q.key = devices[q.device].key
         /\ UNCHANGED <<agent, agreed>>
<1>1. PICK i : i = beat[b].device OBVIOUS
<1>2. PICK old : old = beat[b] OBVIOUS
<1>3. old.phase = "update"
      /\ UNCHANGED <<focus, tokens, siteOf, secrets, keys, created, agent, request, edit, agreed>>
  BY <1>2 DEF UpdateDevice
<1>4. i \in Row /\ old \in BeatRow /\ old.device = i /\ i <= created BY <1>1, <1>2, <1>3, BeatOf
<1>5. AgentsOK' /\ agreed' \subseteq Machine
  BY <1>3, Parts, Same0, AgentsStay DEF RestOK
<1>6. CASE Exists(i)
  <2>1. PICK row \in DeviceRow : row = devices[i] BY <1>4, Parts, DeviceOf
  <2>2. PICK new : new = [row EXCEPT !.status = "ONLINE"] OBVIOUS
  <2>3. new \in DeviceRow /\ SameRow(new, row) /\ new.key = row.key
    BY <2>2 DEF DeviceRow, SameRow, Status
  <2>4. /\ devices' = [devices EXCEPT ![i].status = "ONLINE"]
        /\ beat' = [beat EXCEPT ![b].key = devices[i].key, ![b].current = TRUE,
                                ![b].phase = IF devices[i].key = 0 THEN "provision" ELSE "answer"]
    BY <1>1, <1>6 DEF UpdateDevice
  <2>5. devices' = [devices EXCEPT ![i] = new] BY <2>1, <2>2, <2>4
  <2>6. keys \in Nat /\ devices[i].key <= keys BY <1>4, Parts DEF DevicesOK
  <2>7. /\ DevicesOK' /\ Grows /\ SameRows /\ devices'[i] = new
        /\ \A j \in Row \ {i} : devices'[j] = devices[j]
    <3>1. keys' \in Nat /\ keys <= keys' /\ new.key <= keys' BY <1>3, <2>1, <2>3, <2>6
    <3> QED BY <1>3, <1>4, <1>6, <2>1, <2>3, <2>5, <3>1, Parts, FieldWritten
  <2>8. \A j \in Row : devices'[j].key = devices[j].key BY <2>1, <2>3, <2>7
  <2>9. PICK phase \in {"provision", "answer"} : phase = IF row.key = 0 THEN "provision" ELSE "answer"
    OBVIOUS
  <2>10. PICK q : q = [old EXCEPT !.key = row.key, !.current = TRUE, !.phase = phase] OBVIOUS
  <2>11. beat' = [beat EXCEPT ![b] = q]
    <3>1. beat \in [Beat -> BeatRow] BY Parts DEF BeatsOK
    <3> QED BY <1>2, <2>1, <2>4, <2>9, <2>10, <3>1
  <2>12. row.key \in Nat BY DEF DeviceRow
  <2>13. q \in BeatRow /\ q.device = i /\ q.key = row.key
    BY <1>3, <1>4, <2>10, <2>12 DEF BeatRow
  <2>14. BeatsOK' BY <1>3, <1>4, <2>11, <2>13, Parts, BeatWritten
  <2>15. RegistryOK' BY <1>3, <1>5, <2>7, <2>14, OnlyBeat
  <2>16. q.device \in Row /\ q.key = devices[q.device].key BY <1>4, <2>1, <2>13
  <2> QED BY <1>3, <2>7, <2>8, <2>11, <2>15, <2>16
<1>7. CASE ~Exists(i)
  <2>1. beat' = [beat EXCEPT ![b] = NoBeat] /\ devices' = devices
    BY <1>1, <1>7 DEF UpdateDevice
  <2>2. BeatsOK' BY <1>3, <2>1, Parts, BeatCleared
  <2>3. DevicesOK' /\ Grows BY <1>3, <2>1, Parts, DevicesStay, Same0
  <2>4. RegistryOK' BY <1>3, <1>5, <2>2, <2>3, OnlyBeat
  <2>5. NoBeat.phase # "answer" BY Blank
  <2> QED BY <1>3, <2>1, <2>4, <2>5, RowsStay
<1> QED BY <1>6, <1>7

LEMMA ProvisionKeyOK ==
  ASSUME RegistryOK, NEW b \in Beat, ProvisionKey(b)
  PROVE  /\ RegistryOK' /\ SameRows
         /\ \A j \in Row : devices[j].key # 0 => devices'[j].key = devices[j].key
         /\ \E q : beat' = [beat EXCEPT ![b] = q] /\ q.phase = "reread"
         /\ UNCHANGED <<agent, agreed>>
<1>1. PICK i : i = beat[b].device OBVIOUS
<1>2. PICK old : old = beat[b] OBVIOUS
<1>3. /\ old.phase = "provision" /\ keys' = keys + 1
      /\ UNCHANGED <<focus, tokens, siteOf, secrets, created, agent, request, edit, agreed>>
  BY <1>2 DEF ProvisionKey, historyVars
<1>4. i \in Row /\ old \in BeatRow /\ old.device = i /\ i <= created BY <1>1, <1>2, <1>3, BeatOf
<1>5. AgentsOK' /\ agreed' \subseteq Machine
  BY <1>3, Parts, Same0, AgentsStay DEF RestOK
<1>6. keys \in Nat /\ keys' \in Nat /\ keys <= keys' BY <1>3, Parts DEF DevicesOK
<1>7. /\ DevicesOK' /\ Grows /\ SameRows
      /\ \A j \in Row : devices[j].key # 0 => devices'[j].key = devices[j].key
  <2>1. CASE Exists(i) /\ devices[i].key = 0
    <3>1. devices' = [devices EXCEPT ![i].key = keys + 1] BY <1>1, <2>1 DEF ProvisionKey
    <3>2. PICK row \in DeviceRow : row = devices[i] BY <1>4, Parts, DeviceOf
    <3>3. PICK new : new = [row EXCEPT !.key = keys + 1] OBVIOUS
    <3>4. new \in DeviceRow /\ SameRow(new, row) /\ new.key = keys'
      BY <1>3, <1>6, <3>3 DEF DeviceRow, SameRow
    <3>5. devices' = [devices EXCEPT ![i] = new] BY <3>1, <3>2, <3>3
    <3>6. /\ DevicesOK' /\ Grows /\ SameRows /\ devices'[i] = new
          /\ \A j \in Row \ {i} : devices'[j] = devices[j]
      <4>1. new.key <= keys' BY <1>6, <3>4
      <4> QED BY <1>3, <1>4, <1>6, <2>1, <3>2, <3>4, <3>5, <4>1, Parts, FieldWritten
    <3> QED BY <2>1, <3>6
  <2>2. CASE ~(Exists(i) /\ devices[i].key = 0)
    <3>1. devices' = devices BY <1>1, <2>2 DEF ProvisionKey
    <3>2. DevicesOK'
      <4>1. \A j \in Row : devices[j].key \in Nat /\ devices[j].key <= keys
        BY Parts, DeviceOf DEF DevicesOK
      <4>2. \A j \in Row : devices[j].key <= keys' BY <1>6, <4>1
      <4> QED BY <1>3, <1>6, <3>1, <4>2, Parts DEF DevicesOK
    <3> QED BY <1>3, <3>1, <3>2, Parts, Same0, RowsStay
  <2> QED BY <2>1, <2>2
<1>8. PICK q : q = [old EXCEPT !.phase = "reread", !.candidate = keys + 1] OBVIOUS
<1>9. beat' = [beat EXCEPT ![b] = q]
  <2>1. beat \in [Beat -> BeatRow] BY Parts DEF BeatsOK
  <2> QED BY <1>2, <1>8, <2>1 DEF ProvisionKey
<1>10. q \in BeatRow /\ q.device = i /\ q.phase = "reread"
  BY <1>3, <1>4, <1>6, <1>8 DEF BeatRow
<1>11. BeatsOK' BY <1>3, <1>4, <1>9, <1>10, Parts, BeatWritten
<1>12. RegistryOK' BY <1>3, <1>5, <1>7, <1>11, OnlyBeat
<1> QED BY <1>3, <1>7, <1>9, <1>10, <1>12

LEMMA RereadKeyOK ==
  ASSUME RegistryOK, NEW b \in Beat, RereadKey(b)
  PROVE  /\ RegistryOK' /\ UNCHANGED <<devices, agent, agreed>>
         /\ \E q : /\ beat' = [beat EXCEPT ![b] = q]
                   /\ q.device \in Row /\ q.key = devices[q.device].key
<1>1. PICK i : i = beat[b].device OBVIOUS
<1>2. PICK old : old = beat[b] OBVIOUS
<1>3. old.phase = "reread" /\ UNCHANGED <<focus, serverVars, agent, request, edit, historyVars>>
  BY <1>2 DEF RereadKey
<1>4. UNCHANGED <<focus, devices, tokens, siteOf, secrets, keys, created, agent, request, edit, agreed>>
  BY <1>3 DEF serverVars, historyVars
<1>5. i \in Row /\ old \in BeatRow /\ old.device = i /\ i <= created BY <1>1, <1>2, <1>3, BeatOf
<1>6. PICK key \in Nat : key = devices[i].key BY <1>5, Parts, DeviceOf
<1>7. PICK q : q = [old EXCEPT !.phase = "answer", !.key = key, !.current = TRUE] OBVIOUS
<1>8. beat' = [beat EXCEPT ![b] = q]
  <2>1. beat \in [Beat -> BeatRow] BY Parts DEF BeatsOK
  <2> QED BY <1>1, <1>2, <1>6, <1>7, <2>1 DEF RereadKey, AuthoritativeKey
<1>9. q \in BeatRow /\ q.device = i /\ q.key = key
  BY <1>3, <1>5, <1>7 DEF BeatRow
<1>10. BeatsOK' BY <1>4, <1>5, <1>8, <1>9, Parts, BeatWritten
<1>11. DevicesOK' /\ Grows BY <1>4, Parts, DevicesStay, Same0
<1>12. AgentsOK' /\ agreed' \subseteq Machine BY <1>4, <1>11, Parts, AgentsStay DEF RestOK
<1>13. RegistryOK' BY <1>4, <1>10, <1>11, <1>12, OnlyBeat
<1> QED BY <1>4, <1>5, <1>6, <1>8, <1>9, <1>13

LEMMA AnswerHeartbeatOK ==
  ASSUME RegistryOK, NEW b \in Beat, AnswerHeartbeat(b)
  PROVE  RegistryOK' /\ UNCHANGED devices
<1>1. PICK q : q = beat[b] OBVIOUS
<1>2. /\ q.phase = "answer" /\ beat' = [beat EXCEPT ![b] = NoBeat]
      /\ UNCHANGED <<focus, devices, tokens, siteOf, secrets, keys, created, request, edit>>
  BY <1>1 DEF AnswerHeartbeat, serverVars
<1>3. q \in BeatRow /\ q.machine \in Machine /\ q.key \in Nat BY <1>1, <1>2, BeatOf
<1>4. PICK m \in Machine : m = q.machine BY <1>3
<1>5. DevicesOK' /\ Grows BY <1>2, Parts, DevicesStay, Same0
<1>6. BeatsOK' BY <1>2, Parts, BeatCleared
<1>7. AgentsOK'
  <2>1. PICK key \in Nat : agent' = [agent EXCEPT ![m].key = key]
    <3>1. agent[m].key \in Nat BY Parts DEF AgentsOK, AgentRow
    <3>2. PICK arrives \in BOOLEAN :
            agent' = [agent EXCEPT ![m].key = IF arrives THEN q.key ELSE @]
      BY <1>1, <1>4 DEF AnswerHeartbeat
    <3> QED BY <1>3, <3>1, <3>2
  <2>2. agent' \in [Machine -> AgentRow] /\ \A n \in Machine : agent'[n].device = agent[n].device
    BY <2>1, Parts DEF AgentsOK, AgentRow
  <2> QED BY <1>2, <2>2, Parts DEF AgentsOK
<1>8. agreed' \subseteq Machine
  <2>1. agreed' \subseteq agreed \cup {m} BY <1>1, <1>4 DEF AnswerHeartbeat
  <2> QED BY <2>1, Parts DEF RestOK
<1> QED BY <1>2, <1>5, <1>6, <1>7, <1>8, OnlyBeat

LEMMA FailHeartbeatOK ==
  ASSUME RegistryOK, NEW b \in Beat, FailHeartbeat(b)
  PROVE  RegistryOK' /\ UNCHANGED <<devices, agent, agreed>>
<1>1. /\ beat' = [beat EXCEPT ![b] = NoBeat]
      /\ UNCHANGED <<focus, devices, tokens, siteOf, secrets, keys, created, agent, request, edit, agreed>>
  BY DEF FailHeartbeat, serverVars
<1>2. DevicesOK' /\ Grows BY <1>1, Parts, DevicesStay, Same0
<1>3. BeatsOK' BY <1>1, Parts, BeatCleared
<1>4. AgentsOK' /\ agreed' \subseteq Machine BY <1>1, <1>2, Parts, AgentsStay DEF RestOK
<1> QED BY <1>1, <1>2, <1>3, <1>4, OnlyBeat

LEMMA SetKeyOK ==
  ASSUME RegistryOK, NEW i \in Row, Exists(i), SetKey(i), UNCHANGED <<secrets, created>>
  PROVE  /\ DevicesOK' /\ Grows /\ SameRows /\ BeatsOK' /\ agreed' \subseteq Machine
         /\ \A j \in Row \ {i} : devices'[j] = devices[j]
         /\ agreed' = {m \in agreed : agent[m].device # i}
         /\ \A b \in Beat : /\ beat'[b].phase = beat[b].phase /\ beat'[b].key = beat[b].key
                            /\ beat'[b].device = beat[b].device
                            /\ beat'[b].current => beat[b].current /\ beat[b].device # i
<1>1. /\ devices' = [devices EXCEPT ![i].key = keys + 1] /\ keys' = keys + 1
      /\ agreed' = {m \in agreed : agent[m].device # i}
      /\ beat' = [b \in Beat |-> [beat[b] EXCEPT !.current = @ /\ beat[b].device # i]]
  BY DEF SetKey
<1>2. keys \in Nat /\ keys' \in Nat /\ keys <= keys' BY <1>1, Parts DEF DevicesOK
<1>3. PICK row \in DeviceRow : row = devices[i] BY Parts, DeviceOf
<1>4. PICK new : new = [row EXCEPT !.key = keys + 1] OBVIOUS
<1>5. new \in DeviceRow /\ SameRow(new, row) /\ new.key = keys'
  BY <1>1, <1>2, <1>4 DEF DeviceRow, SameRow
<1>6. devices' = [devices EXCEPT ![i] = new] BY <1>1, <1>3, <1>4
<1>7. DevicesOK' /\ Grows /\ SameRows /\ \A j \in Row \ {i} : devices'[j] = devices[j]
  <2>1. new.key <= keys' BY <1>2, <1>5
  <2> QED BY <1>2, <1>3, <1>5, <1>6, <2>1, Parts, FieldWritten
<1>8. ASSUME NEW b \in Beat
      PROVE  /\ beat'[b] \in BeatRow
             /\ beat'[b].phase = beat[b].phase /\ beat'[b].key = beat[b].key
             /\ beat'[b].device = beat[b].device
             /\ beat'[b].current => beat[b].current /\ beat[b].device # i
  <2>1. PICK old : old = beat[b] OBVIOUS
  <2>2. PICK c \in BOOLEAN : c = (old.current /\ old.device # i) OBVIOUS
  <2>3. old \in BeatRow BY <2>1, BeatOf
  <2>4. beat'[b] = [old EXCEPT !.current = c] BY <1>1, <2>1, <2>2
  <2> QED BY <2>1, <2>2, <2>3, <2>4 DEF BeatRow
<1>9. beat' = [b \in Beat |-> beat'[b]] BY <1>1
<1>10. beat' \in [Beat -> BeatRow] BY <1>8, <1>9
<1>11. BeatsOK' BY <1>8, <1>10, Parts DEF BeatsOK
<1>12. agreed' \subseteq Machine BY <1>1, Parts DEF RestOK
<1> QED BY <1>1, <1>7, <1>8, <1>11, <1>12

LEMMA RevealKeyOK ==
  ASSUME RegistryOK, NEW e \in Editor, RevealKey(e)
  PROVE  /\ RegistryOK' /\ SameRows /\ UNCHANGED <<secrets, created, agent>>
         /\ \/ \E i \in Row : Exists(i) /\ SetKey(i)
            \/ UNCHANGED <<devices, agreed, beat>>
<1>1. PICK p : p = edit[e] OBVIOUS
<1>2. /\ p.kind = "key" /\ Finish(e)
      /\ UNCHANGED <<focus, tokens, siteOf, secrets, created, agent, request>>
      /\ \/ Exists(p.target) /\ SetKey(p.target)
         \/ UNCHANGED <<devices, keys, agreed, beat>>
  BY <1>1 DEF RevealKey, At
<1>3. p \in KeyEdit BY <1>1, <1>2, Parts, EditOf
<1>4. p.target \in Row BY <1>3 DEF KeyEdit
<1>5. EditsOK' BY <1>2, Parts, NoEditRow
<1>6. /\ DevicesOK' /\ Grows /\ SameRows /\ BeatsOK' /\ agreed' \subseteq Machine
  <2>1. CASE Exists(p.target) /\ SetKey(p.target) BY <1>2, <1>4, <2>1, SetKeyOK
  <2>2. CASE UNCHANGED <<devices, keys, agreed, beat>>
    <3>1. DevicesOK' /\ Grows BY <1>2, <2>2, Parts, DevicesStay, Same0
    <3> QED BY <2>2, <3>1, Parts, BeatsStay, RowsStay DEF RestOK
  <2> QED BY <1>2, <2>1, <2>2
<1>7. AgentsOK' /\ RequestsOK' BY <1>2, <1>6, Parts, AgentsStay, RequestsStay
<1>8. RestOK' BY <1>2, <1>6, Parts DEF RestOK
<1>9. RegistryOK' BY <1>5, <1>6, <1>7, <1>8 DEF RegistryOK
<1> QED BY <1>2, <1>4, <1>6, <1>9

LEMMA RegenerateKeyOK ==
  ASSUME RegistryOK, NEW i \in Row, RegenerateKey(i)
  PROVE  /\ RegistryOK' /\ SameRows /\ Exists(i) /\ SetKey(i)
         /\ UNCHANGED <<secrets, created, agent>>
<1>1. /\ Exists(i) /\ SetKey(i)
      /\ UNCHANGED <<focus, tokens, siteOf, secrets, created, agent, request, edit>>
  BY DEF RegenerateKey
<1>2. /\ DevicesOK' /\ Grows /\ SameRows /\ BeatsOK' /\ agreed' \subseteq Machine
  BY <1>1, SetKeyOK
<1>3. AgentsOK' /\ RequestsOK' /\ EditsOK' BY <1>1, <1>2, Parts, AgentsStay, RequestsStay, EditsStay
<1>4. RestOK' BY <1>1, <1>2, Parts DEF RestOK
<1>5. RegistryOK' BY <1>2, <1>3, <1>4 DEF RegistryOK
<1> QED BY <1>1, <1>2, <1>5

\* A job writes the age or the status of devices.
LEMMA JobRows ==
  ASSUME RegistryOK, UNCHANGED <<focus, tokens, siteOf, secrets, keys, created, agent, request, edit,
                                 beat, agreed>>,
         devices' = [i \in Row |-> devices'[i]],
         \A i \in Row : /\ devices'[i] \in DeviceRow /\ SameRow(devices'[i], devices[i])
                        /\ devices'[i].key = devices[i].key
                        /\ devices[i] = NoDevice => devices'[i] = NoDevice
  PROVE  RegistryOK' /\ SameRows
<1>1. devices' \in [Row -> DeviceRow] OBVIOUS
<1>2. SameRows BY DEF SameRows
<1>3. DevicesOK' BY <1>1, Parts DEF DevicesOK, SameRow
<1>4. Grows BY Parts, Same0
<1>5. AgentsOK' /\ BeatsOK' BY <1>4, Parts, AgentsStay, BeatsStay
<1>6. agreed' \subseteq Machine BY Parts DEF RestOK
<1>7. RegistryOK' BY <1>3, <1>4, <1>5, <1>6, OnlyBeat
<1> QED BY <1>2, <1>7

LEMMA TimePassesOK ==
  ASSUME RegistryOK, TimePasses
  PROVE  /\ RegistryOK' /\ SameRows /\ \A j \in Row : devices'[j].key = devices[j].key
         /\ UNCHANGED <<agent, agreed, beat>>
<1>1. devices' = [i \in Row |-> [devices[i] EXCEPT !.age = Younger(@ + 1, Threshold + 1)]]
  BY DEF TimePasses
<1>2. UNCHANGED <<focus, tokens, siteOf, secrets, keys, created, agent, request, edit, beat, agreed>>
  BY DEF TimePasses, historyVars
<1>3. ASSUME NEW i \in Row
      PROVE  /\ devices'[i] \in DeviceRow /\ SameRow(devices'[i], devices[i])
             /\ devices'[i].key = devices[i].key
             /\ devices[i] = NoDevice => devices'[i] = NoDevice
  <2>1. PICK row \in DeviceRow : row = devices[i] BY Parts, DeviceOf
  <2>2. row.age \in Minute BY DEF DeviceRow
  <2>3. PICK age : age = Younger(row.age + 1, Threshold + 1) OBVIOUS
  <2>4. age \in Minute BY <2>2, <2>3, Rows DEF Younger
  <2>5. devices'[i] = [row EXCEPT !.age = age] BY <1>1, <2>1, <2>3
  <2>6. devices'[i] \in DeviceRow /\ SameRow(devices'[i], row) /\ devices'[i].key = row.key
    BY <2>4, <2>5 DEF DeviceRow, SameRow
  <2>7. ASSUME row = NoDevice PROVE devices'[i] = NoDevice
    <3>1. row.age = Threshold + 1 BY <2>7, Blank
    <3>2. age = row.age BY <2>3, <3>1, Rows DEF Younger
    <3>3. [row EXCEPT !.age = row.age] = row BY DEF DeviceRow
    <3> QED BY <2>5, <2>7, <3>2, <3>3
  <2> QED BY <2>1, <2>6, <2>7
<1>4. devices' = [i \in Row |-> devices'[i]] BY <1>1
<1>5. RegistryOK' /\ SameRows BY <1>2, <1>3, <1>4, JobRows
<1> QED BY <1>2, <1>3, <1>5

LEMMA StatusCheckOK ==
  ASSUME RegistryOK, StatusCheck
  PROVE  /\ RegistryOK' /\ SameRows /\ \A j \in Row : devices'[j].key = devices[j].key
         /\ UNCHANGED <<agent, agreed, beat>>
<1>1. devices' = [i \in Row |-> IF Exists(i) /\ Silent(i)
                               THEN [devices[i] EXCEPT !.status = "OFFLINE"] ELSE devices[i]]
  BY DEF StatusCheck
<1>2. UNCHANGED <<focus, tokens, siteOf, secrets, keys, created, agent, request, edit, beat, agreed>>
  BY DEF StatusCheck, historyVars
<1>3. ASSUME NEW i \in Row
      PROVE  /\ devices'[i] \in DeviceRow /\ SameRow(devices'[i], devices[i])
             /\ devices'[i].key = devices[i].key
             /\ devices[i] = NoDevice => devices'[i] = NoDevice
  <2>1. PICK row \in DeviceRow : row = devices[i] BY Parts, DeviceOf
  <2>2. CASE devices'[i] = [row EXCEPT !.status = "OFFLINE"] /\ row # NoDevice
    BY <2>1, <2>2 DEF DeviceRow, SameRow, Status
  <2>3. CASE devices'[i] = row BY <2>1, <2>3 DEF SameRow
  <2>4. \/ devices'[i] = [row EXCEPT !.status = "OFFLINE"] /\ row # NoDevice
        \/ devices'[i] = row
    BY <1>1, <2>1 DEF Exists
  <2> QED BY <2>2, <2>3, <2>4
<1>4. devices' = [i \in Row |-> devices'[i]] BY <1>1
<1>5. RegistryOK' /\ SameRows BY <1>2, <1>3, <1>4, JobRows
<1> QED BY <1>2, <1>3, <1>5

LEMMA ScoreDeviceOK ==
  ASSUME RegistryOK, NEW i \in Row, ScoreDevice(i)
  PROVE  RegistryOK' /\ UNCHANGED <<devices, agent, agreed, beat>>
<1>1. UNCHANGED <<focus, devices, tokens, siteOf, secrets, keys, created, agent, request, edit,
                  beat, agreed>>
  BY DEF ScoreDevice, historyVars
<1>2. DevicesOK' /\ Grows BY <1>1, Parts, DevicesStay, Same0
<1>3. AgentsOK' /\ BeatsOK' /\ agreed' \subseteq Machine
  BY <1>1, <1>2, Parts, AgentsStay, BeatsStay DEF RestOK
<1>4. RegistryOK' BY <1>1, <1>2, <1>3, OnlyBeat
<1> QED BY <1>1, <1>4

LEMMA NothingOK == ASSUME RegistryOK, UNCHANGED vars PROVE RegistryOK'
<1>1. UNCHANGED <<focus, serverVars, agent, request, edit, beat, historyVars>> BY DEF vars
<1>2. EditsOK' BY <1>1, Parts, EditsStay
<1> QED BY <1>1, <1>2, OnlyEdit

\* Most steps leave who and where the devices are as it is, and the registrations are written by
\* their own steps.
RegistrationStep ==
  \E r \in Request : \/ \E m \in Machine, t \in Token : Register(r, m, t)
                     \/ Begin(r) \/ Abort(r) \/ Answered(r)
Quiet ==
  /\ SameRows /\ UNCHANGED <<siteOf, dirty, moved>>
  /\ request' = request \/ RegistrationStep
Kinds ==
  \/ \E r \in Request : Commit(r)
  \/ \E e \in Editor : WriteDevice(e) \/ WriteSite(e)
  \/ \E i \in Row : DeleteDevice(i)
  \/ Quiet

LEMMA RegistrationKinds == ASSUME RegistryOK, Registration PROVE RegistryOK' /\ Kinds
<1>1. ASSUME NEW r \in Request, NEW m \in Machine, NEW t \in Token, Register(r, m, t)
      PROVE  RegistryOK' /\ Quiet
  <2>1. UNCHANGED <<devices, siteOf, dirty, moved>> BY <1>1 DEF Register, serverVars, historyVars
  <2> QED BY <1>1, <2>1, RegisterOK, RowsStay DEF Quiet, RegistrationStep
<1>2. ASSUME NEW r \in Request, Begin(r) PROVE RegistryOK' /\ Quiet
  <2>1. UNCHANGED <<devices, siteOf, dirty, moved>> BY <1>2 DEF Begin, serverVars, historyVars
  <2> QED BY <1>2, <2>1, BeginOK, RowsStay DEF Quiet, RegistrationStep
<1>3. ASSUME NEW r \in Request, Abort(r) PROVE RegistryOK' /\ Quiet
  <2>1. UNCHANGED <<devices, siteOf, dirty, moved>> BY <1>3 DEF Abort, serverVars, historyVars
  <2> QED BY <1>3, <2>1, AbortOK, RowsStay DEF Quiet, RegistrationStep
<1>4. ASSUME NEW r \in Request, Answered(r) PROVE RegistryOK' /\ Quiet
  <2>1. UNCHANGED <<devices, siteOf, dirty, moved>> BY <1>4 DEF Answered, serverVars
  <2> QED BY <1>4, <2>1, AnsweredOK, RowsStay DEF Quiet, RegistrationStep
<1>5. ASSUME NEW r \in Request, Commit(r) PROVE RegistryOK' /\ Kinds
  BY <1>5, CommitOK DEF Kinds
<1> QED BY <1>1, <1>2, <1>3, <1>4, <1>5 DEF Registration, Kinds

LEMMA EditQuiet ==
  ASSUME UNCHANGED <<devices, siteOf, dirty, moved, request>>
  PROVE  Quiet
BY RowsStay DEF Quiet

LEMMA OperatorKinds == ASSUME RegistryOK, Operator PROVE RegistryOK' /\ Kinds
<1>1. ASSUME NEW e \in Editor, NEW t \in Token, RequestToken(e, t) PROVE RegistryOK' /\ Quiet
  <2>1. UNCHANGED <<devices, siteOf, dirty, moved, request>>
    BY <1>1 DEF RequestToken, serverVars, historyVars
  <2> QED BY <1>1, <2>1, RequestTokenOK, EditQuiet
<1>2. ASSUME NEW t \in Token, CreateCompatibilityToken(t) PROVE RegistryOK' /\ Quiet
  <2>1. UNCHANGED <<devices, siteOf, dirty, moved, request>>
    BY <1>2 DEF CreateCompatibilityToken, historyVars
  <2> QED BY <1>2, <2>1, CreateCompatibilityTokenOK, EditQuiet
<1>3. ASSUME NEW t \in Token, RevokeToken(t) PROVE RegistryOK' /\ Quiet
  <2>1. UNCHANGED <<devices, siteOf, dirty, moved, request>>
    BY <1>3 DEF RevokeToken, historyVars
  <2> QED BY <1>3, <2>1, RevokeTokenOK, EditQuiet
<1>4. ASSUME NEW e \in Editor, NEW i \in Row, ReadDevice(e, i) PROVE RegistryOK' /\ Quiet
  <2>1. UNCHANGED <<devices, siteOf, dirty, moved, request>>
    BY <1>4 DEF ReadDevice, serverVars, historyVars
  <2> QED BY <1>4, <2>1, ReadDeviceOK, EditQuiet
<1>5. ASSUME NEW e \in Editor, NEW i \in Row, ReadKey(e, i) PROVE RegistryOK' /\ Quiet
  <2>1. UNCHANGED <<devices, siteOf, dirty, moved, request>>
    BY <1>5 DEF ReadKey, serverVars, historyVars
  <2> QED BY <1>5, <2>1, ReadKeyOK, EditQuiet
<1>6. ASSUME NEW e \in Editor, NEW s \in Site, ReadSite(e, s) PROVE RegistryOK' /\ Quiet
  <2>1. UNCHANGED <<devices, siteOf, dirty, moved, request>>
    BY <1>6 DEF ReadSite, serverVars, historyVars
  <2> QED BY <1>6, <2>1, ReadSiteOK, EditQuiet
<1>7. ASSUME NEW e \in Editor, CreateToken(e) PROVE RegistryOK' /\ Quiet
  <2>1. UNCHANGED <<devices, siteOf, dirty, moved, request>>
    BY <1>7 DEF CreateToken, historyVars
  <2> QED BY <1>7, <2>1, CreateTokenOK, EditQuiet
<1>8. ASSUME NEW e \in Editor, CheckSite(e) PROVE RegistryOK' /\ Quiet
  <2>1. UNCHANGED <<devices, siteOf, dirty, moved, request>>
    BY <1>8 DEF CheckSite, serverVars, historyVars
  <2> QED BY <1>8, <2>1, CheckSiteOK, EditQuiet
<1>9. ASSUME NEW e \in Editor, CountDevices(e) PROVE RegistryOK' /\ Quiet
  <2>1. UNCHANGED <<devices, siteOf, dirty, moved, request>>
    BY <1>9 DEF CountDevices, serverVars, historyVars
  <2> QED BY <1>9, <2>1, CountDevicesOK, EditQuiet
<1>10. ASSUME NEW e \in Editor, WriteDevice(e) \/ WriteSite(e) PROVE RegistryOK' /\ Kinds
  BY <1>10, WriteDeviceOK, WriteSiteOK DEF Kinds
<1>11. ASSUME NEW e \in Editor, RevealKey(e) PROVE RegistryOK' /\ Quiet
  <2>1. UNCHANGED <<siteOf, dirty, moved, request>> BY <1>11 DEF RevealKey
  <2> QED BY <1>11, <2>1, RevealKeyOK DEF Quiet
<1>12. ASSUME NEW i \in Row, DeleteDevice(i) PROVE RegistryOK' /\ Kinds
  BY <1>12, DeleteDeviceOK DEF Kinds
<1>13. ASSUME NEW i \in Row, RegenerateKey(i) PROVE RegistryOK' /\ Quiet
  <2>1. UNCHANGED <<siteOf, dirty, moved, request>> BY <1>13 DEF RegenerateKey
  <2> QED BY <1>13, <2>1, RegenerateKeyOK DEF Quiet
<1>14. ASSUME NEW i \in Row, RequestHealth(i) PROVE RegistryOK' /\ Quiet
  <2>1. ScoreDevice(i) BY <1>14 DEF RequestHealth
  <2>2. UNCHANGED <<devices, siteOf, dirty, moved, request>> BY <2>1 DEF ScoreDevice, historyVars
  <2> QED BY <2>1, <2>2, ScoreDeviceOK, EditQuiet
<1>15. Quiet => Kinds BY DEF Kinds
<1> QED
  BY <1>1, <1>2, <1>3, <1>4, <1>5, <1>6, <1>7, <1>8, <1>9, <1>10, <1>11, <1>12, <1>13, <1>14, <1>15
  DEF Operator

LEMMA TelemetryKinds == ASSUME RegistryOK, Telemetry PROVE RegistryOK' /\ Kinds
<1>1. ASSUME NEW b \in Beat, NEW m \in Machine, Heartbeat(b, m) PROVE RegistryOK' /\ Quiet
  <2>1. UNCHANGED <<siteOf, dirty, moved, request>> BY <1>1 DEF Heartbeat, historyVars
  <2> QED BY <1>1, <2>1, HeartbeatOK DEF Quiet
<1>2. ASSUME NEW b \in Beat, UpdateDevice(b) PROVE RegistryOK' /\ Quiet
  <2>1. UNCHANGED <<siteOf, dirty, moved, request>> BY <1>2 DEF UpdateDevice
  <2> QED BY <1>2, <2>1, UpdateDeviceOK DEF Quiet
<1>3. ASSUME NEW b \in Beat, ProvisionKey(b) PROVE RegistryOK' /\ Quiet
  <2>1. UNCHANGED <<siteOf, dirty, moved, request>> BY <1>3 DEF ProvisionKey, historyVars
  <2> QED BY <1>3, <2>1, ProvisionKeyOK DEF Quiet
<1>4. ASSUME NEW b \in Beat, RereadKey(b) PROVE RegistryOK' /\ Quiet
  <2>1. UNCHANGED <<siteOf, dirty, moved, request>> BY <1>4 DEF RereadKey, serverVars, historyVars
  <2> QED BY <1>4, <2>1, RereadKeyOK, RowsStay DEF Quiet
<1>5. ASSUME NEW b \in Beat, AnswerHeartbeat(b) PROVE RegistryOK' /\ Quiet
  <2>1. UNCHANGED <<siteOf, dirty, moved, request>> BY <1>5 DEF AnswerHeartbeat, serverVars
  <2> QED BY <1>5, <2>1, AnswerHeartbeatOK, RowsStay DEF Quiet
<1>6. ASSUME NEW b \in Beat, FailHeartbeat(b) PROVE RegistryOK' /\ Quiet
  <2>1. UNCHANGED <<siteOf, dirty, moved, request>> BY <1>6 DEF FailHeartbeat, serverVars
  <2> QED BY <1>6, <2>1, FailHeartbeatOK, RowsStay DEF Quiet
<1> QED BY <1>1, <1>2, <1>3, <1>4, <1>5, <1>6 DEF Telemetry, Kinds

LEMMA JobKinds == ASSUME RegistryOK, Job PROVE RegistryOK' /\ Kinds
<1>1. CASE TimePasses
  <2>1. UNCHANGED <<siteOf, dirty, moved, request>> BY <1>1 DEF TimePasses, historyVars
  <2> QED BY <1>1, <2>1, TimePassesOK DEF Quiet, Kinds
<1>2. CASE StatusCheck
  <2>1. UNCHANGED <<siteOf, dirty, moved, request>> BY <1>2 DEF StatusCheck, historyVars
  <2> QED BY <1>2, <2>1, StatusCheckOK DEF Quiet, Kinds
<1>3. ASSUME NEW i \in Row, ScoreDevice(i) PROVE RegistryOK' /\ Kinds
  <2>1. UNCHANGED <<siteOf, dirty, moved, request>> BY <1>3 DEF ScoreDevice, historyVars
  <2> QED BY <1>3, <2>1, ScoreDeviceOK, RowsStay DEF Quiet, Kinds
<1> QED BY <1>1, <1>2, <1>3 DEF Job

LEMMA RegistryStep == ASSUME RegistryOK, [Next]_vars PROVE RegistryOK' /\ Kinds
<1>1. CASE UNCHANGED vars
  <2>1. UNCHANGED <<devices, siteOf, dirty, moved, request>> BY <1>1 DEF vars, serverVars, historyVars
  <2> QED BY <1>1, <2>1, NothingOK, EditQuiet DEF Kinds
<1>2. CASE Next BY <1>2, RegistrationKinds, OperatorKinds, TelemetryKinds, JobKinds DEF Next
<1> QED BY <1>1, <1>2

\* The device of an old release that there may be at the start.
OldDevice(c, m, secret, key, status) ==
  [NoDevice EXCEPT !.customer = c, !.hw = m, !.host = m, !.secret = secret, !.key = key,
                   !.status = status]

LEMMA FirstRow ==
  ASSUME NEW m \in Machine, NEW c \in Customer, NEW secret \in Nat, NEW key \in Nat,
         NEW status \in Status, NEW row, row = OldDevice(c, m, secret, key, status)
  PROVE  row \in DeviceRow /\ row.secret = secret /\ row.key = key
<1>1. PICK none \in DeviceRow : none = NoDevice BY Blank
<1>2. PICK half : half = [none EXCEPT !.customer = c, !.hw = m, !.host = m] OBVIOUS
<1>3. half \in DeviceRow BY <1>1, <1>2 DEF DeviceRow
<1>4. row = [none EXCEPT !.customer = c, !.hw = m, !.host = m, !.secret = secret,
                         !.key = key, !.status = status]
  BY <1>1 DEF OldDevice
<1>5. row = [half EXCEPT !.secret = secret, !.key = key, !.status = status] BY <1>2, <1>4
<1> QED BY <1>3, <1>5 DEF DeviceRow

LEMMA RegistryInit == ASSUME Init PROVE RegistryOK
<1> DEFINE m == CHOOSE n \in Machine : TRUE
           c == CHOOSE n \in Customer : TRUE
           key == IF On("tamper") THEN 0 ELSE 1
           old == focus.on \cap {"tamper", "presence", "health"} # {}
<1>1. m \in Machine /\ c \in Customer BY PopulationAssumption
<1>2. PICK status \in IF On("health") THEN Status ELSE {"OFFLINE"} :
        devices = [i \in Row |-> IF i = 1 /\ old
          THEN [NoDevice EXCEPT !.customer = c, !.hw = m, !.host = m, !.secret = 1, !.key = key,
                                !.status = status]
          ELSE NoDevice]
  BY DEF Init
<1>3. /\ focus \in Focus /\ siteOf = [s \in Site |-> c] /\ tokens = [t \in Token |-> NoToken]
      /\ agent = [n \in Machine |-> IF n = m /\ old
           THEN [device |-> 1, secret |-> 1, key |-> 0] ELSE NoAgent]
      /\ secrets = (IF old THEN 1 ELSE 0) /\ created = (IF old THEN 1 ELSE 0)
      /\ keys = (IF old THEN key ELSE 0)
      /\ request = [r \in Request |-> NoRequest] /\ edit = [e \in Editor |-> NoEdit]
      /\ beat = [b \in Beat |-> NoBeat] /\ agreed = {}
  BY DEF Init
<1>4. status \in Status BY DEF Status
<1>5. key \in {0, 1} OBVIOUS
<1>6. old \in BOOLEAN OBVIOUS
<1> DEFINE row == [NoDevice EXCEPT !.customer = c, !.hw = m, !.host = m, !.secret = 1, !.key = key,
                                   !.status = status]
<1>7. row \in DeviceRow /\ row.secret = 1 /\ row.key = key
  <2> HIDE DEF key, m, c
  <2>1. row = OldDevice(c, m, 1, key, status) BY DEF OldDevice
  <2> HIDE DEF row
  <2>2. key \in Nat BY <1>5
  <2> QED BY <1>1, <1>4, <2>1, <2>2, FirstRow
<1> HIDE DEF row, m, c, key, old
<1>8. /\ devices = [i \in Row |-> IF i = 1 /\ old THEN row ELSE NoDevice] BY <1>2 DEF row
<1>9. DevicesOK
  <2>1. devices \in [Row -> DeviceRow] BY <1>7, <1>8, Blank
  <2>2. secrets \in Nat /\ keys \in Nat /\ created \in 0..MaxRows
    BY <1>3, <1>5, Rows, BoundAssumption
  <2>3. ASSUME NEW i \in Row
        PROVE  /\ devices[i].secret <= secrets /\ devices[i].key <= keys
               /\ (devices[i].secret = 0 \/ i > created) => devices[i] = NoDevice
    <3>1. CASE i = 1 /\ old
      <4>1. devices[i] = row /\ secrets = 1 /\ keys = key /\ created = 1 BY <1>3, <1>8, <3>1
      <4> QED BY <1>5, <1>7, <3>1, <4>1
    <3>2. CASE ~(i = 1 /\ old)
      <4>1. devices[i] = NoDevice BY <1>8, <3>2
      <4> QED BY <2>2, <4>1, Blank
    <3> QED BY <3>1, <3>2
  <2> QED BY <2>1, <2>2, <2>3 DEF DevicesOK
<1>10. AgentsOK
  <2>1. 1 \in 0..MaxRows /\ 0 \in 0..MaxRows BY BoundAssumption
  <2>2. ASSUME NEW n \in Machine PROVE agent[n] \in AgentRow /\ agent[n].device <= created
    <3>1. CASE n = m /\ old
      <4>1. agent[n] = [device |-> 1, secret |-> 1, key |-> 0] /\ created = 1 BY <1>3, <3>1
      <4> QED BY <2>1, <4>1 DEF AgentRow
    <3>2. CASE ~(n = m /\ old)
      <4>1. agent[n] = NoAgent /\ created \in Nat BY <1>3, <3>2
      <4> QED BY <2>1, <4>1 DEF AgentRow, NoAgent
    <3> QED BY <3>1, <3>2
  <2>3. agent = [n \in Machine |-> agent[n]] BY <1>3
  <2> QED BY <2>2, <2>3 DEF AgentsOK
<1>11. created \in Nat BY <1>3
<1>12. RequestsOK BY <1>3, <1>11, Blank DEF RequestsOK
<1>13. BeatsOK BY <1>3, <1>11, Blank DEF BeatsOK
<1>14. EditsOK BY <1>3, Blank DEF EditsOK
<1>15. RestOK BY <1>1, <1>3, Blank DEF RestOK
<1> QED BY <1>9, <1>10, <1>12, <1>13, <1>14, <1>15 DEF RegistryOK

LEMMA RegistryTypes == ASSUME RegistryOK PROVE TypeOK
<1>1. ASSUME NEW i \in Row
      PROVE  /\ devices[i].customer \in Customer \cup {None} /\ devices[i].site \in Site \cup {None}
             /\ devices[i].status \in Status /\ devices[i].age \in Minute
             /\ devices[i].secret \in 0..secrets /\ devices[i].key \in 0..keys
  <2>1. /\ devices[i].secret <= secrets /\ devices[i].key <= keys /\ secrets \in Nat /\ keys \in Nat
    BY Parts DEF DevicesOK
  <2> QED BY <2>1, Parts, DeviceOf
<1>2. ASSUME NEW r \in Request
      PROVE  /\ request[r].phase \in {"idle", "begin", "commit", "reply"}
             /\ request[r].found \in Row \cup {0}
  <2>1. request[r].found \in 0..MaxRows BY Parts, RequestOf
  <2>2. request[r].found \in Row \cup {0} BY <2>1, Rows
  <2> QED BY <2>2, Parts, RequestOf DEF RequestRow
<1>3. ASSUME NEW e \in Editor PROVE edit[e].kind \in {"device", "site", "token", "key"}
  <2>1. edit[e] \in EditRow BY Parts DEF EditsOK
  <2>2. NoEdit.kind = "device" BY DEF NoEdit
  <2> QED BY <2>1, <2>2 DEF EditRow, DeviceEdit, SiteEdit, TokenEdit, KeyEdit
<1>4. ASSUME NEW b \in Beat
      PROVE  beat[b].phase \in {"idle", "update", "provision", "reread", "answer"}
  BY BeatOf DEF BeatRow
<1> QED BY <1>1, <1>2, <1>3, <1>4, Parts DEF TypeOK, RestOK
-----------------------------------------------------------------------------
(* The registry: the site of a device is one of its customer's              *)

LEMMA FirstDevices ==
  ASSUME Init, NEW i \in Row
  PROVE  /\ \E c, m, key, status : devices[i] \in {OldDevice(c, m, 1, key, status), NoDevice}
         /\ i # 1 => devices[i] = NoDevice
<1> DEFINE m == CHOOSE n \in Machine : TRUE
           c == CHOOSE n \in Customer : TRUE
           key == IF On("tamper") THEN 0 ELSE 1
           old == focus.on \cap {"tamper", "presence", "health"} # {}
<1>1. PICK status \in IF On("health") THEN Status ELSE {"OFFLINE"} :
        devices = [j \in Row |-> IF j = 1 /\ old
          THEN [NoDevice EXCEPT !.customer = c, !.hw = m, !.host = m, !.secret = 1, !.key = key,
                                !.status = status]
          ELSE NoDevice]
  BY DEF Init
<1>2. devices = [j \in Row |-> IF j = 1 /\ old THEN OldDevice(c, m, 1, key, status) ELSE NoDevice]
  BY <1>1 DEF OldDevice
<1> HIDE DEF m, c, key, old
<1> QED BY <1>2

LEMMA CommitSites ==
  ASSUME RegistryOK, SitesAgree, NEW r \in Request, Commit(r) PROVE SitesAgree'
<1>1. PICK i \in Row, new \in DeviceRow : Writes(r, i, new) BY CommitSummary
<1>2. PICK q : q = request[r] OBVIOUS
<1>3. /\ devices' = [devices EXCEPT ![i] = new]
      /\ \/ devices[i] = NoDevice
         \/ devices[i].customer = q.read.customer
      /\ new.customer = q.read.customer
      /\ new.site = Kept(q.read.site, devices[i].site)
      /\ dirty' = IF q.read.site # None /\ siteOf[q.read.site] # q.read.customer
                  THEN dirty \cup {i}
                  ELSE IF q.read.site # None THEN dirty \ {i} ELSE dirty
  BY <1>1, <1>2 DEF Writes
<1>4. siteOf' = siteOf BY DEF Commit
<1>5. devices \in [Row -> DeviceRow] BY Parts DEF DevicesOK
<1>6. devices'[i] = new /\ \A j \in Row \ {i} : devices'[j] = devices[j] BY <1>3, <1>5
<1>7. ASSUME NEW j \in Row, j \notin dirty', devices'[j].site # None
      PROVE  siteOf[devices'[j].site] = devices'[j].customer
  <2>1. CASE j # i
    <3>1. j \notin dirty BY <1>3, <1>7, <2>1
    <3> QED BY <1>6, <1>7, <2>1, <3>1 DEF SitesAgree
  <2>2. CASE j = i
    <3>1. CASE q.read.site # None
      <4>1. siteOf[q.read.site] = q.read.customer BY <1>3, <1>7, <2>2, <3>1
      <4>2. new.site = q.read.site BY <1>3, <3>1 DEF Kept
      <4> QED BY <1>3, <1>6, <2>2, <4>1, <4>2
    <3>2. CASE q.read.site = None
      <4>1. i \notin dirty /\ new.site = devices[i].site BY <1>3, <1>7, <2>2, <3>2 DEF Kept
      <4>2. devices[i].site # None BY <1>6, <1>7, <2>2, <4>1
      <4>3. devices[i].customer = q.read.customer BY <1>3, <4>2, Blank
      <4> QED BY <1>3, <1>6, <2>2, <4>1, <4>2, <4>3 DEF SitesAgree
    <3> QED BY <3>1, <3>2
  <2> QED BY <2>1, <2>2
<1> QED BY <1>4, <1>7 DEF SitesAgree

LEMMA WriteDeviceSites ==
  ASSUME RegistryOK, SitesAgree, NEW e \in Editor, WriteDevice(e) PROVE SitesAgree'
<1>1. PICK p : p = edit[e] OBVIOUS
<1>2. PICK i \in Row : i = p.target BY <1>1, WriteDeviceSummary
<1>3. siteOf' = siteOf BY DEF WriteDevice
<1>4. p.site \notin Site => p.site \in {None, Clear} BY <1>1, WriteDeviceSummary
<1>5. CASE devices' = devices /\ dirty' = dirty BY <1>3, <1>5 DEF SitesAgree
<1>6. CASE \E new \in DeviceRow : Edited(p, i, new)
  <2>1. PICK new \in DeviceRow : Edited(p, i, new) BY <1>6
  <2>2. PICK old : old = devices[i] OBVIOUS
  <2>3. /\ Exists(i) /\ devices' = [devices EXCEPT ![i] = new]
        /\ new.customer = Kept(p.customer, old.customer) /\ new.site = NewSite(p, old.site)
    BY <2>1, <2>2 DEF Edited
  <2> DEFINE stale == \/ old.customer # p.read.customer \/ old.site # p.read.site
                      \/ p.site \in Site /\ siteOf[p.site] # TargetCustomer(p)
  <2>4. dirty' = IF stale THEN dirty \cup {i}
                 ELSE IF p.site # None \/ TargetCustomer(p) # old.customer THEN dirty \ {i}
                 ELSE dirty
    BY <1>1, <1>2, <2>2, <2>3 DEF WriteDevice
  <2>5. devices \in [Row -> DeviceRow] BY Parts DEF DevicesOK
  <2>6. devices'[i] = new /\ \A j \in Row \ {i} : devices'[j] = devices[j] BY <2>3, <2>5
  <2>7. ASSUME NEW j \in Row, j \notin dirty', devices'[j].site # None
        PROVE  siteOf[devices'[j].site] = devices'[j].customer
    <3>1. CASE j # i
      <4>1. j \notin dirty BY <2>4, <2>7, <3>1
      <4> QED BY <2>6, <2>7, <3>1, <4>1 DEF SitesAgree
    <3>2. CASE j = i
      <4>1. new.site # None BY <2>6, <2>7, <3>2
      <4>2. ~stale BY <2>4, <2>7, <3>2
      <4>3. old.customer = p.read.customer /\ new.customer = TargetCustomer(p)
        BY <2>3, <4>2 DEF TargetCustomer
      <4>4. p.site \in Site => siteOf[p.site] = TargetCustomer(p) BY <4>2
      <4>5. CASE p.site # None
        <5>1. p.site # Clear BY <2>3, <4>1 DEF NewSite
        <5>2. new.site = p.site BY <2>3, <4>5, <5>1 DEF NewSite, Kept
        <5>3. p.site \in Site BY <1>4, <4>5, <5>1
        <5> QED BY <2>6, <3>2, <4>3, <4>4, <5>2, <5>3
      <4>6. CASE p.site = None
        <5>1. new.site = old.site /\ new.customer = old.customer
          BY <2>3, <4>1, <4>3, <4>6 DEF NewSite, Kept
        <5>2. j \notin dirty BY <2>4, <2>7, <4>2, <4>3, <4>6, <5>1
        <5> QED BY <2>2, <2>6, <3>2, <4>1, <5>1, <5>2 DEF SitesAgree
      <4> QED BY <4>5, <4>6
    <3> QED BY <3>1, <3>2
  <2> QED BY <1>3, <2>7 DEF SitesAgree
<1> QED BY <1>1, <1>2, <1>5, <1>6, WriteDeviceSummary

LEMMA WriteSiteSites ==
  ASSUME RegistryOK, SitesAgree, NEW e \in Editor, WriteSite(e) PROVE SitesAgree'
<1>1. PICK p : p = edit[e] OBVIOUS
<1>2. p.kind = "site" /\ p.phase = "write" BY <1>1 DEF WriteSite, At
<1>3. p \in SiteEdit BY <1>1, <1>2, Parts, EditOf
<1>4. PICK s \in Site : s = p.target BY <1>3 DEF SiteEdit
<1>5. p.customer = p.read \/ p.attached = {} BY <1>2, <1>3 DEF SiteEdit
<1> DEFINE arrived == IF siteOf[s] # p.read THEN Attached(s) ELSE Attached(s) \ p.attached
<1>6. /\ siteOf' = [siteOf EXCEPT ![s] = p.customer] /\ devices' = devices
      /\ dirty' = IF p.customer = siteOf[s] THEN dirty ELSE dirty \cup arrived
  BY <1>1, <1>4 DEF WriteSite
<1>7. ASSUME NEW j \in Row, j \notin dirty', devices[j].site # None
      PROVE  siteOf'[devices[j].site] = devices[j].customer
  <2>1. j \notin dirty BY <1>6, <1>7
  <2>2. siteOf[devices[j].site] = devices[j].customer BY <1>7, <2>1 DEF SitesAgree
  <2>3. siteOf \in [Site -> Customer] BY Parts DEF RestOK
  <2>4. devices[j].site \in Site BY <1>7, Parts, DeviceOf
  <2>5. CASE devices[j].site # s BY <1>6, <2>2, <2>3, <2>4, <2>5
  <2>6. CASE devices[j].site = s
    <3>1. CASE p.customer = siteOf[s] BY <1>6, <2>2, <2>3, <2>6, <3>1
    <3>2. CASE p.customer # siteOf[s]
      <4>1. Exists(j) BY <1>7, Parts, Blank DEF Exists
      <4>2. j \in Attached(s) BY <2>6, <4>1 DEF Attached, Enrolled
      <4>3. j \in arrived BY <1>5, <3>2, <4>2
      <4> QED BY <1>6, <1>7, <3>2, <4>3
    <3> QED BY <3>1, <3>2
  <2> QED BY <2>5, <2>6
<1> QED BY <1>6, <1>7 DEF SitesAgree

LEMMA SitesStep == ASSUME RegistryOK, SitesAgree, [Next]_vars PROVE SitesAgree'
<1>1. CASE \E r \in Request : Commit(r) BY <1>1, CommitSites
<1>2. CASE \E e \in Editor : WriteDevice(e) \/ WriteSite(e)
  BY <1>2, WriteDeviceSites, WriteSiteSites
<1>3. ASSUME NEW i \in Row, DeleteDevice(i) PROVE SitesAgree'
  <2>1. siteOf' = siteOf /\ dirty' = dirty \ {i} BY <1>3 DEF DeleteDevice
  <2>2. devices'[i] = NoDevice /\ \A j \in Row \ {i} : devices'[j] = devices[j]
    BY <1>3, DeleteDeviceOK
  <2> QED BY <2>1, <2>2, Blank DEF SitesAgree
<1>4. CASE Quiet BY <1>4 DEF Quiet, SameRows, SameRow, SitesAgree
<1> QED BY <1>1, <1>2, <1>3, <1>4, RegistryStep DEF Kinds

\* The control center takes the steps of the registry, or leaves it alone.
LEMMA ControlSteps == ASSUME [ControlNext]_controlVars PROVE [Next]_vars
BY DEF ControlNext, controlVars

\* Every row, request, edit and heartbeat of the registry is well formed in every state.
THEOREM RegistryConsistent == ControlSpec => [](RegistryOK /\ TypeOK)
<1>1. ControlInit => RegistryOK BY RegistryInit DEF ControlInit
<1>2. RegistryOK /\ [ControlNext]_controlVars => RegistryOK' BY ControlSteps, RegistryStep
<1>3. RegistryOK => TypeOK BY RegistryTypes
<1> QED BY <1>1, <1>2, <1>3, PTL DEF ControlSpec

\* The site of a device is one of its customer's, whatever the operators and registrations do in
\* whatever order, unless one of them wrote on facts that had changed under it: the checks of
\* createDevice, updateDevice and updateSite suffice.
THEOREM SitesOfCustomers == ControlSpec => []SiteOfCustomer
<1>1. ControlInit => RegistryOK /\ SitesAgree
  <2>1. ASSUME ControlInit PROVE SitesAgree
    <3>1. Init BY <2>1 DEF ControlInit
    <3>2. ASSUME NEW i \in Row PROVE devices[i].site = None
      <4>1. PICK c, m, key, status : devices[i] \in {OldDevice(c, m, 1, key, status), NoDevice}
        BY <3>1, FirstDevices
      <4>2. OldDevice(c, m, 1, key, status).site = NoDevice.site BY DEF OldDevice, NoDevice
      <4> QED BY <4>1, <4>2, Blank
    <3> QED BY <3>2 DEF SitesAgree
  <2> QED BY <2>1, RegistryInit DEF ControlInit
<1>2. RegistryOK /\ SitesAgree /\ [ControlNext]_controlVars => (RegistryOK /\ SitesAgree)'
  BY ControlSteps, RegistryStep, SitesStep
<1>3. SitesAgree => SiteOfCustomer BY DEF SitesAgree, SiteOfCustomer, Enrolled
<1> QED BY <1>1, <1>2, <1>3, PTL DEF ControlSpec

-----------------------------------------------------------------------------
(* The registry: the key of an agent is the one of its device               *)

\* A step that changes no key there is.
LEMMA KeysKept ==
  ASSUME RegistryOK, KeysAgree,
         \A i \in Row : Exists(i) =>
           Exists(i)' /\ (devices[i].key # 0 => devices'[i].key = devices[i].key),
         \A i \in Row : i <= created /\ Exists(i)' => Exists(i),
         \A m \in agreed' : /\ m \in agreed /\ agent'[m].device = agent[m].device
                            /\ agent'[m].key = agent[m].key,
         \A b \in Beat : \/ beat'[b] = beat[b] \/ beat'[b].phase # "answer"
                         \/ beat'[b].key = devices'[beat'[b].device].key
  PROVE  KeysAgree'
<1>1. ASSUME NEW m \in agreed'
      PROVE  /\ Exists(agent[m].device)' /\ agent'[m].device = agent[m].device
             /\ agent'[m].key = agent[m].key /\ agent[m].key # 0
             /\ agent[m].key = devices'[agent[m].device].key
  <2>1. /\ m \in agreed /\ agent'[m].device = agent[m].device /\ agent'[m].key = agent[m].key
    OBVIOUS
  <2>2. /\ Exists(agent[m].device) /\ agent[m].key # 0
        /\ agent[m].key = devices[agent[m].device].key
    BY <2>1 DEF KeysAgree
  <2>3. agent[m].device \in Row BY <2>2 DEF Exists
  <2>4. PICK i \in Row : i = agent[m].device BY <2>3
  <2>5. Exists(i)' /\ devices'[i].key = devices[i].key BY <2>2, <2>4
  <2>6. Exists(agent[m].device)' <=> Exists(i)'
    BY <2>1, <2>4 DEF Exists
  <2> QED BY <2>1, <2>2, <2>4, <2>5, <2>6
<1>2. ASSUME NEW b \in Beat, beat'[b].phase = "answer", beat'[b].current, beat'[b].key # 0,
             Exists(beat[b].device)', beat'[b].device \in Row
      PROVE  beat'[b].key = devices'[beat'[b].device].key
  <2>1. CASE beat'[b].key = devices'[beat'[b].device].key BY <2>1
  <2>2. CASE beat'[b] = beat[b]
    <3>1. PICK i \in Row : i = beat[b].device BY <1>2, <2>2
    <3>2. Exists(i)' BY <1>2, <2>2, <3>1 DEF Exists
    <3>3. i <= created BY <3>1, BeatOf
    <3>4. Exists(i) BY <3>2, <3>3
    <3>5. beat[b].key = devices[i].key BY <1>2, <2>2, <3>1, <3>4 DEF KeysAgree
    <3> QED BY <1>2, <2>2, <3>1, <3>4, <3>5
  <2> QED BY <1>2, <2>1, <2>2
<1> QED BY <1>1, <1>2 DEF KeysAgree, Exists

\* A step that sets the key of one device, or deletes it.
LEMMA KeysSet ==
  ASSUME RegistryOK, KeysAgree, NEW i \in Row, agent' = agent,
         agreed' = {m \in agreed : agent[m].device # i},
         \A j \in Row \ {i} : devices'[j] = devices[j],
         \A b \in Beat : /\ beat'[b].phase = beat[b].phase /\ beat'[b].key = beat[b].key
                         /\ beat'[b].device = beat[b].device
                         /\ beat'[b].current => beat[b].current,
         devices'[i] = NoDevice \/ \A b \in Beat : beat'[b].current => beat[b].device # i
  PROVE  KeysAgree'
<1>1. ASSUME NEW m \in agreed'
      PROVE  /\ agent[m].device \in Row /\ devices'[agent[m].device] # NoDevice
             /\ agent[m].key # 0 /\ agent[m].key = devices'[agent[m].device].key
  BY DEF KeysAgree, Exists
<1>2. ASSUME NEW b \in Beat, beat'[b].phase = "answer", beat'[b].current, beat'[b].key # 0,
             beat'[b].device \in Row, devices'[beat'[b].device] # NoDevice
      PROVE  beat'[b].key = devices'[beat'[b].device].key
  <2>1. beat[b].device # i /\ beat[b].device \in Row BY <1>2
  <2>2. devices'[beat[b].device] = devices[beat[b].device] BY <2>1
  <2>3. Exists(beat[b].device) BY <1>2, <2>1, <2>2 DEF Exists
  <2> QED BY <1>2, <2>2, <2>3 DEF KeysAgree
<1> QED BY <1>1, <1>2 DEF KeysAgree, Exists

LEMMA KeysRest ==
  ASSUME KeysAgree, UNCHANGED <<devices, agent, agreed, beat>> PROVE KeysAgree'
BY DEF KeysAgree, Exists

LEMMA RegistrationKeys == ASSUME RegistryOK, KeysAgree, Registration PROVE KeysAgree'
<1>1. ASSUME NEW r \in Request, NEW m \in Machine, NEW t \in Token, Register(r, m, t)
      PROVE  KeysAgree'
  BY <1>1, KeysRest DEF Register, serverVars, historyVars
<1>2. ASSUME NEW r \in Request, Begin(r) PROVE KeysAgree'
  BY <1>2, KeysRest DEF Begin, serverVars, historyVars
<1>3. ASSUME NEW r \in Request, Abort(r) PROVE KeysAgree'
  BY <1>3, KeysRest DEF Abort, serverVars, historyVars
<1>4. ASSUME NEW r \in Request, Answered(r) PROVE KeysAgree'
  <2>1. PICK q : q = request[r] OBVIOUS
  <2>2. UNCHANGED <<devices, beat>> BY <1>4 DEF Answered, serverVars
  <2>3. q.phase = "reply"
        /\ \/ /\ agent' = [agent EXCEPT ![q.machine].device = q.found,
                                        ![q.machine].secret = q.secret]
              /\ agreed' = agreed \ {q.machine}
           \/ UNCHANGED <<agent, agreed>>
    BY <1>4, <2>1 DEF Answered
  <2>4. agreed \subseteq Machine /\ agent \in [Machine -> AgentRow] BY Parts DEF RestOK, AgentsOK
  <2>5. \A m \in agreed' : m \in agreed /\ agent'[m] = agent[m] BY <2>3, <2>4
  <2>6. \A i \in Row : Exists(i)' <=> Exists(i) BY <2>2 DEF Exists
  <2> QED BY <2>2, <2>5, <2>6, KeysKept
<1>5. ASSUME NEW r \in Request, Commit(r) PROVE KeysAgree'
  <2>1. PICK i \in Row, new \in DeviceRow : Writes(r, i, new) BY <1>5, CommitSummary
  <2>2. /\ devices' = [devices EXCEPT ![i] = new]
        /\ \/ i = created + 1 /\ devices[i] = NoDevice
           \/ Exists(i)
        /\ new.secret = secrets + 1
        /\ new.key = IF devices[i].key = 0 THEN keys + 1 ELSE devices[i].key
    BY <2>1 DEF Writes
  <2>3. UNCHANGED <<agent, agreed, beat>> BY <1>5 DEF Commit
  <2>4. devices \in [Row -> DeviceRow] /\ secrets \in Nat /\ created \in Nat /\ i \in Nat
    BY Parts, Rows DEF DevicesOK
  <2>5. devices'[i] = new /\ \A j \in Row \ {i} : devices'[j] = devices[j] BY <2>2, <2>4
  <2>6. new # NoDevice BY <2>2, <2>4, Blank
  <2>7. \A j \in Row : Exists(j) =>
           Exists(j)' /\ (devices[j].key # 0 => devices'[j].key = devices[j].key)
    BY <2>2, <2>5, <2>6 DEF Exists
  <2>8. \A j \in Row : j <= created /\ Exists(j)' => Exists(j)
    <3>1. i <= created => Exists(i) BY <2>2, <2>4
    <3> QED BY <2>5, <3>1 DEF Exists
  <2> QED BY <2>3, <2>7, <2>8, KeysKept
<1> QED BY <1>1, <1>2, <1>3, <1>4, <1>5 DEF Registration

\* A step that leaves the rows and their keys, except that it may give one a first key.
LEMMA KeysGiven ==
  ASSUME RegistryOK, RegistryOK', KeysAgree, SameRows, UNCHANGED <<agent, agreed>>,
         \A j \in Row : devices[j].key # 0 => devices'[j].key = devices[j].key,
         \A b \in Beat : \/ beat'[b] = beat[b] \/ beat'[b].phase # "answer"
                         \/ beat'[b].key = devices'[beat'[b].device].key
  PROVE  KeysAgree'
<1>1. DevicesOK /\ DevicesOK' BY Parts DEF RegistryOK
<1>2. \A i : Exists(i)' <=> Exists(i) BY <1>1, SameExist
<1> QED BY <1>2, KeysKept

LEMMA OperatorKeys == ASSUME RegistryOK, RegistryOK', KeysAgree, Operator PROVE KeysAgree'
<1>1. ASSUME NEW e \in Editor, NEW t \in Token, RequestToken(e, t) PROVE KeysAgree'
  BY <1>1, KeysRest DEF RequestToken, serverVars, historyVars
<1>2. ASSUME NEW t \in Token, CreateCompatibilityToken(t) PROVE KeysAgree'
  BY <1>2, KeysRest DEF CreateCompatibilityToken, historyVars
<1>3. ASSUME NEW t \in Token, RevokeToken(t) PROVE KeysAgree'
  BY <1>3, KeysRest DEF RevokeToken, historyVars
<1>4. ASSUME NEW e \in Editor, NEW i \in Row, ReadDevice(e, i) PROVE KeysAgree'
  BY <1>4, KeysRest DEF ReadDevice, serverVars, historyVars
<1>5. ASSUME NEW e \in Editor, NEW i \in Row, ReadKey(e, i) PROVE KeysAgree'
  BY <1>5, KeysRest DEF ReadKey, serverVars, historyVars
<1>6. ASSUME NEW e \in Editor, NEW s \in Site, ReadSite(e, s) PROVE KeysAgree'
  BY <1>6, KeysRest DEF ReadSite, serverVars, historyVars
<1>7. ASSUME NEW e \in Editor, CreateToken(e) PROVE KeysAgree'
  BY <1>7, KeysRest DEF CreateToken, historyVars
<1>8. ASSUME NEW e \in Editor, CheckSite(e) PROVE KeysAgree'
  BY <1>8, KeysRest DEF CheckSite, serverVars, historyVars
<1>9. ASSUME NEW e \in Editor, CountDevices(e) PROVE KeysAgree'
  BY <1>9, KeysRest DEF CountDevices, serverVars, historyVars
<1>10. ASSUME NEW e \in Editor, WriteSite(e) PROVE KeysAgree'
  BY <1>10, KeysRest DEF WriteSite, historyVars
<1>11. ASSUME NEW e \in Editor, WriteDevice(e) PROVE KeysAgree'
  <2>1. UNCHANGED <<agent, agreed, beat>> BY <1>11 DEF WriteDevice
  <2>2. CASE devices' = devices BY <2>1, <2>2, KeysRest
  <2>3. CASE \E new \in DeviceRow : Edited(edit[e], edit[e].target, new)
    <3>1. PICK i \in Row, new \in DeviceRow : Edited(edit[e], i, new)
      BY <1>11, <2>3, WriteDeviceSummary
    <3>2. /\ Exists(i) /\ devices' = [devices EXCEPT ![i] = new]
          /\ new.secret = devices[i].secret /\ new.key = devices[i].key
      BY <3>1 DEF Edited
    <3>3. devices \in [Row -> DeviceRow] BY Parts DEF DevicesOK
    <3>4. devices'[i] = new /\ \A j \in Row \ {i} : devices'[j] = devices[j] BY <3>2, <3>3
    <3>5. new # NoDevice BY <3>2, Parts, DeviceOf, Blank
    <3>6. \A j \in Row : devices'[j].key = devices[j].key BY <3>2, <3>4
    <3>7. \A j \in Row : Exists(j)' <=> Exists(j) BY <3>2, <3>4, <3>5 DEF Exists
    <3> QED BY <2>1, <3>6, <3>7, KeysKept
  <2> QED BY <1>11, <2>2, <2>3, WriteDeviceSummary
<1>12. ASSUME NEW i \in Row, DeleteDevice(i) PROVE KeysAgree'
  <2>1. agent' = agent /\ beat' = beat /\ agreed' = {m \in agreed : agent[m].device # i}
    BY <1>12 DEF DeleteDevice
  <2>2. devices'[i] = NoDevice /\ \A j \in Row \ {i} : devices'[j] = devices[j]
    BY <1>12, DeleteDeviceOK
  <2> QED BY <2>1, <2>2, KeysSet
<1>13. ASSUME NEW i \in Row, Exists(i), SetKey(i), UNCHANGED <<secrets, created, agent>>
       PROVE  KeysAgree'
  BY <1>13, SetKeyOK, KeysSet
<1>14. ASSUME NEW e \in Editor, RevealKey(e) PROVE KeysAgree'
  <2>1. CASE UNCHANGED <<devices, agreed, beat>> BY <1>14, <2>1, RevealKeyOK, KeysRest
  <2>2. CASE \E i \in Row : Exists(i) /\ SetKey(i) BY <1>13, <1>14, <2>2, RevealKeyOK
  <2> QED BY <1>14, <2>1, <2>2, RevealKeyOK
<1>15. ASSUME NEW i \in Row, RegenerateKey(i) PROVE KeysAgree' BY <1>13, <1>15, RegenerateKeyOK
<1>16. ASSUME NEW i \in Row, RequestHealth(i) PROVE KeysAgree'
  BY <1>16, ScoreDeviceOK, KeysRest DEF RequestHealth
<1> QED
  BY <1>1, <1>2, <1>3, <1>4, <1>5, <1>6, <1>7, <1>8, <1>9, <1>10, <1>11, <1>12, <1>14, <1>15, <1>16
  DEF Operator

LEMMA TelemetryKeys == ASSUME RegistryOK, RegistryOK', KeysAgree, Telemetry PROVE KeysAgree'
<1>1. beat \in [Beat -> BeatRow] BY Parts DEF BeatsOK
<1>2. ASSUME NEW b \in Beat, NEW m \in Machine, Heartbeat(b, m) PROVE KeysAgree'
  <2>1. PICK q : beat' = [beat EXCEPT ![b] = q] /\ q.phase = "update" BY <1>2, HeartbeatOK
  <2>2. \A c \in Beat : beat'[c] = beat[c] \/ beat'[c].phase # "answer" BY <1>1, <2>1
  <2> QED BY <1>2, <2>2, HeartbeatOK, KeysGiven
<1>3. ASSUME NEW b \in Beat, UpdateDevice(b) PROVE KeysAgree'
  <2>1. PICK q : /\ beat' = [beat EXCEPT ![b] = q]
                 /\ \/ q.phase # "answer"
                    \/ q.device \in Row /\ q.key = devices[q.device].key
    BY <1>3, UpdateDeviceOK
  <2>2. \A j \in Row : devices'[j].key = devices[j].key BY <1>3, UpdateDeviceOK
  <2>3. \A c \in Beat : \/ beat'[c] = beat[c] \/ beat'[c].phase # "answer"
                        \/ beat'[c].key = devices'[beat'[c].device].key
    BY <1>1, <2>1, <2>2
  <2> QED BY <1>3, <2>2, <2>3, UpdateDeviceOK, KeysGiven
<1>4. ASSUME NEW b \in Beat, ProvisionKey(b) PROVE KeysAgree'
  <2>1. PICK q : beat' = [beat EXCEPT ![b] = q] /\ q.phase = "reread" BY <1>4, ProvisionKeyOK
  <2>2. \A c \in Beat : beat'[c] = beat[c] \/ beat'[c].phase # "answer" BY <1>1, <2>1
  <2> QED BY <1>4, <2>2, ProvisionKeyOK, KeysGiven
<1>5. ASSUME NEW b \in Beat, RereadKey(b) PROVE KeysAgree'
  <2>1. PICK q : /\ beat' = [beat EXCEPT ![b] = q]
                 /\ q.device \in Row /\ q.key = devices[q.device].key
    BY <1>5, RereadKeyOK
  <2>2. UNCHANGED <<devices, agent, agreed>> BY <1>5, RereadKeyOK
  <2>3. \A c \in Beat : \/ beat'[c] = beat[c]
                        \/ beat'[c].key = devices'[beat'[c].device].key
    BY <1>1, <2>1, <2>2
  <2> QED BY <2>2, <2>3, RowsStay, KeysGiven
<1>6. ASSUME NEW b \in Beat, AnswerHeartbeat(b) PROVE KeysAgree'
  <2>1. PICK q : q = beat[b] OBVIOUS
  <2>2. PICK n : n = q.machine OBVIOUS
  <2> DEFINE arrives == agent[n].device = q.device /\ q.key # 0
  <2>3. /\ q.phase = "answer" /\ beat' = [beat EXCEPT ![b] = NoBeat] /\ devices' = devices
        /\ agent' = [agent EXCEPT ![n].key = IF arrives THEN q.key ELSE @]
        /\ agreed' = IF ~arrives THEN agreed
                     ELSE IF q.current /\ Exists(q.device) THEN agreed \cup {n}
                     ELSE agreed \ {n}
    BY <1>6, <2>1, <2>2 DEF AnswerHeartbeat, serverVars
  <2>4. agreed \subseteq Machine /\ agent \in [Machine -> AgentRow] BY Parts DEF RestOK, AgentsOK
  <2>5. n \in Machine BY <2>1, <2>2, <2>3, BeatOf
  <2>6. \A i : Exists(i)' <=> Exists(i) BY <2>3 DEF Exists
  <2>7. \A c \in Beat : beat'[c] = beat[c] \/ beat'[c].phase # "answer" BY <1>1, <2>3, Blank
  <2>8. CASE ~arrives
    <3>1. agreed' = agreed BY <2>3, <2>8
    <3>2. \A m \in Machine : agent'[m] = agent[m] BY <2>3, <2>4, <2>8 DEF AgentRow
    <3> QED BY <2>3, <2>4, <2>6, <2>7, <3>1, <3>2, KeysKept
  <2>9. CASE arrives /\ ~(q.current /\ Exists(q.device))
    <3>1. agreed' = agreed \ {n} BY <2>3, <2>9
    <3>2. \A m \in Machine \ {n} : agent'[m] = agent[m] BY <2>3, <2>4
    <3> QED BY <2>3, <2>4, <2>6, <2>7, <3>1, <3>2, KeysKept
  <2>10. CASE arrives /\ q.current /\ Exists(q.device)
    <3>1. agreed' = agreed \cup {n} BY <2>3, <2>10
    <3>2. \A m \in Machine \ {n} : agent'[m] = agent[m] BY <2>3, <2>4
    <3>3. agent'[n].device = q.device /\ agent'[n].key = q.key
      BY <2>3, <2>4, <2>5, <2>10 DEF AgentRow
    <3>4. q.key = devices[q.device].key BY <2>1, <2>3, <2>10 DEF KeysAgree
    <3>5. ASSUME NEW m \in agreed'
          PROVE  /\ Exists(agent'[m].device) /\ agent'[m].key # 0
                 /\ agent'[m].key = devices[agent'[m].device].key
      <4>1. CASE m = n BY <2>10, <3>3, <3>4, <4>1
      <4>2. CASE m # n
        <5>1. m \in agreed /\ agent'[m] = agent[m] BY <2>4, <3>1, <3>2, <4>2
        <5> QED BY <5>1 DEF KeysAgree
      <4> QED BY <4>1, <4>2
    <3> QED BY <2>3, <2>7, <3>5 DEF KeysAgree, Exists
  <2> QED BY <2>8, <2>9, <2>10
<1>7. ASSUME NEW b \in Beat, FailHeartbeat(b) PROVE KeysAgree'
  <2>1. beat' = [beat EXCEPT ![b] = NoBeat] BY <1>7 DEF FailHeartbeat
  <2>2. \A c \in Beat : beat'[c] = beat[c] \/ beat'[c].phase # "answer" BY <1>1, <2>1, Blank
  <2>3. UNCHANGED <<devices, agent, agreed>> BY <1>7, FailHeartbeatOK
  <2> QED BY <2>2, <2>3, RowsStay, KeysGiven
<1> QED BY <1>2, <1>3, <1>4, <1>5, <1>6, <1>7 DEF Telemetry

LEMMA KeysStep == ASSUME RegistryOK, KeysAgree, [Next]_vars PROVE KeysAgree'
<1>1. RegistryOK' BY RegistryStep
<1>2. CASE UNCHANGED vars BY <1>2, KeysRest DEF vars, serverVars, historyVars
<1>3. CASE Registration BY <1>3, RegistrationKeys
<1>4. CASE Operator BY <1>1, <1>4, OperatorKeys
<1>5. CASE Telemetry BY <1>1, <1>5, TelemetryKeys
<1>6. CASE Job
  <2>1. CASE TimePasses BY <1>1, <2>1, TimePassesOK, KeysGiven
  <2>2. CASE StatusCheck BY <1>1, <2>2, StatusCheckOK, KeysGiven
  <2>3. CASE \E i \in Row : ScoreDevice(i) BY <2>3, ScoreDeviceOK, KeysRest
  <2> QED BY <1>6, <2>1, <2>2, <2>3 DEF Job
<1> QED BY <1>2, <1>3, <1>4, <1>5, <1>6 DEF Next

\* The key that an agent took from a heartbeat is the one the operators are shown, however many
\* heartbeats provision, reread and answer at once: the conditional update of the key and the
\* read after it suffice.
THEOREM KeysAgreed == ControlSpec => []TamperKeyAgrees
<1>1. ControlInit => RegistryOK /\ KeysAgree
  <2>1. ASSUME ControlInit PROVE KeysAgree
    <3>1. agreed = {} /\ beat = [b \in Beat |-> NoBeat] BY <2>1 DEF ControlInit, Init
    <3> QED BY <3>1, Blank DEF KeysAgree
  <2> QED BY <2>1, RegistryInit DEF ControlInit
<1>2. RegistryOK /\ KeysAgree /\ [ControlNext]_controlVars => (RegistryOK /\ KeysAgree)'
  BY ControlSteps, RegistryStep, KeysStep
<1>3. KeysAgree => TamperKeyAgrees BY DEF KeysAgree, TamperKeyAgrees
<1> QED BY <1>1, <1>2, <1>3, PTL DEF ControlSpec

-----------------------------------------------------------------------------
(* The registry: no machine is enrolled twice with a customer               *)

Apart ==
  \A i, j \in Enrolled \ moved :
    (devices[i].hw # None /\ devices[i].hw = devices[j].hw
      /\ devices[i].customer = devices[j].customer) => i = j

LEMMA EnrolledFinite ==
  IsFiniteSet(Enrolled) /\ Cardinality(Enrolled) \in Nat /\ Enrolled \subseteq Row
<1>1. Enrolled \subseteq Row BY DEF Enrolled
<1> QED BY <1>1, Rows, FS_Subset, FS_CardinalityType

LEMMA EnrolledFiniteNext ==
  IsFiniteSet(Enrolled') /\ Cardinality(Enrolled') \in Nat /\ Enrolled' \subseteq Row
<1>1. Enrolled' \subseteq Row BY DEF Enrolled
<1> QED BY <1>1, Rows, FS_Subset, FS_CardinalityType

\* A step that enrolls no device, and moves none within what is compared.
LEMMA ApartKept ==
  ASSUME OneEach, Enrolled' \subseteq Enrolled,
         \A j \in Enrolled' \ moved' : /\ j \in Enrolled \ moved /\ devices'[j].hw = devices[j].hw
                                       /\ devices'[j].customer = devices[j].customer
  PROVE  /\ Apart' /\ Cardinality(Enrolled') <= Quota
         /\ Cardinality(Enrolled') <= Cardinality(Enrolled)
         /\ \A hw, customer : Same(hw, customer) = {} => Same(hw, customer)' = {}
<1>1. Cardinality(Enrolled') <= Cardinality(Enrolled) BY EnrolledFinite, FS_Subset
<1>2. Cardinality(Enrolled') <= Quota
  BY <1>1, EnrolledFinite, EnrolledFiniteNext, Rows DEF OneEach
<1>3. Apart' BY DEF OneEach, Apart
<1>4. ASSUME NEW hw, NEW customer, Same(hw, customer) = {} PROVE Same(hw, customer)' = {}
  BY <1>4 DEF Same
<1> QED BY <1>1, <1>2, <1>3, <1>4

\* What a registration found stays true of it in such a step.
LEMMA GoodKept ==
  ASSUME NEW q, Good(q), Cardinality(Enrolled') <= Cardinality(Enrolled),
         \A hw, customer : Same(hw, customer) = {} => Same(hw, customer)' = {}
  PROVE  (q.phase = "commit" /\ ~q.doomed) =>
           /\ q.found = 0 => Cardinality(Enrolled') < Quota
           /\ q.hw # None => (q.found # 0 /\ q.row.hw = q.hw) \/ Same(q.hw, q.read.customer)' = {}
<1>1. Cardinality(Enrolled) \in Nat /\ Cardinality(Enrolled') \in Nat /\ Quota \in Nat
  BY EnrolledFinite, EnrolledFiniteNext, Rows
<1>2. ASSUME q.phase = "commit", ~q.doomed, q.found = 0 PROVE Cardinality(Enrolled') < Quota
  <2>1. Cardinality(Enrolled) < Quota BY <1>2 DEF Good
  <2> QED BY <1>1, <2>1
<1>3. ASSUME q.phase = "commit", ~q.doomed, q.hw # None
      PROVE  (q.found # 0 /\ q.row.hw = q.hw) \/ Same(q.hw, q.read.customer)' = {}
  BY <1>3 DEF Good
<1> QED BY <1>2, <1>3

LEMMA OneEachKept ==
  ASSUME OneEach, Enrolled' \subseteq Enrolled,
         \A j \in Enrolled' \ moved' : /\ j \in Enrolled \ moved /\ devices'[j].hw = devices[j].hw
                                       /\ devices'[j].customer = devices[j].customer,
         request' = request
  PROVE  OneEach'
<1>1. ASSUME NEW r \in Request PROVE Good(request[r])'
  <2>1. PICK q : q = request[r] OBVIOUS
  <2>2. Good(q) BY <2>1 DEF OneEach
  <2>3. request'[r] = q BY <2>1
  <2> QED BY <2>2, <2>3, ApartKept, GoodKept DEF Good
<1> QED BY <1>1, ApartKept DEF OneEach, Apart

LEMMA BeginGood ==
  ASSUME RegistryOK, NEW r \in Request, Begin(r)
  PROVE  /\ Good(request'[r])
         /\ \A p \in Request \ {r} : request'[p] = request[p]
<1>1. PICK q : q = request[r] OBVIOUS
<1>2. PICK t : t = tokens[q.token] OBVIOUS
<1>3. PICK rows : rows = Identified(q, t.customer) OBVIOUS
<1>4. PICK i \in IF rows = {} THEN {0} ELSE rows :
        request' = [request EXCEPT ![r] =
          IF Refused(t, i) THEN NoRequest
          ELSE [q EXCEPT !.phase = "commit", !.found = i, !.read = t, !.doomed = FALSE,
                         !.row = IF i = 0 THEN NoDevice ELSE devices[i]]]
  BY <1>1, <1>2, <1>3 DEF Begin
<1>5. q \in RequestRow BY <1>1, Parts, RequestOf
<1>6. request \in [Request -> RequestRow] BY Parts DEF RequestsOK
<1>7. PICK row : row = IF i = 0 THEN NoDevice ELSE devices[i] OBVIOUS
<1>8. PICK new : new = [q EXCEPT !.phase = "commit", !.found = i, !.read = t, !.doomed = FALSE,
                                 !.row = row]
  OBVIOUS
<1>9. request'[r] = (IF Refused(t, i) THEN NoRequest ELSE new)
      /\ \A p \in Request \ {r} : request'[p] = request[p]
  BY <1>4, <1>6, <1>7, <1>8
<1>10. CASE Refused(t, i) BY <1>9, <1>10, Blank DEF Good
<1>11. CASE ~Refused(t, i)
  <2>1. new.found = i /\ new.read = t /\ new.row = row /\ new.hw = q.hw
    BY <1>5, <1>8 DEF RequestRow
  <2>2. ASSUME i = 0 PROVE Cardinality(Enrolled) < Quota
    <3>1. ~(Cardinality(Enrolled) >= Quota) BY <1>11, <2>2 DEF Refused
    <3> QED BY <3>1, EnrolledFinite, Rows
  <2>3. ASSUME q.hw # None PROVE (i # 0 /\ row.hw = q.hw) \/ Same(q.hw, t.customer) = {}
    <3> DEFINE byHw == {j \in Enrolled : devices[j].customer = t.customer /\ devices[j].hw = q.hw}
    <3>1. CASE byHw = {} BY <3>1 DEF Same
    <3>2. CASE byHw # {}
      <4>1. rows = byHw BY <1>3, <2>3, <3>2 DEF Identified
      <4>2. i \in byHw BY <1>4, <3>2, <4>1
      <4>3. i \in Row /\ 0 \notin Row BY <4>2, Rows DEF Enrolled
      <4> QED BY <1>7, <4>2, <4>3
    <3> QED BY <3>1, <3>2
  <2>4. Good(new) BY <2>1, <2>2, <2>3 DEF Good
  <2> QED BY <1>9, <1>11, <2>4
<1> QED BY <1>9, <1>10, <1>11

LEMMA QuietOneEach ==
  ASSUME RegistryOK, RegistryOK', OneEach, Quiet PROVE OneEach'
<1>1. Enrolled' = Enrolled BY Parts, SameExist DEF RegistryOK, Quiet
<1>2. /\ moved' = moved
      /\ \A j \in Row : devices'[j].hw = devices[j].hw /\ devices'[j].customer = devices[j].customer
  BY DEF Quiet, SameRows, SameRow
<1>3. \A j \in Enrolled' \ moved' : /\ j \in Enrolled \ moved /\ devices'[j].hw = devices[j].hw
                                    /\ devices'[j].customer = devices[j].customer
  BY <1>1, <1>2, EnrolledFinite
<1>4. CASE request' = request BY <1>1, <1>3, <1>4, OneEachKept
<1>5. ASSUME NEW r \in Request, Good(request'[r]),
             \A p \in Request \ {r} :
               \/ request'[p] = request[p]
               \/ \E a : request'[p] = [request[p] EXCEPT !.abandoned = a]
      PROVE  OneEach'
  <2>1. ASSUME NEW p \in Request PROVE Good(request[p])'
    <3>1. PICK q : q = request'[p] OBVIOUS
    <3>2. Good(q)
      <4>1. CASE p = r BY <1>5, <3>1, <4>1
      <4>2. CASE request'[p] = request[p] BY <3>1, <4>2 DEF OneEach
      <4>3. CASE \E a : request'[p] = [request[p] EXCEPT !.abandoned = a]
        <5>1. PICK a : request'[p] = [request[p] EXCEPT !.abandoned = a] BY <4>3
        <5>2. PICK old : old = request[p] OBVIOUS
        <5>3. old \in RequestRow BY <5>2, Parts, RequestOf
        <5>4. /\ q.phase = old.phase /\ q.doomed = old.doomed /\ q.found = old.found
              /\ q.hw = old.hw /\ q.row = old.row /\ q.read = old.read
          BY <3>1, <5>1, <5>2, <5>3 DEF RequestRow
        <5>5. Good(old) BY <5>2 DEF OneEach
        <5> QED BY <5>4, <5>5 DEF Good
      <4> QED BY <1>5, <4>1, <4>2, <4>3
    <3> QED BY <1>1, <1>3, <3>1, <3>2, ApartKept, GoodKept DEF Good
  <2> QED BY <1>1, <1>3, <2>1, ApartKept DEF OneEach, Apart
<1>6. CASE RegistrationStep
  <2>1. PICK r \in Request : \/ \E m \in Machine, t \in Token : Register(r, m, t)
                             \/ Begin(r) \/ Abort(r) \/ Answered(r)
    BY <1>6 DEF RegistrationStep
  <2>2. request \in [Request -> RequestRow] BY Parts DEF RequestsOK
  <2>3. CASE \E m \in Machine, t \in Token : Register(r, m, t)
    <3>1. PICK m \in Machine, t \in Token : Register(r, m, t) BY <2>3
    <3>2. PICK id \in Identity[m] : request' = [q \in Request |->
            IF q = r THEN [NoRequest EXCEPT !.phase = "begin", !.machine = m, !.token = t,
                                            !.hw = id.hw, !.serial = id.serial]
            ELSE [request[q] EXCEPT !.abandoned = @ \/ request[q].machine = m]]
      BY <3>1 DEF Register
    <3>3. PICK none \in RequestRow : none = NoRequest BY Blank
    <3>4. request'[r] = [none EXCEPT !.phase = "begin", !.machine = m, !.token = t,
                                     !.hw = id.hw, !.serial = id.serial]
      BY <3>2, <3>3
    <3>5. request'[r].phase = "begin" BY <3>4 DEF RequestRow
    <3>6. Good(request'[r]) BY <3>5 DEF Good
    <3>7. ASSUME NEW p \in Request \ {r}
          PROVE  \E a : request'[p] = [request[p] EXCEPT !.abandoned = a]
      BY <3>2
    <3> QED BY <1>5, <3>6, <3>7
  <2>4. CASE Begin(r) BY <1>5, <2>4, BeginGood
  <2>5. CASE Abort(r)
    <3>1. PICK again : again = [request[r] EXCEPT !.phase = "begin",
                                  !.attempt = request[r].attempt + 1, !.doomed = FALSE]
      OBVIOUS
    <3>2. request[r] \in RequestRow BY <2>2
    <3>3. again.phase = "begin" BY <3>1, <3>2 DEF RequestRow
    <3>4. request' = [request EXCEPT ![r] = NoRequest] \/ request' = [request EXCEPT ![r] = again]
      BY <2>5, <3>1 DEF Abort
    <3>5. request'[r] \in {NoRequest, again} /\ \A p \in Request \ {r} : request'[p] = request[p]
      BY <2>2, <3>4
    <3>6. Good(request'[r]) BY <3>3, <3>5, Blank DEF Good
    <3> QED BY <1>5, <3>5, <3>6
  <2>6. CASE Answered(r)
    <3>1. request' = [request EXCEPT ![r] = NoRequest] BY <2>6 DEF Answered
    <3>2. request'[r] = NoRequest /\ \A p \in Request \ {r} : request'[p] = request[p]
      BY <2>2, <3>1
    <3>3. Good(request'[r]) BY <3>2, Blank DEF Good
    <3> QED BY <1>5, <3>2, <3>3
  <2> QED BY <2>1, <2>3, <2>4, <2>5, <2>6
<1> QED BY <1>4, <1>6 DEF Quiet

LEMMA CommitApart ==
  ASSUME RegistryOK, OneEach, NEW r \in Request, Commit(r),
         NEW i \in Row, NEW new \in DeviceRow, Writes(r, i, new)
  PROVE  /\ Enrolled' = Enrolled \cup {i} /\ devices'[i] = new /\ moved' = moved
         /\ \A j \in Row \ {i} : devices'[j] = devices[j]
         /\ Cardinality(Enrolled') <= Quota /\ Apart'
<1>1. PICK q \in RequestRow : q = request[r] BY Parts, RequestOf
<1>2. PICK old \in DeviceRow : old = devices[i] BY Parts, DeviceOf
<1>3. q.phase = "commit" /\ ~q.doomed BY <1>1 DEF Commit, Serializable
<1>4. /\ devices' = [devices EXCEPT ![i] = new]
      /\ \/ q.found = 0 /\ old = NoDevice
         \/ q.found = i /\ Exists(i) /\ old.customer = q.read.customer /\ old.hw = q.row.hw
      /\ new.secret = secrets + 1 /\ new.customer = q.read.customer /\ new.hw = Kept(q.hw, old.hw)
  BY <1>1, <1>2 DEF Writes
<1>5. devices \in [Row -> DeviceRow] /\ secrets \in Nat BY Parts DEF DevicesOK
<1>6. devices'[i] = new /\ \A j \in Row \ {i} : devices'[j] = devices[j] BY <1>4, <1>5
<1>7. new # NoDevice BY <1>4, <1>5, Blank
<1>8. Enrolled' = Enrolled \cup {i} BY <1>6, <1>7 DEF Enrolled, Exists
<1>9. moved' = moved BY DEF Commit
<1>10. Good(q) BY <1>1 DEF OneEach
<1>11. Cardinality(Enrolled') <= Quota
  <2>1. CASE i \in Enrolled BY <1>8, <2>1 DEF OneEach
  <2>2. CASE i \notin Enrolled
    <3>1. q.found = 0 BY <1>4, <2>2 DEF Enrolled
    <3>2. Cardinality(Enrolled) < Quota BY <1>3, <1>10, <3>1 DEF Good
    <3>3. Cardinality(Enrolled') = Cardinality(Enrolled) + 1
      BY <1>8, <2>2, EnrolledFinite, FS_AddElement
    <3> QED BY <3>2, <3>3, EnrolledFinite, Rows
  <2> QED BY <2>1, <2>2
\* The row that is written shares its machine and customer with no other.
<1>12. ASSUME NEW j \in (Enrolled \ moved) \ {i}, i \notin moved, new.hw # None,
              devices[j].hw = new.hw, devices[j].customer = new.customer
       PROVE  FALSE
  <2>1. CASE (q.hw = None \/ q.row.hw = q.hw) /\ q.found # 0
    <3>1. Exists(i) /\ old.customer = q.read.customer /\ old.hw = new.hw
      BY <1>4, <2>1 DEF Kept
    <3>2. i \in Enrolled \ moved BY <1>12, <3>1 DEF Enrolled
    <3> QED BY <1>2, <1>4, <1>12, <3>1, <3>2 DEF OneEach
  <2>2. CASE q.hw = None /\ q.found = 0
    <3>1. new.hw = None BY <1>4, <2>2, Blank, Rows DEF Kept
    <3> QED BY <1>12, <3>1
  <2>3. CASE q.hw # None /\ Same(q.hw, q.read.customer) = {}
    <3>1. new.hw = q.hw BY <1>4, <2>3 DEF Kept
    <3> QED BY <1>4, <1>12, <2>3, <3>1 DEF Same
  <2> QED BY <1>3, <1>10, <2>1, <2>2, <2>3 DEF Good
<1>13. Apart'
  <2>1. ASSUME NEW j \in Enrolled' \ moved', NEW k \in Enrolled' \ moved', devices'[j].hw # None,
               devices'[j].hw = devices'[k].hw, devices'[j].customer = devices'[k].customer
        PROVE  j = k
    <3>1. CASE j = i /\ k # i
      <4>1. k \in (Enrolled \ moved) \ {i} /\ i \notin moved /\ devices'[k] = devices[k]
        BY <1>6, <1>8, <1>9, <3>1, EnrolledFiniteNext
      <4> QED BY <1>6, <1>12, <2>1, <3>1, <4>1
    <3>2. CASE k = i /\ j # i
      <4>1. j \in (Enrolled \ moved) \ {i} /\ i \notin moved /\ devices'[j] = devices[j]
        BY <1>6, <1>8, <1>9, <3>2, EnrolledFiniteNext
      <4> QED BY <1>6, <1>12, <2>1, <3>2, <4>1
    <3>3. CASE j # i /\ k # i
      <4>1. /\ j \in Enrolled \ moved /\ k \in Enrolled \ moved
            /\ devices'[j] = devices[j] /\ devices'[k] = devices[k]
        BY <1>6, <1>8, <1>9, <3>3, EnrolledFiniteNext
      <4> QED BY <2>1, <4>1 DEF OneEach
    <3> QED BY <3>1, <3>2, <3>3
  <2> QED BY <2>1 DEF Apart
<1> QED BY <1>6, <1>8, <1>9, <1>11, <1>13

\* A registration that does not conflict with one that commits keeps what it found.
LEMMA CommitGood ==
  ASSUME RegistryOK, OneEach, NEW r \in Request, Commit(r), NEW p \in Request \ {r},
         p \notin Conflicts(r), NEW q, q = request[p]
  PROVE  (q.phase = "commit" /\ ~q.doomed) =>
           /\ q.found = 0 => Cardinality(Enrolled') < Quota
           /\ q.hw # None => (q.found # 0 /\ q.row.hw = q.hw) \/ Same(q.hw, q.read.customer)' = {}
<1>1. PICK i \in Row, new \in DeviceRow : Writes(r, i, new) BY CommitSummary
<1>2. PICK a \in RequestRow : a = request[p] /\ a = q BY Parts, RequestOf
<1>3. PICK b \in RequestRow : b = request[r] BY Parts, RequestOf
<1>4. /\ Enrolled' = Enrolled \cup {i} /\ devices'[i] = new /\ moved' = moved
      /\ \A j \in Row \ {i} : devices'[j] = devices[j]
  BY <1>1, CommitApart
<1>5. /\ \/ b.found = 0 /\ devices[i] = NoDevice
         \/ b.found = i /\ Exists(i) /\ devices[i].customer = b.read.customer
      /\ new.customer = b.read.customer /\ new.hw = Kept(b.hw, devices[i].hw)
  BY <1>1, <1>3 DEF Writes
<1>6. Good(a) BY <1>2 DEF OneEach
<1> SUFFICES ASSUME a.phase = "commit", ~a.doomed
             PROVE  /\ a.found = 0 => Cardinality(Enrolled') < Quota
                    /\ a.hw # None => \/ a.found # 0 /\ a.row.hw = a.hw
                                      \/ Same(a.hw, a.read.customer)' = {}
  BY <1>2
<1>7. /\ a.found # b.found
      /\ a.read.customer = b.read.customer => a.machine # b.machine
  BY <1>2, <1>3 DEF Conflicts
<1>8. ASSUME a.found = 0 PROVE Cardinality(Enrolled') < Quota
  <2>1. i \in Enrolled BY <1>5, <1>7, <1>8 DEF Enrolled
  <2>2. Enrolled' = Enrolled BY <1>4, <2>1
  <2> QED BY <1>6, <1>8, <2>2 DEF Good
<1>9. ASSUME a.hw # None, ~(a.found # 0 /\ a.row.hw = a.hw)
      PROVE  Same(a.hw, a.read.customer)' = {}
  <2>1. Same(a.hw, a.read.customer) = {} BY <1>6, <1>9 DEF Good
  <2>2. a.hw = a.machine /\ b.hw \in {b.machine, None}
    <3>1. b.phase = "commit" BY <1>3 DEF Commit
    <3> QED BY <1>9, <3>1 DEF RequestRow
  <2>3. SUFFICES ASSUME NEW j \in Same(a.hw, a.read.customer)' PROVE FALSE OBVIOUS
  <2>4. /\ j \in Enrolled' /\ j \notin moved' /\ devices'[j].hw = a.hw
        /\ devices'[j].customer = a.read.customer
    BY <2>3 DEF Same
  <2>5. CASE j # i
    <3>1. j \in Enrolled \ moved /\ devices'[j] = devices[j]
      BY <1>4, <2>4, <2>5, EnrolledFiniteNext
    <3> QED BY <2>1, <2>4, <3>1 DEF Same
  <2>6. CASE j = i
    <3>1. new.hw = a.hw /\ a.read.customer = b.read.customer BY <1>4, <1>5, <2>4, <2>6
    <3>2. b.hw = None BY <1>5, <1>7, <2>2, <3>1 DEF Kept
    <3>3. devices[i].hw = a.hw BY <1>5, <3>1, <3>2 DEF Kept
    <3>4. Exists(i) /\ devices[i].customer = b.read.customer BY <1>5, <1>9, <3>3, Blank
    <3>5. i \in Enrolled \ moved BY <1>4, <2>4, <2>6, <3>4 DEF Enrolled
    <3> QED BY <2>1, <3>1, <3>3, <3>4, <3>5 DEF Same
  <2> QED BY <2>5, <2>6
<1> QED BY <1>8, <1>9

LEMMA CommitOneEach == ASSUME RegistryOK, OneEach, NEW r \in Request, Commit(r) PROVE OneEach'
<1>1. PICK i \in Row, new \in DeviceRow : Writes(r, i, new) BY CommitSummary
<1>2. request' = [p \in Request |->
        IF p = r THEN [request[r] EXCEPT !.phase = "reply", !.found = i, !.secret = secrets + 1]
        ELSE IF p \in Conflicts(r) THEN [request[p] EXCEPT !.doomed = TRUE]
        ELSE request[p]]
  BY <1>1 DEF Writes
<1>3. ASSUME NEW p \in Request PROVE Good(request[p])'
  <2>1. PICK old \in RequestRow : old = request[p] BY Parts, RequestOf
  <2>2. CASE p = r
    <3>1. request'[p] = [old EXCEPT !.phase = "reply", !.found = i, !.secret = secrets + 1]
      BY <1>2, <2>1, <2>2
    <3>2. request'[p].phase = "reply" BY <3>1 DEF RequestRow
    <3> QED BY <3>2 DEF Good
  <2>3. CASE p # r /\ p \in Conflicts(r)
    <3>1. request'[p] = [old EXCEPT !.doomed = TRUE] BY <1>2, <2>1, <2>3
    <3>2. request'[p].doomed BY <3>1 DEF RequestRow
    <3> QED BY <3>2 DEF Good
  <2>4. CASE p # r /\ p \notin Conflicts(r)
    <3>1. request'[p] = old BY <1>2, <2>1, <2>4
    <3> QED BY <2>1, <2>4, <3>1, CommitGood DEF Good
  <2> QED BY <2>2, <2>3, <2>4
<1> QED BY <1>1, <1>3, CommitApart DEF OneEach, Apart

LEMMA OneEachStep == ASSUME RegistryOK, OneEach, [Next]_vars PROVE OneEach'
<1>1. RegistryOK' BY RegistryStep
<1>2. devices \in [Row -> DeviceRow] BY Parts DEF DevicesOK
<1>3. CASE \E r \in Request : Commit(r) BY <1>3, CommitOneEach
<1>4. ASSUME NEW e \in Editor, WriteDevice(e) PROVE OneEach'
  <2>1. request' = request BY <1>4 DEF WriteDevice
  <2>2. CASE devices' = devices /\ moved' = moved
    BY <2>1, <2>2, OneEachKept DEF Enrolled, Exists
  <2>3. CASE \E new \in DeviceRow : Edited(edit[e], edit[e].target, new)
    <3>1. PICK i \in Row : i = edit[e].target BY <1>4, WriteDeviceSummary
    <3>2. PICK new \in DeviceRow : Edited(edit[e], i, new) BY <2>3, <3>1
    <3>3. Exists(i) /\ devices' = [devices EXCEPT ![i] = new] /\ new.hw = devices[i].hw
      BY <3>2 DEF Edited
    <3>4. devices'[i] = new /\ \A j \in Row \ {i} : devices'[j] = devices[j] BY <1>2, <3>3
    <3>5. moved' = IF devices'[i].customer # devices[i].customer THEN moved \cup {i} ELSE moved
      BY <1>4, <3>1, <3>3 DEF WriteDevice
    <3>6. Enrolled' \subseteq Enrolled BY <3>3, <3>4 DEF Enrolled, Exists
    <3>7. ASSUME NEW j \in Enrolled' \ moved'
          PROVE  /\ j \in Enrolled \ moved /\ devices'[j].hw = devices[j].hw
                 /\ devices'[j].customer = devices[j].customer
      <4>1. j \in Enrolled /\ j \notin moved /\ j \in Row BY <3>5, <3>6, <3>7, EnrolledFinite
      <4>2. CASE j = i BY <3>3, <3>4, <3>5, <3>7, <4>1, <4>2
      <4>3. CASE j # i BY <3>4, <4>1, <4>3
      <4> QED BY <4>2, <4>3
    <3> QED BY <2>1, <3>6, <3>7, OneEachKept
  <2> QED BY <1>4, <2>2, <2>3, WriteDeviceSummary
<1>5. ASSUME NEW e \in Editor, WriteSite(e) PROVE OneEach'
  <2>1. UNCHANGED <<devices, moved, request>> BY <1>5 DEF WriteSite
  <2> QED BY <2>1, OneEachKept DEF Enrolled, Exists
<1>6. ASSUME NEW i \in Row, DeleteDevice(i) PROVE OneEach'
  <2>1. request' = request /\ moved' = moved \ {i} BY <1>6 DEF DeleteDevice
  <2>2. devices'[i] = NoDevice /\ \A j \in Row \ {i} : devices'[j] = devices[j]
    BY <1>6, DeleteDeviceOK
  <2>3. Enrolled' \subseteq Enrolled /\ i \notin Enrolled' BY <2>2 DEF Enrolled, Exists
  <2>4. ASSUME NEW j \in Enrolled' \ moved'
        PROVE  /\ j \in Enrolled \ moved /\ devices'[j].hw = devices[j].hw
               /\ devices'[j].customer = devices[j].customer
    BY <2>1, <2>2, <2>3, <2>4, EnrolledFinite
  <2> QED BY <2>1, <2>3, <2>4, OneEachKept
<1>7. CASE Quiet BY <1>1, <1>7, QuietOneEach
<1> QED BY <1>3, <1>4, <1>5, <1>6, <1>7, RegistryStep DEF Kinds

\* However registrations overlap and are retried, a token is used no more often than it
\* allows, the tenant has no more devices than its quota, and no two rows of one customer carry
\* one hardware id unless an operator moved one there: the serializable transaction of register
\* suffices.
THEOREM HardwareEnrolledOnce == ControlSpec => []EnrolledOnce
<1>1. ControlInit => RegistryOK /\ OneEach
  <2>1. ASSUME ControlInit PROVE OneEach
    <3>1. Init BY <2>1 DEF ControlInit
    <3>2. Enrolled \subseteq {1} BY <3>1, FirstDevices DEF Enrolled, Exists
    <3>3. Cardinality(Enrolled) <= 1
      <4>1. IsFiniteSet({1}) /\ Cardinality({1}) = 1 BY FS_Singleton
      <4> QED BY <3>2, <4>1, FS_Subset
    <3>4. Cardinality(Enrolled) <= Quota BY <3>3, EnrolledFinite, Rows
    <3>5. \A r \in Request : Good(request[r])
      <4>1. request = [r \in Request |-> NoRequest] BY <3>1 DEF Init
      <4> QED BY <4>1, Blank DEF Good
    <3> QED BY <3>2, <3>4, <3>5 DEF OneEach
  <2> QED BY <2>1, RegistryInit DEF ControlInit
<1>2. RegistryOK /\ OneEach /\ [ControlNext]_controlVars => (RegistryOK /\ OneEach)'
  BY ControlSteps, RegistryStep, OneEachStep
<1>3. RegistryOK /\ OneEach => EnrolledOnce
  <2>1. ASSUME RegistryOK PROVE \A t \in Token : tokens[t].used <= tokens[t].max
    BY <2>1, Parts DEF RestOK, TokenRow
  <2> QED BY <2>1, RegistryTypes DEF OneEach, EnrolledOnce
<1> QED BY <1>1, <1>2, <1>3, PTL DEF ControlSpec

-----------------------------------------------------------------------------
(* The registry: who is shown OFFLINE                                        *)

\* A heartbeat of the device is between its two writes.
Updating(i) == \E b \in Beat : beat[b].phase = "update" /\ beat[b].device = i

\* The first half of PresenceFollowsHeartbeats.
HeardOnline == \A i \in Enrolled \ forced : OfflineIsSilent(i)

\* What a row may become, so that no device is OFFLINE that was heard of.
Settled(i) ==
  (Exists(i)' /\ i \notin forced') =>
    \/ devices'[i].status # "OFFLINE" \/ ~(devices'[i].age <= Threshold) \/ Updating(i)'
    \/ /\ Exists(i) /\ i \notin forced
       /\ Updating(i) => Updating(i)'
       /\ devices'[i].status = "OFFLINE" => devices[i].status = "OFFLINE"
       /\ devices'[i].age <= Threshold => devices[i].age <= Threshold

LEMMA SettledSilent ==
  ASSUME HeardOnline, \A i \in Row : Settled(i)
  PROVE  HeardOnline'
<1> SUFFICES ASSUME NEW i \in Row, Exists(i)', i \notin forced', devices'[i].status = "OFFLINE",
                    devices'[i].age <= Threshold
             PROVE  Updating(i)'
  BY DEF HeardOnline, OfflineIsSilent, Updating, Enrolled
<1>1. CASE /\ Exists(i) /\ i \notin forced /\ devices[i].status = "OFFLINE"
           /\ devices[i].age <= Threshold
  <2>1. Updating(i) BY <1>1 DEF HeardOnline, OfflineIsSilent, Updating, Enrolled
  <2> QED BY <2>1 DEF Settled
<1> QED BY <1>1 DEF Settled

LEMMA SilentRests == ASSUME UNCHANGED <<devices, beat, forced>> PROVE \A i \in Row : Settled(i)
BY DEF Settled, Updating, Exists

LEMMA CommitSettles == ASSUME RegistryOK, NEW r \in Request, Commit(r) PROVE \A i \in Row : Settled(i)
<1>1. PICK i \in Row, new \in DeviceRow : Writes(r, i, new) BY CommitSummary
<1>2. devices' = [devices EXCEPT ![i] = new] /\ beat' = beat BY <1>1 DEF Writes, Commit
<1>3. forced' = forced \cup {IF request[r].found = 0 THEN created + 1 ELSE request[r].found}
  BY DEF Commit
<1>4. i = IF request[r].found = 0 THEN created + 1 ELSE request[r].found
  <2>1. i # 0 BY Rows
  <2> QED BY <1>1, <2>1 DEF Writes
<1>5. i \in forced' /\ forced \subseteq forced' BY <1>3, <1>4
<1>6. \A j \in Row \ {i} : devices'[j] = devices[j] BY <1>2, Parts DEF DevicesOK
<1> QED BY <1>2, <1>5, <1>6 DEF Settled, Updating, Exists

LEMMA WriteDeviceSettles ==
  ASSUME RegistryOK, NEW e \in Editor, WriteDevice(e)
  PROVE  \A i \in Row : Settled(i)
<1>1. PICK p : p = edit[e] OBVIOUS
<1>2. PICK i \in Row : i = p.target BY <1>1, WriteDeviceSummary
<1>3. beat' = beat BY DEF WriteDevice
<1>4. CASE UNCHANGED <<devices, forced>> BY <1>3, <1>4, SilentRests
<1>5. CASE /\ Exists(i)
           /\ devices' = [devices EXCEPT
                ![i].customer = Kept(p.customer, @), ![i].site = NewSite(p, @),
                ![i].status = Kept(p.status, @)]
           /\ forced' = IF p.status # None THEN forced \cup {i} ELSE forced
  <2>1. PICK row \in DeviceRow : row = devices[i] BY Parts, DeviceOf
  <2>2. PICK customer, site, status :
          /\ customer = Kept(p.customer, row.customer) /\ site = NewSite(p, row.site)
          /\ status = Kept(p.status, row.status)
    OBVIOUS
  <2>3. PICK new : new = [row EXCEPT !.customer = customer, !.site = site, !.status = status]
    OBVIOUS
  <2>4. devices \in [Row -> DeviceRow] BY Parts DEF DevicesOK
  <2>5. devices' = [devices EXCEPT ![i] = new] BY <1>5, <2>1, <2>2, <2>3, <2>4
  <2>6. new.status = status /\ new.age = row.age BY <2>3 DEF DeviceRow
  <2>7. i \notin forced' => new.status = row.status BY <1>5, <2>2, <2>6 DEF Kept
  <2>8. devices'[i] = new /\ \A j \in Row \ {i} : devices'[j] = devices[j] BY <2>4, <2>5
  <2>9. forced \subseteq forced' BY <1>5
  <2> QED BY <1>3, <1>5, <2>1, <2>6, <2>7, <2>8, <2>9 DEF Settled, Updating, Exists
<1> QED BY <1>1, <1>2, <1>4, <1>5 DEF WriteDevice

LEMMA DeleteDeviceSettles ==
  ASSUME RegistryOK, NEW i \in Row, DeleteDevice(i)
  PROVE  \A j \in Row : Settled(j)
<1>1. beat' = beat /\ forced' = forced \ {i} BY DEF DeleteDevice
<1>2. devices'[i] = NoDevice /\ \A j \in Row \ {i} : devices'[j] = devices[j] BY DeleteDeviceOK
<1> QED BY <1>1, <1>2 DEF Settled, Updating, Exists

LEMMA SetKeySettles ==
  ASSUME RegistryOK, NEW i \in Row, Exists(i), SetKey(i), UNCHANGED <<secrets, created, forced>>
  PROVE  \A j \in Row : Settled(j)
<1>1. /\ \A j \in Row \ {i} : devices'[j] = devices[j]
      /\ \A b \in Beat : beat'[b].phase = beat[b].phase /\ beat'[b].device = beat[b].device
  BY SetKeyOK
<1>2. PICK row \in DeviceRow : row = devices[i] BY Parts, DeviceOf
<1>3. devices' = [devices EXCEPT ![i].key = keys + 1] BY DEF SetKey
<1>4. devices'[i] = [row EXCEPT !.key = keys + 1] BY <1>2, <1>3, Parts DEF DevicesOK
<1>5. devices'[i].status = row.status /\ devices'[i].age = row.age BY <1>4 DEF DeviceRow
<1> QED BY <1>1, <1>2, <1>5 DEF Settled, Updating, Exists

\* A heartbeat that is not, and does not become, one that has yet to update its device.
LEMMA BeatSettles ==
  ASSUME RegistryOK, NEW b \in Beat, NEW q, beat' = [beat EXCEPT ![b] = q],
         beat[b].phase = "update" => beat[b].device \in forced',
         NEW i \in Row, forced \subseteq forced', devices'[i].status = devices[i].status,
         devices'[i].age = devices[i].age, Exists(i)' => Exists(i)
  PROVE  Settled(i)
<1>1. \A c \in Beat \ {b} : beat'[c] = beat[c] BY Parts DEF BeatsOK
<1>2. Updating(i) /\ i \notin forced' => Updating(i)'
  <2> SUFFICES ASSUME NEW c \in Beat, beat[c].phase = "update", beat[c].device = i, i \notin forced'
               PROVE  Updating(i)'
    BY DEF Updating
  <2> QED BY <1>1 DEF Updating
<1> QED BY <1>2 DEF Settled

LEMMA HeartbeatSettles ==
  ASSUME RegistryOK, NEW b \in Beat, NEW m \in Machine, Heartbeat(b, m)
  PROVE  \A i \in Row : Settled(i)
<1>1. PICK i : i = agent[m].device OBVIOUS
<1>2. /\ Exists(i) /\ forced' = forced /\ beat[b].phase = "idle"
      /\ beat' = [beat EXCEPT ![b] = [NoBeat EXCEPT !.phase = "update", !.machine = m, !.device = i]]
  BY <1>1 DEF Heartbeat, Authentic, historyVars
<1>3. i \in Row BY <1>2 DEF Exists
<1>4. PICK age : devices' = [devices EXCEPT ![i].age = Younger(age, @)] BY <1>1 DEF Heartbeat
<1>5. \A j \in Row \ {i} : devices'[j] = devices[j] BY <1>4, Parts DEF DevicesOK
<1>6. PICK q : q = [NoBeat EXCEPT !.phase = "update", !.machine = m, !.device = i] OBVIOUS
<1>7. q.phase = "update" /\ q.device = i BY <1>6 DEF NoBeat
<1>8. beat' = [beat EXCEPT ![b] = q] BY <1>2, <1>6
<1>9. beat'[b] = q BY <1>8, Parts DEF BeatsOK
<1>10. Updating(i)' BY <1>7, <1>9 DEF Updating
<1>11. ASSUME NEW j \in Row \ {i} PROVE Settled(j)
  <2>1. beat[b].phase = "update" => beat[b].device \in forced' BY <1>2
  <2>2. Exists(j)' => Exists(j) BY <1>5 DEF Exists
  <2> QED BY <1>2, <1>5, <1>8, <2>1, <2>2, BeatSettles
<1> QED BY <1>10, <1>11 DEF Settled

LEMMA UpdateDeviceSettles ==
  ASSUME RegistryOK, NEW b \in Beat, UpdateDevice(b)
  PROVE  \A i \in Row : Settled(i)
<1>1. PICK i : i = beat[b].device OBVIOUS
<1>2. i \in Row
  <2>1. beat[b].phase # "idle" BY DEF UpdateDevice
  <2> QED BY <1>1, <2>1, BeatOf
<1>3. PICK q : beat' = [beat EXCEPT ![b] = q] BY UpdateDeviceOK
<1>4. \A c \in Beat \ {b} : beat'[c] = beat[c] BY <1>3, Parts DEF BeatsOK
<1>5. \A j \in Row \ {i} : Updating(j) => Updating(j)' BY <1>1, <1>4 DEF Updating
<1>6. CASE Exists(i)
  <2>1. devices' = [devices EXCEPT ![i].status = "ONLINE"] /\ forced' = forced \ {i}
    BY <1>1, <1>6 DEF UpdateDevice
  <2>2. PICK row \in DeviceRow : row = devices[i] BY <1>2, Parts, DeviceOf
  <2>3. /\ devices'[i] = [row EXCEPT !.status = "ONLINE"]
        /\ \A j \in Row \ {i} : devices'[j] = devices[j]
    BY <1>2, <2>1, <2>2, Parts DEF DevicesOK
  <2>4. devices'[i].status = "ONLINE" BY <2>3 DEF DeviceRow
  <2> QED BY <1>5, <2>1, <2>3, <2>4 DEF Settled, Exists
<1>7. CASE ~Exists(i)
  <2>1. devices' = devices /\ forced' = forced BY <1>1, <1>7 DEF UpdateDevice
  <2> QED BY <1>5, <1>7, <2>1 DEF Settled, Exists
<1> QED BY <1>6, <1>7

LEMMA ProvisionKeySettles ==
  ASSUME RegistryOK, NEW b \in Beat, ProvisionKey(b)
  PROVE  \A i \in Row : Settled(i)
<1>1. forced' = forced /\ beat[b].phase = "provision" BY DEF ProvisionKey, historyVars
<1>2. PICK q : beat' = [beat EXCEPT ![b] = q] BY ProvisionKeyOK
<1>3. PICK i : i = beat[b].device OBVIOUS
<1>4. i \in Row BY <1>1, <1>3, BeatOf
<1>5. ASSUME NEW j \in Row
      PROVE  /\ devices'[j].status = devices[j].status /\ devices'[j].age = devices[j].age
             /\ Exists(j)' => Exists(j)
  <2>1. CASE devices' = devices BY <2>1 DEF Exists
  <2>2. CASE Exists(i) /\ devices' = [devices EXCEPT ![i].key = keys + 1]
    <3>1. PICK row \in DeviceRow : row = devices[i] BY <1>4, Parts, DeviceOf
    <3>2. /\ devices'[i] = [row EXCEPT !.key = keys + 1]
          /\ \A k \in Row \ {i} : devices'[k] = devices[k]
      BY <1>4, <2>2, <3>1, Parts DEF DevicesOK
    <3>3. devices'[i].status = row.status /\ devices'[i].age = row.age BY <3>2 DEF DeviceRow
    <3> QED BY <2>2, <3>1, <3>2, <3>3 DEF Exists
  <2> QED BY <1>3, <2>1, <2>2 DEF ProvisionKey
<1> QED BY <1>1, <1>2, <1>5, BeatSettles

LEMMA QuietBeatSettles ==
  ASSUME RegistryOK, NEW b \in Beat, RereadKey(b) \/ AnswerHeartbeat(b) \/ FailHeartbeat(b)
  PROVE  \A i \in Row : Settled(i)
<1>1. CASE RereadKey(b)
  <2>1. UNCHANGED devices /\ \E q : beat' = [beat EXCEPT ![b] = q] BY <1>1, RereadKeyOK
  <2>2. forced' = forced /\ beat[b].phase = "reread" BY <1>1 DEF RereadKey, historyVars
  <2> QED BY <2>1, <2>2, BeatSettles DEF Exists
<1>2. CASE AnswerHeartbeat(b)
  <2>1. /\ forced' = forced /\ beat[b].phase = "answer" /\ devices' = devices
        /\ beat' = [beat EXCEPT ![b] = NoBeat]
    BY <1>2 DEF AnswerHeartbeat, serverVars
  <2> QED BY <2>1, BeatSettles DEF Exists
<1>3. CASE FailHeartbeat(b)
  <2>1. /\ devices' = devices /\ beat' = [beat EXCEPT ![b] = NoBeat]
        /\ forced' = IF beat[b].phase = "update" THEN forced \cup {beat[b].device} ELSE forced
    BY <1>3 DEF FailHeartbeat, serverVars
  <2> QED BY <2>1, BeatSettles DEF Exists
<1> QED BY <1>1, <1>2, <1>3

LEMMA TimePassesSettles == ASSUME RegistryOK, TimePasses PROVE \A i \in Row : Settled(i)
<1>1. devices' = [i \in Row |-> [devices[i] EXCEPT !.age = Younger(@ + 1, Threshold + 1)]]
      /\ UNCHANGED <<beat, forced>>
  BY DEF TimePasses, historyVars
<1>2. ASSUME NEW i \in Row PROVE Settled(i)
  <2>1. PICK row \in DeviceRow : row = devices[i] BY Parts, DeviceOf
  <2>2. PICK age : age = Younger(row.age + 1, Threshold + 1) OBVIOUS
  <2>3. devices'[i] = [row EXCEPT !.age = age] BY <1>1, <2>1, <2>2
  <2>4. devices'[i].status = row.status /\ devices'[i].age = age BY <2>3 DEF DeviceRow
  <2>5. row.age \in Minute BY DEF DeviceRow
  <2>6. age <= Threshold => row.age <= Threshold BY <2>2, <2>5, Rows DEF Younger
  <2>7. Exists(i)' => Exists(i)
    <3>1. SameRows /\ RegistryOK' BY TimePassesOK
    <3> QED BY <3>1, Parts, SameExist DEF RegistryOK
  <2> QED BY <1>1, <2>1, <2>4, <2>6, <2>7 DEF Settled, Updating
<1> QED BY <1>2

LEMMA StatusCheckSettles == ASSUME RegistryOK, StatusCheck PROVE \A i \in Row : Settled(i)
<1>1. devices' = [i \in Row |-> IF Exists(i) /\ Silent(i)
                               THEN [devices[i] EXCEPT !.status = "OFFLINE"] ELSE devices[i]]
      /\ UNCHANGED <<beat, forced>>
  BY DEF StatusCheck, historyVars
<1>2. ASSUME NEW i \in Row PROVE Settled(i)
  <2>1. PICK row \in DeviceRow : row = devices[i] BY Parts, DeviceOf
  <2>2. CASE Exists(i) /\ Silent(i)
    <3>1. devices'[i] = [row EXCEPT !.status = "OFFLINE"] BY <1>1, <2>1, <2>2
    <3>2. devices'[i].age = row.age BY <3>1 DEF DeviceRow
    <3>3. row.age \in Minute BY DEF DeviceRow
    <3>4. ~(row.age <= Threshold) BY <2>1, <2>2, <3>3, Rows DEF Silent
    <3> QED BY <3>2, <3>4 DEF Settled
  <2>3. CASE ~(Exists(i) /\ Silent(i))
    <3>1. devices'[i] = devices[i] BY <1>1, <2>3
    <3> QED BY <1>1, <3>1 DEF Settled, Updating, Exists
  <2> QED BY <2>2, <2>3
<1> QED BY <1>2

LEMMA OperatorSettles == ASSUME RegistryOK, Operator PROVE \A i \in Row : Settled(i)
<1>1. ASSUME NEW e \in Editor, NEW t \in Token, RequestToken(e, t) PROVE UNCHANGED <<devices, beat, forced>>
  BY <1>1 DEF RequestToken, serverVars, historyVars
<1>2. ASSUME NEW t \in Token, CreateCompatibilityToken(t) PROVE UNCHANGED <<devices, beat, forced>>
  BY <1>2 DEF CreateCompatibilityToken, historyVars
<1>3. ASSUME NEW t \in Token, RevokeToken(t) PROVE UNCHANGED <<devices, beat, forced>>
  BY <1>3 DEF RevokeToken, historyVars
<1>4. ASSUME NEW e \in Editor, NEW i \in Row, ReadDevice(e, i) PROVE UNCHANGED <<devices, beat, forced>>
  BY <1>4 DEF ReadDevice, serverVars, historyVars
<1>5. ASSUME NEW e \in Editor, NEW i \in Row, ReadKey(e, i) PROVE UNCHANGED <<devices, beat, forced>>
  BY <1>5 DEF ReadKey, serverVars, historyVars
<1>6. ASSUME NEW e \in Editor, NEW s \in Site, ReadSite(e, s) PROVE UNCHANGED <<devices, beat, forced>>
  BY <1>6 DEF ReadSite, serverVars, historyVars
<1>7. ASSUME NEW e \in Editor, CreateToken(e) PROVE UNCHANGED <<devices, beat, forced>>
  BY <1>7 DEF CreateToken, historyVars
<1>8. ASSUME NEW e \in Editor, CheckSite(e) PROVE UNCHANGED <<devices, beat, forced>>
  BY <1>8 DEF CheckSite, serverVars, historyVars
<1>9. ASSUME NEW e \in Editor, CountDevices(e) PROVE UNCHANGED <<devices, beat, forced>>
  BY <1>9 DEF CountDevices, serverVars, historyVars
<1>10. ASSUME NEW e \in Editor, WriteSite(e) PROVE UNCHANGED <<devices, beat, forced>>
  BY <1>10 DEF WriteSite
<1>11. ASSUME NEW e \in Editor, RevealKey(e) PROVE \A i \in Row : Settled(i)
  <2>1. UNCHANGED <<secrets, created, forced>> BY <1>11 DEF RevealKey
  <2> QED BY <1>11, <2>1, RevealKeyOK, SetKeySettles, SilentRests
<1>12. ASSUME NEW i \in Row, RegenerateKey(i) PROVE \A j \in Row : Settled(j)
  <2>1. UNCHANGED <<secrets, created, forced>> BY <1>12 DEF RegenerateKey
  <2> QED BY <1>12, <2>1, RegenerateKeyOK, SetKeySettles
<1>13. ASSUME NEW i \in Row, RequestHealth(i) PROVE UNCHANGED <<devices, beat, forced>>
  BY <1>13 DEF RequestHealth, ScoreDevice, historyVars
<1>14. ASSUME NEW e \in Editor, WriteDevice(e) PROVE \A i \in Row : Settled(i)
  BY <1>14, WriteDeviceSettles
<1>15. ASSUME NEW i \in Row, DeleteDevice(i) PROVE \A j \in Row : Settled(j)
  BY <1>15, DeleteDeviceSettles
<1> QED
  BY <1>1, <1>2, <1>3, <1>4, <1>5, <1>6, <1>7, <1>8, <1>9, <1>10, <1>11, <1>12, <1>13, <1>14, <1>15,
     SilentRests
  DEF Operator

LEMMA SilentStep ==
  ASSUME RegistryOK, HeardOnline, [Next]_vars PROVE HeardOnline'
<1>1. CASE Registration
  <2>1. ASSUME NEW r \in Request, NEW m \in Machine, NEW t \in Token, Register(r, m, t)
        PROVE  UNCHANGED <<devices, beat, forced>>
    BY <2>1 DEF Register, serverVars, historyVars
  <2>2. ASSUME NEW r \in Request, Begin(r) PROVE UNCHANGED <<devices, beat, forced>>
    BY <2>2 DEF Begin, serverVars, historyVars
  <2>3. ASSUME NEW r \in Request, Abort(r) PROVE UNCHANGED <<devices, beat, forced>>
    BY <2>3 DEF Abort, serverVars, historyVars
  <2>4. ASSUME NEW r \in Request, Answered(r) PROVE UNCHANGED <<devices, beat, forced>>
    BY <2>4 DEF Answered, serverVars
  <2>5. \A i \in Row : Settled(i)
    BY <1>1, <2>1, <2>2, <2>3, <2>4, SilentRests, CommitSettles DEF Registration
  <2> QED BY <2>5, SettledSilent
<1>2. CASE Operator BY <1>2, OperatorSettles, SettledSilent
<1>3. CASE Telemetry
  <2>1. \A i \in Row : Settled(i)
    BY <1>3, HeartbeatSettles, UpdateDeviceSettles, ProvisionKeySettles, QuietBeatSettles DEF Telemetry
  <2> QED BY <2>1, SettledSilent
<1>4. CASE Job
  <2>1. ASSUME NEW i \in Row, ScoreDevice(i) PROVE UNCHANGED <<devices, beat, forced>>
    BY <2>1 DEF ScoreDevice, historyVars
  <2>2. \A i \in Row : Settled(i)
    BY <1>4, <2>1, TimePassesSettles, StatusCheckSettles, SilentRests DEF Job
  <2> QED BY <2>2, SettledSilent
<1>5. CASE UNCHANGED vars
  <2>1. UNCHANGED <<devices, beat, forced>> BY <1>5 DEF vars, serverVars, historyVars
  <2> QED BY <2>1, SilentRests, SettledSilent
<1> QED BY <1>1, <1>2, <1>3, <1>4, <1>5 DEF Next

\* A device whose last heartbeat is recent is not stored as OFFLINE, however heartbeats, the check
\* for silent devices, edits and registrations interleave, but between the two writes of that
\* heartbeat or by the hand of an operator or a registration.
THEOREM HeardIsShown == ControlSpec => [](\A i \in Enrolled \ forced : OfflineIsSilent(i))
<1>1. ControlInit => RegistryOK /\ HeardOnline
  <2>1. ASSUME ControlInit PROVE HeardOnline
    <3>1. Init BY <2>1 DEF ControlInit
    <3>2. ASSUME NEW i \in Row PROVE ~(devices[i].age <= Threshold)
      <4>1. PICK c, m, key, status : devices[i] \in {OldDevice(c, m, 1, key, status), NoDevice}
        BY <3>1, FirstDevices
      <4>2. OldDevice(c, m, 1, key, status).age = NoDevice.age BY DEF OldDevice, NoDevice
      <4>3. devices[i].age = Threshold + 1 BY <4>1, <4>2, Blank
      <4> QED BY <4>3, Rows
    <3> QED BY <3>2 DEF HeardOnline, OfflineIsSilent, Enrolled
  <2> QED BY <2>1, RegistryInit DEF ControlInit
<1>2. RegistryOK /\ HeardOnline /\ [ControlNext]_controlVars => (RegistryOK /\ HeardOnline)'
  BY ControlSteps, RegistryStep, SilentStep
<1>3. HeardOnline => \A i \in Enrolled \ forced : OfflineIsSilent(i) BY DEF HeardOnline
<1> QED BY <1>1, <1>2, <1>3, PTL DEF ControlSpec

-----------------------------------------------------------------------------
(* Sums over finite sets.  What MapThenSumSet returns is the only function    *)
(* that satisfies its equation on the parts of the set: among the parts on    *)
(* which something fails one has no part among them, and taking a term away   *)
(* from it shows that nothing fails.                                          *)

\* Among parts of a finite set one has no part among them.
LEMMA SmallestPart ==
  ASSUME NEW S, IsFiniteSet(S), NEW Family \in SUBSET SUBSET S, Family # {}
  PROVE  \E U \in Family : \A V \in Family : V \subseteq U => V = U
<1> DEFINE N == {n \in Nat : \E U \in Family : n = Cardinality(U)}
           R == OpToRel(<, Nat)
<1>1. \A U \in Family : IsFiniteSet(U) /\ Cardinality(U) \in Nat BY FS_Subset, FS_CardinalityType
<1>2. N \subseteq Nat /\ N # {} BY <1>1
<1>3. IsWellFoundedOn(R, Nat) BY NatLessThanWellFounded
<1>4. PICK n \in N : \A k \in N : ~(<<k, n>> \in R)
  <2> HIDE DEF N, R
  <2> QED BY <1>2, <1>3, WFMin, Zenon
<1>5. \A k \in N : ~(k < n)
  <2>1. \A k \in N : k < n => <<k, n>> \in R BY <1>2 DEF OpToRel
  <2> QED BY <1>4, <2>1, Zenon
<1> HIDE DEF R
<1>6. PICK U \in Family : n = Cardinality(U) OBVIOUS
<1>7. ASSUME NEW V \in Family, V \subseteq U, V # U PROVE FALSE
  <2>1. Cardinality(V) < Cardinality(U) BY <1>1, <1>7, FS_Subset
  <2>2. Cardinality(V) \in N BY <1>1
  <2> QED BY <1>5, <1>6, <2>1, <2>2
<1> QED BY <1>7

\* The term a sum takes first.
Some(T) == CHOOSE x \in T : TRUE

\* f has the sum of the weights of each part of S.
Adds(f, S, w) ==
  f = [T \in SUBSET S |-> IF T = {} THEN 0 ELSE w[Some(T)] + f[T \ {Some(T)}]]
Summed(S, w) == CHOOSE f : Adds(f, S, w)
SumOf(S, w) == Summed(S, w)[S]

LEMMA SomeIs == ASSUME NEW T, T # {} PROVE Some(T) \in T
BY DEF Some

\* There is but one such function.
LEMMA SumsAgree ==
  ASSUME NEW S, IsFiniteSet(S), NEW w, NEW f, Adds(f, S, w), NEW T \in SUBSET S, NEW g, Adds(g, T, w)
  PROVE  f[T] = g[T]
<1> DEFINE Bad == {U \in SUBSET T : f[U] # g[U]}
<1>1. ASSUME Bad # {} PROVE FALSE
  <2>1. IsFiniteSet(T) BY FS_Subset
  <2>2. PICK U \in Bad : \A V \in Bad : V \subseteq U => V = U
    <3>1. Bad \in SUBSET SUBSET T OBVIOUS
    <3> HIDE DEF Bad
    <3> QED BY <1>1, <2>1, <3>1, SmallestPart
  <2>3. U \in SUBSET T /\ U \in SUBSET S /\ f[U] # g[U] BY <2>2
  <2>4. CASE U = {} BY <2>3, <2>4 DEF Adds
  <2>5. CASE U # {}
    <3>1. Some(U) \in U BY <2>5, SomeIs
    <3>2. U \ {Some(U)} \in SUBSET T /\ U \ {Some(U)} \notin Bad BY <2>2, <2>3, <3>1
    <3>3. f[U \ {Some(U)}] = g[U \ {Some(U)}] BY <3>2
    <3>4. f[U] = w[Some(U)] + f[U \ {Some(U)}] BY <2>3, <2>5 DEF Adds
    <3>5. g[U] = w[Some(U)] + g[U \ {Some(U)}] BY <2>3, <2>5 DEF Adds
    <3> QED BY <2>3, <3>3, <3>4, <3>5
  <2> QED BY <2>4, <2>5
<1> QED BY <1>1

\* The equation of the sum, when its parts have one.
LEMMA SumStepIf ==
  ASSUME NEW S, IsFiniteSet(S), NEW w,
         \E f : Adds(f, S, w), \A x \in S : \E f : Adds(f, S \ {x}, w)
  PROVE  SumOf(S, w) = IF S = {} THEN 0 ELSE w[Some(S)] + SumOf(S \ {Some(S)}, w)
<1>1. Adds(Summed(S, w), S, w) BY Zenon DEF Summed
<1>2. CASE S = {} BY <1>1, <1>2 DEF Adds, SumOf
<1>3. CASE S # {}
  <2> DEFINE T == S \ {Some(S)}
  <2>1. Some(S) \in S BY <1>3, SomeIs
  <2>2. Adds(Summed(T, w), T, w) BY <2>1, Zenon DEF Summed
  <2>3. Summed(S, w)[T] = Summed(T, w)[T] BY <1>1, <2>2, SumsAgree
  <2>4. Summed(S, w)[S] = w[Some(S)] + Summed(S, w)[T] BY <1>1, <1>3 DEF Adds
  <2> QED BY <1>3, <2>3, <2>4 DEF SumOf
<1> QED BY <1>2, <1>3

\* Every finite set has a sum.
LEMMA SumExists ==
  ASSUME NEW S, IsFiniteSet(S), NEW w
  PROVE  \E f : Adds(f, S, w)
<1> DEFINE Bad == {U \in SUBSET S : ~ \E f : Adds(f, U, w)}
<1>1. ASSUME Bad # {} PROVE FALSE
  <2>1. PICK U \in Bad : \A V \in Bad : V \subseteq U => V = U
    <3>1. Bad \in SUBSET SUBSET S OBVIOUS
    <3> HIDE DEF Bad
    <3> QED BY <1>1, <3>1, SmallestPart
  <2>2. U \in SUBSET S /\ IsFiniteSet(U) BY FS_Subset
  <2>3. ASSUME NEW V \in SUBSET U, V # U PROVE \E f : Adds(f, V, w) BY <2>1, <2>2, <2>3
  <2> DEFINE h == [T \in SUBSET U |-> IF T = {} THEN 0 ELSE w[Some(T)] + SumOf(T \ {Some(T)}, w)]
  <2>4. ASSUME NEW T \in SUBSET U, T # {} PROVE h[T \ {Some(T)}] = SumOf(T \ {Some(T)}, w)
    <3> DEFINE V == T \ {Some(T)}
    <3>1. V \in SUBSET U /\ V # U BY <2>4, SomeIs
    <3>2. IsFiniteSet(V) BY <2>2, <3>1, FS_Subset
    <3>3. \A x \in V : V \ {x} \in SUBSET U /\ V \ {x} # U BY <3>1
    <3>4. SumOf(V, w) = IF V = {} THEN 0 ELSE w[Some(V)] + SumOf(V \ {Some(V)}, w)
      BY <2>3, <3>1, <3>2, <3>3, SumStepIf
    <3> QED BY <3>1, <3>4
  <2>5. Adds(h, U, w)
    <3>1. \A T \in SUBSET U : h[T] = IF T = {} THEN 0 ELSE w[Some(T)] + h[T \ {Some(T)}]
      BY <2>4
    <3>2. h = [T \in SUBSET U |-> h[T]] OBVIOUS
    <3> HIDE DEF h
    <3> QED BY <3>1, <3>2 DEF Adds
  <2> QED BY <2>1, <2>5
<1> QED BY <1>1

\* Every finite set satisfies the equation of the sum.
LEMMA SumStep ==
  ASSUME NEW S, IsFiniteSet(S), NEW w
  PROVE  SumOf(S, w) = IF S = {} THEN 0 ELSE w[Some(S)] + SumOf(S \ {Some(S)}, w)
<1>1. \A x \in S : IsFiniteSet(S \ {x}) BY FS_Subset
<1> QED BY <1>1, SumExists, SumStepIf

\* Sums of natural numbers are natural numbers.
LEMMA SumType ==
  ASSUME NEW S, IsFiniteSet(S), NEW w, \A x \in S : w[x] \in Nat
  PROVE  SumOf(S, w) \in Nat
<1> DEFINE Bad == {U \in SUBSET S : SumOf(U, w) \notin Nat}
<1>1. ASSUME Bad # {} PROVE FALSE
  <2>1. PICK U \in Bad : \A V \in Bad : V \subseteq U => V = U
    <3>1. Bad \in SUBSET SUBSET S OBVIOUS
    <3> HIDE DEF Bad
    <3> QED BY <1>1, <3>1, SmallestPart
  <2>2. IsFiniteSet(U) BY FS_Subset
  <2>3. U # {} => Some(U) \in U /\ U \ {Some(U)} \notin Bad BY <2>1, SomeIs
  <2>4. U # {} => w[Some(U)] \in Nat /\ SumOf(U \ {Some(U)}, w) \in Nat BY <2>1, <2>3
  <2>5. SumOf(U, w) = IF U = {} THEN 0 ELSE w[Some(U)] + SumOf(U \ {Some(U)}, w) BY <2>2, SumStep
  <2> QED BY <2>1, <2>4, <2>5
<1> QED BY <1>1

\* It does not matter which term is taken first.
LEMMA SumWithout ==
  ASSUME NEW S, IsFiniteSet(S), NEW w, \A x \in S : w[x] \in Nat, NEW x \in S
  PROVE  SumOf(S, w) = w[x] + SumOf(S \ {x}, w)
<1> DEFINE Bad == {U \in SUBSET S : \E y \in U : SumOf(U, w) # w[y] + SumOf(U \ {y}, w)}
<1>1. ASSUME Bad # {} PROVE FALSE
  <2>1. PICK U \in Bad : \A V \in Bad : V \subseteq U => V = U
    <3>1. Bad \in SUBSET SUBSET S OBVIOUS
    <3> HIDE DEF Bad
    <3> QED BY <1>1, <3>1, SmallestPart
  <2>2. PICK y \in U : SumOf(U, w) # w[y] + SumOf(U \ {y}, w) BY <2>1
  <2>3. \A V \in SUBSET U : IsFiniteSet(V) /\ SumOf(V, w) \in Nat BY FS_Subset, SumType
  <2> DEFINE z == Some(U)
  <2>4. z \in U /\ SumOf(U, w) = w[z] + SumOf(U \ {z}, w) BY <2>3, SomeIs, SumStep
  <2> HIDE DEF z
  <2>5. y # z BY <2>2, <2>4
  <2>6. U \ {z} \notin Bad /\ U \ {y} \notin Bad BY <2>1, <2>4
  <2>7. SumOf(U \ {z}, w) = w[y] + SumOf((U \ {z}) \ {y}, w) BY <2>5, <2>6
  <2>8. SumOf(U \ {y}, w) = w[z] + SumOf((U \ {y}) \ {z}, w) BY <2>4, <2>5, <2>6
  <2>9. (U \ {z}) \ {y} = (U \ {y}) \ {z} OBVIOUS
  <2>10. w[y] \in Nat /\ w[z] \in Nat /\ SumOf((U \ {y}) \ {z}, w) \in Nat BY <2>3, <2>4
  <2> QED BY <2>2, <2>4, <2>7, <2>8, <2>9, <2>10
<1> QED BY <1>1

-----------------------------------------------------------------------------
(* Findings                                                                 *)

Code ==
  {"CPU_CRITICAL_LOAD", "CPU_HIGH_LOAD", "RAM_CRITICAL", "RAM_LOW", "SMART_DEGRADED",
   "DISK_CRITICAL_SPACE", "DISK_LOW_SPACE", "AV_DISABLED", "FIREWALL_DISABLED",
   "REBOOT_PENDING", "UPDATES_STALE", "DEVICE_OFFLINE", "MULTIPLE_CRITICAL_EVENTS",
   "CRITICAL_SYSTEM_EVENT", "LOW_PHYSICAL_RAM", "LOW_CPU_CORES"}
Category == {"performance", "storage", "security", "updates", "stability", "hardware"}

\* The weight of a category, in percent.
WeightOf(c) ==
  IF c \in {"performance", "storage", "security"} THEN 20
  ELSE IF c \in {"updates", "stability"} THEN 15 ELSE 10

Stale == Penalty("UPDATES_STALE", "updates", 35, 5)

\* What is known of every finding: it costs enough to be seen, and what it costs is at most
\* what it is said to cost, but for one that is said to cost a little less.
Finding ==
  {p \in [code : Code, category : Category, cost : Nat, points : Nat] :
     /\ WeightOf(p.category) * p.cost > 50
     /\ \/ WeightOf(p.category) * p.cost <= 100 * p.points
        \/ p = Stale /\ WeightOf(p.category) * p.cost <= 100 * p.points + 25}

\* What makes a penalty a finding.
LEMMA IsFinding ==
  ASSUME NEW code \in Code, NEW category \in Category, NEW cost \in Nat, NEW points \in Nat,
         NEW w \in Nat, w = WeightOf(category), w * cost > 50,
         \/ w * cost <= 100 * points
         \/ Penalty(code, category, cost, points) = Stale /\ w * cost <= 100 * points + 25
  PROVE  Penalty(code, category, cost, points) \in Finding
<1> DEFINE p == Penalty(code, category, cost, points)
<1>1. p \in [code : Code, category : Category, cost : Nat, points : Nat] BY DEF Penalty
<1>2. p.category = category /\ p.cost = cost /\ p.points = points BY DEF Penalty
<1>3. w * cost <= 100 * points \/ (p = Stale /\ w * cost <= 100 * points + 25) OBVIOUS
<1> HIDE DEF p
<1>4. p \in Finding BY <1>1, <1>2, <1>3 DEF Finding
<1> QED BY <1>4 DEF p

LEMMA WhenFound ==
  ASSUME NEW condition, NEW p \in Finding
  PROVE  When(condition, p) \in SUBSET Finding /\ IsFiniteSet(When(condition, p))
BY FS_EmptySet, FS_Singleton DEF When

LEMMA BothFound ==
  ASSUME NEW A \in SUBSET Finding, IsFiniteSet(A), NEW B \in SUBSET Finding, IsFiniteSet(B)
  PROVE  A \cup B \in SUBSET Finding /\ IsFiniteSet(A \cup B)
BY FS_Union

\* Whatever is known of a device, what is found is a finite set of findings.
LEMMA Found ==
  ASSUME NEW f, NEW status
  PROVE  Penalties(f, status) \in SUBSET Finding /\ IsFiniteSet(Penalties(f, status))
<1> DEFINE Known(A) == A \in SUBSET Finding /\ IsFiniteSet(A)
<1>1. ASSUME NEW A, NEW B, Known(A), Known(B) PROVE Known(A \cup B) BY <1>1, BothFound
<1>2. Known(LoadPenalties(f))
  <2> DEFINE
       A == When(f.cpu = "critical", Penalty("CPU_CRITICAL_LOAD", "performance", 50, 10))
       B == When(f.cpu = "bad", Penalty("CPU_HIGH_LOAD", "performance", 25, 5))
       C == When(f.memory = "critical", Penalty("RAM_CRITICAL", "performance", 50, 10))
       D == When(f.memory = "bad", Penalty("RAM_LOW", "performance", 25, 5))
       E == When(f.smart, Penalty("SMART_DEGRADED", "storage", 70, 15))
       G == When(f.disk = "critical", Penalty("DISK_CRITICAL_SPACE", "storage", 50, 10))
       H == When(f.disk = "bad", Penalty("DISK_LOW_SPACE", "storage", 25, 5))
  <2>1. Known(A)
    <3>1. WeightOf("performance") = 20 BY DEF WeightOf
    <3>2. "CPU_CRITICAL_LOAD" \in Code /\ "performance" \in Category BY DEF Code, Category
    <3>3. 50 \in Nat /\ 10 \in Nat /\ 20 \in Nat OBVIOUS
    <3>4. 20 * 50 > 50 /\ 20 * 50 <= 100 * 10 OBVIOUS
    <3>5. Penalty("CPU_CRITICAL_LOAD", "performance", 50, 10) \in Finding
      BY <3>1, <3>2, <3>3, <3>4, IsFinding, Zenon
    <3> QED BY <3>5, WhenFound
  <2>2. Known(B)
    <3>1. WeightOf("performance") = 20 BY DEF WeightOf
    <3>2. "CPU_HIGH_LOAD" \in Code /\ "performance" \in Category BY DEF Code, Category
    <3>3. 25 \in Nat /\ 5 \in Nat /\ 20 \in Nat OBVIOUS
    <3>4. 20 * 25 > 50 /\ 20 * 25 <= 100 * 5 OBVIOUS
    <3>5. Penalty("CPU_HIGH_LOAD", "performance", 25, 5) \in Finding
      BY <3>1, <3>2, <3>3, <3>4, IsFinding, Zenon
    <3> QED BY <3>5, WhenFound
  <2>3. Known(C)
    <3>1. WeightOf("performance") = 20 BY DEF WeightOf
    <3>2. "RAM_CRITICAL" \in Code /\ "performance" \in Category BY DEF Code, Category
    <3>3. 50 \in Nat /\ 10 \in Nat /\ 20 \in Nat OBVIOUS
    <3>4. 20 * 50 > 50 /\ 20 * 50 <= 100 * 10 OBVIOUS
    <3>5. Penalty("RAM_CRITICAL", "performance", 50, 10) \in Finding
      BY <3>1, <3>2, <3>3, <3>4, IsFinding, Zenon
    <3> QED BY <3>5, WhenFound
  <2>4. Known(D)
    <3>1. WeightOf("performance") = 20 BY DEF WeightOf
    <3>2. "RAM_LOW" \in Code /\ "performance" \in Category BY DEF Code, Category
    <3>3. 25 \in Nat /\ 5 \in Nat /\ 20 \in Nat OBVIOUS
    <3>4. 20 * 25 > 50 /\ 20 * 25 <= 100 * 5 OBVIOUS
    <3>5. Penalty("RAM_LOW", "performance", 25, 5) \in Finding
      BY <3>1, <3>2, <3>3, <3>4, IsFinding, Zenon
    <3> QED BY <3>5, WhenFound
  <2>5. Known(E)
    <3>1. WeightOf("storage") = 20 BY DEF WeightOf
    <3>2. "SMART_DEGRADED" \in Code /\ "storage" \in Category BY DEF Code, Category
    <3>3. 70 \in Nat /\ 15 \in Nat /\ 20 \in Nat OBVIOUS
    <3>4. 20 * 70 > 50 /\ 20 * 70 <= 100 * 15 OBVIOUS
    <3>5. Penalty("SMART_DEGRADED", "storage", 70, 15) \in Finding
      BY <3>1, <3>2, <3>3, <3>4, IsFinding, Zenon
    <3> QED BY <3>5, WhenFound
  <2>6. Known(G)
    <3>1. WeightOf("storage") = 20 BY DEF WeightOf
    <3>2. "DISK_CRITICAL_SPACE" \in Code /\ "storage" \in Category BY DEF Code, Category
    <3>3. 50 \in Nat /\ 10 \in Nat /\ 20 \in Nat OBVIOUS
    <3>4. 20 * 50 > 50 /\ 20 * 50 <= 100 * 10 OBVIOUS
    <3>5. Penalty("DISK_CRITICAL_SPACE", "storage", 50, 10) \in Finding
      BY <3>1, <3>2, <3>3, <3>4, IsFinding, Zenon
    <3> QED BY <3>5, WhenFound
  <2>7. Known(H)
    <3>1. WeightOf("storage") = 20 BY DEF WeightOf
    <3>2. "DISK_LOW_SPACE" \in Code /\ "storage" \in Category BY DEF Code, Category
    <3>3. 25 \in Nat /\ 5 \in Nat /\ 20 \in Nat OBVIOUS
    <3>4. 20 * 25 > 50 /\ 20 * 25 <= 100 * 5 OBVIOUS
    <3>5. Penalty("DISK_LOW_SPACE", "storage", 25, 5) \in Finding
      BY <3>1, <3>2, <3>3, <3>4, IsFinding, Zenon
    <3> QED BY <3>5, WhenFound
  <2>8. LoadPenalties(f) = (((((A \cup B) \cup C) \cup D) \cup E) \cup G) \cup H
    <3>1. LoadPenalties(f) = UNION {A, B, C, D, E, G, H} BY DEF LoadPenalties
    <3> HIDE DEF A, B, C, D, E, G, H
    <3> QED BY <3>1
  <2> HIDE DEF Known, A, B, C, D, E, G, H
  <2> QED BY <2>1, <2>2, <2>3, <2>4, <2>5, <2>6, <2>7, <2>8, <1>1
<1>3. Known(PosturePenalties(f))
  <2> DEFINE
       A == When(~f.antivirus, Penalty("AV_DISABLED", "security", 75, 15))
       B == When(~f.firewall, Penalty("FIREWALL_DISABLED", "security", 25, 5))
       C == When(f.reboot, Penalty("REBOOT_PENDING", "updates", 65, 10))
       D == When(~f.hotfixes, Penalty("UPDATES_STALE", "updates", 35, 5))
  <2>1. Known(A)
    <3>1. WeightOf("security") = 20 BY DEF WeightOf
    <3>2. "AV_DISABLED" \in Code /\ "security" \in Category BY DEF Code, Category
    <3>3. 75 \in Nat /\ 15 \in Nat /\ 20 \in Nat OBVIOUS
    <3>4. 20 * 75 > 50 /\ 20 * 75 <= 100 * 15 OBVIOUS
    <3>5. Penalty("AV_DISABLED", "security", 75, 15) \in Finding
      BY <3>1, <3>2, <3>3, <3>4, IsFinding, Zenon
    <3> QED BY <3>5, WhenFound
  <2>2. Known(B)
    <3>1. WeightOf("security") = 20 BY DEF WeightOf
    <3>2. "FIREWALL_DISABLED" \in Code /\ "security" \in Category BY DEF Code, Category
    <3>3. 25 \in Nat /\ 5 \in Nat /\ 20 \in Nat OBVIOUS
    <3>4. 20 * 25 > 50 /\ 20 * 25 <= 100 * 5 OBVIOUS
    <3>5. Penalty("FIREWALL_DISABLED", "security", 25, 5) \in Finding
      BY <3>1, <3>2, <3>3, <3>4, IsFinding, Zenon
    <3> QED BY <3>5, WhenFound
  <2>3. Known(C)
    <3>1. WeightOf("updates") = 15 BY DEF WeightOf
    <3>2. "REBOOT_PENDING" \in Code /\ "updates" \in Category BY DEF Code, Category
    <3>3. 65 \in Nat /\ 10 \in Nat /\ 15 \in Nat OBVIOUS
    <3>4. 15 * 65 > 50 /\ 15 * 65 <= 100 * 10 OBVIOUS
    <3>5. Penalty("REBOOT_PENDING", "updates", 65, 10) \in Finding
      BY <3>1, <3>2, <3>3, <3>4, IsFinding, Zenon
    <3> QED BY <3>5, WhenFound
  <2>4. Known(D)
    <3>1. WeightOf("updates") = 15 BY DEF WeightOf
    <3>2. "UPDATES_STALE" \in Code /\ "updates" \in Category BY DEF Code, Category
    <3>3. 35 \in Nat /\ 5 \in Nat /\ 15 \in Nat OBVIOUS
    <3>4. 15 * 35 > 50 /\ 15 * 35 <= 100 * 5 + 25 OBVIOUS
    <3>5. Penalty("UPDATES_STALE", "updates", 35, 5) \in Finding
      BY <3>1, <3>2, <3>3, <3>4, IsFinding, Zenon DEF Stale
    <3> QED BY <3>5, WhenFound
  <2>5. PosturePenalties(f) = ((A \cup B) \cup C) \cup D
    <3>1. PosturePenalties(f) = UNION {A, B, C, D} BY DEF PosturePenalties
    <3> HIDE DEF A, B, C, D
    <3> QED BY <3>1
  <2> HIDE DEF Known, A, B, C, D
  <2> QED BY <2>1, <2>2, <2>3, <2>4, <2>5, <1>1
<1>4. Known(StabilityPenalties(f, status))
  <2> DEFINE
       A == When(status # "ONLINE", Penalty("DEVICE_OFFLINE", "stability", 80, 15))
       B == When(f.incidents = 2, Penalty("MULTIPLE_CRITICAL_EVENTS", "stability", 60, 10))
       C == When(f.incidents = 1, Penalty("CRITICAL_SYSTEM_EVENT", "stability", 30, 5))
       D == When(f.smallMemory, Penalty("LOW_PHYSICAL_RAM", "hardware", 50, 5))
       E == When(f.oneCore, Penalty("LOW_CPU_CORES", "hardware", 50, 5))
  <2>1. Known(A)
    <3>1. WeightOf("stability") = 15 BY DEF WeightOf
    <3>2. "DEVICE_OFFLINE" \in Code /\ "stability" \in Category BY DEF Code, Category
    <3>3. 80 \in Nat /\ 15 \in Nat /\ 15 \in Nat OBVIOUS
    <3>4. 15 * 80 > 50 /\ 15 * 80 <= 100 * 15 OBVIOUS
    <3>5. Penalty("DEVICE_OFFLINE", "stability", 80, 15) \in Finding
      BY <3>1, <3>2, <3>3, <3>4, IsFinding, Zenon
    <3> QED BY <3>5, WhenFound
  <2>2. Known(B)
    <3>1. WeightOf("stability") = 15 BY DEF WeightOf
    <3>2. "MULTIPLE_CRITICAL_EVENTS" \in Code /\ "stability" \in Category BY DEF Code, Category
    <3>3. 60 \in Nat /\ 10 \in Nat /\ 15 \in Nat OBVIOUS
    <3>4. 15 * 60 > 50 /\ 15 * 60 <= 100 * 10 OBVIOUS
    <3>5. Penalty("MULTIPLE_CRITICAL_EVENTS", "stability", 60, 10) \in Finding
      BY <3>1, <3>2, <3>3, <3>4, IsFinding, Zenon
    <3> QED BY <3>5, WhenFound
  <2>3. Known(C)
    <3>1. WeightOf("stability") = 15 BY DEF WeightOf
    <3>2. "CRITICAL_SYSTEM_EVENT" \in Code /\ "stability" \in Category BY DEF Code, Category
    <3>3. 30 \in Nat /\ 5 \in Nat /\ 15 \in Nat OBVIOUS
    <3>4. 15 * 30 > 50 /\ 15 * 30 <= 100 * 5 OBVIOUS
    <3>5. Penalty("CRITICAL_SYSTEM_EVENT", "stability", 30, 5) \in Finding
      BY <3>1, <3>2, <3>3, <3>4, IsFinding, Zenon
    <3> QED BY <3>5, WhenFound
  <2>4. Known(D)
    <3>1. WeightOf("hardware") = 10 BY DEF WeightOf
    <3>2. "LOW_PHYSICAL_RAM" \in Code /\ "hardware" \in Category BY DEF Code, Category
    <3>3. 50 \in Nat /\ 5 \in Nat /\ 10 \in Nat OBVIOUS
    <3>4. 10 * 50 > 50 /\ 10 * 50 <= 100 * 5 OBVIOUS
    <3>5. Penalty("LOW_PHYSICAL_RAM", "hardware", 50, 5) \in Finding
      BY <3>1, <3>2, <3>3, <3>4, IsFinding, Zenon
    <3> QED BY <3>5, WhenFound
  <2>5. Known(E)
    <3>1. WeightOf("hardware") = 10 BY DEF WeightOf
    <3>2. "LOW_CPU_CORES" \in Code /\ "hardware" \in Category BY DEF Code, Category
    <3>3. 50 \in Nat /\ 5 \in Nat /\ 10 \in Nat OBVIOUS
    <3>4. 10 * 50 > 50 /\ 10 * 50 <= 100 * 5 OBVIOUS
    <3>5. Penalty("LOW_CPU_CORES", "hardware", 50, 5) \in Finding
      BY <3>1, <3>2, <3>3, <3>4, IsFinding, Zenon
    <3> QED BY <3>5, WhenFound
  <2>6. StabilityPenalties(f, status) = (((A \cup B) \cup C) \cup D) \cup E
    <3>1. StabilityPenalties(f, status) = UNION {A, B, C, D, E} BY DEF StabilityPenalties
    <3> HIDE DEF A, B, C, D, E
    <3> QED BY <3>1
  <2> HIDE DEF Known, A, B, C, D, E
  <2> QED BY <2>1, <2>2, <2>3, <2>4, <2>5, <2>6, <1>1
<1>5. Penalties(f, status) = (LoadPenalties(f) \cup PosturePenalties(f)) \cup StabilityPenalties(f, status)
  BY DEF Penalties
<1> HIDE DEF Known
<1>6. Known(Penalties(f, status)) BY <1>1, <1>2, <1>3, <1>4, <1>5
<1> QED BY <1>6 DEF Known

CostWeight == [p \in Finding |-> p.cost]
PointWeight == [p \in Finding |-> p.points]

\* Costs and points are sums.
LEMMA CostIsSum ==
  ASSUME NEW S \in SUBSET Finding
  PROVE  MapThenSumSet(LAMBDA p : p.cost, S) = SumOf(S, CostWeight)
<1> DEFINE Sums(f) == f = [T \in SUBSET S |-> IF T = {} THEN 0
                             ELSE (CHOOSE x \in T : TRUE).cost + f[T \ {CHOOSE x \in T : TRUE}]]
<1>1. MapThenSumSet(LAMBDA p : p.cost, S) = (CHOOSE f : Sums(f))[S]
  BY Zenon DEF MapThenSumSet, MapThenFoldSet
<1>2. ASSUME NEW f PROVE Sums(f) <=> Adds(f, S, CostWeight)
  <2>1. ASSUME NEW T \in SUBSET S
        PROVE  (IF T = {} THEN 0
                ELSE (CHOOSE x \in T : TRUE).cost + f[T \ {CHOOSE x \in T : TRUE}])
               = (IF T = {} THEN 0 ELSE CostWeight[Some(T)] + f[T \ {Some(T)}])
    <3>1. Some(T) = CHOOSE x \in T : TRUE BY DEF Some
    <3>2. T # {} => Some(T) \in Finding BY SomeIs
    <3>3. T # {} => CostWeight[Some(T)] = Some(T).cost BY <3>2 DEF CostWeight
    <3> QED BY <3>1, <3>3
  <2>2. [T \in SUBSET S |-> IF T = {} THEN 0
           ELSE (CHOOSE x \in T : TRUE).cost + f[T \ {CHOOSE x \in T : TRUE}]]
        = [T \in SUBSET S |-> IF T = {} THEN 0 ELSE CostWeight[Some(T)] + f[T \ {Some(T)}]]
    BY <2>1
  <2> QED BY <2>2 DEF Adds
<1> HIDE DEF Sums
<1>3. (CHOOSE f : Sums(f)) = (CHOOSE f : Adds(f, S, CostWeight)) BY <1>2, Zenon
<1> QED BY <1>1, <1>3 DEF SumOf, Summed

LEMMA PointsAreSum ==
  ASSUME NEW S \in SUBSET Finding
  PROVE  PointsOf(S) = SumOf(S, PointWeight)
<1> DEFINE Sums(f) == f = [T \in SUBSET S |-> IF T = {} THEN 0
                             ELSE (CHOOSE x \in T : TRUE).points + f[T \ {CHOOSE x \in T : TRUE}]]
<1>1. PointsOf(S) = (CHOOSE f : Sums(f))[S]
  BY Zenon DEF PointsOf, MapThenSumSet, MapThenFoldSet
<1>2. ASSUME NEW f PROVE Sums(f) <=> Adds(f, S, PointWeight)
  <2>1. ASSUME NEW T \in SUBSET S
        PROVE  (IF T = {} THEN 0
                ELSE (CHOOSE x \in T : TRUE).points + f[T \ {CHOOSE x \in T : TRUE}])
               = (IF T = {} THEN 0 ELSE PointWeight[Some(T)] + f[T \ {Some(T)}])
    <3>1. Some(T) = CHOOSE x \in T : TRUE BY DEF Some
    <3>2. T # {} => Some(T) \in Finding BY SomeIs
    <3>3. T # {} => PointWeight[Some(T)] = Some(T).points BY <3>2 DEF PointWeight
    <3> QED BY <3>1, <3>3
  <2>2. [T \in SUBSET S |-> IF T = {} THEN 0
           ELSE (CHOOSE x \in T : TRUE).points + f[T \ {CHOOSE x \in T : TRUE}]]
        = [T \in SUBSET S |-> IF T = {} THEN 0 ELSE PointWeight[Some(T)] + f[T \ {Some(T)}]]
    BY <2>1
  <2> QED BY <2>2 DEF Adds
<1> HIDE DEF Sums
<1>3. (CHOOSE f : Sums(f)) = (CHOOSE f : Adds(f, S, PointWeight)) BY <1>2, Zenon
<1> QED BY <1>1, <1>3 DEF SumOf, Summed

\* What a finding adds to the costs and to the points.
LEMMA CostStep ==
  ASSUME NEW P \in SUBSET Finding, IsFiniteSet(P), NEW c
  PROVE  /\ CostOf(P, c) \in Nat
         /\ \A p \in P : CostOf(P, c) = (IF p.category = c THEN p.cost ELSE 0) + CostOf(P \ {p}, c)
<1> DEFINE In(S) == {p \in S : p.category = c}
<1>1. In(P) \in SUBSET Finding /\ IsFiniteSet(In(P)) BY FS_Subset
<1>2. \A p \in In(P) : CostWeight[p] = p.cost /\ CostWeight[p] \in Nat BY DEF CostWeight, Finding
<1>3. \A S \in SUBSET P : CostOf(S, c) = SumOf(In(S), CostWeight) BY CostIsSum DEF CostOf
<1>4. CostOf(P, c) \in Nat BY <1>1, <1>2, <1>3, SumType
<1>5. ASSUME NEW p \in P
      PROVE  CostOf(P, c) = (IF p.category = c THEN p.cost ELSE 0) + CostOf(P \ {p}, c)
  <2>1. CASE p.category = c
    <3>1. p \in In(P) /\ In(P \ {p}) = In(P) \ {p} BY <2>1
    <3>2. CostWeight[p] = p.cost BY <1>2, <3>1
    <3> HIDE DEF In
    <3>3. SumOf(In(P), CostWeight) = CostWeight[p] + SumOf(In(P) \ {p}, CostWeight)
      BY <1>1, <1>2, <3>1, SumWithout
    <3> QED BY <1>3, <2>1, <3>1, <3>2, <3>3
  <2>2. CASE p.category # c
    <3>1. In(P \ {p}) = In(P) BY <2>2
    <3> HIDE DEF In
    <3>2. CostOf(P \ {p}, c) = CostOf(P, c) BY <1>3, <3>1
    <3> QED BY <1>4, <2>2, <3>2
  <2> QED BY <2>1, <2>2
<1> QED BY <1>4, <1>5

LEMMA PointsStep ==
  ASSUME NEW P \in SUBSET Finding, IsFiniteSet(P)
  PROVE  PointsOf(P) \in Nat /\ \A p \in P : PointsOf(P) = p.points + PointsOf(P \ {p})
<1>1. \A p \in P : PointWeight[p] = p.points /\ PointWeight[p] \in Nat BY DEF PointWeight, Finding
<1>2. \A S \in SUBSET P : PointsOf(S) = SumOf(S, PointWeight) BY PointsAreSum
<1>3. PointsOf(P) \in Nat BY <1>1, <1>2, SumType
<1>4. ASSUME NEW p \in P PROVE PointsOf(P) = p.points + PointsOf(P \ {p})
  <2>1. SumOf(P, PointWeight) = PointWeight[p] + SumOf(P \ {p}, PointWeight) BY <1>1, SumWithout
  <2> QED BY <1>1, <1>2, <2>1
<1> QED BY <1>3, <1>4
-----------------------------------------------------------------------------
(* The score                                                                *)

\* What the findings take from the score, in hundredths, before the categories are cut off.
LossOf(P) ==
  20 * CostOf(P, "performance") + 20 * CostOf(P, "storage") + 20 * CostOf(P, "security")
    + 15 * CostOf(P, "updates") + 15 * CostOf(P, "stability") + 10 * CostOf(P, "hardware")

\* What is left of a hundred in each category, in hundredths of the score.
RestOf(P) ==
  20 * Subscore(P, "performance") + 20 * Subscore(P, "storage") + 20 * Subscore(P, "security")
    + 15 * Subscore(P, "updates") + 15 * Subscore(P, "stability") + 10 * Subscore(P, "hardware")

\* The weighted cost of a finding.
TermOf(p) == WeightOf(p.category) * p.cost

LEMMA LossStep ==
  ASSUME NEW P \in SUBSET Finding, IsFiniteSet(P)
  PROVE  LossOf(P) \in Nat /\ \A p \in P : TermOf(p) \in Nat /\ LossOf(P) = TermOf(p) + LossOf(P \ {p})
<1>1. \A c \in Category : CostOf(P, c) \in Nat BY CostStep
<1>2. LossOf(P) \in Nat BY <1>1 DEF LossOf, Category
<1>3. ASSUME NEW p \in P PROVE TermOf(p) \in Nat /\ LossOf(P) = TermOf(p) + LossOf(P \ {p})
  <2>1. p.category \in Category /\ p.cost \in Nat BY DEF Finding
  <2>2. P \ {p} \in SUBSET Finding /\ IsFiniteSet(P \ {p}) BY FS_Subset
  <2>3. \A c \in Category : CostOf(P \ {p}, c) \in Nat BY <2>2, CostStep
  <2>4. \A c \in Category : CostOf(P, c) = (IF p.category = c THEN p.cost ELSE 0) + CostOf(P \ {p}, c)
    BY CostStep
  <2> DEFINE a(c) == CostOf(P, c)
             b(c) == CostOf(P \ {p}, c)
  <2>5. \A c \in Category : a(c) \in Nat /\ b(c) \in Nat BY <1>1, <2>3
  <2>6. \A c \in Category : p.category = c => a(c) = p.cost + b(c) BY <2>4
  <2>7. \A c \in Category : p.category # c => a(c) = b(c)
    <3> TAKE c \in Category
    <3> HAVE p.category # c
    <3>1. CostOf(P, c) = 0 + CostOf(P \ {p}, c) BY <2>4
    <3> QED BY <2>3, <3>1
  <2>8. LossOf(P) = 20 * a("performance") + 20 * a("storage") + 20 * a("security")
          + 15 * a("updates") + 15 * a("stability") + 10 * a("hardware") BY DEF LossOf
  <2>9. LossOf(P \ {p}) = 20 * b("performance") + 20 * b("storage") + 20 * b("security")
          + 15 * b("updates") + 15 * b("stability") + 10 * b("hardware") BY DEF LossOf
  <2> HIDE DEF a, b
  <2>10. CASE p.category = "performance"
    <3>1. TermOf(p) = 20 * p.cost BY <2>10 DEF TermOf, WeightOf
    <3> QED BY <2>1, <2>5, <2>6, <2>7, <2>8, <2>9, <2>10, <3>1 DEF Category
  <2>11. CASE p.category = "storage"
    <3>1. TermOf(p) = 20 * p.cost BY <2>11 DEF TermOf, WeightOf
    <3> QED BY <2>1, <2>5, <2>6, <2>7, <2>8, <2>9, <2>11, <3>1 DEF Category
  <2>12. CASE p.category = "security"
    <3>1. TermOf(p) = 20 * p.cost BY <2>12 DEF TermOf, WeightOf
    <3> QED BY <2>1, <2>5, <2>6, <2>7, <2>8, <2>9, <2>12, <3>1 DEF Category
  <2>13. CASE p.category = "updates"
    <3>1. TermOf(p) = 15 * p.cost BY <2>13 DEF TermOf, WeightOf
    <3> QED BY <2>1, <2>5, <2>6, <2>7, <2>8, <2>9, <2>13, <3>1 DEF Category
  <2>14. CASE p.category = "stability"
    <3>1. TermOf(p) = 15 * p.cost BY <2>14 DEF TermOf, WeightOf
    <3> QED BY <2>1, <2>5, <2>6, <2>7, <2>8, <2>9, <2>14, <3>1 DEF Category
  <2>15. CASE p.category = "hardware"
    <3>1. TermOf(p) = 10 * p.cost BY <2>15 DEF TermOf, WeightOf
    <3> QED BY <2>1, <2>5, <2>6, <2>7, <2>8, <2>9, <2>15, <3>1 DEF Category
  <2> QED BY <2>1, <2>10, <2>11, <2>12, <2>13, <2>14, <2>15 DEF Category
<1> QED BY <1>2, <1>3

LEMMA NoLoss == PointsOf({}) = 0 /\ \A c : CostOf({}, c) = 0
<1>1. IsFiniteSet({}) BY FS_EmptySet
<1>2. SumOf({}, PointWeight) = 0 /\ SumOf({}, CostWeight) = 0 BY <1>1, SumStep
<1>3. PointsOf({}) = 0
  <2>1. {} \in SUBSET Finding OBVIOUS
  <2> QED BY <1>2, <2>1, PointsAreSum
<1>4. ASSUME NEW c PROVE CostOf({}, c) = 0
  <2>1. {p \in {} : p.category = c} = {} OBVIOUS
  <2>2. CostOf({}, c) = SumOf({}, CostWeight) BY <2>1, CostIsSum DEF CostOf
  <2> QED BY <1>2, <2>2
<1> QED BY <1>3, <1>4

\* Together the findings take at most what they are said to cost, and a quarter of a point.
LEMMA LossBound ==
  ASSUME NEW P \in SUBSET Finding, IsFiniteSet(P)
  PROVE  LossOf(P) <= 100 * PointsOf(P) + 25
<1> DEFINE Fair(U) == \/ LossOf(U) <= 100 * PointsOf(U)
                      \/ Stale \in U /\ LossOf(U) <= 100 * PointsOf(U) + 25
           Bad == {U \in SUBSET P : ~Fair(U)}
<1>1. \A U \in SUBSET P : IsFiniteSet(U) /\ LossOf(U) \in Nat /\ PointsOf(U) \in Nat
  BY FS_Subset, LossStep, PointsStep
<1>2. ASSUME Bad # {} PROVE FALSE
  <2>1. PICK U \in Bad : \A V \in Bad : V \subseteq U => V = U
    <3>1. Bad \in SUBSET SUBSET P OBVIOUS
    <3> HIDE DEF Bad
    <3> QED BY <1>2, <3>1, SmallestPart
  <2>2. U \in SUBSET P /\ U \in SUBSET Finding /\ ~Fair(U) BY <2>1
  <2>3. ASSUME NEW p \in U
        PROVE  /\ Fair(U \ {p}) /\ p \in Finding /\ p.points \in Nat /\ TermOf(p) \in Nat
               /\ LossOf(U) = TermOf(p) + LossOf(U \ {p})
               /\ PointsOf(U) = p.points + PointsOf(U \ {p})
               /\ LossOf(U \ {p}) \in Nat /\ PointsOf(U \ {p}) \in Nat
    <3>1. U \ {p} \in SUBSET P /\ U \ {p} # U /\ U \ {p} \subseteq U BY <2>2
    <3>2. Fair(U \ {p}) BY <2>1, <3>1
    <3>3. p \in Finding /\ p.points \in Nat BY <2>2 DEF Finding
    <3>4. TermOf(p) \in Nat /\ LossOf(U) = TermOf(p) + LossOf(U \ {p}) BY <1>1, <2>2, LossStep
    <3>5. PointsOf(U) = p.points + PointsOf(U \ {p}) BY <1>1, <2>2, PointsStep
    <3> HIDE DEF Fair
    <3> QED BY <1>1, <3>1, <3>2, <3>3, <3>4, <3>5
  <2>4. CASE U = {}
    <3>1. LossOf({}) = 0 BY NoLoss DEF LossOf
    <3> QED BY <2>2, <2>4, <3>1, NoLoss
  <2>5. CASE Stale \in U
    <3>1. LossOf(U \ {Stale}) <= 100 * PointsOf(U \ {Stale}) BY <2>3, <2>5
    <3>2. TermOf(Stale) = 525 /\ Stale.points = 5 BY DEF TermOf, Stale, Penalty, WeightOf
    <3> QED BY <2>2, <2>3, <2>5, <3>1, <3>2
  <2>6. CASE U # {} /\ Stale \notin U
    <3>1. PICK p \in U : TRUE BY <2>6
    <3>2. p # Stale BY <2>6
    <3>3. LossOf(U \ {p}) <= 100 * PointsOf(U \ {p}) BY <2>3, <2>6
    <3>4. TermOf(p) <= 100 * p.points BY <2>3, <3>2 DEF Finding, TermOf
    <3> QED BY <2>2, <2>3, <3>3, <3>4
  <2> QED BY <2>4, <2>5, <2>6
<1> QED BY <1>1, <1>2

\* What is left of a category.
LEMMA SubscoreIs ==
  ASSUME NEW P \in SUBSET Finding, IsFiniteSet(P), NEW c
  PROVE  /\ Subscore(P, c) \in 0..100
         /\ Subscore(P, c) >= 100 - CostOf(P, c)
         /\ CostOf(P, c) <= 100 => Subscore(P, c) = 100 - CostOf(P, c)
         /\ CostOf(P, c) > 100 => Subscore(P, c) = 0
<1>1. CostOf(P, c) \in Nat BY CostStep
<1> QED BY <1>1 DEF Subscore

LEMMA OverallIs ==
  ASSUME NEW P \in SUBSET Finding, IsFiniteSet(P)
  PROVE  /\ RestOf(P) \in Nat /\ RestOf(P) <= 10000
         /\ Overall(P) \in Nat /\ Overall(P) <= 100
         /\ 100 * Overall(P) <= RestOf(P) + 50
         /\ RestOf(P) + 50 < 100 * Overall(P) + 100
<1> DEFINE s(c) == Subscore(P, c)
<1>1. \A c \in Category : s(c) \in Nat /\ s(c) <= 100 BY SubscoreIs
<1>2. RestOf(P) = 20 * s("performance") + 20 * s("storage") + 20 * s("security")
        + 15 * s("updates") + 15 * s("stability") + 10 * s("hardware") BY DEF RestOf
<1>3. Overall(P) = (20 * s("performance") + 20 * s("storage") + 20 * s("security")
        + 15 * s("updates") + 15 * s("stability") + 10 * s("hardware") + 50) \div 100 BY DEF Overall
<1> HIDE DEF s
<1>4. RestOf(P) \in Nat /\ RestOf(P) <= 10000 BY <1>1, <1>2 DEF Category
<1>5. Overall(P) = (RestOf(P) + 50) \div 100 BY <1>1, <1>2, <1>3 DEF Category
<1> DEFINE n == RestOf(P) + 50
           q == n \div 100
<1>6. n \in Nat /\ n <= 10050 BY <1>4
<1> HIDE DEF n
<1>7. q \in Nat /\ 100 * q <= n /\ n < 100 * q + 100 /\ q <= 100 BY <1>6
<1> HIDE DEF q
<1>8. Overall(P) = q BY <1>5 DEF q, n
<1> QED BY <1>4, <1>7, <1>8 DEF n

\* With one finding less nothing is worse.
LEMMA OneLess ==
  ASSUME NEW P \in SUBSET Finding, IsFiniteSet(P), NEW p \in P
  PROVE  /\ \A c : Subscore(P \ {p}, c) >= Subscore(P, c)
         /\ RestOf(P \ {p}) >= RestOf(P) /\ Overall(P \ {p}) >= Overall(P)
<1>1. P \ {p} \in SUBSET Finding /\ IsFiniteSet(P \ {p}) BY FS_Subset
<1>2. ASSUME NEW c PROVE Subscore(P \ {p}, c) >= Subscore(P, c)
  <2>1. CostOf(P, c) \in Nat /\ CostOf(P \ {p}, c) \in Nat BY <1>1, CostStep
  <2>2. CostOf(P, c) = (IF p.category = c THEN p.cost ELSE 0) + CostOf(P \ {p}, c) BY CostStep
  <2>3. p.cost \in Nat BY DEF Finding
  <2>4. CostOf(P \ {p}, c) <= CostOf(P, c) BY <2>1, <2>2, <2>3
  <2> QED BY <2>1, <2>4 DEF Subscore
<1> DEFINE s(c) == Subscore(P, c)
           t(c) == Subscore(P \ {p}, c)
<1>3. \A c \in Category : s(c) \in Nat /\ t(c) \in Nat /\ t(c) >= s(c) BY <1>1, <1>2, SubscoreIs
<1>4. RestOf(P) = 20 * s("performance") + 20 * s("storage") + 20 * s("security")
        + 15 * s("updates") + 15 * s("stability") + 10 * s("hardware") BY DEF RestOf
<1>5. RestOf(P \ {p}) = 20 * t("performance") + 20 * t("storage") + 20 * t("security")
        + 15 * t("updates") + 15 * t("stability") + 10 * t("hardware") BY DEF RestOf
<1> HIDE DEF s, t
<1>6. RestOf(P \ {p}) >= RestOf(P) BY <1>3, <1>4, <1>5 DEF Category
<1>7. /\ RestOf(P) \in Nat /\ Overall(P) \in Nat /\ 100 * Overall(P) <= RestOf(P) + 50
      /\ RestOf(P \ {p}) \in Nat /\ Overall(P \ {p}) \in Nat
      /\ RestOf(P \ {p}) + 50 < 100 * Overall(P \ {p}) + 100
  BY <1>1, OverallIs
<1>8. Overall(P \ {p}) >= Overall(P) BY <1>6, <1>7
<1> QED BY <1>2, <1>6, <1>8

\* Without findings the score is 100.
LEMMA NothingFound == Overall({}) = 100
<1>1. {} \in SUBSET Finding /\ IsFiniteSet({}) BY FS_EmptySet
<1>2. \A c : Subscore({}, c) = 100 BY NoLoss DEF Subscore
<1>3. RestOf({}) = 10000 BY <1>2 DEF RestOf
<1> QED BY <1>1, <1>3, OverallIs

\* The score is bounded by any one of its findings.
LEMMA FindingSeen ==
  ASSUME NEW P \in SUBSET Finding, IsFiniteSet(P), NEW p \in P
  PROVE  /\ p.cost <= 100 => RestOf(P) <= 10000 - TermOf(p)
         /\ p.cost > 100 => RestOf(P) <= 9000
<1> DEFINE s(c) == Subscore(P, c)
<1>1. \A c \in Category : s(c) \in Nat /\ s(c) <= 100 BY SubscoreIs
<1>2. RestOf(P) = 20 * s("performance") + 20 * s("storage") + 20 * s("security")
        + 15 * s("updates") + 15 * s("stability") + 10 * s("hardware") BY DEF RestOf
<1>3. p.category \in Category /\ p.cost \in Nat BY DEF Finding
<1>4. /\ p.cost <= 100 => s(p.category) <= 100 - p.cost
      /\ p.cost > 100 => s(p.category) = 0
  <2>1. P \ {p} \in SUBSET Finding /\ IsFiniteSet(P \ {p}) BY FS_Subset
  <2>2. CostOf(P, p.category) = p.cost + CostOf(P \ {p}, p.category) BY CostStep
  <2>3. CostOf(P, p.category) \in Nat /\ CostOf(P \ {p}, p.category) \in Nat BY <2>1, CostStep
  <2> QED BY <1>3, <2>2, <2>3 DEF Subscore
<1> HIDE DEF s
<1>5. CASE p.category = "performance"
  <2>1. TermOf(p) = 20 * p.cost BY <1>5 DEF TermOf, WeightOf
  <2> QED BY <1>1, <1>2, <1>3, <1>4, <1>5, <2>1 DEF Category
<1>6. CASE p.category = "storage"
  <2>1. TermOf(p) = 20 * p.cost BY <1>6 DEF TermOf, WeightOf
  <2> QED BY <1>1, <1>2, <1>3, <1>4, <1>6, <2>1 DEF Category
<1>7. CASE p.category = "security"
  <2>1. TermOf(p) = 20 * p.cost BY <1>7 DEF TermOf, WeightOf
  <2> QED BY <1>1, <1>2, <1>3, <1>4, <1>7, <2>1 DEF Category
<1>8. CASE p.category = "updates"
  <2>1. TermOf(p) = 15 * p.cost BY <1>8 DEF TermOf, WeightOf
  <2> QED BY <1>1, <1>2, <1>3, <1>4, <1>8, <2>1 DEF Category
<1>9. CASE p.category = "stability"
  <2>1. TermOf(p) = 15 * p.cost BY <1>9 DEF TermOf, WeightOf
  <2> QED BY <1>1, <1>2, <1>3, <1>4, <1>9, <2>1 DEF Category
<1>10. CASE p.category = "hardware"
  <2>1. TermOf(p) = 10 * p.cost BY <1>10 DEF TermOf, WeightOf
  <2> QED BY <1>1, <1>2, <1>3, <1>4, <1>10, <2>1 DEF Category
<1> QED BY <1>3, <1>5, <1>6, <1>7, <1>8, <1>9, <1>10 DEF Category

\* The score is 100 less at most the points.
LEMMA PointsExplain ==
  ASSUME NEW P \in SUBSET Finding, IsFiniteSet(P)
  PROVE  100 - Overall(P) <= PointsOf(P)
<1> DEFINE s(c) == Subscore(P, c)
           d(c) == CostOf(P, c)
<1>1. \A c \in Category : s(c) \in Nat /\ d(c) \in Nat /\ s(c) + d(c) >= 100
  <2>1. \A c : CostOf(P, c) \in Nat /\ Subscore(P, c) \in Nat /\ Subscore(P, c) >= 100 - CostOf(P, c)
    BY CostStep, SubscoreIs
  <2> QED BY <2>1
<1>2. RestOf(P) = 20 * s("performance") + 20 * s("storage") + 20 * s("security")
        + 15 * s("updates") + 15 * s("stability") + 10 * s("hardware") BY DEF RestOf
<1>3. LossOf(P) = 20 * d("performance") + 20 * d("storage") + 20 * d("security")
        + 15 * d("updates") + 15 * d("stability") + 10 * d("hardware") BY DEF LossOf
<1> HIDE DEF s, d
<1>4. RestOf(P) + LossOf(P) >= 10000 BY <1>1, <1>2, <1>3 DEF Category
<1>5. PointsOf(P) \in Nat /\ LossOf(P) \in Nat BY PointsStep, LossStep
<1>6. RestOf(P) \in Nat /\ Overall(P) \in Nat /\ RestOf(P) + 50 < 100 * Overall(P) + 100
  BY OverallIs
<1>7. LossOf(P) <= 100 * PointsOf(P) + 25 BY LossBound
<1> QED BY <1>4, <1>5, <1>6, <1>7

\* A finding that costs as much as this keeps the score below 90.
LEMMA Noted ==
  ASSUME NEW P \in SUBSET Finding, IsFiniteSet(P), NEW p \in P, p.cost <= 100, TermOf(p) > 1050
  PROVE  Overall(P) < 90
<1>1. TermOf(p) \in Nat BY LossStep
<1>2. RestOf(P) \in Nat /\ Overall(P) \in Nat /\ 100 * Overall(P) <= RestOf(P) + 50 BY OverallIs
<1>3. RestOf(P) <= 10000 - TermOf(p) BY FindingSeen
<1> QED BY <1>1, <1>2, <1>3

\* What is found decides what a score is.
LEMMA ScoreIs ==
  ASSUME NEW f \in Facts, NEW status
  PROVE  LET s == Score(f, status) IN
         /\ s.overall \in 0..100
         /\ s.overall = 100 <=> s.penalties = {}
         /\ 100 - s.overall <= PointsOf(s.penalties)
         /\ \A p \in s.penalties : Overall(s.penalties \ {p}) >= s.overall
         /\ status # "ONLINE" => s.status = "CRITICAL"
         /\ s.status = "OPTIMAL" => f.antivirus /\ ~f.smart
<1> DEFINE P == Penalties(f, status)
           s == Score(f, status)
<1>1. P \in SUBSET Finding /\ IsFiniteSet(P) BY Found
<1>2. s.penalties = P /\ s.overall = Overall(P) /\ s.status = Verdict(Overall(P), status)
  BY DEF Score
<1>3. /\ f.smart => Penalty("SMART_DEGRADED", "storage", 70, 15) \in P
      /\ ~f.antivirus => Penalty("AV_DISABLED", "security", 75, 15) \in P
  <2>1. f.smart => Penalty("SMART_DEGRADED", "storage", 70, 15) \in LoadPenalties(f)
    <3>1. When(f.smart, Penalty("SMART_DEGRADED", "storage", 70, 15)) \subseteq LoadPenalties(f)
      BY DEF LoadPenalties
    <3> QED BY <3>1 DEF When
  <2>2. ~f.antivirus => Penalty("AV_DISABLED", "security", 75, 15) \in PosturePenalties(f)
    <3>1. When(~f.antivirus, Penalty("AV_DISABLED", "security", 75, 15)) \subseteq PosturePenalties(f)
      BY DEF PosturePenalties
    <3> QED BY <3>1 DEF When
  <2> QED BY <2>1, <2>2 DEF Penalties
<1> HIDE DEF P, s
<1>4. s.overall = 100 <=> s.penalties = {}
  <2>1. ASSUME NEW p \in P PROVE Overall(P) < 100
    <3>1. p \in Finding BY <1>1
    <3>2. TermOf(p) \in Nat /\ p.cost \in Nat /\ TermOf(p) > 50 BY <1>1, <3>1, LossStep DEF Finding, TermOf
    <3>3. RestOf(P) \in Nat /\ Overall(P) \in Nat /\ 100 * Overall(P) <= RestOf(P) + 50
      BY <1>1, OverallIs
    <3>4. /\ p.cost <= 100 => RestOf(P) <= 10000 - TermOf(p)
          /\ p.cost > 100 => RestOf(P) <= 9000
      BY <1>1, FindingSeen
    <3> QED BY <3>2, <3>3, <3>4
  <2>2. P # {} => Overall(P) < 100 BY <2>1
  <2>3. Overall(P) \in Int BY <1>1, OverallIs
  <2> QED BY <1>2, <2>2, <2>3, NothingFound
<1>5. s.status = "OPTIMAL" => f.antivirus /\ ~f.smart
  <2>1. s.status = "OPTIMAL" => ~(Overall(P) < 90) BY <1>2 DEF Verdict
  <2>2. ~f.antivirus => Overall(P) < 90
    <3> DEFINE p == Penalty("AV_DISABLED", "security", 75, 15)
    <3>1. p.cost = 75 /\ TermOf(p) = 1500 BY DEF Penalty, TermOf, WeightOf
    <3> HIDE DEF p
    <3> QED BY <1>1, <1>3, <3>1, Noted DEF p
  <2>3. f.smart => Overall(P) < 90
    <3> DEFINE p == Penalty("SMART_DEGRADED", "storage", 70, 15)
    <3>1. p.cost = 70 /\ TermOf(p) = 1400 BY DEF Penalty, TermOf, WeightOf
    <3>2. f.smart => p \in P BY <1>3
    <3> HIDE DEF p
    <3> QED BY <1>1, <3>1, <3>2, Noted
  <2>4. f.smart \in BOOLEAN /\ f.antivirus \in BOOLEAN BY DEF Facts
  <2> QED BY <2>1, <2>2, <2>3, <2>4
<1>6. status # "ONLINE" => s.status = "CRITICAL" BY <1>2 DEF Verdict
<1>7. s.overall \in 0..100
  <2>1. Overall(P) \in Nat /\ Overall(P) <= 100 BY <1>1, OverallIs
  <2>2. Overall(P) \in 0..100 BY <2>1
  <2> QED BY <1>2, <2>2
<1>8. 100 - s.overall <= PointsOf(s.penalties) BY <1>1, <1>2, PointsExplain
<1>9. \A p \in s.penalties : Overall(s.penalties \ {p}) >= s.overall BY <1>1, <1>2, OneLess
<1> QED BY <1>4, <1>5, <1>6, <1>7, <1>8, <1>9 DEF s

-----------------------------------------------------------------------------
(* The score in the registry                                                *)

\* The row is what some facts and the status of then give.
Scored(f, status) == score = [facts |-> f, status |-> status, result |-> Score(f, status)]
ScoreOK == score = NoScore \/ \E f \in Facts : Scored(f, score.status)

LEMMA ScoreRests ==
  ASSUME [Next]_vars
  PROVE  score' = score \/ \E i \in Row : ScoreDevice(i)
<1>1. CASE Registration
  <2>1. ASSUME NEW r \in Request, Begin(r) \/ Commit(r) \/ Abort(r) \/ Answered(r)
        PROVE  score' = score
    <3>1. CASE Begin(r) BY <3>1 DEF Begin, serverVars
    <3>2. CASE Commit(r) BY <3>2 DEF Commit
    <3>3. CASE Abort(r) BY <3>3 DEF Abort, serverVars
    <3>4. CASE Answered(r) BY <3>4 DEF Answered, serverVars
    <3> QED BY <2>1, <3>1, <3>2, <3>3, <3>4
  <2>2. ASSUME NEW r \in Request, NEW m \in Machine, NEW t \in Token, Register(r, m, t)
        PROVE  score' = score
    BY <2>2 DEF Register, serverVars
  <2> QED BY <1>1, <2>1, <2>2 DEF Registration
<1>2. CASE Operator
  <2>1. ASSUME NEW e \in Editor, NEW t \in Token, RequestToken(e, t) PROVE score' = score
    BY <2>1 DEF RequestToken, serverVars
  <2>2. ASSUME NEW t \in Token, CreateCompatibilityToken(t) \/ RevokeToken(t) PROVE score' = score
    <3>1. CASE CreateCompatibilityToken(t) BY <3>1 DEF CreateCompatibilityToken
    <3>2. CASE RevokeToken(t) BY <3>2 DEF RevokeToken
    <3> QED BY <2>2, <3>1, <3>2
  <2>3. ASSUME NEW e \in Editor, NEW i \in Row, ReadDevice(e, i) \/ ReadKey(e, i) PROVE score' = score
    <3>1. CASE ReadDevice(e, i) BY <3>1 DEF ReadDevice, serverVars
    <3>2. CASE ReadKey(e, i) BY <3>2 DEF ReadKey, serverVars
    <3> QED BY <2>3, <3>1, <3>2
  <2>4. ASSUME NEW e \in Editor, NEW s \in Site, ReadSite(e, s) PROVE score' = score
    BY <2>4 DEF ReadSite, serverVars
  <2>5. ASSUME NEW e \in Editor,
               \/ CreateToken(e) \/ CheckSite(e) \/ WriteDevice(e) \/ CountDevices(e)
               \/ WriteSite(e) \/ RevealKey(e)
        PROVE  score' = score
    <3>1. CASE CreateToken(e) BY <3>1 DEF CreateToken
    <3>2. CASE CheckSite(e) BY <3>2 DEF CheckSite, serverVars
    <3>3. CASE WriteDevice(e) BY <3>3 DEF WriteDevice
    <3>4. CASE CountDevices(e) BY <3>4 DEF CountDevices, serverVars
    <3>5. CASE WriteSite(e) BY <3>5 DEF WriteSite
    <3>6. CASE RevealKey(e) BY <3>6 DEF RevealKey
    <3> QED BY <2>5, <3>1, <3>2, <3>3, <3>4, <3>5, <3>6
  <2>6. ASSUME NEW i \in Row, DeleteDevice(i) \/ RegenerateKey(i) PROVE score' = score
    <3>1. CASE DeleteDevice(i) BY <3>1 DEF DeleteDevice
    <3>2. CASE RegenerateKey(i) BY <3>2 DEF RegenerateKey
    <3> QED BY <2>6, <3>1, <3>2
  <2>7. ASSUME NEW i \in Row, RequestHealth(i) PROVE ScoreDevice(i) BY <2>7 DEF RequestHealth
  <2> QED BY <1>2, <2>1, <2>2, <2>3, <2>4, <2>5, <2>6, <2>7 DEF Operator
<1>3. CASE Telemetry
  <2>1. ASSUME NEW b \in Beat, NEW m \in Machine, Heartbeat(b, m) PROVE score' = score
    BY <2>1 DEF Heartbeat
  <2>2. ASSUME NEW b \in Beat,
               \/ UpdateDevice(b) \/ ProvisionKey(b) \/ RereadKey(b) \/ AnswerHeartbeat(b)
               \/ FailHeartbeat(b)
        PROVE  score' = score
    <3>1. CASE UpdateDevice(b) BY <3>1 DEF UpdateDevice
    <3>2. CASE ProvisionKey(b) BY <3>2 DEF ProvisionKey
    <3>3. CASE RereadKey(b) BY <3>3 DEF RereadKey, serverVars
    <3>4. CASE AnswerHeartbeat(b) BY <3>4 DEF AnswerHeartbeat, serverVars
    <3>5. CASE FailHeartbeat(b) BY <3>5 DEF FailHeartbeat, serverVars
    <3> QED BY <2>2, <3>1, <3>2, <3>3, <3>4, <3>5
  <2> QED BY <1>3, <2>1, <2>2 DEF Telemetry
<1>4. CASE Job BY <1>4 DEF Job, TimePasses, StatusCheck
<1>5. CASE UNCHANGED vars BY <1>5 DEF vars, serverVars
<1> QED BY <1>1, <1>2, <1>3, <1>4, <1>5 DEF Next

\* A device's score is between 0 and 100, is 100 only if nothing was found, falls by no more
\* than the points it is explained with, is raised by no finding, and what it says of a device
\* that is not ONLINE, has no antivirus or a failing disk is never good news: whatever is
\* found, the categories that calculateDeviceHealthScore cuts off at 0 and rounds agree with
\* the points it shows.
THEOREM ScoresExplained == ControlSpec => []ScoreExplained
<1>1. ControlInit => ScoreOK BY DEF ControlInit, Init, ScoreOK
<1>2. ScoreOK /\ [ControlNext]_controlVars => ScoreOK'
  <2> SUFFICES ASSUME ScoreOK, [ControlNext]_controlVars PROVE ScoreOK' OBVIOUS
  <2>1. score' = score \/ \E i \in Row : ScoreDevice(i) BY ControlSteps, ScoreRests
  <2>2. CASE score' = score BY <2>2 DEF ScoreOK, Scored
  <2>3. ASSUME NEW i \in Row, ScoreDevice(i) PROVE ScoreOK'
    <3>1. PICK f \in Facts : score' = [facts |-> f, status |-> devices[i].status,
                                       result |-> Score(f, devices[i].status)]
      BY <2>3 DEF ScoreDevice
    <3>2. score'.status = devices[i].status BY <3>1
    <3> QED BY <3>1, <3>2 DEF ScoreOK, Scored
  <2> QED BY <2>1, <2>2, <2>3
<1>3. ScoreOK => ScoreExplained
  <2> SUFFICES ASSUME score # NoScore, NEW f \in Facts, Scored(f, score.status) PROVE ScoreExplained
    BY DEF ScoreOK, ScoreExplained
  <2>1. score.facts = f /\ score.result = Score(f, score.status) BY DEF Scored
  <2> DEFINE s == Score(f, score.status)
  <2>2. /\ s.overall \in 0..100
        /\ s.overall = 100 <=> s.penalties = {}
        /\ 100 - s.overall <= PointsOf(s.penalties)
        /\ \A p \in s.penalties : Overall(s.penalties \ {p}) >= s.overall
        /\ score.status # "ONLINE" => s.status = "CRITICAL"
        /\ s.status = "OPTIMAL" => f.antivirus /\ ~f.smart
    BY ScoreIs, Zenon
  <2>3. s = score.result /\ f = score.facts BY <2>1
  <2> HIDE DEF s
  <2> QED BY <2>2, <2>3, Zenon DEF ScoreExplained
<1> QED BY <1>1, <1>2, <1>3, PTL DEF ControlSpec
=============================================================================
