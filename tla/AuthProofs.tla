----------------------------- MODULE AuthProofs -----------------------------
(***************************************************************************)
(* The safety of Auth, for every number of clients, addresses, telephone   *)
(* numbers and users, and for every limit.                                 *)
(***************************************************************************)
EXTENDS Auth, TLAPS

(* Facts about the constants and the records. *)
LEMMA ConstantsAreTyped ==
    /\ FirstId \in Nat \ {0} /\ MaxUsers \in Nat /\ MaxRequests \in Nat
    /\ MaxSends \in Nat /\ MaxNow \in Nat /\ MaxFaults \in Nat /\ Lifetime \in Nat
    /\ None \notin Emails /\ None \notin Clients /\ None \notin Mobiles /\ None \notin Nat
  BY AuthAssumption DEF AuthAssumption

(* User ids are positive numbers. *)
LEMMA IdsArePositive == Ids \subseteq Nat \ {0}
  BY AuthAssumption DEF AuthAssumption, Ids

(* A client without a request is in a typed state. *)
LEMMA IdleIsRequest == Idle \in Request
  BY ConstantsAreTyped DEF Idle, Request, NoRow, NoChange, Change

(* A row stays a row, with its address, when it is changed. *)
LEMMA SetIsRow ==
  ASSUME NEW row \in Row, NEW ch \in Change
  PROVE  Set(row, ch) \in Row /\ Set(row, ch).email = row.email
  BY DEF Row, Change, Set

(* The absence of a row is not a row: every row has an address. *)
LEMMA RowIsNotNoRow == NoRow \notin Row
  BY ConstantsAreTyped DEF NoRow, Row

(* Counting one up in a table of counters. *)
LEMMA CountUp ==
  ASSUME NEW D, NEW E, NEW f \in [D -> [E -> Nat]], NEW d \in D, NEW e \in E
  PROVE  [f EXCEPT ![d][e] = @ + 1] \in [D -> [E -> Nat]]
  OBVIOUS

(* What a request in progress has in hand at each of its positions. *)
InHand(r) ==
    /\ r.at = "create" => r.key \in Emails
    /\ r.at \in {"token", "consume"} => r.id \in Ids
    /\ r.at \in {"find", "consume"} => r.key \in Mobiles /\ r.sending \in 1..MaxSends
    /\ r.at \in {"save", "delete"} => r.id \in Ids /\ r.key = r.id
    /\ r.at = "save" => r.row \in Row
    /\ r.at = "lookup" => r.id \in {0, r.token}
    /\ r.at = "store" => r.id = r.token

WellFormed == \A c \in Clients : InHand(req[c])

(* A client without a request has nothing in hand. *)
LEMMA IdleInHand == InHand(Idle)
  BY DEF Idle, InHand

-----------------------------------------------------------------------------
(* Type correctness, first of the steps that the actions share. *)

(* A request that begins, goes on or finishes keeps the types. *)
LEMMA BeginType ==
  ASSUME TypeOK, WellFormed, NEW c \in Clients, NEW r \in Request, InHand(r), Begin(c, r)
  PROVE  /\ req' \in [Clients -> Request] /\ disturbed' \subseteq Keys
         /\ requests' \in 0..MaxRequests /\ faults' \in 0..MaxFaults /\ WellFormed'
  <1>1. r.key \in Keys \cup {None} BY DEF Request
  <1>2. r.key # None => disturbed' \subseteq Keys BY <1>1 DEF Begin, Touch, TypeOK
  <1>3. r.key = None => disturbed' \subseteq Keys BY DEF Begin, Touch, Busy, TypeOK
  <1>4. QED
    BY <1>2, <1>3, ConstantsAreTyped DEF Begin, TypeOK, WellFormed

LEMMA GotoType ==
  ASSUME TypeOK, WellFormed, NEW c \in Clients, NEW r \in Request, InHand(r), Goto(c, r),
         NoFault \/ Fault
  PROVE  /\ req' \in [Clients -> Request] /\ disturbed' \subseteq Keys
         /\ requests' \in 0..MaxRequests /\ faults' \in 0..MaxFaults /\ WellFormed'
  BY ConstantsAreTyped DEF Goto, TypeOK, NoFault, Fault, WellFormed

LEMMA FinishType ==
  ASSUME TypeOK, WellFormed, NEW c \in Clients, Finish(c), NoFault \/ Fault
  PROVE  /\ req' \in [Clients -> Request] /\ disturbed' \subseteq Keys
         /\ requests' \in 0..MaxRequests /\ faults' \in 0..MaxFaults /\ WellFormed'
  BY GotoType, IdleIsRequest, IdleInHand DEF Finish

(* Every step keeps the types, and what the requests have in hand. *)
LEMMA TypeStep == TypeOK /\ WellFormed /\ [Next]_vars => TypeOK' /\ WellFormed'
  <1> SUFFICES ASSUME TypeOK, WellFormed, [Next]_vars PROVE TypeOK' /\ WellFormed'
      OBVIOUS
  <1> USE ConstantsAreTyped
  <1>0. \A c \in Clients : req[c] \in Request /\ InHand(req[c]) BY DEF TypeOK, WellFormed
  <1>1. CASE Tick
    BY <1>1 DEF Tick, TypeOK, tables, codes, history, WellFormed
  <1>2. ASSUME NEW m \in Mobiles, ExpireCode(m) PROVE TypeOK' /\ WellFormed'
    BY <1>2 DEF ExpireCode, TypeOK, tables, tokens, history, WellFormed
  <1> SUFFICES ASSUME NEW c \in Clients, Arrive(c) \/ Proceed(c) PROVE TypeOK' /\ WellFormed'
      BY <1>1, <1>2 DEF Next, vars, tables, tokens, codes, history, TypeOK, WellFormed
  <1>3. ASSUME NEW e \in Emails, Signup(c, e) PROVE TypeOK' /\ WellFormed'
    <2> DEFINE r == [Idle EXCEPT !.at = "create", !.key = e]
    <2>1. r \in Request /\ InHand(r) BY IdleIsRequest DEF Request, Keys, Idle, InHand
    <2>2. Begin(c, r) BY <1>3 DEF Signup
    <2> HIDE DEF r
    <2>3. QED BY <1>3, <2>1, <2>2, BeginType DEF Signup, TypeOK, tables, tokens, codes
  <1>4. ASSUME NEW e \in Emails, LoginByPassword(c, e) PROVE TypeOK' /\ WellFormed'
    <2>1. PICK i \in Ids : Begin(c, [Idle EXCEPT !.at = "token", !.id = i])
      BY <1>4 DEF LoginByPassword
    <2> DEFINE r == [Idle EXCEPT !.at = "token", !.id = i]
    <2>2. r \in Request /\ InHand(r) BY IdleIsRequest DEF Request, Idle, InHand
    <2>3. Begin(c, r) BY <2>1
    <2> HIDE DEF r
    <2>4. QED
      BY <1>4, <2>2, <2>3, BeginType DEF LoginByPassword, TypeOK, tables, tokens, codes
  <1>5. ASSUME NEW m \in Mobiles, SendSMSCode(c, m) PROVE TypeOK' /\ WellFormed'
    <2>1. disturbed' \subseteq Keys BY <1>5 DEF SendSMSCode, Touch, TypeOK, Keys
    <2>2. sends' \in 0..MaxSends /\ code' \in [Mobiles -> 0..MaxSends]
      BY <1>5 DEF SendSMSCode, TypeOK
    <2>3. QED BY <1>5, <2>1, <2>2 DEF SendSMSCode, TypeOK, tables, tokens, WellFormed
  <1>6. ASSUME NEW m \in Mobiles, LoginByMobile(c, m) PROVE TypeOK' /\ WellFormed'
    <2> DEFINE r == [Idle EXCEPT !.at = "find", !.key = m, !.sending = code[m]]
    <2>0. code[m] \in 1..MaxSends /\ code[m] \in 0..MaxSends
      BY <1>6 DEF LoginByMobile, TypeOK
    <2>1. r \in Request /\ InHand(r)
      BY Zenon, <2>0, IdleIsRequest DEF Request, Keys, Idle, InHand
    <2>2. Begin(c, r) BY <1>6 DEF LoginByMobile
    <2> HIDE DEF r
    <2>3. QED BY <1>6, <2>1, <2>2, BeginType DEF LoginByMobile, TypeOK, tables, tokens, codes
  <1>7. ASSUME NEW i \in Ids, NEW ch \in Change,
                UpdateUserInfo(c, i, ch) PROVE TypeOK' /\ WellFormed'
    <2> DEFINE r == [Idle EXCEPT !.at = "save", !.key = i, !.id = i, !.change = ch,
                                !.row = Set(user[i], ch)]
    <2>1. r \in Request /\ InHand(r)
      BY <1>7, <1>0, IdleIsRequest, IdsArePositive, SetIsRow
         DEF UpdateUserInfo, TypeOK, Request, Keys, Idle, InHand, Exists
    <2>2. Begin(c, r) BY <1>7 DEF UpdateUserInfo
    <2> HIDE DEF r
    <2>3. QED BY <1>7, <2>1, <2>2, BeginType DEF UpdateUserInfo, TypeOK, tables, tokens, codes
  <1>8. ASSUME NEW i \in Ids, DeleteUser(c, i) PROVE TypeOK' /\ WellFormed'
    <2> DEFINE r == [Idle EXCEPT !.at = "delete", !.key = i, !.id = i]
    <2>1. r \in Request /\ InHand(r)
      BY <1>8, <1>0, IdleIsRequest, IdsArePositive
         DEF DeleteUser, TypeOK, Request, Keys, Idle, InHand
    <2>2. Begin(c, r) BY <1>8 DEF DeleteUser
    <2> HIDE DEF r
    <2>3. QED BY <1>8, <2>1, <2>2, BeginType DEF DeleteUser, TypeOK, tables, tokens, codes
  <1>9. ASSUME NEW a \in answered[c], CreateEvalTask(c, a.token) PROVE TypeOK' /\ WellFormed'
    <2> DEFINE r == [Idle EXCEPT !.at = "lookup", !.id = getUserId(a.token.id),
                                !.token = a.token.id]
    <2>0. a.token.id \in Ids BY DEF TypeOK, Tokens
    <2>1. r \in Request /\ InHand(r)
      BY <2>0, IdleIsRequest DEF Request, Idle, InHand, getUserId
    <2>2. Begin(c, r) BY <1>9 DEF CreateEvalTask
    <2> HIDE DEF r
    <2>3. QED BY <1>9, <2>1, <2>2, BeginType DEF CreateEvalTask, TypeOK, tables, tokens, codes
  <1>10. ASSUME NEW a \in answered[c], CreateDataset(c, a.token) PROVE TypeOK' /\ WellFormed'
    <2> DEFINE r == [Idle EXCEPT !.at = "store", !.id = a.token.id,
                                !.token = a.token.id]
    <2>0. a.token.id \in Ids BY DEF TypeOK, Tokens
    <2>1. r \in Request /\ InHand(r) BY <2>0, IdleIsRequest DEF Request, Idle, InHand
    <2>2. Begin(c, r) BY <1>10 DEF CreateDataset
    <2> HIDE DEF r
    <2>3. QED BY <1>10, <2>1, <2>2, BeginType DEF CreateDataset, TypeOK, tables, tokens, codes
  <1>11. CASE CreateUser(c)
    <2> DEFINE row == [email |-> req[c].key, password |-> c, mobile |-> None,
                       profile |-> FALSE]
               r == [Idle EXCEPT !.at = "token", !.id = nextId]
    <2>1. row \in Row BY <1>11, <1>0 DEF CreateUser, InHand, Row
    <2>2. r \in Request /\ InHand(r)
      BY <1>11, IdleIsRequest DEF CreateUser, Request, Idle, InHand
    <2>3. /\ user' = [user EXCEPT ![nextId] = row] /\ meant' = [meant EXCEPT ![nextId] = row]
          /\ Goto(c, r) /\ NoFault
      BY <1>11 DEF CreateUser
    <2>4. nextId' \in FirstId .. (FirstId + MaxUsers) BY <1>11 DEF CreateUser, Ids
    <2> HIDE DEF row, r
    <2>5. user' \in [Ids -> Row \cup {NoRow}] /\ meant' \in [Ids -> Row \cup {NoRow}]
      BY <2>1, <2>3 DEF TypeOK
    <2>6. QED
      BY <1>11, <2>2, <2>3, <2>4, <2>5, GotoType DEF CreateUser, TypeOK, tokens, codes
  <1>12. CASE IssueToken(c)
    <2>1. TokenOf(c) \in Tokens
      BY <1>12, <1>0 DEF IssueToken, TokenOf, Tokens, InHand, TypeOK
    <2>2. /\ answered' \in [Clients -> SUBSET [token : Tokens, by : {"password", "mobile"}]]
          /\ session' \subseteq Tokens /\ unsaved' \subseteq Tokens
      BY <1>12, <2>1 DEF IssueToken, Answer, TypeOK
    <2>3. Finish(c) /\ (NoFault \/ Fault) BY <1>12 DEF IssueToken
    <2>4. QED BY <1>12, <2>2, <2>3, FinishType DEF IssueToken, TypeOK, tables, codes
  <1>13. CASE FindByMobile(c)
    <2>1. PICK i \in Ids :
            /\ i \in WithMobile(req[c].key)
            /\ Goto(c, [req[c] EXCEPT !.at = "consume", !.id = i, !.row = user[i]])
      BY <1>13 DEF FindByMobile, First
    <2> DEFINE r == [req[c] EXCEPT !.at = "consume", !.id = i, !.row = user[i]]
    <2>2. /\ req[c] \in Request /\ req[c].key \in Mobiles /\ req[c].sending \in 1..MaxSends
          /\ user[i] \in Row \cup {NoRow}
      BY <1>13, <1>0 DEF FindByMobile, InHand, TypeOK
    <2>3. r \in Request /\ InHand(r) BY <2>2 DEF Request, InHand
    <2>4. Goto(c, r) BY <2>1
    <2> HIDE DEF r
    <2>5. QED
      BY <1>13, <2>3, <2>4, GotoType DEF FindByMobile, TypeOK, tables, tokens, codes
  <1>14. CASE NewUserRefused(c)
    <2>1. nextId' \in FirstId .. (FirstId + MaxUsers) BY <1>14 DEF NewUserRefused, Ids
    <2>2. Finish(c) /\ NoFault BY <1>14 DEF NewUserRefused
    <2>3. QED BY <1>14, <2>1, <2>2, FinishType DEF NewUserRefused, TypeOK, tokens, codes
  <1>15. CASE ConsumeCode(c)
    <2>0. req[c].key \in Mobiles /\ req[c].sending \in 1..MaxSends
      BY <1>15, <1>0 DEF ConsumeCode, InHand
    <2>1. req' \in [Clients -> Request] /\ WellFormed'
      BY <1>15, IdleIsRequest, IdleInHand DEF ConsumeCode, TypeOK, WellFormed
    <2>2. /\ disturbed' \subseteq Keys /\ faults' \in 0..MaxFaults
          /\ code' \in [Mobiles -> 0..MaxSends]
      <3>1. disturbed' \in {disturbed, disturbed \cup {req[c].key}}
        BY <1>15 DEF ConsumeCode
      <3>2. faults' \in {faults, faults + 1} /\ (faults' = faults \/ faults < MaxFaults)
        BY <1>15 DEF ConsumeCode, NoFault, Fault
      <3>3. code' \in {code, [code EXCEPT ![req[c].key] = 0]}
        BY <1>15 DEF ConsumeCode
      <3>0. 0 \in 0..MaxSends OBVIOUS
      <3>4. disturbed' \subseteq Keys BY <3>1, <2>0 DEF TypeOK, Keys
      <3>5. faults' \in 0..MaxFaults BY <3>2 DEF TypeOK
      <3>6. code' \in [Mobiles -> 0..MaxSends] BY <3>3, <3>0 DEF TypeOK
      <3>7. QED BY <3>4, <3>5, <3>6
    <2>3. TokenOf(c) \in Tokens
      BY <1>15, <1>0 DEF ConsumeCode, TokenOf, Tokens, InHand, TypeOK
    <2>4. answered' \in [Clients -> SUBSET [token : Tokens, by : {"password", "mobile"}]]
      <3> DEFINE given == [token |-> TokenOf(c), by |-> "mobile"]
                 more  == [answered EXCEPT ![c] = @ \cup {given}]
      <3>1. answered' \in {answered, more}
        BY <1>15 DEF ConsumeCode, AnswerMobile, Answer
      <3>2. given \in [token : Tokens, by : {"password", "mobile"}] BY <2>3
      <3> HIDE DEF given
      <3>3. more \in [Clients -> SUBSET [token : Tokens, by : {"password", "mobile"}]]
        BY <3>2 DEF TypeOK
      <3> HIDE DEF more
      <3>4. QED BY <3>1, <3>3 DEF TypeOK
    <2>5. logins' \in [Mobiles -> [1..MaxSends -> Nat]]
      <3> DEFINE more == [logins EXCEPT ![req[c].key][req[c].sending] = @ + 1]
      <3>1. logins' \in {logins, more} BY <1>15 DEF ConsumeCode, AnswerMobile
      <3>2. logins \in [Mobiles -> [1..MaxSends -> Nat]] BY DEF TypeOK
      <3>3. more \in [Mobiles -> [1..MaxSends -> Nat]] BY <3>2, <2>0, CountUp
      <3> HIDE DEF more
      <3>4. QED BY <3>1, <3>2, <3>3
    <2>6. QED BY <1>15, <2>1, <2>2, <2>4, <2>5 DEF ConsumeCode, TypeOK, tables
  <1>16. CASE SaveUser(c)
    <2>1. req[c].id \in Ids /\ req[c].row \in Row /\ req[c].change \in Change
      BY <1>16, <1>0 DEF SaveUser, InHand, Request
    <2>2. user' \in [Ids -> Row \cup {NoRow}] BY <1>16, <2>1 DEF SaveUser, TypeOK
    <2>3. meant[req[c].id] # NoRow => Set(meant[req[c].id], req[c].change) \in Row
      BY <2>1, SetIsRow DEF TypeOK
    <2>4. meant' \in [Ids -> Row \cup {NoRow}]
      BY <1>16, <2>1, <2>3 DEF SaveUser, Meant, TypeOK
    <2>5. Finish(c) /\ NoFault BY <1>16 DEF SaveUser
    <2>6. QED BY <1>16, <2>2, <2>4, <2>5, FinishType DEF SaveUser, TypeOK, tokens, codes
  <1>17. CASE DeleteRow(c)
    <2>1. user' \in [Ids -> Row \cup {NoRow}] /\ meant' \in [Ids -> Row \cup {NoRow}]
      BY <1>17 DEF DeleteRow, TypeOK
    <2>2. Finish(c) /\ NoFault BY <1>17 DEF DeleteRow
    <2>3. QED BY <1>17, <2>1, <2>2, FinishType DEF DeleteRow, TypeOK, tokens, codes
  <1>18. CASE LookupUser(c)
    <2> DEFINE r == IF Exists(req[c].id) THEN [req[c] EXCEPT !.at = "store"] ELSE Idle
    <2>1. r \in Request /\ InHand(r)
      BY <1>18, <1>0, IdleIsRequest, IdleInHand, IdsArePositive
         DEF LookupUser, Request, InHand, Exists
    <2>2. Goto(c, r) /\ NoFault BY <1>18 DEF LookupUser
    <2> HIDE DEF r
    <2>3. QED BY <1>18, <2>1, <2>2, GotoType DEF LookupUser, TypeOK, tables, tokens, codes
  <1>19. CASE Store(c)
    <2>1. stored' \subseteq [owner : Ids \cup {0}, token : Ids \cup {0}]
      BY <1>19, <1>0 DEF Store, TypeOK, Request
    <2>2. Finish(c) /\ NoFault BY <1>19 DEF Store
    <2>3. QED BY <1>19, <2>1, <2>2, FinishType DEF Store, TypeOK, tables, tokens, codes
  <1>20. CASE Fails(c)
    <2>1. Finish(c) /\ Fault BY <1>20 DEF Fails
    <2>2. QED BY <1>20, <2>1, FinishType DEF Fails, TypeOK, tables, tokens, codes
  <1>21. QED
    BY <1>3, <1>4, <1>5, <1>6, <1>7, <1>8, <1>9, <1>10, <1>11, <1>12, <1>13, <1>14,
       <1>15, <1>16, <1>17, <1>18, <1>19, <1>20 DEF Arrive, Proceed

-----------------------------------------------------------------------------
(* Requests that decide about one key at the same time are on record.      *)

Exclusive ==
    \A c, d \in Clients : c # d /\ req[c].key = req[d].key /\ req[c].key # None
                          => req[c].key \in disturbed

(* Whoever works on user i beside an update of it is on record. *)
LEMMA SaveOverlaps ==
  ASSUME Exclusive, WellFormed, NEW c \in Clients, NEW i \in Ids, req[c].key = i
  PROVE  \A d \in Clients : d # c /\ req[d].at = "save" /\ req[d].id = i => i \in disturbed
  <1> SUFFICES ASSUME NEW d \in Clients, d # c, req[d].at = "save", req[d].id = i
               PROVE  i \in disturbed
      OBVIOUS
  <1>1. i # None BY ConstantsAreTyped, IdsArePositive
  <1>2. req[d].key = i BY DEF WellFormed, InHand
  <1>3. QED BY <1>1, <1>2 DEF Exclusive

(* Begin puts an overlap on record, and going on adds none. *)
LEMMA BeginExclusive ==
  ASSUME TypeOK, Exclusive, NEW c \in Clients, NEW r, Begin(c, r)
  PROVE  Exclusive' /\ disturbed \subseteq disturbed'
  <1>1. disturbed \subseteq disturbed' /\ (Busy(r.key) => r.key \in disturbed')
    BY DEF Begin, Touch
  <1>2. req' = [req EXCEPT ![c] = r] BY DEF Begin
  <1>3. \A d \in Clients : d # c /\ req[d].key = r.key /\ r.key # None => r.key \in disturbed'
    BY <1>1 DEF Busy
  <1>4. QED BY <1>1, <1>2, <1>3 DEF Exclusive, TypeOK

LEMMA GotoExclusive ==
  ASSUME TypeOK, Exclusive, NEW c \in Clients, NEW r, req' = [req EXCEPT ![c] = r],
         r.key \in {None, req[c].key}, disturbed \subseteq disturbed'
  PROVE  Exclusive'
  BY DEF TypeOK, Exclusive

(* What every step leaves alone for the invariants below, unless it is one *)
(* of the steps named in StepKinds.                                        *)
Keeps(d) == \/ req'[d] = req[d]
            \/ req'[d].at \notin {"create", "save", "find", "consume"}
            \/ /\ req[d].at = "find" /\ req'[d].at = "consume"
               /\ req'[d].key = req[d].key /\ req'[d].sending = req[d].sending

Quiet ==
    /\ UNCHANGED <<user, meant, sends, logins>> /\ nextId' >= nextId
    /\ \A m \in Mobiles : code'[m] \in {0, code[m]}
    /\ \A d \in Clients : Keeps(d)

Notable ==
    \E c \in Clients :
        \/ \E e \in Emails : Signup(c, e)
        \/ CreateUser(c) \/ SaveUser(c) \/ DeleteRow(c) \/ ConsumeCode(c)
        \/ \E m \in Mobiles : SendSMSCode(c, m) \/ LoginByMobile(c, m)
        \/ \E i \in Ids, ch \in Change : UpdateUserInfo(c, i, ch)

KindOK == Exclusive' /\ disturbed \subseteq disturbed' /\ (Notable \/ Quiet)

(* Every step keeps the record of overlaps right and is notable or quiet.  *)
LEMMA StepKinds == TypeOK /\ Exclusive /\ [Next]_vars => KindOK
  <1> SUFFICES ASSUME TypeOK, Exclusive, [Next]_vars
               PROVE  KindOK
      OBVIOUS
  <1> USE ConstantsAreTyped DEF KindOK
  <1>0. nextId \in Nat BY DEF TypeOK
  <1>1. CASE Tick
    BY <1>1, <1>0 DEF Tick, tables, codes, history, Exclusive, Quiet, Keeps
  <1>2. ASSUME NEW m \in Mobiles, ExpireCode(m)
        PROVE  KindOK
    <2>1. \A n \in Mobiles : code'[n] \in {0, code[n]} BY <1>2 DEF ExpireCode, TypeOK
    <2>2. QED
      BY <1>2, <1>0, <2>1 DEF ExpireCode, tables, history, Exclusive, Quiet, Keeps
  <1>3. CASE UNCHANGED vars
    BY <1>3, <1>0 DEF vars, tables, tokens, codes, history, Exclusive, Quiet, Keeps
  <1> SUFFICES ASSUME NEW c \in Clients, Arrive(c) \/ Proceed(c)
               PROVE  KindOK
      BY <1>1, <1>2, <1>3 DEF Next
  <1>4. ASSUME NEW r, req' = [req EXCEPT ![c] = r], UNCHANGED <<tables, codes>>,
               \/ r.at \notin {"create", "save", "find", "consume"}
               \/ /\ req[c].at = "find" /\ r.at = "consume"
                  /\ r.key = req[c].key /\ r.sending = req[c].sending
        PROVE  Quiet
    BY <1>4, <1>0 DEF tables, codes, Quiet, Keeps, TypeOK
  <1>5. ASSUME NEW e \in Emails, Signup(c, e) PROVE KindOK
    BY <1>5, BeginExclusive DEF Signup, Notable
  <1>6. ASSUME NEW m \in Mobiles, LoginByMobile(c, m) PROVE KindOK
    BY <1>6, BeginExclusive DEF LoginByMobile, Notable
  <1>7. ASSUME NEW i \in Ids, NEW ch \in Change, UpdateUserInfo(c, i, ch) PROVE KindOK
    BY <1>7, BeginExclusive DEF UpdateUserInfo, Notable
  <1>8. ASSUME NEW m \in Mobiles, SendSMSCode(c, m) PROVE KindOK
    BY <1>8 DEF SendSMSCode, Touch, Exclusive, Notable
  <1>9. ASSUME NEW e \in Emails, LoginByPassword(c, e) PROVE KindOK
    <2>1. PICK i \in Ids : Begin(c, [Idle EXCEPT !.at = "token", !.id = i])
      BY <1>9 DEF LoginByPassword
    <2> DEFINE r == [Idle EXCEPT !.at = "token", !.id = i]
    <2>2. r.at = "token" BY DEF Idle
    <2>3. Begin(c, r) BY <2>1
    <2> HIDE DEF r
    <2>4. QED BY <1>9, <1>4, <2>2, <2>3, BeginExclusive DEF Begin, LoginByPassword
  <1>10. ASSUME NEW i \in Ids, DeleteUser(c, i) PROVE KindOK
    <2> DEFINE r == [Idle EXCEPT !.at = "delete", !.key = i, !.id = i]
    <2>1. r.at = "delete" BY DEF Idle
    <2>2. Begin(c, r) BY <1>10 DEF DeleteUser
    <2> HIDE DEF r
    <2>3. QED BY <1>10, <1>4, <2>1, <2>2, BeginExclusive DEF Begin, DeleteUser
  <1>11. ASSUME NEW a \in answered[c], CreateEvalTask(c, a.token) PROVE KindOK
    <2> DEFINE r == [Idle EXCEPT !.at = "lookup", !.id = getUserId(a.token.id),
                                !.token = a.token.id]
    <2>1. r.at = "lookup" BY DEF Idle
    <2>2. Begin(c, r) BY <1>11 DEF CreateEvalTask
    <2> HIDE DEF r
    <2>3. QED BY <1>11, <1>4, <2>1, <2>2, BeginExclusive DEF Begin, CreateEvalTask
  <1>12. ASSUME NEW a \in answered[c], CreateDataset(c, a.token) PROVE KindOK
    <2> DEFINE r == [Idle EXCEPT !.at = "store", !.id = a.token.id,
                                !.token = a.token.id]
    <2>1. r.at = "store" BY DEF Idle
    <2>2. Begin(c, r) BY <1>12 DEF CreateDataset
    <2> HIDE DEF r
    <2>3. QED BY <1>12, <1>4, <2>1, <2>2, BeginExclusive DEF Begin, CreateDataset
  <1>13. ASSUME Finish(c), UNCHANGED <<tables, codes>> PROVE KindOK
    BY <1>13, <1>4, GotoExclusive DEF Finish, Goto, Idle
  <1>14. CASE IssueToken(c) BY <1>14, <1>13 DEF IssueToken
  <1>15. CASE Store(c) BY <1>15, <1>13 DEF Store
  <1>16. CASE Fails(c) BY <1>16, <1>13 DEF Fails
  <1>17. CASE CreateUser(c)
    BY <1>17, GotoExclusive DEF CreateUser, Finish, Goto, Idle, Notable
  <1>18. CASE SaveUser(c)
    BY <1>18, GotoExclusive DEF SaveUser, Finish, Goto, Idle, Notable
  <1>19. CASE DeleteRow(c)
    BY <1>19, GotoExclusive DEF DeleteRow, Finish, Goto, Idle, Notable
  <1>20. CASE ConsumeCode(c)
    BY <1>20, GotoExclusive DEF ConsumeCode, Idle, Notable
  <1>21. CASE NewUserRefused(c)
    <2>1. Exclusive' /\ disturbed \subseteq disturbed'
      BY <1>21, GotoExclusive DEF NewUserRefused, Finish, Goto, Idle
    <2>2. Quiet
      BY <1>21, <1>0 DEF NewUserRefused, Finish, Goto, Idle, codes, Quiet, Keeps, TypeOK
    <2>3. QED BY <2>1, <2>2
  <1>22. CASE FindByMobile(c)
    <2>1. PICK i \in Ids :
            Goto(c, [req[c] EXCEPT !.at = "consume", !.id = i, !.row = user[i]])
      BY <1>22 DEF FindByMobile
    <2> DEFINE r == [req[c] EXCEPT !.at = "consume", !.id = i, !.row = user[i]]
    <2>2. r.at = "consume" /\ r.key = req[c].key /\ r.sending = req[c].sending
      BY DEF TypeOK, Request
    <2>3. Goto(c, r) BY <2>1
    <2> HIDE DEF r
    <2>4. QED BY <1>22, <1>4, <2>2, <2>3, GotoExclusive DEF FindByMobile, Goto
  <1>23. CASE LookupUser(c)
    <2> DEFINE r == IF Exists(req[c].id) THEN [req[c] EXCEPT !.at = "store"] ELSE Idle
    <2>1. r.at \in {"store", "idle"} /\ r.key \in {None, req[c].key}
      BY DEF TypeOK, Request, Idle
    <2>2. Goto(c, r) BY <1>23 DEF LookupUser
    <2> HIDE DEF r
    <2>3. QED BY <1>23, <1>4, <2>1, <2>2, GotoExclusive DEF LookupUser, Goto
  <1>24. QED
    BY <1>5, <1>6, <1>7, <1>8, <1>9, <1>10, <1>11, <1>12, <1>13, <1>14, <1>15, <1>16,
       <1>17, <1>18, <1>19, <1>20, <1>21, <1>22, <1>23
       DEF Arrive, Proceed

-----------------------------------------------------------------------------
(* The table: rows lie below the sequence, an update in progress that      *)
(* nothing disturbed still has the row as it is, and no undisturbed row    *)
(* has the address of an undisturbed signup.                               *)

Allocated ==
    /\ \A i \in Ids : user[i] # NoRow => i < nextId
    /\ \A c \in Clients : req[c].at = "save" => req[c].id < nextId

SavesFresh ==
    \A c \in Clients : req[c].at = "save" /\ req[c].id \notin disturbed =>
        /\ user[req[c].id] # NoRow
        /\ req[c].row = Set(user[req[c].id], req[c].change)

SignupsFresh ==
    \A c \in Clients : req[c].at = "create" /\ req[c].key \notin disturbed =>
        \A i \in Ids \ disturbed : user[i].email # req[c].key

Addresses ==
    \A i, j \in Ids \ disturbed :
        i # j /\ user[i] # NoRow /\ user[i].email = user[j].email
        => user[i].email \in disturbed

Table == Allocated /\ SavesFresh /\ SignupsFresh /\ Addresses /\ AsIfSerial

Typed == TypeOK /\ WellFormed /\ Exclusive

(* A quiet step leaves the facts about the table alone. *)
LEMMA QuietTable ==
  ASSUME Typed, Typed', Table, Quiet, disturbed \subseteq disturbed' PROVE Table'
  <1> USE DEF Table, Typed, Quiet, Keeps
  <1>0. \A c \in Clients : req'[c].at \in {"save", "create"} => req'[c] = req[c] OBVIOUS
  <1>1. Allocated'
    <2>1. nextId \in Nat /\ nextId' \in Nat /\ Ids \subseteq Nat
      BY ConstantsAreTyped, IdsArePositive DEF TypeOK
    <2>2. \A c \in Clients : req[c].at = "save" => req[c].id \in Nat
      BY <2>1 DEF WellFormed, InHand
    <2>3. QED BY <1>0, <2>1, <2>2 DEF Allocated
  <1>2. SavesFresh' BY <1>0 DEF SavesFresh
  <1>3. SignupsFresh' BY <1>0 DEF SignupsFresh
  <1>4. Addresses' BY DEF Addresses
  <1>5. AsIfSerial' BY DEF AsIfSerial
  <1>6. QED BY <1>1, <1>2, <1>3, <1>4, <1>5

(* Every step keeps the facts about the table. *)
LEMMA TableStep ==
  ASSUME Typed, Typed', Table, disturbed \subseteq disturbed', Notable \/ Quiet PROVE Table'
  <1> USE DEF Table, Typed
  <1>0. /\ nextId \in Nat /\ Ids \subseteq Nat /\ user \in [Ids -> Row \cup {NoRow}]
        /\ meant \in [Ids -> Row \cup {NoRow}] /\ req \in [Clients -> Request]
    BY ConstantsAreTyped, IdsArePositive DEF TypeOK
  <1>1. CASE Quiet BY <1>1, QuietTable
  <1> SUFFICES ASSUME NEW c \in Clients,
                      \/ \E e \in Emails : Signup(c, e)
                      \/ CreateUser(c) \/ SaveUser(c) \/ DeleteRow(c) \/ ConsumeCode(c)
                      \/ \E m \in Mobiles : SendSMSCode(c, m) \/ LoginByMobile(c, m)
                      \/ \E i \in Ids, ch \in Change : UpdateUserInfo(c, i, ch)
               PROVE  Table'
      BY <1>1 DEF Notable
  <1>2. ASSUME UNCHANGED tables,
               \A d \in Clients : req'[d].at \in {"save", "create"} => req'[d] = req[d]
        PROVE  Table'
    BY <1>2 DEF tables, Allocated, SavesFresh, SignupsFresh, Addresses, AsIfSerial
  <1>3. CASE ConsumeCode(c) BY <1>3, <1>2, <1>0 DEF ConsumeCode, Idle
  <1>4. ASSUME NEW m \in Mobiles, SendSMSCode(c, m) PROVE Table'
    BY <1>4, <1>2 DEF SendSMSCode
  <1>5. ASSUME NEW m \in Mobiles, LoginByMobile(c, m) PROVE Table'
    BY <1>5, <1>2, <1>0 DEF LoginByMobile, Begin, Idle
  <1>6. ASSUME NEW e \in Emails, Signup(c, e) PROVE Table'
    <2>1. /\ req'[c].at = "create" /\ req'[c].key = e
          /\ \A d \in Clients : d # c => req'[d] = req[d]
      BY <1>6, <1>0 DEF Signup, Begin, Idle
    <2>2. UNCHANGED <<user, nextId, meant>> /\ \A i \in Ids : user[i].email # e
      BY <1>6 DEF Signup, tables, WithEmail
    <2>3. Allocated' /\ SavesFresh' /\ Addresses' /\ AsIfSerial'
      BY <2>1, <2>2 DEF Allocated, SavesFresh, Addresses, AsIfSerial
    <2>4. SignupsFresh' BY <2>1, <2>2 DEF SignupsFresh
    <2>5. QED BY <2>3, <2>4
  <1>7. ASSUME NEW i \in Ids, NEW ch \in Change, UpdateUserInfo(c, i, ch) PROVE Table'
    <2>1. /\ req'[c].at = "save" /\ req'[c].id = i /\ req'[c].change = ch
          /\ req'[c].row = Set(user[i], ch)
          /\ \A d \in Clients : d # c => req'[d] = req[d]
      BY <1>7, <1>0 DEF UpdateUserInfo, Begin, Idle
    <2>2. UNCHANGED <<user, nextId, meant>> /\ user[i] # NoRow
      BY <1>7 DEF UpdateUserInfo, tables, Exists
    <2>3. Allocated' BY <2>1, <2>2 DEF Allocated
    <2>4. SavesFresh' BY <2>1, <2>2 DEF SavesFresh
    <2>5. SignupsFresh' /\ Addresses' /\ AsIfSerial'
      BY <2>1, <2>2 DEF SignupsFresh, Addresses, AsIfSerial
    <2>6. QED BY <2>3, <2>4, <2>5
  <1>8. CASE CreateUser(c)
    <2> DEFINE row == [email |-> req[c].key, password |-> c, mobile |-> None,
                       profile |-> FALSE]
    <2>1. /\ req[c].at = "create" /\ nextId \in Ids /\ nextId' = nextId + 1
          /\ user' = [user EXCEPT ![nextId] = row] /\ meant' = [meant EXCEPT ![nextId] = row]
          /\ req'[c].at = "token" /\ disturbed' = disturbed
          /\ \A d \in Clients : d # c => req'[d] = req[d]
      BY <1>8, <1>0 DEF CreateUser, Goto, Idle
    <2>2. row.email = req[c].key OBVIOUS
    <2>3. \A d \in Clients : req[d].at = "save" => req[d].id \in Ids /\ req[d].id < nextId
      BY DEF WellFormed, InHand, Allocated
    <2> HIDE DEF row
    <2>4. Allocated'
      <3>1. \A i \in Ids : user'[i] # NoRow => i < nextId'
        <4>1. ASSUME NEW i \in Ids, user'[i] # NoRow PROVE i < nextId'
          <5>1. i = nextId \/ user[i] # NoRow BY <4>1, <2>1, <1>0
          <5>2. i = nextId \/ i < nextId BY <5>1 DEF Allocated
          <5>3. i \in Nat /\ nextId' = nextId + 1 BY <1>0, <2>1
          <5>4. QED BY <5>2, <5>3, <1>0
        <4>2. QED BY <4>1
      <3>2. \A d \in Clients : req'[d].at = "save" => req'[d].id < nextId'
        <4>1. ASSUME NEW d \in Clients, req'[d].at = "save" PROVE req'[d].id < nextId'
          <5>1. req'[d] = req[d] BY <4>1, <2>1
          <5>2. req[d].id \in Nat /\ req[d].id < nextId BY <4>1, <5>1, <2>3, <1>0
          <5>3. QED BY <5>1, <5>2, <2>1, <1>0
        <4>2. QED BY <4>1
      <3>3. QED BY <3>1, <3>2 DEF Allocated
    <2>5. SavesFresh' BY <2>1, <2>3, <1>0 DEF SavesFresh
    <2>6. AsIfSerial' BY <2>1, <1>0 DEF AsIfSerial
    <2>7. req[c].key # None
      BY <2>1, ConstantsAreTyped DEF WellFormed, InHand
    <2>8. SignupsFresh'
      BY <2>1, <2>2, <2>7, <1>0 DEF SignupsFresh, Exclusive
    <2>9. Addresses' BY <2>1, <2>2, <1>0 DEF Addresses, SignupsFresh
    <2>10. QED BY <2>4, <2>5, <2>6, <2>8, <2>9
  <1>9. CASE SaveUser(c)
    <2> DEFINE i == req[c].id
    <2>1. /\ req[c].at = "save" /\ i \in Ids /\ req[c].key = i /\ req[c].row \in Row
          /\ req[c].change \in Change
      BY <1>9, <1>0 DEF SaveUser, WellFormed, InHand, Request
    <2>2. /\ user' = [user EXCEPT ![i] = req[c].row] /\ nextId' = nextId
          /\ meant' = [meant EXCEPT ![i] = IF meant[i] = NoRow THEN NoRow
                                           ELSE Set(meant[i], req[c].change)]
          /\ req'[c].at = "idle" /\ disturbed' = disturbed
          /\ \A d \in Clients : d # c => req'[d] = req[d]
      BY <1>9, <1>0 DEF SaveUser, Meant, Finish, Goto, Idle
    <2>3. i \notin disturbed =>
            /\ user[i] \in Row /\ meant[i] = user[i] /\ user[i] # NoRow
            /\ req[c].row = Set(user[i], req[c].change)
            /\ req[c].row.email = user[i].email
      <3> SUFFICES ASSUME i \notin disturbed
                   PROVE  /\ user[i] \in Row /\ meant[i] = user[i] /\ user[i] # NoRow
                          /\ req[c].row = Set(user[i], req[c].change)
                          /\ req[c].row.email = user[i].email
          OBVIOUS
      <3>1. user[i] # NoRow /\ req[c].row = Set(user[i], req[c].change)
        BY <2>1 DEF SavesFresh
      <3>2. user[i] \in Row BY <3>1, <2>1, <1>0
      <3>3. meant[i] = user[i] BY <2>1 DEF AsIfSerial
      <3>4. Set(user[i], req[c].change).email = user[i].email BY <3>2, <2>1, SetIsRow
      <3>5. QED BY <3>1, <3>2, <3>3, <3>4
    <2>4. \A d \in Clients : d # c /\ req[d].at = "save" /\ req[d].id = i => i \in disturbed
      BY <2>1, SaveOverlaps
    <2> HIDE DEF i
    <2>5. Allocated' BY <2>1, <2>2, <1>0 DEF Allocated, i
    <2>6. AsIfSerial' BY <2>1, <2>2, <2>3, <1>0 DEF AsIfSerial
    <2>7. SavesFresh'
      <3>1. \A d \in Clients : d # c /\ req[d].at = "save" /\ req[d].id \notin disturbed
                               => user'[req[d].id] = user[req[d].id]
        BY <2>2, <2>4, <1>0 DEF WellFormed, InHand
      <3>2. QED BY <3>1, <2>2 DEF SavesFresh
    <2>8. \A j \in Ids \ disturbed : user'[j].email = user[j].email
      BY <2>2, <2>3, <1>0
    <2>9. SignupsFresh' BY <2>2, <2>8 DEF SignupsFresh
    <2>10. \A j \in Ids \ disturbed : user'[j] # NoRow => user[j] # NoRow
      BY <2>2, <2>3, <1>0
    <2>11. Addresses' BY <2>2, <2>8, <2>10 DEF Addresses
    <2>12. QED BY <2>5, <2>6, <2>7, <2>9, <2>11
  <1>10. CASE DeleteRow(c)
    <2> DEFINE i == req[c].id
    <2>1. req[c].at = "delete" /\ i \in Ids /\ req[c].key = i
      BY <1>10 DEF DeleteRow, WellFormed, InHand
    <2>2. /\ user' = [user EXCEPT ![i] = NoRow] /\ meant' = [meant EXCEPT ![i] = NoRow]
          /\ nextId' = nextId /\ req'[c].at = "idle" /\ disturbed' = disturbed
          /\ \A d \in Clients : d # c => req'[d] = req[d]
      BY <1>10, <1>0 DEF DeleteRow, Finish, Goto, Idle
    <2>3. \A d \in Clients : d # c /\ req[d].at = "save" /\ req[d].id = i => i \in disturbed
      BY <2>1, SaveOverlaps
    <2> HIDE DEF i
    <2>4. Allocated' BY <2>1, <2>2, <1>0 DEF Allocated
    <2>5. AsIfSerial' BY <2>1, <2>2, <1>0 DEF AsIfSerial
    <2>6. SavesFresh'
      <3>1. \A d \in Clients : d # c /\ req[d].at = "save" /\ req[d].id \notin disturbed
                               => user'[req[d].id] = user[req[d].id]
        BY <2>2, <2>3, <1>0 DEF WellFormed, InHand
      <3>2. QED BY <3>1, <2>2 DEF SavesFresh
    <2>7. NoRow.email = None BY DEF NoRow
    <2>8. \A d \in Clients : req[d].at = "create" => req[d].key # None
      BY ConstantsAreTyped DEF WellFormed, InHand
    <2>9. SignupsFresh' BY <2>2, <2>7, <2>8, <1>0 DEF SignupsFresh
    <2>10. \A j \in Ids : user[j] # NoRow => user[j].email # None
      BY <1>0, ConstantsAreTyped DEF Row
    <2>11. Addresses' BY <2>2, <2>7, <2>10, <1>0 DEF Addresses
    <2>12. QED BY <2>4, <2>5, <2>6, <2>9, <2>11
  <1>11. QED BY <1>3, <1>4, <1>5, <1>6, <1>7, <1>8, <1>9, <1>10

-----------------------------------------------------------------------------
(* The codes: of an undisturbed number no code has logged in twice, and    *)
(* one that is still to be sent, in Redis or in a request not even once.   *)

Using(c, m, n) == /\ req[c].at \in {"find", "consume"}
                  /\ req[c].key = m /\ req[c].sending = n

Unspent(m, n) == n > sends \/ n = code[m] \/ \E c \in Clients : Using(c, m, n)

CodesFresh ==
    \A m \in Mobiles \ disturbed : \A n \in 1..MaxSends :
        logins[m][n] <= 1 /\ (Unspent(m, n) => logins[m][n] = 0)

(* A code in Redis or in a request has been sent. *)
CodesSent ==
    /\ \A m \in Mobiles : code[m] <= sends
    /\ \A c \in Clients : req[c].at \in {"find", "consume"} => req[c].sending <= sends

(* No step stores or takes up a code before it is sent. *)
LEMMA CodesSentStep ==
  ASSUME Typed, CodesSent, Notable \/ Quiet PROVE CodesSent'
  <1> USE DEF Typed
  <1>0. /\ sends \in Nat /\ code \in [Mobiles -> 0..MaxSends] /\ req \in [Clients -> Request]
        /\ MaxSends \in Nat
        /\ \A c \in Clients : req[c].sending \in Nat
    BY ConstantsAreTyped DEF TypeOK, Request
  <1>1. CASE Quiet BY <1>1, <1>0 DEF Quiet, Keeps, CodesSent
  <1> SUFFICES ASSUME NEW c \in Clients,
                      \/ \E e \in Emails : Signup(c, e)
                      \/ CreateUser(c) \/ SaveUser(c) \/ DeleteRow(c) \/ ConsumeCode(c)
                      \/ \E m \in Mobiles : SendSMSCode(c, m) \/ LoginByMobile(c, m)
                      \/ \E i \in Ids, ch \in Change : UpdateUserInfo(c, i, ch)
               PROVE  CodesSent'
      BY <1>1 DEF Notable
  <1>2. ASSUME sends' = sends, \A m \in Mobiles : code'[m] \in {0, code[m]},
               \A d \in Clients : d # c => req'[d] = req[d],
               req'[c].at \in {"find", "consume"} => req'[c].sending <= sends
        PROVE  CodesSent'
    BY <1>2, <1>0 DEF CodesSent
  <1>3. ASSUME NEW m \in Mobiles, SendSMSCode(c, m) PROVE CodesSent'
    BY <1>3, <1>0 DEF SendSMSCode, CodesSent
  <1>4. ASSUME NEW m \in Mobiles, LoginByMobile(c, m) PROVE CodesSent'
    BY <1>4, <1>2, <1>0 DEF LoginByMobile, Begin, Idle, codes, CodesSent
  <1>5. CASE ConsumeCode(c) BY <1>5, <1>2, <1>0 DEF ConsumeCode, Idle
  <1>6. ASSUME NEW e \in Emails, Signup(c, e) PROVE CodesSent'
    BY <1>6, <1>2, <1>0 DEF Signup, Begin, Idle, codes
  <1>7. ASSUME NEW i \in Ids, NEW ch \in Change, UpdateUserInfo(c, i, ch) PROVE CodesSent'
    <2> DEFINE r == [Idle EXCEPT !.at = "save", !.key = i, !.id = i, !.change = ch,
                                !.row = Set(user[i], ch)]
    <2>1. r.at = "save" /\ req' = [req EXCEPT ![c] = r]
      BY <1>7 DEF UpdateUserInfo, Begin, Idle
    <2> HIDE DEF r
    <2>2. QED BY <1>7, <2>1, <1>2, <1>0 DEF UpdateUserInfo, codes
  <1>8. CASE CreateUser(c) BY <1>8, <1>2, <1>0 DEF CreateUser, Goto, Idle, codes
  <1>9. CASE SaveUser(c) BY <1>9, <1>2, <1>0 DEF SaveUser, Finish, Goto, Idle, codes
  <1>10. CASE DeleteRow(c) BY <1>10, <1>2, <1>0 DEF DeleteRow, Finish, Goto, Idle, codes
  <1>11. QED BY <1>3, <1>4, <1>5, <1>6, <1>7, <1>8, <1>9, <1>10

(* A step that sends, spends and takes up no code. *)
LEMMA CodesStay ==
  ASSUME Typed, CodesFresh, disturbed \subseteq disturbed', UNCHANGED <<sends, logins>>,
         \A m \in Mobiles : code'[m] \in {0, code[m]},
         \A d \in Clients : \A m \in Mobiles : \A n \in 1..MaxSends :
             Using(d, m, n)' => Using(d, m, n)
  PROVE  CodesFresh'
  <1> SUFFICES ASSUME NEW m \in Mobiles \ disturbed', NEW n \in 1..MaxSends
               PROVE  (logins[m][n] <= 1 /\ (Unspent(m, n) => logins[m][n] = 0))'
      BY DEF CodesFresh
  <1>1. m \in Mobiles \ disturbed OBVIOUS
  <1>2. logins'[m][n] <= 1 BY <1>1 DEF CodesFresh
  <1>3. n # 0 BY ConstantsAreTyped
  <1>4. Unspent(m, n)' => Unspent(m, n) BY <1>1, <1>3 DEF Unspent
  <1>5. QED BY <1>1, <1>2, <1>4 DEF CodesFresh

(* Every step keeps the codes of undisturbed numbers single-use. *)
LEMMA CodesStep ==
  ASSUME Typed, Typed', CodesSent, CodesFresh, disturbed \subseteq disturbed',
         Notable \/ Quiet
  PROVE  CodesFresh'
  <1> USE DEF Typed
  <1>0. /\ sends \in 0..MaxSends /\ code \in [Mobiles -> 0..MaxSends]
        /\ logins \in [Mobiles -> [1..MaxSends -> Nat]] /\ req \in [Clients -> Request]
        /\ MaxSends \in Nat
    BY ConstantsAreTyped DEF TypeOK
  <1>1. CASE Quiet BY <1>1, CodesStay DEF Quiet, Keeps, Using
  <1> SUFFICES ASSUME NEW c \in Clients,
                      \/ \E e \in Emails : Signup(c, e)
                      \/ CreateUser(c) \/ SaveUser(c) \/ DeleteRow(c) \/ ConsumeCode(c)
                      \/ \E m \in Mobiles : SendSMSCode(c, m) \/ LoginByMobile(c, m)
                      \/ \E i \in Ids, ch \in Change : UpdateUserInfo(c, i, ch)
               PROVE  CodesFresh'
      BY <1>1 DEF Notable
  <1>2. ASSUME UNCHANGED codes, NEW r, req' = [req EXCEPT ![c] = r],
               r.at \notin {"find", "consume"}
        PROVE  CodesFresh'
    <2>1. \A d \in Clients : req'[d] = req[d] \/ req'[d].at \notin {"find", "consume"}
      BY <1>2, <1>0
    <2>2. \A d \in Clients : \A m \in Mobiles : \A n \in 1..MaxSends :
            Using(d, m, n)' => Using(d, m, n)
      BY <2>1 DEF Using
    <2>3. QED BY <1>2, <2>2, CodesStay DEF codes
  <1>3. ASSUME NEW e \in Emails, Signup(c, e) PROVE CodesFresh'
    <2> DEFINE r == [Idle EXCEPT !.at = "create", !.key = e]
    <2>1. r.at = "create" /\ req' = [req EXCEPT ![c] = r] BY <1>3 DEF Signup, Begin, Idle
    <2> HIDE DEF r
    <2>2. QED BY <1>3, <2>1, <1>2 DEF Signup
  <1>4. ASSUME NEW i \in Ids, NEW ch \in Change, UpdateUserInfo(c, i, ch) PROVE CodesFresh'
    <2> DEFINE r == [Idle EXCEPT !.at = "save", !.key = i, !.id = i, !.change = ch,
                                !.row = Set(user[i], ch)]
    <2>1. r.at = "save" /\ req' = [req EXCEPT ![c] = r]
      BY <1>4 DEF UpdateUserInfo, Begin, Idle
    <2> HIDE DEF r
    <2>2. QED BY <1>4, <2>1, <1>2 DEF UpdateUserInfo
  <1>5. CASE CreateUser(c)
    <2> DEFINE r == [Idle EXCEPT !.at = "token", !.id = nextId]
    <2>1. r.at = "token" /\ req' = [req EXCEPT ![c] = r] BY <1>5 DEF CreateUser, Goto, Idle
    <2> HIDE DEF r
    <2>2. QED BY <1>5, <2>1, <1>2 DEF CreateUser
  <1>6. CASE SaveUser(c) BY <1>6, <1>2 DEF SaveUser, Finish, Goto, Idle
  <1>7. CASE DeleteRow(c) BY <1>7, <1>2 DEF DeleteRow, Finish, Goto, Idle
  <1>8. ASSUME NEW k \in Mobiles, SendSMSCode(c, k) PROVE CodesFresh'
    <2>1. /\ sends' = sends + 1 /\ code' = [code EXCEPT ![k] = sends + 1]
          /\ logins' = logins /\ req' = req
      BY <1>8 DEF SendSMSCode
    <2> SUFFICES ASSUME NEW m \in Mobiles \ disturbed', NEW n \in 1..MaxSends
                 PROVE  (logins[m][n] <= 1 /\ (Unspent(m, n) => logins[m][n] = 0))'
        BY DEF CodesFresh
    <2>2. Unspent(m, n)' => Unspent(m, n)
      <3>1. n \in Nat /\ sends \in Nat BY <1>0
      <3>2. code'[m] \in {code[m], sends + 1} BY <2>1, <1>0
      <3>3. QED BY <2>1, <3>1, <3>2 DEF Unspent, Using
    <2>3. QED BY <2>1, <2>2 DEF CodesFresh
  <1>9. ASSUME NEW k \in Mobiles, LoginByMobile(c, k) PROVE CodesFresh'
    <2>1. /\ req'[c].at = "find" /\ req'[c].key = k /\ req'[c].sending = code[k]
          /\ \A d \in Clients : d # c => req'[d] = req[d]
      BY <1>9, <1>0 DEF LoginByMobile, Begin, Idle
    <2>2. UNCHANGED <<code, sends, logins>> BY <1>9 DEF LoginByMobile, codes
    <2> SUFFICES ASSUME NEW m \in Mobiles \ disturbed', NEW n \in 1..MaxSends
                 PROVE  (logins[m][n] <= 1 /\ (Unspent(m, n) => logins[m][n] = 0))'
        BY DEF CodesFresh
    <2>3. Unspent(m, n)' => Unspent(m, n) BY <2>1, <2>2 DEF Unspent, Using
    <2>4. QED BY <2>2, <2>3 DEF CodesFresh
  <1>10. CASE ConsumeCode(c)
    <2> DEFINE k == req[c].key
               s == req[c].sending
    <2>1. /\ req[c].at = "consume" /\ k \in Mobiles /\ s \in 1..MaxSends
          /\ \A d \in Clients : d # c => req'[d] = req[d]
          /\ req'[c].at = "idle" /\ sends' = sends
      BY <1>10, <1>0 DEF ConsumeCode, WellFormed, InHand, Idle
    <2>2. k \notin disturbed' => code' = [code EXCEPT ![k] = 0]
      BY <1>10 DEF ConsumeCode
    <2>3. logins' \in {logins, [logins EXCEPT ![k][s] = @ + 1]}
      BY <1>10 DEF ConsumeCode, AnswerMobile
    <2>4. Using(c, k, s) BY <2>1 DEF Using
    <2>5. \A d \in Clients : d # c /\ req[d].key = k => k \in disturbed
      BY <2>1, ConstantsAreTyped DEF Exclusive
    <2>6. code' \in {code, [code EXCEPT ![k] = 0]} BY <1>10 DEF ConsumeCode
    <2> HIDE DEF k, s
    <2> SUFFICES ASSUME NEW m \in Mobiles \ disturbed', NEW n \in 1..MaxSends
                 PROVE  (logins[m][n] <= 1 /\ (Unspent(m, n) => logins[m][n] = 0))'
        BY DEF CodesFresh
    <2>7. n \in Nat \ {0} /\ logins[m][n] \in Nat BY <1>0
    <2>8. logins[m][n] <= 1 /\ (Unspent(m, n) => logins[m][n] = 0) BY DEF CodesFresh
    <2>9. CASE m # k
      <3>1. logins'[m] = logins[m] BY <2>3, <2>9, <2>1, <1>0
      <3>2. code'[m] = code[m] BY <2>6, <2>9, <2>1, <1>0
      <3>3. Unspent(m, n)' => Unspent(m, n) BY <3>2, <2>1 DEF Unspent, Using
      <3>4. QED BY <3>1, <3>3, <2>8
    <2>10. CASE m = k
      <3>0. k \notin disturbed /\ k \notin disturbed' BY <2>10
      <3>1. code'[k] = 0 BY <2>2, <3>0, <2>1, <1>0
      <3>2. \A d \in Clients : req'[d].key # k \/ req'[d].at = "idle"
        BY <2>1, <2>5, <3>0
      <3>3. \A d \in Clients : ~Using(d, m, n)' BY <3>2, <2>10 DEF Using
      <3>4. Unspent(m, n)' => n > sends BY <3>1, <3>3, <2>1, <2>7, <2>10 DEF Unspent
      <3>5. logins[k][s] = 0 BY <2>4, <3>0, <2>1 DEF CodesFresh, Unspent
      <3>6. s <= sends BY <2>1 DEF CodesSent, s
      <3>7. CASE n = s
        <4>1. logins'[k][n] \in {0, 1} BY <3>7, <3>5, <2>3, <2>1, <1>0
        <4>2. ~Unspent(m, n)' BY <3>4, <3>6, <3>7, <2>1, <1>0
        <4>3. QED BY <4>1, <4>2, <2>10
      <3>8. CASE n # s
        <4>1. logins'[k][n] = logins[k][n] BY <3>8, <2>3, <2>1, <1>0
        <4>2. Unspent(m, n)' => Unspent(m, n) BY <3>4 DEF Unspent
        <4>3. QED BY <4>1, <4>2, <2>8, <2>10
      <3>9. QED BY <3>7, <3>8
    <2>11. QED BY <2>9, <2>10
  <1>11. QED BY <1>3, <1>4, <1>5, <1>6, <1>7, <1>8, <1>9, <1>10

-----------------------------------------------------------------------------
(* Tokens: only an answer, a write to Redis and the clock touch them.      *)

TokensStay == UNCHANGED <<answered, session, now, unsaved>>

(* The steps that touch tokens. *)
LEMMA TokenSteps ==
  ASSUME [Next]_vars
  PROVE  TokensStay \/ Tick \/ \E c \in Clients : IssueToken(c) \/ ConsumeCode(c)
  BY DEF Next, Arrive, Proceed, vars, tokens, TokensStay, ExpireCode, Signup,
         LoginByPassword, SendSMSCode, LoginByMobile, DeleteUser, UpdateUserInfo,
         CreateEvalTask, CreateDataset, CreateUser, FindByMobile, NewUserRefused,
         SaveUser, DeleteRow, LookupUser, Store, Fails

(* Every step keeps the unexpired tokens in Redis. *)
LEMMA AcceptedStep ==
  ASSUME TypeOK, IssuedIsAccepted, [Next]_vars PROVE IssuedIsAccepted'
  <1> SUFFICES ASSUME NEW d \in Clients, NEW a \in answered'[d], a.by = "password",
                      Unexpired(a.token)', a.token \notin unsaved'
               PROVE  a.token \in session'
      BY DEF IssuedIsAccepted, Accepted
  <1>0. /\ now \in Nat /\ Lifetime \in Nat
        /\ \A c \in Clients : \A b \in answered[c] : b.token.at \in Nat
        /\ answered \in [Clients -> SUBSET [token : Tokens, by : {"password", "mobile"}]]
    BY ConstantsAreTyped DEF TypeOK, Tokens
  <1>1. CASE TokensStay
    BY <1>1 DEF TokensStay, IssuedIsAccepted, Accepted, Unexpired
  <1>2. CASE Tick
    <2>1. a \in answered[d] /\ a.token \notin unsaved /\ now' = now + 1
      BY <1>2 DEF Tick
    <2>2. now' < a.token.at + Lifetime BY DEF Unexpired
    <2>3. Unexpired(a.token) BY <2>1, <2>2, <1>0 DEF Unexpired
    <2>4. a.token \in session BY <2>1, <2>3 DEF IssuedIsAccepted, Accepted
    <2>5. QED BY <1>2, <2>2, <2>4 DEF Tick
  <1>3. ASSUME NEW c \in Clients, IssueToken(c) PROVE a.token \in session'
    <2>1. a \in answered[d] \/ a.token = TokenOf(c)
      BY <1>3, <1>0 DEF IssueToken, Answer
    <2>2. session \subseteq session' /\ unsaved \subseteq unsaved' /\ now' = now
      BY <1>3 DEF IssueToken
    <2>3. CASE a \in answered[d]
      BY <2>2, <2>3 DEF IssuedIsAccepted, Accepted, Unexpired
    <2>4. CASE a.token = TokenOf(c) BY <1>3, <2>4 DEF IssueToken
    <2>5. QED BY <2>1, <2>3, <2>4
  <1>4. ASSUME NEW c \in Clients, ConsumeCode(c) PROVE a.token \in session'
    <2>1. a \in answered[d] \/ a.by = "mobile"
      BY <1>4, <1>0 DEF ConsumeCode, AnswerMobile, Answer
    <2>2. UNCHANGED <<session, now, unsaved>> BY <1>4 DEF ConsumeCode
    <2>3. QED BY <2>1, <2>2 DEF IssuedIsAccepted, Accepted, Unexpired
  <1>5. QED BY <1>1, <1>2, <1>3, <1>4, TokenSteps

(* What is stored: only Store adds to it, and with the id it has in hand.  *)
LEMMA OwnerStep ==
  ASSUME WellFormed, OwnerIsTokenUser, [Next]_vars PROVE OwnerIsTokenUser'
  <1>1. CASE stored' = stored BY <1>1 DEF OwnerIsTokenUser
  <1>2. ASSUME NEW c \in Clients, Store(c) PROVE OwnerIsTokenUser'
    <2>1. req[c].id = req[c].token BY <1>2 DEF Store, WellFormed, InHand
    <2>2. QED BY <1>2, <2>1 DEF Store, OwnerIsTokenUser
  <1>3. stored' = stored \/ \E c \in Clients : Store(c)
    BY DEF Next, Arrive, Proceed, vars, Tick, ExpireCode, Signup,
           LoginByPassword, SendSMSCode, LoginByMobile, DeleteUser, UpdateUserInfo,
           CreateEvalTask, CreateDataset, CreateUser, FindByMobile, NewUserRefused,
           SaveUser, DeleteRow, LookupUser, Fails, IssueToken, ConsumeCode
  <1>4. QED BY <1>1, <1>2, <1>3

-----------------------------------------------------------------------------
(* The inductive invariant and the theorems. *)

IInv == Typed /\ Table /\ CodesSent /\ CodesFresh /\ IssuedIsAccepted /\ OwnerIsTokenUser

(* The inductive invariant holds initially, every step keeps it, so it always holds. *)
LEMMA InitIInv == Init => IInv
  <1> SUFFICES ASSUME Init PROVE IInv OBVIOUS
  <1> USE ConstantsAreTyped DEF Init
  <1>1. \A c \in Clients : req[c] = Idle /\ req[c].at = "idle" /\ req[c].key = None
    BY DEF Idle
  <1>2. \A i \in Ids : user[i] = NoRow BY DEF Ids
  <1>3. TypeOK
    <2>1. req \in [Clients -> Request] BY IdleIsRequest
    <2>2. user \in [Ids -> Row \cup {NoRow}] /\ meant \in [Ids -> Row \cup {NoRow}]
      OBVIOUS
    <2>3. logins \in [Mobiles -> [1..MaxSends -> Nat]] OBVIOUS
    <2>4. answered \in [Clients -> SUBSET [token : Tokens, by : {"password", "mobile"}]]
      OBVIOUS
    <2>5. nextId \in FirstId .. (FirstId + MaxUsers) OBVIOUS
    <2>6. QED BY <2>1, <2>2, <2>3, <2>4, <2>5 DEF TypeOK
  <1>4. WellFormed BY <1>1, IdleInHand DEF WellFormed
  <1>5. Exclusive BY <1>1 DEF Exclusive
  <1>6. Table BY <1>1, <1>2 DEF Table, Allocated, SavesFresh, SignupsFresh, Addresses,
                               AsIfSerial
  <1>7. CodesSent BY <1>1 DEF CodesSent
  <1>8. CodesFresh BY DEF CodesFresh
  <1>9. IssuedIsAccepted /\ OwnerIsTokenUser BY DEF IssuedIsAccepted, OwnerIsTokenUser
  <1>10. QED BY <1>3, <1>4, <1>5, <1>6, <1>7, <1>8, <1>9 DEF IInv, Typed

LEMMA StepIInv == IInv /\ [Next]_vars => IInv'
  <1> SUFFICES ASSUME IInv, [Next]_vars PROVE IInv' OBVIOUS
  <1>1. Typed /\ Table /\ CodesSent /\ CodesFresh /\ IssuedIsAccepted /\ OwnerIsTokenUser
    BY DEF IInv
  <1>2. TypeOK /\ WellFormed /\ Exclusive BY <1>1 DEF Typed
  <1>3. TypeOK' /\ WellFormed' BY <1>2, TypeStep
  <1>4. Exclusive' /\ disturbed \subseteq disturbed' /\ (Notable \/ Quiet)
    BY <1>2, StepKinds DEF KindOK
  <1>5. Typed' BY <1>3, <1>4 DEF Typed
  <1>6. Table' BY <1>1, <1>4, <1>5, TableStep
  <1>7. CodesSent' BY <1>1, <1>4, CodesSentStep
  <1>8. CodesFresh' BY <1>1, <1>4, <1>5, CodesStep
  <1>9. IssuedIsAccepted' BY <1>1, <1>2, AcceptedStep
  <1>10. OwnerIsTokenUser' BY <1>1, <1>2, OwnerStep
  <1>11. QED BY <1>5, <1>6, <1>7, <1>8, <1>9, <1>10 DEF IInv

LEMMA Invariant == Spec => []IInv
  BY InitIInv, StepIInv, PTL DEF Spec

(* The variables keep their types, whatever the limits. *)
THEOREM TypeCorrect == Spec => []TypeOK
  <1>1. IInv => TypeOK BY DEF IInv, Typed
  <1>2. QED BY <1>1, Invariant, PTL

(* Two rows share an address only by overlapping requests: LoginByPassword *)
(* then finds the elder of them and the younger can never log in again.    *)
THEOREM AddressesAreUnique == Spec => []DuplicateOnlyByRace
  <1>1. IInv => DuplicateOnlyByRace
    BY DEF IInv, Table, Addresses, DuplicateOnlyByRace, Exists
  <1>2. QED BY <1>1, Invariant, PTL

(* A row differs from what the updates and the deletion of it make one     *)
(* after the other only if two of them overlapped (a lost update, or a     *)
(* deleted row that gorm's Save inserts again).                            *)
THEOREM UpdatesAreSerial == Spec => []AsIfSerial
  <1>1. IInv => AsIfSerial BY DEF IInv, Table
  <1>2. QED BY <1>1, Invariant, PTL

(* A code logs in at most once unless its number's requests overlapped or  *)
(* its deletion failed.                                                    *)
THEOREM CodesAreSingleUse == Spec => []CodeUsedOnce
  <1>1. IInv => CodeUsedOnce BY DEF IInv, CodesFresh, CodeUsedOnce
  <1>2. QED BY <1>1, Invariant, PTL

(* The middleware accepts every unexpired token that Signup or             *)
(* LoginByPassword answered, if it was written to Redis.                   *)
THEOREM TokensAreAccepted == Spec => []IssuedIsAccepted
  <1>1. IInv => IssuedIsAccepted BY DEF IInv
  <1>2. QED BY <1>1, Invariant, PTL

(* No task and no dataset is stored under an id that is not the token's.   *)
THEOREM OwnersAreRight == Spec => []OwnerIsTokenUser
  <1>1. IInv => OwnerIsTokenUser BY DEF IInv
  <1>2. QED BY <1>1, Invariant, PTL
=============================================================================
