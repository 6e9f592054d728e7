-------------------------------- MODULE Auth --------------------------------
(***************************************************************************)
(* Users and their tokens: UserHandler (handler/user.go) over the table    *)
(* "user" in PostgreSQL and the keys of Redis, the token check of          *)
(* middleware/auth.go, and what the evaluation and dataset handlers make   *)
(* of the user id in a token.  Every request is a goroutine; a call to a   *)
(* store is one step, and two requests may interleave between calls.       *)
(*                                                                         *)
(* A request that is answered without having changed or remembered         *)
(* anything is a stuttering step and has no action.  The password of a row *)
(* is represented by the client that chose it, a verification code by the  *)
(* number of its sending, a token by what determines its text: the user id *)
(* and the second of its issue.                                            *)
(***************************************************************************)
EXTENDS Naturals

CONSTANTS Clients, Emails, Mobiles,
          None,         \* a column or a key that is not set
          FirstId,      \* the first value of the id sequence
          Lifetime,     \* ExpireDuration, in ticks of the clock
          MaxUsers,     \* bound: rows ever inserted
          MaxRequests,  \* bound: requests that get past their checks
          MaxSends,     \* bound: verification codes sent
          MaxNow,       \* bound: ticks of the clock
          MaxFaults     \* bound: failed calls, panics and lost processes

ASSUME AuthAssumption ==
    /\ FirstId \in Nat \ {0} /\ Lifetime \in Nat \ {0}
    /\ MaxUsers \in Nat /\ MaxRequests \in Nat /\ MaxSends \in Nat
    /\ MaxNow \in Nat /\ MaxFaults \in Nat
    /\ None \notin Clients \cup Emails \cup Mobiles \cup Nat
    /\ Emails \cap Mobiles = {} /\ (Emails \cup Mobiles) \cap Nat = {}

Ids    == FirstId .. (FirstId + MaxUsers - 1)
Tokens == [id : Ids, at : 0..MaxNow]

VARIABLES
    user,       \* user[i]: the row of user i, NoRow if there is none
    nextId,     \* the next value of the id sequence
    code,       \* code[m]: Redis login:code:m, the sending it stems from or 0
    session,    \* the tokens that are keys of Redis
    now,
    req,        \* req[c]: the request client c has in progress
    answered,   \* answered[c]: the tokens c was given, and by which login
    stored,     \* tasks and datasets: the user id stored, the one of the token
    sends,
    (* history *)
    meant,      \* meant[i]: the row the writes make when each sees the last
    logins,     \* logins[m][n]: logins by number m with the n-th code sent
    unsaved,    \* tokens whose Redis.Set failed
    disturbed,  \* keys with overlapping requests, or whose Redis.Del failed
    requests, faults

tables  == <<user, nextId, meant>>
tokens  == <<session, now, answered, unsaved>>
codes   == <<code, sends, logins>>
history == <<disturbed, requests, faults>>
vars    == <<tables, tokens, codes, req, stored, history>>

(* The columns that requests read or write. *)
Row   == [email : Emails, password : Clients, mobile : Mobiles \cup {None},
          profile : BOOLEAN]    \* nickname and avatar_url, set together
NoRow == [email |-> None, password |-> None, mobile |-> None, profile |-> FALSE]

(* What UpdateUserInfo is asked to set: None and FALSE leave a column. *)
Change == [mobile : Mobiles \cup {None}, profile : BOOLEAN]
NoChange == [mobile |-> None, profile |-> FALSE]

Set(row, ch) == [row EXCEPT !.mobile = IF ch.mobile = None THEN @ ELSE ch.mobile,
                            !.profile = @ \/ ch.profile]

Exists(i) == i \in Ids /\ user[i] # NoRow

(* gorm's First orders by the primary key. *)
First(i, matching) == i \in matching /\ \A j \in matching : i <= j

WithEmail(e)  == {i \in Ids : user[i].email = e}
WithMobile(m) == {i \in Ids : user[i].mobile = m}

-----------------------------------------------------------------------------
(* A request: the position after its last call, the e-mail, mobile or user *)
(* id it decides about, and the values it has read.                        *)

Idle == [at |-> "idle", key |-> None, id |-> 0, token |-> 0, sending |-> 0,
         row |-> NoRow, change |-> NoChange]

Busy(k) == \E c \in Clients : req[c].key = k /\ k # None
Touch(k) == disturbed' = IF Busy(k) THEN disturbed \cup {k} ELSE disturbed

Begin(c, r) ==
    /\ req[c] = Idle
    /\ requests < MaxRequests /\ requests' = requests + 1
    /\ req' = [req EXCEPT ![c] = r]
    /\ Touch(r.key)
    /\ UNCHANGED faults

Goto(c, r) == req' = [req EXCEPT ![c] = r] /\ UNCHANGED <<disturbed, requests>>
Finish(c)  == Goto(c, Idle)
NoFault    == UNCHANGED faults
Fault      == faults < MaxFaults /\ faults' = faults + 1

(* An error of a store, a panic, the end of the process. *)
Fails(c) ==
    /\ req[c] # Idle
    /\ Fault /\ Finish(c)
    /\ UNCHANGED <<tables, tokens, codes, stored>>

-----------------------------------------------------------------------------
(* Signup *)

(* Faulty variant: the address is not looked up. *)
SignupUnchecked(c, e) ==
    /\ Begin(c, [Idle EXCEPT !.at = "create", !.key = e])
    /\ UNCHANGED <<tables, tokens, codes, stored>>

Signup(c, e) ==
    /\ WithEmail(e) = {}
    /\ Begin(c, [Idle EXCEPT !.at = "create", !.key = e])
    /\ UNCHANGED <<tables, tokens, codes, stored>>

CreateUser(c) ==
    /\ req[c].at = "create" /\ nextId \in Ids
    /\ LET row == [email |-> req[c].key, password |-> c, mobile |-> None,
                   profile |-> FALSE]
       IN /\ user' = [user EXCEPT ![nextId] = row]
          /\ meant' = [meant EXCEPT ![nextId] = row]
    /\ nextId' = nextId + 1
    /\ Goto(c, [Idle EXCEPT !.at = "token", !.id = nextId]) /\ NoFault
    /\ UNCHANGED <<tokens, codes, stored>>

(* LoginByPassword: the row of the address, the comparison of passwords *)
LoginByPassword(c, e) ==
    /\ \E i \in Ids :
         /\ First(i, WithEmail(e))
         /\ user[i].password = c
         /\ Begin(c, [Idle EXCEPT !.at = "token", !.id = i])
    /\ UNCHANGED <<tables, tokens, codes, stored>>

TokenOf(c) == [id |-> req[c].id, at |-> now]
Answer(c, login) ==
    answered' = [answered EXCEPT ![c] = @ \cup {[token |-> TokenOf(c), by |-> login]}]

(* Faulty variant: the token is answered and not written to Redis. *)
AnswerOnly(c) ==
    /\ req[c].at = "token"
    /\ Answer(c, "password") /\ Finish(c) /\ NoFault
    /\ UNCHANGED <<session, unsaved, now, tables, codes, stored>>

(* GenerateJWT and Redis.Set, whose error is not looked at; the answer *)
IssueToken(c) ==
    /\ req[c].at = "token"
    /\ \/ session' = session \cup {TokenOf(c)} /\ NoFault /\ UNCHANGED unsaved
       \/ unsaved' = unsaved \cup {TokenOf(c)} /\ Fault /\ UNCHANGED session
    /\ Answer(c, "password") /\ Finish(c)
    /\ UNCHANGED <<now, tables, codes, stored>>

(* The expiry of tokens, written in the token and as the TTL of its key *)
Unexpired(t) == now < t.at + Lifetime

Tick ==
    /\ now < MaxNow /\ now' = now + 1
    /\ session' = {t \in session : now' < t.at + Lifetime}
    /\ UNCHANGED <<answered, unsaved, tables, codes, req, stored, history>>

-----------------------------------------------------------------------------
(* SendSMSCode and LoginByMobile *)

SendSMSCode(c, m) ==
    /\ req[c] = Idle
    /\ sends < MaxSends /\ sends' = sends + 1
    /\ code' = [code EXCEPT ![m] = sends + 1]
    /\ Touch(m)
    /\ UNCHANGED <<logins, tables, tokens, req, stored, requests, faults>>

ExpireCode(m) ==
    /\ code[m] # 0
    /\ code' = [code EXCEPT ![m] = 0]
    /\ UNCHANGED <<sends, logins, tables, tokens, req, stored, history>>

(* The code is there and it is the one the client gives. *)
LoginByMobile(c, m) ==
    /\ code[m] # 0
    /\ Begin(c, [Idle EXCEPT !.at = "find", !.key = m, !.sending = code[m]])
    /\ UNCHANGED <<tables, tokens, codes, stored>>

FindByMobile(c) ==
    /\ req[c].at = "find"
    /\ \E i \in Ids :
         /\ First(i, WithMobile(req[c].key))
         /\ Goto(c, [req[c] EXCEPT !.at = "consume", !.id = i, !.row = user[i]])
    /\ NoFault
    /\ UNCHANGED <<tables, tokens, codes, stored>>

(* The columns email and password are NOT NULL: the row of a new user, who *)
(* has neither, is refused, and the id it was given is not used again.     *)
NewUserRefused(c) ==
    /\ req[c].at = "find"
    /\ WithMobile(req[c].key) = {}
    /\ nextId \in Ids /\ nextId' = nextId + 1
    /\ Finish(c) /\ NoFault
    /\ UNCHANGED <<user, meant, tokens, codes, stored>>

(* The answer: it dereferences avatar_url and nickname, and a nil one ends *)
(* the request in a panic.  Its token is not written to Redis.             *)
AnswerMobile(c) ==
    IF req[c].row.profile
    THEN /\ Answer(c, "mobile")
         /\ logins' = [logins EXCEPT ![req[c].key][req[c].sending] = @ + 1]
    ELSE UNCHANGED <<answered, logins>>

(* Faulty variant: the code is left to expire. *)
KeepCode(c) ==
    /\ req[c].at = "consume"
    /\ AnswerMobile(c) /\ Finish(c) /\ NoFault
    /\ UNCHANGED <<code, tables, session, now, unsaved, sends, stored>>

(* Redis.Del takes whatever code is there by now; its error is ignored. *)
ConsumeCode(c) ==
    /\ req[c].at = "consume"
    /\ req' = [req EXCEPT ![c] = Idle]
    /\ \/ code' = [code EXCEPT ![req[c].key] = 0] /\ NoFault /\ UNCHANGED disturbed
       \/ disturbed' = disturbed \cup {req[c].key} /\ Fault /\ UNCHANGED code
    /\ AnswerMobile(c)
    /\ UNCHANGED <<tables, session, now, unsaved, sends, stored, requests>>

-----------------------------------------------------------------------------
(* UpdateUserInfo and DeleteUser *)

UpdateUserInfo(c, i, ch) ==
    /\ Exists(i) /\ ch # NoChange
    /\ Begin(c, [Idle EXCEPT !.at = "save", !.key = i, !.id = i, !.change = ch,
                             !.row = Set(user[i], ch)])
    /\ UNCHANGED <<tables, tokens, codes, stored>>

Meant(c) == meant' = [meant EXCEPT ![req[c].id] =
                        IF @ = NoRow THEN NoRow ELSE Set(@, req[c].change)]

(* Faulty variant: the columns that were not asked for are cleared. *)
SaveRequested(c) ==
    /\ req[c].at = "save"
    /\ user' = [user EXCEPT ![req[c].id] =
                  [req[c].row EXCEPT !.mobile = req[c].change.mobile,
                                     !.profile = req[c].change.profile]]
    /\ Meant(c) /\ Finish(c) /\ NoFault
    /\ UNCHANGED <<nextId, tokens, codes, stored>>

(* gorm's Save writes every column of the row that was read, and inserts   *)
(* it again if it has been deleted since.                                  *)
SaveUser(c) ==
    /\ req[c].at = "save"
    /\ user' = [user EXCEPT ![req[c].id] = req[c].row]
    /\ Meant(c) /\ Finish(c) /\ NoFault
    /\ UNCHANGED <<nextId, tokens, codes, stored>>

DeleteUser(c, i) ==
    /\ Exists(i)
    /\ Begin(c, [Idle EXCEPT !.at = "delete", !.key = i, !.id = i])
    /\ UNCHANGED <<tables, tokens, codes, stored>>

DeleteRow(c) ==
    /\ req[c].at = "delete"
    /\ user' = [user EXCEPT ![req[c].id] = NoRow]
    /\ meant' = [meant EXCEPT ![req[c].id] = NoRow]
    /\ Finish(c) /\ NoFault
    /\ UNCHANGED <<nextId, tokens, codes, stored>>

-----------------------------------------------------------------------------
(* The authorised routes *)

(* AuthMiddleware: the token verifies and is a key of Redis. *)
Accepted(t) == Unexpired(t) /\ t \in session

(* The number in the claims is a float64: from a million on, "%v" prints   *)
(* it with an exponent and Atoi refuses the text.                          *)
Printable(i) == i < 1000000

(* Faulty variant: the digits before the point are taken for the id. *)
MantissaOf(i) == IF Printable(i) THEN i ELSE 1

(* getUserId; CreateBatchEvalJob goes on with 0 after an error. *)
getUserId(i) == IF Printable(i) THEN i ELSE 0

CreateEvalTask(c, t) ==
    /\ Accepted(t)
    /\ Begin(c, [Idle EXCEPT !.at = "lookup", !.id = getUserId(t.id), !.token = t.id])
    /\ UNCHANGED <<tables, tokens, codes, stored>>

(* Faulty variant: the service takes any user id. *)
LookupAny(c) ==
    /\ req[c].at = "lookup"
    /\ Goto(c, [req[c] EXCEPT !.at = "store"]) /\ NoFault
    /\ UNCHANGED <<tables, tokens, codes, stored>>

(* The service looks the user up before it stores the task. *)
LookupUser(c) ==
    /\ req[c].at = "lookup"
    /\ Goto(c, IF Exists(req[c].id) THEN [req[c] EXCEPT !.at = "store"] ELSE Idle)
    /\ NoFault
    /\ UNCHANGED <<tables, tokens, codes, stored>>

(* The handler of datasets gives up on the error, and the service stores   *)
(* the dataset without looking the user up.                                *)
CreateDataset(c, t) ==
    /\ Accepted(t) /\ Printable(t.id)
    /\ Begin(c, [Idle EXCEPT !.at = "store", !.id = t.id, !.token = t.id])
    /\ UNCHANGED <<tables, tokens, codes, stored>>

Store(c) ==
    /\ req[c].at = "store"
    /\ stored' = stored \cup {[owner |-> req[c].id, token |-> req[c].token]}
    /\ Finish(c) /\ NoFault
    /\ UNCHANGED <<tables, tokens, codes>>

-----------------------------------------------------------------------------
Init ==
    /\ user = [i \in Ids |-> NoRow] /\ nextId = FirstId
    /\ code = [m \in Mobiles |-> 0] /\ sends = 0
    /\ session = {} /\ now = 0
    /\ req = [c \in Clients |-> Idle]
    /\ answered = [c \in Clients |-> {}]
    /\ stored = {}
    /\ meant = user /\ logins = [m \in Mobiles |-> [n \in 1..MaxSends |-> 0]]
    /\ unsaved = {} /\ disturbed = {} /\ requests = 0 /\ faults = 0

Arrive(c) ==
    \/ \E e \in Emails : Signup(c, e) \/ LoginByPassword(c, e)
    \/ \E m \in Mobiles : SendSMSCode(c, m) \/ LoginByMobile(c, m)
    \/ \E i \in Ids : \/ DeleteUser(c, i)
                      \/ \E ch \in Change : UpdateUserInfo(c, i, ch)
    \/ \E a \in answered[c] : CreateEvalTask(c, a.token) \/ CreateDataset(c, a.token)

Proceed(c) ==
    \/ CreateUser(c)  \/ IssueToken(c) \/ FindByMobile(c) \/ NewUserRefused(c)
    \/ ConsumeCode(c) \/ SaveUser(c)   \/ DeleteRow(c)
    \/ LookupUser(c)  \/ Store(c)      \/ Fails(c)

Next ==
    \/ Tick
    \/ \E m \in Mobiles : ExpireCode(m)
    \/ \E c \in Clients : Arrive(c) \/ Proceed(c)

Spec == Init /\ [][Next]_vars

-----------------------------------------------------------------------------
(* Properties *)

Keys == Emails \cup Mobiles \cup Ids

Request == [at : {"idle", "create", "token", "find", "consume", "save", "delete",
                  "lookup", "store"},
            key : Keys \cup {None}, id : Ids \cup {0}, token : Ids \cup {0},
            sending : 0..MaxSends, row : Row \cup {NoRow}, change : Change]

TypeOK ==
    /\ user \in [Ids -> Row \cup {NoRow}]
    /\ nextId \in FirstId .. (FirstId + MaxUsers)
    /\ code \in [Mobiles -> 0..MaxSends] /\ sends \in 0..MaxSends
    /\ session \subseteq Tokens /\ now \in 0..MaxNow
    /\ req \in [Clients -> Request]
    /\ answered \in [Clients -> SUBSET [token : Tokens, by : {"password", "mobile"}]]
    /\ stored \subseteq [owner : Ids \cup {0}, token : Ids \cup {0}]
    /\ meant \in [Ids -> Row \cup {NoRow}]
    /\ logins \in [Mobiles -> [1..MaxSends -> Nat]]
    /\ unsaved \subseteq Tokens /\ disturbed \subseteq Keys
    /\ requests \in 0..MaxRequests /\ faults \in 0..MaxFaults

(* Nothing in the table keeps an address unique: two rows have the same    *)
(* one only if two signups with it overlapped, or a row that was deleted   *)
(* came back through an overlapping update.                                *)
DuplicateOnlyByRace ==
    \A i, j \in Ids : i # j /\ Exists(i) /\ user[i].email = user[j].email =>
        {user[i].email, i, j} \cap disturbed # {}

(* A verification code logs in once, unless another login or a sending to  *)
(* the same number overlapped, or its deletion failed.                     *)
CodeUsedOnce ==
    \A m \in Mobiles \ disturbed : \A n \in 1..MaxSends : logins[m][n] <= 1

(* A token answered by Signup or LoginByPassword is accepted until it      *)
(* expires, unless the unchecked Redis.Set failed.  A token answered by    *)
(* LoginByMobile is exempt: it is never written to Redis.                  *)
IssuedIsAccepted ==
    \A c \in Clients : \A a \in answered[c] :
        a.by = "password" /\ Unexpired(a.token) /\ a.token \notin unsaved
        => Accepted(a.token)

(* A row is what the updates and the deletion of it make one after the     *)
(* other, unless two of them overlapped: then one may undo the other.      *)
AsIfSerial == \A i \in Ids : i \notin disturbed => user[i] = meant[i]

(* Whatever is stored is stored under the user id of the token, never      *)
(* under the 0 that a failed conversion of the claim leaves, or another id.*)
OwnerIsTokenUser == \A w \in stored : w.owner = w.token
=============================================================================
