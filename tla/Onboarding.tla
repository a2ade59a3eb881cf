------------------------------- MODULE Onboarding -------------------------------
(****************************************************************************)
(* How accounts come into being: POST /auth/register screens the e-mail and *)
(* the telephone number with an outside provider and then inserts a user    *)
(* and a wallet in one transaction; every deployment runs the seed, which   *)
(* creates or synchronizes the administrator.  Any number of both run at    *)
(* once, connections are lost anywhere, and the provider's list changes     *)
(* under way.  A client that tries again is another job with the same form. *)
(*                                                                          *)
(* PostgreSQL: an insert or update enters its row in the unique indexes,    *)
(* e-mail before telephone number; it waits for a transaction that has the  *)
(* same value uncommitted, and fails if the value is committed.             *)
(****************************************************************************)
EXTENDS Integers, FiniteSets

CONSTANTS
  Registration, Deploy,    \* requests to register, runs of the seed
  Email, Phone, Password,
  Form,                    \* what clients submit
  Environment,             \* what deployments are configured with
  MaxBalance,              \* bound of the balances of wallets
  Listable,                \* identities the provider may list or drop
  Busy,                    \* e-mails of accounts the rest of the service uses (bound)
  NoInput,
  Garbled                  \* {"unclear"} if the provider may send a 2xx that
                           \* neither reports a match nor its absence, else {}

VARIABLES
  users,     \* the committed rows of users
  balance,   \* the committed rows of wallets: the balance, by user
  listed,    \* what the provider has on its list
  pc,        \* where a job is, or how it ended
  input,     \* its form or environment
  claims,    \* identities it has in the unique indexes, uncommitted
  written,   \* the row of users it has written: none or one
  opened,    \* the balance of the wallet it has written
  off        \* history: its identities that were off the list since it began

tables  == <<users, balance>>
private == <<claims, written, opened>>
vars    == <<tables, listed, pc, input, private, off>>

Job      == Registration \cup Deploy
Identity == Email \cup Phone
Balance  == 0..MaxBalance
NoWallet == -1

Refusal   == {"forbidden", "unavailable", "conflict"}
Ended     == {"created", "seeded", "failed", "lost"} \cup Refusal
Screening == {"screenEmail", "screenPhone"}
Indexing  == {"row", "email", "phone"}
Running   == {"find", "verify", "wallet", "commit", "reply"} \cup Screening \cup Indexing

User == [id : Job, email : Email, phone : Phone, password : Password,
         role : {"CUSTOMER", "ADMIN"}, status : {"ACTIVE", "BLOCKED"}]

ASSUME OnboardingAssumption ==
  /\ Registration \cap Deploy = {} /\ Email \cap Phone = {}
  /\ MaxBalance \in Nat /\ Garbled \subseteq {"unclear"}
  /\ Form \subseteq [email : Email, phone : Phone, password : Password]
  /\ Environment \subseteq
       [email : Email, phone : Phone, password : Password, opening : Balance]
  /\ NoInput \notin Form \cup Environment

--------------------------------------------------------------------------------
(* Identities and who waits for them.                                       *)

Identities(u) == {u.email, u.phone}
Ids(rows)     == {u.id : u \in rows}

(* Defect: one of the inserts enters the telephone number first.            *)
WantedEitherWay(j) ==
  IF (pc[j] = "phone") # (j = CHOOSE r \in Registration : TRUE)
  THEN input[j].phone ELSE input[j].email

(* What the statement of j enters next; an update first locks its row,      *)
(* which is the row of its e-mail.                                          *)
Wanted(j) == IF pc[j] = "phone" THEN input[j].phone ELSE input[j].email

WaitsFor(j, q) == q # j /\ pc[j] \in Indexing /\ Wanted(j) \in claims[q]
Clear(j)       == \A q \in Job : ~WaitsFor(j, q)
WaitCircle(S)  == \A j \in S : \E q \in S : WaitsFor(j, q)

(* Defect: the telephone number has no unique constraint.                   *)
TakenEmail(j, x) == \E u \in users : u.id \notin Ids(written[j]) /\ x = u.email

Taken(j, x) == \E u \in users : u.id \notin Ids(written[j]) /\ x \in Identities(u)

(* What j sees: its own row in place of the committed one.                  *)
View(j) == {u \in users : u.id \notin Ids(written[j])} \cup written[j]

NewUser(j) ==
  [id |-> j, email |-> input[j].email, phone |-> input[j].phone,
   password |-> input[j].password, status |-> "ACTIVE",
   role |-> IF j \in Deploy THEN "ADMIN" ELSE "CUSTOMER"]

Goto(j, stage) == pc' = [pc EXCEPT ![j] = stage]

(* The end of a transaction; one that fails leaves nothing.                 *)
Leave(j) ==
  /\ claims'  = [claims EXCEPT ![j] = {}]
  /\ written' = [written EXCEPT ![j] = {}]
  /\ opened'  = [opened EXCEPT ![j] = NoWallet]

End(j, answer) ==
  /\ Goto(j, answer) /\ Leave(j)
  /\ input' = [input EXCEPT ![j] = NoInput]
  /\ off'   = [off EXCEPT ![j] = {}]
  /\ UNCHANGED <<tables, listed>>

--------------------------------------------------------------------------------
(* Screening.                                                               *)

Submit(r) ==
  /\ pc[r] = "idle"
  /\ \E f \in Form :
       /\ input' = [input EXCEPT ![r] = f]
       /\ off'   = [off EXCEPT ![r] = Identities(f) \ listed]
  /\ Goto(r, "screenEmail")
  /\ UNCHANGED <<tables, listed, private>>

Screened(r) == IF pc[r] = "screenEmail" THEN input[r].email ELSE input[r].phone

(* How the provider answers a question about x: with a match, or that it    *)
(* has none.                                                                *)
Answers(x) == (IF x \in listed THEN {"match"} ELSE {"missing"}) \cup Garbled

(* What check() makes of an answer: only a match counts against x.          *)
Blacklisted(answer) == answer = "match"

(* assertEligible(): the e-mail, then the telephone number, then the        *)
(* transaction begins.                                                      *)
Pass(r) ==
  /\ pc[r] \in Screening
  /\ \E answer \in Answers(Screened(r)) : ~Blacklisted(answer)
  /\ IF pc[r] = "screenEmail"
     THEN Goto(r, "screenPhone") /\ UNCHANGED written
     ELSE Goto(r, "email") /\ written' = [written EXCEPT ![r] = {NewUser(r)}]
  /\ UNCHANGED <<tables, listed, input, claims, opened, off>>

Hit(r) ==
  /\ pc[r] \in Screening
  /\ \E answer \in Answers(Screened(r)) : Blacklisted(answer)
  /\ End(r, "forbidden")

(* Defect: a provider that fails is taken to have no objection.             *)
FailOpen(r) ==
  /\ pc[r] \in Screening
  /\ Goto(r, "email") /\ written' = [written EXCEPT ![r] = {NewUser(r)}]
  /\ UNCHANGED <<tables, listed, input, claims, opened, off>>

(* Defect: fetch() without a time limit, and a provider that never answers. *)
NeverTimeOut(r) == FALSE

(* No answer in time, a status that is neither 2xx nor 404, a body that is  *)
(* not JSON.                                                                *)
ScreeningFails(r) == pc[r] \in Screening /\ End(r, "unavailable")

List(x) ==
  /\ listed' = IF x \in listed THEN listed \ {x} ELSE listed \cup {x}
  /\ off' = [r \in Job |->
       IF pc[r] \in Running /\ x \in listed
       THEN off[r] \cup (Identities(input[r]) \cap {x}) ELSE off[r]]
  /\ UNCHANGED <<tables, pc, input, private>>

--------------------------------------------------------------------------------
(* The seed: find the administrator, then insert or update.                 *)

Launch(d) ==
  /\ pc[d] = "idle"
  /\ \E e \in Environment : input' = [input EXCEPT ![d] = e]
  /\ Goto(d, "find")
  /\ UNCHANGED <<tables, listed, private, off>>

FindNobody(d) ==
  /\ pc[d] = "find" /\ \A u \in users : u.email # input[d].email
  /\ written' = [written EXCEPT ![d] = {NewUser(d)}]
  /\ Goto(d, "email")
  /\ UNCHANGED <<tables, listed, input, claims, opened, off>>

FindAdmin(d) ==
  /\ pc[d] = "find" /\ \E u \in users : u.email = input[d].email
  /\ Goto(d, "row")
  /\ UNCHANGED <<tables, listed, input, private, off>>

(* Defect: an administrator who is blocked stays so.                        *)
SyncedButStatus(d, u) ==
  [u EXCEPT !.phone = input[d].phone, !.password = input[d].password, !.role = "ADMIN"]

Synced(d, u) ==
  [u EXCEPT !.phone = input[d].phone, !.password = input[d].password,
            !.role = "ADMIN", !.status = "ACTIVE"]

(* The update waits for the row and writes the version it then finds.       *)
LockAdmin(d) ==
  /\ pc[d] = "row" /\ Clear(d)
  /\ \E u \in users :
       /\ u.email = input[d].email
       /\ written' = [written EXCEPT ![d] = {Synced(d, u)}]
       /\ claims'  = [claims EXCEPT ![d] = Identities(u)]
  /\ Goto(d, "phone")
  /\ UNCHANGED <<tables, listed, input, opened, off>>

(* Reading the row back: the transaction sees what it wrote itself.         *)
Verify(d) ==
  /\ pc[d] = "verify"
  /\ IF \E u \in View(d) : u.email = input[d].email /\ u.password = input[d].password
     THEN Goto(d, "wallet") /\ UNCHANGED <<tables, listed, input, private, off>>
     ELSE End(d, "failed")

HasWallet(j) == \E u \in written[j] : balance[u.id] # NoWallet

KeepWallet(d) ==
  /\ pc[d] = "wallet" /\ d \in Deploy /\ HasWallet(d)
  /\ Goto(d, "commit")
  /\ UNCHANGED <<tables, listed, input, private, off>>

--------------------------------------------------------------------------------
(* Writing, for registrations and seeds.                                    *)

Claim(j) ==
  /\ pc[j] \in {"email", "phone"} /\ Clear(j) /\ ~Taken(j, Wanted(j))
  /\ claims' = [claims EXCEPT ![j] = @ \cup {Wanted(j)}]
  /\ Goto(j, CASE pc[j] = "email"                   -> "phone"
                [] pc[j] = "phone" /\ j \in Deploy -> "verify"
                [] OTHER                            -> "wallet")
  /\ UNCHANGED <<tables, listed, input, written, opened, off>>

(* SQLSTATE 23505: register() answers 409, the seed exits with an error.    *)
Conflict(j) ==
  /\ pc[j] \in {"email", "phone"} /\ Clear(j) /\ Taken(j, Wanted(j))
  /\ End(j, IF j \in Deploy THEN "failed" ELSE "conflict")

OpenWallet(j) ==
  /\ pc[j] = "wallet" /\ ~HasWallet(j)
  /\ opened' = [opened EXCEPT ![j] = IF j \in Deploy THEN input[j].opening ELSE 0]
  /\ Goto(j, "commit")
  /\ UNCHANGED <<tables, listed, input, claims, written, off>>

Commit(j) ==
  /\ pc[j] = "commit"
  /\ users'   = View(j)
  /\ balance' = [i \in Job |->
       IF opened[j] # NoWallet /\ i \in Ids(written[j]) THEN opened[j] ELSE balance[i]]
  /\ Leave(j) /\ Goto(j, "reply")
  /\ UNCHANGED <<listed, input, off>>

Answer(j) ==
  /\ pc[j] = "reply"
  /\ End(j, IF j \in Deploy THEN "seeded" ELSE "created")

--------------------------------------------------------------------------------
(* Failures, and the rest of the service.                                   *)

ConnectionLost(j) == pc[j] \in Running /\ End(j, "lost")

DeadlockAbort(j) ==
  /\ \E S \in SUBSET Job : j \in S /\ WaitCircle(S)
  /\ End(j, "failed")

(* updateStatus() locks the row of the user, as the update of a seed does.  *)
SetStatus(u) ==
  /\ \A j \in Job : u.id \notin Ids(written[j])
  /\ \E s \in {"ACTIVE", "BLOCKED"} \ {u.status} :
       users' = (users \ {u}) \cup {[u EXCEPT !.status = s]}
  /\ UNCHANGED <<balance, listed, pc, input, private, off>>

(* Defect: nothing keeps a balance from falling below zero.                 *)
MoveAnyMoney(u) ==
  /\ balance' = [balance EXCEPT ![u.id] = @ - 2]
  /\ UNCHANGED <<users, listed, pc, input, private, off>>

MoveMoney(u) ==
  /\ u.status = "ACTIVE"
  /\ \E b \in Balance \ {balance[u.id]} : balance' = [balance EXCEPT ![u.id] = b]
  /\ UNCHANGED <<users, listed, pc, input, private, off>>

Init ==
  /\ users = {} /\ balance = [j \in Job |-> NoWallet] /\ listed \in SUBSET Listable
  /\ pc = [j \in Job |-> "idle"] /\ input = [j \in Job |-> NoInput]
  /\ claims = [j \in Job |-> {}] /\ written = [j \in Job |-> {}]
  /\ opened = [j \in Job |-> NoWallet] /\ off = [j \in Job |-> {}]

(* What the server does for a job without waiting for the provider.         *)
Serve(j) ==
  \/ j \in Registration /\ ScreeningFails(j)
  \/ j \in Deploy /\ (FindNobody(j) \/ FindAdmin(j) \/ LockAdmin(j) \/ Verify(j) \/ KeepWallet(j))
  \/ Claim(j) \/ Conflict(j) \/ OpenWallet(j) \/ Commit(j) \/ Answer(j)
  \/ DeadlockAbort(j)

Finished == \A j \in Job : pc[j] \in Ended

Next ==
  \/ \E r \in Registration : Submit(r) \/ Pass(r) \/ Hit(r)
  \/ \E d \in Deploy : Launch(d)
  \/ \E j \in Job : Serve(j) \/ ConnectionLost(j)
  \/ \E x \in Listable : List(x)
  \/ \E u \in users : u.email \in Busy /\ (SetStatus(u) \/ MoveMoney(u))
  \/ Finished /\ UNCHANGED vars

Spec == Init /\ [][Next]_vars

(* The server runs every continuation that is ready and the provider is     *)
(* given a time limit; nothing is assumed of clients or of the provider.    *)
FairSpec == Spec /\ \A j \in Job : WF_vars(Serve(j))

--------------------------------------------------------------------------------
(* Properties.                                                              *)

TypeOK ==
  /\ users \subseteq User
  /\ balance \in [Job -> Balance \cup {NoWallet}]
  /\ listed \subseteq Listable
  /\ pc \in [Job -> {"idle"} \cup Running \cup Ended]
  /\ input \in [Job -> Form \cup Environment \cup {NoInput}]
  /\ \A j \in Job : pc[j] \in Running =>
       input[j] \in IF j \in Deploy THEN Environment ELSE Form
  /\ claims \in [Job -> SUBSET Identity]
  /\ written \in [Job -> SUBSET User]
  /\ opened \in [Job -> Balance \cup {NoWallet}]
  /\ off \in [Job -> SUBSET Identity]

(* An e-mail or telephone number has at most one user, and exactly the      *)
(* users have a wallet, whatever registrations and seeds run at once and    *)
(* wherever they fail.                                                      *)
OneAccountPerIdentity ==
  /\ \A u, v \in users : u # v => u.id # v.id /\ Identities(u) \cap Identities(v) = {}
  /\ \A j \in Job : j \in Ids(users) <=> balance[j] # NoWallet

(* A registration that is committed had each of its identities off the      *)
(* provider's list at some moment since it was submitted: the window of a   *)
(* stale answer is the request itself, and no failure of the provider lets  *)
(* anybody in.                                                              *)
ScreenedOnly ==
  [][\A u \in users' \ users :
       u.id \in Registration \ Ids(users) => Identities(u) \subseteq off[u.id]]_vars

(* Jobs deadlock only when two seeds that update different administrators   *)
(* are among them: registrations never deadlock with each other or with the *)
(* seeds of one administrator.                                              *)
NoClientDeadlock ==
  \A S \in (SUBSET Job) \ {{}} : WaitCircle(S) =>
     \E d, e \in S \cap Deploy : input[d].email # input[e].email

(* Onboarding is atomic, and answers agree with the accounts there are.     *)
Accounts ==
  {[id |-> u.id, email |-> u.email, phone |-> u.phone, password |-> u.password,
    role |-> u.role, status |-> u.status, balance |-> balance[u.id]] : u \in users}
Told == [j \in Job |-> IF pc[j] \in Ended THEN pc[j] ELSE "waiting"]

Promise == INSTANCE Registry WITH accounts <- Accounts, told <- Told

KeepsPromise == Promise!Spec

(* Whoever has submitted a registration or launched a seed learns its end,  *)
(* even if the provider never answers and others hold the same identities.  *)
EveryJobEnds == \A j \in Job : pc[j] \in Running ~> pc[j] \in Ended
================================================================================
