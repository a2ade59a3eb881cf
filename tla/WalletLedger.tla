------------------------------ MODULE WalletLedger ------------------------------
(****************************************************************************)
(* The concurrent core of the wallet service: POST /transfers,              *)
(* POST /wallets/fund and PATCH /admin/users/:id/status, each a request     *)
(* that passes the guards and then runs one database transaction made of    *)
(* row locks, statements and a commit.  Requests interleave between any two *)
(* statements; a connection may be lost at any of them, before or after the *)
(* commit; a client may send a request again, while the first one runs or   *)
(* after it.                                                                *)
(*                                                                          *)
(* PostgreSQL is modelled as READ COMMITTED uses it here: SELECT ... FOR    *)
(* UPDATE waits for the row and returns its committed version, writes of a  *)
(* transaction are seen by others at its commit, and its locks last until   *)
(* its end.                                                                 *)
(****************************************************************************)
EXTENDS LedgerTypes

CONSTANTS
  Request,       \* client requests, each resent after its answer or its loss
  MaxAttempts,   \* how often a client sends a request (bound)
  PoolSize,      \* connections of the pool
  AdvisoryHash,  \* hashtextextended of `wallet:key`: collisions are allowed
  Rank           \* the order in which locks are taken: users by id, wallets by id

VARIABLES balance, status, blockedBy, records, replies

VARIABLES
  pc,       \* where the handler of a request is
  req,      \* what it asks for
  attempt,  \* how often it was sent
  held,     \* the rows and advisory locks its transaction has FOR UPDATE
  shared,   \* the rows it has FOR KEY SHARE
  wallets,  \* the balances its entities hold, once the rows are locked
  users,    \* the statuses its entities hold, once the rows are locked
  dirty,    \* the wallets it has saved
  current   \* the transfer or funding it works on: none or one row

ledger   == <<balance, status, blockedBy, records, replies>>
copies   == <<wallets, users>>
vars     == <<ledger, pc, req, attempt, held, shared, copies, dirty, current>>

AdvisoryLock(a, k) == <<"advisory", AdvisoryHash[<<a, k>>]>>
UserRow(a)         == <<"user", a>>
WalletRow(a)       == <<"wallet", a>>

Resource == {AdvisoryLock(a, k) : a \in Account, k \in Key}
              \cup {UserRow(a) : a \in Account} \cup {WalletRow(a) : a \in Account}

Attempt == 1..MaxAttempts

ASSUME ConcurrencyAssumption ==
  /\ PoolSize \in Nat \ {0} /\ MaxAttempts \in Nat \ {0}
  /\ AdvisoryHash \in [Account \X Key -> Nat]
  /\ Request \X Attempt \subseteq Reference
ASSUME RankAssumption ==
  /\ Rank \in [Resource -> Nat]
  /\ \E last \in Resource : \A x \in Resource : Rank[x] <= Rank[last]
  /\ \A a, b \in Account :
       /\ a # b => /\ Rank[UserRow(a)] # Rank[UserRow(b)]
                   /\ Rank[WalletRow(a)] # Rank[WalletRow(b)]
       /\ Rank[UserRow(a)] < Rank[WalletRow(b)]
       /\ \A k \in Key : Rank[AdvisoryLock(b, k)] < Rank[UserRow(a)]

--------------------------------------------------------------------------------
(* Who waits for whom.                                                      *)

InTransaction == {"locking", "decide", "complete", "save", "credit", "commit"}
Stage         == {"idle", "guard", "handler", "reply", "done"} \cup InTransaction

PoolIsFree == Cardinality({r \in Request : pc[r] \in InTransaction}) < PoolSize

(* What a transaction locks FOR UPDATE, in the order of Rank.               *)
LockPlan(i) ==
  IF i.op \in StatusOp THEN {UserRow(i.peer)}
  ELSE {UserRow(a) : a \in Parties(i)} \cup {WalletRow(a) : a \in Parties(i)}
         \cup (IF i.op = "fund" THEN {AdvisoryLock(i.user, i.key)} ELSE {})

(* Defect: a query of the transaction asks the pool for a second connection. *)
AllLockedOutside(r) ==
  pc[r] = "locking" /\ LockPlan(req[r]) \subseteq held[r] /\ PoolIsFree

AllLocked(r) == pc[r] = "locking" /\ LockPlan(req[r]) \subseteq held[r]

(* fund() reads the status once it has the user's row, before the wallet's. *)
FundingForbidden(r) ==
  /\ pc[r] = "locking" /\ req[r].op = "fund"
  /\ UserRow(req[r].user) \in held[r]
  /\ users[r][req[r].user] # "ACTIVE"

(* Defect: rows are locked in whatever order they come.                     *)
WantsAnyOrder(r, x) ==
  pc[r] = "locking" /\ x \in LockPlan(req[r]) \ held[r] /\ ~FundingForbidden(r)

Wants(r, x) ==
  LET rest == LockPlan(req[r]) \ held[r]
  IN  /\ pc[r] = "locking" /\ x \in rest
      /\ \A y \in rest : Rank[x] <= Rank[y]
      /\ ~FundingForbidden(r)

(* Writing a new blocked_by_id makes PostgreSQL check the foreign key: it   *)
(* takes the row of the administrator FOR KEY SHARE.                        *)
ChecksActor(r) == req[r].op = "block" /\ blockedBy[req[r].peer] # req[r].user

(* Defect: a failed transfer does not use up its key.                       *)
MatchesSucceeded(r) ==
  {t \in records : SameKey(t.input, req[r]) /\ t.status = "SUCCEEDED"}

Matches(r) == {t \in records : SameKey(t.input, req[r])}

(* A unique index makes an insert wait for an uncommitted row of its key.   *)
Inserting(r) ==
  \/ AllLocked(r) /\ req[r].op = "transfer" /\ Matches(r) = {}
  \/ pc[r] = "save"
HasInserted(q, i) == \E t \in current[q] \ records : SameKey(t.input, i)

WaitsFor(r, q) ==
  /\ q # r
  /\ \/ \E x \in held[q] \cup shared[q] : Wants(r, x)
     \/ AllLocked(r) /\ ChecksActor(r) /\ UserRow(req[r].user) \in held[q]
     \/ Inserting(r) /\ HasInserted(q, req[r])

Waits(r) == \E q \in Request : WaitsFor(r, q)

(* The requests of S wait for each other in one or several circles.         *)
WaitCycle(S) ==
  \E next \in [S -> S] : /\ \A r \in S : WaitsFor(r, next[r])
                         /\ \A q \in S : \E r \in S : next[r] = q

--------------------------------------------------------------------------------
(* The end of a transaction.                                                *)

NoBalances == [a \in Account |-> 0]
NoStatuses == [a \in Account |-> "ACTIVE"]

(* The transaction of r ends: its locks go, and so do its entities.         *)
Leave(r, stage) ==
  /\ pc'      = [pc EXCEPT ![r] = stage]
  /\ held'    = [held EXCEPT ![r] = {}]
  /\ shared'  = [shared EXCEPT ![r] = {}]
  /\ wallets' = [wallets EXCEPT ![r] = NoBalances]
  /\ users'   = [users EXCEPT ![r] = NoStatuses]
  /\ dirty'   = [dirty EXCEPT ![r] = {}]
  /\ UNCHANGED <<req, attempt>>

Rollback(r) ==
  /\ Leave(r, "done")
  /\ current' = [current EXCEPT ![r] = {}]
  /\ UNCHANGED <<balance, status, blockedBy, records>>

(* The handler throws: nothing it wrote is kept.                            *)
Refuse(r) == Rollback(r) /\ UNCHANGED replies

--------------------------------------------------------------------------------
(* Before the transaction.                                                  *)

GoTo(r, stage) ==
  /\ pc' = [pc EXCEPT ![r] = stage]
  /\ UNCHANGED <<req, attempt>>

Send(r) ==
  /\ pc[r] = "idle"
  /\ \E i \in Workload : req' = [req EXCEPT ![r] = i]
  /\ attempt' = [attempt EXCEPT ![r] = 1]
  /\ pc' = [pc EXCEPT ![r] = "guard"]
  /\ UNCHANGED <<ledger, held, shared, copies, dirty, current>>

(* A client that got an error, or no answer at all, sends the request again. *)
Resend(r) ==
  /\ pc[r] = "done" /\ attempt[r] < MaxAttempts
  /\ attempt' = [attempt EXCEPT ![r] = @ + 1]
  /\ pc' = [pc EXCEPT ![r] = "guard"]
  /\ UNCHANGED <<ledger, req, held, shared, copies, dirty, current>>

(* Defect: a route without its @Roles decorator.                            *)
PermittedAnyRole(i) == status[i.user] = "ACTIVE"

(* JwtAuthGuard reads the caller's row, RolesGuard its role.                *)
Permitted(i) == status[i.user] = "ACTIVE" /\ (i.op \in StatusOp => i.user \in Admin)

Admit(r) ==
  /\ pc[r] = "guard" /\ PoolIsFree /\ Permitted(req[r])
  /\ GoTo(r, "handler")
  /\ UNCHANGED <<ledger, held, shared, copies, dirty, current>>

Forbid(r) ==
  /\ pc[r] = "guard" /\ PoolIsFree /\ ~Permitted(req[r])
  /\ Refuse(r)

(* 400 without a query.                                                     *)
Malformed(i) == ~i.valid \/ (i.op = "block" /\ i.peer = i.user)

(* 404 and 422 on what wallets and users exist, which never changes: it     *)
(* does not matter whether a transaction had begun that finds nothing.      *)
WrongParties(i) ==
  \/ i.op # "fund" /\ i.peer \notin Account
  \/ i.op = "transfer" /\ i.peer = i.user

RejectInput(r) ==
  /\ pc[r] = "handler"
  /\ Malformed(req[r]) \/ (WrongParties(req[r]) /\ PoolIsFree)
  /\ Refuse(r)

BeginTransaction(r) ==
  /\ pc[r] = "handler" /\ PoolIsFree
  /\ ~Malformed(req[r]) /\ ~WrongParties(req[r])
  /\ GoTo(r, "locking")
  /\ UNCHANGED <<ledger, held, shared, copies, dirty, current>>

--------------------------------------------------------------------------------
(* Locking and the idempotency key.                                         *)

(* Defect: the rows are read without FOR UPDATE.                            *)
FreeAlways(r, x) == TRUE

Free(r, x) == \A q \in Request \ {r} : x \notin held[q] \cup shared[q]

(* A row is locked as soon as nobody else has it, and read as committed.    *)
LockRow(r, x) ==
  /\ Wants(r, x) /\ Free(r, x)
  /\ held'    = [held EXCEPT ![r] = @ \cup {x}]
  /\ users'   = [users EXCEPT ![r] =
                   [a \in Account |-> IF x = UserRow(a) THEN status[a] ELSE users[r][a]]]
  /\ wallets' = [wallets EXCEPT ![r] =
                   [a \in Account |-> IF x = WalletRow(a) THEN balance[a] ELSE wallets[r][a]]]
  /\ UNCHANGED <<ledger, pc, req, attempt, shared, dirty, current>>

ForbidFunding(r) == FundingForbidden(r) /\ Refuse(r)

(* A committed row of the key: the same request gets it back ...            *)
Replay(r) ==
  /\ AllLocked(r) /\ req[r].op \in MoneyOp /\ ~FundingForbidden(r)
  /\ \E t \in Matches(r) : /\ Fingerprint(t.input) = Fingerprint(req[r])
                           /\ current' = [current EXCEPT ![r] = {t}]
  /\ GoTo(r, "commit")
  /\ UNCHANGED <<ledger, held, shared, copies, dirty>>

(* ... and another request 409.                                             *)
RefuseReuse(r) ==
  /\ AllLocked(r) /\ req[r].op \in MoneyOp /\ ~FundingForbidden(r)
  /\ \E t \in Matches(r) : Fingerprint(t.input) # Fingerprint(req[r])
  /\ replies' = replies \cup {KeyReused(req[r])}
  /\ Rollback(r)

NewRow(r, s) == [ref |-> <<r, attempt[r]>>, input |-> req[r], status |-> s]

(* INSERT ... ON CONFLICT DO NOTHING that meets no conflict.                *)
InsertTransfer(r) ==
  /\ AllLocked(r) /\ req[r].op = "transfer" /\ Matches(r) = {} /\ ~Waits(r)
  /\ current' = [current EXCEPT ![r] = {NewRow(r, "PENDING")}]
  /\ GoTo(r, "decide")
  /\ UNCHANGED <<ledger, held, shared, copies, dirty>>

FindNoFunding(r) ==
  /\ AllLocked(r) /\ req[r].op = "fund" /\ ~FundingForbidden(r) /\ Matches(r) = {}
  /\ GoTo(r, "save")
  /\ UNCHANGED <<ledger, held, shared, copies, dirty, current>>

(* The unique index refuses a second row of the key.                        *)
SaveFunding(r) ==
  /\ pc[r] = "save" /\ ~Waits(r)
  /\ IF Matches(r) = {}
     THEN /\ current' = [current EXCEPT ![r] = {NewRow(r, "SUCCEEDED")}]
          /\ GoTo(r, "credit")
          /\ UNCHANGED <<ledger, held, shared, copies, dirty>>
     ELSE Refuse(r)

--------------------------------------------------------------------------------
(* Money.                                                                   *)

(* Defect: only the sender's status is checked.                             *)
SenderActive(r) == users[r][req[r].user] = "ACTIVE"

BothActive(r) == \A a \in Parties(req[r]) : users[r][a] = "ACTIVE"

(* Defect: the whole balance cannot be sent.                                *)
CoveredStrictly(r) == wallets[r][req[r].user] > req[r].amount

Covered(r) == wallets[r][req[r].user] >= req[r].amount

(* Defect: the outcome is not saved.                                        *)
SaveNothing(r, s) ==
  GoTo(r, "commit") /\ UNCHANGED <<ledger, held, shared, copies, dirty, current>>

(* The transfer has its outcome: the row is saved with it.                  *)
SaveOutcome(r, s) ==
  /\ current' = [current EXCEPT ![r] = {[t EXCEPT !.status = s] : t \in current[r]}]
  /\ GoTo(r, "commit")
  /\ UNCHANGED <<ledger, held, shared, copies, dirty>>

FailBlocked(r) ==
  pc[r] = "decide" /\ ~BothActive(r) /\ SaveOutcome(r, "ACCOUNT_BLOCKED")

FailInsufficient(r) ==
  pc[r] = "decide" /\ BothActive(r) /\ ~Covered(r) /\ SaveOutcome(r, "INSUFFICIENT_FUNDS")

Movable(r) == pc[r] = "credit" \/ (pc[r] = "decide" /\ BothActive(r) /\ Covered(r))

(* Defect: a column without a width.                                        *)
FitsAlways(r) == TRUE

(* The bigint column takes the balance of the wallet that receives.         *)
Fits(r) ==
  \A a \in Parties(req[r]) : wallets[r][a] + Moves(req[r], a) <= MaxBalance

(* Balances are computed from the entities and written as they are.         *)
MoveFunds(r) ==
  /\ Movable(r) /\ Fits(r)
  /\ wallets' = [wallets EXCEPT ![r] =
                   [a \in Account |-> wallets[r][a] + Moves(req[r], a)]]
  /\ dirty'   = [dirty EXCEPT ![r] = Parties(req[r])]
  /\ GoTo(r, IF pc[r] = "credit" THEN "commit" ELSE "complete")
  /\ UNCHANGED <<ledger, held, shared, users, current>>

Overflow(r) == Movable(r) /\ ~Fits(r) /\ Refuse(r)

Complete(r) == pc[r] = "complete" /\ SaveOutcome(r, "SUCCEEDED")

--------------------------------------------------------------------------------
(* Status changes, commit and answer.                                       *)

SaveStatus(r) ==
  /\ AllLocked(r) /\ req[r].op \in StatusOp /\ ~Waits(r)
  /\ shared' = [shared EXCEPT ![r] =
                  IF ChecksActor(r) THEN {UserRow(req[r].user)} ELSE {}]
  /\ GoTo(r, "commit")
  /\ UNCHANGED <<ledger, held, copies, dirty, current>>

Commit(r) ==
  LET i == req[r]
  IN  /\ pc[r] = "commit"
      /\ balance'   = [a \in Account |-> IF a \in dirty[r] THEN wallets[r][a] ELSE balance[a]]
      /\ records'   = records \cup current[r]
      /\ status'    = IF i.op = "block" THEN [status EXCEPT ![i.peer] = "BLOCKED"]
                      ELSE IF i.op = "unblock" THEN [status EXCEPT ![i.peer] = "ACTIVE"]
                      ELSE status
      /\ blockedBy' = IF i.op = "block" THEN [blockedBy EXCEPT ![i.peer] = i.user]
                      ELSE IF i.op = "unblock" THEN [blockedBy EXCEPT ![i.peer] = NoAccount]
                      ELSE blockedBy
      /\ Leave(r, "reply")
      /\ UNCHANGED <<current, replies>>

Answer(r) ==
  /\ pc[r] = "reply"
  /\ replies' = replies \cup {Presented(t, req[r]) : t \in current[r]}
  /\ current' = [current EXCEPT ![r] = {}]
  /\ GoTo(r, "done")
  /\ UNCHANGED <<balance, status, blockedBy, records, held, shared, copies, dirty>>

--------------------------------------------------------------------------------
(* Failures and the specification.                                          *)

(* The process dies, or its connection does: PostgreSQL rolls back what is  *)
(* not committed, and the client never learns what is.                      *)
ConnectionLost(r) == pc[r] \notin {"idle", "done"} /\ Refuse(r)

(* PostgreSQL breaks a circle of waiting transactions by failing one.       *)
DeadlockAbort(r) ==
  /\ \E S \in SUBSET Request : r \in S /\ WaitCycle(S)
  /\ Refuse(r)

Init ==
  /\ balance   = OpeningBalance
  /\ status    = [a \in Account |-> "ACTIVE"]
  /\ blockedBy = [a \in Account |-> NoAccount]
  /\ records   = {} /\ replies = {}
  /\ pc        = [r \in Request |-> "idle"]
  /\ req       = [r \in Request |-> CHOOSE i \in Workload : TRUE]
  /\ attempt   = [r \in Request |-> 0]
  /\ held      = [r \in Request |-> {}]
  /\ shared    = [r \in Request |-> {}]
  /\ wallets   = [r \in Request |-> NoBalances]
  /\ users     = [r \in Request |-> NoStatuses]
  /\ dirty     = [r \in Request |-> {}]
  /\ current   = [r \in Request |-> {}]

(* What the server does for r, and does in the end if it can.               *)
Serve(r) ==
  \/ Admit(r) \/ Forbid(r) \/ RejectInput(r) \/ BeginTransaction(r)
  \/ \E x \in LockPlan(req[r]) : LockRow(r, x)
  \/ ForbidFunding(r) \/ Replay(r) \/ RefuseReuse(r)
  \/ InsertTransfer(r) \/ FindNoFunding(r) \/ SaveFunding(r)
  \/ FailBlocked(r) \/ FailInsufficient(r)
  \/ MoveFunds(r) \/ Overflow(r) \/ Complete(r)
  \/ SaveStatus(r) \/ Commit(r) \/ Answer(r)
  \/ DeadlockAbort(r)

(* Everything was sent as often as the bound allows, and answered.          *)
Finished ==
  /\ \A r \in Request : pc[r] = "done" /\ attempt[r] = MaxAttempts
  /\ UNCHANGED vars

Next ==
  \/ \E r \in Request : Send(r) \/ Resend(r) \/ Serve(r) \/ ConnectionLost(r)
  \/ Finished

Spec     == Init /\ [][Next]_vars
FairSpec == Spec /\ \A r \in Request : WF_vars(Serve(r))

--------------------------------------------------------------------------------
(* Properties.                                                              *)

TypeOK ==
  /\ balance \in [Account -> Amount] /\ status \in [Account -> Status]
  /\ blockedBy \in [Account -> Account \cup {NoAccount}]
  /\ records \subseteq Row /\ replies \subseteq Reply
  /\ pc \in [Request -> Stage] /\ req \in [Request -> Workload]
  /\ attempt \in [Request -> 0..MaxAttempts]
  /\ held \in [Request -> SUBSET Resource] /\ shared \in [Request -> SUBSET Resource]
  /\ wallets \in [Request -> [Account -> Amount]]
  /\ users \in [Request -> [Account -> Status]]
  /\ dirty \in [Request -> SUBSET Account] /\ current \in [Request -> SUBSET Row]

(* No lost update: what a transaction read of the rows it has locked is     *)
(* still what is committed, give or take the change it is about to commit.  *)
(* create() and fund() compute balances from these entities and write them  *)
(* back as absolute values.                                                 *)
EntitiesCurrent ==
  \A r \in Request, a \in Account :
    /\ WalletRow(a) \in held[r] =>
         wallets[r][a] = balance[a] + (IF a \in dirty[r] THEN Moves(req[r], a) ELSE 0)
    /\ UserRow(a) \in held[r] => users[r][a] = status[a]

(* Money never comes or goes without a record: a balance is what it was at  *)
(* first, plus and minus the amounts of the rows that say SUCCEEDED.        *)
LedgerReconciles ==
  \A a \in Account :
    balance[a] = OpeningBalance[a] + SumFunction([t \in records |-> Delta(t, a)])

(* What was funded, in all.                                                 *)
Funded(t) == IF t.input.op = "fund" /\ t.status = "SUCCEEDED" THEN t.input.amount ELSE 0

(* Transfers neither make nor destroy money: all wallets together hold what *)
(* they held at first and what was funded since.                            *)
MoneyConserved ==
  SumFunction(balance) =
    SumFunction(OpeningBalance) + SumFunction([t \in records |-> Funded(t)])

(* Two requests of one key never both take effect, whether they run at the  *)
(* same time, after a crash, or after an answer was lost (README, replay    *)
(* protection; the unique indexes of both tables).                          *)
OnePerKey == \A t, u \in records : SameKey(t.input, u.input) => t = u

(* Whatever outcome a client was told of a request, every retry that is     *)
(* told an outcome is told the same one, with the same reference.  (403 on  *)
(* a blocked account, and errors of the server, tell no outcome.)           *)
RetriesAgree ==
  \A p, q \in replies : Retries(p.input, q.input) => p.ref = q.ref /\ p.status = q.status

(* A transfer is never seen unfinished: "Transfer is still being processed" *)
(* in presentOutcome() is unreachable, and no crash leaves a PENDING row.   *)
NothingPending == \A t \in records \cup replies : t.status # "PENDING"

(* Locks taken in the order of Rank keep transfers and fundings from        *)
(* waiting for each other: every deadlock has an administrator's block in   *)
(* it, whose foreign key takes a second user row out of order.              *)
NoMoneyDeadlock ==
  \A S \in SUBSET Request :
    S # {} /\ (\A r \in S : \E q \in S : WaitsFor(r, q)) => \E r \in S : req[r].op = "block"

(* While an account is blocked nothing is sent from it, sent to it or       *)
(* funded into it, whatever was admitted before the block.                  *)
BlockedAccountsFrozen ==
  [][\A a \in Account : status[a] = "BLOCKED" => balance'[a] = balance[a]]_vars

(* A blocked administrator changes no status (README, account controls: a   *)
(* blocked user cannot use an existing token).  The code checks the         *)
(* administrator's status only in the guard.                                *)
BlockedActorPowerless ==
  [][\A r \in Request :
       Commit(r) /\ req[r].op \in StatusOp => status[req[r].user] = "ACTIVE"]_vars

(* A request that reaches the server is answered, or its connection lost:   *)
(* row locks, the pool and deadlocks hold none up for ever.                 *)
EveryRequestAnswered == \A r \in Request : pc[r] = "guard" ~> pc[r] = "done"

(* Transactions are serializable where it matters: the committed ledger     *)
(* moves as if every request ran alone.                                     *)
Atomic == INSTANCE AtomicLedger
ActsAtomically == Atomic!Spec
================================================================================
