--------------------------- MODULE WalletLedgerProofs ---------------------------
(****************************************************************************)
(* Theorems about WalletLedger, for every value of its constants.           *)
(*                                                                          *)
(* Every layer below is an invariant proved from the layers before it:      *)
(* types, then locks, then what each stage of a handler knows, then the     *)
(* entities against the committed rows, then keys and references.           *)
(****************************************************************************)
EXTENDS WalletLedger, TLAPS

--------------------------------------------------------------------------------
(* The steps, with all the ways a transaction is rolled back taken together. *)

(* A handler that throws, or whose transaction is failed or lost: only the  *)
(* misuse of a key tells the client something about the ledger.             *)
Abort(r) ==
  /\ pc[r] # "idle" /\ Rollback(r)
  /\ UNCHANGED replies \/ RefuseReuse(r)

Saved(r) == pc[r] = "save" /\ Matches(r) = {}

InsertFunding(r) ==
  /\ Saved(r)
  /\ current' = [current EXCEPT ![r] = {NewRow(r, "SUCCEEDED")}]
  /\ GoTo(r, "credit")
  /\ UNCHANGED <<ledger, held, shared, copies, dirty>>

Step(r) ==
  \/ Send(r) \/ Resend(r) \/ Admit(r) \/ BeginTransaction(r)
  \/ \E x \in LockPlan(req[r]) : LockRow(r, x)
  \/ Replay(r) \/ InsertTransfer(r) \/ FindNoFunding(r) \/ InsertFunding(r)
  \/ FailBlocked(r) \/ FailInsufficient(r) \/ MoveFunds(r) \/ Complete(r)
  \/ SaveStatus(r) \/ Commit(r) \/ Answer(r) \/ Abort(r)

(* Every step of the system is a step of one request, or changes nothing.   *)
LEMMA StepCases == [Next]_vars => (\E r \in Request : Step(r)) \/ UNCHANGED vars
<1> SUFFICES ASSUME Next PROVE (\E r \in Request : Step(r)) \/ UNCHANGED vars
  OBVIOUS
<1>1. CASE Finished
  BY <1>1 DEF Finished
<1>2. ASSUME NEW r \in Request, Send(r) \/ Resend(r) \/ Serve(r) \/ ConnectionLost(r)
      PROVE  Step(r)
  <2>1. CASE Send(r) \/ Resend(r)
    BY <2>1 DEF Step
  <2>2. CASE ConnectionLost(r)
    BY <2>2 DEF Step, Abort, ConnectionLost, Refuse
  <2>3. CASE Serve(r)
    <3>1. CASE Forbid(r)
      BY <3>1 DEF Step, Abort, Forbid, Refuse
    <3>2. CASE RejectInput(r)
      BY <3>2 DEF Step, Abort, RejectInput, Refuse
    <3>3. CASE ForbidFunding(r)
      BY <3>3 DEF Step, Abort, ForbidFunding, FundingForbidden, Refuse
    <3>4. CASE RefuseReuse(r)
      BY <3>4 DEF Step, Abort, RefuseReuse, AllLocked
    <3>5. CASE SaveFunding(r)
      BY <3>5 DEF Step, Abort, SaveFunding, Refuse, InsertFunding, Saved
    <3>6. CASE Overflow(r)
      BY <3>6 DEF Step, Abort, Overflow, Movable, Refuse
    <3>7. CASE DeadlockAbort(r)
      <4>1. PICK S \in SUBSET Request : r \in S /\ WaitCycle(S)
        BY <3>7 DEF DeadlockAbort
      <4>2. PICK q \in Request : WaitsFor(r, q)
        BY <4>1 DEF WaitCycle
      <4>3. pc[r] # "idle"
        BY <4>2 DEF WaitsFor, Wants, AllLocked, Inserting
      <4>. QED
        BY <3>7, <4>3 DEF Step, Abort, DeadlockAbort, Refuse
    <3>. QED
      BY <2>3, <3>1, <3>2, <3>3, <3>4, <3>5, <3>6, <3>7 DEF Serve, Step
  <2>. QED
    BY <1>2, <2>1, <2>2, <2>3
<1>. QED
  BY <1>1, <1>2 DEF Next

--------------------------------------------------------------------------------
(* Types.                                                                   *)

(* What a request has been through once it is past a stage: it was sent,    *)
(* its caller has the role it needs, and its input was accepted.            *)
Admitted(r) ==
  /\ pc[r] # "idle" => attempt[r] \in Attempt
  /\ pc[r] = "idle" => attempt[r] = 0
  /\ pc[r] \in {"handler"} \cup InTransaction /\ req[r].op \in StatusOp => req[r].user \in Admin
  /\ pc[r] \in InTransaction \cup {"reply"} => ~Malformed(req[r]) /\ ~WrongParties(req[r])
  /\ pc[r] \in {"decide", "complete"} => req[r].op = "transfer"
  /\ pc[r] \in {"save", "credit"} => req[r].op = "fund"

Types == TypeOK /\ \A r \in Request : Admitted(r)

(* A request that was sent can name the row it inserts.                     *)
LEMMA NewRowType ==
  ASSUME Types, NEW r \in Request, pc[r] # "idle", NEW s \in Outcome \cup {"PENDING"}
  PROVE  NewRow(r, s) \in Row
<1>1. attempt[r] \in Attempt /\ req[r] \in Input
  BY WorkloadAssumption DEF Types, Admitted, TypeOK
<1>2. <<r, attempt[r]>> \in Reference
  BY <1>1, ConcurrencyAssumption
<1>. QED
  BY <1>1, <1>2 DEF NewRow, Row

(* An accepted request locks nothing but rows of accounts and the advisory  *)
(* lock of a key.                                                           *)
LEMMA ResourceTypes ==
  ASSUME NEW i \in Workload, ~Malformed(i), ~WrongParties(i)
  PROVE  LockPlan(i) \subseteq Resource
<1>1. i \in Input /\ i.op \in MoneyOp \cup StatusOp /\ i.user \in Account
  BY WorkloadAssumption DEF Input
<1>2. i.op = "fund" => i.key \in Key
  BY WorkloadAssumption DEF Malformed, MoneyOp
<1>3. i.op # "fund" => i.peer \in Account
  BY DEF WrongParties
<1>4. i.op \in MoneyOp => Parties(i) \subseteq Account
  BY <1>1, <1>3 DEF Parties, MoneyOp
<1>. QED
  BY <1>1, <1>2, <1>3, <1>4 DEF LockPlan, Resource, MoneyOp, StatusOp

(* Balances change as MoveFunds allows: the sender has the amount and the   *)
(* receiver has room for it.                                                *)
LEMMA MovesType ==
  ASSUME Types, NEW r \in Request, Movable(r), Fits(r),
         NEW a \in Account
  PROVE  /\ wallets[r][a] + Moves(req[r], a) \in Amount
         /\ a \notin Parties(req[r]) => Moves(req[r], a) = 0
<1>1. /\ wallets[r] \in [Account -> Amount] /\ MaxBalance \in Nat
      /\ req[r].user \in Account /\ req[r].amount \in Amount
      /\ req[r].op = "transfer" \/ (req[r].op = "fund" /\ pc[r] = "credit")
  BY WorkloadAssumption, BalanceAssumption DEF Types, TypeOK, Input, Admitted, Movable
<1>2. req[r].op = "transfer" => wallets[r][req[r].user] >= req[r].amount
  BY DEF Types, Admitted, Movable, Covered
<1>3. a \notin Parties(req[r]) => Moves(req[r], a) = 0
  BY <1>1 DEF Parties, Moves, Amount
<1>4. ASSUME a \in Parties(req[r]) PROVE wallets[r][a] + Moves(req[r], a) \in Amount
  <2>1. wallets[r][a] + Moves(req[r], a) <= MaxBalance
    BY <1>4 DEF Fits
  <2>2. wallets[r][a] + Moves(req[r], a) \in Nat
    BY <1>1, <1>2, <1>4 DEF Parties, Moves, Amount
  <2>. QED
    BY <1>1, <2>1, <2>2 DEF Amount
<1>. QED
  BY <1>1, <1>3, <1>4 DEF Amount

(* The initial state is well typed.                                         *)
LEMMA TypesInit == Init => Types
<1> SUFFICES ASSUME Init PROVE Types
  OBVIOUS
<1>1. (CHOOSE i \in Workload : TRUE) \in Workload
  BY WorkloadAssumption
<1>2. MaxAttempts \in Nat /\ MaxBalance \in Nat /\ OpeningBalance \in [Account -> Amount]
  BY ConcurrencyAssumption, BalanceAssumption
<1>3. TypeOK
  BY <1>1, <1>2 DEF Init, TypeOK, NoBalances, NoStatuses, Amount, Status, Stage
<1>4. \A r \in Request : Admitted(r)
  BY DEF Init, Admitted, InTransaction
<1>. QED
  BY <1>3, <1>4 DEF Types

(* The end of a transaction leaves nothing ill-typed behind.                *)
LEMMA LeaveType ==
  ASSUME TypeOK, NEW r \in Request, NEW s \in Stage, Leave(r, s)
  PROVE  /\ pc' \in [Request -> Stage] /\ req' = req /\ attempt' = attempt
         /\ held' \in [Request -> SUBSET Resource] /\ shared' \in [Request -> SUBSET Resource]
         /\ wallets' \in [Request -> [Account -> Amount]]
         /\ users' \in [Request -> [Account -> Status]]
         /\ dirty' \in [Request -> SUBSET Account]
<1>1. NoBalances \in [Account -> Amount] /\ NoStatuses \in [Account -> Status]
  BY BalanceAssumption DEF NoBalances, NoStatuses, Amount, Status
<1>. QED
  BY <1>1 DEF TypeOK, Leave

(* One step per action: those that only move the request to another stage,  *)
(* those that write a copy, a row or a table.                               *)
LEMMA TypeStep ==
  ASSUME Types, NEW r \in Request, Step(r) PROVE TypeOK'
<1> USE DEF GoTo, ledger, copies
<1>0. TypeOK /\ Admitted(r) /\ req[r] \in Input /\ req[r].user \in Account
  BY WorkloadAssumption DEF Types, TypeOK, Input
<1>1. CASE Send(r)
  <2>1. 1 \in 0..MaxAttempts
    BY ConcurrencyAssumption
  <2>. QED
    BY <1>0, <1>1, <2>1 DEF Send, TypeOK, Stage
<1>12. CASE Resend(r)
  <2>1. attempt[r] + 1 \in 0..MaxAttempts
    BY <1>0, <1>12, ConcurrencyAssumption DEF Resend, TypeOK
  <2>. QED
    BY <1>0, <1>12, <2>1 DEF Resend, TypeOK, Stage
<1>2. CASE Admit(r) \/ BeginTransaction(r) \/ FindNoFunding(r)
  BY <1>0, <1>2 DEF Admit, BeginTransaction, FindNoFunding, TypeOK, Stage, InTransaction
<1>3. ASSUME NEW x \in LockPlan(req[r]), LockRow(r, x) PROVE TypeOK'
  <2>1. x \in Resource
    BY <1>0, <1>3, ResourceTypes DEF LockRow, Wants, Admitted, InTransaction, TypeOK
  <2>. QED
    BY <1>0, <1>3, <2>1 DEF LockRow, TypeOK
<1>4. CASE Replay(r)
  BY <1>0, <1>4 DEF Replay, Matches, TypeOK, Stage, InTransaction
<1>5. CASE InsertTransfer(r)
  <2>1. NewRow(r, "PENDING") \in Row
    BY <1>5, NewRowType DEF InsertTransfer, AllLocked
  <2>. QED
    BY <1>0, <1>5, <2>1 DEF InsertTransfer, TypeOK, Stage, InTransaction
<1>13. CASE InsertFunding(r)
  <2>1. NewRow(r, "SUCCEEDED") \in Row
    BY <1>13, NewRowType DEF InsertFunding, Saved, Outcome
  <2>. QED
    BY <1>0, <1>13, <2>1 DEF InsertFunding, TypeOK, Stage, InTransaction
<1>6. CASE FailBlocked(r) \/ FailInsufficient(r) \/ Complete(r)
  <2>1. PICK s \in Outcome : SaveOutcome(r, s)
    BY <1>6 DEF FailBlocked, FailInsufficient, Complete, Outcome, FailureCode
  <2>2. \A t \in current[r] : [t EXCEPT !.status = s] \in Row
    <3>1. ASSUME NEW t \in Row PROVE [t EXCEPT !.status = s] \in Row
      BY <3>1 DEF Row
    <3>. QED
      BY <1>0, <3>1 DEF TypeOK
  <2>. QED
    BY <1>0, <2>1, <2>2 DEF SaveOutcome, TypeOK, Stage, InTransaction
<1>7. CASE MoveFunds(r)
  <2>1. \A a \in Account : wallets[r][a] + Moves(req[r], a) \in Amount
    BY <1>7, MovesType DEF MoveFunds
  <2>2. Parties(req[r]) \subseteq Account
    BY <1>0, <1>7 DEF Parties, MoveFunds, Movable, Admitted, WrongParties, InTransaction
  <2>. QED
    BY <1>0, <1>7, <2>1, <2>2 DEF MoveFunds, TypeOK, Stage, InTransaction
<1>8. CASE SaveStatus(r)
  <2>1. UserRow(req[r].user) \in Resource
    BY <1>0 DEF Resource
  <2>. QED
    BY <1>0, <1>8, <2>1 DEF SaveStatus, TypeOK, Stage, InTransaction
<1>9. CASE Commit(r)
  <2>1. Leave(r, "reply") /\ "reply" \in Stage
    BY <1>9 DEF Commit, Stage
  <2>2. balance' \in [Account -> Amount] /\ records' \subseteq Row
    BY <1>0, <1>9 DEF Commit, TypeOK
  <2>3. status' \in [Account -> Status] /\ blockedBy' \in [Account -> Account \cup {NoAccount}]
    BY <1>0, <1>9 DEF Commit, TypeOK, Status
  <2>. QED
    BY <1>0, <1>9, <2>1, <2>2, <2>3, LeaveType DEF Commit, TypeOK
<1>10. CASE Answer(r)
  <2>1. \A t \in current[r] : Presented(t, req[r]) \in Reply
    BY <1>0 DEF TypeOK, Presented, Reply, Row
  <2>. QED
    BY <1>0, <1>10, <2>1 DEF Answer, TypeOK, Stage
<1>11. CASE Abort(r)
  <2>1. KeyReused(req[r]) \in Reply
    BY <1>0 DEF KeyReused, Reply
  <2>2. Leave(r, "done") /\ "done" \in Stage
    BY <1>11 DEF Abort, Rollback, Stage
  <2>3. replies' \subseteq Reply
    BY <1>0, <1>11, <2>1 DEF Abort, RefuseReuse, TypeOK
  <2>. QED
    BY <1>0, <1>11, <2>2, <2>3, LeaveType DEF Abort, Rollback, TypeOK
<1>. QED
  BY <1>1, <1>2, <1>3, <1>4, <1>5, <1>6, <1>7, <1>8, <1>9, <1>10, <1>11,
     <1>12, <1>13 DEF Step

(* A step of one request moves nothing that belongs to another.             *)
LEMMA Locality ==
  ASSUME TypeOK, NEW r \in Request, Step(r), NEW q \in Request, q # r
  PROVE  /\ pc'[q] = pc[q] /\ req'[q] = req[q] /\ attempt'[q] = attempt[q]
         /\ held'[q] = held[q] /\ shared'[q] = shared[q] /\ wallets'[q] = wallets[q]
         /\ users'[q] = users[q] /\ dirty'[q] = dirty[q] /\ current'[q] = current[q]
<1> USE DEF TypeOK, GoTo, copies, ledger
<1>1. CASE Send(r) \/ Resend(r) \/ Admit(r) \/ BeginTransaction(r)
  BY <1>1 DEF Send, Resend, Admit, BeginTransaction
<1>2. ASSUME NEW x \in LockPlan(req[r]), LockRow(r, x)
      PROVE  /\ pc' = pc /\ req' = req /\ attempt' = attempt /\ held'[q] = held[q]
             /\ shared' = shared /\ wallets'[q] = wallets[q] /\ users'[q] = users[q]
             /\ dirty' = dirty /\ current' = current
  BY <1>2 DEF LockRow
<1>3. CASE Replay(r) \/ InsertTransfer(r) \/ FindNoFunding(r) \/ InsertFunding(r)
  BY <1>3 DEF Replay, InsertTransfer, FindNoFunding, InsertFunding
<1>4. CASE FailBlocked(r) \/ FailInsufficient(r) \/ Complete(r)
  BY <1>4 DEF FailBlocked, FailInsufficient, Complete, SaveOutcome
<1>5. CASE MoveFunds(r) \/ SaveStatus(r)
  BY <1>5 DEF MoveFunds, SaveStatus
<1>6. CASE Commit(r) \/ Answer(r) \/ Abort(r)
  BY <1>6 DEF Commit, Leave, Answer, Abort, Rollback
<1>. QED
  BY <1>1, <1>2, <1>3, <1>4, <1>5, <1>6 DEF Step

(* Each step leaves its request where the guards and the checks of the      *)
(* handler allow it to be, and the other requests where they were.          *)
LEMMA AdmittedStep ==
  ASSUME Types, NEW r \in Request, Step(r), NEW q \in Request PROVE Admitted(q)'
<1> USE DEF GoTo, copies, ledger
<1>0. TypeOK /\ Admitted(q) /\ req[q] \in Input
  BY WorkloadAssumption DEF Types, TypeOK
<1>1. CASE q # r
  <2>1. pc'[q] = pc[q] /\ req'[q] = req[q] /\ attempt'[q] = attempt[q]
    BY <1>0, <1>1, Locality
  <2>. QED
    BY <1>0, <2>1 DEF Admitted, Malformed, WrongParties
<1>2. CASE q = r
  <2>1. CASE Send(r)
    <3>1. 1 \in Attempt
      BY ConcurrencyAssumption DEF Attempt
    <3>. QED
      BY <1>0, <1>2, <2>1, <3>1 DEF Send, TypeOK, Admitted, InTransaction
  <2>2. CASE Resend(r)
    <3>1. attempt[r] + 1 \in Attempt
      BY <1>0, <2>2, ConcurrencyAssumption DEF Resend, TypeOK, Attempt
    <3>. QED
      BY <1>0, <1>2, <2>2, <3>1 DEF Resend, TypeOK, Admitted, InTransaction
  <2>3. CASE Admit(r)
    BY <1>0, <1>2, <2>3 DEF Admit, Permitted, TypeOK, Admitted, InTransaction
  <2>4. CASE BeginTransaction(r)
    BY <1>0, <1>2, <2>4 DEF BeginTransaction, TypeOK, Admitted, InTransaction,
                            Malformed, WrongParties
  <2>5. ASSUME pc[r] \in InTransaction, req'[r] = req[r], attempt'[r] = attempt[r],
               pc'[r] \in {pc[r], "save", "decide", "credit", "complete", "commit"},
               pc'[r] \in {"decide", "complete"} => req[r].op = "transfer",
               pc'[r] \in {"save", "credit"} => req[r].op = "fund"
        PROVE  Admitted(r)'
    BY <1>0, <1>2, <2>5 DEF Admitted, InTransaction, Malformed, WrongParties
  <2>6. ASSUME NEW x \in LockPlan(req[r]), LockRow(r, x) PROVE Admitted(r)'
    BY <1>0, <1>2, <2>5, <2>6 DEF LockRow, Wants, InTransaction, Admitted
  <2>7. CASE Replay(r) \/ InsertTransfer(r) \/ FindNoFunding(r) \/ SaveStatus(r)
    BY <1>0, <1>2, <2>5, <2>7 DEF Replay, InsertTransfer, FindNoFunding, SaveStatus,
                                  AllLocked, InTransaction, TypeOK
  <2>8. CASE InsertFunding(r)
    BY <1>0, <1>2, <2>5, <2>8 DEF InsertFunding, Saved, InTransaction, TypeOK, Admitted
  <2>9. CASE FailBlocked(r) \/ FailInsufficient(r) \/ Complete(r)
    BY <1>0, <1>2, <2>5, <2>9 DEF FailBlocked, FailInsufficient, Complete, SaveOutcome,
                                  InTransaction, TypeOK
  <2>10. CASE MoveFunds(r)
    BY <1>0, <1>2, <2>5, <2>10 DEF MoveFunds, Movable, InTransaction, TypeOK, Admitted
  <2>11. CASE Commit(r) \/ Answer(r) \/ Abort(r)
    <3>1. /\ pc[r] # "idle" /\ pc'[r] \in {"reply", "done"}
          /\ pc'[r] = "reply" => pc[r] = "commit"
          /\ req'[r] = req[r] /\ attempt'[r] = attempt[r]
      BY <1>0, <2>11 DEF Commit, Answer, Abort, Rollback, Leave, TypeOK
    <3>. QED
      BY <1>0, <1>2, <3>1 DEF Admitted, InTransaction, Malformed, WrongParties
  <2>. QED
    BY <1>2, <2>1, <2>2, <2>3, <2>4, <2>6, <2>7, <2>8, <2>9, <2>10, <2>11 DEF Step
<1>. QED
  BY <1>1, <1>2

(* Every step keeps the types and what the guards have established.         *)
LEMMA TypesNext == Types /\ [Next]_vars => Types'
<1> SUFFICES ASSUME Types, [Next]_vars PROVE Types'
  OBVIOUS
<1>1. CASE UNCHANGED vars
  BY <1>1 DEF vars, ledger, copies, Types, TypeOK, Admitted, Malformed, WrongParties
<1>2. ASSUME NEW r \in Request, Step(r) PROVE Types'
  BY <1>2, TypeStep, AdmittedStep DEF Types
<1>. QED
  BY <1>1, <1>2, StepCases

(* The first layer: types, and what a request has passed through by the     *)
(* time its handler is at a stage (an administrator's role, the accepted    *)
(* input, the kind of operation).                                           *)
THEOREM TypesInvariant == Spec => []Types
<1>. QED
  BY TypesInit, TypesNext, PTL DEF Spec

(* Every variable keeps its type; balances stay within 0..MaxBalance, so    *)
(* the CHECK on balance_minor and the width of bigint never fail a commit.  *)
THEOREM TypeCorrect == Spec => []TypeOK
<1>1. Types => TypeOK
  BY DEF Types
<1>. QED
  BY <1>1, TypesInvariant, PTL

--------------------------------------------------------------------------------
(* Locks.                                                                   *)

(* A lock has one holder; a transaction past its locking phase has its      *)
(* whole plan, and a request outside a transaction has nothing.             *)
Exclusive    == \A r, q \in Request : r # q => held[r] \cap held[q] = {}
LocksHeld(r) ==
  /\ pc[r] \notin InTransaction => held[r] = {}
  /\ pc[r] \in InTransaction \ {"locking"} => LockPlan(req[r]) \subseteq held[r]
Locks        == Exclusive /\ \A r \in Request : LocksHeld(r)

(* Nobody holds a lock at first.                                            *)
LEMMA LocksInit == Init => Locks
BY DEF Init, Locks, Exclusive, LocksHeld, InTransaction

(* A step takes only locks that are free, keeps them until its transaction  *)
(* ends, and passes the locking phase only with the whole plan.             *)
LEMMA LocksStep ==
  ASSUME Types, Locks, NEW r \in Request, Step(r) PROVE Locks'
<1> USE DEF GoTo, copies, ledger
<1>0. TypeOK /\ LocksHeld(r) /\ Admitted(r)
  BY DEF Types, Locks
<1>1. /\ LocksHeld(r)'
      /\ held'[r] = held[r] \/ held'[r] = {}
           \/ \E x \in LockPlan(req[r]) : LockRow(r, x) /\ held'[r] = held[r] \cup {x}
  <2> USE <1>0 DEF LocksHeld, TypeOK
  <2>1. CASE Send(r) \/ Resend(r) \/ Admit(r)
    BY <2>1 DEF Send, Resend, Admit, InTransaction
  <2>2. CASE BeginTransaction(r)
    BY <2>2 DEF BeginTransaction, InTransaction
  <2>3. ASSUME NEW x \in LockPlan(req[r]), LockRow(r, x)
        PROVE  LocksHeld(r)' /\ held'[r] = held[r] \cup {x}
    BY <2>3 DEF LockRow, Wants, InTransaction
  <2>4. CASE Replay(r) \/ InsertTransfer(r) \/ FindNoFunding(r) \/ SaveStatus(r)
    BY <2>4 DEF Replay, InsertTransfer, FindNoFunding, SaveStatus, AllLocked, InTransaction
  <2>5. CASE InsertFunding(r) \/ MoveFunds(r)
    BY <2>5 DEF InsertFunding, Saved, MoveFunds, Movable, InTransaction
  <2>6. CASE FailBlocked(r) \/ FailInsufficient(r) \/ Complete(r)
    BY <2>6 DEF FailBlocked, FailInsufficient, Complete, SaveOutcome, InTransaction
  <2>7. CASE Commit(r) \/ Abort(r)
    BY <2>7 DEF Commit, Abort, Rollback, Leave, InTransaction
  <2>8. CASE Answer(r)
    BY <2>8 DEF Answer, InTransaction
  <2>. QED
    BY <2>1, <2>2, <2>3, <2>4, <2>5, <2>6, <2>7, <2>8 DEF Step
<1>2. ASSUME NEW q \in Request, q # r
      PROVE  LocksHeld(q)' /\ held'[q] = held[q] /\ held'[q] \cap held'[r] = {}
  <2>1. pc'[q] = pc[q] /\ req'[q] = req[q] /\ held'[q] = held[q]
    BY <1>0, <1>2, Locality
  <2>2. held[q] \cap held[r] = {}
    BY <1>2 DEF Locks, Exclusive
  <2>3. \A x : LockRow(r, x) => x \notin held[q]
    BY <1>2 DEF LockRow, Free
  <2>4. held'[q] \cap held'[r] = {}
    BY <1>1, <2>1, <2>2, <2>3
  <2>5. LocksHeld(q)
    BY DEF Locks
  <2>. QED
    BY <2>1, <2>4, <2>5 DEF LocksHeld
<1>3. \A q, p \in Request : q # p => held'[q] \cap held'[p] = {}
  BY <1>2 DEF Locks, Exclusive
<1>. QED
  BY <1>1, <1>2, <1>3 DEF Locks, Exclusive

(* The second layer: a row locked FOR UPDATE has one holder, and create(),  *)
(* fund() and updateStatus() hold every row they need from their last lock  *)
(* to their commit.                                                         *)
THEOREM LocksInvariant == Spec => []Locks
<1>1. Types /\ Locks /\ [Next]_vars => Locks'
  <2> SUFFICES ASSUME Types, Locks, [Next]_vars PROVE Locks'
    OBVIOUS
  <2>1. CASE UNCHANGED vars
    BY <2>1 DEF vars, ledger, copies, Locks, Exclusive, LocksHeld
  <2>. QED
    BY <2>1, StepCases, LocksStep
<1>. QED
  BY <1>1, LocksInit, TypesInvariant, PTL DEF Spec

--------------------------------------------------------------------------------
(* What a handler knows at each of its stages.                              *)

(* The outcome s of the transfer or funding of r follows from its entities. *)
Judged(r, s) ==
  \/ s = "SUCCEEDED" /\ BothActive(r) /\ dirty[r] = Parties(req[r])
  \/ /\ s = "ACCOUNT_BLOCKED" /\ req[r].op = "transfer"
     /\ ~BothActive(r) /\ dirty[r] = {}
  \/ /\ s = "INSUFFICIENT_FUNDS" /\ req[r].op = "transfer"
     /\ BothActive(r) /\ ~Covered(r) /\ dirty[r] = {}

Replayed(r) == \E t \in records : current[r] = {t} /\ Retries(t.input, req[r])

Knows(r) ==
  /\ pc[r] \notin {"complete", "commit"} => dirty[r] = {}
  /\ pc[r] \in {"idle", "guard", "handler", "locking", "save", "done"} => current[r] = {}
  /\ pc[r] \in {"save", "credit"} => BothActive(r)
  /\ pc[r] \in {"decide", "complete"} => current[r] = {NewRow(r, "PENDING")}
  /\ pc[r] = "credit" => current[r] = {NewRow(r, "SUCCEEDED")}
  /\ pc[r] = "complete" => BothActive(r) /\ dirty[r] = Parties(req[r])
  /\ pc[r] = "commit" =>
       \/ req[r].op \in StatusOp /\ current[r] = {} /\ dirty[r] = {}
       \/ req[r].op \in MoneyOp /\ Replayed(r) /\ dirty[r] = {}
       \/ /\ req[r].op \in MoneyOp
          /\ \E s \in Outcome : current[r] = {NewRow(r, s)} /\ Judged(r, s)
  /\ pc[r] = "reply" =>
       \/ req[r].op \in StatusOp /\ current[r] = {}
       \/ Replayed(r)

(* An idle handler knows nothing.                                           *)
LEMMA KnowsInit == Init => \A r \in Request : Knows(r)
BY DEF Init, Knows

(* Nothing of this is lost when others move: committed rows stay.           *)
LEMMA KnowsFrame ==
  ASSUME NEW q \in Request, Knows(q), records \subseteq records',
         pc'[q] = pc[q], req'[q] = req[q], attempt'[q] = attempt[q], users'[q] = users[q],
         wallets'[q] = wallets[q], dirty'[q] = dirty[q], current'[q] = current[q]
  PROVE  Knows(q)'
<1>1. /\ BothActive(q)' <=> BothActive(q)
      /\ Covered(q)' <=> Covered(q)
      /\ Replayed(q) => Replayed(q)'
      /\ \A s \in Outcome \cup {"PENDING"} : NewRow(q, s)' = NewRow(q, s)
  BY DEF BothActive, Covered, Replayed, NewRow
<1>2. \A s \in Outcome : Judged(q, s)' <=> Judged(q, s)
  BY <1>1 DEF Judged
<1>. QED
  BY <1>1, <1>2 DEF Knows, Outcome

(* One step per action that takes r to another stage.                       *)
LEMMA KnowsStep ==
  ASSUME Types, NEW r \in Request, Knows(r), Step(r) PROVE Knows(r)'
<1> USE DEF GoTo, copies, ledger
<1>0. TypeOK /\ Admitted(r) /\ req[r] \in Input
  BY WorkloadAssumption DEF Types, TypeOK
<1>1. CASE Send(r) \/ Resend(r) \/ Admit(r) \/ BeginTransaction(r)
  <2>1. /\ pc[r] \in {"idle", "done", "guard", "handler"}
        /\ pc'[r] \in {"guard", "handler", "locking"}
        /\ dirty' = dirty /\ current' = current
    BY <1>0, <1>1 DEF Send, Resend, Admit, BeginTransaction, TypeOK
  <2>. QED
    BY <1>0, <2>1 DEF Knows
<1>2. ASSUME NEW x \in LockPlan(req[r]), LockRow(r, x) PROVE Knows(r)'
  <2>1. pc[r] = "locking" /\ pc'[r] = "locking" /\ dirty' = dirty /\ current' = current
    BY <1>2 DEF LockRow, Wants
  <2>. QED
    BY <2>1 DEF Knows
<1>3. CASE Replay(r)
  <2>1. PICK t \in records : /\ SameKey(t.input, req[r])
                             /\ Fingerprint(t.input) = Fingerprint(req[r])
                             /\ current'[r] = {t}
    BY <1>0, <1>3 DEF Replay, Matches, TypeOK
  <2>2. /\ pc[r] = "locking" /\ pc'[r] = "commit" /\ req[r].op \in MoneyOp
        /\ dirty' = dirty /\ req' = req /\ records' = records
    BY <1>0, <1>3 DEF Replay, AllLocked, TypeOK
  <2>3. Replayed(r)'
    BY <2>1, <2>2 DEF Replayed, Retries
  <2>. QED
    BY <2>2, <2>3 DEF Knows
<1>4. CASE InsertTransfer(r)
  BY <1>0, <1>4 DEF InsertTransfer, AllLocked, TypeOK, Knows, NewRow
<1>5. CASE FindNoFunding(r)
  <2>1. /\ pc[r] = "locking" /\ pc'[r] = "save" /\ req[r].op = "fund" /\ req' = req
        /\ users' = users /\ dirty' = dirty /\ current' = current
    BY <1>0, <1>5 DEF FindNoFunding, AllLocked, TypeOK
  <2>2. UserRow(req[r].user) \in held[r]
    BY <1>5, <2>1 DEF FindNoFunding, AllLocked, LockPlan, Parties, StatusOp
  <2>3. users[r][req[r].user] = "ACTIVE"
    BY <1>5, <2>1, <2>2 DEF FindNoFunding, FundingForbidden
  <2>4. BothActive(r)'
    BY <2>1, <2>3 DEF BothActive, Parties
  <2>. QED
    BY <2>1, <2>4 DEF Knows
<1>6. CASE InsertFunding(r)
  BY <1>0, <1>6 DEF InsertFunding, Saved, TypeOK, Knows, NewRow, BothActive
<1>7. ASSUME NEW s \in Outcome, Judged(r, s), SaveOutcome(r, s), pc[r] \in {"decide", "complete"}
      PROVE  Knows(r)'
  <2>1. /\ pc'[r] = "commit" /\ req' = req /\ attempt' = attempt /\ users' = users
        /\ wallets' = wallets /\ dirty' = dirty
        /\ current'[r] = {[t EXCEPT !.status = s] : t \in current[r]}
    BY <1>0, <1>7 DEF SaveOutcome, TypeOK
  <2>2. current'[r] = {NewRow(r, s)'}
    <3>1. current[r] = {NewRow(r, "PENDING")}
      BY <1>7 DEF Knows
    <3>2. [NewRow(r, "PENDING") EXCEPT !.status = s] = NewRow(r, s)'
      BY <2>1 DEF NewRow
    <3>. QED
      BY <2>1, <3>1, <3>2
  <2>3. Judged(r, s)'
    BY <1>7, <2>1 DEF Judged, BothActive, Covered
  <2>4. req'[r].op \in MoneyOp
    BY <1>0, <1>7, <2>1 DEF Admitted, MoneyOp
  <2>. QED
    BY <2>1, <2>2, <2>3, <2>4 DEF Knows
<1>8. CASE FailBlocked(r)
  <2>1. Judged(r, "ACCOUNT_BLOCKED")
    BY <1>0, <1>8 DEF FailBlocked, Judged, Admitted, Knows
  <2>. QED
    BY <1>7, <1>8, <2>1 DEF FailBlocked, Outcome, FailureCode
<1>9. CASE FailInsufficient(r)
  <2>1. Judged(r, "INSUFFICIENT_FUNDS")
    BY <1>0, <1>9 DEF FailInsufficient, Judged, Admitted, Knows
  <2>. QED
    BY <1>7, <1>9, <2>1 DEF FailInsufficient, Outcome, FailureCode
<1>10. CASE Complete(r)
  <2>1. Judged(r, "SUCCEEDED")
    BY <1>10 DEF Complete, Judged, Knows
  <2>. QED
    BY <1>7, <1>10, <2>1 DEF Complete, Outcome
<1>11. CASE MoveFunds(r)
  <2>1. /\ req' = req /\ attempt' = attempt /\ users' = users /\ current' = current
        /\ dirty'[r] = Parties(req[r])
        /\ pc'[r] = IF pc[r] = "credit" THEN "commit" ELSE "complete"
    BY <1>0, <1>11 DEF MoveFunds, TypeOK
  <2>2. BothActive(r) /\ BothActive(r)'
    BY <1>11, <2>1 DEF MoveFunds, Movable, Knows, BothActive
  <2>3. Judged(r, "SUCCEEDED")'
    BY <2>1, <2>2 DEF Judged
  <2>4. CASE pc[r] = "credit"
    BY <1>0, <2>1, <2>3, <2>4 DEF Knows, NewRow, Admitted, MoneyOp, Outcome
  <2>5. CASE pc[r] = "decide"
    BY <2>1, <2>2, <2>5 DEF Knows, NewRow
  <2>. QED
    BY <1>11, <2>4, <2>5 DEF MoveFunds, Movable
<1>12. CASE SaveStatus(r)
  BY <1>0, <1>12 DEF SaveStatus, AllLocked, TypeOK, Knows
<1>13. CASE Commit(r)
  <2>1. /\ pc[r] = "commit" /\ pc'[r] = "reply" /\ req' = req /\ dirty'[r] = {}
        /\ current' = current /\ records' = records \cup current[r]
    BY <1>0, <1>13 DEF Commit, Leave, TypeOK
  <2>2. ASSUME NEW s \in Outcome, current[r] = {NewRow(r, s)} PROVE Replayed(r)'
    <3>1. NewRow(r, s) \in records' /\ current'[r] = {NewRow(r, s)}
      BY <2>1, <2>2
    <3>2. NewRow(r, s).input = req'[r]
      BY <2>1 DEF NewRow
    <3>3. \A i : Retries(i, i)
      BY DEF Retries, SameKey
    <3>. QED
      BY <3>1, <3>2, <3>3 DEF Replayed
  <2>3. Replayed(r) => Replayed(r)'
    BY <2>1 DEF Replayed
  <2>. QED
    BY <2>1, <2>2, <2>3 DEF Knows
<1>14. CASE Answer(r) \/ Abort(r)
  <2>1. pc'[r] = "done" /\ current'[r] = {} /\ dirty'[r] = {}
    BY <1>0, <1>14 DEF Answer, Abort, Rollback, Leave, TypeOK, Knows
  <2>. QED
    BY <2>1 DEF Knows
<1>. QED
  BY <1>1, <1>2, <1>3, <1>4, <1>5, <1>6, <1>8, <1>9, <1>10, <1>11, <1>12, <1>13, <1>14
     DEF Step

(* Only a commit writes the tables.                                         *)
LEMMA TablesFrame ==
  ASSUME NEW r \in Request, Step(r), ~Commit(r)
  PROVE  UNCHANGED <<balance, status, blockedBy, records>>
<1> USE DEF GoTo, ledger
<1>1. \A x : LockRow(r, x) => UNCHANGED <<balance, status, blockedBy, records>>
  BY DEF LockRow
<1>. QED
  BY <1>1
     DEF Step, Send, Resend, Admit, BeginTransaction, Replay, InsertTransfer, FindNoFunding,
         InsertFunding, FailBlocked, FailInsufficient, SaveOutcome, MoveFunds, Complete,
         SaveStatus, Answer, Abort, Rollback

(* No step removes or rewrites a committed row.                             *)
LEMMA RecordsGrow ==
  ASSUME NEW r \in Request, Step(r)
  PROVE  records' = records \/ (Commit(r) /\ records' = records \cup current[r])
BY TablesFrame DEF Commit

Known == \A r \in Request : Knows(r)

(* The third layer: at every stage of its handler a request works on the    *)
(* row that stage expects, new or found under its key, and has saved the    *)
(* outcome that follows from its entities.                                  *)
THEOREM KnowsInvariant == Spec => []Known
<1>1. Init => Known
  BY KnowsInit DEF Known
<1>2. Types /\ Known /\ [Next]_vars => Known'
  <2> SUFFICES ASSUME Types, Known, [Next]_vars, NEW q \in Request PROVE Knows(q)'
    BY DEF Known
  <2>1. CASE UNCHANGED vars
    BY <2>1, KnowsFrame DEF vars, ledger, copies, Known
  <2>2. ASSUME NEW r \in Request, Step(r) PROVE Knows(q)'
    <3>1. CASE q = r
      BY <2>2, <3>1, KnowsStep DEF Known
    <3>2. CASE q # r
      BY <2>2, <3>2, KnowsFrame, RecordsGrow, Locality DEF Types, Known
    <3>. QED
      BY <3>1, <3>2
  <2>. QED
    BY <2>1, <2>2, StepCases
<1>. QED
  BY <1>1, <1>2, TypesInvariant, PTL DEF Spec

--------------------------------------------------------------------------------
(* Entities against committed rows.                                         *)

(* The plan of a transfer or a funding has the user row and the wallet row  *)
(* of everybody whose money it moves.                                       *)
LEMMA PlanOfMoney ==
  ASSUME NEW i, i.op \in MoneyOp, NEW a \in Parties(i)
  PROVE  UserRow(a) \in LockPlan(i) /\ WalletRow(a) \in LockPlan(i)
BY DEF LockPlan, MoneyOp, StatusOp

(* A commit writes only what its transaction has locked.                    *)
LEMMA WritesLocked ==
  ASSUME Types, Locks, Known, NEW r \in Request
  PROVE  /\ \A a \in dirty[r] : WalletRow(a) \in held[r]
         /\ pc[r] = "commit" /\ req[r].op \in StatusOp => UserRow(req[r].peer) \in held[r]
<1>1. Knows(r) /\ LocksHeld(r) /\ Admitted(r)
  BY DEF Known, Locks, Types
<1>2. ASSUME dirty[r] # {} PROVE /\ dirty[r] = Parties(req[r]) /\ req[r].op \in MoneyOp
                                /\ LockPlan(req[r]) \subseteq held[r]
  BY <1>1, <1>2 DEF Knows, Judged, Admitted, LocksHeld, InTransaction, MoneyOp
<1>3. pc[r] = "commit" /\ req[r].op \in StatusOp => UserRow(req[r].peer) \in held[r]
  BY <1>1 DEF LocksHeld, InTransaction, LockPlan
<1>. QED
  BY <1>2, <1>3, PlanOfMoney

(* What a commit does not lock it does not change.                          *)
LEMMA CommitEffect ==
  ASSUME Types, Locks, Known, NEW r \in Request, Step(r), NEW a \in Account
  PROVE  /\ balance'[a] # balance[a] => /\ Commit(r) /\ a \in dirty[r]
                                       /\ WalletRow(a) \in held[r]
         /\ status'[a] # status[a] => /\ Commit(r) /\ req[r].op \in StatusOp
                                     /\ a = req[r].peer /\ UserRow(a) \in held[r]
<1>2. Commit(r) \/ (balance' = balance /\ status' = status)
  BY TablesFrame
<1>3. CASE Commit(r)
  <2>1. pc[r] = "commit" /\ (a \notin dirty[r] => balance'[a] = balance[a])
    BY <1>3 DEF Commit
  <2>2. status'[a] # status[a] => req[r].op \in StatusOp /\ a = req[r].peer
    BY <1>3 DEF Commit, StatusOp, Types, TypeOK
  <2>. QED
    BY <1>3, <2>1, <2>2, WritesLocked
<1>. QED
  BY <1>2, <1>3

(* Entities agree with the committed rows after every step: the only one    *)
(* that changes a committed balance or status is the commit of the holder   *)
(* of the row.                                                              *)
LEMMA EntitiesStep ==
  ASSUME Types, Locks, Known, EntitiesCurrent, NEW r \in Request, Step(r)
  PROVE  EntitiesCurrent'
<1> USE DEF GoTo, copies, ledger
<1> DEFINE Current(q, a) ==
      /\ WalletRow(a) \in held[q] =>
           wallets[q][a] = balance[a] + (IF a \in dirty[q] THEN Moves(req[q], a) ELSE 0)
      /\ UserRow(a) \in held[q] => users[q][a] = status[a]
<1> SUFFICES ASSUME NEW q \in Request, NEW a \in Account PROVE Current(q, a)'
  BY DEF EntitiesCurrent
<1>0. TypeOK /\ Knows(q) /\ Current(q, a)
  BY DEF Types, Known, EntitiesCurrent
<1>1. CASE q # r
  <2>1. /\ held'[q] = held[q] /\ wallets'[q] = wallets[q] /\ users'[q] = users[q]
        /\ dirty'[q] = dirty[q] /\ req'[q] = req[q]
    BY <1>0, <1>1, Locality
  <2>2. held[q] \cap held[r] = {}
    BY <1>1 DEF Locks, Exclusive
  <2>3. /\ WalletRow(a) \in held[q] => balance'[a] = balance[a]
        /\ UserRow(a) \in held[q] => status'[a] = status[a]
    BY <2>2, CommitEffect
  <2>. QED
    BY <1>0, <2>1, <2>3
<1>2. CASE q = r /\ (Commit(r) \/ Abort(r))
  <2>1. held'[r] = {}
    BY <1>0, <1>2 DEF Commit, Abort, Rollback, Leave, TypeOK
  <2>. QED
    BY <1>2, <2>1
<1>3. ASSUME q = r, NEW x \in LockPlan(req[r]), LockRow(r, x) PROVE Current(q, a)'
  <2>1. /\ held'[r] = held[r] \cup {x} /\ dirty' = dirty /\ balance' = balance
        /\ status' = status /\ dirty[r] = {}
        /\ users'[r][a] = (IF x = UserRow(a) THEN status[a] ELSE users[r][a])
        /\ wallets'[r][a] = (IF x = WalletRow(a) THEN balance[a] ELSE wallets[r][a])
    BY <1>0, <1>3 DEF LockRow, Wants, Knows, TypeOK
  <2>2. balance[a] \in Int
    BY <1>0, BalanceAssumption DEF TypeOK, Amount
  <2>. QED
    BY <1>0, <1>3, <2>1, <2>2
<1>4. CASE q = r /\ MoveFunds(r)
  <2>1. /\ held' = held /\ balance' = balance /\ status' = status /\ users' = users
        /\ req' = req /\ dirty[r] = {} /\ dirty'[r] = Parties(req[r])
        /\ wallets'[r][a] = wallets[r][a] + Moves(req[r], a)
    BY <1>0, <1>4 DEF MoveFunds, Movable, Knows, TypeOK
  <2>2. a \notin Parties(req[r]) => Moves(req[r], a) = 0
    BY <1>4, MovesType DEF MoveFunds
  <2>3. balance[a] \in Int
    BY <1>0, BalanceAssumption DEF TypeOK, Amount
  <2>. QED
    BY <1>0, <1>4, <2>1, <2>2, <2>3
<1>5. CASE q = r /\ (Send(r) \/ Resend(r) \/ Admit(r) \/ BeginTransaction(r) \/ Replay(r)
                     \/ InsertTransfer(r) \/ FindNoFunding(r) \/ InsertFunding(r)
                     \/ FailBlocked(r) \/ FailInsufficient(r) \/ Complete(r)
                     \/ SaveStatus(r) \/ Answer(r))
  <2>1. /\ held' = held /\ wallets' = wallets /\ users' = users /\ dirty' = dirty
        /\ balance' = balance /\ status' = status
    BY <1>5 DEF Send, Resend, Admit, BeginTransaction, Replay, InsertTransfer, FindNoFunding,
         InsertFunding, FailBlocked, FailInsufficient, SaveOutcome, Complete, SaveStatus, Answer
  <2>2. Send(r) => dirty[r] = {}
    BY <1>0, <1>5 DEF Send, Knows
  <2>3. Send(r) \/ req' = req
    BY <1>5 DEF Resend, Admit, BeginTransaction, Replay, InsertTransfer, FindNoFunding,
         InsertFunding, FailBlocked, FailInsufficient, SaveOutcome, Complete, SaveStatus, Answer
  <2>. QED
    BY <1>0, <1>5, <2>1, <2>2, <2>3
<1>. QED
  BY <1>1, <1>2, <1>3, <1>4, <1>5 DEF Step

(* Whatever the accounts, the requests and their interleaving, no           *)
(* transaction decides on, or writes back, a balance or a status that       *)
(* another one has changed since.                                           *)
THEOREM NoLostUpdate == Spec => []EntitiesCurrent
<1>1. Init => EntitiesCurrent
  BY DEF Init, EntitiesCurrent
<1>2. Types /\ Locks /\ Known /\ EntitiesCurrent /\ [Next]_vars => EntitiesCurrent'
  <2> SUFFICES ASSUME Types, Locks, Known, EntitiesCurrent, [Next]_vars
               PROVE  EntitiesCurrent'
    OBVIOUS
  <2>1. CASE UNCHANGED vars
    BY <2>1 DEF vars, ledger, copies, EntitiesCurrent
  <2>. QED
    BY <2>1, StepCases, EntitiesStep
<1>. QED
  BY <1>1, <1>2, TypesInvariant, LocksInvariant, KnowsInvariant, PTL DEF Spec

--------------------------------------------------------------------------------
(* Keys and references.                                                     *)

(* A row that r inserted and did not commit is the only one of its key: the *)
(* lock on the wallet keeps every other request of the key out.             *)
Uncommitted(r) ==
  \/ pc[r] \in {"save", "decide", "complete", "credit"}
  \/ pc[r] = "commit" /\ current[r] \ records # {}
KeysFree == \A r \in Request : Uncommitted(r) => Matches(r) = {}

(* A reference belongs to one attempt, whose commit spends it.              *)
Spent(t) ==
  \E q \in Request, n \in Attempt :
    /\ t.ref = <<q, n>> /\ n <= attempt[q]
    /\ n = attempt[q] => pc[q] \in {"reply", "done"}
RefsSpent  == \A t \in records : Spent(t)
UniqueRefs == \A t, u \in records : t.ref = u.ref => t = u

Keys == OnePerKey /\ KeysFree /\ RefsSpent /\ UniqueRefs

(* What a commit adds: nothing that is not there already, or one row whose  *)
(* reference and key nobody has used.                                       *)
LEMMA CommitRow ==
  ASSUME Types, Known, KeysFree, RefsSpent, NEW r \in Request, Commit(r)
  PROVE  \/ records' = records
         \/ /\ req[r].op \in MoneyOp /\ Matches(r) = {}
            /\ \E s \in Outcome :
                 /\ current[r] = {NewRow(r, s)} /\ Judged(r, s)
                 /\ records' = records \cup {NewRow(r, s)}
            /\ \A t \in records : t.ref # <<r, attempt[r]>>
<1>1. pc[r] = "commit" /\ records' = records \cup current[r] /\ Knows(r)
  BY DEF Commit, Known
<1>2. \A t \in records : t.ref # <<r, attempt[r]>>
  BY <1>1 DEF RefsSpent, Spent
<1>3. CASE current[r] = {} \/ Replayed(r)
  BY <1>1, <1>3 DEF Replayed
<1>4. ASSUME NEW s \in Outcome, current[r] = {NewRow(r, s)}, Judged(r, s), req[r].op \in MoneyOp
      PROVE  Matches(r) = {}
  <2>1. NewRow(r, s).ref = <<r, attempt[r]>>
    BY DEF NewRow
  <2>2. Uncommitted(r)
    BY <1>1, <1>2, <1>4, <2>1 DEF Uncommitted
  <2>. QED
    BY <2>2 DEF KeysFree
<1>. QED
  BY <1>1, <1>2, <1>3, <1>4 DEF Knows

(* Two requests of one key cannot both hold the wallet they name.           *)
LEMMA KeyExclusion ==
  ASSUME Types, Locks, Known, NEW r \in Request, NEW q \in Request, q # r,
         pc[r] = "commit", req[r].op \in MoneyOp, Uncommitted(q)
  PROVE  ~SameKey(req[r], req[q])
<1> SUFFICES ASSUME SameKey(req[r], req[q]) PROVE FALSE
  OBVIOUS
<1>1. req[q].op \in MoneyOp /\ req[q].user = req[r].user
  BY DEF SameKey
<1>2. LockPlan(req[q]) \subseteq held[q] /\ LockPlan(req[r]) \subseteq held[r]
  BY DEF Uncommitted, Locks, LocksHeld, InTransaction
<1>3. req[r].user \in Parties(req[r]) /\ req[r].user \in Parties(req[q])
  BY <1>1 DEF Parties
<1>4. WalletRow(req[r].user) \in held[q] \cap held[r]
  BY <1>1, <1>2, <1>3, PlanOfMoney
<1>. QED
  BY <1>4 DEF Locks, Exclusive

(* A reference that is committed is never generated again.                  *)
LEMMA SpentStep ==
  ASSUME Types, NEW r \in Request, Step(r), NEW t, Spent(t) PROVE Spent(t)'
<1> USE DEF GoTo, copies, ledger
<1>0. TypeOK
  BY DEF Types
<1>1. PICK q \in Request, n \in Attempt :
        /\ t.ref = <<q, n>> /\ n <= attempt[q]
        /\ n = attempt[q] => pc[q] \in {"reply", "done"}
  BY DEF Spent
<1>2. attempt[q] \in Int /\ n \in Int /\ n >= 1
  BY <1>0, ConcurrencyAssumption DEF TypeOK, Attempt
<1>3. /\ n <= attempt'[q]
      /\ n = attempt'[q] => pc'[q] \in {"reply", "done"}
  <2>1. CASE q # r
    BY <1>0, <1>1, <2>1, Locality
  <2>2. CASE q = r /\ Send(r)
    BY <1>0, <1>1, <1>2, <2>2 DEF Send, Types, Admitted
  <2>3. CASE q = r /\ Resend(r)
    BY <1>0, <1>1, <1>2, <2>3 DEF Resend, TypeOK
  <2>4. CASE q = r /\ (Commit(r) \/ Answer(r) \/ Abort(r))
    BY <1>0, <1>1, <2>4 DEF Commit, Answer, Abort, Rollback, Leave, TypeOK
  <2>5. ASSUME q = r, attempt' = attempt, pc[r] \notin {"reply", "done"}
        PROVE  n <= attempt'[q] /\ n # attempt'[q]
    BY <1>1, <2>5
  <2>6. ASSUME q = r, NEW x \in LockPlan(req[r]), LockRow(r, x)
        PROVE  n <= attempt'[q] /\ n # attempt'[q]
    BY <2>5, <2>6 DEF LockRow, Wants
  <2>7. CASE q = r /\ (Admit(r) \/ BeginTransaction(r) \/ Replay(r) \/ InsertTransfer(r)
                       \/ FindNoFunding(r) \/ InsertFunding(r) \/ SaveStatus(r))
    BY <2>5, <2>7 DEF Admit, BeginTransaction, Replay, InsertTransfer, FindNoFunding,
                      InsertFunding, Saved, SaveStatus, AllLocked
  <2>8. CASE q = r /\ (FailBlocked(r) \/ FailInsufficient(r) \/ Complete(r) \/ MoveFunds(r))
    BY <2>5, <2>8 DEF FailBlocked, FailInsufficient, Complete, SaveOutcome, MoveFunds, Movable
  <2>. QED
    BY <2>1, <2>2, <2>3, <2>4, <2>6, <2>7, <2>8 DEF Step
<1>. QED
  BY <1>1, <1>3 DEF Spent

(* A row that another request commits does not have the key of q.           *)
LEMMA KeysFreeStep ==
  ASSUME Types, Locks, Known, Keys, NEW r \in Request, Step(r), NEW q \in Request,
         Uncommitted(q)'
  PROVE  Matches(q)' = {}
<1> USE DEF GoTo, copies, ledger
<1>0. TypeOK /\ KeysFree /\ RefsSpent
  BY DEF Types, Keys
<1>1. CASE q # r
  <2>1. pc'[q] = pc[q] /\ req'[q] = req[q] /\ current'[q] = current[q]
    BY <1>0, <1>1, Locality
  <2>2. records' = records \/ (Commit(r) /\ records' = records \cup current[r])
    BY RecordsGrow
  <2>3. Uncommitted(q)
    BY <2>1, <2>2 DEF Uncommitted
  <2>4. Matches(q) = {}
    BY <1>0, <2>3 DEF KeysFree
  <2>5. ASSUME Commit(r), records' # records
        PROVE  \A t \in records' \ records : ~SameKey(t.input, req[q])
    <3>1. PICK s \in Outcome : /\ req[r].op \in MoneyOp
                               /\ records' = records \cup {NewRow(r, s)}
      BY <1>0, <2>5, CommitRow
    <3>2. pc[r] = "commit"
      BY <2>5 DEF Commit
    <3>3. ~SameKey(req[r], req[q])
      BY <1>1, <2>3, <3>1, <3>2, KeyExclusion
    <3>. QED
      BY <3>1, <3>3 DEF NewRow
  <2>. QED
    BY <2>1, <2>2, <2>4, <2>5 DEF Matches
<1>2. CASE q = r
  <2>1. ASSUME Matches(r) = {}, records' = records, req' = req PROVE Matches(r)' = {}
    BY <2>1 DEF Matches
  <2>2. ASSUME Uncommitted(r) PROVE Matches(r) = {}
    BY <1>0, <2>2 DEF KeysFree
  <2>3. CASE Send(r) \/ Resend(r) \/ Admit(r) \/ BeginTransaction(r)
    <3>1. pc'[r] \in {"guard", "handler", "locking"}
      BY <1>0, <2>3 DEF Send, Resend, Admit, BeginTransaction, TypeOK
    <3>. QED
      BY <1>2, <3>1 DEF Uncommitted
  <2>4. ASSUME NEW x \in LockPlan(req[r]), LockRow(r, x) PROVE FALSE
    BY <1>2, <2>4 DEF LockRow, Wants, Uncommitted
  <2>5. CASE Replay(r)
    <3>1. PICK t \in records : current'[r] = {t}
      BY <1>0, <2>5 DEF Replay, Matches, TypeOK
    <3>2. pc'[r] = "commit" /\ records' = records
      BY <1>0, <2>5 DEF Replay, TypeOK
    <3>. QED
      BY <1>2, <3>1, <3>2 DEF Uncommitted
  <2>6. CASE InsertTransfer(r) \/ FindNoFunding(r) \/ InsertFunding(r)
    BY <1>2, <2>1, <2>6 DEF InsertTransfer, FindNoFunding, InsertFunding, Saved
  <2>7. CASE FailBlocked(r) \/ FailInsufficient(r) \/ Complete(r) \/ MoveFunds(r)
    BY <1>2, <2>1, <2>2, <2>7 DEF FailBlocked, FailInsufficient, Complete, SaveOutcome,
                                  MoveFunds, Movable, Uncommitted
  <2>8. CASE SaveStatus(r)
    <3>1. pc[r] = "locking" /\ pc'[r] = "commit" /\ current' = current
      BY <1>0, <2>8 DEF SaveStatus, AllLocked, TypeOK
    <3>. QED
      BY <1>2, <3>1 DEF Uncommitted, Known, Knows
  <2>9. CASE Commit(r) \/ Answer(r) \/ Abort(r)
    BY <1>0, <1>2, <2>9 DEF Commit, Answer, Abort, Rollback, Leave, TypeOK, Uncommitted
  <2>. QED
    BY <1>2, <2>3, <2>4, <2>5, <2>6, <2>7, <2>8, <2>9 DEF Step
<1>. QED
  BY <1>1, <1>2

(* No step breaks the exclusion of keys: a commit adds a row to a key that  *)
(* has none.                                                                *)
LEMMA KeysStep ==
  ASSUME Types, Locks, Known, Keys, NEW r \in Request, Step(r) PROVE Keys'
<1>0. TypeOK /\ OnePerKey /\ KeysFree /\ RefsSpent /\ UniqueRefs
  BY DEF Types, Keys
<1>1. KeysFree'
  BY KeysFreeStep DEF KeysFree
<1>2. \A t \in records : Spent(t)'
  BY <1>0, SpentStep DEF RefsSpent
<1>3. CASE records' = records
  BY <1>0, <1>1, <1>2, <1>3 DEF Keys, OnePerKey, RefsSpent, UniqueRefs
<1>4. CASE records' # records
  <2>1. Commit(r)
    BY <1>4, RecordsGrow
  <2>2. PICK s \in Outcome : records' = records \cup {NewRow(r, s)}
    BY <1>0, <1>4, <2>1, CommitRow
  <2>3. Matches(r) = {} /\ \A t \in records : t.ref # <<r, attempt[r]>>
    BY <1>0, <1>4, <2>1, CommitRow
  <2>4. NewRow(r, s).ref = <<r, attempt[r]>> /\ NewRow(r, s).input = req[r]
    BY DEF NewRow
  <2>5. \A t \in records : ~SameKey(t.input, req[r]) /\ ~SameKey(req[r], t.input)
    BY <2>3 DEF Matches, SameKey
  <2>6. OnePerKey' /\ UniqueRefs'
    BY <1>0, <2>2, <2>3, <2>4, <2>5 DEF OnePerKey, UniqueRefs
  <2>7. ASSUME NEW t, t = NewRow(r, s) PROVE Spent(t)'
    <3>1. attempt[r] \in Attempt /\ attempt' = attempt /\ pc'[r] = "reply"
      BY <1>0, <2>1 DEF Types, Admitted, Commit, Leave, TypeOK
    <3>2. attempt[r] \in Int
      BY <3>1 DEF Attempt
    <3>. QED
      BY <2>4, <2>7, <3>1, <3>2 DEF Spent
  <2>8. RefsSpent'
    BY <1>2, <2>2, <2>7 DEF RefsSpent
  <2>. QED
    BY <1>1, <2>6, <2>8 DEF Keys
<1>. QED
  BY <1>3, <1>4

(* The fifth layer: rows are unique by key and by reference, and a key      *)
(* whose insert is under way has no committed row.                          *)
THEOREM KeysInvariant == Spec => []Keys
<1>1. Init => Keys
  BY DEF Init, Keys, OnePerKey, KeysFree, RefsSpent, UniqueRefs, Matches
<1>2. Types /\ Locks /\ Known /\ Keys /\ [Next]_vars => Keys'
  <2> SUFFICES ASSUME Types, Locks, Known, Keys, [Next]_vars PROVE Keys'
    OBVIOUS
  <2>1. CASE UNCHANGED vars
    BY <2>1 DEF vars, ledger, Keys, OnePerKey, KeysFree, Uncommitted, Matches,
                RefsSpent, Spent, UniqueRefs
  <2>. QED
    BY <2>1, StepCases, KeysStep
<1>. QED
  BY <1>1, <1>2, TypesInvariant, LocksInvariant, KnowsInvariant, PTL DEF Spec

(* No idempotency key ever has two transfers, or two fundings, of one       *)
(* wallet, and the unique index is never what prevents it: the locks do.    *)
THEOREM IdempotencyKeys == Spec => []OnePerKey
<1>1. Keys => OnePerKey
  BY DEF Keys
<1>. QED
  BY <1>1, KeysInvariant, PTL

--------------------------------------------------------------------------------
(* Money.                                                                   *)

(* A transaction about to commit money has decided on what is committed.    *)
LEMMA DecidedOnCommitted ==
  ASSUME Types, Locks, EntitiesCurrent, NEW r \in Request,
         pc[r] = "commit", req[r].op \in MoneyOp, NEW a \in Parties(req[r])
  PROVE  /\ a \in Account /\ users[r][a] = status[a]
         /\ wallets[r][a] = balance[a] + (IF a \in dirty[r] THEN Moves(req[r], a) ELSE 0)
<1>1. a \in Account
  <2>1. Admitted(r) /\ req[r] \in Input
    BY WorkloadAssumption DEF Types, TypeOK
  <2>. QED
    BY <2>1 DEF Admitted, InTransaction, WrongParties, Parties, Input
<1>2. UserRow(a) \in held[r] /\ WalletRow(a) \in held[r]
  BY PlanOfMoney DEF Locks, LocksHeld, InTransaction
<1>. QED
  BY <1>1, <1>2 DEF EntitiesCurrent

(* A block that has committed stops every balance of the account, including *)
(* the transfers and fundings that were already running.                    *)
THEOREM BlockedFrozen == Spec => BlockedAccountsFrozen
<1>1. Types /\ Locks /\ Known /\ EntitiesCurrent /\ [Next]_vars =>
        [\A a \in Account : status[a] = "BLOCKED" => balance'[a] = balance[a]]_vars
  <2> SUFFICES ASSUME Types, Locks, Known, EntitiesCurrent, [Next]_vars,
                      NEW a \in Account, balance'[a] # balance[a]
               PROVE  status[a] # "BLOCKED"
    OBVIOUS
  <2>1. PICK r \in Request : Step(r)
    BY StepCases DEF vars, ledger
  <2>2. Commit(r) /\ a \in dirty[r] /\ pc[r] = "commit"
    BY <2>1, CommitEffect DEF Commit
  <2>3. req[r].op \in MoneyOp /\ BothActive(r) /\ dirty[r] = Parties(req[r])
    BY <2>2 DEF Known, Knows, Judged
  <2>4. users[r][a] = status[a]
    BY <2>2, <2>3, DecidedOnCommitted
  <2>. QED
    BY <2>2, <2>3, <2>4 DEF BothActive
<1>. QED
  BY <1>1, TypesInvariant, LocksInvariant, KnowsInvariant, NoLostUpdate, PTL
     DEF Spec, BlockedAccountsFrozen

--------------------------------------------------------------------------------
(* Replies.                                                                 *)

(* What a client was told is what the table says of its key.                *)
Truthful(p) ==
  \E t \in records :
    /\ SameKey(t.input, p.input)
    /\ p = IF Fingerprint(t.input) = Fingerprint(p.input)
           THEN Presented(t, p.input) ELSE KeyReused(p.input)

Told == /\ \A p \in replies : Truthful(p)
        /\ \A t \in records : t.status # "PENDING"

(* The only steps that answer a client about its key.                       *)
LEMMA RepliesStep ==
  ASSUME Known, NEW r \in Request, Step(r)
  PROVE  /\ replies' = replies \/ records' = records
         /\ \A p \in replies' \ replies : Truthful(p) /\ p.input = req[r]
<1> USE DEF GoTo, ledger
<1>1. CASE Answer(r)
  <2>1. replies' = replies \cup {Presented(t, req[r]) : t \in current[r]} /\ records' = records
    BY <1>1 DEF Answer
  <2>2. \A t \in current[r] : t \in records /\ Retries(t.input, req[r])
    BY <1>1 DEF Answer, Known, Knows, Replayed
  <2>3. \A t \in current[r] : /\ Truthful(Presented(t, req[r]))
                              /\ Presented(t, req[r]).input = req[r]
    BY <2>2 DEF Truthful, Presented, Retries
  <2>. QED
    BY <2>1, <2>3
<1>2. CASE Abort(r) /\ RefuseReuse(r)
  <2>1. PICK t \in records : /\ SameKey(t.input, req[r])
                             /\ Fingerprint(t.input) # Fingerprint(req[r])
    BY <1>2 DEF RefuseReuse, Matches
  <2>2. replies' = replies \cup {KeyReused(req[r])} /\ records' = records
    BY <1>2 DEF RefuseReuse, Rollback
  <2>3. Truthful(KeyReused(req[r])) /\ KeyReused(req[r]).input = req[r]
    BY <2>1 DEF Truthful, KeyReused
  <2>. QED
    BY <2>2, <2>3
<1>3. \A x : LockRow(r, x) => replies' = replies
  BY DEF LockRow
<1>4. CASE ~Answer(r) /\ ~(Abort(r) /\ RefuseReuse(r))
  <2>1. replies' = replies
    BY <1>3, <1>4 DEF Step, Send, Resend, Admit, BeginTransaction, Replay, InsertTransfer,
        FindNoFunding, InsertFunding, FailBlocked, FailInsufficient, SaveOutcome, MoveFunds,
        Complete, SaveStatus, Commit, Abort, Rollback
  <2>. QED
    BY <2>1
<1>. QED
  BY <1>1, <1>2, <1>4

(* An answer that was true stays true, and each new answer is true of a     *)
(* committed row.                                                           *)
LEMMA ToldStep ==
  ASSUME Types, Known, Keys, Told, NEW r \in Request, Step(r) PROVE Told'
<1>1. records \subseteq records' /\ \A t \in records' : t.status # "PENDING"
  <2>1. CASE records' = records
    BY <2>1 DEF Told
  <2>2. CASE records' # records
    <3>1. PICK s \in Outcome : records' = records \cup {NewRow(r, s)}
      BY <2>2, RecordsGrow, CommitRow DEF Keys
    <3>. QED
      BY <3>1 DEF Told, NewRow, Outcome, FailureCode
  <2>. QED
    BY <2>1, <2>2
<1>2. ASSUME NEW p, Truthful(p) PROVE Truthful(p)'
  BY <1>1, <1>2 DEF Truthful
<1>3. \A p \in replies' : Truthful(p)
  BY RepliesStep DEF Told
<1>. QED
  BY <1>1, <1>2, <1>3 DEF Told

(* The last layer: whatever a client has been told is read from a committed *)
(* row of its key, and every committed row has an outcome.                  *)
THEOREM ToldInvariant == Spec => []Told
<1>1. Init => Told
  BY DEF Init, Told
<1>2. Types /\ Known /\ Keys /\ Told /\ [Next]_vars => Told'
  <2> SUFFICES ASSUME Types, Known, Keys, Told, [Next]_vars PROVE Told'
    OBVIOUS
  <2>1. CASE UNCHANGED vars
    BY <2>1 DEF vars, ledger, Told, Truthful
  <2>. QED
    BY <2>1, StepCases, ToldStep
<1>. QED
  BY <1>1, <1>2, TypesInvariant, KnowsInvariant, KeysInvariant, PTL DEF Spec

(* Every retry of a request, however many and whenever they run, is told    *)
(* the same reference and the same outcome.                                 *)
THEOREM RetriesAnsweredAlike == Spec => []RetriesAgree
<1>1. Keys /\ Told => RetriesAgree
  <2> SUFFICES ASSUME Keys, Told, NEW p \in replies, NEW q \in replies,
                      Retries(p.input, q.input)
               PROVE  p.ref = q.ref /\ p.status = q.status
    BY DEF RetriesAgree
  <2>1. PICK t \in records :
          /\ SameKey(t.input, p.input)
          /\ p = IF Fingerprint(t.input) = Fingerprint(p.input)
                 THEN Presented(t, p.input) ELSE KeyReused(p.input)
    BY DEF Told, Truthful
  <2>2. PICK u \in records :
          /\ SameKey(u.input, q.input)
          /\ q = IF Fingerprint(u.input) = Fingerprint(q.input)
                 THEN Presented(u, q.input) ELSE KeyReused(q.input)
    BY DEF Told, Truthful
  <2>3. t = u /\ Fingerprint(p.input) = Fingerprint(q.input)
    BY <2>1, <2>2 DEF Keys, OnePerKey, SameKey, Retries
  <2>. QED
    BY <2>1, <2>2, <2>3 DEF Presented, KeyReused
<1>. QED
  BY <1>1, KeysInvariant, ToldInvariant, PTL

(* No transfer is ever seen unfinished.                                     *)
THEOREM NeverPending == Spec => []NothingPending
<1>1. Told => NothingPending
  BY DEF Told, Truthful, NothingPending, Presented, KeyReused
<1>. QED
  BY <1>1, ToldInvariant, PTL

--------------------------------------------------------------------------------
(* The implementation of AtomicLedger.                                      *)

(* The commit of a successful movement is the atomic one.                   *)
LEMMA CommitMoney ==
  ASSUME Types, Locks, Known, EntitiesCurrent, Keys, NEW r \in Request, Commit(r),
         req[r].op \in MoneyOp, Matches(r) = {},
         \A t \in records : t.ref # <<r, attempt[r]>>,
         NEW s \in Outcome, Judged(r, s), records' = records \cup {NewRow(r, s)}
  PROVE  Atomic!Next
<1> DEFINE i   == req[r]
           ref == <<r, attempt[r]>>
<1>1. /\ pc[r] = "commit" /\ i \in Workload /\ i \in Input /\ i.valid /\ ref \in Reference
      /\ i.op = "transfer" => i.peer \in Account \ {i.user}
  <2>1. TypeOK /\ Admitted(r) /\ i \in Workload /\ i \in Input
    BY WorkloadAssumption DEF Types, TypeOK
  <2>2. pc[r] = "commit" /\ attempt[r] \in Attempt
    BY <2>1 DEF Commit, Admitted
  <2>. QED
    BY <2>1, <2>2, ConcurrencyAssumption DEF Admitted, InTransaction, Malformed, WrongParties
<1>2. /\ status' = status /\ blockedBy' = blockedBy /\ replies' = replies
      /\ balance' = [a \in Account |-> IF a \in dirty[r] THEN wallets[r][a] ELSE balance[a]]
  BY DEF Commit, MoneyOp
<1>3. \A a \in Parties(i) : /\ a \in Account /\ users[r][a] = status[a]
                            /\ wallets[r][a] = balance[a] +
                                 (IF a \in dirty[r] THEN Moves(i, a) ELSE 0)
  BY <1>1, DecidedOnCommitted
<1>4. \A a \in Account : balance[a] \in Amount /\ balance[a] \in Int /\ balance'[a] \in Amount
  <2>1. TypeOK /\ TypeOK'
    BY TypeStep DEF Types, Step
  <2>. QED
    BY <2>1, BalanceAssumption DEF TypeOK, Amount
<1>5. Atomic!Unused(ref, i)
  BY DEF Atomic!Unused, Atomic!SameKey, Matches, SameKey
<1>6. BothActive(r) <=> \A a \in Parties(i) : status[a] = "ACTIVE"
  BY <1>3 DEF BothActive
<1>7. i.user \in Account /\ i.user \in Parties(i) /\ i.amount \in Int
  BY <1>1, BalanceAssumption DEF Input, Parties, Amount
<1>8. CASE i.op = "fund"
  <2>1. s = "SUCCEEDED" /\ BothActive(r) /\ dirty[r] = Parties(i) /\ Parties(i) = {i.user}
    BY <1>8 DEF Judged, Parties
  <2>2. Moves(i, i.user) = i.amount
    BY <1>7, <1>8 DEF Moves
  <2>3. balance' = [balance EXCEPT ![i.user] = @ + i.amount]
    BY <1>2, <1>3, <1>7, <2>1, <2>2 DEF Types, TypeOK
  <2>4. balance[i.user] + i.amount <= MaxBalance
    BY <1>4, <1>7, <2>3, BalanceAssumption DEF Types, TypeOK, Amount
  <2>5. Atomic!Fund(i, ref)
    BY <1>2, <1>5, <1>6, <1>7, <1>8, <2>1, <2>3, <2>4 DEF Atomic!Fund, NewRow
  <2>. QED
    BY <1>1, <2>5 DEF Atomic!Next
<1>9. CASE i.op = "transfer"
  <2>1. Moves(i, i.user) = 0 - i.amount
    BY <1>1, <1>7, <1>9 DEF Moves
  <2>2. s = Atomic!TransferOutcome(i)
    <3>1. s = "SUCCEEDED" => balance[i.user] >= i.amount
      <4>1. s = "SUCCEEDED" => i.user \in dirty[r]
        BY <1>7 DEF Judged
      <4>2. s = "SUCCEEDED" => balance'[i.user] = balance[i.user] - i.amount
        BY <1>2, <1>3, <1>4, <1>7, <2>1, <4>1
      <4>. QED
        BY <1>4, <1>7, <4>2 DEF Amount
    <3>2. s = "INSUFFICIENT_FUNDS" => balance[i.user] < i.amount
      BY <1>3, <1>4, <1>7 DEF Judged, Covered
    <3>. QED
      BY <1>6, <1>9, <3>1, <3>2, <1>4, <1>7
         DEF Judged, Atomic!TransferOutcome, Atomic!Parties, Parties
  <2>3. \A a \in Account : balance'[a] = balance[a] + Delta(NewRow(r, s), a)
    <3>1. CASE s = "SUCCEEDED"
      <4>1. \A a \in Account : Delta(NewRow(r, s), a) = Moves(i, a)
        BY <3>1 DEF Delta, NewRow
      <4>2. \A a \in Account \ Parties(i) : Moves(i, a) = 0
        BY <1>7, <1>9 DEF Moves, Parties
      <4>3. dirty[r] = Parties(i)
        BY <3>1 DEF Judged
      <4>. QED
        BY <1>2, <1>3, <1>4, <4>1, <4>2, <4>3
    <3>2. CASE s # "SUCCEEDED"
      <4>1. dirty[r] = {} /\ \A a \in Account : Delta(NewRow(r, s), a) = 0
        BY <3>2 DEF Judged, Delta, NewRow
      <4>. QED
        BY <1>2, <1>4, <4>1
    <3>. QED
      BY <3>1, <3>2
  <2>4. balance' = [a \in Account |-> balance[a] + Atomic!Delta(NewRow(r, s), a)]
    BY <1>2, <2>3 DEF Atomic!Delta, Atomic!Moves, Delta, Moves
  <2>5. NewRow(r, s) = [ref |-> ref, input |-> i, status |-> Atomic!TransferOutcome(i)]
    BY <2>2 DEF NewRow
  <2>6. Atomic!Transfer(i, ref)
    BY <1>1, <1>2, <1>4, <1>5, <1>9, <2>4, <2>5 DEF Atomic!Transfer, Atomic!Amount, Amount
  <2>. QED
    BY <1>1, <2>6 DEF Atomic!Next
<1>. QED
  BY <1>8, <1>9 DEF MoneyOp

(* An answer about a key is an answer of AtomicLedger.                      *)
LEMMA AnswerRefines ==
  ASSUME Types, Known, NEW r \in Request, Step(r), replies' # replies
  PROVE  Atomic!Next
<1> DEFINE Reported(t) == IF Fingerprint(t.input) = Fingerprint(req[r])
                          THEN Presented(t, req[r]) ELSE KeyReused(req[r])
<1> USE DEF GoTo, ledger
<1>0. req[r] \in Workload /\ Admitted(r) /\ Knows(r)
  BY DEF Types, TypeOK, Known
<1>1. ASSUME req[r].valid, UNCHANGED <<balance, status, blockedBy, records>>,
             NEW t \in records, SameKey(t.input, req[r]), replies' = replies \cup {Reported(t)}
      PROVE  Atomic!Next
  <2>1. Atomic!Answer(req[r])
    BY <1>1 DEF Atomic!Answer, Atomic!SameKey, SameKey, Atomic!Fingerprint, Fingerprint,
                Atomic!Presented, Presented, Atomic!KeyReused, KeyReused
  <2>. QED
    BY <1>0, <1>1, <2>1 DEF Atomic!Next
<1>2. CASE Answer(r)
  <2>1. PICK t \in records : current[r] = {t} /\ Retries(t.input, req[r])
    BY <1>0, <1>2 DEF Answer, Knows, Replayed
  <2>2. Reported(t) = Presented(t, req[r])
    BY <2>1 DEF Retries
  <2>3. replies' = replies \cup {Reported(t)}
    BY <1>2, <2>1, <2>2 DEF Answer
  <2>4. req[r].valid
    BY <1>0, <1>2 DEF Answer, Admitted, Malformed
  <2>. QED
    BY <1>1, <1>2, <2>1, <2>3, <2>4 DEF Answer, Retries
<1>3. CASE RefuseReuse(r)
  <2>1. PICK t \in records : /\ SameKey(t.input, req[r])
                             /\ Fingerprint(t.input) # Fingerprint(req[r])
    BY <1>3 DEF RefuseReuse, Matches
  <2>2. req[r].valid
    BY <1>0, <1>3 DEF RefuseReuse, AllLocked, Admitted, InTransaction, Malformed
  <2>. QED
    BY <1>1, <1>3, <2>1, <2>2 DEF RefuseReuse, Rollback
<1>4. \A x : LockRow(r, x) => replies' = replies
  BY DEF LockRow
<1>5. Answer(r) \/ RefuseReuse(r)
  BY <1>4 DEF Step, Send, Resend, Admit, BeginTransaction, Replay, InsertTransfer,
      FindNoFunding, InsertFunding, FailBlocked, FailInsufficient, SaveOutcome, MoveFunds,
      Complete, SaveStatus, Commit, Abort
<1>. QED
  BY <1>2, <1>3, <1>5

(* A commit is a transfer, a funding or a status change of AtomicLedger, or *)
(* changes nothing there (a replay).                                        *)
LEMMA CommitRefines ==
  ASSUME Types, Locks, Known, EntitiesCurrent, Keys, NEW r \in Request, Commit(r)
  PROVE  Atomic!Next \/ UNCHANGED ledger
<1>0. TypeOK /\ Admitted(r) /\ Knows(r) /\ req[r] \in Input /\ pc[r] = "commit"
  BY WorkloadAssumption DEF Types, TypeOK, Known, Commit
<1>1. CASE req[r].op \in StatusOp
  <2>1. current[r] = {} /\ dirty[r] = {}
    BY <1>0, <1>1 DEF Knows, MoneyOp, StatusOp
  <2>2. UNCHANGED <<balance, records, replies>>
    BY <1>0, <2>1 DEF Commit, TypeOK
  <2>3. /\ req[r].valid /\ req[r].user \in Admin /\ req[r].peer \in Account
        /\ req[r].op = "block" => req[r].peer # req[r].user
    BY <1>0, <1>1 DEF Admitted, InTransaction, Malformed, WrongParties, StatusOp
  <2>4. Atomic!SetStatus(req[r])
    BY <1>1, <2>2, <2>3 DEF Atomic!SetStatus, Atomic!StatusOp, StatusOp, Commit
  <2>. QED
    BY <1>0, <2>3, <2>4 DEF Atomic!Next, TypeOK
<1>2. CASE req[r].op \in MoneyOp /\ Replayed(r) /\ dirty[r] = {}
  BY <1>0, <1>2 DEF Commit, Replayed, MoneyOp, ledger, TypeOK
<1>3. ASSUME req[r].op \in MoneyOp, ~Replayed(r) \/ dirty[r] # {} PROVE Atomic!Next
  <2>1. PICK s \in Outcome : current[r] = {NewRow(r, s)} /\ Judged(r, s)
    BY <1>0, <1>3 DEF Knows, MoneyOp, StatusOp
  <2>2. records' = records \cup {NewRow(r, s)}
    BY <2>1 DEF Commit
  <2>3. NewRow(r, s).ref = <<r, attempt[r]>>
    BY DEF NewRow
  <2>4. \A t \in records : t.ref # <<r, attempt[r]>>
    BY <1>0 DEF Keys, RefsSpent, Spent
  <2>5. Matches(r) = {}
    BY <1>0, <2>1, <2>3, <2>4 DEF Keys, KeysFree, Uncommitted
  <2>. QED
    BY <1>3, <2>1, <2>2, <2>4, <2>5, CommitMoney
<1>. QED
  BY <1>0, <1>1, <1>2, <1>3 DEF Input

(* A step of the service is one of AtomicLedger, or leaves its tables and   *)
(* its answers alone.                                                       *)
LEMMA StepRefines ==
  Types /\ Locks /\ Known /\ EntitiesCurrent /\ Keys /\ [Next]_vars =>
    [Atomic!Next]_(Atomic!ledger)
<1> SUFFICES ASSUME Types, Locks, Known, EntitiesCurrent, Keys, [Next]_vars
             PROVE  Atomic!Next \/ UNCHANGED ledger
  BY DEF ledger, Atomic!ledger
<1>1. CASE UNCHANGED vars
  BY <1>1 DEF vars
<1>2. ASSUME NEW r \in Request, Step(r) PROVE Atomic!Next \/ UNCHANGED ledger
  <2>1. CASE Commit(r)
    BY <2>1, CommitRefines
  <2>2. CASE ~Commit(r) /\ replies' = replies
    <3>1. UNCHANGED <<balance, status, blockedBy, records>>
      BY <1>2, <2>2, TablesFrame
    <3>. QED
      BY <2>2, <3>1 DEF ledger
  <2>3. CASE replies' # replies
    BY <1>2, <2>3, AnswerRefines
  <2>. QED
    BY <2>1, <2>2, <2>3
<1>. QED
  BY <1>1, <1>2, StepCases

(* Every behaviour of the service, with all its interleavings, crashes,     *)
(* deadlocks and retries, is one of AtomicLedger as far as its tables and   *)
(* its answers go.                                                          *)
THEOREM Serializable == Spec => ActsAtomically
<1>1. Init => Atomic!Init
  BY DEF Init, Atomic!Init
<1>. QED
  BY <1>1, StepRefines, TypesInvariant, LocksInvariant, KnowsInvariant, NoLostUpdate,
     KeysInvariant, PTL DEF Spec, ActsAtomically, Atomic!Spec
================================================================================
