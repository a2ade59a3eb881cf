-------------------------- MODULE WalletLedgerDeadlock --------------------------
(****************************************************************************)
(* Transfers and fundings never deadlock: the locks that a transaction has  *)
(* rank below the one it waits for, so along a circle of waiting            *)
(* transactions ranks would grow without end.  A block breaks the order:    *)
(* its foreign key takes a second user row, of any rank.                    *)
(****************************************************************************)
EXTENDS WalletLedgerProofs, WellFoundedInduction

(* Two locks of one plan never have the same rank.                          *)
LEMMA RanksDiffer ==
  ASSUME NEW i \in Workload, ~Malformed(i), ~WrongParties(i),
         NEW x \in LockPlan(i), NEW y \in LockPlan(i), Rank[x] <= Rank[y], x # y
  PROVE  Rank[x] < Rank[y]
<1>1. /\ i.op \in MoneyOp => i.key \in Key
      /\ i.user \in Account
  BY WorkloadAssumption DEF Malformed, Input
<1>2. i.op \in MoneyOp => Parties(i) \subseteq Account
  BY <1>1 DEF Parties, WrongParties
<1>3. Rank[x] \in Nat /\ Rank[y] \in Nat
  BY ResourceTypes, RankAssumption
<1>4. CASE i.op \in StatusOp
  BY <1>4 DEF LockPlan
<1>5. CASE i.op \notin StatusOp
  <2>1. i.op \in MoneyOp
    BY <1>5, WorkloadAssumption DEF Input
  <2>2. /\ x \in {UserRow(a) : a \in Parties(i)} \cup {WalletRow(a) : a \in Parties(i)}
                   \cup {AdvisoryLock(i.user, i.key)}
        /\ y \in {UserRow(a) : a \in Parties(i)} \cup {WalletRow(a) : a \in Parties(i)}
                   \cup {AdvisoryLock(i.user, i.key)}
    BY <1>5 DEF LockPlan
  <2>3. Rank[x] # Rank[y]
    <3>1. ASSUME NEW a \in Parties(i), NEW b \in Parties(i)
          PROVE  /\ a # b => /\ Rank[UserRow(a)] # Rank[UserRow(b)]
                             /\ Rank[WalletRow(a)] # Rank[WalletRow(b)]
                 /\ Rank[UserRow(a)] < Rank[WalletRow(b)]
                 /\ Rank[AdvisoryLock(i.user, i.key)] < Rank[UserRow(b)]
                 /\ Rank[UserRow(a)] \in Nat /\ Rank[WalletRow(a)] \in Nat
                 /\ Rank[AdvisoryLock(i.user, i.key)] \in Nat
      <4>1. a \in Account /\ b \in Account /\ i.key \in Key /\ i.user \in Account
        BY <1>1, <1>2, <2>1
      <4>2. UserRow(a) \in Resource /\ WalletRow(a) \in Resource
            /\ AdvisoryLock(i.user, i.key) \in Resource
        BY <4>1 DEF Resource
      <4>. QED
        BY <4>1, <4>2, RankAssumption
    <3>. QED
      BY <2>2, <3>1
  <2>. QED
    BY <1>3, <2>3
<1>. QED
  BY <1>4, <1>5

(* The discipline: locks are taken in the order of their ranks, and only    *)
(* between its last statement and its commit has a transaction a row that   *)
(* it did not lock that way.                                                *)
Ordered(r) ==
  /\ pc[r] = "locking" =>
       /\ held[r] \subseteq LockPlan(req[r])
       /\ \A x \in held[r], y \in LockPlan(req[r]) \ held[r] : Rank[x] < Rank[y]
  /\ pc[r] # "commit" => shared[r] = {}

AllOrdered == \A r \in Request : Ordered(r)

(* Every step of a request follows the discipline.                          *)
LEMMA OrderedStep ==
  ASSUME Types, Locks, NEW r \in Request, Ordered(r), Step(r) PROVE Ordered(r)'
<1> USE DEF GoTo, copies, ledger
<1>0. TypeOK /\ LocksHeld(r) /\ Admitted(r) /\ req[r] \in Workload
  BY DEF Types, Locks, TypeOK
<1>1. ASSUME NEW x \in LockPlan(req[r]), LockRow(r, x) PROVE Ordered(r)'
  <2>1. /\ pc[r] = "locking" /\ pc' = pc /\ req' = req /\ shared' = shared
        /\ held'[r] = held[r] \cup {x} /\ x \notin held[r]
        /\ \A y \in LockPlan(req[r]) \ held[r] : Rank[x] <= Rank[y]
    BY <1>0, <1>1 DEF LockRow, Wants, TypeOK
  <2>2. ~Malformed(req[r]) /\ ~WrongParties(req[r])
    BY <1>0, <2>1 DEF Admitted, InTransaction
  <2>3. \A y \in LockPlan(req[r]) \ held'[r] : Rank[x] < Rank[y]
    BY <1>0, <2>1, <2>2, RanksDiffer
  <2>. QED
    BY <2>1, <2>3 DEF Ordered
<1>2. CASE BeginTransaction(r)
  <2>1. pc[r] = "handler" /\ held' = held /\ shared' = shared
    BY <1>2 DEF BeginTransaction
  <2>2. held[r] = {}
    BY <1>0, <2>1 DEF LocksHeld, InTransaction
  <2>. QED
    BY <2>1, <2>2 DEF Ordered
<1>3. CASE Send(r) \/ Resend(r) \/ Admit(r)
  BY <1>0, <1>3 DEF Send, Resend, Admit, Ordered, TypeOK
<1>4. CASE Replay(r) \/ InsertTransfer(r) \/ FindNoFunding(r) \/ InsertFunding(r)
  BY <1>0, <1>4 DEF Replay, InsertTransfer, FindNoFunding, InsertFunding, Saved, AllLocked,
                    Ordered, TypeOK
<1>5. CASE FailBlocked(r) \/ FailInsufficient(r) \/ Complete(r) \/ MoveFunds(r)
  BY <1>0, <1>5 DEF FailBlocked, FailInsufficient, Complete, SaveOutcome, MoveFunds, Movable,
                    Ordered, TypeOK
<1>6. CASE SaveStatus(r)
  BY <1>0, <1>6 DEF SaveStatus, Ordered, TypeOK
<1>7. CASE Commit(r) \/ Abort(r)
  BY <1>0, <1>7 DEF Commit, Abort, Rollback, Leave, Ordered, TypeOK
<1>8. CASE Answer(r)
  BY <1>0, <1>8 DEF Answer, Ordered, TypeOK
<1>. QED
  BY <1>1, <1>2, <1>3, <1>4, <1>5, <1>6, <1>7, <1>8 DEF Step

(* Transactions take the locks of their plan in the order of their ranks:   *)
(* what a handler has ranks below all that it will still lock.              *)
THEOREM OrderedInvariant == Spec => []AllOrdered
<1>1. Init => AllOrdered
  BY DEF Init, AllOrdered, Ordered
<1>2. Types /\ Locks /\ AllOrdered /\ [Next]_vars => AllOrdered'
  <2> SUFFICES ASSUME Types, Locks, AllOrdered, [Next]_vars, NEW q \in Request
               PROVE  Ordered(q)'
    BY DEF AllOrdered
  <2>1. CASE UNCHANGED vars
    BY <2>1 DEF vars, AllOrdered, Ordered
  <2>2. ASSUME NEW r \in Request, Step(r) PROVE Ordered(q)'
    <3>1. CASE q = r
      BY <2>2, <3>1, OrderedStep DEF AllOrdered
    <3>2. CASE q # r
      BY <2>2, <3>2, Locality DEF AllOrdered, Ordered, Types
    <3>. QED
      BY <3>1, <3>2
  <2>. QED
    BY <2>1, <2>2, StepCases
<1>. QED
  BY <1>1, <1>2, TypesInvariant, LocksInvariant, PTL DEF Spec

(* No insert ever waits for an uncommitted row of its key: whoever inserted *)
(* that row has the wallet both of them need.                               *)
LEMMA NoInsertWait ==
  ASSUME Types, Locks, Known, NEW r \in Request, NEW q \in Request, q # r, Inserting(r)
  PROVE  ~HasInserted(q, req[r])
<1> SUFFICES ASSUME NEW t \in current[q] \ records, SameKey(t.input, req[r]) PROVE FALSE
  BY DEF HasInserted
<1>0. Knows(q) /\ Knows(r) /\ Admitted(q) /\ Admitted(r) /\ LocksHeld(q) /\ LocksHeld(r)
  BY DEF Known, Types, Locks
<1>1. /\ pc[q] \in InTransaction \ {"locking"} /\ t.input = req[q]
      /\ req[q].op \in MoneyOp
  <2>1. t \in current[q] /\ t \notin records /\ pc[q] \in Stage
    BY DEF Types, TypeOK
  <2>2. ~Replayed(q) /\ current[q] # {}
    BY <2>1 DEF Replayed
  <2>3. pc[q] \in {"decide", "complete", "credit", "commit"}
    BY <1>0, <2>1, <2>2 DEF Knows, Stage, InTransaction
  <2>4. \E s \in Outcome \cup {"PENDING"} : current[q] = {NewRow(q, s)}
    BY <1>0, <2>2, <2>3 DEF Knows, Outcome
  <2>5. req[q].op \in MoneyOp
    BY <1>0, <2>2, <2>3 DEF Knows, Admitted, MoneyOp
  <2>. QED
    BY <2>1, <2>3, <2>4, <2>5 DEF NewRow, InTransaction
<1>2. req[r].op \in MoneyOp /\ req[r].user = req[q].user
  BY <1>1 DEF SameKey
<1>3. LockPlan(req[r]) \subseteq held[r] /\ LockPlan(req[q]) \subseteq held[q]
  BY <1>0, <1>1 DEF Inserting, AllLocked, LocksHeld, InTransaction
<1>4. req[q].user \in Parties(req[q]) /\ req[q].user \in Parties(req[r])
  BY <1>2 DEF Parties
<1>5. WalletRow(req[q].user) \in held[q] \cap held[r]
  BY <1>1, <1>2, <1>3, <1>4, PlanOfMoney
<1>. QED
  BY <1>5 DEF Locks, Exclusive

(* The rank of what r waits for, counted down from a bound.                 *)
Below(n, S) == {n - Rank[x] : x \in {y \in Resource : \E r \in S : Wants(r, y)}}

(* Transactions without a block never wait in a circle: the one that waits  *)
(* for the highest rank would wait for somebody who waits for a higher one. *)
LEMMA NoCircle ==
  ASSUME Types, Locks, Known, AllOrdered, NEW S \in SUBSET Request, S # {},
         \A r \in S : \E q \in S : WaitsFor(r, q),
         \A r \in S : req[r].op # "block"
  PROVE  FALSE
<1>1. PICK n \in Nat : \A x \in Resource : Rank[x] <= n
  <2>1. PICK last \in Resource : \A x \in Resource : Rank[x] <= Rank[last]
    BY RankAssumption
  <2>. QED
    BY <2>1, RankAssumption
<1>2. ASSUME NEW r \in S
      PROVE  \E q \in S : \E x \in held[q] \cup shared[q] : q # r /\ Wants(r, x)
  <2>1. PICK q \in S : WaitsFor(r, q)
    OBVIOUS
  <2>2. ~ChecksActor(r)
    BY DEF ChecksActor
  <2>3. q # r /\ ~(Inserting(r) /\ HasInserted(q, req[r]))
    BY <2>1, NoInsertWait DEF WaitsFor
  <2>. QED
    BY <2>1, <2>2, <2>3 DEF WaitsFor
<1>3. \A r \in S : pc[r] = "locking" /\ shared[r] = {}
  BY <1>2 DEF Wants, AllOrdered, Ordered
<1>4. ASSUME NEW r \in S, NEW x, Wants(r, x)
      PROVE  x \in Resource /\ Rank[x] \in Nat /\ x \in LockPlan(req[r]) \ held[r]
  <2>1. req[r] \in Workload /\ ~Malformed(req[r]) /\ ~WrongParties(req[r])
    BY <1>3 DEF Types, TypeOK, Admitted, InTransaction
  <2>. QED
    BY <1>4, <2>1, ResourceTypes, RankAssumption DEF Wants
<1>5. ASSUME NEW r \in S, NEW x, Wants(r, x)
      PROVE  \E q \in S, y \in Resource : Wants(q, y) /\ Rank[x] < Rank[y]
  <2>1. PICK q \in S : \E z \in held[q] \cup shared[q] : q # r /\ Wants(r, z)
    BY <1>2
  <2>2. PICK z \in held[q] : Wants(r, z)
    BY <1>3, <2>1
  <2>3. PICK y : Wants(q, y)
    BY <1>2
  <2>4. Rank[z] < Rank[y]
    BY <1>3, <1>4, <2>2, <2>3 DEF AllOrdered, Ordered
  <2>5. Rank[x] <= Rank[z]
    BY <1>5, <2>2 DEF Wants
  <2>6. Rank[x] \in Nat /\ Rank[y] \in Nat /\ Rank[z] \in Nat /\ y \in Resource
    BY <1>4, <1>5, <2>2, <2>3
  <2>. QED
    BY <2>3, <2>4, <2>5, <2>6
<1>6. Below(n, S) \subseteq Nat /\ Below(n, S) # {}
  <2>1. \A x \in Resource : n - Rank[x] \in Nat
    BY <1>1, RankAssumption
  <2>2. \E r \in S : \E x \in Resource : Wants(r, x)
    BY <1>2, <1>4
  <2>. QED
    BY <2>1, <2>2 DEF Below
<1>7. \E m \in Below(n, S) : \A k \in Below(n, S) : ~(<<k, m>> \in OpToRel(<, Nat))
  BY <1>6, NatLessThanWellFounded, WFMin
<1>8. PICK m \in Below(n, S) : \A k \in Below(n, S) : ~(k < m)
  BY <1>6, <1>7 DEF OpToRel
<1>9. PICK r \in S, x \in Resource : Wants(r, x) /\ m = n - Rank[x]
  BY <1>8 DEF Below
<1>10. PICK q \in S, y \in Resource : Wants(q, y) /\ Rank[x] < Rank[y]
  BY <1>5, <1>9
<1>11. n - Rank[y] \in Below(n, S) /\ n - Rank[y] < m
  BY <1>9, <1>10, RankAssumption DEF Below
<1>. QED
  BY <1>8, <1>11

(* However many transfers, fundings and unblocks run, some one of any set   *)
(* of them waits for nobody in it: a deadlock needs a block.                *)
THEOREM DeadlockNeedsBlock == Spec => []NoMoneyDeadlock
<1>1. Types /\ Locks /\ Known /\ AllOrdered => NoMoneyDeadlock
  BY NoCircle DEF NoMoneyDeadlock
<1>. QED
  BY <1>1, TypesInvariant, LocksInvariant, KnowsInvariant, OrderedInvariant, PTL
================================================================================
