--------------------------- MODULE WalletLedgerTotals ---------------------------
(****************************************************************************)
(* Theorems about the sums over the tables of WalletLedger: each balance is *)
(* accounted for by the recorded rows, and all of them together change only *)
(* by what is funded.                                                       *)
(****************************************************************************)
EXTENDS WalletLedgerProofs, Foundations

(* What a step does to the balances and the rows: nothing, or it adds one   *)
(* row, of a request that was accepted, and the amounts which it moves.     *)
Accepted(i) ==
  /\ i.op \in MoneyOp
  /\ i.op = "transfer" => i.peer \in Account \ {i.user}

Books(t) ==
  /\ t \in Row \ records /\ Accepted(t.input)
  /\ records' = records \cup {t}
  /\ balance' = [a \in Account |-> balance[a] + Delta(t, a)]

Bookkeeping == (\E t \in Row : Books(t)) \/ UNCHANGED <<balance, records>>

(* The layers of the safety proof, which StepRefines needs together.        *)
Layers == Types /\ Locks /\ Known /\ EntitiesCurrent /\ Keys

(* What a row moves is an integer amount.                                   *)
LEMMA DeltaType ==
  ASSUME NEW t \in Row, NEW a \in Account
  PROVE  Delta(t, a) \in Int
<1>1. t.input \in Input
  BY DEF Row
<1> QED BY <1>1, BalanceAssumption DEF Delta, Moves, Input, Amount

(* Every step books one accepted row, or none: the step of AtomicLedger to  *)
(* which it maps says so.                                                   *)
LEMMA StepsBook == Layers /\ [Next]_vars => Bookkeeping
<1> SUFFICES ASSUME Layers, [Next]_vars PROVE Bookkeeping
  OBVIOUS
<1>0. balance \in [Account -> Amount] /\ Amount \subseteq Int /\ Workload \subseteq Input
  BY BalanceAssumption, WorkloadAssumption DEF Layers, Types, TypeOK, Amount
<1>1. Atomic!Next \/ UNCHANGED ledger
  BY StepRefines DEF Layers, ledger, Atomic!ledger
<1>2. CASE UNCHANGED ledger
  BY <1>2 DEF ledger, Bookkeeping
<1>3. ASSUME NEW i \in Workload, NEW ref \in Reference, Atomic!Transfer(i, ref)
      PROVE  Bookkeeping
  <2>1. PICK t : t = [ref |-> ref, input |-> i, status |-> Atomic!TransferOutcome(i)]
    OBVIOUS
  <2>2. t \in Row /\ t.ref = ref /\ t.input = i
    BY <1>0, <2>1 DEF Row, Outcome, FailureCode, Atomic!TransferOutcome
  <2>3. t \notin records
    BY <1>3, <2>2 DEF Atomic!Transfer, Atomic!Unused
  <2>4. records' = records \cup {t} /\ balance' = [a \in Account |-> balance[a] + Delta(t, a)]
    BY <1>3, <2>1 DEF Atomic!Transfer, Atomic!Delta, Atomic!Moves, Delta, Moves
  <2>5. Accepted(t.input)
    BY <1>3, <2>2 DEF Atomic!Transfer, Accepted, MoneyOp
  <2> QED BY <2>2, <2>3, <2>4, <2>5 DEF Bookkeeping, Books
<1>4. ASSUME NEW i \in Workload, NEW ref \in Reference, Atomic!Fund(i, ref)
      PROVE  Bookkeeping
  <2>1. PICK t : t = [ref |-> ref, input |-> i, status |-> "SUCCEEDED"]
    OBVIOUS
  <2>2. t \in Row /\ t.ref = ref /\ t.input = i /\ t.status = "SUCCEEDED"
    BY <1>0, <2>1 DEF Row, Outcome
  <2>3. t \notin records /\ i.op = "fund"
    BY <1>4, <2>2 DEF Atomic!Fund, Atomic!Unused
  <2>4. records' = records \cup {t}
    BY <1>4, <2>1 DEF Atomic!Fund
  <2>5. i.user \in Account /\ i.amount \in Int
    BY <1>0 DEF Input, Amount
  <2>6. \A a \in Account : Delta(t, a) = IF a = i.user THEN i.amount ELSE 0
    BY <2>2, <2>3, <2>5 DEF Delta, Moves
  <2>7. balance' = [balance EXCEPT ![i.user] = @ + i.amount]
    BY <1>4 DEF Atomic!Fund
  <2>8. balance' = [a \in Account |-> balance[a] + Delta(t, a)]
    <3>1. balance' = [a \in Account |-> IF a = i.user THEN balance[a] + i.amount ELSE balance[a]]
      BY <1>0, <2>7
    <3>2. \A a \in Account : balance[a] \in Int
      BY <1>0
    <3>3. \A a \in Account : (IF a = i.user THEN balance[a] + i.amount ELSE balance[a])
                               = balance[a] + Delta(t, a)
      BY <2>5, <2>6, <3>2
    <3> QED BY <3>1, <3>3
  <2> QED BY <2>2, <2>3, <2>4, <2>8 DEF Bookkeeping, Books, Accepted, MoneyOp
<1>5. CASE \E i \in Workload : Atomic!SetStatus(i) \/ Atomic!Answer(i)
  BY <1>5 DEF Atomic!SetStatus, Atomic!Answer, Bookkeeping
<1> QED BY <1>1, <1>2, <1>3, <1>4, <1>5 DEF Atomic!Next

(* They hold of every reachable state.                                      *)
LEMMA LayersInvariant == Spec => []Layers
BY TypesInvariant, LocksInvariant, KnowsInvariant, NoLostUpdate, KeysInvariant, PTL
   DEF Layers

(* A balance is what it was at first, plus and minus the amounts of the     *)
(* rows that say SUCCEEDED, after any number of transfers, fundings, lost   *)
(* connections and deadlocks.                                               *)
Reconciled == IsFiniteSet(records) /\ LedgerReconciles

(* One more row, and what it moves, leave every account reconciled.         *)
LEMMA ReconciledStep == Layers /\ Reconciled /\ Bookkeeping => Reconciled'
<1> SUFFICES ASSUME Layers, Reconciled, Bookkeeping PROVE Reconciled'
  OBVIOUS
<1>0. /\ balance \in [Account -> Amount] /\ Amount \subseteq Int /\ records \subseteq Row
      /\ OpeningBalance \in [Account -> Amount]
  BY BalanceAssumption DEF Layers, Types, TypeOK, Amount
<1>1. CASE UNCHANGED <<balance, records>>
  BY <1>1 DEF Reconciled, LedgerReconciles
<1>2. ASSUME NEW t \in Row, Books(t) PROVE Reconciled'
  <2>1. IsFiniteSet(records')
    BY <1>2, FS_AddElement DEF Books, Reconciled
  <2>2. ASSUME NEW a \in Account
        PROVE  balance'[a] = OpeningBalance[a] + SumFunction([u \in records' |-> Delta(u, a)])
    <3>1. PICK f : f = [u \in records |-> Delta(u, a)]
      OBVIOUS
    <3>2. PICK e : e = [u \in records' |-> Delta(u, a)]
      OBVIOUS
    <3>3. t \notin DOMAIN f /\ DOMAIN e = DOMAIN f \cup {t} /\ e[t] = Delta(t, a)
      BY <1>2, <3>1, <3>2 DEF Books
    <3>4. \A u \in DOMAIN f : f[u] = e[u]
      BY <1>2, <3>1, <3>2 DEF Books
    <3>5. Summable(e, DOMAIN e)
      BY <1>0, <1>2, <2>1, <3>2, DeltaType DEF Summable, Books
    <3>6. SumFunction(e) = SumFunction(f) + Delta(t, a)
      BY <3>3, <3>4, <3>5, SumExtended
    <3>7. SumFunction(f) \in Int
      <4>1. Summable(f, DOMAIN f)
        BY <1>0, <3>1, DeltaType DEF Summable, Reconciled
      <4> QED BY <4>1, SumType DEF SumFunction
    <3>8. balance[a] = OpeningBalance[a] + SumFunction(f)
      BY <3>1 DEF Reconciled, LedgerReconciles
    <3>9. balance'[a] = balance[a] + Delta(t, a) /\ Delta(t, a) \in Int
      BY <1>2, DeltaType DEF Books
    <3>10. OpeningBalance[a] \in Int
      BY <1>0
    <3>11. balance'[a] = OpeningBalance[a] + SumFunction(e)
      BY <3>6, <3>7, <3>8, <3>9, <3>10
    <3> QED BY <3>2, <3>11
  <2> QED BY <2>1, <2>2 DEF Reconciled, LedgerReconciles
<1> QED BY <1>1, <1>2 DEF Bookkeeping

(* Every balance is accounted for by the recorded rows, in every reachable  *)
(* state.                                                                   *)
THEOREM BalancesReconcile == Spec => []LedgerReconciles
<1>1. Init => Reconciled
  <2> SUFFICES ASSUME Init PROVE Reconciled
    OBVIOUS
  <2>1. records = {} /\ balance = OpeningBalance
    BY DEF Init
  <2>2. \A a \in Account : SumFunction([t \in records |-> Delta(t, a)]) = 0
    BY <2>1, SumEmpty DEF SumFunction
  <2>3. \A a \in Account : OpeningBalance[a] \in Int
    BY BalanceAssumption DEF Amount
  <2> QED BY <2>1, <2>2, <2>3, FS_EmptySet DEF Reconciled, LedgerReconciles
<1>2. Layers /\ Reconciled /\ [Next]_vars => Reconciled'
  BY StepsBook, ReconciledStep
<1>3. Reconciled => LedgerReconciles
  BY DEF Reconciled
<1> QED BY <1>1, <1>2, <1>3, LayersInvariant, PTL DEF Spec

--------------------------------------------------------------------------------
(* Conservation.                                                            *)

Conserved == IsFiniteSet(records) /\ MoneyConserved

(* What a recorded row moves stays among the wallets, unless it was funded. *)
LEMMA NetOfRow ==
  ASSUME NEW t \in Row, Accepted(t.input), NEW f, Summable(f, Account), NEW e,
         \A a \in Account : e[a] = f[a] + Delta(t, a)
  PROVE  SumFunctionOnSet(e, Account) = SumFunctionOnSet(f, Account) + Funded(t)
<1>0. /\ \A a \in Account : f[a] \in Int /\ Delta(t, a) \in Int
      /\ IsFiniteSet(Account) /\ SumFunctionOnSet(f, Account) \in Int
  BY DeltaType, SumType DEF Summable
<1>1. Summable(e, Account)
  BY <1>0 DEF Summable
<1>2. PICK x \in Account : x = t.input.user
  BY DEF Row, Input
<1>3. t.input.amount \in Int
  BY BalanceAssumption DEF Row, Input, Amount
<1>4. CASE t.status # "SUCCEEDED"
  <2>1. Funded(t) = 0 /\ \A a \in Account : Delta(t, a) = 0
    BY <1>4 DEF Funded, Delta
  <2>2. \A a \in Account : f[a] = e[a]
    BY <1>0, <2>1
  <2>3. SumFunctionOnSet(f, Account) = SumFunctionOnSet(e, Account)
    BY <2>2, SumCongruence
  <2> QED BY <1>0, <2>1, <2>3
<1>5. CASE t.status = "SUCCEEDED" /\ t.input.op = "fund"
  <2>1. Funded(t) = t.input.amount /\ Delta(t, x) = t.input.amount
    BY <1>2, <1>3, <1>5 DEF Funded, Delta, Moves
  <2>2. \A a \in Account \ {x} : Delta(t, a) = 0
    BY <1>2, <1>5 DEF Delta, Moves
  <2>3. \A a \in Account \ {x} : f[a] = e[a]
    BY <1>0, <2>2
  <2>4. SumFunctionOnSet(e, Account) = SumFunctionOnSet(f, Account) - f[x] + e[x]
    BY <1>1, <2>3, SumChangedAt
  <2>5. e[x] = f[x] + t.input.amount
    BY <2>1
  <2> QED BY <1>0, <1>3, <2>1, <2>4, <2>5
<1>6. CASE t.status = "SUCCEEDED" /\ t.input.op = "transfer"
  <2>1. PICK y \in Account : y = t.input.peer /\ x # y
    BY <1>2, <1>6 DEF Accepted
  <2>2. Funded(t) = 0 /\ Delta(t, x) = 0 - t.input.amount /\ Delta(t, y) = t.input.amount
    BY <1>2, <1>3, <1>6, <2>1 DEF Funded, Delta, Moves
  <2>3. \A a \in Account \ {x, y} : Delta(t, a) = 0
    BY <1>2, <1>6, <2>1 DEF Delta, Moves
  <2>4. \A a \in Account \ {x, y} : f[a] = e[a]
    BY <1>0, <2>3
  <2>5. SumFunctionOnSet(e, Account) =
          SumFunctionOnSet(f, Account) - f[x] + e[x] - f[y] + e[y]
    BY <1>1, <2>1, <2>4, SumChangedAtTwo
  <2>6. e[x] = f[x] + (0 - t.input.amount) /\ e[y] = f[y] + t.input.amount
    BY <2>2
  <2> QED BY <1>0, <1>3, <2>2, <2>5, <2>6
<1> QED BY <1>4, <1>5, <1>6 DEF Accepted, MoneyOp

(* One more row adds to all balances together what it funded.               *)
LEMMA ConservedStep == Layers /\ Conserved /\ Bookkeeping => Conserved'
<1> SUFFICES ASSUME Layers, Conserved, Bookkeeping PROVE Conserved'
  OBVIOUS
<1>0. /\ balance \in [Account -> Amount] /\ Amount \subseteq Int /\ records \subseteq Row
      /\ OpeningBalance \in [Account -> Amount] /\ IsFiniteSet(Account)
  BY BalanceAssumption, FiniteAssumption DEF Layers, Types, TypeOK, Amount
<1>1. CASE UNCHANGED <<balance, records>>
  BY <1>1 DEF Conserved, MoneyConserved
<1>2. ASSUME NEW t \in Row, Books(t) PROVE Conserved'
  <2>1. IsFiniteSet(records')
    BY <1>2, FS_AddElement DEF Books, Conserved
  <2>2. SumFunction(balance') = SumFunction(balance) + Funded(t)
    <3>1. Summable(balance, Account)
      BY <1>0 DEF Summable
    <3>2. DOMAIN balance = Account /\ DOMAIN balance' = Account
      BY <1>0, <1>2 DEF Books
    <3>3. \A a \in Account : balance'[a] = balance[a] + Delta(t, a)
      BY <1>2 DEF Books
    <3>4. Accepted(t.input)
      BY <1>2 DEF Books
    <3>5. SumFunctionOnSet(balance', Account) = SumFunctionOnSet(balance, Account) + Funded(t)
      BY <3>1, <3>3, <3>4, NetOfRow
    <3> QED BY <3>2, <3>5 DEF SumFunction
  <2>3. \A u \in Row : Funded(u) \in Int
    BY BalanceAssumption DEF Funded, Row, Input, Amount
  <2>4. PICK f : f = [u \in records |-> Funded(u)]
    OBVIOUS
  <2>5. PICK e : e = [u \in records' |-> Funded(u)]
    OBVIOUS
  <2>6. /\ t \notin DOMAIN f /\ DOMAIN e = DOMAIN f \cup {t} /\ e[t] = Funded(t)
        /\ \A u \in DOMAIN f : f[u] = e[u]
    BY <1>2, <2>4, <2>5 DEF Books
  <2>7. Summable(f, DOMAIN f) /\ Summable(e, DOMAIN e)
    BY <1>0, <1>2, <2>1, <2>3, <2>4, <2>5 DEF Summable, Books, Conserved
  <2>8. SumFunction(e) = SumFunction(f) + Funded(t)
    BY <2>6, <2>7, SumExtended
  <2>9. SumFunction(f) \in Int /\ Funded(t) \in Int
    BY <2>3, <2>7, SumType DEF SumFunction
  <2>10. SumFunction(OpeningBalance) \in Int
    <3>1. Summable(OpeningBalance, DOMAIN OpeningBalance)
      BY <1>0 DEF Summable
    <3> QED BY <3>1, SumType DEF SumFunction
  <2>11. SumFunction(balance) = SumFunction(OpeningBalance) + SumFunction(f)
    BY <2>4 DEF Conserved, MoneyConserved
  <2>12. SumFunction(balance') = SumFunction(OpeningBalance) + SumFunction(e)
    BY <2>2, <2>8, <2>9, <2>10, <2>11
  <2> QED BY <2>1, <2>5, <2>12 DEF Conserved, MoneyConserved
<1> QED BY <1>1, <1>2 DEF Bookkeeping

(* All wallets together hold what they held at first and what was funded    *)
(* since: no interleaving, failure or retry of transfers makes or destroys  *)
(* money.                                                                   *)
THEOREM NoMoneyMade == Spec => []MoneyConserved
<1>1. Init => Conserved
  <2> SUFFICES ASSUME Init PROVE Conserved
    OBVIOUS
  <2>1. records = {} /\ balance = OpeningBalance
    BY DEF Init
  <2>2. SumFunction([t \in records |-> Funded(t)]) = 0
    BY <2>1, SumEmpty DEF SumFunction
  <2>3. SumFunction(OpeningBalance) \in Int
    <3>1. Summable(OpeningBalance, DOMAIN OpeningBalance)
      BY BalanceAssumption, FiniteAssumption DEF Summable, Amount
    <3> QED BY <3>1, SumType DEF SumFunction
  <2> QED BY <2>1, <2>2, <2>3, FS_EmptySet DEF Conserved, MoneyConserved
<1>2. Layers /\ Conserved /\ [Next]_vars => Conserved'
  BY StepsBook, ConservedStep
<1>3. Conserved => MoneyConserved
  BY DEF Conserved
<1> QED BY <1>1, <1>2, <1>3, LayersInvariant, PTL DEF Spec
================================================================================
