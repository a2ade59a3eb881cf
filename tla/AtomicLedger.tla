------------------------------ MODULE AtomicLedger ------------------------------
(****************************************************************************)
(* What the wallet service promises: every transfer, funding and status     *)
(* change happens in one step, against one state of the ledger, and a       *)
(* client that is answered is told of a recorded outcome of its own key.    *)
(****************************************************************************)
EXTENDS LedgerTypes

VARIABLES
  balance,    \* wallets.balance_minor
  status,     \* users.status
  blockedBy,  \* users.blocked_by_id
  records,    \* the committed rows of transfers and wallet_fundings
  replies     \* what clients have been told of their keys

ledger == <<balance, status, blockedBy, records, replies>>

Init ==
  /\ balance   = OpeningBalance
  /\ status    = [a \in Account |-> "ACTIVE"]
  /\ blockedBy = [a \in Account |-> NoAccount]
  /\ records   = {}
  /\ replies   = {}

Unused(ref, i) == \A t \in records : t.ref # ref /\ ~SameKey(t.input, i)

(* The outcome of the transfer i: the status of both users is decided       *)
(* before the balance.                                                      *)
TransferOutcome(i) ==
  IF \E a \in Parties(i) : status[a] # "ACTIVE" THEN "ACCOUNT_BLOCKED"
  ELSE IF balance[i.user] < i.amount THEN "INSUFFICIENT_FUNDS"
  ELSE "SUCCEEDED"

(* A transfer under a fresh key is recorded with its outcome; money moves,  *)
(* both ways, exactly when it succeeds.                                     *)
Transfer(i, ref) ==
  /\ i.op = "transfer" /\ i.peer \in Account \ {i.user} /\ Unused(ref, i)
  /\ LET row == [ref |-> ref, input |-> i, status |-> TransferOutcome(i)]
     IN  /\ records' = records \cup {row}
         /\ balance' = [a \in Account |-> balance[a] + Delta(row, a)]
         /\ \A a \in Account : balance'[a] \in Amount
  /\ UNCHANGED <<status, blockedBy, replies>>

(* Only an active user is funded, once per key.                             *)
Fund(i, ref) ==
  /\ i.op = "fund" /\ status[i.user] = "ACTIVE" /\ Unused(ref, i)
  /\ balance[i.user] + i.amount <= MaxBalance
  /\ records' = records \cup {[ref |-> ref, input |-> i, status |-> "SUCCEEDED"]}
  /\ balance' = [balance EXCEPT ![i.user] = @ + i.amount]
  /\ UNCHANGED <<status, blockedBy, replies>>

(* An administrator blocks somebody else, or unblocks anybody.              *)
SetStatus(i) ==
  /\ i.op \in StatusOp /\ i.user \in Admin /\ i.peer \in Account
  /\ i.op = "block" => i.peer # i.user
  /\ status'    = [status EXCEPT ![i.peer] =
                     IF i.op = "block" THEN "BLOCKED" ELSE "ACTIVE"]
  /\ blockedBy' = [blockedBy EXCEPT ![i.peer] =
                     IF i.op = "block" THEN i.user ELSE NoAccount]
  /\ UNCHANGED <<balance, records, replies>>

(* A retry is told what the first request of its key was told.              *)
Answer(i) ==
  \E t \in records :
    /\ SameKey(t.input, i)
    /\ replies' = replies \cup
         {IF Fingerprint(t.input) = Fingerprint(i) THEN Presented(t, i) ELSE KeyReused(i)}
    /\ UNCHANGED <<balance, status, blockedBy, records>>

Next ==
  \E i \in {j \in Workload : j.valid} :
    \/ \E ref \in Reference : Transfer(i, ref) \/ Fund(i, ref)
    \/ SetStatus(i)
    \/ Answer(i)

Spec == Init /\ [][Next]_ledger
================================================================================
