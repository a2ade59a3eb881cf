----------------------------- MODULE MCWalletLedger -----------------------------
(****************************************************************************)
(* Small instances of WalletLedger for TLC: what the workloads contain.     *)
(****************************************************************************)
EXTENDS WalletLedger, TLC

CONSTANTS a1, a2, a3, k1, k2, r1, r2, r3

Transfer(from, to, k, n) ==
  [op |-> "transfer", user |-> from, peer |-> to, key |-> k, amount |-> n, valid |-> TRUE]
Fund(a, k, n) ==
  [op |-> "fund", user |-> a, peer |-> NoAccount, key |-> k, amount |-> n, valid |-> TRUE]
Set(op, admin, a) ==
  [op |-> op, user |-> admin, peer |-> a, key |-> NoKey, amount |-> 0, valid |-> TRUE]
Malform(i) == [i EXCEPT !.valid = FALSE]

(* User ids and wallet ids sort in opposite orders; both advisory keys of a *)
(* wallet hash to the same value.                                           *)
Position(a) == CASE a = a1 -> 1 [] a = a2 -> 2 [] OTHER -> 3
OneHash == [p \in Account \X Key |-> 0]
OppositeRank ==
  [x \in Resource |-> CASE x[1] = "advisory" -> 0
                        [] x[1] = "user"     -> Position(x[2])
                        [] OTHER             -> 10 - Position(x[2])]

References == Request \X Attempt
Symmetric  == Permutations(Request)

(* Two wallets, two keys: opposite transfers, a retry, a reused key,        *)
(* fundings that fit or overflow.                                           *)
MoneyOpening  == [a \in Account |-> IF a = a1 THEN 2 ELSE 1]
MoneyWorkload ==
  {Transfer(a1, a2, k1, 2), Transfer(a1, a2, k1, 1), Transfer(a2, a1, k1, 1),
   Fund(a1, k1, 1), Fund(a1, k1, 2), Transfer(a1, a2, k2, 2)}

(* What an earlier attempt left decides what a retry gets: a transfer that  *)
(* fails until the account is funded, its retry and the misuse of its key.  *)
RetryWorkload ==
  {Transfer(a1, a2, k1, 3), Transfer(a1, a2, k1, 1), Transfer(a1, a2, k2, 1),
   Fund(a1, k1, 1), Fund(a1, k1, 2)}

(* Two administrators and a customer: blocks and unblocks of each other     *)
(* against transfers and fundings, and the requests that are refused.       *)
OneEach == [a \in Account |-> 1]
Refused ==
  {Transfer(a3, a3, k1, 1), Transfer(a3, NoAccount, k1, 1), Set("unblock", a1, NoAccount),
   Set("block", a1, a1), Set("block", a3, a1), Malform(Set("block", a1, a3))}
ControlWorkload ==
  {Transfer(a1, a3, k1, 1), Transfer(a3, a1, k1, 2), Fund(a3, k1, 1),
   Set("block", a1, a3), Set("unblock", a1, a3), Set("block", a2, a1), Set("block", a1, a2)}
     \cup Refused

(* Two administrators who block each other.                                 *)
ActorWorkload == {Set("block", a1, a2), Set("block", a2, a1)}

(* Requests that meet on rows, on the pool and in a deadlock.               *)
ProgressWorkload ==
  {Transfer(a1, a2, k1, 1), Transfer(a2, a1, k1, 1), Set("block", a1, a2)}
================================================================================
