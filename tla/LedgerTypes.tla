------------------------------ MODULE LedgerTypes ------------------------------
(****************************************************************************)
(* The data of the wallet service that its concurrency depends on: accounts *)
(* (a user row and the one wallet row that belongs to it), what a client    *)
(* may ask for, and the rows of the tables `transfers` and                  *)
(* `wallet_fundings`.  Names, hashes, descriptions, currencies and          *)
(* timestamps are abstracted; amounts are minor units.                      *)
(****************************************************************************)
EXTENDS Integers, FiniteSets, Functions

CONSTANTS
  Account,         \* users, each with its wallet
  NoAccount,       \* an id that belongs to nobody, or the absence of one
  Admin,           \* the accounts whose role is ADMIN
  Key,             \* idempotency keys
  NoKey,           \* the key of a request that carries none
  Reference,       \* generated references (TRF_..., FND_...)
  NoReference,
  MaxBalance,      \* the largest value of a bigint column
  OpeningBalance,  \* the balances from which the model starts
  Workload         \* the requests that clients send

MoneyOp  == {"transfer", "fund"}
StatusOp == {"block", "unblock"}
Status   == {"ACTIVE", "BLOCKED"}
Amount   == 0..MaxBalance

(* A request: `user` is the authenticated caller; `peer` the owner of the   *)
(* recipient wallet, or the user whose status is changed.  `valid` says     *)
(* whether the checks that read no row accept it: the DTO and the key       *)
(* pattern, the positive amount, the reason of a block.                     *)
Input ==
  [op: MoneyOp \cup StatusOp, user: Account, peer: Account \cup {NoAccount},
   key: Key \cup {NoKey}, amount: Amount, valid: BOOLEAN]

(* The outcome of a transfer: its status, or its failure code when FAILED.  *)
FailureCode == {"INSUFFICIENT_FUNDS", "ACCOUNT_BLOCKED"}
Outcome     == {"SUCCEEDED"} \cup FailureCode

(* A row of `transfers`, or of `wallet_fundings`, with the request that     *)
(* inserted it.  A funding has no status column: it counts as SUCCEEDED.    *)
Row == [ref: Reference, input: Input, status: Outcome \cup {"PENDING"}]

(* What a client is told of its key: the row, or the misuse of the key.     *)
Reply == [ref: Reference \cup {NoReference}, input: Input,
          status: Outcome \cup {"PENDING", "IDEMPOTENCY_KEY_REUSED"}]

(* The unique index on (wallet, idempotency key) of each of the two tables. *)
SameKey(i, j) == i.op = j.op /\ i.user = j.user /\ i.key = j.key

(* The request hash: what must agree for a request to count as a retry.     *)
Fingerprint(i) == <<i.peer, i.amount>>

Retries(i, j) == SameKey(i, j) /\ Fingerprint(i) = Fingerprint(j)

(* The answer to the request i that found or inserted the row t.            *)
Presented(t, i) == [ref |-> t.ref, input |-> i, status |-> t.status]

KeyReused(i) ==
  [ref |-> NoReference, input |-> i, status |-> "IDEMPOTENCY_KEY_REUSED"]

(* The accounts whose money a request moves when it succeeds ...            *)
Parties(i) == IF i.op = "transfer" THEN {i.user, i.peer} ELSE {i.user}

(* Defect: the sender keeps what was sent.                                  *)
MovesWithoutDebit(i, a) ==
  IF a = (IF i.op = "fund" THEN i.user ELSE i.peer) THEN i.amount ELSE 0

(* ... and what it then adds to the balance of the account a.               *)
Moves(i, a) ==
  (IF a = (IF i.op = "fund" THEN i.user ELSE i.peer) THEN i.amount ELSE 0)
    - (IF i.op = "transfer" /\ a = i.user THEN i.amount ELSE 0)

Delta(t, a) == IF t.status = "SUCCEEDED" THEN Moves(t.input, a) ELSE 0

ASSUME AccountAssumption   == NoAccount \notin Account /\ Admin \subseteq Account
ASSUME FiniteAssumption    == IsFiniteSet(Account)
ASSUME ReferenceAssumption == NoReference \notin Reference
ASSUME KeyAssumption       == NoKey \notin Key
ASSUME BalanceAssumption   == /\ MaxBalance \in Nat
                              /\ OpeningBalance \in [Account -> Amount]
(* The key pattern and parseMajorAmount let no other money request through. *)
ASSUME WorkloadAssumption  ==
  /\ Workload # {} /\ Workload \subseteq Input
  /\ \A i \in Workload : i.valid /\ i.op \in MoneyOp => i.key \in Key /\ i.amount > 0
================================================================================
