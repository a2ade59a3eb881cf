-------------------------------- MODULE Registry --------------------------------
(****************************************************************************)
(* What onboarding promises.  An account is a user with a wallet, and comes *)
(* into being in one step, under an e-mail and a telephone number nobody    *)
(* else has.  Deploying makes the configured account the administrator,     *)
(* however often it is repeated.  Nobody is told of an account that does    *)
(* not exist, or refused one that does.                                     *)
(****************************************************************************)
EXTENDS Integers

CONSTANTS Job, Email, Phone, Password, Balance

VARIABLES
  accounts,  \* the rows of users, each with the balance of its wallet
  told       \* what each job has been told in the end

Status     == {"ACTIVE", "BLOCKED"}
Refusal    == {"forbidden", "unavailable", "conflict"}
Ended      == {"created", "seeded", "failed", "lost"} \cup Refusal
Account(j, e, p, w, role, b) ==
  [id |-> j, email |-> e, phone |-> p, password |-> w,
   role |-> role, status |-> "ACTIVE", balance |-> b]

Init == accounts = {} /\ told = [j \in Job |-> "waiting"]

(* Nobody but the accounts in mine has one of these identities.             *)
Free(e, p, mine) == \A a \in accounts \ mine : a.email # e /\ a.phone # p

Register(j, e, p, w) ==
  /\ told[j] = "waiting" /\ Free(e, p, {}) /\ \A a \in accounts : a.id # j
  /\ accounts' = accounts \cup {Account(j, e, p, w, "CUSTOMER", 0)}
  /\ UNCHANGED told

(* The first deployment opens the account of the administrator.             *)
CreateAdmin(j, e, p, w, opening) ==
  /\ told[j] = "waiting" /\ Free(e, p, {}) /\ \A a \in accounts : a.id # j
  /\ accounts' = accounts \cup {Account(j, e, p, w, "ADMIN", opening)}
  /\ UNCHANGED told

(* A later one gives it the configured profile, password, role and status,  *)
(* and leaves its money alone.                                              *)
SyncAdmin(j, e, p, w) ==
  /\ told[j] = "waiting"
  /\ \E a \in accounts :
       /\ a.email = e /\ Free(e, p, {a})
       /\ accounts' = (accounts \ {a}) \cup {Account(a.id, e, p, w, "ADMIN", a.balance)}
  /\ UNCHANGED told

(* Who is told of a new account has one; who is refused has none, whatever  *)
(* the refusal says; and once a deployment has seeded there is an           *)
(* administrator.                                                           *)
Tell(j, answer) ==
  /\ told[j] = "waiting"
  /\ answer = "created" => \E a \in accounts : a.id = j
  /\ answer = "seeded"  => \E a \in accounts : a.role = "ADMIN"
  /\ answer \in Refusal \cup {"failed"} => \A a \in accounts : a.id # j
  /\ told' = [told EXCEPT ![j] = answer]
  /\ UNCHANGED accounts

(* The rest of the service blocks accounts and moves their money.           *)
Use ==
  /\ \E a \in accounts :
       \/ \E s \in Status  : accounts' = (accounts \ {a}) \cup {[a EXCEPT !.status = s]}
       \/ \E b \in Balance : accounts' = (accounts \ {a}) \cup {[a EXCEPT !.balance = b]}
  /\ UNCHANGED told

Next ==
  \/ Use
  \/ \E j \in Job :
       \/ \E answer \in Ended : Tell(j, answer)
       \/ \E e \in Email, p \in Phone, w \in Password :
            \/ Register(j, e, p, w)
            \/ SyncAdmin(j, e, p, w)
            \/ \E b \in Balance : CreateAdmin(j, e, p, w, b)

Spec == Init /\ [][Next]_<<accounts, told>>
================================================================================
