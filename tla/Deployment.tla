------------------------------- MODULE Deployment -------------------------------
(****************************************************************************)
(* How instances come up: start:render runs the migrations, seeds the       *)
(* administrator, validates the environment and listens, each only if the   *)
(* one before it succeeded.  Several instances may start at once on a       *)
(* database that an earlier release left behind, processes may die at any   *)
(* point, and an operator may revert migrations while nothing else runs.    *)
(****************************************************************************)
EXTENDS Integers, Sequences, SequencesExt

CONSTANTS
  Instance,
  Operator,       \* whoever runs migration:revert
  Phone,
  Environments,   \* what is right in an environment, and its ADMIN_PHONE
  MaxCrashes,     \* processes that die, over all (bound)
  MaxReverts      \* migrations reverted, over all (bound)

VARIABLES
  catalog,   \* committed objects of the schema
  journal,   \* rows of the table migrations, NoTable before it exists
  phones,    \* whose number each is in the users table: the user with
             \* ADMIN_EMAIL, other users, or nobody
  env,       \* the environment of each instance
  pc,        \* where each process is
  todo,      \* objects its transaction has still to create, or to drop
  done,      \* objects its transaction has created, or dropped
  crashes, reverts

vars == <<catalog, journal, phones, env, pc, todo, done, crashes, reverts>>

Process == Instance \cup {Operator}
NoTable == -1
Owner   == {"nobody", "admin", "other"}
Stage   == {"down", "table", "create", "load", "migrate", "find", "insert", "update", "boot",
            "serving", "failed", "revert"}

ASSUME DeploymentAssumption ==
  /\ Operator \notin Instance /\ MaxCrashes \in Nat /\ MaxReverts \in Nat
  /\ Environments \subseteq [parts : SUBSET {"admin", "service"}, phone : Phone]

--------------------------------------------------------------------------------
(* The migrations: the objects that up() creates and down() drops, in the   *)
(* order of the statements, and what each object is built on.               *)

CreateUsersAndWallets == <<"user_role", "user_status", "users", "wallets">>
AddUserBlockMetadata  == <<"users.blocked">>
CreateTransfers       == <<"transfer_status", "transfer_failure_code", "transfers", "IDX_transfers">>
CreateWalletFundings  == <<"wallet_fundings">>

(* Defect: a type is forgotten.                                             *)
DropAllButType       == <<"wallets", "users", "user_status">>
DropUsersAndWallets  == <<"wallets", "users", "user_status", "user_role">>
DropUserBlockMetadata == <<"users.blocked">>
DropTransfers        == <<"IDX_transfers", "transfers", "transfer_failure_code", "transfer_status">>
DropWalletFundings   == <<"wallet_fundings">>

Up   == <<CreateUsersAndWallets, AddUserBlockMetadata, CreateTransfers, CreateWalletFundings>>
Down == <<DropUsersAndWallets, DropUserBlockMetadata, DropTransfers, DropWalletFundings>>

Latest == Len(Up)

Uses(x) ==
  CASE x = "users"                           -> {"user_role", "user_status"}
    [] x \in {"wallets", "users.blocked"}    -> {"users"}
    [] x = "transfers"                       -> {"transfer_status", "transfer_failure_code", "wallets"}
    [] x = "IDX_transfers"                   -> {"transfers"}
    [] x = "wallet_fundings"                 -> {"wallets"}
    [] OTHER                                 -> {}

(* What is left to do after the first n migrations.                         *)
Pending(n) ==
  CASE n = 4  -> <<>>
    [] n = 3  -> CreateWalletFundings
    [] n = 2  -> CreateTransfers \o CreateWalletFundings
    [] n = 1  -> AddUserBlockMetadata \o CreateTransfers \o CreateWalletFundings
    [] OTHER -> CreateUsersAndWallets \o AddUserBlockMetadata \o CreateTransfers \o CreateWalletFundings

Objects(n) == UNION {ToSet(Up[m]) : m \in 1..n}

--------------------------------------------------------------------------------
Goto(i, stage) == pc' = [pc EXCEPT ![i] = stage]

tables  == <<catalog, journal, phones>>
counts  == <<env, crashes, reverts>>
private == <<todo, done>>

(* The transaction of a process ends without effect, and its script too.    *)
Abandon(i, stage) ==
  /\ Goto(i, stage) /\ todo' = [todo EXCEPT ![i] = <<>>] /\ done' = [done EXCEPT ![i] = {}]
  /\ UNCHANGED tables

Fail(i) == Abandon(i, "failed") /\ UNCHANGED counts

(* start:render: the first script of the chain.                             *)
Start(i) ==
  /\ pc[i] \in {"down", "failed"} /\ pc[Operator] = "down"
  /\ Goto(i, "table") /\ UNCHANGED <<tables, counts, private>>

(* runMigrations(): the table of migrations is created if it is not found.  *)
FindTable(i) ==
  /\ pc[i] = "table" /\ Goto(i, IF journal = NoTable THEN "create" ELSE "load")
  /\ UNCHANGED <<tables, counts, private>>

CreateTable(i) ==
  /\ pc[i] = "create" /\ journal = NoTable
  /\ journal' = 0 /\ Goto(i, "load") /\ UNCHANGED <<catalog, phones, counts, private>>

CreateTableFails(i) == pc[i] = "create" /\ journal # NoTable /\ Fail(i)

(* The pending migrations are read before the transaction begins.           *)
Load(i) ==
  /\ pc[i] = "load"
  /\ todo' = [todo EXCEPT ![i] = Pending(journal)]
  /\ Goto(i, IF journal = Latest THEN "find" ELSE "migrate")
  /\ UNCHANGED <<tables, counts, done>>

(* A statement of a migration: it waits for one that creates the same       *)
(* object, and fails when the object is there.                              *)
Possible(x, seen) == x \notin seen /\ Uses(x) \subseteq seen

(* Defect: each statement commits on its own.                               *)
CreateObjectAtOnce(i) ==
  /\ pc[i] = "migrate" /\ todo[i] # <<>>
  /\ Possible(Head(todo[i]), catalog)
  /\ todo' = [todo EXCEPT ![i] = Tail(@)] /\ catalog' = catalog \cup {Head(todo[i])}
  /\ UNCHANGED <<journal, phones, counts, done, pc>>

CreateObject(i) ==
  /\ pc[i] = "migrate" /\ todo[i] # <<>>
  /\ \A j \in Instance \ {i} : Head(todo[i]) \notin done[j]
  /\ Possible(Head(todo[i]), catalog \cup done[i])
  /\ todo' = [todo EXCEPT ![i] = Tail(@)] /\ done' = [done EXCEPT ![i] = @ \cup {Head(todo[i])}]
  /\ UNCHANGED <<tables, counts, pc>>

CreateObjectFails(i) ==
  /\ pc[i] = "migrate" /\ todo[i] # <<>>
  /\ ~Possible(Head(todo[i]), catalog \cup done[i])
  /\ Fail(i)

(* Defect: the migrations that had been applied are recorded once more.     *)
RecordAllAgain(i) ==
  /\ pc[i] = "migrate" /\ todo[i] = <<>>
  /\ catalog' = catalog \cup done[i] /\ journal' = journal + Latest
  /\ done' = [done EXCEPT ![i] = {}] /\ Goto(i, "find") /\ UNCHANGED <<phones, todo, counts>>

(* Defect: the data source is not destroyed, and the script never exits.    *)
CommitAndHang(i) ==
  /\ pc[i] = "migrate" /\ todo[i] = <<>>
  /\ catalog' = catalog \cup done[i] /\ journal' = Latest
  /\ done' = [done EXCEPT ![i] = {}] /\ UNCHANGED <<phones, todo, counts, pc>>

CommitMigrations(i) ==
  /\ pc[i] = "migrate" /\ todo[i] = <<>>
  /\ catalog' = catalog \cup done[i] /\ journal' = Latest
  /\ done' = [done EXCEPT ![i] = {}] /\ Goto(i, "find") /\ UNCHANGED <<phones, todo, counts>>

(* runAdminSeed(), whose own transaction is the subject of Onboarding: what *)
(* matters here is what it found, and whether it succeeds.  Every instance  *)
(* has the same ADMIN_EMAIL, and its user has one number at a time.         *)
Seeded == \E p \in Phone : phones[p] = "admin"

(* Somebody else has the number that an instance is configured with.        *)
NumberTaken(i) == phones[env[i].phone] = "other"

(* The user with ADMIN_EMAIL gets the number of the environment.            *)
TakeNumber(i) ==
  phones' = [p \in Phone |-> IF p = env[i].phone THEN "admin"
                            ELSE IF phones[p] = "admin" THEN "nobody" ELSE phones[p]]

(* Defect: the seed inserts without looking.                                *)
SeedBlindly(i) ==
  /\ pc[i] = "find" /\ "admin" \in env[i].parts
  /\ Goto(i, "insert") /\ UNCHANGED <<tables, counts, private>>

FindAdmin(i) ==
  /\ pc[i] = "find" /\ "admin" \in env[i].parts
  /\ Goto(i, IF Seeded THEN "update" ELSE "insert") /\ UNCHANGED <<tables, counts, private>>

SeedUnconfigured(i) == pc[i] = "find" /\ "admin" \notin env[i].parts /\ Fail(i)

InsertAdmin(i) ==
  /\ pc[i] = "insert" /\ ~Seeded /\ ~NumberTaken(i)
  /\ TakeNumber(i) /\ Goto(i, "boot") /\ UNCHANGED <<catalog, journal, counts, private>>

(* Another instance has inserted the user, or another user has the number.  *)
InsertAdminFails(i) == pc[i] = "insert" /\ (Seeded \/ NumberTaken(i)) /\ Fail(i)

UpdateAdmin(i) ==
  /\ pc[i] = "update" /\ ~NumberTaken(i)
  /\ TakeNumber(i) /\ Goto(i, "boot") /\ UNCHANGED <<catalog, journal, counts, private>>

UpdateAdminFails(i) == pc[i] = "update" /\ NumberTaken(i) /\ Fail(i)

(* What validateEnvironment() accepts.                                      *)
Valid(i) == "service" \in env[i].parts

(* Defect: the API starts whatever the environment is.                      *)
ListenAnyway(i) ==
  pc[i] = "boot" /\ Goto(i, "serving") /\ UNCHANGED <<tables, counts, private>>

(* bootstrap(): the environment is refused, or the API listens.             *)
Listen(i) ==
  /\ pc[i] = "boot" /\ Valid(i)
  /\ Goto(i, "serving") /\ UNCHANGED <<tables, counts, private>>

BootFails(i) == pc[i] = "boot" /\ ~Valid(i) /\ Fail(i)

(* A customer registers through an instance that serves.                    *)
Register(p) ==
  /\ \E i \in Instance : pc[i] = "serving"
  /\ phones[p] = "nobody" /\ phones' = [phones EXCEPT ![p] = "other"]
  /\ UNCHANGED <<catalog, journal, counts, private, pc>>

(* A signal of the platform closes the API.                                 *)
Stop(i) ==
  /\ pc[i] = "serving" /\ Goto(i, "down") /\ UNCHANGED <<tables, counts, private>>

(* Whatever runs may die, and the database forgets its transaction.         *)
Crash(i) ==
  /\ pc[i] \notin {"down", "failed"} /\ crashes < MaxCrashes
  /\ Abandon(i, "down") /\ crashes' = crashes + 1 /\ UNCHANGED <<env, reverts>>

--------------------------------------------------------------------------------
(* migration:revert, while no instance runs.                                *)

BeginRevert ==
  /\ pc[Operator] = "down" /\ \A i \in Instance : pc[i] \in {"down", "failed"}
  /\ journal > 0 /\ reverts < MaxReverts
  /\ reverts' = reverts + 1 /\ todo' = [todo EXCEPT ![Operator] = Down[journal]]
  /\ Goto(Operator, "revert") /\ UNCHANGED <<tables, done, env, crashes>>

Droppable(x, seen) == x \in seen /\ \A y \in seen : x \notin Uses(y)

DropObject ==
  /\ pc[Operator] = "revert" /\ todo[Operator] # <<>>
  /\ Droppable(Head(todo[Operator]), catalog \ done[Operator])
  /\ todo' = [todo EXCEPT ![Operator] = Tail(@)]
  /\ done' = [done EXCEPT ![Operator] = @ \cup {Head(todo[Operator])}]
  /\ UNCHANGED <<tables, counts, pc>>

CommitRevert ==
  /\ pc[Operator] = "revert" /\ todo[Operator] = <<>>
  /\ catalog' = catalog \ done[Operator] /\ journal' = journal - 1
  /\ phones' = IF "users" \in catalog' THEN phones ELSE [p \in Phone |-> "nobody"]
  /\ done' = [done EXCEPT ![Operator] = {}] /\ Goto(Operator, "down") /\ UNCHANGED <<todo, counts>>

--------------------------------------------------------------------------------
(* A new database, or one that an earlier release has migrated, perhaps     *)
(* seeded and filled with users, the administrators of other environments   *)
(* among them.                                                              *)
Init ==
  /\ journal \in NoTable..Latest /\ catalog = Objects(journal)
  /\ phones \in [Phone -> IF journal > 0 THEN Owner ELSE {"nobody"}]
  /\ \A p, q \in Phone : phones[p] = "admin" /\ phones[q] = "admin" => p = q
  /\ env \in [Instance -> Environments]
  /\ pc = [i \in Process |-> "down"] /\ todo = [i \in Process |-> <<>>]
  /\ done = [i \in Process |-> {}] /\ crashes = 0 /\ reverts = 0

(* What the chain of scripts does next.                                     *)
Chain(i) ==
  \/ FindTable(i) \/ CreateTable(i) \/ CreateTableFails(i) \/ Load(i)
  \/ CreateObject(i) \/ CreateObjectFails(i) \/ CommitMigrations(i)
  \/ FindAdmin(i) \/ SeedUnconfigured(i) \/ InsertAdmin(i) \/ InsertAdminFails(i)
  \/ UpdateAdmin(i) \/ UpdateAdminFails(i) \/ Listen(i) \/ BootFails(i)

Next ==
  \/ \E i \in Instance : Start(i) \/ Chain(i) \/ Stop(i)
  \/ \E i \in Process : Crash(i)
  \/ \E p \in Phone : Register(p)
  \/ BeginRevert \/ DropObject \/ CommitRevert

Spec == Init /\ [][Next]_vars

(* Scripts run to their end.  Nobody has to start or to restart an instance.*)
FairSpec == Spec /\ \A i \in Instance : WF_vars(Chain(i))

--------------------------------------------------------------------------------
(* Properties.                                                              *)

TypeOK ==
  /\ catalog \subseteq Objects(Latest) /\ journal \in NoTable..Latest /\ phones \in [Phone -> Owner]
  /\ pc \in [Process -> Stage] /\ done \in [Process -> SUBSET Objects(Latest)]
  /\ \A i \in Process : ToSet(todo[i]) \subseteq Objects(Latest)
  /\ env \in [Instance -> Environments] /\ crashes \in 0..MaxCrashes /\ reverts \in 0..MaxReverts

(* The schema is always exactly that of the recorded migrations: one that   *)
(* dies half-way leaves nothing behind, two that run at once apply it once, *)
(* and down() takes back all that up() did.                                 *)
SchemaMatchesJournal == catalog = Objects(journal)

(* An instance that takes requests has the whole schema, an administrator   *)
(* and a valid environment.                                                 *)
ServesComplete ==
  \A i \in Instance : pc[i] = "serving" =>
    journal = Latest /\ catalog = Objects(Latest) /\ Seeded
    /\ env[i].parts = {"admin", "service"}

(* A script fails for three reasons only: another instance has done its     *)
(* work in the meantime, and starting again is enough; the environment is   *)
(* incomplete; or its ADMIN_PHONE is the number of another user, and every  *)
(* start fails until it is changed.                                         *)
FailuresExplained ==
  [][\A i \in Instance : pc[i] # "failed" /\ pc'[i] = "failed" =>
       \/ pc[i] = "create" /\ journal # NoTable
       \/ pc[i] = "migrate" /\ journal = Latest
       \/ pc[i] = "insert" /\ Seeded
       \/ pc[i] \in {"insert", "update"} /\ NumberTaken(i)
       \/ env[i].parts # {"admin", "service"}]_vars

(* An instance that starts ends up serving or has failed: the migrations    *)
(* of two instances never wait for each other in a circle.                  *)
EveryStartEnds ==
  \A i \in Instance :
    pc[i] = "table" ~> pc[i] \in {"serving", "failed", "down"}

(* However many instances start at once, on whatever database: if none is   *)
(* misconfigured, none dies and no other user has the number that one of    *)
(* them is configured with, one of them serves, although those that lose a  *)
(* race to migrate or to seed exit.                                         *)
SomebodyServes ==
  (\A i \in Instance : env[i].parts = {"admin", "service"}) /\ [](crashes = 0)
    => ((\E i \in Instance : pc[i] = "table") /\ (\A i \in Instance : ~NumberTaken(i))
          ~> (\E i \in Instance : pc[i] = "serving"))
================================================================================
