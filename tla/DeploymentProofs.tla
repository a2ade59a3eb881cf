---------------------------- MODULE DeploymentProofs ----------------------------
(****************************************************************************)
(* Theorems about Deployment: for any number of instances, crashes and      *)
(* reverts, the schema is that of the recorded migrations, only complete    *)
(* instances serve, and a script that is configured fails only after a lost *)
(* race or for the number of its administrator.                             *)
(****************************************************************************)
EXTENDS Deployment, SequenceTheorems, TLAPS

Seeding == {"find", "insert", "update", "boot", "serving"}
Known   == {"insert", "update", "boot", "serving"}
Resting == {"down", "failed"}
Object  == Objects(Latest)

(* The types, those of the transactions included.                           *)
Shape ==
  /\ catalog \subseteq Object /\ journal \in NoTable..Latest /\ phones \in [Phone -> Owner]
  /\ pc \in [Process -> Stage] /\ done \in [Process -> SUBSET Object]
  /\ todo \in [Process -> Seq(Object)] /\ env \in [Instance -> Environments]
  /\ crashes \in 0..MaxCrashes /\ reverts \in 0..MaxReverts

(* What an instance has, at each stage of its chain.                        *)
Chained(i) ==
  /\ pc[i] \in {"load", "migrate"} => journal # NoTable
  /\ pc[i] = "migrate" => Object \subseteq catalog \cup done[i] \cup ToSet(todo[i])
  /\ pc[i] \in Seeding => journal = Latest
  /\ pc[i] \in {"update", "boot", "serving"} => Seeded
  /\ pc[i] \in Known => "admin" \in env[i].parts
  /\ pc[i] = "serving" => "service" \in env[i].parts

(* A revert runs alone, and drops what its migration has created.           *)
Alone ==
  /\ pc[Operator] \in {"down", "revert"}
  /\ pc[Operator] = "down" => done[Operator] = {}
  /\ pc[Operator] = "revert" =>
       /\ \A i \in Instance : pc[i] \in Resting
       /\ journal \in 1..Latest
       /\ done[Operator] \cup ToSet(todo[Operator]) = ToSet(Up[journal])

Inv ==
  /\ Shape /\ SchemaMatchesJournal
  /\ \A i \in Instance : Chained(i)
  /\ Alone

--------------------------------------------------------------------------------
(* The statements.                                                          *)

(* The elements of a concatenation.                                         *)
LEMMA ConcatElements ==
  ASSUME NEW S, NEW s \in Seq(S), NEW t \in Seq(S)
  PROVE  s \o t \in Seq(S) /\ ToSet(s \o t) = ToSet(s) \cup ToSet(t)
<1>1. s \o t \in Seq(S) /\ DOMAIN (s \o t) = 1..(Len(s) + Len(t))
  BY ConcatProperties
<1>2. ASSUME NEW k \in 1..(Len(s) + Len(t))
      PROVE  (s \o t)[k] = IF k <= Len(s) THEN s[k] ELSE t[k - Len(s)]
  BY ConcatProperties
<1>3. ASSUME NEW k \in 1..Len(t) PROVE (s \o t)[Len(s) + k] = t[k]
  BY <1>2
<1>4. ASSUME NEW x \in ToSet(s) \cup ToSet(t) PROVE x \in ToSet(s \o t)
  <2>1. CASE x \in ToSet(s)
    BY <1>1, <1>2, <2>1 DEF ToSet
  <2>2. CASE x \in ToSet(t)
    <3>1. PICK k \in 1..Len(t) : x = t[k]
      BY <2>2 DEF ToSet
    <3>2. Len(s) + k \in DOMAIN (s \o t) /\ (s \o t)[Len(s) + k] = x
      BY <1>1, <1>3, <3>1
    <3> QED BY <3>2 DEF ToSet
  <2> QED BY <1>4, <2>1, <2>2
<1>5. ASSUME NEW x \in ToSet(s \o t) PROVE x \in ToSet(s) \cup ToSet(t)
  <2>1. PICK k \in 1..(Len(s) + Len(t)) : x = (s \o t)[k]
    BY <1>1, <1>5 DEF ToSet
  <2>2. CASE k <= Len(s)
    BY <1>2, <2>1, <2>2 DEF ToSet
  <2>3. CASE ~ k <= Len(s)
    BY <1>2, <2>1, <2>3 DEF ToSet
  <2> QED BY <2>2, <2>3
<1> QED BY <1>1, <1>4, <1>5

(* The first element of a sequence and the others.                          *)
LEMMA HeadElements ==
  ASSUME NEW S, NEW s \in Seq(S), s # <<>>
  PROVE  /\ Tail(s) \in Seq(S) /\ Head(s) \in S
         /\ ToSet(s) = {Head(s)} \cup ToSet(Tail(s))
<1>1. Tail(s) \in Seq(S) /\ Len(Tail(s)) = Len(s) - 1 /\ Len(s) \in Nat \ {0}
      /\ \A k \in 1..Len(Tail(s)) : Tail(s)[k] = s[k + 1]
  BY HeadTailProperties
<1>2. Head(s) = s[1] /\ DOMAIN s = 1..Len(s) /\ DOMAIN Tail(s) = 1..(Len(s) - 1)
  BY <1>1
<1>3. ASSUME NEW x \in ToSet(s) PROVE x = Head(s) \/ x \in ToSet(Tail(s))
  <2>1. PICK k \in 1..Len(s) : x = s[k]
    BY <1>2 DEF ToSet
  <2>2. CASE k = 1
    BY <1>2, <2>1, <2>2
  <2>3. CASE k # 1
    <3>1. k - 1 \in DOMAIN Tail(s) /\ Tail(s)[k - 1] = x
      BY <1>1, <1>2, <2>1, <2>3
    <3> QED BY <3>1 DEF ToSet
  <2> QED BY <2>2, <2>3
<1>4. ASSUME NEW x \in ToSet(Tail(s)) PROVE x \in ToSet(s)
  <2>1. PICK k \in 1..(Len(s) - 1) : x = Tail(s)[k]
    BY <1>2 DEF ToSet
  <2>2. k + 1 \in DOMAIN s /\ s[k + 1] = x
    BY <1>1, <1>2, <2>1
  <2> QED BY <2>2 DEF ToSet
<1>5. Head(s) \in ToSet(s) /\ Head(s) \in S
  BY <1>1, <1>2 DEF ToSet
<1> QED BY <1>1, <1>3, <1>4, <1>5

(* What each migration creates.                                             *)
LEMMA Created ==
  /\ ToSet(CreateUsersAndWallets) = {"user_role", "user_status", "users", "wallets"}
  /\ ToSet(AddUserBlockMetadata) = {"users.blocked"}
  /\ ToSet(CreateTransfers)
       = {"transfer_status", "transfer_failure_code", "transfers", "IDX_transfers"}
  /\ ToSet(CreateWalletFundings) = {"wallet_fundings"}
<1>1. ToSet(CreateUsersAndWallets) = {"user_role", "user_status", "users", "wallets"}
  BY DEF ToSet, CreateUsersAndWallets
<1>2. ToSet(AddUserBlockMetadata) = {"users.blocked"}
  BY DEF ToSet, AddUserBlockMetadata
<1>3. ToSet(CreateTransfers)
        = {"transfer_status", "transfer_failure_code", "transfers", "IDX_transfers"}
  BY DEF ToSet, CreateTransfers
<1>4. ToSet(CreateWalletFundings) = {"wallet_fundings"}
  BY DEF ToSet, CreateWalletFundings
<1> QED BY <1>1, <1>2, <1>3, <1>4

(* Its down() drops just that.                                              *)
LEMMA Dropped ==
  /\ ToSet(DropUsersAndWallets) = ToSet(CreateUsersAndWallets)
  /\ ToSet(DropUserBlockMetadata) = ToSet(AddUserBlockMetadata)
  /\ ToSet(DropTransfers) = ToSet(CreateTransfers)
  /\ ToSet(DropWalletFundings) = ToSet(CreateWalletFundings)
<1>1. ToSet(DropUsersAndWallets) = {"user_role", "user_status", "users", "wallets"}
  BY DEF ToSet, DropUsersAndWallets
<1>2. ToSet(DropUserBlockMetadata) = {"users.blocked"}
  BY DEF ToSet, DropUserBlockMetadata
<1>3. ToSet(DropTransfers)
        = {"transfer_status", "transfer_failure_code", "transfers", "IDX_transfers"}
  BY DEF ToSet, DropTransfers
<1>4. ToSet(DropWalletFundings) = {"wallet_fundings"}
  BY DEF ToSet, DropWalletFundings
<1> QED BY <1>1, <1>2, <1>3, <1>4, Created

(* The schema after the first migrations.                                   *)
LEMMA Schemas ==
  /\ Latest = 4
  /\ Objects(-1) = {} /\ Objects(0) = {}
  /\ Objects(1) = ToSet(CreateUsersAndWallets)
  /\ Objects(2) = Objects(1) \cup ToSet(AddUserBlockMetadata)
  /\ Objects(3) = Objects(2) \cup ToSet(CreateTransfers)
  /\ Objects(4) = Objects(3) \cup ToSet(CreateWalletFundings)
<1>1. /\ Latest = 4
      /\ Up[1] = CreateUsersAndWallets /\ Up[2] = AddUserBlockMetadata
      /\ Up[3] = CreateTransfers /\ Up[4] = CreateWalletFundings
  BY DEF Latest, Up
<1>2. Objects(-1) = {} /\ Objects(0) = {}
  <2>1. 1..(-1) = {} /\ 1..0 = {}
    OBVIOUS
  <2> QED BY <2>1 DEF Objects
<1>3. Objects(1) = ToSet(Up[1])
  <2>1. 1..1 = {1}
    OBVIOUS
  <2> QED BY <2>1 DEF Objects
<1>4. Objects(2) = ToSet(Up[1]) \cup ToSet(Up[2])
  <2>1. 1..2 = {1, 2}
    OBVIOUS
  <2> QED BY <2>1 DEF Objects
<1>5. Objects(3) = ToSet(Up[1]) \cup ToSet(Up[2]) \cup ToSet(Up[3])
  <2>1. 1..3 = {1, 2, 3}
    OBVIOUS
  <2> QED BY <2>1 DEF Objects
<1>6. Objects(4) = ToSet(Up[1]) \cup ToSet(Up[2]) \cup ToSet(Up[3]) \cup ToSet(Up[4])
  <2>1. 1..4 = {1, 2, 3, 4}
    OBVIOUS
  <2> QED BY <2>1 DEF Objects
<1> QED BY <1>1, <1>2, <1>3, <1>4, <1>5, <1>6

(* Every schema of the history consists of the objects of the migrations.   *)
LEMMA ObjectsTyped == \A n \in NoTable..Latest : Objects(n) \subseteq Object
<1>1. ASSUME NEW n \in NoTable..Latest PROVE Objects(n) \subseteq Object
  <2>1. n = -1 \/ n = 0 \/ n = 1 \/ n = 2 \/ n = 3 \/ n = 4
    BY <1>1, Schemas DEF NoTable
  <2> QED BY <2>1, Schemas DEF Object
<1> QED BY <1>1

(* The statements of up() create such objects.                              *)
LEMMA CreateTyped ==
  /\ CreateUsersAndWallets \in Seq(Object) /\ AddUserBlockMetadata \in Seq(Object)
  /\ CreateTransfers \in Seq(Object) /\ CreateWalletFundings \in Seq(Object)
<1>1. /\ {"user_role", "user_status", "users", "wallets"} \subseteq Object
      /\ "users.blocked" \in Object
      /\ {"transfer_status", "transfer_failure_code", "transfers", "IDX_transfers"} \subseteq Object
      /\ "wallet_fundings" \in Object
  BY Created, Schemas DEF Object
<1>2. CreateUsersAndWallets \in Seq(Object)
  BY <1>1 DEF CreateUsersAndWallets
<1>3. AddUserBlockMetadata \in Seq(Object)
  BY <1>1 DEF AddUserBlockMetadata
<1>4. CreateTransfers \in Seq(Object)
  BY <1>1 DEF CreateTransfers
<1>5. CreateWalletFundings \in Seq(Object)
  BY <1>1 DEF CreateWalletFundings
<1> QED BY <1>2, <1>3, <1>4, <1>5

(* The pending migrations create all that is missing.                       *)
LEMMA PendingCompletes ==
  ASSUME NEW n \in NoTable..Latest
  PROVE  Pending(n) \in Seq(Object) /\ Object \subseteq Objects(n) \cup ToSet(Pending(n))
<1> DEFINE A == CreateUsersAndWallets
           B == AddUserBlockMetadata
           C == CreateTransfers
           D == CreateWalletFundings
<1>1. A \in Seq(Object) /\ B \in Seq(Object) /\ C \in Seq(Object) /\ D \in Seq(Object)
  BY CreateTyped
<1>2. Object = ToSet(A) \cup ToSet(B) \cup ToSet(C) \cup ToSet(D)
  BY Schemas DEF Object
<1> HIDE DEF A, B, C, D
<1>3. C \o D \in Seq(Object) /\ ToSet(C \o D) = ToSet(C) \cup ToSet(D)
  BY <1>1, ConcatElements
<1>4. B \o C \in Seq(Object) /\ ToSet(B \o C) = ToSet(B) \cup ToSet(C)
  BY <1>1, ConcatElements
<1>5. B \o C \o D \in Seq(Object) /\ ToSet(B \o C \o D) = ToSet(B) \cup ToSet(C) \cup ToSet(D)
  <2>1. (B \o C) \o D \in Seq(Object)
        /\ ToSet((B \o C) \o D) = ToSet(B \o C) \cup ToSet(D)
    <3>1. B \o C \in Seq(Object) /\ D \in Seq(Object)
      BY <1>1, <1>4
    <3>2. PICK s \in Seq(Object) : s = B \o C
      BY <3>1
    <3>3. s \o D \in Seq(Object) /\ ToSet(s \o D) = ToSet(s) \cup ToSet(D)
      BY <3>1, ConcatElements
    <3> QED BY <3>2, <3>3
  <2> QED BY <1>4, <2>1
<1>6. A \o B \in Seq(Object) /\ ToSet(A \o B) = ToSet(A) \cup ToSet(B)
  BY <1>1, ConcatElements
<1>7. A \o B \o C \in Seq(Object) /\ ToSet(A \o B \o C) = ToSet(A) \cup ToSet(B) \cup ToSet(C)
  <2>1. (A \o B) \o C \in Seq(Object)
        /\ ToSet((A \o B) \o C) = ToSet(A \o B) \cup ToSet(C)
    <3>1. A \o B \in Seq(Object) /\ C \in Seq(Object)
      BY <1>1, <1>6
    <3>2. PICK s \in Seq(Object) : s = A \o B
      BY <3>1
    <3>3. s \o C \in Seq(Object) /\ ToSet(s \o C) = ToSet(s) \cup ToSet(C)
      BY <3>1, ConcatElements
    <3> QED BY <3>2, <3>3
  <2> QED BY <1>6, <2>1
<1>8. /\ A \o B \o C \o D \in Seq(Object)
      /\ ToSet(A \o B \o C \o D) = ToSet(A) \cup ToSet(B) \cup ToSet(C) \cup ToSet(D)
  <2>1. (A \o B \o C) \o D \in Seq(Object)
        /\ ToSet((A \o B \o C) \o D) = ToSet(A \o B \o C) \cup ToSet(D)
    <3>1. A \o B \o C \in Seq(Object) /\ D \in Seq(Object)
      BY <1>1, <1>7
    <3>2. PICK s \in Seq(Object) : s = A \o B \o C
      BY <3>1
    <3>3. s \o D \in Seq(Object) /\ ToSet(s \o D) = ToSet(s) \cup ToSet(D)
      BY <3>1, ConcatElements
    <3> QED BY <3>2, <3>3
  <2> QED BY <1>7, <2>1
<1>9. n = -1 \/ n = 0 \/ n = 1 \/ n = 2 \/ n = 3 \/ n = 4
  BY Schemas DEF NoTable
<1>10. CASE n = 4
  BY <1>10, Schemas, EmptySeq DEF Pending, Object
<1>11. CASE n = 3
  BY <1>1, <1>2, <1>11, Schemas DEF Pending, D, A, B, C
<1>12. CASE n = 2
  BY <1>2, <1>3, <1>12, Schemas DEF Pending, C, D, A, B
<1>13. CASE n = 1
  BY <1>2, <1>5, <1>13, Schemas DEF Pending, B, C, D, A
<1>14. CASE n = 0 \/ n = -1
  BY <1>2, <1>8, <1>14 DEF Pending, A, B, C, D
<1> QED BY <1>9, <1>10, <1>11, <1>12, <1>13, <1>14

(* Reverting a migration leads back to the schema before it.                *)
LEMMA RevertGoesBack ==
  ASSUME NEW n \in 1..Latest
  PROVE  /\ Down[n] \in Seq(Object) /\ ToSet(Down[n]) = ToSet(Up[n])
         /\ Objects(n) \ ToSet(Up[n]) = Objects(n - 1)
<1>1. n = 1 \/ n = 2 \/ n = 3 \/ n = 4
  BY Schemas
<1>2. /\ Up[1] = CreateUsersAndWallets /\ Up[2] = AddUserBlockMetadata
      /\ Up[3] = CreateTransfers /\ Up[4] = CreateWalletFundings
      /\ Down[1] = DropUsersAndWallets /\ Down[2] = DropUserBlockMetadata
      /\ Down[3] = DropTransfers /\ Down[4] = DropWalletFundings
  BY DEF Up, Down
<1>3. Objects(n) \ ToSet(Up[n]) = Objects(n - 1)
  BY <1>1, <1>2, Schemas, Created
<1>4. ToSet(Down[n]) = ToSet(Up[n])
  BY <1>1, <1>2, Dropped
<1>5. Down[n] \in Seq(Object)
  <2>1. /\ {"user_role", "user_status", "users", "wallets"} \subseteq Object
        /\ "users.blocked" \in Object
        /\ {"transfer_status", "transfer_failure_code", "transfers", "IDX_transfers"} \subseteq Object
        /\ "wallet_fundings" \in Object
    BY Created, Schemas DEF Object
  <2>2. DropUsersAndWallets \in Seq(Object)
    BY <2>1 DEF DropUsersAndWallets
  <2>3. DropUserBlockMetadata \in Seq(Object)
    BY <2>1 DEF DropUserBlockMetadata
  <2>4. DropTransfers \in Seq(Object)
    BY <2>1 DEF DropTransfers
  <2>5. DropWalletFundings \in Seq(Object)
    BY <2>1 DEF DropWalletFundings
  <2> QED BY <1>1, <1>2, <2>2, <2>3, <2>4, <2>5
<1> QED BY <1>3, <1>4, <1>5

(* A transaction with nothing left to do has no statements.                 *)
LEMMA NoElements == ToSet(<<>>) = {}
BY DEF ToSet

--------------------------------------------------------------------------------
(* The invariant.                                                           *)

(* Every schema that the history can have left is a start.                  *)
LEMMA InitInv == Init => Inv
<1> SUFFICES ASSUME Init PROVE Inv
  OBVIOUS
<1> USE DEF Init
<1>1. journal \in NoTable..Latest /\ NoTable..Latest \subseteq Int
  BY Schemas DEF NoTable
<1>2. catalog \subseteq Object
  BY ObjectsTyped
<1>3. todo \in [Process -> Seq(Object)]
  BY EmptySeq
<1>4. Shape
  <2>1. phones \in [Phone -> Owner]
    BY DEF Owner
  <2>2. pc \in [Process -> Stage] /\ done \in [Process -> SUBSET Object]
    BY DEF Stage
  <2>3. crashes \in 0..MaxCrashes /\ reverts \in 0..MaxReverts
    BY DeploymentAssumption
  <2> QED BY <1>1, <1>2, <1>3, <2>1, <2>2, <2>3 DEF Shape
<1>5. \A i \in Instance : Chained(i)
  BY DEF Chained, Process, Seeding, Known
<1>6. Alone
  BY DEF Alone, Process
<1> QED BY <1>4, <1>5, <1>6 DEF Inv, SchemaMatchesJournal

(* The actions that only go on to the next stage.                           *)
LEMMA StageStep ==
  ASSUME Inv, NEW i \in Instance,
         Start(i) \/ FindTable(i) \/ FindAdmin(i) \/ Listen(i) \/ Stop(i)
  PROVE  Inv'
<1> USE DEF Start, FindTable, FindAdmin, Listen, Stop, Valid, Goto, Seeded, tables, counts, private
<1>0. i \in Process /\ i # Operator /\ Operator \in Process
  BY DeploymentAssumption DEF Process
<1>1. Shape'
  BY <1>0 DEF Inv, Shape, Stage
<1>2. SchemaMatchesJournal'
  BY DEF Inv, SchemaMatchesJournal, Objects
<1>3. ASSUME NEW j \in Instance PROVE Chained(j)'
  <2>1. Chained(j) /\ j \in Process
    BY DEF Inv, Process
  <2>2. CASE j # i
    BY <1>0, <2>1, <2>2 DEF Inv, Shape, Chained
  <2>3. CASE j = i
    BY <1>0, <2>1, <2>3 DEF Inv, Shape, Chained, Seeding, Known
  <2> QED BY <2>2, <2>3
<1>4. Alone'
  BY <1>0 DEF Inv, Shape, Alone, Resting
<1> QED BY <1>1, <1>2, <1>3, <1>4 DEF Inv

(* The actions that abandon a transaction.                                  *)
LEMMA AbandonStep ==
  ASSUME Inv, NEW p \in Process, NEW stage \in Resting, Abandon(p, stage),
         p = Operator => stage = "down",
         env' = env, crashes' \in 0..MaxCrashes, reverts' = reverts
  PROVE  Inv'
<1> USE DEF Abandon, Goto, Seeded, tables
<1>0. Operator \in Process /\ Operator \notin Instance
  BY DeploymentAssumption DEF Process
<1>1. Shape'
  <2>1. todo' \in [Process -> Seq(Object)]
    BY EmptySeq DEF Inv, Shape
  <2>2. stage \in Stage
    BY DEF Resting, Stage
  <2> QED BY <2>1, <2>2 DEF Inv, Shape
<1>2. SchemaMatchesJournal'
  BY DEF Inv, SchemaMatchesJournal, Objects
<1>3. ASSUME NEW j \in Instance PROVE Chained(j)'
  <2>1. Chained(j) /\ j \in Process
    BY DEF Inv, Process
  <2>2. CASE j # p
    BY <2>1, <2>2 DEF Inv, Shape, Chained
  <2>3. CASE j = p
    BY <2>1, <2>3 DEF Inv, Shape, Chained, Seeding, Known, Resting
  <2> QED BY <2>2, <2>3
<1>4. Alone'
  <2>1. CASE p = Operator
    BY <1>0, <2>1 DEF Inv, Shape, Alone
  <2>2. CASE p # Operator
    BY <1>0, <2>2 DEF Inv, Shape, Alone, Resting
  <2> QED BY <2>1, <2>2
<1> QED BY <1>1, <1>2, <1>3, <1>4 DEF Inv

(* A script that fails rolls its transaction back.                          *)
LEMMA FailStep ==
  ASSUME Inv, NEW i \in Instance,
         \/ CreateTableFails(i) \/ CreateObjectFails(i) \/ SeedUnconfigured(i)
         \/ InsertAdminFails(i) \/ UpdateAdminFails(i) \/ BootFails(i)
  PROVE  Inv'
<1>1. Abandon(i, "failed") /\ UNCHANGED counts
  BY DEF CreateTableFails, CreateObjectFails, SeedUnconfigured, InsertAdminFails,
         UpdateAdminFails, BootFails, Fail
<1>2. i \in Process /\ i # Operator /\ "failed" \in Resting
  BY DeploymentAssumption DEF Process, Resting
<1>3. env' = env /\ crashes' \in 0..MaxCrashes /\ reverts' = reverts
  BY <1>1 DEF counts, Inv, Shape
<1> QED BY <1>1, <1>2, <1>3, AbandonStep

(* So does the connection of a process that dies.                           *)
LEMMA CrashStep == ASSUME Inv, NEW p \in Process, Crash(p) PROVE Inv'
<1>1. env' = env /\ crashes' \in 0..MaxCrashes /\ reverts' = reverts
  BY DeploymentAssumption DEF Crash, Inv, Shape
<1>2. Abandon(p, "down") /\ "down" \in Resting
  BY DEF Crash, Resting
<1> QED BY <1>1, <1>2, AbandonStep

(* The journal is created: there was none, so the schema was empty.         *)
LEMMA CreateTableStep == ASSUME Inv, NEW i \in Instance, CreateTable(i) PROVE Inv'
<1> USE DEF CreateTable, Goto, Seeded, counts, private
<1>0. i \in Process /\ i # Operator /\ Operator \in Process
  BY DeploymentAssumption DEF Process
<1>1. Shape'
  BY <1>0, Schemas DEF Inv, Shape, Stage, NoTable
<1>2. SchemaMatchesJournal'
  BY Schemas DEF Inv, SchemaMatchesJournal, NoTable
<1>3. ASSUME NEW j \in Instance PROVE Chained(j)'
  <2>1. Chained(j) /\ j \in Process /\ Latest # NoTable /\ NoTable # 0
    BY Schemas DEF Inv, Process, NoTable
  <2>2. CASE j # i
    BY <1>0, <2>1, <2>2 DEF Inv, Shape, Chained, Seeding
  <2>3. CASE j = i
    BY <1>0, <2>1, <2>3 DEF Inv, Shape, Chained, Seeding, Known
  <2> QED BY <2>2, <2>3
<1>4. Alone'
  BY <1>0 DEF Inv, Shape, Alone, Resting
<1> QED BY <1>1, <1>2, <1>3, <1>4 DEF Inv

(* The pending migrations are loaded: with the schema they make a whole.    *)
LEMMA LoadStep == ASSUME Inv, NEW i \in Instance, Load(i) PROVE Inv'
<1> USE DEF Load, Goto, Seeded, tables, counts
<1>0. i \in Process /\ i # Operator /\ Operator \in Process
  BY DeploymentAssumption DEF Process
<1>1. Pending(journal) \in Seq(Object) /\ Object \subseteq catalog \cup ToSet(Pending(journal))
  BY PendingCompletes DEF Inv, Shape, SchemaMatchesJournal
<1>2. Shape'
  BY <1>0, <1>1 DEF Inv, Shape, Stage
<1>3. SchemaMatchesJournal'
  BY DEF Inv, SchemaMatchesJournal, Objects
<1>4. ASSUME NEW j \in Instance PROVE Chained(j)'
  <2>1. Chained(j) /\ j \in Process
    BY DEF Inv, Process
  <2>2. CASE j # i
    BY <1>0, <2>1, <2>2 DEF Inv, Shape, Chained
  <2>3. CASE j = i
    <3>1. todo'[i] = Pending(journal) /\ pc'[i] \in {"find", "migrate"}
          /\ (pc'[i] = "find" => journal = Latest)
      BY <1>0 DEF Inv, Shape
    <3> QED BY <1>0, <1>1, <2>1, <2>3, <3>1 DEF Inv, Shape, Chained, Seeding, Known
  <2> QED BY <2>2, <2>3
<1>5. Alone'
  BY <1>0 DEF Inv, Shape, Alone, Resting
<1> QED BY <1>2, <1>3, <1>4, <1>5 DEF Inv

(* An object goes from what is to do to what is done.                       *)
LEMMA CreateObjectStep == ASSUME Inv, NEW i \in Instance, CreateObject(i) PROVE Inv'
<1> USE DEF CreateObject, Goto, Seeded, tables, counts
<1>0. i \in Process /\ i # Operator /\ Operator \in Process
  BY DeploymentAssumption DEF Process
<1>1. /\ Tail(todo[i]) \in Seq(Object) /\ Head(todo[i]) \in Object
      /\ ToSet(todo[i]) = {Head(todo[i])} \cup ToSet(Tail(todo[i]))
  <2>1. todo[i] \in Seq(Object) /\ todo[i] # <<>>
    BY <1>0 DEF Inv, Shape
  <2> QED BY <2>1, HeadElements
<1>2. Shape'
  BY <1>0, <1>1 DEF Inv, Shape
<1>3. SchemaMatchesJournal'
  BY DEF Inv, SchemaMatchesJournal, Objects
<1>4. ASSUME NEW j \in Instance PROVE Chained(j)'
  <2>1. Chained(j) /\ j \in Process
    BY DEF Inv, Process
  <2>2. CASE j # i
    BY <1>0, <2>1, <2>2 DEF Inv, Shape, Chained
  <2>3. CASE j = i
    <3>1. todo'[i] = Tail(todo[i]) /\ done'[i] = done[i] \cup {Head(todo[i])}
      BY <1>0 DEF Inv, Shape
    <3> QED BY <1>1, <2>1, <2>3, <3>1 DEF Chained
  <2> QED BY <2>2, <2>3
<1>5. Alone'
  BY <1>0 DEF Inv, Shape, Alone, Resting
<1> QED BY <1>2, <1>3, <1>4, <1>5 DEF Inv

(* Nothing is left to do: the transaction completes the schema.             *)
LEMMA CommitMigrationsStep == ASSUME Inv, NEW i \in Instance, CommitMigrations(i) PROVE Inv'
<1> USE DEF CommitMigrations, Goto, Seeded, counts
<1>0. i \in Process /\ i # Operator /\ Operator \in Process
  BY DeploymentAssumption DEF Process
<1>1. catalog' = Object /\ Latest \in NoTable..Latest /\ Latest # NoTable
  <2>1. Object \subseteq catalog \cup done[i]
    BY NoElements DEF Inv, Chained
  <2>2. catalog \subseteq Object /\ done[i] \subseteq Object
    BY <1>0 DEF Inv, Shape
  <2> QED BY <2>1, <2>2, Schemas DEF NoTable
<1>2. Shape'
  BY <1>0, <1>1 DEF Inv, Shape, Stage
<1>3. SchemaMatchesJournal'
  BY <1>1 DEF SchemaMatchesJournal, Object, Objects
<1>4. ASSUME NEW j \in Instance PROVE Chained(j)'
  <2>1. Chained(j) /\ j \in Process
    BY DEF Inv, Process
  <2>2. CASE j # i
    BY <1>0, <1>1, <2>1, <2>2 DEF Inv, Shape, Chained
  <2>3. CASE j = i
    BY <1>0, <1>1, <2>1, <2>3 DEF Inv, Shape, Chained, Seeding, Known
  <2> QED BY <2>2, <2>3
<1>5. Alone'
  BY <1>0 DEF Inv, Shape, Alone, Resting
<1> QED BY <1>2, <1>3, <1>4, <1>5 DEF Inv

(* The seed changes the users, and neither the schema nor the journal, and  *)
(* leaves behind the user it was asked for.                                 *)
LEMMA SeedStep ==
  ASSUME Inv, NEW i \in Instance, InsertAdmin(i) \/ UpdateAdmin(i)
  PROVE  Inv'
<1> USE DEF InsertAdmin, UpdateAdmin, Goto, counts, private
<1>0. i \in Process /\ i # Operator /\ Operator \in Process
  BY DeploymentAssumption DEF Process
<1>1. phones' \in [Phone -> Owner] /\ Seeded'
  <2>1. env[i].phone \in Phone
    BY DeploymentAssumption DEF Inv, Shape
  <2>2. TakeNumber(i) /\ phones \in [Phone -> Owner]
    BY DEF Inv, Shape
  <2> QED BY <2>1, <2>2 DEF TakeNumber, Owner, Seeded
<1>2. Shape'
  BY <1>0, <1>1 DEF Inv, Shape, Stage
<1>3. SchemaMatchesJournal'
  BY DEF Inv, SchemaMatchesJournal, Objects
<1>4. ASSUME NEW j \in Instance PROVE Chained(j)'
  <2>1. Chained(j) /\ j \in Process
    BY DEF Inv, Process
  <2>2. CASE j # i
    BY <1>0, <1>1, <2>1, <2>2 DEF Inv, Shape, Chained
  <2>3. CASE j = i
    BY <1>0, <1>1, <2>1, <2>3 DEF Inv, Shape, Chained, Seeding, Known
  <2> QED BY <2>2, <2>3
<1>5. Alone'
  BY <1>0 DEF Inv, Shape, Alone, Resting
<1> QED BY <1>2, <1>3, <1>4, <1>5 DEF Inv

(* A customer takes a number that nobody has, so not the administrator's.   *)
LEMMA RegisterStep == ASSUME Inv, NEW p \in Phone, Register(p) PROVE Inv'
<1> USE DEF Register, counts, private
<1>1. phones' \in [Phone -> Owner] /\ (Seeded => Seeded')
  <2>1. phones \in [Phone -> Owner]
    BY DEF Inv, Shape
  <2> QED BY <2>1 DEF Owner, Seeded
<1>2. Shape'
  BY <1>1 DEF Inv, Shape
<1>3. SchemaMatchesJournal'
  BY DEF Inv, SchemaMatchesJournal, Objects
<1>4. ASSUME NEW j \in Instance PROVE Chained(j)'
  BY <1>1 DEF Inv, Chained
<1>5. Alone'
  BY DEF Inv, Alone
<1> QED BY <1>2, <1>3, <1>4, <1>5 DEF Inv

(* A revert begins while nothing else runs, with all that its migration     *)
(* created.                                                                 *)
LEMMA BeginRevertStep == ASSUME Inv, BeginRevert PROVE Inv'
<1> USE DEF BeginRevert, Goto, tables
<1>0. Operator \in Process /\ Operator \notin Instance
  BY DeploymentAssumption DEF Process
<1>1. journal \in 1..Latest /\ Down[journal] \in Seq(Object)
      /\ ToSet(Down[journal]) = ToSet(Up[journal])
  <2>1. journal \in 1..Latest
    BY Schemas DEF Inv, Shape, NoTable
  <2> QED BY <2>1, RevertGoesBack
<1>2. Shape'
  BY <1>0, <1>1, DeploymentAssumption DEF Inv, Shape, Stage
<1>3. SchemaMatchesJournal'
  BY DEF Inv, SchemaMatchesJournal, Objects
<1>4. \A j \in Instance : pc'[j] \in Resting
  BY <1>0 DEF Inv, Shape, Resting, Process
<1>5. ASSUME NEW j \in Instance PROVE Chained(j)'
  BY <1>4 DEF Chained, Resting, Seeding, Known
<1>6. Alone'
  <2>1. done[Operator] = {}
    BY <1>0 DEF Inv, Alone
  <2>2. done'[Operator] = {} /\ todo'[Operator] = Down[journal] /\ pc'[Operator] = "revert"
    BY <1>0, <2>1 DEF Inv, Shape
  <2> QED BY <1>1, <1>4, <2>2 DEF Alone
<1> QED BY <1>2, <1>3, <1>5, <1>6 DEF Inv

(* A statement of down() takes one object off what it has left to do.       *)
LEMMA DropObjectStep == ASSUME Inv, DropObject PROVE Inv'
<1> USE DEF DropObject, tables, counts
<1>0. Operator \in Process /\ Operator \notin Instance
  BY DeploymentAssumption DEF Process
<1>1. /\ Tail(todo[Operator]) \in Seq(Object) /\ Head(todo[Operator]) \in Object
      /\ ToSet(todo[Operator]) = {Head(todo[Operator])} \cup ToSet(Tail(todo[Operator]))
  <2>1. todo[Operator] \in Seq(Object) /\ todo[Operator] # <<>>
    BY <1>0 DEF Inv, Shape
  <2> QED BY <2>1, HeadElements
<1>2. Shape'
  BY <1>0, <1>1 DEF Inv, Shape
<1>3. SchemaMatchesJournal'
  BY DEF Inv, SchemaMatchesJournal, Objects
<1>4. ASSUME NEW j \in Instance PROVE Chained(j)'
  BY <1>0 DEF Inv, Shape, Chained, Seeded, Process
<1>5. Alone'
  <2>1. todo'[Operator] = Tail(todo[Operator])
        /\ done'[Operator] = done[Operator] \cup {Head(todo[Operator])}
    BY <1>0 DEF Inv, Shape
  <2> QED BY <1>1, <2>1 DEF Inv, Alone
<1> QED BY <1>2, <1>3, <1>4, <1>5 DEF Inv

(* What is dropped is what the last migration created.                      *)
LEMMA CommitRevertStep == ASSUME Inv, CommitRevert PROVE Inv'
<1> USE DEF CommitRevert, Goto, counts
<1>0. Operator \in Process /\ Operator \notin Instance
  BY DeploymentAssumption DEF Process
<1>1. journal \in 1..Latest /\ journal - 1 \in NoTable..Latest
  BY Schemas DEF Inv, Alone, NoTable
<1>2. catalog' = Objects(journal - 1)
  <2>1. done[Operator] = ToSet(Up[journal])
    BY NoElements DEF Inv, Alone
  <2> QED BY <1>1, <2>1, RevertGoesBack DEF Inv, SchemaMatchesJournal
<1>3. Shape'
  <2>1. phones' \in [Phone -> Owner]
    BY DEF Inv, Shape, Owner
  <2>2. catalog' \subseteq Object
    BY <1>1, <1>2, ObjectsTyped
  <2> QED BY <1>0, <1>1, <2>1, <2>2 DEF Inv, Shape, Stage
<1>4. SchemaMatchesJournal'
  BY <1>2 DEF SchemaMatchesJournal, Objects
<1>5. ASSUME NEW j \in Instance PROVE Chained(j)'
  <2>1. pc'[j] \in Resting
    BY <1>0 DEF Inv, Shape, Alone, Process
  <2> QED BY <2>1 DEF Chained, Resting, Seeding, Known
<1>6. Alone'
  BY <1>0 DEF Inv, Shape, Alone
<1> QED BY <1>3, <1>4, <1>5, <1>6 DEF Inv

--------------------------------------------------------------------------------
(* The theorems.                                                            *)

(* Every step of an instance, the operator or the platform keeps the        *)
(* invariant.                                                               *)
LEMMA StepInv == Inv /\ [Next]_vars => Inv'
<1> SUFFICES ASSUME Inv, [Next]_vars PROVE Inv'
  OBVIOUS
<1>1. ASSUME NEW i \in Instance, Start(i) \/ Chain(i) \/ Stop(i) PROVE Inv'
  <2>1. CASE Start(i) \/ FindTable(i) \/ FindAdmin(i) \/ Listen(i) \/ Stop(i)
    BY <2>1, StageStep
  <2>2. CASE CreateTable(i)
    BY <2>2, CreateTableStep
  <2>3. CASE \/ CreateTableFails(i) \/ CreateObjectFails(i) \/ SeedUnconfigured(i)
             \/ InsertAdminFails(i) \/ UpdateAdminFails(i) \/ BootFails(i)
    BY <2>3, FailStep
  <2>4. CASE Load(i)
    BY <2>4, LoadStep
  <2>5. CASE CreateObject(i)
    BY <2>5, CreateObjectStep
  <2>6. CASE CommitMigrations(i)
    BY <2>6, CommitMigrationsStep
  <2>7. CASE InsertAdmin(i) \/ UpdateAdmin(i)
    BY <2>7, SeedStep
  <2> QED BY <1>1, <2>1, <2>2, <2>3, <2>4, <2>5, <2>6, <2>7 DEF Chain
<1>2. ASSUME NEW p \in Process, Crash(p) PROVE Inv'
  BY <1>2, CrashStep
<1>3. CASE BeginRevert \/ DropObject \/ CommitRevert
  BY <1>3, BeginRevertStep, DropObjectStep, CommitRevertStep
<1>4. CASE UNCHANGED vars
  BY <1>4 DEF vars, Inv, Shape, SchemaMatchesJournal, Objects, Chained, Seeded, Alone
<1>5. ASSUME NEW p \in Phone, Register(p) PROVE Inv'
  BY <1>5, RegisterStep
<1> QED BY <1>1, <1>2, <1>3, <1>4, <1>5 DEF Next

(* The schema, the journal and the chains agree in every reachable state.   *)
LEMMA InvHolds == Spec => []Inv
BY InitInv, StepInv, PTL DEF Spec

(* TypeOK holds for any instances: what transactions create and drop are    *)
(* objects of the four migrations.                                          *)
THEOREM DeploymentTypes == Spec => []TypeOK
<1>1. ASSUME NEW s \in Seq(Object) PROVE ToSet(s) \subseteq Object
  BY LenProperties, ElementOfSeq DEF ToSet
<1>2. Inv => TypeOK
  BY <1>1 DEF Inv, Shape, TypeOK, Object
<1> QED BY <1>2, InvHolds, PTL

(* SchemaMatchesJournal: however many instances migrate at once, however    *)
(* often they die and whatever is reverted, the schema is that of the       *)
(* recorded migrations.                                                     *)
THEOREM SchemaIntact == Spec => []SchemaMatchesJournal
<1>1. Inv => SchemaMatchesJournal
  BY DEF Inv
<1> QED BY <1>1, InvHolds, PTL

(* ServesComplete: no instance takes requests without the whole schema, an  *)
(* administrator and a valid environment, also when another instance        *)
(* migrated or seeded for it.                                               *)
THEOREM OnlyCompleteServe == Spec => []ServesComplete
<1>1. ASSUME Inv, NEW i \in Instance, pc[i] = "serving"
      PROVE  journal = Latest /\ catalog = Objects(Latest) /\ Seeded
             /\ env[i].parts = {"admin", "service"}
  <2>1. journal = Latest /\ Seeded /\ {"admin", "service"} \subseteq env[i].parts
    BY <1>1 DEF Inv, Chained, Seeding, Known
  <2>2. env[i].parts \subseteq {"admin", "service"}
    BY <1>1, DeploymentAssumption DEF Inv, Shape
  <2> QED BY <1>1, <2>1, <2>2 DEF Inv, SchemaMatchesJournal
<1>2. Inv => ServesComplete
  BY <1>1 DEF ServesComplete
<1> QED BY <1>2, InvHolds, PTL

--------------------------------------------------------------------------------
(* Failures: the statements of a transaction are always possible unless     *)
(* another instance has committed the same migrations.                      *)

(* s can be executed one statement after the other where seen is there.     *)
Executable(s, seen) ==
  \A m \in DOMAIN s :
    /\ s[m] \notin seen /\ \A l \in 1..(m - 1) : s[l] # s[m]
    /\ Uses(s[m]) \subseteq seen \cup {s[l] : l \in 1..(m - 1)}

Orderly(i) ==
  /\ pc[i] # "migrate" => done[i] = {}
  /\ pc[i] = "migrate" /\ journal # Latest => Executable(todo[i], catalog \cup done[i])

(* A sequence that can be executed can be executed by one statement at a    *)
(* time.                                                                    *)
LEMMA FirstStatement ==
  ASSUME NEW s \in Seq(Object), s # <<>>, NEW seen, Executable(s, seen)
  PROVE  Possible(Head(s), seen) /\ Executable(Tail(s), seen \cup {Head(s)})
<1>1. /\ Tail(s) \in Seq(Object) /\ Len(Tail(s)) = Len(s) - 1 /\ Len(s) \in Nat \ {0}
      /\ \A k \in 1..Len(Tail(s)) : Tail(s)[k] = s[k + 1]
  BY HeadTailProperties
<1>2. Head(s) = s[1] /\ DOMAIN s = 1..Len(s) /\ DOMAIN Tail(s) = 1..(Len(s) - 1)
  BY <1>1
<1>3. Possible(Head(s), seen)
  <2>1. 1 \in DOMAIN s /\ 1..(1 - 1) = {}
    BY <1>1, <1>2
  <2>2. {s[l] : l \in 1..(1 - 1)} = {}
    BY <2>1
  <2> QED BY <1>2, <2>1, <2>2 DEF Executable, Possible
<1>4. ASSUME NEW m \in 1..(Len(s) - 1)
      PROVE  /\ Tail(s)[m] \notin seen \cup {Head(s)}
             /\ \A l \in 1..(m - 1) : Tail(s)[l] # Tail(s)[m]
             /\ Uses(Tail(s)[m])
                  \subseteq (seen \cup {Head(s)}) \cup {Tail(s)[l] : l \in 1..(m - 1)}
  <2>1. m + 1 \in DOMAIN s /\ (m + 1) - 1 = m /\ Tail(s)[m] = s[m + 1]
    BY <1>1, <1>2
  <2>2. /\ s[m + 1] \notin seen /\ \A l \in 1..m : s[l] # s[m + 1]
        /\ Uses(s[m + 1]) \subseteq seen \cup {s[l] : l \in 1..m}
    BY <2>1 DEF Executable
  <2>3. \A l \in 1..(m - 1) : Tail(s)[l] = s[l + 1] /\ l + 1 \in 1..m
    BY <1>1
  <2>4. {s[l] : l \in 1..m} \subseteq {Head(s)} \cup {Tail(s)[l] : l \in 1..(m - 1)}
    <3>1. ASSUME NEW l \in 1..m, l # 1
          PROVE  l - 1 \in 1..(m - 1) /\ Tail(s)[l - 1] = s[l]
      BY <1>1, <3>1
    <3>2. ASSUME NEW l \in 1..m
          PROVE  s[l] \in {Head(s)} \cup {Tail(s)[k] : k \in 1..(m - 1)}
      <4>1. CASE l = 1
        BY <1>2, <4>1
      <4>2. CASE l # 1
        BY <3>1, <4>2
      <4> QED BY <4>1, <4>2
    <3> QED BY <3>2
  <2>5. Tail(s)[m] \notin seen \cup {Head(s)}
    <3>1. 1 \in 1..m
      OBVIOUS
    <3> QED BY <1>2, <2>1, <2>2, <3>1
  <2>6. \A l \in 1..(m - 1) : Tail(s)[l] # Tail(s)[m]
    BY <2>1, <2>2, <2>3
  <2>7. Uses(Tail(s)[m]) \subseteq (seen \cup {Head(s)}) \cup {Tail(s)[l] : l \in 1..(m - 1)}
    BY <2>1, <2>2, <2>4
  <2> QED BY <2>5, <2>6, <2>7
<1> QED BY <1>2, <1>3, <1>4 DEF Executable

(* So can two sequences, if the second can after the first.                 *)
LEMMA OneAfterTheOther ==
  ASSUME NEW s \in Seq(Object), NEW t \in Seq(Object), NEW seen,
         Executable(s, seen), Executable(t, seen \cup ToSet(s))
  PROVE  Executable(s \o t, seen)
<1> DEFINE n == Len(s)
           u == s \o t
<1>1. /\ n \in Nat /\ Len(t) \in Nat /\ DOMAIN s = 1..n /\ DOMAIN t = 1..Len(t)
      /\ DOMAIN u = 1..(n + Len(t))
  BY ConcatProperties
<1>2. \A k \in 1..(n + Len(t)) : u[k] = IF k <= n THEN s[k] ELSE t[k - n]
  BY ConcatProperties
<1> HIDE DEF n, u
<1>3. ASSUME NEW m \in 1..(n + Len(t))
      PROVE  /\ u[m] \notin seen /\ \A l \in 1..(m - 1) : u[l] # u[m]
             /\ Uses(u[m]) \subseteq seen \cup {u[l] : l \in 1..(m - 1)}
  <2>1. CASE m <= n
    <3>1. \A l \in 1..m : u[l] = s[l] /\ l \in DOMAIN s
      BY <1>1, <1>2, <2>1
    <3>2. m \in DOMAIN s /\ u[m] = s[m] /\ \A l \in 1..(m - 1) : u[l] = s[l]
      BY <1>1, <3>1
    <3>3. {u[l] : l \in 1..(m - 1)} = {s[l] : l \in 1..(m - 1)}
      BY <3>2
    <3> QED BY <3>2, <3>3 DEF Executable
  <2>2. CASE m > n
    <3>1. m - n \in DOMAIN t /\ u[m] = t[m - n]
      BY <1>1, <1>2, <2>2
    <3>2. /\ t[m - n] \notin seen \cup ToSet(s)
          /\ \A l \in 1..(m - n - 1) : t[l] # t[m - n]
          /\ Uses(t[m - n]) \subseteq (seen \cup ToSet(s)) \cup {t[l] : l \in 1..(m - n - 1)}
      BY <3>1 DEF Executable
    <3>3. \A l \in 1..n : u[l] = s[l] /\ u[l] \in ToSet(s) /\ l \in 1..(m - 1)
      BY <1>1, <1>2, <2>2 DEF ToSet
    <3>4. ASSUME NEW l \in 1..(m - 1), l > n
          PROVE  l - n \in 1..(m - n - 1) /\ u[l] = t[l - n]
      BY <1>1, <1>2, <3>4
    <3>5. ASSUME NEW l \in 1..(m - n - 1) PROVE n + l \in 1..(m - 1) /\ u[n + l] = t[l]
      <4>1. n + l \in 1..(m - 1) /\ n + l \in 1..(n + Len(t)) /\ ~ n + l <= n /\ (n + l) - n = l
        BY <1>1, <2>2
      <4> QED BY <1>2, <4>1
    <3>6. \A l \in 1..(m - 1) : u[l] # u[m]
      <4>1. ASSUME NEW l \in 1..(m - 1) PROVE u[l] # u[m]
        <5>1. CASE l <= n
          BY <1>1, <3>1, <3>2, <3>3, <5>1
        <5>2. CASE l > n
          BY <3>1, <3>2, <3>4, <5>2
        <5> QED BY <1>1, <5>1, <5>2
      <4> QED BY <4>1
    <3>7. ToSet(s) \subseteq {u[l] : l \in 1..(m - 1)}
      BY <1>1, <3>3 DEF ToSet
    <3>8. {t[l] : l \in 1..(m - n - 1)} \subseteq {u[l] : l \in 1..(m - 1)}
      BY <3>5
    <3> QED BY <3>1, <3>2, <3>6, <3>7, <3>8
  <2> QED BY <1>1, <2>1, <2>2
<1> QED BY <1>1, <1>3 DEF Executable, u

(* Each migration finds what the ones before it have created.               *)
LEMMA EachExecutable ==
  /\ Executable(CreateUsersAndWallets, Objects(0))
  /\ Executable(AddUserBlockMetadata, Objects(1))
  /\ Executable(CreateTransfers, Objects(2))
  /\ Executable(CreateWalletFundings, Objects(3))
<1> DEFINE A == {"user_role", "user_status", "users", "wallets"}
           C == {"transfer_status", "transfer_failure_code", "transfers", "IDX_transfers"}
<1>1. /\ Objects(0) = {} /\ Objects(1) = A /\ Objects(2) = A \cup {"users.blocked"}
      /\ Objects(3) = A \cup {"users.blocked"} \cup C
  BY Schemas, Created
<1>2. /\ 1..(1 - 1) = {} /\ 1..(2 - 1) = {1} /\ 1..(3 - 1) = {1, 2} /\ 1..(4 - 1) = {1, 2, 3}
      /\ 1..4 = {1, 2, 3, 4} /\ 1..1 = {1}
  OBVIOUS
<1>3. Executable(CreateUsersAndWallets, {})
  <2> DEFINE s == CreateUsersAndWallets
  <2>1. /\ DOMAIN s = 1..4 /\ s[1] = "user_role" /\ s[2] = "user_status" /\ s[3] = "users"
        /\ s[4] = "wallets"
    BY DEF CreateUsersAndWallets
  <2>2. /\ Uses("user_role") = {} /\ Uses("user_status") = {}
        /\ Uses("users") = {"user_role", "user_status"} /\ Uses("wallets") = {"users"}
    BY DEF Uses
  <2> HIDE DEF s
  <2>3. ASSUME NEW m \in 1..4
        PROVE  /\ \A l \in 1..(m - 1) : s[l] # s[m]
               /\ Uses(s[m]) \subseteq {s[l] : l \in 1..(m - 1)}
    BY <1>2, <2>1, <2>2
  <2> QED BY <2>1, <2>3 DEF Executable, s
<1>4. Executable(AddUserBlockMetadata, A)
  <2>1. DOMAIN AddUserBlockMetadata = 1..1 /\ AddUserBlockMetadata[1] = "users.blocked"
        /\ Uses("users.blocked") = {"users"}
    BY DEF AddUserBlockMetadata, Uses
  <2> QED BY <1>2, <2>1 DEF Executable
<1>5. Executable(CreateTransfers, A \cup {"users.blocked"})
  <2> DEFINE s == CreateTransfers
  <2>1. /\ DOMAIN s = 1..4 /\ s[1] = "transfer_status" /\ s[2] = "transfer_failure_code"
        /\ s[3] = "transfers" /\ s[4] = "IDX_transfers"
    BY DEF CreateTransfers
  <2>2. /\ Uses("transfer_status") = {} /\ Uses("transfer_failure_code") = {}
        /\ Uses("transfers") = {"transfer_status", "transfer_failure_code", "wallets"}
        /\ Uses("IDX_transfers") = {"transfers"}
    BY DEF Uses
  <2> HIDE DEF s
  <2>3. ASSUME NEW m \in 1..4
        PROVE  /\ s[m] \notin A \cup {"users.blocked"} /\ \A l \in 1..(m - 1) : s[l] # s[m]
               /\ Uses(s[m]) \subseteq {"wallets"} \cup {s[l] : l \in 1..(m - 1)}
    BY <1>2, <2>1, <2>2
  <2> QED BY <2>1, <2>3 DEF Executable, s
<1>6. Executable(CreateWalletFundings, A \cup {"users.blocked"} \cup C)
  <2>1. DOMAIN CreateWalletFundings = 1..1 /\ CreateWalletFundings[1] = "wallet_fundings"
        /\ Uses("wallet_fundings") = {"wallets"}
    BY DEF CreateWalletFundings, Uses
  <2> QED BY <1>2, <2>1 DEF Executable
<1> QED BY <1>1, <1>3, <1>4, <1>5, <1>6

(* The same, with the objects that both of them create.                     *)
LEMMA Extended ==
  ASSUME NEW s \in Seq(Object), NEW t \in Seq(Object), NEW seen,
         Executable(s, seen), Executable(t, seen \cup ToSet(s))
  PROVE  \E u \in Seq(Object) :
           u = s \o t /\ ToSet(u) = ToSet(s) \cup ToSet(t) /\ Executable(u, seen)
<1>1. s \o t \in Seq(Object) /\ ToSet(s \o t) = ToSet(s) \cup ToSet(t)
  BY ConcatElements
<1>2. Executable(s \o t, seen)
  BY OneAfterTheOther
<1> QED BY <1>1, <1>2

(* What is pending can be executed on the schema that the journal           *)
(* describes.                                                               *)
LEMMA PendingExecutable ==
  ASSUME NEW n \in NoTable..Latest
  PROVE  Executable(Pending(n), Objects(n))
<1> DEFINE A == CreateUsersAndWallets
           B == AddUserBlockMetadata
           C == CreateTransfers
           D == CreateWalletFundings
<1>1. A \in Seq(Object) /\ B \in Seq(Object) /\ C \in Seq(Object) /\ D \in Seq(Object)
  BY CreateTyped
<1>2. /\ Executable(A, Objects(0)) /\ Executable(B, Objects(1))
      /\ Executable(C, Objects(2)) /\ Executable(D, Objects(3))
  BY EachExecutable
<1>3. /\ Objects(1) = Objects(0) \cup ToSet(A) /\ Objects(2) = Objects(1) \cup ToSet(B)
      /\ Objects(3) = Objects(2) \cup ToSet(C)
  BY Schemas
<1> HIDE DEF A, B, C, D
<1>4. C \o D \in Seq(Object) /\ Executable(C \o D, Objects(2))
  BY <1>1, <1>2, <1>3, ConcatElements, OneAfterTheOther
<1>5. PICK bc \in Seq(Object) :
        bc = B \o C /\ ToSet(bc) = ToSet(B) \cup ToSet(C) /\ Executable(bc, Objects(1))
  <2>1. Executable(C, Objects(1) \cup ToSet(B))
    BY <1>2, <1>3
  <2> QED BY <1>1, <1>2, <2>1, Extended
<1>6. Executable(bc \o D, Objects(1))
  <2>1. Objects(1) \cup ToSet(bc) = Objects(3)
    BY <1>3, <1>5
  <2> QED BY <1>1, <1>2, <1>5, <2>1, OneAfterTheOther
<1>7. PICK ab \in Seq(Object) :
        ab = A \o B /\ ToSet(ab) = ToSet(A) \cup ToSet(B) /\ Executable(ab, Objects(0))
  <2>1. Executable(B, Objects(0) \cup ToSet(A))
    BY <1>2, <1>3
  <2> QED BY <1>1, <1>2, <2>1, Extended
<1>8. PICK abc \in Seq(Object) :
        abc = ab \o C /\ ToSet(abc) = ToSet(ab) \cup ToSet(C) /\ Executable(abc, Objects(0))
  <2>1. Objects(0) \cup ToSet(ab) = Objects(2)
    BY <1>3, <1>7
  <2>2. Executable(C, Objects(0) \cup ToSet(ab)) /\ Executable(ab, Objects(0))
    BY <1>2, <1>7, <2>1
  <2> QED BY <1>1, <2>2, Extended
<1>9. Executable(abc \o D, Objects(0))
  <2>1. Objects(0) \cup ToSet(abc) = Objects(3)
    BY <1>3, <1>7, <1>8
  <2> QED BY <1>1, <1>2, <1>8, <2>1, OneAfterTheOther
<1>10. n = -1 \/ n = 0 \/ n = 1 \/ n = 2 \/ n = 3 \/ n = 4
  BY Schemas DEF NoTable
<1>11. CASE n = 4
  <2>1. Pending(n) = <<>> /\ DOMAIN (<<>>) = {}
    BY <1>11 DEF Pending
  <2> QED BY <2>1 DEF Executable
<1>12. CASE n = 3
  BY <1>2, <1>12 DEF Pending, D
<1>13. CASE n = 2
  BY <1>4, <1>13 DEF Pending, C, D
<1>14. CASE n = 1
  BY <1>5, <1>6, <1>14 DEF Pending, B, C, D
<1>15. CASE n = 0 \/ n = -1
  <2>1. Pending(n) = A \o B \o C \o D
    BY <1>15 DEF Pending, A, B, C, D
  <2>2. Objects(n) = Objects(0) /\ abc \o D = A \o B \o C \o D
    BY <1>7, <1>8, <1>15, Schemas
  <2> QED BY <1>9, <2>1, <2>2
<1> QED BY <1>10, <1>11, <1>12, <1>13, <1>14, <1>15

(* Nobody has begun at first.                                               *)
LEMMA InitOrderly == Init => \A i \in Instance : Orderly(i)
BY DEF Init, Orderly, Process

(* One step per way to touch what a transaction depends on.                 *)
LEMMA StepOrderly ==
  ASSUME Inv, [Next]_vars, NEW i \in Instance, Orderly(i)
  PROVE  Orderly(i)'
<1>0. i \in Process /\ i # Operator /\ Operator \in Process /\ Instance \subseteq Process
  BY DeploymentAssumption DEF Process
<1>1. ASSUME NEW j \in Instance,
             \/ Start(j) \/ FindTable(j) \/ FindAdmin(j) \/ InsertAdmin(j) \/ UpdateAdmin(j)
             \/ Listen(j) \/ Stop(j)
      PROVE  Orderly(i)'
  <2>1. /\ done' = done /\ todo' = todo /\ catalog' = catalog /\ journal' = journal
        /\ pc[j] # "migrate" /\ \E s \in Stage \ {"migrate"} : pc' = [pc EXCEPT ![j] = s]
    BY <1>1 DEF Start, FindTable, FindAdmin, InsertAdmin, UpdateAdmin, Listen, Stop, Goto,
                Stage, tables, counts, private
  <2> QED BY <1>0, <2>1 DEF Inv, Shape, Orderly
<1>2. ASSUME NEW j \in Instance, CreateTable(j) PROVE Orderly(i)'
  <2>1. pc[i] # "migrate"
    BY <1>2 DEF CreateTable, Inv, Chained
  <2>2. pc'[i] # "migrate" /\ done'[i] = {}
    BY <1>0, <1>2, <2>1 DEF CreateTable, Goto, private, Inv, Shape, Orderly
  <2> QED BY <2>2 DEF Orderly
<1>3. ASSUME NEW p \in Process, NEW stage \in Resting, Abandon(p, stage) PROVE Orderly(i)'
  <2>1. CASE p = i
    BY <1>0, <1>3, <2>1 DEF Abandon, Goto, Inv, Shape, Orderly, Resting
  <2>2. CASE p # i
    BY <1>0, <1>3, <2>2 DEF Abandon, Goto, tables, Inv, Shape, Orderly
  <2> QED BY <2>1, <2>2
<1>4. ASSUME NEW j \in Instance, Load(j) PROVE Orderly(i)'
  <2>1. CASE j = i
    <3>1. done'[i] = {} /\ catalog' = Objects(journal) /\ todo'[i] = Pending(journal)
      BY <1>0, <1>4, <2>1 DEF Load, tables, Inv, Shape, SchemaMatchesJournal, Orderly
    <3>2. Executable(Pending(journal), Objects(journal))
      BY PendingExecutable DEF Inv, Shape
    <3> QED BY <3>1, <3>2 DEF Orderly
  <2>2. CASE j # i
    BY <1>0, <1>4, <2>2 DEF Load, Goto, tables, Inv, Shape, Orderly
  <2> QED BY <2>1, <2>2
<1>5. ASSUME NEW j \in Instance, CreateObject(j) PROVE Orderly(i)'
  <2>1. CASE j = i
    <3>1. /\ todo'[i] = Tail(todo[i]) /\ done'[i] = done[i] \cup {Head(todo[i])}
          /\ catalog' = catalog /\ journal' = journal /\ pc' = pc /\ pc[i] = "migrate"
      BY <1>0, <1>5, <2>1 DEF CreateObject, tables, Inv, Shape
    <3>2. todo[i] \in Seq(Object) /\ todo[i] # <<>>
      BY <1>0, <1>5, <2>1 DEF CreateObject, Inv, Shape
    <3>3. CASE journal # Latest
      <4>1. Executable(todo[i], catalog \cup done[i])
        BY <3>1, <3>3 DEF Orderly
      <4>2. Executable(Tail(todo[i]), (catalog \cup done[i]) \cup {Head(todo[i])})
        BY <3>2, <4>1, FirstStatement
      <4>3. (catalog \cup done[i]) \cup {Head(todo[i])} = catalog' \cup done'[i]
        BY <3>1
      <4> QED BY <3>1, <4>2, <4>3 DEF Orderly
    <3> QED BY <3>1, <3>3 DEF Orderly
  <2>2. CASE j # i
    BY <1>0, <1>5, <2>2 DEF CreateObject, tables, Inv, Shape, Orderly
  <2> QED BY <2>1, <2>2
<1>6. ASSUME NEW j \in Instance, CommitMigrations(j) PROVE Orderly(i)'
  BY <1>0, <1>6 DEF CommitMigrations, Goto, Inv, Shape, Orderly
<1>7. CASE BeginRevert \/ DropObject \/ CommitRevert
  <2>1. pc[i] # "migrate"
    BY <1>0, <1>7 DEF BeginRevert, DropObject, CommitRevert, Inv, Alone, Resting
  <2>2. pc'[i] # "migrate" /\ done'[i] = {}
    BY <1>0, <1>7, <2>1
       DEF BeginRevert, DropObject, CommitRevert, Goto, tables, Inv, Shape, Orderly
  <2> QED BY <2>2 DEF Orderly
<1>8. CASE UNCHANGED vars
  BY <1>8 DEF vars, Orderly
<1>9. ASSUME NEW j \in Instance,
             \/ CreateTableFails(j) \/ CreateObjectFails(j) \/ SeedUnconfigured(j)
             \/ InsertAdminFails(j) \/ UpdateAdminFails(j) \/ BootFails(j)
      PROVE  Orderly(i)'
  <2>1. Abandon(j, "failed") /\ "failed" \in Resting
    BY <1>9 DEF CreateTableFails, CreateObjectFails, SeedUnconfigured, InsertAdminFails,
                UpdateAdminFails, BootFails, Fail, Resting
  <2> QED BY <1>0, <1>3, <2>1
<1>10. ASSUME NEW p \in Process, Crash(p) PROVE Orderly(i)'
  <2>1. Abandon(p, "down") /\ "down" \in Resting
    BY <1>10 DEF Crash, Resting
  <2> QED BY <1>3, <2>1
<1>11. ASSUME NEW p \in Phone, Register(p) PROVE Orderly(i)'
  BY <1>11 DEF Register, private, Orderly
<1> QED BY <1>1, <1>2, <1>4, <1>5, <1>6, <1>7, <1>8, <1>9, <1>10, <1>11 DEF Next, Chain

(* A running migration always can execute the rest, or somebody else has    *)
(* finished it.                                                             *)
LEMMA OrderlyHolds == Spec => [](Inv /\ \A i \in Instance : Orderly(i))
<1>1. Inv /\ (\A i \in Instance : Orderly(i)) /\ [Next]_vars
        => Inv' /\ (\A i \in Instance : Orderly(i))'
  BY StepInv, StepOrderly
<1> QED BY <1>1, InitInv, InitOrderly, PTL DEF Spec

(* FailuresExplained: a script that fails was not configured, was given the *)
(* number of another user for its administrator, or has been overtaken by   *)
(* an instance that did its work, however many start at once: a statement   *)
(* of a migration fails for no other reason.                                *)
THEOREM OnlyExplainedFailures == Spec => FailuresExplained
<1> DEFINE Explained(i) ==
      pc[i] # "failed" /\ pc'[i] = "failed" =>
        \/ pc[i] = "create" /\ journal # NoTable
        \/ pc[i] = "migrate" /\ journal = Latest
        \/ pc[i] = "insert" /\ Seeded
        \/ pc[i] \in {"insert", "update"} /\ NumberTaken(i)
        \/ env[i].parts # {"admin", "service"}
<1>1. ASSUME Inv, \A i \in Instance : Orderly(i), Next, NEW i \in Instance
      PROVE  Explained(i)
  <2>0. i \in Process /\ i # Operator /\ Operator \in Process /\ Instance \subseteq Process
        /\ pc \in [Process -> Stage]
    BY <1>1, DeploymentAssumption DEF Process, Inv, Shape
  <2>1. ASSUME NEW j \in Instance,
               \/ Start(j) \/ FindTable(j) \/ CreateTable(j) \/ Load(j) \/ CreateObject(j)
               \/ CommitMigrations(j) \/ FindAdmin(j) \/ InsertAdmin(j) \/ UpdateAdmin(j)
               \/ Listen(j) \/ Stop(j)
        PROVE  Explained(i)
    BY <2>0, <2>1 DEF Start, FindTable, CreateTable, Load, CreateObject, CommitMigrations,
                      FindAdmin, InsertAdmin, UpdateAdmin, Listen, Stop, Goto
  <2>2. ASSUME NEW p \in Process, p # i \/ pc[p] = "failed", NEW stage, Abandon(p, stage)
        PROVE  Explained(i)
    BY <2>0, <2>2 DEF Abandon, Goto
  <2>3. ASSUME NEW p \in Process, Crash(p) PROVE Explained(i)
    BY <2>0, <2>3 DEF Crash, Abandon, Goto
  <2>4. CASE BeginRevert \/ DropObject \/ CommitRevert
    BY <2>0, <2>4 DEF BeginRevert, DropObject, CommitRevert, Goto
  <2>5. ASSUME NEW j \in Instance,
               \/ CreateTableFails(j) \/ CreateObjectFails(j) \/ SeedUnconfigured(j)
               \/ InsertAdminFails(j) \/ UpdateAdminFails(j) \/ BootFails(j)
        PROVE  Explained(i)
    <3>1. CASE j # i
      <4>1. Abandon(j, "failed")
        BY <2>5 DEF CreateTableFails, CreateObjectFails, SeedUnconfigured, InsertAdminFails,
                    UpdateAdminFails, BootFails, Fail
      <4> QED BY <2>0, <2>2, <3>1, <4>1
    <3>2. CASE j = i /\ CreateObjectFails(j)
      <4>1. /\ todo[i] \in Seq(Object) /\ todo[i] # <<>> /\ pc[i] = "migrate"
            /\ ~Possible(Head(todo[i]), catalog \cup done[i])
        BY <1>1, <2>0, <3>2 DEF CreateObjectFails, Inv, Shape
      <4>2. journal = Latest
        <5>1. SUFFICES ASSUME journal # Latest PROVE FALSE
          OBVIOUS
        <5>2. Executable(todo[i], catalog \cup done[i])
          BY <1>1, <4>1, <5>1 DEF Orderly
        <5> QED BY <4>1, <5>2, FirstStatement
      <4> QED BY <4>1, <4>2
    <3>3. CASE j = i /\ ~CreateObjectFails(j)
      BY <2>5, <3>3 DEF CreateTableFails, SeedUnconfigured, InsertAdminFails, UpdateAdminFails,
                        BootFails, Valid
    <3> QED BY <3>1, <3>2, <3>3
  <2>6. ASSUME NEW p \in Phone, Register(p) PROVE Explained(i)
    BY <2>6 DEF Register
  <2> QED BY <1>1, <2>1, <2>3, <2>4, <2>5, <2>6 DEF Next, Chain
<1>2. (Inv /\ \A i \in Instance : Orderly(i)) /\ [Next]_vars
        => [\A i \in Instance : Explained(i)]_vars
  BY <1>1
<1>3. [](Inv /\ \A i \in Instance : Orderly(i)) /\ [][Next]_vars => FailuresExplained
  BY <1>2, PTL DEF FailuresExplained
<1> QED BY <1>3, OrderlyHolds, PTL DEF Spec
================================================================================
