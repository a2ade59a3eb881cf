---------------------------- MODULE OnboardingProofs ----------------------------
(****************************************************************************)
(* Theorems about Onboarding: types, one account for an identity, screening *)
(* and the refinement of Registry.                                          *)
(****************************************************************************)
EXTENDS Onboarding, TLAPS

(* How a job ends, and what it is told: a success after its commit only, an *)
(* error before it only, or nothing.                                        *)
Stop(j, answer) ==
  /\ pc[j] \in Running /\ End(j, answer)
  /\ \/ answer = "lost"
     \/ pc[j] # "reply" /\ answer \in Refusal \cup {"failed"}
     \/ pc[j] = "reply" /\ answer = IF j \in Deploy THEN "seeded" ELSE "created"

(* The steps of a job that leave the tables alone.                          *)
Advance(j) ==
  \/ j \in Registration /\ (Submit(j) \/ Pass(j))
  \/ j \in Deploy /\ (Launch(j) \/ FindNobody(j) \/ FindAdmin(j) \/ LockAdmin(j)
                      \/ (Verify(j) /\ pc'[j] = "wallet") \/ KeepWallet(j))
  \/ Claim(j) \/ OpenWallet(j)

(* Every step is one of these.                                              *)
LEMMA StepCases ==
  ASSUME Next, TypeOK
  PROVE  \/ \E j \in Job : Advance(j) \/ Commit(j)
         \/ \E j \in Job, answer \in Ended : Stop(j, answer)
         \/ \E x \in Listable : List(x)
         \/ \E u \in users : SetStatus(u) \/ MoveMoney(u)
         \/ UNCHANGED vars
<1>1. ASSUME NEW r \in Registration, Hit(r) \/ ScreeningFails(r)
      PROVE  \E answer \in Ended : Stop(r, answer)
  BY <1>1 DEF Hit, ScreeningFails, Stop, Ended, Refusal, Running, Screening
<1>2. ASSUME NEW d \in Deploy, Verify(d)
      PROVE  Advance(d) \/ \E answer \in Ended : Stop(d, answer)
  <2>1. d \in Job
    BY DEF Job
  <2>2. CASE End(d, "failed")
    BY <1>2, <2>2 DEF Verify, Stop, Ended, Running
  <2>3. CASE Goto(d, "wallet")
    <3>1. pc'[d] = "wallet"
      BY <2>1, <2>3 DEF Goto, TypeOK
    <3> QED BY <1>2, <3>1 DEF Advance
  <2> QED BY <1>2, <2>2, <2>3 DEF Verify
<1>3. ASSUME NEW j \in Job, ConnectionLost(j) \/ Conflict(j) \/ Answer(j) \/ DeadlockAbort(j)
      PROVE  \E answer \in Ended : Stop(j, answer)
  <2>1. CASE DeadlockAbort(j)
    <3>1. pc[j] \in Indexing
      BY <2>1 DEF DeadlockAbort, WaitCircle, WaitsFor
    <3> QED BY <2>1, <3>1 DEF DeadlockAbort, Stop, Running, Indexing, Ended
  <2> QED BY <1>3, <2>1 DEF ConnectionLost, Conflict, Answer, Stop, Ended, Refusal, Running, Indexing
<1>4. Registration \subseteq Job /\ Deploy \subseteq Job
  BY DEF Job
<1> QED BY <1>1, <1>2, <1>3, <1>4 DEF Next, Serve, Advance

(* Types are kept.                                                          *)
LEMMA TypeStep == TypeOK /\ [Next]_vars => TypeOK'
<1> SUFFICES ASSUME TypeOK, [Next]_vars PROVE TypeOK'
  OBVIOUS
<1>a. Registration \subseteq Job /\ Deploy \subseteq Job /\ Registration \cap Deploy = {}
  BY OnboardingAssumption DEF Job
<1>1. ASSUME NEW j \in Job, Advance(j) PROVE TypeOK'
  <2>1. CASE j \in Registration /\ Submit(j)
    BY <1>a, <2>1, OnboardingAssumption
       DEF TypeOK, Submit, Goto, private, tables, Running, Screening, Identities, Identity
  <2>n. ASSUME pc[j] \in Running PROVE NewUser(j) \in User
    BY <1>a, <2>n, OnboardingAssumption DEF TypeOK, NewUser, User
  <2>2. CASE j \in Registration /\ Pass(j)
    BY <1>a, <2>2, <2>n DEF TypeOK, Pass, Goto, tables, Running, Screening, Indexing
  <2>3. CASE j \in Deploy /\ Launch(j)
    BY <1>a, <2>3 DEF TypeOK, Launch, Goto, private, tables, Running
  <2>4. CASE j \in Deploy /\ FindNobody(j)
    BY <1>a, <2>4, <2>n DEF TypeOK, FindNobody, Goto, tables, Running, Indexing
  <2>5. CASE j \in Deploy /\ FindAdmin(j)
    BY <1>a, <2>5 DEF TypeOK, FindAdmin, Goto, private, tables, Running, Indexing
  <2>6. CASE j \in Deploy /\ LockAdmin(j)
    <3>1. PICK u \in users :
            /\ written' = [written EXCEPT ![j] = {Synced(j, u)}]
            /\ claims'  = [claims EXCEPT ![j] = Identities(u)]
      BY <2>6 DEF LockAdmin
    <3>2. u \in User /\ input[j].phone \in Phone /\ input[j].password \in Password
      BY <2>6, OnboardingAssumption DEF TypeOK, LockAdmin, Running, Indexing
    <3>4. Synced(j, u) \in User /\ Identities(u) \subseteq Identity
      BY <3>2 DEF Synced, User, Identities, Identity
    <3>3. j \in Deploy /\ pc[j] = "row" /\ pc' = [pc EXCEPT ![j] = "phone"]
          /\ UNCHANGED <<tables, listed, input, opened, off>>
      BY <2>6 DEF LockAdmin, Goto
    <3> QED BY <3>1, <3>3, <3>4 DEF TypeOK, tables, Running, Indexing
  <2>7. CASE j \in Deploy /\ (Verify(j) /\ pc'[j] = "wallet") 
    <3>1. Goto(j, "wallet") /\ pc[j] = "verify" /\ UNCHANGED <<tables, listed, input, private, off>>
      BY <2>7 DEF Verify, End, Goto, TypeOK
    <3> QED BY <1>a, <2>7, <3>1 DEF TypeOK, Goto, private, tables, Running
  <2>8. CASE j \in Deploy /\ KeepWallet(j)
    BY <1>a, <2>8 DEF TypeOK, KeepWallet, Goto, private, tables, Running
  <2>9. CASE Claim(j)
    <3>1. Wanted(j) \in Identity /\ pc[j] \in Running
      BY <2>9, OnboardingAssumption
         DEF TypeOK, Claim, Wanted, Identity, Running, Indexing
    <3> DEFINE stage == CASE pc[j] = "email"                   -> "phone"
                          [] pc[j] = "phone" /\ j \in Deploy -> "verify"
                          [] OTHER                            -> "wallet"
    <3>2. stage \in {"phone", "verify", "wallet"}
      OBVIOUS
    <3>3. pc' = [pc EXCEPT ![j] = stage]
      BY <2>9 DEF Claim, Goto
    <3> HIDE DEF stage
    <3>4. pc' \in [Job -> {"idle"} \cup Running \cup Ended]
      BY <3>2, <3>3 DEF TypeOK, Running, Indexing
    <3>5. claims' \in [Job -> SUBSET Identity]
      BY <2>9, <3>1 DEF TypeOK, Claim
    <3> QED BY <2>9, <3>1, <3>3, <3>4, <3>5 DEF TypeOK, Claim, tables
  <2>10. CASE OpenWallet(j)
    <3>1. (IF j \in Deploy THEN input[j].opening ELSE 0) \in Balance
      BY <2>10, OnboardingAssumption DEF TypeOK, OpenWallet, Running, Balance
    <3> QED BY <2>10, <3>1 DEF TypeOK, OpenWallet, Goto, tables, Running
  <2> QED BY <1>1, <2>1, <2>2, <2>3, <2>4, <2>5, <2>6, <2>7, <2>8, <2>9, <2>10 DEF Advance
<1>2. ASSUME NEW j \in Job, Commit(j) PROVE TypeOK'
  <2>1. users' \subseteq User
    BY <1>2 DEF TypeOK, Commit, View
  <2>2. balance' \in [Job -> Balance \cup {NoWallet}]
    BY <1>2 DEF TypeOK, Commit
  <2> QED BY <1>2, <2>1, <2>2 DEF TypeOK, Commit, Leave, Goto, Running
<1>3. ASSUME NEW j \in Job, NEW answer \in Ended, End(j, answer) PROVE TypeOK'
  <2>1. answer \notin Running
    BY DEF Ended, Refusal, Running, Screening, Indexing
  <2> QED BY <1>3, <2>1 DEF TypeOK, End, Goto, Leave, tables
<1>4. ASSUME NEW x \in Listable, List(x) PROVE TypeOK'
  <2>1. \A j \in Job : pc[j] \in Running => Identities(input[j]) \subseteq Identity
    BY OnboardingAssumption DEF TypeOK, Identities, Identity
  <2>2. off' \in [Job -> SUBSET Identity]
    BY <1>4, <2>1 DEF TypeOK, List
  <2> QED BY <1>4, <2>2 DEF TypeOK, List, tables, private
<1>5. ASSUME NEW u \in users, SetStatus(u) PROVE TypeOK'
  BY <1>5 DEF TypeOK, SetStatus, private, User
<1>6. ASSUME NEW u \in users, MoveMoney(u) PROVE TypeOK'
  BY <1>6 DEF TypeOK, MoveMoney, private, User
<1>7. CASE UNCHANGED vars
  BY <1>7 DEF TypeOK, vars, tables, private
<1> QED BY StepCases, <1>1, <1>2, <1>3, <1>4, <1>5, <1>6, <1>7 DEF Stop

(* Every variable keeps its type.                                           *)
THEOREM OnboardingTypes == Spec => []TypeOK
<1>1. Init => TypeOK
  BY DEF Init, TypeOK, Running, Screening, Indexing
<1> QED BY <1>1, TypeStep, PTL DEF Spec

--------------------------------------------------------------------------------
(* The strengthened invariant.                                              *)

Writing == {"email", "phone", "verify", "wallet", "commit"}
Entered == Writing \ {"email"}

(* The row that j writes is its own, or replaces that of an administrator   *)
(* whose identities it keeps from everybody else.                           *)
Draft(j, v) ==
  /\ v.email = input[j].email /\ v.phone = input[j].phone /\ v.status = "ACTIVE"
  /\ v.role = IF j \in Deploy THEN "ADMIN" ELSE "CUSTOMER"
  /\ v.id # j => /\ j \in Deploy
                 /\ \E u \in users : /\ u.id = v.id /\ u.email = v.email
                                     /\ Identities(u) \subseteq claims[j]

Drafts ==
  \A j \in Job :
    /\ pc[j] \in Writing => \E v \in User : written[j] = {v} /\ Draft(j, v)
    /\ pc[j] \notin Writing => written[j] = {} /\ claims[j] = {}
    /\ pc[j] = "email" => claims[j] = {}
    /\ pc[j] \in Entered => input[j].email \in claims[j]
    /\ pc[j] \in Entered \ {"phone"} => input[j].phone \in claims[j]

(* An identity is claimed by one job, and then committed by none but the    *)
(* row that this job replaces.                                              *)
Exclusive ==
  /\ \A j, q \in Job : j # q => claims[j] \cap claims[q] = {}
  /\ \A j \in Job : \A u \in users :
       Identities(u) \cap claims[j] # {} => u.id \in Ids(written[j])

Unique == \A u, v \in users : u # v => u.id # v.id /\ Identities(u) \cap Identities(v) = {}

(* A job has an account once it has committed, and not before.              *)
Fresh ==
  \A j \in Job :
    /\ pc[j] \notin {"reply", "created", "seeded", "lost"} => j \notin Ids(users)
    /\ pc[j] = "reply" /\ j \notin Deploy => j \in Ids(users)
    /\ pc[j] = "created" => j \in Ids(users)
    /\ (pc[j] = "reply" /\ j \in Deploy) \/ pc[j] = "seeded" => \E u \in users : u.role = "ADMIN"

Funded ==
  \A j \in Job :
    /\ j \in Ids(users) <=> balance[j] # NoWallet
    /\ pc[j] # "commit" => opened[j] = NoWallet
    /\ pc[j] = "commit" => \A v \in written[j] : opened[j] = NoWallet <=> v.id \in Ids(users)
    /\ j \notin Deploy => opened[j] \in {NoWallet, 0}

Inv == TypeOK /\ Drafts /\ Exclusive /\ Unique /\ Fresh /\ Funded

(* A job leaves the private state of the others alone.                      *)
LEMMA OthersKeep ==
  ASSUME TypeOK, NEW j \in Job,
         Advance(j) \/ Commit(j) \/ \E answer \in Ended : End(j, answer)
  PROVE  \A q \in Job \ {j} :
           /\ pc'[q] = pc[q] /\ input'[q] = input[q] /\ claims'[q] = claims[q]
           /\ written'[q] = written[q] /\ opened'[q] = opened[q]
<1>1. CASE Commit(j)
  BY <1>1 DEF TypeOK, Commit, Leave, Goto
<1>2. CASE \E answer \in Ended : End(j, answer)
  BY <1>2 DEF TypeOK, End, Leave, Goto
<1>3. CASE Advance(j)
  <2>1. CASE Submit(j) \/ Launch(j) \/ Pass(j)
    BY <2>1 DEF TypeOK, Submit, Launch, Pass, Goto, private
  <2>2. CASE FindNobody(j) \/ FindAdmin(j) \/ LockAdmin(j) \/ KeepWallet(j)
    BY <2>2 DEF TypeOK, FindNobody, FindAdmin, LockAdmin, KeepWallet, Goto, private
  <2>3. CASE Verify(j)
    BY <2>3 DEF TypeOK, Verify, Goto, End, Leave, private
  <2>4. CASE Claim(j)
    BY <2>4 DEF TypeOK, Claim, Goto
  <2>5. CASE OpenWallet(j)
    BY <2>5 DEF TypeOK, OpenWallet, Goto
  <2> QED BY <1>3, <2>1, <2>2, <2>3, <2>4, <2>5 DEF Advance
<1> QED BY <1>1, <1>2, <1>3

(* What a step that commits nothing does to the job that takes it.          *)
LEMMA AdvanceEffect ==
  ASSUME Inv, NEW j \in Job, Advance(j)
  PROVE  /\ UNCHANGED tables
         /\ pc'[j] \notin {"reply", "created", "seeded", "lost"}
         /\ pc[j] \notin {"reply", "created", "seeded", "lost"}
         /\ pc'[j] # "commit" => opened'[j] = NoWallet
         /\ pc'[j] = "commit" =>
              \A v \in written'[j] : opened'[j] = NoWallet <=> v.id \in Ids(users)
         /\ j \notin Deploy => opened'[j] \in {NoWallet, 0}
<1>0. \A v \in written[j] : v.id \in Job
  BY DEF Inv, TypeOK, User
<1>1. CASE Submit(j) \/ Launch(j) \/ Pass(j)
  BY <1>1 DEF Inv, TypeOK, Funded, Submit, Launch, Pass, Goto, private, tables, Screening
<1>2. CASE FindNobody(j) \/ FindAdmin(j) \/ LockAdmin(j)
  BY <1>2 DEF Inv, TypeOK, Funded, FindNobody, FindAdmin, LockAdmin, Goto, private, tables
<1>3. CASE Verify(j) /\ pc'[j] = "wallet"
  BY <1>3 DEF Inv, TypeOK, Funded, Verify, Goto, End, Leave, private, tables
<1>4. CASE Claim(j)
  <2>1. pc'[j] \in {"phone", "verify", "wallet"}
    BY <1>4 DEF Claim, Goto, Inv, TypeOK
  <2> QED BY <1>4, <2>1 DEF Inv, TypeOK, Funded, Claim, tables
<1>5. CASE KeepWallet(j)
  <2>1. PICK v \in User : written[j] = {v}
    BY <1>5 DEF Inv, Drafts, Writing, KeepWallet
  <2>2. v.id \in Ids(users)
    BY <1>5, <1>0, <2>1 DEF KeepWallet, HasWallet, Inv, Funded
  <2> QED BY <1>5, <2>1, <2>2 DEF KeepWallet, Goto, Inv, TypeOK, Funded, tables, private
<1>6. CASE OpenWallet(j)
  <2>1. PICK v \in User : written[j] = {v}
    BY <1>6 DEF Inv, Drafts, Writing, OpenWallet
  <2>2. v.id \notin Ids(users)
    BY <1>6, <1>0, <2>1 DEF OpenWallet, HasWallet, Inv, Funded
  <2>3. pc'[j] = "commit" /\ written'[j] = {v} /\ pc[j] = "wallet" /\ UNCHANGED tables
    BY <1>6, <2>1 DEF OpenWallet, Goto, Inv, TypeOK, tables
  <2>4. opened'[j] = IF j \in Deploy THEN input[j].opening ELSE 0
    BY <1>6 DEF OpenWallet, Inv, TypeOK
  <2>5. opened'[j] \in Balance
    BY <1>6, <2>4, OnboardingAssumption DEF OpenWallet, Inv, TypeOK, Running, Balance
  <2>6. opened'[j] # NoWallet
    BY <2>5 DEF Balance, NoWallet
  <2> QED BY <2>2, <2>3, <2>4, <2>6
<1> QED BY <1>1, <1>2, <1>3, <1>4, <1>5, <1>6 DEF Advance

(* What has to be shown of a job for Drafts and Exclusive to hold of it.    *)
DraftOf(j) ==
  /\ pc[j] \in Writing => \E v \in User : written[j] = {v} /\ Draft(j, v)
  /\ pc[j] \notin Writing => written[j] = {} /\ claims[j] = {}
  /\ pc[j] = "email" => claims[j] = {}
  /\ pc[j] \in Entered => input[j].email \in claims[j]
  /\ pc[j] \in Entered \ {"phone"} => input[j].phone \in claims[j]

ExclusiveOf(j) ==
  /\ \A q \in Job \ {j} : claims[j] \cap claims[q] = {}
  /\ \A u \in users : Identities(u) \cap claims[j] # {} => u.id \in Ids(written[j])

(* A step that leaves the tables alone has to be looked at for its job only. *)
LEMMA Locally ==
  ASSUME Inv, NEW j \in Job, UNCHANGED users,
         Advance(j) \/ Commit(j) \/ \E answer \in Ended : End(j, answer),
         DraftOf(j)', ExclusiveOf(j)'
  PROVE  Drafts' /\ Exclusive'
<1>1. \A q \in Job \ {j} :
           /\ pc'[q] = pc[q] /\ input'[q] = input[q] /\ claims'[q] = claims[q]
           /\ written'[q] = written[q]
  BY OthersKeep DEF Inv
<1>2. \A q \in Job \ {j}, v \in User : Draft(q, v) => Draft(q, v)'
  BY <1>1 DEF Draft
<1>3. \A q \in Job : DraftOf(q)'
  BY <1>1, <1>2 DEF DraftOf, Inv, Drafts
<1>4. Drafts'
  BY <1>3 DEF DraftOf, Drafts
<1>5. Exclusive'
  BY <1>1 DEF ExclusiveOf, Inv, Exclusive
<1> QED BY <1>4, <1>5

(* Nobody else has claimed or committed what j may enter.                   *)
LEMMA MayEnter ==
  ASSUME Inv, NEW j \in Job, pc[j] \in Indexing, Clear(j)
  PROVE  \A q \in Job \ {j} : Wanted(j) \notin claims[q]
BY DEF Clear, WaitsFor

(* Steps before the commit keep the invariant.                              *)
LEMMA AdvanceStep ==
  ASSUME Inv, NEW j \in Job, Advance(j), TypeOK'
  PROVE  Inv'
<1>0. UNCHANGED tables /\ UNCHANGED users /\ UNCHANGED balance
  BY AdvanceEffect DEF tables
<1>e. ASSUME pc[j] \notin Writing, claims' = claims PROVE ExclusiveOf(j)'
  <2>1. claims'[j] = {}
    BY <1>e DEF Inv, Drafts
  <2> QED BY <2>1 DEF ExclusiveOf
<1>f. ASSUME UNCHANGED <<claims, written>> PROVE ExclusiveOf(j)'
  BY <1>0, <1>f DEF ExclusiveOf, Inv, Exclusive
<1>n. ASSUME pc[j] \in Running, pc[j] \notin Writing, pc'[j] = "email", input' = input,
             claims' = claims, written' = [written EXCEPT ![j] = {NewUser(j)}]
      PROVE  DraftOf(j)'
  <2>1. PICK v \in User : v = NewUser(j)
    BY <1>n, OnboardingAssumption DEF Inv, TypeOK, NewUser, User, Job
  <2>2. Draft(j, v)'
    BY <1>n, <2>1 DEF Draft, NewUser
  <2>3. claims'[j] = {} /\ written'[j] = {v}
    BY <1>n, <2>1 DEF Inv, Drafts, TypeOK
  <2> QED BY <1>n, <2>1, <2>2, <2>3 DEF DraftOf, Writing, Entered
<1>k. ASSUME UNCHANGED <<input, claims, written>>, pc[j] \in Entered \ {"phone"},
             pc'[j] \in Entered \ {"phone"}
      PROVE  DraftOf(j)'
  <2>1. \A v \in User : Draft(j, v) => Draft(j, v)'
    BY <1>0, <1>k DEF Draft
  <2> QED BY <1>k, <2>1 DEF DraftOf, Inv, Drafts, Writing, Entered
<1>1. Drafts' /\ Exclusive'
  <2>1. CASE Submit(j) \/ Launch(j) \/ FindAdmin(j)
    <3>1. pc[j] \notin Writing /\ pc'[j] \notin Writing /\ UNCHANGED <<claims, written>>
      BY <2>1 DEF Submit, Launch, FindAdmin, Goto, private, Inv, TypeOK, Writing
    <3>2. DraftOf(j)'
      BY <3>1 DEF DraftOf, Inv, Drafts, Writing, Entered
    <3> QED BY <1>0, <1>e, <3>1, <3>2, Locally
  <2>2. CASE Pass(j) \/ FindNobody(j)
    <3>1. /\ pc[j] \in Running /\ pc[j] \notin Writing /\ input' = input /\ claims' = claims
          /\ \/ pc'[j] = "email" /\ written' = [written EXCEPT ![j] = {NewUser(j)}]
             \/ pc'[j] = "screenPhone" /\ UNCHANGED written
      BY <2>2 DEF Pass, FindNobody, Goto, Inv, TypeOK, Writing, Screening, Running
    <3>2. CASE pc'[j] = "email"
      BY <1>0, <1>e, <1>n, <3>1, <3>2, Locally
    <3>3. CASE pc'[j] = "screenPhone"
      <4>1. DraftOf(j)'
        BY <3>1, <3>3 DEF DraftOf, Inv, Drafts, Writing, Entered
      <4> QED BY <1>0, <1>e, <3>1, <4>1, Locally
    <3> QED BY <3>1, <3>2, <3>3
  <2>3. CASE j \in Deploy /\ LockAdmin(j)
    <3>1. PICK u \in users :
            /\ u.email = input[j].email
            /\ written' = [written EXCEPT ![j] = {Synced(j, u)}]
            /\ claims'  = [claims EXCEPT ![j] = Identities(u)]
      BY <2>3 DEF LockAdmin
    <3>2. /\ pc[j] = "row" /\ pc'[j] = "phone" /\ input' = input /\ Clear(j)
      BY <2>3 DEF LockAdmin, Goto, Inv, TypeOK
    <3>3. u \in User /\ input[j].phone \in Phone /\ input[j].password \in Password
      BY <2>3, <3>2, OnboardingAssumption DEF Inv, TypeOK, Running, Indexing
    <3>s. Synced(j, u) \in User
      BY <3>3 DEF Synced, User
    <3>p. PICK v \in User : v = Synced(j, u)
      BY <3>s
    <3>v. /\ v = Synced(j, u) /\ v.id = u.id /\ v.email = u.email
          /\ v.phone = input[j].phone /\ v.status = "ACTIVE" /\ v.role = "ADMIN"
      BY <3>3, <3>p DEF Synced, User
    <3>w. written'[j] = {v} /\ claims'[j] = Identities(u)
      BY <3>1, <3>v DEF Inv, TypeOK
    <3>4. Draft(j, v)'
      BY <1>0, <2>3, <3>1, <3>2, <3>v, <3>w DEF Draft
    <3>5. DraftOf(j)'
      BY <3>1, <3>2, <3>w, <3>4 DEF DraftOf, Writing, Entered, Identities
    <3>6. \A q \in Job \ {j} : Identities(u) \cap claims[q] = {}
      <4> SUFFICES ASSUME NEW q \in Job \ {j}, Identities(u) \cap claims[q] # {} PROVE FALSE
        OBVIOUS
      <4>1. u.email \notin claims[q]
        BY <3>1, <3>2, MayEnter DEF Wanted, Indexing
      <4>2. u.id \in Ids(written[q])
        BY DEF Inv, Exclusive
      <4>3. pc[q] \in Writing
        BY DEF Inv, Drafts
      <4>4. PICK t \in User : written[q] = {t} /\ Draft(q, t)
        BY <4>3 DEF Inv, Drafts
      <4>5. t.id = u.id
        BY <4>2, <4>4 DEF Ids
      <4>6. t.id # q
        <5>1. q \notin Ids(users)
          BY <4>3 DEF Inv, Fresh, Writing
        <5> QED BY <4>5, <5>1 DEF Ids
      <4>7. PICK w \in users : w.id = t.id /\ Identities(w) \subseteq claims[q]
        BY <4>4, <4>6 DEF Draft
      <4>8. w = u
        BY <4>5, <4>7 DEF Inv, Unique
      <4> QED BY <4>1, <4>7, <4>8 DEF Identities
    <3>7. \A w \in users : Identities(w) \cap Identities(u) # {} => w.id \in Ids({v})
      BY <3>v DEF Inv, Unique, Ids
    <3>8. \A q \in Job \ {j} : claims'[q] = claims[q]
      BY <3>1 DEF Inv, TypeOK
    <3>9. ExclusiveOf(j)'
      BY <1>0, <3>w, <3>6, <3>7, <3>8 DEF ExclusiveOf
    <3> QED BY <1>0, <3>5, <3>9, Locally
  <2>4. CASE j \in Deploy /\ ((Verify(j) /\ pc'[j] = "wallet") \/ KeepWallet(j))
    <3>1. /\ UNCHANGED <<input, claims, written>> /\ pc[j] \in Entered \ {"phone"}
          /\ pc'[j] \in Entered \ {"phone"}
      BY <2>4 DEF Verify, KeepWallet, End, Goto, private, Entered, Writing, Inv, TypeOK
    <3> QED BY <1>0, <1>f, <1>k, <3>1, Locally
  <2>5. CASE OpenWallet(j)
    <3>1. /\ UNCHANGED <<input, claims, written>> /\ pc[j] \in Entered \ {"phone"}
          /\ pc'[j] \in Entered \ {"phone"}
      BY <2>5 DEF OpenWallet, Goto, Entered, Writing, Inv, TypeOK
    <3> QED BY <1>0, <1>f, <1>k, <3>1, Locally
  <2>6. CASE Claim(j)
    <3>1. /\ pc[j] \in {"email", "phone"} /\ Clear(j) /\ ~Taken(j, Wanted(j))
          /\ claims'[j] = claims[j] \cup {Wanted(j)} /\ UNCHANGED <<input, written>>
          /\ \A q \in Job \ {j} : claims'[q] = claims[q]
      BY <2>6 DEF Claim, Inv, TypeOK
    <3>2. /\ pc[j] = "email" => pc'[j] = "phone"
          /\ pc[j] = "phone" => pc'[j] \in Entered \ {"phone"}
      BY <2>6 DEF Claim, Goto, Inv, TypeOK, Entered, Writing
    <3>3. PICK v \in User : written[j] = {v} /\ Draft(j, v)
      BY <3>1 DEF Inv, Drafts, Writing
    <3>4. Draft(j, v)'
      BY <1>0, <3>1, <3>3 DEF Draft
    <3>5. DraftOf(j)'
      <4>1. pc[j] = "phone" => input[j].email \in claims[j]
        BY DEF Inv, Drafts, Entered, Writing
      <4> QED BY <3>1, <3>2, <3>3, <3>4, <4>1 DEF DraftOf, Entered, Writing, Wanted
    <3>6. \A q \in Job \ {j} : Wanted(j) \notin claims[q]
      BY <3>1, MayEnter DEF Indexing
    <3>7. \A u \in users : Wanted(j) \in Identities(u) => u.id \in Ids(written[j])
      BY <3>1 DEF Taken
    <3>8. ExclusiveOf(j)'
      BY <1>0, <3>1, <3>6, <3>7 DEF ExclusiveOf, Inv, Exclusive
    <3> QED BY <1>0, <3>5, <3>8, Locally
  <2> QED BY <2>1, <2>2, <2>3, <2>4, <2>5, <2>6 DEF Advance
<1>2. Unique'
  BY <1>0 DEF Inv, Unique
<1>3. \A q \in Job \ {j} : pc'[q] = pc[q] /\ written'[q] = written[q] /\ opened'[q] = opened[q]
  BY OthersKeep DEF Inv
<1>4. Fresh'
  BY <1>0, <1>3, AdvanceEffect DEF Inv, Fresh
<1>5. Funded'
  BY <1>0, <1>3, AdvanceEffect DEF Inv, Funded
<1> QED BY <1>1, <1>2, <1>4, <1>5 DEF Inv

(* The end of a job keeps the invariant.                                    *)
LEMMA StopStep ==
  ASSUME Inv, NEW j \in Job, NEW answer \in Ended, Stop(j, answer), TypeOK'
  PROVE  Inv'
<1>1. /\ UNCHANGED tables /\ UNCHANGED users /\ UNCHANGED balance
      /\ pc'[j] = answer /\ claims'[j] = {} /\ written'[j] = {} /\ opened'[j] = NoWallet
      /\ answer \notin Writing \cup {"reply"}
  BY DEF Stop, End, Goto, Leave, tables, Inv, TypeOK, Ended, Refusal, Writing
<1>2. \A q \in Job \ {j} : /\ pc'[q] = pc[q] /\ claims'[q] = claims[q]
                          /\ written'[q] = written[q] /\ opened'[q] = opened[q]
  BY OthersKeep DEF Inv, Stop
<1>3. Drafts' /\ Exclusive'
  <2>1. DraftOf(j)' /\ ExclusiveOf(j)'
    BY <1>1 DEF DraftOf, ExclusiveOf, Writing, Entered
  <2> QED BY <1>1, <2>1, Locally DEF Stop
<1>4. Unique'
  BY <1>1 DEF Inv, Unique
<1>5. Fresh'
  <2>1. \/ answer = "lost"
        \/ answer \in {"forbidden", "unavailable", "conflict", "failed"} /\ j \notin Ids(users)
        \/ answer = "created" /\ j \in Ids(users)
        \/ answer = "seeded" /\ \E u \in users : u.role = "ADMIN"
    BY DEF Stop, Inv, Fresh, Refusal, Running, Screening, Indexing
  <2>2. pc'[j] \notin {"reply"}
    BY <1>1
  <2> QED BY <1>1, <1>2, <2>1, <2>2 DEF Inv, Fresh
<1>6. Funded'
  BY <1>1, <1>2 DEF Inv, Funded, Writing
<1> QED BY <1>3, <1>4, <1>5, <1>6 DEF Inv

(* A commit replaces or adds the row of one user, whose identities nobody   *)
(* else has.                                                                *)
LEMMA CommitEffect ==
  ASSUME Inv, NEW j \in Job, Commit(j)
  PROVE  \E v \in User :
           /\ written[j] = {v} /\ Draft(j, v)
           /\ users' = {u \in users : u.id # v.id} \cup {v}
           /\ Identities(v) \subseteq claims[j]
           /\ \A u \in users : u.id # v.id => Identities(u) \cap Identities(v) = {}
           /\ j \notin Ids(users)
<1>1. pc[j] = "commit"
  BY DEF Commit
<1>2. PICK v \in User : written[j] = {v} /\ Draft(j, v)
  BY <1>1 DEF Inv, Drafts, Writing
<1>3. users' = {u \in users : u.id # v.id} \cup {v}
  BY <1>2 DEF Commit, View, Ids
<1>4. Identities(v) \subseteq claims[j]
  BY <1>1, <1>2 DEF Inv, Drafts, Draft, Identities, Entered, Writing
<1>5. \A u \in users : u.id # v.id => Identities(u) \cap Identities(v) = {}
  BY <1>2, <1>4 DEF Inv, Exclusive, Ids
<1>6. j \notin Ids(users)
  BY <1>1 DEF Inv, Fresh
<1> QED BY <1>2, <1>3, <1>4, <1>5, <1>6

(* Committing keeps the invariant.                                          *)
LEMMA CommitStep ==
  ASSUME Inv, NEW j \in Job, Commit(j), TypeOK'
  PROVE  Inv'
<1>1. PICK v \in User :
         /\ written[j] = {v} /\ Draft(j, v)
         /\ users' = {u \in users : u.id # v.id} \cup {v}
         /\ Identities(v) \subseteq claims[j]
         /\ \A u \in users : u.id # v.id => Identities(u) \cap Identities(v) = {}
         /\ j \notin Ids(users)
  BY CommitEffect
<1>2. /\ pc[j] = "commit" /\ pc'[j] = "reply" /\ claims'[j] = {} /\ written'[j] = {}
      /\ opened'[j] = NoWallet
  BY DEF Commit, Goto, Leave, Inv, TypeOK
<1>3. \A q \in Job \ {j} :
           /\ pc'[q] = pc[q] /\ input'[q] = input[q] /\ claims'[q] = claims[q]
           /\ written'[q] = written[q] /\ opened'[q] = opened[q]
  BY OthersKeep DEF Inv
<1>4. Ids(users') = Ids(users) \cup {v.id}
  BY <1>1 DEF Ids
<1>5. v.id \in Ids(users) \/ v.id = j
  BY <1>1 DEF Draft, Ids
<1>6. \A q \in Job \ {j}, w \in User : Draft(q, w) => Draft(q, w)'
  <2> SUFFICES ASSUME NEW q \in Job \ {j}, NEW w \in User, Draft(q, w), w.id # q
               PROVE  \E u \in users' : /\ u.id = w.id /\ u.email = w.email
                                        /\ Identities(u) \subseteq claims[q]
    BY <1>3 DEF Draft
  <2>1. PICK u \in users : u.id = w.id /\ u.email = w.email /\ Identities(u) \subseteq claims[q]
    BY DEF Draft
  <2>2. u.id # v.id
    <3> SUFFICES ASSUME u.id = v.id PROVE FALSE
      OBVIOUS
    <3>1. v.id # j
      BY <1>1, <2>1 DEF Ids
    <3>2. PICK t \in users : t.id = v.id /\ Identities(t) \subseteq claims[j]
      BY <1>1, <3>1 DEF Draft
    <3>3. t = u
      BY <3>2 DEF Inv, Unique
    <3> QED BY <2>1, <3>2, <3>3 DEF Inv, Exclusive, Identities
  <2> QED BY <1>1, <2>1, <2>2
<1>7. Drafts'
  <2>1. \A q \in Job \ {j} : DraftOf(q)'
    BY <1>3, <1>6 DEF DraftOf, Inv, Drafts
  <2>2. DraftOf(j)'
    BY <1>2 DEF DraftOf, Writing, Entered
  <2> QED BY <2>1, <2>2 DEF Drafts, DraftOf
<1>8. Exclusive'
  <2>1. \A q, r \in Job : q # r => claims'[q] \cap claims'[r] = {}
    BY <1>2, <1>3 DEF Inv, Exclusive
  <2>2. \A q \in Job : \A u \in users' :
          Identities(u) \cap claims'[q] # {} => u.id \in Ids(written'[q])
    BY <1>1, <1>2, <1>3 DEF Inv, Exclusive
  <2> QED BY <2>1, <2>2 DEF Exclusive
<1>9. Unique'
  BY <1>1 DEF Inv, Unique
<1>10. Fresh'
  <2>1. (\E u \in users : u.role = "ADMIN") => \E u \in users' : u.role = "ADMIN"
    BY <1>1 DEF Draft, Ids
  <2>2. j \notin Deploy => j \in Ids(users')
    BY <1>1, <1>4 DEF Draft
  <2>3. j \in Deploy => \E u \in users' : u.role = "ADMIN"
    BY <1>1 DEF Draft
  <2> QED BY <1>2, <1>3, <1>4, <1>5, <2>1, <2>2, <2>3 DEF Inv, Fresh
<1>11. Funded'
  <2>1. opened[j] = NoWallet <=> v.id \in Ids(users)
    BY <1>1, <1>2 DEF Inv, Funded
  <2>2. \A i \in Job : balance'[i] = IF opened[j] # NoWallet /\ i = v.id THEN opened[j] ELSE balance[i]
    BY <1>1 DEF Commit, Ids
  <2>3. \A i \in Job : i \in Ids(users') <=> balance'[i] # NoWallet
    BY <1>4, <2>1, <2>2 DEF Inv, Funded
  <2>4. \A q \in Job \ {j} : pc[q] = "commit" => \A w \in written[q] : w.id # j
    BY <1>1 DEF Inv, Drafts, Draft, Ids, Writing
  <2>5. \A q \in Job \ {j} : pc[q] = "commit" => \A w \in written[q] :
          opened[q] = NoWallet <=> w.id \in Ids(users')
    BY <1>4, <1>5, <2>4 DEF Inv, Funded
  <2> QED BY <1>2, <1>3, <2>3, <2>5 DEF Inv, Funded
<1> QED BY <1>7, <1>8, <1>9, <1>10, <1>11 DEF Inv

(* So does what the provider and the rest of the service do.                *)
LEMMA OutsideStep ==
  ASSUME Inv, TypeOK',
         \/ \E x \in Listable : List(x)
         \/ \E u \in users : SetStatus(u) \/ MoveMoney(u)
         \/ UNCHANGED vars
  PROVE  Inv'
<1>1. UNCHANGED <<pc, input, claims, written, opened>>
  BY DEF List, SetStatus, MoveMoney, private, vars
<1>2. CASE UNCHANGED <<users, balance>>
  <2>1. Drafts'
    BY <1>1, <1>2 DEF Inv, Drafts, Draft
  <2> QED BY <1>1, <1>2, <2>1 DEF Inv, Exclusive, Unique, Fresh, Funded
<1>3. ASSUME NEW u \in users, SetStatus(u) PROVE Inv'
  <2>1. PICK v : /\ \E s \in {"ACTIVE", "BLOCKED"} : v = [u EXCEPT !.status = s]
                 /\ users' = (users \ {u}) \cup {v}
    BY <1>3 DEF SetStatus
  <2>2. v.id = u.id /\ v.email = u.email /\ v.phone = u.phone /\ v.role = u.role
    BY <2>1 DEF Inv, TypeOK, User
  <2>3. Identities(v) = Identities(u) /\ Ids(users') = Ids(users) /\ UNCHANGED balance
    <3>1. Identities(v) = Identities(u)
      BY <2>2 DEF Identities
    <3>2. \A i : i \in Ids(users') <=> i \in Ids(users)
      BY <2>1, <2>2 DEF Ids
    <3>3. UNCHANGED balance
      BY <1>3 DEF SetStatus
    <3> QED BY <3>1, <3>2, <3>3
  <2>4. \A j \in Job, w \in User : Draft(j, w) => Draft(j, w)'
    BY <1>1, <2>1, <2>2, <2>3 DEF Draft
  <2>5. Drafts'
    BY <1>1, <2>4 DEF Inv, Drafts
  <2>6. Exclusive'
    BY <1>1, <2>1, <2>2, <2>3 DEF Inv, Exclusive
  <2>7. Unique'
    <3>1. \A w \in users \ {u} : w.id # v.id /\ Identities(w) \cap Identities(v) = {}
      BY <2>2, <2>3 DEF Inv, Unique
    <3>2. \A w, t \in users \ {u} : w # t => w.id # t.id /\ Identities(w) \cap Identities(t) = {}
      BY DEF Inv, Unique
    <3> QED BY <2>1, <3>1, <3>2 DEF Unique
  <2>8. Fresh' /\ Funded'
    BY <1>1, <2>1, <2>2, <2>3 DEF Inv, Fresh, Funded
  <2> QED BY <2>5, <2>6, <2>7, <2>8 DEF Inv
<1>4. ASSUME NEW u \in users, MoveMoney(u) PROVE Inv'
  <2>1. u.id \in Ids(users) /\ u.id \in Job
    BY DEF Ids, Inv, TypeOK, User
  <2>2. UNCHANGED users /\ \A i \in Job : balance'[i] # NoWallet <=> balance[i] # NoWallet
    BY <1>4, <2>1 DEF MoveMoney, Inv, TypeOK, Funded, Balance, NoWallet
  <2>3. Drafts'
    BY <1>1, <2>2 DEF Inv, Drafts, Draft
  <2> QED BY <1>1, <2>2, <2>3 DEF Inv, Exclusive, Unique, Fresh, Funded
<1> QED BY <1>2, <1>3, <1>4 DEF List, vars, tables

(* The invariant holds.                                                     *)
LEMMA Invariant == Spec => []Inv
<1>1. Init => Inv
  <2> SUFFICES ASSUME Init PROVE Inv
    OBVIOUS
  <2>1. TypeOK
    BY DEF Init, TypeOK, Running, Screening, Indexing
  <2> QED BY <2>1 DEF Init, Inv, Drafts, Exclusive, Unique, Fresh, Funded, Ids, Writing, Entered
<1>2. Inv /\ [Next]_vars => Inv'
  <2> SUFFICES ASSUME Inv, [Next]_vars PROVE Inv'
    OBVIOUS
  <2>1. TypeOK'
    BY TypeStep DEF Inv
  <2>2. CASE Next
    BY <2>1, <2>2, StepCases, AdvanceStep, CommitStep, StopStep, OutsideStep DEF Inv
  <2> QED BY <2>1, <2>2, OutsideStep
<1> QED BY <1>1, <1>2, PTL DEF Spec

(* One user for an identity, and a wallet for exactly the users.            *)
THEOREM IdentitiesUnique == Spec => []OneAccountPerIdentity
<1>1. Inv => OneAccountPerIdentity
  BY DEF Inv, Unique, Funded, OneAccountPerIdentity
<1> QED BY <1>1, Invariant, PTL

--------------------------------------------------------------------------------
(* Screening.                                                               *)

(* What a registration knows of its identities, by stage.                   *)
Cleared ==
  \A r \in Registration :
    /\ pc[r] \in Running => Identities(input[r]) \ listed \subseteq off[r]
    /\ pc[r] \in {"screenPhone"} \cup Writing => input[r].email \in off[r]
    /\ pc[r] \in Writing => input[r].phone \in off[r]

(* With a provider whose answers can be read, whoever passes a question was *)
(* off the list when it was answered.                                       *)
LEMMA ClearedStep ==
  ASSUME Garbled = {}, Inv, Inv', Cleared, [Next]_vars
  PROVE  Cleared'
<1>a. TypeOK /\ TypeOK'
  BY DEF Inv
<1>r. Registration \subseteq Job /\ \A r \in Registration : r \notin Deploy
  BY OnboardingAssumption DEF Job
<1>k. ASSUME NEW r \in Registration, UNCHANGED <<input, off, listed>>, pc[r] \in Running,
             \/ pc'[r] = pc[r] \/ pc[r] \in Writing
             \/ pc[r] \notin Writing \cup {"screenPhone"} /\ pc'[r] \notin Writing \cup {"screenPhone"}
      PROVE  /\ pc'[r] \in Running => Identities(input'[r]) \ listed' \subseteq off'[r]
             /\ pc'[r] \in {"screenPhone"} \cup Writing => input'[r].email \in off'[r]
             /\ pc'[r] \in Writing => input'[r].phone \in off'[r]
  BY <1>k DEF Cleared
<1>1. ASSUME NEW j \in Job, Advance(j) PROVE Cleared'
  <2>1. CASE j \in Registration /\ Submit(j)
    <3>1. /\ pc'[j] = "screenEmail" /\ off'[j] = Identities(input'[j]) \ listed /\ listed' = listed
          /\ \A r \in Registration \ {j} :
               pc'[r] = pc[r] /\ input'[r] = input[r] /\ off'[r] = off[r]
      BY <1>a, <1>r, <2>1 DEF Submit, Goto, TypeOK
    <3> QED BY <3>1 DEF Cleared, Writing
  <2>2. CASE j \in Registration /\ Pass(j)
    <3>1. Screened(j) \notin listed
      BY <2>2 DEF Pass, Answers, Blacklisted
    <3>2. /\ pc[j] \in Screening /\ UNCHANGED <<input, off, listed>>
          /\ pc'[j] = IF pc[j] = "screenEmail" THEN "screenPhone" ELSE "email"
          /\ \A r \in Registration \ {j} : pc'[r] = pc[r]
      BY <1>a, <1>r, <2>2 DEF Pass, Goto, TypeOK
    <3>3. Screened(j) \in off[j]
      BY <2>2, <3>1, <3>2 DEF Cleared, Screened, Identities, Running
    <3> QED BY <3>2, <3>3 DEF Cleared, Screened, Screening, Writing, Running
  <2>3. CASE j \in Deploy
    <3>1. \A r \in Registration : pc'[r] = pc[r] /\ input'[r] = input[r]
      BY <1>a, <1>r, <1>1, <2>3, OthersKeep
    <3>2. UNCHANGED <<off, listed>>
      <4>1. CASE Launch(j) \/ FindNobody(j) \/ FindAdmin(j) \/ LockAdmin(j) \/ KeepWallet(j)
        BY <4>1 DEF Launch, FindNobody, FindAdmin, LockAdmin, KeepWallet
      <4>2. CASE Verify(j) /\ pc'[j] = "wallet"
        BY <1>a, <4>2 DEF Verify, End, Goto, TypeOK
      <4>3. CASE Claim(j) \/ OpenWallet(j)
        BY <4>3 DEF Claim, OpenWallet
      <4> QED BY <1>1, <1>r, <2>3, <4>1, <4>2, <4>3 DEF Advance
    <3> QED BY <3>1, <3>2 DEF Cleared
  <2>4. CASE Claim(j) \/ OpenWallet(j)
    <3>1. UNCHANGED <<input, off, listed>> /\ pc[j] \in Writing
          /\ \A r \in Registration \ {j} : pc'[r] = pc[r]
      BY <1>a, <1>r, <2>4 DEF Claim, OpenWallet, Goto, TypeOK, Writing
    <3> QED BY <3>1 DEF Cleared, Writing, Running, Indexing
  <2> QED BY <1>1, <1>r, <2>1, <2>2, <2>3, <2>4 DEF Advance, Job
<1>2. ASSUME NEW j \in Job, Commit(j) PROVE Cleared'
  <2>1. UNCHANGED <<input, off, listed>> /\ pc'[j] = "reply" /\ pc[j] \in Running
        /\ \A r \in Registration \ {j} : pc'[r] = pc[r]
    BY <1>a, <1>r, <1>2 DEF Commit, Goto, Leave, TypeOK, Running
  <2> QED BY <2>1 DEF Cleared, Writing
<1>3. ASSUME NEW j \in Job, NEW answer \in Ended, Stop(j, answer) PROVE Cleared'
  <2>1. /\ pc'[j] \notin Running \cup Writing /\ listed' = listed
        /\ \A r \in Registration \ {j} :
             pc'[r] = pc[r] /\ input'[r] = input[r] /\ off'[r] = off[r]
    BY <1>a, <1>r, <1>3 DEF Stop, End, Goto, TypeOK, Ended, Refusal, Running, Writing, Screening, Indexing
  <2> QED BY <2>1 DEF Cleared, Running, Screening
<1>4. ASSUME NEW x \in Listable, List(x) PROVE Cleared'
  <2>1. /\ UNCHANGED <<pc, input>>
        /\ listed' = IF x \in listed THEN listed \ {x} ELSE listed \cup {x}
        /\ \A r \in Registration : off'[r] =
             IF pc[r] \in Running /\ x \in listed
             THEN off[r] \cup (Identities(input[r]) \cap {x}) ELSE off[r]
    BY <1>4, <1>r DEF List
  <2> QED BY <2>1 DEF Cleared
<1>5. CASE UNCHANGED vars \/ \E u \in users : SetStatus(u) \/ MoveMoney(u)
  BY <1>5 DEF Cleared, vars, SetStatus, MoveMoney
<1> QED BY <1>1, <1>2, <1>3, <1>4, <1>5, <1>a, StepCases

(* A committed registration was clear of the list under way.                *)
THEOREM NobodyUnscreened == ASSUME Garbled = {} PROVE Spec => ScreenedOnly
<1>1. Init => Cleared
  BY OnboardingAssumption DEF Init, Cleared, Job, Running, Screening, Indexing, Writing
<1>2. ASSUME Inv, Cleared, [Next]_vars, NEW u \in users' \ users,
             u.id \in Registration \ Ids(users)
      PROVE  Identities(u) \subseteq off[u.id]
  <2>1. ASSUME NEW j \in Job, Commit(j) PROVE Identities(u) \subseteq off[u.id]
    <3>1. PICK v \in User : /\ written[j] = {v} /\ Draft(j, v)
                           /\ users' = {w \in users : w.id # v.id} \cup {v}
      BY <1>2, <2>1, CommitEffect
    <3>2. u = v
      BY <3>1
    <3>3. v.id = j
      BY <1>2, <3>1, <3>2 DEF Draft, Ids
    <3>4. j \in Registration /\ pc[j] \in Writing
      BY <1>2, <2>1, <3>2, <3>3 DEF Commit, Writing
    <3> QED BY <1>2, <3>1, <3>2, <3>3, <3>4 DEF Cleared, Draft, Identities
  <2>2. ASSUME NEW w \in users, SetStatus(w) PROVE FALSE
    <3>1. PICK s \in {"ACTIVE", "BLOCKED"} : u = [w EXCEPT !.status = s]
      BY <2>2 DEF SetStatus
    <3>2. u.id = w.id
      BY <1>2, <3>1 DEF Inv, TypeOK, User
    <3> QED BY <1>2, <3>2 DEF Ids
  <2>3. ASSUME UNCHANGED users PROVE FALSE
    BY <2>3
  <2>4. ASSUME NEW j \in Job, Advance(j) PROVE UNCHANGED users
    BY <1>2, <2>4, AdvanceEffect DEF tables
  <2> QED BY <1>2, <2>1, <2>2, <2>3, <2>4, StepCases
          DEF Inv, Stop, End, tables, List, MoveMoney, vars
<1>3. Inv /\ Inv' /\ Cleared /\ [Next]_vars => Cleared'
  BY ClearedStep
<1>4. ASSUME Inv, Cleared, [Next]_vars
      PROVE  [\A u \in users' \ users :
                u.id \in Registration \ Ids(users) => Identities(u) \subseteq off[u.id]]_vars
  BY <1>2, <1>4
<1> QED BY <1>1, <1>3, <1>4, Invariant, PTL DEF Spec, ScreenedOnly

--------------------------------------------------------------------------------
(* The refinement of Registry.                                              *)

AccountOf(u) ==
  [id |-> u.id, email |-> u.email, phone |-> u.phone, password |-> u.password,
   role |-> u.role, status |-> u.status, balance |-> balance[u.id]]

(* A step that shows nobody anything new is a stutter of the abstract one.  *)
LEMMA Hidden ==
  ASSUME TypeOK, TypeOK', UNCHANGED tables,
         NEW j \in Job, pc[j] \notin Ended, pc'[j] \notin Ended,
         \A q \in Job \ {j} : pc'[q] = pc[q]
  PROVE  UNCHANGED <<Accounts, Told>>
BY DEF Accounts, Told, tables, TypeOK

(* A commit opens an account or synchronizes that of an administrator.      *)
LEMMA CommitRefines ==
  ASSUME Inv, Inv', NEW j \in Job, Commit(j)
  PROVE  Promise!Next
<1>1. PICK v \in User :
         /\ written[j] = {v} /\ Draft(j, v)
         /\ users' = {u \in users : u.id # v.id} \cup {v}
         /\ Identities(v) \subseteq claims[j]
         /\ \A u \in users : u.id # v.id => Identities(u) \cap Identities(v) = {}
         /\ j \notin Ids(users)
  BY CommitEffect
<1>2. /\ pc[j] = "commit" /\ pc'[j] = "reply"
      /\ \A q \in Job \ {j} : pc'[q] = pc[q]
  BY OthersKeep DEF Commit, Goto, Inv, TypeOK
<1>3. UNCHANGED Told /\ Told[j] = "waiting"
  BY <1>2 DEF Told, Ended, Refusal
<1>4. \A i \in Job : balance'[i] = IF opened[j] # NoWallet /\ i = v.id THEN opened[j] ELSE balance[i]
  BY <1>1 DEF Commit, Ids
<1>5. opened[j] = NoWallet <=> v.id \in Ids(users)
  BY <1>1, <1>2 DEF Inv, Funded
<1>6. v.email \in Email /\ v.phone \in Phone /\ v.password \in Password
      /\ v.id \in Job /\ \A u \in users : u.id \in Job
  BY DEF User, Inv, TypeOK
<1>7. \A u \in users : u.id # v.id => u.email # v.email /\ u.phone # v.phone
  BY <1>1 DEF Identities
<1>8. CASE v.id \notin Ids(users)
  <2>1. v.id = j
    BY <1>1, <1>8 DEF Draft, Ids
  <2>2. \A u \in users : u.id # v.id
    BY <1>8 DEF Ids
  <2>3. Accounts' = Accounts \cup {AccountOf(v)'}
    BY <1>1, <1>4, <1>6, <2>2 DEF Accounts, AccountOf
  <2>4. balance'[v.id] = opened[j] /\ opened[j] \in Balance
    BY <1>4, <1>5, <1>6, <1>8 DEF Inv, TypeOK
  <2>5. Promise!Free(v.email, v.phone, {}) /\ \A a \in Accounts : a.id # j
    BY <1>7, <2>1, <2>2 DEF Promise!Free, Accounts
  <2>6. CASE j \in Deploy
    <3>1. AccountOf(v)' = Promise!Account(j, v.email, v.phone, v.password, "ADMIN", opened[j])
      <4>1. v.id = j /\ v.status = "ACTIVE" /\ v.role = "ADMIN" /\ balance'[v.id] = opened[j]
        BY <1>1, <2>1, <2>4, <2>6 DEF Draft
      <4> QED BY <4>1 DEF AccountOf, Promise!Account
    <3>2. Promise!CreateAdmin(j, v.email, v.phone, v.password, opened[j])
      BY <1>3, <2>3, <2>5, <3>1 DEF Promise!CreateAdmin
    <3> QED BY <1>6, <2>4, <3>2 DEF Promise!Next
  <2>7. CASE j \notin Deploy
    <3>0. balance'[v.id] = 0
      BY <1>5, <1>8, <2>4, <2>7 DEF Inv, Funded
    <3>1. AccountOf(v)' = Promise!Account(j, v.email, v.phone, v.password, "CUSTOMER", 0)
      BY <1>1, <2>1, <2>7, <3>0 DEF AccountOf, Draft, Promise!Account
    <3>2. Promise!Register(j, v.email, v.phone, v.password)
      BY <1>3, <2>3, <2>5, <3>1 DEF Promise!Register
    <3> QED BY <1>6, <3>2 DEF Promise!Next
  <2> QED BY <2>6, <2>7
<1>9. CASE v.id \in Ids(users)
  <2>1. PICK u \in users : u.id = v.id /\ u.email = v.email /\ j \in Deploy
    BY <1>1, <1>9 DEF Draft, Ids
  <2>2. \A w \in users : w.id = v.id => w = u
    BY <2>1 DEF Inv, Unique
  <2>3. \A i \in Job : balance'[i] = balance[i]
    BY <1>4, <1>5, <1>9
  <2>4. Accounts' = (Accounts \ {AccountOf(u)}) \cup {AccountOf(v)'}
    <3>1. \A w \in users \ {u} : AccountOf(w)' = AccountOf(w) /\ AccountOf(w) # AccountOf(u)
      BY <1>6, <2>1, <2>2, <2>3 DEF AccountOf
    <3>2. users' = (users \ {u}) \cup {v}
      BY <1>1, <2>1, <2>2
    <3>3. \A w : AccountOf(w) = [id |-> w.id, email |-> w.email, phone |-> w.phone, password |-> w.password,
                role |-> w.role, status |-> w.status, balance |-> balance[w.id]]
      BY DEF AccountOf
    <3>4. Accounts = {AccountOf(w) : w \in users} /\ Accounts' = {AccountOf(w)' : w \in users'}
      BY DEF Accounts, AccountOf
    <3> QED BY <3>1, <3>2, <3>4
  <2>5. AccountOf(v)' = Promise!Account(u.id, v.email, v.phone, v.password, "ADMIN", balance[u.id])
    <3>1. /\ v.id = u.id /\ v.email = u.email /\ v.status = "ACTIVE" /\ v.role = "ADMIN"
          /\ balance'[v.id] = balance[u.id]
      BY <1>1, <1>6, <2>1, <2>3 DEF Draft
    <3> QED BY <3>1 DEF AccountOf, Promise!Account
  <2>6. Promise!Free(v.email, v.phone, {AccountOf(u)})
    BY <1>7, <2>1, <2>2 DEF Promise!Free, Accounts, AccountOf
  <2>7. /\ AccountOf(u) \in Accounts /\ AccountOf(u).email = v.email
        /\ AccountOf(u).id = u.id /\ AccountOf(u).balance = balance[u.id]
    BY <2>1 DEF Accounts, AccountOf
  <2>8. Promise!SyncAdmin(j, v.email, v.phone, v.password)
    BY <1>3, <2>4, <2>5, <2>6, <2>7 DEF Promise!SyncAdmin
  <2> QED BY <1>6, <2>8 DEF Promise!Next
<1> QED BY <1>8, <1>9

(* The end of a job tells it the truth.                                     *)
LEMMA StopRefines ==
  ASSUME Inv, Inv', NEW j \in Job, NEW answer \in Ended, Stop(j, answer)
  PROVE  Promise!Next
<1>1. /\ UNCHANGED <<users, balance>> /\ pc'[j] = answer /\ pc[j] \notin Ended
      /\ \A q \in Job \ {j} : pc'[q] = pc[q]
  BY OthersKeep DEF Stop, End, Goto, tables, Inv, TypeOK, Ended, Refusal, Running, Screening, Indexing
<1>2. UNCHANGED Accounts /\ Told[j] = "waiting" /\ Told' = [Told EXCEPT ![j] = answer]
  <2>1. UNCHANGED Accounts
    BY <1>1 DEF Accounts
  <2>2. Told[j] = "waiting" /\ Told'[j] = answer
    BY <1>1 DEF Told
  <2>3. \A q \in Job \ {j} : Told'[q] = Told[q]
    BY <1>1 DEF Told
  <2>4. Told' = [q \in Job |-> Told'[q]] /\ Told = [q \in Job |-> Told[q]]
    BY DEF Told
  <2> QED BY <2>1, <2>2, <2>3, <2>4
<1>s. \A u \in users : AccountOf(u) \in Accounts /\ AccountOf(u).id = u.id /\ AccountOf(u).role = u.role
  BY DEF Accounts, AccountOf
<1>3. answer = "created" => \E a \in Accounts : a.id = j
  <2> SUFFICES ASSUME answer = "created" PROVE \E a \in Accounts : a.id = j
    OBVIOUS
  <2>1. PICK u \in users' : u.id = j
    BY <1>1 DEF Inv, Fresh, Ids
  <2> QED BY <1>1, <1>s, <2>1
<1>4. answer = "seeded" => \E a \in Accounts : a.role = "ADMIN"
  <2> SUFFICES ASSUME answer = "seeded" PROVE \E a \in Accounts : a.role = "ADMIN"
    OBVIOUS
  <2>1. PICK u \in users' : u.role = "ADMIN"
    BY <1>1 DEF Inv, Fresh
  <2> QED BY <1>1, <1>s, <2>1
<1>5. answer \in Refusal \cup {"failed"} => \A a \in Accounts : a.id # j
  BY <1>1 DEF Inv, Fresh, Ids, Accounts, Refusal
<1>6. Promise!Tell(j, answer)
  BY <1>2, <1>3, <1>4, <1>5 DEF Promise!Tell, Promise!Refusal, Refusal
<1> QED BY <1>6 DEF Promise!Next, Promise!Ended, Promise!Refusal, Ended, Refusal

(* Blocking a user and moving money is a use of the account.                *)
LEMMA UseRefines ==
  ASSUME Inv, Inv', NEW u \in users, SetStatus(u) \/ MoveMoney(u)
  PROVE  Promise!Next
<1>1. UNCHANGED Told
  BY DEF SetStatus, MoveMoney, Told
<1>2. AccountOf(u) \in Accounts /\ u.id \in Job /\ u \in User
  BY DEF Accounts, AccountOf, Inv, TypeOK, User
<1>3. \A w \in users \ {u} : w.id # u.id /\ w.id \in Job
  BY DEF Inv, Unique, TypeOK, User
<1>4. Accounts = {AccountOf(w) : w \in users} /\ Accounts' = {AccountOf(w)' : w \in users'}
  BY DEF Accounts, AccountOf
<1>5. \A w \in users \ {u} : AccountOf(w) # AccountOf(u)
  BY <1>3 DEF AccountOf
<1>6. balance[u.id] \in Balance /\ u.status \in {"ACTIVE", "BLOCKED"}
  BY <1>2 DEF Inv, TypeOK, User, Funded, Ids
<1>7. CASE SetStatus(u)
  <2>1. PICK s \in {"ACTIVE", "BLOCKED"} : users' = (users \ {u}) \cup {[u EXCEPT !.status = s]}
    BY <1>7 DEF SetStatus
  <2>2. UNCHANGED balance
    BY <1>7 DEF SetStatus
  <2>3. AccountOf([u EXCEPT !.status = s])' =
          [AccountOf(u) EXCEPT !.status = s]
    <3>1. PICK v \in User : v = [u EXCEPT !.status = s]
      BY <1>2 DEF User
    <3>2. /\ v.id = u.id /\ v.email = u.email /\ v.phone = u.phone /\ v.password = u.password
          /\ v.role = u.role /\ v.status = s
      BY <1>2, <3>1 DEF User
    <3>3. AccountOf(v)' = [AccountOf(u) EXCEPT !.status = s]
      BY <2>2, <3>2 DEF AccountOf
    <3> QED BY <3>1, <3>3
  <2>4. \A w \in users \ {u} : AccountOf(w)' = AccountOf(w)
    BY <2>2 DEF AccountOf
  <2>5. Accounts' = (Accounts \ {AccountOf(u)}) \cup
          {[AccountOf(u) EXCEPT !.status = s]}
    BY <1>4, <1>5, <2>1, <2>3, <2>4
  <2> QED BY <1>1, <1>2, <1>6, <2>5 DEF Promise!Next, Promise!Use, Promise!Status
<1>8. CASE MoveMoney(u)
  <2>1. PICK b \in Balance : balance' = [balance EXCEPT ![u.id] = b]
    BY <1>8 DEF MoveMoney
  <2>2. UNCHANGED users
    BY <1>8 DEF MoveMoney
  <2>3. AccountOf(u)' = [AccountOf(u) EXCEPT !.balance = b]
    <3>1. balance'[u.id] = b
      BY <1>2, <2>1 DEF Inv, TypeOK
    <3> QED BY <3>1 DEF AccountOf
  <2>4. \A w \in users \ {u} : AccountOf(w)' = AccountOf(w)
    BY <1>2, <1>3, <2>1 DEF AccountOf, Inv, TypeOK
  <2>5. Accounts' = (Accounts \ {AccountOf(u)}) \cup
          {[AccountOf(u) EXCEPT !.balance = b]}
    BY <1>4, <1>5, <2>2, <2>3, <2>4
  <2> QED BY <1>1, <1>2, <1>6, <2>5 DEF Promise!Next, Promise!Use, Promise!Status
<1> QED BY <1>7, <1>8

(* Onboarding implements Registry: users and wallets appear together, at    *)
(* once and for one identity each, and what anybody is told is true.        *)
THEOREM OnboardingRefines == Spec => KeepsPromise
<1>1. Init => Promise!Init
  BY DEF Init, Promise!Init, Accounts, Told, Ended, Refusal
<1>2. ASSUME Inv, Inv', [Next]_vars PROVE [Promise!Next]_<<Accounts, Told>>
  <2>1. ASSUME NEW j \in Job, Advance(j) PROVE UNCHANGED <<Accounts, Told>>
    <3>1. UNCHANGED tables /\ \A q \in Job \ {j} : pc'[q] = pc[q]
      BY <1>2, <2>1, AdvanceEffect, OthersKeep DEF Inv
    <3>2. pc[j] \notin Ended
      BY <2>1 DEF Advance, Submit, Pass, Launch, FindNobody, FindAdmin, LockAdmin, Verify,
           KeepWallet, Claim, OpenWallet, Ended, Refusal, Screening
    <3>3. pc'[j] \notin Ended
      <4>1. CASE Submit(j) \/ Launch(j) \/ Pass(j) \/ FindNobody(j) \/ FindAdmin(j)
                 \/ LockAdmin(j) \/ KeepWallet(j) \/ OpenWallet(j)
        BY <1>2, <4>1 DEF Submit, Launch, Pass, FindNobody, FindAdmin, LockAdmin, KeepWallet,
             OpenWallet, Goto, Inv, TypeOK, Ended, Refusal
      <4>2. CASE Claim(j)
        <5>1. pc'[j] \in {"phone", "verify", "wallet"}
          BY <1>2, <4>2 DEF Claim, Goto, Inv, TypeOK
        <5> QED BY <5>1 DEF Ended, Refusal
      <4>3. CASE pc'[j] = "wallet"
        BY <4>3 DEF Ended, Refusal
      <4> QED BY <2>1, <4>1, <4>2, <4>3 DEF Advance
    <3> QED BY <1>2, <3>1, <3>2, <3>3, Hidden DEF Inv
  <2>2. ASSUME NEW x \in Listable, List(x) PROVE UNCHANGED <<Accounts, Told>>
    BY <2>2 DEF List, tables, Accounts, Told
  <2>3. CASE UNCHANGED vars
    BY <2>3 DEF vars, tables, Accounts, Told
  <2> QED BY <1>2, <2>1, <2>2, <2>3, StepCases, CommitRefines, StopRefines, UseRefines DEF Inv
<1> QED BY <1>1, <1>2, Invariant, PTL DEF Spec, KeepsPromise, Promise!Spec

--------------------------------------------------------------------------------
(* Deadlocks.                                                               *)

(* Who inserts a row has at most its e-mail when it waits for its telephone *)
(* number; only an update holds a number while it waits for another.        *)
InsertsInOrder ==
  \A j \in Job : pc[j] = "phone" /\ j \notin Deploy => claims[j] \subseteq Email

(* Every insert enters the e-mail first.                                    *)
LEMMA InOrderStep ==
  ASSUME Inv, Inv', InsertsInOrder, [Next]_vars
  PROVE  InsertsInOrder'
<1>a. TypeOK /\ TypeOK'
  BY DEF Inv
<1>1. ASSUME NEW j \in Job, Advance(j) PROVE InsertsInOrder'
  <2>1. \A q \in Job \ {j} : pc'[q] = pc[q] /\ claims'[q] = claims[q]
    BY <1>a, <1>1, OthersKeep
  <2>2. ASSUME j \notin Deploy, pc'[j] = "phone" PROVE claims'[j] \subseteq Email
    <3>1. Claim(j)
      BY <1>1, <1>a, <2>2 DEF Advance, Submit, Pass, OpenWallet, Goto, TypeOK
    <3>2. pc[j] = "email"
      <4>1. pc[j] = "phone" => pc'[j] = "wallet"
        BY <1>a, <2>2, <3>1 DEF Claim, Goto, TypeOK
      <4> QED BY <2>2, <3>1, <4>1 DEF Claim
    <3>3. claims'[j] = {input[j].email}
      BY <1>a, <3>1, <3>2 DEF Claim, Wanted, TypeOK, Inv, Drafts
    <3>4. input[j].email \in Email
      BY <1>a, <3>2, OnboardingAssumption DEF TypeOK, Running, Indexing
    <3> QED BY <3>3, <3>4
  <2> QED BY <2>1, <2>2 DEF InsertsInOrder
<1>2. ASSUME NEW j \in Job, Commit(j) \/ \E answer \in Ended : Stop(j, answer)
      PROVE  InsertsInOrder'
  <2>1. pc'[j] # "phone"
    BY <1>a, <1>2 DEF Commit, Stop, End, Goto, TypeOK, Ended, Refusal
  <2>2. \A q \in Job \ {j} : pc'[q] = pc[q] /\ claims'[q] = claims[q]
    BY <1>a, <1>2, OthersKeep DEF Stop
  <2> QED BY <2>1, <2>2 DEF InsertsInOrder
<1>3. ASSUME UNCHANGED <<pc, claims>> PROVE InsertsInOrder'
  BY <1>3 DEF InsertsInOrder
<1> QED BY <1>1, <1>2, <1>3, <1>a, StepCases DEF List, SetStatus, MoveMoney, private, vars

(* A circle of waiting has two seeds of different administrators in it.     *)
THEOREM RegistrationsDeadlockFree == Spec => []NoClientDeadlock
<1>1. Init => InsertsInOrder
  BY DEF Init, InsertsInOrder
<1>2. ASSUME Inv, InsertsInOrder PROVE NoClientDeadlock
  <2> SUFFICES ASSUME NEW S \in (SUBSET Job) \ {{}}, WaitCircle(S)
               PROVE  \E d, e \in S \cap Deploy : input[d].email # input[e].email
    BY DEF NoClientDeadlock
  (* Whoever waits in the circle and is waited for is at its telephone      *)
  (* number; whoever is waited for by such a job is a seed.                 *)
  <2>1. \A q \in S : claims[q] # {} => pc[q] = "phone"
    <3> SUFFICES ASSUME NEW q \in S, claims[q] # {} PROVE pc[q] = "phone"
      OBVIOUS
    <3>1. pc[q] \in Indexing
      BY DEF WaitCircle, WaitsFor
    <3> QED BY <1>2, <3>1 DEF Inv, Drafts, Indexing, Writing
  <2>2. \A j, q \in S : WaitsFor(j, q) => pc[q] = "phone"
    BY <2>1 DEF WaitsFor
  <2>3. \A j, q \in S : pc[j] = "phone" /\ WaitsFor(j, q) => q \in Deploy
    <3> SUFFICES ASSUME NEW j \in S, NEW q \in S, pc[j] = "phone", WaitsFor(j, q)
                 PROVE  q \in Deploy
      OBVIOUS
    <3>1. input[j].phone \in Phone /\ input[j].phone \in claims[q]
      BY <1>2, OnboardingAssumption DEF Inv, TypeOK, Running, Indexing, WaitsFor, Wanted
    <3>2. pc[q] = "phone"
      BY <2>2
    <3> QED BY <1>2, <3>1, <3>2, OnboardingAssumption DEF InsertsInOrder
  <2>c. \A q \in S : \E r \in S : WaitsFor(q, r)
    BY DEF WaitCircle
  <2>n. S # {}
    OBVIOUS
  <2>j. PICK j \in S : j \in S
    BY <2>n
  <2>k. PICK k \in S : WaitsFor(j, k)
    BY <2>c
  <2>d. PICK d \in S : WaitsFor(k, d)
    BY <2>c
  <2>4. PICK e \in S : WaitsFor(d, e)
    BY <2>c
  <2>5. pc[d] = "phone" /\ pc[e] = "phone" /\ d \in Deploy /\ e \in Deploy /\ d # e
    BY <2>2, <2>3, <2>k, <2>d, <2>4 DEF WaitsFor
  <2>6. input[d].email \in claims[d] /\ input[e].email \in claims[e]
    BY <1>2, <2>5 DEF Inv, Drafts, Entered, Writing, Job
  <2>7. input[d].email # input[e].email
    BY <1>2, <2>5, <2>6 DEF Inv, Exclusive, Job
  <2> QED BY <2>5, <2>7
<1>3. Inv /\ Inv' /\ InsertsInOrder /\ [Next]_vars => InsertsInOrder'
  BY InOrderStep
<1> QED BY <1>1, <1>2, <1>3, Invariant, PTL DEF Spec
================================================================================
