------------------------------- MODULE AccessProofs -------------------------------
(****************************************************************************)
(* Theorems about Access: what a handler decides on is never older than its *)
(* request, for every number of users, sessions, passwords and every        *)
(* lifetime of tokens.                                                      *)
(****************************************************************************)
EXTENDS Access, TLAPS

(* The steps of a login and of the guards, which change one session.        *)
Step(c) == SubmitLogin(c) \/ Present(c) \/ Serve(c)

(* Which stages belong to a login and which to a route, and whose row a     *)
(* handler is working for.                                                  *)
Placed(c) ==
  /\ pc[c] \in {"find", "verify", "welcome"} => asked[c] \in Login
  /\ pc[c] \in {"verify", "welcome"} => asked[c].user \in User
  /\ pc[c] \in {"token", "lookup", "decide", "admitted"} =>
       asked[c] \in Request /\ token[c].user \in User

(* What a handler holds is a row its user had while the request was running,*)
(* and the row of the moment is always among those.                         *)
Timely(c) ==
  /\ pc[c] \in {"verify", "decide"} => \E row \in seen[c] : copy[c] = {row}
  /\ pc[c] # "idle" /\ Subject(c) \in User => rows[Subject(c)] \in seen[c]

(* A token that exists belongs to somebody and expires one life after the   *)
(* login that signed it.                                                    *)
Owned(c) ==
  token[c] # NoToken => token[c].user \in User /\ token[c].exp = issued[c] + Life

(* No request arrives in the future, and one whose token has been verified  *)
(* arrived before the token expired.                                        *)
Live(c) ==
  /\ pc[c] = "token" => arrived[c] <= now
  /\ pc[c] \in {"token", "lookup", "decide", "admitted"} => token[c] # NoToken
  /\ pc[c] \in {"lookup", "decide", "admitted"} => arrived[c] < token[c].exp

Inv == TypeOK /\ \A c \in Session : Placed(c) /\ Timely(c) /\ Owned(c) /\ Live(c)

(* A session's own step keeps the types and leaves the other sessions, and  *)
(* the rows, alone.                                                         *)
LEMMA OwnStep ==
  ASSUME Inv, NEW c \in Session, Step(c)
  PROVE  /\ TypeOK' /\ rows' = rows /\ now' = now
         /\ \A d \in Session \ {c} : /\ pc'[d] = pc[d] /\ asked'[d] = asked[d]
                                     /\ copy'[d] = copy[d] /\ token'[d] = token[d]
                                     /\ seen'[d] = seen[d] /\ issued'[d] = issued[d]
                                     /\ arrived'[d] = arrived[d]
<1> USE DEF Inv, TypeOK, Goto, Finish, Arrive, ReadRow
<1>1. CASE SubmitLogin(c)
  BY <1>1 DEF SubmitLogin, Login, Stage
<1>2. CASE FindNobody(c) \/ RefuseLogin(c) \/ RefuseToken(c) \/ Forbid(c) \/ Handle(c)
  BY <1>2 DEF FindNobody, RefuseLogin, RefuseToken, Forbid, Handle, Stage
<1>3. CASE FindUser(c)
  BY <1>3 DEF FindUser, Subject, Stage, Placed, Login
<1>4. CASE SignToken(c)
  <2>1. PICK row \in copy[c] :
          token' = [token EXCEPT ![c] = [user |-> asked[c].user, role |-> row.role, exp |-> now + Life]]
    BY <1>4 DEF SignToken
  <2>2. row.role \in {"CUSTOMER", "ADMIN"} /\ asked[c].user \in User /\ now + Life \in Nat
    BY <1>4, <2>1, AccessAssumption DEF SignToken, Row, Placed
  <2> QED BY <1>4, <2>1, <2>2 DEF SignToken, Token, Stage
<1>5. CASE Present(c)
  <2>1. rows[token[c].user] \in Row
    BY <1>5 DEF Present, Owned
  <2> QED BY <1>5, <2>1 DEF Present, Request, Stage
<1>6. CASE VerifyToken(c) \/ Admit(c)
  BY <1>6 DEF VerifyToken, Admit, Stage
<1>7. CASE Lookup(c)
  BY <1>7 DEF Lookup, Subject, Stage, Placed, Request, Route
<1> QED BY <1>1, <1>2, <1>3, <1>4, <1>5, <1>6, <1>7 DEF Step, Serve

(* A session's own step keeps what its handler holds timely.                *)
LEMMA OwnHold ==
  ASSUME Inv, NEW c \in Session, Step(c)
  PROVE  Placed(c)' /\ Timely(c)' /\ Owned(c)' /\ Live(c)'
<1> USE DEF Inv, TypeOK, Goto, Finish, Arrive, ReadRow, Placed, Timely, Owned, Live, Subject
<1>1. CASE SubmitLogin(c)
  BY <1>1 DEF SubmitLogin, Login
<1>2. CASE FindNobody(c) \/ RefuseLogin(c) \/ RefuseToken(c) \/ Forbid(c) \/ Handle(c)
  BY <1>2 DEF FindNobody, RefuseLogin, RefuseToken, Forbid, Handle
<1>3. CASE FindUser(c)
  BY <1>3 DEF FindUser, Login
<1>4. CASE SignToken(c)
  BY <1>4 DEF SignToken, Login
<1>5. CASE Present(c)
  BY <1>5 DEF Present, Request, Route
<1>6. CASE VerifyToken(c) \/ Admit(c)
  <2>1. arrived[c] < token[c].exp
    <3>1. arrived[c] \in Nat /\ now \in Nat /\ token[c].exp \in Nat
      BY DEF Token
    <3> QED BY <1>6, <3>1 DEF VerifyToken, Admit
  <2> QED BY <1>6, <2>1 DEF VerifyToken, Admit, Request, Route
<1>7. CASE Lookup(c)
  BY <1>7 DEF Lookup, Request, Route
<1> QED BY <1>1, <1>2, <1>3, <1>4, <1>5, <1>6, <1>7 DEF Step, Serve

(* A change of a user's row is seen by every request that is about the user.*)
LEMMA ChangeStep ==
  ASSUME Inv, NEW u \in User, NEW row \in Row, Change(u, row)
  PROVE  Inv'
<1>1. TypeOK'
  BY DEF Inv, TypeOK, Change
<1>2. ASSUME NEW c \in Session PROVE Placed(c)' /\ Timely(c)' /\ Owned(c)' /\ Live(c)'
  BY DEF Inv, TypeOK, Change, Placed, Timely, Owned, Live, Subject
<1> QED BY <1>1, <1>2 DEF Inv

(* Inv is inductive.                                                        *)
LEMMA InvStep == Inv /\ [Next]_vars => Inv'
<1> SUFFICES ASSUME Inv, [Next]_vars PROVE Inv'
  OBVIOUS
<1>1. ASSUME NEW c \in Session, Step(c) PROVE Inv'
  <2>1. ASSUME NEW d \in Session \ {c} PROVE Placed(d)' /\ Timely(d)' /\ Owned(d)' /\ Live(d)'
    BY <1>1, OwnStep DEF Inv, Placed, Timely, Owned, Live, Subject
  <2> QED BY <1>1, <2>1, OwnStep, OwnHold DEF Inv
<1>2. ASSUME NEW u \in User, SetStatus(u) PROVE Inv'
  <2>1. PICK s \in {"ACTIVE", "BLOCKED"} : Change(u, [rows[u] EXCEPT !.status = s])
    BY <1>2 DEF SetStatus
  <2>2. [rows[u] EXCEPT !.status = s] \in Row
    BY DEF Inv, TypeOK, Row
  <2> QED BY <2>1, <2>2, ChangeStep
<1>3. ASSUME NEW u \in Configured, Seed(u) PROVE Inv'
  <2>1. PICK p \in Password : Change(u, [password |-> p, status |-> "ACTIVE", role |-> "ADMIN"])
    BY <1>3 DEF Seed
  <2>2. [password |-> p, status |-> "ACTIVE", role |-> "ADMIN"] \in Row /\ u \in User
    BY AccessAssumption DEF Row
  <2> QED BY <2>1, <2>2, ChangeStep
<1>4. ASSUME Tick PROVE Inv'
  <2>1. now \in Nat /\ now' = now + 1 /\ now' \in Nat
    BY <1>4 DEF Tick, Inv, TypeOK
  <2>2. TypeOK'
    BY <1>4, <2>1 DEF Tick, Inv, TypeOK
  <2>3. ASSUME NEW c \in Session PROVE Placed(c)' /\ Timely(c)' /\ Owned(c)' /\ Live(c)'
    <3>1. arrived[c] \in Nat
      BY DEF Inv, TypeOK
    <3> QED BY <1>4, <2>1, <3>1 DEF Tick, Inv, Placed, Timely, Owned, Live, Subject
  <2> QED BY <2>2, <2>3 DEF Inv
<1>5. CASE UNCHANGED vars
  BY <1>5 DEF Inv, TypeOK, Placed, Timely, Owned, Live, Subject, vars
<1> QED BY <1>1, <1>2, <1>3, <1>4, <1>5 DEF Next, Step

(* A handler never holds anything that was not true of its user at some     *)
(* moment of its request.                                                   *)
LEMMA Invariant == Spec => []Inv
<1>1. Init => Inv
  BY AccessAssumption
     DEF Init, Inv, TypeOK, Row, Stage, Token, NoToken, Placed, Timely, Owned, Live,
         Subject
<1> QED BY <1>1, InvStep, PTL DEF Spec

--------------------------------------------------------------------------------
(* A route is entered only within the life of a token of its client's last  *)
(* login, for every clock and every life: the token expires one life after  *)
(* the login that signed it, and is looked at after the request arrived.    *)
THEOREM TokensShortLived == Spec => []TokensExpire
<1>1. Inv => TokensExpire
  <2> SUFFICES ASSUME Inv, NEW c \in Session, pc[c] = "admitted"
               PROVE  arrived[c] < issued[c] + Life
    BY DEF TokensExpire
  <2>1. arrived[c] < token[c].exp /\ token[c].exp = issued[c] + Life
    BY DEF Inv, Live, Owned
  <2> QED BY <2>1
<1> QED BY <1>1, Invariant, PTL

(* login() decides on the status and the password its user had at one       *)
(* moment of the request, however long the password check takes and         *)
(* whatever administrators and deployments do meanwhile.                    *)
THEOREM LoginsTimely == Spec => LoginsJustified
<1>1. Inv /\ [Next]_vars =>
        [\A c \in Session : pc[c] = "verify" /\ pc'[c] # "verify" =>
           \E row \in seen[c] :
             (pc'[c] = "welcome")
               <=> (row.status = "ACTIVE" /\ row.password = asked[c].password)]_vars
  <2> SUFFICES ASSUME Inv, [Next]_vars, NEW c \in Session, pc[c] = "verify", pc'[c] # "verify"
               PROVE  \E row \in seen[c] :
                        (pc'[c] = "welcome")
                          <=> (row.status = "ACTIVE" /\ row.password = asked[c].password)
    OBVIOUS
  <2>1. PICK row \in seen[c] : copy[c] = {row}
    BY DEF Inv, Timely
  <2>2. row.status \in {"ACTIVE", "BLOCKED"}
    BY <2>1 DEF Inv, TypeOK, Row
  <2>3. Step(c)
    <3>1. ASSUME NEW d \in Session, Step(d), d # c PROVE FALSE
      BY <3>1, OwnStep
    <3> QED BY <3>1 DEF Next, Step, SetStatus, Seed, Change, Tick, vars
  <2>4. \/ RefuseLogin(c) /\ pc'[c] = "idle"
        \/ SignToken(c) /\ pc'[c] = "welcome"
    BY <2>3 DEF Step, Serve, SubmitLogin, Present, Arrive, FindNobody, FindUser, RefuseLogin,
         SignToken, VerifyToken, RefuseToken, Lookup, Forbid, Admit, Handle, Finish, Goto,
         Inv, TypeOK
  <2> QED BY <2>1, <2>2, <2>4 DEF RefuseLogin, SignToken, MayEnter
<1> QED BY <1>1, Invariant, PTL DEF Spec, LoginsJustified

(* The guards decide on the status and the role their user had at one       *)
(* moment of the request, and never on those of the time of the token.      *)
THEOREM RequestsTimely == Spec => RequestsJustified
<1>1. Inv /\ [Next]_vars =>
        [\A c \in Session : pc[c] = "decide" /\ pc'[c] # "decide" =>
           \E row \in seen[c] :
             (pc'[c] = "admitted")
               <=> (row.status = "ACTIVE" /\ (asked[c].route = "admin" => row.role = "ADMIN"))]_vars
  <2> SUFFICES ASSUME Inv, [Next]_vars, NEW c \in Session, pc[c] = "decide", pc'[c] # "decide"
               PROVE  \E row \in seen[c] :
                        (pc'[c] = "admitted")
                          <=> (row.status = "ACTIVE"
                               /\ (asked[c].route = "admin" => row.role = "ADMIN"))
    OBVIOUS
  <2>1. PICK row \in seen[c] : copy[c] = {row}
    BY DEF Inv, Timely
  <2>2. row.status \in {"ACTIVE", "BLOCKED"}
    BY <2>1 DEF Inv, TypeOK, Row
  <2>3. Step(c)
    <3>1. ASSUME NEW d \in Session, Step(d), d # c PROVE FALSE
      BY <3>1, OwnStep
    <3> QED BY <3>1 DEF Next, Step, SetStatus, Seed, Change, Tick, vars
  <2>4. \/ Forbid(c) /\ pc'[c] = "idle"
        \/ Admit(c) /\ pc'[c] = "admitted"
    BY <2>3 DEF Step, Serve, SubmitLogin, Present, Arrive, FindNobody, FindUser, RefuseLogin,
         SignToken, VerifyToken, RefuseToken, Lookup, Forbid, Admit, Handle, Finish, Goto,
         Inv, TypeOK
  <2> QED BY <2>1, <2>2, <2>4 DEF Forbid, Admit, MayUse
<1> QED BY <1>1, Invariant, PTL DEF Spec, RequestsJustified
================================================================================
