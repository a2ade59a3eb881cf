--------------------------------- MODULE Access ---------------------------------
(****************************************************************************)
(* Who gets in: POST /auth/login, the tokens it signs, and the two guards   *)
(* of every other route, while administrators block and unblock users and   *)
(* deployments rotate the password of an administrator.  A handler reads a  *)
(* user, waits (for the password check, for the event loop) and then        *)
(* decides on what it read; tokens outlive all of that until they expire,   *)
(* which is a moment of the clock they carry and every use compares.        *)
(****************************************************************************)
EXTENDS Integers

CONSTANTS
  User, NoUser,
  Session,         \* clients, each with one request under way and one token
  Password,
  Administrators,  \* users who begin as administrators
  Configured,      \* the users that deployments are configured with
  Life,            \* JWT_EXPIRES_IN_SECONDS, in ticks of the clock
  MaxTime          \* bound: where the clock stops

VARIABLES
  rows,    \* the committed rows of users
  pc,      \* where the request of a session is
  asked,   \* what it asks for: a login or a route
  copy,    \* the row its handler has read
  token,   \* the last token it got: whose, with which role, when it expires
  now,     \* the clock, which signing and verifying a token look at
  seen,    \* history: the rows of the user since the request arrived
  issued,  \* history: when the session last logged in
  arrived  \* history: when its request of a route arrived

vars == <<rows, pc, asked, copy, token, now, seen, issued, arrived>>

Row      == [password : Password, status : {"ACTIVE", "BLOCKED"}, role : {"CUSTOMER", "ADMIN"}]
Login    == [route : {"login"}, user : User \cup {NoUser}, password : Password]
Route    == {"own", "admin"}
Request  == [route : Route]
NoToken  == [user |-> NoUser, role |-> "CUSTOMER", exp |-> 0]
Token    == [user : User \cup {NoUser}, role : {"CUSTOMER", "ADMIN"}, exp : Nat]
Stage    == {"idle", "find", "verify", "token", "lookup", "decide", "welcome", "admitted"}
Nothing  == [route |-> "none"]

ASSUME AccessAssumption ==
  /\ Life \in Nat \ {0} /\ MaxTime \in Nat /\ NoUser \notin User
  /\ Administrators \subseteq User /\ Configured \subseteq User

(* Whose row a request is about.                                            *)
Subject(c) == IF asked[c].route = "login" THEN asked[c].user ELSE token[c].user

Goto(c, stage) == pc' = [pc EXCEPT ![c] = stage]

(* The answer reaches the client.                                           *)
Finish(c) ==
  /\ Goto(c, "idle")
  /\ asked' = [asked EXCEPT ![c] = Nothing] /\ seen' = [seen EXCEPT ![c] = {}]
  /\ copy' = [copy EXCEPT ![c] = {}] /\ arrived' = [arrived EXCEPT ![c] = 0]
  /\ UNCHANGED <<rows, token, now, issued>>

Arrive(c, what, stage) ==
  /\ pc[c] = "idle"
  /\ Goto(c, stage) /\ asked' = [asked EXCEPT ![c] = what]
  /\ UNCHANGED <<rows, copy, token, now, issued>>

ReadRow(c, stage) ==
  /\ copy' = [copy EXCEPT ![c] = {rows[Subject(c)]}]
  /\ Goto(c, stage) /\ UNCHANGED <<rows, asked, token, now, seen, issued, arrived>>

--------------------------------------------------------------------------------
(* login().                                                                 *)

SubmitLogin(c) ==
  \E what \in Login :
    /\ Arrive(c, what, "find")
    /\ seen' = [seen EXCEPT ![c] = IF what.user \in User THEN {rows[what.user]} ELSE {}]
    /\ UNCHANGED arrived

FindNobody(c) == pc[c] = "find" /\ asked[c].user = NoUser /\ Finish(c)
FindUser(c)   == pc[c] = "find" /\ asked[c].user \in User /\ ReadRow(c, "verify")

(* Defect: a blocked user is let in by the right password.                  *)
MayEnterUnblocked(c, row) == row.password = asked[c].password

MayEnter(c, row) == row.password = asked[c].password /\ row.status # "BLOCKED"

RefuseLogin(c) ==
  /\ pc[c] = "verify" /\ \A row \in copy[c] : ~MayEnter(c, row)
  /\ Finish(c)

SignToken(c) ==
  /\ pc[c] = "verify"
  /\ \E row \in copy[c] :
       /\ MayEnter(c, row)
       /\ token' = [token EXCEPT ![c] = [user |-> asked[c].user, role |-> row.role, exp |-> now + Life]]
  /\ issued' = [issued EXCEPT ![c] = now]
  /\ Goto(c, "welcome") /\ UNCHANGED <<rows, asked, copy, now, seen, arrived>>

--------------------------------------------------------------------------------
(* The guards.                                                              *)

Present(c) ==
  /\ token[c] # NoToken
  /\ \E route \in Route : Arrive(c, [route |-> route], "token")
  /\ seen' = [seen EXCEPT ![c] = {rows[token[c].user]}] /\ arrived' = [arrived EXCEPT ![c] = now]

(* Defect: the signature is verified and the expiry ignored.                *)
VerifyAnyToken(c) ==
  /\ pc[c] = "token"
  /\ Goto(c, "lookup") /\ UNCHANGED <<rows, asked, copy, token, now, seen, issued, arrived>>

(* A token is good until the clock reaches its expiry, when its handler     *)
(* looks at it, however long ago the request arrived.                       *)
VerifyToken(c) ==
  /\ pc[c] = "token" /\ now < token[c].exp
  /\ Goto(c, "lookup") /\ UNCHANGED <<rows, asked, copy, token, now, seen, issued, arrived>>

RefuseToken(c) == pc[c] = "token" /\ now >= token[c].exp /\ Finish(c)

(* Defect: the status is believed from the time the token was signed.       *)
LookupToken(c) ==
  /\ pc[c] = "lookup"
  /\ copy' = [copy EXCEPT ![c] =
       {[password |-> rows[Subject(c)].password, status |-> "ACTIVE", role |-> token[c].role]}]
  /\ Goto(c, "decide") /\ UNCHANGED <<rows, asked, token, now, seen, issued, arrived>>

Lookup(c) == pc[c] = "lookup" /\ ReadRow(c, "decide")

(* Defect: RolesGuard believes the role in the token.                       *)
MayUseByToken(c, row) ==
  row.status # "BLOCKED" /\ (asked[c].route = "admin" => token[c].role = "ADMIN")

(* JwtAuthGuard looks at the status, RolesGuard at the role, of the row.    *)
MayUse(c, row) ==
  row.status # "BLOCKED" /\ (asked[c].route = "admin" => row.role = "ADMIN")

Forbid(c) ==
  /\ pc[c] = "decide" /\ \A row \in copy[c] : ~MayUse(c, row)
  /\ Finish(c)

Admit(c) ==
  /\ pc[c] = "decide" /\ \E row \in copy[c] : MayUse(c, row)
  /\ Goto(c, "admitted") /\ UNCHANGED <<rows, asked, copy, token, now, seen, issued, arrived>>

(* The handler of the route runs; the token or the answer arrives.          *)
Handle(c) == pc[c] \in {"welcome", "admitted"} /\ Finish(c)

--------------------------------------------------------------------------------
(* What changes under the feet of all this.                                 *)

Change(u, row) ==
  /\ rows' = [rows EXCEPT ![u] = row]
  /\ seen' = [c \in Session |-> IF pc[c] # "idle" /\ Subject(c) = u THEN seen[c] \cup {row} ELSE seen[c]]
  /\ UNCHANGED <<pc, asked, copy, token, now, issued, arrived>>

SetStatus(u) ==
  \E s \in {"ACTIVE", "BLOCKED"} : s # rows[u].status /\ Change(u, [rows[u] EXCEPT !.status = s])

(* A deployment gives its administrator a password, the role and, whatever  *)
(* it was, an active status.                                                *)
Seed(u) ==
  \E p \in Password : Change(u, [password |-> p, status |-> "ACTIVE", role |-> "ADMIN"])

Tick == now < MaxTime /\ now' = now + 1
        /\ UNCHANGED <<rows, pc, asked, copy, token, seen, issued, arrived>>

Init ==
  /\ \E p \in Password :
       rows = [u \in User |-> [password |-> p, status |-> "ACTIVE",
                               role |-> IF u \in Administrators THEN "ADMIN" ELSE "CUSTOMER"]]
  /\ pc = [c \in Session |-> "idle"] /\ asked = [c \in Session |-> Nothing]
  /\ copy = [c \in Session |-> {}] /\ token = [c \in Session |-> NoToken]
  /\ seen = [c \in Session |-> {}] /\ now = 0
  /\ issued = [c \in Session |-> 0] /\ arrived = [c \in Session |-> 0]

Serve(c) ==
  \/ FindNobody(c) \/ FindUser(c) \/ RefuseLogin(c) \/ SignToken(c)
  \/ VerifyToken(c) \/ RefuseToken(c) \/ Lookup(c) \/ Forbid(c) \/ Admit(c) \/ Handle(c)

Next ==
  \/ \E c \in Session : SubmitLogin(c) \/ Present(c) \/ Serve(c)
  \/ \E u \in User : SetStatus(u)
  \/ \E u \in Configured : Seed(u)
  \/ Tick

Spec == Init /\ [][Next]_vars

(* Handlers run to their end; nobody has to ask, to block or to deploy.     *)
FairSpec == Spec /\ \A c \in Session : WF_vars(Serve(c))

--------------------------------------------------------------------------------
(* Properties.                                                              *)

TypeOK ==
  /\ rows \in [User -> Row]
  /\ pc \in [Session -> Stage]
  /\ asked \in [Session -> Login \cup Request \cup {Nothing}]
  /\ copy \in [Session -> SUBSET Row] /\ seen \in [Session -> SUBSET Row]
  /\ token \in [Session -> Token] /\ now \in Nat
  /\ issued \in [Session -> Nat] /\ arrived \in [Session -> Nat]

(* A route is entered only by a request that arrived less than the life of  *)
(* a token after its client's last login: whatever the user's row says, a   *)
(* client that never logs in again is out when that time is over, and a     *)
(* request that waits does not keep its token alive.                        *)
TokensExpire == \A c \in Session : pc[c] = "admitted" => arrived[c] < issued[c] + Life

(* A login succeeds, or fails, only if it would have done so on some state  *)
(* its user was in while the request was under way: the slow password check *)
(* makes it no more stale than that.                                        *)
LoginsJustified ==
  [][\A c \in Session : pc[c] = "verify" /\ pc'[c] # "verify" =>
       \E row \in seen[c] :
         (pc'[c] = "welcome")
           <=> (row.status = "ACTIVE" /\ row.password = asked[c].password)]_vars

(* The guards admit, or refuse, a live token only if they would have done   *)
(* so on some state its user was in since the request arrived: neither the  *)
(* status nor the role is believed from the time the token was signed.      *)
RequestsJustified ==
  [][\A c \in Session : pc[c] = "decide" /\ pc'[c] # "decide" =>
       \E row \in seen[c] :
         (pc'[c] = "admitted")
           <=> (row.status = "ACTIVE" /\ (asked[c].route = "admin" => row.role = "ADMIN"))]_vars

(* Who is blocked for good is out for good, whatever tokens there are and   *)
(* whatever logins were under way.                                          *)
BlockedStayOut ==
  \A u \in User : <>[](rows[u].status = "BLOCKED") =>
                  <>[](\A c \in Session : pc[c] = "admitted" => token[c].user # u)
================================================================================
