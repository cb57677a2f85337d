------------------------------ MODULE Accounts ------------------------------
(***************************************************************************)
(* Who may call what: handleRegister, handleLogin, handleDummyLogin,       *)
(* authMiddleware and requireRole (internal/app/http.go) over the map of   *)
(* users in the process's memory and the tokens of internal/app/jwt.go.    *)
(*                                                                         *)
(* A request is a goroutine.  Everything it does to the map is a step of   *)
(* its own, so that a mutex held too briefly, or not released, shows.  A   *)
(* restart empties the map; the tokens, which are signed with a secret of  *)
(* the environment and kept by the clients, stay good until they expire.   *)
(***************************************************************************)
EXTENDS Naturals

CONSTANTS
  Requests,   \* every request that will ever be made; a registration names its user's id
  Emails,     \* e-mail addresses as clients write them
  Lower,      \* strings.ToLower, on those
  Passwords,
  Blank,      \* the empty string, as an e-mail, a password, an id or a role
  Inputs,     \* bound: the requests that clients make
  Life,       \* 24 hours, in ticks of the clock
  Horizon,    \* bound: the clock stops here
  None        \* no account, no token, no holder

Roles    == {"admin", "user"}
(* adminID and userID, constants of the program. *)
DummyId  == [admin |-> "adminID", user |-> "userID"]
Ids      == Requests \cup {"adminID", "userID"}

RegisterRequest == [op : {"register"}, email : Emails, password : Passwords,
                    role : Roles \cup {"other"}]
LoginRequest    == [op : {"login"}, email : Emails, password : Passwords]
DummyRequest    == [op : {"dummyLogin"}, role : Roles \cup {"other"}]
(* bearer: whose token it carries; needs: the role of the route it is for.  *)
CallRequest     == [op : {"call"}, bearer : Requests \cup {None},
                    needs : Roles \cup {"any"}]
Request == RegisterRequest \cup LoginRequest \cup DummyRequest \cup CallRequest

Account == [id : Ids, role : Roles, password : Passwords]
Token   == [id : Ids, role : Roles, exp : Nat]
Claims  == [id : Ids, role : Roles]

(* What Go gives for a key that is not in the map. *)
Zero == [id |-> Blank, role |-> Blank, password |-> Blank]

ASSUME AccountsAssumption ==
  /\ Lower \in [Emails -> Emails]
  /\ Inputs \subseteq Request
  /\ Life \in Nat /\ Horizon \in Nat
  /\ Blank \notin Ids \cup Roles
  /\ {"adminID", "userID"} \cap Requests = {}
  /\ None \notin Requests \cup Request \cup Account \cup Token \cup Claims

VARIABLES
  users,    \* Server.users, by lower-case e-mail
  lock,     \* Server.usersMu: who holds it
  req,      \* what each request asks for
  pc,       \* what each request does next
  resp,     \* the answer
  found,    \* the account a request found in the map, or Zero
  token,    \* the token a login was given
  claims,   \* what a call's token said, once authenticated
  now,
  here,     \* history: the requests that came to this process
  before    \* history: the registrations answered when a request came

vars == <<users, lock, req, pc, resp, found, token, claims, now, here, before>>

(* The steps between Lock and Unlock. *)
Holding == {"read", "write", "unlock"}
Running == Holding \cup {"lock", "verify", "issue", "authenticate", "requireRole", "handle"}
(* "dead": the process died and nothing was answered. *)
Ended   == {"done", "dead"}
Answers == {"none", "created", "OK", "INVALID_REQUEST", "EMAIL_EXISTS",
            "UNAUTHORIZED", "FORBIDDEN"}

TypeOK ==
  /\ users \in [Emails -> Account \cup {None}]
  /\ lock \in Requests \cup {None}
  /\ req \in [Requests -> Request \cup {None}]
  /\ pc \in [Requests -> {"idle"} \cup Running \cup Ended]
  /\ resp \in [Requests -> Answers]
  /\ found \in [Requests -> Account \cup {Zero}]
  /\ token \in [Requests -> Token \cup {None}]
  /\ claims \in [Requests -> Claims \cup {None}]
  /\ now \in 0 .. Horizon
  /\ here \subseteq Requests
  /\ before \in [Requests -> SUBSET Requests]

Init ==
  /\ users = [e \in Emails |-> None]
  /\ lock = None
  /\ req = [r \in Requests |-> None]
  /\ pc = [r \in Requests |-> "idle"]
  /\ resp = [r \in Requests |-> "none"]
  /\ found = [r \in Requests |-> Zero]
  /\ token = [r \in Requests |-> None]
  /\ claims = [r \in Requests |-> None]
  /\ now = 0
  /\ here = {}
  /\ before = [r \in Requests |-> {}]

-----------------------------------------------------------------------------
Goto(r, step) ==
  /\ pc' = [pc EXCEPT ![r] = step]
  /\ UNCHANGED resp

(* The answer goes out; a handler that holds the mutex then releases it.    *)
Answer(r, code, next) ==
  /\ pc' = [pc EXCEPT ![r] = next]
  /\ resp' = [resp EXCEPT ![r] = code]

Registered(r) == req[r] # None /\ req[r].op = "register" /\ resp[r] = "created"

(* What the handlers refuse before they touch anything. *)
Valid(q) ==
  /\ q.op = "register" =>
       q.email # Blank /\ q.password # Blank /\ q.role \in Roles
  /\ q.op = "dummyLogin" => q.role \in Roles

FirstStep == [register |-> "lock", login |-> "lock",
              dummyLogin |-> "issue", call |-> "authenticate"]

Arrive(r) ==
  /\ pc[r] = "idle"
  /\ \E q \in Inputs :
       /\ q.op = "call" /\ q.bearer # None => token[q.bearer] # None
       /\ req' = [req EXCEPT ![r] = q]
       /\ IF Valid(q) THEN Goto(r, FirstStep[q.op])
                      ELSE Answer(r, "INVALID_REQUEST", "done")
  /\ here' = here \cup {r}
  /\ before' = [before EXCEPT ![r] = {a \in here : Registered(a)}]
  /\ UNCHANGED <<users, lock, found, token, claims, now>>

-----------------------------------------------------------------------------
(* The map and its mutex. *)

KeyAsWritten(r) == req[r].email
KeyOf(r) == Lower[req[r].email]

(* Variant: no mutex. *)
Anytime == TRUE
LockIsFree == lock = None

Lock(r) ==
  /\ pc[r] = "lock"
  /\ LockIsFree
  /\ lock' = r
  /\ Goto(r, "read")
  /\ UNCHANGED <<users, req, found, token, claims, now, here, before>>

(* s.users[strings.ToLower(req.Email)] *)
Read(r) ==
  /\ pc[r] = "read"
  /\ LET account == users[KeyOf(r)] IN
       /\ found' = [found EXCEPT ![r] = IF account = None THEN Zero ELSE account]
       /\ \/ req[r].op = "login" /\ Goto(r, "unlock")
          \/ req[r].op = "register" /\ account = None /\ Goto(r, "write")
          \/ /\ req[r].op = "register" /\ account # None
             /\ Answer(r, "EMAIL_EXISTS", "unlock")
  /\ UNCHANGED <<users, lock, req, token, claims, now, here, before>>

NewAccount(r) == [id |-> r, role |-> req[r].role, password |-> req[r].password]

Write(r) ==
  /\ pc[r] = "write"
  /\ users' = [users EXCEPT ![KeyOf(r)] = NewAccount(r)]
  /\ Answer(r, "created", "unlock")
  /\ UNCHANGED <<lock, req, found, token, claims, now, here, before>>

(* Variant: the mutex is released only where an account was stored. *)
ReleaseUnlessRefused(r) == IF resp[r] = "EMAIL_EXISTS" THEN lock ELSE None
Release(r) == None

Unlock(r) ==
  /\ pc[r] = "unlock"
  /\ lock' = Release(r)
  /\ Goto(r, IF req[r].op = "login" THEN "verify" ELSE "done")
  /\ UNCHANGED <<users, req, found, token, claims, now, here, before>>

-----------------------------------------------------------------------------
(* Tokens. *)

(* IssueToken. *)
Issue(r, id, role) ==
  /\ token' = [token EXCEPT ![r] = [id |-> id, role |-> role, exp |-> now + Life]]
  /\ Answer(r, "OK", "done")

(* Variants: the password is not compared, or whether the account exists.   *)
AccountExists(r) == found[r] # Zero
PasswordMatches(r) == found[r].password = req[r].password
Matches(r) == found[r] # Zero /\ found[r].password = req[r].password

(* The rest of handleLogin, after the mutex. *)
Verify(r) ==
  /\ pc[r] = "verify"
  /\ IF Matches(r) THEN Issue(r, found[r].id, found[r].role)
     ELSE Answer(r, "UNAUTHORIZED", "done") /\ UNCHANGED token
  /\ UNCHANGED <<users, lock, req, found, claims, now, here, before>>

DummyLogin(r) ==
  /\ pc[r] = "issue"
  /\ Issue(r, DummyId[req[r].role], req[r].role)
  /\ UNCHANGED <<users, lock, req, found, claims, now, here, before>>

(* ParseToken. *)
Good(t) == t # None /\ now < t.exp /\ t.id # Blank /\ t.role \in Roles

(* authMiddleware. *)
Authenticate(r) ==
  /\ pc[r] = "authenticate"
  /\ LET t == IF req[r].bearer = None THEN None ELSE token[req[r].bearer] IN
     IF Good(t)
       THEN /\ claims' = [claims EXCEPT ![r] = [id |-> t.id, role |-> t.role]]
            /\ Goto(r, "requireRole")
       ELSE /\ Answer(r, "UNAUTHORIZED", "done")
            /\ UNCHANGED claims
  /\ UNCHANGED <<users, lock, req, found, token, now, here, before>>

RequireRole(r) ==
  /\ pc[r] = "requireRole"
  /\ IF req[r].needs \in {"any", claims[r].role} THEN Goto(r, "handle")
                                                 ELSE Answer(r, "FORBIDDEN", "done")
  /\ UNCHANGED <<users, lock, req, found, token, claims, now, here, before>>

(* The handler acts as claims[r].id. *)
Handle(r) ==
  /\ pc[r] = "handle"
  /\ Answer(r, "OK", "done")
  /\ UNCHANGED <<users, lock, req, found, token, claims, now, here, before>>

-----------------------------------------------------------------------------
(* The process ends with its requests and its memory, and starts again.     *)
Restart ==
  /\ here # {}
  /\ users' = [e \in Emails |-> None]
  /\ lock' = None
  /\ pc' = [r \in Requests |-> IF pc[r] \in Running THEN "dead" ELSE pc[r]]
  /\ here' = {}
  /\ UNCHANGED <<req, resp, found, token, claims, now, before>>

Tick ==
  /\ now < Horizon
  /\ now' = now + 1
  /\ UNCHANGED <<users, lock, req, pc, resp, found, token, claims, here, before>>

Step(r) ==
  \/ Lock(r) \/ Read(r) \/ Write(r) \/ Unlock(r)
  \/ Verify(r) \/ DummyLogin(r)
  \/ Authenticate(r) \/ RequireRole(r) \/ Handle(r)

Next ==
  \/ \E r \in Requests : Arrive(r) \/ Step(r)
  \/ Restart
  \/ Tick

Spec == Init /\ [][Next]_vars

(* A goroutine that can run does, and a mutex that is free is taken.        *)
FairSpec == Spec /\ \A r \in Requests : WF_vars(Step(r))

-----------------------------------------------------------------------------
(* Properties. *)

SameAddress(r, q) == Lower[req[r].email] = Lower[req[q].email]

(* A registration answered 201 is the account of its e-mail, however it is  *)
(* written, for as long as the process lives: of several at once, one wins, *)
(* and no later one replaces it (handleRegister).                           *)
CreatedAccountStands ==
  \A r \in here : Registered(r) => users[Lower[req[r].email]] = NewAccount(r)

(* A login refused had no account with its password among those answered    *)
(* before it came, and a registration refused for its e-mail had lost to    *)
(* another: no request misses what this process has already promised.       *)
RefusalsAreTrue ==
  \A r \in Requests : req[r] # None =>
    /\ req[r].op = "login" /\ resp[r] = "UNAUTHORIZED" =>
         \A a \in before[r] : ~ (SameAddress(a, r) /\ req[a].password = req[r].password)
    /\ resp[r] = "EMAIL_EXISTS" =>
         \E a \in Requests : a # r /\ Registered(a) /\ SameAddress(a, r)

(* l logged in with the e-mail and the password that a registered. *)
LoggedInAs(l, a) ==
  /\ req[l] # None /\ req[l].op = "login" /\ token[l] # None
  /\ Registered(a)
  /\ SameAddress(l, a) /\ req[l].password = req[a].password

(* A handler that ran acts for one of the two test users in its own role,   *)
(* or for a user that was registered with the role the route asks for and   *)
(* whose password somebody gave, in this process or in one before it: a     *)
(* token outlives the account, and is never worth more than it.             *)
ActsAreAuthorised ==
  \A r \in Requests : resp[r] = "OK" /\ req[r].op = "call" =>
    LET c == claims[r] IN
    /\ req[r].needs \in {"any", c.role}
    /\ \/ c.id = DummyId[c.role]
       \/ /\ c.id \in Requests
          /\ req[c.id].role = c.role
          /\ LoggedInAs(req[r].bearer, c.id)

(* Exactly the request that is between Lock and Unlock holds the mutex, so  *)
(* no two are in the map at once, which Go answers by ending the process.   *)
MapIsGuarded == \A r \in Requests : pc[r] \in Holding <=> lock = r

(* Every request ends, whichever return its handler took with the mutex.    *)
EveryRequestEnds == \A r \in Requests : pc[r] \in Running ~> pc[r] \in Ended
=============================================================================
