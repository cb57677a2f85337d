---------------------------- MODULE AccountsProofs ----------------------------
(***************************************************************************)
(* Accounts, for every set of requests, addresses and passwords, and       *)
(* however often the process restarts: its types, the mutex, and what      *)
(* registrations, logins and calls are answered.                           *)
(***************************************************************************)
EXTENDS Accounts, TLAPS

(* A step belongs to the request that takes it, and nothing is answered or  *)
(* issued before the step that does.                                        *)
StepsAgree ==
  \A r \in Requests :
    /\ pc[r] = "idle" =>
         /\ req[r] = None /\ resp[r] = "none"
         /\ found[r] = Zero /\ token[r] = None /\ claims[r] = None
    /\ pc[r] # "idle" => req[r] # None
    /\ pc[r] \in Running => r \in here /\ token[r] = None
    /\ pc[r] \in Running \ {"unlock"} => resp[r] = "none"
    /\ pc[r] = "unlock" => resp[r] # "OK" /\ (req[r].op = "login" => resp[r] = "none")
    /\ pc[r] \in {"lock", "read", "unlock"} => req[r] \in RegisterRequest \cup LoginRequest
    /\ pc[r] \in {"lock", "read", "write", "unlock"} /\ req[r].op = "register" =>
         req[r].role \in Roles
    /\ pc[r] = "write" => req[r] \in RegisterRequest
    /\ pc[r] = "verify" => req[r] \in LoginRequest
    /\ pc[r] = "issue" => req[r] \in DummyRequest /\ req[r].role \in Roles
    /\ pc[r] \in {"authenticate", "requireRole", "handle"} => req[r] \in CallRequest
    /\ resp[r] = "created" => req[r] \in RegisterRequest /\ req[r].role \in Roles

(* A registration about to store its account has no other to replace. *)
WritesFindNothing ==
  \A r \in Requests : pc[r] = "write" => users[KeyOf(r)] = None

(* The map holds what registrations of this process stored, nothing else. *)
UsersAreRegistered ==
  \A e \in Emails : users[e] # None =>
    \E a \in Requests : Registered(a) /\ KeyOf(a) = e /\ users[e] = NewAccount(a)

(* What was promised before a request came is still promised while it runs. *)
BeforeIsHere ==
  \A r \in Requests :
    /\ \A a \in before[r] : Registered(a)
    /\ pc[r] \in Running => before[r] \subseteq here

(* A login past the mutex has the account of its address: one that was      *)
(* registered, and, if one was before it came, that one.                    *)
FoundIsRegistered ==
  \A r \in Requests : req[r] # None /\ req[r].op = "login" =>
    /\ found[r] # Zero =>
         \E a \in Requests : Registered(a) /\ SameAddress(r, a) /\ found[r] = NewAccount(a)
    /\ pc[r] \in {"unlock", "verify"} =>
         \A a \in before[r] : SameAddress(a, r) => found[r] = NewAccount(a)

(* What one may do who holds the token of l with this id and role. *)
Entitled(l, id, role) ==
  \/ id = DummyId[role]
  \/ /\ id \in Requests
     /\ req[id].role = role
     /\ LoggedInAs(l, id)

TokensAreEarned ==
  \A l \in Requests : token[l] # None => Entitled(l, token[l].id, token[l].role)

(* What a call was authenticated as, and what it was let through to. *)
CallsAreChecked ==
  \A r \in Requests :
    /\ pc[r] \in {"requireRole", "handle"} => claims[r] # None
    /\ claims[r] # None =>
         /\ req[r] \in CallRequest
         /\ req[r].bearer \in Requests
         /\ token[req[r].bearer] # None
         /\ Entitled(req[r].bearer, claims[r].id, claims[r].role)
    /\ pc[r] = "handle" \/ (resp[r] = "OK" /\ req[r].op = "call") =>
         claims[r] # None /\ req[r].needs \in {"any", claims[r].role}

IInv ==
  /\ TypeOK /\ StepsAgree /\ MapIsGuarded /\ WritesFindNothing
  /\ UsersAreRegistered /\ CreatedAccountStands
  /\ BeforeIsHere /\ FoundIsRegistered /\ RefusalsAreTrue
  /\ TokensAreEarned /\ CallsAreChecked

-----------------------------------------------------------------------------
(* Initially nothing has been asked, stored or answered. *)
LEMMA InitIInv == Init => IInv
  BY AccountsAssumption
  DEF Init, IInv, TypeOK, StepsAgree, MapIsGuarded, WritesFindNothing, UsersAreRegistered,
      CreatedAccountStands, BeforeIsHere, FoundIsRegistered, RefusalsAreTrue,
      TokensAreEarned, CallsAreChecked, Registered, Running, Holding, Answers

(* What a kind of request has, told by its op. *)
LEMMA RequestKinds ==
  ASSUME NEW q \in Request
  PROVE  /\ q # None
         /\ q.op \in {"register", "login", "dummyLogin", "call"}
         /\ q.op = "register" => q \in RegisterRequest
         /\ q.op = "login" => q \in LoginRequest
         /\ q.op = "dummyLogin" => q \in DummyRequest
         /\ q.op = "call" => q \in CallRequest
         /\ q.op \in {"register", "login"} => Lower[q.email] \in Emails
  BY AccountsAssumption
  DEF Request, RegisterRequest, LoginRequest, DummyRequest, CallRequest

(* Where a request starts. *)
LEMMA Beginnings ==
  ASSUME NEW q \in Request
  PROVE  /\ FirstStep[q.op] \in {"lock", "issue", "authenticate"}
         /\ FirstStep[q.op] = "lock" <=> q.op \in {"register", "login"}
         /\ FirstStep[q.op] = "issue" <=> q.op = "dummyLogin"
         /\ FirstStep[q.op] = "authenticate" <=> q.op = "call"
  BY RequestKinds DEF FirstStep

LEMMA NextType ==
  ASSUME IInv, [Next]_vars
  PROVE  TypeOK'
  <1> USE DEF IInv, TypeOK
  <1>1. ASSUME NEW r \in Requests, Arrive(r) PROVE TypeOK'
    <2>1. PICK q \in Request :
            /\ req' = [req EXCEPT ![r] = q]
            /\ IF Valid(q) THEN Goto(r, FirstStep[q.op])
                           ELSE Answer(r, "INVALID_REQUEST", "done")
      BY <1>1, AccountsAssumption DEF Arrive
    <2> QED
      BY <1>1, <2>1, Beginnings DEF Arrive, Goto, Answer, Running, Ended, Answers
  <1>2. ASSUME NEW r \in Requests, Lock(r) PROVE TypeOK'
    BY <1>2 DEF Lock, Goto, Running, Holding
  <1>3. ASSUME NEW r \in Requests, Read(r) PROVE TypeOK'
    <2>1. KeyOf(r) \in Emails
      BY <1>3, AccountsAssumption DEF Read, StepsAgree, KeyOf, RegisterRequest, LoginRequest
    <2> QED
      BY <1>3, <2>1 DEF Read, Goto, Answer, Running, Holding, Answers
  <1>4. ASSUME NEW r \in Requests, Write(r) PROVE TypeOK'
    <2>1. KeyOf(r) \in Emails /\ NewAccount(r) \in Account
      BY <1>4, AccountsAssumption
      DEF Write, StepsAgree, KeyOf, NewAccount, RegisterRequest, Account, Ids
    <2> QED
      BY <1>4, <2>1 DEF Write, Answer, Running, Holding, Answers
  <1>5. ASSUME NEW r \in Requests, Unlock(r) PROVE TypeOK'
    BY <1>5 DEF Unlock, Release, Goto, Running, Ended
  <1>6. ASSUME NEW r \in Requests, Verify(r) PROVE TypeOK'
    <2>1. Matches(r) => found[r] \in Account
      BY DEF Matches
    <2>2. now + Life \in Nat
      BY AccountsAssumption
    <2> QED
      BY <1>6, <2>1, <2>2 DEF Verify, Issue, Answer, Ended, Answers, Account, Token
  <1>7. ASSUME NEW r \in Requests, DummyLogin(r) PROVE TypeOK'
    <2>1. req[r].role \in Roles /\ DummyId[req[r].role] \in Ids
      BY <1>7 DEF DummyLogin, StepsAgree, Roles, DummyId, Ids
    <2>2. now + Life \in Nat
      BY AccountsAssumption
    <2> QED
      BY <1>7, <2>1, <2>2 DEF DummyLogin, Issue, Answer, Ended, Answers, Token
  <1>8. ASSUME NEW r \in Requests, Authenticate(r) PROVE TypeOK'
    <2>1. req[r].bearer \in Requests \cup {None}
      BY <1>8 DEF Authenticate, StepsAgree, CallRequest
    <2>2. \A t \in Token : [id |-> t.id, role |-> t.role] \in Claims
      BY DEF Token, Claims
    <2>3. \/ \E c \in Claims : claims' = [claims EXCEPT ![r] = c] /\ Goto(r, "requireRole")
          \/ claims' = claims /\ Answer(r, "UNAUTHORIZED", "done")
      BY <1>8, <2>1, <2>2 DEF Authenticate, Good
    <2> QED
      BY <1>8, <2>3 DEF Authenticate, Goto, Answer, Running, Ended, Answers
  <1>9. ASSUME NEW r \in Requests, RequireRole(r) PROVE TypeOK'
    BY <1>9 DEF RequireRole, Goto, Answer, Running, Ended, Answers
  <1>10. ASSUME NEW r \in Requests, Handle(r) PROVE TypeOK'
    BY <1>10 DEF Handle, Answer, Ended, Answers
  <1>11. CASE Restart
    BY <1>11 DEF Restart, Ended
  <1>12. CASE Tick
    BY <1>12, AccountsAssumption DEF Tick
  <1>13. CASE UNCHANGED vars
    BY <1>13 DEF vars
  <1> QED
    BY <1>1, <1>2, <1>3, <1>4, <1>5, <1>6, <1>7, <1>8, <1>9, <1>10, <1>11, <1>12, <1>13
    DEF Next, Step

(* What no step undoes: what was asked, what was registered, what was       *)
(* issued.                                                                  *)
LEMMA NothingIsUndone ==
  ASSUME IInv, [Next]_vars
  PROVE  /\ \A r \in Requests : req[r] # None => req'[r] = req[r] /\ before'[r] = before[r]
         /\ \A r \in Requests : Registered(r) => Registered(r)'
         /\ \A r \in Requests : token[r] # None => token'[r] = token[r]
  <1> USE DEF IInv, TypeOK, StepsAgree, Registered, Goto, Answer, Issue, Running, Holding
  <1> DEFINE Kept ==
        /\ \A r \in Requests : req[r] # None => req'[r] = req[r] /\ before'[r] = before[r]
        /\ \A r \in Requests : Registered(r) => Registered(r)'
        /\ \A r \in Requests : token[r] # None => token'[r] = token[r]
  <1>1. ASSUME NEW q \in Requests, Arrive(q) PROVE Kept
    BY <1>1 DEF Arrive
  <1>2. ASSUME NEW q \in Requests, Lock(q) PROVE Kept
    BY <1>2 DEF Lock
  <1>3. ASSUME NEW q \in Requests, Read(q) PROVE Kept
    BY <1>3 DEF Read
  <1>4. ASSUME NEW q \in Requests, Write(q) PROVE Kept
    BY <1>4, AccountsAssumption DEF Write, RegisterRequest
  <1>5. ASSUME NEW q \in Requests, Unlock(q) PROVE Kept
    BY <1>5 DEF Unlock
  <1>6. ASSUME NEW q \in Requests, Verify(q) PROVE Kept
    BY <1>6 DEF Verify
  <1>7. ASSUME NEW q \in Requests, DummyLogin(q) PROVE Kept
    BY <1>7 DEF DummyLogin
  <1>8. ASSUME NEW q \in Requests, Authenticate(q) PROVE Kept
    BY <1>8 DEF Authenticate
  <1>9. ASSUME NEW q \in Requests, RequireRole(q) PROVE Kept
    BY <1>9 DEF RequireRole
  <1>10. ASSUME NEW q \in Requests, Handle(q) PROVE Kept
    BY <1>10 DEF Handle
  <1>11. CASE Restart
    BY <1>11 DEF Restart
  <1>12. CASE Tick
    BY <1>12 DEF Tick
  <1>13. CASE UNCHANGED vars
    BY <1>13 DEF vars
  <1> QED
    BY <1>1, <1>2, <1>3, <1>4, <1>5, <1>6, <1>7, <1>8, <1>9, <1>10, <1>11, <1>12, <1>13
    DEF Next, Step

LEMMA NextStepsAgree ==
  ASSUME IInv, [Next]_vars
  PROVE  StepsAgree'
  <1> USE DEF IInv, TypeOK, StepsAgree, Goto, Answer, Issue, Running, Holding
  <1>1. ASSUME NEW q \in Requests, Arrive(q) PROVE StepsAgree'
    <2>1. PICK q0 \in Request :
            /\ req' = [req EXCEPT ![q] = q0]
            /\ IF Valid(q0) THEN Goto(q, FirstStep[q0.op])
                            ELSE Answer(q, "INVALID_REQUEST", "done")
      BY <1>1, AccountsAssumption DEF Arrive
    <2>2. token[q] = None
      BY <1>1 DEF Arrive
    <2> QED
      BY <1>1, <2>1, <2>2, Beginnings, RequestKinds DEF Arrive, Valid
  <1>2. ASSUME NEW q \in Requests, Lock(q) PROVE StepsAgree'
    BY <1>2 DEF Lock
  <1>3. ASSUME NEW q \in Requests, Read(q) PROVE StepsAgree'
    BY <1>3 DEF Read, RegisterRequest, LoginRequest
  <1>4. ASSUME NEW q \in Requests, Write(q) PROVE StepsAgree'
    BY <1>4 DEF Write, RegisterRequest
  <1>5. ASSUME NEW q \in Requests, Unlock(q) PROVE StepsAgree'
    BY <1>5 DEF Unlock, Release, RegisterRequest, LoginRequest
  <1>6. ASSUME NEW q \in Requests, Verify(q) PROVE StepsAgree'
    BY <1>6 DEF Verify
  <1>7. ASSUME NEW q \in Requests, DummyLogin(q) PROVE StepsAgree'
    BY <1>7 DEF DummyLogin
  <1>8. ASSUME NEW q \in Requests, Authenticate(q) PROVE StepsAgree'
    BY <1>8 DEF Authenticate
  <1>9. ASSUME NEW q \in Requests, RequireRole(q) PROVE StepsAgree'
    BY <1>9 DEF RequireRole
  <1>10. ASSUME NEW q \in Requests, Handle(q) PROVE StepsAgree'
    BY <1>10 DEF Handle
  <1>11. CASE Restart
    BY <1>11 DEF Restart
  <1>12. CASE Tick
    BY <1>12 DEF Tick
  <1>13. CASE UNCHANGED vars
    BY <1>13 DEF vars
  <1> QED
    BY <1>1, <1>2, <1>3, <1>4, <1>5, <1>6, <1>7, <1>8, <1>9, <1>10, <1>11, <1>12, <1>13
    DEF Next, Step

(* Lock waits for the mutex, and every way out of the map releases it.      *)
LEMMA NextGuarded ==
  ASSUME IInv, [Next]_vars
  PROVE  MapIsGuarded'
  <1> USE DEF IInv, TypeOK, StepsAgree, MapIsGuarded, Goto, Answer, Issue, Running, Holding
  <1>1. ASSUME NEW q \in Requests, Arrive(q) PROVE MapIsGuarded'
    <2>1. pc'[q] \in {"lock", "issue", "authenticate", "done"}
      <3>1. PICK q0 \in Request :
              IF Valid(q0) THEN Goto(q, FirstStep[q0.op])
                           ELSE Answer(q, "INVALID_REQUEST", "done")
        BY <1>1, AccountsAssumption DEF Arrive
      <3> QED
        BY <3>1, Beginnings
    <2>2. \A r \in Requests : r # q => pc'[r] = pc[r]
      BY <1>1 DEF Arrive
    <2> QED
      BY <1>1, <2>1, <2>2, AccountsAssumption DEF Arrive
  <1>2. ASSUME NEW q \in Requests, Lock(q) PROVE MapIsGuarded'
    BY <1>2, AccountsAssumption DEF Lock, LockIsFree
  <1>3. ASSUME NEW q \in Requests, Read(q) PROVE MapIsGuarded'
    BY <1>3 DEF Read
  <1>4. ASSUME NEW q \in Requests, Write(q) PROVE MapIsGuarded'
    BY <1>4 DEF Write
  <1>5. ASSUME NEW q \in Requests, Unlock(q) PROVE MapIsGuarded'
    BY <1>5, AccountsAssumption DEF Unlock, Release
  <1>6. ASSUME NEW q \in Requests, Verify(q) PROVE MapIsGuarded'
    BY <1>6 DEF Verify
  <1>7. ASSUME NEW q \in Requests, DummyLogin(q) PROVE MapIsGuarded'
    BY <1>7 DEF DummyLogin
  <1>8. ASSUME NEW q \in Requests, Authenticate(q) PROVE MapIsGuarded'
    BY <1>8 DEF Authenticate
  <1>9. ASSUME NEW q \in Requests, RequireRole(q) PROVE MapIsGuarded'
    BY <1>9 DEF RequireRole
  <1>10. ASSUME NEW q \in Requests, Handle(q) PROVE MapIsGuarded'
    BY <1>10 DEF Handle
  <1>11. CASE Restart
    BY <1>11, AccountsAssumption DEF Restart
  <1>12. CASE Tick
    BY <1>12 DEF Tick
  <1>13. CASE UNCHANGED vars
    BY <1>13 DEF vars
  <1> QED
    BY <1>1, <1>2, <1>3, <1>4, <1>5, <1>6, <1>7, <1>8, <1>9, <1>10, <1>11, <1>12, <1>13
    DEF Next, Step

(* Only Write makes a registration succeed. *)
LEMMA WhoRegisters ==
  ASSUME IInv, [Next]_vars, NEW a \in Requests, Registered(a)', ~ Registered(a)
  PROVE  Write(a)
  <1> USE DEF IInv, TypeOK, StepsAgree, Registered, Goto, Answer, Issue, Running, Holding
  <1>1. ASSUME NEW q \in Requests, Arrive(q) PROVE Write(a)
    <2>1. /\ \A r \in Requests : r # q => req'[r] = req[r] /\ resp'[r] = resp[r]
          /\ resp'[q] # "created"
      BY <1>1 DEF Arrive
    <2> QED
      BY <1>1, <2>1
  <1>2. ASSUME NEW q \in Requests, Lock(q) PROVE Write(a)
    BY <1>2 DEF Lock
  <1>3. ASSUME NEW q \in Requests, Read(q) PROVE Write(a)
    BY <1>3 DEF Read
  <1>4. ASSUME NEW q \in Requests, Write(q) PROVE Write(a)
    BY <1>4 DEF Write
  <1>5. ASSUME NEW q \in Requests, Unlock(q) PROVE Write(a)
    BY <1>5 DEF Unlock
  <1>6. ASSUME NEW q \in Requests, Verify(q) PROVE Write(a)
    BY <1>6 DEF Verify
  <1>7. ASSUME NEW q \in Requests, DummyLogin(q) PROVE Write(a)
    BY <1>7 DEF DummyLogin
  <1>8. ASSUME NEW q \in Requests, Authenticate(q) PROVE Write(a)
    BY <1>8 DEF Authenticate
  <1>9. ASSUME NEW q \in Requests, RequireRole(q) PROVE Write(a)
    BY <1>9 DEF RequireRole
  <1>10. ASSUME NEW q \in Requests, Handle(q) PROVE Write(a)
    BY <1>10 DEF Handle
  <1>11. CASE Restart
    BY <1>11 DEF Restart
  <1>12. CASE Tick
    BY <1>12 DEF Tick
  <1>13. CASE UNCHANGED vars
    BY <1>13 DEF vars
  <1> QED
    BY <1>1, <1>2, <1>3, <1>4, <1>5, <1>6, <1>7, <1>8, <1>9, <1>10, <1>11, <1>12, <1>13
    DEF Next, Step

(* Whoever is about to store an account holds the mutex: nobody stores one  *)
(* between its look and its write.                                          *)
LEMMA NextWrites ==
  ASSUME IInv, [Next]_vars
  PROVE  WritesFindNothing'
  <1> USE DEF IInv, TypeOK, StepsAgree, MapIsGuarded, WritesFindNothing, KeyOf,
              Goto, Answer, Issue, Running, Holding
  <1>1. ASSUME NEW q \in Requests, Arrive(q) PROVE WritesFindNothing'
    <2>1. pc'[q] # "write"
      <3>1. PICK q0 \in Request :
              IF Valid(q0) THEN Goto(q, FirstStep[q0.op])
                           ELSE Answer(q, "INVALID_REQUEST", "done")
        BY <1>1, AccountsAssumption DEF Arrive
      <3> QED
        BY <3>1, Beginnings
    <2>2. \A r \in Requests : r # q => pc'[r] = pc[r] /\ req'[r] = req[r]
      BY <1>1 DEF Arrive
    <2> QED
      BY <1>1, <2>1, <2>2 DEF Arrive
  <1>2. ASSUME NEW q \in Requests, Lock(q) PROVE WritesFindNothing'
    BY <1>2 DEF Lock
  <1>3. ASSUME NEW q \in Requests, Read(q) PROVE WritesFindNothing'
    BY <1>3 DEF Read
  <1>4. ASSUME NEW q \in Requests, Write(q) PROVE WritesFindNothing'
    BY <1>4 DEF Write
  <1>5. ASSUME NEW q \in Requests, Unlock(q) PROVE WritesFindNothing'
    BY <1>5 DEF Unlock
  <1>6. ASSUME NEW q \in Requests, Verify(q) PROVE WritesFindNothing'
    BY <1>6 DEF Verify
  <1>7. ASSUME NEW q \in Requests, DummyLogin(q) PROVE WritesFindNothing'
    BY <1>7 DEF DummyLogin
  <1>8. ASSUME NEW q \in Requests, Authenticate(q) PROVE WritesFindNothing'
    BY <1>8 DEF Authenticate
  <1>9. ASSUME NEW q \in Requests, RequireRole(q) PROVE WritesFindNothing'
    BY <1>9 DEF RequireRole
  <1>10. ASSUME NEW q \in Requests, Handle(q) PROVE WritesFindNothing'
    BY <1>10 DEF Handle
  <1>11. CASE Restart
    BY <1>11 DEF Restart
  <1>12. CASE Tick
    BY <1>12 DEF Tick
  <1>13. CASE UNCHANGED vars
    BY <1>13 DEF vars
  <1> QED
    BY <1>1, <1>2, <1>3, <1>4, <1>5, <1>6, <1>7, <1>8, <1>9, <1>10, <1>11, <1>12, <1>13
    DEF Next, Step

LEMMA NextUsers ==
  ASSUME IInv, [Next]_vars
  PROVE  UsersAreRegistered'
  <1> USE DEF IInv, TypeOK, StepsAgree, UsersAreRegistered
  <1>1. CASE users' = users
    <2>1. ASSUME NEW a \in Requests, Registered(a)
          PROVE  Registered(a)' /\ KeyOf(a)' = KeyOf(a) /\ NewAccount(a)' = NewAccount(a)
      BY <2>1, NothingIsUndone DEF Registered, KeyOf, NewAccount
    <2> QED
      BY <1>1, <2>1
  <1>2. ASSUME NEW r \in Requests, Write(r) PROVE UsersAreRegistered'
    <2>1. /\ users' = [users EXCEPT ![KeyOf(r)] = NewAccount(r)]
          /\ Registered(r)' /\ KeyOf(r)' = KeyOf(r) /\ NewAccount(r)' = NewAccount(r)
      BY <1>2, AccountsAssumption
      DEF Write, Answer, Registered, KeyOf, NewAccount, RegisterRequest
    <2>2. ASSUME NEW a \in Requests, Registered(a)
          PROVE  Registered(a)' /\ KeyOf(a)' = KeyOf(a) /\ NewAccount(a)' = NewAccount(a)
      BY <2>2, NothingIsUndone DEF Registered, KeyOf, NewAccount
    <2> QED
      BY <2>1, <2>2
  <1>3. CASE Restart
    BY <1>3 DEF Restart
  <1>4. users' = users \/ Restart \/ \E r \in Requests : Write(r)
    BY DEF Next, Step, Arrive, Lock, Read, Unlock, Verify, DummyLogin, Authenticate,
           RequireRole, Handle, Tick, vars
  <1> QED
    BY <1>1, <1>2, <1>3, <1>4

LEMMA NextCreated ==
  ASSUME IInv, [Next]_vars
  PROVE  CreatedAccountStands'
  <1> USE DEF IInv, TypeOK, CreatedAccountStands
  <1>1. CASE Restart
    BY <1>1 DEF Restart
  <1>2. ASSUME NEW r \in Requests, Write(r) PROVE CreatedAccountStands'
    <2>1. /\ users' = [users EXCEPT ![KeyOf(r)] = NewAccount(r)]
          /\ users[KeyOf(r)] = None /\ KeyOf(r) \in Emails
          /\ req' = req /\ here' = here
          /\ \A a \in Requests : Registered(a)' => a = r \/ Registered(a)
      BY <1>2, AccountsAssumption
      DEF Write, Answer, Registered, KeyOf, RegisterRequest, StepsAgree, WritesFindNothing
    <2>2. ASSUME NEW a \in here, Registered(a), KeyOf(a) = KeyOf(r)
          PROVE  FALSE
      <3>1. users[KeyOf(a)] = NewAccount(a)
        BY <2>2 DEF KeyOf
      <3>2. NewAccount(a) \in Account
        BY <2>2 DEF StepsAgree, Registered, RegisterRequest, NewAccount, Account, Ids
      <3> QED
        BY <2>1, <2>2, <3>1, <3>2, AccountsAssumption
    <2> QED
      BY <2>1, <2>2 DEF KeyOf, NewAccount
  <1>3. CASE ~ Restart /\ \A r \in Requests : ~ Write(r)
    <2>1. users' = users
      BY <1>3 DEF Next, Step, Arrive, Lock, Read, Unlock, Verify, DummyLogin, Authenticate,
                  RequireRole, Handle, Tick, vars
    <2>2. \A a \in Requests : Registered(a)' => Registered(a) /\ req'[a] = req[a]
      BY <1>3, WhoRegisters, NothingIsUndone DEF Registered
    <2>3. \A a \in here' : Registered(a) => a \in here
      BY <1>3 DEF Next, Step, Arrive, Lock, Read, Unlock, Verify, DummyLogin, Authenticate,
                  RequireRole, Handle, Tick, vars, Registered, StepsAgree
    <2> QED
      BY <2>1, <2>2, <2>3, NextType DEF NewAccount
  <1> QED
    BY <1>1, <1>2, <1>3

LEMMA NextBefore ==
  ASSUME IInv, [Next]_vars
  PROVE  BeforeIsHere'
  <1> USE DEF IInv, TypeOK, BeforeIsHere
  <1>1. ASSUME NEW q \in Requests, Arrive(q) PROVE BeforeIsHere'
    <2>1. /\ before' = [before EXCEPT ![q] = {a \in here : Registered(a)}]
          /\ here' = here \cup {q}
          /\ \A r \in Requests : r # q => pc'[r] = pc[r]
      BY <1>1 DEF Arrive, Goto, Answer
    <2> QED
      BY <2>1, NothingIsUndone
  <1>2. CASE Restart
    <2>1. before' = before /\ \A r \in Requests : pc'[r] \notin Running
      BY <1>2 DEF Restart, Running, Holding
    <2> QED
      BY <2>1, NothingIsUndone
  <1>3. CASE ~ Restart /\ \A q \in Requests : ~ Arrive(q)
    <2>1. /\ before' = before /\ here' = here
          /\ \A r \in Requests : pc'[r] \in Running => pc[r] \in Running
      BY <1>3 DEF Next, Step, Lock, Read, Write, Unlock, Verify, DummyLogin, Authenticate,
                  RequireRole, Handle, Tick, vars, Issue, Goto, Answer, Running, Holding
    <2> QED
      BY <2>1, NothingIsUndone
  <1> QED
    BY <1>1, <1>2, <1>3

(* What Read finds: the account of a registration that had been answered,   *)
(* and, if there was one when the request came, of that registration.       *)
LEMMA ReadFinds ==
  ASSUME IInv, NEW r \in Requests, Read(r)
  PROVE  /\ found' = [found EXCEPT ![r] =
                        IF users[KeyOf(r)] = None THEN Zero ELSE users[KeyOf(r)]]
         /\ users[KeyOf(r)] # None =>
              \E a \in Requests : /\ Registered(a) /\ SameAddress(r, a)
                                  /\ users[KeyOf(r)] = NewAccount(a)
         /\ \A a \in before[r] : SameAddress(a, r) =>
              users[KeyOf(r)] = NewAccount(a) /\ users[KeyOf(r)] # None
  <1> USE DEF IInv, TypeOK
  <1>1. /\ pc[r] = "read" /\ KeyOf(r) \in Emails
        /\ found' = [found EXCEPT ![r] =
                        IF users[KeyOf(r)] = None THEN Zero ELSE users[KeyOf(r)]]
    BY AccountsAssumption
    DEF Read, StepsAgree, KeyOf, RegisterRequest, LoginRequest
  <1>2. ASSUME NEW a \in before[r], SameAddress(a, r)
        PROVE  users[KeyOf(r)] = NewAccount(a) /\ users[KeyOf(r)] # None
    <2>1. a \in here /\ Registered(a)
      BY <1>1 DEF BeforeIsHere, Running, Holding
    <2>2. NewAccount(a) \in Account
      BY <2>1 DEF StepsAgree, Registered, RegisterRequest, NewAccount, Account, Ids
    <2> QED
      BY <1>2, <2>1, <2>2, AccountsAssumption DEF CreatedAccountStands, SameAddress, KeyOf
  <1> QED
    BY <1>1, <1>2 DEF UsersAreRegistered, SameAddress, KeyOf

LEMMA NextFound ==
  ASSUME IInv, [Next]_vars
  PROVE  FoundIsRegistered'
  <1> USE DEF IInv, TypeOK, FoundIsRegistered
  <1>1. ASSUME NEW r \in Requests, req[r] # None, found'[r] = found[r],
               pc'[r] \in {"unlock", "verify"} => pc[r] \in {"unlock", "verify"},
               req'[r].op = "login"
        PROVE  /\ found'[r] # Zero => \E a \in Requests :
                    Registered(a)' /\ SameAddress(r, a)' /\ found'[r] = NewAccount(a)'
               /\ pc'[r] \in {"unlock", "verify"} => \A a \in before'[r] :
                    SameAddress(a, r)' => found'[r] = NewAccount(a)'
    BY <1>1, NothingIsUndone DEF Registered, SameAddress, NewAccount, BeforeIsHere
  <1>2. ASSUME NEW q \in Requests, Arrive(q) PROVE FoundIsRegistered'
    <2>1. found'[q] = Zero /\ pc'[q] \notin {"unlock", "verify"}
      <3>1. PICK q0 \in Request :
              IF Valid(q0) THEN Goto(q, FirstStep[q0.op])
                           ELSE Answer(q, "INVALID_REQUEST", "done")
        BY <1>2, AccountsAssumption DEF Arrive
      <3> QED
        BY <1>2, <3>1, Beginnings DEF Arrive, StepsAgree, Goto, Answer
    <2>2. \A r \in Requests \ {q} :
             found'[r] = found[r] /\ pc'[r] = pc[r] /\ req'[r] = req[r]
      BY <1>2 DEF Arrive, Goto, Answer
    <2> QED
      BY <1>1, <2>1, <2>2
  <1>3. ASSUME NEW q \in Requests, Read(q) PROVE FoundIsRegistered'
    <2>1. req' = req /\ before' = before
      BY <1>3 DEF Read
    <2>2. \A r \in Requests \ {q} : found'[r] = found[r] /\ pc'[r] = pc[r]
      BY <1>3 DEF Read, Goto, Answer
    <2>3. ASSUME NEW a \in Requests, Registered(a)
          PROVE  Registered(a)' /\ NewAccount(a)' = NewAccount(a)
                   /\ SameAddress(q, a)' = SameAddress(q, a)
      BY <2>1, <2>3, NothingIsUndone DEF NewAccount, SameAddress
    <2>4. \A a \in before[q] : /\ NewAccount(a)' = NewAccount(a)
                               /\ SameAddress(a, q)' = SameAddress(a, q)
      BY <2>1 DEF NewAccount, SameAddress
    <2> QED
      BY <1>1, <1>3, <2>1, <2>2, <2>3, <2>4, ReadFinds
  <1>4. CASE \A q \in Requests : ~ Arrive(q) /\ ~ Read(q)
    <2>1. /\ found' = found /\ req' = req
          /\ \A r \in Requests :
               pc'[r] \in {"unlock", "verify"} /\ req[r].op = "login" =>
                 pc[r] \in {"unlock", "verify"}
      BY <1>4 DEF Next, Step, Lock, Write, Unlock, Verify, DummyLogin, Authenticate,
                  RequireRole, Handle, Restart, Tick, vars, Issue, Goto, Answer,
                  StepsAgree, RegisterRequest
    <2> QED
      BY <1>1, <2>1
  <1> QED
    BY <1>2, <1>3, <1>4

LEMMA NextRefusals ==
  ASSUME IInv, [Next]_vars
  PROVE  RefusalsAreTrue'
  <1> USE DEF IInv, TypeOK, RefusalsAreTrue
  <1>1. ASSUME NEW r \in Requests, req[r] # None, resp'[r] = resp[r]
        PROVE  /\ req'[r].op = "login" /\ resp'[r] = "UNAUTHORIZED" =>
                    \A a \in before'[r] :
                      ~ (SameAddress(a, r)' /\ req'[a].password = req'[r].password)
               /\ resp'[r] = "EMAIL_EXISTS" =>
                    \E a \in Requests : a # r /\ Registered(a)' /\ SameAddress(a, r)'
    BY <1>1, NothingIsUndone DEF Registered, SameAddress, BeforeIsHere
  <1>2. ASSUME NEW q \in Requests, Arrive(q) PROVE RefusalsAreTrue'
    <2>1. resp'[q] \notin {"UNAUTHORIZED", "EMAIL_EXISTS"}
      BY <1>2 DEF Arrive, StepsAgree, Goto, Answer
    <2>2. \A r \in Requests \ {q} : resp'[r] = resp[r] /\ req'[r] = req[r]
      BY <1>2 DEF Arrive, Goto, Answer
    <2> QED
      BY <1>1, <2>1, <2>2
  <1>3. ASSUME NEW q \in Requests, Read(q) PROVE RefusalsAreTrue'
    <2>1. /\ req' = req /\ resp[q] = "none" /\ resp'[q] # "UNAUTHORIZED"
          /\ \A r \in Requests \ {q} : resp'[r] = resp[r]
      BY <1>3 DEF Read, Goto, Answer, StepsAgree, Running, Holding
    <2>2. resp'[q] = "EMAIL_EXISTS" => users[KeyOf(q)] # None
      BY <1>3, <2>1 DEF Read, Goto, Answer
    <2>3. resp'[q] = "EMAIL_EXISTS" =>
            \E a \in Requests : a # q /\ Registered(a)' /\ SameAddress(a, q)'
      BY <1>3, <2>1, <2>2, ReadFinds, NothingIsUndone DEF SameAddress, Registered
    <2> QED
      BY <1>1, <2>1, <2>3
  <1>4. ASSUME NEW q \in Requests, Verify(q) PROVE RefusalsAreTrue'
    <2>1. /\ req' = req /\ before' = before /\ resp'[q] # "EMAIL_EXISTS"
          /\ pc[q] = "verify" /\ req[q] # None /\ req[q].op = "login"
          /\ \A r \in Requests \ {q} : resp'[r] = resp[r]
          /\ resp'[q] = "UNAUTHORIZED" => ~ Matches(q)
      BY <1>4, AccountsAssumption DEF Verify, Issue, Answer, StepsAgree, LoginRequest
    <2>2. ASSUME NEW a \in before[q], SameAddress(a, q), req[a].password = req[q].password
          PROVE  Matches(q)
      <3>1. found[q] = NewAccount(a)
        BY <2>1, <2>2 DEF FoundIsRegistered
      <3>2. NewAccount(a).id = a /\ NewAccount(a).password = req[a].password
        BY DEF NewAccount
      <3>3. a # Blank
        BY AccountsAssumption DEF Ids
      <3> QED
        BY <2>2, <3>1, <3>2, <3>3 DEF Matches, Zero
    <2> QED
      BY <1>1, <2>1, <2>2 DEF SameAddress
  <1>5. CASE \A q \in Requests : ~ Arrive(q) /\ ~ Read(q) /\ ~ Verify(q)
    <2>1. /\ req' = req
          /\ \A r \in Requests :
               \/ resp'[r] = resp[r]
               \/ resp'[r] # "EMAIL_EXISTS" /\ resp'[r] # "UNAUTHORIZED"
               \/ resp'[r] = "UNAUTHORIZED" /\ req[r].op = "call"
      BY <1>5 DEF Next, Step, Lock, Write, Unlock, DummyLogin, Authenticate,
                  RequireRole, Handle, Restart, Tick, vars, Issue, Goto, Answer,
                  StepsAgree, CallRequest
    <2> QED
      BY <1>1, <2>1
  <1> QED
    BY <1>2, <1>3, <1>4, <1>5

LEMMA NextTokens ==
  ASSUME IInv, [Next]_vars
  PROVE  TokensAreEarned'
  <1> USE DEF IInv, TypeOK, TokensAreEarned
  <1>1. \A l \in Requests : token'[l] = token[l] /\ token[l] # None =>
          Entitled(l, token[l].id, token[l].role)'
    BY NothingIsUndone DEF Entitled, LoggedInAs, SameAddress, Registered
  <1>2. ASSUME NEW q \in Requests, Verify(q) PROVE TokensAreEarned'
    <2>1. /\ \A l \in Requests \ {q} : token'[l] = token[l]
          /\ ~ Matches(q) => token' = token
          /\ req' = req /\ pc[q] = "verify" /\ req[q] # None /\ req[q].op = "login"
          /\ \A a \in Requests : Registered(a) => Registered(a)'
      BY <1>2, NothingIsUndone, AccountsAssumption DEF Verify, Issue, StepsAgree, LoginRequest
    <2>2. CASE Matches(q)
      <3>1. token'[q] = [id |-> found[q].id, role |-> found[q].role, exp |-> now + Life]
        BY <1>2, <2>2 DEF Verify, Issue
      <3>2. token'[q] # None
        BY <3>1, <2>2, AccountsAssumption DEF Matches, Account, Token
      <3>3. PICK a \in Requests :
              Registered(a) /\ SameAddress(q, a) /\ found[q] = NewAccount(a)
        BY <2>1, <2>2 DEF FoundIsRegistered, Matches
      <3>4. found[q].id = a /\ found[q].role = req[a].role
              /\ req[a].password = req[q].password
        BY <2>2, <3>3 DEF NewAccount, Matches
      <3>5. Entitled(q, token[q].id, token[q].role)'
        BY <2>1, <3>1, <3>2, <3>3, <3>4 DEF Entitled, LoggedInAs, SameAddress
      <3> QED
        BY <1>1, <2>1, <3>5
    <2>3. CASE ~ Matches(q)
      BY <1>1, <2>1, <2>3
    <2> QED
      BY <2>2, <2>3
  <1>3. ASSUME NEW q \in Requests, DummyLogin(q) PROVE TokensAreEarned'
    <2>1. /\ \A l \in Requests \ {q} : token'[l] = token[l]
          /\ token'[q].id = DummyId[token'[q].role]
      BY <1>3 DEF DummyLogin, Issue
    <2> QED
      BY <1>1, <2>1 DEF Entitled
  <1>4. CASE \A q \in Requests : ~ Verify(q) /\ ~ DummyLogin(q)
    <2>1. token' = token
      BY <1>4 DEF Next, Step, Arrive, Lock, Read, Write, Unlock, Authenticate,
                  RequireRole, Handle, Restart, Tick, vars
    <2> QED
      BY <1>1, <2>1
  <1> QED
    BY <1>2, <1>3, <1>4

LEMMA NextCalls ==
  ASSUME IInv, [Next]_vars
  PROVE  CallsAreChecked'
  <1> USE DEF IInv, TypeOK, CallsAreChecked
  <1> DEFINE Checked(r) ==
        /\ pc[r] \in {"requireRole", "handle"} => claims[r] # None
        /\ claims[r] # None =>
             /\ req[r] \in CallRequest
             /\ req[r].bearer \in Requests
             /\ token[req[r].bearer] # None
             /\ Entitled(req[r].bearer, claims[r].id, claims[r].role)
        /\ pc[r] = "handle" \/ (resp[r] = "OK" /\ req[r].op = "call") =>
             claims[r] # None /\ req[r].needs \in {"any", claims[r].role}
  <1>1. ASSUME NEW r \in Requests, req'[r] = req[r], claims'[r] = claims[r],
               pc'[r] \in {"requireRole", "handle"} => pc'[r] = pc[r],
               resp'[r] = "OK" /\ req[r].op = "call" => resp[r] = "OK" \/ pc[r] = "handle"
        PROVE  Checked(r)'
    BY <1>1, NothingIsUndone DEF Entitled, LoggedInAs, SameAddress, Registered
  <1>2. ASSUME NEW q \in Requests, Arrive(q) PROVE CallsAreChecked'
    <2>1. /\ claims'[q] = None /\ resp'[q] # "OK"
          /\ pc'[q] \in {"lock", "issue", "authenticate", "done"}
      <3>1. PICK q0 \in Request :
              IF Valid(q0) THEN Goto(q, FirstStep[q0.op])
                           ELSE Answer(q, "INVALID_REQUEST", "done")
        BY <1>2, AccountsAssumption DEF Arrive
      <3> QED
        BY <1>2, <3>1, Beginnings DEF Arrive, StepsAgree, Goto, Answer
    <2>2. \A r \in Requests \ {q} :
             claims'[r] = claims[r] /\ pc'[r] = pc[r] /\ resp'[r] = resp[r]
               /\ req'[r] = req[r]
      BY <1>2 DEF Arrive, Goto, Answer
    <2> QED
      BY <1>1, <2>1, <2>2
  <1>3. ASSUME NEW q \in Requests, Authenticate(q) PROVE CallsAreChecked'
    <2>1. /\ req' = req /\ token' = token /\ pc[q] = "authenticate"
          /\ req[q] \in CallRequest /\ resp[q] = "none"
          /\ \A r \in Requests \ {q} :
               claims'[r] = claims[r] /\ pc'[r] = pc[r] /\ resp'[r] = resp[r]
      BY <1>3 DEF Authenticate, Goto, Answer, StepsAgree, Running, Holding
    <2>2. CASE req[q].bearer # None /\ Good(token[req[q].bearer])
      <3> DEFINE t == token[req[q].bearer]
      <3>1. /\ claims'[q] = [id |-> t.id, role |-> t.role]
            /\ pc'[q] = "requireRole" /\ resp'[q] = "none"
        BY <1>3, <2>1, <2>2 DEF Authenticate, Goto
      <3>2. req[q].bearer \in Requests /\ t # None /\ t \in Token
        BY <2>1, <2>2 DEF CallRequest, Good
      <3>3. Entitled(req[q].bearer, t.id, t.role)'
        BY <2>1, <3>2, NothingIsUndone
        DEF TokensAreEarned, Entitled, LoggedInAs, SameAddress, Registered
      <3>4. claims'[q] # None
        BY <3>1, <3>2, AccountsAssumption DEF Token, Claims
      <3>5. Checked(q)'
        BY <2>1, <3>1, <3>2, <3>3, <3>4
      <3> QED
        BY <1>1, <2>1, <3>5
    <2>3. CASE ~ (req[q].bearer # None /\ Good(token[req[q].bearer]))
      <3>1. claims' = claims /\ pc'[q] = "done" /\ resp'[q] = "UNAUTHORIZED"
        BY <1>3, <2>3 DEF Authenticate, Answer, Good
      <3> QED
        BY <1>1, <2>1, <3>1
    <2> QED
      BY <2>2, <2>3
  <1>4. ASSUME NEW q \in Requests, RequireRole(q) PROVE CallsAreChecked'
    <2>1. /\ req' = req /\ claims' = claims /\ pc[q] = "requireRole" /\ resp[q] = "none"
          /\ \A r \in Requests \ {q} : pc'[r] = pc[r] /\ resp'[r] = resp[r]
          /\ resp'[q] # "OK"
          /\ pc'[q] \in {"handle", "done"}
          /\ pc'[q] = "handle" => req[q].needs \in {"any", claims[q].role}
      BY <1>4 DEF RequireRole, Goto, Answer, StepsAgree, Running, Holding
    <2>2. Checked(q)'
      BY <2>1, NothingIsUndone DEF Entitled, LoggedInAs, SameAddress, Registered
    <2> QED
      BY <1>1, <2>1, <2>2
  <1>5. CASE \A q \in Requests : ~ Arrive(q) /\ ~ Authenticate(q) /\ ~ RequireRole(q)
    <2>1. /\ req' = req /\ claims' = claims
          /\ \A r \in Requests :
               /\ pc'[r] \in {"requireRole", "handle"} => pc'[r] = pc[r]
               /\ resp'[r] = "OK" /\ req[r].op = "call" => resp[r] = "OK" \/ pc[r] = "handle"
      BY <1>5 DEF Next, Step, Lock, Read, Write, Unlock, Verify, DummyLogin, Handle,
                  Restart, Tick, vars, Issue, Goto, Answer,
                  StepsAgree, LoginRequest, DummyRequest
    <2> QED
      BY <1>1, <2>1
  <1> QED
    BY <1>2, <1>3, <1>4, <1>5

LEMMA NextIInv == IInv /\ [Next]_vars => IInv'
  BY NextType, NextStepsAgree, NextGuarded, NextWrites, NextUsers, NextCreated,
     NextBefore, NextFound, NextRefusals, NextTokens, NextCalls DEF IInv

-----------------------------------------------------------------------------
(* The inductive invariant: IInv holds in every state the program reaches,  *)
(* through any number of restarts.                                          *)
THEOREM Inductive == Spec => []IInv
  BY InitIInv, NextIInv, PTL DEF Spec

(* Every variable keeps its type: a registration, a login or a call never   *)
(* writes what the others do not expect.                                    *)
THEOREM TypeCorrect == Spec => []TypeOK
  BY Inductive, PTL DEF IInv

(* The requests that are in the map of users hold its mutex, so there is    *)
(* one at most (handleRegister, handleLogin).                               *)
THEOREM OneAtATime == Spec => []MapIsGuarded
  BY Inductive, PTL DEF IInv

(* A registration answered 201 is the account of its address while the      *)
(* process lives (handleRegister).                                          *)
THEOREM RegisteredForLife == Spec => []CreatedAccountStands
  BY Inductive, PTL DEF IInv

(* No login or registration is refused without the cause it is told         *)
(* (handleLogin, handleRegister).                                           *)
THEOREM RefusedForCause == Spec => []RefusalsAreTrue
  BY Inductive, PTL DEF IInv

(* Whatever a handler does, it does for whoever registered in the role the  *)
(* route asks for and gave the password, or for a test user                 *)
(* (authMiddleware, requireRole, IssueToken).                               *)
THEOREM Authorised == Spec => []ActsAreAuthorised
  <1>1. IInv => ActsAreAuthorised
    BY DEF IInv, CallsAreChecked, Entitled, ActsAreAuthorised
  <1> QED
    BY <1>1, Inductive, PTL
=============================================================================
