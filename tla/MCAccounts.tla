----------------------------- MODULE MCAccounts -----------------------------
(* Instances of Accounts for TLC. *)
EXTENDS Accounts

(* Two spellings of one address. *)
MCLower == [e \in Emails |-> "ann"]

(* One address registered in either role, and what a validation refuses;    *)
(* logins with the right password and with a wrong one; a test user; calls  *)
(* to routes of the administrator and of everybody, with any token or none. *)
MCInputs ==
  {[op |-> "register", email |-> "Ann", password |-> "secret", role |-> "admin"],
   [op |-> "register", email |-> "ann", password |-> "secret", role |-> "user"],
   [op |-> "register", email |-> "ann", password |-> "", role |-> "user"],
   [op |-> "login", email |-> "ann", password |-> "secret"],
   [op |-> "login", email |-> "Ann", password |-> ""],
   [op |-> "dummyLogin", role |-> "user"]}
  \cup [op : {"call"}, bearer : Requests, needs : {"admin", "any"}]
  \cup [op : {"call"}, bearer : {None}, needs : {"any"}]
=============================================================================
