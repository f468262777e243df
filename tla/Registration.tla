---------------------------- MODULE Registration ----------------------------
(***************************************************************************)
(* Signing up with an address and a password (biz/user.go Register): the   *)
(* base service inserts the account, campusUser its user, and if that fails *)
(* the account is taken back. Each call may fail, or be done and lose its  *)
(* reply. Addresses do not meet: the attempts here are all for one.        *)
(***************************************************************************)
EXTENDS Integers

CONSTANTS
    Attempts,    \* requests to sign up with the address
    MaxFlaws     \* bound: errors, lost replies and crashes

ASSUME RegistrationAssumption == MaxFlaws \in Nat

VARIABLES
    account,     \* the account row each attempt has inserted
    hasUser,     \* accounts that a user row names
    attempt,     \* where each attempt is, and the account it goes by
    cut,         \* history: accounts whose attempt ended without taking them back
    flaws

registrationVars == <<account, hasUser, attempt, cut, flaws>>

Rests(a, place) == attempt[a].at = place
Ends(a, place) == attempt' = [attempt EXCEPT ![a].at = place]
Flaw == flaws < MaxFlaws /\ flaws' = flaws + 1

InitRegistration ==
    /\ account = [a \in Attempts |-> "none"]
    /\ hasUser = {}
    /\ attempt = [a \in Attempts |-> [at |-> "idle", id |-> a]]
    /\ cut = {}
    /\ flaws = 0

Live == {a \in Attempts : account[a] = "live"}

(* Faulty variant: who meets an account of the address goes on with it. *)
RegisterAgain(a) ==
    /\ Rests(a, "idle")
    /\ IF Live = {}
       THEN account' = [account EXCEPT ![a] = "live"] /\ Ends(a, "create")
       ELSE account' = account /\ \E b \in Live : attempt' = [attempt EXCEPT ![a] = [at |-> "create", id |-> b]]
    /\ UNCHANGED <<hasUser, cut, flaws>>

(* base Register: CheckAccountUnique, and for those who race the unique active_email. *)
Register(a) ==
    /\ Rests(a, "idle")
    /\ IF Live = {}
       THEN account' = [account EXCEPT ![a] = "live"] /\ Ends(a, "create")
       ELSE account' = account /\ Ends(a, "refused")
    /\ UNCHANGED <<hasUser, cut, flaws>>

(* An error is returned, and nothing is taken back, even if the row is there. *)
RegisterBreaks(a) ==
    /\ Rests(a, "idle")
    /\ \/ UNCHANGED <<account, cut>>
       \/ Live = {} /\ account' = [account EXCEPT ![a] = "live"] /\ cut' = cut \union {a}
    /\ Ends(a, "refused")
    /\ Flaw
    /\ UNCHANGED hasUser

CreateUser(a) ==
    /\ Rests(a, "create")
    /\ hasUser' = hasUser \union {attempt[a].id}
    /\ Ends(a, "welcome")
    /\ UNCHANGED <<account, cut, flaws>>

CreateUserFails(a) ==
    /\ Rests(a, "create")
    /\ hasUser' \in {hasUser, hasUser \union {attempt[a].id}}
    /\ Ends(a, "undo")
    /\ Flaw
    /\ UNCHANGED <<account, cut>>

(* DeleteAccount *)
DeleteAccount(a) ==
    /\ Rests(a, "undo")
    /\ account' = [account EXCEPT ![attempt[a].id] = "deleted"]
    /\ Ends(a, "refused")
    /\ UNCHANGED <<hasUser, cut, flaws>>

(* Its error is only logged. *)
DeleteFails(a) ==
    /\ Rests(a, "undo")
    /\ account' \in {account, [account EXCEPT ![attempt[a].id] = "deleted"]}
    /\ cut' = cut \union {attempt[a].id}
    /\ Ends(a, "refused")
    /\ Flaw
    /\ UNCHANGED hasUser

(* campusApi dies between two calls, or in the first. *)
AttemptDies(a) ==
    /\ attempt[a].at \in {"create", "undo"}
    /\ hasUser' \in {hasUser} \union IF Rests(a, "create") THEN {hasUser \union {attempt[a].id}} ELSE {}
    /\ cut' = cut \union {attempt[a].id}
    /\ Ends(a, "refused")
    /\ Flaw
    /\ UNCHANGED account

SigningUp(a) ==
    \/ Register(a) \/ RegisterBreaks(a)
    \/ CreateUser(a) \/ CreateUserFails(a)
    \/ DeleteAccount(a) \/ DeleteFails(a)
    \/ AttemptDies(a)

RegistrationNext == \E a \in Attempts : SigningUp(a)

RegistrationSpec == InitRegistration /\ [][RegistrationNext]_registrationVars

-----------------------------------------------------------------------------
(* Rows and attempts hold values the code can write. *)
RegistrationTypeOK ==
    /\ account \in [Attempts -> {"none", "live", "deleted"}]
    /\ hasUser \subseteq Attempts /\ cut \subseteq Attempts
    /\ attempt \in [Attempts -> [at : {"idle", "create", "undo", "welcome", "refused"}, id : Attempts]]
    /\ flaws \in 0..MaxFlaws

(* Who was told to be registered can log in, whoever else tried the address and was undone; and
   an account without a user keeps the address only while its attempt runs, or where the reply of
   Register, the undoing or the process was lost. *)
SignUpsHold ==
    /\ \A a \in Attempts : Rests(a, "welcome") => attempt[a].id \in Live \intersect hasUser
    /\ \A a \in Live : \/ a \in hasUser \union cut
                       \/ \E b \in Attempts : attempt[b].id = a /\ attempt[b].at \in {"create", "undo"}

(* Whoever fails, is undone or tries at the same time: the address has one owner at most, and
   nobody takes it from one who was told to be registered. *)
Told(a) == IF attempt[a].at \in {"welcome", "refused"} THEN attempt[a].at ELSE "none"
Book == INSTANCE AddressBook WITH owners <- Live, answer <- [a \in Attempts |-> Told(a)]
IsAddressBook == Book!Spec

=============================================================================
