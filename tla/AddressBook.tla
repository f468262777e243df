---------------------------- MODULE AddressBook ----------------------------
(***************************************************************************)
(* What signing up promises about one address: it has one owner at most,   *)
(* who was told to be registered owns it for ever, and only an attempt     *)
(* that is refused gives it back.  Registration implements it with rows in *)
(* two services and an account that is taken back.                         *)
(***************************************************************************)
CONSTANT Attempts

VARIABLES
    owners,   \* attempts whose account has the address
    answer    \* what each attempt was told: "none" yet, "welcome" or "refused"

vars == <<owners, answer>>

Init == owners = {} /\ answer = [a \in Attempts |-> "none"]

Own(a) == owners = {} /\ answer[a] = "none" /\ owners' = {a} /\ UNCHANGED answer

Welcome(a) ==
    /\ answer[a] = "none" /\ a \in owners
    /\ answer' = [answer EXCEPT ![a] = "welcome"]
    /\ UNCHANGED owners

(* A refused attempt leaves the address as it is, or free if it was its own, or, when
   its refusal is an error, taken for nobody. *)
Refuse(a) ==
    /\ answer[a] = "none"
    /\ answer' = [answer EXCEPT ![a] = "refused"]
    /\ owners' = owners \/ owners' = owners \ {a} \/ (owners = {} /\ owners' = {a})

Next == \E a \in Attempts : Own(a) \/ Welcome(a) \/ Refuse(a)

Spec == Init /\ [][Next]_vars

=============================================================================
