----------------------------- MODULE TaskQueue -----------------------------
(***************************************************************************)
(* What the task tables of campusApi promise to the code around them: an   *)
(* item is worked on by one job at a time, only the job that has it        *)
(* settles it, every failed attempt is counted once, an item is given up   *)
(* exactly after MaxRetry failed attempts, and what is settled stays so.   *)
(* LeaseQueue and PostAudit implement it with rows, leases and marks that  *)
(* name nobody.                                                            *)
(***************************************************************************)
EXTENDS Integers

CONSTANTS Items, Workers, MaxRetry

VARIABLES
    phase,    \* of each item: "none", "waiting", "taken", "done" or "failed"
    tries,    \* failed attempts
    holders   \* the jobs that work on the item

vars == <<phase, tries, holders>>

Init ==
    /\ phase = [i \in Items |-> "none"]
    /\ tries = [i \in Items |-> 0]
    /\ holders = [i \in Items |-> {}]

Submit(i) ==
    /\ phase[i] = "none"
    /\ phase' = [phase EXCEPT ![i] = "waiting"]
    /\ UNCHANGED <<tries, holders>>

(* A job takes items that wait, or whose job has left them. *)
Take(w, S) ==
    /\ \A i \in S : phase[i] \in {"waiting", "taken"} /\ holders[i] = {}
    /\ phase' = [i \in Items |-> IF i \in S THEN "taken" ELSE phase[i]]
    /\ holders' = [i \in Items |-> IF i \in S THEN {w} ELSE holders[i]]
    /\ UNCHANGED tries

Settle(w, i) ==
    /\ phase[i] = "taken" /\ holders[i] = {w}
    /\ phase' = [phase EXCEPT ![i] = "done"]
    /\ holders' = [holders EXCEPT ![i] = {}]
    /\ UNCHANGED tries

Fail(w, i) ==
    /\ phase[i] = "taken" /\ holders[i] = {w}
    /\ tries' = [tries EXCEPT ![i] = @ + 1]
    /\ phase' = [phase EXCEPT ![i] = IF tries[i] + 1 >= MaxRetry THEN "failed" ELSE "waiting"]
    /\ holders' = [holders EXCEPT ![i] = {}]

(* A job leaves items without a word: it crashed, or could not record the outcome. *)
Leave(w, S) ==
    /\ holders' = [i \in Items |-> IF i \in S THEN holders[i] \ {w} ELSE holders[i]]
    /\ UNCHANGED <<phase, tries>>

Next ==
    \/ \E i \in Items : Submit(i)
    \/ \E w \in Workers, i \in Items : Settle(w, i) \/ Fail(w, i)
    \/ \E w \in Workers, S \in SUBSET Items : Take(w, S) \/ Leave(w, S)

Spec == Init /\ [][Next]_vars

-----------------------------------------------------------------------------
(* Two jobs never work on the same item. *)
WorkedOnAlone == \A i \in Items : \A u, w \in holders[i] : u = w

(* An item is given up exactly when it has used up its attempts: never earlier,
   and no item with all its attempts behind it is tried again. *)
GivenUpExactly == \A i \in Items : phase[i] = "failed" <=> tries[i] >= MaxRetry

(* No straggler takes back what is done or given up, nor counts against it. *)
SettledStays ==
    [][\A i \in Items : phase[i] \in {"done", "failed"}
          => phase'[i] = phase[i] /\ tries'[i] = tries[i]]_vars

=============================================================================
