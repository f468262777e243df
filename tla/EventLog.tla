------------------------------ MODULE EventLog ------------------------------
(***************************************************************************)
(* What the batch of a campusApi process promises to those who add events  *)
(* to it: an event that has come in waits until it is written or dropped,  *)
(* never both.  A row is not unique: a batch whose writer does not hear    *)
(* that it was stored is written again.  Then all of it is stored, and no  *)
(* event has more than two rows.  TaskServer implements it with a batch,   *)
(* several who write it, and a shutdown.                                   *)
(***************************************************************************)
CONSTANT Events

VARIABLES
    waiting,   \* events that have come in
    written,   \* those in the events table
    repeated,  \* those in it with two rows
    dropped    \* events that will never be written

vars == <<waiting, written, repeated, dropped>>

Init == waiting = {} /\ written = {} /\ repeated = {} /\ dropped = {}

Accept(e) ==
    /\ e \notin waiting \union written \union dropped
    /\ waiting' = waiting \union {e}
    /\ UNCHANGED <<written, repeated, dropped>>

(* Some of those that wait are written, but for those that get lost, *)
Settle(S, gone) ==
    /\ S \subseteq waiting /\ gone \subseteq S
    /\ waiting' = waiting \ S
    /\ written' = written \union (S \ gone)
    /\ dropped' = dropped \union gone
    /\ UNCHANGED repeated

(* or all of them are, and some a second time. *)
Repeat(S, again) ==
    /\ S \subseteq waiting /\ again \subseteq S
    /\ waiting' = waiting \ S
    /\ written' = written \union S
    /\ repeated' = repeated \union again
    /\ UNCHANGED dropped

Next ==
    \/ \E e \in Events : Accept(e)
    \/ \E S \in SUBSET Events : \E part \in SUBSET S : Settle(S, part) \/ Repeat(S, part)

Spec == Init /\ [][Next]_vars

=============================================================================
