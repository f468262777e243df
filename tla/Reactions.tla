------------------------------ MODULE Reactions ------------------------------
(***************************************************************************)
(* Likes of posts and comments, and collections of posts (data/campus.go:  *)
(* three pairs of functions of one shape).  A reaction is a row of its own *)
(* that is never removed, only set is_deleted; a counter on the target     *)
(* moves in the same transaction.  Adding starts with SELECT ... FOR       *)
(* UPDATE, which locks a row that is there and nothing when there is none: *)
(* then the unique key refuses the second of two inserts.  Whether the     *)
(* target is visible was asked in an earlier call and is not asked again.  *)
(***************************************************************************)
EXTENDS Integers, FiniteSets

CONSTANTS
    Targets,   \* what is counted: the likes of a post, of a comment, ...
    Users,     \* who reacts
    Requests   \* requests in flight

ASSUME ReactionAssumption == IsFiniteSet(Users)

VARIABLES
    reaction,  \* the row of each user for each target: "none", "on", or "off" (is_deleted)
    likes,     \* like_count or collected_count of each target
    adding     \* requests between their SELECT and their write, with what they saw

reactionVars == <<reaction, likes, adding>>

Rows == {"none", "on", "off"}
Adding == [request: Requests, target: Targets, user: Users, saw: {"none", "off"}]
Likers(t) == {u \in Users : reaction[t][u] = "on"}

InitReactions ==
    /\ reaction = [t \in Targets |-> [u \in Users |-> "none"]]
    /\ likes = [t \in Targets |-> 0]
    /\ adding = {}

(* Faulty variant of Locked: the row is read without FOR UPDATE. *)
NeverLocked(t, u) == FALSE

(* A request that found the row holds its lock until it commits. *)
Locked(t, u) == \E a \in adding : a.target = t /\ a.user = u /\ a.saw = "off"

(* Add...WithOutbox; a reaction that is already on ends it. *)
Sees(r, t, u) ==
    /\ \A a \in adding : a.request # r
    /\ ~Locked(t, u)
    /\ reaction[t][u] # "on"
    /\ adding' = adding \cup {[request |-> r, target |-> t, user |-> u, saw |-> reaction[t][u]]}
    /\ UNCHANGED <<reaction, likes>>

(* The row is inserted or revived and the counter moves; a row that has appeared
   since makes the insert a duplicate, and the transaction is rolled back. *)
Adds(a) ==
    /\ a \in adding
    /\ adding' = adding \ {a}
    /\ IF a.saw = "none" /\ reaction[a.target][a.user] # "none"
       THEN UNCHANGED <<reaction, likes>>
       ELSE /\ reaction' = [reaction EXCEPT ![a.target][a.user] = "on"]
            /\ likes' = [likes EXCEPT ![a.target] = @ + 1]

(* Remove...: one UPDATE ... WHERE is_deleted = false. *)
Removes(t, u) ==
    /\ ~Locked(t, u)
    /\ reaction[t][u] = "on"
    /\ reaction' = [reaction EXCEPT ![t][u] = "off"]
    /\ likes' = [likes EXCEPT ![t] = IF @ > 0 THEN @ - 1 ELSE 0]
    /\ UNCHANGED adding

(* ReconcileCampusStats, like_count and collected_count of targets S. *)
RecountReactions(S) ==
    /\ likes' = [t \in Targets |-> IF t \in S THEN Cardinality(Likers(t)) ELSE likes[t]]
    /\ UNCHANGED <<reaction, adding>>

ReactionNext ==
    \/ \E r \in Requests, t \in Targets, u \in Users : Sees(r, t, u)
    \/ \E a \in adding : Adds(a)
    \/ \E t \in Targets, u \in Users : Removes(t, u)

-----------------------------------------------------------------------------
(* Every row and request holds values the code can write. *)
ReactionTypeOK ==
    /\ reaction \in [Targets -> [Users -> Rows]]
    /\ likes \in [Targets -> Nat]
    /\ adding \subseteq Adding

(* A like counts once, however often and however fast it is given and taken back. *)
LikesCounted == \A t \in Targets : likes[t] = Cardinality(Likers(t))

=============================================================================
