----------------------------- MODULE ForumStats -----------------------------
(***************************************************************************)
(* Comment threads and reactions together with the hourly "stats_reconcile"*)
(* job of the campus task server, which sets every counter of posts and    *)
(* comments that are not deleted to what the rows say, in one transaction. *)
(***************************************************************************)
EXTENDS CommentThreads, Reactions

ASSUME TargetAssumption == Targets \subseteq Posts \cup Comments /\ Posts \cap Comments = {}

vars == <<threadVars, reactionVars>>

Init == InitThreads /\ InitReactions

(* WHERE p.is_deleted = 0, WHERE c.is_deleted = 0 *)
Kept == {t \in Targets : (t \in Posts /\ post[t] # "deleted") \/ (t \in Comments /\ row[t] \in Live)}

Reconcile == RecountThreads /\ RecountReactions(Kept)

Next ==
    \/ ThreadNext /\ UNCHANGED reactionVars
    \/ ReactionNext /\ UNCHANGED threadVars
    \/ Reconcile

(* Fairness: the ticker fires every hour. *)
Spec == Init /\ [][Next]_vars
FairSpec == Spec /\ WF_vars(Reconcile)

-----------------------------------------------------------------------------
(* Every row, counter and request holds values the code can write. *)
TypeOK == ThreadTypeOK /\ ReactionTypeOK

(* What a cascade has left behind is put right: again and again all counters of
   what is not deleted are exact. *)
Exact ==
    /\ \A p \in Posts : post[p] # "deleted" => comments[p] = Cardinality(Shown(p))
    /\ \A c \in Comments : row[c] \in Live => replies[c] = Cardinality(ShownReplies(c))
StatsHeal == []<>Exact

=============================================================================
