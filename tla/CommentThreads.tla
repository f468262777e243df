--------------------------- MODULE CommentThreads ---------------------------
(***************************************************************************)
(* The comments of forum posts and the counters kept beside them           *)
(* (campusApi biz/campus.go, data/campus.go): comment_count of a post and  *)
(* reply_count of a root comment are added to and taken from by every      *)
(* write that shows or hides a comment.  A thread has two levels: a reply  *)
(* to a reply hangs on the root.  Each write is one transaction over       *)
(* locked rows, which follows another or is rolled back.  CreateComment    *)
(* checks its post (by a cache that may be old) and its target in calls of *)
(* their own before its transaction.                                       *)
(*   Comments are never pending, and is_deleted is written together with   *)
(* the status by every writer (true exactly when it is 3), so the row      *)
(* keeps the status alone.                                                 *)
(***************************************************************************)
EXTENDS Integers, FiniteSets

CONSTANTS
    Posts,      \* forum posts
    Comments,   \* comments that can be written
    NoComment,  \* parent_id 0: the comment is a root
    MaxCount    \* bound: a counter at which no comment is added any more

ASSUME ThreadAssumption ==
    /\ IsFiniteSet(Comments)
    /\ NoComment \notin Comments
    /\ MaxCount \in Nat

VARIABLES
    post,      \* status of each post: "hidden" is pending or rejected
    row,       \* status of each comment, "none" before the insert
    home,      \* post_id
    root,      \* parent_id
    asked,     \* comments whose CreateComment has passed its checks and not written yet
    comments,  \* comment_count of each post
    replies,   \* reply_count of each comment
    loose      \* history: posts and comments whose counter a cascade has left behind

threadVars == <<post, row, home, root, asked, comments, replies, loose>>

PostStatuses == {"visible", "hidden", "deleted"}
Live == {"visible", "rejected"}

Home(p) == {c \in Comments : row[c] # "none" /\ home[c] = p}
Shown(p) == {c \in Home(p) : row[c] = "visible"}
RepliesOf(c) == {d \in Comments : row[d] # "none" /\ root[d] = c}
ShownReplies(c) == {d \in RepliesOf(c) : row[d] = "visible"}

(* GREATEST(n, 0) *)
AtLeastZero(n) == IF n > 0 THEN n ELSE 0

InitThreads ==
    /\ post \in [Posts -> {"visible", "hidden"}]
    /\ row = [c \in Comments |-> "none"]
    /\ home \in [Comments -> Posts]
    /\ root = [c \in Comments |-> NoComment]
    /\ asked = {}
    /\ comments = [p \in Posts |-> 0]
    /\ replies = [c \in Comments |-> 0]
    /\ loose = {}

-----------------------------------------------------------------------------
(* The two counters move with one comment: UpdateColumn on the post and, for a
   reply, on its root. *)
Count(c, d) ==
    /\ comments' = [comments EXCEPT ![home[c]] = AtLeastZero(@ + d)]
    /\ replies' = [r \in Comments |-> IF r = root[c] THEN AtLeastZero(replies[r] + d) ELSE replies[r]]

(* The bound on the counters. *)
Room(c) == comments[home[c]] < MaxCount /\ (root[c] # NoComment => replies[root[c]] < MaxCount)

ParentFor(t) == IF root[t] = NoComment THEN t ELSE root[t]

(* CreateComment, its checks: a visible post, and for a reply a visible target of
   the same post, whose root becomes the parent; nobody asks after the root. *)
Ask(c) ==
    /\ row[c] = "none" /\ c \notin asked
    /\ post[home[c]] = "visible"
    /\ \/ root' = root
       \/ \E t \in Shown(home[c]) :
             root' = [root EXCEPT ![c] = ParentFor(t)]
    /\ asked' = asked \cup {c}
    /\ UNCHANGED <<post, row, home, comments, replies, loose>>

(* CreateCommentWithOutbox, whatever has become of post and parent. *)
Insert(c) ==
    /\ c \in asked /\ Room(c)
    /\ asked' = asked \ {c}
    /\ row' = [row EXCEPT ![c] = "visible"]
    /\ Count(c, 1)
    /\ UNCHANGED <<post, home, root, loose>>

(* Faulty variant of Gone: the count of replies without its condition on status. *)
GoneWithAllReplies(c) == {c} \cup {d \in RepliesOf(c) : row[d] \in Live}

(* What DeleteComment takes off comment_count: a visible root goes with its
   visible replies; for any other comment only itself. *)
Gone(c) == {c} \cup (IF root[c] = NoComment THEN ShownReplies(c) ELSE {})

Delete(c) ==
    /\ row[c] \in Live
    /\ row' = [d \in Comments |->
                 IF d = c \/ (root[c] = NoComment /\ d \in RepliesOf(c) /\ row[d] \in Live)
                 THEN "deleted" ELSE row[d]]
    /\ IF row[c] = "visible"
       THEN /\ comments' = [comments EXCEPT ![home[c]] = AtLeastZero(@ - Cardinality(Gone(c)))]
            /\ replies' = [r \in Comments |->
                             IF r = root[c] THEN AtLeastZero(replies[r] - 1) ELSE replies[r]]
       ELSE UNCHANGED <<comments, replies>>
    /\ loose' = loose \cup (IF ShownReplies(c) = {} THEN {}
                            ELSE {c} \cup (IF row[c] = "visible" THEN {} ELSE {home[c]}))
    /\ UNCHANGED <<post, home, root, asked>>

(* Faulty variant of Delta: a comment already hidden is taken off again. *)
DeltaUnchecked(was, will) == IF will = "visible" THEN 1 ELSE -1

(* UpdateCommentStatus: what the counters are told. *)
Delta(was, will) ==
    CASE was # "visible" /\ will = "visible" -> 1
      [] was = "visible" /\ will # "visible" -> -1
      [] OTHER -> 0

(* UpdateCommentStatus: any row, a deleted one too, and its replies left alone. *)
SetCommentStatus(c, v) ==
    /\ row[c] # "none"
    /\ v = "visible" => Room(c)
    /\ row' = [row EXCEPT ![c] = v]
    /\ Count(c, Delta(row[c], v))
    /\ UNCHANGED <<post, home, root, asked, loose>>

(* DeletePost: every comment goes with the post, the counters stay. *)
DeletePost(p) ==
    /\ post' = [post EXCEPT ![p] = "deleted"]
    /\ row' = [c \in Comments |-> IF c \in Home(p) THEN "deleted" ELSE row[c]]
    /\ loose' = loose \cup (IF Shown(p) = {} THEN {} ELSE {p} \cup {root[c] : c \in Shown(p)})
    /\ UNCHANGED <<home, root, asked, comments, replies>>

(* UpdatePostStatus, UpdatePostByAdmin: WHERE id, and no word to the comments. *)
SetPostStatus(p, v) ==
    /\ post[p] # v
    /\ post' = [post EXCEPT ![p] = v]
    /\ UNCHANGED <<row, home, root, asked, comments, replies, loose>>

(* Faulty variant of Recounted: the join that counts comments forgets their status. *)
RecountedLive(S) == {c \in S : row[c] \in Live}

(* ReconcileCampusStats, comment_count and reply_count: of rows not deleted. *)
Recounted(S) == {c \in S : row[c] = "visible"}

RecountThreads ==
    /\ comments' = [p \in Posts |-> IF post[p] = "deleted" THEN comments[p]
                                    ELSE Cardinality(Recounted(Home(p)))]
    /\ replies' = [c \in Comments |-> IF row[c] \in Live THEN Cardinality(Recounted(RepliesOf(c)))
                                      ELSE replies[c]]
    /\ loose' = {x \in loose : (x \in Posts /\ post[x] = "deleted") \/ (x \in Comments /\ row[x] \notin Live)}
    /\ UNCHANGED <<post, row, home, root, asked>>

ThreadNext ==
    \/ \E c \in Comments : Ask(c) \/ Insert(c) \/ Delete(c)
    \/ \E c \in Comments, v \in Live \cup {"deleted"} : SetCommentStatus(c, v)
    \/ \E p \in Posts : DeletePost(p)
    \/ \E p \in Posts, v \in PostStatuses : SetPostStatus(p, v)

-----------------------------------------------------------------------------
(* Every row holds values the code can write, and a thread has two levels within
   one post. *)
ThreadTypeOK ==
    /\ post \in [Posts -> PostStatuses]
    /\ row \in [Comments -> {"none", "deleted"} \cup Live]
    /\ home \in [Comments -> Posts]
    /\ root \in [Comments -> Comments \cup {NoComment}]
    /\ asked \subseteq Comments
    /\ comments \in [Posts -> Nat]
    /\ replies \in [Comments -> Nat]
    /\ loose \subseteq Posts \cup Comments \cup {NoComment}
    /\ \A c \in Comments : root[c] # NoComment =>
          /\ row[root[c]] # "none" /\ home[root[c]] = home[c]
          /\ root[root[c]] = NoComment

(* No counter is ever below what readers see: no cascade, race or restored comment
   takes a comment off twice, so that GREATEST(..., 0) never has to hide it. *)
CountsCover ==
    /\ \A p \in Posts : comments[p] >= Cardinality(Shown(p))
    /\ \A c \in Comments : replies[c] >= Cardinality(ShownReplies(c))

(* A counter is exact unless a cascade has passed over it: the deletion of the
   post, of a hidden root with visible replies, or (for the root's own reply_count)
   of a root with visible replies.  Everything else keeps the sums, in any order. *)
ExactUnlessLoose ==
    /\ \A p \in Posts \ loose : comments[p] = Cardinality(Shown(p))
    /\ \A c \in Comments \ loose : replies[c] = Cardinality(ShownReplies(c))

=============================================================================
