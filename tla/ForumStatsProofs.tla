-------------------------- MODULE ForumStatsProofs --------------------------
(***************************************************************************)
(* The counters of posts, comments and reactions, for every set of posts,  *)
(* comments, users and requests.                                           *)
(***************************************************************************)
EXTENDS ForumStats, FiniteSetTheorems, TLAPS

-----------------------------------------------------------------------------
(* Reactions: a lock is held on a row that is off, and by one request. *)
ReactionInv ==
    /\ ReactionTypeOK
    /\ LikesCounted
    /\ \A a \in adding : a.saw = "off" => reaction[a.target][a.user] = "off"
    /\ \A a, b \in adding :
          a.saw = "off" /\ b.saw = "off" /\ a.target = b.target /\ a.user = b.user => a = b

LEMMA LikersCount ==
    ASSUME NEW t \in Targets
    PROVE  IsFiniteSet(Likers(t)) /\ Cardinality(Likers(t)) \in Nat
BY ReactionAssumption, FS_Subset, FS_CardinalityType DEF Likers

LEMMA ReactionInit == InitReactions => ReactionInv
<1> SUFFICES ASSUME InitReactions PROVE ReactionInv
  OBVIOUS
<1>1. \A t \in Targets : Likers(t) = {}
  BY DEF InitReactions, Likers
<1>2. LikesCounted
  BY <1>1, FS_EmptySet DEF InitReactions, LikesCounted
<1>3. QED
  BY <1>2 DEF InitReactions, ReactionInv, ReactionTypeOK, Rows

LEMMA SeesStep ==
    ASSUME ReactionInv, NEW r \in Requests, NEW t \in Targets, NEW u \in Users, Sees(r, t, u)
    PROVE  ReactionInv'
<1> DEFINE a == [request |-> r, target |-> t, user |-> u, saw |-> reaction[t][u]]
<1> USE DEF ReactionInv, ReactionTypeOK
<1>1. reaction[t][u] \in {"none", "off"}
  BY DEF Sees, Rows
<1>2. a \in Adding /\ adding' = adding \cup {a} /\ UNCHANGED <<reaction, likes>>
  BY <1>1 DEF Sees, Adding
<1>3. a.target = t /\ a.user = u /\ a.saw = reaction[t][u]
  OBVIOUS
<1>4. \A b \in adding : b.saw = "off" => ~(b.target = t /\ b.user = u)
  BY DEF Sees, Locked
<1> HIDE DEF a
<1>5. ReactionTypeOK' /\ LikesCounted'
  BY <1>2 DEF LikesCounted, Likers
<1>6. \A b \in adding' : b.saw = "off" => reaction'[b.target][b.user] = "off"
  BY <1>2, <1>3
<1>7. \A b, c \in adding' :
         b.saw = "off" /\ c.saw = "off" /\ b.target = c.target /\ b.user = c.user => b = c
  BY <1>2, <1>3, <1>4
<1>8. QED
  BY <1>5, <1>6, <1>7

(* The row of u for t turns to v, and the counter with it. *)
LEMMA Turned ==
    ASSUME ReactionTypeOK, LikesCounted, NEW t \in Targets, NEW u \in Users, NEW v \in Rows,
           NEW n \in Nat, (v = "on") # (reaction[t][u] = "on"),
           n = likes[t] + (IF v = "on" THEN 1 ELSE -1),
           reaction' = [reaction EXCEPT ![t][u] = v],
           likes' = [likes EXCEPT ![t] = n]
    PROVE  /\ reaction' \in [Targets -> [Users -> Rows]]
           /\ likes' \in [Targets -> Nat]
           /\ LikesCounted'
<1> USE DEF ReactionTypeOK
<1>1. \A x \in Targets, y \in Users : reaction'[x][y] = IF x = t /\ y = u THEN v ELSE reaction[x][y]
  OBVIOUS
<1>2. reaction' \in [Targets -> [Users -> Rows]] /\ likes' \in [Targets -> Nat]
  OBVIOUS
<1>3. ASSUME NEW x \in Targets, x # t PROVE Likers(x)' = Likers(x) /\ likes'[x] = likes[x]
  BY <1>1, <1>3 DEF Likers
<1>4. CASE v = "on"
  <2>1. Likers(t)' = Likers(t) \cup {u} /\ u \notin Likers(t)
    BY <1>1, <1>4 DEF Likers
  <2>2. Cardinality(Likers(t)') = Cardinality(Likers(t)) + 1
    <3>1. PICK L : L = Likers(t)
      OBVIOUS
    <3>2. Cardinality(L \cup {u}) = Cardinality(L) + 1
      BY <2>1, <3>1, LikersCount, FS_AddElement
    <3>3. Likers(t)' = L \cup {u}
      BY <2>1, <3>1
    <3>4. QED
      BY <3>1, <3>2, <3>3
  <2>3. likes'[t] = likes[t] + 1
    BY <1>4
  <2>4. QED
    BY <1>2, <1>3, <2>2, <2>3 DEF LikesCounted
<1>5. CASE v # "on"
  <2>1. Likers(t)' = Likers(t) \ {u} /\ u \in Likers(t)
    BY <1>1, <1>5 DEF Likers
  <2>2. Cardinality(Likers(t)') = Cardinality(Likers(t)) - 1
    <3>1. PICK L : L = Likers(t)
      OBVIOUS
    <3>2. Cardinality(L \ {u}) = Cardinality(L) - 1
      BY <2>1, <3>1, LikersCount, FS_RemoveElement
    <3>3. Likers(t)' = L \ {u}
      BY <2>1, <3>1
    <3>4. QED
      BY <3>1, <3>2, <3>3
  <2>3. likes'[t] = likes[t] - 1
    BY <1>5
  <2>4. QED
    BY <1>2, <1>3, <2>2, <2>3 DEF LikesCounted
<1>6. QED
  BY <1>4, <1>5

LEMMA AddsStep ==
    ASSUME ReactionInv, NEW a \in adding, Adds(a)
    PROVE  ReactionInv'
<1> USE DEF ReactionInv, ReactionTypeOK
<1>1. a.target \in Targets /\ a.user \in Users /\ a.saw \in {"none", "off"}
  BY DEF Adding
<1>2. PICK t \in Targets, u \in Users : t = a.target /\ u = a.user
  BY <1>1
<1>3. adding' = adding \ {a}
  BY DEF Adds
<1>4. CASE a.saw = "none" /\ reaction[t][u] # "none"
  <2>1. UNCHANGED <<reaction, likes>>
    BY <1>2, <1>4 DEF Adds
  <2>2. QED
    BY <1>3, <2>1 DEF LikesCounted, Likers
<1>5. CASE ~(a.saw = "none" /\ reaction[t][u] # "none")
  <2>1. reaction' = [reaction EXCEPT ![t][u] = "on"] /\ likes' = [likes EXCEPT ![t] = likes[t] + 1]
    BY <1>2, <1>5 DEF Adds
  <2>2. reaction[t][u] # "on"
    BY <1>1, <1>2, <1>5
  <2>3. likes[t] + 1 \in Nat
    OBVIOUS
  <2>4. /\ reaction' \in [Targets -> [Users -> Rows]] /\ likes' \in [Targets -> Nat]
        /\ LikesCounted'
    BY <2>1, <2>2, <2>3, Turned DEF Rows
  <2>5. \A b \in adding' : b.saw = "off" => reaction'[b.target][b.user] = "off"
    <3>1. ASSUME NEW b \in adding', b.saw = "off" PROVE reaction'[b.target][b.user] = "off"
      <4>1. b \in adding /\ b # a /\ b.target \in Targets /\ b.user \in Users
        BY <1>3 DEF Adding
      <4>2. reaction[b.target][b.user] = "off"
        BY <3>1, <4>1
      <4>3. ~(b.target = t /\ b.user = u)
        BY <1>1, <1>2, <1>5, <3>1, <4>1, <4>2
      <4>4. QED
        BY <2>1, <4>1, <4>2, <4>3
    <3>2. QED
      BY <3>1
  <2>6. QED
    BY <1>3, <2>4, <2>5
<1>6. QED
  BY <1>4, <1>5

LEMMA RemovesStep ==
    ASSUME ReactionInv, NEW t \in Targets, NEW u \in Users, Removes(t, u)
    PROVE  ReactionInv'
<1> USE DEF ReactionInv, ReactionTypeOK
<1>1. likes[t] > 0
  <2>1. u \in Likers(t)
    BY DEF Likers, Removes
  <2>2. Cardinality(Likers(t)) # 0
    BY <2>1, LikersCount, FS_EmptySet
  <2>3. QED
    BY <2>2, LikersCount DEF LikesCounted
<1>2. /\ reaction' = [reaction EXCEPT ![t][u] = "off"]
      /\ likes' = [likes EXCEPT ![t] = likes[t] - 1]
      /\ adding' = adding
  BY <1>1 DEF Removes
<1>3. likes[t] - 1 \in Nat
  BY <1>1
<1>4. reaction[t][u] = "on"
  BY DEF Removes
<1>5. /\ reaction' \in [Targets -> [Users -> Rows]] /\ likes' \in [Targets -> Nat]
      /\ LikesCounted'
  BY <1>2, <1>3, <1>4, Turned DEF Rows
<1>6. \A b \in adding' : b.saw = "off" => reaction'[b.target][b.user] = "off"
  BY <1>2 DEF Adding
<1>7. QED
  BY <1>2, <1>5, <1>6

LEMMA RecountReactionsStep ==
    ASSUME ReactionInv, NEW S, RecountReactions(S)
    PROVE  ReactionInv'
<1> USE DEF ReactionInv, ReactionTypeOK
<1>1. \A t \in Targets : likes'[t] = likes[t] /\ Likers(t)' = Likers(t)
  BY DEF RecountReactions, LikesCounted, Likers
<1>2. likes' \in [Targets -> Nat]
  BY LikersCount DEF RecountReactions
<1>3. QED
  BY <1>1, <1>2 DEF RecountReactions, LikesCounted

-----------------------------------------------------------------------------
(* Threads: a comment that is asked for has no row yet. *)
ThreadInv ==
    /\ ThreadTypeOK
    /\ CountsCover
    /\ ExactUnlessLoose
    /\ \A c \in asked : row[c] = "none"

LEMMA ShownFinite ==
    /\ \A p : IsFiniteSet(Shown(p)) /\ Cardinality(Shown(p)) \in Nat
    /\ \A c : IsFiniteSet(ShownReplies(c)) /\ Cardinality(ShownReplies(c)) \in Nat
<1>1. \A p : Shown(p) \subseteq Comments
  BY DEF Shown, Home
<1>2. \A c : ShownReplies(c) \subseteq Comments
  BY DEF ShownReplies, RepliesOf
<1>3. QED
  BY <1>1, <1>2, ThreadAssumption, FS_Subset, FS_CardinalityType

(* The size of a set one element enters or leaves. *)
LEMMA OneElement ==
    ASSUME NEW S, IsFiniteSet(S), NEW c, NEW T, T = S \cup {c} \/ T = S \ {c}
    PROVE  /\ Cardinality(T) \in Nat /\ Cardinality(S) \in Nat
           /\ c \in T /\ c \notin S => Cardinality(T) = Cardinality(S) + 1
           /\ c \notin T /\ c \in S => Cardinality(T) = Cardinality(S) - 1
           /\ (c \in T <=> c \in S) => Cardinality(T) = Cardinality(S)
<1>1. IsFiniteSet(T) /\ Cardinality(T) \in Nat /\ Cardinality(S) \in Nat
  <2>1. IsFiniteSet(T)
    BY FS_AddElement, FS_RemoveElement
  <2>2. QED
    BY <2>1, FS_CardinalityType
<1>2. CASE T = S \cup {c}
  BY <1>1, <1>2, FS_AddElement
<1>3. CASE T = S \ {c}
  BY <1>1, <1>3, FS_RemoveElement
<1>4. QED
  BY <1>2, <1>3

(* One comment changes its status and the counters are told. *)
LEMMA OneMoves ==
    ASSUME ThreadInv, NEW c \in Comments, NEW v \in Live \cup {"deleted"}, NEW d \in Int,
           d = (IF v = "visible" THEN 1 ELSE 0) - (IF row[c] = "visible" THEN 1 ELSE 0),
           row' = [row EXCEPT ![c] = v], Count(c, d), UNCHANGED <<home, root, loose>>
    PROVE  /\ comments' \in [Posts -> Nat] /\ replies' \in [Comments -> Nat]
           /\ CountsCover' /\ ExactUnlessLoose'
<1>1. PICK h \in Posts : h = home[c]
  BY DEF ThreadInv, ThreadTypeOK
<1>2. /\ comments' = [comments EXCEPT ![h] = AtLeastZero(comments[h] + d)]
      /\ replies' = [r \in Comments |-> IF r = root[c] THEN AtLeastZero(replies[r] + d) ELSE replies[r]]
  BY <1>1 DEF Count, ThreadInv, ThreadTypeOK
<1>3. \A p \in Posts : p # h => Shown(p)' = Shown(p) /\ comments'[p] = comments[p]
  BY <1>1, <1>2 DEF Shown, Home, ThreadInv, ThreadTypeOK
<1>4. \A r \in Comments : r # root[c] => ShownReplies(r)' = ShownReplies(r) /\ replies'[r] = replies[r]
  BY <1>2 DEF ShownReplies, RepliesOf, ThreadInv, ThreadTypeOK
<1>5. /\ comments'[h] \in Nat
      /\ comments'[h] >= Cardinality(Shown(h))'
      /\ comments[h] = Cardinality(Shown(h)) => comments'[h] = Cardinality(Shown(h))'
  <2>1. PICK X : X = Shown(h)
    OBVIOUS
  <2>2. PICK Y : Y = Shown(h)'
    OBVIOUS
  <2>3. (Y = X \cup {c} \/ Y = X \ {c}) /\ (c \in Y <=> v = "visible")
    BY <1>1, <2>1, <2>2 DEF Shown, Home, Live, ThreadInv, ThreadTypeOK
  <2>4. d = (IF c \in Y THEN 1 ELSE 0) - (IF c \in X THEN 1 ELSE 0)
    BY <1>1, <2>1, <2>3 DEF Shown, Home
  <2>5. IsFiniteSet(X) /\ comments[h] \in Nat /\ comments[h] >= Cardinality(X)
    BY <2>1, ShownFinite DEF CountsCover, ThreadInv, ThreadTypeOK
  <2>6. /\ comments[h] + d \in Nat
        /\ comments[h] + d >= Cardinality(Y)
        /\ comments[h] = Cardinality(X) => comments[h] + d = Cardinality(Y)
    <3>1. /\ Cardinality(Y) \in Nat /\ Cardinality(X) \in Nat
          /\ c \in Y /\ c \notin X => Cardinality(Y) = Cardinality(X) + 1
          /\ c \notin Y /\ c \in X => Cardinality(Y) = Cardinality(X) - 1
          /\ (c \in Y <=> c \in X) => Cardinality(Y) = Cardinality(X)
      BY <2>3, <2>5, OneElement
    <3>2. QED
      BY <2>4, <2>5, <3>1
  <2>7. QED
    BY <1>2, <2>1, <2>2, <2>6 DEF AtLeastZero, ThreadInv, ThreadTypeOK
<1>6. ASSUME root[c] \in Comments
      PROVE  /\ replies'[root[c]] \in Nat
             /\ replies'[root[c]] >= Cardinality(ShownReplies(root[c])')
             /\ replies[root[c]] = Cardinality(ShownReplies(root[c]))
                  => replies'[root[c]] = Cardinality(ShownReplies(root[c])')
  <2>0. PICK r \in Comments : r = root[c]
    BY <1>6
  <2>1. PICK X : X = ShownReplies(r)
    OBVIOUS
  <2>2. PICK Y : Y = ShownReplies(r)'
    OBVIOUS
  <2>3. (Y = X \cup {c} \/ Y = X \ {c}) /\ (c \in Y <=> v = "visible")
    BY <2>0, <2>1, <2>2 DEF ShownReplies, RepliesOf, Live, ThreadInv, ThreadTypeOK
  <2>4. d = (IF c \in Y THEN 1 ELSE 0) - (IF c \in X THEN 1 ELSE 0)
    BY <2>0, <2>1, <2>3 DEF ShownReplies, RepliesOf, ThreadInv, ThreadTypeOK
  <2>5. IsFiniteSet(X) /\ replies[r] \in Nat /\ replies[r] >= Cardinality(X)
    BY <2>1, ShownFinite DEF CountsCover, ThreadInv, ThreadTypeOK
  <2>6. /\ replies[r] + d \in Nat
        /\ replies[r] + d >= Cardinality(Y)
        /\ replies[r] = Cardinality(X) => replies[r] + d = Cardinality(Y)
    <3>1. /\ Cardinality(Y) \in Nat /\ Cardinality(X) \in Nat
          /\ c \in Y /\ c \notin X => Cardinality(Y) = Cardinality(X) + 1
          /\ c \notin Y /\ c \in X => Cardinality(Y) = Cardinality(X) - 1
          /\ (c \in Y <=> c \in X) => Cardinality(Y) = Cardinality(X)
      BY <2>3, <2>5, OneElement
    <3>2. QED
      BY <2>4, <2>5, <3>1
  <2>7. QED
    BY <1>2, <2>0, <2>1, <2>2, <2>6 DEF AtLeastZero, ThreadInv, ThreadTypeOK
<1>7. QED
  BY <1>1, <1>2, <1>3, <1>4, <1>5, <1>6 DEF CountsCover, ExactUnlessLoose, ThreadInv, ThreadTypeOK

LEMMA ThreadInit == InitThreads => ThreadInv
<1> SUFFICES ASSUME InitThreads PROVE ThreadInv
  OBVIOUS
<1>1. \A p \in Posts : Shown(p) = {}
  BY DEF InitThreads, Shown, Home
<1>2. \A c \in Comments : ShownReplies(c) = {}
  BY DEF InitThreads, ShownReplies, RepliesOf
<1>3. CountsCover /\ ExactUnlessLoose
  BY <1>1, <1>2, FS_EmptySet DEF InitThreads, CountsCover, ExactUnlessLoose
<1>4. ThreadTypeOK
  BY DEF InitThreads, ThreadTypeOK, PostStatuses
<1>5. QED
  BY <1>3, <1>4 DEF InitThreads, ThreadInv

(* Nothing that is counted or shown changes. *)
LEMMA NothingShown ==
    ASSUME ThreadInv, UNCHANGED <<comments, replies, loose>>,
           \A p \in Posts : Shown(p)' = Shown(p),
           \A c \in Comments : ShownReplies(c)' = ShownReplies(c)
    PROVE  CountsCover' /\ ExactUnlessLoose'
BY DEF ThreadInv, CountsCover, ExactUnlessLoose

LEMMA AskStep ==
    ASSUME ThreadInv, NEW c \in Comments, Ask(c)
    PROVE  ThreadInv'
<1> USE DEF ThreadInv, ThreadTypeOK
<1>1. \A d \in Comments : row[d] # "none" => root'[d] = root[d]
  BY DEF Ask
<1>2. CountsCover' /\ ExactUnlessLoose'
  <2>1. \A p \in Posts : Shown(p)' = Shown(p)
    BY DEF Ask, Shown, Home
  <2>2. \A d \in Comments : ShownReplies(d)' = ShownReplies(d)
    BY <1>1 DEF Ask, ShownReplies, RepliesOf
  <2>3. QED
    BY <2>1, <2>2, NothingShown DEF Ask
<1>3. ThreadTypeOK'
  <2>1. CASE root' = root
    BY <2>1 DEF Ask
  <2>2. ASSUME NEW t \in Shown(home[c]), root' = [root EXCEPT ![c] = ParentFor(t)] PROVE ThreadTypeOK'
    <3>1. t \in Comments /\ row[t] # "none" /\ home[t] = home[c]
      BY <2>2 DEF Shown, Home
    <3>2. PICK e \in Comments : e = ParentFor(t) /\ row[e] # "none" /\ home[e] = home[c] /\ root[e] = NoComment
      BY <3>1 DEF ParentFor
    <3>3. row[c] = "none" /\ e # c
      BY <3>2 DEF Ask
    <3>4. root' = [root EXCEPT ![c] = e]
      BY <2>2, <3>2
    <3>5. root' \in [Comments -> Comments \cup {NoComment}]
      BY <3>4
    <3>6. ASSUME NEW d \in Comments, root'[d] # NoComment
          PROVE  row[root'[d]] # "none" /\ home[root'[d]] = home[d] /\ root'[root'[d]] = NoComment
      <4>1. CASE d = c
        BY <3>2, <3>3, <3>4, <4>1
      <4>2. CASE d # c
        BY <3>3, <3>4, <3>6, <4>2
      <4>3. QED
        BY <4>1, <4>2
    <3>7. QED
      BY <3>5, <3>6 DEF Ask
  <2>3. QED
    BY <2>1, <2>2 DEF Ask
<1>4. \A d \in asked' : row'[d] = "none"
  BY DEF Ask
<1>5. QED
  BY <1>2, <1>3, <1>4

LEMMA InsertStep ==
    ASSUME ThreadInv, NEW c \in Comments, Insert(c)
    PROVE  ThreadInv'
<1>1. row' = [row EXCEPT ![c] = "visible"] /\ row[c] = "none"
  BY DEF Insert, ThreadInv
<1>2. /\ comments' \in [Posts -> Nat] /\ replies' \in [Comments -> Nat]
      /\ CountsCover' /\ ExactUnlessLoose'
  <2>1. PICK v \in Live \cup {"deleted"}, d \in Int : v = "visible" /\ d = 1
    BY DEF Live
  <2>2. d = (IF v = "visible" THEN 1 ELSE 0) - (IF row[c] = "visible" THEN 1 ELSE 0)
    BY <1>1, <2>1
  <2>3. row' = [row EXCEPT ![c] = v] /\ Count(c, d) /\ UNCHANGED <<home, root, loose>>
    BY <1>1, <2>1 DEF Insert
  <2>4. QED
    BY <2>2, <2>3, OneMoves
<1>3. ThreadTypeOK'
  <2>1. row' \in [Comments -> {"none", "deleted"} \cup Live]
    BY <1>1 DEF Live, ThreadInv, ThreadTypeOK
  <2>2. \A d \in Comments : row[d] # "none" => row'[d] # "none"
    BY <1>1 DEF Live, ThreadInv, ThreadTypeOK
  <2>3. QED
    BY <1>1, <1>2, <2>1, <2>2 DEF Insert, ThreadInv, ThreadTypeOK
<1>4. QED
  BY <1>1, <1>2, <1>3 DEF Insert, ThreadInv, ThreadTypeOK

LEMMA SetCommentStatusStep ==
    ASSUME ThreadInv, NEW c \in Comments, NEW v \in Live \cup {"deleted"}, SetCommentStatus(c, v)
    PROVE  ThreadInv'
<1>1. PICK d \in Int : d = Delta(row[c], v)
  BY DEF Delta
<1>2. d = (IF v = "visible" THEN 1 ELSE 0) - (IF row[c] = "visible" THEN 1 ELSE 0)
  <2>1. CASE v = "visible" /\ row[c] = "visible"
    BY <1>1, <2>1 DEF Delta
  <2>2. CASE v = "visible" /\ row[c] # "visible"
    BY <1>1, <2>2 DEF Delta
  <2>3. CASE v # "visible" /\ row[c] = "visible"
    BY <1>1, <2>3 DEF Delta
  <2>4. CASE v # "visible" /\ row[c] # "visible"
    BY <1>1, <2>4 DEF Delta
  <2>5. QED
    BY <2>1, <2>2, <2>3, <2>4
<1>3. row' = [row EXCEPT ![c] = v] /\ Count(c, d) /\ row[c] # "none" /\ UNCHANGED <<home, root, loose>>
  BY <1>1 DEF SetCommentStatus
<1>4. /\ comments' \in [Posts -> Nat] /\ replies' \in [Comments -> Nat]
      /\ CountsCover' /\ ExactUnlessLoose'
  BY <1>2, <1>3, OneMoves
<1>5. ThreadTypeOK'
  <2>1. row' \in [Comments -> {"none", "deleted"} \cup Live]
    BY <1>3 DEF Live, ThreadInv, ThreadTypeOK
  <2>2. \A x \in Comments : row[x] # "none" => row'[x] # "none"
    BY <1>3 DEF Live, ThreadInv, ThreadTypeOK
  <2>3. QED
    BY <1>3, <1>4, <2>1, <2>2 DEF SetCommentStatus, ThreadInv, ThreadTypeOK
<1>6. QED
  BY <1>3, <1>4, <1>5 DEF SetCommentStatus, ThreadInv, ThreadTypeOK

LEMMA DeleteReplyStep ==
    ASSUME ThreadInv, NEW c \in Comments, Delete(c), root[c] # NoComment
    PROVE  ThreadInv'
<1>1. ShownReplies(c) = {} /\ Gone(c) = {c}
  BY ThreadAssumption DEF ShownReplies, RepliesOf, Gone, ThreadInv, ThreadTypeOK
<1>2. row' = [row EXCEPT ![c] = "deleted"] /\ row[c] \in Live
  BY DEF Delete, ThreadInv, ThreadTypeOK
<1>3. PICK d \in Int : d = IF row[c] = "visible" THEN -1 ELSE 0
  OBVIOUS
<1>4. Count(c, d)
  <2>1. CASE row[c] = "visible"
    <3>1. d = -1 /\ Cardinality(Gone(c)) = 1
      BY <1>1, <1>3, <2>1, FS_Singleton
    <3>2. \A n \in Nat : n - Cardinality(Gone(c)) = n + d /\ n - 1 = n + d
      BY <3>1
    <3>3. QED
      BY <2>1, <3>2 DEF Delete, Count, ThreadInv, ThreadTypeOK
  <2>2. CASE row[c] # "visible"
    <3>1. \A n \in Nat : AtLeastZero(n + d) = n
      BY <1>3, <2>2 DEF AtLeastZero
    <3>2. comments' = comments /\ replies' = replies
      BY <2>2 DEF Delete
    <3>3. QED
      BY <3>1, <3>2 DEF Count, ThreadInv, ThreadTypeOK
  <2>3. QED
    BY <2>1, <2>2
<1>5. UNCHANGED <<home, root, loose>>
  BY <1>1 DEF Delete
<1>6. /\ comments' \in [Posts -> Nat] /\ replies' \in [Comments -> Nat]
      /\ CountsCover' /\ ExactUnlessLoose'
  <2>1. PICK v \in Live \cup {"deleted"} : v = "deleted"
    OBVIOUS
  <2>2. d = (IF v = "visible" THEN 1 ELSE 0) - (IF row[c] = "visible" THEN 1 ELSE 0)
    BY <1>3, <2>1
  <2>3. row' = [row EXCEPT ![c] = v]
    BY <1>2, <2>1
  <2>4. QED
    BY <1>4, <1>5, <2>2, <2>3, OneMoves
<1>7. ThreadTypeOK'
  BY <1>2, <1>5, <1>6 DEF Delete, Live, ThreadInv, ThreadTypeOK
<1>8. QED
  BY <1>2, <1>5, <1>6, <1>7 DEF Delete, Live, ThreadInv, ThreadTypeOK

(* A root goes with its visible replies, which are rows of the same post. *)
LEMMA DeleteRootStep ==
    ASSUME ThreadInv, NEW c \in Comments, Delete(c), root[c] = NoComment
    PROVE  ThreadInv'
<1>1. PICK h \in Posts : h = home[c]
  BY DEF ThreadInv, ThreadTypeOK
<1>2. PICK G : G = {c} \cup ShownReplies(c)
  OBVIOUS
<1>3. /\ \A d \in Comments : row[d] = "visible" => row'[d] = IF d \in G THEN "deleted" ELSE "visible"
      /\ \A d \in Comments : row[d] # "visible" => row'[d] # "visible"
      /\ \A d \in Comments : row'[d] = "none" <=> row[d] = "none"
      /\ row' \in [Comments -> {"none", "deleted"} \cup Live]
      /\ UNCHANGED <<post, home, root, asked>>
  BY <1>2 DEF Delete, ShownReplies, RepliesOf, Live, ThreadInv, ThreadTypeOK
<1>4. \A d \in G : d \in Comments /\ home[d] = h
  BY <1>1, <1>2, ThreadAssumption DEF ShownReplies, RepliesOf, ThreadInv, ThreadTypeOK
<1>5. \A p \in Posts : Shown(p)' = Shown(p) \ G /\ (p # h => Shown(p)' = Shown(p))
  BY <1>3, <1>4 DEF Shown, Home
<1>6. replies' = replies
  <2>1. \A r \in Comments : r # root[c]
    BY ThreadAssumption
  <2>2. QED
    BY <2>1 DEF Delete, ThreadInv, ThreadTypeOK
<1>7. \A r \in Comments : r # c => ShownReplies(r)' = ShownReplies(r)
  BY <1>2, <1>3, ThreadAssumption DEF ShownReplies, RepliesOf
<1>8. ShownReplies(c)' = {}
  BY <1>2, <1>3 DEF ShownReplies, RepliesOf
<1>9. loose \subseteq loose' /\ loose' \subseteq loose \cup {c, h}
  BY <1>1 DEF Delete
<1>10. \A r \in Comments : /\ replies'[r] >= Cardinality(ShownReplies(r)')
                           /\ r \notin loose' => replies'[r] = Cardinality(ShownReplies(r)')
  <2>1. Cardinality(ShownReplies(c)') = 0
    BY <1>8, FS_EmptySet
  <2>2. c \notin loose' => ShownReplies(c) = {} /\ c \notin loose
    BY DEF Delete
  <2>3. replies[c] \in Nat /\ (c \notin loose' => replies[c] = 0)
    BY <2>2, FS_EmptySet DEF ThreadInv, ThreadTypeOK, ExactUnlessLoose
  <2>4. QED
    BY <1>6, <1>7, <1>9, <2>1, <2>3 DEF ThreadInv, CountsCover, ExactUnlessLoose
<1>11. \A p \in Posts : p # h => comments'[p] = comments[p]
  BY <1>1 DEF Delete, ThreadInv, ThreadTypeOK
<1>12. comments[h] \in Nat /\ comments[h] >= Cardinality(Shown(h)) /\ Cardinality(Shown(h)) \in Nat
  BY ShownFinite DEF ThreadInv, ThreadTypeOK, CountsCover
<1>13. /\ comments'[h] \in Nat
       /\ comments'[h] >= Cardinality(Shown(h)')
       /\ h \notin loose' => comments'[h] = Cardinality(Shown(h)')
  <2>1. h \notin loose' => h \notin loose
    BY <1>9
  <2>2. CASE row[c] = "visible"
    <3>1. Gone(c) = G /\ G \subseteq Shown(h)
      BY <1>1, <1>2, <1>4, <2>2 DEF Gone, Shown, Home, ShownReplies
    <3>2. PICK X : X = Shown(h)
      OBVIOUS
    <3>3. IsFiniteSet(X) /\ G \subseteq X /\ X \cap G = G
      BY <3>1, <3>2, ShownFinite
    <3>4. /\ Cardinality(X \ G) = Cardinality(X) - Cardinality(G)
          /\ Cardinality(X \ G) \in Nat /\ Cardinality(G) \in Nat
      BY <3>3, FS_Difference, FS_Subset, FS_CardinalityType
    <3>5. comments'[h] = AtLeastZero(comments[h] - Cardinality(G))
      BY <1>1, <2>2, <3>1 DEF Delete, ThreadInv, ThreadTypeOK
    <3>6. Shown(h)' = X \ G
      BY <1>5, <3>2
    <3>7. h \notin loose => comments[h] = Cardinality(X)
      BY <3>2 DEF ThreadInv, ExactUnlessLoose
    <3>8. QED
      BY <1>12, <2>1, <3>2, <3>4, <3>5, <3>6, <3>7 DEF AtLeastZero
  <2>3. CASE row[c] # "visible"
    <3>1. comments'[h] = comments[h]
      BY <2>3 DEF Delete
    <3>2. PICK X : X = Shown(h)
      OBVIOUS
    <3>3. PICK Y : Y = Shown(h)'
      OBVIOUS
    <3>4. Y \subseteq X /\ IsFiniteSet(X)
      BY <1>5, <3>2, <3>3, ShownFinite
    <3>5. Cardinality(Y) <= Cardinality(X) /\ Cardinality(Y) \in Nat /\ Cardinality(X) \in Nat
      BY <3>4, FS_Subset, FS_CardinalityType
    <3>6. h \notin loose' => Y = X
      BY <1>1, <1>2, <1>5, <2>3, <3>2, <3>3 DEF Delete, Shown
    <3>7. h \notin loose => comments[h] = Cardinality(X)
      BY <3>2 DEF ThreadInv, ExactUnlessLoose
    <3>8. QED
      BY <1>12, <2>1, <3>1, <3>2, <3>3, <3>5, <3>6, <3>7
  <2>4. QED
    BY <2>2, <2>3
<1>14. CountsCover' /\ ExactUnlessLoose'
  BY <1>5, <1>9, <1>10, <1>11, <1>13 DEF ThreadInv, CountsCover, ExactUnlessLoose
<1>15. comments' \in [Posts -> Nat]
  <2>1. \E f : comments' = [comments EXCEPT ![h] = f]
    BY <1>1 DEF Delete, ThreadInv, ThreadTypeOK
  <2>2. QED
    BY <1>13, <2>1 DEF ThreadInv, ThreadTypeOK
<1>16. ThreadTypeOK'
  BY <1>3, <1>6, <1>9, <1>15 DEF ThreadInv, ThreadTypeOK
<1>17. QED
  BY <1>3, <1>14, <1>16 DEF ThreadInv, ThreadTypeOK

(* The rows of a post vanish under counters that stay: what they counted is loose. *)
LEMMA DeletePostStep ==
    ASSUME ThreadInv, NEW p \in Posts, DeletePost(p)
    PROVE  ThreadInv'
<1>1. /\ \A d \in Comments : row'[d] = IF d \in Home(p) THEN "deleted" ELSE row[d]
      /\ row' \in [Comments -> {"none", "deleted"} \cup Live]
      /\ UNCHANGED <<home, root, asked, comments, replies>>
  BY DEF DeletePost, ThreadInv, ThreadTypeOK, Live
<1>2. /\ loose \subseteq loose'
      /\ Shown(p) # {} => p \in loose'
      /\ \A d \in Shown(p) : root[d] \in loose'
  BY DEF DeletePost
<1>3. \A q \in Posts : Shown(q)' = IF q = p THEN {} ELSE Shown(q)
  BY <1>1 DEF Shown, Home
<1>4. \A c \in Comments : ShownReplies(c)' = ShownReplies(c) \ Shown(p)
  BY <1>1 DEF Shown, Home, ShownReplies, RepliesOf
<1>5. \A q \in Posts : /\ comments'[q] >= Cardinality(Shown(q)')
                       /\ q \notin loose' => comments'[q] = Cardinality(Shown(q)')
  <2>1. Cardinality(Shown(p)') = 0 /\ comments[p] \in Nat
    BY <1>3, FS_EmptySet DEF ThreadInv, ThreadTypeOK
  <2>2. p \notin loose' => comments[p] = 0
    BY <1>2, FS_EmptySet DEF ThreadInv, ExactUnlessLoose
  <2>3. QED
    BY <1>1, <1>2, <1>3, <2>1, <2>2 DEF ThreadInv, CountsCover, ExactUnlessLoose
<1>6. ASSUME NEW c \in Comments
      PROVE  /\ replies'[c] >= Cardinality(ShownReplies(c)')
             /\ c \notin loose' => replies'[c] = Cardinality(ShownReplies(c)')
  <2>1. PICK X : X = ShownReplies(c)
    OBVIOUS
  <2>2. PICK Y : Y = ShownReplies(c)'
    OBVIOUS
  <2>3. Y \subseteq X /\ IsFiniteSet(X)
    BY <1>4, <2>1, <2>2, ShownFinite
  <2>4. Cardinality(Y) <= Cardinality(X) /\ Cardinality(Y) \in Nat /\ Cardinality(X) \in Nat
    BY <2>3, FS_Subset, FS_CardinalityType
  <2>5. c \notin loose' => Y = X
    BY <1>2, <1>4, <2>1, <2>2 DEF ShownReplies, RepliesOf
  <2>6. replies'[c] = replies[c] /\ replies[c] \in Nat /\ replies[c] >= Cardinality(X)
    BY <1>1, <2>1 DEF ThreadInv, ThreadTypeOK, CountsCover
  <2>7. c \notin loose' => replies[c] = Cardinality(X)
    BY <1>2, <2>1 DEF ThreadInv, ExactUnlessLoose
  <2>8. QED
    BY <2>2, <2>4, <2>5, <2>6, <2>7
<1>7. CountsCover' /\ ExactUnlessLoose'
  BY <1>5, <1>6 DEF CountsCover, ExactUnlessLoose
<1>8. ThreadTypeOK'
  <2>1. loose' \subseteq Posts \cup Comments \cup {NoComment}
    BY DEF DeletePost, Shown, Home, ThreadInv, ThreadTypeOK
  <2>2. post' \in [Posts -> PostStatuses]
    BY DEF DeletePost, ThreadInv, ThreadTypeOK, PostStatuses
  <2>3. \A d \in Comments : row[d] # "none" => row'[d] # "none"
    BY <1>1
  <2>4. QED
    BY <1>1, <2>1, <2>2, <2>3 DEF ThreadInv, ThreadTypeOK
<1>9. \A d \in asked' : row'[d] = "none"
  BY <1>1 DEF Home, ThreadInv, ThreadTypeOK
<1>10. QED
  BY <1>7, <1>8, <1>9 DEF ThreadInv

LEMMA SetPostStatusStep ==
    ASSUME ThreadInv, NEW p \in Posts, NEW v \in PostStatuses, SetPostStatus(p, v)
    PROVE  ThreadInv'
<1>1. UNCHANGED <<row, home, root, asked, comments, replies, loose>> /\ post' \in [Posts -> PostStatuses]
  BY DEF SetPostStatus, ThreadInv, ThreadTypeOK
<1>2. CountsCover' /\ ExactUnlessLoose'
  BY <1>1, NothingShown DEF Shown, Home, ShownReplies, RepliesOf
<1>3. QED
  BY <1>1, <1>2 DEF ThreadInv, ThreadTypeOK

(* What is counted anew is exact, and only what is not stays loose. *)
LEMMA RecountThreadsStep ==
    ASSUME ThreadInv, RecountThreads
    PROVE  ThreadInv'
<1>1. UNCHANGED <<post, row, home, root, asked>>
  BY DEF RecountThreads
<1>2. /\ \A p \in Posts : Recounted(Home(p)) = Shown(p)
      /\ \A c \in Comments : Recounted(RepliesOf(c)) = ShownReplies(c)
  BY DEF Recounted, Shown, ShownReplies
<1>3. /\ \A p \in Posts : comments'[p] = IF post[p] = "deleted" THEN comments[p] ELSE Cardinality(Shown(p))
      /\ \A c \in Comments : replies'[c] = IF row[c] \in Live THEN Cardinality(ShownReplies(c)) ELSE replies[c]
  BY <1>2 DEF RecountThreads
<1>4. /\ \A p \in Posts : Shown(p)' = Shown(p)
      /\ \A c \in Comments : ShownReplies(c)' = ShownReplies(c)
  BY <1>1 DEF Shown, Home, ShownReplies, RepliesOf
<1>5. CountsCover'
  BY <1>3, <1>4, ShownFinite DEF CountsCover, ThreadInv
<1>6. /\ \A p \in Posts \ loose' : p \in loose => post[p] # "deleted"
      /\ \A c \in Comments \ loose' : c \in loose => row[c] \in Live
  BY DEF RecountThreads
<1>7. ExactUnlessLoose'
  BY <1>3, <1>4, <1>6 DEF ExactUnlessLoose, ThreadInv
<1>8. /\ comments' \in [Posts -> Nat] /\ replies' \in [Comments -> Nat]
      /\ loose' \subseteq loose
  BY <1>2, ShownFinite DEF RecountThreads, ThreadInv, ThreadTypeOK
<1>9. QED
  BY <1>1, <1>5, <1>7, <1>8 DEF ThreadInv, ThreadTypeOK

LEMMA ThreadStep ==
    ASSUME ThreadInv, ThreadNext
    PROVE  ThreadInv'
<1>1. ASSUME NEW c \in Comments, Delete(c) PROVE ThreadInv'
  BY <1>1, DeleteReplyStep, DeleteRootStep
<1>2. QED
  BY <1>1, AskStep, InsertStep, SetCommentStatusStep, DeletePostStep, SetPostStatusStep DEF ThreadNext

-----------------------------------------------------------------------------
LEMMA Invariant == Spec => [](ThreadInv /\ ReactionInv)
<1>1. Init => ThreadInv /\ ReactionInv
  BY ThreadInit, ReactionInit DEF Init
<1>2. ThreadInv /\ ReactionInv /\ [Next]_vars => ThreadInv' /\ ReactionInv'
  <2> SUFFICES ASSUME ThreadInv, ReactionInv, [Next]_vars PROVE ThreadInv' /\ ReactionInv'
    OBVIOUS
  <2>1. UNCHANGED threadVars => ThreadInv'
    BY DEF threadVars, ThreadInv, ThreadTypeOK, CountsCover, ExactUnlessLoose, Shown, Home,
           ShownReplies, RepliesOf
  <2>2. UNCHANGED reactionVars => ReactionInv'
    BY DEF reactionVars, ReactionInv, ReactionTypeOK, LikesCounted, Likers
  <2>3. ReactionNext => ReactionInv'
    BY SeesStep, AddsStep, RemovesStep DEF ReactionNext
  <2>4. Reconcile => ThreadInv' /\ ReactionInv'
    BY RecountThreadsStep, RecountReactionsStep DEF Reconcile
  <2>5. QED
    BY <2>1, <2>2, <2>3, <2>4, ThreadStep DEF Next, vars
<1>3. QED
  BY <1>1, <1>2, PTL DEF Spec

(* Every comment, counter and request holds values the code can write; threads keep
   two levels within one post. *)
THEOREM StatsTypeCorrect == Spec => []TypeOK
<1>1. ThreadInv /\ ReactionInv => TypeOK
  BY DEF ThreadInv, ReactionInv, TypeOK
<1>2. QED
  BY <1>1, Invariant, PTL

(* No write of CreateComment, DeleteComment, UpdateCommentStatus or DeletePost, in
   any order, takes a comment off a counter twice. *)
THEOREM CountersCover == Spec => []CountsCover
<1>1. ThreadInv /\ ReactionInv => CountsCover
  BY DEF ThreadInv
<1>2. QED
  BY <1>1, Invariant, PTL

(* The cascades of DeletePost and DeleteComment are the only writes after which a
   counter may be too high. *)
THEOREM CountersExact == Spec => []ExactUnlessLoose
<1>1. ThreadInv /\ ReactionInv => ExactUnlessLoose
  BY DEF ThreadInv
<1>2. QED
  BY <1>1, Invariant, PTL

(* Row locks and unique keys make every like and collection count once. *)
THEOREM LikesAreCounted == Spec => []LikesCounted
<1>1. ThreadInv /\ ReactionInv => LikesCounted
  BY DEF ReactionInv
<1>2. QED
  BY <1>1, Invariant, PTL

-----------------------------------------------------------------------------
(* What stats_reconcile does to the counters it finds: afterwards those of all that
   is not deleted are exact; none is raised; those no cascade has passed over, and
   the counters of reactions, stay as they are. *)
ReconcileHeals ==
    [][Reconcile =>
          /\ Exact'
          /\ likes' = likes
          /\ \A p \in Posts : comments'[p] <= comments[p] /\ (p \notin loose => comments'[p] = comments[p])
          /\ \A c \in Comments : replies'[c] <= replies[c] /\ (c \notin loose => replies'[c] = replies[c])]_vars

(* One run of the job heals every counter, and corrects nothing that was right: the
   core of StatsHeal, for which the job must run again and again. *)
THEOREM ReconcileCorrects == Spec => ReconcileHeals
<1> DEFINE Heals ==
      Reconcile =>
          /\ Exact'
          /\ likes' = likes
          /\ \A p \in Posts : comments'[p] <= comments[p] /\ (p \notin loose => comments'[p] = comments[p])
          /\ \A c \in Comments : replies'[c] <= replies[c] /\ (c \notin loose => replies'[c] = replies[c])
<1>1. ASSUME ThreadInv, ReactionInv, Reconcile PROVE Heals
  <2>1. UNCHANGED <<post, row, home, root>>
    BY <1>1 DEF Reconcile, RecountThreads
  <2>2. /\ \A p \in Posts : Recounted(Home(p)) = Shown(p)
        /\ \A c \in Comments : Recounted(RepliesOf(c)) = ShownReplies(c)
    BY DEF Recounted, Shown, ShownReplies
  <2>3. /\ \A p \in Posts : comments'[p] = IF post[p] = "deleted" THEN comments[p] ELSE Cardinality(Shown(p))
        /\ \A c \in Comments : replies'[c] = IF row[c] \in Live THEN Cardinality(ShownReplies(c)) ELSE replies[c]
    BY <1>1, <2>2 DEF Reconcile, RecountThreads
  <2>4. /\ \A p \in Posts : Shown(p)' = Shown(p)
        /\ \A c \in Comments : ShownReplies(c)' = ShownReplies(c)
    BY <2>1 DEF Shown, Home, ShownReplies, RepliesOf
  <2>5. Exact'
    BY <2>1, <2>3, <2>4 DEF Exact
  <2>6. likes' = likes
    <3>1. \A t \in Targets : likes[t] = Cardinality(Likers(t))
      BY <1>1 DEF ReactionInv, LikesCounted
    <3>2. likes = [t \in Targets |-> likes[t]]
      BY <1>1 DEF ReactionInv, ReactionTypeOK
    <3>3. likes' = [t \in Targets |-> IF t \in Kept THEN Cardinality(Likers(t)) ELSE likes[t]]
      BY <1>1 DEF Reconcile, RecountReactions
    <3>4. QED
      BY <3>1, <3>2, <3>3
  <2>7. \A p \in Posts : comments[p] \in Nat /\ comments[p] >= Cardinality(Shown(p))
                        /\ (p \notin loose => comments[p] = Cardinality(Shown(p)))
    BY <1>1 DEF ThreadInv, ThreadTypeOK, CountsCover, ExactUnlessLoose
  <2>8. \A c \in Comments : replies[c] \in Nat /\ replies[c] >= Cardinality(ShownReplies(c))
                           /\ (c \notin loose => replies[c] = Cardinality(ShownReplies(c)))
    BY <1>1 DEF ThreadInv, ThreadTypeOK, CountsCover, ExactUnlessLoose
  <2>9. QED
    BY <2>3, <2>5, <2>6, <2>7, <2>8, ShownFinite
<1>2. ThreadInv /\ ReactionInv /\ [Next]_vars => [Heals]_vars
  BY <1>1
<1>3. QED
  BY <1>2, Invariant, PTL DEF Spec, ReconcileHeals

=============================================================================
