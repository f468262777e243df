---------------------------- MODULE ServicesProofs ----------------------------
(***************************************************************************)
(* What replicas keep beside the tables: the caches of a post, for every   *)
(* set of writers and readers, every time to live and every number of lost *)
(* calls; the batch of events and the task server, for every set of        *)
(* requests, events and jobs, every size and every number of failures.     *)
(* And what they do in calls of other services: logins and sign-ups, for   *)
(* every number of requests, secrets, errors and crashes.  Last, the       *)
(* services side by side, as MCServices composes them.                     *)
(***************************************************************************)
EXTENDS MCServices, OpsProofs, AIProofs, FiniteSetTheorems, WellFoundedInduction, TLAPS

(* Writers that will, or would, raise the version. *)
Raises(w) == writer[w] \in {"wrote post", "bump"}
Raisers == {w \in Writers : Raises(w)}

(* Each write has raised the version once at most, or is about to: there is a key for it. *)
RoomInv == IsFiniteSet(Raisers) /\ version + Cardinality(Raisers) <= edition

(* A copy in a reader's hands is no older than its request. *)
OldInv ==
    /\ \A r \in Readers :
          /\ reader[r].at = "read" => reader[r].old = 0
          /\ reader[r].at = "fill" /\ reader[r].age <= Deadline => reader[r].old <= reader[r].age
    /\ StaleIsBounded

(* The version of now is about to be raised, or has failed to be. *)
Unraised == version \in unbumped \/ \E w \in Writers : Raises(w)

(* What a reader keeps under the version of now is the last write, and nothing is kept under
   a version that is still to come. *)
ListInv ==
    /\ \A l \in ListReaders : lister[l].version <= version
    /\ \A v \in Editions : v > version => lists[v].left = 0
    /\ \A l \in ListReaders :
          lister[l].at = "keep" /\ lister[l].version = version /\ lister[l].edition # listed => Unraised
    /\ ListsFollowWrites

-----------------------------------------------------------------------------
LEMMA Constants ==
    /\ DetailTTL \in Nat \ {0} /\ ListTTL \in Nat \ {0} /\ Deadline \in Nat
    /\ MaxEdits \in Nat /\ MaxOutages \in Nat /\ Longest \in Nat /\ Longest = Deadline + DetailTTL
BY PostCacheAssumption DEF Longest

LEMMA RoomSame ==
    ASSUME RoomInv, version \in Nat, edition \in Nat, version' = version, edition' \in Nat, edition' >= edition,
           \A w \in Writers : Raises(w)' <=> Raises(w)
    PROVE  RoomInv'
<1>1. Raisers' = Raisers
  BY DEF Raisers
<1>2. PICK R : R = Raisers
  OBVIOUS
<1>3. IsFiniteSet(R) /\ version + Cardinality(R) <= edition
  BY <1>2 DEF RoomInv
<1>4. Cardinality(R) \in Nat
  BY <1>3, FS_CardinalityType
<1>5. IsFiniteSet(R) /\ version' + Cardinality(R) <= edition'
  BY <1>3, <1>4
<1>6. QED
  BY <1>1, <1>2, <1>5 DEF RoomInv

LEMMA RoomGrows ==
    ASSUME RoomInv, version \in Nat, edition \in Nat, NEW w \in Writers,
           version' = version, edition' = edition + 1, ~Raises(w), Raises(w)',
           \A x \in Writers : x # w => (Raises(x)' <=> Raises(x))
    PROVE  RoomInv'
<1>1. Raisers' = Raisers \cup {w} /\ w \notin Raisers
  BY DEF Raisers
<1>2. PICK R : R = Raisers
  OBVIOUS
<1>3. IsFiniteSet(R) /\ version + Cardinality(R) <= edition /\ w \notin R
  BY <1>1, <1>2 DEF RoomInv
<1>4. Cardinality(R) \in Nat /\ IsFiniteSet(R \cup {w}) /\ Cardinality(R \cup {w}) = Cardinality(R) + 1
  BY <1>3, FS_CardinalityType, FS_AddElement, Zenon
<1>5. version' + Cardinality(R \cup {w}) <= edition'
  BY <1>3, <1>4
<1>6. QED
  BY <1>1, <1>2, <1>4, <1>5 DEF RoomInv

LEMMA RoomFalls ==
    ASSUME RoomInv, version \in Nat, edition \in Nat, NEW w \in Writers,
           version' \in {version, version + 1}, edition' = edition, Raises(w), ~Raises(w)',
           \A x \in Writers : x # w => (Raises(x)' <=> Raises(x))
    PROVE  RoomInv' /\ version + 1 <= edition
<1>1. Raisers' = Raisers \ {w} /\ w \in Raisers
  BY DEF Raisers
<1>2. PICK R : R = Raisers
  OBVIOUS
<1>3. IsFiniteSet(R) /\ version + Cardinality(R) <= edition /\ w \in R
  BY <1>1, <1>2 DEF RoomInv
<1>4. Cardinality(R) \in Nat /\ IsFiniteSet(R \ {w}) /\ Cardinality(R \ {w}) = Cardinality(R) - 1
  BY <1>3, FS_CardinalityType, FS_RemoveElement, Zenon
<1>5. Cardinality(R \ {w}) \in Nat
  BY <1>4, FS_CardinalityType
<1>6. version' + Cardinality(R \ {w}) <= edition' /\ version + 1 <= edition
  BY <1>3, <1>4, <1>5
<1>7. QED
  BY <1>1, <1>2, <1>4, <1>6 DEF RoomInv

-----------------------------------------------------------------------------
(* What the code writes into a cache or a request is of its kind. *)
LEMMA Blanks ==
    /\ Resting \in Reads /\ [Resting EXCEPT !.at = "read"] \in Reads
    /\ Waiting \in Lookups /\ NoDetail \in Details /\ NoList \in KeptLists /\ 0 \in Editions
BY Constants DEF Reads, Resting, Editions, Waiting, Lookups, NoDetail, Details, NoList, KeptLists

LEMMA OfReads ==
    ASSUME NEW x \in Reads, NEW e \in Editions
    PROVE  /\ [x EXCEPT !.at = "fill", !.edition = e] \in Reads
           /\ x.edition \in Editions /\ x.old \in 0..(Longest + 1) /\ x.age \in 0..(Deadline + 1)
BY DEF Reads

LEMMA OfKept ==
    ASSUME NEW x \in Reads, edition \in Editions
    PROVE  Kept(x.edition, x.old) \in Details
BY Constants DEF Reads, Kept, Details

LEMMA OfLookups ==
    ASSUME NEW x \in Lookups, NEW v \in Editions, NEW e \in Editions
    PROVE  /\ [at |-> "look", version |-> v, edition |-> e] \in Lookups
           /\ [x EXCEPT !.at = "keep", !.edition = e] \in Lookups
           /\ x.version \in Editions /\ x.edition \in Editions
BY DEF Lookups

LEMMA OfLists ==
    ASSUME NEW x \in KeptLists, NEW e \in Editions
    PROVE  /\ [edition |-> e, left |-> ListTTL] \in KeptLists
           /\ Sooner(x) \in KeptLists /\ x.edition \in Editions
<1>1. x.edition \in Editions /\ x.left \in 0..ListTTL
  BY DEF KeptLists
<1>2. [edition |-> e, left |-> ListTTL] \in KeptLists
  BY Constants DEF KeptLists
<1>3. x.left > 1 => [x EXCEPT !.left = x.left - 1] \in KeptLists
  BY <1>1, Constants DEF KeptLists
<1>4. QED
  BY <1>1, <1>2, <1>3, Blanks DEF Sooner

LEMMA Ages ==
    ASSUME edition \in Editions
    PROVE  /\ \A x \in Reads : Older(x) \in 0..(Longest + 1)
           /\ \A x \in Details : Older(x) \in 0..(Longest + 1)
           /\ \A n \in Nat : UpTo(n + 1, Deadline + 1) \in 0..(Deadline + 1)
<1>1. \A n \in Nat : UpTo(n + 1, Longest + 1) \in 0..(Longest + 1)
  BY Constants DEF UpTo
<1>2. (\A x \in Reads : x.old \in Nat) /\ (\A x \in Details : x.old \in Nat)
  BY Constants DEF Reads, Details
<1>3. \A n \in Nat : UpTo(n + 1, Deadline + 1) \in 0..(Deadline + 1)
  BY Constants DEF UpTo
<1>4. 0 \in 0..(Longest + 1)
  BY Constants
<1>5. QED
  BY <1>1, <1>2, <1>3, <1>4 DEF Older

LEMMA OlderReads ==
    ASSUME edition \in Editions, NEW x \in Reads
    PROVE  /\ [x EXCEPT !.age = UpTo(x.age + 1, Deadline + 1)] \in Reads
           /\ [x EXCEPT !.age = UpTo(x.age + 1, Deadline + 1), !.old = Older(x)] \in Reads
           /\ x.at \in {"idle", "read", "fill"}
<1>1. x.age \in Nat /\ x.at \in {"idle", "read", "fill"}
  BY Constants DEF Reads
<1>2. UpTo(x.age + 1, Deadline + 1) \in 0..(Deadline + 1) /\ Older(x) \in 0..(Longest + 1)
  BY <1>1, Ages
<1>3. QED
  BY <1>1, <1>2 DEF Reads

LEMMA OlderDetail ==
    ASSUME edition \in Editions, NEW x \in Details, x.left > 1
    PROVE  [x EXCEPT !.left = x.left - 1, !.old = Older(x)] \in Details
<1>1. x.left \in 0..DetailTTL
  BY DEF Details
<1>2. Older(x) \in 0..(Longest + 1)
  BY Ages
<1>3. x.left - 1 \in 0..DetailTTL
  BY <1>1, Constants
<1>4. QED
  BY <1>2, <1>3 DEF Details

-----------------------------------------------------------------------------
(* Typing: one step per action. *)
CacheInv == CacheTypeOK /\ RoomInv

LEMMA Losses ==
    ASSUME outages \in 0..MaxOutages, Outage \/ UNCHANGED outages
    PROVE  outages' \in 0..MaxOutages
BY Constants DEF Outage

LEMMA CacheInvInit == InitCache => CacheInv
<1> SUFFICES ASSUME InitCache PROVE CacheInv
  OBVIOUS
<1>1. Raisers = {} /\ version = 0 /\ edition = 0
  BY DEF InitCache, Raisers, Raises
<1>2. RoomInv
  BY <1>1, FS_EmptySet DEF RoomInv
<1>3. CacheTypeOK
  <2>1. 0 \in 0..MaxOutages
    BY Constants
  <2>2. edition \in Editions /\ listed \in Editions /\ version \in Editions /\ pool \in Editions /\ outages \in 0..MaxOutages
    BY <2>1, Blanks DEF InitCache
  <2>3. /\ detail \in Details /\ undeleted \subseteq Editions /\ recounted \subseteq Editions
        /\ unbumped \subseteq Editions /\ lists \in [Editions -> KeptLists]
    BY Blanks DEF InitCache
  <2>4. /\ writer \in [Writers -> {"idle", "wrote post", "wrote counter", "bump"}] /\ dirty \in [Writers -> Editions]
        /\ reader \in [Readers -> Reads] /\ lister \in [ListReaders -> Lookups]
    BY Blanks DEF InitCache
  <2>5. QED
    BY <2>2, <2>3, <2>4 DEF CacheTypeOK
<1>4. QED
  BY <1>2, <1>3 DEF CacheInv

LEMMA Numbers ==
    ASSUME CacheTypeOK
    PROVE  version \in Nat /\ edition \in Nat /\ listed \in Nat
<1>1. version \in Editions /\ edition \in Editions /\ listed \in Editions
  BY DEF CacheTypeOK
<1>2. QED
  BY <1>1, Constants DEF Editions

LEMMA NextEdition ==
    ASSUME CacheTypeOK, edition < MaxEdits
    PROVE  edition + 1 \in Editions
BY Numbers, Constants DEF Editions

LEMMA WriteStep ==
    ASSUME CacheInv, NEW w \in Writers, Write(w)
    PROVE  CacheInv'
<1>0. edition + 1 \in Editions
  BY NextEdition DEF Write, CacheInv
<1>1. CacheTypeOK'
  BY <1>0 DEF CacheInv, CacheTypeOK, Write, detailVars, listVars
<1>2. CASE writer'[w] = "wrote post"
  <2>1. ~Raises(w) /\ Raises(w)' /\ \A x \in Writers : x # w => (Raises(x)' <=> Raises(x))
    BY <1>2 DEF Write, Raises, CacheInv, CacheTypeOK
  <2>2. QED
    BY <1>1, <2>1, Numbers, RoomGrows DEF Write, CacheInv, listVars
<1>3. CASE writer'[w] = "wrote counter"
  <2>1. \A x \in Writers : Raises(x)' <=> Raises(x)
    BY <1>3 DEF Write, Raises, CacheInv, CacheTypeOK
  <2>2. edition' = edition + 1 /\ version' = version
    BY DEF Write, listVars
  <2>3. edition' \in Nat /\ edition' >= edition
    BY <2>2, Numbers DEF CacheInv
  <2>4. QED
    BY <1>1, <2>1, <2>2, <2>3, Numbers, RoomSame DEF CacheInv
<1>4. QED
  BY <1>2, <1>3 DEF Write, CacheInv, CacheTypeOK

LEMMA RecountStep ==
    ASSUME CacheInv, Recount
    PROVE  CacheInv'
<1>1. edition + 1 \in Editions
  BY NextEdition DEF Recount, CacheInv
<1>2. CacheTypeOK'
  BY <1>1 DEF CacheInv, CacheTypeOK, Recount, listVars, writerVars
<1>3. \A x \in Writers : Raises(x)' <=> Raises(x)
  BY DEF Recount, Raises, writerVars
<1>4. edition' = edition + 1 /\ version' = version
  BY DEF Recount, listVars
<1>5. edition' \in Nat /\ edition' >= edition
  BY <1>4, Numbers DEF CacheInv
<1>6. QED
  BY <1>2, <1>3, <1>4, <1>5, Numbers, RoomSame DEF CacheInv

LEMMA DeleteDetailStep ==
    ASSUME CacheInv, NEW w \in Writers, DeleteDetail(w)
    PROVE  CacheInv'
<1>0. outages' \in 0..MaxOutages
  BY Losses DEF DeleteDetail, CacheInv, CacheTypeOK
<1>1. CacheTypeOK'
  <2>1. undeleted' \subseteq Editions /\ detail' \in Details
    <3>1. detail \in Details /\ (detail' = NoDetail \/ detail' = detail)
      BY DEF CacheInv, CacheTypeOK, DeleteDetail, DropDetail
    <3>2. undeleted' \subseteq undeleted \union {dirty[w]}
      BY DEF DeleteDetail
    <3>3. QED
      BY <3>1, <3>2, Blanks DEF CacheInv, CacheTypeOK
  <2>2. AfterDel(w) \in {"bump", "idle"}
    BY DEF AfterDel
  <2>3. writer' \in [Writers -> {"idle", "wrote post", "wrote counter", "bump"}]
    BY <2>2 DEF CacheInv, CacheTypeOK, DeleteDetail
  <2>4. QED
    BY <1>0, <2>1, <2>3, Blanks DEF CacheInv, CacheTypeOK, DeleteDetail, listVars
<1>2. \A x \in Writers : Raises(x)' <=> Raises(x)
  BY DEF DeleteDetail, Raises, AfterDel, Wrote, CacheInv, CacheTypeOK
<1>3. QED
  BY <1>1, <1>2, Numbers, RoomSame DEF CacheInv, DeleteDetail, listVars

LEMMA BumpStep ==
    ASSUME CacheInv, NEW w \in Writers, BumpVersion(w)
    PROVE  CacheInv'
<1>1. Raises(w) /\ ~Raises(w)' /\ \A x \in Writers : x # w => (Raises(x)' <=> Raises(x))
  BY DEF BumpVersion, Raises, CacheInv, CacheTypeOK
<1>2. version' \in {version, version + 1} /\ edition' = edition
  BY DEF BumpVersion
<1>3. RoomInv' /\ version + 1 <= edition
  BY <1>1, <1>2, Numbers, RoomFalls DEF CacheInv
<1>4. version' \in Editions
  <2>1. version \in Nat /\ edition \in Editions
    BY Numbers DEF CacheInv, CacheTypeOK
  <2>2. QED
    BY <1>2, <1>3, <2>1, Constants DEF Editions
<1>5. CacheTypeOK'
  <2>1. outages' \in 0..MaxOutages
    BY Losses DEF BumpVersion, CacheInv, CacheTypeOK
  <2>2. QED
    BY <1>4, <2>1 DEF CacheInv, CacheTypeOK, BumpVersion, detailVars
<1>6. QED
  BY <1>3, <1>5 DEF CacheInv

LEMMA DiesStep ==
    ASSUME CacheInv, NEW w \in Writers, WriterDies(w)
    PROVE  CacheInv'
<1>1. CacheTypeOK'
  <2>1. outages' \in 0..MaxOutages
    BY Losses DEF WriterDies, CacheInv, CacheTypeOK
  <2>2. undeleted' \subseteq Editions /\ unbumped' \subseteq Editions
    BY DEF WriterDies, CacheInv, CacheTypeOK
  <2>3. dirty' \in [Writers -> Editions]
    BY Blanks DEF WriterDies, CacheInv, CacheTypeOK
  <2>4. QED
    BY <2>1, <2>2, <2>3 DEF CacheInv, CacheTypeOK, WriterDies
<1>2. CASE Raises(w)
  <2>1. ~Raises(w)' /\ \A x \in Writers : x # w => (Raises(x)' <=> Raises(x))
    BY DEF WriterDies, Raises, CacheInv, CacheTypeOK
  <2>2. version' \in {version, version + 1} /\ edition' = edition
    BY DEF WriterDies
  <2>3. RoomInv /\ version \in Nat /\ edition \in Nat
    BY Numbers DEF CacheInv
  <2>4. RoomInv'
    BY <1>2, <2>1, <2>2, <2>3, RoomFalls
  <2>5. QED
    BY <1>1, <2>4 DEF CacheInv
<1>3. CASE ~Raises(w)
  <2>1. \A x \in Writers : Raises(x)' <=> Raises(x)
    BY <1>3 DEF WriterDies, Raises, CacheInv, CacheTypeOK
  <2>2. version' = version /\ edition' = edition /\ RoomInv /\ version \in Nat /\ edition \in Nat
    BY Numbers DEF CacheInv, WriterDies
  <2>3. RoomInv'
    BY <2>1, <2>2, RoomSame
  <2>4. QED
    BY <1>1, <2>3 DEF CacheInv
<1>4. QED
  BY <1>2, <1>3

LEMMA RoomKept ==
    ASSUME CacheInv, writer' = writer, version' = version, edition' = edition
    PROVE  RoomInv'
<1>1. \A x \in Writers : Raises(x)' <=> Raises(x)
  BY DEF Raises
<1>2. QED
  BY <1>1, Numbers, RoomSame DEF CacheInv

LEMMA ReaderStep ==
    ASSUME CacheInv, NEW r \in Readers, Read(r) \/ FindRow(r) \/ Fill(r) \/ ReadEnds(r)
    PROVE  CacheInv'
<1>1. RoomInv'
  BY RoomKept DEF Read, FindRow, Fill, ReadEnds, listVars, writerVars
<1>2. reader[r] \in Reads /\ edition \in Editions /\ CacheTypeOK
  BY DEF CacheInv, CacheTypeOK
<1>3. CASE Read(r)
  <2>1. outages' \in 0..MaxOutages
    BY <1>2, <1>3, Losses DEF CacheTypeOK, Read
  <2>2. QED
    BY <1>1, <1>2, <1>3, <2>1, Blanks DEF CacheInv, CacheTypeOK, Read, detailVars, listVars, writerVars
<1>4. CASE FindRow(r)
  BY <1>1, <1>2, <1>4, OfReads DEF CacheInv, CacheTypeOK, FindRow, detailVars, listVars, writerVars
<1>5. CASE Fill(r)
  <2>1. Kept(reader[r].edition, reader[r].old) \in Details
    BY <1>2, OfKept
  <2>2. QED
    BY <1>1, <1>2, <1>5, <2>1, Blanks DEF CacheInv, CacheTypeOK, Fill, listVars, writerVars
<1>6. CASE ReadEnds(r)
  BY <1>1, <1>2, <1>6, Blanks DEF CacheInv, CacheTypeOK, ReadEnds, detailVars, listVars, writerVars
<1>7. QED
  BY <1>3, <1>4, <1>5, <1>6

LEMMA ListerStep ==
    ASSUME CacheInv, NEW l \in ListReaders, Listing(l) \/ ListEnds(l)
    PROVE  CacheInv'
<1>1. RoomInv'
  BY RoomKept DEF Listing, ReadVersion, Hit, Query, Keep, ListEnds, listVars, writerVars
<1>2. lister[l] \in Lookups /\ version \in Editions /\ listed \in Editions /\ CacheTypeOK
  BY DEF CacheInv, CacheTypeOK
<1>3. lister[l].version \in Editions /\ lister[l].edition \in Editions
  BY <1>2, OfLookups
<1>4. lists[lister[l].version] \in KeptLists /\ lists[lister[l].version].edition \in Editions
  BY <1>2, <1>3, OfLists DEF CacheTypeOK
<1>0. outages' \in 0..MaxOutages
  BY <1>2, Losses DEF CacheTypeOK, Listing, ReadVersion, Hit, Query, Keep, ListEnds
<1>5. CASE ReadVersion(l)
  <2>1. [at |-> "look", version |-> version, edition |-> 0] \in Lookups
        /\ [at |-> "look", version |-> 0, edition |-> 0] \in Lookups
    BY <1>2, Blanks, OfLookups
  <2>2. QED
    BY <1>0, <1>1, <1>2, <1>5, <2>1 DEF CacheInv, CacheTypeOK, ReadVersion, detailVars, listVars, writerVars
<1>6. CASE Hit(l)
  BY <1>1, <1>2, <1>4, <1>6, Blanks DEF CacheInv, CacheTypeOK, Hit, Uses, detailVars, listVars, writerVars
<1>7. CASE Query(l)
  <2>1. [lister[l] EXCEPT !.at = "keep", !.edition = listed] \in Lookups
    BY <1>2, OfLookups
  <2>2. QED
    BY <1>0, <1>1, <1>2, <1>7, <2>1 DEF CacheInv, CacheTypeOK, Query, detailVars, listVars, writerVars
<1>8. CASE Keep(l)
  <2>1. [edition |-> lister[l].edition, left |-> ListTTL] \in KeptLists
    BY <1>2, <1>3, <1>4, OfLists
  <2>2. /\ UNCHANGED <<edition, listed, detail, undeleted, recounted, version, unbumped, writer, dirty, reader>>
        /\ lister' = [lister EXCEPT ![l] = Waiting] /\ pool' \in {lister[l].edition, pool}
    BY <1>8 DEF Keep, Uses, detailVars, writerVars
  <2>3. lists' \in [Editions -> KeptLists]
    BY <1>2, <1>8, <2>1 DEF CacheTypeOK, Keep, KeyOf
  <2>4. QED
    BY <1>0, <1>1, <1>2, <1>3, <2>2, <2>3, Blanks DEF CacheInv, CacheTypeOK
<1>9. CASE ListEnds(l)
  BY <1>0, <1>1, <1>2, <1>9, Blanks DEF CacheInv, CacheTypeOK, ListEnds, detailVars, listVars, writerVars
<1>10. QED
  BY <1>5, <1>6, <1>7, <1>8, <1>9 DEF Listing

LEMMA TickStep ==
    ASSUME CacheInv, Tick
    PROVE  CacheInv'
<1>1. RoomInv'
  BY RoomKept DEF Tick, writerVars
<1>2. edition \in Editions /\ detail \in Details /\ CacheTypeOK
  BY DEF CacheInv, CacheTypeOK
<1>3. detail' \in Details
  BY <1>2, OlderDetail, Blanks DEF Tick
<1>4. ASSUME NEW v \in Editions PROVE Sooner(lists[v]) \in KeptLists
  BY <1>2, OfLists DEF CacheTypeOK
<1>5. lists' \in [Editions -> KeptLists]
  BY <1>4 DEF Tick
<1>6. ASSUME NEW r \in Readers
      PROVE  (CASE reader[r].at = "idle" -> reader[r]
                [] reader[r].at = "read" -> [reader[r] EXCEPT !.age = UpTo(@ + 1, Deadline + 1)]
                [] reader[r].at = "fill" -> [reader[r] EXCEPT !.age = UpTo(@ + 1, Deadline + 1), !.old = Older(reader[r])])
             \in Reads
  <2>1. reader[r] \in Reads
    BY <1>2 DEF CacheTypeOK
  <2>2. QED
    BY <1>2, <2>1, OlderReads
<1>7. reader' \in [Readers -> Reads]
  BY <1>6 DEF Tick
<1>8. QED
  BY <1>1, <1>2, <1>3, <1>5, <1>7 DEF Tick, CacheInv, CacheTypeOK, writerVars

(* The version never passes the number of writes. *)
LEMMA CacheInvStep == CacheInv /\ [CacheNext]_cacheVars => CacheInv'
<1> SUFFICES ASSUME CacheInv, [CacheNext]_cacheVars PROVE CacheInv'
  OBVIOUS
<1>1. CASE UNCHANGED cacheVars
  <2>1. RoomInv'
    BY <1>1, RoomKept DEF cacheVars, listVars, writerVars
  <2>2. QED
    BY <1>1, <2>1 DEF CacheInv, CacheTypeOK, cacheVars, detailVars, listVars, writerVars
<1>2. QED
  BY <1>1, WriteStep, DeleteDetailStep, BumpStep, DiesStep, RecountStep, ReaderStep, ListerStep, TickStep DEF CacheNext, Changing

LEMMA CacheInvariant == CacheSpec => []CacheInv
BY CacheInvInit, CacheInvStep, PTL DEF CacheSpec

(* Caches and requests hold values the code can write. *)
THEOREM CacheTypeCorrect == CacheSpec => []CacheTypeOK
<1>1. CacheInv => CacheTypeOK
  BY DEF CacheInv
<1>2. QED
  BY <1>1, CacheInvariant, PTL

-----------------------------------------------------------------------------
(* The age of a copy: it grows with the request that holds it, and with the entry it is kept in. *)
LEMMA OldInit == InitCache => OldInv
BY Constants DEF InitCache, OldInv, StaleIsBounded, Resting, NoDetail

LEMMA OldReads ==
    ASSUME CacheTypeOK, OldInv, NEW r \in Readers, Read(r) \/ FindRow(r) \/ Fill(r) \/ ReadEnds(r)
    PROVE  OldInv'
<1>1. ASSUME NEW x \in Readers
      PROVE  /\ reader[x] \in Reads /\ reader[x].age \in Nat /\ reader[x].old \in Nat
             /\ reader'[x] = IF x = r THEN reader'[r] ELSE reader[x]
  <2>1. reader[x] \in Reads
    BY DEF CacheTypeOK
  <2>2. reader'[x] = IF x = r THEN reader'[r] ELSE reader[x]
    BY DEF CacheTypeOK, Read, FindRow, Fill, ReadEnds
  <2>3. QED
    BY <2>1, <2>2, Constants DEF Reads
<1>2. /\ reader'[r].at = "read" => reader'[r].old = 0
      /\ reader'[r].at = "fill" /\ reader'[r].age <= Deadline => reader'[r].old <= reader'[r].age
  <2>1. CASE Read(r)
    BY <2>1 DEF Read, Resting, CacheTypeOK
  <2>2. CASE FindRow(r)
    <3>1. reader[r].old = 0 /\ reader[r].age \in Nat
      BY <1>1, <2>2 DEF FindRow, OldInv
    <3>2. reader'[r].old = reader[r].old /\ reader'[r].age = reader[r].age /\ reader'[r].at = "fill"
      BY <1>1, <2>2 DEF FindRow, CacheTypeOK, Reads
    <3>3. QED
      BY <3>1, <3>2, Constants
  <2>3. CASE Fill(r) \/ ReadEnds(r)
    <3>1. reader'[r] = Resting
      BY <2>3 DEF Fill, ReadEnds, CacheTypeOK
    <3>2. QED
      BY <3>1 DEF Resting
  <2>4. QED
    BY <2>1, <2>2, <2>3
<1>3. StaleIsBounded'
  <2>1. CASE Fill(r)
    <3>1. reader[r].old \in Nat /\ reader[r].age \in Nat /\ reader[r].age <= Deadline /\ reader[r].old <= reader[r].age
      BY <1>1, <2>1 DEF Fill, InTime, OldInv
    <3>2. detail'.old = reader[r].old /\ detail'.left = DetailTTL
      BY <2>1 DEF Fill, Kept
    <3>3. detail'.old + detail'.left <= Longest
      BY <3>1, <3>2, Constants
    <3>4. Longest' = Longest
      BY DEF Longest
    <3>5. QED
      BY <3>3, <3>4 DEF StaleIsBounded
  <2>2. CASE ~Fill(r)
    BY <2>2 DEF Read, FindRow, ReadEnds, detailVars, OldInv, StaleIsBounded, Longest
  <2>3. QED
    BY <2>1, <2>2
<1>4. QED
  BY <1>1, <1>2, <1>3 DEF OldInv

LEMMA OldTick ==
    ASSUME CacheTypeOK, OldInv, Tick
    PROVE  OldInv'
<1>0. Longest' = Longest
  BY DEF Longest
<1>1. StaleIsBounded'
  <2>1. CASE detail.left > 1
    <3>1. detail \in Details /\ edition \in Editions
      BY DEF CacheTypeOK
    <3>2. detail.left \in Nat /\ detail.old \in Nat
      BY <3>1, Constants DEF Details
    <3>3. detail.old + detail.left <= Longest
      BY <2>1, <3>2 DEF OldInv, StaleIsBounded
    <3>4. Older(detail) <= detail.old + 1 /\ Older(detail) \in Nat
      BY <3>2, Constants DEF Older, UpTo
    <3>5. detail' = [detail EXCEPT !.left = detail.left - 1, !.old = Older(detail)]
      BY <2>1 DEF Tick
    <3>6. detail'.left = detail.left - 1 /\ detail'.old = Older(detail)
      BY <3>1, <3>5 DEF Details
    <3>7. detail'.old + detail'.left <= Longest
      BY <3>2, <3>3, <3>4, <3>6, Constants
    <3>8. QED
      BY <1>0, <3>7 DEF StaleIsBounded
  <2>2. CASE ~(detail.left > 1)
    <3>1. detail' = NoDetail
      BY <2>2 DEF Tick
    <3>2. QED
      BY <3>1 DEF NoDetail, StaleIsBounded
  <2>3. QED
    BY <2>1, <2>2
<1>2. ASSUME NEW r \in Readers
      PROVE  /\ reader'[r].at = "read" => reader'[r].old = 0
             /\ reader'[r].at = "fill" /\ reader'[r].age <= Deadline => reader'[r].old <= reader'[r].age
  <2>1. reader[r] \in Reads /\ reader[r].at \in {"idle", "read", "fill"} /\ reader[r].age \in Nat /\ reader[r].old \in Nat
    <3>1. reader[r] \in Reads
      BY DEF CacheTypeOK
    <3>2. QED
      BY <3>1, Constants DEF Reads
  <2>2. CASE reader[r].at = "idle"
    BY <2>2 DEF Tick
  <2>3. CASE reader[r].at = "read"
    <3>1. reader'[r] = [reader[r] EXCEPT !.age = UpTo(reader[r].age + 1, Deadline + 1)]
      BY <2>3 DEF Tick
    <3>2. reader'[r].at = "read" /\ reader'[r].old = reader[r].old
      BY <2>1, <2>3, <3>1 DEF Reads
    <3>3. QED
      BY <2>3, <3>2 DEF OldInv
  <2>4. CASE reader[r].at = "fill"
    <3>1. reader'[r] = [reader[r] EXCEPT !.age = UpTo(reader[r].age + 1, Deadline + 1), !.old = Older(reader[r])]
      BY <2>4 DEF Tick
    <3>2. reader'[r].at = "fill" /\ reader'[r].old = Older(reader[r]) /\ reader'[r].age = UpTo(reader[r].age + 1, Deadline + 1)
      BY <2>1, <2>4, <3>1 DEF Reads
    <3>3. Older(reader[r]) <= reader[r].old + 1
      BY <2>1, Constants DEF Older, UpTo
    <3>4. Older(reader[r]) \in Nat
      BY <2>1, Constants DEF Older, UpTo
    <3>5. UpTo(reader[r].age + 1, Deadline + 1) <= Deadline => /\ UpTo(reader[r].age + 1, Deadline + 1) = reader[r].age + 1
                                                                /\ reader[r].age <= Deadline
      BY <2>1, Constants DEF UpTo
    <3>6. reader[r].age <= Deadline => reader[r].old <= reader[r].age
      BY <2>4 DEF OldInv
    <3>7. QED
      BY <2>1, <3>2, <3>3, <3>4, <3>5, <3>6
  <2>5. QED
    BY <2>1, <2>2, <2>3, <2>4
<1>3. QED
  BY <1>1, <1>2 DEF OldInv

LEMMA OldSame ==
    ASSUME OldInv, reader' = reader, detail' = detail \/ detail' = NoDetail
    PROVE  OldInv'
BY DEF OldInv, StaleIsBounded, Longest, NoDetail

(* A replaced detail is shown for the time of a request and of an entry at most: CacheRedis
   entries expire, and a fill comes within the request. *)
THEOREM CacheStaleIsBounded == CacheSpec => []StaleIsBounded
<1>1. CacheInv /\ OldInv /\ [CacheNext]_cacheVars => OldInv'
  <2> SUFFICES ASSUME CacheTypeOK, OldInv, [CacheNext]_cacheVars PROVE OldInv'
    BY DEF CacheInv
  <2>1. CASE UNCHANGED cacheVars
    BY <2>1, OldSame DEF cacheVars, detailVars
  <2>2. ASSUME NEW w \in Writers, Write(w) \/ Changing(w) \/ WriterDies(w) PROVE OldInv'
    BY <2>2, OldSame DEF Write, Changing, DeleteDetail, DropDetail, BumpVersion, WriterDies, detailVars
  <2>3. ASSUME NEW l \in ListReaders, Listing(l) \/ ListEnds(l) PROVE OldInv'
    BY <2>3, OldSame DEF Listing, ReadVersion, Hit, Query, Keep, ListEnds, detailVars, writerVars
  <2>4. CASE Recount
    BY <2>4, OldSame DEF Recount
  <2>5. QED
    BY <2>1, <2>2, <2>3, <2>4, OldReads, OldTick DEF CacheNext
<1>2. CacheSpec => []OldInv
  BY <1>1, OldInit, CacheInvariant, PTL DEF CacheSpec
<1>3. OldInv => StaleIsBounded
  BY DEF OldInv
<1>4. QED
  BY <1>2, <1>3, PTL

-----------------------------------------------------------------------------
(* A writer has a detail to delete only between its commit and the call that deletes it. *)
DirtyInv == \A w \in Writers : ~Wrote(w) => dirty[w] = 0

(* What the caches hold and the row. *)
DetailInv == DirtyInv /\ DetailFollowsWrites
FollowInv == DetailInv /\ ListInv

LEMMA FollowInit == InitCache => FollowInv
<1> SUFFICES ASSUME InitCache PROVE FollowInv
  OBVIOUS
<1>1. detail.left = 0 /\ version = 0 /\ (\A v \in Editions : lists[v].left = 0)
  BY DEF InitCache, NoDetail, NoList
<1>2. \A l \in ListReaders : lister[l].at = "idle" /\ lister[l].version = 0
  BY DEF InitCache, Waiting
<1>3. lists[version].left = 0
  BY <1>1, Blanks
<1>4. DetailFollowsWrites /\ ListsFollowWrites /\ DirtyInv
  BY <1>1, <1>3 DEF InitCache, DetailFollowsWrites, Lacks, ListsFollowWrites, DirtyInv
<1>5. QED
  BY <1>1, <1>2, <1>4 DEF FollowInv, DetailInv, ListInv

LEMMA Follows == ListsFollowWrites <=> (lists[version].left > 0 /\ lists[version].edition # listed => Unraised)
BY DEF ListsFollowWrites, Unraised, Raises

LEMMA FollowsNow == ListsFollowWrites' <=> (lists[version].left > 0 /\ lists[version].edition # listed => Unraised)'
BY DEF ListsFollowWrites, Unraised, Raises

(* Who accounts for a write that the detail lacks. *)
Accounted(e) == e <= detail.filled \/ (\E w \in Writers : dirty[w] = e) \/ e \in undeleted \union recounted

LEMMA Accounts == DetailFollowsWrites <=> \A e \in Editions : Lacks(e) => Accounted(e)
BY DEF DetailFollowsWrites, Accounted

LEMMA AccountsNow == DetailFollowsWrites' <=> \A e \in Editions : Lacks(e)' => Accounted(e)'
BY DEF DetailFollowsWrites, Accounted, Editions

(* A write that the detail of now lacks was lacking before, and is accounted for as before; or
   it is new, and accounted for. *)
LEMMA DetailKept ==
    ASSUME DetailFollowsWrites, \A e \in Editions : Lacks(e)' => (Lacks(e) /\ (Accounted(e) => Accounted(e)')) \/ Accounted(e)'
    PROVE  DetailFollowsWrites'
BY Accounts, AccountsNow

LEMMA PositiveEditions ==
    ASSUME CacheTypeOK, NEW e \in Editions, Lacks(e)
    PROVE  e # 0
<1>1. detail \in Details
  BY DEF CacheTypeOK
<1>2. detail.edition \in Nat /\ e \in Nat
  BY <1>1, Constants DEF Details, Editions
<1>3. QED
  BY <1>2 DEF Lacks

(* A writer whose detail is deleted, or will not be, has nothing to delete any more. *)
LEMMA DirtyEnds ==
    ASSUME CacheTypeOK, DirtyInv, NEW w \in Writers, dirty' = [dirty EXCEPT ![w] = 0],
           \A x \in Writers : x # w => writer'[x] = writer[x]
    PROVE  DirtyInv'
BY DEF CacheTypeOK, DirtyInv, Wrote

LEMMA DetailOfWriters ==
    ASSUME CacheTypeOK, DetailInv, NEW w \in Writers, Write(w) \/ Changing(w) \/ WriterDies(w)
    PROVE  DetailInv'
<1>1. /\ writer \in [Writers -> {"idle", "wrote post", "wrote counter", "bump"}] /\ dirty \in [Writers -> Editions]
      /\ edition \in Nat /\ DirtyInv /\ DetailFollowsWrites
  BY Numbers DEF CacheTypeOK, DetailInv
<1>2. CASE Write(w)
  <2>1. /\ dirty' = [dirty EXCEPT ![w] = edition + 1] /\ edition' = edition + 1
        /\ UNCHANGED <<detail, undeleted, recounted>> /\ writer[w] = "idle"
    BY <1>2 DEF Write, detailVars
  <2>2. DirtyInv'
    <3>1. Wrote(w)' /\ \A x \in Writers : x # w => (Wrote(x)' <=> Wrote(x)) /\ dirty'[x] = dirty[x]
      BY <1>1, <1>2 DEF Write, Wrote
    <3>2. QED
      BY <1>1, <3>1 DEF DirtyInv
  <2>3. ASSUME NEW e \in Editions, Lacks(e)'
        PROVE  (Lacks(e) /\ (Accounted(e) => Accounted(e)')) \/ Accounted(e)'
    <3>1. CASE e = edition + 1
      <4>1. dirty'[w] = e
        BY <1>1, <2>1, <3>1
      <4>2. QED
        BY <4>1 DEF Accounted
    <3>2. CASE e # edition + 1
      <4>1. e \in Nat
        BY Constants DEF Editions
      <4>2. detail.left > 0 /\ detail.edition < e /\ e <= edition + 1
        BY <2>1, <2>3 DEF Lacks
      <4>3. Lacks(e)
        <5>1. edition \in Nat
          BY <1>1
        <5>2. e <= edition
          BY <3>2, <4>1, <4>2, <5>1
        <5>3. QED
          BY <4>2, <5>2 DEF Lacks
      <4>4. e # 0 /\ dirty[w] = 0
        BY <1>1, <2>1, <4>3, PositiveEditions DEF DirtyInv, Wrote
      <4>5. \A x \in Writers : dirty[x] = e => dirty'[x] = e
        BY <1>1, <2>1, <4>4
      <4>6. Accounted(e) => Accounted(e)'
        BY <2>1, <4>5 DEF Accounted
      <4>7. QED
        BY <4>3, <4>6
    <3>3. QED
      BY <3>1, <3>2
  <2>4. QED
    BY <1>1, <2>2, <2>3, DetailKept DEF DetailInv
<1>3. CASE DeleteDetail(w) \/ WriterDies(w)
  <2>1. DirtyInv'
    BY <1>1, <1>3, DirtyEnds DEF DeleteDetail, WriterDies
  <2>2. CASE detail' = NoDetail
    BY <2>1, <2>2, AccountsNow DEF DetailInv, NoDetail, Lacks
  <2>3. CASE detail' # NoDetail
    <3>1. /\ dirty' = [dirty EXCEPT ![w] = 0] /\ UNCHANGED <<edition, detail, recounted>>
          /\ undeleted \subseteq undeleted' /\ (Wrote(w) => dirty[w] \in undeleted')
      BY <1>3, <2>3 DEF DeleteDetail, DropDetail, WriterDies
    <3>2. ASSUME NEW e \in Editions, Lacks(e)'
          PROVE  Lacks(e) /\ (Accounted(e) => Accounted(e)')
      <4>1. Lacks(e)
        BY <3>1, <3>2 DEF Lacks
      <4>2. dirty[w] = e => e \in undeleted'
        BY <1>1, <3>1, <4>1, PositiveEditions DEF DirtyInv
      <4>3. \A x \in Writers : x # w => dirty'[x] = dirty[x]
        BY <1>1, <3>1
      <4>4. QED
        BY <3>1, <4>1, <4>2, <4>3 DEF Accounted
    <3>3. QED
      BY <1>1, <2>1, <3>2, DetailKept DEF DetailInv
  <2>4. QED
    BY <2>2, <2>3
<1>4. CASE BumpVersion(w)
  <2>1. UNCHANGED <<edition, detail, undeleted, recounted, dirty>> /\ \A x \in Writers : Wrote(x) => Wrote(x)'
    BY <1>1, <1>4 DEF BumpVersion, Wrote, detailVars
  <2>2. DirtyInv'
    BY <1>1, <1>4, <2>1 DEF BumpVersion, DirtyInv, Wrote
  <2>3. DetailFollowsWrites'
    BY <1>1, <2>1, DetailKept DEF Lacks, Accounted
  <2>4. QED
    BY <2>2, <2>3 DEF DetailInv
<1>5. QED
  BY <1>2, <1>3, <1>4 DEF Changing

(* A recount accounts for itself, since nobody deletes the detail on its behalf. *)
LEMMA DetailOfRecount ==
    ASSUME CacheTypeOK, DetailInv, Recount
    PROVE  DetailInv'
<1>1. /\ UNCHANGED <<detail, undeleted, writer, dirty>> /\ edition' = edition + 1
      /\ recounted' = recounted \union {edition + 1} /\ edition \in Nat
  BY Numbers DEF Recount, writerVars
<1>2. ASSUME NEW e \in Editions, Lacks(e)'
      PROVE  (Lacks(e) /\ (Accounted(e) => Accounted(e)')) \/ Accounted(e)'
  <2>1. e \in Nat /\ detail.left > 0 /\ detail.edition < e /\ e <= edition + 1
    BY <1>1, <1>2, Constants DEF Lacks, Editions
  <2>2. Accounted(e) => Accounted(e)'
    BY <1>1 DEF Accounted
  <2>3. e = edition + 1 => Accounted(e)'
    BY <1>1 DEF Accounted
  <2>4. e # edition + 1 => Lacks(e)
    BY <1>1, <2>1 DEF Lacks
  <2>5. QED
    BY <2>2, <2>3, <2>4
<1>3. DirtyInv'
  BY <1>1 DEF DetailInv, DirtyInv, Wrote
<1>4. QED
  BY <1>2, <1>3, DetailKept DEF DetailInv

LEMMA DetailOfTick ==
    ASSUME CacheTypeOK, DetailInv, Tick
    PROVE  DetailInv'
<1>1. UNCHANGED <<edition, undeleted, recounted, writer, dirty>>
  BY DEF Tick, writerVars
<1>2. DirtyInv'
  BY <1>1 DEF DetailInv, DirtyInv, Wrote
<1>3. CASE detail.left > 1
  <2>1. detail' = [detail EXCEPT !.left = detail.left - 1, !.old = Older(detail)] /\ detail \in Details
    BY <1>3 DEF Tick, CacheTypeOK
  <2>2. detail'.edition = detail.edition /\ detail'.filled = detail.filled /\ detail.left \in Nat
    BY <2>1, Constants DEF Details
  <2>3. ASSUME NEW e \in Editions, Lacks(e)' PROVE Lacks(e) /\ (Accounted(e) => Accounted(e)')
    BY <1>1, <1>3, <2>2, <2>3 DEF Lacks, Accounted
  <2>4. QED
    BY <1>2, <2>3, DetailKept DEF DetailInv
<1>4. CASE ~(detail.left > 1)
  <2>1. detail' = NoDetail
    BY <1>4 DEF Tick
  <2>2. QED
    BY <1>2, <2>1, AccountsNow DEF DetailInv, Lacks, NoDetail
<1>5. QED
  BY <1>3, <1>4

(* A fill shows all it lacks as written before it. *)
LEMMA DetailOfFill ==
    ASSUME DetailInv, NEW r \in Readers, Fill(r)
    PROVE  DetailInv'
<1>1. detail'.filled = edition /\ edition' = edition /\ writer' = writer /\ dirty' = dirty
  BY DEF Fill, Kept, writerVars
<1>2. DirtyInv'
  BY <1>1 DEF DetailInv, DirtyInv, Wrote
<1>3. ASSUME NEW e \in Editions, Lacks(e)' PROVE Accounted(e)'
  BY <1>1, <1>3 DEF Lacks, Accounted
<1>4. QED
  BY <1>2, <1>3, AccountsNow DEF DetailInv

(* The writers and the lists: a write to the post lasts until its version is raised. *)
LEMMA ListsOfWriters ==
    ASSUME CacheInv, ListInv, NEW w \in Writers, Write(w) \/ Changing(w) \/ WriterDies(w)
    PROVE  ListInv'
<1>0. version \in Nat
  BY Numbers DEF CacheInv
<1>1. /\ writer \in [Writers -> {"idle", "wrote post", "wrote counter", "bump"}]
      /\ version \in Nat /\ edition \in Editions /\ Editions' = Editions /\ ListReaders' = ListReaders
  BY Numbers DEF CacheInv, CacheTypeOK, Editions, ListReaders
<1>2. ASSUME NEW l \in ListReaders PROVE lister[l].version \in Nat
  <2>1. lister[l] \in Lookups
    BY DEF CacheInv, CacheTypeOK
  <2>2. lister[l].version \in Editions
    BY <2>1 DEF Lookups
  <2>3. QED
    BY <2>2, Constants DEF Editions
<1>3. lister' = lister /\ lists' = lists
  BY DEF Write, Changing, DeleteDetail, BumpVersion, WriterDies, listVars
<1>4. CASE version' = version /\ Unraised'
  BY <1>1, <1>3, <1>4, FollowsNow DEF ListInv
<1>5. CASE version' = version /\ listed' = listed /\ (Unraised => Unraised')
  BY <1>1, <1>3, <1>5, Follows, FollowsNow DEF ListInv
<1>6. CASE version' = version + 1 /\ version + 1 \in Editions
  <2>1. lists'[version'].left = 0
    <3>1. version + 1 > version
      BY <1>0
    <3>2. QED
      BY <1>3, <1>6, <3>1 DEF ListInv
  <2>2. ASSUME NEW l \in ListReaders PROVE lister'[l].version <= version' /\ lister'[l].version # version'
    <3>1. lister[l].version \in Nat /\ lister[l].version <= version
      BY <1>2 DEF ListInv
    <3>2. QED
      BY <1>0, <1>3, <1>6, <3>1
  <2>3. ASSUME NEW v \in Editions, v > version' PROVE lists'[v].left = 0
    <3>1. v \in Nat
      BY Constants DEF Editions
    <3>2. v > version
      BY <1>0, <1>6, <2>3, <3>1
    <3>3. QED
      BY <1>3, <3>2 DEF ListInv
  <2>4. ListsFollowWrites'
    BY <2>1, FollowsNow
  <2>5. QED
    BY <1>1, <2>2, <2>3, <2>4 DEF ListInv
<1>7. CASE Write(w)
  <2>1. version' = version /\ unbumped' = unbumped
    BY <1>7 DEF Write, listVars
  <2>2. CASE writer'[w] = "wrote post"
    BY <1>4, <2>1, <2>2 DEF Unraised, Raises
  <2>3. CASE writer'[w] # "wrote post"
    <3>1. listed' = listed /\ \A x \in Writers : Raises(x) => Raises(x)'
      BY <1>1, <1>7, <2>3 DEF Write, Raises
    <3>2. QED
      BY <1>5, <2>1, <3>1 DEF Unraised
  <2>4. QED
    BY <2>2, <2>3
<1>8. CASE DeleteDetail(w)
  <2>1. version' = version /\ unbumped' = unbumped /\ listed' = listed
    BY <1>8 DEF DeleteDetail, listVars
  <2>2. \A x \in Writers : Raises(x) => Raises(x)'
    BY <1>1, <1>8 DEF DeleteDetail, AfterDel, Wrote, Raises
  <2>3. QED
    BY <1>5, <2>1, <2>2 DEF Unraised
<1>9. CASE BumpVersion(w)
  <2>1. CASE version' = version + 1
    <3>1. Raises(w) /\ ~Raises(w)' /\ \A x \in Writers : x # w => (Raises(x)' <=> Raises(x))
      BY <1>1, <1>9 DEF BumpVersion, Raises
    <3>2. edition' = edition /\ RoomInv /\ edition \in Nat
      BY <1>9, Numbers DEF BumpVersion, CacheInv
    <3>3. version + 1 <= edition
      BY <1>1, <2>1, <3>1, <3>2, RoomFalls
    <3>4. version + 1 \in Editions
      <4>1. edition \in Editions /\ version \in Nat
        BY <1>1
      <4>2. QED
        BY <3>3, <4>1, Constants DEF Editions
    <3>5. QED
      BY <1>6, <2>1, <3>4
  <2>2. CASE version' # version + 1
    BY <1>4, <1>9, <2>2 DEF BumpVersion, Unraised
  <2>3. QED
    BY <2>1, <2>2
<1>10. CASE WriterDies(w)
  <2>1. CASE writer[w] = "wrote counter"
    <3>1. version' = version /\ unbumped' = unbumped /\ listed' = listed /\ \A x \in Writers : Raises(x) => Raises(x)'
      BY <1>1, <1>10, <2>1 DEF WriterDies, Raises
    <3>2. QED
      BY <1>5, <3>1 DEF Unraised
  <2>2. CASE writer[w] # "wrote counter"
    BY <1>4, <1>10, <2>2 DEF WriterDies, Unraised
  <2>3. QED
    BY <2>1, <2>2
<1>11. QED
  BY <1>7, <1>8, <1>9, <1>10 DEF Changing

LEMMA ListsOfReaders ==
    ASSUME CacheInv, ListInv, NEW l \in ListReaders, Listing(l) \/ ListEnds(l)
    PROVE  ListInv'
<1>1. /\ lister \in [ListReaders -> Lookups] /\ lists \in [Editions -> KeptLists] /\ version \in Nat
      /\ Editions' = Editions /\ ListReaders' = ListReaders
  BY Numbers DEF CacheInv, CacheTypeOK, Editions, ListReaders
<1>2. version' = version /\ listed' = listed /\ (Unraised' <=> Unraised)
  BY DEF Listing, ReadVersion, Hit, Query, Keep, ListEnds, listVars, writerVars, Unraised, Raises
<1>3. \A x \in ListReaders : x # l => lister'[x] = lister[x]
  BY <1>1 DEF Listing, ReadVersion, Hit, Query, Keep, ListEnds
<1>4. /\ lister'[l].version <= version
      /\ lister'[l].at = "keep" => lister'[l].edition = listed
  <2>1. CASE ReadVersion(l)
    BY <1>1, <2>1 DEF ReadVersion
  <2>2. CASE Query(l)
    <3>1. lister'[l] = [lister[l] EXCEPT !.at = "keep", !.edition = listed] /\ lister[l] \in Lookups
      BY <1>1, <2>2 DEF Query
    <3>2. lister'[l].version = lister[l].version /\ lister'[l].edition = listed
      BY <3>1 DEF Lookups
    <3>3. QED
      BY <3>2 DEF ListInv
  <2>3. CASE Hit(l) \/ Keep(l) \/ ListEnds(l)
    <3>1. lister'[l] = Waiting
      BY <1>1, <2>3 DEF Hit, Keep, ListEnds
    <3>2. QED
      BY <1>1, <3>1 DEF Waiting
  <2>4. QED
    BY <2>1, <2>2, <2>3 DEF Listing
<1>5. CASE lists' = lists
  BY <1>1, <1>2, <1>3, <1>4, <1>5, Follows, FollowsNow DEF ListInv
<1>6. CASE lists' # lists
  <2>1. /\ lister[l].at = "keep"
        /\ lists' = [lists EXCEPT ![lister[l].version] = [edition |-> lister[l].edition, left |-> ListTTL]]
    BY <1>6 DEF Listing, ReadVersion, Hit, Query, Keep, KeyOf, ListEnds, listVars
  <2>2. \A v \in Editions : v # lister[l].version => lists'[v] = lists[v]
    BY <1>1, <2>1
  <2>3. lister[l].version \in Editions /\ lister[l].version <= version
    BY <1>1 DEF Lookups, ListInv
  <2>4. lists'[lister[l].version].edition = lister[l].edition
    BY <1>1, <2>1, <2>3
  <2>5. \A v \in Editions : v > version => v # lister[l].version
    <3>1. \A v \in Editions : v \in Nat
      BY Constants DEF Editions
    <3>2. QED
      BY <1>1, <2>3, <3>1
  <2>6. \A v \in Editions : v > version => lists'[v].left = 0
    BY <2>2, <2>5 DEF ListInv
  <2>7. version \in Editions
    BY DEF CacheInv, CacheTypeOK
  <2>8. lists'[version].left > 0 /\ lists'[version].edition # listed => Unraised
    <3>1. CASE lister[l].version = version
      BY <2>1, <2>4, <3>1 DEF ListInv
    <3>2. CASE lister[l].version # version
      BY <2>2, <2>7, <3>2, Follows DEF ListInv
    <3>3. QED
      BY <3>1, <3>2
  <2>9. ListsFollowWrites'
    BY <1>2, <2>8, FollowsNow
  <2>10. QED
    BY <1>1, <1>2, <1>3, <1>4, <2>6, <2>9 DEF ListInv
<1>7. QED
  BY <1>5, <1>6

LEMMA ListsOfTick ==
    ASSUME CacheInv, ListInv, Tick
    PROVE  ListInv'
<1>1. /\ lister' = lister /\ version' = version /\ listed' = listed /\ (Unraised' <=> Unraised)
      /\ Editions' = Editions /\ ListReaders' = ListReaders
  BY DEF Tick, writerVars, Unraised, Raises, Editions, ListReaders
<1>2. ASSUME NEW v \in Editions
      PROVE  lists'[v].left > 0 => lists[v].left > 0 /\ lists'[v].edition = lists[v].edition
  <2>1. lists'[v] = Sooner(lists[v]) /\ lists[v] \in KeptLists
    BY DEF Tick, CacheInv, CacheTypeOK
  <2>2. lists[v].left \in Nat
    BY <2>1, Constants DEF KeptLists
  <2>3. CASE lists[v].left > 1
    <3>1. lists'[v] = [lists[v] EXCEPT !.left = lists[v].left - 1]
      BY <2>1, <2>3 DEF Sooner
    <3>2. lists'[v].edition = lists[v].edition
      BY <2>1, <3>1 DEF KeptLists
    <3>3. QED
      BY <2>2, <2>3, <3>2
  <2>4. CASE ~(lists[v].left > 1)
    BY <2>1, <2>4 DEF Sooner, NoList
  <2>5. QED
    BY <2>3, <2>4
<1>3. ASSUME NEW v \in Editions, lists[v].left = 0 PROVE lists'[v].left = 0
  <2>1. lists'[v] = Sooner(lists[v])
    BY DEF Tick
  <2>2. QED
    BY <1>3, <2>1 DEF Sooner, NoList
<1>4. version \in Editions
  BY DEF CacheInv, CacheTypeOK
<1>5. ListsFollowWrites'
  BY <1>1, <1>2, <1>4, Follows, FollowsNow DEF ListInv
<1>6. QED
  BY <1>1, <1>3, <1>5 DEF ListInv

LEMMA DetailSame ==
    ASSUME DetailInv, UNCHANGED <<edition, detailVars, writerVars>>
    PROVE  DetailInv'
<1>1. DirtyInv'
  BY DEF DetailInv, DirtyInv, Wrote, writerVars
<1>2. DetailFollowsWrites'
  BY Accounts, AccountsNow DEF DetailInv, Lacks, Accounted, detailVars, writerVars
<1>3. QED
  BY <1>1, <1>2 DEF DetailInv

LEMMA ListsSame ==
    ASSUME ListInv, UNCHANGED <<listed, listVars, writerVars, lister>>
    PROVE  ListInv'
BY DEF ListInv, ListsFollowWrites, Unraised, Raises, listVars, writerVars, Editions, ListReaders

(* Every write that the cached detail lacks came between the read and the fill, or is by a writer
   that has yet to call invalidatePostReadCaches, has failed to, or is ReconcileCampusStats, which
   never does.  The list of the version of now shows the last write to the post, except while its
   writer is between the commit and the version, and after a version that failed to be raised. *)
THEOREM CacheFollowsWrites == CacheSpec => []CachesFollowWrites
<1>1. CacheInv /\ FollowInv /\ [CacheNext]_cacheVars => FollowInv'
  <2> SUFFICES ASSUME CacheInv, CacheTypeOK, DetailInv, ListInv, [CacheNext]_cacheVars
               PROVE  DetailInv' /\ ListInv'
    BY DEF CacheInv, FollowInv
  <2>1. CASE UNCHANGED cacheVars
    BY <2>1, DetailSame, ListsSame DEF cacheVars
  <2>2. ASSUME NEW w \in Writers, Write(w) \/ Changing(w) \/ WriterDies(w) PROVE DetailInv' /\ ListInv'
    BY <2>2, DetailOfWriters, ListsOfWriters
  <2>3. ASSUME NEW r \in Readers, Read(r) \/ FindRow(r) \/ Fill(r) \/ ReadEnds(r)
        PROVE  DetailInv' /\ ListInv'
    <3>1. ListInv'
      BY <2>3, ListsSame DEF Read, FindRow, Fill, ReadEnds
    <3>2. DetailInv'
      BY <2>3, DetailOfFill, DetailSame DEF Read, FindRow, ReadEnds
    <3>3. QED
      BY <3>1, <3>2
  <2>4. ASSUME NEW l \in ListReaders, Listing(l) \/ ListEnds(l) PROVE DetailInv' /\ ListInv'
    <3>1. DetailInv'
      BY <2>4, DetailSame DEF Listing, ReadVersion, Hit, Query, Keep, ListEnds
    <3>2. QED
      BY <2>4, <3>1, ListsOfReaders
  <2>5. CASE Recount
    <3>1. ListInv'
      BY <2>5, ListsSame DEF Recount
    <3>2. QED
      BY <2>5, <3>1, DetailOfRecount
  <2>6. QED
    BY <2>1, <2>2, <2>3, <2>4, <2>5, DetailOfTick, ListsOfTick DEF CacheNext
<1>2. CacheSpec => []FollowInv
  BY <1>1, FollowInit, CacheInvariant, PTL DEF CacheSpec
<1>3. FollowInv => CachesFollowWrites
  BY DEF FollowInv, DetailInv, ListInv, CachesFollowWrites
<1>4. QED
  BY <1>2, <1>3, PTL

-----------------------------------------------------------------------------
(* The batch of events and the stop of the task server. *)
LEMMA BatchInit == InitTasks => BufferIsTimed
BY DEF InitTasks, BufferIsTimed

(* Add: the first event arms the timer, the last that fits is written with all; whoever takes the
   batch takes all of it. *)
THEOREM BatchesAreTimed == TasksSpec => []BufferIsTimed
<1>1. BufferIsTimed /\ [TasksNext]_taskVars => BufferIsTimed'
  <2> SUFFICES ASSUME BufferIsTimed, [TasksNext]_taskVars PROVE BufferIsTimed'
    OBVIOUS
  <2>1. ASSUME NEW r \in Requests, NEW e \in Events, Add(r, e) PROVE BufferIsTimed'
    <3>1. CASE stopped
      BY <2>1, <3>1 DEF Add, BufferIsTimed, Full
    <3>2. CASE ~stopped /\ Full(buffer \union {e})
      BY <2>1, <3>2 DEF Add, Take, BufferIsTimed
    <3>3. CASE ~stopped /\ ~Full(buffer \union {e})
      <4>1. buffer' = buffer \union {e} /\ timer' = Armed
        BY <2>1, <3>3 DEF Add
      <4>2. ~Full(buffer)'
        BY <3>3, <4>1 DEF Full
      <4>3. Armed # "off"
        BY DEF Armed, BufferIsTimed
      <4>4. QED
        BY <4>1, <4>2, <4>3 DEF BufferIsTimed
    <3>4. QED
      BY <3>1, <3>2, <3>3
  <2>2. CASE TimerFires
    BY <2>2 DEF TimerFires, BufferIsTimed, Full
  <2>3. CASE TimerFlush \/ LoopFlush \/ JobsAwaited
    BY <2>3 DEF TimerFlush, LoopFlush, JobsAwaited, StopBatch, Take, BufferIsTimed
  <2>4. CASE UNCHANGED batchVars
    BY <2>4 DEF batchVars, BufferIsTimed, Full
  <2>5. QED
    BY <2>1, <2>2, <2>3, <2>4
       DEF TasksNext, Flushing, Stopping, Persist, PersistFails, PersistsTwice, StartJob, EndJob, LoopGoesOn, Signal, LoopEnds,
           CloseHTTP, LoopAwaited, BatchStopped, Exit, StopTimesOut, taskVars
<1>2. QED
  BY <1>1, BatchInit, PTL DEF TasksSpec

(* Stop goes on in the order of its waits, and what it has waited for does not come back: a loop
   that has ended starts no job, and a batch that is stopped takes no event. *)
StopInv ==
    /\ phase \in {"jobs", "batch"} => loop = "ended"
    /\ phase \in {"batch", "stopped"} /\ ~timedOut =>
           running = {} /\ loop = "ended" /\ buffer = {} /\ stopped
    /\ exited => phase = "stopped"

LEMMA StopInit == InitTasks => StopInv
BY DEF InitTasks, StopInv

(* Stop of the task server: it waits for the loop, then for the jobs, then takes the batch and
   closes it, although requests go on until the HTTP server has stopped. *)
THEOREM StopsAreClean == TasksSpec => []ShutdownIsClean
<1>1. StopInv /\ [TasksNext]_taskVars => StopInv'
  <2> SUFFICES ASSUME StopInv, [TasksNext]_taskVars PROVE StopInv'
    OBVIOUS
  <2>1. ASSUME NEW r \in Requests, NEW e \in Events, Add(r, e) PROVE StopInv'
    BY <2>1 DEF Add, Take, StopInv, serverVars
  <2>2. ASSUME NEW f \in Flushers, Persist(f) \/ PersistFails(f) \/ PersistsTwice(f) PROVE StopInv'
    BY <2>2 DEF Persist, PersistFails, PersistsTwice, StopInv, serverVars, batchVars
  <2>3. ASSUME NEW j \in Jobs, StartJob(j) \/ EndJob(j) PROVE StopInv'
    BY <2>3 DEF StartJob, EndJob, StopInv, batchVars
  <2>4. CASE Flushing
    BY <2>4 DEF Flushing, TimerFires, TimerFlush, LoopFlush, LoopGoesOn, Take, StopInv, serverVars, batchVars
  <2>5. CASE Signal \/ LoopEnds \/ StopTimesOut
    BY <2>5 DEF Signal, LoopEnds, StopTimesOut, Up, StopInv, batchVars
  <2>6. CASE Stopping
    BY <2>6 DEF Stopping, CloseHTTP, LoopAwaited, LoopIsDone, JobsAwaited, StopBatch, BatchStopped, Exit, Take, Up,
                StopInv, batchVars
  <2>7. CASE UNCHANGED taskVars
    BY <2>7 DEF taskVars, batchVars, serverVars, StopInv
  <2>8. QED
    BY <2>1, <2>2, <2>3, <2>4, <2>5, <2>6, <2>7 DEF TasksNext
<1>2. StopInv => ShutdownIsClean
  BY DEF StopInv, ShutdownIsClean
<1>3. QED
  BY <1>1, <1>2, StopInit, PTL DEF TasksSpec

(* The events of the model come in once; where they are, they are events. *)
LEMMA TasksInit == InitTasks => TasksTypeOK
<1> SUFFICES ASSUME InitTasks PROVE TasksTypeOK
  OBVIOUS
<1>1. taken \in [Flushers -> SUBSET Events] /\ cuts \in 0..MaxCuts
  BY TaskServerAssumption DEF InitTasks
<1>2. QED
  BY <1>1 DEF InitTasks, TasksTypeOK

LEMMA TasksStep == TasksTypeOK /\ [TasksNext]_taskVars => TasksTypeOK'
<1> SUFFICES ASSUME TasksTypeOK, [TasksNext]_taskVars PROVE TasksTypeOK'
  OBVIOUS
<1> USE TaskServerAssumption DEF TasksTypeOK
<1>0. Requests \subseteq Flushers /\ {Timer, Loop, Stopper} \subseteq Flushers
  BY DEF Flushers
<1>1. ASSUME NEW r \in Requests, NEW e \in Events, Add(r, e) PROVE TasksTypeOK'
  <2>1. UNCHANGED <<stopped, stored, twice, lost, phase, loop, running, http, exited, timedOut, cuts>>
    BY <1>1 DEF Add, serverVars
  <2>2. buffer' \subseteq Events /\ timer' \in {"off", "armed", "fired"} /\ taken' \in [Flushers -> SUBSET Events]
    BY <1>0, <1>1 DEF Add, Take, Armed
  <2>3. QED
    BY <2>1, <2>2
<1>2. ASSUME NEW f \in Flushers, Persist(f) PROVE TasksTypeOK'
  BY <1>2 DEF Persist, batchVars, serverVars
<1>3. ASSUME NEW f \in Flushers, PersistFails(f) PROVE TasksTypeOK'
  <2>1. taken[f] \subseteq Events
    OBVIOUS
  <2>2. stored' \subseteq Events /\ lost' \subseteq Events
    BY <1>3, <2>1 DEF PersistFails
  <2>3. cuts' \in 0..MaxCuts
    BY <1>3 DEF PersistFails, Cut
  <2>4. QED
    BY <1>3, <2>2, <2>3 DEF PersistFails, batchVars, serverVars
<1>4. ASSUME NEW j \in Jobs, StartJob(j) \/ EndJob(j) PROVE TasksTypeOK'
  BY <1>4 DEF StartJob, EndJob, batchVars, eventVars
<1>5. CASE Flushing
  <2>1. CASE TimerFires \/ LoopGoesOn
    BY <2>1 DEF TimerFires, LoopGoesOn, serverVars, batchVars, eventVars
  <2>2. CASE TimerFlush
    BY <1>0, <2>2 DEF TimerFlush, Take, serverVars
  <2>3. CASE LoopFlush
    BY <1>0, <2>3 DEF LoopFlush, Take
  <2>4. QED
    BY <1>5, <2>1, <2>2, <2>3 DEF Flushing
<1>6. CASE Signal \/ LoopEnds \/ StopTimesOut
  <2>1. CASE Signal \/ LoopEnds
    BY <2>1 DEF Signal, LoopEnds, batchVars, eventVars
  <2>2. CASE StopTimesOut
    BY <2>2 DEF StopTimesOut, Cut, batchVars, eventVars
  <2>3. QED
    BY <1>6, <2>1, <2>2
<1>7. CASE CloseHTTP \/ LoopAwaited \/ JobsAwaited \/ BatchStopped
  BY <1>0, <1>7 DEF CloseHTTP, LoopAwaited, JobsAwaited, StopBatch, BatchStopped, Take, batchVars, eventVars
<1>8. CASE Exit
  <2>1. taken[Timer] \subseteq Events /\ taken[Loop] \subseteq Events
    BY <1>0
  <2>2. QED
    BY <1>8, <2>1 DEF Exit, batchVars
<1>9. CASE UNCHANGED taskVars
  BY <1>9 DEF taskVars, batchVars, eventVars, serverVars
<1>10. ASSUME NEW f \in Flushers, PersistsTwice(f) PROVE TasksTypeOK'
  <2>1. taken[f] \subseteq Events
    OBVIOUS
  <2>2. stored' \subseteq Events /\ twice' \subseteq Events
    BY <1>10, <2>1 DEF PersistsTwice
  <2>3. cuts' \in 0..MaxCuts
    BY <1>10 DEF PersistsTwice, Cut
  <2>4. QED
    BY <1>10, <2>2, <2>3 DEF PersistsTwice, batchVars, serverVars
<1>11. QED
  BY <1>1, <1>2, <1>3, <1>4, <1>5, <1>6, <1>7, <1>8, <1>9, <1>10 DEF TasksNext, Stopping

(* The batch and the task server, for every set of requests, events and jobs: every step keeps
   the values the code can give them. *)
THEOREM TasksTypeCorrect == TasksSpec => []TasksTypeOK
BY TasksInit, TasksStep, PTL DEF TasksSpec

(* An event is in one place: in the batch, in the hands of one flusher, stored, or lost; and the
   loop and Stop have something in their hands only while they write it. *)
PlacesInv ==
    /\ \A f \in Flushers : taken[f] \intersect (buffer \union stored \union lost) = {}
    /\ \A f, g \in Flushers : f # g => taken[f] \intersect taken[g] = {}
    /\ buffer \intersect (stored \union lost) = {}
    /\ stored \intersect lost = {}
    /\ loop # "flushes" => taken[Loop] = {}
    /\ phase # "batch" => taken[Stopper] = {}

InHand == UNION {taken[f] : f \in Flushers}

LEMMA HandsAreDistinct == Timer # Loop /\ Timer # Stopper /\ Loop # Stopper
BY DEF Timer, Loop, Stopper

(* Whoever has nothing in its hands takes what no other has. *)
LEMMA PlacesTaken ==
    ASSUME TasksTypeOK, PlacesInv, NEW f \in Flushers, NEW items \in SUBSET Events,
           taken[f] = {}, buffer \subseteq items, Take(f, items), UNCHANGED <<stored, lost>>,
           \A e \in items \ buffer : ~Known(e),
           loop' # "flushes" => f # Loop /\ loop # "flushes", phase' # "batch" => f # Stopper /\ phase # "batch"
    PROVE  PlacesInv' /\ buffer' \union InHand' = items \union InHand
<1>1. taken \in [Flushers -> SUBSET Events] /\ taken' = [taken EXCEPT ![f] = items] /\ buffer' = {}
  BY DEF TasksTypeOK, Take
<1>2. taken'[f] = items /\ \A g \in Flushers : g # f => taken'[g] = taken[g]
  BY <1>1
<1>3. items \intersect (stored \union lost) = {}
  BY DEF PlacesInv, Known
<1>4. \A g \in Flushers : taken[g] \intersect items = {}
  BY DEF PlacesInv, Known
<1>5. buffer' \union InHand' = items \union InHand
  BY <1>1, <1>2 DEF InHand
<1>6. {Loop, Stopper} \subseteq Flushers
  BY DEF Flushers
<1>7. /\ \A g \in Flushers : taken'[g] \intersect (buffer' \union stored' \union lost') = {}
      /\ \A g, h \in Flushers : g # h => taken'[g] \intersect taken'[h] = {}
  BY <1>1, <1>2, <1>3, <1>4 DEF PlacesInv
<1>8. /\ loop' # "flushes" => taken'[Loop] = {}
      /\ phase' # "batch" => taken'[Stopper] = {}
  BY <1>2, <1>6 DEF PlacesInv
<1>9. QED
  BY <1>1, <1>5, <1>7, <1>8 DEF PlacesInv

(* What one has written leaves its hands only. *)
LEMMA PlacesSettled ==
    ASSUME TasksTypeOK, PlacesInv, NEW f \in Flushers, NEW missed \in SUBSET taken[f],
           stored' = stored \union (taken[f] \ missed), lost' = lost \union missed,
           taken' = [taken EXCEPT ![f] = {}], UNCHANGED <<buffer, loop, phase>>
    PROVE  PlacesInv' /\ InHand' = InHand \ taken[f] /\ taken[f] \subseteq InHand /\ buffer \intersect taken[f] = {}
<1>1. taken \in [Flushers -> SUBSET Events]
  BY DEF TasksTypeOK
<1>2. taken'[f] = {} /\ \A g \in Flushers : g # f => taken'[g] = taken[g]
  BY <1>1
<1>3. \A g \in Flushers : g # f => taken[g] \intersect taken[f] = {}
  BY DEF PlacesInv
<1>4. taken[f] \intersect (buffer \union stored \union lost) = {}
  BY DEF PlacesInv
<1>5. InHand' = InHand \ taken[f] /\ taken[f] \subseteq InHand
  BY <1>2, <1>3 DEF InHand
<1>6. {Loop, Stopper} \subseteq Flushers
  BY DEF Flushers
<1>7. \A g \in Flushers : taken'[g] \subseteq taken[g]
  BY <1>2
<1>8. /\ \A g \in Flushers : taken'[g] \intersect (buffer \union stored' \union lost') = {}
      /\ \A g, h \in Flushers : g # h => taken'[g] \intersect taken'[h] = {}
  BY <1>2, <1>3 DEF PlacesInv
<1>9. buffer \intersect (stored' \union lost') = {} /\ stored' \intersect lost' = {}
  BY <1>4 DEF PlacesInv
<1>10. /\ loop' # "flushes" => taken'[Loop] = {}
       /\ phase' # "batch" => taken'[Stopper] = {}
  BY <1>6, <1>7 DEF PlacesInv
<1>11. QED
  BY <1>4, <1>5, <1>8, <1>9, <1>10 DEF PlacesInv

LogState == <<buffer \union InHand, stored, twice, lost>>

(* Each step keeps the places apart, and is a step of the event log or none. *)
Logged == Log!Next \/ UNCHANGED LogState

LEMMA LogAdds ==
    ASSUME NEW e \in Events, ~Known(e), buffer' \union InHand' = buffer \union InHand \union {e},
           UNCHANGED <<stored, twice, lost>>
    PROVE  Logged
<1>1. e \notin (buffer \union InHand) \union stored \union lost
  BY DEF Known, InHand
<1>2. Log!Accept(e)
  BY <1>1 DEF Log!Accept, InHand
<1>3. QED
  BY <1>2 DEF Logged, Log!Next

LEMMA LogSettles ==
    ASSUME TasksTypeOK, NEW S \in SUBSET (buffer \union InHand), NEW missed \in SUBSET S,
           buffer' \union InHand' = (buffer \union InHand) \ S,
           stored' = stored \union (S \ missed), lost' = lost \union missed, twice' = twice
    PROVE  Logged
<1>1. S \in SUBSET Events
  BY DEF TasksTypeOK, InHand
<1>2. Log!Settle(S, missed)
  BY DEF Log!Settle, InHand
<1>3. QED
  BY <1>1, <1>2 DEF Logged, Log!Next

LEMMA LogRepeats ==
    ASSUME TasksTypeOK, NEW S \in SUBSET (buffer \union InHand), NEW again \in SUBSET S,
           buffer' \union InHand' = (buffer \union InHand) \ S,
           stored' = stored \union S, twice' = twice \union again, lost' = lost
    PROVE  Logged
<1>1. S \in SUBSET Events
  BY DEF TasksTypeOK, InHand
<1>2. Log!Repeat(S, again)
  BY DEF Log!Repeat, InHand
<1>3. QED
  BY <1>1, <1>2 DEF Logged, Log!Next

LEMMA LogStep == TasksTypeOK /\ PlacesInv /\ [TasksNext]_taskVars => PlacesInv' /\ Logged
<1> SUFFICES ASSUME TasksTypeOK, PlacesInv, [TasksNext]_taskVars PROVE PlacesInv' /\ Logged
  OBVIOUS
<1>0. Requests \subseteq Flushers /\ {Timer, Loop, Stopper} \subseteq Flushers /\ Requests \intersect {Timer, Loop, Stopper} = {}
  BY TaskServerAssumption DEF Flushers
<1>1. ASSUME NEW r \in Requests, NEW e \in Events, Add(r, e) PROVE PlacesInv' /\ Logged
  <2>0. ~Known(e) /\ taken[r] = {} /\ UNCHANGED <<stored, twice, lost, loop, phase>> /\ r \in Flushers /\ r \notin {Loop, Stopper}
    BY <1>0, <1>1 DEF Add, serverVars
  <2>1. CASE stopped
    <3>1. taken' = [taken EXCEPT ![r] = {e}] /\ buffer' = buffer
      BY <1>1, <2>1 DEF Add
    <3>2. taken'[r] = {e} /\ \A g \in Flushers : g # r => taken'[g] = taken[g]
      BY <2>0, <3>1 DEF TasksTypeOK
    <3>3. e \notin buffer \union stored \union lost /\ \A g \in Flushers : e \notin taken[g]
      BY <2>0 DEF Known
    <3>4. InHand' = InHand \union {e}
      BY <2>0, <3>2 DEF InHand
    <3>5. PlacesInv'
      BY <1>0, <2>0, <3>1, <3>2, <3>3 DEF PlacesInv
    <3>6. QED
      BY <2>0, <3>1, <3>4, <3>5, LogAdds
  <2>2. CASE ~stopped /\ Full(buffer \union {e})
    <3>1. Take(r, buffer \union {e})
      BY <1>1, <2>2 DEF Add
    <3>2. buffer \union {e} \in SUBSET Events /\ (\A x \in (buffer \union {e}) \ buffer : ~Known(x))
      BY <2>0 DEF TasksTypeOK
    <3>3. PlacesInv' /\ buffer' \union InHand' = (buffer \union {e}) \union InHand
      <4>1. loop' # "flushes" => r # Loop /\ loop # "flushes"
        BY <2>0
      <4>2. phase' # "batch" => r # Stopper /\ phase # "batch"
        BY <2>0
      <4>3. QED
        BY <2>0, <3>1, <3>2, <4>1, <4>2, PlacesTaken
    <3>4. QED
      BY <2>0, <3>3, LogAdds
  <2>3. CASE ~stopped /\ ~Full(buffer \union {e})
    <3>1. buffer' = buffer \union {e} /\ taken' = taken
      BY <1>1, <2>3 DEF Add
    <3>2. InHand' = InHand
      BY <3>1 DEF InHand
    <3>3. PlacesInv'
      BY <2>0, <3>1 DEF PlacesInv, Known
    <3>4. QED
      BY <2>0, <3>1, <3>2, <3>3, LogAdds
  <2>4. QED
    BY <2>1, <2>2, <2>3
<1>2. ASSUME NEW f \in Flushers, Persist(f) \/ PersistFails(f) PROVE PlacesInv' /\ Logged
  <2>1. PICK missed \in SUBSET taken[f] : stored' = stored \union (taken[f] \ missed) /\ lost' = lost \union missed
    <3>1. CASE Persist(f)
      <4>1. {} \in SUBSET taken[f] /\ stored' = stored \union (taken[f] \ {}) /\ lost' = lost \union {}
        BY <3>1 DEF Persist
      <4>2. QED
        BY <4>1
    <3>2. CASE PersistFails(f)
      BY <3>2 DEF PersistFails
    <3>3. QED
      BY <1>2, <3>1, <3>2
  <2>2. taken' = [taken EXCEPT ![f] = {}] /\ UNCHANGED <<buffer, twice, loop, phase>>
    BY <1>2 DEF Persist, PersistFails, batchVars, serverVars
  <2>3. PlacesInv' /\ InHand' = InHand \ taken[f] /\ taken[f] \subseteq InHand /\ buffer \intersect taken[f] = {}
    BY <2>1, <2>2, PlacesSettled
  <2>4. taken[f] \in SUBSET (buffer \union InHand) /\ buffer' \union InHand' = (buffer \union InHand) \ taken[f]
    BY <2>2, <2>3
  <2>5. Logged
    BY <2>1, <2>2, <2>4, LogSettles
  <2>6. QED
    BY <2>3, <2>5
<1>3. CASE TimerFlush \/ LoopFlush \/ JobsAwaited
  <2>1. PICK f \in {Timer, Loop, Stopper} :
           /\ taken[f] = {} /\ Take(f, buffer)
           /\ loop' # "flushes" => f # Loop /\ loop # "flushes"
           /\ phase' # "batch" => f # Stopper /\ phase # "batch"
    <3>1. CASE TimerFlush
      BY <3>1, HandsAreDistinct DEF TimerFlush, serverVars
    <3>2. CASE LoopFlush
      BY <3>2, HandsAreDistinct DEF LoopFlush, PlacesInv
    <3>3. CASE JobsAwaited
      BY <3>3, HandsAreDistinct DEF JobsAwaited, StopBatch, PlacesInv
    <3>4. QED
      BY <1>3, <3>1, <3>2, <3>3
  <2>2. UNCHANGED <<stored, twice, lost>>
    BY <1>3 DEF TimerFlush, LoopFlush, JobsAwaited
  <2>3. f \in Flushers /\ buffer \in SUBSET Events /\ (\A e \in buffer \ buffer : ~Known(e))
    BY <1>0 DEF TasksTypeOK
  <2>4. PlacesInv' /\ buffer' \union InHand' = buffer \union InHand
    BY <2>1, <2>2, <2>3, PlacesTaken
  <2>5. QED
    BY <2>2, <2>4 DEF Logged, LogState
<1>4. CASE Exit
  <2>0. /\ phase = "stopped" /\ lost' = lost \union taken[Timer] \union taken[Loop]
        /\ taken' = [f \in Flushers |-> {}] /\ UNCHANGED <<buffer, stored, twice, loop, phase>>
        /\ \A r \in Requests : taken[r] = {}
    BY <1>4 DEF Exit, batchVars
  <2>1. taken[Stopper] = {}
    BY <2>0 DEF PlacesInv
  <2>2. InHand = taken[Timer] \union taken[Loop]
    BY <2>0, <2>1 DEF InHand, Flushers
  <2>3. InHand' = {}
    BY <2>0 DEF InHand
  <2>4. buffer \intersect InHand = {} /\ InHand \intersect stored = {}
    BY <1>0, <2>2 DEF PlacesInv
  <2>5. PlacesInv'
    BY <1>0, <2>0, <2>2, <2>4 DEF PlacesInv
  <2>6. InHand \in SUBSET (buffer \union InHand) /\ InHand \in SUBSET InHand
    OBVIOUS
  <2>7. /\ buffer' \union InHand' = (buffer \union InHand) \ InHand
        /\ stored' = stored \union (InHand \ InHand) /\ lost' = lost \union InHand
    BY <2>0, <2>2, <2>3, <2>4
  <2>8. Logged
    BY <2>0, <2>6, <2>7, LogSettles
  <2>9. QED
    BY <2>5, <2>8
<1>5. ASSUME UNCHANGED <<buffer, taken, stored, twice, lost>>, phase' # "batch" => phase # "batch" \/ taken[Stopper] = {},
             loop' # "flushes" => loop # "flushes" \/ taken[Loop] = {}
      PROVE  PlacesInv' /\ Logged
  BY <1>5 DEF PlacesInv, Logged, LogState, InHand
<1>6. ASSUME NEW j \in Jobs, StartJob(j) \/ EndJob(j) PROVE PlacesInv' /\ Logged
  BY <1>5, <1>6 DEF StartJob, EndJob, batchVars, eventVars
<1>7. CASE TimerFires \/ LoopGoesOn
  BY <1>5, <1>7 DEF TimerFires, LoopGoesOn, batchVars, eventVars, serverVars
<1>8. CASE Signal \/ LoopEnds \/ StopTimesOut \/ CloseHTTP \/ LoopAwaited \/ BatchStopped
  BY <1>5, <1>8 DEF Signal, LoopEnds, StopTimesOut, CloseHTTP, LoopAwaited, BatchStopped, batchVars, eventVars
<1>9. CASE UNCHANGED taskVars
  BY <1>5, <1>9 DEF taskVars, batchVars, eventVars, serverVars
<1>10. ASSUME NEW f \in Flushers, PersistsTwice(f) PROVE PlacesInv' /\ Logged
  <2>1. PICK again \in SUBSET taken[f] : twice' = twice \union again
    BY <1>10 DEF PersistsTwice
  <2>2. /\ stored' = stored \union taken[f] /\ taken' = [taken EXCEPT ![f] = {}]
        /\ UNCHANGED <<buffer, lost, loop, phase>>
    BY <1>10 DEF PersistsTwice, batchVars, serverVars
  <2>3. {} \in SUBSET taken[f] /\ stored' = stored \union (taken[f] \ {}) /\ lost' = lost \union {}
    BY <2>2
  <2>4. PlacesInv' /\ InHand' = InHand \ taken[f] /\ taken[f] \subseteq InHand /\ buffer \intersect taken[f] = {}
    BY <2>2, <2>3, PlacesSettled
  <2>5. taken[f] \in SUBSET (buffer \union InHand) /\ buffer' \union InHand' = (buffer \union InHand) \ taken[f]
    BY <2>2, <2>4
  <2>6. Logged
    BY <2>1, <2>2, <2>5, LogRepeats
  <2>7. QED
    BY <2>4, <2>6
<1>11. QED
  BY <1>1, <1>2, <1>3, <1>4, <1>6, <1>7, <1>8, <1>9, <1>10 DEF TasksNext, Flushing, Stopping

LEMMA LogInit == InitTasks => PlacesInv /\ Log!Init
<1> SUFFICES ASSUME InitTasks PROVE PlacesInv /\ Log!Init
  OBVIOUS
<1>1. \A f \in Flushers : taken[f] = {}
  BY DEF InitTasks
<1>2. {Loop, Stopper} \subseteq Flushers
  BY DEF Flushers
<1>3. UNION {taken[f] : f \in Flushers} = {}
  BY <1>1
<1>4. PlacesInv
  BY <1>1, <1>2 DEF InitTasks, PlacesInv
<1>5. QED
  BY <1>3, <1>4 DEF InitTasks, Log!Init

(* The batch, its flushers and the stop of the process implement the event log: an event that came
   in is written or given up, never both, whoever takes the batch, whatever writes fail and whenever
   the process exits; and it gets a second row only where the reply of a commit was lost, which
   persistCampusEvents answers by writing each event of the batch again. *)
THEOREM EventsAreLogged == TasksSpec => IsEventLog
<1>1. Logged => [Log!Next]_Log!vars
  BY DEF Logged, LogState, InHand, Log!vars
<1>2. TasksTypeOK /\ PlacesInv /\ [TasksNext]_taskVars => PlacesInv' /\ [Log!Next]_Log!vars
  BY <1>1, LogStep
<1>3. QED
  BY <1>2, LogInit, TasksInit, TasksStep, PTL DEF TasksSpec, IsEventLog, Log!Spec

-----------------------------------------------------------------------------
(* Where a login has a user, it is one of the account; who meets an account, or looks for one
   without an error of its own, has one to find. *)
FoundInv ==
    /\ identity \in {0} \union users /\ profile \in {0} \union users
    /\ given \subseteq users
    /\ \A l \in Logins :
          /\ login[l].at \in {"save", "load", "profile", "keep"} => login[l].user \in users
          /\ login[l].at \in {"check", "find"} /\ ~login[l].hurt => password # 0
    /\ LoginsRecover

(* First logins that did not overlap end before the identity is there; the others go by it, and
   so do the profile and the tokens. *)
OneByOne ==
    overlapped \/
    /\ \A l, k \in Logins : IsFirst(l) /\ IsFirst(k) => l = k
    /\ identity # 0 => \A l \in Logins : ~IsFirst(l)
    /\ \A l \in Logins :
          login[l].at \in {"load", "profile", "keep"} => identity # 0 /\ login[l].user = identity
    /\ profile \in {0, identity}
    /\ given \subseteq {identity} \intersect {profile}

LoginRows == [at : FirstSteps \union {"load", "profile", "keep", "in", "out"},
              user : {0} \union UserIds, secret : 1..MaxSecrets, hurt : BOOLEAN]

LEMMA LoginsInit == InitLogins => LoginsTypeOK /\ FoundInv /\ OneByOne
<1> SUFFICES ASSUME InitLogins PROVE LoginsTypeOK /\ FoundInv /\ OneByOne
  OBVIOUS
<1>1. \A l \in Logins : login[l] = [at |-> "out", user |-> 0, secret |-> 1, hurt |-> TRUE]
  BY DEF InitLogins, NoLogin
<1>2. LoginsTypeOK
  <2>1. login \in [Logins -> LoginRows]
    BY WechatLoginAssumption DEF InitLogins, NoLogin, LoginRows
  <2>2. /\ password = 0 /\ secret = 1 /\ users = {} /\ given = {} /\ identity = 0 /\ profile = 0
        /\ overlapped = FALSE /\ entries = 0 /\ lapses = 0
    BY DEF InitLogins
  <2>3. password \in 0..MaxSecrets /\ secret \in 1..MaxSecrets /\ entries \in 0..MaxEntries /\ lapses \in 0..MaxLapses
    BY <2>2, WechatLoginAssumption
  <2>4. QED
    BY <2>1, <2>2, <2>3 DEF LoginsTypeOK, LoginRows
<1>3. FoundInv
  BY <1>1 DEF InitLogins, FoundInv, LoginsRecover, Stands
<1>4. OneByOne
  BY <1>1 DEF InitLogins, OneByOne, IsFirst, FirstSteps
<1>5. QED
  BY <1>2, <1>3, <1>4

(* GetUserByAccountId has a first row to take if there is one. *)
LEMMA FirstUserFound == ASSUME LoginsTypeOK, users # {} PROVE FirstUser \in users
<1> DEFINE R == OpToRel(<, Nat)
<1>1. users \in SUBSET Nat
  BY WechatLoginAssumption DEF LoginsTypeOK, UserIds
<1>2. R = {ss \in Nat \X Nat : ss[1] < ss[2]}
  BY Zenon DEF OpToRel
<1>3. IsWellFoundedOn(R, Nat)
  BY NatLessThanWellFounded, Zenon
<1> HIDE DEF R
<1>4. \E u \in users : \A v \in users : <<v, u>> \notin R
  BY <1>1, <1>3, WFMin, Zenon
<1>5. \A u, v \in Nat : <<v, u>> \notin R => u <= v
  BY <1>2
<1>6. \E u \in users : \A v \in users : u <= v
  BY <1>1, <1>4, <1>5
<1>7. QED
  BY <1>6, Zenon DEF FirstUser

LEMMA LoginsTypeStep == LoginsTypeOK /\ FoundInv /\ [LoginsNext]_loginVars => LoginsTypeOK'
<1> SUFFICES ASSUME LoginsTypeOK, FoundInv, [LoginsNext]_loginVars PROVE LoginsTypeOK'
  OBVIOUS
<1> USE WechatLoginAssumption DEF LoginsTypeOK, LoginRows, FirstSteps
<1>1. ASSUME NEW l \in Logins, Enter(l) PROVE LoginsTypeOK'
  BY <1>1 DEF Enter, accountVars
<1>2. ASSUME NEW l \in Logins, RegisterWechat(l) PROVE LoginsTypeOK'
  BY <1>2 DEF RegisterWechat, Moves, boundVars
<1>3. ASSUME NEW l \in Logins, RegisterFails(l) PROVE LoginsTypeOK'
  <2>1. login[l].secret \in 0..MaxSecrets
    OBVIOUS
  <2>2. password' \in 0..MaxSecrets
    BY <1>3, <2>1 DEF RegisterFails
  <2>3. /\ login' = [login EXCEPT ![l].at = "check", ![l].hurt = TRUE]
        /\ UNCHANGED <<users, identity, profile, secret, entries, given, overlapped>> /\ lapses' \in 0..MaxLapses
    BY <1>3 DEF RegisterFails, Lapse
  <2>4. login' \in [Logins -> LoginRows]
    BY <2>3
  <2>5. QED
    BY <2>2, <2>3, <2>4
<1>4. ASSUME NEW l \in Logins, Check(l) \/ Find(l) \/ LoadUser(l) PROVE LoginsTypeOK'
  BY <1>4 DEF Check, Find, LoadUser, Moves, accountVars, boundVars
<1>5. ASSUME NEW l \in Logins, CheckFails(l) \/ LookUpFails(l) PROVE LoginsTypeOK'
  BY <1>5 DEF CheckFails, LookUpFails, Lapse, accountVars
<1>6. ASSUME NEW l \in Logins, LookUp(l) PROVE LoginsTypeOK'
  <2>1. CASE users = {}
    <3>1. login' = [login EXCEPT ![l].at = "create", ![l].user = 0]
      BY <1>6, <2>1 DEF LookUp
    <3>2. login' \in [Logins -> LoginRows]
      BY <3>1
    <3>3. QED
      BY <1>6, <3>2 DEF LookUp, accountVars, boundVars
  <2>2. CASE users # {}
    <3>1. FirstUser \in UserIds
      BY <2>2, FirstUserFound
    <3>2. login' = [login EXCEPT ![l].at = "save", ![l].user = FirstUser]
      BY <1>6, <2>2 DEF LookUp
    <3>3. login' \in [Logins -> LoginRows]
      BY <3>1, <3>2
    <3>4. QED
      BY <1>6, <3>3 DEF LookUp, accountVars, boundVars
  <2>3. QED
    BY <2>1, <2>2
<1>7. ASSUME NEW l \in Logins, AddUser(l) PROVE LoginsTypeOK'
  <2>1. PICK u \in UserIds : /\ users' = users \union {u}
                             /\ login' = [login EXCEPT ![l].at = "save", ![l].user = u]
    BY <1>7 DEF AddUser
  <2>2. login' \in [Logins -> LoginRows]
    BY <2>1
  <2>3. users' \subseteq UserIds
    BY <2>1
  <2>4. QED
    BY <1>7, <2>2, <2>3 DEF AddUser, boundVars
<1>8. ASSUME NEW l \in Logins, SaveIdentity(l) PROVE LoginsTypeOK'
  BY <1>8 DEF SaveIdentity, Moves, boundVars
<1>9. ASSUME NEW l \in Logins, ReadProfile(l) \/ KeepProfile(l) PROVE LoginsTypeOK'
  <2>1. login[l].user \in UserIds
    BY <1>9 DEF FoundInv, ReadProfile, KeepProfile, Stands
  <2>2. given' \subseteq UserIds /\ profile' \in {0} \union UserIds
    BY <1>9, <2>1 DEF ReadProfile, KeepProfile, KeptProfile, accountVars
  <2>3. QED
    BY <1>9, <2>2 DEF ReadProfile, KeepProfile, Moves, accountVars, boundVars
<1>10. ASSUME NEW l \in Logins, LoginFails(l) PROVE LoginsTypeOK'
  <2>1. login[l].secret \in 0..MaxSecrets /\ login[l].user \in {0} \union UserIds
    OBVIOUS
  <2>2. password' \in 0..MaxSecrets
    BY <1>10, <2>1 DEF LoginFails
  <2>3. users' \subseteq UserIds
    BY <1>10 DEF LoginFails
  <2>4. identity' \in {0} \union UserIds /\ profile' \in {0} \union UserIds
    BY <1>10, <2>1 DEF LoginFails, KeptProfile
  <2>5. /\ login' = [login EXCEPT ![l].at = "out", ![l].hurt = TRUE]
        /\ UNCHANGED <<secret, entries, given, overlapped>> /\ lapses' \in 0..MaxLapses
    BY <1>10 DEF LoginFails, Lapse
  <2>6. login' \in [Logins -> LoginRows]
    BY <2>5
  <2>7. QED
    BY <2>2, <2>3, <2>4, <2>5, <2>6
<1>11. CASE Rotate
  BY <1>11 DEF Rotate, accountVars
<1>12. CASE UNCHANGED loginVars
  BY <1>12 DEF loginVars, accountVars, boundVars
<1>13. QED
  BY <1>1, <1>2, <1>3, <1>4, <1>5, <1>6, <1>7, <1>8, <1>9, <1>10, <1>11, <1>12 DEF LoginsNext, LoggingIn

LEMMA FoundStep == LoginsTypeOK /\ FoundInv /\ [LoginsNext]_loginVars => FoundInv'
<1> SUFFICES ASSUME LoginsTypeOK, FoundInv, [LoginsNext]_loginVars PROVE FoundInv'
  OBVIOUS
<1>0. login \in [Logins -> LoginRows] /\ 0 \notin users /\ users \subseteq UserIds
  BY WechatLoginAssumption DEF LoginsTypeOK, LoginRows, UserIds
<1> USE <1>0 DEF FoundInv, LoginsRecover, Stands, LoginRows
<1>1. ASSUME NEW l \in Logins, Enter(l) PROVE FoundInv'
  BY <1>1 DEF Enter, accountVars
<1>2. ASSUME NEW l \in Logins, RegisterWechat(l) PROVE FoundInv'
  <2>1. login[l].secret # 0
    BY WechatLoginAssumption
  <2>2. password' # 0
    BY <1>2, <2>1 DEF RegisterWechat
  <2>3. QED
    BY <1>2, <2>2 DEF RegisterWechat, Moves
<1>3. ASSUME NEW l \in Logins, RegisterFails(l) PROVE FoundInv'
  <2>1. login[l].secret # 0
    BY WechatLoginAssumption
  <2>2. password # 0 => password' # 0
    BY <1>3, <2>1 DEF RegisterFails
  <2>3. QED
    BY <1>3, <2>2 DEF RegisterFails
<1>4. ASSUME NEW l \in Logins, Check(l) \/ Find(l) \/ LoadUser(l) PROVE FoundInv'
  BY <1>4 DEF Check, Find, LoadUser, Moves, accountVars
<1>5. ASSUME NEW l \in Logins, CheckFails(l) \/ LookUpFails(l) PROVE FoundInv'
  BY <1>5 DEF CheckFails, LookUpFails, accountVars
<1>6. ASSUME NEW l \in Logins, LookUp(l) PROVE FoundInv'
  BY <1>6, FirstUserFound DEF LookUp, accountVars
<1>7. ASSUME NEW l \in Logins, AddUser(l) PROVE FoundInv'
  BY <1>7 DEF AddUser
<1>8. ASSUME NEW l \in Logins, SaveIdentity(l) PROVE FoundInv'
  BY <1>8 DEF SaveIdentity, Moves
<1>9. ASSUME NEW l \in Logins, ReadProfile(l) \/ KeepProfile(l) PROVE FoundInv'
  BY <1>9 DEF ReadProfile, KeepProfile, KeptProfile, Moves, accountVars
<1>10. ASSUME NEW l \in Logins, LoginFails(l) PROVE FoundInv'
  <2>1. login[l].secret # 0
    BY WechatLoginAssumption
  <2>2. password # 0 => password' # 0
    BY <1>10, <2>1 DEF LoginFails
  <2>3. users \subseteq users' /\ identity' \in {0} \union users /\ profile' \in {0} \union users
    BY <1>10 DEF LoginFails, KeptProfile
  <2>4. login' = [login EXCEPT ![l].at = "out", ![l].hurt = TRUE] /\ given' = given
    BY <1>10 DEF LoginFails
  <2>5. QED
    BY <2>2, <2>3, <2>4
<1>11. CASE Rotate \/ UNCHANGED loginVars
  BY <1>11 DEF Rotate, loginVars, accountVars
<1>12. QED
  BY <1>1, <1>2, <1>3, <1>4, <1>5, <1>6, <1>7, <1>8, <1>9, <1>10, <1>11 DEF LoginsNext, LoggingIn

LEMMA OneByOneStep == LoginsTypeOK /\ FoundInv /\ OneByOne /\ [LoginsNext]_loginVars => OneByOne'
<1> SUFFICES ASSUME LoginsTypeOK, FoundInv, OneByOne, [LoginsNext]_loginVars PROVE OneByOne'
  OBVIOUS
<1>0. login \in [Logins -> LoginRows] /\ 0 \notin users
  BY WechatLoginAssumption DEF LoginsTypeOK, LoginRows, UserIds
<1> USE <1>0 DEF OneByOne, IsFirst, FirstSteps, Stands, LoginRows
<1>1. ASSUME NEW l \in Logins, Enter(l) PROVE OneByOne'
  <2>1. given' = given /\ identity' = identity /\ profile' = profile
    BY <1>1 DEF Enter, accountVars
  <2>2. CASE identity = 0
    <3>1. /\ login' = [login EXCEPT ![l] = [at |-> "register", user |-> 0, secret |-> secret, hurt |-> FALSE]]
          /\ overlapped' = (overlapped \/ \E k \in Logins \ {l} : IsFirst(k))
      BY <1>1, <2>2 DEF Enter
    <3>2. CASE overlapped \/ \E k \in Logins \ {l} : IsFirst(k)
      BY <3>1, <3>2
    <3>3. CASE ~overlapped /\ \A k \in Logins \ {l} : ~IsFirst(k)
      <4>1. \A k \in Logins \ {l} : login'[k] = login[k]
        BY <3>1
      <4>2. login'[l].at = "register"
        BY <3>1
      <4>3. \A k \in Logins \ {l} : ~IsFirst(k)'
        BY <3>3, <4>1
      <4>4. \A k \in Logins : login'[k].at \notin {"load", "profile", "keep"}
        BY <2>2, <3>3, <4>1, <4>2
      <4>5. QED
        BY <2>1, <2>2, <3>3, <4>3, <4>4
    <3>4. QED
      BY <3>2, <3>3
  <2>3. CASE identity # 0
    <3>1. /\ login' = [login EXCEPT ![l] = [at |-> "load", user |-> identity, secret |-> secret, hurt |-> FALSE]]
          /\ overlapped' = overlapped
      BY <1>1, <2>3 DEF Enter, LoginsTypeOK
    <3>2. QED
      BY <2>1, <2>3, <3>1
  <2>4. QED
    BY <2>2, <2>3
<1>2. ASSUME NEW l \in Logins, RegisterWechat(l) \/ RegisterFails(l) PROVE OneByOne'
  BY <1>2 DEF RegisterWechat, RegisterFails, Moves
<1>3. ASSUME NEW l \in Logins, Check(l) \/ Find(l) \/ CheckFails(l) PROVE OneByOne'
  BY <1>3 DEF Check, Find, CheckFails, Moves, accountVars
<1>4. ASSUME NEW l \in Logins, LookUp(l) \/ LookUpFails(l) PROVE OneByOne'
  BY <1>4 DEF LookUp, LookUpFails, accountVars
<1>5. ASSUME NEW l \in Logins, AddUser(l) PROVE OneByOne'
  BY <1>5 DEF AddUser
<1>6. ASSUME NEW l \in Logins, SaveIdentity(l) PROVE OneByOne'
  <2>1. login[l].user # 0
    BY <1>6 DEF SaveIdentity, FoundInv
  <2>2. QED
    BY <1>6, <2>1 DEF SaveIdentity, Moves, FoundInv
<1>7. ASSUME NEW l \in Logins, LoadUser(l) PROVE OneByOne'
  BY <1>7 DEF LoadUser, Moves, accountVars
<1>8. ASSUME NEW l \in Logins, ReadProfile(l) \/ KeepProfile(l) PROVE OneByOne'
  <2>1. overlapped' = overlapped /\ identity' = identity
        /\ \E p \in {"in", "keep"} : login' = [login EXCEPT ![l].at = p]
    BY <1>8 DEF ReadProfile, KeepProfile, Moves, accountVars
  <2>2. overlapped \/ (identity # 0 /\ login[l].user = identity)
    BY <1>8 DEF ReadProfile, KeepProfile
  <2>3. overlapped \/ (profile' \in {0, identity} /\ given' \subseteq {identity} \intersect {profile'})
    BY <1>8, <2>2 DEF ReadProfile, KeepProfile, KeptProfile, accountVars
  <2>4. \A k \in Logins : IsFirst(k)' => IsFirst(k)
    BY <2>1
  <2>5. overlapped \/ \A k \in Logins :
          login'[k].at \in {"load", "profile", "keep"} => identity # 0 /\ login'[k].user = identity
    BY <1>8, <2>1 DEF ReadProfile, KeepProfile
  <2>6. QED
    BY <2>1, <2>3, <2>4, <2>5
<1>9. ASSUME NEW l \in Logins, LoginFails(l) PROVE OneByOne'
  <2>1. login' = [login EXCEPT ![l].at = "out", ![l].hurt = TRUE] /\ given' = given /\ overlapped' = overlapped
    BY <1>9 DEF LoginFails
  <2>2. CASE Stands(l, "save")
    <3>1. login[l].user # 0 /\ profile' = profile /\ identity' \in {identity, login[l].user}
      BY <1>9, <2>2 DEF LoginFails, FoundInv
    <3>2. QED
      BY <2>1, <2>2, <3>1, <1>9 DEF FoundInv
  <2>3. CASE Stands(l, "keep")
    <3>1. identity' = identity /\ profile' \in {profile, KeptProfile(l)}
      BY <1>9, <2>3 DEF LoginFails
    <3>2. QED
      BY <2>1, <2>3, <3>1, <1>9 DEF KeptProfile
  <2>4. CASE ~Stands(l, "save") /\ ~Stands(l, "keep")
    <3>1. identity' = identity /\ profile' = profile
      BY <1>9, <2>4 DEF LoginFails
    <3>2. QED
      BY <2>1, <2>4, <3>1, <1>9
  <2>5. QED
    BY <2>2, <2>3, <2>4
<1>10. CASE Rotate \/ UNCHANGED loginVars
  BY <1>10 DEF Rotate, loginVars, accountVars
<1>11. QED
  BY <1>1, <1>2, <1>3, <1>4, <1>5, <1>6, <1>7, <1>8, <1>9, <1>10 DEF LoginsNext, LoggingIn

(* WechatLogin, for every number of logins, secrets, errors and crashes: tokens are for users of
   the one account, for the user of the identity and the profile unless first logins overlapped,
   and a login is refused only by an error of its own. *)
THEOREM LoginsReachOneUser == LoginsSpec => []LoginsHold
<1>1. LoginsTypeOK /\ FoundInv /\ OneByOne => LoginsHold
  BY DEF LoginsHold, LoginsAgree, FoundInv, OneByOne
<1>2. QED
  BY <1>1, LoginsInit, LoginsTypeStep, FoundStep, OneByOneStep, PTL DEF LoginsSpec

(* The rows and logins of WechatLogin, for every number of logins, secrets, errors and crashes. *)
THEOREM LoginsTypeCorrect == LoginsSpec => []LoginsTypeOK
BY LoginsInit, LoginsTypeStep, FoundStep, PTL DEF LoginsSpec

(* SaveIdentity and SaveProfile are upserts, and yet first logins that did not overlap write
   them once: the user that a login has missed by is the user every later one goes by. *)
RowsStay == [][/\ identity # 0 /\ ~overlapped => identity' = identity
               /\ profile # 0 => profile' = profile]_loginVars

THEOREM IdentityStays == LoginsSpec => RowsStay
<1>1. ASSUME LoginsTypeOK, OneByOne, LoginsNext
      PROVE  /\ identity # 0 /\ ~overlapped => identity' = identity
             /\ profile # 0 => profile' = profile
  <2>1. ASSUME NEW l \in Logins, LoggingIn(l), profile # 0 PROVE profile' = profile
    BY <2>1 DEF LoggingIn, Enter, RegisterWechat, RegisterFails, Check, CheckFails, Find, LookUp, LookUpFails,
                AddUser, SaveIdentity, LoadUser, ReadProfile, KeepProfile, LoginFails, KeptProfile, accountVars
  <2>2. ASSUME NEW l \in Logins, LoggingIn(l), ~IsFirst(l) PROVE identity' = identity
    BY <2>2 DEF LoggingIn, Enter, RegisterWechat, RegisterFails, Check, CheckFails, Find, LookUp, LookUpFails,
                AddUser, SaveIdentity, LoadUser, ReadProfile, KeepProfile, LoginFails, accountVars, IsFirst, FirstSteps,
                Stands
  <2>3. identity # 0 /\ ~overlapped => \A l \in Logins : ~IsFirst(l)
    BY <1>1 DEF OneByOne
  <2>4. CASE Rotate
    BY <2>4 DEF Rotate, accountVars
  <2>5. QED
    BY <1>1, <2>1, <2>2, <2>3, <2>4 DEF LoginsNext
<1>2. LoginsTypeOK /\ OneByOne /\ [LoginsNext]_loginVars =>
        [/\ identity # 0 /\ ~overlapped => identity' = identity
         /\ profile # 0 => profile' = profile]_loginVars
  BY <1>1
<1>3. QED
  BY <1>2, LoginsInit, LoginsTypeStep, FoundStep, OneByOneStep, PTL DEF LoginsSpec, RowsStay

-----------------------------------------------------------------------------
(* An attempt that goes on has the account it has inserted, alive. *)
AttemptInv ==
    /\ RegistrationTypeOK
    /\ \A a \in Attempts :
          /\ attempt[a].id = a
          /\ Rests(a, "idle") => account[a] = "none"
          /\ attempt[a].at \in {"create", "undo"} => account[a] = "live"
    /\ SignUpsHold

LEMMA SignUpsInit == InitRegistration => AttemptInv
BY RegistrationAssumption
   DEF InitRegistration, AttemptInv, RegistrationTypeOK, SignUpsHold, Live, Rests

LEMMA SignUpsStep == AttemptInv /\ [RegistrationNext]_registrationVars => AttemptInv'
<1> USE DEF AttemptInv, RegistrationTypeOK, SignUpsHold, Live, Rests, Ends
<1> SUFFICES ASSUME AttemptInv, [RegistrationNext]_registrationVars PROVE AttemptInv'
  OBVIOUS
<1>1. ASSUME NEW a \in Attempts, Register(a) PROVE AttemptInv'
  BY <1>1 DEF Register
<1>2. ASSUME NEW a \in Attempts, RegisterBreaks(a) PROVE AttemptInv'
  BY <1>2, RegistrationAssumption DEF RegisterBreaks, Flaw
<1>3. ASSUME NEW a \in Attempts, CreateUser(a) PROVE AttemptInv'
  BY <1>3 DEF CreateUser
<1>4. ASSUME NEW a \in Attempts, CreateUserFails(a) PROVE AttemptInv'
  BY <1>4, RegistrationAssumption DEF CreateUserFails, Flaw
<1>5. ASSUME NEW a \in Attempts, DeleteAccount(a) PROVE AttemptInv'
  BY <1>5 DEF DeleteAccount
<1>6. ASSUME NEW a \in Attempts, DeleteFails(a) PROVE AttemptInv'
  BY <1>6, RegistrationAssumption DEF DeleteFails, Flaw
<1>7. ASSUME NEW a \in Attempts, AttemptDies(a) PROVE AttemptInv'
  BY <1>7, RegistrationAssumption DEF AttemptDies, Flaw
<1>8. CASE UNCHANGED registrationVars
  BY <1>8 DEF registrationVars
<1>9. QED
  BY <1>1, <1>2, <1>3, <1>4, <1>5, <1>6, <1>7, <1>8 DEF RegistrationNext, SigningUp

(* The rows and attempts of Register, for every number of attempts, errors and crashes. *)
THEOREM SignUpsTypeCorrect == RegistrationSpec => []RegistrationTypeOK
<1>1. AttemptInv => RegistrationTypeOK
  BY DEF AttemptInv
<1>2. QED
  BY <1>1, SignUpsInit, SignUpsStep, PTL DEF RegistrationSpec

(* Register of campusApi, for every number of attempts, errors and crashes: whoever is welcomed has
   an account with a user that no undoing takes, and an account without a user was cut off. *)
THEOREM SignUpsAreKept == RegistrationSpec => []SignUpsHold
<1>1. AttemptInv => SignUpsHold
  BY DEF AttemptInv
<1>2. QED
  BY <1>1, SignUpsInit, SignUpsStep, PTL DEF RegistrationSpec

(* The unique active_email: an account is inserted only where no other lives. *)
LEMMA AddressStep ==
    AttemptInv /\ [RegistrationNext]_registrationVars => [Book!Next]_Book!vars
<1> SUFFICES ASSUME AttemptInv, [RegistrationNext]_registrationVars PROVE Book!Next \/ UNCHANGED Book!vars
  OBVIOUS
<1> DEFINE answers == [b \in Attempts |-> Told(b)]
<1>0. /\ account \in [Attempts -> {"none", "live", "deleted"}]
      /\ attempt \in [Attempts -> [at : {"idle", "create", "undo", "welcome", "refused"}, id : Attempts]]
      /\ \A b \in Attempts : attempt[b].id = b
  BY DEF AttemptInv, RegistrationTypeOK
<1>1. ASSUME NEW a \in Attempts, NEW place \in {"create", "undo", "welcome", "refused"}, Ends(a, place),
             attempt[a].at \in {"idle", "create", "undo"}
      PROVE  /\ answers[a] = "none"
             /\ place \in {"create", "undo"} => answers' = answers
             /\ place \in {"welcome", "refused"} => answers' = [answers EXCEPT ![a] = place]
  <2>1. attempt'[a].at = place /\ \A b \in Attempts : b # a => attempt'[b] = attempt[b]
    BY <1>0, <1>1 DEF Ends
  <2>2. Told(a) = "none" /\ \A b \in Attempts : b # a => Told(b)' = Told(b)
    BY <1>1, <2>1 DEF Told
  <2>3. Told(a)' = IF place \in {"welcome", "refused"} THEN place ELSE "none"
    BY <2>1 DEF Told
  <2>4. QED
    BY <2>2, <2>3
<1>2. ASSUME NEW a \in Attempts, Register(a) PROVE Book!Next \/ UNCHANGED Book!vars
  <2>1. CASE Live = {}
    <3>1. account' = [account EXCEPT ![a] = "live"] /\ Ends(a, "create") /\ attempt[a].at = "idle"
      BY <1>2, <2>1 DEF Register, Rests
    <3>2. Live' = {a}
      BY <1>0, <2>1, <3>1 DEF Live
    <3>3. Book!Own(a)
      BY <1>1, <2>1, <3>1, <3>2 DEF Book!Own
    <3>4. QED
      BY <3>3 DEF Book!Next
  <2>2. CASE Live # {}
    <3>1. account' = account /\ Ends(a, "refused") /\ attempt[a].at = "idle"
      BY <1>2, <2>2 DEF Register, Rests
    <3>2. Live' = Live
      BY <3>1 DEF Live
    <3>3. Book!Refuse(a)
      BY <1>1, <3>1, <3>2 DEF Book!Refuse
    <3>4. QED
      BY <3>3 DEF Book!Next
  <2>3. QED
    BY <2>1, <2>2
<1>3. ASSUME NEW a \in Attempts, RegisterBreaks(a) PROVE Book!Next \/ UNCHANGED Book!vars
  <2>1. Ends(a, "refused") /\ attempt[a].at = "idle"
    BY <1>3 DEF RegisterBreaks, Rests
  <2>2. Live' = Live \/ (Live = {} /\ Live' = {a})
    BY <1>0, <1>3 DEF RegisterBreaks, Live
  <2>3. Book!Refuse(a)
    BY <1>1, <2>1, <2>2 DEF Book!Refuse
  <2>4. QED
    BY <2>3 DEF Book!Next
<1>4. ASSUME NEW a \in Attempts, CreateUser(a) PROVE Book!Next \/ UNCHANGED Book!vars
  <2>1. Ends(a, "welcome") /\ attempt[a].at = "create" /\ account' = account
    BY <1>4 DEF CreateUser, Rests
  <2>2. a \in Live /\ Live' = Live
    BY <2>1 DEF Live, AttemptInv
  <2>3. Book!Welcome(a)
    BY <1>1, <2>1, <2>2 DEF Book!Welcome
  <2>4. QED
    BY <2>3 DEF Book!Next
<1>5. ASSUME NEW a \in Attempts, CreateUserFails(a) PROVE Book!Next \/ UNCHANGED Book!vars
  <2>1. Ends(a, "undo") /\ attempt[a].at = "create" /\ account' = account
    BY <1>5 DEF CreateUserFails, Rests
  <2>2. QED
    BY <1>1, <2>1 DEF Book!vars, Live
<1>6. ASSUME NEW a \in Attempts, DeleteAccount(a) \/ DeleteFails(a) \/ AttemptDies(a)
      PROVE  Book!Next \/ UNCHANGED Book!vars
  <2>1. Ends(a, "refused") /\ attempt[a].at \in {"create", "undo"}
    BY <1>6 DEF DeleteAccount, DeleteFails, AttemptDies, Rests
  <2>2. account' \in {account, [account EXCEPT ![a] = "deleted"]}
    BY <1>0, <1>6 DEF DeleteAccount, DeleteFails, AttemptDies
  <2>3. Live' = Live \/ Live' = Live \ {a}
    BY <1>0, <2>2 DEF Live
  <2>4. Book!Refuse(a)
    BY <1>1, <2>1, <2>3 DEF Book!Refuse
  <2>5. QED
    BY <2>4 DEF Book!Next
<1>7. CASE UNCHANGED registrationVars
  BY <1>7 DEF registrationVars, Book!vars, Live, Told
<1>8. QED
  BY <1>2, <1>3, <1>4, <1>5, <1>6, <1>7 DEF RegistrationNext, SigningUp

(* Register of campusApi implements the address book, for every number of attempts, errors and
   crashes: one owner at most, and who was welcomed stays the owner. *)
THEOREM AddressHasOneOwner == RegistrationSpec => IsAddressBook
<1>1. InitRegistration => Book!Init
  BY DEF InitRegistration, Book!Init, Live, Told
<1>2. QED
  BY <1>1, SignUpsInit, SignUpsStep, AddressStep, PTL DEF RegistrationSpec, IsAddressBook, Book!Spec

-----------------------------------------------------------------------------
(* All eight in one process: a step of one is a step of none of the others. *)
LEMMA ServicesStep ==
    [ServicesNext]_servicesVars =>
        /\ [AlertsNext]_alertsVars /\ [ReportsNext]_reportVars /\ [CacheNext]_cacheVars /\ [TasksNext]_taskVars
        /\ [BudgetNext]_budgetVars /\ [KnowledgeNext]_knowledgeVars
        /\ [LoginsNext]_loginVars /\ [RegistrationNext]_registrationVars
BY DEF ServicesNext, servicesVars, Alerts, Reporters, Cache, Tasks, Budget, Knowledge, Entrance, SignUps

(* The services side by side: each of them does what it would do alone, whatever the others do,
   and begins and moves by its own specification. *)
THEOREM ServicesAreComponents ==
    ServicesSpec =>
        /\ InitAlerts /\ [][AlertsNext]_alertsVars
        /\ ReportsSpec
        /\ InitCache /\ [][CacheNext]_cacheVars
        /\ InitTasks /\ [][TasksNext]_taskVars
        /\ BudgetSpec
        /\ InitKnowledge /\ [][KnowledgeNext]_knowledgeVars
        /\ LoginsSpec /\ RegistrationSpec
<1>1. InitServices => /\ InitAlerts /\ InitReports /\ InitCache /\ InitTasks /\ InitBudget /\ InitKnowledge
                      /\ InitLogins /\ InitRegistration
  BY DEF InitServices
<1>2. QED
  BY <1>1, ServicesStep, PTL DEF ServicesSpec, ReportsSpec, BudgetSpec, LoginsSpec, RegistrationSpec

(* Every service keeps values the code can write, for every set of rows, people, replicas and
   requests and every bound. *)
THEOREM ServicesTypeCorrect == ServicesSpec => []ServicesTypeOK
<1>1. ServicesSpec => [](AlertsTypeOK /\ ReportsTypeOK)
  BY ServicesAreComponents, PayloadInit, PayloadStep, ReportsTypeCorrect, PTL
<1>2. CacheInv => CacheTypeOK
  BY DEF CacheInv
<1>3. ServicesSpec => [](CacheTypeOK /\ TasksTypeOK)
  BY <1>2, ServicesAreComponents, CacheInvInit, CacheInvStep, TasksInit, TasksStep, PTL
<1>4. ServicesSpec => [](KnowledgeShape /\ EditionsInv)
  BY ServicesAreComponents, KnowledgeShapeInit, KnowledgeShapeStep, EditionsInit, EditionsStep, PTL
<1>5. ServicesSpec => []KnowledgeTypeOK
  BY <1>4, EditionsAreTypes, PTL
<1>6. ServicesSpec => [](BudgetTypeOK /\ LoginsTypeOK /\ RegistrationTypeOK)
  BY ServicesAreComponents, BudgetTypeCorrect, LoginsTypeCorrect, SignUpsTypeCorrect, PTL
<1>7. AlertsTypeOK /\ ReportsTypeOK /\ CacheTypeOK /\ TasksTypeOK /\ BudgetTypeOK /\ KnowledgeTypeOK /\ LoginsTypeOK
      /\ RegistrationTypeOK => ServicesTypeOK
  BY DEF ServicesTypeOK
<1>8. QED
  BY <1>1, <1>3, <1>5, <1>6, <1>7, PTL

(* The batch of events and the sign-ups implement what they promise while the other services run
   beside them: no event is both written and given up, no address gets a second owner. *)
THEOREM ServicesKeepPromises == ServicesSpec => ServicesImplement
<1>1. Logged => [Log!Next]_Log!vars
  BY DEF Logged, LogState, InHand, Log!vars
<1>2. TasksTypeOK /\ PlacesInv /\ [TasksNext]_taskVars => PlacesInv' /\ [Log!Next]_Log!vars
  BY <1>1, LogStep
<1>3. ServicesSpec => IsEventLog
  BY <1>2, ServicesAreComponents, LogInit, TasksInit, TasksStep, PTL DEF IsEventLog, Log!Spec
<1>4. ServicesSpec => IsAddressBook
  BY ServicesAreComponents, AddressHasOneOwner, PTL
<1>5. QED
  BY <1>3, <1>4 DEF ServicesImplement

=============================================================================
