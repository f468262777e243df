----------------------------- MODULE PostCache -----------------------------
(***************************************************************************)
(* The read caches of posts (data/campus_cache.go, data/campus.go) and the *)
(* recommend pool of a process (biz/campus_recommend_pool.go), for one     *)
(* post and one list.  Writers change the row, then delete the cached      *)
(* detail, then raise the version that is part of every list's key; each   *)
(* of these calls to Redis may fail, which is only logged.  The recount of *)
(* ReconcileCampusStats changes counters and makes none of these calls.    *)
(* Readers look into the cache, read the database and fill the cache in    *)
(* three calls.  A list's cache and the pool keep identifiers only: their  *)
(* rows are read again, so that what can be old is which posts there are.  *)
(* (Hot and recommended lists are ordered by counters and age as well,     *)
(* which no version follows: that order is as old as the entry.)           *)
(***************************************************************************)
EXTENDS Integers

CONSTANTS
    Writers,
    Readers,      \* requests for the detail
    Listers,      \* requests for the list
    Refresher,    \* the job that refreshes the pool: it reads the list, too
    DetailTTL,    \* LEHU_CACHE_POST_DETAIL_TTL, in ticks
    ListTTL,      \* LEHU_CACHE_POST_LIST_TTL
    Deadline,     \* ticks a request may take
    MaxEdits,     \* bound: writes
    MaxOutages    \* bound: calls that fail, and crashes

ASSUME PostCacheAssumption ==
    /\ DetailTTL \in Nat \ {0} /\ ListTTL \in Nat \ {0} /\ Deadline \in Nat
    /\ MaxEdits \in Nat /\ MaxOutages \in Nat

VARIABLES
    edition,   \* of the row; a writer that counts likes changes it, too
    listed,    \* the edition the lists would show: of the last write to the post itself
    detail,    \* the cached detail: its edition, ticks until it expires, and, as history,
               \* ticks since that edition was replaced and the row's edition at the fill
    undeleted, \* history: editions whose writer failed to delete the detail
    recounted, \* history: editions that ReconcileCampusStats wrote
    version,   \* campusPostFeedVersionKey
    lists,     \* the cached list under each version
    unbumped,  \* history: versions that a write has failed to raise
    pool,      \* the edition the recommend pool was filled with
    writer,    \* what each writer is doing
    dirty,     \* the edition it has written and not yet deleted the detail of, or 0
    reader,    \* what each reader of the detail is doing
    lister,    \* what each reader of the list is doing
    outages

detailVars == <<detail, undeleted, recounted>>
listVars == <<version, lists, unbumped>>
writerVars == <<writer, dirty>>
cacheVars == <<edition, listed, detailVars, listVars, pool, writerVars, reader, lister, outages>>

Editions == 0..MaxEdits
Longest == Deadline + DetailTTL
NoDetail == [edition |-> 0, left |-> 0, old |-> 0, filled |-> 0]
NoList == [edition |-> 0, left |-> 0]
Resting == [at |-> "idle", edition |-> 0, age |-> 0, old |-> 0]
Waiting == [at |-> "idle", version |-> 0, edition |-> 0]
ListReaders == Listers \union {Refresher}

InitCache ==
    /\ edition = 0 /\ listed = 0
    /\ detail = NoDetail /\ undeleted = {} /\ recounted = {}
    /\ version = 0 /\ lists = [v \in Editions |-> NoList] /\ unbumped = {}
    /\ pool = 0
    /\ writer = [w \in Writers |-> "idle"] /\ dirty = [w \in Writers |-> 0]
    /\ reader = [r \in Readers |-> Resting]
    /\ lister = [l \in ListReaders |-> Waiting]
    /\ outages = 0

Outage == outages < MaxOutages /\ outages' = outages + 1

(* UpdatePostStatus, UpdatePostByAdmin, DeletePost; or the counters of a post, which its
   detail shows: comments, likes and collections. *)
Write(w) ==
    /\ writer[w] = "idle" /\ edition < MaxEdits
    /\ edition' = edition + 1
    /\ \/ listed' = edition + 1 /\ writer' = [writer EXCEPT ![w] = "wrote post"]
       \/ listed' = listed /\ writer' = [writer EXCEPT ![w] = "wrote counter"]
    /\ dirty' = [dirty EXCEPT ![w] = edition + 1]
    /\ UNCHANGED <<detailVars, listVars, pool, reader, lister, outages>>

(* ReconcileCampusStats corrects a counter of the post, and leaves the caches alone. *)
Recount ==
    /\ edition < MaxEdits
    /\ edition' = edition + 1
    /\ recounted' = recounted \union {edition + 1}
    /\ UNCHANGED <<listed, detail, undeleted, listVars, pool, writerVars, reader, lister, outages>>

(* Faulty variant: counters do not touch the detail. *)
DropDetailOfPosts(w) == detail' = (IF writer[w] = "wrote post" THEN NoDetail ELSE detail)

DropDetail(w) == detail' = NoDetail

Wrote(w) == writer[w] \in {"wrote post", "wrote counter"}
AfterDel(w) == IF writer[w] = "wrote post" THEN "bump" ELSE "idle"

(* invalidatePostReadCaches: the detail is deleted, *)
DeleteDetail(w) ==
    /\ Wrote(w)
    /\ \/ DropDetail(w) /\ UNCHANGED <<undeleted, outages>>
       \/ undeleted' = undeleted \union {dirty[w]} /\ Outage /\ UNCHANGED detail
    /\ writer' = [writer EXCEPT ![w] = AfterDel(w)] /\ dirty' = [dirty EXCEPT ![w] = 0]
    /\ UNCHANGED <<edition, listed, recounted, listVars, pool, reader, lister>>

(* and the version raised. *)
BumpVersion(w) ==
    /\ writer[w] = "bump"
    /\ \/ version' = version + 1 /\ UNCHANGED <<unbumped, outages>>
       \/ unbumped' = unbumped \union {version} /\ Outage /\ UNCHANGED version
    /\ writer' = [writer EXCEPT ![w] = "idle"]
    /\ UNCHANGED <<edition, listed, detailVars, lists, pool, dirty, reader, lister>>

(* The process dies after the commit. *)
WriterDies(w) ==
    /\ writer[w] # "idle"
    /\ undeleted' = IF Wrote(w) THEN undeleted \union {dirty[w]} ELSE undeleted
    /\ unbumped' = IF writer[w] = "wrote counter" THEN unbumped ELSE unbumped \union {version}
    /\ writer' = [writer EXCEPT ![w] = "idle"] /\ dirty' = [dirty EXCEPT ![w] = 0]
    /\ Outage
    /\ UNCHANGED <<edition, listed, detail, recounted, version, lists, pool, reader, lister>>

(* GetPostByID, when the cache has nothing or cannot be read: the row, *)
Read(r) ==
    /\ reader[r].at = "idle"
    /\ \/ detail.left = 0 /\ UNCHANGED outages
       \/ detail.left > 0 /\ Outage
    /\ reader' = [reader EXCEPT ![r] = [Resting EXCEPT !.at = "read"]]
    /\ UNCHANGED <<edition, listed, detailVars, listVars, pool, writerVars, lister>>

FindRow(r) ==
    /\ reader[r].at = "read" /\ reader[r].age <= Deadline
    /\ reader' = [reader EXCEPT ![r].at = "fill", ![r].edition = edition]
    /\ UNCHANGED <<edition, listed, detailVars, listVars, pool, writerVars, lister, outages>>

(* Faulty variant: a fill after the time of the request. *)
InTimeAlways(r) == TRUE

(* then the cache, within the time of the request. *)
InTime(r) == reader[r].age <= Deadline
Kept(e, old) == [edition |-> e, left |-> DetailTTL, old |-> old, filled |-> edition]

Fill(r) ==
    /\ reader[r].at = "fill" /\ InTime(r)
    /\ detail' = Kept(reader[r].edition, reader[r].old)
    /\ reader' = [reader EXCEPT ![r] = Resting]
    /\ UNCHANGED <<edition, listed, undeleted, recounted, listVars, pool, writerVars, lister, outages>>

(* No such row, an error, or the end of its time. *)
ReadEnds(r) ==
    /\ reader[r].at # "idle"
    /\ reader' = [reader EXCEPT ![r] = Resting]
    /\ UNCHANGED <<edition, listed, detailVars, listVars, pool, writerVars, lister, outages>>

(* ListPosts: the version is read first, 0 if that fails, *)
ReadVersion(l) ==
    /\ lister[l].at = "idle"
    /\ \/ lister' = [lister EXCEPT ![l] = [at |-> "look", version |-> version, edition |-> 0]] /\ UNCHANGED outages
       \/ lister' = [lister EXCEPT ![l] = [at |-> "look", version |-> 0, edition |-> 0]] /\ Outage
    /\ UNCHANGED <<edition, listed, detailVars, listVars, pool, writerVars, reader>>

(* then the cache: RefreshCampusRecommendPool takes its list from it as well, *)
Uses(l, e) == pool' = IF l = Refresher THEN e ELSE pool

Hit(l) ==
    /\ lister[l].at = "look"
    /\ lists[lister[l].version].left > 0
    /\ Uses(l, lists[lister[l].version].edition)
    /\ lister' = [lister EXCEPT ![l] = Waiting]
    /\ UNCHANGED <<edition, listed, detailVars, listVars, writerVars, reader, outages>>

(* then the database, *)
Query(l) ==
    /\ lister[l].at = "look"
    /\ \/ lists[lister[l].version].left = 0 /\ UNCHANGED outages
       \/ lists[lister[l].version].left > 0 /\ Outage
    /\ lister' = [lister EXCEPT ![l].at = "keep", ![l].edition = listed]
    /\ UNCHANGED <<edition, listed, detailVars, listVars, pool, writerVars, reader>>

(* and its answer is kept under the version read before. *)
KeyOf(l) == lister[l].version

Keep(l) ==
    /\ lister[l].at = "keep"
    /\ \/ lists' = [lists EXCEPT ![KeyOf(l)] = [edition |-> lister[l].edition, left |-> ListTTL]] /\ UNCHANGED outages
       \/ lists' = lists /\ Outage
    /\ Uses(l, lister[l].edition)
    /\ lister' = [lister EXCEPT ![l] = Waiting]
    /\ UNCHANGED <<edition, listed, detailVars, version, unbumped, writerVars, reader>>

ListEnds(l) ==
    /\ lister[l].at # "idle"
    /\ lister' = [lister EXCEPT ![l] = Waiting]
    /\ Outage
    /\ UNCHANGED <<edition, listed, detailVars, listVars, pool, writerVars, reader>>

UpTo(n, most) == IF n < most THEN n ELSE most
Older(x) == IF x.edition < edition THEN UpTo(x.old + 1, Longest + 1) ELSE 0

(* Faulty variant: lists do not expire. *)
SoonerNever(entry) == entry
Sooner(entry) == IF entry.left > 1 THEN [entry EXCEPT !.left = @ - 1] ELSE NoList

Tick ==
    /\ detail' = IF detail.left > 1 THEN [detail EXCEPT !.left = @ - 1, !.old = Older(detail)] ELSE NoDetail
    /\ lists' = [v \in Editions |-> Sooner(lists[v])]
    /\ reader' = [r \in Readers |->
           CASE reader[r].at = "idle" -> reader[r]
             [] reader[r].at = "read" -> [reader[r] EXCEPT !.age = UpTo(@ + 1, Deadline + 1)]
             [] reader[r].at = "fill" -> [reader[r] EXCEPT !.age = UpTo(@ + 1, Deadline + 1), !.old = Older(reader[r])]]
    /\ UNCHANGED <<edition, listed, undeleted, recounted, version, unbumped, pool, writerVars, lister, outages>>

Changing(w) == DeleteDetail(w) \/ BumpVersion(w)
Listing(l) == ReadVersion(l) \/ Hit(l) \/ Query(l) \/ Keep(l)

CacheNext ==
    \/ \E w \in Writers : Write(w) \/ Changing(w) \/ WriterDies(w)
    \/ \E r \in Readers : Read(r) \/ FindRow(r) \/ Fill(r) \/ ReadEnds(r)
    \/ \E l \in ListReaders : Listing(l) \/ ListEnds(l)
    \/ Recount \/ Tick

(* Time passes, writers finish, and the pool is refreshed again and again. *)
CacheFairness ==
    /\ WF_cacheVars(Tick)
    /\ WF_cacheVars(\E w \in Writers : Changing(w))
    /\ WF_cacheVars(Listing(Refresher))

CacheSpec == InitCache /\ [][CacheNext]_cacheVars /\ CacheFairness

-----------------------------------------------------------------------------
Details == [edition : Editions, left : 0..DetailTTL, old : 0..(Longest + 1), filled : Editions]
KeptLists == [edition : Editions, left : 0..ListTTL]
Reads == [at : {"idle", "read", "fill"}, edition : Editions, age : 0..(Deadline + 1), old : 0..(Longest + 1)]
Lookups == [at : {"idle", "look", "keep"}, version : Editions, edition : Editions]

(* Caches and requests hold values the code can write. *)
CacheTypeOK ==
    /\ edition \in Editions /\ listed \in Editions
    /\ detail \in Details
    /\ undeleted \subseteq Editions /\ recounted \subseteq Editions
    /\ version \in Editions
    /\ lists \in [Editions -> KeptLists]
    /\ unbumped \subseteq Editions
    /\ pool \in Editions
    /\ writer \in [Writers -> {"idle", "wrote post", "wrote counter", "bump"}]
    /\ dirty \in [Writers -> Editions]
    /\ reader \in [Readers -> Reads]
    /\ lister \in [ListReaders -> Lookups]
    /\ outages \in 0..MaxOutages

(* A detail is not shown for longer than a request's time and the entry's after it was
   replaced, whatever was lost and however a fill and a write crossed. *)
StaleIsBounded ==
    detail.left > 0 => detail.old + detail.left <= Longest

(* Every write that the cached detail lacks is accounted for by itself: it came between the
   read and the fill, its writer is about to delete the detail or has failed to, or it is a
   recount.  A deletion that came through after the fill left nothing of the entry. *)
Lacks(e) == detail.left > 0 /\ detail.edition < e /\ e <= edition

DetailFollowsWrites ==
    \A e \in Editions : Lacks(e) =>
        \/ e <= detail.filled
        \/ \E w \in Writers : dirty[w] = e
        \/ e \in undeleted \union recounted

(* A list is kept under the version read before the query: under the version of now no list
   is older than the last write, unless its version is not raised yet, or never. *)
ListsFollowWrites ==
    lists[version].left > 0 /\ lists[version].edition # listed =>
        \/ version \in unbumped
        \/ \E w \in Writers : writer[w] \in {"wrote post", "bump"}

(* What is in the caches follows the writes, but for the recounts, which leave the detail's
   counters as they were until the entry expires. *)
CachesFollowWrites == DetailFollowsWrites /\ ListsFollowWrites

(* In the end every reader sees the last write, in the detail, the list and the pool. *)
ViewsCatchUp ==
    <>[](/\ detail.left > 0 => detail.edition = edition
         /\ lists[version].left > 0 => lists[version].edition = listed
         /\ pool = listed)

=============================================================================
