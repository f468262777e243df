--------------------------- MODULE KnowledgeIndex ---------------------------
(***************************************************************************)
(* One document of the knowledge base (biz/campus.go, data/campus.go,      *)
(* campus-rag/main.py): its row and its chunks in MySQL, its points in     *)
(* Qdrant, which is what replies search.  Operators create, edit, take     *)
(* down and reindex it; a copy of the row waits in a batch in memory until *)
(* an indexer hands it to campus-rag and writes what came of it over the   *)
(* row, by id.  A call of campus-rag that is given up runs on.             *)
(***************************************************************************)
EXTENDS Integers, Sequences

CONSTANTS
    Editors,      \* requests of operators
    Indexers,     \* who takes the batch: the timer, the task server's loop, Stop
    MaxChanges,   \* bound: requests that change the document
    MaxErrors     \* bound: errors and crashes

ASSUME KnowledgeAssumption == MaxChanges \in Nat /\ MaxErrors \in Nat

VARIABLES
    row,       \* status and edition of title, category, validity...
    chunks,    \* the edition campus_knowledge_chunk has, 0 for none
    points,    \* the edition Qdrant has, 0 for none
    editor,    \* what each request is doing, with its copy of the row
    batch,     \* editions of the copies that wait
    indexer,   \* what each indexer does with the first of its copies
    stray,     \* a call of campus-rag nobody waits for
    doubt,     \* history: since the last change that was begun with all at rest, another
               \* was begun before it ended, or it was left halfway
    changes,
    errors

editorVars == <<editor, changes>>
indexVars == <<batch, indexer>>
storeVars == <<row, chunks, points>>
knowledgeVars == <<storeVars, editorVars, indexVars, stray, doubt, errors>>

DocEditions == 1..MaxChanges
Down == {"draft", "disabled"}

NoRow == [status |-> "none", edition |-> 0]
NoEdit == [at |-> "idle", copy |-> NoRow, adds |-> FALSE]
NoWork == [at |-> "idle", docs |-> <<>>]
NoCall == [at |-> "idle", edition |-> 0]

InitKnowledge ==
    /\ row = NoRow /\ chunks = 0 /\ points = 0
    /\ editor = [o \in Editors |-> NoEdit]
    /\ batch = <<>>
    /\ indexer = [w \in Indexers |-> NoWork]
    /\ stray = NoCall
    /\ doubt = FALSE
    /\ changes = 0 /\ errors = 0

AllAtRest ==
    /\ \A o \in Editors : editor[o].at = "idle"
    /\ batch = <<>> /\ \A w \in Indexers : indexer[w].at = "idle"
    /\ stray.at = "idle"

Error == errors < MaxErrors /\ errors' = errors + 1

(* AdminCreateKnowledgeDocument: a draft, or a row to be indexed. *)
Create(o) ==
    /\ row.status = "none" /\ changes < MaxChanges /\ changes' = changes + 1
    /\ \E s \in {"draft", "indexing"} :
           /\ row' = [status |-> s, edition |-> changes + 1]
           /\ editor' = [editor EXCEPT ![o] =
                  IF s = "draft" THEN NoEdit ELSE [at |-> "add", copy |-> row', adds |-> TRUE]]
    /\ UNCHANGED <<chunks, points, indexVars, stray, doubt, errors>>

(* A request reads the row, decides by its copy and writes all of it back. *)
Begin(o, place, status, edition, adds) ==
    /\ editor[o].at = "idle" /\ row.status # "none"
    /\ changes < MaxChanges /\ changes' = changes + 1
    /\ editor' = [editor EXCEPT ![o] =
           [at |-> place, copy |-> [status |-> status, edition |-> edition], adds |-> adds]]
    /\ doubt' = (~AllAtRest \/ (doubt /\ ~adds /\ place = "write"))
    /\ UNCHANGED <<storeVars, indexVars, stray, errors>>

(* Faulty variant: an edit of an active document is not indexed. *)
NeedsReindexNever(edition) == FALSE

NeedsReindex(edition) == row.status = "active" /\ edition # row.edition

(* AdminUpdateKnowledgeDocument without another status; *)
Edit(o, edition) ==
    LET again == NeedsReindex(edition)
    IN  Begin(o, "write", IF again THEN "indexing" ELSE row.status, edition, again)

(* to active, and AdminReindexKnowledgeDocument; *)
Reindex(o, edition) == Begin(o, "write", "indexing", edition, TRUE)

(* to draft or disabled: *)
TakeDown(o, status, edition) ==
    status # row.status /\ Begin(o, "erase", status, edition, FALSE)

(* campus-rag deletes the points, and its error is ignored; the call may still run on, *)
Erase(o) ==
    /\ editor[o].at = "erase"
    /\ \/ points' = 0 /\ UNCHANGED <<stray, doubt, errors>>
       \/ points' = points /\ doubt' = TRUE /\ Error /\ stray' = stray
       \/ /\ stray.at = "idle" /\ stray' = [at |-> "delete", edition |-> 0]
          /\ points' = points /\ doubt' = TRUE /\ Error
    /\ editor' = [editor EXCEPT ![o].at = "clear"]
    /\ UNCHANGED <<row, chunks, changes, indexVars>>

(* then the chunks go, *)
Clear(o) ==
    /\ editor[o].at = "clear"
    /\ chunks' = 0
    /\ editor' = [editor EXCEPT ![o].at = "write"]
    /\ UNCHANGED <<row, points, changes, indexVars, stray, doubt, errors>>

(* then the row is written (UpdateKnowledgeDocument). *)
Overwrite(o) ==
    /\ editor[o].at = "write"
    /\ row' = editor[o].copy
    /\ editor' = [editor EXCEPT ![o] = IF @.adds THEN [@ EXCEPT !.at = "add"] ELSE NoEdit]
    /\ UNCHANGED <<chunks, points, changes, indexVars, stray, doubt, errors>>

(* enqueueKnowledgeIndex *)
Enqueue(o) ==
    /\ editor[o].at = "add"
    /\ batch' = Append(batch, editor[o].copy.edition)
    /\ editor' = [editor EXCEPT ![o] = NoEdit]
    /\ UNCHANGED <<storeVars, changes, indexer, stray, doubt, errors>>

(* An error ends the request: points, or points and chunks, are gone, the row says nothing of it. *)
EditFails(o) ==
    /\ editor[o].at \in {"clear", "write"}
    /\ editor' = [editor EXCEPT ![o] = NoEdit]
    /\ doubt' = TRUE
    /\ Error
    /\ UNCHANGED <<storeVars, changes, indexVars, stray>>

(* processKnowledgeIndexBatch, of all that waits. *)
Flush(w) ==
    /\ indexer[w].at = "idle" /\ batch # <<>>
    /\ indexer' = [indexer EXCEPT ![w] = [at |-> "delete", docs |-> batch]]
    /\ batch' = <<>>
    /\ UNCHANGED <<storeVars, editorVars, stray, doubt, errors>>

Doc(w) == Head(indexer[w].docs)
Works(w, place) == indexer[w].at = place
Goes(w, place) == indexer' = [indexer EXCEPT ![w].at = place]

NextDoc(w) ==
    indexer' = [indexer EXCEPT ![w] =
        IF Len(@.docs) = 1 THEN NoWork ELSE [at |-> "delete", docs |-> Tail(@.docs)]]

(* index_content in campus-rag: the points of the document are deleted, *)
RagDeletes(w) ==
    /\ Works(w, "delete") /\ Goes(w, "upsert")
    /\ points' = 0
    /\ UNCHANGED <<row, chunks, editorVars, batch, stray, doubt, errors>>

(* and new ones written. *)
RagUpserts(w) ==
    /\ Works(w, "upsert") /\ Goes(w, "chunks")
    /\ points' = Doc(w)
    /\ UNCHANGED <<row, chunks, editorVars, batch, stray, doubt, errors>>

(* indexKnowledgeDocument goes on with the chunks, *)
SaveChunks(w) ==
    /\ Works(w, "chunks") /\ Goes(w, "write")
    /\ chunks' = Doc(w)
    /\ UNCHANGED <<row, points, editorVars, batch, stray, doubt, errors>>

(* and the row, which becomes its copy. *)
MarkActive(w) ==
    /\ Works(w, "write") /\ NextDoc(w)
    /\ row' = [status |-> "active", edition |-> Doc(w)]
    /\ UNCHANGED <<chunks, points, editorVars, batch, stray, doubt, errors>>

(* Faulty variant: an error is only logged. *)
LoggedOnly(w) == NextDoc(w)

AfterError(w) == Goes(w, "mark")

(* An error of campus-rag or of the chunks; if the call timed out, it runs on. *)
IndexFails(w) ==
    /\ indexer[w].at \in {"delete", "upsert", "chunks"}
    /\ \/ stray' = stray
       \/ /\ stray.at = "idle" /\ ~Works(w, "chunks")
          /\ stray' = [at |-> indexer[w].at, edition |-> Doc(w)]
    /\ AfterError(w)
    /\ Error
    /\ UNCHANGED <<storeVars, editorVars, batch, doubt>>

MarkFailed(w) ==
    /\ Works(w, "mark") /\ NextDoc(w)
    /\ row' = [status |-> "failed", edition |-> Doc(w)]
    /\ UNCHANGED <<chunks, points, editorVars, batch, stray, doubt, errors>>

(* An error of the row's last write, or the end of the batch's ninety seconds. *)
IndexStops(w) ==
    /\ ~Works(w, "idle")
    /\ \/ indexer[w].at \in {"write", "mark"} /\ NextDoc(w)
       \/ indexer' = [indexer EXCEPT ![w] = NoWork]
    /\ doubt' = TRUE
    /\ Error
    /\ UNCHANGED <<storeVars, editorVars, batch, stray>>

(* The process dies, with the batch; a call of campus-rag may go on. *)
Die ==
    /\ ~AllAtRest
    /\ editor' = [o \in Editors |-> NoEdit]
    /\ batch' = <<>> /\ indexer' = [w \in Indexers |-> NoWork]
    /\ \/ stray' = stray
       \/ \E w \in Indexers :
              /\ stray.at = "idle" /\ indexer[w].at \in {"delete", "upsert"}
              /\ stray' = [at |-> indexer[w].at, edition |-> Doc(w)]
    /\ doubt' = TRUE
    /\ Error
    /\ UNCHANGED <<storeVars, changes>>

StrayRuns ==
    /\ stray.at # "idle"
    /\ points' = IF stray.at = "delete" THEN 0 ELSE stray.edition
    /\ stray' = IF stray.at = "delete" /\ stray.edition # 0 THEN [stray EXCEPT !.at = "upsert"] ELSE NoCall
    /\ UNCHANGED <<row, chunks, editorVars, indexVars, doubt, errors>>

Beginning(o) ==
    \E edition \in {row.edition, changes + 1} :
        \/ Edit(o, edition) \/ Reindex(o, edition)
        \/ \E s \in Down : TakeDown(o, s, edition)

Finishing(o) == Erase(o) \/ Clear(o) \/ Overwrite(o) \/ Enqueue(o)
Indexing(w) == Flush(w) \/ RagDeletes(w) \/ RagUpserts(w) \/ SaveChunks(w) \/ MarkActive(w) \/ MarkFailed(w)

KnowledgeNext ==
    \/ \E o \in Editors : Create(o) \/ Beginning(o) \/ Finishing(o) \/ EditFails(o)
    \/ \E w \in Indexers : Indexing(w) \/ IndexFails(w) \/ IndexStops(w)
    \/ StrayRuns \/ Die

(* Requests, the batch's timer and the calls of campus-rag come to an end. *)
KnowledgeFairness ==
    /\ WF_knowledgeVars(\E o \in Editors : Finishing(o))
    /\ WF_knowledgeVars(\E w \in Indexers : Indexing(w))
    /\ WF_knowledgeVars(StrayRuns)

KnowledgeSpec == InitKnowledge /\ [][KnowledgeNext]_knowledgeVars /\ KnowledgeFairness

-----------------------------------------------------------------------------
Rows == [status : {"none", "draft", "indexing", "active", "disabled", "failed"}, edition : 0..MaxChanges]

(* The row, its copies and the calls hold values the code can write. *)
KnowledgeTypeOK ==
    /\ row \in Rows
    /\ chunks \in 0..MaxChanges /\ points \in 0..MaxChanges
    /\ editor \in [Editors -> [at : {"idle", "erase", "clear", "write", "add"}, copy : Rows, adds : BOOLEAN]]
    /\ batch \in Seq(DocEditions)
    /\ indexer \in [Indexers -> [at : {"idle", "delete", "upsert", "chunks", "write", "mark"}, docs : Seq(DocEditions)]]
    /\ stray \in [at : {"idle", "delete", "upsert"}, edition : 0..MaxChanges]
    /\ doubt \in BOOLEAN
    /\ changes \in 0..MaxChanges /\ errors \in 0..MaxErrors

(* When all is at rest, an active document is in Qdrant and in the chunks as its row says, and
   one that was taken down is in neither, unless changes overlapped or one was left halfway. *)
KnowledgeAgrees ==
    AllAtRest /\ ~doubt =>
        /\ row.status = "active" => points = row.edition /\ chunks = row.edition
        /\ row.status \in Down => points = 0 /\ chunks = 0

(* docs/ai-rag.md: a draft or disabled document takes no part in the search. *)
DisabledIsNotSearched == AllAtRest /\ row.status \in Down => points = 0

(* Again and again the document is not "indexing", unless changes overlapped or its copy was
   lost: no plain error leaves it so for ever. *)
IndexingEnds == []<>(row.status = "indexing" => doubt)

=============================================================================
