------------------------------- MODULE SearchIndex -------------------------------
(***************************************************************************)
(* How an edited transcript reaches the search: an edit of a completed      *)
(* meeting gives its source a new search_revision and queues a reindex;     *)
(* until the receipt of that revision is written, a search drops what the   *)
(* two indexes still hold of the meeting.  One meeting, whose texts are     *)
(* numbered: text 0 was never edited and has no revision, text n has        *)
(* revision n.  Edits and reindexes hold the meeting's lease; searches hold *)
(* nothing, and read the indexes, the source, the receipt and embed.json    *)
(* one after the other.                                                     *)
(***************************************************************************)
EXTENDS Naturals

CONSTANTS
    MaxUtteranceEdits,           \* bound of the edits
    MaxIndexTroubles    \* bound of failing writes and restarts

ASSUME SearchAssumption == MaxUtteranceEdits \in Nat /\ MaxIndexTroubles \in Nat

VARIABLES
    source,       \* the text of the transcript: its number
    rowReady,     \* whether the meeting's row says "completed"
    vector,       \* the text the ChromaDB collection holds of it, or -1
    fts,          \* the text the FTS5 table holds of it, or -1
    embedJson,    \* the text of embed.json
    receipt,      \* search_receipt.json
    queued,       \* reindex tasks of edits that wait for the lease
    reindex,      \* the reindex that holds the lease
    allBusy,      \* app.state.reindex_lock_busy
    search,       \* a search under way
    indexLeft     \* what is left of the bound

searchVars == <<source, rowReady, vector, fts, embedJson, receipt, queued, reindex, allBusy,
                search, indexLeft>>

NoChunks == 0 - 1                      \* no chunk of the meeting
NoIndexReceipt == [revision |-> 0, state |-> "none"]
NoReindex == [by |-> "none", at |-> "none"]
NoSearch == [at |-> "none"]

SearchInit ==
    /\ source = 0 /\ rowReady = TRUE
    /\ vector = 0 /\ fts = 0 /\ embedJson = 0
    /\ receipt = NoIndexReceipt
    /\ queued = 0 /\ reindex = NoReindex /\ allBusy = "no"
    /\ search = NoSearch
    /\ indexLeft = MaxIndexTroubles

\* revision_status
Status ==
    IF source = 0 THEN "legacy"
    ELSE IF receipt = NoIndexReceipt \/ receipt.revision # source THEN "pending"
    ELSE receipt.state

Unserved == {"pending", "failed", "running"}

\* index_health: both indexes hold the chunks embed.json lists; by their ids,
\* which an edit does not change.
Health ==
    IF Status \in Unserved THEN Status
    ELSE IF vector = NoChunks THEN "missing"
    ELSE IF fts = NoChunks THEN "incomplete" ELSE "current"

IndexTrouble == indexLeft > 0 /\ indexLeft' = indexLeft - 1

------------------------------------------------------------------------------
(* Edits, and what starts a reindex. *)

\* update_transcript, replace_transcript_pattern: a replacement that changes
\* nothing writes nothing and queues nothing.
EditUtterance ==
    /\ reindex = NoReindex /\ rowReady /\ source < MaxUtteranceEdits
    /\ source' = source + 1
    /\ queued' = queued + 1
    /\ UNCHANGED <<rowReady, vector, fts, embedJson, receipt, reindex, allBusy, search, indexLeft>>

\* An A/B test or a retry takes the row out of "completed", and back.
RowTurns ==
    /\ rowReady' = ~rowReady
    /\ UNCHANGED <<source, vector, fts, embedJson, receipt, queued, reindex, allBusy, search, indexLeft>>

TakesReindex(by, at) == reindex' = [by |-> by, at |-> at]

\* The task of an edit: nothing to do when a later task did it.
TaskTurn ==
    /\ queued > 0 /\ reindex = NoReindex
    /\ queued' = queued - 1
    /\ IF rowReady /\ Status \in Unserved
       THEN \/ /\ receipt' = [revision |-> source, state |-> "running"]
               /\ TakesReindex("edit", "begin") /\ UNCHANGED indexLeft
            \/ IndexTrouble /\ TakesReindex("edit", "failed") /\ UNCHANGED receipt
       ELSE UNCHANGED <<receipt, reindex, indexLeft>>
    /\ UNCHANGED <<source, rowReady, vector, fts, embedJson, allBusy, search>>

\* POST /meetings/{id}/reindex
ReindexRequest ==
    /\ reindex = NoReindex /\ rowReady
    /\ TakesReindex("request", "begin")
    /\ UNCHANGED <<source, rowReady, vector, fts, embedJson, receipt, queued, allBusy, search, indexLeft>>

\* POST /reindex/all: one at a time; the meetings are chosen first, and each is
\* reindexed when its lease is free, whatever its row says by then.
ReindexAll ==
    /\ allBusy = "no"
    /\ allBusy' = IF rowReady /\ Health # "current" THEN "chosen" ELSE "no"
    /\ UNCHANGED <<source, rowReady, vector, fts, embedJson, receipt, queued, reindex, search, indexLeft>>

ReindexChosen ==
    /\ allBusy = "chosen" /\ reindex = NoReindex
    /\ allBusy' = "runs" /\ TakesReindex("all", "begin")
    /\ UNCHANGED <<source, rowReady, vector, fts, embedJson, receipt, queued, search, indexLeft>>

------------------------------------------------------------------------------
(* _reindex_meeting_artifacts_locked and Embedder.embed *)

After(at) ==
    CASE at = "begin"   -> "emptied"   \* the meeting's vectors are deleted,
      [] at = "emptied" -> "added"     \* the new ones added,
      [] at = "added"   -> "stored"    \* the FTS5 rows replaced,
      [] at = "stored"  -> "receipt"   \* embed.json written, then the receipt
      [] OTHER          -> "end"

ReindexStep ==
    /\ reindex.at \in {"begin", "emptied", "added", "stored", "receipt"}
    /\ LET at == After(reindex.at) IN
       /\ vector' = IF at = "emptied" THEN NoChunks ELSE IF at = "added" THEN source ELSE vector
       /\ fts' = IF at = "stored" THEN source ELSE fts
       /\ embedJson' = IF at \in {"receipt", "end"} THEN source ELSE embedJson
       /\ receipt' = IF reindex.at = "receipt" /\ source # 0
                     THEN [revision |-> source, state |-> "current"] ELSE receipt
       /\ TakesReindex(reindex.by, at)
    /\ UNCHANGED <<source, rowReady, queued, allBusy, search, indexLeft>>

\* A model, a store or a file fails: a store that does takes what is in both
\* with it, unless they cannot be emptied either.
ReindexFails ==
    /\ reindex.at \in {"begin", "emptied", "added", "stored", "receipt"}
    /\ IndexTrouble
    /\ IF reindex.at \in {"emptied", "added"}
       THEN \/ vector' = NoChunks /\ fts' = NoChunks
            \/ UNCHANGED <<vector, fts>>
       ELSE UNCHANGED <<vector, fts>>
    /\ TakesReindex(reindex.by, "failed")
    /\ UNCHANGED <<source, rowReady, embedJson, receipt, queued, allBusy, search>>

\* Only the task of an edit says so in the receipt, if that can be written.
ReindexEnds ==
    /\ reindex.at \in {"failed", "end"}
    /\ reindex' = NoReindex
    /\ IF reindex.by = "edit" /\ reindex.at = "failed"
       THEN \/ /\ receipt' = [revision |-> source, state |-> "failed"]
               /\ UNCHANGED indexLeft
            \/ IndexTrouble /\ UNCHANGED receipt
       ELSE UNCHANGED <<receipt, indexLeft>>
    /\ allBusy' = IF reindex.by = "all" THEN "no" ELSE allBusy
    /\ UNCHANGED <<source, rowReady, vector, fts, embedJson, queued, search>>

\* The process dies and starts again: recover_edited_indexes queues what is
\* not served.
RestartServer ==
    /\ IndexTrouble
    /\ reindex' = NoReindex /\ allBusy' = "no" /\ search' = NoSearch
    /\ queued' = IF rowReady /\ Status \in Unserved THEN 1 ELSE 0
    /\ UNCHANGED <<source, rowReady, vector, fts, embedJson, receipt>>

------------------------------------------------------------------------------
(* HybridSearchEngine.search *)

UnreadRow == 0 - 2

AskSearch ==
    /\ search = NoSearch
    /\ search' = [at |-> "read", asked |-> source, vector |-> UnreadRow, fts |-> UnreadRow,
                  status |-> "none", hits |-> {}]
    /\ UNCHANGED <<source, rowReady, vector, fts, embedJson, receipt, queued, reindex, allBusy, indexLeft>>

\* _search_vector and _search_fts in two threads; one that fails finds nothing
\* and is named in the response.
ReadVector ==
    /\ search.at = "read" /\ search.vector = UnreadRow
    /\ search' \in {[search EXCEPT !.vector = vector], [search EXCEPT !.vector = NoChunks]}
    /\ UNCHANGED <<source, rowReady, vector, fts, embedJson, receipt, queued, reindex, allBusy, indexLeft>>

ReadFts ==
    /\ search.at = "read" /\ search.fts = UnreadRow
    /\ search' \in {[search EXCEPT !.fts = fts], [search EXCEPT !.fts = NoChunks]}
    /\ UNCHANGED <<source, rowReady, vector, fts, embedJson, receipt, queued, reindex, allBusy, indexLeft>>

\* filter_current_results, first of the vectors' hits, then of the words'.
ReadStatus ==
    /\ \/ search.at = "read" /\ UnreadRow \notin {search.vector, search.fts}
       \/ search.at = "filterFts"
    /\ search' = [search EXCEPT !.status = Status,
                      !.at = IF @ = "read" THEN "vectors" ELSE "words"]
    /\ UNCHANGED <<source, rowReady, vector, fts, embedJson, receipt, queued, reindex, allBusy, indexLeft>>

\* Mutant: the status alone decides.
AcceptsByStatus(hit, status) == hit # NoChunks /\ status \in {"legacy", "current"}

HitAccepted(hit, status) ==
    hit # NoChunks /\ (status = "legacy" \/ (status = "current" /\ hit = embedJson))

Filter ==
    /\ search.at \in {"vectors", "words"}
    /\ LET hit == IF search.at = "vectors" THEN search.vector ELSE search.fts IN
       search' = [search EXCEPT
                     !.at = IF @ = "vectors" THEN "filterFts" ELSE "answered",
                     !.vector = NoChunks, !.fts = IF search.at = "vectors" THEN @ ELSE NoChunks,
                     !.status = "none",
                     !.hits = IF HitAccepted(hit, search.status) THEN @ \cup {hit} ELSE @]
    /\ UNCHANGED <<source, rowReady, vector, fts, embedJson, receipt, queued, reindex, allBusy, indexLeft>>

HitsServed ==
    /\ search.at = "answered" /\ search' = NoSearch
    /\ UNCHANGED <<source, rowReady, vector, fts, embedJson, receipt, queued, reindex, allBusy, indexLeft>>

------------------------------------------------------------------------------

SearchNext ==
    \/ EditUtterance \/ RowTurns \/ TaskTurn
    \/ ReindexRequest \/ ReindexAll \/ ReindexChosen
    \/ ReindexStep \/ ReindexFails \/ ReindexEnds \/ RestartServer
    \/ AskSearch \/ ReadVector \/ ReadFts \/ ReadStatus \/ Filter \/ HitsServed

SearchSpec == SearchInit /\ [][SearchNext]_searchVars

\* What a search answers with is the text the meeting had when the search was
\* asked, or one it got meanwhile: no older one, whatever the indexes held
\* when they were read and however far a reindex had come.
SearchServesCurrentText ==
    search.at = "answered" => \A hit \in search.hits : hit >= search.asked
================================================================================
