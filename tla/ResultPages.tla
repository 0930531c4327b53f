----------------------------- MODULE ResultPages -----------------------------
(***************************************************************************)
(* Reading the results of a job page by page: GET /jobs/{id}/results and   *)
(* /jobs/{id}/dead-letter of app/main.py, and the loop of exportJob in the *)
(* dashboard (app/static/ui.html) that puts the pages together.  Every     *)
(* request reads the job as it is at that moment; between two requests     *)
(* results arrive, also for a cancelled job, and shift those behind them.  *)
(*                                                                         *)
(* Readers do not affect each other: a behaviour has one event stream or   *)
(* one export.  The dashboard offers the export once the job is over;      *)
(* other clients may read earlier.                                         *)
(***************************************************************************)
EXTENDS EventStream, FiniteSets, Sequences

CONSTANT PageSize   \* PAGE in exportJob, limit of the endpoints

ASSUME PageAssumption == PageSize \in Nat \ {0}

VARIABLES
  results,   \* Job.results of the watched job
  reader,    \* "idle", "reading", "saved" or "failed"
  listing,   \* what is read: "results" or "dead-letter"
  offset,    \* the offset of the next request
  all,       \* the items of the pages so far
  begun      \* history: what was listed at the first request, and the state

pageVars == <<results, reader, listing, offset, all, begun>>

readerVars == <<life, pc, snap, last, sent,
                results, reader, listing, offset, all, begun>>

Seqs == 0..(MaxBatch - 1)

PageInit ==
  /\ StreamInit
  /\ results = [s \in Seqs |-> "none"]
  /\ reader = "idle" /\ listing = "results" /\ offset = 0 /\ all = <<>>
  /\ begun = [items |-> {}, state |-> "none"]

-----------------------------------------------------------------------------
(* How many elements of S come before s.                                   *)
Rank(S, s) == Cardinality({t \in S : t < s})

(* The numbers of S in ascending order.                                    *)
sorted(S) == [i \in 1..Cardinality(S) |-> CHOOSE s \in S : Rank(S, s) = i - 1]

(* Results in the order of their seq, not of their arrival.                *)
ordered_results == sorted({s \in Seqs : results[s] # "none"})

(* Those that failed, in the same order.                                   *)
dead_letter == sorted({s \in Seqs : results[s] = "error"})

Listed(what) == IF what = "results" THEN ordered_results ELSE dead_letter

Elements(items) == {items[i] : i \in 1..Len(items)}

(* Mutant: the first item of a page is dropped.                            *)
PageFromOne(items) ==
  SelectSeq(items, LAMBDA s : \E i \in 1..Len(items) :
              items[i] = s /\ i \in (offset + 2)..(offset + PageSize + 1))

(* items[offset : offset + limit]                                          *)
Page(items) ==
  LET end == offset + PageSize
  IN  SubSeq(items, offset + 1, IF end <= Len(items) THEN end ELSE Len(items))

(* Mutant: a short page does not end the export.                           *)
CompleteByTotal(what, page, read) == Len(read) >= snapshot.total

(* An export ends on a short page, and an export of results also when it   *)
(* has as many items as the job has prompts.                               *)
Complete(what, page, read) ==
  \/ Len(page) < PageSize
  \/ what = "results" /\ Len(read) >= snapshot.total

(* Mutant: the pages overlap.                                              *)
FetchOverlapping(what) ==
  LET page == Page(Listed(what))
      read == all \o page
  IN  /\ all' = read
      /\ offset' = offset + PageSize - 1
      /\ reader' = IF Complete(what, page, read) THEN "saved" ELSE "reading"

(* One request of the loop and what the client does with the answer.       *)
Fetch(what) ==
  LET page == Page(Listed(what))
      read == all \o page
  IN  /\ all' = read
      /\ offset' = offset + PageSize
      /\ reader' = IF Complete(what, page, read) THEN "saved" ELSE "reading"

(* A job the store does not know is a 404.                                 *)
FirstPage(what) ==
  /\ reader = "idle" /\ pc = "closed"
  /\ snapshot.state # "none"
  /\ Fetch(what)
  /\ listing' = what
  /\ begun' = [items |-> Elements(Listed(what)), state |-> snapshot.state]
  /\ UNCHANGED <<streamVars, results>>

NextPage ==
  /\ reader = "reading"
  /\ Fetch(listing)
  /\ UNCHANGED <<streamVars, results, listing, begun>>

(* A request fails: the export is given up.                                *)
ExportFails ==
  /\ reader = "reading"
  /\ reader' = "failed"
  /\ UNCHANGED <<streamVars, results, listing, offset, all, begun>>

-----------------------------------------------------------------------------
(* An answer is stored under the seq of its prompt; they come in any order.*)
StoreResult(ok) ==
  /\ Answer(Watched, ok)
  /\ \E s \in 0..(snapshot.total - 1) :
       /\ results[s] = "none"
       /\ results' = [results EXCEPT ![s] = IF ok THEN "ok" ELSE "error"]

JobMoves ==
  /\ \/ \E ok \in BOOLEAN : StoreResult(ok)
     \/ /\ \/ \E j \in Jobs, n \in 1..MaxBatch : Accept(j, n)
           \/ \E S \in SUBSET Jobs : Cancel(S)
        /\ UNCHANGED results
  /\ UNCHANGED <<pc, snap, last, sent, reader, listing, offset, all, begun>>

StreamClient ==
  /\ reader = "idle"
  /\ Open \/ Disconnect
  /\ UNCHANGED pageVars

StreamTurn == reader = "idle" /\ StreamStep /\ UNCHANGED pageVars

ReaderNext ==
  \/ \E what \in {"results", "dead-letter"} : FirstPage(what)
  \/ NextPage
  \/ ExportFails
  \/ JobMoves
  \/ StreamClient
  \/ StreamTurn

(* The event loop resumes the generator when its sleep or send is over.    *)
ReaderSpec ==
  PageInit /\ [][ReaderNext]_readerVars /\ WF_readerVars(StreamTurn)

-----------------------------------------------------------------------------
(***************************************************************************)
(* An export misses nothing that was there when it began, although the     *)
(* positions of the results shift under it, and contains nothing that is   *)
(* not a result.                                                           *)
(***************************************************************************)
NothingPresentIsMissed ==
  reader = "saved" => /\ begun.items \subseteq Elements(all)
                      /\ Elements(all) \subseteq Elements(Listed(listing))

(***************************************************************************)
(* The export of a completed job is exact: every result once, in the order *)
(* of submission, across the page boundaries.                              *)
(***************************************************************************)
CompletedExportIsExact ==
  reader = "saved" /\ begun.state = "completed" => all = Listed(listing)

(***************************************************************************)
(* An export ends after as many requests as the batch has pages, and one   *)
(* that finds nothing: also for a cancelled job, which never has a result  *)
(* for every prompt, and while results keep arriving.                      *)
(***************************************************************************)
ExportIsBounded == offset <= snapshot.total + PageSize

=============================================================================
