---------------------------- MODULE HistoryPage ----------------------------
(***************************************************************************)
(* The web page's job history (internal/server/static/app.js) and the      *)
(* requests it makes: pages are fetched and jobs deleted asynchronously,   *)
(* several requests may be in flight, and their answers are rendered in    *)
(* the order they arrive.  The server reads a page and the count of jobs   *)
(* in two store calls.                                                     *)
(*                                                                         *)
(* The history is the sequence of jobs as the store lists it.  The page    *)
(* size and the number of protected jobs, both 50, are constants.  That    *)
(* the protected jobs are read before the deletion is JobManager's.        *)
(***************************************************************************)
EXTENDS Integers, Sequences, SequencesExt

CONSTANTS
    Job,
    PageSize,     \* JOBS_PAGE_LIMIT
    Protected,    \* protectedJobCount
    Slot,         \* requests that may be in flight at once
    Absent        \* no request, no page

Page == [jobs : Seq(Job), total : Nat, offset : Nat]

Fetches == [at : {"fetch"}, offset : Nat]
           \cup [at : {"listed"}, offset : Nat, jobs : Seq(Job)]
           \cup [at : {"counted"}, page : Page]

Deletions == [at : {"delete", "deleted", "refused"}, job : Job]

ASSUME HistoryAssumption ==
    /\ IsFiniteSet(Job)
    /\ PageSize \in Nat \ {0} /\ Protected \in Nat
    /\ Absent \notin Page \cup Fetches \cup Deletions

VARIABLES
    history,      \* the jobs, as ListJobsPage orders them
    pending,      \* the requests in flight
    offset,       \* jobsOffset
    page,         \* currentJobsPage
    displayed,    \* what #jobs shows: "nothing", "page" or "error"
    disturbed,    \* history: another client changed the jobs, two requests
                  \* overlapped, or the answer to a deletion was lost
    restored      \* history: a language switch brought back a page that an
                  \* error or the request of another page had replaced

historyVars == <<history, pending, offset, page, displayed, disturbed,
                 restored>>

(* Types; jobs are listed once, and offsets are never negative.            *)
HistoryTypeOK ==
    /\ history \in Seq(Job)
    /\ \A i, j \in 1..Len(history) : history[i] = history[j] => i = j
    /\ pending \in [Slot -> Fetches \cup Deletions \cup {Absent}]
    /\ offset \in Nat
    /\ page \in Page \cup {Absent}
    /\ displayed \in {"nothing", "page", "error"}
    /\ displayed = "page" => page # Absent
    /\ disturbed \in BOOLEAN /\ restored \in BOOLEAN

-----------------------------------------------------------------------------
Unfloored(n) == n

Floor(n) == IF n < 0 THEN 0 ELSE n

(* ListJobsPage.                                                           *)
PageAt(off) ==
    [i \in 1..Floor(IF Len(history) - off < PageSize THEN Len(history) - off
                    ELSE PageSize) |-> history[off + i]]

(* The history without a job.                                              *)
Without(j) ==
    IF \E i \in 1..Len(history) : history[i] = j
    THEN RemoveAt(history, CHOOSE i \in 1..Len(history) : history[i] = j)
    ELSE history

(* The jobs of a page that have a delete button.                           *)
OfferedFromSecond(p) ==
    {p.jobs[i] : i \in {j \in 1..Len(p.jobs) : p.offset + j >= Protected}}

Offered(p) ==
    {p.jobs[i] : i \in {j \in 1..Len(p.jobs) : p.offset + j - 1 >= Protected}}

(* The page that deleteJob shows next: after the only row of a page, the   *)
(* page before it.                                                         *)
OffsetKept == offset

OffsetAfterDelete ==
    IF page # Absent /\ Len(page.jobs) = 1 THEN Floor(offset - PageSize)
    ELSE offset

Busy == \E s \in Slot : pending[s] # Absent

(* fetchJobs on a slot.                                                    *)
Fetch(s, off) ==
    /\ offset' = off
    /\ pending' = [pending EXCEPT ![s] = [at |-> "fetch", offset |-> off]]

-----------------------------------------------------------------------------
HistoryInit ==
    /\ history \in SetToSeqs(Job)
    /\ \E s \in Slot : pending = [r \in Slot |->
          IF r = s THEN [at |-> "fetch", offset |-> 0] ELSE Absent]
    /\ offset = 0
    /\ page = Absent
    /\ displayed = "nothing"
    /\ disturbed = FALSE /\ restored = FALSE

(* The refresh button, the pager, and the reload after a dry run or apply. *)
Reload(s) ==
    /\ pending[s] = Absent
    /\ \/ Fetch(s, offset)
       \/ displayed = "page" /\ page.offset > 0
          /\ Fetch(s, Floor(page.offset - PageSize))
       \/ displayed = "page" /\ page.offset + Len(page.jobs) < page.total
          /\ Fetch(s, page.offset + PageSize)
       \/ Fetch(s, 0)
    /\ disturbed' = (disturbed \/ Busy)
    /\ UNCHANGED <<history, page, displayed, restored>>

(* handleJobs lists a page, then counts the jobs.                          *)
List(s) ==
    /\ pending[s] \in Fetches /\ pending[s].at = "fetch"
    /\ pending' = [pending EXCEPT ![s] =
                      [at |-> "listed", offset |-> pending[s].offset,
                       jobs |-> PageAt(pending[s].offset)]]
    /\ UNCHANGED <<history, offset, page, displayed, disturbed, restored>>

Count(s) ==
    /\ pending[s] \in Fetches /\ pending[s].at = "listed"
    /\ pending' = [pending EXCEPT ![s] =
                      [at |-> "counted",
                       page |-> [jobs |-> pending[s].jobs,
                                 total |-> Len(history),
                                 offset |-> pending[s].offset]]]
    /\ UNCHANGED <<history, offset, page, displayed, disturbed, restored>>

(* renderJobs on the answer, and the box that replaces it on an error.     *)
RenderAtOldOffset(s) ==
    /\ pending[s] \in Fetches /\ pending[s].at = "counted"
    /\ page' = pending[s].page
    /\ displayed' = "page"
    /\ pending' = [pending EXCEPT ![s] = Absent]
    /\ UNCHANGED <<history, offset, disturbed, restored>>

Render(s) ==
    /\ pending[s] \in Fetches /\ pending[s].at = "counted"
    /\ page' = pending[s].page
    /\ offset' = page'.offset
    /\ displayed' = "page"
    /\ pending' = [pending EXCEPT ![s] = Absent]
    /\ UNCHANGED <<history, disturbed, restored>>

FetchFails(s) ==
    /\ pending[s] \in Fetches
    /\ displayed' = "error"
    /\ pending' = [pending EXCEPT ![s] = Absent]
    /\ UNCHANGED <<history, offset, page, disturbed, restored>>

(* applyLanguage renders the last page again, wherever the history is by   *)
(* then and whatever is displayed or requested instead of it.              *)
SwitchHistoryLanguage ==
    /\ \/ page = Absent /\ UNCHANGED <<offset, displayed, restored>>
       \/ /\ page # Absent
          /\ offset' = page.offset
          /\ displayed' = "page"
          /\ restored' = (restored \/ displayed # "page" \/ offset # page.offset)
    /\ UNCHANGED <<history, pending, page, disturbed>>

-----------------------------------------------------------------------------
(* A delete button that the page shows.                                    *)
ClickDelete(s, j) ==
    /\ pending[s] = Absent
    /\ displayed = "page" /\ j \in Offered(page)
    /\ disturbed' = (disturbed \/ Busy)
    /\ pending' = [pending EXCEPT ![s] = [at |-> "delete", job |-> j]]
    /\ UNCHANGED <<history, offset, page, displayed, restored>>

(* handleDeleteJob: a job that is protected or gone is refused.            *)
Delete(s) ==
    /\ pending[s] \in Deletions /\ pending[s].at = "delete"
    /\ LET j == pending[s].job
           deletable == \E i \in 1..Len(history) :
                           history[i] = j /\ i > Protected
       IN  /\ history' = IF deletable THEN Without(j) ELSE history
           /\ pending' = [pending EXCEPT ![s].at =
                             IF deletable THEN "deleted" ELSE "refused"]
    /\ UNCHANGED <<offset, page, displayed, disturbed, restored>>

(* deleteJob goes on after the answer.                                     *)
AfterDelete(s) ==
    /\ pending[s] \in Deletions /\ pending[s].at = "deleted"
    /\ Fetch(s, OffsetAfterDelete)
    /\ UNCHANGED <<history, page, displayed, disturbed, restored>>

(* The deletion is refused, fails, or its answer is lost: an alert.        *)
DeleteFails(s) ==
    /\ pending[s] \in Deletions
    /\ disturbed' = (disturbed \/ pending[s].at = "deleted")
    /\ pending' = [pending EXCEPT ![s] = Absent]
    /\ UNCHANGED <<history, offset, page, displayed, restored>>

-----------------------------------------------------------------------------
(* Another client deletes a job, and a job is created or updated.          *)
OtherDeletes(j) ==
    /\ \E i \in 1..Len(history) : history[i] = j /\ i > Protected
    /\ history' = Without(j)
    /\ disturbed' = TRUE
    /\ UNCHANGED <<pending, offset, page, displayed, restored>>

JobUpdated(j) ==
    /\ history' = <<j>> \o Without(j)
    /\ history' # history
    /\ disturbed' = TRUE
    /\ UNCHANGED <<pending, offset, page, displayed, restored>>

HistoryRequests ==
    \/ \E s \in Slot :
          \/ Reload(s) \/ List(s) \/ Count(s) \/ Render(s) \/ FetchFails(s)
          \/ \E j \in Job : ClickDelete(s, j)
          \/ Delete(s) \/ AfterDelete(s) \/ DeleteFails(s)
    \/ \E j \in Job : OtherDeletes(j) \/ JobUpdated(j)

HistoryNext == HistoryRequests \/ SwitchHistoryLanguage

HistorySpec == HistoryInit /\ [][HistoryNext]_historyVars

-----------------------------------------------------------------------------
ShowsEmpty == displayed = "page" /\ page.jobs = <<>>

(* The page says "Job history is empty." only when there was no job.       *)
EmptyMeansNoJobs == ShowsEmpty => page.total = 0

(* An operator who waits for each answer, alone, is never left on an empty *)
(* page of a history that has jobs: after the deletion of the last row of  *)
(* a page the page before it is shown.                                     *)
EmptyWhenAlone == ~disturbed => EmptyMeansNoJobs

(* The same of an operator for whom no language switch has brought back a  *)
(* page that an error, or the request of another page, had replaced.       *)
EmptyWhenUndisturbed == ~disturbed /\ ~restored => EmptyMeansNoJobs

(* With nothing in flight, a refresh and a deletion work on the page that  *)
(* is displayed, in whatever order the answers of several requests came.   *)
RefreshKeepsPage ==
    (\A s \in Slot : pending[s] = Absent) /\ displayed = "page" =>
       offset = page.offset

(* A page that still shows what the store would list offers no job for     *)
(* deletion that the server protects, and every other job of the page.     *)
OfferedIsDeletable ==
    displayed = "page" /\ page.jobs = PageAt(page.offset) =>
       \A i \in 1..Len(page.jobs) :
          page.jobs[i] \in Offered(page) <=>
             \E k \in 1..Len(history) :
                history[k] = page.jobs[i] /\ k > Protected
=============================================================================
