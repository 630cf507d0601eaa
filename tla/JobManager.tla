----------------------------- MODULE JobManager -----------------------------
(***************************************************************************)
(* internal/jobs and internal/state: the manager's Plan, Apply and         *)
(* Rollback, and the server's deletion of a job, as concurrent calls over  *)
(* the SQLite state, one step per store or database call.                  *)
(*                                                                         *)
(* The HTTP server and the command line run the same code over the same    *)
(* SQLite file.  A store call may fail (a locked file, a cancelled         *)
(* context), and a process may die between any two steps.  The write to    *)
(* Dokploy is the one-step write of Retarget, which RetargetTx implements: *)
(* whole or nothing, from the reviewed state only, its confirmation        *)
(* possibly lost.  The dry-run reads Dokploy in one step here.             *)
(*                                                                         *)
(* Of the audit events only the kind is kept, and of the dry-run event its *)
(* plan, the one payload that the code reads back.  Jobs are ordered by    *)
(* their last update, as the store lists them, without the times.          *)
(***************************************************************************)
EXTENDS Integers, Sequences, FiniteSets

CONSTANTS
    Res,            \* Dokploy rows that carry a serverId
    Server,         \* server IDs
    Job,            \* job IDs, which are never given out twice
    Client,         \* calls that can be under way at a time
    NoJob,          \* a job ID not given out yet
    Deleted,        \* a job ID whose job was deleted
    NoPlan,         \* no dry-run event
    Idle,           \* no call under way
    ProtectedCount, \* protectedJobCount, the jobs that must not be deleted
    Submitted       \* the plans that operators send

Status == {"pending", "running", "paused", "failed", "succeeded", "rolled_back"}

Checkpoint == {"", "plan", "dry-run-ready", "apply-retarget",
               "metadata-retarget-complete", "rollback-retarget",
               "metadata-rollback-complete"}

JobRow == [src : Server, dst : Server, status : Status, checkpoint : Checkpoint]

(* A plan is named by the job it was made for.                             *)
PlanOf == [id : Job, src : Server, dst : Server, rows : SUBSET Res]

Event == {"created", "api health", "plan failed",
          "applying", "report saved", "apply failed",
          "rolling back", "rollback applied", "rollback failed"}

Step == {"create", "log created", "health", "build", "ready", "store plan",
         "fail plan", "log plan failed",
         "get job", "check plan", "start", "announce", "write",
         "report", "log", "finish", "fail job", "log failed",
         "check protected", "delete"}

Call == [op : {"plan", "apply", "rollback", "delete"}, job : Job,
         plan : PlanOf \cup {NoPlan}, at : Step]

ASSUME ConstantsAssumption ==
    /\ ProtectedCount \in Nat
    /\ NoJob \notin JobRow /\ Deleted \notin JobRow /\ NoJob # Deleted
    /\ NoPlan \notin PlanOf
    /\ Idle \notin Call
    /\ Submitted \subseteq PlanOf

VARIABLES
    server,         \* where Dokploy has each resource
    job,            \* the jobs table
    plans,          \* the plan of each job's "dry-run plan ready" event
    events,         \* the kinds of the other events of each job
    report,         \* the jobs that have a report
    fkOff,          \* a process has a connection without foreign keys
    order,          \* the jobs, the most recently updated first
    call,           \* the calls under way
    lastWrite,      \* what the last committed write for each job was
    faulty,         \* jobs for which a store call failed or a process died
    overlapped      \* jobs that two writing calls served at the same time

store == <<job, plans, events, report, order>>
history == <<lastWrite, faulty, overlapped>>
vars == <<server, store, fkOff, call, history>>

Exists(j) == job[j] \in JobRow

(* The calls that serve a job.                                             *)
Serving(c, j) == call[c] # Idle /\ call[c].job = j
Writing(c, j) == Serving(c, j) /\ call[c].op \in {"apply", "rollback"}

(* Types; the order of the jobs lists every job that exists exactly once.   *)
TypeOK ==
    /\ server \in [Res -> Server]
    /\ job \in [Job -> JobRow \cup {NoJob, Deleted}]
    /\ plans \in [Job -> PlanOf \cup {NoPlan}]
    /\ events \in [Job -> SUBSET Event]
    /\ report \in SUBSET Job
    /\ fkOff \in BOOLEAN
    /\ \A j \in Job : Exists(j) <=> \E i \in DOMAIN order : order[i] = j
    /\ \A i, k \in DOMAIN order : order[i] = order[k] => i = k
    /\ call \in [Client -> Call \cup {Idle}]
    /\ lastWrite \in [Job -> {"none", "apply", "rollback"}]
    /\ faulty \in SUBSET Job
    /\ overlapped \in SUBSET Job

Init ==
    /\ server \in [Res -> Server]
    /\ job = [j \in Job |-> NoJob]
    /\ plans = [j \in Job |-> NoPlan]
    /\ events = [j \in Job |-> {}]
    /\ report = {}
    /\ fkOff = FALSE
    /\ order = <<>>
    /\ call = [c \in Client |-> Idle]
    /\ lastWrite = [j \in Job |-> "none"]
    /\ faulty = {}
    /\ overlapped = {}

-----------------------------------------------------------------------------
(* The store.  Each operation is one SQLite statement or transaction; its  *)
(* operator gives the effect when it succeeds.                             *)

(* The order without a job that it lists.                                  *)
Without(j) ==
    LET k == CHOOSE i \in DOMAIN order : order[i] = j
    IN  SubSeq(order, 1, k - 1) \o SubSeq(order, k + 1, Len(order))

CreateJob(j, s, t) ==
    /\ job[j] = NoJob
    /\ job' = [job EXCEPT ![j] = [src |-> s, dst |-> t,
                                  status |-> "pending", checkpoint |-> ""]]
    /\ order' = <<j>> \o order
    /\ UNCHANGED <<plans, events, report>>

UpdateJobListsTwice(j, status, checkpoint) ==
    /\ Exists(j)
    /\ job' = [job EXCEPT ![j].status = status, ![j].checkpoint = checkpoint]
    /\ order' = <<j>> \o order
    /\ UNCHANGED <<plans, events, report>>

UpdateJob(j, status, checkpoint) ==
    /\ Exists(j)
    /\ job' = [job EXCEPT ![j].status = status, ![j].checkpoint = checkpoint]
    /\ order' = <<j>> \o Without(j)
    /\ UNCHANGED <<plans, events, report>>

(* The foreign keys refuse an event or a report of a deleted job, on a     *)
(* connection that has them switched on.                                   *)
Accepted(j) == Exists(j) \/ fkOff

AppendEventUnchecked(j, kind) ==
    /\ events' = [events EXCEPT ![j] = @ \cup {kind}]
    /\ UNCHANGED <<job, plans, report, order>>

AppendEvent(j, kind) ==
    /\ Accepted(j)
    /\ events' = [events EXCEPT ![j] = @ \cup {kind}]
    /\ UNCHANGED <<job, plans, report, order>>

AppendPlanEvent(j, plan) ==
    /\ Accepted(j)
    /\ plans' = [plans EXCEPT ![j] = plan]
    /\ UNCHANGED <<job, events, report, order>>

SaveReport(j) ==
    /\ Accepted(j)
    /\ report' = report \cup {j}
    /\ UNCHANGED <<job, plans, events, order>>

DeleteJob(j) ==
    /\ Exists(j)
    /\ job' = [job EXCEPT ![j] = Deleted]
    /\ plans' = [plans EXCEPT ![j] = NoPlan]
    /\ events' = [events EXCEPT ![j] = {}]
    /\ report' = report \ {j}
    /\ order' = Without(j)

(* The first jobs of ListJobs.                                             *)
Protected == {order[i] : i \in DOMAIN order \cap 1..ProtectedCount}

-----------------------------------------------------------------------------
(* Calls.                                                                  *)

At(c, step) == call[c] # Idle /\ call[c].at = step

Goto(c, step) == call' = [call EXCEPT ![c].at = step]

Return(c) == call' = [call EXCEPT ![c] = Idle]

(* Open switches the foreign keys on for its first connection only.  When  *)
(* a store call is cancelled, database/sql may have to give up the         *)
(* connection, and its replacement is without them.                        *)
CallCancelled == fkOff' \in {fkOff, TRUE}

(* A store call of c, effect, which may fail without one.  After an error  *)
(* that is checked the call ends; one that is dropped changes nothing of   *)
(* what the call does next; the last store call ends it either way.        *)
Succeeds(effect) == effect /\ UNCHANGED <<fkOff, faulty>>

Fails(c) ==
    /\ faulty' = faulty \cup {call[c].job}
    /\ CallCancelled
    /\ UNCHANGED store

MayFail(c, effect) ==
    /\ Succeeds(effect) \/ Fails(c)
    /\ UNCHANGED <<server, lastWrite, overlapped>>

Checked(c, effect, next) ==
    /\ \/ Succeeds(effect) /\ Goto(c, next)
       \/ Fails(c) /\ Return(c)
    /\ UNCHANGED <<server, lastWrite, overlapped>>

BestEffort(c, effect, next) == MayFail(c, effect) /\ Goto(c, next)

Last(c, effect) == MayFail(c, effect) /\ Return(c)

(* A step that reads, and goes on if cond holds of what it read; a failed  *)
(* read ends the call as well.                                             *)
ReadAndRequire(c, cond, next) ==
    /\ \/ cond /\ Goto(c, next) /\ UNCHANGED fkOff
       \/ Return(c) /\ CallCancelled
    /\ UNCHANGED <<server, store, history>>

Begin(c, op, j, plan, at) ==
    /\ call[c] = Idle
    /\ call' = [call EXCEPT ![c] = [op |-> op, job |-> j, plan |-> plan, at |-> at]]
    /\ UNCHANGED <<server, store, fkOff, lastWrite, faulty>>

-----------------------------------------------------------------------------
(* Plan.  The job ID comes from the clock, so no two calls get the same.   *)

ReceivePlan(c, j, s, t) ==
    /\ job[j] = NoJob /\ \A d \in Client : ~Serving(d, j)
    /\ Begin(c, "plan", j, [id |-> j, src |-> s, dst |-> t, rows |-> {}], "create")
    /\ UNCHANGED overlapped

Create(c) ==
    /\ At(c, "create")
    /\ LET p == call[c].plan
       IN  Checked(c, CreateJob(p.id, p.src, p.dst), "log created")

LogCreated(c) ==
    /\ At(c, "log created")
    /\ Checked(c, AppendEvent(call[c].job, "created"), "health")

(* The health of the Dokploy API is only logged, when there is an API.     *)
Health(c) ==
    /\ At(c, "health")
    /\ \/ BestEffort(c, AppendEvent(call[c].job, "api health"), "build")
       \/ Goto(c, "build") /\ UNCHANGED <<server, store, fkOff, history>>

Build(c) ==
    /\ At(c, "build")
    /\ LET p == call[c].plan
       IN  \/ /\ p.src # p.dst
              /\ call' = [call EXCEPT ![c].at = "ready",
                            ![c].plan.rows = {r \in Res : server[r] = p.src}]
           \/ Goto(c, "fail plan")
    /\ UNCHANGED <<server, store, fkOff, history>>

Ready(c) ==
    /\ At(c, "ready")
    /\ Checked(c, UpdateJob(call[c].job, "paused", "dry-run-ready"), "store plan")

StorePlan(c) ==
    /\ At(c, "store plan")
    /\ Last(c, AppendPlanEvent(call[c].job, call[c].plan))

FailPlan(c) ==
    /\ At(c, "fail plan")
    /\ BestEffort(c, UpdateJob(call[c].job, "failed", "plan"), "log plan failed")

LogPlanFailed(c) ==
    /\ At(c, "log plan failed")
    /\ Last(c, AppendEvent(call[c].job, "plan failed"))

-----------------------------------------------------------------------------
(* Apply and Rollback: the same steps with other names, except that only   *)
(* an apply saves a report.                                                *)

Names(op) ==
    IF op = "apply"
    THEN [announce |-> "applying", logFailed |-> "apply failed",
          log |-> "report saved", during |-> "apply-retarget",
          status |-> "succeeded", after |-> "metadata-retarget-complete"]
    ELSE [announce |-> "rolling back", logFailed |-> "rollback failed",
          log |-> "rollback applied", during |-> "rollback-retarget",
          status |-> "rolled_back", after |-> "metadata-rollback-complete"]

(* The operator sends a plan of his own: the returned one, rows of it, or  *)
(* something else.  An apply without the typed confirmation ends here.  A  *)
(* job ID is known to the operator once it was given out.                  *)
ReceiveWrite(c, op, j, plan) ==
    /\ job[j] # NoJob
    /\ Begin(c, op, j, plan, "get job")
    /\ overlapped' = IF \E d \in Client : Writing(d, j)
                     THEN overlapped \cup {j} ELSE overlapped

GetJob(c) ==
    /\ At(c, "get job")
    /\ LET j == call[c].job
           p == call[c].plan
       IN  ReadAndRequire(c,
               Exists(j) /\ job[j].src = p.src /\ job[j].dst = p.dst,
               "check plan")

(* validatePlanSubset                                                      *)
IsSubset(stored, p) ==
    /\ stored.src = p.src /\ stored.dst = p.dst
    /\ p.rows # {} /\ p.rows \subseteq stored.rows

(* validateStoredDryRunPlan                                                *)
CheckPlanOfAnyJob(c) ==
    /\ At(c, "check plan")
    /\ LET stored == plans[call[c].job]
           p == call[c].plan
       IN  ReadAndRequire(c, stored # NoPlan /\ IsSubset(stored, p), "start")

CheckPlan(c) ==
    /\ At(c, "check plan")
    /\ LET stored == plans[call[c].job]
           p == call[c].plan
       IN  ReadAndRequire(c,
               stored # NoPlan /\ stored.id = p.id /\ IsSubset(stored, p),
               "start")

StartBestEffort(c) ==
    /\ At(c, "start")
    /\ BestEffort(c, UpdateJob(call[c].job, "running", Names(call[c].op).during),
                  "announce")

Start(c) ==
    /\ At(c, "start")
    /\ Checked(c, UpdateJob(call[c].job, "running", Names(call[c].op).during),
               "announce")

AnnounceBestEffort(c) ==
    /\ At(c, "announce")
    /\ BestEffort(c, AppendEvent(call[c].job, Names(call[c].op).announce), "write")

Announce(c) ==
    /\ At(c, "announce")
    /\ Checked(c, AppendEvent(call[c].job, Names(call[c].op).announce), "write")

(* The write to Dokploy, which happened when the call hears of it, or when *)
(* the confirmation was lost.                                              *)
Source(c) == IF call[c].op = "apply" THEN call[c].plan.src ELSE call[c].plan.dst
Target(c) == IF call[c].op = "apply" THEN call[c].plan.dst ELSE call[c].plan.src

WriteCommits(c) ==
    LET op == call[c].op
        rows == call[c].plan.rows
    IN  /\ At(c, "write")
        /\ \A r \in rows : server[r] = Source(c)
        /\ server' = [r \in Res |-> IF r \in rows THEN Target(c) ELSE server[r]]
        /\ lastWrite' = [lastWrite EXCEPT ![call[c].job] = op]
        /\ \/ Goto(c, IF op = "apply" THEN "report" ELSE "log")
           \/ Goto(c, "fail job")
        /\ UNCHANGED <<store, fkOff, faulty, overlapped>>

WriteFailsUnseen(c) ==
    /\ At(c, "write")
    /\ Goto(c, IF call[c].op = "apply" THEN "report" ELSE "log")
    /\ UNCHANGED <<server, store, fkOff, history>>

WriteFails(c) ==
    /\ At(c, "write")
    /\ Goto(c, "fail job")
    /\ UNCHANGED <<server, store, fkOff, history>>

FailJobForgotten(c) ==
    /\ At(c, "fail job")
    /\ Goto(c, "log failed")
    /\ UNCHANGED <<server, store, fkOff, history>>

FailJob(c) ==
    /\ At(c, "fail job")
    /\ BestEffort(c, UpdateJob(call[c].job, "failed", Names(call[c].op).during),
                  "log failed")

LogFailed(c) ==
    /\ At(c, "log failed")
    /\ Last(c, AppendEvent(call[c].job, Names(call[c].op).logFailed))

Report(c) ==
    /\ At(c, "report")
    /\ Checked(c, SaveReport(call[c].job), "log")

Log(c) ==
    /\ At(c, "log")
    /\ Checked(c, AppendEvent(call[c].job, Names(call[c].op).log), "finish")

Finish(c) ==
    /\ At(c, "finish")
    /\ LET n == Names(call[c].op)
       IN  Last(c, UpdateJob(call[c].job, n.status, n.after))

-----------------------------------------------------------------------------
(* handleDeleteJob: the protected jobs are read first, the job is deleted  *)
(* in a transaction of its own.                                            *)

ReceiveDelete(c, j) ==
    /\ job[j] # NoJob
    /\ Begin(c, "delete", j, NoPlan, "check protected")
    /\ UNCHANGED overlapped

CheckProtected(c) ==
    /\ At(c, "check protected")
    /\ ReadAndRequire(c, call[c].job \notin Protected, "delete")

Delete(c) ==
    /\ At(c, "delete")
    /\ Last(c, DeleteJob(call[c].job))

-----------------------------------------------------------------------------
(* The process that serves a call dies.                                    *)
Die(c) ==
    /\ call[c] # Idle
    /\ Return(c)
    /\ faulty' = faulty \cup {call[c].job}
    /\ UNCHANGED <<server, store, fkOff, lastWrite, overlapped>>

DokployMoves(r, s) ==
    /\ server' = [server EXCEPT ![r] = s]
    /\ UNCHANGED <<store, fkOff, call, history>>

Plans(c) ==
    \/ \E j \in Job, s, t \in Server : ReceivePlan(c, j, s, t)
    \/ Create(c) \/ LogCreated(c) \/ Health(c) \/ Build(c) \/ Ready(c)
    \/ StorePlan(c) \/ FailPlan(c) \/ LogPlanFailed(c)

Writes(c) ==
    \/ \E op \in {"apply", "rollback"}, j \in Job, p \in Submitted :
          ReceiveWrite(c, op, j, p)
    \/ GetJob(c) \/ CheckPlan(c) \/ Start(c) \/ Announce(c)
    \/ WriteCommits(c) \/ WriteFails(c) \/ FailJob(c) \/ LogFailed(c)
    \/ Report(c) \/ Log(c) \/ Finish(c)

Deletes(c) ==
    \/ \E j \in Job : ReceiveDelete(c, j)
    \/ CheckProtected(c) \/ Delete(c)

Next ==
    \/ \E c \in Client : Plans(c) \/ Writes(c) \/ Deletes(c) \/ Die(c)
    \/ \E r \in Res, s \in Server : DokployMoves(r, s)

Spec == Init /\ [][Next]_vars

-----------------------------------------------------------------------------
(* A job that is shown as succeeded has its report and the event that says *)
(* so, one that is shown as rolled back has its event, and neither these   *)
(* nor a report exist for a job for which nothing was ever committed.      *)
OutcomeIsDocumented ==
    \A j \in Job :
       /\ Exists(j) /\ job[j].status = "succeeded" =>
             j \in report /\ "report saved" \in events[j]
       /\ Exists(j) /\ job[j].status = "rolled_back" =>
             "rollback applied" \in events[j]
       /\ (j \in report \/ "rollback applied" \in events[j]) =>
             lastWrite[j] # "none"

(* As long as no two writing calls served a job at the same time, and      *)
(* whatever failed, its final status names the last committed write.       *)
StatusNamesLastWrite ==
    \A j \in Job \ overlapped :
       Exists(j) =>
          /\ job[j].status = "succeeded" => lastWrite[j] = "apply"
          /\ job[j].status = "rolled_back" => lastWrite[j] = "rollback"

(* Nothing of a job outlives it, whatever calls still serve it: as long as *)
(* every process has its first connection, no event, plan or report        *)
(* belongs to a job that is not in the table.                              *)
NothingOrphaned ==
    \A j \in Job :
       ~Exists(j) /\ ~fkOff =>
          events[j] = {} /\ plans[j] = NoPlan /\ j \notin report

(* A job that no call serves any more, and for which no store call failed  *)
(* and no process died, is not left pending or running, and unless its     *)
(* dry-run failed it has the plan that an apply needs.                     *)
SettledWithoutFault ==
    \A j \in Job \ faulty :
       Exists(j) /\ (\A c \in Client : ~Serving(c, j)) =>
          /\ job[j].status \in {"paused", "failed", "succeeded", "rolled_back"}
          /\ job[j].checkpoint # "plan" => plans[j] # NoPlan

(* A committed write is never without its trace: at the commit the job, if *)
(* it was not deleted under the call, has the very dry-run plan that lists *)
(* the rows and the event that announced the write.                        *)
WritesAreTraced ==
    [][\A c \in Client :
          WriteCommits(c) /\ Exists(call[c].job) =>
             LET j == call[c].job
             IN  /\ plans[j] # NoPlan
                 /\ call[c].plan.rows \subseteq plans[j].rows
                 /\ [call[c].plan EXCEPT !.rows = plans[j].rows] = plans[j]
                 /\ Names(call[c].op).announce \in events[j]]_vars

(* The newest ProtectedCount jobs are never deleted.                       *)
NewestJobsKept ==
    [][\A j \in Job : Exists(j) /\ j \in Protected => job'[j] # Deleted]_vars
=============================================================================
