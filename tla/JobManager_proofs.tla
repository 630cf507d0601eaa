-------------------------- MODULE JobManager_proofs --------------------------
(* What the records of a job say about the writes made for it, for any      *)
(* number of jobs, calls, rows and servers, in what order jobs are kept, and *)
(* that the calls write by the promise of Retarget.                          *)
EXTENDS JobManager, FiniteSetTheorems, SequenceTheorems, TLAPS

PlanSteps == {"create", "log created", "health", "build", "ready",
              "store plan", "fail plan", "log plan failed"}
WriteSteps == {"get job", "check plan", "start", "announce", "write",
               "report", "log", "finish", "fail job", "log failed"}
DeleteSteps == {"check protected", "delete"}
WriteOp == {"apply", "rollback"}

(* The steps of a write after the plan was checked, after the job was set   *)
(* running and until its status is set again, and after the commit.         *)
AfterCheck == WriteSteps \ {"get job", "check plan"}
Running == AfterCheck \ {"start", "log failed"}
AfterCommit == {"report", "log", "finish"}

Typed ==
    /\ server \in [Res -> Server]
    /\ job \in [Job -> JobRow \cup {NoJob, Deleted}]
    /\ plans \in [Job -> PlanOf \cup {NoPlan}]
    /\ events \in [Job -> SUBSET Event]
    /\ report \in SUBSET Job
    /\ fkOff \in BOOLEAN
    /\ call \in [Client -> Call \cup {Idle}]
    /\ lastWrite \in [Job -> {"none", "apply", "rollback"}]
    /\ faulty \in SUBSET Job
    /\ overlapped \in SUBSET Job

(* A call is at a step of its operation, and works for a job that was       *)
(* given out unless it is about to create it.                               *)
CallsInStep ==
    \A c \in Client :
       call[c] # Idle =>
          /\ \/ /\ call[c].op = "plan" /\ call[c].at \in PlanSteps
                /\ call[c].plan \in PlanOf /\ call[c].plan.id = call[c].job
             \/ /\ call[c].op \in WriteOp /\ call[c].at \in WriteSteps
                /\ call[c].plan \in PlanOf
             \/ call[c].op = "delete" /\ call[c].at \in DeleteSteps
          /\ call[c].at # "create" => job[call[c].job] # NoJob

(* A job ID that was not given out has no records.                          *)
Fresh == \A j \in Job : job[j] = NoJob => plans[j] = NoPlan

(* A job is planned by one call, which has not stored its plan yet.         *)
PlannedOnce ==
    /\ \A c \in Client : call[c] # Idle /\ call[c].op = "plan" =>
          plans[call[c].job] = NoPlan
    /\ \A c, d \in Client :
          /\ call[c] # Idle /\ call[c].op = "plan"
          /\ call[d] # Idle /\ call[d].op = "plan"
          /\ call[c].job = call[d].job
          => c = d

(* What a writing call has established, as long as its job exists.          *)
Matches(p, stored) ==
    /\ stored # NoPlan /\ p.rows \subseteq stored.rows
    /\ [p EXCEPT !.rows = stored.rows] = stored

PlanIsChecked ==
    \A c \in Client :
       call[c] # Idle /\ call[c].op \in WriteOp /\ call[c].at \in AfterCheck
       /\ Exists(call[c].job)
       => Matches(call[c].plan, plans[call[c].job])

Announced ==
    \A c \in Client :
       At(c, "write") /\ Exists(call[c].job) =>
          Names(call[c].op).announce \in events[call[c].job]

CommitIsRecorded ==
    \A c \in Client :
       call[c] # Idle /\ call[c].at \in AfterCommit =>
          /\ lastWrite[call[c].job] # "none"
          /\ Exists(call[c].job) =>
                /\ call[c].op = "apply" /\ call[c].at # "report" =>
                      call[c].job \in report
                /\ call[c].at = "finish" =>
                      Names(call[c].op).log \in events[call[c].job]

(* A writing call that shares its job with no other.                        *)
Alone ==
    /\ \A c, d \in Client, j \in Job \ overlapped :
          Writing(c, j) /\ Writing(d, j) => c = d
    /\ \A c \in Client, j \in Job \ overlapped :
          Writing(c, j) =>
             /\ call[c].at \in Running /\ Exists(j) =>
                   job[j].status \notin {"succeeded", "rolled_back"}
             /\ call[c].at \in AfterCommit => lastWrite[j] = call[c].op

(* A job without faults that is not settled has a call that will settle it. *)
Attended ==
    \A j \in Job \ faulty : Exists(j) =>
       /\ job[j].status = "running" =>
             \E c \in Client : Writing(c, j) /\ call[c].at \in Running
       /\ job[j].status = "pending" =>
             \E c \in Client : Serving(c, j) /\ call[c].at \in
                {"log created", "health", "build", "ready", "fail plan"}
       /\ plans[j] = NoPlan =>
             \/ job[j].checkpoint = "plan"
             \/ \E c \in Client : Serving(c, j) /\ call[c].at \in
                   {"log created", "health", "build", "ready", "store plan",
                    "fail plan"}

-----------------------------------------------------------------------------
(* What a step of a call does, field by field.                              *)
Stays(c) == \A d \in Client \ {c} : call'[d] = call[d]

Moved(c, at) ==
    /\ call' \in [Client -> Call \cup {Idle}]
    /\ Stays(c)
    /\ call'[c] # Idle
    /\ call'[c].op = call[c].op /\ call'[c].job = call[c].job
    /\ call'[c].plan = call[c].plan /\ call'[c].at = at

Ended(c) ==
    /\ call' \in [Client -> Call \cup {Idle}]
    /\ Stays(c)
    /\ call'[c] = Idle

JobIs(j, status, checkpoint) ==
    /\ job' \in [Job -> JobRow \cup {NoJob, Deleted}]
    /\ \A i \in Job \ {j} : job'[i] = job[i]
    /\ job[j] \in JobRow /\ job'[j] \in JobRow
    /\ job'[j].src = job[j].src /\ job'[j].dst = job[j].dst
    /\ job'[j].status = status /\ job'[j].checkpoint = checkpoint

(* The fields of a call under way.                                          *)
LEMMA CallFields ==
    ASSUME Typed, NEW c \in Client, call[c] # Idle
    PROVE  /\ call[c] \in Call /\ call[c].job \in Job
           /\ call[c].op \in {"plan", "apply", "rollback", "delete"}
           /\ call[c].plan \in PlanOf \cup {NoPlan} /\ call[c].at \in Step
<1>1. call[c] \in Call
  BY DEF Typed
<1> QED
  BY <1>1 DEF Call

(* A call that goes on keeps everything but its step.                       *)
LEMMA GotoFields ==
    ASSUME Typed, NEW c \in Client, call[c] # Idle, NEW at \in Step, Goto(c, at)
    PROVE  Moved(c, at)
<1>1. call[c] \in Call
  BY DEF Typed
<1>2. [call[c] EXCEPT !.at = at] \in Call
  BY <1>1 DEF Call
<1>3. call' = [call EXCEPT ![c] = [call[c] EXCEPT !.at = at]]
  BY DEF Goto
<1>4. call'[c] = [call[c] EXCEPT !.at = at] /\ Stays(c)
  BY <1>3 DEF Typed, Stays
<1>5. call' \in [Client -> Call \cup {Idle}]
  BY <1>2, <1>3 DEF Typed
<1>6. call'[c].op = call[c].op /\ call'[c].job = call[c].job
      /\ call'[c].plan = call[c].plan /\ call'[c].at = at
  BY <1>1, <1>4 DEF Call
<1> QED
  BY <1>2, <1>4, <1>5, <1>6, ConstantsAssumption DEF Moved

(* A call that ends leaves the others alone.                                *)
LEMMA ReturnFields ==
    ASSUME Typed, NEW c \in Client, Return(c)
    PROVE  Ended(c)
BY DEF Typed, Return, Ended, Stays

(* UpdateJob changes the status and the checkpoint of one job.              *)
LEMMA UpdateFields ==
    ASSUME Typed, NEW j \in Job, NEW st \in Status, NEW cp \in Checkpoint,
           UpdateJob(j, st, cp)
    PROVE  JobIs(j, st, cp)
<1> DEFINE new == [job[j] EXCEPT !.status = st, !.checkpoint = cp]
<1>1. job[j] \in JobRow
  BY DEF UpdateJob, Exists
<1>2. /\ new \in JobRow
      /\ new.src = job[j].src /\ new.dst = job[j].dst
      /\ new.status = st /\ new.checkpoint = cp
  BY <1>1 DEF JobRow
<1>3. job' = [job EXCEPT ![j] = new]
  BY DEF UpdateJob
<1> HIDE DEF new
<1>4. job'[j] = new /\ \A i \in Job \ {j} : job'[i] = job[i]
  BY <1>3 DEF Typed
<1>5. job' \in [Job -> JobRow \cup {NoJob, Deleted}]
  BY <1>2, <1>3 DEF Typed
<1> QED
  BY <1>1, <1>2, <1>4, <1>5 DEF JobIs

-----------------------------------------------------------------------------
(* The step of a call, told apart from its reception and its death.         *)
Works(c) ==
    \/ Create(c) \/ LogCreated(c) \/ Health(c) \/ Build(c) \/ Ready(c)
    \/ StorePlan(c) \/ FailPlan(c) \/ LogPlanFailed(c)
    \/ GetJob(c) \/ CheckPlan(c) \/ Start(c) \/ Announce(c)
    \/ WriteCommits(c) \/ WriteFails(c) \/ FailJob(c) \/ LogFailed(c)
    \/ Report(c) \/ Log(c) \/ Finish(c) \/ CheckProtected(c) \/ Delete(c)

Planning == {"log created", "health", "build", "ready", "fail plan"}

(* A call goes on to another step of its operation, or ends.                *)
GoesOn(c) ==
    /\ call[c] # Idle
    /\ call' \in [Client -> Call \cup {Idle}]
    /\ Stays(c)
    /\ call'[c] # Idle =>
          /\ call'[c].op = call[c].op /\ call'[c].job = call[c].job
          /\ \/ call'[c].plan = call[c].plan
             \/ /\ call[c].op = "plan" /\ call'[c].plan \in PlanOf
                /\ call'[c].plan.id = call[c].plan.id
          /\ \/ call[c].op = "plan" /\ call'[c].at \in PlanSteps \ {"create"}
             \/ call[c].op \in WriteOp /\ call'[c].at \in WriteSteps
             \/ call[c].op = "delete" /\ call'[c].at \in DeleteSteps

(* It touches the records of its own job only.                              *)
KeepsOthers(c) ==
    \A i \in Job : i # call[c].job =>
       /\ job'[i] = job[i] /\ plans'[i] = plans[i] /\ events'[i] = events[i]
       /\ (i \in report' <=> i \in report) /\ lastWrite'[i] = lastWrite[i]
       /\ (i \in faulty' <=> i \in faulty)

StoreTyped ==
    /\ server' \in [Res -> Server]
    /\ job' \in [Job -> JobRow \cup {NoJob, Deleted}]
    /\ plans' \in [Job -> PlanOf \cup {NoPlan}]
    /\ events' \in [Job -> SUBSET Event]
    /\ report' \in SUBSET Job
    /\ fkOff' \in BOOLEAN
    /\ lastWrite' \in [Job -> {"none", "apply", "rollback"}]
    /\ faulty' \in SUBSET Job
    /\ overlapped' = overlapped

(* A record of its job is only lost together with the job.                  *)
KeepsRecords(c) ==
    LET j == call[c].job
    IN  /\ job[j] # NoJob \/ call'[c] # Idle => job'[j] # NoJob
        /\ job'[j] \in JobRow =>
              /\ events[j] \subseteq events'[j]
              /\ j \in report => j \in report'
              /\ \/ Exists(j)
                 \/ job[j] = NoJob /\ call[c].at = "create"
        /\ \/ plans'[j] = plans[j]
           \/ call[c].at = "store plan" /\ call'[c] = Idle
           \/ job'[j] \notin JobRow /\ plans'[j] = NoPlan
        /\ fkOff = TRUE => fkOff' = TRUE
        /\ job'[j] \notin JobRow =>
              \/ events'[j] = {} /\ plans'[j] = NoPlan /\ j \notin report'
              \/ /\ ~Exists(j)
                 /\ fkOff = TRUE \/ UNCHANGED <<events, plans, report>>

(* What a writing call knows when it comes to a step.                       *)
Establishes(c) ==
    LET j == call[c].job
        to == call'[c].at
    IN  call'[c] # Idle =>
        /\ to \in AfterCheck /\ call[c].at \notin AfterCheck =>
              /\ UNCHANGED <<job, plans>>
              /\ Exists(j) => Matches(call[c].plan, plans[j])
        /\ to = "write" => Names(call[c].op).announce \in events'[j]
        /\ to \in AfterCommit /\ call[c].at \notin AfterCommit =>
              lastWrite'[j] = call[c].op
        /\ to \in {"log", "finish"} /\ call[c].op = "apply"
           /\ call[c].at \notin {"log", "finish"} => j \in report'
        /\ to = "finish" => Names(call[c].op).log \in events'[j]
        /\ to \in Running /\ call[c].at \notin Running =>
              job'[j] \in JobRow /\ job'[j].status = "running"

(* The only changes of a job that exists, and of its last write.            *)
Changes(c) ==
    LET j == call[c].job
    IN  /\ \/ lastWrite' = lastWrite
           \/ call[c].at = "write" /\ lastWrite'[j] = call[c].op
        /\ j \in report' => j \in report \/ call[c].at = "report"
        /\ "rollback applied" \in events'[j] =>
              \/ "rollback applied" \in events[j]
              \/ call[c].at = "log"
        /\ job'[j] \in JobRow =>
              \/ job'[j] = job[j]
              \/ /\ call[c].at = "create" /\ job'[j].status = "pending"
                 /\ call'[c] # Idle /\ call'[c].at = "log created"
              \/ /\ call[c].at = "ready" /\ job'[j].status = "paused"
                 /\ call'[c] # Idle /\ call'[c].at = "store plan"
              \/ /\ call[c].at = "fail plan" /\ job'[j].status = "failed"
                 /\ job'[j].checkpoint = "plan"
              \/ /\ call[c].at = "start" /\ job'[j].status = "running"
                 /\ call'[c] # Idle /\ call'[c].at = "announce"
              \/ call[c].at = "fail job" /\ job'[j].status = "failed"
              \/ /\ call[c].at = "finish" /\ call'[c] = Idle
                 /\ job'[j].status = Names(call[c].op).status

(* Without a fault a call leaves its job only when it has settled it.       *)
Leaves(c) ==
    LET j == call[c].job
        left(S) == call[c].at \in S /\ (call'[c] = Idle \/ call'[c].at \notin S)
    IN  job'[j] \in JobRow /\ j \notin faulty' =>
           /\ left(Running) \/ left(Planning) =>
                 job'[j].status \in {"paused", "failed", "succeeded", "rolled_back"}
           /\ left(Planning \cup {"store plan"}) =>
                 plans'[j] # NoPlan \/ job'[j].checkpoint = "plan"
           /\ j \notin faulty

Effect(c) ==
    /\ GoesOn(c) /\ KeepsOthers(c) /\ StoreTyped /\ KeepsRecords(c)
    /\ Establishes(c) /\ Changes(c) /\ Leaves(c)

EventAdded(j, kind) ==
    /\ events' \in [Job -> SUBSET Event]
    /\ \A i \in Job \ {j} : events'[i] = events[i]
    /\ events'[j] = events[j] \cup {kind}
    /\ UNCHANGED <<job, plans, report>>
    /\ Exists(j) \/ fkOff = TRUE

Failed(j) ==
    /\ faulty' \in SUBSET Job
    /\ \A i \in Job \ {j} : i \in faulty' <=> i \in faulty
    /\ j \in faulty'
    /\ fkOff' \in BOOLEAN /\ (fkOff = TRUE => fkOff' = TRUE)
    /\ UNCHANGED <<job, plans, events, report>>

(* AppendEvent adds one kind of event to one job.                           *)
LEMMA AppendFields ==
    ASSUME Typed, NEW j \in Job, NEW kind \in Event, AppendEvent(j, kind)
    PROVE  EventAdded(j, kind)
BY DEF Typed, AppendEvent, EventAdded, Accepted

(* A store call that fails only marks the job, and perhaps loses the        *)
(* foreign keys.                                                            *)
LEMMA FailFields ==
    ASSUME Typed, NEW c \in Client, call[c] # Idle, Fails(c)
    PROVE  Failed(call[c].job)
BY CallFields DEF Typed, Fails, Failed, CallCancelled, store

(* The dry-run only fills in the rows of the plan.                          *)
LEMMA BuildFields ==
    ASSUME Typed, NEW c \in Client, call[c] # Idle, call[c].plan \in PlanOf,
           NEW rows \in SUBSET Res,
           call' = [call EXCEPT ![c].at = "ready", ![c].plan.rows = rows]
    PROVE  /\ call' \in [Client -> Call \cup {Idle}] /\ Stays(c)
           /\ call'[c] # Idle
           /\ call'[c].op = call[c].op /\ call'[c].job = call[c].job
           /\ call'[c].at = "ready"
           /\ call'[c].plan \in PlanOf /\ call'[c].plan.id = call[c].plan.id
           /\ call'[c].plan.src = call[c].plan.src
           /\ call'[c].plan.dst = call[c].plan.dst
<1> DEFINE p == [call[c].plan EXCEPT !.rows = rows]
           new == [call[c] EXCEPT !.at = "ready", !.plan = p]
<1>1. call[c] \in Call
  BY DEF Typed
<1>2. /\ p \in PlanOf /\ p.id = call[c].plan.id
      /\ p.src = call[c].plan.src /\ p.dst = call[c].plan.dst
  BY DEF PlanOf
<1>3. call' = [call EXCEPT ![c] = new]
  BY <1>1, <1>2 DEF Call
<1> HIDE DEF p
<1>4. /\ new \in Call /\ new.op = call[c].op /\ new.job = call[c].job
      /\ new.at = "ready" /\ new.plan = p
  BY <1>1, <1>2 DEF Call, Step
<1> HIDE DEF new
<1>5. call'[c] = new /\ Stays(c)
  BY <1>3 DEF Typed, Stays
<1> QED
  BY <1>2, <1>3, <1>4, <1>5, ConstantsAssumption DEF Typed

(* CreateJob adds one pending job.                                          *)
LEMMA CreateFields ==
    ASSUME Typed, NEW j \in Job, NEW s \in Server, NEW t \in Server,
           CreateJob(j, s, t)
    PROVE  /\ job[j] = NoJob /\ job' \in [Job -> JobRow \cup {NoJob, Deleted}]
           /\ job'[j] \in JobRow /\ job'[j].status = "pending"
           /\ \A i \in Job \ {j} : job'[i] = job[i]
           /\ UNCHANGED <<plans, events, report>>
BY DEF Typed, CreateJob, JobRow, Status, Checkpoint

(* The plan event gives one job its plan.                                   *)
LEMMA PlanFields ==
    ASSUME Typed, NEW j \in Job, NEW p \in PlanOf, AppendPlanEvent(j, p)
    PROVE  /\ plans' \in [Job -> PlanOf \cup {NoPlan}]
           /\ plans'[j] = p /\ \A i \in Job \ {j} : plans'[i] = plans[i]
           /\ UNCHANGED <<job, events, report>>
           /\ Exists(j) \/ fkOff = TRUE
BY DEF Typed, AppendPlanEvent, Accepted

(* The names of either operation are of the kinds they are used as.         *)
LEMMA NameFields ==
    ASSUME NEW op \in WriteOp
    PROVE  /\ Names(op).announce \in Event \ {"rollback applied"}
           /\ Names(op).logFailed \in Event \ {"rollback applied"}
           /\ Names(op).log \in Event
           /\ Names(op).during \in Checkpoint /\ Names(op).after \in Checkpoint
           /\ Names(op).during # "plan" /\ Names(op).after # "plan"
           /\ Names(op).status \in {"succeeded", "rolled_back"}
           /\ Names(op).status = "succeeded" <=> op = "apply"
BY DEF Names, Event, Checkpoint, WriteOp

(* Every step of a call has the effect above; one case per action.          *)
LEMMA WorkEffect ==
    ASSUME Typed, CallsInStep, NEW c \in Client, Works(c)
    PROVE  Effect(c)
<1> USE ConstantsAssumption
    DEF Effect, GoesOn, KeepsOthers, StoreTyped, KeepsRecords, Establishes,
        Changes, Leaves, Moved, Ended, EventAdded, Failed, JobIs, Exists,
        PlanSteps, WriteSteps, DeleteSteps, WriteOp, AfterCheck, AfterCommit,
        Running, Planning, Status, Checkpoint, Event, Step, At, Succeeds
<1> DEFINE j == call[c].job
<1>1. CASE LogCreated(c)
  <2>1. call[c] # Idle /\ call[c].at = "log created" /\ call[c].op = "plan"
        /\ j \in Job
    BY <1>1, CallFields DEF LogCreated, CallsInStep
  <2>2. \/ Moved(c, "health") /\ EventAdded(j, "created")
           /\ UNCHANGED <<fkOff, faulty>>
        \/ Ended(c) /\ Failed(j)
    <3> HIDE DEF Moved, Ended, EventAdded, Failed, JobIs
    <3> QED
      BY Zenon, <1>1, <2>1, GotoFields, ReturnFields, FailFields, AppendFields
         DEF LogCreated, Checked
  <2>3. UNCHANGED <<server, lastWrite, overlapped>>
    BY <1>1 DEF LogCreated, Checked
  <2> QED
    <3>1. GoesOn(c) /\ KeepsOthers(c) /\ StoreTyped
      BY <2>1, <2>2, <2>3 DEF Typed, CallsInStep
    <3>2. KeepsRecords(c) /\ Establishes(c) /\ Changes(c) /\ Leaves(c)
      BY <2>1, <2>2, <2>3 DEF Typed, CallsInStep
    <3> QED
      BY <3>1, <3>2
<1>2. CASE LogPlanFailed(c)
  <2>1. call[c] # Idle /\ call[c].at = "log plan failed" /\ call[c].op = "plan"
        /\ j \in Job
    BY <1>2, CallFields DEF LogPlanFailed, CallsInStep
  <2>2. /\ Ended(c)
        /\ \/ EventAdded(j, "plan failed") /\ UNCHANGED <<fkOff, faulty>>
           \/ Failed(j)
    <3> HIDE DEF Moved, Ended, EventAdded, Failed, JobIs
    <3> QED
      BY Zenon, <1>2, <2>1, GotoFields, ReturnFields, FailFields, AppendFields
         DEF LogPlanFailed, Last, MayFail
  <2>3. UNCHANGED <<server, lastWrite, overlapped>>
    BY <1>2 DEF LogPlanFailed, Last, MayFail
  <2> QED
    <3>1. GoesOn(c) /\ KeepsOthers(c) /\ StoreTyped
      BY <2>1, <2>2, <2>3 DEF Typed, CallsInStep
    <3>2. KeepsRecords(c) /\ Establishes(c) /\ Changes(c) /\ Leaves(c)
      BY <2>1, <2>2, <2>3 DEF Typed, CallsInStep
    <3> QED
      BY <3>1, <3>2
<1>3. CASE Announce(c)
  <2>1. call[c] # Idle /\ call[c].at = "announce" /\ call[c].op \in WriteOp
        /\ j \in Job
    BY <1>3, CallFields DEF Announce, CallsInStep
  <2>2. Names(call[c].op).announce \in Event \ {"rollback applied"}
    BY <2>1, NameFields DEF WriteOp
  <2>3. ASSUME AppendEvent(j, Names(call[c].op).announce)
        PROVE  EventAdded(j, Names(call[c].op).announce)
    BY <2>1, <2>2, <2>3, AppendFields
  <2>4. \/ Moved(c, "write") /\ EventAdded(j, Names(call[c].op).announce)
           /\ UNCHANGED <<fkOff, faulty>>
        \/ Ended(c) /\ Failed(j)
    <3> HIDE DEF Moved, Ended, EventAdded, Failed, JobIs
    <3> QED
      BY Zenon, <1>3, <2>1, GotoFields, ReturnFields, FailFields, <2>3
         DEF Announce, Checked
  <2>5. UNCHANGED <<server, lastWrite, overlapped>>
    BY <1>3 DEF Announce, Checked
  <2> QED
    <3>1. GoesOn(c) /\ KeepsOthers(c) /\ StoreTyped
      BY <2>1, <2>4, <2>5, <2>2 DEF Typed, CallsInStep
    <3>2. KeepsRecords(c) /\ Establishes(c) /\ Changes(c) /\ Leaves(c)
      BY <2>1, <2>4, <2>5, <2>2 DEF Typed, CallsInStep
    <3> QED
      BY <3>1, <3>2
<1>4. CASE Log(c)
  <2>1. call[c] # Idle /\ call[c].at = "log" /\ call[c].op \in WriteOp
        /\ j \in Job
    BY <1>4, CallFields DEF Log, CallsInStep
  <2>2. Names(call[c].op).log \in Event
    BY <2>1, NameFields DEF WriteOp
  <2>3. ASSUME AppendEvent(j, Names(call[c].op).log)
        PROVE  EventAdded(j, Names(call[c].op).log)
    BY <2>1, <2>2, <2>3, AppendFields
  <2>4. \/ Moved(c, "finish") /\ EventAdded(j, Names(call[c].op).log)
           /\ UNCHANGED <<fkOff, faulty>>
        \/ Ended(c) /\ Failed(j)
    <3> HIDE DEF Moved, Ended, EventAdded, Failed, JobIs
    <3> QED
      BY Zenon, <1>4, <2>1, GotoFields, ReturnFields, FailFields, <2>3
         DEF Log, Checked
  <2>5. UNCHANGED <<server, lastWrite, overlapped>>
    BY <1>4 DEF Log, Checked
  <2> QED
    <3>1. GoesOn(c) /\ KeepsOthers(c) /\ StoreTyped
      BY <2>1, <2>4, <2>5, <2>2 DEF Typed, CallsInStep
    <3>2. KeepsRecords(c) /\ Establishes(c) /\ Changes(c) /\ Leaves(c)
      BY <2>1, <2>4, <2>5, <2>2 DEF Typed, CallsInStep
    <3> QED
      BY <3>1, <3>2
<1>5. CASE LogFailed(c)
  <2>1. call[c] # Idle /\ call[c].at = "log failed" /\ call[c].op \in WriteOp
        /\ j \in Job
    BY <1>5, CallFields DEF LogFailed, CallsInStep
  <2>2. Names(call[c].op).logFailed \in Event \ {"rollback applied"}
    BY <2>1, NameFields DEF WriteOp
  <2>3. ASSUME AppendEvent(j, Names(call[c].op).logFailed)
        PROVE  EventAdded(j, Names(call[c].op).logFailed)
    BY <2>1, <2>2, <2>3, AppendFields
  <2>4. /\ Ended(c)
        /\ \/ EventAdded(j, Names(call[c].op).logFailed)
              /\ UNCHANGED <<fkOff, faulty>>
           \/ Failed(j)
    <3> HIDE DEF Moved, Ended, EventAdded, Failed, JobIs
    <3> QED
      BY Zenon, <1>5, <2>1, GotoFields, ReturnFields, FailFields, <2>3
         DEF LogFailed, Last, MayFail
  <2>5. UNCHANGED <<server, lastWrite, overlapped>>
    BY <1>5 DEF LogFailed, Last, MayFail
  <2> QED
    <3>1. GoesOn(c) /\ KeepsOthers(c) /\ StoreTyped
      BY <2>1, <2>4, <2>5, <2>2 DEF Typed, CallsInStep
    <3>2. KeepsRecords(c) /\ Establishes(c) /\ Changes(c) /\ Leaves(c)
      BY <2>1, <2>4, <2>5, <2>2 DEF Typed, CallsInStep
    <3> QED
      BY <3>1, <3>2
<1>6. CASE Ready(c)
  <2>1. call[c] # Idle /\ call[c].at = "ready" /\ call[c].op = "plan" /\ j \in Job
    BY <1>6, CallFields DEF Ready, CallsInStep
  <2>2. \/ Moved(c, "store plan") /\ JobIs(j, "paused", "dry-run-ready")
           /\ UNCHANGED <<plans, events, report, fkOff, faulty>>
        \/ Ended(c) /\ Failed(j)
    <3> HIDE DEF Moved, Ended, EventAdded, Failed, JobIs
    <3> QED
      BY Zenon, <1>6, <2>1, GotoFields, ReturnFields, FailFields, UpdateFields
         DEF Ready, Checked, UpdateJob
  <2>3. UNCHANGED <<server, lastWrite, overlapped>>
    BY <1>6 DEF Ready, Checked, UpdateJob
  <2> QED
    <3>1. GoesOn(c) /\ KeepsOthers(c) /\ StoreTyped
      BY <2>1, <2>2, <2>3 DEF Typed, CallsInStep
    <3>2. KeepsRecords(c) /\ Establishes(c) /\ Changes(c) /\ Leaves(c)
      BY <2>1, <2>2, <2>3 DEF Typed, CallsInStep
    <3> QED
      BY <3>1, <3>2
<1>7. CASE Start(c)
  <2>1. call[c] # Idle /\ call[c].at = "start" /\ call[c].op \in WriteOp
        /\ j \in Job
    BY <1>7, CallFields DEF Start, CallsInStep
  <2>2. Names(call[c].op).during \in Checkpoint \ {"plan"}
    BY <2>1, NameFields DEF WriteOp
  <2>3. \/ Moved(c, "announce") /\ JobIs(j, "running", Names(call[c].op).during)
           /\ UNCHANGED <<plans, events, report, fkOff, faulty>>
        \/ Ended(c) /\ Failed(j)
    <3> HIDE DEF Moved, Ended, EventAdded, Failed, JobIs
    <3> QED
      BY Zenon, <1>7, <2>1, GotoFields, ReturnFields, FailFields, UpdateFields, <2>2
         DEF Start, Checked, UpdateJob
  <2>4. UNCHANGED <<server, lastWrite, overlapped>>
    BY <1>7 DEF Start, Checked, UpdateJob
  <2> QED
    <3>1. GoesOn(c) /\ KeepsOthers(c) /\ StoreTyped
      BY <2>1, <2>3, <2>4, <2>2 DEF Typed, CallsInStep
    <3>2. KeepsRecords(c) /\ Establishes(c) /\ Changes(c) /\ Leaves(c)
      BY <2>1, <2>3, <2>4, <2>2 DEF Typed, CallsInStep
    <3> QED
      BY <3>1, <3>2
<1>8. CASE FailPlan(c)
  <2>1. call[c] # Idle /\ call[c].at = "fail plan" /\ call[c].op = "plan"
        /\ j \in Job
    BY <1>8, CallFields DEF FailPlan, CallsInStep
  <2>2. /\ Moved(c, "log plan failed")
        /\ \/ JobIs(j, "failed", "plan")
              /\ UNCHANGED <<plans, events, report, fkOff, faulty>>
           \/ Failed(j)
    <3> HIDE DEF Moved, Ended, EventAdded, Failed, JobIs
    <3> QED
      BY Zenon, <1>8, <2>1, GotoFields, ReturnFields, FailFields, UpdateFields
         DEF FailPlan, BestEffort, MayFail, UpdateJob
  <2>3. UNCHANGED <<server, lastWrite, overlapped>>
    BY <1>8 DEF FailPlan, BestEffort, MayFail, UpdateJob
  <2> QED
    <3>1. GoesOn(c) /\ KeepsOthers(c) /\ StoreTyped
      BY <2>1, <2>2, <2>3 DEF Typed, CallsInStep
    <3>2. KeepsRecords(c) /\ Establishes(c) /\ Changes(c) /\ Leaves(c)
      BY <2>1, <2>2, <2>3 DEF Typed, CallsInStep
    <3> QED
      BY <3>1, <3>2
<1>9. CASE FailJob(c)
  <2>1. call[c] # Idle /\ call[c].at = "fail job" /\ call[c].op \in WriteOp
        /\ j \in Job
    BY <1>9, CallFields DEF FailJob, CallsInStep
  <2>2. Names(call[c].op).during \in Checkpoint \ {"plan"}
    BY <2>1, NameFields DEF WriteOp
  <2>3. /\ Moved(c, "log failed")
        /\ \/ JobIs(j, "failed", Names(call[c].op).during)
              /\ UNCHANGED <<plans, events, report, fkOff, faulty>>
           \/ Failed(j)
    <3> HIDE DEF Moved, Ended, EventAdded, Failed, JobIs
    <3> QED
      BY Zenon, <1>9, <2>1, GotoFields, ReturnFields, FailFields, UpdateFields, <2>2
         DEF FailJob, BestEffort, MayFail, UpdateJob
  <2>4. UNCHANGED <<server, lastWrite, overlapped>>
    BY <1>9 DEF FailJob, BestEffort, MayFail, UpdateJob
  <2> QED
    <3>1. GoesOn(c) /\ KeepsOthers(c) /\ StoreTyped
      BY <2>1, <2>3, <2>4, <2>2 DEF Typed, CallsInStep
    <3>2. KeepsRecords(c) /\ Establishes(c) /\ Changes(c) /\ Leaves(c)
      BY <2>1, <2>3, <2>4, <2>2 DEF Typed, CallsInStep
    <3> QED
      BY <3>1, <3>2
<1>10. CASE Finish(c)
  <2>1. call[c] # Idle /\ call[c].at = "finish" /\ call[c].op \in WriteOp
        /\ j \in Job
    BY <1>10, CallFields DEF Finish, CallsInStep
  <2>2. /\ Names(call[c].op).after \in Checkpoint \ {"plan"}
        /\ Names(call[c].op).status \in {"succeeded", "rolled_back"}
    BY <2>1, NameFields DEF WriteOp
  <2>3. /\ Ended(c)
        /\ \/ JobIs(j, Names(call[c].op).status, Names(call[c].op).after)
              /\ UNCHANGED <<plans, events, report, fkOff, faulty>>
           \/ Failed(j)
    <3> HIDE DEF Moved, Ended, EventAdded, Failed, JobIs
    <3> QED
      BY Zenon, <1>10, <2>1, GotoFields, ReturnFields, FailFields, UpdateFields, <2>2
         DEF Finish, Last, MayFail, UpdateJob
  <2>4. UNCHANGED <<server, lastWrite, overlapped>>
    BY <1>10 DEF Finish, Last, MayFail, UpdateJob
  <2> QED
    <3>1. GoesOn(c) /\ KeepsOthers(c) /\ StoreTyped
      BY <2>1, <2>3, <2>4, <2>2 DEF Typed, CallsInStep
    <3>2. KeepsRecords(c) /\ Establishes(c) /\ Changes(c) /\ Leaves(c)
      BY <2>1, <2>3, <2>4, <2>2 DEF Typed, CallsInStep
    <3> QED
      BY <3>1, <3>2
<1>11. CASE GetJob(c)
  <2>1. call[c] # Idle /\ call[c].at = "get job" /\ call[c].op \in WriteOp
        /\ j \in Job
    BY <1>11, CallFields DEF GetJob, CallsInStep
  <2>2. \/ Moved(c, "check plan") /\ fkOff' = fkOff
        \/ Ended(c) /\ (fkOff = TRUE => fkOff' = TRUE) /\ fkOff' \in BOOLEAN
    BY <1>11, <2>1, GotoFields, ReturnFields
       DEF GetJob, ReadAndRequire, CallCancelled, Typed
  <2>3. UNCHANGED <<server, job, plans, events, report, lastWrite, faulty,
                    overlapped>>
    BY <1>11 DEF GetJob, ReadAndRequire, store, history
  <2> QED
    <3>1. GoesOn(c) /\ KeepsOthers(c) /\ StoreTyped
      BY <2>1, <2>2, <2>3 DEF Typed, CallsInStep
    <3>2. KeepsRecords(c) /\ Establishes(c) /\ Changes(c) /\ Leaves(c)
      BY <2>1, <2>2, <2>3 DEF Typed, CallsInStep
    <3> QED
      BY <3>1, <3>2
<1>12. CASE CheckProtected(c)
  <2>1. call[c] # Idle /\ call[c].at = "check protected"
        /\ call[c].op = "delete" /\ j \in Job
    BY <1>12, CallFields DEF CheckProtected, CallsInStep
  <2>2. \/ Moved(c, "delete") /\ fkOff' = fkOff
        \/ Ended(c) /\ (fkOff = TRUE => fkOff' = TRUE) /\ fkOff' \in BOOLEAN
    BY <1>12, <2>1, GotoFields, ReturnFields
       DEF CheckProtected, ReadAndRequire, CallCancelled, Typed
  <2>3. UNCHANGED <<server, job, plans, events, report, lastWrite, faulty,
                    overlapped>>
    BY <1>12 DEF CheckProtected, ReadAndRequire, store, history
  <2> QED
    <3>1. GoesOn(c) /\ KeepsOthers(c) /\ StoreTyped
      BY <2>1, <2>2, <2>3 DEF Typed, CallsInStep
    <3>2. KeepsRecords(c) /\ Establishes(c) /\ Changes(c) /\ Leaves(c)
      BY <2>1, <2>2, <2>3 DEF Typed, CallsInStep
    <3> QED
      BY <3>1, <3>2
<1>13. CASE CheckPlan(c)
  <2>1. call[c] # Idle /\ call[c].at = "check plan" /\ call[c].op \in WriteOp
        /\ j \in Job
    BY <1>13, CallFields DEF CheckPlan, CallsInStep
  <2>2. ASSUME plans[j] # NoPlan, IsSubset(plans[j], call[c].plan),
               plans[j].id = call[c].plan.id
        PROVE  Matches(call[c].plan, plans[j])
    <3> DEFINE p == call[c].plan
               stored == plans[j]
    <3>1. p \in PlanOf
      BY <2>1 DEF CallsInStep, WriteOp
    <3>2. stored \in PlanOf
      BY <2>1, <2>2 DEF Typed
    <3>3. /\ stored # NoPlan /\ stored.id = p.id
          /\ stored.src = p.src /\ stored.dst = p.dst /\ p.rows \subseteq stored.rows
      BY <2>2 DEF IsSubset
    <3> HIDE DEF p, stored
    <3>4. [p EXCEPT !.rows = stored.rows] = stored
      BY <3>1, <3>2, <3>3 DEF PlanOf
    <3>5. Matches(p, stored)
      BY <3>3, <3>4 DEF Matches
    <3> QED
      BY <3>5 DEF p, stored
  <2>3. \/ Moved(c, "start") /\ fkOff' = fkOff /\ Matches(call[c].plan, plans[j])
        \/ Ended(c) /\ (fkOff = TRUE => fkOff' = TRUE) /\ fkOff' \in BOOLEAN
    BY <1>13, <2>1, GotoFields, ReturnFields, <2>2
       DEF CheckPlan, ReadAndRequire, CallCancelled, Typed
  <2>4. UNCHANGED <<server, job, plans, events, report, lastWrite, faulty,
                    overlapped>>
    BY <1>13 DEF CheckPlan, ReadAndRequire, store, history
  <2> QED
    <3>1. GoesOn(c) /\ KeepsOthers(c) /\ StoreTyped
      BY <2>1, <2>3, <2>4, <2>2 DEF Typed, CallsInStep
    <3>2. KeepsRecords(c) /\ Establishes(c) /\ Changes(c) /\ Leaves(c)
      BY <2>1, <2>3, <2>4, <2>2 DEF Typed, CallsInStep
    <3> QED
      BY <3>1, <3>2
<1>14. CASE Health(c)
  <2>1. call[c] # Idle /\ call[c].at = "health" /\ call[c].op = "plan"
        /\ j \in Job
    BY <1>14, CallFields DEF Health, CallsInStep
  <2>2. /\ Moved(c, "build")
        /\ \/ EventAdded(j, "api health") /\ UNCHANGED <<fkOff, faulty>>
           \/ Failed(j)
           \/ UNCHANGED <<job, plans, events, report, fkOff, faulty>>
    <3> HIDE DEF Moved, Ended, EventAdded, Failed, JobIs
    <3> QED
      BY Zenon, <1>14, <2>1, GotoFields, ReturnFields, FailFields, AppendFields
         DEF Health, BestEffort, MayFail, store, history
  <2>3. UNCHANGED <<server, lastWrite, overlapped>>
    BY <1>14 DEF Health, BestEffort, MayFail, history
  <2> QED
    <3>1. GoesOn(c) /\ KeepsOthers(c) /\ StoreTyped
      BY <2>1, <2>2, <2>3 DEF Typed, CallsInStep
    <3>2. KeepsRecords(c) /\ Establishes(c) /\ Changes(c) /\ Leaves(c)
      BY <2>1, <2>2, <2>3 DEF Typed, CallsInStep
    <3> QED
      BY <3>1, <3>2
<1>15. CASE Build(c)
  <2>1. call[c] # Idle /\ call[c].at = "build" /\ call[c].op = "plan" /\ j \in Job
    BY <1>15, CallFields DEF Build, CallsInStep
  <2>2. ASSUME call' = [call EXCEPT ![c].at = "ready",
                 ![c].plan.rows = {r \in Res : server[r] = call[c].plan.src}]
        PROVE  /\ call' \in [Client -> Call \cup {Idle}] /\ Stays(c)
               /\ call'[c] # Idle /\ call'[c].op = "plan" /\ call'[c].job = j
               /\ call'[c].at = "ready"
               /\ call'[c].plan \in PlanOf /\ call'[c].plan.id = call[c].plan.id
    <3> DEFINE rows == {r \in Res : server[r] = call[c].plan.src}
    <3>1. rows \in SUBSET Res /\ call[c].plan \in PlanOf
      BY <2>1 DEF CallsInStep
    <3>2. call' = [call EXCEPT ![c].at = "ready", ![c].plan.rows = rows]
      BY <2>2
    <3> HIDE DEF rows
    <3> QED
      BY <2>1, <3>1, <3>2, BuildFields
  <2>3. /\ \/ Moved(c, "fail plan")
           \/ /\ call' \in [Client -> Call \cup {Idle}] /\ Stays(c)
              /\ call'[c] # Idle /\ call'[c].op = "plan" /\ call'[c].job = j
              /\ call'[c].at = "ready"
              /\ call'[c].plan \in PlanOf /\ call'[c].plan.id = call[c].plan.id
    BY <1>15, <2>1, GotoFields, <2>2
       DEF Build, Stays
  <2>4. UNCHANGED <<server, job, plans, events, report, fkOff, lastWrite,
                    faulty, overlapped>>
    BY <1>15 DEF Build, store, history
  <2> QED
    <3>1. GoesOn(c) /\ KeepsOthers(c) /\ StoreTyped
      BY <2>1, <2>3, <2>4, <2>2 DEF Typed, CallsInStep
    <3>2. KeepsRecords(c) /\ Establishes(c) /\ Changes(c) /\ Leaves(c)
      BY <2>1, <2>3, <2>4, <2>2 DEF Typed, CallsInStep
    <3> QED
      BY <3>1, <3>2
<1>16. CASE WriteFails(c)
  <2>1. call[c] # Idle /\ call[c].at = "write" /\ call[c].op \in WriteOp
        /\ j \in Job
    BY <1>16, CallFields DEF WriteFails, CallsInStep
  <2>2. Moved(c, "fail job")
    BY <1>16, <2>1, GotoFields
       DEF WriteFails, Goto
  <2>3. UNCHANGED <<server, job, plans, events, report, fkOff, lastWrite,
                    faulty, overlapped>>
    BY <1>16 DEF WriteFails, store, history
  <2> QED
    <3>1. GoesOn(c) /\ KeepsOthers(c) /\ StoreTyped
      BY <2>1, <2>2, <2>3 DEF Typed, CallsInStep
    <3>2. KeepsRecords(c) /\ Establishes(c) /\ Changes(c) /\ Leaves(c)
      BY <2>1, <2>2, <2>3 DEF Typed, CallsInStep
    <3> QED
      BY <3>1, <3>2
<1>17. CASE WriteCommits(c)
  <2>1. call[c] # Idle /\ call[c].at = "write" /\ call[c].op \in WriteOp
        /\ j \in Job
    BY <1>17, CallFields DEF WriteCommits, CallsInStep
  <2>2. /\ \/ Moved(c, "fail job")
           \/ Moved(c, "report") /\ call[c].op = "apply"
           \/ Moved(c, "log") /\ call[c].op = "rollback"
        /\ server' \in [Res -> Server]
        /\ lastWrite' = [lastWrite EXCEPT ![j] = call[c].op]
    BY <1>17, <2>1, GotoFields, CallFields
       DEF WriteCommits, Typed, Source, Target, PlanOf, CallsInStep
  <2>3. UNCHANGED <<job, plans, events, report, fkOff, faulty, overlapped>>
    BY <1>17 DEF WriteCommits, store
  <2> QED
    <3>1. GoesOn(c) /\ KeepsOthers(c) /\ StoreTyped
      BY <2>1, <2>2, <2>3 DEF Typed, CallsInStep
    <3>2. KeepsRecords(c) /\ Establishes(c) /\ Changes(c) /\ Leaves(c)
      BY <2>1, <2>2, <2>3 DEF Typed, CallsInStep
    <3> QED
      BY <3>1, <3>2
<1>18. CASE Report(c)
  <2>1. call[c] # Idle /\ call[c].at = "report" /\ call[c].op \in WriteOp
        /\ j \in Job
    BY <1>18, CallFields DEF Report, CallsInStep
  <2>2. \/ Moved(c, "log") /\ (Exists(j) \/ fkOff = TRUE)
           /\ report' = report \cup {j} /\ UNCHANGED <<job, plans, events, fkOff, faulty>>
        \/ Ended(c) /\ Failed(j)
    <3> HIDE DEF Moved, Ended, EventAdded, Failed, JobIs
    <3> QED
      BY Zenon, <1>18, <2>1, GotoFields, ReturnFields, FailFields, CallFields
         DEF Report, Checked, SaveReport, Accepted, Typed
  <2>3. UNCHANGED <<server, lastWrite, overlapped>>
    BY <1>18 DEF Report, Checked, SaveReport, Accepted, Typed
  <2> QED
    <3>1. GoesOn(c) /\ KeepsOthers(c) /\ StoreTyped
      BY <2>1, <2>2, <2>3 DEF Typed, CallsInStep
    <3>2. KeepsRecords(c) /\ Establishes(c) /\ Changes(c) /\ Leaves(c)
      BY <2>1, <2>2, <2>3 DEF Typed, CallsInStep
    <3> QED
      BY <3>1, <3>2
<1>19. CASE StorePlan(c)
  <2>1. call[c] # Idle /\ call[c].at = "store plan" /\ call[c].op = "plan"
        /\ j \in Job
    BY <1>19, CallFields DEF StorePlan, CallsInStep
  <2>2. /\ Ended(c)
        /\ \/ /\ plans' \in [Job -> PlanOf \cup {NoPlan}]
              /\ plans'[j] \in PlanOf
                 /\ (\A i \in Job \ {j} : plans'[i] = plans[i])
              /\ UNCHANGED <<job, events, report, fkOff, faulty>>
              /\ Exists(j) \/ fkOff = TRUE
           \/ Failed(j)
    <3> HIDE DEF Moved, Ended, EventAdded, Failed, JobIs
    <3> QED
      BY Zenon, <1>19, <2>1, GotoFields, ReturnFields, FailFields, PlanFields
         DEF StorePlan, Last, MayFail, CallsInStep
  <2>3. UNCHANGED <<server, lastWrite, overlapped>>
    BY <1>19 DEF StorePlan, Last, MayFail, CallsInStep
  <2> QED
    <3>1. GoesOn(c) /\ KeepsOthers(c) /\ StoreTyped
      BY <2>1, <2>2, <2>3 DEF Typed, CallsInStep
    <3>2. KeepsRecords(c) /\ Establishes(c) /\ Changes(c) /\ Leaves(c)
      BY <2>1, <2>2, <2>3 DEF Typed, CallsInStep
    <3> QED
      BY <3>1, <3>2
<1>20. CASE Delete(c)
  <2>1. call[c] # Idle /\ call[c].at = "delete" /\ call[c].op = "delete"
        /\ j \in Job
    BY <1>20, CallFields DEF Delete, CallsInStep
  <2>2. /\ Ended(c)
        /\ \/ /\ job' = [job EXCEPT ![j] = Deleted]
                 /\ plans' = [plans EXCEPT ![j] = NoPlan]
              /\ events' = [events EXCEPT ![j] = {}] /\ report' = report \ {j}
              /\ UNCHANGED <<fkOff, faulty>>
           \/ Failed(j)
    <3> HIDE DEF Moved, Ended, EventAdded, Failed, JobIs
    <3> QED
      BY Zenon, <1>20, <2>1, GotoFields, ReturnFields, FailFields
         DEF Delete, Last, MayFail, DeleteJob
  <2>3. UNCHANGED <<server, lastWrite, overlapped>>
    BY <1>20 DEF Delete, Last, MayFail, DeleteJob
  <2> QED
    <3>1. GoesOn(c) /\ KeepsOthers(c) /\ StoreTyped
      BY <2>1, <2>2, <2>3 DEF Typed, CallsInStep
    <3>2. KeepsRecords(c)
      <4>1. CASE Failed(j)
        BY <2>1, <2>2, <4>1 DEF Typed, CallsInStep
      <4>2. CASE ~Failed(j)
        <5>1. /\ job'[j] = Deleted /\ plans'[j] = NoPlan /\ events'[j] = {}
              /\ j \notin report' /\ fkOff' = fkOff /\ call'[c] = Idle
          BY <2>1, <2>2, <4>2 DEF Typed
        <5> QED
          BY <2>1, <5>1 DEF Typed, CallsInStep
      <4> QED
        BY <4>1, <4>2
    <3>3. Changes(c)
      BY <2>1, <2>2, <2>3 DEF Typed, CallsInStep
    <3>4. Establishes(c)
      BY <2>1, <2>2
    <3>5. Leaves(c)
      BY <2>1, <2>2 DEF Typed
    <3> QED
      BY <3>1, <3>2, <3>3, <3>4, <3>5
<1>21. CASE Create(c)
  <2>1. call[c] # Idle /\ call[c].at = "create" /\ call[c].op = "plan"
        /\ j \in Job
    BY <1>21, CallFields DEF Create, CallsInStep
  <2>2. \/ /\ Moved(c, "log created")
              /\ UNCHANGED <<plans, events, report, fkOff, faulty>>
           /\ job[j] = NoJob /\ job' \in [Job -> JobRow \cup {NoJob, Deleted}]
           /\ job'[j] \in JobRow /\ job'[j].status = "pending"
           /\ \A i \in Job \ {j} : job'[i] = job[i]
        \/ Ended(c) /\ Failed(j)
    <3> HIDE DEF Moved, Ended, EventAdded, Failed, JobIs
    <3> QED
      BY Zenon, <1>21, <2>1, GotoFields, ReturnFields, FailFields, CreateFields
         DEF Create, Checked, CallsInStep, PlanOf
  <2>3. UNCHANGED <<server, lastWrite, overlapped>>
    BY <1>21 DEF Create, Checked
  <2> QED
    <3>1. GoesOn(c) /\ KeepsOthers(c) /\ StoreTyped
      BY <2>1, <2>2, <2>3 DEF Typed, CallsInStep
    <3>2. KeepsRecords(c) /\ Establishes(c) /\ Changes(c) /\ Leaves(c)
      BY <2>1, <2>2, <2>3 DEF Typed, CallsInStep
    <3> QED
      BY <3>1, <3>2
<1> HIDE DEF Effect
<1> QED
  BY <1>1, <1>2, <1>3, <1>4, <1>5, <1>6, <1>7, <1>8, <1>9, <1>10, <1>11,
     <1>12, <1>13, <1>14, <1>15, <1>16, <1>17, <1>18, <1>19, <1>20, <1>21
     DEF Works

-----------------------------------------------------------------------------
(* The other steps: a call arrives, its process dies, or nothing of the     *)
(* manager changes.                                                         *)
Arrival(c) ==
    /\ call[c] = Idle
    /\ call' \in [Client -> Call \cup {Idle}] /\ Stays(c)
    /\ call'[c] # Idle /\ call'[c].job \in Job
    /\ UNCHANGED <<server, job, plans, events, report, fkOff, lastWrite, faulty>>
    /\ overlapped' \in SUBSET Job /\ overlapped \subseteq overlapped'
    /\ \/ /\ call'[c].op = "plan" /\ call'[c].at = "create"
          /\ call'[c].plan \in PlanOf /\ call'[c].plan.id = call'[c].job
          /\ job[call'[c].job] = NoJob
          /\ \A d \in Client : ~Serving(d, call'[c].job)
       \/ /\ call'[c].op \in WriteOp /\ call'[c].at = "get job"
          /\ call'[c].plan \in PlanOf /\ job[call'[c].job] # NoJob
          /\ \A d \in Client : Writing(d, call'[c].job) =>
                call'[c].job \in overlapped'
       \/ /\ call'[c].op = "delete" /\ call'[c].at = "check protected"
          /\ job[call'[c].job] # NoJob

Death(c) ==
    /\ call[c] # Idle /\ Ended(c)
    /\ faulty' = faulty \cup {call[c].job}
    /\ UNCHANGED <<server, job, plans, events, report, fkOff, lastWrite, overlapped>>

Quiet ==
    /\ server' \in [Res -> Server]
    /\ UNCHANGED <<job, plans, events, report, fkOff, call, lastWrite, faulty,
                   overlapped>>

(* What the arrival of a call writes into it.                               *)
LEMMA BeginFields ==
    ASSUME Typed, NEW c \in Client, NEW op \in {"plan", "apply", "rollback", "delete"},
           NEW j \in Job, NEW p \in PlanOf \cup {NoPlan}, NEW at \in Step,
           Begin(c, op, j, p, at)
    PROVE  /\ call[c] = Idle
           /\ call' \in [Client -> Call \cup {Idle}] /\ Stays(c)
           /\ call'[c] # Idle /\ call'[c].job = j /\ call'[c].op = op
           /\ call'[c].plan = p /\ call'[c].at = at
           /\ UNCHANGED <<server, job, plans, events, report, fkOff, lastWrite, faulty>>
<1> DEFINE new == [op |-> op, job |-> j, plan |-> p, at |-> at]
<1>1. /\ new \in Call /\ new.op = op /\ new.job = j /\ new.plan = p
      /\ new.at = at
  BY DEF Call
<1>2. call[c] = Idle /\ call' = [call EXCEPT ![c] = new]
  BY DEF Begin
<1> HIDE DEF new
<1>3. call'[c] = new /\ Stays(c) /\ call' \in [Client -> Call \cup {Idle}]
  BY <1>1, <1>2 DEF Typed, Stays
<1>4. UNCHANGED <<server, job, plans, events, report, fkOff, lastWrite, faulty>>
  BY DEF Begin, store
<1> QED
  BY <1>1, <1>2, <1>3, <1>4, ConstantsAssumption

(* Every step is the step, the arrival or the death of a call, or Dokploy's. *)
LEMMA StepKinds ==
    ASSUME Typed, [Next]_vars
    PROVE  \/ \E c \in Client : Works(c) \/ Arrival(c) \/ Death(c)
           \/ \E r \in Res, s \in Server : DokployMoves(r, s)
           \/ UNCHANGED vars
<1> USE ConstantsAssumption
<1>1. ASSUME NEW c \in Client, NEW j \in Job, NEW s \in Server, NEW t \in Server,
             ReceivePlan(c, j, s, t)
      PROVE  Arrival(c)
  <2> DEFINE p == [id |-> j, src |-> s, dst |-> t, rows |-> {}]
  <2>1. p \in PlanOf /\ p.id = j
    BY DEF PlanOf
  <2>2. Begin(c, "plan", j, p, "create")
    BY <1>1 DEF ReceivePlan
  <2> HIDE DEF p
  <2>3. /\ job[j] = NoJob /\ (\A d \in Client : ~Serving(d, j))
        /\ overlapped' = overlapped
    BY <1>1 DEF ReceivePlan
  <2>4. "create" \in Step /\ "plan" \in {"plan", "apply", "rollback", "delete"}
    BY DEF Step
  <2>5. /\ call[c] = Idle
        /\ call' \in [Client -> Call \cup {Idle}] /\ Stays(c)
        /\ call'[c] # Idle /\ call'[c].job = j /\ call'[c].op = "plan"
        /\ call'[c].plan = p /\ call'[c].at = "create"
        /\ UNCHANGED <<server, job, plans, events, report, fkOff, lastWrite, faulty>>
    BY <2>1, <2>2, <2>4, BeginFields
  <2> QED
    BY <2>1, <2>3, <2>5 DEF Arrival, Typed
<1>2. ASSUME NEW c \in Client, NEW op \in WriteOp, NEW j \in Job, NEW p \in Submitted,
             ReceiveWrite(c, op, j, p)
      PROVE  Arrival(c)
  <2>1. p \in PlanOf /\ op \in {"plan", "apply", "rollback", "delete"}
        /\ "get job" \in Step
    BY DEF WriteOp, Step
  <2>2. Begin(c, op, j, p, "get job") /\ job[j] # NoJob
    BY <1>2 DEF ReceiveWrite
  <2>3. overlapped' = IF \E d \in Client : Writing(d, j)
                      THEN overlapped \cup {j} ELSE overlapped
    BY <1>2 DEF ReceiveWrite
  <2>4. /\ call[c] = Idle
        /\ call' \in [Client -> Call \cup {Idle}] /\ Stays(c)
        /\ call'[c] # Idle /\ call'[c].job = j /\ call'[c].op = op
        /\ call'[c].plan = p /\ call'[c].at = "get job"
        /\ UNCHANGED <<server, job, plans, events, report, fkOff, lastWrite, faulty>>
    BY <2>1, <2>2, BeginFields
  <2>5. overlapped' \in SUBSET Job /\ overlapped \subseteq overlapped'
    BY <2>3 DEF Typed
  <2>6. \A d \in Client : Writing(d, j) => j \in overlapped'
    BY <2>3
  <2> QED
    BY <2>1, <2>2, <2>4, <2>5, <2>6 DEF Arrival
<1>3. ASSUME NEW c \in Client, NEW j \in Job, ReceiveDelete(c, j)
      PROVE  Arrival(c)
  <2>1. /\ NoPlan \in PlanOf \cup {NoPlan} /\ "check protected" \in Step
        /\ "delete" \in {"plan", "apply", "rollback", "delete"}
    BY DEF Step
  <2>2. Begin(c, "delete", j, NoPlan, "check protected") /\ job[j] # NoJob
    BY <1>3 DEF ReceiveDelete
  <2>3. overlapped' = overlapped
    BY <1>3 DEF ReceiveDelete
  <2>4. /\ call[c] = Idle
        /\ call' \in [Client -> Call \cup {Idle}] /\ Stays(c)
        /\ call'[c] # Idle /\ call'[c].job = j /\ call'[c].op = "delete"
        /\ call'[c].at = "check protected"
        /\ UNCHANGED <<server, job, plans, events, report, fkOff, lastWrite, faulty>>
    BY <2>1, <2>2, BeginFields
  <2>5. overlapped' \in SUBSET Job /\ overlapped \subseteq overlapped'
    BY <2>3 DEF Typed
  <2> QED
    BY <2>2, <2>4, <2>5 DEF Arrival
<1>4. ASSUME NEW c \in Client, Die(c) PROVE Death(c)
  BY <1>4, ReturnFields DEF Die, Death, store
<1>5. ASSUME NEW c \in Client, Plans(c) \/ Writes(c) \/ Deletes(c)
      PROVE  Works(c) \/ Arrival(c)
  BY <1>1, <1>2, <1>3, <1>5 DEF Plans, Writes, Deletes, Works, WriteOp
<1> QED
  BY <1>4, <1>5 DEF Next

(* Dokploy's leave the manager as it is.                                    *)
LEMMA StepEffect ==
    ASSUME Typed, CallsInStep, [Next]_vars
    PROVE  \/ \E c \in Client : Effect(c) \/ Arrival(c) \/ Death(c)
           \/ Quiet
<1>1. ASSUME NEW r \in Res, NEW s \in Server, DokployMoves(r, s) PROVE Quiet
  BY <1>1 DEF DokployMoves, Quiet, Typed, store, history
<1>2. CASE UNCHANGED vars
  BY <1>2 DEF vars, store, history, Quiet, Typed
<1> QED
  BY <1>1, <1>2, StepKinds, WorkEffect

-----------------------------------------------------------------------------
(* The parts of the inductive invariant, one lemma each.                    *)
(* The types, and the steps that each operation may be at.                  *)
LEMMA TypedStep ==
    ASSUME Typed, CallsInStep, [Next]_vars
    PROVE  Typed' /\ CallsInStep'
<1>1. ASSUME NEW c \in Client, Effect(c) PROVE Typed' /\ CallsInStep'
  <2>1. Typed'
    BY <1>1 DEF Typed, Effect, StoreTyped, GoesOn
  <2>2. ASSUME NEW d \in Client, call'[d] # Idle, d # c
        PROVE  /\ call'[d] = call[d] /\ call[d].job \in Job
               /\ job[call[d].job] # NoJob => job'[call[d].job] # NoJob
    BY <1>1, <2>2, CallFields DEF Effect, GoesOn, Stays, KeepsOthers, KeepsRecords
  <2>3. call'[c] # Idle => job'[call[c].job] # NoJob
    BY <1>1 DEF Effect, KeepsRecords
  <2>4. CallsInStep'
    <3> SUFFICES ASSUME NEW d \in Client, call'[d] # Idle
                 PROVE  /\ \/ /\ call'[d].op = "plan" /\ call'[d].at \in PlanSteps
                              /\ call'[d].plan \in PlanOf
                              /\ call'[d].plan.id = call'[d].job
                           \/ /\ call'[d].op \in WriteOp
                                 /\ call'[d].at \in WriteSteps
                              /\ call'[d].plan \in PlanOf
                           \/ call'[d].op = "delete"
                              /\ call'[d].at \in DeleteSteps
                        /\ call'[d].at # "create" => job'[call'[d].job] # NoJob
      BY DEF CallsInStep
    <3>1. CASE d = c
      BY <1>1, <2>3, <3>1 DEF CallsInStep, Effect, GoesOn, PlanSteps, WriteOp
    <3>2. CASE d # c
      BY <2>2, <3>2 DEF CallsInStep
    <3> QED
      BY <3>1, <3>2
  <2> QED
    BY <2>1, <2>4
<1>2. ASSUME NEW c \in Client, Arrival(c) PROVE Typed' /\ CallsInStep'
  <2>1. Typed'
    BY <1>2 DEF Arrival, Typed
  <2>2. \A d \in Client : d # c => call'[d] = call[d]
    BY <1>2 DEF Arrival, Stays
  <2>3. job' = job
    BY <1>2 DEF Arrival
  <2>4. CallsInStep'
    <3> SUFFICES ASSUME NEW d \in Client, call'[d] # Idle
                 PROVE  /\ \/ /\ call'[d].op = "plan" /\ call'[d].at \in PlanSteps
                              /\ call'[d].plan \in PlanOf
                              /\ call'[d].plan.id = call'[d].job
                           \/ /\ call'[d].op \in WriteOp
                                 /\ call'[d].at \in WriteSteps
                              /\ call'[d].plan \in PlanOf
                           \/ call'[d].op = "delete"
                              /\ call'[d].at \in DeleteSteps
                        /\ call'[d].at # "create" => job'[call'[d].job] # NoJob
      BY DEF CallsInStep
    <3>1. CASE d = c
      BY <1>2, <3>1, <2>3 DEF Arrival, PlanSteps, WriteSteps, DeleteSteps
    <3>2. CASE d # c
      BY <2>2, <2>3, <3>2 DEF CallsInStep
    <3> QED
      BY <3>1, <3>2
  <2> QED
    BY <2>1, <2>4
<1>3. ASSUME NEW c \in Client, Death(c) PROVE Typed' /\ CallsInStep'
  BY <1>3, CallFields DEF Death, Ended, Typed, CallsInStep, Stays
<1>4. CASE Quiet
  BY <1>4 DEF Quiet, Typed, CallsInStep
<1> QED
  BY <1>1, <1>2, <1>3, <1>4, StepEffect

(* A job ID that was not given out has no records.                          *)
LEMMA FreshStep ==
    ASSUME Typed, CallsInStep, Fresh, [Next]_vars
    PROVE  Fresh'
<1>1. ASSUME NEW c \in Client, Effect(c) PROVE Fresh'
  BY <1>1, CallFields
     DEF Fresh, CallsInStep, Effect, GoesOn, KeepsOthers, KeepsRecords
<1> QED
  BY <1>1, StepEffect DEF Fresh, Arrival, Death, Quiet

(* One call plans a job, and stores the plan in its last step.              *)
LEMMA PlannedOnceStep ==
    ASSUME Typed, CallsInStep, Fresh, PlannedOnce, [Next]_vars
    PROVE  PlannedOnce'
<1>1. ASSUME NEW c \in Client, Effect(c) PROVE PlannedOnce'
  <2>1. ASSUME NEW d \in Client, call'[d] # Idle, call'[d].op = "plan"
        PROVE  /\ call[d] # Idle /\ call[d].op = "plan"
               /\ call'[d].job = call[d].job /\ call[d].job \in Job
    BY <1>1, <2>1, CallFields DEF Effect, GoesOn, Stays
  <2>2. ASSUME NEW d \in Client, call'[d] # Idle, call'[d].op = "plan"
        PROVE  plans'[call[d].job] = NoPlan
    <3>1. plans[call[d].job] = NoPlan
      BY <2>1, <2>2 DEF PlannedOnce
    <3>2. CASE call[d].job # call[c].job
      BY <1>1, <2>1, <2>2, <3>1, <3>2 DEF Effect, KeepsOthers
    <3>3. CASE call[d].job = call[c].job /\ call[c].at = "store plan"
    /\ call'[c] = Idle
      BY <1>1, <2>1, <2>2, <3>3
         DEF Effect, GoesOn, CallsInStep, WriteSteps, DeleteSteps,
             PlannedOnce
    <3> QED
      BY <1>1, <3>1, <3>2, <3>3 DEF Effect, KeepsRecords
  <2> QED
    BY <2>1, <2>2 DEF PlannedOnce
<1>2. ASSUME NEW c \in Client, Arrival(c) PROVE PlannedOnce'
  <2>1. \A d \in Client : d # c => call'[d] = call[d]
    BY <1>2 DEF Arrival, Stays
  <2>2. plans' = plans
    BY <1>2 DEF Arrival
  <2>3. call'[c].op = "plan" =>
           /\ plans[call'[c].job] = NoPlan
           /\ \A d \in Client : call[d] # Idle => call[d].job # call'[c].job
    BY <1>2 DEF Arrival, Fresh, Serving, WriteOp
  <2> QED
    BY <2>1, <2>2, <2>3 DEF PlannedOnce
<1> QED
  BY <1>1, <1>2, StepEffect DEF PlannedOnce, Death, Ended, Stays, Quiet

(* The plan of a writing call still matches the stored one: only the        *)
(* planning call stores one, and only a deletion removes it.                *)
LEMMA PlanIsCheckedStep ==
    ASSUME Typed, CallsInStep, PlannedOnce, PlanIsChecked, [Next]_vars
    PROVE  PlanIsChecked'
<1>1. ASSUME NEW c \in Client, Effect(c),
             NEW d \in Client, call'[d] # Idle, call'[d].op \in WriteOp,
             call'[d].at \in AfterCheck, job'[call'[d].job] \in JobRow
      PROVE  Matches(call'[d].plan, plans'[call'[d].job])
  <2> DEFINE j == call[c].job
  <2>1. j \in Job /\ call[c] # Idle
    BY <1>1, CallFields DEF Effect, GoesOn
  <2>2. CASE d = c
    <3>1. /\ call[c].op \in WriteOp /\ call'[c].plan = call[c].plan
          /\ call'[c].job = j
      BY <1>1, <2>2 DEF Effect, GoesOn, WriteOp
    <3>2. call[c].at # "create" /\ call[c].at # "store plan"
      BY <2>1, <3>1 DEF CallsInStep, WriteOp, WriteSteps
    <3>3. plans'[j] = plans[j] /\ Exists(j)
      BY <1>1, <2>2, <3>1, <3>2 DEF Effect, KeepsRecords
    <3>4. CASE call[c].at \in AfterCheck
      BY <2>1, <2>2, <3>1, <3>3, <3>4 DEF PlanIsChecked
    <3>5. CASE call[c].at \notin AfterCheck
      BY <1>1, <2>2, <3>1, <3>3, <3>5 DEF Effect, Establishes
    <3> QED
      BY <3>4, <3>5
  <2>3. CASE d # c
    <3>1. call'[d] = call[d] /\ call[d].job \in Job /\ job[call[d].job] # NoJob
      BY <1>1, <2>3, CallFields
         DEF Effect, GoesOn, Stays, CallsInStep, AfterCheck, WriteSteps
    <3>2. CASE call[d].job # j
      BY <1>1, <3>1, <3>2 DEF Effect, KeepsOthers, PlanIsChecked, Exists
    <3>3. CASE call[d].job = j
      <4>1. Exists(j)
        BY <1>1, <3>1, <3>3 DEF Effect, KeepsRecords
      <4>2. Matches(call[d].plan, plans[j])
        BY <1>1, <3>1, <3>3, <4>1 DEF PlanIsChecked
      <4>3. call[c].at # "store plan"
        BY <2>1, <4>2
           DEF Matches, CallsInStep, PlannedOnce, WriteSteps, DeleteSteps
      <4> QED
        BY <1>1, <3>1, <3>3, <4>2, <4>3 DEF Effect, KeepsRecords
    <3> QED
      BY <3>2, <3>3
  <2> QED
    BY <2>2, <2>3
<1>2. ASSUME NEW c \in Client, Arrival(c) PROVE PlanIsChecked'
  BY <1>2 DEF PlanIsChecked, Arrival, Stays, AfterCheck, WriteSteps, Exists
<1>3. ASSUME NEW c \in Client, Death(c) PROVE PlanIsChecked'
  BY <1>3 DEF PlanIsChecked, Death, Ended, Stays, Exists
<1>4. CASE Quiet
  BY <1>4 DEF PlanIsChecked, Quiet, Exists
<1> QED
  BY <1>1, <1>2, <1>3, <1>4, StepEffect DEF PlanIsChecked, Exists

(* The announcement precedes the write and stays.                           *)
LEMMA AnnouncedStep ==
    ASSUME Typed, CallsInStep, Announced, [Next]_vars
    PROVE  Announced'
<1>1. ASSUME NEW c \in Client, Effect(c),
             NEW d \in Client, call'[d] # Idle, call'[d].at = "write",
             job'[call'[d].job] \in JobRow
      PROVE  Names(call'[d].op).announce \in events'[call'[d].job]
  <2> DEFINE j == call[c].job
  <2>1. j \in Job /\ call[c] # Idle
    BY <1>1, CallFields DEF Effect, GoesOn
  <2>2. CASE d = c
    BY <1>1, <2>2 DEF Effect, GoesOn, Establishes
  <2>3. CASE d # c
    <3>1. call'[d] = call[d] /\ call[d].job \in Job /\ job[call[d].job] # NoJob
      BY <1>1, <2>3, CallFields DEF Effect, GoesOn, Stays, CallsInStep
    <3>2. CASE call[d].job # j
      BY <1>1, <3>1, <3>2 DEF Effect, KeepsOthers, Announced, At, Exists
    <3>3. CASE call[d].job = j
      BY <1>1, <3>1, <3>3 DEF Effect, KeepsRecords, Announced, At, Exists
    <3> QED
      BY <3>2, <3>3
  <2> QED
    BY <2>2, <2>3
<1>2. ASSUME NEW c \in Client, Arrival(c) PROVE Announced'
  BY <1>2 DEF Announced, At, Arrival, Stays, Exists
<1>3. ASSUME NEW c \in Client, Death(c) PROVE Announced'
  BY <1>3 DEF Announced, At, Death, Ended, Stays, Exists
<1>4. CASE Quiet
  BY <1>4 DEF Announced, At, Quiet, Exists
<1> QED
  BY <1>1, <1>2, <1>3, <1>4, StepEffect DEF Announced, At, Exists

(* After the commit the report and the event are saved in turn and stay.    *)
LEMMA CommitIsRecordedStep ==
    ASSUME Typed, CallsInStep, CommitIsRecorded, [Next]_vars
    PROVE  CommitIsRecorded'
<1> DEFINE Recorded(d) ==
              /\ lastWrite[call[d].job] # "none"
              /\ Exists(call[d].job) =>
                    /\ call[d].op = "apply" /\ call[d].at # "report" =>
                          call[d].job \in report
                    /\ call[d].at = "finish" =>
                          Names(call[d].op).log \in events[call[d].job]
<1>1. ASSUME NEW c \in Client, Effect(c),
             NEW d \in Client, call'[d] # Idle, call'[d].at \in AfterCommit
      PROVE  Recorded(d)'
  <2> DEFINE j == call[c].job
  <2>1. /\ j \in Job /\ call[c] # Idle
        /\ call[c].op \in {"plan", "apply", "rollback", "delete"}
    BY <1>1, CallFields DEF Effect, GoesOn
  <2>2. CASE d = c
    <3>1. /\ call'[c].op = call[c].op /\ call'[c].job = j
          /\ call[c].op \in WriteOp
      BY <1>1, <2>2 DEF Effect, GoesOn, AfterCommit, PlanSteps, DeleteSteps
    <3>2. lastWrite'[j] # "none"
      <4>1. CASE call[c].at \in AfterCommit
        BY <1>1, <2>1, <3>1, <4>1 DEF Effect, Changes, CommitIsRecorded, WriteOp
      <4>2. CASE call[c].at \notin AfterCommit
        BY <1>1, <2>2, <3>1, <4>2 DEF Effect, Establishes, WriteOp
      <4> QED
        BY <4>1, <4>2
    <3>3. ASSUME job'[j] \in JobRow, call[c].op = "apply", call'[c].at # "report"
          PROVE  j \in report'
      <4>1. CASE call[c].at \in {"log", "finish"}
        <5>1. Exists(j)
          BY <1>1, <3>3, <4>1 DEF Effect, KeepsRecords
        <5>2. j \in report
          BY <2>1, <3>3, <4>1, <5>1 DEF CommitIsRecorded, AfterCommit
        <5> QED
          BY <1>1, <3>3, <5>2 DEF Effect, KeepsRecords
      <4>2. CASE call[c].at \notin {"log", "finish"}
        BY <1>1, <2>2, <3>3, <4>2 DEF Effect, Establishes, AfterCommit
      <4> QED
        BY <4>1, <4>2
    <3>4. call'[c].at = "finish" => Names(call[c].op).log \in events'[j]
      BY <1>1, <2>2 DEF Effect, Establishes
    <3> QED
      BY <2>2, <3>1, <3>2, <3>3, <3>4 DEF Exists
  <2>3. CASE d # c
    <3>1. call'[d] = call[d] /\ call[d].job \in Job /\ job[call[d].job] # NoJob
      BY <1>1, <2>3, CallFields
         DEF Effect, GoesOn, Stays, CallsInStep, AfterCommit
    <3>2. Recorded(d)
      BY <1>1, <3>1 DEF CommitIsRecorded
    <3>3. CASE call[d].job # j
      BY <1>1, <3>1, <3>2, <3>3 DEF Effect, KeepsOthers, Exists
    <3>4. CASE call[d].job = j
      <4>1. lastWrite'[j] # "none"
        BY <1>1, <2>1, <3>2, <3>4 DEF Effect, Changes, CallsInStep, WriteOp,
              PlanSteps, DeleteSteps
      <4>2. job'[j] \in JobRow =>
               Exists(j) /\ events[j] \subseteq events'[j]
               /\ (j \in report => j \in report')
        BY <1>1, <3>1, <3>4 DEF Effect, KeepsRecords
      <4> QED
        BY <3>1, <3>2, <3>4, <4>1, <4>2 DEF Exists
    <3> QED
      BY <3>3, <3>4
  <2> QED
    BY <2>2, <2>3
<1>2. ASSUME NEW c \in Client, Arrival(c) PROVE CommitIsRecorded'
  BY <1>2 DEF CommitIsRecorded, Arrival, Stays, AfterCommit, Exists
<1>3. ASSUME NEW c \in Client, Death(c) PROVE CommitIsRecorded'
  BY <1>3 DEF CommitIsRecorded, Death, Ended, Stays, Exists
<1>4. CASE Quiet
  BY <1>4 DEF CommitIsRecorded, Quiet, Exists
<1> QED
  BY <1>1, <1>2, <1>3, <1>4, StepEffect DEF CommitIsRecorded, Exists

(* Records are removed with their job and refused after it.                 *)
LEMMA NothingOrphanedStep ==
    ASSUME Typed, CallsInStep, NothingOrphaned, [Next]_vars
    PROVE  NothingOrphaned'
<1>1. ASSUME NEW c \in Client, Effect(c),
             NEW i \in Job, job'[i] \notin JobRow, ~fkOff'
      PROVE  events'[i] = {} /\ plans'[i] = NoPlan /\ i \notin report'
  <2>1. call[c].job \in Job /\ fkOff \in BOOLEAN /\ fkOff' \in BOOLEAN
    BY <1>1, CallFields DEF Effect, GoesOn, StoreTyped, Typed
  <2>2. ~fkOff
    BY <1>1, <2>1 DEF Effect, KeepsRecords
  <2>3. ~Exists(i) => events[i] = {} /\ plans[i] = NoPlan /\ i \notin report
    BY <2>2 DEF NothingOrphaned
  <2>4. CASE i # call[c].job
    BY <1>1, <2>3, <2>4 DEF Effect, KeepsOthers, Exists
  <2>5. CASE i = call[c].job
    BY <1>1, <2>1, <2>2, <2>3, <2>5 DEF Effect, KeepsRecords
  <2> QED
    BY <2>4, <2>5
<1>2. ASSUME NEW c \in Client, Arrival(c) \/ Death(c) \/ Quiet
      PROVE  UNCHANGED <<job, events, plans, report, fkOff>>
  BY <1>2 DEF Arrival, Death, Quiet
<1>3. ASSUME UNCHANGED <<job, events, plans, report, fkOff>>
      PROVE  NothingOrphaned'
  BY <1>3 DEF NothingOrphaned, Exists
<1>4. ASSUME NEW c \in Client, Effect(c) PROVE NothingOrphaned'
  BY <1>1, <1>4 DEF NothingOrphaned, Exists
<1>5. CASE Quiet
  BY <1>3, <1>5 DEF Quiet
<1> QED
  BY <1>2, <1>3, <1>4, <1>5, StepEffect

(* A writing call that shares its job with no other finds its own traces.   *)
LEMMA AloneStep ==
    ASSUME Typed, CallsInStep, Alone, [Next]_vars
    PROVE  Alone'
<1> DEFINE Knows(c, j) ==
              /\ call[c].at \in Running /\ Exists(j) =>
                    job[j].status \notin {"succeeded", "rolled_back"}
              /\ call[c].at \in AfterCommit => lastWrite[j] = call[c].op
<1>1. ASSUME NEW c \in Client, Effect(c) PROVE Alone'
  <2> DEFINE k == call[c].job
  <2>1. k \in Job /\ call[c] # Idle /\ overlapped' = overlapped
    BY <1>1, CallFields DEF Effect, GoesOn, StoreTyped
  <2>2. ASSUME NEW d \in Client, NEW j \in Job, Writing(d, j)'
        PROVE  Writing(d, j)
    BY <1>1, <2>2 DEF Effect, GoesOn, Stays, Writing, Serving
  <2>3. ASSUME NEW d \in Client, NEW j \in Job \ overlapped, Writing(d, j)'
        PROVE  Knows(d, j)'
    <3>1. Writing(d, j) /\ Knows(d, j)
      BY <2>2, <2>3 DEF Alone
    <3>2. CASE d = c
      <4>1. /\ j = k /\ call[c].op \in WriteOp /\ call'[c] # Idle
            /\ call'[c].op = call[c].op
        BY <1>1, <2>3, <3>1, <3>2 DEF Effect, GoesOn, Writing, Serving, WriteOp
      <4>2. call[c].at \in WriteSteps
        BY <2>1, <4>1 DEF CallsInStep, WriteOp
      <4>3. call'[c].at \in AfterCommit => lastWrite'[j] = call[c].op
        <5>1. CASE call[c].at \in AfterCommit
          BY <1>1, <3>1, <3>2, <4>1, <5>1 DEF Effect, Changes, AfterCommit
        <5>2. CASE call[c].at \notin AfterCommit
          BY <1>1, <4>1, <5>2 DEF Effect, Establishes
        <5> QED
          BY <5>1, <5>2
      <4>4. ASSUME call'[c].at \in Running, job'[j] \in JobRow
            PROVE  job'[j].status \notin {"succeeded", "rolled_back"}
        <5>1. CASE call[c].at \in Running
          <6>1. Exists(j)
            BY <1>1, <4>1, <4>2, <4>4 DEF Effect, KeepsRecords, WriteSteps
          <6>2. job[j].status \notin {"succeeded", "rolled_back"}
            BY <3>1, <3>2, <5>1, <6>1
          <6> QED
            BY <1>1, <4>1, <4>2, <4>4, <6>2 DEF Effect, Changes, WriteSteps
        <5>2. CASE call[c].at \notin Running
          BY <1>1, <4>1, <4>4, <5>2 DEF Effect, Establishes
        <5> QED
          BY <5>1, <5>2
      <4> QED
        BY <3>2, <4>1, <4>3, <4>4 DEF Exists
    <3>3. CASE d # c
      <4>1. call'[d] = call[d]
        BY <1>1, <3>3 DEF Effect, GoesOn, Stays
      <4>2. CASE j # k
        BY <1>1, <3>1, <4>1, <4>2 DEF Effect, KeepsOthers, Exists
      <4>3. CASE j = k
        <5>1. ~Writing(c, j)
          BY <2>3, <3>1, <3>3 DEF Alone
        <5>2. call[c].op \notin WriteOp
          BY <2>1, <4>3, <5>1 DEF Writing, Serving, WriteOp
        <5>3. call[c].at \in PlanSteps \cup DeleteSteps
          BY <2>1, <5>2 DEF CallsInStep
        <5>4. lastWrite' = lastWrite
          BY <1>1, <5>3 DEF Effect, Changes, PlanSteps, DeleteSteps
        <5>5. ASSUME job'[j] \in JobRow, call[d].at \in Running
              PROVE  job'[j].status \notin {"succeeded", "rolled_back"}
          <6>1. call[d].at # "create" /\ job[j] # NoJob
            BY <3>1, <5>5 DEF Running, AfterCheck, WriteSteps, CallsInStep,
                  Writing, Serving
          <6>2. Exists(j)
            BY <1>1, <4>3, <5>5, <6>1 DEF Effect, KeepsRecords
          <6>3. job[j].status \notin {"succeeded", "rolled_back"}
            BY <3>1, <5>5, <6>2
          <6> QED
            BY <1>1, <4>3, <5>3, <5>5, <6>3
               DEF Effect, Changes, PlanSteps, DeleteSteps
        <5> QED
          BY <3>1, <4>1, <5>4, <5>5 DEF Exists
      <4> QED
        BY <4>2, <4>3
    <3> QED
      BY <3>2, <3>3
  <2>4. ASSUME NEW d \in Client, NEW e \in Client, NEW j \in Job \ overlapped,
               Writing(d, j)', Writing(e, j)'
        PROVE  d = e
    BY <2>2, <2>4 DEF Alone
  <2> QED
    BY <2>1, <2>3, <2>4 DEF Alone
<1>2. ASSUME NEW c \in Client, Arrival(c) PROVE Alone'
  <2>1. ASSUME NEW d \in Client, NEW j \in Job \ overlapped', Writing(d, j)'
        PROVE  /\ j \in Job \ overlapped
               /\ d # c => Writing(d, j) /\ call'[d] = call[d]
               /\ d = c => /\ call'[c].at = "get job"
                           /\ \A e \in Client : ~Writing(e, j)
    BY <1>2, <2>1 DEF Arrival, Stays, Writing, Serving, WriteOp
  <2>2. job' = job /\ lastWrite' = lastWrite
    BY <1>2 DEF Arrival
  <2>3. ASSUME NEW d \in Client, NEW j \in Job \ overlapped', Writing(d, j)'
        PROVE  Knows(d, j)'
    <3>1. CASE d = c
      BY <2>1, <2>3, <3>1 DEF Running, AfterCheck, AfterCommit
    <3>2. CASE d # c
      BY <2>1, <2>2, <2>3, <3>2 DEF Alone, Exists
    <3> QED
      BY <3>1, <3>2
  <2>4. ASSUME NEW d \in Client, NEW e \in Client, NEW j \in Job \ overlapped',
               Writing(d, j)', Writing(e, j)'
        PROVE  d = e
    BY <2>1, <2>4 DEF Alone
  <2> QED
    BY <2>3, <2>4 DEF Alone
<1>3. ASSUME NEW c \in Client, Death(c) PROVE Alone'
  <2>1. ASSUME NEW d \in Client, NEW j \in Job, Writing(d, j)'
        PROVE  Writing(d, j) /\ call'[d] = call[d]
    BY <1>3, <2>1 DEF Death, Ended, Stays, Writing, Serving
  <2>2. UNCHANGED <<job, lastWrite, overlapped>>
    BY <1>3 DEF Death
  <2>3. ASSUME NEW d \in Client, NEW j \in Job \ overlapped', Writing(d, j)'
        PROVE  Knows(d, j)'
    BY <2>1, <2>2, <2>3 DEF Alone, Exists
  <2>4. ASSUME NEW d \in Client, NEW e \in Client, NEW j \in Job \ overlapped',
               Writing(d, j)', Writing(e, j)'
        PROVE  d = e
    BY <2>1, <2>2, <2>4 DEF Alone
  <2> QED
    BY <2>3, <2>4 DEF Alone
<1>4. CASE Quiet
  BY <1>4 DEF Alone, Quiet, Writing, Serving, Exists
<1> QED
  BY <1>1, <1>2, <1>3, <1>4, StepEffect

(* A final status is set by the last step only, after its records.          *)
LEMMA OutcomeStep ==
    ASSUME Typed, CallsInStep, CommitIsRecorded, OutcomeIsDocumented, [Next]_vars
    PROVE  OutcomeIsDocumented'
<1> DEFINE Documented(j) ==
              /\ Exists(j) /\ job[j].status = "succeeded" =>
                    j \in report /\ "report saved" \in events[j]
              /\ Exists(j) /\ job[j].status = "rolled_back" =>
                    "rollback applied" \in events[j]
              /\ (j \in report \/ "rollback applied" \in events[j]) =>
                    lastWrite[j] # "none"
<1>1. ASSUME NEW c \in Client, Effect(c), NEW j \in Job PROVE Documented(j)'
  <2>1. Documented(j)
    BY DEF OutcomeIsDocumented
  <2>2. CASE j # call[c].job
    BY <1>1, <2>1, <2>2 DEF Effect, KeepsOthers, Exists
  <2>3. CASE j = call[c].job
    <3>1. /\ call[c] # Idle
    /\ call[c].op \in {"plan", "apply", "rollback", "delete"}
      BY <1>1, CallFields DEF Effect, GoesOn
    <3>2. lastWrite[j] # "none" => lastWrite'[j] # "none"
      BY <1>1, <2>3, <3>1 DEF Effect, Changes, CallsInStep, PlanSteps,
            DeleteSteps, WriteOp
    <3>3. (j \in report' \/ "rollback applied" \in events'[j]) =>
             lastWrite'[j] # "none"
      <4>1. call[c].at \in AfterCommit => lastWrite[j] # "none"
        BY <2>3, <3>1 DEF CommitIsRecorded
      <4> QED
        BY <1>1, <2>1, <2>3, <3>2, <4>1 DEF Effect, Changes, AfterCommit
    <3>4. ASSUME job'[j] \in JobRow, job'[j].status \in {"succeeded", "rolled_back"}
          PROVE  /\ job'[j].status = "succeeded" =>
                       j \in report' /\ "report saved" \in events'[j]
                 /\ job'[j].status = "rolled_back" =>
                       "rollback applied" \in events'[j]
      <4>1. CASE job'[j] = job[j]
        BY <1>1, <2>1, <2>3, <3>4, <4>1 DEF Effect, KeepsRecords, Exists
      <4>2. CASE job'[j] # job[j]
        <5>1. call[c].at = "finish" /\ job'[j].status = Names(call[c].op).status
          BY <1>1, <2>3, <3>4, <4>2 DEF Effect, Changes
        <5>2. call[c].op \in WriteOp
          BY <3>1, <5>1 DEF CallsInStep, PlanSteps, DeleteSteps
        <5>3. Exists(j)
          BY <1>1, <2>3, <3>4, <5>1 DEF Effect, KeepsRecords
        <5>4. /\ call[c].op = "apply" => j \in report
              /\ Names(call[c].op).log \in events[j]
          BY <2>3, <3>1, <5>1, <5>3 DEF CommitIsRecorded, AfterCommit
        <5>5. CASE call[c].op = "apply"
          BY <1>1, <2>3, <3>4, <5>1, <5>4, <5>5 DEF Effect, KeepsRecords, Names
        <5>6. CASE call[c].op = "rollback"
          BY <1>1, <2>3, <3>4, <5>1, <5>4, <5>6 DEF Effect, KeepsRecords, Names
        <5> QED
          BY <5>2, <5>5, <5>6 DEF WriteOp
      <4> QED
        BY <4>1, <4>2
    <3> QED
      BY <3>3, <3>4 DEF Exists
  <2> QED
    BY <2>2, <2>3
<1>2. ASSUME NEW c \in Client, Effect(c) PROVE OutcomeIsDocumented'
  BY <1>1, <1>2 DEF OutcomeIsDocumented
<1>3. ASSUME UNCHANGED <<job, report, events, lastWrite>>
      PROVE  OutcomeIsDocumented'
  BY <1>3 DEF OutcomeIsDocumented, Exists
<1>4. ASSUME NEW c \in Client, Arrival(c) \/ Death(c) PROVE OutcomeIsDocumented'
  BY <1>3, <1>4 DEF Arrival, Death
<1>5. CASE Quiet
  BY <1>3, <1>5 DEF Quiet
<1> QED
  BY <1>2, <1>4, <1>5, StepEffect

(* A final status is set by the call that committed last.                   *)
LEMMA StatusStep ==
    ASSUME Typed, CallsInStep, Alone, StatusNamesLastWrite, [Next]_vars
    PROVE  StatusNamesLastWrite'
<1> DEFINE Named(j) ==
              Exists(j) =>
                 /\ job[j].status = "succeeded" => lastWrite[j] = "apply"
                 /\ job[j].status = "rolled_back" => lastWrite[j] = "rollback"
<1>1. ASSUME NEW c \in Client, Effect(c), NEW j \in Job \ overlapped'
      PROVE  Named(j)'
  <2>1. Named(j) /\ j \notin overlapped
    BY <1>1 DEF StatusNamesLastWrite, Effect, StoreTyped
  <2>2. CASE j # call[c].job
    BY <1>1, <2>1, <2>2 DEF Effect, KeepsOthers, Exists
  <2>3. CASE j = call[c].job
    <3> SUFFICES ASSUME job'[j] \in JobRow,
                        job'[j].status \in {"succeeded", "rolled_back"}
                 PROVE  /\ job'[j].status = "succeeded" => lastWrite'[j] = "apply"
                        /\ job'[j].status = "rolled_back" =>
                              lastWrite'[j] = "rollback"
      BY DEF Exists
    <3>1. call[c] # Idle
      BY <1>1 DEF Effect, GoesOn
    <3>2. call[c].at \in Running =>
             /\ call[c].op \in WriteOp
             /\ Exists(j) => job[j].status \notin {"succeeded", "rolled_back"}
             /\ call[c].at = "finish" => lastWrite[j] = call[c].op
      BY <2>1, <2>3, <3>1 DEF CallsInStep, Alone, Writing, Serving, WriteOp,
            Running, AfterCheck, AfterCommit, PlanSteps, WriteSteps, DeleteSteps
    <3>3. call[c].at # "create" => Exists(j)
      BY <1>1, <2>3 DEF Effect, KeepsRecords
    <3>4. CASE call[c].at = "finish" /\ job'[j].status = Names(call[c].op).status
      <4>1. lastWrite'[j] = call[c].op
        BY <1>1, <2>3, <3>2, <3>4
           DEF Effect, Changes, Running, AfterCheck, WriteSteps
      <4>2. CASE call[c].op = "apply"
        BY <3>4, <4>1, <4>2 DEF Names
      <4>3. CASE call[c].op = "rollback"
        BY <3>4, <4>1, <4>3 DEF Names
      <4> QED
        BY <3>2, <3>4, <4>2, <4>3 DEF Running, AfterCheck, WriteSteps, WriteOp
    <3>5. CASE job'[j] = job[j]
      <4>1. Exists(j) /\ call[c].at \notin Running
        BY <3>2, <3>5 DEF Exists
      <4>2. call[c].at # "write"
        BY <4>1 DEF Running, AfterCheck, WriteSteps
      <4> QED
        BY <1>1, <2>1, <2>3, <3>5, <4>1, <4>2 DEF Effect, Changes
    <3> QED
      BY <1>1, <2>3, <3>4, <3>5 DEF Effect, Changes
  <2> QED
    BY <2>2, <2>3
<1>2. ASSUME NEW c \in Client, Effect(c) PROVE StatusNamesLastWrite'
  BY <1>1, <1>2 DEF StatusNamesLastWrite
<1>3. ASSUME UNCHANGED <<job, lastWrite>>, overlapped \subseteq overlapped'
      PROVE  StatusNamesLastWrite'
  BY <1>3 DEF StatusNamesLastWrite, Exists
<1>4. ASSUME NEW c \in Client, Arrival(c) \/ Death(c) PROVE StatusNamesLastWrite'
  BY <1>3, <1>4 DEF Arrival, Death
<1>5. CASE Quiet
  BY <1>3, <1>5 DEF Quiet
<1> QED
  BY <1>2, <1>4, <1>5, StepEffect

(* Whatever is unsettled has a call that will settle it.                    *)
LEMMA AttendedStep ==
    ASSUME Typed, CallsInStep, PlanIsChecked, Attended, [Next]_vars
    PROVE  Attended'
<1> DEFINE Storing == Planning \cup {"store plan"}
           Writer(j) == \E c \in Client : Writing(c, j) /\ call[c].at \in Running
           Planner(j, S) == \E c \in Client : Serving(c, j) /\ call[c].at \in S
           Kept(j) == /\ job[j].status = "running" => Writer(j)
                      /\ job[j].status = "pending" => Planner(j, Planning)
                      /\ plans[j] = NoPlan =>
                            job[j].checkpoint = "plan" \/ Planner(j, Storing)
<1>1. ASSUME NEW j \in Job \ faulty, Exists(j) PROVE Kept(j)
  BY <1>1 DEF Attended, Planning
<1>2. ASSUME \A j \in Job \ faulty' : job'[j] \in JobRow => Kept(j)'
      PROVE  Attended'
  BY <1>2 DEF Attended, Planning, Exists
<1>3. ASSUME NEW c \in Client, Effect(c),
             NEW j \in Job \ faulty', job'[j] \in JobRow
      PROVE  Kept(j)'
  <2>1. /\ call[c] # Idle /\ \A d \in Client \ {c} : call'[d] = call[d]
        /\ call'[c] # Idle =>
              call'[c].op = call[c].op /\ call'[c].job = call[c].job
    BY <1>3 DEF Effect, GoesOn, Stays
  <2>2. CASE j # call[c].job
    <3>1. /\ job'[j] = job[j] /\ plans'[j] = plans[j] /\ j \notin faulty
      BY <1>3, <2>2 DEF Effect, KeepsOthers
    <3>2. Kept(j)
      BY <1>1, <1>3, <3>1 DEF Exists
    <3>3. Writer(j) => Writer(j)'
      BY <2>1, <2>2 DEF Writing, Serving
    <3>4. ASSUME NEW S, Planner(j, S)
          PROVE  \E d \in Client : Serving(d, j)' /\ call'[d].at \in S
      BY <2>1, <2>2, <3>4 DEF Serving
    <3> QED
      BY <3>1, <3>2, <3>3, <3>4
  <2>3. CASE j = call[c].job
    <3>1. /\ j \notin faulty
          /\ \/ Exists(j)
             \/ job[j] = NoJob /\ call[c].at = "create"
      BY <1>3, <2>3 DEF Effect, Leaves, KeepsRecords
    <3>2. ASSUME Writer(j) PROVE Writer(j)' \/ job'[j].status # "running"
      <4>1. PICK d \in Client : Writing(d, j) /\ call[d].at \in Running
        BY <3>2
      <4>2. CASE d # c
        BY <2>1, <4>1, <4>2 DEF Writing, Serving
      <4>3. CASE d = c /\ call'[c] # Idle /\ call'[c].at \in Running
        BY <2>1, <4>1, <4>3 DEF Writing, Serving
      <4>4. CASE d = c /\ (call'[c] = Idle \/ call'[c].at \notin Running)
        BY <1>3, <2>3, <4>1, <4>4 DEF Effect, Leaves
      <4> QED
        BY <4>2, <4>3, <4>4
    <3>3. ASSUME Planner(j, Planning)
          PROVE  Planner(j, Planning)' \/ job'[j].status # "pending"
      <4>1. PICK d \in Client : Serving(d, j) /\ call[d].at \in Planning
        BY <3>3
      <4>2. CASE d # c
        BY <2>1, <4>1, <4>2 DEF Serving
      <4>3. CASE d = c /\ call'[c] # Idle /\ call'[c].at \in Planning
        BY <2>1, <4>1, <4>3 DEF Serving
      <4>4. CASE d = c /\ (call'[c] = Idle \/ call'[c].at \notin Planning)
        BY <1>3, <2>3, <4>1, <4>4 DEF Effect, Leaves
      <4> QED
        BY <4>2, <4>3, <4>4
    <3>4. ASSUME Planner(j, Storing)
          PROVE  \/ Planner(j, Storing)'
                 \/ plans'[j] # NoPlan \/ job'[j].checkpoint = "plan"
      <4>1. PICK d \in Client : Serving(d, j) /\ call[d].at \in Storing
        BY <3>4
      <4>2. CASE d # c
        BY <2>1, <4>1, <4>2 DEF Serving
      <4>3. CASE d = c /\ call'[c] # Idle /\ call'[c].at \in Storing
        BY <2>1, <4>1, <4>3 DEF Serving
      <4>4. CASE d = c /\ (call'[c] = Idle \/ call'[c].at \notin Storing)
        BY <1>3, <2>3, <4>1, <4>4 DEF Effect, Leaves
      <4> QED
        BY <4>2, <4>3, <4>4
    <3>5. CASE call[c].at = "create" /\ job'[j] # job[j]
      <4>1. /\ job'[j].status = "pending" /\ call'[c] # Idle
            /\ call'[c].at = "log created"
        BY <1>3, <2>3, <3>5 DEF Effect, Changes
      <4> QED
        BY <2>1, <2>3, <4>1 DEF Serving, Planning
    <3>6. CASE job'[j] = job[j]
      <4>1. Exists(j) /\ Kept(j)
        BY <1>1, <1>3, <3>1, <3>6 DEF Exists
      <4>2. CASE plans'[j] = plans[j]
        BY <3>2, <3>3, <3>4, <3>6, <4>1, <4>2
      <4>3. CASE plans'[j] # plans[j]
        <5>1. call[c].at = "store plan" /\ call'[c] = Idle
          BY <1>3, <2>3, <4>3 DEF Effect, KeepsRecords
        <5>2. plans'[j] # NoPlan \/ job'[j].checkpoint = "plan"
          BY <1>3, <2>3, <5>1 DEF Effect, Leaves
        <5> QED
          BY <3>2, <3>3, <3>6, <4>1, <5>2
      <4> QED
        BY <4>2, <4>3
    <3>7. CASE call[c].at # "create" /\ job'[j] # job[j]
      <4>1. Exists(j)
        BY <3>1, <3>7
      <4>2. CASE /\ call[c].at = "ready" /\ job'[j].status = "paused"
                 /\ call'[c] # Idle /\ call'[c].at = "store plan"
        BY <2>1, <2>3, <4>2 DEF Serving
      <4>3. CASE job'[j].status = "failed" /\ job'[j].checkpoint = "plan"
        BY <4>3
      <4>4. CASE /\ call[c].at \in {"start", "fail job", "finish"}
                 /\ job'[j].status # "pending"
                 /\ job'[j].status = "running" =>
                       call'[c] # Idle /\ call'[c].at = "announce"
        <5>1. call[c].op \in WriteOp /\ call[c].at \in AfterCheck
          BY <2>1, <4>4
             DEF CallsInStep, PlanSteps, WriteSteps, DeleteSteps, AfterCheck
        <5>2. plans[j] # NoPlan
          BY <2>1, <2>3, <4>1, <5>1 DEF PlanIsChecked, Matches
        <5>3. plans'[j] # NoPlan
          BY <1>3, <2>3, <4>4, <5>2 DEF Effect, KeepsRecords
        <5>4. job'[j].status = "running" => Writer(j)'
          BY <2>1, <2>3, <4>4, <5>1 DEF Writing, Serving, WriteOp, Running,
                AfterCheck, WriteSteps
        <5> QED
          BY <4>4, <5>3, <5>4
      <4>5. call[c].at = "finish" =>
               Names(call[c].op).status \in {"succeeded", "rolled_back"}
        BY DEF Names
      <4> QED
        BY <1>3, <2>3, <3>7, <4>2, <4>3, <4>4, <4>5 DEF Effect, Changes
    <3> QED
      BY <3>5, <3>6, <3>7
  <2> QED
    BY <2>2, <2>3
<1>4. ASSUME NEW c \in Client, Arrival(c),
             NEW j \in Job \ faulty', job'[j] \in JobRow
      PROVE  Kept(j)'
  <2>1. /\ UNCHANGED <<job, plans, faulty>>
        /\ call[c] = Idle /\ \A d \in Client \ {c} : call'[d] = call[d]
    BY <1>4 DEF Arrival, Stays
  <2>2. Kept(j)
    BY <1>1, <1>4, <2>1 DEF Exists
  <2> QED
    BY <2>1, <2>2 DEF Writing, Serving
<1>5. ASSUME NEW c \in Client, Death(c),
             NEW j \in Job \ faulty', job'[j] \in JobRow
      PROVE  Kept(j)'
  <2>1. /\ UNCHANGED <<job, plans>> /\ j \notin faulty /\ j # call[c].job
        /\ \A d \in Client \ {c} : call'[d] = call[d]
    BY <1>5 DEF Death, Ended, Stays
  <2>2. Kept(j)
    BY <1>1, <1>5, <2>1 DEF Exists
  <2> QED
    BY <2>1, <2>2 DEF Writing, Serving
<1>6. ASSUME Quiet, NEW j \in Job \ faulty', job'[j] \in JobRow
      PROVE  Kept(j)'
  <2>1. UNCHANGED <<job, plans, faulty, call>>
    BY <1>6 DEF Quiet
  <2>2. Kept(j)
    BY <1>1, <1>6, <2>1 DEF Exists
  <2> QED
    BY <2>1, <2>2 DEF Writing, Serving
<1> HIDE DEF Kept
<1>7. ASSUME NEW c \in Client, Effect(c) \/ Arrival(c) \/ Death(c)
      PROVE  Attended'
  BY <1>2, <1>3, <1>4, <1>5, <1>7
<1>8. CASE Quiet
  BY <1>2, <1>6, <1>8
<1> QED
  BY <1>7, <1>8, StepEffect

-----------------------------------------------------------------------------
(* The order of the jobs lists each job that exists, and lists it once.     *)
Once(list) == \A i, k \in DOMAIN list : list[i] = list[k] => i = k

IsListed(j, list) == \E i \in DOMAIN list : list[i] = j

Ordered ==
    /\ order \in Seq(Job)
    /\ Once(order)
    /\ \A j \in Job : Exists(j) <=> IsListed(j, order)

(* A job is put in front when it is created or updated, and removed when it *)
(* is deleted.                                                              *)
Moves(j) ==
    /\ \A i \in Job \ {j} : job'[i] = job[i]
    /\ \/ job[j] = NoJob /\ job'[j] \in JobRow /\ order' = <<j>> \o order
       \/ Exists(j) /\ job'[j] \in JobRow /\ order' = <<j>> \o Without(j)
       \/ Exists(j) /\ job'[j] = Deleted /\ order' = Without(j)

LEMMA WithoutIs ==
    ASSUME Ordered, NEW j \in Job, Exists(j)
    PROVE  /\ Without(j) \in Seq(Job)
           /\ Once(Without(j))
           /\ \A i \in Job : IsListed(i, Without(j)) <=> IsListed(i, order) /\ i # j
<1> DEFINE k == CHOOSE i \in DOMAIN order : order[i] = j
           A == SubSeq(order, 1, k - 1)
           B == SubSeq(order, k + 1, Len(order))
<1>1. order \in Seq(Job) /\ Len(order) \in Nat /\ DOMAIN order = 1..Len(order)
  BY DEF Ordered
<1>2. k \in 1..Len(order) /\ order[k] = j
  BY <1>1 DEF Ordered, IsListed
<1>3. Without(j) = A \o B
  BY DEF Without
<1> HIDE DEF k
<1>4. /\ A \in Seq(Job) /\ Len(A) = k - 1
      /\ \A i \in 1..k - 1 : A[i] = order[i]
  BY <1>1, <1>2
<1>5. /\ B \in Seq(Job) /\ Len(B) = Len(order) - k
      /\ \A i \in 1..Len(order) - k : B[i] = order[k + i]
  <2>1. k \in 1..Len(order)
    BY <1>2
  <2>2. order \in Seq(Job) /\ Len(order) \in Nat
    BY <1>1
  <2> QED
    BY <2>1, <2>2
<1> HIDE DEF A, B
<1>6. /\ A \o B \in Seq(Job) /\ Len(A \o B) = Len(A) + Len(B)
      /\ \A i \in 1..Len(A) + Len(B) :
            (A \o B)[i] = IF i <= Len(A) THEN A[i] ELSE B[i - Len(A)]
  BY <1>4, <1>5, ConcatProperties
<1>7. DOMAIN (A \o B) = 1..Len(order) - 1
  <2>1. Len(A \o B) = Len(order) - 1
    BY <1>1, <1>2, <1>4, <1>5, <1>6
  <2>2. DOMAIN (A \o B) = 1..Len(A \o B)
    BY <1>6
  <2> QED
    BY <2>1, <2>2
<1>8. ASSUME NEW i \in 1..Len(order) - 1
      PROVE  (A \o B)[i] = order[IF i < k THEN i ELSE i + 1]
  <2>1. i \in 1..Len(A) + Len(B) /\ (i <= Len(A) <=> i < k)
    BY <1>1, <1>2, <1>4, <1>5
  <2>2. CASE i < k
    BY <1>2, <1>4, <1>6, <2>1, <2>2
  <2>3. CASE ~(i < k)
    <3>1. i - Len(A) \in 1..Len(order) - k /\ k + (i - Len(A)) = i + 1
      BY <1>1, <1>2, <1>4, <2>3
    <3> QED
      BY <1>5, <1>6, <2>1, <2>3, <3>1
  <2> QED
    BY <2>2, <2>3
<1>9. Once(A \o B)
  <2> SUFFICES ASSUME NEW i \in 1..Len(order) - 1, NEW n \in 1..Len(order) - 1,
                      (A \o B)[i] = (A \o B)[n]
               PROVE  i = n
    BY <1>7 DEF Once
  <2> DEFINE p == IF i < k THEN i ELSE i + 1
             q == IF n < k THEN n ELSE n + 1
  <2>1. order[p] = order[q]
    BY <1>8
  <2>2. p \in 1..Len(order) /\ q \in 1..Len(order)
    BY <1>1, <1>2
  <2>3. p = q
    BY <1>1, <2>1, <2>2 DEF Ordered, Once
  <2> QED
    BY <1>1, <1>2, <2>3
<1>10. ASSUME NEW i \in Job
       PROVE  IsListed(i, A \o B) <=> IsListed(i, order) /\ i # j
  <2>1. ASSUME IsListed(i, A \o B) PROVE IsListed(i, order) /\ i # j
    <3>1. PICK n \in 1..Len(order) - 1 : order[IF n < k THEN n ELSE n + 1] = i
      BY <1>7, <1>8, <2>1 DEF IsListed
    <3> DEFINE m == IF n < k THEN n ELSE n + 1
    <3>2. m \in 1..Len(order) /\ m # k /\ order[m] = i
      BY <1>1, <1>2, <3>1
    <3> HIDE DEF m
    <3> QED
      BY <1>1, <1>2, <3>2 DEF IsListed, Once, Ordered
  <2>2. ASSUME IsListed(i, order), i # j PROVE IsListed(i, A \o B)
    <3>1. PICK m \in 1..Len(order) : order[m] = i
      BY <1>1, <2>2 DEF IsListed
    <3> DEFINE n == IF m < k THEN m ELSE m - 1
    <3>2. m # k
      BY <1>2, <2>2, <3>1
    <3>3. n \in 1..Len(order) - 1 /\ (IF n < k THEN n ELSE n + 1) = m
      BY <1>1, <1>2, <3>2
    <3> HIDE DEF n
    <3> QED
      BY <1>7, <1>8, <3>1, <3>3 DEF IsListed
  <2> QED
    BY <2>1, <2>2
<1> QED
  BY <1>3, <1>6, <1>9, <1>10

LEMMA PutInFront ==
    ASSUME NEW list \in Seq(Job), NEW j \in Job, Once(list), ~IsListed(j, list)
    PROVE  /\ <<j>> \o list \in Seq(Job)
           /\ Once(<<j>> \o list)
           /\ \A i \in Job : IsListed(i, <<j>> \o list) <=> IsListed(i, list) \/ i = j
<1> DEFINE new == <<j>> \o list
<1>1. Len(list) \in Nat /\ DOMAIN list = 1..Len(list)
  OBVIOUS
<1>2. /\ new \in Seq(Job) /\ DOMAIN new = 1..Len(list) + 1
      /\ new[1] = j
      /\ \A i \in 1..Len(list) : new[i + 1] = list[i]
  OBVIOUS
<1>3. \A i \in 1..Len(list) + 1 : i # 1 => i - 1 \in 1..Len(list) /\ new[i] = list[i - 1]
  <2>1. ASSUME NEW i \in 1..Len(list) + 1, i # 1
        PROVE  i - 1 \in 1..Len(list) /\ (i - 1) + 1 = i
    BY <1>1, <2>1
  <2> HIDE DEF new
  <2> QED
    BY <1>2, <2>1
<1> HIDE DEF new
<1>4. Once(new)
  <2> SUFFICES ASSUME NEW i \in 1..Len(list) + 1, NEW n \in 1..Len(list) + 1,
                      new[i] = new[n]
               PROVE  i = n
    BY <1>2 DEF Once
  <2>1. \A m \in 1..Len(list) + 1 : m # 1 => new[m] # j
    BY <1>1, <1>3 DEF IsListed
  <2>2. CASE i # 1 /\ n # 1
    <3>1. i - 1 = n - 1
      BY <1>1, <1>3, <2>2 DEF Once
    <3> QED
      BY <1>1, <3>1
  <2> QED
    BY <1>2, <2>1, <2>2
<1>5. \A i \in Job : IsListed(i, new) <=> IsListed(i, list) \/ i = j
  <2>1. ASSUME NEW i \in Job, IsListed(i, list)
        PROVE  IsListed(i, new)
    <3>1. PICK n \in 1..Len(list) : list[n] = i
      BY <1>1, <2>1 DEF IsListed
    <3>2. n + 1 \in 1..Len(list) + 1 /\ new[n + 1] = i
      BY <1>1, <1>2, <3>1
    <3> QED
      BY <1>2, <3>2 DEF IsListed
  <2>2. IsListed(j, new)
    <3>1. 1 \in 1..Len(list) + 1
      BY <1>1
    <3> QED
      BY <1>2, <3>1 DEF IsListed
  <2>3. ASSUME NEW i \in Job, IsListed(i, new), i # j
        PROVE  IsListed(i, list)
    BY <1>1, <1>2, <1>3, <2>3 DEF IsListed
  <2> QED
    BY <2>1, <2>2, <2>3
<1> QED
  BY <1>2, <1>4, <1>5 DEF new

LEMMA MovesKeepOrder ==
    ASSUME Typed, Ordered, NEW j \in Job, Moves(j)
    PROVE  Ordered'
<1> USE ConstantsAssumption
<1>1. \A i \in Job \ {j} : Exists(i)' <=> Exists(i)
  BY DEF Moves, Exists
<1>2. CASE job[j] = NoJob /\ job'[j] \in JobRow /\ order' = <<j>> \o order
  <2>1. ~IsListed(j, order) /\ Exists(j)'
    BY <1>2 DEF Ordered, Exists
  <2> QED
    BY <1>1, <1>2, <2>1, PutInFront DEF Ordered
<1>3. CASE Exists(j) /\ job'[j] \in JobRow /\ order' = <<j>> \o Without(j)
  <2>1. /\ Without(j) \in Seq(Job) /\ Once(Without(j))
        /\ \A i \in Job : IsListed(i, Without(j)) <=> IsListed(i, order) /\ i # j
    BY <1>3, WithoutIs
  <2>2. Exists(j)'
    BY <1>3 DEF Exists
  <2> QED
    BY <1>1, <1>3, <2>1, <2>2, PutInFront DEF Ordered
<1>4. CASE Exists(j) /\ job'[j] = Deleted /\ order' = Without(j)
  <2>1. ~Exists(j)'
    BY <1>4 DEF Exists
  <2> QED
    BY <1>1, <1>4, <2>1, WithoutIs DEF Ordered
<1> QED
  BY <1>2, <1>3, <1>4 DEF Moves

(* Which steps change the order.                                            *)
LEMMA CreateMoves ==
    ASSUME Typed, NEW j \in Job, NEW s \in Server, NEW t \in Server,
           CreateJob(j, s, t)
    PROVE  Moves(j)
BY DEF CreateJob, Moves, Typed, JobRow, Status, Checkpoint

LEMMA UpdateMoves ==
    ASSUME Typed, NEW j \in Job, NEW st \in Status, NEW cp \in Checkpoint,
           UpdateJob(j, st, cp)
    PROVE  Moves(j)
BY UpdateFields DEF UpdateJob, Moves, JobIs, Typed

LEMMA DeleteMoves ==
    ASSUME Typed, NEW j \in Job, DeleteJob(j)
    PROVE  Moves(j)
BY DEF DeleteJob, Moves, Typed

LEMMA OrderedStep ==
    ASSUME Typed, CallsInStep, Ordered, [Next]_vars
    PROVE  Ordered'
<1> DEFINE Still == job' = job /\ order' = order
           Goal == Still \/ \E j \in Job : Moves(j)
<1>1. ASSUME Still PROVE Ordered'
  BY <1>1 DEF Ordered, Exists
<1>2. ASSUME NEW c \in Client, Fails(c) PROVE Still
  BY <1>2 DEF Fails, store
<1>3. ASSUME NEW c \in Client, Create(c) PROVE Goal
  <2>1. call[c] # Idle /\ call[c].at = "create"
    BY <1>3 DEF Create, At
  <2>2. call[c].plan \in PlanOf
    BY <2>1 DEF CallsInStep, WriteSteps, DeleteSteps
  <2>3. call[c].plan.id \in Job /\ call[c].plan.src \in Server
        /\ call[c].plan.dst \in Server
    BY <2>2 DEF PlanOf
  <2> QED
    BY <1>2, <1>3, <2>3, CreateMoves DEF Create, Checked, Succeeds
<1>4. ASSUME NEW c \in Client, Delete(c) PROVE Goal
  <2>1. call[c] # Idle /\ call[c].job \in Job
    BY <1>4, CallFields DEF Delete, At
  <2> QED
    BY <1>2, <1>4, <2>1, DeleteMoves DEF Delete, Last, MayFail, Succeeds
<1>5. ASSUME NEW c \in Client,
             Ready(c) \/ FailPlan(c) \/ Start(c) \/ FailJob(c) \/ Finish(c)
      PROVE  Goal
  <2>1. call[c] # Idle /\ call[c].job \in Job
    BY <1>5, CallFields DEF Ready, FailPlan, Start, FailJob, Finish, At
  <2>2. /\ {"paused", "failed", "running"} \subseteq Status
        /\ {"dry-run-ready", "plan"} \subseteq Checkpoint
        /\ Names(call[c].op).during \in Checkpoint
        /\ Names(call[c].op).after \in Checkpoint
        /\ Names(call[c].op).status \in Status
    BY DEF Status, Checkpoint, Names
  <2>3. \/ Fails(c)
        \/ \E st \in Status, cp \in Checkpoint : UpdateJob(call[c].job, st, cp)
    BY <1>5, <2>2 DEF Ready, FailPlan, Start, FailJob, Finish, Checked,
       BestEffort, Last, MayFail, Succeeds
  <2> QED
    BY <1>2, <2>1, <2>3, UpdateMoves
<1>6. ASSUME NEW c \in Client,
             \/ LogCreated(c) \/ StorePlan(c) \/ LogPlanFailed(c) \/ Announce(c)
             \/ LogFailed(c) \/ Report(c) \/ Log(c)
      PROVE  Goal
  BY <1>2, <1>6 DEF LogCreated, StorePlan, LogPlanFailed, Announce, LogFailed,
     Report, Log, Checked, Last, MayFail, Succeeds, AppendEvent,
     AppendPlanEvent, SaveReport
<1>7. ASSUME NEW c \in Client,
             \/ Health(c) \/ Build(c) \/ GetJob(c) \/ CheckPlan(c)
             \/ WriteCommits(c) \/ WriteFails(c) \/ CheckProtected(c) \/ Die(c)
      PROVE  Goal
  BY <1>2, <1>7 DEF Health, Build, GetJob, CheckPlan, WriteCommits, WriteFails,
     CheckProtected, Die, BestEffort, MayFail, Succeeds, AppendEvent,
     ReadAndRequire, store
<1>8. ASSUME NEW c \in Client, NEW op, NEW j, NEW p, NEW at, Begin(c, op, j, p, at)
      PROVE  Goal
  BY <1>8 DEF Begin, store
<1>9. ASSUME NEW c \in Client, Plans(c) \/ Writes(c) \/ Deletes(c) \/ Die(c)
      PROVE  Goal
  <2> HIDE DEF Goal
  <2> QED
    BY <1>3, <1>4, <1>5, <1>6, <1>7, <1>8, <1>9
       DEF Plans, Writes, Deletes, ReceivePlan, ReceiveWrite, ReceiveDelete
<1>10. Goal
  BY <1>9 DEF Next, DokployMoves, vars, store
<1> QED
  BY <1>1, <1>10, MovesKeepOrder

-----------------------------------------------------------------------------
(* The inductive invariant.                                                 *)
IInv ==
    /\ Typed /\ CallsInStep /\ Fresh /\ PlannedOnce /\ PlanIsChecked
    /\ Announced /\ CommitIsRecorded /\ Alone /\ Attended
    /\ NothingOrphaned /\ OutcomeIsDocumented /\ StatusNamesLastWrite
    /\ Ordered

(* The invariant holds initially and every step preserves it.               *)
LEMMA Inductive ==
    /\ Init => IInv
    /\ IInv /\ [Next]_vars => IInv'
<1>1. ASSUME Init PROVE IInv
  <2>1. Typed
    BY <1>1 DEF Init, Typed
  <2>2. \A j \in Job : ~Exists(j)
    BY <1>1, ConstantsAssumption DEF Init, Exists
  <2>3. \A c \in Client : call[c] = Idle
    BY <1>1 DEF Init
  <2>4. CallsInStep /\ PlannedOnce /\ PlanIsChecked /\ Announced
        /\ CommitIsRecorded
    BY <2>3 DEF CallsInStep, PlannedOnce, PlanIsChecked, Announced,
                CommitIsRecorded, At
  <2>5. Alone
    BY <2>3 DEF Alone, Writing, Serving
  <2>6. Attended /\ StatusNamesLastWrite
    BY <2>2 DEF Attended, StatusNamesLastWrite
  <2>7. Fresh /\ NothingOrphaned /\ OutcomeIsDocumented
    BY <1>1, <2>2 DEF Init, Fresh, NothingOrphaned, OutcomeIsDocumented
  <2>8. Ordered
    BY <1>1, <2>2 DEF Init, Ordered, Once, IsListed
  <2> QED
    BY <2>1, <2>4, <2>5, <2>6, <2>7, <2>8 DEF IInv
<1>2. ASSUME IInv, [Next]_vars PROVE IInv'
  BY <1>2, TypedStep, FreshStep, PlannedOnceStep, PlanIsCheckedStep,
     AnnouncedStep, CommitIsRecordedStep, AloneStep, AttendedStep,
     NothingOrphanedStep, OutcomeStep, StatusStep, OrderedStep DEF IInv
<1> QED
  BY <1>1, <1>2

(* The inductive invariant holds in every reachable state.                  *)
THEOREM Invariance == Spec => []IInv
BY Inductive, PTL DEF Spec

(* The records keep their types, and the order in which the store lists the *)
(* jobs has every job that exists exactly once, whatever is created,        *)
(* updated and deleted at the same time.                                    *)
THEOREM TypeCorrect == Spec => []TypeOK
<1>1. IInv => TypeOK
  BY DEF IInv, Typed, Ordered, Once, IsListed, TypeOK
<1> QED
  BY <1>1, Invariance, PTL

-----------------------------------------------------------------------------
(* Nothing of a job outlives it while the foreign keys are on everywhere:   *)
(* the events and reports that store.go 284-296 and 324-334 insert are      *)
(* never those of a deleted job.                                            *)
THEOREM NoOrphans == Spec => []NothingOrphaned
<1>1. IInv => NothingOrphaned
  BY DEF IInv
<1> QED
  BY <1>1, Invariance, PTL

(* The status that an apply or a rollback leaves is backed by the report    *)
(* and the event it saved before, and by a committed write.                 *)
THEOREM OutcomesDocumented == Spec => []OutcomeIsDocumented
<1>1. IInv => OutcomeIsDocumented
  BY DEF IInv
<1> QED
  BY <1>1, Invariance, PTL

(* The status of a job that no two writing calls shared names the write     *)
(* that was committed last, whatever failed.                                *)
THEOREM StatusTruthful == Spec => []StatusNamesLastWrite
<1>1. IInv => StatusNamesLastWrite
  BY DEF IInv
<1> QED
  BY <1>1, Invariance, PTL

(* A call that meets no fault leaves its job settled and, unless the        *)
(* dry-run failed, with its plan.                                           *)
THEOREM Settled == Spec => []SettledWithoutFault
<1>1. ASSUME IInv, NEW j \in Job \ faulty, Exists(j),
             \A c \in Client : ~Serving(c, j)
      PROVE  /\ job[j].status \in {"paused", "failed", "succeeded", "rolled_back"}
             /\ job[j].checkpoint # "plan" => plans[j] # NoPlan
  <2>1. job[j].status \in Status
    BY <1>1 DEF Exists, JobRow
  <2>2. job[j].status \notin {"running", "pending"}
    BY <1>1 DEF IInv, Attended, Writing
  <2>3. plans[j] = NoPlan => job[j].checkpoint = "plan"
    BY <1>1 DEF IInv, Attended
  <2> QED
    BY <2>1, <2>2, <2>3 DEF Status
<1>2. IInv => SettledWithoutFault
  BY <1>1 DEF SettledWithoutFault
<1> QED
  BY <1>2, Invariance, PTL

(* No write is committed for a job that exists without its stored plan and  *)
(* its announcement.                                                        *)
THEOREM Traced == Spec => WritesAreTraced
<1> DEFINE A ==
      \A c \in Client :
         WriteCommits(c) /\ Exists(call[c].job) =>
            LET j == call[c].job
            IN  /\ plans[j] # NoPlan
                /\ call[c].plan.rows \subseteq plans[j].rows
                /\ [call[c].plan EXCEPT !.rows = plans[j].rows] = plans[j]
                /\ Names(call[c].op).announce \in events[j]
<1>1. IInv => A
  <2> SUFFICES ASSUME IInv, NEW c \in Client, WriteCommits(c), Exists(call[c].job)
               PROVE  /\ Matches(call[c].plan, plans[call[c].job])
                      /\ Names(call[c].op).announce \in events[call[c].job]
    BY DEF Matches
  <2>1. call[c] # Idle /\ call[c].at = "write" /\ call[c].op \in WriteOp
    BY DEF WriteCommits, At, IInv, CallsInStep, PlanSteps, DeleteSteps
  <2>2. Matches(call[c].plan, plans[call[c].job])
    BY <2>1 DEF IInv, PlanIsChecked, AfterCheck, WriteSteps
  <2>3. Names(call[c].op).announce \in events[call[c].job]
    BY <2>1 DEF IInv, Announced, At
  <2> QED
    BY <2>2, <2>3
<1>2. IInv /\ [Next]_vars => [A]_vars
  BY <1>1
<1>3. Spec => [][A]_vars
  BY <1>2, Inductive, PTL DEF Spec
<1> QED
  BY <1>3 DEF WritesAreTraced
-----------------------------------------------------------------------------
(* The plans that reach the adapter, and in which order a call takes its    *)
(* steps.                                                                   *)
Follows ==
    {<<"create", "log created">>, <<"log created", "health">>,
     <<"health", "build">>, <<"build", "fail plan">>, <<"ready", "store plan">>,
     <<"fail plan", "log plan failed">>,
     <<"get job", "check plan">>, <<"check plan", "start">>,
     <<"start", "announce">>, <<"announce", "write">>, <<"write", "fail job">>,
     <<"fail job", "log failed">>, <<"report", "log">>, <<"log", "finish">>,
     <<"check protected", "delete">>}

Ordinary(c) ==
    /\ server' = server
    /\ call'[c] # Idle =>
          /\ <<call[c].at, call'[c].at>> \in Follows
          /\ call'[c].plan = call[c].plan
    /\ call'[c] = Idle => call[c].at # "write"
    /\ call[c].at = "store plan" => StorePlan(c)
    /\ call[c].at = "check plan" => CheckPlan(c)

LEMMA Way ==
    ASSUME Typed, NEW c \in Client, NEW from, call[c] # Idle, call[c].at = from,
           NEW to \in Step, <<from, to>> \in Follows,
           Goto(c, to) \/ (Return(c) /\ from # "write"), server' = server,
           from # "store plan", from = "check plan" => CheckPlan(c)
    PROVE  Ordinary(c)
<1>1. CASE Goto(c, to)
  <2>1. Moved(c, to)
    BY <1>1, GotoFields
  <2> QED
    BY <2>1 DEF Moved, Ordinary
<1>2. CASE Return(c) /\ from # "write"
  <2>1. call'[c] = Idle
    BY <1>2, ReturnFields DEF Ended
  <2> QED
    BY <1>2, <2>1 DEF Ordinary
<1> QED
  BY <1>1, <1>2

(* A step that ends its call, too.                                          *)
LEMMA WayOut ==
    ASSUME Typed, NEW c \in Client, Return(c), server' = server,
           call[c].at \notin {"write", "check plan"},
           call[c].at = "store plan" => StorePlan(c)
    PROVE  Ordinary(c)
<1>1. call'[c] = Idle
  BY ReturnFields DEF Ended
<1> QED
  BY <1>1 DEF Ordinary

(* All steps but the dry run and the commit are of this kind.               *)
LEMMA StepsInOrder ==
    ASSUME Typed, NEW c \in Client, Works(c)
    PROVE  WriteCommits(c) \/ Build(c) \/ Ordinary(c)
<1>1. CASE Create(c)
  <2>1. /\ call[c] # Idle /\ call[c].at = "create" /\ server' = server
        /\ Goto(c, "log created") \/ Return(c)
    BY <1>1 DEF Create, Checked, At
  <2> QED
    BY <2>1, Way DEF Follows, Step
<1>2. CASE LogCreated(c)
  <2>1. /\ call[c] # Idle /\ call[c].at = "log created" /\ server' = server
        /\ Goto(c, "health") \/ Return(c)
    BY <1>2 DEF LogCreated, Checked, At
  <2> QED
    BY <2>1, Way DEF Follows, Step
<1>3. CASE Health(c)
  <2>1. /\ call[c] # Idle /\ call[c].at = "health" /\ server' = server
        /\ Goto(c, "build")
    BY <1>3 DEF Health, BestEffort, MayFail, At
  <2> QED
    BY <2>1, Way DEF Follows, Step
<1>4. CASE Ready(c)
  <2>1. /\ call[c] # Idle /\ call[c].at = "ready" /\ server' = server
        /\ Goto(c, "store plan") \/ Return(c)
    BY <1>4 DEF Ready, Checked, At
  <2> QED
    BY <2>1, Way DEF Follows, Step
<1>5. CASE FailPlan(c)
  <2>1. /\ call[c] # Idle /\ call[c].at = "fail plan" /\ server' = server
        /\ Goto(c, "log plan failed")
    BY <1>5 DEF FailPlan, BestEffort, MayFail, At
  <2> QED
    BY <2>1, Way DEF Follows, Step
<1>6. CASE GetJob(c)
  <2>1. /\ call[c] # Idle /\ call[c].at = "get job" /\ server' = server
        /\ Goto(c, "check plan") \/ Return(c)
    BY <1>6 DEF GetJob, ReadAndRequire, At
  <2> QED
    BY <2>1, Way DEF Follows, Step
<1>7. CASE CheckPlan(c)
  <2>1. /\ call[c] # Idle /\ call[c].at = "check plan" /\ server' = server
        /\ Goto(c, "start") \/ Return(c)
    BY <1>7 DEF CheckPlan, ReadAndRequire, At
  <2> QED
    BY <1>7, <2>1, Way DEF Follows, Step
<1>8. CASE Start(c)
  <2>1. /\ call[c] # Idle /\ call[c].at = "start" /\ server' = server
        /\ Goto(c, "announce") \/ Return(c)
    BY <1>8 DEF Start, Checked, At
  <2> QED
    BY <2>1, Way DEF Follows, Step
<1>9. CASE Announce(c)
  <2>1. /\ call[c] # Idle /\ call[c].at = "announce" /\ server' = server
        /\ Goto(c, "write") \/ Return(c)
    BY <1>9 DEF Announce, Checked, At
  <2> QED
    BY <2>1, Way DEF Follows, Step
<1>10. CASE WriteFails(c)
  <2>1. /\ call[c] # Idle /\ call[c].at = "write" /\ server' = server
        /\ Goto(c, "fail job")
    BY <1>10 DEF WriteFails, At
  <2> QED
    BY <2>1, Way DEF Follows, Step
<1>11. CASE FailJob(c)
  <2>1. /\ call[c] # Idle /\ call[c].at = "fail job" /\ server' = server
        /\ Goto(c, "log failed")
    BY <1>11 DEF FailJob, BestEffort, MayFail, At
  <2> QED
    BY <2>1, Way DEF Follows, Step
<1>12. CASE Report(c)
  <2>1. /\ call[c] # Idle /\ call[c].at = "report" /\ server' = server
        /\ Goto(c, "log") \/ Return(c)
    BY <1>12 DEF Report, Checked, At
  <2> QED
    BY <2>1, Way DEF Follows, Step
<1>13. CASE Log(c)
  <2>1. /\ call[c] # Idle /\ call[c].at = "log" /\ server' = server
        /\ Goto(c, "finish") \/ Return(c)
    BY <1>13 DEF Log, Checked, At
  <2> QED
    BY <2>1, Way DEF Follows, Step
<1>14. CASE CheckProtected(c)
  <2>1. /\ call[c] # Idle /\ call[c].at = "check protected" /\ server' = server
        /\ Goto(c, "delete") \/ Return(c)
    BY <1>14 DEF CheckProtected, ReadAndRequire, At
  <2> QED
    BY <2>1, Way DEF Follows, Step
<1>15. CASE StorePlan(c) \/ LogPlanFailed(c) \/ LogFailed(c) \/ Finish(c)
            \/ Delete(c)
  <2>1. /\ Return(c) /\ server' = server
        /\ call[c].at \in {"store plan", "log plan failed", "log failed",
                           "finish", "delete"}
        /\ call[c].at = "store plan" => StorePlan(c)
    BY <1>15 DEF StorePlan, LogPlanFailed, LogFailed, Finish, Delete, Last,
       MayFail, At
  <2> QED
    BY <2>1, WayOut
<1> QED
  BY <1>1, <1>2, <1>3, <1>4, <1>5, <1>6, <1>7, <1>8, <1>9, <1>10, <1>11,
     <1>12, <1>13, <1>14, <1>15 DEF Works

(* A plan that is stored is between two servers, and one that is written    *)
(* has rows, too, as the adapter requires.                                  *)
Proper ==
    /\ \A c \in Client :
          call[c] # Idle /\ call[c].op = "plan"
          /\ call[c].at \in {"ready", "store plan"}
          => call[c].plan.src # call[c].plan.dst
    /\ \A j \in Job : plans[j] # NoPlan => plans[j].src # plans[j].dst
    /\ \A c \in Client :
          call[c] # Idle /\ call[c].op \in WriteOp /\ call[c].at \in AfterCheck
          => call[c].plan.src # call[c].plan.dst /\ call[c].plan.rows # {}

LEMMA ProperStep ==
    ASSUME Typed, CallsInStep, Proper, [Next]_vars
    PROVE  Proper'
<1>1. ASSUME NEW c \in Client, Works(c)
      PROVE  Proper'
  <2> DEFINE j == call[c].job
  <2>1. Effect(c)
    BY <1>1, WorkEffect
  <2>2. /\ call[c] # Idle /\ j \in Job
        /\ \A d \in Client \ {c} : call'[d] = call[d]
        /\ call'[c] # Idle => call'[c].op = call[c].op
        /\ call[c].op = "plan" => call[c].plan \in PlanOf
    BY <2>1, CallFields
       DEF Effect, GoesOn, Stays, CallsInStep, WriteOp
  <2>3. ASSUME NEW i \in Job, plans'[i] # NoPlan
        PROVE  plans'[i].src # plans'[i].dst
    <3>1. CASE plans'[i] = plans[i]
      BY <2>3, <3>1 DEF Proper
    <3>2. CASE plans'[i] # plans[i]
      <4>1. i = j /\ call[c].at = "store plan"
        BY <2>1, <2>3, <3>2 DEF Effect, KeepsOthers, KeepsRecords
      <4>2. StorePlan(c) /\ call[c].op = "plan"
        BY <1>1, <2>2, <4>1, StepsInOrder
           DEF Ordinary, Build, WriteCommits, At, CallsInStep, WriteSteps,
               DeleteSteps
      <4>3. plans'[j] = call[c].plan
        <5>1. AppendPlanEvent(j, call[c].plan) \/ UNCHANGED plans
          BY <4>2 DEF StorePlan, Last, MayFail, Succeeds, Fails, store
        <5> QED
          BY <2>2, <3>2, <4>1, <4>2, <5>1, PlanFields
      <4> QED
        BY <2>2, <4>1, <4>2, <4>3 DEF Proper
    <3> QED
      BY <3>1, <3>2
  <2>4. ASSUME call'[c] # Idle, call[c].op = "plan",
               call'[c].at \in {"ready", "store plan"}
        PROVE  call'[c].plan.src # call'[c].plan.dst
    <3>1. CASE Build(c)
      <4> DEFINE rows == {r \in Res : server[r] = call[c].plan.src}
      <4>1. /\ call[c].plan.src # call[c].plan.dst
            /\ call' = [call EXCEPT ![c].at = "ready", ![c].plan.rows = rows]
        <5>1. ~Goto(c, "fail plan")
          BY <2>2, <2>4, GotoFields DEF Moved, Step
        <5> QED
          BY <3>1, <5>1 DEF Build
      <4>2. rows \in SUBSET Res
        OBVIOUS
      <4> HIDE DEF rows
      <4> QED
        BY <2>2, <2>4, <4>1, <4>2, BuildFields
    <3>2. CASE Ordinary(c)
      BY <2>2, <2>4, <3>2 DEF Ordinary, Follows, Proper
    <3>3. CASE WriteCommits(c)
      BY <2>2, <2>4, <3>3 DEF WriteCommits, At, CallsInStep, PlanSteps, WriteOp
    <3> QED
      BY <1>1, <3>1, <3>2, <3>3, StepsInOrder
  <2>5. ASSUME call'[c] # Idle, call[c].op \in WriteOp, call'[c].at \in AfterCheck
        PROVE  call'[c].plan.src # call'[c].plan.dst /\ call'[c].plan.rows # {}
    <3>1. call'[c].plan = call[c].plan
      BY <2>1, <2>5 DEF Effect, GoesOn, WriteOp
    <3>2. CASE call[c].at \in AfterCheck
      BY <2>2, <2>5, <3>1, <3>2 DEF Proper
    <3>3. CASE call[c].at \notin AfterCheck
      <4>1. CheckPlan(c)
        BY <1>1, <2>2, <2>5, <3>3, StepsInOrder
           DEF Ordinary, Follows, Build, WriteCommits, At, AfterCheck,
               WriteSteps, CallsInStep, WriteOp, PlanSteps
      <4>2. plans[j] # NoPlan /\ IsSubset(plans[j], call[c].plan)
        <5>1. ~Return(c)
          BY <2>5, ReturnFields DEF Ended
        <5> QED
          BY <4>1, <5>1 DEF CheckPlan, ReadAndRequire
      <4> QED
        BY <2>2, <3>1, <4>2 DEF IsSubset, Proper
    <3> QED
      BY <3>2, <3>3
  <2> QED
    BY <2>2, <2>3, <2>4, <2>5 DEF Proper
<1>2. ASSUME NEW c \in Client, Arrival(c) \/ Death(c)
      PROVE  Proper'
  BY <1>2 DEF Arrival, Death, Ended, Stays, Proper, AfterCheck, WriteOp
<1>3. CASE Quiet
  BY <1>3 DEF Quiet, Proper
<1> QED
  <2>1. ASSUME NEW r \in Res, NEW s \in Server, DokployMoves(r, s) PROVE Quiet
    BY <2>1 DEF DokployMoves, Quiet, Typed, store, history
  <2>2. UNCHANGED vars => Quiet
    BY DEF vars, store, history, Quiet, Typed
  <2> QED
    BY <1>1, <1>2, <1>3, <2>1, <2>2, StepKinds

-----------------------------------------------------------------------------
(* The write of the manager is the write that Retarget promises.  Dokploy   *)
(* stores a server as Retarget has it.                                      *)
CONSTANTS
    Local,          \* the server whose ID Dokploy does not store
    Null,           \* SQL NULL
    Gone            \* what a row has that does not exist

Columns == [r \in Res |-> IF server[r] = Local THEN Null ELSE server[r]]

(* A plan as the adapter gets it: its rows in some order, each once and     *)
(* with the servers of the plan, under one fingerprint, which the manager   *)
(* only hands on.                                                           *)
Listing(S) ==
    CHOOSE q \in Seq(S) :
       /\ \A r \in S : \E i \in 1..Len(q) : q[i] = r
       /\ \A i, j \in 1..Len(q) : q[i] = q[j] => i = j

AsSent(p) ==
    [src |-> p.src, dst |-> p.dst, hash |-> "current",
     rows |-> [i \in 1..Len(Listing(p.rows)) |->
                 [res |-> Listing(p.rows)[i], old |-> p.src, new |-> p.dst]]]

AsAsked(c) ==
    [op |-> call[c].op, plan |-> AsSent(call[c].plan), approval |-> "current"]

Data == INSTANCE PlanRows WITH
    Hash <- {"current"}, Allowed <- {}, Listed <- Res, NoApproval <- "none",
    Requests <- {}

(* The calls that have asked for their write, and what they have heard.     *)
AfterFailure == {"fail job", "log failed"}

Asking(c) ==
    /\ call[c] # Idle /\ call[c].op \in WriteOp
    /\ call[c].at \in {"write"} \cup AfterCommit \cup AfterFailure

Sent ==
    [c \in Client |-> IF Asking(c) THEN Data!Delivered(AsAsked(c)) ELSE NoPlan]

Heard ==
    [c \in Client |->
        IF ~Asking(c) THEN "idle"
        ELSE IF call[c].at = "write" THEN "pending"
        ELSE IF call[c].at \in AfterCommit THEN "ok" ELSE "err"]

Promise == INSTANCE Retarget WITH
    server <- Columns, plan <- Sent, answer <- Heard, Writer <- Client,
    Hash <- {"current"}, Allowed <- {}, Listed <- Res, NoApproval <- "none",
    Requests <- Data!Request

(* A process that dies with its request: a refusal that nobody hears.       *)
DiesAsking(c) ==
    /\ Heard[c] = "pending"
    /\ Heard' = [Heard EXCEPT ![c] = "idle"]
    /\ Sent' = [Sent EXCEPT ![c] = NoPlan]
    /\ UNCHANGED Columns

PromiseNext == Promise!Next \/ \E c \in Client : DiesAsking(c)

-----------------------------------------------------------------------------
(* Finite sets have a listing.                                              *)
LEMMA ListingIs ==
    ASSUME NEW S, IsFiniteSet(S)
    PROVE  /\ Listing(S) \in Seq(S)
           /\ \A r \in S : \E i \in 1..Len(Listing(S)) : Listing(S)[i] = r
           /\ \A i, j \in 1..Len(Listing(S)) :
                 Listing(S)[i] = Listing(S)[j] => i = j
<1>1. PICK n \in Nat : ExistsBijection(1..n, S)
  BY FS_NatBijection
<1>2. PICK q \in [1..n -> S] :
         /\ \A r \in S : \E i \in 1..n : q[i] = r
         /\ \A i, j \in 1..n : q[i] = q[j] => i = j
  BY <1>1 DEF ExistsBijection, Bijection, Injection, Surjection, IsInjective
<1>3. q \in Seq(S) /\ Len(q) = n
  BY <1>2
<1>4. \E l \in Seq(S) :
         /\ \A r \in S : \E i \in 1..Len(l) : l[i] = r
         /\ \A i, j \in 1..Len(l) : l[i] = l[j] => i = j
  BY <1>2, <1>3
<1> QED
  BY <1>4, Zenon DEF Listing

(* The plan that the adapter gets for a write of the manager.               *)
LEMMA SentIs ==
    ASSUME NEW op \in WriteOp, NEW p \in PlanOf, IsFiniteSet(Res)
    PROVE  LET q == [op |-> op, plan |-> AsSent(p), approval |-> "current"]
               d == Data!Delivered(q)
               n == Len(d.rows)
           IN  /\ q \in Data!Request
               /\ d.src = (IF op = "apply" THEN p.src ELSE p.dst)
               /\ d.dst = (IF op = "apply" THEN p.dst ELSE p.src)
               /\ n \in Nat
               /\ \A i \in 1..n :
                     /\ d.rows[i].old = d.src /\ d.rows[i].new = d.dst
                     /\ d.rows[i].res \in p.rows
               /\ \A r \in p.rows : \E i \in 1..n : d.rows[i].res = r
               /\ p.rows # {} => d.rows # <<>>
<1> DEFINE list == Listing(p.rows)
           n == Len(list)
           rows == [i \in 1..n |-> [res |-> list[i], old |-> p.src, new |-> p.dst]]
           sent == AsSent(p)
           q == [op |-> op, plan |-> sent, approval |-> "current"]
           d == Data!Delivered(q)
<1>1. /\ p.src \in Server /\ p.dst \in Server /\ p.rows \in SUBSET Res
  BY DEF PlanOf
<1>2. IsFiniteSet(p.rows)
  BY <1>1, FS_Subset
<1>3. /\ list \in Seq(p.rows) /\ n \in Nat
      /\ \A i \in 1..n : list[i] \in p.rows
      /\ \A r \in p.rows : \E i \in 1..n : list[i] = r
  BY <1>2, ListingIs
<1>4. sent = [src |-> p.src, dst |-> p.dst, hash |-> "current", rows |-> rows]
  BY DEF AsSent
<1>5. sent = AsSent(p)
  OBVIOUS
<1> HIDE DEF list, sent
<1>6. /\ rows \in Seq(Data!PlanRow) /\ Len(rows) = n
      /\ \A i \in 1..n : /\ rows[i].res = list[i] /\ rows[i].old = p.src
                         /\ rows[i].new = p.dst
  BY <1>1, <1>3 DEF Data!PlanRow
<1>7. p.rows # {} => n # 0
  BY <1>3
<1> HIDE DEF rows, n
<1>8. /\ sent \in Data!Plan /\ sent.src = p.src /\ sent.dst = p.dst
      /\ sent.rows = rows
  BY <1>1, <1>4, <1>6 DEF Data!Plan
<1>9. q \in Data!Request
  BY <1>8 DEF Data!Request, WriteOp
<1>10. /\ q = [op |-> op, plan |-> AsSent(p), approval |-> "current"]
       /\ d = Data!Delivered([op |-> op, plan |-> AsSent(p), approval |-> "current"])
  BY <1>5
<1>11. CASE op = "apply"
  <2>1. d = sent
    BY <1>11 DEF Data!Delivered
  <2>2. rows = <<>> => n = 0
    BY <1>6
  <2> HIDE DEF d
  <2>3. /\ q \in Data!Request /\ d.src = p.src /\ d.dst = p.dst /\ d.rows = rows
        /\ p.rows # {} => rows # <<>>
    BY <1>7, <1>8, <1>9, <2>1, <2>2
  <2>4. ASSUME NEW i \in 1..n
        PROVE  rows[i].old = p.src /\ rows[i].new = p.dst /\ rows[i].res \in p.rows
    <3>1. list[i] \in p.rows
      BY <1>3
    <3> QED
      BY <1>6, <3>1
  <2>5. ASSUME NEW r \in p.rows
        PROVE  \E i \in 1..n : rows[i].res = r
    <3>1. PICK i \in 1..n : list[i] = r
      BY <1>3
    <3> QED
      BY <1>6, <3>1
  <2> QED
    BY <1>3, <1>6, <1>11, <1>10, <2>3, <2>4, <2>5
<1>12. CASE op = "rollback"
  <2> DEFINE Back(row) == [row EXCEPT !.old = row.new, !.new = row.old]
             back == [i \in 1..n |-> Back(rows[n + 1 - i])]
  <2>1. d = [sent EXCEPT !.src = p.dst, !.dst = p.src, !.rows = back]
    BY <1>6, <1>8, <1>12 DEF Data!Delivered, Data!Reversed
  <2>2. ASSUME NEW i \in 1..n
        PROVE  /\ back[i].res = list[n + 1 - i] /\ n + 1 - i \in 1..n
               /\ back[i].old = p.dst /\ back[i].new = p.src
    <3>1. n + 1 - i \in 1..n
      BY <1>3
    <3>2. rows[n + 1 - i] \in Data!PlanRow
      BY <1>6, <3>1
    <3>3. back[i] = Back(rows[n + 1 - i])
      OBVIOUS
    <3> QED
      BY <1>6, <3>1, <3>2, <3>3 DEF Data!PlanRow
  <2>3. Len(back) = n
    BY <1>3
  <2>4. \A r \in p.rows : \E i \in 1..n : back[i].res = r
    <3> SUFFICES ASSUME NEW r \in p.rows PROVE \E i \in 1..n : back[i].res = r
      OBVIOUS
    <3>1. PICK k \in 1..n : list[k] = r
      BY <1>3
    <3>2. n + 1 - k \in 1..n /\ n + 1 - (n + 1 - k) = k
      BY <1>3
    <3> QED
      BY <2>2, <3>1, <3>2
  <2> HIDE DEF back
  <2>5. d.src = p.dst /\ d.dst = p.src /\ d.rows = back
    BY <1>8, <2>1 DEF Data!Plan
  <2>6. back = <<>> => n = 0
    BY <2>3
  <2>7. \A i \in 1..n : back[i].old = p.dst /\ back[i].new = p.src
                        /\ back[i].res \in p.rows
    BY <1>3, <2>2
  <2> HIDE DEF d
  <2>8. p.rows # {} => back # <<>>
    BY <1>7, <2>6
  <2> QED
    BY <1>3, <1>9, <1>12, <1>10, <2>3, <2>4, <2>5, <2>7, <2>8
<1> QED
  BY <1>11, <1>12 DEF WriteOp

-----------------------------------------------------------------------------
(* Retarget's copies of the operators on plans.                             *)
LEMMA SameData ==
    /\ \A q : Promise!Delivered(q) = Data!Delivered(q)
    /\ \A s : Promise!Marker(s) = (IF s = Local THEN Null ELSE s)
    /\ Promise!Column =
          {IF s = Local THEN Null ELSE s : s \in Server} \cup {Gone}
BY DEF Promise!Delivered, Data!Delivered, Promise!Reversed, Data!Reversed,
       Promise!Marker, Promise!Column

(* What the adapter sees of a call, by itself.                              *)
LEMMA AskerSees ==
    ASSUME NEW c \in Client
    PROVE  /\ ~Asking(c) => Heard[c] = "idle" /\ Sent[c] = NoPlan
           /\ Asking(c) =>
                 /\ Sent[c] = Data!Delivered(AsAsked(c))
                 /\ call[c].at = "write" => Heard[c] = "pending"
                 /\ call[c].at \in AfterCommit => Heard[c] = "ok"
                 /\ call[c].at \in AfterFailure => Heard[c] = "err"
BY DEF Heard, Sent, Asking, AfterCommit, AfterFailure

LEMMA OthersStay ==
    ASSUME NEW c \in Client, Stays(c)
    PROVE  /\ Heard' = [Heard EXCEPT ![c] = Heard'[c]]
           /\ Sent' = [Sent EXCEPT ![c] = Sent'[c]]
<1>1. ASSUME NEW d \in Client \ {c}
      PROVE  Heard'[d] = Heard[d] /\ Sent'[d] = Sent[d]
  <2>1. call'[d] = call[d]
    BY DEF Stays
  <2>2. (Asking(d) <=> Asking(d)') /\ AsAsked(d)' = AsAsked(d)
    BY <2>1 DEF Asking, AsAsked
  <2> QED
    BY <2>1, <2>2 DEF Heard, Sent
<1> QED
  BY <1>1 DEF Heard, Sent

(* A call that keeps its plan has sent the same.                            *)
LEMMA SendsTheSame ==
    ASSUME NEW c \in Client, call'[c] # Idle, call'[c].op = call[c].op,
           call'[c].plan = call[c].plan, Asking(c), Asking(c)'
    PROVE  Sent'[c] = Sent[c]
<1>1. AsAsked(c)' = AsAsked(c)
  BY DEF AsAsked
<1> QED
  BY <1>1 DEF Sent

(* The commit is the write that Retarget promises: the manager has let only *)
(* plans through that the adapter takes.                                    *)
LEMMA CommitKeepsPromise ==
    ASSUME Typed, CallsInStep, Proper, IsFiniteSet(Res),
           NEW c \in Client, WriteCommits(c)
    PROVE  Promise!Write(c)
<1> DEFINE p == call[c].plan
           d == Data!Delivered(AsAsked(c))
           n == Len(d.rows)
<1>1. /\ call[c] # Idle /\ call[c].at = "write" /\ call[c].op \in WriteOp
      /\ p \in PlanOf
  BY DEF WriteCommits, At, CallsInStep, PlanSteps, DeleteSteps
<1>2. Asking(c) /\ p.src # p.dst /\ p.rows # {}
  BY <1>1 DEF Asking, Proper, AfterCheck, WriteSteps
<1>3. Heard[c] = "pending" /\ Sent[c] = d
  BY <1>1, <1>2, AskerSees
<1>4. /\ d.src = Source(c) /\ d.dst = Target(c) /\ n \in Nat
      /\ \A i \in 1..n : /\ d.rows[i].old = d.src /\ d.rows[i].new = d.dst
                         /\ d.rows[i].res \in p.rows
      /\ \A r \in p.rows : \E i \in 1..n : d.rows[i].res = r
      /\ d.rows # <<>> /\ d.src # d.dst
  BY <1>1, <1>2, SentIs DEF AsAsked, Source, Target
<1> HIDE DEF d
<1>5. PICK x \in {"report", "log", "fail job"} : Goto(c, x)
  BY DEF WriteCommits
<1>6. Moved(c, x)
  BY <1>1, <1>5, GotoFields DEF Step
<1>7. Asking(c)' /\ Heard'[c] \in {"ok", "err"} /\ Sent'[c] = Sent[c]
  <2>1. Asking(c)'
    BY <1>1, <1>6 DEF Asking, Moved, AfterCommit, AfterFailure
  <2>2. Sent'[c] = Sent[c]
    BY <1>2, <1>6, <2>1, SendsTheSame DEF Moved
  <2>3. Heard'[c] \in {"ok", "err"}
    BY <1>6, <2>1 DEF Moved, Heard
  <2> QED
    BY <2>1, <2>2, <2>3
<1>8. /\ \E a \in {"ok", "err"} : Heard' = [Heard EXCEPT ![c] = a]
      /\ UNCHANGED Sent
  <2>1. Heard' = [Heard EXCEPT ![c] = Heard'[c]]
        /\ Sent' = [Sent EXCEPT ![c] = Sent'[c]]
    BY <1>6, OthersStay DEF Moved
  <2>2. Sent' = Sent
    BY <1>7, <2>1 DEF Sent
  <2> QED
    BY <1>7, <2>1, <2>2
<1>9. Promise!ValidForWrite(Sent[c])
  BY <1>3, <1>4 DEF Promise!ValidForWrite
<1>10. /\ \A r \in p.rows : server[r] = Source(c)
       /\ server' = [r \in Res |-> IF r \in p.rows THEN Target(c) ELSE server[r]]
  BY DEF WriteCommits
<1>11. p.rows \subseteq Res
  BY <1>1 DEF PlanOf
<1>12. Promise!AllAtSource(Columns, Sent[c])
  <2>1. ASSUME NEW i \in 1..n
        PROVE  Columns[d.rows[i].res] = Promise!From(d.rows[i])
    <3>1. d.rows[i].res \in p.rows /\ d.rows[i].old = Source(c)
      BY <1>4
    <3> QED
      BY <1>10, <1>11, <3>1, SameData DEF Columns, Promise!From
  <2> QED
    BY <1>3, <2>1 DEF Promise!AllAtSource
<1>13. Promise!Touched(Sent[c], Len(Sent[c].rows)) = p.rows
  <2>1. {d.rows[i].res : i \in 1..n} = p.rows
    <3>1. \A r \in {d.rows[i].res : i \in 1..n} : r \in p.rows
      BY <1>4
    <3>2. \A r \in p.rows : r \in {d.rows[i].res : i \in 1..n}
      BY <1>4
    <3> QED
      BY <3>1, <3>2
  <2> QED
    BY <1>3, <2>1 DEF Promise!Touched
<1>14. Columns' = Promise!Moved(Columns, p.rows, Sent[c].dst)
  BY <1>3, <1>4, <1>10, SameData DEF Columns, Promise!Moved
<1> QED
  BY <1>3, <1>8, <1>9, <1>12, <1>13, <1>14 DEF Promise!Write

(* A call before its write, or one that does not write, is not seen.        *)
LEMMA Unseen ==
    ASSUME NEW c \in Client, Stays(c), ~Asking(c), ~Asking(c)', server' = server
    PROVE  UNCHANGED Promise!vars
<1>1. Heard'[c] = Heard[c] /\ Sent'[c] = Sent[c]
  BY DEF Heard, Sent
<1>2. Heard' = [Heard EXCEPT ![c] = Heard'[c]]
      /\ Sent' = [Sent EXCEPT ![c] = Sent'[c]]
  BY OthersStay
<1>3. Heard = [d \in Client |-> Heard[d]]
  BY DEF Heard
<1>4. Sent = [d \in Client |-> Sent[d]]
  BY DEF Sent
<1>5. Heard' = [Heard EXCEPT ![c] = Heard[c]] /\ Sent' = [Sent EXCEPT ![c] = Sent[c]]
  BY <1>1, <1>2
<1>6. Heard' = Heard
  BY <1>3, <1>5
<1>7. Sent' = Sent
  BY <1>4, <1>5
<1> QED
  BY <1>6, <1>7 DEF Promise!vars, Columns

(* A call that returns has answered, or its process has died.               *)
LEMMA ReturnKeepsPromise ==
    ASSUME NEW c \in Client, Stays(c), call'[c] = Idle, server' = server,
           Asking(c)
    PROVE  /\ call[c].at # "write" => Promise!Leave(c)
           /\ call[c].at = "write" => DiesAsking(c)
<1>1. ~Asking(c)'
  BY DEF Asking
<1>2. Heard'[c] = "idle" /\ Sent'[c] = NoPlan
  BY <1>1 DEF Heard, Sent
<1>3. /\ Heard' = [Heard EXCEPT ![c] = "idle"]
      /\ Sent' = [Sent EXCEPT ![c] = NoPlan]
      /\ UNCHANGED Columns
  BY <1>2, OthersStay DEF Columns
<1>4. /\ call[c].at # "write" => Heard[c] \in {"ok", "err"}
      /\ call[c].at = "write" => Heard[c] = "pending"
  BY AskerSees DEF Asking
<1> QED
  BY <1>3, <1>4 DEF Promise!Leave, DiesAsking

(* The other steps of a call: it asks, it hears of a failure, or it goes    *)
(* on.                                                                      *)
LEMMA StepKeepsPromise ==
    ASSUME Typed, CallsInStep, IsFiniteSet(Res), NEW c \in Client,
           Ordinary(c), Effect(c)
    PROVE  PromiseNext \/ UNCHANGED Promise!vars
<1>1. /\ call[c] # Idle /\ Stays(c) /\ server' = server
      /\ call'[c] # Idle => call'[c].op = call[c].op
      /\ call'[c] # Idle => call'[c].plan = call[c].plan
  BY DEF Effect, GoesOn, Ordinary
<1>2. CASE ~Asking(c) /\ ~Asking(c)'
  BY <1>1, <1>2, Unseen
<1>3. CASE call'[c] = Idle
  <2>1. CASE Asking(c)
    BY <1>1, <1>3, <2>1, ReturnKeepsPromise DEF PromiseNext, Promise!Next
  <2>2. CASE ~Asking(c)
    BY <1>1, <1>3, <2>2, Unseen DEF Asking
  <2> QED
    BY <2>1, <2>2
<1>4. CASE ~Asking(c) /\ Asking(c)'
  <2>1. call[c].op \in WriteOp /\ call[c].at = "announce"
        /\ call'[c].at = "write" /\ call'[c] # Idle
    BY <1>1, <1>4
       DEF Asking, Ordinary, Follows, AfterCommit, AfterFailure, CallsInStep,
           WriteSteps, PlanSteps, DeleteSteps, WriteOp
  <2>2. call[c].plan \in PlanOf
    BY <1>1, <2>1 DEF CallsInStep, WriteOp
  <2>3. AsAsked(c)' = AsAsked(c)
    BY <1>1, <2>1 DEF AsAsked
  <2>4. AsAsked(c) \in Data!Request
    BY <2>1, <2>2, SentIs DEF AsAsked
  <2>5. Heard[c] = "idle"
    BY <1>4, AskerSees
  <2>6. Heard'[c] = "pending" /\ Sent'[c] = Data!Delivered(AsAsked(c))
    BY <1>4, <2>1, <2>3 DEF Heard, Sent
  <2>7. /\ Heard' = [Heard EXCEPT ![c] = "pending"]
        /\ Sent' = [Sent EXCEPT ![c] = Data!Delivered(AsAsked(c))]
    BY <1>1, <2>6, OthersStay
  <2>8. Promise!Ask(c, AsAsked(c))
    BY <1>1, <2>5, <2>7, SameData DEF Promise!Ask, Columns
  <2> QED
    BY <2>4, <2>8 DEF PromiseNext, Promise!Next
<1>5. CASE Asking(c) /\ call'[c] # Idle
  <2>1. <<call[c].at, call'[c].at>> \in
           {<<"write", "fail job">>, <<"fail job", "log failed">>,
            <<"report", "log">>, <<"log", "finish">>}
    BY <1>5 DEF Asking, Ordinary, Follows, AfterCommit, AfterFailure
  <2>2. Asking(c)'
    BY <1>1, <1>5, <2>1 DEF Asking, AfterCommit, AfterFailure
  <2>3. Sent'[c] = Sent[c]
    BY <1>1, <1>5, <2>2, SendsTheSame
  <2>4. /\ Heard' = [Heard EXCEPT ![c] = Heard'[c]]
        /\ Sent' = Sent /\ Columns' = Columns
    BY <1>1, <2>3, OthersStay DEF Sent, Columns
  <2>5. CASE call[c].at = "write"
    <3>1. Heard[c] = "pending" /\ Heard'[c] = "err"
      BY <1>5, <2>1, <2>2, <2>5 DEF Heard, AfterCommit
    <3> QED
      BY <2>4, <3>1 DEF Promise!Refuse, PromiseNext, Promise!Next
  <2>6. CASE call[c].at # "write"
    <3>1. Heard'[c] = Heard[c]
      BY <1>5, <2>1, <2>2, <2>6 DEF Heard, AfterCommit
    <3> QED
      BY <2>4, <3>1 DEF Promise!vars, Heard
  <2> QED
    BY <2>5, <2>6
<1> QED
  BY <1>2, <1>3, <1>4, <1>5

LEMMA StepPromises ==
    ASSUME Typed, CallsInStep, Proper, IsFiniteSet(Res),
           Gone \notin Server \cup {Null}, [Next]_vars
    PROVE  PromiseNext \/ UNCHANGED Promise!vars
<1>1. ASSUME NEW c \in Client, Works(c)
      PROVE  PromiseNext \/ UNCHANGED Promise!vars
  <2>1. Effect(c)
    BY <1>1, WorkEffect
  <2>2. CASE WriteCommits(c)
    BY <2>2, CommitKeepsPromise DEF PromiseNext, Promise!Next
  <2>3. CASE Build(c)
    <3>1. Stays(c) /\ server' = server
      BY <2>1, <2>3 DEF Effect, GoesOn, Build
    <3>2. call[c].op = "plan" /\ (call'[c] # Idle => call'[c].op = "plan")
      BY <2>1, <2>3
         DEF Effect, GoesOn, Build, At, CallsInStep, WriteSteps, DeleteSteps
    <3>3. ~Asking(c) /\ ~Asking(c)'
      BY <3>2 DEF Asking, WriteOp
    <3> QED
      BY <3>1, <3>3, Unseen
  <2> QED
    BY <1>1, <2>1, <2>2, <2>3, StepsInOrder, StepKeepsPromise
<1>2. ASSUME NEW c \in Client, Arrival(c)
      PROVE  UNCHANGED Promise!vars
  <2>1. Stays(c) /\ server' = server /\ ~Asking(c) /\ ~Asking(c)'
    BY <1>2 DEF Arrival, Asking, WriteOp, AfterCommit, AfterFailure
  <2> QED
    BY <2>1, Unseen
<1>3. ASSUME NEW c \in Client, Death(c)
      PROVE  PromiseNext \/ UNCHANGED Promise!vars
  <2>1. Stays(c) /\ call'[c] = Idle /\ server' = server
    BY <1>3 DEF Death, Ended
  <2>2. CASE Asking(c)
    BY <2>1, <2>2, ReturnKeepsPromise DEF PromiseNext, Promise!Next
  <2>3. CASE ~Asking(c)
    BY <2>1, <2>3, Unseen DEF Asking
  <2> QED
    BY <2>2, <2>3
<1>4. ASSUME NEW r \in Res, NEW s \in Server, DokployMoves(r, s)
      PROVE  PromiseNext
  <2> DEFINE column == IF s = Local THEN Null ELSE s
  <2>1. server' = [server EXCEPT ![r] = s] /\ UNCHANGED call
    BY <1>4 DEF DokployMoves
  <2>2. Columns' = [Columns EXCEPT ![r] = column]
    BY <2>1 DEF Columns, Typed
  <2>3. Columns[r] # Gone /\ column \in Promise!Column
    BY SameData DEF Columns, Typed
  <2>4. UNCHANGED <<Sent, Heard>>
    BY <2>1 DEF Sent, Heard, Asking, AsAsked
  <2>5. Promise!DokployChanges(r, column)
    BY <2>2, <2>3, <2>4 DEF Promise!DokployChanges
  <2> QED
    BY <2>3, <2>5 DEF PromiseNext, Promise!Next
<1>5. CASE UNCHANGED vars
  BY <1>5 DEF vars, Promise!vars, Columns, Sent, Heard, Asking, AsAsked
<1> QED
  BY <1>1, <1>2, <1>3, <1>4, <1>5, StepKinds

LEMMA InitPromises == Init => Promise!Init /\ Proper
<1> SUFFICES ASSUME Init PROVE Promise!Init /\ Proper
  OBVIOUS
<1>1. \A c \in Client : call[c] = Idle /\ ~Asking(c)
  BY DEF Init, Asking
<1>2. Columns \in [Res -> Promise!Column]
  BY SameData DEF Init, Columns
<1>3. Promise!Init
  BY <1>1, <1>2 DEF Promise!Init, Sent, Heard
<1>4. Proper
  BY <1>1 DEF Init, Proper
<1> QED
  BY <1>3, <1>4

(* For any number of jobs, calls, rows and servers, whatever plans are      *)
(* submitted, whatever fails and whichever jobs are deleted under a call:   *)
(* the manager asks the adapter only for plans that the adapter's own       *)
(* checks take, and what it lets happen to Dokploy is what Retarget         *)
(* promises, and RetargetTx implements, row by row.                         *)
THEOREM ManagerKeepsPromise ==
    ASSUME IsFiniteSet(Res), Gone \notin Server \cup {Null}
    PROVE  Spec => Promise!Init /\ [][PromiseNext]_Promise!vars
<1>1. Init => Promise!Init /\ Proper
  BY InitPromises
<1>2. IInv /\ Proper /\ [Next]_vars => Proper' /\ [PromiseNext]_Promise!vars
  BY ProperStep, StepPromises DEF IInv
<1> QED
  BY <1>1, <1>2, Invariance, PTL DEF Spec
=============================================================================
