----------------------------- MODULE Migration -----------------------------
(***************************************************************************)
(* From a dry run to its commit: DryRun and RetargetTx over one Dokploy    *)
(* database.  The plan of the dry run, or a selection of its rows, is      *)
(* applied and rolled back, in calls of their own, at any time later,      *)
(* while Dokploy moves and deletes resources and migrates its schema       *)
(* between any two statements of either.                                   *)
(***************************************************************************)
EXTENDS DryRun

CONSTANT Writer         \* calls of ApplyRetargetPlan

VARIABLES
    call, plan, approval, next, held,   \* as in RetargetTx
    stayed      \* history: rows on the source ever since the dry run began

dryRun == <<phase, asked, hash, tables, found, history>>
writers == <<call, plan, approval, next, held>>
migrationVars == <<world, dryRun, writers, stayed>>

W == INSTANCE RetargetTx WITH phase <- call

(* Types of the dry run and the calls; while the dry run runs, the rows    *)
(* that stayed are those it kept.                                          *)
MigrationTypeOK == TypeOK /\ W!TypeOK /\ (phase \in Running => stayed = kept)

MigrationInit == Init /\ W!Init /\ stayed = {}

-----------------------------------------------------------------------------
(* One dry run is followed at a time: the next is asked for when no call   *)
(* uses the plan of the last.                                              *)
DryRuns ==
    /\ \/ \E s, t \in Server : Receive(s, t)
       \/ ReadSchema \/ ReadTables \/ \E t \in Table : ReadTable(t)
       \/ Finish \/ Fail
       \/ Leave /\ \A w \in Writer : call[w] = "idle"
    /\ UNCHANGED writers

(* The plan that is sent: the rows of the dry run that are selected.       *)
Selection(rows) == [DryRunPlan EXCEPT !.rows = RowsToMove(rows)]

(* Apply and Rollback hand it on when it is such a selection, which        *)
(* PlanCheck shows.  The operator approves the hash that the dry run       *)
(* shows, or leaves it to the allowlist.                                   *)
Submits(w) ==
    /\ phase = "done"
    /\ \E op \in {"apply", "rollback"}, rows \in SUBSET found,
          ok \in {hash, NoApproval} :
          W!Receive(w, [op |-> op, plan |-> Selection(rows), approval |-> ok])

Writes ==
    /\ \E w \in Writer :
          \/ Submits(w)
          \/ W!Proceed(w) \/ W!Fail(w) \/ W!DeadlockVictim(w) \/ W!Leave(w)
    /\ UNCHANGED dryRun

Step ==
    \/ DryRuns
    \/ Writes
    \/ \E r \in Res, c \in Column :
          DokployChanges(r, c) /\ W!DokployChanges(r, c)
    \/ \E h \in Hash : SchemaMigrates(h) /\ W!SchemaMigrates(h)

MigrationNext ==
    /\ Step
    /\ stayed' = IF phase' = "idle" THEN {}
                 ELSE (IF phase = "idle" THEN kept' ELSE stayed)
                      \cap OnServer(server', source')

MigrationSpec == MigrationInit /\ [][MigrationNext]_migrationVars

-----------------------------------------------------------------------------
Commits(w) == W!Commit(w, "ok") \/ W!Commit(w, "err")

(* A commit of the whole plan of a dry run leaves nothing behind: every    *)
(* row of a supported table that was on the source from the beginning of   *)
(* the dry run up to the commit is on the target then, whatever else was   *)
(* moved and however the schema changed in between.                        *)
NothingLeftBehind ==
    [][\A w \in Writer :
          Commits(w) /\ plan[w].rows = DryRunPlan.rows =>
             \A r \in stayed :
                TableOf[r] \in SupportedTables(hash) =>
                   server'[r] = Marker(target)]_migrationVars

(* A commit moves rows between the two servers of the dry run only, and    *)
(* none that the dry run has not listed, so none that was not on the       *)
(* source while it ran.                                                    *)
MovesOnlyReviewed ==
    [][\A w \in Writer :
          Commits(w) =>
             \A r \in Res : server'[r] # server[r] =>
                /\ r \in found \cap seen
                /\ {server[r], server'[r]} =
                     {Marker(source), Marker(target)}]_migrationVars
=============================================================================
