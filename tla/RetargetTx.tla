----------------------------- MODULE RetargetTx -----------------------------
(***************************************************************************)
(* internal/dokploydb's write path: ApplyRetargetPlan, which also runs a   *)
(* rollback over the reversed plan, as a PostgreSQL transaction under READ *)
(* COMMITTED.  Calls run concurrently with each other (two HTTP requests,  *)
(* or the server and the command line), with Dokploy, which moves and      *)
(* deletes resources in transactions of its own, and with a migration of   *)
(* Dokploy's schema.                                                       *)
(*                                                                         *)
(* PostgreSQL is modelled from what the code relies on: an UPDATE sees the *)
(* committed columns and its own transaction's; it locks the row it        *)
(* changes until the transaction ends, waits for the lock of another one   *)
(* and then evaluates its WHERE again; a cycle of waits costs one of its   *)
(* transactions the work.  The row-by-row state is what Retarget hides.    *)
(***************************************************************************)
EXTENDS PlanRows, FiniteSets

CONSTANT Writer      \* concurrent calls of ApplyRetargetPlan

VARIABLES
    server,          \* the committed serverId column of each resource
    schema,          \* the fingerprint of Dokploy's current schema
    phase,           \* where each call is
    plan,            \* the plan it was given, reversed for a rollback
    approval,        \* its schemaHashApproval
    next,            \* the row its loop is at
    held             \* the rows its open transaction has updated and locked

vars == <<server, schema, phase, plan, approval, next, held>>

Phase == {"idle", "check", "begin", "rows", "waiting", "ok", "err"}

Running == {"check", "begin", "rows", "waiting"}

Open == {"rows", "waiting"}

(* Types; a serverId column never holds the synthetic local ID.            *)
TypeOK ==
    /\ server \in [Res -> Column]
    /\ schema \in Hash
    /\ phase \in [Writer -> Phase]
    /\ plan \in [Writer -> Plan \cup {NoPlan}]
    /\ approval \in [Writer -> Hash \cup {NoApproval}]
    /\ next \in [Writer -> Nat]
    /\ held \in [Writer -> SUBSET Res]

Init ==
    /\ server \in [Res -> Column]
    /\ schema \in Hash
    /\ phase = [w \in Writer |-> "idle"]
    /\ plan = [w \in Writer |-> NoPlan]
    /\ approval = [w \in Writer |-> NoApproval]
    /\ next = [w \in Writer |-> 1]
    /\ held = [w \in Writer |-> {}]

-----------------------------------------------------------------------------
(* The row at which the loop of w is, and whether there is one left.       *)
Row(w) == plan[w].rows[next[w]]
RowsLeft(w) == next[w] <= Len(plan[w].rows)

(* A serverId column as the transaction of w sees it.                      *)
Visible(w, r) == IF r \in held[w] THEN Marker(plan[w].dst) ELSE server[r]

LockedByOther(w, r) == \E v \in Writer \ {w} : r \in held[v]

(* The WHERE of the UPDATE at which w is holds for its row.                *)
MatchesById(w) == server[Row(w).res] # Gone

Matches(w) == Visible(w, Row(w).res) = From(Row(w))

(* The UPDATE can be decided: at once, or when the lock it waits for is    *)
(* released.                                                               *)
Decidable(w) ==
    \/ phase[w] = "rows"
    \/ phase[w] = "waiting" /\ ~LockedByOther(w, Row(w).res)

(* w is in a cycle of transactions each of which waits for the next.       *)
WaitsOn(v, u) == phase[v] = "waiting" /\ Row(v).res \in held[u]

Deadlocked(w) ==
    \E C \in SUBSET Writer :
       /\ w \in C
       /\ \A v \in C : \E u \in C : WaitsOn(v, u)
       /\ \A u \in C : \E v \in C : WaitsOn(v, u)

(* The call returns: its transaction, if there is one, is over.            *)
EndKeepingLocks(w, answer) ==
    /\ phase' = [phase EXCEPT ![w] = answer]
    /\ UNCHANGED <<next, held>>

End(w, answer) ==
    /\ phase' = [phase EXCEPT ![w] = answer]
    /\ next' = [next EXCEPT ![w] = 1]
    /\ held' = [held EXCEPT ![w] = {}]

-----------------------------------------------------------------------------
(* The call: validateRetargetPlanForWrite refuses a malformed plan.        *)
Receive(w, q) ==
    /\ phase[w] = "idle"
    /\ plan' = [plan EXCEPT ![w] = Delivered(q)]
    /\ approval' = [approval EXCEPT ![w] = q.approval]
    /\ phase' = [phase EXCEPT ![w] =
                    IF ValidForWrite(Delivered(q)) THEN "check" ELSE "err"]
    /\ UNCHANGED <<server, schema, next, held>>

(* The fingerprint is read outside the transaction and compared.           *)
CheckSchema(w) ==
    /\ phase[w] = "check"
    /\ phase' = [phase EXCEPT ![w] =
                    IF SchemaApproved(schema, plan[w], approval[w])
                    THEN "begin" ELSE "err"]
    /\ UNCHANGED <<server, schema, plan, approval, next, held>>

BeginTx(w) ==
    /\ phase[w] = "begin"
    /\ phase' = [phase EXCEPT ![w] = "rows"]
    /\ UNCHANGED <<server, schema, plan, approval, next, held>>

(* A table or an ID column that the allowlists do not name ends the call.  *)
RefuseRow(w) ==
    /\ phase[w] = "rows" /\ RowsLeft(w)
    /\ Row(w).res \notin Listed
    /\ End(w, "err")
    /\ UNCHANGED <<server, schema, plan, approval>>

(* The UPDATE changes no row: affected # 1 ends the call.                  *)
MissSkipped(w) ==
    /\ phase[w] \in Open /\ RowsLeft(w)
    /\ Row(w).res \in Listed
    /\ Decidable(w) /\ ~Matches(w)
    /\ next' = [next EXCEPT ![w] = @ + 1]
    /\ phase' = [phase EXCEPT ![w] = "rows"]
    /\ UNCHANGED <<server, schema, plan, approval, held>>

Miss(w) ==
    /\ phase[w] \in Open /\ RowsLeft(w)
    /\ Row(w).res \in Listed
    /\ Decidable(w) /\ ~Matches(w)
    /\ End(w, "err")
    /\ UNCHANGED <<server, schema, plan, approval>>

(* The UPDATE changes its row, which stays locked.                         *)
HitAutocommits(w) ==
    /\ phase[w] \in Open /\ RowsLeft(w)
    /\ Row(w).res \in Listed
    /\ Decidable(w) /\ Matches(w)
    /\ ~LockedByOther(w, Row(w).res)
    /\ server' = Moved(server, {Row(w).res}, plan[w].dst)
    /\ phase' = [phase EXCEPT ![w] = "rows"]
    /\ next' = [next EXCEPT ![w] = @ + 1]
    /\ UNCHANGED <<schema, plan, approval, held>>

Hit(w) ==
    /\ phase[w] \in Open /\ RowsLeft(w)
    /\ Row(w).res \in Listed
    /\ Decidable(w) /\ Matches(w)
    /\ ~LockedByOther(w, Row(w).res)
    /\ phase' = [phase EXCEPT ![w] = "rows"]
    /\ next' = [next EXCEPT ![w] = @ + 1]
    /\ held' = [held EXCEPT ![w] = @ \cup {Row(w).res}]
    /\ UNCHANGED <<server, schema, plan, approval>>

(* The UPDATE matches a row that another open transaction has changed.     *)
Block(w) ==
    /\ phase[w] = "rows" /\ RowsLeft(w)
    /\ Row(w).res \in Listed
    /\ Matches(w) /\ LockedByOther(w, Row(w).res)
    /\ phase' = [phase EXCEPT ![w] = "waiting"]
    /\ UNCHANGED <<server, schema, plan, approval, next, held>>

(* The commit, whose confirmation may be lost on the way.                  *)
Commit(w, answer) ==
    /\ phase[w] = "rows" /\ ~RowsLeft(w)
    /\ server' = Moved(server, held[w], plan[w].dst)
    /\ End(w, answer)
    /\ UNCHANGED <<schema, plan, approval>>

(* A cancelled context, a lost connection or a failed statement: the call  *)
(* returns an error and its deferred Rollback, or PostgreSQL, ends the     *)
(* transaction.                                                            *)
Fail(w) ==
    /\ phase[w] \in Running
    /\ End(w, "err")
    /\ UNCHANGED <<server, schema, plan, approval>>

(* PostgreSQL's deadlock detector picks w as the victim.                   *)
DeadlockVictim(w) ==
    /\ Deadlocked(w)
    /\ End(w, "err")
    /\ UNCHANGED <<server, schema, plan, approval>>

(* The answer is handed over and the caller may ask again.                 *)
Leave(w) ==
    /\ phase[w] \in {"ok", "err"}
    /\ phase' = [phase EXCEPT ![w] = "idle"]
    /\ plan' = [plan EXCEPT ![w] = NoPlan]
    /\ approval' = [approval EXCEPT ![w] = NoApproval]
    /\ UNCHANGED <<server, schema, next, held>>

(* Dokploy moves a resource, or deletes it for good, in a transaction of   *)
(* its own, which waits for the locks of the others.                       *)
DokployChanges(r, c) ==
    /\ server[r] # Gone
    /\ \A w \in Writer : r \notin held[w]
    /\ server' = [server EXCEPT ![r] = c]
    /\ UNCHANGED <<schema, phase, plan, approval, next, held>>

(* A Dokploy upgrade migrates its schema.                                  *)
SchemaMigrates(h) ==
    /\ schema' = h
    /\ UNCHANGED <<server, phase, plan, approval, next, held>>

(* What a call does by itself, and what wakes it when it waits.            *)
Proceed(w) ==
    \/ CheckSchema(w) \/ BeginTx(w)
    \/ RefuseRow(w) \/ Miss(w) \/ Hit(w) \/ Block(w)
    \/ Commit(w, "ok") \/ Commit(w, "err")

Next ==
    \/ \E w \in Writer :
          \/ \E q \in Requests : Receive(w, q)
          \/ Proceed(w)
          \/ Fail(w) \/ DeadlockVictim(w) \/ Leave(w)
    \/ \E r \in Res, c \in Column : DokployChanges(r, c)
    \/ \E h \in Hash : SchemaMigrates(h)

Spec == Init /\ [][Next]_vars

(* The call that waits for a row gets on with its UPDATE.                  *)
Wake(w) == phase[w] = "waiting" /\ (Miss(w) \/ Hit(w))

(* A call keeps running; PostgreSQL queues the calls that wait for a row,  *)
(* so that later ones do not overtake one for ever, and resolves           *)
(* deadlocks.  Nobody is forced to call, to fail, or to touch Dokploy.     *)
Fairness ==
    \A w \in Writer :
       WF_vars(Proceed(w)) /\ SF_vars(Wake(w)) /\ WF_vars(DeadlockVictim(w))

FairSpec == Spec /\ Fairness

-----------------------------------------------------------------------------
(* Rows that an open transaction has updated belong to it alone, and their *)
(* committed column still names the server the plan moves them off, so a   *)
(* commit overwrites nothing but what the operator reviewed.               *)
LockedRowsUnchanged ==
    \A w \in Writer :
       /\ \A v \in Writer \ {w} : held[w] \cap held[v] = {}
       /\ \A r \in held[w] : server[r] = Marker(plan[w].src)

(* A call runs on an accepted plan only.  Its open transaction has updated *)
(* exactly the rows before the one it is at, so that at the commit no row  *)
(* of the plan was skipped, and a call that has none open holds no row.    *)
ProgressMatchesLocks ==
    \A w \in Writer :
       /\ phase[w] \in Running =>
             plan[w] # NoPlan /\ ValidForWrite(plan[w])
       /\ phase[w] \in Open =>
             /\ next[w] \in 1..(Len(plan[w].rows) + 1)
             /\ held[w] = Touched(plan[w], next[w] - 1)
       /\ phase[w] \notin Open => next[w] = 1 /\ held[w] = {}

(* Every call, once its plan was accepted, returns, whatever other calls,  *)
(* Dokploy and the order of the rows in the plans do: no call waits for a  *)
(* row for ever.                                                           *)
CallsReturn ==
    \A w \in Writer : phase[w] \in Running ~> phase[w] \in {"ok", "err"}

(* The fingerprint that the plan was reviewed under is still the current   *)
(* one when the plan is committed.                                         *)
SchemaCurrentAtCommit ==
    [][\A w \in Writer :
          (Commit(w, "ok") \/ Commit(w, "err")) => schema = plan[w].hash]_vars

(* Retarget's view of a call.                                              *)
Answer == [w \in Writer |-> IF phase[w] \in Running THEN "pending" ELSE phase[w]]

R == INSTANCE Retarget WITH answer <- Answer

(* The row-by-row transaction implements the one-step write: what others   *)
(* see of a plan is all of it or nothing, from the reviewed state only,    *)
(* and "ok" is answered for nothing less than the whole plan.              *)
ImplementsRetarget == R!Spec
=============================================================================
