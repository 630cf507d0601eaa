------------------------------ MODULE PlanRows ------------------------------
(***************************************************************************)
(* The data of a retarget: servers and how Dokploy stores them, the rows   *)
(* and plans that internal/model declares, and the pure checks that        *)
(* internal/dokploydb runs on a plan before it writes.                     *)
(*                                                                         *)
(* A resource stands for one row of a Dokploy table, named by the table    *)
(* and its ID column.  Names, creation times and the SQL text are left     *)
(* out; blank identifiers are left out too (every row here has its table,  *)
(* its ID and its two servers).                                            *)
(***************************************************************************)
EXTENDS Integers, Sequences

CONSTANTS
    Res,         \* rows of Dokploy tables that carry a serverId column
    Server,      \* server IDs the operator can name
    Local,       \* the synthetic ID __dokploy_local__
    Null,        \* SQL NULL in a serverId column
    Gone,        \* the row does not exist any more
    Hash,        \* schema fingerprints
    Allowed,     \* MIGRATOR_SCHEMA_ALLOWLIST
    Listed,      \* rows whose table and ID column pass the allowlists
    NoApproval,  \* an empty schemaHashApproval
    NoPlan,      \* no request is being served
    Requests     \* the writes the manager may ask of the adapter

(* A row as the plan lists it: the old server guards the UPDATE.           *)
PlanRow == [res : Res, old : Server, new : Server]

Plan == [src : Server, dst : Server, hash : Hash, rows : Seq(PlanRow)]

Request == [op : {"apply", "rollback"}, plan : Plan,
            approval : Hash \cup {NoApproval}]

ASSUME ConstantsAssumption ==
    /\ Local \in Server
    /\ Null \notin Server
    /\ Gone \notin Server \cup {Null}
    /\ NoPlan \notin Plan
    /\ NoApproval \notin Hash
    /\ Allowed \subseteq Hash
    /\ Listed \subseteq Res
    /\ Requests \subseteq Request

-----------------------------------------------------------------------------
(* What the serverId column holds for a server: the local server is NULL.  *)
Marker(s) == IF s = Local THEN Null ELSE s

Column == {Marker(s) : s \in Server} \cup {Gone}

(* The UPDATE of a row: WHERE serverId is From(row), SET serverId To(row). *)
From(row) == Marker(row.old)
To(row)   == Marker(row.new)

(* The rows of a plan with every change turned round, last row first.      *)
Reversed(plan) ==
    LET n == Len(plan.rows)
        Back(row) == [row EXCEPT !.old = row.new, !.new = row.old]
    IN  [plan EXCEPT !.src = plan.dst, !.dst = plan.src,
                     !.rows = [i \in 1..n |-> Back(plan.rows[n + 1 - i])]]

(* The plan that reaches ApplyRetargetPlan for a request.                  *)
Delivered(q) == IF q.op = "rollback" THEN Reversed(q.plan) ELSE q.plan

ValidForWrite(plan) ==
    /\ plan.src # plan.dst
    /\ plan.rows # <<>>
    /\ \A i \in 1..Len(plan.rows) :
          plan.rows[i].old = plan.src /\ plan.rows[i].new = plan.dst

(* validateWriteSchema: the plan's hash is the current one, and the        *)
(* operator approved it, by name or through the allowlist.                 *)
SchemaApprovedAsPlanned(current, plan, approval) ==
    \/ approval = plan.hash
    \/ approval = NoApproval /\ plan.hash \in Allowed

SchemaApproved(current, plan, approval) ==
    /\ plan.hash = current
    /\ \/ approval = current
       \/ approval = NoApproval /\ current \in Allowed

-----------------------------------------------------------------------------
(* The resources that the first k rows of a plan name.                     *)
Touched(plan, k) == {plan.rows[i].res : i \in 1..k}

(* Every row of the plan is still on the server that the plan moves it off.*)
AllAtSource(srv, plan) ==
    \A i \in 1..Len(plan.rows) : srv[plan.rows[i].res] = From(plan.rows[i])

(* The serverId columns once the resources of S are on the server s.       *)
MovedLiterally(srv, S, s) == [r \in Res |-> IF r \in S THEN s ELSE srv[r]]

Moved(srv, S, s) == [r \in Res |-> IF r \in S THEN Marker(s) ELSE srv[r]]
=============================================================================
