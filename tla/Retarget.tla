------------------------------ MODULE Retarget ------------------------------
(***************************************************************************)
(* What the adapter promises of a metadata write, without its transaction: *)
(* a request is answered, and either moves every row of its plan from the  *)
(* plan's source to the plan's target in one step, or changes nothing.     *)
(*                                                                         *)
(* An answer "ok" means that the rows were moved.  An answer "err" leaves  *)
(* it open, as the commit may succeed and its confirmation be lost, but a  *)
(* write that was not confirmed is still whole.  Dokploy itself moves and  *)
(* deletes resources at any time.                                          *)
(***************************************************************************)
EXTENDS PlanRows

CONSTANT Writer      \* concurrent calls of ApplyRetargetPlan

VARIABLES
    server,          \* the committed serverId column of each resource
    plan,            \* the plan that each call was given
    answer           \* "idle", "pending", "ok" or "err"

vars == <<server, plan, answer>>

Init ==
    /\ server \in [Res -> Column]
    /\ plan = [w \in Writer |-> NoPlan]
    /\ answer = [w \in Writer |-> "idle"]

Ask(w, q) ==
    /\ answer[w] = "idle"
    /\ plan' = [plan EXCEPT ![w] = Delivered(q)]
    /\ \E a \in {"pending", "err"} : answer' = [answer EXCEPT ![w] = a]
    /\ UNCHANGED server

(* The write happens, whole, and only from the state that was reviewed.    *)
Write(w) ==
    /\ answer[w] = "pending"
    /\ ValidForWrite(plan[w])
    /\ AllAtSource(server, plan[w])
    /\ server' = Moved(server, Touched(plan[w], Len(plan[w].rows)), plan[w].dst)
    /\ \E a \in {"ok", "err"} : answer' = [answer EXCEPT ![w] = a]
    /\ UNCHANGED plan

Refuse(w) ==
    /\ answer[w] = "pending"
    /\ answer' = [answer EXCEPT ![w] = "err"]
    /\ UNCHANGED <<server, plan>>

Leave(w) ==
    /\ answer[w] \in {"ok", "err"}
    /\ plan' = [plan EXCEPT ![w] = NoPlan]
    /\ answer' = [answer EXCEPT ![w] = "idle"]
    /\ UNCHANGED server

(* Dokploy moves a resource, or deletes it for good.                       *)
DokployChanges(r, c) ==
    /\ server[r] # Gone
    /\ server' = [server EXCEPT ![r] = c]
    /\ UNCHANGED <<plan, answer>>

Next ==
    \/ \E w \in Writer :
          \/ \E q \in Requests : Ask(w, q)
          \/ Write(w) \/ Refuse(w) \/ Leave(w)
    \/ \E r \in Res, c \in Column : DokployChanges(r, c)

Spec == Init /\ [][Next]_vars
=============================================================================
