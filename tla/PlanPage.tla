------------------------------ MODULE PlanPage ------------------------------
(***************************************************************************)
(* The web page's dry run and apply (internal/server/static/app.js): dry   *)
(* runs are requested at any time and answered in any order, each answer   *)
(* is rendered, rows are checked and unchecked, and an apply sends what is *)
(* selected of the plan that is displayed.                                 *)
(*                                                                         *)
(* A row stands for its key, planRowKey: its table, ID and both servers,   *)
(* so plans of several dry runs list the same rows.  Texts on the page are *)
(* left out.  The answer to an apply changes texts only.                   *)
(***************************************************************************)
EXTENDS Naturals

CONSTANTS
    Row,          \* keys of plan rows
    Hash,         \* schema fingerprints
    Asked,        \* the dry runs requested from this page, named by plan ID
    NoApproval,   \* an empty schema hash input
    None          \* no job, no plan

VARIABLES
    asked,        \* dry runs requested so far
    stored,       \* the plan that the server has stored for each job
    job,          \* currentJob, named by the dry run that created it
    plan,         \* currentPlan
    selectedID,   \* selectedPlanID
    selected,     \* selectedPlanRows
    approval,     \* the schema hash input, trimmed
    typed,        \* the confirmation input is APPLY
    enabled,      \* the apply button is
    sent,         \* history: the applies requested so far
    unchecked     \* history: rows left unchecked, for each plan

inputs == <<approval, typed>>
shown == <<job, plan>>
selection == <<selectedID, selected>>
vars == <<asked, stored, job, plan, selectedID, selected, approval, typed,
          enabled, sent, unchecked>>

Plan == [id : Asked, rows : SUBSET Row, hash : Hash]

ASSUME PageAssumption == NoApproval \notin Hash /\ None \notin Asked \cup Plan

Apply == [job : Asked, id : Asked, rows : SUBSET Row, hash : Hash,
          approval : Hash \cup {NoApproval}]

(* Types; a job and a plan are displayed together or not at all.            *)
TypeOK ==
    /\ asked \subseteq Asked
    /\ stored \in [Asked -> Plan \cup {None}]
    /\ job \in Asked \cup {None}
    /\ plan \in Plan \cup {None}
    /\ job = None <=> plan = None
    /\ selectedID \in Asked \cup {None}
    /\ selected \subseteq Row
    /\ approval \in Hash \cup {NoApproval}
    /\ typed \in BOOLEAN /\ enabled \in BOOLEAN
    /\ sent \subseteq Apply
    /\ unchecked \in [Asked -> SUBSET Row]

-----------------------------------------------------------------------------
(* selectedRows: what is selected of a plan.                               *)
SelectedRows(p, sel) == IF p = None THEN {} ELSE p.rows \cap sel

(* updateApplyState: whether the apply button is enabled.                  *)
Ready(p, sel, ok, confirmed) ==
    /\ p # None
    /\ SelectedRows(p, sel) # {}
    /\ ok \in {NoApproval, p.hash}
    /\ confirmed

(* syncSelectionForPlan: a new plan starts with all its rows selected, the *)
(* same plan keeps what was selected.                                      *)
SyncAll(p) == selectedID' = p.id /\ selected' = p.rows

Sync(p) ==
    /\ selectedID' = p.id
    /\ selected' = IF selectedID = p.id THEN selected \cap p.rows ELSE p.rows

(* renderPlan with the job and the plan of an answer, and renderNoPlan.    *)
RenderPlanKeepingJob(j, p) ==
    /\ job' = IF job = None THEN j ELSE job
    /\ plan' = p
    /\ Sync(p)
    /\ enabled' = Ready(p, selected', approval, typed)

RenderPlan(j, p) ==
    /\ job' = j /\ plan' = p
    /\ Sync(p)
    /\ enabled' = Ready(p, selected', approval, typed)

RenderNoPlan ==
    /\ job' = None /\ plan' = None
    /\ selectedID' = None /\ selected' = {}
    /\ enabled' = FALSE

-----------------------------------------------------------------------------
Init ==
    /\ asked = {}
    /\ stored = [k \in Asked |-> None]
    /\ job = None /\ plan = None
    /\ selectedID = None /\ selected = {}
    /\ approval = NoApproval /\ typed = FALSE
    /\ enabled = FALSE
    /\ sent = {}
    /\ unchecked = [k \in Asked |-> {}]

(* The dry-run form is submitted; what is displayed stays.                 *)
SubmitPlan(k) ==
    /\ k \notin asked
    /\ asked' = asked \cup {k}
    /\ UNCHANGED <<stored, shown, selection, inputs, enabled, sent, unchecked>>

(* The server answers a dry run with a job and its plan.                   *)
Answer(k, rows, h) ==
    /\ k \in asked /\ stored[k] = None
    /\ LET p == [id |-> k, rows |-> rows, hash |-> h]
       IN  /\ stored' = [stored EXCEPT ![k] = p]
           /\ RenderPlan(k, p)
    /\ UNCHANGED <<asked, inputs, sent, unchecked>>

(* A dry run fails, or its answer is lost after the server has stored it.  *)
AnswerFails(k, rows, h) ==
    /\ k \in asked /\ stored[k] = None
    /\ stored' = [stored EXCEPT ![k] = [id |-> k, rows |-> rows, hash |-> h]]
    /\ RenderNoPlan
    /\ UNCHANGED <<asked, inputs, sent, unchecked>>

(* The selection changes and the plan is rendered again.                   *)
Select(sel) ==
    /\ selectedID' = selectedID /\ selected' = sel
    /\ enabled' = Ready(plan, sel, approval, typed)
    /\ unchecked' = [unchecked EXCEPT ![plan.id] = plan.rows \ sel]
    /\ UNCHANGED <<asked, stored, shown, inputs, sent>>

(* One row's checkbox, and the checkbox of all rows.                       *)
Toggle(r) ==
    /\ plan # None /\ r \in plan.rows
    /\ Select(IF r \in selected THEN selected \ {r} ELSE selected \cup {r})

SelectAll(checked) ==
    /\ plan # None /\ plan.rows # {}
    /\ Select(IF checked THEN plan.rows ELSE {})

(* applyLanguage renders the displayed plan again.                         *)
SwitchLanguage ==
    /\ IF plan = None THEN RenderNoPlan ELSE RenderPlan(job, plan)
    /\ UNCHANGED <<asked, stored, inputs, sent, unchecked>>

(* The two inputs of the apply form.                                       *)
TypeApprovalOnly(h) ==
    /\ approval' = h
    /\ UNCHANGED <<asked, stored, shown, selection, typed, enabled, sent,
                   unchecked>>

TypeApproval(h) ==
    /\ approval' = h
    /\ enabled' = Ready(plan, selected, h, typed)
    /\ UNCHANGED <<asked, stored, shown, selection, typed, sent, unchecked>>

TypeConfirmation(yes) ==
    /\ typed' = yes
    /\ enabled' = Ready(plan, selected, approval, yes)
    /\ UNCHANGED <<asked, stored, shown, selection, approval, sent, unchecked>>

(* The apply form is submitted: the button's state is computed once more.  *)
SubmitApply ==
    /\ enabled' = Ready(plan, selected, approval, typed)
    /\ enabled'
    /\ sent' = sent \cup {[job |-> job, id |-> plan.id, hash |-> plan.hash,
                           rows |-> SelectedRows(plan, selected),
                           approval |-> approval]}
    /\ UNCHANGED <<asked, stored, shown, selection, inputs, unchecked>>

PageStep ==
    \/ \E k \in Asked : SubmitPlan(k)
    \/ \E k \in Asked, rows \in SUBSET Row, h \in Hash : Answer(k, rows, h)
    \/ \E k \in Asked, rows \in SUBSET Row, h \in Hash : AnswerFails(k, rows, h)
    \/ \E r \in Row : Toggle(r)
    \/ \E checked \in BOOLEAN : SelectAll(checked)
    \/ \E h \in Hash \cup {NoApproval} : TypeApproval(h)
    \/ \E yes \in BOOLEAN : TypeConfirmation(yes)
    \/ SubmitApply

Next == PageStep \/ SwitchLanguage

Spec == Init /\ [][Next]_vars

-----------------------------------------------------------------------------
(* A row that the operator has unchecked in a plan is not in an apply of   *)
(* that plan, whatever answers arrive and however often the plan is        *)
(* rendered before the apply is sent.                                      *)
UncheckedStaysOut ==
    [][\A a \in sent' \ sent : a.rows \cap unchecked[a.id] = {}]_vars

(* Every apply names the job whose stored plan it is a part of, with the   *)
(* fingerprint of that plan: the manager never refuses one from this page  *)
(* as the plan of another job, in whatever order dry runs were answered.   *)
SentIsStored ==
    \A a \in sent :
       /\ stored[a.job] # None
       /\ a.id = stored[a.job].id
       /\ a.hash = stored[a.job].hash
       /\ a.rows \subseteq stored[a.job].rows

(* The apply button is enabled exactly when the displayed plan can be      *)
(* applied: rows selected, approval matching, confirmation typed.          *)
ButtonTellsTruth == enabled = Ready(plan, selected, approval, typed)
=============================================================================
