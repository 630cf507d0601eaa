---------------------------- MODULE OperatorView ----------------------------
(***************************************************************************)
(* What the operator sees: the list of servers (ServerScan), and of the    *)
(* web page the dry runs and applies (PlanPage) and the job history        *)
(* (HistoryPage), and the order of the jobs in it (JobOrder).  They run    *)
(* side by side and share no state, but one handler works on two of them:  *)
(* a language switch renders the plan and the history again.  A dry run    *)
(* and an apply reload the history, but HistoryPage can reload at any      *)
(* time, and leaves open in which order the store lists; the servers,      *)
(* once listed, only fill a form.                                          *)
(***************************************************************************)
EXTENDS PlanPage, HistoryPage, ServerScan, JobOrder

pageVars == vars
viewVars == <<pageVars, historyVars, scanVars, orderVars>>

ViewInit == Init /\ HistoryInit /\ ScanInit /\ OrderInit

(* applyLanguage.                                                          *)
ApplyLanguage ==
    SwitchLanguage /\ SwitchHistoryLanguage /\ UNCHANGED <<scanVars, orderVars>>

ViewNext ==
    \/ PageStep /\ UNCHANGED <<historyVars, scanVars, orderVars>>
    \/ HistoryRequests /\ UNCHANGED <<pageVars, scanVars, orderVars>>
    \/ ApplyLanguage
    \/ ScanNext /\ UNCHANGED <<pageVars, historyVars, orderVars>>
    \/ OrderNext /\ UNCHANGED <<pageVars, historyVars, scanVars>>

ViewSpec == ViewInit /\ [][ViewNext]_viewVars

(* The types of the plan, the history, the scan and the order.             *)
ViewTypeOK == TypeOK /\ HistoryTypeOK /\ ScanTypeOK /\ OrderTypeOK
=============================================================================
