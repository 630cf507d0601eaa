--------------------------- MODULE MCOperatorView ---------------------------
(***************************************************************************)
(* A small instance of OperatorView.  One of the four components runs      *)
(* while the others rest: nothing is lost by that, as they share no state, *)
(* a language switch does to each page what it does to it alone, and       *)
(* HistoryPage leaves open in which order the store lists.                 *)
(***************************************************************************)
EXTENDS OperatorView, TLC

CONSTANTS a, b, c, apps, stacks, s1             \* ServerScan

VARIABLE part       \* what runs

(* Limits and offsets that a client may give.                              *)
MCAskedNumber == {0 - 1, 0, 1, 2, 3}

(* Three rows in two tables, and a remote server that Dokploy reports up,  *)
(* down or not at all, seen just within the limit, just beyond it, or      *)
(* never.                                                                  *)
MCRes == {a, b, c}
MCTable == {apps, stacks}
MCTableOf == [r \in MCRes |-> IF r = c THEN stacks ELSE apps]
MCServer == {Local, s1}
MCReport == [raw : {"up", "down", "other"},
             age : {DeadAfter, DeadAfter + 1, NoAge}]

MCInit ==
    /\ part \in {"servers", "plan", "history", "order"}
    /\ ViewInit
    /\ part # "order" => now = [second |-> 0, digits |-> [i \in 1..Places |-> 0]]
    /\ part # "servers" =>
          registered = <<>> /\ \A r \in Res : server[r] = Gone

MCNext ==
    /\ UNCHANGED part
    /\ \/ part = "servers" /\ ScanNext /\ UNCHANGED <<pageVars, historyVars, orderVars>>
       \/ part = "plan" /\ PageStep /\ UNCHANGED <<scanVars, historyVars, orderVars>>
       \/ part = "history" /\ HistoryRequests /\ UNCHANGED <<scanVars, pageVars, orderVars>>
       \/ part \in {"plan", "history"} /\ ApplyLanguage
       \/ part = "order" /\ OrderNext /\ UNCHANGED <<pageVars, historyVars, scanVars>>

MCSpec == MCInit /\ [][MCNext]_<<part, viewVars>>

(* Jobs and requests are interchangeable.                                  *)
Symmetry == Permutations(Job) \cup Permutations(Slot)

(* Bound: the applies that are followed.                                   *)
OneApply == \A p, q \in sent : p = q
=============================================================================
