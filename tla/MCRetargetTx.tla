---------------------------- MODULE MCRetargetTx ----------------------------
(* Small instances of RetargetTx: two resources, plans in both directions  *)
(* between the local server and another, in both row orders.               *)
EXTENDS RetargetTx

CONSTANTS a, b, c, s1, s2, h1, h2

MCRes == {a, b}
MCResAndForeign == {a, b, c}
MCServer == {Local, s1}
MCServers == {Local, s1, s2}
MCHash == {h1, h2}
MCOneHash == {h1}
MCAllowed == {h1}

Change(r, s, t) == [res |-> r, old |-> s, new |-> t]

PlanOf(s, t, rs) ==
    [src |-> s, dst |-> t, hash |-> h1,
     rows |-> [i \in 1..Len(rs) |-> Change(rs[i], s, t)]]

Ask(op, p, ok) == [op |-> op, plan |-> p, approval |-> ok]

(* Two orders of the same rows, so that two applies can deadlock; a        *)
(* rollback, a subset, and a plan that lists a row twice.                  *)
Contending ==
    {Ask("apply", PlanOf(Local, s1, <<a, b>>), h1),
     Ask("apply", PlanOf(Local, s1, <<b, a>>), NoApproval),
     Ask("rollback", PlanOf(Local, s1, <<a, b>>), h1),
     Ask("apply", PlanOf(Local, s1, <<b>>), h1)}

(* The two that can deadlock, alone.                                       *)
Opposed == {q \in Contending : q.op = "apply" /\ Len(q.plan.rows) = 2}

(* What the checks refuse: a duplicate row, a row of another plan, a plan  *)
(* onto its own source, an approval of another schema.                     *)
Malformed ==
    {Ask("apply", PlanOf(Local, s1, <<a, a>>), h1),
     Ask("apply", [PlanOf(Local, s1, <<a, b>>) EXCEPT !.rows[2].old = s1], h1),
     Ask("rollback", PlanOf(s1, s1, <<a>>), h1),
     Ask("apply", PlanOf(Local, s1, <<a>>), h2)}

(* A plan between two remote servers, and one that reaches a row outside   *)
(* the table allowlist after it has changed another.                       *)
Chained ==
    {Ask("apply", PlanOf(s1, s2, <<b>>), h1),
     Ask("apply", PlanOf(Local, s1, <<a, c>>), h1)}

AnyRequest == Contending \cup Malformed \cup Chained
=============================================================================
