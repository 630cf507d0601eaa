---------------------------- MODULE MCPlanCheck ----------------------------
(* Up to two events, plans of up to two rows.  Rows a and b have the same  *)
(* identity, d has none.                                                   *)
EXTENDS PlanCheck, TLC

CONSTANTS a, b, c, d

MCRow == {a, b, c, d}
MCIdent == (a :> 1) @@ (b :> 1) @@ (c :> 2) @@ (d :> 0)

Rows == UNION {[1 .. k -> MCRow] : k \in 0 .. 2}
Plans == [id : PlanID, header : Header, rows : Rows]
Happened ==
    [message : {"dry-run plan ready"}, payload : Plans \cup {Undecodable}]
    \cup [message : {"other"}, payload : {Undecodable}]

(* The submitted plan has the first ID and header.                         *)
MCInit ==
    /\ events \in UNION {[1 .. k -> Happened] : k \in 0 .. 2}
    /\ submitted \in [id : {1}, header : {1}, rows : Rows]
    /\ Begin

MCSpec == MCInit /\ [][Next]_vars
=============================================================================
