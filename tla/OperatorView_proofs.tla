------------------------ MODULE OperatorView_proofs ------------------------
(***************************************************************************)
(* What the operator is shown, for any number of rows, tables, servers,    *)
(* jobs and requests in flight.                                            *)
(***************************************************************************)
EXTENDS OperatorView, Ordering_proofs

-----------------------------------------------------------------------------
(* The page of a dry run (PlanPage), for any number of dry runs, rows and  *)
(* fingerprints, and any number of applies.                                *)

(* The displayed plan is the one stored for the displayed job.             *)
ShownIsStored ==
    plan # None => plan = stored[job] /\ plan.id = job

(* The selection belongs to the displayed plan and respects what the       *)
(* operator unchecked; nothing is unchecked in a plan not answered yet.    *)
SelectionFits ==
    /\ plan # None => /\ selectedID = plan.id
                      /\ selected \cap unchecked[plan.id] = {}
    /\ \A k \in Asked : stored[k] = None => unchecked[k] = {}

PlanInv == TypeOK /\ ShownIsStored /\ SelectionFits /\ SentIsStored

(* The answers of the server: the same state, another plan stored.         *)
Stores(k, rows, h) ==
    /\ stored[k] = None
    /\ stored' = [stored EXCEPT ![k] = [id |-> k, rows |-> rows, hash |-> h]]
    /\ UNCHANGED sent

-----------------------------------------------------------------------------
LEMMA PlanInitEstablishes == Init => PlanInv
BY PageAssumption
   DEF Init, PlanInv, TypeOK, ShownIsStored, SelectionFits, SentIsStored

(* A job's plan is stored once, so an answer does not change what earlier  *)
(* applies were part of.                                                   *)
LEMMA StoringKeepsSent ==
    ASSUME PlanInv, NEW k \in Asked, NEW rows \in SUBSET Row, NEW h \in Hash,
           Stores(k, rows, h)
    PROVE  /\ stored' \in [Asked -> Plan \cup {None}]
           /\ SentIsStored'
<1>1. [id |-> k, rows |-> rows, hash |-> h] \in Plan
  BY DEF Plan
<1>2. stored' \in [Asked -> Plan \cup {None}]
  BY <1>1 DEF Stores, PlanInv, TypeOK
<1>3. ASSUME NEW a \in sent
      PROVE  a.job \in Asked /\ stored'[a.job] = stored[a.job]
  <2>1. a.job \in Asked /\ stored[a.job] # None
    BY DEF PlanInv, TypeOK, Apply, SentIsStored
  <2> QED
    BY <2>1 DEF Stores, PlanInv, TypeOK
<1>4. SentIsStored'
  BY <1>3 DEF SentIsStored, Stores, PlanInv
<1> QED
  BY <1>2, <1>4

(* Every step of the page and of the server keeps the invariant.           *)
LEMMA PlanStep == PlanInv /\ [Next]_vars => PlanInv'
<1> SUFFICES ASSUME PlanInv, [Next]_vars PROVE PlanInv'
  OBVIOUS
<1> USE PageAssumption DEF PlanInv
<1>1. ASSUME NEW k \in Asked, SubmitPlan(k)
      PROVE  PlanInv'
  BY <1>1 DEF SubmitPlan, shown, selection, inputs, TypeOK, ShownIsStored,
     SelectionFits, SentIsStored
<1>2. ASSUME NEW k \in Asked, NEW rows \in SUBSET Row, NEW h \in Hash,
             Answer(k, rows, h)
      PROVE  PlanInv'
  <2> DEFINE p == [id |-> k, rows |-> rows, hash |-> h]
  <2>1. Stores(k, rows, h)
    BY <1>2 DEF Answer, Stores
  <2>2. stored' \in [Asked -> Plan \cup {None}] /\ SentIsStored'
    BY <2>1, StoringKeepsSent
  <2>3. p \in Plan /\ p # None /\ p.id = k /\ p.rows = rows
    BY DEF Plan
  <2>4. job' = k /\ plan' = p /\ selectedID' = k /\ selected' \subseteq rows
    BY <1>2, <2>3 DEF Answer, RenderPlan, Sync
  <2>5. unchecked' = unchecked /\ unchecked[k] = {}
    BY <1>2 DEF Answer, SelectionFits
  <2>6. stored'[k] = p
    BY <2>1 DEF Stores, TypeOK
  <2>7. enabled' \in BOOLEAN
    BY <1>2 DEF Answer, RenderPlan, Ready
  <2>8. ShownIsStored'
    BY <2>3, <2>4, <2>6 DEF ShownIsStored
  <2>9. SelectionFits'
    BY <2>1, <2>3, <2>4, <2>5 DEF SelectionFits, Stores, TypeOK
  <2>10. TypeOK'
    BY <1>2, <2>2, <2>3, <2>4, <2>5, <2>7 DEF Answer, inputs, TypeOK
  <2> QED
    BY <2>2, <2>8, <2>9, <2>10
<1>3. ASSUME NEW k \in Asked, NEW rows \in SUBSET Row, NEW h \in Hash,
             AnswerFails(k, rows, h)
      PROVE  PlanInv'
  <2>1. Stores(k, rows, h)
    BY <1>3 DEF AnswerFails, Stores
  <2>2. stored' \in [Asked -> Plan \cup {None}] /\ SentIsStored'
    BY <2>1, StoringKeepsSent
  <2> QED
    BY <1>3, <2>1, <2>2 DEF AnswerFails, RenderNoPlan, Stores, inputs, TypeOK,
       ShownIsStored, SelectionFits
<1>4. ASSUME NEW sel \in SUBSET Row, plan # None, Select(sel)
      PROVE  PlanInv'
  <2>1. plan \in Plan /\ plan.id \in Asked /\ plan.rows \subseteq Row
    BY <1>4 DEF TypeOK, Plan
  <2>2. enabled' \in BOOLEAN
    BY <1>4 DEF Select, Ready
  <2>3. unchecked' \in [Asked -> SUBSET Row]
    BY <1>4, <2>1 DEF Select, TypeOK
  <2>4. TypeOK'
    BY <1>4, <2>2, <2>3 DEF Select, shown, inputs, TypeOK
  <2>5. stored[plan.id] # None
    BY <1>4 DEF ShownIsStored
  <2>6. SelectionFits'
    BY <1>4, <2>1, <2>5 DEF Select, shown, SelectionFits, TypeOK
  <2>7. ShownIsStored' /\ SentIsStored'
    BY <1>4 DEF Select, shown, ShownIsStored, SentIsStored
  <2> QED
    BY <2>4, <2>6, <2>7
<1>5. ASSUME NEW r \in Row, Toggle(r)
      PROVE  PlanInv'
  <2>1. selected \ {r} \in SUBSET Row /\ selected \cup {r} \in SUBSET Row
    BY DEF TypeOK
  <2> QED
    BY <1>4, <1>5, <2>1 DEF Toggle
<1>6. ASSUME NEW checked \in BOOLEAN, SelectAll(checked)
      PROVE  PlanInv'
  <2>1. plan.rows \in SUBSET Row
    BY <1>6 DEF SelectAll, TypeOK, Plan
  <2> QED
    BY <1>4, <1>6, <2>1 DEF SelectAll
<1>7. CASE SwitchLanguage
  <2>1. CASE plan = None
    BY <1>7, <2>1 DEF SwitchLanguage, RenderNoPlan, inputs, TypeOK,
       ShownIsStored, SelectionFits, SentIsStored
  <2>2. CASE plan # None
    <3>1. plan.id \in Asked /\ plan.rows \subseteq Row
      BY <2>2 DEF TypeOK, Plan
    <3>2. selectedID' = plan.id /\ selected' = selected \cap plan.rows
      BY <1>7, <2>2 DEF SwitchLanguage, RenderPlan, Sync, SelectionFits
    <3>3. enabled' \in BOOLEAN
      BY <1>7, <2>2 DEF SwitchLanguage, RenderPlan, Ready
    <3>4. job' = job /\ plan' = plan
      BY <1>7, <2>2 DEF SwitchLanguage, RenderPlan
    <3> QED
      BY <1>7, <3>1, <3>2, <3>3, <3>4 DEF SwitchLanguage, inputs, TypeOK,
         ShownIsStored, SelectionFits, SentIsStored
  <2> QED
    BY <2>1, <2>2
<1>8. ASSUME NEW h \in Hash \cup {NoApproval}, TypeApproval(h)
      PROVE  PlanInv'
  BY <1>8 DEF TypeApproval, Ready, shown, selection, TypeOK, ShownIsStored,
     SelectionFits, SentIsStored
<1>9. ASSUME NEW yes \in BOOLEAN, TypeConfirmation(yes)
      PROVE  PlanInv'
  BY <1>9 DEF TypeConfirmation, Ready, shown, selection, TypeOK,
     ShownIsStored, SelectionFits, SentIsStored
<1>10. CASE SubmitApply
  <2> DEFINE a == [job |-> job, id |-> plan.id, hash |-> plan.hash,
                   rows |-> SelectedRows(plan, selected),
                   approval |-> approval]
  <2>1. plan # None /\ enabled' \in BOOLEAN
    BY <1>10 DEF SubmitApply, Ready
  <2>2. plan \in Plan /\ job \in Asked
    BY <2>1 DEF TypeOK
  <2>3. SelectedRows(plan, selected) = plan.rows \cap selected
    BY <2>1 DEF SelectedRows
  <2>4. a \in Apply
    BY <2>2, <2>3 DEF Apply, Plan, TypeOK
  <2>5. sent' = sent \cup {a}
    BY <1>10 DEF SubmitApply
  <2>6. TypeOK'
    BY <1>10, <2>1, <2>4, <2>5 DEF SubmitApply, shown, selection, inputs,
       TypeOK
  <2>7. /\ stored[a.job] # None
        /\ a.id = stored[a.job].id
        /\ a.hash = stored[a.job].hash
        /\ a.rows \subseteq stored[a.job].rows
    BY <2>1, <2>3 DEF ShownIsStored
  <2>8. SentIsStored'
    BY <1>10, <2>5, <2>7 DEF SubmitApply, SentIsStored
  <2> QED
    BY <1>10, <2>6, <2>8 DEF SubmitApply, shown, selection, ShownIsStored,
       SelectionFits
<1>11. CASE UNCHANGED vars
  BY <1>11 DEF vars, TypeOK, ShownIsStored, SelectionFits, SentIsStored
<1> QED
  BY <1>1, <1>2, <1>3, <1>5, <1>6, <1>7, <1>8, <1>9, <1>10, <1>11
     DEF Next, PageStep

(* Only an apply sends, and it sends what is selected of the shown plan.   *)
LEMMA SendsSelected ==
    PlanInv /\ [Next]_vars =>
       [\A a \in sent' \ sent : a.rows \cap unchecked[a.id] = {}]_vars
<1> SUFFICES ASSUME PlanInv, Next, NEW a \in sent' \ sent
             PROVE  a.rows \cap unchecked[a.id] = {}
  BY DEF vars
<1>1. SubmitApply
  <2>1. sent' # sent
    OBVIOUS
  <2> QED
    BY <2>1 DEF Next, PageStep, SubmitPlan, Answer, AnswerFails, Toggle, SelectAll,
       Select, SwitchLanguage, TypeApproval, TypeConfirmation
<1>2. plan # None
  BY <1>1 DEF SubmitApply, Ready
<1>3. a.id = plan.id /\ a.rows = plan.rows \cap selected
  BY <1>1, <1>2 DEF SubmitApply, SelectedRows
<1> QED
  BY <1>2, <1>3 DEF PlanInv, SelectionFits

(* Whatever changes the plan, the selection or an input computes the state *)
(* of the button anew.                                                     *)
LEMMA ButtonFollows ==
    ASSUME ButtonTellsTruth, [Next]_vars
    PROVE  ButtonTellsTruth'
<1> USE DEF ButtonTellsTruth, shown, selection, inputs
<1>1. ASSUME NEW k \in Asked, SubmitPlan(k)
      PROVE  ButtonTellsTruth'
  BY <1>1 DEF SubmitPlan
<1>2. ASSUME NEW k \in Asked, NEW rows \in SUBSET Row, NEW h \in Hash,
             Answer(k, rows, h)
      PROVE  ButtonTellsTruth'
  BY <1>2 DEF Answer, RenderPlan
<1>3. ASSUME RenderNoPlan
      PROVE  ButtonTellsTruth'
  BY <1>3 DEF RenderNoPlan, Ready
<1>4. ASSUME NEW k \in Asked, NEW rows \in SUBSET Row, NEW h \in Hash,
             AnswerFails(k, rows, h)
      PROVE  ButtonTellsTruth'
  BY <1>3, <1>4 DEF AnswerFails
<1>5. ASSUME NEW sel, Select(sel)
      PROVE  ButtonTellsTruth'
  BY <1>5 DEF Select
<1>6. ASSUME NEW r \in Row, Toggle(r)
      PROVE  ButtonTellsTruth'
  BY <1>5, <1>6 DEF Toggle
<1>7. ASSUME NEW checked \in BOOLEAN, SelectAll(checked)
      PROVE  ButtonTellsTruth'
  BY <1>5, <1>7 DEF SelectAll
<1>8. CASE SwitchLanguage
  <2>1. CASE plan = None
    BY <1>3, <1>8, <2>1 DEF SwitchLanguage
  <2>2. CASE plan # None
    BY <1>8, <2>2 DEF SwitchLanguage, RenderPlan
  <2> QED
    BY <2>1, <2>2
<1>9. ASSUME NEW h \in Hash \cup {NoApproval}, TypeApproval(h)
      PROVE  ButtonTellsTruth'
  BY <1>9 DEF TypeApproval
<1>10. ASSUME NEW yes \in BOOLEAN, TypeConfirmation(yes)
      PROVE  ButtonTellsTruth'
  BY <1>10 DEF TypeConfirmation
<1>11. CASE SubmitApply
  BY <1>11 DEF SubmitApply
<1>12. CASE UNCHANGED vars
  BY <1>12 DEF vars
<1> QED
  BY <1>1, <1>2, <1>4, <1>6, <1>7, <1>8, <1>9, <1>10, <1>11, <1>12
     DEF Next, PageStep

-----------------------------------------------------------------------------
(* The invariant holds in every state of the page.                         *)
THEOREM PlanInvariance == Spec => []PlanInv
BY PlanInitEstablishes, PlanStep, PTL DEF Spec

(* Every apply is a part of the plan stored for the job that it names, in  *)
(* whatever order the dry runs were answered.                              *)
THEOREM AppliesNameTheirPlan == Spec => []SentIsStored
<1>1. PlanInv => SentIsStored
  BY DEF PlanInv
<1> QED
  BY <1>1, PlanInvariance, PTL

(* No apply moves a row that the operator has unchecked in its plan.       *)
THEOREM UncheckedIsNotMoved == Spec => UncheckedStaysOut
BY PlanInvariance, SendsSelected, PTL DEF Spec, UncheckedStaysOut

(* After every event of the page, in whatever order answers and input      *)
(* events come, the apply button is enabled if and only if an apply would  *)
(* be sent.                                                                *)
THEOREM ButtonIsTruthful == Spec => []ButtonTellsTruth
<1>1. Init => ButtonTellsTruth
  BY DEF Init, ButtonTellsTruth, Ready
<1> QED
  BY <1>1, ButtonFollows, PTL DEF Spec

-----------------------------------------------------------------------------
(* The scan, while it counts: what it follows fits the rows as they are    *)
(* now, and each count lies between the rows kept and the rows seen of the *)
(* tables that are counted.                                                *)
Counted == {r \in Res : TableOf[r] \notin tables}

ScanFits ==
    phase = "count" =>
       \A s \in Server :
          /\ kept[s] \subseteq RowsOf(server)[s]
          /\ RowsOf(server)[s] \subseteq seen[s]

CountsFit ==
    phase = "count" =>
       \A s \in Server :
          /\ Cardinality(kept[s] \cap Counted) <= counts[s]
          /\ counts[s] <= Cardinality(seen[s] \cap Counted)

(* Nobody keeps a row of two servers.                                      *)
KeptApart ==
    phase \in {"count", "done"} =>
       \A s, q \in Server : s # q => kept[s] \cap kept[q] = {}

NothingCountedYet == phase = "idle" => counts = NoCounts

ScanInv == /\ ScanTypeOK
           /\ NothingCountedYet
           /\ ScanFits
           /\ CountsFit
           /\ KeptApart
           /\ CountsWithinBounds

LEMMA SubsetsAreFinite ==
    ASSUME NEW S \in SUBSET Res
    PROVE  /\ IsFiniteSet(S) /\ Cardinality(S) \in Nat
           /\ \A T \in SUBSET S : Cardinality(T) <= Cardinality(S)
BY ScanAssumption, FS_Subset, FS_CardinalityType

(* Rows counted by tables: the next table adds its own rows.               *)
OfTable(S, t) == {r \in S : TableOf[r] = t}

OutOf(S, ts) == {r \in S : TableOf[r] \notin ts}

LEMMA NextTableAdds ==
    ASSUME NEW S \in SUBSET Res, NEW ts, NEW t \in ts
    PROVE  /\ Cardinality(OutOf(S, ts \ {t})) =
                 Cardinality(OutOf(S, ts)) + Cardinality(OfTable(S, t))
           /\ Cardinality(OutOf(S, ts)) \in Nat
           /\ Cardinality(OfTable(S, t)) \in Nat
<1> DEFINE A == OutOf(S, ts)
           B == OfTable(S, t)
<1>1. OutOf(S, ts \ {t}) = A \cup B /\ A \cap B = {}
  BY DEF OutOf, OfTable
<1>2. A \in SUBSET Res /\ B \in SUBSET Res
  BY DEF OutOf, OfTable
<1> HIDE DEF A, B
<1>3. IsFiniteSet(A) /\ IsFiniteSet(B) /\ Cardinality({}) = 0
      /\ Cardinality(A) \in Nat /\ Cardinality(B) \in Nat
  BY <1>2, SubsetsAreFinite, FS_EmptySet
<1>4. Cardinality(A \cup B) =
         Cardinality(A) + Cardinality(B) - Cardinality(A \cap B)
  BY <1>3, FS_Union
<1>5. Cardinality(A \cap B) = 0
  BY <1>1, <1>3, Zenon
<1>6. Cardinality(A \cup B) = Cardinality(A) + Cardinality(B)
  BY <1>3, <1>4, <1>5
<1> QED
  BY <1>1, <1>3, <1>6 DEF A, B

LEMMA ScanInitEstablishes == ScanInit => ScanInv
<1> SUFFICES ASSUME ScanInit PROVE ScanInv
  OBVIOUS
<1> USE ScanAssumption
    DEF ScanInit, NoCounts, NoRows, NoEntries
<1>1. ScanTypeOK
  BY DEF ScanTypeOK, Remote
<1> QED
  BY <1>1 DEF ScanInv, NothingCountedYet, ScanFits, CountsFit, KeptApart, CountsWithinBounds

(* Whatever happens to the rows, less is kept and more is seen.            *)
LEMMA FollowTypes ==
    ASSUME ScanTypeOK, NEW srv, Follow(srv)
    PROVE  /\ kept' \in [Server -> SUBSET Res] /\ seen' \in [Server -> SUBSET Res]
           /\ \A s \in Server : kept'[s] \subseteq kept[s] /\ seen[s] \subseteq seen'[s]
           /\ phase = "count" =>
                 \A s \in Server :
                    /\ kept'[s] \subseteq RowsOf(srv)[s]
                    /\ RowsOf(srv)[s] \subseteq seen'[s]
           /\ phase # "count" => kept' = kept /\ seen' = seen
<1>1. \A s \in Server : RowsOf(srv)[s] \in SUBSET Res
  BY DEF RowsOf
<1>2. \A s \in Server : kept[s] \in SUBSET Res /\ seen[s] \in SUBSET Res
  BY DEF ScanTypeOK
<1>3. CASE phase = "count"
  BY <1>1, <1>2, <1>3 DEF Follow
<1>4. CASE phase # "count"
  BY <1>2, <1>4 DEF Follow, ofRows, ScanTypeOK
<1> QED
  BY <1>3, <1>4

LEMMA ScanTypeStep ==
    ASSUME ScanTypeOK, [ScanNext]_scanVars
    PROVE  ScanTypeOK'
<1> USE ScanAssumption DEF ScanTypeOK, Remote, ofRows
<1>1. CASE Receive
  BY <1>1 DEF Receive, RowsOf
<1>2. ASSUME NEW t \in Table, CountTable(t)
      PROVE  ScanTypeOK'
  <2>1. \A s \in Server : CountsOf(server, t)[s] \in Nat
    BY SubsetsAreFinite DEF CountsOf
  <2> QED
    BY <1>2, <2>1 DEF CountTable
<1>3. CASE ReadServers
  <2>1. /\ DOMAIN listed' = DOMAIN registered \cup {Local}
        /\ \A s \in DOMAIN listed' : listed'[s] \in Entry
    BY <1>3 DEF ReadServers, Entries, Entry, Classify
  <2> QED
    BY <1>3, <2>1 DEF ReadServers
<1>4. CASE Fail
  BY <1>4 DEF Fail
<1>5. CASE Leave
  BY <1>5 DEF Leave, NoCounts, NoRows, NoEntries
<1>6. ASSUME NEW r \in Res, NEW s \in Server \cup {Gone}, DokployMoves(r, s)
      PROVE  ScanTypeOK'
  <2>1. kept' \in [Server -> SUBSET Res] /\ seen' \in [Server -> SUBSET Res]
    BY <1>6, FollowTypes DEF DokployMoves
  <2> QED
    BY <1>6, <2>1 DEF DokployMoves
<1>7. ASSUME NEW s \in Remote, NEW report \in Report, DokployRegisters(s, report)
      PROVE  ScanTypeOK'
  BY <1>7 DEF DokployRegisters
<1>8. ASSUME NEW s \in Remote, DokployRemoves(s)
      PROVE  ScanTypeOK'
  <2>1. kept' \in [Server -> SUBSET Res] /\ seen' \in [Server -> SUBSET Res]
    BY <1>8, FollowTypes DEF DokployRemoves
  <2> QED
    BY <1>8, <2>1 DEF DokployRemoves
<1>9. CASE UNCHANGED scanVars
  BY <1>9 DEF scanVars
<1> QED
  BY <1>1, <1>2, <1>3, <1>4, <1>5, <1>6, <1>7, <1>8, <1>9 DEF ScanNext

(* A set of rows within another one has no more of the counted ones.       *)
LEMMA CountedIsMonotone ==
    ASSUME NEW S \in SUBSET Res, NEW T \in SUBSET S
    PROVE  /\ Cardinality(T \cap Counted) <= Cardinality(S \cap Counted)
           /\ Cardinality(T \cap Counted) \in Nat
           /\ Cardinality(S \cap Counted) \in Nat
BY SubsetsAreFinite

LEMMA CountStep ==
    ASSUME ScanInv, NEW t \in Table, CountTable(t)
    PROVE  CountsFit'
<1> USE DEF ScanInv
<1>1. phase = "count" /\ t \in tables
      /\ tables' = tables \ {t} /\ kept' = kept /\ seen' = seen
      /\ counts' = [s \in Server |-> counts[s] + CountsOf(server, t)[s]]
  BY DEF CountTable, ofRows
<1> SUFFICES ASSUME NEW s \in Server
             PROVE  /\ Cardinality(kept[s] \cap Counted') <= counts'[s]
                    /\ counts'[s] <= Cardinality(seen[s] \cap Counted')
  BY <1>1 DEF CountsFit
<1> DEFINE here == RowsOf(server)[s]
<1>2. kept[s] \in SUBSET Res /\ seen[s] \in SUBSET Res /\ here \in SUBSET Res
  BY DEF ScanTypeOK, RowsOf
<1>3. kept[s] \subseteq here /\ here \subseteq seen[s]
  BY <1>1 DEF ScanFits
<1>4. counts'[s] = counts[s] + Cardinality(OfTable(here, t)) /\ counts[s] \in Nat
  <2>1. {r \in Res : TableOf[r] = t /\ server[r] = s} = OfTable(here, t)
    BY DEF RowsOf, OfTable
  <2>2. CountsOf(server, t)[s] = Cardinality(OfTable(here, t))
    BY <2>1 DEF CountsOf
  <2> QED
    BY <1>1, <2>2 DEF ScanTypeOK
<1>5. /\ Cardinality(OfTable(kept[s], t)) <= Cardinality(OfTable(here, t))
      /\ Cardinality(OfTable(here, t)) <= Cardinality(OfTable(seen[s], t))
      /\ Cardinality(OfTable(here, t)) \in Nat
  <2>1. /\ OfTable(kept[s], t) \in SUBSET OfTable(here, t)
        /\ OfTable(here, t) \in SUBSET OfTable(seen[s], t)
        /\ OfTable(here, t) \in SUBSET Res
        /\ OfTable(seen[s], t) \in SUBSET Res
    BY <1>2, <1>3 DEF OfTable
  <2> QED
    BY <2>1, SubsetsAreFinite
<1>6. ASSUME NEW S \in SUBSET Res
      PROVE  /\ S \cap Counted = OutOf(S, tables)
             /\ S \cap Counted' = OutOf(S, tables \ {t})
  BY <1>1 DEF Counted, OutOf
<1>7. ASSUME NEW S \in SUBSET Res
      PROVE  /\ Cardinality(S \cap Counted') =
                   Cardinality(S \cap Counted) + Cardinality(OfTable(S, t))
             /\ Cardinality(S \cap Counted) \in Nat
             /\ Cardinality(OfTable(S, t)) \in Nat
  <2>1. /\ Cardinality(OutOf(S, tables \ {t})) =
              Cardinality(OutOf(S, tables)) + Cardinality(OfTable(S, t))
        /\ Cardinality(OutOf(S, tables)) \in Nat
        /\ Cardinality(OfTable(S, t)) \in Nat
    BY <1>1, NextTableAdds, Zenon
  <2> QED
    BY <1>6, <2>1, Zenon
<1>8. /\ Cardinality(kept[s] \cap Counted) <= counts[s]
      /\ counts[s] <= Cardinality(seen[s] \cap Counted)
  BY <1>1 DEF CountsFit
<1>9. /\ Cardinality(kept[s] \cap Counted') =
            Cardinality(kept[s] \cap Counted) + Cardinality(OfTable(kept[s], t))
      /\ Cardinality(seen[s] \cap Counted') =
            Cardinality(seen[s] \cap Counted) + Cardinality(OfTable(seen[s], t))
      /\ Cardinality(kept[s] \cap Counted) \in Nat
      /\ Cardinality(seen[s] \cap Counted) \in Nat
      /\ Cardinality(OfTable(kept[s], t)) \in Nat
      /\ Cardinality(OfTable(seen[s], t)) \in Nat
  BY <1>2, <1>7
<1> HIDE DEF here
<1> QED
  BY <1>4, <1>5, <1>8, <1>9

(* The rows of two servers are apart, and stay so.                         *)
LEMMA ApartStep ==
    ASSUME ScanInv, [ScanNext]_scanVars
    PROVE  KeptApart'
<1> USE DEF ScanInv, KeptApart
<1>1. CASE Receive
  BY <1>1 DEF Receive, RowsOf
<1>2. ASSUME NEW srv, Follow(srv), phase' = phase
      PROVE  KeptApart'
  BY <1>2, FollowTypes
<1>3. ASSUME NEW r \in Res, NEW s \in Server \cup {Gone}, DokployMoves(r, s)
      PROVE  KeptApart'
  BY <1>2, <1>3 DEF DokployMoves
<1>4. ASSUME NEW s \in Remote, DokployRemoves(s)
      PROVE  KeptApart'
  BY <1>2, <1>4 DEF DokployRemoves
<1> QED
  BY <1>1, <1>3, <1>4
     DEF ScanNext, scanVars, ofRows, CountTable, ReadServers, Fail, Leave,
         DokployRegisters

LEMMA ScanStep ==
    ASSUME ScanInv, [ScanNext]_scanVars
    PROVE  ScanInv'
<1>1. ScanTypeOK' /\ KeptApart'
  BY ScanTypeStep, ApartStep DEF ScanInv
<1> SUFFICES NothingCountedYet' /\ ScanFits' /\ CountsFit' /\ CountsWithinBounds'
  BY <1>1 DEF ScanInv
<1> USE DEF ScanInv, NothingCountedYet, CountsWithinBounds
<1>2. CASE Receive
  <2>1. Counted' = {} /\ counts' = NoCounts
    BY <1>2, ScanAssumption DEF Receive, Counted
  <2>2. CountsFit'
    <3>1. \A S : Cardinality(S \cap Counted') = 0
      BY <2>1, FS_EmptySet
    <3> QED
      BY <2>1, <3>1 DEF CountsFit, NoCounts
  <2> QED
    BY <1>2, <2>2 DEF Receive, ScanFits, RowsOf
<1>3. ASSUME NEW t \in Table, CountTable(t)
      PROVE  NothingCountedYet' /\ ScanFits' /\ CountsFit' /\ CountsWithinBounds'
  <2>1. CountsFit'
    BY <1>3, CountStep
  <2> QED
    BY <1>3, <2>1 DEF CountTable, ofRows, ScanFits
<1>4. CASE ReadServers
  <2>1. phase = "count" /\ tables = {} /\ phase' = "done"
        /\ listed' = Entries(registered, counts) /\ kept' = kept /\ seen' = seen
    BY <1>4 DEF ReadServers, ofRows
  <2>2. SourceIsListed'
    <3> SUFFICES ASSUME NEW s \in Server, kept[s] # {}
                 PROVE  s \in DOMAIN registered \cup {Local}
      BY <2>1 DEF SourceIsListed, Entries
    <3>1. PICK r \in Res : server[r] = s
      BY <2>1 DEF ScanFits, RowsOf
    <3> QED
      BY <3>1, ScanAssumption DEF ScanTypeOK
  <2>3. BetweenKeptAndSeen'
    <3> SUFFICES ASSUME NEW s \in Server, s \in DOMAIN listed'
                 PROVE  /\ Cardinality(kept[s]) <= listed'[s].count
                        /\ listed'[s].count <= Cardinality(seen[s])
      BY <1>1, <2>1 DEF BetweenKeptAndSeen, ScanTypeOK
    <3>1. listed'[s].count = counts[s]
      BY <2>1 DEF Entries
    <3>2. kept[s] \cap Counted = kept[s] /\ seen[s] \cap Counted = seen[s]
      BY <2>1 DEF Counted, ScanTypeOK
    <3> QED
      BY <2>1, <3>1, <3>2 DEF CountsFit
  <2> QED
    BY <2>1, <2>2, <2>3 DEF ScanFits, CountsFit
<1>5. ASSUME NEW srv, Follow(srv), server' = srv,
             UNCHANGED <<phase, tables, counts, listed>>
      PROVE  NothingCountedYet' /\ ScanFits' /\ CountsFit' /\ CountsWithinBounds'
  <2>1. NothingCountedYet'
    BY <1>5
  <2>2. CASE phase = "count"
    <3>1. ScanFits' /\ CountsWithinBounds'
      BY <1>5, <2>2, FollowTypes DEF ScanFits
    <3>2. ASSUME NEW s \in Server
          PROVE  /\ Cardinality(kept'[s] \cap Counted) <= counts[s]
                 /\ counts[s] <= Cardinality(seen'[s] \cap Counted)
      <4>1. /\ Cardinality(kept'[s] \cap Counted) <= Cardinality(kept[s] \cap Counted)
            /\ Cardinality(kept'[s] \cap Counted) \in Nat
            /\ Cardinality(kept[s] \cap Counted) \in Nat
        <5>1. kept[s] \in SUBSET Res /\ kept'[s] \in SUBSET kept[s]
          BY <1>5, FollowTypes DEF ScanTypeOK
        <5> QED
          BY <5>1, CountedIsMonotone
      <4>2. /\ Cardinality(seen[s] \cap Counted) <= Cardinality(seen'[s] \cap Counted)
            /\ Cardinality(seen[s] \cap Counted) \in Nat
            /\ Cardinality(seen'[s] \cap Counted) \in Nat
        <5>1. seen'[s] \in SUBSET Res /\ seen[s] \in SUBSET seen'[s]
          BY <1>5, FollowTypes
        <5> QED
          BY <5>1, CountedIsMonotone
      <4>3. /\ counts[s] \in Nat
            /\ Cardinality(kept[s] \cap Counted) <= counts[s]
            /\ counts[s] <= Cardinality(seen[s] \cap Counted)
        BY <2>2 DEF CountsFit, ScanTypeOK
      <4> QED
        BY <4>1, <4>2, <4>3
    <3>3. Counted' = Counted
      BY <1>5 DEF Counted
    <3>4. CountsFit'
      BY <1>5, <3>2, <3>3 DEF CountsFit
    <3> QED
      BY <2>1, <3>1, <3>4
  <2>3. CASE phase # "count"
    <3>1. kept' = kept /\ seen' = seen
      BY <1>5, <2>3, FollowTypes
    <3> QED
      BY <1>5, <2>1, <2>3, <3>1
         DEF ScanFits, CountsFit, SourceIsListed, BetweenKeptAndSeen
  <2> QED
    BY <2>2, <2>3
<1>6. ASSUME NEW r \in Res, NEW s \in Server \cup {Gone}, DokployMoves(r, s)
      PROVE  NothingCountedYet' /\ ScanFits' /\ CountsFit' /\ CountsWithinBounds'
  BY <1>5, <1>6 DEF DokployMoves
<1>7. ASSUME NEW s \in Remote, DokployRemoves(s)
      PROVE  NothingCountedYet' /\ ScanFits' /\ CountsFit' /\ CountsWithinBounds'
  BY <1>5, <1>7 DEF DokployRemoves
<1>8. CASE Fail \/ Leave
  BY <1>8 DEF Fail, Leave, ScanFits, CountsFit
<1>9. ASSUME UNCHANGED <<server, phase, tables, counts, listed, kept, seen>>
      PROVE  NothingCountedYet' /\ ScanFits' /\ CountsFit' /\ CountsWithinBounds'
  BY <1>9 DEF ScanFits, CountsFit, Counted, SourceIsListed, BetweenKeptAndSeen
<1>10. ASSUME NEW s \in Remote, NEW report \in Report, DokployRegisters(s, report)
       PROVE  NothingCountedYet' /\ ScanFits' /\ CountsFit' /\ CountsWithinBounds'
  BY <1>9, <1>10 DEF DokployRegisters, ofRows
<1>11. CASE UNCHANGED scanVars
  BY <1>9, <1>11 DEF scanVars
<1> QED
  BY <1>2, <1>3, <1>4, <1>6, <1>7, <1>8, <1>10, <1>11 DEF ScanNext

-----------------------------------------------------------------------------
(* The sum of the sizes of sets of rows that are apart is the size of      *)
(* their union.                                                            *)
AllOf(F, S) == UNION {F[s] : s \in S}

LEMMA OneMoreSet ==
    ASSUME NEW D, NEW F \in [D -> SUBSET Res],
           \A x, y \in D : x # y => F[x] \cap F[y] = {},
           NEW S \in SUBSET D, NEW x \in S
    PROVE  Cardinality(AllOf(F, S)) =
              Cardinality(F[x]) + Cardinality(AllOf(F, S \ {x}))
<1> DEFINE A == F[x]
           B == AllOf(F, S \ {x})
<1>1. AllOf(F, S) = A \cup B /\ A \cap B = {}
  BY DEF AllOf
<1>2. A \in SUBSET Res /\ B \in SUBSET Res
  BY DEF AllOf
<1> HIDE DEF A, B
<1>3. IsFiniteSet(A) /\ IsFiniteSet(B) /\ Cardinality({}) = 0
      /\ Cardinality(A) \in Nat /\ Cardinality(B) \in Nat
  BY <1>2, SubsetsAreFinite, FS_EmptySet
<1>4. Cardinality(A \cup B) =
         Cardinality(A) + Cardinality(B) - Cardinality(A \cap B)
  BY <1>3, FS_Union
<1>5. Cardinality(A \cap B) = 0
  BY <1>1, <1>3, Zenon
<1>6. Cardinality(A \cup B) = Cardinality(A) + Cardinality(B)
  BY <1>3, <1>4, <1>5
<1> QED
  BY <1>1, <1>6 DEF A, B

Total(list, D) == MapThenSumSet(LAMBDA s : list[s].count, D)

LEMMA SumOfCounts ==
    ASSUME NEW D, IsFiniteSet(D), NEW list,
           NEW F \in [D -> SUBSET Res],
           \A x, y \in D : x # y => F[x] \cap F[y] = {},
           \A x \in D : list[x].count = Cardinality(F[x])
    PROVE  Total(list, D) = Cardinality(AllOf(F, D))
<1> DEFINE pick(S) == CHOOSE x \in S : TRUE
           next(h, S) == IF S = {} THEN 0
                         ELSE list[pick(S)].count + h[S \ {pick(S)}]
           Sums(h) == h = [S \in SUBSET D |-> next(h, S)]
           sum == CHOOSE h : Sums(h)
           sizes == [S \in SUBSET D |-> Cardinality(AllOf(F, S))]
<1>1. Total(list, D) = sum[D]
  BY DEF Total, MapThenSumSet, MapThenFoldSet
<1>2. ASSUME NEW S \in SUBSET D, S # {}
      PROVE  pick(S) \in S /\ S \ {pick(S)} \in SUBSET D
  BY <1>2
<1>3. ASSUME NEW S \in SUBSET D
      PROVE  sizes[S] = next(sizes, S)
  <2>1. CASE S = {}
    <3>1. AllOf(F, S) = {}
      BY <2>1 DEF AllOf
    <3> QED
      BY <2>1, <3>1, FS_EmptySet
  <2>2. CASE S # {}
    <3>1. pick(S) \in S /\ S \ {pick(S)} \in SUBSET D
      BY <1>2, <2>2
    <3> HIDE DEF pick
    <3>2. Cardinality(AllOf(F, S)) =
             Cardinality(F[pick(S)]) + Cardinality(AllOf(F, S \ {pick(S)}))
      BY <3>1, OneMoreSet
    <3> QED
      BY <2>2, <3>1, <3>2
  <2> QED
    BY <2>1, <2>2
<1>4. Sums(sizes)
  <2> HIDE DEF next
  <2>1. sizes = [S \in SUBSET D |-> sizes[S]]
    OBVIOUS
  <2> HIDE DEF sizes
  <2> QED
    BY <1>3, <2>1
<1>5. Sums(sum)
  <2> HIDE DEF Sums
  <2> QED
    BY <1>4
<1>6. ASSUME NEW S \in SUBSET D
      PROVE  sum[S] = next(sum, S)
  <2> HIDE DEF next, sum
  <2> QED
    BY <1>5
<1> HIDE DEF sum, sizes, Sums
<1>7. ASSUME NEW S \in SUBSET D
      PROVE  IsFiniteSet(S) /\ Cardinality(S) \in Nat
  BY FS_Subset, FS_CardinalityType
<1>8. \A S \in SUBSET D : sum[S] = sizes[S]
  <2> DEFINE bad == {S \in SUBSET D : sum[S] # sizes[S]}
             lengths == {Cardinality(S) : S \in bad}
  <2> SUFFICES ASSUME bad # {} PROVE FALSE
    OBVIOUS
  <2>1. PICK n \in lengths : \A m \in lengths : n <= m
    <3>1. lengths \in SUBSET Nat /\ lengths # {}
      BY <1>7
    <3> HIDE DEF lengths
    <3> QED
      BY <3>1, Least
  <2>2. PICK S \in bad : n = Cardinality(S)
    BY <2>1
  <2>3. CASE S = {}
    BY <1>3, <1>6, <2>2, <2>3
  <2>4. CASE S # {}
    <3> DEFINE T == S \ {pick(S)}
    <3>1. pick(S) \in S /\ T \in SUBSET D
      BY <1>2, <2>2, <2>4
    <3> HIDE DEF pick
    <3>2. Cardinality(T) = Cardinality(S) - 1 /\ Cardinality(S) \in Nat
      BY <1>7, <2>2, <3>1, FS_RemoveElement
    <3>3. T \notin bad
      <4>1. T \in bad => Cardinality(T) \in lengths
        OBVIOUS
      <4>2. ~(n <= Cardinality(T))
        BY <2>2, <3>2
      <4> HIDE DEF lengths, bad
      <4> QED
        BY <2>1, <4>1, <4>2
    <3>4. sum[T] = sizes[T]
      BY <3>1, <3>3
    <3> QED
      BY <1>3, <1>6, <2>2, <2>4, <3>4
  <2> QED
    BY <2>3, <2>4
<1>9. sum[D] = sizes[D]
  BY <1>8
<1> QED
  BY <1>1, <1>9 DEF sizes

(* The list of a quiet scan: the rows of its servers are all the rows, and *)
(* each count is exact.                                                    *)
LEMMA QuietScan ==
    ASSUME ScanInv, IsFiniteSet(DOMAIN listed)
    PROVE  QuietScanShowsAll
<1> SUFFICES ASSUME phase = "done", kept = seen
             PROVE  Total(listed, DOMAIN listed) =
                       Cardinality(UNION {seen[s] : s \in Server})
  BY DEF QuietScanShowsAll, Total
<1> DEFINE F == [s \in DOMAIN listed |-> kept[s]]
<1>1. DOMAIN listed \subseteq Server /\ kept \in [Server -> SUBSET Res]
      /\ \A s \in DOMAIN listed : listed[s].count \in Nat
  BY DEF ScanInv, ScanTypeOK, Entry
<1>2. /\ F \in [DOMAIN listed -> SUBSET Res]
      /\ \A s, q \in DOMAIN listed : s # q => F[s] \cap F[q] = {}
  BY <1>1 DEF ScanInv, KeptApart
<1>3. \A s \in DOMAIN listed : listed[s].count = Cardinality(F[s])
  <2> SUFFICES ASSUME NEW s \in DOMAIN listed
               PROVE  listed[s].count = Cardinality(kept[s])
    OBVIOUS
  <2>1. Cardinality(kept[s]) \in Nat
    BY <1>1, SubsetsAreFinite
  <2>2. Cardinality(kept[s]) <= listed[s].count
        /\ listed[s].count <= Cardinality(kept[s])
    BY DEF ScanInv, CountsWithinBounds, BetweenKeptAndSeen
  <2> QED
    BY <1>1, <2>1, <2>2
<1>4. AllOf(F, DOMAIN listed) = UNION {seen[s] : s \in Server}
  BY <1>1 DEF AllOf, ScanInv, CountsWithinBounds, SourceIsListed
<1> HIDE DEF F
<1>5. Total(listed, DOMAIN listed) = Cardinality(AllOf(F, DOMAIN listed))
  <2> DEFINE D == DOMAIN listed
  <2>1. IsFiniteSet(D) /\ F \in [D -> SUBSET Res]
        /\ (\A x, y \in D : x # y => F[x] \cap F[y] = {})
        /\ (\A x \in D : listed[x].count = Cardinality(F[x]))
    BY <1>2, <1>3
  <2> HIDE DEF D
  <2>2. Total(listed, D) = Cardinality(AllOf(F, D))
    BY <2>1, SumOfCounts, Zenon
  <2> QED
    BY <2>2 DEF D
<1> QED
  BY <1>4, <1>5, Zenon

ServersAreFinite == IsFiniteSet(DOMAIN registered) /\ IsFiniteSet(DOMAIN listed)

LEMMA ServersStayFinite ==
    ASSUME ServersAreFinite, [ScanNext]_scanVars
    PROVE  ServersAreFinite'
<1> USE DEF ServersAreFinite
<1>1. CASE ReadServers
  <2>1. DOMAIN listed' = DOMAIN registered \cup {Local} /\ registered' = registered
    BY <1>1 DEF ReadServers, Entries
  <2> QED
    BY <2>1, FS_AddElement
<1>2. CASE Leave
  <2>1. DOMAIN listed' = {} /\ registered' = registered
    BY <1>2 DEF Leave, NoEntries
  <2> QED
    BY <2>1, FS_EmptySet
<1>3. ASSUME NEW s \in Remote, NEW report \in Report, DokployRegisters(s, report)
      PROVE  ServersAreFinite'
  <2>1. DOMAIN registered' = DOMAIN registered \cup {s} /\ listed' = listed
    BY <1>3 DEF DokployRegisters
  <2> QED
    BY <2>1, FS_AddElement
<1>4. ASSUME NEW s \in Remote, DokployRemoves(s)
      PROVE  ServersAreFinite'
  <2>1. DOMAIN registered' = DOMAIN registered \ {s} /\ listed' = listed
    BY <1>4 DEF DokployRemoves
  <2> QED
    BY <2>1, FS_RemoveElement
<1> QED
  BY <1>1, <1>2, <1>3, <1>4
     DEF ScanNext, scanVars, Receive, CountTable, Fail, DokployMoves

-----------------------------------------------------------------------------
(* The history: no job twice, and what a page and a deletion make of it.   *)
Once(list) == \A i, j \in 1..Len(list) : list[i] = list[j] => i = j

LEMMA PageAtIs ==
    ASSUME HistoryTypeOK, NEW off \in Nat
    PROVE  /\ PageAt(off) \in Seq(Job)
           /\ Len(PageAt(off)) \in Nat
           /\ Len(PageAt(off)) <= PageSize
           /\ off < Len(history) => /\ off + Len(PageAt(off)) <= Len(history)
                                    /\ PageAt(off) # <<>>
           /\ off >= Len(history) => PageAt(off) = <<>>
           /\ Len(PageAt(off)) < PageSize /\ off < Len(history) =>
                 off + Len(PageAt(off)) = Len(history)
           /\ \A i \in 1..Len(PageAt(off)) :
                 off + i \in 1..Len(history) /\ PageAt(off)[i] = history[off + i]
<1> DEFINE n == Floor(IF Len(history) - off < PageSize THEN Len(history) - off
                      ELSE PageSize)
<1>1. history \in Seq(Job) /\ Len(history) \in Nat /\ PageSize \in Nat \ {0}
  BY HistoryAssumption DEF HistoryTypeOK
<1>2. n \in Nat /\ n <= PageSize
      /\ (off < Len(history) => off + n <= Len(history) /\ n # 0)
      /\ (off >= Len(history) => n = 0)
      /\ (n < PageSize /\ off < Len(history) => off + n = Len(history))
  BY <1>1 DEF Floor
<1>3. PageAt(off) = [i \in 1..n |-> history[off + i]]
  BY DEF PageAt
<1> HIDE DEF n
<1>4. \A i \in 1..n : off + i \in 1..Len(history) /\ history[off + i] \in Job
  BY <1>1, <1>2
<1>5. PageAt(off) \in Seq(Job) /\ Len(PageAt(off)) = n
  <2> DEFINE jobs == [i \in 1..n |-> history[off + i]]
  <2>1. jobs \in [1..n -> Job]
    BY <1>4
  <2> HIDE DEF jobs
  <2>2. jobs \in Seq(Job) /\ DOMAIN jobs = 1..n
    BY <1>2, <2>1
  <2>3. Len(jobs) = n
    BY <1>2, <2>2
  <2> QED
    BY <1>3, <2>2, <2>3 DEF jobs
<1>6. n = 0 <=> PageAt(off) = <<>>
  BY <1>2, <1>5
<1> QED
  BY <1>2, <1>3, <1>4, <1>5, <1>6

LEMMA WithoutIs ==
    ASSUME HistoryTypeOK, NEW j \in Job
    PROVE  /\ Without(j) \in Seq(Job)
           /\ Once(Without(j))
           /\ \A i \in 1..Len(Without(j)) : Without(j)[i] # j
           /\ (\E i \in 1..Len(history) : history[i] = j) =>
                 Len(Without(j)) = Len(history) - 1
<1>1. history \in Seq(Job) /\ Len(history) \in Nat
  BY DEF HistoryTypeOK
<1>2. CASE ~ \E i \in 1..Len(history) : history[i] = j
  BY <1>1, <1>2 DEF Without, HistoryTypeOK, Once
<1>3. CASE \E i \in 1..Len(history) : history[i] = j
  <2>1. PICK k \in 1..Len(history) :
             history[k] = j /\ Without(j) = RemoveAt(history, k)
    BY <1>3 DEF Without
  <2>2. /\ Without(j) \in Seq(Job)
        /\ Len(Without(j)) = Len(history) - 1
        /\ \A i \in 1..Len(Without(j)) :
              Without(j)[i] = history[IF i < k THEN i ELSE i + 1]
    <3> DEFINE A == SubSeq(history, 1, k - 1)
               B == SubSeq(history, k + 1, Len(history))
    <3>1. /\ A \in Seq(Job) /\ Len(A) = k - 1
          /\ \A i \in 1..k - 1 : A[i] = history[i]
      BY <1>1, <2>1
    <3>2. /\ B \in Seq(Job) /\ Len(B) = Len(history) - k
          /\ \A i \in 1..Len(history) - k : B[i] = history[k + i]
      BY <1>1, <2>1
    <3>3. Without(j) = A \o B
      BY <2>1 DEF RemoveAt
    <3> HIDE DEF A, B
    <3>4. /\ A \o B \in Seq(Job) /\ Len(A \o B) = Len(history) - 1
          /\ \A i \in 1..Len(A \o B) :
                (A \o B)[i] = IF i < k THEN A[i] ELSE B[i - k + 1]
      <4>1. /\ A \o B \in Seq(Job) /\ Len(A \o B) = Len(A) + Len(B)
            /\ \A i \in 1..Len(A) + Len(B) :
                  (A \o B)[i] = IF i <= Len(A) THEN A[i] ELSE B[i - Len(A)]
        BY <3>1, <3>2, ConcatProperties
      <4>2. /\ Len(A) + Len(B) = Len(history) - 1
            /\ \A i \in Int : i - Len(A) = i - k + 1 /\ (i <= Len(A) <=> i < k)
        BY <1>1, <2>1, <3>1, <3>2
      <4>3. \A i \in 1..Len(A \o B) : i \in Int /\ i \in 1..Len(A) + Len(B)
        BY <3>1, <3>2, <4>1
      <4> QED
        BY <4>1, <4>2, <4>3
    <3>5. ASSUME NEW i \in 1..Len(A \o B)
          PROVE  (A \o B)[i] = history[IF i < k THEN i ELSE i + 1]
      <4>1. CASE i < k
        BY <1>1, <2>1, <3>1, <3>4, <4>1
      <4>2. CASE ~(i < k)
        <5>1. i - k + 1 \in 1..Len(history) - k /\ k + (i - k + 1) = i + 1
          BY <1>1, <2>1, <3>4, <4>2
        <5> QED
          BY <3>2, <3>4, <4>2, <5>1
      <4> QED
        BY <4>1, <4>2
    <3> QED
      BY <3>3, <3>4, <3>5
  <2>3. Once(Without(j))
    BY <1>1, <2>2 DEF Once, HistoryTypeOK
  <2>4. \A i \in 1..Len(Without(j)) : Without(j)[i] # j
    BY <1>1, <2>1, <2>2 DEF HistoryTypeOK
  <2> QED
    BY <2>2, <2>3, <2>4
<1> QED
  BY <1>2, <1>3

LEMMA UpdatedJobIsFirst ==
    ASSUME HistoryTypeOK, NEW j \in Job
    PROVE  <<j>> \o Without(j) \in Seq(Job) /\ Once(<<j>> \o Without(j))
<1> DEFINE rest == Without(j)
<1>1. /\ rest \in Seq(Job) /\ Once(rest)
      /\ \A i \in 1..Len(rest) : rest[i] # j
  BY WithoutIs
<1> HIDE DEF rest
<1>2. /\ <<j>> \o rest \in Seq(Job)
      /\ Len(<<j>> \o rest) = Len(rest) + 1
      /\ (<<j>> \o rest)[1] = j
      /\ \A i \in 1..Len(<<j>> \o rest) :
            i # 1 => i - 1 \in 1..Len(rest) /\ (<<j>> \o rest)[i] = rest[i - 1]
  BY <1>1
<1>3. Once(<<j>> \o rest)
  BY <1>1, <1>2 DEF Once
<1> QED
  BY <1>2, <1>3 DEF rest

LEMMA HistoryTypeInit == HistoryInit => HistoryTypeOK
<1> SUFFICES ASSUME HistoryInit PROVE HistoryTypeOK
  OBVIOUS
<1>1. history \in Seq(Job) /\ Once(history)
  <2> DEFINE n == Cardinality(Job)
  <2>1. n \in Nat
    BY HistoryAssumption, FS_CardinalityType
  <2>2. history \in [1..n -> Job]
        /\ \A i, j \in 1..n : i # j => history[i] # history[j]
    BY DEF HistoryInit, SetToSeqs
  <2> HIDE DEF n
  <2> QED
    BY <2>1, <2>2 DEF Once
<1>2. pending \in [Slot -> Fetches \cup Deletions \cup {Absent}]
  BY DEF HistoryInit, Fetches
<1> QED
  BY <1>1, <1>2 DEF HistoryInit, HistoryTypeOK, Once

LEMMA FetchTypes ==
    ASSUME HistoryTypeOK, NEW s \in Slot, NEW off \in Nat, Fetch(s, off)
    PROVE  /\ pending' \in [Slot -> Fetches \cup Deletions \cup {Absent}]
           /\ offset' \in Nat
BY DEF Fetch, HistoryTypeOK, Fetches

LEMMA ListAnswers ==
    ASSUME HistoryTypeOK, NEW s \in Slot, List(s)
    PROVE  LET answer == [at |-> "listed", offset |-> pending[s].offset,
                          jobs |-> PageAt(pending[s].offset)]
           IN  answer \in Fetches /\ pending' = [pending EXCEPT ![s] = answer]
<1>1. pending[s].offset \in Nat
  BY DEF List, Fetches
<1>2. PageAt(pending[s].offset) \in Seq(Job)
  BY <1>1, PageAtIs
<1> QED
  BY <1>1, <1>2 DEF List, Fetches

LEMMA CountAnswers ==
    ASSUME HistoryTypeOK, NEW s \in Slot, Count(s)
    PROVE  LET answer == [at |-> "counted",
                          page |-> [jobs |-> pending[s].jobs,
                                    total |-> Len(history),
                                    offset |-> pending[s].offset]]
           IN  answer \in Fetches /\ pending' = [pending EXCEPT ![s] = answer]
<1>1. pending[s].offset \in Nat /\ pending[s].jobs \in Seq(Job)
  BY DEF Count, Fetches
<1>2. Len(history) \in Nat
  BY DEF HistoryTypeOK
<1> QED
  BY <1>1, <1>2 DEF Count, Fetches, Page

LEMMA DeleteAnswers ==
    ASSUME HistoryTypeOK, NEW s \in Slot, Delete(s)
    PROVE  LET j == pending[s].job
               deletable == \E i \in 1..Len(history) :
                               history[i] = j /\ i > Protected
               answer == [at |-> IF deletable THEN "deleted" ELSE "refused",
                          job |-> j]
           IN  j \in Job /\ answer \in Deletions
               /\ pending' = [pending EXCEPT ![s] = answer]
<1> DEFINE deletable == \E i \in 1..Len(history) :
                           history[i] = pending[s].job /\ i > Protected
           at == IF deletable THEN "deleted" ELSE "refused"
<1>1. pending' = [pending EXCEPT ![s].at = at]
  BY DEF Delete
<1>2. pending[s] = [at |-> "delete", job |-> pending[s].job] /\ pending[s].job \in Job
  BY DEF Delete, Deletions
<1>3. at \in {"deleted", "refused"}
  OBVIOUS
<1> HIDE DEF at
<1>4. [pending[s] EXCEPT !.at = at] = [at |-> at, job |-> pending[s].job]
  BY <1>2
<1>5. pending' = [pending EXCEPT ![s] = [at |-> at, job |-> pending[s].job]]
  BY <1>1, <1>4 DEF HistoryTypeOK
<1>6. [at |-> at, job |-> pending[s].job] \in Deletions
  BY <1>2, <1>3 DEF Deletions
<1> QED
  BY <1>2, <1>5, <1>6 DEF at

LEMMA HistoryTypeStep ==
    ASSUME HistoryTypeOK, [HistoryNext]_historyVars
    PROVE  HistoryTypeOK'
<1>0. PageSize \in Nat \ {0}
  BY HistoryAssumption
<1>1. ASSUME NEW s \in Slot, Reload(s)
      PROVE  HistoryTypeOK'
  <2>1. \E off \in Nat : Fetch(s, off)
    <3>1. offset \in Nat
      BY DEF HistoryTypeOK
    <3>2. displayed = "page" => page.offset \in Nat
      BY DEF HistoryTypeOK, Page
    <3>3. displayed = "page" =>
             Floor(page.offset - PageSize) \in Nat /\ page.offset + PageSize \in Nat
      BY <1>0, <3>2 DEF Floor
    <3> QED
      BY <1>1, <3>1, <3>3 DEF Reload
  <2>2. /\ pending' \in [Slot -> Fetches \cup Deletions \cup {Absent}]
        /\ offset' \in Nat
    BY <2>1, FetchTypes
  <2> QED
    BY <1>1, <2>2 DEF Reload, Busy, HistoryTypeOK
<1>2. ASSUME NEW s \in Slot, List(s)
      PROVE  HistoryTypeOK'
  <2>1. pending' \in [Slot -> Fetches \cup Deletions \cup {Absent}]
    BY <1>2, ListAnswers DEF HistoryTypeOK
  <2> QED
    BY <1>2, <2>1 DEF List, HistoryTypeOK
<1>3. ASSUME NEW s \in Slot, Count(s)
      PROVE  HistoryTypeOK'
  <2>1. pending' \in [Slot -> Fetches \cup Deletions \cup {Absent}]
    BY <1>3, CountAnswers DEF HistoryTypeOK
  <2> QED
    BY <1>3, <2>1 DEF Count, HistoryTypeOK
<1>4. ASSUME NEW s \in Slot, Render(s)
      PROVE  HistoryTypeOK'
  <2>1. pending[s].page \in Page
    BY <1>4 DEF Render, Fetches
  <2>2. page' \in Page /\ offset' \in Nat /\ page' # Absent
    BY <1>4, <2>1, HistoryAssumption DEF Render, Page
  <2>3. pending' \in [Slot -> Fetches \cup Deletions \cup {Absent}]
    BY <1>4 DEF Render, HistoryTypeOK
  <2> QED
    BY <1>4, <2>2, <2>3 DEF Render, HistoryTypeOK
<1>5. ASSUME NEW s \in Slot, FetchFails(s)
      PROVE  HistoryTypeOK'
  BY <1>5 DEF FetchFails, HistoryTypeOK
<1>6. ASSUME NEW s \in Slot, NEW j \in Job, ClickDelete(s, j)
      PROVE  HistoryTypeOK'
  <2>1. pending' \in [Slot -> Fetches \cup Deletions \cup {Absent}]
    BY <1>6 DEF ClickDelete, HistoryTypeOK, Deletions
  <2> QED
    BY <1>6, <2>1 DEF ClickDelete, Busy, HistoryTypeOK
<1>7. ASSUME NEW s \in Slot, Delete(s)
      PROVE  HistoryTypeOK'
  <2>1. pending[s].job \in Job
        /\ pending' \in [Slot -> Fetches \cup Deletions \cup {Absent}]
    BY <1>7, DeleteAnswers DEF HistoryTypeOK
  <2>2. history' \in {history, Without(pending[s].job)}
    BY <1>7 DEF Delete
  <2>3. history' \in Seq(Job) /\ Once(history')
    BY <2>1, <2>2, WithoutIs DEF HistoryTypeOK, Once
  <2> QED
    BY <1>7, <2>1, <2>3 DEF Delete, HistoryTypeOK, Once
<1>8. ASSUME NEW s \in Slot, AfterDelete(s)
      PROVE  HistoryTypeOK'
  <2>1. OffsetAfterDelete \in Nat
    BY <1>0 DEF OffsetAfterDelete, Floor, HistoryTypeOK
  <2>2. /\ pending' \in [Slot -> Fetches \cup Deletions \cup {Absent}]
        /\ offset' \in Nat
    BY <1>8, <2>1, FetchTypes DEF AfterDelete
  <2> QED
    BY <1>8, <2>2 DEF AfterDelete, HistoryTypeOK
<1>9. ASSUME NEW s \in Slot, DeleteFails(s)
      PROVE  HistoryTypeOK'
  BY <1>9 DEF DeleteFails, HistoryTypeOK
<1>10. ASSUME NEW j \in Job, OtherDeletes(j)
       PROVE  HistoryTypeOK'
  BY <1>10, WithoutIs DEF OtherDeletes, HistoryTypeOK, Once
<1>11. ASSUME NEW j \in Job, JobUpdated(j)
       PROVE  HistoryTypeOK'
  BY <1>11, UpdatedJobIsFirst DEF JobUpdated, HistoryTypeOK, Once
<1>12. CASE SwitchHistoryLanguage
  <2>1. page # Absent => page.offset \in Nat
    BY DEF HistoryTypeOK, Page
  <2> QED
    BY <1>12, <2>1 DEF SwitchHistoryLanguage, HistoryTypeOK
<1>13. CASE UNCHANGED historyVars
  BY <1>13 DEF historyVars, HistoryTypeOK
<1> QED
  BY <1>1, <1>2, <1>3, <1>4, <1>5, <1>6, <1>7, <1>8, <1>9, <1>10, <1>11, <1>12,
     <1>13 DEF HistoryNext, HistoryRequests

-----------------------------------------------------------------------------
(* Where the next request goes: with no fetch in flight it is the page     *)
(* that is displayed.                                                      *)
OffsetFollows ==
    (\A s \in Slot : pending[s] \notin Fetches) /\ displayed = "page" =>
       offset = page.offset

LEMMA OffsetStep ==
    ASSUME HistoryTypeOK, OffsetFollows, [HistoryNext]_historyVars
    PROVE  OffsetFollows'
<1> USE DEF OffsetFollows
<1>2. ASSUME NEW s \in Slot, NEW off \in Nat, Fetch(s, off)
      PROVE  OffsetFollows'
  <2>1. pending'[s] \in Fetches
    BY <1>2 DEF Fetch, Fetches, HistoryTypeOK
  <2> QED
    BY <2>1
<1>3. ASSUME NEW s \in Slot, Reload(s)
      PROVE  OffsetFollows'
  <2>1. \E off : Fetch(s, off)
    BY <1>3 DEF Reload
  <2>2. PICK off : Fetch(s, off)
    BY <2>1
  <2>3. HistoryTypeOK'
    BY <1>3, HistoryTypeStep DEF HistoryNext, HistoryRequests
  <2>4. off \in Nat
    BY <2>2, <2>3 DEF Fetch, HistoryTypeOK
  <2> QED
    BY <1>2, <2>2, <2>4
<1>4. ASSUME NEW s \in Slot, List(s) \/ Count(s)
      PROVE  OffsetFollows'
  <2>1. pending'[s] \in Fetches
    BY <1>4, ListAnswers, CountAnswers DEF HistoryTypeOK
  <2> QED
    BY <2>1
<1>5. ASSUME NEW s \in Slot, Render(s)
      PROVE  OffsetFollows'
  BY <1>5 DEF Render
<1>6. ASSUME NEW s \in Slot, FetchFails(s)
      PROVE  OffsetFollows'
  BY <1>6 DEF FetchFails
<1>7. ASSUME NEW s \in Slot, pending[s] \notin Fetches,
             \A q \in Slot : q # s => pending'[q] = pending[q],
             UNCHANGED <<offset, page, displayed>>
      PROVE  OffsetFollows'
  BY <1>7
<1>8. ASSUME NEW s \in Slot, NEW j \in Job, ClickDelete(s, j)
      PROVE  OffsetFollows'
  <2>1. pending[s] \notin Fetches
    BY <1>8, HistoryAssumption DEF ClickDelete
  <2> QED
    BY <1>7, <1>8, <2>1 DEF ClickDelete, HistoryTypeOK
<1>9. ASSUME NEW s \in Slot, Delete(s)
      PROVE  OffsetFollows'
  <2>1. pending[s] \notin Fetches
    BY <1>9 DEF Delete, Fetches
  <2> QED
    BY <1>7, <1>9, <2>1 DEF Delete, HistoryTypeOK
<1>10. ASSUME NEW s \in Slot, AfterDelete(s)
       PROVE  OffsetFollows'
  <2>1. Fetch(s, OffsetAfterDelete) /\ OffsetAfterDelete \in Nat
    BY <1>10, HistoryAssumption DEF AfterDelete, OffsetAfterDelete, Floor, HistoryTypeOK
  <2> QED
    BY <1>2, <2>1
<1>11. ASSUME NEW s \in Slot, DeleteFails(s)
       PROVE  OffsetFollows'
  <2>1. pending[s] \notin Fetches
    BY <1>11 DEF DeleteFails, Deletions, Fetches
  <2> QED
    BY <1>7, <1>11, <2>1 DEF DeleteFails, HistoryTypeOK
<1>12. ASSUME NEW j \in Job, OtherDeletes(j) \/ JobUpdated(j)
       PROVE  OffsetFollows'
  BY <1>12 DEF OtherDeletes, JobUpdated
<1>13. CASE SwitchHistoryLanguage
  BY <1>13, HistoryAssumption DEF SwitchHistoryLanguage, HistoryTypeOK
<1>14. CASE UNCHANGED historyVars
  BY <1>14 DEF historyVars
<1> QED
  BY <1>3, <1>4, <1>5, <1>6, <1>8, <1>9, <1>10, <1>11, <1>12, <1>13, <1>14
     DEF HistoryNext, HistoryRequests

-----------------------------------------------------------------------------
(* What an operator who waits for each answer, alone, sees.  One slot at   *)
(* most is in use; the offset points into the history, or at its start; a  *)
(* fetch carries what the store lists there; a page is up to date when no  *)
(* fetch is in flight and nothing was just deleted; and a deleted job was  *)
(* on the page, so that the page before is shown when it was alone there.  *)
(* All of it is lost when a language switch brings a replaced page back:   *)
(* one that is out of date then, and perhaps beyond the end.               *)
InHistory == offset = 0 \/ offset < Len(history)

Fresh(p) ==
    p.jobs = PageAt(offset) /\ p.total = Len(history) /\ p.offset = offset

FetchFits(x) ==
    /\ InHistory
    /\ x.at = "fetch" => x.offset = offset
    /\ x.at = "listed" => x.offset = offset /\ x.jobs = PageAt(offset)
    /\ x.at = "counted" => Fresh(x.page)

Rests(x) == x = Absent \/ (x \in Deletions /\ x.at # "deleted")

PageFits == InHistory /\ (displayed = "page" => Fresh(page))

DeletionFits(x) ==
    /\ displayed = "page" /\ page.jobs # <<>>
    /\ x.at = "deleted" => offset + Len(page.jobs) <= Len(history) + 1

InStep(x) ==
    /\ x \in Fetches => FetchFits(x)
    /\ Rests(x) => PageFits
    /\ x \in Deletions => DeletionFits(x)

OneAtATime ==
    ~disturbed /\ ~restored =>
       \E s \in Slot :
          (\A q \in Slot : q # s => pending[q] = Absent) /\ InStep(pending[s])

HistoryInv ==
    /\ HistoryTypeOK
    /\ OffsetFollows
    /\ OneAtATime
    /\ EmptyWhenUndisturbed

LEMMA Disjoint ==
    /\ Fetches \cap Deletions = {}
    /\ Absent \notin Fetches \cup Deletions
BY HistoryAssumption DEF Fetches, Deletions

LEMMA HistoryInitEstablishes == HistoryInit => HistoryInv
<1> SUFFICES ASSUME HistoryInit PROVE HistoryInv
  OBVIOUS
<1>1. HistoryTypeOK
  BY HistoryTypeInit
<1>2. PICK s \in Slot : pending = [r \in Slot |->
         IF r = s THEN [at |-> "fetch", offset |-> 0] ELSE Absent]
  BY DEF HistoryInit
<1>3. pending[s] = [at |-> "fetch", offset |-> 0] /\ pending[s] \in Fetches
  BY <1>2 DEF Fetches
<1>4. InStep(pending[s])
  BY <1>3, Disjoint DEF HistoryInit, InStep, FetchFits, InHistory, Rests
<1> QED
  BY <1>1, <1>2, <1>4 DEF HistoryInit, HistoryInv, OffsetFollows, OneAtATime,
     EmptyWhenUndisturbed, EmptyMeansNoJobs, ShowsEmpty

(* One step of the slot that is in use leaves the others at rest.          *)
LEMMA OtherSlotsRest ==
    ASSUME HistoryTypeOK, OneAtATime, ~disturbed, ~restored, NEW s \in Slot,
           pending[s] # Absent \/ ~Busy
    PROVE  (\A q \in Slot : q # s => pending[q] = Absent) /\ InStep(pending[s])
<1>1. PICK q \in Slot : (\A r \in Slot : r # q => pending[r] = Absent)
                        /\ InStep(pending[q])
  BY DEF OneAtATime
<1>2. CASE s = q
  BY <1>1, <1>2
<1>3. CASE s # q
  <2>1. ~Busy
    BY <1>1, <1>3
  <2>2. pending[q] = Absent /\ pending[s] = Absent
    BY <2>1 DEF Busy
  <2> QED
    BY <1>1, <2>1, <2>2 DEF Busy
<1> QED
  BY <1>2, <1>3

(* A request to the page at off, when nothing else is in flight.           *)
LEMMA FetchInStep ==
    ASSUME HistoryTypeOK, NEW s \in Slot, NEW off \in Nat, Fetch(s, off),
           history' = history, off = 0 \/ off < Len(history)
    PROVE  InStep(pending[s])'
<1>1. pending'[s] = [at |-> "fetch", offset |-> off] /\ offset' = off
  BY DEF Fetch, HistoryTypeOK
<1>2. pending'[s] \in Fetches
  BY <1>1 DEF Fetches
<1> QED
  BY <1>1, <1>2, Disjoint DEF InStep, FetchFits, InHistory, Rests

(* A page that is up to date and empty is that of an empty history.        *)
LEMMA EmptyPageIsLast ==
    ASSUME HistoryTypeOK, NEW p, InHistory, Fresh(p), p.jobs = <<>>
    PROVE  p.total = 0
<1>1. offset \in Nat /\ Len(history) \in Nat
  BY DEF HistoryTypeOK
<1>2. PageAt(offset) = <<>> /\ p.total = Len(history)
  BY DEF Fresh
<1>3. ~(offset < Len(history))
  BY <1>1, <1>2, PageAtIs
<1> QED
  BY <1>1, <1>2, <1>3 DEF InHistory

LEMMA AloneStep ==
    ASSUME HistoryInv, [HistoryNext]_historyVars, ~disturbed', ~restored'
    PROVE  /\ EmptyMeansNoJobs'
           /\ \E s \in Slot :
                 (\A q \in Slot : q # s => pending'[q] = Absent) /\ InStep(pending[s])'
<1> USE DEF HistoryInv
<1>1. HistoryTypeOK' /\ PageSize \in Nat \ {0} /\ ~disturbed /\ ~restored
  <2>1. HistoryTypeOK' /\ PageSize \in Nat \ {0}
    BY HistoryTypeStep, HistoryAssumption
  <2>2. ~disturbed /\ ~restored
    <3>0. disturbed \in BOOLEAN /\ restored \in BOOLEAN
      BY DEF HistoryTypeOK
    <3>1. CASE HistoryRequests
      <4>1. restored' = restored
        BY <3>1 DEF HistoryRequests, Reload, List, Count, Render, FetchFails,
           ClickDelete, Delete, AfterDelete, DeleteFails, OtherDeletes, JobUpdated
      <4>2. ~disturbed
        BY <3>0, <3>1 DEF HistoryRequests, Reload, List, Count, Render, FetchFails,
           ClickDelete, Delete, AfterDelete, DeleteFails, OtherDeletes, JobUpdated
      <4> QED
        BY <4>1, <4>2
    <3>2. CASE SwitchHistoryLanguage
      <4>1. disturbed' = disturbed
            /\ (restored' = restored \/ (restored => restored'))
        BY <3>2 DEF SwitchHistoryLanguage
      <4> QED
        BY <4>1
    <3>3. CASE UNCHANGED historyVars
      BY <3>3 DEF historyVars
    <3> QED
      BY <3>1, <3>2, <3>3 DEF HistoryNext
  <2> QED
    BY <2>1, <2>2
<1>2. EmptyMeansNoJobs
  BY <1>1 DEF EmptyWhenUndisturbed
<1> DEFINE Others(s) == \A q \in Slot : q # s => pending'[q] = pending[q]
           Goal == /\ EmptyMeansNoJobs'
                   /\ \E s \in Slot :
                         (\A q \in Slot : q # s => pending'[q] = Absent)
                         /\ InStep(pending[s])'
<1>3. ASSUME NEW s \in Slot, Others(s), pending[s] # Absent \/ ~Busy,
             EmptyMeansNoJobs', InStep(pending[s])'
      PROVE  Goal
  BY <1>1, <1>3, OtherSlotsRest
<1>4. ASSUME NEW s \in Slot, pending[s] # Absent \/ ~Busy
      PROVE  InStep(pending[s])
  BY <1>1, <1>4, OtherSlotsRest
<1>5. ASSUME UNCHANGED <<page, displayed>>
      PROVE  EmptyMeansNoJobs'
  BY <1>2, <1>5 DEF EmptyMeansNoJobs, ShowsEmpty
<1>6. ASSUME NEW s \in Slot, NEW off, Fetch(s, off)
      PROVE  Others(s)
  BY <1>6 DEF Fetch, HistoryTypeOK
<1>7. ASSUME NEW s \in Slot, Reload(s)
      PROVE  Goal
  <2>1. ~Busy /\ pending[s] = Absent /\ history' = history
        /\ UNCHANGED <<page, displayed>>
    BY <1>7 DEF Reload
  <2>2. PageFits /\ offset \in Nat /\ Len(history) \in Nat
    BY <1>4, <2>1 DEF InStep, Rests, HistoryTypeOK
  <2>3. displayed = "page" => page.offset = offset /\ page.total = Len(history)
                              /\ page.jobs = PageAt(offset)
    BY <2>2 DEF PageFits, Fresh
  <2>4. \E off \in Nat : Fetch(s, off) /\ (off = 0 \/ off < Len(history))
    <3>1. CASE Fetch(s, offset) \/ Fetch(s, 0)
      BY <2>2, <3>1 DEF PageFits, InHistory
    <3>2. CASE displayed = "page" /\ page.offset > 0
               /\ Fetch(s, Floor(page.offset - PageSize))
      <4>1. Floor(offset - PageSize) \in Nat
            /\ (Floor(offset - PageSize) = 0 \/ Floor(offset - PageSize) < Len(history))
        BY <1>1, <2>2 DEF PageFits, InHistory, Floor
      <4> QED
        BY <2>3, <3>2, <4>1
    <3>3. CASE displayed = "page" /\ page.offset + Len(page.jobs) < page.total
               /\ Fetch(s, page.offset + PageSize)
      <4>1. offset + Len(PageAt(offset)) < Len(history)
        BY <2>3, <3>3
      <4>2. offset < Len(history) /\ Len(PageAt(offset)) = PageSize
        <5>1. HistoryTypeOK /\ offset \in Nat /\ PageSize \in Nat
          BY <1>1, <2>2
        <5>2. /\ Len(PageAt(offset)) \in Nat /\ Len(PageAt(offset)) <= PageSize
              /\ Len(PageAt(offset)) < PageSize /\ offset < Len(history) =>
                    offset + Len(PageAt(offset)) = Len(history)
          BY <5>1, PageAtIs
        <5> QED
          BY <2>2, <4>1, <5>1, <5>2
      <4> QED
        BY <1>1, <2>2, <2>3, <3>3, <4>1, <4>2
    <3> QED
      BY <1>7, <3>1, <3>2, <3>3 DEF Reload
  <2>5. InStep(pending[s])' /\ Others(s)
    BY <1>6, <2>1, <2>4, FetchInStep
  <2> QED
    BY <1>3, <1>5, <2>1, <2>5
<1>8. ASSUME NEW s \in Slot, List(s)
      PROVE  Goal
  <2> DEFINE answer == [at |-> "listed", offset |-> pending[s].offset,
                        jobs |-> PageAt(pending[s].offset)]
  <2>1. pending'[s] = answer /\ answer \in Fetches /\ Others(s)
        /\ UNCHANGED <<history, offset, page, displayed>>
        /\ pending[s] \in Fetches /\ pending[s].at = "fetch"
    BY <1>8, ListAnswers DEF HistoryTypeOK, List
  <2>2. FetchFits(pending[s]) /\ pending[s] # Absent
    BY <1>4, <2>1, Disjoint DEF InStep
  <2>3. FetchFits(answer) /\ FetchFits(pending[s])'
    BY <2>1, <2>2 DEF FetchFits, InHistory, PageAt
  <2>4. InStep(pending[s])'
    BY <2>1, <2>3, Disjoint DEF InStep, Rests
  <2> QED
    BY <1>3, <1>5, <2>1, <2>2, <2>4
<1>9. ASSUME NEW s \in Slot, Count(s)
      PROVE  Goal
  <2> DEFINE answer == [at |-> "counted",
                        page |-> [jobs |-> pending[s].jobs,
                                  total |-> Len(history),
                                  offset |-> pending[s].offset]]
  <2>1. pending'[s] = answer /\ answer \in Fetches /\ Others(s)
        /\ UNCHANGED <<history, offset, page, displayed>>
        /\ pending[s] \in Fetches /\ pending[s].at = "listed"
    BY <1>9, CountAnswers DEF HistoryTypeOK, Count
  <2>2. FetchFits(pending[s]) /\ pending[s] # Absent
    BY <1>4, <2>1, Disjoint DEF InStep
  <2>3. FetchFits(answer) /\ FetchFits(pending[s])'
    BY <2>1, <2>2 DEF FetchFits, InHistory, PageAt, Fresh
  <2>4. InStep(pending[s])'
    BY <2>1, <2>3, Disjoint DEF InStep, Rests
  <2> QED
    BY <1>3, <1>5, <2>1, <2>2, <2>4
<1>10. ASSUME NEW s \in Slot, Render(s)
       PROVE  Goal
  <2>1. pending'[s] = Absent /\ Others(s) /\ page' = pending[s].page
        /\ offset' = page'.offset /\ history' = history
        /\ pending[s] \in Fetches /\ pending[s].at = "counted"
    BY <1>10 DEF HistoryTypeOK, Render
  <2>2. InHistory /\ Fresh(page') /\ pending[s] # Absent
    BY <1>4, <2>1, Disjoint DEF InStep, FetchFits
  <2>3. offset' = offset
    BY <2>1, <2>2 DEF Fresh
  <2>4. InHistory' /\ Fresh(page)'
    BY <2>1, <2>2, <2>3 DEF InHistory, Fresh, PageAt
  <2>5. InStep(pending[s])'
    BY <2>1, <2>4, Disjoint DEF InStep, Rests, PageFits
  <2>6. EmptyMeansNoJobs'
    <3> SUFFICES ASSUME page'.jobs = <<>>
                 PROVE  page'.total = 0
      BY DEF EmptyMeansNoJobs, ShowsEmpty
    <3> QED
      BY <2>2, EmptyPageIsLast
  <2> QED
    BY <1>3, <2>1, <2>2, <2>5, <2>6
<1>11. ASSUME NEW s \in Slot, FetchFails(s)
       PROVE  Goal
  <2>1. pending'[s] = Absent /\ Others(s) /\ displayed' = "error"
        /\ UNCHANGED <<history, offset, page>> /\ pending[s] \in Fetches
    BY <1>11 DEF HistoryTypeOK, FetchFails
  <2>2. InHistory /\ pending[s] # Absent
    BY <1>4, <2>1, Disjoint DEF InStep, FetchFits
  <2>3. InStep(pending[s])' /\ EmptyMeansNoJobs'
    BY <2>1, <2>2, Disjoint DEF InStep, Rests, PageFits, InHistory,
       EmptyMeansNoJobs, ShowsEmpty
  <2> QED
    BY <1>3, <2>1, <2>2, <2>3
<1>12. ASSUME NEW s \in Slot, NEW j \in Job, ClickDelete(s, j)
       PROVE  Goal
  <2>1. ~Busy /\ pending[s] = Absent /\ Others(s)
        /\ pending'[s] = [at |-> "delete", job |-> j]
        /\ UNCHANGED <<history, offset, page, displayed>>
        /\ displayed = "page" /\ j \in Offered(page)
    BY <1>12 DEF ClickDelete, HistoryTypeOK
  <2>2. PageFits /\ pending'[s] \in Deletions
    BY <1>4, <2>1 DEF InStep, Rests, Deletions
  <2>3. page.jobs # <<>>
    BY <2>1 DEF Offered
  <2>4. PageFits' /\ DeletionFits(pending[s])'
    BY <2>1, <2>2, <2>3 DEF PageFits, DeletionFits, InHistory, Fresh, PageAt
  <2>5. InStep(pending[s])'
    BY <2>2, <2>4, Disjoint DEF InStep
  <2> QED
    BY <1>3, <1>5, <2>1, <2>5
<1>13. ASSUME NEW s \in Slot, Delete(s)
       PROVE  Goal
  <2> DEFINE j == pending[s].job
             deletable == \E i \in 1..Len(history) : history[i] = j /\ i > Protected
             answer == [at |-> IF deletable THEN "deleted" ELSE "refused", job |-> j]
  <2>1. pending'[s] = answer /\ answer \in Deletions /\ Others(s) /\ j \in Job
        /\ UNCHANGED <<offset, page, displayed>>
        /\ pending[s] \in Deletions /\ pending[s].at = "delete"
        /\ history' = IF deletable THEN Without(j) ELSE history
    BY <1>13, DeleteAnswers DEF HistoryTypeOK, Delete
  <2>2. PageFits /\ DeletionFits(pending[s]) /\ pending[s] # Absent
    BY <1>4, <2>1, Disjoint DEF InStep, Rests
  <2>3. CASE deletable
    <3>1. Len(history') = Len(history) - 1
      BY <2>1, <2>3, WithoutIs
    <3>2. offset + Len(page.jobs) <= Len(history)
      BY <2>2, PageAtIs DEF PageFits, DeletionFits, Fresh, HistoryTypeOK
    <3>3. DeletionFits(pending[s])'
      BY <2>1, <2>2, <3>1, <3>2 DEF DeletionFits, HistoryTypeOK
    <3>4. pending'[s].at = "deleted" /\ pending'[s] \in Deletions
      BY <2>1, <2>3
    <3>5. InStep(pending[s])'
      BY <3>3, <3>4, Disjoint DEF InStep, Rests
    <3> QED
      BY <1>3, <1>5, <2>1, <2>2, <3>5
  <2>4. CASE ~deletable
    <3>1. history' = history /\ pending'[s].at = "refused" /\ pending'[s] \in Deletions
      BY <2>1, <2>4
    <3>2. PageFits' /\ DeletionFits(pending[s])'
      BY <2>1, <2>2, <3>1 DEF PageFits, DeletionFits, InHistory, Fresh, PageAt
    <3>3. InStep(pending[s])'
      BY <3>1, <3>2, Disjoint DEF InStep
    <3> QED
      BY <1>3, <1>5, <2>1, <2>2, <3>3
  <2> QED
    BY <2>3, <2>4
<1>14. ASSUME NEW s \in Slot, AfterDelete(s)
       PROVE  Goal
  <2>1. Fetch(s, OffsetAfterDelete) /\ UNCHANGED <<history, page, displayed>>
        /\ pending[s] \in Deletions /\ pending[s].at = "deleted"
    BY <1>14 DEF AfterDelete
  <2>2. DeletionFits(pending[s]) /\ pending[s] # Absent
    BY <1>4, <2>1, Disjoint DEF InStep
  <2>3. /\ page \in Page /\ page # Absent /\ page.jobs # <<>>
        /\ offset + Len(page.jobs) <= Len(history) + 1
        /\ offset \in Nat /\ Len(history) \in Nat
    BY <2>1, <2>2, HistoryAssumption DEF DeletionFits, HistoryTypeOK
  <2>4. Len(page.jobs) \in Nat \ {0}
    BY <2>3 DEF Page
  <2>5. /\ OffsetAfterDelete \in Nat
        /\ OffsetAfterDelete = 0 \/ OffsetAfterDelete < Len(history)
    <3>1. CASE Len(page.jobs) = 1
      <4>1. OffsetAfterDelete = Floor(offset - PageSize)
        BY <2>3, <3>1 DEF OffsetAfterDelete
      <4>2. offset <= Len(history)
        BY <2>3, <3>1
      <4>3. /\ Floor(offset - PageSize) \in Nat
            /\ Floor(offset - PageSize) = 0 \/ Floor(offset - PageSize) < Len(history)
        BY <1>1, <2>3, <4>2 DEF Floor
      <4> QED
        BY <4>1, <4>3, Zenon
    <3>2. CASE Len(page.jobs) # 1
      <4>1. OffsetAfterDelete = offset
        BY <3>2 DEF OffsetAfterDelete
      <4>2. \A m \in Nat \ {0} :
               m # 1 /\ offset + m <= Len(history) + 1 => offset < Len(history)
        BY <2>3
      <4>3. offset < Len(history)
        BY <2>3, <2>4, <3>2, <4>2, Zenon
      <4> QED
        BY <2>3, <4>1, <4>3, Zenon
    <3> QED
      BY <3>1, <3>2
  <2>6. InStep(pending[s])' /\ Others(s)
    BY <1>6, <2>1, <2>5, FetchInStep
  <2> QED
    BY <1>3, <1>5, <2>1, <2>2, <2>6
<1>15. ASSUME NEW s \in Slot, DeleteFails(s)
       PROVE  Goal
  <2>1. pending'[s] = Absent /\ Others(s)
        /\ UNCHANGED <<history, offset, page, displayed>>
        /\ pending[s] \in Deletions /\ pending[s].at # "deleted"
    BY <1>1, <1>15 DEF DeleteFails, HistoryTypeOK
  <2>2. PageFits /\ pending[s] # Absent
    BY <1>4, <2>1, Disjoint DEF InStep, Rests
  <2>3. PageFits'
    BY <2>1, <2>2 DEF PageFits, InHistory, Fresh, PageAt
  <2>4. InStep(pending[s])'
    BY <2>1, <2>3, Disjoint DEF InStep
  <2> QED
    BY <1>3, <1>5, <2>1, <2>2, <2>4
<1>16. ASSUME UNCHANGED historyVars
       PROVE  Goal
  <2>1. UNCHANGED <<history, pending, offset, page, displayed>>
    BY <1>16 DEF historyVars
  <2>2. PICK s \in Slot : (\A q \in Slot : q # s => pending[q] = Absent)
                         /\ InStep(pending[s])
    BY <1>1 DEF OneAtATime
  <2>3. PageAt(offset)' = PageAt(offset)
    BY <2>1 DEF PageAt
  <2>4. InStep(pending[s])'
    BY <2>1, <2>2, <2>3 DEF InStep, FetchFits, Rests, PageFits, DeletionFits,
       InHistory, Fresh
  <2> QED
    BY <1>5, <2>1, <2>2, <2>4
<1>17. ASSUME NEW j \in Job, OtherDeletes(j) \/ JobUpdated(j)
       PROVE  FALSE
  BY <1>17 DEF OtherDeletes, JobUpdated
<1> HIDE DEF Goal
<1>18. ASSUME NEW s \in Slot,
              \/ Reload(s) \/ List(s) \/ Count(s) \/ Render(s) \/ FetchFails(s)
              \/ \E j \in Job : ClickDelete(s, j)
              \/ Delete(s) \/ AfterDelete(s) \/ DeleteFails(s)
       PROVE  Goal
  <2> HIDE DEF Goal
  <2> QED
    BY <1>7, <1>8, <1>9, <1>10, <1>11, <1>12, <1>13, <1>14, <1>15, <1>18, Zenon
<1> HIDE DEF Goal
<1>19. ASSUME SwitchHistoryLanguage
       PROVE  Goal
  <2>1. /\ UNCHANGED <<history, pending, page, disturbed>>
        /\ \/ UNCHANGED <<offset, displayed, restored>>
           \/ /\ offset' = page.offset /\ displayed' = "page"
              /\ ~(restored \/ displayed # "page" \/ offset # page.offset)
    BY <1>19, Zenon DEF SwitchHistoryLanguage
  <2>2. restored \in BOOLEAN /\ restored' \in BOOLEAN
    BY <1>1 DEF HistoryTypeOK
  <2>3. UNCHANGED historyVars
    BY <1>1, <2>1, <2>2 DEF historyVars
  <2> QED
    BY <1>16, <2>3
<1>20. Goal
  BY <1>16, <1>17, <1>18, <1>19 DEF HistoryNext, HistoryRequests
<1> QED
  BY <1>20 DEF Goal

(* Every step of the page, the server and another client keeps all of it.  *)
LEMMA HistoryStep ==
    ASSUME HistoryInv, [HistoryNext]_historyVars
    PROVE  HistoryInv'
<1>1. HistoryTypeOK' /\ OffsetFollows'
  BY HistoryTypeStep, OffsetStep DEF HistoryInv
<1>2. ASSUME ~disturbed', ~restored'
      PROVE  /\ EmptyMeansNoJobs'
             /\ \E s \in Slot :
                   (\A q \in Slot : q # s => pending'[q] = Absent) /\ InStep(pending[s])'
  BY <1>2, AloneStep
<1>3. EmptyWhenUndisturbed'
  BY <1>2 DEF EmptyWhenUndisturbed
<1>4. OneAtATime'
  BY <1>2 DEF OneAtATime
<1> QED
  BY <1>1, <1>3, <1>4 DEF HistoryInv

(* The delete buttons of a page that is up to date.                        *)
LEMMA OfferedAreUnprotected ==
    ASSUME HistoryTypeOK
    PROVE  OfferedIsDeletable
<1> SUFFICES ASSUME displayed = "page", page.jobs = PageAt(page.offset),
                    NEW i \in 1..Len(page.jobs)
             PROVE  page.jobs[i] \in Offered(page) <=>
                       \E k \in 1..Len(history) :
                          history[k] = page.jobs[i] /\ k > Protected
  BY DEF OfferedIsDeletable
<1> DEFINE off == page.offset
<1>1. off \in Nat /\ Len(history) \in Nat /\ Protected \in Nat
      /\ Len(page.jobs) \in Nat
  BY HistoryAssumption DEF HistoryTypeOK, Page
<1>2. \A j \in 1..Len(page.jobs) :
         off + j \in 1..Len(history) /\ page.jobs[j] = history[off + j]
  BY <1>1, PageAtIs
<1>3. Once(history)
  BY DEF HistoryTypeOK, Once
<1>4. \A k \in 1..Len(history) : history[k] = page.jobs[i] <=> k = off + i
  BY <1>2, <1>3 DEF Once
<1> HIDE DEF off
<1>5. ASSUME NEW j \in 1..Len(page.jobs)
      PROVE  page.jobs[j] = page.jobs[i] <=> j = i
  <2>1. off + j \in 1..Len(history) /\ page.jobs[j] = history[off + j]
    BY <1>2
  <2>2. page.jobs[j] = page.jobs[i] <=> off + j = off + i
    BY <1>4, <2>1
  <2>3. j \in Int /\ i \in Int
    OBVIOUS
  <2> QED
    BY <1>1, <2>2, <2>3
<1>6. page.jobs[i] \in Offered(page) <=> off + i - 1 >= Protected
  BY <1>5 DEF Offered, off
<1>7. (\E k \in 1..Len(history) : history[k] = page.jobs[i] /\ k > Protected)
      <=> off + i > Protected
  BY <1>2, <1>4
<1> QED
  BY <1>1, <1>6, <1>7

-----------------------------------------------------------------------------
(* The text of a moment.  As many digits are written as are needed.        *)
LEMMA WrittenIs ==
    ASSUME NEW t \in Moment
    PROVE  /\ Written(t) \in 0..Places
           /\ \A i \in 1..Places : i > Written(t) => t.digits[i] = 0
           /\ Written(t) > 0 => t.digits[Written(t)] # 0
<1> DEFINE Enough == {n \in 0..Places : \A i \in n + 1 .. Places : t.digits[i] = 0}
           fits(n) == /\ \A i \in n + 1 .. Places : t.digits[i] = 0
                      /\ n > 0 => t.digits[n] # 0
<1>1. Places \in Nat
  BY OrderAssumption
<1>2. PICK n \in Enough : \A m \in Enough : n <= m
  <2>1. Enough \in SUBSET Nat /\ Places \in Enough
    BY <1>1
  <2> HIDE DEF Enough
  <2> QED
    BY <2>1, Least
<1>3. n \in 0..Places /\ \A i \in n + 1 .. Places : t.digits[i] = 0
  OBVIOUS
<1>4. n > 0 => t.digits[n] # 0
  <2> SUFFICES ASSUME n > 0, t.digits[n] = 0 PROVE FALSE
    OBVIOUS
  <2>1. n - 1 \in 0..Places /\ \A i \in (n - 1) + 1 .. Places : i = n \/ i \in n + 1 .. Places
    BY <1>1, <1>3
  <2>2. n - 1 \in Enough
    BY <1>3, <2>1
  <2> QED
    BY <1>2, <1>3, <2>2
<1>5. fits(n)
  BY <1>3, <1>4
<1>6. Written(t) = CHOOSE m \in 0..Places : fits(m)
  BY Zenon DEF Written
<1> HIDE DEF fits
<1>7. Written(t) \in 0..Places /\ fits(Written(t))
  BY <1>3, <1>5, <1>6
<1> QED
  BY <1>1, <1>7 DEF fits

LEMMA TextIs ==
    ASSUME NEW t \in Moment
    PROVE  /\ formatTime(t) \in Seq(Int)
           /\ Len(formatTime(t)) = IF Written(t) = 0 THEN 2 ELSE Written(t) + 3
           /\ formatTime(t)[1] = t.second
           /\ Written(t) = 0 => formatTime(t)[2] = Zulu
           /\ Written(t) > 0 => /\ formatTime(t)[2] = Dot
                                /\ formatTime(t)[Written(t) + 3] = Zulu
           /\ \A i \in 1..Written(t) : formatTime(t)[i + 2] = t.digits[i]
<1> DEFINE w == Written(t)
           written == [i \in 1..w |-> t.digits[i]]
           middle == IF w = 0 THEN <<>> ELSE <<Dot>> \o written
<1>1. /\ t.second \in Int /\ Zulu \in Int /\ Dot \in Int
      /\ \A i \in 1..Places : t.digits[i] \in Int
  BY OrderAssumption DEF Moment, Zulu, Dot
<1>2. w \in Nat /\ 1..w \subseteq 1..Places
  BY WrittenIs, OrderAssumption
<1>3. formatTime(t) = <<t.second>> \o middle \o <<Zulu>>
  BY DEF formatTime
<1> HIDE DEF w
<1>4. written \in Seq(Int) /\ Len(written) = w
      /\ \A i \in 1..w : written[i] = t.digits[i]
  <2>1. \A i \in 1..w : t.digits[i] \in Int
    BY <1>1, <1>2
  <2> QED
    BY <1>2, <2>1
<1> HIDE DEF written
<1>5. /\ middle \in Seq(Int)
      /\ Len(middle) = IF w = 0 THEN 0 ELSE w + 1
      /\ w > 0 => middle[1] = Dot
      /\ \A i \in 1..w : middle[i + 1] = t.digits[i]
  <2>1. CASE w = 0
    BY <2>1
  <2>2. CASE w # 0
    <3>1. <<Dot>> \in Seq(Int) /\ Len(<<Dot>>) = 1 /\ <<Dot>>[1] = Dot
      BY <1>1
    <3> DEFINE m == <<Dot>> \o written
    <3>2. /\ m \in Seq(Int) /\ Len(m) = 1 + w
          /\ \A i \in 1 .. 1 + w : m[i] = IF i <= 1 THEN <<Dot>>[i] ELSE written[i - 1]
      BY <1>4, <3>1, ConcatProperties
    <3>3. middle = m
      BY <2>2
    <3> HIDE DEF m, middle
    <3>4. \A i \in 1..w : i + 1 \in 1 .. 1 + w /\ ~(i + 1 <= 1) /\ (i + 1) - 1 = i
      BY <1>2
    <3> QED
      BY <1>2, <1>4, <2>2, <3>1, <3>2, <3>3, <3>4
  <2> QED
    BY <2>1, <2>2
<1> HIDE DEF middle
<1> DEFINE front == <<t.second>> \o middle
<1>6. /\ front \in Seq(Int) /\ Len(front) = 1 + Len(middle)
      /\ front[1] = t.second
      /\ \A i \in 1..Len(middle) : front[i + 1] = middle[i]
  <2>1. <<t.second>> \in Seq(Int) /\ Len(<<t.second>>) = 1 /\ <<t.second>>[1] = t.second
    BY <1>1
  <2>2. /\ front \in Seq(Int) /\ Len(front) = 1 + Len(middle)
        /\ \A i \in 1 .. 1 + Len(middle) :
              front[i] = IF i <= 1 THEN <<t.second>>[i] ELSE middle[i - 1]
    BY <1>5, <2>1, ConcatProperties
  <2>3. Len(middle) \in Nat
    BY <1>2, <1>5
  <2> HIDE DEF front
  <2>4. \A i \in 1..Len(middle) :
           i + 1 \in 1 .. 1 + Len(middle) /\ ~(i + 1 <= 1) /\ (i + 1) - 1 = i
    BY <2>3
  <2> QED
    BY <2>1, <2>2, <2>3, <2>4
<1> HIDE DEF front
<1>7. /\ formatTime(t) \in Seq(Int) /\ Len(formatTime(t)) = Len(front) + 1
      /\ \A i \in 1..Len(front) : formatTime(t)[i] = front[i]
      /\ formatTime(t)[Len(front) + 1] = Zulu
  BY <1>1, <1>3, <1>6, AppendProperties, AppendIsConcat DEF front
<1>8. CASE w = 0
  BY <1>2, <1>5, <1>6, <1>7, <1>8 DEF w
<1>9. CASE w > 0
  <2>1. Len(middle) = w + 1 /\ Len(front) = w + 2
    BY <1>2, <1>5, <1>6, <1>9
  <2>2. Len(formatTime(t)) = w + 3 /\ formatTime(t)[w + 3] = Zulu
    BY <1>2, <1>7, <2>1
  <2>3. formatTime(t)[1] = t.second
    BY <1>2, <1>6, <1>7, <2>1
  <2>4. formatTime(t)[2] = Dot
    <3>1. front[1 + 1] = middle[1] /\ 2 \in 1..Len(front)
      BY <1>2, <1>6, <2>1
    <3> QED
      BY <1>5, <1>7, <1>9, <3>1
  <2>5. ASSUME NEW i \in 1..w
        PROVE  formatTime(t)[i + 2] = t.digits[i]
    <3>1. i + 2 \in 1..Len(front) /\ i + 2 = (i + 1) + 1 /\ i + 1 \in 1..Len(middle)
      BY <1>2, <2>1
    <3>2. front[(i + 1) + 1] = middle[i + 1]
      BY <1>6, <3>1
    <3> QED
      BY <1>5, <1>7, <3>1, <3>2
  <2> QED
    BY <1>7, <1>9, <2>2, <2>3, <2>4, <2>5 DEF w
<1> QED
  BY <1>2, <1>8, <1>9

(* The moment is read back from its text.                                  *)
LEMMA ReadBack ==
    ASSUME NEW t \in Moment
    PROVE  parseTime(formatTime(t)) = t
<1> DEFINE w == Written(t)
           text == formatTime(t)
           digits == [i \in 1..Places |-> IF i <= Len(text) - 3 THEN text[i + 2] ELSE 0]
<1>1. /\ w \in 0..Places /\ Places \in Nat
      /\ \A i \in 1..Places : i > w => t.digits[i] = 0
  BY WrittenIs, OrderAssumption
<1>2. /\ Len(text) = IF w = 0 THEN 2 ELSE w + 3
      /\ text[1] = t.second
      /\ \A i \in 1..w : text[i + 2] = t.digits[i]
  BY TextIs
<1>3. parseTime(text) = [second |-> text[1], digits |-> digits]
  BY DEF parseTime
<1> HIDE DEF w, text
<1>4. \A i \in 1..Places : digits[i] = t.digits[i]
  <2> SUFFICES ASSUME NEW i \in 1..Places PROVE digits[i] = t.digits[i]
    OBVIOUS
  <2>1. CASE i <= w
    BY <1>1, <1>2, <2>1
  <2>2. CASE i > w
    BY <1>1, <1>2, <2>2
  <2> QED
    BY <1>1, <2>1, <2>2
<1>5. t = [second |-> t.second, digits |-> t.digits]
      /\ t.digits = [i \in 1..Places |-> t.digits[i]]
  BY DEF Moment
<1>6. digits = t.digits
  BY <1>4, <1>5
<1> QED
  BY <1>2, <1>3, <1>5, <1>6 DEF text

(* What is stored is the text of the moment of the last update.            *)
TextsFit == \A j \in Stored : updated[j] = formatTime(touched[j])

OrderInv == OrderTypeOK /\ TextsFit

LEMMA OrderInitEstablishes == OrderInit => OrderInv
BY DEF OrderInit, OrderInv, OrderTypeOK, TextsFit, Stored

LEMMA OrderStep == OrderInv /\ [OrderNext]_orderVars => OrderInv'
<1> SUFFICES ASSUME OrderInv, [OrderNext]_orderVars PROVE OrderInv'
  OBVIOUS
<1> USE DEF OrderInv, OrderTypeOK, TextsFit, Stored
<1>1. CASE Tick
  BY <1>1 DEF Tick
<1>2. ASSUME NEW j \in Id, Touch(j)
      PROVE  OrderInv'
  <2>1. /\ formatTime(now) \in Seq(Int) /\ formatTime(now) # NoText
        /\ parseTime(formatTime(now)) = now
    BY TextIs, ReadBack, OrderAssumption
  <2>2. /\ updated'[j] = formatTime(now) /\ touched'[j] = now
        /\ \A k \in Id \ {j} : updated'[k] = updated[k] /\ touched'[k] = touched[k]
    BY <1>2 DEF Touch
  <2>3. /\ now' \in Moment /\ touched' \in [Id -> Moment]
        /\ updated' \in [Id -> Seq(Int) \cup {NoText}]
    BY <1>2, <2>1 DEF Touch
  <2>4. \A k \in Stored' : /\ parseTime(updated'[k]) = touched'[k]
                           /\ updated'[k] = formatTime(touched'[k])
    BY <2>1, <2>2
  <2> QED
    BY <2>3, <2>4
<1>3. ASSUME NEW j \in Id, DeleteJob(j)
      PROVE  OrderInv'
  BY <1>3 DEF DeleteJob
<1>4. CASE UNCHANGED orderVars
  BY <1>4 DEF orderVars
<1> QED
  BY <1>1, <1>2, <1>3, <1>4 DEF OrderNext, CreateJob, UpdateJob

-----------------------------------------------------------------------------
(* Texts, compared character by character, are in a strict order.          *)
DiffersAt(a, b, i) ==
    /\ i \in 1..Len(a) /\ i <= Len(b) /\ a[i] < b[i]
    /\ \A k \in 1..i - 1 : a[k] = b[k]

Shorter(a, b) == Len(a) < Len(b) /\ \A i \in 1..Len(a) : a[i] = b[i]

LEMMA TextBeforeIs ==
    ASSUME NEW a \in Seq(Int), NEW b \in Seq(Int)
    PROVE  /\ TextBefore(a, b) <=> Shorter(a, b) \/ \E i : DiffersAt(a, b, i)
           /\ a # b => TextBefore(a, b) \/ TextBefore(b, a)
<1>1. /\ Len(a) \in Nat /\ Len(b) \in Nat
      /\ \A i \in 1..Len(a) : a[i] \in Int
      /\ \A i \in 1..Len(b) : b[i] \in Int
  BY LenProperties, ElementOfSeq
<1>2. Len(a) = Len(b) /\ (\A i \in 1..Len(a) : a[i] = b[i]) => a = b
  BY SeqEqual
<1>3. (a # b /\ BeginsWith(b, a)) <=> Shorter(a, b)
  BY <1>1, <1>2 DEF BeginsWith, Shorter
<1>4. (a # b /\ BeginsWith(a, b)) <=> Shorter(b, a)
  BY <1>1, <1>2 DEF BeginsWith, Shorter
<1>5. TextBefore(a, b) <=> Shorter(a, b) \/ \E i : DiffersAt(a, b, i)
  BY <1>3 DEF TextBefore, DiffersAt
<1>6. TextBefore(b, a) <=> Shorter(b, a) \/ \E i : DiffersAt(b, a, i)
  BY <1>4 DEF TextBefore, DiffersAt
<1>7. ASSUME a # b
      PROVE  TextBefore(a, b) \/ TextBefore(b, a)
  <2> DEFINE D == {i \in 1..Len(a) : i <= Len(b) /\ a[i] # b[i]}
  <2>1. CASE D = {}
    <3>1. \A i \in 1..Len(a) : i <= Len(b) => a[i] = b[i]
      BY <2>1
    <3>2. CASE Len(a) <= Len(b)
      BY <1>1, <1>3, <1>5, <1>7, <3>1, <3>2 DEF BeginsWith
    <3>3. CASE Len(b) <= Len(a)
      BY <1>1, <1>4, <1>6, <1>7, <3>1, <3>3 DEF BeginsWith
    <3> QED
      BY <1>1, <3>2, <3>3
  <2>2. CASE D # {}
    <3>1. PICK i \in D : \A k \in D : i <= k
      <4>1. D \in SUBSET Nat
        BY <1>1
      <4> HIDE DEF D
      <4> QED
        BY <2>2, <4>1, Least
    <3>2. \A k \in 1..i - 1 : a[k] = b[k]
      <4> SUFFICES ASSUME NEW k \in 1..i - 1 PROVE a[k] = b[k]
        OBVIOUS
      <4>1. k \in 1..Len(a) /\ k <= Len(b) /\ ~(i <= k)
        BY <1>1
      <4> QED
        BY <3>1, <4>1
    <3>3. i \in 1..Len(a) /\ i \in 1..Len(b) /\ (a[i] < b[i] \/ b[i] < a[i])
      BY <1>1
    <3>4. DiffersAt(a, b, i) \/ DiffersAt(b, a, i)
      BY <1>1, <3>2, <3>3 DEF DiffersAt
    <3> QED
      BY <1>5, <1>6, <3>4
  <2> QED
    BY <2>1, <2>2
<1> QED
  BY <1>5, <1>7

LEMMA TextsOrdered ==
    ASSUME NEW a \in Seq(Int), NEW b \in Seq(Int), NEW c \in Seq(Int)
    PROVE  /\ ~TextBefore(a, a)
           /\ TextBefore(a, b) /\ TextBefore(b, c) => TextBefore(a, c)
<1>1. /\ Len(a) \in Nat /\ Len(b) \in Nat /\ Len(c) \in Nat
      /\ \A i \in 1..Len(a) : a[i] \in Int
      /\ \A i \in 1..Len(b) : b[i] \in Int
      /\ \A i \in 1..Len(c) : c[i] \in Int
  BY LenProperties, ElementOfSeq
<1>2. /\ TextBefore(a, a) <=> Shorter(a, a) \/ \E i : DiffersAt(a, a, i)
      /\ TextBefore(a, b) <=> Shorter(a, b) \/ \E i : DiffersAt(a, b, i)
      /\ TextBefore(b, c) <=> Shorter(b, c) \/ \E i : DiffersAt(b, c, i)
      /\ TextBefore(a, c) <=> Shorter(a, c) \/ \E i : DiffersAt(a, c, i)
  BY TextBeforeIs
<1>3. ~TextBefore(a, a)
  <2>1. ~Shorter(a, a)
    BY <1>1 DEF Shorter
  <2>2. ASSUME NEW i, DiffersAt(a, a, i) PROVE FALSE
    <3>1. i \in 1..Len(a) /\ a[i] < a[i]
      BY <2>2 DEF DiffersAt
    <3>2. a[i] \in Int
      BY <1>1, <3>1
    <3> QED
      BY <3>1, <3>2
  <2> QED
    BY <1>2, <2>1, <2>2
<1>4. ASSUME Shorter(a, b), Shorter(b, c)
      PROVE  Shorter(a, c)
  BY <1>1, <1>4 DEF Shorter
<1>5. ASSUME Shorter(a, b), NEW i, DiffersAt(b, c, i)
      PROVE  Shorter(a, c) \/ DiffersAt(a, c, i)
  <2>1. CASE i <= Len(a)
    BY <1>1, <1>5, <2>1 DEF Shorter, DiffersAt
  <2>2. CASE ~(i <= Len(a))
    <3>1. /\ i \in 1..Len(b) /\ i <= Len(c)
          /\ \A k \in 1..i - 1 : b[k] = c[k]
          /\ \A k \in 1..Len(a) : a[k] = b[k]
      BY <1>5 DEF Shorter, DiffersAt
    <3>2. i \in Nat /\ Len(a) < i /\ Len(a) < Len(c)
      BY <1>1, <2>2, <3>1
    <3>3. \A k \in 1..Len(a) : k \in 1..i - 1
      BY <1>1, <3>2
    <3>4. \A k \in 1..Len(a) : a[k] = c[k]
      BY <3>1, <3>3
    <3> QED
      BY <3>2, <3>4 DEF Shorter
  <2> QED
    BY <2>1, <2>2
<1>6. ASSUME NEW i, DiffersAt(a, b, i), Shorter(b, c)
      PROVE  DiffersAt(a, c, i)
  <2>1. /\ i \in 1..Len(a) /\ i \in 1..Len(b) /\ i <= Len(c) /\ a[i] < b[i]
        /\ \A k \in 1..i - 1 : a[k] = b[k]
        /\ \A k \in 1..Len(b) : b[k] = c[k]
    BY <1>1, <1>6 DEF Shorter, DiffersAt
  <2>2. \A k \in 1..i - 1 : k \in 1..Len(b)
    BY <1>1, <2>1
  <2>3. a[i] < c[i]
    BY <2>1
  <2>4. \A k \in 1..i - 1 : a[k] = c[k]
    BY <2>1, <2>2
  <2> QED
    BY <2>1, <2>3, <2>4, Zenon DEF DiffersAt
<1>7. ASSUME NEW i, DiffersAt(a, b, i), NEW j, DiffersAt(b, c, j)
      PROVE  \E k : DiffersAt(a, c, k)
  <2>1. /\ i \in 1..Len(a) /\ i \in 1..Len(b) /\ a[i] < b[i]
        /\ j \in 1..Len(b) /\ j \in 1..Len(c) /\ b[j] < c[j]
        /\ \A k \in 1..i - 1 : a[k] = b[k]
        /\ \A k \in 1..j - 1 : b[k] = c[k]
    BY <1>1, <1>7 DEF DiffersAt
  <2>2. i \in Nat /\ j \in Nat
    BY <1>1, <2>1
  <2>3. CASE i <= j
    <3>1. \A k \in 1..i - 1 : k \in 1..j - 1
      BY <2>2, <2>3
    <3>2. \A k \in 1..i - 1 : a[k] = c[k]
      BY <2>1, <3>1
    <3>3. i <= Len(c)
      BY <1>1, <2>1, <2>2, <2>3
    <3>4. b[i] = c[i] \/ b[i] < c[i]
      <4>1. i = j \/ i \in 1..j - 1
        BY <2>1, <2>2, <2>3
      <4> QED
        BY <2>1, <4>1
    <3>5. a[i] \in Int /\ b[i] \in Int /\ c[i] \in Int
      BY <1>1, <2>1, <2>2, <3>3
    <3>6. a[i] < c[i]
      <4>1. a[i] < b[i]
        BY <2>1
      <4> QED
        BY <3>4, <3>5, <4>1
    <3> QED
      BY <2>1, <3>2, <3>3, <3>6, Zenon DEF DiffersAt
  <2>4. CASE j < i
    <3>1. \A k \in 1..j - 1 : k \in 1..i - 1
      BY <2>2, <2>4
    <3>2. \A k \in 1..j - 1 : a[k] = c[k]
      BY <2>1, <3>1
    <3>3. a[j] < c[j] /\ j \in 1..Len(a) /\ j <= Len(c)
      BY <1>1, <2>1, <2>2, <2>4
    <3> QED
      BY <3>2, <3>3, Zenon DEF DiffersAt
  <2> QED
    BY <2>2, <2>3, <2>4
<1> QED
  BY <1>2, <1>3, <1>4, <1>5, <1>6, <1>7

-----------------------------------------------------------------------------
InListOrder == {p \in Stored \X Stored : Precedes(p[1], p[2])}

LEMMA PrecedesOrders ==
    ASSUME OrderInv
    PROVE  OrderIsFixed /\ StrictlyOrders(InListOrder, Stored)
<1>1. \A j \in Stored : updated[j] \in Seq(Int) /\ j \in Nat
  BY OrderAssumption DEF OrderInv, OrderTypeOK, Stored
<1>2. ASSUME NEW j \in Stored, NEW k \in Stored
      PROVE  /\ ~TextBefore(updated[j], updated[j])
             /\ ~(TextBefore(updated[j], updated[k]) /\ TextBefore(updated[k], updated[j]))
             /\ updated[j] # updated[k] =>
                   TextBefore(updated[j], updated[k]) \/ TextBefore(updated[k], updated[j])
  BY <1>1, TextsOrdered, TextBeforeIs
<1>3. ASSUME NEW i \in Stored, NEW j \in Stored, NEW k \in Stored
      PROVE  TextBefore(updated[k], updated[j]) /\ TextBefore(updated[j], updated[i])
                => TextBefore(updated[k], updated[i])
  BY <1>1, TextsOrdered
<1>4. \A j \in Stored : ~Precedes(j, j)
  BY <1>1, <1>2 DEF Precedes
<1>5. ASSUME NEW j \in Stored, NEW k \in Stored, j # k
      PROVE  Precedes(j, k) <=> ~Precedes(k, j)
  <2>1. CASE updated[j] = updated[k]
    BY <1>1, <1>2, <1>5, <2>1 DEF Precedes
  <2>2. CASE updated[j] # updated[k]
    BY <1>2, <2>2 DEF Precedes
  <2> QED
    BY <2>1, <2>2
<1>6. ASSUME NEW i \in Stored, NEW j \in Stored, NEW k \in Stored,
             Precedes(i, j), Precedes(j, k)
      PROVE  Precedes(i, k)
  <2>1. CASE updated[i] = updated[j] /\ updated[j] = updated[k]
    BY <1>1, <1>2, <1>6, <2>1 DEF Precedes
  <2>2. CASE updated[i] = updated[j] /\ updated[j] # updated[k]
    BY <1>6, <2>2 DEF Precedes
  <2>3. CASE updated[i] # updated[j] /\ updated[j] = updated[k]
    BY <1>6, <2>3 DEF Precedes
  <2>4. CASE updated[i] # updated[j] /\ updated[j] # updated[k]
    BY <1>3, <1>6, <2>4 DEF Precedes
  <2> QED
    BY <2>1, <2>2, <2>3, <2>4
<1>7. \A j, k \in Stored : <<j, k>> \in InListOrder <=> Precedes(j, k)
  BY DEF InListOrder
<1> QED
  BY <1>4, <1>5, <1>6, <1>7 DEF OrderIsFixed, StrictlyOrders

(* The list has every stored job once, in the order of the store.          *)
LEMMA ListedIs ==
    ASSUME OrderInv
    PROVE  /\ Cardinality(Stored) \in Nat
           /\ Listed \in [1..Cardinality(Stored) -> Stored]
           /\ \A j \in Stored : \E p \in 1..Cardinality(Stored) : Listed[p] = j
           /\ \A p, q \in 1..Cardinality(Stored) :
                 p < q => Precedes(Listed[p], Listed[q])
<1>1. IsFiniteSet(Stored)
  BY OrderAssumption, FS_Subset, Stored \subseteq Id, Zenon DEF Stored
<1>2. StrictlyOrders(InListOrder, Stored)
  BY PrecedesOrders
<1>3. Listed = InOrder(Stored, InListOrder)
  BY DEF Listed, InListOrder
<1>4. \A j, k : <<j, k>> \in InListOrder => Precedes(j, k)
  BY DEF InListOrder
<1> DEFINE q == InOrder(Stored, InListOrder)
<1>5. /\ Cardinality(Stored) \in Nat
      /\ q \in [1..Cardinality(Stored) -> Stored]
      /\ \A j \in Stored : \E p \in 1..Cardinality(Stored) : q[p] = j
      /\ \A m, n \in 1..Cardinality(Stored) :
            m < n => <<q[m], q[n]>> \in InListOrder
  BY <1>1, <1>2, InOrderIs
<1> HIDE DEF q
<1>6. \A m, n \in 1..Cardinality(Stored) : m < n => Precedes(q[m], q[n])
  BY <1>4, <1>5
<1> QED
  BY <1>3, <1>5, <1>6 DEF q

(* Where pages of one size begin.                                          *)
LEMMA PagesBegin ==
    ASSUME NEW size \in Nat
    PROVE  /\ \A n \in Nat : n * size \in Nat /\ (n + 1) * size = n * size + size
           /\ \A m, n \in Nat : m < n => m * size + size <= n * size
<1>1. \A n \in Nat : n * size \in Nat /\ (n + 1) * size = n * size + size
  OBVIOUS
<1>2. ASSUME NEW m \in Nat, NEW n \in Nat, m < n
      PROVE  m * size + size <= n * size
  <2>1. PICK d \in Nat : n = m + 1 + d
    <3>1. n - m - 1 \in Nat /\ n = m + 1 + (n - m - 1)
      BY <1>2
    <3> QED
      BY <3>1
  <2>2. n * size = m * size + size + d * size /\ d * size \in Nat /\ m * size \in Nat
    BY <2>1
  <2> QED
    BY <2>2
<1> QED
  BY <1>1, <1>2

(* Every page is as long as it may be, or ends where the list ends.        *)
LEMMA PageIs ==
    ASSUME OrderInv, NEW size \in Nat, NEW n \in Nat \ {0}
    PROVE  LET pageAt == ListJobsPage(size, Offset((n - 1) * size))
           IN  /\ (n - 1) * size \in Nat
               /\ \A i : i \in DOMAIN pageAt <=>
                     i \in 1..size /\ (n - 1) * size + i <= Cardinality(Stored)
               /\ \A i \in DOMAIN pageAt : pageAt[i] = Listed[(n - 1) * size + i]
<1> DEFINE from == (n - 1) * size
           last == IF from + size < Cardinality(Stored) THEN from + size
                   ELSE Cardinality(Stored)
<1>1. n - 1 \in Nat
  OBVIOUS
<1>2. from \in Nat /\ Cardinality(Stored) \in Nat
  BY <1>1, PagesBegin, ListedIs
<1> HIDE DEF from
<1>3. Offset(from) = from
  BY <1>2 DEF Offset
<1>4. ListJobsPage(size, from) = [i \in 1..last - from |-> Listed[from + i]]
  BY DEF ListJobsPage
<1>5. \A i : i \in 1..last - from <=> i \in 1..size /\ from + i <= Cardinality(Stored)
  BY <1>2
<1> QED
  BY <1>2, <1>3, <1>4, <1>5 DEF from

LEMMA PagesFit == OrderInv => PagesPartition
<1> SUFFICES ASSUME OrderInv,
                    NEW limit \in AskedNumber,
                    NEW size, size = Limit(limit)
             PROVE  LET pageAt(n) == ListJobsPage(size, Offset((n - 1) * size))
                        Shown == {s \in (1 .. Cardinality(Stored)) \X (1 .. size) :
                                     s[2] \in DOMAIN pageAt(s[1])}
                        jobAt(s) == pageAt(s[1])[s[2]]
                    IN  /\ \A n \in 1 .. Cardinality(Stored) :
                              DOMAIN pageAt(n) \subseteq 1 .. MaxLimit
                        /\ \A j \in Stored : \E s \in Shown : jobAt(s) = j
                        /\ \A s, t \in Shown :
                              s[1] < t[1] \/ (s[1] = t[1] /\ s[2] < t[2]) =>
                                 Precedes(jobAt(s), jobAt(t))
  BY PrecedesOrders DEF PagesPartition
<1> DEFINE N == Cardinality(Stored)
           pageAt(n) == ListJobsPage(size, Offset((n - 1) * size))
           Shown == {s \in (1 .. N) \X (1 .. size) : s[2] \in DOMAIN pageAt(s[1])}
           jobAt(s) == pageAt(s[1])[s[2]]
           place(n, i) == (n - 1) * size + i
<1>1. size \in 1..MaxLimit /\ size \in Nat \ {0} /\ MaxLimit \in Nat
  BY OrderAssumption DEF Limit
<1>2. /\ N \in Nat
      /\ Listed \in [1..N -> Stored]
      /\ \A j \in Stored : \E p \in 1..N : Listed[p] = j
      /\ \A p, q \in 1..N : p < q => Precedes(Listed[p], Listed[q])
  BY ListedIs
<1>3. \A n \in Nat \ {0} :
         /\ (n - 1) * size \in Nat
         /\ \A i : i \in DOMAIN pageAt(n) <=> i \in 1..size /\ place(n, i) <= N
         /\ \A i \in DOMAIN pageAt(n) : pageAt(n)[i] = Listed[place(n, i)]
  BY <1>1, PageIs
<1> HIDE DEF pageAt, N
<1>4. ASSUME NEW n \in 1..N
      PROVE  DOMAIN pageAt(n) \subseteq 1..MaxLimit
  <2>1. n \in Nat \ {0} /\ 1..size \subseteq 1..MaxLimit
    BY <1>1, <1>2
  <2>2. DOMAIN pageAt(n) \subseteq 1..size
    BY <1>3, <2>1
  <2> QED
    BY <2>1, <2>2
<1>5. ASSUME NEW s \in Shown
      PROVE  /\ s[1] \in Nat \ {0} /\ s[2] \in 1..size
             /\ place(s[1], s[2]) \in 1..N
             /\ jobAt(s) = Listed[place(s[1], s[2])]
  <2>1. s[1] \in Nat \ {0} /\ s[2] \in 1..size /\ s[2] \in DOMAIN pageAt(s[1])
    BY <1>2
  <2>2. /\ (s[1] - 1) * size \in Nat
        /\ place(s[1], s[2]) <= N
        /\ jobAt(s) = Listed[place(s[1], s[2])]
    BY <1>3, <2>1
  <2>3. (s[1] - 1) * size + s[2] \in 1..N
    <3> DEFINE lo == (s[1] - 1) * size
    <3>1. lo \in Nat /\ lo + s[2] <= N /\ N \in Nat /\ s[2] \in 1..size /\ size \in Nat
      BY <1>1, <1>2, <2>1, <2>2
    <3> HIDE DEF lo
    <3>2. lo + s[2] \in 1..N
      BY <3>1
    <3> QED
      BY <3>2 DEF lo
  <2> QED
    BY <2>1, <2>2, <2>3
<1>6. ASSUME NEW j \in Stored
      PROVE  \E s \in Shown : jobAt(s) = j
  <2>1. PICK p \in 1..N : Listed[p] = j
    BY <1>2
  <2> DEFINE T == {n \in Nat : p <= n * size}
  <2>2. p \in T
    <3>1. p \in Nat /\ 0 < p /\ p - 1 \in Nat
      BY <1>2
    <3>2. 0 * size + size <= p * size /\ (p - 1) * size \in Nat
          /\ ((p - 1) + 1) * size = (p - 1) * size + size
      BY <1>1, <3>1, PagesBegin
    <3> QED
      BY <1>1, <3>1
  <2>3. PICK n \in T : \A m \in T : n <= m
    <3>1. T \in SUBSET Nat
      OBVIOUS
    <3> HIDE DEF T
    <3> QED
      BY <2>2, <3>1, Least
  <2>4. n \in Nat /\ n # 0 /\ n <= p /\ n - 1 \in Nat
    <3>1. n # 0
      BY <1>1, <1>2
    <3> QED
      BY <1>2, <2>2, <2>3, <3>1
  <2>5. n - 1 \notin T
    BY <2>3, <2>4
  <2>6. (n - 1) * size \in Nat /\ ((n - 1) + 1) * size = (n - 1) * size + size
    BY <1>1, <2>4, PagesBegin
  <2>7. ~(p <= (n - 1) * size) /\ p <= n * size /\ (n - 1) + 1 = n
    BY <2>4, <2>5
  <2> DEFINE lo == (n - 1) * size
             i == p - lo
  <2>8. i \in 1..size /\ lo + i = p
    <3> DEFINE up == n * size
    <3>1. lo \in Nat /\ up = lo + size /\ ~(p <= lo) /\ p <= up
      BY <2>6, <2>7
    <3> HIDE DEF lo, up
    <3> QED
      BY <1>1, <1>2, <3>1
  <2> HIDE DEF i
  <2>9. place(n, i) = p
    BY <2>8
  <2>10. n \in 1..N /\ n \in Nat \ {0} /\ p <= N
    BY <1>2, <2>4
  <2> HIDE DEF lo, place
  <2>11. i \in DOMAIN pageAt(n) /\ pageAt(n)[i] = Listed[place(n, i)]
    BY <1>3, <2>8, <2>9, <2>10
  <2>12. <<n, i>> \in Shown /\ jobAt(<<n, i>>) = j
    BY <2>1, <2>8, <2>9, <2>10, <2>11
  <2> QED
    BY <2>12
<1>7. ASSUME NEW s \in Shown, NEW t \in Shown,
             s[1] < t[1] \/ (s[1] = t[1] /\ s[2] < t[2])
      PROVE  place(s[1], s[2]) < place(t[1], t[2])
  <2>1. /\ s[1] \in Nat \ {0} /\ s[2] \in 1..size
        /\ t[1] \in Nat \ {0} /\ t[2] \in 1..size
    BY <1>5
  <2>2. (s[1] - 1) * size \in Nat /\ (t[1] - 1) * size \in Nat
    BY <1>3, <2>1
  <2>3. CASE s[1] < t[1]
    <3>1. (s[1] - 1) * size + size <= (t[1] - 1) * size
      <4>1. s[1] - 1 \in Nat /\ t[1] - 1 \in Nat /\ s[1] - 1 < t[1] - 1
        BY <2>1, <2>3
      <4> QED
        BY <1>1, <4>1, PagesBegin
    <3> QED
      BY <1>1, <2>1, <2>2, <3>1
  <2>4. CASE s[1] = t[1] /\ s[2] < t[2]
    BY <2>1, <2>2, <2>4
  <2> QED
    BY <1>7, <2>3, <2>4
<1> HIDE DEF place
<1>8. ASSUME NEW s \in Shown, NEW t \in Shown,
             s[1] < t[1] \/ (s[1] = t[1] /\ s[2] < t[2])
      PROVE  Precedes(jobAt(s), jobAt(t))
  BY <1>2, <1>5, <1>7, <1>8
<1> QED
  BY <1>4, <1>6, <1>8 DEF N, pageAt

-----------------------------------------------------------------------------
(* The written digits, read from the text.                                 *)
LEMMA FractionIs ==
    ASSUME NEW t \in Moment
    PROVE  /\ Fraction(formatTime(t)) \in Seq(Int)
           /\ Len(Fraction(formatTime(t))) = Written(t)
           /\ \A i \in 1..Written(t) : Fraction(formatTime(t))[i] = t.digits[i]
<1> DEFINE w == Written(t)
           text == formatTime(t)
           written == [i \in 1..w |-> t.digits[i]]
<1>1. w \in Nat /\ w \in 0..Places /\ Places \in Nat
  BY WrittenIs, OrderAssumption
<1>2. \A i \in 1..w : t.digits[i] \in Int
  BY <1>1, OrderAssumption DEF Moment
<1>3. /\ Len(text) = IF w = 0 THEN 2 ELSE w + 3
      /\ \A i \in 1..w : text[i + 2] = t.digits[i]
  BY TextIs
<1> HIDE DEF w, text
<1>4. 1..Len(text) - 3 = 1..w
  BY <1>1, <1>3
<1>5. Fraction(text) = written
  BY <1>3, <1>4 DEF Fraction
<1>6. written \in Seq(Int) /\ Len(written) = w
  BY <1>1, <1>2
<1>7. \A i \in 1..w : written[i] = t.digits[i]
  OBVIOUS
<1> HIDE DEF written
<1> QED
  BY <1>5, <1>6, <1>7 DEF w, text

(* The text of an earlier moment is the lesser one, unless its digits end  *)
(* before the moments differ.                                              *)
LEMMA EarlierText ==
    ASSUME NEW s \in Moment, NEW t \in Moment, Earlier(s, t)
    PROVE  \/ TextBefore(formatTime(s), formatTime(t))
           \/ /\ s.second = t.second
              /\ Written(s) < Written(t)
              /\ \A i \in 1..Written(s) : s.digits[i] = t.digits[i]
<1> DEFINE a == formatTime(s)
           b == formatTime(t)
           v == Written(s)
           w == Written(t)
<1>1. /\ v \in Nat /\ w \in Nat /\ v <= Places /\ w <= Places /\ Places \in Nat
      /\ \A i \in 1..Places : i > w => t.digits[i] = 0
      /\ \A i \in 1..Places : i > v => s.digits[i] = 0
  BY WrittenIs, OrderAssumption
<1>2. /\ s.second \in Int /\ t.second \in Int
      /\ \A i \in 1..Places : s.digits[i] \in Nat /\ t.digits[i] \in Nat
  BY OrderAssumption DEF Moment
<1>3. /\ a \in Seq(Int) /\ Len(a) = IF v = 0 THEN 2 ELSE v + 3
      /\ a[1] = s.second
      /\ v > 0 => a[2] = Dot
      /\ \A i \in 1..v : a[i + 2] = s.digits[i]
  BY TextIs
<1>4. /\ b \in Seq(Int) /\ Len(b) = IF w = 0 THEN 2 ELSE w + 3
      /\ b[1] = t.second
      /\ w > 0 => b[2] = Dot
      /\ \A i \in 1..w : b[i + 2] = t.digits[i]
  BY TextIs
<1> HIDE DEF a, b, v, w
<1>5. TextBefore(a, b) <=> Shorter(a, b) \/ \E i : DiffersAt(a, b, i)
  BY <1>3, <1>4, TextBeforeIs
<1>6. CASE s.second < t.second
  <2>1. DiffersAt(a, b, 1)
    BY <1>1, <1>3, <1>4, <1>6 DEF DiffersAt
  <2> QED
    BY <1>5, <2>1 DEF a, b
<1>7. ASSUME s.second = t.second,
             NEW i \in 1..Places, s.digits[i] < t.digits[i],
             \A k \in 1..i - 1 : s.digits[k] = t.digits[k]
      PROVE  \/ TextBefore(a, b)
             \/ v < w /\ \A k \in 1..v : s.digits[k] = t.digits[k]
  <2>1. i \in 1..w
    BY <1>1, <1>2, <1>7
  <2>2. CASE i <= v
    <3>1. i \in 1..v /\ v > 0 /\ w > 0
      BY <1>1, <2>1, <2>2
    <3>2. a[i + 2] < b[i + 2] /\ i + 2 \in 1..Len(a) /\ i + 2 <= Len(b)
      <4>1. a[i + 2] = s.digits[i] /\ b[i + 2] = t.digits[i]
        BY <1>3, <1>4, <2>1, <3>1
      <4>2. Len(a) = v + 3 /\ Len(b) = w + 3
        BY <1>1, <1>3, <1>4, <3>1
      <4>3. i + 2 \in 1..Len(a) /\ i + 2 <= Len(b)
        BY <1>1, <2>1, <3>1, <4>2
      <4> QED
        BY <1>7, <4>1, <4>3
    <3>3. ASSUME NEW k \in 1..(i + 2) - 1
          PROVE  a[k] = b[k]
      <4>1. CASE k = 1
        BY <1>3, <1>4, <1>7, <4>1
      <4>2. CASE k = 2
        BY <1>3, <1>4, <3>1, <4>2
      <4>3. CASE k > 2
        <5>1. k - 2 \in 1..i - 1 /\ k - 2 \in 1..v /\ k - 2 \in 1..w /\ (k - 2) + 2 = k
          BY <1>1, <2>1, <3>1, <4>3
        <5> QED
          BY <1>3, <1>4, <1>7, <5>1
      <4> QED
        BY <1>1, <4>1, <4>2, <4>3
    <3>4. DiffersAt(a, b, i + 2)
      BY <3>2, <3>3 DEF DiffersAt
    <3> QED
      BY <1>5, <3>4
  <2>3. CASE ~(i <= v)
    <3>1. v < w /\ \A k \in 1..v : k \in 1..i - 1
      BY <1>1, <2>1, <2>3
    <3> QED
      BY <1>7, <3>1
  <2> QED
    BY <2>2, <2>3
<1> QED
  BY <1>6, <1>7 DEF Earlier, a, b, v, w

LEMMA Trimmed == OrderInv => MisorderIsByTrimming
<1> SUFFICES ASSUME OrderInv, NEW j \in Stored, NEW k \in Stored,
                    Precedes(j, k), Earlier(touched[j], touched[k])
             PROVE  /\ updated[j][1] = updated[k][1]
                    /\ Fraction(updated[j]) # Fraction(updated[k])
                    /\ BeginsWith(Fraction(updated[k]), Fraction(updated[j]))
  BY DEF MisorderIsByTrimming
<1> DEFINE s == touched[j]
           t == touched[k]
<1>1. s \in Moment /\ t \in Moment /\ Earlier(s, t)
  BY DEF OrderInv, OrderTypeOK, Stored
<1>2. /\ updated[j] = formatTime(s) /\ updated[j] \in Seq(Int)
      /\ updated[k] = formatTime(t) /\ updated[k] \in Seq(Int)
  BY DEF OrderInv, OrderTypeOK, TextsFit, Stored
<1> HIDE DEF s, t
<1>3. ~TextBefore(formatTime(s), formatTime(t))
  BY <1>2, TextsOrdered DEF Precedes
<1>4. /\ s.second = t.second
      /\ Written(s) < Written(t)
      /\ \A i \in 1..Written(s) : s.digits[i] = t.digits[i]
  BY <1>1, <1>3, EarlierText
<1>5. updated[j][1] = s.second /\ updated[k][1] = t.second
  BY <1>1, <1>2, TextIs
<1> DEFINE a == Fraction(updated[j])
           b == Fraction(updated[k])
<1>6. /\ a \in Seq(Int) /\ Len(a) = Written(s)
      /\ \A i \in 1..Written(s) : a[i] = s.digits[i]
      /\ b \in Seq(Int) /\ Len(b) = Written(t)
      /\ \A i \in 1..Written(t) : b[i] = t.digits[i]
  BY <1>1, <1>2, FractionIs
<1>7. Written(s) \in Nat /\ Written(t) \in Nat
  BY <1>1, WrittenIs, OrderAssumption
<1> HIDE DEF a, b
<1>8. a # b /\ Len(a) <= Len(b)
  BY <1>4, <1>6, <1>7
<1>9. \A i \in 1..Len(a) : a[i] = b[i]
  <2>1. \A i \in 1..Written(s) : i \in 1..Written(t)
    BY <1>4, <1>7
  <2> QED
    BY <1>4, <1>6, <2>1
<1> QED
  BY <1>4, <1>5, <1>8, <1>9 DEF a, b, BeginsWith

-----------------------------------------------------------------------------
(* The four run side by side.                                              *)
ViewInv == PlanInv /\ HistoryInv /\ ScanInv /\ ServersAreFinite /\ OrderInv

LEMMA ViewInitEstablishes == ViewInit => ViewInv
<1> SUFFICES ASSUME ViewInit PROVE ViewInv
  OBVIOUS
<1>1. PlanInv
  BY PlanInitEstablishes DEF ViewInit
<1>2. ServersAreFinite
  BY FS_EmptySet DEF ViewInit, ScanInit, ServersAreFinite, NoEntries
<1> QED
  BY <1>1, <1>2, HistoryInitEstablishes, ScanInitEstablishes, OrderInitEstablishes
  DEF ViewInit, ViewInv

LEMMA ViewStep == ViewInv /\ [ViewNext]_viewVars => ViewInv'
<1> SUFFICES ASSUME ViewInv, [ViewNext]_viewVars PROVE ViewInv'
  OBVIOUS
<1>1. /\ [Next]_vars /\ [HistoryNext]_historyVars /\ [ScanNext]_scanVars
      /\ [OrderNext]_orderVars
  BY DEF ViewNext, ApplyLanguage, Next, HistoryNext, viewVars, pageVars
<1>2. PlanInv'
  BY <1>1, PlanStep DEF ViewInv
<1>3. HistoryInv'
  BY <1>1, HistoryStep DEF ViewInv
<1>4. ScanInv' /\ ServersAreFinite'
  BY <1>1, ScanStep, ServersStayFinite DEF ViewInv
<1>5. OrderInv'
  BY <1>1, OrderStep DEF ViewInv
<1> QED
  BY <1>2, <1>3, <1>4, <1>5 DEF ViewInv

(* The invariants of the four hold side by side.                           *)
THEOREM ViewInvariance == ViewSpec => []ViewInv
BY ViewInitEstablishes, ViewStep, PTL DEF ViewSpec

(* Whoever looks at the servers or at the history disturbs no dry run:     *)
(* what holds of its page holds beside the other three.                    *)
THEOREM ViewPlaysPage == ViewSpec => Spec
<1>1. ViewInit => Init
  BY DEF ViewInit
<1>2. [ViewNext]_viewVars => [Next]_vars
  BY DEF ViewNext, ApplyLanguage, Next, viewVars, pageVars
<1> QED
  BY <1>1, <1>2, PTL DEF ViewSpec, Spec

(* Plans, requests, pages and lists have their types; no job is in the     *)
(* history twice, and every row is on a server that exists.                *)
THEOREM ViewTypeCorrect == ViewSpec => []ViewTypeOK
<1>1. ViewInv => ViewTypeOK
  BY DEF ViewInv, PlanInv, HistoryInv, ScanInv, OrderInv, ViewTypeOK
<1> QED
  BY <1>1, ViewInvariance, PTL

(* However rows and servers change under a scan, the list has every server *)
(* that kept a row, with a count between what it kept and what it saw.     *)
THEOREM CountsAreBounded == ViewSpec => []CountsWithinBounds
<1>1. ViewInv => CountsWithinBounds
  BY DEF ViewInv, ScanInv
<1> QED
  BY <1>1, ViewInvariance, PTL

(* A scan that nothing disturbed counts every row exactly once.            *)
THEOREM QuietScanIsExact == ViewSpec => []QuietScanShowsAll
<1>1. ViewInv => QuietScanShowsAll
  BY QuietScan DEF ViewInv, ServersAreFinite
<1> QED
  BY <1>1, ViewInvariance, PTL

(* An operator who waits for each answer, alone, is never left on an empty *)
(* page of a history that has jobs, unless a language switch has brought   *)
(* back a page that an error or the request of another page had replaced.  *)
THEOREM NeverLeftOnEmptyPage == ViewSpec => []EmptyWhenUndisturbed
<1>1. ViewInv => EmptyWhenUndisturbed
  BY DEF ViewInv, HistoryInv
<1> QED
  BY <1>1, ViewInvariance, PTL

(* In whatever order the answers come, what is asked for next is the page  *)
(* that is displayed.                                                      *)
THEOREM RefreshAsksForShownPage == ViewSpec => []RefreshKeepsPage
<1>1. HistoryTypeOK /\ OffsetFollows => RefreshKeepsPage
  BY Disjoint DEF OffsetFollows, RefreshKeepsPage
<1>2. ViewInv => RefreshKeepsPage
  BY <1>1 DEF ViewInv, HistoryInv
<1> QED
  BY <1>2, ViewInvariance, PTL

(* A client that goes from page to page by the limit that it was told sees *)
(* every job once and in the one order of the list, whatever limit it asks *)
(* for and however many jobs there are; no page is longer than it may be.  *)
THEOREM PagesFitTogether == ViewSpec => []PagesPartition
<1>1. ViewInv => PagesPartition
  BY PagesFit DEF ViewInv
<1> QED
  BY <1>1, ViewInvariance, PTL

(* A job is listed before one that was updated later only within a second, *)
(* and only because the text of its time leaves out the zeros at its end:  *)
(* with any number of digits, to any base.                                 *)
THEOREM MisorderIsTrimming == ViewSpec => []MisorderIsByTrimming
<1>1. ViewInv => MisorderIsByTrimming
  BY Trimmed DEF ViewInv
<1> QED
  BY <1>1, ViewInvariance, PTL

(* The delete buttons of a page that is up to date are those of the jobs   *)
(* that the server would delete.                                           *)
THEOREM ButtonsFollowProtection == ViewSpec => []OfferedIsDeletable
<1>1. ViewInv => OfferedIsDeletable
  BY OfferedAreUnprotected DEF ViewInv, HistoryInv
<1> QED
  BY <1>1, ViewInvariance, PTL
=============================================================================
