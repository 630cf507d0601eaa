-------------------------- MODULE PlanCheck_proofs --------------------------
(***************************************************************************)
(* The verdict of the plan check, for events and plans of any length.      *)
(***************************************************************************)
EXTENDS PlanCheck, TLAPS

(* The plan that the loops work on is the one of the deciding event.       *)
Decided ==
    /\ stored \in Plan
    /\ \E i \in DOMAIN events : FirstDeciding(i) /\ events[i].payload = stored

(* The first m stored rows passed the first loop.                          *)
Kept(m) ==
    /\ \A r \in Row : r \in storedRows <=> \E k \in 1 .. m : stored.rows[k] = r
    /\ \A k \in 1 .. m : Ident[stored.rows[k]] \notin Blank
    /\ \A j, k \in 1 .. m : Ident[stored.rows[j]] = Ident[stored.rows[k]] => j = k

(* The first m submitted rows passed the second loop.                      *)
Seen(m) ==
    /\ \A k \in 1 .. m : submitted.rows[k] \in storedRows
    /\ \A x \in Identity :
          x \in submittedRows <=> \E k \in 1 .. m : Ident[submitted.rows[k]] = x
    /\ \A j, k \in 1 .. m :
          Ident[submitted.rows[j]] = Ident[submitted.rows[k]] => j = k

HeaderFits == stored.header = submitted.header /\ submitted.rows # <<>>

(* What the loops have established at each place.                          *)
IInv ==
    /\ TypeOK
    /\ at = "events" =>
          /\ \A k \in 1 .. n - 1 : ~Deciding(k)
          /\ storedRows = {} /\ submittedRows = {}
    /\ at = "header" => Decided /\ storedRows = {} /\ submittedRows = {}
    /\ at = "stored" => Decided /\ HeaderFits /\ Kept(n - 1) /\ submittedRows = {}
    /\ at = "submitted" =>
          Decided /\ HeaderFits /\ Kept(Len(stored.rows)) /\ Seen(n - 1)
    /\ at = "accepted" => Admitted
    /\ at = "refused" => ~Admitted

(* Only one event decides.                                                 *)
LEMMA OneDecides ==
    ASSUME TypeOK, NEW i \in DOMAIN events, NEW k \in DOMAIN events,
           FirstDeciding(i), FirstDeciding(k)
    PROVE  i = k
<1>1. i \in Nat /\ k \in Nat /\ i >= 1 /\ k >= 1
  BY DEF TypeOK
<1>2. ~(i < k) /\ ~(k < i)
  BY <1>1 DEF FirstDeciding
<1> QED
  BY <1>1, <1>2

(* The verdict follows from the plan that was found.                       *)
LEMMA DecidedDecides ==
    ASSUME TypeOK, Decided
    PROVE  Admitted <=> Admissible(stored, submitted)
<1>1. PICK i \in DOMAIN events : FirstDeciding(i) /\ events[i].payload = stored
  BY DEF Decided
<1>2. stored # Undecodable
  BY CheckAssumption DEF Decided
<1>3. ASSUME Admitted PROVE Admissible(stored, submitted)
  <2>1. PICK k \in DOMAIN events :
           FirstDeciding(k) /\ Admissible(events[k].payload, submitted)
    BY <1>3 DEF Admitted
  <2>2. i = k
    BY <1>1, <2>1, OneDecides
  <2> QED
    BY <1>1, <2>1, <2>2
<1>4. ASSUME Admissible(stored, submitted) PROVE Admitted
  BY <1>1, <1>2, <1>4 DEF Admitted
<1> QED
  BY <1>3, <1>4

(* What is read in the loops.                                              *)
LEMMA RowsRead ==
    ASSUME TypeOK, stored \in Plan
    PROVE  /\ DOMAIN stored.rows = 1 .. Len(stored.rows) /\ Len(stored.rows) \in Nat
           /\ DOMAIN submitted.rows = 1 .. Len(submitted.rows) /\ Len(submitted.rows) \in Nat
           /\ \A k \in DOMAIN stored.rows : stored.rows[k] \in Row
           /\ \A k \in DOMAIN submitted.rows : submitted.rows[k] \in Row
           /\ \A r \in Row : Ident[r] \in Identity
  BY CheckAssumption DEF TypeOK, Plan

(* The initial states.                                                     *)
LEMMA InitIInv == Init => IInv
  BY DEF Init, Begin, IInv, TypeOK

(* Passing over an event leaves the plan sought.                           *)
LEMMA NextEventStep ==
    ASSUME IInv, NextEvent
    PROVE  IInv'
<1>1. /\ TypeOK /\ at = "events" /\ storedRows = {} /\ submittedRows = {}
      /\ \A k \in 1 .. n - 1 : ~Deciding(k)
  BY DEF IInv, NextEvent
<1>1a. /\ n <= Len(events) /\ n' = n + 1
      /\ UNCHANGED <<events, submitted, at, stored, storedRows, submittedRows>>
  BY DEF NextEvent
<1>1b. n \in Nat \ {0} /\ Len(events) \in Nat
  BY <1>1 DEF TypeOK
<1>2. TypeOK'
  BY <1>1, <1>1a, <1>1b DEF TypeOK
<1>3. ~Deciding(n)
  BY DEF Deciding, NextEvent
<1>4. \A k \in 1 .. n' - 1 : ~Deciding(k)
  BY <1>1, <1>3, <1>1a, <1>1b
<1>5. /\ at' = "events" /\ storedRows' = {} /\ submittedRows' = {}
      /\ (\A k \in 1 .. n - 1 : ~Deciding(k))'
  BY <1>1, <1>4 DEF Deciding, NextEvent
<1> QED
  BY <1>2, <1>5 DEF IInv

(* Without a deciding event that has a plan, nothing is admitted.          *)
LEMMA NoEventStep ==
    ASSUME IInv, NoEvent
    PROVE  IInv'
<1>1. TypeOK /\ at = "events" /\ \A k \in 1 .. n - 1 : ~Deciding(k)
  BY DEF IInv, NoEvent
<1>1a. Refuse
  BY DEF NoEvent
<1>2. TypeOK' /\ at' = "refused"
  BY <1>1, <1>1a DEF TypeOK, Refuse, Goto
<1>3. ~Admitted
  <2> SUFFICES ASSUME NEW i \in DOMAIN events, FirstDeciding(i),
                      events[i].payload # Undecodable
               PROVE  FALSE
    BY DEF Admitted
  <2>1. i \in 1 .. Len(events) /\ n \in Nat \ {0} /\ Len(events) \in Nat
    BY <1>1 DEF TypeOK
  <2>2. ~(i < n)
    BY <1>1, <2>1 DEF FirstDeciding
  <2>2a. n <= Len(events) /\ ~(n > Len(events))
    BY <2>1, <2>2
  <2>2b. n \in DOMAIN events
    BY <1>1, <2>1, <2>2a DEF TypeOK
  <2>3. n \in DOMAIN events /\ Deciding(n) /\ events[n].payload = Undecodable
    <3>1. events[n].message = "dry-run plan ready" /\ events[n].payload = Undecodable
      BY <2>2a DEF NoEvent
    <3> QED
      BY <2>2b, <3>1 DEF Deciding
  <2>4. i = n
    BY <2>1, <2>2, <2>3 DEF FirstDeciding
  <2> QED
    BY <2>3, <2>4
<1>4. ~Admitted'
  BY <1>3 DEF Admitted, FirstDeciding, Deciding, NoEvent, Refuse
<1> QED
  BY <1>2, <1>4 DEF IInv

(* The event that is found decides.                                        *)
LEMMA FoundEventStep ==
    ASSUME IInv, FoundEvent
    PROVE  IInv'
<1>1. /\ TypeOK /\ at = "events" /\ storedRows = {} /\ submittedRows = {}
      /\ \A k \in 1 .. n - 1 : ~Deciding(k)
  BY DEF IInv, FoundEvent
<1>1a. /\ n <= Len(events) /\ events[n].payload # Undecodable
      /\ stored' = events[n].payload /\ at' = "header" /\ n' = 1
      /\ UNCHANGED <<events, submitted, storedRows, submittedRows>>
  BY DEF FoundEvent, Goto
<1>1b. n \in DOMAIN events /\ events[n] \in Event
  BY <1>1, <1>1a DEF TypeOK
<1>2. n \in DOMAIN events /\ events[n].payload \in Plan
  BY <1>1a, <1>1b DEF Event
<1>3. TypeOK'
  BY <1>1, <1>2, <1>1a DEF TypeOK
<1>4. FirstDeciding(n)
  BY <1>1, <1>2 DEF FirstDeciding, Deciding, FoundEvent
<1>5. Decided'
  BY <1>2, <1>4 DEF Decided, FirstDeciding, Deciding, FoundEvent
<1>6. at' = "header" /\ storedRows' = {} /\ submittedRows' = {}
  BY <1>1 DEF FoundEvent, Goto
<1> QED
  BY <1>3, <1>5, <1>6 DEF IInv

(* The header and the number of rows are compared.                         *)
LEMMA CheckHeaderStep ==
    ASSUME IInv, CheckHeader
    PROVE  IInv'
<1>1. /\ TypeOK /\ at = "header" /\ storedRows = {} /\ submittedRows = {} /\ Decided
  BY DEF IInv, CheckHeader
<1>2. TypeOK'
  BY <1>1, RowsRead DEF TypeOK, Decided, CheckHeader, Refuse, Goto
<1>3. CASE HeaderFits
  <2>1. /\ at' = "stored" /\ n' = 1
        /\ UNCHANGED <<events, submitted, stored, storedRows, submittedRows>>
    BY <1>3 DEF CheckHeader, HeaderFits, Goto
  <2>2. Decided' /\ HeaderFits'
    BY <1>1, <1>3, <2>1 DEF Decided, HeaderFits, FirstDeciding, Deciding
  <2>3. Kept(n - 1)'
    BY <1>1, <2>1 DEF Kept
  <2> QED
    BY <1>1, <1>2, <2>1, <2>2, <2>3 DEF IInv
<1>4. CASE ~HeaderFits
  <2>1. Refuse
    BY <1>4 DEF CheckHeader, HeaderFits
  <2>2. ~Admitted
    BY <1>1, <1>4, DecidedDecides DEF Admissible, HeaderFits
  <2>3. ~Admitted'
    BY <2>1, <2>2 DEF Refuse, Admitted, FirstDeciding, Deciding
  <2> QED
    BY <1>2, <2>1, <2>3 DEF IInv, Refuse, Goto
<1> QED
  BY <1>3, <1>4

(* A stored row is kept, or the stored plan is not one to select from.     *)
LEMMA KeepStoredRowStep ==
    ASSUME IInv, KeepStoredRow
    PROVE  IInv'
<1> USE DEF KeepStoredRow
<1> DEFINE row == stored.rows[n]
           refused == Ident[row] \in Blank \/ \E r \in storedRows : Ident[r] = Ident[row]
<1>1. Decided /\ HeaderFits /\ Kept(n - 1) /\ submittedRows = {} /\ TypeOK /\ stored \in Plan
  BY DEF IInv, Decided
<1>2. n \in DOMAIN stored.rows /\ row \in Row /\ n \in Nat \ {0} /\ n \in 1 .. Len(stored.rows)
  BY <1>1, RowsRead DEF TypeOK
<1>3. CASE refused
  <2>1. Refuse
    BY <1>3
  <2>2. ~Admissible(stored, submitted)
    <3>1. CASE Ident[row] \in Blank
      BY <1>2, <3>1 DEF Admissible
    <3>2. CASE \E r \in storedRows : Ident[r] = Ident[row]
      <4>1. PICK r \in storedRows : Ident[r] = Ident[row]
        BY <3>2
      <4>2. PICK k \in 1 .. n - 1 : stored.rows[k] = r
        BY <1>1, <4>1 DEF Kept, TypeOK
      <4>3. k \in DOMAIN stored.rows /\ k # n
        BY <1>1, <1>2, <4>2, RowsRead
      <4> QED
        BY <1>2, <4>1, <4>2, <4>3 DEF Admissible, Unique
    <3> QED
      BY <1>3, <3>1, <3>2
  <2>3. ~Admitted
    BY <1>1, <2>2, DecidedDecides
  <2>4. ~Admitted'
    BY <2>1, <2>3 DEF Refuse, Goto, Admitted, FirstDeciding, Deciding
  <2> QED
    BY <1>1, <2>1, <2>4 DEF IInv, TypeOK, Refuse, Goto
<1>4. CASE ~refused
  <2>1. /\ storedRows' = storedRows \cup {row} /\ n' = n + 1
        /\ UNCHANGED <<events, submitted, at, stored, submittedRows>>
    BY <1>4
  <2>2. TypeOK'
    BY <1>1, <1>2, <2>1 DEF TypeOK
  <2>3. Decided' /\ HeaderFits'
    BY <1>1, <2>1 DEF Decided, HeaderFits, FirstDeciding, Deciding
  <2>4. Kept(n - 1)'
    <3>0. n' - 1 = n
      BY <1>2, <2>1
    <3>1. \A r \in Row : r \in storedRows' <=> \E k \in 1 .. n : stored.rows[k] = r
      BY <1>1, <1>2, <2>1 DEF Kept
    <3>2. \A k \in 1 .. n : Ident[stored.rows[k]] \notin Blank
      BY <1>1, <1>2, <1>4 DEF Kept
    <3>3. \A k \in 1 .. n - 1 : Ident[stored.rows[k]] # Ident[row]
      <4> SUFFICES ASSUME NEW k \in 1 .. n - 1 PROVE Ident[stored.rows[k]] # Ident[row]
        OBVIOUS
      <4>1. stored.rows[k] \in storedRows
        BY <1>1, <1>2, RowsRead DEF Kept
      <4> QED
        BY <1>4, <4>1
    <3>4. \A j, k \in 1 .. n : Ident[stored.rows[j]] = Ident[stored.rows[k]] => j = k
      BY <1>1, <1>2, <3>3 DEF Kept
    <3> QED
      BY <2>1, <3>0, <3>1, <3>2, <3>4 DEF Kept
  <2> QED
    BY <1>1, <1>2, <2>1, <2>2, <2>3, <2>4 DEF IInv
<1> QED
  BY <1>3, <1>4

(* All stored rows are kept.                                               *)
LEMMA EndOfStoredStep ==
    ASSUME IInv, EndOfStored
    PROVE  IInv'
<1> USE DEF EndOfStored, Goto
<1>1. Decided /\ HeaderFits /\ Kept(n - 1) /\ submittedRows = {} /\ TypeOK /\ stored \in Plan
  BY DEF IInv, Decided
<1>2. n - 1 = Len(stored.rows) /\ Len(submitted.rows) \in Nat
  BY <1>1, RowsRead DEF TypeOK
<1>3. TypeOK'
  BY <1>1, <1>2 DEF TypeOK
<1>4. Decided' /\ HeaderFits'
  BY <1>1 DEF Decided, HeaderFits, FirstDeciding, Deciding
<1>5. Kept(Len(stored.rows))'
  BY <1>1, <1>2 DEF Kept
<1>6. Seen(0)'
  BY <1>1 DEF Seen
<1> QED
  BY <1>3, <1>4, <1>5, <1>6 DEF IInv

(* A submitted row is a stored one, or the plan is not a selection.        *)
LEMMA CheckSubmittedRowStep ==
    ASSUME IInv, CheckSubmittedRow
    PROVE  IInv'
<1> USE DEF CheckSubmittedRow
<1> DEFINE row == submitted.rows[n]
           refused == Ident[row] \in Blank \/ Ident[row] \in submittedRows \/ row \notin storedRows
<1>1. /\ Decided /\ HeaderFits /\ Kept(Len(stored.rows)) /\ Seen(n - 1) /\ TypeOK
      /\ stored \in Plan
  BY DEF IInv, Decided
<1>2. /\ n \in DOMAIN submitted.rows /\ row \in Row /\ n \in Nat \ {0}
      /\ n \in 1 .. Len(submitted.rows) /\ Ident[row] \in Identity
  BY <1>1, RowsRead DEF TypeOK
<1>3. CASE refused
  <2>1. Refuse
    BY <1>3
  <2>2. ASSUME Admissible(stored, submitted) PROVE FALSE
    <3>1. PICK k \in DOMAIN stored.rows : stored.rows[k] = row
      BY <1>2, <2>2 DEF Admissible
    <3>2. k \in 1 .. Len(stored.rows)
      BY <1>1, <3>1, RowsRead
    <3>3. row \in storedRows /\ Ident[row] \notin Blank
      BY <1>1, <1>2, <3>1, <3>2 DEF Kept
    <3>4. PICK j \in 1 .. n - 1 : Ident[submitted.rows[j]] = Ident[row]
      BY <1>1, <1>2, <1>3, <3>3 DEF Seen
    <3>5. j \in DOMAIN submitted.rows /\ j # n
      BY <1>1, <1>2, <3>4, RowsRead
    <3> QED
      BY <1>2, <2>2, <3>4, <3>5 DEF Admissible, Unique
  <2>3. ~Admitted
    BY <1>1, <2>2, DecidedDecides
  <2>4. ~Admitted'
    BY <2>1, <2>3 DEF Refuse, Goto, Admitted, FirstDeciding, Deciding
  <2> QED
    BY <1>1, <2>1, <2>4 DEF IInv, TypeOK, Refuse, Goto
<1>4. CASE ~refused
  <2>1. /\ submittedRows' = submittedRows \cup {Ident[row]} /\ n' = n + 1
        /\ UNCHANGED <<events, submitted, at, stored, storedRows>>
    BY <1>4
  <2>2. TypeOK'
    BY <1>1, <1>2, <2>1 DEF TypeOK
  <2>3. Decided' /\ HeaderFits' /\ Kept(Len(stored.rows))'
    BY <1>1, <2>1 DEF Decided, HeaderFits, FirstDeciding, Deciding, Kept
  <2>4. Seen(n - 1)'
    <3>0. n' - 1 = n
      BY <1>2, <2>1
    <3>1. \A k \in 1 .. n : submitted.rows[k] \in storedRows
      BY <1>1, <1>2, <1>4 DEF Seen
    <3>2. \A x \in Identity :
             x \in submittedRows' <=> \E k \in 1 .. n : Ident[submitted.rows[k]] = x
      BY <1>1, <1>2, <2>1 DEF Seen
    <3>3. \A k \in 1 .. n - 1 : Ident[submitted.rows[k]] # Ident[row]
      BY <1>1, <1>2, <1>4 DEF Seen
    <3>4. \A j, k \in 1 .. n :
             Ident[submitted.rows[j]] = Ident[submitted.rows[k]] => j = k
      BY <1>1, <1>2, <3>3 DEF Seen
    <3> QED
      BY <2>1, <3>0, <3>1, <3>2, <3>4 DEF Seen
  <2> QED
    BY <1>1, <1>2, <2>1, <2>2, <2>3, <2>4 DEF IInv
<1> QED
  BY <1>3, <1>4

(* Both loops have passed: the submitted plan is a selection.              *)
LEMMA AcceptStep ==
    ASSUME IInv, Accept
    PROVE  IInv'
<1> USE DEF Accept, Goto
<1>1. /\ Decided /\ HeaderFits /\ Kept(Len(stored.rows)) /\ Seen(n - 1) /\ TypeOK
      /\ stored \in Plan
  BY DEF IInv, Decided
<1>2. n - 1 = Len(submitted.rows) /\ n \in Nat
  BY <1>1, RowsRead DEF TypeOK
<1>3. Unique(stored.rows) /\ Unique(submitted.rows)
  BY <1>1, <1>2, RowsRead DEF Kept, Seen, Unique
<1>4. \A i \in DOMAIN submitted.rows :
         \E k \in DOMAIN stored.rows : submitted.rows[i] = stored.rows[k]
  <2> SUFFICES ASSUME NEW i \in DOMAIN submitted.rows
               PROVE  \E k \in DOMAIN stored.rows : submitted.rows[i] = stored.rows[k]
    OBVIOUS
  <2>1. submitted.rows[i] \in storedRows /\ submitted.rows[i] \in Row
    BY <1>1, <1>2, RowsRead DEF Seen
  <2>2. PICK k \in 1 .. Len(stored.rows) : stored.rows[k] = submitted.rows[i]
    BY <1>1, <2>1 DEF Kept
  <2> QED
    BY <1>1, <2>2, RowsRead
<1>5. Admissible(stored, submitted)
  BY <1>1, <1>3, <1>4, RowsRead DEF Admissible, HeaderFits, Kept
<1>6. Admitted
  BY <1>1, <1>5, DecidedDecides
<1>7. Admitted'
  BY <1>6 DEF Admitted, FirstDeciding, Deciding
<1>8. TypeOK'
  BY <1>1 DEF TypeOK
<1> QED
  BY <1>7, <1>8 DEF IInv

(* What the loops have established holds throughout, for any events and    *)
(* plans, and any way in which rows share an identity.                     *)
THEOREM Invariance == Spec => []IInv
<1>1. IInv /\ UNCHANGED vars => IInv'
  <2> SUFFICES ASSUME IInv, UNCHANGED vars PROVE IInv'
    OBVIOUS
  <2>1. TypeOK' <=> TypeOK
    BY DEF vars, TypeOK
  <2>2. (Decided' <=> Decided) /\ (HeaderFits' <=> HeaderFits) /\ (Admitted' <=> Admitted)
    BY DEF vars, Decided, HeaderFits, Admitted, FirstDeciding, Deciding
  <2>3. /\ Kept(n - 1)' <=> Kept(n - 1)
        /\ Kept(Len(stored.rows))' <=> Kept(Len(stored.rows))
        /\ Seen(n - 1)' <=> Seen(n - 1)
    BY DEF vars, Kept, Seen
  <2>4. (\A k \in 1 .. n - 1 : ~Deciding(k))' <=> \A k \in 1 .. n - 1 : ~Deciding(k)
    BY DEF vars, Deciding
  <2> QED
    BY <2>1, <2>2, <2>3, <2>4 DEF vars, IInv
<1>2. IInv /\ [Next]_vars => IInv'
  <2> SUFFICES ASSUME IInv, [Next]_vars PROVE IInv'
    OBVIOUS
  <2>1. CASE UNCHANGED vars
    BY <1>1, <2>1
  <2>2. CASE Next
    BY <2>2, NextEventStep, NoEventStep, FoundEventStep, CheckHeaderStep,
       KeepStoredRowStep, EndOfStoredStep, CheckSubmittedRowStep, AcceptStep
       DEF Next
  <2> QED
    BY <2>1, <2>2
<1> QED
  BY <1>2, InitIInv, PTL DEF Spec

(* Exactly the admissible selections of the stored plan are accepted: the  *)
(* loops over maps of identities decide what the reference definition says.*)
THEOREM VerdictCorrect == Spec => []VerdictIsRight
<1>1. IInv => VerdictIsRight
  BY DEF IInv, VerdictIsRight
<1> QED
  BY <1>1, Invariance, PTL

(* The variables keep their types, and the loops stay within the plans.    *)
THEOREM TypeCorrect == Spec => []TypeOK
<1>1. IInv => TypeOK
  BY DEF IInv
<1> QED
  BY <1>1, Invariance, PTL
=============================================================================
