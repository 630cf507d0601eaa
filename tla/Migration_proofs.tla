-------------------------- MODULE Migration_proofs --------------------------
(***************************************************************************)
(* What a dry run promises for any tables, rows, servers and schemas, and  *)
(* what the way from it to its commits promises for any number of calls:   *)
(* the whole plan leaves nothing behind, no plan moves a row that was not  *)
(* listed, and the writes keep the promise of Retarget.                    *)
(***************************************************************************)
EXTENDS Migration, Ordering_proofs

-----------------------------------------------------------------------------
(* The dry run, alone.                                                     *)

(* What makes Complete inductive: the fingerprint is no later than the     *)
(* current schema, a supported table is read or still to be read as long   *)
(* as it is current, a call starts with nothing read, and the history fits *)
(* what a SELECT would find now.  What a write will ask of the plan is     *)
(* seen to before a row is read: two servers, and supported tables only.   *)
FingerprintIsEarlier ==
    phase \in {"tables", "list", "done"} => Version[hash] <= Version[schema]

NoTableForgotten ==
    phase = "list" /\ hash = schema =>
       \A r \in kept :
          TableOf[r] \in SupportedTables(hash) =>
             r \in found \/ TableOf[r] \in tables

NothingReadYet == phase \in {"idle", "schema", "tables"} => found = {}

HistoryFits ==
    phase \in Running =>
       kept \subseteq OnServer(server, source)
       /\ OnServer(server, source) \subseteq seen

TwoServers == phase \in Running \cup {"done"} => source # target

ReadsListed ==
    /\ found \subseteq Listed
    /\ phase = "list" => \A r \in Res : TableOf[r] \in tables => r \in Listed

DryRunInv == /\ TypeOK
        /\ TwoServers /\ ReadsListed
        /\ HistoryFits
        /\ NothingReadYet
        /\ FingerprintIsEarlier
        /\ NoTableForgotten
        /\ Complete
        /\ Sound

-----------------------------------------------------------------------------
LEMMA RowsAreFinite ==
    ASSUME NEW S \in SUBSET Res
    PROVE  IsFiniteSet(S) /\ Cardinality(S) \in Nat
BY DryRunAssumption, FS_Subset, FS_CardinalityType

(* Rows read in order: each row once, and every one of them.               *)
LEMMA RowsInOrderIs ==
    ASSUME NEW S \in SUBSET Res
    PROVE  /\ Cardinality(S) \in Nat
           /\ RowsInOrder(S) \in [1..Cardinality(S) -> S]
           /\ \A i, j \in 1..Cardinality(S) :
                 RowsInOrder(S)[i] = RowsInOrder(S)[j] => i = j
           /\ \A r \in S : \E i \in 1..Cardinality(S) : RowsInOrder(S)[i] = r
<1> DEFINE R == {p \in S \X S : Place[p[1]] < Place[p[2]]}
           n == Cardinality(S)
           list == InOrder(S, R)
<1>1. n \in Nat /\ IsFiniteSet(S)
  BY RowsAreFinite
<1>2. \A r, q \in S : <<r, q>> \in R <=> Place[r] < Place[q]
  OBVIOUS
<1>3. RowsInOrder(S) = list
  BY DEF RowsInOrder
<1> HIDE DEF R
<1>4. \A r, q \in S : Place[r] \in Nat /\ (Place[r] = Place[q] => r = q)
  BY DryRunAssumption
<1>5. StrictlyOrders(R, S)
  BY <1>2, <1>4 DEF StrictlyOrders
<1>6. /\ list \in [1..n -> S]
      /\ \A r \in S : \E i \in 1..n : list[i] = r
      /\ \A i, j \in 1..n : i < j => <<list[i], list[j]>> \in R
  BY <1>1, <1>5, InOrderIs
<1> HIDE DEF list
<1>7. \A i, j \in 1..n : i < j => list[i] # list[j]
  BY <1>5, <1>6 DEF StrictlyOrders
<1>8. \A i, j \in 1..n : list[i] = list[j] => i = j
  BY <1>1, <1>7
<1> QED
  BY <1>1, <1>3, <1>6, <1>8

-----------------------------------------------------------------------------
(* A column of a server is one that the database can hold.                 *)
LEMMA OnServerIsRows ==
    ASSUME NEW srv, NEW s
    PROVE  OnServer(srv, s) \subseteq Res
BY DEF OnServer

LEMMA DryRunInitEstablishes == Init => DryRunInv
<1> SUFFICES ASSUME Init PROVE DryRunInv
  OBVIOUS
<1> USE DEF Init
<1>1. TypeOK
  BY DEF TypeOK, Running
<1>2. HistoryFits /\ NothingReadYet /\ FingerprintIsEarlier
       /\ NoTableForgotten /\ Complete /\ Sound
  BY DEF HistoryFits, Running, NothingReadYet, FingerprintIsEarlier,
        NoTableForgotten, Complete, Sound
<1>3. TwoServers /\ ReadsListed
  BY DEF TwoServers, ReadsListed, Running
<1> QED
  BY <1>1, <1>2, <1>3 DEF DryRunInv

(* The type invariant is inductive.                                        *)
LEMMA TypeStep == TypeOK /\ [Next]_vars => TypeOK'
<1> SUFFICES ASSUME TypeOK, [Next]_vars PROVE TypeOK'
  OBVIOUS
<1> USE ConstantsAssumption, DryRunAssumption DEF TypeOK, Running
<1>1. ASSUME NEW s \in Server, NEW t \in Server, Receive(s, t)
      PROVE  TypeOK'
  BY <1>1, OnServerIsRows DEF Receive, world
<1>2. CASE ReadSchema
  BY <1>2 DEF ReadSchema, world, asked, history
<1>3. CASE ReadTables
  BY <1>3 DEF ReadTables, SupportedTables, world, asked, history
<1>4. ASSUME NEW t \in Table, ReadTable(t)
      PROVE  TypeOK'
  BY <1>4, OnServerIsRows DEF ReadTable, world, asked, history
<1>5. CASE Finish
  BY <1>5 DEF Finish, world, asked, history
<1>6. CASE Fail
  BY <1>6 DEF Fail, world, asked, history
<1>7. CASE Leave
  BY <1>7 DEF Leave, world, asked
<1>8. ASSUME NEW r \in Res, NEW c \in Column, DokployChanges(r, c)
      PROVE  TypeOK'
  <2>1. server' \in [Res -> Column]
    BY <1>8 DEF DokployChanges
  <2>2. kept' \subseteq seen' /\ seen' \subseteq Res
    BY <1>8, OnServerIsRows DEF DokployChanges, history
  <2> QED
    BY <1>8, <2>1, <2>2 DEF DokployChanges, asked
<1>9. ASSUME NEW h \in Hash, SchemaMigrates(h)
      PROVE  TypeOK'
  BY <1>9 DEF SchemaMigrates, asked, history
<1>10. CASE UNCHANGED vars
  BY <1>10 DEF vars
<1> QED
  BY <1>1, <1>2, <1>3, <1>4, <1>5, <1>6, <1>7, <1>8, <1>9, <1>10 DEF Next

(* A call goes on for two servers, and its tables are supported ones.      *)
LEMMA WritableStep ==
    ASSUME TypeOK, TwoServers, ReadsListed, [Next]_vars
    PROVE  TwoServers' /\ ReadsListed'
<1> USE ConstantsAssumption, DryRunAssumption
    DEF TypeOK, Running, TwoServers, ReadsListed
<1>1. ASSUME NEW s \in Server, NEW t \in Server, Receive(s, t)
      PROVE  TwoServers' /\ ReadsListed'
  BY <1>1 DEF Receive, world
<1>2. CASE ReadSchema
  BY <1>2 DEF ReadSchema, world, asked, history
<1>3. CASE ReadTables
  BY <1>3 DEF ReadTables, SupportedTables, world, asked, history
<1>4. ASSUME NEW t \in Table, ReadTable(t)
      PROVE  TwoServers' /\ ReadsListed'
  BY <1>4 DEF ReadTable, IsFirst, InTable, world, asked, history
<1>5. CASE Finish
  BY <1>5 DEF Finish, world, asked, history
<1>6. CASE Fail
  BY <1>6 DEF Fail, world, asked, history
<1>7. CASE Leave
  BY <1>7 DEF Leave, world, asked
<1>8. ASSUME NEW r \in Res, NEW c \in Column, DokployChanges(r, c)
      PROVE  TwoServers' /\ ReadsListed'
  BY <1>8 DEF DokployChanges, asked
<1>9. ASSUME NEW h \in Hash, SchemaMigrates(h)
      PROVE  TwoServers' /\ ReadsListed'
  BY <1>9 DEF SchemaMigrates, asked, history
<1>10. CASE UNCHANGED vars
  BY <1>10 DEF vars
<1> QED
  BY <1>1, <1>2, <1>3, <1>4, <1>5, <1>6, <1>7, <1>8, <1>9, <1>10 DEF Next

(* No step hides a table from a plan that will be accepted, or lists a row *)
(* from elsewhere.                                                         *)
LEMMA PromiseStep ==
    DryRunInv /\ [Next]_vars =>
       HistoryFits' /\ NothingReadYet' /\ FingerprintIsEarlier'
       /\ NoTableForgotten' /\ Complete' /\ Sound'
<1> DEFINE Promise ==
       HistoryFits /\ NothingReadYet /\ FingerprintIsEarlier
       /\ NoTableForgotten /\ Complete /\ Sound
<1> SUFFICES ASSUME DryRunInv, [Next]_vars PROVE Promise'
  OBVIOUS
<1> USE ConstantsAssumption, DryRunAssumption
    DEF HistoryFits, Running, NothingReadYet, FingerprintIsEarlier,
        NoTableForgotten, Complete, Sound
<1>1. ASSUME NEW s \in Server, NEW t \in Server, Receive(s, t)
      PROVE  Promise'
  BY <1>1 DEF Receive, DryRunInv, world
<1>2. CASE ReadSchema
  BY <1>2 DEF ReadSchema, DryRunInv, TypeOK, world, asked, history
<1>3. CASE ReadTables
  BY <1>3 DEF ReadTables, DryRunInv, TypeOK, world, asked, history
<1>4. ASSUME NEW t \in Table, ReadTable(t)
      PROVE  Promise'
  BY <1>4 DEF ReadTable, InTable, OnServer, DryRunInv, TypeOK, world, asked,
     history
<1>5. CASE Finish
  BY <1>5 DEF Finish, DryRunInv, TypeOK, world, asked, history
<1>6. CASE Fail
  BY <1>6 DEF Fail, DryRunInv, world, asked, history
<1>7. CASE Leave
  BY <1>7 DEF Leave, DryRunInv, world, asked
<1>8. ASSUME NEW r \in Res, NEW c \in Column, DokployChanges(r, c)
      PROVE  Promise'
  BY <1>8 DEF DokployChanges, DryRunInv, TypeOK, asked, history
<1>9. ASSUME NEW h \in Hash, SchemaMigrates(h)
      PROVE  Promise'
  BY <1>9 DEF SchemaMigrates, DryRunInv, TypeOK, asked, history
<1>10. CASE UNCHANGED vars
  BY <1>10 DEF vars, DryRunInv, SupportedTables
<1> QED
  BY <1>1, <1>2, <1>3, <1>4, <1>5, <1>6, <1>7, <1>8, <1>9, <1>10 DEF Next

-----------------------------------------------------------------------------
(* The rows of a plan: each names a row of S and the two servers, no row   *)
(* twice, and none of S is left out.                                       *)
LEMMA RowsToMoveIs ==
    ASSUME source \in Server, target \in Server, NEW S \in SUBSET Res
    PROVE  /\ RowsToMove(S) \in Seq(PlanRow)
           /\ Len(RowsToMove(S)) = Cardinality(S)
           /\ \A i \in 1..Len(RowsToMove(S)) :
                 /\ RowsToMove(S)[i].res \in S
                 /\ RowsToMove(S)[i].old = source
                 /\ RowsToMove(S)[i].new = target
           /\ \A i, j \in 1..Len(RowsToMove(S)) :
                 RowsToMove(S)[i].res = RowsToMove(S)[j].res => i = j
           /\ \A r \in S :
                 \E i \in 1..Len(RowsToMove(S)) : RowsToMove(S)[i].res = r
<1> DEFINE n == Cardinality(S)
           list == RowsInOrder(S)
           rows == RowsToMove(S)
<1>1. /\ n \in Nat
      /\ list \in [1..n -> S]
      /\ \A i, j \in 1..n : list[i] = list[j] => i = j
      /\ \A r \in S : \E i \in 1..n : list[i] = r
  BY RowsInOrderIs
<1> HIDE DEF list, n
<1>2. rows = [i \in 1..n |-> [res |-> list[i], old |-> source, new |-> target]]
  BY DEF RowsToMove, list, n
<1> HIDE DEF rows
<1>3. \A i \in 1..n :
         /\ rows[i] \in PlanRow
         /\ rows[i].res = list[i] /\ rows[i].res \in S
         /\ rows[i].old = source /\ rows[i].new = target
  BY <1>1, <1>2 DEF PlanRow
<1>4. rows \in Seq(PlanRow) /\ Len(rows) = n
  <2>1. rows \in [1..n -> PlanRow]
    BY <1>2, <1>3
  <2> QED
    BY <1>1, <2>1
<1>5. \A i, j \in 1..Len(rows) : rows[i].res = rows[j].res => i = j
  BY <1>1, <1>3, <1>4
<1>6. \A r \in S : \E i \in 1..Len(rows) : rows[i].res = r
  BY <1>1, <1>3, <1>4
<1> QED
  BY <1>3, <1>4, <1>5, <1>6 DEF rows, n

LEMMA PlanIsWritable == DryRunInv => WritableIfUnchanged
<1> SUFFICES ASSUME DryRunInv, phase = "done", found # {},
                    found \subseteq OnServer(server, source)
             PROVE  /\ ValidForWrite(DryRunPlan)
                    /\ AllAtSource(server, DryRunPlan)
                    /\ Touched(DryRunPlan, Len(DryRunPlan.rows)) \subseteq Listed
                    /\ \A i, j \in 1..Len(DryRunPlan.rows) :
                          DryRunPlan.rows[i].res = DryRunPlan.rows[j].res
                             => i = j
  BY DEF WritableIfUnchanged
<1> DEFINE rows == RowsToMove(found)
<1>1. DryRunPlan.rows = rows /\ DryRunPlan.src = source /\ DryRunPlan.dst = target
  BY DEF DryRunPlan
<1>2. /\ source \in Server /\ target \in Server /\ source # target
      /\ found \in SUBSET Res /\ found \subseteq Listed
  BY DEF DryRunInv, TypeOK, TwoServers, ReadsListed
<1>3. /\ Len(rows) = Cardinality(found)
      /\ \A i \in 1..Len(rows) :
            /\ rows[i].res \in found
            /\ rows[i].old = source /\ rows[i].new = target
      /\ \A i, j \in 1..Len(rows) : rows[i].res = rows[j].res => i = j
  BY <1>2, RowsToMoveIs
<1>4. rows # <<>>
  <2>1. Len(rows) # 0
    BY <1>2, <1>3, RowsAreFinite, FS_EmptySet
  <2> QED
    BY <2>1
<1> HIDE DEF rows
<1>5. ValidForWrite(DryRunPlan)
  BY <1>1, <1>2, <1>3, <1>4 DEF ValidForWrite
<1>6. AllAtSource(server, DryRunPlan)
  BY <1>1, <1>3 DEF AllAtSource, OnServer, From
<1>7. Touched(DryRunPlan, Len(rows)) \subseteq Listed
  BY <1>1, <1>2, <1>3 DEF Touched
<1> QED
  BY <1>1, <1>3, <1>5, <1>6, <1>7

(* The invariant holds in every state of every dry run.                    *)
THEOREM DryRunInvariance == Spec => []DryRunInv
<1>1. Init => DryRunInv
  BY DryRunInitEstablishes
<1>2. DryRunInv /\ [Next]_vars => DryRunInv'
  BY TypeStep, WritableStep, PromiseStep DEF DryRunInv
<1> QED
  BY <1>1, <1>2, PTL DEF Spec

(* The state of a dry run keeps its types, and its plan has a fingerprint. *)
THEOREM DryRunTypeCorrect == Spec => []TypeOK
<1>1. DryRunInv => TypeOK
  BY DEF DryRunInv
<1> QED
  BY <1>1, DryRunInvariance, PTL

(* A plan that the write path would accept misses no row that was on the   *)
(* source all along, whatever Dokploy did to rows and schema meanwhile.    *)
THEOREM AcceptedPlanIsComplete == Spec => []Complete
<1>1. DryRunInv => Complete
  BY DEF DryRunInv
<1> QED
  BY <1>1, DryRunInvariance, PTL

(* A plan lists no row that never was on the source during the call.       *)
THEOREM PlanIsSound == Spec => []Sound
<1>1. DryRunInv => Sound
  BY DEF DryRunInv
<1> QED
  BY <1>1, DryRunInvariance, PTL

(* A plan that was read is one that the write path takes while nothing it  *)
(* read has changed: valid, at its source, of allowed tables, no row twice.*)
THEOREM PlanCanBeWritten == Spec => []WritableIfUnchanged
<1>1. DryRunInv => WritableIfUnchanged
  BY PlanIsWritable
<1> QED
  BY <1>1, DryRunInvariance, PTL

-----------------------------------------------------------------------------
(* The dry run and its commits.                                            *)
WP == INSTANCE RetargetTx_proofs WITH phase <- call

(* What joins the two invariants.  Calls run while the dry run that they   *)
(* follow is done, on a plan of its rows between its two servers ...       *)
CallsFollowDryRun == \A w \in Writer : call[w] # "idle" => phase = "done"

OfDryRun(p) ==
    /\ p.hash = hash
    /\ {p.src, p.dst} = {source, target}
    /\ \A i \in 1..Len(p.rows) : p.rows[i].res \in found

PlansOfDryRun == \A w \in Writer : call[w] # "idle" => OfDryRun(plan[w])

(* ... the rows that stayed are rows that the dry run kept ...             *)
StayedFits ==
    /\ phase = "idle" => stayed = {}
    /\ stayed \subseteq kept
    /\ phase \in Running => stayed = kept

(* ... and a call that has found the schema of its plan unchanged has the  *)
(* plan of a complete dry run, even if the schema has changed since.       *)
CheckedIsComplete ==
    \A w \in Writer :
       call[w] \in {"begin"} \cup WP!Open =>
          \A r \in kept : TableOf[r] \in SupportedTables(hash) => r \in found

MInv ==
    /\ DryRunInv
    /\ WP!IInv
    /\ CallsFollowDryRun /\ PlansOfDryRun
    /\ StayedFits
    /\ CheckedIsComplete

-----------------------------------------------------------------------------
(* Migration's calls are those of the proofs about RetargetTx.             *)
LEMMA SameCalls ==
    /\ W!TypeOK <=> WP!TypeOK
    /\ W!Init <=> WP!Init
    /\ W!Running = WP!Running /\ W!Open = WP!Open
    /\ \A q : W!Delivered(q) = Delivered(q) /\ WP!Delivered(q) = Delivered(q)
    /\ \A p : W!ValidForWrite(p) = ValidForWrite(p)
              /\ WP!ValidForWrite(p) = ValidForWrite(p)
    /\ WP!Request = Request
    /\ \A p, k : WP!Touched(p, k) = Touched(p, k)
    /\ \A s : WP!Marker(s) = Marker(s) /\ W!Marker(s) = Marker(s)
    /\ WP!Column = Column
<1>1. /\ W!TypeOK <=> WP!TypeOK
      /\ W!Init <=> WP!Init
      /\ W!Running = WP!Running /\ W!Open = WP!Open
      /\ WP!Column = Column
  BY DEF W!TypeOK, WP!TypeOK, W!Init, WP!Init, W!Running, WP!Running, W!Open,
     WP!Open, W!Column, WP!Column, Column, W!Marker, WP!Marker, Marker,
     W!Phase, WP!Phase, W!Plan, WP!Plan, W!PlanRow, WP!PlanRow
<1>2. \A q : W!Delivered(q) = Delivered(q) /\ WP!Delivered(q) = Delivered(q)
  BY DEF W!Delivered, WP!Delivered, Delivered, W!Reversed, WP!Reversed, Reversed
<1>3. \A p : W!ValidForWrite(p) = ValidForWrite(p)
             /\ WP!ValidForWrite(p) = ValidForWrite(p)
  BY DEF W!ValidForWrite, WP!ValidForWrite, ValidForWrite
<1>4. WP!Request = Request
  BY DEF WP!Request, Request, WP!Plan, Plan, WP!PlanRow, PlanRow
<1>5. /\ \A p, k : WP!Touched(p, k) = Touched(p, k)
      /\ \A s : WP!Marker(s) = Marker(s) /\ W!Marker(s) = Marker(s)
  BY DEF WP!Touched, Touched, WP!Marker, W!Marker, Marker
<1> QED
  BY <1>1, <1>2, <1>3, <1>4, <1>5

LEMMA SameCallSteps ==
    /\ \A w : W!Proceed(w) <=> WP!Proceed(w)
    /\ \A w : W!Fail(w) <=> WP!Fail(w)
    /\ \A w : W!DeadlockVictim(w) <=> WP!DeadlockVictim(w)
    /\ \A w : W!Leave(w) <=> WP!Leave(w)
    /\ \A w, q : W!Receive(w, q) <=> WP!Receive(w, q)
    /\ \A r, c : W!DokployChanges(r, c) <=> WP!DokployChanges(r, c)
    /\ \A h : W!SchemaMigrates(h) <=> WP!SchemaMigrates(h)
<1>1. \A w : W!Proceed(w) <=> WP!Proceed(w)
  BY DEF W!Proceed, WP!Proceed, W!CheckSchema, WP!CheckSchema, W!BeginTx,
     WP!BeginTx, W!RefuseRow, WP!RefuseRow, W!Miss, WP!Miss, W!Hit, WP!Hit,
     W!Block, WP!Block, W!Commit, WP!Commit, W!End, WP!End, W!Moved, WP!Moved,
     W!Marker, WP!Marker, W!RowsLeft, WP!RowsLeft, W!Row, WP!Row, W!Open,
     WP!Open, W!Decidable, WP!Decidable, W!Matches, WP!Matches, W!Visible,
     WP!Visible, W!From, WP!From, W!LockedByOther, WP!LockedByOther,
     W!SchemaApproved, WP!SchemaApproved
<1>2. \A w : W!Fail(w) <=> WP!Fail(w)
  BY DEF W!Fail, WP!Fail, W!End, WP!End, W!Running, WP!Running
<1>3. \A w : W!DeadlockVictim(w) <=> WP!DeadlockVictim(w)
  BY DEF W!DeadlockVictim, WP!DeadlockVictim, W!Deadlocked, WP!Deadlocked,
     W!End, WP!End, W!WaitsOn, WP!WaitsOn, W!Row, WP!Row
<1>4. /\ \A w : W!Leave(w) <=> WP!Leave(w)
      /\ \A r, c : W!DokployChanges(r, c) <=> WP!DokployChanges(r, c)
      /\ \A h : W!SchemaMigrates(h) <=> WP!SchemaMigrates(h)
  BY DEF W!Leave, WP!Leave, W!DokployChanges, WP!DokployChanges,
     W!SchemaMigrates, WP!SchemaMigrates
<1>5. \A w, q : W!Receive(w, q) <=> WP!Receive(w, q)
  BY SameCalls DEF W!Receive, WP!Receive
<1> QED
  BY <1>1, <1>2, <1>3, <1>4, <1>5

(* The invariant of the calls, in Migration's steps.                       *)
LEMMA CallsKeepIInv ==
    ASSUME WP!IInv,
           \/ UNCHANGED WP!vars
           \/ \E w \in Writer :
                 \/ W!Proceed(w) \/ W!Fail(w) \/ W!DeadlockVictim(w) \/ W!Leave(w)
           \/ \E w \in Writer, q \in Request : W!Receive(w, q)
           \/ \E r \in Res, c \in Column : W!DokployChanges(r, c)
           \/ \E h \in Hash : W!SchemaMigrates(h)
    PROVE  WP!IInv'
<1>1. WP!IInv /\ [WP!Next]_WP!vars => WP!IInv'
  BY WP!StepKeepsIInv, ConstantsAssumption
     DEF Request, Plan, PlanRow, WP!Request, WP!Plan, WP!PlanRow
<1>2. ASSUME NEW w \in Writer, NEW q \in Request, W!Receive(w, q)
      PROVE  WP!IInv'
  <2>1. q \in WP!Request /\ WP!Receive(w, q)
    BY <1>2, SameCalls, SameCallSteps
  <2> QED
    BY <2>1, WP!ReceiveKeepsIInv, ConstantsAssumption
       DEF Request, Plan, PlanRow, WP!Request, WP!Plan, WP!PlanRow
<1>3. ASSUME NEW w \in Writer,
             W!Proceed(w) \/ W!Fail(w) \/ W!DeadlockVictim(w) \/ W!Leave(w)
      PROVE  WP!Next
  BY <1>3, SameCallSteps DEF WP!Next
<1>4. ASSUME NEW r \in Res, NEW c \in Column, W!DokployChanges(r, c)
      PROVE  WP!Next
  BY <1>4, SameCalls, SameCallSteps DEF WP!Next
<1>5. ASSUME NEW h \in Hash, W!SchemaMigrates(h)
      PROVE  WP!Next
  BY <1>5, SameCallSteps DEF WP!Next
<1> QED
  BY <1>1, <1>2, <1>3, <1>4, <1>5

-----------------------------------------------------------------------------
(* A selection of the listed rows is a request, and what it delivers, be   *)
(* it turned round, is a plan of the dry run.                              *)
LEMMA SelectionIsOfDryRun ==
    ASSUME DryRunInv, phase = "done", NEW rows \in SUBSET found,
           NEW op \in {"apply", "rollback"}, NEW ok \in {hash, NoApproval}
    PROVE  LET q == [op |-> op, plan |-> Selection(rows), approval |-> ok]
           IN  q \in Request /\ OfDryRun(Delivered(q))
<1> DEFINE p == Selection(rows)
           q == [op |-> op, plan |-> p, approval |-> ok]
           n == Len(p.rows)
<1>1. hash \in Hash /\ source \in Server /\ target \in Server
      /\ rows \in SUBSET Res
  BY DEF DryRunInv, TypeOK
<1>2. /\ RowsToMove(rows) \in Seq(PlanRow)
      /\ \A i \in 1..Len(RowsToMove(rows)) : RowsToMove(rows)[i].res \in rows
  BY <1>1, RowsToMoveIs
<1>3. p = [src |-> source, dst |-> target, hash |-> hash,
           rows |-> RowsToMove(rows)]
  BY DEF Selection, DryRunPlan
<1>4. p \in Plan
  BY <1>1, <1>2, <1>3 DEF Plan
<1>5. q \in Request
  BY <1>1, <1>4 DEF Request
<1>6. n \in Nat /\ \A i \in 1..n : p.rows[i].res \in found
  BY <1>2, <1>3
<1>7. CASE op = "apply"
  <2>1. Delivered(q) = p
    BY <1>7 DEF Delivered
  <2> QED
    BY <1>3, <1>5, <1>6, <2>1 DEF OfDryRun
<1>8. CASE op = "rollback"
  <2> DEFINE back == [i \in 1..n |->
                        [p.rows[n + 1 - i] EXCEPT !.old = p.rows[n + 1 - i].new,
                                                  !.new = p.rows[n + 1 - i].old]]
  <2>1. Delivered(q) = [p EXCEPT !.src = p.dst, !.dst = p.src, !.rows = back]
    BY <1>8 DEF Delivered, Reversed
  <2>2. /\ Delivered(q).hash = hash /\ Delivered(q).rows = back
        /\ Delivered(q).src = target /\ Delivered(q).dst = source
    <3> HIDE DEF back, p, q
    <3> QED
      BY <1>3, <2>1
  <2>3. Len(back) = n
    BY <1>6
  <2>4. ASSUME NEW i \in 1..n
        PROVE  back[i].res \in found
    <3>1. n + 1 - i \in 1..n
      BY <1>6
    <3>2. p.rows[n + 1 - i] \in PlanRow /\ p.rows[n + 1 - i].res \in found
      BY <1>2, <1>3, <1>6, <3>1
    <3>3. back[i].res = p.rows[n + 1 - i].res
      BY <3>2 DEF PlanRow
    <3> QED
      BY <3>2, <3>3
  <2> HIDE DEF back
  <2> QED
    BY <1>5, <2>2, <2>3, <2>4 DEF OfDryRun
<1> QED
  BY <1>7, <1>8

(* What a call does by itself: its plan, the schema and the dry run stay,  *)
(* and it gets past its check of the schema only if its plan has the       *)
(* fingerprint that is current.                                            *)
LEMMA CallProceeds ==
    ASSUME WP!TypeOK, NEW w \in Writer,
           W!Proceed(w) \/ W!Fail(w) \/ W!DeadlockVictim(w)
    PROVE  /\ UNCHANGED <<schema, plan>>
           /\ call[w] # "idle"
           /\ \A v \in Writer \ {w} : call'[v] = call[v]
           /\ call'[w] \in {"begin"} \cup WP!Open =>
                 \/ call[w] \in {"begin"} \cup WP!Open
                 \/ plan[w].hash = schema
<1>1. call \in [Writer -> WP!Phase]
  BY DEF WP!TypeOK
<1>2. ASSUME NEW ans, W!End(w, ans), ans \in {"ok", "err"}
      PROVE  /\ \A v \in Writer \ {w} : call'[v] = call[v]
             /\ call'[w] \notin {"begin"} \cup WP!Open
  BY <1>1, <1>2 DEF W!End, WP!Open
<1>3. CASE W!CheckSchema(w)
  BY <1>1, <1>3 DEF W!CheckSchema, W!SchemaApproved, WP!Open
<1>4. CASE W!BeginTx(w) \/ W!Hit(w) \/ W!Block(w)
  BY <1>1, <1>4 DEF W!BeginTx, W!Hit, W!Block, W!Open, WP!Open
<1>5. CASE W!RefuseRow(w) \/ W!Miss(w) \/ W!Commit(w, "ok") \/ W!Commit(w, "err")
  BY <1>2, <1>5 DEF W!RefuseRow, W!Miss, W!Commit, W!Open
<1>6. CASE W!Fail(w)
  BY <1>2, <1>6 DEF W!Fail, W!Running
<1>7. CASE W!DeadlockVictim(w)
  BY <1>2, <1>7 DEF W!DeadlockVictim, W!Deadlocked, W!WaitsOn
<1> QED
  BY <1>3, <1>4, <1>5, <1>6, <1>7 DEF W!Proceed

-----------------------------------------------------------------------------
LEMMA InitEstablishesMInv == MigrationInit => MInv
<1> SUFFICES ASSUME MigrationInit PROVE MInv
  OBVIOUS
<1>1. DryRunInv
  BY DryRunInitEstablishes DEF MigrationInit
<1>2. WP!IInv
  <2>1. WP!Init => WP!IInv
    BY WP!InitIInv, ConstantsAssumption
       DEF Request, Plan, PlanRow, WP!Request, WP!Plan, WP!PlanRow
  <2> QED
    BY <2>1, SameCalls DEF MigrationInit
<1>3. \A w \in Writer : call[w] = "idle"
  BY DEF MigrationInit, W!Init
<1>4. StayedFits
  BY DEF MigrationInit, Init, StayedFits, Running
<1> QED
  BY <1>1, <1>2, <1>3, <1>4
     DEF MInv, CallsFollowDryRun, PlansOfDryRun, CheckedIsComplete, WP!Open

(* What becomes of the rows that stayed.                                   *)
Stays ==
    stayed' = IF phase' = "idle" THEN {}
              ELSE (IF phase = "idle" THEN kept' ELSE stayed)
                   \cap OnServer(server', source')

(* A step of the dry run: no call is under way.                            *)
LEMMA DryRunKeepsMInv ==
    ASSUME MInv, DryRuns, Stays
    PROVE  MInv'
<1>1. Next /\ UNCHANGED <<world, writers>>
  BY DEF DryRuns, Next, Receive, ReadSchema, ReadTables, ReadTable, Finish,
     Fail, Leave
<1>2. DryRunInv'
  BY <1>1, TypeStep, WritableStep, PromiseStep DEF MInv, DryRunInv
<1>3. WP!IInv'
  BY <1>1, CallsKeepIInv DEF MInv, WP!vars, world, writers
<1>4. \A w \in Writer : call[w] = "idle" /\ call'[w] = "idle"
  <2>1. phase # "done" \/ \A w \in Writer : call[w] = "idle"
    BY DEF DryRuns, Receive, ReadSchema, ReadTables, ReadTable, Finish, Fail,
       Running
  <2> QED
    BY <1>1, <2>1 DEF MInv, CallsFollowDryRun, writers
<1>5. StayedFits'
  <2>1. CASE phase = "idle"
    BY <1>2, <2>1
       DEF Stays, DryRuns, Receive, ReadSchema, ReadTables, ReadTable, Finish,
           Fail, Leave, Running, StayedFits, DryRunInv, HistoryFits, world
  <2>2. CASE phase # "idle" /\ phase' = "idle"
    BY <2>2 DEF Stays, StayedFits, Running
  <2>3. CASE phase # "idle" /\ phase' # "idle"
    <3>1. UNCHANGED <<server, source, kept>> /\ phase \in Running
      BY <2>3 DEF DryRuns, Receive, ReadSchema, ReadTables, ReadTable,
         Finish, Fail, Leave, Running, world, asked, history
    <3>2. kept \subseteq OnServer(server, source) /\ stayed = kept
      BY <3>1 DEF MInv, DryRunInv, HistoryFits, StayedFits
    <3>3. stayed' = kept \cap OnServer(server, source)
      BY <2>3, <3>1, <3>2 DEF Stays
    <3> QED
      BY <2>3, <3>1, <3>2, <3>3 DEF StayedFits
  <2> QED
    BY <2>1, <2>2, <2>3
<1> QED
  BY <1>2, <1>3, <1>4, <1>5
     DEF MInv, CallsFollowDryRun, PlansOfDryRun, CheckedIsComplete, WP!Open

(* The invariant of a dry run that is done does not look at the columns.   *)
LEMMA DoneIgnoresColumns ==
    ASSUME DryRunInv, phase = "done", UNCHANGED dryRun, UNCHANGED schema,
           server' \in [Res -> Column]
    PROVE  DryRunInv'
BY DEF DryRunInv, dryRun, asked, history, TypeOK, TwoServers, ReadsListed,
   HistoryFits, NothingReadYet, FingerprintIsEarlier, NoTableForgotten,
   Complete, Sound, Running, SupportedTables

LEMMA DoneStayedFits ==
    ASSUME MInv, phase = "done", UNCHANGED dryRun, Stays
    PROVE  StayedFits'
BY DEF MInv, StayedFits, Stays, dryRun, asked, history, Running

(* A step of a call, while the dry run that it follows is done.            *)
LEMMA WriteKeepsMInv ==
    ASSUME MInv, Writes, Stays
    PROVE  MInv'
<1>1. PICK w \in Writer :
         \/ Submits(w)
         \/ W!Proceed(w) \/ W!Fail(w) \/ W!DeadlockVictim(w) \/ W!Leave(w)
  BY DEF Writes
<1>2. UNCHANGED dryRun
  BY DEF Writes
<1>3. WP!IInv /\ WP!TypeOK /\ DryRunInv
  BY DEF MInv, WP!IInv
<1>4. CASE Submits(w)
  <2>1. phase = "done"
    BY <1>4 DEF Submits
  <2>2. PICK op \in {"apply", "rollback"}, rows \in SUBSET found,
             ok \in {hash, NoApproval} :
           W!Receive(w, [op |-> op, plan |-> Selection(rows), approval |-> ok])
    BY <1>4 DEF Submits
  <2> DEFINE q == [op |-> op, plan |-> Selection(rows), approval |-> ok]
  <2>3. q \in Request /\ OfDryRun(Delivered(q))
    BY <1>3, <2>1, SelectionIsOfDryRun
  <2>4. W!Receive(w, q)
    BY <2>2
  <2> HIDE DEF q
  <2>5. WP!IInv'
    BY <1>3, <2>3, <2>4, CallsKeepIInv
  <2>6. /\ UNCHANGED <<server, schema>>
        /\ plan' = [plan EXCEPT ![w] = Delivered(q)]
        /\ call' = [call EXCEPT ![w] = IF W!ValidForWrite(Delivered(q))
                                       THEN "check" ELSE "err"]
    BY <2>4, SameCalls DEF W!Receive
  <2>7. DryRunInv'
    BY <1>2, <1>3, <2>1, <2>6, DoneIgnoresColumns DEF DryRunInv, TypeOK
  <2>8. CallsFollowDryRun'
    BY <1>2, <2>1 DEF CallsFollowDryRun, dryRun
  <2>9. PlansOfDryRun'
    <3>1. \A v \in Writer \ {w} : plan'[v] = plan[v] /\ call'[v] = call[v]
      BY <1>3, <2>6 DEF WP!TypeOK
    <3>2. plan'[w] = Delivered(q)
      BY <1>3, <2>6 DEF WP!TypeOK
    <3> QED
      BY <1>2, <2>3, <3>1, <3>2
         DEF MInv, PlansOfDryRun, OfDryRun, dryRun, asked
  <2>10. CheckedIsComplete'
    <3>1. \A v \in Writer : call'[v] \in {"begin"} \cup WP!Open =>
             call[v] \in {"begin"} \cup WP!Open
      BY <1>3, <2>6 DEF WP!TypeOK, WP!Open
    <3> QED
      BY <1>2, <3>1
         DEF MInv, CheckedIsComplete, WP!Open, dryRun, history, SupportedTables
  <2> QED
    BY <1>2, <2>1, <2>5, <2>7, <2>8, <2>9, <2>10, DoneStayedFits DEF MInv
<1>5. CASE W!Proceed(w) \/ W!Fail(w) \/ W!DeadlockVictim(w)
  <2>1. /\ UNCHANGED <<schema, plan>>
        /\ call[w] # "idle"
        /\ \A v \in Writer \ {w} : call'[v] = call[v]
        /\ call'[w] \in {"begin"} \cup WP!Open =>
              \/ call[w] \in {"begin"} \cup WP!Open
              \/ plan[w].hash = schema
    BY <1>3, <1>5, CallProceeds
  <2>2. phase = "done" /\ phase' = "done"
    BY <1>2, <2>1 DEF MInv, CallsFollowDryRun, dryRun
  <2>3. WP!IInv'
    BY <1>3, <1>5, CallsKeepIInv
  <2>4. DryRunInv'
    BY <1>2, <1>3, <2>1, <2>2, <2>3, SameCalls, DoneIgnoresColumns
       DEF WP!IInv, WP!TypeOK
  <2>5. PlansOfDryRun' /\ CallsFollowDryRun'
    BY <1>2, <2>1, <2>2
       DEF MInv, PlansOfDryRun, CallsFollowDryRun, OfDryRun, dryRun, asked
  <2>6. CheckedIsComplete'
    <3>1. ASSUME NEW v \in Writer, call'[v] \in {"begin"} \cup WP!Open
          PROVE  \A r \in kept : TableOf[r] \in SupportedTables(hash) => r \in found
      <4>1. CASE call[v] \in {"begin"} \cup WP!Open
        BY <4>1 DEF MInv, CheckedIsComplete
      <4>2. CASE v = w /\ plan[w].hash = schema
        <5>1. hash = schema
          BY <2>1, <4>2 DEF MInv, PlansOfDryRun, OfDryRun
        <5> QED
          BY <1>3, <2>2, <5>1 DEF DryRunInv, Complete
      <4> QED
        BY <2>1, <3>1, <4>1, <4>2
    <3> QED
      BY <1>2, <3>1
         DEF CheckedIsComplete, WP!Open, dryRun, history, SupportedTables
  <2> QED
    BY <1>2, <2>2, <2>3, <2>4, <2>5, <2>6, DoneStayedFits DEF MInv
<1>6. CASE W!Leave(w)
  <2>1. /\ UNCHANGED <<server, schema>>
        /\ call[w] # "idle" /\ call'[w] = "idle"
        /\ \A v \in Writer \ {w} : call'[v] = call[v] /\ plan'[v] = plan[v]
    BY <1>3, <1>6 DEF W!Leave, WP!TypeOK
  <2>2. phase = "done" /\ phase' = "done"
    BY <1>2, <2>1 DEF MInv, CallsFollowDryRun, dryRun
  <2>3. WP!IInv'
    BY <1>3, <1>6, CallsKeepIInv
  <2>4. DryRunInv'
    BY <1>2, <1>3, <2>1, <2>2, DoneIgnoresColumns DEF DryRunInv, TypeOK
  <2>5. PlansOfDryRun' /\ CallsFollowDryRun' /\ CheckedIsComplete'
    BY <1>2, <2>1, <2>2
       DEF MInv, PlansOfDryRun, CallsFollowDryRun, CheckedIsComplete, OfDryRun,
           dryRun, asked, history, WP!Open, SupportedTables
  <2> QED
    BY <1>2, <2>2, <2>3, <2>4, <2>5, DoneStayedFits DEF MInv
<1> QED
  BY <1>1, <1>4, <1>5, <1>6

(* A step of Dokploy, at any time.                                         *)
LEMMA DokployKeepsMInv ==
    ASSUME MInv, Stays,
           \/ \E r \in Res, c \in Column :
                 DokployChanges(r, c) /\ W!DokployChanges(r, c)
           \/ \E h \in Hash : SchemaMigrates(h) /\ W!SchemaMigrates(h)
    PROVE  MInv'
<1>1. Next
  BY DEF Next
<1>2. DryRunInv'
  BY <1>1, TypeStep, WritableStep, PromiseStep DEF MInv, DryRunInv
<1>3. WP!IInv'
  BY CallsKeepIInv DEF MInv
<1>4. UNCHANGED <<phase, source, target, hash, tables, found, call, plan>>
  BY DEF DokployChanges, W!DokployChanges, SchemaMigrates, W!SchemaMigrates,
     asked
<1>5. phase \notin Running => UNCHANGED <<kept, seen>>
  BY DEF DokployChanges, SchemaMigrates, history
<1>6. phase \in Running =>
         kept' = kept \cap OnServer(server', source)
  <2>1. kept \subseteq OnServer(server, source) \/ phase \notin Running
    BY DEF MInv, DryRunInv, HistoryFits
  <2> QED
    BY <2>1 DEF DokployChanges, SchemaMigrates, history
<1>7. CallsFollowDryRun' /\ PlansOfDryRun'
  BY <1>4 DEF MInv, CallsFollowDryRun, PlansOfDryRun, OfDryRun
<1>8. CheckedIsComplete'
  <2>1. ASSUME NEW v \in Writer, call'[v] \in {"begin"} \cup WP!Open
        PROVE  /\ UNCHANGED <<kept, found, hash>>
               /\ call[v] \in {"begin"} \cup WP!Open
    BY <1>4, <1>5, <2>1 DEF MInv, CallsFollowDryRun, Running, WP!Open
  <2> QED
    BY <2>1 DEF MInv, CheckedIsComplete, SupportedTables, WP!Open
<1>9. StayedFits'
  <2>1. CASE phase = "idle"
    BY <1>4, <2>1 DEF Stays, StayedFits, Running
  <2>2. CASE phase \in Running
    BY <1>4, <1>6, <2>2 DEF Stays, StayedFits, Running, MInv
  <2>3. CASE phase \notin Running \cup {"idle"}
    BY <1>4, <1>5, <2>3 DEF Stays, StayedFits, MInv, Running
  <2> QED
    BY <2>1, <2>2, <2>3
<1> QED
  BY <1>2, <1>3, <1>7, <1>8, <1>9 DEF MInv

LEMMA StepKeepsMInv == MInv /\ [MigrationNext]_migrationVars => MInv'
<1> SUFFICES ASSUME MInv, [MigrationNext]_migrationVars PROVE MInv'
  OBVIOUS
<1>1. CASE MigrationNext
  BY <1>1, DryRunKeepsMInv, WriteKeepsMInv, DokployKeepsMInv
     DEF MigrationNext, Step, Stays
<1>2. CASE UNCHANGED migrationVars
  <2>1. UNCHANGED vars /\ UNCHANGED WP!vars /\ UNCHANGED <<call, plan, stayed>>
    BY <1>2 DEF migrationVars, vars, WP!vars, world, dryRun, writers, asked,
       history
  <2>2. DryRunInv'
    BY <2>1, TypeStep, WritableStep, PromiseStep DEF MInv, DryRunInv
  <2>3. WP!IInv'
    BY <2>1, CallsKeepIInv DEF MInv
  <2>4. CallsFollowDryRun' /\ PlansOfDryRun' /\ StayedFits' /\ CheckedIsComplete'
    BY <2>1 DEF MInv, vars, history, asked, CallsFollowDryRun, PlansOfDryRun,
       OfDryRun, StayedFits, CheckedIsComplete, SupportedTables, WP!Open, Running
  <2> QED
    BY <2>2, <2>3, <2>4 DEF MInv
<1> QED
  BY <1>1, <1>2

(* A commit in terms of the dry run: the rows of the plan, each of which   *)
(* is listed and on the one server, are on the other.                      *)
LEMMA CommitMovesPlan ==
    ASSUME MInv, NEW w \in Writer, Commits(w)
    PROVE  LET p == plan[w]
               rows == Touched(p, Len(p.rows))
           IN  /\ call[w] = "rows" /\ OfDryRun(p) /\ ValidForWrite(p)
               /\ p \in Plan
               /\ \A r \in rows : r \in found /\ server[r] = Marker(p.src)
               /\ server' = Moved(server, rows, p.dst)
<1> DEFINE p == plan[w]
           n == Len(p.rows)
<1>1. /\ call[w] = "rows" /\ ~W!RowsLeft(w)
      /\ server' = W!Moved(server, held[w], p.dst)
  BY DEF Commits, W!Commit
<1>2. OfDryRun(p)
  BY <1>1 DEF MInv, PlansOfDryRun
<1>3. p # NoPlan /\ ValidForWrite(p)
  BY <1>1, SameCalls DEF MInv, WP!IInv, WP!ProgressMatchesLocks, WP!Running
<1>4. p \in Plan /\ n \in Nat
  <2>1. p \in WP!Plan
    BY <1>3 DEF MInv, WP!IInv, WP!TypeOK
  <2>2. WP!Plan = Plan
    BY DEF WP!Plan, WP!PlanRow, Plan, PlanRow
  <2> QED
    BY <2>1, <2>2 DEF Plan
<1>5. held[w] = Touched(p, n)
  <2>1. next[w] \in 1..(n + 1) /\ held[w] = Touched(p, next[w] - 1)
    BY <1>1, SameCalls DEF MInv, WP!IInv, WP!ProgressMatchesLocks, WP!Open
  <2>2. ~(next[w] <= n)
    BY <1>1 DEF W!RowsLeft
  <2>3. next[w] - 1 = n
    BY <1>4, <2>1, <2>2
  <2> QED
    BY <2>1, <2>3
<1>6. \A r \in Touched(p, n) : r \in found
  BY <1>2 DEF OfDryRun, Touched
<1>7. \A r \in Touched(p, n) : server[r] = Marker(p.src)
  BY <1>5, SameCalls DEF MInv, WP!IInv, WP!LockedRowsUnchanged
<1>8. server' = Moved(server, Touched(p, n), p.dst)
  BY <1>1, <1>5, SameCalls DEF W!Moved, Moved
<1> QED
  BY <1>1, <1>2, <1>3, <1>4, <1>6, <1>7, <1>8

LEMMA CommitLeavesNothing ==
    ASSUME MInv, NEW w \in Writer, Commits(w), plan[w].rows = DryRunPlan.rows,
           NEW r \in stayed, TableOf[r] \in SupportedTables(hash)
    PROVE  server'[r] = Marker(target)
<1> DEFINE p == plan[w]
           n == Len(p.rows)
<1>1. /\ call[w] = "rows" /\ OfDryRun(p) /\ ValidForWrite(p) /\ p \in Plan
      /\ server' = Moved(server, Touched(p, n), p.dst)
  BY CommitMovesPlan
<1>2. r \in found
  <2>1. r \in kept
    BY DEF MInv, StayedFits
  <2> QED
    BY <1>1, <2>1 DEF MInv, CheckedIsComplete, WP!Open
<1>3. /\ source \in Server /\ target \in Server /\ found \in SUBSET Res
  BY DEF MInv, DryRunInv, TypeOK
<1>4. p.rows = RowsToMove(found)
  BY DEF DryRunPlan
<1>5. PICK i \in 1..n : p.rows[i].res = r
  BY <1>2, <1>3, <1>4, RowsToMoveIs
<1>6. p.rows[i].new = target
  BY <1>3, <1>4, RowsToMoveIs
<1>7. p.dst = target /\ r \in Touched(p, n)
  BY <1>1, <1>5, <1>6 DEF ValidForWrite, Touched
<1> QED
  BY <1>1, <1>2, <1>3, <1>7 DEF Moved

LEMMA CommitMovesReviewed ==
    ASSUME MInv, NEW w \in Writer, Commits(w),
           NEW r \in Res, server'[r] # server[r]
    PROVE  /\ r \in found \cap seen
           /\ {server[r], server'[r]} = {Marker(source), Marker(target)}
<1> DEFINE p == plan[w]
           rows == Touched(p, Len(p.rows))
<1>1. /\ OfDryRun(p)
      /\ \A x \in rows : x \in found /\ server[x] = Marker(p.src)
      /\ server' = Moved(server, rows, p.dst)
  BY CommitMovesPlan
<1>2. r \in rows /\ server'[r] = Marker(p.dst)
  BY <1>1 DEF Moved
<1>3. {p.src, p.dst} = {source, target}
  BY <1>1 DEF OfDryRun
<1>4. r \in seen
  BY <1>1, <1>2 DEF MInv, DryRunInv, Sound
<1> HIDE DEF p
<1>5. \/ p.src = source /\ p.dst = target
      \/ p.src = target /\ p.dst = source
  BY <1>3
<1> QED
  BY <1>1, <1>2, <1>4, <1>5

-----------------------------------------------------------------------------
(* The invariant of dry runs and the calls that follow them.               *)
THEOREM MigrationInvariance == MigrationSpec => []MInv
<1>1. MigrationInit => MInv
  BY InitEstablishesMInv
<1>2. MInv /\ [MigrationNext]_migrationVars => MInv'
  BY StepKeepsMInv
<1> QED
  BY <1>1, <1>2, PTL DEF MigrationSpec

(* Every variable keeps its type, and while a dry run runs the rows that   *)
(* stayed are the rows that it has kept.                                   *)
THEOREM MigrationTypeCorrect == MigrationSpec => []MigrationTypeOK
<1>1. MInv => MigrationTypeOK
  BY SameCalls DEF MInv, DryRunInv, WP!IInv, StayedFits, MigrationTypeOK
<1> QED
  BY <1>1, MigrationInvariance, PTL

(* What a dry run promises, it promises while plans are written too.       *)
THEOREM PromisesOutliveCommits ==
    MigrationSpec => [](Complete /\ Sound /\ WritableIfUnchanged)
<1>1. MInv => Complete /\ Sound /\ WritableIfUnchanged
  BY PlanIsWritable DEF MInv, DryRunInv
<1> QED
  BY <1>1, MigrationInvariance, PTL

(* A commit of the whole plan of a dry run moves every row of a supported  *)
(* table that was on the source from the beginning of the dry run to the   *)
(* commit, whatever Dokploy did to other rows and to its schema meanwhile. *)
THEOREM WholePlanLeavesNothing == MigrationSpec => NothingLeftBehind
<1>1. MInv /\ [MigrationNext]_migrationVars =>
         [\A w \in Writer :
             Commits(w) /\ plan[w].rows = DryRunPlan.rows =>
                \A r \in stayed :
                   TableOf[r] \in SupportedTables(hash) =>
                      server'[r] = Marker(target)]_migrationVars
  BY CommitLeavesNothing
<1> QED
  BY <1>1, MigrationInvariance, PTL DEF MigrationSpec, NothingLeftBehind

(* A commit moves nothing that the dry run did not list, or that was not   *)
(* on the source while it ran, and between its two servers only.           *)
THEOREM OnlyReviewedMoves == MigrationSpec => MovesOnlyReviewed
<1>1. MInv /\ [MigrationNext]_migrationVars =>
         [\A w \in Writer :
             Commits(w) =>
                \A r \in Res : server'[r] # server[r] =>
                   /\ r \in found \cap seen
                   /\ {server[r], server'[r]} =
                        {Marker(source), Marker(target)}]_migrationVars
  BY CommitMovesReviewed
<1> QED
  BY <1>1, MigrationInvariance, PTL DEF MigrationSpec, MovesOnlyReviewed
-----------------------------------------------------------------------------
(* The promise of a write, whatever plan it is asked for.                  *)
Promise == INSTANCE Retarget WITH answer <- WP!Answer, Requests <- Request

(* It is the one that the proofs about RetargetTx are about.               *)
LEMMA SamePromise ==
    /\ WP!R!Init <=> Promise!Init
    /\ \A w, q : WP!R!Ask(w, q) <=> Promise!Ask(w, q)
    /\ \A w : WP!R!Write(w) <=> Promise!Write(w)
    /\ \A w : WP!R!Refuse(w) <=> Promise!Refuse(w)
    /\ \A w : WP!R!Leave(w) <=> Promise!Leave(w)
    /\ \A r, c : WP!R!DokployChanges(r, c) <=> Promise!DokployChanges(r, c)
    /\ WP!R!Column = Promise!Column
    /\ Promise!Request = Request
<1>1. \A w, q : WP!R!Ask(w, q) <=> Promise!Ask(w, q)
  BY DEF WP!R!Ask, Promise!Ask, WP!R!Delivered, Promise!Delivered,
     WP!R!Reversed, Promise!Reversed
<1>2. \A w : WP!R!Write(w) <=> Promise!Write(w)
  BY DEF WP!R!Write, Promise!Write, WP!R!ValidForWrite, Promise!ValidForWrite,
     WP!R!AllAtSource, Promise!AllAtSource, WP!R!From, Promise!From,
     WP!R!Marker, Promise!Marker, WP!R!Moved, Promise!Moved,
     WP!R!Touched, Promise!Touched
<1>3. /\ \A w : WP!R!Refuse(w) <=> Promise!Refuse(w)
      /\ \A w : WP!R!Leave(w) <=> Promise!Leave(w)
      /\ \A r, c : WP!R!DokployChanges(r, c) <=> Promise!DokployChanges(r, c)
  BY DEF WP!R!Refuse, Promise!Refuse, WP!R!Leave, Promise!Leave,
     WP!R!DokployChanges, Promise!DokployChanges
<1>4. WP!R!Column = Promise!Column
  BY DEF WP!R!Column, Promise!Column, WP!R!Marker, Promise!Marker
<1>5. WP!R!Init <=> Promise!Init
  BY <1>4 DEF WP!R!Init, Promise!Init
<1>6. Promise!Request = Request
  BY DEF Promise!Request, Request, Promise!Plan, Plan, Promise!PlanRow, PlanRow
<1> QED
  BY <1>1, <1>2, <1>3, <1>4, <1>5, <1>6

LEMMA InitPromises == MigrationInit => Promise!Init
<1>1. WP!Init => WP!R!Init
  BY WP!InitRefines, ConstantsAssumption
     DEF Request, Plan, PlanRow, WP!Request, WP!Plan, WP!PlanRow
<1> QED
  BY <1>1, SameCalls, SamePromise DEF MigrationInit

(* A step of RetargetTx, whoever takes it, is a step of the promise.       *)
LEMMA CallStepPromises ==
    ASSUME WP!IInv, [WP!Next]_WP!vars
    PROVE  [Promise!Next]_Promise!vars
<1>1. [WP!R!Next]_WP!R!vars
  BY WP!StepRefines, ConstantsAssumption
     DEF Request, Plan, PlanRow, WP!Request, WP!Plan, WP!PlanRow
<1>2. CASE UNCHANGED WP!R!vars
  BY <1>2 DEF WP!R!vars, Promise!vars
<1>3. CASE WP!R!Next
  <2>1. Requests \subseteq Request
    BY ConstantsAssumption
  <2>2. Promise!Next
    BY <1>3, <2>1, SamePromise DEF WP!R!Next, Promise!Next
  <2> QED
    BY <2>2
<1> QED
  BY <1>1, <1>2, <1>3

LEMMA StepPromises ==
    MInv /\ [MigrationNext]_migrationVars => [Promise!Next]_Promise!vars
<1> SUFFICES ASSUME MInv, [MigrationNext]_migrationVars
             PROVE  [Promise!Next]_Promise!vars
  OBVIOUS
<1>1. WP!IInv /\ DryRunInv
  BY DEF MInv
<1>2. CASE UNCHANGED migrationVars \/ DryRuns
  <2>1. UNCHANGED WP!vars
    BY <1>2 DEF migrationVars, WP!vars, world, writers, DryRuns, Receive,
       ReadSchema, ReadTables, ReadTable, Finish, Fail, Leave
  <2> QED
    BY <1>1, <2>1, CallStepPromises
<1>3. ASSUME NEW w \in Writer, Submits(w)
      PROVE  Promise!Next
  <2>1. phase = "done"
    BY <1>3 DEF Submits
  <2>2. PICK op \in {"apply", "rollback"}, rows \in SUBSET found,
             ok \in {hash, NoApproval} :
           W!Receive(w, [op |-> op, plan |-> Selection(rows), approval |-> ok])
    BY <1>3 DEF Submits
  <2> DEFINE q == [op |-> op, plan |-> Selection(rows), approval |-> ok]
  <2>3. q \in Request
    BY <1>1, <2>1, SelectionIsOfDryRun
  <2>4. WP!Receive(w, q)
    BY <2>2, SameCallSteps
  <2> HIDE DEF q
  <2>5. WP!R!Ask(w, q)
    BY <1>1, <2>4, WP!ReceiveRefines, ConstantsAssumption
       DEF Request, Plan, PlanRow, WP!Request, WP!Plan, WP!PlanRow
  <2> QED
    BY <2>3, <2>5, SamePromise DEF Promise!Next
<1>4. ASSUME NEW w \in Writer,
             W!Proceed(w) \/ W!Fail(w) \/ W!DeadlockVictim(w) \/ W!Leave(w)
      PROVE  WP!Next
  BY <1>4, SameCallSteps DEF WP!Next
<1>5. ASSUME \/ \E r \in Res, c \in Column : W!DokployChanges(r, c)
             \/ \E h \in Hash : W!SchemaMigrates(h)
      PROVE  WP!Next
  BY <1>5, SameCalls, SameCallSteps DEF WP!Next
<1>6. WP!Next \/ UNCHANGED WP!vars => [Promise!Next]_Promise!vars
  BY <1>1, CallStepPromises
<1>7. CASE Writes
  BY <1>3, <1>4, <1>6, <1>7 DEF Writes
<1>8. CASE MigrationNext
  BY <1>2, <1>5, <1>6, <1>7, <1>8 DEF MigrationNext, Step
<1> QED
  BY <1>2, <1>8

(* The way from a dry run to its commits keeps the promise of a write: for *)
(* plans that are whatever the dry run found, and what the operator left   *)
(* of it, each call moves all of its rows or none, from the reviewed       *)
(* state, while the next dry runs read the same database.                  *)
THEOREM MigrationRefinement == MigrationSpec => Promise!Spec
<1>1. MigrationInit => Promise!Init
  BY InitPromises
<1>2. MInv /\ [MigrationNext]_migrationVars => [Promise!Next]_Promise!vars
  BY StepPromises
<1> QED
  BY <1>1, <1>2, MigrationInvariance, PTL DEF MigrationSpec, Promise!Spec
=============================================================================
