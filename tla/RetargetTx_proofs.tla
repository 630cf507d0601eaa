-------------------------- MODULE RetargetTx_proofs --------------------------
(***************************************************************************)
(* Proofs about the adapter's transaction, for any number of calls, rows,  *)
(* servers and plans: the inductive invariant, that the transaction        *)
(* implements the one-step write of Retarget, and that no call is stuck or *)
(* goes on without end.                                                    *)
(***************************************************************************)
EXTENDS RetargetTx, Ordering_proofs, TLAPS

IInv == TypeOK /\ ProgressMatchesLocks /\ LockedRowsUnchanged

-----------------------------------------------------------------------------
(* Reversing a plan gives a plan, so every delivered request is one.       *)
LEMMA DeliveredIsPlan ==
    ASSUME NEW q \in Request
    PROVE  Delivered(q) \in Plan /\ Delivered(q) # NoPlan /\
           q.approval \in Hash \cup {NoApproval}
<1>1. q.plan \in Plan /\ q.approval \in Hash \cup {NoApproval}
  BY DEF Request
<1>2. Reversed(q.plan) \in Plan
  <2> DEFINE p == q.plan
             n == Len(p.rows)
             back == [i \in 1..n |->
                        [p.rows[n + 1 - i] EXCEPT !.old = p.rows[n + 1 - i].new,
                                                  !.new = p.rows[n + 1 - i].old]]
  <2>1. p.rows \in Seq(PlanRow) /\ n \in Nat
    BY <1>1 DEF Plan
  <2>2. ASSUME NEW i \in 1..n
        PROVE  back[i] \in PlanRow
    <3>1. n + 1 - i \in 1..n
      BY <2>1
    <3>2. p.rows[n + 1 - i] \in PlanRow
      BY <2>1, <3>1
    <3> QED
      BY <3>2 DEF PlanRow
  <2>3. back \in Seq(PlanRow)
    <3>1. back \in [1..n -> PlanRow]
      BY <2>2
    <3> HIDE DEF back, n
    <3> QED
      BY <2>1, <3>1
  <2>4. Reversed(p) = [p EXCEPT !.src = p.dst, !.dst = p.src, !.rows = back]
    BY DEF Reversed
  <2> HIDE DEF back
  <2> QED
    BY <1>1, <2>3, <2>4 DEF Plan
<1> QED
  BY <1>1, <1>2, ConstantsAssumption DEF Delivered

(* The row at which a running call is belongs to the plan: it moves a      *)
(* resource from the plan's source to the plan's target.                   *)
LEMMA RowOfPlan ==
    ASSUME NEW p \in Plan, ValidForWrite(p),
           NEW i \in Nat, 1 <= i, i <= Len(p.rows)
    PROVE  /\ p.rows[i].res \in Res
           /\ From(p.rows[i]) = Marker(p.src)
           /\ To(p.rows[i]) = Marker(p.dst)
           /\ p.src \in Server /\ p.dst \in Server
           /\ Touched(p, i) = Touched(p, i - 1) \cup {p.rows[i].res}
<1>1. p.rows \in Seq(PlanRow) /\ p.src \in Server /\ p.dst \in Server
  BY DEF Plan
<1>2. i \in 1..Len(p.rows)
  BY <1>1
<1>3. p.rows[i] \in PlanRow
  BY <1>1, <1>2
<1>4. p.rows[i].old = p.src /\ p.rows[i].new = p.dst
  BY <1>2 DEF ValidForWrite
<1>5. 1..i = (1..(i - 1)) \cup {i}
  OBVIOUS
<1>6. Touched(p, i) = Touched(p, i - 1) \cup {p.rows[i].res}
  BY <1>5 DEF Touched
<1> QED
  BY <1>1, <1>3, <1>4, <1>6 DEF PlanRow, From, To

(* A commit and a Dokploy change leave the columns well typed.             *)
LEMMA MovedIsTyped ==
    ASSUME NEW srv \in [Res -> Column], NEW S, NEW s \in Server
    PROVE  Moved(srv, S, s) \in [Res -> Column]
BY DEF Moved, Column

-----------------------------------------------------------------------------
LEMMA InitIInv == Init => IInv
BY DEF Init, IInv, TypeOK, ProgressMatchesLocks, LockedRowsUnchanged, Phase,
       Running, Open

(* Ending a call keeps the invariant whatever becomes of the columns of    *)
(* the rows that it alone had locked.                                      *)
LEMMA EndKeepsIInv ==
    ASSUME IInv, NEW w \in Writer, NEW ans \in {"ok", "err"}, End(w, ans),
           UNCHANGED <<schema, plan, approval>>,
           server' \in [Res -> Column],
           \A r \in Res \ held[w] : server'[r] = server[r]
    PROVE  IInv'
<1> USE DEF IInv
<1>1. TypeOK'
  BY DEF TypeOK, End, Phase
<1>2. ProgressMatchesLocks'
  BY DEF TypeOK, ProgressMatchesLocks, End, Running, Open
<1>3. LockedRowsUnchanged'
  <2>1. ASSUME NEW v \in Writer
        PROVE  /\ \A u \in Writer \ {v} : held'[v] \cap held'[u] = {}
               /\ \A r \in held'[v] : server'[r] = Marker(plan'[v].src)
    <3>1. CASE v = w
      BY <3>1 DEF TypeOK, End
    <3>2. CASE v # w
      <4>1. held'[v] = held[v] /\ held[v] \cap held[w] = {}
        BY <3>2 DEF TypeOK, LockedRowsUnchanged, End
      <4>2. \A u \in Writer : held'[u] \subseteq held[u]
        BY DEF TypeOK, End
      <4>3. \A u \in Writer \ {v} : held'[v] \cap held'[u] = {}
        BY <4>1, <4>2 DEF LockedRowsUnchanged
      <4>4. ASSUME NEW r \in held'[v]
            PROVE  server'[r] = Marker(plan'[v].src)
        <5>1. r \in held[v] /\ r \in Res \ held[w]
          BY <4>1, <4>4 DEF TypeOK
        <5> QED
          BY <5>1 DEF LockedRowsUnchanged
      <4> QED
        BY <4>3, <4>4
    <3> QED
      BY <3>1, <3>2
  <2> QED
    BY <2>1 DEF LockedRowsUnchanged
<1> QED
  BY <1>1, <1>2, <1>3

-----------------------------------------------------------------------------
(* A call takes any request that the adapter is given.                     *)
LEMMA ReceiveKeepsIInv ==
    ASSUME IInv, NEW w \in Writer, NEW q \in Request, Receive(w, q)
    PROVE  IInv'
<1> USE DEF IInv
<1>1. /\ Delivered(q) \in Plan /\ Delivered(q) # NoPlan
      /\ q.approval \in Hash \cup {NoApproval}
  BY DeliveredIsPlan
<1>2. held[w] = {} /\ next[w] = 1
  BY DEF Receive, ProgressMatchesLocks, Open
<1>3. TypeOK'
  BY <1>1 DEF Receive, TypeOK, Phase
<1>4. ProgressMatchesLocks'
  BY <1>1, <1>2 DEF Receive, TypeOK, ProgressMatchesLocks, Running, Open
<1>5. LockedRowsUnchanged'
  BY <1>2 DEF Receive, TypeOK, LockedRowsUnchanged
<1> QED
  BY <1>3, <1>4, <1>5

LEMMA StepKeepsIInv == IInv /\ [Next]_vars => IInv'
<1> SUFFICES ASSUME IInv, [Next]_vars PROVE IInv'
  OBVIOUS
<1> USE DEF IInv
<1>1. CASE UNCHANGED vars
  BY <1>1 DEF vars, TypeOK, ProgressMatchesLocks, LockedRowsUnchanged, Running,
       Open, Touched
<1>2. ASSUME NEW w \in Writer, NEW q \in Requests, Receive(w, q)
      PROVE  IInv'
  BY <1>2, ReceiveKeepsIInv, ConstantsAssumption
<1>3. ASSUME NEW w \in Writer, CheckSchema(w)
      PROVE  IInv'
  BY <1>3 DEF CheckSchema, TypeOK, ProgressMatchesLocks, LockedRowsUnchanged,
       Phase, Running, Open
<1>4. ASSUME NEW w \in Writer, BeginTx(w)
      PROVE  IInv'
  <2>1. plan[w] # NoPlan /\ ValidForWrite(plan[w]) /\ next[w] = 1 /\ held[w] = {}
    BY <1>4 DEF BeginTx, ProgressMatchesLocks, Running, Open
  <2>2. plan[w] \in Plan
    BY <2>1 DEF TypeOK
  <2>3. Touched(plan[w], 1 - 1) = {} /\ 1 \in 1..(Len(plan[w].rows) + 1)
    BY <2>2 DEF Touched, Plan
  <2>4. TypeOK' /\ LockedRowsUnchanged'
    BY <1>4 DEF BeginTx, TypeOK, LockedRowsUnchanged, Phase
  <2>5. ProgressMatchesLocks'
    <3>1. /\ phase' = [phase EXCEPT ![w] = "rows"]
          /\ UNCHANGED <<plan, next, held>>
      BY <1>4 DEF BeginTx
    <3>2. "rows" \in Running /\ "rows" \in Open
      BY DEF Running, Open
    <3> QED
      BY <2>1, <2>3, <3>1, <3>2 DEF TypeOK, ProgressMatchesLocks
  <2> QED
    BY <2>4, <2>5
<1>5. ASSUME NEW w \in Writer,
             RefuseRow(w) \/ Miss(w) \/ Fail(w) \/ DeadlockVictim(w)
      PROVE  IInv'
  <2>1. End(w, "err") /\ UNCHANGED <<server, schema, plan, approval>>
    BY <1>5 DEF RefuseRow, Miss, Fail, DeadlockVictim
  <2> QED
    BY <2>1, EndKeepsIInv DEF TypeOK
<1>6. ASSUME NEW w \in Writer, Hit(w)
      PROVE  IInv'
  <2> DEFINE r == Row(w).res
  <2>1. plan[w] # NoPlan /\ ValidForWrite(plan[w])
    BY <1>6 DEF Hit, ProgressMatchesLocks, Running, Open
  <2>2. plan[w] \in Plan /\ Len(plan[w].rows) \in Nat
    BY <2>1 DEF TypeOK, Plan
  <2>3. next[w] \in 1..Len(plan[w].rows) /\ held[w] = Touched(plan[w], next[w] - 1)
    BY <1>6, <2>2 DEF Hit, ProgressMatchesLocks, RowsLeft
  <2>4. /\ r \in Res /\ From(Row(w)) = Marker(plan[w].src)
        /\ Touched(plan[w], next[w]) = Touched(plan[w], next[w] - 1) \cup {r}
    BY <2>1, <2>2, <2>3, RowOfPlan DEF Row
  <2>5. TypeOK'
    BY <1>6, <2>4 DEF Hit, TypeOK, Phase
  <2>6. ProgressMatchesLocks'
    <3> DEFINE n == Len(plan[w].rows)
    <3>1. /\ next'[w] = next[w] + 1 /\ next'[w] - 1 = next[w]
          /\ next'[w] \in 1..(n + 1)
      BY <1>6, <2>2, <2>3 DEF Hit, TypeOK
    <3>2. held'[w] = Touched(plan[w], next'[w] - 1)
      BY <1>6, <2>3, <2>4, <3>1 DEF Hit, TypeOK
    <3>3. phase'[w] = "rows" /\ plan' = plan
      BY <1>6 DEF Hit, TypeOK
    <3>4. \A v \in Writer \ {w} :
             phase'[v] = phase[v] /\ next'[v] = next[v] /\ held'[v] = held[v]
      BY <1>6 DEF Hit, TypeOK
    <3>5. ASSUME NEW v \in Writer \ {w}
          PROVE  /\ phase'[v] \in Running =>
                       plan'[v] # NoPlan /\ ValidForWrite(plan'[v])
                 /\ phase'[v] \in Open =>
                       /\ next'[v] \in 1..(Len(plan'[v].rows) + 1)
                       /\ held'[v] = Touched(plan'[v], next'[v] - 1)
                 /\ phase'[v] \notin Open => next'[v] = 1 /\ held'[v] = {}
      BY <3>3, <3>4 DEF ProgressMatchesLocks
    <3> QED
      BY <2>1, <3>1, <3>2, <3>3, <3>5 DEF ProgressMatchesLocks, Running, Open
  <2>7. LockedRowsUnchanged'
    <3>1. /\ held' = [held EXCEPT ![w] = held[w] \cup {r}]
          /\ \A v \in Writer \ {w} : r \notin held[v]
          /\ UNCHANGED <<server, plan>>
      BY <1>6 DEF Hit, LockedByOther
    <3>2. r \notin held[w] => server[r] = Marker(plan[w].src)
      BY <1>6, <2>4 DEF Hit, Matches, Visible
    <3>3. \A x \in held'[w] : server[x] = Marker(plan[w].src)
      BY <3>1, <3>2 DEF TypeOK, LockedRowsUnchanged
    <3> HIDE DEF r
    <3> QED
      BY <3>1, <3>3 DEF TypeOK, LockedRowsUnchanged
  <2> QED
    BY <2>5, <2>6, <2>7
<1>7. ASSUME NEW w \in Writer, Block(w)
      PROVE  IInv'
  BY <1>7 DEF Block, TypeOK, ProgressMatchesLocks, LockedRowsUnchanged,
       Phase, Running, Open
<1>8. ASSUME NEW w \in Writer, NEW ans \in {"ok", "err"}, Commit(w, ans)
      PROVE  IInv'
  <2>1. plan[w] # NoPlan
    BY <1>8 DEF Commit, ProgressMatchesLocks, Running
  <2>2. plan[w].dst \in Server
    BY <2>1 DEF TypeOK, Plan
  <2>3. server' \in [Res -> Column]
    BY <1>8, <2>2, MovedIsTyped DEF Commit, TypeOK
  <2>4. \A r \in Res \ held[w] : server'[r] = server[r]
    BY <1>8 DEF Commit, Moved
  <2> QED
    BY <1>8, <2>3, <2>4, EndKeepsIInv DEF Commit
<1>9. ASSUME NEW w \in Writer, Leave(w)
      PROVE  IInv'
  <2>1. held[w] = {} /\ next[w] = 1
    BY <1>9 DEF Leave, ProgressMatchesLocks, Open
  <2>2. TypeOK'
    BY <1>9 DEF Leave, TypeOK, Phase
  <2>3. ProgressMatchesLocks'
    BY <1>9, <2>1 DEF Leave, TypeOK, ProgressMatchesLocks, Running, Open
  <2>4. LockedRowsUnchanged'
    BY <1>9, <2>1 DEF Leave, TypeOK, LockedRowsUnchanged
  <2> QED
    BY <2>2, <2>3, <2>4
<1>10. ASSUME NEW r \in Res, NEW c \in Column, DokployChanges(r, c)
       PROVE  IInv'
  <2>1. TypeOK'
    BY <1>10 DEF DokployChanges, TypeOK
  <2>2. ProgressMatchesLocks'
    BY <1>10 DEF DokployChanges, ProgressMatchesLocks
  <2>3. LockedRowsUnchanged'
    BY <1>10 DEF DokployChanges, TypeOK, LockedRowsUnchanged
  <2> QED
    BY <2>1, <2>2, <2>3
<1>11. ASSUME NEW h \in Hash, SchemaMigrates(h)
       PROVE  IInv'
  BY <1>11 DEF SchemaMigrates, TypeOK, ProgressMatchesLocks, LockedRowsUnchanged
<1> QED
  BY <1>1, <1>2, <1>3, <1>4, <1>5, <1>6, <1>7, <1>8, <1>9, <1>10, <1>11
     DEF Next, Proceed

THEOREM Invariance == Spec => []IInv
<1>1. Init => IInv
  BY InitIInv
<1>2. IInv /\ [Next]_vars => IInv'
  BY StepKeepsIInv
<1> QED
  BY <1>1, <1>2, PTL DEF Spec

(* Whatever the calls, every variable keeps its type; in particular the    *)
(* local server never reaches a serverId column as a literal.              *)
THEOREM TypeCorrect == Spec => []TypeOK
<1>1. IInv => TypeOK
  BY DEF IInv
<1> QED
  BY <1>1, Invariance, PTL

(* A row that an open transaction has updated belongs to it alone, and its *)
(* committed column still names the source of the reviewed plan.           *)
THEOREM LocksProtectReview == Spec => []LockedRowsUnchanged
<1>1. IInv => LockedRowsUnchanged
  BY DEF IInv
<1> QED
  BY <1>1, Invariance, PTL

(* No open transaction has skipped a row, and no ended call keeps one.     *)
THEOREM NoRowSkipped == Spec => []ProgressMatchesLocks
<1>1. IInv => ProgressMatchesLocks
  BY DEF IInv
<1> QED
  BY <1>1, Invariance, PTL

-----------------------------------------------------------------------------
(* Retarget's copies of the shared operators are the same operators.       *)
LEMMA SharedOperators ==
    /\ R!Column = Column
    /\ \A q : R!Delivered(q) = Delivered(q)
    /\ \A p : R!ValidForWrite(p) = ValidForWrite(p)
    /\ \A srv, p : R!AllAtSource(srv, p) = AllAtSource(srv, p)
    /\ \A p, k : R!Touched(p, k) = Touched(p, k)
    /\ \A srv, S, s : R!Moved(srv, S, s) = Moved(srv, S, s)
<1>1. R!Column = Column
  BY DEF R!Column, Column, R!Marker, Marker
<1>2. \A q : R!Delivered(q) = Delivered(q)
  BY DEF R!Delivered, Delivered, R!Reversed, Reversed
<1>3. \A p : R!ValidForWrite(p) = ValidForWrite(p)
  BY DEF R!ValidForWrite, ValidForWrite
<1>4. \A srv, p : R!AllAtSource(srv, p) = AllAtSource(srv, p)
  BY DEF R!AllAtSource, AllAtSource, R!From, From, R!Marker, Marker
<1>5. \A p, k : R!Touched(p, k) = Touched(p, k)
  BY DEF R!Touched, Touched
<1>6. \A srv, S, s : R!Moved(srv, S, s) = Moved(srv, S, s)
  BY DEF R!Moved, Moved, R!Marker, Marker
<1> QED
  BY <1>1, <1>2, <1>3, <1>4, <1>5, <1>6

LEMMA InitRefines == Init => R!Init
<1> SUFFICES ASSUME Init PROVE R!Init
  OBVIOUS
<1>1. \A w \in Writer : phase[w] = "idle"
  BY DEF Init
<1>2. Answer = [w \in Writer |-> "idle"]
  BY <1>1 DEF Answer, Running
<1> QED
  BY <1>2, SharedOperators DEF Init, R!Init

(* The end of a call, seen from outside.                                   *)
LEMMA AnswerAfterEnd ==
    ASSUME TypeOK, NEW w \in Writer, NEW ans \in {"ok", "err"},
           phase[w] \in Running, phase' = [phase EXCEPT ![w] = ans]
    PROVE  Answer[w] = "pending" /\ Answer' = [Answer EXCEPT ![w] = ans]
BY DEF TypeOK, Answer, Running

(* A commit is the one-step write: the loop has updated every row of the   *)
(* plan, each of them is locked and still at the plan's source.            *)
LEMMA CommitRefines ==
    ASSUME IInv, NEW w \in Writer, NEW ans \in {"ok", "err"}, Commit(w, ans)
    PROVE  R!Write(w)
<1> DEFINE p == plan[w]
           n == Len(p.rows)
<1>1. p # NoPlan /\ ValidForWrite(p) /\ phase[w] \in Running
  BY DEF Commit, IInv, ProgressMatchesLocks, Running
<1>2. p \in Plan /\ n \in Nat
  BY <1>1 DEF IInv, TypeOK, Plan
<1>3. next[w] = n + 1 /\ held[w] = Touched(p, n)
  <2>1. next[w] \in 1..(n + 1) /\ held[w] = Touched(p, next[w] - 1)
    BY DEF Commit, IInv, ProgressMatchesLocks, Open
  <2>2. ~(next[w] <= n)
    BY DEF Commit, RowsLeft
  <2>3. next[w] = n + 1 /\ next[w] - 1 = n
    BY <1>2, <2>1, <2>2
  <2> QED
    BY <2>1, <2>3
<1>4. AllAtSource(server, p)
  <2>1. ASSUME NEW i \in 1..n
        PROVE  server[p.rows[i].res] = From(p.rows[i])
    <3>1. From(p.rows[i]) = Marker(p.src)
      BY <1>1, <1>2, RowOfPlan
    <3>2. p.rows[i].res \in held[w]
      BY <1>3 DEF Touched
    <3> QED
      BY <3>1, <3>2 DEF IInv, LockedRowsUnchanged
  <2> QED
    BY <2>1 DEF AllAtSource
<1>5. server' = Moved(server, Touched(p, n), p.dst) /\ UNCHANGED plan
  BY <1>3 DEF Commit
<1>6. Answer[w] = "pending" /\ Answer' = [Answer EXCEPT ![w] = ans]
  BY <1>1, AnswerAfterEnd DEF Commit, End, IInv
<1> QED
  BY <1>1, <1>4, <1>5, <1>6, SharedOperators DEF R!Write

(* A call that is taken on is a request that is asked.                     *)
LEMMA ReceiveRefines ==
    ASSUME IInv, NEW w \in Writer, NEW q, Receive(w, q)
    PROVE  R!Ask(w, q)
<1>1. Answer[w] = "idle"
  BY DEF Receive, Answer, Running
<1>2. \E a \in {"pending", "err"} : Answer' = [Answer EXCEPT ![w] = a]
  <2>1. CASE phase' = [phase EXCEPT ![w] = "check"]
    <3>1. Answer' = [Answer EXCEPT ![w] = "pending"]
      BY <2>1 DEF IInv, TypeOK, Answer, Running
    <3> QED
      BY <3>1
  <2>2. CASE phase' = [phase EXCEPT ![w] = "err"]
    <3>1. Answer' = [Answer EXCEPT ![w] = "err"]
      BY <2>2 DEF IInv, TypeOK, Answer, Running
    <3> QED
      BY <3>1
  <2> QED
    BY <2>1, <2>2 DEF Receive
<1> QED
  BY <1>1, <1>2, SharedOperators DEF Receive, R!Ask

LEMMA StepRefines == IInv /\ [Next]_vars => [R!Next]_R!vars
<1> SUFFICES ASSUME IInv, [Next]_vars PROVE [R!Next]_R!vars
  OBVIOUS
<1>1. CASE UNCHANGED vars
  BY <1>1 DEF vars, R!vars, Answer
<1>2. ASSUME NEW w \in Writer, NEW q \in Requests, Receive(w, q)
      PROVE  R!Ask(w, q)
  BY <1>2, ReceiveRefines
<1>3. ASSUME NEW w \in Writer, CheckSchema(w)
      PROVE  UNCHANGED R!vars \/ R!Refuse(w)
  <2>1. CASE phase' = [phase EXCEPT ![w] = "begin"]
    BY <1>3, <2>1 DEF CheckSchema, IInv, TypeOK, R!vars, Answer, Running
  <2>2. CASE phase' = [phase EXCEPT ![w] = "err"]
    BY <1>3, <2>2, AnswerAfterEnd DEF CheckSchema, IInv, R!Refuse, Running
  <2> QED
    BY <1>3, <2>1, <2>2 DEF CheckSchema
<1>4. ASSUME NEW w \in Writer, BeginTx(w) \/ Hit(w) \/ Block(w)
      PROVE  UNCHANGED R!vars
  <2>1. UNCHANGED <<server, plan>>
    BY <1>4 DEF BeginTx, Hit, Block
  <2>2. /\ phase[w] \in Running
        /\ \E x \in Open : phase' = [phase EXCEPT ![w] = x]
    BY <1>4 DEF BeginTx, Hit, Block, Open, Running
  <2> QED
    BY <2>1, <2>2 DEF IInv, TypeOK, R!vars, Answer, Running, Open
<1>5. ASSUME NEW w \in Writer,
             RefuseRow(w) \/ Miss(w) \/ Fail(w) \/ DeadlockVictim(w)
      PROVE  R!Refuse(w)
  <2>1. phase' = [phase EXCEPT ![w] = "err"] /\ UNCHANGED <<server, plan>>
    BY <1>5 DEF RefuseRow, Miss, Fail, DeadlockVictim, End
  <2>2. phase[w] \in Running
    BY <1>5 DEF RefuseRow, Miss, Fail, DeadlockVictim, Deadlocked, WaitsOn,
         Running, Open
  <2> QED
    BY <2>1, <2>2, AnswerAfterEnd DEF R!Refuse, IInv
<1>6. ASSUME NEW w \in Writer, Leave(w)
      PROVE  R!Leave(w)
  <2>1. Answer[w] \in {"ok", "err"}
    BY <1>6 DEF Leave, Answer, Running
  <2>2. Answer' = [Answer EXCEPT ![w] = "idle"]
    BY <1>6 DEF Leave, IInv, TypeOK, Answer, Running
  <2> QED
    BY <1>6, <2>1, <2>2 DEF Leave, R!Leave
<1>7. ASSUME NEW r \in Res, NEW c \in Column, DokployChanges(r, c)
      PROVE  R!DokployChanges(r, c)
  BY <1>7 DEF DokployChanges, R!DokployChanges, Answer
<1>8. ASSUME NEW h \in Hash, SchemaMigrates(h)
      PROVE  UNCHANGED R!vars
  BY <1>8 DEF SchemaMigrates, R!vars, Answer
<1>9. ASSUME NEW w \in Writer, Proceed(w) \/ Fail(w) \/ DeadlockVictim(w)
      PROVE  R!Write(w) \/ R!Refuse(w) \/ UNCHANGED R!vars
  BY <1>3, <1>4, <1>5, <1>9, CommitRefines DEF Proceed
<1> QED
  BY <1>1, <1>2, <1>6, <1>7, <1>8, <1>9, SharedOperators DEF Next, R!Next

(* The row-by-row transaction implements the one-step write: for any       *)
(* number of concurrent calls, what is committed of a plan is all of it or *)
(* nothing, and only from the state that was reviewed.                     *)
THEOREM Refinement == Spec => ImplementsRetarget
<1>1. Init => R!Init
  BY InitRefines
<1>2. IInv /\ [Next]_vars => [R!Next]_R!vars
  BY StepRefines
<1> QED
  BY <1>1, <1>2, Invariance, PTL DEF Spec, ImplementsRetarget, R!Spec
-----------------------------------------------------------------------------
(* Nobody is stuck: the part of CallsReturn that one state shows.          *)

(* A finite set each of whose elements points at one of them has a part in *)
(* which each is pointed at, too: the smallest such set.                   *)
LEMMA Core ==
    ASSUME NEW C, IsFiniteSet(C), C # {}, NEW E,
           \A v \in C : \E u \in C : <<v, u>> \in E
    PROVE  \E D \in SUBSET C :
              /\ D # {}
              /\ \A v \in D : \E u \in D : <<v, u>> \in E
              /\ \A v \in D : \E u \in D : <<u, v>> \in E
<1> DEFINE Pointing(D) == D # {} /\ \A v \in D : \E u \in D : <<v, u>> \in E
           Parts == {D \in SUBSET C : Pointing(D)}
           Sizes == {Cardinality(D) : D \in Parts}
<1>1. \A D \in SUBSET C : IsFiniteSet(D) /\ Cardinality(D) \in Nat
  BY FS_Subset, FS_CardinalityType
<1>2. C \in Parts
  OBVIOUS
<1>3. Sizes \in SUBSET Nat /\ Sizes # {}
  BY <1>1, <1>2
<1>4. PICK n \in Sizes : \A m \in Sizes : n <= m
  BY <1>3, Least
<1>5. PICK D \in Parts : Cardinality(D) = n
  BY <1>4
<1>6. ASSUME NEW v \in D, \A u \in D : <<u, v>> \notin E
      PROVE  FALSE
  <2> DEFINE rest == D \ {v}
  <2>1. rest \in Parts
    <3>1. D \in SUBSET C /\ \A x \in D : \E u \in D : <<x, u>> \in E
      BY <1>5
    <3>2. \A x \in D : \E u \in rest : <<x, u>> \in E
      BY <1>6, <3>1
    <3>3. rest # {}
      BY <3>2
    <3> QED
      BY <3>1, <3>2, <3>3
  <2>2. Cardinality(rest) = Cardinality(D) - 1
    BY <1>1, <1>5, FS_RemoveElement
  <2>3. Cardinality(rest) \in Sizes
    BY <2>1
  <2>4. n <= Cardinality(rest) /\ Cardinality(D) = n /\ n \in Nat
    BY <1>3, <1>4, <1>5, <2>3
  <2> HIDE DEF rest
  <2> QED
    BY <2>2, <2>4
<1> QED
  BY <1>5, <1>6

(* A call that waits is at a row that the UPDATE may name.                 *)
WaitsAtRow ==
    \A w \in Writer :
       phase[w] = "waiting" => RowsLeft(w) /\ Row(w).res \in Listed

LEMMA WaitsAtRowStep == IInv /\ WaitsAtRow /\ [Next]_vars => WaitsAtRow'
<1> SUFFICES ASSUME IInv, WaitsAtRow, [Next]_vars, NEW v \in Writer,
                    phase'[v] = "waiting"
             PROVE  RowsLeft(v)' /\ Row(v).res' \in Listed
  BY DEF WaitsAtRow
<1>1. ASSUME phase[v] = "waiting", plan'[v] = plan[v], next'[v] = next[v]
      PROVE  RowsLeft(v)' /\ Row(v).res' \in Listed
  BY <1>1 DEF WaitsAtRow, RowsLeft, Row
<1>2. ASSUME NEW w \in Writer, Block(w)
      PROVE  RowsLeft(v)' /\ Row(v).res' \in Listed
  <2>1. UNCHANGED <<plan, next>> /\ phase' = [phase EXCEPT ![w] = "waiting"]
    BY <1>2 DEF Block
  <2>2. CASE v = w
    BY <1>2, <2>1, <2>2 DEF Block, RowsLeft, Row
  <2>3. CASE v # w
    BY <1>1, <2>1, <2>3 DEF IInv, TypeOK
  <2> QED
    BY <2>2, <2>3
<1>3. ASSUME NEW w \in Writer,
             \/ CheckSchema(w) \/ BeginTx(w) \/ RefuseRow(w) \/ Miss(w)
             \/ Hit(w) \/ Commit(w, "ok") \/ Commit(w, "err")
             \/ Fail(w) \/ DeadlockVictim(w) \/ Leave(w)
      PROVE  RowsLeft(v)' /\ Row(v).res' \in Listed
  <2>1. \E x \in Phase \ {"waiting"} : phase' = [phase EXCEPT ![w] = x]
    BY <1>3 DEF CheckSchema, BeginTx, RefuseRow, Miss, Hit, Commit, Fail,
       DeadlockVictim, Leave, End, Phase
  <2>2. v # w /\ phase[v] = "waiting"
    BY <2>1 DEF IInv, TypeOK
  <2>3. plan'[v] = plan[v] /\ next'[v] = next[v]
    BY <1>3, <2>2 DEF CheckSchema, BeginTx, RefuseRow, Miss, Hit, Commit, Fail,
       DeadlockVictim, Leave, End, IInv, TypeOK
  <2> QED
    BY <1>1, <2>2, <2>3
<1>4. ASSUME NEW w \in Writer, NEW q \in Requests, Receive(w, q)
      PROVE  RowsLeft(v)' /\ Row(v).res' \in Listed
  <2>1. v # w /\ phase[v] = "waiting"
    BY <1>4 DEF Receive, IInv, TypeOK
  <2>2. plan'[v] = plan[v] /\ next'[v] = next[v]
    BY <1>4, <2>1 DEF Receive, IInv, TypeOK
  <2> QED
    BY <1>1, <2>1, <2>2
<1>5. ASSUME \/ \E r \in Res, c \in Column : DokployChanges(r, c)
             \/ \E h \in Hash : SchemaMigrates(h)
             \/ UNCHANGED vars
      PROVE  RowsLeft(v)' /\ Row(v).res' \in Listed
  BY <1>1, <1>5 DEF DokployChanges, SchemaMigrates, vars
<1> QED
  BY <1>2, <1>3, <1>4, <1>5 DEF Next, Proceed

(* A call has a step of its own: outside its UPDATEs, at an UPDATE that it *)
(* tries for the first time, whatever it finds, and at one that it has     *)
(* waited for as soon as the lock is released.                             *)
CanGoOn(w) ==
    \/ phase[w] \in {"check", "begin", "rows"}
    \/ /\ phase[w] = "waiting" /\ RowsLeft(w) /\ Row(w).res \in Listed
       /\ ~LockedByOther(w, Row(w).res)

(* A call that runs, and all that it waits for, itself or through others:  *)
(* one of them can go on, or PostgreSQL finds a cycle to resolve.          *)
NobodyStuck ==
    \A C \in SUBSET Writer :
       /\ \E w \in C : phase[w] \in Running
       /\ \A v \in C, u \in Writer : WaitsOn(v, u) => u \in C
       => \E v \in C : CanGoOn(v) \/ Deadlocked(v)

LEMMA NobodyStuckHolds ==
    ASSUME IsFiniteSet(Writer), IInv, WaitsAtRow
    PROVE  NobodyStuck
<1> SUFFICES ASSUME NEW C \in SUBSET Writer,
                    \E w \in C : phase[w] \in Running,
                    \A v \in C, u \in Writer : WaitsOn(v, u) => u \in C,
                    \A v \in C : ~CanGoOn(v)
             PROVE  \E v \in C : Deadlocked(v)
  BY DEF NobodyStuck
<1> DEFINE B == {v \in C : phase[v] \in Running}
           E == {e \in B \X B : WaitsOn(e[1], e[2])}
<1>1. IsFiniteSet(B) /\ B # {}
  BY FS_Subset
<1>2. ASSUME NEW v \in B
      PROVE  \E u \in B : <<v, u>> \in E
  <2>1. phase[v] = "waiting"
    BY DEF CanGoOn, Running
  <2>2. LockedByOther(v, Row(v).res)
    BY <2>1 DEF CanGoOn, WaitsAtRow
  <2>3. PICK u \in Writer : Row(v).res \in held[u]
    BY <2>2 DEF LockedByOther
  <2>4. WaitsOn(v, u) /\ u \in C
    BY <2>1, <2>3 DEF WaitsOn
  <2>5. phase[u] \in Running
    BY <2>3 DEF IInv, ProgressMatchesLocks, Open, Running
  <2>6. <<v, u>> \in B \X B /\ WaitsOn(<<v, u>>[1], <<v, u>>[2])
    BY <2>4, <2>5
  <2> QED
    BY <2>4, <2>5, <2>6
<1> HIDE DEF B
<1>3. PICK D \in SUBSET B :
         /\ D # {}
         /\ \A v \in D : \E u \in D : <<v, u>> \in E
         /\ \A v \in D : \E u \in D : <<u, v>> \in E
  BY <1>1, <1>2, Core
<1>4. \A v, u \in D : <<v, u>> \in E => WaitsOn(v, u)
  OBVIOUS
<1>5. D \in SUBSET Writer /\ D \subseteq C
  BY DEF B
<1>6. \A v \in D : Deadlocked(v)
  BY <1>3, <1>4, <1>5 DEF Deadlocked
<1> QED
  BY <1>3, <1>5, <1>6

(* For any finite number of calls, whatever the order of the rows in their *)
(* plans: no call waits in a state in which neither one of those that it   *)
(* waits for has a step of its own nor a deadlock is there to be detected. *)
(* What fairness has to add for CallsReturn is that these steps are taken. *)
THEOREM NobodyIsStuck ==
    ASSUME IsFiniteSet(Writer)
    PROVE  Spec => []NobodyStuck
<1>1. Init => WaitsAtRow
  BY DEF Init, WaitsAtRow
<1>2. IInv /\ WaitsAtRow /\ [Next]_vars => WaitsAtRow'
  BY WaitsAtRowStep
<1>3. IInv /\ WaitsAtRow => NobodyStuck
  BY NobodyStuckHolds
<1> QED
  BY <1>1, <1>2, <1>3, Invariance, PTL DEF Spec

(* How many steps a call may still take: one or two for each row that is   *)
(* left, according to whether its UPDATE has to wait, and three around the *)
(* loop.                                                                   *)
RowsToDo(w) == Len(plan[w].rows) + 1 - next[w]

StepsLeft(w) ==
    CASE phase[w] = "check"   -> 2 * RowsToDo(w) + 4
      [] phase[w] = "begin"   -> 2 * RowsToDo(w) + 3
      [] phase[w] = "rows"    -> 2 * RowsToDo(w) + 2
      [] phase[w] = "waiting" -> 2 * RowsToDo(w) + 1
      [] OTHER                -> 0

(* Each step of a call brings it nearer to its return, and no step of      *)
(* another call, of Dokploy or of a migration sets it back.                *)
EachStepCounts ==
    \A w \in Writer :
       /\ Proceed(w) \/ Fail(w) \/ DeadlockVictim(w) =>
             StepsLeft(w)' < StepsLeft(w)
       /\ phase[w] \in Running => StepsLeft(w)' <= StepsLeft(w)

LEMMA StepsLeftIs ==
    ASSUME IInv, NEW w \in Writer
    PROVE  /\ StepsLeft(w) \in Nat
           /\ phase[w] \in Running => StepsLeft(w) > 0
           /\ phase[w] \in Running => RowsToDo(w) \in Nat
<1>1. CASE phase[w] \in Running
  <2>1. ValidForWrite(plan[w]) /\ plan[w] # NoPlan
    BY <1>1 DEF IInv, ProgressMatchesLocks
  <2>2. Len(plan[w].rows) \in Nat
    BY <2>1 DEF IInv, TypeOK, Plan
  <2>3. next[w] \in 1..(Len(plan[w].rows) + 1)
    BY <1>1, <2>2 DEF IInv, ProgressMatchesLocks, Open, Running
  <2>4. RowsToDo(w) \in Nat
    BY <2>2, <2>3 DEF RowsToDo
  <2> HIDE DEF RowsToDo
  <2> QED
    BY <1>1, <2>4 DEF StepsLeft, Running
<1>2. CASE phase[w] \notin Running
  BY <1>2 DEF StepsLeft, Running
<1> QED
  BY <1>1, <1>2

(* A call whose variables a step leaves alone has as much left as before.  *)
LEMMA OthersDoNotCount ==
    ASSUME NEW w \in Writer, phase'[w] = phase[w], plan'[w] = plan[w],
           next'[w] = next[w]
    PROVE  StepsLeft(w)' = StepsLeft(w)
BY DEF StepsLeft, RowsToDo

LEMMA OwnStepsCount ==
    ASSUME IInv, NEW w \in Writer,
           Proceed(w) \/ Fail(w) \/ DeadlockVictim(w)
    PROVE  /\ StepsLeft(w)' \in Int /\ StepsLeft(w)' < StepsLeft(w)
           /\ \A v \in Writer \ {w} :
                 /\ phase'[v] = phase[v] /\ plan'[v] = plan[v]
                 /\ next'[v] = next[v]
<1>1. phase[w] \in Running
  BY DEF Proceed, CheckSchema, BeginTx, RefuseRow, Miss, Hit, Block, Commit,
     Fail, DeadlockVictim, Deadlocked, WaitsOn, Running, Open
<1>2. plan' = plan
  BY DEF Proceed, CheckSchema, BeginTx, RefuseRow, Miss, Hit, Block, Commit,
     Fail, DeadlockVictim
<1>3. \E x \in Phase, n \in Nat :
         /\ phase' = [phase EXCEPT ![w] = x]
         /\ next' = [next EXCEPT ![w] = n]
         /\ \/ x \notin Running
            \/ phase[w] = "check" /\ x = "begin" /\ n = next[w]
            \/ phase[w] = "begin" /\ x = "rows" /\ n = next[w]
            \/ phase[w] = "rows" /\ x = "waiting" /\ n = next[w]
            \/ phase[w] \in Open /\ x = "rows" /\ n = next[w] + 1
  <2>1. next[w] \in Nat /\ next \in [Writer -> Nat]
    BY DEF IInv, TypeOK
  <2>2. next' = next => next' = [next EXCEPT ![w] = next[w]]
    BY <2>1
  <2>3. CASE CheckSchema(w)
    BY <2>1, <2>2, <2>3 DEF CheckSchema, Phase, Running
  <2>4. CASE BeginTx(w)
    BY <2>1, <2>2, <2>4 DEF BeginTx, Phase
  <2>5. CASE Block(w)
    BY <2>1, <2>2, <2>5 DEF Block, Phase
  <2>6. CASE Hit(w)
    <3>1. /\ phase' = [phase EXCEPT ![w] = "rows"]
          /\ next' = [next EXCEPT ![w] = next[w] + 1]
          /\ phase[w] \in Open
      BY <2>6 DEF Hit
    <3>2. next[w] + 1 \in Nat /\ "rows" \in Phase
      BY <2>1 DEF Phase
    <3> QED
      BY <3>1, <3>2
  <2>7. CASE \/ RefuseRow(w) \/ Miss(w) \/ Commit(w, "ok") \/ Commit(w, "err")
             \/ Fail(w) \/ DeadlockVictim(w)
    <3>1. \E x \in {"ok", "err"} : End(w, x)
      BY <2>7 DEF RefuseRow, Miss, Commit, Fail, DeadlockVictim
    <3> QED
      BY <3>1 DEF End, Phase, Running
  <2> QED
    BY <2>3, <2>4, <2>5, <2>6, <2>7 DEF Proceed
<1>4. PICK x \in Phase, n \in Nat :
         /\ phase' = [phase EXCEPT ![w] = x]
         /\ next' = [next EXCEPT ![w] = n]
         /\ \/ x \notin Running
            \/ phase[w] = "check" /\ x = "begin" /\ n = next[w]
            \/ phase[w] = "begin" /\ x = "rows" /\ n = next[w]
            \/ phase[w] = "rows" /\ x = "waiting" /\ n = next[w]
            \/ phase[w] \in Open /\ x = "rows" /\ n = next[w] + 1
  BY <1>3
<1>5. phase'[w] = x /\ next'[w] = n
  BY <1>4 DEF IInv, TypeOK
<1>6. StepsLeft(w)' \in Int /\ StepsLeft(w)' < StepsLeft(w)
  <2>1. CASE x \notin Running
    <3>1. StepsLeft(w)' = 0
      BY <1>5, <2>1 DEF StepsLeft, Running
    <3> QED
      BY <1>1, <3>1, StepsLeftIs
  <2>2. CASE x \in Running
    <3>1. RowsToDo(w) \in Nat
      BY <1>1, StepsLeftIs
    <3>2. Len(plan[w].rows) \in Nat /\ next[w] \in Nat
      <4>1. plan[w] \in Plan
        BY <1>1 DEF IInv, ProgressMatchesLocks, TypeOK
      <4> QED
        BY <4>1 DEF IInv, TypeOK, Plan
    <3>3. RowsToDo(w)' = RowsToDo(w) + next[w] - n
      BY <1>2, <1>4, <1>5, <3>2 DEF RowsToDo
    <3> HIDE DEF RowsToDo
    <3>4. CASE phase[w] = "check" /\ x = "begin" /\ n = next[w]
      <4>1. StepsLeft(w) = 2 * RowsToDo(w) + 4 /\ StepsLeft(w)' = 2 * RowsToDo(w)' + 3
        BY <1>5, <3>4 DEF StepsLeft
      <4>2. RowsToDo(w)' = RowsToDo(w)
        BY <3>1, <3>2, <3>3, <3>4
      <4> QED
        BY <3>1, <4>1, <4>2
    <3>5. CASE phase[w] = "begin" /\ x = "rows" /\ n = next[w]
      <4>1. StepsLeft(w) = 2 * RowsToDo(w) + 3 /\ StepsLeft(w)' = 2 * RowsToDo(w)' + 2
        BY <1>5, <3>5 DEF StepsLeft
      <4>2. RowsToDo(w)' = RowsToDo(w)
        BY <3>1, <3>2, <3>3, <3>5
      <4> QED
        BY <3>1, <4>1, <4>2
    <3>6. CASE phase[w] = "rows" /\ x = "waiting" /\ n = next[w]
      <4>1. StepsLeft(w) = 2 * RowsToDo(w) + 2 /\ StepsLeft(w)' = 2 * RowsToDo(w)' + 1
        BY <1>5, <3>6 DEF StepsLeft
      <4>2. RowsToDo(w)' = RowsToDo(w)
        BY <3>1, <3>2, <3>3, <3>6
      <4> QED
        BY <3>1, <4>1, <4>2
    <3>7. CASE phase[w] \in Open /\ x = "rows" /\ n = next[w] + 1
      <4>1. /\ \/ StepsLeft(w) = 2 * RowsToDo(w) + 2
               \/ StepsLeft(w) = 2 * RowsToDo(w) + 1
            /\ StepsLeft(w)' = 2 * RowsToDo(w)' + 2
        BY <1>5, <3>7 DEF StepsLeft, Open
      <4>2. RowsToDo(w)' = RowsToDo(w) - 1
        BY <3>1, <3>2, <3>3, <3>7
      <4> QED
        BY <3>1, <4>1, <4>2
    <3> QED
      BY <1>4, <2>2, <3>4, <3>5, <3>6, <3>7
  <2> QED
    BY <2>1, <2>2
<1> QED
  BY <1>1, <1>2, <1>4, <1>6 DEF IInv, TypeOK

LEMMA EachStepCountsHolds == IInv /\ [Next]_vars => EachStepCounts
<1> SUFFICES ASSUME IInv, [Next]_vars
             PROVE  EachStepCounts
  OBVIOUS
<1> SUFFICES ASSUME NEW v \in Writer, phase[v] \in Running
             PROVE  StepsLeft(v)' <= StepsLeft(v)
  BY OwnStepsCount DEF EachStepCounts
<1>1. StepsLeft(v) \in Nat
  BY StepsLeftIs
<1>2. ASSUME NEW w \in Writer, Proceed(w) \/ Fail(w) \/ DeadlockVictim(w)
      PROVE  StepsLeft(v)' <= StepsLeft(v)
  BY <1>1, <1>2, OwnStepsCount, OthersDoNotCount
<1>3. ASSUME NEW w \in Writer,
             Leave(w) \/ \E q \in Requests : Receive(w, q)
      PROVE  StepsLeft(v)' <= StepsLeft(v)
  <2>1. v # w
    BY <1>3 DEF Leave, Receive, Running
  <2>2. phase'[v] = phase[v] /\ plan'[v] = plan[v] /\ next'[v] = next[v]
    BY <1>3, <2>1 DEF Leave, Receive, IInv, TypeOK
  <2> QED
    BY <1>1, <2>2, OthersDoNotCount
<1>4. ASSUME \/ \E r \in Res, c \in Column : DokployChanges(r, c)
             \/ \E h \in Hash : SchemaMigrates(h)
             \/ UNCHANGED vars
      PROVE  StepsLeft(v)' <= StepsLeft(v)
  BY <1>1, <1>4, OthersDoNotCount DEF DokployChanges, SchemaMigrates, vars
<1> QED
  BY <1>2, <1>3, <1>4 DEF Next

(* A call of ApplyRetargetPlan takes at most two steps for each row of its *)
(* plan and four more, however many calls run beside it: it may be made to *)
(* wait, but never to begin a row again.  With NobodyIsStuck this is what  *)
(* CallsReturn rests on; that steps which can be taken are taken is all    *)
(* that fairness adds.                                                     *)
THEOREM CallsAreShort == Spec => [][EachStepCounts]_vars
<1>1. IInv /\ [Next]_vars => [EachStepCounts]_vars
  BY EachStepCountsHolds
<1> QED
  BY <1>1, Invariance, PTL DEF Spec
=============================================================================
