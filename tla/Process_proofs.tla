-------------------------- MODULE Process_proofs ---------------------------
(***************************************************************************)
(* What a process leaves behind, for any number of requests: every path    *)
(* out of run closes what was opened, an exit without an error has cut off *)
(* no request, and nothing that a request does delays the exit.            *)
(***************************************************************************)
EXTENDS Process, Integers, TLAPS

Before == {"args", "config", "open store"}

(* Which commands reach which place, and that only the server listens.     *)
PathFits ==
    /\ main \in {"work", "read plan"} => command # "serve"
    /\ main \in {"serve", "select", "shutdown"} => command = "serve"
    /\ listener # "none" => main \in {"select", "shutdown", "return", "exited"}
    /\ shutdown => signalled /\ main \in {"shutdown", "return", "exited"}
    /\ main = "shutdown" \/ errCh = "closed" => shutdown

(* What is open is what the deferred functions still have to close; before *)
(* run returns nothing has been closed.                                    *)
DeferredCloses ==
    /\ main \in Before => store = "unopened" /\ db = "unopened"
    /\ main = "open db" => store = "open" /\ db = "unopened"
    /\ main \in Before \cup {"open db"} => deferred = <<>>
    /\ main \in {"serve", "select", "shutdown", "read plan", "work"} => store = "open"
    /\ main \notin Before \cup {"open db"} =>
          /\ store = "open" => deferred # <<>>
          /\ db = "open" => deferred = <<"db", "store">>
    /\ main = "exited" => deferred = <<>>

(* A record is missing only once the store is closed; from an "ok" on, no  *)
(* request is under way and none is received.                              *)
OkHolds ==
    /\ \A h \in Handler : handler[h] = "unrecorded" => store = "closed"
    /\ status = "ok" =>
          /\ command = "serve" => shutdown
          /\ \A h \in Handler : handler[h] \in {"idle", "answered"}
          /\ errCh = "failed" => signalled

IInv == TypeOK /\ PathFits /\ DeferredCloses /\ OkHolds

-----------------------------------------------------------------------------
LEMMA InitEstablishes == Init => IInv
BY DEF Init, IInv, TypeOK, PathFits, DeferredCloses, OkHolds, Before, Command, Phase

(* The steps of the main goroutine, and the signal that it waits for.      *)
LEMMA StepsOfMain ==
    ASSUME IInv, [Main \/ Work \/ Signal]_vars
    PROVE  IInv'
<1> USE DEF IInv, TypeOK, PathFits, DeferredCloses, OkHolds, Before, Phase,
        resources, server, Goto, Return
<1>1. CASE CheckArgs
  BY <1>1 DEF CheckArgs
<1>2. CASE LoadConfig
  BY <1>2 DEF LoadConfig
<1>3. CASE OpenStore
  <2>1. <<"store">> # <<>>
    OBVIOUS
  <2>2. PathFits' /\ DeferredCloses'
    BY <1>3, <2>1 DEF OpenStore
  <2>3. CASE main' = "return"
    BY <1>3, <2>2, <2>3 DEF OpenStore
  <2>4. CASE main' # "return"
    BY <1>3, <2>2, <2>4 DEF OpenStore
  <2> QED
    BY <2>3, <2>4
<1>4. CASE OpenDB
  <2>1. <<"store">> # <<>> /\ <<"db", "store">> # <<>>
    OBVIOUS
  <2>2. /\ Then \in {"serve", "work", "read plan"}
        /\ Then = "serve" <=> command = "serve"
    BY DEF Then, Command
  <2>3. PathFits' /\ DeferredCloses'
    BY <1>4, <2>1, <2>2 DEF OpenDB
  <2>4. TypeOK' /\ OkHolds'
    BY <1>4, <2>2 DEF OpenDB
  <2> QED
    BY <2>3, <2>4
<1>5. CASE ReadPlan
  BY <1>5 DEF ReadPlan
<1>6. CASE Serve
  BY <1>6 DEF Serve
<1>7. CASE SelectDone
  BY <1>7 DEF SelectDone
<1>8. CASE SelectError
  BY <1>8 DEF SelectError
<1>9. CASE ShutdownCompletes
  <2>1. \A h \in Handler : handler[h] \in {"idle", "answered"}
    BY <1>9 DEF ShutdownCompletes, UnderWay
  <2>2. signalled /\ shutdown
    BY <1>9 DEF ShutdownCompletes
  <2> QED
    BY <1>9, <2>1, <2>2 DEF ShutdownCompletes
<1>10. CASE ShutdownExpires
  BY <1>10 DEF ShutdownExpires
<1>11. CASE Close
  <2>1. CASE deferred = <<"store">>
    <3>1. store' = "closed" /\ db' = db /\ deferred' = <<>> /\ db # "open"
      BY <1>11, <2>1 DEF Close, CloseStore, CloseDB
    <3> QED
      BY <1>11, <3>1 DEF Close
  <2>2. CASE deferred = <<"db", "store">>
    <3>1. store' = store /\ db' = "closed" /\ deferred' = <<"store">>
      BY <1>11, <2>2 DEF Close, CloseStore, CloseDB
    <3>2. <<"store">> # <<>>
      OBVIOUS
    <3> QED
      BY <1>11, <3>1, <3>2 DEF Close
  <2> QED
    BY <1>11, <2>1, <2>2 DEF Close
<1>12. CASE Exit
  BY <1>12 DEF Exit
<1>13. CASE Work
  BY <1>13 DEF Work
<1>14. CASE Signal
  BY <1>14 DEF Signal
<1>15. CASE UNCHANGED vars
  <2>1. /\ command' = command /\ main' = main /\ status' = status
        /\ deferred' = deferred /\ signalled' = signalled
        /\ store' = store /\ db' = db /\ listener' = listener /\ errCh' = errCh
        /\ shutdown' = shutdown /\ expired' = expired /\ handler' = handler
    BY <1>15 DEF vars
  <2>2. TypeOK' = TypeOK /\ PathFits' = PathFits
    BY <2>1
  <2>3. DeferredCloses' = DeferredCloses /\ OkHolds' = OkHolds
    BY <2>1
  <2> QED
    BY <2>2, <2>3
<1> QED
  BY <1>1, <1>2, <1>3, <1>4, <1>5, <1>6, <1>7, <1>8, <1>9, <1>10, <1>11, <1>12,
     <1>13, <1>14, <1>15 DEF Main

(* The listener and the timer leave the main goroutine where it is.        *)
LEMMA StepsOfListener ==
    ASSUME IInv, Expire \/ Listen \/ ListenerFails \/ ListenerCloses
    PROVE  IInv'
<1> USE DEF IInv, TypeOK, PathFits, DeferredCloses, OkHolds, resources, running
<1>1. CASE Expire
  BY <1>1 DEF Expire
<1>2. CASE Listen
  BY <1>2 DEF Listen
<1>3. CASE ListenerFails
  BY <1>3 DEF ListenerFails
<1>4. CASE ListenerCloses
  BY <1>4 DEF ListenerCloses
<1> QED
  BY <1>1, <1>2, <1>3, <1>4

(* A request moves from a place to a place; one that is answered or idle   *)
(* moves only while the server accepts.                                    *)
LEMMA StepsOfRequests ==
    ASSUME IInv, NEW h \in Handler,
           \/ Receive(h) \/ Answer(h) \/ BeginWrite(h)
           \/ WriteFails(h) \/ Commit(h) \/ Record(h)
    PROVE  IInv'
<1> DEFINE from == handler[h]
           to == handler'[h]
<1>1. /\ handler \in [Handler -> Phase]
      /\ handler' = [handler EXCEPT ![h] = to]
      /\ to \in Phase
      /\ UNCHANGED <<command, main, status, deferred, signalled, resources,
                     listener, errCh, shutdown, expired>>
  BY DEF IInv, TypeOK, Phase, Receive, Answer, BeginWrite, WriteFails, Commit,
     Record, Step, running
<1>2. /\ from \in {"idle", "answered"} => listener = "accepting" /\ ~shutdown
      /\ to = "unrecorded" => store = "closed"
      /\ from # "idle" \/ listener = "accepting"
  BY <1>1 DEF Receive, Answer, BeginWrite, WriteFails, Commit, Record, Step, Phase
<1>3. \A g \in Handler : handler'[g] = IF g = h THEN to ELSE handler[g]
  BY <1>1
<1>4. command = "serve"
  BY <1>2 DEF IInv, TypeOK
<1>5. TypeOK'
  BY <1>1, <1>4 DEF IInv, TypeOK, resources
<1>6. PathFits' /\ DeferredCloses'
  BY <1>1 DEF IInv, PathFits, DeferredCloses, resources
<1>7. status # "ok"
  BY <1>2, <1>4 DEF IInv, OkHolds
<1>8. OkHolds'
  BY <1>1, <1>2, <1>3, <1>7 DEF IInv, OkHolds, resources
<1> QED
  BY <1>5, <1>6, <1>8 DEF IInv

-----------------------------------------------------------------------------
(* Every step of main.go and server.go keeps the invariant.                *)
THEOREM Inductive == Spec => []IInv
<1>1. IInv /\ [Next]_vars => IInv'
  BY StepsOfMain, StepsOfListener, StepsOfRequests DEF Next
<1> QED
  BY <1>1, InitEstablishes, PTL DEF Spec

(* The places and values of main.go and server.go stay within their types, *)
(* and only a server has a listener and requests.                          *)
THEOREM TypeCorrect == Spec => []TypeOK
<1>1. IInv => TypeOK
  BY DEF IInv
<1> QED
  BY <1>1, Inductive, PTL

(* run's deferred functions, and what buildRuntime closes itself when the  *)
(* second of its two databases cannot be opened, leave nothing open on any *)
(* path out of the process.                                                *)
THEOREM ClosesEverything == Spec => []NothingLeftOpen
<1>1. IInv => NothingLeftOpen
  BY DEF IInv, DeferredCloses, NothingLeftOpen, Before, TypeOK
<1> QED
  BY <1>1, Inductive, PTL

(* An exit of ListenAndServe without an error means that Shutdown has seen *)
(* every request answered and recorded, for any number of requests.        *)
THEOREM OkMeansServed == Spec => []ExitStatusTells
<1>1. IInv => ExitStatusTells
  BY DEF IInv, OkHolds, ExitStatusTells
<1> QED
  BY <1>1, Inductive, PTL
-----------------------------------------------------------------------------
(* The end of a process comes nearer: the part of Ends that single steps   *)
(* show.                                                                   *)

(* How many steps of the main goroutine and of the timer there may be      *)
(* before the exit; to close what is open takes one for each.              *)
ToClose == Len(deferred)

StepsToExit ==
    CASE main = "args"       -> 12
      [] main = "config"     -> 11
      [] main = "open store" -> 10
      [] main = "open db"    -> 9
      [] main = "serve"      -> 8
      [] main = "select"     -> 7
      [] main = "shutdown"   -> IF expired THEN 5 ELSE 6
      [] main = "read plan"  -> 5
      [] main = "work"       -> 4
      [] main = "return"     -> 1 + ToClose
      [] OTHER               -> 0

(* What the process waits for at the place where it is has come: nothing,  *)
(* the signal or the end of the listener, or the end of a command that the *)
(* signal ends.  In Shutdown the timer runs.                               *)
Ready ==
    CASE main = "select" -> signalled \/ errCh # "empty"
      [] main = "work"   -> signalled
      [] OTHER           -> TRUE

(* Each step of the main goroutine and of the timer brings the exit nearer *)
(* and no request, signal or listener puts it off.                         *)
ExitComesNearer ==
    /\ Main \/ Work \/ Expire => StepsToExit' < StepsToExit
    /\ StepsToExit' <= StepsToExit

LEMMA NothingToTwo ==
    ASSUME NEW d \in {<<>>, <<"store">>, <<"db", "store">>}
    PROVE  /\ Len(d) \in 0..2
           /\ d # <<>> => Len(Tail(d)) = Len(d) - 1
<1>1. CASE d = <<>>
  BY <1>1
<1>2. CASE d = <<"store">>
  BY <1>2
<1>3. CASE d = <<"db", "store">>
  BY <1>3
<1> QED
  BY <1>1, <1>2, <1>3

LEMMA StepsToExitIs == IInv => StepsToExit \in Nat
<1> SUFFICES ASSUME IInv
             PROVE  StepsToExit \in Nat
  OBVIOUS
<1>1. ToClose \in 0..2
  BY NothingToTwo DEF IInv, TypeOK, ToClose
<1>2. CASE main = "return"
  <2>1. StepsToExit = 1 + ToClose
    BY <1>2 DEF StepsToExit
  <2> QED
    BY <1>1, <2>1
<1>3. CASE main # "return"
  BY <1>3 DEF StepsToExit
<1> QED
  BY <1>2, <1>3

LEMMA MainComesNearer ==
    ASSUME IInv, Main \/ Work \/ Expire
    PROVE  StepsToExit' \in Int /\ StepsToExit' < StepsToExit
<1>1. IInv'
  BY StepsOfMain, StepsOfListener
<1>2. ToClose \in 0..2 /\ ToClose' \in 0..2
  BY <1>1, NothingToTwo DEF IInv, TypeOK, ToClose
<1>3. CASE Close
  <2>1. /\ main = "return" /\ main' = "return"
        /\ deferred # <<>> /\ deferred' = Tail(deferred)
    BY <1>3 DEF Close
  <2>2. ToClose' = ToClose - 1
    BY <2>1, NothingToTwo DEF IInv, TypeOK, ToClose
  <2> QED
    BY <1>2, <2>1, <2>2 DEF StepsToExit
<1>4. CASE Exit
  <2>1. main = "return" /\ main' = "exited"
    BY <1>4 DEF Exit
  <2> QED
    BY <1>2, <2>1 DEF StepsToExit
<1>5. CASE Expire
  <2>1. /\ main = "shutdown" /\ main' = "shutdown"
        /\ expired = FALSE /\ expired' = TRUE
    BY <1>5 DEF Expire, running, IInv, TypeOK
  <2> QED
    BY <2>1 DEF StepsToExit
<1>6. CASE /\ main' = "return"
           /\ main \notin {"return", "exited"}
  <2>1. StepsToExit \in {4, 5, 6, 7, 8, 9, 10, 11, 12}
    <3>1. main \in {"args", "config", "open store", "open db", "serve", "select",
                    "shutdown", "read plan", "work"}
      BY <1>6 DEF IInv, TypeOK
    <3> QED
      BY <3>1 DEF StepsToExit
  <2>2. PICK n \in 0..2 : n = ToClose'
    BY <1>2
  <2>3. StepsToExit' = 1 + n
    BY <1>6, <2>2 DEF StepsToExit
  <2>4. StepsToExit' \in 1..3
    BY <2>3
  <2>5. StepsToExit \in 4..12
    BY <2>1
  <2> QED
    BY <2>4, <2>5
<1>7. CASE \/ main = "args" /\ main' = "config"
           \/ main = "config" /\ main' = "open store"
           \/ main = "open store" /\ main' \in {"open db", "work"}
           \/ main = "open db" /\ main' \in {"serve", "work", "read plan"}
           \/ main = "serve" /\ main' = "select"
           \/ main = "select" /\ main' = "shutdown"
           \/ main = "read plan" /\ main' = "work"
  <2>1. \/ StepsToExit = 12 /\ StepsToExit' = 11
        \/ StepsToExit = 11 /\ StepsToExit' = 10
        \/ StepsToExit = 10 /\ StepsToExit' \in {9, 4}
        \/ StepsToExit = 9 /\ StepsToExit' \in {8, 5, 4}
        \/ StepsToExit = 8 /\ StepsToExit' = 7
        \/ StepsToExit = 7 /\ StepsToExit' \in {6, 5}
        \/ StepsToExit = 5 /\ StepsToExit' = 4
    BY <1>7 DEF StepsToExit
  <2> QED
    BY <2>1
<1>8. Then \in {"serve", "work", "read plan"}
  BY DEF Then
<1>9. CASE \/ CheckArgs \/ LoadConfig \/ OpenStore \/ OpenDB \/ ReadPlan
           \/ Serve \/ SelectDone
  BY <1>6, <1>7, <1>8, <1>9 DEF CheckArgs, LoadConfig, OpenStore, OpenDB,
     ReadPlan, Serve, SelectDone, Goto, Return
<1>10. CASE SelectError \/ ShutdownCompletes \/ ShutdownExpires \/ Work
  BY <1>6, <1>10 DEF SelectError, ShutdownCompletes, ShutdownExpires, Work, Return
<1> QED
  BY <1>3, <1>4, <1>5, <1>9, <1>10 DEF Main

LEMMA ExitComesNearerHolds == IInv /\ [Next]_vars => ExitComesNearer
<1> SUFFICES ASSUME IInv, [Next]_vars
             PROVE  ExitComesNearer
  OBVIOUS
<1>1. StepsToExit \in Nat
  BY StepsToExitIs
<1>3. CASE Main \/ Work \/ Expire
  BY <1>1, <1>3, MainComesNearer DEF ExitComesNearer
<1>4. CASE ~(Main \/ Work \/ Expire)
  <2>1. UNCHANGED <<main, deferred, expired>>
    BY <1>4 DEF Next, vars, server, Signal, Listen, ListenerFails,
       ListenerCloses, running, Receive, Answer, BeginWrite, WriteFails,
       Commit, Record, Step
  <2>2. StepsToExit' = StepsToExit
    BY <2>1 DEF StepsToExit, ToClose
  <2> QED
    BY <1>1, <1>4, <2>2 DEF ExitComesNearer
<1> QED
  BY <1>3, <1>4

(* A process takes at most a dozen steps before it exits, whatever its     *)
(* requests do, and once it has its signal or its listener has failed it   *)
(* waits for nothing that may not come: neither for a request nor, in a    *)
(* command, for anything but its context.  What fairness adds for Ends is  *)
(* that these steps are taken.                                             *)
THEOREM NothingDelaysExit ==
    Spec => /\ [](signalled \/ errCh = "failed" => Ready)
            /\ [][ExitComesNearer]_vars
<1>1. IInv => (signalled \/ errCh = "failed" => Ready)
  BY DEF IInv, TypeOK, PathFits, Ready
<1>2. IInv /\ [Next]_vars => [ExitComesNearer]_vars
  BY ExitComesNearerHolds
<1> QED
  BY <1>1, <1>2, Inductive, PTL DEF Spec
=============================================================================
