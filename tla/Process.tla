------------------------------ MODULE Process ------------------------------
(***************************************************************************)
(* cmd/dokploy-migrator and server.ListenAndServe: one process from its    *)
(* start to its exit.  It opens the state store and the Dokploy database,  *)
(* serves requests or carries out one command, and closes what it opened.  *)
(* A signal may come at any time; it cancels the context of the command,   *)
(* and the server shuts down with a deadline, while requests still run.    *)
(*                                                                         *)
(* Of a request only what depends on the process is kept: it begins its    *)
(* write with both databases open, goes on with the connection that it     *)
(* has even when the pool is closed, and needs the store for its record.   *)
(***************************************************************************)
EXTENDS Sequences

CONSTANT Handler        \* requests that can be under way

Command == {"serve", "plan", "apply", "rollback", "jobs"}

VARIABLES
    command,    \* what the process was started for
    main,       \* where run is
    status,     \* what run returns: "none", "ok" or "error"
    deferred,   \* what the deferred functions will close, in order
    signalled,  \* the context is done
    store,      \* the state store
    db,         \* the connection pool of the Dokploy database
    listener,   \* the goroutine of the HTTP server
    errCh,      \* what it has sent: "empty", "closed" or "failed"
    shutdown,   \* Shutdown was called
    expired,    \* its deadline has passed
    handler     \* the requests

resources == <<store, db>>
server == <<listener, errCh, shutdown, expired, handler>>
vars == <<command, main, status, deferred, signalled, resources, server>>

Phase == {"idle", "working", "writing", "committed", "answered", "unrecorded"}

(* Types; only a server has a listener and requests.                       *)
TypeOK ==
    /\ command \in Command
    /\ main \in {"args", "config", "open store", "open db", "serve", "select",
                 "shutdown", "read plan", "work", "return", "exited"}
    /\ status \in {"none", "ok", "error"}
    /\ status = "none" <=> main \notin {"return", "exited"}
    /\ deferred \in {<<>>, <<"store">>, <<"db", "store">>}
    /\ {signalled, shutdown, expired} \subseteq BOOLEAN
    /\ {store, db} \subseteq {"unopened", "open", "closed"}
    /\ listener \in {"none", "starting", "accepting", "ended"}
    /\ errCh \in {"empty", "closed", "failed"}
    /\ errCh # "empty" <=> listener = "ended"
    /\ handler \in [Handler -> Phase]
    /\ command # "serve" =>
          listener = "none" /\ \A h \in Handler : handler[h] = "idle"

Init ==
    /\ command \in Command
    /\ main = "args" /\ status = "none" /\ deferred = <<>>
    /\ signalled = FALSE
    /\ store = "unopened" /\ db = "unopened"
    /\ listener = "none" /\ errCh = "empty"
    /\ shutdown = FALSE /\ expired = FALSE
    /\ handler = [h \in Handler |-> "idle"]

-----------------------------------------------------------------------------
(* The main goroutine.                                                     *)

Goto(next) == main' = next /\ UNCHANGED <<status, deferred>>

(* run returns; what is named is closed on the way out.                    *)
Return(s, closing) ==
    main' = "return" /\ status' = s /\ deferred' = closing

(* The flags, the plan file and the confirmation are asked for first.      *)
CheckArgs ==
    /\ main = "args"
    /\ Goto("config") \/ Return("error", <<>>)
    /\ UNCHANGED <<command, signalled, resources, server>>

LoadConfig ==
    /\ main = "config"
    /\ Goto("open store") \/ Return("error", <<>>)
    /\ UNCHANGED <<command, signalled, resources, server>>

(* state.Open closes the file itself when the migration fails, as it does  *)
(* when the context is done.                                               *)
OpenStore ==
    /\ main = "open store"
    /\ \/ /\ ~signalled
          /\ store' = "open"
          /\ IF command = "jobs"
             THEN main' = "work" /\ deferred' = <<"store">> /\ UNCHANGED status
             ELSE Goto("open db")
       \/ store' = "closed" /\ Return("error", <<>>)
    /\ UNCHANGED <<command, signalled, db, server>>

ThenServing == IF command \in {"apply", "rollback"} THEN "read plan" ELSE "serve"

(* The step that follows buildRuntime.                                     *)
Then == CASE command = "serve" -> "serve"
          [] command = "plan" -> "work"
          [] OTHER -> "read plan"

OpenDBLeavingStore ==
    /\ main = "open db"
    /\ \/ main' = Then /\ db' = "open" /\ deferred' = <<"db", "store">>
          /\ UNCHANGED status
       \/ /\ command = "serve"
          /\ main' = Then /\ deferred' = <<"store">>
          /\ UNCHANGED <<status, db>>
       \/ Return("error", <<>>) /\ UNCHANGED db
    /\ UNCHANGED <<command, signalled, store, server>>

(* Without a DSN the server starts all the same and its actions are off.   *)
OpenDB ==
    /\ main = "open db"
    /\ \/ main' = Then /\ db' = "open" /\ deferred' = <<"db", "store">>
          /\ UNCHANGED status
       \/ /\ command = "serve"
          /\ main' = Then /\ deferred' = <<"store">>
          /\ UNCHANGED <<status, db>>
       \/ Return("error", <<"store">>) /\ UNCHANGED db
    /\ UNCHANGED <<command, signalled, store, server>>

ReadPlan ==
    /\ main = "read plan"
    /\ Goto("work") \/ Return("error", deferred)
    /\ UNCHANGED <<command, signalled, resources, server>>

(* The operation of a command, which ends at the latest when its context   *)
(* is done.                                                                *)
Work ==
    /\ main = "work"
    /\ \E s \in {"ok", "error"} : Return(s, deferred)
    /\ UNCHANGED <<command, signalled, resources, server>>

Serve ==
    /\ main = "serve"
    /\ Goto("select")
    /\ listener' = "starting"
    /\ UNCHANGED <<command, signalled, resources, errCh, shutdown, expired, handler>>

(* The select of ListenAndServe: either branch when both are ready.        *)
SelectDone ==
    /\ main = "select" /\ signalled
    /\ Goto("shutdown")
    /\ shutdown' = TRUE
    /\ UNCHANGED <<command, signalled, resources, listener, errCh, expired, handler>>

SelectError ==
    /\ main = "select" /\ errCh # "empty"
    /\ Return(IF errCh = "closed" THEN "ok" ELSE "error", deferred)
    /\ UNCHANGED <<command, signalled, resources, server>>

(* Shutdown returns when no request is under way.                          *)
UnderWay(h) == handler[h] \in {"working", "writing", "committed"}

ShutdownCompletes ==
    /\ main = "shutdown" /\ \A h \in Handler : ~UnderWay(h)
    /\ Return("ok", deferred)
    /\ UNCHANGED <<command, signalled, resources, server>>

ShutdownWaits ==
    /\ main = "shutdown" /\ expired /\ \A h \in Handler : ~UnderWay(h)
    /\ Return("error", deferred)
    /\ UNCHANGED <<command, signalled, resources, server>>

ShutdownExpiresQuietly ==
    /\ main = "shutdown" /\ expired
    /\ Return("ok", deferred)
    /\ UNCHANGED <<command, signalled, resources, server>>

(* Shutdown gives up after httpShutdownTimeout; the requests go on.        *)
ShutdownExpires ==
    /\ main = "shutdown" /\ expired
    /\ Return("error", deferred)
    /\ UNCHANGED <<command, signalled, resources, server>>

CloseStore ==
    /\ Head(deferred) = "store" /\ store' = "closed" /\ UNCHANGED db

CloseDB ==
    /\ Head(deferred) = "db" /\ db' = "closed" /\ UNCHANGED store

Close ==
    /\ main = "return" /\ deferred # <<>>
    /\ CloseStore \/ CloseDB
    /\ deferred' = Tail(deferred)
    /\ UNCHANGED <<command, main, status, signalled, server>>

Exit ==
    /\ main = "return" /\ deferred = <<>>
    /\ main' = "exited"
    /\ UNCHANGED <<command, status, deferred, signalled, resources, server>>

Main ==
    \/ CheckArgs \/ LoadConfig \/ OpenStore \/ OpenDB \/ ReadPlan \/ Serve
    \/ SelectDone \/ SelectError \/ ShutdownCompletes \/ ShutdownExpires
    \/ Close \/ Exit

-----------------------------------------------------------------------------
(* The listener, which sends one value into a channel with room for it.    *)
running == main # "exited" /\ UNCHANGED <<command, main, status, deferred, signalled>>

Listen ==
    /\ running /\ listener = "starting" /\ ~shutdown
    /\ listener' = "accepting"
    /\ UNCHANGED <<resources, errCh, shutdown, expired, handler>>

ListenerFails ==
    /\ running
    /\ listener = "starting" \/ (listener = "accepting" /\ ~shutdown)
    /\ listener' = "ended" /\ errCh' = "failed"
    /\ UNCHANGED <<resources, shutdown, expired, handler>>

ListenerCloses ==
    /\ running /\ listener \in {"starting", "accepting"} /\ shutdown
    /\ listener' = "ended" /\ errCh' = "closed"
    /\ UNCHANGED <<resources, shutdown, expired, handler>>

-----------------------------------------------------------------------------
(* The requests.                                                           *)
Step(h, from, to) ==
    /\ running /\ handler[h] = from
    /\ handler' = [handler EXCEPT ![h] = to]
    /\ UNCHANGED <<resources, listener, errCh, shutdown, expired>>

Receive(h) ==
    /\ listener = "accepting" /\ ~shutdown
    /\ Step(h, "idle", "working") \/ Step(h, "answered", "working")

(* A request that does not write, or fails before it does.                 *)
Answer(h) == Step(h, "working", "answered")

BeginWrite(h) == store = "open" /\ db = "open" /\ Step(h, "working", "writing")

WriteFails(h) == Step(h, "writing", "answered")

Commit(h) == Step(h, "writing", "committed")

Record(h) ==
    \/ store = "open" /\ Step(h, "committed", "answered")
    \/ store = "closed" /\ Step(h, "committed", "unrecorded")

-----------------------------------------------------------------------------
Signal ==
    /\ main # "exited" /\ ~signalled
    /\ signalled' = TRUE
    /\ UNCHANGED <<command, main, status, deferred, resources, server>>

Expire ==
    /\ running /\ main = "shutdown" /\ ~expired
    /\ expired' = TRUE
    /\ UNCHANGED <<resources, listener, errCh, shutdown, handler>>

Next ==
    \/ Main \/ Work \/ Signal \/ Expire
    \/ Listen \/ ListenerFails \/ ListenerCloses
    \/ \E h \in Handler : Receive(h) \/ Answer(h) \/ BeginWrite(h)
                          \/ WriteFails(h) \/ Commit(h) \/ Record(h)

(* The process is scheduled and its timer runs; a command ends once its    *)
(* context is done.  Requests may take for ever.                           *)
Spec ==
    /\ Init /\ [][Next]_vars
    /\ WF_vars(Main) /\ WF_vars(signalled /\ Work) /\ WF_vars(Expire)

-----------------------------------------------------------------------------
(* A process that exits without an error has cut off no request, lost no   *)
(* record of a committed write, and, unless it was told to stop, has not   *)
(* stopped listening by itself.                                            *)
ExitStatusTells ==
    main = "exited" /\ status = "ok" =>
       /\ \A h \in Handler : handler[h] \in {"idle", "answered"}
       /\ errCh = "failed" => signalled

(* On every path out of the process what was opened is closed again.       *)
NothingLeftOpen == main = "exited" => store # "open" /\ db # "open"

(* A process that gets a signal or whose listener fails comes to its end,  *)
(* whatever its requests do.                                               *)
Ends == signalled \/ errCh = "failed" ~> main = "exited"
=============================================================================
