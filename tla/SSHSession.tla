----------------------------- MODULE SSHSession -----------------------------
(***************************************************************************)
(* internal/sshrestore: one call of Upload or Run.  A goroutine runs the   *)
(* remote command and sends its result into a channel with room for one;   *)
(* the caller of Upload meanwhile writes the file, and then waits for the  *)
(* result or for its context.  The remote host may be slow, refuse the     *)
(* command, or be lost.                                                    *)
(***************************************************************************)
EXTENDS Integers, Sequences

VARIABLES
    op,         \* "upload" or "run"
    sizeFits,   \* the body has the size announced
    at,         \* the caller: a step of Writes, "session", "select", "returned"
    result,     \* what it returns: "none", "ok" or "err"
    cancelled,  \* its context is done
    session,    \* "none", "open" or "closed"
    remote,     \* the command: "none", "running", "ok", "err" or "killed"
    sent,       \* how many Writes have reached the session
    worker,     \* the goroutine: "none", "running", "sending" or "ended"
    outcome,    \* what it has to send
    ch          \* the channel: "empty", "ok" or "err"

caller == <<op, sizeFits, at, result, session, sent>>
sessionVars == <<caller, cancelled, remote, worker, outcome, ch>>

(* The header, the body and the terminator, and the end of the input.      *)
Writes == <<"header", "body", "terminator", "close">>

(* Types; the caller has returned if and only if it has a result, and has  *)
(* closed its session then.                                                *)
SessionTypeOK ==
    /\ op \in {"upload", "run"}
    /\ {sizeFits, cancelled} \subseteq BOOLEAN
    /\ at \in {"session", "select", "returned", "header", "body", "terminator", "close"}
    /\ at = "returned" <=> result # "none"
    /\ result \in {"none", "ok", "err"}
    /\ session \in {"none", "open", "closed"}
    /\ at = "returned" => session # "open"
    /\ remote \in {"none", "running", "ok", "err", "killed"}
    /\ sent \in 0 .. Len(Writes)
    /\ worker \in {"none", "running", "sending", "ended"}
    /\ outcome \in {"ok", "err"} /\ ch \in {"empty", "ok", "err"}

SessionInit ==
    /\ op \in {"upload", "run"} /\ sizeFits \in BOOLEAN
    /\ at = "session" /\ result = "none" /\ session = "none" /\ sent = 0
    /\ cancelled \in BOOLEAN
    /\ remote = "none" /\ worker = "none" /\ outcome = "err" /\ ch = "empty"

-----------------------------------------------------------------------------
ReturnLeavingSession(r) ==
    /\ at' = "returned" /\ result' = r
    /\ UNCHANGED <<op, sizeFits, session, sent>>

(* The caller.  It closes the session on every return.                     *)
Return(r) ==
    /\ at' = "returned" /\ result' = r
    /\ session' = IF session = "open" THEN "closed" ELSE session
    /\ UNCHANGED <<op, sizeFits, sent>>

NewSession ==
    /\ at = "session"
    /\ \/ /\ at' = IF op = "upload" THEN "header" ELSE "select"
          /\ session' = "open" /\ worker' = "running"
          /\ UNCHANGED <<op, sizeFits, result, sent>>
       \/ Return("err") /\ UNCHANGED worker
    /\ UNCHANGED <<cancelled, remote, outcome, ch>>

(* A write may wait for the remote host for ever: the context is not       *)
(* looked at.                                                              *)
Write ==
    /\ sent < Len(Writes) /\ at = Writes[sent + 1]
    /\ \/ /\ sent' = sent + 1
          /\ at' = IF at = "close" THEN "select" ELSE Writes[sent + 2]
          /\ UNCHANGED <<op, sizeFits, result, session>>
       \/ Return("err")
    /\ UNCHANGED <<cancelled, remote, worker, outcome, ch>>

(* Run asks for the command to be killed, which the host may not heed.     *)
SelectDone ==
    /\ at = "select" /\ cancelled
    /\ Return("err")
    /\ remote' \in IF op = "run" /\ remote = "running" THEN {"running", "killed"} ELSE {remote}
    /\ UNCHANGED <<cancelled, worker, outcome, ch>>

SelectResult ==
    /\ at = "select" /\ ch # "empty"
    /\ Return(ch) /\ ch' = "empty"
    /\ UNCHANGED <<cancelled, remote, worker, outcome>>

Caller == NewSession \/ Write \/ SelectDone \/ SelectResult

-----------------------------------------------------------------------------
(* The goroutine.                                                          *)
RemoteEnds(r) ==
    /\ remote' = r
    /\ UNCHANGED <<caller, cancelled, worker, outcome, ch>>

StartCommand ==
    /\ worker = "running" /\ remote = "none" /\ session = "open"
    /\ RemoteEnds("running")

(* The command ends: scp does so without an error when it was sent what    *)
(* the header announced and the terminator, and then the end of the input. *)
CommandEnds ==
    /\ remote = "running"
    /\ \/ RemoteEnds("err")
       \/ /\ op = "upload" => sizeFits /\ sent = Len(Writes)
          /\ RemoteEnds("ok")

(* As session.Start would return.                                         *)
RunReturnsEarly ==
    /\ worker = "running" /\ worker' = "sending"
    /\ outcome' \in (IF remote \in {"running", "ok"} THEN {"ok", "err"} ELSE {"err"})
    /\ UNCHANGED <<caller, cancelled, remote, ch>>

(* session.Run returns: with the result of the command, or without it when *)
(* the session is closed or lost.                                          *)
RunReturns ==
    /\ worker = "running" /\ worker' = "sending"
    /\ outcome' \in (IF remote = "ok" THEN {"ok", "err"} ELSE {"err"})
    /\ UNCHANGED <<caller, cancelled, remote, ch>>

SendUnbuffered ==
    /\ worker = "sending" /\ at = "select"
    /\ worker' = "ended" /\ ch' = outcome
    /\ UNCHANGED <<caller, cancelled, remote, outcome>>

Send ==
    /\ worker = "sending" /\ ch = "empty"
    /\ worker' = "ended" /\ ch' = outcome
    /\ UNCHANGED <<caller, cancelled, remote, outcome>>

Cancel ==
    /\ ~cancelled /\ cancelled' = TRUE
    /\ UNCHANGED <<caller, remote, worker, outcome, ch>>

SessionNext == Caller \/ StartCommand \/ CommandEnds \/ RunReturns \/ Send \/ Cancel

(* Goroutines are scheduled.  The remote host and the network may take for *)
(* ever, and so may NewSession and Write.                                  *)
SessionFairness == WF_sessionVars(SelectDone \/ SelectResult) /\ WF_sessionVars(Send)

SessionSpec == SessionInit /\ [][SessionNext]_sessionVars /\ SessionFairness

-----------------------------------------------------------------------------
(* A call that reports success is one whose command has run to its end     *)
(* without an error; an upload has then written the whole file, with the   *)
(* size announced.                                                         *)
SuccessMeansDone ==
    result = "ok" => /\ remote = "ok"
                     /\ op = "upload" => sizeFits /\ sent = Len(Writes)

(* A call that waits for its result returns when its context is done, even *)
(* when the remote host never answers.                                     *)
CancelEnds == at = "select" /\ cancelled ~> at = "returned"

(* The goroutine is not left behind with a result that nobody waits for.   *)
WorkerEnds == worker = "sending" ~> worker = "ended"
=============================================================================
