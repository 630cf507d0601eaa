------------------------------ MODULE Restore ------------------------------
(***************************************************************************)
(* The pieces that a restore of a backup would be made of, side by side:   *)
(* the search for backups (BackupCandidates), one call to the remote host  *)
(* (SSHSession) and the commands for it (RestoreCommand).  Nothing in the  *)
(* program puts them together yet, so they share no state.                 *)
(***************************************************************************)
EXTENDS BackupCandidates, SSHSession, RestoreCommand

restoreVars == <<vars, sessionVars, given>>

RestoreInit == Init /\ SessionInit /\ CommandInit

RestoreNext ==
    \/ Next /\ UNCHANGED <<sessionVars, given>>
    \/ SessionNext /\ UNCHANGED <<vars, given>>
    \/ CommandNext /\ UNCHANGED <<vars, sessionVars>>

RestoreSpec ==
    RestoreInit /\ [][RestoreNext]_restoreVars /\ SessionFairness

(* The types of a listing and of a session's call.                         *)
RestoreTypeOK == TypeOK /\ SessionTypeOK

(* A call that waits for its result returns once its context is done, even *)
(* when the remote host never answers, and leaves no goroutine behind that *)
(* has a result to send.                                                   *)
NothingWaitsForEver == CancelEnds /\ WorkerEnds
=============================================================================
