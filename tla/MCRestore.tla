----------------------------- MODULE MCRestore ------------------------------
(***************************************************************************)
(* A small instance of Restore, of whose three parts one runs at a time.   *)
(*                                                                         *)
(* The bucket has a manifest, two backups, one of them with the name of    *)
(* the resource, and a second manifest on the second page.                 *)
(***************************************************************************)
EXTENDS Restore, TLC

CONSTANT app

VARIABLE part       \* what runs

MCResource == [id |-> app, type |-> "application", name |-> "Web"]
MCNormal == ("Web" :> "web") @@ ("web" :> "web") @@ ("db" :> "db")
M(id, type, name, created, objects) ==
    [id |-> id, type |-> type, name |-> name, created |-> created, objects |-> objects]
MCManifest == {
    M(app, "redis", "db", 1, <<2, None>>),
    M(None, "application", "web", 2, <<2, 3>>),
    M(None, "redis", "web", 2, <<3>>)}

(* Plain, a blank, a quote, or one that a shell replaces.                  *)
MCCharacter == {"a", " ", "'", "\"", "$"}

MCInit ==
    /\ part \in {"candidates", "session", "command"}
    /\ RestoreInit
    /\ part # "candidates" => \A k \in Key : bucket[k] = None
    /\ part # "session" => op = "run" /\ ~sizeFits /\ ~cancelled

MCNext ==
    /\ UNCHANGED part
    /\ \/ part = "candidates" /\ Next /\ UNCHANGED <<sessionVars, given>>
       \/ part = "session" /\ SessionNext /\ UNCHANGED <<vars, given>>
       \/ part = "command" /\ CommandNext /\ UNCHANGED <<vars, sessionVars>>

(* The fairness of SSHSession.                                             *)
MCSpec ==
    MCInit /\ [][MCNext]_<<part, restoreVars>> /\ SessionFairness
=============================================================================
