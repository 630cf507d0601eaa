----------------------------- MODULE ServerScan -----------------------------
(***************************************************************************)
(* internal/dokploydb's ListServers: the scan counts the rows of each      *)
(* server table after table, then reads Dokploy's server table, and adds   *)
(* the local server, in statements of their own, while Dokploy moves and   *)
(* deletes resources and registers and removes servers.                    *)
(*                                                                         *)
(* Dokploy keeps the references: a serverId names a registered server or   *)
(* is NULL, and the rows of a removed server go with it.  Names and the    *)
(* order of the list are left out, and so is the schema: a table or a      *)
(* column that is missing counts as a failing query.                       *)
(***************************************************************************)
EXTENDS Integers, FiniteSetsExt

CONSTANTS
    Res,         \* rows of the tables in the retarget allowlist
    Table,       \* those tables
    TableOf,     \* the table of each row
    Server,      \* server IDs, the local one included
    Local,       \* the synthetic ID of the local server
    Gone,        \* the row does not exist
    Report,      \* what Dokploy may say of a server: [raw, age]
    NoAge,       \* it has never been seen
    DeadAfter    \* MIGRATOR_DEAD_AFTER

ASSUME ScanAssumption ==
    /\ Local \in Server /\ Gone \notin Server
    /\ TableOf \in [Res -> Table]
    /\ IsFiniteSet(Res)
    /\ DeadAfter \in Int /\ NoAge \notin Int
    /\ Report \subseteq [raw : {"up", "down", "other"}, age : Int \cup {NoAge}]

VARIABLES
    server,      \* the server of each row, NULL being the local one
    registered,  \* Dokploy's server table: what it says of each server
    phase,       \* where the scan is
    tables,      \* the tables it has not counted yet
    counts,      \* resourceCounts
    listed,      \* the answer: status and count of each server
    kept, seen   \* history: the rows of each server all along, and ever

ofRows == <<kept, seen>>
scanVars == <<server, registered, phase, tables, counts, listed, kept, seen>>

Remote == Server \ {Local}

Entry == [status : {"online", "offline", "unknown"}, count : Nat]

(* Types; rows are on servers that exist, and the scan answers with one of *)
(* the three statuses for each server.                                     *)
ScanTypeOK ==
    /\ server \in [Res -> Server \cup {Gone}]
    /\ DOMAIN registered \subseteq Remote
    /\ \A s \in DOMAIN registered : registered[s] \in Report
    /\ \A r \in Res : server[r] \in DOMAIN registered \cup {Local, Gone}
    /\ phase \in {"idle", "count", "list", "done", "err"}
    /\ tables \subseteq Table
    /\ counts \in [Server -> Nat]
    /\ DOMAIN listed \subseteq Server
    /\ \A s \in DOMAIN listed : listed[s] \in Entry
    /\ kept \in [Server -> SUBSET Res] /\ seen \in [Server -> SUBSET Res]

-----------------------------------------------------------------------------
RowsOf(srv) == [s \in Server |-> {r \in Res : srv[r] = s}]

(* classifyServerStatus: what Dokploy says goes before when it last saw    *)
(* the server.                                                             *)
Classify(report) ==
    CASE report.raw = "up"   -> "online"
      [] report.raw = "down" -> "offline"
      [] report.raw = "other" ->
            IF report.age = NoAge \/ DeadAfter <= 0 THEN "unknown"
            ELSE IF report.age > DeadAfter THEN "offline" ELSE "online"

(* resourceCountsByServer for one table, rows grouped by their server.     *)
RemoteCountsOf(srv, t) ==
    [s \in Server |->
       IF s = Local THEN 0
       ELSE Cardinality({r \in Res : TableOf[r] = t /\ srv[r] = s})]

CountsOf(srv, t) ==
    [s \in Server |-> Cardinality({r \in Res : TableOf[r] = t /\ srv[r] = s})]

(* The servers of the table, and the local server, ensureLocalServer.      *)
Entries(reg, cnt) ==
    [s \in DOMAIN reg \cup {Local} |->
       [status |-> IF s = Local THEN "unknown" ELSE Classify(reg[s]),
        count  |-> cnt[s]]]

NoCounts == [s \in Server |-> 0]
NoRows == [s \in Server |-> {}]
NoEntries == [s \in {} |-> 0]

-----------------------------------------------------------------------------
ScanInit ==
    /\ \E S \in SUBSET Remote :
          /\ IsFiniteSet(S)
          /\ registered \in [S -> Report]
          /\ server \in [Res -> S \cup {Local, Gone}]
    /\ phase = "idle"
    /\ tables = {} /\ counts = NoCounts /\ listed = NoEntries
    /\ kept = NoRows /\ seen = NoRows

Receive ==
    /\ phase = "idle"
    /\ phase' = "count"
    /\ tables' = Table
    /\ kept' = RowsOf(server) /\ seen' = RowsOf(server)
    /\ UNCHANGED <<server, registered, counts, listed>>

CountTableAlone(t) ==
    /\ phase = "count" /\ t \in tables
    /\ counts' = CountsOf(server, t)
    /\ tables' = tables \ {t}
    /\ UNCHANGED <<server, registered, phase, listed, ofRows>>

(* One table; their order by name does not matter to the counts.           *)
CountTable(t) ==
    /\ phase = "count" /\ t \in tables
    /\ counts' = [s \in Server |-> counts[s] + CountsOf(server, t)[s]]
    /\ tables' = tables \ {t}
    /\ UNCHANGED <<server, registered, phase, listed, ofRows>>

ReadServers ==
    /\ phase = "count" /\ tables = {}
    /\ phase' = "done"
    /\ listed' = Entries(registered, counts)
    /\ UNCHANGED <<server, registered, tables, counts, ofRows>>

Fail ==
    /\ phase = "count"
    /\ phase' = "err"
    /\ UNCHANGED <<server, registered, tables, counts, listed, ofRows>>

Leave ==
    /\ phase \in {"done", "err"}
    /\ phase' = "idle"
    /\ tables' = {} /\ counts' = NoCounts /\ listed' = NoEntries
    /\ kept' = NoRows /\ seen' = NoRows
    /\ UNCHANGED <<server, registered>>

-----------------------------------------------------------------------------
(* The history of the scan, as the rows move on to srv.                    *)
Follow(srv) ==
    IF phase = "count"
    THEN /\ kept' = [s \in Server |-> kept[s] \cap RowsOf(srv)[s]]
         /\ seen' = [s \in Server |-> seen[s] \cup RowsOf(srv)[s]]
    ELSE UNCHANGED ofRows

(* Dokploy moves or deletes a resource, registers or removes a server.     *)
DokployMoves(r, s) ==
    /\ server[r] # Gone /\ server[r] # s
    /\ s \in DOMAIN registered \cup {Local, Gone}
    /\ server' = [server EXCEPT ![r] = s]
    /\ Follow(server')
    /\ UNCHANGED <<registered, phase, tables, counts, listed>>

DokployRegisters(s, report) ==
    /\ s \notin DOMAIN registered
    /\ registered' = [q \in DOMAIN registered \cup {s} |->
                        IF q = s THEN report ELSE registered[q]]
    /\ UNCHANGED <<server, phase, tables, counts, listed, ofRows>>

DokployRemoves(s) ==
    /\ s \in DOMAIN registered
    /\ registered' = [q \in DOMAIN registered \ {s} |-> registered[q]]
    /\ server' = [r \in Res |-> IF server[r] = s THEN Gone ELSE server[r]]
    /\ Follow(server')
    /\ UNCHANGED <<phase, tables, counts, listed>>

ScanNext ==
    \/ Receive
    \/ \E t \in Table : CountTable(t)
    \/ ReadServers
    \/ Fail
    \/ Leave
    \/ \E r \in Res, s \in Server \cup {Gone} : DokployMoves(r, s)
    \/ \E s \in Remote, report \in Report : DokployRegisters(s, report)
    \/ \E s \in Remote : DokployRemoves(s)

ScanSpec == ScanInit /\ [][ScanNext]_scanVars

-----------------------------------------------------------------------------
(* A source that the operator may name for a dry run is in the list.       *)
SourceIsListed == \A s \in Server : kept[s] # {} => s \in DOMAIN listed

BetweenKeptAndSeen ==
    \A s \in DOMAIN listed :
       /\ Cardinality(kept[s]) <= listed[s].count
       /\ listed[s].count <= Cardinality(seen[s])

(* A server that kept a row during the whole scan is in the list, and the  *)
(* count shown for a server lies between the rows that it had all along    *)
(* and those that it had at some time of the scan.                         *)
CountsWithinBounds == phase = "done" => SourceIsListed /\ BetweenKeptAndSeen

(* A scan during which no row moved shows every row exactly once: each is  *)
(* counted for a server of the list, the local one included.               *)
QuietScanShowsAll ==
    phase = "done" /\ kept = seen =>
       MapThenSumSet(LAMBDA s : listed[s].count, DOMAIN listed) =
          Cardinality(UNION {seen[s] : s \in Server})
=============================================================================
