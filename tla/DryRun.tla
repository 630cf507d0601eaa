------------------------------- MODULE DryRun -------------------------------
(***************************************************************************)
(* internal/dokploydb's BuildRetargetPlan: the dry run reads the schema    *)
(* fingerprint, then the tables it supports, then table after table the    *)
(* rows on the source server, in statements of their own, while Dokploy    *)
(* moves and deletes resources and migrates its schema.                    *)
(*                                                                         *)
(* A dry run only reads, so one caller shows all that several can see.     *)
(* Dokploy migrates forward only: a fingerprint it has left does not come  *)
(* back.                                                                   *)
(***************************************************************************)
EXTENDS PlanRows, FiniteSets, Ordering

CONSTANTS
    Table,           \* Dokploy tables that some schema gives a serverId
    RetargetTables,  \* the tables of the retarget allowlist
    TableOf,         \* the table of each row
    TableOrder,      \* the tables by name
    Place,           \* the place of each row by its table, then by its ID
    Retargetable,    \* tables with an ID column and a serverId, by schema
    Version,         \* the place of each schema in Dokploy's history
    NoHash           \* no fingerprint has been read

(* The columns that may name a row are the same for reading and writing,   *)
(* so a row of a supported table is one that a write may name.             *)
ASSUME DryRunAssumption ==
    /\ RetargetTables \subseteq Table
    /\ TableOf \in [Res -> Table]
    /\ TableOrder \in Seq(Table)
    /\ IsFiniteSet(Res)
    /\ Place \in [Res -> Nat]
    /\ \A r, q \in Res : Place[r] = Place[q] => r = q
    /\ Retargetable \in [Hash -> SUBSET Table]
    /\ \A h \in Hash, r \in Res :
          TableOf[r] \in RetargetTables \cap Retargetable[h] => r \in Listed
    /\ Version \in [Hash -> Nat]
    /\ NoHash \notin Hash

VARIABLES
    server,          \* the serverId column of each row
    schema,          \* the fingerprint of Dokploy's current schema
    phase,           \* where the dry run is
    source, target,  \* the servers it was asked for
    hash,            \* the fingerprint it has read
    tables,          \* the supported tables it has not read yet
    found,           \* the rows it has read
    kept,            \* history: rows on the source since the call began
    seen             \* history: rows on the source at some time since then

world == <<server, schema>>
asked == <<source, target>>
history == <<kept, seen>>
vars == <<server, schema, phase, source, target, hash, tables, found, kept,
          seen>>

Running == {"schema", "tables", "list"}

(* Types; a dry run that has read the schema keeps its fingerprint.         *)
TypeOK ==
    /\ server \in [Res -> Column]
    /\ schema \in Hash
    /\ phase \in Running \cup {"idle", "done", "err"}
    /\ source \in Server /\ target \in Server
    /\ hash \in Hash \cup {NoHash}
    /\ phase \in {"tables", "list", "done"} => hash \in Hash
    /\ tables \subseteq Table
    /\ found \subseteq Res
    /\ kept \subseteq seen /\ seen \subseteq Res

-----------------------------------------------------------------------------
(* The rows of a server, as a SELECT on one table would find them now.     *)
OnServer(srv, s) == {r \in Res : srv[r] = Marker(s)}

InTable(t) == {r \in Res : TableOf[r] = t}

(* supportedTables: of the allowlist, what the schema can tell servers of. *)
AnyTables(h) == Retargetable[h]

SupportedTables(h) == RetargetTables \cap Retargetable[h]

(* t is the first of ts by name.                                           *)
IsFirst(t, ts) ==
    \E i \in 1..Len(TableOrder) :
       /\ TableOrder[i] = t /\ t \in ts
       /\ \A j \in 1..(i - 1) : TableOrder[j] \notin ts

(* Rows in the order in which they are read: by table, then by ID.         *)
RowsInOrder(S) ==
    InOrder(S, {p \in S \X S : Place[p[1]] < Place[p[2]]})

RowsToMove(S) ==
    [i \in 1..Cardinality(S) |->
        [res |-> RowsInOrder(S)[i], old |-> source, new |-> target]]

(* The plan that is returned.                                              *)
DryRunPlan ==
    [src |-> source, dst |-> target, hash |-> hash, rows |-> RowsToMove(found)]

-----------------------------------------------------------------------------
Init ==
    /\ server \in [Res -> Column]
    /\ schema \in Hash
    /\ phase = "idle"
    /\ source \in Server /\ target \in Server
    /\ hash = NoHash
    /\ tables = {} /\ found = {} /\ kept = {} /\ seen = {}

(* The call; the same server twice is refused.                             *)
Receive(s, t) ==
    /\ phase = "idle"
    /\ phase' = IF s = t THEN "err" ELSE "schema"
    /\ source' = s /\ target' = t
    /\ kept' = OnServer(server, s) /\ seen' = OnServer(server, s)
    /\ UNCHANGED <<world, hash, tables, found>>

(* ValidateSchema: the fingerprint is kept for the plan, and refused if    *)
(* there is an allowlist that lacks it.                                    *)
ReadSchemaUnkept ==
    /\ phase = "schema"
    /\ phase' = IF Allowed # {} /\ schema \notin Allowed
                THEN "err" ELSE "tables"
    /\ UNCHANGED <<world, asked, hash, tables, found, history>>

ReadSchema ==
    /\ phase = "schema"
    /\ phase' = IF Allowed # {} /\ schema \notin Allowed
                THEN "err" ELSE "tables"
    /\ hash' = schema
    /\ UNCHANGED <<world, asked, tables, found, history>>

ReadTables ==
    /\ phase = "tables"
    /\ phase' = "list"
    /\ tables' = SupportedTables(schema)
    /\ UNCHANGED <<world, asked, hash, found, history>>

(* One table; its SELECT fails once the schema has lost the columns.       *)
ReadTableUnfiltered(t) ==
    /\ phase = "list" /\ IsFirst(t, tables)
    /\ t \in Retargetable[schema]
    /\ found' = found \cup {r \in InTable(t) :
                              \/ source = Local /\ server[r] # Gone
                              \/ server[r] = source}
    /\ tables' = tables \ {t}
    /\ UNCHANGED <<world, phase, asked, hash, history>>

ReadTable(t) ==
    /\ phase = "list" /\ IsFirst(t, tables)
    /\ t \in Retargetable[schema]
    /\ found' = found \cup (InTable(t) \cap OnServer(server, source))
    /\ tables' = tables \ {t}
    /\ UNCHANGED <<world, phase, asked, hash, history>>

FinishRehashing ==
    /\ phase = "list" /\ tables = {}
    /\ phase' = "done"
    /\ hash' = schema
    /\ UNCHANGED <<world, asked, tables, found, history>>

Finish ==
    /\ phase = "list" /\ tables = {}
    /\ phase' = "done"
    /\ UNCHANGED <<world, asked, hash, tables, found, history>>

(* A query fails, or the context ends.                                     *)
Fail ==
    /\ phase \in Running
    /\ phase' = "err"
    /\ UNCHANGED <<world, asked, hash, tables, found, history>>

(* The caller takes the answer and may ask again.                          *)
Leave ==
    /\ phase \in {"done", "err"}
    /\ phase' = "idle"
    /\ hash' = NoHash
    /\ tables' = {} /\ found' = {} /\ kept' = {} /\ seen' = {}
    /\ UNCHANGED <<world, asked>>

-----------------------------------------------------------------------------
(* Dokploy moves or deletes a resource.                                    *)
DokployChanges(r, c) ==
    /\ server[r] # Gone
    /\ server' = [server EXCEPT ![r] = c]
    /\ IF phase \in Running
       THEN /\ kept' = kept \cap OnServer(server', source)
            /\ seen' = seen \cup OnServer(server', source)
       ELSE UNCHANGED history
    /\ UNCHANGED <<schema, phase, asked, hash, tables, found>>

SchemaMigrates(h) ==
    /\ Version[h] > Version[schema]
    /\ schema' = h
    /\ UNCHANGED <<server, phase, asked, hash, tables, found, history>>

Next ==
    \/ \E s, t \in Server : Receive(s, t)
    \/ ReadSchema
    \/ ReadTables
    \/ \E t \in Table : ReadTable(t)
    \/ Finish
    \/ Fail
    \/ Leave
    \/ \E r \in Res, c \in Column : DokployChanges(r, c)
    \/ \E h \in Hash : SchemaMigrates(h)

Spec == Init /\ [][Next]_vars

-----------------------------------------------------------------------------
(* A dry run whose fingerprint is still the current one, and which the     *)
(* write path would therefore accept, lists every row of a supported table *)
(* that was on the source from the beginning of the call to its end: a     *)
(* migration during the call cannot hide a table from an accepted plan.    *)
Complete ==
    phase = "done" /\ hash = schema =>
       \A r \in kept : TableOf[r] \in SupportedTables(hash) => r \in found

(* Nothing is listed that was not on the source at some time of the call.  *)
Sound == found \subseteq seen

(* The write path takes the plan of a dry run as long as the schema and    *)
(* the listed rows stay as they were read: it is well formed, each of its  *)
(* tables is in the allowlist, each row is guarded by the value that the   *)
(* row has, and none is listed twice.                                      *)
WritableIfUnchanged ==
    phase = "done" /\ found # {} /\ hash = schema
    /\ found \subseteq OnServer(server, source) =>
       /\ ValidForWrite(DryRunPlan)
       /\ AllAtSource(server, DryRunPlan)
       /\ Touched(DryRunPlan, Len(DryRunPlan.rows)) \subseteq Listed
       /\ \A i, j \in 1..Len(DryRunPlan.rows) :
             DryRunPlan.rows[i].res = DryRunPlan.rows[j].res => i = j
=============================================================================
