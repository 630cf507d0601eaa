----------------------------- MODULE PlanCheck -----------------------------
(***************************************************************************)
(* internal/jobs, validateStoredDryRunPlan and validatePlanSubset: whether *)
(* a submitted plan may be applied, decided by two loops over the stored   *)
(* and the submitted rows after one over the events of the job.            *)
(*                                                                         *)
(* A row is compared whole, with its names and blanks; its identity is its *)
(* table, ID and servers without the blanks around them, so that different *)
(* rows may have one identity.                                             *)
(***************************************************************************)
EXTENDS Integers, Sequences

CONSTANTS
    Row,        \* rows as they are sent and stored
    Identity,   \* planRowIdentity
    Ident,      \* planRowIdentityFor, a function on rows
    Blank,      \* identities of which a part is empty
    Header,     \* source, target and schema hash of a plan
    PlanID,
    Undecodable \* the payload of an event that is not a plan

Plan == [id : PlanID, header : Header, rows : Seq(Row)]

Event == [message : {"dry-run plan ready", "other"}, payload : Plan \cup {Undecodable}]

ASSUME CheckAssumption ==
    /\ Ident \in [Row -> Identity]
    /\ Undecodable \notin Plan

VARIABLES
    events,         \* the events of the job, in their order
    submitted,      \* the plan of the request
    at,             \* "events", "header", "stored", "submitted" or the verdict
    n,              \* the loop variable
    stored,         \* the plan of the event
    storedRows,     \* the rows that the first loop has kept, by identity
    submittedRows   \* the identities that the second loop has seen

vars == <<events, submitted, at, n, stored, storedRows, submittedRows>>

(* Types; the two loops run over the rows of the plan that was found.      *)
TypeOK ==
    /\ events \in Seq(Event) /\ submitted \in Plan
    /\ at \in {"events", "header", "stored", "submitted", "accepted", "refused"}
    /\ n \in Nat \ {0}
    /\ at = "events" => n <= Len(events) + 1
    /\ stored \in Plan \cup {Undecodable}
    /\ at \in {"header", "stored", "submitted", "accepted"} => stored \in Plan
    /\ at = "stored" => n <= Len(stored.rows) + 1
    /\ at = "submitted" => n <= Len(submitted.rows) + 1
    /\ storedRows \in SUBSET Row /\ submittedRows \in SUBSET Identity

Begin ==
    /\ at = "events" /\ n = 1 /\ stored = Undecodable
    /\ storedRows = {} /\ submittedRows = {}

Init == events \in Seq(Event) /\ submitted \in Plan /\ Begin

-----------------------------------------------------------------------------
Goto(next) == at' = next /\ n' = 1

Refuse == Goto("refused") /\ UNCHANGED <<events, submitted, stored, storedRows, submittedRows>>

(* Events of other kinds and plans with another ID are passed over.        *)
NextEvent ==
    /\ at = "events" /\ n <= Len(events)
    /\ \/ events[n].message # "dry-run plan ready"
       \/ events[n].payload # Undecodable /\ events[n].payload.id # submitted.id
    /\ n' = n + 1
    /\ UNCHANGED <<events, submitted, at, stored, storedRows, submittedRows>>

NoEvent ==
    /\ at = "events"
    /\ \/ n > Len(events)
       \/ /\ n <= Len(events)
          /\ events[n].message = "dry-run plan ready" /\ events[n].payload = Undecodable
    /\ Refuse

FoundEvent ==
    /\ at = "events" /\ n <= Len(events)
    /\ events[n].message = "dry-run plan ready"
    /\ events[n].payload # Undecodable /\ events[n].payload.id = submitted.id
    /\ stored' = events[n].payload
    /\ Goto("header")
    /\ UNCHANGED <<events, submitted, storedRows, submittedRows>>

CheckHeader ==
    /\ at = "header"
    /\ IF stored.header = submitted.header /\ submitted.rows # <<>>
       THEN /\ Goto("stored")
            /\ UNCHANGED <<events, submitted, stored, storedRows, submittedRows>>
       ELSE Refuse

KeepStoredRow ==
    /\ at = "stored" /\ n <= Len(stored.rows)
    /\ LET row == stored.rows[n]
       IN  IF Ident[row] \in Blank \/ \E r \in storedRows : Ident[r] = Ident[row]
           THEN Refuse
           ELSE /\ storedRows' = storedRows \cup {row}
                /\ n' = n + 1
                /\ UNCHANGED <<events, submitted, at, stored, submittedRows>>

EndOfStored ==
    /\ at = "stored" /\ n > Len(stored.rows)
    /\ Goto("submitted")
    /\ UNCHANGED <<events, submitted, stored, storedRows, submittedRows>>

CheckSubmittedRowOnly ==
    /\ at = "submitted" /\ n <= Len(submitted.rows)
    /\ LET row == submitted.rows[n]
       IN  IF Ident[row] \in Blank \/ row \notin storedRows
           THEN Refuse
           ELSE /\ submittedRows' = submittedRows \cup {Ident[row]}
                /\ n' = n + 1
                /\ UNCHANGED <<events, submitted, at, stored, storedRows>>

(* A map holds one row of an identity, so that the row it holds is the     *)
(* submitted one if and only if that is among the rows kept.               *)
CheckSubmittedRow ==
    /\ at = "submitted" /\ n <= Len(submitted.rows)
    /\ LET row == submitted.rows[n]
       IN  IF \/ Ident[row] \in Blank \/ Ident[row] \in submittedRows
              \/ row \notin storedRows
           THEN Refuse
           ELSE /\ submittedRows' = submittedRows \cup {Ident[row]}
                /\ n' = n + 1
                /\ UNCHANGED <<events, submitted, at, stored, storedRows>>

Accept ==
    /\ at = "submitted" /\ n > Len(submitted.rows)
    /\ Goto("accepted")
    /\ UNCHANGED <<events, submitted, stored, storedRows, submittedRows>>

Next ==
    \/ NextEvent \/ NoEvent \/ FoundEvent \/ CheckHeader
    \/ KeepStoredRow \/ EndOfStored \/ CheckSubmittedRow \/ Accept

Spec == Init /\ [][Next]_vars

-----------------------------------------------------------------------------
Unique(rows) ==
    \A i, k \in DOMAIN rows : Ident[rows[i]] = Ident[rows[k]] => i = k

(* A plan that may be applied to what was stored: some of the stored rows, *)
(* each as it was stored and none twice, and nothing else changed.         *)
Admissible(p, q) ==
    /\ p.header = q.header
    /\ q.rows # <<>>
    /\ \A i \in DOMAIN p.rows : Ident[p.rows[i]] \notin Blank
    /\ Unique(p.rows) /\ Unique(q.rows)
    /\ \A i \in DOMAIN q.rows : \E k \in DOMAIN p.rows : q.rows[i] = p.rows[k]

(* The event that decides: the first that has the plan or is unreadable.   *)
Deciding(i) ==
    /\ i \in DOMAIN events /\ events[i].message = "dry-run plan ready"
    /\ events[i].payload = Undecodable \/ events[i].payload.id = submitted.id

FirstDeciding(i) == Deciding(i) /\ \A k \in 1 .. i - 1 : ~Deciding(k)

Admitted ==
    \E i \in DOMAIN events :
       /\ FirstDeciding(i)
       /\ events[i].payload # Undecodable
       /\ Admissible(events[i].payload, submitted)

(* A plan is accepted exactly when the first event that decides has a plan *)
(* that the submitted one is an admissible selection of, in any order.     *)
VerdictIsRight ==
    at \in {"accepted", "refused"} => (at = "accepted" <=> Admitted)
=============================================================================
