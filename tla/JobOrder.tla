------------------------------ MODULE JobOrder ------------------------------
(***************************************************************************)
(* internal/state, the order of the jobs.  The time of a job's last update *)
(* is kept as text in the format RFC3339Nano, which writes the fraction of *)
(* a second without its trailing zeros, and the jobs are listed by that    *)
(* text.  What is fixed in width, the date down to the second, is one      *)
(* character here; the fraction has Places digits to the base Base.        *)
(***************************************************************************)
EXTENDS Integers, Sequences, FiniteSets, Functions, Ordering

CONSTANTS
    Id,             \* job IDs, which the store compares as text
    Base, Places,   \* digits of the fraction of a second
    Seconds,        \* bound of the clock
    MaxLimit,       \* jobHistoryPageSize, maxJobHistoryPageSize
    ProtectedCount, \* protectedJobCount
    AskedNumber,    \* what a client gives as limit or offset
    NoText          \* no such job in the table

ASSUME OrderAssumption ==
    /\ Id \subseteq Nat /\ IsFiniteSet(Id)
    /\ Base \in Nat \ {0} /\ Places \in Nat /\ Seconds \in Nat \ {0}
    /\ MaxLimit \in Nat \ {0} /\ ProtectedCount \in Nat
    /\ AskedNumber \subseteq Int
    /\ NoText \notin Seq(Int)

(* A moment, as a clock shows it, and the order of time.                   *)
Moment == [second : 0 .. Seconds - 1, digits : [1 .. Places -> 0 .. Base - 1]]

Earlier(s, t) ==
    \/ s.second < t.second
    \/ /\ s.second = t.second
       /\ \E i \in 1 .. Places :
             /\ s.digits[i] < t.digits[i]
             /\ \A k \in 1 .. i - 1 : s.digits[k] = t.digits[k]

(* Characters in the order of their codes: "." < "0" < ... < "9" < "Z".    *)
Dot == -1
Zulu == Base

(* How many digits are written.                                            *)
Written(t) ==
    CHOOSE n \in 0 .. Places :
       /\ \A i \in n + 1 .. Places : t.digits[i] = 0
       /\ n > 0 => t.digits[n] # 0

formatTime(t) ==
    <<t.second>>
    \o (IF Written(t) = 0 THEN <<>>
        ELSE <<Dot>> \o [i \in 1 .. Written(t) |-> t.digits[i]])
    \o <<Zulu>>

(* The digits of a text, between the dot and the zone.                     *)
Fraction(text) == [i \in 1 .. Len(text) - 3 |-> text[i + 2]]

parseTime(text) ==
    [second |-> text[1],
     digits |-> [i \in 1 .. Places |-> IF i <= Len(text) - 3 THEN text[i + 2] ELSE 0]]

(* SQLite compares the texts character by character.                       *)
BeginsWith(b, a) ==
    Len(a) <= Len(b) /\ \A i \in 1 .. Len(a) : a[i] = b[i]

TextBefore(a, b) ==
    \/ a # b /\ BeginsWith(b, a)
    \/ \E i \in 1 .. Len(a) :
          /\ i <= Len(b) /\ a[i] < b[i]
          /\ \A k \in 1 .. i - 1 : a[k] = b[k]

VARIABLES
    now,        \* the clock
    updated,    \* updated_at of each job in the table
    touched     \* when it was last updated

orderVars == <<now, updated, touched>>

Stored == {j \in Id : updated[j] # NoText}

(* Types; the store reads back the moment of an update.                    *)
OrderTypeOK ==
    /\ now \in Moment
    /\ touched \in [Id -> Moment]
    /\ updated \in [Id -> Seq(Int) \cup {NoText}]
    /\ \A j \in Stored : parseTime(updated[j]) = touched[j]

OrderInit ==
    /\ now \in Moment
    /\ updated = [j \in Id |-> NoText]
    /\ touched = [j \in Id |-> now]

-----------------------------------------------------------------------------
(* ORDER BY updated_at DESC, id DESC                                       *)
PrecedesByTime(j, k) == TextBefore(updated[k], updated[j])

PrecedesUpward(j, k) ==
    TextBefore(updated[j], updated[k]) \/ (updated[j] = updated[k] /\ j < k)

Precedes(j, k) ==
    TextBefore(updated[k], updated[j]) \/ (updated[j] = updated[k] /\ j > k)

Listed == InOrder(Stored, {p \in Stored \X Stored : Precedes(p[1], p[2])})

(* The query parameters: a limit that is missing, not a number, or not     *)
(* positive is the page size, a larger one is cut, and an offset that is   *)
(* not a number or negative is 0.                                          *)
Limit(asked) ==
    IF asked <= 0 THEN MaxLimit ELSE IF asked > MaxLimit THEN MaxLimit ELSE asked

Offset(asked) == IF asked < 0 THEN 0 ELSE asked

(* LIMIT ? OFFSET ?                                                        *)
ListJobsPage(limit, offset) ==
    LET last == IF offset + limit < Cardinality(Stored) THEN offset + limit
                ELSE Cardinality(Stored)
    IN  [i \in 1 .. last - offset |-> Listed[offset + i]]

ProtectedJobIDs == Range(ListJobsPage(ProtectedCount, 0))

-----------------------------------------------------------------------------
(* The clock does not go back; it may not advance between two updates.     *)
Tick ==
    /\ now' \in {t \in Moment : Earlier(now, t)}
    /\ UNCHANGED <<updated, touched>>

Touch(j) ==
    /\ updated' = [updated EXCEPT ![j] = formatTime(now)]
    /\ touched' = [touched EXCEPT ![j] = now]
    /\ UNCHANGED now

CreateJob(j) == j \notin Stored /\ Touch(j)

UpdateJob(j) == j \in Stored /\ Touch(j)

DeleteJob(j) ==
    /\ j \in Stored \ ProtectedJobIDs
    /\ updated' = [updated EXCEPT ![j] = NoText]
    /\ UNCHANGED <<now, touched>>

OrderNext ==
    Tick \/ \E j \in Id : CreateJob(j) \/ UpdateJob(j) \/ DeleteJob(j)

OrderSpec == OrderInit /\ [][OrderNext]_orderVars

-----------------------------------------------------------------------------
(* Any two jobs are listed in one order only, whatever their times.        *)
OrderIsFixed ==
    /\ \A j, k \in Stored : j # k => (Precedes(j, k) <=> ~Precedes(k, j))
    /\ \A i, j, k \in Stored : Precedes(i, j) /\ Precedes(j, k) => Precedes(i, k)

(* A client that goes on from page to page by the limit that it is told,   *)
(* whatever limit it asks for, sees every job on one page and there once,  *)
(* and in the one order that they have; no page is longer than it may be.  *)
PagesPartition ==
    /\ OrderIsFixed
    /\ \A asked \in AskedNumber :
          LET size == Limit(asked)
              page(n) == ListJobsPage(size, Offset((n - 1) * size))
              Shown == {s \in (1 .. Cardinality(Stored)) \X (1 .. size) :
                           s[2] \in DOMAIN page(s[1])}
              job(s) == page(s[1])[s[2]]
          IN  /\ \A n \in 1 .. Cardinality(Stored) : DOMAIN page(n) \subseteq 1 .. MaxLimit
              /\ \A j \in Stored : \E s \in Shown : job(s) = j
              /\ \A s, t \in Shown :
                    s[1] < t[1] \/ (s[1] = t[1] /\ s[2] < t[2]) =>
                       Precedes(job(s), job(t))

(* A job is listed before one that was updated later only when both        *)
(* updates fell into the same second and the digits of the earlier one, as *)
(* far as they are written, begin those of the later one.                  *)
MisorderIsByTrimming ==
    \A j, k \in Stored :
       Precedes(j, k) /\ Earlier(touched[j], touched[k]) =>
          /\ updated[j][1] = updated[k][1]
          /\ Fraction(updated[j]) # Fraction(updated[k])
          /\ BeginsWith(Fraction(updated[k]), Fraction(updated[j]))
=============================================================================
