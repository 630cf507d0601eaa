--------------------------- MODULE Restore_proofs ---------------------------
(***************************************************************************)
(* What the pieces of a restore promise, for buckets of any finite size,   *)
(* pages of any length, any manifests, any call to the remote host, and    *)
(* names of any length, of any characters.                                 *)
(***************************************************************************)
EXTENDS Restore, Ordering_proofs

-----------------------------------------------------------------------------
(* The sorted candidates: the same ones, none before one that comes before *)
(* it.                                                                     *)
SortedFrom(t, s) ==
    /\ t \in Seq(Candidate) /\ Len(t) = Len(s)
    /\ \A n \in 1..Len(s) : \E i \in 1..Len(s) : t[n] = s[i]
    /\ \A i \in 1..Len(s) : \E n \in 1..Len(s) : t[n] = s[i]
    /\ \A m, n \in 1..Len(s) : m < n => ~Before(t[n], t[m])

(* sortCandidates sorts.                                                   *)
LEMMA SortIs ==
    ASSUME NEW s \in Seq(Candidate)
    PROVE  SortedFrom(sortCandidates(s), s)
<1> DEFINE D == 1..Len(s)
           comes(i, j) == Before(s[i], s[j]) \/ (~Before(s[j], s[i]) /\ i < j)
           R == {p \in D \X D : comes(p[1], p[2])}
           q == InOrder(D, R)
<1>1. Len(s) \in Nat /\ DOMAIN s = D /\ \A i \in D : s[i] \in Candidate
  BY LenProperties, ElementOfSeq
<1>2. IsFiniteSet(D) /\ Cardinality(D) = Len(s)
  BY <1>1, Counting
<1>3. \A i, j \in D : <<i, j>> \in R <=> comes(i, j)
  <2> HIDE DEF comes
  <2> QED
    OBVIOUS
<1>4. \A i, j \in D : Before(s[i], s[j]) <=>
         \/ s[i].confidence = "manifest" /\ s[j].confidence # "manifest"
         \/ s[i].confidence = s[j].confidence /\ s[i].modified > s[j].modified
  BY <1>1 DEF Before, Candidate
<1>5. \A i \in D : /\ s[i].confidence \in {"manifest", "fallback-name"}
                   /\ s[i].modified \in Nat /\ i \in Nat
  BY <1>1 DEF Candidate
<1>6. StrictlyOrders(R, D)
  <2>1. \A i \in D : ~comes(i, i)
    BY <1>4, <1>5
  <2>2. \A i, j \in D : i # j => comes(i, j) \/ comes(j, i)
    BY <1>4, <1>5
  <2>3. \A i, j, k \in D : comes(i, j) /\ comes(j, k) => comes(i, k)
    BY <1>4, <1>5
  <2> HIDE DEF R, comes, D
  <2> QED
    BY <1>3, <2>1, <2>2, <2>3 DEF StrictlyOrders
<1>7. sortCandidates(s) = [n \in D |-> s[q[n]]]
  BY <1>1 DEF sortCandidates
<1> HIDE DEF R, q
<1>8. /\ q \in [D -> D]
      /\ \A i \in D : \E n \in D : q[n] = i
      /\ \A m, n \in D : m < n => <<q[m], q[n]>> \in R
  <2> HIDE DEF D
  <2>1. /\ q \in [1..Cardinality(D) -> D]
        /\ \A i \in D : \E n \in 1..Cardinality(D) : q[n] = i
        /\ \A m, n \in 1..Cardinality(D) : m < n => <<q[m], q[n]>> \in R
    <3> HIDE DEF comes
    <3>1. IsFiniteSet(D) /\ StrictlyOrders(R, D)
      BY <1>2, <1>6
    <3> QED
      BY <3>1, InOrderIs DEF q
  <2>2. 1..Cardinality(D) = D
    BY <1>2 DEF D
  <2> QED
    BY <2>1, <2>2
<1>9. \A n \in D : s[q[n]] \in Candidate
  BY <1>1, <1>8
<1>10. sortCandidates(s) \in Seq(Candidate) /\ Len(sortCandidates(s)) = Len(s)
  <2> DEFINE t == [n \in 1..Len(s) |-> s[q[n]]]
  <2>1. t \in Seq(Candidate) /\ DOMAIN t = 1..Len(s)
    BY <1>1, <1>9, IsASeq
  <2> HIDE DEF t
  <2>2. Len(t) = Len(s)
    BY <1>1, <2>1, LenProperties
  <2> QED
    BY <1>7, <2>1, <2>2 DEF t
<1>11. \A m, n \in D : m < n => ~Before(s[q[n]], s[q[m]])
  <2>1. \A i, j \in D : comes(i, j) => ~Before(s[j], s[i])
    BY <1>4, <1>5
  <2> HIDE DEF comes
  <2> QED
    BY <1>3, <1>8, <2>1
<1>12. \A n \in D : sortCandidates(s)[n] = s[q[n]]
  BY <1>7
<1> HIDE DEF D
<1>13. /\ \A n \in D : \E i \in D : sortCandidates(s)[n] = s[i]
       /\ \A i \in D : \E n \in D : sortCandidates(s)[n] = s[i]
       /\ \A m, n \in D : m < n =>
             ~Before(sortCandidates(s)[n], sortCandidates(s)[m])
  BY <1>8, <1>11, <1>12
<1> QED
  BY <1>10, <1>13 DEF D, SortedFrom

(* Of each key the first candidate is kept, in the order there was.        *)
DedupedFrom(d, s) ==
    /\ d \in Seq(Candidate) /\ Len(d) \in Nat
    /\ \A n \in 1..Len(d) : \E i \in 1..Len(s) : d[n] = s[i]
    /\ \A m, n \in 1..Len(d) : m < n =>
          /\ d[m].key # d[n].key
          /\ \E i, j \in 1..Len(s) : i < j /\ d[m] = s[i] /\ d[n] = s[j]
    /\ \A i \in 1..Len(s) : \E n \in 1..Len(d), j \in 1..i :
          d[n] = s[j] /\ s[j].key = s[i].key

(* dedupeCandidates keeps the first of each key, in the order given.       *)
LEMMA DedupeIs ==
    ASSUME NEW s \in Seq(Candidate)
    PROVE  DedupedFrom(dedupeCandidates(s), s)
<1> DEFINE D == 1..Len(s)
           d == dedupeCandidates(s)
           firsts == {i \in D : \A j \in D : j < i => s[j].key # s[i].key}
<1>1. Len(s) \in Nat /\ DOMAIN s = D
  BY LenProperties
<1>2. d = At(s, firsts)
  BY <1>1 DEF dedupeCandidates
<1> HIDE DEF d
<1>3. \A i \in firsts : i \in D /\ \A j \in D : j < i => s[j].key # s[i].key
  OBVIOUS
<1>4. ASSUME NEW i \in D
      PROVE  \E j \in firsts : j <= i /\ s[j].key = s[i].key
  <2> DEFINE T == {j \in D : s[j].key = s[i].key}
  <2>1. T \in SUBSET Nat /\ i \in T
    BY <1>1
  <2> HIDE DEF T
  <2>2. PICK j \in T : \A k \in T : j <= k
    BY <2>1, Least, Zenon
  <2>3. j \in D /\ s[j].key = s[i].key /\ j <= i
    BY <2>1, <2>2 DEF T
  <2>4. ASSUME NEW k \in D, k < j
        PROVE  s[k].key # s[j].key
    <3>1. k \notin T
      BY <1>1, <2>2, <2>3, <2>4
    <3> QED
      BY <2>3, <2>4, <3>1 DEF T
  <2> QED
    BY <2>3, <2>4
<1>5. firsts \in SUBSET (1..Len(s))
  OBVIOUS
<1> HIDE DEF firsts
<1>6. d \in Seq(Candidate) /\ Len(d) \in Nat
  BY <1>2, <1>5, AtIs
<1>7. PICK f \in [1..Len(d) -> firsts] :
         /\ \A n \in 1..Len(d) : d[n] = s[f[n]]
         /\ \A i \in firsts : \E n \in 1..Len(d) : f[n] = i
         /\ \A m, n \in 1..Len(d) : m < n => f[m] < f[n]
  BY <1>2, <1>5, AtIs
<1>8. \A n \in 1..Len(d) : f[n] \in firsts /\ f[n] \in D
  BY <1>3, <1>7
<1>9. ASSUME NEW m \in 1..Len(d), NEW n \in 1..Len(d), m < n
      PROVE  /\ d[m].key # d[n].key
             /\ \E i, j \in D : i < j /\ d[m] = s[i] /\ d[n] = s[j]
  BY <1>3, <1>7, <1>8, <1>9
<1>10. ASSUME NEW i \in D
       PROVE  \E n \in 1..Len(d), j \in 1..i : d[n] = s[j] /\ s[j].key = s[i].key
  <2>1. PICK j \in firsts : j <= i /\ s[j].key = s[i].key
    BY <1>4
  <2>2. PICK n \in 1..Len(d) : f[n] = j
    BY <1>7
  <2>3. j \in 1..i
    BY <1>1, <1>3, <2>1
  <2> QED
    BY <1>7, <2>1, <2>2, <2>3
<1>11. \A n \in 1..Len(d) : \E i \in D : d[n] = s[i]
  BY <1>7, <1>8
<1> HIDE DEF D
<1>12. DedupedFrom(d, s)
  BY <1>6, <1>9, <1>10, <1>11 DEF DedupedFrom, D
<1> QED
  BY <1>12 DEF d

(* The answer has each key once, at its best, and the best keys first.     *)
LEMMA AnswerIs ==
    ASSUME candidates \in Seq(Candidate)
    PROVE  /\ Answer \in Seq(Candidate) /\ Len(Answer) \in Nat
           /\ \A n \in 1..Len(Answer) :
                 \E i \in 1..Len(candidates) : Answer[n] = candidates[i]
           /\ \A m, n \in 1..Len(Answer) : m < n =>
                 Answer[m].key # Answer[n].key /\ ~Before(Answer[n], Answer[m])
           /\ \A i \in 1..Len(candidates) : \E n \in 1..Len(Answer) :
                 /\ Answer[n].key = candidates[i].key
                 /\ ~Before(candidates[i], Answer[n])
<1> DEFINE s == sortCandidates(candidates)
           d == Answer
<1>1. SortedFrom(s, candidates)
  BY SortIs
<1> HIDE DEF s
<1>2. /\ s \in Seq(Candidate) /\ Len(s) = Len(candidates) /\ Len(s) \in Nat
      /\ \A n \in 1..Len(s) : \E i \in 1..Len(s) : s[n] = candidates[i]
      /\ \A i \in 1..Len(s) : \E n \in 1..Len(s) : s[n] = candidates[i]
      /\ \A m, n \in 1..Len(s) : m < n => ~Before(s[n], s[m])
  <2>1. Len(candidates) \in Nat
    BY LenProperties
  <2> QED
    BY <1>1, <2>1 DEF SortedFrom
<1>3. DedupedFrom(d, s)
  BY <1>2, DedupeIs DEF Answer, s
<1> HIDE DEF d
<1>4. /\ d \in Seq(Candidate) /\ Len(d) \in Nat
      /\ \A n \in 1..Len(d) : \E i \in 1..Len(s) : d[n] = s[i]
      /\ \A m, n \in 1..Len(d) : m < n =>
            /\ d[m].key # d[n].key
            /\ \E i, j \in 1..Len(s) : i < j /\ d[m] = s[i] /\ d[n] = s[j]
      /\ \A i \in 1..Len(s) : \E n \in 1..Len(d), j \in 1..i :
            d[n] = s[j] /\ s[j].key = s[i].key
  BY <1>3 DEF DedupedFrom
<1>5. \A n \in 1..Len(d) : \E i \in 1..Len(candidates) : d[n] = candidates[i]
  BY <1>2, <1>4
<1>6. \A m, n \in 1..Len(d) : m < n =>
         d[m].key # d[n].key /\ ~Before(d[n], d[m])
  BY <1>2, <1>4
<1>7. ASSUME NEW i \in 1..Len(candidates)
      PROVE  \E n \in 1..Len(d) : /\ d[n].key = candidates[i].key
                                  /\ ~Before(candidates[i], d[n])
  <2>1. PICK p \in 1..Len(s) : s[p] = candidates[i]
    BY <1>2
  <2>2. PICK n \in 1..Len(d), j \in 1..p : d[n] = s[j] /\ s[j].key = s[p].key
    BY <1>4
  <2>3. ~Before(s[p], s[j])
    <3>1. CASE j = p
      <4>1. s[p] \in Candidate
        BY <1>2, ElementOfSeq
      <4> QED
        BY <3>1, <4>1 DEF Before, Candidate
    <3>2. CASE j # p
      <4>1. j \in 1..Len(s) /\ j < p
        <5>1. p \in Nat /\ p <= Len(s) /\ j \in Nat /\ 1 <= j /\ j <= p
          BY <1>2, <2>1, <2>2
        <5> QED
          BY <1>2, <3>2, <5>1
      <4> QED
        BY <1>2, <4>1
    <3> QED
      BY <3>1, <3>2
  <2> QED
    BY <2>1, <2>2, <2>3
<1> QED
  BY <1>4, <1>5, <1>6, <1>7 DEF d

-----------------------------------------------------------------------------
(* The call to the remote host: a result of "ok" is passed on from the     *)
(* command to the goroutine, the channel and the caller, and the command   *)
(* of an upload ends well only after the caller's last write.              *)
OkFromCommand ==
    /\ remote = "ok" /\ op = "upload" => sizeFits /\ sent = Len(Writes)
    /\ worker = "sending" /\ outcome = "ok" => remote = "ok"
    /\ ch = "ok" => remote = "ok"
    /\ result = "ok" => remote = "ok"

(* The goroutine sends once, and nothing but its result is ever in the     *)
(* channel; it starts with the session.                                    *)
RoomForResult == worker # "ended" => ch = "empty"

StartsOnce == at = "session" => worker = "none"

SessionInv == SessionTypeOK /\ OkFromCommand /\ RoomForResult /\ StartsOnce

LEMMA SessionInitEstablishes == SessionInit => SessionInv
<1>1. Len(Writes) = 4
  BY DEF Writes
<1> QED
  BY <1>1 DEF SessionInit, SessionInv, SessionTypeOK, OkFromCommand,
             RoomForResult, StartsOnce

(* Every step of the caller, the goroutine and the host keeps it.          *)
LEMMA SessionStep ==
    ASSUME SessionInv, [SessionNext]_sessionVars
    PROVE  SessionInv'
<1> USE DEF SessionInv, OkFromCommand, RoomForResult, StartsOnce
<1>1. Len(Writes) = 4
  BY DEF Writes
<1>2. CASE NewSession
  BY <1>1, <1>2 DEF NewSession, Return, SessionTypeOK
<1>3. CASE Write
  <2>1. sent \in 0..3 /\ at = Writes[sent + 1]
    BY <1>1, <1>3 DEF Write, SessionTypeOK
  <2>2. at \in {"header", "body", "terminator", "close"} /\ (at = "close" <=> sent = 3)
    BY <2>1 DEF Writes
  <2>3. CASE Return("err") /\ UNCHANGED <<cancelled, remote, worker, outcome, ch>>
    BY <1>1, <2>1, <2>3 DEF Return, SessionTypeOK
  <2>4. CASE /\ sent' = sent + 1
             /\ at' = IF at = "close" THEN "select" ELSE Writes[sent + 2]
             /\ UNCHANGED <<op, sizeFits, result, session>>
             /\ UNCHANGED <<cancelled, remote, worker, outcome, ch>>
    <3>1. at' \in {"select", "body", "terminator", "close"}
      BY <2>1, <2>2, <2>4 DEF Writes
    <3>2. sent' \in 0..4 /\ (remote = "ok" => op # "upload")
      BY <1>1, <2>1, <2>4
    <3>3. at # "returned"
      BY <2>2
    <3> QED
      BY <1>1, <2>4, <3>1, <3>2, <3>3 DEF SessionTypeOK
  <2> QED
    BY <1>3, <2>3, <2>4 DEF Write
<1>4. CASE SelectDone
  BY <1>1, <1>4 DEF SelectDone, Return, SessionTypeOK
<1>5. CASE SelectResult
  BY <1>1, <1>5 DEF SelectResult, Return, SessionTypeOK
<1>6. CASE StartCommand
  BY <1>1, <1>6 DEF StartCommand, RemoteEnds, caller, SessionTypeOK
<1>7. CASE CommandEnds
  BY <1>1, <1>7 DEF CommandEnds, RemoteEnds, caller, SessionTypeOK
<1>8. CASE RunReturns
  BY <1>1, <1>8 DEF RunReturns, caller, SessionTypeOK
<1>9. CASE Send
  BY <1>1, <1>9 DEF Send, caller, SessionTypeOK
<1>10. CASE Cancel
  BY <1>1, <1>10 DEF Cancel, caller, SessionTypeOK
<1>11. CASE UNCHANGED sessionVars
  BY <1>11 DEF sessionVars, caller, SessionTypeOK
<1> QED
  BY <1>2, <1>3, <1>4, <1>5, <1>6, <1>7, <1>8, <1>9, <1>10, <1>11
     DEF SessionNext, Caller

-----------------------------------------------------------------------------
(* The search: what is listed so far and was there all along is on the     *)
(* page still, or has been found.                                          *)
OnPage(k) == \E i \in 1..Len(page) : page[i].key = k

Found(k) == \E i \in 1..Len(candidates) : candidates[i].key = k

FoundByManifest(o) ==
    \E i \in 1..Len(candidates) :
       candidates[i].key = o /\ candidates[i].confidence = "manifest"

Held == {k \in Key : bucket[k] # None}

Named == (BackupKey \cap NamedKey) \ ManifestKey

Over ==
    /\ phase # "listing" => page = <<>>
    /\ phase = "ok" => Rest = {}

NamesFound ==
    \A k \in kept \cap Named :
       bucket[k] # None /\ k <= listed => OnPage(k) \/ Found(k)

ManifestsFound ==
    \A m \in Matching \ skipped :
       m <= listed =>
          \/ OnPage(m)
          \/ \A o \in Range(bucket[m].objects) \ {None} : FoundByManifest(o)

SearchInv ==
    TypeOK /\ IsFiniteSet(Held) /\ Over /\ NamesFound /\ ManifestsFound

PageEntry == [key : Key, modified : Modified \cup {0}]

LEMMA SearchInitEstablishes == Init => SearchInv
<1> SUFFICES ASSUME Init PROVE SearchInv
  OBVIOUS
<1>1. TypeOK
  <2>1. candidates \in Seq(Candidate) /\ page \in Seq(PageEntry)
    BY DEF Init
  <2>2. Len(page) = 0 /\ DOMAIN page = {}
    BY DEF Init
  <2>3. PageSize \in Nat
    BY KeyAssumption
  <2> QED
    BY <2>1, <2>2, <2>3 DEF Init, TypeOK, PageEntry
<1>2. NamesFound /\ ManifestsFound
  <2>1. \A k \in Key : ~(k <= listed)
    BY KeyAssumption DEF Init
  <2> QED
    BY <2>1, KeyAssumption DEF Init, NamesFound, ManifestsFound, Matching
<1> QED
  BY <1>1, <1>2 DEF Init, SearchInv, Held, Over

(* A manifest's candidates are its objects.                                *)
LEMMA FromManifest ==
    ASSUME NEW k \in Key, NEW m \in Manifest
    PROVE  /\ candidatesFromManifest(k, m) \in Seq(Candidate)
           /\ \A o \in Range(m.objects) \ {None} :
                 \E i \in 1..Len(candidatesFromManifest(k, m)) :
                    /\ candidatesFromManifest(k, m)[i].key = o
                    /\ candidatesFromManifest(k, m)[i].confidence = "manifest"
<1> DEFINE s == m.objects
           places == {i \in DOMAIN s : s[i] # None}
           objects == At(s, places)
           t == [i \in 1..Len(objects) |-> manifestCandidate(k, m, objects[i])]
<1>1. s \in Seq(Key \cup {None}) /\ m.created \in Nat
  BY KeyAssumption
<1>2. DOMAIN s = 1..Len(s)
  BY <1>1
<1>3. candidatesFromManifest(k, m) =
         [i \in DOMAIN objects |-> manifestCandidate(k, m, objects[i])]
  BY DEF candidatesFromManifest
<1>4. places \in SUBSET (1..Len(s)) /\ \A i \in places : s[i] \in Key
  <2>1. \A i \in 1..Len(s) : s[i] \in Key \cup {None}
    BY <1>1, ElementOfSeq
  <2> QED
    BY <1>2, <2>1
<1>5. \A o \in Range(s) \ {None} : \E i \in places : s[i] = o
  BY DEF Range
<1> HIDE DEF s, places
<1>6. objects \in Seq(Key \cup {None}) /\ Len(objects) \in Nat
  BY <1>1, <1>4, AtIs
<1>7. PICK f \in [1..Len(objects) -> places] :
         /\ \A n \in 1..Len(objects) : objects[n] = s[f[n]]
         /\ \A i \in places : \E n \in 1..Len(objects) : f[n] = i
  BY <1>1, <1>4, AtIs
<1> HIDE DEF objects
<1>8. DOMAIN objects = 1..Len(objects)
  BY <1>6
<1>9. candidatesFromManifest(k, m) = t
  BY <1>3, <1>8
<1>10. \A n \in 1..Len(objects) :
          /\ t[n] = [key |-> objects[n], confidence |-> "manifest",
                     modified |-> m.created, from |-> k]
          /\ objects[n] \in Key
  BY <1>4, <1>7 DEF manifestCandidate
<1>11. ASSUME NEW o \in Key
       PROVE  LET c == [key |-> o, confidence |-> "manifest",
                        modified |-> m.created, from |-> k]
              IN  c \in Candidate /\ c.key = o /\ c.confidence = "manifest"
  BY <1>1 DEF Candidate
<1>12. \A n \in 1..Len(objects) :
          /\ t[n] \in Candidate
          /\ t[n].key = objects[n] /\ t[n].confidence = "manifest"
  <2> HIDE DEF t
  <2> SUFFICES ASSUME NEW n \in 1..Len(objects)
               PROVE  /\ t[n] \in Candidate
                      /\ t[n].key = objects[n] /\ t[n].confidence = "manifest"
    OBVIOUS
  <2> DEFINE o == objects[n]
             c == [key |-> o, confidence |-> "manifest",
                   modified |-> m.created, from |-> k]
  <2>1. t[n] = c /\ o \in Key
    BY <1>10
  <2>2. c \in Candidate /\ c.key = o /\ c.confidence = "manifest"
    BY <1>11, <2>1
  <2> QED
    BY <2>1, <2>2
<1>13. t = [n \in 1..Len(objects) |-> t[n]]
  OBVIOUS
<1> HIDE DEF t
<1>14. t \in Seq(Candidate) /\ Len(t) = Len(objects)
  <2>1. \A n \in 1..Len(objects) : t[n] \in Candidate
    BY <1>12
  <2> QED
    BY <1>6, <1>13, <2>1
<1>15. ASSUME NEW o \in Range(s) \ {None}
       PROVE  \E i \in 1..Len(t) : t[i].key = o /\ t[i].confidence = "manifest"
  <2>1. PICK i \in places : s[i] = o
    BY <1>5
  <2>2. PICK n \in 1..Len(objects) : f[n] = i
    BY <1>7
  <2>3. t[n].key = o /\ t[n].confidence = "manifest"
    BY <1>7, <1>12, <2>1, <2>2
  <2> QED
    BY <1>14, <2>3
<1> QED
  BY <1>9, <1>14, <1>15 DEF s

(* Candidates are only added: what was found stays found, and what is      *)
(* added can be found.                                                     *)
LEMMA MoreCandidates ==
    ASSUME TypeOK, NEW t \in Seq(Candidate), candidates' = candidates \o t
    PROVE  /\ candidates' \in Seq(Candidate)
           /\ \A k : Found(k) => Found(k)'
           /\ \A k : FoundByManifest(k) => FoundByManifest(k)'
           /\ \A i \in 1..Len(t) : \E n \in 1..Len(candidates') :
                 candidates'[n] = t[i]
<1>1. candidates \in Seq(Candidate) /\ Len(candidates) \in Nat /\ Len(t) \in Nat
  BY LenProperties DEF TypeOK
<1>2. /\ candidates' \in Seq(Candidate)
      /\ Len(candidates') = Len(candidates) + Len(t)
      /\ \A i \in 1 .. Len(candidates) + Len(t) :
            candidates'[i] = IF i <= Len(candidates) THEN candidates[i]
                             ELSE t[i - Len(candidates)]
  BY <1>1, ConcatProperties
<1>3. \A i \in 1..Len(candidates) :
         i \in 1..Len(candidates') /\ candidates'[i] = candidates[i]
  BY <1>1, <1>2
<1>4. ASSUME NEW i \in 1..Len(t)
      PROVE  \E n \in 1..Len(candidates') : candidates'[n] = t[i]
  <2>1. /\ Len(candidates) + i \in 1..Len(candidates')
        /\ ~(Len(candidates) + i <= Len(candidates))
        /\ (Len(candidates) + i) - Len(candidates) = i
    BY <1>1, <1>2
  <2>2. candidates'[Len(candidates) + i] = t[i]
    BY <1>2, <2>1
  <2> QED
    BY <2>1, <2>2
<1> QED
  BY <1>2, <1>3, <1>4 DEF Found, FoundByManifest

(* Going on to the next entry of the page leaves the others on it.         *)
LEMMA NextEntry ==
    ASSUME TypeOK, page # <<>>, page' = Tail(page), listed' = listed
    PROVE  /\ Head(page) \in PageEntry
           /\ page' \in Seq(PageEntry) /\ Len(page') <= PageSize
           /\ \A i \in DOMAIN page' :
                 /\ page'[i].key <= listed'
                 /\ i > 1 => page'[i - 1].key < page'[i].key
           /\ \A k : OnPage(k) => k = Head(page).key \/ OnPage(k)'
<1>1. page \in Seq(PageEntry) /\ Len(page) \in Nat /\ DOMAIN page = 1..Len(page)
  BY LenProperties DEF TypeOK, PageEntry
<1>2. /\ Head(page) \in PageEntry /\ page' \in Seq(PageEntry)
      /\ Len(page') = Len(page) - 1
      /\ \A i \in 1..Len(page') : page'[i] = page[i + 1]
  BY <1>1, HeadTailProperties
<1>3. Len(page) # 0 /\ Head(page) = page[1]
  BY <1>1
<1>4. DOMAIN page' = 1..Len(page')
  BY <1>2
<1>5. Len(page') <= PageSize
  BY <1>1, <1>2, KeyAssumption DEF TypeOK
<1>6. ASSUME NEW i \in 1..Len(page')
      PROVE  /\ page'[i].key <= listed'
             /\ i > 1 => page'[i - 1].key < page'[i].key
  <2>1. i + 1 \in 1..Len(page) /\ i + 1 > 1 /\ (i + 1) - 1 = i
        /\ (i > 1 => i - 1 \in 1..Len(page') /\ (i - 1) + 1 = i)
    BY <1>1, <1>2
  <2>2. page[i + 1].key <= listed /\ page[i].key < page[i + 1].key
    BY <1>1, <2>1 DEF TypeOK
  <2> QED
    BY <1>2, <2>1, <2>2
<1>7. ASSUME NEW k, OnPage(k)
      PROVE  k = Head(page).key \/ OnPage(k)'
  <2>1. PICK i \in 1..Len(page) : page[i].key = k
    BY <1>7 DEF OnPage
  <2>2. CASE i = 1
    BY <1>3, <2>1, <2>2
  <2>3. CASE i # 1
    <3>1. i - 1 \in 1..Len(page') /\ (i - 1) + 1 = i
      BY <1>1, <1>2, <2>1, <2>3
    <3>2. page'[i - 1].key = k
      BY <1>2, <2>1, <3>1
    <3> QED
      BY <3>1, <3>2 DEF OnPage
  <2> QED
    BY <2>2, <2>3
<1> QED
  BY <1>2, <1>4, <1>5, <1>6, <1>7

(* A new page has the next objects that there are.                         *)
LEMMA NewPage ==
    ASSUME SearchInv, NextPage
    PROVE  /\ page' \in Seq(PageEntry) /\ Len(page') <= PageSize
           /\ listed' \in Key
           /\ \A i \in DOMAIN page' :
                 /\ page'[i].key <= listed'
                 /\ i > 1 => page'[i - 1].key < page'[i].key
           /\ \A k \in Rest : k <= listed' => OnPage(k)'
<1> DEFINE ks == Ascending(Rest)
           size == Cardinality(Rest)
           entry(k) == [key |-> k,
                        modified |-> IF k \in ManifestKey THEN 0 ELSE bucket[k].modified]
           n == IF Len(ks) < PageSize THEN Len(ks) ELSE PageSize
<1>1. Rest \in SUBSET Nat /\ Rest \in SUBSET Key /\ IsFiniteSet(Rest)
  <2>1. Rest \in SUBSET Held
    BY DEF Rest, Held
  <2>2. IsFiniteSet(Rest)
    BY <2>1, FS_Subset, Zenon DEF SearchInv
  <2>3. Rest \in SUBSET Nat /\ Rest \in SUBSET Key
    BY KeyAssumption DEF Rest
  <2> QED
    BY <2>2, <2>3
<1>2. /\ size \in Nat /\ ks \in [1..size -> Rest]
      /\ \A k \in Rest : \E i \in 1..size : ks[i] = k
      /\ \A i, j \in 1..size : i < j => ks[i] < ks[j]
  BY <1>1, AscendingIs
<1>3. page' = [i \in 1..n |-> entry(ks[i])] /\ listed' = ks[n]
  BY DEF NextPage
<1> HIDE DEF ks, size
<1>4. Len(ks) = size
  BY <1>2
<1>5. size # 0
  <2>1. Rest # {}
    BY DEF NextPage
  <2> QED
    BY <1>1, <2>1, FS_EmptySet DEF size
<1>6. n \in 1..size /\ n <= PageSize /\ n \in Nat
      /\ (n = size \/ n = PageSize)
  BY <1>2, <1>4, <1>5, KeyAssumption
<1> HIDE DEF n
<1>7. \A k \in Rest : entry(k) \in PageEntry /\ entry(k).key = k
  <2>1. ASSUME NEW k \in Rest, k \notin ManifestKey
        PROVE  bucket[k].modified \in Modified
    BY <1>1, <2>1 DEF SearchInv, TypeOK, Object, Backup, Rest
  <2> QED
    BY <1>1, <2>1 DEF PageEntry
<1> HIDE DEF entry
<1>8. \A i \in 1..n : i \in 1..size /\ ks[i] \in Rest
  BY <1>2, <1>6
<1>9. page' \in Seq(PageEntry) /\ Len(page') = n /\ DOMAIN page' = 1..n
  BY <1>3, <1>6, <1>7, <1>8
<1>10. \A i \in 1..n : page'[i].key = ks[i]
  BY <1>3, <1>7, <1>8
<1>11. listed' \in Key
  BY <1>1, <1>2, <1>3, <1>6
<1>12. ASSUME NEW i \in 1..n
       PROVE  /\ page'[i].key <= listed'
              /\ i > 1 => page'[i - 1].key < page'[i].key
  <2>1. ks[i] <= ks[n]
    <3>1. i = n \/ i < n
      BY <1>6
    <3>2. ks[i] \in Nat
      BY <1>1, <1>8
    <3>3. ks[n] \in Nat /\ n \in 1..size /\ i \in 1..size
      BY <1>1, <1>2, <1>6, <1>8
    <3>4. i < n => ks[i] < ks[n]
      BY <1>2, <3>3
    <3> QED
      BY <3>1, <3>2, <3>3, <3>4
  <2>2. i > 1 => i - 1 \in 1..n /\ i - 1 < i
    BY <1>6
  <2> QED
    BY <1>2, <1>3, <1>8, <1>10, <2>1, <2>2
<1>13. ASSUME NEW k \in Rest, k <= listed'
       PROVE  OnPage(k)'
  <2>1. PICK i \in 1..size : ks[i] = k
    BY <1>2
  <2>2. i <= n
    <3>1. k \in Nat /\ ks[n] \in Nat
      BY <1>1, <1>6, <1>8, <1>2
    <3>2. ~(n < i)
      BY <1>2, <1>3, <1>6, <1>13, <2>1, <3>1
    <3> QED
      BY <1>2, <1>6, <3>2
  <2>3. i \in 1..n
    BY <1>2, <1>6, <2>2
  <2> QED
    BY <1>9, <1>10, <2>1, <2>3 DEF OnPage
<1> QED
  BY <1>6, <1>9, <1>11, <1>12, <1>13

(* Every step of the search and of the bucket keeps the invariant.         *)
LEMMA SearchStep ==
    ASSUME SearchInv, [Next]_vars
    PROVE  SearchInv'
<1> USE DEF SearchInv
<1>1. CASE NextPage
  <2>1. /\ bucket' = bucket /\ phase = "listing" /\ phase' = phase /\ page = <<>>
        /\ candidates' = candidates /\ kept' = kept /\ skipped' = skipped
    BY <1>1 DEF NextPage
  <2>2. /\ page' \in Seq(PageEntry) /\ Len(page') <= PageSize
        /\ listed' \in Key
        /\ \A i \in DOMAIN page' :
              /\ page'[i].key <= listed'
              /\ i > 1 => page'[i - 1].key < page'[i].key
        /\ \A k \in Rest : k <= listed' => OnPage(k)'
    BY <1>1, NewPage
  <2>3. TypeOK'
    BY <2>1, <2>2 DEF TypeOK, PageEntry
  <2>4. \A k : ~OnPage(k)
    BY <2>1 DEF OnPage
  <2>5. ASSUME NEW k \in Key, bucket[k] # None, k <= listed'
        PROVE  k <= listed \/ OnPage(k)'
    <3>1. k \in Nat /\ listed \in Nat
      <4>1. listed \in Key \cup {0}
        BY DEF TypeOK
      <4> QED
        BY <4>1, KeyAssumption
    <3>2. CASE k > listed
      BY <2>2, <2>5, <3>2 DEF Rest
    <3> QED
      BY <3>1, <3>2
  <2>6. NamesFound'
    BY <2>1, <2>4, <2>5, KeyAssumption DEF NamesFound, Named, Found
  <2>7. Matching' = Matching /\ Matching \in SUBSET Key
        /\ \A m \in Matching : bucket[m] # None
    BY <2>1, KeyAssumption DEF Matching
  <2>8. ManifestsFound'
    BY <2>1, <2>4, <2>5, <2>7 DEF ManifestsFound, FoundByManifest
  <2> QED
    BY <2>1, <2>3, <2>6, <2>8 DEF Held, Over
<1>2. CASE NextPageFails \/ Finish
  <2>1. /\ page = <<>>
        /\ UNCHANGED <<bucket, page, listed, candidates, kept, skipped>>
        /\ phase' \in {"ok", "err"} /\ (phase' = "ok" => Rest = {})
    BY <1>2 DEF NextPageFails, Finish
  <2>2. TypeOK'
    BY <2>1 DEF TypeOK
  <2>3. NamesFound' /\ ManifestsFound'
    BY <2>1 DEF NamesFound, ManifestsFound, Matching, OnPage, Found, FoundByManifest
  <2> QED
    BY <2>1, <2>2, <2>3 DEF Held, Over, Rest
<1>3. ASSUME NEW t \in Seq(Candidate), page # <<>>, page' = Tail(page),
             candidates' = candidates \o t,
             UNCHANGED <<bucket, phase, listed, kept>>,
             skipped' \in SUBSET ManifestKey, skipped \subseteq skipped',
             \A k : k = Head(page).key =>
                /\ k \in kept \cap Named /\ bucket[k] # None => Found(k)'
                /\ k \in Matching \ skipped' =>
                      \A o \in Range(bucket[k].objects) \ {None} :
                         FoundByManifest(o)'
      PROVE  SearchInv'
  <2>1. /\ page' \in Seq(PageEntry) /\ Len(page') <= PageSize
        /\ \A i \in DOMAIN page' :
              /\ page'[i].key <= listed'
              /\ i > 1 => page'[i - 1].key < page'[i].key
        /\ \A k : OnPage(k) => k = Head(page).key \/ OnPage(k)'
    BY <1>3, NextEntry
  <2>2. /\ candidates' \in Seq(Candidate)
        /\ \A k : Found(k) => Found(k)'
        /\ \A k : FoundByManifest(k) => FoundByManifest(k)'
    BY <1>3, MoreCandidates
  <2>3. TypeOK'
    BY <1>3, <2>1, <2>2 DEF TypeOK, PageEntry
  <2>4. phase = "listing" /\ Over'
    BY <1>3 DEF Over, TypeOK
  <2>5. NamesFound'
    <3>1. ASSUME NEW k \in (kept \cap Named)', bucket'[k] # None, k <= listed'
          PROVE  OnPage(k)' \/ Found(k)'
      <4>1. OnPage(k) \/ Found(k)
        BY <1>3, <3>1 DEF NamesFound, Named
      <4> QED
        BY <1>3, <2>1, <2>2, <3>1, <4>1 DEF Named
    <3> QED
      BY <3>1 DEF NamesFound
  <2>6. Matching' = Matching
    BY <1>3 DEF Matching
  <2>7. ASSUME NEW m \in Matching \ skipped', m <= listed'
        PROVE  OnPage(m)' \/ \A o \in Range(bucket'[m].objects) \ {None} :
                                FoundByManifest(o)'
    <3>1. CASE m = Head(page).key
      BY <1>3, <2>7, <3>1
    <3>2. CASE m # Head(page).key
      <4>1. OnPage(m) \/ \A o \in Range(bucket[m].objects) \ {None} :
                            FoundByManifest(o)
        BY <1>3, <2>7 DEF ManifestsFound
      <4> QED
        BY <1>3, <2>1, <2>2, <3>2, <4>1
    <3> QED
      BY <3>1, <3>2
  <2>8. ManifestsFound'
    BY <2>6, <2>7 DEF ManifestsFound
  <2> QED
    BY <1>3, <2>3, <2>4, <2>5, <2>8 DEF Held
<1>4. candidates \o <<>> = candidates /\ <<>> \in Seq(Candidate)
  BY DEF TypeOK
<1>5. \A k \in Matching : k \in ManifestKey /\ k \in kept /\ bucket[k] # None
                          /\ manifestMatches(bucket[k])
  BY DEF Matching
<1>6. CASE Skip
  <2>1. Head(page).key \notin Named /\ Head(page).key \notin Matching
    BY <1>5, <1>6 DEF Skip, Named
  <2> QED
    BY <1>3, <1>4, <1>6, <2>1 DEF Skip, TypeOK
<1>7. CASE ManifestFails
  <2>1. Head(page).key \notin Named /\ Head(page).key \in skipped'
    BY <1>7 DEF ManifestFails, Named
  <2> QED
    BY <1>3, <1>4, <1>7, <2>1 DEF ManifestFails, TypeOK
<1>8. CASE Fallback
  <2> DEFINE c == fallback(Head(page))
  <2>1. page # <<>> /\ page' = Tail(page) /\ candidates' = Append(candidates, c)
        /\ UNCHANGED <<bucket, phase, listed, kept, skipped>>
        /\ Head(page).key \notin ManifestKey
    BY <1>8 DEF Fallback
  <2>2. Head(page) \in PageEntry
    BY <2>1, NextEntry
  <2>3. c \in Candidate /\ c.key = Head(page).key
    <3>1. Modified \cup {0} \subseteq Nat
      BY KeyAssumption
    <3>2. Head(page).key \in Key /\ Head(page).modified \in Nat
      BY <2>2, <3>1 DEF PageEntry
    <3> QED
      BY <3>2 DEF fallback, Candidate
  <2> HIDE DEF c
  <2>4. <<c>> \in Seq(Candidate) /\ candidates' = candidates \o <<c>>
    BY <2>1, <2>3, AppendIsConcat DEF TypeOK
  <2>5. \A k : k = Head(page).key => Found(k)'
    <3>1. \A i \in 1..Len(<<c>>) : \E n \in 1..Len(candidates') :
             candidates'[n] = <<c>>[i]
      BY <2>4, MoreCandidates
    <3>2. \E n \in 1..Len(candidates') : candidates'[n].key = Head(page).key
      BY <2>3, <3>1
    <3> QED
      BY <3>2 DEF Found
  <2>6. Head(page).key \notin Matching
    BY <1>5, <2>1
  <2> QED
    BY <1>3, <2>1, <2>4, <2>5, <2>6 DEF TypeOK
<1>9. CASE ReadManifest
  <2> DEFINE k == Head(page).key
             t == IF manifestMatches(bucket[k])
                  THEN candidatesFromManifest(k, bucket[k]) ELSE <<>>
  <2>1. /\ page # <<>> /\ page' = Tail(page) /\ candidates' = candidates \o t
        /\ UNCHANGED <<bucket, phase, listed, kept, skipped>>
        /\ k \in ManifestKey /\ bucket[k] # None
    BY <1>9 DEF ReadManifest
  <2>2. k \in Key /\ bucket[k] \in Manifest
    BY <2>1, KeyAssumption DEF TypeOK, Object
  <2>3. t \in Seq(Candidate)
    BY <1>4, <2>2, FromManifest
  <2>4. ASSUME k \in Matching, NEW o \in Range(bucket[k].objects) \ {None}
        PROVE  FoundByManifest(o)'
    <3>1. t = candidatesFromManifest(k, bucket[k])
      BY <1>5, <2>4
    <3> HIDE DEF t, k
    <3>2. PICK i \in 1..Len(t) : t[i].key = o /\ t[i].confidence = "manifest"
      BY <2>2, <2>4, <3>1, FromManifest
    <3>3. PICK n \in 1..Len(candidates') : candidates'[n] = t[i]
      BY <2>1, <2>3, MoreCandidates
    <3> QED
      BY <3>2, <3>3 DEF FoundByManifest
  <2>5. k \notin Named
    BY <2>1 DEF Named
  <2> HIDE DEF t
  <2> QED
    BY <1>3, <2>1, <2>3, <2>4, <2>5 DEF TypeOK
<1>10. ASSUME NEW k \in Key, BucketChanges(k)
       PROVE  SearchInv'
  <2>1. PICK o \in Object(k) : bucket' = [bucket EXCEPT ![k] = o]
    BY <1>10 DEF BucketChanges
  <2>2. /\ phase = "listing" /\ kept' = kept \ {k}
        /\ UNCHANGED <<phase, page, listed, candidates, skipped>>
    BY <1>10 DEF BucketChanges
  <2>3. /\ DOMAIN bucket' = Key /\ bucket'[k] = o
        /\ \A j \in Key : j # k => bucket'[j] = bucket[j]
    BY <2>1 DEF TypeOK
  <2>4. TypeOK'
    BY <2>1, <2>2, <2>3 DEF TypeOK, Object
  <2>5. IsFiniteSet(Held')
    <3>1. Held' \in SUBSET (Held \cup {k})
      BY <2>3 DEF Held
    <3>2. IsFiniteSet(Held \cup {k})
      BY FS_AddElement
    <3> QED
      BY <3>1, <3>2, FS_Subset
  <2>6. \A j \in kept' : j \in kept /\ bucket'[j] = bucket[j]
    BY <2>2, <2>3 DEF TypeOK
  <2>7. NamesFound'
    BY <2>2, <2>6 DEF NamesFound, OnPage, Found
  <2>8. \A m \in Matching' : m \in Matching /\ bucket'[m] = bucket[m]
    BY <2>6 DEF Matching, manifestMatches
  <2>9. ManifestsFound'
    BY <2>2, <2>8 DEF ManifestsFound, OnPage, FoundByManifest
  <2> QED
    BY <2>2, <2>4, <2>5, <2>7, <2>9 DEF Over
<1>11. CASE UNCHANGED vars
  BY <1>11 DEF vars, TypeOK, Object, Held, Over, Rest, NamesFound, ManifestsFound,
     Matching, manifestMatches, OnPage, Found, FoundByManifest
<1> QED
  BY <1>1, <1>2, <1>6, <1>7, <1>8, <1>9, <1>10, <1>11 DEF Next, ListCandidates

(* A finished search has looked at all that was there, and the answer is   *)
(* what it has found.                                                      *)
LEMMA SearchFinds ==
    ASSUME SearchInv
    PROVE  FindsWhatIsKept /\ Ranking
<1> SUFFICES ASSUME phase = "ok" PROVE FindsWhatIsKept /\ Ranking
  BY DEF FindsWhatIsKept, Ranking, BestOfEachKey, ManifestFirst
<1>1. candidates \in Seq(Candidate) /\ page = <<>> /\ Rest = {}
  BY DEF SearchInv, Over, TypeOK
<1>2. /\ Answer \in Seq(Candidate) /\ Len(Answer) \in Nat
      /\ \A n \in 1..Len(Answer) :
            \E i \in 1..Len(candidates) : Answer[n] = candidates[i]
      /\ \A m, n \in 1..Len(Answer) : m < n =>
            Answer[m].key # Answer[n].key /\ ~Before(Answer[n], Answer[m])
      /\ \A i \in 1..Len(candidates) : \E n \in 1..Len(Answer) :
            /\ Answer[n].key = candidates[i].key
            /\ ~Before(candidates[i], Answer[n])
  BY <1>1, AnswerIs
<1>3. DOMAIN Answer = 1..Len(Answer) /\ \A n \in 1..Len(Answer) : Answer[n] \in Candidate
  BY <1>2, LenProperties, ElementOfSeq
<1>4. /\ \A k \in Key : bucket[k] # None => k <= listed
      /\ \A k : ~OnPage(k)
  <2>1. \A k \in Key : k \in Nat /\ listed \in Nat
    BY KeyAssumption DEF SearchInv, TypeOK
  <2> QED
    BY <1>1, <2>1 DEF Rest, OnPage
<1>5. DOMAIN candidates = 1..Len(candidates)
      /\ \A i \in 1..Len(candidates) : candidates[i] \in Candidate
  BY <1>1, LenProperties, ElementOfSeq
<1>6. FindsWhatIsKept
  <2>1. ASSUME NEW k \in (kept \cap BackupKey \cap NamedKey) \ ManifestKey,
               bucket[k] # None
        PROVE  \E i \in DOMAIN Answer : Answer[i].key = k
    <3>1. Found(k)
      BY <1>4, <2>1, KeyAssumption DEF SearchInv, NamesFound, Named
    <3> QED
      BY <1>2, <1>3, <3>1 DEF Found
  <2>2. ASSUME NEW m \in Matching \ skipped,
               NEW o \in Range(bucket[m].objects) \ {None}
        PROVE  \E i \in DOMAIN Answer :
                  Answer[i].key = o /\ Answer[i].confidence = "manifest"
    <3>1. m \in Key /\ bucket[m] # None
      BY KeyAssumption DEF Matching
    <3>2. FoundByManifest(o)
      BY <1>4, <3>1 DEF SearchInv, ManifestsFound
    <3>3. PICK i \in 1..Len(candidates) :
             candidates[i].key = o /\ candidates[i].confidence = "manifest"
      BY <3>2 DEF FoundByManifest
    <3>4. PICK n \in 1..Len(Answer) : /\ Answer[n].key = candidates[i].key
                                      /\ ~Before(candidates[i], Answer[n])
      BY <1>2
    <3>5. Answer[n].confidence = "manifest"
      BY <3>3, <3>4 DEF Before
    <3> QED
      BY <1>3, <3>3, <3>4, <3>5
  <2> QED
    BY <2>1, <2>2 DEF FindsWhatIsKept
<1>7. \A i, j \in DOMAIN Answer : Answer[i].key = Answer[j].key => i = j
  <2>1. ASSUME NEW i \in 1..Len(Answer), NEW j \in 1..Len(Answer), i < j
        PROVE  Answer[i].key # Answer[j].key
    BY <1>2, <2>1
  <2>2. ASSUME NEW i \in 1..Len(Answer), NEW j \in 1..Len(Answer),
               Answer[i].key = Answer[j].key
        PROVE  i = j
    <3>1. i = j \/ i < j \/ j < i
      BY <1>2
    <3> QED
      BY <2>1, <2>2, <3>1
  <2> QED
    BY <1>3, <2>2
<1>8. ASSUME NEW i \in DOMAIN Answer, NEW c \in Range(candidates),
             c.key = Answer[i].key
      PROVE  ~Before(c, Answer[i])
  <2>1. PICK j \in 1..Len(candidates) : c = candidates[j]
    BY <1>5, <1>8 DEF Range
  <2>2. PICK n \in 1..Len(Answer) : /\ Answer[n].key = candidates[j].key
                                    /\ ~Before(candidates[j], Answer[n])
    BY <1>2
  <2>3. n = i
    BY <1>3, <1>7, <1>8, <2>1, <2>2
  <2> QED
    BY <2>1, <2>2, <2>3
<1>9. BestOfEachKey
  BY <1>7, <1>8 DEF BestOfEachKey
<1>10. ManifestFirst
  <2> SUFFICES ASSUME NEW i \in 1..Len(Answer), NEW j \in 1..Len(Answer), i < j
               PROVE  \/ /\ Answer[i].confidence = "manifest"
                         /\ Answer[j].confidence # "manifest"
                      \/ /\ Answer[i].confidence = Answer[j].confidence
                         /\ Answer[i].modified >= Answer[j].modified
    BY <1>3 DEF ManifestFirst
  <2>1. ~Before(Answer[j], Answer[i])
    BY <1>2
  <2>2. Answer[i] \in Candidate /\ Answer[j] \in Candidate
    BY <1>3
  <2> QED
    BY <2>1, <2>2 DEF Before, Candidate
<1> QED
  BY <1>6, <1>9, <1>10 DEF Ranking

-----------------------------------------------------------------------------
(* The commands.  Texts put together: one more text with each step.        *)
LEMMA Flattened ==
    ASSUME NEW C, NEW texts \in Seq(Seq(C))
    PROVE  \E f \in [0..Len(texts) -> Seq(C)] :
              /\ f[0] = <<>> /\ FlattenSeq(texts) = f[Len(texts)]
              /\ \A i \in 1..Len(texts) : f[i] = f[i - 1] \o texts[i]
<1> DEFINE n == Len(texts)
           Puts(g, m) == g = [i \in 1..m |-> IF i = 1 THEN texts[i] ELSE g[i - 1] \o texts[i]]
           S == {m \in 0..n : \E g : Puts(g, m)}
<1>1. n \in Nat /\ \A i \in 1..n : texts[i] \in Seq(C)
  BY LenProperties, ElementOfSeq
<1> HIDE DEF n
<1>2. 0 \in S
  <2> DEFINE g == [i \in 1..0 |-> <<>>]
  <2>1. Puts(g, 0)
    OBVIOUS
  <2> HIDE DEF Puts, g
  <2> QED
    BY <1>1, <2>1
<1>3. ASSUME NEW m \in 1..n, m - 1 \in S
      PROVE  m \in S
  <2>1. PICK g : Puts(g, m - 1)
    BY <1>3
  <2> DEFINE h == [i \in 1..m |-> IF i = m
                                  THEN IF m = 1 THEN texts[m] ELSE g[m - 1] \o texts[m]
                                  ELSE g[i]]
  <2>2. \A i \in 1..m : h[i] = IF i = 1 THEN texts[i] ELSE h[i - 1] \o texts[i]
    <3>1. m \in 1..m /\ h[m] = IF m = 1 THEN texts[m] ELSE g[m - 1] \o texts[m]
      BY <1>1
    <3>2. \A i \in 1..m : i # m => i \in 1..(m - 1) /\ h[i] = g[i]
      BY <1>1
    <3>3. \A i \in 1..(m - 1) : g[i] = IF i = 1 THEN texts[i] ELSE g[i - 1] \o texts[i]
      BY <2>1
    <3>4. \A i \in 1..m : i # 1 => i - 1 \in 1..(m - 1) /\ i - 1 \in 1..m /\ i - 1 # m
      BY <1>1
    <3> HIDE DEF h, Puts
    <3> QED
      BY <3>1, <3>2, <3>3, <3>4
  <2>3. Puts(h, m)
    <3>1. h = [i \in 1..m |-> h[i]]
      OBVIOUS
    <3> HIDE DEF h
    <3> QED
      BY <2>2, <3>1
  <2> HIDE DEF h, Puts
  <2> QED
    BY <1>1, <2>3
<1>4. n \in S
  <2> HIDE DEF S
  <2>1. \A i \in 0..n : i \in S
    BY <1>1, <1>2, <1>3, UpTo
  <2> QED
    BY <1>1, <2>1
<1> DEFINE g == CHOOSE g : Puts(g, n)
<1>5. g = [i \in 1..n |-> IF i = 1 THEN texts[i] ELSE g[i - 1] \o texts[i]]
  BY <1>4
<1>6. FlattenSeq(texts) = IF n = 0 THEN texts ELSE g[n]
  BY DEF FlattenSeq, n
<1> HIDE DEF g, S
<1> DEFINE f == [i \in 0..n |-> IF i = 0 THEN <<>> ELSE g[i]]
<1>7. ASSUME NEW i \in 1..n
      PROVE  f[i] = f[i - 1] \o texts[i]
  <2>1. g[i] = IF i = 1 THEN texts[i] ELSE g[i - 1] \o texts[i]
    BY <1>5
  <2>2. f[i] = g[i] /\ f[0] = <<>>
    BY <1>1
  <2>3. CASE i = 1
    <3> HIDE DEF f
    <3>1. g[i] = texts[i] /\ i - 1 = 0 /\ texts[i] \in Seq(C)
      BY <1>1, <2>1, <2>3
    <3> QED
      BY <2>2, <3>1, ConcatEmptySeq
  <2>4. CASE i # 1
    <3>1. f[i - 1] = g[i - 1]
      BY <1>1, <2>4
    <3> HIDE DEF f
    <3> QED
      BY <2>1, <2>2, <2>4, <3>1
  <2> QED
    BY <2>3, <2>4
<1>8. f[0] = <<>> /\ FlattenSeq(texts) = f[n]
  <2>1. n = 0 => texts = <<>>
    BY EmptySeq DEF n
  <2> QED
    BY <1>1, <1>6, <2>1
<1>9. \A i \in 0..n : f[i] \in Seq(C)
  <2> DEFINE U == {i \in 0..n : f[i] \in Seq(C)}
  <2>1. 0 \in U
    BY <1>1, <1>8
  <2>2. \A i \in 1..n : i - 1 \in U => i \in U
    <3> HIDE DEF f
    <3>1. ASSUME NEW i \in 1..n, f[i - 1] \in Seq(C)
          PROVE  f[i] \in Seq(C)
      BY <1>1, <1>7, <3>1, ConcatProperties
    <3> QED
      BY <1>1, <3>1
  <2> HIDE DEF U, f
  <2>3. \A i \in 0..n : i \in U
    BY <1>1, <2>1, <2>2, UpTo
  <2> QED
    BY <2>3 DEF U
<1> QED
  BY <1>7, <1>8, <1>9 DEF n

(* What a shell has read of a line with each of its first characters.      *)
ReadsOn(q, line, n) == \A i \in 1..n : q[i] = Read(q[i - 1], line[i])

Agree(s, t, n) == \A i \in 1..n : s[i] = t[i]

(* A line is read a character at a time.                                   *)
LEMMA Runs ==
    ASSUME NEW C, NEW line \in Seq(C), NEW r
    PROVE  \E q : /\ q[0] = r /\ ReadFrom(r, line) = q[Len(line)]
                  /\ ReadsOn(q, line, Len(line))
<1> DEFINE n == Len(line)
           Reads(q, m) == q = [i \in 0..m |-> IF i = 0 THEN r ELSE Read(q[i - 1], line[i])]
           S == {m \in 0..n : \E q : Reads(q, m)}
<1>1. n \in Nat
  BY LenProperties
<1> HIDE DEF n
<1>2. 0 \in S
  <2> DEFINE q == [i \in 0..0 |-> r]
  <2>1. Reads(q, 0)
    OBVIOUS
  <2> HIDE DEF Reads, q
  <2> QED
    BY <1>1, <2>1
<1>3. ASSUME NEW m \in 1..n, m - 1 \in S
      PROVE  m \in S
  <2>1. PICK q : Reads(q, m - 1)
    BY <1>3
  <2> DEFINE h == [i \in 0..m |-> IF i = m THEN Read(q[m - 1], line[m]) ELSE q[i]]
  <2>2. \A i \in 0..m : h[i] = IF i = 0 THEN r ELSE Read(h[i - 1], line[i])
    <3>1. m \in 1..m /\ m # 0 /\ h[m] = Read(q[m - 1], line[m])
      BY <1>1
    <3>2. \A i \in 0..m : i # m => i \in 0..(m - 1) /\ h[i] = q[i]
      BY <1>1
    <3>3. \A i \in 0..(m - 1) : q[i] = IF i = 0 THEN r ELSE Read(q[i - 1], line[i])
      BY <2>1
    <3>4. \A i \in 0..m : i # 0 => i - 1 \in 0..(m - 1) /\ i - 1 \in 0..m /\ i - 1 # m
      BY <1>1
    <3> HIDE DEF h, Reads
    <3> QED
      BY <3>1, <3>2, <3>3, <3>4
  <2>3. Reads(h, m)
    <3>1. h = [i \in 0..m |-> h[i]]
      OBVIOUS
    <3> HIDE DEF h
    <3> QED
      BY <2>2, <3>1
  <2> HIDE DEF h, Reads
  <2> QED
    BY <1>1, <2>3
<1>4. n \in S
  <2> HIDE DEF S
  <2>1. \A i \in 0..n : i \in S
    BY <1>1, <1>2, <1>3, UpTo
  <2> QED
    BY <1>1, <2>1
<1> DEFINE q == CHOOSE q : Reads(q, n)
<1>5. q = [i \in 0..n |-> IF i = 0 THEN r ELSE Read(q[i - 1], line[i])]
  BY <1>4
<1>6. ReadFrom(r, line) = q[n]
  BY DEF ReadFrom, n
<1> HIDE DEF q, S
<1>7. q[0] = r /\ \A i \in 1..n : q[i] = Read(q[i - 1], line[i])
  <2>1. \A i \in 0..n : q[i] = IF i = 0 THEN r ELSE Read(q[i - 1], line[i])
    BY <1>5
  <2>2. \A i \in 1..n : i \in 0..n /\ i # 0
    BY <1>1
  <2> QED
    BY <1>1, <2>1, <2>2
<1> QED
  BY <1>6, <1>7 DEF n, ReadsOn

(* Two readers of the same characters agree.                               *)
LEMMA SameReading ==
    ASSUME NEW n \in Nat, NEW p, NEW q, NEW s, NEW t, p[0] = q[0],
           Agree(s, t, n), ReadsOn(p, s, n), ReadsOn(q, t, n)
    PROVE  p[n] = q[n]
<1> DEFINE S == {i \in 0..n : p[i] = q[i]}
<1>1. 0 \in S
  OBVIOUS
<1>2. ASSUME NEW i \in 1..n, i - 1 \in S
      PROVE  i \in S
  BY <1>2 DEF Agree, ReadsOn
<1>3. \A i \in 0..n : i \in S
  <2> HIDE DEF S
  <2> QED
    BY <1>1, <1>2, UpTo
<1> QED
  BY <1>3

(* One text is read after the other.                                       *)
LEMMA ReadConcat ==
    ASSUME NEW C, NEW s \in Seq(C), NEW t \in Seq(C), NEW r
    PROVE  ReadFrom(r, s \o t) = ReadFrom(ReadFrom(r, s), t)
<1> DEFINE m == Len(s)
           n == Len(t)
           st == s \o t
<1>1. m \in Nat /\ n \in Nat
  BY LenProperties
<1>2. /\ st \in Seq(C) /\ Len(st) = m + n
      /\ \A i \in 1..m : st[i] = s[i]
      /\ \A i \in 1..n : st[m + i] = t[i]
  <2>1. \A i \in 1..(m + n) : st[i] = IF i <= m THEN s[i] ELSE t[i - m]
    BY ConcatProperties
  <2>2. st \in Seq(C) /\ Len(st) = m + n
    BY ConcatProperties
  <2> HIDE DEF st, m, n
  <2>3. ASSUME NEW i \in 1..m
        PROVE  st[i] = s[i]
    <3>1. i \in 1..(m + n) /\ i <= m
      BY <1>1
    <3> QED
      BY <2>1, <3>1
  <2>4. ASSUME NEW i \in 1..n
        PROVE  st[m + i] = t[i]
    <3>1. m + i \in 1..(m + n) /\ ~(m + i <= m) /\ (m + i) - m = i
      BY <1>1
    <3> QED
      BY <2>1, <3>1
  <2> QED
    BY <2>2, <2>3, <2>4
<1> HIDE DEF st
<1>3. PICK p : /\ p[0] = r /\ ReadFrom(r, s) = p[m]
               /\ ReadsOn(p, s, m)
  BY Runs
<1>4. PICK q : /\ q[0] = ReadFrom(r, s) /\ ReadFrom(ReadFrom(r, s), t) = q[n]
               /\ ReadsOn(q, t, n)
  BY Runs
<1> HIDE DEF m, n
<1>5. PICK pq : /\ pq[0] = r /\ ReadFrom(r, st) = pq[m + n]
                /\ ReadsOn(pq, st, m + n)
  <2>1. st \in Seq(C) /\ Len(st) = m + n
    BY <1>2
  <2> QED
    BY <2>1, Runs
<1>6. pq[m] = p[m]
  <2>1. \A i \in 1..m : i \in 1..(m + n)
    BY <1>1
  <2>2. ReadsOn(pq, st, m)
    BY <1>5, <2>1 DEF ReadsOn
  <2>3. Agree(st, s, m) /\ pq[0] = p[0]
    BY <1>2, <1>3, <1>5 DEF Agree
  <2> QED
    BY <1>1, <1>3, <2>2, <2>3, SameReading
<1> DEFINE rest == [i \in 0..n |-> pq[m + i]]
<1>7. rest[0] = q[0]
  BY <1>1, <1>3, <1>4, <1>6
<1>8. ASSUME NEW i \in 1..n
      PROVE  rest[i] = Read(rest[i - 1], t[i])
  <2>1. rest[i] = pq[m + i] /\ rest[i - 1] = pq[m + (i - 1)]
    BY <1>1
  <2>2. m + i \in 1..(m + n) /\ (m + i) - 1 = m + (i - 1)
    BY <1>1
  <2>3. pq[m + i] = Read(pq[m + (i - 1)], st[m + i])
    BY <1>5, <2>2 DEF ReadsOn
  <2> HIDE DEF rest
  <2> QED
    BY <1>2, <2>1, <2>3
<1>9. rest[n] = pq[m + n]
  BY <1>1
<1> HIDE DEF rest
<1>10. rest[n] = q[n]
  <2>1. ReadsOn(rest, t, n)
    BY <1>8 DEF ReadsOn
  <2>2. Agree(t, t, n)
    BY DEF Agree
  <2> QED
    BY <1>1, <1>4, <1>7, <2>1, <2>2, SameReading
<1> QED
  BY <1>4, <1>5, <1>9, <1>10 DEF st

(* One character, and none.                                                *)
LEMMA ReadOne ==
    ASSUME NEW r, NEW c
    PROVE  ReadFrom(r, <<c>>) = Read(r, c)
<1>1. <<c>> \in Seq({c}) /\ Len(<<c>>) = 1 /\ <<c>>[1] = c
  OBVIOUS
<1>2. PICK q : /\ q[0] = r /\ ReadFrom(r, <<c>>) = q[1]
               /\ ReadsOn(q, <<c>>, 1)
  BY <1>1, Runs
<1>3. q[1] = Read(q[0], c)
  BY <1>1, <1>2 DEF ReadsOn
<1> QED
  BY <1>2, <1>3

LEMMA ReadNone ==
    ASSUME NEW r
    PROVE  ReadFrom(r, <<>>) = r
<1>1. <<>> \in Seq({}) /\ Len(<<>>) = 0
  OBVIOUS
<1> QED
  BY <1>1, Runs

-----------------------------------------------------------------------------
(* All that a line can be made of.                                         *)
Char ==
    Character \cup {Blank, Quote, Double, Dollar, "/backup/", "alpine", "tar", "-xzf",
        "-C", "/restore", "docker", "run", "--rm", "-v", ":/backup:ro", ":/restore",
        "sh", "-c", "gzip", "-dc", "|", "--volumes-from"}

State ==
    [mode : {"plain", "single", "double"}, word : Seq(Char), begun : BOOLEAN,
     words : Seq(Seq(Char)), replaced : BOOLEAN]

Escaped(c) == IF c = Quote THEN <<Quote, Double, Quote, Double, Quote>> ELSE <<c>>

(* Within quotes an escaped character adds that character to the word.     *)
LEMMA EscapedReads ==
    ASSUME NEW c \in Char, NEW r \in State, r.mode = "single", r.begun
    PROVE  /\ Escaped(c) \in Seq(Char)
           /\ ReadFrom(r, Escaped(c)) = [r EXCEPT !.word = Append(@, c)]
<1>1. CASE c # Quote
  <2>1. Escaped(c) = <<c>>
    BY <1>1 DEF Escaped
  <2>2. Read(r, c) = [r EXCEPT !.word = Append(@, c), !.begun = TRUE]
    BY <1>1 DEF Read, Blank, Quote, Double, Dollar
  <2>3. [r EXCEPT !.word = Append(@, c), !.begun = TRUE] = [r EXCEPT !.word = Append(@, c)]
    BY DEF State
  <2> QED
    BY <2>1, <2>2, <2>3, ReadOne
<1>2. CASE c = Quote
  <2> DEFINE line == <<Quote, Double, Quote, Double, Quote>>
  <2>1. Escaped(c) = line
    BY <1>2 DEF Escaped
  <2>2. /\ line \in Seq(Char) /\ Len(line) = 5 /\ line[1] = Quote /\ line[2] = Double
        /\ line[3] = Quote /\ line[4] = Double /\ line[5] = Quote
    BY DEF Char
  <2> HIDE DEF line
  <2>3. PICK q : /\ q[0] = r /\ ReadFrom(r, line) = q[Len(line)]
                 /\ ReadsOn(q, line, Len(line))
    <3>1. line \in Seq(Char)
      BY <2>2
    <3> QED
      BY <3>1, Runs, Zenon
  <2>4. /\ q[1] = Read(r, Quote) /\ q[2] = Read(q[1], Double)
        /\ q[3] = Read(q[2], Quote) /\ q[4] = Read(q[3], Double)
        /\ q[5] = Read(q[4], Quote)
    BY <2>2, <2>3 DEF ReadsOn
  <2> USE DEF Read, Blank, Quote, Double, Dollar
  <2>5. q[1] = [r EXCEPT !.mode = "plain"]
    BY <2>4
  <2>6. q[1].mode = "plain" /\ q[2] = [q[1] EXCEPT !.mode = "double", !.begun = TRUE]
    BY <2>4, <2>5 DEF State
  <2>7. q[2] = [r EXCEPT !.mode = "double"]
    BY <2>5, <2>6 DEF State
  <2>8. q[2].mode = "double" /\ q[3] = [q[2] EXCEPT !.word = Append(@, Quote), !.begun = TRUE]
    BY <2>4, <2>7 DEF State
  <2>9. q[3] = [r EXCEPT !.mode = "double", !.word = Append(@, Quote)]
    BY <2>7, <2>8 DEF State
  <2>10. q[3].mode = "double" /\ q[4] = [q[3] EXCEPT !.mode = "plain"]
    BY <2>4, <2>9 DEF State
  <2>11. q[4] = [r EXCEPT !.mode = "plain", !.word = Append(@, Quote)]
    BY <2>9, <2>10 DEF State
  <2>12. q[4].mode = "plain" /\ q[5] = [q[4] EXCEPT !.mode = "single", !.begun = TRUE]
    BY <2>4, <2>11 DEF State
  <2>13. q[5] = [r EXCEPT !.word = Append(@, Quote)]
    BY <2>11, <2>12 DEF State
  <2> HIDE DEF Read, Blank, Quote, Double, Dollar
  <2>14. ReadFrom(r, line) = q[5]
    BY <2>2, <2>3
  <2> QED
    BY <1>2, <2>1, <2>2, <2>13, <2>14
<1> QED
  BY <1>1, <1>2

(* A quoted value adds the value to the word, whatever is in it.           *)
LEMMA QuotedReads ==
    ASSUME NEW v \in Seq(Char), NEW r \in State, r.mode = "plain"
    PROVE  /\ shellQuote(v) \in Seq(Char)
           /\ ReadFrom(r, shellQuote(v)) = [r EXCEPT !.word = @ \o v, !.begun = TRUE]
<1> DEFINE n == Len(v)
           texts == [i \in 1..n |-> Escaped(v[i])]
           s == [r EXCEPT !.mode = "single", !.begun = TRUE]
<1>1. n \in Nat /\ DOMAIN v = 1..n /\ \A i \in 1..n : v[i] \in Char
  BY LenProperties, ElementOfSeq
<1>2. <<Quote>> \in Seq(Char)
  BY DEF Char
<1>3. s \in State /\ s.mode = "single" /\ s.begun /\ s.word = r.word
  BY DEF State
<1>4. Read(r, Quote) = s
  BY DEF Read, Blank, Quote, Double, Dollar
<1>5. ASSUME NEW i \in 1..n
      PROVE  texts[i] \in Seq(Char) /\ texts[i] = Escaped(v[i])
  BY <1>1, <1>3, EscapedReads
<1>6. texts \in Seq(Seq(Char)) /\ Len(texts) = n
  <2>1. \A i \in 1..n : Escaped(v[i]) \in Seq(Char)
    BY <1>5
  <2>2. texts \in Seq(Seq(Char)) /\ DOMAIN texts = 1..n
    BY <1>1, <2>1, IsASeq
  <2> HIDE DEF texts, n
  <2> QED
    BY <1>1, <2>2, LenProperties
<1>7. shellQuote(v) = <<Quote>> \o FlattenSeq(texts) \o <<Quote>>
  BY <1>1 DEF shellQuote, Escaped
<1> HIDE DEF texts, s, n
<1>8. PICK f \in [0..n -> Seq(Char)] :
         /\ f[0] = <<>> /\ FlattenSeq(texts) = f[n]
         /\ \A i \in 1..n : f[i] = f[i - 1] \o texts[i]
  BY <1>6, Flattened
<1> DEFINE after(i) == [s EXCEPT !.word = r.word \o SubSeq(v, 1, i)]
           S == {i \in 0..n : ReadFrom(s, f[i]) = after(i)}
<1>9. ASSUME NEW i \in 0..n
      PROVE  SubSeq(v, 1, i) \in Seq(Char) /\ r.word \in Seq(Char) /\ after(i) \in State
  <2>1. \A j \in 1..i : v[j] \in Char
    BY <1>1
  <2>2. SubSeq(v, 1, i) \in Seq(Char) /\ r.word \in Seq(Char)
    BY <1>1, <2>1, SubSeqProperties DEF State
  <2>3. r.word \o SubSeq(v, 1, i) \in Seq(Char)
    BY <2>2, ConcatProperties
  <2> QED
    BY <1>3, <2>2, <2>3 DEF State
<1>10. 0 \in S
  <2>1. ReadFrom(s, <<>>) = s
    BY ReadNone
  <2>2. SubSeq(v, 1, 0) = <<>>
    BY SubSeqEmpty
  <2>3. r.word \o <<>> = r.word
    BY <1>1, <1>9, ConcatEmptySeq
  <2>4. after(0) = s
    BY <1>3, <2>2, <2>3 DEF State
  <2> HIDE DEF after
  <2> QED
    BY <1>1, <1>8, <2>1, <2>4
<1>11. ASSUME NEW i \in 1..n, i - 1 \in S
       PROVE  i \in S
  <2>1. i - 1 \in 0..n /\ i \in 0..n /\ ReadFrom(s, f[i - 1]) = after(i - 1)
    BY <1>1, <1>11
  <2>2. after(i - 1) \in State /\ after(i - 1).mode = "single" /\ after(i - 1).begun
    BY <1>3, <1>9, <2>1 DEF State
  <2>3. ReadFrom(s, f[i]) = ReadFrom(after(i - 1), texts[i])
    <3>1. f[i] = f[i - 1] \o texts[i] /\ f[i - 1] \in Seq(Char) /\ texts[i] \in Seq(Char)
      BY <1>5, <1>8, <2>1
    <3> HIDE DEF after
    <3> QED
      BY <2>1, <3>1, ReadConcat
  <2>4. ReadFrom(after(i - 1), texts[i]) = [after(i - 1) EXCEPT !.word = Append(@, v[i])]
    <3> HIDE DEF after
    <3> QED
      BY <1>1, <1>5, <2>2, EscapedReads
  <2> DEFINE a == r.word
             b == SubSeq(v, 1, i - 1)
  <2>5. a \in Seq(Char) /\ b \in Seq(Char) /\ v[i] \in Char /\ a \o b \in Seq(Char)
    BY <1>1, <1>9, <2>1, ConcatProperties
  <2>6. SubSeq(v, 1, i) = b \o <<v[i]>>
    BY <1>1, SubSeqRecursiveSecond DEF n
  <2> HIDE DEF a, b
  <2>7. Append(a \o b, v[i]) = a \o (b \o <<v[i]>>)
    <3>1. <<v[i]>> \in Seq(Char)
      BY <2>5
    <3>2. Append(a \o b, v[i]) = (a \o b) \o <<v[i]>>
      BY <2>5, AppendIsConcat
    <3> QED
      BY <2>5, <3>1, <3>2, ConcatAssociative
  <2>8. [after(i - 1) EXCEPT !.word = Append(@, v[i])] = after(i)
    <3>1. after(i - 1).word = a \o b
      BY <1>3 DEF State, a, b
    <3>2. after(i) = [s EXCEPT !.word = Append(a \o b, v[i])]
      BY <2>6, <2>7 DEF a
    <3>3. after(i - 1) = [s EXCEPT !.word = a \o b]
      BY DEF a, b
    <3> HIDE DEF after
    <3> QED
      BY <1>3, <3>1, <3>2, <3>3 DEF State
  <2> HIDE DEF after
  <2> QED
    BY <2>1, <2>3, <2>4, <2>8
<1>12. ReadFrom(s, FlattenSeq(texts)) = after(n) /\ FlattenSeq(texts) \in Seq(Char)
  <2> HIDE DEF S
  <2>1. \A i \in 0..n : i \in S
    BY <1>1, <1>10, <1>11, UpTo
  <2>2. n \in 0..n
    BY <1>1
  <2> QED
    BY <1>8, <2>1, <2>2 DEF S
<1>13. after(n) = [s EXCEPT !.word = r.word \o v]
  <2>1. SubSeq(v, 1, n) = v
    BY SubSeqFull DEF n
  <2> QED
    BY <2>1
<1> HIDE DEF after
<1> DEFINE quote == <<Quote>>
           text == FlattenSeq(texts)
<1>14. \A t : ReadFrom(t, quote) = Read(t, Quote)
  BY ReadOne
<1>15. quote \in Seq(Char) /\ text \in Seq(Char) /\ shellQuote(v) = (quote \o text) \o quote
  BY <1>2, <1>7, <1>12
<1>16. ReadFrom(s, text) = after(n)
  BY <1>12
<1> HIDE DEF quote, text
<1>17. quote \o text \in Seq(Char) /\ shellQuote(v) \in Seq(Char)
  BY <1>15, ConcatProperties
<1>18. ReadFrom(r, quote \o text) = after(n)
  BY <1>4, <1>14, <1>15, <1>16, ReadConcat
<1>19. ReadFrom(r, shellQuote(v)) = Read(after(n), Quote)
  <2>1. ReadFrom(r, (quote \o text) \o quote) = ReadFrom(ReadFrom(r, quote \o text), quote)
    BY <1>15, <1>17, ReadConcat
  <2> QED
    BY <1>14, <1>15, <1>18, <2>1
<1>20. Read(after(n), Quote) = [after(n) EXCEPT !.mode = "plain"]
  <2>1. after(n).mode = "single"
    BY <1>3, <1>13 DEF State
  <2> QED
    BY <2>1 DEF Read, Blank, Quote, Double, Dollar
<1>21. [after(n) EXCEPT !.mode = "plain"] = [r EXCEPT !.word = r.word \o v, !.begun = TRUE]
  BY <1>13 DEF s, State
<1> QED
  BY <1>19, <1>20, <1>21, <1>17

-----------------------------------------------------------------------------
(* A text that a shell reads as one word, when it has begun none.          *)
Word(t, v) ==
    /\ t \in Seq(Char) /\ v \in Seq(Char)
    /\ \A r \in State :
          r.mode = "plain" /\ r.word = <<>> /\ ~r.begun =>
             ReadFrom(r, t) = [r EXCEPT !.word = v, !.begun = TRUE]

(* A character that means nothing to a shell.                              *)
Plain(c) == c \in Char \ {Blank, Quote, Double, Dollar}

(* A character that is not special adds itself to the word.                *)
LEMMA PlainReads ==
    ASSUME NEW c, Plain(c), NEW r \in State, r.mode = "plain"
    PROVE  Read(r, c) = [r EXCEPT !.word = Append(@, c), !.begun = TRUE]
BY DEF Plain, Read, Blank, Quote, Double, Dollar

(* A shell begins outside quotes and words.                               *)
LEMMA ReadingStarts ==
    /\ Reading \in State /\ Reading.mode = "plain" /\ Reading.word = <<>>
    /\ ~Reading.begun /\ Reading.words = <<>> /\ ~Reading.replaced
<1>1. <<>> \in Seq(Char) /\ <<>> \in Seq(Seq(Char))
  BY EmptySeq
<1> QED
  BY <1>1 DEF Reading, State

(* Where a word ends, it is one word more and the text goes on unread.     *)
LEMMA WordEnds ==
    ASSUME NEW v \in Seq(Char), NEW before \in Seq(Seq(Char))
    PROVE  LET r == [Reading EXCEPT !.word = v, !.begun = TRUE, !.words = before]
           IN  [r EXCEPT !.word = <<>>, !.begun = FALSE, !.words = Append(@, r.word)]
                  = [Reading EXCEPT !.words = Append(before, v)]
<1> DEFINE r == [Reading EXCEPT !.word = v, !.begun = TRUE, !.words = before]
           end == [r EXCEPT !.word = <<>>, !.begun = FALSE, !.words = Append(@, r.word)]
           moved == [Reading EXCEPT !.words = Append(before, v)]
<1>1. Append(before, v) \in Seq(Seq(Char)) /\ <<>> \in Seq(Char)
  BY AppendProperties, EmptySeq
<1>2. /\ r \in State /\ r.mode = "plain" /\ r.word = v /\ r.words = before
      /\ ~r.replaced
  BY ReadingStarts DEF State
<1>3. /\ moved \in State /\ moved.mode = "plain" /\ moved.word = <<>> /\ ~moved.begun
      /\ moved.words = Append(before, v) /\ ~moved.replaced
  BY <1>1, ReadingStarts DEF State
<1> HIDE DEF r, moved
<1>4. /\ end \in State /\ end.mode = "plain" /\ end.word = <<>> /\ ~end.begun
      /\ end.words = Append(before, v) /\ ~end.replaced
  BY <1>1, <1>2 DEF State
<1> HIDE DEF end
<1>5. /\ end.mode = moved.mode /\ end.word = moved.word /\ end.begun = moved.begun
      /\ end.words = moved.words /\ end.replaced = moved.replaced
  BY <1>3, <1>4 DEF State
<1>6. end = moved
  <2>1. end = [mode |-> end.mode, word |-> end.word, begun |-> end.begun,
               words |-> end.words, replaced |-> end.replaced]
    BY <1>4 DEF State
  <2>2. moved = [mode |-> moved.mode, word |-> moved.word, begun |-> moved.begun,
                 words |-> moved.words, replaced |-> moved.replaced]
    BY <1>3 DEF State
  <2> QED
    BY <1>5, <2>1, <2>2, Zenon
<1> QED
  BY <1>6 DEF end, moved, r

(* Such a character, a quoted value, and both together are words.          *)
LEMMA PlainWord ==
    ASSUME NEW c, Plain(c)
    PROVE  Word(<<c>>, <<c>>)
<1>1. <<c>> \in Seq(Char) /\ Append(<<>>, c) = <<c>>
  BY DEF Plain
<1>2. ASSUME NEW r \in State, r.mode = "plain", r.word = <<>>, ~r.begun
      PROVE  ReadFrom(r, <<c>>) = [r EXCEPT !.word = <<c>>, !.begun = TRUE]
  <2>1. ReadFrom(r, <<c>>) = [r EXCEPT !.word = Append(r.word, c), !.begun = TRUE]
    <3>1. Read(r, c) = [r EXCEPT !.word = Append(r.word, c), !.begun = TRUE]
      BY <1>2, PlainReads
    <3> QED
      BY <3>1, ReadOne
  <2> QED
    BY <1>1, <1>2, <2>1
<1> QED
  BY <1>1, <1>2 DEF Word

LEMMA QuotedWord ==
    ASSUME NEW v \in Seq(Char)
    PROVE  Word(shellQuote(v), v)
<1>1. \A r \in State : r.mode = "plain" => /\ shellQuote(v) \in Seq(Char)
         /\ ReadFrom(r, shellQuote(v)) = [r EXCEPT !.word = r.word \o v, !.begun = TRUE]
  BY QuotedReads
<1>2. <<>> \o v = v
  BY ConcatEmptySeq
<1>3. \E r \in State : r.mode = "plain"
  BY ReadingStarts
<1> QED
  BY <1>1, <1>2, <1>3 DEF Word

LEMMA QuotedThen ==
    ASSUME NEW v \in Seq(Char), NEW c, Plain(c)
    PROVE  Word(shellQuote(v) \o <<c>>, v \o <<c>>)
<1> DEFINE q == shellQuote(v)
           t == <<c>>
<1>1. q \in Seq(Char) /\ Word(q, v)
  BY QuotedWord DEF Word
<1>2. t \in Seq(Char) /\ \A r : ReadFrom(r, t) = Read(r, c)
  BY ReadOne DEF Plain
<1>3. Append(v, c) = v \o t
  BY AppendIsConcat DEF Plain
<1> HIDE DEF q, t
<1>4. q \o t \in Seq(Char) /\ v \o t \in Seq(Char)
  BY <1>1, <1>2, ConcatProperties
<1>5. ASSUME NEW r \in State, r.mode = "plain", r.word = <<>>, ~r.begun
      PROVE  ReadFrom(r, q \o t) = [r EXCEPT !.word = v \o t, !.begun = TRUE]
  <2> DEFINE s == [r EXCEPT !.word = v, !.begun = TRUE]
  <2>1. ReadFrom(r, q) = s
    BY <1>1, <1>5 DEF Word
  <2>2. s \in State /\ s.mode = "plain"
    BY <1>5 DEF State
  <2>3. [s EXCEPT !.word = Append(@, c), !.begun = TRUE]
           = [r EXCEPT !.word = v \o t, !.begun = TRUE]
    BY <1>3 DEF State
  <2> HIDE DEF s
  <2>4. ReadFrom(r, q \o t) = ReadFrom(s, t)
    BY <1>1, <1>2, <2>1, ReadConcat
  <2>5. Read(s, c) = [s EXCEPT !.word = Append(@, c), !.begun = TRUE]
    BY <2>2, PlainReads
  <2> QED
    BY <1>2, <2>3, <2>4, <2>5
<1>6. Word(q \o t, v \o t)
  BY <1>4, <1>5 DEF Word
<1> QED
  BY <1>6 DEF q, t

(* Texts that are read as these words, one each.                           *)
Words(ws, vs) ==
    /\ ws \in Seq(Seq(Char)) /\ vs \in Seq(Seq(Char))
    /\ Len(ws) = Len(vs) /\ Len(vs) # 0
    /\ \A i \in 1..Len(vs) : Word(ws[i], vs[i])

(* Words with blanks between them are read as these words.                 *)
LEMMA SpacedReads ==
    ASSUME NEW ws, NEW vs, Words(ws, vs)
    PROVE  /\ Spaced(ws) \in Seq(Char) /\ ReadAs(Spaced(ws), vs)
           /\ ReadAs(Spaced(ws) \o <<Blank>>, vs)
<1> DEFINE n == Len(vs)
           blank == <<Blank>>
           texts == [i \in 1..n |-> (IF i = 1 THEN <<>> ELSE blank) \o ws[i]]
           after(i) == [Reading EXCEPT !.word = vs[i], !.begun = TRUE,
                                       !.words = SubSeq(vs, 1, i - 1)]
<1>1. /\ ws \in Seq(Seq(Char)) /\ vs \in Seq(Seq(Char))
       /\ Len(ws) = Len(vs) /\ Len(vs) # 0
       /\ \A i \in 1..Len(vs) : Word(ws[i], vs[i])
  BY DEF Words
<1>2. /\ n \in Nat \ {0} /\ DOMAIN ws = 1..n
      /\ \A i \in 1..n : ws[i] \in Seq(Char) /\ vs[i] \in Seq(Char)
  BY <1>1, LenProperties, ElementOfSeq
<1>3. blank \in Seq(Char) /\ \A r : ReadFrom(r, blank) = Read(r, Blank)
  BY ReadOne DEF Char
<1> HIDE DEF blank
<1>4. Spaced(ws) = FlattenSeq(texts)
  BY <1>2 DEF Spaced, blank
<1>5. \A i \in 1..n : texts[i] = IF i = 1 THEN ws[i] ELSE blank \o ws[i]
  BY <1>2, ConcatEmptySeq
<1>6. texts \in Seq(Seq(Char)) /\ Len(texts) = n
  <2>1. \A i \in 1..n : (IF i = 1 THEN <<>> ELSE blank) \o ws[i] \in Seq(Char)
    BY <1>2, <1>3, ConcatEmptySeq, ConcatProperties
  <2>2. texts \in Seq(Seq(Char)) /\ DOMAIN texts = 1..n
    BY <1>2, <2>1, IsASeq
  <2> HIDE DEF texts, n
  <2> QED
    BY <1>2, <2>2, LenProperties
<1> HIDE DEF texts, n
<1>7. PICK f \in [0..n -> Seq(Char)] :
         /\ f[0] = <<>> /\ FlattenSeq(texts) = f[n]
         /\ \A i \in 1..n : f[i] = f[i - 1] \o texts[i]
  BY <1>6, Flattened
<1>8. \A i \in 1..n : SubSeq(vs, 1, i) = Append(SubSeq(vs, 1, i - 1), vs[i])
                      /\ SubSeq(vs, 1, i - 1) \in Seq(Seq(Char))
  <2> SUFFICES ASSUME NEW i \in 1..n
               PROVE  /\ SubSeq(vs, 1, i) = Append(SubSeq(vs, 1, i - 1), vs[i])
                      /\ SubSeq(vs, 1, i - 1) \in Seq(Seq(Char))
    OBVIOUS
  <2>1. SubSeq(vs, 1, i) = SubSeq(vs, 1, i - 1) \o <<vs[i]>>
    BY <1>2, <1>1, SubSeqRecursiveSecond DEF n
  <2>2. SubSeq(vs, 1, i - 1) \in Seq(Seq(Char))
    BY <1>2, SubSeqProperties
  <2> QED
    BY <1>2, <2>1, <2>2, AppendIsConcat
<1> DEFINE S == {i \in 0..n : i # 0 => ReadFrom(Reading, f[i]) = after(i)}
<1>9. 0 \in S
  BY <1>2
<1>10. ASSUME NEW i \in 1..n, i - 1 \in S
      PROVE  i \in S
  <2>1. Word(ws[i], vs[i])
    BY <1>1 DEF n
  <2>2. CASE i = 1
    <3>1. f[1] = ws[1]
      <4>1. f[i] = f[i - 1] \o texts[i] /\ texts[i] = ws[i] /\ ws[i] \in Seq(Char)
        BY <1>2, <1>5, <1>7, <2>2
      <4>2. f[1] = <<>> \o ws[1] /\ ws[1] \in Seq(Char)
        <5>1. i - 1 = 0
          BY <2>2
        <5> QED
          BY <1>7, <2>2, <4>1, <5>1
      <4> QED
        BY <4>2, ConcatEmptySeq
    <3>2. Reading \in State /\ Reading.mode = "plain" /\ Reading.word = <<>> /\ ~Reading.begun
      BY ReadingStarts
    <3>3. ReadFrom(Reading, ws[1]) = [Reading EXCEPT !.word = vs[1], !.begun = TRUE]
      BY <2>1, <2>2, <3>2 DEF Word
    <3>4. SubSeq(vs, 1, 1 - 1) = <<>>
      BY SubSeqEmpty
    <3>5. [Reading EXCEPT !.word = vs[1], !.begun = TRUE] = after(1)
      BY <3>4, ReadingStarts DEF State
    <3> HIDE DEF after
    <3> QED
      BY <1>2, <2>2, <3>1, <3>3, <3>5
  <2>3. CASE i # 1
    <3> DEFINE j == i - 1
               before == SubSeq(vs, 1, j)
               r == [Reading EXCEPT !.words = before]
    <3>1. j \in 1..n /\ ReadFrom(Reading, f[j]) = after(j)
      BY <1>2, <1>10, <2>3
    <3>2. f[i] = f[j] \o (blank \o ws[i]) /\ f[j] \in Seq(Char) /\ ws[i] \in Seq(Char)
      <4>1. f[i] = f[j] \o texts[i] /\ texts[i] = blank \o ws[i]
        BY <1>5, <1>7, <2>3
      <4>2. f[j] \in Seq(Char) /\ ws[i] \in Seq(Char)
        BY <1>2, <1>7, <3>1
      <4> QED
        BY <4>1, <4>2
    <3>3. after(i) = [Reading EXCEPT !.word = vs[i], !.begun = TRUE, !.words = before]
      OBVIOUS
    <3>4. before = Append(SubSeq(vs, 1, j - 1), vs[j]) /\ before \in Seq(Seq(Char))
      <4>1. before = Append(SubSeq(vs, 1, j - 1), vs[j])
        <5> HIDE DEF j
        <5> QED
          BY <1>8, <3>1
      <4> QED
        BY <1>8, <4>1
    <3> HIDE DEF before, j
    <3>5. Read(after(j), Blank) = r
      <4>1. Read(after(j), Blank) = EndWord(after(j))
        BY ReadingStarts DEF Read, Blank, Quote, Double, Dollar, State
      <4>2. EndWord(after(j)) = [after(j) EXCEPT !.word = <<>>, !.begun = FALSE,
                                                 !.words = Append(@, after(j).word)]
        BY ReadingStarts DEF EndWord, State
      <4>3. vs[j] \in Seq(Char) /\ SubSeq(vs, 1, j - 1) \in Seq(Seq(Char))
        BY <1>2, <1>8, <3>1
      <4>4. EndWord(after(j)) = [Reading EXCEPT !.words = Append(SubSeq(vs, 1, j - 1), vs[j])]
        BY <4>2, <4>3, WordEnds
      <4> HIDE DEF after
      <4> QED
        BY <3>4, <4>1, <4>4
    <3>6. r \in State /\ r.mode = "plain" /\ r.word = <<>> /\ ~r.begun
      BY <3>4, ReadingStarts DEF State
    <3>7. [r EXCEPT !.word = vs[i], !.begun = TRUE] = after(i)
      BY <3>3, ReadingStarts DEF State
    <3> HIDE DEF after, r
    <3>8. ReadFrom(r, ws[i]) = after(i)
      BY <2>1, <3>6, <3>7 DEF Word
    <3> DEFINE rest == blank \o ws[i]
    <3>9. rest \in Seq(Char) /\ f[i] = f[j] \o rest
      BY <1>3, <3>2, ConcatProperties
    <3>10. ReadFrom(after(j), rest) = ReadFrom(r, ws[i])
      <4>1. ReadFrom(after(j), rest) = ReadFrom(ReadFrom(after(j), blank), ws[i])
        BY <1>3, <3>2, ReadConcat
      <4> QED
        BY <1>3, <3>5, <4>1
    <3> HIDE DEF rest
    <3>11. ReadFrom(Reading, f[j] \o rest) = ReadFrom(after(j), rest)
      BY <3>1, <3>2, <3>9, ReadConcat
    <3>12. ReadFrom(Reading, f[i]) = after(i)
      BY <3>9, <3>10, <3>11, <3>8
    <3> QED
      BY <1>2, <3>12
  <2> QED
    BY <2>2, <2>3
<1>11. ReadFrom(Reading, Spaced(ws)) = after(n)
  <2> HIDE DEF S
  <2>1. \A i \in 0..n : i \in S
    BY <1>2, <1>9, <1>10, UpTo
  <2> HIDE DEF after
  <2>2. n \in S /\ n # 0
    BY <1>2, <2>1
  <2> QED
    BY <1>4, <1>7, <2>2 DEF S
<1>12. Append(SubSeq(vs, 1, n - 1), vs[n]) = vs
  <2>1. SubSeq(vs, 1, n) = vs
    BY <1>1, SubSeqFull DEF n
  <2> QED
    BY <1>2, <1>8, <2>1
<1>13. Shell(Spaced(ws)) = [Reading EXCEPT !.words = vs]
  <2>1. EndWord(after(n)) = [after(n) EXCEPT !.word = <<>>, !.begun = FALSE,
                                             !.words = Append(@, after(n).word)]
    BY ReadingStarts DEF EndWord, State
  <2>2. Shell(Spaced(ws)) = EndWord(after(n))
    BY <1>11 DEF Shell
  <2>3. vs[n] \in Seq(Char) /\ SubSeq(vs, 1, n - 1) \in Seq(Seq(Char))
    BY <1>2, <1>8
  <2>4. EndWord(after(n)) = [Reading EXCEPT !.words = Append(SubSeq(vs, 1, n - 1), vs[n])]
    BY <2>1, <2>3, WordEnds
  <2> HIDE DEF after
  <2> QED
    BY <1>12, <2>2, <2>4
<1>14. Spaced(ws) \in Seq(Char)
  BY <1>2, <1>4, <1>7
<1>15. Shell(Spaced(ws) \o blank) = [Reading EXCEPT !.words = vs]
  <2> DEFINE end == [Reading EXCEPT !.words = vs]
  <2>1. ReadFrom(Reading, Spaced(ws) \o blank) = Read(after(n), Blank)
    <3> HIDE DEF after
    <3> QED
      BY <1>3, <1>11, <1>14, ReadConcat
  <2>2. Read(after(n), Blank) = EndWord(after(n))
    BY ReadingStarts DEF Read, Blank, Quote, Double, Dollar, State
  <2>3. EndWord(after(n)) = end
    BY <1>11, <1>13 DEF Shell
  <2>4. EndWord(end) = end
    BY ReadingStarts DEF EndWord, State
  <2> HIDE DEF after, end
  <2>5. ReadFrom(Reading, Spaced(ws) \o blank) = end
    BY <2>1, <2>2, <2>3
  <2>6. Shell(Spaced(ws) \o blank) = end
    BY <2>4, <2>5 DEF Shell
  <2> QED
    BY <2>6 DEF end
<1> QED
  BY <1>13, <1>14, <1>15, ReadingStarts DEF ReadAs, State, blank

(* One word more than those of another text.                              *)
Extends(xs, ws) == Len(xs) = Len(ws) + 1 /\ \A i \in 1..Len(ws) : xs[i] = ws[i]

(* One more word comes after a blank.                                      *)
LEMMA SpacedAndOne ==
    ASSUME NEW C, Blank \in C, NEW ws \in Seq(Seq(C)), NEW xs \in Seq(Seq(C)),
           Len(ws) # 0, Extends(xs, ws)
    PROVE  Spaced(xs) = Spaced(ws) \o (<<Blank>> \o xs[Len(xs)])
<1> DEFINE n == Len(ws)
           m == Len(xs)
           piece(w, i) == (IF i = 1 THEN <<>> ELSE <<Blank>>) \o w[i]
           s == [i \in 1..n |-> piece(ws, i)]
           t == [i \in 1..m |-> piece(xs, i)]
<1>1. /\ n \in Nat \ {0} /\ m = n + 1 /\ DOMAIN ws = 1..n /\ DOMAIN xs = 1..m
      /\ \A i \in 1..n : ws[i] \in Seq(C) /\ xs[i] = ws[i]
      /\ \A i \in 1..m : xs[i] \in Seq(C)
  BY LenProperties, ElementOfSeq DEF Extends
<1>2. Spaced(ws) = FlattenSeq(s) /\ Spaced(xs) = FlattenSeq(t)
  BY <1>1 DEF Spaced
<1> HIDE DEF n, m
<1>3. <<Blank>> \in Seq(C) /\ <<>> \in Seq(C)
  BY EmptySeq
<1>4. /\ \A i \in 1..n : piece(ws, i) \in Seq(C) /\ piece(xs, i) = piece(ws, i)
      /\ \A i \in 1..m : piece(xs, i) \in Seq(C)
  BY <1>1, <1>3, ConcatProperties
<1>5. s \in Seq(Seq(C)) /\ Len(s) = n
  <2>1. s \in Seq(Seq(C)) /\ DOMAIN s = 1..n
    BY <1>1, <1>4, IsASeq
  <2> HIDE DEF s, piece
  <2> QED
    BY <1>1, <2>1, LenProperties
<1>6. t \in Seq(Seq(C)) /\ Len(t) = m
  <2>1. t \in Seq(Seq(C)) /\ DOMAIN t = 1..m
    BY <1>1, <1>4, IsASeq
  <2> HIDE DEF t, piece
  <2> QED
    BY <1>1, <2>1, LenProperties
<1>7. /\ \A i \in 1..n : i \in 1..m /\ t[i] = s[i]
      /\ t[m] = <<Blank>> \o xs[m]
  <2>1. m \in 1..m /\ m # 1
    BY <1>1
  <2>2. t[m] = <<Blank>> \o xs[m]
    BY <2>1
  <2>3. \A i \in 1..n : i \in 1..m
    BY <1>1
  <2> QED
    BY <1>4, <2>2, <2>3
<1> HIDE DEF s, t, piece
<1>8. PICK f \in [0..n -> Seq(C)] :
         /\ f[0] = <<>> /\ FlattenSeq(s) = f[n]
         /\ \A i \in 1..n : f[i] = f[i - 1] \o s[i]
  BY <1>5, Flattened
<1>9. PICK g \in [0..m -> Seq(C)] :
         /\ g[0] = <<>> /\ FlattenSeq(t) = g[m]
         /\ \A i \in 1..m : g[i] = g[i - 1] \o t[i]
  BY <1>6, Flattened
<1> DEFINE S == {i \in 0..n : g[i] = f[i]}
<1>10. 0 \in S
  BY <1>1, <1>8, <1>9
<1>11. ASSUME NEW i \in 1..n, i - 1 \in S
       PROVE  i \in S
  <2>1. i \in 1..m /\ t[i] = s[i]
    BY <1>7
  <2>2. g[i - 1] = f[i - 1]
    BY <1>11
  <2>3. g[i] = g[i - 1] \o t[i] /\ f[i] = f[i - 1] \o s[i]
    BY <1>8, <1>9, <2>1
  <2>4. g[i] = f[i]
    BY <2>1, <2>2, <2>3
  <2> QED
    BY <1>1, <2>4
<1>12. g[n] = f[n]
  <2> HIDE DEF S
  <2>1. \A i \in 0..n : i \in S
    BY <1>1, <1>10, <1>11, UpTo
  <2> QED
    BY <1>1, <2>1 DEF S
<1>13. g[m] = g[n] \o t[m]
  <2>1. m \in 1..m /\ m - 1 = n
    BY <1>1
  <2> QED
    BY <1>9, <2>1
<1> QED
  BY <1>2, <1>7, <1>8, <1>9, <1>12, <1>13 DEF m

(* The parts of two texts put together.                                    *)
LEMMA Parts ==
    ASSUME NEW C, NEW s \in Seq(C), NEW t \in Seq(C)
    PROVE  /\ SubSeq(s \o t, 1, Len(s \o t) - Len(t)) = s
           /\ SubSeq(s \o t, Len(s \o t) - Len(t) + 1, Len(s \o t)) = t
<1> DEFINE m == Len(s)
           n == Len(t)
           st == s \o t
<1>1. m \in Nat /\ n \in Nat
  BY LenProperties
<1>2. /\ st \in Seq(C) /\ Len(st) = m + n
      /\ \A i \in 1..(m + n) : st[i] = IF i <= m THEN s[i] ELSE t[i - m]
  BY ConcatProperties
<1>3. \A i \in 1..(m + n) : st[i] \in C
  BY <1>2, ElementOfSeq
<1> HIDE DEF st, m, n
<1>4. SubSeq(st, 1, m) = s
  <2> DEFINE a == SubSeq(st, 1, m)
  <2>1. \A i \in 1..m : st[i] \in C /\ st[i] = s[i]
    BY <1>1, <1>2, <1>3
  <2>2. a \in Seq(C) /\ Len(a) = (IF 1 <= m THEN m - 1 + 1 ELSE 0)
        /\ \A i \in 1..(m - 1 + 1) : a[i] = st[1 + i - 1]
    BY <1>1, <2>1, SubSeqProperties
  <2> HIDE DEF a
  <2>3. Len(a) = m /\ \A i \in 1..m : a[i] = s[i]
    BY <1>1, <2>1, <2>2
  <2>4. a = s
    BY <2>2, <2>3, SeqEqual DEF m
  <2> QED
    BY <2>4 DEF a
<1>5. SubSeq(st, m + 1, m + n) = t
  <2> DEFINE b == SubSeq(st, m + 1, m + n)
  <2>1. \A i \in (m + 1)..(m + n) : st[i] \in C
    BY <1>1, <1>3
  <2>2. b \in Seq(C) /\ Len(b) = (IF m + 1 <= m + n THEN m + n - (m + 1) + 1 ELSE 0)
        /\ \A i \in 1..(m + n - (m + 1) + 1) : b[i] = st[m + 1 + i - 1]
    BY <1>1, <2>1, SubSeqProperties
  <2> HIDE DEF b
  <2>3. Len(b) = n
    BY <1>1, <2>2
  <2>4. ASSUME NEW i \in 1..n
        PROVE  b[i] = t[i]
    <3> DEFINE k == m + i
    <3>1. b[i] = st[k]
      <4>1. i \in 1..(m + n - (m + 1) + 1) /\ m + 1 + i - 1 = m + i
        BY <1>1
      <4> QED
        BY <2>2, <4>1
    <3>2. k \in 1..(m + n) /\ ~(k <= m) /\ k - m = i
      BY <1>1
    <3> HIDE DEF k
    <3>3. st[k] = t[k - m]
      BY <1>2, <3>2
    <3> QED
      BY <3>1, <3>2, <3>3
  <2>5. b = t
    BY <2>2, <2>3, <2>4, SeqEqual DEF n
  <2> QED
    BY <2>5 DEF b
<1>6. Len(st) - n = m
  BY <1>1, <1>2
<1> QED
  BY <1>2, <1>4, <1>5, <1>6 DEF st, n

-----------------------------------------------------------------------------
(* What the operator gives is made of characters.                          *)
GivenOK == given \in [Field -> Seq(Character)]

LEMMA CommandInitEstablishes == CommandInit => GivenOK
<1>1. <<>> \in Seq(Character)
  BY EmptySeq
<1> QED
  BY <1>1 DEF CommandInit, GivenOK

LEMMA CommandStep ==
    ASSUME GivenOK, [CommandNext]_given
    PROVE  GivenOK'
<1>1. CASE CommandNext
  <2>1. PICK f \in Field, c \in Character : given' = [given EXCEPT ![f] = Append(@, c)]
    BY <1>1 DEF CommandNext
  <2>2. Append(given[f], c) \in Seq(Character)
    BY <2>1, AppendProperties DEF GivenOK
  <2> QED
    BY <2>1, <2>2 DEF GivenOK
<1>2. CASE UNCHANGED given
  BY <1>2 DEF GivenOK
<1> QED
  BY <1>1, <1>2

(* The fixed words of the commands.                                        *)
LEMMA FixedWords ==
    \A c \in {"docker", "run", "--rm", "-v", "sh", "-c", "--volumes-from", "tar",
              "-xzf", "-C", "/restore", "gzip", "-dc", "|"} :
       Word(<<c>>, <<c>>)
<1>1. \A c \in {"docker", "run", "--rm", "-v", "sh", "-c", "--volumes-from", "tar",
                "-xzf", "-C", "/restore", "gzip", "-dc", "|"} :
         Plain(c)
  BY DEF Plain, Char, Blank, Quote, Double, Dollar
<1> QED
  BY <1>1, PlainWord

(* The scripts: the archive's path is one word, the restore command stays  *)
(* as it was given.                                                        *)
LEMMA ScriptsRead ==
    ASSUME GivenOK
    PROVE  /\ VolumeScript \in Seq(Char) /\ DBScript \in Seq(Char)
           /\ ScriptNamesArchive
<1> DEFINE path == <<"/backup/">> \o given.base
           restore == given.restore
<1>1. /\ \A f \in Field : given[f] \in Seq(Char)
      /\ <<"/backup/">> \in Seq(Char) /\ Blank \in Char
  <2>1. Character \in SUBSET Char /\ "/backup/" \in Char /\ Blank \in Char
    BY DEF Char
  <2>2. \A f \in Field : given[f] \in Seq(Character)
    BY DEF GivenOK
  <2> QED
    BY <2>1, <2>2, SeqMonotonic
<1>2. path \in Seq(Char) /\ restore \in Seq(Char)
  BY <1>1, ConcatProperties DEF Field
<1>3. Word(innerArchivePath, path)
  BY <1>2, QuotedWord DEF innerArchivePath
<1> DEFINE ws == << <<"tar">>, <<"-xzf">>, innerArchivePath, <<"-C">>, <<"/restore">> >>
           vs == << <<"tar">>, <<"-xzf">>, path, <<"-C">>, <<"/restore">> >>
           us == << <<"gzip">>, <<"-dc">>, innerArchivePath, <<"|">> >>
           ts == << <<"gzip">>, <<"-dc">>, path, <<"|">> >>
           xs == << <<"gzip">>, <<"-dc">>, innerArchivePath, <<"|">>, restore >>
           text == Spaced(us)
<1> HIDE DEF path, restore
<1>4. Words(ws, vs)
  <2>1. /\ Word(<<"tar">>, <<"tar">>) /\ Word(<<"-xzf">>, <<"-xzf">>)
        /\ Word(<<"-C">>, <<"-C">>) /\ Word(<<"/restore">>, <<"/restore">>)
    BY FixedWords
  <2>2. \A i \in 1..5 : Word(ws[i], vs[i])
    BY <1>3, <2>1
  <2>3. \A i \in 1..5 : ws[i] \in Seq(Char) /\ vs[i] \in Seq(Char)
    BY <2>2 DEF Word
  <2>4. /\ ws[1] \in Seq(Char) /\ ws[2] \in Seq(Char) /\ ws[3] \in Seq(Char)
        /\ ws[4] \in Seq(Char) /\ ws[5] \in Seq(Char)
    BY <2>3
  <2>5. /\ vs[1] \in Seq(Char) /\ vs[2] \in Seq(Char) /\ vs[3] \in Seq(Char)
        /\ vs[4] \in Seq(Char) /\ vs[5] \in Seq(Char)
    BY <2>3
  <2>6. ws \in Seq(Seq(Char))
    BY <2>4
  <2>7. vs \in Seq(Seq(Char))
    BY <2>5
  <2>8. Len(ws) = 5 /\ Len(vs) = 5
    OBVIOUS
  <2> HIDE DEF ws, vs
  <2> QED
    BY <2>2, <2>6, <2>7, <2>8 DEF Words
<1>5. VolumeScript = Spaced(ws)
  BY DEF VolumeScript
<1>6. Words(us, ts) /\ \A i \in 1..4 : us[i] \in Seq(Char)
  <2>1. /\ Word(<<"gzip">>, <<"gzip">>) /\ Word(<<"-dc">>, <<"-dc">>)
        /\ Word(<<"|">>, <<"|">>)
    BY FixedWords
  <2>2. \A i \in 1..4 : Word(us[i], ts[i])
    BY <1>3, <2>1
  <2>3. \A i \in 1..4 : us[i] \in Seq(Char) /\ ts[i] \in Seq(Char)
    BY <2>2 DEF Word
  <2>4. us \in Seq(Seq(Char))
    BY <2>3
  <2>5. ts \in Seq(Seq(Char))
    BY <2>3
  <2>6. Len(us) = 4 /\ Len(ts) = 4
    OBVIOUS
  <2> HIDE DEF us, ts
  <2> QED
    BY <2>2, <2>3, <2>4, <2>5, <2>6 DEF Words
<1>7. /\ xs \in Seq(Seq(Char)) /\ Len(xs) = 5 /\ xs[5] = restore
      /\ us \in Seq(Seq(Char)) /\ Len(us) # 0 /\ Extends(xs, us)
  <2>1. \A i \in 1..4 : xs[i] = us[i]
    OBVIOUS
  <2>2. us[1] \in Seq(Char) /\ us[2] \in Seq(Char) /\ us[3] \in Seq(Char)
        /\ us[4] \in Seq(Char)
    BY <1>6
  <2>3. xs \in Seq(Seq(Char))
    BY <1>2, <2>2
  <2>4. Len(xs) = 5 /\ xs[5] = restore /\ Len(us) = 4
    OBVIOUS
  <2> QED
    BY <1>6, <2>1, <2>3, <2>4 DEF Extends, Words
<1>8. DBScript = Spaced(xs)
  BY DEF DBScript, restore
<1> HIDE DEF ws, vs, us, ts, xs
<1>9. VolumeScript \in Seq(Char) /\ ReadAs(VolumeScript, vs)
  BY <1>4, <1>5, SpacedReads
<1>10. text \in Seq(Char) /\ ReadAs(text \o <<Blank>>, ts)
  BY <1>6, SpacedReads
<1>11. DBScript = text \o (<<Blank>> \o restore)
  BY <1>1, <1>6, <1>7, <1>8, SpacedAndOne
<1> HIDE DEF text
<1>12. /\ <<Blank>> \in Seq(Char) /\ text \o <<Blank>> \in Seq(Char)
       /\ DBScript = (text \o <<Blank>>) \o restore
  <2>1. <<Blank>> \in Seq(Char)
    BY <1>1
  <2>2. text \o <<Blank>> \in Seq(Char)
    BY <1>10, <2>1, ConcatProperties
  <2>3. text \o (<<Blank>> \o restore) = (text \o <<Blank>>) \o restore
    BY <1>2, <1>10, <2>1, ConcatAssociative
  <2> QED
    BY <1>11, <2>1, <2>2, <2>3
<1> DEFINE lead == text \o <<Blank>>
<1>13. lead \in Seq(Char) /\ ReadAs(lead, ts) /\ DBScript = lead \o restore
  BY <1>10, <1>12
<1> HIDE DEF lead
<1>14. DBScript \in Seq(Char)
  BY <1>2, <1>13, ConcatProperties
<1>15. /\ SubSeq(DBScript, 1, Len(DBScript) - Len(restore)) = lead
       /\ SubSeq(DBScript, Len(DBScript) - Len(restore) + 1, Len(DBScript)) = restore
  BY <1>2, <1>13, Parts
<1>16. ScriptNamesArchive
  BY <1>9, <1>13, <1>15 DEF ScriptNamesArchive, vs, ts, path, restore
<1> QED
  BY <1>9, <1>14, <1>16

(* Both commands have eleven words.                                        *)
LEMMA ElevenWords ==
    ASSUME NEW a1, NEW b1, Word(a1, b1),
           NEW a2, NEW b2, Word(a2, b2),
           NEW a3, NEW b3, Word(a3, b3),
           NEW a4, NEW b4, Word(a4, b4),
           NEW a5, NEW b5, Word(a5, b5),
           NEW a6, NEW b6, Word(a6, b6),
           NEW a7, NEW b7, Word(a7, b7),
           NEW a8, NEW b8, Word(a8, b8),
           NEW a9, NEW b9, Word(a9, b9),
           NEW a10, NEW b10, Word(a10, b10),
           NEW a11, NEW b11, Word(a11, b11)
    PROVE  Words(<<a1, a2, a3, a4, a5, a6, a7, a8, a9, a10, a11>>,
                 <<b1, b2, b3, b4, b5, b6, b7, b8, b9, b10, b11>>)
<1> DEFINE ws == <<a1, a2, a3, a4, a5, a6, a7, a8, a9, a10, a11>>
           vs == <<b1, b2, b3, b4, b5, b6, b7, b8, b9, b10, b11>>
<1>1. /\ Word(ws[1], vs[1]) /\ Word(ws[2], vs[2]) /\ Word(ws[3], vs[3])
      /\ Word(ws[4], vs[4]) /\ Word(ws[5], vs[5]) /\ Word(ws[6], vs[6])
      /\ Word(ws[7], vs[7]) /\ Word(ws[8], vs[8]) /\ Word(ws[9], vs[9])
      /\ Word(ws[10], vs[10]) /\ Word(ws[11], vs[11])
  OBVIOUS
<1>2. Len(ws) = 11 /\ Len(vs) = 11
  OBVIOUS
<1>3. ws \in Seq(Seq(Char)) /\ vs \in Seq(Seq(Char))
  <2>1. /\ a1 \in Seq(Char) /\ a2 \in Seq(Char) /\ a3 \in Seq(Char)
        /\ a4 \in Seq(Char) /\ a5 \in Seq(Char) /\ a6 \in Seq(Char)
        /\ a7 \in Seq(Char) /\ a8 \in Seq(Char) /\ a9 \in Seq(Char)
        /\ a10 \in Seq(Char) /\ a11 \in Seq(Char)
    BY DEF Word
  <2>2. /\ b1 \in Seq(Char) /\ b2 \in Seq(Char) /\ b3 \in Seq(Char)
        /\ b4 \in Seq(Char) /\ b5 \in Seq(Char) /\ b6 \in Seq(Char)
        /\ b7 \in Seq(Char) /\ b8 \in Seq(Char) /\ b9 \in Seq(Char)
        /\ b10 \in Seq(Char) /\ b11 \in Seq(Char)
    BY DEF Word
  <2>3. ws \in Seq(Seq(Char))
    BY <2>1
  <2>4. vs \in Seq(Seq(Char))
    BY <2>2
  <2> QED
    BY <2>3, <2>4
<1> HIDE DEF ws, vs
<1>4. \A i \in 1..11 : Word(ws[i], vs[i])
  <2>1. \A i \in 1..11 : \/ i = 1 \/ i = 2 \/ i = 3 \/ i = 4 \/ i = 5 \/ i = 6
                         \/ i = 7 \/ i = 8 \/ i = 9 \/ i = 10 \/ i = 11
    OBVIOUS
  <2> QED
    BY <1>1, <2>1
<1>5. Words(ws, vs)
  BY <1>2, <1>3, <1>4 DEF Words
<1> QED
  BY <1>5 DEF ws, vs

(* The commands: each name is a word, or ends in one, and the script is a  *)
(* word as it was written.                                                 *)
LEMMA CommandsRead ==
    ASSUME GivenOK
    PROVE  ArgumentsArriveWhole
<1> DEFINE dir == given.dir
           name == given.name
           ro == <<":/backup:ro">>
           rw == <<":/restore">>
           script == VolumeScript
           dump == DBScript
           image == Image
           ws == << <<"docker">>, <<"run">>, <<"--rm">>,
                    <<"-v">>, shellQuote(dir) \o ro, <<"-v">>, shellQuote(name) \o rw,
                    shellQuote(image), <<"sh">>, <<"-c">>, shellQuote(script) >>
           vs == << <<"docker">>, <<"run">>, <<"--rm">>,
                    <<"-v">>, dir \o ro, <<"-v">>, name \o rw,
                    image, <<"sh">>, <<"-c">>, script >>
           us == << <<"docker">>, <<"run">>, <<"--rm">>,
                    <<"--volumes-from">>, shellQuote(name), <<"-v">>, shellQuote(dir) \o ro,
                    shellQuote(<<"alpine">>), <<"sh">>, <<"-c">>, shellQuote(dump) >>
           ts == << <<"docker">>, <<"run">>, <<"--rm">>,
                    <<"--volumes-from">>, name, <<"-v">>, dir \o ro,
                    <<"alpine">>, <<"sh">>, <<"-c">>, dump >>
<1>1. /\ dir \in Seq(Char) /\ name \in Seq(Char) /\ image \in Seq(Char)
      /\ <<"alpine">> \in Seq(Char)
  <2>1. Character \in SUBSET Char /\ "alpine" \in Char
    BY DEF Char
  <2>2. \A f \in Field : given[f] \in Seq(Character)
    BY DEF GivenOK
  <2>3. \A f \in Field : given[f] \in Seq(Char)
    BY <2>1, <2>2, SeqMonotonic
  <2> QED
    BY <2>1, <2>3 DEF Field, Image
<1>2. script \in Seq(Char) /\ dump \in Seq(Char)
  BY ScriptsRead
<1>3. Plain(":/backup:ro") /\ Plain(":/restore")
  BY DEF Plain, Char, Blank, Quote, Double, Dollar
<1>4. BuildVolumeRestoreCommand = Spaced(ws) /\ BuildDBRestoreCommand = Spaced(us)
  BY DEF BuildVolumeRestoreCommand, BuildDBRestoreCommand
<1>5. ReadAs(Spaced(ws), vs) /\ ReadAs(Spaced(us), ts) => ArgumentsArriveWhole
  BY <1>4 DEF ArgumentsArriveWhole
<1> HIDE DEF dir, name, image, script, dump
<1>6. /\ Word(shellQuote(dir) \o ro, dir \o ro) /\ Word(shellQuote(name) \o rw, name \o rw)
      /\ Word(shellQuote(name), name) /\ Word(shellQuote(image), image)
      /\ Word(shellQuote(<<"alpine">>), <<"alpine">>)
      /\ Word(shellQuote(script), script) /\ Word(shellQuote(dump), dump)
  BY <1>1, <1>2, <1>3, QuotedThen, QuotedWord
<1>7. /\ Word(<<"docker">>, <<"docker">>) /\ Word(<<"run">>, <<"run">>)
      /\ Word(<<"--rm">>, <<"--rm">>) /\ Word(<<"-v">>, <<"-v">>)
      /\ Word(<<"--volumes-from">>, <<"--volumes-from">>)
      /\ Word(<<"sh">>, <<"sh">>) /\ Word(<<"-c">>, <<"-c">>)
  BY FixedWords
<1>8. Words(ws, vs) /\ Words(us, ts)
  BY <1>6, <1>7, ElevenWords
<1> HIDE DEF ws, vs, us, ts
<1> QED
  BY <1>5, <1>8, SpacedReads

-----------------------------------------------------------------------------
RestoreInv == SearchInv /\ SessionInv /\ GivenOK

LEMMA RestoreInitEstablishes == RestoreInit => RestoreInv
BY SearchInitEstablishes, SessionInitEstablishes, CommandInitEstablishes
   DEF RestoreInit, RestoreInv

LEMMA RestoreStep ==
    ASSUME RestoreInv, [RestoreNext]_restoreVars
    PROVE  RestoreInv'
<1>1. [Next]_vars /\ [SessionNext]_sessionVars /\ [CommandNext]_given
  BY DEF RestoreNext, restoreVars
<1>2. SearchInv'
  BY <1>1, SearchStep DEF RestoreInv
<1>3. SessionInv'
  BY <1>1, SessionStep DEF RestoreInv
<1>4. GivenOK'
  BY <1>1, CommandStep DEF RestoreInv
<1> QED
  BY <1>2, <1>3, <1>4 DEF RestoreInv

(* The invariants of the search, the session and the commands hold side by *)
(* side.                                                                   *)
THEOREM RestoreInvariance == RestoreSpec => []RestoreInv
<1>1. RestoreInv /\ [RestoreNext]_restoreVars => RestoreInv'
  BY RestoreStep
<1> QED
  BY <1>1, RestoreInitEstablishes, PTL DEF RestoreSpec

(* A page lists objects once and in their order, a caller that has         *)
(* returned has a result and has closed its session.                       *)
THEOREM RestoreTypeCorrect == RestoreSpec => []RestoreTypeOK
<1>1. RestoreInv => RestoreTypeOK
  BY DEF RestoreInv, SearchInv, SessionInv, RestoreTypeOK
<1> QED
  BY <1>1, RestoreInvariance, PTL

(* ListCandidates finds what was there all along, however the bucket       *)
(* changes meanwhile and whatever manifests cannot be read.                *)
THEOREM SearchIsComplete == RestoreSpec => []FindsWhatIsKept
<1>1. RestoreInv => FindsWhatIsKept
  BY SearchFinds DEF RestoreInv
<1> QED
  BY <1>1, RestoreInvariance, PTL

(* sortCandidates and dedupeCandidates offer each key once, at its best,   *)
(* and the best keys first.                                                *)
THEOREM AnswerIsRanked == RestoreSpec => []Ranking
<1>1. RestoreInv => Ranking
  BY SearchFinds DEF RestoreInv
<1> QED
  BY <1>1, RestoreInvariance, PTL

(* Upload and Run report success only for a command that ended well, and   *)
(* Upload only for a file that was written whole.                          *)
THEOREM OkMeansDone == RestoreSpec => []SuccessMeansDone
<1>1. RestoreInv => SuccessMeansDone
  BY DEF RestoreInv, SessionInv, OkFromCommand, SuccessMeansDone
<1> QED
  BY <1>1, RestoreInvariance, PTL

(* A name with blanks, quotes or dollar signs in it reaches the program in *)
(* the container as it was given: shellQuote, once for the remote shell    *)
(* and once more for the shell of the script, is undone by both.           *)
THEOREM NamesReachShells == RestoreSpec => []NamesArriveWhole
<1>1. RestoreInv => NamesArriveWhole
  BY ScriptsRead, CommandsRead DEF RestoreInv, NamesArriveWhole
<1> QED
  BY <1>1, RestoreInvariance, PTL

(* The channel of Upload and Run has room for the one result that is sent, *)
(* so the goroutine never waits to send it, whether the caller still       *)
(* listens or has gone with its context: WorkerEnds rests on it.           *)
THEOREM SenderNeverWaits == RestoreSpec => []RoomForResult
<1>1. RestoreInv => RoomForResult
  BY DEF RestoreInv, SessionInv
<1> QED
  BY <1>1, RestoreInvariance, PTL
=============================================================================
