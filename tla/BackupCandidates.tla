-------------------------- MODULE BackupCandidates --------------------------
(***************************************************************************)
(* internal/s3backup: ListCandidates, the backups of one resource.  The    *)
(* bucket is listed page by page; a manifest is fetched when it is met,    *)
(* one that cannot be read is passed over, and other objects count by      *)
(* their name.  Meanwhile backup jobs write and remove objects.            *)
(*                                                                         *)
(* Keys are numbers in the order in which S3 lists them.  What the code    *)
(* finds out from the text of a key is given: whether it is a manifest,    *)
(* whether it looks like a backup, whether it has the resource's name.     *)
(***************************************************************************)
EXTENDS Integers, Sequences, FiniteSets, Functions, Ordering

CONSTANTS
    Key,            \* keys of objects
    ManifestKey,    \* isManifestKey
    BackupKey,      \* looksLikeBackup
    NamedKey,       \* nameMatches
    Manifest,       \* contents of a manifest
    Resource,       \* the resource that backups are sought for
    Modified,       \* times of modification
    Normal,         \* normalize, with the case folded, on names
    PageSize,       \* objects on a page of the listing
    None            \* nothing there; an ID, type or key left empty

(* A manifest has an id, a type, a name, a time created, and objects.      *)
ASSUME KeyAssumption ==
    /\ Key \subseteq Nat \ {0} /\ PageSize \in Nat \ {0}
    /\ ManifestKey \union BackupKey \union NamedKey \subseteq Key
    /\ Modified \subseteq Nat \ {0}
    /\ \A m \in Manifest : m.created \in Nat /\ m.objects \in Seq(Key \union {None})

VARIABLES
    bucket,     \* each object: a manifest, or when it was last modified
    phase,      \* "listing", "ok" or "err"
    page,       \* objects of the page still to be looked at
    listed,     \* the last key of the pages so far
    candidates, \* found so far
    kept,       \* history: objects that have not changed
    skipped     \* history: manifests passed over

vars == <<bucket, phase, page, listed, candidates, kept, skipped>>

Backup == [modified : Modified]
Object(k) == (IF k \in ManifestKey THEN Manifest ELSE Backup) \union {None}
Candidate == [key : Key, confidence : {"manifest", "fallback-name"},
              modified : Nat, from : Key]

(* Types; a page lists objects in the order of their keys, and none that   *)
(* was listed before.                                                      *)
TypeOK ==
    /\ DOMAIN bucket = Key /\ \A k \in Key : bucket[k] \in Object(k)
    /\ phase \in {"listing", "ok", "err"}
    /\ page \in Seq([key : Key, modified : Modified \union {0}]) /\ Len(page) <= PageSize
    /\ listed \in Key \union {0}
    /\ \A i \in DOMAIN page : page[i].key <= listed /\ (i > 1 => page[i - 1].key < page[i].key)
    /\ candidates \in Seq(Candidate)
    /\ kept \subseteq Key /\ skipped \subseteq ManifestKey

Init ==
    /\ bucket \in {b \in [Key -> Manifest \union Backup \union {None}] :
                    \A k \in Key : b[k] \in Object(k)}
    /\ IsFiniteSet({k \in Key : bucket[k] # None})
    /\ phase = "listing" /\ page = <<>> /\ listed = 0
    /\ candidates = <<>>
    /\ kept = Key /\ skipped = {}

-----------------------------------------------------------------------------
manifestMatches(m) ==
    \/ m.id # None /\ m.id = Resource.id
    \/ /\ m.type \in {None, Resource.type}
       /\ Normal[m.name] = Normal[Resource.name]

manifestCandidate(k, m, o) ==
    [key |-> o, confidence |-> "manifest", modified |-> m.created, from |-> k]

candidatesFromManifest(k, m) ==
    LET objects == At(m.objects, {i \in DOMAIN m.objects : m.objects[i] # None})
    IN  [i \in DOMAIN objects |-> manifestCandidate(k, m, objects[i])]

fallback(o) ==
    [key |-> o.key, confidence |-> "fallback-name", modified |-> o.modified,
     from |-> o.key]

(* Manifests first, then the newest first.                                 *)
Before(c, d) ==
    IF c.confidence # d.confidence THEN c.confidence = "manifest"
    ELSE c.modified > d.modified

(* A stable sort.                                                          *)
sortCandidates(s) ==
    LET order == {p \in (DOMAIN s) \X (DOMAIN s) :
                     \/ Before(s[p[1]], s[p[2]])
                     \/ ~Before(s[p[2]], s[p[1]]) /\ p[1] < p[2]}
    IN  [n \in DOMAIN s |-> s[InOrder(DOMAIN s, order)[n]]]

(* The first candidate of each key.                                        *)
dedupeCandidates(s) ==
    At(s, {i \in DOMAIN s : \A j \in DOMAIN s : j < i => s[j].key # s[i].key})

-----------------------------------------------------------------------------
(* The next page: the first objects of the bucket behind the last page.    *)
Rest == {k \in Key : k > listed /\ bucket[k] # None}

NextPage ==
    /\ phase = "listing" /\ page = <<>> /\ Rest # {}
    /\ LET ks == Ascending(Rest)
           entry(k) == [key |-> k, modified |-> IF k \in ManifestKey THEN 0 ELSE bucket[k].modified]
           n == IF Len(ks) < PageSize THEN Len(ks) ELSE PageSize
       IN  /\ page' = [i \in 1 .. n |-> entry(ks[i])]
           /\ listed' = ks[n]
    /\ UNCHANGED <<bucket, phase, candidates, kept, skipped>>

NextPageFails ==
    /\ phase = "listing" /\ page = <<>>
    /\ phase' = "err"
    /\ UNCHANGED <<bucket, page, listed, candidates, kept, skipped>>

Skip ==
    /\ page # <<>> /\ Head(page).key \notin ManifestKey \union (BackupKey \intersect NamedKey)
    /\ page' = Tail(page)
    /\ UNCHANGED <<bucket, phase, listed, candidates, kept, skipped>>

Fallback ==
    /\ page # <<>> /\ Head(page).key \in (BackupKey \intersect NamedKey) \ ManifestKey
    /\ page' = Tail(page)
    /\ candidates' = Append(candidates, fallback(Head(page)))
    /\ UNCHANGED <<bucket, phase, listed, kept, skipped>>

(* The manifest is fetched as it is now.                                   *)
ReadManifest ==
    /\ page # <<>> /\ Head(page).key \in ManifestKey
    /\ LET k == Head(page).key
       IN  /\ bucket[k] # None
           /\ candidates' = candidates
                 \o (IF manifestMatches(bucket[k])
                     THEN candidatesFromManifest(k, bucket[k]) ELSE <<>>)
    /\ page' = Tail(page)
    /\ UNCHANGED <<bucket, phase, listed, kept, skipped>>

ManifestEndsPage ==
    /\ page # <<>> /\ Head(page).key \in ManifestKey
    /\ page' = <<>>
    /\ skipped' = skipped \union {Head(page).key}
    /\ UNCHANGED <<bucket, phase, listed, candidates, kept>>

(* It has gone, cannot be read, or is not a manifest.                      *)
ManifestFails ==
    /\ page # <<>> /\ Head(page).key \in ManifestKey
    /\ page' = Tail(page)
    /\ skipped' = skipped \union {Head(page).key}
    /\ UNCHANGED <<bucket, phase, listed, candidates, kept>>

Finish ==
    /\ phase = "listing" /\ page = <<>> /\ Rest = {}
    /\ phase' = "ok"
    /\ UNCHANGED <<bucket, page, listed, candidates, kept, skipped>>

(* Another program writes or removes an object.                            *)
BucketChanges(k) ==
    /\ phase = "listing"
    /\ \E o \in Object(k) \ {bucket[k]} : bucket' = [bucket EXCEPT ![k] = o]
    /\ kept' = kept \ {k}
    /\ UNCHANGED <<phase, page, listed, candidates, skipped>>

ListCandidates ==
    NextPage \/ NextPageFails \/ Skip \/ Fallback \/ ReadManifest \/ ManifestFails \/ Finish

Next == ListCandidates \/ \E k \in Key : BucketChanges(k)

Spec == Init /\ [][Next]_vars

AnswerSortedLast == sortCandidates(dedupeCandidates(candidates))

(* What ListCandidates returns.                                            *)
Answer == dedupeCandidates(sortCandidates(candidates))

-----------------------------------------------------------------------------
Matching == {k \in ManifestKey \intersect kept :
                bucket[k] # None /\ manifestMatches(bucket[k])}

(* An object that was there all along is found by its name, and by every   *)
(* matching manifest that was there all along and could be read, whatever  *)
(* else changes in the bucket and whatever other manifest cannot be read.  *)
FindsWhatIsKept ==
    phase = "ok" =>
       /\ \A k \in (kept \intersect BackupKey \intersect NamedKey) \ ManifestKey :
             bucket[k] # None => \E i \in DOMAIN Answer : Answer[i].key = k
       /\ \A m \in Matching \ skipped : \A o \in Range(bucket[m].objects) \ {None} :
             \E i \in DOMAIN Answer : Answer[i].key = o /\ Answer[i].confidence = "manifest"

(* Each key is offered once, with the best that is known of it: what a     *)
(* manifest says over what the name suggests, then the newest.             *)
BestOfEachKey ==
    phase = "ok" =>
       /\ \A i, j \in DOMAIN Answer : Answer[i].key = Answer[j].key => i = j
       /\ \A i \in DOMAIN Answer : \A c \in Range(candidates) :
             c.key = Answer[i].key => ~Before(c, Answer[i])

(* The candidates that a manifest confirms come first, each part with the  *)
(* newest first.                                                           *)
ManifestFirst ==
    phase = "ok" =>
       \A i, j \in DOMAIN Answer : i < j =>
          \/ Answer[i].confidence = "manifest" /\ Answer[j].confidence # "manifest"
          \/ /\ Answer[i].confidence = Answer[j].confidence
             /\ Answer[i].modified >= Answer[j].modified

(* The answer offers each key once, at its best, and the best keys first.  *)
Ranking == BestOfEachKey /\ ManifestFirst
=============================================================================
