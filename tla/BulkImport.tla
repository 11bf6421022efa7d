---------------------------- MODULE BulkImport -----------------------------
(***************************************************************************)
(* The background bulk import (BulkImportService): one task enrols every   *)
(* image under a folder tree, a directory per person, in batches.  Each    *)
(* batch is one database session committed at its end; each image updates  *)
(* the job's counters at once; the ids of the persons are cached across    *)
(* batches.  Meanwhile operators delete persons, and the database may fail *)
(* any statement, commit or rollback.                                      *)
(*                                                                         *)
(* An image is its position in the list that _discover returns.  A person  *)
(* inserted for image i gets the id i; a person known before the import    *)
(* has its name as id.  The uncommitted rows of the session are invisible  *)
(* to operators and hold their person's row (see Gallery).                 *)
(***************************************************************************)
EXTENDS Naturals, FiniteSets, Sequences

CONSTANTS
    Names,      \* names of the directories
    Pairs,      \* the directory of each image, in the order of _discover
    BatchSize,  \* IMPORT_BATCH_SIZE
    Outages,    \* whether the database may fail (a lost connection)
    None

ASSUME ImportAssumption ==
    /\ Pairs \in Seq(Names)
    /\ BatchSize \in Nat \ {0}
    /\ Outages \in BOOLEAN
    /\ None \notin Names \cup Nat
    /\ Names \cap Nat = {}

Images == 1 .. Len(Pairs)

Ids == Names \cup Images

\* The batch an image belongs to, and the last image of that batch.
BatchOf(i) == (i - 1) \div BatchSize

LastOf(i) == LET end == (BatchOf(i) + 1) * BatchSize
             IN  IF end < Len(Pairs) THEN end ELSE Len(Pairs)

VARIABLES
    people,     \* committed persons: id -> name
    faces,      \* committed faces: image -> id of the person
    audit,      \* images with a committed failure entry in the log
    session,    \* the uncommitted rows of the batch
    cache,      \* person_cache: name -> id or None
    job,        \* the job's state and counters in the job store
    at,         \* the image being processed
    pc,         \* where the task is
    landed,     \* history: images whose face was committed
    known       \* history: persons that were ever committed

store == <<people, faces, audit>>
vars == <<people, faces, audit, session, cache, job, at, pc, landed, known>>

Job == [state : {"pending", "running", "completed", "failed"},
        total : Nat, processed : Nat, succeeded : Nat, failed : Nat]

\* Rows added in the session: persons, faces (image -> id), failure entries.
EmptySession == [people |-> {}, faces |-> <<>>, audit |-> {}]

TypeOK ==
    /\ DOMAIN people \subseteq Ids /\ people \in [DOMAIN people -> Names]
    /\ DOMAIN faces \subseteq Images /\ faces \in [DOMAIN faces -> Ids]
    /\ audit \subseteq Images
    /\ session.people \subseteq Images
    /\ DOMAIN session.faces \subseteq Images
    /\ session.faces \in [DOMAIN session.faces -> Ids]
    /\ session.audit \subseteq Images
    /\ cache \in [Names -> Ids \cup {None}]
    /\ job \in Job
    /\ at \in Images \cup {Len(Pairs) + 1}
    /\ pc \in {"start", "image", "resolve", "add", "reject", "commit",
               "rollback", "ended", "unreadable", "lost", "crashed"}
    /\ landed \subseteq Images
    /\ known \subseteq Ids

\* Some of the persons may exist already, without faces.
Init ==
    /\ \E P \in SUBSET Names : people = [p \in P |-> p]
    /\ faces = <<>>
    /\ audit = {}
    /\ session = EmptySession
    /\ cache = [n \in Names |-> None]
    /\ job = [state |-> "pending", total |-> 0, processed |-> 0,
              succeeded |-> 0, failed |-> 0]
    /\ at = 1
    /\ pc = "start"
    /\ landed = {}
    /\ known = DOMAIN people

-----------------------------------------------------------------------------
(***************************************************************************)
(* The job store's record                                                  *)
(***************************************************************************)

\* Mutant: a success does not count as a success.
RecordSuccessLost == job' = [job EXCEPT !.processed = @ + 1]

RecordSuccess == job' = [job EXCEPT !.processed = @ + 1, !.succeeded = @ + 1]

RecordFailure == job' = [job EXCEPT !.processed = @ + 1, !.failed = @ + 1]

-----------------------------------------------------------------------------
(***************************************************************************)
(* The task                                                                *)
(***************************************************************************)

\* run: a root that is no directory fails the job, otherwise it starts, and
\* is over at once when it finds no image.  A directory that cannot be read
\* makes is_dir or _discover raise: nobody catches it, the task is over and
\* the worker lives on.
Run ==
    /\ pc = "start"
    /\ \/ /\ job' = [job EXCEPT !.state = "failed"]
          /\ pc' = "ended"
       \/ /\ pc' = "unreadable"
          /\ UNCHANGED job
       \/ /\ Pairs = <<>>
          /\ job' = [job EXCEPT !.state = "completed"]
          /\ pc' = "ended"
       \/ /\ Pairs # <<>>
          /\ job' = [job EXCEPT !.state = "running", !.total = Len(Pairs)]
          /\ pc' = "image"
    /\ UNCHANGED <<store, session, cache, at, landed, known>>

\* The next image of the batch, or the commit of the batch.
Advance ==
    IF at = LastOf(at)
    THEN /\ pc' = "commit"
         /\ UNCHANGED at
    ELSE /\ pc' = "image"
         /\ at' = at + 1

\* Decode and process_largest: an embedding or an exception.
Infer ==
    /\ pc = "image"
    /\ pc' \in {"resolve", "reject"}
    /\ UNCHANGED <<store, session, cache, job, at, landed, known>>

\* The image's exception handler: the counters, then the audit entry.
Reject ==
    /\ pc = "reject"
    /\ RecordFailure
    /\ \/ /\ session' = [session EXCEPT !.audit = @ \cup {at}]
          /\ Advance
       \/ /\ Outages
          /\ pc' = "rollback"
          /\ UNCHANGED <<session, at>>
    /\ UNCHANGED <<store, cache, landed, known>>

\* Mutant: person_id is a plain column without a foreign key.
RefusedNever == FALSE

\* INSERT INTO faces is refused for a person the session cannot see.
Refused == pc = "add" /\ cache[Pairs[at]] \notin DOMAIN people \cup session.people

\* A statement of the image fails: the session is unusable from here, so
\* the audit entry of the exception handler raises too.
StatementFails ==
    /\ Refused \/ (Outages /\ pc \in {"resolve", "add"})
    /\ RecordFailure
    /\ pc' = "rollback"
    /\ UNCHANGED <<store, session, cache, at, landed, known>>

\* Mutant: a person who is not cached is inserted without asking by name.
ResolveUnasked ==
    LET n == Pairs[at]
    IN  /\ pc = "resolve"
        /\ \/ /\ cache[n] # None
              /\ UNCHANGED <<session, cache>>
           \/ /\ cache[n] = None
              /\ cache' = [cache EXCEPT ![n] = at]
              /\ session' = [session EXCEPT !.people = @ \cup {at}]
        /\ pc' = "add"
        /\ UNCHANGED <<store, job, at, landed, known>>

\* The person of the image's directory: cached, found by name, or inserted.
Resolve ==
    LET n == Pairs[at]
        named == {p \in DOMAIN people : people[p] = n}
    IN  /\ pc = "resolve"
        /\ \/ /\ cache[n] # None
              /\ UNCHANGED <<session, cache>>
           \/ /\ cache[n] = None
              /\ \E p \in named : cache' = [cache EXCEPT ![n] = p]
              /\ UNCHANGED session
           \/ /\ cache[n] = None /\ named = {}
              /\ cache' = [cache EXCEPT ![n] = at]
              /\ session' = [session EXCEPT !.people = @ \cup {at}]
        /\ pc' = "add"
        /\ UNCHANGED <<store, job, at, landed, known>>

\* INSERT INTO faces goes through.
AddFace ==
    LET p == cache[Pairs[at]]
    IN  /\ pc = "add"
        /\ ~Refused
        /\ session' = [session EXCEPT
              !.faces = [i \in DOMAIN @ \cup {at} |-> IF i = at THEN p
                                                      ELSE @[i]]]
        /\ RecordSuccess
        /\ Advance
        /\ UNCHANGED <<store, cache, landed, known>>

\* Mutants: the job ends in a state that clients do not know, or in none.
EndBatchMisspelt ==
    /\ session' = EmptySession
    /\ at' = LastOf(at) + 1
    /\ job' = IF LastOf(at) = Len(Pairs)
              THEN [job EXCEPT !.state = "complete"] ELSE job
    /\ pc' = IF LastOf(at) = Len(Pairs) THEN "ended" ELSE "image"

EndBatchSilently ==
    /\ session' = EmptySession
    /\ at' = LastOf(at) + 1
    /\ pc' = IF LastOf(at) = Len(Pairs) THEN "ended" ELSE "image"
    /\ UNCHANGED job

\* The next batch opens a new session; after the last one the job is
\* completed, whatever became of the batches.
EndBatch ==
    /\ session' = EmptySession
    /\ at' = LastOf(at) + 1
    /\ IF LastOf(at) = Len(Pairs)
       THEN /\ job' = [job EXCEPT !.state = "completed"]
            /\ pc' = "ended"
       ELSE /\ pc' = "image"
            /\ UNCHANGED job

Commit ==
    /\ pc = "commit"
    /\ people' = [p \in DOMAIN people \cup session.people |->
                    IF p \in DOMAIN people THEN people[p] ELSE Pairs[p]]
    /\ faces' = [i \in DOMAIN faces \cup DOMAIN session.faces |->
                    IF i \in DOMAIN faces THEN faces[i] ELSE session.faces[i]]
    /\ audit' = audit \cup session.audit
    /\ landed' = landed \cup DOMAIN session.faces
    /\ known' = known \cup session.people
    /\ EndBatch
    /\ UNCHANGED cache

CommitFails ==
    /\ Outages
    /\ pc = "commit"
    /\ pc' = "rollback"
    /\ UNCHANGED <<store, session, cache, job, at, landed, known>>

\* Mutant: a failed batch commits the faces it had added so far.
RollbackKeepsFaces ==
    /\ pc = "rollback"
    /\ faces' = [i \in DOMAIN faces \cup DOMAIN session.faces |->
                    IF i \in DOMAIN faces THEN faces[i] ELSE session.faces[i]]
    /\ landed' = landed \cup DOMAIN session.faces
    /\ EndBatch
    /\ UNCHANGED <<people, audit, cache, known>>

\* The batch's exception handler: its rows are gone, the rest of its images
\* is skipped; the counters and the cache stay as they are.
Rollback ==
    /\ pc = "rollback"
    /\ EndBatch
    /\ UNCHANGED <<store, cache, landed, known>>

\* The rollback of that handler raises (the connection is lost): nobody
\* catches it, and the task is over in the middle of its images.  The database
\* rolls the session back by itself.
RollbackFails ==
    /\ Outages
    /\ pc = "rollback"
    /\ pc' = "lost"
    /\ session' = EmptySession
    /\ UNCHANGED <<store, cache, job, at, landed, known>>

Task ==
    \/ Run \/ Infer \/ Reject \/ Resolve \/ AddFace \/ StatementFails
    \/ Commit \/ CommitFails \/ Rollback \/ RollbackFails

\* The process dies: the database rolls the session back, no handler runs.
Crash ==
    /\ pc \notin {"ended", "unreadable", "lost", "crashed"}
    /\ pc' = "crashed"
    /\ session' = EmptySession
    /\ UNCHANGED <<store, cache, job, at, landed, known>>

-----------------------------------------------------------------------------
\* An operator deletes a person and, by cascade, that person's faces; it
\* waits for a session that has added a face to the person.
DeletePerson(p) ==
    /\ p \in DOMAIN people
    /\ \A i \in DOMAIN session.faces : session.faces[i] # p
    /\ people' = [q \in DOMAIN people \ {p} |-> people[q]]
    /\ faces' = [i \in {j \in DOMAIN faces : faces[j] # p} |-> faces[i]]
    /\ UNCHANGED <<audit, session, cache, job, at, pc, landed, known>>

Next == Task \/ Crash \/ \E p \in Ids : DeletePerson(p)

Spec == Init /\ [][Next]_vars

\* The event loop runs the task to its end while the process lives.
FairSpec == Spec /\ WF_vars(Task)

-----------------------------------------------------------------------------
(***************************************************************************)
(* Properties                                                              *)
(***************************************************************************)

\* A stale cached id never enrols: every committed face has its person,
\* although the cache keeps ids of persons that were deleted or rolled back.
FacesHaveAPerson == \A i \in DOMAIN faces : faces[i] \in DOMAIN people

\* Each image is filed under the person of its own directory, and the import
\* never makes two persons of one directory, whatever batches fail.
FiledUnderTheDirectory ==
    /\ \A i \in DOMAIN faces : people[faces[i]] = Pairs[i]
    /\ \A p, q \in DOMAIN people : people[p] = people[q] => p = q

\* The progress never claims less than was done: every image whose face was
\* committed is counted as a success, every image is counted at most once.
ProgressCoversTheCommits ==
    /\ job.processed = job.succeeded + job.failed
    /\ job.processed <= job.total
    /\ Cardinality(landed) <= job.succeeded
    /\ Cardinality(audit) <= job.failed

\* A batch is one unit of work: its images are enrolled, or have their
\* failure in the audit log, all at once; a batch that failed or was cut short
\* by a crash leaves neither.
BatchesAreAtomic ==
    \A i, j \in Images : BatchOf(i) = BatchOf(j) =>
        (i \in landed \cup audit <=> j \in landed \cup audit)

\* The import reaches its end and says so, however many images, statements and
\* batches fail.  Where it cannot, the record tells how far it came: it stays
\* pending when a directory could not be read, with nothing enrolled, and
\* running when the rollback of a batch raised, with nothing of that batch
\* enrolled, both in a worker that lives on; and the process may die.
ImportEnds ==
    pc = "start" ~> \/ pc = "ended" /\ job.state \in {"completed", "failed"}
                    \/ pc = "unreadable" /\ job.state = "pending" /\ landed = {}
                    \/ pc = "lost" /\ job.state = "running" /\ at \notin landed
                    \/ pc = "crashed"

\* "per-image isolation": an image that fails does not keep the others from
\* being processed, so a completed job has processed every image.
PerImageIsolation == job.state = "completed" => job.processed = job.total

\* "isolate batch failure": what a failed batch did is undone before the next
\* one starts; no later batch builds on a person that was rolled back.
BatchFailureIsIsolated ==
    pc = "resolve" => cache[Pairs[at]] \in known \cup session.people \cup {None}

=============================================================================
