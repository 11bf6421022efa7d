------------------------------ MODULE JobStore ------------------------------
(***************************************************************************)
(* The registry of bulk imports (job_store) between the worker that runs   *)
(* an import, the commands it is made of, and a client that polls any      *)
(* worker for the progress.                                                *)
(*                                                                         *)
(* Each worker resolves its store once, when it starts: Redis if it can be *)
(* reached, its own memory otherwise.  In memory a call is one step under  *)
(* a lock; in Redis it is one step per command, any command may raise, and *)
(* one that raised may have been executed (the reply was lost).  Keys in   *)
(* Redis expire.  What the import does between its calls is abstracted to  *)
(* its outcomes; module BulkImport has the rest of it.                     *)
(***************************************************************************)
EXTENDS Naturals, Sequences, SequencesExt

CONSTANTS
    Workers,    \* processes that answer requests
    Home,       \* the worker that accepted the import and runs it
    Total,      \* images found under the root
    BatchSize,  \* IMPORT_BATCH_SIZE
    ErrorCap,   \* _ERROR_CAP
    Ttl,        \* ttl_seconds, in ticks
    MaxFaults,  \* bound: commands of the import to Redis that raise
    Unknown,    \* the answer 404
    None

ASSUME JobStoreAssumption ==
    /\ Home \in Workers
    /\ {BatchSize, ErrorCap, Ttl} \subseteq Nat \ {0}
    /\ {Total, MaxFaults} \subseteq Nat

VARIABLES
    backend,    \* worker -> the store it resolved
    job,        \* the record in Home's store: its fields, none when absent
    ttl,        \* ticks until the record expires, 0 for never
    errors,     \* the error list, images by number and 0 for other messages
    ettl,       \* ticks until the error list expires, 0 for never
    at,         \* the image being processed
    pc,         \* where the request, then its background task, is
    seen,       \* the client's last answer: a record or Unknown
    faults,     \* commands that raised so far
    pushed,     \* history: every message that was pushed
    expired     \* history: the record has expired

keys == <<job, ttl, errors, ettl, pushed, expired>>
vars == <<backend, keys, at, pc, seen, faults>>

Counters == {"total", "processed", "succeeded", "failed"}
Ended == {"completed", "failed"}

\* ImportJob as created, which also stands for the fields a hash lacks.
NewJob == [f \in Counters \cup {"state"} |-> IF f = "state" THEN "pending" ELSE 0]

Answers == [state : {"pending", "running"} \cup Ended, total : Nat,
            processed : Nat, succeeded : Nat, failed : Nat]

ASSUME AnswersAssumption == \A other \in {Unknown, None} : other \notin Answers

\* Fields written over a hash.
Over(new, old) ==
    [f \in DOMAIN new \cup DOMAIN old |-> IF f \in DOMAIN new THEN new[f] ELSE old[f]]

\* The record as get returns it.
Snapshot == Over(job, NewJob)

Redis == backend[Home] = "redis"

LastOf(i) == LET end == ((i - 1) \div BatchSize + 1) * BatchSize
             IN  IF end < Total THEN end ELSE Total

TypeOK ==
    /\ backend \in [Workers -> {"redis", "memory"}]
    /\ DOMAIN job \subseteq DOMAIN NewJob
    /\ Snapshot \in Answers
    /\ ttl \in 0 .. Ttl /\ ettl \in 0 .. Ttl
    /\ errors \in Seq(0 .. Total) /\ Len(errors) <= ErrorCap
    /\ at \in 1 .. Total + 1
    /\ pc \in {"create", "expire", "refused", "start", "fail", "good", "good2",
               "bad", "bad2", "bad3", "batch", "finish", "ended", "died", "crashed"}
    /\ seen \in Answers \cup {Unknown, None}
    /\ faults \in 0 .. MaxFaults
    /\ expired \in BOOLEAN

Init ==
    /\ backend \in [Workers -> {"redis", "memory"}]
    /\ job = <<>> /\ ttl = 0
    /\ errors = <<>> /\ ettl = 0 /\ pushed = <<>>
    /\ at = 1
    /\ pc = "create"
    /\ seen = None
    /\ faults = 0
    /\ expired = FALSE

-----------------------------------------------------------------------------
(***************************************************************************)
(* Commands                                                                *)
(***************************************************************************)

\* HSET and HINCRBY: both make the hash if there is none.
HSet(fields) == Over(fields, job)
HIncrBy(f) == Over([g \in {f} |-> Snapshot[f] + 1], job)

\* A call takes effect and control goes on, or it raises in Redis, executed or
\* not, and control goes to the handler.
Call(done, nothing, next, handler) ==
    \/ done /\ next /\ UNCHANGED faults
    \/ /\ Redis /\ faults < MaxFaults
       /\ done \/ nothing
       /\ faults' = faults + 1
       /\ handler

Go(place) == pc' = place /\ UNCHANGED at

\* A call that writes fields of the record.
Write(new, next, handler) ==
    /\ Call(job' = new, UNCHANGED job, next, handler)
    /\ UNCHANGED <<ttl, errors, ettl, pushed, expired>>

\* Mutants: the list keeps the last messages, or is not bounded at all.
PushLast(e) ==
    /\ errors' = LET all == Append(errors, e)
                 IN  IF Len(all) > ErrorCap THEN Tail(all) ELSE all
    /\ ettl' = IF Redis THEN Ttl ELSE 0
    /\ pushed' = Append(pushed, e)

PushAny(e) ==
    /\ errors' = Append(errors, e)
    /\ ettl' = IF Redis THEN Ttl ELSE 0
    /\ pushed' = Append(pushed, e)

\* RPUSH, LTRIM and EXPIRE in one transaction; in memory a full list refuses.
Push(e) ==
    /\ errors' = IF Len(errors) < ErrorCap THEN Append(errors, e) ELSE errors
    /\ ettl' = IF Redis THEN Ttl ELSE 0
    /\ pushed' = Append(pushed, e)

AddError(e, next, handler) ==
    /\ Call(Push(e), UNCHANGED <<errors, ettl, pushed>>, next, handler)
    /\ UNCHANGED <<job, ttl, expired>>

-----------------------------------------------------------------------------
(***************************************************************************)
(* The endpoint and the import                                             *)
(***************************************************************************)

\* create: HSET, then EXPIRE.  An error answers 500 and leaves what is there.
Create ==
    /\ pc = "create"
    /\ Write(NewJob, Go(IF Redis THEN "expire" ELSE "start"), Go("refused"))

\* Mutant: the key gets no expiry.
ExpireNever == pc = "expire" /\ Go("start") /\ UNCHANGED <<keys, faults>>

Expire ==
    /\ pc = "expire"
    /\ Call(ttl' = Ttl, UNCHANGED ttl, Go("start"), Go("refused"))
    /\ UNCHANGED <<job, errors, ettl, pushed, expired>>

\* Mutant: the job is ended before its message is there.
NoRootEarly ==
    \/ pc = "start" /\ Write(HSet([state |-> "failed"]), Go("fail"), Go("died"))
    \/ pc = "fail" /\ AddError(0, Go("ended"), Go("died"))

\* run, without a directory: one message and the end.
NoRoot ==
    \/ pc = "start" /\ AddError(0, Go("fail"), Go("died"))
    \/ pc = "fail" /\ Write(HSet([state |-> "failed"]), Go("ended"), Go("died"))

\* An image is added to the session, or anything on the way raises.
Image(i) == at' = i /\ pc' \in {"good", "bad"}

\* is_dir or _discover raises on a directory that cannot be read: nobody
\* catches it, the task is over, the worker lives on, and the record says
\* "pending".
Unreadable == pc = "start" /\ Go("died") /\ UNCHANGED <<keys, faults>>

MarkRunning ==
    /\ pc = "start"
    /\ Write(HSet([state |-> "running", total |-> Total]),
             IF Total = 0 THEN Go("finish") ELSE Image(1), Go("died"))

\* The first image of the next batch, or the end.
EndBatch == IF LastOf(at) = Total THEN pc' = "finish" /\ at' = Total + 1
                                  ELSE Image(LastOf(at) + 1)

\* The next image, or the commit, which may raise.
NextImage == IF at < LastOf(at) THEN Image(at + 1) ELSE EndBatch \/ Go("batch")

\* Mutant: the outcome is counted before the image.
RecordSuccessSwapped ==
    \/ /\ pc = "good" /\ Redis
       /\ Write(HIncrBy("succeeded"), Go("good2"), Go("bad"))
    \/ pc = "good2" /\ Write(HIncrBy("processed"), NextImage, Go("bad"))
    \/ /\ pc = "good" /\ ~Redis
       /\ Write(HSet([processed |-> job.processed + 1,
                      succeeded |-> job.succeeded + 1]), NextImage, Go("bad"))

\* record of a success, inside the try: if it raises, the image is recorded
\* again, as a failure.
RecordSuccess ==
    \/ /\ pc = "good" /\ Redis
       /\ Write(HIncrBy("processed"), Go("good2"), Go("bad"))
    \/ pc = "good2" /\ Write(HIncrBy("succeeded"), NextImage, Go("bad"))
    \/ /\ pc = "good" /\ ~Redis
       /\ Write(HSet([processed |-> job.processed + 1,
                      succeeded |-> job.succeeded + 1]), NextImage, Go("bad"))

\* record of a failure, in the except clause: if it raises the batch fails, and
\* also if the log entry that follows it does.
RecordFailure ==
    \/ /\ pc = "bad" /\ Redis
       /\ Write(HIncrBy("processed"), Go("bad2"), Go("batch"))
    \/ pc = "bad2" /\ Write(HIncrBy("failed"), Go("bad3"), Go("batch"))
    \/ pc = "bad3" /\ AddError(at, NextImage \/ Go("batch"), Go("batch"))
    \/ /\ pc = "bad" /\ ~Redis
       /\ job' = HSet([processed |-> job.processed + 1, failed |-> job.failed + 1])
       /\ Push(at)
       /\ NextImage \/ Go("batch")
       /\ UNCHANGED <<ttl, expired, faults>>

\* The batch's except clause: the rollback, its message, and the next batch; if
\* the rollback or the store raises here nobody catches it.
BatchFailed ==
    /\ pc = "batch"
    /\ \/ AddError(0, EndBatch, Go("died"))
       \/ Go("died") /\ UNCHANGED <<keys, faults>>

\* Mutants: the end is not marked, the end writes a whole new record.
MarkFinishedNever == pc = "finish" /\ Go("ended") /\ UNCHANGED <<keys, faults>>

MarkFinishedAnew ==
    /\ pc = "finish"
    /\ Write([NewJob EXCEPT !.state = "completed"], Go("ended"), Go("died"))

MarkFinished ==
    /\ pc = "finish"
    /\ Write(HSet([state |-> "completed"]), Go("ended"), Go("died"))

Import ==
    /\ \/ Create \/ Expire \/ NoRoot \/ Unreadable \/ MarkRunning
       \/ RecordSuccess \/ RecordFailure \/ BatchFailed \/ MarkFinished
    /\ UNCHANGED <<backend, seen>>

\* The worker of the import dies, and its memory with it.
Crash ==
    /\ pc # "crashed"
    /\ Redis => pc \notin {"refused", "ended", "died"}  \* else nothing is lost
    /\ pc' = "crashed"
    /\ IF Redis THEN UNCHANGED <<job, errors>> ELSE job' = <<>> /\ errors' = <<>>
    /\ UNCHANGED <<backend, ttl, ettl, pushed, expired, at, seen, faults>>

-----------------------------------------------------------------------------
(***************************************************************************)
(* The poller, and time                                                    *)
(***************************************************************************)

\* Does worker w look into the store that Home writes to?
Shares(w) == w = Home \/ (Redis /\ backend[w] = "redis")

Serves(w) == w # Home \/ pc # "crashed"

Told(answer) == answer \notin {Unknown, None}

\* The client asks until it is told of the end, or that there is no such job.
Asking == IF Told(seen) THEN seen.state \notin Ended ELSE seen = None

\* get at worker w: HGETALL; without a record the answer is 404.  (The LRANGE
\* after it reads a list that only grows.)
Poll(w) ==
    /\ Asking
    /\ Serves(w)
    /\ pc \notin {"create", "expire", "refused"}   \* it has no id to ask for
    /\ seen' = IF Shares(w) /\ job # <<>> THEN Snapshot ELSE Unknown
    /\ UNCHANGED <<backend, keys, at, pc, faults>>

\* Time passes for the two keys, which expire on their own.
Tick ==
    /\ ttl > 0 \/ ettl > 0
    /\ IF ttl = 1 THEN /\ job' = <<>> /\ ttl' = 0 /\ expired' = TRUE
                  ELSE /\ ttl' = IF ttl = 0 THEN 0 ELSE ttl - 1
                       /\ UNCHANGED <<job, expired>>
    /\ IF ettl = 1 THEN errors' = <<>> /\ ettl' = 0
                   ELSE /\ ettl' = IF ettl = 0 THEN 0 ELSE ettl - 1
                        /\ UNCHANGED errors
    /\ UNCHANGED <<backend, pushed, at, pc, seen, faults>>

Next == Import \/ Crash \/ (\E w \in Workers : Poll(w)) \/ Tick

Spec == Init /\ [][Next]_vars

\* The event loop runs the import, time passes, and the client keeps polling
\* whichever worker answers.
FairSpec ==
    /\ Spec
    /\ WF_vars(Import) /\ WF_vars(Tick) /\ WF_vars(\E w \in Workers : Poll(w))

-----------------------------------------------------------------------------
(***************************************************************************)
(* Properties                                                              *)
(***************************************************************************)

\* A call of record is two commands, and one that raises is recorded again.
\* Until it expires, the record (and so each HGETALL of a poll) counts an image
\* before its outcome; it is ahead of the outcomes by the image in hand (or lost
\* in a crash) and by one per failed command, and counts no image twice without
\* such a failure.
CountersAgree ==
    LET j == Snapshot
        outcomes == j.succeeded + j.failed
        inHand == IF pc \in {"good2", "bad2", "crashed"} THEN 1 ELSE 0
    IN  ~expired => /\ outcomes <= j.processed
                    /\ j.processed <= outcomes + inHand + faults
                    /\ j.processed <= at + faults
                    /\ j.total # 0 => j.processed <= j.total + faults

\* Two ways to cap a list and two keys with expiries of their own come to the
\* same: while the record lives, its list is the first messages, all of them
\* up to the cap, in both stores.
ErrorsAreTheFirst ==
    (~expired /\ job # <<>>) =>
        /\ IsPrefix(errors, pushed)
        /\ Len(errors) = IF Len(pushed) < ErrorCap THEN Len(pushed) ELSE ErrorCap

\* The end is the last word: neither the record nor its list changes after the
\* record has said that the import is over, until they expire.
TheEndIsTheLastWord ==
    [][(Snapshot.state \in Ended /\ ~expired' /\ pc' # "crashed") =>
        UNCHANGED <<job, errors>>]_vars

Rank(state) == CASE state = "pending" -> 0 [] state = "running" -> 1
                 [] state \in Ended -> 2

\* A client that polls any worker sees the import go forward, never back,
\* whatever stores the workers resolved, until the record expires or dies with
\* its worker.  That a job it has seen is unknown it is told by no worker but
\* one that resolved a store of its own.
PollsGoForward ==
    [][(Told(seen) /\ seen' # seen /\ ~expired' /\ pc' # "crashed") =>
        \/ seen' = Unknown /\ \E w \in Workers : ~Shares(w) /\ Poll(w)
        \/ /\ Told(seen')
           /\ Rank(seen.state) <= Rank(seen'.state)
           /\ \A f \in Counters : seen[f] <= seen'[f]]_vars

\* "Keys expire after ttl_seconds so finished jobs don't accumulate": so does
\* the record of every import that was accepted and is over, in whatever way
\* (a crash before the EXPIRE of create leaves one that no client knows of),
\* provided it did not expire under the import.
FinishedJobsExpire ==
    (/\ Redis /\ ~expired
     /\ pc \in {"ended", "died", "crashed"}
     /\ pc = "crashed" => ttl > 0) ~> job = <<>> /\ errors = <<>>

\* The task is over without having said so, and nothing removes its record: it
\* is in the memory of a worker that lives on, or was made anew in Redis,
\* without a time to live, by an import that outlived it.
Abandoned ==
    /\ pc \in {"died", "crashed"}
    /\ job # <<>> /\ Snapshot.state \notin Ended
    /\ ttl = 0

\* A client that keeps polling learns that the import is over, or is told that
\* there is no such job, and this only when the record has expired, died with
\* its worker or is in a store that not every worker shares.  Failing commands,
\* images and batches do not leave it waiting, and neither does, in Redis, a
\* directory that cannot be read or a rollback that raises; only an abandoned
\* record does.
PollerLearnsTheEnd ==
    pc = "start" ~>
        \/ Told(seen) /\ seen.state \in Ended
        \/ /\ seen = Unknown
           /\ expired \/ pc = "crashed" \/ \E w \in Workers : ~Shares(w)
        \/ Abandoned
=============================================================================
