--------------------------- MODULE JobStoreProofs ---------------------------
(***************************************************************************)
(* Proofs about JobStore, for any number of images, workers and failing    *)
(* commands, any batch size, cap and life time of keys.                    *)
(*                                                                         *)
(* The argument: while it lives the record only grows, field by field; how *)
(* far processed is ahead of the outcomes and of the position is known at  *)
(* each place of the import; and the list of errors never expires before   *)
(* the record does.                                                        *)
(***************************************************************************)
EXTENDS JobStore, SequenceTheorems, TLAPS

Fields == {"total", "processed", "succeeded", "failed", "state"}

\* Where the background task is at work.
Running == {"start", "fail", "good", "good2", "bad", "bad2", "bad3", "batch", "finish"}

\* Where the record, and its keys, are.
Kept ==
    /\ DOMAIN job \subseteq Fields
    /\ pc = "create" => job = <<>>
    /\ ~expired => \/ DOMAIN job = Fields
                   \/ job = <<>> /\ pc \in {"create", "refused", "crashed"}
    /\ ~Redis => ttl = 0 /\ ettl = 0 /\ ~expired /\ faults = 0
    /\ pc \in {"expire", "refused", "good2", "bad2", "bad3"} => Redis
    /\ pc \in {"create", "expire"} => ttl = 0 /\ ~expired
    /\ Redis /\ ~expired /\ pc \in Running \cup {"ended", "died"} => ttl > 0
    /\ pc \in {"create", "expire", "refused"} => pushed = <<>> /\ seen \in {Unknown, None}

Position ==
    /\ pc \in {"create", "expire", "start"} => at = 1
    /\ pc \in {"good", "good2", "bad", "bad2", "bad3", "batch"} => at <= Total
    /\ pc = "finish" => at = Total + 1

\* How far the counters may be from each other, and from the position.
Counts(j, outcomes) ==
    /\ outcomes <= j.processed
    /\ pc \in {"good2", "bad2"} => outcomes + 1 <= j.processed
    /\ j.processed <= outcomes + faults + (IF pc \in {"good2", "bad2", "crashed"} THEN 1 ELSE 0)
    /\ j.processed <= at + faults /\ j.processed <= Total + faults
    /\ pc \in {"create", "expire", "start", "fail", "good", "bad", "finish"} =>
          j.processed <= at - 1 + faults
    /\ j.total \in {0, Total}
    /\ j.state \in Ended => pc \in {"ended", "died", "crashed"}

Counting == ~expired => Counts(Snapshot, Snapshot.succeeded + Snapshot.failed)

\* The list, and that it outlives the record.
Listing ==
    /\ pushed \in Seq(0 .. Total)
    /\ ErrorsAreTheFirst
    /\ pushed = <<>> => errors = <<>>
    /\ Redis /\ ~expired /\ pushed # <<>> => ttl > 0 /\ ettl >= ttl

Below(old, new) ==
    /\ Rank(old.state) <= Rank(new.state)
    /\ \A f \in Counters : old[f] <= new[f]

\* What the client was told is not ahead of the record.
Seeing ==
    (Told(seen) /\ ~expired /\ pc # "crashed") => job # <<>> /\ Below(seen, Snapshot)

IInv == TypeOK /\ Kept /\ Position /\ Counting /\ Listing /\ Seeing

-----------------------------------------------------------------------------
(***************************************************************************)
(* Records                                                                 *)
(***************************************************************************)

LEMMA NewJobIsNew == NewJob = [f \in Fields |-> IF f = "state" THEN "pending" ELSE 0]
BY DEF NewJob, Counters, Fields

LEMMA SnapshotIs ==
    ASSUME DOMAIN job \subseteq Fields
    PROVE  Snapshot = [f \in Fields |-> IF f \in DOMAIN job THEN job[f] ELSE NewJob[f]]
BY NewJobIsNew DEF Snapshot, Over

LEMMA NoRecordIsNew == ASSUME job = <<>> PROVE Snapshot = NewJob
BY NewJobIsNew DEF Snapshot, Over, Fields

\* What is written over the record is written over its snapshot.
LEMMA Overwritten ==
    ASSUME DOMAIN job \subseteq Fields, NEW new, DOMAIN new \subseteq Fields,
           job' = Over(new, job)
    PROVE  /\ DOMAIN job' = DOMAIN job \cup DOMAIN new
           /\ Snapshot' = [f \in Fields |-> IF f \in DOMAIN new THEN new[f] ELSE Snapshot[f]]
<1>1. job' = [f \in DOMAIN job \cup DOMAIN new |->
                IF f \in DOMAIN new THEN new[f] ELSE job[f]]
  BY DEF Over
<1>2. Snapshot' = [f \in Fields |-> IF f \in DOMAIN job' THEN job'[f] ELSE NewJob[f]]
  BY <1>1, NewJobIsNew DEF Snapshot, Over, NewJob, Counters
<1>3. QED  BY <1>1, <1>2, SnapshotIs

\* The fields of an answer.
LEMMA AnswerFields ==
    ASSUME NEW j, j = [f \in Fields |-> j[f]]
    PROVE  j \in Answers <=> /\ j.state \in {"pending", "running", "completed", "failed"}
                             /\ j.total \in Nat /\ j.processed \in Nat
                             /\ j.succeeded \in Nat /\ j.failed \in Nat
BY DEF Answers, Ended, Fields

\* The places a batch ends before, and the images of a batch.
LEMMA BatchEnds ==
    ASSUME at \in 1 .. Total
    PROVE  LastOf(at) \in at .. Total
<1>1. Total \in Nat /\ BatchSize \in Nat \ {0} /\ at \in Nat /\ at - 1 \in Nat
  BY JobStoreAssumption
<1>2. \A a \in Nat, b \in Nat \ {0} : (a \div b + 1) * b > a /\ (a \div b + 1) * b \in Nat
  OBVIOUS
<1>3. PICK end \in Nat : end = ((at - 1) \div BatchSize + 1) * BatchSize /\ end > at - 1
  BY <1>1, <1>2
<1>4. LastOf(at) = IF end < Total THEN end ELSE Total
  BY <1>3 DEF LastOf
<1>5. QED  BY <1>1, <1>3, <1>4

\* The next image lies ahead, or the batch or all batches are over.
Onward ==
    \/ pc' \in {"good", "bad"} /\ at' \in Nat /\ at < at' /\ at' <= Total
    \/ pc' = "finish" /\ at' = Total + 1
    \/ pc' = "batch" /\ at' = at

LEMMA EndBatchIsOnward ==
    ASSUME at \in 1 .. Total, EndBatch
    PROVE  Onward
<1>1. LastOf(at) \in at .. Total /\ Total \in Nat
  BY BatchEnds, JobStoreAssumption
<1>2. QED  BY <1>1 DEF EndBatch, Image, Onward

LEMMA NextImageIsOnward ==
    ASSUME at \in 1 .. Total, NextImage
    PROVE  Onward
<1>1. LastOf(at) \in at .. Total /\ Total \in Nat
  BY BatchEnds, JobStoreAssumption
<1>2. CASE at < LastOf(at)
  BY <1>1, <1>2 DEF NextImage, Image, Onward
<1>3. CASE ~ (at < LastOf(at))
  BY <1>1, <1>3, EndBatchIsOnward DEF NextImage, Go, Onward
<1>4. QED  BY <1>2, <1>3

LEMMA EmptyRecord == DOMAIN <<>> = {} /\ Len(<<>>) = 0
OBVIOUS

LEMMA InitInv == Init => IInv
<1>1. SUFFICES ASSUME Init PROVE IInv
  OBVIOUS
<1>2. /\ job = <<>> /\ errors = <<>> /\ pushed = <<>> /\ ttl = 0 /\ ettl = 0
      /\ at = 1 /\ pc = "create" /\ seen = None /\ faults = 0 /\ expired = FALSE
      /\ backend \in [Workers -> {"redis", "memory"}]
  BY <1>1, Zenon DEF Init
<1>3. Snapshot = NewJob
  BY <1>2, NoRecordIsNew, Zenon
<1>4. DOMAIN job = {}
  BY <1>2, EmptyRecord, Zenon
<1>5. NewJob.state = "pending" /\ NewJob \in Answers
      /\ \A f \in Counters : NewJob[f] = 0
  BY NewJobIsNew, AnswerFields DEF Fields, Counters
<1>6. errors \in Seq(0 .. Total) /\ pushed \in Seq(0 .. Total) /\ Len(errors) = 0
  BY <1>2
<1>7. TypeOK
  <2>1. 0 \in 0 .. Ttl /\ 1 \in 1 .. Total + 1 /\ 0 \in 0 .. MaxFaults
        /\ Len(errors) <= ErrorCap
    BY <1>6, JobStoreAssumption
  <2>2. {} \subseteq DOMAIN NewJob
    OBVIOUS
  <2>3. DOMAIN job \subseteq DOMAIN NewJob /\ Snapshot \in Answers
    BY <1>3, <1>4, <1>5, <2>2, Zenon
  <2>4. QED  BY <1>2, <1>6, <2>1, <2>3 DEF TypeOK
<1>8. Kept /\ Position
  BY <1>2, <1>4 DEF Kept, Position, Running
<1>9. Counting
  BY <1>2, <1>3, <1>5, JobStoreAssumption DEF Counting, Counts, Counters, Ended
<1>10. Listing
  BY <1>2, <1>6 DEF Listing, ErrorsAreTheFirst
<1>11. Seeing
  BY <1>2 DEF Seeing, Told
<1>12. QED  BY <1>7, <1>8, <1>9, <1>10, <1>11 DEF IInv

-----------------------------------------------------------------------------
(***************************************************************************)
(* Steps of the import                                                     *)
(***************************************************************************)

\* A message is appended, and the list is still the first messages.
LEMMA PushIsListed ==
    ASSUME IInv, NEW e \in 0 .. Total, Push(e), UNCHANGED <<backend, ttl, expired>>,
           ttl > 0 \/ ~Redis \/ expired, job # <<>> \/ expired
    PROVE  /\ Listing'
           /\ errors' \in Seq(0 .. Total) /\ Len(errors') <= ErrorCap
           /\ ettl' \in 0 .. Ttl /\ (~Redis => ettl' = 0)
<1>1. /\ errors \in Seq(0 .. Total) /\ pushed \in Seq(0 .. Total)
      /\ Len(errors) <= ErrorCap /\ ErrorCap \in Nat \ {0} /\ Ttl \in Nat \ {0}
      /\ ttl \in 0 .. Ttl
  BY JobStoreAssumption DEF IInv, TypeOK, Listing
<1>2. errors' \in Seq(0 .. Total) /\ Len(errors') <= ErrorCap /\ pushed' \in Seq(0 .. Total)
  <2>1. /\ Append(errors, e) \in Seq(0 .. Total) /\ Append(pushed, e) \in Seq(0 .. Total)
        /\ Len(Append(errors, e)) = Len(errors) + 1 /\ Len(errors) \in Nat
    BY <1>1
  <2>2. pushed' = Append(pushed, e)
        /\ errors' = IF Len(errors) < ErrorCap THEN Append(errors, e) ELSE errors
    BY Zenon DEF Push
  <2>3. CASE Len(errors) < ErrorCap
    <3>1. errors' = Append(errors, e)
      BY <2>2, <2>3
    <3>2. Len(errors') <= ErrorCap
      BY <1>1, <2>1, <2>3, <3>1
    <3>3. QED  BY <2>1, <2>2, <3>1, <3>2, Zenon
  <2>4. CASE ~ (Len(errors) < ErrorCap)
    <3>1. errors' = errors
      BY <2>2, <2>4
    <3>2. QED  BY <1>1, <2>1, <2>2, <3>1, Zenon
  <2>5. QED  BY <2>3, <2>4
<1>3. ettl' \in 0 .. Ttl /\ (~Redis => ettl' = 0) /\ pushed' # <<>>
  BY <1>1 DEF Push
<1>4. ~expired => ErrorsAreTheFirst'
  <2>1. SUFFICES ASSUME ~expired PROVE ErrorsAreTheFirst'
    OBVIOUS
  <2>2. IsPrefix(errors, pushed)
        /\ Len(errors) = IF Len(pushed) < ErrorCap THEN Len(pushed) ELSE ErrorCap
    BY <2>1 DEF IInv, Listing, ErrorsAreTheFirst
  <2>3. CASE Len(errors) < ErrorCap
    <3>1. Len(errors) = Len(pushed)
      BY <1>1, <2>2, <2>3
    <3>2. errors = pushed
      BY <1>1, <2>2, <3>1 DEF IsPrefix
    <3>3. errors' = Append(pushed, e) /\ pushed' = Append(pushed, e)
      BY <2>3, <3>2 DEF Push
    <3>4. QED  BY <1>1, <1>2, <2>3, <3>1, <3>3 DEF ErrorsAreTheFirst, IsPrefix
  <2>4. CASE ~ (Len(errors) < ErrorCap)
    <3>1. errors' = errors /\ pushed' = Append(pushed, e) /\ Len(errors) = ErrorCap
          /\ Len(pushed) \in Nat /\ Len(pushed) >= ErrorCap
      BY <1>1, <2>2, <2>4 DEF Push
    <3>2. SubSeq(pushed', 1, ErrorCap) = SubSeq(pushed, 1, ErrorCap)
      BY <1>1, <3>1
    <3>3. QED  BY <1>1, <2>2, <3>1, <3>2 DEF ErrorsAreTheFirst, IsPrefix
  <2>5. QED  BY <2>3, <2>4
<1>5. Redis' /\ ~expired' => ttl' > 0 /\ ettl' >= ttl'
  BY <1>1 DEF Push, Redis
<1>6. ErrorsAreTheFirst'
  BY <1>4 DEF ErrorsAreTheFirst
<1>7. QED  BY <1>2, <1>3, <1>5, <1>6 DEF Listing

\* The list is left alone.
LEMMA ListUntouched ==
    ASSUME IInv, UNCHANGED <<backend, ttl, errors, ettl, pushed, expired>>,
           pc # "create", pc # "crashed", pc # "refused"
    PROVE  Listing'
<1>1. job # <<>> \/ expired
  BY DEF IInv, Kept, Fields
<1>2. QED  BY <1>1 DEF IInv, Listing, ErrorsAreTheFirst, Redis

\* One that only grows is not behind what the client was told.
LEMMA StillBelow ==
    ASSUME IInv, pc \in Running, UNCHANGED <<seen, expired>>, Snapshot' \in Answers,
           DOMAIN job \subseteq DOMAIN job', ~expired => Below(Snapshot, Snapshot')
    PROVE  Seeing'
<1>1. SUFFICES ASSUME Told(seen), ~expired
               PROVE  job' # <<>> /\ Below(seen, Snapshot')
  BY DEF Seeing, Told
<1>2. seen \in Answers /\ Snapshot \in Answers
  BY <1>1 DEF IInv, TypeOK, Told
<1>3. Below(seen, Snapshot)
  BY <1>1 DEF IInv, Seeing, Running
<1>4. DOMAIN job = Fields
  BY <1>1 DEF IInv, Kept, Running
<1>5. job' # <<>>
  BY <1>4, EmptyRecord DEF Fields
<1>6. \A j \in Answers : Rank(j.state) \in Nat /\ \A f \in Counters : j[f] \in Nat
  BY DEF Answers, Rank, Ended, Counters
<1>7. QED  BY <1>1, <1>2, <1>3, <1>5, <1>6 DEF Below

\* A step of the running import: what it has to show of the record.
LEMMA RunningStep ==
    ASSUME IInv, pc \in Running, pc' \in Running \cup {"ended", "died"},
           pc' \in {"good2", "bad2", "bad3"} => Redis,
           at' \in 1 .. Total + 1, Listing', Position',
           errors' \in Seq(0 .. Total), Len(errors') <= ErrorCap,
           ettl' \in 0 .. Ttl, ~Redis => ettl' = 0,
           UNCHANGED <<backend, ttl, expired, seen>>,
           DOMAIN job \subseteq DOMAIN job', DOMAIN job' \subseteq Fields,
           Snapshot' \in Answers, ~expired => Below(Snapshot, Snapshot'),
           faults' \in 0 .. MaxFaults, ~Redis => faults' = faults,
           ~expired => Counts(Snapshot, Snapshot.succeeded + Snapshot.failed)'
    PROVE  IInv'
<1>1. TypeOK'
  <2>1. pc' \in {"create", "expire", "refused", "start", "fail", "good", "good2",
                  "bad", "bad2", "bad3", "batch", "finish", "ended", "died", "crashed"}
    BY DEF Running
  <2>2. DOMAIN job' \subseteq (DOMAIN NewJob)'
    BY NewJobIsNew
  <2>3. /\ backend \in [Workers -> {"redis", "memory"}] /\ ttl \in 0 .. Ttl
        /\ seen \in Answers \cup {Unknown, None} /\ expired \in BOOLEAN
    BY DEF IInv, TypeOK
  <2>4. QED  BY <2>1, <2>2, <2>3 DEF TypeOK
<1>2. Kept'
  BY DEF IInv, Kept, Running, Redis
<1>3. Counting'
  BY DEF Counting
<1>4. Seeing'
  BY StillBelow
<1>5. QED  BY <1>1, <1>2, <1>3, <1>4 DEF IInv

\* The fields of the snapshot are numbers, and a state.
LEMMA SnapshotShape ==
    ASSUME IInv
    PROVE  /\ Snapshot = [f \in Fields |-> Snapshot[f]]
           /\ Snapshot.state \in {"pending", "running", "completed", "failed"}
           /\ Snapshot.total \in Nat /\ Snapshot.processed \in Nat
           /\ Snapshot.succeeded \in Nat /\ Snapshot.failed \in Nat
<1>1. Snapshot = [f \in Fields |-> Snapshot[f]]
  BY SnapshotIs DEF IInv, Kept
<1>2. QED  BY <1>1, AnswerFields DEF IInv, TypeOK

LEMMA Unwritten ==
    ASSUME IInv, UNCHANGED job
    PROVE  Snapshot' = Snapshot /\ Snapshot' \in Answers /\ Below(Snapshot, Snapshot')
<1>1. Snapshot' = Snapshot
  BY DEF Snapshot, Over, NewJob
<1>2. Rank(Snapshot.state) \in Nat
  BY SnapshotShape DEF Rank, Ended
<1>3. QED  BY <1>1, <1>2, SnapshotShape DEF Below, Counters, IInv, TypeOK

\* Counters that go up.
Grown(processed, succeeded, failed) ==
    /\ Snapshot'.state = Snapshot.state /\ Snapshot'.total = Snapshot.total
    /\ Snapshot'.processed = Snapshot.processed + processed
    /\ Snapshot'.succeeded = Snapshot.succeeded + succeeded
    /\ Snapshot'.failed = Snapshot.failed + failed

LEMMA GrownIsBelow ==
    ASSUME IInv, NEW p \in {0, 1}, NEW s \in {0, 1}, NEW f \in {0, 1},
           Grown(p, s, f), Snapshot' = [g \in Fields |-> Snapshot'[g]]
    PROVE  Snapshot' \in Answers /\ Below(Snapshot, Snapshot')
<1>1. Snapshot' \in Answers
  <2> DEFINE new == Snapshot'
  <2>1. new = [g \in Fields |-> new[g]]
    OBVIOUS
  <2>2. /\ new.state \in {"pending", "running", "completed", "failed"}
        /\ new.total \in Nat /\ new.processed \in Nat
        /\ new.succeeded \in Nat /\ new.failed \in Nat
    BY SnapshotShape DEF Grown
  <2>3. new \in Answers
    <3> HIDE DEF new
    <3>1. QED  BY <2>1, <2>2, AnswerFields
  <2>4. QED  BY <2>3
<1>2. Rank(Snapshot.state) \in Nat /\ Rank(Snapshot'.state) = Rank(Snapshot.state)
  BY SnapshotShape DEF Rank, Ended, Grown
<1>3. Below(Snapshot, Snapshot')
  BY <1>2, SnapshotShape DEF Below, Grown, Counters
<1>4. QED  BY <1>1, <1>3

\* HINCRBY on one field.
LEMMA Incremented ==
    ASSUME IInv, NEW f \in {"processed", "succeeded", "failed"}, job' = HIncrBy(f)
    PROVE  /\ DOMAIN job \subseteq DOMAIN job' /\ DOMAIN job' \subseteq Fields
           /\ Grown(IF f = "processed" THEN 1 ELSE 0, IF f = "succeeded" THEN 1 ELSE 0,
                    IF f = "failed" THEN 1 ELSE 0)
           /\ Snapshot' \in Answers /\ Below(Snapshot, Snapshot')
<1> DEFINE new == [g \in {f} |-> Snapshot[f] + 1]
<1>1. DOMAIN new = {f} /\ new[f] = Snapshot[f] + 1 /\ f \in Fields
  BY DEF Fields
<1>2. job' = Over(new, job) /\ DOMAIN job \subseteq Fields
  BY DEF HIncrBy, IInv, Kept
<1>3. /\ DOMAIN job' = DOMAIN job \cup DOMAIN new
      /\ Snapshot' = [g \in Fields |-> IF g \in DOMAIN new THEN new[g] ELSE Snapshot[g]]
  <2> HIDE DEF new
  <2>1. QED  BY <1>1, <1>2, Overwritten
<1>4. Snapshot' = [g \in Fields |-> IF g = f THEN Snapshot[f] + 1 ELSE Snapshot[g]]
  <2> HIDE DEF new
  <2>1. QED  BY <1>1, <1>3
<1>5. Grown(IF f = "processed" THEN 1 ELSE 0, IF f = "succeeded" THEN 1 ELSE 0,
            IF f = "failed" THEN 1 ELSE 0)
  BY <1>4, SnapshotShape DEF Grown, Fields
<1>6. Snapshot' = [g \in Fields |-> Snapshot'[g]]
  BY <1>4
<1>7. Snapshot' \in Answers /\ Below(Snapshot, Snapshot')
  BY <1>5, <1>6, GrownIsBelow
<1>8. QED  BY <1>1, <1>2, <1>3, <1>5, <1>7

\* Both counters of an image at once, in memory.
LEMMA BothIncremented ==
    ASSUME IInv, pc \in Running, ~Redis, NEW new, DOMAIN new \subseteq Fields,
           job' = HSet(new),
           \/ new = [processed |-> job.processed + 1, succeeded |-> job.succeeded + 1]
           \/ new = [processed |-> job.processed + 1, failed |-> job.failed + 1]
    PROVE  /\ DOMAIN job \subseteq DOMAIN job' /\ DOMAIN job' \subseteq Fields
           /\ IF "failed" \in DOMAIN new THEN Grown(1, 0, 1) ELSE Grown(1, 1, 0)
           /\ Snapshot' \in Answers /\ Below(Snapshot, Snapshot')
<1>1. DOMAIN job = Fields
  BY DEF IInv, Kept, Running
<1>2. /\ job.processed = Snapshot.processed /\ job.succeeded = Snapshot.succeeded
      /\ job.failed = Snapshot.failed
  BY <1>1, SnapshotIs DEF Fields
<1>3. /\ DOMAIN job' = DOMAIN job \cup DOMAIN new
      /\ Snapshot' = [g \in Fields |-> IF g \in DOMAIN new THEN new[g] ELSE Snapshot[g]]
  BY <1>1, Overwritten DEF HSet
<1>4. Snapshot' = [g \in Fields |-> Snapshot'[g]]
  BY <1>3
<1>5. CASE new = [processed |-> job.processed + 1, succeeded |-> job.succeeded + 1]
  <2>1. /\ DOMAIN new = {"processed", "succeeded"}
        /\ new.processed = Snapshot.processed + 1 /\ new.succeeded = Snapshot.succeeded + 1
    BY <1>2, <1>5
  <2>2. Grown(1, 1, 0)
    BY <1>3, <2>1, SnapshotShape DEF Grown, Fields
  <2>3. QED  BY <1>1, <1>3, <1>4, <2>1, <2>2, GrownIsBelow
<1>6. CASE new = [processed |-> job.processed + 1, failed |-> job.failed + 1]
  <2>1. /\ DOMAIN new = {"processed", "failed"}
        /\ new.processed = Snapshot.processed + 1 /\ new.failed = Snapshot.failed + 1
    BY <1>2, <1>6
  <2>2. Grown(1, 0, 1)
    BY <1>3, <2>1, SnapshotShape DEF Grown, Fields
  <2>3. QED  BY <1>1, <1>3, <1>4, <2>1, <2>2, GrownIsBelow
<1>7. QED  BY <1>5, <1>6

\* HSET of the state, with the total when the import begins.
LEMMA StateSet ==
    ASSUME IInv, NEW state \in {"running", "completed", "failed"}, NEW fields,
           \/ fields = [state |-> state, total |-> Total] /\ state = "running"
           \/ fields = [state |-> state] /\ state # "running",
           ~expired => (Snapshot.state \notin Ended /\ Snapshot.total \in {0, Total}),
           job' = HSet(fields)
    PROVE  /\ DOMAIN job \subseteq DOMAIN job' /\ DOMAIN job' \subseteq Fields
           /\ Snapshot' \in Answers
           /\ Snapshot'.state = state
           /\ Snapshot'.total = IF state = "running" THEN Total ELSE Snapshot.total
           /\ \A f \in {"processed", "succeeded", "failed"} : Snapshot'[f] = Snapshot[f]
           /\ ~expired => Below(Snapshot, Snapshot')
<1>1. DOMAIN fields \subseteq Fields /\ job' = Over(fields, job) /\ DOMAIN job \subseteq Fields
  BY DEF HSet, Fields, IInv, Kept
<1>2. /\ DOMAIN job' = DOMAIN job \cup DOMAIN fields
      /\ Snapshot' = [g \in Fields |-> IF g \in DOMAIN fields THEN fields[g] ELSE Snapshot[g]]
  BY <1>1, Overwritten
<1>3. CASE fields = [state |-> state, total |-> Total] /\ state = "running"
  <2>1. DOMAIN fields = {"state", "total"} /\ fields.state = state /\ fields.total = Total
    BY <1>3
  <2>2. /\ Snapshot'.state = "running" /\ Snapshot'.total = Total
        /\ Snapshot'.processed = Snapshot.processed
        /\ Snapshot'.succeeded = Snapshot.succeeded /\ Snapshot'.failed = Snapshot.failed
    BY <1>2, <1>3, <2>1 DEF Fields
  <2>3. Snapshot' \in Answers
    BY <1>2, <2>2, SnapshotShape, AnswerFields, JobStoreAssumption
  <2>4. ~expired => Below(Snapshot, Snapshot')
    BY <2>2, SnapshotShape, JobStoreAssumption DEF Below, Counters, Rank, Ended
  <2>5. QED  BY <1>1, <1>2, <1>3, <2>2, <2>3, <2>4
<1>4. CASE fields = [state |-> state] /\ state # "running"
  <2>1. DOMAIN fields = {"state"} /\ fields.state = state
    BY <1>4
  <2>2. /\ Snapshot'.state = state /\ Snapshot'.total = Snapshot.total
        /\ Snapshot'.processed = Snapshot.processed
        /\ Snapshot'.succeeded = Snapshot.succeeded /\ Snapshot'.failed = Snapshot.failed
    BY <1>2, <1>4, <2>1 DEF Fields
  <2>3. Snapshot' \in Answers
    BY <1>2, <2>2, SnapshotShape, AnswerFields
  <2>4. ~expired => Below(Snapshot, Snapshot')
    BY <1>4, <2>2, SnapshotShape DEF Below, Counters, Rank, Ended
  <2>5. QED  BY <1>1, <1>2, <1>4, <2>2, <2>3, <2>4
<1>5. QED  BY <1>3, <1>4

\* A command of the import took effect without an error, or it raised.
Answered == faults' = faults
Raised == Redis /\ faults < MaxFaults /\ faults' = faults + 1

\* While the import runs, a message is added or it is not.
LEMMA MessageAdded ==
    ASSUME IInv, pc \in Running, NEW e \in 0 .. Total,
           Push(e) \/ UNCHANGED <<errors, ettl, pushed>>,
           UNCHANGED <<backend, ttl, expired>>
    PROVE  /\ Listing'
           /\ errors' \in Seq(0 .. Total) /\ Len(errors') <= ErrorCap
           /\ ettl' \in 0 .. Ttl /\ (~Redis => ettl' = 0)
<1>1. CASE Push(e)
  <2>1. (ttl > 0 \/ ~Redis \/ expired) /\ (job # <<>> \/ expired)
    BY DEF IInv, Kept, Running, Fields
  <2>2. QED  BY <1>1, <2>1, PushIsListed
<1>2. CASE UNCHANGED <<errors, ettl, pushed>>
  <2>1. Listing'
    BY <1>2, ListUntouched DEF Running
  <2>2. QED  BY <1>2, <2>1 DEF IInv, TypeOK, Kept
<1>3. QED  BY <1>1, <1>2

\* A step that leaves the record alone.
LEMMA MessageStep ==
    ASSUME IInv, pc \in Running, pc' \in Running \cup {"ended", "died"},
           pc' \in {"good2", "bad2", "bad3"} => Redis,
           NEW e \in 0 .. Total, Push(e) \/ UNCHANGED <<errors, ettl, pushed>>,
           UNCHANGED <<backend, job, ttl, expired, seen>>,
           at' \in 1 .. Total + 1, Position', Answered \/ Raised,
           ~expired => Counts(Snapshot, Snapshot.succeeded + Snapshot.failed)'
    PROVE  IInv'
<1>1. /\ Listing' /\ errors' \in Seq(0 .. Total) /\ Len(errors') <= ErrorCap
      /\ ettl' \in 0 .. Ttl /\ (~Redis => ettl' = 0)
  BY MessageAdded
<1>2. DOMAIN job \subseteq DOMAIN job' /\ DOMAIN job' \subseteq Fields
  BY DEF IInv, Kept
<1>3. Snapshot' \in Answers /\ Below(Snapshot, Snapshot')
  BY Unwritten
<1>4. faults' \in 0 .. MaxFaults /\ (~Redis => faults' = faults)
  BY JobStoreAssumption DEF IInv, TypeOK, Answered, Raised
<1>5. QED  BY <1>1, <1>2, <1>3, <1>4, RunningStep

\* A step that writes the record, and nothing else.
LEMMA RecordStep ==
    ASSUME IInv, pc \in Running, pc' \in Running \cup {"ended", "died"},
           pc' \in {"good2", "bad2", "bad3"} => Redis,
           UNCHANGED <<backend, ttl, errors, ettl, pushed, expired, seen>>,
           DOMAIN job \subseteq DOMAIN job', DOMAIN job' \subseteq Fields,
           Snapshot' \in Answers, ~expired => Below(Snapshot, Snapshot'),
           at' \in 1 .. Total + 1, Position', Answered \/ Raised,
           ~expired => Counts(Snapshot, Snapshot.succeeded + Snapshot.failed)'
    PROVE  IInv'
<1>1. /\ Listing' /\ errors' \in Seq(0 .. Total) /\ Len(errors') <= ErrorCap
      /\ ettl' \in 0 .. Ttl /\ (~Redis => ettl' = 0)
  <2>1. Listing'
    BY ListUntouched DEF Running
  <2>2. QED  BY <2>1 DEF IInv, TypeOK, Kept
<1>2. faults' \in 0 .. MaxFaults /\ (~Redis => faults' = faults)
  BY JobStoreAssumption DEF IInv, TypeOK, Answered, Raised
<1>3. QED  BY <1>1, <1>2, RunningStep

\* What is known of the position and the counters while the import runs.
LEMMA Known ==
    ASSUME IInv, pc \in Running
    PROVE  /\ at \in 1 .. Total + 1 /\ Total \in Nat /\ faults \in Nat
           /\ pc \in {"good", "good2", "bad", "bad2", "bad3", "batch"} => at \in 1 .. Total
           /\ ~expired => Counts(Snapshot, Snapshot.succeeded + Snapshot.failed)
           /\ ~expired => Snapshot.state \notin Ended /\ Snapshot.total \in {0, Total}
BY JobStoreAssumption DEF IInv, TypeOK, Position, Counting, Counts, Running

LEMMA NoRootInv == ASSUME IInv, NoRoot, UNCHANGED <<backend, seen>> PROVE IInv'
<1>1. CASE pc = "start" /\ AddError(0, Go("fail"), Go("died"))
  <2>1. /\ UNCHANGED <<job, ttl, expired, at>>
        /\ Push(0) \/ UNCHANGED <<errors, ettl, pushed>>
        /\ \/ pc' = "fail" /\ Answered
           \/ pc' = "died" /\ Raised
    BY <1>1 DEF AddError, Call, Go, Answered, Raised
  <2>2. pc \in Running /\ pc' \in Running \cup {"ended", "died"}
        /\ (pc' \in {"good2", "bad2", "bad3"} => Redis)
    BY <1>1, <2>1 DEF Running, Raised
  <2>3. at' \in 1 .. Total + 1 /\ 0 \in 0 .. Total /\ Position'
    BY <2>1, <2>2, Known DEF Position
  <2>4. Snapshot' = Snapshot
    BY <2>1, Unwritten
  <2>5. ~expired => Counts(Snapshot, Snapshot.succeeded + Snapshot.failed)'
    BY <1>1, <2>1, <2>2, <2>4, Known, SnapshotShape DEF Counts, Answered, Raised
  <2>6. QED  BY <2>1, <2>2, <2>3, <2>5, MessageStep
<1>2. CASE pc = "fail" /\ Write(HSet([state |-> "failed"]), Go("ended"), Go("died"))
  <2>1. /\ UNCHANGED <<ttl, errors, ettl, pushed, expired, at>>
        /\ job' = HSet([state |-> "failed"]) \/ UNCHANGED job
        /\ \/ pc' = "ended" /\ Answered
           \/ pc' = "died" /\ Raised
    BY <1>2 DEF Write, Call, Go, Answered, Raised
  <2>2. pc \in Running /\ pc' \in Running \cup {"ended", "died"}
        /\ (pc' \in {"good2", "bad2", "bad3"} => Redis)
    BY <1>2, <2>1 DEF Running, Raised
  <2>3. at' \in 1 .. Total + 1 /\ Position'
    BY <2>1, <2>2, Known DEF Position
  <2>4. CASE UNCHANGED job
    <3>1. Snapshot' = Snapshot
      BY <2>4, Unwritten
    <3>2. ~expired => Counts(Snapshot, Snapshot.succeeded + Snapshot.failed)'
      BY <1>2, <2>1, <2>2, <3>1, Known, SnapshotShape DEF Counts, Answered, Raised
    <3>3. Snapshot' \in Answers /\ Below(Snapshot, Snapshot')
      BY <2>4, Unwritten
    <3>4. DOMAIN job \subseteq DOMAIN job' /\ DOMAIN job' \subseteq Fields
      BY <2>4 DEF IInv, Kept
    <3>5. QED  BY <2>1, <2>2, <2>3, <3>2, <3>3, <3>4, RecordStep
  <2>5. CASE job' = HSet([state |-> "failed"])
    <3>1. /\ DOMAIN job \subseteq DOMAIN job' /\ DOMAIN job' \subseteq Fields
          /\ Snapshot' \in Answers
          /\ Snapshot'.state = "failed" /\ Snapshot'.total = Snapshot.total
          /\ \A f \in {"processed", "succeeded", "failed"} : Snapshot'[f] = Snapshot[f]
          /\ ~expired => Below(Snapshot, Snapshot')
      BY <2>2, <2>5, Known, StateSet
    <3>2. ~expired => Counts(Snapshot, Snapshot.succeeded + Snapshot.failed)'
      BY <1>2, <2>1, <2>2, <3>1, Known, SnapshotShape DEF Counts, Answered, Raised
    <3>3. QED  BY <2>1, <2>2, <2>3, <3>1, <3>2, RecordStep
  <2>6. QED  BY <2>1, <2>4, <2>5
<1>3. QED  BY <1>1, <1>2 DEF NoRoot

\* An exception that nobody catches ends the task and writes nothing.
LEMMA GivenUp ==
    ASSUME IInv, pc \in {"start", "batch"}, Go("died"), UNCHANGED <<keys, faults>>,
           UNCHANGED <<backend, seen>>
    PROVE  IInv'
<1>1. pc \in Running /\ pc' = "died" /\ at' = at
      /\ UNCHANGED <<job, ttl, errors, ettl, pushed, expired>>
  BY DEF Running, Go, keys
<1>2. at' \in 1 .. Total + 1 /\ Position'
  BY <1>1, Known DEF Position
<1>3. /\ Snapshot' = Snapshot /\ Snapshot' \in Answers /\ Below(Snapshot, Snapshot')
      /\ Listing' /\ DOMAIN job \subseteq DOMAIN job' /\ DOMAIN job' \subseteq Fields
  BY <1>1, Unwritten, ListUntouched DEF IInv, Kept
<1>4. ~expired => Counts(Snapshot, Snapshot.succeeded + Snapshot.failed)'
  BY <1>1, <1>3, Known, SnapshotShape DEF Counts
<1>5. /\ errors' \in Seq(0 .. Total) /\ Len(errors') <= ErrorCap
      /\ ettl' \in 0 .. Ttl /\ (~Redis => ettl' = 0)
      /\ faults' \in 0 .. MaxFaults /\ (~Redis => faults' = faults)
  BY <1>1 DEF IInv, TypeOK, Kept
<1>6. QED  BY <1>1, <1>2, <1>3, <1>4, <1>5, RunningStep DEF Running

LEMMA UnreadableInv ==
    ASSUME IInv, Unreadable, UNCHANGED <<backend, seen>> PROVE IInv'
BY GivenUp DEF Unreadable

LEMMA MarkRunningInv == ASSUME IInv, MarkRunning, UNCHANGED <<backend, seen>> PROVE IInv'
<1> DEFINE fields == [state |-> "running", total |-> Total]
<1>1. /\ UNCHANGED <<ttl, errors, ettl, pushed, expired>> /\ pc = "start"
      /\ \/ /\ Answered /\ job' = HSet(fields)
            /\ IF Total = 0 THEN Go("finish") ELSE Image(1)
         \/ /\ Raised /\ Go("died")
            /\ job' = HSet(fields) \/ UNCHANGED job
  BY DEF MarkRunning, Write, Call, Answered, Raised
<1> HIDE DEF fields
<1>2. pc \in Running /\ at = 1 /\ Total \in Nat
  BY <1>1, JobStoreAssumption DEF Running, IInv, Position
<1>3. \/ Answered /\ at' = 1 /\ IF Total = 0 THEN pc' = "finish" ELSE pc' \in {"good", "bad"}
      \/ Raised /\ at' = 1 /\ pc' = "died"
  BY <1>1, <1>2 DEF Go, Image
<1>4. /\ pc' \in Running \cup {"ended", "died"} /\ at' \in 1 .. Total + 1
      /\ pc' \in {"good2", "bad2", "bad3"} => Redis
  BY <1>2, <1>3 DEF Running, Raised
<1>5. Position'
  BY <1>2, <1>3 DEF Position
<1>6. CASE UNCHANGED job /\ Raised
  <2>1. Snapshot' = Snapshot /\ Snapshot' \in Answers /\ Below(Snapshot, Snapshot')
    BY <1>6, Unwritten
  <2>2. pc' = "died" /\ at' = at
    BY <1>2, <1>3, <1>6, Known DEF Answered, Raised
  <2>3. ~expired => Counts(Snapshot, Snapshot.succeeded + Snapshot.failed)'
    BY <1>1, <1>2, <1>6, <2>1, <2>2, Known, SnapshotShape DEF Counts, Raised
  <2>4. DOMAIN job \subseteq DOMAIN job' /\ DOMAIN job' \subseteq Fields
    BY <1>6 DEF IInv, Kept
  <2>5. QED  BY <1>1, <1>2, <1>4, <1>5, <1>6, <2>1, <2>3, <2>4, RecordStep
<1>7. CASE job' = HSet(fields)
  <2>1. /\ DOMAIN job \subseteq DOMAIN job' /\ DOMAIN job' \subseteq Fields
        /\ Snapshot' \in Answers
        /\ Snapshot'.state = "running" /\ Snapshot'.total = Total
        /\ \A f \in {"processed", "succeeded", "failed"} : Snapshot'[f] = Snapshot[f]
        /\ ~expired => Below(Snapshot, Snapshot')
    BY <1>2, <1>7, Known, StateSet DEF fields
  <2>2. ~expired => Counts(Snapshot, Snapshot.succeeded + Snapshot.failed)'
    BY <1>1, <1>2, <1>3, <2>1, Known, SnapshotShape DEF Counts, Answered, Raised, Ended
  <2>3. QED  BY <1>1, <1>2, <1>3, <1>4, <1>5, <2>1, <2>2, RecordStep
<1>8. QED  BY <1>1, <1>6, <1>7

LEMMA MarkFinishedInv == ASSUME IInv, MarkFinished, UNCHANGED <<backend, seen>> PROVE IInv'
<1>1. /\ UNCHANGED <<ttl, errors, ettl, pushed, expired, at>> /\ pc = "finish"
      /\ job' = HSet([state |-> "completed"]) \/ UNCHANGED job
      /\ \/ pc' = "ended" /\ Answered
         \/ pc' = "died" /\ Raised
  BY DEF MarkFinished, Write, Call, Go, Answered, Raised
<1>2. pc \in Running /\ pc' \in Running \cup {"ended", "died"}
      /\ (pc' \in {"good2", "bad2", "bad3"} => Redis)
  BY <1>1 DEF Running, Raised
<1>3. at' \in 1 .. Total + 1 /\ Position'
  BY <1>1, <1>2, Known DEF Position
<1>4. CASE UNCHANGED job
  <2>1. Snapshot' = Snapshot /\ Snapshot' \in Answers /\ Below(Snapshot, Snapshot')
    BY <1>4, Unwritten
  <2>2. ~expired => Counts(Snapshot, Snapshot.succeeded + Snapshot.failed)'
    BY <1>1, <1>2, <2>1, Known, SnapshotShape DEF Counts, Answered, Raised
  <2>3. DOMAIN job \subseteq DOMAIN job' /\ DOMAIN job' \subseteq Fields
    BY <1>4 DEF IInv, Kept
  <2>4. QED  BY <1>1, <1>2, <1>3, <2>1, <2>2, <2>3, RecordStep
<1>5. CASE job' = HSet([state |-> "completed"])
  <2>1. /\ DOMAIN job \subseteq DOMAIN job' /\ DOMAIN job' \subseteq Fields
        /\ Snapshot' \in Answers
        /\ Snapshot'.state = "completed" /\ Snapshot'.total = Snapshot.total
        /\ \A f \in {"processed", "succeeded", "failed"} : Snapshot'[f] = Snapshot[f]
        /\ ~expired => Below(Snapshot, Snapshot')
    BY <1>2, <1>5, Known, StateSet
  <2>2. ~expired => Counts(Snapshot, Snapshot.succeeded + Snapshot.failed)'
    BY <1>1, <1>2, <2>1, Known, SnapshotShape DEF Counts, Answered, Raised
  <2>3. QED  BY <1>1, <1>2, <1>3, <2>1, <2>2, RecordStep
<1>6. QED  BY <1>1, <1>4, <1>5

\* Where the import is after an image, or after a batch.
LEMMA OnwardPlace ==
    ASSUME IInv, pc \in Running, at \in 1 .. Total, Onward
    PROVE  /\ pc' \in Running /\ pc' \notin {"good2", "bad2", "bad3"}
           /\ at' \in 1 .. Total + 1 /\ Position'
BY JobStoreAssumption DEF Onward, Running, Position

\* The image in hand has been recorded, or its record failed.
LEMMA OnwardCounts ==
    ASSUME IInv, pc \in Running \ {"start", "fail", "finish"}, Onward, ~expired,
           NEW d \in {0, 1}, faults' = faults + d,
           NEW p \in {0, 1}, NEW s \in {0, 1}, NEW f \in {0, 1}, Grown(p, s, f),
           IF pc \in {"good2", "bad2"} THEN p = 0 /\ s + f = 1 ELSE p = s + f,
           pc \in {"bad3", "batch"} => p = 0
    PROVE  Counts(Snapshot, Snapshot.succeeded + Snapshot.failed)'
<1>1. /\ at \in 1 .. Total /\ Total \in Nat /\ faults \in Nat
      /\ Counts(Snapshot, Snapshot.succeeded + Snapshot.failed)
      /\ Snapshot.state \notin Ended
  BY Known DEF Running
<1>2. pc' \notin {"good2", "bad2", "crashed"}
  BY DEF Onward
<1>3. at <= at' /\ at' \in Nat /\ (pc' \in {"good", "bad", "finish"} => at <= at' - 1)
      /\ pc' \in {"good", "bad", "finish", "batch"}
  BY <1>1 DEF Onward
<1>4. /\ Snapshot'.state = Snapshot.state /\ Snapshot'.total = Snapshot.total
      /\ Snapshot'.processed = Snapshot.processed + p
      /\ Snapshot'.succeeded + Snapshot'.failed = Snapshot.succeeded + Snapshot.failed + (s + f)
  BY SnapshotShape DEF Grown
<1>5. PICK P \in Nat, Out \in Nat : P = Snapshot.processed /\ Out = Snapshot.succeeded + Snapshot.failed
  BY SnapshotShape
<1>6. /\ pc \in {"good2", "bad2"} => Out + 1 <= P /\ P <= Out + 1 + faults
      /\ pc \notin {"good2", "bad2"} => Out <= P /\ P <= Out + faults
      /\ P <= at + faults /\ P <= Total + faults
      /\ pc \in {"good", "bad"} => P <= at - 1 + faults
  BY <1>1, <1>5 DEF Counts, Running
<1>7. pc \in {"good", "bad"} \/ pc \in {"good2", "bad2"} \/ pc \in {"bad3", "batch"}
  BY DEF Running
<1>8. /\ Out + (s + f) <= P + p /\ P + p <= Out + (s + f) + (faults + d)
      /\ P + p <= at + (faults + d) /\ P + p <= Total + (faults + d)
  <2>1. CASE pc \in {"good", "bad"}
    BY <1>1, <1>6, <2>1
  <2>2. CASE pc \in {"good2", "bad2"}
    BY <1>1, <1>6, <2>2
  <2>3. CASE pc \in {"bad3", "batch"}
    BY <1>1, <1>6, <2>3
  <2>4. QED  BY <1>7, <2>1, <2>2, <2>3
<1>9. P + p <= at' + (faults + d)
      /\ (pc' \in {"good", "bad", "finish"} => P + p <= at' - 1 + (faults + d))
  <2> DEFINE counted == P + p
  <2>1. counted \in Nat /\ faults + d \in Nat /\ at \in Nat /\ at' \in Nat
        /\ counted <= at + (faults + d) /\ at <= at'
    BY <1>1, <1>3, <1>8
  <2>2. pc' \in {"good", "bad", "finish"} => at <= at' - 1
    BY <1>3
  <2> HIDE DEF counted
  <2>3. \A a, b, e, c \in Nat : c <= a + e =>
           (a <= b => c <= b + e) /\ (a <= b - 1 => c <= b - 1 + e)
    OBVIOUS
  <2>4. counted <= at' + (faults + d)
        /\ (pc' \in {"good", "bad", "finish"} => counted <= at' - 1 + (faults + d))
    BY <2>1, <2>2, <2>3
  <2>5. QED  BY <2>4 DEF counted
<1>10. Snapshot.total \in {0, Total} /\ Snapshot'.state \notin Ended
  BY <1>1, <1>4 DEF Counts
<1>11. QED  BY <1>2, <1>3, <1>4, <1>5, <1>8, <1>9, <1>10 DEF Counts

\* What a command on a counter may leave.
LEMMA WrittenOrNot ==
    ASSUME IInv, NEW f \in {"processed", "succeeded", "failed"},
           job' = HIncrBy(f) \/ UNCHANGED job
    PROVE  /\ DOMAIN job \subseteq DOMAIN job' /\ DOMAIN job' \subseteq Fields
           /\ Snapshot' \in Answers /\ Below(Snapshot, Snapshot')
           /\ job' = HIncrBy(f) =>
                 Grown(IF f = "processed" THEN 1 ELSE 0, IF f = "succeeded" THEN 1 ELSE 0,
                       IF f = "failed" THEN 1 ELSE 0)
           /\ UNCHANGED job => Grown(0, 0, 0)
<1>1. UNCHANGED job => Grown(0, 0, 0)
  BY Unwritten, SnapshotShape DEF Grown
<1>2. UNCHANGED job => DOMAIN job' \subseteq Fields
  BY DEF IInv, Kept
<1>3. QED  BY <1>1, <1>2, Unwritten, Incremented

\* The first command of record: the image is counted, its outcome is to come.
LEMMA ImageCounted ==
    ASSUME IInv, pc \in {"good", "bad"}, Redis, UNCHANGED <<backend, seen, at>>,
           UNCHANGED <<ttl, errors, ettl, pushed, expired>>,
           \/ /\ Answered /\ job' = HIncrBy("processed")
              /\ pc' = IF pc = "good" THEN "good2" ELSE "bad2"
           \/ /\ Raised
              /\ job' = HIncrBy("processed") \/ UNCHANGED job
              /\ pc' = IF pc = "good" THEN "bad" ELSE "batch"
    PROVE  IInv'
<1>1. pc \in Running /\ pc' \in Running /\ at \in 1 .. Total /\ faults \in Nat /\ Total \in Nat
  BY Known DEF Running
<1>2. at' \in 1 .. Total + 1 /\ Position'
  BY <1>1 DEF Position
<1>3. /\ DOMAIN job \subseteq DOMAIN job' /\ DOMAIN job' \subseteq Fields
      /\ Snapshot' \in Answers /\ Below(Snapshot, Snapshot')
      /\ job' = HIncrBy("processed") => Grown(1, 0, 0)
      /\ UNCHANGED job => Grown(0, 0, 0)
  BY WrittenOrNot
<1>4. ~expired => Counts(Snapshot, Snapshot.succeeded + Snapshot.failed)'
  <2>1. SUFFICES ASSUME ~expired
                 PROVE  Counts(Snapshot, Snapshot.succeeded + Snapshot.failed)'
    OBVIOUS
  <2>2. Counts(Snapshot, Snapshot.succeeded + Snapshot.failed)
        /\ Snapshot.state \notin Ended
    BY <1>1, <2>1, Known
  <2>3. CASE Answered /\ job' = HIncrBy("processed")
    BY <1>1, <1>3, <2>2, <2>3, SnapshotShape DEF Counts, Grown, Answered, Raised
  <2>4. CASE Raised /\ job' = HIncrBy("processed")
    BY <1>1, <1>3, <2>2, <2>4, SnapshotShape DEF Counts, Grown, Answered, Raised
  <2>5. CASE Raised /\ UNCHANGED job
    BY <1>1, <1>3, <2>2, <2>5, SnapshotShape DEF Counts, Grown, Answered, Raised
  <2>6. QED  BY <2>3, <2>4, <2>5
<1>5. QED  BY <1>1, <1>2, <1>3, <1>4, RecordStep

\* The second command of record: the outcome of the image that was counted.
LEMMA OutcomeCounted ==
    ASSUME IInv, UNCHANGED <<backend, seen>>,
           UNCHANGED <<ttl, errors, ettl, pushed, expired>>,
           NEW f \in {"succeeded", "failed"},
           pc = IF f = "succeeded" THEN "good2" ELSE "bad2",
           \/ /\ Answered /\ job' = HIncrBy(f)
              /\ IF f = "succeeded" THEN NextImage ELSE Go("bad3")
           \/ /\ Raised
              /\ job' = HIncrBy(f) \/ UNCHANGED job
              /\ Go(IF f = "succeeded" THEN "bad" ELSE "batch")
    PROVE  IInv'
<1>1. pc \in Running /\ at \in 1 .. Total /\ faults \in Nat /\ Total \in Nat /\ Redis
  BY Known DEF Running, IInv, Kept
<1>2. /\ pc' \in Running /\ at' \in 1 .. Total + 1 /\ Position'
      /\ (Answered /\ f = "succeeded") => Onward
  <2>1. CASE Answered /\ f = "succeeded"
    <3>1. Onward
      BY <1>1, <2>1, NextImageIsOnward DEF Answered, Raised
    <3>2. QED  BY <1>1, <3>1, OnwardPlace
  <2>2. CASE ~ (Answered /\ f = "succeeded")
    BY <1>1, <2>2 DEF Go, Running, Position
  <2>3. QED  BY <2>1, <2>2
<1>3. /\ DOMAIN job \subseteq DOMAIN job' /\ DOMAIN job' \subseteq Fields
      /\ Snapshot' \in Answers /\ Below(Snapshot, Snapshot')
      /\ job' = HIncrBy(f) => Grown(0, IF f = "succeeded" THEN 1 ELSE 0,
                                       IF f = "failed" THEN 1 ELSE 0)
      /\ UNCHANGED job => Grown(0, 0, 0)
  BY WrittenOrNot
<1>4. ~expired => Counts(Snapshot, Snapshot.succeeded + Snapshot.failed)'
  <2>1. SUFFICES ASSUME ~expired
                 PROVE  Counts(Snapshot, Snapshot.succeeded + Snapshot.failed)'
    OBVIOUS
  <2>2. Counts(Snapshot, Snapshot.succeeded + Snapshot.failed)
        /\ Snapshot.state \notin Ended
    BY <1>1, <2>1, Known
  <2>3. CASE Answered /\ f = "succeeded"
    <3>1. Onward /\ Grown(0, 1, 0) /\ faults' = faults + 0 /\ pc = "good2"
      BY <1>1, <1>2, <1>3, <2>3 DEF Answered, Raised
    <3>2. pc \in Running \ {"start", "fail", "finish"}
      BY <3>1 DEF Running
    <3>3. QED  BY <2>1, <3>1, <3>2, OnwardCounts
  <2>4. CASE Answered /\ f = "failed"
    <3>1. Grown(0, 0, 1) /\ pc = "bad2" /\ pc' = "bad3" /\ at' = at /\ faults' = faults
      BY <1>1, <1>3, <2>4 DEF Answered, Raised, Go
    <3>2. QED  BY <1>1, <2>2, <3>1, SnapshotShape DEF Counts, Grown
  <2>5. CASE Raised
    <3>1. /\ at' = at /\ faults' = faults + 1
          /\ \/ pc = "good2" /\ pc' = "bad"
             \/ pc = "bad2" /\ pc' = "batch"
          /\ Grown(0, 1, 0) \/ Grown(0, 0, 1) \/ Grown(0, 0, 0)
      BY <1>1, <1>3, <2>5 DEF Answered, Raised, Go
    <3>2. CASE Grown(0, 0, 0)
      BY <1>1, <2>2, <3>1, <3>2, SnapshotShape DEF Counts, Grown
    <3>3. CASE Grown(0, 1, 0)
      BY <1>1, <2>2, <3>1, <3>3, SnapshotShape DEF Counts, Grown
    <3>4. CASE Grown(0, 0, 1)
      BY <1>1, <2>2, <3>1, <3>4, SnapshotShape DEF Counts, Grown
    <3>5. QED  BY <3>1, <3>2, <3>3, <3>4
  <2>6. QED  BY <2>3, <2>4, <2>5
<1>5. QED  BY <1>1, <1>2, <1>3, <1>4, RecordStep

LEMMA RecordSuccessInv == ASSUME IInv, RecordSuccess, UNCHANGED <<backend, seen>> PROVE IInv'
<1>1. CASE pc = "good" /\ Redis /\ Write(HIncrBy("processed"), Go("good2"), Go("bad"))
  <2>1. /\ UNCHANGED <<ttl, errors, ettl, pushed, expired, at>>
        /\ \/ Answered /\ job' = HIncrBy("processed") /\ pc' = "good2"
           \/ /\ Raised /\ pc' = "bad"
              /\ job' = HIncrBy("processed") \/ UNCHANGED job
    BY <1>1 DEF Write, Call, Go, Answered, Raised
  <2>2. QED  BY <1>1, <2>1, ImageCounted
<1>2. CASE pc = "good2" /\ Write(HIncrBy("succeeded"), NextImage, Go("bad"))
  <2>1. /\ UNCHANGED <<ttl, errors, ettl, pushed, expired>>
        /\ \/ Answered /\ job' = HIncrBy("succeeded") /\ NextImage
           \/ /\ Raised /\ Go("bad")
              /\ job' = HIncrBy("succeeded") \/ UNCHANGED job
    BY <1>2 DEF Write, Call, Answered, Raised
  <2>2. QED  BY <1>2, <2>1, OutcomeCounted
<1>3. CASE /\ pc = "good" /\ ~Redis
           /\ Write(HSet([processed |-> job.processed + 1,
                          succeeded |-> job.succeeded + 1]), NextImage, Go("bad"))
  <2> DEFINE new == [processed |-> job.processed + 1, succeeded |-> job.succeeded + 1]
  <2>1. /\ UNCHANGED <<ttl, errors, ettl, pushed, expired>>
        /\ Answered /\ job' = HSet(new) /\ NextImage
    BY <1>3 DEF Write, Call, Answered, Raised
  <2>2. pc \in Running \ {"start", "fail", "finish"} /\ at \in 1 .. Total /\ pc = "good"
    BY <1>3, Known DEF Running
  <2>3. Onward
    BY <2>1, <2>2, NextImageIsOnward
  <2>4. /\ DOMAIN job \subseteq DOMAIN job' /\ DOMAIN job' \subseteq Fields
        /\ Grown(1, 1, 0)
        /\ Snapshot' \in Answers /\ Below(Snapshot, Snapshot')
    <3>1. DOMAIN new \subseteq Fields /\ "failed" \notin DOMAIN new
      BY DEF Fields
    <3>2. QED  BY <1>3, <2>1, <2>2, <3>1, BothIncremented
  <2>5. ~expired => Counts(Snapshot, Snapshot.succeeded + Snapshot.failed)'
    <3>1. faults' = faults + 0
      BY <2>1, <2>2, Known DEF Answered
    <3>2. QED  BY <2>2, <2>3, <2>4, <3>1, OnwardCounts
  <2>6. QED  BY <2>1, <2>2, <2>3, <2>4, <2>5, OnwardPlace, RecordStep
<1>4. QED  BY <1>1, <1>2, <1>3 DEF RecordSuccess

LEMMA RecordFailureInv == ASSUME IInv, RecordFailure, UNCHANGED <<backend, seen>> PROVE IInv'
<1>1. CASE pc = "bad" /\ Redis /\ Write(HIncrBy("processed"), Go("bad2"), Go("batch"))
  <2>1. /\ UNCHANGED <<ttl, errors, ettl, pushed, expired, at>>
        /\ \/ Answered /\ job' = HIncrBy("processed") /\ pc' = "bad2"
           \/ /\ Raised /\ pc' = "batch"
              /\ job' = HIncrBy("processed") \/ UNCHANGED job
    BY <1>1 DEF Write, Call, Go, Answered, Raised
  <2>2. QED  BY <1>1, <2>1, ImageCounted
<1>2. CASE pc = "bad2" /\ Write(HIncrBy("failed"), Go("bad3"), Go("batch"))
  <2>1. /\ UNCHANGED <<ttl, errors, ettl, pushed, expired>>
        /\ \/ Answered /\ job' = HIncrBy("failed") /\ Go("bad3")
           \/ /\ Raised /\ Go("batch")
              /\ job' = HIncrBy("failed") \/ UNCHANGED job
    BY <1>2 DEF Write, Call, Answered, Raised
  <2>2. QED  BY <1>2, <2>1, OutcomeCounted
<1>3. CASE pc = "bad3" /\ AddError(at, NextImage \/ Go("batch"), Go("batch"))
  <2>1. pc \in Running \ {"start", "fail", "finish"} /\ at \in 1 .. Total /\ at \in 0 .. Total
    BY <1>3, Known DEF Running
  <2>2. /\ UNCHANGED <<job, ttl, expired>>
        /\ Push(at) \/ UNCHANGED <<errors, ettl, pushed>>
        /\ NextImage \/ Go("batch")
        /\ Answered \/ Raised
    BY <1>3 DEF AddError, Call, Answered, Raised
  <2>3. Onward
    BY <2>1, <2>2, NextImageIsOnward DEF Go, Onward
  <2>4. ~expired => Counts(Snapshot, Snapshot.succeeded + Snapshot.failed)'
    <3>1. Grown(0, 0, 0) /\ faults \in Nat
      BY <2>1, <2>2, WrittenOrNot, Known
    <3>2. PICK d \in {0, 1} : faults' = faults + d
      BY <2>2, <3>1 DEF Answered, Raised
    <3>3. QED  BY <1>3, <2>1, <2>3, <3>1, <3>2, OnwardCounts
  <2>5. QED  BY <2>1, <2>2, <2>3, <2>4, OnwardPlace, MessageStep
<1>4. CASE /\ pc = "bad" /\ ~Redis
           /\ job' = HSet([processed |-> job.processed + 1, failed |-> job.failed + 1])
           /\ Push(at)
           /\ NextImage \/ Go("batch")
           /\ UNCHANGED <<ttl, expired, faults>>
  <2> DEFINE new == [processed |-> job.processed + 1, failed |-> job.failed + 1]
  <2>1. pc \in Running \ {"start", "fail", "finish"} /\ at \in 1 .. Total /\ at \in 0 .. Total
        /\ faults \in Nat /\ faults \in 0 .. MaxFaults
    BY <1>4, Known DEF Running, IInv, TypeOK
  <2>2. Onward
    BY <1>4, <2>1, NextImageIsOnward DEF Go, Onward
  <2>3. /\ DOMAIN job \subseteq DOMAIN job' /\ DOMAIN job' \subseteq Fields
        /\ Grown(1, 0, 1)
        /\ Snapshot' \in Answers /\ Below(Snapshot, Snapshot')
    <3>1. DOMAIN new \subseteq Fields /\ "failed" \in DOMAIN new /\ job' = HSet(new)
      BY <1>4 DEF Fields
    <3>2. QED  BY <1>4, <2>1, <3>1, BothIncremented
  <2>4. ~expired => Counts(Snapshot, Snapshot.succeeded + Snapshot.failed)'
    <3>1. faults' = faults + 0
      BY <1>4, <2>1
    <3>2. QED  BY <1>4, <2>1, <2>2, <2>3, <3>1, OnwardCounts
  <2>5. /\ Listing' /\ errors' \in Seq(0 .. Total) /\ Len(errors') <= ErrorCap
        /\ ettl' \in 0 .. Ttl /\ (~Redis => ettl' = 0)
    BY <1>4, <2>1, MessageAdded
  <2>6. /\ pc' \in Running /\ pc' \notin {"good2", "bad2", "bad3"}
        /\ at' \in 1 .. Total + 1 /\ Position'
    BY <2>1, <2>2, OnwardPlace
  <2>7. QED  BY <1>4, <2>1, <2>3, <2>4, <2>5, <2>6, RunningStep
<1>5. QED  BY <1>1, <1>2, <1>3, <1>4 DEF RecordFailure

LEMMA BatchFailedInv == ASSUME IInv, BatchFailed, UNCHANGED <<backend, seen>> PROVE IInv'
<1>1. /\ pc = "batch" /\ pc \in Running \ {"start", "fail", "finish"}
      /\ at \in 1 .. Total /\ 0 \in 0 .. Total
  BY Known DEF BatchFailed, Running
<1> SUFFICES ASSUME AddError(0, EndBatch, Go("died")) PROVE IInv'
  BY <1>1, GivenUp DEF BatchFailed
<1>2. /\ UNCHANGED <<job, ttl, expired>>
      /\ Push(0) \/ UNCHANGED <<errors, ettl, pushed>>
      /\ \/ Answered /\ EndBatch
         \/ Raised /\ Go("died")
  BY DEF AddError, Call, Answered, Raised
<1>3. Grown(0, 0, 0) /\ faults \in Nat
  BY <1>1, <1>2, WrittenOrNot, Known
<1>4. CASE Answered /\ EndBatch
  <2>1. Onward
    BY <1>1, <1>4, EndBatchIsOnward
  <2>2. ~expired => Counts(Snapshot, Snapshot.succeeded + Snapshot.failed)'
    <3>1. faults' = faults + 0
      BY <1>3, <1>4 DEF Answered
    <3>2. QED  BY <1>1, <1>3, <2>1, <3>1, OnwardCounts
  <2>3. QED  BY <1>1, <1>2, <1>4, <2>1, <2>2, OnwardPlace, MessageStep
<1>5. CASE Raised /\ Go("died")
  <2>1. pc' = "died" /\ at' = at /\ faults' = faults + 1 /\ Redis
    BY <1>5 DEF Go, Raised
  <2>2. at' \in 1 .. Total + 1 /\ Position'
    BY <1>1, <2>1, Known DEF Position
  <2>3. ~expired => Counts(Snapshot, Snapshot.succeeded + Snapshot.failed)'
    BY <1>1, <1>3, <2>1, Known, SnapshotShape DEF Counts, Grown
  <2>4. QED  BY <1>1, <1>2, <1>5, <2>1, <2>2, <2>3, MessageStep
<1>6. QED  BY <1>2, <1>4, <1>5

-----------------------------------------------------------------------------
(***************************************************************************)
(* Steps before and after the import                                       *)
(***************************************************************************)

\* Before the import, its list is empty and the client has not been told anything.
LEMMA BeforeImport ==
    ASSUME IInv, pc \in {"create", "expire"},
           pc' \in {"expire", "start", "refused"}, pc' # "start" => Redis,
           UNCHANGED <<backend, at, errors, ettl, pushed, expired, seen>>,
           ttl' \in 0 .. Ttl, ~Redis => ttl' = 0,
           pc' = "expire" => ttl' = 0, pc' = "start" => (Redis => ttl' > 0),
           Answered \/ Raised,
           \/ job' = NewJob
           \/ job' = <<>> /\ pc' = "refused"
           \/ UNCHANGED job /\ pc = "expire"
    PROVE  IInv'
<1>1. /\ at = 1 /\ ~expired /\ errors = <<>> /\ pushed = <<>> /\ seen \in {Unknown, None}
      /\ faults \in Nat /\ Total \in Nat
  BY JobStoreAssumption DEF IInv, TypeOK, Kept, Position, Listing
<1>2. \/ DOMAIN job' = Fields
      \/ job' = <<>> /\ pc' = "refused"
  <2>1. pc = "expire" => DOMAIN job = Fields
    BY <1>1, EmptyRecord DEF IInv, Kept
  <2>2. job' = NewJob => DOMAIN job' = Fields
    BY NewJobIsNew
  <2>3. QED  BY <2>1, <2>2, EmptyRecord
<1>3. Snapshot' \in Answers /\ Counts(Snapshot, Snapshot.succeeded + Snapshot.failed)'
  <2>1. CASE job' = NewJob \/ job' = <<>>
    <3>1. Snapshot' = NewJob
      BY <2>1, NewJobIsNew, EmptyRecord DEF Snapshot, Over
    <3>2. NewJob.state = "pending" /\ NewJob \in Answers
          /\ \A f \in Counters : NewJob[f] = 0
      BY NewJobIsNew, AnswerFields DEF Fields, Counters
    <3>3. faults' \in Nat
      BY <1>1 DEF Answered, Raised
    <3>4. QED  BY <1>1, <3>1, <3>2, <3>3 DEF Counts, Counters, Ended
  <2>2. CASE UNCHANGED job /\ pc = "expire"
    <3>1. Snapshot' = Snapshot /\ Snapshot' \in Answers
      BY <2>2, Unwritten
    <3>2. faults' \in Nat /\ faults <= faults'
      BY <1>1 DEF Answered, Raised
    <3>3. Counts(Snapshot, Snapshot.succeeded + Snapshot.failed)
      BY <1>1 DEF IInv, Counting
    <3>4. /\ Snapshot.state \notin Ended /\ Snapshot.total \in {0, Total}
          /\ Snapshot.succeeded + Snapshot.failed <= Snapshot.processed
          /\ Snapshot.processed <= Snapshot.succeeded + Snapshot.failed + faults
          /\ Snapshot.processed <= at - 1 + faults /\ Snapshot.processed <= Total + faults
      BY <1>1, <2>2, <3>3, SnapshotShape DEF Counts
    <3>5. PICK P \in Nat, Out \in Nat :
             P = Snapshot.processed /\ Out = Snapshot.succeeded + Snapshot.failed
      BY SnapshotShape
    <3>6. /\ Out <= P /\ P <= Out + faults' /\ P <= 1 - 1 + faults'
          /\ P <= 1 + faults' /\ P <= Total + faults'
      BY <1>1, <3>2, <3>4, <3>5
    <3>7. at' = 1 /\ pc' \notin {"good2", "bad2", "crashed"}
      BY <1>1
    <3>8. QED  BY <3>1, <3>2, <3>4, <3>5, <3>6, <3>7 DEF Counts
  <2>3. QED  BY <2>1, <2>2
<1>4. TypeOK'
  <2>1. faults' \in 0 .. MaxFaults
    BY JobStoreAssumption DEF IInv, TypeOK, Answered, Raised
  <2>2. pc' \in {"create", "expire", "refused", "start", "fail", "good", "good2",
                  "bad", "bad2", "bad3", "batch", "finish", "ended", "died", "crashed"}
    OBVIOUS
  <2>3. DOMAIN job' \subseteq (DOMAIN NewJob)'
    BY <1>2, NewJobIsNew, EmptyRecord
  <2>4. /\ backend \in [Workers -> {"redis", "memory"}]
        /\ seen \in Answers \cup {Unknown, None} /\ expired \in BOOLEAN
        /\ errors \in Seq(0 .. Total) /\ Len(errors) <= ErrorCap /\ ettl \in 0 .. Ttl
        /\ at \in 1 .. Total + 1
    BY DEF IInv, TypeOK
  <2>5. QED  BY <1>3, <2>1, <2>2, <2>3, <2>4 DEF TypeOK
<1>5. Kept'
  BY <1>1, <1>2, EmptyRecord DEF IInv, Kept, Running, Redis, Answered, Raised
<1>6. Position' /\ Counting' /\ Seeing'
  BY <1>1, <1>3 DEF Position, Counting, Seeing, Told
<1>7. Listing'
  <2>1. ErrorsAreTheFirst'
    <3>1. errors' = <<>> /\ pushed' = <<>> /\ Len(errors') = 0 /\ Len(pushed') = 0
      BY <1>1
    <3>2. SubSeq(errors', 1, 0) = SubSeq(pushed', 1, 0) /\ ErrorCap \in Nat \ {0}
      BY <3>1, JobStoreAssumption
    <3>3. QED  BY <3>1, <3>2 DEF ErrorsAreTheFirst, IsPrefix
  <2>2. QED  BY <1>1, <2>1 DEF IInv, Listing
<1>8. QED  BY <1>3, <1>4, <1>5, <1>6, <1>7 DEF IInv

LEMMA CreateInv == ASSUME IInv, Create, UNCHANGED <<backend, seen>> PROVE IInv'
<1>1. /\ pc = "create" /\ job = <<>> /\ ttl = 0 /\ 0 \in 0 .. Ttl
  BY JobStoreAssumption DEF Create, IInv, Kept
<1>2. /\ UNCHANGED <<ttl, errors, ettl, pushed, expired, at>>
      /\ \/ Answered /\ job' = NewJob /\ pc' = IF Redis THEN "expire" ELSE "start"
         \/ Raised /\ (job' = NewJob \/ job' = job) /\ pc' = "refused"
  BY DEF Create, Write, Call, Go, Answered, Raised
<1>3. Redis => pc' \in {"expire", "refused"}
  BY <1>2
<1>4. ~Redis => pc' = "start"
  BY <1>2 DEF Raised
<1>5. QED  BY <1>1, <1>2, <1>3, <1>4, BeforeImport

LEMMA ExpireInv == ASSUME IInv, Expire, UNCHANGED <<backend, seen>> PROVE IInv'
<1>1. pc = "expire" /\ Redis /\ ttl = 0 /\ Ttl \in Nat \ {0}
  BY JobStoreAssumption DEF Expire, IInv, Kept
<1>2. /\ UNCHANGED <<job, errors, ettl, pushed, expired, at>>
      /\ \/ Answered /\ ttl' = Ttl /\ pc' = "start"
         \/ Raised /\ ttl' \in {Ttl, ttl} /\ pc' = "refused"
  BY DEF Expire, Call, Go, Answered, Raised
<1>3. ttl' \in 0 .. Ttl /\ (pc' = "start" => ttl' > 0)
  BY <1>1, <1>2
<1>4. QED  BY <1>1, <1>2, <1>3, BeforeImport

-----------------------------------------------------------------------------
(***************************************************************************)
(* The worker dies, the client asks, time passes                           *)
(***************************************************************************)

\* Nothing but the task and the client's answer changes.
LEMMA SameRecord ==
    ASSUME IInv, UNCHANGED <<backend, keys, faults>>
    PROVE  /\ Snapshot' = Snapshot /\ Snapshot' \in Answers
           /\ Listing' /\ DOMAIN job' \subseteq (DOMAIN NewJob)'
<1>1. Snapshot' = Snapshot /\ Snapshot' \in Answers
  BY Unwritten DEF keys
<1>2. Listing'
  BY DEF keys, IInv, Listing, ErrorsAreTheFirst, Redis
<1>3. DOMAIN job' \subseteq (DOMAIN NewJob)'
  BY DEF keys, IInv, TypeOK, NewJob
<1>4. QED  BY <1>1, <1>2, <1>3

\* No record reads as a new one.
LEMMA LostRecord ==
    ASSUME job' = <<>>
    PROVE  /\ Snapshot' \in Answers /\ Snapshot'.state = "pending"
           /\ Snapshot'.total = 0 /\ Snapshot'.processed = 0
           /\ Snapshot'.succeeded = 0 /\ Snapshot'.failed = 0
           /\ DOMAIN job' \subseteq (DOMAIN NewJob)' /\ DOMAIN job' = {}
<1>1. Snapshot' = NewJob /\ DOMAIN job' = {}
  BY NewJobIsNew, EmptyRecord DEF Snapshot, Over
<1>2. NewJob.state = "pending" /\ NewJob \in Answers
      /\ \A f \in Counters : NewJob[f] = 0
  BY NewJobIsNew, AnswerFields DEF Fields, Counters
<1>3. QED  BY <1>1, <1>2 DEF Counters

LEMMA CrashInv == ASSUME IInv, Crash PROVE IInv'
<1>1. /\ pc' = "crashed" /\ UNCHANGED <<backend, ttl, ettl, pushed, expired, at, seen, faults>>
      /\ IF Redis THEN UNCHANGED <<job, errors>> ELSE job' = <<>> /\ errors' = <<>>
  BY DEF Crash
<1>2. /\ at \in Nat /\ Total \in Nat /\ faults \in Nat
      /\ at \in 1 .. Total + 1 /\ faults \in 0 .. MaxFaults
      /\ ttl \in 0 .. Ttl /\ ettl \in 0 .. Ttl /\ expired \in BOOLEAN
      /\ backend \in [Workers -> {"redis", "memory"}]
      /\ seen \in Answers \cup {Unknown, None}
      /\ errors \in Seq(0 .. Total) /\ Len(errors) <= ErrorCap /\ ErrorCap \in Nat
  BY JobStoreAssumption DEF IInv, TypeOK
<1>3. errors' \in Seq(0 .. Total) /\ Len(errors') <= ErrorCap
  <2>1. errors' = errors \/ errors' = <<>>
    BY <1>1
  <2>2. <<>> \in Seq(0 .. Total) /\ Len(<<>>) <= ErrorCap
    BY <1>2
  <2>3. QED  BY <1>2, <2>1, <2>2
<1>4. CASE Redis
  <2>1. UNCHANGED <<backend, keys, faults>> /\ UNCHANGED <<at, seen>>
    BY <1>1, <1>4 DEF keys
  <2>2. Snapshot' = Snapshot /\ Snapshot' \in Answers
        /\ Listing' /\ DOMAIN job' \subseteq (DOMAIN NewJob)'
    BY <2>1, SameRecord
  <2>3. TypeOK'
    BY <1>1, <1>2, <1>3, <2>2 DEF TypeOK
  <2>4. Kept' /\ Position' /\ Seeing'
    BY <1>1, <1>4 DEF IInv, Kept, Position, Seeing, Running, Redis
  <2>5. Counting'
    <3>1. SUFFICES ASSUME ~expired
                   PROVE  Counts(Snapshot, Snapshot.succeeded + Snapshot.failed)'
      BY <1>1 DEF Counting
    <3>2. Counts(Snapshot, Snapshot.succeeded + Snapshot.failed)
      BY <3>1 DEF IInv, Counting
    <3>3. PICK P \in Nat, Out \in Nat :
             P = Snapshot.processed /\ Out = Snapshot.succeeded + Snapshot.failed
      BY SnapshotShape
    <3>4. /\ Snapshot.total \in {0, Total} /\ Out <= P /\ P <= at + faults
          /\ P <= Total + faults /\ P <= Out + faults + 1
      <4>1. Out <= P /\ P <= at + faults /\ P <= Total + faults /\ Snapshot.total \in {0, Total}
        BY <3>2, <3>3 DEF Counts
      <4>2. P <= Out + faults + (IF pc \in {"good2", "bad2", "crashed"} THEN 1 ELSE 0)
        BY <3>2, <3>3 DEF Counts
      <4>3. P <= Out + faults + 1
        BY <1>2, <3>3, <4>2
      <4>4. QED  BY <4>1, <4>3
    <3>5. QED  BY <1>1, <2>2, <3>3, <3>4 DEF Counts
  <2>6. QED  BY <2>2, <2>3, <2>4, <2>5 DEF IInv
<1>5. CASE ~Redis
  <2>1. job' = <<>> /\ errors' = <<>>
    BY <1>1, <1>5
  <2>2. /\ Snapshot' \in Answers /\ Snapshot'.state = "pending"
        /\ Snapshot'.total = 0 /\ Snapshot'.processed = 0
        /\ Snapshot'.succeeded = 0 /\ Snapshot'.failed = 0
        /\ DOMAIN job' \subseteq (DOMAIN NewJob)' /\ DOMAIN job' = {}
    BY <2>1, LostRecord
  <2>3. TypeOK'
    BY <1>1, <1>2, <1>3, <2>2 DEF TypeOK
  <2>4. Kept' /\ Position' /\ Seeing'
    BY <1>1, <1>5, <2>1, <2>2 DEF IInv, Kept, Position, Seeing, Running, Redis
  <2>5. Counting'
    BY <1>1, <1>2, <2>2 DEF Counting, Counts, Ended
  <2>6. Listing'
    BY <1>1, <1>5, <2>1 DEF IInv, Listing, ErrorsAreTheFirst, Redis
  <2>7. QED  BY <2>3, <2>4, <2>5, <2>6 DEF IInv
<1>6. QED  BY <1>4, <1>5

LEMMA PollInv == ASSUME IInv, NEW w \in Workers, Poll(w) PROVE IInv'
<1>1. /\ UNCHANGED <<backend, keys, at, pc, faults>>
      /\ pc \notin {"create", "expire", "refused"}
      /\ seen' = IF Shares(w) /\ job # <<>> THEN Snapshot ELSE Unknown
  BY DEF Poll
<1>2. /\ Snapshot' = Snapshot /\ Snapshot' \in Answers
      /\ Listing' /\ DOMAIN job' \subseteq (DOMAIN NewJob)'
  BY <1>1, SameRecord
<1>3. seen' \in Answers \cup {Unknown, None} /\ (Told(seen') => seen' = Snapshot /\ job # <<>>)
  BY <1>1, <1>2 DEF Told
<1>4. TypeOK'
  BY <1>1, <1>2, <1>3 DEF IInv, TypeOK, keys
<1>5. Kept' /\ Position' /\ Counting'
  BY <1>1, <1>2 DEF IInv, Kept, Position, Counting, Counts, keys, Redis
<1>6. Seeing'
  <2>1. Below(Snapshot, Snapshot')
    BY <1>1, Unwritten DEF keys
  <2>2. QED  BY <1>1, <1>2, <1>3, <2>1 DEF Seeing, keys
<1>7. QED  BY <1>2, <1>4, <1>5, <1>6 DEF IInv

\* Time alone does not change what the record and its list hold, unless the
\* record expires.
LEMMA TickKeeps == ASSUME IInv, Tick, ~expired' PROVE UNCHANGED <<job, errors>>
<1>1. /\ ttl \in 0 .. Ttl /\ ettl \in 0 .. Ttl /\ Ttl \in Nat \ {0}
      /\ (Redis /\ ~expired /\ pushed # <<>> => ttl > 0 /\ ettl >= ttl)
      /\ (pushed = <<>> => errors = <<>>)
  BY JobStoreAssumption DEF IInv, TypeOK, Listing
<1>2. ttl # 1 /\ ~expired /\ UNCHANGED job
  BY DEF Tick
<1>3. Redis
  BY <1>1 DEF IInv, Kept, Tick
<1>4. CASE pushed = <<>>
  BY <1>1, <1>2, <1>4 DEF Tick
<1>5. CASE pushed # <<>>
  <2>1. ettl # 1
    BY <1>1, <1>2, <1>3, <1>5
  <2>2. QED  BY <1>2, <2>1 DEF Tick
<1>6. QED  BY <1>4, <1>5

LEMMA TickInv == ASSUME IInv, Tick PROVE IInv'
<1>1. /\ UNCHANGED <<backend, pushed, at, pc, seen, faults>> /\ (ttl > 0 \/ ettl > 0)
      /\ IF ttl = 1 THEN job' = <<>> /\ ttl' = 0 /\ expired' = TRUE
                    ELSE ttl' = (IF ttl = 0 THEN 0 ELSE ttl - 1) /\ UNCHANGED <<job, expired>>
      /\ IF ettl = 1 THEN errors' = <<>> /\ ettl' = 0
                     ELSE ettl' = (IF ettl = 0 THEN 0 ELSE ettl - 1) /\ UNCHANGED errors
  BY DEF Tick
<1>2. /\ ttl \in 0 .. Ttl /\ ettl \in 0 .. Ttl /\ Ttl \in Nat \ {0} /\ expired \in BOOLEAN
      /\ errors \in Seq(0 .. Total) /\ Len(errors) <= ErrorCap /\ ErrorCap \in Nat
  BY JobStoreAssumption DEF IInv, TypeOK
<1>3. Redis
  BY <1>1, <1>2 DEF IInv, Kept
<1>4. ttl' \in 0 .. Ttl /\ ettl' \in 0 .. Ttl /\ expired' \in BOOLEAN
      /\ (ttl > 1 => ttl' > 0) /\ (ttl = 0 => ttl' = 0)
  <2>1. ttl' \in 0 .. Ttl /\ (ttl > 1 => ttl' > 0) /\ (ttl = 0 => ttl' = 0)
    BY <1>1, <1>2
  <2>2. ettl' \in 0 .. Ttl
    BY <1>1, <1>2
  <2>3. expired' \in BOOLEAN
    BY <1>1, <1>2
  <2>4. QED  BY <2>1, <2>2, <2>3
<1>5. errors' \in Seq(0 .. Total) /\ Len(errors') <= ErrorCap
  <2>1. errors' = errors \/ errors' = <<>>
    BY <1>1
  <2>2. <<>> \in Seq(0 .. Total) /\ Len(<<>>) <= ErrorCap
    BY <1>2
  <2>3. QED  BY <1>2, <2>1, <2>2
<1>6. ~expired' => ttl # 1 /\ ~expired /\ UNCHANGED job /\ Snapshot' = Snapshot
  BY <1>1, Unwritten
<1>7. Snapshot' \in Answers /\ DOMAIN job' \subseteq (DOMAIN NewJob)'
      /\ DOMAIN job' \subseteq Fields
  <2>1. CASE job' = <<>>
    BY <2>1, LostRecord, NewJobIsNew
  <2>2. CASE UNCHANGED job
    BY <2>2, Unwritten DEF IInv, TypeOK, Kept, NewJob
  <2>3. QED  BY <1>1, <2>1, <2>2
<1>8. TypeOK'
  BY <1>1, <1>4, <1>5, <1>7 DEF IInv, TypeOK
<1>9. Kept'
  BY <1>1, <1>2, <1>3, <1>4, <1>6, <1>7 DEF IInv, Kept, Running, Redis
<1>10. Position' /\ Counting' /\ Seeing'
  BY <1>1, <1>6 DEF IInv, Position, Counting, Counts, Seeing
<1>11. Listing'
  <2>1. pushed = <<>> => errors' = <<>>
    BY <1>1 DEF IInv, Listing
  <2>2. ~expired' /\ pushed # <<>> => ttl' > 0 /\ ettl' >= ttl'
    BY <1>1, <1>2, <1>3, <1>6 DEF IInv, Listing
  <2>3. ~expired' => UNCHANGED errors
    BY TickKeeps
  <2>4. ErrorsAreTheFirst'
    BY <1>1, <1>6, <2>3 DEF IInv, Listing, ErrorsAreTheFirst
  <2>5. QED  BY <1>1, <2>1, <2>2, <2>4 DEF IInv, Listing
<1>12. QED  BY <1>8, <1>9, <1>10, <1>11 DEF IInv

LEMMA StutterInv == ASSUME IInv, UNCHANGED vars PROVE IInv'
<1>1. UNCHANGED <<backend, keys, at, pc, seen, faults>>
  BY DEF vars
<1>2. /\ Snapshot' = Snapshot /\ Snapshot' \in Answers
      /\ Listing' /\ DOMAIN job' \subseteq (DOMAIN NewJob)'
  BY <1>1, SameRecord
<1>3. TypeOK' /\ Kept' /\ Position' /\ Counting' /\ Seeing'
  BY <1>1, <1>2 DEF IInv, TypeOK, Kept, Position, Counting, Counts, Seeing, keys, Redis
<1>4. QED  BY <1>2, <1>3 DEF IInv

LEMMA NextInv == IInv /\ [Next]_vars => IInv'
<1>1. SUFFICES ASSUME IInv, [Next]_vars PROVE IInv'
  OBVIOUS
<1>2. CASE Import
  <2>1. UNCHANGED <<backend, seen>>
    BY <1>2 DEF Import
  <2>2. CASE Create
    BY <1>1, <2>1, <2>2, CreateInv
  <2>3. CASE Expire
    BY <1>1, <2>1, <2>3, ExpireInv
  <2>4. CASE NoRoot
    BY <1>1, <2>1, <2>4, NoRootInv
  <2>5. CASE MarkRunning
    BY <1>1, <2>1, <2>5, MarkRunningInv
  <2>6. CASE RecordSuccess
    BY <1>1, <2>1, <2>6, RecordSuccessInv
  <2>7. CASE RecordFailure
    BY <1>1, <2>1, <2>7, RecordFailureInv
  <2>8. CASE BatchFailed
    BY <1>1, <2>1, <2>8, BatchFailedInv
  <2>9. CASE MarkFinished
    BY <1>1, <2>1, <2>9, MarkFinishedInv
  <2>10. CASE Unreadable
    BY <1>1, <2>1, <2>10, UnreadableInv
  <2>11. QED
    BY <1>2, <2>2, <2>3, <2>4, <2>5, <2>6, <2>7, <2>8, <2>9, <2>10 DEF Import
<1>3. CASE Crash
  BY <1>1, <1>3, CrashInv
<1>4. CASE \E w \in Workers : Poll(w)
  BY <1>1, <1>4, PollInv
<1>5. CASE Tick
  BY <1>1, <1>5, TickInv
<1>6. CASE UNCHANGED vars
  BY <1>1, <1>6, StutterInv
<1>7. QED  BY <1>1, <1>2, <1>3, <1>4, <1>5, <1>6 DEF Next

-----------------------------------------------------------------------------
(***************************************************************************)
(* Theorems                                                                *)
(***************************************************************************)

\* The strengthened invariant of the module: where the record is, how far its
\* counters are from each other at each place of the import, that its list
\* does not expire before it, and that no client was told more than it holds.
THEOREM Invariance == Spec => []IInv
<1>1. IInv /\ [Next]_vars => IInv'
  BY NextInv
<1>2. QED  BY InitInv, <1>1, PTL DEF Spec

\* Every field of the record, of the list and of the client's answer has its
\* type, and the list never exceeds the cap, in both stores.
THEOREM TypeCorrect == Spec => []TypeOK
<1>1. IInv => TypeOK
  BY DEF IInv
<1>2. QED  BY Invariance, <1>1, PTL

\* The two commands of record, retried or not, keep the counters as close as
\* CountersAgree says, for any number of images, batches and failures.
THEOREM CountersAreClose == Spec => []CountersAgree
<1>1. IInv => CountersAgree
  <2>1. SUFFICES ASSUME IInv, ~expired
                 PROVE  LET j == Snapshot
                            outcomes == j.succeeded + j.failed
                            inHand == IF pc \in {"good2", "bad2", "crashed"} THEN 1 ELSE 0
                        IN  /\ outcomes <= j.processed
                            /\ j.processed <= outcomes + inHand + faults
                            /\ j.processed <= at + faults
                            /\ j.total # 0 => j.processed <= j.total + faults
    BY DEF CountersAgree
  <2>2. Counts(Snapshot, Snapshot.succeeded + Snapshot.failed) /\ faults \in Nat
    BY <2>1, JobStoreAssumption DEF IInv, Counting, TypeOK
  <2>3. Snapshot.succeeded + Snapshot.failed \in Nat /\ Snapshot.processed \in Nat
    BY <2>1, SnapshotShape
  <2>4. QED  BY <2>2, <2>3 DEF Counts
<1>2. QED  BY Invariance, <1>1, PTL

\* The list of errors is the first messages, all of them up to the cap, for as
\* long as the record lives.
THEOREM FirstErrorsAreKept == Spec => []ErrorsAreTheFirst
<1>1. IInv => ErrorsAreTheFirst
  BY DEF IInv, Listing
<1>2. QED  BY Invariance, <1>1, PTL

\* Once the record says that the import is over, nothing is written to it or to
\* its list.
THEOREM EndIsLast == Spec => TheEndIsTheLastWord
<1> DEFINE Stays == (Snapshot.state \in Ended /\ ~expired' /\ pc' # "crashed") =>
                       UNCHANGED <<job, errors>>
<1>1. IInv /\ [Next]_vars => [Stays]_vars
  <2>1. SUFFICES ASSUME IInv, Next, Snapshot.state \in Ended, ~expired', pc' # "crashed"
                 PROVE  UNCHANGED <<job, errors>>
    OBVIOUS
  <2>2. CASE Import
    <3>1. pc \in Running \cup {"create", "expire"}
      BY <2>2 DEF Import, Create, Expire, NoRoot, Unreadable, MarkRunning, RecordSuccess,
                  RecordFailure, BatchFailed, MarkFinished, Running
    <3>2. ~expired
      BY <2>1, <2>2 DEF Import, Create, Expire, NoRoot, Unreadable, MarkRunning,
                        RecordSuccess, RecordFailure, BatchFailed, MarkFinished, Write,
                        AddError, keys
    <3>3. Snapshot.state \notin Ended
      BY <2>1, <3>1, <3>2 DEF IInv, Counting, Counts, Running
    <3>4. QED  BY <2>1, <3>3
  <2>3. CASE Crash
    BY <2>1, <2>3 DEF Crash
  <2>4. CASE \E w \in Workers : Poll(w)
    BY <2>4 DEF Poll, keys
  <2>5. CASE Tick
    BY <2>1, <2>5, TickKeeps
  <2>6. QED  BY <2>1, <2>2, <2>3, <2>4, <2>5 DEF Next
<1>2. QED  BY Invariance, <1>1, PTL DEF Spec, TheEndIsTheLastWord

\* A client that polls any worker sees the import go forward, and is told that a
\* job it has seen is unknown only by a worker with a store of its own.
THEOREM ForwardPolls == Spec => PollsGoForward
<1> DEFINE Forward ==
        (Told(seen) /\ seen' # seen /\ ~expired' /\ pc' # "crashed") =>
         \/ seen' = Unknown /\ \E w \in Workers : ~Shares(w) /\ Poll(w)
         \/ /\ Told(seen')
            /\ Rank(seen.state) <= Rank(seen'.state)
            /\ \A f \in Counters : seen[f] <= seen'[f]
<1>1. IInv /\ [Next]_vars => [Forward]_vars
  <2>1. SUFFICES ASSUME IInv, Next, Told(seen), seen' # seen,
                        ~expired', pc' # "crashed",
                        \A w \in Workers : Poll(w) /\ seen' = Unknown => Shares(w)
                 PROVE  Told(seen') /\ Below(seen, seen')
    BY DEF Below
  <2>2. PICK w \in Workers : Poll(w)
    BY <2>1 DEF Next, Import, Crash, Tick
  <2>3. ~expired /\ pc # "crashed"
        /\ seen' = IF Shares(w) /\ job # <<>> THEN Snapshot ELSE Unknown
    BY <2>1, <2>2 DEF Poll, keys
  <2>4. job # <<>> /\ Below(seen, Snapshot)
    BY <2>1, <2>3 DEF IInv, Seeing
  <2>5. Told(Snapshot)
    BY <2>1, AnswersAssumption DEF IInv, TypeOK, Told
  <2>6. Shares(w)
    BY <2>1, <2>2, <2>3
  <2>7. QED  BY <2>3, <2>4, <2>5, <2>6
<1>2. QED  BY Invariance, <1>1, PTL DEF Spec, PollsGoForward
=============================================================================
