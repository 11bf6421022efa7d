-------------------------- MODULE BulkImportProofs --------------------------
(***************************************************************************)
(* Proofs about BulkImport, for any list of images, any directories and    *)
(* any batch size, with or without a database that fails.                  *)
(*                                                                         *)
(* The argument: the session holds exactly the images of the batch that    *)
(* are behind the present one, what is committed lies in earlier batches,  *)
(* and an id says which directory it was made for, so that a stale cached  *)
(* id can only name a person that is gone, never one of another directory. *)
(***************************************************************************)
EXTENDS BulkImport, FiniteSetTheorems, TLAPS

\* Where a batch is open.
Before == {"image", "resolve", "add", "reject"}
Active == Before \cup {"commit", "rollback"}

\* The directory an id was made for.
NameOf(p) == IF p \in Names THEN p ELSE Pairs[p]

Shape == session = [people |-> session.people, faces |-> session.faces,
                    audit |-> session.audit]

Place ==
    /\ pc \in Active => at \in Images
    /\ pc = "commit" => at = LastOf(at)
    /\ pc = "start" => at = 1

\* The images whose outcome the session holds.
Handled == DOMAIN session.faces \cup session.audit

Open ==
    /\ pc \notin Active =>
          session.people = {} /\ DOMAIN session.faces = {} /\ session.audit = {}
    /\ pc \in Active => \A i \in Handled : BatchOf(i) = BatchOf(at) /\ i <= at
    /\ pc \in Before => \A i \in Images :
          BatchOf(i) = BatchOf(at) /\ i < at => i \in Handled
    /\ pc = "commit" => \A i \in Images : BatchOf(i) = BatchOf(at) => i \in Handled

\* What is committed lies in earlier batches, and those are whole.
Landing ==
    /\ \A i \in landed \cup audit :
          i < at /\ (pc \in Active => BatchOf(i) # BatchOf(at))
    /\ BatchesAreAtomic

\* Persons, faces and cached ids belong to the directory they were made for.
Filing ==
    /\ \A p \in DOMAIN people : people[p] = NameOf(p)
    /\ \A p, q \in DOMAIN people \cup session.people : NameOf(p) = NameOf(q) => p = q
    /\ \A i \in DOMAIN faces : faces[i] \in DOMAIN people /\ NameOf(faces[i]) = Pairs[i]
    /\ \A i \in DOMAIN session.faces :
          /\ session.faces[i] \in DOMAIN people \cup session.people
          /\ NameOf(session.faces[i]) = Pairs[i]
    /\ \A n \in Names : cache[n] # None => NameOf(cache[n]) = n
    /\ \A p \in session.people : cache[NameOf(p)] # None
    /\ pc = "add" => cache[Pairs[at]] # None

\* The counters are ahead of what is committed and of what the session holds.
Progress ==
    /\ job.processed = job.succeeded + job.failed /\ job.processed <= job.total
    /\ Cardinality(landed) + Cardinality(DOMAIN session.faces) <= job.succeeded
    /\ Cardinality(audit) + Cardinality(session.audit) <= job.failed
    /\ pc = "start" => job.total = 0
    /\ pc \in Active => job.total = Len(Pairs) /\ job.processed <= at
    /\ pc \in Before => job.processed <= at - 1

IInv == TypeOK /\ Shape /\ Place /\ Open /\ Landing /\ Filing /\ Progress

-----------------------------------------------------------------------------
(***************************************************************************)
(* Batches                                                                 *)
(***************************************************************************)

\* Division, as the batches use it.
LEMMA Quotient ==
    ASSUME NEW x \in Nat, NEW b \in Nat \ {0}
    PROVE  x \div b \in Nat /\ (x \div b) * b <= x /\ x < (x \div b + 1) * b
OBVIOUS

LEMMA QuotientGrows ==
    ASSUME NEW x \in Nat, NEW y \in Nat, NEW b \in Nat \ {0}, x <= y
    PROVE  x \div b <= y \div b
<1>1. \A k, l \in Nat : k >= l + 1 => k * b >= (l + 1) * b
  <2>1. \A d, l \in Nat : (l + 1 + d) * b >= (l + 1) * b
    OBVIOUS
  <2>2. QED  BY <2>1
<1>2. QED  BY <1>1, Quotient

LEMMA SameQuotient ==
    ASSUME NEW x \in Nat, NEW y \in Nat, NEW b \in Nat \ {0},
           x <= y, y < (x \div b + 1) * b
    PROVE  y \div b = x \div b
<1>1. PICK k \in Nat, l \in Nat : k = x \div b /\ l = y \div b /\ k <= l /\ l * b <= y
  BY Quotient, QuotientGrows
<1>2. l * b < (k + 1) * b
  <2>1. y < (k + 1) * b /\ l * b \in Nat /\ (k + 1) * b \in Nat
    BY <1>1
  <2>2. QED  BY <1>1, <2>1
<1>3. l < k + 1
  BY <1>2
<1>4. QED  BY <1>1, <1>3

LEMMA ExactQuotient ==
    ASSUME NEW k \in Nat, NEW b \in Nat \ {0}
    PROVE  (k * b) \div b = k
<1>1. PICK l \in Nat : l = (k * b) \div b /\ l * b <= k * b /\ k * b < (l + 1) * b
  BY Quotient
<1>2. l <= k
  BY <1>1
<1>3. k < l + 1
  BY <1>1
<1>4. QED  BY <1>1, <1>2, <1>3

LEMMA Batches ==
    /\ \A i \in Images : LastOf(i) \in Images /\ i <= LastOf(i)
    /\ \A i \in Images : BatchOf(LastOf(i)) = BatchOf(i)
    /\ \A i, j \in Images : BatchOf(i) = BatchOf(j) => LastOf(i) = LastOf(j)
    /\ \A i, j \in Images : i <= j => BatchOf(i) <= BatchOf(j)
    /\ \A i \in Images : BatchOf(i) \in Nat
    /\ \A i \in Images : LastOf(i) < Len(Pairs) =>
          LastOf(i) + 1 \in Images /\ BatchOf(LastOf(i) + 1) = BatchOf(i) + 1
<1>1. Len(Pairs) \in Nat /\ BatchSize \in Nat \ {0}
  BY ImportAssumption
<1>2. \A i \in Images : i \in Nat /\ i - 1 \in Nat /\ i <= Len(Pairs) /\ BatchOf(i) \in Nat
  BY <1>1, Quotient DEF Images, BatchOf
<1>3. \A i, j \in Images : i <= j => BatchOf(i) <= BatchOf(j)
  BY <1>1, <1>2, QuotientGrows DEF BatchOf
<1>4. ASSUME NEW i \in Images
      PROVE  /\ LastOf(i) \in Images /\ i <= LastOf(i)
             /\ BatchOf(LastOf(i)) = BatchOf(i)
             /\ LastOf(i) < Len(Pairs) =>
                   LastOf(i) + 1 \in Images /\ BatchOf(LastOf(i) + 1) = BatchOf(i) + 1
  <2>1. PICK q \in Nat : q = BatchOf(i) /\ q * BatchSize <= i - 1 /\ i - 1 < (q + 1) * BatchSize
    BY <1>1, <1>2, Quotient DEF BatchOf
  <2>2. PICK e \in Nat : e = (q + 1) * BatchSize /\ i <= e
    BY <1>1, <1>2, <2>1
  <2>3. LastOf(i) = IF e < Len(Pairs) THEN e ELSE Len(Pairs)
    BY <2>1, <2>2 DEF LastOf
  <2>4. LastOf(i) \in Images /\ i <= LastOf(i) /\ LastOf(i) <= e /\ LastOf(i) - 1 \in Nat
    BY <1>1, <1>2, <2>2, <2>3 DEF Images
  <2>5. BatchOf(LastOf(i)) = q
    <3>1. i - 1 \in Nat /\ LastOf(i) - 1 \in Nat /\ i - 1 <= LastOf(i) - 1
          /\ LastOf(i) - 1 < e
      BY <1>2, <2>2, <2>4 DEF Images
    <3>2. e = ((i - 1) \div BatchSize + 1) * BatchSize
      BY <2>1, <2>2 DEF BatchOf
    <3>3. QED  BY <1>1, <2>1, <3>1, <3>2, SameQuotient DEF BatchOf
  <2>6. ASSUME LastOf(i) < Len(Pairs)
        PROVE  LastOf(i) + 1 \in Images /\ BatchOf(LastOf(i) + 1) = BatchOf(i) + 1
    <3>1. LastOf(i) = e /\ e + 1 \in Images
      BY <1>1, <1>2, <2>2, <2>3, <2>4, <2>6 DEF Images
    <3>2. (e + 1) - 1 = (q + 1) * BatchSize /\ q + 1 \in Nat
      BY <1>1, <2>1, <2>2
    <3>3. BatchOf(e + 1) = q + 1
      BY <1>1, <3>2, ExactQuotient DEF BatchOf
    <3>4. QED  BY <2>1, <3>1, <3>3
  <2>7. QED  BY <2>1, <2>4, <2>5, <2>6
<1>5. ASSUME NEW i \in Images, NEW j \in Images, BatchOf(i) = BatchOf(j)
      PROVE  LastOf(i) = LastOf(j)
  BY <1>5 DEF LastOf
<1>6. QED  BY <1>2, <1>3, <1>4, <1>5

-----------------------------------------------------------------------------
(***************************************************************************)
(* Images, ids and sets of them                                            *)
(***************************************************************************)

LEMMA Ways ==
    /\ Len(Pairs) \in Nat
    /\ \A i \in Images : i \in Nat /\ 1 <= i /\ i <= Len(Pairs)
                         /\ Pairs[i] \in Names /\ NameOf(i) = Pairs[i] /\ i # None
    /\ \A p \in Names : NameOf(p) = p /\ p # None /\ p \notin Images
    /\ \A p \in Ids : NameOf(p) \in Names /\ p # None
<1>1. Len(Pairs) \in Nat /\ \A i \in Images : i \in Nat /\ 1 <= i /\ i <= Len(Pairs)
                         /\ Pairs[i] \in Names
  BY ImportAssumption DEF Images
<1>2. \A i \in Images : i \notin Names /\ i # None
  BY <1>1, ImportAssumption
<1>3. \A p \in Names : p # None
  BY ImportAssumption
<1>4. QED  BY <1>1, <1>2, <1>3 DEF NameOf, Ids

LEMMA Finite ==
    ASSUME NEW S \in SUBSET Images
    PROVE  /\ Cardinality(S) \in Nat
           /\ \A i \in Images : Cardinality(S \cup {i}) <= Cardinality(S) + 1
           /\ \A T \in SUBSET Images : Cardinality(S \cup T) <= Cardinality(S) + Cardinality(T)
<1>1. IsFiniteSet(Images)
  BY Ways, FS_Interval DEF Images
<1>2. IsFiniteSet(S) /\ Cardinality(S) \in Nat
  BY <1>1, FS_Subset, FS_CardinalityType
<1>3. ASSUME NEW i \in Images
      PROVE  Cardinality(S \cup {i}) <= Cardinality(S) + 1
  BY <1>2, FS_AddElement
<1>4. ASSUME NEW T \in SUBSET Images
      PROVE  Cardinality(S \cup T) <= Cardinality(S) + Cardinality(T)
  <2>1. IsFiniteSet(T) /\ Cardinality(T) \in Nat
    BY <1>1, FS_Subset, FS_CardinalityType
  <2>2. Cardinality(S \cup T) = Cardinality(S) + Cardinality(T) - Cardinality(S \cap T)
    BY <1>2, <2>1, FS_Union
  <2>3. IsFiniteSet(S \cap T) /\ Cardinality(S \cap T) \in Nat
    BY <1>2, FS_Subset, FS_CardinalityType
  <2>4. QED  BY <1>2, <2>1, <2>2, <2>3
<1>5. QED  BY <1>2, <1>3, <1>4

LEMMA NoRows == /\ DOMAIN <<>> = {} /\ Cardinality({}) = 0
                /\ EmptySession.people = {} /\ DOMAIN EmptySession.faces = {}
                /\ EmptySession.faces = <<>> /\ EmptySession.audit = {}
BY FS_EmptySet DEF EmptySession

\* What a state is made of.
LEMMA Known ==
    ASSUME IInv
    PROVE  /\ session.people \subseteq Images /\ DOMAIN session.faces \subseteq Images
           /\ session.audit \subseteq Images /\ landed \subseteq Images /\ audit \subseteq Images
           /\ Handled \subseteq Images
           /\ job \in Job /\ job.total \in Nat /\ job.processed \in Nat
           /\ job.succeeded \in Nat /\ job.failed \in Nat
           /\ Cardinality(landed) \in Nat /\ Cardinality(audit) \in Nat
           /\ Cardinality(DOMAIN session.faces) \in Nat /\ Cardinality(session.audit) \in Nat
           /\ DOMAIN people \subseteq Ids /\ DOMAIN faces \subseteq Images
<1>1. /\ session.people \subseteq Images /\ DOMAIN session.faces \subseteq Images
      /\ session.audit \subseteq Images /\ landed \subseteq Images /\ audit \subseteq Images
      /\ job \in Job /\ DOMAIN people \subseteq Ids /\ DOMAIN faces \subseteq Images
  BY DEF IInv, TypeOK
<1>2. /\ job.total \in Nat /\ job.processed \in Nat
      /\ job.succeeded \in Nat /\ job.failed \in Nat
  BY <1>1 DEF Job
<1>3. QED  BY <1>1, <1>2, Finite DEF Handled

LEMMA InitInv == Init => IInv
<1>1. SUFFICES ASSUME Init PROVE IInv
  OBVIOUS
<1>2. /\ faces = <<>> /\ audit = {} /\ session = EmptySession
      /\ cache = [n \in Names |-> None]
      /\ job = [state |-> "pending", total |-> 0, processed |-> 0,
                succeeded |-> 0, failed |-> 0]
      /\ at = 1 /\ pc = "start" /\ landed = {} /\ known = DOMAIN people
  BY <1>1, Zenon DEF Init
<1>3. PICK P \in SUBSET Names : people = [p \in P |-> p]
  BY <1>1 DEF Init
<1>4. Shape
  BY <1>2 DEF Shape, EmptySession
<1>5. TypeOK
  <2>1. /\ DOMAIN people \subseteq Ids /\ people \in [DOMAIN people -> Names] /\ known \subseteq Ids
    BY <1>2, <1>3 DEF Ids
  <2>2. DOMAIN faces \subseteq Images /\ faces \in [DOMAIN faces -> Ids]
        /\ session.people \subseteq Images /\ DOMAIN session.faces \subseteq Images
        /\ session.faces \in [DOMAIN session.faces -> Ids] /\ session.audit \subseteq Images
    BY <1>2, NoRows
  <2>3. job \in Job /\ cache \in [Names -> Ids \cup {None}]
    BY <1>2 DEF Job
  <2>4. at \in Images \cup {Len(Pairs) + 1}
    BY <1>2, Ways DEF Images
  <2>5. QED  BY <1>2, <2>1, <2>2, <2>3, <2>4 DEF TypeOK
<1>6. Place /\ Open /\ Landing
  BY <1>2, NoRows DEF Place, Active, Before, Open, Landing, BatchesAreAtomic, Handled
<1>7. Filing
  BY <1>2, <1>3, NoRows, Ways DEF Filing
<1>8. Progress
  BY <1>2, NoRows DEF Progress, Active, Before
<1>9. QED  BY <1>4, <1>5, <1>6, <1>7, <1>8 DEF IInv

-----------------------------------------------------------------------------
(***************************************************************************)
(* Steps within a batch                                                    *)
(***************************************************************************)

\* The next image of the batch, or the commit.
LEMMA AdvanceStays ==
    ASSUME at \in Images, Advance
    PROVE  /\ at' \in Images /\ at <= at' /\ BatchOf(at') = BatchOf(at)
           /\ \/ pc' = "commit" /\ at' = at /\ at = LastOf(at)
              \/ pc' = "image" /\ at' = at + 1
<1>1. CASE at = LastOf(at)
  BY <1>1, Ways DEF Advance
<1>2. CASE at # LastOf(at)
  <2>1. at' = at + 1 /\ pc' = "image" /\ at \in Nat
    BY <1>2, Ways DEF Advance
  <2>2. LastOf(at) \in Images /\ at < LastOf(at) /\ LastOf(at) \in Nat
    BY <1>2, Ways, Batches
  <2>3. at + 1 \in Images /\ at + 1 <= LastOf(at)
    BY <2>1, <2>2, Ways DEF Images
  <2>4. /\ BatchOf(at) <= BatchOf(at + 1) /\ BatchOf(at + 1) <= BatchOf(LastOf(at))
        /\ BatchOf(LastOf(at)) = BatchOf(at)
        /\ BatchOf(at) \in Nat /\ BatchOf(at + 1) \in Nat
    BY <2>1, <2>2, <2>3, Batches
  <2>5. QED  BY <2>1, <2>3, <2>4
<1>3. QED  BY <1>1, <1>2

\* What is committed stays behind.
LEMMA LandingKept ==
    ASSUME IInv, UNCHANGED <<landed, audit>>,
           pc' \in Active => pc \in Active /\ BatchOf(at') = BatchOf(at),
           at' \in Nat, at <= at', at \in Nat
    PROVE  Landing'
<1>1. \A i \in landed \cup audit : i \in Nat
  BY Known, Ways
<1>2. QED  BY <1>1 DEF IInv, Landing, BatchesAreAtomic

\* The image in hand has its outcome in the session.
LEMMA OpenAdvanced ==
    ASSUME IInv, pc \in Before, Advance, Handled' = Handled \cup {at}
    PROVE  Open' /\ Place' /\ pc' \in Active
<1>1. at \in Images /\ at \in Nat
  BY Ways DEF IInv, Place, Active
<1>2. /\ at' \in Images /\ at' \in Nat /\ at <= at' /\ BatchOf(at') = BatchOf(at)
      /\ \/ pc' = "commit" /\ at' = at /\ at = LastOf(at)
         \/ pc' = "image" /\ at' = at + 1
  BY <1>1, AdvanceStays, Ways
<1>3. \A i \in Handled' : BatchOf(i) = BatchOf(at') /\ i <= at'
  <2>1. \A i \in Handled : BatchOf(i) = BatchOf(at) /\ i <= at /\ i \in Nat
    BY Known, Ways DEF IInv, Open, Active
  <2>2. QED  BY <1>1, <1>2, <2>1
<1>4. \A i \in Images : BatchOf(i) = BatchOf(at) /\ i < at => i \in Handled
  BY DEF IInv, Open
<1>5. CASE pc' = "image" /\ at' = at + 1
  <2>1. \A i \in Images : BatchOf(i) = BatchOf(at') /\ i < at' => i \in Handled'
    <3>1. \A i \in Images : i < at + 1 => i < at \/ i = at
      BY <1>1, Ways
    <3>2. QED  BY <1>2, <1>4, <1>5, <3>1
  <2>2. QED  BY <1>2, <1>3, <1>5, <2>1 DEF Open, Place, Active, Before
<1>6. CASE pc' = "commit" /\ at' = at /\ at = LastOf(at)
  <2>1. \A i \in Images : BatchOf(i) = BatchOf(at') => i \in Handled'
    <3>1. \A i \in Images : BatchOf(i) = BatchOf(at) => i < at \/ i = at
      <4>1. SUFFICES ASSUME NEW i \in Images, BatchOf(i) = BatchOf(at)
                     PROVE  i < at \/ i = at
        OBVIOUS
      <4>2. i <= LastOf(i) /\ LastOf(i) = LastOf(at)
        BY <1>1, <4>1, Batches
      <4>3. QED  BY <1>1, <1>6, <4>2, Ways
    <3>2. QED  BY <1>4, <1>6, <3>1
  <2>2. LastOf(at)' = LastOf(at')
    BY DEF LastOf, BatchOf
  <2>3. QED  BY <1>2, <1>3, <1>6, <2>1, <2>2 DEF Open, Place, Active, Before
<1>7. QED  BY <1>2, <1>5, <1>6

LEMMA JobFields ==
    ASSUME NEW j \in Job, NEW p \in Nat, NEW o \in Nat
    PROVE  /\ [j EXCEPT !.processed = p, !.succeeded = o] \in Job
           /\ [j EXCEPT !.processed = p, !.failed = o] \in Job
<1>1. [j EXCEPT !.processed = p, !.succeeded = o] \in Job
  BY DEF Job
<1>2. [j EXCEPT !.processed = p, !.failed = o] \in Job
  BY DEF Job
<1>3. QED  BY <1>1, <1>2

LEMMA Recorded ==
    ASSUME IInv, NEW s \in {0, 1}, NEW f \in {0, 1},
           \/ RecordSuccess /\ s = 1 /\ f = 0
           \/ RecordFailure /\ s = 0 /\ f = 1
    PROVE  /\ job' \in Job /\ job'.processed = job.processed + 1
           /\ job'.succeeded = job.succeeded + s /\ job'.failed = job.failed + f
           /\ job'.total = job.total
<1>1. job \in Job /\ job.processed \in Nat /\ job.succeeded \in Nat /\ job.failed \in Nat
  BY Known
<1>2. CASE RecordSuccess /\ s = 1 /\ f = 0
  <2>1. job' \in Job
    <3>1. job.processed + 1 \in Nat /\ job.succeeded + 1 \in Nat
      BY <1>1
    <3>2. QED  BY <1>1, <1>2, <3>1, JobFields DEF RecordSuccess
  <2>2. QED  BY <1>1, <1>2, <2>1 DEF RecordSuccess, Job
<1>3. CASE RecordFailure /\ s = 0 /\ f = 1
  <2>1. job' \in Job
    <3>1. job.processed + 1 \in Nat /\ job.failed + 1 \in Nat
      BY <1>1
    <3>2. QED  BY <1>1, <1>3, <3>1, JobFields DEF RecordFailure
  <2>2. QED  BY <1>1, <1>3, <2>1 DEF RecordFailure, Job
<1>4. QED  BY <1>2, <1>3

LEMMA Sums ==
    ASSUME NEW P \in Nat, NEW S \in Nat, NEW F \in Nat, NEW L \in Nat, NEW A \in Nat,
           NEW x \in Nat, NEW y \in Nat, NEW u \in Nat, NEW v \in Nat,
           NEW s \in {0, 1}, NEW f \in {0, 1}, s + f = 1,
           P = S + F, L + x <= S, A + y <= F, u <= x + s, v <= y + f
    PROVE  P + 1 = (S + s) + (F + f) /\ L + u <= S + s /\ A + v <= F + f
OBVIOUS

LEMMA Places ==
    ASSUME NEW P \in Nat, NEW i \in Nat, NEW n \in Nat, P <= i - 1, i <= n
    PROVE  P + 1 <= n /\ P + 1 <= i /\ P + 1 <= i + 1 - 1 /\ P + 1 <= i + 1
OBVIOUS

\* An image is counted when its outcome is, at the latest, in the session.
LEMMA ProgressCounted ==
    ASSUME IInv, pc \in Before, NEW s \in {0, 1}, NEW f \in {0, 1}, s + f = 1,
           job'.processed = job.processed + 1, job'.total = job.total,
           job'.succeeded = job.succeeded + s, job'.failed = job.failed + f,
           UNCHANGED <<landed, audit>>,
           NEW faced \in Nat, faced = Cardinality(DOMAIN session'.faces),
           faced <= Cardinality(DOMAIN session.faces) + s,
           NEW audited \in Nat, audited = Cardinality(session'.audit),
           audited <= Cardinality(session.audit) + f,
           \/ pc' = "image" /\ at' = at + 1
           \/ pc' \in {"commit", "rollback"} /\ at' = at
    PROVE  Progress'
<1>1. /\ at \in Nat /\ at <= Len(Pairs) /\ Len(Pairs) \in Nat
  BY Ways DEF IInv, Place, Active
<1>2. PICK P \in Nat, S \in Nat, F \in Nat, L \in Nat, A \in Nat, DF \in Nat, DA \in Nat :
         /\ P = job.processed /\ S = job.succeeded /\ F = job.failed
         /\ L = Cardinality(landed) /\ A = Cardinality(audit)
         /\ DF = Cardinality(DOMAIN session.faces) /\ DA = Cardinality(session.audit)
  BY Known
<1>3. P = S + F /\ L + DF <= S /\ A + DA <= F /\ job.total = Len(Pairs) /\ P <= at - 1
  BY <1>2 DEF IInv, Progress, Active
<1>4. faced <= DF + s /\ audited <= DA + f /\ s \in Nat /\ f \in Nat
  BY <1>2
<1>5. P + 1 = (S + s) + (F + f) /\ L + faced <= S + s /\ A + audited <= F + f
  <2>1. P = S + F /\ L + DF <= S /\ A + DA <= F
    BY <1>3
  <2>2. QED  BY <1>4, <2>1, Sums
<1>6. P + 1 <= Len(Pairs) /\ P + 1 <= at /\ P + 1 <= at + 1 - 1 /\ P + 1 <= at + 1
  BY <1>1, <1>3, Places
<1>7. /\ job'.processed = P + 1 /\ job'.succeeded = S + s /\ job'.failed = F + f
      /\ job'.total = Len(Pairs)
  BY <1>2, <1>3
<1>8. Cardinality(landed') = L /\ Cardinality(audit') = A
  BY <1>2
<1>9. pc' # "start" /\ job'.processed <= at' /\ (pc' \in Before => job'.processed <= at' - 1)
  <2>1. CASE pc' = "image" /\ at' = at + 1
    <3>1. P + 1 <= at' /\ P + 1 <= at
      BY <1>6, <2>1, Zenon
    <3>2. at' - 1 = at
      <4>1. \A n \in Nat : (n + 1) - 1 = n
        OBVIOUS
      <4>2. QED  BY <1>1, <2>1, <4>1, Zenon
    <3>3. QED  BY <1>7, <2>1, <3>1, <3>2, Zenon
  <2>2. CASE pc' \in {"commit", "rollback"} /\ at' = at
    <3>1. job'.processed <= at'
      BY <1>6, <1>7, <2>2, Zenon
    <3>2. pc' \notin Before /\ pc' # "start"
      BY <2>2 DEF Before
    <3>3. QED  BY <3>1, <3>2, Zenon
  <2>3. QED  BY <2>1, <2>2, Zenon
<1>10. QED  BY <1>4, <1>5, <1>6, <1>7, <1>8, <1>9 DEF Progress

LEMMA RunInv == ASSUME IInv, Run PROVE IInv'
<1>1. /\ pc = "start" /\ at = 1 /\ UNCHANGED <<store, session, cache, at, landed, known>>
      /\ session.people = {} /\ DOMAIN session.faces = {} /\ session.audit = {}
      /\ job.total = 0
  BY DEF Run, IInv, Place, Open, Progress, Active, Before
<1>2. /\ pc' \in {"ended", "unreadable", "image"}
      /\ (pc' = "image" => Len(Pairs) # 0)
      /\ job' \in Job /\ job'.processed = job.processed /\ job'.succeeded = job.succeeded
      /\ job'.failed = job.failed
      /\ (pc' # "image" => job'.total = job.total)
      /\ (pc' = "image" => job'.total = Len(Pairs))
  <2>1. Pairs # <<>> => Len(Pairs) # 0
    BY ImportAssumption
  <2>2. job \in Job /\ Len(Pairs) \in Nat
    BY Known, Ways
  <2>3. QED  BY <2>1, <2>2 DEF Run, Job
<1>3. pc' = "image" => at' \in Images
  BY <1>1, <1>2, Ways DEF Images
<1>4. TypeOK' /\ Shape'
  BY <1>1, <1>2 DEF IInv, TypeOK, Shape, store
<1>5. landed = {} /\ audit = {}
  <2>1. \A i \in landed \cup audit : i < 1 /\ i \in Nat /\ 1 <= i
    BY <1>1, Known, Ways DEF IInv, Landing
  <2>2. QED  BY <2>1
<1>6. Open' /\ Place'
  <2>1. \A i \in Images : ~ (i < 1)
    BY Ways
  <2>2. Handled' = {}
    BY <1>1 DEF Handled
  <2>3. QED  BY <1>1, <1>2, <1>3, <2>1, <2>2 DEF Open, Place, Active, Before
<1>7. Landing'
  BY <1>1, <1>5 DEF Landing, BatchesAreAtomic, store
<1>8. Filing'
  BY <1>1, <1>2 DEF IInv, Filing, store
<1>9. Progress'
  <2>1. job.processed = 0
    BY <1>1, Known DEF IInv, Progress
  <2>2. QED  BY <1>1, <1>2, <2>1, Ways DEF IInv, Progress, store, Active, Before
<1>10. QED  BY <1>4, <1>6, <1>7, <1>8, <1>9 DEF IInv

\* The task moves within the image, and leaves the rows alone.
LEMMA InferInv == ASSUME IInv, Infer PROVE IInv'
<1>1. /\ pc = "image" /\ pc' \in {"resolve", "reject"}
      /\ UNCHANGED <<store, session, cache, job, at, landed, known>>
      /\ at \in Images /\ at \in Nat
  BY Ways DEF Infer, IInv, Place, Active, Before
<1>2. TypeOK' /\ Shape' /\ Place'
  BY <1>1 DEF IInv, TypeOK, Shape, Place, store, Active, Before
<1>3. Open' /\ Filing' /\ Progress'
  BY <1>1 DEF IInv, Open, Handled, Filing, Progress, store, Active, Before
<1>4. Landing'
  BY <1>1, LandingKept DEF store, Active, Before
<1>5. QED  BY <1>2, <1>3, <1>4 DEF IInv

\* The image fails, and its session with it.
LEMMA ImageFails ==
    ASSUME IInv, pc \in Before, RecordFailure, pc' = "rollback",
           UNCHANGED <<store, session, cache, at, landed, known>>
    PROVE  IInv'
<1>1. at \in Images /\ at \in Nat /\ pc \in Active
  BY Ways DEF IInv, Place, Active
<1>2. /\ job' \in Job /\ job'.processed = job.processed + 1 /\ job'.failed = job.failed + 1
      /\ job'.succeeded = job.succeeded + 0 /\ job'.total = job.total
  BY Recorded
<1>3. TypeOK' /\ Shape' /\ Place'
  BY <1>1, <1>2 DEF IInv, TypeOK, Shape, Place, store, Active, Before
<1>4. Open' /\ Filing'
  BY <1>1 DEF IInv, Open, Handled, Filing, store, Active, Before
<1>5. Landing'
  BY <1>1, LandingKept DEF store, Active
<1>6. Progress'
  <2>1. /\ Cardinality(DOMAIN session'.faces) \in Nat
        /\ Cardinality(DOMAIN session'.faces) <= Cardinality(DOMAIN session.faces) + 0
        /\ Cardinality(session'.audit) \in Nat
        /\ Cardinality(session'.audit) <= Cardinality(session.audit) + 1
    BY Known
  <2>2. QED  BY <1>2, <2>1, ProgressCounted DEF store
<1>7. QED  BY <1>3, <1>4, <1>5, <1>6 DEF IInv

LEMMA RejectInv == ASSUME IInv, Reject PROVE IInv'
<1>1. /\ pc = "reject" /\ RecordFailure /\ UNCHANGED <<store, cache, landed, known>>
      /\ \/ session' = [session EXCEPT !.audit = @ \cup {at}] /\ Advance
         \/ pc' = "rollback" /\ UNCHANGED <<session, at>>
      /\ at \in Images /\ at \in Nat /\ pc \in Before /\ pc \in Active
  BY Ways DEF Reject, IInv, Place, Active, Before
<1>2. /\ job' \in Job /\ job'.processed = job.processed + 1 /\ job'.failed = job.failed + 1
      /\ job'.succeeded = job.succeeded + 0 /\ job'.total = job.total
  BY <1>1, Recorded
<1>3. CASE session' = [session EXCEPT !.audit = @ \cup {at}] /\ Advance
  <2>1. /\ session'.people = session.people /\ session'.faces = session.faces
        /\ session'.audit = session.audit \cup {at}
        /\ Shape'
    BY <1>3 DEF IInv, Shape
  <2>2. /\ at' \in Images /\ at' \in Nat /\ at <= at' /\ BatchOf(at') = BatchOf(at)
        /\ \/ pc' = "commit" /\ at' = at
           \/ pc' = "image" /\ at' = at + 1
    BY <1>1, <1>3, AdvanceStays, Ways
  <2>3. Open' /\ Place' /\ pc' \in Active
    <3>1. Handled' = Handled \cup {at}
      BY <2>1 DEF Handled
    <3>2. QED  BY <1>1, <1>3, <3>1, OpenAdvanced
  <2>4. TypeOK'
    BY <1>1, <1>2, <2>1, <2>2 DEF IInv, TypeOK, store
  <2>5. Landing'
    BY <1>1, <2>2, LandingKept DEF store
  <2>6. Filing'
    BY <1>1, <2>1, <2>2 DEF IInv, Filing, store
  <2>7. Progress'
    <3>1. /\ Cardinality(session'.audit) <= Cardinality(session.audit) + 1
          /\ Cardinality(session'.audit) \in Nat
      BY <1>1, <2>1, Known, Finite
    <3>2. Cardinality(DOMAIN session'.faces) \in Nat
          /\ Cardinality(DOMAIN session'.faces) <= Cardinality(DOMAIN session.faces) + 0
      BY <2>1, Known
    <3>3. QED
      BY <1>1, <1>2, <2>2, <3>1, <3>2, ProgressCounted DEF store
  <2>8. QED  BY <2>1, <2>3, <2>4, <2>5, <2>6, <2>7 DEF IInv
<1>4. CASE pc' = "rollback" /\ UNCHANGED <<session, at>>
  BY <1>1, <1>4, ImageFails
<1>5. QED  BY <1>1, <1>3, <1>4

LEMMA StatementFailsInv == ASSUME IInv, StatementFails PROVE IInv'
BY ImageFails DEF StatementFails, Refused, Before

LEMMA ResolveInv == ASSUME IInv, Resolve PROVE IInv'
<1> DEFINE n == Pairs[at]
           named == {p \in DOMAIN people : people[p] = n}
<1>1. /\ pc = "resolve" /\ pc' = "add" /\ UNCHANGED <<store, job, at, landed, known>>
      /\ at \in Images /\ at \in Nat /\ n \in Names /\ NameOf(at) = n
  BY Ways DEF Resolve, IInv, Place, Active, Before
<1>2. \/ cache[n] # None /\ UNCHANGED <<session, cache>>
      \/ /\ cache[n] = None /\ UNCHANGED session
         /\ \E p \in named : cache' = [cache EXCEPT ![n] = p]
      \/ /\ cache[n] = None /\ named = {}
         /\ cache' = [cache EXCEPT ![n] = at]
         /\ session' = [session EXCEPT !.people = @ \cup {at}]
  BY DEF Resolve
<1>3. PICK new \in SUBSET {at} :
         /\ session'.people = session.people \cup new
         /\ session'.faces = session.faces /\ session'.audit = session.audit
         /\ Shape'
         /\ new # {} => cache[n] = None /\ named = {} /\ cache' = [cache EXCEPT ![n] = at]
  <2>1. CASE UNCHANGED session
    <3>1. session'.people = session.people \cup {} /\ Shape'
      BY <2>1 DEF IInv, Shape
    <3>2. QED  BY <2>1, <3>1
  <2>2. CASE /\ cache[n] = None /\ named = {}
             /\ cache' = [cache EXCEPT ![n] = at]
             /\ session' = [session EXCEPT !.people = @ \cup {at}]
    <3>1. /\ session'.people = session.people \cup {at}
          /\ session'.faces = session.faces /\ session'.audit = session.audit
          /\ Shape'
      BY <2>2 DEF IInv, Shape
    <3>2. QED  BY <2>2, <3>1
  <2>3. QED  BY <1>2, <2>1, <2>2
<1>4. /\ cache' \in [Names -> Ids \cup {None}]
      /\ \A m \in Names : m # n => cache'[m] = cache[m]
      /\ cache'[n] # None /\ NameOf(cache'[n]) = n
  <2>1. cache \in [Names -> Ids \cup {None}] /\ DOMAIN people \subseteq Ids
        /\ (cache[n] # None => NameOf(cache[n]) = n)
    BY <1>1 DEF IInv, TypeOK, Filing
  <2>2. \A p \in named : p \in Ids /\ NameOf(p) = n /\ p # None
    BY <2>1, Ways DEF IInv, Filing
  <2>3. at \in Ids /\ at # None
    BY <1>1, Ways DEF Ids
  <2>4. CASE cache[n] # None /\ UNCHANGED cache
    BY <2>1, <2>4
  <2>5. ASSUME NEW p \in Ids, p # None, NameOf(p) = n, cache' = [cache EXCEPT ![n] = p]
        PROVE  /\ cache' \in [Names -> Ids \cup {None}]
               /\ \A m \in Names : m # n => cache'[m] = cache[m]
               /\ cache'[n] # None /\ NameOf(cache'[n]) = n
    BY <1>1, <2>1, <2>5
  <2>6. QED  BY <1>1, <1>2, <2>2, <2>3, <2>4, <2>5
<1> HIDE DEF n, named
<1>5. TypeOK'
  <2>1. session'.people \subseteq Images
    BY <1>1, <1>3, Known
  <2>2. QED  BY <1>1, <1>3, <1>4, <2>1 DEF IInv, TypeOK, store
<1>6. Place' /\ Open'
  BY <1>1, <1>3 DEF IInv, Place, Open, Handled, Active, Before
<1>7. Landing'
  BY <1>1, LandingKept DEF store, Active, Before
<1>8. Filing'
  <2>1. \A p, q \in DOMAIN people \cup session'.people : NameOf(p) = NameOf(q) => p = q
    <3>1. \A p, q \in DOMAIN people \cup session.people : NameOf(p) = NameOf(q) => p = q
      BY DEF IInv, Filing
    <3>2. new # {} => \A p \in DOMAIN people \cup session.people : NameOf(p) # n
      <4>1. \A p \in DOMAIN people : people[p] = NameOf(p)
        BY DEF IInv, Filing
      <4>2. \A p \in session.people : cache[NameOf(p)] # None
        BY DEF IInv, Filing
      <4>3. QED  BY <1>3, <4>1, <4>2 DEF named
    <3>3. QED  BY <1>1, <1>3, <3>1, <3>2
  <2>2. \A p \in session'.people : cache'[NameOf(p)] # None
    <3>1. \A p \in session.people : NameOf(p) \in Names /\ cache[NameOf(p)] # None
      BY Known, Ways DEF IInv, Filing
    <3>2. QED  BY <1>1, <1>3, <1>4, <3>1
  <2>3. \A m \in Names : cache'[m] # None => NameOf(cache'[m]) = m
    BY <1>4 DEF IInv, Filing
  <2>4. cache'[Pairs[at']] # None
    BY <1>1, <1>4 DEF n
  <2>5. QED  BY <1>1, <1>3, <2>1, <2>2, <2>3, <2>4 DEF IInv, Filing, store
<1>9. Progress'
  BY <1>1, <1>3 DEF IInv, Progress, store, Active, Before
<1>10. QED  BY <1>3, <1>5, <1>6, <1>7, <1>8, <1>9 DEF IInv

LEMMA AddFaceInv == ASSUME IInv, AddFace PROVE IInv'
<1> DEFINE p == cache[Pairs[at]]
<1>1. /\ pc = "add" /\ RecordSuccess /\ Advance /\ UNCHANGED <<store, cache, landed, known>>
      /\ p \in DOMAIN people \cup session.people
      /\ session' = [session EXCEPT !.faces =
            [i \in DOMAIN session.faces \cup {at} |-> IF i = at THEN p ELSE session.faces[i]]]
      /\ at \in Images /\ at \in Nat /\ pc \in Before /\ pc \in Active
  BY Ways DEF AddFace, Refused, IInv, Place, Active, Before
<1>2. /\ job' \in Job /\ job'.processed = job.processed + 1 /\ job'.failed = job.failed + 0
      /\ job'.succeeded = job.succeeded + 1 /\ job'.total = job.total
  BY <1>1, Recorded
<1>3. p \in Ids /\ NameOf(p) = Pairs[at]
  <2>1. Pairs[at] \in Names /\ p # None /\ cache \in [Names -> Ids \cup {None}]
    BY <1>1, Ways DEF IInv, Filing, TypeOK
  <2>2. QED  BY <2>1 DEF IInv, Filing
<1> HIDE DEF p
<1>4. /\ session'.people = session.people /\ session'.audit = session.audit /\ Shape'
      /\ DOMAIN session'.faces = DOMAIN session.faces \cup {at}
      /\ session'.faces = [i \in DOMAIN session.faces \cup {at} |->
                              IF i = at THEN p ELSE session.faces[i]]
  BY <1>1 DEF IInv, Shape
<1>5. /\ at' \in Images /\ at' \in Nat /\ at <= at' /\ BatchOf(at') = BatchOf(at)
      /\ \/ pc' = "commit" /\ at' = at
         \/ pc' = "image" /\ at' = at + 1
  BY <1>1, AdvanceStays, Ways
<1>6. Open' /\ Place' /\ pc' \in Active
  <2>1. Handled' = Handled \cup {at}
    BY <1>4 DEF Handled
  <2>2. QED  BY <1>1, <2>1, OpenAdvanced
<1>7. TypeOK'
  <2>1. session'.faces \in [DOMAIN session'.faces -> Ids] /\ DOMAIN session'.faces \subseteq Images
    BY <1>1, <1>3, <1>4 DEF IInv, TypeOK
  <2>2. QED  BY <1>1, <1>2, <1>4, <1>5, <2>1 DEF IInv, TypeOK, store
<1>8. Landing'
  BY <1>1, <1>5, LandingKept DEF store
<1>9. Filing'
  <2>1. \A i \in DOMAIN session'.faces :
          /\ session'.faces[i] \in DOMAIN people \cup session.people
          /\ NameOf(session'.faces[i]) = Pairs[i]
    BY <1>1, <1>3, <1>4 DEF IInv, Filing
  <2>2. /\ UNCHANGED <<people, faces, cache>> /\ session'.people = session.people
        /\ pc' # "add"
    BY <1>1, <1>4, <1>5 DEF store
  <2>3. QED  BY <2>1, <2>2 DEF IInv, Filing
<1>10. Progress'
  <2>1. /\ Cardinality(DOMAIN session'.faces) <= Cardinality(DOMAIN session.faces) + 1
        /\ Cardinality(DOMAIN session'.faces) \in Nat
        /\ Cardinality(session'.audit) \in Nat
        /\ Cardinality(session'.audit) <= Cardinality(session.audit) + 0
    BY <1>1, <1>4, Known, Finite
  <2>2. QED  BY <1>1, <1>2, <1>5, <2>1, ProgressCounted DEF store
<1>11. QED  BY <1>4, <1>6, <1>7, <1>8, <1>9, <1>10 DEF IInv

-----------------------------------------------------------------------------
(***************************************************************************)
(* The end of a batch, crashes, and the operator                           *)
(***************************************************************************)

\* A new batch begins behind all images of the previous ones.
LEMMA BatchOver ==
    ASSUME IInv, pc \in {"commit", "rollback"}, EndBatch
    PROVE  /\ session'.people = {} /\ DOMAIN session'.faces = {} /\ session'.audit = {}
           /\ session' = EmptySession
           /\ Shape' /\ Open' /\ Place' /\ pc' \in {"ended", "image"}
           /\ at' \in Images \cup {Len(Pairs) + 1} /\ at' \in Nat /\ at <= at' - 1
           /\ \A i \in Images : i <= LastOf(at) =>
                 i < at' /\ (pc' \in Active => BatchOf(i) # BatchOf(at'))
           /\ job' \in Job /\ job'.processed = job.processed /\ job'.total = job.total
           /\ job'.succeeded = job.succeeded /\ job'.failed = job.failed
<1>1. at \in Images /\ at \in Nat /\ Len(Pairs) \in Nat /\ LastOf(at) \in Images
      /\ LastOf(at) \in Nat /\ at <= LastOf(at) /\ LastOf(at) <= Len(Pairs)
  BY Ways, Batches DEF IInv, Place, Active
<1>2. /\ session' = EmptySession /\ at' = LastOf(at) + 1
      /\ \/ LastOf(at) = Len(Pairs) /\ job' = [job EXCEPT !.state = "completed"] /\ pc' = "ended"
         \/ LastOf(at) # Len(Pairs) /\ pc' = "image" /\ job' = job
  BY DEF EndBatch
<1>3. session'.people = {} /\ DOMAIN session'.faces = {} /\ session'.audit = {} /\ Shape'
      /\ Handled' = {}
  BY <1>2, NoRows DEF Shape, EmptySession, Handled
<1>4. /\ job' \in Job /\ job'.processed = job.processed /\ job'.total = job.total
      /\ job'.succeeded = job.succeeded /\ job'.failed = job.failed
  BY <1>2, Known DEF Job
<1>5. at' \in Nat /\ at <= at' - 1 /\ at' \in Images \cup {Len(Pairs) + 1}
      /\ \A i \in Images : i <= LastOf(at) => i < at'
  BY <1>1, <1>2, Ways DEF Images
<1>6. CASE pc' = "ended"
  <2>1. Open' /\ Place'
    BY <1>3, <1>6 DEF Open, Place, Active, Before
  <2>2. QED  BY <1>2, <1>3, <1>4, <1>5, <1>6, <2>1 DEF Active, Before
<1>7. CASE pc' = "image" /\ LastOf(at) # Len(Pairs)
  <2>1. /\ LastOf(at) + 1 \in Images /\ BatchOf(LastOf(at) + 1) = BatchOf(at) + 1
        /\ BatchOf(at) \in Nat
    BY <1>1, <1>7, Batches
  <2>2. ASSUME NEW i \in Images, i <= LastOf(at)
        PROVE  BatchOf(i) # BatchOf(at')
    <3>1. BatchOf(i) <= BatchOf(LastOf(at)) /\ BatchOf(LastOf(at)) = BatchOf(at)
          /\ BatchOf(i) \in Nat
      BY <1>1, <2>2, Batches
    <3>2. QED  BY <1>2, <2>1, <3>1
  <2>3. \A i \in Images : BatchOf(i) = BatchOf(at') /\ i < at' => i \in Handled'
    <3>1. \A i \in Images : i < at' => i <= LastOf(at)
      BY <1>1, <1>2, Ways
    <3>2. QED  BY <2>2, <3>1
  <2>4. Open' /\ Place'
    BY <1>2, <1>3, <1>7, <2>1, <2>3 DEF Open, Place, Active, Before
  <2>5. QED  BY <1>2, <1>3, <1>4, <1>5, <1>7, <2>2, <2>4
<1>8. QED  BY <1>2, <1>6, <1>7

LEMMA CommitFailsInv == ASSUME IInv, CommitFails PROVE IInv'
<1>1. /\ pc = "commit" /\ pc' = "rollback"
      /\ UNCHANGED <<store, session, cache, job, at, landed, known>>
      /\ at \in Images /\ at \in Nat
  BY Ways DEF CommitFails, IInv, Place, Active, Before
<1>2. TypeOK' /\ Shape' /\ Place'
  BY <1>1 DEF IInv, TypeOK, Shape, Place, store, Active, Before
<1>3. Open' /\ Filing' /\ Progress'
  BY <1>1 DEF IInv, Open, Handled, Filing, Progress, store, Active, Before
<1>4. Landing'
  BY <1>1, LandingKept DEF store, Active, Before
<1>5. QED  BY <1>2, <1>3, <1>4 DEF IInv

\* Nothing of a batch that is given up remains.
LEMMA RollbackInv == ASSUME IInv, Rollback PROVE IInv'
<1>1. /\ pc = "rollback" /\ EndBatch /\ UNCHANGED <<store, cache, landed, known>>
      /\ at \in Images /\ at \in Nat /\ Len(Pairs) \in Nat
  BY Ways DEF Rollback, IInv, Place, Active, Before
<1>2. /\ session'.people = {} /\ DOMAIN session'.faces = {} /\ session'.audit = {}
      /\ session' = EmptySession
      /\ Shape' /\ Open' /\ Place' /\ pc' \in {"ended", "image"}
      /\ at' \in Images \cup {Len(Pairs) + 1} /\ at' \in Nat /\ at <= at' - 1
      /\ \A i \in Images : i <= LastOf(at) =>
            i < at' /\ (pc' \in Active => BatchOf(i) # BatchOf(at'))
      /\ job' \in Job /\ job'.processed = job.processed /\ job'.total = job.total
      /\ job'.succeeded = job.succeeded /\ job'.failed = job.failed
  BY <1>1, BatchOver
<1>3. TypeOK'
  <2>1. session'.people \subseteq Images /\ DOMAIN session'.faces \subseteq Images
        /\ session'.faces \in [DOMAIN session'.faces -> Ids] /\ session'.audit \subseteq Images
    BY <1>2, NoRows
  <2>2. QED  BY <1>1, <1>2, <2>1 DEF IInv, TypeOK, store
<1>4. Landing'
  <2>1. \A i \in landed \cup audit : i \in Images /\ i < at /\ at <= LastOf(at)
        /\ i \in Nat /\ LastOf(at) \in Nat
    BY <1>1, Known, Ways, Batches DEF IInv, Landing
  <2>2. \A i \in landed \cup audit : i <= LastOf(at)
    BY <1>1, <2>1
  <2>3. BatchesAreAtomic'
    BY <1>1 DEF IInv, Landing, BatchesAreAtomic, store
  <2>4. QED  BY <1>1, <1>2, <2>1, <2>2, <2>3 DEF Landing, store
<1>5. Filing'
  BY <1>1, <1>2 DEF IInv, Filing, store
<1>6. Progress'
  <2>1. /\ Cardinality(DOMAIN session'.faces) = 0 /\ Cardinality(session'.audit) = 0
        /\ Cardinality(landed') = Cardinality(landed) /\ Cardinality(audit') = Cardinality(audit)
    BY <1>1, <1>2, NoRows DEF store
  <2>2. Cardinality(landed) <= job.succeeded /\ Cardinality(audit) <= job.failed
    BY Known DEF IInv, Progress
  <2>3. job.processed \in Nat /\ job.processed <= at /\ job.total = Len(Pairs)
    BY <1>1, Known DEF IInv, Progress, Active
  <2>4. job.processed <= at' /\ job.processed <= at' - 1
    BY <1>1, <1>2, <2>3
  <2>5. QED  BY <1>2, <2>1, <2>2, <2>3, <2>4, Known DEF IInv, Progress
<1>7. QED  BY <1>2, <1>3, <1>4, <1>5, <1>6 DEF IInv

\* The batch is committed as a whole.
LEMMA CommitInv == ASSUME IInv, Commit PROVE IInv'
<1>1. /\ pc = "commit" /\ EndBatch /\ UNCHANGED cache
      /\ people' = [p \in DOMAIN people \cup session.people |->
                       IF p \in DOMAIN people THEN people[p] ELSE Pairs[p]]
      /\ faces' = [i \in DOMAIN faces \cup DOMAIN session.faces |->
                       IF i \in DOMAIN faces THEN faces[i] ELSE session.faces[i]]
      /\ audit' = audit \cup session.audit
      /\ landed' = landed \cup DOMAIN session.faces
      /\ known' = known \cup session.people
      /\ at \in Images /\ at \in Nat /\ Len(Pairs) \in Nat /\ at = LastOf(at)
  BY Ways DEF Commit, IInv, Place, Active, Before
<1>2. /\ session'.people = {} /\ DOMAIN session'.faces = {} /\ session'.audit = {}
      /\ session' = EmptySession
      /\ Shape' /\ Open' /\ Place' /\ pc' \in {"ended", "image"}
      /\ at' \in Images \cup {Len(Pairs) + 1} /\ at' \in Nat /\ at <= at' - 1
      /\ \A i \in Images : i <= LastOf(at) =>
            i < at' /\ (pc' \in Active => BatchOf(i) # BatchOf(at'))
      /\ job' \in Job /\ job'.processed = job.processed /\ job'.total = job.total
      /\ job'.succeeded = job.succeeded /\ job'.failed = job.failed
  BY <1>1, BatchOver
<1>3. /\ DOMAIN people' = DOMAIN people \cup session.people
      /\ \A p \in DOMAIN people' : people'[p] = NameOf(p)
  <2>1. \A p \in session.people : Pairs[p] = NameOf(p)
    BY Known, Ways
  <2>2. QED  BY <1>1, <2>1 DEF IInv, Filing
<1>4. TypeOK'
  <2>1. session'.people \subseteq Images /\ DOMAIN session'.faces \subseteq Images
        /\ session'.faces \in [DOMAIN session'.faces -> Ids] /\ session'.audit \subseteq Images
    BY <1>2, NoRows
  <2>2. DOMAIN people' \subseteq Ids /\ known' \subseteq Ids
    BY <1>1, <1>3, Known DEF IInv, TypeOK, Ids
  <2>3. people' \in [DOMAIN people' -> Names]
    <3>1. people \in [DOMAIN people -> Names]
      BY DEF IInv, TypeOK
    <3>2. \A p \in session.people : Pairs[p] \in Names
      BY Known, Ways
    <3>3. QED  BY <1>1, <3>1, <3>2
  <2>4. DOMAIN faces' \subseteq Images /\ faces' \in [DOMAIN faces' -> Ids]
    BY <1>1 DEF IInv, TypeOK
  <2>5. audit' \subseteq Images /\ landed' \subseteq Images
    BY <1>1, Known
  <2>6. QED  BY <1>1, <1>2, <2>1, <2>2, <2>3, <2>4, <2>5 DEF IInv, TypeOK
<1>5. Landing'
  <2>1. \A i \in landed \cup audit : i \in Images /\ i \in Nat /\ i < at /\ BatchOf(i) # BatchOf(at)
    BY <1>1, Known, Ways DEF IInv, Landing, Active
  <2>2. \A i \in Handled : i \in Images /\ BatchOf(i) = BatchOf(at) /\ i <= at
    BY <1>1, Known DEF IInv, Open, Active
  <2>3. \A i \in Images : BatchOf(i) = BatchOf(at) => i \in Handled
    BY <1>1 DEF IInv, Open
  <2>4. landed' \cup audit' = (landed \cup audit) \cup Handled
    BY <1>1 DEF Handled
  <2>5. \A i \in landed' \cup audit' : i \in Images /\ i <= LastOf(at)
    BY <1>1, <2>1, <2>2, <2>4
  <2>6. BatchesAreAtomic'
    <3>1. SUFFICES ASSUME NEW i \in Images, NEW j \in Images, BatchOf(i) = BatchOf(j)
                   PROVE  i \in landed' \cup audit' <=> j \in landed' \cup audit'
      BY DEF BatchesAreAtomic, BatchOf
    <3>2. CASE BatchOf(i) = BatchOf(at)
      BY <2>3, <2>4, <3>1, <3>2
    <3>3. CASE BatchOf(i) # BatchOf(at)
      <4>1. i \notin Handled /\ j \notin Handled
        BY <2>2, <3>1, <3>3
      <4>2. i \in landed \cup audit <=> j \in landed \cup audit
        BY <3>1 DEF IInv, Landing, BatchesAreAtomic
      <4>3. QED  BY <2>4, <4>1, <4>2
    <3>4. QED  BY <3>2, <3>3
  <2>7. QED  BY <1>2, <2>5, <2>6 DEF Landing
<1>6. Filing'
  <2>1. \A i \in DOMAIN faces' : faces'[i] \in DOMAIN people' /\ NameOf(faces'[i]) = Pairs[i]
    BY <1>1, <1>3 DEF IInv, Filing
  <2>2. \A p, q \in DOMAIN people' \cup session'.people : NameOf(p) = NameOf(q) => p = q
    BY <1>2, <1>3 DEF IInv, Filing
  <2>3. QED  BY <1>1, <1>2, <1>3, <2>1, <2>2 DEF IInv, Filing
<1>7. Progress'
  <2>1. /\ Cardinality(DOMAIN session'.faces) = 0 /\ Cardinality(session'.audit) = 0
    BY <1>2, NoRows
  <2>2. /\ Cardinality(landed') <= Cardinality(landed) + Cardinality(DOMAIN session.faces)
        /\ Cardinality(audit') <= Cardinality(audit) + Cardinality(session.audit)
        /\ Cardinality(landed') \in Nat /\ Cardinality(audit') \in Nat
    <3>1. landed' \subseteq Images /\ audit' \subseteq Images
      BY <1>1, Known
    <3>2. QED  BY <1>1, <3>1, Known, Finite
  <2>3. Cardinality(landed') + 0 <= job.succeeded /\ Cardinality(audit') + 0 <= job.failed
    BY <2>2, Known DEF IInv, Progress
  <2>4. job.processed \in Nat /\ job.processed <= at /\ job.total = Len(Pairs)
    BY <1>1, Known DEF IInv, Progress, Active
  <2>5. job.processed <= at' /\ job.processed <= at' - 1
    BY <1>1, <1>2, <2>4
  <2>6. QED  BY <1>2, <2>1, <2>3, <2>4, <2>5, Known DEF IInv, Progress
<1>8. QED  BY <1>2, <1>4, <1>5, <1>6, <1>7 DEF IInv

\* The task is cut short: the database forgets the session, nothing else changes.
LEMMA CutShort ==
    ASSUME IInv, pc' \in {"crashed", "lost"}, session' = EmptySession,
           UNCHANGED <<store, cache, job, at, landed, known>>
    PROVE  IInv'
<1>1. /\ pc' \in {"crashed", "lost"} /\ session' = EmptySession
      /\ UNCHANGED <<store, cache, job, at, landed, known>>
  OBVIOUS
<1>2. session'.people = {} /\ DOMAIN session'.faces = {} /\ session'.audit = {} /\ Shape'
  BY <1>1, NoRows DEF Shape, EmptySession
<1>3. TypeOK'
  <2>1. session'.people \subseteq Images /\ DOMAIN session'.faces \subseteq Images
        /\ session'.faces \in [DOMAIN session'.faces -> Ids] /\ session'.audit \subseteq Images
    BY <1>1, <1>2, NoRows
  <2>2. QED  BY <1>1, <2>1 DEF IInv, TypeOK, store
<1>4. Place' /\ Open' /\ Landing'
  BY <1>1, <1>2 DEF IInv, Place, Open, Landing, BatchesAreAtomic, store, Active, Before
<1>5. Filing'
  BY <1>1, <1>2 DEF IInv, Filing, store
<1>6. Progress'
  <2>1. /\ Cardinality(DOMAIN session'.faces) = 0 /\ Cardinality(session'.audit) = 0
        /\ Cardinality(landed') = Cardinality(landed) /\ Cardinality(audit') = Cardinality(audit)
    BY <1>1, <1>2, NoRows DEF store
  <2>2. Cardinality(landed) <= job.succeeded /\ Cardinality(audit) <= job.failed
    BY Known DEF IInv, Progress
  <2>3. QED  BY <1>1, <2>1, <2>2, Known DEF IInv, Progress, Active, Before
<1>7. QED  BY <1>2, <1>3, <1>4, <1>5, <1>6 DEF IInv

LEMMA CrashInv == ASSUME IInv, Crash PROVE IInv'
BY CutShort DEF Crash

LEMMA RollbackFailsInv == ASSUME IInv, RollbackFails PROVE IInv'
BY CutShort DEF RollbackFails

\* A person goes with all the faces that are filed under them; the session's own
\* faces hold theirs.
LEMMA DeletePersonInv == ASSUME IInv, NEW p \in Ids, DeletePerson(p) PROVE IInv'
<1>1. /\ \A i \in DOMAIN session.faces : session.faces[i] # p
      /\ people' = [q \in DOMAIN people \ {p} |-> people[q]]
      /\ faces' = [i \in {j \in DOMAIN faces : faces[j] # p} |-> faces[i]]
      /\ UNCHANGED <<audit, session, cache, job, at, pc, landed, known>>
  BY DEF DeletePerson
<1>2. TypeOK'
  <2>1. /\ DOMAIN people' \subseteq Ids /\ people' \in [DOMAIN people' -> Names]
        /\ DOMAIN faces' \subseteq Images /\ faces' \in [DOMAIN faces' -> Ids]
    BY <1>1 DEF IInv, TypeOK
  <2>2. QED  BY <1>1, <2>1 DEF IInv, TypeOK
<1>3. Shape' /\ Place' /\ Open' /\ Landing'
  BY <1>1 DEF IInv, Shape, Place, Open, Handled, Landing, BatchesAreAtomic, LastOf, BatchOf
<1>4. Filing'
  BY <1>1 DEF IInv, Filing
<1>5. Progress'
  BY <1>1 DEF IInv, Progress
<1>6. QED  BY <1>2, <1>3, <1>4, <1>5 DEF IInv

LEMMA NextInv == IInv /\ [Next]_vars => IInv'
<1>1. SUFFICES ASSUME IInv, [Next]_vars PROVE IInv'
  OBVIOUS
<1>2. CASE Run
  BY <1>1, <1>2, RunInv
<1>3. CASE Infer
  BY <1>1, <1>3, InferInv
<1>4. CASE Reject
  BY <1>1, <1>4, RejectInv
<1>5. CASE Resolve
  BY <1>1, <1>5, ResolveInv
<1>6. CASE AddFace
  BY <1>1, <1>6, AddFaceInv
<1>7. CASE StatementFails
  BY <1>1, <1>7, StatementFailsInv
<1>8. CASE Commit
  BY <1>1, <1>8, CommitInv
<1>9. CASE CommitFails
  BY <1>1, <1>9, CommitFailsInv
<1>10. CASE Rollback
  BY <1>1, <1>10, RollbackInv
<1>11. CASE Crash
  BY <1>1, <1>11, CrashInv
<1>12. CASE \E p \in Ids : DeletePerson(p)
  BY <1>1, <1>12, DeletePersonInv
<1>13. CASE UNCHANGED vars
  <2>1. TypeOK' /\ Shape' /\ Place' /\ Open'
    BY <1>1, <1>13 DEF vars, IInv, TypeOK, Shape, Place, Open, Handled, LastOf, BatchOf
  <2>2. Landing' /\ Filing' /\ Progress'
    BY <1>1, <1>13 DEF vars, IInv, Landing, BatchesAreAtomic, Filing, Progress, BatchOf
  <2>3. QED  BY <2>1, <2>2 DEF IInv
<1>14. CASE RollbackFails
  BY <1>1, <1>14, RollbackFailsInv
<1>15. QED
  BY <1>1, <1>2, <1>3, <1>4, <1>5, <1>6, <1>7, <1>8, <1>9, <1>10, <1>11, <1>12, <1>13,
     <1>14 DEF Next, Task

-----------------------------------------------------------------------------
(***************************************************************************)
(* Theorems                                                                *)
(***************************************************************************)

\* The strengthened invariant: what the session holds of its batch, that earlier
\* batches are whole, which directory every id stands for, and how far the
\* counters are ahead of the rows.
THEOREM Invariance == Spec => []IInv
<1>1. IInv /\ [Next]_vars => IInv'
  BY NextInv
<1>2. QED  BY InitInv, <1>1, PTL DEF Spec

\* Rows, session, cache and record have their types, and the task is always at
\* an image of its list or behind the last.
THEOREM TypeCorrect == Spec => []TypeOK
<1>1. IInv => TypeOK
  BY DEF IInv
<1>2. QED  BY Invariance, <1>1, PTL

\* No face is ever committed without its person, although ids are cached across
\* batches and persons are deleted meanwhile.
THEOREM NoOrphans == Spec => []FacesHaveAPerson
<1>1. IInv => FacesHaveAPerson
  BY DEF IInv, Filing, FacesHaveAPerson
<1>2. QED  BY Invariance, <1>1, PTL

\* A stale id of the cache never files an image under another directory's
\* person, and a directory never gets two persons.
THEOREM FiledRight == Spec => []FiledUnderTheDirectory
<1>1. IInv => FiledUnderTheDirectory
  BY DEF IInv, Filing, FiledUnderTheDirectory
<1>2. QED  BY Invariance, <1>1, PTL

\* What the record claims is at least what was committed, and no image is
\* counted twice.
THEOREM ProgressIsHonest == Spec => []ProgressCoversTheCommits
<1>1. IInv => ProgressCoversTheCommits
  BY Known DEF IInv, Progress, ProgressCoversTheCommits
<1>2. QED  BY Invariance, <1>1, PTL

\* Every batch is committed as a whole or not at all.
THEOREM WholeBatches == Spec => []BatchesAreAtomic
<1>1. IInv => BatchesAreAtomic
  BY DEF IInv, Landing
<1>2. QED  BY Invariance, <1>1, PTL
=============================================================================
