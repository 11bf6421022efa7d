------------------------- MODULE GalleryRegistryProofs ------------------------
(***************************************************************************)
(* Proofs about Gallery: external ids stay unique, a face mirrors its      *)
(* person's status unless its insertion raced a change of it, and the      *)
(* requests implement the abstract gallery of module Registry.             *)
(*                                                                         *)
(* The argument: a session shows nothing before its commit, and what its   *)
(* commit shows was settled by then and is protected since: an external id *)
(* by the wait of the unique index, a person by its row lock, a face by    *)
(* the lock of the session that writes or deletes it.  What no lock        *)
(* protects, the status that a new face copies, is what raced remembers.   *)
(***************************************************************************)
EXTENDS GalleryAuditProofs

-----------------------------------------------------------------------------
(***************************************************************************)
(* The inductive invariant, on top of IInv and AInv                        *)
(***************************************************************************)

\* Only a request that has committed has its person in the table.
PeopleAreOver == \A p \in Requests : p \in People => pc[p] = "done"

Enrols(t) == t.op \in {"register", "enroll"}
Recognises(t) == t.op \in {"verify", "search"}

\* The audit entry of a session.
EntryOf(r, t) == [by |-> r,
                  action |-> IF Recognises(t) THEN t.op ELSE "register",
                  person |-> t.person,
                  face |-> IF Enrols(t) THEN r ELSE t.face,
                  success |-> Recognises(t) => t.active]

Logged(t) == Enrols(t) \/ Recognises(t) \/ t.op = "replace"

\* What a handler has done by the time it is somewhere.
LogShape(r, place, t) ==
    /\ place = "log" => Logged(t)
    /\ t.log = IF place = "commit" /\ Logged(t) THEN {EntryOf(r, t)} ELSE {}

UpdateShape(place, t) ==
    t.op = "update" =>
        /\ t.sets # {} /\ place \in {"unique", "trigger", "rows", "refresh", "commit"} =>
              t.lock = IF "ext" \in t.sets THEN "update" ELSE "no_key_update"
        /\ place \in {"trigger", "rows"} \/ t.rows \cup t.todo # {} =>
              "active" \in t.sets

DeleteShape(place, t) ==
    t.op = "delete" =>
        /\ place \in {"trigger", "rows"} => t.lock = "update"
        /\ t.lock # "update" => t.rows = {}

FaceShape(place, t) ==
    /\ t.op = "enroll" => t.ext = None
    /\ t.op = "delete_face" => t.rows \subseteq {t.face}
    /\ place \in {"log", "commit"} =>
          /\ Enrols(t) => "face" \in t.inserted
          /\ t.op = "replace" => t.rows = {t.face}
          /\ Recognises(t) /\ t.active => t.face # None

Shape(r, place, t) ==
    /\ LogShape(r, place, t)
    /\ UpdateShape(place, t)
    /\ DeleteShape(place, t)
    /\ FaceShape(place, t)

\* The committed faces a session has locked are there, and locked by it alone.
RowsFit(r, t) ==
    /\ t.rows \subseteq Enrolled
    /\ \A q \in Requests \ {r} : tx[q].rows \cap t.rows = {}

\* A session that has passed the unique index is alone with its external id.
Owns(place, t) ==
    /\ t.ext # None
    /\ \/ "person" \in t.inserted
       \/ /\ t.op = "update" /\ t.lock = "update"
          /\ place \in {"trigger", "rows", "refresh", "commit"}

KeyFits(r, place, t) ==
    Owns(place, t) =>
        /\ \A p \in People \ {t.person} : persons[p].ext # t.ext
        /\ \A q \in Requests \ {r} : Owns(pc[q], tx[q]) => tx[q].ext # t.ext

\* An enrolment knows a person who was there, or its own; the status it has
\* copied is that person's, or it raced a change.
CopyFits(r, place, t) ==
    Enrols(t) =>
        /\ t.person \in Requests => t.person = r \/ pc[t.person] = "done"
        /\ place \in {"check", "log", "commit"} =>
              \/ r \in raced
              \/ /\ t.person \in People => t.active = persons[t.person].active
                 /\ "person" \in t.inserted => t.active

\* An update or a deletion holds a person who is there, and has found the
\* faces of that person: all of them but those whose insertion it raced.
MirrorFits(place, t) ==
    /\ t.op \in {"update", "delete"} =>
          /\ t.lock # "none" => t.person \in People
          /\ \A f \in t.rows \cup t.todo :
                /\ f \in Requests => pc[f] = "done"
                /\ f \in Enrolled => faces[f].person = t.person
    /\ t.op = "update" =>
          /\ place = "rows" => FacesOf(t.person) \subseteq t.rows \cup t.todo \cup raced
          /\ place \in {"refresh", "commit"} /\ "active" \in t.sets =>
                \/ t.active = persons[t.person].active
                \/ FacesOf(t.person) \subseteq t.rows \cup raced

RegistryPart(r, place, t) ==
    /\ Shape(r, place, t)
    /\ RowsFit(r, t)
    /\ KeyFits(r, place, t)
    /\ CopyFits(r, place, t)
    /\ MirrorFits(place, t)

RInv ==
    /\ PeopleAreOver
    /\ \A r \in Requests : RegistryPart(r, pc[r], tx[r])
    /\ ExternalIdsAreUnique
    /\ OnlyRacedFacesAreStale

-----------------------------------------------------------------------------
(***************************************************************************)
(* Steps that commit nothing                                               *)
(***************************************************************************)

\* What is known of a session.
LEMMA KnownOf ==
    ASSUME IInv, AInv, RInv, NEW r \in Requests
    PROVE  /\ tx[r] \in Session
           /\ PlaceFits(pc[r], tx[r]) /\ WritesComplete(r, pc[r], tx[r])
           /\ LockHolder(tx[r]) /\ OpFits(pc[r], tx[r])
           /\ RegistryPart(r, pc[r], tx[r])
BY DEF IInv, TypeOK, SessionInv, AInv, AuditPart, RInv

\* It is enough that the session a step leaves satisfies its part.
LEMMA MoveReg ==
    ASSUME IInv, RInv,
           NEW r \in Requests, NEW from, NEW t, NEW to,
           Move(r, from, t, to), from # "done",
           RegistryPart(r, to, t)
    PROVE  RInv'
<1>1. /\ pc' = [pc EXCEPT ![r] = to] /\ pc[r] = from
      /\ tx' = [tx EXCEPT ![r] = t]
      /\ UNCHANGED <<persons, faces, logs, raced>>
  BY DEF Move
<1>2. pc \in [Requests -> Places] /\ tx \in [Requests -> Session]
  BY DEF IInv, TypeOK
<1>3. People' = People /\ Enrolled' = Enrolled /\ \A p : FacesOf(p)' = FacesOf(p)
  BY <1>1 DEF People, Enrolled, FacesOf
<1>4. ASSUME NEW f \in Requests, pc[f] = "done"
      PROVE  pc'[f] = "done"
  BY <1>1, <1>2, <1>4
<1>5. PeopleAreOver'
  BY <1>3, <1>4 DEF RInv, PeopleAreOver
<1>6. ASSUME NEW q \in Requests
      PROVE  RegistryPart(q, pc[q], tx[q])'
  <2>1. RegistryPart(q, pc'[q], tx'[q])
    BY <1>1, <1>2 DEF RInv
  <2>2. Shape(q, pc[q], tx[q])'
    BY <2>1 DEF RegistryPart, Shape, LogShape, UpdateShape, DeleteShape, FaceShape,
                EntryOf, Logged, Enrols, Recognises
  <2>3. RowsFit(q, tx[q])'
    <3>1. CASE q = r
      BY <1>1, <1>2, <1>3, <2>1, <3>1 DEF RegistryPart, RowsFit
    <3>2. CASE q # r
      BY <1>1, <1>2, <1>3, <2>1, <3>2 DEF RegistryPart, RowsFit
    <3> QED
      BY <3>1, <3>2
  <2>4. KeyFits(q, pc[q], tx[q])'
    <3>1. \A o \in Requests : Owns(pc[o], tx[o])' <=> Owns(pc'[o], tx'[o])
      BY DEF Owns
    <3>2. \A o \in Requests \ {q} :
             Owns(pc'[q], tx'[q]) /\ Owns(pc'[o], tx'[o]) => tx'[o].ext # tx'[q].ext
      <4>1. CASE q = r
        BY <1>1, <1>2, <2>1, <4>1 DEF RegistryPart, KeyFits
      <4>2. CASE q # r
        BY <1>1, <1>2, <2>1, <4>2 DEF RegistryPart, KeyFits
      <4> QED
        BY <4>1, <4>2
    <3> QED
      BY <1>1, <1>3, <2>1, <3>1, <3>2 DEF RegistryPart, KeyFits
  <2>5. CopyFits(q, pc[q], tx[q])'
    BY <1>1, <1>3, <1>4, <2>1 DEF RegistryPart, CopyFits, Enrols
  <2>6. MirrorFits(pc[q], tx[q])'
    BY <1>1, <1>3, <1>4, <2>1 DEF RegistryPart, MirrorFits
  <2> QED
    BY <2>2, <2>3, <2>4, <2>5, <2>6 DEF RegistryPart
<1>7. ExternalIdsAreUnique' /\ OnlyRacedFacesAreStale'
  BY <1>1 DEF RInv, ExternalIdsAreUnique, OnlyRacedFacesAreStale, People, Enrolled
<1> QED
  BY <1>5, <1>6, <1>7 DEF RInv

\* A step that leaves the session as it is, to a place where nothing more is
\* asked of it.
LEMMA QuietReg ==
    ASSUME IInv, AInv, RInv, NEW r \in Requests, NEW from, NEW to,
           Move(r, from, tx[r], to), from \notin {"commit", "done"},
           to \in {"error", "insert", "overwrite", "query", "flush"}
    PROVE  RInv'
<1>1. pc[r] = from /\ RegistryPart(r, from, tx[r])
  BY DEF Move, RInv
<1>2. RegistryPart(r, to, tx[r])
  BY <1>1 DEF RegistryPart, Shape, LogShape, UpdateShape, DeleteShape, FaceShape,
              KeyFits, Owns, CopyFits, MirrorFits
<1> QED
  BY <1>2, MoveReg

LEMMA FailReg ==
    ASSUME IInv, AInv, RInv, NEW r \in Requests, NEW from, Fail(r, from),
           from \notin {"commit", "done"}
    PROVE  RInv'
BY QuietReg DEF Fail

LEMMA InferReg ==
    ASSUME IInv, AInv, RInv, NEW r \in Requests, Infer(r) \/ CheckConflict(r)
    PROVE  RInv'
<1>1. ASSUME NEW from \in {"infer", "conflict"}, NEW to,
             to \in {"insert", "overwrite", "query", "flush"},
             Move(r, from, tx[r], to)
      PROVE  RInv'
  BY <1>1, QuietReg
<1>2. CASE Infer(r)
  <2> DEFINE to == CASE tx[r].op \in {"register", "enroll"} -> "insert"
                     [] tx[r].op = "replace" -> "overwrite"
                     [] OTHER -> "query"
  <2>1. to \in {"insert", "overwrite", "query", "flush"}
    OBVIOUS
  <2>2. Move(r, "infer", tx[r], to) \/ Fail(r, "infer")
    BY <1>2 DEF Infer
  <2> HIDE DEF to
  <2> QED
    BY <1>1, <2>1, <2>2, FailReg
<1>3. CASE CheckConflict(r)
  BY <1>1, <1>3, FailReg DEF CheckConflict
<1> QED
  BY <1>2, <1>3

\* The new face copies the status of its person, who is not in the table if
\* the enrolment brings that person itself.
LEMMA InsertFaceReg ==
    ASSUME IInv, AInv, RInv, NEW r \in Requests, InsertFace(r)
    PROVE  RInv'
<1> DEFINE t == [tx[r] EXCEPT !.active = tx[r].person \in People =>
                                           persons[tx[r].person].active]
<1>1. /\ tx[r] \in Session /\ RegistryPart(r, pc[r], tx[r])
      /\ WritesComplete(r, pc[r], tx[r]) /\ OpFits(pc[r], tx[r])
  BY KnownOf
<1>2. CASE Move(r, "insert", t, "check")
  <2>1. /\ t.op = tx[r].op /\ t.person = tx[r].person /\ t.ext = tx[r].ext
        /\ t.inserted = tx[r].inserted /\ t.log = tx[r].log /\ t.rows = tx[r].rows
        /\ t.active = (tx[r].person \in People => persons[tx[r].person].active)
    BY <1>1 DEF Session
  <2> HIDE DEF t
  <2>2. pc[r] = "insert" /\ Enrols(t)
    BY <1>1, <1>2, <2>1 DEF Move, OpFits, Enrols
  <2>3. Shape(r, "check", t)
    BY <1>1, <2>1, <2>2 DEF RegistryPart, Shape, LogShape, UpdateShape, DeleteShape,
                            FaceShape, Enrols
  <2>4. RowsFit(r, t) /\ KeyFits(r, "check", t)
    BY <1>1, <2>1, <2>2 DEF RegistryPart, RowsFit, KeyFits, Owns, Enrols
  <2>5. "person" \in t.inserted => t.person = r /\ r \notin People
    BY <1>1, <2>1, <2>2 DEF WritesComplete, RInv, PeopleAreOver
  <2>6. \A p \in People : persons[p].active \in BOOLEAN
    BY DEF IInv, TypeOK, PersonRow
  <2>7. CopyFits(r, "check", t)
    BY <1>1, <2>1, <2>2, <2>5, <2>6 DEF RegistryPart, CopyFits, Enrols
  <2>8. MirrorFits("check", t)
    BY <2>2 DEF MirrorFits, Enrols
  <2> QED
    BY <1>2, <2>3, <2>4, <2>7, <2>8, MoveReg DEF RegistryPart
<1> QED
  BY <1>2, FailReg DEF InsertFace

LEMMA CheckPersonReg ==
    ASSUME IInv, AInv, RInv, NEW r \in Requests, CheckPerson(r)
    PROVE  RInv'
<1> DEFINE t == [tx[r] EXCEPT !.lock = "key_share", !.inserted = @ \cup {"face"}]
<1>1. /\ tx[r] \in Session /\ RegistryPart(r, pc[r], tx[r]) /\ OpFits(pc[r], tx[r])
  BY KnownOf
<1>2. CASE Move(r, "check", t, "log")
  <2>1. /\ t.op = tx[r].op /\ t.person = tx[r].person /\ t.ext = tx[r].ext
        /\ t.inserted = tx[r].inserted \cup {"face"} /\ t.log = tx[r].log
        /\ t.rows = tx[r].rows /\ t.active = tx[r].active
    BY <1>1 DEF Session
  <2> HIDE DEF t
  <2>2. pc[r] = "check" /\ Enrols(t)
    BY <1>1, <1>2, <2>1 DEF Move, OpFits, Enrols
  <2>3. Shape(r, "log", t)
    BY <1>1, <2>1, <2>2 DEF RegistryPart, Shape, LogShape, UpdateShape, DeleteShape,
                            FaceShape, Enrols, Recognises, Logged
  <2>4. RowsFit(r, t) /\ KeyFits(r, "log", t)
    BY <1>1, <2>1, <2>2 DEF RegistryPart, RowsFit, KeyFits, Owns, Enrols
  <2>5. CopyFits(r, "log", t) /\ MirrorFits("log", t)
    BY <1>1, <2>1, <2>2 DEF RegistryPart, CopyFits, MirrorFits, Enrols
  <2> QED
    BY <1>2, <2>3, <2>4, <2>5, MoveReg DEF RegistryPart
<1> QED
  BY <1>2, FailReg DEF CheckPerson

\* A replacement or a deletion of a face locks a row that is there and that
\* no other session has written.
LEMMA FaceWriteReg ==
    ASSUME IInv, AInv, RInv, NEW r \in Requests, OverwriteFace(r) \/ RemoveFace(r)
    PROVE  RInv'
<1>1. tx[r] \in Session /\ RegistryPart(r, pc[r], tx[r]) /\ OpFits(pc[r], tx[r])
  BY KnownOf
<1>2. ASSUME NEW t, NEW from \in {"overwrite", "remove"},
             NEW to, to = IF from = "overwrite" THEN "log" ELSE "commit",
             Move(r, from, t, to), FaceFree(r, tx[r].face),
             t.op = tx[r].op, t.ext = tx[r].ext, t.inserted = tx[r].inserted,
             t.log = tx[r].log, t.face = tx[r].face,
             t.rows \subseteq {t.face} \cap Enrolled,
             from = "overwrite" => t.rows = {t.face}
      PROVE  RInv'
  <2>1. /\ pc[r] = from
        /\ t.op = IF from = "overwrite" THEN "replace" ELSE "delete_face"
    BY <1>1, <1>2 DEF Move, OpFits
  <2>2. Shape(r, to, t)
    BY <1>1, <1>2, <2>1 DEF RegistryPart, Shape, LogShape, UpdateShape, DeleteShape,
                            FaceShape, Enrols, Recognises, Logged
  <2>3. RowsFit(r, t) /\ KeyFits(r, to, t)
    <3>1. RowsFit(r, t)
      BY <1>2 DEF RowsFit, FaceFree
    <3>2. Owns(to, t) => "person" \in tx[r].inserted
      BY <1>2, <2>1 DEF Owns
    <3>3. ~("person" \in tx[r].inserted)
      BY <1>2, <2>1, KnownOf DEF WritesComplete
    <3> QED
      BY <3>1, <3>2, <3>3 DEF KeyFits
  <2>4. CopyFits(r, to, t) /\ MirrorFits(to, t)
    BY <2>1 DEF CopyFits, MirrorFits, Enrols
  <2> QED
    BY <1>2, <2>2, <2>3, <2>4, MoveReg DEF RegistryPart
<1>3. CASE OverwriteFace(r)
  <2> DEFINE t == [tx[r] EXCEPT !.rows = {tx[r].face}]
  <2>1. /\ t.op = tx[r].op /\ t.ext = tx[r].ext /\ t.inserted = tx[r].inserted
        /\ t.log = tx[r].log /\ t.face = tx[r].face /\ t.rows = {t.face}
    BY <1>1 DEF Session
  <2>2. \/ /\ tx[r].face \in Enrolled /\ Move(r, "overwrite", t, "log")
           /\ FaceFree(r, tx[r].face)
        \/ Fail(r, "overwrite")
    BY <1>3 DEF OverwriteFace
  <2> HIDE DEF t
  <2>3. CASE /\ tx[r].face \in Enrolled /\ Move(r, "overwrite", t, "log")
             /\ FaceFree(r, tx[r].face)
    BY <1>2, <2>1, <2>3
  <2> QED
    BY <2>2, <2>3, FailReg
<1>4. CASE RemoveFace(r)
  <2> DEFINE t == [tx[r] EXCEPT !.rows = {tx[r].face} \cap Enrolled]
  <2>1. /\ t.op = tx[r].op /\ t.ext = tx[r].ext /\ t.inserted = tx[r].inserted
        /\ t.log = tx[r].log /\ t.face = tx[r].face /\ t.rows = {t.face} \cap Enrolled
    BY <1>1 DEF Session
  <2>2. Move(r, "remove", t, "commit") /\ FaceFree(r, tx[r].face)
    BY <1>4 DEF RemoveFace
  <2> HIDE DEF t
  <2> QED
    BY <1>2, <2>1, <2>2
<1> QED
  BY <1>3, <1>4

\* An UPDATE of a person's row has the lock that its columns take, and runs
\* into its trigger only when the status changes.
LEMMA FlushUpdateReg ==
    ASSUME IInv, AInv, RInv, NEW r \in Requests, FlushUpdate(r)
    PROVE  RInv'
<1> DEFINE mode == IF "ext" \in tx[r].sets THEN "update" ELSE "no_key_update"
           t == [tx[r] EXCEPT !.lock = mode]
           to == IF tx[r].ext # None THEN "unique" ELSE AfterUpdate(r)
<1>1. /\ tx[r] \in Session /\ RegistryPart(r, pc[r], tx[r])
      /\ WritesComplete(r, pc[r], tx[r])
  BY KnownOf
<1>2. tx[r].op = "update"
  BY DEF FlushUpdate
<1>3. CASE tx[r].person \in People /\ Move(r, "flush", t, to)
  <2>1. /\ t.op = "update" /\ t.person = tx[r].person /\ t.ext = tx[r].ext
        /\ t.sets = tx[r].sets /\ t.inserted = tx[r].inserted /\ t.log = tx[r].log
        /\ t.rows = tx[r].rows /\ t.todo = tx[r].todo /\ t.active = tx[r].active
        /\ t.lock = IF "ext" \in t.sets THEN "update" ELSE "no_key_update"
    BY <1>1, <1>2 DEF Session
  <2>2. /\ to \in {"unique", "trigger", "refresh"}
        /\ to # "unique" => t.ext = None
        /\ to = "trigger" => "active" \in t.sets
        /\ to = "refresh" /\ "active" \in t.sets => t.active = persons[t.person].active
    BY <2>1 DEF AfterUpdate
  <2> HIDE DEF t, to
  <2>3. pc[r] = "flush"
    BY <1>3 DEF Move
  <2>4. Shape(r, to, t)
    <3>1. LogShape(r, to, t)
      BY <1>1, <2>1, <2>2, <2>3 DEF RegistryPart, Shape, LogShape
    <3>2. UpdateShape(to, t)
      <4>1. t.rows \cup t.todo # {} => "active" \in t.sets
        BY <1>1, <1>2, <2>1 DEF RegistryPart, Shape, UpdateShape
      <4> QED
        BY <2>1, <2>2, <4>1 DEF UpdateShape
    <3> QED
      BY <2>1, <2>2, <3>1, <3>2 DEF Shape, DeleteShape, FaceShape, Enrols, Recognises
  <2>5. RowsFit(r, t) /\ KeyFits(r, to, t)
    BY <1>1, <2>1, <2>2 DEF RegistryPart, RowsFit, KeyFits, Owns, WritesComplete
  <2>6. CopyFits(r, to, t)
    BY <2>1 DEF CopyFits, Enrols
  <2>7. \A f \in t.rows \cup t.todo :
           /\ f \in Requests => pc[f] = "done"
           /\ f \in Enrolled => faces[f].person = t.person
    BY <1>1, <1>2, <2>1 DEF RegistryPart, MirrorFits
  <2>8. MirrorFits(to, t)
    BY <1>3, <2>1, <2>2, <2>7 DEF MirrorFits
  <2> QED
    BY <1>3, <2>4, <2>5, <2>6, <2>8, MoveReg DEF RegistryPart
<1> QED
  BY <1>3, FailReg DEF FlushUpdate

\* The unique index: the id is nobody's in the table, and the session of
\* nobody else is past its own check with it.
LEMMA CheckUniqueReg ==
    ASSUME IInv, AInv, RInv, NEW r \in Requests, CheckUnique(r)
    PROVE  RInv'
<1>1. /\ tx[r] \in Session /\ RegistryPart(r, pc[r], tx[r])
      /\ WritesComplete(r, pc[r], tx[r])
  BY KnownOf
<1>2. ASSUME NEW to, NEW t, Move(r, "unique", t, to), t.ext = tx[r].ext,
             t.person = tx[r].person,
             t.ext # None => KeyFree(r, t.ext) /\ \A p \in People \ {t.person} :
                                                     persons[p].ext # t.ext
      PROVE  KeyFits(r, to, t)
  <2> SUFFICES ASSUME t.ext # None, NEW q \in Requests \ {r},
                      Owns(pc[q], tx[q])
               PROVE  tx[q].ext # t.ext
    BY <1>2 DEF KeyFits, Owns
  <2>1. /\ "person" \in tx[q].inserted => tx[q].ext # t.ext
        /\ tx[q].lock = "update" /\ tx[q].ext = t.ext => pc[q] = "unique"
    BY <1>2 DEF KeyFree
  <2> QED
    BY <2>1 DEF Owns
<1>3. CASE /\ tx[r].op = "create"
           /\ Move(r, "unique", [tx[r] EXCEPT !.inserted = {"person"}], "commit")
           /\ tx[r].ext # None =>
                 KeyFree(r, tx[r].ext) /\ \A p \in People \ {tx[r].person} :
                                             persons[p].ext # tx[r].ext
  <2> DEFINE t == [tx[r] EXCEPT !.inserted = {"person"}]
  <2>1. /\ t.op = "create" /\ t.person = tx[r].person /\ t.ext = tx[r].ext
        /\ t.log = tx[r].log /\ t.rows = tx[r].rows
    BY <1>1, <1>3 DEF Session
  <2>2. Move(r, "unique", t, "commit") /\ pc[r] = "unique"
    BY <1>3 DEF Move
  <2> HIDE DEF t
  <2>3. Shape(r, "commit", t)
    BY <1>1, <2>1, <2>2 DEF RegistryPart, Shape, LogShape, UpdateShape, DeleteShape,
                            FaceShape, Enrols, Recognises, Logged
  <2>4. RowsFit(r, t) /\ CopyFits(r, "commit", t) /\ MirrorFits("commit", t)
    BY <1>1, <2>1 DEF RegistryPart, RowsFit, CopyFits, MirrorFits, Enrols
  <2>5. KeyFits(r, "commit", t)
    BY <1>2, <1>3, <2>1, <2>2
  <2> QED
    BY <2>2, <2>3, <2>4, <2>5, MoveReg DEF RegistryPart
<1>4. CASE /\ tx[r].op = "update" /\ Move(r, "unique", tx[r], AfterUpdate(r))
           /\ tx[r].ext # None =>
                 KeyFree(r, tx[r].ext) /\ \A p \in People \ {tx[r].person} :
                                             persons[p].ext # tx[r].ext
  <2> DEFINE to == AfterUpdate(r)
  <2>1. /\ to \in {"trigger", "refresh"} /\ pc[r] = "unique"
        /\ to = "trigger" => "active" \in tx[r].sets
        /\ to = "refresh" /\ "active" \in tx[r].sets =>
              tx[r].active = persons[tx[r].person].active
    BY <1>4 DEF AfterUpdate, Move
  <2>2. Move(r, "unique", tx[r], to)
    BY <1>4
  <2> HIDE DEF to
  <2>3. Shape(r, to, tx[r])
    BY <1>1, <1>4, <2>1 DEF RegistryPart, Shape, LogShape, UpdateShape, DeleteShape,
                            FaceShape, Enrols, Recognises
  <2>4. RowsFit(r, tx[r]) /\ CopyFits(r, to, tx[r]) /\ MirrorFits(to, tx[r])
    BY <1>1, <1>4, <2>1 DEF RegistryPart, CopyFits, MirrorFits, Enrols
  <2>5. KeyFits(r, to, tx[r])
    BY <1>2, <1>4, <2>2
  <2> QED
    BY <2>2, <2>3, <2>4, <2>5, MoveReg DEF RegistryPart
<1> QED
  BY <1>3, <1>4, FailReg DEF CheckUnique

LEMMA FlushDeleteReg ==
    ASSUME IInv, AInv, RInv, NEW r \in Requests, FlushDelete(r)
    PROVE  RInv'
<1> DEFINE t == [tx[r] EXCEPT !.lock = "update"]
<1>1. /\ tx[r] \in Session /\ RegistryPart(r, pc[r], tx[r])
      /\ WritesComplete(r, pc[r], tx[r])
  BY KnownOf
<1>2. tx[r].op = "delete"
  BY DEF FlushDelete
<1>3. CASE tx[r].person \in People /\ Move(r, "flush", t, "trigger")
  <2>1. /\ t.op = "delete" /\ t.person = tx[r].person /\ t.ext = tx[r].ext
        /\ t.inserted = tx[r].inserted /\ t.log = tx[r].log
        /\ t.rows = tx[r].rows /\ t.todo = tx[r].todo /\ t.lock = "update"
    BY <1>1, <1>2 DEF Session
  <2> HIDE DEF t
  <2>2. pc[r] = "flush"
    BY <1>3 DEF Move
  <2>3. Shape(r, "trigger", t)
    BY <1>1, <2>1, <2>2 DEF RegistryPart, Shape, LogShape, UpdateShape, DeleteShape,
                            FaceShape, Enrols, Recognises
  <2>4. RowsFit(r, t) /\ KeyFits(r, "trigger", t)
    BY <1>1, <2>1 DEF RegistryPart, RowsFit, KeyFits, Owns
  <2>5. CopyFits(r, "trigger", t)
    BY <2>1 DEF CopyFits, Enrols
  <2>6. \A f \in t.rows \cup t.todo :
           /\ f \in Requests => pc[f] = "done"
           /\ f \in Enrolled => faces[f].person = t.person
    BY <1>1, <1>2, <2>1 DEF RegistryPart, MirrorFits
  <2>7. MirrorFits("trigger", t)
    BY <1>3, <2>1, <2>6 DEF MirrorFits
  <2> QED
    BY <1>3, <2>3, <2>4, <2>5, <2>7, MoveReg DEF RegistryPart
<1>4. CASE Move(r, "flush", tx[r], "commit")
  <2>1. pc[r] = "flush"
    BY <1>4 DEF Move
  <2>2. Shape(r, "commit", tx[r])
    BY <1>1, <1>2, <2>1 DEF RegistryPart, Shape, LogShape, UpdateShape, DeleteShape,
                            FaceShape, Enrols, Recognises, Logged
  <2>3. RegistryPart(r, "commit", tx[r])
    BY <1>1, <1>2, <2>2 DEF RegistryPart, KeyFits, Owns, CopyFits, MirrorFits, Enrols
  <2> QED
    BY <1>4, <2>3, MoveReg
<1> QED
  BY <1>3, <1>4 DEF FlushDelete

\* A trigger finds the committed faces of the person, and reaches each one
\* that is still there when nobody else has written it.
LEMMA CascadeReg ==
    ASSUME IInv, AInv, RInv, NEW r \in Requests,
           FireTrigger(r) \/ (\E f \in Ids : TouchRow(r, f))
    PROVE  RInv'
<1>1. /\ tx[r] \in Session /\ RegistryPart(r, pc[r], tx[r]) /\ OpFits(pc[r], tx[r])
  BY KnownOf
<1>2. ASSUME NEW t, NEW from \in {"trigger", "rows"}, Move(r, from, t, "rows"),
             t.op = tx[r].op, t.person = tx[r].person, t.ext = tx[r].ext,
             t.sets = tx[r].sets, t.lock = tx[r].lock, t.log = tx[r].log,
             t.inserted = tx[r].inserted,
             RowsFit(r, t),
             \A f \in t.rows \cup t.todo :
                /\ f \in Requests => pc[f] = "done"
                /\ f \in Enrolled => faces[f].person = t.person,
             t.op = "update" =>
                FacesOf(t.person) \subseteq t.rows \cup t.todo \cup raced
      PROVE  RInv'
  <2>1. pc[r] = from /\ t.op \in {"update", "delete"}
    BY <1>1, <1>2 DEF Move, OpFits
  <2>2. Shape(r, "rows", t)
    BY <1>1, <1>2, <2>1 DEF RegistryPart, Shape, LogShape, UpdateShape, DeleteShape,
                            FaceShape, Enrols, Recognises
  <2>3. KeyFits(r, "rows", t)
    BY <1>1, <1>2, <2>1 DEF RegistryPart, KeyFits, Owns
  <2>4. CopyFits(r, "rows", t) /\ MirrorFits("rows", t)
    BY <1>1, <1>2, <2>1 DEF RegistryPart, CopyFits, MirrorFits, Enrols
  <2> QED
    BY <1>2, <2>2, <2>3, <2>4, MoveReg DEF RegistryPart
<1>3. CASE FireTrigger(r)
  <2> DEFINE t == [tx[r] EXCEPT !.todo = FacesOf(tx[r].person)]
  <2>1. /\ t.op = tx[r].op /\ t.person = tx[r].person /\ t.ext = tx[r].ext
        /\ t.sets = tx[r].sets /\ t.lock = tx[r].lock /\ t.log = tx[r].log
        /\ t.inserted = tx[r].inserted /\ t.rows = tx[r].rows
        /\ t.todo = FacesOf(tx[r].person)
    BY <1>1 DEF Session
  <2>2. Move(r, "trigger", t, "rows") /\ pc[r] = "trigger"
    BY <1>3 DEF FireTrigger, Move
  <2> HIDE DEF t
  <2>3. t.op \in {"update", "delete"}
    BY <1>1, <2>1, <2>2 DEF OpFits
  <2>4. RowsFit(r, t)
    BY <1>1, <2>1 DEF RegistryPart, RowsFit
  <2>5. ASSUME NEW f \in t.rows \cup t.todo
        PROVE  /\ f \in Requests => pc[f] = "done"
               /\ f \in Enrolled => faces[f].person = t.person
    <3>1. CASE f \in tx[r].rows
      BY <1>1, <2>1, <2>3, <3>1 DEF RegistryPart, MirrorFits
    <3>2. CASE f \in FacesOf(tx[r].person)
      BY <2>1, <3>2 DEF FacesOf, AInv, EnrolledAreOver
    <3> QED
      BY <2>1, <3>1, <3>2
  <2> QED
    BY <1>2, <2>1, <2>2, <2>4, <2>5
<1>4. ASSUME NEW f \in Ids, TouchRow(r, f)
      PROVE  RInv'
  <2> DEFINE t == [tx[r] EXCEPT !.todo = @ \ {f}, !.rows = @ \cup ({f} \cap Enrolled)]
  <2>1. /\ t.op = tx[r].op /\ t.person = tx[r].person /\ t.ext = tx[r].ext
        /\ t.sets = tx[r].sets /\ t.lock = tx[r].lock /\ t.log = tx[r].log
        /\ t.inserted = tx[r].inserted
        /\ t.rows = tx[r].rows \cup ({f} \cap Enrolled) /\ t.todo = tx[r].todo \ {f}
    BY <1>1 DEF Session
  <2>2. /\ Move(r, "rows", t, "rows") /\ pc[r] = "rows"
        /\ f \in tx[r].todo /\ FaceFree(r, f)
    BY <1>4 DEF TouchRow, Move
  <2> HIDE DEF t
  <2>3. t.op \in {"update", "delete"}
    BY <1>1, <2>1, <2>2 DEF OpFits
  <2>4. RowsFit(r, t)
    BY <1>1, <2>1, <2>2 DEF RegistryPart, RowsFit, FaceFree
  <2>5. t.rows \cup t.todo \subseteq tx[r].rows \cup tx[r].todo
    BY <2>1, <2>2
  <2>6. ASSUME NEW g \in t.rows \cup t.todo
        PROVE  /\ g \in Requests => pc[g] = "done"
               /\ g \in Enrolled => faces[g].person = t.person
    BY <1>1, <2>1, <2>3, <2>5 DEF RegistryPart, MirrorFits
  <2>7. t.op = "update" => FacesOf(t.person) \subseteq t.rows \cup t.todo \cup raced
    BY <1>1, <2>1, <2>2 DEF RegistryPart, MirrorFits, FacesOf
  <2>8. "rows" \in {"trigger", "rows"}
    OBVIOUS
  <2> QED
    BY <1>2, <2>1, <2>2, <2>4, <2>6, <2>7, <2>8
<1> QED
  BY <1>3, <1>4

LEMMA EndTriggerReg ==
    ASSUME IInv, AInv, RInv, NEW r \in Requests, EndTrigger(r) \/ Refresh(r)
    PROVE  RInv'
<1>1. /\ tx[r] \in Session /\ RegistryPart(r, pc[r], tx[r]) /\ OpFits(pc[r], tx[r])
  BY KnownOf
<1>2. ASSUME NEW from \in {"rows", "refresh"}, NEW to,
             to = IF from = "rows" /\ tx[r].op = "update" THEN "refresh" ELSE "commit",
             from = "rows" => tx[r].todo = {},
             Move(r, from, tx[r], to)
      PROVE  RInv'
  <2>1. pc[r] = from /\ tx[r].op \in {"update", "delete"}
        /\ (from = "refresh" => tx[r].op = "update")
    BY <1>1, <1>2 DEF Move, OpFits
  <2>2. Shape(r, to, tx[r])
    BY <1>1, <1>2, <2>1 DEF RegistryPart, Shape, LogShape, UpdateShape, DeleteShape,
                            FaceShape, Enrols, Recognises, Logged
  <2>3. KeyFits(r, to, tx[r])
    BY <1>1, <1>2, <2>1 DEF RegistryPart, KeyFits, Owns
  <2>4. CopyFits(r, to, tx[r]) /\ MirrorFits(to, tx[r])
    BY <1>1, <1>2, <2>1 DEF RegistryPart, CopyFits, MirrorFits, Enrols
  <2> QED
    BY <1>1, <1>2, <2>2, <2>3, <2>4, MoveReg DEF RegistryPart
<1>3. CASE EndTrigger(r)
  <2>1. tx[r].todo = {} /\ Move(r, "rows", tx[r],
                                IF tx[r].op = "update" THEN "refresh" ELSE "commit")
    BY <1>3 DEF EndTrigger
  <2>2. "rows" \in {"rows", "refresh"}
    OBVIOUS
  <2> QED
    BY <1>2, <2>1, <2>2
<1>4. CASE Refresh(r)
  BY <1>2, <1>4, FailReg DEF Refresh
<1> QED
  BY <1>3, <1>4

\* The similarity query: a hit names a face.
LEMMA QueryReg ==
    ASSUME IInv, AInv, RInv, NEW r \in Requests, Query(r)
    PROVE  RInv'
<1>1. /\ tx[r] \in Session /\ RegistryPart(r, pc[r], tx[r])
      /\ WritesComplete(r, pc[r], tx[r])
  BY KnownOf
<1>2. tx[r].op \in {"verify", "search"}
  BY DEF Query
<1>3. ASSUME NEW f, NEW p, NEW hit, hit => f # None,
             Move(r, "query", [tx[r] EXCEPT !.face = f, !.person = p,
                                            !.active = hit], "log")
      PROVE  RInv'
  <2> DEFINE t == [tx[r] EXCEPT !.face = f, !.person = p, !.active = hit]
  <2>1. /\ t.op = tx[r].op /\ t.face = f /\ t.log = tx[r].log /\ t.active = hit
        /\ t.rows = tx[r].rows /\ t.inserted = tx[r].inserted
    BY <1>1 DEF Session
  <2>2. Move(r, "query", t, "log") /\ pc[r] = "query"
    BY <1>3 DEF Move
  <2> HIDE DEF t
  <2>3. Shape(r, "log", t)
    BY <1>1, <1>2, <1>3, <2>1, <2>2
       DEF RegistryPart, Shape, LogShape, UpdateShape, DeleteShape, FaceShape,
           Enrols, Recognises, Logged
  <2>4. RowsFit(r, t) /\ KeyFits(r, "log", t)
    BY <1>1, <1>2, <2>1 DEF RegistryPart, RowsFit, KeyFits, Owns, WritesComplete
  <2>5. CopyFits(r, "log", t) /\ MirrorFits("log", t)
    BY <1>2, <2>1 DEF CopyFits, MirrorFits, Enrols
  <2> QED
    BY <2>2, <2>3, <2>4, <2>5, MoveReg DEF RegistryPart
<1>4. \A f \in Enrolled : f # None
  BY ConstantsAssumption DEF IInv, TypeOK, Ids
<1>5. \A p : FacesOf(p) \subseteq Enrolled
  BY DEF FacesOf
<1> QED
  BY <1>3, <1>4, <1>5 DEF Query

LEMMA RecordReg ==
    ASSUME IInv, AInv, RInv, NEW r \in Requests, Record(r)
    PROVE  RInv'
<1> DEFINE t == [tx[r] EXCEPT !.log = {Entry(r)}]
<1>1. tx[r] \in Session /\ RegistryPart(r, pc[r], tx[r])
  BY KnownOf
<1>2. Move(r, "log", t, "commit") /\ pc[r] = "log"
  BY DEF Record, Move
<1>3. /\ t.op = tx[r].op /\ t.face = tx[r].face /\ t.person = tx[r].person
      /\ t.ext = tx[r].ext /\ t.sets = tx[r].sets /\ t.lock = tx[r].lock
      /\ t.inserted = tx[r].inserted /\ t.active = tx[r].active
      /\ t.rows = tx[r].rows /\ t.todo = tx[r].todo /\ t.log = {Entry(r)}
  BY <1>1 DEF Session
<1> HIDE DEF t
<1>4. Entry(r) = EntryOf(r, t) /\ Logged(t)
  BY <1>1, <1>2, <1>3 DEF Entry, EntryOf, Enrols, Recognises, RegistryPart, Shape,
                          LogShape, Logged
<1>5. Shape(r, "commit", t)
  BY <1>1, <1>2, <1>3, <1>4 DEF RegistryPart, Shape, LogShape, UpdateShape, DeleteShape,
                                FaceShape, Enrols, Recognises, Logged
<1>6. RowsFit(r, t) /\ KeyFits(r, "commit", t)
  BY <1>1, <1>3, <1>4 DEF RegistryPart, RowsFit, KeyFits, Owns, Logged, Enrols, Recognises
<1>7. CopyFits(r, "commit", t) /\ MirrorFits("commit", t)
  BY <1>1, <1>2, <1>3, <1>4 DEF RegistryPart, CopyFits, MirrorFits, Logged, Enrols, Recognises
<1> QED
  BY <1>2, <1>5, <1>6, <1>7, MoveReg DEF RegistryPart

LEMMA AbandonReg ==
    ASSUME IInv, AInv, RInv, NEW r \in Requests, Rollback(r) \/ Crash(r)
    PROVE  RInv'
<1>1. Move(r, pc[r], NoSession, "failed") /\ pc[r] # "done"
  BY DEF Rollback, Crash, Move, Live
<1>2. RegistryPart(r, "failed", NoSession)
  BY DEF NoSession, RegistryPart, Shape, LogShape, UpdateShape, DeleteShape, FaceShape,
         RowsFit, KeyFits, Owns, CopyFits, MirrorFits, Enrols, Recognises
<1> QED
  BY <1>1, <1>2, MoveReg


-----------------------------------------------------------------------------
(***************************************************************************)
(* The first statement of a handler                                        *)
(***************************************************************************)

\* A new session holds no row and no lock; the person that an enrolment names
\* was there, or is the one it brings.
LEMMA OpenReg ==
    ASSUME IInv, RInv,
           NEW r \in Requests, NEW kind, NEW t \in Session,
           NEW place \in {"infer", "error", "remove", "unique", "conflict",
                          "flush", "refresh"},
           Open(r, kind, t, place),
           t.log = {}, t.rows = {}, t.todo = {}, t.lock = "none",
           t.ext # None => kind # "enroll" /\ t.inserted = {},
           kind \in {"register", "enroll"} =>
              (t.person \in Requests => t.person = r \/ pc[t.person] = "done"),
           kind = "update" => /\ place # "unique"
                              /\ place = "refresh" => t.sets = {}
    PROVE  RInv'
<1> DEFINE s == [t EXCEPT !.op = kind]
<1>1. /\ s.op = kind /\ s.log = {} /\ s.rows = {} /\ s.todo = {}
      /\ s.lock = "none" /\ s.ext = t.ext /\ s.inserted = t.inserted
      /\ s.person = t.person /\ s.sets = t.sets
  BY DEF Session
<1>2. Move(r, "idle", s, place)
  BY DEF Open, Move
<1> HIDE DEF s
<1>3. Shape(r, place, s)
  BY <1>1 DEF Shape, LogShape, UpdateShape, DeleteShape, FaceShape, Enrols
<1>4. RowsFit(r, s) /\ KeyFits(r, place, s)
  BY <1>1 DEF RowsFit, KeyFits, Owns
<1>5. CopyFits(r, place, s) /\ MirrorFits(place, s)
  BY <1>1 DEF CopyFits, MirrorFits, Enrols
<1> QED
  BY <1>2, <1>3, <1>4, <1>5, MoveReg DEF RegistryPart

\* Whatever request arrives.
LEMMA ArriveReg ==
    ASSUME IInv, RInv, NEW r \in Requests, Arrive(r)
    PROVE  RInv'
<1>1. /\ NoSession \in Session /\ NoSession.log = {} /\ NoSession.rows = {}
      /\ NoSession.todo = {} /\ NoSession.lock = "none"
      /\ NoSession.ext = None /\ NoSession.inserted = {}
      /\ NoSession.person \notin Requests
  BY NoSessionType, ConstantsAssumption DEF NoSession
<1>2. ASSUME NEW kind, Refuse(r, kind)
      PROVE  RInv'
  BY <1>1, <1>2, OpenReg DEF Refuse
<1>3. ASSUME NEW kind, NEW t \in Session,
             NEW place \in {"infer", "remove", "unique", "flush"},
             place = "unique" => kind = "create",
             Open(r, kind, t, place),
             t.log = {}, t.rows = {}, t.todo = {}, t.lock = "none",
             t.ext = None \/ (t.inserted = {} /\ kind = "create"),
             kind \in {"register", "enroll"} => t.person \in People \cup {r}
      PROVE  RInv'
  <2>1. kind \in {"register", "enroll"} =>
           (t.person \in Requests => t.person = r \/ pc[t.person] = "done")
    BY <1>3 DEF RInv, PeopleAreOver
  <2> QED
    BY <1>3, <2>1, OpenReg
<1>4. ASSUME NEW p \in Ids
      PROVE  LET t == [NoSession EXCEPT !.person = p]
             IN  /\ t \in Session /\ t.log = {} /\ t.rows = {} /\ t.todo = {}
                 /\ t.lock = "none" /\ t.ext = None /\ t.person = p
  BY NoSessionType, <1>4 DEF NoSession, Session
<1>5. ASSUME NEW p \in Ids, NEW kind,
             kind \in {"register", "enroll"} => p \in People,
             NEW place \in {"infer", "flush"},
             Open(r, kind, [NoSession EXCEPT !.person = p], place)
      PROVE  RInv'
  <2> DEFINE t == [NoSession EXCEPT !.person = p]
  <2>1. /\ t \in Session /\ t.log = {} /\ t.rows = {} /\ t.todo = {}
        /\ t.lock = "none" /\ t.ext = None /\ t.person = p
    BY <1>4
  <2>2. Open(r, kind, t, place)
    BY <1>5
  <2> HIDE DEF t
  <2> QED
    BY <1>3, <1>5, <2>1, <2>2
<1>6. ASSUME NEW p \in Ids, Register(r, p) \/ Verify(r, p) \/ DeletePerson(r, p)
      PROVE  RInv'
  <2>1. \/ p \in People /\ Open(r, "register", [NoSession EXCEPT !.person = p], "infer")
        \/ Open(r, "verify", [NoSession EXCEPT !.person = p], "infer")
        \/ Open(r, "delete", [NoSession EXCEPT !.person = p], "flush")
        \/ \E kind : Refuse(r, kind)
    BY <1>6 DEF Register, Verify, DeletePerson
  <2>2. "infer" \in {"infer", "flush"} /\ "flush" \in {"infer", "flush"}
    OBVIOUS
  <2> QED
    BY <1>2, <1>5, <2>1, <2>2
<1>7. ASSUME NEW n \in Names, EnrollByName(r, n)
      PROVE  RInv'
  <2> DEFINE u == [NoSession EXCEPT !.person = r, !.name = n,
                                    !.inserted = {"person"}]
  <2>1. /\ u \in Session /\ u.log = {} /\ u.rows = {} /\ u.todo = {}
        /\ u.lock = "none" /\ u.ext = None /\ u.person = r
    BY NoSessionType DEF NoSession, Session, Ids
  <2>2. CASE Open(r, "enroll", u, "infer")
    <3> HIDE DEF u
    <3> QED
      BY <1>3, <2>1, <2>2
  <2>3. ASSUME NEW p \in People,
               Open(r, "enroll", [NoSession EXCEPT !.person = p], "infer")
        PROVE  RInv'
    <3>1. p \in Ids /\ "infer" \in {"infer", "flush"}
      BY DEF IInv, TypeOK
    <3> QED
      BY <1>5, <2>3, <3>1
  <2> QED
    BY <1>7, <2>2, <2>3 DEF EnrollByName
<1>8. ASSUME NEW f \in Ids, ReplaceImage(r, f) \/ DeleteFace(r, f)
      PROVE  RInv'
  <2> DEFINE t == [NoSession EXCEPT !.face = f, !.person = faces[f].person]
             u == [NoSession EXCEPT !.face = f]
  <2>1. CASE f \in Enrolled /\ Open(r, "replace", t, "infer")
    <3>1. faces[f].person \in Ids
      BY <2>1 DEF IInv, TypeOK, FaceRow
    <3>2. /\ t \in Session /\ t.log = {} /\ t.rows = {} /\ t.todo = {}
          /\ t.lock = "none" /\ t.ext = None
      BY <3>1, NoSessionType DEF NoSession, Session
    <3> HIDE DEF t
    <3> QED
      BY <1>3, <2>1, <3>2
  <2>2. CASE Open(r, "delete_face", u, "remove")
    <3>1. /\ u \in Session /\ u.log = {} /\ u.rows = {} /\ u.todo = {}
          /\ u.lock = "none" /\ u.ext = None
      BY NoSessionType DEF NoSession, Session
    <3> HIDE DEF u
    <3> QED
      BY <1>3, <2>2, <3>1
  <2> QED
    BY <1>2, <1>8, <2>1, <2>2 DEF ReplaceImage, DeleteFace
<1>9. ASSUME NEW n \in Names, NEW x \in ExtIds \cup {None}, CreatePerson(r, n, x)
      PROVE  RInv'
  <2> DEFINE t == [NoSession EXCEPT !.person = r, !.name = n, !.ext = x]
  <2>1. /\ t \in Session /\ t.log = {} /\ t.rows = {} /\ t.todo = {}
        /\ t.lock = "none" /\ t.inserted = {}
    BY NoSessionType DEF NoSession, Session, Ids
  <2>2. CASE Open(r, "create", t, "unique")
    <3> HIDE DEF t
    <3> QED
      BY <1>3, <2>1, <2>2
  <2> QED
    BY <1>2, <1>9, <2>2 DEF CreatePerson
<1>10. ASSUME NEW p \in Ids, NEW new \in PersonRow, UpdatePerson(r, p, new)
       PROVE  RInv'
  <2> DEFINE
        sets == {a \in Fields : new[a] # persons[p][a]}
        t == [NoSession EXCEPT
                !.person = p, !.sets = sets,
                !.name = IF "name" \in sets THEN new.name ELSE None,
                !.ext = IF "ext" \in sets THEN new.ext ELSE None,
                !.active = "active" \in sets => new.active]
        first == IF "ext" \in sets /\ new.ext # None THEN {"conflict"}
                 ELSE IF sets = {} THEN {"flush", "refresh"}
                 ELSE {"flush"}
  <2>1. /\ t \in Session /\ t.log = {} /\ t.rows = {} /\ t.todo = {}
        /\ t.lock = "none" /\ t.inserted = {} /\ t.sets = sets
    <3> DEFINE n == IF "name" \in sets THEN new.name ELSE None
               x == IF "ext" \in sets THEN new.ext ELSE None
               a == "active" \in sets => new.active
    <3>1. /\ n \in Names \cup {None} /\ x \in ExtIds \cup {None}
          /\ a \in BOOLEAN /\ sets \in SUBSET Fields
      BY DEF PersonRow
    <3>2. t = [NoSession EXCEPT !.person = p, !.sets = sets, !.name = n,
                                !.ext = x, !.active = a]
      OBVIOUS
    <3> HIDE DEF t, n, x, a, sets
    <3>3. t \in Session /\ t.log = {} /\ t.rows = {}
      BY <3>1, <3>2, PatchSession
    <3> QED
      BY <3>2, <3>3 DEF NoSession
  <2>2. /\ first \subseteq {"infer", "error", "remove", "unique", "conflict",
                            "flush", "refresh"}
        /\ "unique" \notin first
        /\ "refresh" \in first => sets = {}
    OBVIOUS
  <2>3. ASSUME NEW place \in first, Open(r, "update", t, place)
        PROVE  RInv'
    <3> HIDE DEF t, first, sets
    <3>1. place \in {"infer", "error", "remove", "unique", "conflict",
                     "flush", "refresh"}
      BY <2>2
    <3> QED
      BY <2>1, <2>2, <2>3, <3>1, OpenReg
  <2> QED
    BY <1>2, <1>10, <2>3 DEF UpdatePerson
<1>11. CASE Search(r)
  BY <1>1, <1>3, <1>11 DEF Search
<1> QED
  BY <1>6, <1>7, <1>8, <1>9, <1>10, <1>11 DEF Arrive

-----------------------------------------------------------------------------
(***************************************************************************)
(* The commit                                                              *)
(***************************************************************************)

\* The external ids and the statuses that a commit leaves.
LEMMA CommittedPersons ==
    ASSUME IInv, NEW r \in Requests, Commit(r), NEW p \in People'
    PROVE  /\ p \in BornPerson(r, tx[r]) =>
                 persons'[p].ext = tx[r].ext /\ persons'[p].active
           /\ p \notin BornPerson(r, tx[r]) =>
                 /\ p \in People
                 /\ persons'[p].ext =
                       IF tx[r].op = "update" /\ p = tx[r].person /\ "ext" \in tx[r].sets
                       THEN tx[r].ext ELSE persons[p].ext
                 /\ persons'[p].active =
                       IF tx[r].op = "update" /\ p = tx[r].person /\ "active" \in tx[r].sets
                       THEN tx[r].active ELSE persons[p].active
<1> DEFINE t == tx[r]
<1>1. persons' = PersonsAfter(r) /\ DOMAIN persons' = People'
  BY DEF Commit, People
<1>2. p \in (People \ GonePerson(t)) \cup BornPerson(r, t)
  BY CommittedRows
<1>3. CASE p \in BornPerson(r, t)
  <2>1. persons'[p] = [name |-> t.name, ext |-> t.ext, active |-> TRUE]
    BY <1>1, <1>2, <1>3 DEF PersonsAfter, GonePerson, BornPerson
  <2>2. persons'[p].ext = t.ext /\ persons'[p].active
    BY <2>1
  <2> QED
    BY <1>3, <2>2
<1>4. CASE p \notin BornPerson(r, t)
  <2>1. p \in People /\ persons[p] \in PersonRow
    BY <1>2, <1>4 DEF IInv, TypeOK
  <2>2. CASE t.op = "update" /\ p = t.person
    <3>1. persons'[p] =
            [persons[p] EXCEPT
               !.name = IF "name" \in t.sets THEN t.name ELSE @,
               !.ext = IF "ext" \in t.sets THEN t.ext ELSE @,
               !.active = IF "active" \in t.sets THEN t.active ELSE @]
      BY <1>1, <1>2, <1>4, <2>2 DEF PersonsAfter, GonePerson, BornPerson
    <3> QED
      BY <1>4, <2>1, <2>2, <3>1 DEF PersonRow
  <2>3. CASE ~(t.op = "update" /\ p = t.person)
    <3>1. persons'[p] = persons[p]
      BY <1>1, <1>2, <1>4, <2>3 DEF PersonsAfter, GonePerson, BornPerson
    <3> QED
      BY <1>4, <2>1, <2>3, <3>1
  <2> QED
    BY <2>2, <2>3
<1> QED
  BY <1>3, <1>4

\* The statuses of the faces that a commit leaves.
LEMMA CommittedStatus ==
    ASSUME IInv, NEW r \in Requests, Commit(r), NEW f \in Enrolled'
    PROVE  faces'[f].active =
              IF f \in BornFace(r, tx[r]) \/ (tx[r].op = "update" /\ f \in tx[r].rows)
              THEN tx[r].active ELSE faces[f].active
<1> DEFINE t == tx[r]
<1>1. faces' = FacesAfter(r) /\ DOMAIN faces' = Enrolled'
  BY DEF Commit, Enrolled
<1>2. f \in (Enrolled \ GoneFaces(t)) \cup BornFace(r, t)
  BY CommittedRows
<1>3. CASE f \in BornFace(r, t)
  <2>1. faces'[f] = [person |-> t.person, image |-> r, active |-> t.active]
    BY <1>1, <1>2, <1>3 DEF FacesAfter, GoneFaces, BornFace
  <2> QED
    BY <1>3, <2>1
<1>4. CASE f \notin BornFace(r, t)
  <2>1. f \in Enrolled /\ faces[f] \in FaceRow
    BY <1>2, <1>4 DEF IInv, TypeOK
  <2>2. faces'[f] =
          [faces[f] EXCEPT
             !.image = IF t.op = "replace" /\ f \in t.rows THEN r ELSE @,
             !.active = IF t.op = "update" /\ f \in t.rows THEN t.active ELSE @]
    BY <1>1, <1>2, <1>4 DEF FacesAfter, GoneFaces, BornFace
  <2> QED
    BY <1>4, <2>1, <2>2 DEF FaceRow
<1> QED
  BY <1>3, <1>4

\* What is known of a session that commits.
LEMMA CommitKnown ==
    ASSUME IInv, AInv, RInv, NEW r \in Requests, Commit(r)
    PROVE  /\ pc[r] = "commit" /\ r \notin People /\ r \notin Enrolled
           /\ tx[r] \in Session /\ LockFits(r, tx[r])
           /\ SessionInv(r, "commit", tx[r]) /\ RegistryPart(r, "commit", tx[r])
           /\ tx' = [tx EXCEPT ![r] = NoSession]
           /\ pc' = [pc EXCEPT ![r] = "done"]
           /\ raced' = raced \cup NewlyRaced(r)
           /\ \A q \in Requests : pc[q] = "done" \/ q = r => pc'[q] = "done"
           /\ \A q \in Requests \ {r} : tx'[q] = tx[q] /\ pc'[q] = pc[q]
           /\ tx'[r] = NoSession
<1>1. pc[r] = "commit" /\ tx' = [tx EXCEPT ![r] = NoSession]
      /\ pc' = [pc EXCEPT ![r] = "done"] /\ raced' = raced \cup NewlyRaced(r)
  BY DEF Commit
<1>2. pc \in [Requests -> Places] /\ tx \in [Requests -> Session]
  BY DEF IInv, TypeOK
<1>3. r \notin People /\ r \notin Enrolled
  BY <1>1 DEF RInv, PeopleAreOver, AInv, EnrolledAreOver
<1> QED
  BY <1>1, <1>2, <1>3 DEF IInv, RInv

\* An external id in the table is as before the commit, or is the one that
\* the committing session was alone with.
LEMMA CommittedKeys ==
    ASSUME IInv, AInv, RInv, NEW r \in Requests, Commit(r), NEW p \in People'
    PROVE  \/ persons'[p].ext = None
           \/ p \in People /\ persons'[p].ext = persons[p].ext
           \/ /\ Owns("commit", tx[r])
              /\ p = tx[r].person /\ persons'[p].ext = tx[r].ext
<1>1. WritesComplete(r, "commit", tx[r]) /\ UpdateShape("commit", tx[r])
  BY CommitKnown DEF SessionInv, RegistryPart, Shape
<1>2. CASE p \in BornPerson(r, tx[r])
  BY <1>1, <1>2, CommittedPersons DEF BornPerson, WritesComplete, Owns
<1>3. CASE tx[r].op = "update" /\ p = tx[r].person /\ "ext" \in tx[r].sets
           /\ p \notin BornPerson(r, tx[r])
  <2>1. persons'[p].ext = tx[r].ext
    BY <1>3, CommittedPersons
  <2>2. tx[r].lock = "update"
    BY <1>1, <1>3 DEF UpdateShape
  <2> QED
    BY <1>3, <2>1, <2>2 DEF Owns
<1>4. CASE ~(tx[r].op = "update" /\ p = tx[r].person /\ "ext" \in tx[r].sets)
           /\ p \notin BornPerson(r, tx[r])
  BY <1>4, CommittedPersons
<1> QED
  BY <1>2, <1>3, <1>4

\* The locks that a change of status holds from its flush to its commit.
LEMMA PatchHolds ==
    ASSUME NEW place \in {"rows", "refresh", "commit"}, NEW t, UpdateShape(place, t),
           t.op = "update", "active" \in t.sets
    PROVE  t.lock \in {"update", "no_key_update"}
BY DEF UpdateShape

\* An enrolment that overlaps a change of its person's status is in raced when
\* the change commits ...
LEMMA PatchRaces ==
    ASSUME IInv, AInv, RInv, NEW r \in Requests, Commit(r),
           NEW q \in Requests \ {r}, tx[q].person = tx[r].person,
           Enrols(tx[q]), pc[q] \in {"check", "log", "commit"},
           tx[r].op = "update", "active" \in tx[r].sets
    PROVE  q \in raced'
<1>1. RegistryPart(r, "commit", tx[r]) /\ raced' = raced \cup NewlyRaced(r)
  BY CommitKnown
<1>2. tx[r].lock \in {"update", "no_key_update"}
  BY <1>1, PatchHolds DEF RegistryPart, Shape
<1>3. Toggling(r, tx[r].person) /\ Inserting(q, tx[r].person)
  BY <1>2 DEF Toggling, Inserting, Enrols
<1>4. q \in NewlyRaced(r)
  BY <1>3 DEF NewlyRaced
<1> QED
  BY <1>1, <1>4

\* ... or when the enrolment itself does.
LEMMA EnrolmentRaces ==
    ASSUME IInv, AInv, RInv, NEW r \in Requests, Commit(r),
           NEW q \in Requests \ {r}, tx[q].person = tx[r].person,
           "face" \in tx[r].inserted,
           tx[q].op = "update", "active" \in tx[q].sets,
           pc[q] \in {"rows", "refresh", "commit"}
    PROVE  r \in raced'
<1>1. /\ SessionInv(r, "commit", tx[r]) /\ raced' = raced \cup NewlyRaced(r)
      /\ RegistryPart(q, pc[q], tx[q])
  BY CommitKnown DEF RInv
<1>2. tx[q].lock \in {"update", "no_key_update"}
  BY <1>1, PatchHolds DEF RegistryPart, Shape
<1>3. tx[r].op # "update"
  BY <1>1 DEF SessionInv, NewFaceHoldsPerson
<1>4. Toggling(q, tx[r].person) /\ ~Toggling(r, tx[r].person)
  BY <1>2, <1>3 DEF Toggling
<1>5. r \in NewlyRaced(r)
  BY <1>4 DEF NewlyRaced
<1> QED
  BY <1>1, <1>5

\* The external id that another session is alone with stays its own.
LEMMA CommitKeys ==
    ASSUME IInv, AInv, RInv, NEW r \in Requests, Commit(r)
    PROVE  /\ ExternalIdsAreUnique'
           /\ \A q \in Requests \ {r} : KeyFits(q, pc[q], tx[q])'
<1>1. KeyFits(r, "commit", tx[r]) /\ pc[r] = "commit"
  BY CommitKnown DEF RegistryPart
<1>2. ASSUME NEW p \in People', NEW q \in People',
             persons'[p].ext = persons'[q].ext, p # q
      PROVE  persons'[p].ext = None
  <2>1. CASE p \in People /\ persons'[p].ext = persons[p].ext
    <3>1. \/ persons'[q].ext = None
          \/ q \in People /\ persons'[q].ext = persons[q].ext
          \/ Owns("commit", tx[r]) /\ q = tx[r].person /\ persons'[q].ext = tx[r].ext
      BY CommittedKeys
    <3>2. CASE q \in People /\ persons'[q].ext = persons[q].ext
      BY <1>2, <2>1, <3>2 DEF RInv, ExternalIdsAreUnique
    <3>3. CASE /\ Owns("commit", tx[r])
               /\ q = tx[r].person /\ persons'[q].ext = tx[r].ext
      BY <1>1, <1>2, <2>1, <3>3 DEF KeyFits
    <3> QED
      BY <1>2, <3>1, <3>2, <3>3
  <2>2. CASE /\ Owns("commit", tx[r])
             /\ p = tx[r].person /\ persons'[p].ext = tx[r].ext
    BY <1>1, <1>2, <2>2, CommittedKeys DEF KeyFits
  <2> QED
    BY <2>1, <2>2, CommittedKeys
<1>3. ASSUME NEW q \in Requests \ {r}
      PROVE  KeyFits(q, pc[q], tx[q])'
  <2>1. /\ tx'[q] = tx[q] /\ pc'[q] = pc[q] /\ KeyFits(q, pc[q], tx[q])
        /\ \A o \in Requests \ {r} : tx'[o] = tx[o] /\ pc'[o] = pc[o]
        /\ tx'[r] = NoSession
    BY CommitKnown DEF RInv, RegistryPart
  <2>2. ~Owns(pc[r], tx[r])'
    BY <2>1 DEF Owns, NoSession
  <2>3. \A o \in Requests \ {r} : Owns(pc[o], tx[o])' <=> Owns(pc[o], tx[o])
    BY <2>1 DEF Owns
  <2>4. Owns(pc[q], tx[q]) => tx[q].ext # None
    BY DEF Owns
  <2>5. ASSUME Owns(pc[q], tx[q]), NEW p \in People' \ {tx[q].person}
        PROVE  persons'[p].ext # tx[q].ext
    BY <1>1, <2>1, <2>4, <2>5, CommittedKeys DEF KeyFits
  <2>6. ASSUME Owns(pc[q], tx[q]), NEW o \in Requests \ {q}, Owns(pc[o], tx[o])'
        PROVE  tx'[o].ext # tx'[q].ext
    BY <2>1, <2>2, <2>3, <2>6 DEF KeyFits
  <2> QED
    BY <2>1, <2>3, <2>5, <2>6 DEF KeyFits
<1> QED
  BY <1>2, <1>3 DEF ExternalIdsAreUnique

\* The rows that another session has locked are still there.
LEMMA CommitRows ==
    ASSUME IInv, AInv, RInv, NEW r \in Requests, Commit(r),
           NEW q \in Requests \ {r}
    PROVE  RowsFit(q, tx[q])'
<1>1. /\ tx'[q] = tx[q] /\ RowsFit(q, tx[q])
      /\ \A o \in Requests \ {r} : tx'[o] = tx[o]
      /\ tx'[r] = NoSession
  BY CommitKnown DEF RInv, RegistryPart
<1>2. tx[q].rows \subseteq Enrolled'
  BY <1>1, CommittedRows DEF RowsFit, GoneFaces
<1>3. ASSUME NEW o \in Requests \ {q}
      PROVE  tx'[o].rows \cap tx'[q].rows = {}
  BY <1>1 DEF RowsFit, NoSession
<1> QED
  BY <1>1, <1>2, <1>3 DEF RowsFit

\* An enrolment in flight whose person's status a commit changes is raced.
LEMMA CommitCopies ==
    ASSUME IInv, AInv, RInv, NEW r \in Requests, Commit(r),
           NEW q \in Requests \ {r}
    PROVE  CopyFits(q, pc[q], tx[q])'
<1>1. /\ tx'[q] = tx[q] /\ pc'[q] = pc[q] /\ CopyFits(q, pc[q], tx[q])
      /\ pc[r] = "commit" /\ raced \subseteq raced'
      /\ \A o \in Requests : pc[o] = "done" => pc'[o] = "done"
  BY CommitKnown DEF RInv, RegistryPart
<1> SUFFICES ASSUME Enrols(tx[q])
             PROVE  /\ tx[q].person \in Requests =>
                          tx[q].person = q \/ pc'[tx[q].person] = "done"
                    /\ pc[q] \in {"check", "log", "commit"} =>
                          \/ q \in raced'
                          \/ /\ tx[q].person \in People' =>
                                   tx[q].active = persons'[tx[q].person].active
                             /\ "person" \in tx[q].inserted => tx[q].active
  BY <1>1 DEF CopyFits, Enrols
<1>2. tx[q].person \in Requests => tx[q].person = q \/ pc[tx[q].person] = "done"
  BY <1>1 DEF CopyFits
<1>3. tx[q].person \notin BornPerson(r, tx[r])
  BY <1>1, <1>2 DEF BornPerson
<1>4. ASSUME pc[q] \in {"check", "log", "commit"}, q \notin raced',
             tx[q].person \in People'
      PROVE  tx[q].active = persons'[tx[q].person].active
  <2>1. ~(tx[r].op = "update" /\ tx[q].person = tx[r].person /\ "active" \in tx[r].sets)
    BY <1>4, PatchRaces
  <2>2. tx[q].person \in People
        /\ persons'[tx[q].person].active = persons[tx[q].person].active
    BY <1>3, <1>4, <2>1, CommittedPersons
  <2> QED
    BY <1>1, <1>4, <2>2 DEF CopyFits
<1> QED
  BY <1>1, <1>2, <1>4 DEF CopyFits

\* An update or a deletion in flight keeps its person and that person's
\* status; a face it does not know is raced.
LEMMA CommitMirrors ==
    ASSUME IInv, AInv, RInv, NEW r \in Requests, Commit(r),
           NEW q \in Requests \ {r}
    PROVE  MirrorFits(pc[q], tx[q])'
<1> DEFINE p == tx[q].person
           known == tx[q].rows \cup tx[q].todo
<1>1. /\ tx'[q] = tx[q] /\ pc'[q] = pc[q]
      /\ MirrorFits(pc[q], tx[q]) /\ UpdateShape(pc[q], tx[q])
      /\ pc[r] = "commit" /\ raced \subseteq raced' /\ r \notin People
      /\ \A o \in Requests : pc[o] = "done" => pc'[o] = "done"
      /\ UpdateShape("commit", tx[r]) /\ LockFits(r, tx[r])
  BY CommitKnown DEF RInv, RegistryPart, Shape
<1>2. tx[q].person = tx[r].person => <<tx[q].lock, tx[r].lock>> \notin Conflicts
  BY <1>1 DEF LockFits
<1>3. tx[q].lock \in LockModes
  BY DEF IInv, TypeOK, Session
<1>4. ASSUME tx[q].op \in {"update", "delete"}, tx[q].lock # "none"
      PROVE  p \in People /\ p \in People'
  <2>1. p \in People
    BY <1>1, <1>4 DEF MirrorFits
  <2>2. p \notin GonePerson(tx[r])
    BY <1>2, <1>3, <1>4 DEF GonePerson, LockModes, Conflicts
  <2> QED
    BY <2>1, <2>2, CommittedRows
<1>5. ASSUME tx[q].op \in {"update", "delete"}, NEW f \in known
      PROVE  /\ f \in Requests => pc'[f] = "done"
             /\ f \in Enrolled' => faces'[f].person = p
  <2>1. f \in Requests => pc[f] = "done"
    BY <1>1, <1>5 DEF MirrorFits
  <2>2. f \notin BornFace(r, tx[r])
    BY <1>1, <2>1 DEF BornFace
  <2> QED
    BY <1>1, <1>5, <2>1, <2>2, CommittedRows DEF MirrorFits
<1>6. ASSUME tx[q].op = "update", "active" \in tx[q].sets,
             pc[q] \in {"rows", "refresh", "commit"},
             NEW f \in FacesOf(p)'
      PROVE  f \in FacesOf(p) \cup raced'
  <2>1. f \in Enrolled' /\ faces'[f].person = p
    BY <1>1 DEF FacesOf
  <2>2. CASE f \in BornFace(r, tx[r])
    <3>1. f = r /\ "face" \in tx[r].inserted /\ tx[r].person = p
      BY <2>1, <2>2, CommittedRows DEF BornFace
    <3> QED
      BY <1>6, <3>1, EnrolmentRaces
  <2>3. CASE f \notin BornFace(r, tx[r])
    BY <2>1, <2>3, CommittedRows DEF FacesOf
  <2> QED
    BY <2>2, <2>3
<1>7. ASSUME tx[q].op = "update", "active" \in tx[q].sets,
             pc[q] \in {"refresh", "commit"}
      PROVE  persons'[p].active = persons[p].active
  <2>1. tx[q].lock \in {"update", "no_key_update"}
    BY <1>1, <1>7, PatchHolds
  <2>2. p \in People /\ p \in People' /\ p \notin BornPerson(r, tx[r])
    BY <1>1, <1>4, <1>7, <2>1 DEF BornPerson
  <2>3. ~(tx[r].op = "update" /\ p = tx[r].person /\ "active" \in tx[r].sets)
    <3>1. tx[r].op = "update" /\ "active" \in tx[r].sets
             => tx[r].lock \in {"update", "no_key_update"}
      BY <1>1, PatchHolds
    <3> QED
      BY <1>2, <2>1, <3>1 DEF Conflicts
  <2> QED
    BY <2>2, <2>3, CommittedPersons
<1>8. tx[q].op = "update" /\ pc[q] = "rows" => "active" \in tx[q].sets
  BY <1>1 DEF UpdateShape
<1>9. ASSUME tx[q].op = "update", pc[q] = "rows"
      PROVE  FacesOf(p)' \subseteq known \cup raced'
  BY <1>1, <1>6, <1>8, <1>9 DEF MirrorFits
<1>10. ASSUME tx[q].op = "update", pc[q] \in {"refresh", "commit"},
              "active" \in tx[q].sets
       PROVE  \/ tx[q].active = persons'[p].active
              \/ FacesOf(p)' \subseteq tx[q].rows \cup raced'
  BY <1>1, <1>6, <1>7, <1>10 DEF MirrorFits
<1> QED
  BY <1>1, <1>4, <1>5, <1>9, <1>10 DEF MirrorFits

\* A face that the commit brings has its person's status, or is raced; so has
\* one that was there, whatever the commit does to that person.
LEMMA CommitStatus ==
    ASSUME IInv, AInv, RInv, NEW r \in Requests, Commit(r)
    PROVE  OnlyRacedFacesAreStale'
<1> SUFFICES ASSUME NEW f \in Enrolled', f \notin raced',
                    faces'[f].person \in People'
             PROVE  faces'[f].active = persons'[faces'[f].person].active
  BY DEF OnlyRacedFacesAreStale
<1> DEFINE t == tx[r]
<1>1. /\ SessionInv(r, "commit", t) /\ RegistryPart(r, "commit", t)
      /\ f \notin raced /\ r \notin People /\ t \in Session
  BY CommitKnown
<1>2. CASE f \in BornFace(r, t)
  <2>1. /\ f = r /\ "face" \in t.inserted /\ Enrols(t)
        /\ faces'[f].person = t.person /\ faces'[f].active = t.active
    BY <1>1, <1>2, CommittedRows, CommittedStatus
       DEF BornFace, SessionInv, NewFaceHoldsPerson, Enrols
  <2>2. /\ t.person \in People => t.active = persons[t.person].active
        /\ "person" \in t.inserted => t.active
    BY <1>1, <2>1 DEF RegistryPart, CopyFits
  <2>3. CASE t.person \in BornPerson(r, t)
    <3>1. t.active /\ persons'[t.person].active
      BY <2>1, <2>2, <2>3, CommittedPersons DEF BornPerson
    <3>2. persons'[t.person].active \in BOOLEAN /\ t.active \in BOOLEAN
      BY <1>1, <2>1, CommitType DEF TypeOK, PersonRow, Session
    <3> QED
      BY <2>1, <3>1, <3>2
  <2>4. CASE t.person \notin BornPerson(r, t)
    <3>1. t.op # "update"
      BY <2>1 DEF Enrols
    <3> QED
      BY <2>1, <2>2, <2>4, <3>1, CommittedPersons
  <2> QED
    BY <2>3, <2>4
<1>3. CASE f \notin BornFace(r, t)
  <2> DEFINE p == faces[f].person
  <2>1. /\ f \in Enrolled /\ faces'[f].person = p /\ p \in People
        /\ faces[f].active = persons[p].active
    BY <1>1, <1>3, CommittedRows
       DEF IInv, FacesHaveAPerson, RInv, OnlyRacedFacesAreStale
  <2>2. p \notin BornPerson(r, t)
    BY <1>1, <2>1 DEF BornPerson
  <2>3. CASE t.op = "update" /\ f \in t.rows
    <3>1. p = t.person /\ "active" \in t.sets
      BY <1>1, <2>1, <2>3 DEF RegistryPart, MirrorFits, Shape, UpdateShape
    <3> QED
      BY <2>1, <2>2, <2>3, <3>1, CommittedPersons, CommittedStatus
  <2>4. CASE t.op = "update" /\ p = t.person /\ "active" \in t.sets /\ f \notin t.rows
    <3>1. f \in FacesOf(t.person)
      BY <2>1, <2>4 DEF FacesOf
    <3>2. t.active = persons[p].active
      BY <1>1, <2>4, <3>1 DEF RegistryPart, MirrorFits
    <3> QED
      BY <1>3, <2>1, <2>2, <2>4, <3>2, CommittedPersons, CommittedStatus
  <2>5. CASE /\ ~(t.op = "update" /\ f \in t.rows)
             /\ ~(t.op = "update" /\ p = t.person /\ "active" \in t.sets)
    BY <1>3, <2>1, <2>2, <2>5, CommittedPersons, CommittedStatus
  <2> QED
    BY <2>3, <2>4, <2>5
<1> QED
  BY <1>2, <1>3

LEMMA CommitReg ==
    ASSUME IInv, AInv, RInv, NEW r \in Requests, Commit(r)
    PROVE  RInv'
<1>1. PeopleAreOver'
  BY CommittedRows, CommitKnown DEF RInv, PeopleAreOver, BornPerson
<1>2. ASSUME NEW q \in Requests \ {r}
      PROVE  RegistryPart(q, pc[q], tx[q])'
  <2>1. tx'[q] = tx[q] /\ pc'[q] = pc[q] /\ Shape(q, pc[q], tx[q])
    BY CommitKnown DEF RInv, RegistryPart
  <2>2. Shape(q, pc[q], tx[q])'
    BY <2>1 DEF Shape, LogShape, UpdateShape, DeleteShape, FaceShape, EntryOf,
                Logged, Enrols, Recognises
  <2> QED
    BY <2>2, CommitRows, CommitKeys, CommitCopies, CommitMirrors DEF RegistryPart
<1>3. RegistryPart(r, pc[r], tx[r])'
  <2>1. tx'[r] = NoSession /\ pc'[r] = "done"
    BY CommitKnown
  <2> QED
    BY <2>1 DEF NoSession, RegistryPart, Shape, LogShape, UpdateShape, DeleteShape,
                FaceShape, RowsFit, KeyFits, Owns, CopyFits, MirrorFits, Enrols,
                Recognises, Logged
<1> QED
  BY <1>1, <1>2, <1>3, CommitKeys, CommitStatus DEF RInv

-----------------------------------------------------------------------------
(***************************************************************************)
(* The theorems                                                            *)
(***************************************************************************)

LEMMA InitReg == Init => RInv
<1> SUFFICES ASSUME Init PROVE RInv
  OBVIOUS
<1> USE DEF Init
<1>1. PICK P \in SUBSET Seeds : persons \in [P -> PersonRow]
  OBVIOUS
<1>2. PICK F \in SUBSET People :
          faces = [f \in F |-> [person |-> f, image |-> f,
                                active |-> persons[f].active]]
  OBVIOUS
<1>3. PeopleAreOver
  BY <1>1, ConstantsAssumption DEF PeopleAreOver, People
<1>4. ASSUME NEW r \in Requests
      PROVE  RegistryPart(r, pc[r], tx[r])
  BY DEF NoSession, RegistryPart, Shape, LogShape, UpdateShape, DeleteShape,
         FaceShape, RowsFit, KeyFits, Owns, CopyFits, MirrorFits, Enrols,
         Recognises, Logged
<1>5. OnlyRacedFacesAreStale
  BY <1>2 DEF OnlyRacedFacesAreStale, Enrolled
<1> QED
  BY <1>3, <1>4, <1>5 DEF RInv

LEMMA NextReg == IInv /\ AInv /\ RInv /\ [Next]_vars => RInv'
<1> SUFFICES ASSUME IInv, AInv, RInv, [Next]_vars PROVE RInv'
  OBVIOUS
<1>1. ASSUME NEW r \in Requests, Step(r)
      PROVE  RInv'
  BY <1>1, InferReg, InsertFaceReg, CheckPersonReg, FaceWriteReg, FlushUpdateReg,
     CheckUniqueReg, FlushDeleteReg, CascadeReg, EndTriggerReg, QueryReg,
     RecordReg, CommitReg, AbandonReg DEF Step
<1>2. CASE UNCHANGED vars
  <2>1. /\ People' = People /\ Enrolled' = Enrolled /\ \A p : FacesOf(p)' = FacesOf(p)
        /\ UNCHANGED <<persons, faces, logs, pc, tx, raced>>
    BY <1>2 DEF vars, People, Enrolled, FacesOf
  <2>2. ASSUME NEW r \in Requests
        PROVE  RegistryPart(r, pc[r], tx[r])'
    <3>1. RegistryPart(r, pc[r], tx[r])
      BY DEF RInv
    <3> QED
      BY <2>1, <3>1
         DEF RegistryPart, Shape, LogShape, UpdateShape, DeleteShape, FaceShape,
             EntryOf, RowsFit, KeyFits, Owns, CopyFits, MirrorFits, Enrols,
             Recognises, Logged
  <2> QED
    BY <2>1, <2>2
       DEF RInv, PeopleAreOver, ExternalIdsAreUnique, OnlyRacedFacesAreStale
<1> QED
  BY <1>1, <1>2, ArriveReg, AbandonReg DEF Next

LEMMA RegistryInvariance == Spec => []RInv
BY InitReg, NextReg, Invariance, AuditInvariance, PTL DEF Spec

\* No two persons ever share an external id, although update_person and
\* create_person look for the id in one statement and write it in another:
\* the unique index makes the second of two writers wait, and look again.
THEOREM ExternalIdsStayUnique == Spec => []ExternalIdsAreUnique
<1>1. RInv => ExternalIdsAreUnique
  BY DEF RInv
<1> QED
  BY <1>1, RegistryInvariance, PTL

\* The triggers keep faces.is_active equal to its person's status for every
\* face but those whose insertion overlapped a change of that status.
THEOREM OnlyRacesBreakTheMirror == Spec => []OnlyRacedFacesAreStale
<1>1. RInv => OnlyRacedFacesAreStale
  BY DEF RInv
<1> QED
  BY <1>1, RegistryInvariance, PTL

-----------------------------------------------------------------------------
(***************************************************************************)
(* The refinement: what a commit shows is one operation of Registry        *)
(***************************************************************************)

\* The enrolled faces as Registry sees them, and one such face.
ShownFace(f) == [person |-> faces[f].person, image |-> faces[f].image]
Shown == [f \in Enrolled |-> ShownFace(f)]

LEMMA InitRefines == Init => Abstract!Init
<1> SUFFICES ASSUME Init PROVE Abstract!Init
  OBVIOUS
<1> USE DEF Init
<1>1. PICK P \in SUBSET Seeds : persons \in [P -> PersonRow]
  OBVIOUS
<1>2. PICK F \in SUBSET People :
          faces = [f \in F |-> [person |-> f, image |-> f,
                                active |-> persons[f].active]]
  OBVIOUS
<1>3. Enrolled = F /\ Shown = [f \in F |-> [person |-> f, image |-> f]]
  BY <1>2 DEF Enrolled, Shown, ShownFace
<1>4. \E Q \in SUBSET Ids : persons \in [Q -> Abstract!Person]
  BY <1>1 DEF Ids, PersonRow, Abstract!Person
<1>5. Abstract!Distinct(persons)
  BY DEF Abstract!Distinct, ExternalIdsAreUnique, People
<1>6. \E G \in SUBSET DOMAIN persons : Shown = [f \in G |-> [person |-> f, image |-> f]]
  BY <1>3 DEF People
<1>7. logs = {Abstract!EnrolmentEntry(f, f, f) : f \in DOMAIN Shown}
  BY DEF Shown, Abstract!EnrolmentEntry
<1> HIDE DEF Init
<1> QED
  BY <1>4, <1>5, <1>6, <1>7 DEF Abstract!Init, Shown, ShownFace

\* The faces and the entries that a commit shows.
LEMMA CommittedShown ==
    ASSUME IInv, NEW r \in Requests, Commit(r)
    PROVE  Shown' =
             [f \in (Enrolled \ GoneFaces(tx[r])) \cup BornFace(r, tx[r]) |->
                IF f \in BornFace(r, tx[r])
                THEN [person |-> tx[r].person, image |-> r]
                ELSE [person |-> faces[f].person,
                      image |-> IF tx[r].op = "replace" /\ f \in tx[r].rows
                                THEN r ELSE faces[f].image]]
<1> DEFINE t == tx[r]
<1>1. faces' = FacesAfter(r) /\ DOMAIN faces' = Enrolled'
  BY DEF Commit, Enrolled
<1>2. Enrolled' = (Enrolled \ GoneFaces(t)) \cup BornFace(r, t)
  BY CommittedRows
<1>3. ASSUME NEW f \in Enrolled'
      PROVE  /\ faces'[f].person = IF f \in BornFace(r, t) THEN t.person
                                   ELSE faces[f].person
             /\ faces'[f].image = IF f \in BornFace(r, t) \/ (t.op = "replace" /\ f \in t.rows)
                                  THEN r ELSE faces[f].image
  <2>1. CASE f \in BornFace(r, t)
    <3>1. faces'[f] = [person |-> t.person, image |-> r, active |-> t.active]
      BY <1>1, <1>2, <2>1 DEF FacesAfter, GoneFaces, BornFace
    <3> QED
      BY <2>1, <3>1
  <2>2. CASE f \notin BornFace(r, t)
    <3>1. f \in Enrolled /\ faces[f] \in FaceRow
      BY <1>2, <2>2 DEF IInv, TypeOK
    <3>2. faces'[f] =
            [faces[f] EXCEPT
               !.image = IF t.op = "replace" /\ f \in t.rows THEN r ELSE @,
               !.active = IF t.op = "update" /\ f \in t.rows THEN t.active ELSE @]
      BY <1>1, <1>2, <2>2 DEF FacesAfter, GoneFaces, BornFace
    <3> QED
      BY <2>2, <3>1, <3>2 DEF FaceRow
  <2> QED
    BY <2>1, <2>2
<1>4. Shown' = [f \in Enrolled' |-> [person |-> faces'[f].person,
                                     image |-> faces'[f].image]]
  BY DEF Shown, ShownFace
<1>5. ASSUME NEW f \in Enrolled'
      PROVE  [person |-> faces'[f].person, image |-> faces'[f].image] =
                IF f \in BornFace(r, t)
                THEN [person |-> t.person, image |-> r]
                ELSE [person |-> faces[f].person,
                      image |-> IF t.op = "replace" /\ f \in t.rows
                                THEN r ELSE faces[f].image]
  BY <1>3
<1> QED
  BY <1>2, <1>4, <1>5

\* The same for a commit that brings no face.
LEMMA ShownWithoutBirth ==
    ASSUME IInv, NEW r \in Requests, Commit(r), BornFace(r, tx[r]) = {}
    PROVE  Shown' =
             [f \in Enrolled \ GoneFaces(tx[r]) |->
                [person |-> faces[f].person,
                 image |-> IF tx[r].op = "replace" /\ f \in tx[r].rows
                           THEN r ELSE faces[f].image]]
<1>1. \A f : f \notin BornFace(r, tx[r])
  OBVIOUS
<1>2. (Enrolled \ GoneFaces(tx[r])) \cup BornFace(r, tx[r]) = Enrolled \ GoneFaces(tx[r])
  OBVIOUS
<1> QED
  BY <1>1, <1>2, CommittedShown

LEMMA CommittedLog ==
    ASSUME IInv, AInv, RInv, NEW r \in Requests, Commit(r)
    PROVE  logs' = logs \cup (IF Logged(tx[r]) THEN {EntryOf(r, tx[r])} ELSE {})
<1>1. LogShape(r, "commit", tx[r])
  BY CommitKnown DEF RegistryPart, Shape
<1> QED
  BY <1>1 DEF Commit, LogShape

\* The persons that a commit leaves, for the endpoints that write none.
LEMMA PersonsKept ==
    ASSUME IInv, NEW r \in Requests, Commit(r),
           BornPerson(r, tx[r]) = {}, GonePerson(tx[r]) = {},
           tx[r].op = "update" => tx[r].person \notin People
    PROVE  persons' = persons
<1>1. persons' = [p \in People |-> persons[p]]
  BY DEF Commit, PersonsAfter, BornPerson, GonePerson
<1>2. persons = [p \in People |-> persons[p]]
  BY DEF IInv, TypeOK
<1> QED
  BY <1>1, <1>2

LEMMA FacesKept ==
    ASSUME IInv, NEW r \in Requests, Commit(r),
           BornFace(r, tx[r]) = {}, GoneFaces(tx[r]) = {}, tx[r].op # "replace"
    PROVE  Shown' = Shown
<1>1. Enrolled \ GoneFaces(tx[r]) = Enrolled
  OBVIOUS
<1> QED
  BY <1>1, ShownWithoutBirth DEF Shown, ShownFace

\* An enrolment brings its face and its entry, and perhaps its person.
LEMMA EnrolmentRefines ==
    ASSUME IInv, AInv, RInv, NEW r \in Requests, Commit(r), Enrols(tx[r])
    PROVE  Abstract!Next
<1> DEFINE t == tx[r]
<1>1. /\ t \in Session /\ r \notin People /\ r \notin Enrolled /\ r \in Ids
      /\ WritesComplete(r, "commit", t) /\ NewFaceHoldsPerson(r, t)
      /\ "face" \in t.inserted /\ (t.op = "enroll" => t.ext = None)
  BY CommitKnown DEF SessionInv, RegistryPart, Shape, FaceShape, Ids
<1>2. GoneFaces(t) = {} /\ BornFace(r, t) = {r} /\ GonePerson(t) = {}
      /\ t.op # "replace" /\ t.op # "update"
  BY <1>1 DEF GoneFaces, BornFace, GonePerson, Enrols
<1>3. logs' = logs \cup {Abstract!EnrolmentEntry(r, t.person, r)}
  <2>1. logs' = logs \cup {EntryOf(r, t)}
    BY CommittedLog DEF Logged
  <2>2. EntryOf(r, t) = Abstract!EnrolmentEntry(r, t.person, r)
    BY DEF EntryOf, Abstract!EnrolmentEntry, Enrols, Recognises
  <2> QED
    BY <2>1, <2>2
<1>4. Shown' = Abstract!Insert(Shown, r, [person |-> t.person, image |-> r])
  BY <1>1, <1>2, CommittedShown DEF Shown, ShownFace, Abstract!Insert
<1>5. Abstract!Enrol(r, t.person)
  BY <1>1, <1>3, <1>4 DEF Abstract!Enrol, Shown, ShownFace
<1>6. CASE "person" \notin t.inserted
  <2>1. t.person \in People /\ t.person \in Ids
    BY <1>1, <1>6 DEF NewFaceHoldsPerson
  <2>2. persons' = persons
    BY <1>2, <1>6, PersonsKept DEF BornPerson
  <2>3. Abstract!EnrolExisting(r, t.person)
    BY <1>5, <2>1, <2>2 DEF Abstract!EnrolExisting, People
  <2> QED
    BY <1>1, <2>1, <2>3 DEF Abstract!Next
<1>7. CASE "person" \in t.inserted
  <2>1. t.person = r /\ t.name \in Names /\ t.ext = None
    BY <1>1, <1>7 DEF WritesComplete, NewFaceHoldsPerson
  <2>2. persons' = Abstract!Insert(persons, r, [name |-> t.name, ext |-> None,
                                                active |-> TRUE])
    BY <1>1, <1>2, <1>7, <2>1
       DEF Commit, PersonsAfter, Abstract!Insert, People, GonePerson
  <2>3. Abstract!EnrolNewPerson(r, t.name)
    BY <1>1, <1>3, <1>4, <2>1, <2>2
       DEF Abstract!EnrolNewPerson, Abstract!Enrol, People, Shown, ShownFace
  <2> QED
    BY <1>1, <2>1, <2>3 DEF Abstract!Next
<1> QED
  BY <1>6, <1>7

\* A replacement changes one image, and leaves the entry that answers for it.
LEMMA ReplacementRefines ==
    ASSUME IInv, AInv, RInv, NEW r \in Requests, Commit(r), tx[r].op = "replace"
    PROVE  Abstract!Next
<1> DEFINE t == tx[r]
           f == t.face
<1>1. /\ t \in Session /\ r \in Ids
      /\ WritesComplete(r, "commit", t) /\ NewFaceHoldsPerson(r, t)
      /\ t.rows = {f} /\ t.rows \subseteq Enrolled
      /\ TargetIsKept(t)
  BY CommitKnown
     DEF SessionInv, RegistryPart, Shape, FaceShape, RowsFit, Ids, AInv, AuditPart
<1>2. f \in Enrolled /\ f \in Ids /\ faces[f].person = t.person
  BY <1>1 DEF TargetIsKept, IInv, TypeOK
<1>3. GoneFaces(t) = {} /\ BornFace(r, t) = {}
      /\ GonePerson(t) = {} /\ BornPerson(r, t) = {}
  BY <1>1 DEF GoneFaces, BornFace, GonePerson, BornPerson, WritesComplete,
              NewFaceHoldsPerson
<1>4. persons' = persons
  BY <1>3, PersonsKept
<1>5. logs' = logs \cup {Abstract!EnrolmentEntry(r, t.person, f)}
  <2>1. logs' = logs \cup {EntryOf(r, t)}
    BY CommittedLog DEF Logged
  <2>2. EntryOf(r, t) = Abstract!EnrolmentEntry(r, t.person, f)
    BY DEF EntryOf, Abstract!EnrolmentEntry, Enrols, Recognises
  <2> QED
    BY <2>1, <2>2
<1>6. DOMAIN Shown = Enrolled /\ Shown[f] = ShownFace(f)
  BY <1>2 DEF Shown
<1>7. Shown' = [Shown EXCEPT ![f].image = r]
  <2>1. Shown' = [g \in Enrolled |->
                    [person |-> faces[g].person,
                     image |-> IF g \in t.rows THEN r ELSE faces[g].image]]
    <3>1. Enrolled \ GoneFaces(t) = Enrolled
      BY <1>3
    <3> QED
      BY <1>3, <3>1, ShownWithoutBirth
  <2>2. ASSUME NEW g \in Enrolled
        PROVE  [person |-> faces[g].person,
                image |-> IF g \in t.rows THEN r ELSE faces[g].image] =
               [Shown EXCEPT ![f].image = r][g]
    BY <1>1, <1>2 DEF Shown, ShownFace
  <2> QED
    BY <1>6, <2>1, <2>2
<1>8. Shown[f].person = t.person
  BY <1>2, <1>6 DEF ShownFace
<1>9. Abstract!ReplaceImage(f, r)
  BY <1>2, <1>4, <1>5, <1>6, <1>7, <1>8
     DEF Abstract!ReplaceImage, Shown, ShownFace
<1> QED
  BY <1>1, <1>2, <1>9 DEF Abstract!Next

\* Deleting a face removes it, unless it was gone already.
LEMMA FaceDeletionRefines ==
    ASSUME IInv, AInv, RInv, NEW r \in Requests, Commit(r), tx[r].op = "delete_face"
    PROVE  Abstract!Next \/ UNCHANGED <<persons, Shown, logs>>
<1> DEFINE t == tx[r]
           f == t.face
<1>1. /\ WritesComplete(r, "commit", t) /\ NewFaceHoldsPerson(r, t)
      /\ t.rows \subseteq {f} /\ t.rows \subseteq Enrolled
  BY CommitKnown DEF SessionInv, RegistryPart, Shape, FaceShape, RowsFit
<1>2. GoneFaces(t) = t.rows /\ BornFace(r, t) = {}
      /\ GonePerson(t) = {} /\ BornPerson(r, t) = {}
  BY <1>1 DEF GoneFaces, BornFace, GonePerson, BornPerson, WritesComplete,
              NewFaceHoldsPerson
<1>3. persons' = persons /\ logs' = logs
  BY <1>2, PersonsKept, CommittedLog DEF Logged, Enrols, Recognises
<1>4. CASE t.rows = {}
  BY <1>2, <1>3, <1>4, FacesKept
<1>5. CASE t.rows = {f}
  <2>1. f \in Enrolled /\ f \in Ids
    BY <1>1, <1>5 DEF IInv, TypeOK
  <2>2. Shown' = Abstract!Without(Shown, {f})
    <3>1. Shown' = [g \in Enrolled \ {f} |-> ShownFace(g)]
      BY <1>2, <1>5, ShownWithoutBirth DEF ShownFace
    <3> QED
      BY <3>1 DEF Shown, Abstract!Without
  <2>3. PICK g \in Ids : g = f
    BY <2>1
  <2>4. Abstract!RemoveFace(g)
    BY <1>3, <2>1, <2>2, <2>3 DEF Abstract!RemoveFace, Shown, ShownFace
  <2> QED
    BY <2>4 DEF Abstract!Next
<1> QED
  BY <1>1, <1>4, <1>5

\* A creation adds a person whose external id is nobody else's.
LEMMA CreationRefines ==
    ASSUME IInv, AInv, RInv, NEW r \in Requests, Commit(r), tx[r].op = "create"
    PROVE  Abstract!Next \/ UNCHANGED <<persons, Shown, logs>>
<1> DEFINE t == tx[r]
<1>1. /\ t \in Session /\ r \notin People /\ r \in Ids
      /\ WritesComplete(r, "commit", t) /\ NewFaceHoldsPerson(r, t)
  BY CommitKnown DEF SessionInv, Ids
<1>2. GoneFaces(t) = {} /\ BornFace(r, t) = {} /\ GonePerson(t) = {}
  BY <1>1 DEF GoneFaces, BornFace, GonePerson, NewFaceHoldsPerson
<1>3. Shown' = Shown /\ logs' = logs
  BY <1>2, FacesKept, CommittedLog DEF Logged, Enrols, Recognises
<1>4. CASE "person" \notin t.inserted
  BY <1>2, <1>3, <1>4, PersonsKept DEF BornPerson
<1>5. CASE "person" \in t.inserted
  <2>1. t.name \in Names /\ t.ext \in ExtIds \cup {None}
    BY <1>1, <1>5 DEF WritesComplete, Session
  <2>2. persons' = Abstract!Insert(persons, r, [name |-> t.name, ext |-> t.ext,
                                                active |-> TRUE])
    BY <1>1, <1>2, <1>5
       DEF Commit, PersonsAfter, Abstract!Insert, People, GonePerson
  <2>3. Abstract!Distinct(persons')
    BY CommitKeys DEF Abstract!Distinct, ExternalIdsAreUnique, People
  <2>4. Abstract!AddPerson(r, t.name, t.ext)
    BY <1>1, <1>3, <2>2, <2>3 DEF Abstract!AddPerson, People, Shown, ShownFace
  <2> QED
    BY <1>1, <2>1, <2>4 DEF Abstract!Next
<1> QED
  BY <1>4, <1>5

\* A patch gives a person one new row, with an external id of its own, and
\* shows nothing of the trigger's updates.
LEMMA PatchRefines ==
    ASSUME IInv, AInv, RInv, NEW r \in Requests, Commit(r), tx[r].op = "update"
    PROVE  Abstract!Next \/ UNCHANGED <<persons, Shown, logs>>
<1> DEFINE t == tx[r]
<1>1. WritesComplete(r, "commit", t) /\ NewFaceHoldsPerson(r, t)
  BY CommitKnown DEF SessionInv
<1>2. GoneFaces(t) = {} /\ BornFace(r, t) = {}
      /\ GonePerson(t) = {} /\ BornPerson(r, t) = {}
  BY <1>1 DEF GoneFaces, BornFace, GonePerson, BornPerson, WritesComplete,
              NewFaceHoldsPerson
<1>3. Shown' = Shown /\ logs' = logs
  BY <1>2, FacesKept, CommittedLog DEF Logged, Enrols, Recognises
<1>4. CASE t.person \notin People
  BY <1>2, <1>3, <1>4, PersonsKept
<1>5. CASE t.person \in People
  <2>1. PICK p \in Ids : p = t.person /\ p \in People
    BY <1>5 DEF IInv, TypeOK
  <2>2. persons' \in [People -> PersonRow]
    BY <1>2, CommitType, CommittedRows DEF TypeOK
  <2>3. PICK row \in PersonRow : row = persons'[p]
    BY <2>1, <2>2
  <2>4. ASSUME NEW o \in People \ {p}
        PROVE  persons'[o] = persons[o]
    BY <1>2, <2>1 DEF Commit, PersonsAfter, BornPerson, GonePerson
  <2>5. persons' = [persons EXCEPT ![p] = row]
    <3>1. persons \in [People -> PersonRow]
      BY DEF IInv, TypeOK
    <3> QED
      BY <2>1, <2>2, <2>3, <2>4, <3>1
  <2>6. Abstract!Distinct(persons')
    BY CommitKeys DEF Abstract!Distinct, ExternalIdsAreUnique, People
  <2>7. Abstract!EditPerson(p, row)
    BY <1>3, <2>1, <2>5, <2>6 DEF Abstract!EditPerson, People, Shown, ShownFace
  <2> QED
    BY <2>7 DEF Abstract!Next, Abstract!Person, PersonRow
<1> QED
  BY <1>4, <1>5

\* A deletion takes the person and exactly that person's faces away.
LEMMA DeletionRefines ==
    ASSUME IInv, AInv, RInv, NEW r \in Requests, Commit(r), tx[r].op = "delete"
    PROVE  Abstract!Next \/ UNCHANGED <<persons, Shown, logs>>
<1> DEFINE t == tx[r]
<1>1. /\ WritesComplete(r, "commit", t) /\ NewFaceHoldsPerson(r, t)
      /\ CascadeIsComplete("commit", t) /\ DeleteShape("commit", t)
      /\ MirrorFits("commit", t) /\ t.rows \subseteq Enrolled
  BY CommitKnown DEF SessionInv, RegistryPart, Shape, RowsFit
<1>2. GoneFaces(t) = t.rows /\ BornFace(r, t) = {} /\ BornPerson(r, t) = {}
  BY <1>1 DEF GoneFaces, BornFace, BornPerson, WritesComplete, NewFaceHoldsPerson
<1>3. logs' = logs
  BY CommittedLog DEF Logged, Enrols, Recognises
<1>4. CASE t.lock # "update"
  BY <1>1, <1>2, <1>3, <1>4, FacesKept, PersonsKept DEF DeleteShape, GonePerson
<1>5. CASE t.lock = "update"
  <2>1. PICK p \in Ids : p = t.person /\ p \in People
    BY <1>1, <1>5 DEF MirrorFits, IInv, TypeOK
  <2>2. t.rows = FacesOf(p)
    BY <1>1, <1>5, <2>1 DEF CascadeIsComplete, MirrorFits, FacesOf
  <2>3. persons' = Abstract!Without(persons, {p})
    BY <1>2, <1>5, <2>1
       DEF Commit, PersonsAfter, BornPerson, Abstract!Without, People
  <2>4. Shown' = [f \in Enrolled \ FacesOf(p) |-> ShownFace(f)]
    BY <1>2, <2>2, ShownWithoutBirth DEF ShownFace
  <2>5. FacesOf(p) = {f \in DOMAIN Shown : Shown[f].person = p}
    BY DEF FacesOf, Shown, ShownFace
  <2>6. Shown' = Abstract!Without(Shown, {f \in DOMAIN Shown : Shown[f].person = p})
    BY <2>4, <2>5 DEF Shown, Abstract!Without
  <2>7. Abstract!RemovePerson(p)
    BY <1>3, <2>1, <2>3, <2>6 DEF Abstract!RemovePerson, People, Shown, ShownFace
  <2> QED
    BY <2>7 DEF Abstract!Next
<1> QED
  BY <1>4, <1>5

\* A recognition leaves one entry, whose face is on record for its person.
LEMMA RecognitionRefines ==
    ASSUME IInv, AInv, RInv, NEW r \in Requests, Commit(r), Recognises(tx[r])
    PROVE  Abstract!Next
<1> DEFINE t == tx[r]
<1>1. /\ t \in Session /\ r \in Ids
      /\ WritesComplete(r, "commit", t) /\ NewFaceHoldsPerson(r, t)
      /\ t.active => t.face # None
      /\ MatchIsOnRecord("commit", t) /\ t.log = {EntryOf(r, t)}
  BY CommitKnown
     DEF SessionInv, RegistryPart, Shape, FaceShape, LogShape, Logged, Ids, AInv,
         AuditPart
<1>2. GoneFaces(t) = {} /\ BornFace(r, t) = {}
      /\ GonePerson(t) = {} /\ BornPerson(r, t) = {}
      /\ t.op # "replace" /\ t.op # "update"
  BY <1>1 DEF GoneFaces, BornFace, GonePerson, BornPerson, WritesComplete,
              NewFaceHoldsPerson, Recognises
<1>3. persons' = persons /\ Shown' = Shown
  BY <1>2, PersonsKept, FacesKept
<1>4. PICK action \in {"verify", "search"} : action = t.op
  BY DEF Recognises
<1>5. PICK person \in Ids \cup {None} : person = t.person
  BY <1>1 DEF Session
<1>6. PICK face \in Ids \cup {None} : face = t.face
  BY <1>1 DEF Session
<1>7. PICK success \in BOOLEAN : success = t.active
  BY <1>1 DEF Session
<1>8. EntryOf(r, t) = [by |-> r, action |-> action, person |-> person,
                       face |-> face, success |-> success]
  <2>1. (Recognises(t) => t.active) = success
    BY <1>7
  <2> QED
    BY <1>4, <1>5, <1>6, <2>1 DEF EntryOf, Recognises, Enrols
<1>9. logs' = logs \cup {[by |-> r, action |-> action, person |-> person,
                          face |-> face, success |-> success]}
  BY <1>8, CommittedLog DEF Logged
<1>10. face # None => OnRecord(face, person)
  <2>1. EntryOf(r, t).face = face /\ EntryOf(r, t).action # "register"
        /\ EntryOf(r, t).person = person
    BY <1>8
  <2> QED
    BY <1>1, <2>1 DEF MatchIsOnRecord
<1>11. success => face # None
  BY <1>1, <1>6, <1>7
<1>12. Abstract!Recognise(r, action, person, face, success)
  BY <1>3, <1>9, <1>10, <1>11
     DEF Abstract!Recognise, OnRecord, Shown, ShownFace
<1> QED
  BY <1>1, <1>12 DEF Abstract!Next

\* A commit is one operation of Registry or none; nothing else is seen.
LEMMA NextRefines ==
    IInv /\ AInv /\ RInv /\ [Next]_vars => [Abstract!Next]_(Abstract!vars)
<1> SUFFICES ASSUME IInv, AInv, RInv, [Next]_vars
             PROVE  Abstract!Next \/ UNCHANGED <<persons, Shown, logs>>
  BY DEF Abstract!vars, Shown, ShownFace
<1>1. ASSUME UNCHANGED <<persons, faces, logs>>
      PROVE  UNCHANGED <<persons, Shown, logs>>
  BY <1>1 DEF Shown, ShownFace, Enrolled
<1>2. ASSUME NEW r \in Requests, Commit(r)
      PROVE  Abstract!Next \/ UNCHANGED <<persons, Shown, logs>>
  <2>1. tx[r].op \in Endpoints \cup {"none"}
    BY DEF IInv, TypeOK, Session
  <2>2. CASE tx[r].op = "none"
    <3>1. WritesComplete(r, "commit", tx[r]) /\ NewFaceHoldsPerson(r, tx[r])
      BY <1>2, CommitKnown DEF SessionInv
    <3>2. /\ GoneFaces(tx[r]) = {} /\ BornFace(r, tx[r]) = {}
          /\ GonePerson(tx[r]) = {} /\ BornPerson(r, tx[r]) = {}
      BY <2>2, <3>1 DEF GoneFaces, BornFace, GonePerson, BornPerson,
                        WritesComplete, NewFaceHoldsPerson
    <3> QED
      BY <1>2, <2>2, <3>2, PersonsKept, FacesKept, CommittedLog
         DEF Logged, Enrols, Recognises
  <2>3. CASE tx[r].op \in {"register", "enroll"}
    BY <1>2, <2>3, EnrolmentRefines DEF Enrols
  <2>4. CASE tx[r].op \in {"verify", "search"}
    BY <1>2, <2>4, RecognitionRefines DEF Recognises
  <2> QED
    BY <1>2, <2>1, <2>2, <2>3, <2>4, ReplacementRefines, FaceDeletionRefines,
       CreationRefines, PatchRefines, DeletionRefines DEF Endpoints
<1>3. ASSUME NEW r \in Requests, Arrive(r)
      PROVE  UNCHANGED <<persons, faces, logs>>
  <2>1. ASSUME NEW kind, NEW t, NEW place, Open(r, kind, t, place)
        PROVE  UNCHANGED <<persons, faces, logs>>
    BY <2>1 DEF Open
  <2>2. ASSUME NEW p \in Ids, Register(r, p) \/ DeletePerson(r, p) \/ Verify(r, p)
        PROVE  UNCHANGED <<persons, faces, logs>>
    BY <2>1, <2>2 DEF Register, DeletePerson, Verify, Refuse
  <2>3. ASSUME NEW p \in Ids, NEW new \in PersonRow, UpdatePerson(r, p, new)
        PROVE  UNCHANGED <<persons, faces, logs>>
    BY <2>1, <2>3 DEF UpdatePerson, Refuse
  <2>4. ASSUME NEW n \in Names, EnrollByName(r, n)
        PROVE  UNCHANGED <<persons, faces, logs>>
    BY <2>1, <2>4 DEF EnrollByName
  <2>5. ASSUME NEW n \in Names, NEW x \in ExtIds \cup {None}, CreatePerson(r, n, x)
        PROVE  UNCHANGED <<persons, faces, logs>>
    BY <2>1, <2>5 DEF CreatePerson, Refuse
  <2>6. ASSUME NEW f \in Ids, ReplaceImage(r, f) \/ DeleteFace(r, f)
        PROVE  UNCHANGED <<persons, faces, logs>>
    BY <2>1, <2>6 DEF ReplaceImage, DeleteFace, Refuse
  <2>7. CASE Search(r)
    BY <2>1, <2>7 DEF Search
  <2> QED
    BY <1>3, <2>2, <2>3, <2>4, <2>5, <2>6, <2>7 DEF Arrive
<1>4. ASSUME NEW r \in Requests, Step(r) \/ Crash(r), ~Commit(r)
      PROVE  UNCHANGED <<persons, faces, logs>>
  <2>1. ASSUME NEW from, NEW t, NEW to, Move(r, from, t, to)
        PROVE  UNCHANGED <<persons, faces, logs>>
    BY <2>1 DEF Move
  <2>2. CASE Infer(r) \/ InsertFace(r) \/ CheckPerson(r) \/ OverwriteFace(r)
             \/ RemoveFace(r) \/ CheckConflict(r)
    BY <2>1, <2>2 DEF Infer, InsertFace, CheckPerson, OverwriteFace, RemoveFace,
       CheckConflict, Fail
  <2>3. CASE FlushUpdate(r) \/ CheckUnique(r) \/ FlushDelete(r) \/ FireTrigger(r)
             \/ EndTrigger(r) \/ Refresh(r) \/ (\E f \in Ids : TouchRow(r, f))
    BY <2>1, <2>3 DEF FlushUpdate, CheckUnique, FlushDelete, FireTrigger,
       EndTrigger, Refresh, TouchRow, Fail
  <2>4. CASE Query(r) \/ Record(r) \/ Rollback(r) \/ Crash(r)
    BY <2>1, <2>4 DEF Query, Record, Rollback, Crash
  <2> QED
    BY <1>4, <2>2, <2>3, <2>4 DEF Step
<1>5. CASE UNCHANGED vars
  BY <1>1, <1>5 DEF vars
<1> QED
  BY <1>1, <1>2, <1>3, <1>4, <1>5 DEF Next, Step

\* The gallery does what its abstraction promises: whatever statements of its
\* requests interleave, wait, fail or are cut off by a crash, what anyone can
\* see of persons, faces and log changes by whole operations, each correct in
\* itself.  A deletion takes exactly the person's faces, an enrolment leaves
\* no person behind when it fails, an embedding comes with its audit entry.
THEOREM GalleryImplementsRegistry == Spec => ImplementsRegistry
BY InitRefines, NextRefines, Invariance, AuditInvariance, RegistryInvariance, PTL
   DEF Spec, ImplementsRegistry, Abstract!Spec

=============================================================================
