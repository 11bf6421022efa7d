--------------------------- MODULE GalleryProofs ---------------------------
(***************************************************************************)
(* Proofs about Gallery, for any number of requests, seeds, names and      *)
(* external ids: the types, and that no face ever outlives its person.     *)
(*                                                                         *)
(* The argument: an enrolment that has inserted its face holds KEY SHARE   *)
(* on the person until it commits; a deletion that cascades holds FOR      *)
(* UPDATE until it commits.  The two modes conflict, so whichever came     *)
(* second waited, and looked again.                                        *)
(***************************************************************************)
EXTENDS Gallery, TLAPS

-----------------------------------------------------------------------------
(***************************************************************************)
(* The inductive invariant.  A part about one session is stated of the     *)
(* place and the session it is about, so that it can be asked of the       *)
(* session a step is going to leave as well as of the present one.         *)
(***************************************************************************)

\* Where a handler is tells which endpoint it serves.
PlaceFits(place, t) ==
    /\ place = "infer" =>
          t.op \in {"register", "enroll", "replace", "verify", "search"}
    /\ place \in {"insert", "check"} => t.op \in {"register", "enroll"}
    /\ place \in {"infer", "insert", "check"} =>
          (t.op \in {"register", "enroll"} => t.person \in Ids)

\* A session that will write a person row holds every value it will write.
WritesComplete(r, place, t) ==
    /\ t.op = "update" /\ "name" \in t.sets => t.name \in Names
    /\ t.op = "create" /\ place = "unique" => t.person = r /\ t.name \in Names
    /\ "person" \in t.inserted =>
          t.op \in {"enroll", "create"} /\ t.person = r /\ t.name \in Names

\* Only the endpoints that write a person row or below it lock that row.
LockHolder(t) ==
    t.lock # "none" => t.op \in {"register", "enroll", "update", "delete"}

\* An inserted face keeps its person in place until its session ends.
NewFaceHoldsPerson(r, t) ==
    "face" \in t.inserted =>
        /\ t.op \in {"register", "enroll"}
        /\ t.lock = "key_share"
        /\ t.person \in Ids
        /\ t.person \in People \/ (t.person = r /\ "person" \in t.inserted)

\* A deletion that holds its lock is past the flush, and when it commits it
\* has left out no committed face of its person.
CascadeIsComplete(place, t) ==
    t.op = "delete" /\ t.lock = "update" =>
        /\ place \in {"trigger", "rows", "commit", "error"}
        /\ place = "rows" => FacesOf(t.person) \subseteq t.rows \cup t.todo
        /\ place = "commit" => FacesOf(t.person) \subseteq t.rows

SessionInv(r, place, t) ==
    /\ PlaceFits(place, t)
    /\ WritesComplete(r, place, t)
    /\ LockHolder(t)
    /\ NewFaceHoldsPerson(r, t)
    /\ CascadeIsComplete(place, t)

\* The lock that session t of r holds conflicts with no other session's.
LockFits(r, t) ==
    \A q \in Requests \ {r} :
        tx[q].person = t.person => <<tx[q].lock, t.lock>> \notin Conflicts

IInv ==
    /\ TypeOK
    /\ \A r \in Requests : SessionInv(r, pc[r], tx[r])
    /\ \A r \in Requests : LockFits(r, tx[r])
    /\ FacesHaveAPerson

-----------------------------------------------------------------------------
(***************************************************************************)
(* Lemmas                                                                  *)
(***************************************************************************)

\* Two locks conflict whichever of them is asked about first.
LEMMA ConflictsAreMutual ==
    ASSUME NEW m, NEW n
    PROVE  <<m, n>> \in Conflicts <=> <<n, m>> \in Conflicts
BY DEF Conflicts

\* A session without a lock is in nobody's way.
LEMMA NoLockFits ==
    ASSUME NEW r, NEW t, t.lock = "none"
    PROVE  LockFits(r, t)
BY DEF LockFits, Conflicts

\* The empty session satisfies the per-session part wherever it is harmless.
LEMMA NoSessionType == NoSession \in Session
BY DEF NoSession, Session, Endpoints, LockModes, Fields

\* The session that a patch of a person opens.
LEMMA PatchSession ==
    ASSUME NEW p \in Ids, NEW sets \in SUBSET Fields,
           NEW n \in Names \cup {None}, NEW x \in ExtIds \cup {None},
           NEW a \in BOOLEAN, NEW t,
           t = [NoSession EXCEPT !.person = p, !.sets = sets, !.name = n,
                                 !.ext = x, !.active = a]
    PROVE  t \in Session /\ t.log = {} /\ t.rows = {}
BY NoSessionType DEF NoSession, Session

\* A step of one session that commits nothing keeps the invariant when the
\* session it leaves is well formed.
LEMMA MoveInv ==
    ASSUME IInv,
           NEW r \in Requests, NEW from, NEW t \in Session, NEW to \in Places,
           Move(r, from, t, to),
           SessionInv(r, to, t), LockFits(r, t)
    PROVE  IInv'
<1> USE DEF Move
<1>1. TypeOK'
  BY DEF IInv, TypeOK, People, Enrolled
<1>2. ASSUME NEW q \in Requests
      PROVE  SessionInv(q, pc[q], tx[q])'
  <2>1. CASE q = r
    BY <2>1 DEF IInv, TypeOK, SessionInv, PlaceFits, WritesComplete, LockHolder,
                NewFaceHoldsPerson, CascadeIsComplete, People, Enrolled, FacesOf
  <2>2. CASE q # r
    <3>1. SessionInv(q, pc[q], tx[q])
      BY DEF IInv
    <3>2. pc'[q] = pc[q] /\ tx'[q] = tx[q]
      BY <2>2 DEF IInv, TypeOK
    <3> QED
      BY <3>1, <3>2 DEF SessionInv, PlaceFits, WritesComplete, LockHolder,
                NewFaceHoldsPerson, CascadeIsComplete, People, Enrolled, FacesOf
  <2> QED
    BY <2>1, <2>2
<1>3. ASSUME NEW q \in Requests
      PROVE  LockFits(q, tx[q])'
  <2> SUFFICES ASSUME NEW o \in Requests \ {q}, tx'[o].person = tx'[q].person
               PROVE  <<tx'[o].lock, tx'[q].lock>> \notin Conflicts
    BY DEF LockFits, Conflicts
  <2>1. CASE q = r
    BY <2>1 DEF IInv, TypeOK, LockFits
  <2>2. CASE o = r
    <3>1. tx'[o] = t /\ tx'[q] = tx[q] /\ q # r
      BY <2>2 DEF IInv, TypeOK
    <3>2. <<tx[q].lock, t.lock>> \notin Conflicts
      BY <3>1 DEF LockFits
    <3> QED
      BY <3>1, <3>2, ConflictsAreMutual
  <2>3. CASE q # r /\ o # r
    BY <2>3 DEF IInv, TypeOK, LockFits
  <2> QED
    BY <2>1, <2>2, <2>3
<1>4. FacesHaveAPerson'
  BY DEF IInv, FacesHaveAPerson, People, Enrolled
<1> QED
  BY <1>1, <1>2, <1>3, <1>4 DEF IInv

\* The same for a handler's first statement: its session holds no lock yet
\* and has inserted no face.
LEMMA OpenInv ==
    ASSUME IInv,
           NEW r \in Requests, NEW kind \in Endpoints, NEW t \in Session,
           NEW place \in Places,
           Open(r, kind, t, place),
           t.lock = "none", "face" \notin t.inserted,
           PlaceFits(place, [t EXCEPT !.op = kind]),
           WritesComplete(r, place, [t EXCEPT !.op = kind])
    PROVE  IInv'
<1> DEFINE s == [t EXCEPT !.op = kind]
<1>1. s \in Session /\ s.lock = "none" /\ "face" \notin s.inserted
  BY DEF Session
<1>2. Move(r, "idle", s, place)
  BY DEF Open, Move
<1>3. LockFits(r, s)
  BY <1>1, NoLockFits
<1>4. SessionInv(r, place, s)
  BY <1>1 DEF SessionInv, LockHolder, NewFaceHoldsPerson, CascadeIsComplete
<1> QED
  BY <1>1, <1>2, <1>3, <1>4, MoveInv

-----------------------------------------------------------------------------
(***************************************************************************)
(* One lemma per group of actions                                          *)
(***************************************************************************)

\* Whatever request arrives, its first statement keeps the invariant.
LEMMA ArriveInv ==
    ASSUME IInv, NEW r \in Requests, Arrive(r)
    PROVE  IInv'
<1> USE NoSessionType DEF NoSession, PlaceFits, WritesComplete
<1>1. r \in Ids
  BY DEF Ids
<1>2. ASSUME NEW kind \in Endpoints, Refuse(r, kind)
      PROVE  IInv'
  BY <1>2, OpenInv DEF Refuse, Places, Live
<1>3. ASSUME NEW p \in Ids, Register(r, p)
      PROVE  IInv'
  <2> DEFINE t == [NoSession EXCEPT !.person = p]
  <2>1. t \in Session
    BY DEF Session
  <2>2. CASE Open(r, "register", t, "infer")
    BY <2>1, <2>2, OpenInv DEF Places, Live, Endpoints
  <2> QED
    BY <1>2, <1>3, <2>2 DEF Register, Endpoints
<1>4. ASSUME NEW n \in Names, EnrollByName(r, n)
      PROVE  IInv'
  <2>1. ASSUME NEW p \in People,
               Open(r, "enroll", [NoSession EXCEPT !.person = p], "infer")
        PROVE  IInv'
    <3> DEFINE t == [NoSession EXCEPT !.person = p]
    <3>1. t \in Session /\ p \in Ids
      BY DEF Session, IInv, TypeOK
    <3> QED
      BY <2>1, <3>1, OpenInv DEF Places, Live, Endpoints
  <2> DEFINE u == [NoSession EXCEPT !.person = r, !.name = n,
                                    !.inserted = {"person"}]
  <2>2. CASE Open(r, "enroll", u, "infer")
    <3>1. u \in Session
      BY <1>1 DEF Session
    <3>2. /\ u.lock = "none" /\ "face" \notin u.inserted
          /\ PlaceFits("infer", [u EXCEPT !.op = "enroll"])
      BY <1>1
    <3>3. WritesComplete(r, "infer", [u EXCEPT !.op = "enroll"])
      OBVIOUS
    <3>4. "infer" \in Places /\ "enroll" \in Endpoints
      BY DEF Places, Live, Endpoints
    <3> HIDE DEF u, NoSession, PlaceFits, WritesComplete
    <3> QED
      BY <2>2, <3>1, <3>2, <3>3, <3>4, OpenInv
  <2> QED
    BY <1>4, <2>1, <2>2 DEF EnrollByName
<1>5. ASSUME NEW f \in Ids, ReplaceImage(r, f)
      PROVE  IInv'
  <2> DEFINE t == [NoSession EXCEPT !.face = f, !.person = faces[f].person]
  <2>1. CASE f \in Enrolled /\ Open(r, "replace", t, "infer")
    <3>1. t \in Session
      BY <2>1 DEF Session, IInv, TypeOK, FaceRow
    <3>2. /\ t.lock = "none" /\ "face" \notin t.inserted
          /\ PlaceFits("infer", [t EXCEPT !.op = "replace"])
          /\ WritesComplete(r, "infer", [t EXCEPT !.op = "replace"])
      OBVIOUS
    <3>3. "infer" \in Places /\ "replace" \in Endpoints
      BY DEF Places, Live, Endpoints
    <3> HIDE DEF t, NoSession, PlaceFits, WritesComplete
    <3> QED
      BY <2>1, <3>1, <3>2, <3>3, OpenInv
  <2> QED
    BY <1>2, <1>5, <2>1 DEF ReplaceImage, Endpoints
<1>6. ASSUME NEW f \in Ids, DeleteFace(r, f)
      PROVE  IInv'
  <2> DEFINE t == [NoSession EXCEPT !.face = f]
  <2>1. t \in Session
    BY DEF Session
  <2>2. CASE Open(r, "delete_face", t, "remove")
    <3>1. /\ t.lock = "none" /\ "face" \notin t.inserted
          /\ PlaceFits("remove", [t EXCEPT !.op = "delete_face"])
          /\ WritesComplete(r, "remove", [t EXCEPT !.op = "delete_face"])
      OBVIOUS
    <3>2. "remove" \in Places /\ "delete_face" \in Endpoints
      BY DEF Places, Live, Endpoints
    <3> HIDE DEF t, NoSession, PlaceFits, WritesComplete
    <3> QED
      BY <2>1, <2>2, <3>1, <3>2, OpenInv
  <2>3. CASE Refuse(r, "delete_face")
    BY <1>2, <2>3 DEF Endpoints
  <2> QED
    BY <1>6, <2>2, <2>3 DEF DeleteFace
<1>7. ASSUME NEW n \in Names, NEW x \in ExtIds \cup {None},
             CreatePerson(r, n, x)
      PROVE  IInv'
  <2> DEFINE t == [NoSession EXCEPT !.person = r, !.name = n, !.ext = x]
  <2>1. t \in Session
    BY <1>1 DEF Session
  <2>2. CASE Open(r, "create", t, "unique")
    <3>1. /\ t.lock = "none" /\ "face" \notin t.inserted
          /\ PlaceFits("unique", [t EXCEPT !.op = "create"])
      OBVIOUS
    <3>2. WritesComplete(r, "unique", [t EXCEPT !.op = "create"])
      OBVIOUS
    <3>3. "unique" \in Places /\ "create" \in Endpoints
      BY DEF Places, Live, Endpoints
    <3> HIDE DEF t, NoSession, PlaceFits, WritesComplete
    <3> QED
      BY <2>1, <2>2, <3>1, <3>2, <3>3, OpenInv
  <2>3. CASE Refuse(r, "create")
    BY <1>2, <2>3 DEF Endpoints
  <2> QED
    BY <1>7, <2>2, <2>3 DEF CreatePerson
<1>8. ASSUME NEW p \in Ids, NEW new \in PersonRow, UpdatePerson(r, p, new)
      PROVE  IInv'
  <2> DEFINE
        sets == {a \in Fields : new[a] # persons[p][a]}
        t == [NoSession EXCEPT
                !.person = p, !.sets = sets,
                !.name = IF "name" \in sets THEN new.name ELSE None,
                !.ext = IF "ext" \in sets THEN new.ext ELSE None,
                !.active = "active" \in sets => new.active]
        first == IF "ext" \in sets /\ new.ext # None THEN {"conflict"}
                 ELSE IF sets = {} THEN {"flush", "refresh"}
                 ELSE {"flush"}
  <2>1. t \in Session
    <3> DEFINE n == IF "name" \in sets THEN new.name ELSE None
               x == IF "ext" \in sets THEN new.ext ELSE None
               a == "active" \in sets => new.active
    <3>1. /\ n \in Names \cup {None} /\ x \in ExtIds \cup {None}
          /\ a \in BOOLEAN /\ sets \in SUBSET Fields
      BY DEF PersonRow
    <3>2. t = [NoSession EXCEPT !.person = p, !.sets = sets, !.name = n,
                                !.ext = x, !.active = a]
      OBVIOUS
    <3> HIDE DEF t, n, x, a, sets, NoSession
    <3> QED
      BY <3>1, <3>2, PatchSession
  <2>2. first \subseteq Places /\ first \cap {"infer", "insert", "check"} = {}
    BY DEF Places, Live
  <2>3. ASSUME NEW place \in first, Open(r, "update", t, place)
        PROVE  IInv'
    <3>1. /\ t.lock = "none" /\ "face" \notin t.inserted
          /\ place \in Places
          /\ PlaceFits(place, [t EXCEPT !.op = "update"])
      BY <2>2
    <3>2. WritesComplete(r, place, [t EXCEPT !.op = "update"])
      BY DEF PersonRow
    <3>3. "update" \in Endpoints
      BY DEF Endpoints
    <3> HIDE DEF t, first, NoSession, PlaceFits, WritesComplete
    <3> QED
      BY <2>1, <2>3, <3>1, <3>2, <3>3, OpenInv
  <2> QED
    BY <1>2, <1>8, <2>3 DEF UpdatePerson, Endpoints
<1>9. ASSUME NEW p \in Ids, DeletePerson(r, p)
      PROVE  IInv'
  <2> DEFINE t == [NoSession EXCEPT !.person = p]
  <2>1. t \in Session
    BY DEF Session
  <2>2. CASE Open(r, "delete", t, "flush")
    BY <2>1, <2>2, OpenInv DEF Places, Live, Endpoints
  <2> QED
    BY <1>2, <1>9, <2>2 DEF DeletePerson, Endpoints
<1>10. ASSUME NEW p \in Ids, Verify(r, p)
       PROVE  IInv'
  <2> DEFINE t == [NoSession EXCEPT !.person = p]
  <2>1. t \in Session
    BY DEF Session
  <2>2. CASE Open(r, "verify", t, "infer")
    BY <2>1, <2>2, OpenInv DEF Places, Live, Endpoints
  <2> QED
    BY <1>2, <1>10, <2>2 DEF Verify, Endpoints
<1>11. CASE Search(r)
  BY <1>11, OpenInv DEF Search, Places, Live, Endpoints
<1> QED
  BY <1>3, <1>4, <1>5, <1>6, <1>7, <1>8, <1>9, <1>10, <1>11 DEF Arrive

\* A statement that raises keeps its session, locks included.
LEMMA FailInv ==
    ASSUME IInv, NEW r \in Requests, NEW from, Fail(r, from)
    PROVE  IInv'
<1>1. tx[r] \in Session /\ "error" \in Places
  BY DEF IInv, TypeOK, Places, Live
<1>2. SessionInv(r, pc[r], tx[r]) /\ LockFits(r, tx[r])
  BY DEF IInv
<1>3. SessionInv(r, "error", tx[r])
  BY <1>2 DEF SessionInv, PlaceFits, WritesComplete, LockHolder,
              NewFaceHoldsPerson, CascadeIsComplete
<1>4. Move(r, from, tx[r], "error")
  BY DEF Fail
<1> QED
  BY <1>1, <1>2, <1>3, <1>4, MoveInv

\* The pipeline.
LEMMA InferInv ==
    ASSUME IInv, NEW r \in Requests, Infer(r)
    PROVE  IInv'
<1> DEFINE to == CASE tx[r].op \in {"register", "enroll"} -> "insert"
                   [] tx[r].op = "replace" -> "overwrite"
                   [] OTHER -> "query"
<1>1. CASE Fail(r, "infer")
  BY <1>1, FailInv
<1>2. CASE Move(r, "infer", tx[r], to)
  <2>1. tx[r] \in Session /\ SessionInv(r, pc[r], tx[r]) /\ LockFits(r, tx[r])
    BY DEF IInv, TypeOK
  <2>2. to \in Places
    BY DEF Places, Live
  <2>3. pc[r] = "infer"
    BY <1>2 DEF Move
  <2>4. SessionInv(r, to, tx[r])
    BY <2>1, <2>3 DEF SessionInv, PlaceFits, WritesComplete, LockHolder,
                      NewFaceHoldsPerson, CascadeIsComplete
  <2> HIDE DEF to
  <2> QED
    BY <1>2, <2>1, <2>2, <2>4, MoveInv
<1> QED
  BY <1>1, <1>2 DEF Infer

\* The trigger copies a status, a Boolean, into the new face.
LEMMA InsertFaceInv ==
    ASSUME IInv, NEW r \in Requests, InsertFace(r)
    PROVE  IInv'
<1> DEFINE p == tx[r].person
           t == [tx[r] EXCEPT !.active = p \in People => persons[p].active]
<1>1. CASE Move(r, "insert", t, "check")
  <2>1. tx[r] \in Session /\ SessionInv(r, pc[r], tx[r]) /\ LockFits(r, tx[r])
    BY DEF IInv, TypeOK
  <2>2. (p \in People => persons[p].active) \in BOOLEAN
    OBVIOUS
  <2>3. /\ t \in Session /\ t.op = tx[r].op /\ t.person = tx[r].person
        /\ t.lock = tx[r].lock /\ t.inserted = tx[r].inserted
        /\ t.sets = tx[r].sets /\ t.name = tx[r].name
    BY <2>1, <2>2 DEF Session
  <2>4. pc[r] = "insert" /\ "check" \in Places
    BY <1>1 DEF Move, Places, Live
  <2> HIDE DEF t
  <2>5. SessionInv(r, "check", t) /\ LockFits(r, t)
    BY <2>1, <2>3, <2>4
       DEF SessionInv, PlaceFits, WritesComplete, LockHolder,
           NewFaceHoldsPerson, CascadeIsComplete, LockFits
  <2> QED
    BY <1>1, <2>3, <2>4, <2>5, MoveInv
<1> QED
  BY <1>1, FailInv DEF InsertFace

\* The foreign-key check locks the person it has found.
LEMMA CheckPersonInv ==
    ASSUME IInv, NEW r \in Requests, CheckPerson(r)
    PROVE  IInv'
<1> DEFINE t == [tx[r] EXCEPT !.lock = "key_share",
                              !.inserted = @ \cup {"face"}]
<1>1. CASE Sees(r, tx[r].person) /\ Move(r, "check", t, "log")
  <2>1. tx[r] \in Session /\ SessionInv(r, pc[r], tx[r])
    BY DEF IInv, TypeOK
  <2>2. /\ t \in Session /\ t.op = tx[r].op /\ t.person = tx[r].person
        /\ t.lock = "key_share" /\ t.inserted = tx[r].inserted \cup {"face"}
        /\ t.sets = tx[r].sets /\ t.name = tx[r].name
    BY <2>1 DEF Session, LockModes
  <2>3. pc[r] = "check" /\ "log" \in Places
    BY <1>1 DEF Move, Places, Live
  <2> HIDE DEF t
  <2>4. LockFits(r, t)
    BY <2>2 DEF CheckPerson, CanLock, LockFits
  <2>5. SessionInv(r, "log", t)
    BY <1>1, <2>1, <2>2, <2>3
       DEF SessionInv, PlaceFits, WritesComplete, LockHolder,
           NewFaceHoldsPerson, CascadeIsComplete, Sees
  <2> QED
    BY <1>1, <2>2, <2>3, <2>4, <2>5, MoveInv
<1> QED
  BY <1>1, FailInv DEF CheckPerson

\* Writes of the face row that a request replaces or deletes.
LEMMA FaceWriteInv ==
    ASSUME IInv, NEW r \in Requests, OverwriteFace(r) \/ RemoveFace(r)
    PROVE  IInv'
<1>1. ASSUME NEW from \in {"overwrite", "remove"}, NEW to \in {"log", "commit"},
             NEW S \in SUBSET Ids,
             Move(r, from, [tx[r] EXCEPT !.rows = S], to)
      PROVE  IInv'
  <2> DEFINE t == [tx[r] EXCEPT !.rows = S]
  <2>1. tx[r] \in Session /\ SessionInv(r, pc[r], tx[r]) /\ LockFits(r, tx[r])
    BY DEF IInv, TypeOK
  <2>2. /\ t \in Session /\ t.op = tx[r].op /\ t.person = tx[r].person
        /\ t.lock = tx[r].lock /\ t.inserted = tx[r].inserted
        /\ t.sets = tx[r].sets /\ t.name = tx[r].name
    BY <2>1 DEF Session
  <2>3. pc[r] = from /\ to \in Places
    BY <1>1 DEF Move, Places, Live
  <2> HIDE DEF t
  <2>4. SessionInv(r, to, t) /\ LockFits(r, t)
    BY <2>1, <2>2, <2>3
       DEF SessionInv, PlaceFits, WritesComplete, LockHolder,
           NewFaceHoldsPerson, CascadeIsComplete, LockFits
  <2> QED
    BY <1>1, <2>2, <2>3, <2>4, MoveInv DEF t
<1>2. Enrolled \subseteq Ids
  BY DEF IInv, TypeOK
<1>3. CASE OverwriteFace(r)
  BY <1>1, <1>2, <1>3, FailInv DEF OverwriteFace
<1>4. CASE RemoveFace(r)
  BY <1>1, <1>2, <1>4 DEF RemoveFace
<1> QED
  BY <1>3, <1>4

\* Steps that only change the place of a session which deletes no person.
LEMMA StayInv ==
    ASSUME IInv, NEW r \in Requests, NEW from,
           NEW to \in {"flush", "trigger", "refresh", "commit"},
           Move(r, from, tx[r], to),
           tx[r].op = "delete" => tx[r].lock # "update"
    PROVE  IInv'
<1>1. tx[r] \in Session /\ SessionInv(r, pc[r], tx[r]) /\ LockFits(r, tx[r])
  BY DEF IInv, TypeOK
<1>2. to \in Places
  BY DEF Places, Live
<1>3. SessionInv(r, to, tx[r])
  BY <1>1 DEF SessionInv, PlaceFits, WritesComplete, LockHolder,
              NewFaceHoldsPerson, CascadeIsComplete
<1> QED
  BY <1>1, <1>2, <1>3, MoveInv

\* A lock on a person row is taken when no other session's conflicts with it.
LEMMA LockPersonInv ==
    ASSUME IInv, NEW r \in Requests, NEW mode \in {"no_key_update", "update"},
           NEW to \in {"unique", "trigger", "refresh"},
           pc[r] = "flush", tx[r].op \in {"update", "delete"},
           CanLock(r, mode),
           tx[r].op = "delete" => to = "trigger",
           Move(r, "flush", [tx[r] EXCEPT !.lock = mode], to)
    PROVE  IInv'
<1> DEFINE t == [tx[r] EXCEPT !.lock = mode]
<1>1. tx[r] \in Session /\ SessionInv(r, pc[r], tx[r])
  BY DEF IInv, TypeOK
<1>2. /\ t \in Session /\ t.op = tx[r].op /\ t.person = tx[r].person
      /\ t.lock = mode /\ t.inserted = tx[r].inserted
      /\ t.sets = tx[r].sets /\ t.name = tx[r].name
  BY <1>1 DEF Session, LockModes
<1>3. to \in Places
  BY DEF Places, Live
<1> HIDE DEF t
<1>4. LockFits(r, t)
  BY <1>2 DEF CanLock, LockFits
<1>5. SessionInv(r, to, t)
  BY <1>1, <1>2 DEF SessionInv, PlaceFits, WritesComplete, LockHolder,
                    NewFaceHoldsPerson, CascadeIsComplete
<1> QED
  BY <1>2, <1>3, <1>4, <1>5, MoveInv DEF t

\* The statements of update_person and of delete_person that write persons.
LEMMA PersonWriteInv ==
    ASSUME IInv, NEW r \in Requests,
           \/ CheckConflict(r) \/ FlushUpdate(r) \/ FlushDelete(r)
           \/ Refresh(r)
    PROVE  IInv'
<1> DEFINE mode == IF "ext" \in tx[r].sets THEN "update" ELSE "no_key_update"
<1>1. SessionInv(r, pc[r], tx[r]) /\ AfterUpdate(r) \in {"trigger", "refresh"}
  BY DEF IInv, AfterUpdate
<1>2. tx[r].op = "delete" /\ tx[r].lock = "update" =>
          pc[r] \notin {"conflict", "flush", "refresh"}
  BY <1>1 DEF SessionInv, CascadeIsComplete
<1>3. CASE CheckConflict(r)
  <2>1. CASE Move(r, "conflict", tx[r], "flush")
    BY <1>2, <2>1, StayInv DEF Move
  <2> QED
    BY <1>3, <2>1, FailInv DEF CheckConflict
<1>4. CASE FlushUpdate(r)
  <2>1. CASE Fail(r, "flush")
    BY <2>1, FailInv
  <2>2. CASE ~Fail(r, "flush")
    <3> DEFINE to == IF tx[r].ext # None THEN "unique" ELSE AfterUpdate(r)
    <3>1. /\ tx[r].op = "update" /\ CanLock(r, mode)
          /\ Move(r, "flush", [tx[r] EXCEPT !.lock = mode], to)
      BY <1>4, <2>2 DEF FlushUpdate
    <3>2. /\ to \in {"unique", "trigger", "refresh"} /\ pc[r] = "flush"
          /\ mode \in {"no_key_update", "update"}
      BY <1>1, <3>1 DEF Move
    <3> HIDE DEF to, mode
    <3> QED
      BY <3>1, <3>2, LockPersonInv
  <2> QED
    BY <2>1, <2>2
<1>5. CASE FlushDelete(r)
  <2>1. pc[r] = "flush" /\ tx[r].op = "delete" /\ CanLock(r, "update")
    BY <1>5 DEF FlushDelete, Move
  <2>2. CASE Move(r, "flush", [tx[r] EXCEPT !.lock = "update"], "trigger")
    BY <2>1, <2>2, LockPersonInv
  <2>3. CASE Move(r, "flush", tx[r], "commit")
    BY <1>2, <2>1, <2>3, StayInv
  <2> QED
    BY <1>5, <2>2, <2>3 DEF FlushDelete
<1>6. CASE Refresh(r)
  <2>1. CASE Move(r, "refresh", tx[r], "commit")
    BY <1>2, <2>1, StayInv DEF Move
  <2> QED
    BY <1>6, <2>1, FailInv DEF Refresh
<1> QED
  BY <1>3, <1>4, <1>5, <1>6

\* The unique index lets create_person insert its row.
LEMMA CheckUniqueInv ==
    ASSUME IInv, NEW r \in Requests, CheckUnique(r)
    PROVE  IInv'
<1> DEFINE t == [tx[r] EXCEPT !.inserted = {"person"}]
<1>1. tx[r] \in Session /\ SessionInv(r, pc[r], tx[r]) /\ LockFits(r, tx[r])
  BY DEF IInv, TypeOK
<1>2. pc[r] = "unique"
  BY DEF CheckUnique, Move, Fail
<1>3. CASE tx[r].op = "create" /\ Move(r, "unique", t, "commit")
  <2>1. /\ t \in Session /\ t.op = "create" /\ t.person = tx[r].person
        /\ t.lock = tx[r].lock /\ t.inserted = {"person"}
        /\ t.sets = tx[r].sets /\ t.name = tx[r].name
    BY <1>1, <1>3 DEF Session
  <2>2. "commit" \in Places
    BY DEF Places, Live
  <2> HIDE DEF t
  <2>3. SessionInv(r, "commit", t) /\ LockFits(r, t)
    BY <1>1, <1>2, <1>3, <2>1
       DEF SessionInv, PlaceFits, WritesComplete, LockHolder,
           NewFaceHoldsPerson, CascadeIsComplete, LockFits
  <2> QED
    BY <1>3, <2>1, <2>2, <2>3, MoveInv
<1>4. CASE tx[r].op = "update" /\ Move(r, "unique", tx[r], AfterUpdate(r))
  <2>1. AfterUpdate(r) \in {"flush", "trigger", "refresh", "commit"}
    BY DEF AfterUpdate
  <2> QED
    BY <1>4, <2>1, StayInv
<1> QED
  BY <1>3, <1>4, FailInv DEF CheckUnique

\* The cascade, or the status trigger: every face its snapshot holds is
\* touched, still to be touched, or gone.
LEMMA CascadeInv ==
    ASSUME IInv, NEW r \in Requests,
           \/ FireTrigger(r) \/ EndTrigger(r)
           \/ \E f \in Ids : TouchRow(r, f)
    PROVE  IInv'
<1>1. tx[r] \in Session /\ SessionInv(r, pc[r], tx[r]) /\ LockFits(r, tx[r])
  BY DEF IInv, TypeOK
<1>2. Enrolled \subseteq Ids /\ FacesOf(tx[r].person) \subseteq Ids
  BY DEF IInv, TypeOK, FacesOf
<1>3. {"rows", "refresh", "commit"} \subseteq Places
  BY DEF Places, Live
<1>4. ASSUME NEW todo \in SUBSET Ids, NEW rows \in SUBSET Ids,
             pc[r] \in {"trigger", "rows"},
             FacesOf(tx[r].person) \subseteq rows \cup todo
                \/ ~(tx[r].op = "delete" /\ tx[r].lock = "update"),
             Move(r, pc[r],
                  [tx[r] EXCEPT !.todo = todo, !.rows = rows], "rows")
      PROVE  IInv'
  <2> DEFINE t == [tx[r] EXCEPT !.todo = todo, !.rows = rows]
  <2>1. /\ t \in Session /\ t.op = tx[r].op /\ t.person = tx[r].person
        /\ t.lock = tx[r].lock /\ t.inserted = tx[r].inserted
        /\ t.sets = tx[r].sets /\ t.name = tx[r].name
        /\ t.todo = todo /\ t.rows = rows
    BY <1>1 DEF Session
  <2> HIDE DEF t
  <2>2. SessionInv(r, "rows", t) /\ LockFits(r, t)
    BY <1>1, <1>4, <2>1
       DEF SessionInv, PlaceFits, WritesComplete, LockHolder,
           NewFaceHoldsPerson, CascadeIsComplete, LockFits
  <2> QED
    BY <1>3, <1>4, <2>1, <2>2, MoveInv DEF t
<1>5. CASE FireTrigger(r)
  <2> DEFINE S == FacesOf(tx[r].person)
  <2>1. [tx[r] EXCEPT !.todo = S]
           = [tx[r] EXCEPT !.todo = S, !.rows = tx[r].rows]
    BY <1>1 DEF Session
  <2>2. tx[r].rows \in SUBSET Ids /\ pc[r] = "trigger"
    BY <1>1, <1>5 DEF Session, FireTrigger, Move
  <2>3. Move(r, pc[r], [tx[r] EXCEPT !.todo = S, !.rows = tx[r].rows], "rows")
    BY <1>5, <2>1, <2>2 DEF FireTrigger
  <2> QED
    BY <1>2, <1>4, <2>2, <2>3
<1>6. ASSUME NEW f \in Ids, TouchRow(r, f)
      PROVE  IInv'
  <2> DEFINE todo == tx[r].todo \ {f}
             rows == tx[r].rows \cup ({f} \cap Enrolled)
  <2>1. todo \in SUBSET Ids /\ rows \in SUBSET Ids /\ pc[r] = "rows"
    BY <1>1, <1>2, <1>6 DEF Session, TouchRow, Move
  <2>2. \/ FacesOf(tx[r].person) \subseteq rows \cup todo
        \/ ~(tx[r].op = "delete" /\ tx[r].lock = "update")
    BY <1>1, <2>1 DEF SessionInv, CascadeIsComplete, FacesOf
  <2>3. Move(r, pc[r], [tx[r] EXCEPT !.todo = todo, !.rows = rows], "rows")
    BY <1>6, <2>1 DEF TouchRow
  <2> HIDE DEF todo, rows
  <2> QED
    BY <1>4, <2>1, <2>2, <2>3
<1>7. CASE EndTrigger(r)
  <2> DEFINE to == IF tx[r].op = "update" THEN "refresh" ELSE "commit"
  <2>1. pc[r] = "rows" /\ tx[r].todo = {} /\ Move(r, "rows", tx[r], to)
    BY <1>7 DEF EndTrigger, Move
  <2>2. to \in Places /\ SessionInv(r, to, tx[r])
    BY <1>1, <1>3, <2>1
       DEF SessionInv, PlaceFits, WritesComplete, LockHolder,
           NewFaceHoldsPerson, CascadeIsComplete
  <2> HIDE DEF to
  <2> QED
    BY <1>1, <2>1, <2>2, MoveInv
<1> QED
  BY <1>5, <1>6, <1>7

\* The similarity queries pick a committed face and its committed owner.
LEMMA QueryInv ==
    ASSUME IInv, NEW r \in Requests, Query(r)
    PROVE  IInv'
<1>1. tx[r] \in Session /\ SessionInv(r, pc[r], tx[r])
  BY DEF IInv, TypeOK
<1>2. tx[r].op \in {"verify", "search"} /\ "log" \in Places
  BY DEF Query, Places, Live
<1>3. ASSUME NEW f \in Ids \cup {None}, NEW p \in Ids \cup {None},
             NEW hit \in BOOLEAN,
             Move(r, "query", [tx[r] EXCEPT !.face = f, !.person = p,
                                            !.active = hit], "log")
      PROVE  IInv'
  <2> DEFINE t == [tx[r] EXCEPT !.face = f, !.person = p, !.active = hit]
  <2>1. /\ t \in Session /\ t.op = tx[r].op /\ t.lock = "none"
        /\ t.inserted = tx[r].inserted /\ t.person = p
    BY <1>1, <1>2 DEF Session, SessionInv, LockHolder
  <2>2. "face" \notin tx[r].inserted /\ pc[r] = "query"
    BY <1>1, <1>2, <1>3 DEF SessionInv, NewFaceHoldsPerson, Move
  <2>3. LockFits(r, t)
    BY <2>1, NoLockFits
  <2>4. SessionInv(r, "log", t)
    BY <1>1, <1>2, <2>1, <2>2
       DEF SessionInv, PlaceFits, WritesComplete, LockHolder,
           NewFaceHoldsPerson, CascadeIsComplete
  <2> HIDE DEF t
  <2> QED
    BY <1>2, <1>3, <2>1, <2>3, <2>4, MoveInv DEF t
<1>4. tx[r].person \in Ids \cup {None}
  BY <1>1 DEF Session
<1>5. ASSUME NEW f \in Enrolled
      PROVE  f \in Ids /\ faces[f].person \in Ids
  BY DEF IInv, TypeOK, FaceRow
<1>6. FacesOf(tx[r].person) \subseteq Enrolled
  BY DEF FacesOf
<1>7. CASE tx[r].op = "verify"
  BY <1>3, <1>4, <1>5, <1>6, <1>7 DEF Query
<1>8. CASE tx[r].op = "search"
  BY <1>3, <1>5, <1>8 DEF Query
<1> QED
  BY <1>2, <1>7, <1>8

\* The audit entry of an enrolment or of a recognition has its type.
LEMMA RecordInv ==
    ASSUME IInv, NEW r \in Requests, Record(r)
    PROVE  IInv'
<1> DEFINE t == [tx[r] EXCEPT !.log = {Entry(r)}]
<1>1. tx[r] \in Session /\ SessionInv(r, pc[r], tx[r]) /\ LockFits(r, tx[r])
  BY DEF IInv, TypeOK
<1>2. Entry(r) \in LogRow
  <2>1. /\ r \in Ids
        /\ tx[r].person \in Ids \cup {None} /\ tx[r].face \in Ids \cup {None}
    BY <1>1 DEF Session, Ids
  <2> QED
    BY <2>1 DEF Entry, LogRow
<1>3. /\ t \in Session /\ t.op = tx[r].op /\ t.person = tx[r].person
      /\ t.lock = tx[r].lock /\ t.inserted = tx[r].inserted
      /\ t.sets = tx[r].sets /\ t.name = tx[r].name
  BY <1>1, <1>2 DEF Session
<1>4. pc[r] = "log" /\ "commit" \in Places /\ Move(r, "log", t, "commit")
  BY DEF Record, Move, Places, Live
<1> HIDE DEF t
<1>5. SessionInv(r, "commit", t) /\ LockFits(r, t)
  BY <1>1, <1>3, <1>4
     DEF SessionInv, PlaceFits, WritesComplete, LockHolder,
         NewFaceHoldsPerson, CascadeIsComplete, LockFits
<1> QED
  BY <1>3, <1>4, <1>5, MoveInv

\* A session that is rolled back, by the handler or by a crash, leaves
\* neither locks nor rows.
LEMMA AbandonInv ==
    ASSUME IInv, NEW r \in Requests, Rollback(r) \/ Crash(r)
    PROVE  IInv'
<1>1. "failed" \in Places /\ NoSession.lock = "none"
  BY DEF Places, NoSession
<1>2. Move(r, pc[r], NoSession, "failed")
  BY DEF Rollback, Crash, Move
<1>3. SessionInv(r, "failed", NoSession)
  BY DEF NoSession, SessionInv, PlaceFits, WritesComplete, LockHolder,
         NewFaceHoldsPerson, CascadeIsComplete
<1> QED
  BY <1>1, <1>2, <1>3, NoSessionType, NoLockFits, MoveInv

-----------------------------------------------------------------------------
(***************************************************************************)
(* The commit                                                              *)
(***************************************************************************)

\* The person row that a committing deletion takes away, the row that an
\* insertion brings, and the same for faces.
GonePerson(t) ==
    IF t.op = "delete" /\ t.lock = "update" THEN {t.person} ELSE {}
BornPerson(r, t) == IF "person" \in t.inserted THEN {r} ELSE {}
GoneFaces(t) == IF t.op \in {"delete_face", "delete"} THEN t.rows ELSE {}
BornFace(r, t) == IF "face" \in t.inserted THEN {r} ELSE {}

LEMMA CommittedRows ==
    ASSUME IInv, NEW r \in Requests, Commit(r)
    PROVE  /\ People' = (People \ GonePerson(tx[r])) \cup BornPerson(r, tx[r])
           /\ Enrolled' = (Enrolled \ GoneFaces(tx[r])) \cup BornFace(r, tx[r])
           /\ \A f \in Enrolled' :
                 faces'[f].person = IF f \in BornFace(r, tx[r])
                                    THEN tx[r].person ELSE faces[f].person
<1>1. People' = (People \ GonePerson(tx[r])) \cup BornPerson(r, tx[r])
  BY DEF Commit, PersonsAfter, People, GonePerson, BornPerson
<1>2. Enrolled' = (Enrolled \ GoneFaces(tx[r])) \cup BornFace(r, tx[r])
  BY DEF Commit, FacesAfter, Enrolled, GoneFaces, BornFace
<1>3. ASSUME NEW f \in Enrolled'
      PROVE  faces'[f].person = IF f \in BornFace(r, tx[r])
                                THEN tx[r].person ELSE faces[f].person
  <2>1. CASE f \in BornFace(r, tx[r])
    BY <1>2, <2>1 DEF Commit, FacesAfter, GoneFaces, BornFace
  <2>2. CASE f \notin BornFace(r, tx[r])
    <3>1. f \in Enrolled /\ faces[f] \in FaceRow
      BY <1>2, <2>2 DEF IInv, TypeOK
    <3> QED
      BY <1>2, <2>2, <3>1
         DEF Commit, FacesAfter, GoneFaces, BornFace, FaceRow
  <2> QED
    BY <2>1, <2>2
<1> QED
  BY <1>1, <1>2, <1>3

\* A committed row is complete: the NOT NULL columns have a value.
LEMMA CommitType ==
    ASSUME IInv, NEW r \in Requests, Commit(r)
    PROVE  TypeOK'
<1> DEFINE t == tx[r]
<1>1. t \in Session /\ SessionInv(r, pc[r], t) /\ r \in Ids
  BY DEF IInv, TypeOK, Ids
<1>2. /\ People \subseteq Ids /\ Enrolled \subseteq Ids
      /\ persons \in [People -> PersonRow] /\ faces \in [Enrolled -> FaceRow]
  BY DEF IInv, TypeOK
<1>3. persons' \in [People' -> PersonRow]
  <2>1. persons' = PersonsAfter(r) /\ DOMAIN persons' = People'
    BY DEF Commit, People
  <2>2. ASSUME NEW p \in People'
        PROVE  persons'[p] \in PersonRow
    <3>1. CASE p \in BornPerson(r, t)
      <4>1. persons'[p] = [name |-> t.name, ext |-> t.ext, active |-> TRUE]
        BY <2>1, <3>1, CommittedRows DEF PersonsAfter, GonePerson, BornPerson
      <4>2. t.name \in Names /\ t.ext \in ExtIds \cup {None}
        BY <1>1, <3>1 DEF Session, SessionInv, WritesComplete, BornPerson
      <4> QED
        BY <4>1, <4>2 DEF PersonRow
    <3>2. CASE p \notin BornPerson(r, t)
      <4>1. p \in People /\ persons[p] \in PersonRow
        BY <1>2, <3>2, CommittedRows
      <4>2. CASE t.op = "update" /\ p = t.person
        <5>1. persons'[p] =
                [persons[p] EXCEPT
                   !.name = IF "name" \in t.sets THEN t.name ELSE @,
                   !.ext = IF "ext" \in t.sets THEN t.ext ELSE @,
                   !.active = IF "active" \in t.sets THEN t.active ELSE @]
          BY <2>1, <3>2, <4>1, <4>2, CommittedRows
             DEF PersonsAfter, GonePerson, BornPerson
        <5>2. /\ "name" \in t.sets => t.name \in Names
              /\ t.ext \in ExtIds \cup {None} /\ t.active \in BOOLEAN
          BY <1>1, <4>2 DEF Session, SessionInv, WritesComplete
        <5> QED
          BY <4>1, <5>1, <5>2 DEF PersonRow
      <4>3. CASE ~(t.op = "update" /\ p = t.person)
        BY <2>1, <3>2, <4>1, <4>3, CommittedRows
           DEF PersonsAfter, GonePerson, BornPerson
      <4> QED
        BY <4>2, <4>3
    <3> QED
      BY <3>1, <3>2
  <2>3. persons' = [p \in People' |-> persons'[p]]
    BY <2>1 DEF PersonsAfter, People
  <2> QED
    BY <2>2, <2>3
<1>4. faces' \in [Enrolled' -> FaceRow]
  <2>1. faces' = FacesAfter(r) /\ DOMAIN faces' = Enrolled'
    BY DEF Commit, Enrolled
  <2>2. ASSUME NEW f \in Enrolled'
        PROVE  faces'[f] \in FaceRow
    <3>1. CASE f \in BornFace(r, t)
      <4>1. faces'[f] = [person |-> t.person, image |-> r, active |-> t.active]
        BY <2>1, <3>1, CommittedRows DEF FacesAfter, GoneFaces, BornFace
      <4>2. t.person \in Ids /\ t.active \in BOOLEAN
        BY <1>1, <3>1 DEF Session, SessionInv, NewFaceHoldsPerson, BornFace
      <4> QED
        BY <1>1, <4>1, <4>2 DEF FaceRow
    <3>2. CASE f \notin BornFace(r, t)
      <4>1. f \in Enrolled /\ faces[f] \in FaceRow
        BY <1>2, <3>2, CommittedRows
      <4>2. faces'[f] =
              [faces[f] EXCEPT
                 !.image = IF t.op = "replace" /\ f \in t.rows THEN r ELSE @,
                 !.active = IF t.op = "update" /\ f \in t.rows
                            THEN t.active ELSE @]
        BY <2>1, <3>2, CommittedRows DEF FacesAfter, GoneFaces, BornFace
      <4>3. t.active \in BOOLEAN
        BY <1>1 DEF Session
      <4> QED
        BY <1>1, <4>1, <4>2, <4>3 DEF FaceRow
    <3> QED
      BY <3>1, <3>2
  <2>3. faces' = [f \in Enrolled' |-> faces'[f]]
    BY <2>1 DEF FacesAfter, Enrolled
  <2> QED
    BY <2>2, <2>3
<1>5. People' \subseteq Ids /\ Enrolled' \subseteq Ids
  BY <1>1, <1>2, CommittedRows DEF BornPerson, BornFace
<1>6. logs' \subseteq LogRow
  BY <1>1 DEF Commit, Session, IInv, TypeOK
<1>7. pc' \in [Requests -> Places] /\ tx' \in [Requests -> Session]
  BY NoSessionType DEF Commit, IInv, TypeOK, Places
<1>8. raced' \subseteq Ids
  BY <1>1 DEF Commit, NewlyRaced, IInv, TypeOK, Ids
<1> QED
  BY <1>3, <1>4, <1>5, <1>6, <1>7, <1>8 DEF TypeOK

\* A commit takes no person away from an enrolment in flight, and adds no
\* face below a deletion in flight: each holds a lock against the other.
LEMMA CommitInv ==
    ASSUME IInv, NEW r \in Requests, Commit(r)
    PROVE  IInv'
<1>1. /\ tx[r] \in Session /\ pc[r] = "commit"
      /\ SessionInv(r, "commit", tx[r]) /\ LockFits(r, tx[r])
  BY DEF IInv, TypeOK, Commit
<1>2. tx' = [tx EXCEPT ![r] = NoSession] /\ pc' = [pc EXCEPT ![r] = "done"]
  BY DEF Commit
<1>3. TypeOK'
  BY CommitType
<1>4. ASSUME NEW q \in Requests
      PROVE  SessionInv(q, pc[q], tx[q])'
  <2>1. CASE q = r
    <3>1. tx'[q] = NoSession /\ pc'[q] = "done"
      BY <1>2, <2>1 DEF IInv, TypeOK
    <3> QED
      BY <3>1 DEF NoSession, SessionInv, PlaceFits, WritesComplete,
                  LockHolder, NewFaceHoldsPerson, CascadeIsComplete
  <2>2. CASE q # r
    <3>1. tx'[q] = tx[q] /\ pc'[q] = pc[q] /\ SessionInv(q, pc[q], tx[q])
      BY <1>2, <2>2 DEF IInv, TypeOK
    <3>2. tx[q].person = tx[r].person =>
              <<tx[q].lock, tx[r].lock>> \notin Conflicts
      BY <1>1, <2>2 DEF LockFits
    <3>3. NewFaceHoldsPerson(q, tx[q])'
      <4>1. "face" \in tx[q].inserted /\ tx[q].person \in GonePerson(tx[r])
                => FALSE
        BY <3>1, <3>2
           DEF SessionInv, NewFaceHoldsPerson, GonePerson, Conflicts
      <4> QED
        BY <3>1, <4>1, CommittedRows DEF SessionInv, NewFaceHoldsPerson
    <3>4. CascadeIsComplete(pc[q], tx[q])'
      <4>1. tx[q].op = "delete" /\ tx[q].lock = "update"
                => FacesOf(tx[q].person)' \subseteq FacesOf(tx[q].person)
        <5> SUFFICES ASSUME tx[q].lock = "update",
                            NEW f \in Enrolled', faces'[f].person = tx[q].person
                     PROVE  f \in Enrolled /\ faces[f].person = tx[q].person
          BY <3>1 DEF FacesOf
        <5>1. CASE f \in BornFace(r, tx[r])
          BY <1>1, <3>2, <5>1, CommittedRows
             DEF BornFace, SessionInv, NewFaceHoldsPerson, Conflicts
        <5>2. CASE f \notin BornFace(r, tx[r])
          BY <5>2, CommittedRows
        <5> QED
          BY <5>1, <5>2
      <4> QED
        BY <3>1, <4>1 DEF SessionInv, CascadeIsComplete
    <3> QED
      BY <3>1, <3>3, <3>4 DEF SessionInv, PlaceFits, WritesComplete, LockHolder
  <2> QED
    BY <2>1, <2>2
<1>5. ASSUME NEW q \in Requests
      PROVE  LockFits(q, tx[q])'
  <2> SUFFICES ASSUME NEW o \in Requests \ {q}, tx'[o].person = tx'[q].person
               PROVE  <<tx'[o].lock, tx'[q].lock>> \notin Conflicts
    BY DEF LockFits, Conflicts
  <2>1. CASE q = r \/ o = r
    <3>1. tx'[q].lock = "none" \/ tx'[o].lock = "none"
      BY <1>2, <2>1 DEF IInv, TypeOK, NoSession
    <3> QED
      BY <3>1 DEF Conflicts
  <2>2. CASE q # r /\ o # r
    BY <1>2, <2>2 DEF IInv, TypeOK, LockFits
  <2> QED
    BY <2>1, <2>2
<1>6. FacesHaveAPerson'
  <2> SUFFICES ASSUME NEW f \in Enrolled'
               PROVE  faces'[f].person \in People'
    BY DEF FacesHaveAPerson
  <2>1. CASE f \in BornFace(r, tx[r])
    <3>1. "face" \in tx[r].inserted /\ faces'[f].person = tx[r].person
      BY <2>1, CommittedRows DEF BornFace
    <3>2. tx[r].op # "delete" /\ (\/ tx[r].person \in People
                                  \/ tx[r].person \in BornPerson(r, tx[r]))
      BY <1>1, <3>1 DEF SessionInv, NewFaceHoldsPerson, BornPerson
    <3> QED
      BY <3>1, <3>2, CommittedRows DEF GonePerson
  <2>2. CASE f \notin BornFace(r, tx[r])
    <3>1. /\ f \in Enrolled /\ f \notin GoneFaces(tx[r])
          /\ faces'[f].person = faces[f].person /\ faces[f].person \in People
      BY <2>2, CommittedRows DEF IInv, FacesHaveAPerson
    <3>2. faces[f].person \notin GonePerson(tx[r])
      BY <1>1, <3>1
         DEF SessionInv, CascadeIsComplete, GonePerson, GoneFaces, FacesOf
    <3> QED
      BY <3>1, <3>2, CommittedRows
  <2> QED
    BY <2>1, <2>2
<1> QED
  BY <1>3, <1>4, <1>5, <1>6 DEF IInv

-----------------------------------------------------------------------------
(***************************************************************************)
(* The theorems                                                            *)
(***************************************************************************)

LEMMA InitInv == Init => IInv
<1> SUFFICES ASSUME Init PROVE IInv
  OBVIOUS
<1> USE DEF Init
<1>1. People \subseteq Ids /\ persons \in [People -> PersonRow]
  BY DEF People, Ids
<1>2. PICK F \in SUBSET People :
          faces = [f \in F |-> [person |-> f, image |-> f,
                                active |-> persons[f].active]]
  OBVIOUS
<1>3. Enrolled = F
  BY <1>2 DEF Enrolled
<1>4. ASSUME NEW f \in F
      PROVE  f \in Ids /\ persons[f].active \in BOOLEAN
  BY <1>1 DEF PersonRow
<1>5. faces \in [Enrolled -> FaceRow]
  BY <1>2, <1>3, <1>4 DEF FaceRow
<1>6. logs \subseteq LogRow
  <2> SUFFICES ASSUME NEW f \in Enrolled
               PROVE  [by |-> f, action |-> "register", person |-> f,
                       face |-> f, success |-> TRUE] \in LogRow
    OBVIOUS
  <2> QED
    BY <1>3, <1>4 DEF LogRow
<1>7. pc \in [Requests -> Places] /\ tx \in [Requests -> Session]
  BY NoSessionType DEF Places
<1>8. TypeOK
  BY <1>1, <1>3, <1>5, <1>6, <1>7 DEF TypeOK
<1>9. ASSUME NEW r \in Requests
      PROVE  SessionInv(r, pc[r], tx[r])
  BY DEF NoSession, SessionInv, PlaceFits, WritesComplete, LockHolder,
         NewFaceHoldsPerson, CascadeIsComplete
<1>10. ASSUME NEW r \in Requests
       PROVE  LockFits(r, tx[r])
  BY NoLockFits DEF NoSession
<1>11. FacesHaveAPerson
  BY <1>2, <1>3 DEF FacesHaveAPerson
<1> QED
  BY <1>8, <1>9, <1>10, <1>11 DEF IInv

LEMMA NextInv == IInv /\ [Next]_vars => IInv'
<1> SUFFICES ASSUME IInv, [Next]_vars PROVE IInv'
  OBVIOUS
<1>1. ASSUME NEW r \in Requests, Step(r)
      PROVE  IInv'
  BY <1>1, InferInv, InsertFaceInv, CheckPersonInv, FaceWriteInv,
     PersonWriteInv, CheckUniqueInv, CascadeInv, QueryInv, RecordInv,
     CommitInv, AbandonInv DEF Step
<1>2. CASE UNCHANGED vars
  BY <1>2 DEF vars, IInv, TypeOK, SessionInv, PlaceFits, WritesComplete,
              LockHolder, NewFaceHoldsPerson, CascadeIsComplete, LockFits,
              FacesHaveAPerson, People, Enrolled, FacesOf
<1> QED
  BY <1>1, <1>2, ArriveInv, AbandonInv DEF Next

\* The strengthened invariant holds in every reachable state.
THEOREM Invariance == Spec => []IInv
BY InitInv, NextInv, PTL DEF Spec

\* Every variable keeps its type: in particular no endpoint ever commits a
\* person without a name or a face without a person id, although the rows
\* are assembled statement by statement from what the session remembers.
THEOREM TypeCorrect == Spec => []TypeOK
<1>1. IInv => TypeOK
  BY DEF IInv
<1> QED
  BY <1>1, Invariance, PTL

\* A committed face always belongs to a committed person, whatever the
\* number of enrolments (register, enroll) and deletions (delete_person with
\* its ON DELETE CASCADE) in flight and wherever they interleave or crash.
THEOREM NoOrphanFaces == Spec => []FacesHaveAPerson
<1>1. IInv => FacesHaveAPerson
  BY DEF IInv
<1> QED
  BY <1>1, Invariance, PTL

=============================================================================
