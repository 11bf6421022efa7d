------------------------- MODULE GalleryAuditProofs -------------------------
(***************************************************************************)
(* Proofs about Gallery: the audit log answers for every embedding and for *)
(* every recognition, for any number of requests.                          *)
(*                                                                         *)
(* The argument: an enrolment and a replacement reach their commit only    *)
(* through Record, so the row and its entry become visible together; a     *)
(* face id is inserted once, so a face that a request loaded before the    *)
(* inference is still the same person's if it is there at the commit.      *)
(***************************************************************************)
EXTENDS GalleryProofs

-----------------------------------------------------------------------------
(***************************************************************************)
(* The inductive invariant, on top of IInv                                 *)
(***************************************************************************)

\* The entry by which request r answers for the embedding of face f of p.
Enrolment(r, p, f) == [by |-> r, action |-> "register", person |-> p,
                       face |-> f, success |-> TRUE]

\* Face f was enrolled for person p, according to the committed log.
OnRecord(f, p) ==
    \E g \in logs : g.action = "register" /\ g.face = f /\ g.person = p

\* Only a request that has committed has its face in the table.
EnrolledAreOver == \A f \in Requests : f \in Enrolled => pc[f] = "done"

\* Where a handler is tells which endpoint it serves: in particular those
\* that enrol or recognise come to their commit through "log" alone.
OpFits(place, t) ==
    /\ place \in {"insert", "check"} => t.op \in {"register", "enroll"}
    /\ place = "overwrite" => t.op = "replace"
    /\ place = "remove" => t.op = "delete_face"
    /\ place \in {"conflict", "refresh"} => t.op = "update"
    /\ place = "unique" => t.op \in {"create", "update"}
    /\ place \in {"flush", "trigger", "rows"} => t.op \in {"update", "delete"}
    /\ place = "query" => t.op \in {"verify", "search"}

\* The face that a replacement loaded, if it is still there, still belongs
\* to the person the request remembers.
TargetIsKept(t) ==
    t.op = "replace" =>
        /\ t.face \in Requests => pc[t.face] = "done"
        /\ t.face \in Enrolled => faces[t.face].person = t.person
        /\ t.rows \subseteq {t.face}

\* A session that is about to commit an embedding has its entry.
EntryIsReady(r, place, t) ==
    place = "commit" =>
        /\ t.op \in {"register", "enroll"} => Enrolment(r, t.person, r) \in t.log
        /\ t.op = "replace" => Enrolment(r, t.person, t.face) \in t.log

\* A session that found a match found an enrolled face.
MatchIsOnRecord(place, t) ==
    /\ place = "log" /\ t.op \in {"verify", "search"} /\ t.face # None =>
          OnRecord(t.face, t.person)
    /\ \A e \in t.log : \/ e.face = None
                        \/ e.action = "register"
                        \/ OnRecord(e.face, e.person)

AuditPart(r, place, t) ==
    /\ OpFits(place, t)
    /\ TargetIsKept(t)
    /\ EntryIsReady(r, place, t)
    /\ MatchIsOnRecord(place, t)

AInv ==
    /\ EnrolledAreOver
    /\ \A r \in Requests : AuditPart(r, pc[r], tx[r])
    /\ EmbeddingsAreAudited
    /\ MatchesWereEnrolled

-----------------------------------------------------------------------------
(***************************************************************************)
(* Steps that commit nothing                                               *)
(***************************************************************************)

\* It is enough that the session a step leaves satisfies its part.
LEMMA MoveAudit ==
    ASSUME IInv, AInv,
           NEW r \in Requests, NEW from, NEW t, NEW to,
           Move(r, from, t, to), from # "done",
           AuditPart(r, to, t)
    PROVE  AInv'
<1>1. /\ pc' = [pc EXCEPT ![r] = to] /\ pc[r] = from
      /\ tx' = [tx EXCEPT ![r] = t]
      /\ UNCHANGED <<persons, faces, logs>>
  BY DEF Move
<1>2. pc \in [Requests -> Places] /\ tx \in [Requests -> Session]
  BY DEF IInv, TypeOK
<1>3. EnrolledAreOver'
  BY <1>1, <1>2 DEF AInv, EnrolledAreOver, Enrolled
<1>4. ASSUME NEW f \in Requests, pc[f] = "done"
      PROVE  pc'[f] = "done"
  BY <1>1, <1>2, <1>4
<1>5. ASSUME NEW q \in Requests
      PROVE  AuditPart(q, pc[q], tx[q])'
  <2>1. AuditPart(q, pc'[q], tx'[q])
    BY <1>1, <1>2 DEF AInv
  <2> QED
    BY <1>1, <1>4, <2>1
       DEF AuditPart, OpFits, TargetIsKept, EntryIsReady, MatchIsOnRecord,
           OnRecord, Enrolled
<1>6. EmbeddingsAreAudited' /\ MatchesWereEnrolled'
  BY <1>1 DEF AInv, EmbeddingsAreAudited, MatchesWereEnrolled, Enrolled
<1> QED
  BY <1>3, <1>5, <1>6 DEF AInv

\* The steps between the first statement and the audit entry keep what the
\* session remembers of its request.
LEMMA StatementAudit ==
    ASSUME IInv, AInv,
           NEW r \in Requests, NEW from, NEW t, NEW to,
           Move(r, from, t, to), from # "done",
           t.op = tx[r].op, t.person = tx[r].person, t.face = tx[r].face,
           t.log = tx[r].log,
           t.op = "replace" => t.rows \subseteq {t.face},
           OpFits(to, t),
           to = "commit" => t.op \in {"create", "update", "delete", "delete_face"},
           to = "log" => t.op \notin {"verify", "search"}
    PROVE  AInv'
<1>1. AuditPart(r, pc[r], tx[r])
  BY DEF AInv
<1>2. AuditPart(r, to, t)
  BY <1>1 DEF AuditPart, TargetIsKept, EntryIsReady, MatchIsOnRecord
<1> QED
  BY <1>2, MoveAudit

LEMMA FailAudit ==
    ASSUME IInv, AInv, NEW r \in Requests, NEW from, Fail(r, from),
           from # "done"
    PROVE  AInv'
<1>1. AuditPart(r, pc[r], tx[r])
  BY DEF AInv
<1>2. tx[r].op = "replace" => tx[r].rows \subseteq {tx[r].face}
  BY <1>1 DEF AuditPart, TargetIsKept
<1>3. Move(r, from, tx[r], "error")
  BY DEF Fail
<1>4. OpFits("error", tx[r])
  BY DEF OpFits
<1> QED
  BY <1>2, <1>3, <1>4, StatementAudit

\* Every statement of a handler but the similarity query and the entry.
LEMMA StatementsAudit ==
    ASSUME IInv, AInv, NEW r \in Requests,
           \/ Infer(r) \/ InsertFace(r) \/ CheckPerson(r)
           \/ OverwriteFace(r) \/ RemoveFace(r)
           \/ CheckConflict(r) \/ FlushUpdate(r) \/ CheckUnique(r)
           \/ FlushDelete(r) \/ FireTrigger(r) \/ EndTrigger(r) \/ Refresh(r)
           \/ \E f \in Ids : TouchRow(r, f)
    PROVE  AInv'
<1> USE DEF OpFits
<1>1. /\ tx[r] \in Session /\ PlaceFits(pc[r], tx[r]) /\ OpFits(pc[r], tx[r])
      /\ tx[r].op = "replace" => tx[r].rows \subseteq {tx[r].face}
  BY DEF IInv, TypeOK, SessionInv, AInv, AuditPart, TargetIsKept
<1>2. ASSUME NEW from, NEW to, NEW t,
             from # "done", Move(r, from, t, to),
             t.op = tx[r].op, t.person = tx[r].person, t.face = tx[r].face,
             t.log = tx[r].log,
             t.rows = tx[r].rows \/ t.op # "replace",
             OpFits(to, t),
             to = "commit" => t.op \in {"create", "update", "delete", "delete_face"},
             to = "log" => t.op \notin {"verify", "search"}
      PROVE  AInv'
  BY <1>1, <1>2, StatementAudit
<1>3. CASE Infer(r)
  <2> DEFINE to == CASE tx[r].op \in {"register", "enroll"} -> "insert"
                     [] tx[r].op = "replace" -> "overwrite"
                     [] OTHER -> "query"
  <2>1. CASE Move(r, "infer", tx[r], to)
    <3>1. pc[r] = "infer"
      BY <2>1 DEF Move
    <3>2. OpFits(to, tx[r]) /\ to # "commit" /\ to # "log"
      BY <1>1, <3>1 DEF PlaceFits
    <3> HIDE DEF to, OpFits
    <3> QED
      BY <1>2, <2>1, <3>2
  <2> QED
    BY <1>3, <2>1, FailAudit DEF Infer
<1>4. CASE InsertFace(r)
  <2> DEFINE t == [tx[r] EXCEPT !.active = tx[r].person \in People =>
                                             persons[tx[r].person].active]
  <2>1. CASE Move(r, "insert", t, "check")
    <3>1. /\ t.op = tx[r].op /\ t.person = tx[r].person /\ t.face = tx[r].face
          /\ t.log = tx[r].log /\ t.rows = tx[r].rows
      BY <1>1 DEF Session
    <3>2. t.op \in {"register", "enroll"}
      BY <1>1, <2>1, <3>1 DEF Move
    <3> HIDE DEF t
    <3> QED
      BY <1>2, <2>1, <3>1, <3>2
  <2> QED
    BY <1>4, <2>1, FailAudit DEF InsertFace
<1>5. CASE CheckPerson(r)
  <2> DEFINE t == [tx[r] EXCEPT !.lock = "key_share",
                                !.inserted = @ \cup {"face"}]
  <2>1. CASE Move(r, "check", t, "log")
    <3>1. /\ t.op = tx[r].op /\ t.person = tx[r].person /\ t.face = tx[r].face
          /\ t.log = tx[r].log /\ t.rows = tx[r].rows
      BY <1>1 DEF Session
    <3>2. t.op \in {"register", "enroll"}
      BY <1>1, <2>1, <3>1 DEF Move
    <3> HIDE DEF t
    <3> QED
      BY <1>2, <2>1, <3>1, <3>2
  <2> QED
    BY <1>5, <2>1, FailAudit DEF CheckPerson
<1>6. CASE OverwriteFace(r)
  <2> DEFINE t == [tx[r] EXCEPT !.rows = {tx[r].face}]
  <2>1. CASE Move(r, "overwrite", t, "log")
    <3>1. /\ t.op = tx[r].op /\ t.person = tx[r].person /\ t.face = tx[r].face
          /\ t.log = tx[r].log /\ t.rows = {tx[r].face}
      BY <1>1 DEF Session
    <3>2. t.op = "replace"
      BY <1>1, <2>1, <3>1 DEF Move
    <3> HIDE DEF t
    <3> QED
      BY <2>1, <3>1, <3>2, StatementAudit
  <2> QED
    BY <1>6, <2>1, FailAudit DEF OverwriteFace
<1>7. CASE RemoveFace(r)
  <2> DEFINE t == [tx[r] EXCEPT !.rows = {tx[r].face} \cap Enrolled]
  <2>1. Move(r, "remove", t, "commit")
    BY <1>7 DEF RemoveFace
  <2>2. /\ t.op = tx[r].op /\ t.person = tx[r].person /\ t.face = tx[r].face
        /\ t.log = tx[r].log
    BY <1>1 DEF Session
  <2>3. t.op = "delete_face"
    BY <1>1, <2>1, <2>2 DEF Move
  <2> HIDE DEF t
  <2> QED
    BY <1>2, <2>1, <2>2, <2>3
<1>8. CASE CheckConflict(r) \/ Refresh(r)
  <2>1. ASSUME NEW from \in {"conflict", "refresh"}, NEW to \in {"flush", "commit"},
               Move(r, from, tx[r], to)
        PROVE  AInv'
    <3>1. tx[r].op = "update"
      BY <1>1, <2>1 DEF Move
    <3> QED
      BY <1>2, <2>1, <3>1
  <2> QED
    BY <1>8, <2>1, FailAudit DEF CheckConflict, Refresh
<1>9. CASE FlushUpdate(r) \/ FlushDelete(r)
  <2>1. ASSUME NEW mode, tx[r].op \in {"update", "delete"},
               NEW to \in {"unique", "trigger", "refresh"},
               to \in {"unique", "refresh"} => tx[r].op = "update",
               Move(r, "flush", [tx[r] EXCEPT !.lock = mode], to)
        PROVE  AInv'
    <3> DEFINE t == [tx[r] EXCEPT !.lock = mode]
    <3>1. /\ t.op = tx[r].op /\ t.person = tx[r].person /\ t.face = tx[r].face
          /\ t.log = tx[r].log /\ t.rows = tx[r].rows
      BY <1>1 DEF Session
    <3>2. OpFits(to, t)
      BY <2>1, <3>1
    <3> HIDE DEF t
    <3> QED
      BY <1>2, <2>1, <3>1, <3>2 DEF t
  <2>2. CASE FlushUpdate(r)
    <3> DEFINE mode == IF "ext" \in tx[r].sets THEN "update" ELSE "no_key_update"
               to == IF tx[r].ext # None THEN "unique" ELSE AfterUpdate(r)
    <3>1. CASE Move(r, "flush", [tx[r] EXCEPT !.lock = mode], to)
      <4>1. to \in {"unique", "trigger", "refresh"} /\ tx[r].op = "update"
        BY <2>2 DEF AfterUpdate, FlushUpdate
      <4> HIDE DEF mode, to
      <4> QED
        BY <2>1, <3>1, <4>1
    <3> QED
      BY <2>2, <3>1, FailAudit DEF FlushUpdate
  <2>3. CASE FlushDelete(r)
    <3>1. tx[r].op = "delete"
      BY <2>3 DEF FlushDelete
    <3>2. CASE Move(r, "flush", [tx[r] EXCEPT !.lock = "update"], "trigger")
      BY <2>1, <3>1, <3>2
    <3>3. CASE Move(r, "flush", tx[r], "commit")
      BY <1>2, <3>1, <3>3
    <3> QED
      BY <2>3, <3>2, <3>3 DEF FlushDelete
  <2> QED
    BY <1>9, <2>2, <2>3
<1>10. CASE CheckUnique(r)
  <2>1. CASE tx[r].op = "create"
             /\ Move(r, "unique", [tx[r] EXCEPT !.inserted = {"person"}], "commit")
    <3> DEFINE t == [tx[r] EXCEPT !.inserted = {"person"}]
    <3>1. /\ t.op = tx[r].op /\ t.person = tx[r].person /\ t.face = tx[r].face
          /\ t.log = tx[r].log /\ t.rows = tx[r].rows
      BY <1>1 DEF Session
    <3> HIDE DEF t
    <3> QED
      BY <1>2, <2>1, <3>1 DEF t
  <2>2. CASE tx[r].op = "update" /\ Move(r, "unique", tx[r], AfterUpdate(r))
    <3>1. AfterUpdate(r) \in {"trigger", "refresh"}
      BY DEF AfterUpdate
    <3> QED
      BY <1>2, <2>2, <3>1
  <2> QED
    BY <1>10, <2>1, <2>2, FailAudit DEF CheckUnique
<1>11. ASSUME NEW t, NEW from \in {"trigger", "rows"},
              tx[r].op \in {"update", "delete"}, Move(r, from, t, "rows"),
              t.op = tx[r].op, t.person = tx[r].person, t.face = tx[r].face,
              t.log = tx[r].log
       PROVE  AInv'
  BY <1>2, <1>11
<1>12. CASE FireTrigger(r)
  <2> DEFINE t == [tx[r] EXCEPT !.todo = FacesOf(tx[r].person)]
  <2>1. Move(r, "trigger", t, "rows")
    BY <1>12 DEF FireTrigger
  <2>2. /\ t.op = tx[r].op /\ t.person = tx[r].person /\ t.face = tx[r].face
        /\ t.log = tx[r].log
    BY <1>1 DEF Session
  <2>3. tx[r].op \in {"update", "delete"}
    BY <1>1, <2>1 DEF Move
  <2>4. "trigger" \in {"trigger", "rows"}
    OBVIOUS
  <2> HIDE DEF t
  <2> QED
    BY <1>11, <2>1, <2>2, <2>3, <2>4
<1>13. ASSUME NEW f \in Ids, TouchRow(r, f)
       PROVE  AInv'
  <2> DEFINE t == [tx[r] EXCEPT !.todo = @ \ {f},
                                !.rows = @ \cup ({f} \cap Enrolled)]
  <2>1. Move(r, "rows", t, "rows")
    BY <1>13 DEF TouchRow
  <2>2. /\ t.op = tx[r].op /\ t.person = tx[r].person /\ t.face = tx[r].face
        /\ t.log = tx[r].log
    BY <1>1 DEF Session
  <2>3. tx[r].op \in {"update", "delete"}
    BY <1>1, <2>1 DEF Move
  <2>4. "rows" \in {"trigger", "rows"}
    OBVIOUS
  <2> HIDE DEF t
  <2> QED
    BY <1>11, <2>1, <2>2, <2>3, <2>4
<1>14. CASE EndTrigger(r)
  <2> DEFINE to == IF tx[r].op = "update" THEN "refresh" ELSE "commit"
  <2>1. Move(r, "rows", tx[r], to) /\ tx[r].op \in {"update", "delete"}
    BY <1>1, <1>14 DEF EndTrigger, Move
  <2>2. OpFits(to, tx[r]) /\ to # "log"
    OBVIOUS
  <2> HIDE DEF to
  <2> QED
    BY <1>2, <2>1, <2>2
<1> QED
  BY <1>3, <1>4, <1>5, <1>6, <1>7, <1>8, <1>9, <1>10, <1>12, <1>13, <1>14

-----------------------------------------------------------------------------
(***************************************************************************)
(* The first statement of a handler, and the last                          *)
(***************************************************************************)

\* A new session has no entry yet; one that replaces remembers whose face it
\* found.
LEMMA OpenAudit ==
    ASSUME IInv, AInv,
           NEW r \in Requests, NEW kind, NEW t \in Session, NEW place,
           Open(r, kind, t, place),
           t.log = {}, t.rows = {}, place \notin {"log", "commit"},
           OpFits(place, [t EXCEPT !.op = kind]),
           kind = "replace" => \/ t.face \notin Ids
                               \/ /\ t.face \in Enrolled
                                  /\ t.person = faces[t.face].person
    PROVE  AInv'
<1> DEFINE s == [t EXCEPT !.op = kind]
<1>1. /\ s.op = kind /\ s.log = {} /\ s.rows = {}
      /\ s.face = t.face /\ s.person = t.person
  BY DEF Session
<1>2. Move(r, "idle", s, place)
  BY DEF Open, Move
<1>3. OpFits(place, s)
  OBVIOUS
<1> HIDE DEF s
<1>4. Enrolled \subseteq Ids /\ Requests \subseteq Ids
  BY DEF IInv, TypeOK, Ids
<1>5. TargetIsKept(s)
  BY <1>1, <1>4 DEF TargetIsKept, AInv, EnrolledAreOver
<1>6. EntryIsReady(r, place, s) /\ MatchIsOnRecord(place, s)
  BY <1>1 DEF EntryIsReady, MatchIsOnRecord
<1> QED
  BY <1>2, <1>3, <1>5, <1>6, MoveAudit DEF AuditPart

\* Whatever request arrives.
LEMMA ArriveAudit ==
    ASSUME IInv, AInv, NEW r \in Requests, Arrive(r)
    PROVE  AInv'
<1>1. /\ NoSession \in Session /\ NoSession.log = {} /\ NoSession.rows = {}
      /\ NoSession.face \notin Ids
  BY NoSessionType, ConstantsAssumption DEF NoSession, Ids
<1>2. ASSUME NEW kind, NEW t \in Session, NEW place,
             Open(r, kind, t, place), t.log = {}, t.rows = {},
             \/ place \in {"infer", "error"}
             \/ place = "remove" /\ kind = "delete_face"
             \/ place = "unique" /\ kind = "create"
             \/ place \in {"conflict", "flush", "refresh"} /\ kind = "update"
             \/ place = "flush" /\ kind = "delete",
             kind = "replace" => \/ t.face \notin Ids
                                 \/ /\ t.face \in Enrolled
                                    /\ t.person = faces[t.face].person
      PROVE  AInv'
  <2>1. [t EXCEPT !.op = kind].op = kind
    BY DEF Session
  <2>2. OpFits(place, [t EXCEPT !.op = kind]) /\ place \notin {"log", "commit"}
    BY <1>2, <2>1 DEF OpFits
  <2> QED
    BY <1>2, <2>2, OpenAudit
<1>3. ASSUME NEW kind, Refuse(r, kind)
      PROVE  AInv'
  BY <1>1, <1>2, <1>3 DEF Refuse
<1>4. ASSUME NEW p \in Ids
      PROVE  /\ [NoSession EXCEPT !.person = p] \in Session
             /\ [NoSession EXCEPT !.person = p].log = {}
             /\ [NoSession EXCEPT !.person = p].rows = {}
  BY NoSessionType, <1>4 DEF NoSession, Session
<1>5. ASSUME NEW p \in Ids, NEW kind \in {"register", "enroll", "verify"},
             Open(r, kind, [NoSession EXCEPT !.person = p], "infer")
      PROVE  AInv'
  BY <1>2, <1>4, <1>5
<1>6. ASSUME NEW p \in Ids, Register(r, p) \/ Verify(r, p) \/ DeletePerson(r, p)
      PROVE  AInv'
  <2>1. CASE Open(r, "delete", [NoSession EXCEPT !.person = p], "flush")
    BY <1>2, <1>4, <2>1
  <2>2. "register" \in {"register", "enroll", "verify"}
        /\ "verify" \in {"register", "enroll", "verify"}
    OBVIOUS
  <2> QED
    BY <1>3, <1>5, <1>6, <2>1, <2>2 DEF Register, Verify, DeletePerson
<1>7. ASSUME NEW n \in Names, EnrollByName(r, n)
      PROVE  AInv'
  <2> DEFINE u == [NoSession EXCEPT !.person = r, !.name = n,
                                    !.inserted = {"person"}]
  <2>1. u \in Session /\ u.log = {} /\ u.rows = {}
    BY NoSessionType DEF NoSession, Session, Ids
  <2>2. CASE Open(r, "enroll", u, "infer")
    <3> HIDE DEF u
    <3> QED
      BY <1>2, <2>1, <2>2
  <2>3. People \subseteq Ids /\ "enroll" \in {"register", "enroll", "verify"}
    BY DEF IInv, TypeOK
  <2> QED
    BY <1>5, <1>7, <2>2, <2>3 DEF EnrollByName
<1>8. ASSUME NEW f \in Ids, ReplaceImage(r, f) \/ DeleteFace(r, f)
      PROVE  AInv'
  <2> DEFINE t == [NoSession EXCEPT !.face = f, !.person = faces[f].person]
             u == [NoSession EXCEPT !.face = f]
  <2>1. CASE f \in Enrolled /\ Open(r, "replace", t, "infer")
    <3>1. faces[f].person \in Ids
      BY <2>1 DEF IInv, TypeOK, FaceRow
    <3>2. /\ t \in Session /\ t.log = {} /\ t.rows = {}
          /\ t.face = f /\ t.person = faces[f].person
      BY <3>1, NoSessionType DEF NoSession, Session
    <3> HIDE DEF t
    <3> QED
      BY <1>2, <2>1, <3>2
  <2>2. CASE Open(r, "delete_face", u, "remove")
    <3>1. u \in Session /\ u.log = {} /\ u.rows = {}
      BY NoSessionType DEF NoSession, Session
    <3> HIDE DEF u
    <3> QED
      BY <1>2, <2>2, <3>1
  <2> QED
    BY <1>3, <1>8, <2>1, <2>2 DEF ReplaceImage, DeleteFace
<1>9. ASSUME NEW n \in Names, NEW x \in ExtIds \cup {None}, CreatePerson(r, n, x)
      PROVE  AInv'
  <2> DEFINE t == [NoSession EXCEPT !.person = r, !.name = n, !.ext = x]
  <2>1. t \in Session /\ t.log = {} /\ t.rows = {}
    BY NoSessionType DEF NoSession, Session, Ids
  <2>2. CASE Open(r, "create", t, "unique")
    <3> HIDE DEF t
    <3> QED
      BY <1>2, <2>1, <2>2
  <2> QED
    BY <1>3, <1>9, <2>2 DEF CreatePerson
<1>10. ASSUME NEW p \in Ids, NEW new \in PersonRow, UpdatePerson(r, p, new)
       PROVE  AInv'
  <2> DEFINE
        sets == {a \in Fields : new[a] # persons[p][a]}
        t == [NoSession EXCEPT
                !.person = p, !.sets = sets,
                !.name = IF "name" \in sets THEN new.name ELSE None,
                !.ext = IF "ext" \in sets THEN new.ext ELSE None,
                !.active = "active" \in sets => new.active]
        first == IF "ext" \in sets /\ new.ext # None THEN {"conflict"}
                 ELSE IF sets = {} THEN {"flush", "refresh"}
                 ELSE {"flush"}
  <2>1. t \in Session /\ t.log = {} /\ t.rows = {}
    <3> DEFINE n == IF "name" \in sets THEN new.name ELSE None
               x == IF "ext" \in sets THEN new.ext ELSE None
               a == "active" \in sets => new.active
    <3>1. /\ n \in Names \cup {None} /\ x \in ExtIds \cup {None}
          /\ a \in BOOLEAN /\ sets \in SUBSET Fields
      BY DEF PersonRow
    <3>2. t = [NoSession EXCEPT !.person = p, !.sets = sets, !.name = n,
                                !.ext = x, !.active = a]
      OBVIOUS
    <3> HIDE DEF t, n, x, a, sets
    <3> QED
      BY <3>1, <3>2, PatchSession
  <2>2. first \subseteq {"conflict", "flush", "refresh"}
    OBVIOUS
  <2>3. ASSUME NEW place \in first, Open(r, "update", t, place)
        PROVE  AInv'
    <3> HIDE DEF t, first
    <3> QED
      BY <1>2, <2>1, <2>2, <2>3
  <2> QED
    BY <1>3, <1>10, <2>3 DEF UpdatePerson
<1>11. CASE Search(r)
  BY <1>1, <1>2, <1>11 DEF Search
<1> QED
  BY <1>6, <1>7, <1>8, <1>9, <1>10, <1>11 DEF Arrive

\* The similarity query: an enrolled face has its enrolment in the log.
LEMMA QueryAudit ==
    ASSUME IInv, AInv, NEW r \in Requests, Query(r)
    PROVE  AInv'
<1>1. tx[r] \in Session /\ AuditPart(r, pc[r], tx[r])
  BY DEF IInv, TypeOK, AInv
<1>2. tx[r].op \in {"verify", "search"}
  BY DEF Query
<1>3. ASSUME NEW f, NEW p, NEW hit,
             f = None \/ (f \in Enrolled /\ p = faces[f].person),
             Move(r, "query", [tx[r] EXCEPT !.face = f, !.person = p,
                                            !.active = hit], "log")
      PROVE  AInv'
  <2> DEFINE t == [tx[r] EXCEPT !.face = f, !.person = p, !.active = hit]
  <2>1. /\ t.op = tx[r].op /\ t.face = f /\ t.person = p /\ t.log = tx[r].log
    BY <1>1 DEF Session
  <2> HIDE DEF t
  <2>2. f # None => OnRecord(f, p)
    BY <1>3 DEF AInv, EmbeddingsAreAudited, OnRecord
  <2>3. AuditPart(r, "log", t)
    BY <1>1, <1>2, <2>1, <2>2
       DEF AuditPart, OpFits, TargetIsKept, EntryIsReady, MatchIsOnRecord
  <2> QED
    BY <1>3, <2>3, MoveAudit DEF t
<1>4. ASSUME NEW f \in FacesOf(tx[r].person)
      PROVE  f \in Enrolled /\ tx[r].person = faces[f].person
  BY DEF FacesOf
<1> QED
  BY <1>3, <1>4 DEF Query

\* The audit entry is the one that answers for the session's embedding, or
\* names the face that its query found.
LEMMA RecordAudit ==
    ASSUME IInv, AInv, NEW r \in Requests, Record(r)
    PROVE  AInv'
<1> DEFINE t == [tx[r] EXCEPT !.log = {Entry(r)}]
<1>1. tx[r] \in Session /\ AuditPart(r, pc[r], tx[r])
  BY DEF IInv, TypeOK, AInv
<1>2. Move(r, "log", t, "commit") /\ pc[r] = "log"
  BY DEF Record, Move
<1>3. /\ t.op = tx[r].op /\ t.face = tx[r].face /\ t.person = tx[r].person
      /\ t.rows = tx[r].rows /\ t.log = {Entry(r)}
  BY <1>1 DEF Session
<1> HIDE DEF t
<1>4. EntryIsReady(r, "commit", t)
  BY <1>3 DEF EntryIsReady, Enrolment, Entry
<1>5. MatchIsOnRecord("commit", t)
  <2>1. /\ \/ Entry(r).face = None
           \/ Entry(r).action = "register"
           \/ tx[r].op \in {"verify", "search"} /\ tx[r].face # None
        /\ tx[r].op \in {"verify", "search"} =>
              Entry(r).face = tx[r].face /\ Entry(r).person = tx[r].person
    BY DEF Entry
  <2> QED
    BY <1>1, <1>2, <1>3, <2>1 DEF AuditPart, MatchIsOnRecord
<1>6. AuditPart(r, "commit", t)
  BY <1>1, <1>3, <1>4, <1>5 DEF AuditPart, OpFits, TargetIsKept
<1> QED
  BY <1>2, <1>6, MoveAudit

\* A session that is rolled back takes its entry with it.
LEMMA AbandonAudit ==
    ASSUME IInv, AInv, NEW r \in Requests, Rollback(r) \/ Crash(r)
    PROVE  AInv'
<1>1. Move(r, pc[r], NoSession, "failed") /\ pc[r] # "done"
  BY DEF Rollback, Crash, Move, Live
<1>2. AuditPart(r, "failed", NoSession)
  BY DEF NoSession, AuditPart, OpFits, TargetIsKept, EntryIsReady,
         MatchIsOnRecord
<1> QED
  BY <1>1, <1>2, MoveAudit

-----------------------------------------------------------------------------
(***************************************************************************)
(* The commit                                                              *)
(***************************************************************************)

\* The rows and the entry of a session become visible together.
LEMMA CommitAudit ==
    ASSUME IInv, AInv, NEW r \in Requests, Commit(r)
    PROVE  AInv'
<1> DEFINE t == tx[r]
<1>1. /\ t \in Session /\ pc[r] = "commit"
      /\ SessionInv(r, "commit", t) /\ AuditPart(r, "commit", t)
  BY DEF IInv, TypeOK, AInv, Commit
<1>2. /\ tx' = [tx EXCEPT ![r] = NoSession] /\ pc' = [pc EXCEPT ![r] = "done"]
      /\ logs' = logs \cup t.log
  BY DEF Commit
<1>3. ASSUME NEW f \in Requests, pc[f] = "done" \/ f = r
      PROVE  pc'[f] = "done"
  BY <1>2, <1>3 DEF IInv, TypeOK
<1>4. EnrolledAreOver'
  BY <1>3, CommittedRows DEF AInv, EnrolledAreOver, BornFace
<1>5. ASSUME NEW f, NEW p, OnRecord(f, p)
      PROVE  OnRecord(f, p)'
  BY <1>2, <1>5 DEF OnRecord
<1>6. ASSUME NEW q \in Requests
      PROVE  AuditPart(q, pc[q], tx[q])'
  <2>1. CASE q = r
    <3>1. tx'[q] = NoSession /\ pc'[q] = "done"
      BY <1>2, <2>1 DEF IInv, TypeOK
    <3> QED
      BY <3>1 DEF NoSession, AuditPart, OpFits, TargetIsKept, EntryIsReady,
                  MatchIsOnRecord
  <2>2. CASE q # r
    <3>1. tx'[q] = tx[q] /\ pc'[q] = pc[q] /\ AuditPart(q, pc[q], tx[q])
      BY <1>2, <2>2 DEF IInv, TypeOK, AInv
    <3>2. TargetIsKept(tx[q])'
      <4>1. tx[q].op = "replace" => tx[q].face \notin BornFace(r, t)
        BY <1>1, <3>1 DEF AuditPart, TargetIsKept, BornFace
      <4> QED
        BY <1>3, <3>1, <4>1, CommittedRows DEF AuditPart, TargetIsKept
    <3>3. MatchIsOnRecord(pc[q], tx[q])'
      BY <1>5, <3>1 DEF AuditPart, MatchIsOnRecord
    <3> QED
      BY <3>1, <3>2, <3>3 DEF AuditPart, OpFits, EntryIsReady
  <2> QED
    BY <2>1, <2>2
<1>7. EmbeddingsAreAudited'
  <2> SUFFICES ASSUME NEW f \in Enrolled'
               PROVE  Enrolment(faces'[f].image, faces'[f].person, f) \in logs'
    BY DEF EmbeddingsAreAudited, Enrolment
  <2>1. faces' = FacesAfter(r) /\ DOMAIN faces' = Enrolled'
    BY DEF Commit, Enrolled
  <2>2. CASE f \in BornFace(r, t)
    <3>1. faces'[f].image = r /\ faces'[f].person = t.person /\ f = r
      BY <2>1, <2>2, CommittedRows DEF FacesAfter, GoneFaces, BornFace
    <3>2. Enrolment(r, t.person, r) \in t.log
      BY <1>1, <2>2 DEF BornFace, SessionInv, NewFaceHoldsPerson, AuditPart,
                        EntryIsReady
    <3> QED
      BY <1>2, <3>1, <3>2
  <2>3. CASE f \notin BornFace(r, t)
    <3>1. f \in Enrolled /\ faces[f] \in FaceRow
          /\ faces'[f].person = faces[f].person
      BY <2>3, CommittedRows DEF IInv, TypeOK
    <3>2. faces'[f].image = IF t.op = "replace" /\ f \in t.rows
                            THEN r ELSE faces[f].image
      BY <2>1, <2>3, <3>1, CommittedRows
         DEF FacesAfter, GoneFaces, BornFace, FaceRow
    <3>3. CASE t.op = "replace" /\ f \in t.rows
      <4>1. f = t.face /\ faces[f].person = t.person
        BY <1>1, <3>1, <3>3 DEF AuditPart, TargetIsKept
      <4>2. Enrolment(r, t.person, f) \in t.log
        BY <1>1, <3>3, <4>1 DEF AuditPart, EntryIsReady
      <4> QED
        BY <1>2, <3>1, <3>2, <3>3, <4>1, <4>2
    <3>4. CASE ~(t.op = "replace" /\ f \in t.rows)
      <4>1. Enrolment(faces[f].image, faces[f].person, f) \in logs
        BY <3>1 DEF AInv, EmbeddingsAreAudited, Enrolment
      <4> QED
        BY <1>2, <3>1, <3>2, <3>4, <4>1
    <3> QED
      BY <3>3, <3>4
  <2> QED
    BY <2>2, <2>3
<1>8. MatchesWereEnrolled'
  <2> SUFFICES ASSUME NEW e \in logs', e.face # None
               PROVE  OnRecord(e.face, e.person)'
    BY DEF MatchesWereEnrolled, OnRecord
  <2>1. CASE e \in logs
    <3>1. OnRecord(e.face, e.person)
      BY <2>1 DEF AInv, MatchesWereEnrolled, OnRecord
    <3> QED
      BY <1>5, <3>1
  <2>2. CASE e \in t.log /\ e.action = "register"
    BY <1>2, <2>2 DEF OnRecord
  <2>3. CASE e \in t.log /\ e.action # "register"
    <3>1. OnRecord(e.face, e.person)
      BY <1>1, <2>3 DEF AuditPart, MatchIsOnRecord
    <3> QED
      BY <1>5, <3>1
  <2> QED
    BY <1>2, <2>1, <2>2, <2>3
<1> QED
  BY <1>4, <1>6, <1>7, <1>8 DEF AInv

-----------------------------------------------------------------------------
(***************************************************************************)
(* The theorems                                                            *)
(***************************************************************************)

LEMMA InitAudit == Init => AInv
<1> SUFFICES ASSUME Init PROVE AInv
  OBVIOUS
<1> USE DEF Init
<1>1. PICK P \in SUBSET Seeds : persons \in [P -> PersonRow]
  OBVIOUS
<1>2. PICK F \in SUBSET People :
          faces = [f \in F |-> [person |-> f, image |-> f,
                                active |-> persons[f].active]]
  OBVIOUS
<1>3. Enrolled = F /\ Enrolled \subseteq Seeds
  BY <1>1, <1>2 DEF Enrolled, People
<1>4. EnrolledAreOver
  BY <1>3, ConstantsAssumption DEF EnrolledAreOver
<1>5. ASSUME NEW r \in Requests
      PROVE  AuditPart(r, pc[r], tx[r])
  BY DEF NoSession, AuditPart, OpFits, TargetIsKept, EntryIsReady,
         MatchIsOnRecord
<1>6. EmbeddingsAreAudited
  BY <1>2, <1>3 DEF EmbeddingsAreAudited
<1>7. MatchesWereEnrolled
  BY DEF MatchesWereEnrolled
<1> QED
  BY <1>4, <1>5, <1>6, <1>7 DEF AInv

LEMMA NextAudit == IInv /\ AInv /\ [Next]_vars => AInv'
<1> SUFFICES ASSUME IInv, AInv, [Next]_vars PROVE AInv'
  OBVIOUS
<1>1. ASSUME NEW r \in Requests, Step(r)
      PROVE  AInv'
  BY <1>1, StatementsAudit, QueryAudit, RecordAudit, CommitAudit, AbandonAudit
     DEF Step
<1>2. CASE UNCHANGED vars
  BY <1>2 DEF vars, AInv, EnrolledAreOver, AuditPart, OpFits, TargetIsKept,
              EntryIsReady, MatchIsOnRecord, OnRecord, EmbeddingsAreAudited,
              MatchesWereEnrolled, Enrolled
<1> QED
  BY <1>1, <1>2, ArriveAudit, AbandonAudit DEF Next

LEMMA AuditInvariance == Spec => []AInv
BY InitAudit, NextAudit, Invariance, PTL DEF Spec

\* Whoever's upload a committed face's embedding comes from, the log says so:
\* however many replacements of one face, enrolments and deletions overlap.
THEOREM EmbeddingsAnsweredFor == Spec => []EmbeddingsAreAudited
<1>1. AInv => EmbeddingsAreAudited
  BY DEF AInv
<1> QED
  BY <1>1, AuditInvariance, PTL

\* No verification or search ever names, in the log, a face that was not
\* enrolled for the person it names, although its query and its commit are
\* statements apart.
THEOREM RecognitionsOnRecord == Spec => []MatchesWereEnrolled
<1>1. AInv => MatchesWereEnrolled
  BY DEF AInv
<1> QED
  BY <1>1, AuditInvariance, PTL

=============================================================================
