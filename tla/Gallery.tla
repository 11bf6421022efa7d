------------------------------ MODULE Gallery ------------------------------
(***************************************************************************)
(* The enrolment gallery: the tables persons, faces and recognition_logs,  *)
(* and the HTTP requests that read and write them concurrently.            *)
(*                                                                         *)
(* A request owns one database session for its whole life (get_db): its    *)
(* writes stay private until the commit that follows the handler, or are   *)
(* rolled back when the handler raises.  The database runs READ COMMITTED: *)
(* each statement sees the rows committed before it started and its own.   *)
(* One action is one statement of a handler, so every await of the code is *)
(* a point where the other requests run.                                   *)
(*                                                                         *)
(* Ids are uuid4 values drawn by the request that inserts the row; no      *)
(* request inserts two persons or two faces, so a row is named by the      *)
(* request that inserted it, or by a seed when it was there at the start.  *)
(***************************************************************************)

CONSTANTS
    Requests,   \* the requests that ever arrive
    Seeds,      \* ids of the rows that may exist at the start
    Names,      \* values of persons.full_name
    ExtIds,     \* values of persons.external_id
    Kinds,      \* the endpoints that are called
    None        \* SQL NULL

Endpoints == {"register", "enroll", "replace", "delete_face", "create",
              "update", "delete", "verify", "search"}

ASSUME ConstantsAssumption ==
    /\ Kinds \subseteq Endpoints
    /\ Requests \cap Seeds = {}
    /\ None \notin Requests \cup Seeds \cup Names \cup ExtIds

Ids == Seeds \cup Requests

(***************************************************************************)
(* Rows.  A face's embedding, score, bbox and thumbnail all come from one  *)
(* upload: image is the request that uploaded it.                          *)
(***************************************************************************)
PersonRow == [name : Names, ext : ExtIds \cup {None}, active : BOOLEAN]

Fields == {"name", "ext", "active"}

FaceRow == [person : Ids, image : Ids, active : BOOLEAN]

LogRow == [by : Ids, action : {"register", "verify", "search"},
           person : Ids \cup {None}, face : Ids \cup {None},
           success : BOOLEAN]

LockModes == {"none", "key_share", "no_key_update", "update"}

(***************************************************************************)
(* What a session holds: the rows it loaded, its uncommitted writes and    *)
(* its row locks.  active is the status it writes, or for a recognition    *)
(* whether the match passed the threshold; lock is its lock on the row     *)
(* persons[person]; rows are the committed face rows it has updated or     *)
(* deleted, hence locked; todo are those its statement has yet to reach.   *)
(***************************************************************************)
Session == [op : Endpoints \cup {"none"},
            person : Ids \cup {None}, face : Ids \cup {None},
            name : Names \cup {None}, ext : ExtIds \cup {None},
            active : BOOLEAN, sets : SUBSET Fields,
            inserted : SUBSET {"person", "face"},
            lock : LockModes,
            rows : SUBSET Ids, todo : SUBSET Ids,
            log : SUBSET LogRow]

NoSession == [op |-> "none", person |-> None, face |-> None, name |-> None,
              ext |-> None, active |-> TRUE, sets |-> {}, inserted |-> {},
              lock |-> "none", rows |-> {}, todo |-> {}, log |-> {}]

VARIABLES
    persons,    \* committed rows of table persons: id -> PersonRow
    faces,      \* committed rows of table faces: id -> FaceRow
    logs,       \* committed rows of table recognition_logs
    pc,         \* where each request's handler is
    tx,         \* each request's database session
    raced       \* history: faces whose insertion overlapped a status change

vars == <<persons, faces, logs, pc, tx, raced>>

Live == {"infer", "insert", "check", "overwrite", "remove", "conflict",
         "flush", "unique", "trigger", "rows", "refresh", "query", "log",
         "commit", "error"}

Places == Live \cup {"idle", "done", "failed"}

People == DOMAIN persons
Enrolled == DOMAIN faces
FacesOf(p) == {f \in Enrolled : faces[f].person = p}

\* An external id, when there is one, names one person.
ExternalIdsAreUnique ==
    \A p, q \in People :
        persons[p].ext = persons[q].ext /\ p # q => persons[p].ext = None

(***************************************************************************)
(* At the start each seed person that exists has at most one face, which   *)
(* carries its person's status and has its enrolment in the log.           *)
(***************************************************************************)
Init ==
    /\ \E P \in SUBSET Seeds : persons \in [P -> PersonRow]
    /\ ExternalIdsAreUnique
    /\ \E F \in SUBSET People :
          faces = [f \in F |-> [person |-> f, image |-> f,
                                active |-> persons[f].active]]
    /\ logs = {[by |-> f, action |-> "register", person |-> f, face |-> f,
                success |-> TRUE] : f \in Enrolled}
    /\ pc = [r \in Requests |-> "idle"]
    /\ tx = [r \in Requests |-> NoSession]
    /\ raced = {}

-----------------------------------------------------------------------------
(***************************************************************************)
(* The database                                                            *)
(***************************************************************************)

\* PostgreSQL's row-lock conflicts, for the three modes these writes take.
Conflicts ==
    {<<"key_share", "update">>, <<"update", "key_share">>,
     <<"no_key_update", "no_key_update">>, <<"no_key_update", "update">>,
     <<"update", "no_key_update">>, <<"update", "update">>}

\* Request r may take its person's row lock in this mode now.
CanLock(r, mode) ==
    \A q \in Requests \ {r} :
        tx[q].person = tx[r].person => <<tx[q].lock, mode>> \notin Conflicts

\* No other session has an uncommitted write on the committed face row f.
FaceFree(r, f) == \A q \in Requests \ {r} : f \notin tx[q].rows

\* Rows of persons that r's next statement sees: committed ones and its own.
Sees(r, p) == p \in People \/ (p = r /\ "person" \in tx[r].inserted)

\* A uniqueness check on x waits while another session has an uncommitted
\* insertion of x, or an uncommitted update or deletion of the row with x.
KeyFree(r, x) ==
    \A q \in Requests \ {r} :
        LET t == tx[q]
        IN  /\ "person" \in t.inserted => t.ext # x
            /\ t.lock = "update" =>
                  /\ persons[t.person].ext # x
                  /\ t.ext = x => pc[q] = "unique"

\* The uncommitted rows of r become the committed ones.
PersonsAfter(r) ==
    LET t == tx[r]
        gone == IF t.op = "delete" /\ t.lock = "update" THEN {t.person} ELSE {}
        born == IF "person" \in t.inserted THEN {r} ELSE {}
    IN  [p \in (People \ gone) \cup born |->
            IF p \in born
            THEN [name |-> t.name, ext |-> t.ext, active |-> TRUE]
            ELSE IF t.op = "update" /\ p = t.person
            THEN [persons[p] EXCEPT
                    !.name = IF "name" \in t.sets THEN t.name ELSE @,
                    !.ext = IF "ext" \in t.sets THEN t.ext ELSE @,
                    !.active = IF "active" \in t.sets THEN t.active ELSE @]
            ELSE persons[p]]

FacesAfter(r) ==
    LET t == tx[r]
        gone == IF t.op \in {"delete_face", "delete"} THEN t.rows ELSE {}
        born == IF "face" \in t.inserted THEN {r} ELSE {}
    IN  [f \in (Enrolled \ gone) \cup born |->
            IF f \in born
            THEN [person |-> t.person, image |-> r, active |-> t.active]
            ELSE [faces[f] EXCEPT
                    !.image = IF t.op = "replace" /\ f \in t.rows
                              THEN r ELSE @,
                    !.active = IF t.op = "update" /\ f \in t.rows
                               THEN t.active ELSE @]]

\* The session q has read the status its new face of p will carry.
Inserting(q, p) ==
    /\ tx[q].op \in {"register", "enroll"}
    /\ tx[q].person = p
    /\ pc[q] \in {"check", "log", "commit"}

\* The session q has an uncommitted change of p's status.
Toggling(q, p) ==
    /\ tx[q].op = "update"
    /\ tx[q].person = p
    /\ "active" \in tx[q].sets
    /\ tx[q].lock # "none"

\* History: when r commits, the insertions it overlaps with.
NewlyRaced(r) ==
    LET p == tx[r].person
    IN  IF Toggling(r, p)
        THEN {q \in Requests \ {r} : Inserting(q, p)}
        ELSE IF "face" \in tx[r].inserted
                /\ \E q \in Requests \ {r} : Toggling(q, p)
        THEN {r}
        ELSE {}

-----------------------------------------------------------------------------
(***************************************************************************)
(* Endpoints: each opens a session, runs its first SELECT and either goes  *)
(* on or is refused.                                                       *)
(***************************************************************************)

Open(r, kind, session, place) ==
    /\ pc[r] = "idle"
    /\ kind \in Kinds
    /\ pc' = [pc EXCEPT ![r] = place]
    /\ tx' = [tx EXCEPT ![r] = [session EXCEPT !.op = kind]]
    /\ UNCHANGED <<persons, faces, logs, raced>>

\* An exception before the first write: no such row, or a value refused.
Refuse(r, kind) == Open(r, kind, NoSession, "error")

\* POST /faces/register
Register(r, p) ==
    \/ /\ p \in People
       /\ Open(r, "register", [NoSession EXCEPT !.person = p], "infer")
    \/ /\ p \notin People
       /\ Refuse(r, "register")

\* POST /faces/enroll: any person of that name, else a new one is inserted.
EnrollByName(r, n) ==
    LET named == {p \in People : persons[p].name = n}
    IN  \/ \E p \in named :
             Open(r, "enroll", [NoSession EXCEPT !.person = p], "infer")
        \/ /\ named = {}
           /\ Open(r, "enroll",
                   [NoSession EXCEPT !.person = r, !.name = n,
                                     !.inserted = {"person"}], "infer")

\* PUT /faces/{face_id}/image
ReplaceImage(r, f) ==
    \/ /\ f \in Enrolled
       /\ Open(r, "replace",
               [NoSession EXCEPT !.face = f, !.person = faces[f].person],
               "infer")
    \/ /\ f \notin Enrolled
       /\ Refuse(r, "replace")

\* DELETE /faces/{face_id}
DeleteFace(r, f) ==
    \/ /\ f \in Enrolled
       /\ Open(r, "delete_face", [NoSession EXCEPT !.face = f], "remove")
    \/ /\ f \notin Enrolled
       /\ Refuse(r, "delete_face")

\* POST /persons: 409 when the external id is taken already.
CreatePerson(r, n, x) ==
    IF x # None /\ \E p \in People : persons[p].ext = x
    THEN Refuse(r, "create")
    ELSE Open(r, "create",
              [NoSession EXCEPT !.person = r, !.name = n, !.ext = x], "unique")

\* PATCH /persons/{person_id}: the ORM writes only the attributes whose value
\* differs from the one it loaded, so a patch is given by the row it leads to;
\* one of the metadata alone, which are not modelled, writes the row too.  It
\* is refused for no such person, and for a name or a status of null.
UpdatePerson(r, p, new) ==
    \/ /\ p \in People
       /\ LET sets == {a \in Fields : new[a] # persons[p][a]}
              first == IF "ext" \in sets /\ new.ext # None THEN {"conflict"}
                       ELSE IF sets = {} THEN {"flush", "refresh"}
                       ELSE {"flush"}
          IN  \E place \in first :
                Open(r, "update",
                     [NoSession EXCEPT
                        !.person = p, !.sets = sets,
                        !.name = IF "name" \in sets THEN new.name ELSE None,
                        !.ext = IF "ext" \in sets THEN new.ext ELSE None,
                        !.active = "active" \in sets => new.active],
                     place)
    \/ Refuse(r, "update")

\* DELETE /persons/{person_id}
DeletePerson(r, p) ==
    \/ /\ p \in People
       /\ Open(r, "delete", [NoSession EXCEPT !.person = p], "flush")
    \/ /\ p \notin People
       /\ Refuse(r, "delete")

\* POST /faces/verify
Verify(r, p) ==
    \/ /\ p \in People
       /\ Open(r, "verify", [NoSession EXCEPT !.person = p], "infer")
    \/ /\ p \notin People
       /\ Refuse(r, "verify")

\* POST /faces/search and POST /external/search
Search(r) == Open(r, "search", NoSession, "infer")

Arrive(r) ==
    \/ \E p \in Ids : \/ Register(r, p)
                      \/ DeletePerson(r, p)
                      \/ Verify(r, p)
                      \/ \E new \in PersonRow : UpdatePerson(r, p, new)
    \/ \E n \in Names : \/ EnrollByName(r, n)
                        \/ \E x \in ExtIds \cup {None} : CreatePerson(r, n, x)
    \/ \E f \in Ids : ReplaceImage(r, f) \/ DeleteFace(r, f)
    \/ Search(r)

-----------------------------------------------------------------------------
(***************************************************************************)
(* The statements of an open session                                       *)
(***************************************************************************)

Move(r, from, session, to) ==
    /\ pc[r] = from
    /\ pc' = [pc EXCEPT ![r] = to]
    /\ tx' = [tx EXCEPT ![r] = session]
    /\ UNCHANGED <<persons, faces, logs, raced>>

\* A statement or the pipeline raises: the locks are kept until the rollback.
Fail(r, from) == Move(r, from, tx[r], "error")

\* The pipeline runs in a thread: it yields an embedding, or raises on a
\* corrupt image, no face, several faces or a face of low quality.
Infer(r) ==
    \/ Move(r, "infer", tx[r],
            CASE tx[r].op \in {"register", "enroll"} -> "insert"
              [] tx[r].op = "replace" -> "overwrite"
              [] OTHER -> "query")
    \/ Fail(r, "infer")

\* Mutant: no trigger, the column default TRUE stands.
InsertFaceUntriggered(r) == Move(r, "insert", tx[r], "check")

\* INSERT INTO faces, its BEFORE trigger: the new row copies the status of
\* the person it can see; without one is_active is NULL, which is refused.
InsertFace(r) ==
    LET p == tx[r].person
    IN  \/ /\ Sees(r, p)
           /\ Move(r, "insert",
                   [tx[r] EXCEPT !.active = p \in People => persons[p].active],
                   "check")
        \/ /\ ~Sees(r, p)
           /\ Fail(r, "insert")

\* Mutant: person_id is a plain column without a foreign key.
CheckPersonNoForeignKey(r) ==
    Move(r, "check", [tx[r] EXCEPT !.inserted = @ \cup {"face"}], "log")

\* INSERT INTO faces, its foreign-key check: locks the person KEY SHARE.
CheckPerson(r) ==
    LET p == tx[r].person
    IN  /\ CanLock(r, "key_share")
        /\ \/ /\ Sees(r, p)
              /\ Move(r, "check",
                      [tx[r] EXCEPT !.lock = "key_share",
                                    !.inserted = @ \cup {"face"}], "log")
           \/ /\ ~Sees(r, p)
              /\ Fail(r, "check")

\* UPDATE faces of replace_face_image; no row left is a StaleDataError.
OverwriteFace(r) ==
    LET f == tx[r].face
    IN  /\ FaceFree(r, f)
        /\ \/ /\ f \in Enrolled
              /\ Move(r, "overwrite", [tx[r] EXCEPT !.rows = {f}], "log")
           \/ /\ f \notin Enrolled
              /\ Fail(r, "overwrite")

\* DELETE FROM faces of delete_face; no row left is only a warning.
RemoveFace(r) ==
    LET f == tx[r].face
    IN  /\ FaceFree(r, f)
        /\ Move(r, "remove", [tx[r] EXCEPT !.rows = {f} \cap Enrolled],
                "commit")

\* update_person's own check of a new external id: 409 when it is taken.
CheckConflict(r) ==
    LET taken == \E p \in People : persons[p].ext = tx[r].ext
    IN  \/ /\ ~taken
           /\ Move(r, "conflict", tx[r], "flush")
        \/ /\ taken
           /\ Fail(r, "conflict")

\* The status trigger fires when the UPDATE really changes the status.
AfterUpdate(r) ==
    IF /\ "active" \in tx[r].sets
       /\ tx[r].active # persons[tx[r].person].active
    THEN "trigger" ELSE "refresh"

\* UPDATE persons: locks the row, exclusively when its external id, a key,
\* changes; no row left is a StaleDataError.
FlushUpdate(r) ==
    LET t == tx[r]
        mode == IF "ext" \in t.sets THEN "update" ELSE "no_key_update"
    IN  /\ t.op = "update"
        /\ CanLock(r, mode)
        /\ \/ /\ t.person \in People
              /\ Move(r, "flush", [t EXCEPT !.lock = mode],
                      IF t.ext # None THEN "unique" ELSE AfterUpdate(r))
           \/ /\ t.person \notin People
              /\ Fail(r, "flush")

\* Mutants: no unique index on external_id; a person inserted without a name.
CheckUniqueNever(r) ==
    Move(r, "unique",
         IF tx[r].op = "create"
         THEN [tx[r] EXCEPT !.inserted = {"person"}] ELSE tx[r],
         IF tx[r].op = "create" THEN "commit" ELSE AfterUpdate(r))

CheckUniqueUnnamed(r) ==
    /\ tx[r].op = "create"
    /\ Move(r, "unique",
            [tx[r] EXCEPT !.inserted = {"person"}, !.name = None], "commit")

\* The unique index on external_id, for the row that create_person inserts
\* or update_person has just locked.
CheckUnique(r) ==
    LET t == tx[r]
        taken == /\ t.ext # None
                 /\ \E p \in People \ {t.person} : persons[p].ext = t.ext
    IN  /\ t.ext # None => KeyFree(r, t.ext)
        /\ \/ /\ ~taken /\ t.op = "create"
              /\ Move(r, "unique", [t EXCEPT !.inserted = {"person"}], "commit")
           \/ /\ ~taken /\ t.op = "update"
              /\ Move(r, "unique", t, AfterUpdate(r))
           \/ /\ taken
              /\ Fail(r, "unique")

\* DELETE FROM persons: locks the row FOR UPDATE; no row left is a warning.
FlushDelete(r) ==
    /\ tx[r].op = "delete"
    /\ CanLock(r, "update")
    /\ \/ /\ tx[r].person \in People
          /\ Move(r, "flush", [tx[r] EXCEPT !.lock = "update"], "trigger")
       \/ /\ tx[r].person \notin People
          /\ Move(r, "flush", tx[r], "commit")

\* persons_propagate_is_active, or ON DELETE CASCADE: a statement of its own
\* finds the committed faces of the person ...
FireTrigger(r) ==
    Move(r, "trigger", [tx[r] EXCEPT !.todo = FacesOf(tx[r].person)], "rows")

\* ... and reaches them one by one, each when no other session holds it.
TouchRow(r, f) ==
    /\ f \in tx[r].todo
    /\ FaceFree(r, f)
    /\ Move(r, "rows",
            [tx[r] EXCEPT !.todo = @ \ {f},
                          !.rows = @ \cup ({f} \cap Enrolled)], "rows")

EndTrigger(r) ==
    /\ tx[r].todo = {}
    /\ Move(r, "rows", tx[r],
            IF tx[r].op = "update" THEN "refresh" ELSE "commit")

\* db.refresh of update_person raises when the row is gone.
Refresh(r) ==
    \/ /\ Sees(r, tx[r].person)
       /\ Move(r, "refresh", tx[r], "commit")
    \/ /\ ~Sees(r, tx[r].person)
       /\ Fail(r, "refresh")

\* Mutant: the 1:1 query has lost its WHERE f.person_id.
QueryAnyFace(r) ==
    \E f \in Enrolled, hit \in BOOLEAN :
        Move(r, "query", [tx[r] EXCEPT !.face = f, !.active = hit], "log")

\* best_match_for_person: the closest face of the person, above the threshold
\* or not; search: the closest active face, if one is above the threshold.
Query(r) ==
    LET p == tx[r].person
        Found(f, owner, hit) ==
            Move(r, "query", [tx[r] EXCEPT !.face = f, !.person = owner,
                                           !.active = hit], "log")
    IN  \/ /\ tx[r].op = "verify"
           /\ \/ FacesOf(p) = {} /\ Found(None, p, FALSE)
              \/ \E f \in FacesOf(p), hit \in BOOLEAN : Found(f, p, hit)
        \/ /\ tx[r].op = "search"
           /\ \/ Found(None, None, FALSE)
              \/ \E f \in {g \in Enrolled : faces[g].active} :
                    Found(f, faces[f].person, TRUE)

\* logs.record: the audit entry joins the session's writes.
Entry(r) ==
    LET enrols == tx[r].op \in {"register", "enroll"}
        recognises == tx[r].op \in {"verify", "search"}
    IN  [by |-> r,
         action |-> IF recognises THEN tx[r].op ELSE "register",
         person |-> tx[r].person,
         face |-> IF enrols THEN r ELSE tx[r].face,
         success |-> recognises => tx[r].active]

\* Mutants: the audit entry is forgotten; or it has a foreign key to persons.
RecordNothing(r) == Move(r, "log", tx[r], "commit")

RecordForeignKey(r) ==
    /\ CanLock(r, "key_share")
    /\ Move(r, "log", [tx[r] EXCEPT !.log = {Entry(r)}, !.lock = "key_share"],
            "commit")

Record(r) == Move(r, "log", [tx[r] EXCEPT !.log = {Entry(r)}], "commit")

-----------------------------------------------------------------------------
(***************************************************************************)
(* The end of a session                                                    *)
(***************************************************************************)

\* The handler returned: get_db commits, then the response is sent.
Commit(r) ==
    /\ pc[r] = "commit"
    /\ persons' = PersonsAfter(r)
    /\ faces' = FacesAfter(r)
    /\ logs' = logs \cup tx[r].log
    /\ raced' = raced \cup NewlyRaced(r)
    /\ pc' = [pc EXCEPT ![r] = "done"]
    /\ tx' = [tx EXCEPT ![r] = NoSession]

\* Mutant: get_db commits in a finally clause.
RollbackCommits(r) ==
    /\ pc[r] = "error"
    /\ persons' = PersonsAfter(r)
    /\ faces' = FacesAfter(r)
    /\ logs' = logs \cup tx[r].log
    /\ raced' = raced \cup NewlyRaced(r)
    /\ pc' = [pc EXCEPT ![r] = "failed"]
    /\ tx' = [tx EXCEPT ![r] = NoSession]

\* The handler raised: get_db rolls back, then the error is answered.
Rollback(r) == Move(r, "error", NoSession, "failed")

\* The worker dies or loses its connection: the database rolls back.
Crash(r) ==
    /\ pc[r] \in Live
    /\ Move(r, pc[r], NoSession, "failed")

Step(r) ==
    \/ Infer(r) \/ InsertFace(r) \/ CheckPerson(r)
    \/ OverwriteFace(r) \/ RemoveFace(r)
    \/ CheckConflict(r) \/ FlushUpdate(r) \/ CheckUnique(r) \/ FlushDelete(r)
    \/ FireTrigger(r) \/ EndTrigger(r) \/ Refresh(r)
    \/ \E f \in Ids : TouchRow(r, f)
    \/ Query(r) \/ Record(r) \/ Commit(r) \/ Rollback(r)

Next == \E r \in Requests : Arrive(r) \/ Step(r) \/ Crash(r)

Spec == Init /\ [][Next]_vars

\* The event loop runs every ready coroutine and the database grants a free
\* lock: a request that can go on does.
FairSpec == Spec /\ \A r \in Requests : WF_vars(Step(r))

-----------------------------------------------------------------------------
(***************************************************************************)
(* Properties                                                              *)
(***************************************************************************)

\* Every variable has its type.
TypeOK ==
    /\ People \subseteq Ids /\ persons \in [People -> PersonRow]
    /\ Enrolled \subseteq Ids /\ faces \in [Enrolled -> FaceRow]
    /\ logs \subseteq LogRow
    /\ pc \in [Requests -> Places]
    /\ tx \in [Requests -> Session]
    /\ raced \subseteq Ids

\* A committed face always belongs to a committed person: an enrolment and
\* the deletion of its person, however their statements interleave, never
\* leave an orphan embedding that a search would join to nothing.
FacesHaveAPerson == \A f \in Enrolled : faces[f].person \in People

\* The embedding a committed face carries is accounted for: the audit log
\* holds a successful "register" entry, for this face and its person, by the
\* request whose upload was embedded; two replacements of one face that
\* overlap never leave an embedding nobody answers for.
EmbeddingsAreAudited ==
    \A f \in Enrolled :
        [by |-> faces[f].image, action |-> "register",
         person |-> faces[f].person, face |-> f, success |-> TRUE] \in logs

\* A recognition only ever names a face that was enrolled for that person:
\* the face it matched may be gone by the time the entry is committed, its
\* enrolment is in the audit log.
MatchesWereEnrolled ==
    \A e \in logs : e.face # None =>
        \E g \in logs : /\ g.action = "register"
                        /\ g.face = e.face
                        /\ g.person = e.person

\* What the partial index relies on (models/face.py): faces.is_active mirrors
\* persons.is_active, "kept in sync by DB triggers".
MirrorInSync ==
    \A f \in Enrolled : faces[f].person \in People =>
        faces[f].active = persons[faces[f].person].active

\* What the triggers do guarantee: only a face whose insertion overlapped a
\* change of its person's status can carry the wrong status.
OnlyRacedFacesAreStale ==
    \A f \in Enrolled \ raced : faces[f].person \in People =>
        faces[f].active = persons[faces[f].person].active

\* What "find-or-create" says of POST /faces/enroll: enrolling by name never
\* gives one name two persons.
OnePersonPerName ==
    \A p, q \in People : persons[p].name = persons[q].name => p = q

\* Every request is answered: row locks never leave two sessions waiting on
\* each other, nor one waiting on a session that is over.  (An audit entry
\* that locked the person it names would be enough for a cycle: a replacement
\* holds its face then, a deletion of the person waits for that face.)
EveryRequestEnds ==
    \A r \in Requests : pc[r] \in Live ~> pc[r] \in {"done", "failed"}

(***************************************************************************)
(* The committed tables, without the mirror of the status, implement the   *)
(* abstract gallery of module Registry: a request's statements are         *)
(* invisible until its commit, which is one operation of the abstraction,  *)
(* and a request that failed leaves nothing.                               *)
(***************************************************************************)
Abstract == INSTANCE Registry WITH
    people   <- persons,
    enrolled <- [f \in Enrolled |-> [person |-> faces[f].person,
                                     image |-> faces[f].image]],
    audit    <- logs

ImplementsRegistry == Abstract!Spec

=============================================================================
