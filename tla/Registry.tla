------------------------------ MODULE Registry ------------------------------
(***************************************************************************)
(* What the gallery promises its clients, whatever its requests interleave *)
(* and wherever they fail: every operation happens at once or not at all.  *)
(*                                                                         *)
(* An operation changes the people, their enrolled faces and the audit log *)
(* in one step: there is no person left by an enrolment that failed, no    *)
(* face without its person, no face or image without its audit entry, no   *)
(* two people with one external id, and deleting a person deletes exactly  *)
(* that person's faces with it.                                            *)
(* Gallery implements this specification, its requests' ids naming the     *)
(* rows and the images they bring.                                         *)
(***************************************************************************)

CONSTANTS Ids, Names, ExtIds, None

VARIABLES
    people,     \* id -> Person
    enrolled,   \* id of a face -> [person, image]
    audit       \* the entries of the audit log

vars == <<people, enrolled, audit>>

Person == [name : Names, ext : ExtIds \cup {None}, active : BOOLEAN]

\* No two people share an external id.
Distinct(ppl) ==
    \A p, q \in DOMAIN ppl :
        ppl[p].ext = ppl[q].ext /\ p # q => ppl[p].ext = None

EnrolmentEntry(request, person, face) ==
    [by |-> request, action |-> "register", person |-> person, face |-> face,
     success |-> TRUE]

Insert(f, key, row) ==
    [k \in DOMAIN f \cup {key} |-> IF k = key THEN row ELSE f[k]]

Without(f, keys) == [k \in DOMAIN f \ keys |-> f[k]]

Init ==
    /\ \E P \in SUBSET Ids : people \in [P -> Person]
    /\ Distinct(people)
    /\ \E F \in SUBSET DOMAIN people :
          enrolled = [f \in F |-> [person |-> f, image |-> f]]
    /\ audit = {EnrolmentEntry(f, f, f) : f \in DOMAIN enrolled}

AddPerson(p, name, ext) ==
    /\ p \notin DOMAIN people
    /\ people' = Insert(people, p,
                        [name |-> name, ext |-> ext, active |-> TRUE])
    /\ Distinct(people')
    /\ UNCHANGED <<enrolled, audit>>

EditPerson(p, row) ==
    /\ p \in DOMAIN people
    /\ people' = [people EXCEPT ![p] = row]
    /\ Distinct(people')
    /\ UNCHANGED <<enrolled, audit>>

RemovePerson(p) ==
    /\ p \in DOMAIN people
    /\ people' = Without(people, {p})
    /\ enrolled' = Without(enrolled,
                           {f \in DOMAIN enrolled : enrolled[f].person = p})
    /\ UNCHANGED audit

\* The request f enrols its image as the face f of a person who exists.
Enrol(f, p) ==
    /\ f \notin DOMAIN enrolled
    /\ enrolled' = Insert(enrolled, f, [person |-> p, image |-> f])
    /\ audit' = audit \cup {EnrolmentEntry(f, p, f)}

EnrolExisting(f, p) ==
    /\ p \in DOMAIN people
    /\ Enrol(f, p)
    /\ UNCHANGED people

\* The same for a person the request creates on the way.
EnrolNewPerson(f, name) ==
    /\ f \notin DOMAIN people
    /\ people' = Insert(people, f,
                        [name |-> name, ext |-> None, active |-> TRUE])
    /\ Enrol(f, f)

ReplaceImage(f, request) ==
    /\ f \in DOMAIN enrolled
    /\ enrolled' = [enrolled EXCEPT ![f].image = request]
    /\ audit' = audit \cup
                {EnrolmentEntry(request, enrolled[f].person, f)}
    /\ UNCHANGED people

RemoveFace(f) ==
    /\ f \in DOMAIN enrolled
    /\ enrolled' = Without(enrolled, {f})
    /\ UNCHANGED <<people, audit>>

\* A verification or a search only leaves an entry; the face it names has
\* been enrolled for the person it names.
Recognise(request, action, person, face, success) ==
    /\ success => face # None
    /\ face # None => \E e \in audit : /\ e.action = "register"
                                       /\ e.person = person
                                       /\ e.face = face
    /\ audit' = audit \cup {[by |-> request, action |-> action,
                             person |-> person, face |-> face,
                             success |-> success]}
    /\ UNCHANGED <<people, enrolled>>

Next ==
    \/ \E p \in Ids, name \in Names :
          \/ EnrolNewPerson(p, name)
          \/ \E ext \in ExtIds \cup {None} : AddPerson(p, name, ext)
    \/ \E p \in Ids : \/ RemovePerson(p)
                      \/ \E row \in Person : EditPerson(p, row)
                      \/ \E f \in Ids : EnrolExisting(f, p)
    \/ \E f, request \in Ids : ReplaceImage(f, request)
    \/ \E f \in Ids : RemoveFace(f)
    \/ \E request \in Ids, action \in {"verify", "search"},
          person, face \in Ids \cup {None}, success \in BOOLEAN :
          Recognise(request, action, person, face, success)

Spec == Init /\ [][Next]_vars

=============================================================================
