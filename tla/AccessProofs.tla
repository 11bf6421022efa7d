---------------------------- MODULE AccessProofs ----------------------------
(***************************************************************************)
(* Proofs about Access, for any number of processes, accounts, keys and    *)
(* roles, any life time of tokens and any number of changes made behind    *)
(* the application's back.                                                 *)
(*                                                                         *)
(* The argument: a session that is going to commit an account, or holds    *)
(* the row of a key, excludes every other session from doing so (the wait  *)
(* on the unique index and on the row), and what it saw of the table when  *)
(* it got there stays true until it commits.  A token, and a login under   *)
(* way, know a bound of how long ago their account was an administrator.   *)
(***************************************************************************)
EXTENDS Access, FiniteSetTheorems, TLAPS

Places == {"idle", "issue", "insert", "delete", "limit", "touch", "infer",
           "commit", "done"}

Writers == {"ensure", "create_user"}

\* Where a session is tells what it does and what it carries.
Fits(p, at, s) ==
    /\ at = "issue" => s.name \in Names /\ s.role \in Roles
    /\ at = "insert" => s.op \in Writers \cup {"create_key"} /\ ~s.held
    /\ at \in {"insert", "commit"} /\ s.op \in Writers =>
          s.name \in Names /\ s.role \in Roles /\ (s.op = "ensure" => s.name = Root)
    /\ at \in {"limit", "touch", "infer"} => s.op = "search"
    /\ at = "delete" => s.op = "revoke_key"
    /\ at \in {"limit", "touch", "infer", "delete"} => s.key \in known
    /\ at = "commit" =>
          /\ s.op \in Writers \cup {"create_key", "revoke_key", "search"}
          /\ s.op \in {"revoke_key", "search"} => s.key \in known
          /\ s.op \notin {"revoke_key", "search"} => ~s.held
          /\ s.op = "create_key" => s.key = p

Holds(at, s) == at \in {"infer", "commit"} /\ s.held

\* What a session has excluded, or known, since it got where it is.
Sound(p, at, s) ==
    /\ Fits(p, at, s)
    /\ at = "commit" /\ s.op \in Writers =>
          /\ \A u \in DOMAIN users : users[u].name # s.name
          /\ \A q \in Processes \ {p} :
                place[q] = "commit" /\ sess[q].op \in Writers => sess[q].name # s.name
    /\ Holds(at, s) =>
          /\ s.key \in keys
          /\ \A q \in Processes \ {p} : Holds(place[q], sess[q]) => sess[q].key # s.key
    /\ at = "commit" /\ s.op = "revoke_key" /\ ~s.held => s.key \notin keys
    /\ at = "issue" /\ s.role = "admin" => absent[s.name] <= s.lag

Sessions == \A p \in Processes : Sound(p, place[p], sess[p])

\* Rows get the id of the session that inserts them.
Fresh == \A p \in Processes : p \in DOMAIN users \cup known => place[p] = "done"

UniqueNames ==
    \A u \in DOMAIN users : \A v \in DOMAIN users :
        users[u].name = users[v].name => u = v

Absence ==
    /\ \A n \in Names : ActiveAdmin(n) => absent[n] = 0
    /\ \A tok \in tokens : tok.role = "admin" => absent[tok.sub] + tok.left <= Cap
    /\ late < Cap

IInv == TypeOK /\ Sessions /\ Fresh /\ UniqueNames /\ Absence
        /\ BootstrapLeavesTheAccount

-----------------------------------------------------------------------------
(***************************************************************************)
(* Lemmas                                                                  *)
(***************************************************************************)

LEMMA CapIsANumber == Cap \in Nat /\ Cap > MaxLag /\ Cap = Lifetime + MaxLag
BY AccessAssumption DEF Cap

\* The larger and the smaller of two numbers, as CHOOSE finds them.
LEMMA MaxOfTwo ==
    ASSUME NEW a \in Nat, NEW b \in Nat
    PROVE  Max({a, b}) \in {a, b} /\ Max({a, b}) >= a /\ Max({a, b}) >= b
<1>1. \E x \in {a, b} : \A y \in {a, b} : x >= y
  OBVIOUS
<1>2. QED  BY <1>1 DEF Max

LEMMA MinOfTwo ==
    ASSUME NEW a \in Nat, NEW b \in Nat
    PROVE  Min({a, b}) \in {a, b} /\ Min({a, b}) <= a /\ Min({a, b}) <= b
<1>1. \E x \in {a, b} : \A y \in {a, b} : x =< y
  OBVIOUS
<1>2. QED  BY <1>1 DEF Min

LEMMA NoSessionIsASession == NoSession \in Session
BY AccessAssumption DEF NoSession, Session

\* Only an administrator's token satisfies "admin".
LEMMA AdmittedAdmin ==
    ASSUME IInv, NEW tok \in tokens, Admit(tok)
    PROVE  late' \in Nat /\ late' < Cap
<1>1. tok.role \in {"viewer", "operator", "admin"} /\ tok.sub \in Names
      /\ tok.left \in Nat /\ tok.left >= 1 /\ absent \in [Names -> 0 .. Cap]
      /\ late \in Nat /\ late < Cap
  BY CapIsANumber, AccessAssumption DEF IInv, TypeOK, Absence
<1>2. tok.role = "admin"
  BY <1>1 DEF Admit, Admitted, Satisfies, Level
<1>3. absent[tok.sub] \in Nat /\ absent[tok.sub] + tok.left <= Cap
  BY <1>1, <1>2, CapIsANumber DEF IInv, Absence
<1>4. late' \in {late, absent[tok.sub]}
  BY <1>1, <1>3, MaxOfTwo DEF Admit
<1>5. QED  BY <1>1, <1>3, <1>4, CapIsANumber

LEMMA InitInv == Init => IInv
<1>1. SUFFICES ASSUME Init PROVE IInv
  OBVIOUS
<1>2. PICK S \in SUBSET DOMAIN SeedUsers :
          users = [u \in S |-> [name |-> SeedUsers[u].name,
                                role |-> SeedUsers[u].role, active |-> TRUE]]
  BY <1>1 DEF Init
<1>3. /\ DOMAIN users = S
      /\ \A u \in S : /\ users[u] \in [name : Names, role : Roles, active : BOOLEAN]
                      /\ users[u].active = TRUE
  BY <1>2, AccessAssumption
<1>4. \A tok \in tokens : \E u \in S :
          tok = [sub |-> users[u].name, role |-> users[u].role, left |-> Lifetime]
  BY <1>1, <1>3 DEF Init
<1>5. TypeOK
  BY <1>1, <1>2, <1>3, <1>4, AccessAssumption, CapIsANumber, NoSessionIsASession
     DEF Init, TypeOK, UserIds, KeyIds
<1>6. Sessions
  BY <1>1 DEF Init, Sessions, Sound, Fits, Holds
<1>7. Fresh
  BY <1>1, <1>3, AccessAssumption DEF Init, Fresh
<1>8. UniqueNames
  BY <1>2, <1>3, AccessAssumption DEF UniqueNames
<1>9. Absence
  <2>1. \A n \in Names : ActiveAdmin(n) => absent[n] = 0
    BY <1>1 DEF Init
  <2>2. \A tok \in tokens : tok.role = "admin" => absent[tok.sub] + tok.left <= Cap
    <3>1. SUFFICES ASSUME NEW tok \in tokens, tok.role = "admin"
                   PROVE  absent[tok.sub] + tok.left <= Cap
      OBVIOUS
    <3>2. tok.sub \in Names /\ tok.left = Lifetime /\ ActiveAdmin(tok.sub)
      BY <3>1, <1>3, <1>4 DEF ActiveAdmin, Named
    <3>3. QED  BY <3>2, <2>1, AccessAssumption, CapIsANumber
  <2>3. late < Cap
    BY <1>1, CapIsANumber, AccessAssumption DEF Init
  <2>4. QED  BY <2>1, <2>2, <2>3 DEF Absence
<1>10. BootstrapLeavesTheAccount
  BY <1>1 DEF Init, BootstrapLeavesTheAccount
<1>11. QED  BY <1>5, <1>6, <1>7, <1>8, <1>9, <1>10 DEF IInv

-----------------------------------------------------------------------------
(***************************************************************************)
(* Steps of one session that leave the tables alone                        *)
(***************************************************************************)

\* A session that goes where it fits, with what is true of the tables, leaves
\* the invariant intact.
LEMMA MoveInv ==
    ASSUME IInv, NEW p \in Processes, NEW at \in Places, NEW s \in Session,
           place' = [place EXCEPT ![p] = at], sess' = [sess EXCEPT ![p] = s],
           UNCHANGED <<tables, tokens, alters, absent>>,
           place[p] # "done", Sound(p, at, s),
           late' \in Nat, late' < Cap,
           ready' \subseteq Processes, BootstrapLeavesTheAccount'
    PROVE  IInv'
<1>1. /\ UNCHANGED <<users, keys, known, tokens, alters, absent>>
      /\ TypeOK /\ Sessions /\ Fresh /\ UniqueNames /\ Absence
  BY DEF tables, IInv
<1>2. /\ place'[p] = at /\ sess'[p] = s
      /\ \A q \in Processes \ {p} : place'[q] = place[q] /\ sess'[q] = sess[q]
  BY <1>1 DEF TypeOK
<1>3. TypeOK'
  BY <1>1, <1>2, CapIsANumber DEF TypeOK, Places
<1>4. Sessions'
  <2>1. SUFFICES ASSUME NEW q \in Processes PROVE Sound(q, place[q], sess[q])'
    BY DEF Sessions
  <2>2. CASE q = p
    BY <2>2, <1>1, <1>2 DEF Sound, Fits, Holds
  <2>3. CASE q # p
    <3>1. Sound(q, place[q], sess[q]) /\ place'[q] = place[q] /\ sess'[q] = sess[q]
      BY <2>3, <1>1, <1>2 DEF Sessions
    <3>2. Fits(q, place[q], sess[q])'
      BY <3>1, <1>1 DEF Sound, Fits
    <3>3. \A r \in Processes \ {q} :
             place[q] = "commit" /\ sess[q].op \in Writers
             /\ place'[r] = "commit" /\ sess'[r].op \in Writers
                => sess'[r].name # sess[q].name
      BY <3>1, <2>3, <1>2 DEF Sound
    <3>4. \A r \in Processes \ {q} :
             Holds(place[q], sess[q]) /\ Holds(place'[r], sess'[r])
                => sess'[r].key # sess[q].key
      BY <3>1, <2>3, <1>2 DEF Sound
    <3>5. QED  BY <3>1, <3>2, <3>3, <3>4, <1>1 DEF Sound, Holds
  <2>4. QED  BY <2>2, <2>3
<1>5. Fresh'
  BY <1>1, <1>2 DEF Fresh
<1>6. UniqueNames'
  BY <1>1 DEF UniqueNames
<1>7. Absence'
  BY <1>1, CapIsANumber DEF Absence, ActiveAdmin, Named, Cap
<1>8. QED  BY <1>3, <1>4, <1>5, <1>6, <1>7 DEF IInv

\* A session that ends is sound whatever it did.
LEMMA EndInv ==
    ASSUME IInv, NEW p \in Processes, End(p), place[p] # "done",
           UNCHANGED <<tables, tokens, alters, absent>>,
           late' \in Nat, late' < Cap,
           ready' \subseteq Processes, BootstrapLeavesTheAccount'
    PROVE  IInv'
<1>1. Sound(p, "done", NoSession)
  BY DEF Sound, Fits, Holds
<1>2. /\ place' = [place EXCEPT ![p] = "done"]
      /\ sess' = [sess EXCEPT ![p] = NoSession]
      /\ "done" \in Places
  BY DEF End, Places
<1>3. QED  BY <1>1, <1>2, NoSessionIsASession, MoveInv

\* What the lemmas ask of the variables most steps leave alone.
LEMMA SameHistory ==
    ASSUME IInv
    PROVE  /\ late \in Nat /\ late < Cap /\ ready \subseteq Processes
           /\ UNCHANGED <<users, ready>> => BootstrapLeavesTheAccount'
<1>1. late \in Nat /\ late < Cap /\ ready \subseteq Processes
  BY CapIsANumber DEF IInv, TypeOK, Absence
<1>2. UNCHANGED <<users, ready>> => BootstrapLeavesTheAccount'
  BY DEF IInv, BootstrapLeavesTheAccount, Named
<1>3. QED  BY <1>1, <1>2

LEMMA RefuseInv ==
    ASSUME IInv, NEW p \in Processes, NEW op, Refuse(p, op),
           late' \in Nat, late' < Cap
    PROVE  IInv'
<1>1. /\ place[p] # "done" /\ End(p) /\ UNCHANGED <<users, ready>>
      /\ UNCHANGED <<tables, tokens, alters, absent>>
  BY DEF Refuse, tables
<1>2. ready' \subseteq Processes /\ BootstrapLeavesTheAccount'
  BY <1>1, SameHistory
<1>3. QED  BY <1>1, <1>2, EndInv

LEMMA OpenInv ==
    ASSUME IInv, NEW p \in Processes, NEW op, NEW first \in Places, NEW s \in Session,
           Open(p, op, first, s), Sound(p, first, [s EXCEPT !.op = op]),
           late' \in Nat, late' < Cap
    PROVE  IInv'
<1>1. /\ place[p] # "done" /\ UNCHANGED <<users, ready>>
      /\ UNCHANGED <<tables, tokens, alters, absent>>
      /\ place' = [place EXCEPT ![p] = first]
      /\ sess' = [sess EXCEPT ![p] = [s EXCEPT !.op = op]]
      /\ op \in Ops
  BY DEF Open, tables
<1>2. [s EXCEPT !.op = op] \in Session
  BY <1>1 DEF Session
<1>3. ready' \subseteq Processes /\ BootstrapLeavesTheAccount'
  BY <1>1, SameHistory
<1>4. QED  BY <1>1, <1>2, <1>3, MoveInv

-----------------------------------------------------------------------------
(***************************************************************************)
(* Requests arrive                                                         *)
(***************************************************************************)

LEMMA ArriveInv ==
    ASSUME IInv, NEW p \in Processes, Arrive(p)
    PROVE  IInv'
<1>1. TypeOK /\ Absence /\ Fresh /\ \A u \in DOMAIN users : users[u].name \in Names
                                                      /\ users[u].role \in Roles
  BY DEF IInv, TypeOK
<1>2. late \in Nat /\ late < Cap
  BY SameHistory
<1>3. {"issue", "insert", "delete", "limit"} \subseteq Places
  BY DEF Places
<1>4. CASE Login(p)
  <2>1. late' = late
    BY <1>4 DEF Login
  <2>2. CASE Refuse(p, "login")
    BY <2>1, <2>2, <1>2, RefuseInv
  <2>3. CASE \E u \in DOMAIN users :
                /\ users[u].active
                /\ Open(p, "login", "issue", [NoSession EXCEPT
                          !.name = users[u].name, !.role = users[u].role])
    <3>1. PICK u \in DOMAIN users :
                /\ users[u].active
                /\ Open(p, "login", "issue", [NoSession EXCEPT
                          !.name = users[u].name, !.role = users[u].role])
      BY <2>3
    <3> DEFINE s == [NoSession EXCEPT !.name = users[u].name, !.role = users[u].role]
    <3>2. s \in Session /\ s.name = users[u].name /\ s.role = users[u].role /\ s.lag = 0
      BY <1>1, NoSessionIsASession DEF NoSession, Session
    <3>3. s.role = "admin" => absent[s.name] = 0
      BY <3>1, <3>2, <1>1 DEF Absence, ActiveAdmin, Named
    <3>4. Sound(p, "issue", [s EXCEPT !.op = "login"])
      BY <3>2, <3>3, <1>1 DEF Sound, Fits, Holds, Session
    <3>5. QED  BY <3>1, <3>2, <3>4, <2>1, <1>2, <1>3, OpenInv
  <2>4. QED  BY <2>2, <2>3, <1>4 DEF Login
<1>5. CASE Ensure(p)
  <2>1. late' = late
    BY <1>5 DEF Ensure
  <2>2. CASE Named(Root) # {} /\ ready' = ready \cup {p}
    <3>1. /\ place[p] # "done" /\ End(p)
          /\ UNCHANGED <<tables, tokens, alters, absent>>
      BY <2>2, <1>5 DEF Ensure
    <3>2. ready' \subseteq Processes /\ BootstrapLeavesTheAccount'
      BY <2>2, <3>1, SameHistory DEF BootstrapLeavesTheAccount, Named, tables
    <3>3. QED  BY <3>1, <3>2, <2>1, <1>2, EndInv
  <2>3. CASE Open(p, "ensure", "insert", [NoSession EXCEPT !.name = Root, !.role = "admin"])
    <3> DEFINE s == [NoSession EXCEPT !.name = Root, !.role = "admin"]
    <3>1. s \in Session /\ s.name = Root /\ s.role = "admin" /\ ~s.held
      BY NoSessionIsASession, AccessAssumption DEF NoSession, Session
    <3>2. Sound(p, "insert", [s EXCEPT !.op = "ensure"])
      BY <3>1, AccessAssumption DEF Sound, Fits, Holds, Session, Writers
    <3>3. QED  BY <3>1, <3>2, <2>1, <2>3, <1>2, <1>3, OpenInv
  <2>4. QED  BY <2>2, <2>3, <1>5 DEF Ensure
<1>6. CASE CreateUser(p)
  <2>1. PICK tok \in tokens, n \in Names, role \in Roles :
            /\ Admit(tok)
            /\ IF Named(n) # {}
               THEN Refuse(p, "create_user")
               ELSE Open(p, "create_user", "insert",
                         [NoSession EXCEPT !.name = n, !.role = role])
    BY <1>6 DEF CreateUser
  <2>2. late' \in Nat /\ late' < Cap
    BY <2>1, AdmittedAdmin
  <2> DEFINE s == [NoSession EXCEPT !.name = n, !.role = role]
  <2>3. s \in Session /\ s.name = n /\ s.role = role /\ ~s.held
    BY NoSessionIsASession DEF NoSession, Session
  <2>4. Sound(p, "insert", [s EXCEPT !.op = "create_user"])
    BY <2>3 DEF Sound, Fits, Holds, Session, Writers
  <2>5. CASE Open(p, "create_user", "insert", s)
    BY <2>2, <2>3, <2>4, <2>5, <1>3, OpenInv
  <2>6. CASE Refuse(p, "create_user")
    BY <2>2, <2>6, RefuseInv
  <2>7. QED  BY <2>1, <2>5, <2>6
<1>7. CASE CreateKey(p)
  <2>1. PICK tok \in tokens : Admit(tok) /\ Open(p, "create_key", "insert", NoSession)
    BY <1>7 DEF CreateKey
  <2>2. late' \in Nat /\ late' < Cap
    BY <2>1, AdmittedAdmin
  <2>3. Sound(p, "insert", [NoSession EXCEPT !.op = "create_key"])
    BY NoSessionIsASession DEF Sound, Fits, Holds, Session, NoSession, Writers
  <2>4. QED  BY <2>1, <2>2, <2>3, <1>3, NoSessionIsASession, OpenInv
<1>8. CASE RevokeKey(p)
  <2>1. PICK tok \in tokens, k \in known :
            /\ Admit(tok)
            /\ IF k \in keys
               THEN Open(p, "revoke_key", "delete", [NoSession EXCEPT !.key = k])
               ELSE Refuse(p, "revoke_key")
    BY <1>8 DEF RevokeKey
  <2>2. late' \in Nat /\ late' < Cap
    BY <2>1, AdmittedAdmin
  <2> DEFINE s == [NoSession EXCEPT !.key = k]
  <2>3. s \in Session /\ s.key = k
    BY <1>1, NoSessionIsASession DEF NoSession, Session, TypeOK
  <2>4. Sound(p, "delete", [s EXCEPT !.op = "revoke_key"])
    BY <2>3 DEF Sound, Fits, Holds, Session
  <2>5. CASE Open(p, "revoke_key", "delete", s)
    BY <2>2, <2>3, <2>4, <2>5, <1>3, OpenInv
  <2>6. CASE Refuse(p, "revoke_key")
    BY <2>2, <2>6, RefuseInv
  <2>7. QED  BY <2>1, <2>5, <2>6
<1>9. CASE Search(p)
  <2>1. PICK k \in known :
            IF k \in keys
            THEN Open(p, "search", "limit", [NoSession EXCEPT !.key = k])
            ELSE Refuse(p, "search")
    BY <1>9 DEF Search
  <2>2. late' \in Nat /\ late' < Cap
    BY <1>2, <1>9 DEF Search
  <2> DEFINE s == [NoSession EXCEPT !.key = k]
  <2>3. s \in Session /\ s.key = k
    BY <1>1, NoSessionIsASession DEF NoSession, Session, TypeOK
  <2>4. Sound(p, "limit", [s EXCEPT !.op = "search"])
    BY <2>3 DEF Sound, Fits, Holds, Session
  <2>5. CASE Open(p, "search", "limit", s)
    BY <2>2, <2>3, <2>4, <2>5, <1>3, OpenInv
  <2>6. CASE Refuse(p, "search")
    BY <2>2, <2>6, RefuseInv
  <2>7. QED  BY <2>1, <2>5, <2>6
<1>10. CASE NotAdmitted(p)
  BY <1>2, <1>10, RefuseInv DEF NotAdmitted
<1>11. QED  BY <1>4, <1>5, <1>6, <1>7, <1>8, <1>9, <1>10 DEF Arrive

-----------------------------------------------------------------------------
(***************************************************************************)
(* Statements                                                              *)
(***************************************************************************)

LEMMA IssueInv ==
    ASSUME IInv, NEW p \in Processes, Issue(p)
    PROVE  IInv'
<1>1. /\ place[p] = "issue" /\ End(p)
      /\ UNCHANGED <<users, keys, known, alters, absent, late, ready>>
  BY DEF Issue, tables, histories
<1> DEFINE tok == [sub |-> sess[p].name, role |-> sess[p].role, left |-> Lifetime]
<1>2. tokens' = tokens \cup {tok}
  BY DEF Issue
<1>3. TypeOK /\ Sessions /\ Fresh /\ UniqueNames /\ Absence
  BY DEF IInv
<1>4. /\ sess[p].name \in Names /\ sess[p].role \in Roles
      /\ sess[p].role = "admin" => absent[sess[p].name] <= sess[p].lag
  BY <1>1, <1>3 DEF Sessions, Sound, Fits
<1>5. /\ \A q \in Processes \ {p} : place'[q] = place[q] /\ sess'[q] = sess[q]
      /\ place'[p] = "done" /\ sess'[p] = NoSession
  BY <1>1, <1>3 DEF End, TypeOK
<1>6. TypeOK'
  <2>1. tokens' \subseteq [sub : Names, role : Roles, left : 1 .. Lifetime]
    BY <1>2, <1>3, <1>4, AccessAssumption DEF TypeOK
  <2>2. QED  BY <2>1, <1>1, <1>3, NoSessionIsASession DEF TypeOK, End
<1>7. Sessions'
  <2>1. SUFFICES ASSUME NEW q \in Processes PROVE Sound(q, place[q], sess[q])'
    BY DEF Sessions
  <2>2. CASE q = p
    BY <2>2, <1>5 DEF Sound, Fits, Holds
  <2>3. CASE q # p
    <3>1. Sound(q, place[q], sess[q]) /\ place'[q] = place[q] /\ sess'[q] = sess[q]
      BY <2>3, <1>3, <1>5 DEF Sessions
    <3>2. Fits(q, place[q], sess[q])'
      BY <3>1, <1>1 DEF Sound, Fits
    <3>3. \A r \in Processes : place'[r] = "commit" \/ Holds(place'[r], sess'[r])
                => place'[r] = place[r] /\ sess'[r] = sess[r]
      BY <1>5 DEF Holds
    <3>4. QED  BY <3>1, <3>2, <3>3, <1>1 DEF Sound, Holds
  <2>4. QED  BY <2>2, <2>3
<1>8. Fresh' /\ UniqueNames' /\ BootstrapLeavesTheAccount'
  BY <1>1, <1>3, <1>5, SameHistory DEF Fresh, UniqueNames
<1>9. Absence'
  <2>1. tok.role = "admin" => absent[tok.sub] + tok.left <= Cap
    <3>1. absent[sess[p].name] \in Nat /\ sess[p].lag \in Nat /\ sess[p].lag <= MaxLag
      BY <1>3, <1>4, CapIsANumber, AccessAssumption DEF TypeOK, Session
    <3>2. QED  BY <3>1, <1>4, CapIsANumber, AccessAssumption
  <2>2. QED  BY <2>1, <1>1, <1>2, <1>3 DEF Absence, ActiveAdmin, Named, Cap
<1>10. QED  BY <1>6, <1>7, <1>8, <1>9 DEF IInv

LEMMA InsertUserInv ==
    ASSUME IInv, NEW p \in Processes, InsertUser(p)
    PROVE  IInv'
<1>1. /\ place[p] = "insert" /\ sess[p].op \in Writers
      /\ Inserting(sess[p].name) = {}
      /\ UNCHANGED <<tables, tokens, alters, absent, late>>
  BY DEF InsertUser, Writers
<1>2. /\ TypeOK /\ Sound(p, "insert", sess[p]) /\ sess[p] \in Session
      /\ late' \in Nat /\ late' < Cap
  BY <1>1, SameHistory DEF IInv, TypeOK, Sessions
<1>3. CASE Named(sess[p].name) # {}
  <2>1. End(p) /\ ready' = IF sess[p].op = "ensure" THEN ready \cup {p} ELSE ready
    BY <1>3 DEF InsertUser
  <2>2. ready' \subseteq Processes
    BY <2>1, SameHistory
  <2>3. BootstrapLeavesTheAccount'
    BY <2>1, <1>1, <1>2, <1>3
       DEF IInv, BootstrapLeavesTheAccount, Named, tables, Sound, Fits
  <2>4. QED  BY <2>1, <2>2, <2>3, <1>1, <1>2, EndInv
<1>4. CASE Named(sess[p].name) = {}
  <2>1. Goto(p, "commit") /\ UNCHANGED <<sess, ready>>
    BY <1>4 DEF InsertUser
  <2>2. place' = [place EXCEPT ![p] = "commit"] /\ sess' = [sess EXCEPT ![p] = sess[p]]
    BY <2>1, <1>2 DEF Goto, TypeOK
  <2>3. ready' \subseteq Processes /\ BootstrapLeavesTheAccount'
    BY <2>1, <1>1, SameHistory DEF tables
  <2>4. Sound(p, "commit", sess[p])
    BY <1>1, <1>2, <1>4 DEF Sound, Fits, Holds, Named, Inserting, Writers
  <2>5. QED  BY <2>2, <2>3, <2>4, <1>1, <1>2, MoveInv DEF Places
<1>5. QED  BY <1>3, <1>4

\* A statement that touches the session alone, given where it goes.
LEMMA StatementInv ==
    ASSUME IInv, NEW p \in Processes, NEW at \in Places, NEW s \in Session,
           place' = [place EXCEPT ![p] = at], sess' = [sess EXCEPT ![p] = s],
           UNCHANGED <<alters, tables, tokens, histories>>,
           place[p] # "done", Sound(p, at, s)
    PROVE  IInv'
<1>1. UNCHANGED <<users, ready, absent, late>>
  BY DEF tables, histories
<1>2. /\ late' \in Nat /\ late' < Cap
      /\ ready' \subseteq Processes /\ BootstrapLeavesTheAccount'
  BY <1>1, SameHistory
<1>3. QED  BY <1>1, <1>2, MoveInv

LEMMA InsertKeyInv ==
    ASSUME IInv, NEW p \in Processes, InsertKey(p)
    PROVE  IInv'
<1> DEFINE s == [sess[p] EXCEPT !.key = p]
<1>1. /\ place[p] = "insert" /\ sess[p].op = "create_key"
      /\ place' = [place EXCEPT ![p] = "commit"]
      /\ sess' = [sess EXCEPT ![p] = s]
      /\ UNCHANGED <<alters, tables, tokens, histories>>
  BY DEF InsertKey, Goto
<1>2. sess[p] \in Session /\ Sound(p, "insert", sess[p])
  BY <1>1 DEF IInv, TypeOK, Sessions
<1>3. s \in Session /\ s.key = p /\ s.op = "create_key" /\ ~s.held
  BY <1>1, <1>2 DEF Session, KeyIds, Sound, Fits
<1>4. Sound(p, "commit", s)
  BY <1>3 DEF Sound, Fits, Holds, Writers
<1>5. QED  BY <1>1, <1>3, <1>4, StatementInv DEF Places

\* The two statements that lock the row of a key, or find it gone.
LEMMA LockInv ==
    ASSUME IInv, NEW p \in Processes, NEW op, NEW at,
           \/ place[p] = "delete" /\ op = "revoke_key" /\ at = "commit"
           \/ place[p] = "touch" /\ op = "search" /\ at = "infer",
           Holders(sess[p].key) = {},
           sess' = [sess EXCEPT ![p].held = sess[p].key \in keys],
           Goto(p, at), UNCHANGED <<tables, tokens, alters, histories>>
    PROVE  IInv'
<1> DEFINE s == [sess[p] EXCEPT !.held = sess[p].key \in keys]
<1>1. /\ place' = [place EXCEPT ![p] = at] /\ sess' = [sess EXCEPT ![p] = s]
      /\ place[p] # "done" /\ at \in Places
  BY DEF Goto, Places
<1>2. sess[p] \in Session /\ Sound(p, place[p], sess[p])
  BY DEF IInv, TypeOK, Sessions
<1>3. sess[p].op = op /\ sess[p].key \in known
  BY <1>2 DEF Sound, Fits
<1>4. /\ s \in Session /\ s.op = op /\ s.key = sess[p].key
      /\ s.held <=> sess[p].key \in keys
  <2>1. \A b \in BOOLEAN : LET t == [sess[p] EXCEPT !.held = b]
                           IN  /\ t \in Session /\ t.op = sess[p].op
                               /\ t.key = sess[p].key /\ t.held = b
    BY <1>2 DEF Session
  <2>2. (sess[p].key \in keys) \in BOOLEAN
    OBVIOUS
  <2>3. QED  BY <2>1, <2>2, <1>3, Zenon
<1>5. \A q \in Processes : Holds(place[q], sess[q]) => sess[q].key # s.key
  BY <1>4 DEF Holders, Holds
<1>6. Sound(p, at, s)
  BY <1>3, <1>4, <1>5 DEF Sound, Fits, Holds, Writers
<1>7. QED  BY <1>1, <1>4, <1>6, StatementInv

\* The steps that only go on, or end.
LEMMA GoOnInv ==
    ASSUME IInv, NEW p \in Processes, CheckLimit(p) \/ Infer(p) \/ Fail(p)
    PROVE  IInv'
<1>1. /\ place[p] # "done" /\ UNCHANGED <<tables, tokens, alters, histories>>
      /\ sess[p] \in Session /\ Sound(p, place[p], sess[p])
      /\ sess = [sess EXCEPT ![p] = sess[p]]
  BY DEF CheckLimit, Infer, Fail, IInv, TypeOK, Sessions
<1>2. CASE End(p)
  <2>1. UNCHANGED <<tables, users, tokens, alters, ready, absent, late>>
    BY <1>1 DEF histories, tables
  <2>2. QED  BY <1>1, <1>2, <2>1, SameHistory, EndInv
<1>3. CASE place[p] = "limit" /\ Goto(p, "touch") /\ UNCHANGED sess
  <2>1. Sound(p, "touch", sess[p])
    BY <1>1, <1>3 DEF Sound, Fits, Holds
  <2>2. QED  BY <1>1, <1>3, <2>1, StatementInv DEF Goto, Places
<1>4. CASE place[p] = "infer" /\ Goto(p, "commit") /\ UNCHANGED sess
  <2>1. Sound(p, "commit", sess[p])
    BY <1>1, <1>4 DEF Sound, Fits, Holds, Writers
  <2>2. QED  BY <1>1, <1>4, <2>1, StatementInv DEF Goto, Places
<1>5. QED  BY <1>2, <1>3, <1>4 DEF CheckLimit, Infer, Fail

\* What a commit writes: the account of a Writer, a key, or the end of a key.
LEMMA CommitInv ==
    ASSUME IInv, NEW p \in Processes, Commit(p)
    PROVE  IInv'
<1> DEFINE s == sess[p]
           writes == s.op \in Writers
           row == [name |-> s.name, role |-> s.role, active |-> TRUE]
<1>1. /\ place[p] = "commit" /\ End(p)
      /\ users' = IF writes
                  THEN [u \in DOMAIN users \cup {p} |-> IF u # p THEN users[u] ELSE row]
                  ELSE users
      /\ keys' = CASE s.op = "create_key" -> keys \cup {p}
                   [] s.op = "revoke_key" -> keys \ {s.key}
                   [] OTHER -> keys
      /\ known' = known \cup keys'
      /\ absent' = IF writes /\ s.role = "admin" THEN [absent EXCEPT ![s.name] = 0]
                   ELSE absent
      /\ ready' = IF s.op = "ensure" THEN ready \cup {p} ELSE ready
      /\ UNCHANGED <<tokens, alters, late>>
  BY DEF Commit, Writers
<1>2. /\ TypeOK /\ Sessions /\ Fresh /\ UniqueNames /\ Absence
      /\ BootstrapLeavesTheAccount
      /\ Sound(p, "commit", s) /\ s \in Session
  BY <1>1 DEF IInv, Sessions, TypeOK
<1>3. p \notin DOMAIN users /\ p \notin known /\ keys \subseteq known
  BY <1>1, <1>2 DEF Fresh, TypeOK
<1>4. /\ writes => s.name \in Names /\ s.role \in Roles /\ row.name = s.name
                   /\ row \in [name : Names, role : Roles, active : BOOLEAN]
                   /\ row.role = s.role
      /\ s.op \in {"revoke_key", "search"} => s.key \in known
      /\ s.op = "ensure" => s.name = Root
  BY <1>2 DEF Sound, Fits, Writers
<1>5. /\ place'[p] = "done" /\ sess'[p] = NoSession
      /\ \A q \in Processes \ {p} : place'[q] = place[q] /\ sess'[q] = sess[q]
  BY <1>1, <1>2 DEF End, TypeOK
<1>6. /\ DOMAIN users' = IF writes THEN DOMAIN users \cup {p} ELSE DOMAIN users
      /\ \A u \in DOMAIN users : users'[u] = users[u]
      /\ writes => users'[p] = row
  BY <1>1, <1>3
<1>7. /\ keys' \subseteq keys \cup {p} /\ known \subseteq known' /\ keys' \subseteq known'
      /\ known' \subseteq known \cup {p}
      /\ \A k \in known : k \in keys' <=> k \in keys /\ ~(s.op = "revoke_key" /\ k = s.key)
  BY <1>1, <1>3
<1>8. TypeOK'
  <2>1. users' \in [DOMAIN users' -> [name : Names, role : Roles, active : BOOLEAN]]
    BY <1>1, <1>2, <1>4, <1>6 DEF TypeOK
  <2>2. DOMAIN users' \subseteq UserIds /\ keys' \subseteq known' /\ known' \subseteq KeyIds
    BY <1>2, <1>6, <1>7 DEF TypeOK, UserIds, KeyIds
  <2>3. absent' \in [Names -> 0 .. Cap]
    <3>1. 0 \in 0 .. Cap /\ absent \in [Names -> 0 .. Cap]
      BY <1>2, CapIsANumber DEF TypeOK
    <3>2. [absent EXCEPT ![s.name] = 0] \in [Names -> 0 .. Cap]
      BY <3>1
    <3>3. QED  BY <3>1, <3>2, <1>1, Zenon
  <2>4. place' \in [Processes -> Places] /\ sess' \in [Processes -> Session]
    BY <1>1, <1>2, NoSessionIsASession DEF End, TypeOK, Places
  <2>5. ready' \subseteq Processes
    BY <1>1, <1>2 DEF TypeOK
  <2>6. QED  BY <2>1, <2>2, <2>3, <2>4, <2>5, <1>1, <1>2 DEF TypeOK, Places
<1>9. Sessions'
  <2>1. SUFFICES ASSUME NEW q \in Processes PROVE Sound(q, place[q], sess[q])'
    BY DEF Sessions
  <2>2. CASE q = p
    BY <2>2, <1>5 DEF Sound, Fits, Holds
  <2>3. CASE q # p
    <3> DEFINE t == sess[q]
    <3>1. Sound(q, place[q], t) /\ place'[q] = place[q] /\ sess'[q] = t
      BY <2>3, <1>2, <1>5 DEF Sessions
    <3>2. Fits(q, place[q], sess[q])'
      BY <3>1, <1>7 DEF Sound, Fits
    <3>3. ASSUME place[q] = "commit", t.op \in Writers
          PROVE  /\ \A u \in DOMAIN users' : users'[u].name # t.name
                 /\ \A r \in Processes \ {q} :
                       place'[r] = "commit" /\ sess'[r].op \in Writers
                          => sess'[r].name # t.name
      <4>1. writes => s.name # t.name
        BY <3>1, <3>3, <2>3, <1>1 DEF Sound
      <4>2. QED  BY <4>1, <3>1, <3>3, <1>4, <1>5, <1>6 DEF Sound
    <3>4. ASSUME Holds(place[q], t)
          PROVE  /\ t.key \in keys'
                 /\ \A r \in Processes \ {q} :
                       Holds(place'[r], sess'[r]) => sess'[r].key # t.key
      <4>1. t.key \in keys /\ t.key \in known
        BY <3>1, <3>4, <1>3 DEF Sound
      <4>2. ~(s.op = "revoke_key" /\ t.key = s.key)
        <5>1. CASE s.held
          BY <5>1, <3>1, <3>4, <2>3, <1>1 DEF Sound, Holds
        <5>2. CASE ~s.held
          BY <5>2, <4>1, <1>2 DEF Sound
        <5>3. QED  BY <5>1, <5>2
      <4>3. QED  BY <4>1, <4>2, <3>1, <3>4, <1>5, <1>7 DEF Sound, Holds
    <3>5. ASSUME place[q] = "commit", t.op = "revoke_key", ~t.held
          PROVE  t.key \notin keys'
      BY <3>1, <3>5, <1>7 DEF Sound, Fits
    <3>6. place[q] = "issue" /\ t.role = "admin" => absent'[t.name] <= t.lag
      <4>1. SUFFICES ASSUME place[q] = "issue", t.role = "admin"
                     PROVE  absent'[t.name] <= t.lag
        OBVIOUS
      <4>2. t.name \in Names /\ absent[t.name] <= t.lag /\ t.lag \in Nat
        BY <4>1, <3>1, <1>2, AccessAssumption DEF Sound, Fits, TypeOK, Session
      <4>3. absent'[t.name] \in {0, absent[t.name]}
        BY <4>2, <1>1, <1>2 DEF TypeOK
      <4>4. QED  BY <4>2, <4>3
    <3>7. QED  BY <3>1, <3>2, <3>3, <3>4, <3>5, <3>6 DEF Sound, Holds
  <2>4. QED  BY <2>2, <2>3
<1>10. Fresh'
  BY <1>2, <1>5, <1>6, <1>7 DEF Fresh
<1>11. UniqueNames'
  <2>1. writes => \A u \in DOMAIN users : users[u].name # s.name
    BY <1>2 DEF Sound
  <2>2. QED  BY <2>1, <1>2, <1>4, <1>6 DEF UniqueNames
<1>12. Absence'
  <2>1. \A n \in Names : ActiveAdmin(n)' => absent'[n] = 0
    <3>1. SUFFICES ASSUME NEW n \in Names, NEW u \in DOMAIN users',
                          users'[u].name = n, users'[u].role = "admin", users'[u].active
                   PROVE  absent'[n] = 0
      BY DEF ActiveAdmin, Named
    <3>2. absent \in [Names -> 0 .. Cap]
      BY <1>2 DEF TypeOK
    <3>3. CASE u \in DOMAIN users
      <4>1. absent[n] = 0
        BY <3>1, <3>3, <1>2, <1>6 DEF Absence, ActiveAdmin, Named
      <4>2. QED  BY <4>1, <3>2, <1>1
    <3>4. CASE u \notin DOMAIN users
      <4>1. writes /\ s.name = n /\ s.role = "admin"
        BY <3>1, <3>4, <1>4, <1>6
      <4>2. QED  BY <4>1, <3>2, <1>1
    <3>5. QED  BY <3>3, <3>4
  <2>2. \A tok \in tokens' : tok.role = "admin" => absent'[tok.sub] + tok.left <= Cap
    <3>1. SUFFICES ASSUME NEW tok \in tokens, tok.role = "admin"
                   PROVE  absent'[tok.sub] + tok.left <= Cap
      BY <1>1
    <3>2. /\ tok.sub \in Names /\ tok.left \in Nat
          /\ absent \in [Names -> 0 .. Cap]
          /\ absent[tok.sub] + tok.left <= Cap
      BY <3>1, <1>2, AccessAssumption DEF TypeOK, Absence
    <3>3. absent'[tok.sub] \in {0, absent[tok.sub]} /\ absent[tok.sub] \in Nat
      BY <3>2, <1>1, CapIsANumber
    <3>4. QED  BY <3>2, <3>3, CapIsANumber
  <2>3. QED  BY <2>1, <2>2, <1>1, <1>2 DEF Absence, Cap
<1>13. BootstrapLeavesTheAccount'
  BY <1>1, <1>2, <1>4, <1>6 DEF BootstrapLeavesTheAccount, Named, Writers
<1>14. QED  BY <1>8, <1>9, <1>10, <1>11, <1>12, <1>13 DEF IInv

-----------------------------------------------------------------------------
(***************************************************************************)
(* Changes in the database itself, and time                                *)
(***************************************************************************)

LEMMA AlterInv ==
    ASSUME IInv, NEW u \in DOMAIN users, Alter(u)
    PROVE  IInv'
<1>1. /\ alters < MaxAlters /\ alters' = alters + 1
      /\ absent' = [n \in Names |-> IF n = users[u].name /\ ActiveAdmin(n)' THEN 0
                                    ELSE absent[n]]
      /\ UNCHANGED <<keys, known, tokens, sess, place, late, ready>>
      /\ \/ \E role \in Roles : users' = [users EXCEPT ![u].role = role]
         \/ users' = [users EXCEPT ![u].active = ~@]
  BY DEF Alter
<1>2. TypeOK /\ Sessions /\ Fresh /\ UniqueNames /\ Absence /\ BootstrapLeavesTheAccount
  BY DEF IInv
<1>3. /\ DOMAIN users' = DOMAIN users
      /\ \A v \in DOMAIN users : users'[v].name = users[v].name
      /\ \A v \in DOMAIN users \ {u} : users'[v] = users[v]
      /\ users' \in [DOMAIN users -> [name : Names, role : Roles, active : BOOLEAN]]
  <2>1. users \in [DOMAIN users -> [name : Names, role : Roles, active : BOOLEAN]]
    BY <1>2 DEF TypeOK
  <2>2. CASE \E role \in Roles : users' = [users EXCEPT ![u].role = role]
    BY <2>1, <2>2
  <2>3. CASE users' = [users EXCEPT ![u].active = ~@]
    BY <2>1, <2>3
  <2>4. QED  BY <2>2, <2>3, <1>1
<1>4. /\ absent \in [Names -> 0 .. Cap] /\ absent' \in [Names -> 0 .. Cap]
      /\ \A n \in Names : absent'[n] \in {0, absent[n]}
  <2>1. absent \in [Names -> 0 .. Cap] /\ 0 \in 0 .. Cap
    BY <1>2, CapIsANumber DEF TypeOK
  <2>2. QED  BY <2>1, <1>1
<1>5. TypeOK'
  BY <1>1, <1>2, <1>3, <1>4, AccessAssumption DEF TypeOK
<1>6. Sessions'
  <2>1. SUFFICES ASSUME NEW q \in Processes PROVE Sound(q, place[q], sess[q])'
    BY DEF Sessions
  <2>2. Sound(q, place[q], sess[q]) /\ sess[q] \in Session
    BY <1>2 DEF Sessions, TypeOK
  <2>3. Fits(q, place[q], sess[q])'
    BY <2>2, <1>1 DEF Sound, Fits
  <2>4. place[q] = "issue" /\ sess[q].role = "admin" => absent'[sess[q].name] <= sess[q].lag
    <3>1. SUFFICES ASSUME place[q] = "issue", sess[q].role = "admin"
                   PROVE  absent'[sess[q].name] <= sess[q].lag
      OBVIOUS
    <3>2. /\ sess[q].name \in Names /\ absent[sess[q].name] <= sess[q].lag
          /\ sess[q].lag \in Nat
      BY <2>2, <3>1, AccessAssumption DEF Sound, Fits, Session
    <3>3. QED  BY <3>2, <1>4
  <2>5. QED  BY <2>2, <2>3, <2>4, <1>1, <1>3 DEF Sound, Holds
<1>7. Fresh'
  BY <1>1, <1>2, <1>3 DEF Fresh
<1>8. UniqueNames'
  BY <1>2, <1>3 DEF UniqueNames
<1>9. Absence'
  <2>1. \A n \in Names : ActiveAdmin(n)' => absent'[n] = 0
    <3>1. SUFFICES ASSUME NEW n \in Names, ActiveAdmin(n)', n # users[u].name
                   PROVE  absent'[n] = 0
      BY <1>1
    <3>2. ActiveAdmin(n)
      BY <3>1, <1>3 DEF ActiveAdmin, Named
    <3>3. QED  BY <3>1, <3>2, <1>1, <1>2 DEF Absence
  <2>2. \A tok \in tokens' : tok.role = "admin" => absent'[tok.sub] + tok.left <= Cap
    <3>1. SUFFICES ASSUME NEW tok \in tokens, tok.role = "admin"
                   PROVE  absent'[tok.sub] + tok.left <= Cap
      BY <1>1
    <3>2. /\ tok.sub \in Names /\ tok.left \in Nat
          /\ absent[tok.sub] + tok.left <= Cap
      BY <3>1, <1>2, AccessAssumption DEF TypeOK, Absence
    <3>3. absent'[tok.sub] \in {0, absent[tok.sub]} /\ absent[tok.sub] \in Nat
      BY <3>2, <1>4, CapIsANumber
    <3>4. QED  BY <3>2, <3>3, CapIsANumber
  <2>3. QED  BY <2>1, <2>2, <1>1, <1>2 DEF Absence, Cap
<1>10. BootstrapLeavesTheAccount'
  BY <1>1, <1>2, <1>3 DEF BootstrapLeavesTheAccount, Named
<1>11. QED  BY <1>5, <1>6, <1>7, <1>8, <1>9, <1>10 DEF IInv

\* A tick ages the tokens, the logins under way and the absent accounts alike.
LEMMA TickInv ==
    ASSUME IInv, Tick
    PROVE  IInv'
<1>1. /\ \A p \in Processes : place[p] = "issue" => sess[p].lag < MaxLag
      /\ sess' = [p \in Processes |-> IF place[p] = "issue"
                                      THEN [sess[p] EXCEPT !.lag = @ + 1] ELSE sess[p]]
      /\ tokens' = {[t EXCEPT !.left = @ - 1] : t \in {t \in tokens : t.left > 1}}
      /\ absent' = [n \in Names |-> IF ActiveAdmin(n) THEN 0
                                    ELSE Min({absent[n] + 1, Cap})]
      /\ UNCHANGED <<users, keys, known, place, alters, late, ready>>
  BY DEF Tick, tables
<1>2. TypeOK /\ Sessions /\ Fresh /\ UniqueNames /\ Absence /\ BootstrapLeavesTheAccount
  BY DEF IInv
<1>3. \A n \in Names : /\ absent[n] \in Nat /\ absent'[n] \in 0 .. Cap
                       /\ absent'[n] <= absent[n] + 1
  <2>1. SUFFICES ASSUME NEW n \in Names
                 PROVE  /\ absent[n] \in Nat /\ absent'[n] \in 0 .. Cap
                        /\ absent'[n] <= absent[n] + 1
    OBVIOUS
  <2>2. absent[n] \in Nat /\ absent[n] + 1 \in Nat /\ Cap \in Nat
    BY <1>2, CapIsANumber DEF TypeOK
  <2>3. /\ Min({absent[n] + 1, Cap}) \in {absent[n] + 1, Cap}
        /\ Min({absent[n] + 1, Cap}) <= absent[n] + 1
        /\ Min({absent[n] + 1, Cap}) <= Cap
    BY <2>2, MinOfTwo
  <2>4. absent'[n] \in {0, Min({absent[n] + 1, Cap})}
    BY <1>1
  <2>5. QED  BY <2>2, <2>3, <2>4
<1>4. \A p \in Processes :
         /\ sess'[p] \in Session
         /\ sess'[p].op = sess[p].op /\ sess'[p].name = sess[p].name
         /\ sess'[p].role = sess[p].role /\ sess'[p].key = sess[p].key
         /\ sess'[p].held = sess[p].held
         /\ place[p] = "issue" => sess'[p].lag = sess[p].lag + 1
  <2>1. SUFFICES ASSUME NEW p \in Processes
                 PROVE  /\ sess'[p] \in Session
                        /\ sess'[p].op = sess[p].op /\ sess'[p].name = sess[p].name
                        /\ sess'[p].role = sess[p].role /\ sess'[p].key = sess[p].key
                        /\ sess'[p].held = sess[p].held
                        /\ place[p] = "issue" => sess'[p].lag = sess[p].lag + 1
    OBVIOUS
  <2>2. sess[p] \in Session
    BY <1>2 DEF TypeOK
  <2>3. CASE place[p] = "issue"
    <3>1. sess'[p] = [sess[p] EXCEPT !.lag = @ + 1] /\ sess[p].lag < MaxLag
      BY <2>3, <1>1
    <3>2. QED  BY <3>1, <2>2, AccessAssumption DEF Session
  <2>4. CASE place[p] # "issue"
    BY <2>2, <2>4, <1>1
  <2>5. QED  BY <2>3, <2>4
<1>5. \A tok \in tokens' : \E old \in tokens :
          /\ old.sub \in Names /\ old.left \in 2 .. Lifetime
          /\ tok \in [sub : Names, role : Roles, left : 1 .. Lifetime]
          /\ tok.sub = old.sub /\ tok.role = old.role /\ tok.left = old.left - 1
  <2>1. SUFFICES ASSUME NEW old \in tokens, old.left > 1
                 PROVE  LET tok == [old EXCEPT !.left = @ - 1]
                        IN  /\ old.sub \in Names /\ old.left \in 2 .. Lifetime
                            /\ tok \in [sub : Names, role : Roles, left : 1 .. Lifetime]
                            /\ tok.sub = old.sub /\ tok.role = old.role
                            /\ tok.left = old.left - 1
    BY <1>1
  <2>2. old \in [sub : Names, role : Roles, left : 1 .. Lifetime]
    BY <1>2 DEF TypeOK
  <2>3. QED  BY <2>1, <2>2, AccessAssumption
<1>6. TypeOK'
  <2>1. sess' \in [Processes -> Session]
    BY <1>1, <1>4
  <2>2. absent' \in [Names -> 0 .. Cap]
    BY <1>1, <1>3
  <2>3. tokens' \subseteq [sub : Names, role : Roles, left : 1 .. Lifetime]
    BY <1>5
  <2>4. QED  BY <2>1, <2>2, <2>3, <1>1, <1>2, CapIsANumber DEF TypeOK, Cap
<1>7. Sessions'
  <2>1. SUFFICES ASSUME NEW q \in Processes PROVE Sound(q, place[q], sess[q])'
    BY DEF Sessions
  <2>2. Sound(q, place[q], sess[q]) /\ sess[q] \in Session
    BY <1>2 DEF Sessions, TypeOK
  <2>3. Fits(q, place[q], sess[q])'
    BY <2>2, <1>1, <1>4 DEF Sound, Fits
  <2>4. place[q] = "issue" /\ sess'[q].role = "admin"
           => absent'[sess'[q].name] <= sess'[q].lag
    <3>1. SUFFICES ASSUME place[q] = "issue", sess'[q].role = "admin"
                   PROVE  absent'[sess'[q].name] <= sess'[q].lag
      OBVIOUS
    <3>2. /\ sess'[q].name = sess[q].name /\ sess[q].name \in Names
          /\ absent[sess[q].name] <= sess[q].lag
          /\ sess[q].lag \in Nat /\ sess'[q].lag = sess[q].lag + 1
      BY <2>2, <3>1, <1>4, AccessAssumption DEF Sound, Fits, Session
    <3>3. absent'[sess[q].name] <= absent[sess[q].name] + 1
          /\ absent'[sess[q].name] \in Nat /\ absent[sess[q].name] \in Nat
      BY <3>2, <1>3
    <3>4. QED  BY <3>2, <3>3
  <2>5. QED  BY <2>2, <2>3, <2>4, <1>1, <1>4 DEF Sound, Holds
<1>8. Fresh' /\ UniqueNames' /\ BootstrapLeavesTheAccount'
  BY <1>1, <1>2 DEF Fresh, UniqueNames, BootstrapLeavesTheAccount, Named
<1>9. Absence'
  <2>1. \A n \in Names : ActiveAdmin(n)' => absent'[n] = 0
    BY <1>1 DEF ActiveAdmin, Named
  <2>2. ASSUME NEW tok \in tokens', tok.role = "admin"
        PROVE  absent'[tok.sub] + tok.left <= Cap
    <3>1. PICK old \in tokens :
             /\ old.sub \in Names /\ old.left \in 2 .. Lifetime
             /\ tok.sub = old.sub /\ tok.role = old.role /\ tok.left = old.left - 1
      BY <1>5
    <3>2. absent[old.sub] + old.left <= Cap
      BY <2>2, <3>1, <1>2 DEF Absence
    <3>3. /\ absent'[old.sub] <= absent[old.sub] + 1
          /\ absent'[old.sub] \in Nat /\ absent[old.sub] \in Nat
      BY <3>1, <1>3
    <3>4. QED  BY <3>1, <3>2, <3>3, CapIsANumber, AccessAssumption
  <2>3. QED  BY <2>1, <2>2, <1>1, <1>2 DEF Absence, Cap
<1>10. QED  BY <1>6, <1>7, <1>8, <1>9 DEF IInv

-----------------------------------------------------------------------------
(***************************************************************************)
(* The properties                                                          *)
(***************************************************************************)

LEMMA NextInv == IInv /\ [Next]_vars => IInv'
<1>1. SUFFICES ASSUME IInv, [Next]_vars PROVE IInv'
  OBVIOUS
<1>2. ASSUME NEW p \in Processes, Arrive(p) \/ Step(p) \/ Fail(p) PROVE IInv'
  <2>1. CASE Arrive(p)
    BY <1>1, <2>1, ArriveInv
  <2>2. CASE Issue(p)
    BY <1>1, <2>2, IssueInv
  <2>3. CASE InsertUser(p)
    BY <1>1, <2>3, InsertUserInv
  <2>4. CASE InsertKey(p)
    BY <1>1, <2>4, InsertKeyInv
  <2>5. CASE DeleteKey(p)
    BY <1>1, <2>5, LockInv DEF DeleteKey
  <2>6. CASE Touch(p)
    BY <1>1, <2>6, LockInv DEF Touch
  <2>7. CASE CheckLimit(p) \/ Infer(p) \/ Fail(p)
    BY <1>1, <2>7, GoOnInv
  <2>8. CASE Commit(p)
    BY <1>1, <2>8, CommitInv
  <2>9. QED  BY <1>2, <2>1, <2>2, <2>3, <2>4, <2>5, <2>6, <2>7, <2>8 DEF Step
<1>3. ASSUME NEW u \in UserIds, Alter(u) PROVE IInv'
  BY <1>1, <1>3, AlterInv DEF Alter
<1>4. CASE Tick
  BY <1>1, <1>4, TickInv
<1>5. CASE UNCHANGED vars
  BY <1>1, <1>5 DEF vars, tables, histories, IInv, TypeOK, Sessions, Sound, Fits, Holds,
                    Fresh, UniqueNames, Absence, ActiveAdmin, Named,
                    BootstrapLeavesTheAccount
<1>6. QED  BY <1>1, <1>2, <1>3, <1>4, <1>5 DEF Next

\* The invariant holds of every behaviour.
THEOREM Invariance == Spec => []IInv
BY InitInv, NextInv, PTL DEF Spec

\* The tables, tokens and sessions keep their types.
THEOREM TypeCorrect == Spec => []TypeOK
<1>1. IInv => TypeOK
  BY DEF IInv
<1>2. QED  BY <1>1, Invariance, PTL

\* A name is given to one account at most, whatever create_user and the starts
\* of workers do at the same time: the unique index decides.
THEOREM AccountsAreUnique == Spec => []OneAccountPerName
<1>1. IInv => OneAccountPerName
  <2>1. SUFFICES ASSUME IInv, NEW n \in Names PROVE Cardinality(Named(n)) <= 1
    BY DEF OneAccountPerName
  <2>2. CASE Named(n) = {}
    BY <2>2, FS_EmptySet
  <2>3. CASE Named(n) # {}
    <3>1. PICK u : u \in Named(n)
      BY <2>3
    <3>2. Named(n) = {u}
      BY <3>1, <2>1 DEF IInv, UniqueNames, Named
    <3>3. QED  BY <3>2, FS_Singleton
  <2>4. QED  BY <2>2, <2>3
<1>2. QED  BY <1>1, Invariance, PTL

\* Nobody acts as an administrator longer after losing the role, or the
\* account, than a token lives and a login takes.
THEOREM AccessEnds == Spec => []AccessEndsWithTheToken
<1>1. IInv => AccessEndsWithTheToken
  BY DEF IInv, Absence, AccessEndsWithTheToken
<1>2. QED  BY <1>1, Invariance, PTL

\* revoke_key is answered after the searches that have touched the key.
THEOREM KeysInUseAreValid == Spec => []RevocationWaits
<1>1. IInv => RevocationWaits
  BY DEF IInv, Sessions, Sound, Holds, RevocationWaits
<1>2. QED  BY <1>1, Invariance, PTL

\* Every start of a worker leaves the bootstrap account behind it.
THEOREM BootstrapIsDone == Spec => []BootstrapLeavesTheAccount
<1>1. IInv => BootstrapLeavesTheAccount
  BY DEF IInv
<1>2. QED  BY <1>1, Invariance, PTL
=============================================================================
