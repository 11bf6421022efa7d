------------------------------- MODULE Access -------------------------------
(***************************************************************************)
(* Who may do what: accounts, bearer tokens and API keys.  A process is a  *)
(* request (login, create_user, create_key, revoke_key, external_search)   *)
(* or a start of the application, which ensures the bootstrap admin as the *)
(* script create_admin does.  Each is a session of its own, one action per *)
(* statement, committed at its end or rolled back.                         *)
(*                                                                         *)
(* Roles are read from the token, not from the table.  Accounts change     *)
(* only in the database itself (no endpoint updates users).  Time passes   *)
(* in ticks: tokens grow old, and Absent counts how long ago an account    *)
(* was last an active administrator.                                       *)
(***************************************************************************)
EXTENDS Naturals, FiniteSets, Functions, FiniteSetsExt

CONSTANTS
    Processes,
    Names,      \* usernames
    Root,       \* BOOTSTRAP_ADMIN_USER
    SeedUsers,  \* accounts that may exist at the start: id -> [name, role]
    SeedKeys,   \* API keys that may exist at the start
    Lifetime,   \* ACCESS_TOKEN_EXPIRE_MINUTES, in ticks
    MaxLag,     \* bound: ticks a login takes from its SELECT to its token
    Ops,        \* the operations considered
    Roles,      \* the roles considered
    MaxAlters,  \* bound: changes made in the database itself
    None

ASSUME AccessAssumption ==
    /\ Root \in Names
    /\ Lifetime \in Nat \ {0} /\ {MaxLag, MaxAlters} \subseteq Nat
    /\ Roles \subseteq {"viewer", "operator", "admin"} /\ "admin" \in Roles
    /\ SeedUsers \in [DOMAIN SeedUsers -> [name : Names, role : Roles]]
    /\ \A u, v \in DOMAIN SeedUsers : SeedUsers[u].name = SeedUsers[v].name => u = v
    /\ DOMAIN SeedUsers \cap Processes = {} /\ SeedKeys \cap Processes = {}

UserIds == DOMAIN SeedUsers \cup Processes
KeyIds == SeedKeys \cup Processes

VARIABLES
    users,      \* committed accounts: id -> [name, role, active]
    keys,       \* committed API keys
    known,      \* keys ever handed out, revoked ones too
    tokens,     \* tokens in the hands of clients: [sub, role, left]
    sess,       \* process -> what its session carries
    place,      \* process -> where it is
    alters,     \* changes made in the database itself so far
    absent,     \* history: name -> ticks since it was an active admin
    late,       \* history: the longest absence of an admitted admin
    ready       \* history: starts that found, made or met the account

tables == <<users, keys, known>>
histories == <<absent, late, ready>>
vars == <<tables, tokens, sess, place, alters, histories>>

Level(role) == CASE role = "viewer" -> 1 [] role = "operator" -> 2
                 [] role = "admin" -> 3

\* Mutant: the order of the roles is turned round.
SatisfiesReversed(role, required) == Level(role) <= Level(required)

Satisfies(role, required) == Level(role) >= Level(required)

Named(n) == {u \in DOMAIN users : users[u].name = n}

ActiveAdmin(n) == \E u \in Named(n) : users[u].role = "admin" /\ users[u].active

\* No token that is still good can be older than this.
Cap == Lifetime + MaxLag

Session == [op : Ops \cup {None}, name : Names \cup {None}, role : Roles \cup {None},
            key : KeyIds \cup {None}, lag : 0 .. MaxLag, held : BOOLEAN]

NoSession == [op |-> None, name |-> None, role |-> None, key |-> None,
              lag |-> 0, held |-> FALSE]

TypeOK ==
    /\ DOMAIN users \subseteq UserIds
    /\ users \in [DOMAIN users -> [name : Names, role : Roles, active : BOOLEAN]]
    /\ keys \subseteq known /\ known \subseteq KeyIds
    /\ tokens \subseteq [sub : Names, role : Roles, left : 1 .. Lifetime]
    /\ sess \in [Processes -> Session]
    /\ place \in [Processes -> {"idle", "issue", "insert", "delete", "limit",
                                "touch", "infer", "commit", "done"}]
    /\ alters \in 0 .. MaxAlters
    /\ absent \in [Names -> 0 .. Cap] /\ late \in 0 .. Cap
    /\ ready \subseteq Processes

\* Some accounts and keys exist, and their owners may hold tokens.
Init ==
    /\ \E S \in SUBSET DOMAIN SeedUsers :
          users = [u \in S |-> [name |-> SeedUsers[u].name,
                                role |-> SeedUsers[u].role, active |-> TRUE]]
    /\ keys \in SUBSET SeedKeys
    /\ known = SeedKeys
    /\ tokens \in {{}, {[sub |-> users[u].name, role |-> users[u].role,
                         left |-> Lifetime] : u \in DOMAIN users}}
    /\ sess = [p \in Processes |-> NoSession]
    /\ place = [p \in Processes |-> "idle"]
    /\ alters = 0
    /\ absent = [n \in Names |-> IF ActiveAdmin(n) THEN 0 ELSE Cap]
    /\ late = 0
    /\ ready = {}

-----------------------------------------------------------------------------
(***************************************************************************)
(* Locks, and the end of a session                                         *)
(***************************************************************************)

\* Sessions with an uncommitted account of this name.
Inserting(n) ==
    {p \in Processes : place[p] = "commit" /\ sess[p].op \in {"ensure", "create_user"}
                       /\ sess[p].name = n}

\* Sessions that hold the row of a key: a search that has touched it, through
\* its inference up to its commit, and a revocation that has deleted it.
Holders(k) ==
    {p \in Processes : place[p] \in {"infer", "commit"} /\ sess[p].held
                       /\ sess[p].key = k}

Open(p, op, first, s) ==
    /\ place[p] = "idle" /\ op \in Ops
    /\ sess' = [sess EXCEPT ![p] = [s EXCEPT !.op = op]]
    /\ place' = [place EXCEPT ![p] = first]
    /\ UNCHANGED <<tables, tokens, alters, absent, ready>>

End(p) ==
    /\ place' = [place EXCEPT ![p] = "done"]
    /\ sess' = [sess EXCEPT ![p] = NoSession]

\* The answer (401, 403, 404 or 409) before anything is written.
Refuse(p, op) ==
    /\ place[p] = "idle" /\ op \in Ops
    /\ End(p)
    /\ UNCHANGED <<tables, tokens, alters, absent, ready>>

Goto(p, next) == place' = [place EXCEPT ![p] = next]

-----------------------------------------------------------------------------
(***************************************************************************)
(* Requests arrive                                                         *)
(***************************************************************************)

\* decode_access_token and require_admin: a token that is not expired, with
\* the role it was issued for.
Admitted(tok) == tok \in tokens /\ Satisfies(tok.role, "admin")

Admit(tok) == Admitted(tok) /\ late' = Max({late, absent[tok.sub]})

\* authenticate: the account, its password and is_active.
Login(p) ==
    /\ \/ \E u \in DOMAIN users :
              /\ users[u].active
              /\ Open(p, "login", "issue", [NoSession EXCEPT
                        !.name = users[u].name, !.role = users[u].role])
       \/ Refuse(p, "login")
    /\ UNCHANGED late

\* ensure_bootstrap_admin, at the start of a worker and in create_admin.
Ensure(p) ==
    /\ \/ /\ Named(Root) = {}
          /\ Open(p, "ensure", "insert", [NoSession EXCEPT !.name = Root, !.role = "admin"])
       \/ /\ place[p] = "idle" /\ "ensure" \in Ops
          /\ Named(Root) # {}
          /\ End(p)
          /\ ready' = ready \cup {p}
          /\ UNCHANGED <<tables, tokens, alters, absent>>
    /\ UNCHANGED late

\* create_user: the administrator's token, then the SELECT by name.
CreateUser(p) ==
    \E tok \in tokens, n \in Names, role \in Roles :
        /\ Admit(tok)
        /\ IF Named(n) # {}
           THEN Refuse(p, "create_user")
           ELSE Open(p, "create_user", "insert",
                     [NoSession EXCEPT !.name = n, !.role = role])

CreateKey(p) ==
    \E tok \in tokens :
        Admit(tok) /\ Open(p, "create_key", "insert", NoSession)

\* revoke_key: the key is loaded, or 404.
RevokeKey(p) ==
    \E tok \in tokens, k \in known :
        /\ Admit(tok)
        /\ IF k \in keys
           THEN Open(p, "revoke_key", "delete", [NoSession EXCEPT !.key = k])
           ELSE Refuse(p, "revoke_key")

\* external_search: get_active_by_hash.
Search(p) ==
    /\ \E k \in known :
          IF k \in keys
          THEN Open(p, "search", "limit", [NoSession EXCEPT !.key = k])
          ELSE Refuse(p, "search")
    /\ UNCHANGED late

\* A missing or expired token, or one of a lower role.
NotAdmitted(p) ==
    /\ \E op \in {"create_user", "create_key", "revoke_key"} : Refuse(p, op)
    /\ UNCHANGED late

Arrive(p) == Login(p) \/ Ensure(p) \/ CreateUser(p) \/ CreateKey(p)
             \/ RevokeKey(p) \/ Search(p) \/ NotAdmitted(p)

-----------------------------------------------------------------------------
(***************************************************************************)
(* Statements                                                              *)
(***************************************************************************)

\* Mutant: the token lives a tick longer than it says.
IssueLonger(p) ==
    /\ place[p] = "issue"
    /\ tokens' = tokens \cup {[sub |-> sess[p].name, role |-> sess[p].role,
                               left |-> Lifetime + 1]}
    /\ End(p)
    /\ UNCHANGED <<tables, alters, histories>>

\* create_access_token: the expiry counts from now, not from the SELECT.
Issue(p) ==
    /\ place[p] = "issue"
    /\ tokens' = tokens \cup {[sub |-> sess[p].name, role |-> sess[p].role,
                               left |-> Lifetime]}
    /\ End(p)
    /\ UNCHANGED <<tables, alters, histories>>

\* Mutant: username is no unique column.
InsertUserTwice(p) ==
    /\ place[p] = "insert" /\ sess[p].op \in {"ensure", "create_user"}
    /\ Goto(p, "commit")
    /\ UNCHANGED <<sess, alters, tables, tokens, histories>>

\* INSERT INTO users, which waits for an uncommitted account of the name: a
\* committed one is a unique violation (500, or a start that fails).
InsertUser(p) ==
    /\ place[p] = "insert" /\ sess[p].op \in {"ensure", "create_user"}
    /\ Inserting(sess[p].name) = {}
    /\ IF Named(sess[p].name) # {}
       THEN End(p) /\ ready' = IF sess[p].op = "ensure" THEN ready \cup {p} ELSE ready
       ELSE Goto(p, "commit") /\ UNCHANGED <<sess, ready>>
    /\ UNCHANGED <<tables, tokens, alters, absent, late>>

InsertKey(p) ==
    /\ place[p] = "insert" /\ sess[p].op = "create_key"
    /\ sess' = [sess EXCEPT ![p].key = p]
    /\ Goto(p, "commit")
    /\ UNCHANGED <<tables, tokens, alters, histories>>

\* Mutant: nothing waits for the searches that use the key.
DeleteKeyAtOnce(p) ==
    /\ place[p] = "delete"
    /\ sess' = [sess EXCEPT ![p].held = sess[p].key \in keys]
    /\ Goto(p, "commit")
    /\ UNCHANGED <<tables, tokens, alters, histories>>

\* DELETE FROM api_keys waits for the row; a row that is gone is no error.
DeleteKey(p) ==
    /\ place[p] = "delete"
    /\ Holders(sess[p].key) = {}
    /\ sess' = [sess EXCEPT ![p].held = sess[p].key \in keys]
    /\ Goto(p, "commit")
    /\ UNCHANGED <<tables, tokens, alters, histories>>

\* external_rate_limiter.allow, see RateLimiter.
CheckLimit(p) ==
    /\ place[p] = "limit"
    /\ \/ Goto(p, "touch") /\ UNCHANGED sess
       \/ End(p)
    /\ UNCHANGED <<tables, tokens, alters, histories>>

\* touch: UPDATE api_keys waits for the row, and updates none if it is gone.
Touch(p) ==
    /\ place[p] = "touch"
    /\ Holders(sess[p].key) = {}
    /\ sess' = [sess EXCEPT ![p].held = sess[p].key \in keys]
    /\ Goto(p, "infer")
    /\ UNCHANGED <<tables, tokens, alters, histories>>

\* Mutant: a session of its own marks the key after the inference.
InferThenTouch(p) ==
    /\ place[p] = "infer"
    /\ Holders(sess[p].key) = {}
    /\ Goto(p, "commit")
    /\ UNCHANGED <<sess, tables, tokens, alters, histories>>

\* identify_top1: an answer and its log entry, or an error of the image.
Infer(p) ==
    /\ place[p] = "infer"
    /\ \/ Goto(p, "commit") /\ UNCHANGED sess
       \/ End(p)
    /\ UNCHANGED <<tables, tokens, alters, histories>>

\* Mutant: nobody commits the session of the lifespan handler.
CommitNothing(p) ==
    /\ place[p] = "commit"
    /\ ready' = IF sess[p].op = "ensure" THEN ready \cup {p} ELSE ready
    /\ End(p)
    /\ UNCHANGED <<tables, tokens, alters, absent, late>>

\* get_db, or the lifespan handler, commits.
Commit(p) ==
    LET s == sess[p]
    IN  /\ place[p] = "commit"
        /\ users' = IF s.op \in {"ensure", "create_user"}
                    THEN [u \in DOMAIN users \cup {p} |->
                            IF u # p THEN users[u]
                            ELSE [name |-> s.name, role |-> s.role, active |-> TRUE]]
                    ELSE users
        /\ keys' = CASE s.op = "create_key" -> keys \cup {p}
                     [] s.op = "revoke_key" -> keys \ {s.key}
                     [] OTHER -> keys
        /\ known' = known \cup keys'
        /\ absent' = IF s.op \in {"ensure", "create_user"} /\ s.role = "admin"
                     THEN [absent EXCEPT ![s.name] = 0] ELSE absent
        /\ ready' = IF s.op = "ensure" THEN ready \cup {p} ELSE ready
        /\ End(p)
        /\ UNCHANGED <<tokens, alters, late>>

\* The database or the worker fails; the session is rolled back.
Fail(p) ==
    /\ place[p] \notin {"idle", "done"}
    /\ End(p)
    /\ UNCHANGED <<tables, tokens, alters, histories>>

Step(p) == Issue(p) \/ InsertUser(p) \/ InsertKey(p) \/ DeleteKey(p)
           \/ CheckLimit(p) \/ Touch(p) \/ Infer(p) \/ Commit(p)

-----------------------------------------------------------------------------
\* Somebody changes an account in the database.
Alter(u) ==
    /\ u \in DOMAIN users
    /\ alters < MaxAlters
    /\ alters' = alters + 1
    /\ \/ \E role \in Roles : users' = [users EXCEPT ![u].role = role]
       \/ users' = [users EXCEPT ![u].active = ~@]
    /\ absent' = [n \in Names |-> IF n = users[u].name /\ ActiveAdmin(n)' THEN 0
                                  ELSE absent[n]]
    /\ UNCHANGED <<keys, known, tokens, sess, place, late, ready>>

Tick ==
    /\ \A p \in Processes : place[p] = "issue" => sess[p].lag < MaxLag
    /\ sess' = [p \in Processes |-> IF place[p] = "issue"
                                    THEN [sess[p] EXCEPT !.lag = @ + 1] ELSE sess[p]]
    /\ tokens' = {[t EXCEPT !.left = @ - 1] : t \in {t \in tokens : t.left > 1}}
    /\ absent' = [n \in Names |-> IF ActiveAdmin(n) THEN 0
                                  ELSE Min({absent[n] + 1, Cap})]
    /\ UNCHANGED <<tables, place, alters, late, ready>>

Next ==
    \/ \E p \in Processes : Arrive(p) \/ Step(p) \/ Fail(p)
    \/ \E u \in UserIds : Alter(u)
    \/ Tick

Spec == Init /\ [][Next]_vars

FairSpec == Spec /\ \A p \in Processes : WF_vars(Step(p))

-----------------------------------------------------------------------------
(***************************************************************************)
(* Properties                                                              *)
(***************************************************************************)

\* The check of create_user and the one of the bootstrap are each a SELECT
\* before an INSERT; still no two accounts have one name, however many workers
\* start while administrators create accounts.
OneAccountPerName == \A n \in Names : Cardinality(Named(n)) <= 1

\* An account that is deactivated, or loses its role, in the database can
\* act as an administrator for the life time of a token (and of a login under
\* way) at most, and no other account ever can.
AccessEndsWithTheToken == late < Cap

\* A search that holds its key's row holds a key that is not revoked: the
\* revocation is answered only after it.
RevocationWaits ==
    \A p \in Processes :
        (place[p] \in {"infer", "commit"} /\ sess[p].op = "search" /\ sess[p].held)
            => sess[p].key \in keys

\* Every worker that came up, and every one that lost the race for the INSERT,
\* leaves the bootstrap account behind it.
BootstrapLeavesTheAccount == ready # {} => Named(Root) # {}

\* The waits for names and key rows always end.
EveryRequestEnds ==
    \A p \in Processes : place[p] # "idle" ~> place[p] = "done"

\* touch is a "best-effort last_used_at update (own transaction, never blocks
\* search)": no search waits for another.
TouchNeverBlocks ==
    \A p, q \in Processes :
        ~ (place[p] = "touch" /\ q \in Holders(sess[p].key) /\ sess[q].op = "search")
=============================================================================
