---------------------------- MODULE RateLimiter -----------------------------
(***************************************************************************)
(* The fixed-window limiter of one key (an API key at /external/search, an *)
(* address at /faces/enroll), hit by threads of several workers.           *)
(*                                                                         *)
(* Each worker resolves its backend once, when it starts: the counter in   *)
(* Redis if it can be reached, else one in its own memory.  In memory the  *)
(* clock is read before the lock is taken.  In Redis a hit is up to three  *)
(* commands; each may raise, executed or not, and then the hit passes.     *)
(* Time is relative: counters age with every Tick.                         *)
(***************************************************************************)
EXTENDS Integers, FiniteSetsExt

CONSTANTS
    Workers,
    Threads,        \* threads that call allow
    WorkerOf,       \* the worker of each thread
    Rates,          \* settings to consider: "N/period", N an integer or None
    PeriodTicks,    \* ticks of the known periods
    DefaultCount,   \* 60, for a setting that is not "N/period"
    MaxLag,         \* bound: ticks between reading the clock and the lock
    MaxFaults,      \* bound: raised commands, and restarts of Redis or workers
    None

ASSUME RateAssumption ==
    /\ WorkerOf \in [Threads -> Workers]
    /\ "redis" \notin Workers
    /\ \A spec \in Rates : spec.count \in Int \cup {None}
    /\ "minute" \in DOMAIN PeriodTicks
    /\ PeriodTicks \in [DOMAIN PeriodTicks -> Nat \ {0}]
    /\ DefaultCount \in Nat \ {0}
    /\ {MaxLag, MaxFaults} \subseteq Nat
    /\ None \notin Int \cup [age : Int, count : Int]

Stores == Workers \cup {"redis"}

VARIABLES
    rate,       \* the setting
    backend,    \* worker -> the store it resolved
    counter,    \* Redis: the value of the key, 0 when absent
    ttl,        \* Redis: ticks until the key expires, 0 for never
    bucket,     \* worker -> its bucket in memory, [age, count] or None
    place,      \* thread -> where it is in allow
    lag,        \* thread -> ticks since it read the clock
    recent,     \* history: store -> n -> hits it granted in the last n ticks
    faults,     \* faults so far
    restarts    \* history: those that emptied a store

redis == <<counter, ttl>>
thread == <<place, lag>>
vars == <<rate, backend, redis, bucket, thread, recent, faults, restarts>>

-----------------------------------------------------------------------------

\* parse_rate: an unknown period is a minute, an unreadable count is "60/minute".
ParseRate(spec) ==
    IF spec.count = None
    THEN [limit |-> DefaultCount, window |-> PeriodTicks["minute"]]
    ELSE [limit |-> spec.count,
          window |-> PeriodTicks[IF spec.period \in DOMAIN PeriodTicks
                                 THEN spec.period ELSE "minute"]]

Limit == ParseRate(rate).limit
Window == ParseRate(rate).window

\* What a store grants in one window: in memory never less than one hit.
Budget(s) == IF s = "redis" THEN Max({0, Limit}) ELSE Max({1, Limit})

\* Beyond the limit all values of the counter are alike.
Saturated(n) == Min({n, Max({1, Limit}) + 1})

Spans == 1 .. Window

\* Beyond this age a bucket is over for every thread.
MaxAge == Window + MaxLag

Bucket == [age : 0 .. MaxAge, count : Nat \ {0}]

TypeOK ==
    /\ rate \in Rates
    /\ backend \in [Workers -> {"redis", "memory"}]
    /\ counter \in 0 .. Saturated(Max({1, Limit}) + 1)
    /\ ttl \in 0 .. Window /\ (counter = 0 => ttl = 0)
    /\ bucket \in [Workers -> Bucket \cup {None}]
    /\ place \in [Threads -> {"idle", "lock", "incr", "ttl", "expire"}]
    /\ lag \in [Threads -> 0 .. MaxLag]
    /\ recent \in [Stores -> [Spans -> Nat]]
    /\ faults \in 0 .. MaxFaults /\ restarts \in 0 .. faults

Init ==
    /\ rate \in Rates
    /\ backend \in [Workers -> {"redis", "memory"}]
    /\ counter = 0 /\ ttl = 0
    /\ bucket = [w \in Workers |-> None]
    /\ place = [t \in Threads |-> "idle"]
    /\ lag = [t \in Threads |-> 0]
    /\ recent = [s \in Stores |-> [n \in Spans |-> 0]]
    /\ faults = 0 /\ restarts = 0

Grant(s) == recent' = [recent EXCEPT ![s] = [n \in Spans |-> @[n] + 1]]

\* The thread has its answer.
Done(t) ==
    /\ place' = [place EXCEPT ![t] = "idle"]
    /\ lag' = [lag EXCEPT ![t] = 0]

Goto(t, p) == place' = [place EXCEPT ![t] = p] /\ UNCHANGED lag

-----------------------------------------------------------------------------
(***************************************************************************)
(* A hit                                                                   *)
(***************************************************************************)

\* allow is entered; in memory it reads the clock at once.
Enter(t) ==
    /\ place[t] = "idle"
    /\ Goto(t, IF backend[WorkerOf[t]] = "redis" THEN "incr" ELSE "lock")
    /\ UNCHANGED <<rate, backend, redis, bucket, recent, faults, restarts>>

\* Mutant: a new bucket starts at zero.
CountInMemoryFromZero(t) ==
    LET w == WorkerOf[t]
        b == bucket[w]
    IN  /\ place[t] = "lock"
        /\ Done(t)
        /\ IF b = None \/ b.age - lag[t] >= Window
           THEN /\ bucket' = [bucket EXCEPT ![w] = [age |-> lag[t], count |-> 0]]
                /\ Grant(w)
           ELSE IF b.count >= Limit
           THEN UNCHANGED <<bucket, recent>>
           ELSE /\ bucket' = [bucket EXCEPT ![w].count = @ + 1]
                /\ Grant(w)
        /\ UNCHANGED <<rate, backend, redis, faults, restarts>>

\* InProcessKeyRateLimiter under its lock: a new window, over budget, or a hit.
CountInMemory(t) ==
    LET w == WorkerOf[t]
        b == bucket[w]
    IN  /\ place[t] = "lock"
        /\ Done(t)
        /\ IF b = None \/ b.age - lag[t] >= Window
           THEN /\ bucket' = [bucket EXCEPT ![w] = [age |-> lag[t], count |-> 1]]
                /\ Grant(w)
           ELSE IF b.count >= Limit
           THEN UNCHANGED <<bucket, recent>>
           ELSE /\ bucket' = [bucket EXCEPT ![w].count = @ + 1]
                /\ Grant(w)
        /\ UNCHANGED <<rate, backend, redis, faults, restarts>>

\* Mutant: only a later hit looks after the expiry.
IncrAtRest(t) ==
    /\ place[t] = "incr"
    /\ counter' = Saturated(counter + 1)
    /\ IF counter + 1 <= Limit THEN Grant("redis") ELSE UNCHANGED recent
    /\ Goto(t, IF counter = 0 THEN "idle" ELSE "ttl")
    /\ UNCHANGED <<rate, backend, ttl, bucket, faults, restarts>>

\* INCR.  A hit within the limit is granted, whatever its thread does next.
Incr(t) ==
    /\ place[t] = "incr"
    /\ counter' = Saturated(counter + 1)
    /\ IF counter + 1 <= Limit THEN Grant("redis") ELSE UNCHANGED recent
    /\ Goto(t, IF counter = 0 THEN "expire" ELSE "ttl")
    /\ UNCHANGED <<rate, backend, ttl, bucket, faults, restarts>>

\* Mutant: every hit renews the expiry.
CheckTtlRenew(t) ==
    /\ place[t] = "ttl"
    /\ Goto(t, "expire")
    /\ UNCHANGED <<rate, backend, redis, bucket, recent, faults, restarts>>

\* TTL: a key without expiry, or gone since, is given one.
CheckTtl(t) ==
    /\ place[t] = "ttl"
    /\ IF ttl = 0
       THEN Goto(t, "expire")
       ELSE Done(t)
    /\ UNCHANGED <<rate, backend, redis, bucket, recent, faults, restarts>>

\* EXPIRE, without effect on a key that is gone.
Expire(t) ==
    /\ place[t] = "expire"
    /\ ttl' = IF counter = 0 THEN 0 ELSE Window
    /\ Done(t)
    /\ UNCHANGED <<rate, backend, counter, bucket, recent, faults, restarts>>

\* A command to Redis raises, executed or not: the hit passes, uncounted.
FailOpen(t) ==
    /\ faults < MaxFaults
    /\ faults' = faults + 1
    /\ place[t] \in {"incr", "ttl", "expire"}
    /\ \/ UNCHANGED redis
       \/ place[t] = "incr" /\ counter' = Saturated(counter + 1) /\ UNCHANGED ttl
       \/ place[t] = "expire" /\ counter # 0 /\ ttl' = Window /\ UNCHANGED counter
    /\ Done(t)
    /\ UNCHANGED <<rate, backend, bucket, recent, restarts>>

-----------------------------------------------------------------------------
(***************************************************************************)
(* Time, and restarts                                                      *)
(***************************************************************************)

\* A tick: the key may expire, buckets and pending threads age.
Tick ==
    /\ \A t \in Threads : place[t] = "lock" => lag[t] < MaxLag
    /\ lag' = [t \in Threads |-> IF place[t] = "lock" THEN lag[t] + 1 ELSE 0]
    /\ IF ttl = 1 THEN counter' = 0 /\ ttl' = 0
                  ELSE ttl' = Max({0, ttl - 1}) /\ UNCHANGED counter
    /\ bucket' = [w \in Workers |->
          IF bucket[w] = None THEN None
          ELSE [bucket[w] EXCEPT !.age = Min({@ + 1, MaxAge})]]
    /\ recent' = [s \in Stores |->
          [n \in Spans |-> IF n = 1 THEN 0 ELSE recent[s][n - 1]]]
    /\ UNCHANGED <<rate, backend, place, faults, restarts>>

\* Redis restarts: nothing is persisted (save "", appendonly no).
RestartRedis ==
    /\ faults < MaxFaults
    /\ faults' = faults + 1
    /\ restarts' = restarts + 1
    /\ counter' = 0 /\ ttl' = 0
    /\ UNCHANGED <<rate, backend, bucket, thread, recent>>

\* A worker dies with its threads, starts again and resolves Redis anew.
RestartWorker(w) ==
    /\ faults < MaxFaults
    /\ faults' = faults + 1
    /\ restarts' = restarts + 1
    /\ \E b \in {"redis", "memory"} : backend' = [backend EXCEPT ![w] = b]
    /\ bucket' = [bucket EXCEPT ![w] = None]
    /\ place' = [t \in Threads |-> IF WorkerOf[t] = w THEN "idle" ELSE place[t]]
    /\ lag' = [t \in Threads |-> IF WorkerOf[t] = w THEN 0 ELSE lag[t]]
    /\ UNCHANGED <<rate, redis, recent>>

Step(t) == CountInMemory(t) \/ Incr(t) \/ CheckTtl(t) \/ Expire(t)

Next ==
    \/ \E t \in Threads : Enter(t) \/ Step(t) \/ FailOpen(t)
    \/ \E w \in Workers : RestartWorker(w)
    \/ RestartRedis
    \/ Tick

Spec == Init /\ [][Next]_vars

\* Time passes, threads run, and clients do not stop calling.
FairSpec == /\ Spec
            /\ WF_vars(Tick)
            /\ \A t \in Threads : WF_vars(Enter(t) \/ Step(t))

-----------------------------------------------------------------------------
(***************************************************************************)
(* Properties                                                              *)
(***************************************************************************)

\* Over any stretch as long as a window a store grants at most two budgets,
\* one more for each restart that emptied it: concurrent first hits, late
\* EXPIREs and repairs never open a window early.  In memory a thread may be
\* late for its lock by MaxLag, which shortens the stretch by as much.
BudgetPerSpan ==
    \A s \in Stores, n \in Spans :
        n <= (IF s = "redis" THEN Window ELSE Window - MaxLag) =>
            recent[s][n] <= (2 + restarts) * Budget(s)

\* A counter without expiry has a thread that is about to give it one, unless
\* that thread met a fault.
ExpiryIsOnItsWay ==
    (counter > 0 /\ ttl = 0 /\ faults = 0) =>
        \E t \in Threads : place[t] = "expire"

\* Nobody is locked out for ever: a counter in Redis that has reached the limit
\* expires, although callers keep hitting it and one may have died between INCR
\* and EXPIRE.  (A counter that no worker uses any more is in nobody's way.)
FreeAgain ==
    (counter > 0 /\ counter >= Limit) ~>
        (counter = 0 \/ \A w \in Workers : backend[w] = "memory")
=============================================================================
