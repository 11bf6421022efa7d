------------------------- MODULE RateLimiterProofs -------------------------
(***************************************************************************)
(* Proofs about RateLimiter, for any workers and threads, any setting and  *)
(* any number of faults.                                                   *)
(*                                                                         *)
(* The argument: what a store granted lately is what its present window    *)
(* granted and, for the spans that reach back before that window, one      *)
(* more budget.  A window that ends was open for as long as a window       *)
(* lasts, in memory for MaxLag less, so that then no span reaches back     *)
(* before it and the budget is free for the next one.                      *)
(***************************************************************************)
EXTENDS RateLimiter, TLAPS

\* What k windows grant.
Credit(k, s) == k * Budget(s)

\* What the present window of Redis has granted at most.
Own == Min({counter, Budget("redis")})

RedisBudget ==
    /\ \A n \in Spans : recent["redis"][n] <= Credit(restarts + 1, "redis") + Own
    /\ ttl > 0 => \A n \in Spans :
          n <= Window - ttl => recent["redis"][n] <= Credit(restarts, "redis") + Own

\* The same for the bucket of a worker; its window began up to MaxLag before
\* its first hit was granted.
OwnOf(w) == IF bucket[w] = None THEN 0 ELSE bucket[w].count

MemoryBudget(w) ==
    /\ OwnOf(w) <= Budget(w)
    /\ \A n \in Spans : n <= Window - MaxLag =>
          recent[w][n] <= Credit(restarts + 1, w) + OwnOf(w)
    /\ bucket[w] # None => \A n \in Spans :
          n <= Window - MaxLag /\ n <= bucket[w].age - MaxLag =>
              recent[w][n] <= Credit(restarts, w) + OwnOf(w)

IInv ==
    /\ TypeOK
    /\ RedisBudget
    /\ \A w \in Workers : MemoryBudget(w)
    /\ ExpiryIsOnItsWay

-----------------------------------------------------------------------------
(***************************************************************************)
(* The setting                                                             *)
(***************************************************************************)

LEMMA Larger ==
    ASSUME NEW a \in Int, NEW b \in Int
    PROVE  Max({a, b}) = IF a >= b THEN a ELSE b
<1> DEFINE m == IF a >= b THEN a ELSE b
<1>1. m \in {a, b} /\ \A y \in {a, b} : m >= y
  OBVIOUS
<1>2. \A x \in {a, b} : (\A y \in {a, b} : x >= y) => x = m
  OBVIOUS
<1> HIDE DEF m
<1>3. Max({a, b}) = m
  BY <1>1, <1>2 DEF Max
<1>4. QED  BY <1>3 DEF m

LEMMA Smaller ==
    ASSUME NEW a \in Int, NEW b \in Int
    PROVE  Min({a, b}) = IF a <= b THEN a ELSE b
<1> DEFINE m == IF a <= b THEN a ELSE b
<1>1. m \in {a, b} /\ \A y \in {a, b} : m <= y
  OBVIOUS
<1>2. \A x \in {a, b} : (\A y \in {a, b} : x <= y) => x = m
  OBVIOUS
<1> HIDE DEF m
<1>3. Min({a, b}) = m
  BY <1>1, <1>2 DEF Min
<1>4. QED  BY <1>3 DEF m

\* Whatever the setting, a window lasts and a budget is a number.
LEMMA Settings ==
    ASSUME rate \in Rates
    PROVE  /\ Limit \in Int /\ Window \in Nat \ {0}
           /\ Spans \subseteq Nat \ {0}
           /\ \A s \in Stores : Budget(s) \in Nat
           /\ Budget("redis") = IF Limit >= 0 THEN Limit ELSE 0
           /\ \A w \in Workers : Budget(w) = IF Limit >= 1 THEN Limit ELSE 1
           /\ Max({1, Limit}) = IF Limit >= 1 THEN Limit ELSE 1
<1>1. Limit \in Int /\ Window \in Nat \ {0}
  <2>1. rate.count \in Int \cup {None} /\ DefaultCount \in Int
    BY RateAssumption
  <2>2. \A p \in DOMAIN PeriodTicks : PeriodTicks[p] \in Nat \ {0}
    BY RateAssumption
  <2>3. QED  BY <2>1, <2>2, RateAssumption DEF Limit, Window, ParseRate
<1>2. /\ Max({1, Limit}) = IF Limit >= 1 THEN Limit ELSE 1
      /\ Max({0, Limit}) = IF Limit >= 0 THEN Limit ELSE 0
  <2>1. /\ Max({1, Limit}) = IF 1 >= Limit THEN 1 ELSE Limit
        /\ Max({0, Limit}) = IF 0 >= Limit THEN 0 ELSE Limit
    BY <1>1, Larger
  <2>2. QED  BY <1>1, <2>1
<1>3. /\ Budget("redis") = IF Limit >= 0 THEN Limit ELSE 0
      /\ \A w \in Workers : Budget(w) = IF Limit >= 1 THEN Limit ELSE 1
  BY <1>2, RateAssumption DEF Budget
<1>4. Spans \subseteq Nat \ {0}
  BY <1>1 DEF Spans
<1>5. \A s \in Stores : Budget(s) \in Nat
  BY <1>1, <1>3 DEF Stores
<1>6. QED  BY <1>1, <1>2, <1>3, <1>4, <1>5

\* The setting never changes.
LEMMA SameSetting ==
    ASSUME rate' = rate
    PROVE  /\ Limit' = Limit /\ Window' = Window /\ Spans' = Spans
           /\ MaxAge' = MaxAge /\ Bucket' = Bucket
           /\ \A s : Budget(s)' = Budget(s)
           /\ \A k, s : Credit(k, s)' = Credit(k, s)
           /\ \A n : Saturated(n)' = Saturated(n)
<1>1. Limit' = Limit /\ Window' = Window
  BY DEF Limit, Window, ParseRate
<1>2. Spans' = Spans /\ MaxAge' = MaxAge /\ Bucket' = Bucket
  BY <1>1 DEF Spans, MaxAge, Bucket
<1>3. /\ \A s : Budget(s)' = Budget(s)
      /\ \A n : Saturated(n)' = Saturated(n)
  BY <1>1 DEF Budget, Saturated
<1>4. \A k, s : Credit(k, s)' = Credit(k, s)
  BY <1>3 DEF Credit
<1>5. QED  BY <1>1, <1>2, <1>3, <1>4

LEMMA Credits ==
    ASSUME rate \in Rates, NEW s \in Stores, NEW k \in Nat
    PROVE  /\ Credit(k, s) \in Nat
           /\ Credit(k + 1, s) = Credit(k, s) + Budget(s)
           /\ Credit(0, s) = 0
<1>1. PICK b \in Nat : b = Budget(s)
  BY Settings
<1>2. k * b \in Nat /\ (k + 1) * b = k * b + b /\ 0 * b = 0
  OBVIOUS
<1>3. QED  BY <1>1, <1>2 DEF Credit

LEMMA OwnIs ==
    ASSUME rate \in Rates, counter \in Nat
    PROVE  /\ Own = IF counter <= Budget("redis") THEN counter ELSE Budget("redis")
           /\ Own \in Nat /\ Own <= Budget("redis")
<1>1. Budget("redis") \in Nat
  BY Settings DEF Stores
<1>2. Own = IF counter <= Budget("redis") THEN counter ELSE Budget("redis")
  BY <1>1, Smaller DEF Own
<1>3. QED  BY <1>1, <1>2

\* What the counter saturates at is out of reach of the limit.
LEMMA SaturatedIs ==
    ASSUME rate \in Rates, NEW n \in Nat
    PROVE  LET cap == (IF Limit >= 1 THEN Limit ELSE 1) + 1
           IN  Saturated(n) = IF n <= cap THEN n ELSE cap
<1> DEFINE cap == (IF Limit >= 1 THEN Limit ELSE 1) + 1
<1>1. cap \in Int /\ Max({1, Limit}) + 1 = cap
  BY Settings
<1> HIDE DEF cap
<1>2. Saturated(n) = Min({n, cap})
  BY <1>1 DEF Saturated
<1>3. Min({n, cap}) = IF n <= cap THEN n ELSE cap
  BY <1>1, Smaller
<1>4. QED  BY <1>2, <1>3 DEF cap

\* INCR: the counter counts up to beyond the limit.
LEMMA Counted ==
    ASSUME TypeOK, rate' = rate, counter' = Saturated(counter + 1)
    PROVE  /\ counter' \in Nat /\ counter' > 0
           /\ counter' \in 0 .. Saturated(Max({1, Limit}) + 1)
           /\ Own' \in Nat /\ Own <= Own'
           /\ counter + 1 <= Limit => Own' = Own + 1
           /\ counter \in Nat /\ Own \in Nat
<1> DEFINE cap == (IF Limit >= 1 THEN Limit ELSE 1) + 1
<1>1. /\ Limit \in Int /\ rate \in Rates /\ Max({1, Limit}) + 1 = cap
      /\ Budget("redis") = IF Limit >= 0 THEN Limit ELSE 0
      /\ cap \in Nat \ {0}
  BY Settings DEF TypeOK
<1>2. Saturated(Max({1, Limit}) + 1) = cap
  BY <1>1, SaturatedIs
<1>3. counter \in 0 .. cap
  BY <1>2 DEF TypeOK
<1>4. counter' = IF counter + 1 <= cap THEN counter + 1 ELSE cap
  BY <1>1, <1>3, SaturatedIs
<1>5. counter' \in 1 .. cap
  BY <1>1, <1>3, <1>4
<1>6. Own = IF counter <= Budget("redis") THEN counter ELSE Budget("redis")
  BY <1>1, <1>3, OwnIs
<1>7. Own' = IF counter' <= Budget("redis") THEN counter' ELSE Budget("redis")
  <2>1. Own' = Min({counter', Budget("redis")})
    BY SameSetting DEF Own
  <2>2. Budget("redis") \in Int /\ counter' \in Int
    BY <1>1, <1>5
  <2>3. QED  BY <2>1, <2>2, Smaller
<1>8. QED  BY <1>1, <1>2, <1>3, <1>4, <1>5, <1>6, <1>7

-----------------------------------------------------------------------------
(***************************************************************************)
(* What leaves a store alone, and what a grant does                        *)
(***************************************************************************)

LEMMA RedisKept ==
    ASSUME RedisBudget, rate' = rate, restarts' = restarts,
           UNCHANGED redis, recent'["redis"] = recent["redis"]
    PROVE  RedisBudget'
<1>1. Own' = Own
  BY SameSetting DEF Own, redis
<1>2. QED  BY <1>1, SameSetting DEF RedisBudget, redis

LEMMA MemoryKept ==
    ASSUME NEW w \in Workers, MemoryBudget(w), rate' = rate, restarts' = restarts,
           bucket'[w] = bucket[w], recent'[w] = recent[w]
    PROVE  MemoryBudget(w)'
BY SameSetting DEF MemoryBudget, OwnOf

LEMMA GrantIs ==
    ASSUME TypeOK, NEW s \in Stores, Grant(s)
    PROVE  /\ recent' \in [Stores -> [Spans -> Nat]]
           /\ \A n \in Spans : recent'[s][n] = recent[s][n] + 1 /\ recent[s][n] \in Nat
           /\ \A o \in Stores \ {s} : recent'[o] = recent[o]
<1>1. recent \in [Stores -> [Spans -> Nat]]
  BY DEF TypeOK
<1>2. recent' = [recent EXCEPT ![s] = [n \in Spans |-> recent[s][n] + 1]]
  BY DEF Grant
<1>3. [n \in Spans |-> recent[s][n] + 1] \in [Spans -> Nat]
  BY <1>1
<1>4. QED  BY <1>1, <1>2, <1>3

LEMMA BucketIsNotNone == None \notin Bucket
<1>1. None \notin [age : Int, count : Int]
  BY RateAssumption
<1>2. Bucket \subseteq [age : Int, count : Int]
  BY DEF Bucket
<1>3. QED  BY <1>1, <1>2

\* The parts of the types that a step leaves alone.
LEMMA TypeKept ==
    ASSUME TypeOK, rate' = rate,
           backend' \in [Workers -> {"redis", "memory"}],
           counter' \in 0 .. Saturated(Max({1, Limit}) + 1),
           ttl' \in 0 .. Window, counter' = 0 => ttl' = 0,
           bucket' \in [Workers -> Bucket \cup {None}],
           place' \in [Threads -> {"idle", "lock", "incr", "ttl", "expire"}],
           lag' \in [Threads -> 0 .. MaxLag],
           recent' \in [Stores -> [Spans -> Nat]],
           faults' \in 0 .. MaxFaults, restarts' \in 0 .. faults'
    PROVE  TypeOK'
<1>1. Saturated(Max({1, Limit}) + 1)' = Saturated(Max({1, Limit}) + 1)
  BY SameSetting DEF Saturated
<1>2. QED  BY <1>1, SameSetting DEF TypeOK

-----------------------------------------------------------------------------
(***************************************************************************)
(* One lemma per action                                                    *)
(***************************************************************************)

LEMMA InitInv == Init => IInv
<1>1. SUFFICES ASSUME Init PROVE IInv
  OBVIOUS
<1>2. /\ rate \in Rates /\ counter = 0 /\ ttl = 0 /\ restarts = 0 /\ faults = 0
      /\ bucket = [w \in Workers |-> None]
      /\ recent = [s \in Stores |-> [n \in Spans |-> 0]]
      /\ Window \in Nat \ {0} /\ Spans \subseteq Nat \ {0} /\ Limit \in Int
      /\ MaxLag \in Nat /\ MaxFaults \in Nat /\ "redis" \in Stores /\ Workers \subseteq Stores
  BY <1>1, Settings, RateAssumption DEF Init, Stores
<1>3. TypeOK
  <2>1. 0 \in 0 .. Saturated(Max({1, Limit}) + 1)
    <3>1. Max({1, Limit}) + 1 \in Nat
      BY <1>2, Settings
    <3>2. QED  BY <1>2, <3>1, SaturatedIs
  <2>2. QED  BY <1>1, <1>2, <2>1 DEF Init, TypeOK
<1>4. \A s \in Stores : Credit(1, s) \in Nat /\ Budget(s) \in Nat
  BY <1>2, Credits, Settings
<1>5. RedisBudget
  <2>1. Own \in Nat
    BY <1>2, OwnIs
  <2>2. restarts + 1 = 1
    BY <1>2
  <2>3. QED  BY <1>2, <1>4, <2>1, <2>2 DEF RedisBudget
<1>6. ASSUME NEW w \in Workers
      PROVE  MemoryBudget(w)
  <2>1. restarts + 1 = 1 /\ bucket[w] = None /\ OwnOf(w) = 0
    BY <1>2 DEF OwnOf
  <2>2. QED  BY <1>2, <1>4, <2>1 DEF MemoryBudget
<1>7. ExpiryIsOnItsWay
  BY <1>2 DEF ExpiryIsOnItsWay
<1>8. QED  BY <1>3, <1>5, <1>6, <1>7 DEF IInv

LEMMA EnterInv ==
    ASSUME IInv, NEW t \in Threads, Enter(t)
    PROVE  IInv'
<1>1. /\ UNCHANGED <<rate, backend, redis, bucket, recent, faults, restarts>>
      /\ place[t] = "idle" /\ UNCHANGED lag /\ TypeOK
      /\ \E p \in {"incr", "lock"} : place' = [place EXCEPT ![t] = p]
  BY DEF Enter, Goto, IInv
<1>2. TypeOK'
  BY <1>1, TypeKept DEF TypeOK, redis
<1>3. RedisBudget' /\ \A w \in Workers : MemoryBudget(w)'
  BY <1>1, RedisKept, MemoryKept DEF IInv
<1>4. ExpiryIsOnItsWay'
  BY <1>1 DEF IInv, ExpiryIsOnItsWay, redis, TypeOK
<1>5. QED  BY <1>2, <1>3, <1>4 DEF IInv

\* A bucket that is over was open for a window less MaxLag, and what it granted
\* is within one budget: the next one opens with that much behind it.
LEMMA CountInMemoryInv ==
    ASSUME IInv, NEW t \in Threads, CountInMemory(t)
    PROVE  IInv'
<1> DEFINE w == WorkerOf[t]
           b == bucket[w]
<1>1. /\ place[t] = "lock" /\ TypeOK /\ w \in Workers /\ w \in Stores /\ w # "redis"
      /\ "redis" \in Stores /\ Workers \subseteq Stores
      /\ UNCHANGED <<rate, backend, redis, faults, restarts>>
      /\ place' = [place EXCEPT ![t] = "idle"] /\ lag' = [lag EXCEPT ![t] = 0]
      /\ lag[t] \in 0 .. MaxLag /\ MaxLag \in Nat /\ b \in Bucket \cup {None}
      /\ bucket \in [Workers -> Bucket \cup {None}]
  <2>1. /\ w \in Workers /\ w \in Stores /\ w # "redis" /\ MaxLag \in Nat
        /\ "redis" \in Stores /\ Workers \subseteq Stores
    BY RateAssumption DEF Stores
  <2>2. /\ place[t] = "lock" /\ UNCHANGED <<rate, backend, redis, faults, restarts>>
        /\ place' = [place EXCEPT ![t] = "idle"] /\ lag' = [lag EXCEPT ![t] = 0]
    BY DEF CountInMemory, Done
  <2>3. /\ TypeOK /\ lag[t] \in 0 .. MaxLag
        /\ bucket \in [Workers -> Bucket \cup {None}]
    BY DEF IInv, TypeOK
  <2>4. QED  BY <2>1, <2>2, <2>3
<1>2. /\ Window \in Nat \ {0} /\ Spans \subseteq Nat \ {0} /\ Limit \in Int
      /\ Budget(w) = (IF Limit >= 1 THEN Limit ELSE 1)
      /\ rate \in Rates /\ restarts \in Nat
  BY <1>1, Settings DEF TypeOK
<1>3. /\ Credit(restarts, w) \in Nat
      /\ Credit(restarts + 1, w) = Credit(restarts, w) + Budget(w)
  BY <1>1, <1>2, Credits
<1>4. MemoryBudget(w)
  BY <1>1 DEF IInv
<1>5. \/ UNCHANGED <<bucket, recent>>
      \/ /\ Grant(w)
         /\ \/ /\ b = None \/ b.age - lag[t] >= Window
               /\ bucket' = [bucket EXCEPT ![w] = [age |-> lag[t], count |-> 1]]
            \/ /\ b # None /\ ~(b.age - lag[t] >= Window) /\ ~(b.count >= Limit)
               /\ bucket' = [bucket EXCEPT ![w].count = @ + 1]
  BY DEF CountInMemory
<1>6. CASE UNCHANGED <<bucket, recent>>
  <2>1. TypeOK'
    BY <1>1, <1>2, <1>6, TypeKept DEF TypeOK, redis
  <2>2. RedisBudget' /\ \A v \in Workers : MemoryBudget(v)'
    BY <1>1, <1>6, RedisKept, MemoryKept DEF IInv
  <2>3. ExpiryIsOnItsWay'
    BY <1>1 DEF IInv, ExpiryIsOnItsWay, redis, TypeOK
  <2>4. QED  BY <2>1, <2>2, <2>3 DEF IInv
<1>7. CASE /\ Grant(w)
           /\ bucket' \in [Workers -> Bucket \cup {None}]
           /\ \A v \in Workers \ {w} : bucket'[v] = bucket[v]
           /\ MemoryBudget(w)'
  <2>1. /\ recent' \in [Stores -> [Spans -> Nat]]
        /\ \A o \in Stores \ {w} : recent'[o] = recent[o]
    BY <1>1, <1>7, GrantIs
  <2>2. TypeOK'
    BY <1>1, <1>2, <1>7, <2>1, TypeKept DEF TypeOK, redis
  <2>3. RedisBudget'
    BY <1>1, <2>1, RedisKept DEF IInv
  <2>4. \A v \in Workers : MemoryBudget(v)'
    BY <1>1, <1>7, <2>1, MemoryKept DEF IInv
  <2>5. ExpiryIsOnItsWay'
    BY <1>1 DEF IInv, ExpiryIsOnItsWay, redis, TypeOK
  <2>6. QED  BY <2>2, <2>3, <2>4, <2>5 DEF IInv
<1>8. ASSUME Grant(w), b = None \/ b.age - lag[t] >= Window,
             bucket' = [bucket EXCEPT ![w] = [age |-> lag[t], count |-> 1]]
      PROVE  IInv'
  <2> DEFINE c == [age |-> lag[t], count |-> 1]
  <2>1. c \in Bucket /\ bucket' = [bucket EXCEPT ![w] = c] /\ c.count = 1 /\ c.age = lag[t]
    BY <1>1, <1>2, <1>8 DEF Bucket, MaxAge
  <2>2. c # None
    BY <2>1, BucketIsNotNone
  <2> HIDE DEF c
  <2>3. /\ bucket' \in [Workers -> Bucket \cup {None}]
        /\ \A v \in Workers \ {w} : bucket'[v] = bucket[v]
        /\ bucket'[w] = c /\ OwnOf(w)' = 1
    BY <1>1, <2>1, <2>2 DEF OwnOf
  <2>4. \A n \in Spans : n <= Window - MaxLag =>
            recent[w][n] <= Credit(restarts, w) + Budget(w)
    <3>1. CASE b = None
      BY <1>2, <1>3, <1>4, <3>1 DEF MemoryBudget, OwnOf
    <3>2. CASE b # None /\ b.age - lag[t] >= Window
      <4>1. /\ OwnOf(w) = b.count /\ b.count \in Nat /\ b.count <= Budget(w)
            /\ b.age \in Int /\ b.age >= Window
        BY <1>1, <1>2, <1>4, <3>2 DEF MemoryBudget, OwnOf, Bucket
      <4>2. \A n \in Spans : n <= Window - MaxLag => n <= b.age - MaxLag
        BY <1>1, <1>2, <4>1
      <4>3. \A n \in Spans : n <= Window - MaxLag =>
                recent[w][n] <= Credit(restarts, w) + b.count
        BY <1>4, <3>2, <4>1, <4>2 DEF MemoryBudget
      <4>4. \A n \in Spans : recent[w][n] \in Nat
        BY <1>1 DEF TypeOK
      <4>5. QED  BY <1>2, <1>3, <4>1, <4>3, <4>4
    <3>3. QED  BY <1>8, <3>1, <3>2
  <2>5. MemoryBudget(w)'
    <3>1. \A n \in Spans : recent'[w][n] = recent[w][n] + 1 /\ recent[w][n] \in Nat
      BY <1>1, <1>8, GrantIs
    <3>2. \A n \in Spans : n <= Window - MaxLag =>
              recent'[w][n] <= Credit(restarts + 1, w) + 1
      BY <1>2, <1>3, <2>4, <3>1
    <3>3. \A n \in Spans : ~(n <= c.age - MaxLag)
      BY <1>1, <1>2, <2>1
    <3>4. 1 <= Budget(w)
      BY <1>2
    <3>5. QED  BY <1>1, <2>3, <3>2, <3>3, <3>4, SameSetting DEF MemoryBudget
  <2>6. QED  BY <1>7, <1>8, <2>3, <2>5
<1>9. ASSUME Grant(w), b # None, ~(b.age - lag[t] >= Window), ~(b.count >= Limit),
             bucket' = [bucket EXCEPT ![w].count = @ + 1]
      PROVE  IInv'
  <2>1. b \in Bucket /\ b.count \in Nat \ {0} /\ b.age \in 0 .. MaxAge
    BY <1>1, <1>9 DEF Bucket
  <2> DEFINE c == [b EXCEPT !.count = @ + 1]
  <2>2. c \in Bucket /\ c.count = b.count + 1 /\ c.age = b.age
        /\ bucket' = [bucket EXCEPT ![w] = c]
    BY <1>1, <1>9, <2>1 DEF Bucket
  <2>3. c # None
    BY <2>2, BucketIsNotNone
  <2> HIDE DEF c
  <2>4. /\ bucket' \in [Workers -> Bucket \cup {None}]
        /\ \A v \in Workers \ {w} : bucket'[v] = bucket[v]
        /\ bucket'[w] = c /\ OwnOf(w)' = b.count + 1 /\ OwnOf(w) = b.count
    BY <1>1, <1>9, <2>2, <2>3 DEF OwnOf
  <2>5. MemoryBudget(w)'
    <3>1. \A n \in Spans : recent'[w][n] = recent[w][n] + 1 /\ recent[w][n] \in Nat
      BY <1>1, <1>9, GrantIs
    <3>2. \A n \in Spans : n <= Window - MaxLag =>
              recent'[w][n] <= Credit(restarts + 1, w) + (b.count + 1)
      BY <1>2, <1>3, <1>4, <2>1, <2>4, <3>1 DEF MemoryBudget
    <3>3. \A n \in Spans : n <= Window - MaxLag /\ n <= c.age - MaxLag =>
              recent'[w][n] <= Credit(restarts, w) + (b.count + 1)
      BY <1>3, <1>4, <1>9, <2>1, <2>2, <2>4, <3>1 DEF MemoryBudget
    <3>4. b.count + 1 <= Budget(w)
      BY <1>2, <1>9, <2>1
    <3>5. QED  BY <1>1, <2>4, <3>2, <3>3, <3>4, SameSetting DEF MemoryBudget
  <2>6. QED  BY <1>7, <1>9, <2>4, <2>5
<1>10. QED  BY <1>5, <1>6, <1>8, <1>9

\* A command to Redis: the memory of the workers is left alone.
LEMMA CommandInv ==
    ASSUME IInv, rate' = rate, restarts' = restarts,
           UNCHANGED <<backend, bucket>>, faults' \in 0 .. MaxFaults,
           restarts <= faults', faults' \in Nat,
           counter' \in 0 .. Saturated(Max({1, Limit}) + 1),
           ttl' \in 0 .. Window, counter' = 0 => ttl' = 0,
           place' \in [Threads -> {"idle", "lock", "incr", "ttl", "expire"}],
           lag' \in [Threads -> 0 .. MaxLag],
           UNCHANGED recent \/ Grant("redis"),
           RedisBudget', ExpiryIsOnItsWay'
    PROVE  IInv'
<1>1. TypeOK /\ "redis" \in Stores /\ Workers \subseteq Stores \ {"redis"}
  BY RateAssumption DEF IInv, Stores
<1>2. /\ recent' \in [Stores -> [Spans -> Nat]]
      /\ \A o \in Stores \ {"redis"} : recent'[o] = recent[o]
  BY <1>1, GrantIs DEF TypeOK
<1>3. TypeOK'
  <2>1. restarts' \in 0 .. faults'
    BY <1>1 DEF TypeOK
  <2>2. /\ backend' \in [Workers -> {"redis", "memory"}]
        /\ bucket' \in [Workers -> Bucket \cup {None}]
    BY <1>1 DEF TypeOK
  <2>3. QED  BY <1>1, <1>2, <2>1, <2>2, TypeKept
<1>4. \A w \in Workers : MemoryBudget(w)'
  BY <1>1, <1>2, MemoryKept DEF IInv
<1>5. QED  BY <1>3, <1>4 DEF IInv

LEMMA Known ==
    ASSUME IInv
    PROVE  /\ TypeOK /\ rate \in Rates /\ Window \in Nat \ {0} /\ Spans \subseteq Nat \ {0}
           /\ "redis" \in Stores /\ restarts \in Nat /\ faults \in Nat
           /\ faults \in 0 .. MaxFaults /\ restarts <= faults /\ MaxFaults \in Nat
           /\ MaxLag \in Nat /\ ttl \in Nat /\ ttl \in 0 .. Window /\ counter \in Nat
           /\ counter = 0 => ttl = 0
           /\ counter \in 0 .. Saturated(Max({1, Limit}) + 1)
           /\ Saturated(Max({1, Limit}) + 1) \in Nat
           /\ place \in [Threads -> {"idle", "lock", "incr", "ttl", "expire"}]
           /\ lag \in [Threads -> 0 .. MaxLag]
           /\ RedisBudget /\ Own \in Nat /\ Own <= Budget("redis")
           /\ Credit(restarts, "redis") \in Nat /\ Budget("redis") \in Nat
           /\ Credit(restarts + 1, "redis") = Credit(restarts, "redis") + Budget("redis")
<1>1. TypeOK /\ rate \in Rates /\ RedisBudget
  BY DEF IInv, TypeOK
<1>2. Window \in Nat \ {0} /\ Spans \subseteq Nat \ {0} /\ "redis" \in Stores /\ Limit \in Int
  BY <1>1, Settings DEF Stores
<1>3. MaxFaults \in Nat /\ MaxLag \in Nat
  BY RateAssumption
<1>4. /\ faults \in 0 .. MaxFaults /\ restarts \in 0 .. faults
      /\ counter \in 0 .. Saturated(Max({1, Limit}) + 1)
      /\ ttl \in 0 .. Window /\ (counter = 0 => ttl = 0)
  BY <1>1 DEF TypeOK
<1>5. counter \in Nat
  BY <1>4
<1>6. restarts \in Nat /\ faults \in Nat /\ restarts <= faults
  BY <1>3, <1>4
<1>7. ttl \in Nat
  BY <1>2, <1>4
<1>8. /\ Own \in Nat /\ Own <= Budget("redis") /\ Budget("redis") \in Nat
      /\ Credit(restarts, "redis") \in Nat
      /\ Credit(restarts + 1, "redis") = Credit(restarts, "redis") + Budget("redis")
  BY <1>1, <1>2, <1>5, <1>6, OwnIs, Settings, Credits
<1>9. /\ place \in [Threads -> {"idle", "lock", "incr", "ttl", "expire"}]
      /\ lag \in [Threads -> 0 .. MaxLag]
  BY <1>1 DEF TypeOK
<1>10. Saturated(Max({1, Limit}) + 1) \in Nat
  <2>1. Max({1, Limit}) = IF Limit >= 1 THEN Limit ELSE 1
    BY <1>1, Settings
  <2>2. Max({1, Limit}) + 1 \in Nat
    BY <1>2, <2>1
  <2>3. QED  BY <1>1, <1>2, <2>2, SaturatedIs
<1>11. QED  BY <1>1, <1>2, <1>3, <1>4, <1>5, <1>6, <1>7, <1>8, <1>9, <1>10

\* INCR executed, granted or not: what the window grants, its counter counts.
LEMMA IncrBudget ==
    ASSUME IInv, rate' = rate, restarts' = restarts, UNCHANGED ttl,
           counter' = Saturated(counter + 1),
           UNCHANGED recent \/ (counter + 1 <= Limit /\ Grant("redis"))
    PROVE  RedisBudget'
<1>1. /\ Own' \in Nat /\ Own <= Own' /\ Own \in Nat
      /\ counter + 1 <= Limit => Own' = Own + 1
  BY Counted, Known
<1>2. /\ \A n \in Spans : recent'["redis"][n] \in Nat /\ recent["redis"][n] \in Nat
      /\ \A n \in Spans : recent'["redis"][n] - recent["redis"][n] <= Own' - Own
  <2>1. CASE UNCHANGED recent
    <3>1. \A n \in Spans : recent["redis"][n] \in Nat
      BY Known DEF TypeOK
    <3>2. QED  BY <1>1, <2>1, <3>1
  <2>2. CASE counter + 1 <= Limit /\ Grant("redis")
    <3>1. \A n \in Spans :
             recent'["redis"][n] = recent["redis"][n] + 1 /\ recent["redis"][n] \in Nat
      BY <2>2, GrantIs, Known
    <3>2. QED  BY <1>1, <2>2, <3>1
  <2>3. QED  BY <2>1, <2>2
<1>3. \A n \in Spans : recent'["redis"][n] <= Credit(restarts + 1, "redis") + Own'
  <2>1. /\ \A n \in Spans : recent["redis"][n] <= Credit(restarts + 1, "redis") + Own
        /\ Credit(restarts + 1, "redis") \in Nat
    BY Known DEF RedisBudget
  <2>2. QED  BY <1>1, <1>2, <2>1
<1>4. ttl > 0 => \A n \in Spans : n <= Window - ttl =>
          recent'["redis"][n] <= Credit(restarts, "redis") + Own'
  <2>1. /\ ttl > 0 => \A n \in Spans : n <= Window - ttl =>
              recent["redis"][n] <= Credit(restarts, "redis") + Own
        /\ Credit(restarts, "redis") \in Nat
    BY Known DEF RedisBudget
  <2>2. QED  BY <1>1, <1>2, <2>1
<1>5. QED  BY <1>3, <1>4, SameSetting DEF RedisBudget

\* EXPIRE executed: the key lasts another window, so nothing is asked of the
\* spans that reach back before it.
LEMMA ExpireBudget ==
    ASSUME IInv, rate' = rate, restarts' = restarts, UNCHANGED <<counter, recent>>,
           ttl' \in {0, Window}
    PROVE  RedisBudget'
<1>1. Own' = Own
  BY SameSetting DEF Own
<1>2. \A n \in Spans : ~(n <= Window - Window)
  BY Known
<1>3. QED  BY <1>1, <1>2, Known, SameSetting DEF RedisBudget

LEMMA IncrInv ==
    ASSUME IInv, NEW t \in Threads, Incr(t)
    PROVE  IInv'
<1>1. /\ place[t] = "incr" /\ counter' = Saturated(counter + 1)
      /\ UNCHANGED <<rate, backend, ttl, bucket, faults, restarts, lag>>
      /\ UNCHANGED recent \/ (counter + 1 <= Limit /\ Grant("redis"))
      /\ place' = [place EXCEPT ![t] = IF counter = 0 THEN "expire" ELSE "ttl"]
  BY DEF Incr, Goto
<1>2. counter' > 0 /\ counter' \in 0 .. Saturated(Max({1, Limit}) + 1)
  BY <1>1, Counted, Known
<1>3. RedisBudget'
  BY <1>1, IncrBudget
<1>4. place' \in [Threads -> {"idle", "lock", "incr", "ttl", "expire"}]
      /\ (counter = 0 => place'[t] = "expire")
      /\ \A u \in Threads : place[u] = "expire" => place'[u] = "expire"
  BY <1>1, Known
<1>5. ExpiryIsOnItsWay'
  <2>1. counter > 0 \/ counter = 0
    BY Known
  <2>2. QED  BY <1>1, <1>4, <2>1 DEF IInv, ExpiryIsOnItsWay
<1>6. counter' # 0
  BY <1>2
<1>7. QED  BY <1>1, <1>2, <1>3, <1>4, <1>5, <1>6, Known, CommandInv

LEMMA CheckTtlInv ==
    ASSUME IInv, NEW t \in Threads, CheckTtl(t)
    PROVE  IInv'
<1>1. /\ place[t] = "ttl"
      /\ UNCHANGED <<rate, backend, redis, bucket, recent, faults, restarts>>
      /\ \/ place' = [place EXCEPT ![t] = "expire"] /\ UNCHANGED lag
         \/ place' = [place EXCEPT ![t] = "idle"] /\ lag' = [lag EXCEPT ![t] = 0]
  BY DEF CheckTtl, Goto, Done
<1>2. /\ place' \in [Threads -> {"idle", "lock", "incr", "ttl", "expire"}]
      /\ lag' \in [Threads -> 0 .. MaxLag]
      /\ \A u \in Threads : place[u] = "expire" => place'[u] = "expire"
  BY <1>1, Known
<1>3. RedisBudget'
  BY <1>1, RedisKept, Known
<1>4. ExpiryIsOnItsWay'
  BY <1>1, <1>2 DEF IInv, ExpiryIsOnItsWay, redis
<1>5. counter' = counter /\ ttl' = ttl
  BY <1>1 DEF redis
<1>6. QED  BY <1>1, <1>2, <1>3, <1>4, <1>5, Known, CommandInv

LEMMA ExpireInv ==
    ASSUME IInv, NEW t \in Threads, Expire(t)
    PROVE  IInv'
<1>1. /\ UNCHANGED <<rate, backend, counter, bucket, recent, faults, restarts>>
      /\ ttl' = (IF counter = 0 THEN 0 ELSE Window)
      /\ place' = [place EXCEPT ![t] = "idle"] /\ lag' = [lag EXCEPT ![t] = 0]
  BY DEF Expire, Done
<1>2. /\ place' \in [Threads -> {"idle", "lock", "incr", "ttl", "expire"}]
      /\ lag' \in [Threads -> 0 .. MaxLag]
  BY <1>1, Known
<1>3. RedisBudget'
  BY <1>1, ExpireBudget
<1>4. ExpiryIsOnItsWay'
  BY <1>1, Known DEF ExpiryIsOnItsWay
<1>5. ttl' \in 0 .. Window
  BY <1>1, Known
<1>6. QED  BY <1>1, <1>2, <1>3, <1>4, <1>5, Known, CommandInv

LEMMA FailOpenInv ==
    ASSUME IInv, NEW t \in Threads, FailOpen(t)
    PROVE  IInv'
<1>1. /\ faults' = faults + 1 /\ faults < MaxFaults
      /\ UNCHANGED <<rate, backend, bucket, recent, restarts>>
      /\ place' = [place EXCEPT ![t] = "idle"] /\ lag' = [lag EXCEPT ![t] = 0]
      /\ \/ UNCHANGED redis
         \/ counter' = Saturated(counter + 1) /\ UNCHANGED ttl
         \/ counter # 0 /\ ttl' = Window /\ UNCHANGED counter
  BY DEF FailOpen, Done
<1>2. /\ place' \in [Threads -> {"idle", "lock", "incr", "ttl", "expire"}]
      /\ lag' \in [Threads -> 0 .. MaxLag]
      /\ faults' \in 0 .. MaxFaults /\ faults' \in Nat /\ restarts <= faults'
  BY <1>1, Known
<1>3. ExpiryIsOnItsWay'
  BY <1>1, Known DEF ExpiryIsOnItsWay
<1>4. CASE UNCHANGED redis
  <2>1. RedisBudget'
    BY <1>1, <1>4, RedisKept, Known
  <2>2. counter' = counter /\ ttl' = ttl
    BY <1>4 DEF redis
  <2>3. QED  BY <1>1, <1>2, <1>3, <2>1, <2>2, Known, CommandInv
<1>5. CASE counter' = Saturated(counter + 1) /\ UNCHANGED ttl
  <2>1. counter' > 0 /\ counter' # 0 /\ counter' \in 0 .. Saturated(Max({1, Limit}) + 1)
    BY <1>1, <1>5, Counted, Known
  <2>2. RedisBudget'
    BY <1>1, <1>5, IncrBudget
  <2>3. QED  BY <1>1, <1>2, <1>3, <1>5, <2>1, <2>2, Known, CommandInv
<1>6. CASE counter # 0 /\ ttl' = Window /\ UNCHANGED counter
  <2>1. RedisBudget'
    BY <1>1, <1>6, ExpireBudget
  <2>2. ttl' \in 0 .. Window
    BY <1>6, Known
  <2>3. QED  BY <1>1, <1>2, <1>3, <1>6, <2>1, <2>2, Known, CommandInv
<1>7. QED  BY <1>1, <1>4, <1>5, <1>6

\* What a span of n held one tick ago is what the span one shorter holds now.
LEMMA Shifted ==
    ASSUME IInv, Tick
    PROVE  /\ recent' \in [Stores -> [Spans -> Nat]]
           /\ \A s \in Stores, n \in Spans :
                 \/ recent'[s][n] = 0
                 \/ n - 1 \in Spans /\ recent'[s][n] = recent[s][n - 1]
           /\ \A s \in Stores, n \in Spans : recent[s][n] \in Nat
<1>1. /\ recent \in [Stores -> [Spans -> Nat]]
      /\ recent' = [s \in Stores |->
            [n \in Spans |-> IF n = 1 THEN 0 ELSE recent[s][n - 1]]]
      /\ Window \in Nat \ {0}
  BY Known DEF TypeOK, Tick
<1>2. \A n \in Spans : n = 1 \/ n - 1 \in Spans
  BY <1>1 DEF Spans
<1>3. \A s \in Stores : [n \in Spans |-> IF n = 1 THEN 0 ELSE recent[s][n - 1]]
                           \in [Spans -> Nat]
  BY <1>1, <1>2
<1>4. QED  BY <1>1, <1>2, <1>3

LEMMA TickRedis ==
    ASSUME IInv, Tick
    PROVE  /\ RedisBudget' /\ ExpiryIsOnItsWay'
           /\ ttl' \in 0 .. Window /\ (counter' = 0 => ttl' = 0)
           /\ counter' \in 0 .. Saturated(Max({1, Limit}) + 1)
<1>1. /\ rate' = rate /\ restarts' = restarts /\ faults' = faults /\ place' = place
      /\ \/ ttl = 1 /\ counter' = 0 /\ ttl' = 0
         \/ ttl # 1 /\ ttl' = Max({0, ttl - 1}) /\ counter' = counter
  BY DEF Tick
<1>2. /\ ttl \in Nat /\ ttl \in 0 .. Window /\ counter \in Nat /\ (counter = 0 => ttl = 0)
      /\ counter \in 0 .. Saturated(Max({1, Limit}) + 1)
      /\ Window \in Nat \ {0} /\ Spans \subseteq Nat \ {0} /\ "redis" \in Stores
  BY Known
<1>3. Max({0, ttl - 1}) = IF 0 >= ttl - 1 THEN 0 ELSE ttl - 1
  BY <1>2, Larger
<1>4. \/ ttl = 1 /\ counter' = 0 /\ ttl' = 0
      \/ ttl = 0 /\ ttl' = 0 /\ counter' = counter
      \/ ttl > 1 /\ ttl' = ttl - 1 /\ counter' = counter
  BY <1>1, <1>2, <1>3
<1>5. ttl' \in 0 .. Window /\ (counter' = 0 => ttl' = 0)
  BY <1>2, <1>4
<1>6. counter' \in 0 .. Saturated(Max({1, Limit}) + 1)
  <2>1. 0 \in 0 .. Saturated(Max({1, Limit}) + 1)
    BY Known
  <2>2. QED  BY <1>2, <1>4, <2>1
<1>7. ExpiryIsOnItsWay'
  BY <1>1, <1>2, <1>4 DEF IInv, ExpiryIsOnItsWay
<1>8. counter' = counter => Own' = Own
  BY <1>1, SameSetting DEF Own
<1>9. /\ Own' \in Nat /\ Own \in Nat /\ Own <= Budget("redis") /\ Budget("redis") \in Nat
      /\ Credit(restarts, "redis") \in Nat
      /\ Credit(restarts + 1, "redis") = Credit(restarts, "redis") + Budget("redis")
  <2>1. CASE counter' = counter
    BY <1>8, <2>1, Known
  <2>2. CASE counter' = 0
    <3>1. Own' = Min({0, Budget("redis")})
      BY <1>1, <2>2, SameSetting DEF Own
    <3>2. Own' = 0
      BY <3>1, Known, Smaller
    <3>3. QED  BY <3>2, Known
  <2>3. QED  BY <1>4, <2>1, <2>2
<1>10. \A n \in Spans : recent'["redis"][n] <= Credit(restarts + 1, "redis") + Own'
  <2>1. CASE ttl = 1
    <3>1. \A n \in Spans : n - 1 \in Spans => n - 1 <= Window - ttl
      BY <1>2, <2>1 DEF Spans
    <3>2. \A n \in Spans : n - 1 \in Spans =>
             recent["redis"][n - 1] <= Credit(restarts, "redis") + Own
      BY <2>1, <3>1, Known DEF RedisBudget
    <3>3. QED  BY <1>2, <1>9, <3>2, Shifted
  <2>2. CASE counter' = counter
    <3>1. \A n \in Spans : n - 1 \in Spans =>
             recent["redis"][n - 1] <= Credit(restarts + 1, "redis") + Own
      BY Known DEF RedisBudget
    <3>2. QED  BY <1>2, <1>8, <1>9, <2>2, <3>1, Shifted
  <2>3. QED  BY <1>4, <2>1, <2>2
<1>11. ASSUME ttl' > 0
       PROVE  \A n \in Spans : n <= Window - ttl' =>
                 recent'["redis"][n] <= Credit(restarts, "redis") + Own'
  <2>1. ttl > 1 /\ ttl' = ttl - 1 /\ Own' = Own
    BY <1>4, <1>8, <1>11
  <2>2. \A n \in Spans : n <= Window - ttl' /\ n - 1 \in Spans =>
           recent["redis"][n - 1] <= Credit(restarts, "redis") + Own
    <3>1. \A n \in Spans : n <= Window - ttl' => n - 1 <= Window - ttl
      BY <1>2, <2>1
    <3>2. QED  BY <1>2, <2>1, <3>1, Known DEF RedisBudget
  <2>3. QED  BY <1>2, <1>9, <2>1, <2>2, Shifted
<1>12. RedisBudget'
  BY <1>1, <1>10, <1>11, SameSetting DEF RedisBudget
<1>13. QED  BY <1>5, <1>6, <1>7, <1>12

LEMMA TickMemory ==
    ASSUME IInv, Tick, NEW w \in Workers
    PROVE  MemoryBudget(w)' /\ bucket'[w] \in Bucket \cup {None}
<1>1. /\ rate' = rate /\ restarts' = restarts
      /\ bucket'[w] = IF bucket[w] = None THEN None
                      ELSE [bucket[w] EXCEPT !.age = Min({@ + 1, MaxAge})]
  BY DEF Tick
<1>2. /\ MemoryBudget(w) /\ w \in Stores /\ Spans \subseteq Nat \ {0} /\ rate \in Rates
      /\ Window \in Nat /\ MaxLag \in Nat /\ restarts \in Nat
  BY Known DEF IInv, Stores
<1>3. Budget(w) \in Nat /\ Credit(restarts, w) \in Nat /\ Credit(restarts + 1, w) \in Nat
  BY <1>2, Settings, Credits
<1>4. CASE bucket[w] = None
  <2>1. bucket'[w] = None /\ OwnOf(w)' = 0 /\ OwnOf(w) = 0
    BY <1>1, <1>4 DEF OwnOf
  <2>2. \A n \in Spans : n - 1 \in Spans /\ n <= Window - MaxLag =>
           recent[w][n - 1] <= Credit(restarts + 1, w)
    BY <1>2, <1>3, <2>1 DEF MemoryBudget
  <2>3. \A n \in Spans : n <= Window - MaxLag =>
           recent'[w][n] <= Credit(restarts + 1, w)
    BY <1>2, <1>3, <2>2, Shifted
  <2>4. QED  BY <1>1, <1>3, <2>1, <2>3, SameSetting DEF MemoryBudget
<1>5. CASE bucket[w] # None
  <2>1. bucket[w] \in Bucket
    BY <1>5, Known DEF TypeOK
  <2>2. bucket[w].age \in 0 .. MaxAge /\ MaxAge \in Nat /\ bucket[w].count \in Nat
    BY <1>2, <2>1 DEF Bucket, MaxAge
  <2>3. Min({bucket[w].age + 1, MaxAge}) = IF bucket[w].age + 1 <= MaxAge
                                            THEN bucket[w].age + 1 ELSE MaxAge
    BY <2>2, Smaller
  <2> DEFINE a == Min({bucket[w].age + 1, MaxAge})
             c == [bucket[w] EXCEPT !.age = a]
  <2>4. a \in 0 .. MaxAge /\ a <= bucket[w].age + 1
    BY <2>2, <2>3
  <2> HIDE DEF a
  <2>5. c \in Bucket /\ c.age = a /\ c.count = bucket[w].count
    BY <2>1, <2>4 DEF Bucket
  <2>6. bucket'[w] = c
    BY <1>1, <1>5 DEF a
  <2> HIDE DEF c
  <2>7. bucket'[w] # None /\ OwnOf(w)' = OwnOf(w) /\ OwnOf(w) = bucket[w].count
    BY <1>5, <2>5, <2>6, BucketIsNotNone DEF OwnOf
  <2>8. \A n \in Spans : n <= Window - MaxLag =>
           recent'[w][n] <= Credit(restarts + 1, w) + OwnOf(w)
    <3>1. \A n \in Spans : n - 1 \in Spans /\ n <= Window - MaxLag =>
             recent[w][n - 1] <= Credit(restarts + 1, w) + OwnOf(w)
      BY <1>2 DEF MemoryBudget
    <3>2. QED  BY <1>2, <1>3, <2>2, <2>7, <3>1, Shifted
  <2>9. \A n \in Spans : n <= Window - MaxLag /\ n <= a - MaxLag =>
           recent'[w][n] <= Credit(restarts, w) + OwnOf(w)
    <3>1. \A n \in Spans : n <= a - MaxLag => n - 1 <= bucket[w].age - MaxLag
      BY <1>2, <2>2, <2>4
    <3>2. \A n \in Spans : n - 1 \in Spans /\ n <= Window - MaxLag /\ n <= a - MaxLag =>
             recent[w][n - 1] <= Credit(restarts, w) + OwnOf(w)
      <4>1. \A n \in Spans : n <= Window - MaxLag => n - 1 <= Window - MaxLag
        BY <1>2
      <4>2. QED  BY <1>2, <1>5, <3>1, <4>1 DEF MemoryBudget
    <3>3. QED  BY <1>2, <1>3, <2>2, <2>7, <3>2, Shifted
  <2>10. OwnOf(w) <= Budget(w)
    BY <1>2 DEF MemoryBudget
  <2>11. bucket'[w].age = a
    BY <2>5, <2>6
  <2>12. MemoryBudget(w)'
    <3>1. OwnOf(w)' <= Budget(w)'
      BY <1>1, <2>7, <2>10, SameSetting
    <3>2. \A n \in Spans' : n <= Window' - MaxLag =>
             recent'[w][n] <= Credit(restarts + 1, w)' + OwnOf(w)'
      BY <1>1, <2>7, <2>8, SameSetting
    <3>3. \A n \in Spans' : n <= Window' - MaxLag /\ n <= bucket'[w].age - MaxLag =>
             recent'[w][n] <= Credit(restarts, w)' + OwnOf(w)'
      BY <1>1, <2>7, <2>9, <2>11, SameSetting
    <3>4. QED  BY <3>1, <3>2, <3>3 DEF MemoryBudget
  <2>13. QED  BY <2>5, <2>6, <2>12
<1>6. QED  BY <1>4, <1>5

LEMMA TickInv ==
    ASSUME IInv, Tick
    PROVE  IInv'
<1>1. /\ UNCHANGED <<rate, backend, place, faults, restarts>>
      /\ \A t \in Threads : place[t] = "lock" => lag[t] < MaxLag
      /\ lag' = [t \in Threads |-> IF place[t] = "lock" THEN lag[t] + 1 ELSE 0]
      /\ bucket' = [w \in Workers |-> bucket'[w]]
  BY DEF Tick
<1>2. lag' \in [Threads -> 0 .. MaxLag]
  BY <1>1, Known
<1>3. bucket' \in [Workers -> Bucket \cup {None}]
  BY <1>1, TickMemory
<1>4. backend' \in [Workers -> {"redis", "memory"}]
  BY <1>1, Known DEF TypeOK
<1>5. TypeOK'
  <2>1. faults' \in 0 .. MaxFaults /\ restarts' \in 0 .. faults'
    BY <1>1, Known
  <2>2. place' \in [Threads -> {"idle", "lock", "incr", "ttl", "expire"}]
    BY <1>1, Known
  <2>3. QED  BY <1>1, <1>2, <1>3, <1>4, <2>1, <2>2, Known, Shifted, TickRedis, TypeKept
<1>6. QED  BY <1>5, TickRedis, TickMemory DEF IInv

\* A restart of any store credits every store with one more budget: only fewer
\* things are asked of them.
LEMMA Restarted ==
    ASSUME IInv, UNCHANGED rate, UNCHANGED recent, restarts' = restarts + 1
    PROVE  /\ (Own' \in Nat /\ (ttl' = 0 \/ (Own' = Own /\ ttl' = ttl))) => RedisBudget'
           /\ \A w \in Workers :
                 (bucket'[w] = None \/ bucket'[w] = bucket[w]) => MemoryBudget(w)'
<1>1. restarts \in Nat /\ rate \in Rates /\ Spans \subseteq Nat \ {0} /\ TypeOK /\ "redis" \in Stores
  BY Known
<1>2. \A s \in Stores :
         /\ Credit(restarts, s) \in Nat /\ Budget(s) \in Nat
         /\ Credit(restarts + 1, s) = Credit(restarts, s) + Budget(s)
         /\ Credit(restarts + 1 + 1, s) = Credit(restarts + 1, s) + Budget(s)
  <2>1. restarts + 1 \in Nat
    BY <1>1
  <2>2. QED  BY <1>1, <2>1, Credits, Settings
<1>3. \A s \in Stores, n \in Spans : recent[s][n] \in Nat
  BY <1>1 DEF TypeOK
<1>4. ASSUME Own' \in Nat, ttl' = 0 \/ (Own' = Own /\ ttl' = ttl)
      PROVE  RedisBudget'
  <2>1. /\ Credit(restarts, "redis") \in Nat /\ Budget("redis") \in Nat
        /\ Credit(restarts + 1, "redis") = Credit(restarts, "redis") + Budget("redis")
        /\ Credit(restarts + 1 + 1, "redis") = Credit(restarts + 1, "redis") + Budget("redis")
        /\ \A n \in Spans : recent["redis"][n] \in Nat
    BY <1>1, <1>2, <1>3
  <2>2. \A n \in Spans : recent["redis"][n] <= Credit(restarts + 1 + 1, "redis") + Own'
    <3>1. \A n \in Spans : recent["redis"][n] <= Credit(restarts + 1, "redis") + Own
      BY Known DEF RedisBudget
    <3>2. Own \in Nat /\ Own <= Budget("redis")
      BY Known
    <3>3. QED  BY <1>4, <2>1, <3>1, <3>2
  <2>3. ttl' > 0 => \A n \in Spans : n <= Window - ttl' =>
            recent["redis"][n] <= Credit(restarts + 1, "redis") + Own'
    <3>1. Own \in Nat
      BY Known
    <3>2. ttl > 0 => \A n \in Spans : n <= Window - ttl =>
              recent["redis"][n] <= Credit(restarts, "redis") + Own
      BY Known DEF RedisBudget
    <3>3. QED  BY <1>4, <2>1, <3>1, <3>2
  <2>4. QED  BY <1>1, <2>2, <2>3, SameSetting DEF RedisBudget
<1>5. ASSUME NEW w \in Workers, bucket'[w] = None \/ bucket'[w] = bucket[w]
      PROVE  MemoryBudget(w)'
  <2>1. MemoryBudget(w) /\ w \in Stores
    BY DEF IInv, Stores
  <2>2. OwnOf(w) \in Nat /\ OwnOf(w) <= Budget(w)
    BY <1>1, <2>1 DEF MemoryBudget, OwnOf, TypeOK, Bucket
  <2>3. OwnOf(w)' = 0 \/ (OwnOf(w)' = OwnOf(w) /\ bucket'[w] = bucket[w])
    BY <1>5 DEF OwnOf
  <2>4. OwnOf(w)' \in Nat /\ OwnOf(w)' <= Budget(w)
    BY <1>2, <2>1, <2>2, <2>3
  <2>5. \A n \in Spans : n <= Window - MaxLag =>
            recent[w][n] <= Credit(restarts + 1 + 1, w) + OwnOf(w)'
    <3>1. \A n \in Spans : n <= Window - MaxLag =>
              recent[w][n] <= Credit(restarts + 1, w) + OwnOf(w)
      BY <2>1 DEF MemoryBudget
    <3>2. QED  BY <1>2, <1>3, <2>1, <2>2, <2>4, <3>1
  <2>6. bucket'[w] # None => \A n \in Spans :
            n <= Window - MaxLag /\ n <= bucket'[w].age - MaxLag =>
                recent[w][n] <= Credit(restarts + 1, w) + OwnOf(w)'
    <3>1. bucket'[w] # None => bucket'[w] = bucket[w] /\ OwnOf(w)' = OwnOf(w)
      BY <1>5 DEF OwnOf
    <3>2. bucket'[w] # None => \A n \in Spans :
              n <= Window - MaxLag /\ n <= bucket'[w].age - MaxLag =>
                  recent[w][n] <= Credit(restarts, w) + OwnOf(w)
      BY <2>1, <3>1 DEF MemoryBudget
    <3>3. QED  BY <1>2, <1>3, <2>1, <2>2, <3>1, <3>2
  <2>7. QED  BY <1>1, <2>4, <2>5, <2>6, SameSetting DEF MemoryBudget
<1>6. QED  BY <1>4, <1>5

LEMMA RestartInv ==
    ASSUME IInv, UNCHANGED rate, UNCHANGED recent, restarts' = restarts + 1,
           faults' = faults + 1, faults < MaxFaults,
           backend' \in [Workers -> {"redis", "memory"}],
           place' \in [Threads -> {"idle", "lock", "incr", "ttl", "expire"}],
           lag' \in [Threads -> 0 .. MaxLag],
           UNCHANGED redis \/ (counter' = 0 /\ ttl' = 0),
           bucket' \in [Workers -> Bucket \cup {None}],
           \A w \in Workers : bucket'[w] = None \/ bucket'[w] = bucket[w]
    PROVE  IInv'
<1>1. /\ counter' \in 0 .. Saturated(Max({1, Limit}) + 1)
      /\ ttl' \in 0 .. Window /\ (counter' = 0 => ttl' = 0)
  <2>1. CASE UNCHANGED redis
    BY <2>1, Known DEF redis
  <2>2. CASE counter' = 0 /\ ttl' = 0
    <3>1. 0 \in 0 .. Window /\ 0 \in 0 .. Saturated(Max({1, Limit}) + 1)
      <4>1. Window \in Nat /\ Saturated(Max({1, Limit}) + 1) \in Nat
        BY Known
      <4>2. QED  BY <4>1
    <3>2. QED  BY <2>2, <3>1
  <2>3. QED  BY <2>1, <2>2
<1>2. Own' \in Nat /\ (ttl' = 0 \/ (Own' = Own /\ ttl' = ttl))
  <2>1. CASE UNCHANGED redis
    <3>1. Own' = Own /\ ttl' = ttl
      BY <2>1, SameSetting DEF Own, redis
    <3>2. QED  BY <3>1, Known
  <2>2. CASE counter' = 0 /\ ttl' = 0
    <3>1. Own' = Min({0, Budget("redis")})
      BY <2>2, SameSetting DEF Own
    <3>2. Own' = 0
      BY <3>1, Known, Smaller
    <3>3. QED  BY <2>2, <3>2
  <2>3. QED  BY <2>1, <2>2
<1>3. faults' \in 0 .. MaxFaults /\ restarts' \in 0 .. faults' /\ faults' # 0
  BY Known
<1>4. TypeOK'
  <2>1. recent' \in [Stores -> [Spans -> Nat]]
    BY Known DEF TypeOK
  <2>2. QED  BY <1>1, <1>3, <2>1, Known, TypeKept
<1>5. QED  BY <1>2, <1>3, <1>4, Restarted DEF IInv, ExpiryIsOnItsWay

LEMMA RestartRedisInv ==
    ASSUME IInv, RestartRedis
    PROVE  IInv'
<1>1. /\ UNCHANGED <<rate, backend, bucket, place, lag, recent>>
      /\ restarts' = restarts + 1 /\ faults' = faults + 1 /\ faults < MaxFaults
      /\ counter' = 0 /\ ttl' = 0
  BY DEF RestartRedis, thread
<1>2. /\ backend' \in [Workers -> {"redis", "memory"}]
      /\ bucket' \in [Workers -> Bucket \cup {None}]
      /\ place' \in [Threads -> {"idle", "lock", "incr", "ttl", "expire"}]
      /\ lag' \in [Threads -> 0 .. MaxLag]
  BY <1>1, Known DEF TypeOK
<1>3. QED  BY <1>1, <1>2, RestartInv

LEMMA RestartWorkerInv ==
    ASSUME IInv, NEW w \in Workers, RestartWorker(w)
    PROVE  IInv'
<1>1. /\ UNCHANGED <<rate, redis, recent>>
      /\ restarts' = restarts + 1 /\ faults' = faults + 1 /\ faults < MaxFaults
      /\ \E b \in {"redis", "memory"} : backend' = [backend EXCEPT ![w] = b]
      /\ bucket' = [bucket EXCEPT ![w] = None]
      /\ place' = [t \in Threads |-> IF WorkerOf[t] = w THEN "idle" ELSE place[t]]
      /\ lag' = [t \in Threads |-> IF WorkerOf[t] = w THEN 0 ELSE lag[t]]
  BY DEF RestartWorker
<1>2. TypeOK /\ MaxLag \in Nat
  BY Known
<1>3. backend' \in [Workers -> {"redis", "memory"}]
  BY <1>1, <1>2 DEF TypeOK
<1>4. /\ bucket' \in [Workers -> Bucket \cup {None}]
      /\ \A v \in Workers : bucket'[v] = None \/ bucket'[v] = bucket[v]
  BY <1>1, <1>2 DEF TypeOK
<1>5. /\ place' \in [Threads -> {"idle", "lock", "incr", "ttl", "expire"}]
      /\ lag' \in [Threads -> 0 .. MaxLag]
  BY <1>1, Known
<1>6. QED  BY <1>1, <1>3, <1>4, <1>5, RestartInv

-----------------------------------------------------------------------------
(***************************************************************************)
(* The theorems                                                            *)
(***************************************************************************)

LEMMA StutterInv ==
    ASSUME IInv, UNCHANGED vars
    PROVE  IInv'
<1>1. /\ UNCHANGED <<rate, backend, counter, ttl, bucket, place, lag, recent, faults, restarts>>
      /\ UNCHANGED redis
  BY DEF vars, redis, thread
<1>2. TypeOK'
  <2>1. TypeOK
    BY DEF IInv
  <2>2. QED  BY <1>1, <2>1, TypeKept DEF TypeOK
<1>3. RedisBudget' /\ \A w \in Workers : MemoryBudget(w)'
  BY <1>1, RedisKept, MemoryKept DEF IInv
<1>4. ExpiryIsOnItsWay'
  BY <1>1 DEF IInv, ExpiryIsOnItsWay
<1>5. QED  BY <1>2, <1>3, <1>4 DEF IInv

LEMMA NextInv == IInv /\ [Next]_vars => IInv'
<1>1. SUFFICES ASSUME IInv, [Next]_vars PROVE IInv'
  OBVIOUS
<1>2. CASE \E t \in Threads : Enter(t) \/ Step(t) \/ FailOpen(t)
  BY <1>1, <1>2, EnterInv, CountInMemoryInv, IncrInv, CheckTtlInv, ExpireInv, FailOpenInv
     DEF Step
<1>3. CASE \E w \in Workers : RestartWorker(w)
  BY <1>1, <1>3, RestartWorkerInv
<1>4. CASE RestartRedis
  BY <1>1, <1>4, RestartRedisInv
<1>5. CASE Tick
  BY <1>1, <1>5, TickInv
<1>6. CASE UNCHANGED vars
  BY <1>1, <1>6, StutterInv
<1>7. QED  BY <1>1, <1>2, <1>3, <1>4, <1>5, <1>6 DEF Next

\* The inductive invariant: what the present window granted, and one budget for
\* each window or restart that lies behind it.
THEOREM Invariance == Spec => []IInv
<1>1. QED  BY InitInv, NextInv, PTL DEF Spec

\* The state has its types; in particular a key that is gone has no expiry.
THEOREM TypeCorrect == Spec => []TypeOK
<1>1. IInv => TypeOK
  BY DEF IInv
<1>2. QED  BY <1>1, Invariance, PTL

\* Over no stretch as long as a window does a store grant more than two budgets
\* and one more for each restart that emptied one, whatever the threads of its
\* workers do between their commands.
THEOREM BudgetsHold == Spec => []BudgetPerSpan
<1>1. ASSUME IInv
      PROVE  BudgetPerSpan
  <2>1. SUFFICES ASSUME NEW s \in Stores, NEW n \in Spans,
                        n <= (IF s = "redis" THEN Window ELSE Window - MaxLag)
                 PROVE  recent[s][n] <= (2 + restarts) * Budget(s)
    BY DEF BudgetPerSpan
  <2>2. restarts \in Nat /\ rate \in Rates /\ TypeOK /\ recent[s][n] \in Nat
    BY <1>1, Known DEF TypeOK
  <2>3. PICK b \in Nat : b = Budget(s)
    BY <2>2, Settings
  <2>4. /\ Credit(restarts + 1, s) \in Nat
        /\ Credit(restarts + 2, s) = Credit(restarts + 1, s) + b
    <3>1. restarts + 1 \in Nat /\ restarts + 1 + 1 = restarts + 2
      BY <2>2
    <3>2. Credit(restarts + 1 + 1, s) = Credit(restarts + 1, s) + b
      BY <2>2, <2>3, <3>1, Credits
    <3>3. QED  BY <2>2, <3>1, <3>2, Credits
  <2>5. Credit(restarts + 2, s) = (2 + restarts) * Budget(s)
    <3>1. restarts + 2 = 2 + restarts
      BY <2>2
    <3>2. QED  BY <3>1 DEF Credit
  <2>6. recent[s][n] <= Credit(restarts + 2, s)
    <3>1. CASE s = "redis"
      <4>1. /\ recent[s][n] <= Credit(restarts + 1, s) + Own
            /\ Own \in Nat /\ Own <= Budget(s)
        BY <1>1, <3>1, Known DEF RedisBudget
      <4>2. QED  BY <2>2, <2>3, <2>4, <4>1
    <3>2. CASE s # "redis"
      <4>1. s \in Workers /\ MemoryBudget(s)
        BY <1>1, <3>2 DEF Stores, IInv
      <4>2. OwnOf(s) \in Nat /\ OwnOf(s) <= Budget(s)
        BY <2>2, <4>1 DEF MemoryBudget, OwnOf, TypeOK, Bucket
      <4>3. recent[s][n] <= Credit(restarts + 1, s) + OwnOf(s)
        BY <2>1, <3>2, <4>1 DEF MemoryBudget
      <4>4. QED  BY <2>2, <2>3, <2>4, <4>2, <4>3
    <3>3. QED  BY <3>1, <3>2
  <2>7. QED  BY <2>5, <2>6
<1>2. QED  BY <1>1, Invariance, PTL

\* A counter that nobody is about to expire has an expiry, as long as no command
\* raised and nothing restarted.
THEOREM ExpiryComes == Spec => []ExpiryIsOnItsWay
<1>1. IInv => ExpiryIsOnItsWay
  BY DEF IInv
<1>2. QED  BY <1>1, Invariance, PTL
=============================================================================
