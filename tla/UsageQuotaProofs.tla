-------------------------- MODULE UsageQuotaProofs --------------------------
(***************************************************************************)
(* Theorems about UsageQuota for every set of requests and calls, every    *)
(* limit and every number of days.                                         *)
(***************************************************************************)
EXTENDS UsageQuota, FiniteSetTheorems, TLAPS

\* A step of reserve(), of a refund or of time keeps every variable in its domain.
THEOREM TypeCorrect == Spec => []TypeOK
<1>1. Init => TypeOK
  BY QuotaAssumption DEF Init, TypeOK, Statuses, Backends, Days, Idle
<1>2. TypeOK /\ [Next]_vars => TypeOK'
  <2> SUFFICES ASSUME TypeOK, [Next]_vars PROVE TypeOK'
    OBVIOUS
  <2> USE DEF TypeOK
  <2>1. ASSUME NEW r \in Requests, NEW d \in Days
        PROVE  /\ ReserveLua(r, d) => /\ redisUsed' \in [Days -> Nat]
                                      /\ redisKeys' \in [Days -> SUBSET Requests]
               /\ RefundLua(r, d) => /\ redisUsed' \in [Days -> Nat]
                                     /\ redisKeys' \in [Days -> SUBSET Requests]
    BY <2>1 DEF ReserveLua, RefundLua, redis
  <2>2. ASSUME NEW c \in Calls, NEW r \in Requests, RedisReserve(c, r)
        PROVE  TypeOK'
    <3>1. ASSUME NEW inc \in BOOLEAN, Begin(c, r, "redis", inc)
          PROVE  call' \in [Calls -> {Idle} \cup Active]
      BY <3>1 DEF Begin, Active, Backends
    <3>2. call' \in [Calls -> {Idle} \cup Active]
      BY <2>2, <3>1 DEF RedisReserve
    <3> QED
      BY <2>1, <2>2, <3>2 DEF RedisReserve, ledger
  <2>3. ASSUME NEW c \in Calls, NEW r \in Requests, RedisFails(c, r)
        PROVE  TypeOK'
    BY <2>1, <2>3 DEF RedisFails, Begin, ledger, redis, Active, Backends
  <2>4. ASSUME NEW c \in Calls, InSql(c)
        PROVE  call[c] \in Active
    BY <2>4 DEF InSql, Idle
  <2>5. ASSUME NEW c \in Calls, InSql(c), HandleError(c)
        PROVE  call' \in [Calls -> {Idle} \cup Active]
    BY <2>4, <2>5 DEF HandleError, Active
  <2>6. ASSUME NEW c \in Calls, Return(c)
        PROVE  call' \in [Calls -> {Idle} \cup Active]
    BY <2>6 DEF Return
  <2>7. ASSUME NEW c \in Calls, SqlReserve(c)
        PROVE  TypeOK'
    BY <2>4, <2>5, <2>6, <2>7 DEF SqlReserve, ledger, redis, Active, Statuses
  <2>8. ASSUME NEW c \in Calls, SqlFails(c) \/ CallerRollsBack(c)
        PROVE  TypeOK'
    BY <2>5, <2>6, <2>8 DEF SqlFails, CallerRollsBack, ledger, redis
  <2>9. ASSUME NEW c \in Calls, Compensate(c)
        PROVE  TypeOK'
    <3>1. call[c] \in Active
      BY <2>9 DEF Compensate, Idle
    <3> QED
      BY <2>1, <2>6, <2>9, <3>1 DEF Compensate, ledger, redis, Active
  <2>10. ASSUME NEW r \in Requests, RequestStep(r)
         PROVE  TypeOK'
    <3>1. RefundDay(r) \in Days
      BY DEF RefundDay
    <3>2. CASE Commit(r)
      BY <3>2 DEF Commit, redis, Statuses
    <3>3. CASE Refund(r) \/ RefundCommitted(r)
      BY <2>1, <3>1, <3>3 DEF Refund, RefundCommitted, RefundRow, RefundRedis, redis, Statuses
    <3>4. CASE RefundRollsBack(r)
      BY <2>1, <3>1, <3>4 DEF RefundRollsBack, ledger
    <3> QED
      BY <2>10, <3>2, <3>3, <3>4 DEF RequestStep
  <2>11. CASE Midnight
    BY <2>11, QuotaAssumption DEF Midnight, ledger, redis, Days
  <2>12. ASSUME NEW d \in Days, RedisExpires(d)
         PROVE  TypeOK'
    BY <2>12 DEF RedisExpires, ledger
  <2>13. CASE UNCHANGED vars
    BY <2>13 DEF vars, ledger, redis
  <2> QED
    BY <2>2, <2>3, <2>7, <2>8, <2>9, <2>10, <2>11, <2>12, <2>13 DEF Next, CallStep
<1> QED
  BY <1>1, <1>2, PTL DEF Spec

-----------------------------------------------------------------------------
\* The sets that the counters count are finite.
LEMMA CountedSetsFinite ==
  TypeOK => \A d \in Days : IsFiniteSet(Charged(d)) /\ IsFiniteSet(redisKeys[d])
<1> SUFFICES ASSUME TypeOK, NEW d \in Days
             PROVE  IsFiniteSet(Charged(d)) /\ IsFiniteSet(redisKeys[d])
  OBVIOUS
<1>1. Charged(d) \in SUBSET Requests /\ redisKeys[d] \in SUBSET Requests
  BY DEF Charged, TypeOK
<1> QED
  BY <1>1, FS_Subset, QuotaAssumption

\* The SQL of reserve() either leaves the ledger alone or adds one request to
\* the day it counts one more for, below the limit.
LEMMA ReserveKeepsLedger ==
  ASSUME TypeOK, LedgerBalances, WithinLimit, NEW c \in Calls, SqlReserve(c)
  PROVE  LedgerBalances' /\ WithinLimit'
<1> DEFINE r == call[c].req
           e == call[c].day
<1>1. r \in Requests /\ e \in Days
  BY DEF SqlReserve, InSql, TypeOK, Idle, Active
<1>2. CASE UNCHANGED ledger
  BY <1>2 DEF ledger, LedgerBalances, WithinLimit, Charged
<1>3. CASE ~UNCHANGED ledger
  <2>1. /\ status[r] = "none" /\ used[e] < Limit
        /\ status' = [status EXCEPT ![r] = "reserved"]
        /\ business_date' = [business_date EXCEPT ![r] = e]
        /\ used' = [used EXCEPT ![e] = @ + 1]
    BY <1>3 DEF SqlReserve, Fresh, Room
  <2>2. ASSUME NEW d \in Days
        PROVE  Charged(d)' = IF d = e THEN Charged(d) \cup {r} ELSE Charged(d)
    BY <1>1, <2>1 DEF Charged, TypeOK
  <2>3. r \notin Charged(e)
    BY <2>1 DEF Charged
  <2>4. Cardinality(Charged(e) \cup {r}) = Cardinality(Charged(e)) + 1
    BY <1>1, <2>3, CountedSetsFinite, FS_AddElement
  <2>5. LedgerBalances'
    BY <1>1, <2>1, <2>2, <2>4 DEF LedgerBalances, TypeOK
  <2>6. WithinLimit'
    BY <1>1, <2>1, QuotaAssumption DEF WithinLimit, TypeOK
  <2> QED
    BY <2>5, <2>6
<1> QED
  BY <1>2, <1>3

\* A refund takes the request off the day it was charged to and gives exactly
\* that unit back: the floor at zero is never reached.
LEMMA RefundKeepsLedger ==
  ASSUME TypeOK, LedgerBalances, WithinLimit, NEW r \in Requests,
         status[r] \in {"reserved", "committed"}, RefundRow(r), UNCHANGED business_date
  PROVE  LedgerBalances' /\ WithinLimit'
<1> DEFINE e == business_date[r]
<1>1. e \in Days /\ r \in Charged(e)
  BY DEF TypeOK, Charged
<1>2. ASSUME NEW d \in Days
      PROVE  Charged(d)' = IF d = e THEN Charged(d) \ {r} ELSE Charged(d)
  BY <1>1 DEF RefundRow, Charged, TypeOK
<1>3. Cardinality(Charged(e) \ {r}) = Cardinality(Charged(e)) - 1
  BY <1>1, CountedSetsFinite, FS_RemoveElement
<1>4. Cardinality(Charged(e)) \in Nat /\ Cardinality(Charged(e) \ {r}) \in Nat
  BY <1>1, CountedSetsFinite, FS_CardinalityType, FS_RemoveElement
<1>5. used[e] > 0
  BY <1>1, <1>3, <1>4 DEF LedgerBalances
<1>6. used' = [used EXCEPT ![e] = used[e] - 1]
  BY <1>5 DEF RefundRow, RefundDay
<1>7. LedgerBalances'
  BY <1>1, <1>2, <1>3, <1>6 DEF LedgerBalances, TypeOK
<1>8. WithinLimit'
  BY <1>1, <1>6, QuotaAssumption DEF WithinLimit, TypeOK
<1> QED
  BY <1>7, <1>8

\* The ledger and its limit are inductive together, for any interleaving of calls,
\* Redis failures, rollbacks, refunds and midnights.
LEMMA LedgerInvariance == Spec => []LedgerBalances /\ []WithinLimit
<1>1. Init => LedgerBalances /\ WithinLimit
  <2> SUFFICES ASSUME Init, NEW d \in Days
               PROVE  used[d] = Cardinality(Charged(d)) /\ used[d] <= Limit
    BY DEF LedgerBalances, WithinLimit
  <2>1. Charged(d) = {}
    BY DEF Init, Charged
  <2> QED
    BY <2>1, FS_EmptySet, QuotaAssumption DEF Init
<1>2. TypeOK /\ LedgerBalances /\ WithinLimit /\ [Next]_vars => (LedgerBalances /\ WithinLimit)'
  <2> SUFFICES ASSUME TypeOK, LedgerBalances, WithinLimit, [Next]_vars
               PROVE  (LedgerBalances /\ WithinLimit)'
    OBVIOUS
  <2>1. CASE UNCHANGED ledger
    BY <2>1 DEF ledger, LedgerBalances, WithinLimit, Charged
  <2>2. ASSUME NEW c \in Calls, CallStep(c)
        PROVE  UNCHANGED ledger \/ SqlReserve(c)
    BY <2>2 DEF CallStep, RedisReserve, RedisFails, SqlFails, CallerRollsBack, Compensate
  <2>3. ASSUME NEW r \in Requests, Commit(r)
        PROVE  (LedgerBalances /\ WithinLimit)'
    <3>1. ASSUME NEW d \in Days PROVE Charged(d)' = Charged(d)
      BY <2>3 DEF Commit, Charged, TypeOK
    <3> QED
      BY <2>3, <3>1 DEF Commit, LedgerBalances, WithinLimit
  <2>4. ASSUME NEW r \in Requests, Refund(r) \/ RefundCommitted(r)
        PROVE  (LedgerBalances /\ WithinLimit)'
    BY <2>4, RefundKeepsLedger DEF Refund, RefundCommitted
  <2> QED
    BY <2>1, <2>2, <2>3, <2>4, ReserveKeepsLedger
       DEF Next, RequestStep, RefundRollsBack, Midnight, RedisExpires, vars
<1> QED
  BY <1>1, <1>2, TypeCorrect, PTL DEF Spec

\* PostgreSQL is the authority: used counts exactly the requests that hold a
\* unit (SqlReserve, RefundCommitted and the other refunds).
THEOREM LedgerCorrect == Spec => []LedgerBalances
  BY LedgerInvariance, PTL

\* The guarded upsert keeps every day within the limit, without Redis.
THEOREM LimitHolds == Spec => []WithinLimit
  BY LedgerInvariance, PTL

-----------------------------------------------------------------------------
\* Each script changes the counter and the request keys together.
LEMMA ScriptsCountKeys ==
  ASSUME TypeOK, RedisCountsKeys, NEW r \in Requests, NEW d \in Days,
         ReserveLua(r, d) \/ RefundLua(r, d) \/ UNCHANGED redis
  PROVE  RedisCountsKeys'
<1>1. CASE UNCHANGED redis
  BY <1>1 DEF redis, RedisCountsKeys
<1>2. CASE ReserveLua(r, d) /\ ~UNCHANGED redis
  <2>1. /\ r \notin redisKeys[d]
        /\ redisUsed' = [redisUsed EXCEPT ![d] = @ + 1]
        /\ redisKeys' = [redisKeys EXCEPT ![d] = @ \cup {r}]
    BY <1>2 DEF ReserveLua, Decision
  <2>2. Cardinality(redisKeys[d] \cup {r}) = Cardinality(redisKeys[d]) + 1
    BY <2>1, CountedSetsFinite, FS_AddElement
  <2> QED
    BY <2>1, <2>2 DEF RedisCountsKeys, TypeOK
<1>3. CASE RefundLua(r, d) /\ ~UNCHANGED redis
  <2>1. /\ r \in redisKeys[d]
        /\ redisUsed' = [redisUsed EXCEPT ![d] = IF @ > 0 THEN @ - 1 ELSE @]
        /\ redisKeys' = [redisKeys EXCEPT ![d] = @ \ {r}]
    BY <1>3 DEF RefundLua
  <2>2. /\ Cardinality(redisKeys[d] \ {r}) = Cardinality(redisKeys[d]) - 1
        /\ Cardinality(redisKeys[d] \ {r}) \in Nat
    BY <2>1, CountedSetsFinite, FS_RemoveElement, FS_CardinalityType
  <2>3. redisUsed[d] > 0
    BY <2>2 DEF RedisCountsKeys, TypeOK
  <2> QED
    BY <2>1, <2>2, <2>3 DEF RedisCountsKeys, TypeOK
<1> QED
  BY <1>1, <1>2, <1>3

\* The Redis counter never drifts from the request keys, so the scripts' own
\* idempotency checks are sound.
THEOREM RedisCounterCorrect == Spec => []RedisCountsKeys
<1>1. Init => RedisCountsKeys
  BY FS_EmptySet DEF Init, RedisCountsKeys
<1>2. TypeOK /\ RedisCountsKeys /\ [Next]_vars => RedisCountsKeys'
  <2> SUFFICES ASSUME TypeOK, RedisCountsKeys, [Next]_vars
               PROVE  RedisCountsKeys'
    OBVIOUS
  <2>1. ASSUME NEW c \in Calls, NEW r \in Requests, RedisReserve(c, r) \/ RedisFails(c, r)
        PROVE  RedisCountsKeys'
    BY <2>1, ScriptsCountKeys DEF RedisReserve, RedisFails, TypeOK
  <2>2. ASSUME NEW c \in Calls, Compensate(c)
        PROVE  RedisCountsKeys'
    <3>1. call[c].req \in Requests /\ call[c].day \in Days
      BY <2>2 DEF Compensate, TypeOK, Idle, Active
    <3> QED
      BY <2>2, <3>1, ScriptsCountKeys DEF Compensate
  <2>3. ASSUME NEW r \in Requests, RequestStep(r)
        PROVE  RedisCountsKeys'
    <3>1. RefundDay(r) \in Days
      BY DEF RefundDay, TypeOK
    <3>2. RefundLua(r, RefundDay(r)) \/ UNCHANGED redis
      BY <2>3 DEF RequestStep, Commit, Refund, RefundCommitted, RefundRollsBack, RefundRedis
    <3> QED
      BY <3>1, <3>2, ScriptsCountKeys
  <2>4. ASSUME NEW d \in Days, RedisExpires(d)
        PROVE  RedisCountsKeys'
    BY <2>4, FS_EmptySet DEF RedisExpires, RedisCountsKeys, TypeOK
  <2>5. CASE UNCHANGED redis
    BY <2>5 DEF redis, RedisCountsKeys
  <2> QED
    BY <2>1, <2>2, <2>3, <2>4, <2>5
       DEF Next, CallStep, SqlReserve, SqlFails, CallerRollsBack, Midnight, vars
<1> QED
  BY <1>1, <1>2, TypeCorrect, PTL DEF Spec

-----------------------------------------------------------------------------
\* No call, fallback, retry or refund charges or refunds a request twice, or
\* moves its charge to another day.
THEOREM RequestsChargedOnce == Spec => ChargedOnce
<1> DEFINE Advances ==
      \A r \in Requests :
        /\ Rank(status'[r]) >= Rank(status[r])
        /\ status[r] # "none" => business_date'[r] = business_date[r]
<1>1. TypeOK /\ [Next]_vars => Advances \/ UNCHANGED vars
  <2> SUFFICES ASSUME TypeOK, Next PROVE Advances
    OBVIOUS
  <2>1. /\ Rank("none") = 0 /\ Rank("reserved") = 1
        /\ Rank("committed") = 2 /\ Rank("refunded") = 3
    BY DEF Rank
  <2>2. CASE UNCHANGED ledger
    BY <2>1, <2>2 DEF ledger, TypeOK, Statuses
  <2>3. ASSUME NEW c \in Calls, CallStep(c)
        PROVE  Advances
    <3>1. CASE UNCHANGED ledger
      BY <2>2, <3>1
    <3>2. CASE ~UNCHANGED ledger
      <4>1. SqlReserve(c)
        BY <2>3, <3>2 DEF CallStep, RedisReserve, RedisFails, SqlFails, CallerRollsBack, Compensate
      <4>2. call[c].req \in Requests
        BY <4>1 DEF SqlReserve, InSql, TypeOK, Idle, Active
      <4>3. /\ status[call[c].req] = "none"
            /\ status' = [status EXCEPT ![call[c].req] = "reserved"]
            /\ business_date' = [business_date EXCEPT ![call[c].req] = call[c].day]
        BY <3>2, <4>1 DEF SqlReserve, Fresh
      <4> QED
        BY <2>1, <4>2, <4>3 DEF TypeOK, Statuses
    <3> QED
      BY <3>1, <3>2
  <2>4. ASSUME NEW r \in Requests, RequestStep(r)
        PROVE  Advances
    BY <2>1, <2>2, <2>4 DEF RequestStep, Commit, Refund, RefundCommitted, RefundRollsBack,
                            RefundRow, TypeOK, Statuses
  <2> QED
    BY <2>2, <2>3, <2>4 DEF Next, Midnight, RedisExpires
<1> QED
  BY <1>1, TypeCorrect, PTL DEF Spec, ChargedOnce
=============================================================================
