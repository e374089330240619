----------------------------- MODULE UsageQuota -----------------------------
(***************************************************************************)
(* The daily usage quota of app/services/usage/service.py for one student  *)
(* (uid_hash) and one feature: a Redis counter updated by two Lua scripts, *)
(* and the PostgreSQL tables usage_reservations and daily_usage, which are *)
(* the authority.                                                          *)
(*                                                                         *)
(* reserve() runs inside a transaction of its caller.  Its Redis script    *)
(* takes effect at once; its SQL takes effect when that transaction        *)
(* commits, and is one step here because the inserted reservation row and  *)
(* the updated counter row are locked until then.  Redis may fail before   *)
(* or after it ran a script, and the transaction may roll back.            *)
(***************************************************************************)
EXTENDS Integers, FiniteSets

CONSTANTS
  Requests,   \* request ids of the student
  Calls,      \* concurrent executions of reserve()
  Limit,      \* daily_limit of the policy
  LastDay     \* bound: business days are 1..LastDay

ASSUME QuotaAssumption ==
  /\ IsFiniteSet(Requests)
  /\ Limit \in Nat
  /\ LastDay \in Nat \ {0}

Days == 1..LastDay

VARIABLES
  status,         \* usage_reservations.status, "none" without a row
  business_date,  \* usage_reservations.business_date
  backend,        \* usage_reservations.backend
  used,           \* daily_usage.used, 0 without a row
  redisUsed,      \* the counter key of each day
  redisKeys,      \* the request keys of each day
  today,          \* the business day in Asia/Karachi
  call            \* what each execution of reserve() has in its local variables

ledger == <<status, business_date, backend, used>>
redis == <<redisUsed, redisKeys>>
vars == <<ledger, redis, today, call>>

Statuses == {"none", "reserved", "committed", "refunded"}
Backends == {"redis", "postgresql"}

\* A call that is not running, and a call between its Redis script and its SQL
\* ("sql") or about to refund Redis in its exception handler ("compensate").
Idle == [pc |-> "idle"]
Active == [pc : {"sql", "compensate"}, req : Requests, day : Days,
           via : Backends, incremented : BOOLEAN]

Init ==
  /\ status = [r \in Requests |-> "none"]
  /\ business_date = [r \in Requests |-> 1]
  /\ backend = [r \in Requests |-> "redis"]
  /\ used = [d \in Days |-> 0]
  /\ redisUsed = [d \in Days |-> 0]
  /\ redisKeys = [d \in Days |-> {}]
  /\ today = 1
  /\ call = [c \in Calls |-> Idle]

-----------------------------------------------------------------------------
(* The Lua scripts *)

\* The answer of _RESERVE_LUA for request r on day d.
Decision(r, d) ==
  IF r \in redisKeys[d] THEN "duplicate"
  ELSE IF redisUsed[d] >= Limit THEN "denied" ELSE "incremented"

\* The effect of _RESERVE_LUA.
ReserveLua(r, d) ==
  IF Decision(r, d) = "incremented"
    THEN /\ redisUsed' = [redisUsed EXCEPT ![d] = @ + 1]
         /\ redisKeys' = [redisKeys EXCEPT ![d] = @ \cup {r}]
    ELSE UNCHANGED redis

\* Mutant: the script decrements without its guard on the counter and key.
RefundLuaUnguarded(r, d) ==
  /\ redisKeys' = [redisKeys EXCEPT ![d] = @ \ {r}]
  /\ redisUsed' = [redisUsed EXCEPT ![d] = @ - 1]

\* Mutant: the script decrements whether or not DEL found the request key.
RefundLuaAlways(r, d) ==
  /\ redisKeys' = [redisKeys EXCEPT ![d] = @ \ {r}]
  /\ redisUsed' = [redisUsed EXCEPT ![d] = IF @ > 0 THEN @ - 1 ELSE @]

\* The effect of _REFUND_LUA.
RefundLua(r, d) ==
  IF r \in redisKeys[d]
    THEN /\ redisKeys' = [redisKeys EXCEPT ![d] = @ \ {r}]
         /\ redisUsed' = [redisUsed EXCEPT ![d] = IF @ > 0 THEN @ - 1 ELSE @]
    ELSE UNCHANGED redis

-----------------------------------------------------------------------------
(* reserve() *)

Begin(c, r, source, inc) ==
  call' = [call EXCEPT ![c] = [pc |-> "sql", req |-> r, day |-> today,
                               via |-> source, incremented |-> inc]]

\* The script's reply decides: over the limit raises UsageLimitExceeded.
RedisReserve(c, r) ==
  /\ call[c] = Idle
  /\ ReserveLua(r, today)
  /\ \/ Decision(r, today) = "denied" /\ UNCHANGED call
     \/ Decision(r, today) = "duplicate" /\ Begin(c, r, "redis", FALSE)
     \/ Decision(r, today) = "incremented" /\ Begin(c, r, "redis", TRUE)
  /\ UNCHANGED <<ledger, today>>

\* Redis raises, possibly after it ran the script: the PostgreSQL fallback.
RedisFails(c, r) ==
  /\ call[c] = Idle
  /\ ReserveLua(r, today) \/ UNCHANGED redis
  /\ Begin(c, r, "postgresql", FALSE)
  /\ UNCHANGED <<ledger, today>>

InSql(c) == call[c].pc = "sql"

Return(c) == call' = [call EXCEPT ![c] = Idle]

\* The exception handler of reserve() refunds Redis only if this call's own
\* script run incremented it.
HandleError(c) ==
  call' = [call EXCEPT ![c] = IF @.incremented THEN [@ EXCEPT !.pc = "compensate"] ELSE Idle]

\* Mutant: a refunded reservation is revived instead of returned.
FreshMutant(r) == status[r] \in {"none", "refunded"}

\* The INSERT into usage_reservations meets no row of (request_id, uid_hash).
Fresh(r) == status[r] = "none"

\* Mutant: the comparison with the limit is off by one.
RoomMutant(d) == used[d] <= Limit

\* The guarded upsert of daily_usage finds room.
Room(d) == used[d] < Limit

\* The SQL of reserve(), committed with its caller's transaction.
SqlReserve(c) ==
  LET r == call[c].req
      d == call[c].day
  IN  /\ InSql(c)
      /\ \/ /\ Fresh(r) /\ Room(d)
            /\ status' = [status EXCEPT ![r] = "reserved"]
            /\ business_date' = [business_date EXCEPT ![r] = d]
            /\ backend' = [backend EXCEPT ![r] = call[c].via]
            /\ used' = [used EXCEPT ![d] = @ + 1]
            /\ Return(c)
         \/ Fresh(r) /\ ~Room(d) /\ HandleError(c) /\ UNCHANGED ledger
         \/ ~Fresh(r) /\ Return(c) /\ UNCHANGED ledger
      /\ UNCHANGED <<redis, today>>

\* A statement of reserve() fails, which rolls the transaction back.
SqlFails(c) == InSql(c) /\ HandleError(c) /\ UNCHANGED <<ledger, redis, today>>

\* reserve() returned, but its caller's transaction rolls back later, or the
\* process dies: nothing compensates Redis.
CallerRollsBack(c) == InSql(c) /\ Return(c) /\ UNCHANGED <<ledger, redis, today>>

\* The refund in reserve()'s exception handler, which Redis may fail.
Compensate(c) ==
  /\ call[c].pc = "compensate"
  /\ RefundLua(call[c].req, call[c].day) \/ UNCHANGED redis
  /\ Return(c)
  /\ UNCHANGED <<ledger, today>>

-----------------------------------------------------------------------------
(* commit(), refund(), refund_committed() *)

Commit(r) ==
  /\ status[r] = "reserved"
  /\ status' = [status EXCEPT ![r] = "committed"]
  /\ UNCHANGED <<business_date, backend, used, redis, today, call>>

\* Mutant: a refund gives back to the current day.
RefundDayMutant(r) == today

\* The day whose counters a refund gives back to: the row's own, not today.
RefundDay(r) == business_date[r]

\* The SQL of both refunds, after their guard on the status matched.
RefundRow(r) ==
  /\ status' = [status EXCEPT ![r] = "refunded"]
  /\ used' = [used EXCEPT ![RefundDay(r)] = IF @ > 0 THEN @ - 1 ELSE 0]

\* The best-effort Redis refund for rows reserved through Redis.
RefundRedis(r) ==
  \/ backend[r] = "redis" /\ RefundLua(r, RefundDay(r))
  \/ UNCHANGED redis

Refund(r) ==
  /\ status[r] = "reserved"
  /\ RefundRow(r) /\ RefundRedis(r)
  /\ UNCHANGED <<business_date, backend, today, call>>

RefundCommitted(r) ==
  /\ status[r] = "committed"
  /\ RefundRow(r) /\ RefundRedis(r)
  /\ UNCHANGED <<business_date, backend, today, call>>

\* Either refund ran its Redis script, and its transaction rolled back.
RefundRollsBack(r) ==
  /\ status[r] \in {"reserved", "committed"}
  /\ backend[r] = "redis"
  /\ RefundLua(r, RefundDay(r))
  /\ UNCHANGED <<ledger, today, call>>

-----------------------------------------------------------------------------
(* Time *)

Midnight ==
  /\ today < LastDay
  /\ today' = today + 1
  /\ UNCHANGED <<ledger, redis, call>>

\* Both keys of a past day carry the same time to live.
RedisExpires(d) ==
  /\ d < today
  /\ redisUsed' = [redisUsed EXCEPT ![d] = 0]
  /\ redisKeys' = [redisKeys EXCEPT ![d] = {}]
  /\ UNCHANGED <<ledger, today, call>>

-----------------------------------------------------------------------------
CallStep(c) ==
  \/ \E r \in Requests : RedisReserve(c, r) \/ RedisFails(c, r)
  \/ SqlReserve(c) \/ SqlFails(c) \/ CallerRollsBack(c) \/ Compensate(c)

RequestStep(r) == Commit(r) \/ Refund(r) \/ RefundCommitted(r) \/ RefundRollsBack(r)

Next ==
  \/ \E c \in Calls : CallStep(c)
  \/ \E r \in Requests : RequestStep(r)
  \/ Midnight
  \/ \E d \in Days : RedisExpires(d)

Spec == Init /\ [][Next]_vars

-----------------------------------------------------------------------------
(* Properties *)

\* Every row, key and local variable stays in its domain.
TypeOK ==
  /\ status \in [Requests -> Statuses]
  /\ business_date \in [Requests -> Days]
  /\ backend \in [Requests -> Backends]
  /\ used \in [Days -> Nat]
  /\ redisUsed \in [Days -> Nat]
  /\ redisKeys \in [Days -> SUBSET Requests]
  /\ today \in Days
  /\ call \in [Calls -> {Idle} \cup Active]

\* Requests that hold a unit of day d.
Charged(d) == {r \in Requests : status[r] \in {"reserved", "committed"} /\ business_date[r] = d}

\* The authoritative counter is exactly the number of requests holding a unit
\* of that day: no sequence of duplicates, rollbacks, fallbacks and refunds,
\* before or after midnight, loses or invents one, and GREATEST(used-1, 0)
\* never hides an underflow.
LedgerBalances == \A d \in Days : used[d] = Cardinality(Charged(d))

\* PostgreSQL never admits more than the daily limit, whatever Redis does.
WithinLimit == \A d \in Days : used[d] <= Limit

\* The Redis counter is the number of request keys, so that a retried request
\* is counted once and a repeated refund gives back once.
RedisCountsKeys == \A d \in Days : redisUsed[d] = Cardinality(redisKeys[d])

Rank(s) == CASE s = "none" -> 0 [] s = "reserved" -> 1
             [] s = "committed" -> 2 [] s = "refunded" -> 3

\* A request is charged at most once and refunded at most once: its
\* reservation only advances, and keeps the day it was charged to.
ChargedOnce ==
  [][\A r \in Requests :
       /\ Rank(status'[r]) >= Rank(status[r])
       /\ status[r] # "none" => business_date'[r] = business_date[r]]_vars
=============================================================================
