------------------------------ MODULE RateLimit ------------------------------
(***************************************************************************)
(* The per-token rate limiter of src/src/ratelimit.rs.  A request reads    *)
(* the clock (Instant::now) before it takes the lock of the bucket map, so *)
(* charges may be applied out of the order of their instants; the sweeper  *)
(* drops idle buckets every minute, with an instant of its own.            *)
(*                                                                         *)
(* A request costs Unit, a bucket holds at most Burst requests and gains   *)
(* Rate each tick of the clock: f64 fractions are integers here.  No other *)
(* key touches a key's bucket.                                             *)
(***************************************************************************)
EXTENDS Integers

CONSTANTS
  Key,            \* hashes of tokens
  Caller,         \* requests that may be inside check at one time
  BURST, PER_SECOND,   \* the configuration, before new() mends it
  Unit,
  IDLE_EVICTION,
  MaxTime,        \* bound on the clock
  Absent

ASSUME LimiterAssumption ==
  /\ BURST \in Nat /\ PER_SECOND \in Int /\ Unit \in Nat \ {0}
  /\ IDLE_EVICTION \in Nat \ {0} /\ MaxTime \in Nat
  /\ Absent \notin Key /\ Absent \notin Int /\ Absent \notin [tokens : Nat, last_seen : Nat]

VARIABLES
  now,       \* the monotonic clock
  buckets,   \* buckets[k]: tokens and last_seen, or Absent
  checking,  \* checking[c]: the key c is charged to, or Absent
  instant,   \* instant[c]: the clock as c read it
  sweeping,  \* the instant the sweeper read, or Absent
  admitted,  \* admitted[k]: how many requests were allowed
  first,     \* first[k]: instant of the first charge, or Absent
  seen,      \* seen[k]: instant of the last charge or eviction
  rewound,   \* rewound[k]: ticks by which instants went back, in all
  retry      \* retry[k]: when the last denial told its caller to retry

limiterVars ==
  <<now, buckets, checking, instant, sweeping, admitted, first, seen, rewound, retry>>

burst == Unit * (IF BURST < 1 THEN 1 ELSE BURST)

per_second == IF PER_SECOND > 0 THEN PER_SECOND ELSE Unit

LimiterInit ==
  /\ now = 0
  /\ buckets = [k \in Key |-> Absent]
  /\ checking = [c \in Caller |-> Absent]
  /\ instant = [c \in Caller |-> 0]
  /\ sweeping = Absent
  /\ admitted = [k \in Key |-> 0]
  /\ first = [k \in Key |-> Absent]
  /\ seen = [k \in Key |-> 0]
  /\ rewound = [k \in Key |-> 0]
  /\ retry = [k \in Key |-> Absent]

\* a - b, saturating at zero.
Since(a, b) == IF a > b THEN a - b ELSE 0

Tick ==
  /\ now < MaxTime
  /\ now' = now + 1
  /\ UNCHANGED <<buckets, checking, instant, sweeping, admitted, first, seen, rewound, retry>>

\* The layer: a request with a bearer token reads the clock.  Without a token
\* or a limiter it passes, and nothing is charged.
ReadClock(c, k) ==
  /\ checking[c] = Absent
  /\ checking' = [checking EXCEPT ![c] = k]
  /\ instant' = [instant EXCEPT ![c] = now]
  /\ UNCHANGED <<now, buckets, sweeping, admitted, first, seen, rewound, retry>>

\* The tokens of a bucket at an instant; never more than the burst.
Refilled(bucket, at) ==
  LET tokens == bucket.tokens + Since(at, bucket.last_seen) * per_second
  IN IF tokens > burst THEN burst ELSE tokens

TokensOf(k, at) == IF buckets[k] = Absent THEN burst ELSE Refilled(buckets[k], at)

Allows(k, at) == TokensOf(k, at) >= Unit

AtLeast1(secs) == IF secs < 1 THEN 1 ELSE secs

\* Mutation: the wait is rounded down.
BackoffRoundedDown(tokens) == AtLeast1((Unit - tokens) \div per_second)

\* Whole seconds until the deficit is refilled, rounded up, at least one.
Backoff(tokens) == AtLeast1((Unit - tokens + per_second - 1) \div per_second)

\* The request gets the lock and charges its bucket, at its own instant.
Charge(c) ==
  LET k == checking[c]
      at == instant[c]
      tokens == TokensOf(k, at)
  IN /\ k # Absent
     /\ checking' = [checking EXCEPT ![c] = Absent]
     /\ buckets' = [buckets EXCEPT ![k] =
          [tokens |-> IF Allows(k, at) THEN tokens - Unit ELSE tokens, last_seen |-> at]]
     /\ admitted' = [admitted EXCEPT ![k] = IF Allows(k, at) THEN @ + 1 ELSE @]
     /\ retry' = [retry EXCEPT ![k] = IF Allows(k, at) THEN Absent ELSE at + Backoff(tokens)]
     /\ first' = [first EXCEPT ![k] = IF @ = Absent THEN at ELSE @]
     /\ seen' = [seen EXCEPT ![k] = at]
     /\ rewound' = [rewound EXCEPT ![k] = IF first[k] = Absent THEN 0 ELSE @ + Since(seen[k], at)]
     /\ instant' = [instant EXCEPT ![c] = 0]
     /\ UNCHANGED <<now, sweeping>>

SweepReadsClock ==
  /\ sweeping = Absent
  /\ sweeping' = now
  /\ UNCHANGED <<now, buckets, checking, instant, admitted, first, seen, rewound, retry>>

\* Mutation: a bucket is dropped whenever the sweeper comes by.
StaleAtOnce(k) == buckets[k] # Absent

Stale(k) == buckets[k] # Absent /\ Since(sweeping, buckets[k].last_seen) >= IDLE_EVICTION

\* sweep_at drops the buckets that were idle long enough.
Sweep ==
  /\ sweeping # Absent
  /\ buckets' = [k \in Key |-> IF Stale(k) THEN Absent ELSE buckets[k]]
  /\ seen' = [k \in Key |-> IF Stale(k) THEN sweeping ELSE seen[k]]
  /\ retry' = [k \in Key |-> IF Stale(k) THEN Absent ELSE retry[k]]
  /\ sweeping' = Absent
  /\ UNCHANGED <<now, checking, instant, admitted, first, rewound>>

LimiterNext ==
  \/ Tick
  \/ \E c \in Caller : (\E k \in Key : ReadClock(c, k)) \/ Charge(c)
  \/ SweepReadsClock
  \/ Sweep

LimiterSpec == LimiterInit /\ [][LimiterNext]_limiterVars

-----------------------------------------------------------------------------
\* The idle time refills any bucket: so it does with the default settings
\* (60 requests, 10 a second, 600 s), not with a refill slow enough.
IdleRefills == burst <= per_second * IDLE_EVICTION

(***************************************************************************)
(* What a token may spend: its burst, and the refill of the time it has    *)
(* been seen, plus the refill of the time by which late charges turned its *)
(* bucket's clock back.  Eviction gives nothing away if idling refills.    *)
(***************************************************************************)
AdmittedWithinBudget ==
  IdleRefills => \A k \in Key : first[k] # Absent =>
    Unit * admitted[k] + (IF buckets[k] = Absent THEN burst ELSE buckets[k].tokens)
      <= burst + per_second * (seen[k] - first[k] + rewound[k])

\* A denied caller that waits as long as it was told is allowed, if nobody
\* else used its token meanwhile, and however slow the refill is.
RetryAfterSuffices ==
  \A k \in Key : retry[k] # Absent => Allows(k, retry[k])
=============================================================================
