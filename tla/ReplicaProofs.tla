---------------------------- MODULE ReplicaProofs ----------------------------
(***************************************************************************)
(* The parts of one replica that MCReplica runs side by side, for every    *)
(* size of them:                                                           *)
(*   - starting and migrating (BootInv): each migration is applied once    *)
(*     and in order, no server that migrates serves an older schema, and   *)
(*     connecting gives up in time;                                        *)
(*   - the rate limiter (LimiterInv): a token never spends more than its   *)
(*     budget, and a denied caller is told a wait that suffices;           *)
(*   - the extraction of one file (FilesInv): a request never decompresses *)
(*     more than its budget, and its answer is so.                         *)
(***************************************************************************)
EXTENDS Boot, RateLimit, Files, FiniteLemmas

(***************************************************************************)
(* Starting, for any number of servers, commands and migrations.           *)
(***************************************************************************)
Stages == {"connecting", "connected", "pending", "migrating", "ready", "serving", "exited"}

BootType ==
  /\ stage \in [Process -> Stages]
  /\ elapsed \in [Process -> Nat]
  /\ gaveUp \subseteq Server
  /\ pending \in [Process -> Nat]
  /\ applied \in Seq(Nat)
  /\ ddl \in Process \cup {Nobody}
  /\ trouble \in BOOLEAN

\* The database holds a prefix of the migrations.
Prefix ==
  /\ Len(applied) <= Migrations
  /\ \A i \in 1..Len(applied) : applied[i] = i

\* The tables are held by the process that migrates, which knows what is
\* pending; and past its migration, a process that migrates finds it all done.
MigratesAlone ==
  \A p \in Process :
    /\ stage[p] = "migrating" => ddl = p /\ pending[p] = Len(applied)
    /\ stage[p] \in {"ready", "serving"} /\ Migrates(p) => Len(applied) = Migrations

Patience ==
  /\ \A p \in Process : stage[p] = "connecting" => elapsed[p] < MaxWait + RetrySleep \/ elapsed[p] = 0
  /\ \A p \in gaveUp :
       stage[p] = "exited" /\ elapsed[p] \in MaxWait..(MaxWait + RetrySleep + AttemptMax)

BootInv == BootType /\ Prefix /\ MigratesAlone /\ Patience

-----------------------------------------------------------------------------
LEMMA BootStarts == BootInit => BootInv
<1> SUFFICES ASSUME BootInit PROVE BootInv
  OBVIOUS
<1>1. PICK n \in 0..Migrations : applied = [i \in 1..n |-> i]
  BY DEF BootInit
<1>2. applied \in Seq(Nat) /\ Len(applied) = n /\ \A i \in 1..n : applied[i] = i
  BY <1>1, BootAssumption
<1>3. BootType
  BY <1>2 DEF BootInit, BootType, Stages
<1>4. Prefix
  BY <1>2, BootAssumption DEF Prefix
<1>5. MigratesAlone /\ Patience
  BY DEF BootInit, MigratesAlone, Patience
<1> QED
  BY <1>3, <1>4, <1>5 DEF BootInv

\* Steps that apply nothing and leave the transactions alone.
LEMMA QuietSteps ==
  ASSUME BootInv, NEW p \in Process,
         \/ Connect(p) \/ LookForPending(p) \/ MigrateConflicts(p) \/ Serve(p)
         \/ StartAgain(p)
  PROVE  BootInv'
<1> USE BootAssumption DEF Stage, Stages
<1>1. CASE Connect(p)
  BY <1>1 DEF Connect, BootInv, BootType, Prefix, MigratesAlone, Patience, Migrates
<1>2. CASE LookForPending(p)
  <2>1. /\ stage[p] = "connected"
        /\ stage' = [stage EXCEPT ![p] =
             IF ~Migrates(p) \/ Len(applied) = Migrations THEN "ready" ELSE "pending"]
        /\ pending' = [pending EXCEPT ![p] = Len(applied)]
        /\ UNCHANGED <<elapsed, gaveUp, applied, ddl, trouble>>
    BY <1>2 DEF LookForPending
  <2>2. Len(applied) \in Nat
    BY DEF BootInv, BootType
  <2>3. BootType' /\ Prefix'
    BY <2>1, <2>2 DEF BootInv, BootType, Prefix
  <2>4. MigratesAlone'
    BY <2>1, <2>2 DEF BootInv, BootType, MigratesAlone, Migrates
  <2>5. Patience'
    BY <2>1 DEF BootInv, BootType, Patience
  <2> QED
    BY <2>3, <2>4, <2>5 DEF BootInv
<1>3. CASE MigrateConflicts(p)
  BY <1>3 DEF MigrateConflicts, BootInv, BootType, Prefix, MigratesAlone, Patience, Migrates
<1>4. CASE Serve(p)
  BY <1>4 DEF Serve, BootInv, BootType, Prefix, MigratesAlone, Patience, Migrates
<1>5. CASE StartAgain(p)
  BY <1>5 DEF StartAgain, BootInv, BootType, Prefix, MigratesAlone, Patience, Migrates
<1> QED
  BY <1>1, <1>2, <1>3, <1>4, <1>5

LEMMA ConnectFailsPreserves ==
  ASSUME BootInv, NEW p \in Process, NEW secs \in 0..AttemptMax, ConnectFails(p, secs)
  PROVE  BootInv'
<1> USE BootAssumption DEF Stages
<1>1. stage[p] = "connecting" /\ UNCHANGED <<pending, applied, ddl, trouble>>
  BY DEF ConnectFails, Stage
<1>2. elapsed[p] \in Nat /\ (elapsed[p] < MaxWait + RetrySleep \/ elapsed[p] = 0)
  BY <1>1 DEF BootInv, BootType, Patience
<1>3. CASE p \in Command \/ OutOfTime(p, secs)
  <2>1. /\ stage' = [stage EXCEPT ![p] = "exited"]
        /\ elapsed' = [elapsed EXCEPT ![p] = @ + secs]
        /\ gaveUp' = gaveUp \cup ({p} \cap Server)
    BY <1>3 DEF ConnectFails, Stage, Waited
  <2>2. BootType' /\ Prefix'
    BY <1>1, <2>1 DEF BootInv, BootType, Prefix
  <2>3. MigratesAlone'
    BY <1>1, <2>1 DEF BootInv, BootType, MigratesAlone, Migrates
  <2>4. p \in Server => elapsed[p] + secs \in MaxWait..(MaxWait + RetrySleep + AttemptMax)
    BY <1>2, <1>3 DEF OutOfTime
  <2>5. Patience'
    BY <1>1, <2>1, <2>4 DEF BootInv, BootType, Patience, Process
  <2> QED
    BY <2>2, <2>3, <2>5 DEF BootInv
<1>4. CASE ~(p \in Command \/ OutOfTime(p, secs))
  <2>1. /\ UNCHANGED <<stage, gaveUp>>
        /\ elapsed' = [elapsed EXCEPT ![p] = @ + (secs + RetrySleep)]
    BY <1>4 DEF ConnectFails, Waited
  <2>2. BootType' /\ Prefix'
    BY <1>1, <2>1 DEF BootInv, BootType, Prefix
  <2>3. MigratesAlone'
    BY <1>1, <2>1 DEF BootInv, MigratesAlone, Migrates
  <2>4. elapsed[p] + (secs + RetrySleep) < MaxWait + RetrySleep
    BY <1>2, <1>4 DEF OutOfTime
  <2>5. Patience'
    BY <1>1, <2>1, <2>4 DEF BootInv, BootType, Patience
  <2> QED
    BY <2>2, <2>3, <2>5 DEF BootInv
<1> QED
  BY <1>3, <1>4

LEMMA MigratePreserves ==
  ASSUME BootInv, NEW p \in Process, Migrate(p)
  PROVE  BootInv'
<1> USE BootAssumption DEF Stages
<1>1. /\ ddl = Nobody /\ pending[p] = Len(applied) /\ stage[p] = "pending"
      /\ stage' = [stage EXCEPT ![p] = "migrating"] /\ ddl' = p
      /\ UNCHANGED <<elapsed, gaveUp, pending, applied, trouble>>
  BY DEF Migrate, Free, Stage
<1>2. BootType' /\ Prefix' /\ Patience'
  BY <1>1 DEF BootInv, BootType, Prefix, Patience
<1>3. MigratesAlone'
  BY <1>1 DEF BootInv, BootType, MigratesAlone, Migrates
<1> QED
  BY <1>2, <1>3 DEF BootInv

\* What is appended continues the prefix to its end.
LEMMA CommitPreserves ==
  ASSUME BootInv, NEW p \in Process, CommitMigrations(p)
  PROVE  BootInv'
<1> USE BootAssumption DEF Stages
<1> DEFINE rest == [i \in 1..(Migrations - pending[p]) |-> pending[p] + i]
<1>1. /\ stage[p] = "migrating" /\ stage' = [stage EXCEPT ![p] = "ready"]
      /\ applied' = applied \o rest /\ ddl' = Nobody
      /\ UNCHANGED <<elapsed, gaveUp, pending, trouble>>
  BY DEF CommitMigrations, Stage
<1>2. /\ ddl = p /\ pending[p] = Len(applied) /\ applied \in Seq(Nat) /\ Len(applied) \in Nat
      /\ Len(applied) <= Migrations /\ \A i \in 1..Len(applied) : applied[i] = i
  BY <1>1 DEF BootInv, BootType, MigratesAlone, Prefix
<1>3. Migrations - pending[p] \in Nat
  BY <1>2
<1>4. rest \in Seq(Nat) /\ Len(rest) = Migrations - pending[p]
  BY <1>2, <1>3
<1>5. applied' \in Seq(Nat) /\ Len(applied') = Migrations
  BY <1>1, <1>2, <1>4
<1>6. ASSUME NEW i \in 1..Migrations PROVE applied'[i] = i
  <2>1. CASE i <= Len(applied)
    BY <1>1, <1>2, <1>4, <2>1
  <2>2. CASE i > Len(applied)
    <3>1. applied'[i] = rest[i - Len(applied)]
      BY <1>1, <1>2, <1>4, <2>2
    <3> QED
      BY <1>2, <2>2, <3>1
  <2> QED
    BY <1>2, <2>1, <2>2
<1>7. BootType' /\ Prefix' /\ Patience'
  <2>1. BootType'
    BY <1>1, <1>5 DEF BootInv, BootType
  <2>2. Prefix'
    BY <1>5, <1>6 DEF Prefix
  <2>3. Patience'
    BY <1>1 DEF BootInv, BootType, Patience
  <2> QED
    BY <2>1, <2>2, <2>3
<1>8. MigratesAlone'
  BY <1>1, <1>2, <1>5 DEF BootInv, BootType, MigratesAlone, Migrates
<1> QED
  BY <1>7, <1>8 DEF BootInv

LEMMA FailPreserves ==
  ASSUME BootInv, NEW p \in Process, Fail(p)
  PROVE  BootInv'
<1> USE BootAssumption DEF Stages
<1>1. /\ stage[p] \notin {"connecting", "exited"}
      /\ stage' = [stage EXCEPT ![p] = "exited"]
      /\ ddl' = IF ddl = p THEN Nobody ELSE ddl
      /\ UNCHANGED <<elapsed, gaveUp, pending, applied, trouble>>
  BY DEF Fail
<1>2. BootType' /\ Prefix' /\ Patience'
  BY <1>1 DEF BootInv, BootType, Prefix, Patience
<1>3. MigratesAlone'
  BY <1>1 DEF BootInv, BootType, MigratesAlone, Migrates
<1> QED
  BY <1>2, <1>3 DEF BootInv

LEMMA BootPreserves == BootInv /\ [BootNext]_bootVars => BootInv'
<1> SUFFICES ASSUME BootInv, [BootNext]_bootVars PROVE BootInv'
  OBVIOUS
<1>1. ASSUME NEW p \in Process, Progress(p) \/ Fail(p) \/ StartAgain(p) PROVE BootInv'
  BY <1>1, QuietSteps, MigratePreserves, CommitPreserves, FailPreserves DEF Progress
<1>2. ASSUME NEW p \in Process, NEW secs \in 0..AttemptMax, ConnectFails(p, secs) PROVE BootInv'
  BY <1>2, ConnectFailsPreserves
<1>3. CASE Trouble \/ UNCHANGED bootVars
  <2>1. CASE Trouble
    BY <2>1, BootAssumption DEF Trouble, BootInv, BootType, Prefix, MigratesAlone, Patience, Migrates
  <2>2. CASE UNCHANGED bootVars
    BY <2>2 DEF bootVars, BootInv, BootType, Prefix, MigratesAlone, Patience, Migrates
  <2> QED
    BY <1>3, <2>1, <2>2
<1> QED
  BY <1>1, <1>2, <1>3 DEF BootNext

\* The inductive invariant of booting: BootInv.
THEOREM BootInvariant == BootSpec => []BootInv
<1>1. BootInit => BootInv
  BY BootStarts
<1>2. BootInv /\ [BootNext]_bootVars => BootInv'
  BY BootPreserves
<1> QED
  BY <1>1, <1>2, PTL DEF BootSpec

-----------------------------------------------------------------------------
(***************************************************************************)
(* run and Migrator::up: however many replicas and commands start at once, *)
(* and wherever they fail, no migration is applied twice or out of order,  *)
(* and a server with AUTO_MIGRATE serves the full schema only.             *)
(***************************************************************************)
THEOREM ServersSeeFullSchema == BootSpec => []ServingIsMigrated
<1>1. BootInv => ServingIsMigrated
  <2> SUFFICES ASSUME BootInv PROVE ServingIsMigrated
    OBVIOUS
  <2>1. DOMAIN applied = 1..Len(applied)
    BY DEF BootInv, BootType
  <2> QED
    BY <2>1, BootAssumption DEF BootInv, Prefix, MigratesAlone, Migrates, ServingIsMigrated, Process
<1> QED
  BY <1>1, BootInvariant, PTL

(***************************************************************************)
(* connect_with_retry: a server gives up only after its deadline, and at   *)
(* most one sleep and one attempt later.                                   *)
(***************************************************************************)
THEOREM ConnectingIsBounded == BootSpec => []GivesUpInTime
<1>1. BootInv => GivesUpInTime
  BY BootAssumption DEF BootInv, Patience, GivesUpInTime, Process
<1> QED
  BY <1>1, BootInvariant, PTL
-----------------------------------------------------------------------------
(***************************************************************************)
(* The rate limiter, for every number of tokens, of requests inside check, *)
(* and every setting.  Its promises are about one bucket; LimiterInv ties  *)
(* the bucket to what has been charged to it.  The arithmetic is that of   *)
(* products with per_second, and stands in the lemmas at the beginning.    *)
(***************************************************************************)
Bucket == [tokens : Nat, last_seen : Nat]

LimiterType ==
  /\ now \in Nat
  /\ buckets \in [Key -> Bucket \cup {Absent}]
  /\ checking \in [Caller -> Key \cup {Absent}]
  /\ instant \in [Caller -> Nat]
  /\ sweeping \in Nat \cup {Absent}
  /\ admitted \in [Key -> Nat]
  /\ first \in [Key -> Nat \cup {Absent}]
  /\ seen \in [Key -> Nat]
  /\ rewound \in [Key -> Nat]
  /\ retry \in [Key -> Nat \cup {Absent}]

\* A bucket was last touched when the key was seen, and is at most full.
BucketsKept ==
  \A k \in Key :
    /\ buckets[k] # Absent =>
         first[k] # Absent /\ buckets[k].last_seen = seen[k] /\ buckets[k].tokens <= burst
    /\ first[k] = Absent => admitted[k] = 0
    /\ retry[k] # Absent => buckets[k] # Absent

Held(k) == IF buckets[k] = Absent THEN burst ELSE buckets[k].tokens

WithinBudget(k) ==
  Unit * admitted[k] + Held(k) <= burst + per_second * (seen[k] - first[k] + rewound[k])

LimiterInv ==
  /\ LimiterType
  /\ BucketsKept
  /\ IdleRefills => \A k \in Key : first[k] # Absent => WithinBudget(k)
  /\ RetryAfterSuffices

-----------------------------------------------------------------------------
LEMMA Constants ==
  /\ Unit \in Nat /\ Unit >= 1
  /\ burst \in Nat /\ burst >= Unit
  /\ per_second \in Nat /\ per_second >= 1
  /\ IDLE_EVICTION \in Nat
BY LimiterAssumption DEF burst, per_second

LEMMA Distributes ==
  ASSUME NEW r \in Int, NEW a \in Int, NEW b \in Int
  PROVE  r * (a + b) = r * a + r * b
OBVIOUS

LEMMA ProductGrows ==
  ASSUME NEW r \in Nat, NEW a \in Int, NEW b \in Int, a <= b
  PROVE  r * a <= r * b
OBVIOUS

\* Rounded up, the quotient covers the deficit.
LEMMA RoundsUp ==
  ASSUME NEW r \in Nat, r >= 1, NEW d \in Nat
  PROVE  /\ (d + r - 1) \div r \in Nat
         /\ ((d + r - 1) \div r) * r >= d
<1> DEFINE q == (d + r - 1) \div r
           m == (d + r - 1) % r
<1>1. d + r - 1 \in Nat
  OBVIOUS
<1>2. q \in Int /\ m \in 0..(r - 1) /\ d + r - 1 = r * q + m
  BY <1>1
<1>3. q \in Nat
  BY <1>2, <1>1
<1>4. r * q >= d
  BY <1>2
<1> QED
  BY <1>2, <1>3, <1>4

LEMMA RefilledBounds ==
  ASSUME NEW bucket \in Bucket, NEW t \in Nat
  PROVE  /\ Since(t, bucket.last_seen) \in Nat
         /\ Refilled(bucket, t) \in Nat
         /\ Refilled(bucket, t) <= burst
         /\ Refilled(bucket, t) <= bucket.tokens + per_second * Since(t, bucket.last_seen)
<1>1. Since(t, bucket.last_seen) \in Nat
  BY DEF Since, Bucket
<1>2. Since(t, bucket.last_seen) * per_second \in Nat
  BY <1>1, Constants
<1>3. per_second * Since(t, bucket.last_seen) = Since(t, bucket.last_seen) * per_second
  BY <1>1, Constants
<1> HIDE DEF Since
<1> QED
  BY <1>1, <1>2, <1>3, Constants DEF Refilled, Bucket

LEMMA TokensBounds ==
  ASSUME LimiterType, NEW k \in Key, NEW t \in Nat
  PROVE  /\ TokensOf(k, t) \in Nat
         /\ TokensOf(k, t) <= burst
         /\ buckets[k] = Absent => TokensOf(k, t) = burst
         /\ buckets[k] # Absent =>
              /\ buckets[k] \in Bucket
              /\ TokensOf(k, t) <= buckets[k].tokens + per_second * Since(t, buckets[k].last_seen)
<1>1. buckets[k] \in Bucket \cup {Absent}
  BY DEF LimiterType
<1>2. CASE buckets[k] = Absent
  BY <1>2, Constants DEF TokensOf
<1>3. CASE buckets[k] # Absent
  BY <1>1, <1>3, RefilledBounds DEF TokensOf
<1> QED
  BY <1>2, <1>3

\* The wait a denied request is told, on top of what its bucket has.
LEMMA BackoffCovers ==
  ASSUME NEW tokens \in Nat, tokens < Unit
  PROVE  /\ Backoff(tokens) \in Nat
         /\ tokens + Backoff(tokens) * per_second >= Unit
<1> DEFINE q == (Unit - tokens + per_second - 1) \div per_second
<1>1. q \in Nat /\ q * per_second >= Unit - tokens
  BY Constants, RoundsUp
<1>2. CASE q < 1
  <2>1. q = 0
    BY <1>1, <1>2
  <2>2. q * per_second = 0
    BY <2>1, Constants
  <2> QED
    BY <1>1, <2>2, Constants
<1>3. CASE q >= 1
  <2>1. Backoff(tokens) = q
    BY <1>1, <1>3 DEF Backoff, AtLeast1
  <2>2. q * per_second \in Nat
    BY <1>1, Constants
  <2> HIDE DEF q
  <2> QED
    BY <1>1, <2>1, <2>2, Constants
<1> QED
  BY <1>1, <1>2, <1>3


-----------------------------------------------------------------------------
LEMMA LimiterStarts == LimiterInit => LimiterInv
<1> SUFFICES ASSUME LimiterInit PROVE LimiterInv
  OBVIOUS
<1>1. LimiterType
  BY DEF LimiterInit, LimiterType
<1>2. BucketsKept
  BY DEF LimiterInit, BucketsKept
<1>3. ~ \E k \in Key : first[k] # Absent \/ retry[k] # Absent
  BY DEF LimiterInit
<1> QED
  BY <1>1, <1>2, <1>3 DEF LimiterInv, RetryAfterSuffices

\* A charge, at the caller's instant, whatever it is.
LEMMA ChargePreserves ==
  ASSUME LimiterInv, NEW c \in Caller, Charge(c)
  PROVE  LimiterInv'
<1>1. PICK k \in Key, t \in Nat : k = checking[c] /\ t = instant[c]
  BY DEF LimiterInv, LimiterType, Charge
<1> DEFINE tokens == TokensOf(k, t)
           left == IF Allows(k, t) THEN tokens - Unit ELSE tokens
<1>2. /\ tokens \in Nat
      /\ tokens <= burst
      /\ buckets[k] = Absent => tokens = burst
      /\ buckets[k] # Absent =>
           /\ buckets[k] \in Bucket
           /\ tokens <= buckets[k].tokens + per_second * Since(t, buckets[k].last_seen)
  BY <1>1, TokensBounds DEF LimiterInv
<1>3. left \in Nat /\ left <= burst
  BY <1>2, Constants DEF Allows
<1>4. /\ checking' = [checking EXCEPT ![c] = Absent]
      /\ buckets' = [buckets EXCEPT ![k] = [tokens |-> left, last_seen |-> t]]
      /\ admitted' = [admitted EXCEPT ![k] = IF Allows(k, t) THEN @ + 1 ELSE @]
      /\ retry' = [retry EXCEPT ![k] = IF Allows(k, t) THEN Absent ELSE t + Backoff(tokens)]
      /\ first' = [first EXCEPT ![k] = IF @ = Absent THEN t ELSE @]
      /\ seen' = [seen EXCEPT ![k] = t]
      /\ rewound' = [rewound EXCEPT ![k] = IF first[k] = Absent THEN 0 ELSE @ + Since(seen[k], t)]
      /\ instant' = [instant EXCEPT ![c] = 0]
      /\ now' = now /\ sweeping' = sweeping
  BY <1>1 DEF Charge
<1>5. ~Allows(k, t) => Backoff(tokens) \in Nat /\ tokens + Backoff(tokens) * per_second >= Unit
  BY <1>2, BackoffCovers, Constants DEF Allows
<1>6. Since(seen[k], t) \in Nat
  BY <1>1 DEF Since, LimiterInv, LimiterType
<1>7. /\ admitted'[k] = IF Allows(k, t) THEN admitted[k] + 1 ELSE admitted[k]
      /\ buckets'[k] = [tokens |-> left, last_seen |-> t]
      /\ buckets'[k] # Absent
      /\ first'[k] = IF first[k] = Absent THEN t ELSE first[k]
      /\ first'[k] \in Nat
      /\ seen'[k] = t
      /\ rewound'[k] = IF first[k] = Absent THEN 0 ELSE rewound[k] + Since(seen[k], t)
      /\ retry'[k] = IF Allows(k, t) THEN Absent ELSE t + Backoff(tokens)
  <2>1. buckets'[k] \in Bucket /\ buckets'[k] = [tokens |-> left, last_seen |-> t]
    BY <1>1, <1>3, <1>4 DEF LimiterInv, LimiterType, Bucket
  <2>2. Absent \notin Bucket
    BY LimiterAssumption DEF Bucket
  <2> QED
    BY <1>1, <1>4, <2>1, <2>2 DEF LimiterInv, LimiterType
<1>8. \A j \in Key \ {k} : /\ buckets'[j] = buckets[j] /\ admitted'[j] = admitted[j]
                           /\ first'[j] = first[j] /\ seen'[j] = seen[j]
                           /\ rewound'[j] = rewound[j] /\ retry'[j] = retry[j]
  BY <1>1, <1>4 DEF LimiterInv, LimiterType
<1> HIDE DEF tokens, left
<1>9. LimiterType'
  <2>1. buckets' \in [Key -> Bucket \cup {Absent}]
    BY <1>1, <1>3, <1>4 DEF LimiterInv, LimiterType, Bucket
  <2>2. /\ admitted' \in [Key -> Nat]
        /\ first' \in [Key -> Nat \cup {Absent}]
        /\ seen' \in [Key -> Nat]
        /\ rewound' \in [Key -> Nat]
    BY <1>1, <1>4, <1>6 DEF LimiterInv, LimiterType
  <2>3. retry' \in [Key -> Nat \cup {Absent}]
    BY <1>1, <1>4, <1>5 DEF LimiterInv, LimiterType
  <2>4. /\ now' \in Nat /\ sweeping' \in Nat \cup {Absent}
        /\ checking' \in [Caller -> Key \cup {Absent}]
        /\ instant' \in [Caller -> Nat]
    BY <1>4 DEF LimiterInv, LimiterType
  <2> QED
    BY <2>1, <2>2, <2>3, <2>4 DEF LimiterType
<1>10. BucketsKept'
  <2> SUFFICES ASSUME NEW j \in Key
               PROVE  /\ buckets'[j] # Absent =>
                           /\ first'[j] # Absent
                           /\ buckets'[j].last_seen = seen'[j]
                           /\ buckets'[j].tokens <= burst
                      /\ first'[j] = Absent => admitted'[j] = 0
                      /\ retry'[j] # Absent => buckets'[j] # Absent
    BY DEF BucketsKept, burst
  <2>1. CASE j = k
    BY <2>1, <1>3, <1>7, LimiterAssumption
  <2>2. CASE j # k
    BY <2>2, <1>8 DEF LimiterInv, BucketsKept
  <2> QED
    BY <2>1, <2>2
<1>11. ASSUME IdleRefills, NEW j \in Key, first'[j] # Absent
       PROVE  WithinBudget(j)'
  <2>1. CASE j # k
    BY <1>8, <1>11, <2>1 DEF LimiterInv, WithinBudget, Held, burst, per_second
  <2>2. CASE j = k
    <3>1. Unit * admitted'[k] + left = Unit * admitted[k] + tokens
      BY <1>1, <1>2, <1>7, Constants, Distributes DEF left, LimiterInv, LimiterType
    <3>2. CASE first[k] = Absent
      <4>1. buckets[k] = Absent /\ admitted[k] = 0
        BY <3>2, <1>1 DEF LimiterInv, BucketsKept
      <4>2. seen'[k] - first'[k] + rewound'[k] = 0
        BY <1>1, <1>7, <3>2
      <4>3. per_second * (seen'[k] - first'[k] + rewound'[k]) = 0
        BY <4>2, Constants
      <4>4. Unit * admitted[k] = 0
        BY <4>1, Constants
      <4>5. Held(k)' = left
        BY <1>7 DEF Held
      <4>6. left <= burst /\ tokens = burst /\ Unit * admitted'[k] + left = burst
        BY <1>2, <1>3, <3>1, <4>1, <4>4, Constants
      <4> QED
        BY <2>2, <4>3, <4>5, <4>6, Constants DEF WithinBudget, burst, per_second
    <3>3. CASE first[k] # Absent
      <4> DEFINE d == seen[k] - first[k] + rewound[k]
                 e == seen'[k] - first'[k] + rewound'[k]
      <4>0. seen[k] \in Nat /\ first[k] \in Nat /\ rewound[k] \in Nat /\ admitted[k] \in Nat
        BY <1>1, <3>3 DEF LimiterInv, LimiterType
      <4>1. Unit * admitted[k] + Held(k) <= burst + per_second * d
        BY <1>1, <1>11, <3>3 DEF LimiterInv, WithinBudget
      <4>2. e = d + (t - seen[k]) + Since(seen[k], t)
        BY <1>1, <1>6, <1>7, <3>3, <4>0
      <4>3. d \in Int /\ e \in Int /\ d <= e
        BY <1>1, <4>0, <4>2 DEF Since
      <4>4. tokens <= Held(k) + per_second * (e - d)
        <5>1. CASE buckets[k] = Absent
          BY <5>1, <1>2, <4>3, Constants, ProductGrows DEF Held
        <5>2. CASE buckets[k] # Absent
          <6>1. buckets[k].last_seen = seen[k]
            BY <5>2, <1>1 DEF LimiterInv, BucketsKept
          <6>2. e - d = Since(t, seen[k])
            BY <1>1, <4>0, <4>2 DEF Since
          <6> QED
            BY <5>2, <6>1, <6>2, <1>2 DEF Held
        <5> QED
          BY <5>1, <5>2
      <4>5. per_second * (e - d) + per_second * d = per_second * e
        BY <4>3, Constants, Distributes
      <4>6. Held(k) \in Nat
        BY <1>2, Constants DEF Held, Bucket
      <4>7. Unit * admitted[k] \in Nat /\ per_second * (e - d) \in Int /\ per_second * d \in Int
        BY <4>0, <4>3, Constants
      <4>8. Unit * admitted[k] + tokens <= burst + per_second * e
        <5> HIDE DEF d, e
        <5> QED
          BY <1>2, <4>1, <4>4, <4>5, <4>6, <4>7, Constants
      <4>9. Held(k)' = left
        BY <1>7 DEF Held
      <4> QED
        BY <2>2, <3>1, <4>8, <4>9 DEF WithinBudget, burst, per_second
    <3> QED
      BY <3>2, <3>3
  <2> QED
    BY <2>1, <2>2
<1>12. RetryAfterSuffices'
  <2> SUFFICES ASSUME NEW j \in Key, retry'[j] # Absent
               PROVE  Allows(j, retry[j])'
    BY DEF RetryAfterSuffices
  <2>1. CASE j # k
    BY <1>8, <2>1 DEF LimiterInv, RetryAfterSuffices, Allows, TokensOf, Refilled, burst, per_second
  <2>2. CASE j = k
    <3>1. ~Allows(k, t) /\ retry'[k] = t + Backoff(tokens) /\ left = tokens
      BY <1>7, <2>2 DEF left
    <3>2. Since(retry'[k], t) = Backoff(tokens)
      BY <1>1, <1>5, <3>1 DEF Since
    <3>3. Refilled(buckets'[k], retry'[k]) >= Unit
      BY <1>5, <1>7, <3>1, <3>2, Constants DEF Refilled
    <3> QED
      BY <2>2, <3>3, <1>7 DEF Allows, TokensOf, Refilled, burst, per_second
  <2> QED
    BY <2>1, <2>2
<1> QED
  BY <1>9, <1>10, <1>11, <1>12 DEF LimiterInv, IdleRefills, burst, per_second

\* Idle buckets go; the time they idled for pays for a full one.
LEMMA SweepPreserves ==
  ASSUME LimiterInv, Sweep
  PROVE  LimiterInv'
<1>1. sweeping \in Nat
  BY DEF Sweep, LimiterInv, LimiterType
<1>2. \A k \in Key :
        \/ /\ Stale(k) /\ buckets[k] \in Bucket
           /\ buckets'[k] = Absent /\ seen'[k] = sweeping /\ retry'[k] = Absent
        \/ ~Stale(k) /\ buckets'[k] = buckets[k] /\ seen'[k] = seen[k] /\ retry'[k] = retry[k]
  BY DEF Sweep, Stale, LimiterInv, LimiterType
<1>3. /\ now' = now /\ checking' = checking /\ instant' = instant /\ admitted' = admitted
      /\ first' = first /\ rewound' = rewound /\ sweeping' = Absent
  BY DEF Sweep
<1>4. LimiterType'
  BY <1>1, <1>3 DEF Sweep, LimiterInv, LimiterType
<1>5. BucketsKept'
  BY <1>2, <1>3 DEF LimiterInv, BucketsKept, burst
<1>6. RetryAfterSuffices'
  BY <1>2 DEF LimiterInv, RetryAfterSuffices, Allows, TokensOf, Refilled, burst, per_second
<1>7. ASSUME IdleRefills, NEW k \in Key, first'[k] # Absent
      PROVE  WithinBudget(k)'
  <2>1. CASE ~Stale(k)
    BY <1>2, <1>3, <1>7, <2>1 DEF LimiterInv, WithinBudget, Held, burst, per_second
  <2>2. CASE Stale(k)
    <3> DEFINE d == seen[k] - first[k] + rewound[k]
               e == sweeping - first[k] + rewound[k]
    <3>1. /\ buckets[k] \in Bucket /\ buckets[k] # Absent
          /\ buckets[k].last_seen = seen[k]
          /\ buckets'[k] = Absent /\ seen'[k] = sweeping
      BY <1>2, <2>2 DEF Stale, LimiterInv, BucketsKept
    <3>2. /\ seen[k] \in Nat /\ first[k] \in Nat /\ rewound[k] \in Nat /\ admitted[k] \in Nat
      BY <1>3, <1>7 DEF LimiterInv, LimiterType
    <3>3. e \in Int /\ d \in Int /\ IDLE_EVICTION <= e - d
      BY <1>1, <2>2, <3>1, <3>2, LimiterAssumption DEF Stale, Since
    <3>4. per_second * IDLE_EVICTION <= per_second * (e - d)
      BY <3>3, Constants, ProductGrows
    <3>5. per_second * (e - d) + per_second * d = per_second * e
      BY <3>3, Constants, Distributes
    <3>6. Unit * admitted[k] + buckets[k].tokens <= burst + per_second * d
      BY <1>3, <1>7, <3>1 DEF LimiterInv, WithinBudget, Held
    <3>7. /\ Unit * admitted[k] \in Nat /\ buckets[k].tokens \in Nat
          /\ per_second * d \in Int /\ per_second * (e - d) \in Int
          /\ per_second * IDLE_EVICTION \in Nat
      BY <3>1, <3>2, <3>3, Constants DEF Bucket
    <3>8. Unit * admitted[k] + burst <= burst + per_second * e
      <4> HIDE DEF d, e
      <4> QED
        BY <1>7, <3>4, <3>5, <3>6, <3>7, Constants DEF IdleRefills
    <3>9. Held(k)' = burst
      BY <3>1 DEF Held, burst
    <3> QED
      BY <1>3, <3>1, <3>8, <3>9 DEF WithinBudget, burst, per_second
  <2> QED
    BY <2>1, <2>2
<1> QED
  BY <1>4, <1>5, <1>6, <1>7 DEF LimiterInv, IdleRefills, burst, per_second

\* The other steps read the clock, or let it pass.
LEMMA ClocksPreserve ==
  ASSUME LimiterInv,
         \/ Tick \/ SweepReadsClock
         \/ \E c \in Caller, k \in Key : ReadClock(c, k)
         \/ UNCHANGED limiterVars
  PROVE  LimiterInv'
<1>1. /\ buckets' = buckets /\ admitted' = admitted /\ first' = first /\ seen' = seen
      /\ rewound' = rewound /\ retry' = retry
  BY DEF Tick, SweepReadsClock, ReadClock, limiterVars
<1>2. LimiterType'
  <2>1. CASE Tick
    BY <2>1 DEF Tick, LimiterInv, LimiterType
  <2>2. CASE SweepReadsClock
    BY <2>2 DEF SweepReadsClock, LimiterInv, LimiterType
  <2>3. CASE \E c \in Caller, k \in Key : ReadClock(c, k)
    BY <2>3 DEF ReadClock, LimiterInv, LimiterType
  <2>4. CASE UNCHANGED limiterVars
    BY <2>4 DEF limiterVars, LimiterInv, LimiterType
  <2> QED
    BY <2>1, <2>2, <2>3, <2>4
<1>3. BucketsKept'
  BY <1>1 DEF LimiterInv, BucketsKept, burst
<1>4. RetryAfterSuffices'
  BY <1>1 DEF LimiterInv, RetryAfterSuffices, Allows, TokensOf, Refilled, burst, per_second
<1>5. (IdleRefills => \A k \in Key : first[k] # Absent => WithinBudget(k))'
  BY <1>1 DEF LimiterInv, IdleRefills, WithinBudget, Held, burst, per_second
<1> QED
  BY <1>2, <1>3, <1>4, <1>5 DEF LimiterInv

LEMMA LimiterPreserves == LimiterInv /\ [LimiterNext]_limiterVars => LimiterInv'
<1> SUFFICES ASSUME LimiterInv, [LimiterNext]_limiterVars PROVE LimiterInv'
  OBVIOUS
<1>1. CASE \E c \in Caller : Charge(c)
  BY <1>1, ChargePreserves
<1>2. CASE Sweep
  BY <1>2, SweepPreserves
<1>3. CASE \/ Tick \/ SweepReadsClock
           \/ \E c \in Caller, k \in Key : ReadClock(c, k)
           \/ UNCHANGED limiterVars
  BY <1>3, ClocksPreserve
<1> QED
  BY <1>1, <1>2, <1>3 DEF LimiterNext

\* The inductive invariant of the limiter: LimiterInv.
THEOREM LimiterInvariant == LimiterSpec => []LimiterInv
<1>1. LimiterInit => LimiterInv
  BY LimiterStarts
<1>2. LimiterInv /\ [LimiterNext]_limiterVars => LimiterInv'
  BY LimiterPreserves
<1> QED
  BY <1>1, <1>2, PTL DEF LimiterSpec

-----------------------------------------------------------------------------
(***************************************************************************)
(* check_at and sweep_at: whatever the settings, and however late or out   *)
(* of order requests are charged, a token spends no more than its burst,   *)
(* the refill of its time and that of the time its clock was turned back,  *)
(* as long as idling out refills a bucket (IdleRefills).                   *)
(***************************************************************************)
THEOREM TokensStayInBudget == LimiterSpec => []AdmittedWithinBudget
<1>1. LimiterInv => AdmittedWithinBudget
  BY DEF LimiterInv, AdmittedWithinBudget, WithinBudget, Held
<1> QED
  BY <1>1, LimiterInvariant, PTL

(***************************************************************************)
(* check_at: retry_after_secs is never too short, at whatever rate.        *)
(***************************************************************************)
THEOREM RetryAfterIsEnough == LimiterSpec => []RetryAfterSuffices
<1>1. LimiterInv => RetryAfterSuffices
  BY DEF LimiterInv
<1> QED
  BY <1>1, LimiterInvariant, PTL
-----------------------------------------------------------------------------
(***************************************************************************)
(* The extraction of one file, for every archive and every budget.  What   *)
(* BudgetReader has let through and what it still lets through make up the *)
(* budget; what a scan of a tar archive has decompressed is the cost of    *)
(* the entries before the one it is at, headers and padding included, none *)
(* of which is the wanted one.                                             *)
(***************************************************************************)
Cost == [i \in DOMAIN archive |-> BLOCK + archive[i].actual]

CostUpTo(n) == SumOf(Cost, 1..n)

ArchiveType ==
  /\ archive \in Seq(Entry)
  /\ format \in {"tar.gz", "zip"}
  /\ tail \in 0..BLOCK

ScanInv ==
  /\ entry \in Nat \ {0} /\ remaining \in Nat /\ inflated \in Nat
  /\ format = "tar.gz" =>
       /\ inflated + remaining = Budget
       /\ \A i \in DOMAIN archive : i < entry => ~archive[i].wanted
       /\ found = "scanning" =>
            entry <= Len(archive) + 1 /\ inflated = CostUpTo(entry - 1)
  /\ format = "zip" /\ found = "scanning" => inflated = 0

\* What ExtractionHonoursBudget says of an outcome, for a total of t.
OutcomeHolds(t) ==
  /\ inflated <= max_inflated_bytes + 1 \/ inflated <= MAX_SERVED_FILE_BYTES + 1
  /\ found \in {"scanning", "file", "not_found", "file_too_large", "archive_too_large", "internal"}
  /\ found = "file" =>
       /\ entry \in Wanted
       /\ format = "tar.gz" =>
            /\ archive[entry].declared <= MAX_SERVED_FILE_BYTES
            /\ \A i \in Wanted : entry <= i
       /\ format = "zip" =>
            archive[entry].actual <= MAX_SERVED_FILE_BYTES /\ archive[entry].torn = "none"
  /\ found = "not_found" => Wanted = {}
  /\ found = "file_too_large" =>
       \E i \in Wanted : \/ MAX_SERVED_FILE_BYTES < archive[i].declared
                         \/ MAX_SERVED_FILE_BYTES < archive[i].actual
  /\ found = "archive_too_large" => format = "tar.gz" /\ t > max_inflated_bytes
  /\ found = "internal" =>
       DamageAt(entry) /\ (format = "tar.gz" => \A i \in Wanted : entry <= i)

FilesInv == ArchiveType /\ ScanInv /\ OutcomeHolds(tail + CostUpTo(Len(archive)))

\* The data of an entry fill whole blocks.
LEMMA PaddedKnown == \A n \in Nat : Padded(n) \in Nat
<1> SUFFICES ASSUME NEW n \in Nat PROVE Padded(n) \in Nat
  OBVIOUS
<1> DEFINE q == (n + BLOCK - 1) \div BLOCK
<1>1. q \in Nat /\ BLOCK \in Nat
  BY FilesAssumption
<1>2. Padded(n) = q * BLOCK
  BY DEF Padded
<1> HIDE DEF q
<1>3. q * BLOCK \in Nat
  BY <1>1
<1> QED BY <1>2, <1>3

\* And they are room enough for it.
LEMMA PaddedCovers == \A n \in Nat : Padded(n) >= n
<1> SUFFICES ASSUME NEW n \in Nat PROVE Padded(n) >= n
  OBVIOUS
<1> DEFINE a == n + BLOCK - 1
           q == a \div BLOCK
<1>1. a \in Nat /\ BLOCK \in Nat /\ BLOCK > 0 /\ q \in Nat
  BY FilesAssumption
<1>2. a = q * BLOCK + (a % BLOCK) /\ a % BLOCK \in Nat /\ a % BLOCK < BLOCK
  BY <1>1
<1>3. q * BLOCK \in Nat /\ Padded(n) = q * BLOCK
  BY <1>1 DEF Padded
<1> QED
  <2>1. a = n + BLOCK - 1
    OBVIOUS
  <2> HIDE DEF q, a
  <2> QED BY <1>1, <1>2, <1>3, <2>1

\* The entries of an archive, and what each costs.
LEMMA EntriesKnown ==
  ASSUME ArchiveType
  PROVE  /\ DOMAIN archive = 1..Len(archive) /\ Len(archive) \in Nat
         /\ \A i \in DOMAIN archive :
              /\ archive[i] \in Entry
              /\ archive[i].declared \in Nat /\ archive[i].actual \in Nat
         /\ BLOCK \in Nat /\ Cost \in [DOMAIN archive -> Nat]
<1>1. DOMAIN archive = 1..Len(archive) /\ Len(archive) \in Nat
  BY DEF ArchiveType
<1>2. ASSUME NEW i \in DOMAIN archive
      PROVE  archive[i] \in Entry /\ archive[i].declared \in Nat /\ archive[i].actual \in Nat
  <2>1. archive[i] \in Entry
    BY <1>1, <1>2 DEF ArchiveType
  <2>2. archive[i].declared \in Sizes /\ \E n \in Sizes : archive[i].actual \in 0..Padded(n)
    BY <2>1 DEF Entry
  <2>3. PICK n \in Sizes : archive[i].actual \in 0..Padded(n)
    BY <2>2
  <2>4. Padded(n) \in Nat
    BY PaddedKnown, FilesAssumption
  <2>5. archive[i].actual \in Nat
    BY <2>3, <2>4
  <2>6. archive[i].declared \in Nat
    BY <2>2, FilesAssumption
  <2> QED BY <2>1, <2>5, <2>6
<1>3. BLOCK \in Nat
  BY FilesAssumption
<1> QED BY <1>1, <1>2, <1>3 DEF Cost

\* The cost of an entry, of the entries before it and of them all.
LEMMA CostAdds ==
  ASSUME ArchiveType
  PROVE  /\ CostUpTo(0) = 0
         /\ \A n \in DOMAIN archive :
              /\ CostUpTo(n) = CostUpTo(n - 1) + BLOCK + archive[n].actual
              /\ CostUpTo(n - 1) \in Nat /\ CostUpTo(n) \in Nat
              /\ CostUpTo(n) <= CostUpTo(Len(archive))
         /\ CostUpTo(Len(archive)) \in Nat
<1>1. DOMAIN archive = 1..Len(archive) /\ Len(archive) \in Nat
  BY EntriesKnown
<1>2. ASSUME NEW i \in DOMAIN archive PROVE archive[i].actual \in Nat /\ BLOCK \in Nat
  BY EntriesKnown
<1>3. Cost \in [DOMAIN archive -> Nat]
  BY EntriesKnown
<1>4. ASSUME NEW n \in 0..Len(archive)
      PROVE  1..n \in FiniteSubsetsOf(DOMAIN archive)
  BY <1>1, FS_Interval DEF FiniteSubsetsOf
<1>5. CostUpTo(0) = 0
  <2>1. 1..0 = {} /\ 1..0 \in FiniteSubsetsOf(DOMAIN archive)
    BY <1>1, <1>4
  <2> QED BY <1>3, <2>1, SumAdd DEF CostUpTo
<1>6. CostUpTo(Len(archive)) \in Nat
  BY <1>1, <1>3, <1>4, SumAdd DEF CostUpTo
<1>7. ASSUME NEW n \in DOMAIN archive
      PROVE  /\ CostUpTo(n) = CostUpTo(n - 1) + BLOCK + archive[n].actual
             /\ CostUpTo(n - 1) \in Nat /\ CostUpTo(n) \in Nat
             /\ CostUpTo(n) <= CostUpTo(Len(archive))
  <2>1. n \in Nat /\ n - 1 \in 0..Len(archive) /\ n \in 1..n /\ (1..n) \ {n} = 1..(n - 1)
    BY <1>1
  <2>2. 1..n \in FiniteSubsetsOf(DOMAIN archive) /\ 1..(n - 1) \in FiniteSubsetsOf(DOMAIN archive)
    BY <1>1, <1>4, <2>1
  <2>3. SumOf(Cost, 1..n) = Cost[n] + SumOf(Cost, 1..(n - 1))
    BY <1>3, <2>1, <2>2, SumAdd
  <2>4. Cost[n] = BLOCK + archive[n].actual /\ archive[n].actual \in Nat /\ BLOCK \in Nat
    BY <1>2 DEF Cost
  <2>5. SumOf(Cost, 1..(n - 1)) \in Nat
    BY <1>3, <2>2, SumAdd
  <2>6. 1..n \subseteq 1..Len(archive) /\ 1..Len(archive) \in FiniteSubsetsOf(DOMAIN archive)
    BY <1>1, <1>4
  <2>7. SumOf(Cost, 1..n) <= SumOf(Cost, 1..Len(archive))
    BY <1>3, <2>6, SumGrows
  <2> QED BY <2>3, <2>4, <2>5, <2>7 DEF CostUpTo
<1> QED BY <1>5, <1>6, <1>7

\* The fold of the model is the cost of all entries.
LEMMA TotalIsCost == ArchiveType => Total = tail + CostUpTo(Len(archive))
<1> SUFFICES ASSUME ArchiveType PROVE Total = tail + CostUpTo(Len(archive))
  OBVIOUS
<1> DEFINE S == DOMAIN archive
           Sum == FoldFunction(LAMBDA e, sum : BLOCK + e.actual + sum, 0, archive)
           P(f) == f = [s \in SUBSET S |->
             IF s = {} THEN 0
             ELSE BLOCK + archive[CHOOSE x \in s : TRUE].actual + f[s \ {CHOOSE x \in s : TRUE}]]
<1>1. S = 1..Len(archive) /\ IsFiniteSet(S)
  BY EntriesKnown, FS_Interval
<1>2. Cost \in [S -> Nat] /\ S \in FiniteSubsetsOf(S)
  BY <1>1, EntriesKnown DEF FiniteSubsetsOf
<1>3. Sum = (CHOOSE f : P(f))[S]
  BY DEF FoldFunction, FoldFunctionOnSet, MapThenFoldSet
<1>4. ASSUME NEW f PROVE P(f) <=> SumsUp(f, Cost, S)
  <2>1. ASSUME NEW s \in SUBSET S, s # {}
        PROVE  Cost[Some(s)] = BLOCK + archive[CHOOSE x \in s : TRUE].actual
    <3>1. Some(s) \in S
      BY <2>1 DEF Some
    <3> QED BY <3>1 DEF Cost, Some
  <2>2. [s \in SUBSET S |->
           IF s = {} THEN 0
           ELSE BLOCK + archive[CHOOSE x \in s : TRUE].actual + f[s \ {CHOOSE x \in s : TRUE}]]
        = [s \in SUBSET S |->
             IF s = {} THEN 0 ELSE Cost[Some(s)] + f[s \ {Some(s)}]]
    BY <2>1 DEF Some
  <2> QED BY <2>2 DEF SumsUp
<1> HIDE DEF P
<1>5. P(CHOOSE f : P(f))
  BY <1>2, <1>4, SumExists
<1>6. SumsUp(CHOOSE f : P(f), Cost, S)
  BY <1>4, <1>5
<1>7. (CHOOSE f : P(f))[S] = SumOf(Cost, S)
  BY <1>2, <1>6, SumUnique
<1>8. Total = tail + Sum
  BY DEF Total
<1> QED BY <1>1, <1>3, <1>7, <1>8 DEF CostUpTo

\* The outcome is stated with a Max and a Min in the model.
LEMMA OutcomeMeans ==
  ArchiveType /\ ScanInv /\ OutcomeHolds(Total) => ExtractionHonoursBudget
<1> SUFFICES ASSUME ArchiveType, ScanInv, OutcomeHolds(Total)
             PROVE  ExtractionHonoursBudget
  OBVIOUS
<1>1. ASSUME NEW a \in Nat, NEW b \in Nat
      PROVE  Max({a, b}) \in {a, b} /\ Max({a, b}) >= a /\ Max({a, b}) >= b
  <2>1. \E x \in {a, b} : \A y \in {a, b} : x >= y
    OBVIOUS
  <2> QED BY <2>1 DEF Max
<1>2. inflated <= Max({max_inflated_bytes, MAX_SERVED_FILE_BYTES}) + 1
  <2>1. /\ Max({max_inflated_bytes, MAX_SERVED_FILE_BYTES}) \in Nat
        /\ Max({max_inflated_bytes, MAX_SERVED_FILE_BYTES}) >= max_inflated_bytes
        /\ Max({max_inflated_bytes, MAX_SERVED_FILE_BYTES}) >= MAX_SERVED_FILE_BYTES
    BY <1>1, FilesAssumption
  <2> QED BY <2>1, FilesAssumption DEF OutcomeHolds, ScanInv
<1>3. ASSUME found = "file", format = "tar.gz" PROVE entry = Min(Wanted)
  <2>1. entry \in Wanted /\ \A i \in Wanted : entry <= i
    BY <1>3 DEF OutcomeHolds
  <2>2. Wanted \subseteq Nat
    BY EntriesKnown DEF Wanted
  <2>3. \E x \in Wanted : \A i \in Wanted : x <= i
    BY <2>1
  <2>4. Min(Wanted) \in Wanted /\ \A i \in Wanted : Min(Wanted) <= i
    BY <2>3 DEF Min
  <2>5. entry <= Min(Wanted) /\ Min(Wanted) <= entry /\ entry \in Nat /\ Min(Wanted) \in Nat
    BY <2>1, <2>2, <2>4
  <2> QED BY <2>5
<1>4. ASSUME NEW i \in Wanted, \/ MAX_SERVED_FILE_BYTES < archive[i].declared
                               \/ MAX_SERVED_FILE_BYTES < archive[i].actual
      PROVE  MAX_SERVED_FILE_BYTES < Max({archive[i].declared, archive[i].actual})
  <2>1. archive[i].declared \in Nat /\ archive[i].actual \in Nat
    BY EntriesKnown DEF Wanted
  <2>2. /\ Max({archive[i].declared, archive[i].actual}) \in Nat
        /\ Max({archive[i].declared, archive[i].actual}) >= archive[i].declared
        /\ Max({archive[i].declared, archive[i].actual}) >= archive[i].actual
    BY <1>1, <2>1
  <2> QED BY <1>4, <2>1, <2>2, FilesAssumption
<1>5. ASSUME found = "file" PROVE Served(entry) <= MAX_SERVED_FILE_BYTES
  <2>1. /\ entry \in Wanted
        /\ archive[entry].declared \in Nat /\ archive[entry].actual \in Nat
        /\ format = "tar.gz" => archive[entry].declared <= MAX_SERVED_FILE_BYTES
        /\ format # "tar.gz" => archive[entry].actual <= MAX_SERVED_FILE_BYTES
    BY <1>5, EntriesKnown DEF OutcomeHolds, ArchiveType, Wanted
  <2>2. ASSUME NEW a \in Nat, NEW b \in Nat PROVE Min({a, b}) \in Nat /\ Min({a, b}) <= a
    <3>1. \E x \in {a, b} : \A y \in {a, b} : x <= y
      OBVIOUS
    <3> QED BY <3>1 DEF Min
  <2>3. /\ Min({archive[entry].declared, archive[entry].actual}) \in Nat
        /\ Min({archive[entry].declared, archive[entry].actual}) <= archive[entry].declared
    BY <2>1, <2>2
  <2> QED BY <2>1, <2>3, FilesAssumption DEF Served
<1> QED BY <1>2, <1>3, <1>4, <1>5 DEF OutcomeHolds, ExtractionHonoursBudget

\* The constants are numbers.
LEMMA BudgetKnown ==
  /\ Budget \in Nat /\ max_inflated_bytes \in Nat /\ Budget = max_inflated_bytes + 1
  /\ MAX_SERVED_FILE_BYTES \in Nat
BY FilesAssumption DEF Budget

\* Two numbers that make up the budget.
LEMMA PartOfBudget ==
  ASSUME NEW a \in Nat, NEW b \in Nat, a + b = Budget
  PROVE  a <= max_inflated_bytes + 1
<1>1. Budget \in Nat
  BY BudgetKnown
<1>2. 0 <= b /\ a <= a + b
  OBVIOUS
<1>3. a <= Budget
  BY <1>2
<1> QED BY <1>3, BudgetKnown

\* BudgetReader lets n bytes through, or ends the scan.
LEMMA InflateEither ==
  ASSUME inflated \in Nat, remaining \in Nat, inflated + remaining = Budget,
         NEW n \in Nat, NEW ends \in BOOLEAN, NEW o, Inflate(n, ends, o)
  PROVE  /\ inflated' \in Nat /\ remaining' \in Nat /\ inflated' + remaining' = Budget
         /\ \/ found' = o /\ inflated' = inflated + n
            \/ found' = "archive_too_large" /\ inflated + n >= Budget
<1>1. CASE n <= remaining /\ (ends => n < remaining)
  BY <1>1 DEF Inflate, Scan
<1>2. CASE ~(n <= remaining /\ (ends => n < remaining))
  <2>1. n >= remaining
    BY <1>2
  <2> QED BY <1>2, <2>1 DEF Inflate, Scan
<1> QED BY <1>1, <1>2

\* Nothing has been read when a scan begins.
LEMMA FilesStart == FilesInit => FilesInv
<1> SUFFICES ASSUME FilesInit PROVE FilesInv
  OBVIOUS
<1>1. ArchiveType
  <2>1. PICK n \in 0..MaxEntries : archive \in [1..n -> Entry]
    BY DEF FilesInit, TarEntry
  <2>2. n \in Nat /\ archive \in Seq(Entry)
    BY <2>1, FilesAssumption
  <2>3. tail \in 0..BLOCK \/ tail = 0
    BY DEF FilesInit
  <2>4. format \in {"tar.gz", "zip"}
    BY DEF FilesInit
  <2> QED BY <2>2, <2>3, <2>4, FilesAssumption DEF ArchiveType
<1>2. CostUpTo(0) = 0 /\ Len(archive) \in Nat
  BY <1>1, CostAdds, EntriesKnown
<1>3. ScanInv
  <2>1. entry = 1 /\ remaining = max_inflated_bytes + 1 /\ inflated = 0 /\ entry - 1 = 0
    BY DEF FilesInit, Budget
  <2>2. \A i \in DOMAIN archive : ~(i < 1)
    BY <1>1, EntriesKnown
  <2> QED BY <1>2, <2>1, <2>2, FilesAssumption DEF ScanInv, Budget
<1>4. found = "scanning" /\ inflated = 0
  BY DEF FilesInit
<1> QED BY <1>1, <1>3, <1>4, FilesAssumption DEF FilesInv, OutcomeHolds

\* What an outcome says depends on the archive only through these.
LEMMA ArchiveStays ==
  ASSUME ArchiveType, UNCHANGED <<archive, format, tail, fault>>
  PROVE  /\ ArchiveType' /\ Wanted' = Wanted /\ Len(archive)' = Len(archive)
         /\ \A n : CostUpTo(n)' = CostUpTo(n)
         /\ DamageAt(entry)' <=> DamageAt(entry')
<1>1. Cost' = Cost
  BY DEF Cost
<1> QED BY <1>1 DEF ArchiveType, Wanted, CostUpTo, DamageAt, Whole

\* Reading a tar entry.
LEMMA TarEntryStep == FilesInv /\ TarEntryRead => FilesInv'
<1> SUFFICES ASSUME FilesInv, TarEntryRead PROVE FilesInv'
  OBVIOUS
<1> DEFINE e == archive[entry]
           all == CostUpTo(Len(archive))
<1>1. /\ format = "tar.gz" /\ entry \in DOMAIN archive /\ found = "scanning"
      /\ UNCHANGED <<archive, format, tail, fault>>
  BY DEF TarEntryRead, Inflate, Scan
<1>2. /\ DOMAIN archive = 1..Len(archive) /\ Len(archive) \in Nat
      /\ e.declared \in Nat /\ e.actual \in Nat /\ BLOCK \in Nat /\ tail \in Nat
  BY <1>1, EntriesKnown DEF FilesInv, ArchiveType
<1>3. /\ inflated \in Nat /\ remaining \in Nat /\ inflated + remaining = Budget
      /\ inflated = CostUpTo(entry - 1) /\ entry \in Nat \ {0}
      /\ \A i \in DOMAIN archive : i < entry => ~archive[i].wanted
  BY <1>1 DEF FilesInv, ScanInv
<1>4. /\ CostUpTo(entry) = inflated + BLOCK + e.actual
      /\ CostUpTo(entry) <= all /\ CostUpTo(entry) \in Nat /\ all \in Nat
  BY <1>1, <1>3, CostAdds DEF FilesInv
<1>5. /\ ArchiveType' /\ Wanted' = Wanted /\ Len(archive)' = Len(archive)
      /\ \A n : CostUpTo(n)' = CostUpTo(n)
      /\ DamageAt(entry)' <=> DamageAt(entry')
  BY <1>1, ArchiveStays DEF FilesInv
<1>6. \A i \in Wanted : i \in Nat /\ entry <= i
  BY <1>2, <1>3 DEF Wanted
<1> DEFINE Read(n, o) ==
      /\ inflated' \in Nat /\ remaining' \in Nat /\ inflated' + remaining' = Budget
      /\ \/ found' = o /\ inflated' = inflated + n
         \/ found' = "archive_too_large" /\ inflated + n >= Budget
\* What is read is no more than the entry holds.
<1>7. \E n \in 0..(BLOCK + e.actual) :
        \/ e.torn = "header" /\ Read(n, "internal")
        \/ ~e.wanted /\ Whole(e) /\ n = BLOCK + e.actual /\ Read(n, "scanning")
        \/ ~Whole(e) /\ Read(n, "internal")
        \/ e.wanted /\ e.declared > MAX_SERVED_FILE_BYTES /\ Read(n, "file_too_large")
        \/ e.wanted /\ ~(e.declared > MAX_SERVED_FILE_BYTES) /\ Read(n, "file")
  <2>1. BLOCK \in Nat /\ BLOCK + e.actual \in Nat /\ BLOCK + e.declared \in Nat
        /\ BLOCK \in 0..(BLOCK + e.actual) /\ BLOCK + e.actual \in 0..(BLOCK + e.actual)
    BY <1>2
  <2>2. ASSUME NEW n \in Nat, NEW ends \in BOOLEAN, NEW o, Inflate(n, ends, o)
        PROVE  Read(n, o)
    BY <1>3, <2>2, InflateEither
  <2>3. CASE e.torn = "header"
    <3>1. Read(BLOCK, "internal")
      BY <2>1, <2>2, <2>3 DEF TarEntryRead
    <3> QED BY <2>1, <2>3, <3>1
  <2>4. CASE e.torn # "header" /\ ~e.wanted
    <3>1. Inflate(BLOCK + e.actual, ~Whole(e), IF Whole(e) THEN "scanning" ELSE "internal")
      BY <2>4 DEF TarEntryRead
    <3>2. Read(BLOCK + e.actual, IF Whole(e) THEN "scanning" ELSE "internal")
      <4>1. (~Whole(e)) \in BOOLEAN
        OBVIOUS
      <4> QED BY <2>1, <2>2, <3>1, <4>1
    <3> HIDE DEF Read
    <3> QED BY <2>1, <2>4, <3>2
  <2>5. CASE e.torn # "header" /\ e.wanted /\ e.declared > MAX_SERVED_FILE_BYTES
    <3>1. Read(BLOCK, "file_too_large")
      BY <2>1, <2>2, <2>5 DEF TarEntryRead
    <3> QED BY <2>1, <2>5, <3>1
  <2>6. CASE /\ e.torn # "header" /\ e.wanted /\ ~(e.declared > MAX_SERVED_FILE_BYTES)
             /\ e.actual < e.declared
    <3>1. Inflate(BLOCK + e.actual, TRUE, IF fault THEN "internal" ELSE "file")
      BY <2>6 DEF TarEntryRead
    <3>2. Read(BLOCK + e.actual, IF fault THEN "internal" ELSE "file")
      BY <2>1, <2>2, <3>1
    <3>3. ~Whole(e)
      <4>1. Padded(e.declared) \in Nat /\ Padded(e.declared) >= e.declared
        BY <1>2, PaddedCovers, PaddedKnown
      <4>2. e.actual < e.declared
        BY <2>6
      <4> HIDE DEF e
      <4>3. e.actual # Padded(e.declared)
        BY <1>2, <4>1, <4>2
      <4> QED BY <4>3 DEF Whole
    <3> HIDE DEF Read
    <3> QED BY <2>1, <2>6, <3>2, <3>3
  <2>7. CASE /\ e.torn # "header" /\ e.wanted /\ ~(e.declared > MAX_SERVED_FILE_BYTES)
             /\ ~(e.actual < e.declared)
    <3>1. Read(BLOCK + e.declared, "file")
      BY <2>1, <2>2, <2>7 DEF TarEntryRead
    <3>2. BLOCK + e.declared \in 0..(BLOCK + e.actual)
      BY <1>2, <2>7
    <3> HIDE DEF Read
    <3> QED BY <2>7, <3>1, <3>2
  <2> QED BY <2>3, <2>4, <2>5, <2>6, <2>7
<1>8. entry' = IF found' = "scanning" THEN entry + 1 ELSE entry
  BY DEF TarEntryRead
<1>9. found' = "archive_too_large" => tail + all > max_inflated_bytes
  <2>1. ASSUME found' = "archive_too_large" PROVE inflated + BLOCK + e.actual >= Budget
    <3>1. PICK n \in 0..(BLOCK + e.actual) : inflated + n >= Budget
      BY <1>7, <2>1
    <3> DEFINE room == BLOCK + e.actual
    <3>2. inflated \in Nat /\ room \in Nat /\ inflated + BLOCK + e.actual = inflated + room
      <4> HIDE DEF e
      <4> QED BY <1>2, <1>3
    <3> HIDE DEF room
    <3>3. n \in Nat /\ n <= room
      BY <3>1, <3>2 DEF room
    <3> QED BY <3>1, <3>2, <3>3, BudgetKnown
  <2> HIDE DEF all, e
  <2> QED BY <1>2, <1>4, <2>1, BudgetKnown
<1>10. inflated' <= max_inflated_bytes + 1
  BY <1>7, PartOfBudget
<1>11. ScanInv'
  <2>1. entry' \in Nat \ {0} /\ remaining' \in Nat /\ inflated' \in Nat
        /\ inflated' + remaining' = Budget
    BY <1>3, <1>7, <1>8
  <2>2. found' = "scanning" =>
          /\ ~e.wanted /\ entry' = entry + 1 /\ entry' <= Len(archive) + 1
          /\ inflated' = CostUpTo(entry' - 1)
    <3>1. SUFFICES ASSUME found' = "scanning"
                   PROVE  /\ ~e.wanted /\ entry' = entry + 1 /\ entry' <= Len(archive) + 1
                          /\ inflated' = CostUpTo(entry' - 1)
      OBVIOUS
    <3>2. ~e.wanted /\ inflated' = inflated + (BLOCK + e.actual)
      BY <1>7, <3>1
    <3>3. entry' = entry + 1 /\ entry' - 1 = entry /\ entry' <= Len(archive) + 1
      BY <1>1, <1>2, <1>3, <1>8, <3>1
    <3>4. inflated' = CostUpTo(entry)
      <4> HIDE DEF e, all
      <4> QED BY <1>2, <1>3, <1>4, <3>2
    <3> QED BY <3>2, <3>3, <3>4
  <2>3. \A i \in DOMAIN archive : i < entry' => ~archive[i].wanted
    BY <1>2, <1>3, <1>8, <2>2
  <2> QED BY <1>1, <1>5, <2>1, <2>2, <2>3 DEF ScanInv, Budget
<1>12. OutcomeHolds(tail + all)'
  <2>1. entry \in Wanted <=> e.wanted
    BY <1>1 DEF Wanted
  <2>2. found' # "scanning" => entry' = entry
    BY <1>8
  <2>3. /\ found' \in {"scanning", "file", "file_too_large", "archive_too_large", "internal"}
        /\ found' = "file" => e.wanted /\ ~(e.declared > MAX_SERVED_FILE_BYTES)
        /\ found' = "file_too_large" => e.wanted /\ e.declared > MAX_SERVED_FILE_BYTES
        /\ found' = "internal" => e.torn = "header" \/ ~Whole(e)
    BY <1>7
  <2>4. found' = "internal" => DamageAt(entry)
    BY <1>1, <2>3 DEF DamageAt
  <2> QED BY <1>1, <1>2, <1>5, <1>6, <1>9, <1>10, <2>1, <2>2, <2>3, <2>4, FilesAssumption
          DEF OutcomeHolds
<1> QED BY <1>5, <1>11, <1>12 DEF FilesInv

\* The end of a tar archive.
LEMMA TarEndStep == FilesInv /\ TarEnd => FilesInv'
<1> SUFFICES ASSUME FilesInv, TarEnd PROVE FilesInv'
  OBVIOUS
<1> DEFINE all == CostUpTo(Len(archive))
           o == IF tail = BLOCK \/ (tail = 0 /\ ~fault) THEN "not_found" ELSE "internal"
<1>1. /\ format = "tar.gz" /\ entry = Len(archive) + 1 /\ found = "scanning"
      /\ UNCHANGED <<archive, format, tail, fault, entry>>
  BY DEF TarEnd, Inflate, Scan
<1>2. /\ DOMAIN archive = 1..Len(archive) /\ Len(archive) \in Nat /\ all \in Nat
      /\ tail \in Nat /\ BLOCK \in Nat
  BY EntriesKnown, CostAdds DEF FilesInv, ArchiveType
<1>3. /\ inflated \in Nat /\ remaining \in Nat /\ inflated + remaining = Budget
      /\ entry \in Nat \ {0} /\ inflated = CostUpTo(entry - 1)
      /\ \A i \in DOMAIN archive : i < entry => ~archive[i].wanted
  BY <1>1 DEF FilesInv, ScanInv
<1>4. Wanted = {}
  BY <1>1, <1>2, <1>3 DEF Wanted
<1>5. inflated = all
  <2>1. entry - 1 = Len(archive)
    BY <1>1, <1>2
  <2> QED BY <1>3, <2>1
<1>6. /\ inflated' \in Nat /\ remaining' \in Nat /\ inflated' + remaining' = Budget
      /\ \/ found' = o
         \/ found' = "archive_too_large" /\ inflated + tail >= Budget
  <2>1. (tail < BLOCK) \in BOOLEAN /\ Inflate(tail, tail < BLOCK, o)
    BY DEF TarEnd
  <2> HIDE DEF o
  <2> QED BY <1>2, <1>3, <2>1, InflateEither
<1>7. /\ ArchiveType' /\ Wanted' = Wanted /\ Len(archive)' = Len(archive)
      /\ \A n : CostUpTo(n)' = CostUpTo(n)
      /\ DamageAt(entry)' <=> DamageAt(entry')
  BY <1>1, ArchiveStays DEF FilesInv
<1>8. found' = "archive_too_large" => tail + all > max_inflated_bytes
  <2>1. o # "archive_too_large"
    OBVIOUS
  <2> HIDE DEF o, all
  <2> QED BY <1>2, <1>5, <1>6, <2>1, BudgetKnown
<1>9. inflated' <= max_inflated_bytes + 1
  BY <1>6, PartOfBudget
<1>10. ScanInv'
  <2>1. found' # "scanning"
    BY <1>6
  <2> QED BY <1>1, <1>3, <1>6, <1>7, <2>1 DEF ScanInv, Budget
<1>11. OutcomeHolds(tail + all)'
  <2>1. o = "internal" => DamageAt(entry)
    <3>1. entry \notin DOMAIN archive
      BY <1>1, <1>2
    <3>2. o = "internal" => tail < BLOCK
      <4>1. tail \in 0..BLOCK
        BY DEF FilesInv, ArchiveType
      <4> QED BY <1>2, <4>1
    <3> QED BY <1>1, <3>1, <3>2 DEF DamageAt
  <2>2. found' \in {"not_found", "internal", "archive_too_large"}
        /\ (found' = "internal" => DamageAt(entry))
    BY <1>6, <2>1
  <2> QED BY <1>1, <1>4, <1>7, <1>8, <1>9, <2>2 DEF OutcomeHolds
<1> QED BY <1>7, <1>10, <1>11 DEF FilesInv

\* A zip archive.
LEMMA ZipStep == FilesInv /\ ZipFile => FilesInv'
<1> SUFFICES ASSUME FilesInv, ZipFile PROVE FilesInv'
  OBVIOUS
<1>1. /\ format = "zip" /\ found = "scanning"
      /\ UNCHANGED <<archive, format, tail, fault, remaining>>
  BY DEF ZipFile, Scan
<1>2. /\ inflated = 0 /\ remaining \in Nat /\ entry \in Nat \ {0}
  BY <1>1 DEF FilesInv, ScanInv
<1>3. /\ ArchiveType' /\ Wanted' = Wanted /\ Len(archive)' = Len(archive)
      /\ \A n : CostUpTo(n)' = CostUpTo(n)
  BY <1>1, ArchiveStays DEF FilesInv
<1>4. CASE fault
  <2>1. found' = "internal" /\ UNCHANGED <<entry, inflated>>
    BY <1>4 DEF ZipFile, Scan
  <2>2. DamageAt(entry)'
    BY <1>1, <1>4 DEF DamageAt
  <2> QED BY <1>1, <1>2, <1>3, <2>1, <2>2, FilesAssumption
          DEF FilesInv, ScanInv, OutcomeHolds
<1>5. CASE ~fault /\ Wanted = {}
  <2>1. found' = "not_found" /\ UNCHANGED <<entry, inflated>>
    BY <1>5 DEF ZipFile, Scan
  <2> QED BY <1>1, <1>2, <1>3, <1>5, <2>1, FilesAssumption
          DEF FilesInv, ScanInv, OutcomeHolds
<1>6. CASE ~fault /\ Wanted # {}
  <2>1. PICK i \in Wanted :
          /\ entry' = i
          /\ IF archive[i].torn = "header" THEN found' = "internal" /\ inflated' = inflated
             ELSE IF archive[i].declared > MAX_SERVED_FILE_BYTES
                  THEN found' = "file_too_large" /\ inflated' = inflated
             ELSE /\ found' = ZipRead(archive[i]).outcome
                  /\ inflated' = inflated + ZipRead(archive[i]).inflates
    BY <1>6 DEF ZipFile, Scan
  <2>2. /\ i \in Nat \ {0} /\ archive[i].declared \in Nat /\ archive[i].actual \in Nat
        /\ archive[i].torn \in {"none", "header", "data"}
    <3>1. archive[i] \in Entry /\ i \in 1..Len(archive)
      BY EntriesKnown DEF FilesInv, Wanted
    <3> QED BY <3>1, EntriesKnown DEF FilesInv, Wanted, Entry
  <2>3. /\ inflated' \in Nat /\ inflated' <= MAX_SERVED_FILE_BYTES + 1
        /\ \/ /\ found' = "file" /\ archive[i].torn = "none"
              /\ archive[i].actual <= MAX_SERVED_FILE_BYTES
           \/ /\ found' = "file_too_large"
              /\ \/ MAX_SERVED_FILE_BYTES < archive[i].declared
                 \/ MAX_SERVED_FILE_BYTES < archive[i].actual
           \/ found' = "internal" /\ archive[i].torn # "none"
    <3>1. CASE archive[i].torn = "header" \/ archive[i].declared > MAX_SERVED_FILE_BYTES
      BY <1>2, <2>1, <2>2, <3>1, FilesAssumption
    <3>2. CASE /\ archive[i].torn # "header" /\ ~(archive[i].declared > MAX_SERVED_FILE_BYTES)
               /\ archive[i].actual > MAX_SERVED_FILE_BYTES
      BY <1>2, <2>1, <2>2, <3>2, FilesAssumption DEF ZipRead
    <3>3. CASE /\ archive[i].torn # "header" /\ ~(archive[i].declared > MAX_SERVED_FILE_BYTES)
               /\ ~(archive[i].actual > MAX_SERVED_FILE_BYTES)
      BY <1>2, <2>1, <2>2, <3>3, FilesAssumption DEF ZipRead
    <3> QED BY <3>1, <3>2, <3>3
  <2>4. ScanInv'
    BY <1>1, <1>2, <2>1, <2>2, <2>3 DEF ScanInv
  <2>5. found' = "internal" => DamageAt(entry)'
    BY <1>1, <1>3, <2>1, <2>3 DEF DamageAt
  <2>6. OutcomeHolds(tail + CostUpTo(Len(archive)))'
    BY <1>1, <1>3, <2>1, <2>3, <2>5 DEF OutcomeHolds
  <2> QED BY <1>3, <2>4, <2>6 DEF FilesInv
<1> QED BY <1>4, <1>5, <1>6

\* Each step of a request for a file keeps the invariant.
LEMMA FilesStep == FilesInv /\ [FilesNext]_fileVars => FilesInv'
<1>1. FilesInv /\ UNCHANGED fileVars => FilesInv'
  BY DEF fileVars, FilesInv, ArchiveType, ScanInv, OutcomeHolds, CostUpTo, Cost, Wanted,
         DamageAt, Whole
<1> QED BY <1>1, TarEntryStep, TarEndStep, ZipStep DEF FilesNext

(***************************************************************************)
(* One request for a file decompresses no more than the budget and one     *)
(* byte, or one served file more; it refuses for its size no archive whose *)
(* headers, padded data and end mark are within the budget, whole or cut   *)
(* short; and what else it is answered is so.                              *)
(***************************************************************************)
THEOREM ExtractionIsBounded == FilesSpec => []ExtractionHonoursBudget
<1>1. FilesInv => ExtractionHonoursBudget
  BY TotalIsCost, OutcomeMeans DEF FilesInv
<1> QED BY <1>1, FilesStart, FilesStep, PTL DEF FilesSpec
=============================================================================
