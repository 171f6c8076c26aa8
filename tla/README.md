# TLA+ models of the zed package registry API server

The repository is an HTTP registry server in Rust (axum, sea-orm on Postgres,
artifacts on S3, on a local directory or in process memory). This directory
specifies the parts of it whose correctness depends on interleavings, failures
and order, checks them with TLC on small instances, and proves the central
properties with TLAPS for all values of the constants.

Run a model with `tlc -config <cfg> <module>`, check proofs with
`tlapm <module>Proofs.tla`. `PROJECT.json` lists every run, the source lines
each definition stands for, a mutation of the code that breaks each property,
the hazards and the theorems.

## 1. Inventory

Several stateless replicas run the same handlers. They share one Postgres
database and one artifact store and talk to each other only through those two.
Inside a replica every request is a future on the tokio runtime: it can be
interleaved at each `.await`, dropped at each `.await` (30 s `TimeoutLayer`, a
client that goes away), and dies with the process. Blocking work handed to
`spawn_blocking` (local file writes, archive extraction, the fiducia client)
outlives a dropped future.

| Component | State | Operations | Talks to | What is hard | What makes it correct |
|---|---|---|---|---|---|
| Publish pipeline, `routes/publish.rs`, `rbac.rs`, `verify.rs` | package and version rows; the request's position | `publish` (PUT version) | tokens, artifact store, database, audit | two publishers of one version, of one package, of one digest; failure or drop between blob, rows and audit | a version is written once and never changes; its blob is there first and stays; metadata moves only with a new version; answers are true |
| Artifact store, `storage.rs` | object per key; byte total (memory) | `put`, `download`, `get_bytes` | publish, artifact routes | truncating rewrite of a committed file; writes that outlive their request; capacity under racing puts | committed artifacts are whole; capacity is a hard limit |
| Audit chain, appending, `audit.rs` | per-org hash chain | `record`, `append_chained` | every mutating route | two appenders at one tip; retries; ambiguous commit; dropped handler holding the lock | the chain never forks, entries appear at most once, an append fails only for a reason |
| Audit chain, verifying, `audit.rs` | none | `verify_chain` | verify route | legacy rows, first and last row, gap against broken link | honest logs verify; each kind of tampering is reported, and where |
| Audit read and verify routes, `routes/audit.rs` | none | `get_audit_log`, `verify_audit_log` | database | pages against concurrent appends; `MAX_VERIFY_ROWS` prefix | no entry skipped or repeated by a pager; intact means what it says, and of which rows |
| Org claim, `routes/orgs.rs` | `org.slug`, `org.created_by_token` | `claim_org` | fiducia, database, audit | a quota without an index; slug race; lease expiry; lock-key collisions | quota holds; a namespace has one owner for good |
| Yank and latest, `routes/yank.rs`, `routes/mod.rs`, `routes/packages.rs` | `version.yanked` | `yank`, latest selection | database, audit | concurrent yank, unyank, publish; order of audit entries | the latest a client is told can be fetched; the trail tells how the flags came to be |
| Rate limiter, `ratelimit.rs` | bucket per token | `check_at`, `sweep_at` | router | clock read before the lock; sweep of a bucket in debt | burst + rate * time bounds what is admitted |
| Tokens, `auth.rs`, `tokens.rs` | token rows | `require_token`, `create_token`, `revoke_token`, operator token | every route | concurrent revocation; first-use insert race | a token whose revocation has returned acts no more; losing the operator row's race refuses nobody |
| Router and admission, `routes/mod.rs` | in-flight permits | layers | every route | order of layers, permits and timeouts; blocking tasks without permits | bounded in-flight work; every request answered |
| Artifact and file routes, `routes/artifacts.rs`, `files.rs` | none | `get_artifact`, `get_file`, extraction | store | budgets at their limit | bounded inflation that refuses nothing within the budget |
| Lists, search, semantic search, `routes/list.rs`, `search.rs`, `semantic.rs`, `embeddings.rs` | embeddings | two queries for one answer; `upsert_embedding` | database | publishes and yanks between the queries | a summary is never ahead of its versions |
| Boot, configuration, migrations, `server.rs`, `migration/` | schema | `connect_with_retry`, `Migrator::up`, backfill | database | deadline, several replicas and commands migrating at once, restarts | a server serves the full schema; it gives up in time; every replica serves in the end; history keeps its order |
| Errors, entities, metrics | - | - | - | - | - |
| Certification scripts, `scripts/*.py` | batch records | batch controller | a live registry | retry and resume | a package is certified once |
| Quint models, SQL schema, deployment | - | - | - | - | statements of intent |

`PROJECT.json` "components" gives the status of each; "hazards" lists what is
hard to test, at its line, with the properties that cover it.

## 2. Plan, as carried out

The most important behaviour came first, and every module was written so that
it can be proved about: constants with named assumptions, one action per
operation, no RECURSIVE operator.

1. `ArtifactStore`, `Publish` over it, the abstract `Registry` it implements,
   with `PublishProofs`.
2. `AuditLog` (pure), `AuditChain` (concurrent appends), `AuditTamper` (every
   single change of a log), with `AuditLogProofs` (the walk of the verifier) and
   `AuditChainProofs`.
3. `OrgClaim`, with `OrgClaimProofs`.
4. `Backfill` (the numbering of legacy rows by migration 8), under
   `AuditTamper`; `AuditRead` on top of both: the two audit routes; with
   `AuditReadProofs`.
5. `Tokens`, and `Catalog` on top of it: yank, embeddings, lookups, lists and
   artifact reads by requests that act by those tokens, over what publishing
   fills as `Registry` promises; with `CatalogProofs`.
6. `RateLimit`, `Router`, `Files` and `Boot`: the parts of one replica, composed
   side by side by `MCReplica`; with `ReplicaProofs`.

What would come next is in section 7.

## 3. What is modelled

### ArtifactStore and Publish

`ArtifactStore` holds `objects[k]` in `absent | torn | whole`. Memory puts are one
step under the write lock (with the byte accounting), S3 puts one step.
A local put is two: `LocalOpen` truncates, `LocalClose` or `LocalAbort` ends it,
on a blocking task that belongs to no request any more once its request is
dropped. `StoreRestart` says what a process death does to each backend.

`Publish` gives every request a program counter with one value per await of
`publish`, so requests interleave where the program does. Reads outside the
transaction (`FindPackage`, `FindVersion`) may be stale by the time of the
transaction. `UpsertPackage` takes the package row's lock and waits for it;
`InsertVersion` or `InsertConflicts` meets the unique index; `Commit` makes
metadata and version visible together (`ApplyTxn`), also when the handler does
not learn of it: `CommitAnswerLost` answers 500, or drops the handler, and never
comes to `audit::record`. `TxnFails`, `PutFails`, `Cancel` and `Restart` are the
other ways out. `audit` and `warned` hold what became of the release's audit
entry once `audit::record` was called; the append itself is `AuditChain`'s.

`Registry` is what publishing promises: artifacts are only added, a version row
appears once, with its package's metadata, when its artifact is stored.
`ImplementsRegistry` maps `blobs` to the whole objects, `published` to the
committed version rows, `metadata` to the package rows.

### AuditLog, AuditChain

`AuditLog` translates `entry_digest` (an injective tuple), the link
`append_chained` writes, and `verify_chain` with its running hash, its report
and its order of tests. `AuditChain` runs any number of `record` calls: begin
(with or without the advisory lock), read the tip, insert against the unique
(org_id, seq) index, commit, retry a lost position up to `APPEND_ATTEMPTS`, warn,
or be dropped.

### Backfill, AuditTamper, AuditRead

`Backfill` is the UPDATE of migration 8 as an operator: the position of a legacy
row is the number of rows of its org not after it by (at, id). `AuditTamper`
starts from legacy rows of two orgs with any timestamps, ties included, numbers
them so, and appends honestly after them (`Append1` is `append_chained` alone;
racing appends are `AuditChain`'s). One `Tampering` step may then edit, delete,
re-point, or change a stored prev_hash, at any row. `Verdict` is the verify
route: the first `MAX_VERIFY_ROWS` rows by position, walked by `verify_chain`.
`AuditRead` adds a client of `get_audit_log` that pages backwards, with or
without an action filter, by tokens of every scope and role, while entries are
appended: `Page` is the handler (clamp, default limit, `before`, order, filter
before the limit).

### OrgClaim

A claim per handler: lookup outside the transaction, fiducia lease (fail-open,
so it goes on whatever the answer: the lease may be refused, leaked or expired
and no property may depend on it), advisory lock by a hash that may collide,
count, insert against the unique slug, commit, audit. `OperatorCreates` is
`create-token --org` in another process.

### Tokens and Catalog

`Tokens` holds the token rows and the orgs. An actor is one command or one
request: `create-token` looks for its org, makes it or loses the slug, and mints;
`revoke-token` selects every row of the name once and then marks one after the
other, and may stop in between. `Authenticate` is `require_token`;
`FindOperator`, `InsertOperator` and `RefindOperator` are the auth-disabled path
with its first-use race. Every call to the database may fail (`CommandFails`,
`LookupFails`, `InsertOperatorFails`, and `QueryFails` in `Catalog`), and one that
writes may have been applied all the same: both are answered 500. The unique
violation of the operator row has an end of its own, `duplicate`, so that
`OperatorRaceIsHarmless` can say that it is never the answer: a request that the
database did not fail acts by the row, won or lost.

`Catalog` extends it. `Publish` adds artifacts and releases through the actions
of `Registry` (which `Publish` the module is shown to implement). A yank goes
on by its awaits: authorize, find the version, update the flag, record the audit
entry; the update's answer may be an error although it was applied, the entry
may be given up with a warning, the request may be dropped anywhere. An
embedding goes the same way without an entry. A read takes its package rows in
one query and the versions of each in another, then follows the latest version
it was told through `get_version` and `get_artifact`. `late`, `lost`,
`overlapped`, `updated` are history variables: whether the token was dead when the
request arrived, which versions may miss an entry, which were changed by two
requests at one time.

### RateLimit, Router, Files, Boot

`RateLimit` is `check_at` and `sweep_at` in integers: a request costs `Unit`, so
fractions of a token are exact for a refill that divides it. A caller reads the
clock (`ReadClock`) before it gets the lock (`Charge`), so instants are applied
out of order; `rewound` counts by how much.

`Router` is the order of the layers: timeout outside, the in-flight permit, the
limiter, the artifact permit, the handler; `get_file` hands its extraction to the
blocking pool, which holds no permit once the request is gone. axum applies a
layer to each endpoint by itself and `ConcurrencyLimitLayer` makes a new
semaphore each time, so every route has its own permits.

`Files` is `extract_file` on archives as sequences of entries with a declared and
a real size in bytes: `BudgetReader` for tar.gz, `read_capped` for zip, the
served-size cap for both, in the order the code tests them. The crates below are
external: tar headers and the end mark are blocks of `BLOCK` bytes (512), data are
padded to blocks, and all of them pass through `BudgetReader`, which refuses to
read when nothing remains, even if nothing would come. So its one byte more than
the budget pays for the read that finds the end of a stream without an end mark,
never for an end mark. Archives may be cut short at any byte, with or
without an error of the gzip stream, have an unreadable header, an unreadable zip
directory, or zip data that fail their check. A wanted tar entry cut short where
the stream ends cleanly is served short.

`Boot` starts servers and commands against one database: `connect_with_retry`,
then one migrating transaction (read what is pending, first DDL statement takes
the locks, commit), which fails for whoever comes second and was looking
before; failure at any statement rolls it back, the supervisor starts servers
again. It begins from a database any older release has migrated.

`MCReplica` lets one of the four move in a behaviour while the others rest: they
share no variable, so their product tells nothing that their sum does not, and
the sum is what TLC can enumerate.

## 4. Runs

| Run | Shows | Bounds and why they are enough |
|---|---|---|
| `publish_s3` | safety of publishing, refinement of `Registry` | two requests (every hazard is a race of two), two versions of one package, two artifacts, two metadata: same and different version, digest and metadata |
| `publish_memory` | capacity never exceeded; nothing committed lost while the process lives; no effect without authority and the right digest | artifacts of size 1 and 2 with room for 2, so one must be refused; publisher, reader, foreign and admin tokens, a claimed and an unclaimed org |
| `publish_local` | every request is answered, in spite of writes that outlive their request | one artifact, two versions of one package: the rewrite of a committed file, and a wait for the other's row lock |
| `publish_local_torn` (violation) | finding: a committed artifact is torn by a second put | two requests, two artifacts |
| `publish_lost_audit` (violation) | finding: an audit entry lost without a warning: `Commit`, then `Cancel` inside `audit::record` | two requests |
| `chain_locked` | under the lock no append loses its position; every `record` returns | three writers, two orgs, one of them with a legacy row |
| `chain_unlocked` | with the index alone: no fork, no duplicate, true outcomes, append-only | four entries and three attempts: a call can lose all of them to the others |
| `audit_read` | history survives the upgrade; what intact vouches for, also of a log longer than the prefix; the verdict on each single change; a pager neither skips nor repeats | up to two legacy rows of two orgs with ties, a log of up to five rows, `MAX_VERIFY_ROWS` four: the fifth row lies outside the verified prefix and inside it a first, a middle and a last chained row exist; `limit` not given (default two), below, inside and above the clamp of 1..3 |
| `chain_prev_hash` (violation) | finding: a wrong stored prev_hash is not reported | as above |
| `claim` | quota, single owner, true answers and trail, every claim answered | two claims among those of two scoped tokens with room for one org each and of an admin, and the operator; three slugs. `hashtext` gives the scoped tokens one lock key and the admin another, so claims meet inside the same lock, inside different ones, and where only the lock key is common. A name that is no slug and a token's own org are asked for by one token each (`MCAsked`): the others would do the same |
| `catalog` | dead tokens do nothing, the operator row's race is harmless, the trail follows the flags, summaries and the latest version hold | three actors (two that race and one that looks, or two revocations and a request), two tokens of one name and the operator row, two versions of a package of which one is yanked and restored. `MCView` leaves out what no later step and no property looks at (what an actor that failed or was dropped before it changed anything still remembers) |
| `replica` | boot, limiter, router, extraction | boot: two servers and a command (one wins, one loses, one restarts later), two migrations, deadline 3 with a sleep of 2 and attempts of up to 2, so that the last attempt may overrun. Limiter: one key (keys share nothing), two callers for out-of-order instants, a burst of 2, a refill that is a fraction of a request, eviction at 3 of 4 ticks. Router: three file clients for one artifact permit and two in-flight permits, one client of another route. Files: every archive of up to two entries (one to get past, one wanted) of sizes 0, 1, 3 in blocks of 2 against a cap of 2 and a budget of 6, whole, cut at every byte, or damaged: the budget is met exactly by headers and data, by the end mark, by a stream without one, and missed by one byte, which is less than a block |

Lock ownership and what a process knows at each await are conjuncts of `IInv` of
`Publish`, `AuditChain` and `OrgClaim`, which the proofs use; TLC has checked them
as invariants of the same instances.

Symmetry is used only in runs without liveness, over sets whose members the
specification never tells apart. Deadlock is checked except where the system
really stops: the chain runs, which end when every entry has been recorded or
lost; the audit runs, which end after one change and one reader; `catalog`,
whose actors act once each; `replica`, whose limiter stops at its last tick and
whose extraction ends with its outcome.

**Fairness.** Weak fairness of each handler's own steps: tokio polls ready
futures and the database and store answer (a call that never answers is the
timeout's case, `Cancel`). Strong fairness of taking a row lock, an advisory
lock or a contended index entry: Postgres queues waiters, so one that finds the
lock free again and again gets it. No fairness of failures, restarts or new
requests. `RouterFair` assumes only that the timers of `TimeoutLayer` fire: nothing
is assumed of handlers, extractions or of who gets a permit next, so the
property holds when they never do. `BootFair` assumes that a process goes on
(connecting, reading, migrating when the tables are free) and that the
supervisor restarts a server that exited; `EveryReplicaServes` is conditional on
the trouble ending.

## 5. Proofs

Every safety property that a passing run checks is also a theorem. All have
the form `Spec => ...` and hold for every number of requests, packages, versions,
orgs, tokens, rows and artifacts, and all values of the bounds, from the named
assumptions of the modules only. These type the constants (`None` is none of the
values it stands beside, sizes and limits are naturals), every run that uses a
module evaluates its own, and `CatalogAssumption` also says that any versions
have a greatest, as finitely many do.

`FiniteLemmas` holds what several proofs need of finite sets: a nonempty set of
naturals has a least and, when finite, a greatest member; and sums over finite
sets, written as the number of units (`SumOf`): a sum grows and shrinks by the
member that comes or goes (`SumAdd`), does not fall when the set grows, and is
what a fold computes (`SumsUp`, `SumUnique`). There is no induction over data:
each of these comes from a least counterexample or from cardinalities.

`PublishProofs`: type correctness; `RowLockHeldInTxn`, `VersionsImmutable`,
`EffectsAreAuthorized`, `AuditedReleasesCommitted`, `AckedIsDurable`,
`ConflictMeansPublished` and `MetadataMovesWithVersion` on every backend; and
`CommittedArtifactAvailable` and the refinement of `Registry` under
`KeepsObjects` (S3, or memory in a process that does not die), the only backends
for which they hold. The invariants are not inductive alone: `IInv` adds
what a request knows at each await. The heart is the row lock: a transaction
that has inserted its version row still holds its package row, so nobody else
can commit that version before it (`FreshAtCommit`); from that follow
immutability, the single auditor of a release and the truth of the answers.
A conjunct that another one needs comes first: locks, then authority, then
storage, then outcomes; each group is one lemma per step. `MemoryIsBounded` is the
capacity of the memory store: what it admits is tested against the sum of what it
holds, so it is an invariant about sums over a set that grows by one key.

`AuditLogProofs` is about `verify_chain` alone, for rows whose unhashed ones come
first: which rows it passes, what it expects at each (`WalkAt`), that it is intact
when none fails (`WalkPasses`), and what it reports when one is the first to fail
(`WalkStops`).

`AuditChainProofs`: type correctness, `ChainLinked` (no fork, no skipped
position), `AppendOnly`, `RetriesAreOthersProgress`, `LockMakesReadsCurrent`,
`RecordedOnce`, `OutcomeIsTrue`. The strengthening says that a tip a writer
read is still a row of the log, that a writer about to commit read the last one
and is alone in that, and that an entry is in the log exactly from its commit.
`ServerVerifiesItsLog` puts `ChainLinked` and the walk together: the verifier
calls intact whatever the appends produce (`ChainVerifies`).

`AuditReadProofs`: the positions the migration gives an org's rows are 1 to n,
each once, in the order they were recorded, for any finite set of legacy rows
(`NumberingKeepsHistory`, by cardinalities of initial segments), so the unique
index can be created; no later step disturbs it (`HistoryStaysKept`).
`TamperInvariant` says what the honest log is (legacy rows without a hash, then
links) and how the stored one differs from it. From that, the rows the walk
covers are either as they were appended, or it comes to the changed one
(`CleanOrReached`), and then its report follows from the tests it makes there:
`IntactIsTrue`, `EditsAreFound`, `DeletionsAreFound`, `RelinksAreFound`.
`VerifierIsExact` is their sum and the limit of the verifier: it objects exactly
when a walked row was edited, re-pointed, or is missing before another, so a
stored prev_hash changed alone (the finding of `chain_prev_hash`), the loss of
the newest row and changes past `MAX_VERIFY_ROWS` are never seen, on no log.
Reading changes nothing (`ReadingIsPassive`), so all this holds while a
client pages. `PagingIsExact`: the rank of a position among those of a query is
the number of those not below it, and a page is the ranks after the last one
given; entries appended meanwhile lie above all those asked for and are cut off
by `before`.

`OrgClaimProofs`: type correctness, `QuotaRespected`, `OwnerForGood`,
`AnswersAreTrue` and `TrailNamesOwner`. The strengthening: a claim past its
count stays under quota (`UnderQuota`), since a commit by the same token
would have to be inside the same lock.

`ReplicaProofs` has the parts that `MCReplica` runs side by side.
*Boot*: whoever holds the tables read what is in the database, since it
compared after it got them and nobody else can commit before it lets go; so
migrations are applied once and in order, and a server that migrates serves the
full schema (`ServersSeeFullSchema`). `ConnectingIsBounded` is the deadline
arithmetic. *Limiter*: `LimiterInv` accounts for each bucket: what was admitted,
plus what is left, is at most the burst plus the refill of the time seen, plus
that of the time by which late instants turned the bucket's clock back. From it
`TokensStayInBudget` (if idling out refills a bucket: `IdleRefills`, true of the
defaults) and, at whatever rate, `RetryAfterIsEnough`. *Files*: what a scan has
decompressed and what is left of its budget always add up to the budget, and
what it has decompressed is the cost of the entries it has passed
(`FilesInv`), headers and padding included; so `ExtractionIsBounded`, for
archives of any length and damage, and any block size.

`CatalogProofs` has three invariants over a common one that says where an actor
can be with what it was asked. `TokenInv`: rows only die (`RowsOnlyDie`), because
a row is minted by the one command that was given its id; what a revoke-token
command no longer has before it is revoked, so when it returns all it matched
is; so a token that counts as dead at a request's arrival is still dead when
`require_token` looks (`DeadTokensDoNothing`), and the operator row, once there,
stays, so whoever lost its insert finds it (`OpenReplicasAdmit`). `ReadInv`: releases and artifacts only grow, so what a
read has seen stays true (`SummariesAreNotAhead`, `LatestIsFetched`). `TrailInv`:
at most one request is changing a version on which no two have overlapped
(`Alone`), so between its update and its entry the flag is its own, and
otherwise that of the last entry (`InStep`); `TrailIsTrue` follows.
`CatalogFollowsRegistry`: of publishing the module sees only what `Registry`
promises, which `PublishImplementsRegistry` proves of the pipeline.

Only model-checked: liveness (`EveryRequestAnswered`, `RecordReturns`,
`EveryClaimAnswered`, `RouteNeverWedged`, `EveryReplicaServes`), as fairness and
ENABLED are out of the prover's reach.

## 6. Findings

* `publish_lost_audit`: `src/audit.rs:21` says a failed audit write is logged with
  everything needed to reconstruct it. A request dropped inside `audit::record`
  (timeout, client gone, process death) has failed to write its entry without a
  warning (`AuditWriteIsLogged`). A request that never came to `audit::record`,
  because the answer to its commit was lost, is not held against it.
* `publish_local_torn`: `formal/README.md:42` says every committed digest remains
  present in blob storage. On the local backend a second put of a committed
  digest truncates its file.
* `chain_prev_hash`: `src/audit.rs:215` documents `BrokenLink` as a prev_hash that
  does not match. The walk never compares the stored prev_hash of a row whose
  own hash is right.

Met while modelling. A run of its own would show little more than the line:

* `routes/mod.rs:106-108` says a rate-limited request never occupies an in-flight
  slot; the concurrency layer wraps the limiter, so it does (`RateLimited`).
* The comments on `MAX_IN_FLIGHT_REQUESTS` and `artifact_serve_concurrency` speak of
  global limits; each route gets a semaphore of its own (`FreePermit`).
* An extraction holds its archive in memory and no permit once its request timed
  out, so archives in memory can exceed the artifact permits.
* A request whose instant is older than the bucket's rewinds `last_seen`, and the
  time in between is refilled twice (`rewound`); a refill too slow to fill a bucket
  while it idles out is forgiven by the sweep (`IdleRefills`).
* Two concurrent revocations of one row replace each other's timestamp, although
  `tokens.rs:128` says it is preserved (`RevokeOne`).
* Migration 8 and `audit.rs:243` speak of legacy rows at position 0 while the
  backfill numbers them from 1; a replica of the old release that still inserts
  position 0 during a rolling upgrade meets the unique index at its second row.
* An embedding is put by the authority of publish and yank, without an audit entry.
* A list's total and its page are two reads, and pages by offset may repeat or
  skip under concurrent publishes.
* A server with `AUTO_MIGRATE=false` serves whatever schema it finds.

## 7. What is not modelled

SHA-256 and hash collisions (digests are injective), archive formats beyond
their blocks and the ways they break, manifest parsing (a body is good or bad), wording, headers and logging, except
where a property is about a warning. Ranking, text matching and vectors are
floating-point or library data; lists, search and embeddings are modelled as far
as their queries and updates interleave. Parsing the configuration is data.
`metrics.rs` is not compiled into the binary. The certification scripts drive a
running system from outside with external tools.

A dropped request whose statement is already at the database: the statement may
still be applied after the client was told of the timeout. In `Publish` that is
`CommitAnswerLost` with the answer `cancelled`; in `Catalog` a yank dropped at its update may do so
only before it leaves (`Update` answered with an error), not later.

The database is external and modelled by what the code relies on: READ
COMMITTED, unique indexes, row locks, transaction-scoped advisory locks, rollback
of a dropped transaction, DDL inside a transaction. On SQLite, which the tests
use, migrations and the backfill are the same; the advisory locks are not
there, which is what `chain_unlocked` checks.

Left for later: `Publish` composed with the real `AuditChain` (its audit step is an
abstraction of it), `Catalog` on the real `Publish` instead of `Registry` (shown to
be implemented by it), a restart of the memory store under `Catalog`.
