--------------------------------- MODULE Boot --------------------------------
(***************************************************************************)
(* How a process starts (src/src/server.rs, src/migration/src/lib.rs):     *)
(* servers, which retry their connection up to a deadline, and the         *)
(* create-token and revoke-token commands, which connect once; all of them *)
(* migrate the one database, and none of them waits for another but at the *)
(* database.                                                               *)
(*                                                                         *)
(* On Postgres Migrator::up is one transaction: it reads what is pending,  *)
(* and its first DDL statement waits for another migrator's transaction.   *)
(* If that one commits, the tables are there and the statement fails; the  *)
(* process exits, and its supervisor starts it again.                      *)
(***************************************************************************)
EXTENDS Integers, Sequences, FiniteSets

CONSTANTS
  Server, Command,   \* the processes
  AutoMigrate,       \* the servers with AUTO_MIGRATE
  Migrations,        \* how many there are
  MaxWait,           \* DB_CONNECT_MAX_WAIT_SECS
  RetrySleep,        \* the sleep between attempts
  AttemptMax,        \* the longest an attempt takes: its timeout
  Nobody

Process == Server \cup Command

ASSUME BootAssumption ==
  /\ AutoMigrate \subseteq Server /\ Server \cap Command = {}
  /\ Migrations \in Nat /\ MaxWait \in Nat /\ RetrySleep \in Nat /\ AttemptMax \in Nat
  /\ Nobody \notin Process

VARIABLES
  stage,     \* "connecting", "connected", "pending", "migrating", "ready",
             \* "serving", "exited"
  elapsed,   \* seconds since the process began to connect
  gaveUp,    \* the servers that exited because the deadline had passed
  pending,   \* how many migrations were applied when the process looked
  applied,   \* the migrations in the database, in the order they ran
  ddl,       \* the process whose transaction holds the tables
  trouble    \* the database or the machines are failing

bootVars == <<stage, elapsed, gaveUp, pending, applied, ddl, trouble>>

BootInit ==
  /\ stage = [p \in Process |-> "connecting"]
  /\ elapsed = [p \in Process |-> 0]
  /\ gaveUp = {}
  /\ pending = [p \in Process |-> 0]
  /\ \E n \in 0..Migrations : applied = [i \in 1..n |-> i]   \* an older release ran here
  /\ ddl = Nobody
  /\ trouble \in BOOLEAN

Stage(p, from, to) ==
  /\ stage[p] = from
  /\ stage' = [stage EXCEPT ![p] = to]

Waited(p, secs) == elapsed' = [elapsed EXCEPT ![p] = @ + secs]

Connect(p) ==
  /\ ~trouble
  /\ Stage(p, "connecting", "connected")
  /\ UNCHANGED <<elapsed, gaveUp, pending, applied, ddl, trouble>>

\* Mutation: the deadline is looked at before the attempt only.
OutOfTimeBefore(p, secs) == elapsed[p] >= MaxWait

\* An attempt has taken secs and failed; the clock is read after it.
OutOfTime(p, secs) == elapsed[p] + secs >= MaxWait

\* A server whose attempt failed sleeps and tries again, until it is late; a
\* command does not try again.
ConnectFails(p, secs) ==
  /\ trouble
  /\ IF p \in Command \/ OutOfTime(p, secs)
     THEN /\ Stage(p, "connecting", "exited")
          /\ Waited(p, secs)
          /\ gaveUp' = gaveUp \cup ({p} \cap Server)
     ELSE /\ stage[p] = "connecting" /\ UNCHANGED <<stage, gaveUp>>
          /\ Waited(p, secs + RetrySleep)
  /\ UNCHANGED <<pending, applied, ddl, trouble>>

Migrates(p) == p \in Command \cup AutoMigrate

\* Begin the migration's transaction and read what has been applied.
LookForPending(p) ==
  /\ Stage(p, "connected", IF ~Migrates(p) \/ Len(applied) = Migrations THEN "ready" ELSE "pending")
  /\ pending' = [pending EXCEPT ![p] = Len(applied)]
  /\ UNCHANGED <<elapsed, gaveUp, applied, ddl, trouble>>

Free(p) == ddl = Nobody

\* The first DDL statement gets its locks.
Migrate(p) ==
  /\ Free(p)
  /\ pending[p] = Len(applied)
  /\ Stage(p, "pending", "migrating")
  /\ ddl' = p
  /\ UNCHANGED <<elapsed, gaveUp, pending, applied, trouble>>

\* ... or finds that another migrator has been there meanwhile.
MigrateConflicts(p) ==
  /\ Free(p)
  /\ pending[p] # Len(applied)
  /\ Stage(p, "pending", "exited")
  /\ UNCHANGED <<elapsed, gaveUp, pending, applied, ddl, trouble>>

\* All pending migrations have run, in their order: commit.
CommitMigrations(p) ==
  /\ Stage(p, "migrating", "ready")
  /\ applied' = applied \o [i \in 1..(Migrations - pending[p]) |-> pending[p] + i]
  /\ ddl' = Nobody
  /\ UNCHANGED <<elapsed, gaveUp, pending, trouble>>

\* The store is opened, the limiter started, the address bound; a command does
\* what it is for and ends.
Serve(p) ==
  /\ Stage(p, "ready", IF p \in Server THEN "serving" ELSE "exited")
  /\ UNCHANGED <<elapsed, gaveUp, pending, applied, ddl, trouble>>

\* Mutation: a failed migration is logged, and the server goes on.
FailGoesOn(p) ==
  /\ trouble
  /\ stage[p] \in {"connected", "pending", "migrating"}
  /\ stage' = [stage EXCEPT ![p] = "ready"]
  /\ ddl' = IF ddl = p THEN Nobody ELSE ddl
  /\ UNCHANGED <<elapsed, gaveUp, pending, applied, trouble>>

\* Mutation: the transaction of a process that fails stays open.
FailKeepsLocks(p) ==
  /\ trouble
  /\ stage[p] \notin {"connecting", "exited"}
  /\ stage' = [stage EXCEPT ![p] = "exited"]
  /\ UNCHANGED <<elapsed, gaveUp, pending, applied, ddl, trouble>>

\* The database fails a statement, or the process dies: its transaction is
\* rolled back.
Fail(p) ==
  /\ trouble
  /\ stage[p] \notin {"connecting", "exited"}
  /\ stage' = [stage EXCEPT ![p] = "exited"]
  /\ ddl' = IF ddl = p THEN Nobody ELSE ddl
  /\ UNCHANGED <<elapsed, gaveUp, pending, applied, trouble>>

\* The supervisor starts a server again; an operator may run a command again.
StartAgain(p) ==
  /\ Stage(p, "exited", "connecting")
  /\ elapsed' = [elapsed EXCEPT ![p] = 0]
  /\ gaveUp' = gaveUp \ {p}
  /\ UNCHANGED <<pending, applied, ddl, trouble>>

Trouble ==
  /\ trouble' = ~trouble
  /\ UNCHANGED <<stage, elapsed, gaveUp, pending, applied, ddl>>

Progress(p) ==
  \/ Connect(p) \/ LookForPending(p) \/ Migrate(p) \/ MigrateConflicts(p)
  \/ CommitMigrations(p) \/ Serve(p)

BootNext ==
  \/ \E p \in Process :
       \/ Progress(p) \/ Fail(p) \/ StartAgain(p)
       \/ \E secs \in 0..AttemptMax : ConnectFails(p, secs)
  \/ Trouble

BootSpec == BootInit /\ [][BootNext]_bootVars

\* A process goes on, and the supervisor restarts a server that has exited.
\* Nothing is assumed of trouble, nor of who runs a command again.
BootFair ==
  /\ \A p \in Process : WF_bootVars(Progress(p))
  /\ \A p \in Server : WF_bootVars(StartAgain(p))

-----------------------------------------------------------------------------
(***************************************************************************)
(* Whoever migrates, and however often migrating fails, each migration is  *)
(* applied once and in order; and a server that migrates serves only a     *)
(* database that is migrated to the end.                                   *)
(***************************************************************************)
ServingIsMigrated ==
  /\ \A i \in DOMAIN applied : applied[i] = i
  /\ \A p \in AutoMigrate : stage[p] = "serving" => Len(applied) = Migrations

(***************************************************************************)
(* A server gives up no earlier than its deadline, and at most one sleep   *)
(* and one attempt after it.                                               *)
(***************************************************************************)
GivesUpInTime ==
  \A p \in Server :
    /\ stage[p] = "connecting" => elapsed[p] < MaxWait + RetrySleep \/ elapsed[p] = 0
    /\ p \in gaveUp => elapsed[p] \in MaxWait..(MaxWait + RetrySleep + AttemptMax)

\* Once the trouble is over for good every server serves in the end, those
\* that lost the race to migrate too.
EveryReplicaServes ==
  \A p \in Server : <>[]~trouble => <>[](stage[p] = "serving")
=============================================================================
