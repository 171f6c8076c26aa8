----------------------------- MODULE AuditChain ------------------------------
(***************************************************************************)
(* Appending to the per-org audit chain: record and append_chained of      *)
(* src/src/audit.rs, run by any number of handlers on any number of        *)
(* replicas against one database.                                          *)
(*                                                                         *)
(* A writer is "idle", or inside one attempt of append_chained:            *)
(*   "begin"   about to open the transaction and take the advisory lock,   *)
(*   "read"    about to read the tip of the chain,                         *)
(*   "insert"  about to insert the next link,                              *)
(*   "commit"  the row is inserted and holds its (org_id, seq) index       *)
(*             entry; the commit is outstanding,                           *)
(*   "done"    committed; record is about to return.                       *)
(***************************************************************************)
EXTENDS AuditLog

CONSTANTS
  Org,
  Writer,          \* handlers that may be inside record at the same time
  Entry,           \* the mutations to record; each is recorded by one call
  Legacy,          \* Legacy[o]: rows of o that predate the chain
  LegacyBody,      \* what those rows say
  AdvisoryLock,    \* whether pg_advisory_xact_lock is there (Postgres)
  APPEND_ATTEMPTS,
  None

ASSUME ChainAssumption ==
  /\ Legacy \in [Org -> Nat]
  /\ AdvisoryLock \in BOOLEAN
  /\ APPEND_ATTEMPTS \in Nat \ {0}
  /\ None \notin Writer /\ None \notin Org /\ LegacyBody \notin Entry
  /\ None \notin [org : Org, entry : Entry]

VARIABLES
  log,       \* log[o]: o's committed rows, in the order they were committed
  lock,      \* lock[o]: the writer whose transaction holds o's advisory lock
  pc,
  call,      \* call[w]: the org and entry of w's record call
  tip,       \* tip[w]: the tip of the chain that w read in this attempt
  attempts,  \* attempts[w]: attempts this call has used up
  since,     \* since[w]: length of the org's log when the call began
  outcome    \* outcome[e]: what became of the call that records e

vars == <<log, lock, pc, call, tip, attempts, since, outcome>>

Outcome == {"none", "open", "appended", "gave_up", "warned", "dropped"}

InTxn == {"read", "insert", "commit"}

TypeOK ==
  /\ DOMAIN log = Org
  /\ \A o \in Org : \A i \in DOMAIN log[o] :
       log[o][i].seq \in Nat \ {0} /\ log[o][i].body \in Entry \cup {LegacyBody}
  /\ lock \in [Org -> Writer \cup {None}]
  /\ pc \in [Writer -> {"idle", "begin", "done"} \cup InTxn]
  /\ call \in [Writer -> [org : Org, entry : Entry] \cup {None}]
  /\ \A w \in Writer : call[w] = None <=> pc[w] = "idle"
  /\ \A w \in Writer : tip[w].seq \in Nat
  /\ attempts \in [Writer -> 0..APPEND_ATTEMPTS]
  /\ since \in [Writer -> Nat]
  /\ outcome \in [Entry -> Outcome]

Init ==
  /\ log = [o \in Org |-> [i \in 1..Legacy[o] |-> LegacyRow(i, LegacyBody)]]
  /\ lock = [o \in Org |-> None]
  /\ pc = [w \in Writer |-> "idle"]
  /\ call = [w \in Writer |-> None]
  /\ tip = [w \in Writer |-> NoTip]
  /\ attempts = [w \in Writer |-> 0]
  /\ since = [w \in Writer |-> 0]
  /\ outcome = [e \in Entry |-> "none"]

-----------------------------------------------------------------------------
Goto(w, next) == pc' = [pc EXCEPT ![w] = next]

Release(w) == lock' = [o \in Org |-> IF lock[o] = w THEN None ELSE lock[o]]

Rows(o) == {log[o][i] : i \in DOMAIN log[o]}

\* ORDER BY seq DESC LIMIT 1 over the committed rows.
ReadTip(o) ==
  IF log[o] = <<>> THEN NoTip
  ELSE LET row == CHOOSE row \in Rows(o) : \A other \in Rows(o) : other.seq <= row.seq
       IN [seq |-> row.seq, entry_hash |-> row.entry_hash]

Link(w) == NextLink(call[w].org, tip[w], call[w].entry)

\* The call returns: its transaction is over, its entry has an outcome.
Return(w, out) ==
  /\ Goto(w, "idle")
  /\ outcome' = [outcome EXCEPT ![call[w].entry] = out]
  /\ call' = [call EXCEPT ![w] = None]
  /\ tip' = [tip EXCEPT ![w] = NoTip]
  /\ attempts' = [attempts EXCEPT ![w] = 0]
  /\ since' = [since EXCEPT ![w] = 0]

\* A handler that has committed mutation e of org o calls record.
Record(w, o, e) ==
  /\ pc[w] = "idle"
  /\ outcome[e] = "none"
  /\ Goto(w, "begin")
  /\ call' = [call EXCEPT ![w] = [org |-> o, entry |-> e]]
  /\ since' = [since EXCEPT ![w] = Len(log[o])]
  /\ outcome' = [outcome EXCEPT ![e] = "open"]
  /\ UNCHANGED <<log, lock, tip, attempts>>

\* Mutation: the lock key leaves the org's lock to more than one holder.
BeginWithoutWaiting(w) ==
  /\ pc[w] = "begin"
  /\ AdvisoryLock
  /\ lock' = [lock EXCEPT ![call[w].org] = w]
  /\ Goto(w, "read")
  /\ UNCHANGED <<log, call, tip, attempts, since, outcome>>

\* Begin the transaction and take the org's lock, waiting while another
\* transaction holds it.
BeginLocked(w) ==
  /\ pc[w] = "begin"
  /\ AdvisoryLock
  /\ lock[call[w].org] = None
  /\ lock' = [lock EXCEPT ![call[w].org] = w]
  /\ Goto(w, "read")
  /\ UNCHANGED <<log, call, tip, attempts, since, outcome>>

BeginUnlocked(w) ==
  /\ pc[w] = "begin"
  /\ ~AdvisoryLock
  /\ Goto(w, "read")
  /\ UNCHANGED <<log, lock, call, tip, attempts, since, outcome>>

Read(w) ==
  /\ pc[w] = "read"
  /\ tip' = [tip EXCEPT ![w] = ReadTip(call[w].org)]
  /\ Goto(w, "insert")
  /\ UNCHANGED <<log, lock, call, attempts, since, outcome>>

\* Mutation: an insert does not wait for the open one at its position.
EntryNeverHeld(w) == FALSE

\* Another open transaction holds the index entry of w's position.
EntryHeld(w) ==
  \E v \in Writer \ {w} :
    /\ pc[v] = "commit"
    /\ call[v].org = call[w].org
    /\ tip[v].seq = tip[w].seq

\* Mutation: no unique index on (org_id, seq).
PositionNeverTaken(w) == FALSE

\* A committed row has w's position.
PositionTaken(w) ==
  \E i \in DOMAIN log[call[w].org] : log[call[w].org][i].seq = tip[w].seq + 1

\* The insert waits for an open transaction that holds the same position.
Insert(w) ==
  /\ pc[w] = "insert"
  /\ ~EntryHeld(w)
  /\ ~PositionTaken(w)
  /\ Goto(w, "commit")
  /\ UNCHANGED <<log, lock, call, tip, attempts, since, outcome>>

\* Mutation: the retry keeps the tip it read before.
PositionLostKeepsTip(w) ==
  /\ pc[w] = "insert"
  /\ ~EntryHeld(w)
  /\ PositionTaken(w)
  /\ Release(w)
  /\ IF attempts[w] + 1 < APPEND_ATTEMPTS
     THEN /\ Goto(w, "insert")
          /\ attempts' = [attempts EXCEPT ![w] = @ + 1]
          /\ UNCHANGED <<call, tip, since, outcome>>
     ELSE Return(w, "gave_up")
  /\ UNCHANGED log

\* Unique violation: roll back, and retry while attempts are left.
PositionLost(w) ==
  /\ pc[w] = "insert"
  /\ ~EntryHeld(w)
  /\ PositionTaken(w)
  /\ Release(w)
  /\ IF attempts[w] + 1 < APPEND_ATTEMPTS
     THEN /\ Goto(w, "begin")
          /\ attempts' = [attempts EXCEPT ![w] = @ + 1]
          /\ tip' = [tip EXCEPT ![w] = NoTip]
          /\ UNCHANGED <<call, since, outcome>>
     ELSE Return(w, "gave_up")
  /\ UNCHANGED log

Commit(w) ==
  /\ pc[w] = "commit"
  /\ log' = [log EXCEPT ![call[w].org] = Append(@, Link(w))]
  /\ Release(w)
  /\ Goto(w, "done")
  /\ UNCHANGED <<call, tip, attempts, since, outcome>>

\* Mutation: any error is retried, that of a commit that was applied too.
FinishRetries(w) ==
  /\ pc[w] = "done"
  /\ \/ Return(w, "appended")
     \/ Goto(w, "begin") /\ UNCHANGED <<call, tip, attempts, since, outcome>>
  /\ UNCHANGED <<log, lock>>

\* record returns, or the commit was applied but its answer was an error,
\* which is not a unique violation and so is not retried.
Finish(w) ==
  /\ pc[w] = "done"
  /\ Return(w, "appended") \/ Return(w, "warned")
  /\ UNCHANGED <<log, lock>>

\* Mutation: the error path returns as if the entry had been appended.
FailSilently(w) ==
  /\ pc[w] \in {"begin"} \cup InTxn
  /\ Release(w)
  /\ Return(w, "appended")
  /\ UNCHANGED log

\* Any other database error ends the loop: the entry is logged at warn.
Fail(w) ==
  /\ pc[w] \in {"begin"} \cup InTxn
  /\ Release(w)
  /\ Return(w, "warned")
  /\ UNCHANGED log

\* Mutation: the lock is held by the session, not by the transaction.
DropKeepsLock(w) ==
  /\ pc[w] # "idle"
  /\ Return(w, "dropped")
  /\ UNCHANGED <<log, lock>>

\* The handler is dropped or its process dies: the transaction is rolled
\* back, and nobody is left to log anything.
Drop(w) ==
  /\ pc[w] # "idle"
  /\ Release(w)
  /\ Return(w, "dropped")
  /\ UNCHANGED log

Step(w) ==
  \/ BeginLocked(w) \/ BeginUnlocked(w) \/ Read(w) \/ Insert(w) \/ PositionLost(w)
  \/ Commit(w) \/ Finish(w)

Next ==
  \/ \E w \in Writer, o \in Org, e \in Entry : Record(w, o, e)
  \/ \E w \in Writer : Step(w) \/ Fail(w) \/ Drop(w)

Spec == Init /\ [][Next]_vars

\* The database answers and the runtime polls; waiters for the advisory lock
\* and for an index entry queue.  Nothing is assumed of failures.
FairSpec ==
  /\ Spec
  /\ \A w \in Writer : WF_vars(Step(w)) /\ SF_vars(BeginLocked(w))

-----------------------------------------------------------------------------
(***************************************************************************)
(* The chain never forks: whatever appends, retries and failures overlap,  *)
(* with the advisory lock or without it, the committed log is one the      *)
(* server's own verifier calls intact, legacy rows or not.                 *)
(***************************************************************************)
ChainVerifies == \A o \in Org : verify_chain(o, log[o]).intact

\* The same, spelled out: positions 1, 2, 3, ... and each chained row the
\* link that follows from the row before it.
ChainLinked ==
  \A o \in Org : \A i \in DOMAIN log[o] :
    /\ log[o][i].seq = i
    /\ i > Legacy[o] =>
         log[o][i] = NextLink(o, IF i = 1 THEN NoTip ELSE log[o][i - 1], log[o][i].body)

\* Rows are only ever added, at the end.
AppendOnly ==
  [][\A o \in Org : log'[o] # log[o] =>
       \E e \in Entry : log'[o] = Append(log[o], NextLink(o, ReadTip(o), e))]_log

(***************************************************************************)
(* An entry is in the log at most once, however often its append is tried  *)
(* and however its last attempt ended.                                     *)
(***************************************************************************)
RecordedIn(logs, e) ==
  UNION {{<<o, i>> : i \in {j \in DOMAIN logs[o] : logs[o][j].body = e}} : o \in Org}

Recorded(e) == RecordedIn(log, e)

RecordedOnce == \A e \in Entry : \A a, b \in Recorded(e) : a = b

\* A call that returned without a word of failure has its entry in the log;
\* one that gave up has not.
OutcomeIsTrue ==
  \A e \in Entry :
    /\ outcome[e] = "appended" => Recorded(e) # {}
    /\ outcome[e] \in {"none", "gave_up"} => Recorded(e) = {}

\* Under the advisory lock the tip a writer read is still the tip when it
\* inserts: no append ever loses its position, so none is retried.
LockMakesReadsCurrent ==
  AdvisoryLock => \A w \in Writer :
    /\ pc[w] \in {"insert", "commit"} => tip[w] = ReadTip(call[w].org)
    /\ attempts[w] = 0

(***************************************************************************)
(* Without the lock a call uses up an attempt only when another append to  *)
(* the org went through meanwhile: giving up takes APPEND_ATTEMPTS of them *)
(* during one call, and some writer always gets through.                   *)
(***************************************************************************)
RetriesAreOthersProgress ==
  \A w \in Writer : pc[w] # "idle" => since[w] + attempts[w] <= Len(log[call[w].org])

(***************************************************************************)
(* The strengthening that makes these inductive.  What a writer read as    *)
(* the tip of the chain is a row that is still there; a writer whose row   *)
(* is inserted read the row that is still last, and is alone in that; an   *)
(* entry is in the log exactly from its commit on.                         *)
(***************************************************************************)
Shape ==
  /\ log = [o \in Org |-> log[o]] /\ \A o \in Org : log[o] \in Seq(Rows(o))
  /\ tip = [w \in Writer |-> tip[w]]

IdleIsFresh == \A w \in Writer : pc[w] = "idle" => attempts[w] = 0

LegacyUnhashed ==
  \A o \in Org : /\ Legacy[o] <= Len(log[o])
                 /\ \A i \in 1..Legacy[o] : log[o][i].entry_hash = NoHash

TipAt(rows, n) ==
  IF n = 0 THEN NoTip ELSE [seq |-> n, entry_hash |-> rows[n].entry_hash]

TipsKnown ==
  \A w \in Writer : pc[w] \in {"insert", "commit"} =>
    /\ tip[w].seq \in 0..Len(log[call[w].org])
    /\ tip[w] = TipAt(log[call[w].org], tip[w].seq)
    /\ since[w] + attempts[w] <= tip[w].seq

SoleCommitter ==
  \A w \in Writer : pc[w] = "commit" =>
    /\ tip[w].seq = Len(log[call[w].org])
    /\ \A v \in Writer : pc[v] = "commit" /\ call[v].org = call[w].org => v = w

LockHeldInTxn ==
  AdvisoryLock => \A w \in Writer, o \in Org :
    lock[o] = w <=> pc[w] \in InTxn /\ call[w].org = o

EntriesTracked ==
  \A w \in Writer : pc[w] # "idle" =>
    /\ outcome[call[w].entry] = "open"
    /\ pc[w] # "done" => Recorded(call[w].entry) = {}
    /\ pc[w] = "done" => Recorded(call[w].entry) # {}
    /\ \A v \in Writer : pc[v] # "idle" /\ call[v].entry = call[w].entry => v = w

\* The inductive invariant.
IInv ==
  /\ TypeOK /\ Shape /\ IdleIsFresh
  /\ ChainLinked /\ LegacyUnhashed /\ TipsKnown /\ SoleCommitter
  /\ RetriesAreOthersProgress
  /\ LockHeldInTxn /\ LockMakesReadsCurrent
  /\ EntriesTracked /\ RecordedOnce /\ OutcomeIsTrue

\* Every record call returns: neither the lock nor the retries can hold a
\* handler for ever.
RecordReturns == \A w \in Writer : pc[w] # "idle" ~> pc[w] = "idle"
=============================================================================
