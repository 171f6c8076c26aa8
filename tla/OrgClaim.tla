------------------------------- MODULE OrgClaim -------------------------------
(***************************************************************************)
(* Claiming a namespace: claim_org of src/src/routes/orgs.rs, run by any   *)
(* number of handlers on any number of replicas against one database.      *)
(*                                                                         *)
(* Program counter of a claim    about to                                  *)
(*   "auth"                       require_token, check the slug            *)
(*   "lookup"                     find the org outside any transaction     *)
(*   "guard"                      ask fiducia for the token's lease        *)
(*   "begin"                      open the transaction, take the lock      *)
(*   "count"                      count the token's orgs                   *)
(*   "insert", "commit"           insert the org, commit                   *)
(*   "audit", "respond"           audit::record, return                    *)
(*                                                                         *)
(* The quota has no index behind it: only the advisory lock, keyed by a    *)
(* hash of the token's id, makes the count and the insert one step.  The   *)
(* fiducia lease around it is fail-open, so the model gives it no power:   *)
(* "guard" is an await that always goes on, lease or no lease, expired or  *)
(* leaked.  The database is as in Publish: READ COMMITTED, and an insert   *)
(* waits for an open transaction that holds the same unique slug.          *)
(***************************************************************************)
EXTENDS Integers, Sequences, FiniteSets

CONSTANTS
  Claim,      \* request slots
  Token,
  Slug,       \* well-formed org slugs
  Malformed,  \* a name that is_slug refuses
  Scope,      \* Scope[t]: the org the token is scoped to, None for an admin
  LockKey,    \* values of hashtext
  LockOf,     \* LockOf[t]: the key of t's advisory lock; keys may collide
  MaxOrgs,    \* max_orgs_per_token
  Operator,   \* creator of the orgs that have no created_by_token
  None

ASSUME ClaimAssumption ==
  /\ Scope \in [Token -> Slug \cup {None}]
  /\ LockOf \in [Token -> LockKey]
  /\ MaxOrgs \in Nat
  /\ IsFiniteSet(Slug)
  /\ Operator \notin Token /\ Malformed \notin Slug
  /\ None \notin Slug /\ None \notin Claim /\ None \notin Token \cup {Operator}
  /\ None \notin [token : Token, slug : Slug \cup {Malformed}]

VARIABLES
  pc,     \* pc[c]: the next await of claim c, "idle" when there is none
  req,    \* req[c]: the token and the name it asks for
  resp,   \* resp[c]: the last answer given in this slot
  owner,  \* owner[s]: who created the committed org s, None if there is none
  lock,   \* lock[k]: the claim whose transaction holds advisory lock k
  held,   \* held[s]: the claim whose open transaction has inserted org s
  audit   \* audit[s]: the tokens of the org_claim entries of org s

txnVars == <<lock, held>>
vars == <<pc, req, resp, owner, txnVars, audit>>

ClaimRequest == [token : Token, slug : Slug \cup {Malformed}]

InTxn == {"count", "insert", "commit"}

Answer == {"none", "created", "already_yours", "org_taken", "org_quota_exceeded",
           "invalid_slug", "unauthorized", "internal", "cancelled"}

TypeOK ==
  /\ pc \in [Claim -> {"idle", "auth", "lookup", "guard", "begin", "audit", "respond"} \cup InTxn]
  /\ req \in [Claim -> ClaimRequest \cup {None}]
  /\ resp \in [Claim -> Answer]
  /\ \A c \in Claim : req[c] = None => pc[c] = "idle" /\ resp[c] = "none"
  /\ \A c \in Claim : pc[c] \notin {"idle", "auth"} => req[c].slug \in Slug
  /\ owner \in [Slug -> Token \cup {Operator, None}]
  /\ lock \in [LockKey -> Claim \cup {None}]
  /\ held \in [Slug -> Claim \cup {None}]
  /\ audit \in [Slug -> Seq(Token)]

\* The orgs tokens are scoped to were made by the operator with the tokens.
Init ==
  /\ pc = [c \in Claim |-> "idle"]
  /\ req = [c \in Claim |-> None]
  /\ resp = [c \in Claim |-> "none"]
  /\ owner = [s \in Slug |-> IF \E t \in Token : Scope[t] = s THEN Operator ELSE None]
  /\ lock = [k \in LockKey |-> None]
  /\ held = [s \in Slug |-> None]
  /\ audit = [s \in Slug |-> <<>>]

-----------------------------------------------------------------------------
Continue(c, next) ==
  /\ pc' = [pc EXCEPT ![c] = next]
  /\ UNCHANGED <<req, resp>>

Reply(c, code) ==
  /\ pc' = [pc EXCEPT ![c] = "idle"]
  /\ resp' = [resp EXCEPT ![c] = code]
  /\ UNCHANGED req

\* The end of c's transaction frees its advisory lock and its index entry.
EndTxn(c) ==
  /\ lock' = [k \in LockKey |-> IF lock[k] = c THEN None ELSE lock[k]]
  /\ held' = [s \in Slug |-> IF held[s] = c THEN None ELSE held[s]]

Scoped(t) == Scope[t] # None

ClaimedBy(t) == {s \in Slug : owner[s] = t}

Receive(c, q) ==
  /\ pc[c] = "idle"
  /\ req' = [req EXCEPT ![c] = q]
  /\ resp' = [resp EXCEPT ![c] = "none"]
  /\ pc' = [pc EXCEPT ![c] = "auth"]
  /\ UNCHANGED <<owner, txnVars, audit>>

Authenticate(c) ==
  /\ pc[c] = "auth"
  /\ \/ Reply(c, "unauthorized") \/ Reply(c, "internal")
     \/ req[c].slug = Malformed /\ Reply(c, "invalid_slug")
     \/ req[c].slug # Malformed /\ Continue(c, "lookup")
  /\ UNCHANGED <<owner, txnVars, audit>>

\* An org that is there is the caller's own only if its token is scoped to it.
Lookup(c) ==
  LET s == req[c].slug
  IN /\ pc[c] = "lookup"
     /\ \/ owner[s] # None /\ Reply(c, IF Scope[req[c].token] = s THEN "already_yours"
                                                                  ELSE "org_taken")
        \/ owner[s] = None /\ Continue(c, "guard")
        \/ Reply(c, "internal")
     /\ UNCHANGED <<owner, txnVars, audit>>

\* Fail-open: the lease was granted, refused, or nobody answered in time.
Guard(c) ==
  /\ pc[c] = "guard"
  /\ Continue(c, "begin")
  /\ UNCHANGED <<owner, txnVars, audit>>

\* Mutation: the claim relies on the fiducia lease alone.
BeginUnlocked(c) ==
  /\ pc[c] = "begin"
  /\ Continue(c, IF Scoped(req[c].token) THEN "count" ELSE "insert")
  /\ UNCHANGED <<owner, txnVars, audit>>

\* Begin and take the token's advisory lock, waiting while another claim
\* holds it.  Admin tokens are not counted.
Begin(c) ==
  LET t == req[c].token
  IN /\ pc[c] = "begin"
     /\ lock[LockOf[t]] = None
     /\ lock' = [lock EXCEPT ![LockOf[t]] = c]
     /\ Continue(c, IF Scoped(t) THEN "count" ELSE "insert")
     /\ UNCHANGED <<owner, held, audit>>

BeginFails(c) ==
  /\ pc[c] = "begin"
  /\ Reply(c, "internal")
  /\ UNCHANGED <<owner, txnVars, audit>>

Count(c) ==
  /\ pc[c] = "count"
  /\ Cardinality(ClaimedBy(req[c].token)) < MaxOrgs
  /\ Continue(c, "insert")
  /\ UNCHANGED <<owner, txnVars, audit>>

\* Mutation: the early return keeps the session, and with it the lock.
OverQuotaKeepsLock(c) ==
  /\ pc[c] = "count"
  /\ Cardinality(ClaimedBy(req[c].token)) >= MaxOrgs
  /\ Reply(c, "org_quota_exceeded")
  /\ UNCHANGED <<owner, txnVars, audit>>

OverQuota(c) ==
  /\ pc[c] = "count"
  /\ Cardinality(ClaimedBy(req[c].token)) >= MaxOrgs
  /\ EndTxn(c)
  /\ Reply(c, "org_quota_exceeded")
  /\ UNCHANGED <<owner, audit>>

\* Mutation: no unique index on slug.
InsertWithoutIndex(c) ==
  /\ pc[c] = "insert"
  /\ held[req[c].slug] = None
  /\ held' = [held EXCEPT ![req[c].slug] = c]
  /\ Continue(c, "commit")
  /\ UNCHANGED <<owner, lock, audit>>

\* The insert waits while another open transaction has inserted the slug.
Insert(c) ==
  /\ pc[c] = "insert"
  /\ held[req[c].slug] = None
  /\ owner[req[c].slug] = None
  /\ held' = [held EXCEPT ![req[c].slug] = c]
  /\ Continue(c, "commit")
  /\ UNCHANGED <<owner, lock, audit>>

\* The slug was claimed since the lookup: a conflict, not an internal error.
InsertConflicts(c) ==
  /\ pc[c] = "insert"
  /\ held[req[c].slug] = None
  /\ owner[req[c].slug] # None
  /\ EndTxn(c)
  /\ Reply(c, "org_taken")
  /\ UNCHANGED <<owner, audit>>

\* Mutation: a failed commit does not stop the handler.
TxnFailureIgnored(c) ==
  /\ pc[c] \in InTxn
  /\ EndTxn(c)
  /\ Continue(c, "audit")
  /\ UNCHANGED <<owner, audit>>

TxnFails(c) ==
  /\ pc[c] \in InTxn
  /\ EndTxn(c)
  /\ Reply(c, "internal")
  /\ UNCHANGED <<owner, audit>>

Commit(c) ==
  /\ pc[c] = "commit"
  /\ owner' = [owner EXCEPT ![req[c].slug] = req[c].token]
  /\ EndTxn(c)
  /\ Continue(c, "audit")
  /\ UNCHANGED audit

\* The database committed but the handler sees an error.
CommitAnswerLost(c) ==
  /\ pc[c] = "audit"
  /\ Reply(c, "internal")
  /\ UNCHANGED <<owner, txnVars, audit>>

\* audit::record appends the entry, or warns.
RecordAudit(c) ==
  /\ pc[c] = "audit"
  /\ \/ audit' = [audit EXCEPT ![req[c].slug] = Append(@, req[c].token)]
     \/ UNCHANGED audit
  /\ Continue(c, "respond")
  /\ UNCHANGED <<owner, txnVars>>

Respond(c) ==
  /\ pc[c] = "respond"
  /\ Reply(c, "created")
  /\ UNCHANGED <<owner, txnVars, audit>>

\* Mutation: the lock is held by the session, not by the transaction.
CancelKeepsLock(c) ==
  /\ pc[c] # "idle"
  /\ held' = [s \in Slug |-> IF held[s] = c THEN None ELSE held[s]]
  /\ Reply(c, "cancelled")
  /\ UNCHANGED <<owner, lock, audit>>

\* The handler is dropped (timeout, client gone, process death): an open
\* transaction is rolled back.
Cancel(c) ==
  /\ pc[c] # "idle"
  /\ EndTxn(c)
  /\ Reply(c, "cancelled")
  /\ UNCHANGED <<owner, audit>>

\* create-token --org: find_or_create_org, from another process.
OperatorCreates(s) ==
  /\ owner[s] = None
  /\ held[s] = None
  /\ owner' = [owner EXCEPT ![s] = Operator]
  /\ UNCHANGED <<pc, req, resp, txnVars, audit>>

Progress(c) ==
  \/ Authenticate(c) \/ Lookup(c) \/ Guard(c) \/ Count(c) \/ OverQuota(c)
  \/ Insert(c) \/ InsertConflicts(c) \/ Commit(c) \/ RecordAudit(c) \/ Respond(c)

Next ==
  \/ \E c \in Claim, q \in ClaimRequest : Receive(c, q)
  \/ \E c \in Claim : Progress(c) \/ Begin(c)
  \/ \E c \in Claim : BeginFails(c) \/ TxnFails(c) \/ CommitAnswerLost(c) \/ Cancel(c)
  \/ \E s \in Slug : OperatorCreates(s)

Spec == Init /\ [][Next]_vars

\* The runtime polls, the database answers, and waiters for the advisory
\* lock and for a unique index entry queue.  Nothing is assumed of failures or of new requests.
Fairness ==
  \A c \in Claim : WF_vars(Progress(c)) /\ SF_vars(Begin(c))
                  /\ SF_vars(Insert(c) \/ InsertConflicts(c))

-----------------------------------------------------------------------------
(***************************************************************************)
(* The squatting quota: no interleaving of claims by one scoped token, on  *)
(* any replica, gives it more than max_orgs_per_token orgs.                *)
(***************************************************************************)
QuotaRespected ==
  \A t \in Token : Scoped(t) => Cardinality(ClaimedBy(t)) <= MaxOrgs

(***************************************************************************)
(* What a claim of a well-formed slug is told is true, and stays true:     *)
(* created means the org is this token's, org_taken that somebody has it,  *)
(* org_quota_exceeded that the token really is at its limit; an admin is   *)
(* never over quota.                                                       *)
(***************************************************************************)
AnswersAreTrue ==
  \A c \in Claim : LET t == req[c].token  s == req[c].slug IN
    /\ resp[c] \in {"created", "org_taken", "already_yours", "org_quota_exceeded"} => s \in Slug
    /\ resp[c] = "created" => owner[s] = t
    /\ resp[c] = "org_taken" => owner[s] # None
    /\ resp[c] = "already_yours" => owner[s] # None /\ Scope[t] = s
    /\ resp[c] = "org_quota_exceeded" => Scoped(t) /\ Cardinality(ClaimedBy(t)) >= MaxOrgs

(***************************************************************************)
(* The trail shows who first took the namespace: at most one org_claim     *)
(* entry for an org, naming the token that owns it.                        *)
(***************************************************************************)
TrailNamesOwner ==
  \A s \in Slug : audit[s] # <<>> => audit[s] = <<owner[s]>>

\* A claimed namespace is never taken over, by a claim or by the operator.
OwnerForGood ==
  [][\A s \in Slug : owner[s] # None => owner'[s] = owner[s]]_owner

\* Every claim is answered: no lock or index entry is left behind.
EveryClaimAnswered == \A c \in Claim : pc[c] # "idle" ~> pc[c] = "idle"

(***************************************************************************)
(* The strengthening that makes these inductive.  A claim that passed the  *)
(* count is under quota until it commits, because nobody else with its     *)
(* token can be inside the lock; one about to commit holds a free slug;    *)
(* one past the commit owns the org and is the only one to audit it.       *)
(***************************************************************************)
LockHeldInTxn ==
  \A c \in Claim, k \in LockKey :
    lock[k] = c <=> pc[c] \in InTxn /\ LockOf[req[c].token] = k

RowHeldAtCommit ==
  \A c \in Claim, s \in Slug : held[s] = c <=> pc[c] = "commit" /\ req[c].slug = s

FreshAtCommit ==
  \A c \in Claim : pc[c] = "commit" => owner[req[c].slug] = None

CountedOnlyScoped ==
  \A c \in Claim : pc[c] = "count" => Scoped(req[c].token)

UnderQuota ==
  \A c \in Claim : pc[c] \in {"insert", "commit"} /\ Scoped(req[c].token) =>
    Cardinality(ClaimedBy(req[c].token)) < MaxOrgs

SoleAuditor ==
  \A c \in Claim :
    /\ pc[c] \in {"audit", "respond"} => owner[req[c].slug] = req[c].token
    /\ pc[c] = "audit" => audit[req[c].slug] = <<>>
    /\ \A d \in Claim :
         pc[c] = "audit" /\ pc[d] = "audit" /\ req[c].slug = req[d].slug => c = d

IInv ==
  /\ TypeOK
  /\ LockHeldInTxn /\ RowHeldAtCommit /\ FreshAtCommit
  /\ CountedOnlyScoped /\ UnderQuota /\ QuotaRespected
  /\ SoleAuditor /\ TrailNamesOwner /\ AnswersAreTrue
=============================================================================
