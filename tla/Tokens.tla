------------------------------- MODULE Tokens --------------------------------
(***************************************************************************)
(* Tokens and how a request is authenticated: the create-token and         *)
(* revoke-token commands of src/src/tokens.rs and require_token of         *)
(* src/src/auth.rs.  Each await of a command or a handler is one step; an  *)
(* actor is one command or one request, and pc says where it is:           *)
(*   "find_org", "make_org", "mint"   create-token,                        *)
(*   "select", "revoke"               revoke-token,                        *)
(*   "auth", "insert", "refind", "refind_failed"   require_token.          *)
(* A request goes on at "org" with the token it acts by; an actor ends at  *)
(* one of Ends.  Any call to the database may fail, and one that writes    *)
(* may have been applied although its answer is an error.                  *)
(***************************************************************************)
EXTENDS Integers, FiniteSets

CONSTANTS
  Actor,
  Org,
  Token,       \* rows create-token may insert
  Operator,    \* the row of the auth-disabled operator, id 1
  Name, Scope, Role,   \* of a row, by token; Scope is None for an admin
  Expires,     \* the tokens minted with --expires-in-days
  Minted,      \* the tokens that exist from the start
  Standing,    \* the orgs that exist from the start
  None

Row == Token \cup {Operator}

ASSUME TokenAssumption ==
  /\ Operator \notin Token /\ None \notin Actor \cup Row \cup Org
  /\ Minted \subseteq Token /\ Expires \subseteq Token /\ Standing \subseteq Org
  /\ Scope \in [Row -> Org \cup {None}] /\ Scope[Operator] = None
  /\ None \notin [revoked : Actor \cup {None}, expired : BOOLEAN]

VARIABLES
  orgs,      \* slugs of the orgs that exist
  tokens,    \* tokens[t]: the row, or None
  pc,
  call,      \* call[a]: what the actor was asked; a request carries a token
  by,        \* by[a]: the token the request acts by, once authenticated
  matched,   \* matched[a]: the rows revoke-token a selected
  left       \* left[a]: those it has yet to mark

tokenVars == <<orgs, tokens, pc, call, by, matched, left>>

\* revoked is the command whose time stamp revoked_at holds.
Fresh == [revoked |-> None, expired |-> FALSE]

\* "error" is a failed call to the database, "duplicate" the operator row's
\* unique violation, both answered 500.
Ends == {"done", "unauthorized", "forbidden", "not_found", "error", "duplicate", "dropped"}

NoCall == [op |-> "none"]

TokensInit ==
  /\ orgs = Standing
  /\ tokens = [t \in Row |-> IF t \in Minted THEN Fresh ELSE None]
  /\ pc = [a \in Actor |-> "idle"]
  /\ call = [a \in Actor |-> NoCall]
  /\ by = [a \in Actor |-> None]
  /\ matched = [a \in Actor |-> {}]
  /\ left = [a \in Actor |-> {}]

Goto(a, next) == pc' = [pc EXCEPT ![a] = next]

Start(a, what, first) ==
  /\ pc[a] = "idle"
  /\ Goto(a, first)
  /\ call' = [call EXCEPT ![a] = what]
  /\ UNCHANGED <<orgs, tokens, by, matched, left>>

-----------------------------------------------------------------------------
\* create-token mints a row with a fresh id and hash.
StartCreate(a, t) ==
  /\ tokens[t] = None
  /\ \A b \in Actor : call[b] # [op |-> "create", token |-> t]
  /\ Start(a, [op |-> "create", token |-> t], "find_org")

\* The row is looked for in the orgs; an admin token needs none.
FindOrg(a) ==
  /\ pc[a] = "find_org"
  /\ Goto(a, IF Scope[call[a].token] \in orgs \cup {None} THEN "mint" ELSE "make_org")
  /\ UNCHANGED <<orgs, tokens, call, by, matched, left>>

\* It was not there; the slug is unique, and losing the insert ends the command.
MakeOrg(a) ==
  /\ pc[a] = "make_org"
  /\ \/ Scope[call[a].token] \notin orgs /\ Goto(a, "mint")
     \/ Goto(a, "error")
  /\ orgs' = orgs \cup {Scope[call[a].token]}
  /\ UNCHANGED <<tokens, call, by, matched, left>>

Mint(a) ==
  /\ pc[a] = "mint"
  /\ tokens' = [tokens EXCEPT ![call[a].token] = Fresh]
  /\ Goto(a, "done") \/ Goto(a, "error")
  /\ UNCHANGED <<orgs, call, by, matched, left>>

StartRevoke(a, name) == Start(a, [op |-> "revoke", name |-> name], "select")

Live(t) == tokens[t] # None /\ tokens[t].revoked = None

\* All rows that match are read once; the ones read as revoked are kept as
\* they are.
Select(a) ==
  /\ pc[a] = "select"
  /\ matched' = [matched EXCEPT ![a] = {t \in Row : tokens[t] # None /\ Name[t] = call[a].name}]
  /\ left' = [left EXCEPT ![a] = {t \in matched'[a] : Live(t)}]
  /\ Goto(a, IF matched'[a] = {} THEN "error" ELSE IF left'[a] = {} THEN "done" ELSE "revoke")
  /\ UNCHANGED <<orgs, tokens, call, by>>

\* Mutation: the command stops after its first update.
RevokeFirst(a) ==
  /\ pc[a] = "revoke"
  /\ \E t \in left[a] :
       /\ tokens' = [tokens EXCEPT ![t].revoked = a]
       /\ left' = [left EXCEPT ![a] = @ \ {t}]
  /\ Goto(a, "done")
  /\ UNCHANGED <<orgs, call, by, matched>>

\* One row after the other is marked, each on its own: another command may
\* have marked it since, and then its time stamp is replaced.
RevokeOne(a) ==
  /\ pc[a] = "revoke"
  /\ \E t \in left[a] :
       /\ tokens' = [tokens EXCEPT ![t].revoked = a]
       /\ left' = [left EXCEPT ![a] = @ \ {t}]
  /\ Goto(a, IF left'[a] = {} THEN "done" ELSE "revoke") \/ Goto(a, "error")
  /\ UNCHANGED <<orgs, call, by, matched>>

\* The database refuses a query or an update, or the command is killed: what
\* it has not yet done stays undone, and it did not return.
CommandFails(a) ==
  /\ pc[a] \in {"find_org", "make_org", "mint", "select", "revoke"}
  /\ Goto(a, "error")
  /\ UNCHANGED <<orgs, tokens, call, by, matched, left>>

\* expires_at passes.
Expire(t) ==
  /\ tokens[t] # None /\ ~tokens[t].expired
  /\ tokens' = [tokens EXCEPT ![t].expired = TRUE]
  /\ UNCHANGED <<orgs, pc, call, by, matched, left>>

-----------------------------------------------------------------------------
\* Mutation: only expiry is looked at.
AcceptsUnexpired(t) == tokens[t] # None /\ ~tokens[t].expired

\* The row require_token accepts.
Accepts(t) == tokens[t] # None /\ tokens[t].revoked = None /\ ~tokens[t].expired

Authenticated(a, t) ==
  /\ Goto(a, "org")
  /\ by' = [by EXCEPT ![a] = t]

\* require_token: a revoked or expired token is answered like an unknown one.
Authenticate(a) ==
  /\ pc[a] = "auth" /\ ~call[a].open
  /\ IF Accepts(call[a].token) THEN Authenticated(a, call[a].token)
     ELSE Goto(a, "unauthorized") /\ UNCHANGED by
  /\ UNCHANGED <<orgs, tokens, call, matched, left>>

\* On a replica with ZED_AUTH_DISABLED the request acts by the operator row,
\* which the first such request inserts.
FindOperator(a) ==
  /\ pc[a] = "auth" /\ call[a].open
  /\ IF tokens[Operator] # None THEN Authenticated(a, Operator)
     ELSE Goto(a, "insert") /\ UNCHANGED by
  /\ UNCHANGED <<orgs, tokens, call, matched, left>>

\* Mutation: an insert that fails is not followed by another look.
InsertOperatorOnce(a) ==
  /\ pc[a] = "insert"
  /\ IF tokens[Operator] = None
     THEN /\ tokens' = [tokens EXCEPT ![Operator] = Fresh]
          /\ Authenticated(a, Operator)
     ELSE Goto(a, "duplicate") /\ UNCHANGED <<tokens, by>>
  /\ UNCHANGED <<orgs, call, matched, left>>

\* The row has one id, so one insert of it succeeds.
InsertOperator(a) ==
  /\ pc[a] = "insert"
  /\ IF tokens[Operator] = None
     THEN /\ tokens' = [tokens EXCEPT ![Operator] = Fresh]
          /\ Authenticated(a, Operator)
     ELSE Goto(a, "refind") /\ UNCHANGED <<tokens, by>>
  /\ UNCHANGED <<orgs, call, matched, left>>

\* The insert fails for another reason, or is applied and its answer lost.
InsertOperatorFails(a) ==
  /\ pc[a] = "insert"
  /\ Goto(a, "refind_failed")
  /\ \/ UNCHANGED tokens
     \/ tokens[Operator] = None /\ tokens' = [tokens EXCEPT ![Operator] = Fresh]
  /\ UNCHANGED <<orgs, call, by, matched, left>>

\* After a failed insert the row is looked for again: another first request
\* may have inserted it.  If it is not there the insert's error is answered.
RefindOperator(a) ==
  /\ pc[a] \in {"refind", "refind_failed"}
  /\ IF tokens[Operator] # None THEN Authenticated(a, Operator)
     ELSE Goto(a, IF pc[a] = "refind" THEN "duplicate" ELSE "error") /\ UNCHANGED by
  /\ UNCHANGED <<orgs, tokens, call, matched, left>>

\* One of require_token's lookups fails.
LookupFails(a) ==
  /\ pc[a] \in {"auth", "refind", "refind_failed"}
  /\ Goto(a, "error")
  /\ UNCHANGED <<orgs, tokens, call, by, matched, left>>

\* Role::parse makes any role it does not know a reader.
can_publish(t) == Role[t] \in {"owner", "publisher"}

\* authorize_publish for a token of the org, as the answer to give.
authorize_publish(t, org) ==
  IF Scope[t] = None THEN "ok"
  ELSE IF Scope[t] # org THEN "unauthorized"
  ELSE IF can_publish(t) THEN "ok" ELSE "forbidden"

TokensNext ==
  \/ \E a \in Actor :
       \/ \E t \in Token : StartCreate(a, t)
       \/ \E t \in Row : StartRevoke(a, Name[t])
       \/ FindOrg(a) \/ MakeOrg(a) \/ Mint(a)
       \/ Select(a) \/ RevokeOne(a) \/ CommandFails(a)
       \/ Authenticate(a) \/ FindOperator(a) \/ InsertOperator(a)
       \/ InsertOperatorFails(a) \/ RefindOperator(a) \/ LookupFails(a)
  \/ \E t \in Expires : Expire(t)

\* The tokens that a revoke-token command which has returned was told to
\* revoke, and those that have expired.
Dead ==
  {t \in Row :
     \/ tokens[t] # None /\ tokens[t].expired
     \/ \E a \in Actor : call[a].op = "revoke" /\ pc[a] = "done" /\ t \in matched[a]}
=============================================================================
