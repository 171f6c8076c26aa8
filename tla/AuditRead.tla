------------------------------ MODULE AuditRead ------------------------------
(***************************************************************************)
(* The two routes of src/src/routes/audit.rs over one org's log.           *)
(* verify_audit_log is one query and the walk of AuditTamper.  For         *)
(* get_audit_log this module follows a client that reads the log backwards *)
(* page by page, each page one request, until a page is empty, while       *)
(* entries are appended.  It may name an action: Body stands for it.       *)
(***************************************************************************)
EXTENDS AuditTamper, SequencesExt

CONSTANTS
  Limits,          \* what a client may ask for as a page size
  MAX_LIMIT,
  DEFAULT_LIMIT,
  NotGiven         \* no limit, action or scope

ASSUME AuditReadAssumption ==
  /\ Limits \subseteq Nat /\ MAX_LIMIT \in Nat \ {0} /\ DEFAULT_LIMIT \in 1..MAX_LIMIT
  /\ NotGiven \notin Body /\ NotGiven \notin Nat

VARIABLES
  query,   \* the client's query, and whether it is reading
  got,     \* the positions of the entries it has been given, in order
  asked    \* the positions its query selected when the read began

readVars == <<query, got, asked>>

Idle == [limit |-> NotGiven, action |-> NotGiven, reading |-> FALSE]

ReadInit ==
  /\ Init
  /\ query = Idle
  /\ got = <<>>
  /\ asked = <<>>

-----------------------------------------------------------------------------
\* A token as require_token returns it: its scope (or none: admin) and its role.
Callers ==
  {[scope |-> NotGiven, role |-> "owner"]}
    \cup [scope : Orgs, role : {"owner", "publisher", "reader"}]

authorize_manage(token, org) ==
  \/ token.scope = NotGiven
  \/ token.scope = org /\ token.role = "owner"

\* Mutation: a limit of 0 is passed on.
ClampAbove(limit) == Min({IF limit = NotGiven THEN DEFAULT_LIMIT ELSE limit, MAX_LIMIT})

\* unwrap_or(DEFAULT_LIMIT).clamp(1, MAX_LIMIT)
Clamp(limit) == Max({1, Min({IF limit = NotGiven THEN DEFAULT_LIMIT ELSE limit, MAX_LIMIT})})

\* ORDER BY seq DESC
NewestFirst(seqs) ==
  [i \in 1..Cardinality(seqs) |->
     CHOOSE s \in seqs : Cardinality({t \in seqs : t >= s}) = i]

SeqsOf(action) ==
  {log[i].seq : i \in {j \in DOMAIN log : action \in {NotGiven, log[j].body}}}

\* ... ORDER BY seq DESC LIMIT limit
FirstOf(seqs, limit) ==
  LET rows == NewestFirst(seqs) IN SubSeq(rows, 1, Min({Len(rows), Clamp(limit)}))

\* Mutation: the filter applies to the page instead of the query.
PageThenFilter(q, before) ==
  SelectSeq(FirstOf({s \in SeqsOf(NotGiven) : before = NotGiven \/ s < before}, q.limit),
            LAMBDA s : s \in SeqsOf(q.action))

\* The page get_audit_log answers with, before NotGiven or the given position.
Page(q, before) ==
  FirstOf({s \in SeqsOf(q.action) : before = NotGiven \/ s < before}, q.limit)

\* The client's cursor: the position of the last entry it was given.
Before == IF got = <<>> THEN NotGiven ELSE got[Len(got)]

\* A client with a token that may manage the org asks for its first page.
StartReading(token, limit, action) ==
  /\ ~query.reading
  /\ authorize_manage(token, Org)
  /\ query' = [limit |-> limit, action |-> action, reading |-> TRUE]
  /\ got' = Page(query', NotGiven)
  /\ asked' = NewestFirst(SeqsOf(action))
  /\ UNCHANGED tamperVars

\* It asks for the page before the last entry it has.
ReadOn ==
  /\ query.reading /\ got # <<>>
  /\ Page(query, Before) # <<>>
  /\ got' = got \o Page(query, Before)
  /\ UNCHANGED <<query, asked, tamperVars>>

AtEnd == got = <<>> \/ Page(query, Before) = <<>>

\* The page is empty: the client has reached the beginning.
StopReading ==
  /\ query.reading
  /\ AtEnd
  /\ query' = Idle
  /\ got' = <<>>
  /\ asked' = <<>>
  /\ UNCHANGED tamperVars

ReadNext ==
  \/ \E token \in Callers, limit \in Limits \cup {NotGiven}, action \in Body \cup {NotGiven} :
       StartReading(token, limit, action)
  \/ ReadOn
  \/ StopReading
  \/ \E b \in Body : Append1(b) /\ UNCHANGED readVars
  \/ /\ ~query.reading
     /\ Tampering
     /\ UNCHANGED readVars

ReadSpec == ReadInit /\ [][ReadNext]_<<tamperVars, readVars>>

-----------------------------------------------------------------------------
(***************************************************************************)
(* Reading backwards neither skips nor repeats an entry, whatever is       *)
(* appended between the pages and whatever page size was asked for: the    *)
(* entries given so far are the newest of those the query selected when    *)
(* the read began, and when a page is empty they are all of them.          *)
(***************************************************************************)
PagingNeitherSkipsNorRepeats ==
  query.reading => IsPrefix(got, asked) /\ (AtEnd => got = asked)
=============================================================================
