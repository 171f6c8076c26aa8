---------------------------- MODULE CatalogProofs ----------------------------
(***************************************************************************)
(* Proofs about Catalog, for any actors, tokens, packages and versions.    *)
(* There are three inductive invariants over a common one, StageInv, which *)
(* types the tokens' state and says that an actor is at a place of what it *)
(* was asked to do:                                                        *)
(*   - TokenInv, from which a dead token does nothing and an open replica  *)
(*     admits: rows only die (RowsOnlyDie) because a row is minted once,   *)
(*     and what a revoke-token command no longer has before it is revoked; *)
(*   - ReadInv, from which summaries and the latest version are sound:     *)
(*     what is published stays (Grows), so what a read has seen stays      *)
(*     true of it;                                                         *)
(*   - TrailInv, from which the trail tells how the flags came to be.      *)
(***************************************************************************)
EXTENDS Catalog, FiniteLemmas

\* What an actor may be asked.
Names == {Name[t] : t \in Row}

Calls ==
  {NoCall}
    \cup [op : {"create"}, token : Token]
    \cup [op : {"revoke"}, name : Names]
    \cup [op : {"yank"}, token : Token \cup {None}, open : BOOLEAN, pv : Yankable,
          flag : BOOLEAN, late : BOOLEAN]
    \cup [op : {"embed"}, token : Token \cup {None}, open : BOOLEAN, pkg : Package,
          late : BOOLEAN]
    \cup [op : {"read"}]

\* A row of the token table.
TokenRow == [revoked : Actor \cup {None}, expired : BOOLEAN]

Creating == {"find_org", "make_org", "mint"}
Revoking == {"select", "revoke"}
Requests == {"yank", "embed"}
\* Where require_token has a request, and where it may go from there.
Identifying == {"auth", "insert", "refind", "refind_failed"}
AuthNext == {"org", "unauthorized", "insert", "refind", "refind_failed", "error", "duplicate"}
Handling == Identifying \cup {"org", "version", "update", "audit"}
Reading == {"rows", "versions", "answered", "get_version", "get_artifact"}

Stages == {"idle"} \cup Creating \cup Revoking \cup Handling \cup Reading \cup Ends

\* The types of the tokens' state.
TokensType ==
  /\ tokens \in [Row -> TokenRow \cup {None}]
  /\ pc \in [Actor -> Stages]
  /\ call \in [Actor -> Calls]
  /\ by \in [Actor -> Row \cup {None}]
  /\ matched \in [Actor -> SUBSET Row]
  /\ left \in [Actor -> SUBSET Row]

\* What an actor is doing is what it was asked to do.
StagedAs(stage, c) ==
  /\ stage \in Creating => c.op = "create"
  /\ stage \in Revoking => c.op = "revoke"
  /\ stage \in Handling => c.op \in Requests
  /\ stage \in Reading => c.op = "read"
  /\ stage = "audit" => c.op = "yank"
  /\ stage \in {"insert", "refind", "refind_failed"} => c.open
  /\ c.op \in Requests => (c.open <=> c.token = None)

\* A revoke-token command has before it some of the rows it matched.
MatchedExist ==
  \A a \in Actor :
    left[a] \subseteq matched[a] /\ \A t \in matched[a] : tokens[t] # None

\* The common invariant.
StageInv ==
  /\ TokensType
  /\ MatchedExist
  /\ \A a \in Actor : StagedAs(pc[a], call[a])

\* What a call of each kind carries.
LEMMA CallKinds ==
  ASSUME NEW x \in Calls
  PROVE  /\ x.op = "create" => x.token \in Token /\ x = [op |-> "create", token |-> x.token]
         /\ x.op = "revoke" => x.name \in Names
         /\ x.op \in Requests => x.token \in Token \cup {None} /\ x.open \in BOOLEAN /\ x.late \in BOOLEAN
         /\ x.op = "yank" => x.pv \in Yankable /\ x.flag \in BOOLEAN
         /\ x.op = "embed" => x.pkg \in Package
BY DEF Calls, NoCall, Requests

\* The calls the actions make are calls.
LEMMA CallsMade ==
  /\ NoCall \in Calls
  /\ \A t \in Token : [op |-> "create", token |-> t] \in Calls
  /\ \A n \in Names : [op |-> "revoke", name |-> n] \in Calls
  /\ [op |-> "read"] \in Calls
  /\ \A t \in Token \cup {None}, open \in BOOLEAN, pv \in Yankable, flag, late \in BOOLEAN :
       [op |-> "yank", token |-> t, open |-> open, pv |-> pv, flag |-> flag, late |-> late] \in Calls
  /\ \A t \in Token \cup {None}, open \in BOOLEAN, p \in Package, late \in BOOLEAN :
       [op |-> "embed", token |-> t, open |-> open, pkg |-> p, late |-> late] \in Calls
BY DEF Calls

\* A fresh row is a live row, and no row is None.
LEMMA RowsMade ==
  /\ Fresh \in TokenRow /\ None \notin TokenRow
  /\ Fresh.revoked = None /\ ~Fresh.expired
BY TokenAssumption DEF Fresh, TokenRow

-----------------------------------------------------------------------------
\* One actor goes on; the others stay as they are.
LEMMA GotoStages ==
  ASSUME StageInv, NEW a \in Actor, NEW next \in Stages, NEW c \in Calls,
         pc' = [pc EXCEPT ![a] = next], call' = [call EXCEPT ![a] = c],
         StagedAs(next, c)
  PROVE  \A b \in Actor : StagedAs(pc[b], call[b])'
<1> SUFFICES ASSUME NEW b \in Actor PROVE StagedAs(pc'[b], call'[b])
  BY DEF StagedAs, Creating, Revoking, Handling, Identifying, Reading, Requests
<1>1. CASE a = b
  BY <1>1 DEF StageInv, TokensType
<1>2. CASE a # b
  BY <1>2 DEF StageInv, TokensType
<1> QED
  BY <1>1, <1>2

\* The same, for a step that is not a start.
LEMMA StepStages ==
  ASSUME StageInv, NEW a \in Actor, NEW next \in Stages,
         pc' = [pc EXCEPT ![a] = next], call' = call,
         StagedAs(next, call[a])
  PROVE  \A b \in Actor : StagedAs(pc[b], call[b])'
<1>1. call[a] \in Calls /\ call' = [call EXCEPT ![a] = call[a]]
  BY DEF StageInv, TokensType
<1> QED
  BY <1>1, GotoStages

\* A step that leaves the calls alone and the types in order.
LEMMA StepKeeps ==
  ASSUME StageInv, NEW a \in Actor, NEW next \in Stages,
         pc' = [pc EXCEPT ![a] = next], call' = call,
         StagedAs(next, call[a]),
         tokens' \in [Row -> TokenRow \cup {None}],
         by' \in [Actor -> Row \cup {None}],
         matched' \in [Actor -> SUBSET Row],
         left' \in [Actor -> SUBSET Row],
         MatchedExist'
  PROVE  StageInv'
<1>1. pc \in [Actor -> Stages] /\ call \in [Actor -> Calls]
  BY DEF StageInv, TokensType
<1>2. pc' \in [Actor -> Stages] /\ call' \in [Actor -> Calls]
  BY <1>1
<1> QED
  BY <1>2, StepStages DEF StageInv, TokensType

\* A start keeps StageInv.
LEMMA StartStages ==
  ASSUME StageInv, NEW a \in Actor, NEW c \in Calls, NEW next \in Stages,
         Start(a, c, next), StagedAs(next, c)
  PROVE  StageInv'
<1>1. /\ pc' = [pc EXCEPT ![a] = next] /\ call' = [call EXCEPT ![a] = c]
      /\ UNCHANGED <<tokens, by, matched, left>>
  BY DEF Start, Goto
<1>2. TokensType'
  BY <1>1 DEF StageInv, TokensType
<1>3. MatchedExist'
  BY <1>1 DEF StageInv, MatchedExist
<1> QED
  BY <1>1, <1>2, <1>3, GotoStages DEF StageInv

\* In what follows a step names what it changes; the rest keeps its type.
LEMMA CommandStages ==
  ASSUME StageInv, NEW a \in Actor,
         \/ FindOrg(a) \/ MakeOrg(a) \/ Mint(a)
         \/ Select(a) \/ RevokeOne(a) \/ CommandFails(a)
  PROVE  StageInv'
<1>1. call[a] \in Calls /\ StagedAs(pc[a], call[a])
  BY DEF StageInv, TokensType
<1>2. pc[a] \in Creating => call[a].token \in Token
  BY <1>1, CallKinds DEF StagedAs
<1>m. MatchedExist
  BY DEF StageInv
<1>t. /\ tokens \in [Row -> TokenRow \cup {None}] /\ by \in [Actor -> Row \cup {None}]
      /\ matched \in [Actor -> SUBSET Row] /\ left \in [Actor -> SUBSET Row]
  BY DEF StageInv, TokensType
<1> USE DEF Goto
<1>3. CASE FindOrg(a)
  <2>1. PICK next \in {"mint", "make_org"} : pc' = [pc EXCEPT ![a] = next]
    BY <1>3 DEF FindOrg
  <2>2. StagedAs(next, call[a])
    BY <1>1, <1>3 DEF FindOrg, StagedAs, Creating, Revoking, Handling, Identifying, Reading
  <2>9. MatchedExist'
    BY <1>3, <1>m, <1>t DEF FindOrg, MatchedExist
  <2>8. /\ next \in Stages /\ call' = call
        /\ tokens' \in [Row -> TokenRow \cup {None}] /\ by' \in [Actor -> Row \cup {None}]
        /\ matched' \in [Actor -> SUBSET Row] /\ left' \in [Actor -> SUBSET Row]
    BY <1>t, <1>3 DEF FindOrg, Stages, Creating, Revoking, Ends
  <2> QED
    BY <2>1, <2>2, <2>8, <2>9, StepKeeps
<1>4. CASE MakeOrg(a)
  <2>1. PICK next \in {"mint", "error"} : pc' = [pc EXCEPT ![a] = next]
    BY <1>4 DEF MakeOrg
  <2>2. StagedAs(next, call[a])
    BY <1>1, <1>4 DEF MakeOrg, StagedAs, Creating, Revoking, Handling, Identifying, Reading
  <2>9. MatchedExist'
    BY <1>4, <1>m, <1>t DEF MakeOrg, MatchedExist
  <2>8. /\ next \in Stages /\ call' = call
        /\ tokens' \in [Row -> TokenRow \cup {None}] /\ by' \in [Actor -> Row \cup {None}]
        /\ matched' \in [Actor -> SUBSET Row] /\ left' \in [Actor -> SUBSET Row]
    BY <1>t, <1>4 DEF MakeOrg, Stages, Creating, Revoking, Ends
  <2> QED
    BY <2>1, <2>2, <2>8, <2>9, StepKeeps
<1>5. CASE Mint(a)
  <2>1. PICK next \in {"done", "error"} : pc' = [pc EXCEPT ![a] = next]
    BY <1>5 DEF Mint
  <2>2. StagedAs(next, call[a])
    BY <1>1, <1>5 DEF Mint, StagedAs, Creating, Revoking, Handling, Identifying, Reading
  <2>3. tokens' \in [Row -> TokenRow \cup {None}]
    BY <1>t, <1>5, <1>2, RowsMade DEF Mint, Creating, Row
  <2>9. MatchedExist'
    BY <1>5, <1>m, <1>t, <1>2, RowsMade DEF Mint, MatchedExist, Creating, Row
  <2>8. /\ next \in Stages /\ call' = call
        /\ tokens' \in [Row -> TokenRow \cup {None}] /\ by' \in [Actor -> Row \cup {None}]
        /\ matched' \in [Actor -> SUBSET Row] /\ left' \in [Actor -> SUBSET Row]
    BY <1>t, <1>5, <2>3 DEF Mint, Stages, Creating, Revoking, Ends
  <2> QED
    BY <2>1, <2>2, <2>8, <2>9, StepKeeps
<1>6. CASE Select(a)
  <2>1. PICK next \in {"error", "done", "revoke"} : pc' = [pc EXCEPT ![a] = next]
    BY <1>6 DEF Select
  <2>2. StagedAs(next, call[a])
    BY <1>1, <1>6 DEF Select, StagedAs, Creating, Revoking, Handling, Identifying, Reading
  <2>3. matched' \in [Actor -> SUBSET Row] /\ left' \in [Actor -> SUBSET Row]
    BY <1>t, <1>6 DEF Select
  <2>9. MatchedExist'
    BY <1>6, <1>m, <1>t DEF Select, MatchedExist, Live
  <2>8. /\ next \in Stages /\ call' = call
        /\ tokens' \in [Row -> TokenRow \cup {None}] /\ by' \in [Actor -> Row \cup {None}]
        /\ matched' \in [Actor -> SUBSET Row] /\ left' \in [Actor -> SUBSET Row]
    BY <1>t, <1>6, <2>3 DEF Select, Stages, Creating, Revoking, Ends
  <2> QED
    BY <2>1, <2>2, <2>8, <2>9, StepKeeps
<1>7. CASE RevokeOne(a)
  <2>1. PICK next \in {"done", "revoke", "error"} : pc' = [pc EXCEPT ![a] = next]
    BY <1>7 DEF RevokeOne
  <2>2. StagedAs(next, call[a])
    BY <1>1, <1>7 DEF RevokeOne, StagedAs, Creating, Revoking, Handling, Identifying, Reading
  <2>3. PICK t \in left[a] : /\ tokens' = [tokens EXCEPT ![t].revoked = a]
                              /\ left' = [left EXCEPT ![a] = @ \ {t}]
    BY <1>7 DEF RevokeOne
  <2>4. t \in Row /\ [tokens[t] EXCEPT !.revoked = a] \in TokenRow
    BY <1>t, <1>m DEF MatchedExist, TokenRow
  <2>5. tokens' \in [Row -> TokenRow \cup {None}]
    BY <1>t, <2>3, <2>4
  <2>6. left' \in [Actor -> SUBSET Row]
    BY <1>t, <2>3
  <2>9. MatchedExist'
    BY <1>7, <1>m, <1>t, <2>3, <2>4, RowsMade DEF RevokeOne, MatchedExist
  <2>8. /\ next \in Stages /\ call' = call
        /\ tokens' \in [Row -> TokenRow \cup {None}] /\ by' \in [Actor -> Row \cup {None}]
        /\ matched' \in [Actor -> SUBSET Row] /\ left' \in [Actor -> SUBSET Row]
    BY <1>t, <1>7, <2>5, <2>6 DEF RevokeOne, Stages, Creating, Revoking, Ends
  <2> QED
    BY <2>1, <2>2, <2>8, <2>9, StepKeeps
<1>8. CASE CommandFails(a)
  <2>1. pc' = [pc EXCEPT ![a] = "error"]
    BY <1>8 DEF CommandFails
  <2>2. StagedAs("error", call[a])
    BY <1>1, <1>8 DEF CommandFails, StagedAs, Creating, Revoking, Handling, Identifying, Reading
  <2>9. MatchedExist'
    BY <1>8, <1>m, <1>t DEF CommandFails, MatchedExist
  <2>8. /\ "error" \in Stages /\ call' = call
        /\ tokens' \in [Row -> TokenRow \cup {None}] /\ by' \in [Actor -> Row \cup {None}]
        /\ matched' \in [Actor -> SUBSET Row] /\ left' \in [Actor -> SUBSET Row]
    BY <1>t, <1>8 DEF CommandFails, Stages, Creating, Revoking, Ends
  <2> QED
    BY <2>1, <2>2, <2>8, <2>9, StepKeeps
<1> QED
  BY <1>3, <1>4, <1>5, <1>6, <1>7, <1>8

\* require_token keeps StageInv.
LEMMA AuthStages ==
  ASSUME StageInv, NEW a \in Actor,
         Authenticate(a) \/ FindOperator(a) \/ InsertOperator(a) \/ InsertOperatorFails(a)
    \/ RefindOperator(a) \/ LookupFails(a)
  PROVE  StageInv'
<1>1. call[a] \in Calls /\ StagedAs(pc[a], call[a]) /\ MatchedExist
  BY DEF StageInv, TokensType
<1>2. /\ tokens \in [Row -> TokenRow \cup {None}] /\ by \in [Actor -> Row \cup {None}]
      /\ matched \in [Actor -> SUBSET Row] /\ left \in [Actor -> SUBSET Row]
  BY DEF StageInv, TokensType
<1>3. pc[a] \in Identifying
  BY DEF Identifying, Authenticate, FindOperator, InsertOperator, InsertOperatorFails,
       RefindOperator, LookupFails
<1>4. call[a].op \in Requests /\ call[a].token \in Token \cup {None}
  BY <1>1, <1>3, CallKinds DEF StagedAs, Handling, Identifying
<1>5. PICK next \in AuthNext :
        /\ pc' = [pc EXCEPT ![a] = next]
        /\ next \in {"insert", "refind", "refind_failed"} => call[a].open
  BY <1>1, <1>3 DEF Authenticate, FindOperator, InsertOperator, InsertOperatorFails,
       RefindOperator, LookupFails, Authenticated, Goto, StagedAs, AuthNext
<1>6. StagedAs(next, call[a])
  BY <1>1, <1>4, <1>5 DEF StagedAs, AuthNext, Creating, Revoking, Handling, Identifying, Reading
<1>7. tokens' = tokens \/ (tokens[Operator] = None /\ tokens' = [tokens EXCEPT ![Operator] = Fresh])
  BY DEF Authenticate, FindOperator, InsertOperator, InsertOperatorFails,
       RefindOperator, LookupFails
<1>8. tokens' \in [Row -> TokenRow \cup {None}]
  BY <1>2, <1>7, RowsMade DEF Row
<1>9. /\ call' = call /\ matched' = matched /\ left' = left
  BY DEF Authenticate, FindOperator, InsertOperator, InsertOperatorFails,
       RefindOperator, LookupFails
<1>10. MatchedExist'
  BY <1>1, <1>2, <1>7, <1>9, RowsMade DEF MatchedExist, Row
<1>11. by' = by \/ \E t \in Row : by' = [by EXCEPT ![a] = t]
  <2>1. CASE Authenticate(a)
    <3>1. call[a].token \in Row
      BY <2>1, <1>4, CallKinds, <1>1 DEF Authenticate, StagedAs, Row
    <3> QED
      BY <2>1, <3>1 DEF Authenticate, Authenticated
  <2> QED
    BY <2>1 DEF FindOperator, InsertOperator, InsertOperatorFails,
       RefindOperator, LookupFails, Authenticated, Row
<1>12. by' \in [Actor -> Row \cup {None}]
  BY <1>2, <1>11
<1>13. next \in Stages
  BY <1>5 DEF Stages, Handling, Identifying, AuthNext, Ends
<1> QED
  BY <1>5, <1>6, <1>8, <1>9, <1>10, <1>12, <1>13, <1>2, StepKeeps

-----------------------------------------------------------------------------
\* Where a handler goes from here, and what it may have done.
After ==
  {"version", "update", "audit", "not_found", "unauthorized", "forbidden", "error", "done",
   "dropped", "versions", "answered", "get_version", "get_artifact"}

HandlerStep(a, next) ==
  /\ Step(a, next)
  /\ StagedAs(next, call[a])
  /\ pc[a] \in Handling \cup Reading
  /\ pc[a] \in Identifying => next = "dropped"
  /\ pc[a] \in Handling => next \notin Reading
  /\ updated' = updated \/ (pc[a] = "update" /\ updated' = updated \cup {a})

Handler(a) ==
  \/ Authorize(a) \/ FindVersion(a) \/ Update(a) \/ QueryFails(a)
  \/ FindPackage(a) \/ Embed(a)
  \/ RecordAudit(a) \/ DropRequest(a)
  \/ ReadRows(a) \/ ReadVersions(a)
  \/ Follow(a) \/ GetVersion(a) \/ GetArtifact(a)

\* Every step of a handler after require_token is a HandlerStep.
LEMMA HandlerSteps ==
  ASSUME StageInv, NEW a \in Actor, Handler(a)
  PROVE  \E next \in After : HandlerStep(a, next)
<1>1. StagedAs(pc[a], call[a])
  BY DEF StageInv
<1>2. CASE Authorize(a)
  <2>1. PICK next \in {"not_found", "version", "unauthorized", "forbidden"} :
          Step(a, next) /\ (updated' = updated \/ (pc[a] = "update" /\ updated' = updated \cup {a}))
    BY <1>2 DEF Authorize, authorize_publish, Elsewhere, yankVars
  <2>2. HandlerStep(a, next)
    BY <1>1, <1>2, <2>1 DEF HandlerStep, StagedAs, Creating, Revoking, Handling, Identifying, Reading, Authorize, authorize_publish
  <2> QED
    BY <2>1, <2>2 DEF After
<1>3. CASE FindVersion(a)
  <2>1. PICK next \in {"not_found", "update"} :
          Step(a, next) /\ (updated' = updated \/ (pc[a] = "update" /\ updated' = updated \cup {a}))
    BY <1>3 DEF FindVersion, Elsewhere, yankVars
  <2>2. HandlerStep(a, next)
    BY <1>1, <1>3, <2>1 DEF HandlerStep, StagedAs, Creating, Revoking, Handling, Identifying, Reading, FindVersion
  <2> QED
    BY <2>1, <2>2 DEF After
<1>4. CASE Update(a)
  <2>1. PICK next \in {"audit", "error"} :
          Step(a, next) /\ (updated' = updated \/ (pc[a] = "update" /\ updated' = updated \cup {a}))
    BY <1>4 DEF Update
  <2>2. HandlerStep(a, next)
    BY <1>1, <1>4, <2>1 DEF HandlerStep, StagedAs, Creating, Revoking, Handling, Identifying, Reading, Update
  <2> QED
    BY <2>1, <2>2 DEF After
<1>5. CASE QueryFails(a)
  <2>1. PICK next \in {"error"} :
          Step(a, next) /\ (updated' = updated \/ (pc[a] = "update" /\ updated' = updated \cup {a}))
    BY <1>5 DEF QueryFails, Elsewhere, yankVars
  <2>2. HandlerStep(a, next)
    BY <1>1, <1>5, <2>1 DEF HandlerStep, StagedAs, Creating, Revoking, Handling, Identifying, Reading, QueryFails
  <2> QED
    BY <2>1, <2>2 DEF After
<1>6. CASE FindPackage(a)
  <2>1. PICK next \in {"not_found", "update"} :
          Step(a, next) /\ (updated' = updated \/ (pc[a] = "update" /\ updated' = updated \cup {a}))
    BY <1>6 DEF FindPackage, Elsewhere, yankVars
  <2>2. HandlerStep(a, next)
    BY <1>1, <1>6, <2>1 DEF HandlerStep, StagedAs, Creating, Revoking, Handling, Identifying, Reading, FindPackage
  <2> QED
    BY <2>1, <2>2 DEF After
<1>7. CASE Embed(a)
  <2>1. PICK next \in {"done", "error"} :
          Step(a, next) /\ (updated' = updated \/ (pc[a] = "update" /\ updated' = updated \cup {a}))
    BY <1>7 DEF Embed
  <2>2. HandlerStep(a, next)
    BY <1>1, <1>7, <2>1 DEF HandlerStep, StagedAs, Creating, Revoking, Handling, Identifying, Reading, Embed
  <2> QED
    BY <2>1, <2>2 DEF After
<1>8. CASE RecordAudit(a)
  <2>1. PICK next \in {"done"} :
          Step(a, next) /\ (updated' = updated \/ (pc[a] = "update" /\ updated' = updated \cup {a}))
    BY <1>8 DEF RecordAudit
  <2>2. HandlerStep(a, next)
    BY <1>1, <1>8, <2>1 DEF HandlerStep, StagedAs, Creating, Revoking, Handling, Identifying, Reading, RecordAudit
  <2> QED
    BY <2>1, <2>2 DEF After
<1>9. CASE DropRequest(a)
  <2>1. PICK next \in {"dropped"} :
          Step(a, next) /\ (updated' = updated \/ (pc[a] = "update" /\ updated' = updated \cup {a}))
    BY <1>9 DEF DropRequest, Changing
  <2>2. HandlerStep(a, next)
    BY <1>1, <1>9, <2>1 DEF HandlerStep, StagedAs, Creating, Revoking, Handling, Identifying, Reading, DropRequest, Changing
  <2> QED
    BY <2>1, <2>2 DEF After
<1>10. CASE ReadRows(a)
  <2>1. PICK next \in {"done", "versions"} :
          Step(a, next) /\ (updated' = updated \/ (pc[a] = "update" /\ updated' = updated \cup {a}))
    BY <1>10 DEF ReadRows, yankVars
  <2>2. HandlerStep(a, next)
    BY <1>1, <1>10, <2>1 DEF HandlerStep, StagedAs, Creating, Revoking, Handling, Identifying, Reading, ReadRows
  <2> QED
    BY <2>1, <2>2 DEF After
<1>11. CASE ReadVersions(a)
  <2>1. PICK next \in {"answered", "versions"} :
          Step(a, next) /\ (updated' = updated \/ (pc[a] = "update" /\ updated' = updated \cup {a}))
    BY <1>11 DEF ReadVersions, yankVars
  <2>2. HandlerStep(a, next)
    BY <1>1, <1>11, <2>1 DEF HandlerStep, StagedAs, Creating, Revoking, Handling, Identifying, Reading, ReadVersions
  <2> QED
    BY <2>1, <2>2 DEF After
<1>12. CASE Follow(a)
  <2>1. PICK next \in {"get_version"} :
          Step(a, next) /\ (updated' = updated \/ (pc[a] = "update" /\ updated' = updated \cup {a}))
    BY <1>12 DEF Follow, yankVars
  <2>2. HandlerStep(a, next)
    BY <1>1, <1>12, <2>1 DEF HandlerStep, StagedAs, Creating, Revoking, Handling, Identifying, Reading, Follow
  <2> QED
    BY <2>1, <2>2 DEF After
<1>13. CASE GetVersion(a)
  <2>1. PICK next \in {"get_artifact", "not_found"} :
          Step(a, next) /\ (updated' = updated \/ (pc[a] = "update" /\ updated' = updated \cup {a}))
    BY <1>13 DEF GetVersion, Elsewhere, yankVars
  <2>2. HandlerStep(a, next)
    BY <1>1, <1>13, <2>1 DEF HandlerStep, StagedAs, Creating, Revoking, Handling, Identifying, Reading, GetVersion
  <2> QED
    BY <2>1, <2>2 DEF After
<1>14. CASE GetArtifact(a)
  <2>1. PICK next \in {"done", "not_found"} :
          Step(a, next) /\ (updated' = updated \/ (pc[a] = "update" /\ updated' = updated \cup {a}))
    BY <1>14 DEF GetArtifact, Elsewhere, yankVars
  <2>2. HandlerStep(a, next)
    BY <1>1, <1>14, <2>1 DEF HandlerStep, StagedAs, Creating, Revoking, Handling, Identifying, Reading, GetArtifact
  <2> QED
    BY <2>1, <2>2 DEF After
<1> QED
  BY <1>2, <1>3, <1>4, <1>5, <1>6, <1>7, <1>8, <1>9, <1>10, <1>11, <1>12, <1>13, <1>14 DEF Handler

\* And so keeps StageInv.
LEMMA HandlerStages ==
  ASSUME StageInv, NEW a \in Actor, Handler(a)
  PROVE  StageInv'
<1>1. PICK next \in After : HandlerStep(a, next)
  BY HandlerSteps
<1>2. next \in Stages
  BY DEF After, Stages, Handling, Identifying, Reading, Ends
<1>3. /\ pc' = [pc EXCEPT ![a] = next] /\ StagedAs(next, call[a])
      /\ call' = call /\ tokens' = tokens /\ by' = by /\ matched' = matched /\ left' = left
  BY <1>1 DEF HandlerStep, Step, Goto
<1>4. /\ tokens \in [Row -> TokenRow \cup {None}] /\ by \in [Actor -> Row \cup {None}]
      /\ matched \in [Actor -> SUBSET Row] /\ left \in [Actor -> SUBSET Row]
  BY DEF StageInv, TokensType
<1>5. MatchedExist'
  BY <1>3 DEF StageInv, MatchedExist
<1> QED
  BY <1>2, <1>3, <1>4, <1>5, StepKeeps

-----------------------------------------------------------------------------
Starts(a) ==
  \/ \E t \in Token : StartCreate(a, t)
  \/ \E t \in Row : StartRevoke(a, Name[t])
  \/ \E t \in Token \cup {None}, open \in Open, pv \in Yankable, flag \in BOOLEAN :
       ReceiveYank(a, t, open, pv, flag)
  \/ \E t \in Token \cup {None}, open \in Open, p \in Package : ReceiveEmbedding(a, t, open, p)
  \/ ReceiveRead(a)

Command(a) ==
  FindOrg(a) \/ MakeOrg(a) \/ Mint(a) \/ Select(a) \/ RevokeOne(a) \/ CommandFails(a)

Authenticating(a) ==
  Authenticate(a) \/ FindOperator(a) \/ InsertOperator(a) \/ InsertOperatorFails(a)
    \/ RefindOperator(a) \/ LookupFails(a)

\* What an actor may be asked, where it begins with it, and of which token.
LEMMA StartsWith ==
  ASSUME NEW a \in Actor, Starts(a)
  PROVE  \E c \in Calls, first \in {"find_org", "select", "auth", "rows"} :
           /\ Start(a, c, first) /\ StagedAs(first, c)
           /\ first = "rows" <=> c.op = "read"
           /\ c.op = "create" =>
                c.token \in Token /\ tokens[c.token] = None /\ \A b \in Actor : call[b] # c
           /\ c.op \in Requests => c.late = (c.token \in Dead)
<1> USE DEF Creating, Revoking, Handling, Identifying, Reading, Requests
<1> DEFINE Begun(c, first) ==
             /\ Start(a, c, first) /\ StagedAs(first, c)
             /\ first = "rows" <=> c.op = "read"
             /\ c.op = "create" =>
                  c.token \in Token /\ tokens[c.token] = None /\ \A b \in Actor : call[b] # c
             /\ c.op \in Requests => c.late = (c.token \in Dead)
<1>1. ASSUME NEW t \in Token, StartCreate(a, t)
     PROVE \E c \in Calls, first \in {"find_org", "select", "auth", "rows"} : Begun(c, first)
  <2> DEFINE c == [op |-> "create", token |-> t]
  <2>2. c \in Calls
    BY CallsMade
  <2>3. Begun(c, "find_org")
    BY <1>1 DEF StartCreate, StagedAs
  <2> QED
    BY <2>2, <2>3
<1>2. ASSUME NEW t \in Row, StartRevoke(a, Name[t])
     PROVE \E c \in Calls, first \in {"find_org", "select", "auth", "rows"} : Begun(c, first)
  <2> DEFINE c == [op |-> "revoke", name |-> Name[t]]
  <2>2. c \in Calls
    BY CallsMade DEF Names
  <2>3. Begun(c, "select")
    BY <1>2 DEF StartRevoke, Names, StagedAs
  <2> QED
    BY <2>2, <2>3
<1>3. ASSUME NEW t \in Token \cup {None}, NEW open \in Open, NEW pv \in Yankable, NEW flag \in BOOLEAN,
             ReceiveYank(a, t, open, pv, flag)
     PROVE \E c \in Calls, first \in {"find_org", "select", "auth", "rows"} : Begun(c, first)
  <2> DEFINE c == [op |-> "yank", token |-> t, open |-> open, pv |-> pv, flag |-> flag,
                       late |-> t \in Dead]
  <2>1. open \in BOOLEAN /\ (t \in Dead) \in BOOLEAN
    BY CatalogAssumption
  <2>2. c \in Calls
    BY <2>1, CallsMade
  <2>3. Begun(c, "auth")
    BY <1>3 DEF ReceiveYank, StagedAs
  <2> QED
    BY <2>2, <2>3
<1>4. ASSUME NEW t \in Token \cup {None}, NEW open \in Open, NEW p \in Package,
             ReceiveEmbedding(a, t, open, p)
     PROVE \E c \in Calls, first \in {"find_org", "select", "auth", "rows"} : Begun(c, first)
  <2> DEFINE c == [op |-> "embed", token |-> t, open |-> open, pkg |-> p, late |-> t \in Dead]
  <2>1. open \in BOOLEAN /\ (t \in Dead) \in BOOLEAN
    BY CatalogAssumption
  <2>2. c \in Calls
    BY <2>1, CallsMade
  <2>3. Begun(c, "auth")
    BY <1>4 DEF ReceiveEmbedding, StagedAs
  <2> QED
    BY <2>2, <2>3
<1>5. CASE ReceiveRead(a)
  <2> DEFINE c == [op |-> "read"]
  <2>2. c \in Calls
    BY CallsMade
  <2>3. Begun(c, "rows")
    BY <1>5 DEF ReceiveRead, StagedAs
  <2> QED
    BY <2>2, <2>3
<1> QED
  BY <1>1, <1>2, <1>3, <1>4, <1>5 DEF Starts

\* Who takes a step, and what a step of theirs leaves alone.
LEMMA NextCases ==
  ASSUME Next
  PROVE  \/ Publish
         \/ \E t \in Expires : Expire(t) /\ Elsewhere
         \/ \E a \in Actor :
              \/ Starts(a) /\ UNCHANGED <<registryVars, updated, readVars>>
              \/ Command(a) /\ Elsewhere
              \/ Authenticating(a) /\ Elsewhere
              \/ Handler(a)
<1>1. CASE TokensNext /\ Elsewhere
  <2>1. UNCHANGED <<registryVars, updated, readVars>>
    BY <1>1 DEF Elsewhere, yankVars
  <2> QED
    BY <1>1, <2>1 DEF TokensNext, Starts, Command, Authenticating
<1>2. ASSUME NEW a \in Actor, NEW t \in Token \cup {None}, NEW open \in Open, NEW pv \in Yankable,
             NEW flag \in BOOLEAN, ReceiveYank(a, t, open, pv, flag)
      PROVE  Starts(a) /\ UNCHANGED <<registryVars, updated, readVars>>
  BY <1>2 DEF Starts, ReceiveYank
<1>3. ASSUME NEW a \in Actor, NEW t \in Token \cup {None}, NEW open \in Open, NEW p \in Package,
             ReceiveEmbedding(a, t, open, p)
      PROVE  Starts(a) /\ UNCHANGED <<registryVars, updated, readVars>>
  BY <1>3 DEF Starts, ReceiveEmbedding, Elsewhere, yankVars
<1>4. ASSUME NEW a \in Actor, ReceiveRead(a)
      PROVE  Starts(a) /\ UNCHANGED <<registryVars, updated, readVars>>
  BY <1>4 DEF Starts, ReceiveRead, yankVars
<1> QED
  BY <1>1, <1>2, <1>3, <1>4 DEF Next, Handler

\* StageInv holds at first.
LEMMA StageInit == ASSUME Init PROVE StageInv
<1>1. \A a \in Actor : pc[a] = "idle" /\ call[a] = NoCall /\ matched[a] = {} /\ left[a] = {}
  BY DEF Init, TokensInit
<1>2. TokensType
  BY RowsMade, CallsMade DEF Init, TokensInit, TokensType, Stages
<1>3. MatchedExist
  BY <1>1 DEF MatchedExist
<1>4. \A a \in Actor : StagedAs(pc[a], call[a])
  BY <1>1 DEF StagedAs, NoCall, Creating, Revoking, Handling, Identifying, Reading, Requests
<1> QED
  BY <1>2, <1>3, <1>4 DEF StageInv

\* And every step keeps it.
LEMMA StageStep ==
  ASSUME StageInv, [Next]_vars
  PROVE  StageInv'
<1>1. CASE UNCHANGED tokenVars
  <2>1. UNCHANGED <<tokens, pc, call, by, matched, left>>
    BY <1>1 DEF tokenVars
  <2> QED
    BY <2>1 DEF StageInv, TokensType, MatchedExist, StagedAs
<1>2. CASE Publish
  BY <1>1, <1>2 DEF Publish
<1>3. CASE UNCHANGED vars
  BY <1>1, <1>3 DEF vars
<1>4. ASSUME NEW t \in Expires, Expire(t) PROVE StageInv'
  <2>1. t \in Row /\ tokens[t] # None /\ UNCHANGED <<pc, call, by, matched, left>>
    BY <1>4, TokenAssumption DEF Expire, Row
  <2>2. tokens[t] \in TokenRow
    BY <2>1 DEF StageInv, TokensType
  <2>3. [tokens[t] EXCEPT !.expired = TRUE] \in TokenRow
    BY <2>2 DEF TokenRow
  <2>4. tokens' = [tokens EXCEPT ![t] = [tokens[t] EXCEPT !.expired = TRUE]]
    BY <1>4 DEF Expire
  <2>5. TokensType'
    BY <2>1, <2>3, <2>4 DEF StageInv, TokensType
  <2>6. MatchedExist'
    BY <2>1, <2>3, <2>4, RowsMade DEF StageInv, TokensType, MatchedExist
  <2> QED
    BY <2>1, <2>5, <2>6 DEF StageInv, StagedAs
<1>5. ASSUME NEW a \in Actor, Starts(a) PROVE StageInv'
  <2>1. PICK c \in Calls, first \in {"find_org", "select", "auth", "rows"} :
          Start(a, c, first) /\ StagedAs(first, c)
    BY <1>5, StartsWith
  <2>2. first \in Stages
    BY DEF Stages, Creating, Revoking, Handling, Identifying, Reading
  <2> QED
    BY <2>1, <2>2, StartStages
<1> QED
  BY <1>2, <1>3, <1>4, <1>5, NextCases, CommandStages, AuthStages, HandlerStages
     DEF Command, Authenticating

-----------------------------------------------------------------------------
\* Rows die and never come back.
Killed(t) == tokens[t] # None /\ (tokens[t].revoked # None \/ tokens[t].expired)

OnlyDie ==
  \A t \in Row : tokens[t] # None =>
    /\ tokens'[t] # None
    /\ tokens[t].revoked # None => tokens'[t].revoked # None
    /\ tokens[t].expired => tokens'[t].expired

\* A row is minted once, by the command that was given its id.
MintsFresh ==
  /\ \A a \in Actor : pc[a] \in Creating => tokens[call[a].token] = None
  /\ \A a, b \in Actor : call[a].op = "create" /\ call[a] = call[b] => a = b

\* What a revoke-token command no longer has before it is revoked.
RevokedSoFar ==
  \A a \in Actor :
    /\ \A t \in matched[a] \ left[a] : tokens[t].revoked # None
    /\ call[a].op = "revoke" /\ pc[a] = "done" => left[a] = {}

\* No step revives a row, or takes it away.
LEMMA RowsOnlyDie ==
  ASSUME StageInv, MintsFresh, [Next]_vars
  PROVE  OnlyDie
<1>0. tokens \in [Row -> TokenRow \cup {None}] /\ \A a \in Actor : StagedAs(pc[a], call[a]) /\ call[a] \in Calls
  BY DEF StageInv, TokensType
<1>1. CASE tokens' = tokens
  BY <1>1 DEF OnlyDie
<1>2. ASSUME NEW t \in Expires, Expire(t) PROVE OnlyDie
  <2>1. t \in Row /\ tokens[t] \in TokenRow
    BY <1>0, <1>2, TokenAssumption DEF Expire, Row
  <2>2. tokens' = [tokens EXCEPT ![t] = [tokens[t] EXCEPT !.expired = TRUE]]
    BY <1>2 DEF Expire
  <2>3. LET r == [tokens[t] EXCEPT !.expired = TRUE] IN r \in TokenRow /\ r.revoked = tokens[t].revoked /\ r.expired
    BY <2>1 DEF TokenRow
  <2> QED
    BY <1>0, <2>1, <2>2, <2>3, RowsMade DEF OnlyDie
<1>3. ASSUME NEW a \in Actor, Mint(a) PROVE OnlyDie
  <2>1. call[a].token \in Row /\ tokens[call[a].token] = None
    BY <1>0, <1>3, CallKinds DEF Mint, MintsFresh, Creating, StagedAs, Row
  <2> QED
    BY <1>0, <1>3, <2>1 DEF OnlyDie, Mint
<1>4. ASSUME NEW a \in Actor, RevokeOne(a) PROVE OnlyDie
  <2>1. PICK t \in left[a] : tokens' = [tokens EXCEPT ![t].revoked = a]
    BY <1>4 DEF RevokeOne
  <2>2. t \in Row /\ tokens[t] \in TokenRow
    BY <1>0 DEF StageInv, TokensType, MatchedExist
  <2>3. LET r == [tokens[t] EXCEPT !.revoked = a]
        IN r \in TokenRow /\ r.revoked = a /\ r.expired = tokens[t].expired /\ tokens' = [tokens EXCEPT ![t] = r]
    BY <2>1, <2>2 DEF TokenRow
  <2> QED
    BY <1>0, <2>2, <2>3, RowsMade, TokenAssumption DEF OnlyDie
<1>5. ASSUME NEW a \in Actor, Authenticating(a) PROVE OnlyDie
  <2>1. tokens' = tokens \/ (tokens[Operator] = None /\ tokens' = [tokens EXCEPT ![Operator] = Fresh])
    BY <1>5 DEF Authenticating, Authenticate, FindOperator, InsertOperator, InsertOperatorFails,
       RefindOperator, LookupFails
  <2> QED
    BY <1>0, <2>1 DEF OnlyDie
<1>6. ASSUME NEW a \in Actor, Command(a), ~Mint(a), ~RevokeOne(a) PROVE tokens' = tokens
  BY <1>6 DEF Command, FindOrg, MakeOrg, Select, CommandFails
<1>7. ASSUME NEW a \in Actor, Starts(a) PROVE tokens' = tokens
  <2>1. \E c, first : Start(a, c, first)
    BY <1>7, StartsWith
  <2> QED
    BY <2>1 DEF Start
<1>8. ASSUME NEW a \in Actor, Handler(a) PROVE tokens' = tokens
  BY <1>8, HandlerSteps DEF HandlerStep, Step
<1>9. ASSUME Publish \/ UNCHANGED vars PROVE tokens' = tokens
  BY <1>9 DEF Publish, vars, tokenVars
<1> QED
  BY <1>1, <1>2, <1>3, <1>4, <1>5, <1>6, <1>7, <1>8, <1>9, NextCases

\* A step that is no start keeps MintsFresh if it mints no row that another is to mint.
LEMMA MintsKept ==
  ASSUME StageInv, MintsFresh, call' = call,
         \A b \in Actor : pc'[b] \in Creating =>
           pc[b] \in Creating /\ tokens'[call[b].token] = tokens[call[b].token]
  PROVE  MintsFresh'
BY DEF MintsFresh, Creating

\* Every step keeps MintsFresh.
LEMMA MintStep ==
  ASSUME StageInv, MintsFresh, [Next]_vars
  PROVE  MintsFresh'
<1>0. /\ tokens \in [Row -> TokenRow \cup {None}] /\ pc \in [Actor -> Stages]
      /\ call \in [Actor -> Calls] /\ \A a \in Actor : StagedAs(pc[a], call[a])
  BY DEF StageInv, TokensType
<1>1. \A b \in Actor : pc[b] \in Creating =>
        call[b].token \in Token /\ call[b] = [op |-> "create", token |-> call[b].token]
  BY <1>0, CallKinds DEF StagedAs
<1>2. CASE UNCHANGED tokenVars
  BY <1>2, MintsKept DEF tokenVars
<1>3. CASE Publish \/ UNCHANGED vars
  BY <1>2, <1>3 DEF Publish, vars
<1>4. ASSUME NEW t \in Expires, Expire(t) PROVE MintsFresh'
  <2>1. /\ tokens' = [tokens EXCEPT ![t].expired = TRUE] /\ tokens[t] # None
        /\ pc' = pc /\ call' = call
    BY <1>4 DEF Expire
  <2>2. \A b \in Actor : pc[b] \in Creating => call[b].token # t
    BY <2>1 DEF MintsFresh
  <2> QED
    BY <1>0, <2>1, <2>2, MintsKept
<1>5. ASSUME NEW a \in Actor, Starts(a) PROVE MintsFresh'
  <2>1. PICK c \in Calls, first \in {"find_org", "select", "auth", "rows"} :
          /\ Start(a, c, first) /\ StagedAs(first, c)
          /\ c.op = "create" =>
               c.token \in Token /\ tokens[c.token] = None /\ \A b \in Actor : call[b] # c
    BY <1>5, StartsWith
  <2>2. /\ pc' = [pc EXCEPT ![a] = first] /\ call' = [call EXCEPT ![a] = c] /\ tokens' = tokens
    BY <2>1 DEF Start, Goto
  <2>3. ASSUME NEW b \in Actor, pc'[b] \in Creating PROVE tokens'[call'[b].token] = None
    <3>1. CASE b = a
      BY <1>0, <2>1, <2>2, <2>3, <3>1 DEF StagedAs
    <3>2. CASE b # a
      BY <1>0, <2>2, <2>3, <3>2 DEF MintsFresh
    <3> QED
      BY <3>1, <3>2
  <2>4. ASSUME NEW b \in Actor, NEW d \in Actor, call'[b].op = "create", call'[b] = call'[d] PROVE b = d
    <3>1. call'[b] = (IF b = a THEN c ELSE call[b]) /\ call'[d] = (IF d = a THEN c ELSE call[d])
      BY <1>0, <2>2
    <3> QED
      BY <2>1, <2>4, <3>1 DEF MintsFresh
  <2> QED
    BY <2>3, <2>4 DEF MintsFresh, Creating
<1>6. ASSUME NEW a \in Actor, Mint(a) PROVE MintsFresh'
  <2>1. /\ pc[a] \in Creating /\ call' = call
        /\ \E next \in {"done", "error"} : pc' = [pc EXCEPT ![a] = next]
        /\ tokens' = [tokens EXCEPT ![call[a].token] = Fresh]
    BY <1>6 DEF Mint, Goto, Creating
  <2>2. \A b \in Actor : pc'[b] \in Creating => b # a /\ pc[b] \in Creating
    BY <1>0, <2>1 DEF Creating
  <2>3. ASSUME NEW b \in Actor, pc'[b] \in Creating PROVE call[b].token # call[a].token
    <3>1. b # a /\ pc[b] \in Creating /\ call[b].op = "create"
      BY <1>0, <2>2, <2>3 DEF StagedAs
    <3>2. call[b] # call[a]
      BY <3>1 DEF MintsFresh
    <3> QED
      BY <1>1, <2>1, <3>1, <3>2
  <2> QED
    BY <1>0, <2>1, <2>2, <2>3, MintsKept
<1>7. ASSUME NEW a \in Actor, RevokeOne(a) PROVE MintsFresh'
  <2>1. PICK t \in left[a] : tokens' = [tokens EXCEPT ![t].revoked = a]
    BY <1>7 DEF RevokeOne
  <2>2. tokens[t] # None
    BY DEF StageInv, MatchedExist
  <2>3. call' = call /\ \A b \in Actor : pc'[b] \in Creating => pc[b] \in Creating
    BY <1>0, <1>7 DEF RevokeOne, Goto, Creating
  <2>4. \A b \in Actor : pc[b] \in Creating => call[b].token # t
    BY <2>2 DEF MintsFresh
  <2> QED
    BY <1>0, <2>1, <2>3, <2>4, MintsKept
<1>8. ASSUME NEW a \in Actor, Command(a), ~Mint(a), ~RevokeOne(a) PROVE MintsFresh'
  <2>1. tokens' = tokens /\ call' = call /\ \A b \in Actor : pc'[b] \in Creating => pc[b] \in Creating
    BY <1>0, <1>8 DEF Command, FindOrg, MakeOrg, Select, CommandFails, Goto, Creating
  <2> QED
    BY <2>1, MintsKept
<1>9. ASSUME NEW a \in Actor, Authenticating(a) PROVE MintsFresh'
  <2>1. /\ call' = call
        /\ \E next \in AuthNext : pc' = [pc EXCEPT ![a] = next]
        /\ tokens' = tokens \/ tokens' = [tokens EXCEPT ![Operator] = Fresh]
    BY <1>9 DEF Authenticating, Authenticate, FindOperator, InsertOperator, InsertOperatorFails,
       RefindOperator, LookupFails, Authenticated, Goto, AuthNext
  <2>2. \A b \in Actor : pc'[b] \in Creating => pc[b] \in Creating
    BY <1>0, <2>1 DEF Creating, AuthNext
  <2>3. \A b \in Actor : pc[b] \in Creating => call[b].token # Operator
    BY <1>1, TokenAssumption
  <2>4. \A b \in Actor : pc'[b] \in Creating =>
          pc[b] \in Creating /\ tokens'[call[b].token] = tokens[call[b].token]
    BY <1>0, <1>1, <2>1, <2>2, <2>3 DEF Row
  <2> QED
    BY <2>1, <2>4, MintsKept
<1>10. ASSUME NEW a \in Actor, Handler(a) PROVE MintsFresh'
  <2>1. PICK next \in After : HandlerStep(a, next)
    BY <1>10, HandlerSteps
  <2>2. tokens' = tokens /\ call' = call /\ pc' = [pc EXCEPT ![a] = next]
    BY <2>1 DEF HandlerStep, Step, Goto
  <2>3. \A b \in Actor : pc'[b] \in Creating => pc[b] \in Creating
    BY <1>0, <2>2 DEF Creating, After
  <2>4. \A b \in Actor : pc'[b] \in Creating =>
          pc[b] \in Creating /\ tokens'[call[b].token] = tokens[call[b].token]
    BY <2>2, <2>3
  <2>5. call' = call
    BY <2>2
  <2> QED
    BY <2>4, <2>5, MintsKept
<1> QED
  BY <1>3, <1>4, <1>5, <1>6, <1>7, <1>8, <1>9, <1>10, NextCases

\* A step that returns from no revoke-token command keeps RevokedSoFar.
LEMMA RevokedKept ==
  ASSUME StageInv, RevokedSoFar, OnlyDie, matched' = matched, left' = left,
         \A b \in Actor : pc'[b] = "done" /\ call'[b].op = "revoke" =>
           pc[b] = "done" /\ call[b] = call'[b]
  PROVE  RevokedSoFar'
<1>1. \A b \in Actor : matched[b] \subseteq Row /\ \A t \in matched[b] : tokens[t] # None
  BY DEF StageInv, TokensType, MatchedExist
<1>2. ASSUME NEW b \in Actor, NEW t \in matched[b] \ left[b] PROVE tokens'[t].revoked # None
  BY <1>1, <1>2 DEF RevokedSoFar, OnlyDie
<1>3. ASSUME NEW b \in Actor, call'[b].op = "revoke", pc'[b] = "done" PROVE left[b] = {}
  BY <1>3 DEF RevokedSoFar
<1> QED
  BY <1>2, <1>3 DEF RevokedSoFar

\* Every step keeps RevokedSoFar.
LEMMA RevokedStep ==
  ASSUME StageInv, RevokedSoFar, OnlyDie, [Next]_vars
  PROVE  RevokedSoFar'
<1>0. /\ tokens \in [Row -> TokenRow \cup {None}] /\ pc \in [Actor -> Stages]
      /\ call \in [Actor -> Calls] /\ \A a \in Actor : StagedAs(pc[a], call[a])
      /\ matched \in [Actor -> SUBSET Row] /\ left \in [Actor -> SUBSET Row] /\ MatchedExist
  BY DEF StageInv, TokensType
<1>1. CASE UNCHANGED <<pc, call, matched, left>>
  BY <1>1, RevokedKept
<1>2. CASE Publish \/ UNCHANGED vars \/ \E t \in Expires : Expire(t)
  BY <1>1, <1>2 DEF Publish, vars, tokenVars, Expire
<1>3. ASSUME NEW a \in Actor, Starts(a) PROVE RevokedSoFar'
  <2>1. PICK c \in Calls, first \in {"find_org", "select", "auth", "rows"} : Start(a, c, first)
    BY <1>3, StartsWith
  <2>2. /\ pc' = [pc EXCEPT ![a] = first] /\ call' = [call EXCEPT ![a] = c]
        /\ matched' = matched /\ left' = left
    BY <2>1 DEF Start, Goto
  <2>3. \A b \in Actor : pc'[b] = "done" /\ call'[b].op = "revoke" => pc[b] = "done" /\ call[b] = call'[b]
    BY <1>0, <2>2
  <2>4. matched' = matched /\ left' = left
    BY <2>2
  <2> QED
    BY <2>3, <2>4, RevokedKept
<1>4. ASSUME NEW a \in Actor, Select(a) PROVE RevokedSoFar'
  <2>1. tokens' = tokens /\ call' = call
    BY <1>4 DEF Select
  <2>2. \A b \in Actor : b # a => pc'[b] = pc[b] /\ matched'[b] = matched[b] /\ left'[b] = left[b]
    BY <1>0, <1>4 DEF Select, Goto
  <2>3. /\ \A t \in matched'[a] \ left'[a] : tokens[t].revoked # None
        /\ pc'[a] = "done" => left'[a] = {}
    BY <1>0, <1>4 DEF Select, Goto, Live
  <2> QED
    BY <2>1, <2>2, <2>3 DEF RevokedSoFar
<1>5. ASSUME NEW a \in Actor, RevokeOne(a) PROVE RevokedSoFar'
  <2>1. PICK t \in left[a] : /\ tokens' = [tokens EXCEPT ![t].revoked = a]
                             /\ left' = [left EXCEPT ![a] = left[a] \ {t}]
    BY <1>5 DEF RevokeOne
  <2>2. t \in Row /\ tokens[t] \in TokenRow
    BY <1>0 DEF MatchedExist
  <2>3. tokens'[t].revoked = a /\ a # None
    BY <1>0, <2>1, <2>2, TokenAssumption DEF TokenRow
  <2>4. matched' = matched /\ call' = call
    BY <1>5 DEF RevokeOne
  <2>5. \A b \in Actor : b # a => pc'[b] = pc[b] /\ left'[b] = left[b]
    BY <1>0, <1>5, <2>1 DEF RevokeOne, Goto
  <2>6. left'[a] = left[a] \ {t} /\ (pc'[a] = "done" => left'[a] = {})
    BY <1>0, <1>5, <2>1 DEF RevokeOne, Goto
  <2>7. ASSUME NEW b \in Actor, NEW s \in matched[b] \ left'[b] PROVE tokens'[s].revoked # None
    <3>1. CASE s = t
      BY <2>3, <3>1
    <3>2. CASE s # t
      <4>1. s \in matched[b] \ left[b]
        BY <2>5, <2>6, <2>7, <3>2
      <4>2. s \in Row /\ tokens[s] # None /\ tokens[s].revoked # None
        BY <1>0, <4>1 DEF MatchedExist, RevokedSoFar
      <4> QED
        BY <4>2 DEF OnlyDie
    <3> QED
      BY <3>1, <3>2
  <2>8. ASSUME NEW b \in Actor, call[b].op = "revoke", pc'[b] = "done" PROVE left'[b] = {}
    BY <2>5, <2>6, <2>8 DEF RevokedSoFar
  <2> QED
    BY <2>4, <2>7, <2>8 DEF RevokedSoFar
<1>6. ASSUME NEW a \in Actor, Command(a), ~Select(a), ~RevokeOne(a) PROVE RevokedSoFar'
  <2>1. call[a].op = "revoke" => pc'[a] # "done"
    BY <1>0, <1>6 DEF Command, FindOrg, MakeOrg, Mint, CommandFails, Goto, StagedAs, Creating
  <2>2. \A b \in Actor : b # a => pc'[b] = pc[b]
    BY <1>0, <1>6 DEF Command, FindOrg, MakeOrg, Mint, CommandFails, Goto
  <2>3. call' = call /\ matched' = matched /\ left' = left
    BY <1>6 DEF Command, FindOrg, MakeOrg, Mint, CommandFails
  <2> QED
    BY <2>1, <2>2, <2>3, RevokedKept
<1>7. ASSUME NEW a \in Actor, Authenticating(a) PROVE RevokedSoFar'
  <2>1. /\ call' = call /\ matched' = matched /\ left' = left
        /\ \E next \in AuthNext : pc' = [pc EXCEPT ![a] = next]
    BY <1>7 DEF Authenticating, Authenticate, FindOperator, InsertOperator, InsertOperatorFails,
       RefindOperator, LookupFails, Authenticated, Goto, AuthNext
  <2>2. \A b \in Actor : pc'[b] = "done" => pc[b] = "done"
    BY <1>0, <2>1 DEF AuthNext
  <2> QED
    BY <2>1, <2>2, RevokedKept
<1>8. ASSUME NEW a \in Actor, Handler(a) PROVE RevokedSoFar'
  <2>1. PICK next \in After : HandlerStep(a, next)
    BY <1>8, HandlerSteps
  <2>2. call' = call /\ pc' = [pc EXCEPT ![a] = next] /\ matched' = matched /\ left' = left
    BY <2>1 DEF HandlerStep, Step, Goto
  <2>3. call[a].op # "revoke"
    BY <1>0, <2>1 DEF HandlerStep, StagedAs, Requests
  <2>4. \A b \in Actor : pc'[b] = "done" /\ call[b].op = "revoke" => pc[b] = "done"
    BY <1>0, <2>2, <2>3
  <2>5. call' = call /\ matched' = matched /\ left' = left
    BY <2>2
  <2> QED
    BY <2>4, <2>5, RevokedKept
<1> QED
  BY <1>2, <1>3, <1>4, <1>5, <1>6, <1>7, <1>8, NextCases

-----------------------------------------------------------------------------
\* What becomes of a request that arrived too late.
TurnedAwayFor(a) ==
  /\ pc[a] = "idle" => a \notin updated
  /\ call[a].op \in Requests /\ call[a].late =>
       /\ ~call[a].open /\ Killed(call[a].token)
       /\ pc[a] \in {"auth", "unauthorized", "dropped", "error"}
       /\ a \notin updated

\* What becomes of one that needs no token.
OperatorFor(a) ==
  /\ pc[a] = "refind" => tokens[Operator] # None
  /\ call[a].op \in Requests /\ call[a].open
       /\ pc[a] \notin Identifying \cup {"dropped", "error"} =>
       by[a] = Operator /\ tokens[Operator] # None

Admission == \A a \in Actor : TurnedAwayFor(a) /\ OperatorFor(a)

TokenInv == StageInv /\ MintsFresh /\ RevokedSoFar /\ Admission

\* The tokens a client may count as dead are: the command that returned has
\* marked all it matched, and no later step has undone it.
LEMMA DeadAreKilled ==
  ASSUME StageInv, RevokedSoFar
  PROVE  \A t \in Dead : t \in Row /\ Killed(t)
<1>1. ASSUME NEW a \in Actor, call[a].op = "revoke", pc[a] = "done", NEW t \in matched[a]
      PROVE  t \in Row /\ Killed(t)
  BY <1>1 DEF StageInv, TokensType, MatchedExist, RevokedSoFar, Killed
<1>2. ASSUME NEW t \in Row, tokens[t] # None, tokens[t].expired PROVE Killed(t)
  BY <1>2 DEF Killed
<1> QED
  BY <1>1, <1>2 DEF Dead

\* A dead token stays dead, and an operator stays there.
LEMMA AdmissionStays ==
  ASSUME StageInv, OnlyDie, NEW b \in Actor, TurnedAwayFor(b), OperatorFor(b),
         pc'[b] = pc[b], call'[b] = call[b], by'[b] = by[b], b \in updated' => b \in updated
  PROVE  TurnedAwayFor(b)' /\ OperatorFor(b)'
<1>1. call[b] \in Calls /\ StagedAs(pc[b], call[b])
  BY DEF StageInv, TokensType
<1>2. tokens[Operator] # None => tokens'[Operator] # None
  BY DEF OnlyDie, Row
<1>3. ASSUME call[b].op \in Requests, call[b].late PROVE Killed(call[b].token)'
  <2>1. Killed(call[b].token) /\ call[b].token \in Row
    BY <1>1, <1>3, CallKinds DEF TurnedAwayFor, StagedAs, Row
  <2> QED
    BY <2>1 DEF Killed, OnlyDie
<1>4. TurnedAwayFor(b)'
  BY <1>3 DEF TurnedAwayFor, Requests
<1>5. OperatorFor(b)'
  BY <1>2 DEF OperatorFor, Requests
<1> QED
  BY <1>4, <1>5

\* Every step keeps Admission.
LEMMA AdmissionStep ==
  ASSUME TokenInv, OnlyDie, [Next]_vars
  PROVE  Admission'
<1>0. /\ StageInv /\ RevokedSoFar /\ Admission
      /\ tokens \in [Row -> TokenRow \cup {None}] /\ pc \in [Actor -> Stages]
      /\ call \in [Actor -> Calls] /\ by \in [Actor -> Row \cup {None}]
      /\ \A a \in Actor : StagedAs(pc[a], call[a])
  BY DEF TokenInv, StageInv, TokensType
<1> SUFFICES ASSUME NEW b \in Actor PROVE TurnedAwayFor(b)' /\ OperatorFor(b)'
  BY DEF Admission
<1>b. TurnedAwayFor(b) /\ OperatorFor(b)
  BY <1>0 DEF Admission
<1>1. CASE pc'[b] = pc[b] /\ call'[b] = call[b] /\ by'[b] = by[b] /\ (b \in updated' => b \in updated)
  BY <1>0, <1>1, <1>b, AdmissionStays
<1>2. CASE Publish \/ UNCHANGED vars \/ \E t \in Expires : Expire(t) /\ Elsewhere
  BY <1>1, <1>2 DEF Publish, vars, tokenVars, yankVars, Expire, Elsewhere
<1>3. ASSUME NEW a \in Actor, Starts(a), updated' = updated PROVE TurnedAwayFor(b)' /\ OperatorFor(b)'
  <2>1. PICK c \in Calls, first \in {"find_org", "select", "auth", "rows"} :
          /\ Start(a, c, first) /\ StagedAs(first, c)
          /\ c.op \in Requests => c.late = (c.token \in Dead)
    BY <1>3, StartsWith
  <2>2. /\ pc[a] = "idle" /\ pc' = [pc EXCEPT ![a] = first] /\ call' = [call EXCEPT ![a] = c]
        /\ by' = by /\ tokens' = tokens
    BY <2>1 DEF Start, Goto
  <2>3. CASE b # a
    BY <1>0, <1>1, <1>3, <2>2, <2>3
  <2>4. CASE b = a
    <3>1. pc'[b] = first /\ call'[b] = c /\ b \notin updated'
      BY <1>0, <1>3, <1>b, <2>2, <2>4 DEF TurnedAwayFor
    <3>2. c.op \in Requests => first = "auth" /\ (c.open <=> c.token = None)
      BY <2>1 DEF StagedAs, Creating, Revoking, Reading, Requests
    <3>3. ASSUME c.op \in Requests, c.late PROVE ~c.open /\ Killed(c.token)
      BY <1>0, <2>1, <3>2, <3>3, DeadAreKilled, TokenAssumption
    <3>4. \A t : Killed(t)' <=> Killed(t)
      BY <2>2 DEF Killed
    <3>5. TurnedAwayFor(b)'
      BY <3>1, <3>2, <3>3, <3>4, <2>2 DEF TurnedAwayFor, Requests, Killed
    <3>6. OperatorFor(b)'
      BY <3>1, <3>2 DEF OperatorFor, Requests, Identifying
    <3> QED
      BY <3>5, <3>6
  <2> QED
    BY <2>3, <2>4
<1>4. ASSUME NEW a \in Actor, Command(a), updated' = updated PROVE TurnedAwayFor(b)' /\ OperatorFor(b)'
  <2>1. /\ pc[a] \in Creating \cup Revoking /\ pc'[a] \in Creating \cup Revoking \cup Ends
        /\ call' = call /\ by' = by /\ \A d \in Actor : d # a => pc'[d] = pc[d]
    BY <1>0, <1>4 DEF Command, FindOrg, MakeOrg, Mint, Select, RevokeOne, CommandFails, Goto,
                      Creating, Revoking, Ends
  <2>2. CASE b # a
    BY <1>1, <1>4, <2>1, <2>2
  <2>3. CASE b = a
    <3>1. call[a].op \notin Requests
      BY <1>0, <2>1 DEF StagedAs, Creating, Revoking, Requests
    <3>2. pc'[b] \notin {"idle", "refind"}
      BY <2>1, <2>3 DEF Creating, Revoking, Ends
    <3> QED
      BY <2>1, <2>3, <3>1, <3>2 DEF TurnedAwayFor, OperatorFor, Requests
  <2> QED
    BY <2>2, <2>3
<1>5. ASSUME NEW a \in Actor, Authenticating(a), updated' = updated PROVE TurnedAwayFor(b)' /\ OperatorFor(b)'
  <2>1. /\ call' = call /\ \A d \in Actor : d # a => pc'[d] = pc[d] /\ by'[d] = by[d]
    BY <1>0, <1>5 DEF Authenticating, Authenticate, FindOperator, InsertOperator, InsertOperatorFails,
       RefindOperator, LookupFails,
                      Authenticated, Goto
  <2>2. CASE b # a
    BY <1>1, <1>5, <2>1, <2>2
  <2>3. CASE b = a
    <3>1. pc[a] \in Identifying /\ pc'[a] \in AuthNext
      BY <1>0, <1>5 DEF Authenticating, Authenticate, FindOperator, InsertOperator,
         InsertOperatorFails, RefindOperator, LookupFails, Authenticated, Goto, Identifying, AuthNext
    <3>2. call[a].op \in Requests
      BY <1>0, <3>1 DEF StagedAs, Handling
    <3>3. ASSUME call[a].late PROVE pc'[a] \in {"unauthorized", "error"} /\ Killed(call[a].token)'
      <4>1. ~call[a].open /\ Killed(call[a].token) /\ pc[a] = "auth"
        BY <1>b, <2>3, <3>1, <3>2, <3>3 DEF TurnedAwayFor, Identifying
      <4>2. call[a].token \in Row /\ ~Accepts(call[a].token)
        BY <1>0, <3>2, <4>1, CallKinds DEF StagedAs, Row, Killed, Accepts
      <4>3. Authenticate(a) \/ LookupFails(a)
        BY <1>5, <4>1 DEF Authenticating, FindOperator, InsertOperator, InsertOperatorFails,
           RefindOperator
      <4>4. tokens' = tokens /\ pc'[a] \in {"unauthorized", "error"}
        BY <1>0, <4>2, <4>3 DEF Authenticate, LookupFails, Goto
      <4> QED
        BY <2>1, <4>1, <4>4 DEF Killed
    <3>4. TurnedAwayFor(b)'
      BY <1>5, <1>b, <2>1, <2>3, <3>1, <3>2, <3>3 DEF TurnedAwayFor, Requests, AuthNext
    <3>5. ASSUME call[a].open
          PROVE  /\ pc'[a] = "refind" => tokens'[Operator] # None
                 /\ pc'[a] \notin {"insert", "refind", "refind_failed", "error"} =>
                      by'[a] = Operator /\ tokens'[Operator] # None
      <4>1. CASE FindOperator(a)
        BY <1>0, <4>1 DEF FindOperator, Authenticated, Goto
      <4>2. CASE InsertOperator(a)
        BY <1>0, <4>2, RowsMade DEF InsertOperator, Authenticated, Goto, Row
      <4>3. CASE RefindOperator(a)
        BY <1>0, <1>b, <2>3, <4>3 DEF RefindOperator, Authenticated, Goto, OperatorFor
      <4>4. CASE InsertOperatorFails(a) \/ LookupFails(a)
        BY <1>0, <4>4 DEF InsertOperatorFails, LookupFails, Goto
      <4> QED
        BY <1>5, <3>5, <4>1, <4>2, <4>3, <4>4 DEF Authenticating, Authenticate
    <3>6. pc'[a] = "refind" => call[a].open
      BY <1>0, <1>5 DEF Authenticating, Authenticate, FindOperator, InsertOperator,
         InsertOperatorFails, RefindOperator, LookupFails, Authenticated, Goto, StagedAs
    <3>7. OperatorFor(b)'
      BY <2>1, <2>3, <3>5, <3>6 DEF OperatorFor, Identifying
    <3> QED
      BY <3>4, <3>7
  <2> QED
    BY <2>2, <2>3
<1>6. ASSUME NEW a \in Actor, Handler(a) PROVE TurnedAwayFor(b)' /\ OperatorFor(b)'
  <2>1. PICK next \in After : HandlerStep(a, next)
    BY <1>0, <1>6, HandlerSteps
  <2>2. /\ call' = call /\ by' = by /\ tokens' = tokens /\ pc' = [pc EXCEPT ![a] = next]
        /\ pc[a] \in Handling \cup Reading
        /\ pc[a] \in Identifying => next = "dropped"
        /\ updated' = updated \/ (pc[a] = "update" /\ updated' = updated \cup {a})
    BY <2>1 DEF HandlerStep, Step, Goto
  <2>3. CASE b # a
    BY <1>0, <1>1, <2>2, <2>3
  <2>4. CASE b = a
    <3>1. pc'[b] = next /\ next \notin {"idle", "refind"}
      BY <1>0, <2>2, <2>4 DEF After
    <3>2. ASSUME call[b].op \in Requests, call[b].late
          PROVE  next = "dropped" /\ updated' = updated /\ b \notin updated
                 /\ ~call[b].open /\ Killed(call[b].token)
      BY <1>b, <2>2, <2>4, <3>2 DEF TurnedAwayFor, Handling, Identifying, Reading
    <3>3. TurnedAwayFor(b)'
      BY <2>2, <3>1, <3>2 DEF TurnedAwayFor, Killed, Requests
    <3>4. OperatorFor(b)'
      BY <1>b, <2>2, <2>4, <3>1 DEF OperatorFor, Requests, Handling, Identifying, Reading
    <3> QED
      BY <3>3, <3>4
  <2> QED
    BY <2>3, <2>4
<1> QED
  BY <1>2, <1>3, <1>4, <1>5, <1>6, NextCases DEF Elsewhere, yankVars

\* TokenInv is an invariant of tokens.rs, auth.rs and the handlers that write.
THEOREM TokenInvariant == Spec => []TokenInv
<1>1. ASSUME Init PROVE TokenInv
  <2>1. /\ \A a \in Actor : pc[a] = "idle" /\ call[a] = NoCall /\ matched[a] = {} /\ left[a] = {}
        /\ updated = {}
    BY <1>1 DEF Init, TokensInit
  <2>2. MintsFresh /\ RevokedSoFar /\ Admission
    BY <2>1 DEF MintsFresh, RevokedSoFar, Admission, TurnedAwayFor, OperatorFor, NoCall, Creating, Requests
  <2> QED
    BY <1>1, <2>2, StageInit DEF TokenInv
<1>2. ASSUME TokenInv, [Next]_vars PROVE TokenInv'
  <2>1. OnlyDie
    BY <1>2, RowsOnlyDie DEF TokenInv
  <2> QED
    BY <1>2, <2>1, StageStep, MintStep, RevokedStep, AdmissionStep DEF TokenInv
<1> QED
  BY <1>1, <1>2, PTL DEF Spec

\* A request that arrives when its token was revoked by a command that has
\* returned, or has expired, changes nothing (auth.rs, tokens.rs).
THEOREM DeadTokensDoNothing == Spec => []RevokedTokenActsNoMore
<1>1. ASSUME TokenInv PROVE RevokedTokenActsNoMore
  BY <1>1 DEF TokenInv, Admission, TurnedAwayFor, RevokedTokenActsNoMore, Requests
<1> QED
  BY <1>1, TokenInvariant, PTL

\* With authentication disabled, a request that neither the database fails nor
\* the server drops gets to act by the operator row, whoever inserted it and
\* whatever became of its own insert (auth.rs).
THEOREM OpenReplicasAdmit == Spec => []OperatorRaceIsHarmless
<1>1. ASSUME TokenInv PROVE OperatorRaceIsHarmless
  BY <1>1 DEF TokenInv, Admission, OperatorFor, OperatorRaceIsHarmless, Requests, Identifying
<1> QED
  BY <1>1, TokenInvariant, PTL

-----------------------------------------------------------------------------
Item == [pkg : Package, meta : Version, versions : SUBSET Version, latest : Version \cup {0}]

\* The types of what reads keep.
ReadType ==
  /\ rows \in [Actor -> SUBSET [pkg : Package, meta : Version]]
  /\ items \in [Actor -> SUBSET Item]

\* A release has its artifact; a package has the metadata of a release that
\* is there.
RegistryInv ==
  /\ published \in [Package \X Version -> Blob \cup {None}]
  /\ metadata \in [Package -> Version \cup {None}]
  /\ \A p \in Package : metadata[p] # None => published[<<p, metadata[p]>>] # None
  /\ \A pv \in Package \X Version : published[pv] # None => pv \in Released /\ published[pv] \in blobs

\* The registry only grows.
Grows ==
  /\ blobs \subseteq blobs'
  /\ \A pv \in Package \X Version : published[pv] # None => published'[pv] = published[pv]

\* What a read has seen is published.
Seen(a) ==
  /\ \A row \in rows[a] : published[<<row.pkg, row.meta>>] # None
  /\ \A i \in items[a] :
       /\ i.meta \in i.versions /\ i.latest \in i.versions \cup {0}
       /\ \A v \in i.versions : published[<<i.pkg, v>>] # None

\* A client that follows a latest version has one to follow, and finds it.
Following(a) ==
  /\ pc[a] \in {"get_version", "get_artifact"} => \E i \in Item : items[a] = {i} /\ i.latest # 0
  /\ call[a].op = "read" => pc[a] # "not_found"

ReadInv ==
  /\ StageInv /\ ReadType /\ RegistryInv
  /\ \A a \in Actor : Seen(a) /\ Following(a)

\* A publish adds to the registry and leaves it in order.
LEMMA PublishGrows ==
  ASSUME RegistryInv, Publish
  PROVE  RegistryInv' /\ Grows
<1>1. CASE \E k \in Blob : R!Store(k)
  BY <1>1 DEF R!Store, RegistryInv, Grows
<1>2. ASSUME NEW pv \in Released, R!Release(pv[1], pv[2], ArtifactOf[pv], pv[2])
      PROVE  RegistryInv' /\ Grows
  <2>1. pv \in Package \X Version /\ pv[1] \in Package /\ pv[2] \in Version /\ pv = <<pv[1], pv[2]>>
    BY CatalogAssumption
  <2>2. ArtifactOf[pv] \in Blob /\ ArtifactOf[pv] # None /\ pv[2] # None
    BY <2>1, CatalogAssumption
  <2>3. /\ published[pv] = None /\ ArtifactOf[pv] \in blobs /\ blobs' = blobs
        /\ published' = [published EXCEPT ![pv] = ArtifactOf[pv]]
        /\ metadata' = [metadata EXCEPT ![pv[1]] = pv[2]]
    BY <1>2, <2>1, <2>2 DEF R!Release
  <2>4. Grows
    BY <2>3 DEF Grows, RegistryInv
  <2>5. /\ published' \in [Package \X Version -> Blob \cup {None}]
        /\ metadata' \in [Package -> Version \cup {None}]
    BY <2>1, <2>2, <2>3 DEF RegistryInv
  <2>6. \A x \in Package \X Version :
          published'[x] # None => x \in Released /\ published'[x] \in blobs'
    BY <2>1, <2>3 DEF RegistryInv
  <2>7. ASSUME NEW p \in Package, metadata'[p] # None PROVE published'[<<p, metadata'[p]>>] # None
    <3>1. CASE p = pv[1]
      BY <2>1, <2>2, <2>3, <3>1 DEF RegistryInv
    <3>2. CASE p # pv[1]
      <4>1. metadata'[p] = metadata[p] /\ metadata[p] \in Version /\ published[<<p, metadata[p]>>] # None
        BY <2>3, <2>7, <3>2 DEF RegistryInv
      <4>2. <<p, metadata[p]>> \in Package \X Version /\ <<p, metadata[p]>> # pv
        BY <2>1, <3>2, <4>1
      <4> QED
        BY <2>3, <4>1, <4>2 DEF RegistryInv
    <3> QED
      BY <3>1, <3>2
  <2> QED
    BY <2>4, <2>5, <2>6, <2>7 DEF RegistryInv
<1> QED
  BY <1>1, <1>2 DEF Publish

\* What was seen stays true while the registry grows.
LEMMA SeenStays ==
  ASSUME ReadType, Grows, NEW a \in Actor, Seen(a), rows'[a] = rows[a], items'[a] = items[a]
  PROVE  Seen(a)'
<1>1. /\ \A row \in rows[a] : <<row.pkg, row.meta>> \in Package \X Version
      /\ \A i \in items[a] : \A v \in i.versions : <<i.pkg, v>> \in Package \X Version
  BY DEF ReadType, Item
<1> QED
  BY <1>1 DEF Seen, Grows

\* The latest version is one of the visible ones.
LEMMA LatestIsVisible ==
  ASSUME NEW p \in Package
  PROVE  latest_visible_version(p) \in Visible(p) \cup {0}
<1>1. CASE Visible(p) = {}
  BY <1>1 DEF latest_visible_version
<1>2. CASE Visible(p) # {}
  <2> DEFINE S == Visible(p)
  <2>1. S \in SUBSET Version /\ S # {}
    BY <1>2 DEF Visible
  <2> HIDE DEF S
  <2>2. PICK m \in S : \A v \in S : v <= m
    BY <2>1, CatalogAssumption
  <2>3. \A v \in S : v \in Nat
    BY <2>1, CatalogAssumption
  <2>4. \E x \in S : \A y \in S : x >= y
    BY <2>2, <2>3
  <2>5. Max(S) \in S
    BY <2>4 DEF Max
  <2> QED
    BY <1>2, <2>5 DEF latest_visible_version, S
<1> QED
  BY <1>1, <1>2

\* The latest version a client follows is published, with its artifact.
LEMMA FollowsPublished ==
  ASSUME ReadInv, NEW a \in Actor, pc[a] \in {"get_version", "get_artifact"}
  PROVE  /\ LatestOf(a) \in Released /\ Found(LatestOf(a))
         /\ published[LatestOf(a)] \in blobs
<1>1. PICK i \in Item : items[a] = {i} /\ i.latest # 0
  BY DEF ReadInv, Following
<1>2. (CHOOSE j \in items[a] : TRUE) = i
  BY <1>1
<1>3. LatestOf(a) = <<i.pkg, i.latest>>
  BY <1>2 DEF LatestOf
<1>4. i.latest \in i.versions /\ published[<<i.pkg, i.latest>>] # None
  BY <1>1 DEF ReadInv, Seen
<1>5. <<i.pkg, i.latest>> \in Package \X Version
  BY <1>1, <1>4 DEF Item
<1> QED
  BY <1>3, <1>4, <1>5 DEF ReadInv, RegistryInv, Found

Readers(a) ==
  ReadRows(a) \/ ReadVersions(a) \/ Follow(a) \/ GetVersion(a) \/ GetArtifact(a)

\* What a step of a request that reads does to what it has seen.
LEMMA ReaderStep ==
  ASSUME ReadInv, NEW a \in Actor, Readers(a)
  PROVE  /\ ReadType' /\ Seen(a)' /\ Following(a)'
         /\ UNCHANGED registryVars
         /\ \A b \in Actor : b # a => rows'[b] = rows[b] /\ items'[b] = items[b] /\ pc'[b] = pc[b]
         /\ call' = call
<1>0. /\ pc \in [Actor -> Stages] /\ rows \in [Actor -> SUBSET [pkg : Package, meta : Version]]
      /\ items \in [Actor -> SUBSET Item] /\ Seen(a) /\ RegistryInv
  BY DEF ReadInv, StageInv, TokensType, ReadType
<1> USE DEF Step, Goto
<1>1. CASE ReadRows(a)
  <2>1. PICK page \in SUBSET {p \in Package : metadata[p] # None} :
          /\ rows' = [rows EXCEPT ![a] = {[pkg |-> p, meta |-> metadata[p]] : p \in page}]
          /\ pc' = [pc EXCEPT ![a] = IF page = {} THEN "done" ELSE "versions"]
    BY <1>1 DEF ReadRows
  <2>2. items' = items /\ call' = call /\ UNCHANGED registryVars
    BY <1>1 DEF ReadRows
  <2> DEFINE new == {[pkg |-> p, meta |-> metadata[p]] : p \in page}
  <2>3. \A row \in new : /\ row \in [pkg : Package, meta : Version]
                         /\ published[<<row.pkg, row.meta>>] # None
    BY <1>0 DEF RegistryInv
  <2> HIDE DEF new
  <2>4. rows' = [rows EXCEPT ![a] = new]
    BY <2>1 DEF new
  <2>5. ReadType'
    BY <1>0, <2>2, <2>3, <2>4 DEF ReadType
  <2>6. Seen(a)'
    BY <1>0, <2>2, <2>3, <2>4 DEF Seen, registryVars
  <2>7. Following(a)'
    BY <1>0, <2>1 DEF Following
  <2>8. \A b \in Actor : b # a => rows'[b] = rows[b] /\ items'[b] = items[b] /\ pc'[b] = pc[b]
    BY <1>0, <2>1, <2>2, <2>4
  <2> QED
    BY <2>2, <2>5, <2>6, <2>7, <2>8
<1>2. CASE ReadVersions(a)
  <2>1. PICK row \in rows[a] :
          /\ items' = [items EXCEPT ![a] = items[a] \cup
               {[pkg |-> row.pkg, meta |-> row.meta,
                 versions |-> {v \in Version : published[<<row.pkg, v>>] # None},
                 latest |-> latest_visible_version(row.pkg)]}]
          /\ rows' = [rows EXCEPT ![a] = rows[a] \ {row}]
          /\ pc' = [pc EXCEPT ![a] = IF rows[a] = {row} THEN "answered" ELSE "versions"]
    BY <1>2 DEF ReadVersions
  <2>2. call' = call /\ UNCHANGED registryVars
    BY <1>2 DEF ReadVersions
  <2> DEFINE known == {v \in Version : published[<<row.pkg, v>>] # None}
             item == [pkg |-> row.pkg, meta |-> row.meta, versions |-> known,
                      latest |-> latest_visible_version(row.pkg)]
  <2>3. row.pkg \in Package /\ row.meta \in known
    BY <1>0 DEF Seen
  <2>4. latest_visible_version(row.pkg) \in known \cup {0}
    BY <2>3, LatestIsVisible DEF Visible
  <2>5. /\ item \in Item /\ item.meta \in item.versions /\ item.latest \in item.versions \cup {0}
        /\ \A v \in item.versions : published[<<item.pkg, v>>] # None
    BY <2>3, <2>4 DEF Item
  <2>6. items' = [items EXCEPT ![a] = items[a] \cup {item}]
    BY <2>1
  <2> HIDE DEF item, known
  <2>7. ReadType'
    BY <1>0, <2>1, <2>5, <2>6 DEF ReadType
  <2>8. items'[a] = items[a] \cup {item} /\ rows'[a] \subseteq rows[a] /\ published' = published
    BY <1>0, <2>1, <2>2, <2>6 DEF registryVars
  <2>9. Seen(a)'
    BY <1>0, <2>5, <2>8 DEF Seen
  <2>10. Following(a)'
    BY <1>0, <2>1 DEF Following
  <2>11. \A b \in Actor : b # a => rows'[b] = rows[b] /\ items'[b] = items[b] /\ pc'[b] = pc[b]
    BY <1>0, <2>1, <2>6
  <2> QED
    BY <2>2, <2>7, <2>9, <2>10, <2>11
<1>3. CASE Follow(a)
  <2>1. PICK item \in items[a] : item.latest # 0 /\ items' = [items EXCEPT ![a] = {item}]
    BY <1>3 DEF Follow
  <2>2. /\ pc' = [pc EXCEPT ![a] = "get_version"] /\ call' = call /\ rows' = rows
        /\ UNCHANGED registryVars
    BY <1>3 DEF Follow
  <2>3. item \in Item /\ items'[a] = {item}
    BY <1>0, <2>1
  <2>4. ReadType'
    BY <1>0, <2>1, <2>2, <2>3 DEF ReadType
  <2>5. Seen(a)'
    BY <1>0, <2>1, <2>2, <2>3 DEF Seen, registryVars
  <2>6. Following(a)'
    BY <1>0, <2>1, <2>2, <2>3 DEF Following
  <2>7. \A b \in Actor : b # a => rows'[b] = rows[b] /\ items'[b] = items[b] /\ pc'[b] = pc[b]
    BY <1>0, <2>1, <2>2
  <2> QED
    BY <2>2, <2>4, <2>5, <2>6, <2>7
<1>4. CASE GetVersion(a) \/ GetArtifact(a)
  <2>1. pc[a] \in {"get_version", "get_artifact"}
    BY <1>4 DEF GetVersion, GetArtifact
  <2>2. LatestOf(a) \in Released /\ Found(LatestOf(a)) /\ published[LatestOf(a)] \in blobs
    BY <2>1, FollowsPublished
  <2>3. /\ \E next \in {"get_artifact", "done"} : pc' = [pc EXCEPT ![a] = next]
        /\ call' = call /\ rows' = rows /\ items' = items /\ UNCHANGED registryVars
    BY <1>4, <2>2 DEF GetVersion, GetArtifact, Elsewhere, readVars
  <2>4. ReadType' /\ Seen(a)'
    BY <1>0, <2>3 DEF ReadType, Seen, registryVars
  <2>5. Following(a)'
    BY <1>0, <2>1, <2>3 DEF Following, ReadInv
  <2>6. \A b \in Actor : b # a => rows'[b] = rows[b] /\ items'[b] = items[b] /\ pc'[b] = pc[b]
    BY <1>0, <2>3
  <2> QED
    BY <2>3, <2>4, <2>5, <2>6
<1> QED
  BY <1>1, <1>2, <1>3, <1>4 DEF Readers

\* The other steps have no part in reading.
LEMMA NoPartInReading ==
  ASSUME ReadInv, NEW a \in Actor,
         \/ Starts(a) /\ UNCHANGED <<registryVars, updated, readVars>>
         \/ Command(a) /\ Elsewhere
         \/ Authenticating(a) /\ Elsewhere
         \/ Handler(a) /\ ~Readers(a)
  PROVE  /\ UNCHANGED <<registryVars, rows, items>>
         /\ \A b \in Actor :
              /\ pc'[b] \in {"get_version", "get_artifact"} => pc[b] = pc'[b]
              /\ call'[b].op = "read" /\ pc'[b] = "not_found" => call[b] = call'[b] /\ pc[b] = pc'[b]
<1>0. /\ StageInv /\ pc \in [Actor -> Stages] /\ call \in [Actor -> Calls]
      /\ StagedAs(pc[a], call[a])
  BY DEF ReadInv, StageInv, TokensType
<1>1. CASE Starts(a) /\ UNCHANGED <<registryVars, updated, readVars>>
  <2>1. PICK c \in Calls, first \in {"find_org", "select", "auth", "rows"} : Start(a, c, first)
    BY <1>1, StartsWith
  <2>2. pc' = [pc EXCEPT ![a] = first] /\ call' = [call EXCEPT ![a] = c]
    BY <2>1 DEF Start, Goto
  <2> QED
    BY <1>0, <1>1, <2>2 DEF readVars
<1>2. CASE Command(a) /\ Elsewhere
  <2>1. /\ pc[a] \in Creating \cup Revoking /\ call' = call
        /\ \E next \in Creating \cup Revoking \cup {"done", "error"} : pc' = [pc EXCEPT ![a] = next]
    BY <1>2 DEF Command, FindOrg, MakeOrg, Mint, Select, RevokeOne, CommandFails, Goto, Creating, Revoking
  <2> QED
    BY <1>0, <1>2, <2>1 DEF Creating, Revoking, Elsewhere, readVars
<1>3. CASE Authenticating(a) /\ Elsewhere
  <2>1. /\ call' = call
        /\ \E next \in AuthNext : pc' = [pc EXCEPT ![a] = next]
    BY <1>3 DEF Authenticating, Authenticate, FindOperator, InsertOperator, InsertOperatorFails,
       RefindOperator, LookupFails, Authenticated, Goto, AuthNext
  <2> QED
    BY <1>0, <1>3, <2>1 DEF Elsewhere, readVars, AuthNext
<1>4. CASE QueryFails(a)
  <2>1. /\ pc' = [pc EXCEPT ![a] = "error"] /\ call' = call
        /\ UNCHANGED <<registryVars, rows, items>>
    BY <1>4 DEF QueryFails, Step, Goto, Elsewhere, readVars
  <2> QED
    BY <1>0, <2>1
<1>5. CASE Handler(a) /\ ~QueryFails(a) /\ ~Readers(a)
  <2>1. PICK next \in After : HandlerStep(a, next)
    BY <1>0, <1>5, HandlerSteps
  <2>2. pc[a] \in Handling /\ UNCHANGED <<registryVars, rows, items>>
    BY <1>5 DEF Handler, Readers, Authorize, FindVersion, Update, FindPackage, Embed,
                RecordAudit, DropRequest, Changing, Handling, Identifying, Elsewhere, readVars
  <2>3. call[a].op # "read" /\ next \notin Reading /\ pc' = [pc EXCEPT ![a] = next] /\ call' = call
    BY <1>0, <2>1, <2>2 DEF StagedAs, HandlerStep, Step, Goto, Requests
  <2> QED
    BY <1>0, <2>2, <2>3 DEF Reading
<1> QED
  BY <1>1, <1>2, <1>3, <1>4, <1>5

\* ReadInv is an invariant of the handlers that read.
THEOREM ReadInvariant == Spec => []ReadInv
<1>1. ASSUME Init PROVE ReadInv
  <2>1. \A a \in Actor : pc[a] = "idle" /\ rows[a] = {} /\ items[a] = {}
    BY <1>1 DEF Init, TokensInit
  <2>2. ReadType
    BY <1>1 DEF Init, ReadType
  <2>3. RegistryInv
    BY <1>1 DEF Init, R!Init, RegistryInv
  <2> QED
    BY <1>1, <2>1, <2>2, <2>3, StageInit DEF ReadInv, Seen, Following
<1>2. ASSUME ReadInv, [Next]_vars PROVE ReadInv'
  <2>0. StageInv' /\ ReadType /\ RegistryInv /\ \A b \in Actor : Seen(b) /\ Following(b)
    BY <1>2, StageStep DEF ReadInv
  <2>1. ASSUME UNCHANGED <<registryVars, rows, items>>,
               \A b \in Actor :
                 /\ pc'[b] \in {"get_version", "get_artifact"} => pc[b] = pc'[b]
                 /\ call'[b].op = "read" /\ pc'[b] = "not_found" => call[b] = call'[b] /\ pc[b] = pc'[b]
        PROVE  ReadInv'
    <3>1. ReadType' /\ RegistryInv' /\ \A b \in Actor : Seen(b)'
      BY <2>0, <2>1 DEF ReadType, RegistryInv, Seen, registryVars
    <3>2. \A b \in Actor : Following(b)'
      BY <2>0, <2>1 DEF Following
    <3> QED
      BY <2>0, <3>1, <3>2 DEF ReadInv
  <2>2. CASE Publish
    <3>1. RegistryInv' /\ Grows /\ UNCHANGED <<pc, call, rows, items>>
      BY <1>2, <2>0, <2>2, PublishGrows DEF Publish, tokenVars, readVars
    <3>2. \A b \in Actor : Seen(b)'
      BY <2>0, <3>1, SeenStays
    <3> QED
      BY <2>0, <3>1, <3>2 DEF ReadInv, ReadType, Following
  <2>3. CASE UNCHANGED vars \/ \E t \in Expires : Expire(t) /\ Elsewhere
    <3>1. UNCHANGED <<registryVars, rows, items, pc, call>>
      BY <2>3 DEF vars, tokenVars, readVars, Expire, Elsewhere
    <3> QED
      BY <2>1, <3>1
  <2>4. ASSUME NEW a \in Actor, Readers(a) PROVE ReadInv'
    <3>1. /\ ReadType' /\ Seen(a)' /\ Following(a)' /\ UNCHANGED registryVars
          /\ \A b \in Actor : b # a => rows'[b] = rows[b] /\ items'[b] = items[b] /\ pc'[b] = pc[b]
          /\ call' = call
      BY <1>2, <2>4, ReaderStep
    <3>2. RegistryInv' /\ Grows
      BY <2>0, <3>1 DEF RegistryInv, Grows, registryVars
    <3>3. ASSUME NEW b \in Actor, b # a PROVE Seen(b)' /\ Following(b)'
      BY <2>0, <3>1, <3>2, <3>3, SeenStays DEF Following
    <3> QED
      BY <2>0, <3>1, <3>2, <3>3 DEF ReadInv
  <2>5. ASSUME NEW a \in Actor,
               \/ Starts(a) /\ UNCHANGED <<registryVars, updated, readVars>>
               \/ Command(a) /\ Elsewhere
               \/ Authenticating(a) /\ Elsewhere
               \/ Handler(a) /\ ~Readers(a)
        PROVE  ReadInv'
    BY <1>2, <2>1, <2>5, NoPartInReading
  <2> QED
    BY <1>2, <2>2, <2>3, <2>4, <2>5, NextCases
<1> QED
  BY <1>1, <1>2, PTL DEF Spec

\* No summary names a release that is not among its versions (list.rs,
\* packages.rs).
THEOREM SummariesAreNotAhead == Spec => []SummaryNotAheadOfVersions
<1>1. ASSUME ReadInv PROVE SummaryNotAheadOfVersions
  BY <1>1 DEF ReadInv, Seen, SummaryNotAheadOfVersions
<1> QED
  BY <1>1, ReadInvariant, PTL

\* The latest version a client was told is never answered not found
\* (packages.rs, artifacts.rs).
THEOREM LatestIsFetched == Spec => []LatestStaysFetchable
<1>1. ASSUME ReadInv PROVE LatestStaysFetchable
  BY <1>1 DEF ReadInv, Following, LatestStaysFetchable
<1> QED
  BY <1>1, ReadInvariant, PTL

\* All that reads, yanks and commands see of publishing is what Registry
\* promises, which Publish is proved to implement.
THEOREM CatalogFollowsRegistry == Spec => R!Spec
<1>1. Init => R!Init
  BY DEF Init
<1>2. ASSUME [Next]_vars PROVE [R!Next]_R!vars
  <2>1. CASE Publish
    <3>1. ASSUME NEW pv \in Released, R!Release(pv[1], pv[2], ArtifactOf[pv], pv[2]) PROVE R!Next
      <4>1. pv[1] \in Package /\ pv[2] \in Version /\ ArtifactOf[pv] \in Blob
        BY CatalogAssumption
      <4> QED BY <3>1, <4>1 DEF R!Next
    <3> QED BY <2>1, <3>1 DEF Publish, R!Next
  <2>2. ASSUME NEW a \in Actor, Handler(a) PROVE UNCHANGED registryVars
    BY <2>2 DEF Handler, Authorize, FindVersion, Update, QueryFails, FindPackage, Embed, RecordAudit,
                DropRequest, ReadRows, ReadVersions, Follow, GetVersion, GetArtifact, Elsewhere
  <2>3. CASE UNCHANGED registryVars
    BY <2>3 DEF registryVars, R!vars
  <2> QED BY <1>2, <2>1, <2>2, <2>3, NextCases DEF Elsewhere, vars
<1> QED BY <1>1, <1>2, PTL DEF Spec, R!Spec

-----------------------------------------------------------------------------
(***************************************************************************)
(* The trail.  Of a version that no two requests are changing at one time  *)
(* (Alone), the flag is that of the request which is about to record its   *)
(* update, or, when there is none, that of the last entry (InStep).        *)
(***************************************************************************)
Entries == [by : Actor, token : Row \cup {None}, pv : Yankable, flag : BOOLEAN]

TrailType ==
  /\ yanked \in [Package \X Version -> BOOLEAN]
  /\ trail \in Seq(Entries)
  /\ updated \subseteq Actor

Changer(a, pv) == Changing(a) /\ call[a].op = "yank" /\ call[a].pv = pv

Recording(a, pv) == pc[a] = "audit" /\ call[a].pv = pv

\* An entry tells of an update that was applied.
Told ==
  \A i \in DOMAIN trail :
    LET a == trail[i].by
    IN a \in updated /\ trail[i].pv = call[a].pv /\ trail[i].flag = call[a].flag

\* An update that was applied has its entry, will have it, or is lost.
Accounted ==
  \A a \in Actor :
    /\ pc[a] = "audit" => a \in updated
    /\ a \in updated /\ call[a].op = "yank" =>
         \/ pc[a] = "audit" \/ call[a].pv \in lost
         \/ \E i \in DOMAIN trail : trail[i].by = a

Alone ==
  \A pv \in Yankable \ overlapped : \A a, b \in Actor :
    Changer(a, pv) /\ Changer(b, pv) => a = b

InStep ==
  \A pv \in Yankable \ (lost \cup overlapped) :
    /\ \A a \in Actor : Recording(a, pv) => yanked[pv] = call[a].flag
    /\ (\A a \in Actor : ~Recording(a, pv)) => (yanked[pv] <=> LastFlag(pv))

TrailInv == TrailType /\ Told /\ Accounted /\ Alone /\ InStep

\* A new entry is the last of its version, and of no other.
LEMMA LastOfLonger ==
  ASSUME trail \in Seq(Entries), NEW e \in Entries, trail' = Append(trail, e)
  PROVE  /\ LastFlag(e.pv)' = e.flag
         /\ \A pv : pv # e.pv => LastFlag(pv)' = LastFlag(pv)
         /\ Len(trail) + 1 \in DOMAIN trail' /\ trail'[Len(trail) + 1] = e
         /\ DOMAIN trail' = DOMAIN trail \cup {Len(trail) + 1}
         /\ \A i \in DOMAIN trail : trail'[i] = trail[i]
<1> DEFINE n == Len(trail)
           at(pv) == {i \in DOMAIN trail : trail[i].pv = pv}
           longer(pv) == {i \in DOMAIN trail' : trail'[i].pv = pv}
<1>1. /\ n \in Nat /\ DOMAIN trail = 1..n /\ DOMAIN trail' = 1..(n + 1)
      /\ trail'[n + 1] = e /\ \A i \in 1..n : trail'[i] = trail[i]
  OBVIOUS
<1>2. DOMAIN trail' = DOMAIN trail \cup {n + 1} /\ n + 1 \in DOMAIN trail'
  BY <1>1
<1>3. LastFlag(e.pv)' = e.flag
  <2>1. n + 1 \in longer(e.pv) /\ \A i \in longer(e.pv) : n + 1 >= i
    BY <1>1
  <2>2. longer(e.pv) \subseteq Int
    BY <1>1
  <2> HIDE DEF longer
  <2>3. Max(longer(e.pv)) \in longer(e.pv) /\ \A i \in longer(e.pv) : Max(longer(e.pv)) >= i
    BY <2>1 DEF Max
  <2>4. Max(longer(e.pv)) = n + 1
    BY <1>1, <2>1, <2>2, <2>3
  <2>5. e.flag \in BOOLEAN
    BY DEF Entries
  <2> QED BY <1>1, <2>1, <2>4, <2>5 DEF LastFlag, longer
<1>4. ASSUME NEW pv, pv # e.pv PROVE LastFlag(pv)' = LastFlag(pv)
  <2>1. longer(pv) = at(pv)
    BY <1>1, <1>2, <1>4
  <2>2. CASE at(pv) = {}
    BY <2>1, <2>2 DEF LastFlag
  <2>3. CASE at(pv) # {}
    <3>1. at(pv) \subseteq 1..n /\ at(pv) \subseteq Nat
      BY <1>1
    <3>2. IsFiniteSet(at(pv))
      <4>1. IsFiniteSet(1..n)
        BY <1>1, FS_Interval
      <4> QED BY <3>1, <4>1, FS_Subset
    <3> HIDE DEF at
    <3>3. \E m \in at(pv) : \A i \in at(pv) : i <= m
      BY <2>3, <3>1, <3>2, GreatestNatural
    <3>4. \E m \in at(pv) : \A i \in at(pv) : m >= i
      BY <3>1, <3>3
    <3>5. Max(at(pv)) \in at(pv)
      BY <3>4 DEF Max
    <3>6. trail'[Max(at(pv))] = trail[Max(at(pv))]
      BY <1>1, <3>1, <3>5
    <3> QED BY <2>1, <2>3, <3>6 DEF LastFlag, at
  <2> QED BY <2>2, <2>3
<1> QED BY <1>1, <1>2, <1>3, <1>4

\* What a step leaves alone that neither updates a flag nor ends a recording.
Quiet(b) ==
  \/ pc[b] = "idle" /\ pc'[b] # "audit"
  \/ call'[b] = call[b] /\ (pc'[b] = "audit" <=> pc[b] = "audit")

LEMMA QuietStays ==
  ASSUME TokenInv, TrailInv, UNCHANGED <<yanked, trail, lost>>,
         overlapped \subseteq overlapped', updated \subseteq updated', updated' \subseteq Actor,
         \A b \in updated' : b \in updated \/ (call[b].op # "yank" /\ call'[b] = call[b]),
         \A b \in Actor : Quiet(b)
  PROVE  TrailType' /\ Told' /\ Accounted' /\ InStep'
<1>1. \A b \in updated : call'[b] = call[b] /\ (pc'[b] = "audit" <=> pc[b] = "audit")
  BY DEF Quiet, TokenInv, Admission, TurnedAwayFor, TrailInv, TrailType
<1>2. TrailType'
  BY DEF TrailInv, TrailType
<1>3. Told'
  BY <1>1 DEF TrailInv, Told
<1>4. Accounted'
  <2> SUFFICES ASSUME NEW b \in Actor
               PROVE  /\ pc'[b] = "audit" => b \in updated'
                      /\ b \in updated' /\ call'[b].op = "yank" =>
                           \/ pc'[b] = "audit" \/ call'[b].pv \in lost'
                           \/ \E i \in DOMAIN trail' : trail'[i].by = b
    BY DEF Accounted
  <2>1. pc'[b] = "audit" => b \in updated'
    BY DEF Quiet, TrailInv, Accounted
  <2>2. CASE b \in updated
    BY <1>1, <2>1, <2>2 DEF TrailInv, Accounted
  <2>3. CASE b \notin updated
    BY <2>1, <2>3
  <2> QED BY <2>2, <2>3
<1>5. InStep'
  <2>1. \A b \in Actor, pv \in Yankable : Recording(b, pv)' <=> Recording(b, pv)
    BY <1>1 DEF Quiet, Recording, TrailInv, Accounted
  <2>2. \A b \in Actor, pv \in Yankable : Recording(b, pv) => call'[b] = call[b]
    BY <1>1 DEF Recording, TrailInv, Accounted
  <2>3. \A pv : LastFlag(pv)' = LastFlag(pv)
    BY DEF LastFlag
  <2>4. \A pv \in Yankable \ (lost' \cup overlapped') : pv \in Yankable \ (lost \cup overlapped)
    OBVIOUS
  <2> QED BY <2>1, <2>2, <2>3, <2>4 DEF TrailInv, InStep
<1> QED BY <1>2, <1>3, <1>4, <1>5

\* Nobody begins to change a version.
LEMMA AloneStays ==
  ASSUME Alone, overlapped \subseteq overlapped',
         \A b \in Actor, pv \in Yankable : Changer(b, pv)' => Changer(b, pv)
  PROVE  Alone'
BY DEF Alone

\* The handler's steps that are neither the update of a flag nor its entry.
QuietHandler(a) ==
  \/ Authorize(a) \/ FindVersion(a) \/ QueryFails(a) \/ FindPackage(a) \/ Embed(a) \/ Readers(a)
  \/ DropRequest(a) /\ pc[a] # "audit"

LEMMA QuietHandlerStep ==
  ASSUME StageInv, NEW a \in Actor, QuietHandler(a)
  PROVE  /\ UNCHANGED <<yanked, trail, lost, overlapped, call>>
         /\ pc[a] # "audit" /\ pc'[a] # "audit"
         /\ \A b \in Actor : b # a => pc'[b] = pc[b]
         /\ Changing(a)' => Changing(a)
         /\ updated' = updated \/ (updated' = updated \cup {a} /\ call[a].op = "embed")
<1>1. pc \in [Actor -> Stages] /\ StagedAs(pc[a], call[a])
  BY DEF StageInv, TokensType
<1> USE DEF Step, Goto
<1>2. CASE Authorize(a) \/ FindVersion(a) \/ FindPackage(a)
  <2>1. /\ UNCHANGED <<yanked, trail, lost, overlapped, call, updated>>
        /\ pc[a] \in {"org", "version"}
        /\ \E next \in {"not_found", "unauthorized", "forbidden", "version", "update"} :
             pc' = [pc EXCEPT ![a] = next]
    BY <1>2 DEF Authorize, FindVersion, FindPackage, authorize_publish, Elsewhere, yankVars
  <2> QED BY <1>1, <2>1 DEF Changing
<1>3. CASE QueryFails(a)
  BY <1>1, <1>3 DEF QueryFails, Elsewhere, yankVars, Changing
<1>4. CASE Embed(a)
  <2>1. /\ UNCHANGED <<yanked, trail, lost, overlapped, call>> /\ updated' = updated \cup {a}
        /\ pc[a] = "update" /\ call[a].op = "embed"
        /\ \E next \in {"done", "error"} : pc' = [pc EXCEPT ![a] = next]
    BY <1>4 DEF Embed
  <2> QED BY <1>1, <2>1 DEF Changing
<1>5. CASE Readers(a)
  <2>1. /\ UNCHANGED <<yanked, trail, lost, overlapped, call, updated>>
        /\ pc[a] \in Reading
        /\ \E next \in Reading \cup {"done", "not_found"} : pc' = [pc EXCEPT ![a] = next]
    BY <1>5 DEF Readers, ReadRows, ReadVersions, Follow, GetVersion, GetArtifact, Elsewhere,
                yankVars, Reading
  <2> QED BY <1>1, <2>1 DEF Changing, Reading
<1>6. CASE DropRequest(a) /\ pc[a] # "audit"
  BY <1>1, <1>6 DEF DropRequest, Changing
<1> QED BY <1>2, <1>3, <1>4, <1>5, <1>6 DEF QuietHandler

\* Such a step keeps the trail in order.
LEMMA QuietHandlerKeeps ==
  ASSUME TokenInv, TrailInv, NEW a \in Actor, QuietHandler(a)
  PROVE  TrailInv'
<1>1. /\ UNCHANGED <<yanked, trail, lost, overlapped, call>>
      /\ pc[a] # "audit" /\ pc'[a] # "audit"
      /\ \A b \in Actor : b # a => pc'[b] = pc[b]
      /\ Changing(a)' => Changing(a)
      /\ updated' = updated \/ (updated' = updated \cup {a} /\ call[a].op = "embed")
  BY QuietHandlerStep DEF TokenInv
<1>2. \A b \in Actor : Quiet(b)
  BY <1>1 DEF Quiet
<1>3. updated \subseteq updated' /\ updated' \subseteq Actor
  BY <1>1 DEF TrailInv, TrailType
<1>4. \A b \in updated' : b \in updated \/ (call[b].op # "yank" /\ call'[b] = call[b])
  BY <1>1
<1>5. \A b \in Actor, pv \in Yankable : Changer(b, pv)' => Changer(b, pv)
  BY <1>1 DEF Changer, Changing
<1>6. Alone'
  BY <1>1, <1>5, AloneStays DEF TrailInv
<1> QED BY <1>1, <1>2, <1>3, <1>4, <1>6, QuietStays DEF TrailInv

\* A step of the commands and of require_token.
LEMMA CommandKeepsTrail ==
  ASSUME TokenInv, TrailInv, NEW a \in Actor, Command(a) \/ Authenticating(a), Elsewhere
  PROVE  TrailInv'
<1>1. UNCHANGED <<yanked, trail, lost, overlapped, updated>>
  BY DEF Elsewhere, yankVars
<1>2. pc \in [Actor -> Stages]
  BY DEF TokenInv, StageInv, TokensType
<1>3. /\ call' = call /\ \A b \in Actor : b # a => pc'[b] = pc[b]
      /\ pc[a] # "audit" /\ pc'[a] # "audit" /\ (Changing(a)' => Changing(a))
  <2>1. CASE Command(a)
    <3>1. /\ pc[a] \in Creating \cup Revoking /\ call' = call
          /\ \E next \in Creating \cup Revoking \cup {"done", "error"} : pc' = [pc EXCEPT ![a] = next]
      BY <2>1 DEF Command, FindOrg, MakeOrg, Mint, Select, RevokeOne, CommandFails, Goto, Creating, Revoking
    <3> QED BY <1>2, <3>1 DEF Creating, Revoking, Changing
  <2>2. CASE Authenticating(a)
    <3>1. /\ pc[a] \in Identifying /\ call' = call
          /\ \E next \in AuthNext : pc' = [pc EXCEPT ![a] = next]
      BY <2>2 DEF Authenticating, Authenticate, FindOperator, InsertOperator, InsertOperatorFails,
         RefindOperator, LookupFails, Authenticated, Goto, Identifying, AuthNext
    <3> QED BY <1>2, <3>1 DEF Changing, Identifying, AuthNext
  <2> QED BY <2>1, <2>2
<1>4. \A b \in Actor : Quiet(b)
  BY <1>3 DEF Quiet
<1>5. \A b \in Actor, pv \in Yankable : Changer(b, pv)' => Changer(b, pv)
  BY <1>3 DEF Changer, Changing
<1>6. Alone'
  BY <1>1, <1>5, AloneStays DEF TrailInv
<1>7. updated' \subseteq Actor
  BY <1>1 DEF TrailInv, TrailType
<1>8. overlapped \subseteq overlapped' /\ updated \subseteq updated'
  BY <1>1
<1>9. \A b \in updated' : b \in updated \/ (call[b].op # "yank" /\ call'[b] = call[b])
  BY <1>1
<1>10. TrailType' /\ Told' /\ Accounted' /\ InStep'
  BY <1>1, <1>4, <1>7, <1>8, <1>9, QuietStays
<1> QED BY <1>6, <1>10 DEF TrailInv

\* A request arrives, or a command begins: of those that change a version a
\* second one is noted.
LEMMA StartKeepsTrail ==
  ASSUME TokenInv, TrailInv, NEW a \in Actor, NEW c, NEW first, Start(a, c, first),
         first # "audit", UNCHANGED <<yanked, trail, lost, updated>>,
         \/ c.op # "yank" /\ overlapped' = overlapped
         \/ overlapped' = IF \E b \in Actor : Changing(b) /\ call[b].op = "yank" /\ call[b].pv = c.pv
                          THEN overlapped \cup {c.pv} ELSE overlapped
  PROVE  TrailInv'
<1>1. pc \in [Actor -> Stages] /\ call \in [Actor -> Calls] /\ updated \subseteq Actor
  BY DEF TokenInv, StageInv, TokensType, TrailInv, TrailType
<1>2. /\ pc[a] = "idle" /\ pc'[a] = first /\ call'[a] = c
      /\ \A b \in Actor : b # a => pc'[b] = pc[b] /\ call'[b] = call[b]
  BY <1>1 DEF Start, Goto
<1>3. \A b \in Actor : Quiet(b)
  BY <1>2 DEF Quiet
<1>4. overlapped \subseteq overlapped'
  OBVIOUS
<1>5. \A b \in Actor, pv \in Yankable : b # a => (Changer(b, pv)' <=> Changer(b, pv))
  BY <1>2 DEF Changer, Changing
<1>6. ASSUME NEW pv \in Yankable \ overlapped', NEW b \in Actor, b # a,
             Changer(a, pv)', Changer(b, pv)'
      PROVE  FALSE
  <2>1. c.op = "yank" /\ c.pv = pv /\ Changer(b, pv)
    BY <1>2, <1>5, <1>6 DEF Changer
  <2> QED BY <1>6, <2>1 DEF Changer
<1>7. Alone'
  <2> SUFFICES ASSUME NEW pv \in Yankable \ overlapped', NEW b \in Actor, NEW d \in Actor,
                      Changer(b, pv)', Changer(d, pv)'
               PROVE  b = d
    BY DEF Alone
  <2>1. CASE b # a /\ d # a
    BY <1>4, <1>5, <2>1 DEF TrailInv, Alone
  <2>2. CASE b = a \/ d = a
    BY <1>6, <2>2
  <2> QED BY <2>1, <2>2
<1>8. updated \subseteq updated' /\ updated' \subseteq Actor
  BY <1>1
<1>9. \A b \in updated' : b \in updated \/ (call[b].op # "yank" /\ call'[b] = call[b])
  OBVIOUS
<1>10. TrailType' /\ Told' /\ Accounted' /\ InStep'
  BY <1>3, <1>4, <1>8, <1>9, QuietStays
<1> QED BY <1>7, <1>10 DEF TrailInv

\* A flag is updated.
LEMMA UpdateKeepsTrail ==
  ASSUME TokenInv, TrailInv, NEW a \in Actor, Update(a)
  PROVE  TrailInv'
<1> DEFINE p == call[a].pv
<1>1. /\ pc \in [Actor -> Stages] /\ updated \subseteq Actor
      /\ yanked \in [Package \X Version -> BOOLEAN]
      /\ p \in Yankable /\ p \in Package \X Version /\ call[a].flag \in BOOLEAN
  <2>1. call[a] \in Calls /\ call[a].op = "yank"
    BY DEF TokenInv, StageInv, TokensType, Update
  <2> QED BY <2>1, CallKinds, CatalogAssumption DEF TokenInv, StageInv, TokensType, TrailInv, TrailType
<1>2. /\ pc[a] = "update" /\ call[a].op = "yank" /\ yanked' = [yanked EXCEPT ![p] = call[a].flag]
      /\ updated' = updated \cup {a} /\ UNCHANGED <<trail, overlapped, call>>
      /\ \/ pc' = [pc EXCEPT ![a] = "audit"] /\ lost' = lost
         \/ pc' = [pc EXCEPT ![a] = "error"] /\ lost' = lost \cup {p}
  BY DEF Update, Step, Goto
<1>3. \A b \in Actor : b # a => pc'[b] = pc[b]
  BY <1>1, <1>2
<1>4. TrailType'
  BY <1>1, <1>2 DEF TrailInv, TrailType
<1>5. Told'
  BY <1>2 DEF TrailInv, Told
<1>6. Accounted'
  BY <1>1, <1>2, <1>3 DEF TrailInv, Accounted
<1>7. Changer(a, p) /\ \A b \in Actor, pv \in Yankable : Changer(b, pv)' => Changer(b, pv)
  BY <1>1, <1>2, <1>3 DEF Changer, Changing
<1>8. Alone'
  BY <1>2, <1>7, AloneStays DEF TrailInv
<1>9. InStep'
  <2> SUFFICES ASSUME NEW pv \in Yankable, pv \notin lost', pv \notin overlapped
               PROVE  /\ \A b \in Actor : Recording(b, pv)' => yanked'[pv] = call'[b].flag
                      /\ (\A b \in Actor : ~Recording(b, pv)') => (yanked'[pv] <=> LastFlag(pv)')
    BY <1>2 DEF InStep
  <2>1. pv \in Package \X Version /\ pv \notin lost /\ LastFlag(pv)' = LastFlag(pv)
    BY <1>2, CatalogAssumption DEF LastFlag
  <2>2. CASE pv # p
    <3>1. yanked'[pv] = yanked[pv]
      BY <1>1, <1>2, <2>1, <2>2
    <3>2. \A b \in Actor : Recording(b, pv)' <=> Recording(b, pv)
      BY <1>2, <1>3, <2>2 DEF Recording
    <3> QED BY <1>2, <2>1, <3>1, <3>2 DEF TrailInv, InStep
  <2>3. CASE pv = p
    <3>1. pc'[a] = "audit" /\ yanked'[p] = call[a].flag
      BY <1>1, <1>2, <2>3
    <3>2. ASSUME NEW b \in Actor, Recording(b, pv)' PROVE b = a
      <4>1. CASE b # a
        <5>1. pc[b] = "audit" /\ call[b].pv = p
          BY <1>2, <1>3, <2>3, <3>2, <4>1 DEF Recording
        <5>2. call[b].op = "yank"
          BY <5>1 DEF TokenInv, StageInv, StagedAs
        <5>3. Changer(b, p)
          BY <5>1, <5>2 DEF Changer, Changing
        <5> QED BY <1>1, <1>7, <2>3, <5>3 DEF TrailInv, Alone
      <4> QED BY <4>1
    <3>3. Recording(a, pv)'
      BY <1>2, <2>3, <3>1 DEF Recording
    <3> QED BY <1>2, <2>3, <3>1, <3>2, <3>3
  <2> QED BY <2>2, <2>3
<1> QED BY <1>4, <1>5, <1>6, <1>8, <1>9 DEF TrailInv

\* An update ends without its entry.
LEMMA LossKeepsTrail ==
  ASSUME TokenInv, TrailInv, NEW a \in Actor, pc[a] = "audit", NEW next \in {"done", "dropped"},
         Step(a, next), lost' = lost \cup {call[a].pv}, UNCHANGED <<yanked, trail, updated, overlapped>>
  PROVE  TrailInv'
<1>1. /\ pc \in [Actor -> Stages] /\ updated \subseteq Actor
      /\ pc' = [pc EXCEPT ![a] = next] /\ call' = call
  BY DEF TokenInv, StageInv, TokensType, TrailInv, TrailType, Step, Goto
<1>2. /\ pc'[a] = next /\ \A b \in Actor : b # a => pc'[b] = pc[b]
  BY <1>1
<1>3. TrailType' /\ Told'
  BY <1>1 DEF TrailInv, TrailType, Told
<1>4. Accounted'
  BY <1>1, <1>2 DEF TrailInv, Accounted
<1>5. \A b \in Actor, pv \in Yankable : Changer(b, pv)' => Changer(b, pv)
  BY <1>1, <1>2 DEF Changer, Changing
<1>6. Alone'
  BY <1>5, AloneStays DEF TrailInv
<1>7. InStep'
  <2> SUFFICES ASSUME NEW pv \in Yankable, pv \notin lost', pv \notin overlapped
               PROVE  /\ \A b \in Actor : Recording(b, pv)' => yanked'[pv] = call'[b].flag
                      /\ (\A b \in Actor : ~Recording(b, pv)') => (yanked'[pv] <=> LastFlag(pv)')
    BY DEF InStep
  <2>1. \A b \in Actor : Recording(b, pv)' <=> Recording(b, pv)
    BY <1>1, <1>2 DEF Recording
  <2>2. LastFlag(pv)' = LastFlag(pv)
    BY DEF LastFlag
  <2> QED BY <1>1, <2>1, <2>2 DEF TrailInv, InStep
<1> QED BY <1>3, <1>4, <1>6, <1>7 DEF TrailInv

\* An entry is recorded.
LEMMA EntryKeepsTrail ==
  ASSUME TokenInv, TrailInv, NEW a \in Actor, pc[a] = "audit", Step(a, "done"),
         trail' = Append(trail, Entry(a)), UNCHANGED <<yanked, lost, updated, overlapped>>
  PROVE  TrailInv'
<1>1. /\ pc \in [Actor -> Stages] /\ updated \subseteq Actor /\ trail \in Seq(Entries)
      /\ pc' = [pc EXCEPT ![a] = "done"] /\ call' = call
      /\ a \in updated
  BY DEF TokenInv, StageInv, TokensType, TrailInv, TrailType, Accounted, Step, Goto
<1>2. /\ pc'[a] = "done" /\ \A b \in Actor : b # a => pc'[b] = pc[b]
  BY <1>1
<1>3. /\ call[a].op = "yank" /\ call[a].pv \in Yankable /\ call[a].flag \in BOOLEAN
      /\ by[a] \in Row \cup {None}
  <2>1. call[a] \in Calls /\ call[a].op = "yank"
    BY DEF TokenInv, StageInv, TokensType, StagedAs
  <2> QED BY <2>1, CallKinds DEF TokenInv, StageInv, TokensType
<1>4. PICK e \in Entries : /\ e.by = a /\ e.pv = call[a].pv /\ e.flag = call[a].flag
                          /\ trail' = Append(trail, e)
  BY <1>3 DEF Entry, Entries
<1>5. /\ LastFlag(e.pv)' = e.flag
      /\ \A pv : pv # e.pv => LastFlag(pv)' = LastFlag(pv)
      /\ Len(trail) + 1 \in DOMAIN trail' /\ trail'[Len(trail) + 1] = e
      /\ DOMAIN trail' = DOMAIN trail \cup {Len(trail) + 1}
      /\ \A i \in DOMAIN trail : trail'[i] = trail[i]
  BY <1>1, <1>4, LastOfLonger
<1>6. TrailType'
  BY <1>1, <1>4 DEF TrailInv, TrailType
<1>7. Told'
  BY <1>1, <1>4, <1>5 DEF TrailInv, Told
<1>8. Accounted'
  BY <1>1, <1>2, <1>4, <1>5 DEF TrailInv, Accounted
<1>9. Changer(a, e.pv) /\ \A b \in Actor, pv \in Yankable : Changer(b, pv)' => Changer(b, pv)
  BY <1>1, <1>2, <1>3, <1>4 DEF Changer, Changing
<1>10. Alone'
  BY <1>9, AloneStays DEF TrailInv
<1>11. InStep'
  <2> SUFFICES ASSUME NEW pv \in Yankable, pv \notin lost, pv \notin overlapped
               PROVE  /\ \A b \in Actor : Recording(b, pv)' => yanked'[pv] = call'[b].flag
                      /\ (\A b \in Actor : ~Recording(b, pv)') => (yanked'[pv] <=> LastFlag(pv)')
    BY DEF InStep
  <2>1. ASSUME NEW b \in Actor, Recording(b, pv)' PROVE Recording(b, pv)
    BY <1>1, <1>2, <2>1 DEF Recording
  <2>2. CASE pv # e.pv
    <3>1. \A b \in Actor : Recording(b, pv)' <=> Recording(b, pv)
      BY <1>1, <1>2, <1>4, <2>2 DEF Recording
    <3> QED BY <1>1, <1>5, <2>2, <3>1 DEF TrailInv, InStep
  <2>3. CASE pv = e.pv
    <3>1. yanked[pv] = call[a].flag
      BY <1>4, <2>3 DEF TrailInv, InStep, Recording
    <3>2. LastFlag(pv)' = call[a].flag
      BY <1>4, <1>5, <2>3
    <3> QED BY <1>1, <2>1, <3>1, <3>2 DEF TrailInv, InStep
  <2> QED BY <2>2, <2>3
<1> QED BY <1>6, <1>7, <1>8, <1>10, <1>11 DEF TrailInv

\* Whoever begins, as whatever.
LEMMA BeginningKeepsTrail ==
  ASSUME TokenInv, TrailInv, NEW a \in Actor,
         \/ (\E t \in Token : StartCreate(a, t)) /\ Elsewhere
         \/ (\E t \in Row : StartRevoke(a, Name[t])) /\ Elsewhere
         \/ \E t \in Token \cup {None}, open \in Open, pv \in Yankable, flag \in BOOLEAN :
              ReceiveYank(a, t, open, pv, flag)
         \/ \E t \in Token \cup {None}, open \in Open, p \in Package : ReceiveEmbedding(a, t, open, p)
         \/ ReceiveRead(a)
  PROVE  TrailInv'
<1> USE DEF Elsewhere, yankVars
<1>1. ASSUME NEW t \in Token, StartCreate(a, t), Elsewhere PROVE TrailInv'
  <2> DEFINE c == [op |-> "create", token |-> t]
  <2>1. Start(a, c, "find_org") /\ c.op # "yank" /\ UNCHANGED <<yanked, trail, lost, updated, overlapped>>
    BY <1>1 DEF StartCreate
  <2> QED BY <2>1, StartKeepsTrail
<1>2. ASSUME NEW t \in Row, StartRevoke(a, Name[t]), Elsewhere PROVE TrailInv'
  <2> DEFINE c == [op |-> "revoke", name |-> Name[t]]
  <2>1. Start(a, c, "select") /\ c.op # "yank" /\ UNCHANGED <<yanked, trail, lost, updated, overlapped>>
    BY <1>2 DEF StartRevoke
  <2> QED BY <2>1, StartKeepsTrail
<1>3. ASSUME NEW t \in Token \cup {None}, NEW open \in Open, NEW pv \in Yankable, NEW flag \in BOOLEAN,
             ReceiveYank(a, t, open, pv, flag)
      PROVE  TrailInv'
  <2>1. PICK c : /\ c = [op |-> "yank", token |-> t, open |-> open, pv |-> pv, flag |-> flag,
                         late |-> t \in Dead]
                 /\ Start(a, c, "auth")
    BY <1>3 DEF ReceiveYank
  <2>2. /\ UNCHANGED <<yanked, trail, lost, updated>> /\ c.pv = pv
        /\ overlapped' = IF \E b \in Actor : Changing(b) /\ call[b].op = "yank" /\ call[b].pv = c.pv
                         THEN overlapped \cup {c.pv} ELSE overlapped
    BY <1>3, <2>1 DEF ReceiveYank
  <2> QED BY <2>1, <2>2, StartKeepsTrail
<1>4. ASSUME NEW t \in Token \cup {None}, NEW open \in Open, NEW p \in Package,
             ReceiveEmbedding(a, t, open, p)
      PROVE  TrailInv'
  <2>1. PICK c : /\ c = [op |-> "embed", token |-> t, open |-> open, pkg |-> p, late |-> t \in Dead]
                 /\ Start(a, c, "auth")
    BY <1>4 DEF ReceiveEmbedding
  <2>2. c.op # "yank" /\ UNCHANGED <<yanked, trail, lost, updated, overlapped>>
    BY <1>4, <2>1 DEF ReceiveEmbedding
  <2> QED BY <2>1, <2>2, StartKeepsTrail
<1>5. CASE ReceiveRead(a)
  <2> DEFINE c == [op |-> "read"]
  <2>1. Start(a, c, "rows") /\ c.op # "yank" /\ UNCHANGED <<yanked, trail, lost, updated, overlapped>>
    BY <1>5 DEF ReceiveRead
  <2> QED BY <2>1, StartKeepsTrail
<1> QED BY <1>1, <1>2, <1>3, <1>4, <1>5

\* A step that leaves every request where it is.
LEMMA OthersKeepTrail ==
  ASSUME TokenInv, TrailInv, UNCHANGED <<pc, call, yankVars>>
  PROVE  TrailInv'
<1>1. UNCHANGED <<pc, call, yanked, trail, updated, lost, overlapped>>
  BY DEF yankVars
<1>2. \A b \in Actor : Quiet(b)
  BY <1>1 DEF Quiet
<1>3. updated' \subseteq Actor
  BY <1>1 DEF TrailInv, TrailType
<1>4. Alone'
  BY <1>1, AloneStays DEF TrailInv, Changer, Changing
<1>5. TrailType' /\ Told' /\ Accounted' /\ InStep'
  BY <1>1, <1>2, <1>3, QuietStays
<1> QED BY <1>4, <1>5 DEF TrailInv

\* A step of a handler.
LEMMA HandlerKeepsTrail ==
  ASSUME TokenInv, TrailInv, NEW a \in Actor, Handler(a)
  PROVE  TrailInv'
<1>1. CASE Update(a)
  BY <1>1, UpdateKeepsTrail
<1>2. CASE RecordAudit(a)
  <2>1. pc[a] = "audit" /\ Step(a, "done") /\ UNCHANGED <<yanked, updated, overlapped>>
    BY <1>2 DEF RecordAudit
  <2>2. CASE trail' = Append(trail, Entry(a)) /\ UNCHANGED lost
    BY <2>1, <2>2, EntryKeepsTrail
  <2>3. CASE lost' = lost \cup {call[a].pv} /\ UNCHANGED trail
    BY <2>1, <2>3, LossKeepsTrail
  <2> QED BY <1>2, <2>2, <2>3 DEF RecordAudit
<1>3. CASE DropRequest(a) /\ pc[a] = "audit"
  <2>1. /\ pc[a] = "audit" /\ Step(a, "dropped") /\ lost' = lost \cup {call[a].pv}
        /\ UNCHANGED <<yanked, trail, updated, overlapped>>
    BY <1>3 DEF DropRequest
  <2> QED BY <2>1, LossKeepsTrail
<1>4. CASE QuietHandler(a)
  BY <1>4, QuietHandlerKeeps
<1> QED BY <1>1, <1>2, <1>3, <1>4 DEF Handler, QuietHandler, Readers

LEMMA TrailStep ==
  ASSUME TokenInv, TrailInv, [Next]_vars
  PROVE  TrailInv'
<1>1. CASE UNCHANGED vars
  BY <1>1, OthersKeepTrail DEF vars, tokenVars
<1>2. CASE Publish
  BY <1>2, OthersKeepTrail DEF Publish, tokenVars
<1>3. CASE TokensNext /\ Elsewhere
  <2>1. ASSUME NEW t \in Expires, Expire(t) PROVE TrailInv'
    BY <1>3, <2>1, OthersKeepTrail DEF Expire, Elsewhere
  <2>2. ASSUME NEW a \in Actor, Command(a) \/ Authenticating(a) PROVE TrailInv'
    BY <1>3, <2>2, CommandKeepsTrail
  <2>3. ASSUME NEW a \in Actor,
               (\E t \in Token : StartCreate(a, t)) \/ (\E t \in Row : StartRevoke(a, Name[t]))
        PROVE  TrailInv'
    BY <1>3, <2>3, BeginningKeepsTrail
  <2> QED BY <1>3, <2>1, <2>2, <2>3 DEF TokensNext, Command, Authenticating
<1>4. ASSUME NEW a \in Actor,
             \/ \E t \in Token \cup {None}, open \in Open, pv \in Yankable, flag \in BOOLEAN :
                  ReceiveYank(a, t, open, pv, flag)
             \/ \E t \in Token \cup {None}, open \in Open, p \in Package : ReceiveEmbedding(a, t, open, p)
             \/ ReceiveRead(a)
      PROVE  TrailInv'
  BY <1>4, BeginningKeepsTrail
<1>5. ASSUME NEW a \in Actor, Handler(a) PROVE TrailInv'
  BY <1>5, HandlerKeepsTrail
<1> QED BY <1>1, <1>2, <1>3, <1>4, <1>5 DEF Next, Handler

\* The trail invariant of every run, on top of TokenInv.
THEOREM TrailInvariant == Spec => [](TokenInv /\ TrailInv)
<1>1. ASSUME Init PROVE TrailInv
  <2>1. /\ \A a \in Actor : pc[a] = "idle"
        /\ trail = <<>> /\ updated = {} /\ \A pv \in Package \X Version : yanked[pv] = FALSE
        /\ yanked \in [Package \X Version -> BOOLEAN]
    BY <1>1 DEF Init, TokensInit
  <2>2. TrailType /\ Told /\ Accounted /\ Alone
    BY <2>1 DEF TrailType, Told, Accounted, Alone, Changer, Changing
  <2>3. \A pv : LastFlag(pv) = FALSE
    BY <2>1 DEF LastFlag
  <2>4. InStep
    BY <2>1, <2>3, CatalogAssumption DEF InStep, Recording
  <2> QED BY <2>2, <2>4 DEF TrailInv
<1> QED
  BY <1>1, TokenInvariant, TrailStep, PTL DEF Spec

\* The trail tells how the flags came to be, whatever requests are dropped,
\* fail or overlap (yank.rs, audit.rs).
THEOREM TrailIsTrue == Spec => []TrailFollowsFlags
<1>1. ASSUME TokenInv, TrailInv PROVE TrailFollowsFlags
  <2>1. ASSUME NEW pv \in Yankable \ (lost \cup overlapped),
               \A a \in Actor : pc[a] = "audit" => call[a].pv # pv
        PROVE  yanked[pv] <=> LastFlag(pv)
    BY <1>1, <2>1 DEF TrailInv, InStep, Recording
  <2> QED
    BY <1>1, <2>1 DEF TrailInv, TrailType, Told, Accounted, TrailFollowsFlags
<1> QED
  BY <1>1, TrailInvariant, PTL
=============================================================================
