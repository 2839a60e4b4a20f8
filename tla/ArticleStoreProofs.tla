-------------------------- MODULE ArticleStoreProofs --------------------------
(***************************************************************************)
(* Proofs about ArticleStore, for every set of calls, candidates, feeds    *)
(* and keys and every size of the connection pool.                         *)
(***************************************************************************)
EXTENDS ArticleStore, FiniteSetTheorems, TLAPS

-------------------------------------------------------------------------------
(* The operators on one candidate. *)

\* The element at an index of a sequence is one of what the sequence is made of.
LEMMA ElementOfSeq ==
    ASSUME NEW S, NEW s \in Seq(S), NEW i \in DOMAIN s
    PROVE  s[i] \in S
OBVIOUS

\* A candidate that passes validateArticleWrite names nothing blank: its
\* identifiers, its retrieval time and its keys are those that the tables hold.
LEMMA ValidWriteTypes ==
    ASSUME NEW w \in Writes, ValidArticleWrite(w)
    PROVE  /\ w.article \in Articles /\ w.feed \in Feeds /\ w.hist \in Histories
           /\ w.at \in Times /\ w.body \in Bodies
           /\ \A i \in DOMAIN w.keys : <<w.feed, w.keys[i]>> \in ScopedKeys
           /\ ScopedKeysOf(w) \subseteq ScopedKeys
           /\ HistoryRowOf(w) \in HistoryRow
<1> DEFINE AnyKey == [type : KeyTypes \cup {"other"}, value : KeyValues \cup {Blank}]
<1>1. w \in ArticleWrite
  BY WritesAssumption
<1>2. /\ w.article \in Articles /\ w.feed \in Feeds /\ w.hist \in Histories
      /\ w.at \in Times /\ w.body \in Bodies
  BY <1>1 DEF ArticleWrite, ValidArticleWrite
<1>3. w.keys \in Seq(AnyKey)
  BY <1>1 DEF ArticleWrite
<1>4. \A i \in DOMAIN w.keys : w.keys[i] \in IdentityKeys
  <2> SUFFICES ASSUME NEW i \in DOMAIN w.keys PROVE w.keys[i] \in IdentityKeys
    OBVIOUS
  <2>1. w.keys[i] \in AnyKey
    BY <1>3, ElementOfSeq
  <2>2. ValidIdentityKey(w.keys[i])
    BY DEF ValidArticleWrite
  <2> QED
    BY <2>1, <2>2 DEF ValidIdentityKey, IdentityKeys
<1> QED
  BY <1>2, <1>4 DEF ScopedKeys, ScopedKeysOf, HistoryRowOf, HistoryRow

\* The upsert yields an article row, keeps the feed of a row that is there, and
\* widens its window of retrievals just enough to take in the candidate's.
LEMMA UpsertedRowFacts ==
    ASSUME NEW w \in Writes, ValidArticleWrite(w), NEW stored \in ArticleRow \cup {NoRow}
    PROVE  /\ UpsertedRow(w, stored) \in ArticleRow
           /\ UpsertedRow(w, stored) # NoRow
           /\ stored = NoRow => UpsertedRow(w, stored).feed = w.feed
           /\ stored # NoRow =>
                /\ UpsertedRow(w, stored).feed = stored.feed
                /\ UpsertedRow(w, stored).first <= stored.first
                /\ stored.last <= UpsertedRow(w, stored).last
<1>1. w.feed \in Feeds /\ w.at \in Times /\ w.body \in Bodies /\ w.at \in Nat
  BY ValidWriteTypes, TimesAssumption
<1>2. CASE stored = NoRow
  BY <1>1, <1>2, SentinelAssumption DEF UpsertedRow, ArticleRow
<1>3. CASE stored # NoRow
  <2>1. stored \in ArticleRow /\ stored.first \in Nat /\ stored.last \in Nat
    BY <1>3, TimesAssumption DEF ArticleRow
  <2>2. UpsertedRow(w, stored) = [feed |-> stored.feed, body |-> w.body,
                                  first |-> Least(stored.first, w.at),
                                  last |-> Greatest(stored.last, w.at)]
    BY <1>3, <2>1 DEF UpsertedRow, ArticleRow
  <2>3. /\ Least(stored.first, w.at) \in Times /\ Least(stored.first, w.at) <= stored.first
        /\ Greatest(stored.last, w.at) \in Times /\ stored.last <= Greatest(stored.last, w.at)
    BY <1>1, <2>1 DEF Least, Greatest, ArticleRow
  <2> QED
    BY <1>1, <1>3, <2>1, <2>2, <2>3, SentinelAssumption DEF ArticleRow
<1> QED
  BY <1>2, <1>3

-------------------------------------------------------------------------------
(* Types.  They rest on where a call can be in the life of its transaction *)
(* and on the count of the connections in use.                             *)

\* The client half and the server half of a call agree as far as they have to.
PhaseOK(c) ==
    /\ pc[c] \in {"validate", "begin"} => srv[c] = "none"
    /\ pc[c] \in Connected => srv[c] # "none"
    /\ pc[c] = "reply" => srv[c] # "open"
    /\ srv[c] = "committing" => pc[c] \in {"reply", "left"}
    /\ srv[c] = "committed" => pc[c] \in {"reply", "done", "left"}
    /\ pc[c] = "done" => srv[c] # "open"
    /\ pc[c] \notin {"validate", "done"} \/ srv[c] # "none" => ValidArticleWrite(input[c])
    /\ pc[c] \in {"validate", "begin", "article"} => cursor[c] = 1
    /\ pc[c] \in {"insertKey", "verifyKey"} => cursor[c] \in DOMAIN input[c].keys
    /\ srv[c] \notin {"open", "committing"} =>
          row[c] = NoRow /\ inserted[c] = {} /\ logged[c] = FALSE

Phases == \A c \in Calls : PhaseOK(c)

\* A connection is in the pool or with exactly one call.
Holders == {c \in Calls : pc[c] \in Connected}
PoolCount == free + Cardinality(Holders) = MaxConns

TypeInv == TypeOK /\ Phases /\ PoolCount

\* There are finitely many calls, so those that hold a connection can be counted.
LEMMA HoldersFinite == IsFiniteSet(Holders) /\ Cardinality(Holders) \in Nat
<1>1. Holders \subseteq Calls
  BY DEF Holders
<1> QED
  BY <1>1, CallsAssumption, FS_Subset, FS_CardinalityType

\* While a call holds a connection, the pool is not full.
LEMMA HolderTakesOne ==
    ASSUME TypeInv, NEW c \in Holders
    PROVE  free < MaxConns
<1>1. Cardinality(Holders) # 0
  BY HoldersFinite, FS_EmptySet
<1> QED
  BY <1>1, HoldersFinite, MaxConnsAssumption DEF TypeInv, PoolCount, TypeOK

\* How one call's step changes the count of connections in use.
LEMMA HoldersStep ==
    ASSUME TypeInv, NEW c \in Calls, pc' = [pc EXCEPT ![c] = pc'[c]]
    PROVE  /\ (pc[c] \in Connected <=> pc'[c] \in Connected) => Holders' = Holders
           /\ pc[c] \notin Connected /\ pc'[c] \in Connected =>
                Cardinality(Holders') = Cardinality(Holders) + 1
           /\ pc[c] \in Connected /\ pc'[c] \notin Connected =>
                Cardinality(Holders') = Cardinality(Holders) - 1
<1>1. \A d \in Calls \ {c} : pc'[d] = pc[d]
  BY DEF TypeInv, TypeOK
<1>2. (pc[c] \in Connected <=> pc'[c] \in Connected) => Holders' = Holders
  BY <1>1 DEF Holders
<1>3. pc[c] \notin Connected /\ pc'[c] \in Connected => Holders' = Holders \cup {c} /\ c \notin Holders
  BY <1>1 DEF Holders
<1>4. pc[c] \in Connected /\ pc'[c] \notin Connected => Holders' = Holders \ {c} /\ c \in Holders
  BY <1>1 DEF Holders
<1> QED
  BY <1>2, <1>3, <1>4, HoldersFinite, FS_AddElement, FS_RemoveElement

\* Before any call has begun, everything is typed and the pool is full.
LEMMA TypeInit == Init => TypeInv
<1> SUFFICES ASSUME Init PROVE TypeInv
  OBVIOUS
<1>1. TypeOK
  BY MaxConnsAssumption, FeedsAssumption DEF Init, TypeOK
<1>2. Phases
  BY DEF Init, Phases, PhaseOK, Connected, Statements
<1>3. Holders = {}
  BY DEF Init, Holders, Connected, Statements
<1> QED
  BY <1>1, <1>2, <1>3, FS_EmptySet, MaxConnsAssumption DEF Init, TypeInv, PoolCount

\* The input of a call whose transaction has begun, in the tables' terms.
LEMMA InputTypes ==
    ASSUME TypeInv, NEW c \in Calls, ValidArticleWrite(input[c])
    PROVE  /\ input[c] \in Writes
           /\ input[c].article \in Articles /\ input[c].feed \in Feeds /\ input[c].hist \in Histories
           /\ \A i \in DOMAIN input[c].keys : <<input[c].feed, input[c].keys[i]>> \in ScopedKeys
           /\ HistoryRowOf(input[c]) \in HistoryRow
           /\ \A stored \in ArticleRow \cup {NoRow} : UpsertedRow(input[c], stored) \in ArticleRow
<1>1. input[c] \in Writes
  BY DEF TypeInv, TypeOK
<1> QED
  BY <1>1, ValidWriteTypes, UpsertedRowFacts

\* A step of c changes nothing of another call.
Local(c) ==
    /\ input' = input
    /\ pc' = [pc EXCEPT ![c] = pc'[c]]
    /\ cursor' = [cursor EXCEPT ![c] = cursor'[c]]
    /\ outcome' = [outcome EXCEPT ![c] = outcome'[c]]
    /\ srv' = [srv EXCEPT ![c] = srv'[c]]
    /\ row' = [row EXCEPT ![c] = row'[c]]
    /\ inserted' = [inserted EXCEPT ![c] = inserted'[c]]
    /\ logged' = [logged EXCEPT ![c] = logged'[c]]

StepOf(c) == ClientStep(c) \/ ServerCommit(c) \/ ServerAbort(c) \/ GiveUp(c)

\* Each action of UpsertArticle touches the variables of its own call only.
LEMMA StepsAreLocal ==
    ASSUME TypeOK, NEW c \in Calls, StepOf(c)
    PROVE  Local(c)
<1> USE DEF Local, TypeOK
<1>1. CASE Validate(c)
  BY <1>1 DEF Validate, ReturnError, overlay
<1>2. CASE Begin(c)
  BY <1>2 DEF Begin, overlay
<1>3. CASE UpsertArticleRow(c)
  BY <1>3 DEF UpsertArticleRow, ReturnError, EndTransaction, overlay
<1>4. CASE InsertKey(c)
  BY <1>4 DEF InsertKey, overlay
<1>5. CASE VerifyKey(c)
  BY <1>5 DEF VerifyKey, ReturnError, overlay
<1>6. CASE InsertHistory(c)
  BY <1>6 DEF InsertHistory, overlay
<1>7. CASE VerifyHistory(c)
  BY <1>7 DEF VerifyHistory, ReturnError, overlay
<1>8. CASE SendCommit(c)
  BY <1>8 DEF SendCommit, overlay
<1>9. CASE CommitReturns(c)
  BY <1>9 DEF CommitReturns, ReturnError, overlay
<1>10. CASE StatementFails(c)
  BY <1>10 DEF StatementFails, ReturnError, overlay
<1>11. CASE Rollback(c)
  BY <1>11 DEF Rollback, EndTransaction, overlay
<1>12. CASE ServerCommit(c)
  BY <1>12 DEF ServerCommit, EndTransaction, overlay
<1>13. CASE ServerAbort(c)
  BY <1>13 DEF ServerAbort, EndTransaction, overlay
<1>14. CASE GiveUp(c)
  BY <1>14 DEF GiveUp, ReturnError, overlay
<1> QED
  BY <1>1, <1>2, <1>3, <1>4, <1>5, <1>6, <1>7, <1>8, <1>9, <1>10, <1>11, <1>12, <1>13, <1>14 DEF StepOf, ClientStep
CallTypes(c) ==
    /\ pc[c] \in {"validate", "begin", "done", "left"} \cup Connected
    /\ cursor[c] \in Nat \ {0}
    /\ outcome[c] \in {"running", "ok", "rejected", "constraint", "invalid", "failed"}
    /\ srv[c] \in {"none", "open", "committing", "committed", "aborted"}
    /\ row[c] \in ArticleRow \cup {NoRow}
    /\ inserted[c] \in SUBSET ScopedKeys
    /\ logged[c] \in BOOLEAN

TableTypes ==
    /\ articles \in [Articles -> ArticleRow \cup {NoRow}]
    /\ keyOwner \in [ScopedKeys -> Articles \cup {None}]
    /\ history \in [Histories -> HistoryRow \cup {None}]
    /\ storedFeeds \subseteq Feeds

\* A local step has only one call, the tables and the pool to account for.
LEMMA LocalFrame ==
    ASSUME TypeInv, NEW c \in Calls, Local(c)
    PROVE  /\ CallTypes(c)' /\ TableTypes' /\ (free \in 0 .. MaxConns)' => TypeOK'
           /\ PhaseOK(c)' => Phases'
<1> USE DEF TypeInv
<1>1. \A d \in Calls \ {c} :
         /\ input'[d] = input[d] /\ pc'[d] = pc[d] /\ cursor'[d] = cursor[d]
         /\ srv'[d] = srv[d] /\ row'[d] = row[d] /\ inserted'[d] = inserted[d]
         /\ logged'[d] = logged[d]
  BY DEF TypeOK, Local
<1>2. PhaseOK(c)' => Phases'
  BY <1>1 DEF Phases, PhaseOK
<1>3. CallTypes(c)' /\ TableTypes' /\ (free \in 0 .. MaxConns)' => TypeOK'
  BY DEF TypeOK, CallTypes, TableTypes, Local
<1> QED
  BY <1>2, <1>3

\* The connections: a call takes one as it begins, and gives it back as it returns.
LEMMA PoolStep ==
    ASSUME TypeInv, NEW c \in Calls, Local(c),
           \/ free' = free /\ (pc[c] \in Connected <=> pc'[c] \in Connected)
           \/ /\ free' = free - 1 /\ free > 0
              /\ pc[c] \notin Connected /\ pc'[c] \in Connected
           \/ /\ free' = free + 1
              /\ pc[c] \in Connected /\ pc'[c] \notin Connected
    PROVE  (free \in 0 .. MaxConns)' /\ PoolCount'
<1>1. pc' = [pc EXCEPT ![c] = pc'[c]]
  BY DEF Local
<1>2. PoolCount'
  BY <1>1, HoldersStep, HoldersFinite, MaxConnsAssumption DEF TypeInv, TypeOK, PoolCount
<1>3. pc[c] \in Connected => free < MaxConns
  BY HolderTakesOne DEF Holders
<1> QED
  BY <1>2, <1>3, MaxConnsAssumption DEF TypeInv, TypeOK

\* The three ways in which the article upsert ends, at the call itself.
LEMMA UpsertArticleRowCases ==
    ASSUME TypeOK, NEW c \in Calls, UpsertArticleRow(c)
    PROVE  LET new == UpsertedRow(input[c], articles[input[c].article]) IN
           /\ pc[c] = "article" /\ srv[c] = "open" /\ ~Blocked(c)
           /\ cursor' = cursor
           /\ \/ /\ ViolatesConstraint(input[c], articles[input[c].article], storedFeeds)
                 /\ pc'[c] = "rollback" /\ outcome'[c] \in {"constraint", outcome[c]}
                 /\ srv'[c] = "aborted"
                 /\ row'[c] = NoRow /\ inserted'[c] = {} /\ logged'[c] = FALSE
              \/ /\ ~ViolatesConstraint(input[c], articles[input[c].article], storedFeeds)
                 /\ new.feed # input[c].feed
                 /\ pc'[c] = "rollback" /\ outcome'[c] \in {"rejected", outcome[c]}
                 /\ row'[c] = new
                 /\ srv'[c] = srv[c] /\ inserted'[c] = inserted[c] /\ logged'[c] = logged[c]
              \/ /\ ~ViolatesConstraint(input[c], articles[input[c].article], storedFeeds)
                 /\ new.feed = input[c].feed
                 /\ pc'[c] = AtKey(c, 1) /\ outcome'[c] = outcome[c]
                 /\ row'[c] = new
                 /\ srv'[c] = srv[c] /\ inserted'[c] = inserted[c] /\ logged'[c] = logged[c]
<1> DEFINE w == input[c]
           stored == articles[w.article]
<1>1. CASE ViolatesConstraint(w, stored, storedFeeds)
  BY <1>1 DEF TypeOK, UpsertArticleRow, ReturnError, EndTransaction, Executes
<1>2. CASE ~ViolatesConstraint(w, stored, storedFeeds) /\ UpsertedRow(w, stored).feed # w.feed
  BY <1>2 DEF TypeOK, UpsertArticleRow, ReturnError, Executes
<1>3. CASE ~ViolatesConstraint(w, stored, storedFeeds) /\ UpsertedRow(w, stored).feed = w.feed
  BY <1>3 DEF TypeOK, UpsertArticleRow, Executes
<1> QED
  BY <1>1, <1>2, <1>3

\* One step of one call keeps the types, action by action.
LEMMA TypeStep ==
    ASSUME TypeInv, [Next]_vars
    PROVE  TypeInv'
<1>1. CASE UNCHANGED vars
  <2>1. TypeOK' /\ Phases'
    BY <1>1 DEF TypeInv, TypeOK, Phases, PhaseOK, vars
  <2>2. PoolCount'
    BY <1>1 DEF TypeInv, PoolCount, Holders, vars
  <2> QED
    BY <2>1, <2>2 DEF TypeInv
<1>2. ASSUME NEW c \in Calls, StepOf(c)
      PROVE  TypeInv'
  <2>1. Local(c)
    BY <1>2, StepsAreLocal DEF TypeInv
  <2>2. CallTypes(c) /\ TableTypes /\ PhaseOK(c) /\ input[c] \in Writes
    BY DEF TypeInv, TypeOK, CallTypes, TableTypes, Phases
  <2>3. SUFFICES CallTypes(c)' /\ TableTypes' /\ PhaseOK(c)' /\ (free \in 0 .. MaxConns)' /\ PoolCount'
    BY <2>1, LocalFrame DEF TypeInv
  <2>4. CASE Validate(c)
    <3> USE DEF TypeOK, Connected, Statements
    <3>1. CallTypes(c)'
      BY <2>2, <2>4 DEF TypeInv, CallTypes, PhaseOK, overlay, Validate, ReturnError
    <3>2. TableTypes'
      BY <2>2, <2>4 DEF TypeInv, TableTypes, PhaseOK, tables, Validate, ReturnError
    <3>3. PhaseOK(c)'
      BY <2>2, <2>4 DEF TypeInv, PhaseOK, CallTypes, overlay, Validate, ReturnError
    <3> QED
      BY <2>1, <2>4, <3>1, <3>2, <3>3, PoolStep DEF TypeInv, Validate, ReturnError
  <2>5. CASE Begin(c)
    <3> USE DEF TypeOK, Connected, Statements
    <3>1. CallTypes(c)'
      BY <2>2, <2>5 DEF TypeInv, CallTypes, PhaseOK, overlay, Begin
    <3>2. TableTypes'
      BY <2>2, <2>5 DEF TypeInv, TableTypes, PhaseOK, tables, Begin
    <3>3. PhaseOK(c)'
      BY <2>2, <2>5 DEF TypeInv, PhaseOK, CallTypes, overlay, Begin
    <3> QED
      BY <2>1, <2>5, <3>1, <3>2, <3>3, PoolStep DEF TypeInv, Begin
  <2>6. CASE UpsertArticleRow(c)
    <3> USE DEF TypeOK, Connected, Statements
    <3> DEFINE new == UpsertedRow(input[c], articles[input[c].article])
    <3>0. /\ pc[c] = "article" /\ srv[c] = "open" /\ cursor' = cursor
          /\ row'[c] \in {new, NoRow}
          /\ inserted'[c] \in {inserted[c], {}}
          /\ logged'[c] \in {logged[c], FALSE}
          /\ outcome'[c] \in {outcome[c], "rejected", "constraint"}
          /\ \/ /\ pc'[c] = "rollback" /\ srv'[c] = "aborted"
                /\ row'[c] = NoRow /\ inserted'[c] = {} /\ logged'[c] = FALSE
             \/ pc'[c] \in {"rollback", AtKey(c, 1)} /\ srv'[c] = "open"
      BY <2>6, UpsertArticleRowCases DEF TypeInv
    <3>a. ValidArticleWrite(input[c]) /\ cursor'[c] = cursor[c] /\ input' = input
      BY <2>1, <2>2, <3>0 DEF PhaseOK, Local
    <3>b. new \in ArticleRow
      BY <2>2, <3>a, InputTypes DEF TypeInv
    <3> HIDE DEF new
    <3>1. CallTypes(c)'
      BY <2>2, <3>0, <3>b DEF CallTypes, AtKey
    <3>2. TableTypes'
      BY <2>2, <2>6 DEF TableTypes, tables, UpsertArticleRow
    <3>3. PhaseOK(c)'
      BY <3>0, <3>a, <2>2 DEF PhaseOK, AtKey
    <3> QED
      BY <2>1, <2>6, <3>0, <3>1, <3>2, <3>3, PoolStep DEF AtKey, UpsertArticleRow
  <2>7. CASE InsertKey(c)
    <3> USE DEF TypeOK, Connected, Statements
    <3>1. CallTypes(c)'
      BY <2>2, <2>7, InputTypes DEF TypeInv, CallTypes, PhaseOK, overlay, InsertKey, Executes, CurrentKey
    <3>2. TableTypes'
      BY <2>2, <2>7, InputTypes DEF TypeInv, TableTypes, PhaseOK, tables, InsertKey, Executes, CurrentKey
    <3>3. PhaseOK(c)'
      BY <2>2, <2>7 DEF TypeInv, PhaseOK, CallTypes, overlay, InsertKey, Executes, CurrentKey
    <3> QED
      BY <2>1, <2>7, <3>1, <3>2, <3>3, PoolStep DEF TypeInv, InsertKey, Executes, CurrentKey
  <2>8. CASE VerifyKey(c)
    <3> USE DEF TypeOK, Connected, Statements
    <3>1. CallTypes(c)'
      BY <2>2, <2>8 DEF TypeInv, CallTypes, PhaseOK, overlay, VerifyKey, ReturnError, Executes, AtKey
    <3>2. TableTypes'
      BY <2>2, <2>8 DEF TypeInv, TableTypes, PhaseOK, tables, VerifyKey, ReturnError, Executes, AtKey
    <3>3. PhaseOK(c)'
      BY <2>2, <2>8 DEF TypeInv, PhaseOK, CallTypes, overlay, VerifyKey, ReturnError, Executes, AtKey
    <3> QED
      BY <2>1, <2>8, <3>1, <3>2, <3>3, PoolStep DEF TypeInv, VerifyKey, ReturnError, Executes, AtKey
  <2>9. CASE InsertHistory(c)
    <3> USE DEF TypeOK, Connected, Statements
    <3>1. CallTypes(c)'
      BY <2>2, <2>9, InputTypes DEF TypeInv, CallTypes, PhaseOK, overlay, InsertHistory, Executes
    <3>2. TableTypes'
      BY <2>2, <2>9, InputTypes DEF TypeInv, TableTypes, PhaseOK, tables, InsertHistory, Executes
    <3>3. PhaseOK(c)'
      BY <2>2, <2>9 DEF TypeInv, PhaseOK, CallTypes, overlay, InsertHistory, Executes
    <3> QED
      BY <2>1, <2>9, <3>1, <3>2, <3>3, PoolStep DEF TypeInv, InsertHistory, Executes
  <2>10. CASE VerifyHistory(c)
    <3> USE DEF TypeOK, Connected, Statements
    <3>1. CallTypes(c)'
      BY <2>2, <2>10 DEF TypeInv, CallTypes, PhaseOK, overlay, VerifyHistory, ReturnError, Executes
    <3>2. TableTypes'
      BY <2>2, <2>10 DEF TypeInv, TableTypes, PhaseOK, tables, VerifyHistory, ReturnError, Executes
    <3>3. PhaseOK(c)'
      BY <2>2, <2>10 DEF TypeInv, PhaseOK, CallTypes, overlay, VerifyHistory, ReturnError, Executes
    <3> QED
      BY <2>1, <2>10, <3>1, <3>2, <3>3, PoolStep DEF TypeInv, VerifyHistory, ReturnError, Executes
  <2>11. CASE SendCommit(c)
    <3> USE DEF TypeOK, Connected, Statements
    <3>1. CallTypes(c)'
      BY <2>2, <2>11 DEF TypeInv, CallTypes, PhaseOK, overlay, SendCommit, Executes
    <3>2. TableTypes'
      BY <2>2, <2>11 DEF TypeInv, TableTypes, PhaseOK, tables, SendCommit, Executes
    <3>3. PhaseOK(c)'
      BY <2>2, <2>11 DEF TypeInv, PhaseOK, CallTypes, overlay, SendCommit, Executes
    <3> QED
      BY <2>1, <2>11, <3>1, <3>2, <3>3, PoolStep DEF TypeInv, SendCommit, Executes
  <2>12. CASE CommitReturns(c)
    <3> USE DEF TypeOK, Connected, Statements
    <3>1. CallTypes(c)'
      BY <2>2, <2>12 DEF TypeInv, CallTypes, PhaseOK, overlay, CommitReturns, ReturnError
    <3>2. TableTypes'
      BY <2>2, <2>12 DEF TypeInv, TableTypes, PhaseOK, tables, CommitReturns, ReturnError
    <3>3. PhaseOK(c)'
      BY <2>2, <2>12 DEF TypeInv, PhaseOK, CallTypes, overlay, CommitReturns, ReturnError
    <3> QED
      BY <2>1, <2>12, <3>1, <3>2, <3>3, PoolStep DEF TypeInv, CommitReturns, ReturnError
  <2>13. CASE StatementFails(c)
    <3> USE DEF TypeOK, Connected, Statements
    <3>1. CallTypes(c)'
      BY <2>2, <2>13 DEF TypeInv, CallTypes, PhaseOK, overlay, StatementFails, ReturnError
    <3>2. TableTypes'
      BY <2>2, <2>13 DEF TypeInv, TableTypes, PhaseOK, tables, StatementFails, ReturnError
    <3>3. PhaseOK(c)'
      BY <2>2, <2>13 DEF TypeInv, PhaseOK, CallTypes, overlay, StatementFails, ReturnError
    <3> QED
      BY <2>1, <2>13, <3>1, <3>2, <3>3, PoolStep DEF TypeInv, StatementFails, ReturnError
  <2>14. CASE Rollback(c)
    <3> USE DEF TypeOK, Connected, Statements
    <3>1. CallTypes(c)'
      BY <2>2, <2>14 DEF TypeInv, CallTypes, PhaseOK, overlay, Rollback, EndTransaction
    <3>2. TableTypes'
      BY <2>2, <2>14 DEF TypeInv, TableTypes, PhaseOK, tables, Rollback, EndTransaction
    <3>3. PhaseOK(c)'
      BY <2>2, <2>14 DEF TypeInv, PhaseOK, CallTypes, overlay, Rollback, EndTransaction
    <3> QED
      BY <2>1, <2>14, <3>1, <3>2, <3>3, PoolStep DEF TypeInv, Rollback, EndTransaction
  <2>15. CASE ServerCommit(c)
    <3> USE DEF TypeOK, Connected, Statements
    <3>1. CallTypes(c)'
      BY <2>2, <2>15, InputTypes DEF TypeInv, CallTypes, PhaseOK, overlay, ServerCommit, EndTransaction
    <3>2. TableTypes'
      BY <2>2, <2>15, InputTypes DEF TypeInv, TableTypes, PhaseOK, tables, ServerCommit, EndTransaction
    <3>3. PhaseOK(c)'
      BY <2>2, <2>15 DEF TypeInv, PhaseOK, CallTypes, overlay, ServerCommit, EndTransaction
    <3> QED
      BY <2>1, <2>15, <3>1, <3>2, <3>3, PoolStep DEF TypeInv, ServerCommit, EndTransaction
  <2>16. CASE ServerAbort(c)
    <3> USE DEF TypeOK, Connected, Statements
    <3>1. CallTypes(c)'
      BY <2>2, <2>16 DEF TypeInv, CallTypes, PhaseOK, overlay, ServerAbort, EndTransaction
    <3>2. TableTypes'
      BY <2>2, <2>16 DEF TypeInv, TableTypes, PhaseOK, tables, ServerAbort, EndTransaction
    <3>3. PhaseOK(c)'
      BY <2>2, <2>16 DEF TypeInv, PhaseOK, CallTypes, overlay, ServerAbort, EndTransaction
    <3> QED
      BY <2>1, <2>16, <3>1, <3>2, <3>3, PoolStep DEF TypeInv, ServerAbort, EndTransaction
  <2>17. CASE GiveUp(c)
    <3> USE DEF TypeOK, Connected, Statements
    <3>1. CallTypes(c)'
      BY <2>2, <2>17 DEF TypeInv, CallTypes, PhaseOK, overlay, GiveUp, ReturnError
    <3>2. TableTypes'
      BY <2>2, <2>17 DEF TypeInv, TableTypes, PhaseOK, tables, GiveUp, ReturnError
    <3>3. PhaseOK(c)'
      BY <2>2, <2>17 DEF TypeInv, PhaseOK, CallTypes, overlay, GiveUp, ReturnError
    <3> QED
      BY <2>1, <2>17, <3>1, <3>2, <3>3, PoolStep DEF TypeInv, GiveUp, ReturnError
  <2> QED
    BY <1>2, <2>4, <2>5, <2>6, <2>7, <2>8, <2>9, <2>10, <2>11, <2>12, <2>13, <2>14, <2>15, <2>16, <2>17 DEF StepOf, ClientStep
<1>3. ASSUME NEW f \in Feeds, AddFeed(f)
      PROVE  TypeInv'
  <2>1. TypeOK'
    BY <1>3 DEF TypeInv, TypeOK, AddFeed, bindings, overlay
  <2>2. Phases' /\ PoolCount'
    BY <1>3 DEF TypeInv, Phases, PhaseOK, PoolCount, Holders, AddFeed, bindings, overlay
  <2> QED
    BY <2>1, <2>2 DEF TypeInv
<1> QED
  BY <1>1, <1>2, <1>3 DEF Next, StepOf

\* UpsertArticle keeps its state typed, and each of its ways out gives back the
\* connection that BeginTx took, once.
THEOREM TypeCorrect == Spec => []TypeOK
<1>1. Spec => []TypeInv
  BY TypeInit, TypeStep, PTL DEF Spec
<1>2. TypeInv => TypeOK
  BY DEF TypeInv
<1> QED
  BY <1>1, <1>2, PTL

-------------------------------------------------------------------------------
(* The statements of a transaction.  What it has written is still what it  *)
(* would write: its locks keep the committed rows under it as they were.   *)

\* The transaction may commit, or is on its way there: its article row stands.
Bound(c) ==
    \/ srv[c] = "committing"
    \/ /\ srv[c] = "open"
       /\ pc[c] \in {"insertKey", "verifyKey", "insertHistory", "verifyHistory", "commit"}
KeysDone(c) ==
    \/ srv[c] = "committing"
    \/ srv[c] = "open" /\ pc[c] \in {"insertHistory", "verifyHistory", "commit"}
HistoryDone(c) ==
    \/ srv[c] = "committing"
    \/ srv[c] = "open" /\ pc[c] = "commit"

RowHolds(c) ==
    /\ row[c] # NoRow =>
          /\ row[c] = UpsertedRow(input[c], articles[input[c].article])
          /\ ~ViolatesConstraint(input[c], articles[input[c].article], storedFeeds)
    /\ Bound(c) => row[c] # NoRow /\ row[c].feed = input[c].feed

KeysHold(c) ==
    /\ \A k \in inserted[c] : k \in ScopedKeysOf(input[c]) /\ keyOwner[k] = None
    /\ srv[c] = "open" /\ pc[c] \in {"insertKey", "verifyKey"} =>
          \A i \in DOMAIN input[c].keys : i < cursor[c] =>
              KeySeen(c, <<input[c].feed, input[c].keys[i]>>) = input[c].article
    /\ srv[c] = "open" /\ pc[c] = "verifyKey" => KeySeen(c, CurrentKey(c)) # None
    /\ KeysDone(c) => \A k \in ScopedKeysOf(input[c]) : KeySeen(c, k) = input[c].article

HistoryHolds(c) ==
    /\ logged[c] => history[input[c].hist] = None
    /\ srv[c] = "open" /\ pc[c] = "verifyHistory" => HistorySeen(c) # None
    /\ HistoryDone(c) => /\ HistorySeen(c) # None
                        /\ HistorySeen(c).article = input[c].article
                        /\ HistorySeen(c).feed = input[c].feed

OutcomeHolds(c) ==
    /\ outcome[c] = "running" <=> pc[c] \notin {"rollback", "done", "left"}
    /\ srv[c] = "committing" /\ pc[c] = "left" => outcome[c] = "failed"

StepInv ==
    /\ TypeInv
    /\ LocksAreExclusive
    /\ \A c \in Calls : RowHolds(c) /\ KeysHold(c) /\ HistoryHolds(c) /\ OutcomeHolds(c)

CallHolds(c) == RowHolds(c) /\ KeysHold(c) /\ HistoryHolds(c) /\ OutcomeHolds(c)

\* Before any call has begun, no call holds anything.
LEMMA StepInit == Init => StepInv
<1> SUFFICES ASSUME Init PROVE StepInv
  OBVIOUS
<1>1. LocksAreExclusive
  BY DEF Init, LocksAreExclusive
<1>2. \A c \in Calls : RowHolds(c) /\ KeysHold(c) /\ HistoryHolds(c) /\ OutcomeHolds(c)
  BY DEF Init, RowHolds, KeysHold, HistoryHolds, OutcomeHolds, Bound, KeysDone, HistoryDone
<1> QED
  BY <1>1, <1>2, TypeInit DEF StepInv

\* What a step of c leaves alone at another call.
LEMMA LocalValues ==
    ASSUME TypeOK, NEW c \in Calls, Local(c), NEW d \in Calls, d # c
    PROVE  /\ input'[d] = input[d] /\ pc'[d] = pc[d] /\ cursor'[d] = cursor[d]
           /\ outcome'[d] = outcome[d] /\ srv'[d] = srv[d]
           /\ row'[d] = row[d] /\ inserted'[d] = inserted[d] /\ logged'[d] = logged[d]
BY DEF TypeOK, Local

\* While the tables stay as they are, so does what the other calls rely on.
LEMMA OthersHold ==
    ASSUME StepInv, NEW c \in Calls, Local(c), UNCHANGED tables,
           NEW d \in Calls, d # c
    PROVE  CallHolds(d)'
<1> USE LocalValues DEF tables
<1>1. TypeOK /\ CallHolds(d) /\ input' = input
  BY DEF StepInv, TypeInv, CallHolds, Local
<1>2. RowHolds(d)'
  BY <1>1 DEF CallHolds, RowHolds, Bound
<1>3. KeysHold(d)'
  BY <1>1 DEF CallHolds, KeysHold, KeysDone, KeySeen, CurrentKey
<1>4. HistoryHolds(d)'
  BY <1>1 DEF CallHolds, HistoryHolds, HistoryDone, HistorySeen
<1>5. OutcomeHolds(d)'
  BY <1>1 DEF CallHolds, OutcomeHolds
<1> QED
  BY <1>2, <1>3, <1>4, <1>5 DEF CallHolds

\* A call gains only what no other call holds.
LEMMA LocksStep ==
    ASSUME StepInv, NEW c \in Calls, Local(c),
           row'[c] # NoRow => \/ row[c] # NoRow
                             \/ \A d \in Calls \ {c} : row[d] # NoRow =>
                                    input[d].article # input[c].article,
           \A k \in inserted'[c] : \/ k \in inserted[c]
                                   \/ \A d \in Calls \ {c} : k \notin inserted[d],
           logged'[c] => \/ logged[c]
                         \/ \A d \in Calls \ {c} : logged[d] => input[d].hist # input[c].hist
    PROVE  LocksAreExclusive'
<1>1. \A d \in Calls \ {c} : /\ row'[d] = row[d] /\ inserted'[d] = inserted[d]
                             /\ logged'[d] = logged[d]
  BY LocalValues DEF StepInv, TypeInv
<1>2. input' = input
  BY DEF Local
<1>3. LocksAreExclusive
  BY DEF StepInv
<1> SUFFICES ASSUME NEW x \in Calls, NEW y \in Calls, x # y
             PROVE  /\ row'[x] # NoRow /\ row'[y] # NoRow => input[x].article # input[y].article
                    /\ inserted'[x] \cap inserted'[y] = {}
                    /\ logged'[x] /\ logged'[y] => input[x].hist # input[y].hist
  BY <1>2 DEF LocksAreExclusive
<1>4. CASE x # c /\ y # c
  BY <1>1, <1>3, <1>4 DEF LocksAreExclusive
<1>5. CASE x = c
  BY <1>1, <1>3, <1>5 DEF LocksAreExclusive
<1>6. CASE y = c
  BY <1>1, <1>3, <1>6 DEF LocksAreExclusive
<1> QED
  BY <1>4, <1>5, <1>6

\* A call that gains nothing keeps the locks exclusive.
LEMMA LocksKept ==
    ASSUME StepInv, NEW c \in Calls, Local(c), row'[c] \in {row[c], NoRow},
           inserted'[c] \in {inserted[c], {}}, logged'[c] \in {logged[c], FALSE}
    PROVE  LocksAreExclusive'
BY LocksStep

\* A commit changes committed rows only where no other transaction has a lock.
LEMMA CommitHolds ==
    ASSUME StepInv, NEW c \in Calls, ServerCommit(c)
    PROVE  StepInv'
<1> DEFINE a == input[c].article
<1>1. Local(c) /\ TypeInv'
  BY StepsAreLocal, TypeStep DEF StepInv, TypeInv, StepOf, Next
<1>2. /\ srv[c] = "committing" /\ Bound(c) /\ CallHolds(c) /\ TypeOK /\ PhaseOK(c)
      /\ LocksAreExclusive
  BY DEF ServerCommit, Bound, StepInv, TypeInv, Phases, CallHolds
<1>3. a \in Articles /\ input[c].hist \in Histories /\ ScopedKeysOf(input[c]) \subseteq ScopedKeys
  BY <1>2, ValidWriteTypes DEF PhaseOK, TypeOK
<1>4. /\ articles' = [articles EXCEPT ![a] = row[c]]
      /\ keyOwner' = [k \in ScopedKeys |-> IF k \in inserted[c] THEN a ELSE keyOwner[k]]
      /\ history' = [history EXCEPT ![input[c].hist] =
                       IF logged[c] THEN HistoryRowOf(input[c]) ELSE @]
      /\ UNCHANGED <<input, storedFeeds, pc, cursor, outcome>>
      /\ srv'[c] = "committed" /\ row'[c] = NoRow /\ inserted'[c] = {} /\ logged'[c] = FALSE
  BY <1>2 DEF ServerCommit, EndTransaction, TypeOK
<1>5. CallHolds(c)'
  BY <1>2, <1>4 DEF CallHolds, RowHolds, KeysHold, HistoryHolds, OutcomeHolds,
                    Bound, KeysDone, HistoryDone
<1>6. ASSUME NEW d \in Calls, d # c
      PROVE  CallHolds(d)'
  <2>1. /\ input' = input /\ pc'[d] = pc[d] /\ cursor'[d] = cursor[d] /\ outcome'[d] = outcome[d]
        /\ srv'[d] = srv[d] /\ row'[d] = row[d] /\ inserted'[d] = inserted[d]
        /\ logged'[d] = logged[d]
    BY <1>1, <1>2, <1>4, <1>6, LocalValues
  <2>2. CallHolds(d) /\ PhaseOK(d)
    BY DEF StepInv, TypeInv, Phases, CallHolds
  <2>3. row[d] # NoRow => articles'[input[d].article] = articles[input[d].article]
    <3>1. row[c] # NoRow
      BY <1>2 DEF CallHolds, RowHolds
    <3> SUFFICES ASSUME row[d] # NoRow PROVE articles'[input[d].article] = articles[input[d].article]
      OBVIOUS
    <3>2. input[d].article # a
      BY <1>2, <1>6, <3>1 DEF LocksAreExclusive
    <3>3. input[d].article \in Articles
      BY <2>2, <1>2, ValidWriteTypes DEF PhaseOK, TypeOK
    <3> QED
      BY <1>2, <1>4, <3>2, <3>3 DEF TypeOK
  <2>4. RowHolds(d)'
    BY <1>4, <2>1, <2>2, <2>3 DEF CallHolds, RowHolds, Bound
  <2>5. \A k \in ScopedKeys : keyOwner[k] # None => keyOwner'[k] = keyOwner[k]
    BY <1>2, <1>4 DEF CallHolds, KeysHold
  <2>6. \A k \in inserted[d] : keyOwner'[k] = keyOwner[k]
    BY <1>2, <1>4, <1>6 DEF LocksAreExclusive, TypeOK
  <2>7. \A k \in ScopedKeys : KeySeen(d, k) # None => KeySeen(d, k)' = KeySeen(d, k)
    BY <2>1, <2>5 DEF KeySeen
  <2>8. KeysHold(d)'
    <3>1. ValidArticleWrite(input[d]) => /\ input[d].article # None
             /\ ScopedKeysOf(input[d]) \subseteq ScopedKeys
             /\ \A i \in DOMAIN input[d].keys : <<input[d].feed, input[d].keys[i]>> \in ScopedKeys
      BY <1>2, ValidWriteTypes, SentinelAssumption DEF TypeOK
    <3>2. srv[d] # "none" => ValidArticleWrite(input[d])
      BY <2>2 DEF PhaseOK
    <3>3. \A k \in inserted[d] : k \in ScopedKeysOf(input[d]) /\ keyOwner'[k] = None
      BY <2>2, <2>6 DEF CallHolds, KeysHold
    <3>4. (srv[d] = "open" /\ pc[d] \in {"insertKey", "verifyKey"}) =>
             \A i \in DOMAIN input[d].keys : i < cursor[d] =>
               KeySeen(d, <<input[d].feed, input[d].keys[i]>>)' = input[d].article
      BY <2>1, <2>2, <2>7, <3>1, <3>2 DEF CallHolds, KeysHold
    <3>5. srv[d] = "open" /\ pc[d] = "verifyKey" => KeySeen(d, CurrentKey(d))' # None
      BY <2>1, <2>2, <2>7, <3>1, <3>2 DEF CallHolds, KeysHold, PhaseOK, CurrentKey
    <3>6. KeysDone(d) => \A k \in ScopedKeysOf(input[d]) : KeySeen(d, k)' = input[d].article
      BY <2>1, <2>2, <2>7, <3>1, <3>2 DEF CallHolds, KeysHold, KeysDone
    <3> QED
      BY <2>1, <3>3, <3>4, <3>5, <3>6 DEF KeysHold, KeysDone
  <2>9. HistoryHolds(d)'
    <3>1. \A h \in Histories : history[h] # None => history'[h] = history[h]
      BY <1>2, <1>3, <1>4 DEF CallHolds, HistoryHolds, TypeOK
    <3>2. logged[d] => history'[input[d].hist] = history[input[d].hist]
      BY <1>2, <1>4, <1>6 DEF LocksAreExclusive, TypeOK
    <3>3. srv[d] # "none" => input[d].hist \in Histories
      BY <2>2, <1>2, ValidWriteTypes DEF PhaseOK, TypeOK
    <3>4. srv[d] # "none" /\ HistorySeen(d) # None => HistorySeen(d)' = HistorySeen(d)
      BY <2>1, <3>1, <3>3 DEF HistorySeen
    <3> QED
      BY <2>1, <2>2, <3>2, <3>4 DEF CallHolds, HistoryHolds, HistoryDone
  <2>10. OutcomeHolds(d)'
    BY <2>1, <2>2 DEF CallHolds, OutcomeHolds
  <2> QED
    BY <2>4, <2>8, <2>9, <2>10 DEF CallHolds
<1>7. LocksAreExclusive'
  BY <1>1, <1>4, LocksKept
<1> QED
  BY <1>1, <1>5, <1>6, <1>7 DEF StepInv, CallHolds

\* The values at c that a step of c other than a commit starts from.
LEMMA OwnValues ==
    ASSUME StepInv, NEW c \in Calls
    PROVE  TypeOK /\ CallTypes(c) /\ CallHolds(c) /\ PhaseOK(c) /\ input[c] \in Writes
BY DEF StepInv, TypeInv, TypeOK, Phases, CallTypes, CallHolds

\* A step that leaves the tables alone need only keep what c relies on, and the locks.
LEMMA QuietStep ==
    ASSUME StepInv, NEW c \in Calls, StepOf(c), UNCHANGED tables,
           CallHolds(c)', LocksAreExclusive'
    PROVE  StepInv'
<1>1. Local(c) /\ TypeInv'
  BY StepsAreLocal, TypeStep DEF StepInv, TypeInv, StepOf, Next
<1>2. \A d \in Calls : CallHolds(d)'
  BY <1>1, OthersHold
<1> QED
  BY <1>1, <1>2 DEF StepInv, CallHolds

\* The article upsert locks the row that it writes, and finds it under its own feed.
LEMMA ArticleRowHolds ==
    ASSUME StepInv, NEW c \in Calls, UpsertArticleRow(c)
    PROVE  StepInv'
<1> DEFINE w == input[c]
           stored == articles[w.article]
           new == UpsertedRow(w, stored)
<1>1. Local(c)
  BY StepsAreLocal DEF StepInv, TypeInv, StepOf, ClientStep
<1>2. TypeOK /\ CallTypes(c) /\ CallHolds(c) /\ PhaseOK(c) /\ w \in Writes
  BY OwnValues
<1>3. UNCHANGED tables /\ input' = input
  BY DEF UpsertArticleRow
<1>4. /\ pc[c] = "article" /\ srv[c] = "open" /\ ~Blocked(c) /\ cursor' = cursor /\ cursor[c] = 1
      /\ \/ /\ pc'[c] = "rollback" /\ outcome'[c] \in {"constraint", outcome[c]} /\ srv'[c] = "aborted"
            /\ row'[c] = NoRow /\ inserted'[c] = {} /\ logged'[c] = FALSE
         \/ /\ ~ViolatesConstraint(w, stored, storedFeeds)
            /\ \/ pc'[c] = "rollback" /\ outcome'[c] \in {"rejected", outcome[c]}
               \/ pc'[c] = AtKey(c, 1) /\ outcome'[c] = outcome[c] /\ new.feed = w.feed
            /\ row'[c] = new
            /\ srv'[c] = srv[c] /\ inserted'[c] = inserted[c] /\ logged'[c] = logged[c]
  BY <1>2, UpsertArticleRowCases DEF PhaseOK
<1>5. ValidArticleWrite(w) /\ new # NoRow
  BY <1>2, <1>4, InputTypes, UpsertedRowFacts DEF PhaseOK, Connected, Statements, TypeOK, StepInv
<1>6. outcome[c] = "running" /\ (outcome'[c] = "running" <=> pc'[c] # "rollback")
  <2>1. outcome[c] = "running"
    BY <1>2, <1>4 DEF CallHolds, OutcomeHolds
  <2> QED
    BY <1>2, <1>4, <2>1 DEF UpsertArticleRow, ReturnError, TypeOK, AtKey
<1>7. CallHolds(c)'
  <2>1. RowHolds(c)'
    BY <1>3, <1>4, <1>5 DEF RowHolds, Bound, tables
  <2>2. inserted'[c] = {} \/ inserted'[c] = inserted[c]
    BY <1>4
  <2>3. AtKey(c, 1) = "insertHistory" => ScopedKeysOf(w) = {}
    <3>1. w.keys \in Seq([type : KeyTypes \cup {"other"}, value : KeyValues \cup {Blank}])
      BY <1>2, WritesAssumption DEF ArticleWrite
    <3>2. 1 \notin DOMAIN w.keys => DOMAIN w.keys = {}
      BY <3>1
    <3> QED
      BY <3>2 DEF AtKey, ScopedKeysOf
  <2>4. \A i \in DOMAIN w.keys : ~(i < cursor'[c])
    <3>1. w.keys \in Seq([type : KeyTypes \cup {"other"}, value : KeyValues \cup {Blank}])
      BY <1>2, WritesAssumption DEF ArticleWrite
    <3> QED
      BY <1>4, <3>1
  <2>5. KeysHold(c)'
    BY <1>2, <1>3, <1>4, <2>2, <2>3, <2>4 DEF CallHolds, KeysHold, KeysDone, AtKey, tables
  <2>6. HistoryHolds(c)'
    BY <1>2, <1>3, <1>4 DEF CallHolds, HistoryHolds, HistoryDone, AtKey, tables
  <2>7. OutcomeHolds(c)'
    BY <1>4, <1>6 DEF OutcomeHolds, AtKey
  <2> QED
    BY <2>1, <2>5, <2>6, <2>7 DEF CallHolds
<1>8. LocksAreExclusive'
  <2>1. row'[c] # NoRow => ~w.malformed
    BY <1>4 DEF ViolatesConstraint
  <2>2. ~w.malformed => \A d \in Calls \ {c} : row[d] # NoRow => input[d].article # w.article
    BY <1>4 DEF Blocked, WaitsFor
  <2> QED
    BY <1>1, <1>4, <2>1, <2>2, LocksStep
<1> QED
  BY <1>3, <1>7, <1>8, QuietStep DEF StepOf, ClientStep

\* The INSERT of a key leaves it owned, by this call or by what is committed.
LEMMA InsertKeyHolds ==
    ASSUME StepInv, NEW c \in Calls, InsertKey(c)
    PROVE  StepInv'
<1> DEFINE k == CurrentKey(c)
<1>1. Local(c)
  BY StepsAreLocal DEF StepInv, TypeInv, StepOf, ClientStep
<1>2. TypeOK /\ CallTypes(c) /\ CallHolds(c) /\ PhaseOK(c)
  BY OwnValues
<1>3. /\ UNCHANGED tables /\ input' = input /\ cursor' = cursor
      /\ pc[c] = "insertKey" /\ srv[c] = "open" /\ ~Blocked(c)
      /\ pc'[c] = "verifyKey" /\ srv'[c] = "open" /\ outcome'[c] = outcome[c]
      /\ row'[c] = row[c] /\ logged'[c] = logged[c]
      /\ inserted'[c] = IF keyOwner[k] = None THEN inserted[c] \cup {k} ELSE inserted[c]
  BY <1>2 DEF InsertKey, Executes, TypeOK
<1>4. k \in ScopedKeysOf(input[c]) /\ ValidArticleWrite(input[c])
  BY <1>2, <1>3 DEF PhaseOK, CurrentKey, ScopedKeysOf
<1>5. input[c].article # None
  BY <1>2, <1>4, InputTypes, SentinelAssumption DEF StepInv
<1>6. CallHolds(c)'
  <2>1. RowHolds(c)'
    BY <1>2, <1>3 DEF CallHolds, RowHolds, Bound, tables
  <2>2. \A x : KeySeen(c, x) = input[c].article => KeySeen(c, x)' = input[c].article
    BY <1>3 DEF KeySeen, tables
  <2>3. KeySeen(c, CurrentKey(c))' # None
    BY <1>3, <1>5 DEF KeySeen, CurrentKey, tables
  <2>4. \A x \in inserted'[c] : x \in ScopedKeysOf(input[c]) /\ keyOwner[x] = None
    BY <1>2, <1>3, <1>4 DEF CallHolds, KeysHold
  <2>5. KeysHold(c)'
    BY <1>2, <1>3, <2>2, <2>3, <2>4 DEF CallHolds, KeysHold, KeysDone, tables
  <2>6. HistoryHolds(c)' /\ OutcomeHolds(c)'
    BY <1>2, <1>3 DEF CallHolds, HistoryHolds, HistoryDone, HistorySeen, OutcomeHolds, tables
  <2> QED
    BY <2>1, <2>5, <2>6 DEF CallHolds
<1>7. \A d \in Calls \ {c} : k \notin inserted[d]
  BY <1>3 DEF Blocked, WaitsFor
<1>8. LocksAreExclusive'
  BY <1>1, <1>3, <1>7, LocksStep
<1> QED
  BY <1>3, <1>6, <1>8, QuietStep DEF StepOf, ClientStep

\* Reading a key's owner back tells whether the article has it.
LEMMA VerifyKeyHolds ==
    ASSUME StepInv, NEW c \in Calls, VerifyKey(c)
    PROVE  StepInv'
<1> DEFINE w == input[c]
           found == KeySeen(c, CurrentKey(c)) = w.article
<1>1. Local(c)
  BY StepsAreLocal DEF StepInv, TypeInv, StepOf, ClientStep
<1>2. TypeOK /\ CallTypes(c) /\ CallHolds(c) /\ PhaseOK(c) /\ w \in Writes
  BY OwnValues
<1>3. /\ UNCHANGED tables /\ input' = input
      /\ pc[c] = "verifyKey" /\ srv[c] = "open"
      /\ srv'[c] = srv[c] /\ row'[c] = row[c] /\ logged'[c] = logged[c] /\ inserted'[c] = inserted[c]
      /\ \/ /\ found /\ cursor'[c] = cursor[c] + 1 /\ pc'[c] = AtKey(c, cursor[c] + 1)
            /\ outcome'[c] = outcome[c]
         \/ pc'[c] = "rollback" /\ outcome'[c] # "running" /\ cursor'[c] = cursor[c]
  BY <1>2 DEF VerifyKey, Executes, ReturnError, overlay, TypeOK
<1>4. DOMAIN w.keys = 1 .. Len(w.keys) /\ Len(w.keys) \in Nat
  <2>1. w.keys \in Seq([type : KeyTypes \cup {"other"}, value : KeyValues \cup {Blank}])
    BY <1>2, WritesAssumption DEF ArticleWrite
  <2> QED
    BY <2>1
<1>5. \A x : KeySeen(c, x)' = KeySeen(c, x)
  BY <1>3 DEF KeySeen, tables
<1>6. ASSUME found
      PROVE  \A i \in DOMAIN w.keys : i < cursor[c] + 1 =>
                 KeySeen(c, <<w.feed, w.keys[i]>>) = w.article
  <2> SUFFICES ASSUME NEW i \in DOMAIN w.keys, i < cursor[c] + 1
               PROVE  KeySeen(c, <<w.feed, w.keys[i]>>) = w.article
    OBVIOUS
  <2>1. i < cursor[c] \/ i = cursor[c]
    BY <1>2, <1>4 DEF CallTypes
  <2> QED
    BY <1>2, <1>3, <1>6, <2>1 DEF CallHolds, KeysHold, CurrentKey
<1>7. CallHolds(c)'
  <2>1. RowHolds(c)'
    BY <1>2, <1>3 DEF CallHolds, RowHolds, Bound, AtKey, tables
  <2>2. \A x \in inserted'[c] : x \in ScopedKeysOf(w) /\ keyOwner[x] = None
    BY <1>2, <1>3 DEF CallHolds, KeysHold
  <2>3. pc'[c] = "insertHistory" => \A x \in ScopedKeysOf(w) : KeySeen(c, x) = w.article
    <3> SUFFICES ASSUME pc'[c] = "insertHistory"
                 PROVE  \A i \in DOMAIN w.keys : KeySeen(c, <<w.feed, w.keys[i]>>) = w.article
      BY DEF ScopedKeysOf
    <3>1. found /\ cursor[c] + 1 \notin DOMAIN w.keys
      BY <1>3 DEF AtKey
    <3>2. cursor[c] \in DOMAIN w.keys
      BY <1>2, <1>3 DEF PhaseOK
    <3>3. \A i \in DOMAIN w.keys : i < cursor[c] + 1
      BY <1>4, <3>1, <3>2
    <3> QED
      BY <1>6, <3>1, <3>3
  <2>4. pc'[c] = "insertKey" => \A i \in DOMAIN w.keys : i < cursor'[c] =>
                                   KeySeen(c, <<w.feed, w.keys[i]>>) = w.article
    BY <1>3, <1>6 DEF AtKey
  <2>5. KeysHold(c)'
    BY <1>3, <1>5, <2>2, <2>3, <2>4 DEF KeysHold, KeysDone, AtKey, tables
  <2>6. HistoryHolds(c)' /\ OutcomeHolds(c)'
    BY <1>2, <1>3 DEF CallHolds, HistoryHolds, HistoryDone, HistorySeen, OutcomeHolds, AtKey, tables
  <2> QED
    BY <2>1, <2>5, <2>6 DEF CallHolds
<1>8. LocksAreExclusive'
  BY <1>1, <1>3, LocksKept
<1> QED
  BY <1>3, <1>7, <1>8, QuietStep DEF StepOf, ClientStep

\* The INSERT of the history row leaves one there, this call's or a committed one.
LEMMA InsertHistoryHolds ==
    ASSUME StepInv, NEW c \in Calls, InsertHistory(c)
    PROVE  StepInv'
<1>1. Local(c)
  BY StepsAreLocal DEF StepInv, TypeInv, StepOf, ClientStep
<1>2. TypeOK /\ CallTypes(c) /\ CallHolds(c) /\ PhaseOK(c)
  BY OwnValues
<1>3. /\ UNCHANGED tables /\ input' = input /\ cursor' = cursor
      /\ pc[c] = "insertHistory" /\ srv[c] = "open" /\ ~Blocked(c)
      /\ pc'[c] = "verifyHistory" /\ srv'[c] = "open" /\ outcome'[c] = outcome[c]
      /\ row'[c] = row[c] /\ inserted'[c] = inserted[c]
      /\ logged'[c] = (history[input[c].hist] = None)
  BY <1>2 DEF InsertHistory, Executes, TypeOK
<1>4. HistoryRowOf(input[c]) # None
  BY <1>2, <1>3, InputTypes, SentinelAssumption DEF StepInv, PhaseOK, Connected, Statements
<1>5. CallHolds(c)'
  <2>1. RowHolds(c)' /\ OutcomeHolds(c)'
    BY <1>2, <1>3 DEF CallHolds, RowHolds, Bound, OutcomeHolds, tables
  <2>2. KeysHold(c)'
    BY <1>2, <1>3 DEF CallHolds, KeysHold, KeysDone, KeySeen, tables
  <2>3. HistoryHolds(c)'
    BY <1>3, <1>4 DEF HistoryHolds, HistoryDone, HistorySeen, tables
  <2> QED
    BY <2>1, <2>2, <2>3 DEF CallHolds
<1>6. \A d \in Calls \ {c} : logged[d] => input[d].hist # input[c].hist
  BY <1>3 DEF Blocked, WaitsFor
<1>7. LocksAreExclusive'
  BY <1>1, <1>3, <1>6, LocksStep
<1> QED
  BY <1>3, <1>5, <1>7, QuietStep DEF StepOf, ClientStep

\* The steps that write no row: they end a transaction, or move on with it.
LEMMA OtherStepHolds ==
    ASSUME StepInv, NEW c \in Calls,
           \/ Validate(c) \/ Begin(c) \/ VerifyHistory(c) \/ SendCommit(c) \/ CommitReturns(c)
           \/ StatementFails(c) \/ Rollback(c) \/ ServerAbort(c) \/ GiveUp(c)
    PROVE  StepInv'
<1>1. Local(c) /\ StepOf(c)
  BY StepsAreLocal DEF StepInv, TypeInv, StepOf, ClientStep
<1>2. TypeOK /\ CallTypes(c) /\ CallHolds(c) /\ PhaseOK(c)
  BY OwnValues
<1> USE DEF CallHolds, RowHolds, KeysHold, HistoryHolds, OutcomeHolds, Bound, KeysDone,
            HistoryDone, KeySeen, HistorySeen, CurrentKey, Connected, Statements, tables, overlay
<1> DEFINE Kept == /\ UNCHANGED tables
                   /\ row'[c] \in {row[c], NoRow} /\ inserted'[c] \in {inserted[c], {}}
                   /\ logged'[c] \in {logged[c], FALSE}
<1>3. ASSUME Validate(c) PROVE CallHolds(c)' /\ Kept
  BY <1>2, <1>3 DEF TypeOK, PhaseOK, Validate, ReturnError
<1>4. ASSUME Begin(c) PROVE CallHolds(c)' /\ Kept
  BY <1>2, <1>4 DEF TypeOK, PhaseOK, Begin
<1>5. ASSUME VerifyHistory(c) PROVE CallHolds(c)' /\ Kept
  BY <1>2, <1>5 DEF TypeOK, PhaseOK, VerifyHistory, ReturnError, Executes
<1>6. ASSUME SendCommit(c) PROVE CallHolds(c)' /\ Kept
  BY <1>2, <1>6 DEF TypeOK, PhaseOK, SendCommit, Executes
<1>7. ASSUME CommitReturns(c) PROVE CallHolds(c)' /\ Kept
  BY <1>2, <1>7 DEF TypeOK, PhaseOK, CommitReturns, ReturnError
<1>8. ASSUME StatementFails(c) PROVE CallHolds(c)' /\ Kept
  BY <1>2, <1>8 DEF TypeOK, PhaseOK, StatementFails, ReturnError
<1>9. ASSUME Rollback(c) PROVE CallHolds(c)' /\ Kept
  BY <1>2, <1>9 DEF TypeOK, PhaseOK, Rollback, EndTransaction
<1>10. ASSUME ServerAbort(c) PROVE CallHolds(c)' /\ Kept
  BY <1>2, <1>10 DEF TypeOK, PhaseOK, ServerAbort, EndTransaction
<1>11. ASSUME GiveUp(c) PROVE CallHolds(c)' /\ Kept
  BY <1>2, <1>11 DEF TypeOK, PhaseOK, GiveUp, ReturnError
<1> HIDE DEF Kept
<1>20. CallHolds(c)' /\ Kept
  BY <1>3, <1>4, <1>5, <1>6, <1>7, <1>8, <1>9, <1>10, <1>11
<1>21. LocksAreExclusive'
  BY <1>1, <1>20, LocksKept DEF Kept
<1> QED
  BY <1>1, <1>20, <1>21, QuietStep DEF Kept

\* One more stored feed takes nothing from a call: a constraint that did not refuse its
\* article row does not come to refuse it.
LEMMA AddFeedHolds ==
    ASSUME StepInv, NEW f \in Feeds, AddFeed(f)
    PROVE  StepInv'
<1>1. TypeInv'
  BY TypeStep DEF StepInv, Next
<1>2. /\ UNCHANGED <<input, bindings, pc, cursor, outcome, srv, overlay, free>>
      /\ storedFeeds \subseteq storedFeeds'
  BY DEF AddFeed
<1>3. LocksAreExclusive'
  BY <1>2 DEF StepInv, LocksAreExclusive, overlay
<1>4. ASSUME NEW c \in Calls PROVE CallHolds(c)'
  <2>1. CallHolds(c)
    BY DEF StepInv, CallHolds
  <2>2. RowHolds(c)'
    BY <1>2, <2>1 DEF CallHolds, RowHolds, Bound, ViolatesConstraint, bindings, overlay
  <2>3. KeysHold(c)' /\ HistoryHolds(c)' /\ OutcomeHolds(c)'
    BY <1>2, <2>1 DEF CallHolds, KeysHold, HistoryHolds, OutcomeHolds, KeysDone, HistoryDone,
                      KeySeen, HistorySeen, CurrentKey, bindings, overlay
  <2> QED
    BY <2>2, <2>3 DEF CallHolds
<1> QED
  BY <1>1, <1>3, <1>4 DEF StepInv, CallHolds

\* The strengthened invariant is inductive.
LEMMA StepInvStep ==
    ASSUME StepInv, [Next]_vars
    PROVE  StepInv'
<1>1. CASE UNCHANGED vars
  <2>1. TypeInv'
    BY <1>1, TypeStep DEF StepInv
  <2> QED
    BY <1>1, <2>1 DEF StepInv, vars, tables, overlay, LocksAreExclusive, RowHolds, KeysHold,
          HistoryHolds, OutcomeHolds, Bound, KeysDone, HistoryDone, KeySeen, HistorySeen, CurrentKey
<1>2. ASSUME NEW c \in Calls, StepOf(c) PROVE StepInv'
  BY <1>2, ArticleRowHolds, InsertKeyHolds, VerifyKeyHolds, InsertHistoryHolds, CommitHolds,
     OtherStepHolds DEF StepOf, ClientStep
<1> QED
  BY <1>1, <1>2, AddFeedHolds DEF Next, StepOf

\* No two transactions ever hold the same article row, key or history row: the
\* statements of UpsertArticle wait wherever they would meet.
THEOREM LocksExclusive == Spec => []LocksAreExclusive
<1>1. Spec => []StepInv
  BY StepInit, StepInvStep, PTL DEF Spec
<1>2. StepInv => LocksAreExclusive
  BY DEF StepInv
<1> QED
  BY <1>1, <1>2, PTL

-------------------------------------------------------------------------------
(* The registry.  The commit of a transaction is the registry's Record, the *)
(* return of a call its Answer, and every other step is invisible to it.    *)

\* A local step that keeps its own outcome keeps every outcome.
LEMMA SameOutcome ==
    ASSUME TypeOK, NEW c \in Calls, Local(c), outcome'[c] = outcome[c]
    PROVE  outcome' = outcome
<1>1. outcome \in [Calls -> {"running", "ok", "rejected", "constraint", "invalid", "failed"}]
  BY DEF TypeOK
<1>2. outcome' = [outcome EXCEPT ![c] = outcome[c]]
  BY DEF Local
<1> QED
  BY <1>1, <1>2

\* The instance has its own copies of the operators of ArticleRecords.
LEMMA SameRecords ==
    /\ Registry!ScopedKeys = ScopedKeys
    /\ \A w : /\ Registry!ValidArticleWrite(w) <=> ValidArticleWrite(w)
             /\ Registry!ScopedKeysOf(w) = ScopedKeysOf(w)
             /\ Registry!HistoryRowOf(w) = HistoryRowOf(w)
    /\ \A w, stored : Registry!UpsertedRow(w, stored) = UpsertedRow(w, stored)
    /\ \A w, stored, some :
          Registry!ViolatesConstraint(w, stored, some) <=> ViolatesConstraint(w, stored, some)
<1>1. Registry!ScopedKeys = ScopedKeys
  BY DEF Registry!ScopedKeys, ScopedKeys, Registry!IdentityKeys, IdentityKeys, Registry!KeyTypes, KeyTypes
<1>2. ASSUME NEW w
      PROVE  /\ Registry!ValidArticleWrite(w) <=> ValidArticleWrite(w)
             /\ Registry!ScopedKeysOf(w) = ScopedKeysOf(w)
             /\ Registry!HistoryRowOf(w) = HistoryRowOf(w)
  BY DEF Registry!ValidArticleWrite, ValidArticleWrite, Registry!ValidIdentityKey, ValidIdentityKey,
         Registry!KeyTypes, KeyTypes, Registry!ScopedKeysOf, ScopedKeysOf,
         Registry!HistoryRowOf, HistoryRowOf
<1>3. ASSUME NEW w, NEW stored
      PROVE  Registry!UpsertedRow(w, stored) = UpsertedRow(w, stored)
  BY DEF Registry!UpsertedRow, UpsertedRow, Registry!Least, Least, Registry!Greatest, Greatest
<1>4. ASSUME NEW w, NEW stored, NEW some
      PROVE  Registry!ViolatesConstraint(w, stored, some) <=> ViolatesConstraint(w, stored, some)
  BY DEF Registry!ViolatesConstraint, ViolatesConstraint
<1> QED
  BY <1>1, <1>2, <1>3, <1>4

\* When the backend executes COMMIT, the candidate agrees with every binding.
LEMMA CommitRecords ==
    ASSUME StepInv, NEW c \in Calls, ServerCommit(c)
    PROVE  Registry!Record(c)
<1> DEFINE w == input[c]
<1>1. /\ srv[c] = "committing" /\ Bound(c) /\ KeysDone(c) /\ HistoryDone(c)
      /\ CallHolds(c) /\ PhaseOK(c) /\ TypeOK
  BY OwnValues DEF ServerCommit, Bound, KeysDone, HistoryDone
<1>2. ValidArticleWrite(w) /\ w \in Writes
  BY <1>1, OwnValues DEF PhaseOK
<1>3. /\ w.article \in Articles /\ w.hist \in Histories /\ ScopedKeysOf(w) \subseteq ScopedKeys
      /\ w.article # None
  BY <1>2, ValidWriteTypes, SentinelAssumption
<1>4. c \notin Committed /\ Committed' = Committed \cup {c}
  BY <1>1 DEF Committed, ServerCommit, EndTransaction, TypeOK
<1>5. outcome[c] \in {"running", "failed"}
  BY <1>1 DEF CallHolds, OutcomeHolds, PhaseOK
<1>6. /\ row[c] = UpsertedRow(w, articles[w.article]) /\ row[c].feed = w.feed
      /\ ~ViolatesConstraint(w, articles[w.article], storedFeeds)
  BY <1>1 DEF CallHolds, RowHolds
<1>7. articles[w.article] # NoRow => articles[w.article].feed = w.feed
  BY <1>1, <1>2, <1>3, <1>6, UpsertedRowFacts DEF TypeOK
<1>8. \A k \in ScopedKeysOf(w) : k \in inserted[c] \/ keyOwner[k] = w.article
  BY <1>1 DEF CallHolds, KeysHold, KeySeen
<1>9. \A k \in inserted[c] : k \in ScopedKeysOf(w) /\ keyOwner[k] = None
  BY <1>1 DEF CallHolds, KeysHold
<1>10. IF history[w.hist] = None
       THEN logged[c]
       ELSE ~logged[c] /\ history[w.hist].article = w.article /\ history[w.hist].feed = w.feed
  BY <1>1 DEF CallHolds, HistoryHolds, HistorySeen
<1>11. ~Registry!Conflicts(w)
  BY <1>7, <1>8, <1>9, <1>10, SameRecords DEF Registry!Conflicts
<1>12. articles' = [articles EXCEPT ![w.article] = UpsertedRow(w, @)]
  BY <1>1, <1>3, <1>6 DEF ServerCommit, TypeOK
<1>13. keyOwner' = [k \in ScopedKeys |->
                      IF k \in ScopedKeysOf(w) THEN w.article ELSE keyOwner[k]]
  <2>1. keyOwner' = [k \in ScopedKeys |-> IF k \in inserted[c] THEN w.article ELSE keyOwner[k]]
    BY DEF ServerCommit
  <2> QED
    BY <1>8, <1>9, <2>1
<1>14. history' = [history EXCEPT ![w.hist] = IF @ = None THEN HistoryRowOf(w) ELSE @]
  BY <1>1, <1>3, <1>10 DEF ServerCommit, TypeOK
<1>15. UNCHANGED <<input, outcome, storedFeeds>>
  BY DEF ServerCommit
<1> QED
  BY <1>2, <1>4, <1>5, <1>6, <1>11, <1>12, <1>13, <1>14, <1>15, SameRecords DEF Registry!Record

\* A call is refused over a binding that is committed, or over its article row alone.
LEMMA RefusalsConflict ==
    ASSUME StepInv, NEW c \in Calls, UpsertArticleRow(c) \/ VerifyKey(c) \/ VerifyHistory(c),
           outcome'[c] # outcome[c]
    PROVE  /\ ValidArticleWrite(input[c]) /\ outcome[c] = "running" /\ srv[c] = "open"
           /\ \/ /\ outcome' = [outcome EXCEPT ![c] = "rejected"]
                 /\ Registry!Conflicts(input[c])
              \/ /\ outcome' = [outcome EXCEPT ![c] = "constraint"]
                 /\ ViolatesConstraint(input[c], articles[input[c].article], storedFeeds)
<1> DEFINE w == input[c]
<1>1. TypeOK /\ CallTypes(c) /\ CallHolds(c) /\ PhaseOK(c) /\ w \in Writes
  BY OwnValues
<1>2. /\ pc[c] \in Statements /\ srv[c] = "open"
  BY DEF UpsertArticleRow, VerifyKey, VerifyHistory, Executes, Statements
<1>3. ValidArticleWrite(w) /\ outcome[c] = "running"
  BY <1>1, <1>2 DEF PhaseOK, CallHolds, OutcomeHolds, Statements
<1>4. w.article \in Articles
  BY <1>1, <1>3, ValidWriteTypes
<1>5. CASE UpsertArticleRow(c)
  <2>1. CASE ViolatesConstraint(w, articles[w.article], storedFeeds)
    <3>1. outcome' = [outcome EXCEPT ![c] = "constraint"]
      BY <1>1, <1>3, <1>5, <2>1 DEF UpsertArticleRow, ReturnError, TypeOK
    <3> QED
      BY <1>2, <1>3, <2>1, <3>1
  <2>2. CASE ~ViolatesConstraint(w, articles[w.article], storedFeeds)
    <3>1. UpsertedRow(w, articles[w.article]).feed # w.feed
      BY <1>1, <1>5, <2>2, UpsertArticleRowCases
    <3>2. articles[w.article] # NoRow /\ articles[w.article].feed # w.feed
      BY <1>1, <1>3, <1>4, <3>1, UpsertedRowFacts DEF TypeOK
    <3>3. outcome' = [outcome EXCEPT ![c] = "rejected"]
      BY <1>1, <1>3, <1>5, <2>2, <3>1 DEF UpsertArticleRow, ReturnError, TypeOK
    <3> QED
      BY <1>2, <1>3, <3>2, <3>3 DEF Registry!Conflicts
  <2> QED
    BY <2>1, <2>2
<1>6. CASE VerifyKey(c)
  <2>1. /\ KeySeen(c, CurrentKey(c)) # w.article /\ pc[c] = "verifyKey"
        /\ outcome' = [outcome EXCEPT ![c] = "rejected"]
    BY <1>1, <1>3, <1>6 DEF VerifyKey, ReturnError, Executes, TypeOK
  <2>2. keyOwner[CurrentKey(c)] \notin {None, w.article}
    BY <1>1, <1>2, <2>1 DEF CallHolds, KeysHold, KeySeen
  <2>3. CurrentKey(c) \in ScopedKeysOf(w)
    BY <1>1, <2>1 DEF PhaseOK, CurrentKey, ScopedKeysOf
  <2> QED
    BY <1>2, <1>3, <2>1, <2>2, <2>3, SameRecords DEF Registry!Conflicts
<1>7. CASE VerifyHistory(c)
  <2>1. /\ pc[c] = "verifyHistory" /\ outcome' = [outcome EXCEPT ![c] = "rejected"]
        /\ HistorySeen(c).article # w.article \/ HistorySeen(c).feed # w.feed
    BY <1>1, <1>3, <1>7 DEF VerifyHistory, ReturnError, Executes, TypeOK
  <2>2. HistorySeen(c) # None /\ HistorySeen(c) = history[w.hist]
    BY <1>1, <1>2, <2>1 DEF CallHolds, HistoryHolds, HistorySeen, HistoryRowOf
  <2> QED
    BY <1>2, <1>3, <2>1, <2>2 DEF Registry!Conflicts
<1> QED
  BY <1>5, <1>6, <1>7

\* Every step is a step of the registry, or none.
LEMMA StepSimulates ==
    ASSUME StepInv, [Next]_vars
    PROVE  [Registry!Next]_(Registry!vars)
<1>1. CASE UNCHANGED vars
  BY <1>1 DEF vars, tables, overlay, Committed, Registry!vars
<1>2. ASSUME NEW c \in Calls, StepOf(c) PROVE [Registry!Next]_(Registry!vars)
  <2>1. TypeOK /\ CallTypes(c) /\ CallHolds(c) /\ PhaseOK(c) /\ input[c] \in Writes /\ Local(c)
    BY <1>2, OwnValues, StepsAreLocal
  <2>2. CASE ServerCommit(c)
    BY <2>2, CommitRecords DEF Registry!Next
  <2>3. ASSUME UNCHANGED <<input, articles, keyOwner, history, storedFeeds>>, Committed' = Committed,
               \/ outcome' = outcome
               \/ /\ outcome[c] = "running"
                  /\ \E o \in {"ok", "rejected", "constraint", "invalid", "failed"} :
                       /\ o = "ok" => c \in Committed
                       /\ o = "invalid" => ~ValidArticleWrite(input[c])
                       /\ o = "rejected" => /\ ValidArticleWrite(input[c])
                                            /\ c \notin Committed
                                            /\ Registry!Conflicts(input[c])
                       /\ o = "constraint" =>
                             /\ ValidArticleWrite(input[c])
                             /\ c \notin Committed
                             /\ ViolatesConstraint(input[c], articles[input[c].article], storedFeeds)
                       /\ outcome' = [outcome EXCEPT ![c] = o]
        PROVE  [Registry!Next]_(Registry!vars)
    <3>1. CASE outcome' = outcome
      BY <2>3, <3>1 DEF Registry!vars
    <3>2. CASE outcome' # outcome
      BY <2>3, <3>2, SameRecords DEF Registry!Next, Registry!Answer
    <3> QED
      BY <3>1, <3>2
  <2>4. /\ srv'[c] \notin {"committed"} \/ srv'[c] = srv[c]
        /\ srv[c] = "committed" => srv'[c] = "committed"
        => Committed' = Committed
    BY <2>1 DEF Committed, Local, TypeOK
  <2>5. CASE UpsertArticleRow(c) \/ VerifyKey(c) \/ VerifyHistory(c)
    <3>1. UNCHANGED <<input, articles, keyOwner, history, storedFeeds>>
      BY <2>5 DEF UpsertArticleRow, VerifyKey, VerifyHistory, tables
    <3>2. srv[c] = "open" /\ srv'[c] \in {"open", "aborted"}
      BY <2>1, <2>5 DEF UpsertArticleRow, VerifyKey, VerifyHistory, Executes, EndTransaction, TypeOK
    <3>3. Committed' = Committed /\ c \notin Committed
      BY <2>4, <3>2 DEF Committed
    <3>4. CASE outcome'[c] = outcome[c]
      <4>1. outcome' = outcome
        BY <2>1, <3>4, SameOutcome
      <4> QED
        BY <2>3, <3>1, <3>3, <4>1
    <3>5. CASE outcome'[c] # outcome[c]
      BY <2>3, <2>5, <3>1, <3>3, <3>5, RefusalsConflict
    <3> QED
      BY <3>4, <3>5
  <2>6. CASE Begin(c) \/ InsertKey(c) \/ InsertHistory(c) \/ SendCommit(c) \/ Rollback(c) \/ ServerAbort(c)
    <3>1. UNCHANGED <<input, articles, keyOwner, history, storedFeeds, outcome>>
      BY <2>6 DEF Begin, InsertKey, InsertHistory, SendCommit, Rollback, ServerAbort, tables
    <3>2. srv'[c] # "committed" /\ srv[c] # "committed"
      BY <2>1, <2>6 DEF Begin, InsertKey, InsertHistory, SendCommit, Rollback, ServerAbort,
                        Executes, EndTransaction, PhaseOK, TypeOK
    <3> QED
      BY <2>3, <2>4, <3>1, <3>2
  <2>7. CASE Validate(c) \/ CommitReturns(c) \/ StatementFails(c) \/ GiveUp(c)
    <3>1. UNCHANGED <<input, articles, keyOwner, history, storedFeeds, srv>> /\ Committed' = Committed
      BY <2>7 DEF Validate, CommitReturns, StatementFails, GiveUp, tables, Committed
    <3>2. CASE outcome'[c] = outcome[c]
      <4>1. outcome' = outcome
        BY <2>1, <3>2, SameOutcome
      <4> QED
        BY <2>3, <3>1, <4>1
    <3>3. CASE outcome'[c] # outcome[c]
      <4>1. outcome[c] = "running"
        BY <2>1, <2>7, <3>3 DEF Validate, CommitReturns, StatementFails, GiveUp, ReturnError, TypeOK
      <4>2. \/ outcome' = [outcome EXCEPT ![c] = "invalid"] /\ ~ValidArticleWrite(input[c])
            \/ outcome' = [outcome EXCEPT ![c] = "ok"] /\ c \in Committed
            \/ outcome' = [outcome EXCEPT ![c] = "failed"]
        BY <2>1, <2>7, <3>3, <4>1 DEF Validate, CommitReturns, StatementFails, GiveUp, ReturnError,
                                     TypeOK, Committed
      <4> QED
        BY <2>3, <3>1, <4>1, <4>2
    <3> QED
      BY <3>2, <3>3
  <2> QED
    BY <1>2, <2>2, <2>5, <2>6, <2>7 DEF StepOf, ClientStep
<1>3. ASSUME NEW f \in Feeds, AddFeed(f) PROVE [Registry!Next]_(Registry!vars)
  BY <1>3 DEF AddFeed, bindings, Committed, Registry!Next, Registry!AddFeed
<1> QED
  BY <1>1, <1>2, <1>3 DEF Next, StepOf

\* UpsertArticle implements the registry: whatever the calls interleave, a candidate
\* is recorded at once and whole, or not at all, and every answer tells the truth.
THEOREM Refinement == Spec => ImplementsRegistry
<1>1. Init => Registry!Init
  BY SameRecords DEF Init, Registry!Init, Committed
<1>2. Spec => []StepInv
  BY StepInit, StepInvStep, PTL DEF Spec
<1>3. StepInv /\ [Next]_vars => [Registry!Next]_(Registry!vars)
  BY StepSimulates
<1> QED
  BY <1>1, <1>2, <1>3, PTL DEF Spec, ImplementsRegistry, Registry!Spec

-------------------------------------------------------------------------------
(* What callers may rely on follows from the registry's steps alone.       *)

\* What Record does, in the tables' own terms.
LEMMA RecordFacts ==
    ASSUME TypeInv, NEW c \in Calls, Registry!Record(c)
    PROVE  LET w == input[c] IN
           /\ ValidArticleWrite(w) /\ w \in Writes
           /\ w.article \in Articles /\ w.hist \in Histories /\ ScopedKeysOf(w) \subseteq ScopedKeys
           /\ input' = input /\ outcome' = outcome
           /\ c \notin Committed /\ outcome[c] \in {"running", "failed"} /\ Committed' = Committed \cup {c}
           /\ articles' = [articles EXCEPT ![w.article] = UpsertedRow(w, articles[w.article])]
           /\ keyOwner' = [k \in ScopedKeys |-> IF k \in ScopedKeysOf(w) THEN w.article ELSE keyOwner[k]]
           /\ history' = [history EXCEPT ![w.hist] =
                            IF history[w.hist] = None THEN HistoryRowOf(w) ELSE history[w.hist]]
           /\ ~ViolatesConstraint(w, articles[w.article], storedFeeds)
           /\ articles[w.article] # NoRow => articles[w.article].feed = w.feed
           /\ \A k \in ScopedKeysOf(w) : keyOwner[k] \in {None, w.article}
           /\ history[w.hist] # None => /\ history[w.hist].article = w.article
                                       /\ history[w.hist].feed = w.feed
<1>1. input[c] \in Writes /\ ValidArticleWrite(input[c])
  BY SameRecords DEF Registry!Record, TypeInv, TypeOK
<1>2. ~Registry!Conflicts(input[c])
  BY DEF Registry!Record
<1> QED
  BY <1>1, <1>2, ValidWriteTypes, SameRecords DEF Registry!Record, Registry!Conflicts

\* The window of a row that stays as it is contains itself.
LEMMA RowTimes ==
    ASSUME NEW stored \in ArticleRow
    PROVE  stored.first <= stored.first /\ stored.last <= stored.last
<1>1. stored.first \in Times /\ stored.last \in Times
  BY DEF ArticleRow
<1>2. stored.first \in Nat /\ stored.last \in Nat
  BY <1>1, TimesAssumption
<1> QED
  BY <1>2

\* Recorded bindings stay, whatever is recorded next.
LEMMA RecordKeepsBindings ==
    ASSUME TypeInv, NEW c \in Calls, Registry!Record(c)
    PROVE  BindingStays
<1> DEFINE w == input[c]
<1>1. ASSUME NEW a \in Articles, articles[a] # NoRow
      PROVE  /\ articles'[a] # NoRow /\ articles'[a].feed = articles[a].feed
             /\ articles'[a].first <= articles[a].first /\ articles[a].last <= articles'[a].last
  <2>1. articles[a] \in ArticleRow /\ articles \in [Articles -> ArticleRow \cup {NoRow}]
    BY <1>1 DEF TypeInv, TypeOK
  <2>2. CASE a = w.article
    <3>1. articles'[a] = UpsertedRow(w, articles[a])
      BY <2>1, <2>2, RecordFacts
    <3> QED
      BY <1>1, <2>1, <3>1, RecordFacts, UpsertedRowFacts
  <2>3. CASE a # w.article
    <3>1. articles'[a] = articles[a]
      BY <2>1, <2>3, RecordFacts
    <3> QED
      BY <1>1, <2>1, <3>1, RowTimes
  <2> QED
    BY <2>2, <2>3
<1>2. \A k \in ScopedKeys : keyOwner[k] # None => keyOwner'[k] = keyOwner[k]
  BY RecordFacts
<1>3. \A h \in Histories : history[h] # None => history'[h] = history[h]
  BY RecordFacts DEF TypeInv, TypeOK
<1> QED
  BY <1>1, <1>2, <1>3 DEF BindingStays

\* A step that records nothing leaves the tables alone.
LEMMA QuietKeepsBindings ==
    ASSUME TypeInv, UNCHANGED bindings
    PROVE  BindingStays
<1>1. \A a \in Articles : articles[a] # NoRow => articles[a] \in ArticleRow
  BY DEF TypeInv, TypeOK
<1> QED
  BY <1>1, RowTimes DEF BindingStays, bindings

\* A step records one candidate, or answers one call, or changes nothing that is
\* promised of bindings.
LEMMA RegistrySteps ==
    ASSUME StepInv, [Next]_vars
    PROVE  \/ \E c \in Calls : Registry!Record(c)
           \/ /\ UNCHANGED <<bindings, input>> /\ Committed' = Committed
              /\ \/ outcome' = outcome
                 \/ \E c \in Calls : Registry!Answer(c)
BY StepSimulates DEF Registry!Next, Registry!Answer, Registry!AddFeed, Registry!vars, bindings

\* No step of UpsertArticle undoes a binding.
LEMMA BindingStep ==
    ASSUME StepInv, [Next]_vars
    PROVE  BindingStays
BY RegistrySteps, RecordKeepsBindings, QuietKeepsBindings DEF StepInv

\* An article never changes its feed, a key its article, a history row anything, and
\* no retrieval already accounted for falls out of an article's window.
THEOREM BindingsAreForever == Spec => BindingsNeverChange
<1>1. Spec => []StepInv
  BY StepInit, StepInvStep, PTL DEF Spec
<1>2. StepInv /\ [Next]_vars => [BindingStays]_vars
  BY BindingStep
<1> QED
  BY <1>1, <1>2, PTL DEF Spec, BindingsNeverChange

\* The promise as an invariant: every recorded candidate is there in full, and every
\* answer that says so, or says that it cannot be, is right.
InTables(w) ==
    /\ articles[w.article] # NoRow
    /\ articles[w.article].feed = w.feed
    /\ \A k \in ScopedKeysOf(w) : keyOwner[k] = w.article
    /\ history[w.hist] # None
    /\ history[w.hist].article = w.article
    /\ history[w.hist].feed = w.feed

PromiseInv ==
    /\ StepInv
    /\ ScopesAgree
    /\ \A c \in Committed : ValidArticleWrite(input[c]) /\ InTables(input[c])
    /\ \A c \in Calls : outcome[c] = "ok" => c \in Committed
    /\ \A c \in Calls : outcome[c] = "rejected" =>
          ValidArticleWrite(input[c]) /\ Registry!Conflicts(input[c])

\* With nothing recorded and nobody answered, the promise holds.
LEMMA PromiseInit == Init => PromiseInv
<1> SUFFICES ASSUME Init PROVE PromiseInv
  OBVIOUS
<1>1. StepInv
  BY StepInit
<1>2. Committed = {} /\ ScopesAgree
  BY DEF Init, Committed, ScopesAgree
<1> QED
  BY <1>1, <1>2 DEF Init, PromiseInv

\* A conflict with a committed binding stays one.
LEMMA ConflictStays ==
    ASSUME TypeInv, NEW c \in Calls, Registry!Record(c),
           NEW w \in Writes, ValidArticleWrite(w), Registry!Conflicts(w)
    PROVE  Registry!Conflicts(w)'
<1>1. BindingStays /\ TypeOK
  BY RecordKeepsBindings DEF TypeInv
<1>2. /\ w.article \in Articles /\ w.hist \in Histories /\ ScopedKeysOf(w) \subseteq ScopedKeys
  BY ValidWriteTypes
<1>3. CASE articles[w.article] # NoRow /\ articles[w.article].feed # w.feed
  BY <1>1, <1>2, <1>3 DEF Registry!Conflicts, BindingStays
<1>4. CASE \E k \in ScopedKeysOf(w) : keyOwner[k] \notin {None, w.article}
  BY <1>1, <1>2, <1>4, SameRecords DEF Registry!Conflicts, BindingStays
<1>5. CASE history[w.hist] # None /\ (history[w.hist].article # w.article \/ history[w.hist].feed # w.feed)
  BY <1>1, <1>2, <1>5 DEF Registry!Conflicts, BindingStays
<1> QED
  BY <1>3, <1>4, <1>5, SameRecords DEF Registry!Conflicts

\* Recording one more candidate takes nothing from those already recorded.
LEMMA RecordKeepsPromise ==
    ASSUME PromiseInv, NEW c \in Calls, Registry!Record(c), StepInv'
    PROVE  PromiseInv'
<1> DEFINE w == input[c]
<1>1. TypeInv /\ TypeOK /\ BindingStays
  BY RecordKeepsBindings DEF PromiseInv, StepInv, TypeInv
<1>2. ValidArticleWrite(w) /\ w \in Writes /\ w.article \in Articles /\ w.hist \in Histories
      /\ ScopedKeysOf(w) \subseteq ScopedKeys
  BY <1>1, RecordFacts
<1>3. input' = input /\ outcome' = outcome /\ Committed' = Committed \cup {c}
  BY <1>1, RecordFacts
<1>4. InTables(w)'
  <2>1. articles'[w.article] = UpsertedRow(w, articles[w.article])
    BY <1>1, <1>2, RecordFacts DEF TypeOK
  <2>2. articles'[w.article] # NoRow /\ articles'[w.article].feed = w.feed
    BY <1>1, <1>2, <2>1, RecordFacts, UpsertedRowFacts DEF TypeOK
  <2>3. \A k \in ScopedKeysOf(w) : keyOwner'[k] = w.article
    BY <1>1, <1>2, RecordFacts
  <2>4. HistoryRowOf(w) # None
    BY <1>2, ValidWriteTypes, SentinelAssumption
  <2>5. /\ history'[w.hist] # None
        /\ history'[w.hist].article = w.article /\ history'[w.hist].feed = w.feed
    <3>1. history'[w.hist] = IF history[w.hist] = None THEN HistoryRowOf(w) ELSE history[w.hist]
      BY <1>1, <1>2, RecordFacts DEF TypeOK
    <3>2. HistoryRowOf(w).article = w.article /\ HistoryRowOf(w).feed = w.feed
      BY DEF HistoryRowOf
    <3> QED
      BY <1>1, <2>4, <3>1, <3>2, RecordFacts
  <2> QED
    BY <1>3, <2>2, <2>3, <2>5 DEF InTables
<1>5. ASSUME NEW d \in Committed
      PROVE  ValidArticleWrite(input[d]) /\ InTables(input[d])'
  <2>1. ValidArticleWrite(input[d]) /\ InTables(input[d]) /\ input[d] \in Writes
    BY <1>1 DEF PromiseInv, Committed, TypeOK
  <2>2. /\ input[d].article \in Articles /\ input[d].hist \in Histories
        /\ ScopedKeysOf(input[d]) \subseteq ScopedKeys /\ input[d].article # None
    BY <2>1, ValidWriteTypes, SentinelAssumption
  <2> QED
    BY <1>1, <1>3, <2>1, <2>2 DEF InTables, BindingStays
<1>6. ScopesAgree'
  <2>1. ASSUME NEW k \in ScopedKeys, keyOwner'[k] # None
        PROVE  articles'[keyOwner'[k]] # NoRow /\ articles'[keyOwner'[k]].feed = k[1]
    <3>1. CASE k \in ScopedKeysOf(w)
      <4>1. k[1] = w.feed /\ keyOwner'[k] = w.article
        BY <1>1, <3>1, RecordFacts DEF ScopedKeysOf
      <4> QED
        BY <1>3, <1>4, <4>1 DEF InTables
    <3>2. CASE k \notin ScopedKeysOf(w)
      <4>1. keyOwner'[k] = keyOwner[k] /\ keyOwner[k] \in Articles
        BY <1>1, <2>1, <3>2, RecordFacts DEF TypeOK
      <4> QED
        BY <1>1, <2>1, <4>1 DEF PromiseInv, ScopesAgree, BindingStays
    <3> QED
      BY <3>1, <3>2
  <2>2. ASSUME NEW h \in Histories, history'[h] # None
        PROVE  /\ articles'[history'[h].article] # NoRow
               /\ articles'[history'[h].article].feed = history'[h].feed
    <3>1. CASE h = w.hist
      BY <1>3, <1>4, <3>1 DEF InTables
    <3>2. CASE h # w.hist
      <4>1. history'[h] = history[h] /\ history[h].article \in Articles
        BY <1>1, <2>2, <3>2, RecordFacts DEF TypeOK, HistoryRow
      <4> QED
        BY <1>1, <2>2, <4>1 DEF PromiseInv, ScopesAgree, BindingStays
    <3> QED
      BY <3>1, <3>2
  <2> QED
    BY <2>1, <2>2 DEF ScopesAgree
<1>7. ASSUME NEW d \in Calls, outcome'[d] = "rejected"
      PROVE  ValidArticleWrite(input[d]) /\ Registry!Conflicts(input[d])'
  <2>1. ValidArticleWrite(input[d]) /\ Registry!Conflicts(input[d]) /\ input[d] \in Writes
    BY <1>1, <1>3, <1>7 DEF PromiseInv, TypeOK
  <2>2. \A x \in Writes : ValidArticleWrite(x) /\ Registry!Conflicts(x) =>
           Registry!Conflicts(x)'
    BY <1>1, ConflictStays
  <2> QED
    BY <1>3, <2>1, <2>2 DEF Registry!Conflicts
<1> QED
  BY <1>2, <1>3, <1>4, <1>5, <1>6, <1>7 DEF PromiseInv

\* Every step keeps the promise.
LEMMA PromiseStep ==
    ASSUME PromiseInv, [Next]_vars
    PROVE  PromiseInv'
<1>1. StepInv'
  BY StepInvStep DEF PromiseInv
<1>2. CASE \E c \in Calls : Registry!Record(c)
  BY <1>1, <1>2, RecordKeepsPromise
<1>3. CASE /\ UNCHANGED <<bindings, input>> /\ Committed' = Committed
           /\ outcome' = outcome \/ \E c \in Calls : Registry!Answer(c)
  <2>1. ScopesAgree' /\ \A c \in Committed' : ValidArticleWrite(input'[c]) /\ InTables(input[c])'
    BY <1>3 DEF PromiseInv, ScopesAgree, InTables, bindings
  <2>2. \A c \in Calls : Registry!Conflicts(input[c])' = Registry!Conflicts(input[c])
    BY <1>3 DEF Registry!Conflicts, bindings
  <2>3. ASSUME NEW c \in Calls
        PROVE  /\ outcome'[c] = "ok" => c \in Committed'
               /\ outcome'[c] = "rejected" =>
                     ValidArticleWrite(input'[c]) /\ Registry!Conflicts(input[c])'
    <3>1. CASE outcome'[c] = outcome[c]
      BY <1>3, <2>2, <3>1 DEF PromiseInv
    <3>2. CASE outcome'[c] # outcome[c]
      <4>1. PICK d \in Calls : Registry!Answer(d)
        BY <1>3, <3>2
      <4>2. PICK o \in {"ok", "rejected", "constraint", "invalid", "failed"} :
               /\ o = "ok" => d \in Committed
               /\ o = "rejected" => ValidArticleWrite(input[d]) /\ Registry!Conflicts(input[d])
               /\ outcome' = [outcome EXCEPT ![d] = o]
        BY <4>1, SameRecords DEF Registry!Answer
      <4>3. d = c /\ outcome'[c] = o
        BY <3>2, <4>2 DEF PromiseInv, StepInv, TypeInv, TypeOK
      <4> QED
        BY <1>3, <2>2, <4>2, <4>3
    <3> QED
      BY <3>1, <3>2
  <2> QED
    BY <1>1, <2>1, <2>3 DEF PromiseInv
<1> QED
  BY <1>2, <1>3, RegistrySteps DEF PromiseInv

\* A nil error is a lasting fact: the article, its keys and its history are bound.
THEOREM AckDurable == Spec => []AckedIsDurable
<1>1. Spec => []PromiseInv
  BY PromiseInit, PromiseStep, PTL DEF Spec
<1>2. PromiseInv => AckedIsDurable
  BY DEF PromiseInv, AckedIsDurable, InTables
<1> QED
  BY <1>1, <1>2, PTL

\* Keys and history never leave the feed of their article.
THEOREM ScopesAlwaysAgree == Spec => []ScopesAgree
<1>1. Spec => []PromiseInv
  BY PromiseInit, PromiseStep, PTL DEF Spec
<1>2. PromiseInv => ScopesAgree
  BY DEF PromiseInv
<1> QED
  BY <1>1, <1>2, PTL

\* A refusal over a binding is about one that is committed and stays, so that no retry
\* can succeed, also while UpsertFeed adds feeds.
THEOREM RejectionsAreFinal == Spec => []RejectionIsFinal
<1>1. Spec => []PromiseInv
  BY PromiseInit, PromiseStep, PTL DEF Spec
<1>2. PromiseInv => RejectionIsFinal
  BY DEF PromiseInv, RejectionIsFinal
<1> QED
  BY <1>1, <1>2, PTL

-------------------------------------------------------------------------------
(* The origin of rows. *)

\* The retrievals of an article that have been committed.
Retrievals(a) == {input[c].at : c \in {d \in Committed : input[d].article = a}}

TracedInv == PromiseInv /\ NothingHalfWritten /\ RetrievalWindow

\* With empty tables there is nothing to trace.
LEMMA TracedInit == Init => TracedInv
<1> SUFFICES ASSUME Init PROVE TracedInv
  OBVIOUS
<1>1. Committed = {}
  BY DEF Init, Committed
<1>2. NothingHalfWritten /\ RetrievalWindow
  BY <1>1 DEF Init, NothingHalfWritten, RetrievalWindow
<1> QED
  BY <1>2, PromiseInit DEF TracedInv

\* What recording writes is the candidate's, and what it leaves has its origin still.
LEMMA RecordIsTraced ==
    ASSUME TracedInv, NEW c \in Calls, Registry!Record(c)
    PROVE  NothingHalfWritten'
<1> DEFINE w == input[c]
<1>1. TypeInv /\ TypeOK /\ NothingHalfWritten
  BY DEF TracedInv, PromiseInv, StepInv, TypeInv
<1>2. w \in Writes /\ ValidArticleWrite(w) /\ w.article \in Articles /\ w.hist \in Histories
  BY <1>1, RecordFacts
<1>3. /\ input' = input /\ outcome' = outcome /\ Committed' = Committed \cup {c}
      /\ outcome[c] \in {"running", "failed"}
  BY <1>1, RecordFacts
<1>4. \A d \in Committed' : outcome'[d] \notin {"rejected", "constraint", "invalid"}
  BY <1>1, <1>3 DEF NothingHalfWritten
<1>5. ASSUME NEW a \in Articles, articles'[a] # NoRow
      PROVE  \E d \in Committed' : input'[d].article = a /\ input'[d].body = articles'[a].body
  <2>1. CASE a = w.article
    <3>1. articles'[a] = UpsertedRow(w, articles[a])
      BY <1>1, <1>2, <2>1, RecordFacts DEF TypeOK
    <3>2. articles[a] \in ArticleRow \cup {NoRow}
      BY <1>1 DEF TypeOK
    <3>3. UpsertedRow(w, articles[a]).body = w.body
      BY <3>2 DEF UpsertedRow, ArticleRow
    <3> QED
      BY <1>3, <2>1, <3>1, <3>3
  <2>2. CASE a # w.article
    <3>1. articles'[a] = articles[a]
      BY <1>1, <2>2, RecordFacts DEF TypeOK
    <3> QED
      BY <1>1, <1>3, <1>5, <3>1 DEF NothingHalfWritten
  <2> QED
    BY <2>1, <2>2
<1>6. ASSUME NEW k \in ScopedKeys, keyOwner'[k] # None
      PROVE  \E d \in Committed' : input'[d].article = keyOwner'[k] /\ k \in ScopedKeysOf(input'[d])
  <2>1. keyOwner'[k] = IF k \in ScopedKeysOf(w) THEN w.article ELSE keyOwner[k]
    BY <1>1, RecordFacts
  <2> QED
    BY <1>1, <1>3, <1>6, <2>1 DEF NothingHalfWritten
<1>7. ASSUME NEW h \in Histories, history'[h] # None
      PROVE  \E d \in Committed' : input'[d].hist = h /\ HistoryRowOf(input'[d]) = history'[h]
  <2>1. \/ h = w.hist /\ history[h] = None /\ history'[h] = HistoryRowOf(w)
        \/ history'[h] = history[h]
    BY <1>1, <1>2, RecordFacts DEF TypeOK
  <2> QED
    BY <1>1, <1>3, <1>7, <2>1 DEF NothingHalfWritten
<1> QED
  BY <1>3, <1>4, <1>5, <1>6, <1>7 DEF NothingHalfWritten, ScopedKeysOf, HistoryRowOf

\* The window of the article that is recorded takes in its retrieval and no other one.
LEMMA RecordWidensWindow ==
    ASSUME TracedInv, NEW c \in Calls, Registry!Record(c)
    PROVE  RetrievalWindow'
<1> DEFINE w == input[c]
<1>1. TypeInv /\ TypeOK
  BY DEF TracedInv, PromiseInv, StepInv, TypeInv
<1>2. w \in Writes /\ ValidArticleWrite(w) /\ w.article \in Articles /\ w.at \in Nat
  BY <1>1, RecordFacts, ValidWriteTypes, TimesAssumption
<1>3. input' = input /\ Committed' = Committed \cup {c}
  BY <1>1, RecordFacts
<1> SUFFICES ASSUME NEW a \in Articles, Retrievals(a)' # {}
             PROVE  /\ articles'[a].first \in Retrievals(a)' /\ articles'[a].last \in Retrievals(a)'
                    /\ \A t \in Retrievals(a)' : articles'[a].first <= t /\ t <= articles'[a].last
  BY DEF RetrievalWindow, Retrievals
<1>4. Retrievals(a) # {} =>
         /\ articles[a].first \in Retrievals(a) /\ articles[a].last \in Retrievals(a)
         /\ \A t \in Retrievals(a) : articles[a].first <= t /\ t <= articles[a].last
  BY DEF TracedInv, RetrievalWindow, Retrievals
<1>5. CASE a # w.article
  <2>1. articles'[a] = articles[a]
    BY <1>1, <1>5, RecordFacts DEF TypeOK
  <2>2. Retrievals(a)' = Retrievals(a)
    BY <1>3, <1>5 DEF Retrievals
  <2> QED
    BY <1>4, <2>1, <2>2
<1>6. CASE a = w.article
  <2>1. articles'[a] = UpsertedRow(w, articles[a])
    BY <1>1, <1>2, <1>6, RecordFacts DEF TypeOK
  <2>2. Retrievals(a)' = Retrievals(a) \cup {w.at}
    BY <1>3, <1>6 DEF Retrievals
  <2>3. CASE articles[a] = NoRow
    <3>1. Retrievals(a) = {}
      BY <2>3 DEF Retrievals, TracedInv, PromiseInv, InTables
    <3>2. articles'[a].first = w.at /\ articles'[a].last = w.at
      BY <2>1, <2>3 DEF UpsertedRow
    <3> QED
      BY <1>2, <2>2, <3>1, <3>2
  <2>4. CASE articles[a] # NoRow
    <3>1. PICK d \in Committed : input[d].article = a
      BY <2>4 DEF TracedInv, NothingHalfWritten
    <3>2. Retrievals(a) # {}
      BY <3>1 DEF Retrievals
    <3>3. articles[a] \in ArticleRow
      BY <1>1, <2>4 DEF TypeOK
    <3>4. articles[a].first \in Nat /\ articles[a].last \in Nat
      BY <3>3, TimesAssumption DEF ArticleRow
    <3>5. \A t \in Retrievals(a) : t \in Nat
      <4> SUFFICES ASSUME NEW e \in Committed PROVE input[e].at \in Nat
        BY DEF Retrievals
      <4>1. ValidArticleWrite(input[e]) /\ input[e] \in Writes
        BY <1>1 DEF TracedInv, PromiseInv, Committed, TypeOK
      <4> QED
        BY <4>1, ValidWriteTypes, TimesAssumption
    <3>6. /\ articles'[a].first = Least(articles[a].first, w.at)
          /\ articles'[a].last = Greatest(articles[a].last, w.at)
      BY <2>1, <2>4, <3>3 DEF UpsertedRow, ArticleRow
    <3> QED
      BY <1>2, <1>4, <2>2, <3>2, <3>4, <3>5, <3>6 DEF Least, Greatest
  <2> QED
    BY <2>3, <2>4
<1> QED
  BY <1>5, <1>6

\* A call is answered as refused or invalid only if it is not recorded, nor ever will be.
LEMMA AnswerIsTraced ==
    ASSUME TracedInv, UNCHANGED <<bindings, input>>, Committed' = Committed,
           outcome' = outcome \/ \E c \in Calls : Registry!Answer(c)
    PROVE  NothingHalfWritten' /\ RetrievalWindow'
<1>1. ASSUME NEW c \in Committed PROVE outcome'[c] \notin {"rejected", "constraint", "invalid"}
  <2>1. CASE outcome'[c] = outcome[c]
    BY <2>1 DEF TracedInv, NothingHalfWritten
  <2>2. CASE outcome'[c] # outcome[c]
    <3>1. PICK d \in Calls : Registry!Answer(d)
      BY <2>2
    <3>2. PICK o \in {"ok", "rejected", "constraint", "invalid", "failed"} :
             /\ o = "invalid" => ~ValidArticleWrite(input[d])
             /\ o \in {"rejected", "constraint"} => d \notin Committed
             /\ outcome' = [outcome EXCEPT ![d] = o]
      BY <3>1, SameRecords DEF Registry!Answer
    <3>3. d = c /\ outcome'[c] = o
      BY <2>2, <3>2 DEF TracedInv, PromiseInv, StepInv, TypeInv, TypeOK
    <3> QED
      BY <3>2, <3>3 DEF TracedInv, PromiseInv
  <2> QED
    BY <2>1, <2>2
<1> QED
  BY <1>1 DEF TracedInv, NothingHalfWritten, RetrievalWindow, bindings

\* Every step keeps the origin of every row.
LEMMA TracedStep == TracedInv /\ [Next]_vars => TracedInv'
<1> SUFFICES ASSUME TracedInv, [Next]_vars PROVE TracedInv'
  OBVIOUS
<1>1. PromiseInv' /\ StepInv
  BY PromiseStep DEF TracedInv, PromiseInv
<1>2. NothingHalfWritten' /\ RetrievalWindow'
  BY <1>1, RegistrySteps, RecordIsTraced, RecordWidensWindow, AnswerIsTraced
<1> QED
  BY <1>1, <1>2 DEF TracedInv

\* No call of UpsertArticle that was refused leaves anything behind, and every row is
\* the work of one that committed, whatever happens to the others half-way.
THEOREM RowsAreTraced == Spec => []NothingHalfWritten
<1>1. TracedInv => NothingHalfWritten
  BY DEF TracedInv
<1> QED
  BY <1>1, TracedInit, TracedStep, PTL DEF Spec

\* An article's window spans exactly its committed retrievals, in whatever order they
\* commit: LEAST and GREATEST of the upsert lose no update.
THEOREM WindowIsExact == Spec => []RetrievalWindow
<1>1. TracedInv => RetrievalWindow
  BY DEF TracedInv
<1> QED
  BY <1>1, TracedInit, TracedStep, PTL DEF Spec

-------------------------------------------------------------------------------
(* The order of locks. *)

\* A transaction holds nothing before its article row, no key after the one that it is
\* at, and no history row before it is done with the keys.
Ordered(c) ==
    srv[c] = "open" =>
        /\ pc[c] = "article" => row[c] = NoRow /\ inserted[c] = {}
        /\ pc[c] \in {"article", "insertKey", "verifyKey", "insertHistory"} => ~logged[c]
        /\ pc[c] \in {"insertKey", "verifyKey"} =>
              \A k \in inserted[c] : \E i \in DOMAIN input[c].keys :
                  /\ <<input[c].feed, input[c].keys[i]>> = k
                  /\ i < cursor[c] \/ (i = cursor[c] /\ pc[c] = "verifyKey")

OrderInv == StepInv /\ \A c \in Calls : Ordered(c)

\* A step that leaves a call without an open transaction, or past its history row,
\* leaves it no lock to take.
LEMMA LateSteps ==
    ASSUME StepInv, NEW c \in Calls,
           \/ Validate(c) \/ VerifyHistory(c) \/ InsertHistory(c) \/ SendCommit(c) \/ ServerCommit(c)
           \/ CommitReturns(c) \/ ServerAbort(c) \/ StatementFails(c) \/ Rollback(c) \/ GiveUp(c)
    PROVE  Ordered(c)'
<1>1. TypeOK /\ PhaseOK(c)
  BY DEF StepInv, TypeInv, Phases
<1>2. CASE Validate(c)
  BY <1>1, <1>2 DEF Validate, TypeOK, PhaseOK, Ordered
<1>3. CASE SendCommit(c) \/ ServerCommit(c) \/ ServerAbort(c)
  BY <1>1, <1>3 DEF SendCommit, ServerCommit, ServerAbort, EndTransaction, TypeOK, Ordered
<1>4. CASE VerifyHistory(c)
  BY <1>1, <1>4 DEF VerifyHistory, ReturnError, TypeOK, Ordered
<1>5. CASE InsertHistory(c)
  BY <1>1, <1>5 DEF InsertHistory, TypeOK, Ordered
<1>6. CASE CommitReturns(c) \/ StatementFails(c) \/ Rollback(c) \/ GiveUp(c)
  BY <1>1, <1>6 DEF CommitReturns, StatementFails, Rollback, GiveUp, ReturnError, TypeOK, Ordered
<1> QED
  BY <1>2, <1>3, <1>4, <1>5, <1>6

\* A transaction begins with nothing and takes its article row before any key.
LEMMA EarlySteps ==
    ASSUME StepInv, NEW c \in Calls, Ordered(c), Begin(c) \/ UpsertArticleRow(c)
    PROVE  Ordered(c)'
<1>1. TypeOK /\ PhaseOK(c)
  BY DEF StepInv, TypeInv, Phases
<1>2. CASE Begin(c)
  <2>1. pc'[c] = "article" /\ srv[c] = "none" /\ UNCHANGED overlay
    BY <1>1, <1>2 DEF Begin, TypeOK, PhaseOK
  <2> QED
    BY <1>1, <2>1 DEF PhaseOK, Ordered, overlay
<1>3. CASE UpsertArticleRow(c)
  <2>1. pc[c] = "article" /\ srv[c] = "open" /\ inserted[c] = {} /\ ~logged[c]
    BY <1>3 DEF UpsertArticleRow, Executes, Ordered
  <2>2. pc'[c] \in {"insertKey", "insertHistory", "rollback"}
    BY <1>1, <1>3 DEF UpsertArticleRow, ReturnError, AtKey, TypeOK
  <2>3. srv'[c] = "open" => inserted'[c] = inserted[c] /\ logged'[c] = logged[c]
    BY <1>1, <1>3 DEF UpsertArticleRow, EndTransaction, TypeOK
  <2> QED
    BY <2>1, <2>2, <2>3 DEF Ordered
<1> QED
  BY <1>2, <1>3

\* The key loop takes the keys as they are listed.
LEMMA KeySteps ==
    ASSUME StepInv, NEW c \in Calls, Ordered(c), InsertKey(c) \/ VerifyKey(c)
    PROVE  Ordered(c)'
<1>1. TypeOK /\ PhaseOK(c)
  BY DEF StepInv, TypeInv, Phases
<1>2. srv[c] = "open" /\ ~logged[c] /\ cursor[c] \in DOMAIN input[c].keys /\ cursor[c] \in Nat
  BY <1>1 DEF InsertKey, VerifyKey, Executes, Ordered, PhaseOK, TypeOK
<1>3. input' = input /\ logged' = logged
  BY DEF InsertKey, VerifyKey, overlay
<1>4. CASE InsertKey(c)
  <2>1. /\ pc[c] = "insertKey" /\ pc'[c] = "verifyKey" /\ cursor' = cursor
        /\ inserted'[c] \subseteq inserted[c] \cup {CurrentKey(c)}
    BY <1>1, <1>4 DEF InsertKey, Executes, TypeOK
  <2>2. \A k \in inserted[c] : \E i \in DOMAIN input[c].keys :
           <<input[c].feed, input[c].keys[i]>> = k /\ i < cursor[c]
    BY <1>2, <2>1 DEF Ordered
  <2>3. ASSUME NEW k \in inserted'[c]
        PROVE  \E i \in DOMAIN input'[c].keys :
                  /\ <<input'[c].feed, input'[c].keys[i]>> = k
                  /\ i < cursor'[c] \/ (i = cursor'[c] /\ pc'[c] = "verifyKey")
    BY <1>2, <1>3, <2>1, <2>2 DEF CurrentKey
  <2> QED
    BY <1>2, <1>3, <2>1, <2>3 DEF Ordered
<1>5. CASE VerifyKey(c)
  <2>1. /\ pc[c] = "verifyKey" /\ inserted' = inserted /\ srv' = srv
        /\ \/ cursor'[c] = cursor[c] + 1 /\ pc'[c] \in {"insertKey", "insertHistory"}
           \/ pc'[c] = "rollback"
    BY <1>1, <1>5 DEF VerifyKey, Executes, ReturnError, AtKey, TypeOK, overlay
  <2>2. CASE cursor'[c] = cursor[c] + 1 /\ pc'[c] \in {"insertKey", "insertHistory"}
    <3>1. \A k \in inserted[c] : \E i \in DOMAIN input[c].keys :
             /\ <<input[c].feed, input[c].keys[i]>> = k
             /\ i < cursor[c] \/ i = cursor[c]
      BY <1>2, <2>1 DEF Ordered
    <3>2. DOMAIN input[c].keys \subseteq Nat
      <4>1. input[c] \in Writes
        BY <1>1 DEF TypeOK
      <4> QED
        BY <4>1, WritesAssumption DEF ArticleWrite
    <3>3. \A k \in inserted'[c] : \E i \in DOMAIN input'[c].keys :
             <<input'[c].feed, input'[c].keys[i]>> = k /\ i < cursor'[c]
      BY <1>2, <1>3, <2>1, <2>2, <3>1, <3>2
    <3> QED
      BY <1>2, <1>3, <2>1, <2>2, <3>3 DEF Ordered
  <2>3. CASE pc'[c] = "rollback"
    BY <2>3 DEF Ordered
  <2> QED
    BY <2>1, <2>2, <2>3
<1> QED
  BY <1>4, <1>5

\* Every step keeps the order of locks.
LEMMA OrderStep == OrderInv /\ [Next]_vars => OrderInv'
<1> SUFFICES ASSUME OrderInv, [Next]_vars PROVE OrderInv'
  OBVIOUS
<1>1. StepInv' /\ TypeOK
  BY StepInvStep DEF OrderInv, StepInv, TypeInv
<1>2. CASE UNCHANGED vars
  BY <1>1, <1>2 DEF OrderInv, Ordered, vars, tables, overlay
<1>3. ASSUME NEW f \in Feeds, AddFeed(f) PROVE OrderInv'
  BY <1>1, <1>3 DEF OrderInv, Ordered, AddFeed, bindings, overlay
<1>4. ASSUME NEW c \in Calls, StepOf(c) PROVE OrderInv'
  <2>1. Ordered(c)'
    BY <1>4, LateSteps, EarlySteps, KeySteps DEF OrderInv, StepOf, ClientStep
  <2>2. ASSUME NEW d \in Calls, d # c PROVE Ordered(d)'
    <3>1. /\ input'[d] = input[d] /\ pc'[d] = pc[d] /\ cursor'[d] = cursor[d] /\ srv'[d] = srv[d]
          /\ row'[d] = row[d] /\ inserted'[d] = inserted[d] /\ logged'[d] = logged[d]
      BY <1>1, <1>4, <2>2, StepsAreLocal DEF Local, TypeOK
    <3> QED
      BY <3>1 DEF OrderInv, Ordered
  <2> QED
    BY <1>1, <2>1, <2>2 DEF OrderInv
<1> QED
  BY <1>2, <1>3, <1>4 DEF Next, StepOf

\* Before any call has begun there is no lock.
LEMMA OrderInit == Init => OrderInv
BY StepInit DEF Init, OrderInv, Ordered

\* In a ring, everybody waits for a key: whoever waits at the article row holds nothing,
\* and whoever holds a history row waits for nothing.  A key that is waited for is held
\* by a call that has listed it before the one that it waits for itself.
LEMMA RingsAreDisorder == OrderInv => DeadlockNeedsKeyDisorder
<1> SUFFICES ASSUME OrderInv, NEW S \in SUBSET Calls, Deadlocked(S)
             PROVE  \E K \in SUBSET (UNION {ScopedKeysOf(input[c]) : c \in S}) :
                       K # {} /\ \A k \in K : \E l \in K \ {k}, c \in S : ListedBefore(c, k, l)
  BY DEF DeadlockNeedsKeyDisorder
<1>1. ASSUME NEW c \in S PROVE pc[c] = "insertKey"
  <2>1. PICK d \in S : WaitsFor(c, d)
    BY DEF Deadlocked
  <2>2. PICK e \in S : WaitsFor(e, c)
    BY DEF Deadlocked
  <2>3. PICK f \in S : WaitsFor(d, f)
    BY DEF Deadlocked
  <2>4. pc[c] # "article"
    BY <2>1, <2>2 DEF WaitsFor, OrderInv, Ordered
  <2>5. pc[c] # "insertHistory"
    BY <2>1, <2>3 DEF WaitsFor, OrderInv, Ordered
  <2> QED
    BY <2>1, <2>4, <2>5 DEF WaitsFor
<1> DEFINE K == {CurrentKey(c) : c \in S}
<1>2. K # {}
  BY DEF Deadlocked
<1>3. K \subseteq UNION {ScopedKeysOf(input[c]) : c \in S}
  <2> SUFFICES ASSUME NEW c \in S PROVE CurrentKey(c) \in ScopedKeysOf(input[c])
    OBVIOUS
  <2>1. cursor[c] \in DOMAIN input[c].keys
    BY <1>1 DEF OrderInv, StepInv, TypeInv, Phases, PhaseOK
  <2> QED
    BY <2>1 DEF CurrentKey, ScopedKeysOf
<1>4. ASSUME NEW k \in K PROVE \E l \in K \ {k}, c \in S : ListedBefore(c, k, l)
  <2>1. PICK c \in S : k = CurrentKey(c)
    OBVIOUS
  <2>2. PICK d \in S : WaitsFor(c, d)
    BY DEF Deadlocked
  <2>3. k \in inserted[d] /\ srv[d] = "open" /\ pc[d] = "insertKey"
    <3>1. k \in inserted[d]
      BY <1>1, <2>1, <2>2 DEF WaitsFor
    <3>2. \E e \in S : WaitsFor(d, e)
      BY DEF Deadlocked
    <3> QED
      BY <1>1, <3>1, <3>2 DEF WaitsFor
  <2>4. CurrentKey(d) # k
    <3>1. PICK e \in S : WaitsFor(d, e)
      BY DEF Deadlocked
    <3>2. d # e /\ CurrentKey(d) \in inserted[e]
      BY <1>1, <3>1 DEF WaitsFor
    <3> QED
      BY <2>3, <3>2 DEF OrderInv, StepInv, LocksAreExclusive
  <2>5. PICK i \in DOMAIN input[d].keys : <<input[d].feed, input[d].keys[i]>> = k /\ i < cursor[d]
    BY <2>3 DEF OrderInv, Ordered
  <2>6. cursor[d] \in DOMAIN input[d].keys
    BY <2>3 DEF OrderInv, StepInv, TypeInv, Phases, PhaseOK
  <2>7. ListedBefore(d, k, CurrentKey(d))
    BY <2>5, <2>6 DEF ListedBefore, CurrentKey
  <2> QED
    BY <2>4, <2>7
<1> QED
  BY <1>2, <1>3, <1>4

\* Callers that list the keys they share in one order never deadlock, however many run
\* and whatever articles and histories they share.
THEOREM DeadlocksNeedDisorder == Spec => []DeadlockNeedsKeyDisorder
BY OrderInit, OrderStep, RingsAreDisorder, PTL DEF Spec
===============================================================================
