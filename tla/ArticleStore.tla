----------------------------- MODULE ArticleStore -----------------------------
(***************************************************************************)
(* UpsertArticle (internal/storage/postgres/repository.go): concurrent     *)
(* calls, each one a transaction of several statements on a PostgreSQL     *)
(* backend at READ COMMITTED, over a bounded connection pool.              *)
(*                                                                         *)
(* A call has a client half, the Go function (pc, cursor, outcome), and a  *)
(* server half, its transaction (srv and the three overlays row, inserted  *)
(* and logged, which are both its uncommitted rows and the locks that it   *)
(* holds).  The halves fail apart: the backend may abort at any moment,    *)
(* and a call whose context ends returns without its backend, which holds  *)
(* its locks, or still executes a COMMIT, until it notices.  Meanwhile     *)
(* UpsertFeed adds the rows of feeds that articles refer to.               *)
(***************************************************************************)
EXTENDS ArticleRecords, FiniteSets

CONSTANTS
    Calls,    \* the calls of UpsertArticle; a caller's retry is another call
    MaxConns  \* maxConnections of store.go

ASSUME CallsAssumption    == IsFiniteSet(Calls)
ASSUME MaxConnsAssumption == MaxConns \in Nat \ {0}

VARIABLES
    input,     \* the ArticleWrite of each call
    articles,  \* committed rows of goreecloud_feeds.articles
    keyOwner,  \* committed article_identity_keys: feed and key to article_id
    history,   \* committed article_source_history
    storedFeeds, \* the feeds with a committed row in goreecloud_feeds.feeds
    pc,        \* the statement a call is at; "done" and "left": it has returned
    cursor,    \* the index in IdentityKeys of the loop in UpsertArticle
    outcome,   \* "running", or what the call returns
    srv,       \* the state of the call's transaction on the backend
    row,       \* the article row it has written, uncommitted
    inserted,  \* the identity keys it has inserted, uncommitted
    logged,    \* whether it has inserted its history row, uncommitted
    free       \* connections left in the pool

bindings == <<articles, keyOwner, history>>
tables   == <<articles, keyOwner, history, storedFeeds>>
overlay  == <<row, inserted, logged>>
vars == <<input, articles, keyOwner, history, storedFeeds, pc, cursor,
          outcome, srv, row, inserted, logged, free>>

\* The points of UpsertArticle at which the call holds a connection.
Statements == {"article", "insertKey", "verifyKey", "insertHistory",
               "verifyHistory", "commit"}
Connected  == Statements \cup {"reply", "rollback"}

\* It has returned: properly, or with its connection closed and the fate of its
\* transaction unknown to it.
Returned == {"done", "left"}

\* Faulty variant: keys kept in a Go map, whose iteration order is arbitrary.
CurrentKeyOfMap(c) ==
    LET keys == input[c].keys IN
    <<input[c].feed, keys[IF input[c].at = 1 THEN cursor[c] ELSE Len(keys) + 1 - cursor[c]]>>

CurrentKey(c) == <<input[c].feed, input[c].keys[cursor[c]]>>

\* What a SELECT of the transaction finds: its own rows over the committed ones.
KeySeen(c, k) == IF k \in inserted[c] THEN input[c].article ELSE keyOwner[k]
HistorySeen(c) == IF logged[c] THEN HistoryRowOf(input[c]) ELSE history[input[c].hist]

-------------------------------------------------------------------------------
\* An INSERT that meets a row another transaction has written and not committed
\* waits for that transaction to end, whatever its ON CONFLICT clause says.

WaitsFor(c, d) ==
    /\ c # d
    /\ srv[c] = "open"
    /\ \/ /\ pc[c] = "article" /\ ~input[c].malformed
          /\ row[d] # NoRow /\ input[d].article = input[c].article
       \/ pc[c] = "insertKey" /\ CurrentKey(c) \in inserted[d]
       \/ pc[c] = "insertHistory" /\ logged[d] /\ input[d].hist = input[c].hist

Blocked(c) == \E d \in Calls : WaitsFor(c, d)

\* Calls that wait for one another in a ring (or in several).
Deadlocked(S) ==
    /\ S # {}
    /\ \A c \in S : (\E d \in S : WaitsFor(c, d)) /\ (\E d \in S : WaitsFor(d, c))

-------------------------------------------------------------------------------
Init ==
    /\ input \in [Calls -> Writes]
    /\ articles = [a \in Articles |-> NoRow]
    /\ keyOwner = [k \in ScopedKeys |-> None]
    /\ history = [h \in Histories |-> None]
    /\ storedFeeds = InitialFeeds
    /\ pc = [c \in Calls |-> "validate"]
    /\ cursor = [c \in Calls |-> 1]
    /\ outcome = [c \in Calls |-> "running"]
    /\ srv = [c \in Calls |-> "none"]
    /\ row = [c \in Calls |-> NoRow]
    /\ inserted = [c \in Calls |-> {}]
    /\ logged = [c \in Calls |-> FALSE]
    /\ free = MaxConns

\* The error that the call returns, decided before its deferred Rollback runs.
ReturnError(c, error, next) ==
    /\ pc' = [pc EXCEPT ![c] = next]
    /\ outcome' = [outcome EXCEPT ![c] = IF @ = "running" THEN error ELSE @]

\* The transaction ends and its uncommitted rows are gone, their locks released.
EndTransaction(c, state) ==
    /\ srv' = [srv EXCEPT ![c] = state]
    /\ row' = [row EXCEPT ![c] = NoRow]
    /\ inserted' = [inserted EXCEPT ![c] = {}]
    /\ logged' = [logged EXCEPT ![c] = FALSE]

\* The client half of a statement that the backend executes for c.
Executes(c, statement) == pc[c] = statement /\ srv[c] = "open" /\ ~Blocked(c)

Validate(c) ==
    /\ pc[c] = "validate"
    /\ IF ValidArticleWrite(input[c])
       THEN pc' = [pc EXCEPT ![c] = "begin"] /\ UNCHANGED outcome
       ELSE ReturnError(c, "invalid", "done")
    /\ UNCHANGED <<input, tables, cursor, srv, overlay, free>>

\* pool.BeginTx takes a connection, waiting for one while there is none.
Begin(c) ==
    /\ pc[c] = "begin"
    /\ free > 0
    /\ free' = free - 1
    /\ pc' = [pc EXCEPT ![c] = "article"]
    /\ srv' = [srv EXCEPT ![c] = "open"]
    /\ UNCHANGED <<input, tables, cursor, outcome, overlay>>

\* Faulty variant: the loop stops before the last key.
AtKeyButLast(c, i) == IF i + 1 \in DOMAIN input[c].keys THEN "insertKey" ELSE "insertHistory"

\* The key loop, then ensureSourceHistory.
AtKey(c, i) == IF i \in DOMAIN input[c].keys THEN "insertKey" ELSE "insertHistory"

\* Faulty variant: the stored feed is not compared.
UpsertArticleRowOfAnyFeed(c) ==
    LET w == input[c]
        stored == articles[w.article] IN
    /\ Executes(c, "article")
    /\ ~ViolatesConstraint(w, stored, storedFeeds)
    /\ row' = [row EXCEPT ![c] = UpsertedRow(w, stored)]
    /\ pc' = [pc EXCEPT ![c] = AtKey(c, 1)]
    /\ UNCHANGED <<input, tables, cursor, outcome, srv, inserted, logged, free>>

\* The article upsert.  A constraint aborts the transaction on the backend; a row
\* RETURNING another feed_id makes the Go code give up with the row still locked.
UpsertArticleRow(c) ==
    LET w == input[c]
        stored == articles[w.article] IN
    /\ Executes(c, "article")
    /\ IF ViolatesConstraint(w, stored, storedFeeds)
       THEN ReturnError(c, "constraint", "rollback") /\ EndTransaction(c, "aborted")
       ELSE /\ row' = [row EXCEPT ![c] = UpsertedRow(w, stored)]
            /\ IF UpsertedRow(w, stored).feed # w.feed
               THEN ReturnError(c, "rejected", "rollback")
               ELSE pc' = [pc EXCEPT ![c] = AtKey(c, 1)] /\ UNCHANGED outcome
            /\ UNCHANGED <<srv, inserted, logged>>
    /\ UNCHANGED <<input, tables, cursor, free>>

\* Faulty variants of the key's INSERT: a row that another transaction is writing
\* is not waited for, is a conflict, or the ON CONFLICT clause assigns article_id.
InsertKeyUnlocked(c) ==
    /\ pc[c] = "insertKey" /\ srv[c] = "open"
    /\ inserted' = [inserted EXCEPT ![c] =
                      IF keyOwner[CurrentKey(c)] = None THEN @ \cup {CurrentKey(c)} ELSE @]
    /\ pc' = [pc EXCEPT ![c] = "verifyKey"]
    /\ UNCHANGED <<input, tables, cursor, outcome, srv, row, logged, free>>

InsertKeyNoWait(c) ==
    /\ pc[c] = "insertKey" /\ srv[c] = "open"
    /\ IF Blocked(c)
       THEN ReturnError(c, "rejected", "rollback") /\ UNCHANGED inserted
       ELSE /\ inserted' = [inserted EXCEPT ![c] =
                  IF keyOwner[CurrentKey(c)] = None THEN @ \cup {CurrentKey(c)} ELSE @]
            /\ pc' = [pc EXCEPT ![c] = "verifyKey"] /\ UNCHANGED outcome
    /\ UNCHANGED <<input, tables, cursor, srv, row, logged, free>>

InsertKeyDoUpdate(c) ==
    /\ Executes(c, "insertKey")
    /\ inserted' = [inserted EXCEPT ![c] = @ \cup {CurrentKey(c)}]
    /\ pc' = [pc EXCEPT ![c] = "verifyKey"]
    /\ UNCHANGED <<input, tables, cursor, outcome, srv, row, logged, free>>

\* ensureIdentityKey: INSERT ... ON CONFLICT DO NOTHING, then SELECT the owner.
InsertKey(c) ==
    /\ Executes(c, "insertKey")
    /\ inserted' = [inserted EXCEPT ![c] =
                      IF keyOwner[CurrentKey(c)] = None THEN @ \cup {CurrentKey(c)} ELSE @]
    /\ pc' = [pc EXCEPT ![c] = "verifyKey"]
    /\ UNCHANGED <<input, tables, cursor, outcome, srv, row, logged, free>>

\* Faulty variant: the key's owner is read and not compared.
VerifyKeyUncompared(c) ==
    /\ Executes(c, "verifyKey")
    /\ cursor' = [cursor EXCEPT ![c] = @ + 1]
    /\ pc' = [pc EXCEPT ![c] = AtKey(c, cursor[c] + 1)]
    /\ UNCHANGED <<input, tables, outcome, srv, overlay, free>>

VerifyKey(c) ==
    /\ Executes(c, "verifyKey")
    /\ IF KeySeen(c, CurrentKey(c)) = input[c].article
       THEN /\ cursor' = [cursor EXCEPT ![c] = @ + 1]
            /\ pc' = [pc EXCEPT ![c] = AtKey(c, cursor[c] + 1)]
            /\ UNCHANGED outcome
       ELSE ReturnError(c, "rejected", "rollback") /\ UNCHANGED cursor
    /\ UNCHANGED <<input, tables, srv, overlay, free>>

\* ensureSourceHistory, in the same two statements.
InsertHistory(c) ==
    /\ Executes(c, "insertHistory")
    /\ logged' = [logged EXCEPT ![c] = history[input[c].hist] = None]
    /\ pc' = [pc EXCEPT ![c] = "verifyHistory"]
    /\ UNCHANGED <<input, tables, cursor, outcome, srv, row, inserted, free>>

\* Faulty variant: the error is kept for later and the transaction commits.
VerifyHistoryButCommit(c) ==
    LET seen == HistorySeen(c) IN
    /\ Executes(c, "verifyHistory")
    /\ IF seen.article = input[c].article /\ seen.feed = input[c].feed
       THEN pc' = [pc EXCEPT ![c] = "commit"] /\ UNCHANGED outcome
       ELSE ReturnError(c, "rejected", "commit")
    /\ UNCHANGED <<input, tables, cursor, srv, overlay, free>>

VerifyHistory(c) ==
    LET seen == HistorySeen(c) IN
    /\ Executes(c, "verifyHistory")
    /\ IF seen.article = input[c].article /\ seen.feed = input[c].feed
       THEN pc' = [pc EXCEPT ![c] = "commit"] /\ UNCHANGED outcome
       ELSE ReturnError(c, "rejected", "rollback")
    /\ UNCHANGED <<input, tables, cursor, srv, overlay, free>>

SendCommit(c) ==
    /\ Executes(c, "commit")
    /\ pc' = [pc EXCEPT ![c] = "reply"]
    /\ srv' = [srv EXCEPT ![c] = "committing"]
    /\ UNCHANGED <<input, tables, cursor, outcome, overlay, free>>

\* The backend makes the transaction's rows visible and releases its locks.
ServerCommit(c) ==
    LET a == input[c].article IN
    /\ srv[c] = "committing"
    /\ articles' = [articles EXCEPT ![a] = row[c]]
    /\ keyOwner' = [k \in ScopedKeys |-> IF k \in inserted[c] THEN a ELSE keyOwner[k]]
    /\ history' = [history EXCEPT ![input[c].hist] =
                     IF logged[c] THEN HistoryRowOf(input[c]) ELSE @]
    /\ EndTransaction(c, "committed")
    /\ UNCHANGED <<input, storedFeeds, pc, cursor, outcome, free>>

\* Faulty variant: the deferred Rollback gives the connection back once more.
CommitReturnsTwice(c) ==
    /\ pc[c] = "reply"
    /\ \/ srv[c] = "committed" /\ ReturnError(c, "ok", "rollback")
       \/ srv[c] = "aborted" /\ ReturnError(c, "failed", "rollback")
    /\ free' = free + 1
    /\ UNCHANGED <<input, tables, cursor, srv, overlay>>

\* tx.Commit gets its answer and gives the connection back in either case.
CommitReturns(c) ==
    /\ pc[c] = "reply"
    /\ \/ srv[c] = "committed" /\ ReturnError(c, "ok", "done")
       \/ srv[c] = "aborted" /\ ReturnError(c, "failed", "done")
    /\ free' = free + 1
    /\ UNCHANGED <<input, tables, cursor, srv, overlay>>

\* The backend gives the transaction up: it was the victim of the deadlock
\* detector, its client's connection is gone, the server stops, a statement fails.
ServerAbort(c) ==
    /\ srv[c] \in {"open", "committing"}
    /\ EndTransaction(c, "aborted")
    /\ UNCHANGED <<input, tables, pc, cursor, outcome, free>>

\* The client learns of that from its next statement.
StatementFails(c) ==
    /\ pc[c] \in Statements
    /\ srv[c] = "aborted"
    /\ ReturnError(c, "failed", "rollback")
    /\ UNCHANGED <<input, tables, cursor, srv, overlay, free>>

\* Faulty variants: an error is returned without the deferred tx.Rollback, and the
\* transaction rolls back but its connection is not given back.
RollbackForgotten(c) ==
    /\ pc[c] = "rollback"
    /\ pc' = [pc EXCEPT ![c] = "done"]
    /\ UNCHANGED <<input, tables, cursor, outcome, srv, overlay, free>>

RollbackLeaking(c) ==
    /\ pc[c] = "rollback"
    /\ pc' = [pc EXCEPT ![c] = "done"]
    /\ EndTransaction(c, "aborted")
    /\ UNCHANGED <<input, tables, cursor, outcome, free>>

\* The deferred tx.Rollback, then the connection goes back to the pool.
Rollback(c) ==
    /\ pc[c] = "rollback"
    /\ pc' = [pc EXCEPT ![c] = "done"]
    /\ free' = free + 1
    /\ EndTransaction(c, "aborted")
    /\ UNCHANGED <<input, tables, cursor, outcome>>

\* The context ends, or the connection breaks.  Rollback uses that context too:
\* the pool closes the connection and the backend is left to find out by itself.
GiveUp(c) ==
    /\ pc[c] \in {"begin"} \cup Connected
    /\ ReturnError(c, "failed", "left")
    /\ free' = IF pc[c] = "begin" THEN free ELSE free + 1
    /\ UNCHANGED <<input, tables, cursor, srv, overlay>>

\* UpsertFeed inserts the row of a new feed, in one statement; nothing deletes one.
AddFeed(f) ==
    /\ f \notin storedFeeds
    /\ storedFeeds' = storedFeeds \cup {f}
    /\ UNCHANGED <<input, bindings, pc, cursor, outcome, srv, overlay, free>>

-------------------------------------------------------------------------------
ClientStep(c) ==
    \/ Validate(c) \/ Begin(c) \/ UpsertArticleRow(c)
    \/ InsertKey(c) \/ VerifyKey(c) \/ InsertHistory(c) \/ VerifyHistory(c)
    \/ SendCommit(c) \/ CommitReturns(c) \/ StatementFails(c) \/ Rollback(c)

Next ==
    \/ \E c \in Calls : ClientStep(c) \/ ServerCommit(c) \/ ServerAbort(c) \/ GiveUp(c)
    \/ \E f \in Feeds : AddFeed(f)

\* The Go scheduler runs every call that can go on; PostgreSQL finishes a COMMIT,
\* notices a closed connection, and breaks every ring of waiting transactions.
\* Neither a cancellation nor any other abort has to happen: the transaction of a
\* call that returned and kept its connection open stays open on the backend too.
Fairness ==
    /\ \A c \in Calls : /\ WF_vars(ClientStep(c))
                        /\ WF_vars(ServerCommit(c))
                        /\ WF_vars(pc[c] = "left" /\ ServerAbort(c))
    /\ WF_vars(\E S \in SUBSET Calls : Deadlocked(S) /\ \E c \in S : ServerAbort(c))

Spec == Init /\ [][Next]_vars
FairSpec == Spec /\ Fairness
-------------------------------------------------------------------------------
\* The calls whose transaction has committed, whatever they have been told.
Committed == {c \in Calls : srv[c] = "committed"}

\* The promise: each transaction as one step, taken when it commits.
Registry == INSTANCE ArticleRegistry WITH recorded <- Committed

\* Types: of the tables, of the overlays, and of the pool's count of connections,
\* which neither a leaked nor a twice released connection may take out of range.
TypeOK ==
    /\ input \in [Calls -> Writes]
    /\ articles \in [Articles -> ArticleRow \cup {NoRow}]
    /\ keyOwner \in [ScopedKeys -> Articles \cup {None}]
    /\ history \in [Histories -> HistoryRow \cup {None}]
    /\ storedFeeds \subseteq Feeds
    /\ pc \in [Calls -> {"validate", "begin", "done", "left"} \cup Connected]
    /\ cursor \in [Calls -> Nat \ {0}]
    /\ outcome \in [Calls -> {"running", "ok", "rejected", "constraint", "invalid", "failed"}]
    /\ srv \in [Calls -> {"none", "open", "committing", "committed", "aborted"}]
    /\ row \in [Calls -> ArticleRow \cup {NoRow}]
    /\ inserted \in [Calls -> SUBSET ScopedKeys]
    /\ logged \in [Calls -> BOOLEAN]
    /\ free \in 0 .. MaxConns

\* No two transactions hold the same row at once: ON CONFLICT waits for the other
\* transaction, so neither overwrites nor duplicates what the other is writing.
LocksAreExclusive ==
    \A c, d \in Calls : c # d =>
        /\ row[c] # NoRow /\ row[d] # NoRow => input[c].article # input[d].article
        /\ inserted[c] \cap inserted[d] = {}
        /\ logged[c] /\ logged[d] => input[c].hist # input[d].hist

\* Identity keys and source history stay within the scope of the feed that the
\* article is bound to, whatever calls race (the composite foreign keys of
\* 0001_initial.sql; UpsertArticle compares feeds before it writes either).
ScopesAgree ==
    /\ \A k \in ScopedKeys : keyOwner[k] # None =>
          /\ articles[keyOwner[k]] # NoRow
          /\ articles[keyOwner[k]].feed = k[1]
    /\ \A h \in Histories : history[h] # None =>
          /\ articles[history[h].article] # NoRow
          /\ articles[history[h].article].feed = history[h].feed

\* A call that returned nil is in the tables for good: its article under its feed,
\* every one of its keys owned by it, its history identifier bound to it.
AckedIsDurable ==
    \A c \in Calls : outcome[c] = "ok" =>
        LET w == input[c] IN
        /\ articles[w.article] # NoRow
        /\ articles[w.article].feed = w.feed
        /\ \A k \in ScopedKeysOf(w) : keyOwner[k] = w.article
        /\ history[w.hist] # None
        /\ history[w.hist].article = w.article
        /\ history[w.hist].feed = w.feed

\* Every row is the work of a committed transaction: a call that was refused, or
\* failed before its COMMIT, leaves no article, no key and no history behind.
NothingHalfWritten ==
    /\ \A c \in Committed : outcome[c] \notin {"rejected", "constraint", "invalid"}
    /\ \A a \in Articles : articles[a] # NoRow =>
          \E c \in Committed : input[c].article = a /\ input[c].body = articles[a].body
    /\ \A k \in ScopedKeys : keyOwner[k] # None =>
          \E c \in Committed : input[c].article = keyOwner[k] /\ k \in ScopedKeysOf(input[c])
    /\ \A h \in Histories : history[h] # None =>
          \E c \in Committed : input[c].hist = h /\ HistoryRowOf(input[c]) = history[h]

\* first_retrieved_at and last_retrieved_at span exactly the retrievals that have
\* been committed, though they may commit in any order: no update is lost.
RetrievalWindow ==
    \A a \in Articles :
        LET times == {input[c].at : c \in {d \in Committed : input[d].article = a}} IN
        times # {} => /\ articles[a].first \in times /\ articles[a].last \in times
                      /\ \A t \in times : articles[a].first <= t /\ t <= articles[a].last

\* A call is refused over a binding (its article's feed, a key's owner, a history
\* row) only while that binding is committed, and it still is: a row that another
\* transaction wrote and rolled back refuses nobody, and no retry of a candidate so
\* refused can succeed.  A check or foreign key that refuses the article row is an
\* outcome of its own, "constraint", and says nothing of the next try: UpsertFeed
\* may have added the missing feed by then.
RejectionIsFinal ==
    \A c \in Calls : outcome[c] = "rejected" => Registry!Conflicts(input[c])

\* Calls can wait in a ring only if they name the keys they share in orders that
\* contradict one another: the article row comes before every key and the history
\* row after, so callers that sort IdentityKeys never deadlock.
ListedBefore(c, k, l) ==
    \E i, j \in DOMAIN input[c].keys :
        i < j /\ <<input[c].feed, input[c].keys[i]>> = k /\ <<input[c].feed, input[c].keys[j]>> = l

DeadlockNeedsKeyDisorder ==
    \A S \in SUBSET Calls : Deadlocked(S) =>
        \E K \in SUBSET (UNION {ScopedKeysOf(input[c]) : c \in S}) :
            K # {} /\ \A k \in K : \E l \in K \ {k}, c \in S : ListedBefore(c, k, l)

\* What is bound stays bound: an article to its feed, a key to its article, a
\* history row to everything in it; and the window of retrievals only widens.
BindingStays ==
    /\ \A a \in Articles : articles[a] # NoRow =>
          /\ articles'[a] # NoRow /\ articles'[a].feed = articles[a].feed
          /\ articles'[a].first <= articles[a].first /\ articles[a].last <= articles'[a].last
    /\ \A k \in ScopedKeys : keyOwner[k] # None => keyOwner'[k] = keyOwner[k]
    /\ \A h \in Histories : history[h] # None => history'[h] = history[h]
BindingsNeverChange == [][BindingStays]_vars

\* Every call returns, though calls outnumber connections, wait for one another's
\* rows, deadlock, are refused, cancelled or cut off: no connection leaks.
EveryCallReturns == \A c \in Calls : <>(pc[c] \in Returned)

\* Every transaction ends on the backend too, and lets go of its rows, also when
\* the call that opened it has left: whichever way UpsertArticle returns, it ends
\* its transaction itself or closes the connection that carries it.
EveryTransactionEnds ==
    \A c \in Calls : srv[c] \in {"open", "committing"} ~> srv[c] \in {"committed", "aborted"}

\* Together the statements of the transactions do what the registry promises.
ImplementsRegistry == Registry!Spec
===============================================================================
