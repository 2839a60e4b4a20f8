# Formal models of feeds-server

TLA+ modules about feeds-server: article persistence, account records, schema
migrations, feed retrieval, retry delays, feed parsing, deduplication, and the
start and end of the process. TLC checks small instances of all of them; TLAPS
proves every safety property that a passing run checks for every value of the
constants (section 4 says how, and what stays with TLC).

## 1. The system

The server is a set of internal packages that are not wired together yet:
`cmd/feeds-server` only serves three static HTTP endpoints. Whoever calls the
packages (at present their tests) calls them from any number of goroutines,
with contexts that may end at any moment.

| Component | State it keeps | Operations | Hard behaviour | What makes it correct |
|---|---|---|---|---|
| Article persistence (`storage/postgres/repository.go`, `0001_initial.sql`) | tables `articles`, `article_identity_keys`, `article_source_history` | `UpsertArticle` (a transaction of 2 + 2·keys + 2 statements), `ArticleByID` | transactions interleave statement by statement, wait for one another's rows, deadlock; the answer to COMMIT is lost; a cancelled call leaves its backend behind | a candidate is recorded whole or not at all; nothing bound is ever bound to something else; "ok" is durable, a refusal is true |
| Account records (same files) | tables `users`, `feeds`, `subscriptions`, `article_states` | `UpsertUserReference`, `UpsertFeed`, `UpsertSubscription`, `UpsertArticleState`, `ArticleStateForUser` | each is one statement that commits by itself and is judged afterwards; it may run after its caller gave up | bindings never change, every row is made of what its calls wrote, what was acknowledged stays |
| Connection pool (`store.go`, pgxpool) | at most four connections | `Open`, `Ping`, `Close`, `BeginTx` | calls wait for connections while holding none | no path leaks one or returns it twice |
| Migrations (`apply.go`, `migrations.go`) | `schema_migrations`, the schema | `Migrate`, `Migrations` | releases migrate one database at once, crash between a script and its row, lose the answer to COMMIT, meet a ledger of another release | each migration is applied once, in order and with its ledger row; a refusal has a reason |
| Retrieval (`retrieval/client.go`, `policy.go`) | a semaphore; per call the attempt, the redirect chain, the headers | `Fetch` | redirects and DNS answers are chosen by others; cancellation races permits, requests and sleeps | only admitted destinations are contacted; everything is bounded; permits come back |
| Retry delays (`client.go`) | none | `backoff`, `parseRetryAfter` | integer width, rounding | the delay is what is documented and at most `MaxBackoff` |
| Deduplication (`feed/dedup.go`) | three maps, within one call | `DeduplicateArticles` | order of the batch, chains of aliases, contradictory evidence | merges are supported by evidence, duplicates are noticed, sources stay apart as far as their names tell them apart |
| Parsing (`feed/parser.go`) | an element stack and a tree, within one call | `Parse` | limits at their boundary, end tags that are missing or out of place, items that are skipped, lists folded by case and URL | the tree is the document; nothing is lost silently; the first to name a medium describes it |
| HTTP server (`server.go`) | none | three handlers | a request may be in a handler when the process ends | constants |
| Process (`main.go`) | listener, shutdown goroutine | start, signal | `ListenAndServe` returns before `Shutdown` has drained | requests are drained |

Interaction that the code does have: article and account records share a
database (an article needs its feed's row, a state its user's and article's),
every store operation shares the pool, all calls of `Fetch` on one `Client`
share its semaphore, and `Fetch` sleeps for what the retry delay computes.
Processes of different releases share the schema and its advisory lock, and
`Close` of a store waits for the migration that holds one of its connections.
`ArticleIdentityKey.Type` is deduplication's `DuplicateReason`, but nothing
passes the results of `DeduplicateArticles` to the store.

The hazards, each at its line with the properties that cover it or the reason
why none does, are in `PROJECT.json`.

## 2. Modules

| Module | Models |
|---|---|
| `ArticleRecords` | the data of article persistence: `ArticleWrite`, rows, validation, what the upsert computes |
| `ArticleRegistry` | abstract specification: `UpsertArticle` as one step `Record` and one step `Answer` |
| `ArticleStore` | `UpsertArticle` statement by statement, over a pool and a PostgreSQL backend |
| `ArticleStoreProofs` | TLAPS proofs about `ArticleStore`: types, locks, refinement, promises, where rows come from, deadlocks |
| `MCArticleStore` | its instances |
| `AccountStore`, `MCAccountStore`, `AccountStoreProofs` | the four one-statement operations |
| `Retrieval`, `MCRetrieval`, `RetrievalProofs` | concurrent calls of `Fetch` |
| `RetryDelay`, `RetryDelayProofs` | `backoff`, `parseRetryAfter` and the check of `NewClient` |
| `Deduplication`, `MCDeduplication`, `DeduplicationProofs` | `DeduplicateArticles` |
| `SchemaHistory` | abstract specification: the schema as one linear history of migrations |
| `Migrator`, `MCMigrator` | `Open`, `Migrate`, `Close` of several processes over one PostgreSQL database |
| `MigratorProofs` | TLAPS proofs about `Migrator` |
| `FeedNormalizer` | `parseRSS`, `parseAtom` and their helpers, as operators on a tree |
| `FeedParser`, `MCFeedParser`, `FeedParserProofs` | `Parse` and `decodeTree`, token by token; extends `FeedNormalizer` |
| `ServerLifecycle`, `ServerLifecycleProofs` | `main`, its second goroutine, and what they call of net/http |

A definition whose comment begins "Faulty variant" is not part of a model: it
is the form that the definition after it would take with a plausible bug, and
shows that the properties would notice.

### ArticleStore

A call has two halves that fail apart. `pc[c]` is the Go function's position
(`validate`, `begin`, one value per statement, `reply` while `tx.Commit`
waits, `rollback` while an error is on its way out through the deferred
`Rollback`, `done` once it has returned, `left` if it has returned because its
context or connection ended), `cursor[c]` its index in `IdentityKeys`, `outcome[c]`
what it returns. `srv[c]` is the transaction on the backend; `row[c]`,
`inserted[c]` and `logged[c]` are its uncommitted rows and also its locks.
`articles`, `keyOwner` and `history` are the committed tables, and
`storedFeeds` the feeds that have a row for an article to refer to.

| Action | Code (`repository.go`) |
|---|---|
| `Validate` | `validateArticleWrite`, 195-197 |
| `Begin` | `BeginTx`, 199-202, waiting for a connection |
| `UpsertArticleRow` | the article upsert and the comparison of feeds, 207-265 |
| `InsertKey`, `VerifyKey` | `ensureIdentityKey`, 435-469, for the key at `cursor` |
| `InsertHistory`, `VerifyHistory` | `ensureSourceHistory`, 471-510 |
| `SendCommit`, `ServerCommit`, `CommitReturns` | `tx.Commit`, 277-280: sent, executed, answered |
| `ServerAbort`, `StatementFails` | any failure on the backend, and how the client meets it |
| `Rollback` | the deferred `tx.Rollback`, 203-205 |
| `GiveUp` | the context ends or the connection breaks, anywhere after validation |
| `AddFeed` | the INSERT of `UpsertFeed`, 112-147, of a feed that is new |

PostgreSQL is modelled from how the code uses it: the code asks for the default
isolation level, READ COMMITTED, so a SELECT sees the transaction's own rows
over what is committed by then, and an INSERT that meets an uncommitted row of
another transaction waits for that transaction (`WaitsFor`) and then decides on
what is committed. A deadlock is a set of calls in which everyone waits and is
waited for.

Abstractions: all descriptive columns of an article are one `body`;
identifiers, keys and fingerprints are opaque; trimming is a value that is
`Blank`; of the table `feeds` only the identifiers matter here, and nothing
deletes one (`AccountStore` has the rest of it). A
statement other than COMMIT that is in flight when its call gives up is not run
afterwards; it could only lengthen the time for which the abandoned transaction
holds locks before it aborts. The pool opens connections on demand, so a broken
one is the same as a returned one.

### ArticleRegistry and the refinement

`ImplementsRegistry` is `ArticleStore`'s behaviour seen through
`recorded <- Committed` with every other variable mapped to itself. `Record(c)`
is taken by `ServerCommit(c)`: only there do several statements' worth of work
become visible, and the guard of `Record` says what must be true of the tables
at that instant, though it was established statement by statement earlier.
`Answer(c)` is the moment at which `outcome[c]` is set. A call that failed may
be recorded, even afterwards (`outcome = "failed"` does not disable `Record`):
that is what a lost answer to COMMIT means, and the abstract specification says
so rather than hiding it.

A refusal has one of three outcomes. "invalid" is the validation's. "rejected"
is over a binding (`Conflicts`: the article's feed, a key's owner, a history
record); bindings stay, so it lasts, and `RejectionIsFinal` says so.
"constraint" is the row itself (`ViolatesConstraint`: a malformed column, or a
feed without a row). It says nothing of the next attempt, since `AddFeed` may
have come in between.

### AccountStore

One action per operation (`RunUser`, `RunFeed`, `RunSubscription`, `RunState`)
runs the statement; `stmt[c]` says whether it is out or what it brought back;
`Return` judges it. `GiveUp` leaves a sent statement out, which may then run at
any later time. One statement is atomic in PostgreSQL at READ COMMITTED, so no
finer steps are needed; two updates that deadlock over each other's unique keys
end in a `StatementFails`, as two refused ones do. `ValidUser`, `ValidFeed`,
`ValidSubscription` and `ValidState` are what each operation asks of its input,
the times included (zero is Go's zero time). Descriptive columns of feeds and the
times that the server fills in itself are left out. The pool is in `ArticleStore`.
That identities are unique and references hold is PostgreSQL's doing
(`ConstraintError` guards every statement) and not stated as a property; what
the code itself is responsible for is what a statement assigns to a row that is
there already. `AccountRowsAreTraced` says it: each column that is bound, and a
state as a whole, comes from a call that it suits.

What the model shows and no property can say in the code's favour:
`UpsertSubscription` assigns `disabled` before it compares user and feed, in a
statement that has then already committed. A call that is refused as "already
bound to a different user/feed pair" has changed the flag of that other pair.
The bindings themselves are safe (`AccountBindingsNeverChange`), and the flag is
always one that some call gave for this subscription (`AccountRowsAreTraced`).

### Retrieval

`Acquire` is the select on the semaphore and the context; `Validate` the first
`ValidateURL`; `BeginAttempt` the head of the loop and the construction of the
request; `Send` is `dialContext` with any DNS answer; `Redirect` is
`checkRedirect` on any URL; `Succeed`, `Refuse` and `NoAnswer` are the three
kinds of end of `fetchAttempt`; `Sleep` is the sleep between attempts; `Cancel`
ends a context. `via` is the chain of requests that net/http hands to
`checkRedirect`, with the address that each was sent to. net/http fills every
redirected request from the headers of the *first* request of the attempt
before it calls `checkRedirect`; the model does the same. Every request dials:
a connection that net/http reuses was admitted when it was dialled. The
addresses that `validateAddress` admits are a parameter, since the list of
prefixes is data. The return after the loop ("exhausted configured attempts")
is unreachable, because the last attempt always returns inside it.

### RetryDelay

`Wrap` is the arithmetic of a signed integer of the width that `MaxInt` gives
it, so overflow happens at width 6 as it would at 64. A header is the value
that parsing yields. Rounding up the maximum to seconds is written as one
division.

### Deduplication

One action per kind of turn of the loop, `Merge` and `Retain`. `index` is the
three maps in one, keyed by the kind of key; `unique` holds the positions of
the kept articles in the argument, so that `DuplicateMatch`'s two index spaces
stay apart (both count from one here). Normalisation of texts and URLs and the
fingerprint's hash are abstracted: an article is its normalised evidence. What
`keysForArticle` does with it is not: texts are sequences of words, and a key is
the scope, a separator and a value written one after the other. Such a key does
not say where the scope ends. The feed `a|id|b` with the identifier `c` and the
feed `a` with the identifier `b|id|c` have the same key, and the run
`deduplicate_scopes` shows them merged. What does hold is `SourcesMeetAtBars`:
articles are merged only if their scopes agree up to the first bar, so sources
without a bar in their names stay apart. URLs (after normalisation) and
fingerprints have no bar; identifiers of feeds and of articles may have one.

### Migrator and SchemaHistory

A start is one process that opens a store, migrates and may close the store;
`release[s]` is the set of files that it embeds. As in `ArticleStore` the Go
function (`pc`, `at`, `outcome`) and its transaction (`srv`, `ran`, `recorded`)
fail apart. `schema` is the sequence of scripts that the committed schema is made
of and `ledger` the committed rows of `schema_migrations`; both become visible in
`ServerCommit` only.

| Action | Code |
|---|---|
| `OpenPool`, `OpenFails`, `Ping`, `PingFails` | `Open`, `store.go` |
| `Load` | `Migrations`, as the conditions it puts on the files (`History!Loads`) |
| `Begin`, `Lock`, `EnsureLedger` | the head of `Migrate`, `apply.go:27-57` |
| `ReadLedger`, `AllApplied` | the loop and its comparison with the ledger |
| `Apply` | `migrationBody` and the script |
| `Record` | the INSERT of the ledger row |
| `SendCommit`, `ServerCommit`, `CommitReturns` | `tx.Commit`: sent, executed, answered |
| `ServerAbort`, `StatementFails`, `Rollback`, `GiveUp` | failures, the deferred `Rollback`, an ended context |
| `Close`, `CloseReturns` | `Store.Close`, which waits for the connection that is out |
| `Crash` | the process dies; the restart is another start |

A checksum is the script itself, since the code compares nothing else of it.
`pg_advisory_xact_lock` blocks until no transaction holds the lock and is given
up by the end of a transaction. A script is one step: it may fail as a whole
(`StatementFails`). The tables that it creates are the state of `ArticleStore`
and `AccountStore`.

`SchemaHistory` promises what a maintainer expects of `Migrate`. `Upgrade(s)`
extends the history by everything that the release has and the history lacks,
or leaves an equal or longer one alone; it is disabled for a release that
disagrees with the history or brings an unusable script. `Answer(s)` gives an
outcome that is true: "ok" only after the upgrade, a refusal only for a reason
that holds. A start that answered "failed" may have upgraded, or may still. The
mapping is `upgraded <- {s : srv[s] = "committed"}` and
`history <- ledger and schema, joined by version`. There is no outcome
"conflict" in the abstract specification: the violation of the ledger's primary
key, which the code would report, must never happen.

### ServerLifecycle

`main` and `stopper` are the two goroutines; `Exit` is the end of both and of
every connection. Of net/http only what decides about the ends is modelled, from
the calls that `main.go` makes: `ListenAndServe` looks for a shutdown before it
listens and again when it registers the listener, and returns
`ErrServerClosed` when its listener is closed by a shutdown; `Shutdown` sets its
flag, closes registered listeners, and then closes idle connections until none
is active or its context ends.

### FeedNormalizer and FeedParser

`decodeTree` is a step per token. `encoding/xml` with `Strict = false` is
external: `open` is its own stack of names. An end tag that does not fit closes
the innermost element and is read again (`closing` holds it, and is empty
otherwise), one with nothing to close is
a syntax error, and so is the end of the document while an element is open. From
this the guard on an empty stack (`parser.go:136`) and the warning about unclosed
elements (`parser.go:149-151`) are dead code; `StackMirrorsDecoder` says so.
`Markups` is what documents consist of. Texts are sequences of words, blanks and
commas, so trimming, splitting, case-folding and the concatenation of text around
child elements are what they are in the code; names are lower-case local names, because the parser ignores
case and namespace of both elements and attributes. Layouts of dates and syntax
of numbers are parameters (`Instant`, `Number`). `EndOfDocument` computes the
whole feed: fields and their fallbacks, lists, dates, warnings in order, and the
articles that are skipped.

## 3. Runs

| Run | Instance | Shows |
|---|---|---|
| `store_races` | 3 calls, 3 connections: two of 11 candidates, or three of 4 whose feed is added meanwhile | types and pool, locks, scopes, durability, all-or-nothing, retrieval window, refusals over bindings, when deadlocks are possible, bindings, refinement of `ArticleRegistry` |
| `store_progress` | 3 calls, 2 connections, opposite key orders, fairness | every transaction ends on the backend, every call returns |
| `accounts` | 4 calls | types with no blank and no zero time, where rows come from, bindings, acknowledged writes, refusals, the feed's window |
| `fetch` | 2 calls, 1 permit, 7 URLs, 3 redirects, 2 attempts, fairness | policy on every request, bounds on chains, results, retries, permits come back |
| `fetch_validators` | 1 call | **fails**, see below |
| `retry_delay` | width 6, every configuration, 7 attempts, every header | no overflow reaches the delay |
| `deduplicate` | every batch of at most 4 of 18 articles | merges, retentions, reasons, sources that meet only at bars |
| `deduplicate_scopes` | every batch of at most 2 | **fails**, see below |
| `migrate` | 2 starts of any of 7 releases, 2 versions, fairness | ledger and schema agree, what was read stays true, refinement of `SchemaHistory`, `Migrate` and `Close` return |
| `parse` | 14000 documents, depth 4, 8 nodes | the stack follows the decoder, limits are exact, no item or list entry is lost, the first to name a medium describes it |
| `serve` | 2 connections, fairness | a signal ends the process, the exit status is true |
| `serve_drain` | 2 connections | **fails**, see below |

`CHECK_DEADLOCK FALSE` is in every configuration because every model consists of
one-shot calls, or of a process that ends: a state in which all of them are done
has no successor and is the normal end. That nothing is stuck before is what
`EveryCallReturns`, `EveryTransactionEnds`, `EveryFetchReturns`, `StartsReturn`
and `SignalEndsProcess` say.

Types are conjuncts of other properties where they say little by themselves: the
ranges of `RetryDelay` are part of `DelayInRange`, that an article is in one
cluster is part of `MergesAreSupported`, and `Migrator`'s `TypeOK` is part of the
invariant that is proved.

**The failing run `fetch_validators`.** `SECURITY.md:39` says that "cross-origin redirects remove
conditional validators ... before continuation" (also `SECURITY.md:35`).
`checkRedirect` (`client.go:342`) compares the new URL with the previous request
only. On feed → other origin → other path of that origin, the second redirect
stays within one origin, nothing is removed, and the request carries the
validators that net/http copied from the first request. The foreign origin
receives `If-None-Match`, and a 304 from there is reported as `NotModified`.

**The failing run `deduplicate_scopes`.** `dedup.go:34-38` counts only
"source-scoped" evidence, the README of the repository says that cross-source
collapsing is deferred (`README.md:17`), and
`TestDeduplicateArticlesDoesNotCrossSourceScope` demands that "cross-source
articles must remain distinct" (`dedup_test.go:37`). `SourcesStayApart` says this
of every batch, and it is violated by two articles: a feed identifier that
contains `|id|` and an article identifier that contains it give one key to two
feeds (`dedup.go:81`).

**The failing run `serve_drain`.** The second goroutine of `main` gives
`Shutdown` ten seconds to finish requests (`main.go:34`) and logs "graceful
shutdown failed" otherwise (`main.go:37`). `Shutdown` closes the listener first;
`ListenAndServe` (`main.go:42`) returns at that moment, `main` returns, and the
process ends without waiting for that goroutine. A request that is in a handler is
cut off although nothing has timed out, and the exit status is zero.

### Bounds and why they are enough

- Two calls suffice for the pairwise properties of `ArticleStore` (locks,
  bindings, refinement): every guard relates one call to the tables or to one
  other call, and the theorems below lift them to any number. The eleven
  candidates differ in each respect that `UpsertArticle` tells apart. Three
  calls are what lost updates of the window and rings of more than two need.
- Two keys per candidate give the first and a later turn of the key loop, a
  partial failure in between, and both lock orders; one candidate has none and
  one repeats a key.
- In `store_races` the three racing candidates are of a feed that has no row at
  first, so that each of them may be refused before the row arrives and retried
  by another one after it. Where two candidates meet, the third call is refused by
  the validation and does nothing more. `store_progress` has its feed from the
  start, since nobody has to add one.
- Four calls in `AccountStore` are a user, a feed and two subscriptions that
  conflict. The inputs of one execution are on the user side or on the feed side
  (`MCInit`), since a feed's URL meets nothing on the other side. A zero time is
  among the inputs of each operation that asks for a time.
- Three redirects are two more than the downgrade check and the validators
  need. Calls of `Fetch` share the semaphore only, so in `fetch` one of the two
  takes every input and the other one, whose URL is refused, competes for the
  one permit.
- Two starts are what stale reads, the lock and the ledger's key need; since one
  may begin after the other has ended or crashed, they are also a restart. The
  releases follow each other, differ in text or in name, lack the wrapper, have a
  gap or a version twice. `store_progress` has three calls so that one waits for
  a connection while two wait for each other's keys.
- `parse`: every run of up to four of ten pieces of markup inside an open channel
  reaches depth 4 and, with the second limit at 8 nodes, both limits at and past
  their boundary; the feeds take every pair of the elements that an item or an
  entry may have, every triple of those that fill lists, and a second item.
- Two connections let a shutdown find one idle and one active.
- Width 6, seconds of four units: `MaxBackoff` takes every value from below a
  second to the largest, so that all products, sums and roundings cross each
  boundary.
- Four articles are a canonical one, an alias, a second canonical one, and one
  whose keys point at both. Two of the articles are of a feed whose name goes on
  where the first feed's ends, so that batches with the key they share are among
  them.

### Fairness

- `ArticleStore`: weak fairness of each call's own steps (the Go scheduler runs
  goroutines that can run), of an executing COMMIT, of the backend noticing that
  a connection was closed (the pool closes it when a call has `left`), and of the
  deadlock detector aborting somebody in a ring. The transaction of a call that
  is `done` gets no such help: its connection is back in the pool, open, and a
  transaction that nobody has ended would stay there. No cancellation, failure or abort other than
  those has to happen. Calls are finite in number, so weak fairness is enough
  for the pool.
- `Retrieval`: weak fairness of each call's steps: requests end because the
  client has a timeout, sleeps because timers fire. Contexts need not end.
- `Migrator`: weak fairness of each start's own steps, of a `Close` whose
  connection is back, of an executing COMMIT, and of the backend noticing that
  the client of an open transaction is gone. Starts are finite in number, so weak
  fairness is enough for the lock. Nobody has to cancel, close or crash.
- `ServerLifecycle`: weak fairness of the two goroutines. Clients and handlers
  need not do anything.
- `AccountStore`, `RetryDelay`, `Deduplication` and `FeedParser` state no liveness.

## 4. Proofs

`ArticleStoreProofs` proves, for any finite set of calls, any candidates and any
pool size, from the named assumptions of `ArticleRecords` and `ArticleStore`
(times are positive, `Writes` are well formed, the sentinels are not values,
`Calls` is finite, the pool is not empty):

| Theorem | Property |
|---|---|
| `TypeCorrect` | `TypeOK`, with the pool's count in range |
| `LocksExclusive` | `LocksAreExclusive` |
| `Refinement` | `ImplementsRegistry` |
| `BindingsAreForever` | `BindingsNeverChange` |
| `AckDurable` | `AckedIsDurable` |
| `ScopesAlwaysAgree` | `ScopesAgree` |
| `RejectionsAreFinal` | `RejectionIsFinal` |
| `RowsAreTraced` | `NothingHalfWritten` |
| `WindowIsExact` | `RetrievalWindow` |
| `DeadlocksNeedDisorder` | `DeadlockNeedsKeyDisorder` |

The argument has five layers.

1. `TypeInv`: types alone are not inductive. `Phases` ties a call's position to
   its transaction's state, and `PoolCount` says that free connections and calls
   that hold one add up to `MaxConns`; from that `free` stays in range. Since
   every action touches one call only (`StepsAreLocal`), each is checked at its
   own call.
2. `StepInv` adds the locks and, per call, what earlier statements have
   established and later ones rely on: the uncommitted row is what the upsert
   would still compute from the committed one (`RowHolds`), every key passed is
   seen as owned (`KeysHold`), the history identifier is seen as bound
   (`HistoryHolds`). It is inductive because no other transaction can commit to
   a row that this one has locked (`CommitHolds`), which is exactly where
   `LocksAreExclusive` is needed. At `ServerCommit` it yields the guard and the
   effect of the registry's `Record` (`CommitRecords`); every other step is an
   `Answer` or a stutter (`StepSimulates`).
3. `PromiseInv` is then proved from the registry's steps alone: what is recorded
   is in the tables, whole, and what was refused conflicts.
4. `TracedInv` stands on it: every row has a committed candidate that explains
   it, and a commit is the only step that changes rows.
5. `OrderInv` is the order in which a transaction takes its locks: nothing before
   the article's row, then the keys as the candidate lists them, then the history
   record. Whoever waits for an article's row therefore holds nothing that another
   could wait for, and whoever holds a history record waits for nothing, so in a
   ring everybody waits for a key while holding an earlier one of its list.

`MigratorProofs` proves, for any set of starts and releases and any scripts, from
the named assumptions of `Migrator` (releases are sets of files, a file's name
determines its version, unwrapped scripts are scripts, the sentinels are not
values):

| Theorem | Property |
|---|---|
| `LedgerMatches` | `LedgerIsSchema` |
| `ReadsStayTrue` | `CheckedIsCurrent` |
| `Refinement` | `ImplementsHistory` |

The invariant `IInv` adds three facts about each start. `Paired` says what its
place in `Migrate` tells about its transaction, its release and its outcome.
`Locking` says that only the holder of the advisory lock has anything
uncommitted, and that whoever is past the lock holds it. `Extending` says what
the holder has done so far: its scripts are the versions right after the
committed ones, all recorded but the one that is just being recorded, and every
version that the loop has passed is seen as the release has it. A step of one
start cannot disturb another one's part because only the holder changes tables
(`Frame`, `OthersKeep`); so each action is checked at its own start. The loop
stops exactly at the first missing version (`FirstMissing`), hence the row that
`Record` inserts is new (`RecordIsNew`), and a commit is an `Upgrade`
(`CommitUpgrades`). `IInv` was checked with TLC on the instance of `migrate`
before it was proved.

`AccountStoreProofs`, from the assumptions that inputs have the fields of their
operation, that times are positive and that the sentinels are not values:

| Theorem | Property |
|---|---|
| `TypeCorrect` | `TypeOK` |
| `RowsStayTraced` | `AccountRowsAreTraced` |
| `AcksAlwaysHold` | `AcksHold` |
| `RefusalsStayFinal` | `RefusalsAreFinal` |
| `WindowsAreExact` | `SeenWindow` |
| `BindingsStay` | `AccountBindingsNeverChange` |

`AcksHold` and `RefusalsAreFinal` speak of calls that have returned, but a
statement runs before its call returns and may run after its call gave up. The
invariant therefore says it of the statement: `Told` ties an outcome to what the
statement brought back, `Fitted` and `Refused` say that the reason is still in
the tables. Both survive other calls' statements because tables only gain rows and
bound columns stay (`Kept`). Where rows come from is proved on top of it: a
statement that has run keeps what it brought back (`RunsAreRecorded`), so the
call that explains a row goes on doing so until another one writes it
(`TracedStep`).

`RetrievalProofs`, for any numbers of permits, attempts and redirects, any URLs
and addresses, from the assumptions that these numbers are positive, that inputs
are URLs with or without a validator and that the calls are finite in number:

| Theorem | Property |
|---|---|
| `PermitsComeBack` | `TypeOK`, in which permits and holders add up |
| `PolicyHolds` | `RequestsStayInPolicy` |
| `ChainsEnd` | `ChainsAreBounded` |
| `ResultsFit` | `ReturnsFit` |
| `RetriesDue` | `RetriesAreDue` |

`Counted` says how many attempts a call has made at each place, and which errors
lead there; `Chained` that the requests so far and the one that is about to be sent
are within the policy; and the permits in use are the calls that are between
`Acquire` and their return.

`RetryDelayProofs`, for every width of a duration, every configuration and every
header, from `SizesAssumption` (a second and the defaults are positive and fit):

| Theorem | Property |
|---|---|
| `DelayStaysInRange` | `DelayInRange` |
| `RetryAfterHolds` | `RetryAfterIsHonoured` |
| `BackoffHolds` | `BackoffIsExponential` |

The wrapping of a sum or product is the identity on what fits (`WrapFits`);
doubling stops at half the maximum, so it fits; and the guard on the number of
seconds makes the product exact, or the maximum is within a second of the
largest duration (`SecondsAreExact`). `DoubledSoFar` says that the loop has
multiplied the base by a power of two, or has stopped because the power for the
attempt that failed would exceed the maximum. The prover has no induction for the
equations of a power; they follow from what a power counts, the subsets of a set
(`PowerCounts`, `PowerDoubles`, `PowerGrows`).

`DeduplicationProofs`, for batches of any length of any articles:

| Theorem | Property |
|---|---|
| `MergesSupported` | `MergesAreSupported` |
| `DuplicatesNoticed` | `NoUnnoticedDuplicate` |
| `SourcesMeetOnlyAtBars` | `SourcesMeetAtBars` |

`Divided` says that the clusters divide the articles that had their turn, and
`Indexed` that a key leads to the cluster of the article that brought it first.
From these the clusters that the index finds for an article are those of the
earlier articles that share its evidence (`EarlierIsIndexed`), which is what both
kinds of turn decide on. A separator begins with a bar, so what stands before the
first bar of a key is what stands before the first bar of its scope
(`SeparatorEnds`); hence articles that share a key have scopes that agree up to
there, and so do all the members of a cluster (`TurnKeepsSources`).

`FeedParserProofs`, for any documents and any limits, from `LimitsAssumption`
(positive) and `DocumentsAssumption` (documents are sequences of markup):

| Theorem | Property |
|---|---|
| `LimitsHold` | `LimitsAreExact` |
| `StackFollowsDecoder` | the stack is the path of open elements until one is refused, also when a document is rejected for another reason |
| `StackHolds` | `StackMirrorsDecoder` |
| `ItemsAccounted` | `ItemsAreAccountedFor` |
| `ListsComplete` | `ListsAreComplete` |

What is a word, its lower-case form, a date, a number or the type of an image is
left open. Three arguments meet.

1. `IInv` is about the decoder. As long as no element was refused, the tree has one
   node for each element that the document has started, and the stack is the path
   to the innermost one as the decoder sees it (`Counted`); hence it is empty when
   the decoder is at the end.
2. What `parseRSS` and `parseAtom` make of any tree is proved as lemmas about
   operators, without a behaviour. The loops are folds, which the library defines by
   choosing a function that solves an equation. `FoldExists` shows that one exists,
   by extending a solution for the first k elements to one for k + 1; from it each fold of the model gets its
   turns (`AddUniqueFolds`, `MediaFold`, `ArticlesFold` and others), and what holds
   after every turn follows by `Induction`, which is stated for a set of numbers
   since the prover cannot instantiate the library's theorem for an operator. A list
   is tracked by the keys it has (`KeysOf`, `DistinctBy`): a turn adds the folded
   text or the URL that it visits unless it is empty or there already (`KeysGrow`,
   `URLsGrow`), so the length is the number of keys (`LengthByKeys`), and a medium is
   never replaced by a later one of its URL (`FirstsIn`, `AddByURLKeepsFirst`). The loop over
   the items keeps count of the warnings and of the articles that it has passed
   (`Accounted`). `RSSFeedIs` and `AtomFeedIs` put them together: the feed is `Sound`.
3. `ResultIs` says what `Parse` has returned: nothing, or the feed of the tree, which
   stays the same after the end. That an operator over the tree has the same value
   before and after a step that leaves the tree alone is not obvious where the
   operator is a fold; `SameFeeds` derives it, definition by definition, from the
   folds as functions of a tree that is given. `ResultIs` was checked with TLC on
   the instance of `parse` before it was proved.

`ServerLifecycleProofs` proves `ExitStatusIsTrue` (`ExitsTruly`), for any set of
connections. It needs what leads up to an end: nothing but a signal begins a
shutdown (`Caught`), the listener is open until the accept loop or a shutdown has
closed it (`Serving`), and the main goroutine is at one of its two ends only for the
reason that the exit status gives (`Ending`).

Only model-checked: all liveness (`EveryTransactionEnds`, `EveryCallReturns`,
`EveryFetchReturns`, `StartsReturn`, `SignalEndsProcess`), since fairness and
ENABLED are outside the prover's reach; and the three failing runs, which are
counterexamples.

## 5. Not modelled

- The list of special-use prefixes, date layouts and number syntax: data without
  state, parameters of the models. Namespaces, which the parser ignores.
- The contents of the three static responses of `server.go`; that a handler may
  be running is in `ServerLifecycle`.
- `applied_at` of the ledger, and transaction control inside of a script:
  `migrationBody` looks at the two ends of a file only, and the one script there
  is has none.
- `ArticleByID`, `ArticleStateForUser`: reads of one committed row.
- Three hazards have no property because the repository promises nothing about
  them: a stale retrieval that overwrites a newer one, a history identifier that
  is used again, and the first child of any namespace winning. `PROJECT.json`
  says so at each, and what else a property covers in part only.

## 6. Plan

Done, in order of importance: `ArticleRecords`, `ArticleRegistry`,
`ArticleStore` with its proofs, `Retrieval`, `RetryDelay`, `AccountStore`,
`Deduplication`, `SchemaHistory` and `Migrator`, `FeedParser` and
`ServerLifecycle`, all with their proofs. No component with state is left to model.

Every safety property and every refinement that a passing run checks is proved.
Left, should the code grow:

1. A composition of `Deduplication` and `ArticleStore`, once something passes the
   results of the one to the other, and of `FeedParser` and `Retrieval`, once a
   poller connects them.
2. More than one script in `Migrator`'s repository instance, once there is a
   second migration.
