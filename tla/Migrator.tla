------------------------------- MODULE Migrator -------------------------------
(***************************************************************************)
(* Store and Migrate (store.go, apply.go, migrations.go): processes of     *)
(* different releases open a store, migrate the database they share, and   *)
(* close the store or crash at any moment.  Migrate is one transaction     *)
(* whose first statement takes an advisory lock.  As in ArticleStore, the  *)
(* Go function (pc, at, outcome) and its transaction on the backend (srv,  *)
(* ran, recorded) fail apart.                                              *)
(***************************************************************************)
EXTENDS Integers, Sequences

CONSTANTS Starts, Releases, Names, Scripts, Unwrapped, MaxVersion, Blank,
          NoRow,  \* no ledger row
          NoOne   \* nobody holds the advisory lock

VARIABLES
    release,  \* the migration files that the process embeds
    schema,   \* the scripts that the committed schema is made of, in order
    ledger,   \* committed rows of goreecloud_feeds.schema_migrations
    holder,   \* the start whose transaction holds the advisory lock
    store,    \* the pool of the process's Store
    pc,       \* the call or statement a start is at
    at,       \* the version whose turn it is in the loop of Migrate
    outcome,  \* "running", or what Migrate (or Open) has returned
    srv,      \* the state of its transaction on the backend
    ran,      \* the scripts that the transaction has run, uncommitted
    recorded  \* the versions that it has inserted into the ledger, uncommitted

tables  == <<schema, ledger, holder>>
overlay == <<ran, recorded>>
vars == <<release, tables, store, pc, at, outcome, srv, overlay>>

\* The promise.  The committed ledger and the scripts together are its history.
Upgraded == {s \in Starts : srv[s] = "committed"}
History == INSTANCE SchemaHistory WITH
    upgraded <- Upgraded,
    history  <- [v \in 1 .. Len(schema) |-> [name |-> ledger[v].name, sql |-> schema[v]]]

ASSUME VersionsAssumption == MaxVersion \in Nat
ASSUME ReleasesAssumption ==
    \A r, q \in Releases : /\ r \subseteq History!File
                           /\ \A f \in r, g \in q : f.name = g.name => f.version = g.version
ASSUME ScriptsAssumption == Unwrapped \subseteq Scripts /\ Blank \notin Scripts
ASSUME NoRowAssumption == NoRow \notin History!Row
ASSUME NoOneAssumption == NoOne \notin Starts

Versions   == 1 .. MaxVersion
Statements == {"lock", "ensure", "read", "apply", "record", "commit"}
Connected  == Statements \cup {"reply", "rollback"}

\* The row of schema_migrations that the release of s calls for.
Wanted(s, v) == History!RowOf(release[s], v)

\* What a SELECT of the transaction finds: its own rows over the committed ones.
LedgerSeen(s, v) == IF v \in recorded[s] THEN Wanted(s, v) ELSE ledger[v]

-------------------------------------------------------------------------------
Init ==
    /\ release \in [Starts -> Releases]
    /\ schema = <<>>
    /\ ledger = [v \in Versions |-> NoRow]
    /\ holder = NoOne
    /\ store = [s \in Starts |-> "none"]
    /\ pc = [s \in Starts |-> "open"]
    /\ at = [s \in Starts |-> 1]
    /\ outcome = [s \in Starts |-> "running"]
    /\ srv = [s \in Starts |-> "none"]
    /\ ran = [s \in Starts |-> <<>>]
    /\ recorded = [s \in Starts |-> {}]

\* A step of the Go code from one statement to the next, with no answer yet.
Goto(s, from, to) ==
    /\ pc[s] = from
    /\ pc' = [pc EXCEPT ![s] = to]
    /\ UNCHANGED outcome

ReturnError(s, error, next) ==
    /\ pc' = [pc EXCEPT ![s] = next]
    /\ outcome' = [outcome EXCEPT ![s] = IF @ = "running" THEN error ELSE @]

\* The transaction ends: its uncommitted rows and the advisory lock are gone.
EndTransaction(s, state) ==
    /\ srv' = [srv EXCEPT ![s] = state]
    /\ ran' = [ran EXCEPT ![s] = <<>>]
    /\ recorded' = [recorded EXCEPT ![s] = {}]
    /\ holder' = IF holder = s THEN NoOne ELSE holder

\* Open: a usable configuration gives a pool, which connects on demand.
OpenPool(s) ==
    /\ Goto(s, "open", "ping")
    /\ store' = [store EXCEPT ![s] = "open"]
    /\ UNCHANGED <<release, tables, at, srv, overlay>>

OpenFails(s) ==
    /\ pc[s] = "open"
    /\ ReturnError(s, "failed", "done")
    /\ UNCHANGED <<release, tables, store, at, srv, overlay>>

Ping(s) ==
    /\ Goto(s, "ping", "load")
    /\ UNCHANGED <<release, tables, store, at, srv, overlay>>

\* A database that does not answer in time: Open closes the pool again.
PingFails(s) ==
    /\ pc[s] = "ping"
    /\ ReturnError(s, "failed", "done")
    /\ store' = [store EXCEPT ![s] = "closed"]
    /\ UNCHANGED <<release, tables, at, srv, overlay>>

\* Migrate: the embedded files.
Load(s) ==
    /\ pc[s] = "load"
    /\ IF History!Loads(release[s]) THEN Goto(s, "load", "begin")
                                    ELSE ReturnError(s, "unloadable", "done")
    /\ UNCHANGED <<release, tables, store, at, srv, overlay>>

\* BeginTx: a connection of the pool, which a closed pool refuses.
Begin(s) ==
    /\ pc[s] = "begin"
    /\ IF store[s] = "open"
       THEN Goto(s, "begin", "lock") /\ srv' = [srv EXCEPT ![s] = "active"]
       ELSE ReturnError(s, "failed", "done") /\ UNCHANGED srv
    /\ UNCHANGED <<release, tables, store, at, overlay>>

\* Faulty variant: pg_try_advisory_xact_lock, whose answer nobody looks at.
LockUnchecked(s) ==
    /\ Goto(s, "lock", "ensure")
    /\ srv[s] = "active"
    /\ holder' = IF holder = NoOne THEN s ELSE holder
    /\ UNCHANGED <<release, schema, ledger, store, at, srv, overlay>>

\* pg_advisory_xact_lock waits for the transaction that holds the lock to end.
Lock(s) ==
    /\ Goto(s, "lock", "ensure")
    /\ srv[s] = "active"
    /\ holder = NoOne
    /\ holder' = s
    /\ UNCHANGED <<release, schema, ledger, store, at, srv, overlay>>

\* CREATE SCHEMA and CREATE TABLE, both IF NOT EXISTS: afterwards they exist.
EnsureLedger(s) ==
    /\ Goto(s, "ensure", "read")
    /\ srv[s] = "active"
    /\ UNCHANGED <<release, tables, store, at, srv, overlay>>

\* Faulty variant: what is recorded is taken to be what the release has.
ReadUncompared(s) ==
    /\ srv[s] = "active" /\ at[s] <= History!Latest(release[s])
    /\ IF LedgerSeen(s, at[s]) = NoRow
       THEN Goto(s, "read", "apply") /\ UNCHANGED at
       ELSE Goto(s, "read", "read") /\ at' = [at EXCEPT ![s] = @ + 1]
    /\ UNCHANGED <<release, tables, store, srv, overlay>>

\* The head of the loop: is this version recorded, and as the same migration?
ReadLedger(s) ==
    /\ pc[s] = "read" /\ srv[s] = "active"
    /\ at[s] <= History!Latest(release[s])
    /\ CASE LedgerSeen(s, at[s]) = NoRow ->
                Goto(s, "read", "apply") /\ UNCHANGED at
         [] LedgerSeen(s, at[s]) = Wanted(s, at[s]) ->
                Goto(s, "read", "read") /\ at' = [at EXCEPT ![s] = @ + 1]
         [] OTHER ->
                ReturnError(s, "mismatch", "rollback") /\ UNCHANGED at
    /\ UNCHANGED <<release, tables, store, srv, overlay>>

\* The end of the loop.
AllApplied(s) ==
    /\ Goto(s, "read", "commit")
    /\ at[s] > History!Latest(release[s])
    /\ UNCHANGED <<release, tables, store, at, srv, overlay>>

\* Faulty variant: the script runs with the BEGIN; and COMMIT; of its file.
ApplyWithWrapper(s) ==
    /\ Goto(s, "apply", "record")
    /\ srv[s] = "active"
    /\ schema' = Append(schema, Wanted(s, at[s]).sql)
    /\ UNCHANGED <<release, ledger, holder, store, at, srv, overlay>>

\* migrationBody, then the body runs inside the transaction.
Apply(s) ==
    /\ pc[s] = "apply" /\ srv[s] = "active"
    /\ IF Wanted(s, at[s]).sql \in Unwrapped
       THEN ReturnError(s, "unusable", "rollback") /\ UNCHANGED ran
       ELSE Goto(s, "apply", "record")
            /\ ran' = [ran EXCEPT ![s] = Append(@, Wanted(s, at[s]).sql)]
    /\ UNCHANGED <<release, tables, store, at, srv, recorded>>

\* INSERT INTO schema_migrations: a row that is there by now violates its key.
Record(s) ==
    /\ pc[s] = "record" /\ srv[s] = "active"
    /\ IF ledger[at[s]] # NoRow
       THEN ReturnError(s, "conflict", "rollback") /\ EndTransaction(s, "aborted") /\ UNCHANGED at
       ELSE /\ Goto(s, "record", "read")
            /\ recorded' = [recorded EXCEPT ![s] = @ \cup {at[s]}]
            /\ at' = [at EXCEPT ![s] = @ + 1]
            /\ UNCHANGED <<srv, ran, holder>>
    /\ UNCHANGED <<release, schema, ledger, store>>

SendCommit(s) ==
    /\ Goto(s, "commit", "reply")
    /\ srv[s] = "active"
    /\ srv' = [srv EXCEPT ![s] = "committing"]
    /\ UNCHANGED <<release, tables, store, at, overlay>>

\* The backend makes scripts and rows visible, then lets go of the lock.
ServerCommit(s) ==
    /\ srv[s] = "committing"
    /\ schema' = schema \o ran[s]
    /\ ledger' = [v \in Versions |-> LedgerSeen(s, v)]
    /\ EndTransaction(s, "committed")
    /\ UNCHANGED <<release, store, pc, at, outcome>>

CommitReturns(s) ==
    /\ pc[s] = "reply"
    /\ \/ srv[s] = "committed" /\ ReturnError(s, "ok", "done")
       \/ srv[s] = "aborted" /\ ReturnError(s, "failed", "done")
    /\ UNCHANGED <<release, tables, store, at, srv, overlay>>

\* A statement fails, the server stops, or it finds its client gone.
ServerAbort(s) ==
    /\ srv[s] \in {"active", "committing"}
    /\ EndTransaction(s, "aborted")
    /\ UNCHANGED <<release, schema, ledger, store, pc, at, outcome>>

StatementFails(s) ==
    /\ pc[s] \in Statements
    /\ srv[s] = "aborted"
    /\ ReturnError(s, "failed", "rollback")
    /\ UNCHANGED <<release, tables, store, at, srv, overlay>>

\* Faulty variant: no Rollback; the connection is never given back.
ReturnWithoutRollback(s) ==
    /\ Goto(s, "rollback", "rollback")
    /\ UNCHANGED <<release, tables, store, at, srv, overlay>>

\* The deferred tx.Rollback.
Rollback(s) ==
    /\ Goto(s, "rollback", "done")
    /\ EndTransaction(s, "aborted")
    /\ UNCHANGED <<release, schema, ledger, store, at>>

\* The context ends or the connection breaks: the backend finds out by itself.
GiveUp(s) ==
    /\ pc[s] \in {"begin"} \cup Connected
    /\ ReturnError(s, "failed", "done")
    /\ UNCHANGED <<release, tables, store, at, srv, overlay>>

\* Close, on any goroutine once Open has returned: the pool hands out no more
\* connections, and waits for the one that is out.
Close(s) ==
    /\ store[s] = "open" /\ pc[s] # "ping"
    /\ store' = [store EXCEPT ![s] = "closing"]
    /\ UNCHANGED <<release, tables, pc, at, outcome, srv, overlay>>

CloseReturns(s) ==
    /\ store[s] = "closing"
    /\ pc[s] \notin Connected
    /\ store' = [store EXCEPT ![s] = "closed"]
    /\ UNCHANGED <<release, tables, pc, at, outcome, srv, overlay>>

\* The process dies.  Another start is its restart.
Crash(s) ==
    /\ store[s] \in {"open", "closing"}
    /\ ReturnError(s, "failed", "done")
    /\ store' = [store EXCEPT ![s] = "closed"]
    /\ UNCHANGED <<release, tables, at, srv, overlay>>

-------------------------------------------------------------------------------
Statement(s) ==
    \/ Lock(s) \/ EnsureLedger(s) \/ ReadLedger(s) \/ AllApplied(s) \/ Apply(s)
    \/ Record(s) \/ SendCommit(s) \/ CommitReturns(s) \/ StatementFails(s) \/ Rollback(s)

ClientStep(s) == OpenPool(s) \/ OpenFails(s) \/ Ping(s) \/ PingFails(s)
                 \/ Load(s) \/ Begin(s) \/ Statement(s)

Next == \E s \in Starts :
    \/ ClientStep(s) \/ CloseReturns(s) \/ ServerCommit(s)
    \/ ServerAbort(s) \/ GiveUp(s) \/ Close(s) \/ Crash(s)

\* Goroutines that can go on do; PostgreSQL finishes a COMMIT and notices that the
\* client of an open transaction is gone.  Starts are finite in number, so weak
\* fairness is enough for the lock.  Nobody has to close a store, cancel or crash.
Fairness == \A s \in Starts : /\ WF_vars(ClientStep(s))
                              /\ WF_vars(CloseReturns(s))
                              /\ WF_vars(ServerCommit(s))
                              /\ WF_vars(pc[s] = "done" /\ ServerAbort(s))

Spec == Init /\ [][Next]_vars
FairSpec == Spec /\ Fairness
-------------------------------------------------------------------------------
TypeOK ==
    /\ release \in [Starts -> Releases]
    /\ schema \in Seq(Scripts)
    /\ ledger \in [Versions -> History!Row \cup {NoRow}]
    /\ holder \in Starts \cup {NoOne}
    /\ store \in [Starts -> {"none", "open", "closing", "closed"}]
    /\ pc \in [Starts -> {"open", "ping", "load", "begin", "done"} \cup Connected]
    /\ at \in [Starts -> Nat \ {0}]
    /\ outcome \in [Starts -> {"running", "ok", "unloadable", "mismatch", "unusable",
                               "conflict", "failed"}]
    /\ srv \in [Starts -> {"none", "active", "committing", "committed", "aborted"}]
    /\ ran \in [Starts -> Seq(Scripts)]
    /\ recorded \in [Starts -> SUBSET Versions]

\* The ledger tells exactly what the schema is made of, also after a crash between a
\* script and its row: versions without a gap, each script once and in order.
LedgerIsSchema ==
    \A v \in Versions : IF v <= Len(schema)
                        THEN ledger[v] # NoRow /\ ledger[v].sql = schema[v]
                        ELSE ledger[v] = NoRow

\* What a transaction has read stays true until it ends: the version it applies is
\* still missing, and the earlier ones are still those of its release.  The lock is
\* held by it alone, from before it reads to after others can see what it wrote.
CheckedIsCurrent ==
    \A s \in Starts : pc[s] \in {"read", "apply", "record", "commit"} /\ srv[s] = "active" =>
        /\ holder = s
        /\ \A v \in 1 .. at[s] - 1 : LedgerSeen(s, v) = Wanted(s, v)
        /\ pc[s] \in {"apply", "record"} => ledger[at[s]] = NoRow

\* Every start returns from Migrate, and every Close returns, though starts wait for
\* one lock, are cut off, crash, or close the store under a migration.
StartsReturn ==
    \A s \in Starts : /\ <>(pc[s] = "done")
                      /\ store[s] = "closing" ~> store[s] = "closed"

\* Together the statements of all starts do what the history promises: in particular
\* no start fails over what another one is doing ("conflict"), and "ok" is durable.
ImplementsHistory == History!Spec
===============================================================================
