---------------------------- MODULE MigratorProofs ----------------------------
(***************************************************************************)
(* Proofs about Migrator, for every set of starts, releases and scripts.   *)
(***************************************************************************)
EXTENDS Migrator, SequenceTheorems, TLAPS

-------------------------------------------------------------------------------
(* The inductive invariant. *)

BeforeTx == {"open", "ping", "load", "begin"}
InLoop   == {"ensure", "read", "apply", "record", "commit"}

\* The function and its transaction go together: what a place in Migrate says of the
\* transaction, of the release, and of what has been returned.
Paired(s) ==
    /\ pc[s] \in BeforeTx => srv[s] = "none" /\ at[s] = 1
    /\ pc[s] \in Statements \cup {"rollback"} => srv[s] \in {"active", "aborted"}
    /\ pc[s] = "reply" => srv[s] \in {"committing", "committed", "aborted"}
    /\ pc[s] \in BeforeTx \cup Statements \cup {"reply"} => outcome[s] = "running"
    /\ srv[s] = "committing" => pc[s] \in {"reply", "done"} /\ outcome[s] \in {"running", "failed"}
    /\ srv[s] # "none" \/ pc[s] = "begin" => History!Loads(release[s])
    /\ srv[s] # "none" => at[s] <= History!Latest(release[s]) + 1
    /\ pc[s] \in {"apply", "record"} => at[s] <= History!Latest(release[s])
    /\ pc[s] \in {"lock", "ensure"} => at[s] = 1

\* Only the holder of the advisory lock has anything uncommitted, and whoever is past
\* the lock holds it until its transaction ends.
Locking(s) ==
    /\ holder = s => srv[s] \in {"active", "committing"} /\ pc[s] # "lock"
    /\ holder # s => ran[s] = <<>> /\ recorded[s] = {}
    /\ srv[s] = "committing" => holder = s
    /\ srv[s] = "active" /\ pc[s] \in InLoop => holder = s

\* A transaction that may still commit.
Working(s) == srv[s] = "committing" \/ (srv[s] = "active" /\ pc[s] \in InLoop)

\* The uncommitted scripts are the versions after the committed ones, each of them is
\* recorded but the one that is just being recorded, and what was read still holds.
Extending(s) ==
    holder = s =>
        /\ \A i \in 1 .. Len(ran[s]) :
              /\ Len(schema) + i <= History!Latest(release[s])
              /\ ran[s][i] = Wanted(s, Len(schema) + i).sql
              /\ ran[s][i] \notin Unwrapped
        /\ Working(s) /\ pc[s] # "record" =>
              recorded[s] = Len(schema) + 1 .. Len(schema) + Len(ran[s])
        /\ Working(s) /\ pc[s] = "record" =>
              /\ recorded[s] = Len(schema) + 1 .. Len(schema) + Len(ran[s]) - 1
              /\ at[s] = Len(schema) + Len(ran[s])
              /\ Len(ran[s]) > 0
        /\ Working(s) => \A v \in 1 .. at[s] - 1 : LedgerSeen(s, v) = Wanted(s, v)
        /\ Working(s) /\ pc[s] = "apply" => at[s] = Len(schema) + Len(ran[s]) + 1
        /\ Working(s) /\ pc[s] \in {"commit", "reply", "done"} =>
              at[s] = History!Latest(release[s]) + 1

IInv == /\ TypeOK
        /\ LedgerIsSchema
        /\ Len(schema) <= MaxVersion
        /\ \A s \in Starts : Paired(s) /\ Locking(s) /\ Extending(s)

-------------------------------------------------------------------------------
(* What the conditions of Migrations give. *)

\* A set of files that Migrations accepts has one file per version up to the latest,
\* and each of them makes a row of the ledger.
LEMMA LoadedFiles ==
    ASSUME NEW files \in Releases, History!Loads(files)
    PROVE  /\ History!Latest(files) \in 0 .. MaxVersion
           /\ \A v \in 1 .. History!Latest(files) :
                 /\ History!RowOf(files, v) \in History!Row
                 /\ History!RowOf(files, v) # NoRow
<1> DEFINE last == History!Latest(files)
<1>1. files \subseteq History!File
  BY ReleasesAssumption
<1>2. last \in 0 .. MaxVersion /\ {f.version : f \in files} = 1 .. last
  BY DEF History!Loads, History!Latest
<1>3. ASSUME NEW v \in 1 .. last
      PROVE  History!RowOf(files, v) \in History!Row
  <2> DEFINE file == CHOOSE f \in files : f.version = v
  <2>1. file \in files
    BY <1>2
  <2>2. file.name \in Names /\ file.sql \in Scripts
    BY <1>1, <2>1 DEF History!File, History!Loads
  <2>3. History!RowOf(files, v) = [name |-> file.name, sql |-> file.sql]
    BY DEF History!RowOf
  <2> QED
    BY <2>2, <2>3 DEF History!Row
<1> QED
  BY <1>2, <1>3, NoRowAssumption

\* The row that a start wants for a version of its release.
LEMMA WantedRow ==
    ASSUME TypeOK, NEW s \in Starts, History!Loads(release[s])
    PROVE  /\ History!Latest(release[s]) \in 0 .. MaxVersion
           /\ \A v \in 1 .. History!Latest(release[s]) :
                 /\ v \in Versions
                 /\ Wanted(s, v) \in History!Row
                 /\ Wanted(s, v) # NoRow
                 /\ Wanted(s, v).sql \in Scripts
<1>1. release[s] \in Releases
  BY DEF TypeOK
<1>2. \A v : History!RowOf(release[s], v) = Wanted(s, v)
  BY DEF Wanted
<1> QED
  BY <1>1, <1>2, LoadedFiles, VersionsAssumption DEF History!Row, Versions

-------------------------------------------------------------------------------
(* A step of one start and the invariant of the others. *)

\* A step of s touches nothing of another start; it takes the lock only when it is free
\* and gives it up only when it has it, and others see a change of the tables only from
\* the holder.
Frame(s) ==
    /\ release' = release
    /\ \A t \in Starts \ {s} : /\ pc'[t] = pc[t] /\ at'[t] = at[t] /\ outcome'[t] = outcome[t]
                               /\ srv'[t] = srv[t] /\ ran'[t] = ran[t] /\ recorded'[t] = recorded[t]
    /\ holder' = holder \/ {holder, holder'} \subseteq {s, NoOne}
    /\ (schema' = schema /\ ledger' = ledger) \/ holder = s

\* The invariant of the start that moves and that of the tables are enough.
LEMMA OthersKeep ==
    ASSUME IInv, NEW s \in Starts, Frame(s),
           TypeOK', LedgerIsSchema', Len(schema') <= MaxVersion,
           Paired(s)', Locking(s)', Extending(s)'
    PROVE  IInv'
<1> SUFFICES ASSUME NEW t \in Starts, t # s
             PROVE  Paired(t)' /\ Locking(t)' /\ Extending(t)'
  BY DEF IInv
<1>1. /\ release' = release
      /\ pc'[t] = pc[t] /\ at'[t] = at[t] /\ outcome'[t] = outcome[t]
      /\ srv'[t] = srv[t] /\ ran'[t] = ran[t] /\ recorded'[t] = recorded[t]
  BY DEF Frame
<1>2. holder' = t <=> holder = t
  BY NoOneAssumption DEF Frame
<1>3. Paired(t) /\ Locking(t) /\ Extending(t)
  BY DEF IInv
<1>4. Paired(t)'
  BY <1>1, <1>3 DEF Paired
<1>5. Locking(t)'
  BY <1>1, <1>2, <1>3 DEF Locking
<1>6. ASSUME holder = t PROVE schema' = schema /\ ledger' = ledger
  BY <1>6 DEF Frame
<1>7. Extending(t)'
  BY <1>1, <1>2, <1>3, <1>6 DEF Extending, Working, LedgerSeen, Wanted
<1> QED
  BY <1>4, <1>5, <1>7

-------------------------------------------------------------------------------
(* Each step preserves the invariant. *)

\* It holds before anybody has started.
LEMMA InitInvariant == Init => IInv
<1> SUFFICES ASSUME Init PROVE IInv
  OBVIOUS
<1>1. TypeOK
  BY DEF Init, TypeOK
<1>2. schema = <<>> /\ Len(schema) = 0
  BY DEF Init
<1>3. LedgerIsSchema
  BY <1>2 DEF Init, LedgerIsSchema, Versions
<1>4. ASSUME NEW s \in Starts PROVE Paired(s) /\ Locking(s) /\ Extending(s)
  BY NoOneAssumption DEF Init, Paired, Locking, Extending, BeforeTx, Statements
<1> QED
  BY <1>1, <1>2, <1>3, <1>4, VersionsAssumption DEF IInv

\* The steps of the function that touch neither its transaction nor its place in the loop.
Quiet(s) == UNCHANGED <<release, tables, at, srv, overlay>>

\* Such a step, at most, gives up a transaction that is past its last statement.
LEMMA QuietSteps ==
    ASSUME IInv, NEW s \in Starts, Quiet(s),
           \/ OpenPool(s) \/ OpenFails(s) \/ Ping(s) \/ PingFails(s) \/ Load(s)
           \/ EnsureLedger(s) \/ AllApplied(s) \/ CommitReturns(s) \/ StatementFails(s)
           \/ GiveUp(s) \/ Close(s) \/ CloseReturns(s) \/ Crash(s)
    PROVE  IInv'
<1>1. /\ TypeOK /\ LedgerIsSchema /\ Len(schema) <= MaxVersion
      /\ Paired(s) /\ Locking(s) /\ Extending(s)
  BY DEF IInv
<1>2. TypeOK'
  BY <1>1 DEF Quiet, tables, overlay, OpenPool, OpenFails, Ping, PingFails, Load, EnsureLedger,
     AllApplied, CommitReturns, StatementFails, GiveUp, Close, CloseReturns, Crash, Goto, ReturnError,
     TypeOK, Connected, Statements
<1>3. Frame(s)
  BY <1>1 DEF Quiet, tables, overlay, OpenPool, OpenFails, Ping, PingFails, Load, EnsureLedger,
     AllApplied, CommitReturns, StatementFails, GiveUp, Close, CloseReturns, Crash, Goto, ReturnError,
     TypeOK, Frame
<1>4. LedgerIsSchema' /\ Len(schema') <= MaxVersion
  BY <1>1 DEF Quiet, tables, LedgerIsSchema
<1>5. Paired(s)'
  <2>1. /\ DOMAIN pc = Starts /\ DOMAIN outcome = Starts
        /\ release' = release /\ at' = at /\ srv' = srv /\ at[s] \in Nat
    BY <1>1 DEF Quiet, overlay, TypeOK
  <2>2. CASE OpenPool(s) \/ Ping(s)
    BY <1>1, <2>1, <2>2 DEF OpenPool, Ping, Goto, Paired, BeforeTx, Statements
  <2>3. CASE OpenFails(s) \/ PingFails(s) \/ Load(s)
    BY <1>1, <2>1, <2>3 DEF OpenFails, PingFails, Load, Goto, ReturnError, Paired, BeforeTx, Statements
  <2>4. CASE EnsureLedger(s) \/ AllApplied(s)
    BY <1>1, <2>1, <2>4 DEF EnsureLedger, AllApplied, Goto, Paired, BeforeTx, Statements
  <2>5. CASE CommitReturns(s) \/ StatementFails(s)
    BY <1>1, <2>1, <2>5 DEF CommitReturns, StatementFails, ReturnError, Paired, BeforeTx, Statements
  <2>6. CASE GiveUp(s)
    BY <1>1, <2>1, <2>6 DEF GiveUp, ReturnError, Paired, BeforeTx, Statements
  <2>7. CASE Crash(s)
    BY <1>1, <2>1, <2>7 DEF Crash, ReturnError, Paired, BeforeTx, Statements
  <2>8. CASE Close(s) \/ CloseReturns(s)
    BY <1>1, <2>1, <2>8 DEF Close, CloseReturns, Paired
  <2> QED
    BY <2>2, <2>3, <2>4, <2>5, <2>6, <2>7, <2>8
<1>6. Locking(s)'
  BY <1>1 DEF Quiet, tables, overlay, OpenPool, OpenFails, Ping, PingFails, Load, EnsureLedger,
     AllApplied, CommitReturns, StatementFails, GiveUp, Close, CloseReturns, Crash, Goto, ReturnError,
     TypeOK, Paired, Locking, BeforeTx, Statements, Connected, InLoop
<1>7. Extending(s)'
  <2>1. /\ DOMAIN pc = Starts /\ at[s] \in Nat /\ at' = at /\ srv' = srv /\ ran' = ran
        /\ recorded' = recorded /\ release' = release /\ schema' = schema /\ ledger' = ledger
        /\ holder' = holder
    BY <1>1 DEF Quiet, tables, overlay, TypeOK
  <2> SUFFICES ASSUME holder = s PROVE Extending(s)'
    BY <2>1 DEF Extending
  <2>2. srv[s] \in {"active", "committing"} /\ pc[s] # "lock"
    BY <1>1 DEF Locking
  <2>3. \/ pc' = pc
        \/ srv[s] = "committing" /\ pc[s] = "reply" /\ pc'[s] = "done"
        \/ srv[s] = "committing" /\ pc[s] = "done" /\ pc'[s] = "done"
        \/ ~Working(s)'
        \/ pc[s] = "ensure" /\ pc'[s] = "read"
        \/ pc[s] = "read" /\ pc'[s] = "commit" /\ at[s] > History!Latest(release[s])
    <3>1. CASE OpenPool(s) \/ OpenFails(s) \/ Ping(s) \/ PingFails(s) \/ Load(s)
      BY <1>1, <2>1, <2>2, <3>1 DEF OpenPool, OpenFails, Ping, PingFails, Load, Goto, Paired, BeforeTx
    <3>2. CASE EnsureLedger(s) \/ AllApplied(s)
      BY <2>1, <3>2 DEF EnsureLedger, AllApplied, Goto
    <3>3. CASE CommitReturns(s) \/ StatementFails(s)
      BY <2>2, <3>3 DEF CommitReturns, StatementFails
    <3>4. CASE GiveUp(s) \/ Crash(s)
      <4>1. pc'[s] = "done"
        BY <2>1, <3>4 DEF GiveUp, Crash, ReturnError
      <4> QED
        BY <1>1, <2>1, <2>2, <4>1 DEF Paired, Working, InLoop
    <3>5. CASE Close(s) \/ CloseReturns(s)
      BY <3>5 DEF Close, CloseReturns
    <3> QED
      BY <3>1, <3>2, <3>3, <3>4, <3>5
  <2>4. Working(s)' => Working(s)
    BY <1>1, <2>1, <2>2, <2>3 DEF Paired, Working, InLoop
  <2>5. Working(s)' => /\ pc'[s] = "record" <=> pc[s] = "record"
                       /\ pc'[s] = "apply" => pc[s] = "apply"
                       /\ pc'[s] \in {"commit", "reply", "done"} =>
                             at[s] = History!Latest(release[s]) + 1
    <3>1. at[s] <= History!Latest(release[s]) + 1 /\ History!Latest(release[s]) \in Nat
      BY <1>1, <2>2, WantedRow DEF Paired
    <3> QED
      BY <1>1, <2>1, <2>2, <2>3, <2>4, <3>1 DEF Paired, Extending, Working, InLoop
  <2> QED
    BY <1>1, <2>1, <2>4, <2>5 DEF Extending, LedgerSeen, Wanted
<1> QED
  BY <1>2, <1>3, <1>4, <1>5, <1>6, <1>7, OthersKeep

\* A new transaction has neither the lock nor rows.
LEMMA BeginStep == ASSUME IInv, NEW s \in Starts, Begin(s) PROVE IInv'
<1>1. /\ TypeOK /\ LedgerIsSchema /\ Len(schema) <= MaxVersion
      /\ Paired(s) /\ Locking(s) /\ Extending(s)
  BY DEF IInv
<1>2. /\ srv[s] = "none" /\ holder # s /\ outcome[s] = "running" /\ at[s] = 1
      /\ History!Loads(release[s])
  BY <1>1 DEF Begin, Paired, Locking, BeforeTx
<1>3. TypeOK'
  BY <1>1 DEF Begin, Goto, ReturnError, tables, overlay, TypeOK, Connected, Statements
<1>4. Frame(s)
  BY <1>1 DEF Begin, Goto, ReturnError, tables, overlay, TypeOK, Frame
<1>5. /\ DOMAIN pc = Starts /\ DOMAIN outcome = Starts /\ DOMAIN srv = Starts
      /\ release' = release /\ at' = at /\ holder' = holder /\ ran' = ran /\ recorded' = recorded
  BY <1>1 DEF Begin, tables, overlay, TypeOK
<1>6. History!Latest(release[s]) \in Nat
  BY <1>1, <1>2, WantedRow
<1>7. Paired(s)'
  BY <1>2, <1>5, <1>6 DEF Begin, Goto, ReturnError, Paired, BeforeTx, Statements
<1>8. Locking(s)' /\ Extending(s)'
  BY <1>1, <1>2, <1>5 DEF Begin, Goto, ReturnError, Locking, Extending, InLoop
<1>9. LedgerIsSchema' /\ Len(schema') <= MaxVersion
  BY <1>1 DEF Begin, tables, LedgerIsSchema
<1> QED
  BY <1>3, <1>4, <1>7, <1>8, <1>9, OthersKeep

\* Whoever gets the lock has read nothing so far, so there is nothing to be stale.
LEMMA LockStep == ASSUME IInv, NEW s \in Starts, Lock(s) PROVE IInv'
<1>1. /\ TypeOK /\ LedgerIsSchema /\ Len(schema) <= MaxVersion
      /\ Paired(s) /\ Locking(s) /\ Extending(s)
  BY DEF IInv
<1>2. ran[s] = <<>> /\ recorded[s] = {} /\ at[s] = 1
  BY <1>1, NoOneAssumption DEF Lock, Goto, Paired, Locking
<1>3. TypeOK'
  BY <1>1 DEF Lock, Goto, overlay, TypeOK, Connected, Statements
<1>4. Frame(s)
  BY <1>1 DEF Lock, Goto, overlay, TypeOK, Frame
<1>5. /\ pc[s] = "lock" /\ pc'[s] = "ensure" /\ srv'[s] = "active" /\ outcome' = outcome
      /\ holder' = s /\ at' = at /\ srv' = srv /\ ran' = ran /\ recorded' = recorded
      /\ release' = release /\ schema' = schema /\ ledger' = ledger
  BY <1>1 DEF Lock, Goto, overlay, TypeOK
<1>6. Paired(s)'
  BY <1>1, <1>5 DEF Paired, BeforeTx, Statements
<1>7. Locking(s)'
  BY <1>5 DEF Locking
<1>8. Len(schema) \in Nat /\ Len(ran[s]) = 0
  BY <1>1, <1>2 DEF TypeOK
<1>9. Extending(s)'
  <2>1. Len(schema) + 1 .. Len(schema) + Len(ran[s]) = {} /\ 1 .. Len(ran[s]) = {} /\ 1 .. at[s] - 1 = {}
    BY <1>2, <1>8
  <2> QED
    BY <1>2, <1>5, <2>1 DEF Extending
<1>10. LedgerIsSchema' /\ Len(schema') <= MaxVersion
  BY <1>1, <1>5 DEF LedgerIsSchema
<1> QED
  BY <1>3, <1>4, <1>6, <1>7, <1>9, <1>10, OthersKeep

\* The loop finds the first version that neither the tables nor the transaction has.
LEMMA FirstMissing ==
    ASSUME IInv, NEW s \in Starts, pc[s] = "read", srv[s] = "active",
           at[s] <= History!Latest(release[s]), LedgerSeen(s, at[s]) = NoRow
    PROVE  at[s] = Len(schema) + Len(ran[s]) + 1
<1> DEFINE n == Len(schema)  k == Len(ran[s])
<1>1. TypeOK /\ LedgerIsSchema /\ Paired(s) /\ Locking(s) /\ Extending(s)
  BY DEF IInv
<1>2. /\ n \in Nat /\ k \in Nat /\ at[s] \in Nat \ {0}
      /\ History!Loads(release[s])
  BY <1>1 DEF TypeOK, Paired
<1>3. /\ recorded[s] = n + 1 .. n + k
      /\ \A v \in 1 .. at[s] - 1 : LedgerSeen(s, v) = Wanted(s, v)
  BY <1>1 DEF Locking, Extending, Working, InLoop
<1>4. \A v \in 1 .. at[s] : v \in Versions /\ Wanted(s, v) # NoRow
  BY <1>1, <1>2, WantedRow
<1>5. \A v \in 1 .. at[s] : LedgerSeen(s, v) = NoRow <=> v > n + k
  BY <1>1, <1>2, <1>3, <1>4 DEF LedgerSeen, LedgerIsSchema
<1>6. at[s] > n + k
  BY <1>2, <1>5
<1>7. at[s] - 1 <= n + k
  BY <1>2, <1>3, <1>4, <1>5
<1> QED
  BY <1>2, <1>6, <1>7

\* The loop passes a version it agrees with, stops at a missing one, or refuses.
LEMMA ReadStep == ASSUME IInv, NEW s \in Starts, ReadLedger(s) PROVE IInv'
<1>1. /\ TypeOK /\ LedgerIsSchema /\ Len(schema) <= MaxVersion
      /\ Paired(s) /\ Locking(s) /\ Extending(s)
  BY DEF IInv
<1>2. /\ pc[s] = "read" /\ srv[s] = "active" /\ outcome[s] = "running"
      /\ at[s] \in Nat \ {0} /\ at[s] <= History!Latest(release[s])
      /\ holder = s /\ Working(s) /\ History!Latest(release[s]) \in Nat
  BY <1>1, WantedRow DEF ReadLedger, TypeOK, Paired, Locking, Working, Statements, InLoop
<1>3. /\ DOMAIN pc = Starts /\ DOMAIN outcome = Starts /\ DOMAIN at = Starts
      /\ holder' = holder /\ srv' = srv /\ ran' = ran /\ recorded' = recorded
      /\ release' = release /\ schema' = schema /\ ledger' = ledger
  BY <1>1 DEF ReadLedger, tables, overlay, TypeOK
<1>4. \/ LedgerSeen(s, at[s]) = NoRow /\ pc'[s] = "apply" /\ at' = at /\ outcome' = outcome
      \/ /\ LedgerSeen(s, at[s]) = Wanted(s, at[s])
         /\ pc'[s] = "read" /\ at'[s] = at[s] + 1 /\ outcome' = outcome
      \/ pc'[s] = "rollback" /\ at' = at
  BY <1>2, <1>3 DEF ReadLedger, Goto, ReturnError
<1>5. TypeOK'
  <2>1. pc' \in [Starts -> BeforeTx \cup {"done"} \cup Connected] /\ store' = store
    BY <1>1 DEF ReadLedger, Goto, ReturnError, TypeOK, BeforeTx, Connected, Statements
  <2>3. at' \in [Starts -> Nat \ {0}]
    <3>1. at' = at \/ at' = [at EXCEPT ![s] = @ + 1]
      BY DEF ReadLedger
    <3> QED
      BY <1>1, <1>2, <3>1 DEF TypeOK
  <2>2. outcome' \in [Starts -> {"running", "ok", "unloadable", "mismatch", "unusable",
                                 "conflict", "failed"}]
    BY <1>1 DEF ReadLedger, Goto, ReturnError, TypeOK
  <2> QED
    BY <1>1, <1>3, <2>1, <2>2, <2>3 DEF TypeOK, BeforeTx
<1>6. Frame(s)
  BY <1>1 DEF ReadLedger, Goto, ReturnError, tables, overlay, TypeOK, Frame
<1>7. Paired(s)'
  BY <1>1, <1>2, <1>3, <1>4 DEF Paired, BeforeTx, Statements
<1>8. Locking(s)'
  BY <1>1, <1>2, <1>3, <1>4 DEF Locking
<1>9. \A v : LedgerSeen(s, v)' = LedgerSeen(s, v) /\ Wanted(s, v)' = Wanted(s, v)
  BY <1>3 DEF LedgerSeen, Wanted
<1>10. Extending(s)'
  <2>1. CASE LedgerSeen(s, at[s]) = NoRow /\ pc'[s] = "apply" /\ at' = at
    <3>1. at[s] = Len(schema) + Len(ran[s]) + 1
      BY <1>2, <2>1, FirstMissing
    <3> QED
      BY <1>1, <1>2, <1>3, <1>9, <2>1, <3>1 DEF Extending
  <2>2. CASE LedgerSeen(s, at[s]) = Wanted(s, at[s]) /\ pc'[s] = "read" /\ at'[s] = at[s] + 1
    BY <1>1, <1>2, <1>3, <1>9, <2>2 DEF Extending
  <2>3. CASE pc'[s] = "rollback"
    BY <1>1, <1>2, <1>3, <1>9, <2>3 DEF Extending, Working, InLoop
  <2> QED
    BY <1>4, <2>1, <2>2, <2>3
<1>11. LedgerIsSchema' /\ Len(schema') <= MaxVersion
  BY <1>1, <1>3 DEF LedgerIsSchema
<1> QED
  BY <1>5, <1>6, <1>7, <1>8, <1>10, <1>11, OthersKeep

\* The script that runs is that of the first missing version.
LEMMA ApplyStep == ASSUME IInv, NEW s \in Starts, Apply(s) PROVE IInv'
<1>1. /\ TypeOK /\ LedgerIsSchema /\ Len(schema) <= MaxVersion
      /\ Paired(s) /\ Locking(s) /\ Extending(s)
  BY DEF IInv
<1>2. /\ pc[s] = "apply" /\ srv[s] = "active" /\ outcome[s] = "running"
      /\ at[s] \in Nat \ {0} /\ at[s] <= History!Latest(release[s])
      /\ holder = s /\ Working(s) /\ History!Latest(release[s]) \in Nat
      /\ Wanted(s, at[s]).sql \in Scripts
  BY <1>1, WantedRow DEF Apply, TypeOK, Paired, Locking, Working, Statements, InLoop
<1>3. /\ DOMAIN pc = Starts /\ DOMAIN outcome = Starts /\ ran \in [Starts -> Seq(Scripts)]
      /\ holder' = holder /\ srv' = srv /\ at' = at /\ recorded' = recorded /\ store' = store
      /\ release' = release /\ schema' = schema /\ ledger' = ledger
  BY <1>1 DEF Apply, tables, TypeOK
<1>4. \/ pc'[s] = "rollback" /\ ran' = ran
      \/ /\ Wanted(s, at[s]).sql \notin Unwrapped /\ outcome' = outcome /\ pc'[s] = "record"
         /\ ran'[s] = Append(ran[s], Wanted(s, at[s]).sql)
  BY <1>3 DEF Apply, Goto, ReturnError
<1>5. TypeOK'
  <2>1. pc' \in [Starts -> BeforeTx \cup {"done"} \cup Connected]
    BY <1>1 DEF Apply, Goto, ReturnError, TypeOK, BeforeTx, Connected, Statements
  <2>2. outcome' \in [Starts -> {"running", "ok", "unloadable", "mismatch", "unusable",
                                 "conflict", "failed"}]
    BY <1>1 DEF Apply, Goto, ReturnError, TypeOK
  <2>3. ran' \in [Starts -> Seq(Scripts)]
    <3>1. CASE ran' = ran
      BY <1>3, <3>1
    <3>2. CASE ran' = [ran EXCEPT ![s] = Append(@, Wanted(s, at[s]).sql)]
      <4>1. Append(ran[s], Wanted(s, at[s]).sql) \in Seq(Scripts)
        BY <1>2, <1>3
      <4> QED
        BY <1>3, <3>2, <4>1
    <3> QED
      BY <3>1, <3>2 DEF Apply
  <2> QED
    BY <1>1, <1>3, <2>1, <2>2, <2>3 DEF TypeOK, BeforeTx
<1>6. Frame(s)
  BY <1>1, <1>3 DEF Apply, Goto, ReturnError, TypeOK, Frame
<1>7. Paired(s)'
  BY <1>1, <1>2, <1>3, <1>4 DEF Paired, BeforeTx, Statements
<1>8. Locking(s)'
  BY <1>1, <1>2, <1>3, <1>4 DEF Locking
<1>9. \A v : LedgerSeen(s, v)' = LedgerSeen(s, v) /\ Wanted(s, v)' = Wanted(s, v)
  BY <1>3 DEF LedgerSeen, Wanted
<1>10. Extending(s)'
  <2>1. CASE pc'[s] = "rollback" /\ ran' = ran
    BY <1>1, <1>2, <1>3, <1>9, <2>1 DEF Extending, Working, InLoop
  <2>2. CASE /\ Wanted(s, at[s]).sql \notin Unwrapped /\ pc'[s] = "record"
             /\ ran'[s] = Append(ran[s], Wanted(s, at[s]).sql)
    <3> DEFINE n == Len(schema)  k == Len(ran[s])
    <3>1. n \in Nat /\ k \in Nat /\ ran[s] \in Seq(Scripts)
      BY <1>1 DEF TypeOK
    <3>2. at[s] = n + k + 1 /\ recorded[s] = n + 1 .. n + k
      BY <1>1, <1>2 DEF Extending
    <3>3. Len(ran'[s]) = k + 1 /\ \A i \in 1 .. k + 1 :
             ran'[s][i] = IF i <= k THEN ran[s][i] ELSE Wanted(s, at[s]).sql
      BY <1>2, <2>2, <3>1
    <3>4. \A i \in 1 .. k : /\ n + i <= History!Latest(release[s])
                            /\ ran[s][i] = Wanted(s, n + i).sql
                            /\ ran[s][i] \notin Unwrapped
      BY <1>1, <1>2 DEF Extending
    <3>5. \A i \in 1 .. k + 1 : /\ n + i <= History!Latest(release[s])
                                /\ ran'[s][i] = Wanted(s, n + i).sql
                                /\ ran'[s][i] \notin Unwrapped
      <4> SUFFICES ASSUME NEW i \in 1 .. k + 1
                   PROVE  /\ n + i <= History!Latest(release[s])
                          /\ ran'[s][i] = Wanted(s, n + i).sql
                          /\ ran'[s][i] \notin Unwrapped
        OBVIOUS
      <4>1. CASE i \in 1 .. k
        <5>1. ran'[s][i] = ran[s][i]
          BY <3>1, <3>3, <4>1
        <5> QED
          BY <3>4, <4>1, <5>1
      <4>2. CASE i = k + 1
        <5>1. n + i = at[s] /\ ran'[s][i] = Wanted(s, at[s]).sql
          BY <3>1, <3>2, <3>3, <4>2
        <5> QED
          BY <1>2, <2>2, <5>1
      <4> QED
        BY <3>1, <4>1, <4>2
    <3>6. n + (k + 1) - 1 = n + k /\ at[s] = n + (k + 1) /\ k + 1 > 0
      BY <3>1, <3>2
    <3>7. \A v \in 1 .. at[s] - 1 : LedgerSeen(s, v) = Wanted(s, v)
      BY <1>1, <1>2 DEF Extending
    <3> HIDE DEF n, k
    <3> QED
      BY <1>3, <1>9, <2>2, <3>2, <3>3, <3>5, <3>6, <3>7 DEF Extending, n, k
  <2> QED
    BY <1>4, <2>1, <2>2
<1>11. LedgerIsSchema' /\ Len(schema') <= MaxVersion
  BY <1>1, <1>3 DEF LedgerIsSchema
<1> QED
  BY <1>5, <1>6, <1>7, <1>8, <1>10, <1>11, OthersKeep

\* The row that Record inserts is that of a script that only its own transaction has run,
\* so nobody can have recorded it before: Migrate never meets a conflict.
LEMMA RecordIsNew ==
    ASSUME IInv, NEW s \in Starts, pc[s] = "record", srv[s] = "active"
    PROVE  at[s] = Len(schema) + Len(ran[s]) /\ at[s] \in Versions /\ ledger[at[s]] = NoRow
<1>1. TypeOK /\ LedgerIsSchema /\ Paired(s) /\ Locking(s) /\ Extending(s)
  BY DEF IInv
<1>2. holder = s /\ Working(s)
  BY <1>1 DEF Locking, Working, InLoop
<1>3. Len(schema) \in Nat /\ Len(ran[s]) \in Nat /\ at[s] \in Nat \ {0}
  BY <1>1 DEF TypeOK
<1>4. at[s] = Len(schema) + Len(ran[s]) /\ Len(ran[s]) > 0
  BY <1>1, <1>2 DEF Extending
<1>5. at[s] \in Versions
  BY <1>1, <1>3, WantedRow DEF Paired
<1> QED
  BY <1>1, <1>3, <1>4, <1>5 DEF LedgerIsSchema

\* Its row closes the gap between what has run and what is recorded.
LEMMA RecordStep == ASSUME IInv, NEW s \in Starts, Record(s) PROVE IInv'
<1>1. /\ TypeOK /\ LedgerIsSchema /\ Len(schema) <= MaxVersion
      /\ Paired(s) /\ Locking(s) /\ Extending(s)
  BY DEF IInv
<1>2. /\ pc[s] = "record" /\ srv[s] = "active" /\ outcome[s] = "running"
      /\ at[s] \in Nat \ {0} /\ at[s] <= History!Latest(release[s])
      /\ holder = s /\ Working(s) /\ History!Latest(release[s]) \in Nat
  BY <1>1, WantedRow DEF Record, TypeOK, Paired, Locking, Working, Statements, InLoop
<1>3. at[s] = Len(schema) + Len(ran[s]) /\ at[s] \in Versions /\ ledger[at[s]] = NoRow
  BY <1>2, RecordIsNew
<1>4. /\ pc' = [pc EXCEPT ![s] = "read"] /\ outcome' = outcome
      /\ recorded' = [recorded EXCEPT ![s] = @ \cup {at[s]}]
      /\ at' = [at EXCEPT ![s] = @ + 1]
      /\ srv' = srv /\ ran' = ran /\ holder' = holder
      /\ release' = release /\ schema' = schema /\ ledger' = ledger /\ store' = store
  BY <1>2, <1>3 DEF Record, Goto
<1>5. TypeOK'
  <2>1. recorded' \in [Starts -> SUBSET Versions] /\ at' \in [Starts -> Nat \ {0}]
    BY <1>1, <1>2, <1>3, <1>4 DEF TypeOK
  <2>2. pc' \in [Starts -> {"open", "ping", "load", "begin", "done"} \cup Connected]
    BY <1>1, <1>4 DEF TypeOK, Connected, Statements
  <2> QED
    BY <1>1, <1>4, <2>1, <2>2 DEF TypeOK
<1>6. /\ pc'[s] = "read" /\ recorded'[s] = recorded[s] \cup {at[s]} /\ at'[s] = at[s] + 1
  BY <1>1, <1>4 DEF TypeOK
<1>7. Frame(s)
  BY <1>1, <1>4 DEF TypeOK, Frame
<1>8. Paired(s)'
  BY <1>1, <1>2, <1>4, <1>6 DEF Paired, BeforeTx, Statements
<1>9. Locking(s)'
  BY <1>1, <1>2, <1>4, <1>6 DEF Locking
<1>10. \A v \in 1 .. at[s] : LedgerSeen(s, v)' = Wanted(s, v)
  <2>1. \A v \in 1 .. at[s] - 1 : LedgerSeen(s, v) = Wanted(s, v)
    BY <1>1, <1>2 DEF Extending
  <2> QED
    BY <1>2, <1>4, <1>6, <2>1 DEF LedgerSeen, Wanted
<1>11. recorded'[s] = Len(schema) + 1 .. Len(schema) + Len(ran[s])
  <2>1. /\ recorded[s] = Len(schema) + 1 .. Len(schema) + Len(ran[s]) - 1
        /\ Len(ran[s]) > 0
    BY <1>1, <1>2 DEF Extending
  <2>2. Len(schema) \in Nat /\ Len(ran[s]) \in Nat
    BY <1>1 DEF TypeOK
  <2> QED
    BY <1>3, <1>6, <2>1, <2>2
<1>12. \A v : Wanted(s, v)' = Wanted(s, v)
  BY <1>4 DEF Wanted
<1>13. Extending(s)'
  <2>1. 1 .. at'[s] - 1 = 1 .. at[s]
    BY <1>2, <1>6
  <2> QED
    BY <1>1, <1>2, <1>4, <1>6, <1>10, <1>11, <1>12, <2>1 DEF Extending
<1>14. LedgerIsSchema' /\ Len(schema') <= MaxVersion
  BY <1>1, <1>4 DEF LedgerIsSchema
<1> QED
  BY <1>5, <1>7, <1>8, <1>9, <1>13, <1>14, OthersKeep

\* Once COMMIT is sent, nobody but the backend touches the transaction.
LEMMA SendCommitStep == ASSUME IInv, NEW s \in Starts, SendCommit(s) PROVE IInv'
<1>1. /\ TypeOK /\ LedgerIsSchema /\ Len(schema) <= MaxVersion
      /\ Paired(s) /\ Locking(s) /\ Extending(s)
  BY DEF IInv
<1>2. /\ pc' = [pc EXCEPT ![s] = "reply"] /\ srv' = [srv EXCEPT ![s] = "committing"]
      /\ outcome' = outcome /\ at' = at /\ holder' = holder /\ ran' = ran /\ recorded' = recorded
      /\ release' = release /\ schema' = schema /\ ledger' = ledger /\ store' = store
      /\ pc[s] = "commit" /\ srv[s] = "active"
  BY DEF SendCommit, Goto, tables, overlay
<1>3. TypeOK'
  BY <1>1, <1>2 DEF TypeOK, Connected, Statements
<1>4. pc'[s] = "reply" /\ srv'[s] = "committing"
  BY <1>1, <1>2 DEF TypeOK
<1>5. Frame(s)
  BY <1>1, <1>2 DEF TypeOK, Frame
<1>6. Paired(s)'
  BY <1>1, <1>2, <1>4 DEF Paired, BeforeTx, Statements
<1>7. Locking(s)'
  BY <1>1, <1>2, <1>4 DEF Locking, InLoop
<1>8. \A v : LedgerSeen(s, v)' = LedgerSeen(s, v) /\ Wanted(s, v)' = Wanted(s, v)
  BY <1>2 DEF LedgerSeen, Wanted
<1>9. Working(s)
  BY <1>2 DEF Working, InLoop
<1>10. Extending(s)'
  BY <1>1, <1>2, <1>4, <1>8, <1>9 DEF Extending
<1>11. LedgerIsSchema' /\ Len(schema') <= MaxVersion
  BY <1>1, <1>2 DEF LedgerIsSchema
<1> QED
  BY <1>3, <1>5, <1>6, <1>7, <1>10, <1>11, OthersKeep

\* A transaction ends without effect.
LEMMA EndStep == ASSUME IInv, NEW s \in Starts, ServerAbort(s) \/ Rollback(s) PROVE IInv'
<1>1. /\ TypeOK /\ LedgerIsSchema /\ Len(schema) <= MaxVersion
      /\ Paired(s) /\ Locking(s) /\ Extending(s)
  BY DEF IInv
<1>2. /\ srv' = [srv EXCEPT ![s] = "aborted"] /\ ran' = [ran EXCEPT ![s] = <<>>]
      /\ recorded' = [recorded EXCEPT ![s] = {}]
      /\ holder' = IF holder = s THEN NoOne ELSE holder
      /\ release' = release /\ schema' = schema /\ ledger' = ledger /\ store' = store
      /\ outcome' = outcome /\ at' = at
      /\ \/ srv[s] \in {"active", "committing"} /\ pc' = pc
         \/ pc[s] = "rollback" /\ pc' = [pc EXCEPT ![s] = "done"]
  BY DEF ServerAbort, Rollback, EndTransaction, Goto
<1>3. TypeOK'
  <2>1. /\ srv' \in [Starts -> {"none", "active", "committing", "committed", "aborted"}]
        /\ recorded' \in [Starts -> SUBSET Versions] /\ holder' \in Starts \cup {NoOne}
        /\ pc' \in [Starts -> {"open", "ping", "load", "begin", "done"} \cup Connected]
    BY <1>1, <1>2 DEF TypeOK
  <2>2. ran' \in [Starts -> Seq(Scripts)]
    BY <1>1, <1>2 DEF TypeOK
  <2> QED
    BY <1>1, <1>2, <2>1, <2>2 DEF TypeOK
<1>4. /\ srv'[s] = "aborted" /\ ran'[s] = <<>> /\ recorded'[s] = {} /\ holder' # s
      /\ pc'[s] = pc[s] \/ pc'[s] = "done"
  BY <1>1, <1>2, NoOneAssumption DEF TypeOK
<1>5. Frame(s)
  BY <1>1, <1>2 DEF TypeOK, Frame
<1>6. Paired(s)'
  <2>1. srv[s] # "none"
    BY <1>1, <1>2 DEF Paired, Statements
  <2> QED
    BY <1>1, <1>2, <1>4, <2>1 DEF Paired, BeforeTx, Statements
<1>7. Locking(s)' /\ Extending(s)'
  BY <1>4 DEF Locking, Extending
<1>8. LedgerIsSchema' /\ Len(schema') <= MaxVersion
  BY <1>1, <1>2 DEF LedgerIsSchema
<1> QED
  BY <1>3, <1>5, <1>6, <1>7, <1>8, OthersKeep

\* What a transaction that commits has: the versions after the committed ones, up to the
\* latest of its release, all recorded.
LEMMA Committing ==
    ASSUME IInv, NEW s \in Starts, srv[s] = "committing"
    PROVE  LET n == Len(schema)  k == Len(ran[s]) IN
           /\ holder = s /\ n \in Nat /\ k \in Nat /\ History!Loads(release[s])
           /\ recorded[s] = n + 1 .. n + k
           /\ \A i \in 1 .. k : /\ n + i <= History!Latest(release[s])
                                /\ ran[s][i] = Wanted(s, n + i).sql
                                /\ ran[s][i] \notin Unwrapped
           /\ \A v \in 1 .. History!Latest(release[s]) : LedgerSeen(s, v) = Wanted(s, v)
<1>1. TypeOK /\ Paired(s) /\ Locking(s) /\ Extending(s)
  BY DEF IInv
<1>2. Working(s) /\ holder = s /\ pc[s] \in {"reply", "done"}
  BY <1>1 DEF Paired, Locking, Working
<1>3. Len(schema) \in Nat /\ Len(ran[s]) \in Nat /\ History!Loads(release[s])
  BY <1>1 DEF TypeOK, Paired
<1>4. at[s] - 1 = History!Latest(release[s])
  BY <1>1, <1>2, <1>3, WantedRow DEF Extending
<1> QED
  BY <1>1, <1>2, <1>3, <1>4 DEF Extending

\* What the commit makes visible: the rows and scripts of the versions that it adds are
\* those of the release, and the earlier ones are left as they were.
LEMMA CommitEffect ==
    ASSUME IInv, NEW s \in Starts, ServerCommit(s)
    PROVE  LET n == Len(schema)  k == Len(ran[s]) IN
           /\ n + k \in 0 .. MaxVersion
           /\ schema' \in Seq(Scripts) /\ Len(schema') = n + k
           /\ \A v \in 1 .. n : schema'[v] = schema[v]
           /\ \A v \in n + 1 .. n + k : /\ v \in Versions
                                       /\ schema'[v] = Wanted(s, v).sql
                                       /\ Wanted(s, v) \in History!Row /\ Wanted(s, v) # NoRow
           /\ \A v \in Versions :
                 ledger'[v] = IF v \in n + 1 .. n + k THEN Wanted(s, v) ELSE ledger[v]
<1> DEFINE n == Len(schema)  k == Len(ran[s])
<1>1. TypeOK /\ n <= MaxVersion
  BY DEF IInv
<1>2. /\ srv[s] = "committing" /\ schema' = schema \o ran[s]
      /\ ledger' = [v \in Versions |-> LedgerSeen(s, v)]
  BY DEF ServerCommit
<1>3. /\ n \in Nat /\ k \in Nat /\ recorded[s] = n + 1 .. n + k /\ History!Loads(release[s])
      /\ \A i \in 1 .. k : /\ n + i <= History!Latest(release[s])
                           /\ ran[s][i] = Wanted(s, n + i).sql
  BY <1>2, Committing
<1>4. History!Latest(release[s]) \in 0 .. MaxVersion
  BY <1>1, <1>3, WantedRow
<1>5. /\ schema \o ran[s] \in Seq(Scripts) /\ Len(schema \o ran[s]) = n + k
      /\ \A v \in 1 .. n + k : (schema \o ran[s])[v] = IF v <= n THEN schema[v] ELSE ran[s][v - n]
  <2>1. ran[s] \in Seq(Scripts) /\ schema \in Seq(Scripts)
    BY <1>1 DEF TypeOK
  <2> QED
    BY <2>1, ConcatProperties
<1>6. ASSUME NEW v \in n + 1 .. n + k
      PROVE  /\ v \in Versions /\ v <= MaxVersion
             /\ schema'[v] = Wanted(s, v).sql
             /\ Wanted(s, v) \in History!Row /\ Wanted(s, v) # NoRow
  <2>1. v - n \in 1 .. k /\ n + (v - n) = v /\ v \in 1 .. n + k /\ ~(v <= n)
    BY <1>3
  <2>2. n + (v - n) <= History!Latest(release[s]) /\ ran[s][v - n] = Wanted(s, n + (v - n)).sql
    BY <1>3, <2>1
  <2>3. v \in 1 .. History!Latest(release[s]) /\ schema'[v] = Wanted(s, v).sql
    <3>1. v <= History!Latest(release[s]) /\ ran[s][v - n] = Wanted(s, v).sql
      BY <2>1, <2>2
    <3> QED
      BY <1>2, <1>4, <1>5, <2>1, <3>1
  <2> QED
    <3>1. Wanted(s, v) \in History!Row /\ Wanted(s, v) # NoRow /\ v \in Versions
      BY <1>1, <1>3, <2>3, WantedRow
    <3>2. v <= MaxVersion
      BY <3>1, VersionsAssumption DEF Versions
    <3> QED
      BY <2>3, <3>1, <3>2
<1>7. n + k \in 0 .. MaxVersion
  <2>1. k = 0 \/ n + k \in n + 1 .. n + k
    BY <1>3
  <2> QED
    BY <1>1, <1>3, <1>6, <2>1, VersionsAssumption
<1>8. \A v \in 1 .. n : schema'[v] = schema[v]
  BY <1>2, <1>3, <1>5
<1>9. \A v \in Versions : ledger'[v] = IF v \in n + 1 .. n + k THEN Wanted(s, v) ELSE ledger[v]
  BY <1>2, <1>3 DEF LedgerSeen
<1> QED
  BY <1>2, <1>5, <1>6, <1>7, <1>8, <1>9

\* The commit moves scripts and rows to the tables together.
LEMMA ServerCommitStep == ASSUME IInv, NEW s \in Starts, ServerCommit(s) PROVE IInv'
<1> DEFINE n == Len(schema)  k == Len(ran[s])
<1>1. /\ TypeOK /\ LedgerIsSchema
      /\ Paired(s) /\ Locking(s) /\ n \in Nat /\ k \in Nat
  BY DEF IInv, TypeOK
<1>2. /\ srv[s] = "committing" /\ srv' = [srv EXCEPT ![s] = "committed"]
      /\ ran' = [ran EXCEPT ![s] = <<>>] /\ recorded' = [recorded EXCEPT ![s] = {}]
      /\ ledger' = [v \in Versions |-> LedgerSeen(s, v)]
      /\ holder' = IF holder = s THEN NoOne ELSE holder
      /\ release' = release /\ store' = store /\ pc' = pc /\ outcome' = outcome /\ at' = at
  BY DEF ServerCommit, EndTransaction
<1>3. /\ schema' \in Seq(Scripts) /\ Len(schema') = n + k /\ Len(schema') <= MaxVersion
      /\ \A v \in 1 .. n : schema'[v] = schema[v]
      /\ \A v \in n + 1 .. n + k : /\ schema'[v] = Wanted(s, v).sql
                                  /\ Wanted(s, v) \in History!Row /\ Wanted(s, v) # NoRow
      /\ \A v \in Versions : ledger'[v] = IF v \in n + 1 .. n + k THEN Wanted(s, v) ELSE ledger[v]
  BY CommitEffect
<1>4. TypeOK'
  <2>1. ledger' \in [Versions -> History!Row \cup {NoRow}]
    <3>1. \A v \in Versions : ledger'[v] \in History!Row \cup {NoRow}
      BY <1>1, <1>3 DEF TypeOK
    <3> QED
      BY <1>2, <3>1
  <2>2. /\ srv' \in [Starts -> {"none", "active", "committing", "committed", "aborted"}]
        /\ recorded' \in [Starts -> SUBSET Versions] /\ holder' \in Starts \cup {NoOne}
    BY <1>1, <1>2 DEF TypeOK
  <2>3. ran' \in [Starts -> Seq(Scripts)]
    BY <1>1, <1>2 DEF TypeOK
  <2> QED
    BY <1>1, <1>2, <1>3, <2>1, <2>2, <2>3 DEF TypeOK
<1>5. LedgerIsSchema'
  <2> SUFFICES ASSUME NEW v \in Versions
               PROVE  IF v <= n + k THEN ledger'[v] # NoRow /\ ledger'[v].sql = schema'[v]
                                    ELSE ledger'[v] = NoRow
    BY <1>3 DEF LedgerIsSchema
  <2>1. CASE v \in 1 .. n
    BY <1>1, <1>3, <2>1 DEF LedgerIsSchema
  <2>2. CASE v \in n + 1 .. n + k
    BY <1>1, <1>3, <2>2
  <2>3. CASE v > n + k
    <3>1. v \in Nat /\ ~(v <= n) /\ ~(v <= n + k) /\ v \notin n + 1 .. n + k
      BY <1>1, <2>3 DEF Versions
    <3>2. ledger[v] = NoRow
      BY <1>1, <3>1 DEF LedgerIsSchema
    <3> QED
      BY <1>3, <3>1, <3>2
  <2> QED
    BY <1>1, <2>1, <2>2, <2>3 DEF Versions
<1>6. srv'[s] = "committed" /\ ran'[s] = <<>> /\ recorded'[s] = {} /\ holder' # s
  BY <1>1, <1>2, NoOneAssumption DEF TypeOK
<1>7. Frame(s)
  BY <1>1, <1>2 DEF TypeOK, Frame, Locking
<1>8. Paired(s)'
  BY <1>1, <1>2, <1>6 DEF Paired, BeforeTx, Statements
<1>9. Locking(s)' /\ Extending(s)'
  BY <1>6 DEF Locking, Extending
<1> QED
  BY <1>3, <1>4, <1>5, <1>7, <1>8, <1>9, OthersKeep

-------------------------------------------------------------------------------
(* The theorems. *)

\* Every step of the system preserves the invariant.
LEMMA StepInvariant == IInv /\ [Next]_vars => IInv'
<1> SUFFICES ASSUME IInv, [Next]_vars PROVE IInv'
  OBVIOUS
<1>1. CASE UNCHANGED vars
  BY <1>1 DEF IInv, TypeOK, LedgerIsSchema, Paired, Locking, Extending, Working, LedgerSeen, Wanted,
     vars, tables, overlay
<1>2. ASSUME NEW s \in Starts,
             \/ ClientStep(s) \/ CloseReturns(s) \/ ServerCommit(s)
             \/ ServerAbort(s) \/ GiveUp(s) \/ Close(s) \/ Crash(s)
      PROVE  IInv'
  <2>1. CASE \/ OpenPool(s) \/ OpenFails(s) \/ Ping(s) \/ PingFails(s) \/ Load(s)
             \/ EnsureLedger(s) \/ AllApplied(s) \/ CommitReturns(s) \/ StatementFails(s)
             \/ GiveUp(s) \/ Close(s) \/ CloseReturns(s) \/ Crash(s)
    <3>1. Quiet(s)
      BY <2>1 DEF OpenPool, OpenFails, Ping, PingFails, Load, EnsureLedger, AllApplied, CommitReturns,
         StatementFails, GiveUp, Close, CloseReturns, Crash, Quiet, tables, overlay
    <3> QED
      BY <2>1, <3>1, QuietSteps
  <2>2. CASE Begin(s)
    BY <2>2, BeginStep
  <2>3. CASE Lock(s)
    BY <2>3, LockStep
  <2>4. CASE ReadLedger(s)
    BY <2>4, ReadStep
  <2>5. CASE Apply(s)
    BY <2>5, ApplyStep
  <2>6. CASE Record(s)
    BY <2>6, RecordStep
  <2>7. CASE SendCommit(s)
    BY <2>7, SendCommitStep
  <2>8. CASE ServerCommit(s)
    BY <2>8, ServerCommitStep
  <2>9. CASE ServerAbort(s) \/ Rollback(s)
    BY <2>9, EndStep
  <2> QED
    BY <1>2, <2>1, <2>2, <2>3, <2>4, <2>5, <2>6, <2>7, <2>8, <2>9 DEF ClientStep, Statement
<1> QED
  BY <1>1, <1>2 DEF Next

\* The inductive invariant holds of every reachable state.
THEOREM Invariance == Spec => []IInv
BY InitInvariant, StepInvariant, PTL DEF Spec

\* The ledger of migrations and the committed schema say the same in every state, whatever
\* releases start, wait, crash and start again.
THEOREM LedgerMatches == Spec => []LedgerIsSchema
<1>1. IInv => LedgerIsSchema
  BY DEF IInv
<1> QED
  BY <1>1, Invariance, PTL

\* What a migrating transaction has read about the ledger is still true when it acts on it.
THEOREM ReadsStayTrue == Spec => []CheckedIsCurrent
<1>1. IInv => CheckedIsCurrent
  <2> SUFFICES ASSUME IInv, NEW s \in Starts,
                      pc[s] \in {"read", "apply", "record", "commit"}, srv[s] = "active"
               PROVE  /\ holder = s
                      /\ \A v \in 1 .. at[s] - 1 : LedgerSeen(s, v) = Wanted(s, v)
                      /\ pc[s] \in {"apply", "record"} => ledger[at[s]] = NoRow
    BY DEF CheckedIsCurrent
  <2>1. TypeOK /\ LedgerIsSchema /\ Paired(s) /\ Locking(s) /\ Extending(s)
    BY DEF IInv
  <2>2. holder = s /\ Working(s)
    BY <2>1 DEF Locking, Working, InLoop
  <2>3. \A v \in 1 .. at[s] - 1 : LedgerSeen(s, v) = Wanted(s, v)
    BY <2>1, <2>2 DEF Extending
  <2>4. ASSUME pc[s] = "apply" PROVE ledger[at[s]] = NoRow
    <3>1. /\ Len(schema) \in Nat /\ Len(ran[s]) \in Nat
          /\ at[s] = Len(schema) + Len(ran[s]) + 1 /\ History!Loads(release[s])
      BY <2>1, <2>2, <2>4 DEF TypeOK, Paired, Extending
    <3>2. at[s] \in Versions
      BY <2>1, <2>4, <3>1, WantedRow DEF Paired
    <3> QED
      BY <2>1, <3>1, <3>2 DEF LedgerIsSchema
  <2> QED
    BY <2>2, <2>3, <2>4, RecordIsNew
<1> QED
  BY <1>1, Invariance, PTL

-------------------------------------------------------------------------------
(* Migrator implements SchemaHistory. *)

\* The history that the tables stand for.
Rows == [v \in 1 .. Len(schema) |-> [name |-> ledger[v].name, sql |-> schema[v]]]

\* It is the committed part of the ledger.
LEMMA RowsAreLedger ==
    ASSUME IInv
    PROVE  /\ Len(schema) \in Nat /\ Len(Rows) = Len(schema)
           /\ \A v \in 1 .. Len(schema) : v \in Versions /\ Rows[v] = ledger[v]
<1>1. TypeOK /\ LedgerIsSchema /\ Len(schema) <= MaxVersion /\ Len(schema) \in Nat
  BY DEF IInv, TypeOK
<1>2. Len(Rows) = Len(schema)
  BY <1>1 DEF Rows
<1>3. ASSUME NEW v \in 1 .. Len(schema) PROVE v \in Versions /\ Rows[v] = ledger[v]
  <2>1. v \in Versions
    BY <1>1, VersionsAssumption DEF Versions
  <2>2. ledger[v] \in History!Row /\ ledger[v].sql = schema[v]
    BY <1>1, <2>1 DEF TypeOK, LedgerIsSchema
  <2>3. ledger[v] = [name |-> ledger[v].name, sql |-> ledger[v].sql]
    BY <2>2 DEF History!Row
  <2> QED
    BY <2>1, <2>2, <2>3 DEF Rows
<1> QED
  BY <1>1, <1>2, <1>3

\* The initial states are those of SchemaHistory.
LEMMA InitHistory == Init => History!Init
<1> SUFFICES ASSUME Init PROVE History!Init
  OBVIOUS
<1>1. Len(schema) = 0
  BY DEF Init
<1>2. Rows = <<>>
  <2>1. DOMAIN Rows = {}
    BY <1>1 DEF Rows
  <2>2. Rows \in [1 .. 0 -> {}]
    BY <1>1 DEF Rows
  <2>3. Rows \in Seq({}) /\ Len(Rows) = 0
    BY <2>2
  <2> QED
    BY <2>3, EmptySeq
<1>3. Upgraded = {}
  BY DEF Init, Upgraded
<1> QED
  BY <1>2, <1>3 DEF Init, History!Init, Rows

\* The commit of a transaction extends the history by all that it lacks, to a release
\* that agrees with it.
LEMMA CommitUpgrades == ASSUME IInv, NEW s \in Starts, ServerCommit(s) PROVE History!Upgrade(s)
<1> DEFINE n == Len(schema)
           k == Len(ran[s])
           latest == History!Latest(release[s])
           last == IF latest > n THEN latest ELSE n
<1>1. /\ TypeOK /\ LedgerIsSchema /\ Paired(s) /\ srv[s] = "committing"
      /\ release' = release /\ outcome' = outcome /\ srv' = [srv EXCEPT ![s] = "committed"]
  BY DEF IInv, ServerCommit, EndTransaction
<1>2. /\ n \in Nat /\ k \in Nat /\ recorded[s] = n + 1 .. n + k /\ History!Loads(release[s])
      /\ \A i \in 1 .. k : /\ n + i <= latest
                           /\ ran[s][i] = Wanted(s, n + i).sql
                           /\ ran[s][i] \notin Unwrapped
      /\ \A v \in 1 .. latest : LedgerSeen(s, v) = Wanted(s, v)
  BY <1>1, Committing
<1>3. latest \in Nat /\ \A v \in 1 .. latest : v \in Versions /\ Wanted(s, v) # NoRow
  BY <1>1, <1>2, WantedRow
<1>4. Len(Rows) = n /\ \A v \in 1 .. n : v \in Versions /\ Rows[v] = ledger[v]
  BY RowsAreLedger
<1>5. ASSUME NEW v \in 1 .. latest, v <= n PROVE Rows[v] = History!RowOf(release[s], v)
  <2>1. v \notin recorded[s] /\ v \in 1 .. n
    <3> HIDE DEF latest
    <3> QED
      BY <1>2, <1>5
  <2> QED
    BY <1>2, <1>4, <2>1 DEF LedgerSeen, Wanted
<1>6. ASSUME NEW v \in 1 .. latest, v > n PROVE v \in n + 1 .. n + k
  BY <1>1, <1>2, <1>3, <1>6 DEF LedgerSeen, LedgerIsSchema
<1>7. ASSUME NEW v \in 1 .. latest, v > n
      PROVE  History!RowOf(release[s], v).sql \notin Unwrapped
  <2>1. v - n \in 1 .. k /\ n + (v - n) = v
    BY <1>2, <1>6, <1>7
  <2>2. ran[s][v - n] = Wanted(s, n + (v - n)).sql /\ ran[s][v - n] \notin Unwrapped
    BY <1>2, <2>1
  <2> QED
    BY <2>1, <2>2 DEF Wanted
<1>8. n + k = last
  <2>1. k = 0 \/ n + k <= latest
    <3>1. k = 0 \/ k \in 1 .. k
      BY <1>2
    <3> HIDE DEF n, k, latest
    <3> QED
      BY <1>2, <3>1
  <2>2. latest > n => latest <= n + k
    BY <1>2, <1>3, <1>6
  <2> QED
    BY <1>2, <1>3, <2>1, <2>2
<1>9. /\ Len(schema') = n + k
      /\ \A v \in 1 .. n : schema'[v] = schema[v]
      /\ \A v \in n + 1 .. n + k : schema'[v] = Wanted(s, v).sql /\ v \in Versions
      /\ \A v \in Versions : ledger'[v] = IF v \in n + 1 .. n + k THEN Wanted(s, v) ELSE ledger[v]
  BY CommitEffect
<1>10. ASSUME NEW v \in 1 .. n + k
       PROVE  [name |-> ledger'[v].name, sql |-> schema'[v]]
                = IF v <= n THEN Rows[v] ELSE History!RowOf(release[s], v)
  <2>1. CASE v <= n
    <3>1. v \in 1 .. n /\ v \notin n + 1 .. n + k
      BY <1>2, <2>1
    <3>2. ledger'[v] = ledger[v] /\ schema'[v] = schema[v]
      BY <1>4, <1>9, <3>1
    <3> QED
      BY <2>1, <3>1, <3>2 DEF Rows
  <2>2. CASE ~(v <= n)
    <3>1. v \in n + 1 .. n + k
      BY <1>2, <2>2
    <3>2. ledger'[v] = Wanted(s, v) /\ schema'[v] = Wanted(s, v).sql
      BY <1>9, <3>1
    <3>3. Wanted(s, v) = [name |-> Wanted(s, v).name, sql |-> Wanted(s, v).sql]
      BY DEF Wanted, History!RowOf
    <3> QED
      BY <2>2, <3>2, <3>3 DEF Wanted
  <2> QED
    BY <2>1, <2>2
<1>11. Rows' = [v \in 1 .. last |-> IF v <= n THEN Rows[v] ELSE History!RowOf(release[s], v)]
  BY <1>8, <1>9, <1>10 DEF Rows
<1>12. Upgraded' = Upgraded \cup {s} /\ s \notin Upgraded
  BY <1>1 DEF TypeOK, Upgraded
<1>13. outcome[s] \in {"running", "failed"}
  BY <1>1 DEF Paired
<1>14. ~History!Drifted(release[s])
  BY <1>4, <1>5 DEF History!Drifted, Rows
<1>15. ~History!Unusable(release[s])
  BY <1>4, <1>7 DEF History!Unusable, Rows
<1> QED
  BY <1>1, <1>2, <1>4, <1>11, <1>12, <1>13, <1>14, <1>15 DEF History!Upgrade, Rows

\* A step that leaves the tables alone leaves the history alone.
LEMMA SameHistory ==
    ASSUME schema' = schema, ledger' = ledger, release' = release,
           \A s \in Starts : srv'[s] = "committed" <=> srv[s] = "committed"
    PROVE  Rows' = Rows /\ Upgraded' = Upgraded
BY DEF Rows, Upgraded

\* A step that gives an answer, or changes nothing that the history shows.
LEMMA AnswerOrStutter ==
    ASSUME IInv, NEW s \in Starts, Rows' = Rows, Upgraded' = Upgraded, release' = release,
           \/ outcome' = outcome
           \/ /\ outcome[s] = "running"
              /\ \E o \in {"ok", "unloadable", "mismatch", "unusable", "failed"} :
                    /\ o = "ok" => s \in Upgraded
                    /\ o = "unloadable" => ~History!Loads(release[s])
                    /\ o = "mismatch" => /\ History!Loads(release[s]) /\ s \notin Upgraded
                                         /\ History!Drifted(release[s])
                    /\ o = "unusable" => /\ History!Loads(release[s]) /\ s \notin Upgraded
                                         /\ History!Unusable(release[s])
                    /\ outcome' = [outcome EXCEPT ![s] = o]
    PROVE  [History!Next]_(History!vars)
BY DEF History!Next, History!Answer, History!vars, Rows

\* A refusal of the loop names a reason that holds.
LEMMA MismatchIsDrift ==
    ASSUME IInv, NEW s \in Starts, pc[s] = "read", srv[s] = "active",
           at[s] <= History!Latest(release[s]),
           LedgerSeen(s, at[s]) # NoRow, LedgerSeen(s, at[s]) # Wanted(s, at[s])
    PROVE  History!Loads(release[s]) /\ History!Drifted(release[s])
<1>1. TypeOK /\ LedgerIsSchema /\ History!Loads(release[s]) /\ at[s] \in Nat \ {0}
  BY DEF IInv, Paired, TypeOK
<1>2. History!Latest(release[s]) \in Nat /\ at[s] \in Versions
  BY <1>1, WantedRow
<1>3. ledger[at[s]] # NoRow /\ ledger[at[s]] # Wanted(s, at[s])
  BY DEF LedgerSeen
<1>4. at[s] \in 1 .. Len(schema)
  BY <1>1, <1>2, <1>3, RowsAreLedger DEF LedgerIsSchema
<1>5. Rows[at[s]] # History!RowOf(release[s], at[s]) /\ Len(Rows) = Len(schema)
  BY <1>3, <1>4, RowsAreLedger DEF Wanted
<1> QED
  BY <1>1, <1>2, <1>4, <1>5, RowsAreLedger DEF History!Drifted, Rows

\* A script that cannot be applied belongs to a version that the history lacks.
LEMMA UnwrappedIsUnusable ==
    ASSUME IInv, NEW s \in Starts, pc[s] = "apply", srv[s] = "active",
           Wanted(s, at[s]).sql \in Unwrapped
    PROVE  History!Loads(release[s]) /\ History!Unusable(release[s])
<1>1. /\ TypeOK /\ History!Loads(release[s]) /\ at[s] \in Nat \ {0}
      /\ at[s] <= History!Latest(release[s]) /\ Len(schema) \in Nat /\ Len(ran[s]) \in Nat
  <2>1. TypeOK /\ Paired(s)
    BY DEF IInv
  <2>2. schema \in Seq(Scripts) /\ ran[s] \in Seq(Scripts) /\ at[s] \in Nat \ {0}
    BY <2>1 DEF TypeOK
  <2> QED
    BY <2>1, <2>2 DEF Paired
<1>2. at[s] = Len(schema) + Len(ran[s]) + 1
  BY DEF IInv, Locking, Extending, Working, InLoop
<1>3. History!Latest(release[s]) \in Nat /\ at[s] > Len(schema)
  BY <1>1, <1>2, WantedRow
<1> QED
  BY <1>1, <1>3, RowsAreLedger DEF History!Unusable, Wanted, Rows

\* Every step is an upgrade, an answer or invisible.
LEMMA StepHistory == IInv /\ [Next]_vars => [History!Next]_(History!vars)
<1> SUFFICES ASSUME IInv, [Next]_vars PROVE [History!Next]_(History!vars)
  OBVIOUS
<1>1. CASE UNCHANGED vars
  <2>1. Rows' = Rows /\ Upgraded' = Upgraded /\ release' = release /\ outcome' = outcome
    BY <1>1 DEF vars, tables, Rows, Upgraded
  <2> QED
    BY <2>1 DEF History!vars, Rows
<1>2. ASSUME NEW s \in Starts,
             \/ ClientStep(s) \/ CloseReturns(s) \/ ServerCommit(s)
             \/ ServerAbort(s) \/ GiveUp(s) \/ Close(s) \/ Crash(s)
      PROVE  [History!Next]_(History!vars)
  <2>0. TypeOK /\ Paired(s) /\ outcome = [outcome EXCEPT ![s] = outcome[s]]
    BY DEF IInv, TypeOK
  <2>1. CASE ServerCommit(s)
    BY <2>1, CommitUpgrades DEF History!Next
  <2>2. CASE ~ServerCommit(s)
    <3>1. /\ schema' = schema /\ ledger' = ledger /\ release' = release
          /\ \A t \in Starts : srv'[t] = "committed" <=> srv[t] = "committed"
      <4>1. CASE ServerAbort(s) \/ Rollback(s)
        BY <2>0, <4>1 DEF ServerAbort, Rollback, Goto, EndTransaction, TypeOK, Paired, Statements
      <4>2. CASE Record(s)
        BY <4>2, RecordIsNew DEF Record
      <4>3. CASE Begin(s) \/ SendCommit(s)
        BY <2>0, <4>3 DEF Begin, SendCommit, tables, TypeOK, Paired, BeforeTx
      <4>4. CASE Lock(s) \/ ReadLedger(s) \/ Apply(s)
        BY <4>4 DEF Lock, ReadLedger, Apply, tables
      <4>5. CASE \/ OpenPool(s) \/ OpenFails(s) \/ Ping(s) \/ PingFails(s) \/ Load(s)
                 \/ EnsureLedger(s) \/ AllApplied(s) \/ CommitReturns(s) \/ StatementFails(s)
                 \/ GiveUp(s) \/ Close(s) \/ CloseReturns(s) \/ Crash(s)
        BY <4>5 DEF OpenPool, OpenFails, Ping, PingFails, Load, EnsureLedger, AllApplied,
           CommitReturns, StatementFails, GiveUp, Close, CloseReturns, Crash, tables
      <4> QED
        BY <1>2, <2>2, <4>1, <4>2, <4>3, <4>4, <4>5 DEF ClientStep, Statement
    <3>2. Rows' = Rows /\ Upgraded' = Upgraded
      BY <3>1, SameHistory
    <3>3. \/ outcome' = outcome
          \/ /\ outcome[s] = "running"
             /\ \E o \in {"ok", "unloadable", "mismatch", "unusable", "failed"} :
                   /\ o = "ok" => s \in Upgraded
                   /\ o = "unloadable" => ~History!Loads(release[s])
                   /\ o = "mismatch" => /\ History!Loads(release[s]) /\ s \notin Upgraded
                                        /\ History!Drifted(release[s])
                   /\ o = "unusable" => /\ History!Loads(release[s]) /\ s \notin Upgraded
                                        /\ History!Unusable(release[s])
                   /\ outcome' = [outcome EXCEPT ![s] = o]
      <4>1. CASE ServerAbort(s) \/ Close(s) \/ CloseReturns(s)
        BY <4>1 DEF ServerAbort, Close, CloseReturns
      <4>2. CASE \/ OpenPool(s) \/ Ping(s) \/ Lock(s) \/ EnsureLedger(s) \/ AllApplied(s)
                 \/ SendCommit(s) \/ Rollback(s)
        BY <4>2 DEF OpenPool, Ping, Lock, EnsureLedger, AllApplied, SendCommit, Rollback, Goto
      <4>3. CASE Record(s)
        BY <4>3, RecordIsNew DEF Record, Goto
      <4>4. CASE \/ OpenFails(s) \/ PingFails(s) \/ Begin(s) \/ StatementFails(s)
                 \/ GiveUp(s) \/ Crash(s)
        BY <2>0, <4>4 DEF OpenFails, PingFails, Begin, StatementFails, GiveUp, Crash, Goto, ReturnError
      <4>5. CASE Load(s)
        BY <2>0, <4>5 DEF Load, Goto, ReturnError
      <4>6. CASE ReadLedger(s)
        <5>1. CASE outcome' = outcome
          BY <5>1
        <5>2. CASE outcome' # outcome
          <6>1. /\ LedgerSeen(s, at[s]) # NoRow /\ LedgerSeen(s, at[s]) # Wanted(s, at[s])
                /\ ReturnError(s, "mismatch", "rollback")
                /\ pc[s] = "read" /\ srv[s] = "active" /\ at[s] <= History!Latest(release[s])
            BY <4>6, <5>2 DEF ReadLedger, Goto
          <6>2. History!Loads(release[s]) /\ History!Drifted(release[s]) /\ s \notin Upgraded
            BY <6>1, MismatchIsDrift DEF Upgraded
          <6> QED
            BY <2>0, <5>2, <6>1, <6>2 DEF ReturnError
        <5> QED
          BY <5>1, <5>2
      <4>7. CASE Apply(s)
        <5>1. CASE outcome' = outcome
          BY <5>1
        <5>2. CASE outcome' # outcome
          <6>1. /\ Wanted(s, at[s]).sql \in Unwrapped /\ ReturnError(s, "unusable", "rollback")
                /\ pc[s] = "apply" /\ srv[s] = "active"
            BY <4>7, <5>2 DEF Apply, Goto
          <6>2. History!Loads(release[s]) /\ History!Unusable(release[s]) /\ s \notin Upgraded
            BY <6>1, UnwrappedIsUnusable DEF Upgraded
          <6> QED
            BY <2>0, <5>2, <6>1, <6>2 DEF ReturnError
        <5> QED
          BY <5>1, <5>2
      <4>8. CASE CommitReturns(s)
        BY <2>0, <4>8 DEF CommitReturns, ReturnError, Upgraded
      <4> QED
        BY <1>2, <2>2, <4>1, <4>2, <4>3, <4>4, <4>5, <4>6, <4>7, <4>8 DEF ClientStep, Statement
    <3> QED
      BY <3>1, <3>2, <3>3, AnswerOrStutter
  <2> QED
    BY <2>1, <2>2
<1> QED
  BY <1>1, <1>2 DEF Next

\* The transactions, the lock and the ledger implement one linear history of migrations:
\* no start is refused because of another one's work, and "ok" is durable.
THEOREM Refinement == Spec => ImplementsHistory
BY InitHistory, StepHistory, Invariance, PTL DEF Spec, ImplementsHistory, History!Spec
===============================================================================
