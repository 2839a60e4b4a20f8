---------------------------- MODULE SchemaHistory -----------------------------
(***************************************************************************)
(* What Migrate promises, with no transaction, lock or ledger in sight: a  *)
(* schema has one linear history of migrations, a release either extends   *)
(* that history by everything it lacks or leaves it alone, "ok" means that *)
(* the history begins with the release, and a refusal names a reason that  *)
(* holds.  A start that failed may have upgraded the schema, or may still. *)
(***************************************************************************)
EXTENDS Integers, Sequences

CONSTANTS
    Starts,    \* the starts of a server process that migrate the database
    Releases,  \* what a process may embed: sets of migration files
    Names,     \* file names
    Scripts,   \* the SQL of a migration, trimmed
    Unwrapped, \* the scripts that do not run from BEGIN; to COMMIT;
    MaxVersion,
    Blank      \* the text of an empty file

\* A file of the migrations directory; its name gives its version, and version 0 is a
\* name without a valid number.
File == [version : 0 .. MaxVersion, name : Names, sql : Scripts \cup {Blank}]
Row  == [name : Names, sql : Scripts]

VARIABLES release, history, upgraded, outcome

vars == <<release, history, upgraded, outcome>>

\* Migrations: the files are valid, of different versions, and leave no gap.
Loads(files) ==
    /\ \A f, g \in files : /\ f.version > 0 /\ f.sql # Blank
                           /\ f.version = g.version => f = g
    /\ \E n \in 0 .. MaxVersion : {f.version : f \in files} = 1 .. n

Latest(files) == CHOOSE n \in 0 .. MaxVersion : {f.version : f \in files} = 1 .. n

\* The migration of a version, as the ledger records it; a checksum is its script.
RowOf(files, v) ==
    LET file == CHOOSE f \in files : f.version = v IN [name |-> file.name, sql |-> file.sql]

\* A version that is recorded and that the release knows otherwise.
Drifted(files) ==
    \E v \in 1 .. Latest(files) : v <= Len(history) /\ history[v] # RowOf(files, v)

\* A version that would have to be applied and cannot be.
Unusable(files) ==
    \E v \in 1 .. Latest(files) : v > Len(history) /\ RowOf(files, v).sql \in Unwrapped

Init ==
    /\ release \in [Starts -> Releases]
    /\ history = <<>>
    /\ upgraded = {}
    /\ outcome = [s \in Starts |-> "running"]

Upgrade(s) ==
    LET files == release[s]
        last == IF Latest(files) > Len(history) THEN Latest(files) ELSE Len(history) IN
    /\ s \notin upgraded
    /\ outcome[s] \in {"running", "failed"}
    /\ Loads(files) /\ ~Drifted(files) /\ ~Unusable(files)
    /\ history' = [v \in 1 .. last |-> IF v <= Len(history) THEN history[v] ELSE RowOf(files, v)]
    /\ upgraded' = upgraded \cup {s}
    /\ UNCHANGED <<release, outcome>>

Answer(s) ==
    /\ outcome[s] = "running"
    /\ \E o \in {"ok", "unloadable", "mismatch", "unusable", "failed"} :
          /\ o = "ok" => s \in upgraded
          /\ o = "unloadable" => ~Loads(release[s])
          /\ o = "mismatch" => Loads(release[s]) /\ s \notin upgraded /\ Drifted(release[s])
          /\ o = "unusable" => Loads(release[s]) /\ s \notin upgraded /\ Unusable(release[s])
          /\ outcome' = [outcome EXCEPT ![s] = o]
    /\ UNCHANGED <<release, history, upgraded>>

Next == \E s \in Starts : Upgrade(s) \/ Answer(s)

Spec == Init /\ [][Next]_vars
===============================================================================
