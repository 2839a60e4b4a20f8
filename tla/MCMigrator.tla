------------------------------ MODULE MCMigrator ------------------------------
(***************************************************************************)
(* A small instance of Migrator: two releases that follow one another,     *)
(* a release whose first migration was edited, one whose first migration   *)
(* was renamed, one whose second lacks its BEGIN and COMMIT, and two that  *)
(* Migrations refuses (a gap, a version twice).                            *)
(***************************************************************************)
EXTENDS Migrator

CONSTANTS s1, s2, sql1, sql2, sql3, sql4, initial, renamed, next, blank, noRow, noOne

F(v, n, s) == [version |-> v, name |-> n, sql |-> s]
Initial == F(1, initial, sql1)
Second  == F(2, next, sql2)

MCReleases == { {Initial}, {Initial, Second},
                {F(1, initial, sql3), Second}, {F(1, renamed, sql1)},
                {Initial, F(2, next, sql4)},
                {Second}, {Initial, F(1, renamed, sql2)} }
MCNames     == {initial, renamed, next}
MCScripts   == {sql1, sql2, sql3, sql4}
MCUnwrapped == {sql4}
MCStarts    == {s1, s2}
===============================================================================
