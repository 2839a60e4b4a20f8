---------------------------- MODULE ArticleRegistry ---------------------------
(***************************************************************************)
(* What article persistence promises its callers, with no transaction, no  *)
(* lock and no connection in sight: a candidate is recorded whole or not   *)
(* at all, it is recorded only when it agrees with every binding that is   *)
(* already there, "ok" is answered only for what has been recorded, and a  *)
(* conflict is answered only when there is one.  An answer may also be     *)
(* lost: a call that failed may have been recorded, or may still be.  A    *)
(* candidate that no binding forbids can still be refused as a row: it is  *)
(* malformed, or its feed is not known yet, which AddFeed may change.      *)
(***************************************************************************)
EXTENDS ArticleRecords

CONSTANT Calls

VARIABLES input, articles, keyOwner, history, storedFeeds, recorded, outcome

vars == <<input, articles, keyOwner, history, storedFeeds, recorded, outcome>>

\* The bindings that forbid the candidate w for good.
Conflicts(w) ==
    \/ articles[w.article] # NoRow /\ articles[w.article].feed # w.feed
    \/ \E k \in ScopedKeysOf(w) : keyOwner[k] \notin {None, w.article}
    \/ /\ history[w.hist] # None
       /\ \/ history[w.hist].article # w.article
          \/ history[w.hist].feed # w.feed

Init ==
    /\ input \in [Calls -> Writes]
    /\ articles = [a \in Articles |-> NoRow]
    /\ keyOwner = [k \in ScopedKeys |-> None]
    /\ history = [h \in Histories |-> None]
    /\ storedFeeds = InitialFeeds
    /\ recorded = {}
    /\ outcome = [c \in Calls |-> "running"]

Record(c) ==
    LET w == input[c] IN
    /\ c \notin recorded
    /\ outcome[c] \in {"running", "failed"}
    /\ ValidArticleWrite(w)
    /\ ~ViolatesConstraint(w, articles[w.article], storedFeeds)
    /\ ~Conflicts(w)
    /\ articles' = [articles EXCEPT ![w.article] = UpsertedRow(w, @)]
    /\ keyOwner' = [k \in ScopedKeys |->
                      IF k \in ScopedKeysOf(w) THEN w.article ELSE keyOwner[k]]
    /\ history' = [history EXCEPT ![w.hist] = IF @ = None THEN HistoryRowOf(w) ELSE @]
    /\ recorded' = recorded \cup {c}
    /\ UNCHANGED <<input, storedFeeds, outcome>>

Answer(c) ==
    /\ outcome[c] = "running"
    /\ \E o \in {"ok", "rejected", "constraint", "invalid", "failed"} :
          /\ o = "ok" => c \in recorded
          /\ o = "invalid" => ~ValidArticleWrite(input[c])
          /\ o = "rejected" => /\ ValidArticleWrite(input[c])
                               /\ c \notin recorded
                               /\ Conflicts(input[c])
          /\ o = "constraint" =>
                /\ ValidArticleWrite(input[c])
                /\ c \notin recorded
                /\ ViolatesConstraint(input[c], articles[input[c].article], storedFeeds)
          /\ outcome' = [outcome EXCEPT ![c] = o]
    /\ UNCHANGED <<input, articles, keyOwner, history, storedFeeds, recorded>>

AddFeed(f) ==
    /\ f \notin storedFeeds
    /\ storedFeeds' = storedFeeds \cup {f}
    /\ UNCHANGED <<input, articles, keyOwner, history, recorded, outcome>>

Next ==
    \/ \E c \in Calls : Record(c) \/ Answer(c)
    \/ \E f \in Feeds : AddFeed(f)

Spec == Init /\ [][Next]_vars
===============================================================================
