---------------------------- MODULE MCArticleStore ----------------------------
(***************************************************************************)
(* Small instances of ArticleStore.  The candidates meet in every way that *)
(* UpsertArticle tells apart: the same article again, later or earlier, an *)
(* article moved to another feed, keys and history identifiers that belong *)
(* to another article, two key orders, a repeated key, and inputs that the *)
(* validation or a constraint refuses, an article of a feed that has no    *)
(* row until UpsertFeed adds it among them.                                *)
(***************************************************************************)
EXTENDS ArticleStore, TLC

CONSTANTS a1, a2, f1, f2, f3, h1, h2, v, b1, b2, c1, c2, c3, blank, none, noRow

MCArticles     == {a1, a2}
MCFeeds        == {f1, f2, f3}
MCInitialFeeds == {f1, f2}
MCKeyValues    == {v}
MCHistories    == {h1, h2}
MCBodies       == {b1, b2}
MCTimes        == 1 .. 2

Key(type) == [type |-> type, value |-> v]
Source      == Key("source_identifier")
URL         == Key("normalized_url")
Fingerprint == Key("content_fingerprint")

\* A candidate that a parser and a caller that sorts its keys would submit.
Base == [article |-> a1, feed |-> f1, hist |-> h1, at |-> 1, body |-> b1,
         keys |-> <<Source, URL>>, collections |-> FALSE, malformed |-> FALSE]

Later    == [Base EXCEPT !.hist = h2, !.at = 2, !.body = b2, !.keys = <<Source, Fingerprint>>]
Twin     == [Base EXCEPT !.article = a2, !.hist = h2, !.at = 2]
Reversed == [Twin EXCEPT !.keys = <<URL, Source>>]
Unlinked == [Base EXCEPT !.article = a2, !.keys = <<>>]
Elsewhere == [Base EXCEPT !.article = a2, !.feed = f2, !.hist = h2, !.keys = <<Source, Source>>]
Moved    == [Base EXCEPT !.feed = f2, !.hist = h2]
Orphan   == [Base EXCEPT !.feed = f3, !.keys = <<Source>>]
Garbled  == [Base EXCEPT !.malformed = TRUE]
Tagged   == [Base EXCEPT !.collections = TRUE]
Mistyped == [Base EXCEPT !.keys = <<Source, [type |-> "other", value |-> v]>>]

AllWrites == {Base, Later, Twin, Reversed, Unlinked, Elsewhere, Moved, Orphan,
              Garbled, Tagged, Mistyped}
\* Four of them, as candidates of a feed whose row arrives while they race.
RaceWrites == {[w EXCEPT !.feed = f3] : w \in {Base, Later, Twin, Reversed}}
MCWrites   == AllWrites \cup RaceWrites

Trio == {c1, c2, c3}
CallSymmetry == Permutations(Calls)

\* Three calls race for one article and its keys, or any two candidates meet while
\* the third call is refused by the validation.
RacesInit ==
    /\ Init
    /\ \/ \A c \in Calls : input[c] \in RaceWrites
       \/ \E c \in Calls : input[c] = Mistyped /\ \A d \in Calls \ {c} : input[d] \in AllWrites
RacesSpec == RacesInit /\ [][Next]_vars

\* Three calls over two connections, two of which lock their keys in opposite orders.
ProgressFeeds  == {f1}
ProgressWrites == {Base, Reversed}
ProgressInit == Init /\ input[c1] = Base /\ input[c2] = Reversed /\ input[c3] \in {Base, Reversed}
ProgressSpec == ProgressInit /\ [][Next]_vars /\ Fairness
===============================================================================
