----------------------------- MODULE MCRetrieval ------------------------------
(***************************************************************************)
(* Small instances of Retrieval: a feed at its own origin and a second     *)
(* origin with two paths, the same host over plain HTTP, a literal address *)
(* that is not eligible, and a URL that embeds credentials.                *)
(***************************************************************************)
EXTENDS Retrieval

CONSTANTS r1, r2, feed, other, public, private

Feed    == [scheme |-> "https", host |-> feed, literal |-> {}, path |-> 1, user |-> FALSE]
Moved   == [Feed EXCEPT !.host = other]
Renamed == [Moved EXCEPT !.path = 2]
Plain   == [Feed EXCEPT !.scheme = "http"]
Gopher  == [Feed EXCEPT !.scheme = "gopher"]
Inward  == [Feed EXCEPT !.host = private, !.literal = {private}]
Signed  == [Feed EXCEPT !.user = TRUE]

AllURLs   == {Feed, Moved, Renamed, Plain, Gopher, Inward, Signed}
AllInputs == {[url |-> u, etag |-> TRUE] : u \in AllURLs}
MCAddresses == {public, private}
MCEligible  == {public}
One == {r1}
Two == {r1, r2}

\* A retrieval of any kind, and one whose URL is refused and that needs a permit for that.
QueueInit == Init /\ input[r2].url = Gopher
QueueSpec == QueueInit /\ [][Next]_vars /\ Fairness
===============================================================================
