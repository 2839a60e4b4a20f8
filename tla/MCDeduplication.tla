--------------------------- MODULE MCDeduplication ----------------------------
(***************************************************************************)
(* A small instance of Deduplication: articles of one feed with every      *)
(* mixture of two identifiers and two URLs, some with a content            *)
(* fingerprint, a few from another source, from both or from nowhere, and  *)
(* some of a second feed whose ID goes on where the first one's ends.      *)
(***************************************************************************)
EXTENDS Deduplication

MCWords == {"a", "b", "c", "s", "u", "v", "h", "id", Bar}

Feed      == <<"a">>
LongFeed  == <<"a", Bar, "id", Bar, "b">>
Source    == <<"s">>
Short     == <<"c">>
Long      == <<"b", Bar, "id", Bar, "c">>
Url       == <<"u">>
OtherUrl  == <<"v">>
Hash      == <<"h">>
None      == <<>>

From(feed, source, id, url, fingerprint) ==
    [feed |-> feed, source |-> source, evidence |-> <<id, url, fingerprint>>]

MCInputs ==
    {From(Feed, None, id, url, None) : id \in {Short, Long, None}, url \in {Url, OtherUrl, None}}
    \cup {From(Feed, None, Short, None, Hash), From(Feed, None, None, Url, Hash),
          From(Feed, None, Long, OtherUrl, Hash), From(Feed, None, None, None, Hash)}
    \cup {From(None, Source, Short, Url, Hash), From(Feed, Source, Short, None, None),
          From(None, None, Short, Url, Hash)}
    \cup {From(LongFeed, None, Short, url, None) : url \in {Url, None}}
===============================================================================
