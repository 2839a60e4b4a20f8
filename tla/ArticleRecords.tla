---------------------------- MODULE ArticleRecords ----------------------------
(***************************************************************************)
(* The data of article persistence: what a caller hands to UpsertArticle   *)
(* (ArticleWrite, repository.go), what the tables of 0001_initial.sql keep *)
(* of it, and the pure decisions on both.  A descriptive text column is    *)
(* one abstract body; identifiers, key values and bodies are opaque; a     *)
(* retrieval time is a natural number, 0 being Go's zero time.             *)
(***************************************************************************)
EXTENDS Integers, Sequences

CONSTANTS
    Articles,     \* article identifiers
    Feeds,        \* feed identifiers a caller may name
    InitialFeeds, \* those with a row in goreecloud_feeds.feeds at the start
    KeyValues,    \* values of identity keys
    Histories,    \* source-history identifiers
    Bodies,       \* the descriptive columns of an article, as one value
    Times,        \* retrieval times
    Writes,       \* the ArticleWrite values callers submit
    Blank,        \* an identifier or value that is empty once trimmed
    None,         \* no row in article_identity_keys or article_source_history
    NoRow         \* no row in articles

KeyTypes == {"source_identifier", "normalized_url", "content_fingerprint"}

\* The rows' identity columns.  A key row's primary key is its feed and its key.
IdentityKeys == [type : KeyTypes, value : KeyValues]
ScopedKeys   == Feeds \X IdentityKeys
ArticleRow   == [feed : Feeds, body : Bodies, first : Times, last : Times]
HistoryRow   == [article : Articles, feed : Feeds, at : Times]

\* collections: Categories, Tags, Media or Images is not empty.
\* malformed: ContentFingerprint is neither empty nor 64 hexadecimal digits.
ArticleWrite ==
    [article : Articles \cup {Blank}, feed : Feeds \cup {Blank},
     hist : Histories \cup {Blank}, at : Times \cup {0}, body : Bodies,
     keys : Seq([type : KeyTypes \cup {"other"}, value : KeyValues \cup {Blank}]),
     collections : BOOLEAN, malformed : BOOLEAN]

ASSUME TimesAssumption  == Times \subseteq Nat \ {0}
ASSUME FeedsAssumption  == InitialFeeds \subseteq Feeds
ASSUME WritesAssumption == Writes \subseteq ArticleWrite
ASSUME SentinelAssumption ==
    /\ Blank \notin Articles \cup Feeds \cup Histories \cup KeyValues
    /\ None \notin Articles
    /\ None \notin HistoryRow
    /\ NoRow \notin ArticleRow

-------------------------------------------------------------------------------
ValidIdentityKey(key) == key.type \in KeyTypes /\ key.value # Blank

\* Everything validateArticleWrite asks of an input before a transaction begins.
ValidArticleWrite(w) ==
    /\ Blank \notin {w.article, w.feed, w.hist}
    /\ w.at # 0
    /\ ~w.collections
    /\ \A i \in DOMAIN w.keys : ValidIdentityKey(w.keys[i])

ScopedKeysOf(w) == {<<w.feed, w.keys[i]>> : i \in DOMAIN w.keys}

\* An article row that a check or foreign-key constraint refuses while the feeds
\* of storedFeeds are the rows of goreecloud_feeds.feeds.  ON CONFLICT DO UPDATE
\* leaves feed_id alone, so the foreign key is checked on insert only.
ViolatesConstraint(w, stored, storedFeeds) ==
    w.malformed \/ (stored = NoRow /\ w.feed \notin storedFeeds)

Least(s, t)    == IF s <= t THEN s ELSE t
Greatest(s, t) == IF s <= t THEN t ELSE s

\* Faulty variant: both retrieval times are those of the last call to commit.
UpsertedRowOverwritten(w, stored) ==
    [feed |-> IF stored = NoRow THEN w.feed ELSE stored.feed,
     body |-> w.body, first |-> w.at, last |-> w.at]

\* INSERT INTO articles ... ON CONFLICT (id) DO UPDATE: feed_id is not assigned.
UpsertedRow(w, stored) ==
    IF stored = NoRow
    THEN [feed |-> w.feed, body |-> w.body, first |-> w.at, last |-> w.at]
    ELSE [stored EXCEPT !.body  = w.body,
                        !.first = Least(@, w.at),
                        !.last  = Greatest(@, w.at)]

HistoryRowOf(w) == [article |-> w.article, feed |-> w.feed, at |-> w.at]
===============================================================================
