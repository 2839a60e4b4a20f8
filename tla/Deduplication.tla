----------------------------- MODULE Deduplication -----------------------------
(***************************************************************************)
(* DeduplicateArticles (internal/feed/dedup.go): one pass over the parsed  *)
(* articles that merges an article into an earlier one when all of its     *)
(* evidence points there, and remembers every key that it has seen.  An    *)
(* article is what keysForArticle reads of it, normalised: texts, which    *)
(* are sequences of words here, the empty one being no evidence.           *)
(***************************************************************************)
EXTENDS Integers, Sequences, FiniteSets

CONSTANTS
    Words,       \* what feed IDs, URLs and identifiers are put together from
    Inputs,      \* the articles that may come
    MaxArticles  \* bound on how many come

\* The kinds of evidence, strongest first, and what stands before each in a key.
Bar   == "|"
Kinds == <<"source_identifier", "normalized_url", "content_fingerprint">>
Separator == << <<Bar, "id", Bar>>, <<Bar, "url", Bar>>, <<Bar, "content", Bar>> >>

Texts   == Seq(Words)
Article == [feed : Texts, source : Texts, evidence : [DOMAIN Kinds -> Texts]]

ASSUME DedupInputsAssumption == Inputs \subseteq Article

VARIABLES
    articles,  \* the argument
    next,      \* the index of the article whose turn it is
    unique,    \* the articles kept, as indices in the argument
    matches,   \* the DuplicateMatch records
    index      \* the three maps: the canonical article of a key, 0 if it has none

vars == <<articles, next, unique, matches, index>>

-------------------------------------------------------------------------------
\* sourceScope: the feed, else the source; the scope is empty for an article without.
ScopeOf(a) ==
    IF a.feed # <<>> THEN <<"feed:">> \o a.feed
    ELSE IF a.source # <<>> THEN <<"source:">> \o a.source ELSE <<>>

\* Faulty variant: the keys of different sources are not told apart.
KeysOfAnySource(a) ==
    {<<k, Separator[k] \o a.evidence[k]>> :
        k \in {j \in DOMAIN Kinds : ScopeOf(a) # <<>> /\ a.evidence[j] # <<>>}}

\* keysForArticle: a key is one text, in which nothing tells where the scope ends.
KeysOf(a) ==
    {<<k, ScopeOf(a) \o Separator[k] \o a.evidence[k]>> :
        k \in {j \in DOMAIN Kinds : ScopeOf(a) # <<>> /\ a.evidence[j] # <<>>}}

Keys == UNION {KeysOf(a) : a \in Inputs}

Candidates(a) == {k \in KeysOf(a) : index[k] # 0}

\* resolveCanonical: some key is known, and all that are agree on the article c.
Resolves(a, c) == Candidates(a) # {} /\ \A k \in Candidates(a) : index[k] = c

Reason(a) == CHOOSE i \in DOMAIN Kinds :
                /\ \E k \in Candidates(a) : k[1] = i
                /\ \A k \in Candidates(a) : i <= k[1]

\* Faulty variants of registerKeys: a later article takes a key over, or only the
\* first key of an article is registered.
RegisterLatest(a, c) == index' = [k \in Keys |-> IF k \in KeysOf(a) THEN c ELSE index[k]]

RegisterStrongest(a, c) ==
    index' = [k \in Keys |->
                IF k \in KeysOf(a) /\ index[k] = 0 /\ \A l \in KeysOf(a) : k[1] <= l[1]
                THEN c ELSE index[k]]

\* registerKeys: the first article to bring a key keeps it.
Register(a, c) ==
    index' = [k \in Keys |-> IF k \in KeysOf(a) /\ index[k] = 0 THEN c ELSE index[k]]

-------------------------------------------------------------------------------
Init ==
    /\ articles \in UNION {[1 .. n -> Inputs] : n \in 0 .. MaxArticles}
    /\ next = 1
    /\ unique = <<>>
    /\ matches = <<>>
    /\ index = [k \in Keys |-> 0]

\* All known evidence agrees: the article is a duplicate.
Merge ==
    /\ next \in DOMAIN articles
    /\ \E c \in DOMAIN unique :
          /\ Resolves(articles[next], c)
          /\ matches' = Append(matches, [duplicate |-> next, canonical |-> c,
                                         reason |-> Kinds[Reason(articles[next])]])
          /\ Register(articles[next], c)
    /\ next' = next + 1
    /\ UNCHANGED <<articles, unique>>

\* Without evidence, or with evidence that contradicts itself, the article is kept.
Retain ==
    /\ next \in DOMAIN articles
    /\ ~\E c \in DOMAIN unique : Resolves(articles[next], c)
    /\ unique' = Append(unique, next)
    /\ Register(articles[next], Len(unique) + 1)
    /\ next' = next + 1
    /\ UNCHANGED <<articles, matches>>

Next == Merge \/ Retain

Spec == Init /\ [][Next]_vars

-------------------------------------------------------------------------------
\* The articles that have been merged into the canonical article c, and itself.
Cluster(c) == {unique[c]} \cup
              {matches[i].duplicate : i \in {j \in DOMAIN matches : matches[j].canonical = c}}

\* The clusters that keys of the article at i had been brought into before its turn.
EarlierClusters(i) ==
    {c \in DOMAIN unique : \E k \in KeysOf(articles[i]), j \in Cluster(c) :
        /\ j < i /\ k \in KeysOf(articles[j])
        /\ \A l \in 1 .. j - 1 : k \notin KeysOf(articles[l])}

\* Each article that had its turn is in one cluster only.  It is merged only into an
\* earlier one, only when everything known of its keys points there, and for the reason
\* that is recorded: the article shares that key with a member of the cluster and no
\* stronger key with anything before it.
MergesAreSupported ==
    /\ \A i \in 1 .. next - 1 : Cardinality({c \in DOMAIN unique : i \in Cluster(c)}) = 1
    /\ \A m \in DOMAIN matches :
        LET i == matches[m].duplicate  c == matches[m].canonical IN
        /\ unique[c] < i
        /\ EarlierClusters(i) = {c}
        /\ \E r \in DOMAIN Kinds : Kinds[r] = matches[m].reason /\
              \E k \in KeysOf(articles[i]) :
                 /\ k[1] = r /\ \E j \in Cluster(c) : j < i /\ k \in KeysOf(articles[j])
                 /\ \A l \in KeysOf(articles[i]) : l[1] < r =>
                       \A j \in 1 .. i - 1 : l \notin KeysOf(articles[j])

\* No duplicate goes unnoticed: an article is kept beside an earlier one that shares
\* a key with it only if its keys had been brought into two clusters or more, also
\* when the key came with an article that has itself been merged (an alias).
NoUnnoticedDuplicate ==
    \A c \in DOMAIN unique : Cardinality(EarlierClusters(unique[c])) # 1

\* Evidence is scoped to its source: no article is merged into one of another source.
SourcesStayApart ==
    \A c \in DOMAIN unique : \A i \in Cluster(c) :
        i # unique[c] => ScopeOf(articles[i]) = ScopeOf(articles[unique[c]])

\* A text up to its first bar; all of it if it has none.
BeforeBar(text) ==
    [n \in {m \in DOMAIN text : \A l \in 1 .. m : text[l] # Bar} |-> text[n]]

\* Sources are merged only if their scopes agree up to the first bar, through whatever
\* chain of aliases: those without a bar stay apart, a feed "a" and a feed "a|id|b" may
\* not, for the identifiers "b|id|c" of the one and "c" of the other make one key.
SourcesMeetAtBars ==
    \A c \in DOMAIN unique : \A i \in Cluster(c) : i # unique[c] =>
        /\ BeforeBar(ScopeOf(articles[i])) = BeforeBar(ScopeOf(articles[unique[c]]))
        /\ ScopeOf(articles[i]) # <<>>
===============================================================================
