-------------------------- MODULE DeduplicationProofs --------------------------
(***************************************************************************)
(* Proofs about Deduplication, for every batch of any articles.            *)
(***************************************************************************)
EXTENDS Deduplication, FiniteSetTheorems, SequenceTheorems, TLAPS

-------------------------------------------------------------------------------
(* The inductive invariant. *)

\* The article at j is the first one that brings the key.
FirstWith(k, j) == /\ k \in KeysOf(articles[j])
                   /\ \A l \in 1 .. j - 1 : k \notin KeysOf(articles[l])

Match == [duplicate : 1 .. next - 1, canonical : DOMAIN unique, reason : {Kinds[i] : i \in DOMAIN Kinds}]

Typed ==
    /\ \E n \in Nat : articles \in [1 .. n -> Inputs] /\ next \in 1 .. n + 1
    /\ unique \in Seq(1 .. next - 1)
    /\ matches \in Seq(Match)
    /\ index \in [Keys -> {0} \cup DOMAIN unique]

\* The clusters divide the articles that had their turn.
Divided ==
    /\ \A i \in 1 .. next - 1 : \E c \in DOMAIN unique : i \in Cluster(c)
    /\ \A c, d \in DOMAIN unique : \A i : i \in Cluster(c) /\ i \in Cluster(d) => c = d

\* A key leads to the cluster of the article that brought it first.
Indexed ==
    \A k \in Keys : \A c : index[k] = c =>
        \/ c = 0 /\ \A j \in 1 .. next - 1 : k \notin KeysOf(articles[j])
        \/ c # 0 /\ \E j \in 1 .. next - 1 : FirstWith(k, j) /\ j \in Cluster(c)

\* What MergesAreSupported says of a match of the article at i with the cluster c.
Supported(i, c, reason) ==
    /\ unique[c] < i
    /\ EarlierClusters(i) = {c}
    /\ \E r \in DOMAIN Kinds : Kinds[r] = reason /\
          \E k \in KeysOf(articles[i]) :
             /\ k[1] = r /\ \E j \in Cluster(c) : j < i /\ k \in KeysOf(articles[j])
             /\ \A l \in KeysOf(articles[i]) : l[1] < r =>
                   \A j \in 1 .. i - 1 : l \notin KeysOf(articles[j])

IInv == /\ Typed /\ Divided /\ Indexed
        /\ \A m \in DOMAIN matches : \A i, c, reason :
              matches[m] = [duplicate |-> i, canonical |-> c, reason |-> reason] => Supported(i, c, reason)
        /\ \A c \in DOMAIN unique : \A i, d : unique[c] = i => EarlierClusters(i) # {d}
        /\ SourcesMeetAtBars

-------------------------------------------------------------------------------
(* Keys. *)

\* What follows a bar does not change what stands before the first one.
LEMMA BarEnds ==
    ASSUME NEW W, NEW s \in Seq(W), NEW u \in Seq(W), u # <<>>, u[1] = Bar
    PROVE  BeforeBar(s \o u) = BeforeBar(s)
<1> DEFINE Part(text) == {m \in DOMAIN text : \A l \in 1 .. m : text[l] # Bar}
<1>1. /\ Len(s) \in Nat /\ Len(u) \in Nat \ {0}
      /\ DOMAIN s = 1 .. Len(s) /\ DOMAIN (s \o u) = 1 .. Len(s) + Len(u)
      /\ \A l \in 1 .. Len(s) : (s \o u)[l] = s[l]
      /\ (s \o u)[Len(s) + 1] = Bar
  OBVIOUS
<1>2. ASSUME NEW m \in Part(s \o u) PROVE m \in Part(s)
  <2>1. m \in 1 .. Len(s)
    <3>1. Len(s) + 1 \notin 1 .. m
      BY <1>1, <1>2
    <3> QED
      BY <1>1, <1>2, <3>1
  <2> QED
    BY <1>1, <1>2, <2>1
<1>3. ASSUME NEW m \in Part(s) PROVE m \in Part(s \o u)
  BY <1>1, <1>3
<1>4. Part(s \o u) = Part(s) /\ \A m \in Part(s) : (s \o u)[m] = s[m]
  BY <1>1, <1>2, <1>3
<1> QED
  BY <1>4 DEF BeforeBar

\* A scope, a separator and evidence agree with the scope up to the first bar.
LEMMA SeparatorEnds ==
    ASSUME NEW W, NEW s \in Seq(W), NEW p \in Seq(W), NEW e \in Seq(W), p # <<>>, p[1] = Bar
    PROVE  BeforeBar(s \o p \o e) = BeforeBar(s)
<1>1. PICK u : u = p \o e
  OBVIOUS
<1>2. u \in Seq(W) /\ Len(u) = Len(p) + Len(e)
  BY <1>1, ConcatProperties
<1>3. 1 \in 1 .. Len(p) /\ 1 \in 1 .. Len(p) + Len(e)
  OBVIOUS
<1>4. u[1] = Bar
  BY <1>1, <1>3, ConcatProperties
<1>5. u # <<>>
  BY <1>2, <1>3
<1>6. s \o p \o e = s \o u
  BY <1>1, ConcatAssociative
<1> QED
  BY <1>2, <1>4, <1>5, <1>6, BarEnds

\* An article that has keys has a scope, and they agree with it up to the first bar.
LEMMA KeysFit ==
    ASSUME NEW a \in Inputs
    PROVE  /\ KeysOf(a) \subseteq Keys
           /\ \A k \in KeysOf(a) : /\ k[1] \in DOMAIN Kinds /\ ScopeOf(a) # <<>>
                                   /\ BeforeBar(k[2]) = BeforeBar(ScopeOf(a))
<1> DEFINE W == Words \cup {"feed:", "source:", "id", "url", "content", Bar}
<1>1. a \in Article
  BY DedupInputsAssumption
<1>2. ScopeOf(a) \in Seq(W)
  <2>1. a.feed \in Seq(W) /\ a.source \in Seq(W)
    BY <1>1 DEF Article, Texts
  <2> HIDE DEF W
  <2>2. "feed:" \in W /\ "source:" \in W
    BY DEF W
  <2> QED
    BY <2>1, <2>2 DEF ScopeOf
<1>3. ASSUME NEW k \in KeysOf(a)
      PROVE  /\ k[1] \in DOMAIN Kinds /\ ScopeOf(a) # <<>>
             /\ BeforeBar(k[2]) = BeforeBar(ScopeOf(a))
  <2>1. PICK j \in DOMAIN Kinds :
           /\ ScopeOf(a) # <<>> /\ a.evidence[j] # <<>>
           /\ k = <<j, ScopeOf(a) \o Separator[j] \o a.evidence[j]>>
    BY DEF KeysOf
  <2>2. a.evidence[j] \in Seq(W)
    BY <1>1 DEF Article, Texts
  <2>3. Separator[j] \in Seq(W) /\ Separator[j] # <<>> /\ Separator[j][1] = Bar
    <3>1. \A name \in W : <<Bar, name, Bar>> \in Seq(W) /\ <<Bar, name, Bar>> # <<>>
                         /\ <<Bar, name, Bar>>[1] = Bar
      OBVIOUS
    <3>2. /\ DOMAIN Kinds = {1, 2, 3}
          /\ Separator[1] = <<Bar, "id", Bar>> /\ Separator[2] = <<Bar, "url", Bar>>
          /\ Separator[3] = <<Bar, "content", Bar>>
      BY DEF Kinds, Separator
    <3>3. "id" \in W /\ "url" \in W /\ "content" \in W
      OBVIOUS
    <3> HIDE DEF W
    <3> QED
      BY <3>1, <3>2, <3>3
  <2> HIDE DEF W
  <2> QED
    BY <1>2, <2>1, <2>2, <2>3, SeparatorEnds
<1> QED
  BY <1>3 DEF Keys

\* Keys and scopes depend on nothing but the articles.
LEMMA KeysStay ==
    ASSUME articles' = articles
    PROVE  /\ \A j : KeysOf(articles[j])' = KeysOf(articles[j])
           /\ \A j : ScopeOf(articles[j])' = ScopeOf(articles[j])
           /\ \A j : BeforeBar(ScopeOf(articles[j]))' = BeforeBar(ScopeOf(articles[j]))
<1>1. \A j : ScopeOf(articles[j])' = ScopeOf(articles[j])
  BY DEF ScopeOf
<1>2. \A j : KeysOf(articles[j])' = KeysOf(articles[j])
  BY <1>1 DEF KeysOf
<1>3. \A j : BeforeBar(ScopeOf(articles[j]))' = BeforeBar(ScopeOf(articles[j]))
  BY <1>1, Zenon DEF BeforeBar
<1> QED
  BY <1>1, <1>2, <1>3

\* The articles of a batch come from the inputs.
LEMMA Batch ==
    ASSUME Typed
    PROVE  /\ next \in Nat \ {0}
           /\ \A i \in 1 .. next - 1 : i \in DOMAIN articles
           /\ \A i \in DOMAIN articles : articles[i] \in Inputs
<1>1. PICK n \in Nat : articles \in [1 .. n -> Inputs] /\ next \in 1 .. n + 1
  BY DEF Typed
<1> QED
  BY <1>1

\* Clusters consist of articles that had their turn.
LEMMA ClustersFit ==
    ASSUME Typed, NEW c \in DOMAIN unique
    PROVE  Cluster(c) \subseteq 1 .. next - 1 /\ unique[c] \in Cluster(c)
<1>1. unique[c] \in 1 .. next - 1
  BY DEF Typed
<1>2. \A m \in DOMAIN matches : matches[m].duplicate \in 1 .. next - 1
  <2>1. \A m \in DOMAIN matches : matches[m] \in Match
    BY DEF Typed
  <2> QED
    BY <2>1 DEF Match
<1> QED
  BY <1>1, <1>2 DEF Cluster

\* The clusters that the evidence of the article whose turn it is points to are those
\* that the maps give for its keys.
LEMMA EarlierIsIndexed ==
    ASSUME IInv, next \in DOMAIN articles
    PROVE  EarlierClusters(next) = {index[k] : k \in Candidates(articles[next])}
<1> DEFINE a == articles[next]
<1>1. Typed /\ Divided /\ Indexed
  BY DEF IInv
<1>2. KeysOf(a) \subseteq Keys /\ next \in Nat \ {0}
  BY <1>1, Batch, KeysFit
<1>3. ASSUME NEW c \in EarlierClusters(next) PROVE c \in {index[k] : k \in Candidates(a)}
  <2>1. PICK k \in KeysOf(a), j \in Cluster(c) : j < next /\ FirstWith(k, j)
    BY <1>3 DEF EarlierClusters, FirstWith
  <2>2. c \in DOMAIN unique /\ j \in 1 .. next - 1
    BY <1>1, <1>3, ClustersFit DEF EarlierClusters
  <2>3. PICK i \in 1 .. next - 1 : index[k] # 0 /\ FirstWith(k, i) /\ i \in Cluster(index[k])
    BY <1>1, <1>2, <2>1, <2>2 DEF Indexed, FirstWith
  <2>4. i = j
    BY <1>2, <2>1, <2>2, <2>3 DEF FirstWith
  <2>5. index[k] \in DOMAIN unique
    BY <1>1, <1>2, <2>3 DEF Typed
  <2>6. c = index[k]
    BY <1>1, <2>1, <2>2, <2>3, <2>4, <2>5 DEF Divided
  <2> QED
    BY <2>3, <2>6 DEF Candidates
<1>4. ASSUME NEW k \in Candidates(a) PROVE index[k] \in EarlierClusters(next)
  <2>1. k \in KeysOf(a) /\ k \in Keys /\ index[k] # 0
    BY <1>2 DEF Candidates
  <2>2. PICK j \in 1 .. next - 1 : FirstWith(k, j) /\ j \in Cluster(index[k])
    BY <1>1, <2>1 DEF Indexed
  <2>3. index[k] \in DOMAIN unique /\ j < next
    BY <1>1, <1>2, <2>1 DEF Typed
  <2> QED
    BY <2>1, <2>2, <2>3 DEF EarlierClusters, FirstWith
<1> QED
  BY <1>3, <1>4

\* An article that resolves to a cluster has it as its only earlier cluster, and an
\* article with one earlier cluster resolves to it.
LEMMA ResolvesToOnly ==
    ASSUME IInv, next \in DOMAIN articles, NEW c
    PROVE  Resolves(articles[next], c) <=> EarlierClusters(next) = {c}
BY EarlierIsIndexed DEF Resolves

-------------------------------------------------------------------------------
(* A turn of the loop. *)

\* What the two kinds of turn have in common: a cluster c gets the article whose turn it
\* is, the others keep what they have, and new keys lead to c.
Turn(c) ==
    /\ next \in DOMAIN articles
    /\ articles' = articles /\ next' = next + 1
    /\ DOMAIN unique \subseteq DOMAIN unique' /\ DOMAIN unique' = DOMAIN unique \cup {c}
    /\ \A d \in DOMAIN unique : unique'[d] = unique[d]
    /\ \A d \in DOMAIN unique' :
          Cluster(d)' = (IF d \in DOMAIN unique THEN Cluster(d) ELSE {})
                        \cup (IF d = c THEN {next} ELSE {})
    /\ index' = [k \in Keys |-> IF k \in KeysOf(articles[next]) /\ index[k] = 0 THEN c ELSE index[k]]
    /\ c # 0

\* The earlier clusters of an article that had its turn, or has it, stay the same.
LEMMA EarlierStays ==
    ASSUME IInv, NEW c, Turn(c), NEW i \in 1 .. next
    PROVE  EarlierClusters(i)' = EarlierClusters(i)
<1>1. Typed /\ next \in Nat \ {0} /\ articles' = articles
  BY Batch DEF IInv, Turn
<1>2. ASSUME NEW d, NEW j, j < i
      PROVE  d \in DOMAIN unique' /\ j \in Cluster(d)' <=> d \in DOMAIN unique /\ j \in Cluster(d)
  BY <1>1, <1>2 DEF Turn
<1> QED
  BY <1>1, <1>2, KeysStay DEF EarlierClusters

\* Clusters still divide the articles.
LEMMA TurnDivides == ASSUME IInv, NEW c, Turn(c) PROVE Divided'
<1>1. /\ Typed /\ Divided /\ next \in Nat \ {0} /\ next' = next + 1
      /\ \A d \in DOMAIN unique : Cluster(d) \subseteq 1 .. next - 1
  BY Batch, ClustersFit DEF IInv, Turn
<1>2. ASSUME NEW i \in 1 .. next PROVE \E d \in DOMAIN unique' : i \in Cluster(d)'
  <2>1. CASE i = next
    BY <2>1 DEF Turn
  <2>2. CASE i # next
    <3>1. PICK d \in DOMAIN unique : i \in Cluster(d)
      BY <1>1, <2>2 DEF Divided
    <3> QED
      BY <3>1 DEF Turn
  <2> QED
    BY <2>1, <2>2
<1>3. ASSUME NEW d \in DOMAIN unique', NEW e \in DOMAIN unique', NEW i,
             i \in Cluster(d)', i \in Cluster(e)'
      PROVE  d = e
  <2>1. CASE i = next
    <3>1. \A x \in DOMAIN unique : next \notin Cluster(x)
      BY <1>1
    <3> QED
      BY <1>3, <2>1, <3>1 DEF Turn
  <2>2. CASE i # next
    <3>1. d \in DOMAIN unique /\ e \in DOMAIN unique /\ i \in Cluster(d) /\ i \in Cluster(e)
      BY <1>3, <2>2 DEF Turn
    <3> QED
      BY <1>1, <3>1 DEF Divided
  <2> QED
    BY <2>1, <2>2
<1>4. next' - 1 = next
  BY <1>1
<1> QED
  BY <1>2, <1>3, <1>4 DEF Divided

\* The maps still lead to the cluster of the first article with a key.
LEMMA TurnIndexes == ASSUME IInv, NEW c, Turn(c) PROVE Indexed'
<1>1. /\ Typed /\ Indexed /\ next \in Nat \ {0} /\ next' = next + 1 /\ articles' = articles
      /\ c # 0
      /\ index' = [k \in Keys |-> IF k \in KeysOf(articles[next]) /\ index[k] = 0 THEN c ELSE index[k]]
  BY Batch DEF IInv, Turn
<1>2. \A k, j : FirstWith(k, j)' <=> FirstWith(k, j)
  BY <1>1 DEF FirstWith, KeysOf, ScopeOf
<1>3. \A j : KeysOf(articles[j])' = KeysOf(articles[j])
  BY <1>1 DEF KeysOf, ScopeOf
<1>4. next' - 1 = next /\ \A j \in 1 .. next : j = next \/ j \in 1 .. next - 1
  BY <1>1
<1> SUFFICES ASSUME NEW k \in Keys, NEW d, index'[k] = d
             PROVE  \/ d = 0 /\ \A j \in 1 .. next : k \notin KeysOf(articles[j])
                    \/ d # 0 /\ \E j \in 1 .. next : FirstWith(k, j) /\ j \in Cluster(d)'
  BY <1>1, <1>2, <1>3, <1>4 DEF Indexed
<1>5. CASE index[k] # 0
  <2>1. d = index[k] /\ d # 0 /\ d \in DOMAIN unique
    BY <1>1, <1>5 DEF Typed
  <2>2. PICK j \in 1 .. next - 1 : FirstWith(k, j) /\ j \in Cluster(d)
    BY <1>1, <2>1 DEF Indexed
  <2>3. j \in Cluster(d)' /\ j \in 1 .. next
    BY <1>1, <2>1, <2>2 DEF Turn
  <2> QED
    BY <2>1, <2>2, <2>3
<1>6. CASE index[k] = 0 /\ k \notin KeysOf(articles[next])
  <2>1. d = 0 /\ \A j \in 1 .. next - 1 : k \notin KeysOf(articles[j])
    BY <1>1, <1>6 DEF Indexed
  <2> QED
    BY <1>4, <1>6, <2>1
<1>7. CASE index[k] = 0 /\ k \in KeysOf(articles[next])
  <2>1. FirstWith(k, next)
    BY <1>1, <1>7 DEF Indexed, FirstWith
  <2>2. d = c /\ d \in DOMAIN unique' /\ next \in 1 .. next
    BY <1>1, <1>7 DEF Turn
  <2>3. next \in Cluster(d)'
    BY <2>2 DEF Turn
  <2> QED
    BY <1>1, <2>1, <2>2, <2>3
<1> QED
  BY <1>5, <1>6, <1>7

\* What was said of a match stays true.
LEMMA TurnKeepsSupport ==
    ASSUME IInv, NEW c, Turn(c), NEW m \in DOMAIN matches, NEW i, NEW d, NEW reason,
           matches[m] = [duplicate |-> i, canonical |-> d, reason |-> reason]
    PROVE  Supported(i, d, reason)'
<1>1. /\ Typed /\ Supported(i, d, reason) /\ articles' = articles /\ next \in Nat \ {0}
  BY Batch DEF IInv, Turn
<1>2. i \in 1 .. next - 1 /\ d \in DOMAIN unique
  <2>1. matches[m] \in Match
    BY <1>1 DEF Typed
  <2> QED
    BY <2>1 DEF Match
<1>3. EarlierClusters(i)' = EarlierClusters(i)
  BY <1>1, <1>2, EarlierStays
<1>4. Cluster(d) \subseteq Cluster(d)' /\ unique'[d] = unique[d]
  BY <1>2 DEF Turn
<1>5. \A j : KeysOf(articles[j])' = KeysOf(articles[j])
  BY <1>1 DEF KeysOf, ScopeOf
<1>6. PICK r \in DOMAIN Kinds, k \in KeysOf(articles[i]) :
         /\ Kinds[r] = reason /\ k[1] = r
         /\ \E j \in Cluster(d) : j < i /\ k \in KeysOf(articles[j])
         /\ \A l \in KeysOf(articles[i]) : l[1] < r => \A j \in 1 .. i - 1 : l \notin KeysOf(articles[j])
  BY <1>1 DEF Supported
<1>7. /\ unique'[d] < i /\ EarlierClusters(i)' = {d}
      /\ \E j \in Cluster(d)' : j < i /\ k \in KeysOf(articles[j])
  BY <1>1, <1>3, <1>4, <1>6 DEF Supported
<1> QED
  BY <1>1, <1>5, <1>6, <1>7 DEF Supported

\* Scopes still agree up to the first bar if that of the article that joins does.
LEMMA TurnKeepsSources ==
    ASSUME IInv, NEW c, Turn(c),
           c \in DOMAIN unique =>
              /\ BeforeBar(ScopeOf(articles[next])) = BeforeBar(ScopeOf(articles[unique[c]]))
              /\ ScopeOf(articles[next]) # <<>>,
           c \notin DOMAIN unique => unique'[c] = next
    PROVE  SourcesMeetAtBars'
<1> SUFFICES ASSUME NEW d \in DOMAIN unique', NEW i \in Cluster(d)', i # unique'[d]
             PROVE  /\ BeforeBar(ScopeOf(articles[i])) = BeforeBar(ScopeOf(articles[unique'[d]]))
                    /\ ScopeOf(articles[i]) # <<>>
  BY KeysStay DEF SourcesMeetAtBars, Turn
<1>1. CASE d \in DOMAIN unique /\ i \in Cluster(d)
  BY <1>1 DEF Turn, IInv, SourcesMeetAtBars
<1>2. CASE ~(d \in DOMAIN unique /\ i \in Cluster(d))
  <2>1. d = c /\ i = next
    BY <1>2 DEF Turn
  <2>2. c \in DOMAIN unique /\ unique'[c] = unique[c]
    BY <2>1 DEF Turn
  <2> QED
    BY <2>1, <2>2
<1> QED
  BY <1>1, <1>2

-------------------------------------------------------------------------------
(* The two kinds of turn. *)

\* An article that joins a cluster is linked to it by the evidence findDuplicate names.
LEMMA MergeStep == ASSUME IInv, Merge PROVE IInv'
<1> DEFINE a == articles[next]
<1>1. PICK c \in DOMAIN unique :
         /\ Resolves(a, c)
         /\ matches' = Append(matches, [duplicate |-> next, canonical |-> c, reason |-> Kinds[Reason(a)]])
         /\ Register(a, c)
  BY DEF Merge
<1>2. /\ Typed /\ Indexed /\ next \in DOMAIN articles /\ articles' = articles /\ unique' = unique
      /\ next' = next + 1 /\ next \in Nat \ {0} /\ a \in Inputs
  BY Batch DEF IInv, Merge
<1>3. /\ unique \in Seq(1 .. next - 1) /\ matches \in Seq(Match)
      /\ Len(unique) \in Nat /\ DOMAIN unique = 1 .. Len(unique)
      /\ Len(matches) \in Nat /\ DOMAIN matches = 1 .. Len(matches)
  BY <1>2 DEF Typed
<1> DEFINE last == Len(matches) + 1
           new == [duplicate |-> next, canonical |-> c, reason |-> Kinds[Reason(a)]]
<1>4. /\ DOMAIN matches' = DOMAIN matches \cup {last}
      /\ \A m \in DOMAIN matches : matches'[m] = matches[m] /\ m \in DOMAIN matches' /\ m # last
      /\ matches'[last] = new /\ last \in DOMAIN matches'
  BY <1>1, <1>3
<1>5. Reason(a) \in DOMAIN Kinds /\ \E k \in Candidates(a) : /\ k[1] = Reason(a)
                                                            /\ \A l \in Candidates(a) : k[1] <= l[1]
  <2>1. \A k \in Candidates(a) : k[1] \in DOMAIN Kinds
    BY <1>2, KeysFit DEF Candidates
  <2>2. DOMAIN Kinds = {1, 2, 3}
    BY DEF Kinds
  <2>3. \E i \in DOMAIN Kinds : /\ \E k \in Candidates(a) : k[1] = i
                               /\ \A k \in Candidates(a) : i <= k[1]
    BY <1>1, <2>1, <2>2 DEF Resolves
  <2>4. /\ Reason(a) \in DOMAIN Kinds /\ \E k \in Candidates(a) : k[1] = Reason(a)
        /\ \A k \in Candidates(a) : Reason(a) <= k[1]
    BY <2>3 DEF Reason
  <2> QED
    BY <2>4
<1>6. \A d \in DOMAIN unique : Cluster(d)' = Cluster(d) \cup (IF d = c THEN {next} ELSE {})
  <2> SUFFICES ASSUME NEW d \in DOMAIN unique
               PROVE  Cluster(d)' = Cluster(d) \cup (IF d = c THEN {next} ELSE {})
    OBVIOUS
  <2>1. {j \in DOMAIN matches' : matches'[j].canonical = d}
          = {j \in DOMAIN matches : matches[j].canonical = d} \cup (IF d = c THEN {last} ELSE {})
    BY <1>4
  <2> HIDE DEF last
  <2> QED
    BY <1>2, <1>4, <2>1 DEF Cluster
<1>7. Turn(c)
  BY <1>1, <1>2, <1>3, <1>6 DEF Turn, Register
<1>8. Typed'
  <2>1. PICK n \in Nat : articles \in [1 .. n -> Inputs] /\ next \in 1 .. n + 1
    BY <1>2 DEF Typed
  <2>2. next' \in 1 .. n + 1
    BY <1>2, <2>1
  <2>3. Match \subseteq Match' /\ new \in Match'
    BY <1>2, <1>3, <1>5 DEF Match
  <2>4. matches' \in Seq(Match')
    <3>1. matches \in Seq(Match')
      BY <1>3, <2>3
    <3> HIDE DEF new
    <3> QED
      BY <1>1, <2>3, <3>1 DEF new
  <2>5. unique' \in Seq(1 .. next' - 1)
    BY <1>2, <1>3
  <2>6. index' \in [Keys -> {0} \cup DOMAIN unique']
    BY <1>2, <1>7 DEF Turn, Typed
  <2> QED
    BY <1>2, <2>1, <2>2, <2>4, <2>5, <2>6 DEF Typed
<1>9. PICK i, reason : i = next /\ i \in 1 .. next /\ reason = Kinds[Reason(a)]
  BY <1>2
<1>10. Supported(i, c, reason)'
  <2>0. EarlierClusters(i) = {c}
    BY <1>1, <1>2, <1>9, ResolvesToOnly
  <2>1. PICK k \in Candidates(a) : k[1] = Reason(a) /\ \A l \in Candidates(a) : k[1] <= l[1]
    BY <1>5
  <2>2. k \in KeysOf(a) /\ index[k] = c /\ c # 0 /\ KeysOf(a) \subseteq Keys
    BY <1>1, <1>2, <1>3, KeysFit DEF Candidates, Resolves
  <2>3. PICK j \in 1 .. next - 1 : k \in KeysOf(articles[j]) /\ j \in Cluster(c)
    BY <1>2, <2>2 DEF Indexed, FirstWith
  <2>4. ASSUME NEW l \in KeysOf(a), l[1] < Reason(a), NEW h \in 1 .. next - 1
        PROVE  l \notin KeysOf(articles[h])
    <3>1. l \notin Candidates(a)
      <4>1. l[1] \in Nat /\ Reason(a) \in Nat
        BY <1>2, <1>5, KeysFit DEF Kinds
      <4> QED
        BY <2>1, <2>4, <4>1
    <3> QED
      BY <1>2, <2>2, <3>1 DEF Candidates, Indexed
  <2>5. \A h : KeysOf(articles[h])' = KeysOf(articles[h])
    BY <1>2 DEF KeysOf, ScopeOf
  <2>6. EarlierClusters(i)' = {c}
    BY <1>7, <1>9, <2>0, EarlierStays
  <2>7. unique'[c] < i /\ j \in Cluster(c)' /\ j < i
    BY <1>2, <1>3, <1>6, <1>9, <2>3
  <2>8. k \in KeysOf(articles[i]) /\ \A l \in KeysOf(articles[i]) : l[1] < k[1] =>
            \A h \in 1 .. i - 1 : l \notin KeysOf(articles[h])
    BY <1>9, <2>1, <2>2, <2>4
  <2> QED
    BY <1>5, <1>9, <2>1, <2>3, <2>5, <2>6, <2>7, <2>8 DEF Supported
<1>11. ASSUME NEW m \in DOMAIN matches', NEW h, NEW d, NEW why,
              matches'[m] = [duplicate |-> h, canonical |-> d, reason |-> why]
       PROVE  Supported(h, d, why)'
  <2> HIDE DEF last
  <2>1. CASE m \in DOMAIN matches
    <3>1. matches[m] = [duplicate |-> h, canonical |-> d, reason |-> why]
      BY <1>4, <1>11, <2>1
    <3> QED
      BY <1>7, <2>1, <3>1, TurnKeepsSupport
  <2>2. CASE m = last
    <3>1. h = i /\ d = c /\ why = reason
      BY <1>4, <1>9, <1>11, <2>2
    <3> QED
      BY <1>10, <3>1
  <2> QED
    BY <1>4, <2>1, <2>2
<1>12. ASSUME NEW d \in DOMAIN unique, NEW h, NEW e, unique'[d] = h PROVE EarlierClusters(h)' # {e}
  <2>1. h \in 1 .. next /\ unique[d] = h
    BY <1>2, <1>3, <1>12
  <2>2. EarlierClusters(h)' = EarlierClusters(h)
    BY <1>7, <2>1, EarlierStays
  <2> QED
    BY <2>1, <2>2 DEF IInv
<1>13. BeforeBar(ScopeOf(a)) = BeforeBar(ScopeOf(articles[unique[c]])) /\ ScopeOf(a) # <<>>
  <2>1. PICK k \in Candidates(a) : TRUE
    BY <1>1 DEF Resolves
  <2>2. /\ k \in KeysOf(a) /\ index[k] = c /\ c # 0 /\ k \in Keys
        /\ BeforeBar(k[2]) = BeforeBar(ScopeOf(a)) /\ ScopeOf(a) # <<>>
    BY <1>1, <1>2, <1>3, KeysFit DEF Candidates, Resolves
  <2>3. PICK j \in 1 .. next - 1 : k \in KeysOf(articles[j]) /\ j \in Cluster(c)
    BY <1>2, <2>2 DEF Indexed, FirstWith
  <2>4. BeforeBar(ScopeOf(articles[j])) = BeforeBar(k[2])
    BY <1>2, <2>3, Batch, KeysFit
  <2>5. BeforeBar(ScopeOf(articles[j])) = BeforeBar(ScopeOf(articles[unique[c]]))
    BY <2>3 DEF IInv, SourcesMeetAtBars
  <2> QED
    BY <2>2, <2>4, <2>5
<1>14. SourcesMeetAtBars'
  BY <1>7, <1>13, TurnKeepsSources
<1> QED
  BY <1>2, <1>7, <1>8, <1>11, <1>12, <1>14, TurnDivides, TurnIndexes DEF IInv

\* An article that founds a cluster brings keys that none of the retained ones has.
LEMMA RetainStep == ASSUME IInv, Retain PROVE IInv'
<1> DEFINE a == articles[next]
<1>0. PICK c : c = Len(unique) + 1
  OBVIOUS
<1>1. /\ Typed /\ next \in DOMAIN articles /\ articles' = articles /\ matches' = matches
      /\ unique' = Append(unique, next) /\ Register(a, c)
      /\ ~\E d \in DOMAIN unique : Resolves(a, d)
      /\ next' = next + 1 /\ next \in Nat \ {0} /\ a \in Inputs
  BY <1>0, Batch DEF IInv, Retain
<1>2. /\ unique \in Seq(1 .. next - 1) /\ matches \in Seq(Match)
      /\ Len(unique) \in Nat /\ DOMAIN unique = 1 .. Len(unique)
  BY <1>1 DEF Typed
<1>3. /\ DOMAIN unique' = DOMAIN unique \cup {c} /\ c \notin DOMAIN unique /\ c # 0
      /\ \A d \in DOMAIN unique : unique'[d] = unique[d] /\ unique[d] \in 1 .. next - 1
      /\ unique'[c] = next
  BY <1>0, <1>1, <1>2
<1>4. \A m \in DOMAIN matches : matches[m].canonical # c
  <2>1. \A m \in DOMAIN matches : matches[m] \in Match
    BY <1>2
  <2> QED
    BY <1>3, <2>1 DEF Match
<1>5. /\ \A d \in DOMAIN unique : Cluster(d)' = Cluster(d)
      /\ Cluster(c)' = {next}
  BY <1>1, <1>3, <1>4 DEF Cluster
<1>6. Turn(c)
  BY <1>1, <1>3, <1>5 DEF Turn, Register
<1>7. Typed'
  <2>1. PICK n \in Nat : articles \in [1 .. n -> Inputs] /\ next \in 1 .. n + 1
    BY <1>1 DEF Typed
  <2>2. next' \in 1 .. n + 1
    BY <1>1, <2>1
  <2>3. Match \subseteq Match'
    BY <1>1, <1>3 DEF Match
  <2>4. matches' \in Seq(Match')
    BY <1>1, <1>2, <2>3
  <2>5. unique' \in Seq(1 .. next' - 1)
    <3>1. unique \in Seq(1 .. next' - 1) /\ next \in 1 .. next' - 1
      BY <1>1, <1>2
    <3> QED
      BY <1>1, <3>1
  <2>6. index' \in [Keys -> {0} \cup DOMAIN unique']
    BY <1>1, <1>3, <1>6 DEF Turn, Typed
  <2> QED
    BY <1>1, <2>1, <2>2, <2>4, <2>5, <2>6 DEF Typed
<1>8. ASSUME NEW m \in DOMAIN matches', NEW h, NEW d, NEW reason,
             matches'[m] = [duplicate |-> h, canonical |-> d, reason |-> reason]
      PROVE  Supported(h, d, reason)'
  BY <1>1, <1>6, <1>8, TurnKeepsSupport
<1>9. ASSUME NEW d \in DOMAIN unique', NEW h, NEW e, unique'[d] = h PROVE EarlierClusters(h)' # {e}
  <2>1. h \in 1 .. next
    BY <1>1, <1>3, <1>9
  <2>2. EarlierClusters(h)' = EarlierClusters(h)
    BY <1>6, <2>1, EarlierStays
  <2>3. CASE d \in DOMAIN unique
    BY <1>3, <1>9, <2>2, <2>3 DEF IInv
  <2>4. CASE d = c
    <3>1. h = next
      BY <1>3, <1>9, <2>4
    <3>2. EarlierClusters(h) # {e}
      BY <1>1, <3>1, ResolvesToOnly DEF EarlierClusters
    <3> QED
      BY <2>2, <3>2
  <2> QED
    BY <1>3, <2>3, <2>4
<1>10. SourcesMeetAtBars'
  BY <1>3, <1>6, TurnKeepsSources
<1> QED
  BY <1>6, <1>7, <1>8, <1>9, <1>10, TurnDivides, TurnIndexes DEF IInv

\* The maps are empty and no article has been looked at.
LEMMA InitInvariant == Init => IInv
<1> SUFFICES ASSUME Init PROVE IInv
  OBVIOUS
<1>1. PICK n \in 0 .. MaxArticles : articles \in [1 .. n -> Inputs]
  BY DEF Init
<1>2. /\ next = 1 /\ unique = <<>> /\ matches = <<>> /\ index = [k \in Keys |-> 0]
      /\ DOMAIN unique = {} /\ DOMAIN matches = {} /\ 1 .. next - 1 = {} /\ n \in Nat
  BY <1>1 DEF Init
<1>3. Typed
  BY <1>1, <1>2 DEF Typed
<1>4. Divided /\ Indexed /\ SourcesMeetAtBars
  BY <1>2 DEF Divided, Indexed, SourcesMeetAtBars
<1> QED
  BY <1>2, <1>3, <1>4 DEF IInv

-------------------------------------------------------------------------------
(* The theorems. *)

\* The invariant holds in every reachable state.
THEOREM Invariance == Spec => []IInv
<1>1. IInv /\ [Next]_vars => IInv'
  <2> SUFFICES ASSUME IInv, [Next]_vars PROVE IInv'
    OBVIOUS
  <2>1. CASE UNCHANGED vars
    <3>1. /\ articles' = articles /\ next' = next /\ unique' = unique /\ matches' = matches
          /\ index' = index
      BY <2>1 DEF vars
    <3>2. /\ \A c : Cluster(c)' = Cluster(c)
          /\ \A a : KeysOf(a)' = KeysOf(a) /\ ScopeOf(a)' = ScopeOf(a)
          /\ \A k, j : FirstWith(k, j)' <=> FirstWith(k, j)
          /\ Match' = Match
      BY <3>1 DEF Cluster, KeysOf, ScopeOf, FirstWith, Match
    <3>3. \A i : EarlierClusters(i)' = EarlierClusters(i)
      BY <3>1, <3>2 DEF EarlierClusters
    <3>4. \A i, c, reason : Supported(i, c, reason)' <=> Supported(i, c, reason)
      BY <3>1, <3>2, <3>3 DEF Supported
    <3>5. Typed' /\ Divided' /\ Indexed'
      BY <3>1, <3>2 DEF IInv, Typed, Divided, Indexed
    <3>6. SourcesMeetAtBars'
      BY <3>1, <3>2, KeysStay DEF IInv, SourcesMeetAtBars
    <3> QED
      BY <3>1, <3>3, <3>4, <3>5, <3>6 DEF IInv
  <2> QED
    BY <2>1, MergeStep, RetainStep DEF Next
<1> QED
  BY <1>1, InitInvariant, PTL DEF Spec

\* Every merge follows from the evidence, in batches of any size.
THEOREM MergesSupported == Spec => []MergesAreSupported
<1>1. IInv => MergesAreSupported
  <2> SUFFICES ASSUME IInv PROVE MergesAreSupported
    OBVIOUS
  <2>1. ASSUME NEW i \in 1 .. next - 1 PROVE Cardinality({c \in DOMAIN unique : i \in Cluster(c)}) = 1
    <3>1. PICK c \in DOMAIN unique : i \in Cluster(c)
      BY DEF IInv, Divided
    <3>2. {d \in DOMAIN unique : i \in Cluster(d)} = {c}
      BY <3>1 DEF IInv, Divided
    <3> QED
      BY <3>2, FS_Singleton
  <2> QED
    <3>1. ASSUME NEW m \in DOMAIN matches
          PROVE  Supported(matches[m].duplicate, matches[m].canonical, matches[m].reason)
      <4>1. matches[m] \in Match
        BY DEF IInv, Typed
      <4>2. matches[m] = [duplicate |-> matches[m].duplicate, canonical |-> matches[m].canonical,
                          reason |-> matches[m].reason]
        BY <4>1 DEF Match
      <4> QED
        BY <4>2 DEF IInv
    <3> QED
      BY <2>1, <3>1 DEF Supported, MergesAreSupported
<1> QED
  BY <1>1, Invariance, PTL

\* No article is kept beside the only cluster that its evidence points to.
THEOREM DuplicatesNoticed == Spec => []NoUnnoticedDuplicate
<1>1. IInv => NoUnnoticedDuplicate
  <2> SUFFICES ASSUME IInv, NEW c \in DOMAIN unique, Cardinality(EarlierClusters(unique[c])) = 1
               PROVE  FALSE
    BY DEF NoUnnoticedDuplicate
  <2>1. IsFiniteSet(EarlierClusters(unique[c]))
    <3>1. DOMAIN unique = 1 .. Len(unique) /\ Len(unique) \in Nat
      BY DEF IInv, Typed
    <3>2. IsFiniteSet(DOMAIN unique)
      BY <3>1, FS_Interval
    <3>3. EarlierClusters(unique[c]) \subseteq DOMAIN unique
      BY DEF EarlierClusters
    <3> QED
      BY <3>2, <3>3, FS_Subset
  <2>2. \E d : EarlierClusters(unique[c]) = {d}
    BY <2>1, FS_Singleton
  <2> QED
    BY <2>2 DEF IInv
<1> QED
  BY <1>1, Invariance, PTL

\* Scopes that meet in a cluster agree up to the first bar, whatever chain of aliases
\* has led there: articles of sources without a bar are never merged with one another.
THEOREM SourcesMeetOnlyAtBars == Spec => []SourcesMeetAtBars
<1>1. IInv => SourcesMeetAtBars
  BY DEF IInv
<1> QED
  BY <1>1, Invariance, PTL
===============================================================================
