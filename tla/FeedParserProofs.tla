--------------------------- MODULE FeedParserProofs ---------------------------
(***************************************************************************)
(* Proofs about FeedParser and FeedNormalizer, for every set of documents  *)
(* of any length and any limits.  First what the operators over the tree   *)
(* compute, up to the feeds that parseRSS and parseAtom make of it; then   *)
(* the invariant of decodeTree; then what Parse returns, with the          *)
(* theorems that follow.                                                   *)
(***************************************************************************)
EXTENDS FeedParser, FiniteSetTheorems, WellFoundedInduction, TLAPS

-------------------------------------------------------------------------------
(* The values of the model. *)

\* A node of the tree, a text, and what an element with a URL becomes.
Node == [name : STRING, attrs : Attributes, text : Seq(Words), parent : Nat]
Texts == Seq(Words)
MediumOf(m) == [url |-> m.url, type |-> m.type, width |-> m.width, height |-> m.height]
ImageOf(m) == [url |-> m.url, width |-> m.width, height |-> m.height]

\* The warnings about an item, and an article as addArticle lists it.
ItemWarnings == {"published", "updated", "skipped"}
Dated(a) == [a EXCEPT !.published = ParseDate(@), !.updated = ParseDate(@)]

-------------------------------------------------------------------------------
(* Numbers, and folds: FoldLeft is defined by CHOOSE, and a function that solves its   *)
(* equation exists.                                                                   *)

\* Induction over the natural numbers, for a set of them.
LEMMA Induction ==
    ASSUME NEW T, 0 \in T, \A n \in Nat : n \in T => n + 1 \in T
    PROVE  Nat \subseteq T
<1> DEFINE Rest == Nat \ T
<1> SUFFICES ASSUME Rest # {} PROVE FALSE
  OBVIOUS
<1>1. PICK m \in Rest : \A k \in Rest : <<k, m>> \notin OpToRel(<, Nat)
  <2>1. Rest \subseteq Nat
    OBVIOUS
  <2> QED
    BY <2>1, WFMin, NatLessThanWellFounded, Zenon
<1>2. \A k \in Rest : ~(k < m)
  BY <1>1, Zenon DEF OpToRel
<1>3. m \in Nat /\ m # 0 /\ m \notin T
  OBVIOUS
<1>4. m - 1 \in Nat /\ m - 1 < m /\ (m - 1) + 1 = m
  BY <1>3
<1> QED
  BY <1>2, <1>3, <1>4

\* The largest and the smallest number of a set that has one.
LEMMA MaxIs ==
    ASSUME NEW S, NEW x \in S, S \subseteq Int, \A y \in S : y <= x
    PROVE  Max(S) = x
<1>1. \A y \in S : x >= y
  OBVIOUS
<1>2. Max(S) \in S /\ \A y \in S : Max(S) >= y
  BY <1>1, Zenon DEF Max
<1>3. Max(S) \in Int /\ x \in Int /\ Max(S) <= x /\ Max(S) >= x
  BY <1>2
<1> DEFINE m == Max(S)
<1> HIDE DEF m
<1>4. m = x
  BY <1>3 DEF m
<1> QED
  BY <1>4 DEF m

\* A set of numbers up to n has a largest and a smallest one.
LEMMA MaxExists ==
    ASSUME NEW n \in Nat, NEW S \in SUBSET (1 .. n), S # {}
    PROVE  Max(S) \in S /\ \A y \in S : y <= Max(S)
<1> DEFINE HasMax(s) == \E x \in s : \A y \in s : y <= x
           T == {k \in Nat : \A s \in SUBSET (1 .. k) : s # {} => HasMax(s)}
<1>1. 0 \in T
  <2>1. 1 .. 0 = {}
    OBVIOUS
  <2> QED
    BY <2>1
<1>2. ASSUME NEW k \in Nat, k \in T PROVE k + 1 \in T
  <2> SUFFICES ASSUME NEW s \in SUBSET (1 .. k + 1), s # {} PROVE HasMax(s)
    OBVIOUS
  <2>1. CASE k + 1 \in s
    <3>1. \A y \in s : y <= k + 1
      OBVIOUS
    <3> QED
      BY <2>1, <3>1
  <2>2. CASE k + 1 \notin s
    <3>1. \A i \in s : i \in 1 .. k
      BY <2>2
    <3>2. s \in SUBSET (1 .. k)
      BY <3>1
    <3> HIDE DEF HasMax
    <3> QED
      BY <1>2, <3>2
  <2> QED
    BY <2>1, <2>2
<1>3. n \in T
  <2> HIDE DEF T
  <2> QED
    BY <1>1, <1>2, Induction
<1>4. PICK x \in S : \A y \in S : y <= x
  BY <1>3
<1>5. Max(S) = x
  <2>1. S \subseteq Int
    OBVIOUS
  <2> QED
    BY <1>4, <2>1, MaxIs
<1> QED
  BY <1>4, <1>5

\* The first k of some numbers.
LEMMA FirstNumbers ==
    ASSUME NEW k \in Nat \ {0}
    PROVE  (1 .. k) \ {k} = 1 .. k - 1 /\ Max(1 .. k) = k /\ 1 .. k # {}
<1>1. Max(1 .. k) = k
  <2>1. k \in 1 .. k /\ 1 .. k \subseteq Int /\ \A y \in 1 .. k : y <= k
    OBVIOUS
  <2> QED
    BY <2>1, MaxIs
<1>2. (1 .. k) \ {k} = 1 .. k - 1
  <2>1. \A i : i \in (1 .. k) \ {k} <=> i \in 1 .. k - 1
    OBVIOUS
  <2> QED
    BY <2>1
<1> QED
  BY <1>1, <1>2

\* The recursive definition of a fold over the first n elements of a sequence, with the
\* step as a function g.
Solves(f, A, g, base, seq, n) ==
    /\ f \in [SUBSET (1 .. n) -> A]
    /\ \A s \in SUBSET (1 .. n) :
          f[s] = IF s = {} THEN base ELSE g[<<f[s \ {Max(s)}], seq[Max(s)]>>]

\* It has a solution.
LEMMA FoldExists ==
    ASSUME NEW A, NEW V, NEW g \in [A \X V -> A], NEW base \in A,
           NEW n \in Nat, NEW seq \in [1 .. n -> V]
    PROVE  \E f : Solves(f, A, g, base, seq, n)
<1> DEFINE T == {k \in Nat : k <= n => \E f : Solves(f, A, g, base, seq, k)}
<1>1. 0 \in T
  <2> DEFINE f == [s \in SUBSET (1 .. 0) |-> base]
  <2>1. 1 .. 0 = {}
    OBVIOUS
  <2>2. SUBSET (1 .. 0) = {{}}
    BY <2>1
  <2>3. Solves(f, A, g, base, seq, 0)
    BY <2>2 DEF Solves
  <2> QED
    BY <2>3
<1>2. ASSUME NEW k \in Nat, k \in T PROVE k + 1 \in T
  <2> SUFFICES ASSUME k + 1 <= n PROVE \E f : Solves(f, A, g, base, seq, k + 1)
    OBVIOUS
  <2>1. PICK f : Solves(f, A, g, base, seq, k)
    BY <1>2
  <2> DEFINE e == [s \in SUBSET (1 .. k + 1) |->
                      IF k + 1 \in s THEN g[<<f[s \ {k + 1}], seq[k + 1]>>] ELSE f[s]]
  <2>2. ASSUME NEW s \in SUBSET (1 .. k + 1)
        PROVE  /\ e[s] \in A
               /\ e[s] = IF s = {} THEN base ELSE g[<<e[s \ {Max(s)}], seq[Max(s)]>>]
    <3>1. CASE k + 1 \in s
      <4>1. Max(s) = k + 1
        <5>1. s \subseteq Int /\ \A y \in s : y <= k + 1
          OBVIOUS
        <5> QED
          BY <3>1, <5>1, MaxIs
      <4>2. s \ {k + 1} \in SUBSET (1 .. k) /\ s \ {k + 1} \in SUBSET (1 .. k + 1) /\ k + 1 \notin s \ {k + 1}
        OBVIOUS
      <4>3. e[s \ {k + 1}] = f[s \ {k + 1}] /\ f[s \ {k + 1}] \in A
        BY <2>1, <4>2 DEF Solves
      <4>4. seq[k + 1] \in V
        OBVIOUS
      <4>5. e[s] = g[<<f[s \ {k + 1}], seq[k + 1]>>]
        BY <3>1
      <4>6. <<f[s \ {k + 1}], seq[k + 1]>> \in A \X V
        BY <4>3, <4>4
      <4> HIDE DEF e
      <4> QED
        BY <3>1, <4>1, <4>3, <4>5, <4>6
    <3>2. CASE k + 1 \notin s
      <4>1. /\ s \in SUBSET (1 .. k) /\ s \ {Max(s)} \in SUBSET (1 .. k)
            /\ s \ {Max(s)} \in SUBSET (1 .. k + 1) /\ k + 1 \notin s \ {Max(s)}
        <5>1. \A i \in s : i \in 1 .. k
          BY <3>2
        <5>2. \A i \in s \ {Max(s)} : i \in 1 .. k /\ i \in 1 .. k + 1 /\ i # k + 1
          BY <5>1
        <5> QED
          BY <5>1, <5>2
      <4>2. e[s \ {Max(s)}] = f[s \ {Max(s)}]
        BY <4>1
      <4>3. e[s] = f[s]
        BY <3>2
      <4> HIDE DEF e
      <4> QED
        BY <2>1, <4>1, <4>2, <4>3 DEF Solves
    <3> QED
      BY <3>1, <3>2
  <2>3. e \in [SUBSET (1 .. k + 1) -> A]
    BY <2>2
  <2> HIDE DEF e
  <2>4. Solves(e, A, g, base, seq, k + 1)
    BY <2>2, <2>3 DEF Solves
  <2> QED
    BY <2>4
<1>3. n \in T
  <2> HIDE DEF T
  <2> QED
    BY <1>1, <1>2, Induction
<1> QED
  BY <1>3

-------------------------------------------------------------------------------
(* The folds of the model, turn by turn. *)

\* A sequence of members with one more is one.
LEMMA AppendTyped ==
    ASSUME NEW S, NEW s \in Seq(S), NEW e \in S
    PROVE  Append(s, e) \in Seq(S)
OBVIOUS
\* The turns of the fold that collects the nodes of a set.
LEMMA InOrderFolds ==
    ASSUME NEW S, NEW V, tree \in Seq(V)
    PROVE  \E h : /\ h[0] = <<>> /\ h[Len(tree)] = InOrder(S)
                  /\ \A k \in 1 .. Len(tree) : h[k] = IF k \in S THEN Append(h[k - 1], k) ELSE h[k - 1]
<1> DEFINE n == Len(tree)  seq == [i \in DOMAIN tree |-> i]  A == Seq(DOMAIN tree)
           Turn(a, v) == IF v \in S THEN Append(a, v) ELSE a
           g == [p \in A \X (DOMAIN tree) |-> Turn(p[1], p[2])]
           Body(f) == [s \in SUBSET (1 .. n) |->
                          IF s = {} THEN <<>> ELSE Turn(f[s \ {Max(s)}], seq[Max(s)])]
           c == CHOOSE f : f = Body(f)
           h == [k \in 0 .. n |-> c[1 .. k]]
<1>1. <<>> \in A /\ n \in Nat /\ DOMAIN seq = 1 .. n /\ seq \in [1 .. n -> (DOMAIN tree)]
  OBVIOUS
<1>2. ASSUME NEW a \in A, NEW v \in (DOMAIN tree) PROVE Turn(a, v) \in A
  BY AppendTyped
<1>3. InOrder(S) = c[1 .. n]
  BY <1>1 DEF InOrder, FoldLeft, MapThenFoldSet
<1> HIDE DEF Turn, A, n, seq
<1>4. g \in [A \X (DOMAIN tree) -> A]
  BY <1>2
<1> HIDE DEF g
<1>5. PICK f : Solves(f, A, g, <<>>, seq, n)
  BY <1>1, <1>4, FoldExists
<1>6. f = Body(f)
  <2>1. ASSUME NEW s \in SUBSET (1 .. n), s # {}
        PROVE  g[<<f[s \ {Max(s)}], seq[Max(s)]>>] = Turn(f[s \ {Max(s)}], seq[Max(s)])
    <3>1. Max(s) \in 1 .. n /\ s \ {Max(s)} \in SUBSET (1 .. n)
      BY <1>1, <2>1, MaxExists
    <3>2. <<f[s \ {Max(s)}], seq[Max(s)]>> \in A \X (DOMAIN tree)
      BY <1>1, <1>5, <3>1 DEF Solves
    <3> QED
      BY <3>2 DEF g
  <2>2. f = [s \in SUBSET (1 .. n) |-> f[s]] /\ \A s \in SUBSET (1 .. n) : f[s] = Body(f)[s]
    BY <1>5, <2>1 DEF Solves
  <2> QED
    BY <2>2
<1>7. c = Body(c)
  <2> HIDE DEF Body
  <2> QED
    BY <1>6
<1> HIDE DEF c
<1>8. h[0] = <<>>
  <2>1. 1 .. 0 = {}
    OBVIOUS
  <2> QED
    BY <1>1, <1>7, <2>1
<1>9. ASSUME NEW k \in 1 .. n PROVE h[k] = Turn(h[k - 1], seq[k])
  <2>1. k \in Nat \ {0} /\ k \in 0 .. n /\ k - 1 \in 0 .. n /\ 1 .. k \in SUBSET (1 .. n)
    BY <1>1
  <2>2. (1 .. k) \ {k} = 1 .. k - 1 /\ Max(1 .. k) = k /\ 1 .. k # {}
    BY <2>1, FirstNumbers
  <2>3. h[k] = c[1 .. k] /\ h[k - 1] = c[1 .. k - 1]
    BY <2>1
  <2> HIDE DEF h
  <2>4. c[1 .. k] = Turn(c[(1 .. k) \ {Max(1 .. k)}], seq[Max(1 .. k)])
    BY <1>7, <2>1, <2>2
  <2> QED
    BY <2>2, <2>3, <2>4
<1>10. h[n] = InOrder(S)
  BY <1>1, <1>3
<1>11. n = Len(tree) /\ \A k \in 1 .. n : seq[k] = k
  BY <1>1 DEF n, seq
<1> HIDE DEF h
<1> QED
  BY <1>11, <1>8, <1>9, <1>10 DEF n, seq, Turn

\* The turns of the fold that splits a text at commas.
LEMMA SplitFolds ==
    ASSUME NEW text \in Texts
    PROVE  \E h : /\ h[0] = << <<>> >> /\ h[Len(text)] = Split(text)
                  /\ \A k \in 1 .. Len(text) : h[k] = IF text[k] = Comma THEN Append(h[k - 1], <<>>)
                                            ELSE [h[k - 1] EXCEPT ![Len(h[k - 1])] = Append(@, text[k])]
<1> DEFINE n == Len(text)  seq == text  A == Seq(Texts) \ {<<>>}
           Turn(a, v) == IF v = Comma THEN Append(a, <<>>)
                         ELSE [a EXCEPT ![Len(a)] = Append(@, v)]
           g == [p \in A \X Words |-> Turn(p[1], p[2])]
           Body(f) == [s \in SUBSET (1 .. n) |->
                          IF s = {} THEN << <<>> >> ELSE Turn(f[s \ {Max(s)}], seq[Max(s)])]
           c == CHOOSE f : f = Body(f)
           h == [k \in 0 .. n |-> c[1 .. k]]
<1>1. << <<>> >> \in A /\ n \in Nat /\ DOMAIN seq = 1 .. n /\ seq \in [1 .. n -> Words]
  BY DEF Texts
<1>2. ASSUME NEW a \in A, NEW v \in Words PROVE Turn(a, v) \in A
  <2> DEFINE top == Append(a[Len(a)], v)
  <2>1. a \in Seq(Texts) /\ Len(a) \in 1 .. Len(a) /\ a[Len(a)] \in Texts
    OBVIOUS
  <2>2. <<>> \in Texts /\ top \in Texts
    BY <2>1 DEF Texts
  <2> HIDE DEF top
  <2>3. [a EXCEPT ![Len(a)] = top] \in A
    BY <2>1, <2>2
  <2>4. Append(a, <<>>) \in A
    BY <2>1, <2>2
  <2> QED
    BY <2>3, <2>4 DEF top
<1>3. Split(text) = c[1 .. n]
  BY <1>1 DEF Split, FoldLeft, MapThenFoldSet
<1> HIDE DEF Turn, A, n, seq
<1>4. g \in [A \X Words -> A]
  BY <1>2
<1> HIDE DEF g
<1>5. PICK f : Solves(f, A, g, << <<>> >>, seq, n)
  BY <1>1, <1>4, FoldExists
<1>6. f = Body(f)
  <2>1. ASSUME NEW s \in SUBSET (1 .. n), s # {}
        PROVE  g[<<f[s \ {Max(s)}], seq[Max(s)]>>] = Turn(f[s \ {Max(s)}], seq[Max(s)])
    <3>1. Max(s) \in 1 .. n /\ s \ {Max(s)} \in SUBSET (1 .. n)
      BY <1>1, <2>1, MaxExists
    <3>2. <<f[s \ {Max(s)}], seq[Max(s)]>> \in A \X Words
      BY <1>1, <1>5, <3>1 DEF Solves
    <3> QED
      BY <3>2 DEF g
  <2>2. f = [s \in SUBSET (1 .. n) |-> f[s]] /\ \A s \in SUBSET (1 .. n) : f[s] = Body(f)[s]
    BY <1>5, <2>1 DEF Solves
  <2> QED
    BY <2>2
<1>7. c = Body(c)
  <2> HIDE DEF Body
  <2> QED
    BY <1>6
<1> HIDE DEF c
<1>8. h[0] = << <<>> >>
  <2>1. 1 .. 0 = {}
    OBVIOUS
  <2> QED
    BY <1>1, <1>7, <2>1
<1>9. ASSUME NEW k \in 1 .. n PROVE h[k] = Turn(h[k - 1], seq[k])
  <2>1. k \in Nat \ {0} /\ k \in 0 .. n /\ k - 1 \in 0 .. n /\ 1 .. k \in SUBSET (1 .. n)
    BY <1>1
  <2>2. (1 .. k) \ {k} = 1 .. k - 1 /\ Max(1 .. k) = k /\ 1 .. k # {}
    BY <2>1, FirstNumbers
  <2>3. h[k] = c[1 .. k] /\ h[k - 1] = c[1 .. k - 1]
    BY <2>1
  <2> HIDE DEF h
  <2>4. c[1 .. k] = Turn(c[(1 .. k) \ {Max(1 .. k)}], seq[Max(1 .. k)])
    BY <1>7, <2>1, <2>2
  <2> QED
    BY <2>2, <2>3, <2>4
<1>10. h[n] = Split(text)
  BY <1>1, <1>3
<1> HIDE DEF h
<1> QED
  BY <1>8, <1>9, <1>10 DEF n, seq, Turn

\* The turns of the fold that lists texts.
LEMMA AddUniqueFolds ==
    ASSUME NEW V, NEW list \in Seq(V)
    PROVE  \E h : /\ h[0] = <<>> /\ h[Len(list)] = FoldLeft(AddUnique, <<>>, list)
                  /\ \A k \in 1 .. Len(list) : h[k] = AddUnique(h[k - 1], list[k])
<1> DEFINE n == Len(list)  seq == list  A == Seq({Trim(v) : v \in V})
           Turn(a, v) == AddUnique(a, v)
           g == [p \in A \X V |-> Turn(p[1], p[2])]
           Body(f) == [s \in SUBSET (1 .. n) |->
                          IF s = {} THEN <<>> ELSE Turn(f[s \ {Max(s)}], seq[Max(s)])]
           c == CHOOSE f : f = Body(f)
           h == [k \in 0 .. n |-> c[1 .. k]]
<1>1. <<>> \in A /\ n \in Nat /\ DOMAIN seq = 1 .. n /\ seq \in [1 .. n -> V]
  OBVIOUS
<1>2. ASSUME NEW a \in A, NEW v \in V PROVE Turn(a, v) \in A
  BY DEF AddUnique
<1>3. FoldLeft(AddUnique, <<>>, list) = c[1 .. n]
  BY <1>1 DEF FoldLeft, MapThenFoldSet
<1> HIDE DEF Turn, A, n, seq
<1>4. g \in [A \X V -> A]
  BY <1>2
<1> HIDE DEF g
<1>5. PICK f : Solves(f, A, g, <<>>, seq, n)
  BY <1>1, <1>4, FoldExists
<1>6. f = Body(f)
  <2>1. ASSUME NEW s \in SUBSET (1 .. n), s # {}
        PROVE  g[<<f[s \ {Max(s)}], seq[Max(s)]>>] = Turn(f[s \ {Max(s)}], seq[Max(s)])
    <3>1. Max(s) \in 1 .. n /\ s \ {Max(s)} \in SUBSET (1 .. n)
      BY <1>1, <2>1, MaxExists
    <3>2. <<f[s \ {Max(s)}], seq[Max(s)]>> \in A \X V
      BY <1>1, <1>5, <3>1 DEF Solves
    <3> QED
      BY <3>2 DEF g
  <2>2. f = [s \in SUBSET (1 .. n) |-> f[s]] /\ \A s \in SUBSET (1 .. n) : f[s] = Body(f)[s]
    BY <1>5, <2>1 DEF Solves
  <2> QED
    BY <2>2
<1>7. c = Body(c)
  <2> HIDE DEF Body
  <2> QED
    BY <1>6
<1> HIDE DEF c
<1>8. h[0] = <<>>
  <2>1. 1 .. 0 = {}
    OBVIOUS
  <2> QED
    BY <1>1, <1>7, <2>1
<1>9. ASSUME NEW k \in 1 .. n PROVE h[k] = Turn(h[k - 1], seq[k])
  <2>1. k \in Nat \ {0} /\ k \in 0 .. n /\ k - 1 \in 0 .. n /\ 1 .. k \in SUBSET (1 .. n)
    BY <1>1
  <2>2. (1 .. k) \ {k} = 1 .. k - 1 /\ Max(1 .. k) = k /\ 1 .. k # {}
    BY <2>1, FirstNumbers
  <2>3. h[k] = c[1 .. k] /\ h[k - 1] = c[1 .. k - 1]
    BY <2>1
  <2> HIDE DEF h
  <2>4. c[1 .. k] = Turn(c[(1 .. k) \ {Max(1 .. k)}], seq[Max(1 .. k)])
    BY <1>7, <2>1, <2>2
  <2> QED
    BY <2>2, <2>3, <2>4
<1>10. h[n] = FoldLeft(AddUnique, <<>>, list)
  BY <1>1, <1>3
<1> HIDE DEF h
<1> QED
  BY <1>8, <1>9, <1>10 DEF n, seq, Turn

\* The turns of the fold that lists media and images.
LEMMA MediaFold ==
    ASSUME NEW V, NEW list \in Seq(V)
    PROVE  \E h : /\ h[0] = [media |-> <<>>, images |-> <<>>]
                  /\ h[Len(list)] = FoldLeft(AddMediaOrImage, [media |-> <<>>, images |-> <<>>], list)
                  /\ \A k \in 1 .. Len(list) : h[k] = AddMediaOrImage(h[k - 1], list[k])
<1> DEFINE n == Len(list)  seq == list
           A == [media : Seq({MediumOf(m) : m \in V}), images : Seq({ImageOf(m) : m \in V})]
           Turn(a, v) == AddMediaOrImage(a, v)
           g == [p \in A \X V |-> Turn(p[1], p[2])]
           Body(f) == [s \in SUBSET (1 .. n) |->
                          IF s = {} THEN [media |-> <<>>, images |-> <<>>] ELSE Turn(f[s \ {Max(s)}], seq[Max(s)])]
           c == CHOOSE f : f = Body(f)
           h == [k \in 0 .. n |-> c[1 .. k]]
<1>1. [media |-> <<>>, images |-> <<>>] \in A /\ n \in Nat /\ DOMAIN seq = 1 .. n /\ seq \in [1 .. n -> V]
  OBVIOUS
<1>2. ASSUME NEW a \in A, NEW v \in V PROVE Turn(a, v) \in A
  <2>1. AddByURL(a.images, ImageOf(v)) \in Seq({ImageOf(m) : m \in V})
    BY AppendTyped DEF AddByURL
  <2>2. AddByURL(a.media, MediumOf(v)) \in Seq({MediumOf(m) : m \in V})
    BY AppendTyped DEF AddByURL
  <2> QED
    BY <2>1, <2>2 DEF AddMediaOrImage, MediumOf, ImageOf
<1>3. FoldLeft(AddMediaOrImage, [media |-> <<>>, images |-> <<>>], list) = c[1 .. n]
  BY <1>1 DEF FoldLeft, MapThenFoldSet
<1> HIDE DEF Turn, A, n, seq
<1>4. g \in [A \X V -> A]
  BY <1>2
<1> HIDE DEF g
<1>5. PICK f : Solves(f, A, g, [media |-> <<>>, images |-> <<>>], seq, n)
  BY <1>1, <1>4, FoldExists
<1>6. f = Body(f)
  <2>1. ASSUME NEW s \in SUBSET (1 .. n), s # {}
        PROVE  g[<<f[s \ {Max(s)}], seq[Max(s)]>>] = Turn(f[s \ {Max(s)}], seq[Max(s)])
    <3>1. Max(s) \in 1 .. n /\ s \ {Max(s)} \in SUBSET (1 .. n)
      BY <1>1, <2>1, MaxExists
    <3>2. <<f[s \ {Max(s)}], seq[Max(s)]>> \in A \X V
      BY <1>1, <1>5, <3>1 DEF Solves
    <3> QED
      BY <3>2 DEF g
  <2>2. f = [s \in SUBSET (1 .. n) |-> f[s]] /\ \A s \in SUBSET (1 .. n) : f[s] = Body(f)[s]
    BY <1>5, <2>1 DEF Solves
  <2> QED
    BY <2>2
<1>7. c = Body(c)
  <2> HIDE DEF Body
  <2> QED
    BY <1>6
<1> HIDE DEF c
<1>8. h[0] = [media |-> <<>>, images |-> <<>>]
  <2>1. 1 .. 0 = {}
    OBVIOUS
  <2> QED
    BY <1>1, <1>7, <2>1
<1>9. ASSUME NEW k \in 1 .. n PROVE h[k] = Turn(h[k - 1], seq[k])
  <2>1. k \in Nat \ {0} /\ k \in 0 .. n /\ k - 1 \in 0 .. n /\ 1 .. k \in SUBSET (1 .. n)
    BY <1>1
  <2>2. (1 .. k) \ {k} = 1 .. k - 1 /\ Max(1 .. k) = k /\ 1 .. k # {}
    BY <2>1, FirstNumbers
  <2>3. h[k] = c[1 .. k] /\ h[k - 1] = c[1 .. k - 1]
    BY <2>1
  <2> HIDE DEF h
  <2>4. c[1 .. k] = Turn(c[(1 .. k) \ {Max(1 .. k)}], seq[Max(1 .. k)])
    BY <1>7, <2>1, <2>2
  <2> QED
    BY <2>2, <2>3, <2>4
<1>10. h[n] = FoldLeft(AddMediaOrImage, [media |-> <<>>, images |-> <<>>], list)
  BY <1>1, <1>3
<1> HIDE DEF h
<1> QED
  BY <1>8, <1>9, <1>10 DEF n, seq, Turn

Warned(a) == DateWarning(a.published, "published") \o DateWarning(a.updated, "updated")

\* The warnings about the dates of an item.
LEMMA WarnedTyped == ASSUME NEW a PROVE Warned(a) \in Seq(ItemWarnings)
<1> DEFINE p == DateWarning(a.published, "published")
           u == DateWarning(a.updated, "updated")
<1>1. p \in Seq(ItemWarnings) /\ u \in Seq(ItemWarnings)
  BY DEF DateWarning, ItemWarnings
<1>2. Warned(a) = p \o u
  BY DEF Warned
<1> HIDE DEF p, u
<1> QED
  BY <1>1, <1>2

\* What a turn of the loop over the items does.
LEMMA AddArticleIs ==
    ASSUME NEW F, NEW E, NEW a, NEW p \in [feed : F, articles : Seq(E), warnings : Seq(ItemWarnings)]
    PROVE  AddArticle(p, a) =
              [feed |-> p.feed,
               articles |-> IF IsEmpty(a) THEN p.articles ELSE Append(p.articles, Dated(a)),
               warnings |-> IF IsEmpty(a) THEN p.warnings \o Warned(a) \o <<"skipped">>
                                          ELSE p.warnings \o Warned(a)]
<1> DEFINE d == Dated(a)
<1>1. d = [a EXCEPT !.published = ParseDate(a.published), !.updated = ParseDate(a.updated)]
  BY DEF Dated
<1> HIDE DEF d
<1>2. CASE IsEmpty(a)
  <2>1. AddArticle(p, a) = [p EXCEPT !.warnings = p.warnings \o Warned(a) \o <<"skipped">>]
    BY <1>2 DEF AddArticle, Warned
  <2> QED
    BY <1>2, <2>1
<1>3. CASE ~IsEmpty(a)
  <2>1. AddArticle(p, a) = [p EXCEPT !.warnings = p.warnings \o Warned(a), !.articles = Append(p.articles, d)]
    BY <1>1, <1>3 DEF AddArticle, Warned
  <2> QED
    BY <1>3, <2>1 DEF d
<1> QED
  BY <1>2, <1>3
\* The loop of parseRSS and of parseAtom, and what it works on.
Parsing(feed, V) == [feed : {feed}, articles : Seq({Dated(a) : a \in V}), warnings : Seq(ItemWarnings)]
AllAdded(base, list) == FoldLeft(AddArticle, base, list)

\* The turns of the fold over the items.
LEMMA ArticlesFold ==
    ASSUME NEW feed, NEW V, NEW list \in Seq(V), NEW base \in Parsing(feed, V)
    PROVE  \E h : /\ h[0] = base /\ h[Len(list)] = AllAdded(base, list)
                  /\ \A k \in 1 .. Len(list) : h[k] = AddArticle(h[k - 1], list[k])
<1> DEFINE n == Len(list)  seq == list
           A == [feed : {feed}, articles : Seq({Dated(a) : a \in V}), warnings : Seq(ItemWarnings)]
           Turn(a, v) == AddArticle(a, v)
           g == [p \in A \X V |-> Turn(p[1], p[2])]
           Body(f) == [s \in SUBSET (1 .. n) |->
                          IF s = {} THEN base ELSE Turn(f[s \ {Max(s)}], seq[Max(s)])]
           c == CHOOSE f : f = Body(f)
           h == [k \in 0 .. n |-> c[1 .. k]]
<1>1. base \in A /\ n \in Nat /\ DOMAIN seq = 1 .. n /\ seq \in [1 .. n -> V]
  BY DEF Parsing
<1>2. ASSUME NEW a \in A, NEW v \in V PROVE Turn(a, v) \in A
  <2> DEFINE d == Dated(v)
  <2>1. d \in {Dated(b) : b \in V}
    OBVIOUS
  <2> HIDE DEF d
  <2>2. Append(a.articles, d) \in Seq({Dated(b) : b \in V}) /\ a.articles \in Seq({Dated(b) : b \in V})
    BY <2>1, AppendTyped
  <2>3. Warned(v) \in Seq(ItemWarnings)
    BY WarnedTyped
  <2>4. a.warnings \o Warned(v) \in Seq(ItemWarnings) /\ a.warnings \o Warned(v) \o <<"skipped">> \in Seq(ItemWarnings)
    BY <2>3 DEF ItemWarnings
  <2>5. AddArticle(a, v) =
           [feed |-> a.feed,
            articles |-> IF IsEmpty(v) THEN a.articles ELSE Append(a.articles, d),
            warnings |-> IF IsEmpty(v) THEN a.warnings \o Warned(v) \o <<"skipped">>
                                       ELSE a.warnings \o Warned(v)]
    BY AddArticleIs DEF d
  <2> QED
    BY <2>2, <2>4, <2>5
<1>3. AllAdded(base, list) = c[1 .. n]
  BY <1>1 DEF AllAdded, FoldLeft, MapThenFoldSet
<1> HIDE DEF Turn, A, n, seq
<1>4. g \in [A \X V -> A]
  BY <1>2
<1> HIDE DEF g
<1>5. PICK f : Solves(f, A, g, base, seq, n)
  BY <1>1, <1>4, FoldExists
<1>6. f = Body(f)
  <2>1. ASSUME NEW s \in SUBSET (1 .. n), s # {}
        PROVE  g[<<f[s \ {Max(s)}], seq[Max(s)]>>] = Turn(f[s \ {Max(s)}], seq[Max(s)])
    <3>1. Max(s) \in 1 .. n /\ s \ {Max(s)} \in SUBSET (1 .. n)
      BY <1>1, <2>1, MaxExists
    <3>2. <<f[s \ {Max(s)}], seq[Max(s)]>> \in A \X V
      BY <1>1, <1>5, <3>1 DEF Solves
    <3> QED
      BY <3>2 DEF g
  <2>2. f = [s \in SUBSET (1 .. n) |-> f[s]] /\ \A s \in SUBSET (1 .. n) : f[s] = Body(f)[s]
    BY <1>5, <2>1 DEF Solves
  <2> QED
    BY <2>2
<1>7. c = Body(c)
  <2> HIDE DEF Body
  <2> QED
    BY <1>6
<1> HIDE DEF c
<1>8. h[0] = base
  <2>1. 1 .. 0 = {}
    OBVIOUS
  <2> QED
    BY <1>1, <1>7, <2>1
<1>9. ASSUME NEW k \in 1 .. n PROVE h[k] = Turn(h[k - 1], seq[k])
  <2>1. k \in Nat \ {0} /\ k \in 0 .. n /\ k - 1 \in 0 .. n /\ 1 .. k \in SUBSET (1 .. n)
    BY <1>1
  <2>2. (1 .. k) \ {k} = 1 .. k - 1 /\ Max(1 .. k) = k /\ 1 .. k # {}
    BY <2>1, FirstNumbers
  <2>3. h[k] = c[1 .. k] /\ h[k - 1] = c[1 .. k - 1]
    BY <2>1
  <2> HIDE DEF h
  <2>4. c[1 .. k] = Turn(c[(1 .. k) \ {Max(1 .. k)}], seq[Max(1 .. k)])
    BY <1>7, <2>1, <2>2
  <2> QED
    BY <2>2, <2>3, <2>4
<1>10. h[n] = AllAdded(base, list)
  BY <1>1, <1>3
<1> HIDE DEF h
<1> QED
  BY <1>8, <1>9, <1>10 DEF n, seq, Turn

\* A nonempty set of natural numbers has a smallest one.
LEMMA MinExists ==
    ASSUME NEW S, S \subseteq Nat, S # {}
    PROVE  Min(S) \in S /\ \A y \in S : Min(S) <= y
<1>1. PICK m \in S : \A k \in S : <<k, m>> \notin OpToRel(<, Nat)
  BY WFMin, NatLessThanWellFounded, Zenon
<1>2. \A k \in S : ~(k < m)
  BY <1>1, Zenon DEF OpToRel
<1>3. \A k \in S : m <= k
  BY <1>2
<1> QED
  BY <1>3, Zenon DEF Min

\* What a smallest number is.
LEMMA MinIs ==
    ASSUME NEW S, NEW x \in S, S \subseteq Nat, \A y \in S : x <= y
    PROVE  Min(S) = x
<1>1. Min(S) \in S /\ \A y \in S : Min(S) <= y
  BY MinExists
<1> DEFINE m == Min(S)
<1> HIDE DEF m
<1>2. m \in Nat /\ x \in Nat /\ m <= x /\ x <= m
  BY <1>1 DEF m
<1>3. m = x
  BY <1>2
<1> QED
  BY <1>3 DEF m

-------------------------------------------------------------------------------
(* Texts. *)

Trimmed == {t \in Texts : Trim(t) = t}

\* The empty text is trimmed.
LEMMA EmptyTrimmed == <<>> \in Trimmed /\ Trim(<<>>) = <<>>
<1> DEFINE e == <<>>
<1>1. {i \in DOMAIN e : e[i] # Blank} = {}
  OBVIOUS
<1>2. Trim(e) = <<>>
  BY <1>1 DEF Trim
<1> QED
  BY <1>2 DEF Trimmed, Texts

\* Trimming leaves nothing to trim, and nothing at all just of blanks.
LEMMA TrimIs ==
    ASSUME NEW t \in Texts
    PROVE  /\ Trim(t) \in Trimmed
           /\ Trim(t) = <<>> <=> \A i \in DOMAIN t : t[i] = Blank
<1> DEFINE solid == {i \in DOMAIN t : t[i] # Blank}
<1>1. CASE solid = {}
  BY <1>1, EmptyTrimmed DEF Trim
<1>2. CASE solid # {}
  <2> DEFINE m == Min(solid)  M == Max(solid)  u == SubSeq(t, m, M)
             rest == {i \in DOMAIN u : u[i] # Blank}
  <2>1. t \in Seq(Words) /\ solid \in SUBSET (1 .. Len(t)) /\ Len(t) \in Nat /\ solid \subseteq Nat
    <3>1. t \in Seq(Words)
      BY DEF Texts
    <3>2. Len(t) \in Nat /\ DOMAIN t = 1 .. Len(t)
      BY <3>1
    <3>3. solid \subseteq 1 .. Len(t) /\ 1 .. Len(t) \subseteq Nat
      BY <3>2
    <3> QED
      BY <3>1, <3>2, <3>3
  <2>2. m \in solid /\ M \in solid /\ m <= M
    BY <1>2, <2>1, MinExists, MaxExists
  <2>3. m \in 1 .. Len(t) /\ M \in 1 .. Len(t) /\ t[m] # Blank /\ t[M] # Blank
    BY <2>1, <2>2
  <2>4. Trim(t) = u
    BY <1>2 DEF Trim
  <2>12. M \in Nat /\ m \in Nat /\ DOMAIN t = 1 .. Len(t) /\ m >= 1 /\ M <= Len(t)
    BY <2>1, <2>3
  <2> HIDE DEF m, M, solid
  <2>5. /\ u \in Seq(Words) /\ Len(u) = M - m + 1
        /\ \A i \in 1 .. Len(u) : u[i] = t[m + i - 1]
    <3>1. /\ SubSeq(t, m, M) \in Seq(Words) /\ Len(SubSeq(t, m, M)) = M - m + 1
          /\ \A i \in 1 .. M - m + 1 : SubSeq(t, m, M)[i] = t[m + i - 1]
      BY <2>1, <2>2, <2>12
    <3> QED
      BY <3>1
  <2>6. Len(u) \in Nat \ {0} /\ u[1] # Blank /\ u[Len(u)] # Blank /\ DOMAIN u = 1 .. Len(u)
    <3>1. Len(u) \in Nat \ {0} /\ DOMAIN u = 1 .. Len(u) /\ m + 1 - 1 = m /\ m + Len(u) - 1 = M
      BY <2>2, <2>5, <2>12
    <3> HIDE DEF u
    <3>2. u[1] = t[m + 1 - 1] /\ u[Len(u)] = t[m + Len(u) - 1]
      BY <2>5, <3>1
    <3> QED
      BY <2>3, <3>1, <3>2
  <2> HIDE DEF u
  <2>7. Min(rest) = 1 /\ Max(rest) = Len(u) /\ rest # {}
    <3>1. rest \subseteq Nat /\ rest \subseteq Int /\ 1 \in rest /\ Len(u) \in rest
      BY <2>6
    <3>2. \A i \in rest : 1 <= i /\ i <= Len(u)
      BY <2>6
    <3> QED
      BY <3>1, <3>2, MinIs, MaxIs
  <2>8. Trim(u) = SubSeq(u, 1, Len(u))
    BY <2>7 DEF Trim
  <2>9. SubSeq(u, 1, Len(u)) = u
    BY <2>5, <2>6
  <2>10. u # <<>>
    BY <2>6
  <2>11. \E i \in DOMAIN t : t[i] # Blank
    BY <2>3, <2>12
  <2> QED
    BY <2>4, <2>5, <2>8, <2>9, <2>10, <2>11 DEF Trimmed, Texts
<1> QED
  BY <1>1, <1>2

\* Folding the case of a text keeps its length.
LEMMA FoldedIs ==
    ASSUME NEW t \in Texts
    PROVE  Folded(t) = <<>> <=> t = <<>>
BY DEF Folded, Texts

\* The first of some trimmed texts that is not empty.
LEMMA FirstNonEmptyIs ==
    ASSUME NEW values \in Seq(Trimmed)
    PROVE  /\ FirstNonEmpty(values) \in Trimmed
           /\ FirstNonEmpty(values) = <<>> <=> \A i \in DOMAIN values : values[i] = <<>>
<1> DEFINE solid == {i \in DOMAIN values : Trim(values[i]) # <<>>}
<1>1. \A i \in DOMAIN values : values[i] \in Texts /\ Trim(values[i]) = values[i]
  BY DEF Trimmed
<1>2. CASE solid = {}
  BY <1>1, <1>2, EmptyTrimmed DEF FirstNonEmpty
<1>3. CASE solid # {}
  <2>1. solid \subseteq Nat
    OBVIOUS
  <2>2. Min(solid) \in solid
    BY <1>3, <2>1, MinExists
  <2>3. FirstNonEmpty(values) = Trim(values[Min(solid)])
    BY <1>3 DEF FirstNonEmpty
  <2> QED
    BY <1>1, <2>2, <2>3
<1> QED
  BY <1>2, <1>3

\* One or two texts.
LEMMA FirstOfTwo ==
    ASSUME NEW v \in Trimmed, NEW w \in Trimmed
    PROVE  /\ FirstNonEmpty(<<v>>) = v
           /\ FirstNonEmpty(<<v, w>>) \in Trimmed
           /\ FirstNonEmpty(<<v, w>>) = <<>> <=> v = <<>> /\ w = <<>>
<1>1. FirstNonEmpty(<<v>>) = v
  <2> DEFINE s == <<v>>
             solid == {i \in DOMAIN s : Trim(s[i]) # <<>>}
  <2>1. Trim(v) = v /\ DOMAIN s = {1} /\ s[1] = v
    BY DEF Trimmed
  <2>2. CASE v = <<>>
    <3>1. solid = {}
      BY <2>1, <2>2
    <3> QED
      BY <2>2, <3>1 DEF FirstNonEmpty
  <2>3. CASE v # <<>>
    <3>1. solid = {1}
      BY <2>1, <2>3
    <3>2. Min(solid) = 1
      <4>1. 1 \in solid /\ solid \subseteq Nat /\ \A y \in solid : 1 <= y
        BY <3>1
      <4> QED
        BY <4>1, MinIs
    <3>3. FirstNonEmpty(s) = Trim(s[Min(solid)])
      BY <3>1 DEF FirstNonEmpty
    <3> QED
      BY <2>1, <3>2, <3>3
  <2> QED
    BY <2>2, <2>3
<1>2. <<v, w>> \in Seq(Trimmed) /\ DOMAIN <<v, w>> = {1, 2} /\ <<v, w>>[1] = v /\ <<v, w>>[2] = w
  OBVIOUS
<1> QED
  BY <1>1, <1>2, FirstNonEmptyIs

\* Splitting a text gives texts.
LEMMA SplitTyped == ASSUME NEW text \in Texts PROVE Split(text) \in Seq(Texts)
<1>1. PICK h : /\ h[0] = << <<>> >> /\ h[Len(text)] = Split(text)
               /\ \A k \in 1 .. Len(text) :
                     h[k] = IF text[k] = Comma THEN Append(h[k - 1], <<>>)
                            ELSE [h[k - 1] EXCEPT ![Len(h[k - 1])] = Append(@, text[k])]
  BY SplitFolds
<1> DEFINE A == Seq(Texts) \ {<<>>}
           T == {k \in Nat : k <= Len(text) => h[k] \in A}
<1>2. text \in Seq(Words) /\ Len(text) \in Nat
  BY DEF Texts
<1>3. 0 \in T
  <2>1. <<>> \in Texts
    BY DEF Texts
  <2>2. << <<>> >> \in A
    BY <2>1
  <2> QED
    BY <1>1, <2>2
<1>4. ASSUME NEW k \in Nat, k \in T PROVE k + 1 \in T
  <2> SUFFICES ASSUME k + 1 <= Len(text) PROVE h[k + 1] \in A
    OBVIOUS
  <2> DEFINE a == h[k]
             top == Append(a[Len(a)], text[k + 1])
  <2>1. a \in A /\ text[k + 1] \in Words
    BY <1>2, <1>4
  <2>2. h[k + 1] = IF text[k + 1] = Comma THEN Append(a, <<>>)
                   ELSE [a EXCEPT ![Len(a)] = top]
    BY <1>1, <1>2
  <2>3. a \in Seq(Texts) /\ Len(a) \in 1 .. Len(a) /\ a[Len(a)] \in Texts
    BY <2>1
  <2>4. <<>> \in Texts /\ top \in Texts
    BY <2>1, <2>3 DEF Texts
  <2> HIDE DEF top, a
  <2>5. [a EXCEPT ![Len(a)] = top] \in A
    BY <2>3, <2>4
  <2>6. Append(a, <<>>) \in A
    BY <2>3, <2>4
  <2> QED
    BY <2>2, <2>5, <2>6
<1>5. Len(text) \in T
  <2> HIDE DEF T
  <2> QED
    BY <1>2, <1>3, <1>4, Induction
<1> QED
  BY <1>1, <1>2, <1>5

-------------------------------------------------------------------------------
(* What is read from the tree. *)

\* The members of an extended sequence.
LEMMA Members ==
    ASSUME NEW S, NEW s \in Seq(S), NEW e \in S, NEW t \in Seq(S)
    PROVE  /\ ToSet(<<>>) = {} /\ ToSet(s) \subseteq S
           /\ ToSet(Append(s, e)) = ToSet(s) \cup {e}
           /\ ToSet(s \o t) = ToSet(s) \cup ToSet(t)
<1>1. ToSet(<<>>) = {} /\ ToSet(s) \subseteq S
  BY DEF ToSet
<1>2. ToSet(Append(s, e)) = ToSet(s) \cup {e}
  <2> DEFINE a == Append(s, e)
  <2>1. DOMAIN a = DOMAIN s \cup {Len(s) + 1} /\ a[Len(s) + 1] = e /\ \A i \in DOMAIN s : a[i] = s[i]
    OBVIOUS
  <2> HIDE DEF a
  <2>2. {a[i] : i \in DOMAIN a} = {s[i] : i \in DOMAIN s} \cup {e}
    BY <2>1
  <2> QED
    BY <2>2 DEF ToSet, a
<1>3. ToSet(s \o t) = ToSet(s) \cup ToSet(t)
  <2> DEFINE a == s \o t
  <2>1. /\ \A i \in DOMAIN s : i \in DOMAIN a /\ a[i] = s[i]
        /\ \A i \in DOMAIN t : Len(s) + i \in DOMAIN a /\ a[Len(s) + i] = t[i]
        /\ \A i \in DOMAIN a : i \in DOMAIN s \/ (i - Len(s) \in DOMAIN t /\ a[i] = t[i - Len(s)])
    OBVIOUS
  <2> HIDE DEF a
  <2>2. {a[i] : i \in DOMAIN a} = {s[i] : i \in DOMAIN s} \cup {t[i] : i \in DOMAIN t}
    BY <2>1
  <2> QED
    BY <2>2 DEF ToSet, a
<1> QED
  BY <1>1, <1>2, <1>3

\* The nodes of a set, in the order of the tree and each of them once.
LEMMA InOrderIs ==
    ASSUME NEW S, NEW V, tree \in Seq(V)
    PROVE  /\ InOrder(S) \in Seq(DOMAIN tree) /\ ToSet(InOrder(S)) = S \cap DOMAIN tree
           /\ \A i, j \in DOMAIN InOrder(S) : i < j => InOrder(S)[i] < InOrder(S)[j]
<1>1. PICK h : /\ h[0] = <<>> /\ h[Len(tree)] = InOrder(S)
               /\ \A k \in 1 .. Len(tree) : h[k] = IF k \in S THEN Append(h[k - 1], k) ELSE h[k - 1]
  BY InOrderFolds
<1> DEFINE Good(s, k) == /\ s \in Seq(DOMAIN tree) /\ ToSet(s) = S \cap 1 .. k
                         /\ \A i, j \in DOMAIN s : i < j => s[i] < s[j]
           T == {k \in Nat : k <= Len(tree) => Good(h[k], k)}
<1>2. Len(tree) \in Nat /\ DOMAIN tree = 1 .. Len(tree) /\ DOMAIN tree \subseteq Nat
  OBVIOUS
<1>3. 0 \in T
  <2>1. 1 .. 0 = {}
    OBVIOUS
  <2>2. Good(<<>>, 0)
    BY <2>1 DEF ToSet
  <2> HIDE DEF Good
  <2> QED
    BY <1>1, <2>2
<1>4. ASSUME NEW k \in Nat, k \in T PROVE k + 1 \in T
  <2> SUFFICES ASSUME k + 1 <= Len(tree) PROVE Good(h[k + 1], k + 1)
    OBVIOUS
  <2> DEFINE s == h[k]
  <2>1. Good(s, k)
    BY <1>2, <1>4
  <2>2. h[k + 1] = IF k + 1 \in S THEN Append(s, k + 1) ELSE s
    BY <1>1, <1>2
  <2>3. S \cap 1 .. k + 1 = (S \cap 1 .. k) \cup (S \cap {k + 1})
    OBVIOUS
  <2> HIDE DEF s
  <2>4. CASE k + 1 \in S
    <3> DEFINE a == Append(s, k + 1)
    <3>1. k + 1 \in DOMAIN tree
      BY <1>2
    <3>2. a \in Seq(DOMAIN tree) /\ ToSet(a) = ToSet(s) \cup {k + 1}
      BY <2>1, <3>1, Members
    <3>3. \A i \in DOMAIN s : s[i] < k + 1 /\ s[i] \in Nat
      <4>1. \A i \in DOMAIN s : s[i] \in 1 .. k
        BY <2>1 DEF ToSet
      <4> QED
        BY <4>1
    <3>4. DOMAIN a = DOMAIN s \cup {Len(s) + 1} /\ a[Len(s) + 1] = k + 1 /\ \A i \in DOMAIN s : a[i] = s[i]
      BY <2>1
    <3>5. DOMAIN s = 1 .. Len(s) /\ Len(s) \in Nat
      BY <2>1
    <3> HIDE DEF a
    <3>6. \A i, j \in DOMAIN a : i < j => a[i] < a[j]
      BY <2>1, <3>3, <3>4, <3>5
    <3> QED
      BY <2>1, <2>2, <2>3, <2>4, <3>2, <3>6 DEF a
  <2>5. CASE k + 1 \notin S
    BY <2>1, <2>2, <2>3, <2>5
  <2> QED
    BY <2>4, <2>5
<1>5. Len(tree) \in T
  <2> HIDE DEF T
  <2> QED
    BY <1>2, <1>3, <1>4, Induction
<1> QED
  BY <1>1, <1>2, <1>5

\* The children with a name, in their order.
LEMMA ChildrenTyped ==
    ASSUME tree \in Seq(Node), NEW n, NEW l
    PROVE  /\ Children(n, l) \in Seq(DOMAIN tree) /\ ToSet(Children(n, l)) = Named(n, l)
           /\ \A i, j \in DOMAIN Children(n, l) : i < j => Children(n, l)[i] < Children(n, l)[j]
<1>1. Named(n, l) \cap DOMAIN tree = Named(n, l)
  BY DEF Named
<1> QED
  BY <1>1, InOrderIs DEF Children

\* The value of a node, or of none, is trimmed.
LEMMA ValueTyped ==
    ASSUME tree \in Seq(Node), NEW n \in DOMAIN tree \cup {0}
    PROVE  Value(n) \in Trimmed
<1>1. CASE n = 0
  BY <1>1, EmptyTrimmed DEF Value
<1>2. CASE n # 0
  <2>1. tree[n] \in Node
    BY <1>2
  <2>2. tree[n].text \in Texts
    BY <2>1 DEF Node, Texts
  <2> QED
    BY <1>2, <2>2, TrimIs DEF Value
<1> QED
  BY <1>1, <1>2

\* The first child with a name, or none.
LEMMA ChildTyped ==
    ASSUME tree \in Seq(Node), NEW n, NEW l
    PROVE  /\ Child(n, l) \in DOMAIN tree \cup {0} /\ ChildValue(n, l) \in Trimmed
           /\ Child(n, l) # 0 <=> Named(n, l) # {}
<1>1. Named(n, l) \subseteq DOMAIN tree /\ DOMAIN tree \subseteq Nat \ {0}
  BY DEF Named
<1>2. Named(n, l) # {} => Min(Named(n, l)) \in Named(n, l)
  BY <1>1, MinExists
<1>3. Child(n, l) \in DOMAIN tree \cup {0} /\ (Child(n, l) # 0 <=> Named(n, l) # {})
  BY <1>1, <1>2 DEF Child
<1>4. ChildValue(n, l) \in Trimmed
  BY <1>3, ValueTyped, EmptyTrimmed DEF ChildValue
<1> QED
  BY <1>3, <1>4

\* The value of an attribute is trimmed, and empty where there is none.
LEMMA AttrTyped ==
    ASSUME tree \in Seq(Node), NEW n \in DOMAIN tree, NEW l
    PROVE  Attr(n, l) \in Trimmed
<1> DEFINE named == {i \in DOMAIN tree[n].attrs : tree[n].attrs[i].name = l}
<1>1. tree[n] \in Node
  OBVIOUS
<1>2. tree[n].attrs \in Attributes
  BY <1>1 DEF Node
<1> DEFINE attrs == tree[n].attrs
<1>5. DOMAIN attrs \subseteq Nat /\ \A i \in DOMAIN attrs : attrs[i] \in [name : STRING, value : Texts]
  <2> DEFINE R == [name : STRING, value : Texts]
  <2>1. attrs \in Seq(R)
    BY <1>2 DEF Attributes, Texts
  <2> HIDE DEF attrs, R
  <2>2. DOMAIN attrs = 1 .. Len(attrs) /\ Len(attrs) \in Nat /\ \A i \in DOMAIN attrs : attrs[i] \in R
    BY <2>1
  <2> QED
    BY <2>2 DEF R
<1>6. named \subseteq Nat /\ \A i \in named : attrs[i].value \in Texts
  BY <1>5
<1>3. CASE named = {}
  BY <1>3, EmptyTrimmed DEF Attr
<1>4. CASE named # {}
  <2>1. Min(named) \in named
    BY <1>6, <1>4, MinExists
  <2>2. Attr(n, l) = Trim(tree[n].attrs[Min(named)].value)
    BY <1>4 DEF Attr
  <2> QED
    BY <1>6, <2>1, <2>2, TrimIs
<1> QED
  BY <1>3, <1>4

-------------------------------------------------------------------------------
(* Lists without repetition, by a key that a function gives. *)

\* The keys that a list has, and that no two of its members share one.
KeysOf(K, s) == {K[x] : x \in ToSet(s)}
DistinctBy(K, s) == \A i, j \in DOMAIN s : i # j => K[s[i]] # K[s[j]]

\* A list is extended by what has another key.
LEMMA AppendNew ==
    ASSUME NEW S, NEW K, NEW s \in Seq(S), DistinctBy(K, s), NEW e \in S, K[e] \notin KeysOf(K, s)
    PROVE  /\ Append(s, e) \in Seq(S) /\ DistinctBy(K, Append(s, e))
           /\ KeysOf(K, Append(s, e)) = KeysOf(K, s) \cup {K[e]}
<1> DEFINE a == Append(s, e)
<1>1. a \in Seq(S) /\ ToSet(a) = ToSet(s) \cup {e}
  BY Members
<1>2. DOMAIN a = DOMAIN s \cup {Len(s) + 1} /\ a[Len(s) + 1] = e /\ \A i \in DOMAIN s : a[i] = s[i]
  OBVIOUS
<1> HIDE DEF a
<1>3. \A i \in DOMAIN s : K[s[i]] # K[e]
  BY DEF KeysOf, ToSet
<1>4. DistinctBy(K, a)
  BY <1>2, <1>3 DEF DistinctBy
<1>5. KeysOf(K, a) = KeysOf(K, s) \cup {K[e]}
  BY <1>1 DEF KeysOf
<1> QED
  BY <1>1, <1>4, <1>5 DEF a

\* As many entries as keys.
LEMMA LengthByKeys ==
    ASSUME NEW S, NEW K, NEW s \in Seq(S), DistinctBy(K, s)
    PROVE  Len(s) = Cardinality(KeysOf(K, s))
<1> DEFINE n == Len(s)
           f == [i \in 1 .. n |-> K[s[i]]]
<1>1. n \in Nat /\ DOMAIN s = 1 .. n
  OBVIOUS
<1>2. KeysOf(K, s) = {K[s[i]] : i \in 1 .. n}
  BY <1>1 DEF KeysOf, ToSet
<1> HIDE DEF n
<1>3. f \in Bijection(1 .. n, KeysOf(K, s))
  <2>1. f \in [1 .. n -> KeysOf(K, s)]
    BY <1>2
  <2>2. \A i, j \in 1 .. n : f[i] = f[j] => i = j
    BY <1>1 DEF DistinctBy
  <2>3. \A k \in KeysOf(K, s) : \E i \in 1 .. n : f[i] = k
    BY <1>2
  <2> HIDE DEF f
  <2> QED
    BY <2>1, <2>2, <2>3 DEF Bijection, Injection, IsInjective, Surjection
<1>4. ExistsBijection(1 .. n, KeysOf(K, s))
  <2> HIDE DEF f
  <2> QED
    BY <1>3 DEF ExistsBijection
<1> QED
  BY <1>1, <1>4, FS_CountingElements DEF n

-------------------------------------------------------------------------------
(* The lists of an article. *)

TextKeys == [t \in Trimmed |-> Folded(t)]
KeysUpTo(list, k) == {Folded(Trim(list[i])) : i \in 1 .. k} \ {<<>>}

\* A text is added unless it is blank or listed already.
LEMMA AddUniqueStep ==
    ASSUME NEW a \in Seq(Trimmed), DistinctBy(TextKeys, a), NEW raw \in Texts
    PROVE  LET b == AddUnique(a, raw) IN
           /\ b \in Seq(Trimmed) /\ DistinctBy(TextKeys, b)
           /\ KeysOf(TextKeys, b) = KeysOf(TextKeys, a) \cup ({Folded(Trim(raw))} \ {<<>>})
<1> DEFINE v == Trim(raw)
<1>1. v \in Trimmed /\ TextKeys[v] = Folded(v) /\ (Folded(v) = <<>> <=> v = <<>>)
  BY TrimIs, FoldedIs DEF TextKeys, Trimmed
<1>2. \A e \in ToSet(a) : e \in Trimmed /\ TextKeys[e] = Folded(e)
  <2>1. ToSet(a) \subseteq Trimmed
    BY EmptyTrimmed, Members
  <2> QED
    BY <2>1 DEF TextKeys
<1> HIDE DEF v
<1>3. CASE v = <<>> \/ \E e \in ToSet(a) : Folded(e) = Folded(v)
  <2>1. AddUnique(a, raw) = a
    BY <1>3 DEF AddUnique, v
  <2>2. v # <<>> => Folded(v) \in KeysOf(TextKeys, a)
    BY <1>2, <1>3 DEF KeysOf
  <2>3. KeysOf(TextKeys, a) = KeysOf(TextKeys, a) \cup ({Folded(v)} \ {<<>>})
    BY <1>1, <2>2
  <2> QED
    BY <2>1, <2>3 DEF v
<1>4. CASE ~(v = <<>> \/ \E e \in ToSet(a) : Folded(e) = Folded(v))
  <2>1. AddUnique(a, raw) = Append(a, v)
    BY <1>4 DEF AddUnique, v
  <2>2. TextKeys[v] \notin KeysOf(TextKeys, a)
    BY <1>1, <1>2, <1>4 DEF KeysOf
  <2>3. {Folded(v)} \ {<<>>} = {TextKeys[v]}
    BY <1>1, <1>4
  <2>4. /\ Append(a, v) \in Seq(Trimmed) /\ DistinctBy(TextKeys, Append(a, v))
        /\ KeysOf(TextKeys, Append(a, v)) = KeysOf(TextKeys, a) \cup {TextKeys[v]}
    BY <1>1, <2>2, AppendNew
  <2> QED
    BY <2>1, <2>3, <2>4 DEF v
<1> QED
  BY <1>3, <1>4

\* The first k + 1 keys.
LEMMA KeysGrow ==
    ASSUME NEW list, NEW k \in Nat
    PROVE  KeysUpTo(list, k + 1) = KeysUpTo(list, k) \cup ({Folded(Trim(list[k + 1]))} \ {<<>>})
<1>1. 1 .. k + 1 = (1 .. k) \cup {k + 1}
  OBVIOUS
<1> QED
  BY <1>1 DEF KeysUpTo

\* A list of texts has every text that is not blank once, whatever its case.
LEMMA TextsAreListed ==
    ASSUME NEW list \in Seq(Texts)
    PROVE  LET r == FoldLeft(AddUnique, <<>>, list)
               keys == {Folded(Trim(t)) : t \in ToSet(list)} \ {<<>>} IN
           /\ {Folded(Trim(t)) : t \in ToSet(r)} \ {<<>>} = keys
           /\ Len(r) = Cardinality(keys)
<1> DEFINE r == FoldLeft(AddUnique, <<>>, list)
           keys == {Folded(Trim(t)) : t \in ToSet(list)} \ {<<>>}
<1>1. PICK h : /\ h[0] = <<>> /\ h[Len(list)] = r
               /\ \A k \in 1 .. Len(list) : h[k] = AddUnique(h[k - 1], list[k])
  BY AddUniqueFolds
<1> HIDE DEF r
<1> DEFINE Good(a, k) == /\ a \in Seq(Trimmed) /\ DistinctBy(TextKeys, a)
                         /\ KeysOf(TextKeys, a) = KeysUpTo(list, k)
           T == {k \in Nat : k <= Len(list) => Good(h[k], k)}
<1>2. Len(list) \in Nat /\ DOMAIN list = 1 .. Len(list)
  OBVIOUS
<1>3. 0 \in T
  <2>1. 1 .. 0 = {}
    OBVIOUS
  <2>2. Good(<<>>, 0)
    BY <2>1 DEF DistinctBy, KeysOf, KeysUpTo, ToSet
  <2> HIDE DEF Good
  <2> QED
    BY <1>1, <2>2
<1>4. ASSUME NEW k \in Nat, k \in T PROVE k + 1 \in T
  <2> SUFFICES ASSUME k + 1 <= Len(list) PROVE Good(h[k + 1], k + 1)
    OBVIOUS
  <2> DEFINE a == h[k]
             b == AddUnique(a, list[k + 1])
  <2>1. Good(a, k) /\ list[k + 1] \in Texts
    BY <1>2, <1>4
  <2>2. h[k + 1] = b
    BY <1>1, <1>2
  <2> HIDE DEF a
  <2>3. /\ b \in Seq(Trimmed) /\ DistinctBy(TextKeys, b)
        /\ KeysOf(TextKeys, b) = KeysOf(TextKeys, a) \cup ({Folded(Trim(list[k + 1]))} \ {<<>>})
    BY <2>1, AddUniqueStep
  <2> HIDE DEF b
  <2> QED
    BY <2>1, <2>2, <2>3, KeysGrow
<1>5. Len(list) \in T
  <2> HIDE DEF T
  <2> QED
    BY <1>2, <1>3, <1>4, Induction
<1>6. Good(r, Len(list))
  BY <1>1, <1>2, <1>5
<1>7. KeysUpTo(list, Len(list)) = keys
  BY <1>2 DEF KeysUpTo, ToSet
<1>8. Len(r) = Cardinality(keys)
  BY <1>6, <1>7, LengthByKeys
<1>9. {Folded(Trim(t)) : t \in ToSet(r)} = KeysOf(TextKeys, r)
  <2>1. ToSet(r) \subseteq Trimmed
    BY <1>6, EmptyTrimmed, Members
  <2>2. \A t \in ToSet(r) : TextKeys[t] = Folded(Trim(t))
    BY <2>1 DEF TextKeys, Trimmed
  <2> QED
    BY <2>2 DEF KeysOf
<1> HIDE DEF Good
<1>10. <<>> \notin keys
  OBVIOUS
<1> HIDE DEF keys
<1>11. {Folded(Trim(t)) : t \in ToSet(r)} \ {<<>>} = keys
  <2>1. KeysOf(TextKeys, r) = keys
    BY <1>6, <1>7 DEF Good
  <2> QED
    BY <1>9, <1>10, <2>1
<1> QED
  BY <1>8, <1>11 DEF r, keys

\* The URLs of the first k of a list that are wanted.
URLsUpTo(list, k, Wanted) == {list[i].url : i \in {j \in 1 .. k : j \in Wanted}} \ {<<>>}
ImagesOf(list) == {i \in DOMAIN list : IsImage(list[i])}
URLKeys(S) == [m \in S |-> m.url]

\* A medium is added unless it has no URL or its URL is listed already.
LEMMA AddByURLStep ==
    ASSUME NEW S, NEW a \in Seq(S), DistinctBy(URLKeys(S), a), NEW v \in S
    PROVE  LET b == AddByURL(a, v) IN
           /\ b \in Seq(S) /\ DistinctBy(URLKeys(S), b)
           /\ KeysOf(URLKeys(S), b) = KeysOf(URLKeys(S), a) \cup ({v.url} \ {<<>>})
<1> DEFINE K == URLKeys(S)
<1>1. K[v] = v.url /\ \A e \in ToSet(a) : e \in S /\ K[e] = e.url
  <2>1. ToSet(a) \subseteq S
    BY Members
  <2> QED
    BY <2>1 DEF URLKeys
<1> HIDE DEF K
<1>2. CASE v.url = <<>> \/ \E e \in ToSet(a) : e.url = v.url
  <2>1. AddByURL(a, v) = a
    BY <1>2 DEF AddByURL
  <2>2. v.url # <<>> => v.url \in KeysOf(K, a)
    BY <1>1, <1>2 DEF KeysOf
  <2>3. KeysOf(K, a) = KeysOf(K, a) \cup ({v.url} \ {<<>>})
    BY <2>2
  <2> QED
    BY <2>1, <2>3 DEF K
<1>3. CASE ~(v.url = <<>> \/ \E e \in ToSet(a) : e.url = v.url)
  <2>1. AddByURL(a, v) = Append(a, v)
    BY <1>3 DEF AddByURL
  <2>2. K[v] \notin KeysOf(K, a) /\ {v.url} \ {<<>>} = {K[v]}
    BY <1>1, <1>3 DEF KeysOf
  <2>3. DistinctBy(K, a)
    BY DEF K
  <2>4. /\ Append(a, v) \in Seq(S) /\ DistinctBy(K, Append(a, v))
        /\ KeysOf(K, Append(a, v)) = KeysOf(K, a) \cup {K[v]}
    BY <2>2, <2>3, AppendNew
  <2> QED
    BY <2>1, <2>2, <2>4 DEF K
<1> QED
  BY <1>2, <1>3

\* The URLs of the first k + 1 media.
LEMMA URLsGrow ==
    ASSUME NEW list, NEW W, NEW k \in Nat
    PROVE  URLsUpTo(list, k + 1, W) =
              IF k + 1 \in W THEN URLsUpTo(list, k, W) \cup ({list[k + 1].url} \ {<<>>})
                             ELSE URLsUpTo(list, k, W)
<1>1. {j \in 1 .. k + 1 : j \in W} =
         IF k + 1 \in W THEN {j \in 1 .. k : j \in W} \cup {k + 1} ELSE {j \in 1 .. k : j \in W}
  OBVIOUS
<1> QED
  BY <1>1 DEF URLsUpTo

\* The media and the images of a list have each URL once, and images are what is named as one.
LEMMA MediaAreListed ==
    ASSUME NEW V, NEW list \in Seq(V)
    PROVE  LET r == FoldLeft(AddMediaOrImage, [media |-> <<>>, images |-> <<>>], list)
               images == {m.url : m \in {m \in ToSet(list) : IsImage(m)}} \ {<<>>}
               media  == {m.url : m \in {m \in ToSet(list) : ~IsImage(m)}} \ {<<>>} IN
           /\ {m.url : m \in ToSet(r.images)} \ {<<>>} = images /\ Len(r.images) = Cardinality(images)
           /\ {m.url : m \in ToSet(r.media)} \ {<<>>} = media /\ Len(r.media) = Cardinality(media)
<1> DEFINE base == [media |-> <<>>, images |-> <<>>]
           r == FoldLeft(AddMediaOrImage, base, list)
           images == {m.url : m \in {m \in ToSet(list) : IsImage(m)}} \ {<<>>}
           media  == {m.url : m \in {m \in ToSet(list) : ~IsImage(m)}} \ {<<>>}
           M == {MediumOf(m) : m \in V}
           I == {ImageOf(m) : m \in V}
           MK == URLKeys(M)
           IK == URLKeys(I)
           W == ImagesOf(list)
           X == DOMAIN list \ W
<1>1. PICK h : /\ h[0] = base /\ h[Len(list)] = r
               /\ \A k \in 1 .. Len(list) : h[k] = AddMediaOrImage(h[k - 1], list[k])
  BY MediaFold
<1> HIDE DEF r, images, media, W, X, M, I
<1> DEFINE Good(a, k) ==
              /\ a \in [media : Seq(M), images : Seq(I)]
              /\ DistinctBy(MK, a.media) /\ DistinctBy(IK, a.images)
              /\ KeysOf(MK, a.media) = URLsUpTo(list, k, X)
              /\ KeysOf(IK, a.images) = URLsUpTo(list, k, W)
           T == {k \in Nat : k <= Len(list) => Good(h[k], k)}
<1>2. Len(list) \in Nat /\ DOMAIN list = 1 .. Len(list) /\ \A k \in DOMAIN list : list[k] \in V
  OBVIOUS
<1> HIDE DEF MK, IK
<1>3. 0 \in T
  <2>1. \A w : URLsUpTo(list, 0, w) = {}
    <3>1. \A w : {j \in 1 .. 0 : j \in w} = {}
      OBVIOUS
    <3> QED
      BY <3>1 DEF URLsUpTo
  <2>2. base \in [media : Seq(M), images : Seq(I)] /\ base.media = <<>> /\ base.images = <<>>
    OBVIOUS
  <2> HIDE DEF base
  <2>3. \A K : DistinctBy(K, <<>>) /\ KeysOf(K, <<>>) = {}
    BY DEF DistinctBy, KeysOf, ToSet
  <2>4. Good(base, 0)
    BY <2>1, <2>2, <2>3
  <2> HIDE DEF Good
  <2> QED
    BY <1>1, <2>4
<1> HIDE DEF base
<1>4. ASSUME NEW k \in Nat, k \in T PROVE k + 1 \in T
  <2> SUFFICES ASSUME k + 1 <= Len(list) PROVE Good(h[k + 1], k + 1)
    OBVIOUS
  <2> DEFINE a == h[k]
             v == list[k + 1]
  <2>1. Good(a, k) /\ v \in V /\ k + 1 \in DOMAIN list /\ (k + 1 \in W <=> IsImage(v)) /\ (k + 1 \in X <=> ~IsImage(v))
    BY <1>2, <1>4 DEF W, X, ImagesOf
  <2>2. h[k + 1] = AddMediaOrImage(a, v)
    BY <1>1, <1>2
  <2> HIDE DEF a
  <2>3. CASE IsImage(v)
    <3> DEFINE e == ImageOf(v)
               b == AddByURL(a.images, e)
    <3>1. e \in I /\ e.url = v.url
      BY <2>1 DEF I, ImageOf
    <3>2. AddMediaOrImage(a, v) = [a EXCEPT !.images = b]
      BY <2>3 DEF AddMediaOrImage, ImageOf
    <3> HIDE DEF e
    <3>3. /\ b \in Seq(I) /\ DistinctBy(IK, b)
          /\ KeysOf(IK, b) = KeysOf(IK, a.images) \cup ({v.url} \ {<<>>})
      BY <2>1, <3>1, AddByURLStep DEF IK
    <3> HIDE DEF b
    <3> DEFINE c == [a EXCEPT !.images = b]
    <3>4. c \in [media : Seq(M), images : Seq(I)] /\ c.images = b /\ c.media = a.media
      BY <2>1, <3>3
    <3>5. /\ URLsUpTo(list, k + 1, W) = URLsUpTo(list, k, W) \cup ({v.url} \ {<<>>})
          /\ URLsUpTo(list, k + 1, X) = URLsUpTo(list, k, X)
      BY <2>1, <2>3, URLsGrow
    <3>6. h[k + 1] = c
      BY <2>2, <3>2
    <3> HIDE DEF c, v
    <3>7. Good(c, k + 1)
      BY <2>1, <3>3, <3>4, <3>5
    <3> HIDE DEF Good
    <3> QED
      BY <3>6, <3>7
  <2>4. CASE ~IsImage(v)
    <3> DEFINE e == MediumOf(v)
               b == AddByURL(a.media, e)
    <3>1. e \in M /\ e.url = v.url
      BY <2>1 DEF M, MediumOf
    <3>2. AddMediaOrImage(a, v) = [a EXCEPT !.media = b]
      BY <2>4 DEF AddMediaOrImage, MediumOf
    <3> HIDE DEF e
    <3>3. /\ b \in Seq(M) /\ DistinctBy(MK, b)
          /\ KeysOf(MK, b) = KeysOf(MK, a.media) \cup ({v.url} \ {<<>>})
      BY <2>1, <3>1, AddByURLStep DEF MK
    <3> HIDE DEF b
    <3> DEFINE c == [a EXCEPT !.media = b]
    <3>4. c \in [media : Seq(M), images : Seq(I)] /\ c.media = b /\ c.images = a.images
      BY <2>1, <3>3
    <3>5. /\ URLsUpTo(list, k + 1, X) = URLsUpTo(list, k, X) \cup ({v.url} \ {<<>>})
          /\ URLsUpTo(list, k + 1, W) = URLsUpTo(list, k, W)
      BY <2>1, <2>4, URLsGrow
    <3>6. h[k + 1] = c
      BY <2>2, <3>2
    <3> HIDE DEF c, v
    <3>7. Good(c, k + 1)
      BY <2>1, <3>3, <3>4, <3>5
    <3> HIDE DEF Good
    <3> QED
      BY <3>6, <3>7
  <2> QED
    BY <2>3, <2>4
<1>5. Len(list) \in T
  <2> HIDE DEF T
  <2> QED
    BY <1>2, <1>3, <1>4, Induction
<1>6. Good(r, Len(list))
  BY <1>1, <1>2, <1>5
<1>7. URLsUpTo(list, Len(list), W) = images /\ URLsUpTo(list, Len(list), X) = media
  <2>1. \A w : {j \in 1 .. Len(list) : j \in w} = {j \in DOMAIN list : j \in w}
    BY <1>2
  <2>2. {list[i].url : i \in {j \in DOMAIN list : j \in W}} = {m.url : m \in {m \in ToSet(list) : IsImage(m)}}
    BY DEF W, ImagesOf, ToSet
  <2>3. {list[i].url : i \in {j \in DOMAIN list : j \in X}} = {m.url : m \in {m \in ToSet(list) : ~IsImage(m)}}
    BY DEF W, X, ImagesOf, ToSet
  <2> QED
    BY <2>1, <2>2, <2>3 DEF URLsUpTo, images, media
<1>8. Len(r.images) = Cardinality(images) /\ Len(r.media) = Cardinality(media)
  BY <1>6, <1>7, LengthByKeys
<1>9. /\ {m.url : m \in ToSet(r.images)} = images
      /\ {m.url : m \in ToSet(r.media)} = media
  <2>1. r.images \in Seq(I) /\ r.media \in Seq(M) /\ KeysOf(IK, r.images) = images /\ KeysOf(MK, r.media) = media
    BY <1>6, <1>7
  <2>2. ToSet(r.images) \subseteq I /\ ToSet(r.media) \subseteq M
    BY <2>1 DEF ToSet
  <2>3. (\A m \in ToSet(r.images) : IK[m] = m.url) /\ (\A m \in ToSet(r.media) : MK[m] = m.url)
    BY <2>2 DEF IK, MK, URLKeys
  <2> QED
    BY <2>1, <2>3 DEF KeysOf
<1>10. <<>> \notin images /\ <<>> \notin media
  BY DEF images, media
<1>11. {m.url : m \in ToSet(r.images)} \ {<<>>} = images /\ {m.url : m \in ToSet(r.media)} \ {<<>>} = media
  BY <1>9, <1>10
<1> QED
  BY <1>8, <1>11 DEF r, images, media, base

\* The entries of s are the first of the first k wanted ones of a list to name their URLs.
FirstsIn(list, k, Wanted, E, s) ==
    /\ \A e \in ToSet(s) : \E i \in 1 .. k :
          /\ i \in Wanted /\ e = E[list[i]]
          /\ \A j \in 1 .. i - 1 : j \in Wanted => list[j].url # list[i].url
    /\ \A j \in 1 .. k : j \in Wanted /\ list[j].url # <<>> =>
          \E e \in ToSet(s) : e.url = list[j].url

\* A medium that comes later does not replace the one that is listed under its URL.
LEMMA AddByURLKeepsFirst ==
    ASSUME NEW V, NEW S, NEW E \in [V -> S], \A m \in V : E[m].url = m.url,
           NEW list \in Seq(V), NEW W, NEW k \in Nat, k + 1 \in DOMAIN list,
           NEW s \in Seq(S), FirstsIn(list, k, W, E, s)
    PROVE  LET b == AddByURL(s, E[list[k + 1]]) IN
           /\ k + 1 \notin W => FirstsIn(list, k + 1, W, E, s)
           /\ k + 1 \in W => b \in Seq(S) /\ FirstsIn(list, k + 1, W, E, b)
<1> DEFINE v == E[list[k + 1]]
<1>1. /\ 1 .. k + 1 = (1 .. k) \cup {k + 1} /\ (k + 1) - 1 = k
      /\ v \in S /\ v.url = list[k + 1].url
  <2>1. list[k + 1] \in V
    OBVIOUS
  <2> QED
    BY <2>1
<1>2. ASSUME k + 1 \notin W PROVE FirstsIn(list, k + 1, W, E, s)
  BY <1>1, <1>2 DEF FirstsIn
<1>3. ASSUME k + 1 \in W PROVE AddByURL(s, v) \in Seq(S) /\ FirstsIn(list, k + 1, W, E, AddByURL(s, v))
  <2> HIDE DEF v
  <2>1. CASE v.url = <<>> \/ \E e \in ToSet(s) : e.url = v.url
    <3>1. AddByURL(s, v) = s
      BY <2>1 DEF AddByURL
    <3>2. FirstsIn(list, k + 1, W, E, s)
      BY <1>1, <2>1 DEF FirstsIn
    <3> QED
      BY <3>1, <3>2
  <2>2. CASE ~(v.url = <<>> \/ \E e \in ToSet(s) : e.url = v.url)
    <3>1. AddByURL(s, v) = Append(s, v) /\ Append(s, v) \in Seq(S)
      BY <1>1, <2>2 DEF AddByURL
    <3>2. ToSet(Append(s, v)) = ToSet(s) \cup {v}
      BY <1>1, Members
    <3>3. \A j \in 1 .. k : j \in W => list[j].url # list[k + 1].url
      BY <1>1, <2>2 DEF FirstsIn
    <3>4. \A e \in ToSet(s) \cup {v} : \E i \in 1 .. k + 1 :
             /\ i \in W /\ e = E[list[i]]
             /\ \A j \in 1 .. i - 1 : j \in W => list[j].url # list[i].url
      <4>1. v = E[list[k + 1]] /\ k + 1 \in 1 .. k + 1
        BY <1>1 DEF v
      <4> QED
        BY <1>1, <1>3, <3>3, <4>1 DEF FirstsIn
    <3>5. \A j \in 1 .. k + 1 : j \in W /\ list[j].url # <<>> =>
             \E e \in ToSet(s) \cup {v} : e.url = list[j].url
      BY <1>1 DEF FirstsIn
    <3> QED
      BY <3>1, <3>2, <3>4, <3>5 DEF FirstsIn
  <2> QED
    BY <2>1, <2>2
<1> QED
  BY <1>2, <1>3

\* What a list of media says of a URL is what the first of its sort to name it says.
LEMMA FirstMediaAreListed ==
    ASSUME NEW V, NEW list \in Seq(V)
    PROVE  LET r == FoldLeft(AddMediaOrImage, [media |-> <<>>, images |-> <<>>], list) IN
           /\ \A e \in ToSet(r.images) : \E i \in DOMAIN list :
                 IsImage(list[i]) /\ e = ImageOf(list[i]) /\ NamesFirst(list, i)
           /\ \A e \in ToSet(r.media) : \E i \in DOMAIN list :
                 ~IsImage(list[i]) /\ e = MediumOf(list[i]) /\ NamesFirst(list, i)
<1> DEFINE base == [media |-> <<>>, images |-> <<>>]
           r == FoldLeft(AddMediaOrImage, base, list)
           OfMedium == [m \in V |-> MediumOf(m)]
           OfImage == [m \in V |-> ImageOf(m)]
           M == {MediumOf(m) : m \in V}
           I == {ImageOf(m) : m \in V}
           W == ImagesOf(list)
           X == DOMAIN list \ W
<1>1. PICK h : /\ h[0] = base /\ h[Len(list)] = r
               /\ \A k \in 1 .. Len(list) : h[k] = AddMediaOrImage(h[k - 1], list[k])
  BY MediaFold
<1>2. Len(list) \in Nat /\ DOMAIN list = 1 .. Len(list) /\ \A k \in DOMAIN list : list[k] \in V
  OBVIOUS
<1>3. /\ OfMedium \in [V -> M] /\ OfImage \in [V -> I]
      /\ \A m \in V : OfMedium[m] = MediumOf(m) /\ OfImage[m] = ImageOf(m)
  OBVIOUS
<1>4. (\A m \in V : OfMedium[m].url = m.url) /\ (\A m \in V : OfImage[m].url = m.url)
  BY <1>3 DEF MediumOf, ImageOf
<1> HIDE DEF r, W, X, M, I, OfMedium, OfImage
<1> DEFINE Good(a, k) == /\ a \in [media : Seq(M), images : Seq(I)]
                         /\ FirstsIn(list, k, W, OfImage, a.images)
                         /\ FirstsIn(list, k, X, OfMedium, a.media)
           T == {k \in Nat : k <= Len(list) => Good(h[k], k)}
<1>5. 0 \in T
  <2>1. \A w, f : FirstsIn(list, 0, w, f, <<>>)
    BY DEF FirstsIn, ToSet
  <2>2. base \in [media : Seq(M), images : Seq(I)] /\ base.media = <<>> /\ base.images = <<>>
    OBVIOUS
  <2> HIDE DEF base
  <2>3. Good(base, 0)
    BY <2>1, <2>2
  <2> HIDE DEF Good
  <2> QED
    BY <1>1, <2>3
<1> HIDE DEF base
<1>6. ASSUME NEW k \in Nat, k \in T PROVE k + 1 \in T
  <2> SUFFICES ASSUME k + 1 <= Len(list) PROVE Good(h[k + 1], k + 1)
    OBVIOUS
  <2> DEFINE a == h[k]
             v == list[k + 1]
  <2>1. /\ Good(a, k) /\ v \in V /\ k + 1 \in DOMAIN list
        /\ (k + 1 \in W <=> IsImage(v)) /\ (k + 1 \in X <=> ~IsImage(v))
    BY <1>2, <1>6 DEF W, X, ImagesOf
  <2>2. h[k + 1] = AddMediaOrImage(a, v)
    BY <1>1, <1>2
  <2> HIDE DEF a
  <2>3. /\ k + 1 \notin W => FirstsIn(list, k + 1, W, OfImage, a.images)
        /\ k + 1 \in W => /\ AddByURL(a.images, OfImage[v]) \in Seq(I)
                          /\ FirstsIn(list, k + 1, W, OfImage, AddByURL(a.images, OfImage[v]))
    BY <1>3, <1>4, <2>1, AddByURLKeepsFirst
  <2>4. /\ k + 1 \notin X => FirstsIn(list, k + 1, X, OfMedium, a.media)
        /\ k + 1 \in X => /\ AddByURL(a.media, OfMedium[v]) \in Seq(M)
                          /\ FirstsIn(list, k + 1, X, OfMedium, AddByURL(a.media, OfMedium[v]))
    BY <1>3, <1>4, <2>1, AddByURLKeepsFirst
  <2>5. CASE IsImage(v)
    <3>1. AddMediaOrImage(a, v) = [a EXCEPT !.images = AddByURL(a.images, OfImage[v])]
      BY <1>3, <2>1, <2>5 DEF AddMediaOrImage, ImageOf
    <3> QED
      BY <2>1, <2>2, <2>3, <2>4, <2>5, <3>1
  <2>6. CASE ~IsImage(v)
    <3>1. AddMediaOrImage(a, v) = [a EXCEPT !.media = AddByURL(a.media, OfMedium[v])]
      BY <1>3, <2>1, <2>6 DEF AddMediaOrImage, MediumOf
    <3> QED
      BY <2>1, <2>2, <2>3, <2>4, <2>6, <3>1
  <2> QED
    BY <2>5, <2>6
<1>7. Len(list) \in T
  <2> HIDE DEF T
  <2> QED
    BY <1>2, <1>5, <1>6, Induction
<1>8. FirstsIn(list, Len(list), W, OfImage, r.images) /\ FirstsIn(list, Len(list), X, OfMedium, r.media)
  BY <1>1, <1>2, <1>7
<1>9. \A i \in DOMAIN list : (i \in W <=> IsImage(list[i])) /\ (i \in X <=> ~IsImage(list[i]))
  BY DEF W, X, ImagesOf
<1>10. \A i \in DOMAIN list : \A j \in 1 .. i - 1 : j \in DOMAIN list
  BY <1>2
<1>11. \A e \in ToSet(r.images) : \E i \in DOMAIN list :
          IsImage(list[i]) /\ e = ImageOf(list[i]) /\ NamesFirst(list, i)
  <2> TAKE e \in ToSet(r.images)
  <2>1. PICK i \in DOMAIN list :
           /\ i \in W /\ e = OfImage[list[i]]
           /\ \A j \in 1 .. i - 1 : j \in W => list[j].url # list[i].url
    BY <1>2, <1>8 DEF FirstsIn
  <2>2. IsImage(list[i]) /\ e = ImageOf(list[i])
    BY <1>2, <1>3, <1>9, <2>1
  <2>3. NamesFirst(list, i)
    BY <1>9, <1>10, <2>1, <2>2 DEF NamesFirst
  <2> QED
    BY <2>2, <2>3
<1>12. \A e \in ToSet(r.media) : \E i \in DOMAIN list :
          ~IsImage(list[i]) /\ e = MediumOf(list[i]) /\ NamesFirst(list, i)
  <2> TAKE e \in ToSet(r.media)
  <2>1. PICK i \in DOMAIN list :
           /\ i \in X /\ e = OfMedium[list[i]]
           /\ \A j \in 1 .. i - 1 : j \in X => list[j].url # list[i].url
    BY <1>2, <1>8 DEF FirstsIn
  <2>2. ~IsImage(list[i]) /\ e = MediumOf(list[i])
    BY <1>2, <1>3, <1>9, <2>1
  <2>3. NamesFirst(list, i)
    BY <1>9, <1>10, <2>1, <2>2 DEF NamesFirst
  <2> QED
    BY <2>2, <2>3
<1> QED
  BY <1>11, <1>12 DEF r, base

\* The turns of the fold over the elements with keywords.
LEMMA TagsFold ==
    ASSUME tree \in Seq(Node), NEW item
    PROVE  \E h : /\ h[0] = <<>> /\ h[Len(Children(item, "keywords"))] = RSSKeywords(item)
                  /\ \A k \in 1 .. Len(Children(item, "keywords")) : h[k] = h[k - 1] \o Split(Value(Children(item, "keywords")[k]))
<1> DEFINE n == Len(Children(item, "keywords"))  seq == Children(item, "keywords")  A == Seq(Texts)
           Turn(a, v) == a \o Split(Value(v))
           g == [p \in A \X (DOMAIN tree) |-> Turn(p[1], p[2])]
           Body(f) == [s \in SUBSET (1 .. n) |->
                          IF s = {} THEN <<>> ELSE Turn(f[s \ {Max(s)}], seq[Max(s)])]
           c == CHOOSE f : f = Body(f)
           h == [k \in 0 .. n |-> c[1 .. k]]
<1>1. <<>> \in A /\ n \in Nat /\ DOMAIN seq = 1 .. n /\ seq \in [1 .. n -> (DOMAIN tree)]
  BY ChildrenTyped
<1>2. ASSUME NEW a \in A, NEW v \in (DOMAIN tree) PROVE Turn(a, v) \in A
  BY ValueTyped, SplitTyped DEF Trimmed
<1>3. RSSKeywords(item) = c[1 .. n]
  BY <1>1 DEF RSSKeywords, FoldLeft, MapThenFoldSet
<1> HIDE DEF Turn, A, n, seq
<1>4. g \in [A \X (DOMAIN tree) -> A]
  BY <1>2
<1> HIDE DEF g
<1>5. PICK f : Solves(f, A, g, <<>>, seq, n)
  BY <1>1, <1>4, FoldExists
<1>6. f = Body(f)
  <2>1. ASSUME NEW s \in SUBSET (1 .. n), s # {}
        PROVE  g[<<f[s \ {Max(s)}], seq[Max(s)]>>] = Turn(f[s \ {Max(s)}], seq[Max(s)])
    <3>1. Max(s) \in 1 .. n /\ s \ {Max(s)} \in SUBSET (1 .. n)
      BY <1>1, <2>1, MaxExists
    <3>2. <<f[s \ {Max(s)}], seq[Max(s)]>> \in A \X (DOMAIN tree)
      BY <1>1, <1>5, <3>1 DEF Solves
    <3> QED
      BY <3>2 DEF g
  <2>2. f = [s \in SUBSET (1 .. n) |-> f[s]] /\ \A s \in SUBSET (1 .. n) : f[s] = Body(f)[s]
    BY <1>5, <2>1 DEF Solves
  <2> QED
    BY <2>2
<1>7. c = Body(c)
  <2> HIDE DEF Body
  <2> QED
    BY <1>6
<1> HIDE DEF c
<1>8. h[0] = <<>>
  <2>1. 1 .. 0 = {}
    OBVIOUS
  <2> QED
    BY <1>1, <1>7, <2>1
<1>9. ASSUME NEW k \in 1 .. n PROVE h[k] = Turn(h[k - 1], seq[k])
  <2>1. k \in Nat \ {0} /\ k \in 0 .. n /\ k - 1 \in 0 .. n /\ 1 .. k \in SUBSET (1 .. n)
    BY <1>1
  <2>2. (1 .. k) \ {k} = 1 .. k - 1 /\ Max(1 .. k) = k /\ 1 .. k # {}
    BY <2>1, FirstNumbers
  <2>3. h[k] = c[1 .. k] /\ h[k - 1] = c[1 .. k - 1]
    BY <2>1
  <2> HIDE DEF h
  <2>4. c[1 .. k] = Turn(c[(1 .. k) \ {Max(1 .. k)}], seq[Max(1 .. k)])
    BY <1>7, <2>1, <2>2
  <2> QED
    BY <2>2, <2>3, <2>4
<1>10. h[n] = RSSKeywords(item)
  BY <1>1, <1>3
<1> HIDE DEF h
<1> QED
  BY <1>8, <1>9, <1>10 DEF n, seq, Turn

\* The lists that the loops over the children of an item visit are lists of texts.
LEMMA RSSListsTyped ==
    ASSUME tree \in Seq(Node), NEW item
    PROVE  RSSCategories(item) \in Seq(Texts) /\ RSSTags(item) \in Seq(Texts)
<1>1. ASSUME NEW l PROVE Mapped(Value, Children(item, l)) \in Seq(Texts)
  <2> DEFINE s == Children(item, l)
  <2>1. s \in Seq(DOMAIN tree)
    BY ChildrenTyped
  <2>2. \A i \in DOMAIN s : Value(s[i]) \in Texts
    BY <2>1, ValueTyped DEF Trimmed
  <2> HIDE DEF s
  <2>3. [i \in DOMAIN s |-> Value(s[i])] \in Seq(Texts)
    BY <2>1, <2>2
  <2> QED
    BY <2>3 DEF Mapped, s
<1>2. RSSKeywords(item) \in Seq(Texts)
  <2> DEFINE s == Children(item, "keywords")
  <2>1. PICK h : /\ h[0] = <<>> /\ h[Len(s)] = RSSKeywords(item)
                 /\ \A k \in 1 .. Len(s) : h[k] = h[k - 1] \o Split(Value(s[k]))
    BY TagsFold
  <2> DEFINE T == {k \in Nat : k <= Len(s) => h[k] \in Seq(Texts)}
  <2>2. s \in Seq(DOMAIN tree)
    BY ChildrenTyped
  <2> HIDE DEF s
  <2>3. Len(s) \in Nat /\ \A k \in 1 .. Len(s) : s[k] \in DOMAIN tree
    BY <2>2
  <2>4. 0 \in T
    <3>1. <<>> \in Seq(Texts)
      OBVIOUS
    <3> QED
      BY <2>1, <3>1
  <2>5. ASSUME NEW k \in Nat, k \in T PROVE k + 1 \in T
    <3> SUFFICES ASSUME k + 1 <= Len(s) PROVE h[k + 1] \in Seq(Texts)
      OBVIOUS
    <3>1. h[k] \in Seq(Texts) /\ k + 1 \in 1 .. Len(s) /\ (k + 1) - 1 = k
      BY <2>3, <2>5
    <3>2. h[k + 1] = h[k] \o Split(Value(s[k + 1])) /\ s[k + 1] \in DOMAIN tree
      BY <2>1, <2>3, <3>1, Zenon
    <3>3. Split(Value(s[k + 1])) \in Seq(Texts)
      BY <3>2, ValueTyped, SplitTyped DEF Trimmed
    <3> QED
      BY <3>1, <3>2, <3>3
  <2>6. Len(s) \in T
    <3> HIDE DEF T
    <3> QED
      BY <2>3, <2>4, <2>5, Induction
  <2> QED
    BY <2>1, <2>3, <2>6
<1>3. RSSCategories(item) \in Seq(Texts)
  BY <1>1 DEF RSSCategories
<1>4. RSSTags(item) \in Seq(Texts)
  BY <1>1, <1>2 DEF RSSTags
<1> QED
  BY <1>3, <1>4

\* The categories of an entry are texts.
LEMMA AtomCategoriesTyped ==
    ASSUME tree \in Seq(Node), NEW entry
    PROVE  AtomCategories(entry) \in Seq(Texts)
<1> DEFINE s == Children(entry, "category")
           V(c) == FirstNonEmpty(<<Attr(c, "term"), Value(c)>>)
<1>1. s \in Seq(DOMAIN tree)
  BY ChildrenTyped
<1>2. ASSUME NEW c \in DOMAIN tree PROVE V(c) \in Texts
  <2>1. Attr(c, "term") \in Trimmed /\ Value(c) \in Trimmed
    BY AttrTyped, ValueTyped
  <2> QED
    BY <2>1, FirstOfTwo DEF Trimmed
<1> HIDE DEF V
<1>3. \A i \in DOMAIN s : V(s[i]) \in Texts
  BY <1>1, <1>2
<1> HIDE DEF s
<1>4. [i \in DOMAIN s |-> V(s[i])] \in Seq(Texts)
  BY <1>1, <1>3
<1> QED
  BY <1>4 DEF AtomCategories, Mapped, s, V

\* What the loops over the media visit are finite lists.
LEMMA MediaTyped ==
    ASSUME tree \in Seq(Node), NEW item
    PROVE  (\E V : RSSMedia(item) \in Seq(V)) /\ (\E V : AtomMedia(item) \in Seq(V))
<1> DEFINE e == Children(item, "enclosure")  c == Children(item, "content")  t == Children(item, "thumbnail")
           l == InOrder({l \in Named(item, "link") : Rel(l) = <<"enclosure">>})
           N == DOMAIN tree
           A == {Enclosed(n, "url") : n \in N}  B == {Described(n) : n \in N}  C == {Thumbnail(n) : n \in N}
           D == {Enclosed(n, "href") : n \in N}
           V == A \cup B \cup C
           F(n) == Enclosed(n, "url")
           me == [i \in DOMAIN e |-> F(e[i])]
           mc == [i \in DOMAIN c |-> Described(c[i])]
           mt == [i \in DOMAIN t |-> Thumbnail(t[i])]
           ml == [i \in DOMAIN l |-> Enclosed(l[i], "href")]
<1>1. e \in Seq(N) /\ c \in Seq(N) /\ t \in Seq(N)
  BY ChildrenTyped
<1>2. l \in Seq(N)
  BY InOrderIs
<1>3. RSSMedia(item) = me \o mc \o mt /\ AtomMedia(item) = ml
  BY DEF RSSMedia, AtomMedia, Mapped
<1> HIDE DEF e, c, t, l, N
<1>4. \A i \in DOMAIN e : e[i] \in N
  BY <1>1
<1>5. \A i \in DOMAIN c : c[i] \in N
  BY <1>1
<1>6. \A i \in DOMAIN t : t[i] \in N
  BY <1>1
<1>7. \A i \in DOMAIN l : l[i] \in N
  BY <1>2
<1>8. me \in Seq(V)
  <2>1. \A i \in DOMAIN e : F(e[i]) \in V
    BY <1>4
  <2> HIDE DEF V, F
  <2>2. DOMAIN me = 1 .. Len(e) /\ Len(e) \in Nat
    BY <1>1
  <2>3. me \in [1 .. Len(e) -> V]
    BY <2>1, <2>2
  <2> HIDE DEF me
  <2> QED
    BY <2>2, <2>3
<1>9. mc \in Seq(V)
  <2>1. \A i \in DOMAIN c : Described(c[i]) \in V
    BY <1>5
  <2> HIDE DEF V
  <2> QED
    BY <1>1, <2>1
<1>10. mt \in Seq(V)
  <2>1. \A i \in DOMAIN t : Thumbnail(t[i]) \in V
    BY <1>6
  <2> HIDE DEF V
  <2> QED
    BY <1>1, <2>1
<1>11. ml \in Seq(D)
  <2>1. \A i \in DOMAIN l : Enclosed(l[i], "href") \in D
    BY <1>7
  <2> HIDE DEF D
  <2> QED
    BY <1>2, <2>1
<1> HIDE DEF V, D, me, mc, mt, ml
<1>12. me \o mc \o mt \in Seq(V)
  BY <1>8, <1>9, <1>10
<1> QED
  BY <1>3, <1>11, <1>12

-------------------------------------------------------------------------------
(* The articles. *)

\* What ListsAreComplete says of the lists of an article.
Complete(c, t, r, categories, tags, named) ==
    LET Keys(list) == {Folded(Trim(x)) : x \in ToSet(list)} \ {<<>>}
        URLs(media) == {m.url : m \in media} \ {<<>>} IN
    /\ Keys(c) = Keys(categories)
    /\ Keys(t) = Keys(tags)
    /\ URLs(ToSet(r.images)) = URLs({m \in ToSet(named) : IsImage(m)})
    /\ URLs(ToSet(r.media)) = URLs({m \in ToSet(named) : ~IsImage(m)})
    /\ Len(c) = Cardinality(Keys(categories))
    /\ Len(t) = Cardinality(Keys(tags))
    /\ Len(r.images) = Cardinality(URLs(ToSet(r.images)))
    /\ Len(r.media) = Cardinality(URLs(ToSet(r.media)))
    /\ \A e \in ToSet(r.images) : \E i \in DOMAIN named :
          IsImage(named[i]) /\ NamesFirst(named, i) /\ e = ImageOf(named[i])
    /\ \A e \in ToSet(r.media) : \E i \in DOMAIN named :
          ~IsImage(named[i]) /\ NamesFirst(named, i) /\ e = MediumOf(named[i])

\* The lists that are made from texts and media are complete.
LEMMA ListedIsComplete ==
    ASSUME NEW categories \in Seq(Texts), NEW tags \in Seq(Texts), NEW V, NEW named \in Seq(V)
    PROVE  LET l == Listed(categories, tags, named) IN
           Complete(l.categories, l.tags, l.attached, categories, tags, named)
<1> DEFINE c == FoldLeft(AddUnique, <<>>, categories)
           t == FoldLeft(AddUnique, <<>>, tags)
           r == FoldLeft(AddMediaOrImage, [media |-> <<>>, images |-> <<>>], named)
           Keys(list) == {Folded(Trim(x)) : x \in ToSet(list)} \ {<<>>}
           URLs(media) == {m.url : m \in media} \ {<<>>}
<1>1. Listed(categories, tags, named) = [categories |-> c, tags |-> t, attached |-> r]
  BY DEF Listed
<1>2. Keys(c) = Keys(categories) /\ Len(c) = Cardinality(Keys(categories))
  BY TextsAreListed
<1>3. Keys(t) = Keys(tags) /\ Len(t) = Cardinality(Keys(tags))
  BY TextsAreListed
<1>4. /\ URLs(ToSet(r.images)) = URLs({m \in ToSet(named) : IsImage(m)})
      /\ URLs(ToSet(r.media)) = URLs({m \in ToSet(named) : ~IsImage(m)})
      /\ Len(r.images) = Cardinality(URLs(ToSet(r.images)))
      /\ Len(r.media) = Cardinality(URLs(ToSet(r.media)))
  BY MediaAreListed
<1>5. /\ \A e \in ToSet(r.images) : \E i \in DOMAIN named :
            IsImage(named[i]) /\ NamesFirst(named, i) /\ e = ImageOf(named[i])
      /\ \A e \in ToSet(r.media) : \E i \in DOMAIN named :
            ~IsImage(named[i]) /\ NamesFirst(named, i) /\ e = MediumOf(named[i])
  BY FirstMediaAreListed
<1> HIDE DEF c, t, r
<1>6. Complete(c, t, r, categories, tags, named)
  BY <1>2, <1>3, <1>4, <1>5, Zenon DEF Complete
<1> QED
  BY <1>1, <1>6

-------------------------------------------------------------------------------
(* The warnings are counted. *)

\* One more of them.
LEMMA CountAppended ==
    ASSUME NEW S, NEW s \in Seq(S), NEW x \in S, NEW e
    PROVE  /\ Count(s, e) \in Nat
           /\ Count(Append(s, x), e) = Count(s, e) + IF x = e THEN 1 ELSE 0
<1> DEFINE old == {i \in DOMAIN s : s[i] = e}
           a == Append(s, x)
           new == {i \in DOMAIN a : a[i] = e}
<1>1. DOMAIN s = 1 .. Len(s) /\ Len(s) \in Nat
  OBVIOUS
<1>2. IsFiniteSet(old) /\ Cardinality(old) \in Nat
  <2>1. old \subseteq 1 .. Len(s) /\ IsFiniteSet(1 .. Len(s))
    BY <1>1, FS_Interval
  <2> QED
    BY <2>1, FS_Subset, FS_CardinalityType
<1>3. DOMAIN a = DOMAIN s \cup {Len(s) + 1} /\ a[Len(s) + 1] = x /\ \A i \in DOMAIN s : a[i] = s[i]
  OBVIOUS
<1> HIDE DEF a
<1>4. new = IF x = e THEN old \cup {Len(s) + 1} ELSE old
  BY <1>3
<1>5. Len(s) + 1 \notin old
  BY <1>1
<1> HIDE DEF old, new
<1>6. Cardinality(new) = Cardinality(old) + IF x = e THEN 1 ELSE 0
  <2>1. Cardinality(old \cup {Len(s) + 1}) = Cardinality(old) + 1
    BY <1>2, <1>5, FS_AddElement
  <2> QED
    BY <1>2, <1>4, <2>1
<1>7. Count(s, e) = Cardinality(old) /\ Count(a, e) = Cardinality(new)
  BY DEF Count, old, new
<1> QED
  BY <1>2, <1>6, <1>7 DEF a

\* One more, or none.
LEMMA CountOptional ==
    ASSUME NEW S, NEW s \in Seq(S), NEW x \in S, NEW cond \in BOOLEAN, NEW w,
           w = IF cond THEN <<x>> ELSE <<>>
    PROVE  /\ s \o w \in Seq(S) /\ \A e : Count(s, e) \in Nat
           /\ \A e : Count(s \o w, e) = Count(s, e) + IF cond /\ x = e THEN 1 ELSE 0
<1>1. CASE cond
  <2>1. s \o w = Append(s, x)
    BY <1>1
  <2>2. Append(s, x) \in Seq(S)
    OBVIOUS
  <2>3. ASSUME NEW e
        PROVE  Count(s, e) \in Nat /\ Count(s \o w, e) = Count(s, e) + IF cond /\ x = e THEN 1 ELSE 0
    <3>1. Count(s, e) \in Nat /\ Count(Append(s, x), e) = Count(s, e) + IF x = e THEN 1 ELSE 0
      BY CountAppended
    <3> QED
      BY <1>1, <2>1, <3>1
  <2> QED
    BY <2>1, <2>2, <2>3
<1>2. CASE ~cond
  <2>1. s \o w = s
    BY <1>2
  <2>2. \A e : Count(s, e) \in Nat
    BY CountAppended
  <2> QED
    BY <1>2, <2>1, <2>2
<1> QED
  BY <1>1, <1>2

Undated(text) == text # <<>> /\ ParseDate(text) = NoTime

\* What the dates of an item add to the warnings.
LEMMA WarnedCounts ==
    ASSUME NEW s \in Seq(ItemWarnings), NEW a
    PROVE  /\ s \o Warned(a) \in Seq(ItemWarnings)
           /\ Count(s, "skipped") \in Nat /\ Count(s, "published") \in Nat
           /\ Count(s \o Warned(a), "skipped") = Count(s, "skipped")
           /\ Count(s \o Warned(a), "published") =
                 Count(s, "published") + IF Undated(a.published) THEN 1 ELSE 0
<1> DEFINE p == DateWarning(a.published, "published")
           u == DateWarning(a.updated, "updated")
           q == s \o p
<1>1. p = (IF Undated(a.published) THEN <<"published">> ELSE <<>>) /\ Undated(a.published) \in BOOLEAN
  BY DEF DateWarning, Undated
<1>2. u = (IF Undated(a.updated) THEN <<"updated">> ELSE <<>>) /\ Undated(a.updated) \in BOOLEAN
  BY DEF DateWarning, Undated
<1>3. "published" \in ItemWarnings /\ "updated" \in ItemWarnings
  BY DEF ItemWarnings
<1>4. p \in Seq(ItemWarnings) /\ u \in Seq(ItemWarnings)
  <2>1. \A x \in ItemWarnings : <<x>> \in Seq(ItemWarnings) /\ <<>> \in Seq(ItemWarnings)
    OBVIOUS
  <2> HIDE DEF p, u
  <2>2. <<"published">> \in Seq(ItemWarnings) /\ <<"updated">> \in Seq(ItemWarnings) /\ <<>> \in Seq(ItemWarnings)
    BY <1>3, <2>1
  <2> QED
    BY <1>1, <1>2, <2>2
<1>5. Warned(a) = p \o u
  BY DEF Warned
<1> HIDE DEF p, u
<1>6. s \o Warned(a) = q \o u
  BY <1>4, <1>5
<1>7. /\ q \in Seq(ItemWarnings) /\ \A e : Count(s, e) \in Nat
      /\ \A e : Count(q, e) = Count(s, e) + IF Undated(a.published) /\ "published" = e THEN 1 ELSE 0
  BY <1>1, <1>3, CountOptional
<1> HIDE DEF q
<1>8. /\ q \o u \in Seq(ItemWarnings) /\ \A e : Count(q, e) \in Nat
      /\ \A e : Count(q \o u, e) = Count(q, e) + IF Undated(a.updated) /\ "updated" = e THEN 1 ELSE 0
  BY <1>2, <1>3, <1>7, CountOptional
<1>9. /\ Count(s, "skipped") \in Nat /\ Count(s, "published") \in Nat
      /\ Count(q, "skipped") = Count(s, "skipped")
      /\ Count(q, "published") = Count(s, "published") + IF Undated(a.published) THEN 1 ELSE 0
  BY <1>7
<1>10. /\ Count(q \o u, "skipped") = Count(q, "skipped")
       /\ Count(q \o u, "published") = Count(q, "published")
  BY <1>8
<1> QED
  BY <1>6, <1>8, <1>9, <1>10

FirstOf(k, W) == {i \in 1 .. k : i \in W}

\* The first k + 1 numbers of a set.
LEMMA FirstOfGrows ==
    ASSUME NEW W, NEW k \in Nat
    PROVE  /\ Cardinality(FirstOf(0, W)) = 0 /\ FirstOf(0, W) = {}
           /\ FirstOf(k + 1, W) = IF k + 1 \in W THEN FirstOf(k, W) \cup {k + 1} ELSE FirstOf(k, W)
           /\ Cardinality(FirstOf(k, W)) \in Nat
           /\ Cardinality(FirstOf(k + 1, W)) =
                 Cardinality(FirstOf(k, W)) + IF k + 1 \in W THEN 1 ELSE 0
<1>1. IsFiniteSet(FirstOf(k, W)) /\ Cardinality(FirstOf(k, W)) \in Nat
  <2>1. FirstOf(k, W) \subseteq 1 .. k /\ IsFiniteSet(1 .. k)
    BY FS_Interval DEF FirstOf
  <2> QED
    BY <2>1, FS_Subset, FS_CardinalityType
<1>2. /\ FirstOf(k + 1, W) = IF k + 1 \in W THEN FirstOf(k, W) \cup {k + 1} ELSE FirstOf(k, W)
      /\ k + 1 \notin FirstOf(k, W) /\ FirstOf(0, W) = {}
  BY DEF FirstOf
<1>3. Cardinality(FirstOf(k + 1, W)) = Cardinality(FirstOf(k, W)) + IF k + 1 \in W THEN 1 ELSE 0
  <2>1. Cardinality(FirstOf(k, W) \cup {k + 1}) = Cardinality(FirstOf(k, W)) + 1
    BY <1>1, <1>2, FS_AddElement
  <2> QED
    BY <1>1, <1>2, <2>1
<1> QED
  BY <1>1, <1>2, <1>3, FS_EmptySet

\* The image of a set under a function that keeps it apart.
LEMMA ImageCardinality ==
    ASSUME NEW S, IsFiniteSet(S), NEW f, \A i, j \in S : f[i] = f[j] => i = j
    PROVE  Cardinality({f[i] : i \in S}) = Cardinality(S)
<1> DEFINE R == {f[i] : i \in S}
           g == [i \in S |-> f[i]]
<1>1. g \in Bijection(S, R)
  <2>1. g \in [S -> R]
    OBVIOUS
  <2>2. \A i, j \in S : g[i] = g[j] => i = j
    OBVIOUS
  <2>3. \A r \in R : \E i \in S : g[i] = r
    OBVIOUS
  <2> HIDE DEF g, R
  <2> QED
    BY <2>1, <2>2, <2>3 DEF Bijection, Injection, IsInjective, Surjection
<1> HIDE DEF R, g
<1>2. Cardinality(R) = Cardinality(S)
  BY <1>1, FS_Bijection DEF ExistsBijection
<1> QED
  BY <1>2 DEF R

-------------------------------------------------------------------------------
(* The loop over the items. *)

EmptyOnes(list) == {i \in DOMAIN list : IsEmpty(list[i])}
FullOnes(list) == {i \in DOMAIN list : ~IsEmpty(list[i])}
UndatedOnes(list) == {i \in DOMAIN list : Undated(list[i].published)}

\* After k items.
Accounted(p, feed, list, k) ==
    /\ p \in [feed : {feed}, articles : Seq({Dated(a) : a \in ToSet(list)}), warnings : Seq(ItemWarnings)]
    /\ ToSet(p.articles) = {Dated(list[i]) : i \in FirstOf(k, FullOnes(list))}
    /\ \A i, j \in DOMAIN p.articles : i < j => p.articles[i].element < p.articles[j].element
    /\ Count(p.warnings, "skipped") = Cardinality(FirstOf(k, EmptyOnes(list)))
    /\ Count(p.warnings, "published") = Cardinality(FirstOf(k, UndatedOnes(list)))

\* One more item.
LEMMA AddArticleStep ==
    ASSUME NEW feed, NEW V, NEW list \in Seq(V),
           \A i \in DOMAIN list : list[i].element \in Nat /\ Dated(list[i]).element = list[i].element,
           \A i, j \in DOMAIN list : i < j => list[i].element < list[j].element,
           NEW k \in Nat, k + 1 <= Len(list), NEW p, Accounted(p, feed, list, k)
    PROVE  Accounted(AddArticle(p, list[k + 1]), feed, list, k + 1)
<1> DEFINE a == list[k + 1]
           d == Dated(a)
           E == {Dated(b) : b \in ToSet(list)}
           q == [feed |-> p.feed,
                 articles |-> IF IsEmpty(a) THEN p.articles ELSE Append(p.articles, d),
                 warnings |-> IF IsEmpty(a) THEN p.warnings \o Warned(a) \o <<"skipped">>
                                            ELSE p.warnings \o Warned(a)]
<1>1. p \in [feed : {feed}, articles : Seq(E), warnings : Seq(ItemWarnings)]
  BY DEF Accounted
<1>2. AddArticle(p, a) = q
  <2> HIDE DEF E, a
  <2> QED
    BY <1>1, AddArticleIs
<1>3. k + 1 \in DOMAIN list /\ d \in E /\ DOMAIN list = 1 .. Len(list) /\ Len(list) \in Nat
  BY DEF ToSet
<1>4. /\ k + 1 \in EmptyOnes(list) <=> IsEmpty(a)
      /\ k + 1 \in FullOnes(list) <=> ~IsEmpty(a)
      /\ k + 1 \in UndatedOnes(list) <=> Undated(a.published)
  BY <1>3 DEF EmptyOnes, FullOnes, UndatedOnes
<1> DEFINE s == p.warnings
           w == s \o Warned(a)
<1>5. s \in Seq(ItemWarnings) /\ p.articles \in Seq(E) /\ p.feed = feed
  BY <1>1
<1>6. /\ w \in Seq(ItemWarnings)
      /\ Count(s, "skipped") \in Nat /\ Count(s, "published") \in Nat
      /\ Count(w, "skipped") = Count(s, "skipped")
      /\ Count(w, "published") = Count(s, "published") + IF Undated(a.published) THEN 1 ELSE 0
  BY <1>5, WarnedCounts
<1>7. /\ w \o <<"skipped">> \in Seq(ItemWarnings)
      /\ Count(w \o <<"skipped">>, "skipped") = Count(s, "skipped") + 1
      /\ Count(w \o <<"skipped">>, "published") = Count(w, "published")
  <2> HIDE DEF w, s
  <2>1. "skipped" \in ItemWarnings /\ w \o <<"skipped">> = Append(w, "skipped")
    BY <1>6 DEF ItemWarnings
  <2>2. Append(w, "skipped") \in Seq(ItemWarnings)
    BY <1>6, <2>1
  <2>3. Count(Append(w, "skipped"), "skipped") = Count(w, "skipped") + 1
    BY <1>6, <2>1, CountAppended
  <2>4. Count(Append(w, "skipped"), "published") = Count(w, "published")
    <3>1. Count(w, "published") \in Nat
      BY <1>6, <2>1, CountAppended
    <3> QED
      BY <1>6, <2>1, <3>1, CountAppended
  <2> QED
    BY <1>6, <2>1, <2>2, <2>3, <2>4
<1> HIDE DEF w, s, d, a, E
<1>8. /\ Count(s, "skipped") = Cardinality(FirstOf(k, EmptyOnes(list)))
      /\ Count(s, "published") = Cardinality(FirstOf(k, UndatedOnes(list)))
  BY DEF Accounted, s
<1>9. /\ Count(q.warnings, "skipped") = Cardinality(FirstOf(k + 1, EmptyOnes(list)))
      /\ Count(q.warnings, "published") = Cardinality(FirstOf(k + 1, UndatedOnes(list)))
      /\ q.warnings \in Seq(ItemWarnings)
  <2>1. q.warnings = IF IsEmpty(a) THEN w \o <<"skipped">> ELSE w
    BY DEF w, s
  <2> HIDE DEF q
  <2>2. Cardinality(FirstOf(k + 1, EmptyOnes(list))) = Count(s, "skipped") + IF IsEmpty(a) THEN 1 ELSE 0
    BY <1>4, <1>8, FirstOfGrows
  <2>3. Cardinality(FirstOf(k + 1, UndatedOnes(list))) =
           Count(s, "published") + IF Undated(a.published) THEN 1 ELSE 0
    BY <1>4, <1>8, FirstOfGrows
  <2> QED
    BY <1>6, <1>7, <2>1, <2>2, <2>3
<1>10. /\ q.articles \in Seq(E)
       /\ ToSet(q.articles) = {Dated(list[i]) : i \in FirstOf(k + 1, FullOnes(list))}
       /\ \A i, j \in DOMAIN q.articles : i < j => q.articles[i].element < q.articles[j].element
  <2>1. /\ ToSet(p.articles) = {Dated(list[i]) : i \in FirstOf(k, FullOnes(list))}
        /\ \A i, j \in DOMAIN p.articles : i < j => p.articles[i].element < p.articles[j].element
    BY DEF Accounted
  <2>2. CASE IsEmpty(a)
    <3>1. q.articles = p.articles /\ FirstOf(k + 1, FullOnes(list)) = FirstOf(k, FullOnes(list))
      BY <1>4, <2>2, FirstOfGrows
    <3> QED
      BY <1>5, <2>1, <3>1
  <2>3. CASE ~IsEmpty(a)
    <3> DEFINE o == p.articles
               n == Append(o, d)
    <3>1. q.articles = n /\ FirstOf(k + 1, FullOnes(list)) = FirstOf(k, FullOnes(list)) \cup {k + 1}
      BY <1>4, <2>3, FirstOfGrows
    <3>2. n \in Seq(E) /\ ToSet(n) = ToSet(o) \cup {d} /\ o \in Seq(E)
      BY <1>3, <1>5, Members
    <3>3. \A i \in DOMAIN o : o[i].element < d.element
      <4> SUFFICES ASSUME NEW i \in DOMAIN o PROVE o[i].element < d.element
        OBVIOUS
      <4>1. PICK j \in FirstOf(k, FullOnes(list)) : o[i] = Dated(list[j])
        BY <2>1 DEF ToSet
      <4>2. j \in DOMAIN list /\ j < k + 1
        BY <1>3 DEF FirstOf, FullOnes
      <4>3. list[j].element < list[k + 1].element
        BY <1>3, <4>2
      <4> QED
        BY <1>3, <4>1, <4>2, <4>3 DEF d, a
    <3>4. DOMAIN n = DOMAIN o \cup {Len(o) + 1} /\ n[Len(o) + 1] = d /\ \A i \in DOMAIN o : n[i] = o[i]
      BY <3>2
    <3>5. DOMAIN o = 1 .. Len(o) /\ Len(o) \in Nat
      BY <3>2
    <3> HIDE DEF n, o
    <3>6. \A i, j \in DOMAIN n : i < j => n[i].element < n[j].element
      <4> SUFFICES ASSUME NEW i \in DOMAIN n, NEW j \in DOMAIN n, i < j
                   PROVE  n[i].element < n[j].element
        OBVIOUS
      <4>1. i \in DOMAIN o
        BY <3>4, <3>5
      <4>2. CASE j \in DOMAIN o
        BY <2>1, <3>4, <4>1, <4>2 DEF o
      <4>3. CASE j = Len(o) + 1
        BY <3>3, <3>4, <4>1, <4>3
      <4> QED
        BY <3>4, <4>2, <4>3
    <3>7. ToSet(n) = {Dated(list[i]) : i \in FirstOf(k + 1, FullOnes(list))}
      BY <2>1, <3>1, <3>2 DEF d, a, o
    <3> QED
      BY <3>1, <3>2, <3>6, <3>7
  <2> QED
    BY <2>2, <2>3
<1>11. q \in [feed : {feed}, articles : Seq(E), warnings : Seq(ItemWarnings)]
  BY <1>5, <1>9, <1>10
<1> HIDE DEF q
<1>12. Accounted(q, feed, list, k + 1)
  BY <1>9, <1>10, <1>11 DEF Accounted, E
<1> QED
  BY <1>2, <1>12 DEF a

\* The articles of a feed are the items that are not empty, and the warnings are counted.
LEMMA NormalizedIs ==
    ASSUME NEW feed, NEW V, NEW list \in Seq(V),
           \A i \in DOMAIN list : list[i].element \in Nat /\ Dated(list[i]).element = list[i].element,
           \A i, j \in DOMAIN list : i < j => list[i].element < list[j].element
    PROVE  LET r == Normalized(feed, list) IN
           /\ r \in [feed : {feed}, articles : Seq({Dated(a) : a \in ToSet(list)}),
                     warnings : Seq(ItemWarnings \cup {"untitled"})]
           /\ ToSet(r.articles) = {Dated(list[i]) : i \in FullOnes(list)}
           /\ \A i, j \in DOMAIN r.articles : i < j => r.articles[i].element < r.articles[j].element
           /\ Count(r.warnings, "skipped") = Cardinality(EmptyOnes(list))
           /\ Count(r.warnings, "published") = Cardinality(UndatedOnes(list))
<1> DEFINE base == [feed |-> feed, articles |-> <<>>, warnings |-> <<>>]
           all == AllAdded(base, list)
           E == {Dated(a) : a \in ToSet(list)}
<1>1. PICK h : /\ h[0] = base /\ h[Len(list)] = all
               /\ \A k \in 1 .. Len(list) : h[k] = AddArticle(h[k - 1], list[k])
  <2>1. base \in Parsing(feed, V)
    <3>1. <<>> \in Seq({Dated(a) : a \in V}) /\ <<>> \in Seq(ItemWarnings)
      OBVIOUS
    <3> QED
      BY <3>1 DEF Parsing
  <2>2. list \in Seq(V)
    OBVIOUS
  <2> HIDE DEF base, E
  <2> QED
    BY ONLY <2>1, <2>2, ArticlesFold DEF all
<1> HIDE DEF all
<1> DEFINE T == {k \in Nat : k <= Len(list) => Accounted(h[k], feed, list, k)}
<1>2. Len(list) \in Nat /\ DOMAIN list = 1 .. Len(list)
  OBVIOUS
<1>3. 0 \in T
  <2>1. \A W : FirstOf(0, W) = {} /\ Cardinality(FirstOf(0, W)) = 0
    BY FirstOfGrows
  <2>2. Count(<<>>, "skipped") = 0 /\ Count(<<>>, "published") = 0
    <3>1. \A e : {i \in DOMAIN <<>> : <<>>[i] = e} = {}
      OBVIOUS
    <3> QED
      BY <3>1, FS_EmptySet DEF Count
  <2>3. /\ base \in [feed : {feed}, articles : Seq(E), warnings : Seq(ItemWarnings)]
        /\ base.articles = <<>> /\ base.warnings = <<>>
    <3> HIDE DEF E
    <3>1. <<>> \in Seq(E) /\ <<>> \in Seq(ItemWarnings)
      OBVIOUS
    <3> QED
      BY <3>1
  <2>4. ToSet(<<>>) = {} /\ DOMAIN <<>> = {}
    BY DEF ToSet
  <2> HIDE DEF base
  <2>5. Accounted(base, feed, list, 0)
    BY <2>1, <2>2, <2>3, <2>4 DEF Accounted
  <2> QED
    BY <1>1, <2>5
<1> HIDE DEF base
<1>4. ASSUME NEW k \in Nat, k \in T PROVE k + 1 \in T
  <2> SUFFICES ASSUME k + 1 <= Len(list) PROVE Accounted(h[k + 1], feed, list, k + 1)
    OBVIOUS
  <2>1. Accounted(h[k], feed, list, k)
    BY <1>2, <1>4
  <2>2. h[k + 1] = AddArticle(h[k], list[k + 1])
    BY <1>1, <1>2
  <2> QED
    BY <2>1, <2>2, AddArticleStep
<1>5. Len(list) \in T
  <2> HIDE DEF T
  <2> QED
    BY <1>2, <1>3, <1>4, Induction
<1>6. Accounted(all, feed, list, Len(list))
  BY <1>1, <1>2, <1>5
<1>7. \A W \in SUBSET (DOMAIN list) : FirstOf(Len(list), W) = W
  BY <1>2 DEF FirstOf
<1>8. /\ EmptyOnes(list) \in SUBSET (DOMAIN list) /\ FullOnes(list) \in SUBSET (DOMAIN list)
      /\ UndatedOnes(list) \in SUBSET (DOMAIN list)
  BY DEF EmptyOnes, FullOnes, UndatedOnes
<1>9. /\ all \in [feed : {feed}, articles : Seq(E), warnings : Seq(ItemWarnings)]
      /\ ToSet(all.articles) = {Dated(list[i]) : i \in FullOnes(list)}
      /\ \A i, j \in DOMAIN all.articles : i < j => all.articles[i].element < all.articles[j].element
      /\ Count(all.warnings, "skipped") = Cardinality(EmptyOnes(list))
      /\ Count(all.warnings, "published") = Cardinality(UndatedOnes(list))
  BY <1>6, <1>7, <1>8 DEF Accounted
<1> HIDE DEF E
<1> DEFINE w == all.warnings
           u == IF feed.title = <<>> THEN <<"untitled">> ELSE <<>>
           r == [all EXCEPT !.warnings = w \o u]
           Known == ItemWarnings \cup {"untitled"}
<1>10. Normalized(feed, list) = r
  BY DEF Normalized, AllAdded, all, base
<1>11. w \in Seq(Known) /\ "untitled" \in Known
  <2>1. w \in Seq(ItemWarnings)
    BY <1>9
  <2>2. ItemWarnings \subseteq Known /\ "untitled" \in Known
    OBVIOUS
  <2> HIDE DEF w, Known
  <2> QED
    BY <2>1, <2>2
<1> HIDE DEF Known
<1>12. /\ w \o u \in Seq(Known)
       /\ \A e : Count(w, e) \in Nat
       /\ \A e : Count(w \o u, e) = Count(w, e) + IF feed.title = <<>> /\ "untitled" = e THEN 1 ELSE 0
  <2> DEFINE c == feed.title = <<>>
  <2>1. u = (IF c THEN <<"untitled">> ELSE <<>>) /\ c \in BOOLEAN
    OBVIOUS
  <2> HIDE DEF w, u, c
  <2>2. /\ w \o u \in Seq(Known)
        /\ \A e : Count(w, e) \in Nat
        /\ \A e : Count(w \o u, e) = Count(w, e) + IF c /\ "untitled" = e THEN 1 ELSE 0
    BY <1>11, <2>1, CountOptional
  <2> QED
    BY <2>2 DEF c
<1> HIDE DEF u
<1>13. Count(w \o u, "skipped") = Count(w, "skipped") /\ Count(w \o u, "published") = Count(w, "published")
  BY <1>12
<1>14. r.warnings = w \o u /\ r.articles = all.articles /\ r \in [feed : {feed}, articles : Seq(E), warnings : Seq(Known)]
  BY <1>9, <1>12
<1> HIDE DEF r
<1> QED
  BY <1>9, <1>10, <1>13, <1>14 DEF Known, E

-------------------------------------------------------------------------------
(* What an item becomes. *)

\* What an item names.
CategoriesOf(item) == IF tree[1].name = "rss" THEN RSSCategories(item) ELSE AtomCategories(item)
TagsOf(item) == IF tree[1].name = "rss" THEN RSSTags(item) ELSE <<>>
MediaOf(item) == IF tree[1].name = "rss" THEN RSSMedia(item) ELSE AtomMedia(item)

\* An article says what its item says.
Faithful(a, item) ==
    /\ a.element = item /\ a.published = DateText(item) /\ (IsEmpty(a) <=> IsBlank(item))
    /\ Dated(a).element = item /\ Dated(a).published = ParseDate(DateText(item))
    /\ Dated(a).lists = a.lists
    /\ Complete(a.lists.categories, a.lists.tags, a.lists.attached,
                CategoriesOf(item), TagsOf(item), MediaOf(item))

\* So do those of RSS.
LEMMA RSSArticleIs ==
    ASSUME tree \in Seq(Node), tree[1].name = "rss", NEW item \in DOMAIN tree, NEW language
    PROVE  Faithful(RSSArticle(item, language), item)
<1> DEFINE CV(l) == ChildValue(item, l)
           url == CV("link")
           summary == CV("description")
           identifier == FirstNonEmpty(<<CV("guid"), url>>)
           content == FirstNonEmpty(<<CV("encoded"), summary>>)
           published == FirstChildValue(item, <<"pubdate", "published">>)
           updated == FirstChildValue(item, <<"updated", "modified">>)
           title == CV("title")
           author == FirstChildValue(item, <<"author", "creator">>)
           lang == FirstNonEmpty(<<CV("language"), language>>)
           lists == Listed(RSSCategories(item), RSSTags(item), RSSMedia(item))
           a == [element |-> item, identifier |-> identifier, url |-> url, title |-> title,
                 author |-> author, summary |-> summary, content |-> content, language |-> lang,
                 published |-> published, updated |-> updated, lists |-> lists]
<1>1. RSSArticle(item, language) = a
  BY DEF RSSArticle
<1>2. \A l : CV(l) \in Trimmed
  BY ChildTyped
<1>3. IsBlank(item) <=> /\ CV("title") = <<>> /\ CV("guid") = <<>> /\ CV("link") = <<>>
                        /\ CV("description") = <<>> /\ CV("encoded") = <<>>
  BY DEF IsBlank, HasText
<1> HIDE DEF CV
<1>4. identifier = <<>> <=> CV("guid") = <<>> /\ url = <<>>
  BY <1>2, FirstOfTwo
<1>5. content = <<>> <=> CV("encoded") = <<>> /\ summary = <<>>
  BY <1>2, FirstOfTwo
<1>6. IsBlank(item) <=> title = <<>> /\ url = <<>> /\ identifier = <<>> /\ content = <<>>
  BY <1>3, <1>4, <1>5
<1>7. published = DateText(item)
  BY DEF DateText
<1>8. Complete(lists.categories, lists.tags, lists.attached, CategoriesOf(item), TagsOf(item), MediaOf(item))
  <2>1. /\ CategoriesOf(item) = RSSCategories(item) /\ TagsOf(item) = RSSTags(item)
        /\ MediaOf(item) = RSSMedia(item)
    BY DEF CategoriesOf, TagsOf, MediaOf
  <2>2. PICK V : RSSMedia(item) \in Seq(V)
    BY MediaTyped
  <2> QED
    BY <2>1, <2>2, RSSListsTyped, ListedIsComplete
<1> HIDE DEF url, summary, identifier, content, published, updated, title, author, lang, lists
<1>10. /\ a.element = item /\ a.published = published /\ a.updated = updated /\ a.lists = lists
       /\ a.title = title /\ a.url = url /\ a.identifier = identifier /\ a.content = content
       /\ {"element", "published", "updated", "lists"} \subseteq DOMAIN a
  OBVIOUS
<1> HIDE DEF a
<1>9. /\ Dated(a).element = item /\ Dated(a).published = ParseDate(published)
      /\ Dated(a).lists = lists
  <2>1. Dated(a) = [a EXCEPT !.published = ParseDate(a.published), !.updated = ParseDate(a.updated)]
    BY DEF Dated
  <2> QED
    BY <1>10, <2>1
<1>11. IsEmpty(a) <=> IsBlank(item)
  BY <1>6, <1>10 DEF IsEmpty
<1> QED
  BY <1>1, <1>7, <1>8, <1>9, <1>10, <1>11 DEF Faithful

\* The link of an entry is empty only if none of its links has a reference.
LEMMA AtomLinkIs ==
    ASSUME tree \in Seq(Node), NEW n, NEW rel
    PROVE  /\ AtomLink(n, rel) \in Trimmed
           /\ AtomLink(n, rel) = <<>> <=> \A l \in Named(n, "link") : Attr(l, "href") = <<>>
<1> DEFINE links == {l \in Named(n, "link") : Attr(l, "href") # <<>>}
           wanted == {l \in links : Rel(l) = rel}
           chosen == IF wanted = {} THEN links ELSE wanted
<1>1. links \subseteq DOMAIN tree /\ links \subseteq Nat
  BY DEF Named
<1>2. CASE links = {}
  BY <1>2, EmptyTrimmed DEF AtomLink
<1>3. CASE links # {}
  <2>1. Min(chosen) \in chosen /\ chosen \subseteq links
    <3>1. chosen # {} /\ chosen \subseteq Nat /\ chosen \subseteq links
      BY <1>1, <1>3
    <3> HIDE DEF chosen
    <3> QED
      BY <3>1, MinExists
  <2>2. AtomLink(n, rel) = Attr(Min(chosen), "href")
    BY <1>3 DEF AtomLink
  <2> HIDE DEF chosen
  <2>3. Min(chosen) \in links
    BY <2>1
  <2>4. Attr(Min(chosen), "href") \in Trimmed /\ Attr(Min(chosen), "href") # <<>>
    BY <1>1, <2>3, AttrTyped
  <2> QED
    BY <1>3, <2>2, <2>4
<1> QED
  BY <1>2, <1>3

\* So do those of Atom.
LEMMA AtomArticleIs ==
    ASSUME tree \in Seq(Node), tree[1].name # "rss", NEW item \in DOMAIN tree, NEW language
    PROVE  Faithful(AtomArticle(item, language), item)
<1> DEFINE CV(l) == ChildValue(item, l)
           url == AtomLink(item, <<"alternate">>)
           summary == CV("summary")
           identifier == FirstNonEmpty(<<CV("id"), url>>)
           content == FirstNonEmpty(<<CV("content"), summary>>)
           published == CV("published")
           updated == CV("updated")
           title == CV("title")
           author == AtomAuthor(item)
           lang == FirstNonEmpty(<<Attr(item, "lang"), language>>)
           lists == Listed(AtomCategories(item), <<>>, AtomMedia(item))
           a == [element |-> item, identifier |-> identifier, url |-> url, title |-> title,
                 author |-> author, summary |-> summary, content |-> content, language |-> lang,
                 published |-> published, updated |-> updated, lists |-> lists]
<1>1. AtomArticle(item, language) = a
  BY DEF AtomArticle
<1>2. (\A l : CV(l) \in Trimmed) /\ url \in Trimmed
  BY ChildTyped, AtomLinkIs
<1>3. IsBlank(item) <=> /\ CV("title") = <<>> /\ CV("id") = <<>> /\ CV("summary") = <<>>
                        /\ CV("content") = <<>> /\ url = <<>>
  <2>1. url = <<>> <=> \A l \in Named(item, "link") : Attr(l, "href") = <<>>
    BY AtomLinkIs
  <2> HIDE DEF url
  <2> QED
    BY <2>1 DEF IsBlank, HasText
<1>7. published = DateText(item)
  <2>1. DateText(item) = FirstChildValue(item, <<"published">>)
    BY DEF DateText
  <2>2. FirstChildValue(item, <<"published">>) = FirstNonEmpty(<<CV("published")>>)
    <3> DEFINE s == <<"published">>
    <3>1. [i \in DOMAIN s |-> CV(s[i])] = <<CV("published")>>
      <4> HIDE DEF CV
      <4> QED
        OBVIOUS
    <3> QED
      BY <3>1 DEF FirstChildValue, Mapped
  <2> HIDE DEF CV
  <2>3. FirstNonEmpty(<<CV("published")>>) = CV("published")
    BY <1>2, FirstOfTwo
  <2> QED
    BY <2>1, <2>2, <2>3
<1> HIDE DEF CV, url
<1>4. identifier = <<>> <=> CV("id") = <<>> /\ url = <<>>
  BY <1>2, FirstOfTwo
<1>5. content = <<>> <=> CV("content") = <<>> /\ summary = <<>>
  BY <1>2, FirstOfTwo
<1>6. IsBlank(item) <=> title = <<>> /\ url = <<>> /\ identifier = <<>> /\ content = <<>>
  BY <1>3, <1>4, <1>5
<1>8. Complete(lists.categories, lists.tags, lists.attached, CategoriesOf(item), TagsOf(item), MediaOf(item))
  <2>1. /\ CategoriesOf(item) = AtomCategories(item) /\ TagsOf(item) = <<>>
        /\ MediaOf(item) = AtomMedia(item)
    BY DEF CategoriesOf, TagsOf, MediaOf
  <2>2. PICK V : AtomMedia(item) \in Seq(V)
    BY MediaTyped
  <2>3. <<>> \in Seq(Texts)
    OBVIOUS
  <2> QED
    BY <2>1, <2>2, <2>3, AtomCategoriesTyped, ListedIsComplete
<1> HIDE DEF summary, identifier, content, published, updated, title, author, lang, lists
<1>10. /\ a.element = item /\ a.published = published /\ a.updated = updated /\ a.lists = lists
       /\ a.title = title /\ a.url = url /\ a.identifier = identifier /\ a.content = content
       /\ {"element", "published", "updated", "lists"} \subseteq DOMAIN a
  OBVIOUS
<1> HIDE DEF a
<1>9. /\ Dated(a).element = item /\ Dated(a).published = ParseDate(published)
      /\ Dated(a).lists = lists
  <2>1. Dated(a) = [a EXCEPT !.published = ParseDate(a.published), !.updated = ParseDate(a.updated)]
    BY DEF Dated
  <2> QED
    BY <1>10, <2>1
<1>11. IsEmpty(a) <=> IsBlank(item)
  BY <1>6, <1>10 DEF IsEmpty
<1> QED
  BY <1>1, <1>7, <1>8, <1>9, <1>10, <1>11 DEF Faithful

-------------------------------------------------------------------------------
(* What a step that leaves the tree alone cannot change.  The folds over the tree are  *)
(* functions of it, which their definitions with the tree as a parameter show.         *)

\* The folds, with the tree t.
Ordered(t, S) == FoldLeft(LAMBDA found, i : IF i \in S THEN Append(found, i) ELSE found,
                          <<>>, [i \in DOMAIN t |-> i])
KeywordsIn(t, s) == FoldLeft(LAMBDA all, k : all \o Split(IF k = 0 THEN <<>> ELSE Trim(t[k].text)),
                             <<>>, s)

\* The order of the nodes is a function of the tree.
LEMMA OrderedIs == \A S : InOrder(S) = Ordered(tree, S)
BY DEF InOrder, Ordered

\* So are the keywords of an item.
LEMMA KeywordsAre == \A n, s : s = Children(n, "keywords") => RSSKeywords(n) = KeywordsIn(tree, s)
BY DEF RSSKeywords, KeywordsIn, Value

\* An equal tree gives an equal order.
LEMMA SameOrder ==
    ASSUME tree' = tree
    PROVE  \A S : InOrder(S)' = InOrder(S)
<1>1. (\A S : InOrder(S) = Ordered(tree, S))'
  BY OrderedIs, PTL
<1>2. \A S : InOrder(S)' = Ordered(tree', S)
  BY <1>1
<1> QED
  BY <1>2, OrderedIs

\* So it does for what the methods of a node return.
LEMMA SameNodes ==
    ASSUME tree' = tree
    PROVE  /\ \A n, l : Named(n, l)' = Named(n, l) /\ Child(n, l)' = Child(n, l)
           /\ \A n, l : Children(n, l)' = Children(n, l)
           /\ \A n : Value(n)' = Value(n)
           /\ \A n, l : Attr(n, l)' = Attr(n, l)
           /\ \A n, l : ChildValue(n, l)' = ChildValue(n, l)
           /\ \A n, ls : FirstChildValue(n, ls)' = FirstChildValue(n, ls)
<1>1. \A n, l : Named(n, l)' = Named(n, l)
  BY DEF Named
<1>2. \A n, l : Child(n, l)' = Child(n, l)
  BY <1>1 DEF Child
<1>3. \A n, l : Children(n, l)' = Children(n, l)
  BY <1>1, SameOrder DEF Children
<1>4. \A n : Value(n)' = Value(n)
  BY DEF Value
<1>5. \A n, l : Attr(n, l)' = Attr(n, l)
  BY DEF Attr
<1>6. \A n, l : ChildValue(n, l)' = ChildValue(n, l)
  BY <1>2, <1>4 DEF ChildValue
<1>7. \A n, ls : FirstChildValue(n, ls)' = FirstChildValue(n, ls)
  BY <1>6 DEF FirstChildValue, Mapped
<1> QED
  BY <1>1, <1>2, <1>3, <1>4, <1>5, <1>6, <1>7

\* And for the links and the author of an entry.
LEMMA SameLinks ==
    ASSUME tree' = tree
    PROVE  /\ \A n : Rel(n)' = Rel(n) /\ AtomAuthor(n)' = AtomAuthor(n)
           /\ \A n, r : AtomLink(n, r)' = AtomLink(n, r)
<1>1. \A n : Rel(n)' = Rel(n)
  BY SameNodes DEF Rel
<1>2. \A n, r : AtomLink(n, r)' = AtomLink(n, r)
  BY <1>1, SameNodes DEF AtomLink
<1>3. \A n : AtomAuthor(n)' = AtomAuthor(n)
  BY SameNodes DEF AtomAuthor
<1> QED
  BY <1>1, <1>2, <1>3

\* And for what its lists are made from.
LEMMA SameLists ==
    ASSUME tree' = tree
    PROVE  /\ \A n : RSSCategories(n)' = RSSCategories(n)
           /\ \A n : RSSTags(n)' = RSSTags(n)
           /\ \A n : RSSMedia(n)' = RSSMedia(n)
           /\ \A n : AtomCategories(n)' = AtomCategories(n)
           /\ \A n : AtomMedia(n)' = AtomMedia(n)
<1>1. /\ \A n, h : Enclosed(n, h)' = Enclosed(n, h)
      /\ \A n : Described(n)' = Described(n)
  BY SameNodes DEF Enclosed, Described
<1>2. \A n : Thumbnail(n)' = Thumbnail(n)
  BY <1>1 DEF Thumbnail
<1>3. \A n : RSSCategories(n)' = RSSCategories(n)
  BY SameNodes DEF RSSCategories, Mapped
<1>4. \A n : RSSKeywords(n)' = RSSKeywords(n)
  <2>1. (\A n, s : s = Children(n, "keywords") => RSSKeywords(n) = KeywordsIn(tree, s))'
    BY KeywordsAre, PTL
  <2>2. \A n, s : s = Children(n, "keywords")' => RSSKeywords(n)' = KeywordsIn(tree', s)
    BY <2>1
  <2> QED
    BY <2>2, KeywordsAre, SameNodes
<1>5. \A n : RSSTags(n)' = RSSTags(n)
  BY <1>4, SameNodes DEF RSSTags, Mapped
<1>6. \A n : RSSMedia(n)' = RSSMedia(n)
  BY <1>1, <1>2, SameNodes DEF RSSMedia, Mapped
<1>7. \A n : AtomCategories(n)' = AtomCategories(n)
  BY SameNodes DEF AtomCategories, Mapped
<1>8. \A n : AtomMedia(n)' = AtomMedia(n)
  BY <1>1, SameNodes, SameLinks, SameOrder DEF AtomMedia, Mapped
<1> QED
  BY <1>3, <1>5, <1>6, <1>7, <1>8

\* And for an article.
LEMMA SameArticles ==
    ASSUME tree' = tree
    PROVE  /\ \A n, l : RSSArticle(n, l)' = RSSArticle(n, l)
           /\ \A n, l : AtomArticle(n, l)' = AtomArticle(n, l)
<1>1. \A n, l : RSSArticle(n, l)' = RSSArticle(n, l)
  BY SameNodes, SameLists DEF RSSArticle
<1>2. \A n, l : AtomArticle(n, l)' = AtomArticle(n, l)
  BY SameNodes, SameLinks, SameLists DEF AtomArticle
<1> QED
  BY <1>1, <1>2

\* And for a feed.
LEMMA SameFeeds ==
    ASSUME tree' = tree
    PROVE  /\ \A n : ParseRSS(n)' = ParseRSS(n)
           /\ \A n : ParseAtom(n)' = ParseAtom(n)
<1>1. \A n : ParseRSS(n)' = ParseRSS(n)
  BY SameNodes, SameArticles DEF ParseRSS, Mapped
<1>2. \A n : ParseAtom(n)' = ParseAtom(n)
  BY SameNodes, SameLinks, SameArticles DEF ParseAtom, Mapped
<1> QED
  BY <1>1, <1>2

-------------------------------------------------------------------------------
(* What ItemsAreAccountedFor and ListsAreComplete say of a feed. *)

\* The items are accounted for, and the lists complete.
AccountsFor(p) ==
    LET kept == Mapped(LAMBDA a : a.element, p.articles)
        blank == {i \in ToSet(Items) : IsBlank(i)} IN
    /\ ToSet(kept) = ToSet(Items) \ blank
    /\ \A i, j \in DOMAIN kept : i < j => kept[i] < kept[j]
    /\ Count(p.warnings, "skipped") = Cardinality(blank)
    /\ Count(p.warnings, "published") =
          Cardinality({i \in ToSet(Items) : DateText(i) # <<>> /\ ParseDate(DateText(i)) = NoTime})
    /\ \A a \in ToSet(p.articles) : a.published = ParseDate(DateText(a.element))

ListsAreCompleteIn(p) ==
    \A a \in ToSet(p.articles) :
        Complete(a.lists.categories, a.lists.tags, a.lists.attached,
                 CategoriesOf(a.element), TagsOf(a.element), MediaOf(a.element))

\* The warnings there are, but that about the stack.
Known == ItemWarnings \cup {"untitled"}

\* A feed that is made of faithful articles accounts for its items.
LEMMA FeedIsFaithful ==
    ASSUME tree \in Seq(Node), NEW feed, Items \in Seq(DOMAIN tree),
           \A i, j \in DOMAIN Items : i < j => Items[i] < Items[j],
           NEW V, NEW list \in Seq(V), DOMAIN list = DOMAIN Items,
           \A i \in DOMAIN Items : Faithful(list[i], Items[i])
    PROVE  LET p == Normalized(feed, list) IN
           /\ AccountsFor(p) /\ ListsAreCompleteIn(p)
           /\ \E E : p \in [feed : {feed}, articles : Seq(E), warnings : Seq(Known)]
<1> DEFINE p == Normalized(feed, list)
           items == Items
           N == DOMAIN items
           E == {Dated(a) : a \in ToSet(list)}
           blank == {i \in ToSet(items) : IsBlank(i)}
           undated == {i \in ToSet(items) : Undated(DateText(i))}
           kept == [i \in DOMAIN p.articles |-> p.articles[i].element]
<1>1. /\ \A i \in N : items[i] \in Nat
      /\ \A i, j \in N : i < j => items[i] < items[j]
      /\ N = 1 .. Len(items) /\ Len(items) \in Nat
      /\ DOMAIN list = N
  OBVIOUS
<1>2. \A i \in N : Faithful(list[i], items[i])
  OBVIOUS
<1> HIDE DEF items, N
<1>3. \A i \in N : /\ list[i].element = items[i] /\ Dated(list[i]).element = items[i]
                   /\ list[i].published = DateText(items[i])
                   /\ Dated(list[i]).published = ParseDate(DateText(items[i]))
                   /\ (IsEmpty(list[i]) <=> IsBlank(items[i]))
                   /\ Dated(list[i]).lists = list[i].lists
  BY <1>2 DEF Faithful
<1>4. /\ \A i \in DOMAIN list : list[i].element \in Nat /\ Dated(list[i]).element = list[i].element
      /\ \A i, j \in DOMAIN list : i < j => list[i].element < list[j].element
  BY <1>1, <1>3
<1>5. /\ p \in [feed : {feed}, articles : Seq(E), warnings : Seq(ItemWarnings \cup {"untitled"})]
      /\ ToSet(p.articles) = {Dated(list[i]) : i \in FullOnes(list)}
      /\ \A i, j \in DOMAIN p.articles : i < j => p.articles[i].element < p.articles[j].element
      /\ Count(p.warnings, "skipped") = Cardinality(EmptyOnes(list))
      /\ Count(p.warnings, "published") = Cardinality(UndatedOnes(list))
  BY <1>4, NormalizedIs
<1> HIDE DEF p, E
<1>6. \A i, j \in N : items[i] = items[j] => i = j
  BY <1>1
<1>7. IsFiniteSet(N)
  BY <1>1, FS_Interval
<1>8. /\ EmptyOnes(list) = {i \in N : IsBlank(items[i])}
      /\ FullOnes(list) = {i \in N : ~IsBlank(items[i])}
      /\ UndatedOnes(list) = {i \in N : Undated(DateText(items[i]))}
  BY <1>1, <1>3 DEF EmptyOnes, FullOnes, UndatedOnes
<1>9. ToSet(items) = {items[i] : i \in N}
  BY DEF ToSet, N
<1>10. Cardinality(blank) = Cardinality(EmptyOnes(list))
  <2>1. blank = {items[i] : i \in EmptyOnes(list)}
    BY <1>8, <1>9
  <2>2. EmptyOnes(list) \subseteq N
    BY <1>8
  <2>3. IsFiniteSet(EmptyOnes(list))
    BY <1>7, <2>2, FS_Subset
  <2> HIDE DEF blank
  <2> QED
    BY <1>6, <2>1, <2>2, <2>3, ImageCardinality
<1>11. Cardinality(undated) = Cardinality(UndatedOnes(list))
  <2>1. undated = {items[i] : i \in UndatedOnes(list)}
    BY <1>8, <1>9
  <2>2. UndatedOnes(list) \subseteq N
    BY <1>8
  <2>3. IsFiniteSet(UndatedOnes(list))
    BY <1>7, <2>2, FS_Subset
  <2> HIDE DEF undated
  <2> QED
    BY <1>6, <2>1, <2>2, <2>3, ImageCardinality
<1>12. \A a \in ToSet(p.articles) : \E i \in N : /\ a = Dated(list[i]) /\ ~IsBlank(items[i])
                                                  /\ a.element = items[i]
  BY <1>3, <1>5, <1>8
<1>13. \A i \in N : ~IsBlank(items[i]) => \E a \in ToSet(p.articles) : a.element = items[i]
  BY <1>3, <1>5, <1>8
<1>14. ToSet(kept) = ToSet(items) \ blank
  <2>1. ToSet(kept) = {a.element : a \in ToSet(p.articles)}
    BY DEF ToSet
  <2> HIDE DEF kept
  <2>2. \A x \in ToSet(kept) : x \in ToSet(items) \ blank
    BY <1>9, <1>12, <2>1
  <2>3. \A x \in ToSet(items) \ blank : x \in ToSet(kept)
    BY <1>9, <1>13, <2>1
  <2> QED
    BY <2>2, <2>3
<1>15. \A i, j \in DOMAIN kept : i < j => kept[i] < kept[j]
  BY <1>5
<1>16. \A a \in ToSet(p.articles) : a.published = ParseDate(DateText(a.element))
  BY <1>3, <1>12
<1>17. AccountsFor(p)
  <2>1. undated = {i \in ToSet(items) : DateText(i) # <<>> /\ ParseDate(DateText(i)) = NoTime}
    BY DEF Undated
  <2>2. kept = Mapped(LAMBDA a : a.element, p.articles)
    BY DEF Mapped
  <2>3. Items = items
    BY DEF items
  <2> HIDE DEF kept, undated
  <2> QED
    BY <1>5, <1>10, <1>11, <1>14, <1>15, <1>16, <2>1, <2>2, <2>3 DEF AccountsFor
<1>18. ListsAreCompleteIn(p)
  <2> SUFFICES ASSUME NEW a \in ToSet(p.articles)
               PROVE  Complete(a.lists.categories, a.lists.tags, a.lists.attached,
                               CategoriesOf(a.element), TagsOf(a.element), MediaOf(a.element))
    BY DEF ListsAreCompleteIn
  <2>1. PICK i \in N : a = Dated(list[i]) /\ a.element = items[i]
    BY <1>12
  <2>2. a.lists = list[i].lists
    BY <1>3, <2>1
  <2>3. Complete(list[i].lists.categories, list[i].lists.tags, list[i].lists.attached,
                 CategoriesOf(items[i]), TagsOf(items[i]), MediaOf(items[i]))
    BY <1>2 DEF Faithful
  <2> QED
    BY <2>1, <2>2, <2>3
<1> QED
  BY <1>5, <1>17, <1>18 DEF p, Known

\* What is true of a feed that has been parsed.
Sound(p) ==
    /\ AccountsFor(p) /\ ListsAreCompleteIn(p)
    /\ \E feed, E : p \in [feed : {feed}, articles : Seq(E), warnings : Seq(Known)]

\* It is true of one in RSS.
LEMMA RSSFeedIs ==
    ASSUME tree \in Seq(Node), tree[1].name = "rss"
    PROVE  Sound(ParseRSS(Child(1, "channel")))
<1> DEFINE c == Child(1, "channel")
           items == Children(c, "item")
           images == Children(c, "image")
           feed == [url |-> FirstNonEmpty(<<ChildValue(c, "link"), SourceURL>>),
                    title |-> ChildValue(c, "title"),
                    description |-> ChildValue(c, "description"),
                    icon |-> <<>>,
                    image |-> FirstNonEmpty(<<ChildValue(Child(c, "image"), "url")>>
                                            \o Mapped(LAMBDA i : Attr(i, "href"), images)),
                    language |-> ChildValue(c, "language")]
           F(i) == RSSArticle(i, feed.language)
           list == [i \in DOMAIN items |-> F(items[i])]
           V == {F(n) : n \in DOMAIN tree}
<1>1. ParseRSS(c) = Normalized(feed, list)
  BY DEF ParseRSS, Mapped
<1>2. Items = items
  BY DEF Items
<1>3. items \in Seq(DOMAIN tree) /\ \A i, j \in DOMAIN items : i < j => items[i] < items[j]
  BY ChildrenTyped
<1>4. \A n \in DOMAIN tree : Faithful(F(n), n)
  BY RSSArticleIs
<1> HIDE DEF items, feed, F
<1>5. DOMAIN list = DOMAIN items /\ \A i \in DOMAIN items : items[i] \in DOMAIN tree /\ list[i] = F(items[i])
  BY <1>3
<1>6. list \in Seq(V)
  <2>1. DOMAIN items = 1 .. Len(items) /\ Len(items) \in Nat
    BY <1>3
  <2>2. list \in [1 .. Len(items) -> V]
    BY <1>5, <2>1
  <2> HIDE DEF list, V
  <2> QED
    BY <2>1, <2>2
<1>7. \A i \in DOMAIN items : Faithful(list[i], items[i])
  BY <1>4, <1>5
<1> HIDE DEF list, V, c
<1>8. LET p == Normalized(feed, list) IN
      /\ AccountsFor(p) /\ ListsAreCompleteIn(p)
      /\ \E E : p \in [feed : {feed}, articles : Seq(E), warnings : Seq(Known)]
  BY <1>2, <1>3, <1>5, <1>6, <1>7, FeedIsFaithful
<1>9. Sound(Normalized(feed, list))
  BY <1>8, Zenon DEF Sound
<1> QED
  BY <1>1, <1>9 DEF c

\* And of one in Atom.
LEMMA AtomFeedIs ==
    ASSUME tree \in Seq(Node), tree[1].name # "rss"
    PROVE  Sound(ParseAtom(1))
<1> DEFINE items == Children(1, "entry")
           link == AtomLink(1, <<"alternate">>)
           feed == [url |-> IF link = <<>> THEN SourceURL ELSE link,
                    title |-> ChildValue(1, "title"),
                    description |-> FirstChildValue(1, <<"subtitle", "summary">>),
                    icon |-> ChildValue(1, "icon"),
                    image |-> ChildValue(1, "logo"),
                    language |-> FirstNonEmpty(<<Attr(1, "lang"), Attr(1, "language")>>)]
           F(i) == AtomArticle(i, feed.language)
           list == [i \in DOMAIN items |-> F(items[i])]
           V == {F(n) : n \in DOMAIN tree}
<1>1. ParseAtom(1) = Normalized(feed, list)
  BY DEF ParseAtom, Mapped
<1>2. Items = items
  BY DEF Items
<1>3. items \in Seq(DOMAIN tree) /\ \A i, j \in DOMAIN items : i < j => items[i] < items[j]
  BY ChildrenTyped
<1>4. \A n \in DOMAIN tree : Faithful(F(n), n)
  BY AtomArticleIs
<1> HIDE DEF items, feed, F
<1>5. DOMAIN list = DOMAIN items /\ \A i \in DOMAIN items : items[i] \in DOMAIN tree /\ list[i] = F(items[i])
  BY <1>3
<1>6. list \in Seq(V)
  <2>1. DOMAIN items = 1 .. Len(items) /\ Len(items) \in Nat
    BY <1>3
  <2>2. list \in [1 .. Len(items) -> V]
    BY <1>5, <2>1
  <2> HIDE DEF list, V
  <2> QED
    BY <2>1, <2>2
<1>7. \A i \in DOMAIN items : Faithful(list[i], items[i])
  BY <1>4, <1>5
<1> HIDE DEF list, V
<1>8. LET p == Normalized(feed, list) IN
      /\ AccountsFor(p) /\ ListsAreCompleteIn(p)
      /\ \E E : p \in [feed : {feed}, articles : Seq(E), warnings : Seq(Known)]
  BY <1>2, <1>3, <1>5, <1>6, <1>7, FeedIsFaithful
<1>9. Sound(Normalized(feed, list))
  BY <1>8, Zenon DEF Sound
<1> QED
  BY <1>1, <1>9

\* With nothing left on the stack, decodeTree adds no warning.
LEMMA ParsedIs ==
    ASSUME stack = <<>>, NEW p, Sound(p)
    PROVE  Parsed(p) = p /\ "unclosed" \notin ToSet(p.warnings)
<1>1. PICK feed, E : p \in [feed : {feed}, articles : Seq(E), warnings : Seq(Known)]
  BY DEF Sound
<1>2. p.warnings \in Seq(Known)
  BY <1>1
<1>3. ToSet(p.warnings) \subseteq Known
  BY <1>2 DEF ToSet
<1>4. <<>> \o p.warnings = p.warnings
  BY <1>2
<1>5. Parsed(p) = [p EXCEPT !.warnings = <<>> \o p.warnings]
  BY DEF Parsed
<1>6. "unclosed" \notin Known
  BY DEF Known, ItemWarnings
<1> QED
  BY <1>1, <1>3, <1>4, <1>5, <1>6

-------------------------------------------------------------------------------
(* The inductive invariant. *)

Typed ==
    /\ doc \in Seq(Markups) /\ pos \in Nat \ {0}
    /\ open \in Seq(STRING) /\ closing \in Seq(STRING)
    /\ tree \in Seq(Node) /\ stack \in Seq(Nat)
    /\ \A i \in DOMAIN stack : stack[i] \in DOMAIN tree

\* The elements that the document has opened so far.
Started == {i \in DOMAIN doc : i < pos /\ doc[i].kind = "start"}

\* As long as no element is refused, each one is a node of the tree; and it is refused
\* when a limit is exceeded by what the decoder has read.
Counted ==
    /\ outcome \notin {"tooComplex", "multipleRoots"} =>
          StackIsPath /\ Len(tree) = Cardinality(Started)
    /\ outcome # "tooComplex" => Len(open) <= MaxDepth /\ Cardinality(Started) <= MaxNodes
    /\ outcome = "tooComplex" => Len(open) > MaxDepth \/ Cardinality(Started) > MaxNodes

IInv == Typed /\ Counted

-------------------------------------------------------------------------------
(* The decoder. *)

\* The kinds of markup.
LEMMA Kinds ==
    ASSUME NEW m \in Markups
    PROVE  /\ m.kind \in {"start", "end", "text", "directive", "other", "garbage"}
           /\ m.kind = "start" => m.name \in STRING /\ m.attrs \in Attributes
           /\ m.kind = "end" => m.name \in STRING
           /\ m.kind = "text" => m.text \in Seq(Words)
BY DEF Markups

\* What is read is the end tag to be read again, the markup at pos, or the end.
LEMMA WhatIsRead ==
    ASSUME Typed
    PROVE  \/ closing # <<>> /\ Markup.kind = "end" /\ Markup.name = closing[1] /\ closing[1] \in STRING
           \/ closing = <<>> /\ pos \in DOMAIN doc /\ Markup = doc[pos] /\ doc[pos] \in Markups
           \/ closing = <<>> /\ pos \notin DOMAIN doc /\ Markup.kind = "eof"
<1>1. DOMAIN doc = 1 .. Len(doc) /\ pos \in Nat \ {0} /\ Len(doc) \in Nat
  BY DEF Typed
<1>2. CASE closing # <<>>
  <2>1. Markup = [kind |-> "end", name |-> closing[1]] /\ closing[1] \in STRING
    BY <1>2 DEF Markup, Typed
  <2> QED
    BY <1>2, <2>1
<1>3. CASE closing = <<>> /\ pos <= Len(doc)
  <2>1. Markup = doc[pos] /\ pos \in DOMAIN doc
    BY <1>1, <1>3 DEF Markup
  <2> QED
    BY <1>3, <2>1 DEF Typed
<1>4. CASE closing = <<>> /\ ~(pos <= Len(doc))
  <2>1. Markup = [kind |-> "eof"]
    BY <1>4 DEF Markup
  <2> QED
    BY <1>1, <1>4, <2>1
<1> QED
  BY <1>2, <1>3, <1>4

\* The elements that have been opened are finitely many.
LEMMA StartedFinite ==
    ASSUME Typed
    PROVE  IsFiniteSet(Started) /\ Cardinality(Started) \in Nat
<1>1. Started \subseteq 1 .. Len(doc) /\ Len(doc) \in Nat
  BY DEF Typed, Started
<1>2. IsFiniteSet(1 .. Len(doc))
  BY <1>1, FS_Interval
<1> QED
  BY <1>1, <1>2, FS_Subset, FS_CardinalityType

\* Reading anything but a start tag opens no element.
LEMMA NothingStarted ==
    ASSUME Typed, Advance, Markup.kind # "start"
    PROVE  Started' = Started /\ pos' \in Nat \ {0}
<1>1. doc' = doc /\ pos' = IF closing = <<>> THEN pos + 1 ELSE pos
  BY DEF Advance
<1>2. closing = <<>> /\ pos \in DOMAIN doc => doc[pos].kind # "start"
  BY WhatIsRead
<1>3. DOMAIN doc \subseteq Nat /\ pos \in Nat \ {0}
  BY DEF Typed
<1> QED
  BY <1>1, <1>2, <1>3 DEF Started

\* Reading a start tag opens one.
LEMMA OneStarted ==
    ASSUME Typed, Advance, Markup.kind = "start"
    PROVE  /\ closing = <<>> /\ Markup \in Markups /\ pos' \in Nat \ {0}
           /\ Cardinality(Started') = Cardinality(Started) + 1
<1>1. closing = <<>> /\ pos \in DOMAIN doc /\ Markup = doc[pos] /\ doc[pos] \in Markups
  BY WhatIsRead
<1>2. doc' = doc /\ pos' = pos + 1 /\ DOMAIN doc \subseteq Nat /\ pos \in Nat \ {0}
  BY <1>1 DEF Advance, Typed
<1>3. Started' = Started \cup {pos} /\ pos \notin Started
  BY <1>1, <1>2 DEF Started
<1>4. Cardinality(Started \cup {pos}) = Cardinality(Started) + 1
  BY <1>3, StartedFinite, FS_AddElement
<1>5. pos' \in Nat \ {0}
  BY <1>2
<1> QED
  BY <1>1, <1>3, <1>4, <1>5

-------------------------------------------------------------------------------
(* Each step preserves the invariant. *)

\* What leaves the tree, the stacks and the elements that have been opened alone.
LEMMA QuietStep ==
    ASSUME IInv, outcome = "parsing", outcome' \notin {"tooComplex", "multipleRoots"},
           UNCHANGED <<tree, stack, open, closing, doc>>, pos' \in Nat \ {0}, Started' = Started
    PROVE  IInv'
BY DEF IInv, Typed, Counted, StackIsPath

\* A start tag within the limits is a node below the top of the stack.
LEMMA StartElementStep == ASSUME IInv, StartElement PROVE IInv'
<1> DEFINE m == Markup
           node == [name |-> m.name, attrs |-> m.attrs, text |-> <<>>,
                    parent |-> IF stack = <<>> THEN 0 ELSE Last(stack)]
<1>1. /\ m.kind = "start" /\ Advance /\ outcome = "parsing" /\ doc' = doc
      /\ open' = Append(open, m.name) /\ closing' = IF m.selfClosing THEN <<m.name>> ELSE <<>>
  BY DEF StartElement, Advance
<1>2. Typed /\ Counted
  BY DEF IInv
<1>3. /\ m.name \in STRING /\ m.attrs \in Attributes /\ pos' \in Nat \ {0}
      /\ Cardinality(Started') = Cardinality(Started) + 1
  BY <1>1, <1>2, OneStarted, Kinds
<1>4. Cardinality(Started) \in Nat /\ MaxDepth \in Nat /\ MaxNodes \in Nat
  BY <1>2, StartedFinite, LimitsAssumption
<1>5. /\ StackIsPath /\ Len(tree) = Cardinality(Started)
      /\ Len(open) <= MaxDepth /\ Cardinality(Started) <= MaxNodes
  BY <1>1, <1>2 DEF Counted
<1>6. open \in Seq(STRING) /\ tree \in Seq(Node) /\ stack \in Seq(Nat)
  BY <1>2 DEF Typed
<1>7. open' \in Seq(STRING) /\ Len(open') = Len(open) + 1 /\ closing' \in Seq(STRING)
  <2>1. Append(open, m.name) \in Seq(STRING) /\ Len(Append(open, m.name)) = Len(open) + 1
    BY <1>3, <1>6
  <2>2. <<>> \in Seq(STRING) /\ <<m.name>> \in Seq(STRING)
    BY <1>3
  <2> QED
    BY <1>1, <2>1, <2>2
<1>8. CASE Refusal # "none"
  <2>1. outcome' = Refusal /\ UNCHANGED <<tree, stack, result>>
    BY <1>8 DEF StartElement, Fail
  <2>2. \/ Refusal = "tooComplex" /\ (Len(stack) + 1 > MaxDepth \/ Len(tree) + 1 > MaxNodes)
        \/ /\ Refusal = "multipleRoots"
           /\ ~(Len(stack) + 1 > MaxDepth) /\ ~(Len(tree) + 1 > MaxNodes)
    BY <1>8 DEF Refusal
  <2>3. Typed'
    BY <1>1, <1>2, <1>3, <1>7, <2>1 DEF Typed
  <2>4. Counted'
    BY <1>3, <1>4, <1>5, <1>6, <1>7, <2>1, <2>2 DEF Counted, StackIsPath
  <2> QED
    BY <2>3, <2>4 DEF IInv
<1>9. CASE Refusal = "none"
  <2>1. /\ tree' = Append(tree, node) /\ stack' = Append(stack, Len(tree) + 1)
        /\ outcome' = outcome
    BY <1>9 DEF StartElement
  <2>2. ~(Len(stack) + 1 > MaxDepth) /\ ~(Len(tree) + 1 > MaxNodes)
    BY <1>9 DEF Refusal
  <2>3. stack # <<>> => /\ Last(stack) = stack[Len(stack)] /\ Last(stack) \in Nat
                        /\ Len(stack) \in DOMAIN stack
    BY <1>6 DEF Last
  <2>4. node \in Node
    BY <1>3, <2>3 DEF Node
  <2>5. /\ node.name = m.name
        /\ node.parent = IF stack = <<>> THEN 0 ELSE stack[Len(stack)]
    BY <2>3
  <2> HIDE DEF node, m
  <2>6. /\ tree' \in Seq(Node) /\ Len(tree') = Len(tree) + 1 /\ tree'[Len(tree) + 1] = node
        /\ \A n \in DOMAIN tree : n \in DOMAIN tree' /\ tree'[n] = tree[n]
    BY <1>6, <2>1, <2>4
  <2>7. /\ stack' \in Seq(Nat) /\ Len(stack') = Len(stack) + 1 /\ stack'[Len(stack) + 1] = Len(tree) + 1
        /\ \A i \in DOMAIN stack : stack'[i] = stack[i]
    BY <1>6, <2>1
  <2>8. /\ open'[Len(open) + 1] = m.name /\ \A i \in DOMAIN open : open'[i] = open[i]
    BY <1>1, <1>3, <1>6
  <2>9. \A i \in DOMAIN stack' : stack'[i] \in DOMAIN tree'
    <3> SUFFICES ASSUME NEW i \in DOMAIN stack' PROVE stack'[i] \in DOMAIN tree'
      OBVIOUS
    <3>1. CASE i \in DOMAIN stack
      BY <1>2, <2>6, <2>7, <3>1 DEF Typed
    <3>2. CASE i = Len(stack) + 1
      BY <1>6, <2>6, <2>7, <3>2
    <3> QED
      BY <1>6, <2>7, <3>1, <3>2
  <2>10. Typed'
    BY <1>1, <1>2, <1>3, <1>7, <2>6, <2>7, <2>9 DEF Typed
  <2>11. StackIsPath'
    <3>1. ASSUME NEW i \in DOMAIN stack'
          PROVE  /\ tree'[stack'[i]].name = open'[i]
                 /\ tree'[stack'[i]].parent = IF i = 1 THEN 0 ELSE stack'[i - 1]
      <4>1. CASE i \in DOMAIN stack
        <5>1. stack'[i] = stack[i] /\ tree'[stack[i]] = tree[stack[i]] /\ open'[i] = open[i]
          BY <1>2, <1>5, <1>6, <2>6, <2>7, <2>8, <4>1 DEF Typed, StackIsPath
        <5>2. i # 1 => stack'[i - 1] = stack[i - 1]
          BY <1>6, <2>7, <4>1
        <5> QED
          BY <1>5, <4>1, <5>1, <5>2 DEF StackIsPath
      <4>2. CASE i = Len(stack) + 1
        <5>1. stack'[i] = Len(tree) + 1 /\ tree'[stack'[i]] = node
          BY <2>6, <2>7, <4>2
        <5>2. open'[i] = m.name
          BY <1>5, <2>8, <4>2 DEF StackIsPath
        <5>3. node.parent = IF i = 1 THEN 0 ELSE stack'[i - 1]
          BY <1>6, <2>5, <2>7, <4>2
        <5> QED
          BY <2>5, <5>1, <5>2, <5>3
      <4> QED
        BY <1>6, <2>7, <4>1, <4>2
    <3>2. Len(stack') = Len(open')
      BY <1>5, <1>7, <2>7 DEF StackIsPath
    <3> QED
      BY <3>1, <3>2 DEF StackIsPath
  <2>12. Counted'
    <3>1. Len(tree') = Cardinality(Started')
      BY <1>3, <1>5, <2>6
    <3>2. Len(open') <= MaxDepth
      BY <1>4, <1>5, <1>6, <1>7, <2>2 DEF StackIsPath
    <3>3. Cardinality(Started') <= MaxNodes
      BY <1>3, <1>4, <1>5, <2>2
    <3> QED
      BY <1>1, <2>1, <2>11, <3>1, <3>2, <3>3 DEF Counted
  <2> QED
    BY <2>10, <2>12 DEF IInv
<1> QED
  BY <1>8, <1>9

\* An end of an element takes the top from both stacks.
LEMMA EndElementStep == ASSUME IInv, EndElement PROVE IInv'
<1>1. /\ Markup.kind = "end" /\ open # <<>> /\ Advance /\ outcome = "parsing" /\ doc' = doc
      /\ open' = Front(open) /\ closing' = IF Markup.name = Last(open) THEN <<>> ELSE <<Markup.name>>
      /\ stack' = IF stack # <<>> THEN Front(stack) ELSE stack
      /\ tree' = tree /\ outcome' = outcome
  BY DEF EndElement, Advance
<1>2. Typed /\ Counted /\ StackIsPath
  BY <1>1 DEF IInv, Counted
<1>3. Markup.name \in STRING
  BY <1>1, <1>2, WhatIsRead, Kinds DEF Typed
<1>4. Started' = Started /\ pos' \in Nat \ {0}
  BY <1>1, <1>2, NothingStarted
<1>5. open \in Seq(STRING) /\ stack \in Seq(Nat) /\ Len(stack) = Len(open)
  BY <1>2 DEF Typed, StackIsPath
<1>6. stack' = Front(stack)
  BY <1>1, <1>5
<1>7. /\ open' \in Seq(STRING) /\ Len(open') = Len(open) - 1
      /\ stack' \in Seq(Nat) /\ Len(stack') = Len(stack) - 1
      /\ \A i \in 1 .. Len(open) - 1 : open'[i] = open[i] /\ stack'[i] = stack[i]
  BY <1>1, <1>5, <1>6 DEF Front
<1>8. /\ DOMAIN stack' = 1 .. Len(open) - 1 /\ DOMAIN stack = 1 .. Len(open)
      /\ 1 .. Len(open) - 1 \subseteq 1 .. Len(open)
  BY <1>5, <1>7
<1>9. Typed'
  <2>1. \A i \in DOMAIN stack' : i \in DOMAIN stack /\ stack'[i] = stack[i]
    BY <1>7, <1>8
  <2>2. closing' \in Seq(STRING)
    <3>1. <<>> \in Seq(STRING) /\ <<Markup.name>> \in Seq(STRING)
      BY <1>3
    <3> QED
      BY <1>1, <3>1
  <2> QED
    BY <1>1, <1>2, <1>4, <1>7, <2>1, <2>2 DEF Typed
<1>10. StackIsPath'
  <2>1. ASSUME NEW i \in DOMAIN stack'
        PROVE  /\ tree[stack'[i]].name = open'[i]
               /\ tree[stack'[i]].parent = IF i = 1 THEN 0 ELSE stack'[i - 1]
    <3>1. i \in DOMAIN stack /\ stack'[i] = stack[i] /\ open'[i] = open[i]
      BY <1>7, <1>8
    <3>2. i # 1 => i - 1 \in 1 .. Len(open) - 1
      BY <1>5, <1>8
    <3>3. i # 1 => stack'[i - 1] = stack[i - 1]
      BY <1>7, <3>2
    <3> QED
      BY <1>2, <3>1, <3>3 DEF StackIsPath
  <2> QED
    BY <1>1, <1>5, <1>7, <2>1 DEF StackIsPath
<1>11. Counted'
  BY <1>1, <1>2, <1>4, <1>5, <1>7, <1>10, LimitsAssumption DEF Counted
<1> QED
  BY <1>9, <1>11 DEF IInv

\* A text goes to the node at the top of the stack, and leaves its name and place.
LEMMA CharDataStep == ASSUME IInv, CharData PROVE IInv'
<1>1. /\ Markup.kind = "text" /\ Advance /\ outcome = "parsing" /\ outcome' = outcome
      /\ UNCHANGED <<open, closing, stack, doc>>
  BY DEF CharData, Advance
<1>2. Typed /\ Counted
  BY DEF IInv
<1>3. Started' = Started /\ pos' \in Nat \ {0}
  BY <1>1, <1>2, NothingStarted
<1>4. Markup.text \in Seq(Words)
  BY <1>1, <1>2, WhatIsRead, Kinds
<1>5. /\ tree' \in Seq(Node) /\ Len(tree') = Len(tree)
      /\ \A n \in DOMAIN tree : tree'[n].name = tree[n].name /\ tree'[n].parent = tree[n].parent
  <2>1. CASE stack = <<>>
    BY <1>2, <2>1 DEF CharData, Typed
  <2>2. CASE stack # <<>>
    <3> DEFINE top == Last(stack)
               node == [tree[top] EXCEPT !.text = @ \o Markup.text]
    <3>1. top \in DOMAIN tree /\ tree \in Seq(Node) /\ tree[top] \in Node
      BY <1>2, <2>2 DEF Typed, Last
    <3>2. tree' = [tree EXCEPT ![top] = node]
      BY <2>2, <3>1 DEF CharData
    <3>3. node \in Node /\ node.name = tree[top].name /\ node.parent = tree[top].parent
      <4>1. tree[top].text \o Markup.text \in Seq(Words)
        BY <1>4, <3>1 DEF Node
      <4>2. node = [tree[top] EXCEPT !.text = tree[top].text \o Markup.text]
        BY <3>1 DEF Node
      <4> QED
        BY <3>1, <4>1, <4>2 DEF Node
    <3> HIDE DEF top, node
    <3> QED
      BY <3>1, <3>2, <3>3
  <2> QED
    BY <2>1, <2>2
<1>6. DOMAIN tree' = DOMAIN tree
  BY <1>2, <1>5 DEF Typed
<1>7. Typed'
  BY <1>1, <1>2, <1>3, <1>5, <1>6 DEF Typed
<1>8. StackIsPath => StackIsPath'
  BY <1>1, <1>2, <1>5 DEF StackIsPath, Typed
<1> QED
  BY <1>1, <1>2, <1>3, <1>5, <1>7, <1>8 DEF IInv, Counted

-------------------------------------------------------------------------------
(* The theorems. *)

\* Nothing has been read.
LEMMA InitInvariant == Init => IInv
<1> SUFFICES ASSUME Init PROVE IInv
  OBVIOUS
<1>1. doc \in Seq(Markups)
  BY DocumentsAssumption DEF Init
<1>2. Typed
  BY <1>1 DEF Init, Typed
<1>3. Started = {}
  BY <1>1 DEF Init, Started
<1>4. Cardinality(Started) = 0
  BY <1>3, FS_EmptySet
<1> QED
  BY <1>2, <1>4, LimitsAssumption DEF Init, IInv, Counted, StackIsPath

\* Every token keeps the invariant, and so does the end.
LEMMA NextInvariant == IInv /\ [Next]_vars => IInv'
<1> SUFFICES ASSUME IInv, [Next]_vars PROVE IInv'
  OBVIOUS
<1>1. CASE SyntaxError \/ Directive \/ Other
  <2>1. Markup.kind # "start" /\ Advance /\ outcome = "parsing"
    BY <1>1 DEF SyntaxError, Directive, Other, Advance
  <2>2. Started' = Started /\ pos' \in Nat \ {0}
    BY <2>1, NothingStarted DEF IInv
  <2>3. /\ UNCHANGED <<tree, stack, open, closing, doc>>
        /\ outcome' \notin {"tooComplex", "multipleRoots"}
    BY <1>1 DEF SyntaxError, Directive, Other, Advance, Fail
  <2> QED
    BY <2>1, <2>2, <2>3, QuietStep
<1>2. CASE EndOfDocument
  <2>1. /\ UNCHANGED <<tree, stack, open, closing, doc, pos>> /\ outcome = "parsing"
        /\ outcome' \notin {"tooComplex", "multipleRoots"}
    BY <1>2 DEF EndOfDocument
  <2>2. Started' = Started /\ pos' \in Nat \ {0}
    BY <2>1 DEF Started, IInv, Typed
  <2> QED
    BY <2>1, <2>2, QuietStep
<1>3. CASE UNCHANGED vars
  BY <1>3 DEF vars, IInv, Typed, Counted, StackIsPath, Started
<1> QED
  BY <1>1, <1>2, <1>3, StartElementStep, EndElementStep, CharDataStep DEF Next

\* The invariant holds in every state.
THEOREM Invariance == Spec => []IInv
  BY InitInvariant, NextInvariant, PTL DEF Spec

\* "Too complex" is said of a document exactly when it has opened an element inside of
\* MaxDepth others, or more than MaxNodes elements (decodeTree, parser.go).
THEOREM LimitsHold == Spec => []LimitsAreExact
<1>1. ASSUME IInv PROVE LimitsAreExact
  <2>1. Cardinality(Started) \in Nat /\ Len(open) \in Nat
    BY <1>1, StartedFinite DEF IInv, Typed
  <2>2. outcome = "tooComplex" <=> Len(open) > MaxDepth \/ Cardinality(Started) > MaxNodes
    BY <1>1, <2>1, LimitsAssumption DEF IInv, Counted
  <2> QED
    BY <2>2 DEF LimitsAreExact, Started
<1> QED
  BY <1>1, Invariance, PTL

\* Whatever end tags are missing or out of place, the stack of decodeTree is the path to
\* the element that the decoder is in, unless an element has been refused.
THEOREM StackFollowsDecoder ==
    Spec => [](outcome \notin {"tooComplex", "multipleRoots"} => StackIsPath)
<1>1. IInv => (outcome \notin {"tooComplex", "multipleRoots"} => StackIsPath)
  BY DEF IInv, Counted
<1> QED
  BY <1>1, Invariance, PTL

-------------------------------------------------------------------------------
(* What has been returned. *)

ResultIs ==
    /\ outcome # "ok" => result = <<>>
    /\ outcome = "ok" =>
          /\ open = <<>> /\ tree # <<>>
          /\ \/ /\ tree[1].name = "rss" /\ Child(1, "channel") # 0
                /\ result = <<Parsed(ParseRSS(Child(1, "channel")))>>
             \/ tree[1].name = "feed" /\ result = <<Parsed(ParseAtom(1))>>

\* Nothing is returned before the end.
LEMMA InitResult == Init => ResultIs
BY DEF Init, ResultIs

\* A token returns nothing, and at the end the tree is returned as a feed.
LEMMA NextResult == ResultIs /\ [Next]_vars => ResultIs'
<1> SUFFICES ASSUME ResultIs, [Next]_vars PROVE ResultIs'
  OBVIOUS
<1>1. CASE SyntaxError \/ Directive \/ StartElement \/ EndElement \/ CharData \/ Other
  <2>1. outcome = "parsing" /\ outcome' # "ok" /\ result' = result
    <3>1. outcome = "parsing"
      BY <1>1 DEF SyntaxError, Directive, StartElement, EndElement, CharData, Other, Advance
    <3>2. Refusal # "ok"
      BY DEF Refusal
    <3> QED
      BY <1>1, <3>1, <3>2 DEF SyntaxError, Directive, StartElement, EndElement, CharData, Other, Fail
  <2> QED
    BY <2>1 DEF ResultIs
<1>2. CASE EndOfDocument \/ UNCHANGED vars
  <2>1. UNCHANGED <<tree, stack, open>>
    BY <1>2 DEF EndOfDocument, vars
  <2>2. /\ \A n : ParseRSS(n)' = ParseRSS(n)
        /\ \A n : ParseAtom(n)' = ParseAtom(n)
        /\ \A n, l : Child(n, l)' = Child(n, l)
    BY <2>1, SameFeeds, SameNodes
  <2>3. \A p : Parsed(p)' = Parsed(p)
    BY <2>1 DEF Parsed
  <2> DEFINE rss == Parsed(ParseRSS(Child(1, "channel")))
             atom == Parsed(ParseAtom(1))
  <2>4. rss' = rss /\ atom' = atom
    BY <2>2, <2>3
  <2>5. Child(1, "channel")' = Child(1, "channel")
    BY <2>2
  <2>6. /\ outcome # "ok" => result = <<>>
        /\ outcome = "ok" =>
              /\ open = <<>> /\ tree # <<>>
              /\ \/ tree[1].name = "rss" /\ Child(1, "channel") # 0 /\ result = <<rss>>
                 \/ tree[1].name = "feed" /\ result = <<atom>>
    BY DEF ResultIs
  <2>7. \/ UNCHANGED <<outcome, result>>
        \/ /\ outcome # "ok" /\ open = <<>>
           /\ \/ outcome' # "ok" /\ result' = result
              \/ /\ tree # <<>> /\ tree[1].name = "rss" /\ Child(1, "channel") # 0
                 /\ outcome' = "ok" /\ result' = <<rss>>
              \/ tree # <<>> /\ tree[1].name = "feed" /\ outcome' = "ok" /\ result' = <<atom>>
    BY <1>2 DEF EndOfDocument, vars
  <2> DEFINE R == /\ outcome # "ok" => result = <<>>
                  /\ outcome = "ok" =>
                        /\ open = <<>> /\ tree # <<>>
                        /\ \/ tree[1].name = "rss" /\ Child(1, "channel") # 0 /\ result = <<rss>>
                           \/ tree[1].name = "feed" /\ result = <<atom>>
  <2>8. R'
    <3> HIDE DEF rss, atom
    <3> QED
      BY <2>1, <2>4, <2>5, <2>6, <2>7
  <2> QED
    BY <2>8 DEF ResultIs
<1> QED
  BY <1>1, <1>2 DEF Next

\* What is returned is the feed of the tree.
THEOREM ResultHolds == Spec => []ResultIs
  BY InitResult, NextResult, PTL DEF Spec

\* It is sound, and the stack is empty.
LEMMA ResultIsSound ==
    ASSUME IInv, ResultIs
    PROVE  \A p \in ToSet(result) : Sound(p) /\ "unclosed" \notin ToSet(p.warnings)
<1>1. CASE outcome # "ok"
  BY <1>1 DEF ResultIs, ToSet
<1>2. CASE outcome = "ok"
  <2>1. tree \in Seq(Node) /\ stack \in Seq(Nat) /\ open = <<>> /\ Len(stack) = Len(open)
    BY <1>2 DEF IInv, Typed, Counted, StackIsPath, ResultIs
  <2>2. stack = <<>>
    BY <2>1
  <2>3. PICK p : Sound(p) /\ result = <<Parsed(p)>>
    <3>1. CASE tree[1].name = "rss" /\ result = <<Parsed(ParseRSS(Child(1, "channel")))>>
      BY <2>1, <3>1, RSSFeedIs
    <3>2. CASE tree[1].name = "feed" /\ result = <<Parsed(ParseAtom(1))>>
      BY <2>1, <3>2, AtomFeedIs
    <3> QED
      BY <1>2, <3>1, <3>2 DEF ResultIs
  <2>4. Parsed(p) = p /\ "unclosed" \notin ToSet(p.warnings)
    BY <2>2, <2>3, ParsedIs
  <2>5. ToSet(result) = {p}
    BY <2>3, <2>4 DEF ToSet
  <2> QED
    BY <2>3, <2>4, <2>5
<1> QED
  BY <1>1, <1>2

\* Whatever end tags are missing, superfluous or out of place, the stack of decodeTree is
\* the path from the root to the element that the decoder is in; and it is empty at the
\* end, so that no feed is returned with the warning about it (decodeTree, parser.go).
THEOREM StackHolds == Spec => []StackMirrorsDecoder
<1>1. IInv /\ ResultIs => StackMirrorsDecoder
  BY ResultIsSound DEF StackMirrorsDecoder, IInv, Counted
<1> QED
  BY <1>1, Invariance, ResultHolds, PTL

\* The articles of a feed are its items in their order, less those that have nothing to
\* show; and there is one warning for each of these and for each date of publication
\* that no layout accepts (parseRSS, parseAtom and addArticle, parser.go).
THEOREM ItemsAccounted == Spec => []ItemsAreAccountedFor
<1>1. IInv /\ ResultIs => ItemsAreAccountedFor
  BY ResultIsSound, Zenon DEF ItemsAreAccountedFor, Sound, AccountsFor
<1> QED
  BY <1>1, Invariance, ResultHolds, PTL

\* The lists of categories and tags have every text once, letters of either case being
\* the same, and those of media and images every URL once, whatever the items of the
\* document name (uniqueStrings, mediaFromElement and addMedia, parser.go).
THEOREM ListsComplete == Spec => []ListsAreComplete
<1>1. ASSUME IInv, ResultIs PROVE ListsAreComplete
  <2>1. \A p \in ToSet(result) : \A a \in ToSet(p.articles) :
           Complete(a.lists.categories, a.lists.tags, a.lists.attached,
                    CategoriesOf(a.element), TagsOf(a.element), MediaOf(a.element))
    BY <1>1, ResultIsSound, Zenon DEF Sound, ListsAreCompleteIn
  <2> QED
    BY <2>1, Zenon DEF ListsAreComplete, Complete, CategoriesOf, TagsOf, MediaOf, ImageOf, MediumOf
<1> QED
  BY <1>1, Invariance, ResultHolds, PTL
===============================================================================
