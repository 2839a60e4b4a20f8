--------------------------- MODULE RetryDelayProofs ---------------------------
(***************************************************************************)
(* Proofs about RetryDelay, for every width of a Duration, every           *)
(* configuration and every header.                                         *)
(***************************************************************************)
EXTENDS RetryDelay, FiniteSetTheorems, FunctionTheorems, TLAPS

-------------------------------------------------------------------------------
(* Machine arithmetic. *)

\* A remainder and a quotient belong together.
LEMMA Division ==
    ASSUME NEW a \in Int, NEW b \in Nat \ {0}
    PROVE  /\ a \div b \in Int /\ a % b \in 0 .. b - 1
           /\ a = b * (a \div b) + (a % b)
OBVIOUS

\* What fits is not changed.
LEMMA WrapFits == ASSUME NEW x \in Int64 PROVE Wrap(x) = x
<1> DEFINE a == x + MaxInt + 1  b == 2 * MaxInt + 2  q == a \div b  r == a % b
<1>1. MaxInt \in Nat
  BY SizesAssumption
<1>2. a \in 0 .. b - 1 /\ b \in Nat \ {0} /\ a \in Int
  BY <1>1 DEF Int64
<1>3. q \in Int /\ r \in 0 .. b - 1 /\ a = b * q + r
  BY <1>2, Division
<1>4. r = a
  <2> HIDE DEF a, b, q, r
  <2>1. CASE q >= 1
    <3>1. b * q >= b
      BY <1>2, <1>3, <2>1
    <3> QED
      BY <1>2, <1>3, <3>1
  <2>2. CASE q <= -1
    <3>1. b * q <= -b
      BY <1>2, <1>3, <2>2
    <3> QED
      BY <1>2, <1>3, <3>1
  <2>3. CASE q = 0
    BY <1>2, <1>3, <2>3
  <2> QED
    BY <1>3, <2>1, <2>2, <2>3
<1> QED
  BY <1>1, <1>4 DEF Wrap, Int64

\* Whatever is wrapped fits.
LEMMA WrapInRange == ASSUME NEW x \in Int PROVE Wrap(x) \in Int64
<1> DEFINE a == x + MaxInt + 1  b == 2 * MaxInt + 2
<1>1. MaxInt \in Nat /\ a \in Int /\ b \in Nat \ {0}
  BY SizesAssumption
<1>2. a % b \in 0 .. b - 1
  <2> HIDE DEF a, b
  <2> QED
    BY <1>1, Division
<1> QED
  BY <1>1, <1>2 DEF Wrap, Int64

\* The product that is compared with the maximum, for a number of seconds that does not
\* exceed the maximum's, is the real one, unless the maximum is within a second of the
\* largest Duration; and a larger number of seconds exceeds the maximum.
LEMMA SecondsAreExact ==
    ASSUME NEW n \in Nat, maximum \in Nat, maximum + Second <= MaxInt
    PROVE  SecondsToDelay(n) = IF n * Second > maximum THEN maximum ELSE n * Second
<1> DEFINE a == maximum + Second - 1  q == a \div Second
<1>1. Second \in Nat \ {0} /\ MaxInt \in Nat /\ a \in Nat
  BY SizesAssumption
<1>2. q \in Int /\ a % Second \in 0 .. Second - 1 /\ a = Second * q + (a % Second)
  BY <1>1, Division
<1>3. Second * q <= a /\ Second * q >= maximum
  <2> HIDE DEF q
  <2> QED
    BY <1>1, <1>2
<1>4. CASE n > q
  <2>1. n * Second >= (q + 1) * Second /\ (q + 1) * Second = Second * q + Second
    <3> HIDE DEF q
    <3> QED
      BY <1>1, <1>2, <1>4
  <2>2. n * Second > maximum
    <3> HIDE DEF q
    <3> QED
      BY <1>1, <1>2, <1>3, <2>1
  <2> QED
    BY <1>4, <2>2 DEF SecondsToDelay
<1>5. CASE n <= q
  <2>1. n * Second <= Second * q
    <3> HIDE DEF q
    <3> QED
      BY <1>1, <1>2, <1>5
  <2>2. n * Second \in Nat
    BY <1>1
  <2>3. n * Second \in Int64
    <3> DEFINE product == n * Second  whole == Second * q
    <3>1. /\ product \in Nat /\ product <= whole /\ whole <= maximum + Second - 1
          /\ whole \in Int
      BY <1>1, <1>2, <1>3, <2>1, <2>2
    <3> HIDE DEF product, whole
    <3>2. product \in Int64
      BY <1>1, <3>1 DEF Int64
    <3> QED
      BY <3>2 DEF product
  <2>4. Wrap(n * Second) = n * Second
    BY <2>3, WrapFits
  <2>5. ~(n > q)
    <3> HIDE DEF q
    <3> QED
      BY <1>2, <1>5
  <2> QED
    BY <2>4, <2>5 DEF SecondsToDelay
<1> QED
  <2> HIDE DEF q
  <2> QED
    BY <1>2, <1>4, <1>5

-------------------------------------------------------------------------------
(* Powers of two.  A power counts the subsets of a set, from which the recursive *)
(* equations follow.                                                             *)

\* There are 2 ^ n subsets of the first n numbers.
LEMMA PowerCounts ==
    ASSUME NEW n \in Nat
    PROVE  /\ IsFiniteSet(SUBSET (1 .. n)) /\ 2 ^ n = Cardinality(SUBSET (1 .. n))
           /\ 2 ^ n \in Nat
<1>1. IsFiniteSet(1 .. n) /\ Cardinality(1 .. n) = n
  BY FS_Interval
<1>2. IsFiniteSet(SUBSET (1 .. n)) /\ Cardinality(SUBSET (1 .. n)) = 2 ^ Cardinality(1 .. n)
  BY <1>1, FS_SUBSET
<1>3. Cardinality(SUBSET (1 .. n)) \in Nat
  BY <1>2, FS_CardinalityType
<1> QED
  BY <1>1, <1>2, <1>3

\* The empty set has one subset.
LEMMA PowerZero == 2 ^ 0 = 1
<1>1. SUBSET (1 .. 0) = {{}}
  OBVIOUS
<1>2. Cardinality({{}}) = 1
  BY FS_Singleton
<1> QED
  BY <1>1, <1>2, PowerCounts

\* One more element doubles the subsets: those without it and those with it.
LEMMA PowerDoubles ==
    ASSUME NEW n \in Nat
    PROVE  2 ^ (n + 1) = 2 * 2 ^ n
<1> DEFINE Old == SUBSET (1 .. n)  New == {s \cup {n + 1} : s \in Old}
           F == [s \in Old |-> s \cup {n + 1}]
<1>1. IsFiniteSet(Old) /\ 2 ^ n = Cardinality(Old) /\ 2 ^ n \in Nat
  BY PowerCounts
<1>2. F \in Bijection(Old, New)
  <2>1. F \in [Old -> New]
    OBVIOUS
  <2>2. \A s, t \in Old : F[s] = F[t] => s = t
    <3> SUFFICES ASSUME NEW s \in Old, NEW t \in Old, s \cup {n + 1} = t \cup {n + 1} PROVE s = t
      OBVIOUS
    <3>1. n + 1 \notin s /\ n + 1 \notin t
      OBVIOUS
    <3>2. \A x : x \in s <=> x \in t
      BY <3>1
    <3> QED
      BY <3>2
  <2>3. \A u \in New : \E s \in Old : F[s] = u
    OBVIOUS
  <2> HIDE DEF F, New
  <2> QED
    BY <2>1, <2>2, <2>3, Fun_IsBij
<1>3. IsFiniteSet(New) /\ Cardinality(New) = Cardinality(Old)
  BY <1>1, <1>2, FS_Bijection DEF ExistsBijection
<1>4. SUBSET (1 .. n + 1) = Old \cup New
  <2>1. 1 .. n + 1 = (1 .. n) \cup {n + 1}
    OBVIOUS
  <2>2. ASSUME NEW s \in SUBSET ((1 .. n) \cup {n + 1}) PROVE s \in Old \cup New
    <3>1. CASE n + 1 \in s
      <4>1. s \ {n + 1} \in Old /\ s = (s \ {n + 1}) \cup {n + 1}
        BY <3>1
      <4> QED BY <4>1, Zenon
    <3> QED
      BY <3>1
  <2>3. ASSUME NEW s \in Old \cup New PROVE s \in SUBSET ((1 .. n) \cup {n + 1})
    OBVIOUS
  <2> QED
    BY <2>1, <2>2, <2>3
<1>5. Old \cap New = {}
  OBVIOUS
<1>6. Cardinality(Old \cup New) = Cardinality(Old) + Cardinality(New)
  <2>1. Cardinality(Old \cap New) = 0
    BY <1>5, FS_EmptySet
  <2>2. Cardinality(Old) \in Nat
    BY <1>1
  <2> HIDE DEF Old, New
  <2>3. Cardinality(Old \cup New) = Cardinality(Old) + Cardinality(New) - Cardinality(Old \cap New)
    BY <1>1, <1>3, FS_Union
  <2> QED
    BY <1>3, <2>1, <2>2, <2>3
<1>7. 2 ^ (n + 1) = Cardinality(Old \cup New)
  <2>1. n + 1 \in Nat
    OBVIOUS
  <2>2. 2 ^ (n + 1) = Cardinality(SUBSET (1 .. n + 1))
    BY <2>1, PowerCounts
  <2> QED
    BY <1>4, <2>2
<1> HIDE DEF Old, New
<1> QED
  BY <1>1, <1>3, <1>6, <1>7

\* More elements have no fewer subsets.
LEMMA PowerGrows ==
    ASSUME NEW m \in Nat, NEW n \in Nat, m <= n
    PROVE  2 ^ m <= 2 ^ n
<1>1. SUBSET (1 .. m) \in SUBSET (SUBSET (1 .. n))
  OBVIOUS
<1>2. IsFiniteSet(SUBSET (1 .. n))
  BY PowerCounts
<1>3. Cardinality(SUBSET (1 .. m)) <= Cardinality(SUBSET (1 .. n))
  BY <1>1, <1>2, FS_Subset
<1> QED
  BY <1>3, PowerCounts

-------------------------------------------------------------------------------
(* The inductive invariant. *)

Typed ==
    /\ config \in [base : {-1} \cup Durations, max : {-1} \cup Durations]
    /\ header \in Headers
    /\ pc \in {"configure", "refused", "backoff", "sleep"}
    /\ attempt \in Nat \ {0} /\ step \in Int

\* The loop has doubled the delay step - 1 times, or found that doubling it until the
\* attempt that failed would exceed the maximum.
DoubledSoFar ==
    /\ step \in 1 .. attempt
    /\ \/ delay = base * 2 ^ (step - 1)
       \/ delay = maximum /\ step = attempt /\ base * 2 ^ (attempt - 1) > maximum

IInv == /\ Typed /\ DelayInRange /\ RetryAfterIsHonoured /\ BackoffIsExponential
        /\ pc = "backoff" => DoubledSoFar

\* Nothing has been computed, and the policy is still to be checked by NewClient.
LEMMA InitInvariant == Init => IInv
<1>1. 1 .. MaxAttempts \subseteq Nat \ {0}
  OBVIOUS
<1> QED
  BY <1>1 DEF Init, IInv, Typed, DelayInRange, RetryAfterIsHonoured, BackoffIsExponential

\* A configuration that is accepted, with its defaults.
LEMMA ConfigureStep == ASSUME IInv, Configure PROVE IInv'
<1>1. /\ Typed /\ pc' \in {"refused", "backoff"} /\ step' = 1 /\ delay' = base'
      /\ config' = config /\ attempt' = attempt /\ header' = header
  BY DEF IInv, Configure
<1>2. /\ config.base \in Int /\ config.max \in Int
      /\ config.base <= MaxInt /\ config.max <= MaxInt /\ config.base >= -1 /\ config.max >= -1
  BY <1>1, SizesAssumption DEF Typed, Durations
<1>3. base' = IF config.base = 0 THEN DefaultBase ELSE config.base
  BY DEF Configure
<1>4. maximum' = IF config.max = 0 THEN DefaultMax ELSE config.max
  BY DEF Configure
<1>5. ASSUME pc' = "backoff" PROVE base' \in 1 .. maximum' /\ maximum' \in Durations
  <2>1. ~(config.base < 0) /\ ~(config.max < 0) /\ ~(maximum' < base')
    BY <1>5 DEF Configure
  <2> QED
    BY <1>2, <1>3, <1>4, <2>1, SizesAssumption DEF Durations
<1>6. ASSUME pc' = "backoff" PROVE DoubledSoFar'
  <2>1. base' * 2 ^ 0 = base'
    BY <1>5, <1>6, PowerZero, SizesAssumption DEF Durations
  <2>2. step' - 1 = 0 /\ step' \in 1 .. attempt'
    BY <1>1 DEF Typed
  <2> QED
    BY <1>1, <2>1, <2>2 DEF DoubledSoFar
<1> QED
  BY <1>1, <1>5, <1>6 DEF IInv, Typed, DelayInRange, RetryAfterIsHonoured, BackoffIsExponential

\* A delay that is doubled has room for it.
LEMMA DoubleStep == ASSUME IInv, Double PROVE IInv'
<1>1. /\ Typed /\ pc = "backoff" /\ pc' = pc /\ delay < maximum
      /\ config' = config /\ attempt' = attempt /\ header' = header
      /\ base' = base /\ maximum' = maximum
  BY DEF IInv, Double
<1>2. /\ base \in 1 .. maximum /\ maximum \in Nat /\ maximum <= MaxInt /\ delay \in 1 .. maximum
      /\ MaxInt \in Nat
  BY <1>1, SizesAssumption DEF IInv, DelayInRange, Durations
<1>3. step' \in Int
  BY <1>1 DEF Double, Typed
<1>4. delay' \in 1 .. maximum
  <2>1. CASE delay > maximum \div 2
    BY <1>2, <2>1 DEF Double
  <2>2. CASE ~(delay > maximum \div 2)
    <3>1. delay * 2 \in 1 .. maximum
      BY <1>2, <2>2
    <3>2. Wrap(delay * 2) = delay * 2
      BY <1>2, <3>1, WrapFits DEF Int64
    <3> QED
      BY <2>2, <3>1, <3>2 DEF Double
  <2> QED
    BY <2>1, <2>2
<1>5. DoubledSoFar'
  <2> DEFINE p == 2 ^ (step - 1)  q == 2 ^ (attempt - 1)
  <2>1. /\ step \in Nat \ {0} /\ attempt \in Nat \ {0} /\ step < attempt
        /\ step - 1 \in Nat /\ step \in Nat /\ attempt - 1 \in Nat /\ (step - 1) + 1 = step
        /\ step <= attempt - 1
    BY <1>1 DEF IInv, DoubledSoFar, Typed, Double
  <2>2. delay = base * p
    BY <1>1, <1>2 DEF IInv, DoubledSoFar
  <2>3. 2 ^ ((step - 1) + 1) = 2 * 2 ^ (step - 1)
    BY <2>1, PowerDoubles
  <2>4. p \in Nat /\ q \in Nat /\ 2 ^ step = 2 * p /\ 2 * p <= q
    BY <2>1, <2>3, PowerCounts, PowerGrows
  <2>5. CASE delay > maximum \div 2
    <3>1. delay' = maximum /\ step' = attempt
      BY <2>1, <2>5, <1>1 DEF Double
    <3>2. 2 * delay > maximum
      BY <1>2, <2>5
    <3>3. base * q > maximum
      <4> HIDE DEF p, q
      <4>1. base * (2 * p) <= base * q /\ base * (2 * p) = 2 * (base * p)
        BY <1>2, <2>4
      <4>2. base * q \in Int /\ base * (2 * p) \in Int
        BY <1>2, <2>4
      <4> QED
        BY <1>2, <2>2, <3>2, <4>1, <4>2
    <3> QED
      BY <1>1, <2>1, <3>1, <3>3 DEF DoubledSoFar
  <2>6. CASE ~(delay > maximum \div 2)
    <3>1. delay' = Wrap(delay * 2) /\ step' = step + 1
      BY <2>1, <2>6, <1>1 DEF Double
    <3>2. delay * 2 \in 1 .. maximum
      BY <1>2, <2>6
    <3>3. Wrap(delay * 2) = delay * 2
      BY <1>2, <3>2, WrapFits DEF Int64
    <3>4. delay * 2 = base * (2 * p)
      <4> HIDE DEF p, q
      <4> QED
        BY <1>2, <2>2, <2>4
    <3>5. (step + 1) - 1 = step /\ step + 1 \in 1 .. attempt
      BY <2>1
    <3> QED
      BY <1>1, <2>4, <3>1, <3>3, <3>4, <3>5 DEF DoubledSoFar
  <2> QED
    BY <2>5, <2>6
<1> QED
  BY <1>1, <1>2, <1>3, <1>4, <1>5
     DEF IInv, Typed, DelayInRange, RetryAfterIsHonoured, BackoffIsExponential, Durations

\* What Fetch sleeps for is in range, whichever of the two delays it is.
LEMMA ChooseStep == ASSUME IInv, Choose PROVE IInv'
<1>1. /\ Typed /\ pc = "backoff" /\ pc' = "sleep"
      /\ config' = config /\ attempt' = attempt /\ header' = header /\ step' = step
      /\ base' = base /\ maximum' = maximum
      /\ delay' = IF RetryAfter(header) >= 0 THEN RetryAfter(header)
                  ELSE IF delay > maximum THEN maximum ELSE delay
  BY DEF IInv, Choose
<1>2. /\ base \in 1 .. maximum /\ maximum \in Nat /\ maximum <= MaxInt /\ delay \in 1 .. maximum
      /\ MaxInt \in Nat /\ Second \in Nat \ {0}
  BY <1>1, SizesAssumption DEF IInv, DelayInRange, Durations
<1>3. /\ header.kind \in {"none", "seconds", "date"} /\ header.value \in Int
  BY <1>1, <1>2 DEF Typed, Headers, Int64
<1>4. RetryAfter(header) \in Int /\ RetryAfter(header) <= maximum
  <2>1. CASE header.kind = "seconds"
    <3>1. Wrap(header.value * Second) \in Int
      <4>1. header.value * Second \in Int
        BY <1>2, <1>3
      <4> QED
        BY <4>1, <1>2, WrapInRange DEF Int64
    <3> DEFINE w == Wrap(header.value * Second)  m == (maximum + Second - 1) \div Second
    <3>2. SecondsToDelay(header.value) = IF header.value > m \/ w > maximum THEN maximum ELSE w
      BY DEF SecondsToDelay
    <3> HIDE DEF w, m
    <3>3. SecondsToDelay(header.value) \in Int /\ SecondsToDelay(header.value) <= maximum
      BY <1>2, <3>1, <3>2 DEF w
    <3> QED
      BY <1>2, <2>1, <3>3 DEF RetryAfter
  <2>2. CASE header.kind = "none"
    BY <1>2, <2>2 DEF RetryAfter
  <2>3. CASE header.kind = "date"
    BY <1>2, <1>3, <2>3 DEF RetryAfter
  <2> QED
    BY <1>3, <2>1, <2>2, <2>3
<1>5. delay' \in 0 .. maximum
  BY <1>1, <1>2, <1>4
<1>6. DelayInRange'
  BY <1>1, <1>2, <1>5 DEF DelayInRange, Durations
<1>7. RetryAfterIsHonoured'
  <2> SUFFICES ASSUME header.kind # "none", maximum + Second <= MaxInt
               PROVE  LET asked == IF header.kind = "seconds" THEN header.value * Second
                                                             ELSE header.value IN
                      IF asked < 0 THEN header.kind = "date" => delay' = 0
                      ELSE delay' = IF asked > maximum THEN maximum ELSE asked
    BY <1>1 DEF RetryAfterIsHonoured
  <2>1. CASE header.kind = "date"
    BY <1>1, <1>2, <1>3, <2>1 DEF RetryAfter
  <2>2. CASE header.kind = "seconds"
    <3>1. CASE header.value < 0
      <4>1. header.value * Second < 0
        BY <1>2, <1>3, <3>1
      <4> QED
        BY <2>2, <4>1
    <3>2. CASE header.value >= 0
      <4>1. header.value \in Nat /\ header.value * Second \in Nat
        BY <1>2, <1>3, <3>2
      <4>2. SecondsToDelay(header.value) =
               IF header.value * Second > maximum THEN maximum ELSE header.value * Second
        BY <1>2, <4>1, SecondsAreExact
      <4>3. RetryAfter(header) = SecondsToDelay(header.value)
        BY <2>2, <4>1 DEF RetryAfter
      <4> DEFINE asked == header.value * Second
      <4>4. asked \in Nat /\ RetryAfter(header) = IF asked > maximum THEN maximum ELSE asked
        BY <4>1, <4>2, <4>3
      <4> HIDE DEF asked
      <4>5. ~(asked < 0) /\ delay' = IF asked > maximum THEN maximum ELSE asked
        BY <1>1, <1>2, <4>4
      <4> QED
        BY <2>2, <4>5 DEF asked
    <3> QED
      BY <1>3, <3>1, <3>2
  <2> QED
    BY <1>3, <2>1, <2>2
<1>8. BackoffIsExponential'
  <2> SUFFICES ASSUME header.kind = "none" \/ (header.kind = "seconds" /\ header.value < 0)
               PROVE  delay' = IF base * 2 ^ (attempt - 1) > maximum THEN maximum
                               ELSE base * 2 ^ (attempt - 1)
    BY <1>1 DEF BackoffIsExponential
  <2> DEFINE p == 2 ^ (step - 1)  q == 2 ^ (attempt - 1)
  <2>1. delay' = delay
    <3>1. RetryAfter(header) = -1
      BY DEF RetryAfter
    <3> QED
      BY <1>1, <1>2, <3>1
  <2>2. DoubledSoFar /\ step \in 1 .. attempt /\ attempt \in Nat
    BY <1>1 DEF IInv, Typed, DoubledSoFar
  <2>3. p \in Nat /\ q \in Nat /\ p <= q
    <3>1. step - 1 \in Nat /\ attempt - 1 \in Nat /\ step - 1 <= attempt - 1
      BY <2>2
    <3> QED
      BY <3>1, PowerCounts, PowerGrows
  <2>4. CASE delay = maximum /\ base * q > maximum
    BY <2>1, <2>4
  <2>5. CASE delay = base * p
    <3>1. step = attempt \/ delay = maximum
      BY <1>2, <2>2 DEF Choose
    <3>2. CASE step = attempt
      <4>1. base * q = delay
        BY <2>5, <3>2
      <4> QED
        BY <1>2, <2>1, <4>1
    <3>3. CASE delay = maximum
      <4> HIDE DEF p, q
      <4>1. base * q >= base * p /\ base * q \in Int
        BY <1>2, <2>3
      <4>2. base * q >= maximum
        BY <2>5, <3>3, <4>1
      <4>3. delay' = IF base * q > maximum THEN maximum ELSE base * q
        BY <1>2, <2>1, <3>3, <4>1, <4>2
      <4> QED
        BY <4>3 DEF q
    <3> QED
      BY <3>1, <3>2, <3>3
  <2> QED
    BY <2>2, <2>4, <2>5 DEF DoubledSoFar
<1> QED
  BY <1>1, <1>6, <1>7, <1>8 DEF IInv, Typed

-------------------------------------------------------------------------------
\* The invariant holds in every reachable state.
THEOREM Invariance == Spec => []IInv
<1>1. IInv /\ [Next]_vars => IInv'
  <2> SUFFICES ASSUME IInv, [Next]_vars PROVE IInv'
    OBVIOUS
  <2>1. CASE UNCHANGED vars
    BY <2>1 DEF vars, IInv, Typed, DelayInRange, RetryAfterIsHonoured, BackoffIsExponential,
                DoubledSoFar
  <2> QED
    BY <2>1, ConfigureStep, DoubleStep, ChooseStep DEF Next
<1> QED
  BY <1>1, InitInvariant, PTL DEF Spec

\* Fetch never sleeps for a negative time or for longer than MaxBackoff, at any width of
\* a Duration: no product of the loop or of a header overflows into the delay.
THEOREM DelayStaysInRange == Spec => []DelayInRange
<1>1. IInv => DelayInRange
  BY DEF IInv
<1> QED
  BY <1>1, Invariance, PTL

\* A server's Retry-After is honoured up to MaxBackoff, at any width of a Duration.
THEOREM RetryAfterHolds == Spec => []RetryAfterIsHonoured
<1>1. IInv => RetryAfterIsHonoured
  BY DEF IInv
<1> QED
  BY <1>1, Invariance, PTL

\* Without a usable header Fetch sleeps for BaseBackoff doubled for every attempt before,
\* up to MaxBackoff, after any number of attempts: the early return of the loop, its guard
\* against overflow and the width of a Duration change nothing.
THEOREM BackoffHolds == Spec => []BackoffIsExponential
<1>1. IInv => BackoffIsExponential
  BY DEF IInv
<1> QED
  BY <1>1, Invariance, PTL
===============================================================================
