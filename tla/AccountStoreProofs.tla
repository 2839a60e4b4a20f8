-------------------------- MODULE AccountStoreProofs --------------------------
(***************************************************************************)
(* Proofs about AccountStore, for any number of calls and any inputs.      *)
(***************************************************************************)
EXTENDS AccountStore, TLAPS

-------------------------------------------------------------------------------
(* The inductive invariant. *)

\* An input that has been sent is valid, and an outcome tells what running its
\* statement brought back.
Told(c) ==
    /\ pc[c] = "validate" => stmt[c] = "unsent" /\ outcome[c] = "running"
    /\ pc[c] = "wait" => stmt[c] # "unsent" /\ outcome[c] = "running"
    /\ stmt[c] # "unsent" => ValidWrite(input[c])
    /\ outcome[c] = "ok" => stmt[c] = "fits"
    /\ outcome[c] \in {"rebound", "unique"} => stmt[c] = outcome[c]

\* What a statement that fits has written is still there, told to the caller or not.
Fitted(c) ==
    stmt[c] = "fits" =>
        LET w == input[c] IN
        /\ w.op = "user" => users[w.id] = [subject |-> w.subject]
        /\ w.op = "feed" => /\ Stored(feeds, w.id)
                            /\ feeds[w.id].first <= w.at /\ w.at <= feeds[w.id].last
        /\ w.op = "subscription" => /\ Stored(subscriptions, w.id)
                                    /\ subscriptions[w.id].user = w.user
                                    /\ subscriptions[w.id].feed = w.feed
        /\ w.op = "state" => Stored(states, <<w.user, w.article>>)

\* What a statement was refused over is still there.
Refused(c) ==
    stmt[c] \in {"rebound", "unique"} =>
        LET w == input[c] IN
        /\ w.op = "user" =>
              \/ Stored(users, w.id) /\ users[w.id] # [subject |-> w.subject]
              \/ \E u \in Users \ {w.id} : users[u] = [subject |-> w.subject]
        /\ w.op = "subscription" =>
              \E i \in SubscriptionIds : Stored(subscriptions, i) /\
                 ((i = w.id) # (subscriptions[i].user = w.user /\ subscriptions[i].feed = w.feed))

\* No subject is two users'.
UniqueSubjects ==
    \A u, v \in Users : Stored(users, u) /\ users[u] = users[v] => u = v

IInv == /\ TypeOK
        /\ UniqueSubjects
        /\ SeenWindow
        /\ \A c \in Calls : Told(c) /\ Fitted(c) /\ Refused(c)

-------------------------------------------------------------------------------
(* Inputs and rows. *)

\* An input is what its operation takes.
LEMMA Operations ==
    ASSUME NEW w \in Writes
    PROVE  /\ w.op = "user" => w \in UserWrite
           /\ w.op = "feed" => w \in FeedWrite
           /\ w.op = "subscription" => w \in SubscriptionWrite
           /\ w.op = "state" => w \in StateWrite
           /\ w.op \in {"user", "feed", "subscription", "state"}
BY AccountWritesAssumption DEF UserWrite, FeedWrite, SubscriptionWrite, StateWrite

\* What the validation lets through has no blank field and no zero time.
LEMMA ValidInputs ==
    ASSUME NEW w \in Writes, ValidWrite(w)
    PROVE  /\ w.op = "user" => w.id \in Users /\ w.subject \in Subjects
           /\ w.op = "feed" => w.id \in Feeds /\ w.site \in Sites /\ w.at \in Times
           /\ w.op = "subscription" =>
                 /\ w.id \in SubscriptionIds /\ w.user \in Users /\ w.feed \in Feeds
                 /\ w.at \in Times /\ w.disabled \in BOOLEAN
           /\ w.op = "state" => /\ w.user \in Users /\ w.article \in Articles
                                /\ w.value \in Values /\ w.at \in Times
<1>1. ASSUME w.op = "user" PROVE w.id \in Users /\ w.subject \in Subjects
  <2>1. w \in UserWrite
    BY <1>1, Operations
  <2> QED
    BY <1>1, <2>1 DEF UserWrite, ValidWrite, ValidUser
<1>2. ASSUME w.op = "feed" PROVE w.id \in Feeds /\ w.site \in Sites /\ w.at \in Times
  <2>1. w \in FeedWrite
    BY <1>2, Operations
  <2> QED
    BY <1>2, <2>1 DEF FeedWrite, ValidWrite, ValidFeed
<1>3. ASSUME w.op = "subscription"
      PROVE  /\ w.id \in SubscriptionIds /\ w.user \in Users /\ w.feed \in Feeds
             /\ w.at \in Times /\ w.disabled \in BOOLEAN
  <2>1. w \in SubscriptionWrite
    BY <1>3, Operations
  <2> QED
    BY <1>3, <2>1 DEF SubscriptionWrite, ValidWrite, ValidSubscription
<1>4. ASSUME w.op = "state"
      PROVE  w.user \in Users /\ w.article \in Articles /\ w.value \in Values /\ w.at \in Times
  <2>1. w \in StateWrite
    BY <1>4, Operations
  <2> QED
    BY <1>4, <2>1 DEF StateWrite, ValidWrite, ValidState
<1> QED
  BY <1>1, <1>2, <1>3, <1>4

\* No row is taken for a missing one.
LEMMA RowsAreStored ==
    /\ \A r \in UserRow \cup FeedRow \cup SubscriptionRow \cup StateRow : r # NoRow
BY AccountSentinelAssumption

-------------------------------------------------------------------------------
(* Steps.  No step takes back what the tables promise. *)

\* Rows stay, users and subscriptions stay bound, and windows of sightings only widen.
Grows ==
    /\ AccountBindingStays
    /\ \A i \in SubscriptionIds : Stored(subscriptions, i) => subscriptions'[i] # NoRow
    /\ \A f \in Feeds : Stored(feeds, f) =>
          /\ feeds'[f] # NoRow
          /\ feeds'[f].first <= feeds[f].first /\ feeds[f].last <= feeds'[f].last
    /\ \A p \in Users \X Articles : Stored(states, p) => states'[p] # NoRow

\* What a statement wrote or was refused over is there after every step.
LEMMA Kept ==
    ASSUME IInv, TypeOK', Grows, input' = input,
           NEW c \in Calls, stmt'[c] = stmt[c]
    PROVE  Fitted(c)' /\ Refused(c)'
<1> DEFINE w == input[c]
<1>1. w \in Writes /\ w' = w /\ Fitted(c) /\ Refused(c) /\ Told(c)
  BY DEF IInv, TypeOK
<1>2. ASSUME stmt[c] = "fits" PROVE Fitted(c)'
  <2>1. ValidWrite(w)
    BY <1>1, <1>2 DEF Told
  <2>2. ASSUME w.op = "user" PROVE users'[w.id] = [subject |-> w.subject]
    <3>1. w.id \in Users /\ [subject |-> w.subject] \in UserRow
      BY <1>1, <2>1, <2>2, ValidInputs DEF UserRow
    <3> QED
      BY <1>1, <1>2, <2>2, <3>1, RowsAreStored DEF Fitted, Grows, AccountBindingStays, Stored
  <2>3. ASSUME w.op = "feed"
        PROVE  feeds'[w.id] # NoRow /\ feeds'[w.id].first <= w.at /\ w.at <= feeds'[w.id].last
    <3>1. w.id \in Feeds /\ w.at \in Nat
      BY <1>1, <2>1, <2>3, ValidInputs, AccountTimesAssumption
    <3>2. /\ Stored(feeds, w.id) /\ feeds[w.id].first <= w.at /\ w.at <= feeds[w.id].last
          /\ feeds'[w.id] # NoRow
          /\ feeds'[w.id].first <= feeds[w.id].first /\ feeds[w.id].last <= feeds'[w.id].last
      BY <1>1, <1>2, <2>3, <3>1 DEF Fitted, Grows
    <3>3. feeds[w.id] \in FeedRow /\ feeds'[w.id] \in FeedRow
      BY <3>1, <3>2 DEF IInv, TypeOK, Stored
    <3>4. /\ feeds[w.id].first \in Nat /\ feeds[w.id].last \in Nat
          /\ feeds'[w.id].first \in Nat /\ feeds'[w.id].last \in Nat
      BY <3>3, AccountTimesAssumption DEF FeedRow
    <3> QED
      BY <3>1, <3>2, <3>4
  <2>4. ASSUME w.op = "subscription"
        PROVE  /\ subscriptions'[w.id] # NoRow
               /\ subscriptions'[w.id].user = w.user /\ subscriptions'[w.id].feed = w.feed
    <3>1. w.id \in SubscriptionIds
      BY <1>1, <2>1, <2>4, ValidInputs
    <3> QED
      BY <1>1, <1>2, <2>4, <3>1 DEF Fitted, Grows, AccountBindingStays
  <2>5. ASSUME w.op = "state" PROVE states'[<<w.user, w.article>>] # NoRow
    <3>1. <<w.user, w.article>> \in Users \X Articles
      BY <1>1, <2>1, <2>5, ValidInputs
    <3> QED
      BY <1>1, <1>2, <2>5, <3>1 DEF Fitted, Grows
  <2> QED
    BY <1>1, <2>2, <2>3, <2>4, <2>5 DEF Fitted, Stored
<1>3. ASSUME stmt[c] \in {"rebound", "unique"} PROVE Refused(c)'
  <2>1. ValidWrite(w)
    BY <1>1, <1>3 DEF Told
  <2>2. ASSUME w.op = "user"
        PROVE  \/ users'[w.id] # NoRow /\ users'[w.id] # [subject |-> w.subject]
               \/ \E u \in Users \ {w.id} : users'[u] = [subject |-> w.subject]
    <3>1. w.id \in Users /\ [subject |-> w.subject] \in UserRow
      BY <1>1, <2>1, <2>2, ValidInputs DEF UserRow
    <3>2. CASE Stored(users, w.id) /\ users[w.id] # [subject |-> w.subject]
      BY <3>1, <3>2 DEF Grows, AccountBindingStays, Stored
    <3>3. CASE \E u \in Users \ {w.id} : users[u] = [subject |-> w.subject]
      BY <3>1, <3>3, RowsAreStored DEF Grows, AccountBindingStays, Stored
    <3> QED
      BY <1>1, <1>3, <2>2, <3>2, <3>3 DEF Refused
  <2>3. ASSUME w.op = "subscription"
        PROVE  \E i \in SubscriptionIds : subscriptions'[i] # NoRow /\
                 ((i = w.id) # (subscriptions'[i].user = w.user /\ subscriptions'[i].feed = w.feed))
    <3>1. PICK i \in SubscriptionIds : Stored(subscriptions, i) /\
             ((i = w.id) # (subscriptions[i].user = w.user /\ subscriptions[i].feed = w.feed))
      BY <1>1, <1>3, <2>3 DEF Refused
    <3>2. /\ subscriptions'[i] # NoRow
          /\ subscriptions'[i].user = subscriptions[i].user
          /\ subscriptions'[i].feed = subscriptions[i].feed
      BY <3>1 DEF Grows, AccountBindingStays
    <3> QED
      BY <3>1, <3>2
  <2> QED
    BY <1>1, <2>2, <2>3 DEF Refused, Stored
<1> QED
  BY <1>2, <1>3 DEF Fitted, Refused

\* A step that leaves the tables alone keeps all that is said of them.
LEMMA TablesUnchanged ==
    ASSUME IInv, UNCHANGED tables
    PROVE  Grows /\ UniqueSubjects'
<1>1. /\ \A f \in Feeds : Stored(feeds, f) => feeds[f].first \in Nat /\ feeds[f].last \in Nat
  BY AccountTimesAssumption DEF IInv, TypeOK, FeedRow, Stored
<1>2. Grows
  BY <1>1 DEF Grows, AccountBindingStays, tables, Stored
<1> QED
  BY <1>2 DEF IInv, UniqueSubjects, tables, Stored

\* The sightings of f: what the statements that fit have written of it.
Sightings(f) ==
    {input[c].at : c \in {d \in Calls : stmt[d] = "fits" /\ input[d].op = "feed" /\ input[d].id = f}}

\* A window spans its sightings for as long as there is no further one.
LEMMA WindowKept ==
    ASSUME IInv, feeds' = feeds, input' = input,
           \A d \in Calls : input[d].op = "feed" => (stmt'[d] = "fits" <=> stmt[d] = "fits")
    PROVE  SeenWindow'
<1>1. \A f \in Feeds : Sightings(f)' = Sightings(f)
  BY DEF Sightings
<1> QED
  BY <1>1 DEF IInv, SeenWindow, Sightings, Stored

\* A statement that has run tells its call nothing it has not brought back.
LEMMA RunTold ==
    ASSUME IInv, NEW c \in Calls, stmt[c] = "sent", UNCHANGED <<input, pc, outcome>>,
           NEW brought \in {"fits", "rebound", "unique", "reference", "failed"},
           stmt' = [stmt EXCEPT ![c] = brought]
    PROVE  /\ stmt' \in [Calls -> {"unsent", "sent", "fits", "rebound", "unique", "reference", "failed"}]
           /\ \A d \in Calls : Told(d)'
           /\ stmt'[c] = brought /\ \A d \in Calls \ {c} : stmt'[d] = stmt[d]
<1>1. stmt \in [Calls -> {"unsent", "sent", "fits", "rebound", "unique", "reference", "failed"}]
  BY DEF IInv, TypeOK
<1>2. stmt'[c] = brought /\ \A d \in Calls \ {c} : stmt'[d] = stmt[d]
  BY <1>1
<1>3. \A d \in Calls : Told(d)'
  <2> SUFFICES ASSUME NEW d \in Calls PROVE Told(d)'
    OBVIOUS
  <2>1. Told(d)
    BY DEF IInv
  <2>2. CASE d = c
    BY <1>2, <2>1, <2>2 DEF Told
  <2>3. CASE d # c
    BY <1>2, <2>1, <2>3 DEF Told
  <2> QED
    BY <2>2, <2>3
<1> QED
  BY <1>1, <1>2, <1>3

\* A user is inserted with a subject that nobody has, or left as it is.
LEMMA RunUserStep == ASSUME IInv, NEW c \in Calls, RunUser(c) PROVE IInv' /\ AccountBindingStays
<1> DEFINE w == input[c]
           fits == users'[w.id].subject = w.subject
<1>1. /\ stmt[c] = "sent" /\ w.op = "user" /\ ConstraintError(w) = "none"
      /\ UNCHANGED <<input, feeds, subscriptions, states, pc, outcome>>
      /\ users' = [users EXCEPT ![w.id] = IF @ = NoRow THEN [subject |-> w.subject] ELSE @]
      /\ stmt' = [stmt EXCEPT ![c] = IF fits THEN "fits" ELSE "rebound"]
  BY DEF RunUser, Runs, BringsBack
<1>2. /\ w \in Writes /\ ValidWrite(w) /\ TypeOK /\ UniqueSubjects
      /\ w.id \in Users /\ w.subject \in Subjects /\ [subject |-> w.subject] \in UserRow
  <2>1. w \in Writes /\ ValidWrite(w)
    BY <1>1 DEF IInv, TypeOK, Told
  <2> QED
    BY <1>1, <2>1, ValidInputs DEF UserRow, IInv
<1>3. /\ users'[w.id] = IF Stored(users, w.id) THEN users[w.id] ELSE [subject |-> w.subject]
      /\ \A u \in Users \ {w.id} : users'[u] = users[u]
      /\ users' \in [Users -> UserRow \cup {NoRow}] /\ users'[w.id] \in UserRow
  BY <1>1, <1>2 DEF TypeOK, Stored
<1>4. Stored(users, w.id) \/ \A u \in Users : users[u] # [subject |-> w.subject]
  BY <1>1 DEF ConstraintError
<1>5. /\ stmt' \in [Calls -> {"unsent", "sent", "fits", "rebound", "unique", "reference", "failed"}]
      /\ \A d \in Calls : Told(d)'
      /\ stmt'[c] = (IF fits THEN "fits" ELSE "rebound") /\ \A d \in Calls \ {c} : stmt'[d] = stmt[d]
  BY <1>1, RunTold
<1>6. TypeOK'
  BY <1>1, <1>2, <1>3, <1>5 DEF TypeOK
<1>7. Grows
  <2>1. \A f \in Feeds : Stored(feeds, f) => feeds[f].first \in Nat /\ feeds[f].last \in Nat
    BY <1>2, AccountTimesAssumption DEF TypeOK, FeedRow, Stored
  <2> QED
    BY <1>1, <1>3, <2>1 DEF Grows, AccountBindingStays, Stored
<1>8. UniqueSubjects'
  BY <1>2, <1>3, <1>4, RowsAreStored DEF UniqueSubjects, Stored
<1>9. SeenWindow'
  BY <1>1, <1>5, WindowKept
<1>10. Fitted(c)' /\ Refused(c)'
  <2>1. users'[w.id] = [subject |-> users'[w.id].subject]
    BY <1>3 DEF UserRow
  <2>2. users'[w.id] # NoRow
    BY <1>3, RowsAreStored
  <2> QED
    BY <1>1, <1>5, <2>1, <2>2 DEF Fitted, Refused, Stored
<1> QED
  BY <1>1, <1>5, <1>6, <1>7, <1>8, <1>9, <1>10, Kept DEF IInv, Grows

\* A feed takes a URL that no other feed has, and its window takes in one sighting.
LEMMA RunFeedStep == ASSUME IInv, NEW c \in Calls, RunFeed(c) PROVE IInv' /\ AccountBindingStays
<1> DEFINE w == input[c]
<1>1. /\ stmt[c] = "sent" /\ w.op = "feed" /\ ConstraintError(w) = "none"
      /\ UNCHANGED <<input, users, subscriptions, states, pc, outcome>>
      /\ feeds' = [feeds EXCEPT ![w.id] =
                     IF @ = NoRow THEN [site |-> w.site, first |-> w.at, last |-> w.at]
                     ELSE [site |-> w.site, first |-> Least(@.first, w.at),
                           last |-> Greatest(@.last, w.at)]]
      /\ stmt' = [stmt EXCEPT ![c] = "fits"]
  BY DEF RunFeed, Runs, BringsBack
<1>2. /\ w \in Writes /\ ValidWrite(w) /\ TypeOK /\ UniqueSubjects
      /\ w.id \in Feeds /\ w.site \in Sites /\ w.at \in Times /\ w.at \in Nat
  <2>1. w \in Writes /\ ValidWrite(w)
    BY <1>1 DEF IInv, TypeOK, Told
  <2> QED
    BY <1>1, <2>1, ValidInputs, AccountTimesAssumption DEF IInv
<1>3. \A f \in Feeds : Stored(feeds, f) =>
         feeds[f] \in FeedRow /\ feeds[f].first \in Nat /\ feeds[f].last \in Nat
  BY <1>2, AccountTimesAssumption DEF TypeOK, FeedRow, Stored
<1>4. /\ feeds'[w.id] = [site |-> w.site,
                         first |-> IF Stored(feeds, w.id) THEN Least(feeds[w.id].first, w.at) ELSE w.at,
                         last |-> IF Stored(feeds, w.id) THEN Greatest(feeds[w.id].last, w.at) ELSE w.at]
      /\ \A f \in Feeds \ {w.id} : feeds'[f] = feeds[f]
      /\ feeds' \in [Feeds -> FeedRow \cup {NoRow}] /\ feeds'[w.id] \in FeedRow
  <2> DEFINE row == [site |-> w.site,
                     first |-> IF Stored(feeds, w.id) THEN Least(feeds[w.id].first, w.at) ELSE w.at,
                     last |-> IF Stored(feeds, w.id) THEN Greatest(feeds[w.id].last, w.at) ELSE w.at]
  <2>1. row \in FeedRow
    BY <1>2, <1>3 DEF FeedRow, Least, Greatest
  <2>2. feeds' = [feeds EXCEPT ![w.id] = row]
    BY <1>1, <1>2 DEF Stored, TypeOK
  <2> HIDE DEF row
  <2>3. /\ feeds'[w.id] = row /\ \A f \in Feeds \ {w.id} : feeds'[f] = feeds[f]
        /\ feeds' \in [Feeds -> FeedRow \cup {NoRow}]
    BY <1>2, <2>1, <2>2 DEF TypeOK
  <2> QED
    BY <2>1, <2>3 DEF row
<1>5. feeds'[w.id] # NoRow
  BY <1>4, RowsAreStored
<1>7. /\ stmt' \in [Calls -> {"unsent", "sent", "fits", "rebound", "unique", "reference", "failed"}]
      /\ \A d \in Calls : Told(d)'
      /\ stmt'[c] = "fits" /\ \A d \in Calls \ {c} : stmt'[d] = stmt[d]
  BY <1>1, RunTold
<1>8. TypeOK'
  BY <1>1, <1>2, <1>4, <1>7 DEF TypeOK
<1>9. /\ Stored(feeds, w.id) => /\ feeds'[w.id].first <= feeds[w.id].first
                                /\ feeds[w.id].last <= feeds'[w.id].last
      /\ feeds'[w.id].first <= w.at /\ w.at <= feeds'[w.id].last
  BY <1>2, <1>3, <1>4 DEF Least, Greatest
<1>10. Grows
  BY <1>1, <1>3, <1>4, <1>5, <1>9 DEF Grows, AccountBindingStays, Stored
<1>11. UniqueSubjects'
  BY <1>1, <1>2 DEF UniqueSubjects, Stored
<1>12. SeenWindow'
  <2> SUFFICES ASSUME NEW f \in Feeds, feeds'[f] # NoRow
               PROVE  /\ feeds'[f].first \in Sightings(f)' /\ feeds'[f].last \in Sightings(f)'
                      /\ \A t \in Sightings(f)' : feeds'[f].first <= t /\ t <= feeds'[f].last
    BY DEF SeenWindow, Sightings, Stored
  <2>1. Stored(feeds, f) => /\ feeds[f].first \in Sightings(f) /\ feeds[f].last \in Sightings(f)
                            /\ \A t \in Sightings(f) : feeds[f].first <= t /\ t <= feeds[f].last
    BY DEF IInv, SeenWindow, Sightings
  <2>2. CASE f # w.id
    <3>1. Sightings(f)' = Sightings(f)
      BY <1>1, <1>7, <2>2 DEF Sightings
    <3> QED
      BY <1>4, <2>1, <2>2, <3>1 DEF Stored
  <2>3. CASE f = w.id
    <3>1. Sightings(f)' = Sightings(f) \cup {w.at}
      BY <1>1, <1>7, <2>3 DEF Sightings
    <3>2. CASE Stored(feeds, f)
      <4>1. \A t \in Sightings(f) : t \in Nat
        <5> SUFFICES ASSUME NEW d \in Calls, stmt[d] = "fits", input[d].op = "feed"
                     PROVE  input[d].at \in Nat
          BY DEF Sightings
        <5>1. input[d] \in Writes /\ ValidWrite(input[d])
          BY DEF IInv, TypeOK, Told
        <5> QED
          BY <5>1, ValidInputs, AccountTimesAssumption
      <4>2. /\ feeds'[f].first = Least(feeds[f].first, w.at)
            /\ feeds'[f].last = Greatest(feeds[f].last, w.at)
        BY <1>4, <2>3, <3>2
      <4> QED
        BY <1>2, <1>3, <2>1, <3>1, <3>2, <4>1, <4>2 DEF Least, Greatest
    <3>3. CASE ~Stored(feeds, f)
      <4>1. Sightings(f) = {}
        BY <2>3, <3>3 DEF Sightings, IInv, Fitted
      <4> QED
        BY <1>2, <1>4, <2>3, <3>1, <3>3, <4>1
    <3> QED
      BY <3>2, <3>3
  <2> QED
    BY <2>2, <2>3
<1>13. Fitted(c)' /\ Refused(c)'
  BY <1>1, <1>5, <1>7, <1>9 DEF Fitted, Refused, Stored
<1> QED
  BY <1>1, <1>7, <1>8, <1>10, <1>11, <1>12, <1>13, Kept DEF IInv, Grows

\* A subscription is inserted for a user and feed that have none, or its flag is set.
LEMMA RunSubscriptionStep ==
    ASSUME IInv, NEW c \in Calls, RunSubscription(c) PROVE IInv' /\ AccountBindingStays
<1> DEFINE w == input[c]
           fits == subscriptions'[w.id].user = w.user /\ subscriptions'[w.id].feed = w.feed
<1>1. /\ stmt[c] = "sent" /\ w.op = "subscription" /\ ConstraintError(w) = "none"
      /\ UNCHANGED <<input, users, feeds, states, pc, outcome>>
      /\ subscriptions' = [subscriptions EXCEPT ![w.id] =
                             IF @ = NoRow
                             THEN [user |-> w.user, feed |-> w.feed, created |-> w.at,
                                   disabled |-> w.disabled]
                             ELSE [@ EXCEPT !.disabled = w.disabled]]
      /\ stmt' = [stmt EXCEPT ![c] = IF fits THEN "fits" ELSE "rebound"]
  BY DEF RunSubscription, Runs, BringsBack
<1>2. /\ w \in Writes /\ ValidWrite(w) /\ TypeOK /\ UniqueSubjects
      /\ w.id \in SubscriptionIds /\ w.user \in Users /\ w.feed \in Feeds
      /\ w.at \in Times /\ w.disabled \in BOOLEAN
  <2>1. w \in Writes /\ ValidWrite(w)
    BY <1>1 DEF IInv, TypeOK, Told
  <2> QED
    BY <1>1, <2>1, ValidInputs DEF IInv
<1>3. Stored(subscriptions, w.id) => subscriptions[w.id] \in SubscriptionRow
  BY <1>2 DEF TypeOK, Stored
<1>4. /\ subscriptions'[w.id] \in SubscriptionRow
      /\ Stored(subscriptions, w.id) => /\ subscriptions'[w.id].user = subscriptions[w.id].user
                                        /\ subscriptions'[w.id].feed = subscriptions[w.id].feed
      /\ ~Stored(subscriptions, w.id) => /\ subscriptions'[w.id].user = w.user
                                         /\ subscriptions'[w.id].feed = w.feed
      /\ \A i \in SubscriptionIds \ {w.id} : subscriptions'[i] = subscriptions[i]
      /\ subscriptions' \in [SubscriptionIds -> SubscriptionRow \cup {NoRow}]
  <2>1. CASE Stored(subscriptions, w.id)
    <3> DEFINE row == [subscriptions[w.id] EXCEPT !.disabled = w.disabled]
    <3>1. /\ row \in SubscriptionRow
          /\ row.user = subscriptions[w.id].user /\ row.feed = subscriptions[w.id].feed
      BY <1>2, <1>3, <2>1 DEF SubscriptionRow
    <3>2. subscriptions' = [subscriptions EXCEPT ![w.id] = row]
      BY <1>1, <1>2, <2>1 DEF Stored, TypeOK
    <3> HIDE DEF row
    <3> QED
      BY <1>2, <2>1, <3>1, <3>2 DEF TypeOK
  <2>2. CASE ~Stored(subscriptions, w.id)
    <3> DEFINE row == [user |-> w.user, feed |-> w.feed, created |-> w.at, disabled |-> w.disabled]
    <3>1. row \in SubscriptionRow /\ row.user = w.user /\ row.feed = w.feed
      BY <1>2 DEF SubscriptionRow
    <3>2. subscriptions' = [subscriptions EXCEPT ![w.id] = row]
      BY <1>1, <1>2, <2>2 DEF Stored, TypeOK
    <3> HIDE DEF row
    <3> QED
      BY <1>2, <2>2, <3>1, <3>2 DEF TypeOK
  <2> QED
    BY <2>1, <2>2
<1>5. subscriptions'[w.id] # NoRow
  BY <1>4, RowsAreStored
<1>7. /\ stmt' \in [Calls -> {"unsent", "sent", "fits", "rebound", "unique", "reference", "failed"}]
      /\ \A d \in Calls : Told(d)'
      /\ stmt'[c] = (IF fits THEN "fits" ELSE "rebound") /\ \A d \in Calls \ {c} : stmt'[d] = stmt[d]
  BY <1>1, RunTold
<1>8. TypeOK'
  BY <1>1, <1>2, <1>4, <1>7 DEF TypeOK
<1>9. Grows
  <2>1. \A f \in Feeds : Stored(feeds, f) => feeds[f].first \in Nat /\ feeds[f].last \in Nat
    BY <1>2, AccountTimesAssumption DEF TypeOK, FeedRow, Stored
  <2> QED
    BY <1>1, <1>4, <1>5, <2>1 DEF Grows, AccountBindingStays, Stored
<1>10. UniqueSubjects'
  BY <1>1, <1>2 DEF UniqueSubjects, Stored
<1>11. SeenWindow'
  BY <1>1, <1>7, WindowKept
<1>12. Fitted(c)' /\ Refused(c)'
  BY <1>1, <1>2, <1>5, <1>7 DEF Fitted, Refused, Stored
<1> QED
  BY <1>1, <1>7, <1>8, <1>9, <1>10, <1>11, <1>12, Kept DEF IInv, Grows

\* The state of a user and an article is stored, in place of whatever was there.
LEMMA RunStateStep == ASSUME IInv, NEW c \in Calls, RunState(c) PROVE IInv' /\ AccountBindingStays
<1> DEFINE w == input[c]
<1>1. /\ stmt[c] = "sent" /\ w.op = "state" /\ ConstraintError(w) = "none"
      /\ UNCHANGED <<input, users, feeds, subscriptions, pc, outcome>>
      /\ states' = [states EXCEPT ![<<w.user, w.article>>] =
                      [value |-> w.value, updated |-> w.at]]
      /\ stmt' = [stmt EXCEPT ![c] = "fits"]
  BY DEF RunState, Runs, BringsBack
<1>2. /\ w \in Writes /\ ValidWrite(w) /\ TypeOK /\ UniqueSubjects
      /\ w.user \in Users /\ w.article \in Articles /\ w.value \in Values /\ w.at \in Times
  <2>1. w \in Writes /\ ValidWrite(w)
    BY <1>1 DEF IInv, TypeOK, Told
  <2> QED
    BY <1>1, <2>1, ValidInputs DEF IInv
<1>3. [value |-> w.value, updated |-> w.at] \in StateRow
  BY <1>2 DEF StateRow
<1>4. /\ states'[<<w.user, w.article>>] = [value |-> w.value, updated |-> w.at]
      /\ states'[<<w.user, w.article>>] # NoRow
      /\ \A p \in (Users \X Articles) \ {<<w.user, w.article>>} : states'[p] = states[p]
      /\ states' \in [Users \X Articles -> StateRow \cup {NoRow}]
  BY <1>1, <1>2, <1>3, RowsAreStored DEF TypeOK
<1>5. /\ stmt' \in [Calls -> {"unsent", "sent", "fits", "rebound", "unique", "reference", "failed"}]
      /\ \A d \in Calls : Told(d)'
      /\ stmt'[c] = "fits" /\ \A d \in Calls \ {c} : stmt'[d] = stmt[d]
  BY <1>1, RunTold
<1>6. TypeOK'
  BY <1>1, <1>2, <1>4, <1>5 DEF TypeOK
<1>7. Grows
  <2>1. \A f \in Feeds : Stored(feeds, f) => feeds[f].first \in Nat /\ feeds[f].last \in Nat
    BY <1>2, AccountTimesAssumption DEF TypeOK, FeedRow, Stored
  <2>2. \A p \in Users \X Articles : Stored(states, p) => states'[p] # NoRow
    BY <1>4 DEF Stored
  <2> QED
    BY <1>1, <2>1, <2>2 DEF Grows, AccountBindingStays, Stored
<1>8. UniqueSubjects'
  BY <1>1, <1>2 DEF UniqueSubjects, Stored
<1>9. SeenWindow'
  BY <1>1, <1>5, WindowKept
<1>10. Fitted(c)' /\ Refused(c)'
  BY <1>1, <1>4, <1>5 DEF Fitted, Refused, Stored
<1> QED
  BY <1>1, <1>5, <1>6, <1>7, <1>8, <1>9, <1>10, Kept DEF IInv, Grows

\* A statement that fails has met a row that is there to stay, or nothing is said of it.
LEMMA StatementFailsStep ==
    ASSUME IInv, NEW c \in Calls, StatementFails(c) PROVE IInv' /\ AccountBindingStays
<1> DEFINE w == input[c]
<1>1. PICK e \in {ConstraintError(w), "failed"} \ {"none"} : stmt' = [stmt EXCEPT ![c] = e]
  BY DEF StatementFails
<1>2. stmt[c] = "sent" /\ UNCHANGED <<input, users, feeds, subscriptions, states, pc, outcome>>
  BY DEF StatementFails, tables
<1>3. w \in Writes /\ ValidWrite(w) /\ TypeOK /\ UniqueSubjects
  BY <1>2 DEF IInv, TypeOK, Told
<1>4. e \in {"unique", "reference", "failed"} /\ (e = "unique" => ConstraintError(w) = "unique")
  BY <1>1, <1>3, Operations DEF ConstraintError
<1>5. /\ stmt' \in [Calls -> {"unsent", "sent", "fits", "rebound", "unique", "reference", "failed"}]
      /\ \A d \in Calls : Told(d)'
      /\ stmt'[c] = e /\ \A d \in Calls \ {c} : stmt'[d] = stmt[d]
  BY <1>1, <1>2, <1>4, RunTold
<1>6. TypeOK'
  BY <1>2, <1>3, <1>5 DEF TypeOK
<1>7. Grows /\ UniqueSubjects'
  BY <1>2, TablesUnchanged DEF tables
<1>8. SeenWindow'
  BY <1>2, <1>4, <1>5, WindowKept
<1>9. Fitted(c)'
  BY <1>4, <1>5 DEF Fitted
<1>10. Refused(c)'
  <2>1. ASSUME e = "unique", w.op = "user"
        PROVE  \E u \in Users \ {w.id} : users[u] = [subject |-> w.subject]
    <3>1. ~Stored(users, w.id) /\ \E u \in Users : users[u] = [subject |-> w.subject]
      BY <1>4, <2>1 DEF ConstraintError
    <3>2. [subject |-> w.subject] \in UserRow
      BY <1>3, <2>1, ValidInputs DEF UserRow
    <3> QED
      BY <3>1, <3>2, RowsAreStored DEF Stored
  <2>2. ASSUME e = "unique", w.op = "subscription"
        PROVE  \E i \in SubscriptionIds : Stored(subscriptions, i) /\
                 ((i = w.id) # (subscriptions[i].user = w.user /\ subscriptions[i].feed = w.feed))
    <3>1. /\ ~Stored(subscriptions, w.id)
          /\ \E i \in SubscriptionIds : /\ Stored(subscriptions, i)
                                        /\ subscriptions[i].user = w.user
                                        /\ subscriptions[i].feed = w.feed
      BY <1>4, <2>2 DEF ConstraintError
    <3> QED
      BY <3>1
  <2> QED
    BY <1>2, <1>4, <1>5, <2>1, <2>2 DEF Refused, Stored
<1> QED
  BY <1>2, <1>5, <1>6, <1>7, <1>8, <1>9, <1>10, Kept DEF IInv, Grows

\* The steps of a call that run no statement keep the tables and what was said of them.
LEMMA CallStep ==
    ASSUME IInv, NEW c \in Calls, Send(c) \/ Return(c) \/ GiveUp(c) PROVE IInv' /\ AccountBindingStays
<1>1. UNCHANGED <<input, users, feeds, subscriptions, states>>
  BY DEF Send, Return, GiveUp, tables
<1>2. TypeOK /\ Told(c)
  BY DEF IInv
<1>3. \/ /\ pc[c] = "validate" /\ ValidWrite(input[c])
         /\ pc' = [pc EXCEPT ![c] = "wait"] /\ stmt' = [stmt EXCEPT ![c] = "sent"]
         /\ outcome' = outcome
      \/ /\ pc' = [pc EXCEPT ![c] = "done"] /\ stmt' = stmt
         /\ \/ outcome' = [outcome EXCEPT ![c] = "invalid"]
            \/ outcome' = [outcome EXCEPT ![c] = "failed"]
            \/ /\ stmt[c] \notin {"unsent", "sent"}
               /\ outcome' = [outcome EXCEPT ![c] = IF stmt[c] = "fits" THEN "ok" ELSE stmt[c]]
  BY <1>2 DEF Send, Return, GiveUp, Answer, Told
<1>4. TypeOK'
  BY <1>1, <1>2, <1>3 DEF TypeOK
<1>5. \A d \in Calls : Told(d)'
  <2> SUFFICES ASSUME NEW d \in Calls PROVE Told(d)'
    OBVIOUS
  <2>1. Told(d)
    BY DEF IInv
  <2> QED
    BY <1>1, <1>2, <1>3, <2>1 DEF Told, TypeOK
<1>6. \A d \in Calls : \/ stmt'[d] = stmt[d]
                       \/ d = c /\ stmt[d] = "unsent" /\ stmt'[d] = "sent"
  BY <1>2, <1>3 DEF TypeOK, Told
<1>7. Grows /\ UniqueSubjects'
  BY <1>1, TablesUnchanged DEF tables
<1>8. SeenWindow'
  BY <1>1, <1>6, WindowKept
<1>9. \A d \in Calls : Fitted(d)' /\ Refused(d)'
  <2> SUFFICES ASSUME NEW d \in Calls PROVE Fitted(d)' /\ Refused(d)'
    OBVIOUS
  <2>1. CASE stmt'[d] = stmt[d]
    BY <1>1, <1>4, <1>7, <2>1, Kept
  <2>2. CASE stmt'[d] = "sent"
    BY <2>2 DEF Fitted, Refused
  <2> QED
    BY <1>6, <2>1, <2>2
<1> QED
  BY <1>4, <1>5, <1>7, <1>8, <1>9 DEF IInv, Grows

-------------------------------------------------------------------------------
(* The theorems. *)

\* The tables are empty and no call has validated its input.
LEMMA InitInvariant == Init => IInv
<1> SUFFICES ASSUME Init PROVE IInv
  OBVIOUS
<1>1. TypeOK
  BY DEF Init, TypeOK
<1>2. UniqueSubjects /\ SeenWindow
  BY DEF Init, UniqueSubjects, SeenWindow, Stored
<1>3. \A c \in Calls : Told(c) /\ Fitted(c) /\ Refused(c)
  BY DEF Init, Told, Fitted, Refused
<1> QED
  BY <1>1, <1>2, <1>3 DEF IInv

\* Every step keeps the invariant, and no step rebinds a user or a subscription.
LEMMA NextInvariant == IInv /\ [Next]_vars => IInv' /\ [AccountBindingStays]_vars
<1> SUFFICES ASSUME IInv, [Next]_vars PROVE IInv' /\ [AccountBindingStays]_vars
  OBVIOUS
<1>1. CASE Next
  <2>1. PICK c \in Calls : \/ Send(c) \/ RunUser(c) \/ RunFeed(c) \/ RunSubscription(c)
                           \/ RunState(c) \/ StatementFails(c) \/ Return(c) \/ GiveUp(c)
    BY <1>1 DEF Next
  <2> QED
    BY <2>1, RunUserStep, RunFeedStep, RunSubscriptionStep, RunStateStep, StatementFailsStep, CallStep
<1>2. CASE UNCHANGED vars
  BY <1>2 DEF vars, IInv, TypeOK, UniqueSubjects, SeenWindow, Told, Fitted, Refused, Stored
<1> QED
  BY <1>1, <1>2

\* What has run stays on record.
LEMMA RunsAreRecorded ==
    ASSUME IInv, [Next]_vars
    PROVE  /\ input' = input
           /\ \A d \in Calls : stmt[d] \in {"fits", "rebound"} => stmt'[d] = stmt[d]
<1>1. CASE Next
  <2>1. PICK c \in Calls : \/ Send(c) \/ RunUser(c) \/ RunFeed(c) \/ RunSubscription(c)
                           \/ RunState(c) \/ StatementFails(c) \/ Return(c) \/ GiveUp(c)
    BY <1>1 DEF Next
  <2>2. Told(c) /\ stmt \in [Calls -> {"unsent", "sent", "fits", "rebound", "unique", "reference", "failed"}]
    BY DEF IInv, TypeOK
  <2> QED
    BY <2>1, <2>2 DEF Send, RunUser, RunFeed, RunSubscription, RunState, Runs, BringsBack,
                      StatementFails, Return, GiveUp, Answer, Told
<1>2. CASE UNCHANGED vars
  BY <1>2 DEF vars
<1> QED
  BY <1>1, <1>2

\* A row that stays as it was stays traced, and a row that a statement touches is its.
LEMMA TracedStep ==
    ASSUME IInv, AccountRowsAreTraced, [Next]_vars PROVE AccountRowsAreTraced'
<1>1. /\ input' = input /\ \A op : Wrote(op) \subseteq Wrote(op)'
      /\ \A d \in Calls : stmt[d] \in {"fits", "rebound"} => stmt'[d] \in {"fits", "rebound"}
  BY RunsAreRecorded DEF Wrote
<1>2. \/ UNCHANGED tables
      \/ \E c \in Calls : RunUser(c) \/ RunFeed(c) \/ RunSubscription(c) \/ RunState(c)
  BY DEF Next, vars, tables, Send, StatementFails, Return, GiveUp
<1>3. TypeOK /\ \A c \in Calls : stmt[c] = "sent" => input[c] \in Writes /\ ValidWrite(input[c])
  BY DEF IInv, Told, TypeOK
<1>4. CASE UNCHANGED tables
  BY <1>1, <1>4 DEF AccountRowsAreTraced, Stored, tables
<1>5. ASSUME NEW c \in Calls, RunUser(c) PROVE AccountRowsAreTraced'
  <2> DEFINE w == input[c]
  <2>1. /\ stmt[c] = "sent" /\ w.op = "user" /\ UNCHANGED <<feeds, subscriptions, states>>
        /\ users' = [users EXCEPT ![w.id] = IF @ = NoRow THEN [subject |-> w.subject] ELSE @]
        /\ stmt' = [stmt EXCEPT ![c] = IF users'[w.id].subject = w.subject THEN "fits" ELSE "rebound"]
    BY <1>5 DEF RunUser, Runs, BringsBack
  <2>2. w.id \in Users
    BY <1>3, <2>1, ValidInputs
  <2>3. \A u \in Users : users'[u] # NoRow =>
           \E d \in Wrote("user")' : input[d].id = u /\ input[d].subject = users'[u].subject
    <3> SUFFICES ASSUME NEW u \in Users, users'[u] # NoRow
                 PROVE  \E d \in Wrote("user")' : input[d].id = u /\ input[d].subject = users'[u].subject
      OBVIOUS
    <3>1. CASE Stored(users, u)
      BY <1>1, <1>3, <2>1, <2>2, <3>1 DEF AccountRowsAreTraced, Stored, TypeOK
    <3>2. CASE ~Stored(users, u)
      <4>1. u = w.id /\ users'[u] = [subject |-> w.subject]
        BY <1>3, <2>1, <2>2, <3>2 DEF Stored, TypeOK
      <4>2. c \in Wrote("user")'
        BY <1>1, <1>3, <2>1, <4>1 DEF Wrote, TypeOK
      <4> QED
        BY <4>1, <4>2
    <3> QED
      BY <3>1, <3>2
  <2> QED
    BY <1>1, <2>1, <2>3 DEF AccountRowsAreTraced, Stored
<1>6. ASSUME NEW c \in Calls, RunFeed(c) PROVE AccountRowsAreTraced'
  <2> DEFINE w == input[c]
  <2>1. /\ stmt[c] = "sent" /\ w.op = "feed" /\ UNCHANGED <<users, subscriptions, states>>
        /\ stmt' = [stmt EXCEPT ![c] = "fits"]
        /\ feeds' = [feeds EXCEPT ![w.id] =
                       IF @ = NoRow THEN [site |-> w.site, first |-> w.at, last |-> w.at]
                       ELSE [site |-> w.site, first |-> Least(@.first, w.at),
                             last |-> Greatest(@.last, w.at)]]
    BY <1>6 DEF RunFeed, Runs, BringsBack
  <2>2. w.id \in Feeds
    BY <1>3, <2>1, ValidInputs
  <2>3. feeds'[w.id].site = w.site /\ \A f \in Feeds \ {w.id} : feeds'[f] = feeds[f]
    BY <1>3, <2>1, <2>2 DEF TypeOK
  <2>4. c \in Wrote("feed")'
    BY <1>1, <1>3, <2>1 DEF Wrote, TypeOK
  <2>5. \A f \in Feeds : feeds'[f] # NoRow =>
           \E d \in Wrote("feed")' : input[d].id = f /\ input[d].site = feeds'[f].site
    BY <1>1, <2>3, <2>4 DEF AccountRowsAreTraced, Stored
  <2> QED
    BY <1>1, <2>1, <2>5 DEF AccountRowsAreTraced, Stored
<1>7. ASSUME NEW c \in Calls, RunSubscription(c) PROVE AccountRowsAreTraced'
  <2> DEFINE w == input[c]
             old == subscriptions[w.id]
  <2>1. /\ stmt[c] = "sent" /\ w.op = "subscription" /\ UNCHANGED <<users, feeds, states>>
        /\ subscriptions' = [subscriptions EXCEPT ![w.id] =
              IF @ = NoRow
              THEN [user |-> w.user, feed |-> w.feed, created |-> w.at, disabled |-> w.disabled]
              ELSE [@ EXCEPT !.disabled = w.disabled]]
        /\ stmt' = [stmt EXCEPT ![c] = IF /\ subscriptions'[w.id].user = w.user
                                          /\ subscriptions'[w.id].feed = w.feed
                                       THEN "fits" ELSE "rebound"]
    BY <1>7 DEF RunSubscription, Runs, BringsBack
  <2>2. w.id \in SubscriptionIds
    BY <1>3, <2>1, ValidInputs
  <2>3. \A i \in SubscriptionIds \ {w.id} : subscriptions'[i] = subscriptions[i]
    BY <1>3, <2>1, <2>2 DEF TypeOK
  <2>4. stmt'[c] \in {"fits", "rebound"}
    BY <1>3, <2>1 DEF TypeOK
  <2>5. /\ subscriptions'[w.id].disabled = w.disabled
        /\ \E d \in Wrote("subscription")' :
              /\ input[d].id = w.id
              /\ input[d].user = subscriptions'[w.id].user /\ input[d].feed = subscriptions'[w.id].feed
              /\ input[d].at = subscriptions'[w.id].created
    <3>1. CASE Stored(subscriptions, w.id)
      <4>1. old \in SubscriptionRow /\ subscriptions'[w.id] = [old EXCEPT !.disabled = w.disabled]
        BY <1>3, <2>1, <2>2, <3>1 DEF TypeOK, Stored
      <4> HIDE DEF old
      <4>2. /\ subscriptions'[w.id].disabled = w.disabled /\ subscriptions'[w.id].user = old.user
            /\ subscriptions'[w.id].feed = old.feed /\ subscriptions'[w.id].created = old.created
        BY <4>1 DEF SubscriptionRow
      <4> QED
        BY <1>1, <2>2, <3>1, <4>2 DEF AccountRowsAreTraced, old
    <3>2. CASE ~Stored(subscriptions, w.id)
      <4>1. subscriptions'[w.id] =
               [user |-> w.user, feed |-> w.feed, created |-> w.at, disabled |-> w.disabled]
        BY <1>3, <2>1, <2>2, <3>2 DEF TypeOK, Stored
      <4>2. c \in Wrote("subscription")'
        BY <1>1, <1>3, <2>1, <4>1 DEF Wrote, TypeOK
      <4> QED
        BY <4>1, <4>2
    <3> QED
      BY <3>1, <3>2
  <2>6. \A i \in SubscriptionIds : subscriptions'[i] # NoRow =>
          /\ \E d \in Wrote("subscription")' :
                /\ input[d].id = i
                /\ input[d].user = subscriptions'[i].user /\ input[d].feed = subscriptions'[i].feed
                /\ input[d].at = subscriptions'[i].created
          /\ \E d \in Calls : /\ input[d].op = "subscription" /\ input[d].id = i
                             /\ stmt'[d] \in {"fits", "rebound"}
                             /\ input[d].disabled = subscriptions'[i].disabled
    <3> SUFFICES ASSUME NEW i \in SubscriptionIds, subscriptions'[i] # NoRow
                 PROVE  /\ \E d \in Wrote("subscription")' :
                              /\ input[d].id = i
                              /\ input[d].user = subscriptions'[i].user
                              /\ input[d].feed = subscriptions'[i].feed
                              /\ input[d].at = subscriptions'[i].created
                        /\ \E d \in Calls : /\ input[d].op = "subscription" /\ input[d].id = i
                                           /\ stmt'[d] \in {"fits", "rebound"}
                                           /\ input[d].disabled = subscriptions'[i].disabled
      OBVIOUS
    <3>1. CASE i = w.id
      BY <2>1, <2>4, <2>5, <3>1
    <3>2. CASE i # w.id
      BY <1>1, <2>3, <3>2 DEF AccountRowsAreTraced, Stored
    <3> QED
      BY <3>1, <3>2
  <2> QED
    BY <1>1, <2>1, <2>6 DEF AccountRowsAreTraced, Stored
<1>8. ASSUME NEW c \in Calls, RunState(c) PROVE AccountRowsAreTraced'
  <2> DEFINE w == input[c]
  <2>1. /\ stmt[c] = "sent" /\ w.op = "state" /\ UNCHANGED <<users, feeds, subscriptions>>
        /\ states' = [states EXCEPT ![<<w.user, w.article>>] = [value |-> w.value, updated |-> w.at]]
        /\ stmt' = [stmt EXCEPT ![c] = "fits"]
    BY <1>8 DEF RunState, Runs, BringsBack
  <2>2. w.user \in Users /\ w.article \in Articles
    BY <1>3, <2>1, ValidInputs
  <2>3. /\ states'[<<w.user, w.article>>] = [value |-> w.value, updated |-> w.at]
        /\ \A p \in (Users \X Articles) \ {<<w.user, w.article>>} : states'[p] = states[p]
    BY <1>3, <2>1, <2>2 DEF TypeOK
  <2>4. c \in Wrote("state")'
    BY <1>1, <1>3, <2>1 DEF Wrote, TypeOK
  <2>5. \A p \in Users \X Articles : states'[p] # NoRow =>
           \E d \in Wrote("state")' :
              /\ <<input[d].user, input[d].article>> = p
              /\ [value |-> input[d].value, updated |-> input[d].at] = states'[p]
    BY <1>1, <2>3, <2>4 DEF AccountRowsAreTraced, Stored
  <2> QED
    BY <1>1, <2>1, <2>5 DEF AccountRowsAreTraced, Stored
<1> QED
  BY <1>2, <1>4, <1>5, <1>6, <1>7, <1>8

\* The invariant holds in every state and no step rebinds anything.
THEOREM Invariance == Spec => []IInv /\ [][AccountBindingStays]_vars
<1> QED
  BY InitInvariant, NextInvariant, PTL DEF Spec

\* No blank identifier, no blank value and no zero time of a sighting, a creation or
\* an update gets past the validation of repository.go, and every row is whole.
THEOREM TypeCorrect == Spec => []TypeOK
<1>1. IInv => TypeOK
  BY DEF IInv
<1> QED
  BY <1>1, Invariance, PTL

\* A subject, a URL, a subscription's user, feed, creation time and flag, and a state
\* with its update time were each written by a call that they suit.
THEOREM RowsStayTraced == Spec => []AccountRowsAreTraced
<1>1. IInv /\ AccountRowsAreTraced /\ [Next]_vars => AccountRowsAreTraced'
  BY TracedStep
<1>2. Init => AccountRowsAreTraced
  BY DEF Init, AccountRowsAreTraced, Stored
<1> QED
  BY <1>1, <1>2, Invariance, PTL DEF Spec

\* What a call that returned nil has written is in the tables for good.
THEOREM AcksAlwaysHold == Spec => []AcksHold
<1>1. IInv => AcksHold
  BY DEF IInv, AcksHold, Told, Fitted
<1> QED
  BY <1>1, Invariance, PTL

\* A user or a subscription that was refused over a binding would be refused again.
THEOREM RefusalsStayFinal == Spec => []RefusalsAreFinal
<1>1. ASSUME IInv PROVE RefusalsAreFinal
  <2> SUFFICES ASSUME NEW c \in Calls, outcome[c] \in {"rebound", "unique"},
                      NEW w, w = input[c]
               PROVE  /\ w.op = "user" => /\ users[w.id] # [subject |-> w.subject]
                                          /\ Stored(users, w.id) \/ ConstraintError(w) = "unique"
                      /\ w.op = "subscription" =>
                            \E i \in SubscriptionIds : Stored(subscriptions, i) /\
                              ((i = w.id) # (subscriptions[i].user = w.user
                                             /\ subscriptions[i].feed = w.feed))
    BY DEF RefusalsAreFinal
  <2>1. stmt[c] \in {"rebound", "unique"} /\ Refused(c) /\ w \in Writes /\ ValidWrite(w)
    BY <1>1 DEF IInv, Told, TypeOK
  <2>2. ASSUME w.op = "user"
        PROVE  users[w.id] # [subject |-> w.subject]
               /\ (Stored(users, w.id) \/ ConstraintError(w) = "unique")
    <3>1. w.id \in Users /\ [subject |-> w.subject] \in UserRow
      BY <2>1, <2>2, ValidInputs DEF UserRow
    <3>2. \/ Stored(users, w.id) /\ users[w.id] # [subject |-> w.subject]
          \/ \E u \in Users \ {w.id} : users[u] = [subject |-> w.subject]
      BY <2>1, <2>2 DEF Refused
    <3>3. users[w.id] # [subject |-> w.subject]
      BY <1>1, <3>1, <3>2, RowsAreStored DEF IInv, UniqueSubjects, Stored
    <3> QED
      BY <2>2, <3>2, <3>3 DEF ConstraintError
  <2> QED
    BY <2>1, <2>2 DEF Refused
<1> QED
  BY <1>1, Invariance, PTL

\* first_seen_at and last_seen_at span exactly the sightings that have been written.
THEOREM WindowsAreExact == Spec => []SeenWindow
<1>1. IInv => SeenWindow
  BY DEF IInv
<1> QED
  BY <1>1, Invariance, PTL

\* A user keeps its subject and a subscription its user and feed.
THEOREM BindingsStay == Spec => AccountBindingsNeverChange
  BY Invariance DEF AccountBindingsNeverChange
===============================================================================
