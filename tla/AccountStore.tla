------------------------------ MODULE AccountStore ------------------------------
(***************************************************************************)
(* The writes of repository.go that are one statement each:                *)
(* UpsertUserReference, UpsertFeed, UpsertSubscription, UpsertArticleState.*)
(* A call validates its input, sends one INSERT ... ON CONFLICT DO UPDATE  *)
(* that commits by itself, and judges what it RETURNING brings back when   *)
(* it is too late to undo it.  A call whose context ends gives up, but a   *)
(* statement that it has sent may still run, after the caller's retry and  *)
(* after anybody else's write.                                             *)
(***************************************************************************)
EXTENDS Integers, FiniteSets

CONSTANTS
    Users,           \* identifiers of users
    Subjects,        \* identity subjects
    Feeds,           \* identifiers of feeds
    Sites,           \* normalized URLs of feeds
    SubscriptionIds,
    Articles,        \* identifiers of articles with a row in goreecloud_feeds.articles
    Values,          \* the flags and position of an article state, as one value
    Times,
    Writes,          \* the values callers hand to the four operations
    Calls,
    Blank, NoRow

UserWrite  == [op : {"user"}, id : Users \cup {Blank}, subject : Subjects \cup {Blank}]
\* Blank as a site stands for a missing canonical or normalized URL; at is the time that
\* the caller gives (SeenAt, CreatedAt, UpdatedAt), 0 being Go's zero time.
FeedWrite  == [op : {"feed"}, id : Feeds \cup {Blank}, site : Sites \cup {Blank}, at : Times \cup {0}]
SubscriptionWrite ==
    [op : {"subscription"}, id : SubscriptionIds \cup {Blank}, user : Users \cup {Blank},
     feed : Feeds \cup {Blank}, disabled : BOOLEAN, at : Times \cup {0}]
\* An article state whose read position is out of range is Blank as a value.
StateWrite == [op : {"state"}, user : Users \cup {Blank}, article : Articles \cup {Blank},
               value : Values \cup {Blank}, at : Times \cup {0}]

UserRow == [subject : Subjects]
FeedRow == [site : Sites, first : Times, last : Times]
SubscriptionRow == [user : Users, feed : Feeds, created : Times, disabled : BOOLEAN]
StateRow == [value : Values, updated : Times]

ASSUME AccountWritesAssumption ==
    Writes \subseteq UserWrite \cup FeedWrite \cup SubscriptionWrite \cup StateWrite
ASSUME AccountTimesAssumption == Times \subseteq Nat \ {0}
ASSUME AccountSentinelAssumption ==
    /\ Blank \notin Users \cup Subjects \cup Feeds \cup Sites \cup SubscriptionIds
                    \cup Articles \cup Values
    /\ NoRow \notin UserRow \cup FeedRow \cup SubscriptionRow \cup StateRow

VARIABLES
    input,          \* what each call is given
    users, feeds, subscriptions, states,  \* the tables, by primary key
    pc,             \* where the call is
    stmt,           \* its statement: unsent, sent, or what running it brought back
    outcome         \* "running", or what the call returns

tables == <<users, feeds, subscriptions, states>>
vars == <<input, users, feeds, subscriptions, states, pc, stmt, outcome>>

-------------------------------------------------------------------------------
\* What each operation asks of its input before it sends anything.
ValidUser(w) == Blank \notin {w.id, w.subject}
ValidFeed(w) == Blank \notin {w.id, w.site} /\ w.at # 0
ValidSubscription(w) == Blank \notin {w.id, w.user, w.feed} /\ w.at # 0

\* Faulty variant: the update time of a state is not asked for.
ValidStateUntimed(w) == Blank \notin {w.user, w.article, w.value}

ValidState(w) == Blank \notin {w.user, w.article, w.value} /\ w.at # 0

ValidWrite(w) ==
    \/ w.op = "user" /\ ValidUser(w)
    \/ w.op = "feed" /\ ValidFeed(w)
    \/ w.op = "subscription" /\ ValidSubscription(w)
    \/ w.op = "state" /\ ValidState(w)

Stored(table, id) == table[id] # NoRow

Least(s, t)    == IF s <= t THEN s ELSE t
Greatest(s, t) == IF s <= t THEN t ELSE s

\* The error of a UNIQUE or REFERENCES constraint, or "none".  The row that ON
\* CONFLICT updates meets neither again, but for a feed's new URL.
ConstraintError(w) ==
    CASE w.op = "user" ->
           IF ~Stored(users, w.id) /\ \E u \in Users : users[u] = [subject |-> w.subject]
           THEN "unique" ELSE "none"
      [] w.op = "feed" ->
           IF \E f \in Feeds \ {w.id} : Stored(feeds, f) /\ feeds[f].site = w.site
           THEN "unique" ELSE "none"
      [] w.op = "subscription" ->
           IF Stored(subscriptions, w.id) THEN "none"
           ELSE IF \E i \in SubscriptionIds : /\ Stored(subscriptions, i)
                                              /\ subscriptions[i].user = w.user
                                              /\ subscriptions[i].feed = w.feed
           THEN "unique"
           ELSE IF ~Stored(users, w.user) \/ ~Stored(feeds, w.feed) THEN "reference" ELSE "none"
      [] w.op = "state" -> IF Stored(users, w.user) THEN "none" ELSE "reference"

Init ==
    /\ input \in [Calls -> Writes]
    /\ users = [u \in Users |-> NoRow]
    /\ feeds = [f \in Feeds |-> NoRow]
    /\ subscriptions = [i \in SubscriptionIds |-> NoRow]
    /\ states = [p \in Users \X Articles |-> NoRow]
    /\ pc = [c \in Calls |-> "validate"]
    /\ stmt = [c \in Calls |-> "unsent"]
    /\ outcome = [c \in Calls |-> "running"]

Answer(c, o) == pc' = [pc EXCEPT ![c] = "done"] /\ outcome' = [outcome EXCEPT ![c] = o]

\* Validation, then the statement goes out.
Send(c) ==
    /\ pc[c] = "validate"
    /\ IF ValidWrite(input[c])
       THEN /\ pc' = [pc EXCEPT ![c] = "wait"]
            /\ stmt' = [stmt EXCEPT ![c] = "sent"]
            /\ UNCHANGED outcome
       ELSE Answer(c, "invalid") /\ UNCHANGED stmt
    /\ UNCHANGED <<input, tables>>

\* The statement of c runs on a row that it may insert or update, and brings back
\* whether that row is bound as the input says.
Runs(c, op) == stmt[c] = "sent" /\ input[c].op = op /\ ConstraintError(input[c]) = "none"
BringsBack(c, fits) == stmt' = [stmt EXCEPT ![c] = IF fits THEN "fits" ELSE "rebound"]

\* Faulty variant: ON CONFLICT DO UPDATE assigns identity_subject.
RunUserRebinding(c) ==
    LET w == input[c] IN
    /\ Runs(c, "user")
    /\ users' = [users EXCEPT ![w.id] = [subject |-> w.subject]]
    /\ BringsBack(c, TRUE)
    /\ UNCHANGED <<input, feeds, subscriptions, states, pc, outcome>>

RunUser(c) ==
    LET w == input[c] IN
    /\ Runs(c, "user")
    /\ users' = [users EXCEPT ![w.id] = IF @ = NoRow THEN [subject |-> w.subject] ELSE @]
    /\ BringsBack(c, users'[w.id].subject = w.subject)
    /\ UNCHANGED <<input, feeds, subscriptions, states, pc, outcome>>

\* Faulty variant: the feed has been seen when it was last written.
RunFeedOverwriting(c) ==
    LET w == input[c] IN
    /\ Runs(c, "feed")
    /\ feeds' = [feeds EXCEPT ![w.id] = [site |-> w.site, first |-> w.at, last |-> w.at]]
    /\ BringsBack(c, TRUE)
    /\ UNCHANGED <<input, users, subscriptions, states, pc, outcome>>

RunFeed(c) ==
    LET w == input[c] IN
    /\ Runs(c, "feed")
    /\ feeds' = [feeds EXCEPT ![w.id] =
                   IF @ = NoRow THEN [site |-> w.site, first |-> w.at, last |-> w.at]
                   ELSE [site |-> w.site, first |-> Least(@.first, w.at),
                         last |-> Greatest(@.last, w.at)]]
    /\ BringsBack(c, TRUE)
    /\ UNCHANGED <<input, users, subscriptions, states, pc, outcome>>

\* Faulty variant: ON CONFLICT DO UPDATE assigns created_at too.
RunSubscriptionRedating(c) ==
    LET w == input[c] IN
    /\ Runs(c, "subscription")
    /\ subscriptions' = [subscriptions EXCEPT ![w.id] =
          IF @ = NoRow
          THEN [user |-> w.user, feed |-> w.feed, created |-> w.at, disabled |-> w.disabled]
          ELSE [@ EXCEPT !.created = w.at, !.disabled = w.disabled]]
    /\ BringsBack(c, subscriptions'[w.id].user = w.user /\ subscriptions'[w.id].feed = w.feed)
    /\ UNCHANGED <<input, users, feeds, states, pc, outcome>>

\* The flag of a subscription is assigned before its user and feed are compared: a
\* call that is refused as "already bound" has changed the flag all the same.
RunSubscription(c) ==
    LET w == input[c] IN
    /\ Runs(c, "subscription")
    /\ subscriptions' = [subscriptions EXCEPT ![w.id] =
          IF @ = NoRow
          THEN [user |-> w.user, feed |-> w.feed, created |-> w.at, disabled |-> w.disabled]
          ELSE [@ EXCEPT !.disabled = w.disabled]]
    /\ BringsBack(c, subscriptions'[w.id].user = w.user /\ subscriptions'[w.id].feed = w.feed)
    /\ UNCHANGED <<input, users, feeds, states, pc, outcome>>

\* Every column is assigned, updated_at too: the last statement to run has its way.
RunState(c) ==
    LET w == input[c] IN
    /\ Runs(c, "state")
    /\ states' = [states EXCEPT ![<<w.user, w.article>>] = [value |-> w.value, updated |-> w.at]]
    /\ BringsBack(c, TRUE)
    /\ UNCHANGED <<input, users, feeds, subscriptions, pc, outcome>>

\* A constraint refuses it, or the server or the connection fails: nothing is written.
StatementFails(c) ==
    /\ stmt[c] = "sent"
    /\ \E e \in {ConstraintError(input[c]), "failed"} \ {"none"} : stmt' = [stmt EXCEPT ![c] = e]
    /\ UNCHANGED <<input, tables, pc, outcome>>

\* Faulty variant: what RETURNING brings back is not compared.
ReturnUncompared(c) ==
    /\ pc[c] = "wait"
    /\ stmt[c] # "sent"
    /\ Answer(c, IF stmt[c] \in {"fits", "rebound"} THEN "ok" ELSE stmt[c])
    /\ UNCHANGED <<input, tables, stmt>>

Return(c) ==
    /\ pc[c] = "wait"
    /\ stmt[c] # "sent"
    /\ Answer(c, IF stmt[c] = "fits" THEN "ok" ELSE stmt[c])
    /\ UNCHANGED <<input, tables, stmt>>

\* The context ends, or the reply is lost; a statement that is out may still run.
GiveUp(c) ==
    /\ pc[c] = "wait"
    /\ Answer(c, "failed")
    /\ UNCHANGED <<input, tables, stmt>>

Next == \E c \in Calls :
    \/ Send(c) \/ RunUser(c) \/ RunFeed(c) \/ RunSubscription(c) \/ RunState(c)
    \/ StatementFails(c) \/ Return(c) \/ GiveUp(c)

Spec == Init /\ [][Next]_vars

-------------------------------------------------------------------------------
\* Types: no blank identifier, no blank value and no zero time (of a sighting, a
\* creation or an update) gets past the validation into a row.
TypeOK ==
    /\ input \in [Calls -> Writes]
    /\ users \in [Users -> UserRow \cup {NoRow}]
    /\ feeds \in [Feeds -> FeedRow \cup {NoRow}]
    /\ subscriptions \in [SubscriptionIds -> SubscriptionRow \cup {NoRow}]
    /\ states \in [Users \X Articles -> StateRow \cup {NoRow}]
    /\ pc \in [Calls -> {"validate", "wait", "done"}]
    /\ stmt \in [Calls -> {"unsent", "sent", "fits", "rebound", "unique", "reference", "failed"}]
    /\ outcome \in [Calls -> {"running", "ok", "invalid", "rebound", "unique", "reference", "failed"}]

\* Every row is traceable: a user's subject, a feed's URL, a subscription's user, feed
\* and creation time were written by a call that they suit, and a state is wholly one
\* call's, its value with its own update time, whichever statements met on the row.
\* Only the flag of a subscription may come from a call that is refused as "already
\* bound": RETURNING is compared after the statement has assigned it.
Wrote(op) == {c \in Calls : input[c].op = op /\ stmt[c] = "fits"}

AccountRowsAreTraced ==
    /\ \A u \in Users : Stored(users, u) =>
          \E c \in Wrote("user") : input[c].id = u /\ input[c].subject = users[u].subject
    /\ \A f \in Feeds : Stored(feeds, f) =>
          \E c \in Wrote("feed") : input[c].id = f /\ input[c].site = feeds[f].site
    /\ \A i \in SubscriptionIds : Stored(subscriptions, i) =>
          /\ \E c \in Wrote("subscription") :
                /\ input[c].id = i
                /\ input[c].user = subscriptions[i].user /\ input[c].feed = subscriptions[i].feed
                /\ input[c].at = subscriptions[i].created
          /\ \E c \in Calls : /\ input[c].op = "subscription" /\ input[c].id = i
                             /\ stmt[c] \in {"fits", "rebound"}
                             /\ input[c].disabled = subscriptions[i].disabled
    /\ \A p \in Users \X Articles : Stored(states, p) =>
          \E c \in Wrote("state") :
             /\ <<input[c].user, input[c].article>> = p
             /\ [value |-> input[c].value, updated |-> input[c].at] = states[p]

\* A call that returned nil is in the tables for good: its user with its subject, its
\* subscription with its user and feed, a feed seen when it says, a state.
AcksHold ==
    \A c \in Calls : outcome[c] = "ok" =>
        LET w == input[c] IN
        /\ w.op = "user" => users[w.id] = [subject |-> w.subject]
        /\ w.op = "feed" => /\ Stored(feeds, w.id)
                            /\ feeds[w.id].first <= w.at /\ w.at <= feeds[w.id].last
        /\ w.op = "subscription" => /\ Stored(subscriptions, w.id)
                                    /\ subscriptions[w.id].user = w.user
                                    /\ subscriptions[w.id].feed = w.feed
        /\ w.op = "state" => Stored(states, <<w.user, w.article>>)

\* A user or a subscription that is refused over a binding would be refused again:
\* the binding is still there, whatever has run in between.
RefusalsAreFinal ==
    \A c \in Calls : outcome[c] \in {"rebound", "unique"} =>
        LET w == input[c] IN
        /\ w.op = "user" => /\ users[w.id] # [subject |-> w.subject]
                            /\ Stored(users, w.id) \/ ConstraintError(w) = "unique"
        /\ w.op = "subscription" =>
              \E i \in SubscriptionIds : Stored(subscriptions, i) /\
                 ((i = w.id) # (subscriptions[i].user = w.user /\ subscriptions[i].feed = w.feed))

\* first_seen_at and last_seen_at span exactly the sightings that have been written,
\* in whatever order the statements ran and whoever had given up on them.
SeenWindow ==
    \A f \in Feeds : Stored(feeds, f) =>
        LET times == {input[c].at : c \in {d \in Calls : /\ stmt[d] = "fits" /\ input[d].op = "feed"
                                                        /\ input[d].id = f}} IN
        /\ feeds[f].first \in times /\ feeds[f].last \in times
        /\ \A t \in times : feeds[f].first <= t /\ t <= feeds[f].last

\* A user keeps its subject and a subscription its user and feed, though late
\* statements of abandoned calls run after everything else.
AccountBindingStays ==
    /\ \A u \in Users : Stored(users, u) => users'[u] = users[u]
    /\ \A i \in SubscriptionIds : Stored(subscriptions, i) =>
          /\ subscriptions'[i].user = subscriptions[i].user
          /\ subscriptions'[i].feed = subscriptions[i].feed
AccountBindingsNeverChange == [][AccountBindingStays]_vars
===============================================================================
