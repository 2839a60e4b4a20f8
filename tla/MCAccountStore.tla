---------------------------- MODULE MCAccountStore ----------------------------
(***************************************************************************)
(* A small instance of AccountStore: users that claim one subject, feeds   *)
(* that trade URLs and are seen out of order, subscriptions that share an  *)
(* identifier or a user and feed, two states, and inputs that are refused, *)
(* for a blank or for a zero time.                                         *)
(***************************************************************************)
EXTENDS AccountStore, TLC

CONSTANTS u1, u2, s1, s2, f1, f2, x, y, i1, i2, a, v1, v2, c1, c2, c3, c4, blank, noRow

MCUsers    == {u1, u2}
MCSubjects == {s1, s2}
MCFeeds    == {f1, f2}
MCSites    == {x, y}
MCSubscriptionIds == {i1, i2}
MCArticles == {a}
MCValues   == {v1, v2}
MCTimes    == 1 .. 2

UserOf(id, subject) == [op |-> "user", id |-> id, subject |-> subject]
FeedOf(id, site, at) == [op |-> "feed", id |-> id, site |-> site, at |-> at]
SubscriptionOf(id, user, disabled, at) ==
    [op |-> "subscription", id |-> id, user |-> user, feed |-> f1, disabled |-> disabled, at |-> at]
StateOf(value, at) == [op |-> "state", user |-> u1, article |-> a, value |-> value, at |-> at]

\* Four calls are a user, a feed and two subscriptions; feeds meet one another and
\* nobody else, so the calls of one execution are all on one side.
UserSide == {UserOf(u1, s1), UserOf(u1, s2), UserOf(u2, s1), FeedOf(f1, x, 2),
             SubscriptionOf(i1, u1, FALSE, 1), SubscriptionOf(i1, u2, TRUE, 2),
             SubscriptionOf(i2, u1, FALSE, 1), SubscriptionOf(i2, u1, FALSE, 0)}
FeedSide == {FeedOf(f1, x, 2), FeedOf(f1, y, 1), FeedOf(f2, x, 2), FeedOf(f2, y, 0),
             UserOf(u1, s1), UserOf(blank, s1), StateOf(v1, 1), StateOf(v2, 2), StateOf(v2, 0)}

MCWrites == UserSide \cup FeedSide
MCCalls  == {c1, c2, c3, c4}
CallSymmetry == Permutations(MCCalls)

MCInit == Init /\ \E side \in {UserSide, FeedSide} : \A c \in Calls : input[c] \in side
MCSpec == MCInit /\ [][Next]_vars
===============================================================================
