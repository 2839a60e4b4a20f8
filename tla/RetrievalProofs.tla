---------------------------- MODULE RetrievalProofs ----------------------------
(***************************************************************************)
(* Proofs about Retrieval, for any number of calls, permits, attempts and  *)
(* redirects, and any URLs and addresses.                                  *)
(***************************************************************************)
EXTENDS Retrieval, FiniteSetTheorems, TLAPS

-------------------------------------------------------------------------------
(* The inductive invariant. *)

Errors  == {"cancelled"} \cup Permanent \cup Transient
Request == [url : URLs, peer : Addresses, validators : BOOLEAN]
Outcome == [status : {"none", "ok", "notModified", "refused"}, attempts : 0 .. MaxAttempts]

Typed ==
    /\ input \in [Fetches -> Inputs]
    /\ pc \in [Fetches -> {"acquire", "validate", "attempt", "request", "response", "sleep", "done"}]
    /\ cancelled \in [Fetches -> BOOLEAN]
    /\ attempt \in [Fetches -> 0 .. MaxAttempts]
    /\ target \in [Fetches -> URLs]
    /\ validators \in [Fetches -> BOOLEAN]
    /\ via \in [Fetches -> Seq(Request)]
    /\ last \in [Fetches -> Outcome]
    /\ err \in [Fetches -> {"none"} \cup Errors]

\* The attempts: how many, why another one, and what the call returns.
Counted(f) ==
    /\ pc[f] \in {"acquire", "validate"} => attempt[f] = 0
    /\ pc[f] \in {"acquire", "validate", "attempt", "sleep", "done"} => last[f].attempts = attempt[f]
    /\ pc[f] \in {"attempt", "sleep"} => attempt[f] < MaxAttempts
    /\ pc[f] = "attempt" /\ attempt[f] > 0 => err[f] \in Transient
    /\ pc[f] = "sleep" => err[f] \in Transient
    /\ pc[f] = "done" => /\ err[f] = "none" => last[f].status \in {"ok", "notModified"}
                         /\ err[f] \in Transient => attempt[f] = MaxAttempts \/ cancelled[f]

\* The chain of requests: all within the policy, and so is the next one.
Chained(f) ==
    /\ pc[f] \in {"attempt", "request", "response", "sleep"} => URLError(input[f].url) = "none"
    /\ \A i \in DOMAIN via[f] : URLError(via[f][i].url) = "none" /\ via[f][i].peer \in Eligible
    /\ \A i, j \in DOMAIN via[f] :
          i < j /\ via[f][i].url.scheme = "https" => via[f][j].url.scheme = "https"
    /\ Len(via[f]) <= MaxRedirects + 1
    /\ pc[f] = "request" =>
          /\ URLError(target[f]) = "none" /\ Len(via[f]) <= MaxRedirects
          /\ \A i \in DOMAIN via[f] : via[f][i].url.scheme = "https" => target[f].scheme = "https"
    /\ pc[f] = "response" => Len(via[f]) > 0

IInv == /\ Typed
        /\ permits = Cardinality(Holders)
        /\ \A f \in Fetches : Counted(f) /\ Chained(f)

-------------------------------------------------------------------------------
(* A step of one call. *)

\* A step of f leaves the other calls alone.
Frame(f) ==
    /\ input' = input
    /\ \A g \in Fetches \ {f} :
          /\ pc'[g] = pc[g] /\ cancelled'[g] = cancelled[g] /\ attempt'[g] = attempt[g]
          /\ target'[g] = target[g] /\ via'[g] = via[g] /\ last'[g] = last[g] /\ err'[g] = err[g]

Held(p) == p \notin {"acquire", "done"}

\* The semaphore counts the calls between their acquisition and their return.
LEMMA PermitsMatch ==
    ASSUME IInv, NEW f \in Fetches, \A g \in Fetches \ {f} : pc'[g] = pc[g],
           \/ Held(pc[f]) /\ Held(pc'[f]) /\ permits' = permits
           \/ ~Held(pc[f]) /\ ~Held(pc'[f]) /\ permits' = permits
           \/ ~Held(pc[f]) /\ Held(pc'[f]) /\ permits' = permits + 1
           \/ Held(pc[f]) /\ ~Held(pc'[f]) /\ permits' = permits - 1
    PROVE  permits' = Cardinality(Holders')
<1>1. permits = Cardinality(Holders) /\ IsFiniteSet(Holders)
  <2>1. Holders \subseteq Fetches
    BY DEF Holders
  <2> QED
    BY <2>1, FetchesAssumption, FS_Subset DEF IInv
<1>2. CASE Held(pc[f]) <=> Held(pc'[f])
  <2>1. Holders' = Holders
    BY <1>2 DEF Holders, Held
  <2> QED
    BY <1>1, <1>2, <2>1
<1>3. CASE ~Held(pc[f]) /\ Held(pc'[f])
  <2>1. Holders' = Holders \cup {f} /\ f \notin Holders
    BY <1>3 DEF Holders, Held
  <2> QED
    BY <1>1, <1>3, <2>1, FS_AddElement
<1>4. CASE Held(pc[f]) /\ ~Held(pc'[f])
  <2>1. Holders' = Holders \ {f} /\ f \in Holders
    BY <1>4 DEF Holders, Held
  <2> QED
    BY <1>1, <1>4, <2>1, FS_RemoveElement
<1> QED
  BY <1>2, <1>3, <1>4

\* What a step leaves alone stays true; it is enough to look at the call that moves.
LEMMA OthersKeep ==
    ASSUME IInv, NEW f \in Fetches, Frame(f), Typed', permits' = Cardinality(Holders'),
           Counted(f)', Chained(f)'
    PROVE  IInv'
<1> SUFFICES ASSUME NEW g \in Fetches, g # f PROVE Counted(g)' /\ Chained(g)'
  BY DEF IInv
<1> QED
  BY DEF IInv, Frame, Counted, Chained, URLError

\* An error of ValidateURL or checkRedirect is a permanent one.
LEMMA ErrorsArePermanent ==
    /\ \A u : URLError(u) \in {"none"} \cup Permanent
    /\ \A sent, u : RedirectError(sent, u) \in {"none"} \cup Permanent
BY DEF URLError, RedirectError, Permanent

\* No call has a permit yet: the semaphore is as full as NewClient makes it.
LEMMA InitInvariant == Init => IInv
<1> SUFFICES ASSUME Init PROVE IInv
  OBVIOUS
<1>1. Typed
  <2>1. target \in [Fetches -> URLs]
    BY InputsAssumption DEF Init
  <2>2. via \in [Fetches -> Seq(Request)]
    BY DEF Init
  <2>3. last \in [Fetches -> Outcome]
    BY CountsAssumption DEF Init, Result, Outcome
  <2> QED
    BY <2>1, <2>2, <2>3, CountsAssumption DEF Init, Typed
<1>2. permits = Cardinality(Holders)
  <2>1. Holders = {}
    BY DEF Init, Holders
  <2> QED
    BY <2>1, FS_EmptySet DEF Init
<1>3. ASSUME NEW f \in Fetches PROVE Counted(f) /\ Chained(f)
  <2>1. pc[f] = "acquire" /\ attempt[f] = 0 /\ last[f].attempts = 0 /\ via[f] = <<>> /\ Len(via[f]) = 0
    BY DEF Init, Result
  <2> QED
    BY <2>1, CountsAssumption DEF Counted, Chained
<1> QED
  BY <1>1, <1>2, <1>3 DEF IInv

\* An attempt that fails is repeated or is the last word.
LEMMA AttemptFailsStep ==
    ASSUME IInv, NEW f \in Fetches, pc[f] \in {"request", "response"},
           NEW error \in Errors, NEW status \in {"none", "ok", "refused"},
           AttemptFails(f, error, status),
           UNCHANGED <<input, cancelled, attempt, target, validators, via>>
    PROVE  IInv'
<1>1. Typed /\ Counted(f) /\ Chained(f) /\ MaxAttempts \in Nat
  BY CountsAssumption DEF IInv
<1>2. /\ last' = [last EXCEPT ![f] = Result(status, attempt[f])]
      /\ err' = [err EXCEPT ![f] = error]
      /\ \/ /\ pc' = [pc EXCEPT ![f] = "sleep"] /\ permits' = permits
            /\ error \in Transient /\ attempt[f] < MaxAttempts
         \/ /\ pc' = [pc EXCEPT ![f] = "done"] /\ permits' = permits - 1
            /\ ~(attempt[f] < MaxAttempts /\ error \in Transient /\ ~cancelled[f])
  BY DEF AttemptFails, Return, Retryable
<1>3. /\ pc'[f] \in {"sleep", "done"} /\ err'[f] = error /\ last'[f] = Result(status, attempt[f])
      /\ pc' \in [Fetches -> {"acquire", "validate", "attempt", "request", "response", "sleep", "done"}]
      /\ \A g \in Fetches \ {f} : pc'[g] = pc[g] /\ err'[g] = err[g] /\ last'[g] = last[g]
  BY <1>1, <1>2 DEF Typed
<1>4. Result(status, attempt[f]) \in Outcome /\ Result(status, attempt[f]).attempts = attempt[f]
  BY <1>1 DEF Typed, Result, Outcome
<1>5. Typed'
  BY <1>1, <1>2, <1>3, <1>4 DEF Typed
<1>6. Frame(f)
  BY <1>3 DEF Frame
<1>7. permits' = Cardinality(Holders')
  <2>1. (pc'[f] = "sleep" /\ permits' = permits) \/ (pc'[f] = "done" /\ permits' = permits - 1)
    BY <1>1, <1>2 DEF Typed
  <2> QED
    BY <1>3, <2>1, PermitsMatch DEF Held
<1>8. Counted(f)'
  <2>1. attempt[f] \in 0 .. MaxAttempts /\ error # "none"
    BY <1>1 DEF Typed, Errors, Permanent, Transient
  <2>2. \/ pc'[f] = "sleep" /\ error \in Transient /\ attempt[f] < MaxAttempts
        \/ pc'[f] = "done" /\ ~(attempt[f] < MaxAttempts /\ error \in Transient /\ ~cancelled[f])
    BY <1>1, <1>2 DEF Typed
  <2> QED
    BY <1>1, <1>3, <1>4, <2>1, <2>2 DEF Counted
<1>9. Chained(f)'
  BY <1>1, <1>3 DEF Chained, URLError
<1> QED
  BY <1>5, <1>6, <1>7, <1>8, <1>9, OthersKeep

-------------------------------------------------------------------------------
(* Each step preserves the invariant. *)

\* A permit is taken by the one call that starts to hold it, or the call ends.
LEMMA AcquireStep == ASSUME IInv, NEW f \in Fetches, Acquire(f) PROVE IInv'
<1>1. Typed /\ Counted(f) /\ Chained(f) /\ pc[f] = "acquire"
  BY DEF IInv, Acquire
<1>2. /\ UNCHANGED <<input, cancelled, attempt, target, validators, via, last>>
      /\ \/ pc' = [pc EXCEPT ![f] = "validate"] /\ err' = err /\ permits' = permits + 1
         \/ pc' = [pc EXCEPT ![f] = "done"] /\ err' = [err EXCEPT ![f] = "cancelled"] /\ permits' = permits
  BY DEF Acquire
<1>3. Typed' /\ Frame(f)
  BY <1>1, <1>2 DEF Typed, Frame, Errors
<1>4. \/ pc'[f] = "validate" /\ permits' = permits + 1
      \/ pc'[f] = "done" /\ err'[f] = "cancelled" /\ permits' = permits
  BY <1>1, <1>2 DEF Typed
<1>5. permits' = Cardinality(Holders')
  BY <1>1, <1>3, <1>4, PermitsMatch DEF Held, Frame
<1>6. Counted(f)' /\ Chained(f)'
  BY <1>1, <1>2, <1>4 DEF Counted, Chained, Transient, URLError
<1> QED
  BY <1>3, <1>5, <1>6, OthersKeep

\* The URL that is let through starts a chain of one.
LEMMA ValidateStep == ASSUME IInv, NEW f \in Fetches, Validate(f) PROVE IInv'
<1>1. Typed /\ Counted(f) /\ Chained(f) /\ pc[f] = "validate" /\ MaxAttempts \in Nat \ {0}
  BY CountsAssumption DEF IInv, Validate
<1>2. /\ UNCHANGED <<input, cancelled, attempt, target, validators, via, last>>
      /\ \/ /\ URLError(input[f].url) = "none" /\ pc' = [pc EXCEPT ![f] = "attempt"]
            /\ err' = err /\ permits' = permits
         \/ \E e \in Permanent : /\ pc' = [pc EXCEPT ![f] = "done"] /\ permits' = permits - 1
                                 /\ err' = [err EXCEPT ![f] = e]
  BY ErrorsArePermanent DEF Validate, Return
<1>3. Typed' /\ Frame(f)
  BY <1>1, <1>2 DEF Typed, Frame, Errors
<1>4. \/ URLError(input[f].url) = "none" /\ pc'[f] = "attempt" /\ permits' = permits
      \/ pc'[f] = "done" /\ err'[f] \in Permanent /\ permits' = permits - 1
  BY <1>1, <1>2 DEF Typed
<1>5. permits' = Cardinality(Holders')
  BY <1>1, <1>3, <1>4, PermitsMatch DEF Held, Frame
<1>6. Counted(f)'
  BY <1>1, <1>2, <1>4 DEF Counted, Transient, Permanent
<1>7. Chained(f)'
  BY <1>1, <1>2, <1>4 DEF Chained, URLError
<1> QED
  BY <1>3, <1>5, <1>6, <1>7, OthersKeep

\* The attempt counts, and starts with the URL that has been validated.
LEMMA BeginAttemptStep == ASSUME IInv, NEW f \in Fetches, BeginAttempt(f) PROVE IInv'
<1>1. Typed /\ Counted(f) /\ Chained(f) /\ pc[f] = "attempt" /\ {MaxAttempts, MaxRedirects} \subseteq Nat
  BY CountsAssumption DEF IInv, BeginAttempt
<1>2. CASE cancelled[f]
  <2>1. /\ UNCHANGED <<input, cancelled, attempt, target, validators, via, last>>
        /\ pc' = [pc EXCEPT ![f] = "done"] /\ err' = [err EXCEPT ![f] = "cancelled"]
        /\ permits' = permits - 1
    BY <1>2 DEF BeginAttempt, Return
  <2>2. Typed' /\ Frame(f) /\ pc'[f] = "done" /\ err'[f] = "cancelled"
    BY <1>1, <2>1 DEF Typed, Frame, Errors
  <2>3. permits' = Cardinality(Holders')
    BY <1>1, <2>1, <2>2, PermitsMatch DEF Held, Frame
  <2>4. Counted(f)' /\ Chained(f)'
    BY <1>1, <2>1, <2>2 DEF Counted, Chained, Transient, URLError
  <2> QED
    BY <2>2, <2>3, <2>4, OthersKeep
<1>3. CASE ~cancelled[f]
  <2>1. /\ UNCHANGED <<input, cancelled, last, err, permits>>
        /\ pc' = [pc EXCEPT ![f] = "request"]
        /\ attempt' = [attempt EXCEPT ![f] = @ + 1]
        /\ target' = [target EXCEPT ![f] = input[f].url]
        /\ validators' = [validators EXCEPT ![f] = input[f].etag]
        /\ via' = [via EXCEPT ![f] = <<>>]
    BY <1>3 DEF BeginAttempt
  <2>2. attempt[f] + 1 \in 0 .. MaxAttempts
    BY <1>1 DEF Typed, Counted
  <2>3. input[f] \in Inputs /\ input[f].url \in URLs /\ input[f].etag \in BOOLEAN
    BY <1>1, InputsAssumption DEF Typed
  <2>4. Typed'
    <3>1. attempt' \in [Fetches -> 0 .. MaxAttempts] /\ target' \in [Fetches -> URLs]
      BY <1>1, <2>1, <2>2, <2>3 DEF Typed
    <3>2. via' \in [Fetches -> Seq(Request)] /\ validators' \in [Fetches -> BOOLEAN]
      BY <1>1, <2>1, <2>3 DEF Typed
    <3> QED
      BY <1>1, <2>1, <3>1, <3>2 DEF Typed
  <2>5. Frame(f) /\ pc'[f] = "request" /\ target'[f] = input[f].url /\ via'[f] = <<>> /\ Len(via'[f]) = 0
    BY <1>1, <2>1 DEF Typed, Frame
  <2>6. permits' = Cardinality(Holders')
    BY <1>1, <2>1, <2>5, PermitsMatch DEF Held, Frame
  <2>7. Counted(f)'
    BY <2>5 DEF Counted
  <2>8. URLError(input[f].url) = "none"
    BY <1>1 DEF Chained
  <2>9. Chained(f)'
    BY <1>1, <2>1, <2>5, <2>8 DEF Chained, URLError
  <2> QED
    BY <2>4, <2>5, <2>6, <2>7, <2>9, OthersKeep
<1> QED
  BY <1>2, <1>3

\* A request that goes out prolongs the chain by a URL and an address within the policy.
LEMMA SendStep == ASSUME IInv, NEW f \in Fetches, Send(f) PROVE IInv'
<1>1. /\ Typed /\ Counted(f) /\ Chained(f) /\ pc[f] = "request"
      /\ UNCHANGED <<input, cancelled, attempt, target, validators>>
  BY DEF IInv, Send
<1>2. CASE AttemptFails(f, "blocked", "none") /\ via' = via
  BY <1>1, <1>2, AttemptFailsStep DEF Errors, Permanent
<1>3. CASE \E peer \in Eligible :
              /\ via' = [via EXCEPT ![f] = Append(@, [url |-> target[f], peer |-> peer,
                                                     validators |-> validators[f]])]
              /\ pc' = [pc EXCEPT ![f] = "response"]
              /\ UNCHANGED <<last, err, permits>>
  <2>1. PICK peer \in Eligible :
              /\ via' = [via EXCEPT ![f] = Append(@, [url |-> target[f], peer |-> peer,
                                                     validators |-> validators[f]])]
              /\ pc' = [pc EXCEPT ![f] = "response"]
              /\ UNCHANGED <<last, err, permits>>
    BY <1>3
  <2> DEFINE new == [url |-> target[f], peer |-> peer, validators |-> validators[f]]
             n == Len(via[f])
  <2>2. new \in Request /\ new.url = target[f] /\ new.peer = peer
    BY <1>1, PolicyAssumption DEF Typed, Request
  <2>3. via[f] \in Seq(Request) /\ n \in Nat /\ DOMAIN via[f] = 1 .. n
    BY <1>1 DEF Typed
  <2> HIDE DEF new
  <2>4. via' = [via EXCEPT ![f] = Append(@, new)] /\ via'[f] = Append(via[f], new)
    BY <1>1, <2>1 DEF Typed, new
  <2>5. /\ via'[f] \in Seq(Request) /\ Len(via'[f]) = n + 1 /\ DOMAIN via'[f] = 1 .. n + 1
        /\ \A i \in 1 .. n : via'[f][i] = via[f][i]
        /\ via'[f][n + 1] = new
    BY <2>2, <2>3, <2>4
  <2>6. Typed'
    <3>1. via' \in [Fetches -> Seq(Request)]
      BY <1>1, <2>4, <2>5 DEF Typed
    <3> QED
      BY <1>1, <2>1, <3>1 DEF Typed
  <2>7. Frame(f) /\ pc'[f] = "response"
    BY <1>1, <2>1 DEF Typed, Frame
  <2>8. permits' = Cardinality(Holders')
    BY <1>1, <2>1, <2>7, PermitsMatch DEF Held, Frame
  <2>9. Counted(f)'
    BY <2>7 DEF Counted
  <2>10. Chained(f)'
    <3> HIDE DEF n
    <3>1. /\ URLError(target[f]) = "none" /\ n <= MaxRedirects /\ URLError(input[f].url) = "none"
          /\ \A i \in 1 .. n : via[f][i].url.scheme = "https" => target[f].scheme = "https"
          /\ \A i \in 1 .. n : URLError(via[f][i].url) = "none" /\ via[f][i].peer \in Eligible
          /\ \A i, j \in 1 .. n :
                i < j /\ via[f][i].url.scheme = "https" => via[f][j].url.scheme = "https"
      BY <1>1, <2>3 DEF Chained, n
    <3>2. \A i \in 1 .. n + 1 : i \in 1 .. n \/ i = n + 1
      BY <2>3
    <3>3. \A i \in 1 .. n + 1 : URLError(via'[f][i].url) = "none" /\ via'[f][i].peer \in Eligible
      BY <2>2, <2>5, <3>1, <3>2
    <3>4. ASSUME NEW i \in 1 .. n + 1, NEW j \in 1 .. n + 1, i < j, via'[f][i].url.scheme = "https"
          PROVE  via'[f][j].url.scheme = "https"
      <4>1. i \in 1 .. n
        BY <2>3, <3>4
      <4>2. CASE j \in 1 .. n
        BY <2>5, <3>1, <3>4, <4>1, <4>2
      <4>3. CASE j = n + 1
        BY <2>2, <2>5, <3>1, <3>4, <4>1, <4>3
      <4> QED
        BY <3>2, <4>2, <4>3
    <3>5. n + 1 <= MaxRedirects + 1 /\ n + 1 > 0
      BY <2>3, <3>1, CountsAssumption
    <3> QED
      BY <1>1, <2>5, <2>7, <3>1, <3>3, <3>4, <3>5 DEF Chained, URLError
  <2> QED
    BY <2>6, <2>7, <2>8, <2>9, <2>10, OthersKeep
<1> QED
  BY <1>2, <1>3 DEF Send, Admitted

\* A redirect that is followed leads to a URL within the policy that does not leave HTTPS.
LEMMA RedirectStep == ASSUME IInv, NEW f \in Fetches, Redirect(f) PROVE IInv'
<1>1. /\ Typed /\ Counted(f) /\ Chained(f) /\ pc[f] = "response"
      /\ UNCHANGED <<input, cancelled, attempt, via>>
  BY DEF IInv, Redirect
<1>2. PICK t \in URLs :
          IF RedirectError(via[f], t) = "none"
          THEN /\ target' = [target EXCEPT ![f] = t]
               /\ validators' = [validators EXCEPT ![f] =
                                   input[f].etag /\ SameOrigin(Last(via[f]).url, t)]
               /\ pc' = [pc EXCEPT ![f] = "request"]
               /\ UNCHANGED <<last, err, permits>>
          ELSE AttemptFails(f, RedirectError(via[f], t), "none") /\ UNCHANGED <<target, validators>>
  BY DEF Redirect
<1>3. CASE RedirectError(via[f], t) # "none"
  <2>1. RedirectError(via[f], t) \in Errors
    BY <1>3, ErrorsArePermanent DEF Errors
  <2> QED
    BY <1>1, <1>2, <1>3, <2>1, AttemptFailsStep
<1>4. CASE RedirectError(via[f], t) = "none"
  <2>1. /\ target' = [target EXCEPT ![f] = t] /\ pc' = [pc EXCEPT ![f] = "request"]
        /\ validators' = [validators EXCEPT ![f] = input[f].etag /\ SameOrigin(Last(via[f]).url, t)]
        /\ UNCHANGED <<last, err, permits>>
    BY <1>2, <1>4
  <2>2. Typed'
    <3>1. input[f].etag \in BOOLEAN
      BY <1>1, InputsAssumption DEF Typed
    <3>2. validators' \in [Fetches -> BOOLEAN]
      BY <1>1, <2>1, <3>1 DEF Typed, SameOrigin
    <3> QED
      BY <1>1, <2>1, <3>2 DEF Typed
  <2>3. Frame(f) /\ pc'[f] = "request" /\ target'[f] = t
    BY <1>1, <2>1 DEF Typed, Frame
  <2>4. permits' = Cardinality(Holders')
    BY <1>1, <2>1, <2>3, PermitsMatch DEF Held, Frame
  <2>5. Counted(f)'
    BY <2>3 DEF Counted
  <2>6. via[f] \in Seq(Request) /\ Len(via[f]) \in Nat /\ DOMAIN via[f] = 1 .. Len(via[f]) /\ Len(via[f]) > 0
    BY <1>1 DEF Typed, Chained
  <2>7. /\ ~(Len(via[f]) > MaxRedirects) /\ URLError(t) = "none"
        /\ ~(via[f][Len(via[f])].url.scheme = "https" /\ t.scheme = "http")
    BY <1>4 DEF RedirectError, Last
  <2>8. Len(via[f]) <= MaxRedirects
    BY <2>6, <2>7, CountsAssumption
  <2>9. t.scheme \in {"https", "http"}
    BY <2>7 DEF URLError
  <2>10. ASSUME NEW i \in DOMAIN via[f], via[f][i].url.scheme = "https" PROVE t.scheme = "https"
    <3>1. i = Len(via[f]) \/ i < Len(via[f])
      BY <2>6
    <3>2. via[f][Len(via[f])].url.scheme = "https"
      BY <1>1, <2>6, <2>10, <3>1 DEF Chained
    <3> QED
      BY <2>7, <2>9, <3>2
  <2>11. Chained(f)'
    BY <1>1, <2>3, <2>7, <2>8, <2>10 DEF Chained, URLError
  <2> QED
    BY <2>2, <2>3, <2>4, <2>5, <2>11, OthersKeep
<1> QED
  BY <1>3, <1>4

\* A successful attempt returns what it counted and gives its permit back.
LEMMA SucceedStep == ASSUME IInv, NEW f \in Fetches, Succeed(f) PROVE IInv'
<1>1. /\ Typed /\ Counted(f) /\ Chained(f) /\ pc[f] = "response"
      /\ UNCHANGED <<input, cancelled, attempt, target, validators, via>>
      /\ pc' = [pc EXCEPT ![f] = "done"] /\ err' = [err EXCEPT ![f] = "none"] /\ permits' = permits - 1
  BY DEF IInv, Succeed, Return
<1>2. PICK status \in {"ok", "notModified"} : last' = [last EXCEPT ![f] = Result(status, attempt[f])]
  BY DEF Succeed
<1>3. Result(status, attempt[f]) \in Outcome /\ Result(status, attempt[f]).attempts = attempt[f]
      /\ Result(status, attempt[f]).status = status
  BY <1>1 DEF Typed, Result, Outcome
<1>4. Typed'
  BY <1>1, <1>2, <1>3 DEF Typed
<1>5. Frame(f) /\ pc'[f] = "done" /\ err'[f] = "none" /\ last'[f] = Result(status, attempt[f])
  BY <1>1, <1>2 DEF Typed, Frame
<1>6. permits' = Cardinality(Holders')
  BY <1>1, <1>5, PermitsMatch DEF Held, Frame
<1>7. Counted(f)' /\ Chained(f)'
  BY <1>1, <1>3, <1>5 DEF Counted, Chained, Transient, URLError
<1> QED
  BY <1>4, <1>5, <1>6, <1>7, OthersKeep

\* The two ways an attempt fails share what AttemptFailsStep says.
LEMMA FailingStep == ASSUME IInv, NEW f \in Fetches, Refuse(f) \/ NoAnswer(f) PROVE IInv'
<1>1. /\ pc[f] \in {"request", "response"}
      /\ UNCHANGED <<input, cancelled, attempt, target, validators, via>>
      /\ \E error \in Errors, status \in {"none", "ok", "refused"} : AttemptFails(f, error, status)
  BY DEF Refuse, NoAnswer, Errors, Permanent, Transient
<1> QED
  BY <1>1, AttemptFailsStep

\* After the delay the call tries again, or ends because its context has.
LEMMA SleepStep == ASSUME IInv, NEW f \in Fetches, Sleep(f) PROVE IInv'
<1>1. Typed /\ Counted(f) /\ Chained(f) /\ pc[f] = "sleep"
  BY DEF IInv, Sleep
<1>2. /\ UNCHANGED <<input, cancelled, attempt, target, validators, via, last>>
      /\ \/ pc' = [pc EXCEPT ![f] = "attempt"] /\ err' = err /\ permits' = permits
         \/ /\ pc' = [pc EXCEPT ![f] = "done"] /\ err' = [err EXCEPT ![f] = "cancelled"]
            /\ permits' = permits - 1
  BY DEF Sleep, Return
<1>3. Typed' /\ Frame(f)
  BY <1>1, <1>2 DEF Typed, Frame, Errors
<1>4. \/ pc'[f] = "attempt" /\ err'[f] = err[f] /\ permits' = permits
      \/ pc'[f] = "done" /\ err'[f] = "cancelled" /\ permits' = permits - 1
  BY <1>1, <1>2 DEF Typed
<1>5. permits' = Cardinality(Holders')
  BY <1>1, <1>3, <1>4, PermitsMatch DEF Held, Frame
<1>6. Counted(f)'
  BY <1>1, <1>2, <1>4 DEF Counted, Transient
<1>7. Chained(f)'
  BY <1>1, <1>2, <1>4 DEF Chained, URLError
<1> QED
  BY <1>3, <1>5, <1>6, <1>7, OthersKeep

\* A context that ends makes no call hold or give back anything.
LEMMA CancelStep == ASSUME IInv, NEW f \in Fetches, Cancel(f) PROVE IInv'
<1>1. /\ Typed /\ Counted(f) /\ Chained(f) /\ pc[f] # "done"
      /\ cancelled' = [cancelled EXCEPT ![f] = TRUE]
      /\ UNCHANGED <<input, pc, permits, attempt, target, validators, via, last, err>>
  BY DEF IInv, Cancel
<1>2. Typed' /\ Frame(f)
  BY <1>1 DEF Typed, Frame
<1>3. permits' = Cardinality(Holders')
  BY <1>1, PermitsMatch DEF Held
<1>4. Counted(f)' /\ Chained(f)'
  BY <1>1 DEF Counted, Chained, URLError
<1> QED
  BY <1>2, <1>3, <1>4, OthersKeep

-------------------------------------------------------------------------------
(* The theorems. *)

\* The invariant holds in every reachable state.
THEOREM Invariance == Spec => []IInv
<1>1. IInv /\ [Next]_vars => IInv'
  <2> SUFFICES ASSUME IInv, [Next]_vars PROVE IInv'
    OBVIOUS
  <2>1. CASE UNCHANGED vars
    BY <2>1 DEF vars, IInv, Typed, Counted, Chained, Holders, URLError
  <2> QED
    BY <2>1, AcquireStep, ValidateStep, BeginAttemptStep, SendStep, RedirectStep, SucceedStep,
       FailingStep, SleepStep, CancelStep DEF Next, Step
<1> QED
  BY <1>1, InitInvariant, PTL DEF Spec

\* Types, and the semaphore holds one token for each call that has a permit, on every
\* path through Fetch.
THEOREM PermitsComeBack == Spec => []TypeOK
<1>1. IInv => TypeOK
  <2> SUFFICES ASSUME IInv PROVE TypeOK
    OBVIOUS
  <2>1. \A f \in Fetches : \A i \in DOMAIN via[f] : via[f][i] \in Request
    BY DEF IInv, Typed
  <2> QED
    BY <2>1 DEF IInv, Typed, TypeOK, Request, Outcome, Errors
<1> QED
  BY <1>1, Invariance, PTL

\* No chain of redirects and no answer of a resolver leads a request out of the policy.
THEOREM PolicyHolds == Spec => []RequestsStayInPolicy
<1>1. IInv => RequestsStayInPolicy
  BY DEF IInv, Chained, RequestsStayInPolicy
<1> QED
  BY <1>1, Invariance, PTL

\* Chains end, and never go back from HTTPS.
THEOREM ChainsEnd == Spec => []ChainsAreBounded
<1>1. IInv => ChainsAreBounded
  BY DEF IInv, Chained, ChainsAreBounded
<1> QED
  BY <1>1, Invariance, PTL

\* What Fetch returns fits what it did.
THEOREM ResultsFit == Spec => []ReturnsFit
<1>1. IInv => ReturnsFit
  BY DEF IInv, Counted, ReturnsFit
<1> QED
  BY <1>1, Invariance, PTL

\* Attempts are repeated for a reason, and never after the context has ended.
THEOREM RetriesDue == Spec => RetriesAreDue
<1>1. IInv /\ [Next]_vars =>
        [\A f \in Fetches : attempt'[f] # attempt[f] =>
            ~cancelled[f] /\ (attempt[f] > 0 => err[f] \in Transient)]_vars
  <2> SUFFICES ASSUME IInv, Next, NEW f \in Fetches, attempt'[f] # attempt[f]
               PROVE  ~cancelled[f] /\ (attempt[f] > 0 => err[f] \in Transient)
    OBVIOUS
  <2>1. PICK g \in Fetches : Step(g) \/ Cancel(g)
    BY DEF Next
  <2>2. BeginAttempt(g)
    BY <2>1 DEF Step, Acquire, Validate, Send, Redirect, Succeed, Refuse, NoAnswer, Sleep, Cancel
  <2>3. g = f /\ ~cancelled[f] /\ pc[f] = "attempt"
    BY <2>2 DEF BeginAttempt, IInv, Typed
  <2> QED
    BY <2>3 DEF IInv, Counted
<1> QED
  BY <1>1, Invariance, PTL DEF Spec, RetriesAreDue
===============================================================================
