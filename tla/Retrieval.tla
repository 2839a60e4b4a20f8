------------------------------ MODULE Retrieval -------------------------------
(***************************************************************************)
(* Client.Fetch (internal/retrieval): concurrent retrievals that share the *)
(* semaphore of one Client.  Each makes up to MaxAttempts attempts, each   *)
(* attempt follows redirects that checkRedirect admits to destinations     *)
(* that dialContext admits, and the context of each may end at any time.   *)
(* net/http and the servers are external: what matters of them here is     *)
(* that every redirected request starts from the headers of the FIRST      *)
(* request of the attempt, and that any request may fail or time out.      *)
(***************************************************************************)
EXTENDS Integers, Sequences, SequencesExt, FiniteSets

CONSTANTS
    Fetches,        \* the calls of Fetch
    URLs,           \* the URLs that callers or servers name
    Inputs,         \* the FetchRequest values: [url, etag], etag if it has a validator
    Addresses,      \* addresses that a host name may resolve to
    Eligible,       \* those that validateAddress admits
    MaxConcurrent,  \* Config.MaxConcurrent
    MaxAttempts,    \* Config.MaxAttempts
    MaxRedirects,   \* maxRedirects
    AllowPlainHTTP  \* Config.AllowPlainHTTP

ASSUME CountsAssumption == {MaxConcurrent, MaxAttempts, MaxRedirects} \subseteq Nat \ {0}
ASSUME PolicyAssumption == Eligible \subseteq Addresses /\ AllowPlainHTTP \in BOOLEAN
ASSUME InputsAssumption == Inputs \subseteq [url : URLs, etag : BOOLEAN]
ASSUME FetchesAssumption == IsFiniteSet(Fetches)

\* A URL is a record: scheme; host, the host name with its effective port; literal,
\* the set of the address that the host spells out, or {} for a name; path; and user,
\* whether it embeds credentials.

VARIABLES
    input,      \* the FetchRequest of each call
    pc,         \* where the call is
    permits,    \* tokens in the semaphore channel
    cancelled,  \* whether the call's context has ended
    attempt,    \* the loop variable of Fetch, 0 before the loop
    target,     \* the URL of the next request of the attempt
    validators, \* whether that request carries If-None-Match or If-Modified-Since
    via,        \* the requests of the attempt that have been sent, oldest first
    last,       \* the FetchResult so far: its status and its Attempts
    err         \* the error of the last attempt, or what the call returns

vars == <<input, pc, permits, cancelled, attempt, target, validators, via, last, err>>

Permanent == {"blocked", "credentials", "scheme", "downgrade", "tooManyRedirects",
              "tooLarge", "finalStatus"}
Transient == {"network", "retryStatus"}

Result(status, n) == [status |-> status, attempts |-> n]

-------------------------------------------------------------------------------
\* ValidateURL: the error of a URL, or "none".  A literal address is checked here, a
\* host name only when it is dialled.
URLError(u) ==
    IF u.user THEN "credentials"
    ELSE IF u.scheme \notin {"https", "http"} \/ (u.scheme = "http" /\ ~AllowPlainHTTP) THEN "scheme"
    ELSE IF ~(u.literal \subseteq Eligible) THEN "blocked"
    ELSE "none"

SameOrigin(u, t) == u.scheme = t.scheme /\ u.host = t.host

\* Faulty variant: one eligible address admits the whole answer.
SomeAdmitted(addresses) == addresses \cap Eligible # {}

\* resolveAllowed: one ineligible address refuses the whole answer.
Admitted(addresses) == addresses \subseteq Eligible

\* Faulty variant: the scheme is compared with that of the first request.
RedirectErrorFromFirst(sent, t) ==
    IF Len(sent) > MaxRedirects THEN "tooManyRedirects"
    ELSE IF sent[1].url.scheme = "https" /\ t.scheme = "http" THEN "downgrade"
    ELSE URLError(t)

\* checkRedirect: the error of a redirect to t after the requests of sent, or "none".
RedirectError(sent, t) ==
    IF Len(sent) > MaxRedirects THEN "tooManyRedirects"
    ELSE IF Last(sent).url.scheme = "https" /\ t.scheme = "http" THEN "downgrade"
    ELSE URLError(t)

-------------------------------------------------------------------------------
Init ==
    /\ input \in [Fetches -> Inputs]
    /\ pc = [f \in Fetches |-> "acquire"]
    /\ permits = 0
    /\ cancelled = [f \in Fetches |-> FALSE]
    /\ attempt = [f \in Fetches |-> 0]
    /\ target = [f \in Fetches |-> input[f].url]
    /\ validators = [f \in Fetches |-> FALSE]
    /\ via = [f \in Fetches |-> <<>>]
    /\ last = [f \in Fetches |-> Result("none", 0)]
    /\ err = [f \in Fetches |-> "none"]

\* Faulty variant: the permit is not given back.
ReturnHolding(f, error) ==
    /\ pc' = [pc EXCEPT ![f] = "done"]
    /\ err' = [err EXCEPT ![f] = error]
    /\ UNCHANGED permits

\* Fetch returns; its deferred function takes the permit back out.
Return(f, error) ==
    /\ pc' = [pc EXCEPT ![f] = "done"]
    /\ err' = [err EXCEPT ![f] = error]
    /\ permits' = permits - 1

\* shouldRetry.
Retryable(f, error) == error \in Transient /\ ~cancelled[f]

\* Faulty variant: the last attempt is never made.
AttemptFailsEarly(f, error, status) ==
    /\ last' = [last EXCEPT ![f] = Result(status, attempt[f])]
    /\ IF attempt[f] + 1 < MaxAttempts /\ Retryable(f, error)
       THEN /\ pc' = [pc EXCEPT ![f] = "sleep"]
            /\ err' = [err EXCEPT ![f] = error]
            /\ UNCHANGED permits
       ELSE Return(f, error)

\* An attempt ends with an error: Fetch sleeps and tries again, or returns it.
AttemptFails(f, error, status) ==
    /\ last' = [last EXCEPT ![f] = Result(status, attempt[f])]
    /\ IF attempt[f] < MaxAttempts /\ Retryable(f, error)
       THEN /\ pc' = [pc EXCEPT ![f] = "sleep"]
            /\ err' = [err EXCEPT ![f] = error]
            /\ UNCHANGED permits
       ELSE Return(f, error)

\* select: a permit or the end of the context, either one when both are ready.
Acquire(f) ==
    /\ pc[f] = "acquire"
    /\ \/ /\ permits < MaxConcurrent
          /\ permits' = permits + 1
          /\ pc' = [pc EXCEPT ![f] = "validate"]
          /\ UNCHANGED err
       \/ /\ cancelled[f]
          /\ pc' = [pc EXCEPT ![f] = "done"]
          /\ err' = [err EXCEPT ![f] = "cancelled"]
          /\ UNCHANGED permits
    /\ UNCHANGED <<input, cancelled, attempt, target, validators, via, last>>

Validate(f) ==
    /\ pc[f] = "validate"
    /\ IF URLError(input[f].url) = "none"
       THEN pc' = [pc EXCEPT ![f] = "attempt"] /\ UNCHANGED <<err, permits>>
       ELSE Return(f, URLError(input[f].url))
    /\ UNCHANGED <<input, cancelled, attempt, target, validators, via, last>>

\* Faulty variant: the loop does not look at the context.
BeginAttemptUnchecked(f) ==
    /\ pc[f] = "attempt"
    /\ attempt' = [attempt EXCEPT ![f] = @ + 1]
    /\ target' = [target EXCEPT ![f] = input[f].url]
    /\ validators' = [validators EXCEPT ![f] = input[f].etag]
    /\ via' = [via EXCEPT ![f] = <<>>]
    /\ pc' = [pc EXCEPT ![f] = "request"]
    /\ UNCHANGED <<input, err, permits, cancelled, last>>

\* The head of the loop, and the first request of fetchAttempt.
BeginAttempt(f) ==
    /\ pc[f] = "attempt"
    /\ IF cancelled[f]
       THEN Return(f, "cancelled") /\ UNCHANGED <<attempt, target, validators, via>>
       ELSE /\ attempt' = [attempt EXCEPT ![f] = @ + 1]
            /\ target' = [target EXCEPT ![f] = input[f].url]
            /\ validators' = [validators EXCEPT ![f] = input[f].etag]
            /\ via' = [via EXCEPT ![f] = <<>>]
            /\ pc' = [pc EXCEPT ![f] = "request"]
            /\ UNCHANGED <<err, permits>>
    /\ UNCHANGED <<input, cancelled, last>>

\* dialContext, then the request goes out: to the literal address, or to one of what
\* the name resolves to at this moment.
Send(f) ==
    /\ pc[f] = "request"
    /\ \E addresses \in IF target[f].literal # {} THEN {target[f].literal}
                        ELSE (SUBSET Addresses) \ {{}} :
          IF Admitted(addresses)
          THEN /\ \E peer \in addresses :
                    via' = [via EXCEPT ![f] = Append(@, [url |-> target[f], peer |-> peer,
                                                        validators |-> validators[f]])]
               /\ pc' = [pc EXCEPT ![f] = "response"]
               /\ UNCHANGED <<last, err, permits>>
          ELSE AttemptFails(f, "blocked", "none") /\ UNCHANGED via
    /\ UNCHANGED <<input, cancelled, attempt, target, validators>>

\* A redirect.  net/http fills the new request with the first request's headers, then
\* calls checkRedirect, which compares its origin with the previous request's.
Redirect(f) ==
    /\ pc[f] = "response"
    /\ \E t \in URLs :
          IF RedirectError(via[f], t) = "none"
          THEN /\ target' = [target EXCEPT ![f] = t]
               /\ validators' = [validators EXCEPT ![f] =
                                   input[f].etag /\ SameOrigin(Last(via[f]).url, t)]
               /\ pc' = [pc EXCEPT ![f] = "request"]
               /\ UNCHANGED <<last, err, permits>>
          ELSE AttemptFails(f, RedirectError(via[f], t), "none") /\ UNCHANGED <<target, validators>>
    /\ UNCHANGED <<input, cancelled, attempt, via>>

\* A response that ends the attempt without error: a 2xx with its body, or a 304,
\* which is taken as it comes, whether or not the request carried validators.
Succeed(f) ==
    /\ pc[f] = "response"
    /\ \E status \in {"ok", "notModified"} :
          last' = [last EXCEPT ![f] = Result(status, attempt[f])]
    /\ Return(f, "none")
    /\ UNCHANGED <<input, cancelled, attempt, target, validators, via>>

\* A status that is neither 2xx nor 304, or a body over MaxBodyBytes.
Refuse(f) ==
    /\ pc[f] = "response"
    /\ \/ \E e \in {"retryStatus", "finalStatus"} : AttemptFails(f, e, "refused")
       \/ AttemptFails(f, "tooLarge", "ok")
    /\ UNCHANGED <<input, cancelled, attempt, target, validators, via>>

\* No answer: resolution, dialling, a timeout of the client, a body cut short; or the
\* context ends, which is the same error but for ctx.Err().  A body that is cut short
\* comes back with its status.
NoAnswer(f) ==
    /\ pc[f] \in {"request", "response"}
    /\ \E status \in {"none"} \cup IF pc[f] = "response" THEN {"ok"} ELSE {} :
          AttemptFails(f, IF cancelled[f] THEN "cancelled" ELSE "network", status)
    /\ UNCHANGED <<input, cancelled, attempt, target, validators, via>>

\* sleepContext: the delay passes, or the context ends first.
Sleep(f) ==
    /\ pc[f] = "sleep"
    /\ \/ pc' = [pc EXCEPT ![f] = "attempt"] /\ UNCHANGED <<err, permits>>
       \/ cancelled[f] /\ Return(f, "cancelled")
    /\ UNCHANGED <<input, cancelled, attempt, target, validators, via, last>>

Cancel(f) ==
    /\ pc[f] # "done" /\ ~cancelled[f]
    /\ cancelled' = [cancelled EXCEPT ![f] = TRUE]
    /\ UNCHANGED <<input, pc, permits, attempt, target, validators, via, last, err>>

Step(f) == \/ Acquire(f) \/ Validate(f) \/ BeginAttempt(f) \/ Send(f) \/ Redirect(f)
           \/ Succeed(f) \/ Refuse(f) \/ NoAnswer(f) \/ Sleep(f)

Next == \E f \in Fetches : Step(f) \/ Cancel(f)

\* Timeouts bound every request and timers every sleep; no context has to end.
Fairness == \A f \in Fetches : WF_vars(Step(f))

Spec == Init /\ [][Next]_vars
FairSpec == Spec /\ Fairness

-------------------------------------------------------------------------------
Holders == {f \in Fetches : pc[f] \notin {"acquire", "done"}}

\* Types; and one permit is out for each call between its acquisition and its
\* return, whichever of its many returns that is.
TypeOK ==
    /\ input \in [Fetches -> Inputs]
    /\ pc \in [Fetches -> {"acquire", "validate", "attempt", "request", "response", "sleep", "done"}]
    /\ cancelled \in [Fetches -> BOOLEAN]
    /\ attempt \in [Fetches -> 0 .. MaxAttempts]
    /\ target \in [Fetches -> URLs]
    /\ validators \in [Fetches -> BOOLEAN]
    /\ \A f \in Fetches : \A i \in DOMAIN via[f] :
          via[f][i] \in [url : URLs, peer : Addresses, validators : BOOLEAN]
    /\ last \in [Fetches -> [status : {"none", "ok", "notModified", "refused"}, attempts : 0 .. MaxAttempts]]
    /\ err \in [Fetches -> {"none", "cancelled"} \cup Permanent \cup Transient]
    /\ permits = Cardinality(Holders)

\* Wherever redirects and name resolution lead, a request is only ever sent to a URL
\* that the policy admits, at an address that it admits.
RequestsStayInPolicy ==
    \A f \in Fetches : \A i \in DOMAIN via[f] :
        URLError(via[f][i].url) = "none" /\ via[f][i].peer \in Eligible

\* An attempt that has used HTTPS never goes back to HTTP, however long the chain of
\* redirects, and the chain is never longer than maxRedirects.
ChainsAreBounded ==
    \A f \in Fetches :
        /\ Len(via[f]) <= MaxRedirects + 1
        /\ \A i, j \in DOMAIN via[f] :
              i < j /\ via[f][i].url.scheme = "https" => via[f][j].url.scheme = "https"

\* What Fetch returns fits what it did: Attempts counts the attempts made, no error
\* means a 2xx or a 304, and a transient error comes back only when every attempt
\* has been used or the context has ended.
ReturnsFit ==
    \A f \in Fetches : pc[f] = "done" =>
        /\ last[f].attempts = attempt[f]
        /\ err[f] = "none" => last[f].status \in {"ok", "notModified"}
        /\ err[f] \in Transient => attempt[f] = MaxAttempts \/ cancelled[f]

\* Another attempt is made only over a transient error and never after the context
\* has ended, also when it ends during the sleep between two attempts.
RetriesAreDue ==
    [][\A f \in Fetches : attempt'[f] # attempt[f] =>
          ~cancelled[f] /\ (attempt[f] > 0 => err[f] \in Transient)]_vars

\* Every call returns, though calls outnumber permits and a permit is kept through
\* every sleep.
EveryFetchReturns == \A f \in Fetches : <>(pc[f] = "done")

\* What SECURITY.md says of cross-origin redirects: a request that carries the
\* validators goes to the origin that issued them.
ValidatorsStayAtOrigin ==
    \A f \in Fetches : \A i \in DOMAIN via[f] :
        via[f][i].validators => SameOrigin(via[f][i].url, input[f].url)
===============================================================================
