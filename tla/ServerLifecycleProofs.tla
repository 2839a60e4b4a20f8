------------------------- MODULE ServerLifecycleProofs -------------------------
(***************************************************************************)
(* Proofs about ServerLifecycle, for any set of connections.               *)
(***************************************************************************)
EXTENDS ServerLifecycle, TLAPS

-------------------------------------------------------------------------------
(* The inductive invariant. *)

Typed ==
    /\ main \in {"boot", "listen", "track", "accept", "closed", "failed", "exited"}
    /\ stopper \in {"none", "waiting", "closing", "draining", "drained", "timedOut"}
    /\ signalled \in BOOLEAN /\ broken \in BOOLEAN
    /\ listener \in {"none", "open", "closed"}
    /\ exit \in {"none", "zero", "one", "killed"}

\* Only a signal begins a shutdown, and none is caught before the process has booted.
Caught == (main = "boot" => ~signalled) /\ (InShutdown => signalled)

\* The listener is open until the accept loop or a shutdown has closed it, so that an
\* error of Accept outside of a shutdown is one of the listener.
Serving == /\ main = "track" => listener = "open"
           /\ main = "accept" /\ ~InShutdown => listener = "open"

\* How the main goroutine can have come to its end.
Ending == /\ main = "closed" => InShutdown
          /\ main = "failed" => broken
          /\ main # "exited" => exit = "none"

IInv == Typed /\ Caught /\ Serving /\ Ending /\ ExitStatusIsTrue

\* The process has not begun.
LEMMA InitInvariant == Init => IInv
BY DEF Init, IInv, Typed, Caught, Serving, Ending, InShutdown, ExitStatusIsTrue

-------------------------------------------------------------------------------
\* A step of the main goroutine, or a signal to it.
LEMMA MainStep == ASSUME IInv, Main \/ Kill \/ Signal \/ AcceptFails PROVE IInv'
<1> USE DEF IInv, Typed, Caught, Serving, Ending, InShutdown, ExitStatusIsTrue
<1>1. CASE Boot
  BY <1>1 DEF Boot
<1>2. CASE Listen
  BY <1>2 DEF Listen
<1>3. CASE ListenFails
  BY <1>3 DEF ListenFails
<1>4. CASE Track
  BY <1>4 DEF Track
<1>5. CASE AcceptFails
  BY <1>5 DEF AcceptFails
<1>6. CASE Exit
  BY <1>6 DEF Exit
<1>7. CASE Kill
  BY <1>7 DEF Kill
<1>8. CASE Signal
  BY <1>8 DEF Signal, Alive
<1> QED
  BY <1>1, <1>2, <1>3, <1>4, <1>5, <1>6, <1>7, <1>8 DEF Main

\* A step of the goroutine that shuts the server down.
LEMMA StopStep == ASSUME IInv, Stop PROVE IInv'
<1> USE DEF IInv, Typed, Caught, Serving, Ending, InShutdown, ExitStatusIsTrue
<1>1. CASE BeginShutdown
  BY <1>1 DEF BeginShutdown, Alive
<1>2. CASE CloseListeners
  BY <1>2 DEF CloseListeners, Alive
<1>3. CASE Drain
  BY <1>3 DEF Drain, Alive
<1>4. CASE DrainTimesOut
  BY <1>4 DEF DrainTimesOut, Alive
<1> QED
  BY <1>1, <1>2, <1>3, <1>4 DEF Stop

\* What happens on a connection does not concern either goroutine.
LEMMA ConnectionStep ==
    ASSUME IInv, NEW c \in Conns,
           Accept(c) \/ Connect(c) \/ Request(c) \/ Answer(c) \/ Leave(c)
    PROVE  IInv'
<1>1. UNCHANGED <<main, stopper, signalled, listener, broken, exit>>
  BY DEF Accept, Connect, Request, Answer, Leave
<1> QED
  BY <1>1 DEF IInv, Typed, Caught, Serving, Ending, InShutdown, ExitStatusIsTrue

\* The invariant holds in every reachable state.
THEOREM Invariance == Spec => []IInv
<1>1. IInv /\ [Next]_vars => IInv'
  <2> SUFFICES ASSUME IInv, [Next]_vars PROVE IInv'
    OBVIOUS
  <2>1. CASE UNCHANGED vars
    BY <2>1 DEF vars, IInv, Typed, Caught, Serving, Ending, InShutdown, ExitStatusIsTrue
  <2> QED
    BY <2>1, MainStep, StopStep, ConnectionStep DEF Next
<1> QED
  BY <1>1, InitInvariant, PTL DEF Spec

\* The exit status tells the truth: the process ends with zero only after a signal, with
\* one only when listening or accepting has failed of itself, and is killed only by a
\* signal that nothing has caught.
THEOREM ExitsTruly == Spec => []ExitStatusIsTrue
<1>1. IInv => ExitStatusIsTrue
  BY DEF IInv
<1> QED
  BY <1>1, Invariance, PTL
===============================================================================
