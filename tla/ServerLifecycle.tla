---------------------------- MODULE ServerLifecycle ---------------------------
(***************************************************************************)
(* The process (cmd/feeds-server/main.go): the main goroutine listens and  *)
(* serves, a second one waits for SIGINT or SIGTERM and shuts the server   *)
(* down, and the process ends when the main goroutine does, whatever the   *)
(* other one and the handlers (internal/server/server.go) are doing then.  *)
(* net/http is modelled from what main.go calls: ListenAndServe with its   *)
(* steps Listen, Track and the accept loop, and Shutdown with its steps.   *)
(***************************************************************************)
CONSTANT Conns  \* connections that clients may open

VARIABLES
    main,       \* where the main goroutine is
    stopper,    \* where the goroutine that calls Shutdown is
    signalled,  \* whether ctx has been cancelled by a signal
    listener,   \* the listening socket
    conn,       \* the connections: a queued one is not accepted yet, an active
                \* one has a request in its handler, a cut one had one at the end
    broken,     \* whether listening or accepting has failed
    exit        \* the status of the process

vars == <<main, stopper, signalled, listener, conn, broken, exit>>

Init ==
    /\ main = "boot" /\ stopper = "none" /\ signalled = FALSE
    /\ listener = "none" /\ broken = FALSE /\ exit = "none"
    /\ conn = [c \in Conns |-> "away"]

Alive == main # "exited"

\* Server.inShutdown
InShutdown == stopper \in {"closing", "draining", "drained", "timedOut"}

-------------------------------------------------------------------------------
\* signal.NotifyContext, then the second goroutine.
Boot ==
    /\ main = "boot"
    /\ main' = "listen"
    /\ stopper' = "waiting"
    /\ UNCHANGED <<signalled, listener, conn, broken, exit>>

\* Before that a signal has its default effect.
Kill ==
    /\ main = "boot"
    /\ main' = "exited" /\ exit' = "killed"
    /\ UNCHANGED <<stopper, signalled, listener, conn, broken>>

\* The first signal cancels ctx; later ones are swallowed, for stop runs last.
Signal ==
    /\ Alive /\ main # "boot" /\ ~signalled
    /\ signalled' = TRUE
    /\ UNCHANGED <<main, stopper, listener, conn, broken, exit>>

\* ListenAndServe: ErrServerClosed if Shutdown came first, else net.Listen.
Listen ==
    /\ main = "listen"
    /\ IF InShutdown THEN main' = "closed" /\ UNCHANGED listener
                     ELSE main' = "track" /\ listener' = "open"
    /\ UNCHANGED <<stopper, signalled, conn, broken, exit>>

ListenFails ==
    /\ main = "listen" /\ ~InShutdown
    /\ main' = "failed" /\ broken' = TRUE
    /\ UNCHANGED <<stopper, signalled, listener, conn, exit>>

\* Serve registers the listener, which Shutdown is to close, or closes it itself.
Track ==
    /\ main = "track"
    /\ IF InShutdown THEN main' = "closed" /\ listener' = "closed"
                     ELSE main' = "accept" /\ UNCHANGED listener
    /\ UNCHANGED <<stopper, signalled, conn, broken, exit>>

Accept(c) ==
    /\ main = "accept" /\ listener = "open"
    /\ conn[c] = "queued"
    /\ conn' = [conn EXCEPT ![c] = "idle"]
    /\ UNCHANGED <<main, stopper, signalled, listener, broken, exit>>

\* Faulty variant: an error of Accept during shutdown is an error of the server.
AcceptFailsAnyway ==
    /\ main = "accept"
    /\ main' = "failed"
    /\ broken' = (broken \/ listener = "open")
    /\ listener' = "closed"
    /\ UNCHANGED <<stopper, signalled, conn, exit>>

\* Accept returns an error: ErrServerClosed during a shutdown, whatever the error.
AcceptFails ==
    /\ main = "accept"
    /\ main' = IF InShutdown THEN "closed" ELSE "failed"
    /\ broken' = (broken \/ listener = "open")
    /\ listener' = "closed"
    /\ UNCHANGED <<stopper, signalled, conn, exit>>

\* Faulty variant: main waits for the second goroutine, which tells it that Shutdown has
\* returned, but not when Shutdown has returned an error.
ExitWhenDrained ==
    /\ main = "failed" \/ (main = "closed" /\ stopper = "drained")
    /\ main' = "exited"
    /\ exit' = IF main = "closed" THEN "zero" ELSE "one"
    /\ conn' = [c \in Conns |-> IF conn[c] = "active" THEN "cut" ELSE "closed"]
    /\ UNCHANGED <<stopper, signalled, listener, broken>>

\* The end of main, with status 0 after ErrServerClosed and by log.Fatalf otherwise,
\* is the end of every goroutine and of every connection.
Exit ==
    /\ main \in {"closed", "failed"}
    /\ main' = "exited"
    /\ exit' = IF main = "closed" THEN "zero" ELSE "one"
    /\ conn' = [c \in Conns |-> CASE conn[c] = "active" -> "cut"
                                  [] conn[c] \in {"queued", "idle"} -> "closed"
                                  [] OTHER -> conn[c]]
    /\ UNCHANGED <<stopper, signalled, listener, broken>>

-------------------------------------------------------------------------------
\* Shutdown: first the flag, then the listeners that are registered by then.
BeginShutdown ==
    /\ Alive /\ stopper = "waiting" /\ signalled
    /\ stopper' = "closing"
    /\ UNCHANGED <<main, signalled, listener, conn, broken, exit>>

CloseListeners ==
    /\ Alive /\ stopper = "closing"
    /\ stopper' = "draining"
    /\ listener' = IF main = "accept" THEN "closed" ELSE listener
    /\ UNCHANGED <<main, signalled, conn, broken, exit>>

\* One turn of its loop: idle connections are closed, and it is done when none is active.
Drain ==
    /\ Alive /\ stopper = "draining"
    /\ conn' = [c \in Conns |-> IF conn[c] = "idle" THEN "closed" ELSE conn[c]]
    /\ stopper' = IF \E c \in Conns : conn[c] = "active" THEN "draining" ELSE "drained"
    /\ UNCHANGED <<main, signalled, listener, broken, exit>>

\* The ten seconds of shutdownCtx are over: "graceful shutdown failed" is logged.
DrainTimesOut ==
    /\ Alive /\ stopper = "draining"
    /\ stopper' = "timedOut"
    /\ UNCHANGED <<main, signalled, listener, conn, broken, exit>>

-------------------------------------------------------------------------------
Connect(c) ==
    /\ Alive /\ listener = "open" /\ conn[c] = "away"
    /\ conn' = [conn EXCEPT ![c] = "queued"]
    /\ UNCHANGED <<main, stopper, signalled, listener, broken, exit>>

Request(c) ==
    /\ Alive /\ conn[c] = "idle"
    /\ conn' = [conn EXCEPT ![c] = "active"]
    /\ UNCHANGED <<main, stopper, signalled, listener, broken, exit>>

\* A handler has written its answer; during a shutdown the connection is closed.
Answer(c) ==
    /\ Alive /\ conn[c] = "active"
    /\ conn' = [conn EXCEPT ![c] = IF InShutdown THEN "closed" ELSE "idle"]
    /\ UNCHANGED <<main, stopper, signalled, listener, broken, exit>>

\* The client leaves, or IdleTimeout or ReadTimeout runs out.
Leave(c) ==
    /\ Alive /\ conn[c] = "idle"
    /\ conn' = [conn EXCEPT ![c] = "closed"]
    /\ UNCHANGED <<main, stopper, signalled, listener, broken, exit>>

-------------------------------------------------------------------------------
Main == Boot \/ Listen \/ ListenFails \/ Track \/ (listener = "closed" /\ AcceptFails) \/ Exit
Stop == BeginShutdown \/ CloseListeners \/ Drain \/ DrainTimesOut

Next ==
    \/ Main \/ Stop \/ Kill \/ Signal \/ AcceptFails
    \/ \E c \in Conns : Accept(c) \/ Connect(c) \/ Request(c) \/ Answer(c) \/ Leave(c)

\* Both goroutines run while they can.  Nothing is assumed of clients, handlers,
\* signals, or of the accept loop as long as its listener is open.
Fairness == WF_vars(Main) /\ WF_vars(Stop)

Spec == Init /\ [][Next]_vars
FairSpec == Spec /\ Fairness
-------------------------------------------------------------------------------
\* The status tells the truth: zero only after a signal, one only when listening or
\* accepting has failed and not because a shutdown has closed the listener.
ExitStatusIsTrue ==
    /\ exit = "zero" => signalled
    /\ exit = "one"  => broken
    /\ exit = "killed" => ~signalled

\* A signal ends the process, wherever in its start it arrives and however long
\* requests take.
SignalEndsProcess == signalled ~> main = "exited"

\* main.go:33-39 gives requests ten seconds to finish and logs "graceful shutdown
\* failed" if they do not: a request is cut off by a shutdown only after those.
RequestsAreDrained ==
    \A c \in Conns : conn[c] = "cut" /\ exit = "zero" => stopper = "timedOut"
===============================================================================
