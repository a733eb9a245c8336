----------------------------- MODULE Lifecycle -----------------------------
(***************************************************************************)
(* The life of the process: main in src/cmd/mcproxy/main.go, Serve,        *)
(* Shutdown and handleConn of the proxy in src/internal/proxy/server.go    *)
(* and ListenAndServe of the management server in                          *)
(* src/internal/management/server.go, around one connection whose session  *)
(* is the module Pipe.                                                     *)
(*                                                                         *)
(* The context is cancelled by a signal or by the failure of the           *)
(* management server.  Then two goroutines close the listener, the one     *)
(* Serve starts and main.  When main returns the process ends, whatever    *)
(* the other goroutines are doing.                                         *)
(***************************************************************************)
EXTENDS Pipe

CONSTANT Management    \* cfg.Management.Enabled

ASSUME LifecycleAssumption == Management \in BOOLEAN

VARIABLES
    ctx,      \* the context of signal.NotifyContext is cancelled
    main,     \* "select", "shutdown", "closing" (Close under way), "exited"
    exit,     \* the exit status: "none" while running, "ok" (0), "error" (1)
    server,   \* the proxy's goroutine: "listen", "publish", "accept", "returned"
    errCh,    \* what it has sent: "none", "nil", "canceled", "failed"
    ln,       \* the listener: "none", "open", "closed"
    known,    \* whether s.ln is set
    watcher,  \* the goroutine of Serve that waits for the context:
              \* "none", "waiting", "done"
    mgmt,     \* the management server: "on", "failed", "off"
    handler   \* the connection: "none", "handling", "piping", "ended"

vars == <<pipeVars, ctx, main, exit, server, errCh, ln, known, watcher, mgmt, handler>>
serverVars == <<server, errCh, ln, known, watcher>>
mainVars == <<main, exit>>

Init ==
    /\ PipeInit
    /\ ctx = FALSE
    /\ main = "select"
    /\ exit = "none"
    /\ server = "listen"
    /\ errCh = "none"
    /\ ln = "none"
    /\ known = FALSE
    /\ watcher = "none"
    /\ mgmt = IF Management THEN "on" ELSE "off"
    /\ handler = "none"

-----------------------------------------------------------------------------
\* SIGINT or SIGTERM.
Signal ==
    /\ ~ctx
    /\ ctx' = TRUE
    /\ UNCHANGED <<pipeVars, mainVars, serverVars, mgmt, handler>>

\* The management server has been shut down, as the context is cancelled.
MgmtEnds ==
    /\ mgmt = "on" /\ ctx
    /\ mgmt' = "off"
    /\ UNCHANGED <<pipeVars, ctx, mainVars, serverVars, handler>>

\* It cannot bind its address, or its listener fails later.
MgmtFails ==
    /\ mgmt = "on"
    /\ mgmt' = "failed"
    /\ UNCHANGED <<pipeVars, ctx, mainVars, serverVars, handler>>

\* Its goroutine logs the failure and calls stop().
MgmtStops ==
    /\ mgmt = "failed"
    /\ mgmt' = "off"
    /\ ctx' = TRUE
    /\ UNCHANGED <<pipeVars, mainVars, serverVars, handler>>

-----------------------------------------------------------------------------
\* Plausible mistakes, for mutation checks.

ServerReturns_Unsent(err) == server' = "returned" /\ UNCHANGED errCh

ServeError_Swallowed == IF ctx THEN "canceled" ELSE "nil"

Shutdown_Waits ==
    /\ main = "shutdown" /\ known
    /\ main' = "closing"
    /\ UNCHANGED <<pipeVars, ctx, exit, serverVars, mgmt, handler>>

-----------------------------------------------------------------------------
\* The proxy's goroutine: ListenAndServe, and the send to errCh.
ServerReturns(err) ==
    /\ server' = "returned"
    /\ errCh' = err

Listen ==
    /\ server = "listen"
    /\ \/ /\ ln' = "open"
          /\ server' = "publish"
          /\ UNCHANGED errCh
       \/ /\ ServerReturns("failed")
          /\ UNCHANGED ln
    /\ UNCHANGED <<pipeVars, ctx, mainVars, known, watcher, mgmt, handler>>

\* Serve sets s.ln and starts the goroutine that waits for the context.
Publish ==
    /\ server = "publish"
    /\ server' = "accept"
    /\ known' = TRUE /\ watcher' = "waiting"
    /\ UNCHANGED <<pipeVars, ctx, mainVars, errCh, ln, mgmt, handler>>

\* What /readyz answers.
Ready == known

\* A client connects; its goroutine handles it.
Accept ==
    /\ server = "accept" /\ ln = "open"
    /\ handler = "none"
    /\ handler' = "handling"
    /\ UNCHANGED <<pipeVars, ctx, mainVars, serverVars, mgmt>>

\* What Serve returns when Accept fails with an error other than ErrClosed.
ServeError == IF ctx THEN "canceled" ELSE "failed"

AcceptFails ==
    /\ server = "accept" /\ ln = "open"
    /\ ServerReturns(ServeError)
    /\ UNCHANGED <<pipeVars, ctx, mainVars, ln, known, watcher, mgmt, handler>>

\* Accept on a closed listener: Serve returns ctx.Err().
AcceptClosed ==
    /\ server = "accept" /\ ln = "closed"
    /\ ServerReturns(IF ctx THEN "canceled" ELSE "nil")
    /\ UNCHANGED <<pipeVars, ctx, mainVars, ln, known, watcher, mgmt, handler>>

\* Serve's own goroutine: Shutdown, whose error it drops.
Watch ==
    /\ watcher = "waiting" /\ ctx
    /\ watcher' = "done"
    /\ ln' = "closed"
    /\ UNCHANGED <<pipeVars, ctx, mainVars, server, errCh, known, mgmt, handler>>

-----------------------------------------------------------------------------
\* The connection: handleConn fails early, answers a status, or pipes a login.
Handle ==
    /\ handler = "handling"
    /\ \/ handler' = "piping" /\ StartPipe
       \/ handler' = "ended" /\ UNCHANGED pipeVars
    /\ UNCHANGED <<ctx, mainVars, serverVars, mgmt>>

Session ==
    /\ handler = "piping"
    /\ PeerStep \/ \E d \in Directions : CopyStep(d)
    /\ UNCHANGED <<ctx, mainVars, serverVars, mgmt, handler>>

HandlerReturns ==
    /\ handler = "piping" /\ Returned
    /\ handler' = "ended"
    /\ UNCHANGED <<pipeVars, ctx, mainVars, serverVars, mgmt>>

-----------------------------------------------------------------------------
Exit(code) ==
    /\ main' = "exited"
    /\ exit' = code

\* What main makes of the error of the proxy.
Outcome(err) == IF err \in {"nil", "canceled"} THEN "ok" ELSE "error"

\* main's select takes any case that is ready.
SelectErr ==
    /\ main = "select" /\ errCh # "none"
    /\ Exit(Outcome(errCh))
    /\ UNCHANGED <<pipeVars, ctx, serverVars, mgmt, handler>>

SelectDone ==
    /\ main = "select" /\ ctx
    /\ main' = "shutdown"
    /\ UNCHANGED <<pipeVars, ctx, exit, serverVars, mgmt, handler>>

\* Shutdown reads s.ln; without a listener there is nothing to close.
Shutdown ==
    /\ main = "shutdown"
    /\ IF known THEN main' = "closing" /\ UNCHANGED exit ELSE Exit("ok")
    /\ UNCHANGED <<pipeVars, ctx, serverVars, mgmt, handler>>

\* Its goroutine closes the listener: an error if that has been done already.
CloseListener ==
    /\ main = "closing"
    /\ ln' = "closed"
    /\ Exit(IF ln = "closed" THEN "error" ELSE "ok")
    /\ UNCHANGED <<pipeVars, ctx, server, errCh, known, watcher, mgmt, handler>>

\* The shutdown timeout passes before it has.
ShutdownTimeout ==
    /\ main = "closing"
    /\ Exit("error")
    /\ UNCHANGED <<pipeVars, ctx, serverVars, mgmt, handler>>

-----------------------------------------------------------------------------
Mgmt == MgmtEnds \/ MgmtFails \/ MgmtStops
Server == Listen \/ Publish \/ Accept \/ AcceptFails \/ AcceptClosed
Connection == Handle \/ Session \/ HandlerReturns
MainStep == SelectErr \/ SelectDone \/ Shutdown \/ CloseListener \/ ShutdownTimeout

\* The process runs until main returns or calls os.Exit.
Next ==
    /\ exit = "none"
    /\ Signal \/ Mgmt \/ Server \/ Watch \/ Connection \/ MainStep

Spec == Init /\ [][Next]_vars

\* The goroutines go on: binding, closing and the management's failure path do
\* not wait for anybody, a read answers when there are bytes, an end or a closed
\* connection, and a write succeeds or fails by its deadline.  Nothing is assumed of
\* clients, of signals, of the deadline of a read, or of which errors happen.
Alive(A) == exit = "none" /\ A
Copying(d) == handler = "piping" /\ GoesOn(d)
                /\ UNCHANGED <<ctx, mainVars, serverVars, mgmt, handler>>

Fairness ==
    /\ WF_vars(Alive(MainStep))
    /\ WF_vars(Alive(Listen \/ Publish \/ AcceptClosed))
    /\ WF_vars(Alive(Watch))
    /\ WF_vars(Alive(MgmtStops))
    /\ \A d \in Directions : WF_vars(Alive(Copying(d)))
    /\ WF_vars(Alive(HandlerReturns))

FairSpec == Spec /\ Fairness

-----------------------------------------------------------------------------
TypeOK ==
    /\ ctx \in BOOLEAN
    /\ main \in {"select", "shutdown", "closing", "exited"}
    /\ exit \in {"none", "ok", "error"}
    /\ server \in {"listen", "publish", "accept", "returned"}
    /\ errCh \in {"none", "nil", "canceled", "failed"}
    /\ ln \in {"none", "open", "closed"}
    /\ known \in BOOLEAN
    /\ watcher \in {"none", "waiting", "done"}
    /\ mgmt \in {"on", "failed", "off"}
    /\ handler \in {"none", "handling", "piping", "ended"}
    /\ PipeTypeOK

\* Serve never returns nil and the process never ends quietly by itself: it
\* ends with 0 only after the context was cancelled, although main takes a nil
\* error, ErrClosed and Canceled alike for a good end; and a failure of the
\* proxy is never taken for one unless it was being stopped.
ExitHasCause ==
    /\ errCh # "nil"
    /\ exit = "ok" => ctx
    /\ exit = "error" => errCh = "failed" \/ (ctx /\ known)

\* Whoever asks /readyz and is told yes finds a listener that is accepted from,
\* or a process that has been told to stop or is about to notice that it must:
\* s.ln is set only after the bind, and never cleared.
ReadyMeansServing ==
    Ready => \/ ln = "open" /\ server = "accept"
             \/ ctx \/ errCh # "none"

\* A signal, the failure of the management server, or the end of the proxy that
\* cannot listen or accept any more, ends the process, whatever sessions are open
\* and wherever the start-up is.
StopsWhenTold == (ctx \/ mgmt = "failed" \/ server = "returned") ~> (exit # "none")

\* A session whose client or backend has ended its stream comes to its end,
\* both goroutines and both connections, unless the process ends first: the
\* goroutine that is not told notices by the connections the other has closed.
SessionEnds ==
    (handler = "piping" /\ \E e \in Ends : ended[e] # "no")
        ~> (exit # "none" \/ (handler = "ended" /\ \A e \in Ends : ~sock[e]))
=============================================================================
