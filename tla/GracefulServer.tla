---------------------------- MODULE GracefulServer ----------------------------
(***************************************************************************)
(* warmup's RunGracefulServer: the main goroutine, which waits for an      *)
(* interrupt and then shuts the server down within a deadline, and the     *)
(* goroutine that serves.  net/http is modelled from its use here: Serve   *)
(* accepts requests until Shutdown closes the listener or it fails by      *)
(* itself; Shutdown returns when no request is in progress or at the       *)
(* deadline.                                                               *)
(***************************************************************************)
EXTENDS Integers

CONSTANT
  Requests    \* the requests that clients may make

VARIABLES
  signalled,  \* ctx is done
  main,       \* where the main goroutine is
  serve,      \* where the goroutine that serves is
  errCh,      \* the channel holds the error of ListenAndServe
  made,       \* the requests that were accepted
  active,     \* those in progress
  result      \* what RunGracefulServer has returned

vars == <<signalled, main, serve, errCh, made, active, result>>

Init ==
  /\ signalled = FALSE
  /\ main = "waiting"
  /\ serve = "starting"
  /\ errCh = FALSE
  /\ made = {}
  /\ active = {}
  /\ result = "none"

Alive == main # "killed"

\* SIGINT, the one signal NotifyContext is asked to catch.
Interrupt ==
  /\ Alive
  /\ ~signalled
  /\ signalled' = TRUE
  /\ UNCHANGED <<main, serve, errCh, made, active, result>>

\* SIGTERM ends the process.
Terminate ==
  /\ main \in {"waiting", "draining"}
  /\ main' = "killed"
  /\ active' = {}
  /\ UNCHANGED <<signalled, serve, errCh, made, result>>

\* ListenAndServe listens, cannot, or finds that Shutdown has come first and
\* returns ErrServerClosed.
Listen ==
  /\ Alive
  /\ serve = "starting"
  /\ serve' \in {"failed", IF main = "waiting" THEN "serving" ELSE "ended"}
  /\ UNCHANGED <<signalled, main, errCh, made, active, result>>

Accept(r) ==
  /\ Alive
  /\ serve = "serving"
  /\ r \notin made
  /\ made' = made \cup {r}
  /\ active' = active \cup {r}
  /\ UNCHANGED <<signalled, main, serve, errCh, result>>

Finish(r) ==
  /\ Alive
  /\ r \in active
  /\ active' = active \ {r}
  /\ UNCHANGED <<signalled, main, serve, errCh, made, result>>

\* Accepting fails for good.
ServeFails ==
  /\ Alive
  /\ serve = "serving"
  /\ serve' = "failed"
  /\ UNCHANGED <<signalled, main, errCh, made, active, result>>

\* The error goes into the buffered channel, whether or not anyone reads it.
SendError ==
  /\ Alive
  /\ serve = "failed"
  /\ serve' = "ended"
  /\ errCh' = TRUE
  /\ UNCHANGED <<signalled, main, made, active, result>>

\* Fault: the listener stays open.
FaultStartShutdown ==
  /\ main = "waiting"
  /\ signalled
  /\ main' = "draining"
  /\ UNCHANGED <<signalled, serve, errCh, made, active, result>>

\* The wait is over: Shutdown closes the listener, and Serve returns
\* ErrServerClosed.
StartShutdown ==
  /\ main = "waiting"
  /\ signalled
  /\ main' = "draining"
  /\ serve' = IF serve = "serving" THEN "ended" ELSE serve
  /\ UNCHANGED <<signalled, errCh, made, active, result>>

\* Shutdown returns nil, and the channel is looked at once.
Drained ==
  /\ main = "draining"
  /\ active = {}
  /\ main' = "returned"
  /\ result' = IF errCh THEN "serve error" ELSE "nil"
  /\ errCh' = FALSE
  /\ UNCHANGED <<signalled, serve, made, active>>

\* Fault: Shutdown is given a context without a deadline.
FaultTimedOut ==
  /\ main = "draining"
  /\ active = {}
  /\ main' = "returned"
  /\ result' = "shutdown error"
  /\ UNCHANGED <<signalled, serve, errCh, made, active>>

\* The deadline passes first.
TimedOut ==
  /\ main = "draining"
  /\ main' = "returned"
  /\ result' = "shutdown error"
  /\ UNCHANGED <<signalled, serve, errCh, made, active>>

Next ==
  \/ Interrupt \/ Terminate
  \/ Listen \/ ServeFails \/ SendError
  \/ \E r \in Requests : Accept(r) \/ Finish(r)
  \/ StartShutdown \/ Drained \/ TimedOut

----------------------------------------------------------------------------

\* The main goroutine runs when it can, and the deadline comes.  Requests may
\* take for ever.
Fairness == WF_vars(StartShutdown) /\ WF_vars(TimedOut)

Spec == Init /\ [][Next]_vars /\ Fairness

\* Whoever is told nil has no request in progress and will get no more
\* ("stop accepting new requests, drain existing ones").
NilMeansDrained ==
  result = "nil" => active = {} /\ serve # "serving"

\* An interrupt ends the server within the deadline, whether it serves, has
\* failed, or hangs in a request.
SignalledReturns == signalled ~> (main \in {"returned", "killed"})

=============================================================================
