----------------------------- MODULE ApiProcess ------------------------------
(***************************************************************************)
(* cmd/vyomm-api/main.go: the life of the API process.  main starts the    *)
(* parts in order, waits for a signal, lets http.Server.Shutdown drain the *)
(* requests in flight, and runs its deferred calls, last deferred first.   *)
(* Beside it run the goroutine with the listener and the one that prunes.  *)
(* The process may be killed at any point and be started again.            *)
(*                                                                         *)
(* What a handler does is left to the module that extends this one, which  *)
(* changes the variable handlers.                                          *)
(***************************************************************************)
EXTENDS Naturals, FiniteSets

CONSTANT MaxLaunches        \* bound: starts of the process

ASSUME ProcessConstants == MaxLaunches \in Nat

VARIABLES
    main,                   \* where the main goroutine stands: "down", "loading",
                            \* "opening", "wiring", "serving", "draining",
                            \* "stopping", "closing", "exiting"
    listener,               \* the goroutine that serves HTTP: "off", "accepting",
                            \* "failed", "closed"
    pruner,                 \* the pruning goroutine: "off", "waiting", "pruning",
                            \* "stopped"
    done,                   \* the channel that stops the pruner is closed
    database,               \* this process's handle: "none", "open", "closed"
    signalled,              \* SIGINT or SIGTERM has come
    timedOut,               \* Shutdown gave up on requests in flight
    handlers,               \* map: request in flight -> where its handler stands
    launches

goroutines == <<listener, pruner, done>>
processVars == <<main, goroutines, database, signalled, timedOut, handlers, launches>>

NoHandlers == << >>

\* Nothing of a process is there any more.
Gone ==
    /\ main' = "down"
    /\ listener' = "off" /\ pruner' = "off" /\ done' = FALSE
    /\ database' = "none"
    /\ signalled' = FALSE /\ timedOut' = FALSE
    /\ handlers' = NoHandlers
    /\ UNCHANGED launches

ProcessInit ==
    /\ main = "down"
    /\ listener = "off" /\ pruner = "off" /\ done = FALSE
    /\ database = "none"
    /\ signalled = FALSE /\ timedOut = FALSE
    /\ handlers = NoHandlers
    /\ launches = 0

-----------------------------------------------------------------------------

Launch ==
    /\ main = "down"
    /\ launches < MaxLaunches
    /\ launches' = launches + 1
    /\ main' = "loading"
    /\ UNCHANGED <<goroutines, database, signalled, timedOut, handlers>>

\* config.Load and runbooks.Load.
LoadFiles ==
    /\ main = "loading"
    /\ main' = "opening"
    /\ UNCHANGED <<goroutines, database, signalled, timedOut, handlers, launches>>

\* persistence.NewStore: open, migrate, restore.
OpenStore ==
    /\ main = "opening"
    /\ main' = "wiring"
    /\ database' = "open"
    /\ UNCHANGED <<goroutines, signalled, timedOut, handlers, launches>>

\* One of the three reports an error: os.Exit(1).
StartFails == main \in {"loading", "opening"} /\ Gone

\* tracing.Init, whose failure is only logged, startRetentionPruning and
\* NotifyContext, then the goroutine that will listen.
StartGoroutines ==
    /\ main = "wiring"
    /\ main' = "serving"
    /\ pruner' = "waiting"
    /\ UNCHANGED <<listener, done, database, signalled, timedOut, handlers, launches>>

\* ListenAndServe binds the address; after Shutdown it no longer does.
Listen ==
    /\ main = "serving" /\ listener = "off"
    /\ listener' = "accepting"
    /\ UNCHANGED <<main, pruner, done, database, signalled, timedOut, handlers, launches>>

\* ListenAndServe returns an error, to start with (the address is taken) or
\* later: it is logged and the process goes on without a listener.
ListenerFails ==
    /\ main = "serving" /\ listener \in {"off", "accepting"}
    /\ listener' = "failed"
    /\ UNCHANGED <<main, pruner, done, database, signalled, timedOut, handlers, launches>>

\* SIGINT or SIGTERM once NotifyContext is in place.  Further ones are swallowed.
Signal ==
    /\ main = "serving" /\ ~signalled
    /\ signalled' = TRUE
    /\ UNCHANGED <<main, goroutines, database, timedOut, handlers, launches>>

\* Mutant of BeginShutdown: only a process that serves is shut down.
BeginShutdownIfListening ==
    /\ main = "serving" /\ signalled /\ listener = "accepting"
    /\ main' = "draining"
    /\ listener' = "closed"
    /\ UNCHANGED <<pruner, done, database, signalled, timedOut, handlers, launches>>

\* ctx.Done is closed; Shutdown closes the listener first.
BeginShutdown ==
    /\ main = "serving" /\ signalled
    /\ main' = "draining"
    /\ listener' = "closed"
    /\ UNCHANGED <<pruner, done, database, signalled, timedOut, handlers, launches>>

\* Mutant of Drained: Shutdown is not waited for.
NotDrained ==
    /\ main = "draining"
    /\ main' = "stopping"
    /\ UNCHANGED <<goroutines, database, signalled, timedOut, handlers, launches>>

\* Shutdown finds no connection open with a request in it, and returns.
Drained ==
    /\ main = "draining" /\ handlers = NoHandlers
    /\ main' = "stopping"
    /\ UNCHANGED <<goroutines, database, signalled, timedOut, handlers, launches>>

\* Ten seconds are over: Shutdown returns an error, which is logged, and leaves
\* the handlers running.
DrainTimesOut ==
    /\ main = "draining" /\ handlers # NoHandlers
    /\ main' = "stopping"
    /\ timedOut' = TRUE
    /\ UNCHANGED <<goroutines, database, signalled, handlers, launches>>

\* The deferred stopPruning closes the channel and waits for nobody; tracing is
\* shut down after it.
StopPruning ==
    /\ main = "stopping"
    /\ main' = "closing"
    /\ done' = TRUE
    /\ UNCHANGED <<listener, pruner, database, signalled, timedOut, handlers, launches>>

\* The deferred store.Close, which was deferred first.
CloseStore ==
    /\ main = "closing"
    /\ main' = "exiting"
    /\ database' = "closed"
    /\ UNCHANGED <<goroutines, signalled, timedOut, handlers, launches>>

\* main returns, and every other goroutine with it.
Exit == main = "exiting" /\ Gone

\* SIGKILL, a panic, a power failure, or a signal before NotifyContext.
Crash == main # "down" /\ Gone

\* The ticker fires; select may choose it although done is closed too.
PruneBegins ==
    /\ pruner = "waiting"
    /\ pruner' = "pruning"
    /\ UNCHANGED <<main, listener, done, database, signalled, timedOut, handlers, launches>>

\* Store.Prune returns, with an error if the database was closed before it began;
\* the error is logged.
PruneEnds ==
    /\ pruner = "pruning"
    /\ pruner' = "waiting"
    /\ UNCHANGED <<main, listener, done, database, signalled, timedOut, handlers, launches>>

PrunerStops ==
    /\ pruner = "waiting" /\ done
    /\ pruner' = "stopped"
    /\ UNCHANGED <<main, listener, done, database, signalled, timedOut, handlers, launches>>

\* The steps of the main goroutine that nothing but itself holds up.
MainStep ==
    \/ LoadFiles \/ OpenStore \/ StartFails \/ StartGoroutines
    \/ BeginShutdown \/ Drained \/ DrainTimesOut
    \/ StopPruning \/ CloseStore \/ Exit

PrunerStep == PruneBegins \/ PruneEnds \/ PrunerStops

ProcessNext ==
    \/ Launch \/ MainStep \/ Listen \/ ListenerFails \/ Signal \/ Crash \/ PrunerStep

-----------------------------------------------------------------------------

\* A stop that is not cut short by the ten seconds of Shutdown cuts nothing off:
\* once Shutdown has returned no connection is open and no handler at work, so that
\* whatever was accepted has had the database until it was done.  And the database
\* is closed only after the listener and after the pruner was told to stop.  The
\* pruner is not waited for: it may be in Prune, or begin another, when the
\* database is closed, and then logs the error.
StopCutsNothingOff ==
    /\ main \in {"stopping", "closing", "exiting"} /\ ~timedOut => handlers = NoHandlers
    /\ database = "closed" => listener = "closed" /\ done

\* A process that is told to stop does stop: neither a listener that failed nor a
\* request that never ends nor the pruner can hold it up.
SignalEndsProcess == signalled ~> main = "down"

=============================================================================
