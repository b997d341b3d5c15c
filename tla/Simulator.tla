------------------------------ MODULE Simulator ------------------------------
(***************************************************************************)
(* cmd/vyomm-simulator against the API process: each simulator posts one   *)
(* batch and repeats it up to three times, over a network and to a server  *)
(* that may fail at any point.  A connection breaks with or without the    *)
(* knowledge of the handler, which runs to its end in any case, since      *)
(* Ingest does not look at the request's context.                          *)
(*                                                                         *)
(* A connection that was accepted goes on when the listener is closed, and *)
(* a transaction that was begun when the database is: its handler stands   *)
(* at "accepted", "received", "writing", and at last "ok" or "error".      *)
(***************************************************************************)
EXTENDS ApiProcess, Storage

CONSTANTS
    Clients,                \* simulators
    Attempts                \* 0 .. 2: the attempts of post

ASSUME SimulatorConstants == Attempts # {} /\ Attempts \subseteq Nat

VARIABLES
    client,                 \* client -> where its post stands, and in which attempt
    stored,                 \* client -> attempts whose batch is in the database
    unheard                 \* client -> attempts that ended without a response

clientVars == <<client, stored, unheard>>
vars == <<processVars, clientVars>>

Init ==
    /\ ProcessInit
    /\ client = [c \in Clients |-> [pc |-> "ready", attempt |-> 0]]
    /\ stored = [c \in Clients |-> {}]
    /\ unheard = [c \in Clients |-> {}]

\* The request of the attempt that client c is at.
Request(c) == <<c, client[c].attempt>>

\* post is inside client.Post.
Posting(c) == client[c].pc \in {"connecting", "waiting"}

InFlight(c) == Request(c) \in DOMAIN handlers

-----------------------------------------------------------------------------

\* client.Post, for the first time or again.
Post(c) ==
    /\ client[c].pc = "ready"
    /\ client' = [client EXCEPT ![c].pc = "connecting"]
    /\ UNCHANGED <<processVars, stored, unheard>>

\* What every step of a connection or its handler leaves alone.
rest == <<main, goroutines, database, signalled, timedOut, launches>>

\* The listener accepts the connection.
Accept(c) ==
    /\ client[c].pc = "connecting" /\ listener = "accepting"
    /\ client' = [client EXCEPT ![c].pc = "waiting"]
    /\ handlers' = Put(handlers, Request(c), "accepted")
    /\ UNCHANGED <<rest, stored, unheard>>

\* A handler goes from one stage to the next.
Stage(req, from, to) ==
    /\ handlers[req] \in from
    /\ handlers' = [handlers EXCEPT ![req] = to]

\* The batch arrives whole, be it while Shutdown is waiting.
Receive(req) ==
    /\ Stage(req, {"accepted"}, "received")
    /\ UNCHANGED <<rest, clientVars>>

\* Ingest has the database's connection and begins its transaction.
Begin(req) ==
    /\ Stage(req, {"received"}, "writing") /\ database = "open"
    /\ UNCHANGED <<rest, clientVars>>

\* Ingest commits the batch, though the database be closed in the meantime: a
\* connection in use outlives Close.  What is left of the handler does not fail.
Commit(req) ==
    /\ Stage(req, {"writing"}, "ok")
    /\ stored' = [stored EXCEPT ![req[1]] = @ \cup {req[2]}]
    /\ UNCHANGED <<rest, client, unheard>>

\* Mutant of IngestFails: the error is dropped.
IngestFailsUnnoticed(req) ==
    /\ Stage(req, {"received", "writing"}, "ok")
    /\ UNCHANGED <<rest, clientVars>>

\* Begin fails, for one because the database is closed, or a statement or Commit
\* does, and nothing is stored: the answer will be 500.
IngestFails(req) ==
    /\ Stage(req, {"received", "writing"}, "error")
    /\ UNCHANGED <<rest, clientVars>>

\* The connection has no handler any more.
Return(req) ==
    handlers' = [r \in DOMAIN handlers \ {req} |-> handlers[r]]

\* The connection is closed before a request came: the client is gone, the header
\* took more than five seconds, or Shutdown found it silent for as long.
Drop(req) ==
    /\ handlers[req] = "accepted"
    /\ Return(req)
    /\ UNCHANGED <<rest, clientVars>>

\* The handler returns with nobody to hear it.
ReturnUnheard(req) ==
    /\ handlers[req] \in {"ok", "error"}
    /\ req # Request(req[1]) \/ client[req[1]].pc # "waiting"
    /\ Return(req)
    /\ UNCHANGED <<rest, clientVars>>

Last(c) == \A a \in Attempts : a <= client[c].attempt

\* Mutant of NextAttempt: the counter is not incremented.
SameAttempt(c) == [pc |-> "ready", attempt |-> client[c].attempt]

\* The end of one turn of post's loop: the next attempt, or the error of the last.
NextAttempt(c) ==
    IF Last(c) THEN [pc |-> "failed", attempt |-> client[c].attempt]
    ELSE [pc |-> "ready", attempt |-> client[c].attempt + 1]

\* Mutant of Outcome: success is not recognised.
OutcomeAlwaysRetry(c, answer) == NextAttempt(c)

\* What post makes of an answer: a status from 200 to 299 is success.
Outcome(c, answer) ==
    IF answer = "ok" THEN [client[c] EXCEPT !.pc = "done"] ELSE NextAttempt(c)

\* The answer arrives.
Answer(c) ==
    /\ client[c].pc = "waiting" /\ InFlight(c)
    /\ handlers[Request(c)] \in {"ok", "error"}
    /\ client' = [client EXCEPT ![c] = Outcome(c, handlers[Request(c)])]
    /\ Return(Request(c))
    /\ UNCHANGED <<rest, stored, unheard>>

\* client.Post returns an error: the connection is refused, or breaks before or
\* after a handler has the request, or died with the process.
Break(c) ==
    /\ Posting(c)
    /\ unheard' = [unheard EXCEPT ![c] = @ \cup {client[c].attempt}]
    /\ client' = [client EXCEPT ![c] = NextAttempt(c)]
    /\ UNCHANGED <<processVars, stored>>

\* There is nobody at the other end of c's connection.
Lost(c) ==
    \/ client[c].pc = "connecting" /\ listener # "accepting"
    \/ client[c].pc = "waiting" /\ ~InFlight(c)

ClientStep(c) == Post(c) \/ Accept(c) \/ Answer(c) \/ Break(c)

HandlerStep(req) ==
    \/ Receive(req) \/ Drop(req)
    \/ Begin(req) \/ Commit(req) \/ IngestFails(req) \/ ReturnUnheard(req)

Next ==
    \/ ProcessNext /\ UNCHANGED clientVars
    \/ \E c \in Clients : ClientStep(c)
    \/ \E req \in DOMAIN handlers : HandlerStep(req)

\* A goroutine that can run is run, a database call returns, and a connection
\* breaks when its other end is gone.  Nobody has to signal or launch the process,
\* and no other connection has to break: http.DefaultClient has no timeout.
Fairness ==
    /\ WF_vars(MainStep /\ UNCHANGED clientVars)
    /\ \A c \in Clients : WF_vars(Post(c)) /\ WF_vars(Accept(c)) /\ WF_vars(Answer(c))
    /\ \A c \in Clients : WF_vars(Lost(c) /\ Break(c))
    /\ \A req \in Clients \X Attempts :
           WF_vars(req \in DOMAIN handlers /\ HandlerStep(req))

Spec == Init /\ [][Next]_vars /\ Fairness

-----------------------------------------------------------------------------

\* post reports success only for a batch that is in the database, where it stays,
\* short of pruning, when the process is shut down, times out draining or dies.
AcknowledgedIsStored ==
    \A c \in Clients : client[c].pc = "done" => client[c].attempt \in stored[c]

\* Ingest is not idempotent, so a repeated batch may be stored again; but only an
\* attempt whose answer never came can leave a copy behind, besides the attempt at
\* work or the one that succeeded.  An attempt that was answered with an error has
\* stored nothing.
RepeatsOnlyUnheard ==
    \A c \in Clients :
        stored[c] \subseteq
            unheard[c] \cup (IF client[c].pc \in {"waiting", "done"}
                             THEN {client[c].attempt} ELSE {})

\* Every post comes to an end, though http.DefaultClient has no timeout and the
\* server may be down, draining or without a listener.
PostEnds ==
    \A c \in Clients : Posting(c) ~> client[c].pc \in {"done", "failed"}

=============================================================================
