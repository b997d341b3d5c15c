--------------------------- MODULE DeliveryProofs ----------------------------
(***************************************************************************)
(* Proofs about ApiProcess and Simulator, for any number of simulators,    *)
(* attempts and launches.                                                  *)
(***************************************************************************)
EXTENDS Simulator, TLAPS

\* How far main has come determines what is left of the process: the listener is
\* closed before Shutdown waits, and the database after everything else.
ProcessInv ==
    /\ database = "closed" => main = "exiting"
    /\ main \in {"draining", "stopping", "closing", "exiting"} => listener = "closed"
    /\ main \in {"stopping", "closing", "exiting"} => (handlers # NoHandlers => timedOut)
    /\ main \in {"closing", "exiting"} => done

ClientTypeOK ==
    /\ client \in [Clients -> [pc : {"ready", "connecting", "waiting", "done", "failed"},
                               attempt : Nat]]
    /\ stored \in [Clients -> SUBSET Nat]
    /\ unheard \in [Clients -> SUBSET Nat]
    /\ DOMAIN handlers \subseteq Clients \X Nat

\* A handler either belongs to the attempt its client waits for, or to one that
\* the client has given up; and it knows whether the batch is in the database.
HandlerInv ==
    \A req \in DOMAIN handlers :
        /\ \/ req[2] \in unheard[req[1]]
           \/ client[req[1]].pc = "waiting" /\ req[2] = client[req[1]].attempt
        /\ handlers[req] = "ok" => req[2] \in stored[req[1]]
        /\ handlers[req] # "ok" => req[2] \notin stored[req[1]]

\* An attempt that has been given up is over: the client is at a later one.
GivenUp ==
    \A c \in Clients : \A a \in unheard[c] :
        /\ a <= client[c].attempt
        /\ client[c].pc # "failed" => a # client[c].attempt

DeliveryInv ==
    /\ ProcessInv
    /\ ClientTypeOK
    /\ HandlerInv
    /\ GivenUp
    /\ RepeatsOnlyUnheard
    /\ AcknowledgedIsStored

-----------------------------------------------------------------------------

\* The initial state satisfies the invariant: no process, nothing posted.
LEMMA InitDelivery == Init => DeliveryInv
BY DEF Init, ProcessInit, DeliveryInv, ProcessInv, ClientTypeOK, HandlerInv, GivenUp,
       RepeatsOnlyUnheard, AcknowledgedIsStored, NoHandlers

\* The steps of main, the listener and the pruner keep the order of start and
\* shutdown, and they change no handler but by ending the process.
LEMMA ProcessStepInv ==
    ASSUME ProcessInv, ProcessNext
    PROVE  /\ ProcessInv'
           /\ handlers' = handlers \/ handlers' = NoHandlers
<1>1. CASE Gone
  BY <1>1 DEF Gone, ProcessInv
<1>2. CASE Launch \/ LoadFiles \/ OpenStore \/ StartGoroutines \/ Listen
           \/ ListenerFails \/ Signal
  BY <1>2 DEF ProcessInv, Launch, LoadFiles, OpenStore, StartGoroutines, Listen,
              ListenerFails, Signal, goroutines
<1>3. CASE BeginShutdown \/ Drained \/ DrainTimesOut \/ StopPruning \/ CloseStore
  BY <1>3 DEF ProcessInv, BeginShutdown, Drained, DrainTimesOut, StopPruning,
              CloseStore, goroutines
<1>4. CASE PrunerStep
  BY <1>4 DEF ProcessInv, PrunerStep, PruneBegins, PruneEnds, PrunerStops
<1> QED
  BY <1>1, <1>2, <1>3, <1>4 DEF ProcessNext, MainStep, StartFails, Exit, Crash

\* What the end of the process, or a step of main, leaves of the clients' part.
LEMMA ProcessKeepsDelivery ==
    ASSUME DeliveryInv, ProcessNext, UNCHANGED clientVars
    PROVE  DeliveryInv'
<1>1. ProcessInv' /\ (handlers' = handlers \/ handlers' = NoHandlers)
  BY ProcessStepInv DEF DeliveryInv
<1>2. CASE handlers' = handlers
  BY <1>1, <1>2 DEF DeliveryInv, clientVars, ClientTypeOK, HandlerInv, GivenUp,
                    RepeatsOnlyUnheard, AcknowledgedIsStored
<1>3. CASE handlers' = NoHandlers
  BY <1>1, <1>3 DEF DeliveryInv, clientVars, ClientTypeOK, HandlerInv, GivenUp,
                    RepeatsOnlyUnheard, AcknowledgedIsStored, NoHandlers
<1> QED
  BY <1>1, <1>2, <1>3

\* Steps of clients and handlers leave main where it is; a request gets in only
\* through a listener that accepts.
LEMMA ClientKeepsProcess ==
    ASSUME ProcessInv,
           UNCHANGED <<main, listener, pruner, done, database, timedOut>>,
           listener = "accepting" \/ (handlers = NoHandlers => handlers' = NoHandlers)
    PROVE  ProcessInv'
BY DEF ProcessInv

\* A step of a client preserves the invariant.
LEMMA ClientStepInv ==
    ASSUME DeliveryInv, NEW c \in Clients, ClientStep(c)
    PROVE  DeliveryInv'
<1> USE DEF DeliveryInv
<1>0. /\ client[c] \in [pc : {"ready", "connecting", "waiting", "done", "failed"},
                        attempt : Nat]
      /\ Request(c)[1] = c /\ Request(c)[2] = client[c].attempt
  BY DEF ClientTypeOK, Request
<1>1. CASE Post(c)
  <2>1. ProcessInv'
    BY <1>1 DEF Post, ProcessInv, processVars, goroutines
  <2>2. ClientTypeOK'
    BY <1>1 DEF Post, ClientTypeOK, processVars
  <2>3. HandlerInv' /\ GivenUp' /\ RepeatsOnlyUnheard' /\ AcknowledgedIsStored'
    BY <1>1, <1>0 DEF Post, processVars, ClientTypeOK, HandlerInv, GivenUp,
                 RepeatsOnlyUnheard, AcknowledgedIsStored
  <2> QED
    BY <2>1, <2>2, <2>3
<1>2. CASE Accept(c)
  <2>1. ProcessInv'
    BY <1>2, ClientKeepsProcess DEF Accept, rest, goroutines, ProcessInv
  <2>2. ClientTypeOK'
    BY <1>2, <1>0 DEF Accept, rest, ClientTypeOK, Put, Request
  <2>3. client[c].attempt \notin unheard[c] /\ client[c].attempt \notin stored[c]
    BY <1>2, <1>0 DEF Accept, rest, GivenUp, RepeatsOnlyUnheard
  <2>4. HandlerInv'
    BY <1>2, <1>0, <2>3 DEF Accept, rest, ClientTypeOK, HandlerInv, Put
  <2>5. GivenUp' /\ RepeatsOnlyUnheard' /\ AcknowledgedIsStored'
    BY <1>2, <1>0 DEF Accept, rest, ClientTypeOK, GivenUp, RepeatsOnlyUnheard,
                      AcknowledgedIsStored
  <2> QED
    BY <2>1, <2>2, <2>4, <2>5
<1>3. ASSUME NextAttempt(c) = client'[c]
      PROVE  /\ client'[c].pc \in {"ready", "failed"}
             /\ client'[c].attempt \in Nat
             /\ client'[c].pc = "failed" => client'[c].attempt = client[c].attempt
             /\ client'[c].pc = "ready" => client'[c].attempt = client[c].attempt + 1
             /\ client'[c] \in [pc : {"ready", "failed"}, attempt : Nat]
  BY <1>0, <1>3 DEF NextAttempt
<1>4. CASE Answer(c)
  <2>1. /\ Request(c) \in DOMAIN handlers
        /\ DOMAIN handlers' = DOMAIN handlers \ {Request(c)}
        /\ \A r \in DOMAIN handlers' : handlers'[r] = handlers[r]
    BY <1>4 DEF Answer, rest, Return, InFlight
  <2>2. /\ stored' = stored /\ unheard' = unheard
        /\ \A d \in Clients : d # c => client'[d] = client[d]
        /\ client'[c] = Outcome(c, handlers[Request(c)])
        /\ client' = [client EXCEPT ![c] = client'[c]]
    BY <1>4 DEF Answer, rest, ClientTypeOK
  <2>3. ProcessInv'
    BY <1>4, <2>1, ClientKeepsProcess DEF Answer, rest, goroutines, NoHandlers
  <2>4. HandlerInv'
    <3> SUFFICES ASSUME NEW req \in DOMAIN handlers'
                 PROVE  /\ \/ req[2] \in unheard'[req[1]]
                           \/ client'[req[1]].pc = "waiting"
                              /\ req[2] = client'[req[1]].attempt
                        /\ handlers'[req] = "ok" => req[2] \in stored'[req[1]]
                        /\ handlers'[req] # "ok" => req[2] \notin stored'[req[1]]
      BY DEF HandlerInv
    <3>1. req \in DOMAIN handlers /\ req # Request(c) /\ req \in Clients \X Nat
      BY <2>1 DEF ClientTypeOK
    <3>2. req[1] = c => req[2] # client[c].attempt
      BY <3>1 DEF Request
    <3> QED
      BY <2>1, <2>2, <3>1, <3>2 DEF HandlerInv
  <2>5. CASE handlers[Request(c)] = "ok"
    <3>1. client'[c] = [client[c] EXCEPT !.pc = "done"]
      BY <2>2, <2>5 DEF Outcome
    <3>2. client'[c].pc = "done" /\ client'[c].attempt = client[c].attempt
          /\ client'[c] \in [pc : {"done"}, attempt : Nat]
      BY <1>0, <3>1
    <3>3. client[c].attempt \in stored[c]
      BY <1>0, <2>1, <2>5 DEF HandlerInv
    <3>4. ClientTypeOK'
      BY <2>1, <2>2, <3>2 DEF ClientTypeOK
    <3>5. client[c].pc = "waiting"
      BY <1>4 DEF Answer, rest
    <3>6. GivenUp' /\ RepeatsOnlyUnheard' /\ AcknowledgedIsStored'
      BY <2>2, <3>2, <3>3, <3>5 DEF GivenUp, RepeatsOnlyUnheard, AcknowledgedIsStored
    <3> QED
      BY <2>3, <2>4, <3>4, <3>6
  <2>6. CASE handlers[Request(c)] = "error"
    <3>1. client'[c] = NextAttempt(c)
      BY <2>2, <2>6 DEF Outcome
    <3>2. client[c].attempt \notin stored[c]
      BY <1>0, <2>1, <2>6 DEF HandlerInv
    <3>3. ClientTypeOK'
      BY <1>3, <2>1, <2>2, <3>1 DEF ClientTypeOK
    <3>4. client[c].pc = "waiting"
      BY <1>4 DEF Answer, rest
    <3>5. RepeatsOnlyUnheard' /\ AcknowledgedIsStored'
      BY <1>3, <2>2, <3>1, <3>2, <3>4 DEF RepeatsOnlyUnheard, AcknowledgedIsStored
    <3>6. GivenUp'
      BY <1>0, <1>3, <2>2, <3>1, <3>4 DEF GivenUp, ClientTypeOK
    <3> QED
      BY <2>3, <2>4, <3>3, <3>5, <3>6
  <2> QED
    BY <1>4, <2>5, <2>6 DEF Answer, rest
<1>5. CASE Break(c)
  <2>1. /\ stored' = stored /\ handlers' = handlers
        /\ \A d \in Clients : d # c => client'[d] = client[d] /\ unheard'[d] = unheard[d]
        /\ client'[c] = NextAttempt(c)
        /\ unheard'[c] = unheard[c] \cup {client[c].attempt}
        /\ client' = [client EXCEPT ![c] = client'[c]]
        /\ unheard' = [unheard EXCEPT ![c] = unheard'[c]]
        /\ client[c].pc \in {"connecting", "waiting"}
    BY <1>5 DEF Break, ClientTypeOK, processVars, Posting
  <2>2. ProcessInv'
    BY <1>5 DEF Break, ProcessInv, processVars, goroutines
  <2>3. ClientTypeOK'
    BY <1>0, <1>3, <2>1 DEF ClientTypeOK
  <2>4. HandlerInv'
    BY <2>1 DEF HandlerInv, ClientTypeOK
  <2>5. GivenUp'
    BY <1>0, <1>3, <2>1 DEF GivenUp, ClientTypeOK
  <2>6. RepeatsOnlyUnheard' /\ AcknowledgedIsStored'
    BY <1>0, <1>3, <2>1 DEF RepeatsOnlyUnheard, AcknowledgedIsStored
  <2> QED
    BY <2>2, <2>3, <2>4, <2>5, <2>6
<1> QED
  BY <1>1, <1>2, <1>4, <1>5 DEF ClientStep

\* A step of a handler preserves the invariant.
LEMMA HandlerStepInv ==
    ASSUME DeliveryInv, NEW req \in DOMAIN handlers, HandlerStep(req)
    PROVE  DeliveryInv'
<1> USE DEF DeliveryInv
<1>0. req \in Clients \X Nat /\ req[1] \in Clients /\ req[2] \in Nat
      /\ handlers # NoHandlers
  BY DEF ClientTypeOK, NoHandlers
<1>1. CASE Commit(req)
  <2>1. /\ client' = client /\ unheard' = unheard
        /\ \A d \in Clients : d # req[1] => stored'[d] = stored[d]
        /\ stored'[req[1]] = stored[req[1]] \cup {req[2]}
        /\ DOMAIN handlers' = DOMAIN handlers
        /\ handlers'[req] = "ok"
        /\ \A r \in DOMAIN handlers : r # req => handlers'[r] = handlers[r]
    BY <1>0, <1>1 DEF Commit, Stage, rest, ClientTypeOK
  <2>2. ProcessInv'
    BY <1>0, <1>1, ClientKeepsProcess DEF Commit, Stage, rest, goroutines
  <2>3. ClientTypeOK'
    BY <1>0, <1>1 DEF Commit, Stage, rest, ClientTypeOK
  <2>4. HandlerInv'
    <3>1. \A r \in DOMAIN handlers : r # req /\ r[1] = req[1] => r[2] # req[2]
      BY DEF ClientTypeOK
    <3>2. \A r \in DOMAIN handlers : r[1] \in Clients
      BY DEF ClientTypeOK
    <3> QED
      BY <1>0, <2>1, <3>1, <3>2 DEF HandlerInv
  <2>5. GivenUp' /\ AcknowledgedIsStored'
    BY <2>1, <1>0 DEF GivenUp, AcknowledgedIsStored
  <2>6. RepeatsOnlyUnheard'
    BY <1>0, <2>1 DEF RepeatsOnlyUnheard, HandlerInv
  <2> QED
    BY <2>2, <2>3, <2>4, <2>5, <2>6
<1>2. CASE Receive(req) \/ Begin(req) \/ IngestFails(req)
  <2>1. /\ UNCHANGED <<main, listener, pruner, done, database, timedOut, clientVars>>
        /\ DOMAIN handlers' = DOMAIN handlers
        /\ handlers[req] # "ok" /\ handlers'[req] # "ok"
        /\ \A r \in DOMAIN handlers : r # req => handlers'[r] = handlers[r]
    BY <1>2 DEF Receive, Begin, IngestFails, Stage, rest, goroutines
  <2>2. ProcessInv'
    BY <1>0, <2>1, ClientKeepsProcess
  <2> QED
    BY <2>1, <2>2 DEF clientVars, ClientTypeOK, HandlerInv, GivenUp,
                      RepeatsOnlyUnheard, AcknowledgedIsStored
<1>3. CASE Drop(req) \/ ReturnUnheard(req)
  <2>1. /\ UNCHANGED <<main, listener, pruner, done, database, timedOut, clientVars>>
        /\ handlers' = [r \in DOMAIN handlers \ {req} |-> handlers[r]]
    BY <1>3 DEF Drop, ReturnUnheard, Return, rest, goroutines
  <2>2. ProcessInv'
    BY <1>0, <2>1, ClientKeepsProcess
  <2> QED
    BY <2>1, <2>2 DEF clientVars, ClientTypeOK, HandlerInv, GivenUp,
                      RepeatsOnlyUnheard, AcknowledgedIsStored
<1> QED
  BY <1>1, <1>2, <1>3 DEF HandlerStep

\* The invariant holds in every reachable state of the process and its clients.
THEOREM DeliveryInvariant == Spec => []DeliveryInv
<1>1. Init => DeliveryInv
  BY InitDelivery
<1>2. DeliveryInv /\ [Next]_vars => DeliveryInv'
  <2>1. ASSUME DeliveryInv, UNCHANGED vars PROVE DeliveryInv'
    BY <2>1 DEF vars, processVars, goroutines, clientVars, DeliveryInv, ProcessInv,
                ClientTypeOK, HandlerInv, GivenUp, RepeatsOnlyUnheard,
                AcknowledgedIsStored
  <2> QED
    BY <2>1, ProcessKeepsDelivery, ClientStepInv, HandlerStepInv DEF Next
<1> QED
  BY <1>1, <1>2, PTL DEF Spec

\* A stop that does not run into the ten seconds leaves no connection and no handler
\* behind, and the database is closed after the listener, wherever the process
\* fails, is signalled or times out.
THEOREM DeliveryStopCutsNothingOff == Spec => []StopCutsNothingOff
<1>1. DeliveryInv => StopCutsNothingOff
  BY DEF DeliveryInv, ProcessInv, StopCutsNothingOff
<1> QED
  BY <1>1, DeliveryInvariant, PTL

\* A post that reports success has its batch in the database, for every number of
\* simulators, attempts and starts of the process.
THEOREM DeliveryAcknowledgedIsStored == Spec => []AcknowledgedIsStored
<1>1. DeliveryInv => AcknowledgedIsStored
  BY DEF DeliveryInv
<1> QED
  BY <1>1, DeliveryInvariant, PTL

\* Only attempts whose answer never came leave copies of a batch behind.
THEOREM DeliveryRepeatsOnlyUnheard == Spec => []RepeatsOnlyUnheard
<1>1. DeliveryInv => RepeatsOnlyUnheard
  BY DEF DeliveryInv
<1> QED
  BY <1>1, DeliveryInvariant, PTL

=============================================================================
