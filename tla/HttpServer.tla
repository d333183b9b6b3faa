------------------------------- MODULE HttpServer -------------------------------
(***************************************************************************)
(* The HTTP server and the polling worker of one process (run_api.py).     *)
(*                                                                         *)
(* One thread accepts; each connection it takes costs a request slot and   *)
(* gets a thread of its own, which gives the slot back.  A connection that *)
(* finds no slot is answered 503 by the accepting thread.  Beside them one *)
(* worker thread polls the queue.  An interrupt closes the listener, asks  *)
(* the worker to stop, waits for it a while, and closes the store.         *)
(***************************************************************************)
EXTENDS Naturals, FiniteSets

CONSTANTS Connection,   \* bound: the connections ever made
          MaxRequests,  \* max_concurrent_requests
          NoConnection

ASSUME HttpAssumption ==
  /\ IsFiniteSet(Connection) /\ NoConnection \notin Connection
  /\ MaxRequests \in Nat \ {0}

VARIABLES
  slots,     \* the value of the semaphore
  conn,      \* where each connection is
  acceptor,  \* the connection the accepting thread has in hand
  phase,     \* of the process: serving, stopping, closed
  loop,      \* where the worker is in its loop
  stop       \* the worker's stop event

httpVars == <<slots, conn, acceptor, phase, loop, stop>>

HttpInit ==
  /\ slots = MaxRequests
  /\ conn = [c \in Connection |-> "none"]
  /\ acceptor = NoConnection
  /\ phase = "serving"
  /\ loop = "check"
  /\ stop = FALSE

At(c, s) == conn[c] = s
Move(c, s) == conn' = [conn EXCEPT ![c] = s]

-------------------------------------------------------------------------------
(* The accepting thread *)

\* A client connects and waits in the backlog of the listener.
Connect(c) ==
  /\ phase = "serving" /\ At(c, "none")
  /\ Move(c, "waiting")
  /\ UNCHANGED <<slots, acceptor, phase, loop, stop>>

\* process_request: a slot, or the 503.
Accept(c) ==
  /\ phase = "serving" /\ acceptor = NoConnection /\ At(c, "waiting")
  /\ acceptor' = c
  /\ IF slots > 0
     THEN Move(c, "starting") /\ slots' = slots - 1
     ELSE Move(c, "refusing") /\ UNCHANGED slots
  /\ UNCHANGED <<phase, loop, stop>>

\* Faulty: the 503 is sent without a time limit, and the client may not read it.
RefuseUnlimited(c) ==
  /\ acceptor = c /\ At(c, "refusing")
  /\ \/ Move(c, "closed") /\ acceptor' = NoConnection
     \/ Move(c, "stalled") /\ UNCHANGED acceptor
  /\ UNCHANGED <<slots, phase, loop, stop>>

\* The 503 is sent, or cannot be; the connection is shut either way.
Refuse(c) ==
  /\ acceptor = c /\ At(c, "refusing")
  /\ Move(c, "closed")
  /\ acceptor' = NoConnection
  /\ UNCHANGED <<slots, phase, loop, stop>>

StartThread(c) ==
  /\ acceptor = c /\ At(c, "starting")
  /\ Move(c, "reading")
  /\ acceptor' = NoConnection
  /\ UNCHANGED <<slots, phase, loop, stop>>

\* Faulty: the slot of a thread that did not start is not given back.
StartFailsKeepingSlot(c) ==
  /\ acceptor = c /\ At(c, "starting")
  /\ Move(c, "closed")
  /\ acceptor' = NoConnection
  /\ UNCHANGED <<slots, phase, loop, stop>>

\* No thread can be started: the slot goes back, the server shuts the connection.
StartFails(c) ==
  /\ acceptor = c /\ At(c, "starting")
  /\ Move(c, "closed")
  /\ slots' = slots + 1
  /\ acceptor' = NoConnection
  /\ UNCHANGED <<phase, loop, stop>>

-------------------------------------------------------------------------------
(* A request thread; it dies with the process *)

Alive == phase # "exited"

\* _dispatch has a body of the length announced.
ReadRequest(c) ==
  /\ Alive /\ At(c, "reading")
  /\ Move(c, "handling")
  /\ UNCHANGED <<slots, acceptor, phase, loop, stop>>

\* The request is malformed, too large, cut short or silent for too long: an error
\* is written without asking the API.
RejectRequest(c) ==
  /\ Alive /\ At(c, "reading")
  /\ Move(c, "writing")
  /\ UNCHANGED <<slots, acceptor, phase, loop, stop>>

\* The client is gone.
LoseClient(c) ==
  /\ Alive /\ At(c, "reading")
  /\ Move(c, "closing")
  /\ UNCHANGED <<slots, acceptor, phase, loop, stop>>

\* api.handle answers every request, with an error if need be.
HandleRequest(c) ==
  /\ Alive /\ At(c, "handling")
  /\ Move(c, "writing")
  /\ UNCHANGED <<slots, acceptor, phase, loop, stop>>

\* The answer is written or the client is gone; there is one request to a connection.
WriteAnswer(c) ==
  /\ Alive /\ At(c, "writing")
  /\ Move(c, "closing")
  /\ UNCHANGED <<slots, acceptor, phase, loop, stop>>

\* Faulty: the slot stays with a client that was lost.
CloseKeepingSlot(c) ==
  /\ Alive /\ At(c, "closing")
  /\ Move(c, "closed")
  /\ UNCHANGED <<slots, acceptor, phase, loop, stop>>

\* process_request_thread: the connection is shut, and the slot given back.
CloseConnection(c) ==
  /\ Alive /\ At(c, "closing")
  /\ Move(c, "closed")
  /\ slots' = slots + 1
  /\ UNCHANGED <<acceptor, phase, loop, stop>>

-------------------------------------------------------------------------------
(* The worker *)

CheckStop ==
  /\ Alive /\ loop = "check"
  /\ loop' = IF stop THEN "ended" ELSE "running"
  /\ UNCHANGED <<slots, conn, acceptor, phase, stop>>

\* run_pending has dealt with a job.
RunPending ==
  /\ Alive /\ loop = "running"
  /\ loop' = "check"
  /\ UNCHANGED <<slots, conn, acceptor, phase, stop>>

\* Faulty: what run_pending raises ends the loop.
RunFailsAndEnds ==
  /\ Alive /\ loop = "running"
  /\ loop' \in {"cleaning", "ended"}
  /\ UNCHANGED <<slots, conn, acceptor, phase, stop>>

\* run_pending has found nothing to do, or has raised.
RunNothing ==
  /\ Alive /\ loop = "running"
  /\ loop' = "cleaning"
  /\ UNCHANGED <<slots, conn, acceptor, phase, stop>>

CleanUp ==
  /\ Alive /\ loop = "cleaning"
  /\ loop' = "pausing"
  /\ UNCHANGED <<slots, conn, acceptor, phase, stop>>

\* cleanup_expired raises outside the try block: nothing catches it.
CleanUpRaises ==
  /\ Alive /\ loop = "cleaning"
  /\ loop' = "dead"
  /\ UNCHANGED <<slots, conn, acceptor, phase, stop>>

Pause ==
  /\ Alive /\ loop = "pausing"
  /\ loop' = "check"
  /\ UNCHANGED <<slots, conn, acceptor, phase, stop>>

-------------------------------------------------------------------------------
(* The end of the process *)

\* Ctrl-C between two connections: the listener is closed, and the worker asked to stop.
Interrupt ==
  /\ phase = "serving" /\ acceptor = NoConnection
  /\ phase' = "stopping"
  /\ stop' = TRUE
  /\ conn' = [c \in Connection |-> IF At(c, "waiting") THEN "dropped" ELSE conn[c]]
  /\ UNCHANGED <<slots, acceptor, loop>>

\* The worker has ended, or five seconds are over: the store is closed, and the
\* process ends with the threads that are left.
Exit ==
  /\ phase = "stopping"
  /\ phase' = "exited"
  /\ UNCHANGED <<slots, conn, acceptor, loop, stop>>

RequestNext(c) ==
  \/ ReadRequest(c) \/ RejectRequest(c) \/ LoseClient(c) \/ HandleRequest(c)
  \/ WriteAnswer(c) \/ CloseConnection(c)
AcceptorNext(c) == Accept(c) \/ Refuse(c) \/ StartThread(c) \/ StartFails(c)
WorkerLoop == CheckStop \/ RunPending \/ RunNothing \/ CleanUp \/ CleanUpRaises \/ Pause

HttpNext ==
  \/ \E c \in Connection : Connect(c) \/ AcceptorNext(c) \/ RequestNext(c)
  \/ WorkerLoop
  \/ Interrupt \/ Exit

HttpSpec == HttpInit /\ [][HttpNext]_httpVars

\* The threads are scheduled.  A read ends: each wait for a byte is bounded by the
\* connection's timeout, and the bytes by the limits on line, headers and body.
HttpFairness ==
  /\ \A c \in Connection : WF_httpVars(AcceptorNext(c)) /\ WF_httpVars(RequestNext(c))
  /\ WF_httpVars(WorkerLoop)

FairHttpSpec == HttpSpec /\ HttpFairness

-------------------------------------------------------------------------------
(* Properties *)

Holding == {c \in Connection : conn[c] \in {"starting", "reading", "handling", "writing", "closing"}}

\* Every variable holds a value of its type.
HttpTypeOK ==
  /\ slots \in 0..MaxRequests
  /\ conn \in [Connection -> {"none", "waiting", "starting", "refusing", "reading", "handling",
                              "writing", "closing", "closed", "dropped"}]
  /\ acceptor \in Connection \cup {NoConnection}
  /\ phase \in {"serving", "stopping", "exited"}
  /\ loop \in {"check", "running", "cleaning", "pausing", "ended", "dead"}
  /\ stop \in BOOLEAN

\* A slot is free or in the hands of one connection: none is lost by a thread that
\* does not start or a client that is gone, and none is given back twice.
SlotsAccounted == slots + Cardinality(Holding) = MaxRequests

\* A client that has connected is served or told that the server is busy, and its
\* connection is closed: nobody is left waiting for ever by a server that has run out of
\* slots or whose accepting thread waits for a client.  (A connection is made once, so
\* that a server that again and again has none open has closed each.)
ConnectionsEnd ==
  []<>(phase # "serving" \/ \A c \in Connection : conn[c] \in {"none", "closed"})

\* http_server.py:65: the worker must "fail closed without killing the worker loop".
\* Until it is asked to stop, it comes back to the queue for ever.
WorkerGoesOn == []<>(loop = "running" \/ stop)

\* The same, of a clean-up that does not raise.
WorkerSurvivesItsJobs == []<>(loop = "running" \/ stop \/ loop = "dead")

\* Nobody who connects is left waiting for ever, and whatever a job does the worker comes
\* back for the next one.
ServerGoesOn == ConnectionsEnd /\ WorkerSurvivesItsJobs
==============================================================================
