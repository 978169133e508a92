------------------------------- MODULE Server -------------------------------
(***************************************************************************)
(* One process: its connections, the pools below them, GET /ready, and the *)
(* shutdown.  A signal closes the listening socket; when the last          *)
(* connection has closed, the pools are closed; when both have, the        *)
(* process exits.  A watchdog ends the wait.  Signals may repeat, clients  *)
(* leave, PostgreSQL and Redis need not answer, and a handler whose client *)
(* has left goes on.                                                       *)
(***************************************************************************)
EXTENDS Naturals, FiniteSets

CONSTANTS
  Request,     \* connections whose requests query one dependency at a time
  Probe,       \* connections of an orchestrator that sends GET /ready
  PoolSize,    \* max of pg.Pool
  Signals      \* bound of the model: SIGTERM and SIGINT come so many times

ASSUME ServerAssumption ==
  /\ Request \cap Probe = {}
  /\ PoolSize \in Nat \ {0} /\ Signals \in Nat

Connection == Request \cup Probe
Signal == 1..Signals
Dependency == {"postgres", "redis"}

VARIABLES
  listening,   \* the server has its handle
  open,        \* connections that are open
  handling,    \* connections whose request is in a handler
  awaits,      \* the calls the handler of a connection waits for
  pending,     \* its calls that are not over, whoever waits for them
  borrowed,    \* connections whose query has a client of the pool
  stage,       \* how far shutdown has got, for each signal
  closeError,  \* signals whose server.close reports an error
  quitting,    \* signals whose redisClient.quit is not settled
  quitFailed,  \* signals whose redisClient.quit was rejected
  forced,      \* the watchdog ended the process
  exit         \* "clean" is process.exit(0), "error" process.exit(1)

connVars == <<open, handling>>
callVars == <<awaits, pending, borrowed>>
stopVars == <<stage, closeError, quitting, quitFailed>>
endVars == <<forced, exit>>
serverVars == <<listening, connVars, callVars, stopVars, endVars>>

Running == exit = "running"
Closing == {i \in Signal : stage[i] = "closing"}
Ending == {i \in Signal : stage[i] = "ending"}

-----------------------------------------------------------------------------
(* Connections and requests                                                *)

Connect(c) ==
  /\ Running /\ listening
  /\ c \notin open \cup handling /\ pending[c] = {}
  /\ open' = open \cup {c}
  /\ UNCHANGED <<listening, handling, callVars, stopVars, endVars>>

(* The client leaves, or keepAliveTimeout ends an idle connection.  The    *)
(* handler is not told.                                                    *)
Disconnect(c) ==
  /\ Running /\ c \in open
  /\ open' = open \ {c}
  /\ UNCHANGED <<listening, handling, callVars, stopVars, endVars>>

(* A request comes, on a kept-alive connection after the signal too.       *)
(* GET /ready starts both checks at once; pool.query waits for a client.   *)
Arrive(c) ==
  /\ Running /\ c \in open \ handling /\ pending[c] = {}
  /\ handling' = handling \cup {c}
  /\ LET calls == IF c \in Probe THEN Dependency ELSE {}
     IN /\ awaits' = [awaits EXCEPT ![c] = calls]
        /\ pending' = [pending EXCEPT ![c] = calls]
  /\ UNCHANGED <<listening, open, borrowed, stopVars, endVars>>

(* Any other handler awaits a query or a Redis command.  With the pools    *)
(* closed the call is refused at once, which is no step.                   *)
Call(r, d) ==
  /\ Running /\ r \in handling /\ awaits[r] = {} /\ Ending = {}
  /\ awaits' = [awaits EXCEPT ![r] = {d}]
  /\ pending' = [pending EXCEPT ![r] = {d}]
  /\ UNCHANGED <<listening, connVars, borrowed, stopVars, endVars>>

(* The pool hands out a client; once it is ending it serves no one.        *)
Borrow(c) ==
  /\ Running /\ Ending = {}
  /\ "postgres" \in pending[c] /\ c \notin borrowed
  /\ Cardinality(borrowed) < PoolSize
  /\ borrowed' = borrowed \cup {c}
  /\ UNCHANGED <<listening, connVars, awaits, pending, stopVars, endVars>>

(* A call is over, well or badly; the client returns to the pool.          *)
Reply_NoRelease(c, d) ==
  /\ Running /\ d \in pending[c]
  /\ d = "postgres" => c \in borrowed
  /\ awaits' = [awaits EXCEPT ![c] = @ \ {d}]
  /\ pending' = [pending EXCEPT ![c] = @ \ {d}]
  /\ UNCHANGED <<listening, connVars, borrowed, stopVars, endVars>>
Reply(c, d) ==
  /\ Running /\ d \in pending[c]
  /\ d = "postgres" => c \in borrowed
  /\ awaits' = [awaits EXCEPT ![c] = @ \ {d}]
  /\ pending' = [pending EXCEPT ![c] = @ \ {d}]
  /\ borrowed' = IF d = "postgres" THEN borrowed \ {c} ELSE borrowed
  /\ UNCHANGED <<listening, connVars, stopVars, endVars>>

(* withTimeout: a check is given up, the call behind it goes on.           *)
TimeOut_RedisOnly(p, d) ==
  /\ Running /\ d \in awaits[p] /\ d = "redis"
  /\ awaits' = [awaits EXCEPT ![p] = @ \ {d}]
  /\ UNCHANGED <<listening, connVars, pending, borrowed, stopVars, endVars>>
TimeOut(p, d) ==
  /\ Running /\ d \in awaits[p]
  /\ awaits' = [awaits EXCEPT ![p] = @ \ {d}]
  /\ UNCHANGED <<listening, connVars, pending, borrowed, stopVars, endVars>>

Respond(c) ==
  /\ Running /\ c \in handling /\ awaits[c] = {}
  /\ handling' = handling \ {c}
  /\ UNCHANGED <<listening, open, callVars, stopVars, endVars>>

-----------------------------------------------------------------------------
(* Shutdown                                                                *)

(* shutdown: the watchdog is armed and server.close called.  Without a     *)
(* handle that is an error, which its callback will learn.  Node closes    *)
(* the idle connections, except those that never sent a request.           *)
Shutdown_CutsAll(i) ==
  /\ Running /\ stage[i] = "idle"
  /\ \A j \in 1..(i - 1) : stage[j] # "idle"
  /\ stage' = [stage EXCEPT ![i] = "closing"]
  /\ closeError' = IF listening THEN closeError ELSE closeError \cup {i}
  /\ listening' = FALSE
  /\ open' = {}
  /\ UNCHANGED <<handling, callVars, quitting, quitFailed, endVars>>
Shutdown(i) ==
  /\ Running /\ stage[i] = "idle"
  /\ \A j \in 1..(i - 1) : stage[j] # "idle"
  /\ stage' = [stage EXCEPT ![i] = "closing"]
  /\ closeError' = IF listening THEN closeError ELSE closeError \cup {i}
  /\ listening' = FALSE
  /\ \E silent \in SUBSET (open \ handling) :
       open' = (open \cap handling) \cup silent
  /\ UNCHANGED <<handling, callVars, quitting, quitFailed, endVars>>

(* The server emits 'close': every callback waiting for it calls pool.end  *)
(* and quit.  The first signal's pool.end counts, others are rejected.     *)
Closed_AtOnce ==
  /\ Running /\ Closing # {}
  /\ stage' = [i \in Signal |-> IF i \in Closing THEN "ending" ELSE stage[i]]
  /\ quitting' = quitting \cup Closing
  /\ UNCHANGED <<listening, connVars, callVars, closeError, quitFailed, endVars>>
Closed ==
  /\ Running /\ Closing # {} /\ open = {}
  /\ stage' = [i \in Signal |-> IF i \in Closing THEN "ending" ELSE stage[i]]
  /\ quitting' = quitting \cup Closing
  /\ UNCHANGED <<listening, connVars, callVars, closeError, quitFailed, endVars>>

Quit(i) ==
  /\ Running /\ i \in quitting
  /\ quitting' = quitting \ {i}
  /\ quitFailed' \in {quitFailed, quitFailed \cup {i}}
  /\ UNCHANGED <<listening, connVars, callVars, stage, closeError, endVars>>

HadError_FirstOnly(i) == i \in closeError
HadError(i) == i \in closeError \cup quitFailed \/ i # 1

(* Promise.allSettled: pool.end settles when every client has returned.    *)
Exit(i) ==
  /\ Running /\ i \in Ending \ quitting
  /\ i = 1 => borrowed = {}
  /\ exit' = IF HadError(i) THEN "error" ELSE "clean"
  /\ UNCHANGED <<listening, connVars, callVars, stopVars, forced>>

(* forceExit is cleared by nothing but the exit itself.                    *)
Watchdog_ClearedAtClose(i) ==
  /\ Running /\ i \in Closing
  /\ exit' = "error" /\ forced' = TRUE
  /\ UNCHANGED <<listening, connVars, callVars, stopVars>>
Watchdog(i) ==
  /\ Running /\ i \in Closing \cup Ending
  /\ exit' = "error" /\ forced' = TRUE
  /\ UNCHANGED <<listening, connVars, callVars, stopVars>>

-----------------------------------------------------------------------------
(* startServer: the callback of listen is also the one of its error, so a  *)
(* process whose port is taken goes on without a handle.                   *)
ServerInit ==
  /\ listening \in BOOLEAN
  /\ open = {} /\ handling = {} /\ borrowed = {}
  /\ awaits = [c \in Connection |-> {}]
  /\ pending = [c \in Connection |-> {}]
  /\ stage = [i \in Signal |-> "idle"]
  /\ closeError = {} /\ quitting = {} /\ quitFailed = {}
  /\ forced = FALSE /\ exit = "running"

ClientNext == \E c \in Connection : Connect(c) \/ Disconnect(c) \/ Arrive(c)

HandlerNext ==
  \/ \E r \in Request, d \in Dependency : Call(r, d)
  \/ \E p \in Probe, d \in Dependency : TimeOut(p, d)
  \/ \E c \in Connection : Borrow(c) \/ Respond(c) \/ \E d \in Dependency : Reply(c, d)

ShutdownNext ==
  \/ Closed
  \/ \E i \in Signal : Shutdown(i) \/ Quit(i) \/ Exit(i) \/ Watchdog(i)

ServerNext == ClientNext \/ HandlerNext \/ ShutdownNext

(* Timers fire and settled promises are taken up.  PostgreSQL and Redis    *)
(* may stay silent, and a client may keep its connection for ever.         *)
ServerFairness ==
  /\ \A i \in Signal : WF_serverVars(Watchdog(i))
  /\ \A c \in Connection : WF_serverVars(Respond(c))
  /\ \A p \in Probe, d \in Dependency : WF_serverVars(TimeOut(p, d))

ServerSafety == ServerInit /\ [][ServerNext]_serverVars
ServerSpec == ServerSafety /\ ServerFairness

-----------------------------------------------------------------------------
(* Properties                                                              *)

(* Types; a query keeps its pool client exactly as long as it is pending,  *)
(* also when the check or the client that wanted it has gone.              *)
ServerTypeOK ==
  /\ listening \in BOOLEAN /\ forced \in BOOLEAN
  /\ open \subseteq Connection /\ handling \subseteq Connection
  /\ awaits \in [Connection -> SUBSET Dependency]
  /\ pending \in [Connection -> SUBSET Dependency]
  /\ \A c \in Connection : awaits[c] \subseteq pending[c]
  /\ \A c \in borrowed : c \in Connection /\ "postgres" \in pending[c]
  /\ stage \in [Signal -> {"idle", "closing", "ending"}]
  /\ closeError \subseteq Signal /\ quitFailed \subseteq Signal
  /\ quitting \subseteq Ending
  /\ exit \in {"running", "clean", "error"}

(* docs/observability.md:44: stopping drops no request in flight.  Nobody  *)
(* who is connected finds a pool closed, whichever signals repeat and      *)
(* whatever comes late on a kept-alive connection; and only the watchdog   *)
(* ends the process while a connection is open.                            *)
NobodyCutOff ==
  /\ open # {} => Ending = {}
  /\ ~Running /\ ~forced => open = {}

(* The exit code tells how the shutdown went: 0 when the sockets, the pool *)
(* and Redis were all closed in order, 1 only when the watchdog fired,     *)
(* quit failed, or some close found the server not listening, as the close *)
(* of every signal but the first does.                                     *)
ExitIsTrue ==
  /\ exit = "clean" => /\ open = {} /\ borrowed = {} /\ ~forced
                       /\ 1 \in Ending \ (closeError \cup quitting \cup quitFailed)
  /\ exit = "error" => forced \/ closeError \cup quitFailed # {}

(* docs/observability.md:44 as what clients see of a stop: they are not    *)
(* accepted once it has begun, a request in flight keeps its connection    *)
(* through every repeated signal, the pools close after the last one, and  *)
(* success means all of that was done.                                     *)
Phase ==
  CASE exit = "clean" -> "done"
    [] exit = "error" -> "failed"
    [] Running /\ Ending # {} -> "releasing"
    [] Running /\ Ending = {} /\ Closing # {} -> "draining"
    [] OTHER -> "up"

Stop == INSTANCE GracefulStop
          WITH Client <- Connection, phase <- Phase, connected <- open,
               busy <- open \cap handling
StopsGracefully == Stop!Spec

(* A process that was told to stop stops, with PostgreSQL and Redis silent *)
(* and clients that never close.                                           *)
Stops == (\E i \in Signal : stage[i] # "idle") ~> ~Running

(* Every probe that reaches the handler of GET /ready is answered although *)
(* neither dependency replies, though every client of the pool is taken by *)
(* the queries of probes that were given up.                               *)
ProbeAnswered == \A p \in Probe : p \in handling ~> (p \notin handling \/ ~Running)

=============================================================================
