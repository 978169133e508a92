---------------------------- MODULE ServerProofs ----------------------------
(***************************************************************************)
(* Theorems about Server, for any number of connections, signals and pool  *)
(* clients: its types, that nobody connected is cut off, that the exit     *)
(* code is true, and that a stop keeps the promise of GracefulStop.        *)
(***************************************************************************)
EXTENDS Server, TLAPS

(* What a shutdown has brought about: no new connection once it has begun, *)
(* no connection left once the pools are closing, and an error for every   *)
(* signal but the first, whose close finds no handle; the watchdog ends it. *)
ShutdownInOrder ==
  /\ \A i \in Signal : stage[i] # "idle" => ~listening
  /\ Ending # {} => open = {} /\ ~listening
  /\ \A i \in Signal : stage[i] # "idle" /\ i # 1 => i \in closeError
  /\ quitFailed \subseteq Ending
  /\ Running => ~forced

(* Only the checks of a probe are ever given up before they are over.      *)
RequestsWait == \A r \in Request : awaits[r] = pending[r]

ServerInv ==
  ServerTypeOK /\ RequestsWait /\ ShutdownInOrder /\ NobodyCutOff /\ ExitIsTrue

LEMMA InitInv == ServerInit => ServerInv
BY DEF ServerInit, ServerInv, ServerTypeOK, RequestsWait, ShutdownInOrder,
       NobodyCutOff, ExitIsTrue, Ending, Running, Connection

(* Steps of clients and handlers, which leave the shutdown alone: it is    *)
(* enough that the new connections respect it.                             *)
LEMMA QuietStep ==
  ASSUME ServerInv, Running, ServerTypeOK', RequestsWait',
         UNCHANGED <<listening, stopVars, endVars>>,
         open' \subseteq open \/ listening
  PROVE  ServerInv'
<1>1. Ending' = Ending /\ Running'
  BY DEF Ending, Running, stopVars, endVars
<1>2. Ending # {} => open' = {}
  BY DEF ServerInv, ShutdownInOrder
<1>3. ShutdownInOrder'
  BY <1>1, <1>2 DEF ServerInv, ShutdownInOrder, stopVars, endVars
<1>4. NobodyCutOff' /\ ExitIsTrue'
  BY <1>1, <1>2 DEF NobodyCutOff, ExitIsTrue, Running
<1> QED
  BY <1>3, <1>4 DEF ServerInv

LEMMA ClientStep == ASSUME ServerInv, ClientNext PROVE ServerInv'
<1>1. PICK c \in Connection : Connect(c) \/ Disconnect(c) \/ Arrive(c)
  BY DEF ClientNext
<1>2. Running /\ UNCHANGED <<listening, stopVars, endVars>>
  BY <1>1 DEF Connect, Disconnect, Arrive
<1>3. open' \subseteq open \/ listening
  BY <1>1 DEF Connect, Disconnect, Arrive
<1>4. ServerTypeOK' /\ RequestsWait'
  <2> USE DEF ServerInv, ServerTypeOK, RequestsWait, Ending, Connection,
        stopVars, endVars
  <2>1. CASE Connect(c) \/ Disconnect(c)
    BY <2>1 DEF Connect, Disconnect, callVars
  <2>2. CASE Arrive(c)
    BY <2>2 DEF Arrive, Dependency
  <2> QED
    BY <1>1, <2>1, <2>2
<1> QED
  BY <1>2, <1>3, <1>4, QuietStep

LEMMA HandlerStep == ASSUME ServerInv, HandlerNext PROVE ServerInv'
<1>1. /\ Running /\ UNCHANGED <<listening, open, stopVars, endVars>>
      /\ ServerTypeOK' /\ RequestsWait'
  <2> USE DEF ServerInv, ServerTypeOK, RequestsWait, Ending, Connection,
        connVars, stopVars, endVars
  <2>1. ASSUME NEW r \in Request, NEW d \in Dependency, Call(r, d)
        PROVE  <1>1!:
    <3>1. pending[r] = {} /\ r \notin borrowed
      BY <2>1 DEF Call
    <3> QED
      BY <2>1, <3>1 DEF Call, Dependency
  <2>2. ASSUME NEW p \in Probe, NEW d \in Dependency, TimeOut(p, d)
        PROVE  <1>1!:
    BY <2>2, ServerAssumption DEF TimeOut
  <2>3. ASSUME NEW c \in Connection, Borrow(c) \/ Respond(c)
        PROVE  <1>1!:
    BY <2>3 DEF Borrow, Respond, callVars
  <2>4. ASSUME NEW c \in Connection, NEW d \in Dependency, Reply(c, d)
        PROVE  <1>1!:
    BY <2>4 DEF Reply, Dependency
  <2> QED
    BY <2>1, <2>2, <2>3, <2>4 DEF HandlerNext
<1> QED
  BY <1>1, QuietStep

-----------------------------------------------------------------------------
(* Steps of the shutdown                                                   *)

LEMMA ShutdownStep == ASSUME ServerInv, ShutdownNext PROVE ServerInv'
<1> USE DEF ServerInv, ServerTypeOK, RequestsWait, ShutdownInOrder,
      NobodyCutOff, ExitIsTrue, Ending, Closing, Running, Signal
<1>1. ASSUME NEW i \in Signal, Shutdown(i)
      PROVE  ServerInv'
  <2>1. /\ i = 1 \/ stage[1] # "idle"
        /\ stage' = [stage EXCEPT ![i] = "closing"] /\ stage[i] = "idle"
        /\ open' \subseteq open /\ listening' = FALSE
        /\ UNCHANGED <<handling, callVars, quitting, quitFailed, endVars>>
    BY <1>1, ServerAssumption DEF Shutdown
  <2>2. Ending' = Ending
    BY <2>1
  <2>3. i # 1 => ~listening
    BY <2>1, ServerAssumption
  <2>4. i # 1 => i \in closeError'
    BY <1>1, <2>3 DEF Shutdown
  <2>5. closeError \subseteq closeError' /\ closeError' \subseteq closeError \cup {i}
    BY <1>1 DEF Shutdown
  <2>6. ServerTypeOK' /\ RequestsWait'
    BY <2>1, <2>2, <2>5 DEF callVars, endVars
  <2>7. ShutdownInOrder'
    BY <2>1, <2>2, <2>4, <2>5 DEF endVars
  <2> QED
    BY <1>1, <2>1, <2>2, <2>6, <2>7 DEF Shutdown, endVars
<1>2. CASE Closed
  <2>1. Ending' = Ending \cup Closing /\ open' = {}
    BY <1>2 DEF Closed, connVars
  <2>2. ServerTypeOK' /\ RequestsWait'
    BY <1>2, <2>1 DEF Closed, connVars, callVars, endVars
  <2> QED
    BY <1>2, <2>1, <2>2 DEF Closed, connVars, callVars, endVars
<1>3. ASSUME NEW i \in Signal, Quit(i)
      PROVE  ServerInv'
  BY <1>3 DEF Quit, connVars, callVars, endVars
<1>4. ASSUME NEW i \in Signal, Exit(i)
      PROVE  ServerInv'
  <2>1. Ending' = Ending /\ open' = {} /\ ~forced'
    BY <1>4 DEF Exit, connVars, callVars, stopVars, HadError
  <2>2. HadError(i) => closeError \cup quitFailed # {}
    BY <1>4 DEF Exit, HadError
  <2>3. ~HadError(i) => 1 \in Ending \ (closeError \cup quitting \cup quitFailed)
                        /\ borrowed = {}
    BY <1>4 DEF Exit, HadError
  <2>4. ServerTypeOK' /\ RequestsWait' /\ ShutdownInOrder'
    BY <1>4, <2>1 DEF Exit, connVars, callVars, stopVars
  <2>5. UNCHANGED <<borrowed, closeError, quitting, quitFailed, forced>>
    BY <1>4 DEF Exit, callVars, stopVars
  <2>6. exit' = IF HadError(i) THEN "error" ELSE "clean"
    BY <1>4 DEF Exit
  <2>7. NobodyCutOff' /\ ExitIsTrue'
    BY <2>1, <2>2, <2>3, <2>5, <2>6
  <2> QED
    BY <2>4, <2>7
<1>5. ASSUME NEW i \in Signal, Watchdog(i)
      PROVE  ServerInv'
  BY <1>5 DEF Watchdog, connVars, callVars, stopVars
<1> QED
  BY <1>1, <1>2, <1>3, <1>4, <1>5 DEF ShutdownNext

-----------------------------------------------------------------------------
LEMMA ServerInvariant == ServerSpec => []ServerInv
<1>1. ASSUME ServerInv, [ServerNext]_serverVars
      PROVE  ServerInv'
  <2>1. CASE UNCHANGED serverVars
    <3> USE <2>1 DEF serverVars, connVars, callVars, stopVars, endVars,
          ServerInv, Ending, Running
    <3>1. ServerTypeOK' /\ RequestsWait'
      BY <1>1 DEF ServerTypeOK, RequestsWait
    <3>2. ShutdownInOrder' /\ NobodyCutOff' /\ ExitIsTrue'
      BY <1>1 DEF ShutdownInOrder, NobodyCutOff, ExitIsTrue
    <3> QED
      BY <3>1, <3>2
  <2> QED
    BY <1>1, <2>1, ClientStep, HandlerStep, ShutdownStep DEF ServerNext
<1> QED
  BY <1>1, InitInv, PTL DEF ServerSpec, ServerSafety

(* The type invariant: in particular a query keeps its pool client as long *)
(* as it is pending, whoever has given it up.                              *)
THEOREM ServerTypeCorrect == ServerSpec => []ServerTypeOK
BY ServerInvariant, PTL DEF ServerInv

(* server.close before pool.end and quit: no client finds a pool closed,   *)
(* for any number of signals and connections.                              *)
THEOREM NobodyIsCutOff == ServerSpec => []NobodyCutOff
BY ServerInvariant, PTL DEF ServerInv

(* process.exit(hadError ? 1 : 0) tells the truth.                         *)
THEOREM ExitCodeIsTrue == ServerSpec => []ExitIsTrue
BY ServerInvariant, PTL DEF ServerInv

-----------------------------------------------------------------------------
(* The refinement of GracefulStop                                          *)

(* Where a stop is, read from the stage of each signal.                    *)
LEMMA Phases ==
  ASSUME ServerTypeOK
  PROVE  /\ exit = "clean" => Phase = "done"
         /\ exit = "error" => Phase = "failed"
         /\ Running /\ Ending # {} => Phase = "releasing"
         /\ Running /\ Ending = {} /\ Closing # {} => Phase = "draining"
         /\ Running /\ Ending = {} /\ Closing = {} => Phase = "up"
BY DEF Phase, Running, ServerTypeOK

(* What a client or a handler does leaves the phase as it is, and is one   *)
(* step of a client of GracefulStop.                                       *)
LEMMA ClientRefines ==
  ASSUME ServerInv, ServerTypeOK', ClientNext \/ HandlerNext
  PROVE  [Stop!Next]_(Stop!vars)
<1>1. /\ Running /\ UNCHANGED <<listening, stopVars, endVars>>
  BY DEF ClientNext, HandlerNext, Connect, Disconnect, Arrive, Call, TimeOut,
       Borrow, Respond, Reply
<1>2. UNCHANGED Phase
  BY <1>1 DEF Phase, Ending, Closing, Running, stopVars, endVars
<1>3. open # {} => Phase \in {"up", "draining"}
  BY <1>1, Phases DEF ServerInv, NobodyCutOff
<1>4. listening => Phase = "up"
  BY <1>1, Phases DEF ServerInv, ShutdownInOrder, Ending, Closing
<1>5. ASSUME NEW c \in Connection, Connect(c)
      PROVE  Stop!Connect(c)
  BY <1>2, <1>4, <1>5 DEF Connect, Stop!Connect
<1>6. ASSUME NEW c \in Connection, Disconnect(c)
      PROVE  Stop!Leave(c)
  BY <1>2, <1>3, <1>6 DEF Disconnect, Stop!Leave, Stop!Serving
<1>7. ASSUME NEW c \in Connection, Arrive(c)
      PROVE  Stop!Ask(c)
  BY <1>2, <1>3, <1>7 DEF Arrive, Stop!Ask, Stop!Serving
<1>8. ASSUME NEW c \in Connection, Respond(c)
      PROVE  Stop!Answer(c) \/ UNCHANGED Stop!vars
  BY <1>2, <1>3, <1>8 DEF Respond, Stop!Answer, Stop!Serving, Stop!vars
<1>9. CASE UNCHANGED connVars
  BY <1>2, <1>9 DEF connVars, Stop!vars
<1> QED
  BY <1>5, <1>6, <1>7, <1>8, <1>9
  DEF ClientNext, HandlerNext, Call, TimeOut, Borrow, Reply, Stop!Next, Connection

(* The steps of shutdown.  The second signal finds the phase where the     *)
(* first has brought it.                                                   *)
LEMMA ShutdownRefines ==
  ASSUME ServerInv, ServerInv', ShutdownNext
  PROVE  [Stop!Next]_(Stop!vars)
<1>1. ASSUME NEW i \in Signal, Shutdown(i)
      PROVE  Stop!Drain \/ UNCHANGED Stop!vars
  <2>1. /\ Running /\ Running' /\ stage[i] = "idle"
        /\ stage' = [stage EXCEPT ![i] = "closing"]
        /\ open \cap handling \subseteq open' /\ open' \subseteq open
        /\ UNCHANGED handling
    BY <1>1 DEF Shutdown, Running, endVars
  <2>2. Ending' = Ending /\ Closing' # {}
    BY <2>1 DEF Ending, Closing, ServerInv, ServerTypeOK
  <2>3. CASE Ending = {}
    <3>1. Phase \in {"up", "draining"} /\ Phase' = "draining"
      BY <2>1, <2>2, <2>3, Phases DEF ServerInv, Phase, Running
    <3> QED
      BY <2>1, <3>1 DEF Stop!Drain, Stop!Serving
  <2>4. CASE Ending # {}
    <3>1. open = {} /\ open' = {}
      BY <2>1, <2>4 DEF ServerInv, ShutdownInOrder
    <3>2. Phase = "releasing" /\ Phase' = "releasing"
      BY <2>1, <2>2, <2>4, Phases DEF ServerInv, Phase, Running
    <3> QED
      BY <3>1, <3>2 DEF Stop!vars
  <2> QED
    BY <2>3, <2>4
<1>2. ASSUME Closed
      PROVE  Stop!Release \/ UNCHANGED Stop!vars
  <2>1. /\ Running /\ Running' /\ open = {} /\ UNCHANGED connVars
        /\ Ending' # {} /\ Closing # {}
    BY <1>2 DEF Closed, Running, endVars, connVars, Ending, Closing, ServerInv, ServerTypeOK
  <2>2. Phase' = "releasing"
    BY <2>1 DEF Phase, Running
  <2>3. Phase \in {"draining", "releasing"}
    BY <2>1, Phases DEF ServerInv
  <2> QED
    BY <2>1, <2>2, <2>3 DEF Stop!Release, Stop!vars, connVars
<1>3. ASSUME NEW i \in Signal, Quit(i)
      PROVE  UNCHANGED Stop!vars
  BY <1>3 DEF Quit, Stop!vars, connVars, Phase, Ending, Closing, Running, endVars
<1>4. ASSUME NEW i \in Signal, Exit(i)
      PROVE  Stop!Finish \/ Stop!GiveUp
  <2>1. Running /\ Ending # {} /\ UNCHANGED connVars /\ exit' \in {"clean", "error"}
    BY <1>4 DEF Exit
  <2>2. Phase = "releasing" /\ Phase' \in {"done", "failed"}
    BY <2>1, Phases DEF ServerInv, Phase, Running
  <2> QED
    BY <2>1, <2>2 DEF Stop!Finish, Stop!GiveUp, connVars
<1>5. ASSUME NEW i \in Signal, Watchdog(i)
      PROVE  Stop!GiveUp
  <2>1. /\ Running /\ (Ending # {} \/ Closing # {})
        /\ UNCHANGED connVars /\ exit' = "error"
    BY <1>5 DEF Watchdog
  <2>2. Phase \in {"draining", "releasing"} /\ Phase' = "failed"
    BY <2>1, Phases DEF ServerInv, Phase, Running
  <2> QED
    BY <2>1, <2>2 DEF Stop!GiveUp, connVars
<1> QED
  BY <1>1, <1>2, <1>3, <1>4, <1>5 DEF ShutdownNext, Stop!Next

(* A stop drops no request in flight, takes no one new and releases the    *)
(* pools last, for any number of connections and of repeated signals.      *)
THEOREM ImplementsGracefulStop == ServerSpec => StopsGracefully
<1>1. ServerInit => Stop!Init
  <2>1. ServerInit => Phase = "up"
    BY DEF ServerInit, Phase, Running, Ending, Closing
  <2> QED
    BY <2>1 DEF ServerInit, Stop!Init
<1>2. ASSUME ServerInv, ServerInv', [ServerNext]_serverVars
      PROVE  [Stop!Next]_(Stop!vars)
  <2>1. CASE UNCHANGED serverVars
    BY <2>1 DEF serverVars, connVars, stopVars, endVars, Stop!vars, Phase,
         Ending, Closing, Running
  <2> QED
    BY <1>2, <2>1, ClientRefines, ShutdownRefines DEF ServerNext, ServerInv
<1> QED
  BY <1>1, <1>2, ServerInvariant, PTL
  DEF ServerSpec, ServerSafety, StopsGracefully, Stop!Spec

=============================================================================
