---------------------------- MODULE GracefulStop ----------------------------
(***************************************************************************)
(* What stopping a process promises to those connected to it: no new       *)
(* connection once the stop has begun; a client whose request is being     *)
(* answered keeps its connection until it leaves of itself; the pools are  *)
(* released when the last connection has gone, and success is reported     *)
(* only after that.  A stop may be given up, which is reported as a        *)
(* failure.  Server implements this specification.                         *)
(***************************************************************************)
CONSTANT Client

VARIABLES
  phase,      \* how far the stop has got
  connected,  \* the clients that have a connection
  busy        \* those of them whose request is being answered

vars == <<phase, connected, busy>>

Init == phase = "up" /\ connected = {} /\ busy = {}

Connect(c) ==
  /\ phase = "up"
  /\ connected' = connected \cup {c}
  /\ UNCHANGED <<phase, busy>>

Serving == phase \in {"up", "draining"}

Ask(c) ==
  /\ Serving /\ c \in connected
  /\ busy' = busy \cup {c}
  /\ UNCHANGED <<phase, connected>>

Answer(c) ==
  /\ Serving /\ busy' = busy \ {c}
  /\ UNCHANGED <<phase, connected>>

Leave(c) ==
  /\ Serving
  /\ connected' = connected \ {c} /\ busy' = busy \ {c}
  /\ UNCHANGED phase

(* The first request to stop, and any later one, ends idle connections.    *)
Drain ==
  /\ Serving /\ phase' = "draining"
  /\ busy \subseteq connected' /\ connected' \subseteq connected
  /\ UNCHANGED busy

Release ==
  /\ phase = "draining" /\ connected = {}
  /\ phase' = "releasing"
  /\ UNCHANGED <<connected, busy>>

Finish == phase = "releasing" /\ phase' = "done" /\ UNCHANGED <<connected, busy>>

GiveUp ==
  /\ phase \in {"draining", "releasing"}
  /\ phase' = "failed"
  /\ UNCHANGED <<connected, busy>>

Next ==
  \/ \E c \in Client : Connect(c) \/ Ask(c) \/ Answer(c) \/ Leave(c)
  \/ Drain \/ Release \/ Finish \/ GiveUp

Spec == Init /\ [][Next]_vars

=============================================================================
