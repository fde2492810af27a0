---------------------------- MODULE RequestCycle ----------------------------
(***************************************************************************)
(* What the server promises each of its clients, whatever events, timers   *)
(* and processes it takes: a connection gets a descriptor that no other    *)
(* connection has, and keeps it until it is closed for good; on it,        *)
(* requests are received, completed and answered, one connection at a      *)
(* time, and none is left half received while the server is up.  Webserv   *)
(* is shown to implement this (WebservCycle).                              *)
(***************************************************************************)
CONSTANTS
  Conn,      \* the connections
  Fd,        \* the descriptors
  None       \* no connection

VARIABLES
  stage,     \* what each connection is waiting for
  holder,    \* the connection that has a descriptor
  up         \* the server has not stopped

vars == <<stage, holder, up>>

\* What a connection that is served can be doing.
Serving == {"idle", "receiving", "answering"}
Stage == {"none", "closed"} \cup Serving

Init ==
  /\ stage = [h \in Conn |-> "none"]
  /\ holder = [f \in Fd |-> None]
  /\ up = TRUE

\* A connection is accepted, on a descriptor nobody has.
Open(h) ==
  /\ stage[h] = "none"
  /\ stage' = [stage EXCEPT ![h] = "idle"]
  /\ \E f \in Fd : holder[f] = None /\ holder' = [holder EXCEPT ![f] = h]
  /\ UNCHANGED up

\* A part of a request arrives.
Receive(h) ==
  /\ stage[h] \in {"idle", "receiving"}
  /\ stage' = [stage EXCEPT ![h] = "receiving"]
  /\ UNCHANGED <<holder, up>>

\* A request is complete.
Complete(h) ==
  /\ stage[h] \in Serving
  /\ stage' = [stage EXCEPT ![h] = "answering"]
  /\ UNCHANGED <<holder, up>>

\* A request is answered, or given up; sending may end the server.
Reply(h) ==
  /\ stage[h] \in Serving
  /\ stage' = [stage EXCEPT ![h] = "idle"]
  /\ up' \in BOOLEAN
  /\ UNCHANGED holder

\* A connection is closed, and its descriptor free again.
Close(h) ==
  /\ stage[h] \in Serving
  /\ stage' = [stage EXCEPT ![h] = "closed"]
  /\ holder' = [f \in Fd |-> IF holder[f] = h THEN None ELSE holder[f]]
  /\ up' \in BOOLEAN

Stop == up' = FALSE /\ UNCHANGED <<stage, holder>>

Next ==
  /\ up
  /\ \/ \E h \in Conn : Open(h) \/ Receive(h) \/ Complete(h) \/ Reply(h) \/ Close(h)
     \/ Stop

Spec == Init /\ [][Next]_vars

\* No request is half received for ever.
Progress == \A h \in Conn : stage[h] = "receiving" ~> stage[h] # "receiving" \/ ~up

FairSpec == Spec /\ Progress
=============================================================================
