------------------------------- MODULE Service -------------------------------
(***************************************************************************)
(* What the reactor core promises an application that handles clients: a   *)
(* client that was accepted belongs to one thread for good; a thread runs  *)
(* the handler of one of its own clients at a time; and a client is let go *)
(* once, by its own handler, never behind its back.                        *)
(***************************************************************************)
CONSTANTS Clients, Threads, None

VARIABLES
  state,   \* client: away -> waiting -> served -> left
  by,      \* client: the thread it was given to
  busy     \* thread: the client whose handler it runs, or None

serviceVars == <<state, by, busy>>

Init ==
  /\ state = [c \in Clients |-> "away"]
  /\ by = [c \in Clients |-> None]
  /\ busy = [t \in Threads |-> None]

Arrive(c) ==
  /\ state[c] = "away"
  /\ state' = [state EXCEPT ![c] = "waiting"]
  /\ UNCHANGED <<by, busy>>

\* A client goes before anybody took it.
GiveUp(c) ==
  /\ state[c] = "waiting"
  /\ state' = [state EXCEPT ![c] = "left"]
  /\ UNCHANGED <<by, busy>>

Take(c, t) ==
  /\ state[c] = "waiting"
  /\ state' = [state EXCEPT ![c] = "served"]
  /\ by' = [by EXCEPT ![c] = t]
  /\ UNCHANGED busy

Handle(t, c) ==
  /\ busy[t] = None /\ state[c] = "served" /\ by[c] = t
  /\ busy' = [busy EXCEPT ![t] = c]
  /\ UNCHANGED <<state, by>>

\* The handler returns; the client stays.
Keep(t) ==
  /\ busy[t] # None
  /\ busy' = [busy EXCEPT ![t] = None]
  /\ UNCHANGED <<state, by>>

\* The handler lets its client go and does not touch it again.
Release(t) ==
  /\ busy[t] # None /\ state[busy[t]] = "served"
  /\ state' = [state EXCEPT ![busy[t]] = "left"]
  /\ busy' = [busy EXCEPT ![t] = None]
  /\ UNCHANGED by

Next ==
  \/ \E c \in Clients : Arrive(c) \/ GiveUp(c)
  \/ \E c \in Clients, t \in Threads : Take(c, t) \/ Handle(t, c)
  \/ \E t \in Threads : Keep(t) \/ Release(t)

Spec == Init /\ [][Next]_serviceVars
=============================================================================
