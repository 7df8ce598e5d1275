------------------------------ MODULE AlertLog ------------------------------
(***************************************************************************)
(* What server/src/server.c promises operators, seen from outside: there   *)
(* is one log of alerts.  Whoever has logged in listens from the next      *)
(* entry on, and as long as its connection is open it is sent every entry, *)
(* once and in the order of the log, before the entry after that is even   *)
(* made.  Between alerts it is sent the answers to its own commands.       *)
(***************************************************************************)
EXTENDS Naturals, Sequences

CONSTANTS
  Clients,   \* connections
  Alerts,    \* alerts that may be raised
  Answers    \* what else a client may be sent

VARIABLES
  log,       \* every alert raised, in one order
  next,      \* per listening client, the index of the entry it is sent next
  received   \* per client, what it has been sent

vars == <<log, received, next>>

Listening == DOMAIN next

Init ==
  /\ log = <<>>
  /\ next = [c \in {} |-> 0]
  /\ received = [c \in Clients |-> <<>>]

(* A new alert: all that listen have been sent the ones before it. *)
Publish(alert) ==
  /\ log' = Append(log, alert)
  /\ \A k \in 1 .. Len(log) : log[k] # alert
  /\ \A c \in Listening : next[c] = Len(log) + 1
  /\ UNCHANGED <<next, received>>

Join(c) ==
  /\ c \notin Listening
  /\ next' = [d \in Listening \cup {c} |-> IF d = c THEN Len(log) + 1 ELSE next[d]]
  /\ UNCHANGED <<log, received>>

Deliver(c) ==
  /\ c \in Listening /\ next[c] <= Len(log)
  /\ received' = [received EXCEPT ![c] = Append(@, log[next[c]])]
  /\ next' = [next EXCEPT ![c] = @ + 1]
  /\ UNCHANGED log

Answer(c, answer) ==
  /\ received' = [received EXCEPT ![c] = Append(@, answer)]
  /\ UNCHANGED <<log, next>>

Leave(c) ==
  /\ c \in Listening
  /\ next' = [d \in Listening \ {c} |-> next[d]]
  /\ UNCHANGED <<log, received>>

Next ==
  \/ \E alert \in Alerts : Publish(alert)
  \/ \E c \in Clients : Join(c) \/ Deliver(c) \/ Leave(c)
  \/ \E c \in Clients, answer \in Answers : Answer(c, answer)

Spec == Init /\ [][Next]_vars
=============================================================================
