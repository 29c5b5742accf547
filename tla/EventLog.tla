------------------------------ MODULE EventLog ------------------------------
(***************************************************************************)
(* What the event bus promises a handler: the events published are one     *)
(* log, and each handler moves forward in it.  It may miss events, for     *)
(* Redis keeps none, but it never goes back, and it is only given events   *)
(* of the topics it is registered for.                                     *)
(***************************************************************************)
EXTENDS Naturals, Sequences

CONSTANTS
  Channels,     \* where events are published
  Handlers,     \* who listens
  Audible(_, _) \* Audible(reg, ch): who may hear ch, given the registrations

VARIABLES
  log,          \* the channels of the events published, in order
  registered,   \* the registrations
  cursor        \* the last event that each handler was given; 0 for none

logVars == <<log, registered, cursor>>

Init == log = <<>> /\ cursor = [h \in Handlers |-> 0]

Publish ==
  /\ \E ch \in Channels : log' = Append(log, ch)
  /\ UNCHANGED <<registered, cursor>>

Register == UNCHANGED <<log, cursor>>

\* One event reaches all who may hear it, none of whom has been further.
Hear ==
  \E n \in DOMAIN log :
    /\ \A h \in Audible(registered, log[n]) : cursor[h] <= n
    /\ cursor' = [h \in Handlers |->
                    IF h \in Audible(registered, log[n]) THEN n ELSE cursor[h]]
    /\ UNCHANGED <<log, registered>>

Next == Publish \/ Register \/ Hear

Spec == Init /\ [][Next]_logVars
=============================================================================
