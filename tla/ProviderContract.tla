-------------------------- MODULE ProviderContract --------------------------
(***************************************************************************)
(* What Verifications relies on when it asks a provider: a session appears *)
(* with a status the provider can report at once, is cancelled only from   *)
(* the statuses in which the provider agrees to it, goes on by itself only *)
(* at a remote provider, and disappears only with the process, together    *)
(* with all others of its provider.  A caller is told the status that the  *)
(* session has.                                                            *)
(***************************************************************************)
EXTENDS VerificationStatus

CONSTANTS
  Implementations,  \* names of providers
  SessionIds,
  Behaviour,        \* see KycProviders
  Null

VARIABLES
  session,  \* [Implementations -> [SessionIds -> Status \cup {Null}]]
  heard     \* the same: what the callers were told last

contractVars == <<session, heard>>

Init ==
  /\ session = [p \in Implementations |-> [i \in SessionIds |-> Null]]
  /\ heard = session

Create(p, i) ==
  /\ session[p][i] = Null
  /\ \E s \in Behaviour[p].initial :
       /\ session' = [session EXCEPT ![p][i] = s]
       /\ heard' = [heard EXCEPT ![p][i] = s]

Cancel(p, i) ==
  /\ session[p][i] \in Behaviour[p].cancellable
  /\ session' = [session EXCEPT ![p][i] = "cancelled"]
  /\ heard' = [heard EXCEPT ![p][i] = "cancelled"]

GoOn(p, i) ==
  /\ Behaviour[p].remote
  /\ session[p][i] \in OpenStatus
  /\ \E s \in Status : session' = [session EXCEPT ![p][i] = s]
  /\ UNCHANGED heard

Tell(p, i) ==
  /\ session[p][i] # Null
  /\ heard' = [heard EXCEPT ![p][i] = session[p][i]]
  /\ UNCHANGED session

Restart ==
  /\ session' = [p \in Implementations |->
       IF Behaviour[p].remote THEN session[p] ELSE [i \in SessionIds |-> Null]]
  /\ UNCHANGED heard

Next ==
  \/ \E p \in Implementations, i \in SessionIds :
       Create(p, i) \/ Cancel(p, i) \/ GoOn(p, i) \/ Tell(p, i)
  \/ Restart

Spec == Init /\ [][Next]_contractVars
=============================================================================
