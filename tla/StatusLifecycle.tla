-------------------------- MODULE StatusLifecycle ---------------------------
(***************************************************************************)
(* What a tenant may rely on about the status of its verifications: the    *)
(* state machine of IDMETA_INTEGRATION_DOCUMENTATION.md ("Verification     *)
(* State Machine"), extended by the direct-processing path, in which a     *)
(* verification is stored with the status its provider already reached.    *)
(* Verifications.tla implements this specification.                        *)
(***************************************************************************)
EXTENDS VerificationStatus

CONSTANTS
  Ids,   \* identifiers of verifications
  None   \* the status of an identifier that is not stored

VARIABLE status   \* [Ids -> Status \cup {None}]

LifecycleTypeOK == status \in [Ids -> Status \cup {None}]

LifecycleInit == status = [v \in Ids |-> None]

\* A verification appears with whatever status its provider reported.
Appear(v) ==
  /\ status[v] = None
  /\ \E s \in Status : status' = [status EXCEPT ![v] = s]

\* The arrows of the state diagram between two statuses.
Arrow(from, to) ==
  \/ from = "pending" /\ to \in {"in_progress", "cancelled", "expired"}
  \/ from = "in_progress" /\ to \in FinalStatus

Move(v) ==
  \E s \in Status :
    /\ status[v] \in OpenStatus
    /\ Arrow(status[v], s)
    /\ status' = [status EXCEPT ![v] = s]

LifecycleNext == \E v \in Ids : Appear(v) \/ Move(v)

LifecycleSpec == LifecycleInit /\ [][LifecycleNext]_status

=============================================================================
