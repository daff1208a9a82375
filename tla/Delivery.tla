------------------------------ MODULE Delivery ------------------------------
(***************************************************************************)
(* What the program promises for every file of a share, whatever crashes,  *)
(* errors and restarts happen on the way: the tool takes copies into its   *)
(* custody, and gives them up only when Drive has been seen to hold the    *)
(* file; a file is reported done when it is on Drive and nothing of it is  *)
(* left in custody.  The Drive copy is never removed.                      *)
(***************************************************************************)
CONSTANT File

VARIABLES held,      \* files with bytes in the tool's custody
          onDrive,   \* files Drive holds
          verified,  \* files whose Drive copy has been verified
          done       \* files reported as moved

dvars == <<held, onDrive, verified, done>>

DeliveryInit == held = {} /\ onDrive = {} /\ verified = {} /\ done = {}

Take(S) ==
  /\ held' = held \cup S
  /\ UNCHANGED <<onDrive, verified, done>>

(* Bytes in custody reach Drive.                                           *)
Deliver(f) ==
  /\ f \in held
  /\ onDrive' = onDrive \cup {f}
  /\ UNCHANGED <<held, verified, done>>

Confirm(f) ==
  /\ f \in onDrive \cap held
  /\ verified' = verified \cup {f}
  /\ UNCHANGED <<held, onDrive, done>>

(* Custody ends for verified files only.                                   *)
Release(S) ==
  /\ S \subseteq verified
  /\ held' = held \ S
  /\ UNCHANGED <<onDrive, verified, done>>

(* A file that fails for good is left where it is: in custody.             *)
Abandon(S) ==
  /\ S \subseteq held \ done
  /\ verified' = verified \ S
  /\ UNCHANGED <<held, onDrive, done>>

Finish(S) ==
  /\ S \subseteq verified \ held
  /\ done' = done \cup S
  /\ UNCHANGED <<held, onDrive, verified>>

DeliveryNext ==
  \/ \E S \in SUBSET File : Take(S) \/ Release(S) \/ Abandon(S) \/ Finish(S)
  \/ \E f \in File : Deliver(f) \/ Confirm(f)

DeliverySpec == DeliveryInit /\ [][DeliveryNext]_dvars
=============================================================================
