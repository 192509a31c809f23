----------------------------- MODULE SetupRecord -----------------------------
(***************************************************************************)
(* What the installer promises of the stored setup: the configuration and  *)
(* the Wi-Fi credentials beside it are one record that an apply replaces   *)
(* as a whole.  An apply that says it is complete has put its own setup    *)
(* there, and one that says it failed has left the setup it found, except  *)
(* that a device without credentials may keep the ones it has just tested. *)
(***************************************************************************)
CONSTANTS Configs, Networks, NoNet

VARIABLES
  record,  \* the setup stored now
  phase,   \* "idle", "applying", "complete" or "failed"
  old,     \* the setup that the last apply found
  goal     \* the setup that it was to install

vars == <<record, phase, old, goal>>
Setups == [config : Configs, wifi : Networks \cup {NoNet}]

Restored == IF old.wifi = NoNet THEN [old EXCEPT !.wifi = goal.wifi] ELSE old

Init == record \in Setups /\ phase = "idle" /\ old = record /\ goal = record

(* Credentials that were not given are the stored ones.                    *)
Begin ==
  /\ phase # "applying"
  /\ \E c \in Configs, w \in Networks \cup {NoNet} :
       goal' = [config |-> c, wifi |-> IF w = NoNet THEN record.wifi ELSE w]
  /\ old' = record /\ phase' = "applying"
  /\ UNCHANGED record

(* An apply that is not started changes nothing either.                    *)
Refuse == phase # "applying" /\ phase' = "failed" /\ UNCHANGED <<record, old, goal>>

Install == phase = "applying" /\ record' = goal /\ UNCHANGED <<phase, old, goal>>
Undo == phase = "applying" /\ record' = Restored /\ UNCHANGED <<phase, old, goal>>

Complete ==
  /\ phase = "applying" /\ record = goal
  /\ phase' = "complete" /\ UNCHANGED <<record, old, goal>>
Fail ==
  /\ phase = "applying" /\ record \in {old, Restored}
  /\ phase' = "failed" /\ UNCHANGED <<record, old, goal>>

Restart == phase' = "idle" /\ UNCHANGED <<record, old, goal>>

Next == Begin \/ Refuse \/ Install \/ Undo \/ Complete \/ Fail \/ Restart
Spec == Init /\ [][Next]_vars
=============================================================================
