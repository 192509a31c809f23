----------------------------- MODULE UpdateTrack -----------------------------
(***************************************************************************)
(* What an over-the-air update promises the owner of a device: one release *)
(* at a time is tried on top of the one that works, it replaces that one   *)
(* once it has proved itself, and one that was dropped is not tried again. *)
(***************************************************************************)
EXTENDS Naturals

CONSTANT MaxRelease

VARIABLES good, trial, rejected

trackVars == <<good, trial, rejected>>

Releases == 1..MaxRelease

TrackInit == good \in Releases /\ trial = 0 /\ rejected = {}

Try(r) ==
  /\ trial = 0
  /\ r > good /\ r \notin rejected
  /\ trial' = r
  /\ UNCHANGED <<good, rejected>>

Accept ==
  /\ trial # 0
  /\ good' = trial /\ trial' = 0
  /\ UNCHANGED rejected

Reject ==
  /\ trial # 0
  /\ rejected' = rejected \cup {trial} /\ trial' = 0
  /\ UNCHANGED good

TrackNext == Accept \/ Reject \/ \E r \in Releases : Try(r)

(* Updates never lose the working release, never go back and never repeat  *)
(* a release that was dropped: wind_ota.c and firmware/README.md:90-93.    *)
TrackSpec == TrackInit /\ [][TrackNext]_trackVars
=============================================================================
