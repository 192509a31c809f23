---------------------------- MODULE WindSchedule ----------------------------
(***************************************************************************)
(* The pure part of firmware/main/wind_schedule.c: which forecast boundary *)
(* is the latest one, whether it is due, when the next attempt is, and how *)
(* the schedule record of one spot changes.                                *)
(*                                                                         *)
(* Time is a natural number of ticks.  The local wall-clock boundaries     *)
(* (00:05, 07:00, 11:00, 15:00, 19:00, converted to Unix time through the  *)
(* spot's timezone) are the constant set Boundaries, so that uneven        *)
(* spacing and daylight-saving shifts are instances of the constant.       *)
(***************************************************************************)
EXTENDS Naturals

CONSTANTS
  Boundaries,   \* Unix times of the forecast boundaries
  Start,        \* the clock at first boot
  MaxNow        \* the clock is only modelled up to this instant

ASSUME ClockAssumption == MaxNow \in Nat /\ Start \in 1..MaxNow

(* The latest and the next boundary of every modelled instant; 0 means     *)
(* "none" in the record and is no boundary.                                *)
IsLatest(b, t) == b <= t /\ \A c \in Boundaries : c <= t => c <= b
IsNext(b, t)   == b > t  /\ \A c \in Boundaries : c > t  => b <= c

ASSUME BoundariesAssumption ==
  /\ Boundaries \subseteq Nat \ {0}
  /\ \A t \in Start..MaxNow : /\ \E b \in Boundaries : IsLatest(b, t)
                             /\ \E b \in Boundaries : IsNext(b, t)

(* wind_schedule_state_t without its scope; 0 stands for "unset". *)
Schedule == [ attempted : Nat, satisfied : Nat,
              retryBoundary : Nat, retryAt : Nat, finalAt : Nat ]

EmptySchedule == [ attempted |-> 0, satisfied |-> 0,
                   retryBoundary |-> 0, retryAt |-> 0, finalAt |-> 0 ]

LatestBoundary(t) == CHOOSE b \in Boundaries : IsLatest(b, t)
NextBoundary(t)   == CHOOSE b \in Boundaries : IsNext(b, t)

(* An overdue retry is attempted now; a retry never delays a boundary. *)
NextAttempt(s, t) ==
  IF s.retryAt > 0 /\ s.retryAt < NextBoundary(t)
  THEN IF s.retryAt > t THEN s.retryAt ELSE t
  ELSE NextBoundary(t)

IsDue(s, t) ==
  /\ LatestBoundary(t) > s.attempted
  /\ LatestBoundary(t) > s.satisfied

RetryIsDue(s, t) == s.retryAt > 0 /\ s.retryAt <= t

MarkAttempted_once(s, b) ==
  IF s.attempted = 0 THEN [s EXCEPT !.attempted = b] ELSE s

MarkAttempted(s, b) ==
  IF b > s.attempted THEN [s EXCEPT !.attempted = b] ELSE s

MarkSatisfied(s, b) ==
  IF b > s.satisfied THEN [s EXCEPT !.satisfied = b] ELSE s

ScheduleRetry(s, b, at) ==
  IF b > 0 /\ at > 0
  THEN [s EXCEPT !.retryBoundary = b, !.retryAt = at, !.finalAt = 0]
  ELSE s

ConsumeRetry(s) == [s EXCEPT !.retryBoundary = 0, !.retryAt = 0, !.finalAt = 0]
=============================================================================
