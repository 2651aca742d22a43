----------------------------- MODULE TimeEvents -----------------------------
(***************************************************************************)
(* time_event_t and the functions of Core/Src/API/time_event.c, as         *)
(* operators on a record.  Every state machine of the firmware keeps its   *)
(* timeouts in such records: the main loop starts, stops and tests them,   *)
(* SysTick updates them once a millisecond.                                *)
(*                                                                         *)
(* Here a call is one step.  TimerIsr splits the calls into the stores     *)
(* they are made of and shows that SysTick cannot tell the difference.     *)
(***************************************************************************)
EXTENDS Integers

TimeEvent == [millis_cnt : Nat, active : BOOLEAN, raised : BOOLEAN]

Started(time_ms) == [millis_cnt |-> time_ms, active |-> TRUE, raised |-> FALSE]

Stopped == [millis_cnt |-> 0, active |-> FALSE, raised |-> FALSE]

(* Four faults of time_event_update, for the checks: it raises one tick    *)
(* too soon, counts on below zero, never raises, or updates stopped events.*)
UpdatedTooSoon(te) ==
  CASE ~te.active        -> te
    [] te.active /\ te.millis_cnt > 1 -> [te EXCEPT !.millis_cnt = @ - 1]
    [] OTHER             -> [te EXCEPT !.raised = TRUE]

UpdatedBelowZero(te) ==
  IF te.active THEN [te EXCEPT !.millis_cnt = @ - 1] ELSE te

UpdatedNotRaised(te) ==
  IF te.active /\ te.millis_cnt > 0 THEN [te EXCEPT !.millis_cnt = @ - 1] ELSE te

UpdatedStopped(te) ==
  IF te.millis_cnt > 0 THEN [te EXCEPT !.millis_cnt = @ - 1]
                       ELSE [te EXCEPT !.raised = TRUE]

(* One call of time_event_update: an active event counts down, and the     *)
(* update after the one that reached zero raises it.                       *)
Updated(te) ==
  CASE ~te.active        -> te
    [] te.active /\ te.millis_cnt > 0 -> [te EXCEPT !.millis_cnt = @ - 1]
    [] OTHER             -> [te EXCEPT !.raised = TRUE]
=============================================================================
