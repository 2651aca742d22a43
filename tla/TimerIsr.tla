------------------------------ MODULE TimerIsr ------------------------------
(***************************************************************************)
(* One time_event_t, shared by the main loop and SysTick without a lock.   *)
(*                                                                         *)
(* The Debug build is compiled without optimisation, so the stores of      *)
(* time_event_start and time_event_stop happen one by one in program order *)
(* and HAL_SYSTICK_Callback may run between any two of them.  The callback *)
(* itself is one step: SysTick and USART2 have the same priority and the   *)
(* main loop cannot preempt either.                                        *)
(*                                                                         *)
(* A call lasts a few instructions and SysTick comes once a millisecond,   *)
(* so a call is interrupted at most once (ticked).                         *)
(***************************************************************************)
EXTENDS TimeEvents

CONSTANT Durations      \* the time_ms arguments the callers pass

(* 30, 5 and 50 ms are passed, and payload_len ms when payload_len > 0:    *)
(* no caller starts a time event with 0.                                   *)
ASSUME DurationsAssumption == Durations \subseteq Nat \ {0}

VARIABLES
  te,       \* the time_event_t
  pc,       \* the next store of the call in progress, or "idle"
  ticked,   \* SysTick has interrupted that call
  asked,    \* history: time_ms of the last start
  age       \* history: updates since that start took effect, to asked + 1

vars == <<te, pc, ticked, asked, age>>

Init ==
  /\ te = Stopped
  /\ pc = "idle" /\ ticked = FALSE
  /\ asked = 0 /\ age = 0

-----------------------------------------------------------------------------
(* time_event_start *)

StartMillis(time_ms) ==
  /\ pc = "idle"
  /\ te' = [te EXCEPT !.millis_cnt = time_ms]
  /\ pc' = "start_active" /\ ticked' = FALSE
  /\ asked' = time_ms /\ age' = 0

StartActive ==
  /\ pc = "start_active"
  /\ te' = [te EXCEPT !.active = TRUE]
  /\ pc' = "start_raised"
  /\ UNCHANGED <<ticked, asked, age>>

(* A fault: the call leaves raised as the last run of the event left it.   *)
StartRaisedForgotten ==
  /\ pc = "start_raised"
  /\ pc' = "idle" /\ ticked' = FALSE
  /\ UNCHANGED <<te, asked, age>>

StartRaised ==
  /\ pc = "start_raised"
  /\ te' = [te EXCEPT !.raised = FALSE]
  /\ pc' = "idle" /\ ticked' = FALSE
  /\ UNCHANGED <<asked, age>>

-----------------------------------------------------------------------------
(* time_event_stop *)

StopActive ==
  /\ pc = "idle"
  /\ te' = [te EXCEPT !.active = FALSE]
  /\ pc' = "stop_raised" /\ ticked' = FALSE
  /\ UNCHANGED <<asked, age>>

StopRaised ==
  /\ pc = "stop_raised"
  /\ te' = [te EXCEPT !.raised = FALSE]
  /\ pc' = "stop_millis"
  /\ UNCHANGED <<ticked, asked, age>>

StopMillis ==
  /\ pc = "stop_millis"
  /\ te' = [te EXCEPT !.millis_cnt = 0]
  /\ pc' = "idle" /\ ticked' = FALSE
  /\ UNCHANGED <<asked, age>>

-----------------------------------------------------------------------------
(* HAL_SYSTICK_Callback: time_event_update *)

SysTick ==
  /\ ~ticked
  /\ te' = Updated(te)
  /\ ticked' = (pc # "idle")
  /\ age' = IF te.active /\ age <= asked THEN age + 1 ELSE age
  /\ UNCHANGED <<pc, asked>>

-----------------------------------------------------------------------------

Call == StartActive \/ StartRaised \/ StopRaised \/ StopMillis

Next ==
  \/ \E time_ms \in Durations : StartMillis(time_ms)
  \/ StopActive
  \/ Call
  \/ SysTick

Spec == Init /\ [][Next]_vars

(* The main loop finishes the calls it begins, and SysTick keeps coming.   *)
Fairness == WF_vars(Call) /\ WF_vars(SysTick)

FairSpec == Spec /\ Fairness

-----------------------------------------------------------------------------
(* Properties *)

(* A time event holds values of its C type, and the count of the history   *)
(* variables stays in step: in particular millis_cnt-- never wraps below   *)
(* zero, whatever store SysTick falls between.                             *)
TypeOK ==
  /\ te \in TimeEvent
  /\ pc \in {"idle", "start_active", "start_raised", "stop_raised", "stop_millis"}
  /\ ticked \in BOOLEAN
  /\ asked \in Nat
  /\ age \in Nat /\ age <= asked + 1

(* A running time event is raised by the update after the asked number of  *)
(* milliseconds, never earlier and never later: no interruption of         *)
(* time_event_start loses or gains a tick.                                 *)
Punctual ==
  te.active /\ pc = "idle" => (te.raised <=> age > asked)

(* The state machines test raised alone (time_event_is_raised does not     *)
(* look at active): outside the calls, a stopped event is not raised.      *)
StoppedNotRaised ==
  ~te.active /\ pc = "idle" => ~te.raised

(* A time event that is left running is raised.                            *)
Fires ==
  (te.active /\ pc = "idle") ~> (te.raised \/ pc # "idle")

(* What a caller can see of the event: the stores a call has not made yet  *)
(* count as made.  A start takes effect when active is set, or at its      *)
(* first store if the event was running; a stop takes effect at once.      *)
Seen ==
  [millis_cnt |-> IF ~te.active /\ pc # "idle" THEN 0 ELSE te.millis_cnt,
   active     |-> te.active,
   raised     |-> te.raised /\ pc \in {"idle", "stop_millis"}]

Atomic == INSTANCE AtomicTimer WITH te <- Seen

(* time_event_start, time_event_stop and time_event_update, interleaved    *)
(* store by store, are indistinguishable from indivisible calls.           *)
AtomicSpec == Atomic!Spec

=============================================================================
