--------------------------- MODULE TimerIsr_proof ---------------------------
(***************************************************************************)
(* Proofs about TimerIsr, for every set of durations.  Inv says, for each  *)
(* point of a call, how far the stores have got and what a tick may have   *)
(* done to the count meanwhile; the properties follow from it.             *)
(***************************************************************************)
EXTENDS TimerIsr, TLAPS

CallsInv ==
  /\ pc \in {"stop_raised", "stop_millis"} => ~te.active
  /\ pc = "stop_millis" => ~te.raised
  /\ pc = "start_raised" => te.active
  /\ pc = "start_active" /\ ~te.active => te.millis_cnt = asked

(* Inside time_event_start the tick that may still come finds a count to   *)
(* take one from, because no duration is zero.                             *)
CountInv ==
  /\ pc \in {"start_active", "start_raised"} => asked \in Durations
  /\ pc \in {"start_active", "start_raised"} => te.millis_cnt + age = asked
  /\ pc \in {"start_active", "start_raised"} /\ ~ticked => te.millis_cnt > 0

IdleInv ==
  /\ pc = "idle" => ~ticked
  /\ pc = "idle" /\ ~te.active => ~te.raised /\ te.millis_cnt = 0
  /\ pc = "idle" /\ te.active /\ te.raised => te.millis_cnt = 0 /\ age = asked + 1
  /\ pc = "idle" /\ te.active /\ ~te.raised => te.millis_cnt + age = asked

Inv == TypeOK /\ CallsInv /\ CountInv /\ IdleInv

-----------------------------------------------------------------------------

LEMMA InitInv == Init => Inv
<1> SUFFICES ASSUME Init PROVE Inv
  OBVIOUS
<1>1. te.millis_cnt = 0 /\ ~te.active /\ ~te.raised
  BY DEF Init, Stopped
<1>2. TypeOK
  <2>1. te \in TimeEvent
    BY DEF Init, Stopped, TimeEvent
  <2>2. ticked \in BOOLEAN
    BY DEF Init
  <2>3. QED
    BY <2>1, <2>2 DEF Init, TypeOK
<1>3. CallsInv /\ CountInv /\ IdleInv
  BY <1>1 DEF Init, CallsInv, CountInv, IdleInv
<1>4. QED
  BY <1>2, <1>3 DEF Inv

LEMMA StepInv == Inv /\ [Next]_vars => Inv'
<1> USE DurationsAssumption
<1> SUFFICES ASSUME Inv, [Next]_vars PROVE Inv'
  OBVIOUS
<1> USE DEF Inv, TypeOK, CallsInv, CountInv, IdleInv, TimeEvent
<1>1. ASSUME NEW time_ms \in Durations, StartMillis(time_ms) PROVE Inv'
  <2>1. time_ms \in Nat \ {0}
    OBVIOUS
  <2>2. te'.millis_cnt = time_ms /\ te'.active = te.active /\ te'.raised = te.raised
    BY <1>1 DEF StartMillis
  <2>3. ticked' \in BOOLEAN /\ te' \in TimeEvent
    BY <1>1, <2>1 DEF StartMillis
  <2>4. (CallsInv /\ CountInv /\ IdleInv)'
    BY <1>1, <2>1, <2>2 DEF StartMillis
  <2>5. QED
    BY <1>1, <2>1, <2>3, <2>4 DEF StartMillis
<1>2. CASE StartActive
  BY <1>2 DEF StartActive
<1>3. CASE StartRaised
  BY <1>3 DEF StartRaised
<1>4. CASE StopActive
  BY <1>4 DEF StopActive
<1>5. CASE StopRaised
  BY <1>5 DEF StopRaised
<1>6. CASE StopMillis
  BY <1>6 DEF StopMillis
<1>7. CASE SysTick
  <2> ticked' \in BOOLEAN
    BY <1>7 DEF SysTick
  <2>1. CASE ~te.active
    BY <1>7, <2>1 DEF SysTick, Updated
  <2>2. CASE te.active /\ te.millis_cnt > 0
    BY <1>7, <2>2 DEF SysTick, Updated
  <2>3. CASE te.active /\ te.millis_cnt = 0
    <3>1. te' = [te EXCEPT !.raised = TRUE]
      BY <1>7, <2>3 DEF SysTick, Updated
    <3>2. pc = "idle" /\ ~ticked'
      BY <1>7, <2>3 DEF SysTick
    <3>3. te' \in TimeEvent /\ te'.active /\ te'.raised /\ te'.millis_cnt = 0
      BY <2>3, <3>1
    <3>4. age' = asked + 1 /\ asked' = asked /\ pc' = pc
      BY <1>7, <2>3, <3>2 DEF SysTick
    <3>5. QED
      BY <3>2, <3>3, <3>4
  <2>4. QED
    BY <2>1, <2>2, <2>3
<1>8. CASE UNCHANGED vars
  BY <1>8 DEF vars
<1>9. QED
  BY <1>1, <1>2, <1>3, <1>4, <1>5, <1>6, <1>7, <1>8 DEF Next, Call

LEMMA Invariance == Spec => []Inv
BY InitInv, StepInv, PTL DEF Spec

-----------------------------------------------------------------------------

(* time_event.c: whatever stores SysTick falls between, the event keeps    *)
(* values of its type; millis_cnt-- is never executed on a zero count.     *)
THEOREM TypeCorrect == Spec => []TypeOK
<1>1. Inv => TypeOK
  BY DEF Inv
<1>2. QED
  BY <1>1, Invariance, PTL

(* time_event.c: a time event is raised by the update that follows the     *)
(* requested number of milliseconds, for every duration.                   *)
THEOREM AlwaysPunctual == Spec => []Punctual
<1>1. Inv => Punctual
  BY DurationsAssumption
     DEF Inv, Punctual, IdleInv, TypeOK, TimeEvent
<1>2. QED
  BY <1>1, Invariance, PTL

(* time_event_is_raised need not test active: a stopped event reads as not *)
(* raised whenever the main loop can look at it.                           *)
THEOREM StoppedReadsFalse == Spec => []StoppedNotRaised
<1>1. Inv => StoppedNotRaised
  BY DEF Inv, StoppedNotRaised, IdleInv
<1>2. QED
  BY <1>1, Invariance, PTL

-----------------------------------------------------------------------------

LEMMA InitAtomic == Init => Atomic!Init
<1> SUFFICES ASSUME Init PROVE Seen = Atomic!Stopped
  BY DEF Atomic!Init
<1>1. te.millis_cnt = 0 /\ te.active = FALSE /\ te.raised = FALSE /\ pc = "idle"
  BY DEF Init, Stopped
<1>2. (te.raised /\ pc \in {"idle", "stop_millis"}) = FALSE
  BY <1>1
<1>3. QED
  BY <1>1, <1>2, Zenon DEF Seen, Atomic!Stopped

LEMMA StepAtomic == Inv /\ [Next]_vars => [Atomic!Next]_Seen
<1> USE DurationsAssumption
<1> SUFFICES ASSUME Inv, [Next]_vars PROVE [Atomic!Next]_Seen
  OBVIOUS
<1> USE DEF Inv, TypeOK, CallsInv, CountInv, IdleInv, TimeEvent, Seen
<1>1. ASSUME NEW time_ms \in Durations, StartMillis(time_ms)
      PROVE  Atomic!Start(time_ms) \/ UNCHANGED Seen
  <2>1. CASE te.active
    BY <1>1, <2>1 DEF StartMillis, Atomic!Start, Atomic!Started
  <2>2. CASE ~te.active
    BY <1>1, <2>2 DEF StartMillis
  <2>3. QED
    BY <2>1, <2>2
<1>2. ASSUME StartActive
      PROVE  Atomic!Start(asked) \/ UNCHANGED Seen
  <2>1. CASE te.active
    BY <1>2, <2>1 DEF StartActive
  <2>2. CASE ~te.active
    BY <1>2, <2>2 DEF StartActive, Atomic!Start, Atomic!Started
  <2>3. QED
    BY <2>1, <2>2
<1>3. CASE StartRaised
  BY <1>3 DEF StartRaised
<1>4. ASSUME StopActive PROVE Atomic!Stop
  BY <1>4 DEF StopActive, Atomic!Stop, Atomic!Stopped
<1>5. CASE StopRaised
  BY <1>5 DEF StopRaised
<1>6. CASE StopMillis
  BY <1>6 DEF StopMillis
<1>7. ASSUME SysTick PROVE Atomic!Tick
  BY <1>7 DEF SysTick, Updated, Atomic!Tick, Atomic!Updated
<1>8. CASE UNCHANGED vars
  BY <1>8 DEF vars
<1>9. ASSUME StartActive PROVE asked \in Durations
  BY <1>9 DEF StartActive
<1>10. QED
  BY <1>1, <1>2, <1>3, <1>4, <1>5, <1>6, <1>7, <1>8, <1>9 DEF Next, Call, Atomic!Next

(* time_event.c implements AtomicTimer without masking SysTick: a caller   *)
(* cannot tell the interleaved stores from indivisible calls.              *)
THEOREM ImplementsAtomic == Spec => AtomicSpec
BY InitAtomic, StepAtomic, Invariance, PTL DEF Spec, AtomicSpec, Atomic!Spec

=============================================================================
