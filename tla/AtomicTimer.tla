---------------------------- MODULE AtomicTimer -----------------------------
(***************************************************************************)
(* What time_event.c promises its callers: starting, stopping and updating *)
(* a time event are indivisible.  TxFsm and RxFsm use the operators of     *)
(* TimeEvents under this promise; TimerIsr implements it.                  *)
(***************************************************************************)
EXTENDS TimeEvents

CONSTANT Durations      \* the time_ms arguments the callers pass

VARIABLE te             \* the time_event_t

Init == te = Stopped

Start(time_ms) == te' = Started(time_ms)
Stop           == te' = Stopped
Tick           == te' = Updated(te)

Next == (\E time_ms \in Durations : Start(time_ms)) \/ Stop \/ Tick

Spec == Init /\ [][Next]_te
=============================================================================
