---- MODULE TickCount ----
(***************************************************************************)
(* What the components of a process share: its threads and GetTickCount,   *)
(* a DWORD of milliseconds that wraps every 49.7 days.                     *)
(***************************************************************************)
EXTENDS Integers

CONSTANTS Callers,   \* threads
          None,      \* no thread: a critical section is free
          Wrap       \* the number of values of the tick count

ASSUME CallersAssumption == None \notin Callers
ASSUME WrapAssumption == Wrap \in Nat \ {0}

VARIABLE clock       \* GetTickCount

ClockInit == clock \in 0..(Wrap - 1)
NextTick == clock' = (clock + 1) % Wrap
ClockTypeOK == clock \in 0..(Wrap - 1)
====
