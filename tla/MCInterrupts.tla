------------------------------ MODULE MCInterrupts -----------------------------
(* The timer, the keyboard and the mouse; two handlers for the keyboard. *)
EXTENDS Interrupts

CONSTANTS m1, m2, keyboard, keyboard2

MCLines == {0, 1, 12}
MCManagers == {m1, m2}
MCDevices == {keyboard, keyboard2}
MCVectorFor == [d \in MCDevices |-> 33]
================================================================================
