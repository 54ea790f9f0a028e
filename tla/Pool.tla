--------------------------------- MODULE Pool ---------------------------------
(***************************************************************************)
(* What an allocator promises its clients, whatever its data structures: a *)
(* block it gives out lies in its memory, shares no word with a block a    *)
(* client still holds, and stays where it is until it is freed.  The       *)
(* promise ends when `broken` becomes TRUE.                                *)
(***************************************************************************)
EXTENDS Integers

CONSTANTS
  Memory,    \* the words the allocator may give out
  Requests   \* the sizes clients ask for

VARIABLES
  live,      \* the blocks clients hold, as [ptr, size]
  stopped,   \* "" or why no more requests are served
  broken     \* whether the promise has ended

vars == <<live, stopped, broken>>

Words(b) == b.ptr .. b.ptr + b.size - 1

Init == live = {} /\ stopped = "" /\ broken = FALSE

Alloc(size) ==
  /\ stopped = "" /\ ~broken
  /\ \E ptr \in Memory :
       LET block == [ptr |-> ptr, size |-> size] IN
       /\ Words(block) \subseteq Memory
       /\ \A b \in live : Words(b) \cap Words(block) = {}
       /\ live' = live \cup {block}
  /\ UNCHANGED <<stopped, broken>>

Free(b) ==
  /\ stopped = "" /\ ~broken
  /\ live' = live \ {b}
  /\ UNCHANGED <<stopped, broken>>

Stop(why) ==
  /\ stopped = "" /\ ~broken
  /\ stopped' = why
  /\ UNCHANGED <<live, broken>>

Next ==
  \/ \E size \in Requests : Alloc(size)
  \/ \E b \in live : Free(b)
  \/ \E why \in {"panic", "pageFault"} : Stop(why)
  \/ broken'

Spec == Init /\ [][Next]_vars

Disjoint ==
  ~broken => \A b, c \in live : b # c => Words(b) \cap Words(c) = {}
================================================================================
