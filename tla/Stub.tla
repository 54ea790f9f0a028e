---------------------------------- MODULE Stub ---------------------------------
(***************************************************************************)
(* interruptstubs.s: what one interrupt leaves on the stack and takes off  *)
(* it again, word by word.  A register's value is its own name, as it was  *)
(* when the interrupt came; iret and the pops then show whose word each    *)
(* register ends up with.  The stack grows at the head of the sequence.    *)
(***************************************************************************)
EXTENDS Integers, Sequences, SequencesExt

CONSTANTS
  Vectors,    \* the vectors that come
  WithCode,   \* those, below IrqBase, for which the processor pushes a code
  IrqBase,    \* IRQ_BASE: the vectors from here on are interrupt requests
  Below       \* the words of the interrupted code that lie below the frame

VARIABLES
  pc,        \* "running", then the stages of the stub
  vector,    \* the vector that came
  stack,     \* the words on the stack, the last pushed first
  register,  \* the registers
  frame      \* esp as HandleInterrupt gets it: the number of words below

vars == <<pc, vector, stack, register, frame>>

Segments == {"ds", "es", "fs", "gs"}
Registers == {"eax", "ecx", "edx", "ebx", "ebp", "esi", "edi"}
             \cup Segments \cup {"eip", "cs", "eflags"}

Running == [r \in Registers |-> r]

Init ==
  /\ pc = "running"
  /\ vector = 0
  /\ stack = Below
  /\ register = Running
  /\ frame = 0

\* Push the values of the registers named, from left to right.
Push(names, words) ==
  Reverse([n \in DOMAIN names |-> register[names[n]]]) \o words

\* The processor pushes eflags, cs, eip and, for some exceptions, a code; the
\* entry of a request pushes a zero, the entry of an exception nothing.
Enter(v) ==
  /\ pc = "running"
  /\ pc' = "stub"
  /\ vector' = v
  /\ stack' = (IF v \in WithCode THEN <<"code">>
               ELSE IF v >= IrqBase THEN <<"zero">> ELSE <<>>)
              \o Push(<<"eflags", "cs", "eip">>, stack)
  /\ UNCHANGED <<register, frame>>

\* pushal keeps esp as well, which popal leaves alone.
PushAll(words) ==
  Push(<<"ebp", "esi", "edi">>,
       <<"esp">> \o Push(<<"eax", "ecx", "edx", "ebx">>, words))

\* int_bottom up to the call of HandleInterrupt.
Save ==
  /\ pc = "stub"
  /\ pc' = "handler"
  /\ stack' = Push(<<"ds", "es", "fs", "gs", "ebp", "edi", "esi",
                     "edx", "ecx", "ebx", "eax">>, PushAll(stack))
  /\ frame' = Len(stack')
  /\ register' = [register EXCEPT !["eax"] = "0x10", !["ds"] = "0x10",
                                  !["es"] = "0x10"]
  /\ UNCHANGED vector

\* HandleInterrupt may use every register; it returns esp.
Handler ==
  /\ pc = "handler"
  /\ pc' = "return"
  /\ register' = [r \in Registers |-> "clobbered"]
  /\ UNCHANGED <<vector, stack, frame>>

\* The registers after the pops of `names`, from the stack's head on.
Pop(names, words, registers) ==
  [r \in Registers |->
     IF \E n \in DOMAIN names : names[n] = r
       THEN words[CHOOSE n \in DOMAIN names : names[n] = r]
       ELSE registers[r]]

Popped == <<"eax", "ebx", "ecx", "edx", "esi", "edi", "ebp",
            "gs", "fs", "es", "ds">>
PoppedAll == <<"edi", "esi", "ebp", "esp", "ebx", "edx", "ecx", "eax">>

\* add $8, %esp: the words that are dropped before iret.
Dropped == 2

\* The switch of the stack, the pops, popal, the dropped words and iret.
Return ==
  /\ pc = "return"
  /\ pc' = "resumed"
  /\ LET esp == SubSeq(stack, Len(stack) - frame + 1, Len(stack))
         all == SubSeq(esp, Len(Popped) + 1, Len(esp))
         ret == SubSeq(all, Len(PoppedAll) + Dropped + 1, Len(all))
     IN  /\ register' = Pop(<<"eip", "cs", "eflags">>, ret,
                            Pop(PoppedAll, all, Pop(Popped, esp, register)))
         /\ stack' = SubSeq(ret, 4, Len(ret))
  /\ UNCHANGED <<vector, frame>>

Resumed == pc = "resumed" /\ UNCHANGED vars

Next ==
  \/ \E v \in Vectors : Enter(v)
  \/ Save \/ Handler \/ Return \/ Resumed

Spec == Init /\ [][Next]_vars

--------------------------------------------------------------------------------
(* What the declarations of the code say, and the code does not do *)

\* "uint32_t interruptNum; uint32_t errorCode; uint32_t eip;": two words lie
\* between the registers and the interrupted code's eip, the two that the stub
\* drops, so that iret goes back to it (interrupts.h:49-51,
\* interruptstubs.s:109).
ReturnsToInterrupted ==
  pc = "resumed" => register = Running /\ stack = Below
================================================================================
