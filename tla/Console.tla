--------------------------------- MODULE Console --------------------------------
(***************************************************************************)
(* The console: kernelMain prints, load by load and store by store, while  *)
(* the keyboard's interrupt prints too; both use the one cursor.  A text   *)
(* is the sequence of the operations that printing it makes; which         *)
(* characters it shows is left out.  `stack` holds the texts being         *)
(* printed: a handler's, which is printed with interrupts off, lies on top *)
(* of kernelMain's.                                                        *)
(***************************************************************************)
EXTENDS Integers, Sequences, SequencesExt, Functions

CONSTANTS
  Cols, Rows,     \* the window (80 and 25)
  Numbers,        \* the numbers that printf(int) is asked to print
  Samples,        \* the numbers that itoa is tried on
  MaxInterrupts   \* bound: how many keys are pressed

ASSUME ConsoleAssumption ==
  /\ Cols \in Nat \ {0} /\ Rows \in Nat \ {0}
  /\ Numbers \subseteq Int /\ Samples \subseteq Int /\ MaxInterrupts \in Nat

--------------------------------------------------------------------------------
(* Texts *)

Do(op) == <<op>>
Char == Do("char")
NewLine == Do("newline")
Chars(n) == [k \in 1 .. n |-> "char"]

\* The two digits of a byte.
PrintfHex == Chars(2)

\* Division in C rounds towards zero.
CDiv(a, b) == IF a >= 0 THEN a \div b ELSE -((-a) \div b)
CMod(a, b) == a - b * CDiv(a, b)

\* The character of a remainder in itoa's table is its distance from the middle.
DigitOf(remainder) == IF remainder < 0 THEN -remainder ELSE remainder

Sign == -1

\* The digits of itoa, the last one first, until the value is 0.
Digits[value \in Int] ==
  IF CDiv(value, 10) = 0 THEN <<DigitOf(CMod(value, 10))>>
  ELSE <<DigitOf(CMod(value, 10))>> \o Digits[CDiv(value, 10)]

\* An itoa that swaps up to and including the sign.
ItoaSwapsAll(value) ==
  LET sign == IF value < 0 THEN <<Sign>> ELSE <<>>
  IN  Reverse(sign \o Digits[value])

\* itoa(value, str, 10): the digits are swapped in place, the sign stays.
Itoa(value) ==
  LET sign == IF value < 0 THEN <<Sign>> ELSE <<>>
  IN  sign \o Reverse(Digits[value])

\* printf(int) has itoa write at address 0, and then prints what is there.
PrintInt(value) ==
  Do("itoa") \o Chars(Len(Itoa(value)))

\* A word in brackets, in a colour of its own.
Word(colour) ==
  Do("gray") \o Char \o Do(colour) \o Char \o Do("gray") \o Char

SysMsg(text) == Word("yellow") \o text \o NewLine

\* panic and panic_assert switch interrupts off and loop in the end.
Panic(text) == Do("cli") \o Word("red") \o text \o NewLine \o Do("loop")
PanicAssert(line) ==
  Do("cli") \o Word("red") \o Char \o NewLine \o Char \o PrintInt(line) \o NewLine
  \o Do("loop")

\* The page fault handler prints the address, the stack and three constants.
PageFaultText == NewLine \o Char \o PrintfHex \o Panic(Char)

\* The keyboard's handler prints the code of the key.
KeyText == Char \o PrintfHex

\* kernelMain: the number of modules, a message, paging, the test of the heap.
\* What precedes Activate is printed with interrupts off in the code; here a
\* key may come throughout, so that any text of the kernel meets a handler's.
KernelText(n) ==
  PrintInt(n) \o SysMsg(<<>>) \o Do("paging")
  \o NewLine \o Char \o NewLine

--------------------------------------------------------------------------------
VARIABLES
  x, y, colour,   \* x, y and consoleColor
  stack,          \* the texts, where each is, and its registers
  number,         \* what kernelMain prints with printf(int)
  paged,          \* paging is on, and page 0 is not present
  enabled,        \* the interrupt flag
  keys,           \* how many keys have been pressed
  fresh,          \* history: the cells written since the screen was cleared
  lost,           \* history: how many characters were written over
  beyond          \* history: a character was written too far off the screen

cursor == <<x, y>>
marks == <<fresh, lost, beyond>>
rest == <<number, paged, enabled, keys>>
vars == <<cursor, colour, stack, rest, marks>>

Context(text) ==
  [text |-> text, next |-> 1, pc |-> "fetch", x |-> 0, y |-> 0, tmp |-> 0]

Init ==
  /\ x = 0 /\ y = 0 /\ colour = "gray"
  /\ number \in Numbers
  /\ stack = <<Context(KernelText(number))>>
  /\ paged = FALSE /\ enabled = TRUE /\ keys = 0
  /\ fresh = {} /\ lost = 0 /\ beyond = FALSE

Top == Last(stack)
Becomes(context) == stack' = Append(Front(stack), context)
Goto(place) == Becomes([Top EXCEPT !.pc = place])

Fetching == Top.pc = "fetch"
Printing == Top.next <= Len(Top.text)
Op == Top.text[Top.next]
Stopped == Fetching /\ Printing /\ Op = "loop"

--------------------------------------------------------------------------------
(* The steps of printf and ClearScreen *)

Cell(column, row) == Cols * row + column

\* The window, and one row more.
Near(cell) == cell <= Cols * (Rows + 1)

\* A test that expects the cursor to move by one.
AtEdgeExactly(column) == column = Cols

AtEdge(column) == column >= Cols

\* A test that lets a row below the window through.
BelowWindowLate(row) == row > Rows

BelowWindow(row) == row >= Rows

\* What follows a step that makes no choice: in a newline, a character, the wrap
\* at the edge, and ClearScreen, whose loops count with the cursor itself.
Following ==
  [nl0 |-> "nl1", nl1 |-> "nl2", nl2 |-> "edge",
   put0 |-> "put1", put1 |-> "put2", put2 |-> "put3", put3 |-> "put4",
   put4 |-> "edge",
   wrap0 |-> "wrap1", wrap1 |-> "wrap2", wrap2 |-> "bottom",
   clear |-> "row", row0 |-> "column",
   blank0 |-> "blank1", blank1 |-> "blank2", blank2 |-> "blank3",
   blank3 |-> "blank4", blank4 |-> "column",
   row1 |-> "row2", row2 |-> "row",
   home0 |-> "home1", home1 |-> "done"]

At(places) == Top.pc \in places
Advance == Goto(Following[Top.pc])

ZeroX ==
  /\ At({"nl0", "wrap0", "row0", "home0"})
  /\ x' = 0 /\ Advance
  /\ UNCHANGED <<y, colour, rest, marks>>

\* The screen starts anew when ClearScreen starts.
ZeroY ==
  /\ At({"clear", "home1"})
  /\ y' = 0 /\ Advance
  /\ fresh' = IF Top.pc = "clear" THEN {} ELSE fresh
  /\ UNCHANGED <<x, colour, rest, lost, beyond>>

\* y++, and the row of a cell: y is loaded, ...
LoadY ==
  /\ At({"nl1", "wrap1", "row1", "put0", "blank0"})
  /\ Becomes([Top EXCEPT !.y = y, !.pc = Following[Top.pc]])
  /\ UNCHANGED <<cursor, colour, rest, marks>>

\* ... and stored, whatever has become of it in between.
StoreY ==
  /\ At({"nl2", "wrap2", "row2"})
  /\ y' = Top.y + 1 /\ Advance
  /\ UNCHANGED <<x, colour, rest, marks>>

LoadX ==
  /\ At({"put3", "blank3"})
  /\ Becomes([Top EXCEPT !.x = x, !.pc = Following[Top.pc]])
  /\ UNCHANGED <<cursor, colour, rest, marks>>

\* An x++ that stores what it has loaded.
StoreXUnmoved ==
  /\ At({"put4", "blank4"})
  /\ x' = Top.x /\ Advance
  /\ UNCHANGED <<y, colour, rest, marks>>

StoreX ==
  /\ At({"put4", "blank4"})
  /\ x' = Top.x + 1 /\ Advance
  /\ UNCHANGED <<y, colour, rest, marks>>

\* tmp = videoMemory + (80 * y + x)
Address ==
  /\ At({"put1", "blank1"})
  /\ Becomes([Top EXCEPT !.tmp = Cell(x, Top.y), !.pc = Following[Top.pc]])
  /\ UNCHANGED <<cursor, colour, rest, marks>>

\* *tmp = str[i], or a blank of ClearScreen's.
Write ==
  /\ At({"put2", "blank2"}) /\ Advance
  /\ fresh' = IF Top.pc = "put2" THEN fresh \cup {Top.tmp} ELSE fresh \ {Top.tmp}
  /\ lost' = IF Top.tmp \in fresh THEN lost + 1 ELSE lost
  /\ beyond' = (beyond \/ ~Near(Top.tmp))
  /\ UNCHANGED <<cursor, colour, rest>>

\* The tests of printf and of ClearScreen's loops, and the end of a character.
Test ==
  /\ \/ At({"edge"}) /\ Goto(IF AtEdge(x) THEN "wrap0" ELSE "bottom")
     \/ At({"bottom"}) /\ Goto(IF BelowWindow(y) THEN "clear" ELSE "done")
     \/ At({"row"}) /\ Goto(IF BelowWindow(y) THEN "home0" ELSE "row0")
     \/ At({"column"}) /\ Goto(IF AtEdge(x) THEN "row1" ELSE "blank0")
     \/ At({"done"}) /\ Becomes([Top EXCEPT !.next = @ + 1, !.pc = "fetch"])
  /\ UNCHANGED <<cursor, colour, rest, marks>>

--------------------------------------------------------------------------------
(* The operations of a text *)

\* A character is printed step by step.
Begin ==
  /\ Fetching /\ Printing
  /\ \/ Op = "newline" /\ Goto("nl0")
     \/ Op = "char" /\ Goto("put0")
  /\ UNCHANGED <<cursor, colour, rest, marks>>

SetColour ==
  /\ Fetching /\ Printing
  /\ Op \in {"gray", "red", "yellow"}
  /\ colour' = Op /\ Goto("done")
  /\ UNCHANGED <<cursor, rest, marks>>

\* itoa writes to page 0.  Once that is not present the page fault's handler
\* prints its own message and panics.
WriteItoa ==
  /\ Fetching /\ Printing /\ Op = "itoa"
  /\ IF paged
       THEN stack' = Append(stack, Context(PageFaultText)) /\ enabled' = FALSE
       ELSE Goto("done") /\ UNCHANGED enabled
  /\ UNCHANGED <<cursor, colour, number, paged, keys, marks>>

Control ==
  /\ Fetching /\ Printing
  /\ \/ Op = "paging" /\ paged' = TRUE /\ UNCHANGED enabled
     \/ Op = "cli" /\ enabled' = FALSE /\ UNCHANGED paged
  /\ Goto("done")
  /\ UNCHANGED <<cursor, colour, number, keys, marks>>

\* The keyboard's interrupt.
Key ==
  /\ enabled
  /\ keys < MaxInterrupts
  /\ keys' = keys + 1
  /\ enabled' = FALSE
  /\ stack' = Append(stack, Context(KeyText))
  /\ UNCHANGED <<cursor, colour, number, paged, marks>>

Return ==
  /\ Fetching /\ ~Printing /\ Len(stack) > 1
  /\ stack' = Front(stack)
  /\ enabled' = TRUE
  /\ UNCHANGED <<cursor, colour, number, paged, keys, marks>>

\* kernelMain panics, or an assertion of its fails, between two texts.
Fail ==
  /\ Fetching /\ Printing /\ Len(stack) = 1 /\ enabled
  /\ Op \in {"newline", "paging"}
  /\ \E text \in {Panic(Char), PanicAssert(number)} : stack' = <<Context(text)>>
  /\ UNCHANGED <<cursor, colour, rest, marks>>

Finished == Stopped \/ (Fetching /\ ~Printing /\ Len(stack) = 1)

Halt == Finished /\ UNCHANGED vars

Proceed == \/ ZeroX \/ ZeroY \/ LoadY \/ StoreY \/ LoadX \/ StoreX \/ Address
           \/ Write \/ Test \/ Begin \/ SetColour \/ WriteItoa \/ Control
           \/ Return

Next == Proceed \/ Fail \/ Key \/ Halt

\* What is being printed goes on; nobody has to press a key.
Spec == Init /\ [][Next]_vars /\ WF_vars(Proceed)

--------------------------------------------------------------------------------
(* Properties *)

TypeOK ==
  /\ x \in 0 .. Cols + 1 /\ y \in 0 .. Rows + 1
  /\ colour \in {"gray", "red", "yellow"}
  /\ \A n \in DOMAIN stack :
       /\ stack[n].next \in 1 .. Len(stack[n].text) + 1
       /\ stack[n].pc \in DOMAIN Following
                          \cup {"fetch", "edge", "bottom", "row", "column", "done"}
       /\ stack[n].x \in 0 .. Cols /\ stack[n].y \in 0 .. Rows
  /\ paged \in BOOLEAN /\ enabled \in BOOLEAN
  /\ keys \in 0 .. MaxInterrupts

\* Between two operations the cursor is on the screen, and when printing is over
\* the colour is that of plain text, whatever was printed in between
\* (console.cpp:80-101, 134-143).
CursorOnScreen ==
  /\ Fetching /\ Len(stack) = 1 => x < Cols /\ y < Rows
  /\ Finished => colour = "gray"

\* However a key's text and the loads and stores of kernelMain's are mixed, also
\* within ClearScreen, no character lands further off the screen than a row, and
\* a key costs no more characters than it prints (console.cpp:22-33, 116-145).
LossIsBounded ==
  /\ ~beyond
  /\ lost <= keys * 3

\* The number that a text of digits stands for.
ValueOf(text) ==
  FoldLeft(LAMBDA v, c : IF c = Sign THEN v ELSE 10 * v + c, 0, text)
  * (IF text[1] = Sign THEN -1 ELSE 1)

\* itoa's characters give back the number, also below zero, where the digits
\* are those of negative remainders and the sign stays in front of the swap
\* (lib/string.cpp:26-48).
ItoaReadsBack == \A value \in Samples : ValueOf(Itoa(value)) = value

\* Printing comes to an end, however the loops of ClearScreen lose their
\* counters to a handler (console.cpp:22-33).
PrintEnds == <>Finished
================================================================================
