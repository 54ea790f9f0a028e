----------------------------------- MODULE Pci ---------------------------------
(***************************************************************************)
(* The PCI controller's scan of one function: its base address registers   *)
(* and the port base that its driver would be given.  SelectDrivers and    *)
(* GetBaseAdressRegister leave what they do not assign as it is; `left` is *)
(* what the stack holds from the function scanned before.                  *)
(***************************************************************************)
EXTENDS Integers

\* The word at 0x0E: the self test's byte, whose bits 4 and 5 are reserved and 0,
\* whether there are several functions, and one of the three layouts.
Headers == {256 * (64 * capable + code) + 128 * several + layout :
              capable \in 0 .. 3, code \in 0 .. 15, several \in 0 .. 1,
              layout \in 0 .. 2}

\* A function is its vendor, which says whether there is one, its header and the
\* six words from 0x10, of which a bridge has other uses from the third on.
Word == 0 .. 256 * 256 - 1
Absent(f) == f.vendor \in {0, 256 * 256 - 1}

IsFunction(f) ==
  /\ f \in [vendor : Word, header : Word, words : [0 .. 5 -> Nat]]
  /\ Absent(f) \/ f.header \in Headers

IsLeft(left) ==
  left \in [type : {"io", "memory"}, address : Nat, portBase : Nat]

\* The lowest two bits are no part of the address.
Address(word) == word - (word % 4)

HeaderType(f) == f.header % 127

MaxBARs(f) == 6 - 4 * HeaderType(f)

\* One register too many.
GetBaseAdressRegisterPast(f, bar, left) ==
  IF bar > MaxBARs(f) THEN left
  ELSE IF f.words[bar] % 2 = 0 THEN [left EXCEPT !.type = "memory"]
  ELSE [left EXCEPT !.type = "io", !.address = Address(f.words[bar])]

\* A register that the function does not have gives what was there before, and
\* one for memory sets no address.
GetBaseAdressRegister(f, bar, left) ==
  IF bar >= MaxBARs(f) THEN left
  ELSE IF f.words[bar] % 2 = 0 THEN [left EXCEPT !.type = "memory"]
  ELSE [left EXCEPT !.type = "io", !.address = Address(f.words[bar])]

WithPortBase(bar) ==
  IF bar.address # 0 /\ bar.type = "io"
    THEN [bar EXCEPT !.portBase = bar.address] ELSE bar

\* SelectDrivers's loop over the registers.  GetDriver has a driver for nothing.
AfterRegister(f, bar, left) == WithPortBase(GetBaseAdressRegister(f, bar, left))

Scanned(f, left) ==
  IF Absent(f) THEN left
  ELSE AfterRegister(f, 5, AfterRegister(f, 4, AfterRegister(f, 3,
         AfterRegister(f, 2, AfterRegister(f, 1, AfterRegister(f, 0, left))))))

--------------------------------------------------------------------------------

\* The ports in the registers that the function's header type really has.
OwnPorts(f) ==
  LET registers == IF f.header % 128 = 0 THEN 0 .. 5
                   ELSE IF f.header % 128 = 1 THEN 0 .. 1 ELSE {}
      io == {r \in registers : f.words[r] % 2 = 1 /\ f.words[r] > 3}
  IN  [r \in io |-> Address(f.words[r])]
================================================================================
