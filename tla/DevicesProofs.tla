----------------------------- MODULE DevicesProofs -----------------------------
(***************************************************************************)
(* Proofs about Devices, for every firmware, every number of keys and      *)
(* movements, everything that may be found on the PCI bus and every size   *)
(* of window.                                                              *)
(***************************************************************************)
EXTENDS Devices, TLAPS, SequenceTheorems

Value == 0 .. 255
Offset == 0 .. 2
Step == 1 .. 10

Bytes == [from : {"controller", "keyboard", "mouse"}, value : Value, number : Nat]
Mice == [offset : Offset, buffer : [1 .. 3 -> Bytes], buttons : Value]
Histories == [misread : BOOLEAN, slipped : BOOLEAN, broken : BOOLEAN,
              origin : Int8 \X Int8, trail : SUBSET Int]

Typed ==
  /\ status \in Value /\ config \in Value
  /\ out \in Bytes \cup {NoByte} /\ last \in Bytes
  /\ target \in {"keyboard", "config", "mouse"}
  /\ owed \subseteq {"config", "keyboard", "mouse", "streaming"}
  /\ irqs \subseteq {1, 12}
  /\ unsent \in Seq(Bytes) /\ moves \in Nat
  /\ mouse \in Mice
  /\ position \in Int8 \X Int8 /\ inverted \subseteq Int
  /\ history \in Histories

\* Where kernelMain is, and the drivers it has added.
Placed ==
  /\ main \in [at : {"add", "scan", "activate", "idle"}, driver : {1, 2}, step : Step]
  /\ drivers \in Seq({"keyboard", "mouse"})
  /\ Len(drivers) >= 1 => drivers[1] = "keyboard"
  /\ Len(drivers) = 2 => drivers[2] = "mouse"
  /\ IF main.at = "add" THEN Len(drivers) < 2 ELSE Len(drivers) = 2
  /\ main.at \in {"add", "scan"} => main.driver = 1 /\ main.step = 1
  /\ main.at = "activate" /\ main.driver = 1 => main.step <= 9

\* The mouse is not told to send anything before its driver has reset the
\* position in the packet.
BeforeReset ==
  \/ main.at \in {"add", "scan"}
  \/ main.at = "activate" /\ (main.driver = 1 \/ main.step = 1)

Quiet ==
  BeforeReset =>
    /\ moves = 0 /\ unsent = <<>>
    /\ "mouse" \notin owed /\ "streaming" \notin owed
    /\ target # "mouse"
    /\ ~(OutputFull /\ out.from = "mouse")

\* A packet's byte is in the controller.
Waiting == OutputFull /\ out.from = "mouse" /\ out.number # 0

\* The packets' bytes are numbered; this is the next one to be sent, and the next
\* one a handler gets.
NextToSend == 3 * moves - Len(unsent) + 1
NextToTake == IF Waiting THEN NextToSend - 1 ELSE NextToSend

Numbered ==
  /\ Len(unsent) <= 3 * moves
  /\ \A k \in 1 .. Len(unsent) :
       unsent[k].from = "mouse" /\ unsent[k].number = 3 * moves - Len(unsent) + k
  /\ Waiting => out.number = NextToSend - 1

\* Until a byte goes astray the driver is in step with the mouse.
InStep ==
  ~history.slipped /\ ~BeforeReset =>
    /\ mouse.offset = (NextToTake - 1) % 3
    /\ \A k \in 1 .. mouse.offset :
         mouse.buffer[k].number = NextToTake - 1 - mouse.offset + k

\* What the PCI scan has made of the last function.
Found ==
  /\ main.at \in {"add", "scan"} => IsLeft(scan.left)
  /\ \A f \in scan.function : /\ f \in PciFunctions /\ IsLeft(scan.before)
                              /\ scan.left = Scanned(f, scan.before)

Inv ==
  /\ Typed /\ Placed
  /\ Quiet /\ Numbered /\ InStep /\ PacketsWhole
  /\ CursorTrail
  /\ Found

--------------------------------------------------------------------------------
(* Bits, bytes and the two drivers' steps *)

\* A bit of a byte that is set or cleared leaves a byte (keyboard.cpp:56,
\* mouse.cpp:69).
LEMMA BitsOfBytes ==
  ASSUME NEW byte \in 0 .. 255, NEW bit \in {1, 2, 16, 32}
  PROVE  With(byte, bit) \in 0 .. 255 /\ Without(byte, bit) \in 0 .. 255
<1>1. CASE bit = 1
  BY <1>1 DEF With, Without, Has
<1>2. CASE bit = 2
  BY <1>2 DEF With, Without, Has
<1>3. CASE bit = 16
  BY <1>3 DEF With, Without, Has
<1>4. CASE bit = 32
  BY <1>4 DEF With, Without, Has
<1> QED BY <1>1, <1>2, <1>3, <1>4

\* So the configuration the drivers write is one.
LEMMA StatusIsByte ==
  ASSUME NEW byte \in 0 .. 255
  PROVE  KeyboardStatus(byte) \in 0 .. 255 /\ MouseStatus(byte) \in 0 .. 255
BY BitsOfBytes DEF KeyboardStatus, MouseStatus, IRQ1, IRQ12, KEYBOARD_OFF

\* A sum that is stored in eight bits, and a coordinate that is clipped
\* (kernel.cpp:67-81).
LEMMA Coordinates ==
  ASSUME NEW n \in Int, NEW size \in 1 .. 128
  PROVE  AsInt8(n) \in Int8 /\ Clip(AsInt8(n), size) \in 0 .. size - 1
                            /\ Clip(AsInt8(n), size) \in Int8
<1>1. (n + 128) % 256 \in 0 .. 255
  OBVIOUS
<1>2. AsInt8(n) \in -128 .. 127
  BY <1>1 DEF AsInt8
<1> HIDE DEF AsInt8
<1> QED BY <1>2 DEF Int8, Clip

\* What Activate does, step by step (keyboard.cpp:44-67, mouse.cpp:57-88).
LEMMA KeyboardSteps ==
  ASSUME NEW n \in 1 .. 9
  PROVE  /\ KeyboardActivate[n].do = "loaded" <=> n = 9
         /\ KeyboardActivate[n].do # "reset"
         /\ KeyboardActivate[n].do = "command" => KeyboardActivate[n].value # 212
<1>1. n \in {1, 2, 3, 4, 5, 6, 7, 8, 9}
  OBVIOUS
<1>2. /\ KeyboardActivate[1] = Do("poll") /\ KeyboardActivate[2] = Do("drain")
      /\ KeyboardActivate[3] = Command(174) /\ KeyboardActivate[4] = Command(32)
      /\ KeyboardActivate[5] = Do("keyboardStatus")
      /\ KeyboardActivate[6] = Command(96) /\ KeyboardActivate[7] = Do("reply")
      /\ KeyboardActivate[8] = Send(244) /\ KeyboardActivate[9] = Do("loaded")
  BY DEF KeyboardActivate
<1>3. /\ Do("poll").do = "poll" /\ Do("drain").do = "drain"
      /\ Do("keyboardStatus").do = "keyboardStatus" /\ Do("reply").do = "reply"
      /\ Command(174).value = 174 /\ Command(32).value = 32 /\ Command(96).value = 96
      /\ Command(174).do = "command" /\ Command(32).do = "command"
      /\ Command(96).do = "command" /\ Send(244).do = "send" /\ Do("loaded").do = "loaded"
  BY DEF Do, Command, Send
<1> QED BY <1>1, <1>2, <1>3

\* The mouse driver's steps: it resets its position before it does anything else,
\* and does not empty the port in a loop (mouse.cpp:53-86).
LEMMA MouseSteps ==
  ASSUME NEW n \in 1 .. 10
  PROVE  /\ MouseActivate[n].do = "loaded" <=> n = 10
         /\ MouseActivate[n].do = "reset" <=> n = 1
         /\ MouseActivate[n].do \notin {"poll", "drain"}
<1>1. n \in {1, 2, 3, 4, 5, 6, 7, 8, 9, 10}
  OBVIOUS
<1>2. /\ MouseActivate[1] = Do("reset") /\ MouseActivate[2] = Command(168)
      /\ MouseActivate[3] = Command(32) /\ MouseActivate[4] = Do("mouseStatus")
      /\ MouseActivate[5] = Command(96) /\ MouseActivate[6] = Do("reply")
      /\ MouseActivate[7] = Command(212) /\ MouseActivate[8] = Send(244)
      /\ MouseActivate[9] = Do("discard") /\ MouseActivate[10] = Do("loaded")
  BY DEF MouseActivate
<1>3. /\ Do("reset").do = "reset" /\ Do("mouseStatus").do = "mouseStatus"
      /\ Do("reply").do = "reply" /\ Do("discard").do = "discard"
      /\ Do("loaded").do = "loaded" /\ Command(168).do = "command"
      /\ Command(32).do = "command" /\ Command(96).do = "command"
      /\ Command(212).do = "command" /\ Send(244).do = "send"
  BY DEF Do, Command, Send
<1> QED BY <1>1, <1>2, <1>3

\* Where kernelMain is when it does one of these.
LEMMA Steps ==
  ASSUME Placed, main.at = "activate"
  PROVE  /\ main.driver \in 1 .. 2 /\ main.step \in 1 .. 10 /\ Len(drivers) = 2
         /\ At("loaded") /\ main.driver = 2 => main.step = 10
         /\ ~At("loaded") => /\ main.driver = 1 => main.step <= 8
                             /\ main.driver = 2 => main.step <= 9
         /\ At("poll") \/ At("drain") => main.driver = 1
         /\ At("reset") <=> main.driver = 2 /\ main.step = 1
         /\ At("command") /\ Op.value = 212 => main.driver = 2
<1>1. /\ drivers[1] = "keyboard" /\ drivers[2] = "mouse" /\ Len(drivers) = 2
      /\ main.driver \in 1 .. 2
      /\ main.step \in 1 .. 10 /\ (main.driver = 1 => main.step <= 9)
  <2>1. Len(drivers) = 2
    BY DEF Placed
  <2>2. drivers[1] = "keyboard" /\ drivers[2] = "mouse"
    BY <2>1 DEF Placed
  <2>3. main.driver \in {1, 2} /\ main.step \in Step
    BY DEF Placed
  <2>4. main.driver = 1 => main.step <= 9
    BY DEF Placed
  <2> QED BY <2>1, <2>2, <2>3, <2>4 DEF Step
<1>2. CASE main.driver = 1
  <2>1. Op = KeyboardActivate[main.step] /\ main.step \in 1 .. 9
    BY <1>1, <1>2 DEF Op
  <2> QED BY <1>1, <1>2, <2>1, KeyboardSteps DEF At
<1>3. CASE main.driver = 2
  <2>1. Op = MouseActivate[main.step]
    BY <1>1, <1>3 DEF Op
  <2> QED BY <1>1, <1>3, <2>1, MouseSteps DEF At
<1> QED BY <1>1, <1>2, <1>3

--------------------------------------------------------------------------------
(* The PCI scan *)

\* A header's remainder by 127, which the code takes for its type, tells nobody
\* to read a register that the function does not have, as long as the reserved
\* bits of the self test are 0 (pci.cpp:178-184).
LEMMA Remainders ==
  ASSUME NEW h \in Headers
  PROVE  /\ h \in Nat /\ h % 127 \in Nat
         /\ h % 127 = 0 => h % 128 = 0
         /\ h % 127 = 1 => (h % 128) \in {0, 1}
<1>1. PICK a \in 0 .. 3, c \in 0 .. 15, n \in 0 .. 1, t \in 0 .. 2 :
         h = 256 * (64 * a + c) + 128 * n + t
  BY DEF Headers
<1> DEFINE b == 64 * a + c
           r == 128 * n + t
<1>2. /\ h = 256 * b + r /\ b \in 0 .. 255 /\ r \in {0, 1, 2, 128, 129, 130}
      /\ b <= 15 \/ (b >= 64 /\ b <= 79) \/ (b >= 128 /\ b <= 143)
                 \/ (b >= 192 /\ b <= 207)
  BY <1>1
<1> HIDE DEF b, r
<1>3. ASSUME NEW m \in {0, 1}, (256 * b + r) % 127 = m
      PROVE  \E j \in Int : 2 * b + r = 127 * j + m
  <2>1. /\ 256 * b + r = 127 * ((256 * b + r) \div 127) + m
        /\ (256 * b + r) \div 127 \in Int
    BY <1>2, <1>3
  <2>2. PICK k \in Int : 256 * b + r = 127 * k + m
    BY <2>1
  <2>3. 2 * b + r = 127 * (k - 2 * b) + m /\ k - 2 * b \in Int
    BY <1>2, <2>2
  <2> QED BY <2>3
<1>4. (256 * b + r) % 127 = 0 => (256 * b + r) % 128 = 0
  <2>1. ASSUME NEW j \in Int, 2 * b + r = 127 * j PROVE r \in {0, 128}
    BY <1>2, <2>1
  <2>2. r \in {0, 128} => (256 * b + r) % 128 = 0
    BY <1>2
  <2> QED BY <1>3, <2>1, <2>2
<1>5. (256 * b + r) % 127 = 1 => ((256 * b + r) % 128) \in {0, 1}
  <2>1. ASSUME NEW j \in Int, 2 * b + r = 127 * j + 1 PROVE r \in {0, 1, 128, 129}
    BY <1>2, <2>1
  <2>2. r \in {0, 1, 128, 129} => (256 * b + r) % 128 \in {0, 1}
    BY <1>2
  <2> QED BY <1>3, <2>1, <2>2
<1>6. 256 * b + r \in Nat /\ (256 * b + r) % 127 \in Nat
  BY <1>2
<1> QED BY <1>2, <1>4, <1>5, <1>6

\* A port's address without its lowest bits is not 0 unless the word is that
\* (pci.cpp:201).
LEMMA AddressFacts ==
  ASSUME NEW w \in Nat
  PROVE  Address(w) \in Nat /\ (Address(w) # 0 <=> w > 3)
BY DEF Address

\* What a register leaves of the scan's results (pci.cpp:93-100, 174-206).
LEMMA RegisterResult ==
  ASSUME NEW f, IsFunction(f), NEW bar \in 0 .. 5, NEW left, IsLeft(left)
  PROVE  LET after == AfterRegister(f, bar, left)
             port == f.words[bar] % 2 = 1 /\ f.words[bar] > 3
         IN  /\ IsLeft(after)
             /\ bar < MaxBARs(f) /\ port =>
                  after.portBase = Address(f.words[bar])
                  /\ after.address = Address(f.words[bar])
             /\ bar < MaxBARs(f) /\ ~port =>
                  /\ after.portBase = left.portBase
                  /\ after.address \in {0, left.address}
             /\ ~(bar < MaxBARs(f)) =>
                  /\ after.address = left.address
                  /\ \/ after.portBase = left.portBase
                     \/ after.portBase = left.address /\ left.address # 0
<1> DEFINE read == GetBaseAdressRegister(f, bar, left)
           w == f.words[bar]
<1>1. /\ w \in Nat /\ (w % 2) \in {0, 1} /\ MaxBARs(f) \in Int
      /\ left \in [type : {"io", "memory"}, address : Nat, portBase : Nat]
  <2>1. w \in Nat
    BY DEF IsFunction
  <2>2. \A n \in Nat : (n % 2) \in {0, 1}
    OBVIOUS
  <2>3. \A n \in Nat : 6 - 4 * (n % 127) \in Int
    OBVIOUS
  <2>4. f.header \in Nat
    <3>1. f.header \in Word
      BY DEF IsFunction
    <3>2. Word \subseteq Nat
      BY DEF Word
    <3> QED BY <3>1, <3>2
  <2> HIDE DEF w
  <2>5. MaxBARs(f) \in Int
    BY <2>3, <2>4 DEF MaxBARs, HeaderType
  <2> QED BY <2>1, <2>2, <2>5 DEF IsLeft
<1>2. Address(w) \in Nat /\ (Address(w) # 0 <=> w > 3)
  BY <1>1, AddressFacts
<1> HIDE DEF w
<1>3. CASE ~(bar < MaxBARs(f))
  <2>1. read = left
    BY <1>1, <1>3 DEF GetBaseAdressRegister
  <2>2. AfterRegister(f, bar, left) = WithPortBase(left)
    BY <2>1 DEF AfterRegister
  <2>3. /\ IsLeft(WithPortBase(left)) /\ WithPortBase(left).address = left.address
        /\ \/ WithPortBase(left).portBase = left.portBase
           \/ WithPortBase(left).portBase = left.address /\ left.address # 0
    <3>1. [left EXCEPT !.portBase = left.address] \in
             [type : {"io", "memory"}, address : Nat, portBase : Nat]
      BY <1>1
    <3>2. /\ [left EXCEPT !.portBase = left.address].address = left.address
          /\ [left EXCEPT !.portBase = left.address].portBase = left.address
      BY <1>1
    <3>3. WithPortBase(left) = IF left.address # 0 /\ left.type = "io"
            THEN [left EXCEPT !.portBase = left.address] ELSE left
      BY DEF WithPortBase
    <3>4. CASE left.address # 0 /\ left.type = "io"
      BY <3>1, <3>2, <3>3, <3>4 DEF IsLeft
    <3>5. CASE ~(left.address # 0 /\ left.type = "io")
      BY <3>3, <3>5
    <3> QED BY <3>4, <3>5
  <2> QED BY <1>3, <2>2, <2>3
<1>4. CASE bar < MaxBARs(f)
  <2>1. ~(bar >= MaxBARs(f))
    BY <1>1, <1>4
  <2>2. CASE w % 2 = 0
    <3>1. read = [left EXCEPT !.type = "memory"]
      BY <2>1, <2>2 DEF GetBaseAdressRegister, w
    <3>2. /\ read.type = "memory" /\ read.address = left.address
          /\ read.portBase = left.portBase /\ IsLeft(read)
      BY <1>1, <3>1 DEF IsLeft
    <3>3. AfterRegister(f, bar, left) = read
      BY <3>2 DEF AfterRegister, WithPortBase
    <3> HIDE DEF read
    <3> QED BY <1>1, <1>4, <2>2, <3>2, <3>3 DEF w
  <2>3. CASE w % 2 = 1
    <3>1. read = [left EXCEPT !.type = "io", !.address = Address(w)]
      BY <2>1, <2>3 DEF GetBaseAdressRegister, w
    <3>2. /\ read.type = "io" /\ read.address = Address(w)
          /\ read.portBase = left.portBase /\ IsLeft(read)
      BY <1>1, <1>2, <3>1 DEF IsLeft
    <3>3. AfterRegister(f, bar, left) = IF Address(w) # 0
            THEN [read EXCEPT !.portBase = Address(w)] ELSE read
      BY <3>2 DEF AfterRegister, WithPortBase
    <3> HIDE DEF read
    <3>4. CASE w > 3
      <4>1. AfterRegister(f, bar, left) = [read EXCEPT !.portBase = Address(w)]
        BY <1>2, <3>3, <3>4
      <4>2. /\ AfterRegister(f, bar, left).portBase = Address(w)
            /\ AfterRegister(f, bar, left).address = Address(w)
            /\ IsLeft(AfterRegister(f, bar, left))
        BY <1>2, <3>2, <4>1 DEF IsLeft
      <4> QED BY <1>4, <2>3, <3>4, <4>2 DEF w
    <3>5. CASE ~(w > 3)
      <4>1. AfterRegister(f, bar, left) = read /\ Address(w) = 0
        BY <1>2, <3>3, <3>5
      <4> QED BY <1>4, <2>3, <3>2, <3>5, <4>1 DEF w
    <3> QED BY <3>4, <3>5
  <2> QED BY <1>1, <2>2, <2>3
<1> QED BY <1>3, <1>4

\* The registers that a function is read have to be ones that it has.
LEMMA RegistersRead ==
  ASSUME NEW f, IsFunction(f), ~Absent(f), NEW bar \in 0 .. 5,
         bar < MaxBARs(f)
  PROVE  \/ f.header % 128 = 0
         \/ f.header % 128 = 1 /\ bar \in 0 .. 1
<1>1. f.header \in Headers
  BY DEF IsFunction
<1> DEFINE t == f.header % 127
<1>2. /\ t \in Nat
      /\ t = 0 => f.header % 128 = 0
      /\ t = 1 => (f.header % 128) \in {0, 1}
  BY <1>1, Remainders
<1>3. bar < 6 - 4 * t
  BY DEF MaxBARs, HeaderType
<1> HIDE DEF t
<1>4. t = 0 \/ (t = 1 /\ bar < 2)
  BY <1>2, <1>3
<1> QED BY <1>2, <1>4

\* Scanning a function leaves results of the right kind.
LEMMA ScannedTyped ==
  ASSUME NEW f, IsFunction(f), NEW left, IsLeft(left)
  PROVE  IsLeft(Scanned(f, left))
<1>1. \A bar \in 0 .. 5 : \A l : IsLeft(l) => IsLeft(AfterRegister(f, bar, l))
  BY RegisterResult
<1> QED BY <1>1 DEF Scanned

\* The ports of a function's own, and what the scan may have come to.
Ports(f) == {OwnPorts(f)[r] : r \in DOMAIN OwnPorts(f)}

OwnOrBefore(f, before, left) ==
  /\ left.portBase \in Ports(f) \cup {before.portBase, before.address}
  /\ left.address \in Ports(f) \cup {0, before.address}

LastOf(f, n, left) ==
  \A r \in DOMAIN OwnPorts(f) :
    r <= n /\ (\A q \in DOMAIN OwnPorts(f) : q <= n => q <= r) =>
      left.portBase = OwnPorts(f)[r]

\* The registers with ports, and their addresses.
LEMMA OwnPortsFacts ==
  ASSUME NEW f
  PROVE  /\ DOMAIN OwnPorts(f) \subseteq 0 .. 5
         /\ \A r \in DOMAIN OwnPorts(f) : OwnPorts(f)[r] = Address(f.words[r])
         /\ \A r \in 0 .. 5 :
              /\ f.header % 128 = 0 \/ (f.header % 128 = 1 /\ r \in 0 .. 1)
              /\ f.words[r] % 2 = 1 /\ f.words[r] > 3
              => r \in DOMAIN OwnPorts(f)
         /\ \A r \in DOMAIN OwnPorts(f) : f.words[r] % 2 = 1 /\ f.words[r] > 3
<1> DEFINE registers == IF f.header % 128 = 0 THEN 0 .. 5
                        ELSE IF f.header % 128 = 1 THEN 0 .. 1 ELSE {}
           io == {r \in registers : f.words[r] % 2 = 1 /\ f.words[r] > 3}
<1>1. OwnPorts(f) = [r \in io |-> Address(f.words[r])]
  BY DEF OwnPorts
<1>2. /\ registers \subseteq 0 .. 5
      /\ \A r \in 0 .. 5 : f.header % 128 = 0 => r \in registers
      /\ \A r \in 0 .. 5 : f.header % 128 = 1 /\ r \in 0 .. 1 => r \in registers
  OBVIOUS
<1> HIDE DEF registers
<1>3. DOMAIN OwnPorts(f) = io /\ \A r \in io : OwnPorts(f)[r] = Address(f.words[r])
  BY <1>1
<1> QED BY <1>2, <1>3

\* A register gives an address of the function's own, or leaves what was there.
LEMMA RegisterOwn ==
  ASSUME NEW f, IsFunction(f), ~Absent(f), NEW before, NEW bar \in 0 .. 5,
         NEW left, IsLeft(left), OwnOrBefore(f, before, left)
  PROVE  OwnOrBefore(f, before, AfterRegister(f, bar, left))
<1> DEFINE after == AfterRegister(f, bar, left)
           port == f.words[bar] % 2 = 1 /\ f.words[bar] > 3
<1>1. CASE bar < MaxBARs(f) /\ port
  <2>1. bar \in DOMAIN OwnPorts(f)
    BY <1>1, RegistersRead, OwnPortsFacts
  <2>2. Address(f.words[bar]) \in Ports(f)
    BY <2>1, OwnPortsFacts DEF Ports
  <2>3. after.portBase = Address(f.words[bar]) /\ after.address = Address(f.words[bar])
    BY <1>1, RegisterResult
  <2> HIDE DEF after
  <2> QED BY <2>2, <2>3 DEF OwnOrBefore, after
<1>2. CASE bar < MaxBARs(f) /\ ~port
  <2>1. after.portBase = left.portBase /\ after.address \in {0, left.address}
    BY <1>2, RegisterResult
  <2> QED BY <2>1 DEF OwnOrBefore
<1>3. CASE ~(bar < MaxBARs(f))
  <2>1. /\ after.address = left.address
        /\ \/ after.portBase = left.portBase
           \/ after.portBase = left.address /\ left.address # 0
    BY <1>3, RegisterResult
  <2> QED BY <2>1 DEF OwnOrBefore
<1> QED BY <1>1, <1>2, <1>3

\* A plain function's register is read, and gives the last port so far.
LEMMA RegisterLast ==
  ASSUME NEW f, IsFunction(f), f.header = 0, NEW bar \in 0 .. 5,
         NEW left, IsLeft(left), LastOf(f, bar - 1, left)
  PROVE  LastOf(f, bar, AfterRegister(f, bar, left))
<1> DEFINE after == AfterRegister(f, bar, left)
           port == f.words[bar] % 2 = 1 /\ f.words[bar] > 3
           own == OwnPorts(f)
<1>1. bar < MaxBARs(f) /\ f.header % 128 = 0
  <2>1. 0 % 127 = 0 /\ 0 % 128 = 0
    OBVIOUS
  <2> QED BY <2>1 DEF MaxBARs, HeaderType
<1>2. DOMAIN own \subseteq 0 .. 5 /\ (bar \in DOMAIN own <=> port)
  BY <1>1, OwnPortsFacts
<1>3. /\ port => after.portBase = own[bar]
      /\ ~port => after.portBase = left.portBase
  BY <1>1, <1>2, RegisterResult, OwnPortsFacts
<1> HIDE DEF after, port, own
<1>4. ASSUME NEW r \in DOMAIN own, r <= bar, \A q \in DOMAIN own : q <= bar => q <= r
      PROVE  after.portBase = own[r]
  <2>1. CASE port
    <3>1. r = bar
      BY <1>2, <1>4, <2>1
    <3> QED BY <1>3, <2>1, <3>1
  <2>2. CASE ~port
    <3>1. r # bar /\ r <= bar - 1
      BY <1>2, <1>4, <2>2
    <3>2. \A q \in DOMAIN own : q <= bar - 1 => q <= r
      BY <1>2, <1>4
    <3>3. left.portBase = own[r]
      BY <3>1, <3>2 DEF LastOf, own
    <3> QED BY <1>3, <2>2, <3>3
  <2> QED BY <2>1, <2>2
<1> QED BY <1>4 DEF LastOf, after, own

\* What LastPortGiven says, of one function.
LEMMA ScannedOwn ==
  ASSUME NEW f, IsFunction(f), NEW before, IsLeft(before)
  PROVE  LET own == OwnPorts(f)
             given == Scanned(f, before).portBase
         IN  /\ given \in Ports(f) \cup {before.portBase, before.address}
             /\ ~Absent(f) /\ f.header = 0 /\ DOMAIN own # {} =>
                  \E r \in DOMAIN own : given = own[r] /\ \A q \in DOMAIN own : q <= r
<1>1. CASE Absent(f)
  BY <1>1 DEF Scanned
<1>2. CASE ~Absent(f)
  <2> DEFINE l0 == AfterRegister(f, 0, before)
             l1 == AfterRegister(f, 1, l0)
             l2 == AfterRegister(f, 2, l1)
             l3 == AfterRegister(f, 3, l2)
             l4 == AfterRegister(f, 4, l3)
             l5 == AfterRegister(f, 5, l4)
  <2>1. Scanned(f, before) = l5
    BY <1>2 DEF Scanned
  <2>2. ASSUME NEW bar \in 0 .. 5, NEW left, IsLeft(left)
        PROVE  /\ IsLeft(AfterRegister(f, bar, left))
               /\ OwnOrBefore(f, before, left) =>
                    OwnOrBefore(f, before, AfterRegister(f, bar, left))
               /\ f.header = 0 /\ LastOf(f, bar - 1, left) =>
                    LastOf(f, bar, AfterRegister(f, bar, left))
    BY <1>2, <2>2, RegisterResult, RegisterOwn, RegisterLast
  <2>3. OwnOrBefore(f, before, before) /\ LastOf(f, 0 - 1, before)
    BY OwnPortsFacts DEF OwnOrBefore, LastOf
  <2>4. /\ 1 - 1 = 0 /\ 2 - 1 = 1 /\ 3 - 1 = 2 /\ 4 - 1 = 3 /\ 5 - 1 = 4
        /\ {0, 1, 2, 3, 4, 5} \subseteq 0 .. 5
    OBVIOUS
  <2> HIDE DEF l0, l1, l2, l3, l4, l5
  <2>5. IsLeft(l0) /\ OwnOrBefore(f, before, l0) /\ (f.header = 0 => LastOf(f, 0, l0))
    BY <2>2, <2>3, <2>4 DEF l0
  <2>6. IsLeft(l1) /\ OwnOrBefore(f, before, l1) /\ (f.header = 0 => LastOf(f, 1, l1))
    BY <2>2, <2>4, <2>5 DEF l1
  <2>7. IsLeft(l2) /\ OwnOrBefore(f, before, l2) /\ (f.header = 0 => LastOf(f, 2, l2))
    BY <2>2, <2>4, <2>6 DEF l2
  <2>8. IsLeft(l3) /\ OwnOrBefore(f, before, l3) /\ (f.header = 0 => LastOf(f, 3, l3))
    BY <2>2, <2>4, <2>7 DEF l3
  <2>9. IsLeft(l4) /\ OwnOrBefore(f, before, l4) /\ (f.header = 0 => LastOf(f, 4, l4))
    BY <2>2, <2>4, <2>8 DEF l4
  <2>10. OwnOrBefore(f, before, l5) /\ (f.header = 0 => LastOf(f, 5, l5))
    BY <2>2, <2>4, <2>9 DEF l5
  <2>11. ASSUME NEW D \in SUBSET (0 .. 5), D # {}
         PROVE  \E r \in D : \A q \in D : q <= r
    <3>1. \A n \in 0 .. 5 : n \in D /\ (\A q \in D : q > n => FALSE) =>
            \E r \in D : \A q \in D : q <= r
      OBVIOUS
    <3>2. \A q \in D : q = 5 \/ q = 4 \/ q = 3 \/ q = 2 \/ q = 1 \/ q = 0
      OBVIOUS
    <3>3. 5 \in D \/ 4 \in D \/ 3 \in D \/ 2 \in D \/ 1 \in D \/ 0 \in D
      <4>1. PICK q \in D : TRUE
        BY <2>11
      <4> QED BY <3>2, <4>1
    <3> QED BY <3>1, <3>2, <3>3
  <2>12. ASSUME f.header = 0, DOMAIN OwnPorts(f) # {}
         PROVE  \E r \in DOMAIN OwnPorts(f) :
                  /\ l5.portBase = OwnPorts(f)[r]
                  /\ \A q \in DOMAIN OwnPorts(f) : q <= r
    <3>1. DOMAIN OwnPorts(f) \subseteq 0 .. 5
      BY OwnPortsFacts
    <3>2. PICK r \in DOMAIN OwnPorts(f) : \A q \in DOMAIN OwnPorts(f) : q <= r
      BY <2>11, <2>12, <3>1
    <3>3. r <= 5
      BY <3>1
    <3>4. l5.portBase = OwnPorts(f)[r]
      BY <2>10, <2>12, <3>2, <3>3 DEF LastOf
    <3> QED BY <3>2, <3>4
  <2> QED BY <2>1, <2>10, <2>12 DEF OwnOrBefore
<1> QED BY <1>1, <1>2

--------------------------------------------------------------------------------
(* The invariant: types, and where kernelMain is *)

\* The mark of an empty output buffer is not a byte.
LEMMA NoByteIsNone == NoByte \notin Bytes
BY DevicesAssumption DEF Bytes, Value

\* Reading the data port gives a byte, also when there is none.
LEMMA PortGivesByte ==
  ASSUME Typed
  PROVE  Port \in Bytes /\ Port.value \in Value /\ (OutputFull => out \in Bytes)
<1>1. OutputFull => out \in Bytes
  BY DEF Typed, OutputFull
<1>2. Port \in Bytes
  BY <1>1 DEF Typed, Port
<1> QED BY <1>1, <1>2 DEF Bytes

\* A byte raises one of the two requests, or none.
LEMMA LineIsRequest == \A byte, conf : Line(byte, conf) \subseteq {1, 12}
BY DEF Line

\* A byte that is put into the output buffer keeps everything of its type.
LEMMA PutKeepsTypes ==
  ASSUME Typed, NEW byte \in Bytes, Put(byte),
         owed' \subseteq {"config", "keyboard", "mouse", "streaming"},
         unsent' \in Seq(Bytes), moves' \in Nat
  PROVE  Typed'
<1>1. /\ out' = byte /\ irqs' = irqs \cup Line(byte, config)
      /\ UNCHANGED <<status, config, last, target, mouse, position, inverted, history>>
  BY DEF Put, screen
<1>2. irqs' \subseteq {1, 12}
  BY <1>1, LineIsRequest DEF Typed
<1> QED BY <1>1, <1>2 DEF Typed

\* A position that the cursor is moved to (kernel.cpp:65-87).
LEMMA MoveKeepsTypes ==
  ASSUME Typed, NEW dx \in Int, NEW dy \in Int, OnMouseMove(dx, dy)
  PROVE  /\ position' \in (0 .. Cols - 1) \X (0 .. Rows - 1)
         /\ position' \in Int8 \X Int8 /\ inverted' \subseteq Int
<1>1. Cols \in 1 .. 128 /\ Rows \in 1 .. 128
  BY DevicesAssumption
<1>2. position[1] \in Int /\ position[2] \in Int
  <2>1. position[1] \in Int8 /\ position[2] \in Int8
    BY DEF Typed
  <2>2. Int8 \subseteq Int
    BY DEF Int8
  <2> QED BY <2>1, <2>2
<1> DEFINE column == Clip(AsInt8(position[1] + dx), Cols)
           row == Clip(AsInt8(position[2] + dy), Rows)
<1>3. /\ column \in 0 .. Cols - 1 /\ column \in Int8
      /\ row \in 0 .. Rows - 1 /\ row \in Int8
  <2>1. position[1] + dx \in Int /\ position[2] + dy \in Int
    BY <1>2
  <2> QED BY <1>1, <2>1, Coordinates
<1>4. position' = <<column, row>>
  BY DEF OnMouseMove
<1> HIDE DEF column, row
<1>5. position'[1] \in Int /\ position'[2] \in Int
  BY <1>3, <1>4 DEF Int8
<1>6. Cell(position) \in Int /\ Cell(position') \in Int
  BY <1>1, <1>2, <1>5 DEF Cell
<1>7. inverted' = ShiftConsoleColors(ShiftConsoleColors(inverted, Cell(position)),
                                     Cell(position'))
  BY DEF OnMouseMove
<1> QED BY <1>3, <1>4, <1>6, <1>7 DEF Typed, ShiftConsoleColors

\* Before kernelMain's first step nothing is on its way (kernel.cpp:243-264).
LEMMA InvInit == Init => Inv
<1> SUFFICES ASSUME Init PROVE Inv
  OBVIOUS
<1>1. last \in Bytes
  <2>1. last = [from |-> "controller", value |-> 0, number |-> 0] /\ 0 \in Value
    BY DEF Init, Byte, Value
  <2> QED BY <2>1 DEF Bytes
<1>2. mouse \in Mice
  <2>1. /\ Offsets \subseteq Offset /\ 0 \in Value
        /\ [n \in 1 .. 3 |-> last] \in [1 .. 3 -> Bytes]
    BY <1>1, DevicesAssumption DEF Offset, Value
  <2>2. mouse \in [offset : Offsets, buffer : {[n \in 1 .. 3 |-> last]}, buttons : {0}]
    BY DEF Init
  <2>3. ASSUME NEW O, O \subseteq Offset, NEW B, NEW b \in B, NEW C, NEW c \in C,
               mouse \in [offset : O, buffer : {b}, buttons : {c}]
        PROVE  mouse \in [offset : Offset, buffer : B, buttons : C]
    BY <2>3
  <2> QED BY <2>1, <2>2, <2>3 DEF Mice
<1>3. position \in Int8 \X Int8 /\ config \in 0 .. 255
  BY DevicesAssumption DEF Init
<1>4. history \in Histories
  BY <1>3 DEF Init, Histories
<1>5. Typed
  <2>1. status \in Value /\ config \in Value
    BY <1>3 DEF Init, Value
  <2>2. unsent \in Seq(Bytes) /\ moves \in Nat
    BY DEF Init
  <2>3. /\ out = NoByte /\ target = "keyboard" /\ owed = {} /\ irqs = {}
        /\ inverted = {}
    BY DEF Init
  <2> QED BY <1>1, <1>2, <1>3, <1>4, <2>1, <2>2, <2>3 DEF Typed
<1>6. Placed
  <2>1. drivers \in Seq({"keyboard", "mouse"}) /\ Len(drivers) = 0
    BY DEF Init
  <2>2. main = [at |-> "add", driver |-> 1, step |-> 1]
    BY DEF Init
  <2>3. 1 \in Step
    BY DEF Step
  <2>4. main \in [at : {"add", "scan", "activate", "idle"}, driver : {1, 2}, step : Step]
    BY <2>2, <2>3
  <2>5. main.at = "add" /\ main.driver = 1 /\ main.step = 1
    BY <2>2
  <2> QED BY <2>1, <2>4, <2>5 DEF Placed
<1>7. BeforeReset /\ ~OutputFull /\ Len(unsent) = 0 /\ moves = 0
  BY DEF Init, BeforeReset, OutputFull
<1>8. Quiet /\ Numbered /\ InStep /\ PacketsWhole
  BY <1>7 DEF Init, Quiet, Numbered, Waiting, InStep, PacketsWhole
<1>9. CursorTrail
  BY DEF Init, CursorTrail
<1>10. Found
  <2>1. PICK l \in Left :
           scan = [seen |-> 0, function |-> {}, left |-> l, before |-> l]
    BY DEF Init
  <2> QED BY <2>1, DevicesAssumption DEF Found
<1> QED BY <1>5, <1>6, <1>8, <1>9, <1>10 DEF Inv

\* kernelMain's place changes in these ways.
LEMMA MainMoves ==
  ASSUME Placed, NEW at \in {"add", "scan", "activate", "idle"},
         NEW driver \in {1, 2}, NEW step \in Step,
         main' = [main EXCEPT !.at = at, !.driver = driver, !.step = step]
  PROVE  /\ main' \in [at : {"add", "scan", "activate", "idle"}, driver : {1, 2},
                       step : Step]
         /\ main'.at = at /\ main'.driver = driver /\ main'.step = step
BY DEF Placed

\* A step of Activate.
LEMMA GoesTo ==
  ASSUME Placed, main.at = "activate", NEW step \in Step, Goto(step),
         main.driver = 1 => step <= 9, UNCHANGED drivers
  PROVE  Placed' /\ main'.at = "activate" /\ main'.driver = main.driver
                 /\ main'.step = step
BY DEF Placed, Goto

\* kernelMain goes from one step to the next (kernel.cpp:243-264, driver.cpp:65-105).
LEMMA PlacedNext == ASSUME Inv, [Next]_vars PROVE Placed'
<1>1. /\ Placed /\ main.driver \in {1, 2} /\ main.step \in Step
      /\ main.at \in {"add", "scan", "activate", "idle"}
  BY DEF Inv, Placed
<1>2. CASE AddDriver
  <2>1. /\ drivers \in Seq({"keyboard", "mouse"}) /\ Len(drivers) < 2
        /\ main.driver = 1 /\ main.step = 1 /\ main.at = "add"
        /\ Len(drivers) >= 1 => drivers[1] = "keyboard"
    BY <1>1, <1>2 DEF AddDriver, Placed
  <2> DEFINE new == IF drivers = <<>> THEN "keyboard" ELSE "mouse"
             at == IF Len(drivers') = 2 THEN "scan" ELSE "add"
  <2>2. drivers' = Append(drivers, new) /\ main' = [main EXCEPT !.at = at]
    BY <1>2 DEF AddDriver
  <2>3. new \in {"keyboard", "mouse"} /\ (Len(drivers) = 0 <=> drivers = <<>>)
        /\ Len(drivers) \in Nat
    BY <2>1
  <2>4. /\ drivers' \in Seq({"keyboard", "mouse"}) /\ Len(drivers') = Len(drivers) + 1
        /\ \A n \in 1 .. Len(drivers) : drivers'[n] = drivers[n]
        /\ drivers'[Len(drivers) + 1] = new
    BY <2>1, <2>2, <2>3, AppendProperties
  <2>5. at = (IF Len(drivers') = 2 THEN "scan" ELSE "add") /\ at \in {"add", "scan"}
    OBVIOUS
  <2> HIDE DEF at
  <2>6. /\ main' \in [at : {"add", "scan", "activate", "idle"}, driver : {1, 2}, step : Step]
        /\ main'.at = at /\ main'.driver = 1 /\ main'.step = 1
    BY <1>1, <2>1, <2>2, <2>5 DEF Placed
  <2>7. CASE Len(drivers) = 0
    BY <2>3, <2>4, <2>5, <2>6, <2>7 DEF Placed
  <2>8. CASE Len(drivers) = 1
    <3>1. drivers'[1] = "keyboard" /\ drivers'[2] = "mouse" /\ Len(drivers') = 2
      BY <2>1, <2>3, <2>4, <2>8
    <3> QED BY <2>4, <2>5, <2>6, <3>1 DEF Placed
  <2>9. Len(drivers) = 0 \/ Len(drivers) = 1
    <3>1. \A n \in Nat : n < 2 => n = 0 \/ n = 1
      OBVIOUS
    <3> QED BY <2>1, <2>3, <3>1
  <2> QED BY <2>7, <2>8, <2>9
<1>3. CASE SelectDrivers
  <2>1. main.at = "scan" /\ UNCHANGED drivers
        /\ (main' = main \/ main' = [main EXCEPT !.at = "activate"])
    BY <1>3 DEF SelectDrivers
  <2>2. main.driver = 1 /\ main.step = 1 /\ 1 <= 9
    BY <1>1, <2>1 DEF Placed
  <2>3. CASE main' = main
    BY <1>1, <2>1, <2>3 DEF Placed
  <2>4. CASE main' = [main EXCEPT !.at = "activate"]
    <3>1. /\ main' \in [at : {"add", "scan", "activate", "idle"}, driver : {1, 2},
                        step : Step]
          /\ main'.at = "activate" /\ main'.driver = 1 /\ main'.step = 1
      BY <1>1, <2>2, <2>4 DEF Placed
    <3> QED BY <1>1, <2>1, <2>2, <3>1 DEF Placed
  <2> QED BY <2>1, <2>3, <2>4
<1>4. ASSUME main.at = "activate", ~At("loaded"), UNCHANGED drivers,
             \/ Advance
             \/ main.driver = 1 /\ (Goto(1) \/ Goto(2) \/ Goto(3))
      PROVE  Placed'
  <2>1. /\ main.driver = 1 => main.step <= 8
        /\ main.driver = 2 => main.step <= 9
        /\ main.step \in 1 .. 10 /\ main.driver \in 1 .. 2
    BY <1>1, <1>4, Steps
  <2>2. CASE Advance
    <3>1. Goto(main.step + 1)
      BY <2>2 DEF Advance
    <3>2. main.step + 1 \in Step /\ (main.driver = 1 => main.step + 1 <= 9)
      BY <2>1 DEF Step
    <3> QED BY <1>1, <1>4, <3>1, <3>2, GoesTo
  <2>3. CASE main.driver = 1 /\ (Goto(1) \/ Goto(2) \/ Goto(3))
    <3>1. 1 \in Step /\ 2 \in Step /\ 3 \in Step /\ 1 <= 9 /\ 2 <= 9 /\ 3 <= 9
      BY DEF Step
    <3> QED BY <1>1, <1>4, <2>3, <3>1, GoesTo
  <2> QED BY <1>4, <2>2, <2>3
<1>5. CASE Drain
  <2>1. main.driver = 1 /\ main.at = "activate"
    BY <1>1, <1>5, Steps DEF Drain, At
  <2>2. ~At("loaded") /\ UNCHANGED drivers
    BY <1>5 DEF Drain, At
  <2>3. Goto(1) \/ Goto(2) \/ Goto(3)
    BY <1>5 DEF Drain
  <2> QED BY <1>4, <2>1, <2>2, <2>3
<1>6. CASE CommandPort \/ ReadStatus \/ DataPort \/ Reset
  <2>1. main.at = "activate" /\ ~At("loaded")
    BY <1>6 DEF CommandPort, ReadStatus, DataPort, Reset, At
  <2>2. Advance /\ UNCHANGED drivers
    BY <1>6 DEF CommandPort, ReadStatus, DataPort, Reset
  <2> QED BY <1>4, <2>1, <2>2
<1>7. CASE Loaded
  <2>1. /\ main.at = "activate" /\ Len(drivers) = 2 /\ UNCHANGED drivers
    BY <1>1, <1>7, Steps DEF Loaded, At
  <2>2. main' = IF main.driver < 2 THEN [main EXCEPT !.driver = @ + 1, !.step = 1]
                ELSE [main EXCEPT !.at = "idle"]
    BY <1>7, <2>1 DEF Loaded
  <2>3. CASE main.driver = 1
    <3>1. main' = [main EXCEPT !.driver = 2, !.step = 1]
      <4>1. main.driver + 1 = 2 /\ main.driver < 2
        BY <2>3
      <4> QED BY <2>2, <4>1
    <3>2. main' = [main EXCEPT !.at = "activate", !.driver = 2, !.step = 1]
      BY <1>1, <2>1, <3>1 DEF Placed
    <3>3. 1 \in Step
      BY DEF Step
    <3>4. /\ main' \in [at : {"add", "scan", "activate", "idle"}, driver : {1, 2},
                        step : Step]
          /\ main'.at = "activate" /\ main'.driver = 2
      BY <1>1, <3>2, <3>3, MainMoves
    <3> QED BY <1>1, <2>1, <3>4 DEF Placed
  <2>4. CASE main.driver = 2
    <3>1. main' = [main EXCEPT !.at = "idle"]
      BY <2>2, <2>4
    <3> QED BY <1>1, <2>1, <3>1 DEF Placed
  <2> QED BY <1>1, <2>3, <2>4
<1>8. CASE HandleKeyboard \/ HandleMouse \/ Answer \/ Key \/ Move \/ SendByte \/ Halt
           \/ UNCHANGED vars
  <2>1. UNCHANGED <<main, drivers>>
    BY <1>8 DEF HandleKeyboard, HandleMouse, Answer, Key, Move, SendByte, Halt, vars, Put
  <2> QED BY <1>1, <2>1 DEF Placed
<1> QED BY <1>2, <1>3, <1>5, <1>6, <1>7, <1>8 DEF Next, Main

\* Only Reset ends the time before the reset; the bus is scanned before that
\* (kernel.cpp:243-264, mouse.cpp:53-56).
LEMMA PlaceMoves ==
  ASSUME Inv, [Next]_vars
  PROVE  /\ BeforeReset' => BeforeReset
         /\ BeforeReset /\ ~BeforeReset' => Reset
         /\ main'.at \in {"add", "scan"} => main.at \in {"add", "scan"}
<1>1. /\ Placed /\ main.driver \in {1, 2} /\ main.step \in Step
      /\ main.at \in {"add", "scan", "activate", "idle"}
  BY DEF Inv, Placed
<1>2. CASE AddDriver \/ SelectDrivers
  <2>1. main.at \in {"add", "scan"} /\ main.driver = 1
    BY <1>1, <1>2 DEF AddDriver, SelectDrivers, Placed
  <2>2. main'.at \in {"add", "scan", "activate"} /\ main'.driver = 1
    <3>1. ASSUME NEW at \in {"add", "scan", "activate"},
                 main' = main \/ main' = [main EXCEPT !.at = at]
          PROVE  main'.at \in {"add", "scan", "activate"} /\ main'.driver = 1
      BY <1>1, <2>1, <3>1 DEF Placed
    <3>2. CASE AddDriver
      <4>1. main' = [main EXCEPT !.at = IF Len(drivers') = 2 THEN "scan" ELSE "add"]
        BY <3>2 DEF AddDriver
      <4> QED BY <3>1, <4>1
    <3>3. CASE SelectDrivers
      <4>1. main' = main \/ main' = [main EXCEPT !.at = "activate"]
        BY <3>3 DEF SelectDrivers
      <4> QED BY <3>1, <4>1
    <3> QED BY <1>2, <3>2, <3>3
  <2> QED BY <2>1, <2>2 DEF BeforeReset
<1>3. ASSUME NEW step \in Step, Goto(step), main.at = "activate"
      PROVE  main'.at = "activate" /\ main'.driver = main.driver /\ main'.step = step
  BY <1>1, <1>3 DEF Goto, Placed
<1>4. CASE Drain
  <2>1. main.driver = 1 /\ main.at = "activate"
    BY <1>1, <1>4, Steps DEF Drain, At
  <2>2. \E step \in Step : Goto(step)
    <3>1. 1 \in Step /\ 2 \in Step /\ 3 \in Step
      BY DEF Step
    <3> QED BY <1>4, <3>1 DEF Drain
  <2> QED BY <1>3, <2>1, <2>2 DEF BeforeReset
<1>5. CASE CommandPort \/ ReadStatus \/ DataPort
  <2>1. main.at = "activate" /\ ~At("loaded") /\ ~At("reset")
    BY <1>5 DEF CommandPort, ReadStatus, DataPort, At
  <2>2. /\ main.step \in 1 .. 10 /\ (main.driver = 1 => main.step <= 8)
        /\ (main.driver = 2 => main.step <= 9 /\ main.step # 1)
    BY <1>1, <2>1, Steps
  <2>3. main.step + 1 \in Step /\ (main.driver = 2 => main.step + 1 # 1)
    BY <1>1, <2>2 DEF Step
  <2>4. Goto(main.step + 1)
    BY <1>5 DEF CommandPort, ReadStatus, DataPort, Advance
  <2> QED BY <1>1, <1>3, <2>1, <2>2, <2>3, <2>4 DEF BeforeReset
<1>6. CASE Reset
  <2>1. main.at = "activate" /\ main.driver = 2 /\ main.step = 1
    BY <1>1, <1>6, Steps DEF Reset, At
  <2>2. 2 \in Step /\ Goto(2)
    BY <1>6, <2>1 DEF Step, Reset, Advance
  <2>3. main'.at = "activate"
    BY <1>3, <2>1, <2>2
  <2> QED BY <1>6, <2>1, <2>3 DEF BeforeReset
<1>7. CASE Loaded
  <2>1. main.at = "activate" /\ Len(drivers) = 2 /\ (main.driver = 2 => main.step = 10)
    BY <1>1, <1>7, Steps DEF Loaded, At
  <2>2. main' = IF main.driver < 2 THEN [main EXCEPT !.driver = @ + 1, !.step = 1]
                ELSE [main EXCEPT !.at = "idle"]
    BY <1>7, <2>1 DEF Loaded
  <2>3. CASE main.driver = 1
    <3>1. main'.at = "activate" /\ main'.step = 1
      BY <1>1, <2>1, <2>2, <2>3 DEF Placed
    <3> QED BY <2>1, <2>3, <3>1 DEF BeforeReset
  <2>4. CASE main.driver = 2
    <3>1. main'.at = "idle"
      BY <1>1, <2>2, <2>4 DEF Placed
    <3> QED BY <2>1, <2>4, <3>1 DEF BeforeReset
  <2> QED BY <1>1, <2>3, <2>4
<1>8. CASE HandleKeyboard \/ HandleMouse \/ Answer \/ Key \/ Move \/ SendByte \/ Halt
           \/ UNCHANGED vars
  <2>1. UNCHANGED main
    BY <1>8 DEF HandleKeyboard, HandleMouse, Answer, Key, Move, SendByte, Halt, vars, Put
  <2> QED BY <2>1 DEF BeforeReset
<1> QED BY <1>2, <1>4, <1>5, <1>6, <1>7, <1>8 DEF Next, Main

\* What the steps note of what has happened is of its type.
LEMMA HistoryKept ==
  ASSUME Typed, NEW m \in BOOLEAN, NEW s \in BOOLEAN, NEW b \in BOOLEAN,
         NEW t, t \subseteq Int
  PROVE  /\ [history EXCEPT !.misread = m, !.slipped = s] \in Histories
         /\ [history EXCEPT !.slipped = s] \in Histories
         /\ [history EXCEPT !.slipped = s, !.broken = b] \in Histories
         /\ [history EXCEPT !.slipped = s, !.trail = t] \in Histories
         /\ [history EXCEPT !.trail = t] \in Histories
         /\ history.misread \in BOOLEAN /\ history.slipped \in BOOLEAN
         /\ history.broken \in BOOLEAN /\ history.trail \subseteq Int
BY DEF Typed, Histories

\* A byte is put into a packet's buffer (mouse.cpp:99-101).
LEMMA MouseKept ==
  ASSUME Typed, NEW byte \in Bytes
  PROVE  LET offset == FollowingOffset(mouse.offset)
             bytes == [mouse.buffer EXCEPT ![mouse.offset + 1] = byte]
         IN  /\ offset \in Offset /\ bytes \in [1 .. 3 -> Bytes]
             /\ [offset |-> offset, buffer |-> bytes,
                 buttons |-> IF offset = 0 THEN bytes[1].value ELSE mouse.buttons] \in Mice
<1> DEFINE offset == FollowingOffset(mouse.offset)
           bytes == [mouse.buffer EXCEPT ![mouse.offset + 1] = byte]
<1>1. /\ mouse.offset \in Offset /\ mouse.buffer \in [1 .. 3 -> Bytes]
      /\ mouse.buttons \in Value
  BY DEF Typed, Mice
<1>2. offset \in Offset
  BY <1>1 DEF FollowingOffset, Offset
<1>3. bytes \in [1 .. 3 -> Bytes]
  BY <1>1
<1>4. bytes[1].value \in Value
  <2>1. bytes[1] \in Bytes
    BY <1>3
  <2> QED BY <2>1 DEF Bytes
<1> HIDE DEF offset, bytes
<1>5. [offset |-> offset, buffer |-> bytes,
       buttons |-> IF offset = 0 THEN bytes[1].value ELSE mouse.buttons] \in Mice
  BY <1>1, <1>2, <1>3, <1>4 DEF Mice
<1> QED BY <1>2, <1>3, <1>5 DEF offset, bytes

\* The mouse is moved: its three bytes are bytes.
LEMMA TypedMove == ASSUME Typed, Move PROVE unsent' \in Seq(Bytes) /\ moves' \in Nat
<1>1. PICK packet \in Moves :
         unsent' = [n \in 1 .. 3 |-> Byte("mouse", packet[n], 3 * moves + n)]
  BY DEF Move
<1>2. moves' = moves + 1 /\ moves \in Nat
  BY DEF Move, Typed
<1>3. ASSUME NEW n \in 1 .. 3 PROVE Byte("mouse", packet[n], 3 * moves + n) \in Bytes
  <2>1. packet[n] \in Value
    BY DevicesAssumption DEF Value
  <2>2. 3 * moves + n \in Nat
    BY <1>2
  <2> QED BY <2>1, <2>2 DEF Byte, Bytes
<1>4. unsent' \in [1 .. 3 -> Bytes]
  BY <1>1, <1>3
<1>5. 3 \in Nat /\ \E n \in Nat : unsent' \in [1 .. n -> Bytes]
  BY <1>4
<1> QED BY <1>2, <1>5, SeqDef

\* Every step keeps the types (kernel.cpp:65-87, 243-264, keyboard.cpp, mouse.cpp).
LEMMA TypedNext == ASSUME Inv, [Next]_vars PROVE Typed'
<1>1. Typed /\ Placed
  BY DEF Inv
<1>2. Port \in Bytes /\ Port.value \in Value /\ status \in Value /\ config \in Value
  BY <1>1, PortGivesByte DEF Typed
<1>3. /\ history \in Histories /\ history.misread \in BOOLEAN
      /\ history.slipped \in BOOLEAN /\ history.broken \in BOOLEAN
      /\ history.trail \subseteq Int
  BY <1>1, HistoryKept DEF Typed
<1>4. CASE AddDriver \/ SelectDrivers \/ Halt \/ UNCHANGED vars
  <2>1. UNCHANGED <<status, config, out, last, target, owed, irqs, unsent, moves, mouse,
                    position, inverted, history>>
    BY <1>4 DEF AddDriver, SelectDrivers, Halt, vars, controller, screen, sent
  <2> QED BY <1>1, <2>1 DEF Typed
<1>5. ASSUME Take PROVE /\ out' = NoByte /\ last' \in Bytes
                        /\ UNCHANGED <<config, target, owed>>
  BY <1>2, <1>5 DEF Take
<1>6. CASE Drain
  <2>1. UNCHANGED <<status, irqs, mouse, position, inverted, unsent, moves>>
    BY <1>6 DEF Drain, screen, sent
  <2>2. CASE UNCHANGED <<controller, history>>
    <3>1. UNCHANGED <<config, out, last, target, owed, history>>
      BY <2>2 DEF controller
    <3> QED BY <1>1, <2>1, <3>1 DEF Typed
  <2>3. CASE Take /\ history' = [history EXCEPT !.slipped = @ \/ Slips(FALSE)]
    <3>1. (history.slipped \/ Slips(FALSE)) \in BOOLEAN
      BY <1>3 DEF Slips
    <3>2. history' \in Histories
      BY <1>1, <2>3, <3>1, HistoryKept
    <3> QED BY <1>1, <1>5, <2>1, <2>3, <3>2 DEF Typed
  <2> QED BY <1>6, <2>2, <2>3 DEF Drain
<1>7. CASE CommandPort
  <2>1. UNCHANGED <<status, out, last, irqs, mouse, position, inverted, unsent, moves,
                    history>>
    BY <1>7 DEF CommandPort, screen, sent
  <2>2. config' \in Value
    <3>1. /\ config' \in {Without(config, KEYBOARD_OFF), Without(config, MOUSE_OFF), config}
      BY <1>7 DEF CommandPort
    <3>2. /\ Without(config, 16) \in 0 .. 255 /\ Without(config, 32) \in 0 .. 255
      BY <1>2, BitsOfBytes DEF Value
    <3> QED BY <1>2, <3>1, <3>2 DEF Value, KEYBOARD_OFF, MOUSE_OFF
  <2>3. /\ owed' \subseteq {"config", "keyboard", "mouse", "streaming"}
        /\ target' \in {"keyboard", "config", "mouse"}
    BY <1>1, <1>7 DEF CommandPort, Typed
  <2> QED BY <1>1, <2>1, <2>2, <2>3 DEF Typed
<1>8. CASE ReadStatus
  <2>1. /\ UNCHANGED <<irqs, mouse, position, inverted, unsent, moves>> /\ Take
        /\ history' = [history EXCEPT
                         !.misread = @ \/ (~At("discard") /\ Port.value # config),
                         !.slipped = @ \/ Slips(FALSE)]
    BY <1>8 DEF ReadStatus, screen, sent
  <2>2. status' \in Value
    <3>1. status' \in {KeyboardStatus(Port.value), MouseStatus(Port.value), status}
      BY <1>8 DEF ReadStatus
    <3>2. /\ KeyboardStatus(Port.value) \in 0 .. 255 /\ MouseStatus(Port.value) \in 0 .. 255
      BY <1>2, StatusIsByte DEF Value
    <3> QED BY <1>2, <3>1, <3>2 DEF Value
  <2>3. history' \in Histories
    <3>1. /\ (history.slipped \/ Slips(FALSE)) \in BOOLEAN
          /\ (history.misread \/ (~At("discard") /\ Port.value # config)) \in BOOLEAN
      BY <1>3 DEF Slips
    <3> QED BY <1>1, <2>1, <3>1, HistoryKept
  <2> QED BY <1>1, <1>5, <2>1, <2>2, <2>3 DEF Typed
<1>9. CASE DataPort
  <2>1. UNCHANGED <<status, out, last, mouse, position, inverted, unsent, moves, history>>
    BY <1>9 DEF DataPort, screen, sent
  <2>2. config' \in {status, config} /\ target' = "keyboard"
    BY <1>9 DEF DataPort
  <2>3. owed' \subseteq {"config", "keyboard", "mouse", "streaming"}
    BY <1>1, <1>9 DEF DataPort, Typed
  <2>4. irqs' \subseteq {1, 12}
    BY <1>1, <1>9, LineIsRequest DEF DataPort, Typed
  <2> QED BY <1>1, <1>2, <2>1, <2>2, <2>3, <2>4 DEF Typed
<1>10. CASE Reset
  <2>1. UNCHANGED <<status, config, out, last, target, owed, irqs, unsent, moves,
                    position, inverted, history>>
    BY <1>10 DEF Reset, controller, screen, sent
  <2>2. mouse' \in Mice
    <3>1. 0 \in Offset /\ 0 \in Value /\ mouse \in Mice
      BY <1>1 DEF Offset, Value, Typed
    <3>2. mouse' = [mouse EXCEPT !.offset = 0, !.buttons = 0]
      BY <1>10 DEF Reset
    <3> QED BY <3>1, <3>2 DEF Mice
  <2> QED BY <1>1, <2>1, <2>2 DEF Typed
<1>11. CASE Loaded
  <2>1. UNCHANGED <<status, config, out, last, target, owed, irqs, mouse, unsent, moves>>
    BY <1>11 DEF Loaded, controller, sent
  <2>2. PICK cells \in SUBSET (inverted \cap Window) :
           /\ Printed(cells)
           /\ history' = [history EXCEPT !.trail = @ \cup cells]
    BY <1>11 DEF Loaded
  <2>3. inverted' \subseteq Int /\ position' = position /\ history.trail \cup cells \subseteq Int
    BY <1>1, <1>3, <2>2 DEF Printed, Typed
  <2>4. history' \in Histories
    BY <1>1, <2>2, <2>3, HistoryKept
  <2> QED BY <1>1, <2>1, <2>3, <2>4 DEF Typed
<1>12. CASE HandleKeyboard
  <2>1. UNCHANGED <<status, mouse, unsent, moves>> /\ Take /\ irqs' = irqs \ {1}
    BY <1>12 DEF HandleKeyboard, sent
  <2>2. PICK cells \in SUBSET (inverted \cap Window) :
           /\ Printed(cells)
           /\ history' = [history EXCEPT !.slipped = @ \/ Slips(FALSE),
                                         !.trail = @ \cup cells]
    BY <1>12 DEF HandleKeyboard
  <2>3. inverted' \subseteq Int /\ position' = position /\ history.trail \cup cells \subseteq Int
    BY <1>1, <1>3, <2>2 DEF Printed, Typed
  <2>4. history' \in Histories
    <3>1. (history.slipped \/ Slips(FALSE)) \in BOOLEAN
      BY <1>3 DEF Slips
    <3> QED BY <1>1, <2>2, <2>3, <3>1, HistoryKept
  <2> QED BY <1>1, <1>5, <2>1, <2>3, <2>4 DEF Typed
<1>13. CASE HandleMouse
  <2>1. UNCHANGED <<status, unsent, moves>> /\ irqs' = irqs \ {12}
    BY <1>13 DEF HandleMouse, sent
  <2>2. CASE ~OutputFull \/ out.from # "mouse"
    <3>1. UNCHANGED <<config, out, last, target, owed, mouse, position, inverted, history>>
      BY <1>13, <2>2 DEF HandleMouse, controller, screen
    <3> QED BY <1>1, <2>1, <3>1 DEF Typed
  <2>3. CASE OutputFull /\ out.from = "mouse"
    <3> DEFINE offset == FollowingOffset(mouse.offset)
               bytes == [mouse.buffer EXCEPT ![mouse.offset + 1] = out]
    <3>1. /\ Take
          /\ mouse' = [offset |-> offset, buffer |-> bytes,
                       buttons |-> IF offset = 0 THEN bytes[1].value ELSE mouse.buttons]
          /\ \/ OnMouseMove(AsInt8(bytes[2].value), AsInt8(-bytes[3].value))
             \/ UNCHANGED screen
          /\ history' = [history EXCEPT
                           !.slipped = @ \/ Slips(TRUE),
                           !.broken = @ \/ (offset = 0 /\ ~Whole(bytes))]
      BY <1>13, <2>3 DEF HandleMouse
    <3>2. out \in Bytes
      BY <1>1, <2>3, PortGivesByte
    <3>3. mouse' \in Mice /\ bytes \in [1 .. 3 -> Bytes]
      BY <1>1, <3>1, <3>2, MouseKept
    <3> HIDE DEF offset, bytes
    <3>4. history' \in Histories
      <4>1. /\ (history.slipped \/ Slips(TRUE)) \in BOOLEAN
            /\ (history.broken \/ (offset = 0 /\ ~Whole(bytes))) \in BOOLEAN
        BY <1>3 DEF Slips
      <4> QED BY <1>1, <3>1, <4>1, HistoryKept
    <3>5. position' \in Int8 \X Int8 /\ inverted' \subseteq Int
      <4>1. CASE UNCHANGED screen
        BY <1>1, <4>1 DEF screen, Typed
      <4>2. CASE OnMouseMove(AsInt8(bytes[2].value), AsInt8(-bytes[3].value))
        <5>1. bytes[2].value \in Value /\ bytes[3].value \in Value
          BY <3>3 DEF Bytes
        <5>2. AsInt8(bytes[2].value) \in Int /\ AsInt8(-bytes[3].value) \in Int
          <6>1. \A n \in Int : AsInt8(n) \in Int
            BY DEF AsInt8
          <6> QED BY <5>1, <6>1 DEF Value
        <5> QED BY <1>1, <4>2, <5>2, MoveKeepsTypes
      <4> QED BY <3>1, <4>1, <4>2
    <3> QED BY <1>1, <1>5, <2>1, <3>1, <3>3, <3>4, <3>5 DEF Typed
  <2> QED BY <2>2, <2>3
<1>14. CASE Answer
  <2>1. /\ UNCHANGED <<unsent, moves>>
        /\ owed' \subseteq {"config", "keyboard", "mouse", "streaming"}
    BY <1>1, <1>14 DEF Answer, sent, Typed
  <2>2. PICK byte \in {Byte("controller", config, 0), Byte("keyboard", ACK, 0),
                       Byte("mouse", ACK, 0)} : Put(byte)
    BY <1>14 DEF Answer
  <2>3. byte \in Bytes
    <3>1. ACK \in Value
      BY DEF ACK, Value
    <3> QED BY <1>2, <3>1 DEF Byte, Bytes
  <2> QED BY <1>1, <2>1, <2>2, <2>3, PutKeepsTypes DEF Typed
<1>15. CASE Key
  <2>1. UNCHANGED <<owed, unsent, moves>>
    BY <1>15 DEF Key
  <2>2. PICK code \in ScanCodes : Put(Byte("keyboard", code, 0))
    BY <1>15 DEF Key
  <2>3. code \in Value
    BY DevicesAssumption DEF Value
  <2>4. Byte("keyboard", code, 0) \in Bytes
    BY <2>3 DEF Byte, Bytes
  <2> QED BY <1>1, <2>1, <2>2, <2>4, PutKeepsTypes DEF Typed
<1>16. CASE Move
  <2>1. UNCHANGED <<status, config, out, last, target, owed, irqs, mouse, position,
                    inverted, history>>
    BY <1>16 DEF Move, controller, screen
  <2> QED BY <1>1, <1>16, <2>1, TypedMove DEF Typed
<1>17. CASE SendByte
  <2>1. unsent # <<>> /\ unsent \in Seq(Bytes) /\ Put(Head(unsent))
        /\ unsent' = Tail(unsent) /\ UNCHANGED <<owed, moves>>
    BY <1>1, <1>17 DEF SendByte, Typed
  <2>2. Head(unsent) \in Bytes /\ unsent' \in Seq(Bytes)
    BY <2>1, HeadTailProperties
  <2> QED BY <1>1, <2>1, <2>2, PutKeepsTypes DEF Typed
<1> QED BY <1>4, <1>6, <1>7, <1>8, <1>9, <1>10, <1>11, <1>12, <1>13, <1>14, <1>15,
           <1>16, <1>17 DEF Next, Main

--------------------------------------------------------------------------------
(* The mouse's bytes *)

\* A byte that the controller or the keyboard sends, or the mouse's answer, is none
\* of a packet.
LEMMA PutNoPacket ==
  ASSUME Typed, NEW byte \in Bytes, byte.number = 0, Put(byte), UNCHANGED <<unsent, moves>>
  PROVE  /\ ~Waiting /\ ~Waiting' /\ NextToSend' = NextToSend
         /\ NextToTake' = NextToTake
<1>1. ~Waiting
  BY DEF Put, Waiting
<1>2. ~Waiting'
  BY DEF Put, Waiting
<1>3. NextToSend' = NextToSend
  BY DEF NextToSend
<1> QED BY <1>1, <1>2, <1>3 DEF NextToTake

\* The controller's answers and the keyboard's bytes are put into the buffer with
\* number 0; only the mouse's answer comes from the mouse.
LEMMA AnswersAndKeys ==
  ASSUME Typed, Answer \/ Key
  PROVE  \E byte \in Bytes :
           /\ Put(byte) /\ byte.number = 0 /\ UNCHANGED <<unsent, moves>>
           /\ owed' \subseteq owed \cup {"streaming"}
           /\ "mouse" \notin owed => byte.from # "mouse" /\ owed' \subseteq owed
<1>1. ACK \in Value /\ config \in Value
  BY DEF ACK, Value, Typed
<1>2. CASE Answer
  <2>1. Byte("controller", config, 0) \in Bytes /\ Byte("keyboard", ACK, 0) \in Bytes
        /\ Byte("mouse", ACK, 0) \in Bytes
    BY <1>1 DEF Byte, Bytes
  <2>2. UNCHANGED <<unsent, moves>>
    BY <1>2 DEF Answer, sent
  <2>3. CASE Put(Byte("controller", config, 0)) /\ owed' = owed \ {"config"}
    BY <2>1, <2>2, <2>3 DEF Byte
  <2>4. CASE Put(Byte("keyboard", ACK, 0)) /\ owed' = owed \ {"keyboard"}
    BY <2>1, <2>2, <2>4 DEF Byte
  <2>5. CASE /\ Put(Byte("mouse", ACK, 0)) /\ "mouse" \in owed
             /\ owed' = (owed \ {"mouse"}) \cup {"streaming"}
    BY <2>1, <2>2, <2>5 DEF Byte
  <2> QED BY <1>2, <2>3, <2>4, <2>5 DEF Answer
<1>3. CASE Key
  <2>1. PICK code \in ScanCodes : Put(Byte("keyboard", code, 0))
    BY <1>3 DEF Key
  <2>2. Byte("keyboard", code, 0) \in Bytes
    <3>1. code \in Value
      BY DevicesAssumption DEF Value
    <3> QED BY <3>1 DEF Byte, Bytes
  <2> QED BY <1>3, <2>1, <2>2 DEF Key, Byte
<1> QED BY <1>2, <1>3

\* The mouse sends the next byte of its packet.
LEMMA ByteSent ==
  ASSUME Typed, Numbered, SendByte
  PROVE  /\ ~Waiting /\ Waiting' /\ out' = unsent[1] /\ out'.from = "mouse"
         /\ out'.number = NextToSend /\ NextToSend' = NextToSend + 1
         /\ NextToTake' = NextToTake
         /\ Len(unsent') = Len(unsent) - 1 /\ Len(unsent) >= 1
         /\ \A k \in 1 .. Len(unsent') : unsent'[k] = unsent[k + 1]
<1>1. /\ unsent \in Seq(Bytes) /\ unsent # <<>> /\ ~OutputFull
      /\ out' = Head(unsent) /\ unsent' = Tail(unsent) /\ moves' = moves
      /\ moves \in Nat /\ Len(unsent) \in Nat
  BY DEF SendByte, Put, Typed
<1>2. /\ Len(unsent) >= 1 /\ Len(unsent') = Len(unsent) - 1 /\ out' = unsent[1]
      /\ \A k \in 1 .. Len(unsent') : unsent'[k] = unsent[k + 1]
  BY <1>1, HeadTailProperties
<1>3. out' \in Bytes /\ out'.from = "mouse" /\ out'.number = NextToSend
  <2>1. 1 \in 1 .. Len(unsent)
    BY <1>1, <1>2
  <2>2. unsent[1] \in Bytes
    BY <1>1, <2>1
  <2>3. unsent[1].from = "mouse" /\ unsent[1].number = 3 * moves - Len(unsent) + 1
    BY <2>1 DEF Numbered
  <2> QED BY <1>2, <2>2, <2>3 DEF NextToSend
<1>4. NextToSend >= 1 /\ NextToSend' = NextToSend + 1 /\ NextToSend \in Int
  <2>1. Len(unsent) <= 3 * moves
    BY DEF Numbered
  <2> QED BY <1>1, <1>2, <2>1 DEF NextToSend
<1>5. ~Waiting /\ Waiting'
  <2>1. OutputFull'
    BY <1>3, NoByteIsNone DEF OutputFull
  <2> QED BY <1>1, <1>3, <1>4, <2>1 DEF Waiting
<1>6. NextToTake' = NextToTake
  <2>1. NextToTake = NextToSend /\ NextToTake' = NextToSend' - 1
    BY <1>5 DEF NextToTake
  <2> QED BY <1>4, <2>1
<1> QED BY <1>2, <1>3, <1>4, <1>5, <1>6

\* The mouse is moved, and the three bytes of the packet are the next.
LEMMA PacketBegun ==
  ASSUME Typed, Numbered, Move
  PROVE  /\ NextToSend' = NextToSend /\ NextToTake' = NextToTake
         /\ Waiting' = Waiting /\ moves' = moves + 1
         /\ Len(unsent') = 3 /\ "streaming" \in owed
         /\ \A k \in 1 .. 3 : unsent'[k].from = "mouse" /\ unsent'[k].number = 3 * moves + k
<1>1. PICK packet \in Moves :
         unsent' = [n \in 1 .. 3 |-> Byte("mouse", packet[n], 3 * moves + n)]
  BY DEF Move
<1>2. /\ unsent = <<>> /\ moves' = moves + 1 /\ moves \in Nat /\ out' = out
      /\ "streaming" \in owed
  BY DEF Move, controller, Typed
<1>3. Len(unsent') = 3
  <2>1. DOMAIN unsent' = 1 .. 3
    BY <1>1
  <2>2. unsent' \in Seq(Bytes)
    BY TypedMove
  <2> QED BY <2>1, <2>2
<1>4. ASSUME NEW k \in 1 .. 3
      PROVE  unsent'[k].from = "mouse" /\ unsent'[k].number = 3 * moves + k
  <2>1. unsent'[k] = Byte("mouse", packet[k], 3 * moves + k)
    BY <1>1
  <2> QED BY <2>1 DEF Byte
<1>5. NextToSend' = NextToSend
  <2>1. Len(unsent) = 0
    BY <1>2
  <2> QED BY <1>2, <1>3, <2>1 DEF NextToSend
<1>6. Waiting' = Waiting
  BY <1>2 DEF Waiting, OutputFull
<1> QED BY <1>2, <1>3, <1>4, <1>5, <1>6 DEF NextToTake

\* A byte is taken out of the buffer, by whomever.
LEMMA ByteTaken ==
  ASSUME Typed, Numbered, Take, UNCHANGED <<unsent, moves>>
  PROVE  /\ ~Waiting' /\ NextToSend' = NextToSend /\ NextToSend \in Int
         /\ Waiting => NextToTake = out.number /\ NextToTake' = NextToTake + 1
         /\ ~Waiting => NextToTake' = NextToTake
<1>1. ~Waiting'
  BY DEF Take, Waiting, OutputFull
<1>2. NextToSend' = NextToSend
  BY DEF NextToSend
<1>3. NextToSend \in Int
  <2>1. moves \in Nat /\ Len(unsent) \in Nat
    BY DEF Typed
  <2> QED BY <2>1 DEF NextToSend
<1>4. NextToTake' = NextToSend
  BY <1>1, <1>2 DEF NextToTake
<1>5. Waiting => NextToTake = NextToSend - 1 /\ out.number = NextToSend - 1
  BY DEF NextToTake, Numbered
<1>6. ~Waiting => NextToTake = NextToSend
  BY DEF NextToTake
<1> QED BY <1>1, <1>2, <1>3, <1>4, <1>5, <1>6

\* What a step does to the mouse's bytes: nothing, or somebody else takes the one
\* in the buffer, or the mouse's handler, the answers and the mouse do as follows.
StillStep ==
  /\ UNCHANGED <<moves, unsent, out>> /\ (UNCHANGED mouse \/ Reset)
  /\ history'.slipped = history.slipped /\ history'.broken = history.broken

TakenByOther ==
  /\ Take /\ UNCHANGED <<unsent, moves, mouse>>
  /\ history'.slipped = (history.slipped \/ Slips(FALSE))
  /\ history'.broken = history.broken

MousesByte == HandleMouse /\ OutputFull /\ out.from = "mouse"

\* Every step is one of these (keyboard.cpp:38-50, mouse.cpp:90-116).
LEMMA ByteSteps ==
  ASSUME Inv, [Next]_vars
  PROVE  StillStep \/ TakenByOther \/ MousesByte \/ Answer \/ Key \/ SendByte \/ Move
<1>1. history \in Histories
  BY DEF Inv, Typed
<1>2. CASE AddDriver \/ SelectDrivers \/ CommandPort \/ DataPort \/ Halt \/ UNCHANGED vars
  <2>1. UNCHANGED <<moves, unsent, out, mouse, history>>
    BY <1>2 DEF AddDriver, SelectDrivers, CommandPort, DataPort, Halt, vars, controller, sent
  <2> QED BY <2>1 DEF StillStep
<1>3. CASE Reset
  <2>1. UNCHANGED <<moves, unsent, out, history>>
    BY <1>3 DEF Reset, controller, sent
  <2> QED BY <1>3, <2>1 DEF StillStep
<1>4. CASE Loaded
  <2>1. PICK cells : history' = [history EXCEPT !.trail = @ \cup cells]
    BY <1>4 DEF Loaded
  <2>2. history'.slipped = history.slipped /\ history'.broken = history.broken
    BY <1>1, <2>1 DEF Histories
  <2>3. UNCHANGED <<moves, unsent, out, mouse>>
    BY <1>4 DEF Loaded, controller, sent
  <2> QED BY <2>2, <2>3 DEF StillStep
<1>5. CASE Drain
  <2>1. UNCHANGED <<unsent, moves, mouse>>
    BY <1>5 DEF Drain, sent
  <2>2. CASE UNCHANGED <<controller, history>>
    <3>1. UNCHANGED <<out, history>>
      BY <2>2 DEF controller
    <3> QED BY <2>1, <3>1 DEF StillStep
  <2>3. CASE Take /\ history' = [history EXCEPT !.slipped = @ \/ Slips(FALSE)]
    <3>1. /\ history'.slipped = (history.slipped \/ Slips(FALSE))
          /\ history'.broken = history.broken
      BY <1>1, <2>3 DEF Histories
    <3> QED BY <2>1, <2>3, <3>1 DEF TakenByOther
  <2> QED BY <1>5, <2>2, <2>3 DEF Drain
<1>6. CASE ReadStatus
  <2>1. UNCHANGED <<unsent, moves, mouse>> /\ Take
    BY <1>6 DEF ReadStatus, sent
  <2>2. history' = [history EXCEPT
                      !.misread = @ \/ (~At("discard") /\ Port.value # config),
                      !.slipped = @ \/ Slips(FALSE)]
    BY <1>6 DEF ReadStatus
  <2>3. /\ history'.slipped = (history.slipped \/ Slips(FALSE))
        /\ history'.broken = history.broken
    BY <1>1, <2>2 DEF Histories
  <2> QED BY <2>1, <2>3 DEF TakenByOther
<1>7. CASE HandleKeyboard
  <2>1. UNCHANGED <<unsent, moves, mouse>> /\ Take
    BY <1>7 DEF HandleKeyboard, sent
  <2>2. PICK cells : history' = [history EXCEPT !.slipped = @ \/ Slips(FALSE),
                                                !.trail = @ \cup cells]
    BY <1>7 DEF HandleKeyboard
  <2>3. /\ history'.slipped = (history.slipped \/ Slips(FALSE))
        /\ history'.broken = history.broken
    BY <1>1, <2>2 DEF Histories
  <2> QED BY <2>1, <2>3 DEF TakenByOther
<1>8. CASE HandleMouse
  <2>1. CASE ~OutputFull \/ out.from # "mouse"
    <3>1. UNCHANGED <<moves, unsent, out, mouse, history>>
      BY <1>8, <2>1 DEF HandleMouse, controller, sent
    <3> QED BY <3>1 DEF StillStep
  <2> QED BY <1>8, <2>1 DEF MousesByte
<1> QED BY <1>2, <1>3, <1>4, <1>5, <1>6, <1>7, <1>8 DEF Next, Main

\* Before its driver has told the mouse to, it does not send, and nobody sends on
\* its behalf (mouse.cpp:53-86).
LEMMA QuietNext == ASSUME Inv, [Next]_vars PROVE Quiet'
<1> SUFFICES ASSUME BeforeReset' PROVE
      /\ moves' = 0 /\ unsent' = <<>>
      /\ "mouse" \notin owed' /\ "streaming" \notin owed'
      /\ target' # "mouse"
      /\ ~(OutputFull /\ out.from = "mouse")'
  BY DEF Quiet
<1>1. /\ BeforeReset /\ Typed /\ Placed
      /\ moves = 0 /\ unsent = <<>>
      /\ "mouse" \notin owed /\ "streaming" \notin owed
      /\ target # "mouse"
      /\ ~(OutputFull /\ out.from = "mouse")
  BY PlaceMoves DEF Inv, Quiet
<1>2. CASE Answer \/ Key
  <2>1. PICK byte \in Bytes :
           /\ Put(byte) /\ UNCHANGED <<unsent, moves>>
           /\ byte.from # "mouse" /\ owed' \subseteq owed
    BY <1>1, <1>2, AnswersAndKeys
  <2>2. out' = byte /\ target' = target
    BY <2>1 DEF Put
  <2> QED BY <1>1, <2>1, <2>2
<1>3. ~SendByte /\ ~Move
  BY <1>1 DEF SendByte, Move
<1>4. CASE StillStep \/ TakenByOther \/ MousesByte
  <2>1. moves' = moves /\ unsent' = unsent /\ (out' = out \/ out' = NoByte)
    <3>1. CASE MousesByte
      BY <1>1, <3>1 DEF MousesByte
    <3> QED BY <1>4, <3>1 DEF StillStep, TakenByOther, Take
  <2>2. ~(OutputFull /\ out.from = "mouse")'
    BY <1>1, <2>1 DEF OutputFull
  <2>3. CASE Answer \/ Key
    BY <1>2, <2>3
  <2>4. CASE CommandPort
    <3>1. ~(Op.value = 212)
      <4>1. main.at = "activate" /\ At("command") /\ ~At("reset")
        BY <2>4 DEF CommandPort, At
      <4>2. main.driver = 1 \/ main.step = 1
        BY <1>1, <4>1 DEF BeforeReset
      <4>3. Op.value = 212 => main.driver = 2 /\ main.step # 1
        BY <1>1, <4>1, Steps
      <4> QED BY <4>2, <4>3
    <3>2. owed' \subseteq owed \cup {"config"}
      BY <2>4 DEF CommandPort
    <3>3. target' \in {"config", target}
      BY <2>4, <3>1 DEF CommandPort
    <3> QED BY <1>1, <2>1, <2>2, <3>2, <3>3
  <2>5. CASE DataPort
    <3>1. target' = "keyboard" /\ owed' \subseteq owed \cup {target}
      BY <2>5 DEF DataPort
    <3>2. target # "streaming"
      BY <1>1 DEF Typed
    <3> QED BY <1>1, <2>1, <2>2, <3>1, <3>2
  <2>6. CASE AddDriver \/ SelectDrivers \/ Reset \/ Loaded \/ Halt \/ UNCHANGED vars
    <3>1. UNCHANGED <<owed, target>>
      BY <2>6 DEF AddDriver, SelectDrivers, Reset, Loaded, Halt, vars, controller
    <3> QED BY <1>1, <2>1, <2>2, <3>1
  <2>7. CASE Drain \/ ReadStatus \/ HandleKeyboard
    <3>1. UNCHANGED <<owed, target>>
      BY <2>7 DEF Drain, ReadStatus, HandleKeyboard, Take, controller
    <3> QED BY <1>1, <2>1, <2>2, <3>1
  <2>8. CASE HandleMouse
    <3>1. UNCHANGED <<owed, target>>
      BY <1>1, <2>8 DEF HandleMouse, controller
    <3> QED BY <1>1, <2>1, <2>2, <3>1
  <2> QED BY <1>3, <2>3, <2>4, <2>5, <2>6, <2>7, <2>8 DEF Next, Main
<1> QED BY <1>1, <1>2, <1>3, <1>4, ByteSteps

\* The numbers of the packets' bytes go on without a gap (mouse.cpp:99).
LEMMA NumberedNext == ASSUME Inv, [Next]_vars PROVE Numbered'
<1>1. Typed /\ Numbered /\ moves \in Nat /\ Len(unsent) \in Nat
  BY DEF Inv, Typed
<1>2. ASSUME UNCHANGED <<unsent, moves>>, ~Waiting' \/ out' = out PROVE Numbered'
  <2>1. NextToSend' = NextToSend /\ (out' = out => (Waiting' <=> Waiting))
    BY <1>2 DEF NextToSend, Waiting, OutputFull
  <2> QED BY <1>1, <1>2, <2>1 DEF Numbered
<1>3. CASE StillStep
  BY <1>2, <1>3 DEF StillStep
<1>4. CASE TakenByOther \/ MousesByte
  <2>1. Take /\ UNCHANGED <<unsent, moves>>
    BY <1>4 DEF TakenByOther, MousesByte, HandleMouse, sent
  <2> QED BY <1>1, <1>2, <2>1, ByteTaken
<1>5. CASE Answer \/ Key
  <2>1. PICK byte \in Bytes : /\ Put(byte) /\ byte.number = 0 /\ UNCHANGED <<unsent, moves>>
    BY <1>1, <1>5, AnswersAndKeys
  <2> QED BY <1>1, <1>2, <2>1, PutNoPacket
<1>6. CASE SendByte
  <2>1. /\ Waiting' => out'.number = NextToSend' - 1
    <3>1. NextToSend \in Int
      BY <1>1 DEF NextToSend
    <3> QED BY <1>1, <1>6, <3>1, ByteSent
  <2>2. moves' = moves /\ Len(unsent') = Len(unsent) - 1 /\ Len(unsent) >= 1
    BY <1>1, <1>6, ByteSent DEF SendByte
  <2>3. ASSUME NEW k \in 1 .. Len(unsent')
        PROVE  /\ unsent'[k].from = "mouse"
               /\ unsent'[k].number = 3 * moves' - Len(unsent') + k
    <3>1. k + 1 \in 1 .. Len(unsent) /\ unsent'[k] = unsent[k + 1]
      BY <1>1, <1>6, <2>2, ByteSent
    <3>2. unsent[k + 1].from = "mouse" /\ unsent[k + 1].number = 3 * moves - Len(unsent) + (k + 1)
      BY <1>1, <3>1 DEF Numbered
    <3> QED BY <1>1, <2>2, <3>1, <3>2
  <2>4. Len(unsent') <= 3 * moves'
    BY <1>1, <2>2 DEF Numbered
  <2> QED BY <2>1, <2>3, <2>4 DEF Numbered
<1>7. CASE Move
  <2>1. /\ NextToSend' = NextToSend /\ (Waiting' <=> Waiting) /\ moves' = moves + 1
        /\ Len(unsent') = 3 /\ out' = out
        /\ \A k \in 1 .. 3 : unsent'[k].from = "mouse" /\ unsent'[k].number = 3 * moves + k
    BY <1>1, <1>7, PacketBegun DEF Move, controller
  <2>2. Waiting' => out'.number = NextToSend' - 1
    BY <1>1, <2>1 DEF Numbered
  <2>3. \A k \in 1 .. Len(unsent') :
          unsent'[k].from = "mouse" /\ unsent'[k].number = 3 * moves' - Len(unsent') + k
    BY <1>1, <2>1
  <2>4. Len(unsent') <= 3 * moves'
    BY <1>1, <2>1
  <2> QED BY <2>2, <2>3, <2>4 DEF Numbered
<1> QED BY <1>3, <1>4, <1>5, <1>6, <1>7, ByteSteps

\* A byte of a packet reaches the mouse's handler: it goes where it belongs, and the
\* third one completes the packet (mouse.cpp:99-104).
LEMMA InPlace ==
  ASSUME Inv, MousesByte, ~history'.slipped
  PROVE  /\ ~history.slipped /\ ~BeforeReset
         /\ NextToTake \in Int /\ NextToTake' = NextToTake + 1
         /\ mouse'.offset = (NextToTake' - 1) % 3
         /\ \A k \in 1 .. mouse'.offset :
              mouse'.buffer[k].number = NextToTake' - 1 - mouse'.offset + k
         /\ history'.broken = history.broken
<1> DEFINE offset == FollowingOffset(mouse.offset)
           bytes == [mouse.buffer EXCEPT ![mouse.offset + 1] = out]
<1>1. /\ Take /\ UNCHANGED <<unsent, moves>>
      /\ mouse'.offset = offset /\ mouse'.buffer = bytes
      /\ history' = [history EXCEPT
                       !.slipped = @ \/ Slips(TRUE),
                       !.broken = @ \/ (offset = 0 /\ ~Whole(bytes))]
  BY DEF MousesByte, HandleMouse, sent
<1>2. /\ history'.slipped = (history.slipped \/ Slips(TRUE))
      /\ history'.broken = (history.broken \/ (offset = 0 /\ ~Whole(bytes)))
      /\ history.broken \in BOOLEAN
  BY <1>1 DEF Inv, Typed, Histories
<1>3. ~history.slipped /\ Waiting
  BY <1>2 DEF MousesByte, Slips, Waiting
<1>4. ~BeforeReset
  BY DEF Inv, Quiet, MousesByte
<1>5. /\ NextToTake = out.number /\ NextToTake' = NextToTake + 1 /\ NextToTake \in Int
  <2>1. NextToTake = out.number /\ NextToTake' = NextToTake + 1 /\ NextToSend \in Int
    BY <1>1, <1>3, ByteTaken DEF Inv
  <2> QED BY <2>1 DEF NextToTake
<1>6. /\ mouse.offset = (NextToTake - 1) % 3
      /\ \A k \in 1 .. mouse.offset :
           mouse.buffer[k].number = NextToTake - 1 - mouse.offset + k
  BY <1>3, <1>4 DEF Inv, InStep
<1>7. mouse.offset \in 0 .. 2 /\ mouse.buffer \in [1 .. 3 -> Bytes]
  BY DEF Inv, Typed, Mice, Offset
<1> DEFINE n == NextToTake
<1>8. n \in Int /\ NextToTake' = n + 1 /\ out.number = n
  BY <1>5
<1>9. mouse.offset = (n - 1) % 3
      /\ \A k \in 1 .. mouse.offset : mouse.buffer[k].number = n - 1 - mouse.offset + k
  BY <1>6
<1> HIDE DEF n
<1>10. offset = n % 3 /\ (mouse.offset < 2 => offset = mouse.offset + 1)
       /\ (mouse.offset = 2 => offset = 0) /\ n % 3 = (n + 1 - 1) % 3
  BY <1>7, <1>8, <1>9 DEF FollowingOffset
<1>11. \A k \in 1 .. mouse.offset + 1 : bytes[k].number = n - 1 - mouse.offset + k
  <2>1. ASSUME NEW k \in 1 .. mouse.offset + 1
        PROVE  bytes[k].number = n - 1 - mouse.offset + k
    <3>1. k \in 1 .. 3 /\ mouse.offset + 1 \in 1 .. 3
      BY <1>7
    <3>2. CASE k = mouse.offset + 1
      <4>1. bytes[k] = out
        BY <1>7, <3>1, <3>2
      <4>2. n - 1 - mouse.offset + k = n
        BY <1>7, <1>8, <3>2
      <4> QED BY <1>8, <4>1, <4>2
    <3>3. CASE k # mouse.offset + 1
      <4>1. k \in 1 .. mouse.offset
        BY <1>7, <3>3
      <4>2. bytes[k] = mouse.buffer[k]
        BY <1>7, <3>1, <3>3
      <4> QED BY <1>9, <4>1, <4>2
    <3> QED BY <3>2, <3>3
  <2> QED BY <2>1
<1> HIDE DEF bytes
<1>12. offset = 0 => Whole(bytes)
  <2>1. SUFFICES ASSUME mouse.offset = 2 PROVE Whole(bytes)
    BY <1>7, <1>10
  <2>2. bytes[1].number = n - 2 /\ bytes[2].number = n - 1 /\ bytes[3].number = n
    <3>1. 1 \in 1 .. 2 + 1 /\ 2 \in 1 .. 2 + 1 /\ 3 \in 1 .. 2 + 1
      OBVIOUS
    <3>2. /\ bytes[1].number = n - 1 - 2 + 1 /\ bytes[2].number = n - 1 - 2 + 2
          /\ bytes[3].number = n - 1 - 2 + 3
      BY <1>11, <2>1, <3>1
    <3> QED BY <1>8, <3>2
  <2>3. (n - 1) % 3 = 2 => (n - 2) % 3 = 1
    BY <1>8
  <2>4. bytes[1].number % 3 = 1
    BY <1>9, <2>1, <2>2, <2>3
  <2>5. ASSUME NEW k \in 2 .. 3 PROVE bytes[k].number = bytes[k - 1].number + 1
    <3>1. CASE k = 2
      <4>1. k - 1 = 1
        BY <3>1
      <4>2. n - 1 = n - 2 + 1
        BY <1>8
      <4> QED BY <2>2, <3>1, <4>1, <4>2
    <3>2. CASE k = 3
      <4>1. k - 1 = 2
        BY <3>2
      <4>2. n = n - 1 + 1
        BY <1>8
      <4> QED BY <2>2, <3>2, <4>1, <4>2
    <3> QED BY <3>1, <3>2
  <2> QED BY <2>4, <2>5 DEF Whole
<1>13. ASSUME NEW k \in 1 .. offset PROVE bytes[k].number = n + 1 - 1 - offset + k
  <2>1. mouse.offset < 2 /\ offset = mouse.offset + 1
    <3>1. offset # 0
      BY <1>13
    <3> QED BY <1>7, <1>10, <3>1
  <2>2. bytes[k].number = n - 1 - mouse.offset + k
    BY <1>11, <2>1
  <2> QED BY <1>7, <1>8, <2>1, <2>2
<1> HIDE DEF offset
<1>14. mouse'.offset = (NextToTake' - 1) % 3
  BY <1>1, <1>8, <1>10
<1>15. \A k \in 1 .. mouse'.offset :
         mouse'.buffer[k].number = NextToTake' - 1 - mouse'.offset + k
  <2>1. ASSUME NEW k \in 1 .. mouse'.offset
        PROVE  mouse'.buffer[k].number = NextToTake' - 1 - mouse'.offset + k
    <3>1. k \in 1 .. offset /\ mouse'.offset = offset /\ mouse'.buffer[k] = bytes[k]
      BY <1>1, <2>1
    <3>2. bytes[k].number = n + 1 - 1 - offset + k
      BY <1>13, <3>1
    <3>3. n \in Int /\ offset \in Int /\ k \in Int
      BY <1>7, <1>8, <1>10
    <3>4. NextToTake' - 1 - mouse'.offset + k = n + 1 - 1 - offset + k
      BY <1>8, <3>1, <3>3
    <3> QED BY <3>1, <3>2, <3>4
  <2> QED BY <2>1
<1>16. history'.broken = history.broken
  BY <1>2, <1>12
<1> QED BY <1>3, <1>4, <1>5, <1>14, <1>15, <1>16

\* The driver stays in step, and no packet is made of anything else, until a byte
\* has gone astray (mouse.cpp:90-116).
LEMMA InStepNext == ASSUME Inv, [Next]_vars PROVE InStep' /\ PacketsWhole'
<1>1. Typed /\ Placed /\ Numbered /\ InStep /\ PacketsWhole /\ Quiet
  BY DEF Inv
<1>2. BeforeReset' => BeforeReset
  BY PlaceMoves
<1>3. ASSUME BeforeReset' = BeforeReset \/ ~BeforeReset, NextToTake' = NextToTake,
             UNCHANGED mouse, history'.slipped = history.slipped
      PROVE  InStep'
  <2>1. SUFFICES ASSUME ~history'.slipped, ~BeforeReset'
                 PROVE  /\ mouse'.offset = (NextToTake' - 1) % 3
                        /\ \A k \in 1 .. mouse'.offset :
                             mouse'.buffer[k].number = NextToTake' - 1 - mouse'.offset + k
    BY DEF InStep
  <2>2. ~history.slipped /\ ~BeforeReset
    BY <1>3, <2>1
  <2> QED BY <1>1, <1>3, <2>2 DEF InStep
<1>4. ASSUME ~Reset PROVE BeforeReset' = BeforeReset \/ ~BeforeReset
  <2>1. BeforeReset => BeforeReset'
    BY <1>4, PlaceMoves
  <2> QED BY <2>1 DEF BeforeReset
<1>5. CASE StillStep
  <2>1. NextToTake' = NextToTake /\ history'.slipped = history.slipped
        /\ history'.broken = history.broken
    BY <1>5 DEF StillStep, NextToTake, NextToSend, Waiting, OutputFull
  <2>2. PacketsWhole'
    BY <1>1, <2>1 DEF PacketsWhole
  <2>3. CASE ~Reset
    BY <1>3, <1>4, <1>5, <2>1, <2>2, <2>3 DEF StillStep
  <2>4. CASE Reset
    <3>1. main.driver = 2 /\ main.step = 1 /\ main.at = "activate"
      BY <1>1, <2>4, Steps DEF Reset, At
    <3>2. moves = 0 /\ unsent = <<>> /\ ~(OutputFull /\ out.from = "mouse")
      BY <1>1, <3>1 DEF Quiet, BeforeReset
    <3>3. NextToTake = 1
      <4>1. ~Waiting /\ Len(unsent) = 0
        BY <3>2 DEF Waiting
      <4> QED BY <3>2, <4>1 DEF NextToTake, NextToSend
    <3>4. mouse'.offset = 0
      <4>1. mouse' = [mouse EXCEPT !.offset = 0, !.buttons = 0] /\ mouse \in Mice
        BY <1>1, <2>4 DEF Reset, Typed
      <4> QED BY <4>1 DEF Mice
    <3>5. (1 - 1) % 3 = 0 /\ 1 .. 0 = {}
      OBVIOUS
    <3>6. InStep'
      BY <2>1, <3>3, <3>4, <3>5 DEF InStep
    <3> QED BY <2>2, <3>6
  <2> QED BY <2>3, <2>4
<1>6. CASE TakenByOther /\ ~Reset
  <2>1. /\ Take /\ UNCHANGED <<unsent, moves, mouse>>
        /\ history'.slipped = (history.slipped \/ Slips(FALSE))
        /\ history'.broken = history.broken
    BY <1>6 DEF TakenByOther
  <2>2. PacketsWhole'
    BY <1>1, <2>1 DEF PacketsWhole
  <2>3. InStep'
    <3>1. SUFFICES ASSUME ~history'.slipped PROVE InStep'
      BY DEF InStep
    <3>2. ~Waiting /\ ~history.slipped
      BY <2>1, <3>1 DEF Slips, Waiting
    <3>3. NextToTake' = NextToTake
      BY <1>1, <2>1, <3>2, ByteTaken
    <3>4. history'.slipped = history.slipped
      <4>1. history.slipped \in BOOLEAN
        BY <1>1, HistoryKept
      <4> QED BY <2>1, <3>1, <3>2, <4>1
    <3> QED BY <1>3, <1>4, <1>6, <2>1, <3>3, <3>4
  <2> QED BY <2>2, <2>3
<1>7. CASE MousesByte
  <2>1. CASE ~history'.slipped
    <3>1. InStep'
      BY <1>7, <2>1, InPlace DEF InStep
    <3>2. PacketsWhole'
      BY <1>1, <1>7, <2>1, InPlace DEF PacketsWhole
    <3> QED BY <3>1, <3>2
  <2>2. CASE history'.slipped
    BY <2>2 DEF InStep, PacketsWhole
  <2> QED BY <2>1, <2>2
<1>8. CASE Answer \/ Key \/ SendByte \/ Move
  <2>1. UNCHANGED <<main, mouse, history>>
    BY <1>8 DEF Answer, Key, SendByte, Move, Put
  <2>2. BeforeReset' = BeforeReset
    BY <2>1 DEF BeforeReset
  <2>3. NextToTake' = NextToTake
    <3>1. CASE Answer \/ Key
      <4>1. PICK byte \in Bytes : /\ Put(byte) /\ byte.number = 0
                                  /\ UNCHANGED <<unsent, moves>>
        BY <1>1, <3>1, AnswersAndKeys
      <4> QED BY <1>1, <4>1, PutNoPacket
    <3> QED BY <1>1, <1>8, <3>1, ByteSent, PacketBegun
  <2>4. PacketsWhole'
    BY <1>1, <2>1 DEF PacketsWhole
  <2> QED BY <1>3, <2>1, <2>2, <2>3, <2>4
<1>9. Reset => StillStep
  BY DEF Reset, controller, sent, StillStep
<1> QED BY <1>5, <1>6, <1>7, <1>8, <1>9, ByteSteps

--------------------------------------------------------------------------------
(* The cursor and the scan *)

\* The cells whose colours are swapped stay the cursor's and the one of its origin,
\* whatever is printed over them; a movement swaps back the cell it leaves
\* (kernel.cpp:65-87, console.cpp:36-42).
LEMMA TrailNext == ASSUME Inv, [Next]_vars PROVE CursorTrail'
<1>1. Typed /\ CursorTrail /\ history \in Histories
  BY DEF Inv, Typed
<1> DEFINE here == Cell(position)
           origin == Cell(history.origin)
<1>2. /\ \A x : x \notin history.trail =>
              (x \in inverted <=> here # origin /\ x \in {here, origin})
      /\ \/ position = history.origin
         \/ position \in (0 .. Cols - 1) \X (0 .. Rows - 1)
  BY <1>1 DEF CursorTrail
<1>3. ASSUME UNCHANGED <<position, inverted>>, history'.trail = history.trail,
             history'.origin = history.origin
      PROVE  CursorTrail'
  BY <1>1, <1>3 DEF CursorTrail, Cell
<1>4. ASSUME NEW cells, Printed(cells), history'.trail = history.trail \cup cells,
             history'.origin = history.origin
      PROVE  CursorTrail'
  <2>1. position' = position /\ inverted' = inverted \ cells
    BY <1>4 DEF Printed
  <2>2. Cell(position') = here /\ Cell(history'.origin) = origin
    BY <1>4, <2>1 DEF Cell
  <2> HIDE DEF here, origin
  <2>3. inverted' \ history'.trail =
          (IF here = origin THEN {} ELSE {here, origin}) \ history'.trail
    BY <1>2, <1>4, <2>1
  <2> QED BY <1>2, <1>4, <2>1, <2>2, <2>3 DEF CursorTrail, Cell
<1>5. ASSUME NEW dx \in Int, NEW dy \in Int, OnMouseMove(dx, dy),
             history'.trail = history.trail, history'.origin = history.origin
      PROVE  CursorTrail'
  <2> DEFINE there == Cell(position')
  <2>1. position' \in (0 .. Cols - 1) \X (0 .. Rows - 1)
    BY <1>1, <1>5, MoveKeepsTypes
  <2>2. inverted' = ShiftConsoleColors(ShiftConsoleColors(inverted, here), there)
    BY <1>5 DEF OnMouseMove
  <2>3. Cell(history'.origin) = origin
    BY <1>5 DEF Cell
  <2> HIDE DEF here, there, origin
  <2>4. \A x : x \notin history.trail => (x \in inverted' <=> there # origin /\ x \in {there, origin})
    BY <1>2, <2>2 DEF ShiftConsoleColors
  <2>5. inverted' \ history'.trail =
          (IF there = origin THEN {} ELSE {there, origin}) \ history'.trail
    BY <1>5, <2>4
  <2> QED BY <2>1, <2>3, <2>5 DEF CursorTrail, Cell, there
<1>6. CASE AddDriver \/ SelectDrivers \/ CommandPort \/ DataPort \/ Reset \/ Halt
           \/ Answer \/ Key \/ Move \/ SendByte \/ UNCHANGED vars
  <2>1. UNCHANGED <<position, inverted, history>>
    BY <1>6 DEF AddDriver, SelectDrivers, CommandPort, DataPort, Reset, Halt, Answer, Key,
                Move, SendByte, Put, vars, screen
  <2> QED BY <1>3, <2>1
<1>7. CASE Drain \/ ReadStatus
  <2>1. UNCHANGED <<position, inverted>>
    BY <1>7 DEF Drain, ReadStatus, screen
  <2>2. \/ history' = history
        \/ history' = [history EXCEPT !.slipped = @ \/ Slips(FALSE)]
        \/ history' = [history EXCEPT
                         !.misread = @ \/ (~At("discard") /\ Port.value # config),
                         !.slipped = @ \/ Slips(FALSE)]
    BY <1>7 DEF Drain, ReadStatus
  <2>3. history'.trail = history.trail /\ history'.origin = history.origin
    BY <1>1, <2>2 DEF Histories
  <2> QED BY <1>3, <2>1, <2>3
<1>8. CASE Loaded
  <2>1. PICK cells \in SUBSET (inverted \cap Window) :
           /\ Printed(cells)
           /\ history' = [history EXCEPT !.trail = @ \cup cells]
    BY <1>8 DEF Loaded
  <2>2. history'.trail = history.trail \cup cells /\ history'.origin = history.origin
    BY <1>1, <2>1 DEF Histories
  <2> QED BY <1>4, <2>1, <2>2
<1>9. CASE HandleKeyboard
  <2>1. PICK cells \in SUBSET (inverted \cap Window) :
           /\ Printed(cells)
           /\ history' = [history EXCEPT !.slipped = @ \/ Slips(FALSE),
                                         !.trail = @ \cup cells]
    BY <1>9 DEF HandleKeyboard
  <2>2. history'.trail = history.trail \cup cells /\ history'.origin = history.origin
    BY <1>1, <2>1 DEF Histories
  <2> QED BY <1>4, <2>1, <2>2
<1>10. CASE HandleMouse
  <2>1. CASE ~OutputFull \/ out.from # "mouse"
    <3>1. UNCHANGED <<position, inverted, history>>
      BY <1>10, <2>1 DEF HandleMouse, screen
    <3> QED BY <1>3, <3>1
  <2>2. CASE OutputFull /\ out.from = "mouse"
    <3> DEFINE offset == FollowingOffset(mouse.offset)
               bytes == [mouse.buffer EXCEPT ![mouse.offset + 1] = out]
    <3>1. /\ \/ OnMouseMove(AsInt8(bytes[2].value), AsInt8(-bytes[3].value))
             \/ UNCHANGED screen
          /\ history' = [history EXCEPT
                           !.slipped = @ \/ Slips(TRUE),
                           !.broken = @ \/ (offset = 0 /\ ~Whole(bytes))]
      BY <1>10, <2>2 DEF HandleMouse
    <3>2. out \in Bytes
      BY <1>1, <2>2, PortGivesByte
    <3>3. bytes \in [1 .. 3 -> Bytes]
      BY <1>1, <3>2, MouseKept
    <3> HIDE DEF offset, bytes
    <3>4. history'.trail = history.trail /\ history'.origin = history.origin
      BY <1>1, <3>1 DEF Histories
    <3>5. AsInt8(bytes[2].value) \in Int /\ AsInt8(-bytes[3].value) \in Int
      <4>1. bytes[2].value \in Value /\ bytes[3].value \in Value
        BY <3>3 DEF Bytes
      <4>2. \A n \in Int : AsInt8(n) \in Int
        BY DEF AsInt8
      <4> QED BY <4>1, <4>2 DEF Value
    <3>6. CASE UNCHANGED screen
      <4>1. UNCHANGED <<position, inverted>>
        BY <3>6 DEF screen
      <4> QED BY <1>3, <3>4, <4>1
    <3> QED BY <1>5, <3>1, <3>4, <3>5, <3>6
  <2> QED BY <2>1, <2>2
<1> QED BY <1>6, <1>7, <1>8, <1>9, <1>10 DEF Next, Main

\* The scan keeps what it found of the last function (pci.cpp:79-109).
LEMMA FoundNext == ASSUME Inv, [Next]_vars PROVE Found'
<1>1. Found
  BY DEF Inv
<1>2. CASE SelectDrivers
  <2>1. main.at = "scan" /\ IsLeft(scan.left)
    BY <1>1, <1>2 DEF SelectDrivers, Found
  <2>2. CASE \E f \in PciFunctions :
               scan' = [seen |-> scan.seen + 1, function |-> {f},
                        left |-> Scanned(f, scan.left), before |-> scan.left]
    <3>1. PICK f \in PciFunctions :
             scan' = [seen |-> scan.seen + 1, function |-> {f},
                      left |-> Scanned(f, scan.left), before |-> scan.left]
      BY <2>2
    <3>2. /\ scan'.function = {f} /\ scan'.left = Scanned(f, scan.left)
          /\ scan'.before = scan.left
      BY <3>1
    <3>3. IsFunction(f)
      BY DevicesAssumption
    <3>4. IsLeft(Scanned(f, scan.left))
      BY <2>1, <3>3, ScannedTyped
    <3> QED BY <2>1, <3>2, <3>4 DEF Found
  <2>3. CASE /\ main' = [main EXCEPT !.at = "activate"]
             /\ scan' = [seen |-> 0, function |-> {}, left |-> {}, before |-> {}]
    <3>1. main'.at = "activate"
      BY <2>3 DEF Inv, Placed
    <3> QED BY <2>3, <3>1 DEF Found
  <2> QED BY <1>2, <2>2, <2>3 DEF SelectDrivers
<1>3. CASE ~SelectDrivers
  <2>1. UNCHANGED scan
    BY <1>3 DEF Next, Main, AddDriver, Drain, CommandPort, ReadStatus, DataPort, Reset, Loaded,
                HandleKeyboard, HandleMouse, Answer, Key, Move, SendByte, Put, Halt, vars
  <2>2. main'.at \in {"add", "scan"} => main.at \in {"add", "scan"}
    BY PlaceMoves
  <2> QED BY <1>1, <2>1, <2>2 DEF Found
<1> QED BY <1>2, <1>3

--------------------------------------------------------------------------------
(* The theorems *)

\* The invariant that the results below follow from holds in every reachable state:
\* the types, where kernelMain is, that the mouse is silent before its driver resets
\* the position, the numbers of the bytes and what the driver has of them, the cells
\* of the cursor, and the scan (kernel.cpp:65-87, 243-264, mouse.cpp:53-116,
\* keyboard.cpp:38-67, pci.cpp:79-206).
THEOREM Invariant == Spec => []Inv
<1>1. Init => Inv
  BY InvInit
<1>2. Inv /\ [Next]_vars => Inv'
  BY TypedNext, PlacedNext, QuietNext, NumberedNext, InStepNext, TrailNext, FoundNext
     DEF Inv
<1> QED BY <1>1, <1>2, PTL DEF Spec

\* Every variable keeps its type, whatever the firmware left and the devices send
\* (mouse.cpp:34-50, keyboard.cpp:44-67, kernel.cpp:56-64).
THEOREM TypeCorrect == Spec => []TypeOK
<1>1. Inv => TypeOK
  <2> SUFFICES ASSUME Inv PROVE TypeOK
    OBVIOUS
  <2>1. main.at \in {"add", "scan", "activate", "idle"} /\ Len(drivers) <= 2
    <3>1. main.at \in {"add", "scan", "activate", "idle"}
      BY DEF Inv, Placed
    <3>2. Len(drivers) < 2 \/ Len(drivers) = 2
      BY DEF Inv, Placed
    <3>3. Len(drivers) \in Nat
      BY DEF Inv, Placed
    <3>4. \A n \in Nat : n < 2 \/ n = 2 => n <= 2
      OBVIOUS
    <3>5. Len(drivers) <= 2
      BY <3>2, <3>3, <3>4
    <3> QED BY <3>1, <3>5
  <2>2. /\ status \in Value /\ config \in Value /\ irqs \subseteq {1, 12}
        /\ owed \subseteq {"config", "keyboard", "mouse", "streaming"}
        /\ position \in Int8 \X Int8
    BY DEF Inv, Typed
  <2>3. /\ mouse.offset \in Offset /\ mouse.buffer \in [1 .. 3 -> Bytes]
        /\ mouse.buttons \in Value
    BY DEF Inv, Typed, Mice
  <2>4. main.at \in {"add", "scan"} => IsLeft(scan.left)
    BY DEF Inv, Found
  <2>5. Value = 0 .. 255 /\ Offset = 0 .. 2
    BY DEF Value, Offset
  <2> HIDE DEF Value, Offset
  <2> QED BY <2>1, <2>2, <2>3, <2>4, <2>5 DEF TypeOK
<1> QED BY <1>1, Invariant, PTL

\* A movement is made of anything but the three bytes of one packet only after a
\* byte went to the wrong handler (mouse.cpp:90-116, keyboard.cpp:47-50, 65).
THEOREM PacketsStayWhole == Spec => []PacketsWhole
<1>1. Inv => PacketsWhole
  BY DEF Inv
<1> QED BY <1>1, Invariant, PTL

\* Only the cursor's cell and that of its origin are left with swapped colours, and
\* the cursor does not leave the window once it is in it (kernel.cpp:65-87).
THEOREM TrailKept == Spec => []CursorTrail
<1>1. Inv => CursorTrail
  BY DEF Inv
<1> QED BY <1>1, Invariant, PTL

\* A plain function that has ports of its own gets the last of them, whatever the
\* scan before has left, and any other a port of a register that it has or what
\* that scan has left, for all words the bus may give (pci.cpp:93-108, 174-206).
THEOREM LastPortAlwaysGiven == Spec => []LastPortGiven
<1>1. Inv => LastPortGiven
  <2> SUFFICES ASSUME Inv, NEW f \in scan.function
               PROVE  LET own == OwnPorts(f)
                          given == scan.left.portBase
                      IN  /\ given \in {own[r] : r \in DOMAIN own}
                                       \cup {scan.before.portBase, scan.before.address}
                          /\ ~Absent(f) /\ f.header = 0 /\ DOMAIN own # {} =>
                               \E r \in DOMAIN own :
                                 given = own[r] /\ \A q \in DOMAIN own : q <= r
    BY DEF LastPortGiven
  <2>1. f \in PciFunctions /\ IsLeft(scan.before) /\ scan.left = Scanned(f, scan.before)
    BY DEF Inv, Found
  <2>2. IsFunction(f)
    BY <2>1, DevicesAssumption
  <2> QED BY <2>1, <2>2, ScannedOwn DEF Ports
<1> QED BY <1>1, Invariant, PTL

================================================================================
