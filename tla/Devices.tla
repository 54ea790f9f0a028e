--------------------------------- MODULE Devices -------------------------------
(***************************************************************************)
(* The drivers of the PS/2 keyboard and mouse with the controller they     *)
(* share, the driver manager, the PCI scan and the mouse cursor, used as   *)
(* in the block of kernelMain that is commented out at this commit         *)
(* (kernel.cpp:243-264).  A handler is one step, the main thread goes from *)
(* one access of a port to the next; the controller answers in its own     *)
(* time, which no driver waits for.                                        *)
(***************************************************************************)
EXTENDS Pci, Sequences

CONSTANTS
  Configs,      \* configuration bytes that the firmware may leave
  ScanCodes,    \* bytes that the keyboard sends
  Moves,        \* packets that the mouse sends: three bytes
  Garbage,      \* xPosition and yPosition before the first movement
  Offsets,      \* offset before Activate
  PciFunctions, \* what may be found at a place on the bus
  Left,         \* what the scan finds on the stack
  Cols, Rows,   \* the window (80 and 25)
  NoByte,       \* the controller's output buffer is empty
  MaxFunctions, \* bound: the places on the bus
  MaxKeys,      \* bound: the bytes the keyboard sends
  MaxMoves      \* bound: the packets the mouse sends

Int8 == -128 .. 127
ASSUME DevicesAssumption ==
  /\ Configs \subseteq 0 .. 255 /\ ScanCodes \subseteq 0 .. 255
  /\ Moves \subseteq [1 .. 3 -> 0 .. 255]
  /\ Garbage \subseteq Int8 \X Int8 /\ Offsets \subseteq 0 .. 2
  /\ \A f \in PciFunctions : IsFunction(f)
  /\ \A l \in Left : IsLeft(l)
  /\ Cols \in 1 .. 128 /\ Rows \in 1 .. 128
  /\ MaxFunctions \in Nat /\ MaxKeys \in Nat /\ MaxMoves \in Nat
  /\ NoByte \notin [from : {"controller", "keyboard", "mouse"}, value : 0 .. 255,
                    number : Nat]

VARIABLES
  drivers,   \* the manager's drivers
  main,      \* where kernelMain is: part, driver and step of its Activate
  enabled,   \* interrupts are enabled
  status,    \* the local of Activate
  config,    \* the controller's configuration byte
  out,       \* its output buffer, one byte
  last,      \* the byte read last, which an empty buffer gives again
  target,    \* what the next byte written to the data port is for
  owed,      \* answers that are still to come
  irqs,      \* requests the interrupt controllers have latched
  unsent,    \* bytes of the packet that the mouse is sending
  mouse,     \* MouseDriver's offset, buffer and buttons
  position,  \* MouseToConsole's xPosition and yPosition
  inverted,  \* the cells whose colours are swapped
  scan,      \* the PCI scan: functions seen, the last one, `left` now and before
  keys, moves,
  history    \* misread, slipped and broken, the cell of origin, cells printed over

controller == <<config, out, last, target, owed>>
screen == <<position, inverted>>
sent == <<unsent, keys, moves>>
vars == <<drivers, main, enabled, status, controller, irqs, mouse, screen, scan,
          sent, history>>

--------------------------------------------------------------------------------
(* Bits and bytes *)

Has(byte, bit) == (byte \div bit) % 2 = 1
With(byte, bit) == IF Has(byte, bit) THEN byte ELSE byte + bit
Without(byte, bit) == IF Has(byte, bit) THEN byte - bit ELSE byte
AsInt8(n) == ((n + 128) % 256) - 128

IRQ1 == 1         \* bits of the configuration byte
IRQ12 == 2
KEYBOARD_OFF == 16
MOUSE_OFF == 32
ACK == 250

\* A byte with the device it is from, and its number among the packets' bytes.
Byte(from, value, number) == [from |-> from, value |-> value, number |-> number]

\* The request line that a byte raises.
Line(byte, conf) ==
  IF byte = NoByte THEN {}
  ELSE IF byte.from = "mouse" THEN IF Has(conf, IRQ12) THEN {12} ELSE {}
  ELSE IF Has(conf, IRQ1) THEN {1} ELSE {}

--------------------------------------------------------------------------------
(* What the drivers' Activate do, one access after the other *)

Command(byte) == [do |-> "command", value |-> byte]
Send(byte) == [do |-> "send", value |-> byte]
Do(what) == [do |-> what]

KeyboardActivate ==
  <<Do("poll"), Do("drain"), Command(174), Command(32), Do("keyboardStatus"),
    Command(96), Do("reply"), Send(244), Do("loaded")>>

\* A mouse driver that leaves its position in the packet as it finds it.
MouseActivateAnywhere ==
  <<Command(168), Command(32), Do("mouseStatus"), Command(96), Do("reply"),
    Command(212), Send(244), Do("discard"), Do("loaded")>>

MouseActivate ==
  <<Do("reset"), Command(168), Command(32), Do("mouseStatus"), Command(96),
    Do("reply"), Command(212), Send(244), Do("discard"), Do("loaded")>>

\* A keyboard driver that leaves its interrupt as the firmware had it.
KeyboardStatusAsIs(byte) == Without(byte, KEYBOARD_OFF)

KeyboardStatus(byte) == Without(With(byte, IRQ1), KEYBOARD_OFF)

MouseStatus(byte) == With(byte, IRQ12)

Init ==
  /\ drivers = <<>>
  /\ main = [at |-> "add", driver |-> 1, step |-> 1]
  /\ enabled \in BOOLEAN
  /\ status = 0
  /\ config \in Configs
  /\ out = NoByte /\ last = Byte("controller", 0, 0)
  /\ target = "keyboard" /\ owed = {} /\ irqs = {}
  /\ mouse \in [offset : Offsets, buffer : {[n \in 1 .. 3 |-> last]},
                buttons : {0}]
  /\ position \in Garbage
  /\ inverted = {}
  /\ \E l \in Left :
       scan = [seen |-> 0, function |-> {}, left |-> l, before |-> l]
  /\ unsent = <<>> /\ keys = 0 /\ moves = 0
  /\ history = [misread |-> FALSE, slipped |-> FALSE, broken |-> FALSE,
                origin |-> position, trail |-> {}]

--------------------------------------------------------------------------------
(* The cursor and the text *)

Cell(at) == Cols * at[2] + at[1]
Window == 0 .. Cols * Rows - 1

\* ShiftConsoleColors swaps a cell's colours.
ShiftConsoleColors(cells, cell) ==
  IF cell \in cells THEN cells \ {cell} ELSE cells \cup {cell}

Clip(n, size) == IF n < 0 THEN 0 ELSE IF n >= size THEN size - 1 ELSE n

\* A cursor that is shown before its position is clipped.
OnMouseMoveUnclipped(dx, dy) ==
  LET moved == <<AsInt8(position[1] + dx), AsInt8(position[2] + dy)>>
  IN  /\ position' = <<Clip(moved[1], Cols), Clip(moved[2], Rows)>>
      /\ inverted' = ShiftConsoleColors(
                       ShiftConsoleColors(inverted, Cell(position)), Cell(moved))

\* The sum is stored in eight bits before it is clipped.
OnMouseMove(dx, dy) ==
  /\ position' = <<Clip(AsInt8(position[1] + dx), Cols),
                   Clip(AsInt8(position[2] + dy), Rows)>>
  /\ inverted' = ShiftConsoleColors(
                   ShiftConsoleColors(inverted, Cell(position)), Cell(position'))

\* Text is printed, perhaps over cells of the cursor's: those are plain again.
Printed(cells) ==
  /\ cells \subseteq inverted \cap Window
  /\ inverted' = inverted \ cells
  /\ UNCHANGED position

--------------------------------------------------------------------------------
(* The data port *)

OutputFull == out # NoByte
Port == IF OutputFull THEN out ELSE last

Take == out' = NoByte /\ last' = Port /\ UNCHANGED <<config, target, owed>>

\* A packet's byte that the mouse's handler does not get, or a byte it gets that
\* is none of a packet.
Slips(mousesHandler) ==
  OutputFull /\ out.from = "mouse" /\ (mousesHandler <=> out.number = 0)

--------------------------------------------------------------------------------
(* kernelMain *)

\* AddDriver: numOfDrivers is the length.
AddDriver ==
  /\ main.at = "add"
  /\ drivers' = Append(drivers, IF drivers = <<>> THEN "keyboard" ELSE "mouse")
  /\ main' = [main EXCEPT !.at = IF Len(drivers') = 2 THEN "scan" ELSE "add"]
  /\ UNCHANGED <<enabled, status, controller, irqs, mouse, screen, scan, sent,
                 history>>

SelectDrivers ==
  /\ main.at = "scan"
  /\ \/ /\ scan.seen < MaxFunctions
        /\ \E f \in PciFunctions :
             scan' = [seen |-> scan.seen + 1, function |-> {f},
                      left |-> Scanned(f, scan.left), before |-> scan.left]
        /\ UNCHANGED main
     \/ /\ scan.seen = MaxFunctions
        /\ main' = [main EXCEPT !.at = "activate"]
        /\ scan' = [seen |-> 0, function |-> {}, left |-> {}, before |-> {}]
  /\ UNCHANGED <<drivers, enabled, status, controller, irqs, mouse, screen, sent,
                 history>>

Op == (IF drivers[main.driver] = "keyboard" THEN KeyboardActivate
       ELSE MouseActivate)[main.step]
At(what) == main.at = "activate" /\ Op.do = what
Goto(step) == main' = [main EXCEPT !.step = step]
Advance == Goto(main.step + 1)

\* while(commandPort.Read() & 0x1) dataPort.Read();
Drain ==
  /\ \/ At("poll") /\ Goto(IF OutputFull THEN 2 ELSE 3)
        /\ UNCHANGED <<controller, history>>
     \/ At("drain") /\ Goto(1) /\ Take
        /\ history' = [history EXCEPT !.slipped = @ \/ Slips(FALSE)]
  /\ UNCHANGED <<drivers, enabled, status, irqs, mouse, screen, scan, sent>>

CommandPort ==
  /\ At("command")
  /\ config' = CASE Op.value = 174 -> Without(config, KEYBOARD_OFF)
                 [] Op.value = 168 -> Without(config, MOUSE_OFF)
                 [] OTHER -> config
  /\ owed' = IF Op.value = 32 THEN owed \cup {"config"} ELSE owed
  /\ target' = CASE Op.value = 96 -> "config"
                 [] Op.value = 212 -> "mouse"
                 [] OTHER -> target
  /\ Advance
  /\ UNCHANGED <<drivers, enabled, status, out, last, irqs, mouse, screen, scan,
                 sent, history>>

\* The answer to command 0x20 is read at once, whether it has come or not.
ReadStatus ==
  /\ \/ At("keyboardStatus") /\ status' = KeyboardStatus(Port.value)
     \/ At("mouseStatus") /\ status' = MouseStatus(Port.value)
     \/ At("discard") /\ UNCHANGED status
  /\ Take
  /\ history' = [history EXCEPT
                   !.misread = @ \/ (~At("discard") /\ Port.value # config),
                   !.slipped = @ \/ Slips(FALSE)]
  /\ Advance
  /\ UNCHANGED <<drivers, enabled, irqs, mouse, screen, scan, sent>>

\* The data port: the new configuration, or a command for one of the devices.
DataPort ==
  /\ \/ /\ At("reply")
        /\ config' = status
        /\ irqs' = irqs \cup (Line(out, status) \ Line(out, config))
        /\ UNCHANGED owed
     \/ /\ At("send")
        /\ owed' = owed \cup {target}
        /\ UNCHANGED <<config, irqs>>
  /\ target' = "keyboard"
  /\ Advance
  /\ UNCHANGED <<drivers, enabled, status, out, last, mouse, screen, scan, sent,
                 history>>

Reset ==
  /\ At("reset")
  /\ mouse' = [mouse EXCEPT !.offset = 0, !.buttons = 0]
  /\ Advance
  /\ UNCHANGED <<drivers, enabled, status, controller, irqs, screen, scan, sent,
                 history>>

\* ActivateAll goes on to the next driver; after the last the interrupts are
\* enabled, unless they have been since before.
Loaded ==
  /\ At("loaded")
  /\ main' = IF main.driver < Len(drivers)
               THEN [main EXCEPT !.driver = @ + 1, !.step = 1]
               ELSE [main EXCEPT !.at = "idle"]
  /\ enabled' = (enabled \/ main.driver = Len(drivers))
  /\ \E cells \in SUBSET (inverted \cap Window) :
       /\ Printed(cells)
       /\ history' = [history EXCEPT !.trail = @ \cup cells]
  /\ UNCHANGED <<drivers, status, controller, irqs, mouse, scan, sent>>

Main == AddDriver \/ SelectDrivers \/ Drain \/ CommandPort \/ ReadStatus
        \/ DataPort \/ Reset \/ Loaded

--------------------------------------------------------------------------------
(* The handlers *)

\* KeyboardDriver::HandleInterrupt reads whatever is there.
HandleKeyboard ==
  /\ enabled /\ 1 \in irqs
  /\ irqs' = irqs \ {1}
  /\ Take
  /\ \E cells \in SUBSET (inverted \cap Window) :
       /\ Printed(cells)
       /\ history' = [history EXCEPT !.slipped = @ \/ Slips(FALSE),
                                     !.trail = @ \cup cells]
  /\ UNCHANGED <<drivers, main, enabled, status, mouse, scan, sent>>

\* A position that runs on to a fourth byte.
FollowingOffsetFour(offset) == (offset + 1) % 4

FollowingOffset(offset) == (offset + 1) % 3

\* Of three bytes that follow one another the first begins a packet.
Whole(bytes) ==
  /\ bytes[1].number % 3 = 1
  /\ \A n \in 2 .. 3 : bytes[n].number = bytes[n - 1].number + 1

\* MouseDriver::HandleInterrupt: after the third byte the packet is reported.
HandleMouse ==
  /\ enabled /\ 12 \in irqs
  /\ irqs' = irqs \ {12}
  /\ IF ~OutputFull \/ out.from # "mouse"
       THEN UNCHANGED <<controller, mouse, screen, history>>
       ELSE LET offset == FollowingOffset(mouse.offset)
                bytes == [mouse.buffer EXCEPT ![mouse.offset + 1] = out]
            IN  /\ Take
                /\ mouse' = [offset |-> offset, buffer |-> bytes,
                             buttons |-> IF offset = 0 THEN bytes[1].value
                                         ELSE mouse.buttons]
                /\ IF offset = 0 /\ (bytes[2].value # 0 \/ bytes[3].value # 0)
                     THEN OnMouseMove(AsInt8(bytes[2].value),
                                      AsInt8(-bytes[3].value))
                     ELSE UNCHANGED screen
                /\ history' = [history EXCEPT
                                 !.slipped = @ \/ Slips(TRUE),
                                 !.broken = @ \/ (offset = 0 /\ ~Whole(bytes))]
  /\ UNCHANGED <<drivers, main, enabled, status, scan, sent>>

--------------------------------------------------------------------------------
(* The controller and the devices *)

\* A byte is put into the output buffer when that is empty.
Put(byte) ==
  /\ ~OutputFull
  /\ out' = byte
  /\ irqs' = irqs \cup Line(byte, config)
  /\ UNCHANGED <<drivers, main, enabled, status, config, last, target, mouse,
                 screen, scan, history>>

Answer ==
  /\ \/ /\ "config" \in owed /\ owed' = owed \ {"config"}
        /\ Put(Byte("controller", config, 0))
     \/ /\ "keyboard" \in owed /\ owed' = owed \ {"keyboard"}
        /\ ~Has(config, KEYBOARD_OFF)
        /\ Put(Byte("keyboard", ACK, 0))
     \/ /\ "mouse" \in owed /\ owed' = (owed \ {"mouse"}) \cup {"streaming"}
        /\ ~Has(config, MOUSE_OFF)
        /\ Put(Byte("mouse", ACK, 0))
  /\ UNCHANGED sent

Key ==
  /\ keys < MaxKeys /\ "keyboard" \notin owed /\ ~Has(config, KEYBOARD_OFF)
  /\ keys' = keys + 1
  /\ \E code \in ScanCodes : Put(Byte("keyboard", code, 0))
  /\ UNCHANGED <<owed, unsent, moves>>

Move ==
  /\ "streaming" \in owed /\ unsent = <<>> /\ moves < MaxMoves
  /\ moves' = moves + 1
  /\ \E packet \in Moves :
       unsent' = [n \in 1 .. 3 |-> Byte("mouse", packet[n], 3 * moves + n)]
  /\ UNCHANGED <<drivers, main, enabled, status, controller, irqs, mouse, screen,
                 scan, keys, history>>

SendByte ==
  /\ unsent # <<>> /\ ~Has(config, MOUSE_OFF)
  /\ Put(Head(unsent))
  /\ unsent' = Tail(unsent)
  /\ UNCHANGED <<owed, keys, moves>>

Halt == main.at = "idle" /\ UNCHANGED vars

Next == Main \/ HandleKeyboard \/ HandleMouse \/ Answer \/ Key \/ Move
        \/ SendByte \/ Halt

\* kernelMain runs on, requests are served; nobody has to press or move anything.
Spec ==
  /\ Init /\ [][Next]_vars
  /\ WF_vars(Main) /\ WF_vars(HandleKeyboard) /\ WF_vars(HandleMouse)

--------------------------------------------------------------------------------
(* Properties *)

TypeOK ==
  /\ main.at \in {"add", "scan", "activate", "idle"} /\ Len(drivers) <= 2
  /\ status \in 0 .. 255 /\ config \in 0 .. 255
  /\ irqs \subseteq {1, 12}
  /\ owed \subseteq {"config", "keyboard", "mouse", "streaming"}
  /\ mouse.offset \in 0 .. 2 /\ DOMAIN mouse.buffer = 1 .. 3
  /\ mouse.buttons \in 0 .. 255
  /\ position \in Int8 \X Int8
  /\ main.at \in {"add", "scan"} => IsLeft(scan.left)

\* Every movement reported is made of the three bytes of one packet, unless a
\* byte went to the wrong handler: the mouse's answer, read too early, or a byte
\* that the keyboard's handler or its driver's loop took (mouse.cpp:90-95,
\* keyboard.cpp:47-50, 65).
PacketsWhole == history.broken => history.slipped

\* The cells with swapped colours are that of the cursor and the one where its
\* uninitialized position was, apart from those that text was printed over; and
\* the cursor is in the window once it has moved (kernel.cpp:65-87,
\* console.cpp:36-42).
CursorTrail ==
  LET here == Cell(position)
      origin == Cell(history.origin)
  IN  /\ inverted \ history.trail =
           (IF here = origin THEN {} ELSE {here, origin}) \ history.trail
      /\ \/ position = history.origin
         \/ position \in (0 .. Cols - 1) \X (0 .. Rows - 1)

\* A plain function with ports of its own is given the last of them, whatever the
\* scan before has left.  Any other function is given a port of one of the
\* registers that its header has, or what that scan has left: never another word
\* of its, such as the bus numbers of a bridge (pci.cpp:93-108, 174-206).
LastPortGiven ==
  \A f \in scan.function :
    LET own == OwnPorts(f)
        given == scan.left.portBase
    IN  /\ given \in {own[r] : r \in DOMAIN own}
                     \cup {scan.before.portBase, scan.before.address}
        /\ ~Absent(f) /\ f.header = 0 /\ DOMAIN own # {} =>
             \E r \in DOMAIN own : given = own[r] /\ \A q \in DOMAIN own : q <= r

\* No byte stays in the controller, which would then send nothing more, if the
\* drivers read the configuration and not some other byte
\* (keyboard.cpp:47-60, mouse.cpp:65-77).
BytesTaken == OutputFull ~> (~OutputFull \/ history.misread)
================================================================================
