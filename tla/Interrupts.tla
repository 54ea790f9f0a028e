------------------------------- MODULE Interrupts ------------------------------
(***************************************************************************)
(* The interrupt manager: the gates its constructor writes, the handlers   *)
(* registered with it, the dispatch of every interrupt with its commands   *)
(* to the two interrupt controllers, and Activate and Deactivate.          *)
(* `stack` holds the interrupts being served, the innermost last.  A stub  *)
(* is taken to return to what it has interrupted: module Stub is about     *)
(* the words it leaves behind, this one about everything before that.      *)
(***************************************************************************)
EXTENDS Integers, Sequences, SequencesExt, FiniteSets, FiniteSetsExt

CONSTANTS
  NUM_OF_IDTS, \* the gates (256): an interrupt is a number below it
  Lines,       \* the request lines in use, of 0 .. 15; 8 and up are the slave's
  Offset,      \* hardwareInterruptOffset (0x20)
  Managers,    \* the InterruptManager objects; kernelMain has one
  First,       \* the one that kernelMain makes and activates
  NoManager,   \* ActiveInterruptManager = 0
  Devices,     \* the InterruptHandler objects beside the MemoryManager's
  VectorFor,   \* the vector each of them is for
  NoHandler,   \* handlers[i] = 0
  MaxRequests, \* bound: how many requests come
  MaxNmis      \* bound: how many non-maskable interrupts come

PAGE_FAULT == 14
NMI == 2
IRQ_BASE == 32
PageFaultHandler == "MemoryManager"
Handlers == Devices \cup {PageFaultHandler}
IdtIndex == 0 .. NUM_OF_IDTS - 1

ASSUME InterruptsAssumption ==
  /\ NUM_OF_IDTS \in Nat /\ Offset \in 20 .. NUM_OF_IDTS - 16
  /\ NUM_OF_IDTS >= IRQ_BASE + 16
  /\ Lines \subseteq (0 .. 15) \ {2}   \* line 2 is the slave
  /\ First \in Managers /\ NoManager \notin Managers
  /\ VectorFor \in [Devices -> IdtIndex]
  /\ PageFaultHandler \notin Devices /\ NoHandler \notin Handlers
  /\ MaxRequests \in Nat /\ MaxNmis \in Nat

VARIABLES
  pending,     \* requests the controllers have latched
  master,      \* lines in service in the master; 2 stands for the slave
  slave,       \* lines in service in the slave
  enabled,     \* the processor's interrupt flag
  number,      \* interruptnumber, the byte the stubs share
  stack,       \* the interrupts being served
  handlers,    \* handlers[] of every manager
  active,      \* ActiveInterruptManager
  kernel,      \* where kernelMain is in Activate, and for which manager
  alive,       \* the Devices that have been made and not destroyed
  stopped,     \* a panic has switched interrupts off and loops
  requests,    \* how many requests have come
  nmis,        \* how many non-maskable interrupts have come
  forgotten    \* history: a request was not dispatched, or a stub overtaken

pic == <<pending, master, slave>>
counts == <<requests, nmis>>
cpu == <<enabled, number, stack>>
vars == <<pic, cpu, handlers, alive, active, kernel, stopped, counts, forgotten>>

--------------------------------------------------------------------------------
(* The constructor *)

\* SetInterruptDescriptorTableEntry, once for every gate in `gates`.
SetEntries(idt, gates) ==
  [v \in IdtIndex |-> IF v \in DOMAIN gates THEN gates[v] ELSE idt[v]]

Ignore == <<"InterruptIgnore">>

ExceptionGates == [v \in 0 .. 19 |-> <<"Exception", v>>]

\* A constructor without the entries of the slave's requests.
RequestGatesOfMaster ==
  [v \in Offset .. Offset + 7 |-> <<"Request", v - Offset>>]

RequestGates ==
  [v \in Offset .. Offset + 15 |-> <<"Request", v - Offset>>]

\* First every gate is set to InterruptIgnore: the loop runs from 256, a byte's
\* 0, down to 1.
Idt ==
  SetEntries(SetEntries([v \in IdtIndex |-> Ignore], ExceptionGates), RequestGates)

\* The vectors the controllers are told to use for their lines.
VectorOf(line) == IF line < 8 THEN Offset + line ELSE (Offset + 8) + (line - 8)

\* The byte that the stub behind a gate stores.
StubNumber(gate) ==
  IF gate[1] = "Request" THEN gate[2] + IRQ_BASE ELSE gate[2]

\* A constructor that leaves the handler of gate 0 as it finds it.
InitUncleared ==
  /\ pending = {} /\ master = {} /\ slave = {}
  /\ enabled = FALSE
  /\ number = 0
  /\ stack = <<>>
  /\ handlers = [m \in Managers |->
                   [v \in IdtIndex |->
                      IF v = 0 THEN "uncleared"
                      ELSE IF m = First /\ v = PAGE_FAULT THEN PageFaultHandler
                      ELSE NoHandler]]
  /\ alive = {}
  /\ active = NoManager
  /\ kernel = [at |-> "boot", manager |-> First]
  /\ stopped = FALSE
  /\ requests = 0 /\ nmis = 0
  /\ forgotten = FALSE

\* Handlers register themselves as they are made: first the memory manager.
\* The constructor's loop also clears handlers[256], past the end of the array:
\* that is the manager's taskManager, which no code that runs reads.
Init ==
  /\ pending = {} /\ master = {} /\ slave = {}
  /\ enabled = FALSE
  /\ number = 0
  /\ stack = <<>>
  /\ handlers = [m \in Managers |->
                   [v \in IdtIndex |->
                      IF m = First /\ v = PAGE_FAULT THEN PageFaultHandler
                      ELSE NoHandler]]
  /\ alive = {}
  /\ active = NoManager
  /\ kernel = [at |-> "boot", manager |-> First]
  /\ stopped = FALSE
  /\ requests = 0 /\ nmis = 0
  /\ forgotten = FALSE

--------------------------------------------------------------------------------
(* kernelMain *)

KernelRuns == stack = <<>> /\ ~stopped
Booting == KernelRuns /\ kernel.at = "boot"
Idle == KernelRuns /\ kernel.at = "idle"

\* InterruptHandler::InterruptHandler: a later handler replaces an earlier one.
Register(h) ==
  /\ Booting \/ Idle
  /\ h \notin alive
  /\ alive' = alive \cup {h}
  /\ handlers' = [handlers EXCEPT ![First][VectorFor[h]] = h]
  /\ UNCHANGED <<pic, cpu, active, kernel, stopped, counts, forgotten>>

\* A destructor that leaves the table alone.
UnregisterNothing(h) ==
  /\ Booting \/ Idle
  /\ h \in alive
  /\ alive' = alive \ {h}
  /\ UNCHANGED <<pic, cpu, handlers, active, kernel, stopped, counts, forgotten>>

\* A destructor that does not look whose place it clears.
UnregisterWhoever(h) ==
  /\ Booting \/ Idle
  /\ h \in alive
  /\ alive' = alive \ {h}
  /\ handlers' = [handlers EXCEPT ![First][VectorFor[h]] = NoHandler]
  /\ UNCHANGED <<pic, cpu, active, kernel, stopped, counts, forgotten>>

\* InterruptHandler::~InterruptHandler
Unregister(h) ==
  /\ Booting \/ Idle
  /\ h \in alive
  /\ alive' = alive \ {h}
  /\ handlers' = IF handlers[First][VectorFor[h]] = h
                   THEN [handlers EXCEPT ![First][VectorFor[h]] = NoHandler]
                   ELSE handlers
  /\ UNCHANGED <<pic, cpu, active, kernel, stopped, counts, forgotten>>

\* Activate, which first deactivates the manager that is active, if any.
Activate(m) ==
  /\ Booting \/ Idle
  /\ kernel' = [at |-> IF active = NoManager THEN "publish" ELSE "withdraw",
                manager |-> m]
  /\ UNCHANGED <<pic, cpu, handlers, alive, active, stopped, counts, forgotten>>

\* Deactivate, of the active manager: first it is withdrawn, ...
Withdraw ==
  /\ KernelRuns /\ kernel.at = "withdraw"
  /\ active' = NoManager
  /\ kernel' = [kernel EXCEPT !.at = "cli"]
  /\ UNCHANGED <<pic, cpu, handlers, alive, stopped, counts, forgotten>>

\* ... then interrupts are switched off.
Cli ==
  /\ KernelRuns /\ kernel.at = "cli"
  /\ enabled' = FALSE
  /\ kernel' = [kernel EXCEPT !.at = "publish"]
  /\ UNCHANGED <<pic, number, stack, handlers, alive, active, stopped, counts, forgotten>>

Publish ==
  /\ KernelRuns /\ kernel.at = "publish"
  /\ active' = kernel.manager
  /\ kernel' = [kernel EXCEPT !.at = "sti"]
  /\ UNCHANGED <<pic, cpu, handlers, alive, stopped, counts, forgotten>>

Sti ==
  /\ KernelRuns /\ kernel.at = "sti"
  /\ enabled' = TRUE
  /\ kernel' = [kernel EXCEPT !.at = "idle"]
  /\ UNCHANGED <<pic, number, stack, handlers, alive, active, stopped, counts, forgotten>>

--------------------------------------------------------------------------------
(* The processor and the controllers *)

\* A device asserts its line.
Raise(line) ==
  /\ ~stopped
  /\ requests < MaxRequests
  /\ line \notin pending
  /\ pending' = pending \cup {line}
  /\ requests' = requests + 1
  /\ UNCHANGED <<master, slave, cpu, handlers, alive, active, kernel, stopped, nmis,
                 forgotten>>

\* The priority of a line in the master: the slave's lines share line 2.
MasterLine(line) == IF line < 8 THEN line ELSE 2

\* Neither controller has a line of this or a higher priority in service.
Grantable(line) ==
  /\ \A l \in master : l > MasterLine(line)
  /\ line >= 8 => \A l \in slave : l > line

\* A gate that leaves interrupts on (IDT_TRAP_GATE).
EnterTrapGate(vector) ==
  LET gate == Idt[vector] IN
  IF gate = Ignore
    THEN UNCHANGED cpu
    ELSE /\ stack' = Append(stack, [vector |-> vector, at |-> "stub",
                                    interrupt |-> 0, manager |-> NoManager,
                                    handler |-> NoHandler, flag |-> enabled])
         /\ number' = StubNumber(gate)
         /\ UNCHANGED enabled

\* The processor goes through a gate, which switches interrupts off, and the
\* stub stores its number.  The gate of InterruptIgnore returns at once.
Enter(vector) ==
  LET gate == Idt[vector] IN
  IF gate = Ignore
    THEN UNCHANGED cpu
    ELSE /\ stack' = Append(stack, [vector |-> vector, at |-> "stub",
                                    interrupt |-> 0, manager |-> NoManager,
                                    handler |-> NoHandler, flag |-> enabled])
         /\ number' = StubNumber(gate)
         /\ enabled' = FALSE

\* The controllers offer the pending line of the highest priority.
Request(line) ==
  /\ ~stopped /\ enabled
  /\ line \in pending /\ Grantable(line)
  /\ \A l \in pending : Grantable(l) =>
       \/ MasterLine(line) < MasterLine(l)
       \/ MasterLine(line) = MasterLine(l) /\ line <= l
  /\ pending' = pending \ {line}
  /\ master' = master \cup {MasterLine(line)}
  /\ slave' = IF line < 8 THEN slave ELSE slave \cup {line}
  /\ Enter(VectorOf(line))
  /\ UNCHANGED <<handlers, alive, active, kernel, stopped, counts, forgotten>>

Serving(at) == ~stopped /\ stack # <<>> /\ Last(stack).at = at

\* No flag holds a non-maskable interrupt back, but it does not nest.
NonMaskable ==
  /\ ~stopped
  /\ nmis < MaxNmis
  /\ \A n \in DOMAIN stack : stack[n].vector # NMI
  /\ Enter(NMI)
  /\ nmis' = nmis + 1
  /\ forgotten' = (forgotten \/ Serving("stub"))
  /\ UNCHANGED <<pic, handlers, alive, active, kernel, stopped, requests>>

\* The innermost interrupt becomes `service`.
Served(service) == stack' = [stack EXCEPT ![Len(stack)] = service]

\* A handler may fault, whatever it handles.
PageFault ==
  /\ Serving("handler")
  /\ Last(stack).handler # PageFaultHandler
  /\ Enter(PAGE_FAULT)
  /\ UNCHANGED <<pic, handlers, alive, active, kernel, stopped, counts, forgotten>>

IsRequest(vector) == Offset <= vector /\ vector < Offset + 16

\* The stub passes the byte on, and HandleInterrupt gives up where no manager
\* is active.
HandleInterrupt ==
  /\ Serving("stub")
  /\ Served([Last(stack) EXCEPT
               !.interrupt = number, !.manager = active,
               !.at = IF active = NoManager THEN "return" ELSE "dispatch"])
  /\ forgotten' = \/ forgotten
                  \/ IsRequest(Last(stack).vector) /\ active = NoManager
  /\ UNCHANGED <<pic, enabled, number, handlers, alive, active, kernel, stopped, counts>>

\* DoHandleInterrupt, up to the call of the handler, if there is one.
Dispatch ==
  /\ Serving("dispatch")
  /\ LET service == Last(stack)
         h == handlers[service.manager][service.interrupt]
     IN  Served([service EXCEPT !.handler = h,
                   !.at = IF h = NoHandler THEN "end" ELSE "handler"])
  /\ UNCHANGED <<pic, enabled, number, handlers, alive, active, kernel, stopped, counts,
                 forgotten>>

\* The handlers of the devices return; the memory manager's panics.
HandlerReturns ==
  /\ Serving("handler")
  /\ IF Last(stack).handler = PageFaultHandler
       THEN stopped' = TRUE /\ UNCHANGED stack
       ELSE Served([Last(stack) EXCEPT !.at = "end"]) /\ UNCHANGED stopped
  /\ UNCHANGED <<pic, enabled, number, handlers, alive, active, kernel, counts, forgotten>>

\* PIC_EOI ends the line of the highest priority that is in service.
Ended(lines) == IF lines = {} THEN {} ELSE lines \ {Min(lines)}

\* An end of interrupt that only the slave gets when the request is its own.
EndOfInterruptOnce ==
  /\ Serving("end")
  /\ LET vector == Last(stack).interrupt IN
     /\ slave' = IF IsRequest(vector) /\ vector >= Offset + 8
                   THEN Ended(slave) ELSE slave
     /\ master' = IF IsRequest(vector) /\ vector < Offset + 8
                    THEN Ended(master) ELSE master
  /\ Served([Last(stack) EXCEPT !.at = "return"])
  /\ UNCHANGED <<pending, enabled, number, handlers, alive, active, kernel, stopped,
                 counts, forgotten>>

\* The end of DoHandleInterrupt: for a request of the slave both are told.
EndOfInterrupt ==
  /\ Serving("end")
  /\ LET vector == Last(stack).interrupt IN
     /\ slave' = IF IsRequest(vector) /\ vector >= Offset + 8
                   THEN Ended(slave) ELSE slave
     /\ master' = IF IsRequest(vector) THEN Ended(master) ELSE master
  /\ Served([Last(stack) EXCEPT !.at = "return"])
  /\ UNCHANGED <<pending, enabled, number, handlers, alive, active, kernel, stopped,
                 counts, forgotten>>

\* The interrupted code goes on, with the flag it had.
Return ==
  /\ Serving("return")
  /\ stack' = Front(stack)
  /\ enabled' = Last(stack).flag
  /\ UNCHANGED <<pic, number, handlers, alive, active, kernel, stopped, counts, forgotten>>

\* hlt in kernelMain, and the loop of panic.
Halt == (Idle \/ stopped) /\ UNCHANGED vars

Kernel == Withdraw \/ Cli \/ Publish \/ Sti
Service == HandleInterrupt \/ Dispatch \/ HandlerReturns \/ EndOfInterrupt \/ Return

Next ==
  \/ \E h \in Devices : Register(h) \/ Unregister(h)
  \/ \E m \in Managers : Activate(m)
  \/ Kernel
  \/ \E line \in Lines : Raise(line) \/ Request(line)
  \/ NonMaskable \/ PageFault
  \/ Service
  \/ Halt

\* kernelMain activates its manager and the stubs go on.  The processor looks
\* for a request after every instruction with interrupts on, however few there
\* are of them at a time.  Nothing has to interrupt, and kernelMain need not
\* register or activate more.
Spec == /\ Init /\ [][Next]_vars
        /\ WF_vars(Kernel) /\ WF_vars(Service)
        /\ WF_vars(Booting /\ Activate(First))
        /\ \A line \in Lines : SF_vars(Request(line))

--------------------------------------------------------------------------------
(* Properties *)

Activation == [vector : IdtIndex, interrupt : IdtIndex, flag : BOOLEAN,
               at : {"stub", "dispatch", "handler", "end", "return"},
               manager : Managers \cup {NoManager},
               handler : Handlers \cup {NoHandler}]

TypeOK ==
  /\ pending \subseteq Lines
  /\ master \subseteq 0 .. 7 /\ slave \subseteq 8 .. 15
  /\ enabled \in BOOLEAN /\ number \in IdtIndex
  /\ stack \in Seq(Activation)
  /\ handlers \in [Managers -> [IdtIndex -> Handlers \cup {NoHandler}]]
  /\ alive \subseteq Devices
  /\ active \in Managers \cup {NoManager}
  /\ kernel \in [at : {"boot", "idle", "withdraw", "cli", "publish", "sti"},
                 manager : Managers]
  /\ stopped \in BOOLEAN /\ forgotten \in BOOLEAN
  /\ requests \in 0 .. MaxRequests /\ nmis \in 0 .. MaxNmis

\* While one request is served no other one is, whatever exceptions and
\* non-maskable interrupts come on top of it: the gates are interrupt gates,
\* and no handler switches interrupts on again (interrupts.cpp:116-131).
RequestsDoNotNest ==
  \A i, j \in DOMAIN stack :
    IsRequest(stack[i].vector) /\ IsRequest(stack[j].vector) => i = j

\* The lines being served and not yet ended.
Unended == {line \in Lines : \E n \in DOMAIN stack :
              /\ stack[n].vector = VectorOf(line)
              /\ stack[n].at # "return"}

\* Each end of interrupt ends the request it is for, in both controllers when
\* it is the slave's: a controller holds a line back exactly while it is
\* served (interrupts.cpp:201-209), unless a request came while no manager was
\* active (234) or a non-maskable interrupt overtook its stub
\* (interruptstubs.s:11).
InServiceWhileServed ==
  ~forgotten =>
    /\ slave = {line \in Unended : line >= 8}
    /\ master = {MasterLine(line) : line \in Unended}

\* An interrupt is handled by the object that is registered for its vector,
\* with the manager that is active, and that has not been destroyed
\* (interrupts.cpp:41-54, 186-188), with the same exceptions.
ServedByLiveHandler ==
  ~forgotten =>
    \A n \in DOMAIN stack : stack[n].at = "handler" =>
      /\ stack[n].handler = handlers[active][stack[n].vector]
      /\ stack[n].handler \in alive \cup {PageFaultHandler}

\* A live handler stays where it is registered until it is destroyed itself or
\* a newer one takes its vector: destroying an older one, which the newer has
\* replaced, takes nothing from it (interrupts.cpp:41-54).
LiveHandlerStays ==
  [][\A v \in IdtIndex : handlers[First][v] \in alive =>
       \/ handlers'[First][v] = handlers[First][v]
       \/ handlers[First][v] \notin alive'
       \/ handlers'[First][v] \in alive' \ alive]_vars

\* A request that a controller has latched is delivered in the end, whatever
\* was served before it (interrupts.cpp:200-209, 219-228), with the same
\* exceptions, or a panic.
EveryRequestServed ==
  \A line \in Lines :
    line \in pending ~> (line \notin pending \/ stopped \/ forgotten)
================================================================================
