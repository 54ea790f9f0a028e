--------------------------- MODULE InterruptsProofs ---------------------------
(***************************************************************************)
(* Proofs about Interrupts, for every number of gates, set of lines in     *)
(* use, of managers and of devices, and every number of requests.          *)
(***************************************************************************)
EXTENDS Interrupts, TLAPS, SequenceTheorems

\* Interrupts are on only while none is served: only the outermost one can be
\* a request, and only its return switches them on again.
Nesting ==
  /\ enabled => stack = <<>>
  /\ \A n \in DOMAIN stack :
       /\ n > 1 => ~stack[n].flag /\ stack[n].vector \in {NMI, PAGE_FAULT}
       /\ \/ stack[n].vector \in {NMI, PAGE_FAULT}
          \/ \E line \in Lines : stack[n].vector = VectorOf(line)

\* The manager is not replaced, nor a handler, while an interrupt is served.
Managed ==
  /\ \A n \in DOMAIN stack :
       /\ stack[n].at \in {"dispatch", "handler"} =>
            stack[n].manager = active /\ active # NoManager
       /\ stack[n].at = "handler" =>
            /\ stack[n].handler = handlers[active][stack[n].interrupt]
            /\ stack[n].handler # NoHandler
  /\ \A m \in Managers : \A v \in IdtIndex :
       /\ handlers[m][v] \in alive \cup {PageFaultHandler, NoHandler}
       /\ \A h \in Devices : handlers[m][v] = h => m = First /\ v = VectorFor[h]

Inv == TypeOK /\ Nesting /\ Managed

\* Unless a stub is overtaken, every interrupt is known by its own vector once
\* its stub is through; until then the shared byte holds it.
Numbered ==
  \A n \in DOMAIN stack :
    IF stack[n].at = "stub" THEN n = Len(stack) /\ number = stack[n].vector
                            ELSE stack[n].interrupt = stack[n].vector

\* What holds as long as nothing is forgotten.
Faithful == ~forgotten => Numbered /\ InServiceWhileServed

--------------------------------------------------------------------------------
(* The gates *)

\* The gate of a line in use leads to the stub of that line's request, whatever
\* Offset is (interrupts.cpp:116-131).
LEMMA RequestGate ==
  ASSUME NEW line \in Lines
  PROVE  /\ VectorOf(line) = Offset + line /\ VectorOf(line) \in IdtIndex
         /\ IsRequest(VectorOf(line))
         /\ VectorOf(line) \notin {NMI, PAGE_FAULT}
         /\ Idt[VectorOf(line)] = <<"Request", line>>
         /\ Idt[VectorOf(line)] # Ignore
         /\ StubNumber(Idt[VectorOf(line)]) = line + IRQ_BASE
         /\ line + IRQ_BASE \in IdtIndex
<1> USE InterruptsAssumption
<1>1. line \in 0 .. 15 /\ line \in Int
  OBVIOUS
<1>2. VectorOf(line) = Offset + line /\ VectorOf(line) \in Offset .. Offset + 15
  BY <1>1 DEF VectorOf
<1>3. VectorOf(line) \in IdtIndex /\ line + IRQ_BASE \in IdtIndex
  BY <1>1, <1>2 DEF IdtIndex, IRQ_BASE
<1>4. RequestGates[VectorOf(line)] = <<"Request", line>>
  BY <1>1, <1>2 DEF RequestGates
<1>5. Idt[VectorOf(line)] = <<"Request", line>>
  BY <1>2, <1>3, <1>4 DEF Idt, SetEntries, RequestGates
<1>6. <<"Request", line>>[1] = "Request" /\ <<"Request", line>>[2] = line
  OBVIOUS
<1>7. <<"Request", line>> # Ignore
  BY <1>6 DEF Ignore
<1>8. StubNumber(Idt[VectorOf(line)]) = line + IRQ_BASE
  BY <1>5, <1>6 DEF StubNumber
<1>9. IsRequest(VectorOf(line)) /\ VectorOf(line) \notin {NMI, PAGE_FAULT}
  BY <1>1, <1>2 DEF IsRequest, NMI, PAGE_FAULT
<1> QED BY <1>2, <1>3, <1>5, <1>7, <1>8, <1>9

\* The gates of the non-maskable interrupt and of the page fault lead to their
\* own stubs: no request overwrites them (interrupts.cpp:95-131).
LEMMA ExceptionGate ==
  ASSUME NEW v \in {NMI, PAGE_FAULT}
  PROVE  /\ v \in IdtIndex
         /\ ~IsRequest(v)
         /\ Idt[v] = <<"Exception", v>>
         /\ Idt[v] # Ignore
         /\ StubNumber(Idt[v]) = v
<1> USE InterruptsAssumption
<1>1. v \in 0 .. 19 /\ v \in IdtIndex /\ v \notin Offset .. Offset + 15 /\ ~IsRequest(v)
  BY DEF NMI, PAGE_FAULT, IdtIndex, IsRequest, IRQ_BASE
<1>2. Idt[v] = <<"Exception", v>>
  BY <1>1 DEF Idt, SetEntries, RequestGates, ExceptionGates
<1>3. <<"Exception", v>>[1] = "Exception" /\ <<"Exception", v>>[2] = v
  OBVIOUS
<1>4. <<"Exception", v>> # Ignore
  BY <1>3 DEF Ignore
<1>5. StubNumber(Idt[v]) = v
  BY <1>2, <1>3 DEF StubNumber
<1> QED BY <1>1, <1>2, <1>4, <1>5

--------------------------------------------------------------------------------
(* The stack of interrupts being served *)

\* What every activation that has just been entered looks like.
Entered(vector) ==
  [vector |-> vector, at |-> "stub", interrupt |-> 0, manager |-> NoManager,
   handler |-> NoHandler, flag |-> enabled]

\* A gate that is not ignored pushes one activation and leaves the others.
LEMMA EnterPushes ==
  ASSUME TypeOK, NEW vector \in IdtIndex, Enter(vector), Idt[vector] # Ignore
  PROVE  /\ stack' \in Seq(Activation)
         /\ Len(stack) \in Nat
         /\ DOMAIN stack = 1 .. Len(stack)
         /\ Len(stack') = Len(stack) + 1
         /\ DOMAIN stack' = 1 .. Len(stack) + 1
         /\ \A n \in 1 .. Len(stack) : stack'[n] = stack[n]
         /\ stack'[Len(stack) + 1] = Entered(vector)
         /\ number' = StubNumber(Idt[vector])
         /\ enabled' = FALSE
<1>1. Entered(vector) \in Activation
  BY InterruptsAssumption DEF TypeOK, Activation, Entered, IdtIndex
<1>2. /\ stack' = Append(stack, Entered(vector))
      /\ number' = StubNumber(Idt[vector])
      /\ enabled' = FALSE
  BY DEF Enter, Entered
<1>3. stack \in Seq(Activation)
  BY DEF TypeOK
<1> HIDE DEF Entered, Activation
<1> QED BY <1>1, <1>2, <1>3, AppendProperties, LenProperties

\* Serving the innermost interrupt changes that one activation.
LEMMA ServedReplaces ==
  ASSUME TypeOK, stack # <<>>, NEW service \in Activation, Served(service)
  PROVE  /\ stack' \in Seq(Activation)
         /\ Len(stack) \in Nat \ {0}
         /\ DOMAIN stack = 1 .. Len(stack)
         /\ Len(stack') = Len(stack)
         /\ DOMAIN stack' = DOMAIN stack
         /\ \A n \in DOMAIN stack :
              stack'[n] = IF n = Len(stack) THEN service ELSE stack[n]
<1>1. stack \in Seq(Activation) /\ stack' = [stack EXCEPT ![Len(stack)] = service]
  BY DEF TypeOK, Served
<1> HIDE DEF Activation
<1> QED BY <1>1, EmptySeq, LenProperties, ExceptSeq

\* Returning removes the innermost activation.
LEMMA FrontRemoves ==
  ASSUME TypeOK, stack # <<>>, stack' = Front(stack)
  PROVE  /\ stack' \in Seq(Activation)
         /\ Len(stack) \in Nat \ {0}
         /\ DOMAIN stack = 1 .. Len(stack)
         /\ Len(stack') = Len(stack) - 1
         /\ DOMAIN stack' = 1 .. Len(stack) - 1
         /\ \A n \in 1 .. Len(stack) - 1 : stack'[n] = stack[n]
<1>1. stack \in Seq(Activation) /\ stack' = SubSeq(stack, 1, Len(stack) - 1)
  BY DEF TypeOK, Front
<1> HIDE DEF Activation
<1>2. Len(stack) \in Nat \ {0} /\ DOMAIN stack = 1 .. Len(stack)
  BY <1>1, EmptySeq, LenProperties
<1>3. \A n \in 1 .. Len(stack) - 1 : stack[n] \in Activation
  BY <1>1, <1>2, ElementOfSeq
<1> QED BY <1>1, <1>2, <1>3, SubSeqProperties, LenProperties

\* The innermost activation is one of the stack.
LEMMA LastOfStack ==
  ASSUME TypeOK, NEW at, Serving(at)
  PROVE  /\ stack # <<>>
         /\ Len(stack) \in DOMAIN stack
         /\ Last(stack) = stack[Len(stack)]
         /\ Last(stack) \in Activation
         /\ Last(stack).at = at
<1>1. stack \in Seq(Activation) /\ stack # <<>> /\ Last(stack) = stack[Len(stack)]
      /\ Last(stack).at = at
  BY DEF TypeOK, Serving, Last
<1> HIDE DEF Activation
<1> QED BY <1>1, EmptySeq, LenProperties, ElementOfSeq

--------------------------------------------------------------------------------
(* The invariant *)

\* The constructor registers nothing but the memory manager's handler, and
\* nothing is served (interrupts.cpp:77-93, kernel.cpp:130-136).
LEMMA InvInit == Init => Inv
<1> SUFFICES ASSUME Init PROVE Inv
  OBVIOUS
<1> USE InterruptsAssumption DEF Init
<1>1. \A m \in Managers : \A v \in IdtIndex :
        handlers[m][v] \in {NoHandler, PageFaultHandler}
  OBVIOUS
<1>2. TypeOK
  <2>1. handlers \in [Managers -> [IdtIndex -> Handlers \cup {NoHandler}]]
    BY DEF Handlers
  <2>2. number \in IdtIndex /\ requests \in 0 .. MaxRequests /\ nmis \in 0 .. MaxNmis
    BY DEF IdtIndex
  <2>3. stack \in Seq(Activation)
    BY EmptySeq
  <2>4. kernel \in [at : {"boot", "idle", "withdraw", "cli", "publish", "sti"},
                    manager : Managers]
    OBVIOUS
  <2> QED BY <2>1, <2>2, <2>3, <2>4 DEF TypeOK
<1>3. Nesting /\ Managed
  BY <1>1 DEF Nesting, Managed, Handlers
<1> QED BY <1>2, <1>3 DEF Inv

\* Registering and destroying a handler, which only happens while nothing is
\* served (interrupts.cpp:31-54).
LEMMA InvRegister ==
  ASSUME Inv, NEW h \in Devices, Register(h) \/ Unregister(h)
  PROVE  Inv'
<1> USE InterruptsAssumption
<1>1. /\ stack = <<>> /\ stack' = <<>>
      /\ UNCHANGED <<pending, master, slave, enabled, number, stack, active, kernel,
                     stopped, requests, nmis, forgotten>>
  BY DEF Register, Unregister, Booting, Idle, KernelRuns, pic, cpu, counts
<1>2. First \in Managers /\ VectorFor[h] \in IdtIndex /\ h # NoHandler /\ h # PageFaultHandler
  BY DEF Handlers
<1>3. CASE Register(h)
  <2>1. alive' = alive \cup {h} /\ handlers' = [handlers EXCEPT ![First][VectorFor[h]] = h]
    BY <1>3 DEF Register
  <2>2. \A m \in Managers : \A v \in IdtIndex :
          handlers'[m][v] = IF m = First /\ v = VectorFor[h] THEN h ELSE handlers[m][v]
    BY <1>2, <2>1 DEF Inv, TypeOK
  <2>3. TypeOK'
    BY <1>1, <1>2, <2>1 DEF Inv, TypeOK, Handlers
  <2>4. Managed'
    BY <1>1, <1>2, <2>1, <2>2 DEF Inv, Managed
  <2> QED BY <1>1, <2>3, <2>4 DEF Inv, Nesting
<1>4. CASE Unregister(h)
  <2>1. /\ alive' = alive \ {h}
        /\ handlers' = IF handlers[First][VectorFor[h]] = h
                         THEN [handlers EXCEPT ![First][VectorFor[h]] = NoHandler]
                         ELSE handlers
    BY <1>4 DEF Unregister
  <2>2. \A m \in Managers : \A v \in IdtIndex :
          handlers'[m][v] = IF m = First /\ v = VectorFor[h] /\ handlers[m][v] = h
                              THEN NoHandler ELSE handlers[m][v]
    BY <1>2, <2>1 DEF Inv, TypeOK
  <2>3. TypeOK'
    BY <1>1, <1>2, <2>1 DEF Inv, TypeOK, Handlers
  <2>4. Managed'
    <3>1. ASSUME NEW m \in Managers, NEW v \in IdtIndex
          PROVE  handlers'[m][v] \in alive' \cup {PageFaultHandler, NoHandler}
      BY <2>1, <2>2 DEF Inv, Managed
    <3>2. ASSUME NEW m \in Managers, NEW v \in IdtIndex, NEW g \in Devices,
                 handlers'[m][v] = g
          PROVE  m = First /\ v = VectorFor[g]
      BY <2>2, <3>2 DEF Inv, Managed, Handlers
    <3> QED BY <1>1, <3>1, <3>2 DEF Managed
  <2> QED BY <1>1, <2>3, <2>4 DEF Inv, Nesting
<1> QED BY <1>3, <1>4

\* kernelMain's steps, which it takes only while nothing is served, and the
\* devices asserting their lines (interrupts.cpp:170-193).
LEMMA InvKernel ==
  ASSUME Inv, \/ \E m \in Managers : Activate(m)
              \/ Kernel
              \/ \E line \in Lines : Raise(line)
  PROVE  Inv'
<1> USE InterruptsAssumption
<1>1. CASE \E line \in Lines : Raise(line)
  BY <1>1 DEF Raise, cpu, Inv, TypeOK, Nesting, Managed
<1>2. CASE (\E m \in Managers : Activate(m)) \/ Kernel
  <2>1. /\ stack = <<>> /\ stack' = <<>>
        /\ UNCHANGED <<pending, master, slave, number, handlers, alive, stopped,
                       requests, nmis, forgotten>>
    BY <1>2 DEF Activate, Kernel, Withdraw, Cli, Publish, Sti, Booting, Idle, KernelRuns,
                pic, cpu, counts
  <2>2. enabled' \in BOOLEAN /\ active' \in Managers \cup {NoManager}
    BY <1>2 DEF Activate, Kernel, Withdraw, Cli, Publish, Sti, cpu, Inv, TypeOK
  <2>3. kernel' \in [at : {"boot", "idle", "withdraw", "cli", "publish", "sti"},
                     manager : Managers]
    BY <1>2 DEF Activate, Kernel, Withdraw, Cli, Publish, Sti, Inv, TypeOK
  <2>4. TypeOK'
    BY <2>1, <2>2, <2>3 DEF Inv, TypeOK
  <2>5. Nesting' /\ Managed'
    BY <2>1 DEF Inv, Nesting, Managed
  <2> QED BY <2>4, <2>5 DEF Inv
<1> QED BY <1>1, <1>2

\* An interrupt that goes through its gate is the only request there is, or
\* switches on nothing when it returns (interrupts.cpp:116-131).
LEMMA EnterKeeps ==
  ASSUME Inv, NEW vector \in IdtIndex, Enter(vector), Idt[vector] # Ignore,
         \/ vector \in {NMI, PAGE_FAULT}
         \/ enabled /\ \E line \in Lines : vector = VectorOf(line),
         UNCHANGED <<handlers, alive, active>>
  PROVE  /\ stack' \in Seq(Activation)
         /\ enabled' = FALSE
         /\ Nesting' /\ Managed'
<1>1. /\ stack' \in Seq(Activation)
      /\ Len(stack) \in Nat
      /\ DOMAIN stack = 1 .. Len(stack)
      /\ Len(stack') = Len(stack) + 1
      /\ DOMAIN stack' = 1 .. Len(stack) + 1
      /\ \A n \in 1 .. Len(stack) : stack'[n] = stack[n]
      /\ stack'[Len(stack) + 1] = Entered(vector)
      /\ enabled' = FALSE
  BY EnterPushes DEF Inv
<1>2. Entered(vector).flag = enabled /\ Entered(vector).vector = vector
      /\ Entered(vector).at = "stub"
  BY DEF Entered
<1>3. stack = <<>> => Len(stack) = 0
  OBVIOUS
<1> HIDE DEF Activation
<1>4. Nesting'
  <2>1. ASSUME NEW n \in DOMAIN stack'
        PROVE  /\ n > 1 => ~stack'[n].flag /\ stack'[n].vector \in {NMI, PAGE_FAULT}
               /\ \/ stack'[n].vector \in {NMI, PAGE_FAULT}
                  \/ \E line \in Lines : stack'[n].vector = VectorOf(line)
    <3>1. CASE n \in 1 .. Len(stack)
      BY <1>1, <3>1 DEF Inv, Nesting
    <3>2. CASE n = Len(stack) + 1
      <4>1. enabled => n = 1
        BY <1>3, <3>2 DEF Inv, Nesting
      <4> QED BY <1>1, <1>2, <3>2, <4>1
    <3> QED BY <1>1, <3>1, <3>2
  <2> QED BY <1>1, <2>1 DEF Nesting
<1>5. Managed'
  <2>1. ASSUME NEW n \in DOMAIN stack'
        PROVE  /\ stack'[n].at \in {"dispatch", "handler"} =>
                    stack'[n].manager = active /\ active # NoManager
               /\ stack'[n].at = "handler" =>
                    /\ stack'[n].handler = handlers[active][stack'[n].interrupt]
                    /\ stack'[n].handler # NoHandler
    <3>1. CASE n \in 1 .. Len(stack)
      BY <1>1, <3>1 DEF Inv, Managed
    <3>2. CASE n = Len(stack) + 1
      BY <1>1, <1>2, <3>2
    <3> QED BY <1>1, <3>1, <3>2
  <2> QED BY <1>1, <2>1 DEF Inv, Managed
<1> QED BY <1>1, <1>4, <1>5

\* A request is taken (interrupts.cpp:116-150).
LEMMA InvRequest ==
  ASSUME Inv, NEW line \in Lines, Request(line)
  PROVE  Inv'
<1>1. /\ Enter(VectorOf(line)) /\ enabled
      /\ UNCHANGED <<handlers, alive, active, kernel, stopped, requests, nmis, forgotten>>
      /\ pending' = pending \ {line}
      /\ master' = master \cup {MasterLine(line)}
      /\ slave' = IF line < 8 THEN slave ELSE slave \cup {line}
  BY DEF Request, counts
<1>2. stack' \in Seq(Activation) /\ enabled' = FALSE /\ Nesting' /\ Managed'
  BY <1>1, RequestGate, EnterKeeps
<1>3. number' \in IdtIndex
  BY <1>1, RequestGate, EnterPushes DEF Inv
<1>4. MasterLine(line) \in 0 .. 7 /\ (~(line < 8) => line \in 8 .. 15)
  BY InterruptsAssumption DEF MasterLine
<1>5. master' \subseteq 0 .. 7 /\ slave' \subseteq 8 .. 15
  BY <1>1, <1>4, InterruptsAssumption DEF Inv, TypeOK
<1> QED BY <1>1, <1>2, <1>3, <1>5 DEF Inv, TypeOK

\* A non-maskable interrupt or a page fault comes on top.
LEMMA InvException ==
  ASSUME Inv, NonMaskable \/ PageFault
  PROVE  Inv'
<1> DEFINE v == IF NonMaskable THEN NMI ELSE PAGE_FAULT
<1>1. /\ Enter(v) /\ v \in {NMI, PAGE_FAULT}
      /\ UNCHANGED <<pending, master, slave, handlers, alive, active, kernel, stopped, requests>>
  BY DEF NonMaskable, PageFault, pic, counts
<1>2. forgotten' \in BOOLEAN /\ nmis' \in 0 .. MaxNmis
  <2>1. CASE NonMaskable
    <3>1. nmis' = nmis + 1 /\ nmis < MaxNmis /\ nmis \in 0 .. MaxNmis /\ MaxNmis \in Nat
      BY <2>1, InterruptsAssumption DEF NonMaskable, Inv, TypeOK
    <3>2. forgotten' = (forgotten \/ Serving("stub"))
      BY <2>1 DEF NonMaskable
    <3>3. forgotten' \in BOOLEAN
      BY <3>2
    <3> QED BY <3>1, <3>3
  <2>2. CASE PageFault
    BY <2>2 DEF PageFault, counts, Inv, TypeOK
  <2> QED BY <2>1, <2>2
<1> HIDE DEF v
<1>3. stack' \in Seq(Activation) /\ enabled' = FALSE /\ Nesting' /\ Managed'
  BY <1>1, ExceptionGate, EnterKeeps
<1>4. number' \in IdtIndex
  BY <1>1, ExceptionGate, EnterPushes DEF Inv
<1> QED BY <1>1, <1>2, <1>3, <1>4 DEF Inv, TypeOK

\* A step of the service of the innermost interrupt keeps its vector and its
\* flag, and what it has been told of the manager and the handler is current.
LEMMA ServedKeeps ==
  ASSUME Inv, stack # <<>>, NEW service \in Activation, Served(service),
         service.vector = Last(stack).vector, service.flag = Last(stack).flag,
         service.at \in {"dispatch", "handler"} =>
           service.manager = active /\ active # NoManager,
         service.at = "handler" =>
           /\ service.handler = handlers[active][service.interrupt]
           /\ service.handler # NoHandler,
         UNCHANGED <<enabled, handlers, alive, active>>
  PROVE  /\ stack' \in Seq(Activation)
         /\ Nesting' /\ Managed'
<1>1. /\ stack' \in Seq(Activation)
      /\ Len(stack) \in Nat \ {0}
      /\ DOMAIN stack = 1 .. Len(stack)
      /\ Len(stack') = Len(stack)
      /\ DOMAIN stack' = DOMAIN stack
      /\ \A n \in DOMAIN stack :
           stack'[n] = IF n = Len(stack) THEN service ELSE stack[n]
  BY ServedReplaces DEF Inv
<1>2. Last(stack) = stack[Len(stack)] /\ Len(stack) \in DOMAIN stack
  BY <1>1 DEF Last
<1> HIDE DEF Activation
<1>3. Nesting'
  <2>1. \A n \in DOMAIN stack : /\ stack'[n].vector = stack[n].vector
                                /\ stack'[n].flag = stack[n].flag
    BY <1>1, <1>2
  <2>2. ~enabled'
    BY <1>2 DEF Inv, Nesting
  <2> QED BY <1>1, <2>1, <2>2 DEF Inv, Nesting
<1>4. Managed'
  <2>1. ASSUME NEW n \in DOMAIN stack
        PROVE  /\ stack'[n].at \in {"dispatch", "handler"} =>
                    stack'[n].manager = active /\ active # NoManager
               /\ stack'[n].at = "handler" =>
                    /\ stack'[n].handler = handlers[active][stack'[n].interrupt]
                    /\ stack'[n].handler # NoHandler
    <3>1. CASE n = Len(stack)
      BY <1>1, <3>1
    <3>2. CASE n # Len(stack)
      BY <1>1, <3>2 DEF Inv, Managed
    <3> QED BY <3>1, <3>2
  <2> QED BY <1>1, <2>1 DEF Inv, Managed
<1> QED BY <1>1, <1>3, <1>4

\* The steps of the service, which keep the manager and its handlers
\* (interrupts.cpp:181-235).
LEMMA InvService ==
  ASSUME Inv, HandleInterrupt \/ Dispatch \/ HandlerReturns \/ EndOfInterrupt
  PROVE  Inv'
<1> USE DEF Activation
<1>1. CASE HandleInterrupt
  <2> DEFINE service ==
        [Last(stack) EXCEPT
           !.interrupt = number, !.manager = active,
           !.at = IF active = NoManager THEN "return" ELSE "dispatch"]
  <2>1. Last(stack) \in Activation /\ stack # <<>>
    BY <1>1, LastOfStack DEF HandleInterrupt, Inv
  <2>2. /\ Served(service)
        /\ UNCHANGED <<pending, master, slave, enabled, number, handlers, alive, active,
                       kernel, stopped, requests, nmis>>
        /\ forgotten' \in BOOLEAN
    BY <1>1 DEF HandleInterrupt, pic, counts, Inv, TypeOK
  <2>3. /\ service \in Activation
        /\ service.vector = Last(stack).vector /\ service.flag = Last(stack).flag
        /\ service.at = "dispatch" => service.manager = active /\ active # NoManager
        /\ service.at \in {"return", "dispatch"}
    BY <2>1 DEF Inv, TypeOK
  <2> HIDE DEF service
  <2>4. stack' \in Seq(Activation) /\ Nesting' /\ Managed'
    BY <2>1, <2>2, <2>3, ServedKeeps
  <2> QED BY <2>2, <2>4 DEF Inv, TypeOK
<1>2. CASE Dispatch
  <2> DEFINE h == handlers[Last(stack).manager][Last(stack).interrupt]
             service == [Last(stack) EXCEPT !.handler = h,
                           !.at = IF h = NoHandler THEN "end" ELSE "handler"]
  <2>1. /\ Last(stack) \in Activation /\ stack # <<>>
        /\ Last(stack).manager = active /\ active # NoManager
    BY <1>2, LastOfStack DEF Dispatch, Inv, Managed
  <2>2. /\ Served(service)
        /\ UNCHANGED <<pending, master, slave, enabled, number, handlers, alive, active,
                       kernel, stopped, requests, nmis, forgotten>>
    BY <1>2 DEF Dispatch, pic, counts
  <2>3. h \in Handlers \cup {NoHandler}
    BY <2>1 DEF Inv, TypeOK
  <2>4. /\ service \in Activation
        /\ service.vector = Last(stack).vector /\ service.flag = Last(stack).flag
        /\ service.manager = active
        /\ service.at = "handler" => h # NoHandler
        /\ service.handler = handlers[active][service.interrupt]
        /\ service.handler = h
        /\ service.at # "dispatch"
    BY <2>1, <2>3
  <2> HIDE DEF service, h
  <2>5. stack' \in Seq(Activation) /\ Nesting' /\ Managed'
    BY <2>1, <2>2, <2>4, ServedKeeps
  <2> QED BY <2>2, <2>5 DEF Inv, TypeOK
<1>3. CASE HandlerReturns
  <2>0. /\ UNCHANGED <<pending, master, slave, enabled, number, handlers, alive, active,
                       kernel, requests, nmis, forgotten>>
        /\ stopped' \in BOOLEAN
    BY <1>3 DEF HandlerReturns, pic, counts, Inv, TypeOK
  <2>1. CASE Last(stack).handler = PageFaultHandler
    <3>1. UNCHANGED stack
      BY <1>3, <2>1 DEF HandlerReturns
    <3> QED BY <2>0, <3>1 DEF Inv, TypeOK, Nesting, Managed
  <2>2. CASE Last(stack).handler # PageFaultHandler
    <3> DEFINE service == [Last(stack) EXCEPT !.at = "end"]
    <3>1. Last(stack) \in Activation /\ stack # <<>>
      BY <1>3, LastOfStack DEF HandlerReturns, Inv
    <3>2. Served(service)
      BY <1>3, <2>2 DEF HandlerReturns
    <3>3. /\ service \in Activation /\ service.at = "end"
          /\ service.vector = Last(stack).vector /\ service.flag = Last(stack).flag
      BY <3>1
    <3> HIDE DEF service
    <3>4. stack' \in Seq(Activation) /\ Nesting' /\ Managed'
      BY <2>0, <3>1, <3>2, <3>3, ServedKeeps
    <3> QED BY <2>0, <3>4 DEF Inv, TypeOK
  <2> QED BY <2>1, <2>2
<1>4. CASE EndOfInterrupt
  <2> DEFINE service == [Last(stack) EXCEPT !.at = "return"]
  <2>1. Last(stack) \in Activation /\ stack # <<>>
    BY <1>4, LastOfStack DEF EndOfInterrupt, Inv
  <2>2. /\ Served(service)
        /\ UNCHANGED <<pending, enabled, number, handlers, alive, active, kernel,
                       stopped, requests, nmis, forgotten>>
        /\ master' \subseteq master /\ slave' \subseteq slave
    BY <1>4 DEF EndOfInterrupt, counts, Ended
  <2>3. /\ service \in Activation /\ service.at = "return"
        /\ service.vector = Last(stack).vector /\ service.flag = Last(stack).flag
    BY <2>1
  <2> HIDE DEF service
  <2>4. stack' \in Seq(Activation) /\ Nesting' /\ Managed'
    BY <2>1, <2>2, <2>3, ServedKeeps
  <2> QED BY <2>2, <2>4 DEF Inv, TypeOK
<1> QED BY <1>1, <1>2, <1>3, <1>4

\* The return switches interrupts on only where nothing else is served
\* (interruptstubs.s:91-111).
LEMMA InvReturn ==
  ASSUME Inv, Return
  PROVE  Inv'
<1>1. /\ stack # <<>> /\ stack' = Front(stack) /\ enabled' = Last(stack).flag
      /\ UNCHANGED <<pending, master, slave, number, handlers, alive, active, kernel,
                     stopped, requests, nmis, forgotten>>
  BY DEF Return, Serving, pic, counts
<1>2. Last(stack) = stack[Len(stack)] /\ Last(stack) \in Activation /\ Len(stack) \in DOMAIN stack
  BY LastOfStack DEF Return, Inv
<1>3. /\ stack' \in Seq(Activation)
      /\ Len(stack) \in Nat \ {0}
      /\ DOMAIN stack = 1 .. Len(stack)
      /\ Len(stack') = Len(stack) - 1
      /\ DOMAIN stack' = 1 .. Len(stack) - 1
      /\ \A n \in 1 .. Len(stack) - 1 : stack'[n] = stack[n]
  BY <1>1, FrontRemoves DEF Inv
<1>4. enabled' \in BOOLEAN
  BY <1>1, <1>2 DEF Activation
<1> HIDE DEF Activation
<1>5. enabled' => stack' = <<>>
  <2>1. Last(stack).flag => Len(stack) = 1
    BY <1>2, <1>3 DEF Inv, Nesting
  <2>2. Len(stack') = 0 => stack' = <<>>
    BY <1>3, EmptySeq
  <2> QED BY <1>1, <1>3, <2>1, <2>2
<1>6. Nesting'
  BY <1>3, <1>5 DEF Inv, Nesting
<1>7. Managed'
  BY <1>1, <1>3 DEF Inv, Managed
<1> QED BY <1>1, <1>3, <1>4, <1>6, <1>7 DEF Inv, TypeOK

\* Every step of the processor, the controllers and kernelMain keeps it.
LEMMA InvNext == Inv /\ [Next]_vars => Inv'
<1> SUFFICES ASSUME Inv, [Next]_vars PROVE Inv'
  OBVIOUS
<1>1. CASE \E h \in Devices : Register(h) \/ Unregister(h)
  BY <1>1, InvRegister
<1>2. CASE (\E m \in Managers : Activate(m)) \/ Kernel \/ (\E line \in Lines : Raise(line))
  BY <1>2, InvKernel
<1>3. CASE \E line \in Lines : Request(line)
  BY <1>3, InvRequest
<1>4. CASE NonMaskable \/ PageFault
  BY <1>4, InvException
<1>5. CASE HandleInterrupt \/ Dispatch \/ HandlerReturns \/ EndOfInterrupt
  BY <1>5, InvService
<1>6. CASE Return
  BY <1>6, InvReturn
<1>7. CASE Halt \/ UNCHANGED vars
  <2>1. UNCHANGED <<pending, master, slave, enabled, number, stack, handlers, alive,
                    active, kernel, stopped, requests, nmis, forgotten>>
    BY <1>7 DEF Halt, vars, pic, cpu, counts
  <2>2. TypeOK'
    BY <2>1 DEF Inv, TypeOK
  <2>3. Nesting' /\ Managed'
    BY <2>1 DEF Inv, Nesting, Managed
  <2> QED BY <2>2, <2>3 DEF Inv
<1> QED BY <1>1, <1>2, <1>3, <1>4, <1>5, <1>6, <1>7 DEF Next, Service

\* The invariant holds in every state of every execution, whichever manager is
\* active and wherever the requests are mapped (interrupts.cpp:77-235).
THEOREM Invariant == Spec => []Inv
<1>1. Init => Inv
  BY InvInit
<1>2. Inv /\ [Next]_vars => Inv'
  BY InvNext
<1> QED BY <1>1, <1>2, PTL DEF Spec

\* The controllers, the tables and the stack are of their types.
THEOREM TypeCorrect == Spec => []TypeOK
<1>1. Inv => TypeOK
  BY DEF Inv
<1> QED BY <1>1, Invariant, PTL

\* While one request is served no other one is (interrupts.cpp:116-131).
THEOREM OneRequest == Spec => []RequestsDoNotNest
<1>1. Inv => RequestsDoNotNest
  <2> SUFFICES ASSUME Inv, NEW n \in DOMAIN stack, IsRequest(stack[n].vector)
               PROVE  n = 1
    BY DEF RequestsDoNotNest
  <2>1. DOMAIN stack = 1 .. Len(stack) /\ Len(stack) \in Nat
    BY LenProperties DEF Inv, TypeOK
  <2>2. ~(n > 1)
    BY ExceptionGate DEF Inv, Nesting
  <2> QED BY <2>1, <2>2
<1> QED BY <1>1, Invariant, PTL

--------------------------------------------------------------------------------
(* End of interrupt *)

\* The line being served and not yet ended is that of the outermost interrupt.
Outermost ==
  /\ \A line \in Lines :
       stack # <<>> /\ stack[1].vector = VectorOf(line) /\ stack[1].at # "return"
         => Unended = {line}
  /\ stack = <<>> \/ stack[1].at = "return" \/ stack[1].vector \in {NMI, PAGE_FAULT}
       => Unended = {}

\* No two lines share a vector, and no exception has one (interrupts.cpp:134-150).
LEMMA UnendedIsOutermost == Inv => Outermost
<1> SUFFICES ASSUME Inv PROVE Outermost
  OBVIOUS
<1>1. DOMAIN stack = 1 .. Len(stack) /\ Len(stack) \in Nat /\ (stack # <<>> => Len(stack) # 0)
  BY LenProperties, EmptySeq DEF Inv, TypeOK
<1>2. \A k, line \in Lines : VectorOf(k) = VectorOf(line) => k = line
  BY RequestGate, InterruptsAssumption
<1>3. \A line \in Lines : VectorOf(line) \notin {NMI, PAGE_FAULT}
  BY RequestGate
<1>4. \A n \in DOMAIN stack : n # 1 => stack[n].vector \in {NMI, PAGE_FAULT}
  BY <1>1 DEF Inv, Nesting
<1>5. \A line \in Unended : /\ stack # <<>> /\ stack[1].vector = VectorOf(line)
                            /\ stack[1].at # "return"
  BY <1>1, <1>3, <1>4 DEF Unended
<1>6. ASSUME NEW line \in Lines, stack # <<>>, stack[1].vector = VectorOf(line),
             stack[1].at # "return"
      PROVE  Unended = {line}
  <2>1. line \in Unended
    BY <1>1, <1>6 DEF Unended
  <2>2. \A k \in Unended : k = line
    BY <1>2, <1>5, <1>6 DEF Unended
  <2> QED BY <2>1, <2>2
<1>7. ASSUME stack = <<>> \/ stack[1].at = "return" \/ stack[1].vector \in {NMI, PAGE_FAULT}
      PROVE  Unended = {}
  <2>1. ASSUME NEW line \in Unended PROVE FALSE
    <3>1. line \in Lines
      BY DEF Unended
    <3> QED BY <1>3, <1>5, <1>7, <3>1
  <2> QED BY <2>1
<1> QED BY <1>6, <1>7 DEF Outermost

\* The same of the next state.
LEMMA NextUnendedIsOutermost == Inv' => Outermost'
BY UnendedIsOutermost, PTL

\* What the controllers have in service is told by the outermost interrupt: a
\* step that keeps its vector, and keeps it short of its return or in it, keeps
\* that.
LEMMA SameOutermost ==
  ASSUME Inv, Inv', stack # <<>>, stack' # <<>>,
         stack'[1].vector = stack[1].vector,
         stack'[1].at = "return" <=> stack[1].at = "return"
  PROVE  Unended' = Unended
<1>1. Outermost /\ Outermost'
  BY UnendedIsOutermost, NextUnendedIsOutermost
<1>2. 1 \in DOMAIN stack
  BY LenProperties, EmptySeq DEF Inv, TypeOK
<1>3. CASE stack[1].vector \in {NMI, PAGE_FAULT}
  BY <1>1, <1>3 DEF Outermost
<1>4. CASE \E line \in Lines : stack[1].vector = VectorOf(line)
  <2>1. PICK line \in Lines : stack[1].vector = VectorOf(line)
    BY <1>4
  <2>2. VectorOf(line)' = VectorOf(line)
    BY DEF VectorOf
  <2> QED BY <1>1, <2>1, <2>2 DEF Outermost
<1> QED BY <1>2, <1>3, <1>4 DEF Inv, Nesting

\* Nothing is served at first, and nothing is in service.
LEMMA FaithfulInit == Init => Faithful
BY DEF Init, Faithful, Numbered, InServiceWhileServed, Unended

\* What is in service where the lines not ended are none or one.
InService(lines) ==
  /\ slave = {line \in lines : line >= 8}
  /\ master = {MasterLine(line) : line \in lines}

\* A request is taken where nothing is in service.
LEMMA FaithfulRequest ==
  ASSUME Offset = IRQ_BASE, Inv, Inv', Faithful, ~forgotten',
         NEW line \in Lines, Request(line)
  PROVE  Numbered' /\ InServiceWhileServed'
<1>1. /\ Enter(VectorOf(line)) /\ enabled /\ forgotten' = forgotten
      /\ master' = master \cup {MasterLine(line)}
      /\ slave' = IF line < 8 THEN slave ELSE slave \cup {line}
  BY DEF Request
<1>2. stack = <<>> /\ Len(stack) = 0
  BY <1>1, EmptySeq DEF Inv, Nesting
<1>3. /\ stack'[1] = Entered(VectorOf(line)) /\ Len(stack') = 1 /\ DOMAIN stack' = 1 .. 1
      /\ number' = line + IRQ_BASE /\ stack' # <<>>
  <2>1. VectorOf(line) \in IdtIndex /\ Idt[VectorOf(line)] # Ignore
    BY RequestGate
  <2>2. /\ Len(stack') = Len(stack) + 1
        /\ DOMAIN stack' = 1 .. Len(stack) + 1
        /\ stack'[Len(stack) + 1] = Entered(VectorOf(line))
        /\ number' = StubNumber(Idt[VectorOf(line)])
    BY <1>1, <2>1, EnterPushes DEF Inv
  <2>3. stack' # <<>>
    BY <1>2, <2>2, EmptySeq
  <2> QED BY <1>2, <2>2, <2>3, RequestGate
<1>4. number' = VectorOf(line)
  BY <1>3, RequestGate, InterruptsAssumption DEF IRQ_BASE
<1>5. Numbered'
  BY <1>3, <1>4 DEF Numbered, Entered
<1>6. slave = {} /\ master = {}
  <2>1. Unended = {}
    BY <1>2, UnendedIsOutermost DEF Outermost
  <2> QED BY <1>1, <2>1 DEF Faithful, InServiceWhileServed
<1>7. Unended' = {line}
  <2>1. VectorOf(line)' = VectorOf(line)
    BY DEF VectorOf
  <2> QED BY <1>3, <2>1, NextUnendedIsOutermost DEF Outermost, Entered
<1>8. line \in 0 .. 15
  BY InterruptsAssumption
<1>9. slave' = {l \in {line} : l >= 8} /\ master' = {MasterLine(l) : l \in {line}}
  BY <1>1, <1>6, <1>8
<1> QED BY <1>5, <1>7, <1>9 DEF InServiceWhileServed

\* An exception leaves what is below it alone, and its vector is no line's.
LEMMA FaithfulException ==
  ASSUME Inv, Inv', Faithful, ~forgotten', NonMaskable \/ PageFault
  PROVE  Numbered' /\ InServiceWhileServed'
<1> DEFINE v == IF NonMaskable THEN NMI ELSE PAGE_FAULT
<1>1. /\ Enter(v) /\ v \in {NMI, PAGE_FAULT} /\ ~Serving("stub") /\ ~stopped /\ ~forgotten
      /\ UNCHANGED <<master, slave>>
  <2>1. CASE NonMaskable
    <3>1. forgotten' = (forgotten \/ Serving("stub"))
      BY <2>1 DEF NonMaskable
    <3>2. ~Serving("stub") /\ ~forgotten
      BY <3>1
    <3> QED BY <2>1, <3>2 DEF NonMaskable, pic
  <2>2. CASE PageFault /\ ~NonMaskable
    <3>1. Serving("handler") /\ UNCHANGED forgotten
      BY <2>2 DEF PageFault
    <3>2. ~Serving("stub") /\ ~stopped
      BY <3>1 DEF Serving
    <3>3. Enter(PAGE_FAULT) /\ UNCHANGED <<master, slave>>
      BY <2>2 DEF PageFault, pic
    <3> QED BY <2>2, <3>1, <3>2, <3>3
  <2> QED BY <2>1, <2>2
<1> HIDE DEF v
<1>2. /\ Len(stack) \in Nat
      /\ DOMAIN stack = 1 .. Len(stack)
      /\ Len(stack') = Len(stack) + 1
      /\ DOMAIN stack' = 1 .. Len(stack) + 1
      /\ \A n \in 1 .. Len(stack) : stack'[n] = stack[n]
      /\ stack'[Len(stack) + 1] = Entered(v)
      /\ number' = v
  BY <1>1, ExceptionGate, EnterPushes DEF Inv
<1>3. Numbered /\ InServiceWhileServed
  BY <1>1 DEF Faithful
<1>4. \A n \in 1 .. Len(stack) : stack[n].at # "stub"
  <2>1. stack # <<>> => Last(stack).at # "stub"
    BY <1>1 DEF Serving
  <2>2. \A n \in 1 .. Len(stack) : stack # <<>>
    BY <1>2, EmptySeq
  <2> QED BY <1>2, <1>3, <2>1, <2>2 DEF Numbered, Last
<1>5. Numbered'
  <2>1. ASSUME NEW n \in DOMAIN stack'
        PROVE  IF stack'[n].at = "stub" THEN n = Len(stack') /\ number' = stack'[n].vector
                                        ELSE stack'[n].interrupt = stack'[n].vector
    <3>1. CASE n \in 1 .. Len(stack)
      BY <1>2, <1>3, <1>4, <3>1 DEF Numbered
    <3>2. CASE n = Len(stack) + 1
      BY <1>2, <3>2 DEF Entered
    <3> QED BY <1>2, <3>1, <3>2
  <2> QED BY <2>1 DEF Numbered
<1>6. Unended' = Unended
  <2>1. CASE stack = <<>>
    <3>1. Len(stack) = 0
      BY <2>1, EmptySeq
    <3>2. stack'[1].vector \in {NMI, PAGE_FAULT}
      BY <1>1, <1>2, <3>1 DEF Entered
    <3> QED BY <2>1, <3>2, UnendedIsOutermost, NextUnendedIsOutermost DEF Outermost
  <2>2. CASE stack # <<>>
    <3>1. Len(stack) # 0
      BY <2>2, EmptySeq DEF Inv, TypeOK
    <3>2. stack'[1] = stack[1] /\ stack' # <<>>
      BY <1>2, <3>1, EmptySeq DEF Inv, TypeOK
    <3> QED BY <2>2, <3>2, SameOutermost
  <2> QED BY <2>1, <2>2
<1> QED BY <1>1, <1>3, <1>5, <1>6 DEF InServiceWhileServed

\* A step of the service keeps the numbers apart from the byte.
LEMMA NumberedServed ==
  ASSUME Inv, Numbered, stack # <<>>, NEW service \in Activation, Served(service),
         service.at # "stub", service.interrupt = service.vector
  PROVE  Numbered'
<1>1. /\ DOMAIN stack = 1 .. Len(stack) /\ Len(stack) \in Nat \ {0}
      /\ Len(stack') = Len(stack)
      /\ DOMAIN stack' = DOMAIN stack
      /\ \A n \in DOMAIN stack :
           stack'[n] = IF n = Len(stack) THEN service ELSE stack[n]
  BY ServedReplaces DEF Inv
<1>2. \A n \in DOMAIN stack : n # Len(stack) => stack[n].at # "stub"
  BY DEF Numbered
<1> HIDE DEF Activation
<1> QED BY <1>1, <1>2 DEF Numbered

\* A step of the service that ends no request keeps what is not ended.
LEMMA UnendedServed ==
  ASSUME Inv, Inv', stack # <<>>, NEW service \in Activation, Served(service),
         service.vector = Last(stack).vector,
         \/ service.at = "return" <=> Last(stack).at = "return"
         \/ Last(stack).vector \in {NMI, PAGE_FAULT}
  PROVE  Unended' = Unended
<1>1. /\ DOMAIN stack = 1 .. Len(stack) /\ Len(stack) \in Nat \ {0}
      /\ Len(stack') = Len(stack)
      /\ \A n \in DOMAIN stack :
           stack'[n] = IF n = Len(stack) THEN service ELSE stack[n]
  BY ServedReplaces DEF Inv
<1>2. stack' # <<>>
  BY <1>1, EmptySeq
<1>3. stack'[1].vector = stack[1].vector
  BY <1>1 DEF Last
<1>4. CASE stack[1].vector \in {NMI, PAGE_FAULT}
  BY <1>3, <1>4, UnendedIsOutermost, NextUnendedIsOutermost DEF Outermost
<1>5. CASE stack[1].vector \notin {NMI, PAGE_FAULT}
  <2>1. stack'[1].at = "return" <=> stack[1].at = "return"
    BY <1>1, <1>5 DEF Last
  <2> QED BY <1>2, <1>3, <2>1, SameOutermost
<1> QED BY <1>4, <1>5

\* The innermost interrupt, before and after a step of its service.
LEMMA Innermost ==
  ASSUME Inv, NEW at, Serving(at), Numbered
  PROVE  /\ stack # <<>> /\ Last(stack) \in Activation
         /\ Last(stack).at = at
         /\ IF at = "stub" THEN number = Last(stack).vector
                           ELSE Last(stack).interrupt = Last(stack).vector
         /\ \/ Last(stack).vector \in {NMI, PAGE_FAULT}
            \/ /\ Len(stack) = 1 /\ Last(stack) = stack[1]
               /\ \E line \in Lines : Last(stack).vector = VectorOf(line)
<1>1. /\ stack # <<>> /\ Len(stack) \in DOMAIN stack /\ Last(stack) = stack[Len(stack)]
      /\ Last(stack) \in Activation /\ Last(stack).at = at
  BY LastOfStack DEF Inv
<1>2. DOMAIN stack = 1 .. Len(stack) /\ Len(stack) \in Nat
  BY LenProperties DEF Inv, TypeOK
<1> HIDE DEF Activation
<1> QED BY <1>1, <1>2 DEF Inv, Nesting, Numbered

\* A stub that is not overtaken passes its own vector on, and one step of the
\* dispatch follows the other (interrupts.cpp:181-199, 230-235).
LEMMA FaithfulDispatch ==
  ASSUME Inv, Inv', Faithful, ~forgotten', HandleInterrupt \/ Dispatch \/ HandlerReturns
  PROVE  Numbered' /\ InServiceWhileServed'
<1> USE DEF Activation
<1>1. CASE HandleInterrupt
  <2> DEFINE service ==
        [Last(stack) EXCEPT
           !.interrupt = number, !.manager = active,
           !.at = IF active = NoManager THEN "return" ELSE "dispatch"]
  <2>1. /\ Served(service) /\ UNCHANGED <<master, slave>> /\ Serving("stub")
        /\ ~forgotten /\ ~(IsRequest(Last(stack).vector) /\ active = NoManager)
    BY <1>1 DEF HandleInterrupt, pic
  <2>2. Numbered /\ InServiceWhileServed
    BY <2>1 DEF Faithful
  <2>3. /\ stack # <<>> /\ Last(stack) \in Activation
        /\ Last(stack).at = "stub" /\ number = Last(stack).vector
        /\ \/ Last(stack).vector \in {NMI, PAGE_FAULT}
           \/ \E line \in Lines : Last(stack).vector = VectorOf(line)
    BY <2>1, <2>2, Innermost
  <2>4. /\ service \in Activation
        /\ service.vector = Last(stack).vector /\ service.interrupt = service.vector
        /\ service.at # "stub"
        /\ service.at = "return" => active = NoManager
    BY <2>3 DEF Inv, TypeOK
  <2> HIDE DEF service
  <2>5. Last(stack).vector \notin {NMI, PAGE_FAULT} => service.at # "return"
    BY <2>1, <2>3, <2>4, RequestGate
  <2>6. Numbered'
    BY <2>1, <2>2, <2>3, <2>4, NumberedServed
  <2>7. Unended' = Unended
    BY <2>1, <2>3, <2>4, <2>5, UnendedServed
  <2> QED BY <2>1, <2>2, <2>6, <2>7 DEF InServiceWhileServed
<1>2. CASE Dispatch
  <2> DEFINE h == handlers[Last(stack).manager][Last(stack).interrupt]
             service == [Last(stack) EXCEPT !.handler = h,
                           !.at = IF h = NoHandler THEN "end" ELSE "handler"]
  <2>1. /\ Served(service) /\ UNCHANGED <<master, slave>> /\ Serving("dispatch") /\ ~forgotten
    BY <1>2 DEF Dispatch, pic
  <2>2. Numbered /\ InServiceWhileServed
    BY <2>1 DEF Faithful
  <2>3. /\ stack # <<>> /\ Last(stack) \in Activation
        /\ Last(stack).at = "dispatch" /\ Last(stack).interrupt = Last(stack).vector
    BY <2>1, <2>2, Innermost
  <2>4. h \in Handlers \cup {NoHandler}
    BY <2>1, <2>3, LastOfStack DEF Inv, Managed, TypeOK
  <2>5. /\ service \in Activation
        /\ service.vector = Last(stack).vector /\ service.interrupt = service.vector
        /\ service.at # "stub" /\ service.at # "return"
    BY <2>3, <2>4
  <2> HIDE DEF service, h
  <2>6. Numbered'
    BY <2>1, <2>2, <2>3, <2>5, NumberedServed
  <2>7. Unended' = Unended
    BY <2>1, <2>3, <2>5, UnendedServed
  <2> QED BY <2>1, <2>2, <2>6, <2>7 DEF InServiceWhileServed
<1>3. CASE HandlerReturns
  <2> DEFINE service == [Last(stack) EXCEPT !.at = "end"]
  <2>1. /\ UNCHANGED <<master, slave, number>> /\ Serving("handler") /\ ~forgotten
        /\ Served(service) \/ UNCHANGED stack
    BY <1>3 DEF HandlerReturns, pic
  <2>2. Numbered /\ InServiceWhileServed
    BY <2>1 DEF Faithful
  <2>3. CASE UNCHANGED stack
    BY <2>1, <2>2, <2>3 DEF Numbered, InServiceWhileServed, Unended
  <2>4. CASE Served(service)
    <3>1. /\ stack # <<>> /\ Last(stack) \in Activation
          /\ Last(stack).at = "handler" /\ Last(stack).interrupt = Last(stack).vector
      BY <2>1, <2>2, Innermost
    <3>2. /\ service \in Activation
          /\ service.vector = Last(stack).vector /\ service.interrupt = service.vector
          /\ service.at # "stub" /\ service.at # "return"
      BY <3>1
    <3> HIDE DEF service
    <3>3. Numbered'
      BY <2>2, <2>4, <3>1, <3>2, NumberedServed
    <3>4. Unended' = Unended
      BY <2>4, <3>1, <3>2, UnendedServed
    <3> QED BY <2>1, <2>2, <3>3, <3>4 DEF InServiceWhileServed
  <2> QED BY <2>1, <2>3, <2>4
<1> QED BY <1>1, <1>2, <1>3

\* The least element of a singleton is its element.
LEMMA EndedSingleton ==
  ASSUME NEW line \in Int
  PROVE  Ended({line}) = {} /\ Ended({}) = {}
<1>1. Min({line}) = line
  BY DEF Min
<1> QED BY <1>1 DEF Ended

\* The end of interrupt ends the one line that is in service, in both
\* controllers where it is the slave's (interrupts.cpp:201-209).
LEMMA FaithfulEnd ==
  ASSUME Offset = IRQ_BASE, Inv, Inv', Faithful, ~forgotten', EndOfInterrupt
  PROVE  Numbered' /\ InServiceWhileServed'
<1> USE DEF Activation
<1> DEFINE service == [Last(stack) EXCEPT !.at = "return"]
           vector  == Last(stack).interrupt
<1>1. /\ Served(service) /\ Serving("end") /\ ~forgotten
      /\ slave' = IF IsRequest(vector) /\ vector >= Offset + 8 THEN Ended(slave) ELSE slave
      /\ master' = IF IsRequest(vector) THEN Ended(master) ELSE master
  BY DEF EndOfInterrupt
<1>2. Numbered /\ InServiceWhileServed
  BY <1>1 DEF Faithful
<1>3. /\ stack # <<>> /\ Last(stack) \in Activation
      /\ Last(stack).at = "end" /\ vector = Last(stack).vector
      /\ \/ vector \in {NMI, PAGE_FAULT}
         \/ /\ Len(stack) = 1 /\ Last(stack) = stack[1]
            /\ \E line \in Lines : vector = VectorOf(line)
  BY <1>1, <1>2, Innermost
<1>4. /\ service \in Activation
      /\ service.vector = vector /\ service.interrupt = service.vector
      /\ service.at = "return"
  BY <1>3
<1> HIDE DEF service
<1>5. Numbered'
  BY <1>1, <1>2, <1>3, <1>4, NumberedServed
<1>6. CASE vector \in {NMI, PAGE_FAULT}
  <2>1. Unended' = Unended
    BY <1>1, <1>3, <1>4, <1>6, UnendedServed
  <2>2. UNCHANGED <<master, slave>>
    BY <1>1, <1>6, ExceptionGate
  <2> QED BY <1>1, <1>2, <1>5, <2>1, <2>2 DEF InServiceWhileServed
<1>7. CASE vector \notin {NMI, PAGE_FAULT}
  <2>1. PICK line \in Lines : vector = VectorOf(line)
    BY <1>3, <1>7
  <2>2. Len(stack) = 1 /\ Last(stack) = stack[1]
    BY <1>3, <1>7
  <2>3. Unended = {line}
    BY <1>3, <2>1, <2>2, UnendedIsOutermost DEF Outermost
  <2>4. line \in 0 .. 15 /\ MasterLine(line) \in Int
    BY InterruptsAssumption DEF MasterLine
  <2>5. IsRequest(vector) /\ (vector >= Offset + 8 <=> line >= 8)
    BY <2>1, <2>4, RequestGate, InterruptsAssumption
  <2>6. master = {MasterLine(line)} /\ slave = IF line >= 8 THEN {line} ELSE {}
    BY <1>1, <1>2, <2>3 DEF InServiceWhileServed
  <2>7. master' = {} /\ slave' = {}
    BY <1>1, <2>4, <2>5, <2>6, EndedSingleton
  <2>8. stack' # <<>> /\ stack'[1].at = "return"
    <3>1. /\ DOMAIN stack = 1 .. Len(stack)
          /\ Len(stack') = Len(stack)
          /\ \A n \in DOMAIN stack :
               stack'[n] = IF n = Len(stack) THEN service ELSE stack[n]
      BY <1>1, <1>3, <1>4, ServedReplaces DEF Inv
    <3> QED BY <1>4, <2>2, <3>1, EmptySeq
  <2>9. Unended' = {}
    BY <2>8, NextUnendedIsOutermost DEF Outermost
  <2> QED BY <1>5, <2>7, <2>9 DEF InServiceWhileServed
<1> QED BY <1>6, <1>7

\* The return leaves no line behind.
LEMMA FaithfulReturn ==
  ASSUME Inv, Inv', Faithful, ~forgotten', Return
  PROVE  Numbered' /\ InServiceWhileServed'
<1>1. /\ Serving("return") /\ stack' = Front(stack) /\ ~forgotten
      /\ UNCHANGED <<master, slave, number>>
  BY DEF Return, pic
<1>2. Numbered /\ InServiceWhileServed
  BY <1>1 DEF Faithful
<1>3. /\ stack # <<>> /\ Last(stack) = stack[Len(stack)] /\ Last(stack).at = "return"
  BY <1>1, LastOfStack DEF Inv
<1>4. /\ Len(stack) \in Nat \ {0}
      /\ DOMAIN stack = 1 .. Len(stack)
      /\ Len(stack') = Len(stack) - 1
      /\ DOMAIN stack' = 1 .. Len(stack) - 1
      /\ \A n \in 1 .. Len(stack) - 1 : stack'[n] = stack[n]
  BY <1>1, <1>3, FrontRemoves DEF Inv
<1>5. \A n \in DOMAIN stack : stack[n].at # "stub"
  BY <1>2, <1>3 DEF Numbered
<1>6. Numbered'
  BY <1>2, <1>4, <1>5 DEF Numbered
<1>7. Unended' = Unended
  <2>1. CASE Len(stack) = 1
    <3>1. stack' = <<>>
      BY <1>4, <2>1, EmptySeq DEF Inv, TypeOK
    <3> QED BY <1>3, <2>1, <3>1, UnendedIsOutermost, NextUnendedIsOutermost DEF Outermost
  <2>2. CASE Len(stack) # 1
    <3>1. stack' # <<>> /\ stack'[1] = stack[1]
      BY <1>4, <2>2, EmptySeq
    <3> QED BY <1>3, <3>1, SameOutermost
  <2> QED BY <2>1, <2>2
<1> QED BY <1>1, <1>2, <1>6, <1>7 DEF InServiceWhileServed

\* Every step keeps the numbers and what is in service, where the stubs add
\* the offset that the controllers are told.
LEMMA FaithfulNext ==
  ASSUME Offset = IRQ_BASE
  PROVE  Inv /\ Inv' /\ Faithful /\ [Next]_vars => Faithful'
<1> SUFFICES ASSUME Inv, Inv', Faithful, [Next]_vars, ~forgotten'
             PROVE  Numbered' /\ InServiceWhileServed'
  BY DEF Faithful
<1>1. CASE \E line \in Lines : Request(line)
  BY <1>1, FaithfulRequest
<1>2. CASE NonMaskable \/ PageFault
  BY <1>2, FaithfulException
<1>3. CASE HandleInterrupt \/ Dispatch \/ HandlerReturns
  BY <1>3, FaithfulDispatch
<1>4. CASE EndOfInterrupt
  BY <1>4, FaithfulEnd
<1>5. CASE Return
  BY <1>5, FaithfulReturn
<1>6. CASE \/ \E h \in Devices : Register(h) \/ Unregister(h)
           \/ \E m \in Managers : Activate(m)
           \/ Kernel \/ (\E line \in Lines : Raise(line))
           \/ Halt \/ UNCHANGED vars
  <2>1. UNCHANGED <<master, slave, number, stack, forgotten>>
    BY <1>6 DEF Register, Unregister, Activate, Kernel, Withdraw, Cli, Publish, Sti, Raise,
                Halt, vars, pic, cpu
  <2>2. Unended' = Unended
    BY <2>1 DEF Unended, VectorOf
  <2> QED BY <2>1, <2>2 DEF Faithful, Numbered, InServiceWhileServed
<1> QED BY <1>1, <1>2, <1>3, <1>4, <1>5, <1>6 DEF Next, Service

\* With the controllers mapped where the stubs expect it (IRQ_BASE, 0x20), each
\* end of interrupt ends the request it is for, in both controllers when it is
\* the slave's (interrupts.cpp:201-209, kernel.cpp:134).
THEOREM EndsWhatItServes ==
  ASSUME Offset = IRQ_BASE
  PROVE  Spec => []InServiceWhileServed
<1>1. Init => Faithful
  BY FaithfulInit
<1>2. Inv /\ Inv' /\ Faithful /\ [Next]_vars => Faithful'
  BY FaithfulNext
<1>3. Faithful => InServiceWhileServed
  BY DEF Faithful, InServiceWhileServed
<1> QED BY <1>1, <1>2, <1>3, Invariant, PTL DEF Spec

\* With the same mapping every interrupt is handled by the live object that is
\* registered for its vector with the active manager
\* (interrupts.cpp:41-54, 186-199).
THEOREM HandledByLive ==
  ASSUME Offset = IRQ_BASE
  PROVE  Spec => []ServedByLiveHandler
<1>1. Init => Faithful
  BY FaithfulInit
<1>2. Inv /\ Inv' /\ Faithful /\ [Next]_vars => Faithful'
  BY FaithfulNext
<1>3. Inv /\ Faithful => ServedByLiveHandler
  <2> SUFFICES ASSUME Inv, Faithful, ~forgotten, NEW n \in DOMAIN stack,
                      stack[n].at = "handler"
               PROVE  /\ stack[n].handler = handlers[active][stack[n].vector]
                      /\ stack[n].handler \in alive \cup {PageFaultHandler}
    BY DEF ServedByLiveHandler
  <2>1. stack[n] \in Activation
    BY LenProperties, ElementOfSeq DEF Inv, TypeOK
  <2>2. /\ active \in Managers
        /\ stack[n].handler = handlers[active][stack[n].interrupt]
        /\ stack[n].handler # NoHandler
        /\ stack[n].interrupt = stack[n].vector
    BY DEF Inv, TypeOK, Managed, Faithful, Numbered
  <2>3. stack[n].vector \in IdtIndex
    BY <2>1 DEF Activation
  <2> QED BY <2>2, <2>3 DEF Inv, Managed
<1> QED BY <1>1, <1>2, <1>3, Invariant, PTL DEF Spec

\* Only a destructor clears a place of the table, and only its own object's; only
\* a constructor fills one, with an object that is new (interrupts.cpp:41-54).
THEOREM LiveStays == Spec => LiveHandlerStays
<1> DEFINE Stays == \A v \in IdtIndex : handlers[First][v] \in alive =>
                      \/ handlers'[First][v] = handlers[First][v]
                      \/ handlers[First][v] \notin alive'
                      \/ handlers'[First][v] \in alive' \ alive
<1>1. ASSUME Inv, Next
      PROVE  Stays
  <2> USE InterruptsAssumption
  <2>1. ASSUME NEW h \in Devices, Register(h)
        PROVE  Stays
    <3>1. First \in Managers /\ VectorFor[h] \in IdtIndex
      OBVIOUS
    <3>2. alive' = alive \cup {h} /\ handlers' = [handlers EXCEPT ![First][VectorFor[h]] = h]
          /\ h \notin alive
      BY <2>1 DEF Register
    <3>3. \A v \in IdtIndex :
            handlers'[First][v] = IF v = VectorFor[h] THEN h ELSE handlers[First][v]
      BY <1>1, <3>1, <3>2 DEF Inv, TypeOK
    <3> QED BY <3>2, <3>3
  <2>2. ASSUME NEW h \in Devices, Unregister(h)
        PROVE  Stays
    <3>1. First \in Managers /\ VectorFor[h] \in IdtIndex
      OBVIOUS
    <3>2. /\ alive' = alive \ {h}
          /\ handlers' = IF handlers[First][VectorFor[h]] = h
                           THEN [handlers EXCEPT ![First][VectorFor[h]] = NoHandler]
                           ELSE handlers
      BY <2>2 DEF Unregister
    <3>3. \A v \in IdtIndex :
            \/ handlers'[First][v] = handlers[First][v]
            \/ handlers[First][v] = h
      BY <1>1, <3>1, <3>2 DEF Inv, TypeOK
    <3> QED BY <3>2, <3>3
  <2>3. CASE UNCHANGED handlers
    BY <2>3
  <2>4. CASE \E m \in Managers : Activate(m)
    BY <2>3, <2>4 DEF Activate
  <2>5. CASE Kernel
    BY <2>3, <2>5 DEF Kernel, Withdraw, Cli, Publish, Sti
  <2>6. CASE \E line \in Lines : Raise(line) \/ Request(line)
    BY <2>3, <2>6 DEF Raise, Request
  <2>7. CASE NonMaskable \/ PageFault
    BY <2>3, <2>7 DEF NonMaskable, PageFault
  <2>8. CASE Service
    BY <2>3, <2>8 DEF Service, HandleInterrupt, Dispatch, HandlerReturns, EndOfInterrupt, Return
  <2>9. CASE Halt
    BY <2>3, <2>9 DEF Halt, vars
  <2> QED BY <1>1, <2>1, <2>2, <2>4, <2>5, <2>6, <2>7, <2>8, <2>9 DEF Next
<1>2. Inv /\ [Next]_vars => [Stays]_vars
  BY <1>1
<1> QED BY <1>2, Invariant, PTL DEF Spec, LiveHandlerStays
================================================================================
