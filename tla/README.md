# Verification of MyXP

MyXP is a hobby kernel for 32-bit x86: GRUB loads it, `kernelMain` sets up the
descriptor tables, the interrupt controller, paging and (one day) a heap, and
drivers are written for the keyboard, the mouse and PCI.  This directory holds
TLA+ modules that model the kernel's own logic, TLC configurations that check
them on small machines, and proofs that TLAPS checks for machines of any size.

There is no test suite.  What the code should do is said by its comments, by
its assertions (`ASSERT`, which panics) and by the names of its functions; the
four runs marked *violation* below each quote one of these that the code does not
live up to.

## 1. Inventory

### Physical frames: `src/src/memorym.cpp:167-325`

*State.* `frames[]`, a bitmap with one bit per 4 KB frame, `nframes`, and the
`Frame`, `Present`, `RW`, `User` fields of every `Page` (`paging.h`).
*Operations.* `SetFrame`, `ClearFrame`, `TestFrame`, `FirstFrame`,
`AllocFrame`, `FreeFrame`, `DMAFrame`, `MarkPagingSystem`, `NumOfFrames`.
*Callers.* `kernelMain` (reserved ranges), `CompletePaging` (identity map and
heap space), `ExpandHeap` and `ContractHeap`.
*Hard.* The bitmap's limits (a last word that is never scanned, a search that
falls off the end of its function), an address that is really a frame number
(`FreeFrame`), and frame 0, which doubles as "no frame".
*Correct when* a frame belongs to one page at most, what somebody holds is
marked, the firmware's frames are never given out, and freed frames come back.

### Boot and paging: `src/src/kernel.cpp:119-278`, `src/src/memorym.cpp:11-83, 327-545, 1007-1035`

*State.* `placementAddress`, the page directory with its tables, the page
entries, `heapEnd`.  *Operations.* `kmalloc_startAt`, `kmalloc*` as a placement
allocator, `InitializePaging`, `CompletePaging`, `GetPage`,
`SwitchPageDirectory`, `CloneDirectory`, `MapToPhysical`.
*Hard.* `GetPage` allocates the tables from the very memory that is being
mapped, so the loops of `CompletePaging` move their own bounds, and tables made
late must still be reachable at their own address once paging is on.
*Correct when* the boot ends, all the memory the kernel has used is mapped to
itself, tables do not overlap and their frames are not given out again, and
user mode reaches the VGA window only.

### Kernel heap: `src/src/memorym.cpp:578-971`

*State.* Headers and footers in the heap's memory, the index of holes, and the
heap's bounds.  *Operations.* `alloc`, `free`, `FindSmallestHole`,
`ExpandHeap`, `ContractHeap`, `CreateHeap`, `HeapHeaderLessThan`.
*Hard.* `free` trusts whatever lies before and after a block when it carries
the magic number, so a header or footer left behind by an earlier call decides
what a later one does; arithmetic with masks and pointers at every boundary.
*Correct when* blocks and holes tile the heap, clients' blocks are disjoint
and keep their contents, and memory is refused only when it has run out.

### Ordered array: `src/src/lib/orderedarray.cpp`

*State.* `array`, `size`, `maxSize` and the predicate.  *Operations.*
`Insert`, `LookupAt`, `RemoveAt`.  *Hard.* A capacity that nothing checks, a
removal that never looks whether the item exists, and a sort order that depends
on memory others change.  *Correct when* the index of the heap holds its holes,
each once (`HeapConsistent`, part of `SoundUntilDangling`).

### Interrupt manager and stubs: `src/src/hardware/interrupts.cpp`, `interruptstubs.s`

*State.* The gates, `handlers[256]`, `ActiveInterruptManager`, the global byte
`interruptnumber`, the stack of the interrupted code, the controllers'
in-service bits.  *Operations.* registration by the constructor and destructor
of `InterruptHandler`, `HandleInterrupt`, `DoHandleInterrupt`, `Activate`,
`Deactivate`, and the stubs.  *Hard.* Nested exceptions, requests that are not
ended, and what the stub leaves for `iret`.  *Correct when* every request is
dispatched to its live handler and ended once, in both controllers when it is
the slave's, and the interrupted code goes on as it was.

### Task manager: `src/src/multitasking.cpp`

*State.* `tasks[]`, `numTasks`, `currentTask`, a saved context per task.
*Operations.* `AddTask`, `Schedule` (from the timer; the call is commented out
at `interrupts.cpp:198`).  *Hard.* `AddTask` is interrupted by the timer
between its two stores.  *Correct when* every task runs in turn and resumes
where it was interrupted.

### Console: `src/src/console.cpp`, `src/src/lib/string.cpp`

*State.* `x`, `y`, `consoleColor`, video memory, and the string literal that
`printfHex` writes to.  *Operations.* `printf`, `printfHex*`, `ClearScreen`,
`SetConsoleColor`, `ShiftConsoleColors`, `sysmsg`, `errMsg`, `panic`,
`panic_assert`, `itoa`.  *Hard.* Handlers print too, on the same cursor and the
same literal, and `ClearScreen` counts its loops with the cursor itself; a
panic's line number is written at address 0.  *Correct when* the cursor stays on
the screen, printing ends, and the characters of a number stand for it.

### Drivers: `src/src/drivers/*.cpp`, `MouseToConsole` in `src/src/kernel.cpp:36-89`

*State.* The manager's list of drivers; the mouse driver's `offset`, `buffer`,
`buttons`; the position of the cursor; and, outside the kernel, the PS/2
controller with its configuration byte, one-byte output buffer and request
lines.  *Operations.* `AddDriver`, `ActivateAll`, each driver's `Activate` and
`HandleInterrupt`, `OnMouseMove`.  *Hard.* Both drivers share a port and never
wait for an answer; packets are framed by counting; the position is eight bits
wide and never initialised.  *Correct when* reported packets are whole, the
screen shows one cursor, and no byte blocks the controller.

### PCI: `src/src/hardware/pci.cpp`

*State.* None of its own; two uninitialised results on the stack.
*Operations.* `SelectDrivers`, `GetBaseAdressRegister`, `GetDeviceDescriptor`,
`GetDriver`, `Read`, `Write`.  *Hard.* Registers that a function does not have.
*Correct when* the port base a driver would be given is the function's own; the
code keeps this for plain functions with ports only.

### Global descriptor table: `src/src/gdt.cpp`

*State.* Five descriptors of eight bytes.  *Operations.* the constructor of a
descriptor, `Base`, `Limit`.  *Correct when* a descriptor gives back the base it
was made for and a limit that is not beyond what was asked for.

### The rest

*Ports* (`src/src/hardware/port.cpp`), `mem.cpp`, `src/src/loader.s` and
declarations (`src/include/multiboot.h`, `src/include/mmu.h`).

The hazards of each component, with their lines, are in `PROJECT.json`.

### How they interact

`kernelMain` runs alone, with interrupts off, until `interrupts.Activate()`
(`kernel.cpp:206`).  Memory management is called, never called back; page
faults come back as interrupt 0x0E and panic.  After `Activate` the interrupt
manager calls handlers, which may print or talk to ports while the interrupted
code does the same.  Tasks and drivers exist in the code, but `kernelMain` has
the lines that create them commented out (`:243-271`): `Tasks` and `Devices`
are about what these lines would switch on, as they stand.

## 2. The modules

| Module | Models | State | Actions |
|---|---|---|---|
| `FrameBitmap` | bitmap and page entry operators | none | none |
| `Frames` | the frame allocator and its callers' order | `phase`, `frames`, `page`, `reserved` | `MarkPagingSystem`, `TakePageZero`, `DMAFrame`, `StartHeap`, `AllocFrame`, `FreeFrame` |
| `FrameBitmapProofs` | lemmas about the bitmap, for the proofs of `Frames`, `Boot` and `Heap` | | |
| `FramesProofs`, `BootProofs` | theorems about `Frames` and about `Boot` and `Gdt` | | |
| `Boot` | `kernelMain` to paged memory | `pc`, `i`, `placement`, `tables`, `page`, `frames`, `memMap`, `reserved`, `heapStart`, `heapEnd` | one per loop iteration and loop exit |
| `OrderedArray` | the index operations | none | none |
| `Heap` | `alloc`, `free`, grow, shrink | `mem`, `index`, `end`, `page`, `frames`, `call`, `live`, `stopped`, `dangling` | `Alloc`, `AllocFits`, `AllocExpands`, `AllocFaults`, `AllocPanics`, `Free`, `FreeFaults`, `FreePanics` |
| `HeapProofs` | theorems about `Heap`, `OrderedArray` and `Pool` | | |
| `Pool` | what an allocator promises | `live`, `stopped`, `broken` | `Alloc`, `Free`, `Stop` |
| `Stub` | the words of `interruptstubs.s` | `pc`, `vector`, `stack`, `register`, `frame` | `Enter`, `Save`, `Handler`, `Return` |
| `Interrupts` | the interrupt manager and the two controllers | the controllers' lines, `enabled`, `number`, `stack`, `handlers`, `active`, `kernel`, ... | `Register`, `Unregister`, `Activate`, `Withdraw`, `Cli`, `Publish`, `Sti`, `Raise`, `Request`, `NonMaskable`, `PageFault`, `HandleInterrupt`, `Dispatch`, `HandlerReturns`, `EndOfInterrupt`, `Return` |
| `Tasks` | `AddTask` by loads and stores, `Schedule` | `tasks`, `numTasks`, `currentTask`, `cpuState`, `cpu` | `CallAddTask`, `AddTaskCheck`, `AddTaskLoad`, `AddTaskCount`, `AddTaskStore`, `Timer` |
| `RoundRobin` | what a task manager promises | `ring`, `running`, `broken` | `Join`, `Tick` |
| `Console` | printing, with a handler that prints | `x`, `y`, `colour`, `stack`, ... | one per kind of load, store or test; `Key`, `Return`, `Fail` |
| `Pci` | base address registers as the scan sees them | none | none |
| `Devices` | drivers, driver manager, PS/2 controller, mouse cursor, scan | `drivers`, `main`, `config`, `out`, `mouse`, `position`, `inverted`, `scan`, ... | `AddDriver`, `SelectDrivers`, the accesses of `Activate`, `HandleKeyboard`, `HandleMouse`; the controller's `Answer`, `Key`, `Move`, `SendByte` |
| `InterruptsProofs`, `TasksProofs`, `ConsoleProofs`, `DevicesProofs` | theorems about `Interrupts`, `Tasks`, `Console` and `Devices` | | |
| `Gdt` | descriptors as bytes | none | none |
| `MCFrames`, `MCBoot`, `MCHeap`, `MCStub`, `MCInterrupts`, `MCTasks`, `MCConsole`, `MCDevices` | instances for TLC | | |

`Frames`, `Boot` and `Heap` all extend `FrameBitmap`, so that the one
translation of `SetFrame`, `AllocFrame` and so on serves all three.  `Boot`
implements `Frames` (`ImplementsFrames`), `Heap` implements `Pool`
(`ImplementsPool`) and `Tasks` implements `RoundRobin`
(`ImplementsRoundRobin`).

### Correspondence and abstractions

*FrameBitmap, Frames.*  The bitmap is the set of the frame numbers whose bit is
1; `WordBits` (32 in the code) and `PageSize` (4096) are parameters.  `Least`
of the scanned frames is the first clear bit in word and bit order.  `FallOff`
is what the caller of `FirstFrame` finds when it runs off its end: the compiled
loop compares its counter with `nframes >> 5`, which stays in the return
register.  C++ leaves this undefined; the modules take this build's
outcome.  `phase` says how far the boot has come: reserved ranges are marked
first, then `CompletePaging` identity maps with `DMAFrame`, then `AllocFrame`
and `FreeFrame` are called in any order for any page.  `reserved` is a history
variable.

*Boot.*  Byte addresses scaled down: pages of 4 bytes and tables of 4 pages.
`lastMod` ranges over several ends of the kernel image, the memory map over
every subset of four frames.  `kmalloc` before the heap is the placement
allocator: `Aligned` and the increment.  The three identity-mapping loops have
one body and meet end to end, so `IdentityMap` is all three.  A page entry of a
table that does not exist yet is all zero, as `kmemset` leaves it.

*Heap.*  Addresses and sizes in 32-bit words; a header is three words, a footer
two; client requests are multiples of four bytes.  `mem` keeps every word, so
stale headers and footers are exactly where the code leaves them.  `free` and
`alloc` are one step each (nothing interrupts them: no handler allocates), but
`alloc` that must expand is a step for each recursive call.  Clients keep their
data to themselves: they are not modelled as writing the magic number into
their blocks.  A page fault or a failed assertion stops the kernel
(`stopped`); what a call had written before it stopped is not observed by
anyone.  `GuardPages` is whether the page after the heap's last one is mapped,
which depends on the machine.  `CreateHeap` cannot be part of the model, since
it never returns (`for(;;)` at `memorym.cpp:944`, and line 964 uses `mmHeap`
before it is set): `Init` is the heap that its code describes, one hole from
start to end *without a footer*, as in line 956-961.

`ClientsFree` says whether clients free, any block in any order, or only
allocate.  A free that unifies with a hole on the right that is not the last
(`UnifiesInside`) leaves a footer that points to a header that is gone, and later
frees are misled by it, to the failing assertion at `memorym.cpp:633`.  The
history variable `dangling` says that one has happened.  Nothing is claimed
afterwards: `Pool` has `broken` for it, and `ImplementsPool` maps the one to the
other.

*Stub.*  A register's value is its own name, so that what `iret` and the pops
return says whose word it was.  The words of the switch and of the call
(`:86-91`) cancel out and are left out; the 16-bit fields of `StackFrame` are
words, as they are pushed.

*Interrupts.*  A service of an interrupt goes through the stub's store and push
of `interruptnumber` (two steps, between which a non-maskable interrupt may
come), the test for an active manager, the dispatch, the handler and the end of
interrupt.  The module takes a stub to return to what it interrupted: what the
words on the stack really do is `Stub`'s question, and its answer (section 3)
would leave nothing else to check.  `forgotten` is a history variable: a request
came while no manager was active, or a stub was overtaken.  The controllers are
external: fixed priorities, an in-service bit per line, the slave on line 2.
Their initialisation (`:134-150`) is the value of `VectorOf`.  The constructor's
loop starts at 256, where the gate's index of eight bits wraps to 0; its first
turn also stores to `handlers[256]`, one past the array, which the language leaves
undefined and the module leaves out: `handlers` has the 256 elements.

*Tasks.*  `tasks[numTasks++] = task` is a load, a store to `numTasks` and a
store to the element, in the order the build has them; any other order is as
good for the language.  A tick saves the whole context, place and registers, and
returns with another.  An element never written, or one past the end, is
`Garbage`; when the processor runs that, nothing more is said of it.

*Console.*  A text is the sequence of operations that printing it makes;
characters are alike and colours are `gray`, `red`, `yellow`.  That the two digits
of `printfHex` go through a literal that all its callers share, so that a handler's
digits may replace the interrupted code's, is left out with the characters.
`x++` and `y++` are a load and a store each, and so is the address of a cell.  A
handler's text is printed with interrupts off, on top of the interrupted one.  The
texts are those of `kernelMain`, of `panic`, `panic_assert`, the page fault's handler
and the keyboard's.  What `kernelMain` prints before `Activate` it prints with
interrupts off; the module lets keys come then too, which is more than the code
does, so that every kind of text meets a handler's.  `Itoa` is what `itoa` leaves in
its buffer for any integer.

*Devices.*  `kernelMain` goes through the drivers' `Activate` one access of a
port at a time, a handler is one step (it runs with interrupts off and reads the
port once), and the controller does its part whenever it pleases: it answers
late, holds one byte, raises lines as configured, and a read of the empty buffer
gives the last byte again.  Interrupts are enabled either before (as
`kernel.cpp:206` does) or after (as in the commented block, `:264`).
`history` records which bytes went astray.  `scan` is the PCI scan of one
function after the other; `left` is what uninitialised results hold, first the
stack's garbage and then the previous function's: what the build finds there, since
the language guarantees no value at all.

*Gdt* is arithmetic on 32-bit words.

## 3. The runs

| Run | Instance | Checks |
|---|---|---|
| `Frames` | 9 frames, words of 4, pages of 4 bytes, 5 pages | the invariants and the action property of the frame allocator, where `FreeFrame` clears the bits of frames 0, 1 and 2 |
| `Boot` | 64 frames, 4 kernel sizes, 16 memory maps | mapping, tables, flags, termination, refinement of `Frames` |
| `Heap_fixed` | 24 words, requests of 1 and 4 words, frees in any order | until the first dangling footer: headers, footers and index agree and free's assertions hold, data integrity, no needless refusal, refinement of `Pool` |
| `Heap_grow` | 24 to 56 words, requests of 1, 4 and 9, no frees | data integrity and no needless refusal while the heap grows |
| `Tasks` | 4 tasks, a table of 3, 3 callers | contexts resume, the processor goes astray only after a tick inside an `AddTask`, every listed task runs again, refinement of `RoundRobin` |
| `Interrupts` | 3 lines (one of the slave), 2 managers, 2 handlers of one vector, 3 requests, 1 non-maskable | requests do not nest, lines are held back exactly while served, handlers are alive, no live handler is lost when an older one is destroyed, every request is served |
| `Console` | a window of 3 by 2, numbers -10 and 0, 2 keys | the cursor is on the screen, a key costs no more than it prints, printing ends; `itoa` on ten numbers |
| `Devices` | 2 configurations, 1 key, 2 movements, 2 places on the bus, 7 kinds of functions | packets stay whole unless a byte slipped, the cursor's trail, a plain function's last port, no byte blocks the controller |

Why the bounds are enough.  Nine frames with words of four leave one frame that
`FirstFrame` never scans and let five pages exhaust the rest; pages of 4 bytes
put frame numbers on either side of the page size, which decides the bits
`FreeFrame` reaches; two reserved frames are inside RAM and one address is
outside.  The kernel sizes of `Boot` end a page, a half page, make
the identity map need a second table, and reach the fixed heap start; the
reserved frames lie in low memory, in the heap space, above it and outside RAM.
The heap of 24 words holds up to four blocks, so that blocks have holes on both
sides, holes are too small to split, and memory runs out.  `AddressMod` (1024)
stands for 2^32: differences wrap as in the code and no address of an instance
comes near it.  Four tasks for a table of three make it overflow, and tasks that
call `AddTask` themselves make them overtake each other inside it.  Three
requests on three lines give every pair an order and one line a second request
while its first is served; one non-maskable interrupt is enough to overtake a
stub.  A window of 3 by 2 wraps, scrolls over and clears within one text, and a
second key finds the cursor where the first has left it.  `Samples` has
numbers of one to four digits and of ten, with zeros in between and at the end, and
both signs; the theorem is about every integer.  Two packets show
whether a slipped byte shifts the next one, and a movement of 100 from column
79 leaves the eight bits; two functions in a row show what the first leaves to
the second.

Deadlock is checked except in the heap runs, where a panic or a page fault is
the end.

### What the code does not do

Each of these runs checks one property, stated by a comment or a declaration of
the code, and TLC finds the execution that breaks it.

| Run | Property | The code |
|---|---|---|
| `Boot_used` | `UsedMemoryMapped` | page tables made late are not identity mapped if a reserved frame lies between, or if the kernel ends near the heap start (`memorym.cpp:427`) |
| `Frames_free` | `FreedIsAvailable` | `FreeFrame` gives `ClearFrame` a frame number, which is divided by the page size once more: the freed frame stays marked for good (`memorym.cpp:311`) |
| `Heap_contract` | `ContractsToNextPage` | `newSize &= 0x1000` keeps one bit instead of clearing twelve (`:909-912`) |
| `Stub_return` | `ReturnsToInterrupted` | two words are dropped before `iret`; a request's entry has pushed one, an exception's none (`interruptstubs.s:109`) |

Also met while modelling, and built into the modules without a run of their own:

- the bit that `FreeFrame` clears instead is that of one of the lowest frames
  (`memorym.cpp:311`), whoever holds it: `Clobbered` names these, and `HeldIsMarked`,
  `ExclusiveFrames` and `ReservedKept` are about the others;
- `FirstFrame` has no `return` after its loop (`:244`), and the assertion on -1
  (`:270`) cannot fire;
- frame number 0 means "no frame" (`:258`, `:306`), yet `FreeFrame` can make
  frame 0 available, and `AllocFrame` then claims it for a page that counts as
  having none; such a page takes another frame at its next `AllocFrame`;
- page tables are made after the identity map is complete, against the comment
  at `:358-361` (this is how `Boot_used` fails);
- holes change size inside the index that is sorted by size (`:608`, `:618`), so
  `FindSmallestHole` finds a hole that fits and not the smallest one;
- a unification to the right computes the address of the footer it should
  rewrite and does not write to it (`:619-621`); a later free follows the stale
  footer to a header that is in no index, and asserts (`:633`);
- the footer of an expanded hole is written at an address computed in units of
  eight bytes (`:737`);
- a page-aligned block overwrites the short hole in front of it, which stays in
  the index (`:762-777`);
- `newSize & 0xFFFFF000 != 0` is `newSize & 1` (`:881`), so the heap's end is on
  no page boundary;
- the loop over the gates starts at 256: `handlers[256]` is one past the end
  (`interrupts.cpp:87-91`);
- `panic_assert` page-faults on its line number once paging is on
  (`console.cpp:74`), and the page fault's panic follows: `Console` shows that
  printing still ends;
- `printfHex` writes to a string literal that its callers share (`:149`): a handler
  that prints a byte between the store and the print changes what is shown, which
  can happen only if the interrupted code prints bytes too, as the PCI scan does;
- a movement of more than 48 from column 79 leaves the eight bits of the position
  and takes the cursor to the left edge (`kernel.cpp:67`);
- a header type of 0x80 counts as 1 (`pci.cpp:178`), so a multi-function device
  keeps two of its six registers; a function whose registers are left out takes the
  ports that the function before it left on the stack (`:183`); with a self test that sets a reserved bit, the
  remainder could even be smaller than the header's own type, and registers would
  be read that are none.  The proof found this; `Headers` says which words a
  device may have, and these never do.

The properties of the passing runs are stated as strongly as these facts allow:
`Clobbered` names the bits that `FreeFrame` can reach, `Exhausted` the state
in which `FirstFrame` falls off its end, `RoomAboveKernel` the machines on
which the late page tables are mapped to themselves after all, `dangling`, `raced`,
`forgotten`, `slipped`, `misread` the executions after which a promise of `Heap`,
`Tasks`, `Interrupts` or `Devices` ends.  Each of these states is reached, and
so is its opposite at the end of long executions.  These exceptions are defects, and
the passing runs do not cover them: what they show is that nothing else goes
wrong.  `PROJECT.json` lists such a hazard without a property, or with the
property that covers the rest of it and a note.

### Fairness

- `Boot`: `WF_vars(Next)`.  One processor executes `kernelMain` with interrupts
  off.  `GetPage` moves the bound that the loop runs to, so `BootEnds` is no
  formality.
- `Tasks`: `WF_vars(Timer)`.  The timer keeps ticking; nobody has to add tasks.
- `Interrupts`: weak fairness of `kernelMain`'s instructions within `Activate`,
  of the stubs and of the first activation; strong fairness of a line's
  `Request`, because the processor looks for requests after every instruction
  with interrupts on, however briefly they are on each time.  Devices need not
  raise anything.
- `Console`: `WF_vars(Proceed)`.  Whatever is being printed goes on.
- `Devices`: weak fairness of the main thread and of the two handlers, none of
  the controller's answers or of the user.

## 4. The proofs

Every theorem holds for all values of the constants under the module's own
assumption (`FrameAssumption`, `FramesAssumption`, `BootAssumption`, ...), which
TLC evaluates on the instance of the module's run.  Each proof module of a
state machine has one inductive invariant `Inv`, a lemma `InvInit` or one per
conjunct, a step lemma with one case per action, and theorems that follow from
them.  TLC has checked every `Inv` on the instance of section 3 before it was
proved.

| Module | Theorem | States |
|---|---|---|
| `FramesProofs` | `TypeCorrect`, `MarkedCorrect`, `ExclusiveCorrect`, `ReservedCorrect` | `TypeOK`, `HeldIsMarked`, `ExclusiveFrames`, `ReservedKept` |
| | `StableCorrect` | the action property `FrameIsStable` |
| `BootProofs` | `TypeCorrect`, `UsedMemoryKept`, `TablesKeptApart`, `OnlyVga`, `NoNullPage` | `TypeOK`, `UsedMemoryMappedIfRoom`, `TablesApart`, `OnlyVgaForUser`, `EntriesHaveTables` |
| | `Implements` | `ImplementsFrames`: `Boot` refines `Frames` |
| | `LimitsRoundDown`, `BaseKept` | what `Gdt` gives back of every 32-bit limit and base |
| `TasksProofs` | `TypeCorrect`, `Resumes`, `OnlyRacesLeadAstray` | `TypeOK`, `ResumesWhereInterrupted`, `AstrayOnlyIfRaced` |
| | `TakesTurns` | the safety part of `ImplementsRoundRobin` |
| `InterruptsProofs` | `TypeCorrect`, `OneRequest` | `TypeOK`, `RequestsDoNotNest` |
| | `EndsWhatItServes`, `HandledByLive` | `InServiceWhileServed`, `ServedByLiveHandler`, if `Offset = IRQ_BASE` |
| | `LiveStays` | the action property `LiveHandlerStays` |
| `ConsoleProofs` | `TypesHold`, `CursorStays` | `TypeOK`, `CursorOnScreen` |
| | `LossStays` | `LossIsBounded` |
| | `NothingFarOff` | the first part of it: `~beyond` |
| | `ItoaGivesBack` | of every integer, the characters of `itoa` give it back |
| | `SamplesReadBack` | `ItoaReadsBack` |
| `DevicesProofs` | `TypeCorrect`, `PacketsStayWhole`, `TrailKept`, `LastPortAlwaysGiven` | `TypeOK`, `PacketsWhole`, `CursorTrail`, `LastPortGiven` |
| `HeapProofs` | `SoundWhileSizeKept` | `SoundUntilDangling` |
| | `TypesWhileSizeKept` | `TypeOK`, until a footer dangles |
| | `IntactWhileSizeKept`, `GivesUpWhileSizeKept` | the action properties `DataIntact`, `GivesUpOnlyWhenFull` |
| | `PoolWhileSizeKept`, `DisjointWhileSizeKept` | `ImplementsPool`: `Heap` refines `Pool`, and so clients' blocks are disjoint until a footer dangles |
| | `FixedHeap` | all of these but `TypeOK`, of a heap of fixed size |
| | `GrowingHeap` | `HeapConsistent`, `DataIntact`, `GivesUpOnlyWhenFull`, `ImplementsPool` and disjointness, of a heap that grows while clients only allocate |

### Frames

None of the invariants is inductive alone.  Exclusiveness needs that every
frame held is marked (a new frame is unmarked, so nobody holds it), and marking
must survive `FreeFrame`, which clears a bit that has nothing to do with its
page: hence `Clobbered`, the image of the frame numbers under one more division.
It also needs `EarlyIdentity`: while `DMAFrame` is still called, it takes the
page's own frame whether marked or not, which is exclusive only because every
page so far has its own frame or none.  `ReservedKept` needs `ReservedMarked`,
for the same reason as exclusiveness.  `FrameBitmapProofs` says what the
operators return: `LeastExists` (a nonempty set of numbers has a least element,
from the well-foundedness of finite sets under inclusion), `FirstFrameInRam`,
`FirstFrameIsFree`, `SetFrameByAddress`, `AllocFrameBitsValue`,
`FreeFrameClobbers`.

### Boot

That used memory is mapped to itself rests on an order nobody wrote down: page
tables are laid one after the other (`Laid`), every page below the loop's own is
mapped and its frame taken (`MappedInOrder`), so that the next free frame that
`AllocFrame` finds is the page's own, unless the firmware has one in the heap
space.  The tables made meanwhile lie below `heapStart` because the gap left
above the kernel is wider than all tables there can be (`HeapSpaceChosen`, with
a count of the tables made).  That is why `BootAssumption` says that the gap
exceeds the tables up to `HeapLimit`, and that kernel, modules, bitmap,
directory, tables and gap fit below it.  In the code the gap is 256 pages and
`KERNEL_HEAP_END` (0x20000000, `memorym.h:20`) needs 129 tables; kernel and modules
would have to be of half a gigabyte to come near it, which the code does not test.

The refinement is proved too.  `FramesPhase` maps `pc` to the phase of `Frames`
(`Phases` proves that it goes forward as `Frames` allows), `MapIsStep` and
`CallsAreSteps` show that each iteration is one call there, `IdentityMapped` that
`DMAFrame` takes the frame `Frames` expects.  So what is proved of the allocator
holds in the boot.

### Tasks

The interesting invariant is conditional: `OnCourse` (contexts are saved under
their own names, what runs is the current task, every task is argument of one
call or in one element) holds whether ticks come inside `AddTask` or not, and
`Unraced` (the element count is right, only the running context is inside
`AddTask`) until one does.  The proof corrected `TypeOK`: three callers that
overtake each other may leave `numTasks` above `MaxTasks + 1`, which the
instance does not reach.

### Interrupts

`RequestsDoNotNest` follows from `Nesting`: interrupts are enabled only while
nothing is served, since every stub enters through an interrupt gate.  The
discipline of the controllers needs the vectors to be known rightly:
`Faithful` says that a stub pushes the number of its own vector until a
non-maskable interrupt overtakes one.  Both results have the hypothesis that the
stubs' `IRQ_BASE` (`interruptstubs.s:1`) is the offset that `kernel.cpp:134`
gives the manager: two constants in two languages that nothing else ties
together.  They are equal at this commit, and in the run.

### Console

Nothing is assumed but `ConsoleAssumption`: any window, any set of integers to
print, any number of keys.

*Numbers.*  `Digits` is a recursive function, and what it gives was to be shown of
every number.  Induction is out of the prover's reach as a rule with a predicate
for a parameter, but not as an argument: `LeastMember` says that a nonempty set of
naturals has a least element, and each fact is proved by looking at the least
number for which it fails.  `RoundsExist` and `RoundsAgree` build the function
from its finite beginnings, so `DigitsAre` says that `Digits` satisfies its own
equation; `ValueIsRead` does the same for the fold of `ValueOf`, and `AllReadBack`
follows the quotients by 10.

*Texts.*  What is needed of a text is that of a sequence of parts: a colour that is
set is put back to plain (`Restores`), and only its end may loop (`Text`).  `Joined`
says that texts put together are texts, one lemma per kind of part that each is one.

*Invariant.*  `Inv` says that one or two texts are on the stack, which
of them may be there, and for every place in `printf` and `ClearScreen` how far
the cursor may be out of the window (`Cursor`), which registers hold what
(`Registers`), and that whatever colour is set, the text comes back to plain
(`Coloured`).  `CursorOnScreen` alone is not inductive: a handler finds the cursor
wherever kernelMain has left it, one column or row further than kernelMain could
find it, until its own first character is printed (`Slack`).  A handler leaves it
inside the window, which every place of kernelMain's can live with.

*Cost.*  How many characters are lost says nothing of how many may still be:
cells that a handler has written and kernelMain's cursor is still to reach are
losses to come.  `Costs` therefore keeps an account: the losses, and the written
cells from a `floor` on, a cell before which nothing more will be written
(`Onward`).  The account stays within three for each key, or what the handler has
printed so far (`Written`).  A character of kernelMain's that has already loaded
its row or its cell when a key comes (`Pends`) may land before the floor, which is
one loss more.  It is paid for by the handler's own first character: that lands
on the cursor's cell, no earlier than the one kernelMain was about to write, and
moves the floor past it without adding to the account (`GuestWrites`).  Newlines
and wraps only take the cursor forwards, and clearing the screen empties the
account (`ClearCosts`).  `Position` is where a handler will leave the cursor.  TLC
checked `Costs` as an invariant on windows of 1 to 3 columns and 1 or 2 rows with
two keys.

### Devices

*Packets.*  Bytes of packets are numbered in the order in which the mouse sends
them.  `NextToTake` is the number of the byte that a handler gets next;
`InStep` says that the driver's `offset` is its remainder by three and that the
buffer holds the ones before it.  A byte that another handler takes moves
`NextToTake` on without the driver, and the mouse's answer, which has no number,
moves the driver on without `NextToTake`: exactly these two set `slipped`.
`Quiet` says that the mouse sends nothing before its driver has reset `offset`,
which the firmware's garbage would otherwise decide.

*Cursor.*  Swapping a cell's colours is a symmetric difference, so after any
number of movements the cell left and the cell entered cancel out, down to the
origin and the last position; cells that text was printed over are left out.

*PCI.*  `Remainders` is the lemma behind `LastPortGiven`: for the words that a
device may have at 0x0E, a remainder of 0 by 127 means the layout with six
registers, and a remainder of 1 one with at least two.  `RegisterOwn` and
`RegisterLast` follow the loop register by register.

### Heap

*Hypotheses.*  All theorems suppose `Unaligned`: no request is page aligned, since
those are known to write over their neighbours.  Those whose name says
`WhileSizeKept` suppose of the run that the heap is neither grown nor cut before a
footer dangles (`KeepsSize`, `[][~dangling => end' = end]_vars`), because `ExpandHeap`
leaves a footer where it does not belong (section 3) and what comes after is nothing
the code guarantees.  `FixedSize` is a condition on the constants that makes this
true of every run: a heap that may not grow, made at the least length `ContractHeap`
leaves, as in `Heap_fixed`; `SizeKept` is that step.  Of the frees nothing is
supposed: every theorem speaks of all steps up to the one that sets `dangling`.
Start, length and page size of the heap, the sizes
clients ask for and the number and order of their calls are arbitrary.
`TypesWhileSizeKept` also needs `HeapInRam`: the frames of the first pages are
frames of RAM.

*Invariant.*  `Inv` says that `Layout` holds until `dangling` is set: every block
and hole is a `Chunk` (its header is right, and so is its footer, which only the
heap's last hole need not have), the chunks are a `Tiling` of the words from
start to end, and holes are `Apart`.  It also says that the index lists the holes
without duplicates, that clients' blocks are different chunks, large enough for
what they hold, and that the words beyond the end are zero.  `HeapConsistent`
alone is not inductive: `free` on the last block reads the words beyond the end,
and would unify with what looks like a hole there.

*Argument.*  `LayoutReplaced` is the lemma everything goes through: if a call
writes only to the words of some adjacent chunks, and leaves chunks there that
fill the same words, the whole is a layout again.  For `alloc` the chunk is the
hole, and a block (`WholeTaken`) or a block and a rest (`PartTaken`) replace it.
For `free` the chunks are the block and the holes beside it.  What `free` decides
by reading memory has to be shown to be what is there: `LeftIsHole` says that a
magic number and a header with the flag before the block are the footer and the
header of a hole that ends there, `RightIsHole` the same of what comes after, and
`LeftJoined`, `FreedHole` follow the writes in the order of the code.  `NoWrap`
discharges the differences of 32 bits.  `InsertKeeps`, `RemoveKeeps`, `FindFinds`
say what the index operations do to the set of holes.  `NoGap` gives
`GivesUpOnlyWhenFull`: a stretch that meets no block lies in one hole, as holes
are apart.  The refinement needs that a hole that is handed out meets no block.
`NothingUnmapped` evaluates the fold over no pages, for `TypeOK`.

*Growing.*  `ExpandHeap` counts the way to the new footer in footers, not bytes
(`memorym.cpp:737`), and so goes eight words for each word of the hole it has
made longer.  `GrowingHeap` says when this does no harm.  Its hypothesis
`OnlyAllocates` is that clients free nothing and that the greatest address plus
fourteen times a request and its overhead still is an address.  The footer is
then above the header of the hole: the hole was too small for the request and
has grown by it, so that it is shorter than two of them.  With the heap that the
call commented out at `memorym.cpp:455` would make, which ends below 0xCFFFF000,
that holds for all requests up to 54 MiB.  The bound is needed: with the
constants of `Heap_grow` and addresses modulo 128 in place of 1024 the footer
comes round and TLC finds `DataIntact` violated, and with the least modulus that
meets it, 268, it holds.  The invariant `Growing` has no claim
about the words behind the heap, where footers now lie.  It has instead that
every hole ends where the heap ends: then there is only one, behind all blocks
(`OnlyHole`), alloc leaves one that is again the last (`FitsGrows`), the hole
`ExpandHeap` extends is the one next to the new words, and what it writes lies
at or above that hole (`GrowsByHole`, `GrowsLastHole`, `Lengthened`).  With frees
the hole that is extended may have blocks behind it, which is how data comes to
be lost.

### What stays with TLC

- `Heap` while it grows and clients also free: nothing holds there in general,
  and no run claims it.  `TypeOK` of a heap that grows needs what a fold over
  more than no pages gives, an induction over data.
- `Stub`: its one property is violated.
- Liveness: `BootEnds`, `EveryTaskRuns`, `EveryRequestServed`, `PrintEnds`,
  `BytesTaken`, the fairness in `ImplementsRoundRobin`.  Liveness under fairness
  and `ENABLED` are out of the prover's reach.

## 5. Plan

Every module of the plan is written, and every invariant, action property and
refinement without fairness that a passing run checks is also a theorem, but
`TypeOK` of the heap, which is one until a footer dangles.  What is left is a heap that grows and whose clients free: under which orders of
frees the hole `ExpandHeap` extends is still the heap's last.

## 6. Not modelled

- `CloneDirectory`, `MapToPhysical`, `NumOfFrames`, `TestFrame`,
  `PeripheralComponentInterconnectController::Write`: no caller.
- `CreateHeap`: never returns.  `kmalloc` through the heap: it hangs on
  `mmHeap`, which nothing initialises.
- The capacity of the ordered array, which a heap of several megabytes would fill,
  and of the driver list, to which two drivers are added.
- Which characters the console shows, and the literal of `printfHex` with them.
- `handlers[256]`, which the constructor writes past the array.
- Page-aligned requests to the heap are modelled and are in no passing run,
  because the code is known to fail on them (above).
- `DivByZeroHandler`: never constructed.  `SetTaskManager`: its only reader is a
  comment.
- `errMsg` (another `sysmsg`), wording and layout of what is printed.
- `port.cpp` (single instructions), `loader.s`, `lgdt` (`gdt.cpp:15-45`),
  `mem.cpp` (no complete body), `multiboot.h` and `mmu.h` (declarations), and
  the old memory manager, in a comment since line 1036 of `memorym.cpp`.
