--------------------------------- MODULE Tasks ---------------------------------
(***************************************************************************)
(* TaskManager: the list of tasks, AddTask as the instructions the build   *)
(* makes of it, and Schedule on every tick of the timer.  The call of      *)
(* Schedule (interrupts.cpp:198) and of AddTask (kernel.cpp) are there as  *)
(* comments: the module is the multitasking they would switch on.          *)
(* `cpu` is what the processor runs: a context with its place in AddTask   *)
(* and the registers AddTask keeps, which is also what an interrupt saves. *)
(***************************************************************************)
EXTENDS Integers, Sequences

CONSTANTS
  Tasks,       \* the Task objects
  KernelMain,  \* the context that kernelMain runs in
  Callers,     \* the contexts that call AddTask (kernel.cpp: KernelMain)
  MaxTasks,    \* TASK_MAX_TASKS
  Garbage      \* what an element of tasks[] holds before it is written

Contexts == Tasks \cup {KernelMain}

ASSUME TasksAssumption ==
  /\ KernelMain \notin Tasks /\ Garbage \notin Contexts
  /\ Callers \subseteq Contexts
  /\ MaxTasks \in Nat \ {0}

VARIABLES
  tasks,        \* tasks[]
  numTasks,
  currentTask,
  cpuState,     \* cpuState of every task: the frame it resumes with
  cpu,          \* the context that runs, its place and registers
  added,        \* history: the tasks AddTask has been called for
  last,         \* history: every context as it was when it last ran
  raced         \* history: a tick has come between the steps of an AddTask

vars == <<tasks, numTasks, currentTask, cpuState, cpu, added, last, raced>>

Slots == 0 .. MaxTasks - 1

\* A context at rest: eax is the index AddTask loads, task its argument.
Fresh(c) == [owner |-> c, pc |-> "idle", eax |-> 0, task |-> Garbage]

\* A constructor that leaves the number of tasks as it finds it.
InitUncounted ==
  /\ tasks = [s \in Slots |-> Garbage]
  /\ numTasks \in {-1, 0}
  /\ currentTask = -1
  /\ cpuState = [t \in Tasks |-> Fresh(t)]
  /\ cpu = Fresh(KernelMain)
  /\ added = {}
  /\ last = [c \in Contexts |-> Fresh(c)]
  /\ raced = FALSE

Init ==
  /\ tasks = [s \in Slots |-> Garbage]
  /\ numTasks = 0
  /\ currentTask = -1
  /\ cpuState = [t \in Tasks |-> Fresh(t)]
  /\ cpu = Fresh(KernelMain)
  /\ added = {}
  /\ last = [c \in Contexts |-> Fresh(c)]
  /\ raced = FALSE

\* The context that runs takes a step, to `state`.
Run(state) ==
  /\ cpu' = state
  /\ last' = [last EXCEPT ![cpu.owner] = state]

--------------------------------------------------------------------------------
(* AddTask *)

CallAddTask(t) ==
  /\ cpu.pc = "idle" /\ cpu.owner \in Callers
  /\ t \notin added
  /\ added' = added \cup {t}
  /\ Run([cpu EXCEPT !.pc = "check", !.task = t])
  /\ UNCHANGED <<tasks, numTasks, currentTask, cpuState, raced>>

\* A check that lets one task too many through.
AddTaskCheckLate ==
  /\ cpu.pc = "check"
  /\ Run([cpu EXCEPT !.pc = IF numTasks > MaxTasks THEN "idle" ELSE "load"])
  /\ UNCHANGED <<tasks, numTasks, currentTask, cpuState, added, raced>>

\* if(numTasks >= TASK_MAX_TASKS) return false
AddTaskCheck ==
  /\ cpu.pc = "check"
  /\ Run([cpu EXCEPT !.pc = IF numTasks >= MaxTasks THEN "idle" ELSE "load"])
  /\ UNCHANGED <<tasks, numTasks, currentTask, cpuState, added, raced>>

\* tasks[numTasks++] = task: numTasks is read once more, ...
AddTaskLoad ==
  /\ cpu.pc = "load"
  /\ Run([cpu EXCEPT !.pc = "count", !.eax = numTasks])
  /\ UNCHANGED <<tasks, numTasks, currentTask, cpuState, added, raced>>

\* ... written back, ...
AddTaskCount ==
  /\ cpu.pc = "count"
  /\ numTasks' = cpu.eax + 1
  /\ Run([cpu EXCEPT !.pc = "store"])
  /\ UNCHANGED <<tasks, currentTask, cpuState, added, raced>>

\* ... and the element is stored last.  Past the end of tasks[] lies numTasks:
\* with a pointer in it, nothing is known any more.
AddTaskStore ==
  /\ cpu.pc = "store"
  /\ IF cpu.eax \in Slots
       THEN /\ tasks' = [tasks EXCEPT ![cpu.eax] = cpu.task]
            /\ Run(Fresh(cpu.owner))
       ELSE /\ cpu' = Fresh(Garbage)
            /\ UNCHANGED <<tasks, last>>
  /\ UNCHANGED <<numTasks, currentTask, cpuState, added, raced>>

--------------------------------------------------------------------------------
(* Schedule *)

\* A successor that is one short of wrapping around.
FollowingTooFar(current) ==
  IF current + 1 > numTasks THEN (current + 1) % numTasks ELSE current + 1

\* A successor that leaves out the first task.
FollowingSkip(current) ==
  IF current + 1 >= numTasks /\ numTasks > 1 THEN 1
  ELSE IF current + 1 >= numTasks THEN 0 ELSE current + 1

\* The task after the current one.
Following(current) ==
  IF current + 1 >= numTasks THEN (current + 1) % numTasks ELSE current + 1

\* A guard that takes the first task for none.
SavedUnlessFirst(state) ==
  IF currentTask > 0 /\ tasks[currentTask] # Garbage
    THEN [cpuState EXCEPT ![tasks[currentTask]] = state]
    ELSE cpuState

\* The interrupted context is saved in the current task, if there is one.
Saved(state) ==
  IF currentTask >= 0 /\ tasks[currentTask] # Garbage
    THEN [cpuState EXCEPT ![tasks[currentTask]] = state]
    ELSE cpuState

\* The timer interrupts the running context and Schedule chooses the frame the
\* interrupt returns with.  An element that was never written is no Task.
Timer ==
  /\ cpu.owner # Garbage
  /\ IF numTasks <= 0
       THEN UNCHANGED <<cpuState, currentTask, cpu, raced>>
       ELSE LET next == Following(currentTask) IN
            /\ cpuState' = Saved(cpu)
            /\ currentTask' = next
            /\ raced' = (raced \/ cpu.pc \in {"load", "count", "store"})
            /\ IF next \in Slots /\ tasks[next] # Garbage
                 THEN cpu' = cpuState'[tasks[next]]
                 ELSE cpu' = Fresh(Garbage)
  /\ UNCHANGED <<tasks, numTasks, added, last>>

\* The processor runs what is no context: nothing more is said of it.
Astray ==
  /\ cpu.owner = Garbage
  /\ UNCHANGED vars

Next ==
  \/ \E t \in Tasks : CallAddTask(t)
  \/ AddTaskCheck \/ AddTaskLoad \/ AddTaskCount \/ AddTaskStore
  \/ Timer \/ Astray

\* The timer keeps ticking; no context has to call anything.
Spec == Init /\ [][Next]_vars /\ WF_vars(Timer)

--------------------------------------------------------------------------------
(* Properties *)

Frame == [owner : Contexts \cup {Garbage},
          pc : {"idle", "check", "load", "count", "store"},
          eax : Nat, task : Tasks \cup {Garbage}]

TypeOK ==
  /\ tasks \in [Slots -> Tasks \cup {Garbage}]
  /\ numTasks \in Nat
  /\ currentTask \in -1 .. MaxTasks
  /\ cpuState \in [Tasks -> Frame]
  /\ cpu \in Frame
  /\ added \subseteq Tasks
  /\ last \in [Contexts -> Frame]
  /\ raced \in BOOLEAN

\* A context that gets the processor back goes on where it was interrupted,
\* with the registers it had: no step of it is repeated or left out, even when
\* AddTask has been interrupted and tasks have been lost
\* (multitasking.cpp:61-71).
ResumesWhereInterrupted ==
  cpu.owner # Garbage => cpu = last[cpu.owner]

\* The processor only ever leaves the known contexts - runs an element of
\* tasks[] that was never written, or a task list that overflowed - after a
\* tick has come between the steps of an AddTask (multitasking.cpp:44-49).
AstrayOnlyIfRaced ==
  cpu.owner = Garbage \/ numTasks > MaxTasks => raced

InList(t) == \E s \in Slots : s < numTasks /\ tasks[s] = t

\* Every task in the list runs, and runs again (multitasking.cpp:66-71).
EveryTaskRuns ==
  \A t \in Tasks : InList(t) ~> (cpu.owner = t \/ raced)

--------------------------------------------------------------------------------
(* Refinement *)

\* The number of elements of tasks[] that are stored: AddTask counts one more
\* before it stores it.
Stored == IF cpu.pc = "store" THEN numTasks - 1 ELSE numTasks

\* The stored tasks from the current one on, and around, up to the first race.
Ring ==
  LET turn == IF currentTask < 0 THEN 0 ELSE currentTask
      Slot(n) == IF turn + n < Stored THEN turn + n ELSE turn + n - Stored
  IN  IF raced THEN <<>> ELSE [n \in 1 .. Stored |-> tasks[Slot(n - 1)]]

Running == IF currentTask < 0 THEN KernelMain ELSE cpu.owner

Turns == INSTANCE RoundRobin WITH
  Nobody <- KernelMain, ring <- Ring, running <- Running, broken <- raced

\* The tasks take turns, each of them once a round; kernelMain, which is not in
\* the list, never gets another one once the first task has started.
ImplementsRoundRobin == Turns!Spec
================================================================================
