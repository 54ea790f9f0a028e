------------------------------ MODULE TasksProofs ------------------------------
(***************************************************************************)
(* Proofs about Tasks, for every set of tasks, of callers and every length *)
(* of the list.                                                            *)
(***************************************************************************)
EXTENDS Tasks, TLAPS, SequenceTheorems

Busy == {"load", "count", "store"}

\* Every context is saved under its own name, and what runs is what last ran.
Kept ==
  /\ \A c \in Contexts : last[c].owner = c
  /\ \A t \in Tasks \ {cpu.owner} : cpuState[t] = last[t]
  /\ cpu = last[cpu.owner]

\* The context that runs is the current task, or kernelMain before the first.
CurrentRuns ==
  \/ currentTask = -1 /\ cpu.owner = KernelMain
  \/ /\ currentTask \in Slots /\ currentTask < numTasks
     /\ tasks[currentTask] = cpu.owner

\* A task whose AddTask has not stored it yet, or was never called, has not run.
Unborn(t) ==
  \/ t \notin added
  \/ \E c \in Contexts : last[c].pc # "idle" /\ last[c].task = t

\* Every task is argument of one call and in one place, and was added.
EachOnce ==
  /\ \A c \in Contexts : last[c].pc # "idle" => last[c].task \in added
  /\ \A c, d \in Contexts :
       last[c].pc # "idle" /\ last[d].pc # "idle" /\ last[c].task = last[d].task
         => c = d
  /\ \A s \in Slots : tasks[s] # Garbage => tasks[s] \in added
  /\ \A s \in Slots : \A c \in Contexts : last[c].pc # "idle" => tasks[s] # last[c].task
  /\ \A s, r \in Slots : tasks[s] # Garbage /\ tasks[s] = tasks[r] => s = r
  /\ \A t \in Tasks : Unborn(t) => last[t] = Fresh(t)

\* A task that is inside AddTask fills an element that lies beyond its own.
StoresBeyond ==
  \A s \in Slots :
    tasks[s] # Garbage /\ last[tasks[s]].pc \in {"count", "store"}
      => last[tasks[s]].eax > s

\* What holds as long as the processor runs a known context, races or not.
OnCourse == Kept /\ CurrentRuns /\ EachOnce /\ StoresBeyond

\* What holds as long as no tick has come between the steps of an AddTask.
Unraced ==
  /\ cpu.owner # Garbage
  /\ numTasks <= MaxTasks
  /\ \A c \in Contexts \ {cpu.owner} : last[c].pc \notin Busy
  /\ cpu.pc \in {"load", "count"} => numTasks < MaxTasks
  /\ cpu.pc = "count" => cpu.eax = numTasks
  /\ cpu.pc = "store" => numTasks > 0 /\ cpu.eax = numTasks - 1
  /\ \A s \in Slots : s < Stored <=> tasks[s] # Garbage

Inv ==
  /\ TypeOK
  /\ IF cpu.owner = Garbage THEN cpu.pc = "idle" ELSE OnCourse
  /\ ~raced => Unraced

--------------------------------------------------------------------------------
(* The invariant *)

\* The constructor leaves an empty list and kernelMain running
\* (multitasking.cpp:31-35).
LEMMA InvInit == Init => Inv
<1> SUFFICES ASSUME Init PROVE Inv
  OBVIOUS
<1> USE TasksAssumption DEF Init, Fresh, Contexts, Slots
<1>1. TypeOK
  <2>1. \A c \in Contexts : Fresh(c) \in Frame
    BY DEF Frame
  <2>2. currentTask \in -1 .. MaxTasks
    OBVIOUS
  <2> QED BY <2>1, <2>2 DEF TypeOK
<1>2. OnCourse
  BY DEF OnCourse, Kept, CurrentRuns, EachOnce, StoresBeyond, Unborn
<1>3. Unraced
  <2>1. cpu.pc = "idle" /\ cpu.owner = KernelMain
    OBVIOUS
  <2>2. Stored = 0
    BY <2>1 DEF Stored
  <2>3. \A c \in Contexts : last[c].pc = "idle"
    OBVIOUS
  <2>4. cpu.owner # Garbage /\ numTasks <= MaxTasks
    BY <2>1
  <2>5. \A s \in Slots : s < Stored <=> tasks[s] # Garbage
    BY <2>2
  <2> HIDE DEF Init, Fresh, Slots
  <2> QED BY <2>1, <2>3, <2>4, <2>5, Zenon DEF Unraced, Busy
<1> QED BY <1>1, <1>2, <1>3 DEF Inv

\* A call of AddTask takes a task that has not run (multitasking.cpp:42).
LEMMA InvCall ==
  ASSUME Inv, NEW t \in Tasks, CallAddTask(t)
  PROVE  Inv'
<1> USE TasksAssumption DEF CallAddTask, Run, Contexts
<1>0. OnCourse /\ cpu.owner \in Contexts /\ t # Garbage /\ Fresh(t).pc = "idle"
  BY DEF Inv, TypeOK, Frame, Fresh
<1>1. TypeOK'
  BY <1>0 DEF Inv, TypeOK, Frame
<1>2. /\ cpu' = [cpu EXCEPT !.pc = "check", !.task = t]
      /\ cpu'.pc = "check" /\ cpu'.task = t /\ cpu'.owner = cpu.owner
      /\ last'[cpu.owner] = cpu'
      /\ \A c \in Contexts \ {cpu.owner} : last'[c] = last[c]
  BY <1>0 DEF Inv, TypeOK, Frame
<1>3. Kept' /\ CurrentRuns'
  BY <1>0, <1>2 DEF OnCourse, Kept, CurrentRuns
<1>4. EachOnce'
  <2> USE <1>0, <1>2 DEF OnCourse, EachOnce, Kept
  <2>1. \A c \in Contexts : last'[c].pc # "idle" => last'[c].task \in added'
    OBVIOUS
  <2>2. \A c, d \in Contexts :
          last'[c].pc # "idle" /\ last'[d].pc # "idle" /\ last'[c].task = last'[d].task
            => c = d
    OBVIOUS
  <2>3. \A s \in Slots : tasks[s] # Garbage => tasks[s] \in added'
    OBVIOUS
  <2>4. \A s \in Slots : \A c \in Contexts : last'[c].pc # "idle" => tasks[s] # last'[c].task
    OBVIOUS
  <2>5. ASSUME NEW u \in Tasks, Unborn(u)'
        PROVE  last'[u] = Fresh(u)
    <3>1. Unborn(u)
      BY <2>5 DEF Unborn
    <3>2. last[u] = Fresh(u)
      BY <3>1
    <3>3. u # cpu.owner \/ ~(u \in Tasks)
      <4>1. SUFFICES ASSUME u = cpu.owner PROVE FALSE
        OBVIOUS
      <4>2. \E s \in Slots : tasks[s] = u
        BY <4>1 DEF CurrentRuns
      <4>3. u \in added
        BY <4>2
      <4> QED BY <3>1, <4>1, <4>2, <4>3 DEF Unborn
    <3> QED BY <3>2, <3>3
  <2> QED BY <2>1, <2>2, <2>3, <2>4, <2>5
<1>5. StoresBeyond'
  BY <1>0, <1>2 DEF OnCourse, StoresBeyond, Inv, TypeOK
<1>6. ~raced' => Unraced'
  BY <1>0, <1>2 DEF Inv, Unraced, Busy, Stored
<1> QED BY <1>1, <1>3, <1>4, <1>5, <1>6 DEF Inv, OnCourse

\* A step of AddTask that only moves the running context on inside the call,
\* or out of it, keeps every context and its argument apart.
LEMMA RunKeeps ==
  ASSUME Inv, cpu.owner \in Contexts,
         NEW state \in Frame, Run(state),
         state.owner = cpu.owner, state.task = cpu.task, cpu.pc # "idle",
         UNCHANGED <<tasks, currentTask, cpuState, added>>
  PROVE  /\ last' = [last EXCEPT ![cpu.owner] = state]
         /\ cpu' = state
         /\ Kept' /\ EachOnce'
<1> USE TasksAssumption DEF Run, Contexts
<1>0. OnCourse
  BY DEF Inv
<1>1. /\ last'[cpu.owner] = state
      /\ \A c \in Contexts \ {cpu.owner} : last'[c] = last[c]
      /\ last[cpu.owner] = cpu
  BY <1>0 DEF Inv, TypeOK, OnCourse, Kept
<1>2. Kept'
  BY <1>0, <1>1 DEF OnCourse, Kept
<1>3. \A c \in Contexts : last'[c].pc # "idle" =>
                            last[c].pc # "idle" /\ last'[c].task = last[c].task
  BY <1>1
<1>4. EachOnce'
  <2> USE <1>0, <1>3 DEF OnCourse, EachOnce
  <2>1. \A c \in Contexts : last'[c].pc # "idle" => last'[c].task \in added'
    OBVIOUS
  <2>2. \A c, d \in Contexts :
          last'[c].pc # "idle" /\ last'[d].pc # "idle" /\ last'[c].task = last'[d].task
            => c = d
    OBVIOUS
  <2>3. \A s \in Slots : \A c \in Contexts : last'[c].pc # "idle" => tasks[s] # last'[c].task
    OBVIOUS
  <2>4. ASSUME NEW u \in Tasks, Unborn(u)'
        PROVE  last'[u] = Fresh(u)
    <3>1. Unborn(u)
      BY <2>4 DEF Unborn
    <3>2. last[u] = Fresh(u)
      BY <3>1
    <3>3. u # cpu.owner
      BY <3>2, <1>1 DEF Fresh
    <3> QED BY <3>2, <3>3, <1>1
  <2> QED BY <2>1, <2>2, <2>3, <2>4
<1> QED BY <1>1, <1>2, <1>4

\* The check of AddTask only lets a call through that has room
\* (multitasking.cpp:44).
LEMMA InvCheck ==
  ASSUME Inv, AddTaskCheck
  PROVE  Inv'
<1> USE TasksAssumption DEF AddTaskCheck
<1> DEFINE state == [cpu EXCEPT !.pc = IF numTasks >= MaxTasks THEN "idle" ELSE "load"]
<1>0. OnCourse /\ cpu.owner \in Contexts
  BY DEF Inv, TypeOK, Frame, Contexts
<1>1. /\ state \in Frame
      /\ state.owner = cpu.owner /\ state.task = cpu.task
      /\ state.pc \in {"idle", "load"}
      /\ state.pc = "load" => numTasks < MaxTasks
  BY DEF Inv, TypeOK, Frame
<1>2. Run(state)
  OBVIOUS
<1> HIDE DEF state
<1>3. /\ last' = [last EXCEPT ![cpu.owner] = state]
      /\ cpu' = state
      /\ Kept' /\ EachOnce'
  BY <1>0, <1>1, <1>2, RunKeeps
<1>4. TypeOK'
  BY <1>1, <1>3 DEF Inv, TypeOK
<1>5. CurrentRuns'
  BY <1>0, <1>1, <1>3 DEF OnCourse, CurrentRuns
<1>6. StoresBeyond'
  BY <1>0, <1>1, <1>3 DEF OnCourse, StoresBeyond, Inv, TypeOK
<1>7. ~raced' => Unraced'
  BY <1>0, <1>1, <1>3 DEF Inv, Unraced, Busy, Stored, TypeOK
<1>8. cpu'.owner # Garbage
  BY <1>0, <1>1, <1>3 DEF Contexts
<1> QED BY <1>3, <1>4, <1>5, <1>6, <1>7, <1>8 DEF Inv, OnCourse

\* The index that AddTask loads lies beyond the task that runs
\* (multitasking.cpp:46).
LEMMA InvLoad ==
  ASSUME Inv, AddTaskLoad
  PROVE  Inv'
<1> USE TasksAssumption DEF AddTaskLoad
<1> DEFINE state == [cpu EXCEPT !.pc = "count", !.eax = numTasks]
<1>0. OnCourse /\ cpu.owner \in Contexts
  BY DEF Inv, TypeOK, Frame, Contexts
<1>1. /\ state \in Frame
      /\ state.owner = cpu.owner /\ state.task = cpu.task
      /\ state.pc = "count" /\ state.eax = numTasks
  BY DEF Inv, TypeOK, Frame
<1>2. Run(state)
  OBVIOUS
<1> HIDE DEF state
<1>3. /\ last' = [last EXCEPT ![cpu.owner] = state]
      /\ cpu' = state
      /\ Kept' /\ EachOnce'
  BY <1>0, <1>1, <1>2, RunKeeps
<1>4. TypeOK'
  BY <1>1, <1>3 DEF Inv, TypeOK
<1>5. CurrentRuns'
  BY <1>0, <1>1, <1>3 DEF OnCourse, CurrentRuns
<1>6. StoresBeyond'
  <2> SUFFICES ASSUME NEW s \in Slots, tasks[s] # Garbage,
                      last'[tasks[s]].pc \in {"count", "store"}
               PROVE  last'[tasks[s]].eax > s
    BY DEF StoresBeyond
  <2>1. CASE tasks[s] = cpu.owner
    <3>1. currentTask \in Slots /\ currentTask < numTasks /\ s = currentTask
      BY <1>0, <2>1 DEF OnCourse, CurrentRuns, EachOnce, Inv, TypeOK
    <3>2. last'[tasks[s]] = state
      BY <1>0, <1>3, <2>1 DEF Inv, TypeOK
    <3> QED BY <3>1, <3>2, <1>1
  <2>2. CASE tasks[s] # cpu.owner
    <3>1. tasks[s] \in Contexts
      BY DEF Inv, TypeOK, Contexts
    <3>2. last'[tasks[s]] = last[tasks[s]]
      BY <1>3, <2>2, <3>1 DEF Inv, TypeOK
    <3> QED BY <1>0, <3>2 DEF OnCourse, StoresBeyond
  <2> QED BY <2>1, <2>2
<1>7. ~raced' => Unraced'
  BY <1>0, <1>1, <1>3 DEF Inv, Unraced, Busy, Stored, TypeOK
<1>8. cpu'.owner # Garbage
  BY <1>0, <1>1, <1>3 DEF Contexts
<1> QED BY <1>3, <1>4, <1>5, <1>6, <1>7, <1>8 DEF Inv, OnCourse

\* The count that AddTask writes back, stale or not, keeps the task that runs
\* in the list (multitasking.cpp:46).
LEMMA InvCount ==
  ASSUME Inv, AddTaskCount
  PROVE  Inv'
<1> USE TasksAssumption DEF AddTaskCount
<1> DEFINE state == [cpu EXCEPT !.pc = "store"]
<1>0. OnCourse /\ cpu.owner \in Contexts /\ cpu.eax \in Nat
  BY DEF Inv, TypeOK, Frame, Contexts
<1>1. /\ state \in Frame
      /\ state.owner = cpu.owner /\ state.task = cpu.task
      /\ state.pc = "store" /\ state.eax = cpu.eax
  BY DEF Inv, TypeOK, Frame
<1>2. Run(state)
  OBVIOUS
<1> HIDE DEF state
<1>3. /\ last' = [last EXCEPT ![cpu.owner] = state]
      /\ cpu' = state
      /\ Kept' /\ EachOnce'
  BY <1>0, <1>1, <1>2, RunKeeps
<1>4. TypeOK'
  BY <1>0, <1>1, <1>3 DEF Inv, TypeOK
<1>5. CurrentRuns'
  <2>1. CASE currentTask = -1 /\ cpu.owner = KernelMain
    BY <2>1, <1>1, <1>3 DEF CurrentRuns
  <2>2. CASE currentTask \in Slots /\ tasks[currentTask] = cpu.owner
    <3>1. cpu.eax > currentTask
      BY <1>0, <2>2 DEF OnCourse, StoresBeyond, Kept, Inv, TypeOK, Contexts
    <3>2. currentTask < numTasks'
      BY <1>0, <2>2, <3>1 DEF Slots
    <3> QED BY <2>2, <1>1, <1>3, <3>2 DEF CurrentRuns
  <2> QED BY <1>0, <2>1, <2>2 DEF OnCourse, CurrentRuns
<1>6. StoresBeyond'
  BY <1>0, <1>1, <1>3 DEF OnCourse, StoresBeyond, Kept, Inv, TypeOK
<1>7. ~raced' => Unraced'
  <2> SUFFICES ASSUME ~raced PROVE Unraced'
    OBVIOUS
  <2>1. Unraced /\ cpu.eax = numTasks /\ numTasks < MaxTasks /\ numTasks' = numTasks + 1
    BY DEF Inv, Unraced
  <2>2. Stored' = numTasks /\ Stored = numTasks
    BY <2>1, <1>1, <1>3 DEF Stored, Inv, TypeOK
  <2>3. \A s \in Slots : s < Stored' <=> tasks[s] # Garbage
    BY <2>1, <2>2 DEF Unraced
  <2>4. \A c \in Contexts \ {cpu.owner} : last'[c] = last[c]
    BY <1>3 DEF Inv, TypeOK
  <2>5. numTasks' <= MaxTasks /\ numTasks' > 0 /\ cpu.eax = numTasks' - 1
    BY <2>1 DEF Inv, TypeOK
  <2> QED BY <1>1, <1>3, <2>1, <2>3, <2>4, <2>5 DEF Unraced
<1>8. cpu'.owner # Garbage
  BY <1>0, <1>1, <1>3 DEF Contexts
<1> QED BY <1>3, <1>4, <1>5, <1>6, <1>7, <1>8 DEF Inv, OnCourse

\* The task that AddTask stores is a new one, and the element is not the one
\* of the task that runs (multitasking.cpp:46).
LEMMA InvStore ==
  ASSUME Inv, AddTaskStore
  PROVE  Inv'
<1> USE TasksAssumption DEF AddTaskStore
<1>0. OnCourse /\ cpu.owner \in Contexts /\ cpu.eax \in Nat
  BY DEF Inv, TypeOK, Frame, Contexts
<1>1. CASE cpu.eax \in Slots
  <2>1. /\ tasks' = [tasks EXCEPT ![cpu.eax] = cpu.task]
        /\ cpu' = Fresh(cpu.owner)
        /\ last' = [last EXCEPT ![cpu.owner] = Fresh(cpu.owner)]
    BY <1>1 DEF Run
  <2>2. /\ last[cpu.owner] = cpu
        /\ last'[cpu.owner] = Fresh(cpu.owner)
        /\ \A c \in Contexts \ {cpu.owner} : last'[c] = last[c]
    BY <1>0, <2>1 DEF Inv, TypeOK, OnCourse, Kept
  <2>3. /\ cpu.task \in added /\ cpu.task \in Tasks /\ cpu.task \in Contexts
        /\ cpu.task # Garbage
    BY <1>0, <2>2 DEF OnCourse, EachOnce, Inv, TypeOK, Contexts
  <2>4. last[cpu.task] = Fresh(cpu.task) /\ cpu.task # cpu.owner
    <3>1. Unborn(cpu.task)
      BY <1>0, <2>2 DEF Unborn
    <3>2. last[cpu.task] = Fresh(cpu.task)
      BY <1>0, <2>3, <3>1 DEF OnCourse, EachOnce
    <3> QED BY <2>2, <3>2 DEF Fresh
  <2>5. \A c \in Contexts : Fresh(c) \in Frame /\ Fresh(c).pc = "idle" /\ Fresh(c).owner = c
    BY DEF Frame, Fresh
  <2>6. TypeOK'
    BY <1>0, <2>1, <2>3, <2>5 DEF Inv, TypeOK
  <2>7. Kept'
    BY <1>0, <2>1, <2>2, <2>5 DEF OnCourse, Kept
  <2>8. CurrentRuns'
    <3>1. CASE currentTask = -1 /\ cpu.owner = KernelMain
      BY <3>1, <1>0, <2>1, <2>5 DEF CurrentRuns
    <3>2. CASE currentTask \in Slots /\ tasks[currentTask] = cpu.owner /\ currentTask < numTasks
      <4>1. cpu.eax > currentTask
        BY <1>0, <2>2, <3>2 DEF OnCourse, StoresBeyond, Contexts
      <4>2. tasks'[currentTask] = cpu.owner
        BY <2>1, <3>2, <4>1 DEF Inv, TypeOK, Slots
      <4> QED BY <1>0, <2>1, <2>5, <3>2, <4>2 DEF CurrentRuns
    <3> QED BY <1>0, <3>1, <3>2 DEF OnCourse, CurrentRuns
  <2>9. EachOnce'
    <3>1. \A c \in Contexts : last'[c].pc # "idle" =>
                                c # cpu.owner /\ last'[c] = last[c]
      BY <2>2, <2>5, <1>0
    <3>2. \A s \in Slots : tasks'[s] = IF s = cpu.eax THEN cpu.task ELSE tasks[s]
      BY <2>1 DEF Inv, TypeOK
    <3> USE <1>0, <2>2, <2>3 DEF OnCourse, EachOnce
    <3>3. \A c \in Contexts : last'[c].pc # "idle" => last'[c].task \in added'
      BY <3>1
    <3>4. \A c, d \in Contexts :
            last'[c].pc # "idle" /\ last'[d].pc # "idle" /\ last'[c].task = last'[d].task
              => c = d
      BY <3>1
    <3>5. \A s \in Slots : tasks'[s] # Garbage => tasks'[s] \in added'
      BY <3>2
    <3>6. \A s \in Slots : \A c \in Contexts : last'[c].pc # "idle" => tasks'[s] # last'[c].task
      BY <3>1, <3>2
    <3>7. \A s, r \in Slots : tasks'[s] # Garbage /\ tasks'[s] = tasks'[r] => s = r
      BY <3>2
    <3>8. ASSUME NEW u \in Tasks, Unborn(u)'
          PROVE  last'[u] = Fresh(u)
      <4>1. Unborn(u)
        BY <3>1, <3>8 DEF Unborn
      <4>2. last[u] = Fresh(u)
        BY <4>1
      <4>3. u # cpu.owner
        BY <4>2 DEF Fresh
      <4> QED BY <4>2, <4>3 DEF Contexts
    <3> QED BY <3>3, <3>4, <3>5, <3>6, <3>7, <3>8
  <2>10. StoresBeyond'
    <3> SUFFICES ASSUME NEW s \in Slots, tasks'[s] # Garbage,
                        last'[tasks'[s]].pc \in {"count", "store"}
                 PROVE  last'[tasks'[s]].eax > s
      BY DEF StoresBeyond
    <3>1. s # cpu.eax
      BY <2>1, <2>2, <2>3, <2>4, <2>5 DEF Inv, TypeOK
    <3>2. tasks'[s] = tasks[s] /\ tasks[s] \in Contexts
      BY <2>1, <3>1 DEF Inv, TypeOK, Contexts
    <3>3. last'[tasks[s]] = last[tasks[s]]
      BY <2>2, <2>5, <3>2
    <3> QED BY <1>0, <3>2, <3>3 DEF OnCourse, StoresBeyond
  <2>11. ~raced' => Unraced'
    <3> SUFFICES ASSUME ~raced PROVE Unraced'
      OBVIOUS
    <3>1. /\ numTasks > 0 /\ cpu.eax = numTasks - 1 /\ Stored = numTasks - 1
          /\ Stored' = numTasks
      BY <2>1, <2>5, <1>0 DEF Inv, Unraced, Stored
    <3>2. \A s \in Slots : s < Stored' <=> tasks'[s] # Garbage
      BY <2>1, <2>3, <3>1 DEF Inv, Unraced, TypeOK, Slots
    <3> QED BY <2>1, <2>2, <2>5, <1>0, <3>2 DEF Inv, Unraced, Busy, Contexts
  <2>12. cpu'.owner # Garbage
    BY <1>0, <2>1, <2>5 DEF Contexts
  <2> QED BY <2>6, <2>7, <2>8, <2>9, <2>10, <2>11, <2>12 DEF Inv, OnCourse
<1>2. CASE cpu.eax \notin Slots
  <2>1. cpu' = Fresh(Garbage) /\ UNCHANGED <<tasks, last>>
    BY <1>2
  <2>2. Fresh(Garbage) \in Frame /\ Fresh(Garbage).owner = Garbage /\ Fresh(Garbage).pc = "idle"
    BY DEF Frame, Fresh
  <2>3. raced
    BY <1>0, <1>2 DEF Inv, Unraced, TypeOK, Slots
  <2> QED BY <2>1, <2>2, <2>3 DEF Inv, TypeOK
<1> QED BY <1>1, <1>2

\* Schedule moves on to the next task of a list of numTasks, and after the last
\* one to the first (multitasking.cpp:66-69).
LEMMA FollowingValue ==
  ASSUME currentTask \in Nat \cup {-1}, numTasks \in Nat \ {0}, currentTask < numTasks
  PROVE  Following(currentTask) =
           IF currentTask + 1 = numTasks THEN 0 ELSE currentTask + 1
BY SMT DEF Following

\* Schedule saves the task it interrupts where it belongs: afterwards every
\* task has the frame it last ran with (multitasking.cpp:61-64).
LEMMA SavedIsLast ==
  ASSUME TypeOK, OnCourse, cpu.owner # Garbage
  PROVE  /\ Saved(cpu) \in [Tasks -> Frame]
         /\ \A t \in Tasks : Saved(cpu)[t] = last[t]
<1> USE TasksAssumption
<1>1. CASE currentTask = -1 /\ cpu.owner = KernelMain
  BY <1>1 DEF OnCourse, Kept, TypeOK, Saved
<1>2. CASE currentTask \in Slots /\ tasks[currentTask] = cpu.owner
  <2>1. Saved(cpu) = [cpuState EXCEPT ![cpu.owner] = cpu]
    BY <1>2 DEF Saved, Slots
  <2>2. cpu.owner \in Tasks
    BY <1>2 DEF TypeOK
  <2> QED BY <2>1, <2>2 DEF OnCourse, Kept, TypeOK
<1> QED BY <1>1, <1>2 DEF OnCourse, CurrentRuns

\* The tick resumes a known context, unless it comes between the steps of an
\* AddTask (multitasking.cpp:56-71).
LEMMA InvTimer ==
  ASSUME Inv, Timer
  PROVE  Inv'
<1> USE TasksAssumption DEF Timer
<1>1. CASE numTasks <= 0
  BY <1>1 DEF Inv, TypeOK, OnCourse, Kept, CurrentRuns, EachOnce, Unborn, StoresBeyond,
              Unraced, Stored
<1>2. CASE ~(numTasks <= 0)
  <2> DEFINE next == Following(currentTask)
  <2>0. /\ OnCourse /\ numTasks \in Nat \ {0} /\ cpu.owner \in Contexts
        /\ currentTask \in Slots \cup {-1} /\ currentTask < numTasks
    BY <1>2 DEF Inv, TypeOK, OnCourse, CurrentRuns, Frame
  <2>1. next \in 0 .. MaxTasks /\ next < numTasks
    BY <2>0, FollowingValue DEF Slots
  <2>2. /\ cpuState' = Saved(cpu)
        /\ currentTask' = next
        /\ raced' = (raced \/ cpu.pc \in Busy)
        /\ IF next \in Slots /\ tasks[next] # Garbage
             THEN cpu' = cpuState'[tasks[next]]
             ELSE cpu' = Fresh(Garbage)
        /\ UNCHANGED <<tasks, numTasks, added, last>>
    BY <1>2 DEF Busy
  <2> HIDE DEF next, Timer
  <2>3. cpuState' \in [Tasks -> Frame] /\ \A t \in Tasks : cpuState'[t] = last[t]
    BY <2>0, <2>2, SavedIsLast DEF Inv, Contexts
  <2>4. ASSUME ~raced'
        PROVE  /\ ~raced /\ cpu.pc \notin Busy
               /\ next \in Slots /\ tasks[next] # Garbage
    <3>1. ~raced /\ cpu.pc \notin Busy
      BY <2>2, <2>4 DEF Inv, TypeOK
    <3>2. Stored = numTasks /\ numTasks <= MaxTasks
      BY <3>1 DEF Inv, Unraced, Stored, Busy
    <3>3. next \in Slots
      BY <2>0, <2>1, <3>2 DEF Slots
    <3> QED BY <3>1, <3>2, <3>3, <2>1 DEF Inv, Unraced
  <2>5. CASE next \in Slots /\ tasks[next] # Garbage
    <3>1. tasks[next] \in Tasks /\ cpu' = last[tasks[next]]
      BY <2>2, <2>3, <2>5 DEF Inv, TypeOK
    <3>2. cpu' \in Frame /\ cpu'.owner = tasks[next] /\ cpu'.owner # Garbage
      BY <3>1, <2>0, <2>5 DEF OnCourse, Kept, Inv, TypeOK, Contexts
    <3>3. TypeOK'
      BY <2>1, <2>2, <2>3, <3>2 DEF Inv, TypeOK
    <3>4. Kept'
      BY <2>0, <2>2, <2>3, <3>1, <3>2 DEF OnCourse, Kept
    <3>5. CurrentRuns'
      BY <2>1, <2>2, <2>5, <3>2 DEF CurrentRuns
    <3>6. EachOnce' /\ StoresBeyond'
      BY <2>0, <2>2 DEF OnCourse, EachOnce, Unborn, StoresBeyond
    <3>7. ASSUME ~raced' PROVE Unraced'
      <4>1. Unraced /\ cpu.pc \notin Busy
        BY <3>7, <2>4 DEF Inv
      <4>2. \A c \in Contexts : last[c].pc \notin Busy
        BY <4>1, <2>0 DEF Unraced, OnCourse, Kept
      <4>3. cpu'.pc \notin Busy
        BY <4>2, <3>1 DEF Contexts
      <4>4. Stored' = numTasks /\ Stored = numTasks
        BY <4>1, <4>3, <2>2 DEF Stored, Busy
      <4> QED BY <4>1, <4>2, <4>3, <4>4, <2>2, <3>2 DEF Unraced, Busy
    <3> QED BY <3>2, <3>3, <3>4, <3>5, <3>6, <3>7 DEF Inv, OnCourse
  <2>6. CASE ~(next \in Slots /\ tasks[next] # Garbage)
    <3>1. cpu' = Fresh(Garbage)
      BY <2>2, <2>6
    <3>2. Fresh(Garbage) \in Frame /\ Fresh(Garbage).owner = Garbage /\ Fresh(Garbage).pc = "idle"
      BY DEF Frame, Fresh
    <3>3. TypeOK'
      BY <2>1, <2>2, <2>3, <3>1, <3>2 DEF Inv, TypeOK
    <3>4. raced'
      BY <2>4, <2>6
    <3> QED BY <3>1, <3>2, <3>3, <3>4 DEF Inv
  <2> QED BY <2>5, <2>6
<1> QED BY <1>1, <1>2

\* Every step of AddTask and of Schedule keeps the invariant.
LEMMA InvNext == Inv /\ [Next]_vars => Inv'
<1> SUFFICES ASSUME Inv, [Next]_vars PROVE Inv'
  OBVIOUS
<1>1. CASE \E t \in Tasks : CallAddTask(t)
  BY <1>1, InvCall
<1>2. CASE AddTaskCheck
  BY <1>2, InvCheck
<1>3. CASE AddTaskLoad
  BY <1>3, InvLoad
<1>4. CASE AddTaskCount
  BY <1>4, InvCount
<1>5. CASE AddTaskStore
  BY <1>5, InvStore
<1>6. CASE Timer
  BY <1>6, InvTimer
<1>7. CASE Astray \/ UNCHANGED vars
  BY <1>7 DEF Astray, vars, Inv, TypeOK, OnCourse, Kept, CurrentRuns, EachOnce, Unborn,
              StoresBeyond, Unraced, Stored
<1> QED BY <1>1, <1>2, <1>3, <1>4, <1>5, <1>6, <1>7 DEF Next

--------------------------------------------------------------------------------
(* The properties *)

\* The invariant holds in every state, however the ticks and the calls of
\* AddTask interleave (multitasking.cpp:31-74).
THEOREM Invariant == Spec => []Inv
<1>1. Init => Inv
  BY InvInit
<1>2. Inv /\ [Next]_vars => Inv'
  BY InvNext
<1> QED BY <1>1, <1>2, PTL DEF Spec

\* The list, the saved frames and the processor are of their types.
THEOREM TypeCorrect == Spec => []TypeOK
<1>1. Inv => TypeOK
  BY DEF Inv
<1> QED BY <1>1, Invariant, PTL

\* A context that gets the processor back goes on where it was interrupted,
\* races or not (multitasking.cpp:61-71).
THEOREM Resumes == Spec => []ResumesWhereInterrupted
<1>1. Inv => ResumesWhereInterrupted
  BY DEF Inv, OnCourse, Kept, ResumesWhereInterrupted
<1> QED BY <1>1, Invariant, PTL

\* Without a tick between the steps of an AddTask the processor never runs an
\* element that was not written, and the list never overflows
\* (multitasking.cpp:44-49).
THEOREM OnlyRacesLeadAstray == Spec => []AstrayOnlyIfRaced
<1>1. Inv => AstrayOnlyIfRaced
  BY TasksAssumption DEF Inv, TypeOK, Unraced, AstrayOnlyIfRaced
<1> QED BY <1>1, Invariant, PTL

--------------------------------------------------------------------------------
(* The refinement *)

\* A function on the first n numbers is a sequence of length n.
LEMMA FunctionIsSeq ==
  ASSUME NEW S, NEW n \in Nat, NEW f \in [1 .. n -> S]
  PROVE  f \in Seq(S) /\ Len(f) = n
OBVIOUS

\* An element is inserted between those before its index and those from it on.
LEMMA InsertAtValue ==
  ASSUME NEW S, NEW s \in Seq(S), NEW e \in S, NEW i \in 1 .. Len(s) + 1
  PROVE  Turns!InsertAt(s, i, e) =
           [k \in 1 .. Len(s) + 1 |->
              IF k < i THEN s[k] ELSE IF k = i THEN e ELSE s[k - 1]]
<1> DEFINE front == SubSeq(s, 1, i - 1)
           rest  == SubSeq(s, i, Len(s))
           upto  == front \o <<e>>
           all   == upto \o rest
           value == [k \in 1 .. Len(s) + 1 |->
                       IF k < i THEN s[k] ELSE IF k = i THEN e ELSE s[k - 1]]
<1>1. /\ front \in Seq(S) /\ Len(front) = i - 1
      /\ \A k \in 1 .. i - 1 : front[k] = s[k]
  BY SubSeqProperties
<1>2. /\ rest \in Seq(S) /\ Len(rest) = Len(s) - i + 1
      /\ \A k \in 1 .. Len(s) - i + 1 : rest[k] = s[i + k - 1]
  BY SubSeqProperties
<1>3. Turns!InsertAt(s, i, e) = all
  BY DEF Turns!InsertAt
<1> HIDE DEF front, rest, all
<1>4. /\ upto \in Seq(S) /\ Len(upto) = i
      /\ \A k \in 1 .. i : upto[k] = IF k < i THEN s[k] ELSE e
  BY <1>1
<1> HIDE DEF upto
<1>5. /\ all \in Seq(S) /\ Len(all) = Len(s) + 1
      /\ \A k \in 1 .. Len(s) + 1 : all[k] = IF k <= i THEN upto[k] ELSE rest[k - i]
  BY <1>2, <1>4, ConcatProperties DEF all
<1>6. value \in Seq(S) /\ Len(value) = Len(s) + 1
  <2>1. \A k \in 1 .. Len(s) + 1 : value[k] \in S
    BY ElementOfSeq
  <2>2. value \in [1 .. Len(s) + 1 -> S]
    BY <2>1
  <2> QED BY <2>2, FunctionIsSeq
<1>7. \A k \in 1 .. Len(s) + 1 : all[k] = value[k]
  BY <1>2, <1>4, <1>5
<1> HIDE DEF value
<1>8. all = value
  BY <1>5, <1>6, <1>7, SeqEqual
<1> QED BY <1>3, <1>8 DEF value

\* Moving the first element to the end shifts the others.
LEMMA RotateValue ==
  ASSUME NEW S, NEW s \in Seq(S), s # <<>>
  PROVE  Append(Tail(s), Head(s)) =
           [k \in 1 .. Len(s) |-> IF k < Len(s) THEN s[k + 1] ELSE s[1]]
<1> DEFINE tl    == Tail(s)
           hd    == Head(s)
           all   == Append(tl, hd)
           value == [k \in 1 .. Len(s) |-> IF k < Len(s) THEN s[k + 1] ELSE s[1]]
<1>1. Len(s) \in Nat /\ Len(s) # 0
  BY EmptySeq
<1>2. /\ hd \in S /\ hd = s[1]
      /\ tl \in Seq(S) /\ Len(tl) = Len(s) - 1
      /\ \A k \in 1 .. Len(s) - 1 : tl[k] = s[k + 1]
  BY <1>1, HeadTailProperties
<1>3. value \in Seq(S) /\ Len(value) = Len(s)
  <2>1. \A k \in 1 .. Len(s) : value[k] \in S
    BY <1>1, ElementOfSeq
  <2>2. value \in [1 .. Len(s) -> S]
    BY <2>1
  <2> QED BY <1>1, <2>2, FunctionIsSeq
<1> HIDE DEF tl, hd
<1>4. /\ all \in Seq(S) /\ Len(all) = Len(tl) + 1
      /\ \A k \in 1 .. Len(tl) : all[k] = tl[k]
      /\ all[Len(tl) + 1] = hd
  BY <1>2, AppendProperties
<1>5. \A k \in 1 .. Len(s) : all[k] = value[k]
  BY <1>1, <1>2, <1>4
<1> HIDE DEF all, value
<1>6. all = value
  BY <1>1, <1>2, <1>3, <1>4, <1>5, SeqEqual
<1> QED BY <1>6 DEF all, value, tl, hd

Turn == IF currentTask < 0 THEN 0 ELSE currentTask

\* The slot of the n-th task from the current one on, of `stored`, and around.
SlotFrom(turn, stored, n) ==
  IF turn + n - 1 < stored THEN turn + n - 1 ELSE turn + n - 1 - stored

\* The ring before the first race: the stored tasks, the current one first.
RingShape ==
  /\ Ring = [n \in 1 .. Stored |-> tasks[SlotFrom(Turn, Stored, n)]]
  /\ Stored \in 0 .. MaxTasks
  /\ Turn \in Nat
  /\ Turn < Stored \/ (currentTask = -1 /\ Turn = 0)
  /\ currentTask # -1 => currentTask = Turn
  /\ \A n \in 1 .. Stored : /\ SlotFrom(Turn, Stored, n) \in Slots
                            /\ SlotFrom(Turn, Stored, n) < Stored
                            /\ tasks[SlotFrom(Turn, Stored, n)] \in Tasks
  /\ Ring \in Seq(Tasks)
  /\ Len(Ring) = Stored
  /\ Running = cpu.owner
  /\ Running = KernelMain <=> currentTask = -1

\* Before the first race the ring has its shape, whatever AddTask is doing
\* (multitasking.cpp:42-49).
LEMMA RingHasShape == Inv /\ ~raced => RingShape
<1> SUFFICES ASSUME Inv, ~raced PROVE RingShape
  OBVIOUS
<1> USE TasksAssumption
<1>1. OnCourse /\ Unraced /\ TypeOK
  BY DEF Inv, Unraced
<1>2. Stored \in 0 .. MaxTasks
  BY <1>1 DEF Unraced, TypeOK, Stored
<1>3. /\ Turn \in Nat
      /\ Turn < Stored \/ (currentTask = -1 /\ Turn = 0)
      /\ currentTask # -1 => currentTask = Turn
  <2>1. CASE currentTask = -1
    BY <2>1 DEF Turn
  <2>2. CASE currentTask \in Slots /\ tasks[currentTask] = cpu.owner
    <3>1. currentTask < Stored
      BY <1>1, <2>2 DEF Unraced
    <3> QED BY <2>2, <3>1 DEF Turn, Slots
  <2> QED BY <1>1, <2>1, <2>2 DEF OnCourse, CurrentRuns
<1>4. \A n \in 1 .. Stored : /\ SlotFrom(Turn, Stored, n) \in Slots
                             /\ SlotFrom(Turn, Stored, n) < Stored
  BY <1>2, <1>3 DEF SlotFrom, Slots
<1>5. \A n \in 1 .. Stored : tasks[SlotFrom(Turn, Stored, n)] \in Tasks
  BY <1>1, <1>4 DEF Unraced, TypeOK
<1>6. Ring = [n \in 1 .. Stored |-> tasks[SlotFrom(Turn, Stored, n)]]
  BY <1>2, <1>3 DEF Ring, Turn, SlotFrom
<1>7. Ring \in [1 .. Stored -> Tasks]
  BY <1>5, <1>6
<1>8. Ring \in Seq(Tasks) /\ Len(Ring) = Stored
  BY <1>2, <1>7, FunctionIsSeq
<1>9. Running = cpu.owner /\ (Running = KernelMain <=> currentTask = -1)
  <2>1. CASE currentTask = -1 /\ cpu.owner = KernelMain
    BY <2>1 DEF Running
  <2>2. CASE currentTask \in Slots /\ tasks[currentTask] = cpu.owner
    <3>1. cpu.owner \in Tasks
      BY <1>1, <2>2 DEF TypeOK, Unraced
    <3> QED BY <2>2, <3>1 DEF Running, Slots
  <2> QED BY <1>1, <2>1, <2>2 DEF OnCourse, CurrentRuns
<1> QED BY <1>2, <1>3, <1>4, <1>5, <1>6, <1>8, <1>9 DEF RingShape

\* The same of the next state.
LEMMA NextRingHasShape == Inv' /\ ~raced' => RingShape'
BY RingHasShape, PTL

\* The list is empty before the first task (multitasking.cpp:31-35).
LEMMA RingInit == Init => Turns!Init
<1> SUFFICES ASSUME Init PROVE Turns!Init
  OBVIOUS
<1>1. Inv /\ ~raced /\ currentTask = -1
  BY InvInit DEF Init
<1>2. Stored = 0
  BY DEF Init, Stored, Fresh
<1>3. Ring = <<>> /\ Running = KernelMain
  BY <1>1, <1>2, RingHasShape DEF RingShape
<1> QED BY <1>1, <1>3 DEF Turns!Init

\* AddTask lets its task join the ring where it is stored, behind the last task
\* of the list (multitasking.cpp:46).
LEMMA StoreJoins ==
  ASSUME Inv, Inv', AddTaskStore, ~raced
  PROVE  \E t \in Tasks : Turns!Join(t)
<1> USE TasksAssumption
<1>1. OnCourse /\ Unraced /\ TypeOK /\ ~raced' /\ cpu.pc = "store" /\ cpu.owner \in Contexts
  BY DEF Inv, Unraced, AddTaskStore, TypeOK, Frame
<1>2. /\ Stored = numTasks - 1 /\ cpu.eax = Stored /\ cpu.eax \in Slots
  BY <1>1 DEF Unraced, Stored, TypeOK, Slots
<1>3. /\ tasks' = [tasks EXCEPT ![cpu.eax] = cpu.task]
      /\ cpu' = Fresh(cpu.owner)
      /\ UNCHANGED <<numTasks, currentTask, raced>>
  BY <1>2 DEF AddTaskStore, Run
<1>4. Stored' = Stored + 1 /\ Turn' = Turn
  BY <1>1, <1>2, <1>3 DEF Stored, Fresh, Turn, TypeOK
<1>5. cpu.task \in Tasks /\ \A s \in Slots : tasks[s] # cpu.task
  BY <1>1 DEF OnCourse, EachOnce, Kept, TypeOK
<1>6. /\ Ring = [n \in 1 .. Stored |-> tasks[SlotFrom(Turn, Stored, n)]]
      /\ Stored \in 0 .. MaxTasks /\ Turn \in Nat
      /\ Turn < Stored \/ (currentTask = -1 /\ Turn = 0)
      /\ \A n \in 1 .. Stored : /\ SlotFrom(Turn, Stored, n) \in Slots
                                /\ SlotFrom(Turn, Stored, n) < Stored
      /\ Ring \in Seq(Tasks) /\ Len(Ring) = Stored
      /\ Running = KernelMain <=> currentTask = -1
  BY <1>1, RingHasShape DEF RingShape
<1>7. Ring' = [n \in 1 .. Stored' |-> tasks'[SlotFrom(Turn, Stored', n)]]
  BY <1>1, <1>4, NextRingHasShape DEF RingShape, SlotFrom
<1> DEFINE place == Stored - Turn + 1
<1>8. place \in 1 .. Len(Ring) + 1
  BY <1>6
<1>9. Running # KernelMain => place > 1
  BY <1>6
<1>10. Turns!InsertAt(Ring, place, cpu.task) =
         [k \in 1 .. Len(Ring) + 1 |->
            IF k < place THEN Ring[k] ELSE IF k = place THEN cpu.task ELSE Ring[k - 1]]
  <2>1. Ring \in Seq(Tasks) /\ cpu.task \in Tasks
    BY <1>5, <1>6
  <2> HIDE DEF place
  <2>2. \A r \in Seq(Tasks), t \in Tasks : \A i \in 1 .. Len(r) + 1 :
          Turns!InsertAt(r, i, t) =
            [k \in 1 .. Len(r) + 1 |->
               IF k < i THEN r[k] ELSE IF k = i THEN t ELSE r[k - 1]]
    BY InsertAtValue
  <2> QED BY <2>1, <2>2, <1>8, Zenon
<1>11. \A k \in 1 .. Stored + 1 :
         tasks'[SlotFrom(Turn, Stored + 1, k)] =
           IF k < place THEN Ring[k] ELSE IF k = place THEN cpu.task ELSE Ring[k - 1]
  <2> SUFFICES ASSUME NEW k \in 1 .. Stored + 1
               PROVE  tasks'[SlotFrom(Turn, Stored + 1, k)] =
                        IF k < place THEN Ring[k]
                        ELSE IF k = place THEN cpu.task ELSE Ring[k - 1]
    OBVIOUS
  <2>1. \A s \in Slots : tasks'[s] = IF s = Stored THEN cpu.task ELSE tasks[s]
    BY <1>1, <1>2, <1>3 DEF TypeOK
  <2>2. CASE k < place
    <3>1. SlotFrom(Turn, Stored + 1, k) = SlotFrom(Turn, Stored, k) /\ k \in 1 .. Stored
      BY <1>6, <2>2 DEF SlotFrom
    <3>2. SlotFrom(Turn, Stored, k) \in Slots /\ SlotFrom(Turn, Stored, k) < Stored
      BY <1>6, <3>1
    <3>3. tasks'[SlotFrom(Turn, Stored, k)] = tasks[SlotFrom(Turn, Stored, k)]
      BY <1>6, <2>1, <3>2 DEF Slots
    <3> QED BY <1>6, <2>2, <3>1, <3>3
  <2>3. CASE k = place
    <3>1. SlotFrom(Turn, Stored + 1, k) = Stored
      BY <1>6, <2>3 DEF SlotFrom
    <3> QED BY <1>2, <2>1, <2>3, <3>1
  <2>4. CASE k > place
    <3>1. SlotFrom(Turn, Stored + 1, k) = SlotFrom(Turn, Stored, k - 1) /\ k - 1 \in 1 .. Stored
      BY <1>6, <2>4 DEF SlotFrom
    <3>2. SlotFrom(Turn, Stored, k - 1) \in Slots /\ SlotFrom(Turn, Stored, k - 1) < Stored
      BY <1>6, <3>1
    <3>3. tasks'[SlotFrom(Turn, Stored, k - 1)] = tasks[SlotFrom(Turn, Stored, k - 1)]
      BY <1>6, <2>1, <3>2 DEF Slots
    <3> QED BY <1>6, <2>4, <3>1, <3>3
  <2> QED BY <1>6, <2>2, <2>3, <2>4
<1>12. Ring' = Turns!InsertAt(Ring, place, cpu.task)
  BY <1>4, <1>6, <1>7, <1>10, <1>11
<1>13. cpu.task \notin Turns!ToSet(Ring)
  BY <1>5, <1>6 DEF Turns!ToSet
<1>14. Len(Ring) < MaxTasks
  BY <1>1, <1>2, <1>6 DEF Unraced, TypeOK
<1>15. Running' = Running
  BY <1>1, <1>3 DEF Running, Fresh
<1> HIDE DEF place
<1> QED BY <1>1, <1>3, <1>5, <1>8, <1>9, <1>12, <1>13, <1>14, <1>15 DEF Turns!Join

\* The tick starts the first task, or the ring moves on by one
\* (multitasking.cpp:56-71).
LEMMA TimerTicks ==
  ASSUME Inv, Inv', Timer, ~raced', ~(numTasks <= 0)
  PROVE  Turns!Tick
<1> USE TasksAssumption
<1> DEFINE next == Following(currentTask)
<1>1. /\ ~raced /\ OnCourse /\ Unraced /\ TypeOK /\ Unraced' /\ OnCourse' /\ TypeOK'
      /\ cpu.pc \notin Busy
  BY DEF Inv, Unraced, Timer, Busy
<1>2. /\ currentTask' = next /\ cpu'.owner # Garbage
      /\ UNCHANGED <<tasks, numTasks, last>>
  BY <1>1 DEF Timer, Unraced
<1>3. cpu'.pc \notin Busy
  <2>1. \A c \in Contexts : last[c].pc \notin Busy
    BY <1>1 DEF Unraced, OnCourse, Kept
  <2>2. cpu'.owner \in Contexts /\ cpu' = last[cpu'.owner]
    BY <1>1, <1>2 DEF OnCourse, Kept, TypeOK, Frame
  <2> QED BY <2>1, <2>2
<1>4. Stored = numTasks /\ Stored' = numTasks /\ numTasks \in Nat \ {0}
  BY <1>1, <1>2, <1>3 DEF Stored, Busy, TypeOK
<1>5. RingShape /\ RingShape'
  BY <1>1, RingHasShape, NextRingHasShape
<1>6. next = IF currentTask + 1 = numTasks THEN 0 ELSE currentTask + 1
  BY <1>1, <1>4, FollowingValue DEF OnCourse, CurrentRuns, Slots, TypeOK
<1> HIDE DEF next
<1>7. /\ Turn' = next /\ next \in Nat
      /\ currentTask \in Slots \cup {-1} /\ currentTask < numTasks
  BY <1>1, <1>2, <1>4, <1>6 DEF Turn, OnCourse, CurrentRuns, Slots
<1>8. Ring' = [n \in 1 .. numTasks |-> tasks[SlotFrom(next, numTasks, n)]]
  BY <1>2, <1>4, <1>5, <1>7 DEF RingShape, SlotFrom
<1>9. Ring = [n \in 1 .. numTasks |-> tasks[SlotFrom(Turn, numTasks, n)]]
  BY <1>4, <1>5 DEF RingShape
<1>10. Ring \in Seq(Tasks) /\ Len(Ring) = numTasks /\ Ring # <<>>
  BY <1>4, <1>5 DEF RingShape
<1>11. Ring' = IF Running = KernelMain THEN Ring ELSE Append(Tail(Ring), Head(Ring))
  <2>1. CASE Running = KernelMain
    <3>1. currentTask = -1 /\ Turn = 0
      BY <2>1, <1>5 DEF RingShape, Turn
    <3>2. next = 0
      BY <3>1, <1>4, <1>6
    <3> QED BY <2>1, <3>1, <3>2, <1>8, <1>9
  <2>2. CASE Running # KernelMain
    <3>1. currentTask = Turn /\ Turn \in Nat /\ Turn < numTasks
      BY <2>2, <1>4, <1>5 DEF RingShape
    <3>2. Append(Tail(Ring), Head(Ring)) =
            [k \in 1 .. numTasks |-> IF k < numTasks THEN Ring[k + 1] ELSE Ring[1]]
      BY <1>10, RotateValue
    <3>3. ASSUME NEW k \in 1 .. numTasks
          PROVE  tasks[SlotFrom(next, numTasks, k)] =
                   IF k < numTasks THEN Ring[k + 1] ELSE Ring[1]
      <4>1. SlotFrom(next, numTasks, k) =
              SlotFrom(Turn, numTasks, IF k < numTasks THEN k + 1 ELSE 1)
        BY <3>1, <1>4, <1>6 DEF SlotFrom
      <4>2. (IF k < numTasks THEN k + 1 ELSE 1) \in 1 .. numTasks
        BY <1>4
      <4> QED BY <4>1, <4>2, <1>9
    <3> QED BY <2>2, <3>2, <3>3, <1>8
  <2> QED BY <2>1, <2>2
<1>12. Running' = Head(Ring')
  <2>1. Running' = cpu'.owner /\ Ring' \in Seq(Tasks) /\ Len(Ring') = numTasks
    BY <1>4, <1>5 DEF RingShape
  <2>2. cpu'.owner = tasks[next]
    BY <1>1, <1>2, <1>7 DEF OnCourse, CurrentRuns
  <2>3. Ring'[1] = tasks[next]
    <3>1. next < numTasks
      BY <1>4, <1>6, <1>7 DEF Slots
    <3>2. SlotFrom(next, numTasks, 1) = next
      BY <3>1, <1>4, <1>7 DEF SlotFrom
    <3> QED BY <1>4, <1>8, <3>2
  <2>4. Head(Ring') = Ring'[1]
    OBVIOUS
  <2> QED BY <2>1, <2>2, <2>3, <2>4
<1>13. raced' = raced
  BY <1>1 DEF TypeOK
<1> QED BY <1>1, <1>10, <1>11, <1>12, <1>13 DEF Turns!Tick

\* Every step of the task manager is a step of the round robin or leaves it
\* alone, until the first race (multitasking.cpp:42-74).
LEMMA StepTakesTurns ==
  Inv /\ Inv' /\ [Next]_vars => [Turns!Next]_(Turns!vars)
<1> SUFFICES ASSUME Inv, Inv', [Next]_vars, ~raced'
             PROVE  Turns!Next \/ UNCHANGED <<Ring, Running, raced>>
  BY DEF Turns!Next, Turns!vars
<1>1. CASE \E t \in Tasks : CallAddTask(t)
  BY <1>1 DEF CallAddTask, Run, Ring, Running, Stored, Inv, TypeOK, Frame
<1>2. CASE AddTaskCheck
  BY <1>2 DEF AddTaskCheck, Run, Ring, Running, Stored, Inv, TypeOK, Frame
<1>3. CASE AddTaskLoad
  BY <1>3 DEF AddTaskLoad, Run, Ring, Running, Stored, Inv, TypeOK, Frame
<1>4. CASE AddTaskCount
  <2>1. ~raced /\ cpu.pc = "count" /\ cpu.eax = numTasks /\ numTasks \in Nat
    BY <1>4 DEF AddTaskCount, Inv, Unraced, TypeOK
  <2>2. /\ numTasks' = numTasks + 1 /\ cpu' = [cpu EXCEPT !.pc = "store"]
        /\ UNCHANGED <<tasks, currentTask, raced>>
    BY <1>4, <2>1 DEF AddTaskCount, Run
  <2>3. cpu'.pc = "store" /\ cpu'.owner = cpu.owner
    BY <2>2 DEF Inv, TypeOK, Frame
  <2>4. Stored' = Stored
    BY <2>1, <2>2, <2>3 DEF Stored
  <2> QED BY <2>2, <2>3, <2>4 DEF Ring, Running
<1>5. CASE AddTaskStore
  BY <1>5, StoreJoins DEF AddTaskStore, Turns!Next
<1>6. CASE Timer
  <2>1. CASE numTasks <= 0
    BY <1>6, <2>1 DEF Timer, Ring, Running, Stored
  <2>2. CASE ~(numTasks <= 0)
    BY <1>6, <2>2, TimerTicks DEF Turns!Next
  <2> QED BY <2>1, <2>2
<1>7. CASE Astray \/ UNCHANGED vars
  <2>1. UNCHANGED <<tasks, numTasks, currentTask, cpu, raced>>
    BY <1>7 DEF Astray, vars
  <2>2. Stored' = Stored
    BY <2>1 DEF Stored
  <2> QED BY <2>1, <2>2 DEF Ring, Running
<1> QED BY <1>1, <1>2, <1>3, <1>4, <1>5, <1>6, <1>7 DEF Next

\* Until the first race the tasks take turns, each of them once a round, and
\* kernelMain, which is not in the list, never gets another one: the safety
\* part of ImplementsRoundRobin (multitasking.cpp:42-74).
THEOREM TakesTurns == Spec => Turns!Init /\ [][Turns!Next]_(Turns!vars)
<1>1. Init => Turns!Init
  BY RingInit
<1>2. Inv /\ Inv' /\ [Next]_vars => [Turns!Next]_(Turns!vars)
  BY StepTakesTurns
<1> QED BY <1>1, <1>2, Invariant, PTL DEF Spec
================================================================================
