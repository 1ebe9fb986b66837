----------------------------- MODULE Scheduler -----------------------------
(***************************************************************************)
(* The UNICE64 cooperative scheduler and the threads that run under it:    *)
(* kernel/unice64/scheduler.c and tasking.c, the tail of _start in main.c, *)
(* the input loop of console.c and the yields of rsl_execute_stream.       *)
(*                                                                         *)
(* One CPU, no preemption (irq_timer_handler only counts ticks): a step    *)
(* of the model is what the thread on the CPU does up to its next yield.   *)
(* A switched-out thread is taken to resume where it yielded. That is what *)
(* the yield is meant to do; ContextSwitch shows what it does.             *)
(*                                                                         *)
(* Slot 0 is registered for idle_task, but the thread that calls           *)
(* tasking_init is already running while current_task_idx is 0, so its     *)
(* first yield saves it into slot 0: idle_task never runs, and slot 0 is   *)
(* the main thread from then on.                                           *)
(***************************************************************************)
EXTENDS Integers, FiniteSets

CONSTANTS
  MaxTasks,     \* MAX_TASKS, the length of task_table
  NumTasks,     \* how many tasks tasking_init registers
  Shells,       \* the slots that run shell_main, and so wait in get_char
  MaxKeys,      \* bound: keys typed in a behaviour
  BypassCap     \* bound: the bypass counters saturate here

ASSUME SchedulerAssumption ==
  /\ MaxTasks \in Nat \ {0}
  /\ NumTasks \in Nat \ {0}
  /\ Shells \subseteq 1 .. NumTasks - 1
  /\ MaxKeys \in Nat
  /\ BypassCap \in Nat
  /\ BypassCap >= NumTasks

VARIABLES
  task_count,   \* how many slots of task_table are in use
  current,      \* current_task_idx
  state,        \* task_table[i].state
  pc,           \* where the thread of slot i is, or will resume
  keys,         \* scancodes waiting in the keyboard controller or COM1
  typed,        \* keys pressed so far, to bound the environment
  passed        \* history: the switches that passed slot i by while it
                \* could have used the CPU

vars == <<task_count, current, state, pc, keys, typed, passed>>

Slots == 0 .. MaxTasks - 1
Tasks == 0 .. task_count - 1
States == {"RUNNING", "READY", "WAITING"}
Places == {"boot", "stream", "handover", "run", "poll", "wait", "stuck"}

Registered == IF NumTasks <= MaxTasks THEN NumTasks ELSE MaxTasks

TypeOK ==
  /\ task_count \in 0 .. Registered
  /\ current \in Slots
  /\ task_count > 0 => current < task_count
  /\ state \in [Slots -> States]
  /\ pc \in [Slots -> Places]
  /\ typed \in 0 .. MaxKeys
  /\ keys \in 0 .. typed
  /\ passed \in [Slots -> 0 .. BypassCap]

(* task_table is zeroed and TASK_RUNNING is 0. *)
Init ==
  /\ task_count = 0
  /\ current = 0
  /\ state = [t \in Slots |-> "RUNNING"]
  /\ pc = [t \in Slots |-> IF t = 0 THEN "boot" ELSE "run"]
  /\ keys = 0
  /\ typed = 0
  /\ passed = [t \in Slots |-> 0]

-----------------------------------------------------------------------------
(* The round robin.                                                        *)

(* Mutant: the scan starts two slots on. *)
DistanceSkipping(t) == IF t > current + 1 THEN t - current
                                          ELSE t - current + task_count

(* How many steps of (i + 1) % task_count lead from the current slot to t; *)
(* the current slot itself is inspected last, after a full turn.           *)
Distance(t) == IF t > current THEN t - current
                              ELSE t - current + task_count

Runnable(st, t) == st[t] \in {"READY", "RUNNING"}

(* Mutant: the scan starts at slot 0. *)
LowestRunnable(st, next) ==
  /\ Runnable(st, next)
  /\ \A t \in Tasks : Runnable(st, t) => next <= t

(* The slot the scan stops at, and slot 0 when it finds none. *)
IsNext(st, next) ==
  \/ /\ Runnable(st, next)
     /\ \A t \in Tasks : Runnable(st, t) => Distance(next) <= Distance(t)
  \/ /\ next = 0
     /\ \A t \in Tasks : ~Runnable(st, t)

(* A registered task that would have something to do: it is READY, or it   *)
(* waits for input that is there.                                          *)
CouldRun(st, t) ==
  /\ t \in Tasks
  /\ st[t] = "READY" \/ (st[t] = "WAITING" /\ keys > 0)

CountBypass(st, next) ==
  [t \in Slots |->
     IF t = next THEN 0
     ELSE IF CouldRun(st, t) /\ passed[t] < BypassCap THEN passed[t] + 1
     ELSE passed[t]]

(* Mutant: the outgoing task keeps its state. *)
DispatchOnly(st, next) == [st EXCEPT ![next] = "RUNNING"]

(* The states unice64_schedule leaves behind when it picks next. *)
Dispatch(st, next) ==
  [t \in Slots |-> IF t = next THEN "RUNNING"
                   ELSE IF t = current /\ st[t] = "RUNNING" THEN "READY"
                   ELSE st[t]]

(* unice64_schedule, called by a yield with the task states st. *)
Schedule(st) ==
  /\ UNCHANGED <<task_count, keys, typed>>
  /\ IF task_count < 2
     THEN state' = st /\ UNCHANGED <<current, passed>>
     ELSE \E next \in Tasks :
            /\ IsNext(st, next)
            /\ current' = next
            /\ state' = Dispatch(st, next)
            /\ passed' = CountBypass(st, next)

-----------------------------------------------------------------------------
(* The main thread: _start from tasking_init on.                           *)

(* tasking_init registers its tasks and panics when fewer than three got a *)
(* slot. Then the boot script runs, unless no volume was mounted: without  *)
(* one the main thread goes straight to its hlt loop and never yields.     *)
TaskingInit ==
  /\ pc[0] = "boot"
  /\ task_count' = Registered
  /\ current' = 0
  /\ state' = [t \in Slots |-> IF t < Registered THEN "READY" ELSE state[t]]
  /\ \E next \in IF Registered < 3 THEN {"stuck"} ELSE {"stream", "stuck"} :
       pc' = [pc EXCEPT ![0] = next]
  /\ UNCHANGED <<keys, typed, passed>>

(* rsl_execute_stream yields once per non-empty line. *)
StreamLine ==
  /\ current = 0
  /\ pc[0] = "stream"
  /\ Schedule(state)
  /\ UNCHANGED pc

(* The script cannot be opened, or vfs_read stops: both paths print, and   *)
(* print yields.                                                           *)
StreamEnd ==
  /\ current = 0
  /\ pc[0] = "stream"
  /\ Schedule(state)
  /\ pc' = [pc EXCEPT ![0] = "handover"]

(* At the end of the file f_read leaves the byte count unset. While the    *)
(* stale count is 1 and the last character a newline, the loop of          *)
(* rsl_execute_stream goes on without a yield.                             *)
StreamSpins ==
  /\ current = 0
  /\ pc[0] = "stream"
  /\ pc' = [pc EXCEPT ![0] = "stuck"]
  /\ UNCHANGED <<task_count, current, state, keys, typed, passed>>

(* Back from the last print: the hlt loop at the end of _start. *)
Handover ==
  /\ current = 0
  /\ pc[0] = "handover"
  /\ pc' = [pc EXCEPT ![0] = "stuck"]
  /\ UNCHANGED <<task_count, current, state, keys, typed, passed>>

-----------------------------------------------------------------------------
(* The shell, the system task, and get_char. The main thread is in         *)
(* get_char too when it finds no volume at boot and asks for one to        *)
(* install on: the table is empty then, and a yield comes straight back.   *)

OnCPU(t) == current = t

(* Any task yields between two pieces of its work: the shell in print and  *)
(* the rsl_ wrappers, the system task after each audit of port 0.          *)
TaskYield(t) ==
  /\ OnCPU(t)
  /\ pc[t] = "run"
  /\ Schedule(state)
  /\ UNCHANGED pc

(* A task stops yielding for good: the port audit of the system task waits *)
(* on the command-list bit of a live port, or the shell runs the install   *)
(* script past its last newline.                                           *)
TaskStuck(t) ==
  /\ OnCPU(t)
  /\ pc[t] = "run"
  /\ pc' = [pc EXCEPT ![t] = "stuck"]
  /\ UNCHANGED <<task_count, current, state, keys, typed, passed>>

EnterGetChar(t) ==
  /\ OnCPU(t)
  /\ \/ t \in Shells /\ pc[t] = "run"
     \/ t = 0 /\ pc[t] = "boot"
  /\ pc' = [pc EXCEPT ![t] = "poll"]
  /\ UNCHANGED <<task_count, current, state, keys, typed, passed>>

(* Where get_char returns to. *)
Caller(t) == IF t = 0 THEN "boot" ELSE "run"

(* Mutant: the data port is read without a look at the status port. *)
TakesUnchecked(t) ==
  /\ OnCPU(t)
  /\ pc[t] = "poll"
  /\ keys' = keys - 1
  /\ pc' = [pc EXCEPT ![t] = Caller(t)]
  /\ UNCHANGED <<task_count, current, state, typed, passed>>

(* get_char takes a code: it returns a character, or drops it (mouse data, *)
(* shift, key releases) and polls again.                                   *)
GetCharTakes(t) ==
  /\ OnCPU(t)
  /\ pc[t] = "poll"
  /\ keys > 0
  /\ keys' = keys - 1
  /\ \E next \in {Caller(t), "poll"} : pc' = [pc EXCEPT ![t] = next]
  /\ UNCHANGED <<task_count, current, state, typed, passed>>

(* Mutant: the task yields without the mark. *)
WaitsUnmarked(t) ==
  /\ OnCPU(t)
  /\ pc[t] = "poll"
  /\ keys = 0
  /\ Schedule(state)
  /\ pc' = [pc EXCEPT ![t] = "wait"]

(* Nothing to read: mark the task WAITING and yield. *)
GetCharWaits(t) ==
  /\ OnCPU(t)
  /\ pc[t] = "poll"
  /\ keys = 0
  /\ Schedule([state EXCEPT ![t] = "WAITING"])
  /\ pc' = [pc EXCEPT ![t] = "wait"]

GetCharResumes(t) ==
  /\ OnCPU(t)
  /\ pc[t] = "wait"
  /\ state' = [state EXCEPT ![t] = "RUNNING"]
  /\ pc' = [pc EXCEPT ![t] = "poll"]
  /\ UNCHANGED <<task_count, current, keys, typed, passed>>

(* The environment. *)
KeyPress ==
  /\ typed < MaxKeys
  /\ keys' = keys + 1
  /\ typed' = typed + 1
  /\ UNCHANGED <<task_count, current, state, pc, passed>>

-----------------------------------------------------------------------------
MainStep == TaskingInit \/ StreamLine \/ StreamEnd \/ StreamSpins \/ Handover

TaskStep(t) ==
  \/ TaskYield(t)
  \/ TaskStuck(t)
  \/ EnterGetChar(t)
  \/ GetCharTakes(t)
  \/ GetCharWaits(t)
  \/ GetCharResumes(t)

CpuStep == MainStep \/ \E t \in Slots : TaskStep(t)

Next == CpuStep \/ KeyPress

Spec == Init /\ [][Next]_vars

(* The CPU never stops executing the thread it is on. *)
FairSpec == Spec /\ WF_vars(CpuStep)

-----------------------------------------------------------------------------
Booted == task_count > 0

(* Only the task on the CPU is RUNNING, and no task but the main thread    *)
(* before its first yield is on the CPU under another state: the schedule  *)
(* loop and the two assignments of get_char agree on who owns the CPU.     *)
SoleRunner ==
  Booted => /\ \A t \in Tasks : state[t] = "RUNNING" => t = current
            /\ current # 0 => state[current] = "RUNNING"

(* A task is WAITING exactly while it is inside the yield of get_char and  *)
(* off the CPU: none is skipped for a wait it has already left, and none   *)
(* in the wait is picked as if it were READY.                              *)
WaitersParked ==
  Booted => \A t \in Tasks :
              state[t] = "WAITING" <=> (pc[t] = "wait" /\ t # current)

(* Bounded bypass: fewer than task_count switches pass a READY task by     *)
(* before it runs, whatever the others do and however many of them wait.   *)
BoundedBypass ==
  Booted => \A t \in Tasks :
              state[t] = "READY" => passed[t] < task_count

(* A READY task gets the CPU, unless the thread on the CPU stops yielding. *)
CpuTaken == pc[current] = "stuck"

ReadyRunsOrCpuTaken ==
  \A t \in Slots : (t < task_count /\ state[t] = "READY")
                     ~> (current = t \/ CpuTaken)
=============================================================================
