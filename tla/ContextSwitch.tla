---------------------------- MODULE ContextSwitch ----------------------------
(***************************************************************************)
(* What a yield does to the registers: kernel/unice64/context_switch.s,    *)
(* the gate of int 0x81, and the contexts register_task prepares. The      *)
(* choice of the next task is left open here; Scheduler models it.         *)
(*                                                                         *)
(* A task_t is an array of 8-byte words: word 0 holds id and state, words  *)
(* 1 to 20 the context in the order of cpu_context_t, which is the order   *)
(* the registers and the iretq frame have on the stack, too. A word is     *)
(* abstracted to where its value comes from.                               *)
(***************************************************************************)
EXTENDS Integers

CONSTANTS
  NumTasks,    \* the tasks tasking_init registers
  Main,        \* the thread that boots
  Nobody,      \* no thread
  MaxPanics    \* bound: panics in a behaviour

VARIABLES
  task_count,
  current,     \* current_task_idx
  tcb,         \* task_table, as words
  thread,      \* whose code the CPU executes
  yielded,     \* history: the thread last saved into each slot, or none
  panics       \* calls of forensic_panic so far

vars == <<task_count, current, tcb, thread, yielded, panics>>

Slots == 0 .. NumTasks - 1
Words == 0 .. 20
Context == Words \ {0}
Rsp == 19

Threads == Slots \cup {Main}

(* Where a word's value comes from: the id and state of a task_t, the      *)
(* registers of a thread (as it runs, or as register_task prepared them),  *)
(* or nothing (zero).                                                      *)
Value(what, of) == [what |-> what, of |-> of]
Head(t) == Value("head", t)
Register(th) == Value("register", th)
Zero == Value("zero", Nobody)

(* register_task sets rip, cs, rflags, rsp and ss of a zeroed context. *)
FreshTask(t) ==
  [k \in Words |-> IF k = 0 THEN Head(t) ELSE IF k > 15 THEN Register(t) ELSE Zero]

Init ==
  /\ task_count = 0
  /\ current = 0
  /\ tcb = [t \in Slots |-> [k \in Words |-> Zero]]
  /\ thread = Main
  /\ yielded = [t \in Slots |-> Nobody]
  /\ panics = 0

TaskingInit ==
  /\ thread = Main
  /\ task_count = 0
  /\ task_count' = NumTasks
  /\ current' = 0
  /\ tcb' = [t \in Slots |-> FreshTask(t)]
  /\ UNCHANGED <<thread, yielded, panics>>

(* The word at %rax + 8 * k while the task_t reads mem. %rax was set to the *)
(* stack, where the registers of the thread are, but get_current_task has   *)
(* returned its task_t in %rax since.                                       *)
AtRax(mem, k) == mem[k]

(* The 20 moves to the context, one after the other. *)
SavedContext(mem) ==
  LET after[k \in Words] ==
        IF k = 0 THEN mem ELSE [after[k - 1] EXCEPT ![k] = AtRax(after[k - 1], k - 1)]
  IN after[20]

(* Stack addresses lie in the kernel range; ids, states and zeros do not. *)
InKernelRange(v) == v.what = "register"

(* int 0x81: save, schedule, load. A stack pointer outside the kernel      *)
(* range ends in forensic_panic on the stack of the thread that yielded.   *)
Yield ==
  /\ tcb' = [tcb EXCEPT ![current] = SavedContext(@)]
  /\ yielded' = [yielded EXCEPT ![current] = thread]
  /\ \E next \in IF task_count < 2 THEN {current} ELSE Slots :
       /\ current' = next
       /\ IF InKernelRange(tcb'[next][Rsp])
          THEN thread' = tcb'[next][Rsp].of /\ UNCHANGED panics
          ELSE /\ panics < MaxPanics
               /\ panics' = panics + 1
               /\ UNCHANGED thread
  /\ UNCHANGED task_count

(* Threads yield in print and the rsl_ wrappers, and forensic_panic, which *)
(* prints, yields like everyone else.                                      *)
Next == TaskingInit \/ Yield

Spec == Init /\ [][Next]_vars

-----------------------------------------------------------------------------
TypeOK ==
  /\ task_count \in {0, NumTasks}
  /\ current \in Slots
  /\ \A t \in Slots : DOMAIN tcb[t] = Words
  /\ thread \in Threads
  /\ yielded \in [Slots -> Threads \cup {Nobody}]
  /\ panics \in 0 .. MaxPanics

(* context_switch.s, step 1: the state of the task being switched out is   *)
(* saved. What step 3 loads for a thread would then be its own registers.  *)
SavesTheThread ==
  \A t \in Slots : yielded[t] # Nobody =>
    \A k \in Context : tcb[t][k] = Register(yielded[t])
=============================================================================
