--------------------------- MODULE SchedulerProofs ---------------------------
(* Safety of the round robin for every number of tasks, any set of shells   *)
(* and any table length.                                                    *)
EXTENDS Scheduler, TLAPS

(* Before tasking_init nothing but the zeroed table exists; after it the    *)
(* table holds every registered task, and fewer than three of them panic.   *)
BootInv ==
  /\ ~Booted => /\ current = 0
                /\ passed = [t \in Slots |-> 0]
  /\ Booted => task_count = Registered
  /\ Booted /\ task_count < 3 => current = 0 /\ pc[0] = "stuck"

(* The main thread is in get_char before tasking_init only, and the tasks  *)
(* have not left their entry points then.                                  *)
PlaceInv ==
  /\ Booted  => pc[0] \in {"stream", "handover", "stuck"}
  /\ ~Booted => pc[0] \in {"boot", "poll", "wait"}
  /\ \A t \in Slots \ {0} : pc[t] \in IF Booted THEN {"run", "poll", "wait", "stuck"}
                                             ELSE {"run"}

(* What a READY task has been passed by, with what can still pass it by     *)
(* before the scan reaches it, never exceeds a full turn.                   *)
BypassInv ==
  Booted => \A t \in Tasks :
              /\ state[t] = "READY" => passed[t] + Distance(t) <= task_count
              /\ state[t] = "RUNNING" => passed[t] = 0

IInv == TypeOK /\ BootInv /\ PlaceInv /\ SoleRunner /\ WaitersParked /\ BypassInv
-----------------------------------------------------------------------------
LEMMA RegisteredType ==
  ASSUME SchedulerAssumption
  PROVE  /\ Registered \in Nat \ {0}
         /\ Registered <= MaxTasks
         /\ Registered <= NumTasks
  BY DEF SchedulerAssumption, Registered

LEMMA InitIInv == ASSUME SchedulerAssumption, Init PROVE IInv
  BY RegisteredType
  DEF Init, IInv, TypeOK, BootInv, PlaceInv, SoleRunner, WaitersParked,
      BypassInv, Booted, Slots, Tasks, States, Places, SchedulerAssumption

(* Every caller of unice64_schedule: the task states are those it finds, or *)
(* those with the calling task marked WAITING by get_char.                  *)
LEMMA ScheduleStep ==
  ASSUME SchedulerAssumption, IInv, Booted, task_count >= 3,
         NEW st,
         \/ st = state
         \/ st = [state EXCEPT ![current] = "WAITING"],
         Schedule(st)
  PROVE  /\ current' \in Tasks
         /\ state' \in [Slots -> States]
         /\ passed' \in [Slots -> 0 .. BypassCap]
         /\ UNCHANGED <<task_count, keys, typed>>
         /\ state'[current'] = "RUNNING"
         /\ \A t \in Tasks : state'[t] = "RUNNING" => t = current'
         /\ \A t \in Tasks : state'[t] = "WAITING" <=>
                               (st[t] = "WAITING" /\ t # current')
         /\ \A t \in Tasks : /\ state'[t] = "READY"
                                  => passed'[t] + Distance(t)' <= task_count
                             /\ state'[t] = "RUNNING" => passed'[t] = 0
<1> USE RegisteredType DEF Slots, Tasks, States
<1>1. st \in [Slots -> States] /\ current \in Tasks /\ Tasks \subseteq Slots
  BY DEF IInv, TypeOK
<1>2. UNCHANGED <<task_count, keys, typed>>
  BY DEF Schedule
<1>3. PICK next \in Tasks : /\ IsNext(st, next)
                            /\ current' = next
                            /\ state' = Dispatch(st, next)
                            /\ passed' = CountBypass(st, next)
  BY <1>1 DEF Schedule, IInv, TypeOK
<1>4. state' \in [Slots -> States] /\ current' \in Tasks
  BY <1>1, <1>3 DEF Dispatch
<1>5. passed' \in [Slots -> 0 .. BypassCap]
  <2>1. passed \in [Slots -> 0 .. BypassCap] /\ BypassCap \in Nat
    BY DEF IInv, TypeOK, SchedulerAssumption
  <2> QED BY <1>3, <2>1 DEF CountBypass
<1>6. state'[current'] = "RUNNING"
  BY <1>1, <1>3 DEF Dispatch
<1>7. \A t \in Tasks : st[t] = "RUNNING" => t = current
  BY <1>1 DEF IInv, SoleRunner, TypeOK
<1>8. \A t \in Tasks : state'[t] = "RUNNING" => t = current'
  BY <1>1, <1>3, <1>7 DEF Dispatch
<1>9. \A t \in Tasks : state'[t] = "WAITING" <=>
                         (st[t] = "WAITING" /\ t # current')
  BY <1>1, <1>3 DEF Dispatch
<1>10. ASSUME NEW t \in Tasks, state'[t] = "RUNNING"
       PROVE  passed'[t] = 0
  BY <1>1, <1>3, <1>8, <1>10 DEF CountBypass
<1>11. ASSUME NEW t \in Tasks, state'[t] = "READY"
       PROVE  passed'[t] + Distance(t)' <= task_count
  <2>1. t # next
    BY <1>3, <1>6, <1>11
  <2>2. Distance(t)' \in 1 .. task_count
    BY <1>2, <1>3 DEF Distance, IInv, TypeOK
  <2>3. CASE st[t] = "RUNNING"
    <3>1. st[t] = state[t] /\ passed[t] = 0
      BY <1>1, <2>3 DEF IInv, BypassInv, TypeOK
    <3>2. passed'[t] = 0
      BY <1>1, <1>3, <2>1, <2>3, <3>1 DEF CountBypass, CouldRun
    <3> QED BY <2>2, <3>2, <1>2 DEF IInv, TypeOK
  <2>4. CASE st[t] = "READY"
    <3>1. st[t] = state[t] /\ passed[t] + Distance(t) <= task_count
      BY <1>1, <2>4 DEF IInv, BypassInv, TypeOK
    <3>2. passed'[t] <= passed[t] + 1
      BY <1>1, <1>3, <2>1 DEF CountBypass, IInv, TypeOK
    <3>3. Distance(next) < Distance(t)
      <4>1. Distance(next) <= Distance(t)
        BY <1>3, <2>4 DEF IsNext, Runnable
      <4>2. Distance(next) # Distance(t)
        BY <2>1, <1>1 DEF Distance, IInv, TypeOK
      <4>3. Distance(next) \in Int /\ Distance(t) \in Int
        BY <1>1 DEF Distance, IInv, TypeOK
      <4> QED BY <4>1, <4>2, <4>3
    <3>4. Distance(t)' <= Distance(t) - 1
      BY <1>2, <1>3, <3>3, <2>1 DEF Distance, IInv, TypeOK
    <3>5. /\ passed[t] \in Int /\ passed'[t] \in Int
          /\ Distance(t) \in Int /\ Distance(t)' \in Int
      BY <1>1, <1>5, <2>2 DEF Distance, IInv, TypeOK
    <3>6. task_count \in Int
      BY DEF IInv, TypeOK
    <3>7. passed'[t] + Distance(t)' <= task_count
      BY <3>1, <3>2, <3>4, <3>5, <3>6
    <3> QED BY <2>1, <2>4, <3>7
  <2> QED BY <1>1, <1>3, <1>11, <2>1, <2>3, <2>4 DEF Dispatch
<1> QED BY <1>2, <1>4, <1>5, <1>6, <1>8, <1>9, <1>10, <1>11
-----------------------------------------------------------------------------
(* A thread on the CPU implies a table of at least three tasks. *)
LEMMA SwitchingNeedsThree ==
  ASSUME SchedulerAssumption, IInv, Booted, pc[current] # "stuck"
  PROVE  task_count >= 3
  BY RegisteredType DEF IInv, BootInv, TypeOK

(* A yield from anywhere but get_char: the caller keeps its place or, at   *)
(* the end of the script, moves on to the handover.                        *)
LEMMA YieldStep ==
  ASSUME SchedulerAssumption, IInv, Booted,
         pc[current] \in {"stream", "run"},
         Schedule(state),
         \/ UNCHANGED pc
         \/ current = 0 /\ pc' = [pc EXCEPT ![0] = "handover"]
  PROVE  IInv'
<1> USE RegisteredType DEF Slots, Tasks, States, Places
<1>1. task_count >= 3
  BY SwitchingNeedsThree
<1>2. /\ current' \in Tasks
      /\ state' \in [Slots -> States]
      /\ passed' \in [Slots -> 0 .. BypassCap]
      /\ UNCHANGED <<task_count, keys, typed>>
      /\ state'[current'] = "RUNNING"
      /\ \A t \in Tasks : state'[t] = "RUNNING" => t = current'
      /\ \A t \in Tasks : state'[t] = "WAITING" <=>
                            (state[t] = "WAITING" /\ t # current')
      /\ \A t \in Tasks : /\ state'[t] = "READY"
                               => passed'[t] + Distance(t)' <= task_count
                          /\ state'[t] = "RUNNING" => passed'[t] = 0
  BY <1>1, ScheduleStep
<1>3. TypeOK'
  <2>1. pc' \in [Slots -> Places]
    BY DEF IInv, TypeOK
  <2> QED BY <1>2, <2>1 DEF IInv, TypeOK
<1>4. BootInv' /\ PlaceInv'
  BY <1>1, <1>2 DEF IInv, TypeOK, BootInv, PlaceInv, Booted
<1>5. SoleRunner' /\ BypassInv'
  BY <1>2 DEF SoleRunner, BypassInv
<1>6. WaitersParked'
  <2>1. \A t \in Tasks : pc'[t] = "wait" <=> pc[t] = "wait"
    BY DEF IInv, TypeOK
  <2>2. pc[current] # "wait"
    OBVIOUS
  <2> QED BY <1>2, <2>1, <2>2 DEF WaitersParked, IInv
<1> QED BY <1>3, <1>4, <1>5, <1>6 DEF IInv

(* The yield inside get_char. *)
LEMMA WaitStep ==
  ASSUME SchedulerAssumption, IInv, Booted, NEW t \in Slots, GetCharWaits(t)
  PROVE  IInv'
<1> USE RegisteredType DEF Slots, Tasks, States, Places
<1>1. t = current /\ pc[t] = "poll"
  BY DEF GetCharWaits, OnCPU
<1>a. t # 0
  BY <1>1 DEF IInv, PlaceInv
<1>2. task_count >= 3
  BY <1>1, SwitchingNeedsThree
<1> DEFINE st == [state EXCEPT ![current] = "WAITING"]
<1>3. Schedule(st)
  BY <1>1 DEF GetCharWaits
<1> HIDE DEF st
<1>4. /\ current' \in Tasks
      /\ state' \in [Slots -> States]
      /\ passed' \in [Slots -> 0 .. BypassCap]
      /\ UNCHANGED <<task_count, keys, typed>>
      /\ state'[current'] = "RUNNING"
      /\ \A u \in Tasks : state'[u] = "RUNNING" => u = current'
      /\ \A u \in Tasks : state'[u] = "WAITING" <=>
                            (st[u] = "WAITING" /\ u # current')
      /\ \A u \in Tasks : /\ state'[u] = "READY"
                               => passed'[u] + Distance(u)' <= task_count
                          /\ state'[u] = "RUNNING" => passed'[u] = 0
  BY <1>1, <1>2, <1>3, ScheduleStep DEF st
<1>5. pc' = [pc EXCEPT ![t] = "wait"]
  BY DEF GetCharWaits
<1>6. TypeOK'
  BY <1>4, <1>5, SMTT(30) DEF IInv, TypeOK
<1>7. BootInv' /\ PlaceInv'
  <2>1. Booted' /\ task_count' = task_count
    BY <1>4 DEF Booted
  <2>2. pc'[0] = pc[0] /\ pc'[t] = "wait" /\ \A u \in Slots \ {t} : pc'[u] = pc[u]
    BY <1>5, <1>a DEF IInv, TypeOK, SchedulerAssumption
  <2> QED BY <2>1, <2>2, <1>2 DEF IInv, BootInv, PlaceInv
<1>8. SoleRunner' /\ BypassInv'
  BY <1>4 DEF SoleRunner, BypassInv
<1>9. WaitersParked'
  <2>1. \A u \in Tasks : st[u] = "WAITING" <=> (u = t \/ state[u] = "WAITING")
    BY <1>1 DEF st, IInv, TypeOK
  <2>2. \A u \in Tasks : pc'[u] = "wait" <=> (u = t \/ pc[u] = "wait")
    BY <1>5 DEF IInv, TypeOK
  <2> QED BY <1>1, <1>4, <2>1, <2>2 DEF WaitersParked, IInv
<1> QED BY <1>6, <1>7, <1>8, <1>9 DEF IInv

(* tasking_init fills the table before the first switch. *)
LEMMA BootStep == ASSUME SchedulerAssumption, IInv, TaskingInit PROVE IInv'
<1> USE RegisteredType DEF Slots, Tasks, States, Places
<1>1. /\ ~Booted /\ Booted' /\ task_count' = Registered /\ current' = 0
      /\ state' = [t \in Slots |-> IF t < Registered THEN "READY" ELSE state[t]]
      /\ UNCHANGED <<keys, typed, passed>>
  BY DEF TaskingInit, Booted, IInv, TypeOK, PlaceInv
<1>2. PICK next \in {"stream", "stuck"} :
         /\ pc' = [pc EXCEPT ![0] = next]
         /\ Registered < 3 => next = "stuck"
  BY DEF TaskingInit
<1>3. TypeOK' /\ BootInv' /\ PlaceInv'
  BY <1>1, <1>2 DEF IInv, TypeOK, BootInv, PlaceInv, Booted
<1>4. SoleRunner' /\ WaitersParked'
  BY <1>1, <1>2, <1>3 DEF IInv, TypeOK, PlaceInv, SoleRunner, WaitersParked
<1>5. BypassInv'
  BY <1>1, <1>3 DEF IInv, TypeOK, BootInv, BypassInv, Distance
<1> QED BY <1>3, <1>4, <1>5 DEF IInv

(* The prompt at boot: get_char in the main thread, with an empty table. *)
LEMMA PromptStep ==
  ASSUME SchedulerAssumption, IInv, ~Booted, NEW t \in Slots, TaskStep(t)
  PROVE  IInv'
<1> USE RegisteredType DEF Slots, Tasks, States, Places
<1>1. t = 0 /\ current = 0 /\ task_count = 0 /\ pc[0] \in {"boot", "poll", "wait"}
  BY DEF IInv, TypeOK, BootInv, PlaceInv, Booted, TaskStep, TaskYield, TaskStuck,
         EnterGetChar, GetCharTakes, GetCharWaits, GetCharResumes, OnCPU
<1>2. /\ UNCHANGED <<task_count, current, typed, passed>>
      /\ keys' \in 0 .. typed
      /\ state' \in [Slots -> States]
      /\ \E p \in {"boot", "poll", "wait"} : pc' = [pc EXCEPT ![0] = p]
  BY <1>1, SMTT(30) DEF IInv, TypeOK, TaskStep, TaskYield, TaskStuck, EnterGetChar,
              GetCharTakes, GetCharWaits, GetCharResumes, Caller, Schedule
<1>3. ~Booted'
  BY <1>1, <1>2 DEF Booted
<1>4. TypeOK' /\ BootInv' /\ PlaceInv'
  BY <1>1, <1>2, <1>3, SMTT(30) DEF IInv, TypeOK, BootInv, PlaceInv
<1> QED BY <1>3, <1>4 DEF IInv, SoleRunner, WaitersParked, BypassInv

LEMMA IInvStep == ASSUME SchedulerAssumption, IInv, [Next]_vars PROVE IInv'
<1> USE RegisteredType DEF Slots, Tasks, States, Places
<1>1. CASE TaskingInit
  BY <1>1, BootStep
<1>2. CASE StreamLine \/ StreamEnd
  <2>1. Booted /\ current = 0 /\ pc[current] = "stream"
    BY <1>2 DEF StreamLine, StreamEnd, IInv, PlaceInv
  <2> QED BY <1>2, <2>1, YieldStep DEF StreamLine, StreamEnd
<1>3. CASE StreamSpins \/ Handover
  <2> USE <1>3 DEF IInv, StreamSpins, Handover
  <2>1. TypeOK' /\ BootInv' /\ PlaceInv'
    <3>1. /\ current = 0 /\ pc' = [pc EXCEPT ![0] = "stuck"] /\ 0 \in Slots
          /\ pc[0] \in {"stream", "handover"}
          /\ UNCHANGED <<task_count, current, state, keys, typed, passed>>
      BY DEF TypeOK
    <3>2. TypeOK'
      BY <3>1 DEF TypeOK
    <3>3. pc'[0] = "stuck" /\ (Booted' <=> Booted) /\ \A u \in Slots \ {0} : pc'[u] = pc[u]
      BY <3>1 DEF TypeOK, Booted
    <3>4. BootInv'
      BY <3>1, <3>3 DEF BootInv, Booted
    <3>5. PlaceInv'
      BY <3>1, <3>3 DEF PlaceInv, Booted
    <3> QED BY <3>2, <3>4, <3>5
  <2>2. SoleRunner' /\ BypassInv'
    <3>1. UNCHANGED <<task_count, current, state, passed>>
      OBVIOUS
    <3> QED BY <3>1 DEF SoleRunner, BypassInv, Booted, Distance
  <2>3. WaitersParked'
    <3>1. \A t \in Tasks : pc'[t] = "wait" <=> pc[t] = "wait"
      BY DEF TypeOK
    <3> QED BY <3>1 DEF WaitersParked, Booted
  <2> QED BY <2>1, <2>2, <2>3
<1>4. ASSUME NEW t \in Slots, Booted, TaskYield(t) PROVE IInv'
  BY <1>4, YieldStep DEF TaskYield, OnCPU
<1>5. ASSUME NEW t \in Slots, Booted,
             TaskStuck(t) \/ EnterGetChar(t) \/ GetCharTakes(t)
      PROVE  IInv'
  <2> USE <1>5 DEF IInv, TaskStuck, EnterGetChar, GetCharTakes, OnCPU
  <2>1. /\ t = current /\ t # 0
        /\ keys' \in 0 .. typed
        /\ UNCHANGED <<task_count, current, state, typed, passed>>
        /\ pc[t] # "wait"
        /\ \E p \in {"run", "poll", "stuck"} : pc' = [pc EXCEPT ![t] = p]
    BY SMTT(30) DEF PlaceInv, TypeOK, Caller
  <2>2. TypeOK' /\ BootInv' /\ PlaceInv'
    BY <2>1 DEF TypeOK, BootInv, PlaceInv, Booted
  <2>3. SoleRunner' /\ WaitersParked' /\ BypassInv'
    BY <2>1 DEF TypeOK, SoleRunner, WaitersParked, BypassInv, Booted, Distance
  <2> QED BY <2>2, <2>3
<1>6. ASSUME NEW t \in Slots, Booted, GetCharWaits(t) PROVE IInv'
  BY <1>6, WaitStep
<1>7. ASSUME NEW t \in Slots, Booted, GetCharResumes(t) PROVE IInv'
  <2> USE <1>7 DEF IInv, GetCharResumes, OnCPU
  <2>1. t # 0 /\ state[t] = "RUNNING" /\ state' = state
    BY DEF SoleRunner, PlaceInv, TypeOK
  <2>2. TypeOK' /\ BootInv' /\ PlaceInv'
    BY <2>1 DEF TypeOK, BootInv, PlaceInv, Booted
  <2>3. SoleRunner' /\ WaitersParked' /\ BypassInv'
    BY <2>1 DEF TypeOK, SoleRunner, WaitersParked, BypassInv, Booted, Distance
  <2> QED BY <2>2, <2>3
<1>8. CASE KeyPress
  <2> USE <1>8 DEF IInv, KeyPress
  <2>1. TypeOK' /\ BootInv' /\ PlaceInv'
    BY DEF TypeOK, BootInv, PlaceInv, Booted, SchedulerAssumption
  <2>2. SoleRunner' /\ WaitersParked' /\ BypassInv'
    BY DEF SoleRunner, WaitersParked, BypassInv, Booted, Distance
  <2> QED BY <2>1, <2>2
<1>9. CASE UNCHANGED vars
  BY <1>9 DEF vars, IInv, TypeOK, BootInv, PlaceInv, SoleRunner,
              WaitersParked, BypassInv, Booted, Distance
<1>10. ASSUME NEW t \in Slots, TaskStep(t) PROVE IInv'
  BY <1>4, <1>5, <1>6, <1>7, <1>10, PromptStep DEF TaskStep
<1> QED BY <1>1, <1>2, <1>3, <1>8, <1>9, <1>10 DEF Next, CpuStep, MainStep
-----------------------------------------------------------------------------
(* The inductive invariant holds in every reachable state. *)
LEMMA Inductive == ASSUME SchedulerAssumption PROVE Spec => []IInv
<1>1. Init => IInv
  BY InitIInv
<1>2. IInv /\ [Next]_vars => IInv'
  BY IInvStep
<1> QED BY <1>1, <1>2, PTL DEF Spec

(* Every variable keeps its type: current stays in the table, and no more  *)
(* tasks are registered than it has slots.                                 *)
THEOREM TypeCorrect == ASSUME SchedulerAssumption PROVE Spec => []TypeOK
<1>1. IInv => TypeOK
  BY DEF IInv
<1> QED BY <1>1, Inductive, PTL

(* At most one task is RUNNING and it is the one on the CPU. *)
THEOREM SoleRunnerHolds == ASSUME SchedulerAssumption PROVE Spec => []SoleRunner
<1>1. IInv => SoleRunner
  BY DEF IInv
<1> QED BY <1>1, Inductive, PTL

(* A task is WAITING exactly while it is parked in the yield of get_char. *)
THEOREM WaitersParkedHolds ==
  ASSUME SchedulerAssumption PROVE Spec => []WaitersParked
<1>1. IInv => WaitersParked
  BY DEF IInv
<1> QED BY <1>1, Inductive, PTL

(* With n registered tasks a READY task is passed by fewer than n times    *)
(* before it runs, for every n and every behaviour of the other tasks.     *)
THEOREM BoundedBypassHolds ==
  ASSUME SchedulerAssumption PROVE Spec => []BoundedBypass
<1>1. ASSUME IInv PROVE BoundedBypass
  <2>1. SUFFICES ASSUME Booted, NEW t \in Tasks, state[t] = "READY"
                 PROVE  passed[t] < task_count
    BY DEF BoundedBypass
  <2>2. passed[t] + Distance(t) <= task_count
    BY <1>1, <2>1 DEF IInv, BypassInv
  <2>3. t \in Slots /\ t < task_count /\ task_count \in Nat
    BY <1>1, RegisteredType DEF IInv, TypeOK, Tasks, Slots
  <2>4. passed[t] \in Int /\ current \in Nat /\ current < task_count /\ t \in Nat
    BY <1>1, <2>1, <2>3 DEF IInv, TypeOK, Booted, Slots
  <2>5. Distance(t) \in Nat /\ Distance(t) >= 1
    BY <2>3, <2>4 DEF Distance
  <2> QED BY <2>2, <2>3, <2>4, <2>5
<1> QED BY <1>1, Inductive, PTL
=============================================================================
