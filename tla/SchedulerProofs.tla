--------------------------- MODULE SchedulerProofs ---------------------------
(* Type correctness, the one-running-task invariant, unique ids, strict       *)
(* round robin and fair shares, for every table size, quantum and set of ids. *)
EXTENDS Scheduler, FiniteSetTheorems, WellFoundedInduction, TLAPS

IInv == TypeOK /\ OneRunning /\ UniqueIds

\* The ticks of the quantum under way.
Used == ticks % SB_SCHED_QUANTUM_TICKS

\* What every task has had when a round begins.
Round == runtime_ticks[current_index] - Used

\* Task i has had its turn in the round that began with task s.
Served(s, i) ==
  IF s <= current_index THEN s <= i /\ i < current_index
  ELSE s <= i \/ i < current_index

FairFrom(s) ==
  \A i \in (0 .. task_count - 1) \ {current_index} :
    runtime_ticks[i] = IF Served(s, i) THEN Round + SB_SCHED_QUANTUM_TICKS ELSE Round

\* Rounds are played in turn, and no runtime is ahead of the clock.
FairInv ==
  /\ ~ irq_enabled => ticks = 0
  /\ \A i \in Slots : runtime_ticks[i] <= ticks
  /\ task_count > 1 => \E s \in 0 .. task_count - 1 : FairFrom(s)

----------------------------------------------------------------------------
(* Arithmetic *)

\* A counter that is incremented stays below the value it wraps at.
LEMMA IncrementInRange ==
  ASSUME NEW n \in Nat
  PROVE  Increment(n) \in 0 .. TICK_MOD - 1
  BY TickModAssumption DEF Increment

\* The candidate of every step of the search is a task of the table.
LEMMA CandidateInTable ==
  ASSUME TypeOK, NEW s \in Nat
  PROVE  Candidate(s) \in 0 .. task_count - 1
  BY MaxTasksAssumption DEF TypeOK, Candidate

----------------------------------------------------------------------------
(* The search *)

\* Every task of the table can run, so the search stops at the first step.
LEMMA PickIsSuccessor ==
  ASSUME IInv, scheduler_pick_next
  PROVE  SwitchTo(Candidate(1))
<1>1. \A s \in 1 .. task_count : Runnable(state, Candidate(s))
  <2> TAKE s \in 1 .. task_count
  <2>1. Candidate(s) \in 0 .. task_count - 1
    BY CandidateInTable DEF IInv
  <2>2. Candidate(s) \in Slots
    BY <2>1, MaxTasksAssumption DEF IInv, TypeOK, Slots
  <2> QED
    BY <2>1, <2>2 DEF IInv, TypeOK, OneRunning, Runnable
<1>2. 1 \in 1 .. task_count
  BY DEF IInv, TypeOK
<1>3. PICK s \in 1 .. task_count :
        /\ \A r \in 1 .. s - 1 : ~ Runnable(state, Candidate(r))
        /\ SwitchTo(Candidate(s))
  BY Zenon, <1>1, <1>2 DEF scheduler_pick_next
<1>4. s = 1
  <2> SUFFICES ASSUME s # 1 PROVE FALSE
    OBVIOUS
  <2>1. 1 \in 1 .. s - 1
    BY DEF IInv, TypeOK
  <2> QED
    BY Zenon, <1>1, <1>2, <1>3, <2>1
<1> QED
  BY Zenon, <1>3, <1>4

\* Handing the processor to a task of the table keeps one task RUNNING.
LEMMA SwitchInv ==
  ASSUME IInv, NEW c \in 0 .. task_count - 1, SwitchTo(c),
         UNCHANGED table_vars
  PROVE  /\ state' \in [Slots -> States]
         /\ current_index' \in 0 .. task_count' - 1
         /\ OneRunning'
         /\ UniqueIds'
<1>1. c \in Slots /\ current_index \in Slots
  BY MaxTasksAssumption DEF IInv, TypeOK, Slots
<1>2. state' = [state EXCEPT ![current_index] = "READY", ![c] = "RUNNING"]
  BY Zenon DEF SwitchTo
<1>3. current_index' = c /\ task_count' = task_count /\ id' = id
  BY Zenon DEF SwitchTo, table_vars
<1>4. state' \in [Slots -> States]
  BY Zenon, <1>1, <1>2 DEF IInv, TypeOK, States
<1>5. OneRunning'
  <2> SUFFICES ASSUME NEW i \in Slots
               PROVE  state'[i] = IF i = c THEN "RUNNING"
                                  ELSE IF i < task_count THEN "READY" ELSE "UNUSED"
    BY Zenon, <1>3 DEF OneRunning
  <2>1. state'[i] = IF i = c THEN "RUNNING"
                    ELSE IF i = current_index THEN "READY" ELSE state[i]
    BY Zenon, <1>1, <1>2 DEF IInv, TypeOK
  <2> QED
    BY <2>1 DEF IInv, OneRunning, TypeOK
<1> QED
  BY Zenon, <1>3, <1>4, <1>5 DEF IInv, UniqueIds

----------------------------------------------------------------------------
(* The steps *)

\* scheduler_init establishes the invariant.
LEMMA InitInv == Init => IInv
<1> SUFFICES ASSUME Init PROVE IInv
  OBVIOUS
<1>1. 0 \in Slots /\ Slots \subseteq Nat
  BY MaxTasksAssumption DEF Slots
<1>2. TypeOK
  <2>1. id \in [Slots -> Nat] /\ state \in [Slots -> States]
    BY Zenon DEF Init, States, SB_BOOTSTRAP_TASK_ID
  <2>2. 0 \in 0 .. TICK_MOD - 1
    BY TickModAssumption
  <2>3. seen \in [ticks : 0 .. TICK_MOD - 1, process_id : Nat]
    BY Zenon, <2>2 DEF Init
  <2>4. runtime_ticks \in [Slots -> 0 .. TICK_MOD - 1]
    BY Zenon, <2>2 DEF Init
  <2>5. /\ task_count \in 1 .. SB_SCHED_MAX_TASKS
        /\ current_index \in 0 .. task_count - 1
    BY MaxTasksAssumption DEF Init
  <2>6. /\ scheduler_tick_count \in 0 .. TICK_MOD - 1
        /\ ticks \in 0 .. TICK_MOD - 1
        /\ irq_enabled \in BOOLEAN
    BY Zenon, <2>2 DEF Init
  <2> QED
    BY Zenon, <2>1, <2>3, <2>4, <2>5, <2>6 DEF TypeOK
<1>3. OneRunning
  BY <1>1 DEF Init, OneRunning
<1>4. UniqueIds
  BY <1>1 DEF Init, UniqueIds, SB_BOOTSTRAP_TASK_ID
<1> QED
  BY Zenon, <1>2, <1>3, <1>4 DEF IInv

\* Adding a task with a new id keeps it.
LEMMA AddInv ==
  ASSUME IInv, NEW i \in TaskIds, scheduler_add_kernel_task(i)
  PROVE  IInv'
<1> USE DEF scheduler_add_kernel_task
<1>1. i \in Nat /\ i # 0
  BY Zenon, TaskIdsAssumption
<1>2. task_count \in Slots /\ task_count \in Nat /\ task_count # current_index
  BY MaxTasksAssumption DEF IInv, TypeOK, TableFull, Slots
<1>3. TypeOK'
  BY <1>1, <1>2, MaxTasksAssumption, TickModAssumption
  DEF IInv, TypeOK, States, TableFull
<1>4. OneRunning'
  <2> SUFFICES ASSUME NEW k \in Slots
               PROVE  state'[k] = IF k = current_index THEN "RUNNING"
                                  ELSE IF k < task_count + 1 THEN "READY" ELSE "UNUSED"
    BY Zenon DEF OneRunning
  <2>1. state'[k] = IF k = task_count THEN "READY" ELSE state[k]
    BY Zenon, <1>2 DEF IInv, TypeOK
  <2>2. k \in Int
    BY MaxTasksAssumption DEF Slots
  <2> QED
    BY <1>2, <2>1, <2>2 DEF IInv, OneRunning
<1>5. UniqueIds'
  <2> SUFFICES ASSUME NEW j \in 0 .. task_count, NEW k \in 0 .. task_count
               PROVE  id'[j] # 0 /\ (id'[j] = id'[k] => j = k)
    BY <1>2 DEF UniqueIds
  <2>1. \A t \in 0 .. task_count - 1 : t \in Slots /\ id'[t] = id[t] /\ id[t] # i
    <3> TAKE t \in 0 .. task_count - 1
    <3>1. t \in Slots /\ t # task_count
      BY MaxTasksAssumption DEF IInv, TypeOK, Slots
    <3>2. state[t] # "UNUSED"
      BY <3>1 DEF IInv, TypeOK, OneRunning
    <3> QED
      BY Zenon, <1>2, <3>1, <3>2 DEF IInv, TypeOK, IdTaken
  <2>2. id'[task_count] = i
    BY Zenon, <1>2 DEF IInv, TypeOK
  <2> QED
    BY <1>1, <1>2, <2>1, <2>2 DEF IInv, UniqueIds
<1> QED
  BY Zenon, <1>3, <1>4, <1>5 DEF IInv

\* A pick made by the start-up code keeps it.
LEMMA PickInv ==
  ASSUME IInv, PickAtBoot
  PROVE  IInv'
<1>1. Candidate(1) \in 0 .. task_count - 1
  BY Zenon, CandidateInTable DEF IInv
<1>2. SwitchTo(Candidate(1))
  BY Zenon, PickIsSuccessor DEF PickAtBoot
<1> QED
  BY Zenon, <1>1, <1>2, SwitchInv DEF PickAtBoot, IInv, TypeOK, table_vars

\* A timer tick keeps it, whether or not it ends a quantum.
LEMMA TickInv ==
  ASSUME IInv, NEW now \in 0 .. TICK_MOD - 1, TimerTick(now),
         irq_enabled' \in BOOLEAN, UNCHANGED seen
  PROVE  IInv'
<1> USE DEF TimerTick
<1>1. /\ scheduler_tick_count' \in 0 .. TICK_MOD - 1
      /\ runtime_ticks' \in [Slots -> 0 .. TICK_MOD - 1]
  <2>1. \A n \in 0 .. TICK_MOD - 1 : Increment(n) \in 0 .. TICK_MOD - 1
    BY IncrementInRange, TickModAssumption
  <2> QED
    BY Zenon, <2>1 DEF Charge, IInv, TypeOK
<1>2. /\ state' \in [Slots -> States]
      /\ current_index' \in 0 .. task_count' - 1
      /\ OneRunning'
      /\ UniqueIds'
  <2>1. CASE UNCHANGED <<state, current_index>>
    BY Zenon, <2>1 DEF IInv, TypeOK, OneRunning, UniqueIds, table_vars
  <2>2. CASE scheduler_pick_next
    <3>1. Candidate(1) \in 0 .. task_count - 1
      BY Zenon, CandidateInTable DEF IInv
    <3> QED
      BY Zenon, <2>2, <3>1, PickIsSuccessor, SwitchInv
  <2> QED
    BY Zenon, <2>1, <2>2
<1> QED
  BY Zenon, <1>1, <1>2 DEF IInv, TypeOK, table_vars

\* Every step keeps the invariant.
LEMMA StepInv == IInv /\ [Next]_vars => IInv'
<1> SUFFICES ASSUME IInv, [Next]_vars PROVE IInv'
  OBVIOUS
<1>1. CASE \E i \in TaskIds : scheduler_add_kernel_task(i)
  BY Zenon, <1>1, AddInv
<1>2. CASE PickAtBoot
  BY Zenon, <1>2, PickInv
<1>3. CASE timer_init
  <2>1. 1 \in 0 .. TICK_MOD - 1
    BY TickModAssumption
  <2> QED
    BY Zenon, <1>3, <2>1, TickInv DEF timer_init
<1>4. CASE sb_timer_tick
  <2>1. NextTicks \in 0 .. TICK_MOD - 1
    BY IncrementInRange, TickModAssumption DEF NextTicks, IInv, TypeOK
  <2> QED
    BY Zenon, <1>4, <2>1, TickInv DEF sb_timer_tick, IInv, TypeOK
<1>5. CASE SB_SYS_GET_TICKS
  BY Zenon, <1>5 DEF SB_SYS_GET_TICKS, IInv, TypeOK, OneRunning, UniqueIds, table_vars
<1>6. CASE SB_SYS_PROCESS_ID
  <2>1. id[current_index] \in Nat
    BY MaxTasksAssumption DEF IInv, TypeOK, Slots
  <2> QED
    BY Zenon, <1>6, <2>1
    DEF SB_SYS_PROCESS_ID, IInv, TypeOK, OneRunning, UniqueIds, table_vars
<1>7. CASE UNCHANGED vars
  BY Zenon, <1>7 DEF vars, IInv, TypeOK, OneRunning, UniqueIds
<1> QED
  BY Zenon, <1>1, <1>2, <1>3, <1>4, <1>5, <1>6, <1>7 DEF Next

\* The invariant holds in every reachable state.
LEMMA Invariance == Spec => []IInv
  BY InitInv, StepInv, PTL DEF Spec

----------------------------------------------------------------------------
(* Fair shares *)

\* The next tick adds one to the quantum under way, or ends it.
LEMMA NextUsed ==
  ASSUME NEW n \in Nat, NEW q \in Nat \ {0}
  PROVE  /\ n % q \in 0 .. q - 1
         /\ (n + 1) % q = IF (n % q) + 1 = q THEN 0 ELSE (n % q) + 1
<1>1. PICK a \in Nat, b \in 0 .. q - 1 : n = q * a + b /\ n % q = b
  <2>1. n \div q \in Nat /\ n % q \in 0 .. q - 1 /\ n = q * (n \div q) + (n % q)
    OBVIOUS
  <2> QED
    BY Zenon, <2>1
<1>2. PICK c \in Nat, d \in 0 .. q - 1 : n + 1 = q * c + d /\ (n + 1) % q = d
  <2>1. /\ (n + 1) \div q \in Nat /\ (n + 1) % q \in 0 .. q - 1
        /\ n + 1 = q * ((n + 1) \div q) + ((n + 1) % q)
    OBVIOUS
  <2> QED
    BY Zenon, <2>1
<1>3. PICK k \in Int : k = c - a
  OBVIOUS
<1>4. q * k = b + 1 - d
  BY <1>1, <1>2, <1>3
<1>5. k \in {0, 1}
  <2>1. k >= 2 => q * k >= 2 * q
    OBVIOUS
  <2>2. k <= -1 => q * k <= -q
    OBVIOUS
  <2> QED
    BY <1>4, <2>1, <2>2
<1>6. k = 0 => d = b + 1
  BY <1>4
<1>7. k = 1 => d = 0 /\ b + 1 = q
  BY <1>4
<1> QED
  BY <1>1, <1>2, <1>5, <1>6, <1>7

\* A tick is charged to the task that used it, and the processor goes on.
LEMMA TickFair ==
  ASSUME IInv, FairInv, TimerTick(ticks + 1), ticks + 1 < TICK_MOD, irq_enabled'
  PROVE  FairInv'
<1> DEFINE Q == SB_SCHED_QUANTUM_TICKS
           c == current_index
           n == task_count
<1>1. /\ Q \in Nat \ {0} /\ n \in Nat /\ n >= 1 /\ c \in 0 .. n - 1 /\ c \in Slots /\ ticks \in Nat
      /\ 0 .. n - 1 \subseteq Slots
      /\ \A i \in Slots : runtime_ticks[i] \in Nat /\ runtime_ticks[i] <= ticks
  BY QuantumAssumption, MaxTasksAssumption, TickModAssumption DEF IInv, TypeOK, FairInv, Slots
<1>2. ticks' = ticks + 1 /\ n' = n
  BY Zenon DEF TimerTick, table_vars
<1>3. Increment(runtime_ticks[c]) = runtime_ticks[c] + 1
  BY <1>1, TickModAssumption DEF Increment
<1>4. /\ runtime_ticks'[c] = runtime_ticks[c] + 1
      /\ \A i \in Slots : i # c => runtime_ticks'[i] = runtime_ticks[i]
  BY Zenon, <1>1, <1>3 DEF TimerTick, Charge, IInv, OneRunning, TypeOK
<1>5. \A i \in Slots : runtime_ticks'[i] <= ticks'
  BY <1>1, <1>2, <1>4
<1>6. Used \in 0 .. Q - 1 /\ Used' = IF Used + 1 = Q THEN 0 ELSE Used + 1
  BY Zenon, <1>1, <1>2, NextUsed DEF Used
<1>7. ASSUME n > 1 PROVE \E s \in 0 .. n - 1 : FairFrom(s)'
  <2>1. PICK s \in 0 .. n - 1 : FairFrom(s)
    BY Zenon, <1>7 DEF FairInv
  <2>2. Round \in Int /\ Round = runtime_ticks[c] - Used
    BY <1>1, <1>6 DEF Round
  <2>3. CASE Used + 1 # Q
    <3>1. c' = c
      BY <1>1, <1>6, <1>2, <2>3 DEF TimerTick, Used
    <3>2. Round' = Round
      BY <1>1, <1>4, <1>6, <2>2, <2>3, <3>1 DEF Round
    <3>3. FairFrom(s)'
      BY Zenon, <1>1, <1>2, <1>4, <2>1, <3>1, <3>2 DEF FairFrom, Served
    <3> QED
      BY Zenon, <3>3
  <2>4. CASE Used + 1 = Q
    <3>1. c' = IF c + 1 = n THEN 0 ELSE c + 1
      <4>1. SwitchTo(Candidate(1))
        BY Zenon, <1>6, <1>2, <1>7, <2>4, PickIsSuccessor DEF TimerTick, Used
      <4> QED
        BY <1>1, <4>1 DEF SwitchTo, Candidate
    <3>2. c' \in 0 .. n - 1 /\ c' # c
      BY <1>1, <1>7, <3>1
    <3>3. Round' = runtime_ticks[c'] /\ runtime_ticks'[c] = Round + Q
      BY <1>1, <1>4, <1>6, <2>2, <2>4, <3>2 DEF Round
    <3>4. CASE c' # s
      <4>1. ~ Served(s, c')
        BY <1>1, <3>1, <3>4 DEF Served
      <4>2. Round' = Round
        BY Zenon, <2>1, <3>2, <3>3, <4>1 DEF FairFrom
      <4>3. \A i \in 0 .. n - 1 : i # c' => (Served(s, i)' <=> Served(s, i) \/ i = c)
        BY <1>1, <3>1, <3>4 DEF Served
      <4>4. FairFrom(s)'
        BY Zenon, <1>1, <1>2, <1>4, <2>1, <3>2, <3>3, <4>2, <4>3 DEF FairFrom
      <4> QED
        BY Zenon, <4>4
    <3>5. CASE c' = s
      <4>1. \A i \in 0 .. n - 1 : i # c => Served(s, i)
        BY <1>1, <1>7, <3>1, <3>5 DEF Served
      <4>2. Round' = Round + Q
        BY Zenon, <2>1, <3>2, <3>3, <4>1 DEF FairFrom
      <4>3. \A i \in 0 .. n - 1 : ~ Served(s, i)'
        BY <3>5 DEF Served
      <4>4. FairFrom(s)'
        BY Zenon, <1>1, <1>2, <1>4, <2>1, <3>2, <3>3, <4>1, <4>2, <4>3 DEF FairFrom
      <4> QED
        BY Zenon, <4>4
    <3> QED
      BY Zenon, <3>4, <3>5
  <2> QED
    BY Zenon, <2>3, <2>4
<1> QED
  BY Zenon, <1>2, <1>5, <1>7 DEF FairInv

\* The start-up code charges nobody.
LEMMA BootFair ==
  ASSUME IInv, IInv', FairInv, ~ irq_enabled, UNCHANGED <<irq_enabled, ticks>>,
         \A i \in Slots : runtime_ticks'[i] \in {0, runtime_ticks[i]}
  PROVE  FairInv'
<1>1. \A i \in Slots : runtime_ticks'[i] = 0
  BY TickModAssumption DEF FairInv, IInv, TypeOK
<1>2. Used' = 0 /\ 0 .. task_count' - 1 \subseteq Slots /\ current_index' \in 0 .. task_count' - 1
  <2>1. ticks' = 0 /\ 0 % SB_SCHED_QUANTUM_TICKS = 0
    BY QuantumAssumption DEF FairInv
  <2>2. Used' = 0
    BY Zenon, <2>1 DEF Used
  <2>3. 0 .. task_count' - 1 \subseteq Slots /\ current_index' \in 0 .. task_count' - 1
    <3>1. task_count' \in 1 .. SB_SCHED_MAX_TASKS /\ current_index' \in 0 .. task_count' - 1
      BY Zenon DEF IInv, TypeOK
    <3>2. PICK n \in 1 .. SB_SCHED_MAX_TASKS : n = task_count'
      BY Zenon, <3>1
    <3>3. 0 .. n - 1 \subseteq Slots
      BY MaxTasksAssumption DEF Slots
    <3> QED
      BY Zenon, <3>1, <3>2, <3>3
  <2> QED
    BY Zenon, <2>2, <2>3
<1>3. Round' = 0
  BY <1>1, <1>2 DEF Round
<1>4. PICK s \in 0 .. task_count' - 1 : s = current_index'
  BY Zenon, <1>2
<1>5. \A i \in 0 .. task_count' - 1 : ~ Served(s, i)'
  BY <1>2, <1>4 DEF Served
<1>6. FairFrom(s)'
  BY Zenon, <1>1, <1>2, <1>3, <1>5 DEF FairFrom
<1> QED
  BY <1>1, <1>4, <1>6 DEF FairInv

\* Every step keeps the shares fair while the counters do not wrap.
LEMMA StepFair ==
  ASSUME MAX_TICKS \in Nat, MAX_TICKS < TICK_MOD, IInv, IInv', FairInv, [Next]_vars
  PROVE  FairInv'
<1>1. ASSUME NEW i \in TaskIds, scheduler_add_kernel_task(i) PROVE FairInv'
  <2>1. \A j \in Slots : runtime_ticks'[j] \in {0, runtime_ticks[j]}
    BY Zenon, <1>1 DEF scheduler_add_kernel_task, IInv, TypeOK
  <2> QED
    BY Zenon, <1>1, <2>1, BootFair DEF scheduler_add_kernel_task
<1>2. CASE PickAtBoot
  BY Zenon, <1>2, BootFair DEF PickAtBoot
<1>3. CASE timer_init
  <2>1. ticks = 0
    BY Zenon, <1>3 DEF timer_init, FairInv
  <2>2. TimerTick(ticks + 1)
    BY <1>3, <2>1 DEF timer_init
  <2> QED
    BY <1>3, <2>1, <2>2, TickFair, TickModAssumption DEF timer_init
<1>4. CASE sb_timer_tick
  <2>1. ticks \in Nat /\ ticks + 1 < TICK_MOD
    BY <1>4, TickModAssumption DEF sb_timer_tick, IInv, TypeOK
  <2>2. NextTicks = ticks + 1
    BY <2>1, TickModAssumption DEF NextTicks, Increment
  <2> QED
    BY Zenon, <1>4, <2>1, <2>2, TickFair DEF sb_timer_tick
<1>5. CASE SB_SYS_GET_TICKS \/ SB_SYS_PROCESS_ID \/ UNCHANGED vars
  <2>1. UNCHANGED <<irq_enabled, ticks, runtime_ticks, task_count, current_index>>
    BY Zenon, <1>5 DEF SB_SYS_GET_TICKS, SB_SYS_PROCESS_ID, vars, table_vars
  <2> QED
    BY Zenon, <2>1 DEF FairInv, FairFrom, Served, Round, Used
<1> QED
  BY Zenon, <1>1, <1>2, <1>3, <1>4, <1>5 DEF Next

----------------------------------------------------------------------------
(* Sums of runtimes.  Induction is over the sets of numbers with a property:   *)
(* a set of naturals that is not empty has a least element.                    *)

\* The least element of a set of naturals.
LEMMA LeastNumber ==
  ASSUME NEW T, T \subseteq Nat, T # {}
  PROVE  \E x \in T : \A y \in T : x <= y
<1> DEFINE R == OpToRel(<, Nat)
<1>1. IsWellFoundedOn(R, Nat)
  BY Zenon, NatLessThanWellFounded
<1>2. \A x, y \in Nat : x < y => <<x, y>> \in R
  BY Zenon DEF OpToRel
<1> HIDE DEF R
<1>3. PICK x \in T : \A y \in T : ~ (<<y, x>> \in R)
  BY Zenon, <1>1, WFMin
<1>4. ASSUME NEW y \in T PROVE x <= y
  <2>1. x \in Nat /\ y \in Nat
    OBVIOUS
  <2>2. ~ (y < x)
    BY Zenon, <1>2, <1>3, <2>1
  <2> QED
    BY <2>1, <2>2
<1> QED
  BY Zenon, <1>4

\* A set that has 0 and, with a number, the next one, has all of them.
LEMMA SetInduction ==
  ASSUME NEW T, 0 \in T, \A n \in Nat : n \in T => n + 1 \in T
  PROVE  Nat \subseteq T
<1> SUFFICES ASSUME Nat \ T # {} PROVE FALSE
  OBVIOUS
<1>1. PICK x \in Nat \ T : \A y \in Nat \ T : x <= y
  BY Zenon, LeastNumber
<1>2. x # 0 /\ x - 1 \in Nat
  OBVIOUS
<1>3. x - 1 \in T
  BY <1>1, <1>2
<1> QED
  BY <1>2, <1>3

\* One step of the recursion of SumFunction.
PickOf(s) == CHOOSE x \in s : TRUE
SumStep(f, g, s) == IF s = {} THEN 0 ELSE f[PickOf(s)] + g[s \ {PickOf(s)}]
IsSum(f, S, g) == g = [s \in SUBSET S |-> SumStep(f, g, s)]

\* The step goes to a smaller set.
LEMMA SmallerSet ==
  ASSUME NEW S, IsFiniteSet(S)
  PROVE  \A s \in SUBSET S :
           /\ Cardinality(s) \in Nat /\ (Cardinality(s) = 0 <=> s = {})
           /\ s # {} => /\ PickOf(s) \in s /\ PickOf(s) \in S
                        /\ s \ {PickOf(s)} \in SUBSET S
                        /\ Cardinality(s \ {PickOf(s)}) = Cardinality(s) - 1
<1> SUFFICES ASSUME NEW s \in SUBSET S
             PROVE  /\ Cardinality(s) \in Nat /\ (Cardinality(s) = 0 <=> s = {})
                    /\ s # {} => /\ PickOf(s) \in s /\ PickOf(s) \in S
                                 /\ s \ {PickOf(s)} \in SUBSET S
                                 /\ Cardinality(s \ {PickOf(s)}) = Cardinality(s) - 1
  OBVIOUS
<1>1. IsFiniteSet(s)
  BY Zenon, FS_Subset
<1>2. s # {} => PickOf(s) \in s /\ PickOf(s) \in S /\ s \ {PickOf(s)} \in SUBSET S
  BY Zenon DEF PickOf
<1>3. Cardinality(s) \in Nat /\ (Cardinality(s) = 0 <=> s = {})
  BY Zenon, <1>1, FS_CardinalityType, FS_EmptySet
<1>4. s # {} => Cardinality(s \ {PickOf(s)}) = Cardinality(s) - 1
  BY Zenon, <1>1, <1>2, FS_RemoveElement
<1> QED
  BY Zenon, <1>2, <1>3, <1>4

\* The recursion has a solution.
LEMMA SumExists ==
  ASSUME NEW S, IsFiniteSet(S), NEW f \in [S -> Int]
  PROVE  \E g \in [SUBSET S -> Int] : IsSum(f, S, g)
<1> DEFINE Solves(g, n) == \A s \in SUBSET S : Cardinality(s) <= n => g[s] = SumStep(f, g, s)
           T == {n \in Nat : \E g \in [SUBSET S -> Int] : Solves(g, n)}
<1>0. /\ \A s \in SUBSET S : Cardinality(s) \in Nat /\ (Cardinality(s) = 0 <=> s = {})
      /\ \A s \in SUBSET S : s # {} => /\ PickOf(s) \in s /\ PickOf(s) \in S
                                       /\ s \ {PickOf(s)} \in SUBSET S
                                       /\ Cardinality(s \ {PickOf(s)}) = Cardinality(s) - 1
  BY Zenon, SmallerSet
<1>1. 0 \in T
  <2> DEFINE z == [s \in SUBSET S |-> 0]
  <2>1. z \in [SUBSET S -> Int]
    OBVIOUS
  <2>2. \A s \in SUBSET S : Cardinality(s) <= 0 => s = {}
    BY <1>0
  <2>3. Solves(z, 0)
    BY Zenon, <2>2 DEF SumStep
  <2> QED
    BY Zenon, <2>1, <2>3
<1>2. ASSUME NEW n \in Nat, n \in T PROVE n + 1 \in T
  <2>1. PICK g \in [SUBSET S -> Int] : Solves(g, n)
    BY Zenon, <1>2
  <2> DEFINE h == [s \in SUBSET S |-> SumStep(f, g, s)]
  <2>2. h \in [SUBSET S -> Int]
    <3>1. ASSUME NEW s \in SUBSET S PROVE SumStep(f, g, s) \in Int
      <4>1. CASE s = {}
        BY <4>1 DEF SumStep
      <4>2. CASE s # {}
        <5>1. f[PickOf(s)] \in Int /\ g[s \ {PickOf(s)}] \in Int
          BY Zenon, <1>0, <4>2
        <5> QED
          BY <4>2, <5>1 DEF SumStep
      <4> QED
        BY Zenon, <4>1, <4>2
    <3> QED
      BY Zenon, <3>1
  <2>3. Solves(h, n + 1)
    <3> SUFFICES ASSUME NEW s \in SUBSET S, Cardinality(s) <= n + 1
                 PROVE  SumStep(f, g, s) = SumStep(f, h, s)
      OBVIOUS
    <3>1. CASE s = {}
      BY Zenon, <3>1 DEF SumStep
    <3>2. CASE s # {}
      <4>0. s \ {PickOf(s)} \in SUBSET S /\ Cardinality(s \ {PickOf(s)}) <= n
        BY <1>0, <3>2
      <4>1. PICK t \in SUBSET S : t = s \ {PickOf(s)} /\ Cardinality(t) <= n
        BY Zenon, <4>0
      <4>2. h[t] = g[t]
        BY Zenon, <2>1, <4>1
      <4> QED
        BY Zenon, <3>2, <4>1, <4>2 DEF SumStep
    <3> QED
      BY Zenon, <3>1, <3>2
  <2> HIDE DEF h
  <2> QED
    BY <2>2, <2>3
<1>3. Cardinality(S) \in Nat
  BY Zenon, FS_CardinalityType
<1>4. Nat \subseteq T
  <2> HIDE DEF T
  <2> QED
    BY Zenon, <1>1, <1>2, SetInduction
<1>5. PICK g \in [SUBSET S -> Int] : Solves(g, Cardinality(S))
  BY Zenon, <1>3, <1>4
<1>6. \A s \in SUBSET S : Cardinality(s) <= Cardinality(S)
  BY Zenon, FS_Subset
<1> QED
  BY Zenon, <1>5, <1>6 DEF IsSum

\* SumFunction is what the recursion says.
LEMMA SumIs ==
  ASSUME NEW S, IsFiniteSet(S), NEW f \in [S -> Int]
  PROVE  \E g : IsSum(f, S, g) /\ SumFunction(f) = g[S] /\ g \in [SUBSET S -> Int]
<1> DEFINE g == CHOOSE h : IsSum(f, S, h)
<1>1. IsSum(f, S, g)
  BY Zenon, SumExists
<1>2. SumFunction(f) = g[S]
  BY Zenon DEF SumFunction, SumFunctionOnSet, FoldFunctionOnSet, MapThenFoldSet, IsSum, SumStep, PickOf
<1>3. g \in [SUBSET S -> Int]
  <2> DEFINE T == {n \in Nat : \A s \in SUBSET S : Cardinality(s) <= n => g[s] \in Int}
  <2> HIDE DEF g
  <2>0. \A s \in SUBSET S : g[s] = SumStep(f, g, s)
    BY Zenon, <1>1 DEF IsSum
  <2>a. /\ \A s \in SUBSET S : Cardinality(s) \in Nat /\ (Cardinality(s) = 0 <=> s = {})
        /\ \A s \in SUBSET S : s # {} => /\ PickOf(s) \in S /\ s \ {PickOf(s)} \in SUBSET S
                                         /\ Cardinality(s \ {PickOf(s)}) = Cardinality(s) - 1
    BY Zenon, SmallerSet
  <2>1. 0 \in T
    <3>1. \A s \in SUBSET S : Cardinality(s) <= 0 => s = {}
      BY <2>a
    <3>2. g[{}] = 0
      BY Zenon, <2>0 DEF SumStep
    <3> QED
      BY <3>1, <3>2
  <2>2. ASSUME NEW n \in Nat, n \in T PROVE n + 1 \in T
    <3> SUFFICES ASSUME NEW s \in SUBSET S, Cardinality(s) <= n + 1 PROVE g[s] \in Int
      OBVIOUS
    <3>1. CASE s = {}
      BY <2>0, <3>1 DEF SumStep
    <3>2. CASE s # {}
      <4>1. /\ s \ {PickOf(s)} \in SUBSET S /\ Cardinality(s \ {PickOf(s)}) <= n
            /\ f[PickOf(s)] \in Int
        BY <2>a, <3>2
      <4>2. g[s \ {PickOf(s)}] \in Int
        BY Zenon, <2>2, <4>1
      <4>3. g[s] = SumStep(f, g, s)
        BY Zenon, <2>0
      <4>4. g[s] = f[PickOf(s)] + g[s \ {PickOf(s)}]
        BY Zenon, <3>2, <4>3 DEF SumStep
      <4> QED
        BY <4>1, <4>2, <4>4
    <3> QED
      BY Zenon, <3>1, <3>2
  <2>3. Nat \subseteq T
    <3> HIDE DEF T
    <3> QED
      BY Zenon, <2>1, <2>2, SetInduction
  <2>4. \A s \in SUBSET S : g[s] \in Int
    BY <2>3, <2>a
  <2> QED
    BY Zenon, <1>1, <2>4 DEF IsSum
<1> HIDE DEF g
<1> QED
  BY Zenon, <1>1, <1>2, <1>3

\* Changing one runtime changes the sum by as much.
LEMMA SumShift ==
  ASSUME NEW S, IsFiniteSet(S), NEW f \in [S -> Int], NEW h \in [S -> Int], NEW c \in S,
         \A x \in S : x # c => h[x] = f[x]
  PROVE  SumFunction(f) \in Int /\ SumFunction(h) = SumFunction(f) + (h[c] - f[c])
<1>1. PICK g : IsSum(f, S, g) /\ SumFunction(f) = g[S] /\ g \in [SUBSET S -> Int]
  BY Zenon, SumIs
<1>2. PICK k : IsSum(h, S, k) /\ SumFunction(h) = k[S] /\ k \in [SUBSET S -> Int]
  BY Zenon, SumIs
<1> DEFINE D(s) == IF c \in s THEN h[c] - f[c] ELSE 0
           T == {n \in Nat : \A s \in SUBSET S : Cardinality(s) <= n => k[s] = g[s] + D(s)}
<1>0. \A s \in SUBSET S : g[s] = SumStep(f, g, s) /\ k[s] = SumStep(h, k, s) /\ g[s] \in Int
  BY Zenon, <1>1, <1>2 DEF IsSum
<1>a. /\ \A s \in SUBSET S : Cardinality(s) \in Nat /\ (Cardinality(s) = 0 <=> s = {})
      /\ \A s \in SUBSET S : s # {} => /\ PickOf(s) \in s /\ PickOf(s) \in S
                                       /\ s \ {PickOf(s)} \in SUBSET S
                                       /\ Cardinality(s \ {PickOf(s)}) = Cardinality(s) - 1
  BY Zenon, SmallerSet
<1>3. 0 \in T
  <2>1. \A s \in SUBSET S : Cardinality(s) <= 0 => s = {}
    BY <1>a
  <2>2. g[{}] = 0 /\ k[{}] = 0
    BY Zenon, <1>0 DEF SumStep
  <2> QED
    BY <2>1, <2>2
<1>4. ASSUME NEW n \in Nat, n \in T PROVE n + 1 \in T
  <2> SUFFICES ASSUME NEW s \in SUBSET S, Cardinality(s) <= n + 1 PROVE k[s] = g[s] + D(s)
    OBVIOUS
  <2>1. CASE s = {}
    BY <1>0, <2>1 DEF SumStep
  <2>2. CASE s # {}
    <3>1. PICK x \in S, t \in SUBSET S :
            x = PickOf(s) /\ x \in s /\ t = s \ {x} /\ Cardinality(t) <= n
      <4>1. /\ PickOf(s) \in s /\ PickOf(s) \in S /\ s \ {PickOf(s)} \in SUBSET S
            /\ Cardinality(s \ {PickOf(s)}) <= n
        BY <1>a, <2>2
      <4> QED
        BY Zenon, <4>1
    <3>2. k[t] = g[t] + D(t) /\ g[t] \in Int
      BY Zenon, <1>0, <1>4, <3>1
    <3>3. k[s] = h[x] + k[t] /\ g[s] = f[x] + g[t]
      BY Zenon, <1>0, <2>2, <3>1 DEF SumStep
    <3>4. h[x] + D(t) = f[x] + D(s) /\ D(t) \in Int /\ D(s) \in Int
      BY <3>1
    <3> HIDE DEF D
    <3> QED
      BY <3>2, <3>3, <3>4
  <2> QED
    BY Zenon, <2>1, <2>2
<1>5. Nat \subseteq T
  <2> HIDE DEF T
  <2> QED
    BY Zenon, <1>3, <1>4, SetInduction
<1>6. k[S] = g[S] + D(S)
  BY <1>5, FS_CardinalityType
<1> QED
  BY Zenon, <1>0, <1>1, <1>2, <1>6

\* The runtimes of a table nobody ran in add up to nothing.
LEMMA SumOfZeros ==
  ASSUME NEW S, IsFiniteSet(S), NEW f \in [S -> Int], \A x \in S : f[x] = 0
  PROVE  SumFunction(f) = 0
<1>1. PICK g : IsSum(f, S, g) /\ SumFunction(f) = g[S] /\ g \in [SUBSET S -> Int]
  BY Zenon, SumIs
<1> DEFINE T == {n \in Nat : \A s \in SUBSET S : Cardinality(s) <= n => g[s] = 0}
<1>0. \A s \in SUBSET S : g[s] = SumStep(f, g, s)
  BY Zenon, <1>1 DEF IsSum
<1>a. /\ \A s \in SUBSET S : Cardinality(s) \in Nat /\ (Cardinality(s) = 0 <=> s = {})
      /\ \A s \in SUBSET S : s # {} => /\ PickOf(s) \in S /\ s \ {PickOf(s)} \in SUBSET S
                                       /\ Cardinality(s \ {PickOf(s)}) = Cardinality(s) - 1
  BY Zenon, SmallerSet
<1>2. 0 \in T
  <2>1. \A s \in SUBSET S : Cardinality(s) <= 0 => s = {}
    BY <1>a
  <2>2. g[{}] = 0
    BY Zenon, <1>0 DEF SumStep
  <2> QED
    BY Zenon, <2>1, <2>2
<1>3. ASSUME NEW n \in Nat, n \in T PROVE n + 1 \in T
  <2> SUFFICES ASSUME NEW s \in SUBSET S, Cardinality(s) <= n + 1 PROVE g[s] = 0
    OBVIOUS
  <2>1. CASE s = {}
    BY Zenon, <1>0, <2>1 DEF SumStep
  <2>2. CASE s # {}
    <3>1. /\ s \ {PickOf(s)} \in SUBSET S /\ Cardinality(s \ {PickOf(s)}) <= n
          /\ f[PickOf(s)] = 0
      BY <1>a, <2>2
    <3>2. g[s \ {PickOf(s)}] = 0
      BY Zenon, <1>3, <3>1
    <3> QED
      BY <1>0, <2>2, <3>1, <3>2 DEF SumStep
  <2> QED
    BY Zenon, <2>1, <2>2
<1>4. Nat \subseteq T
  <2> HIDE DEF T
  <2> QED
    BY Zenon, <1>2, <1>3, SetInduction
<1> QED
  BY <1>1, <1>4, FS_CardinalityType

\* The table has finitely many slots.
LEMMA SlotsFinite == IsFiniteSet(Slots)
  BY FS_Interval, MaxTasksAssumption DEF Slots

\* Nothing is charged past the end of the table.
AccountInv ==
  /\ RuntimeAccounted
  /\ \A i \in Slots : i >= task_count => runtime_ticks[i] = 0

\* A counter that has not reached its limit counts on or starts again.
LEMMA NextBelow ==
  ASSUME NEW m \in Nat \ {0, 1}, NEW a \in 0 .. m - 1
  PROVE  (a + 1) % m = IF a + 1 = m THEN 0 ELSE a + 1
<1>1. a \in Nat /\ m \in Nat \ {0}
  OBVIOUS
<1>2. (a + 1) % m = IF (a % m) + 1 = m THEN 0 ELSE (a % m) + 1
  BY Zenon, <1>1, NextUsed
<1>3. a % m = a
  OBVIOUS
<1> QED
  BY Zenon, <1>2, <1>3

\* Counting on, and a whole round off, are the same below the round.
LEMMA SumMod ==
  ASSUME NEW s \in Int, NEW m \in Nat \ {0, 1}, NEW t \in Int, t = s + 1 \/ t = s + 1 - m
  PROVE  t % m = ((s % m) + 1) % m
<1>1. PICK q \in Int, b \in 0 .. m - 1 : s = m * q + b /\ s % m = b
  <2>1. s \div m \in Int /\ s % m \in 0 .. m - 1 /\ s = m * (s \div m) + (s % m)
    OBVIOUS
  <2> QED
    BY Zenon, <2>1
<1>2. PICK p \in Int, d \in 0 .. m - 1 : t = m * p + d /\ t % m = d
  <2>1. t \div m \in Int /\ t % m \in 0 .. m - 1 /\ t = m * (t \div m) + (t % m)
    OBVIOUS
  <2> QED
    BY Zenon, <2>1
<1>3. PICK k \in Int : m * k = b + 1 - d
  <2>1. CASE t = s + 1
    <3>1. p - q \in Int /\ m * (p - q) = b + 1 - d
      BY <1>1, <1>2, <2>1
    <3> QED
      BY Zenon, <3>1
  <2>2. CASE t = s + 1 - m
    <3>1. p - q + 1 \in Int /\ m * (p - q + 1) = b + 1 - d
      BY <1>1, <1>2, <2>2
    <3> QED
      BY Zenon, <3>1
  <2> QED
    BY Zenon, <2>1, <2>2
<1>4. k \in {0, 1}
  <2>1. k >= 2 => m * k >= 2 * m
    OBVIOUS
  <2>2. k <= -1 => m * k <= -m
    OBVIOUS
  <2> QED
    BY <1>3, <2>1, <2>2
<1>5. d = IF b + 1 = m THEN 0 ELSE b + 1
  BY <1>3, <1>4
<1>6. (b + 1) % m = IF b + 1 = m THEN 0 ELSE b + 1
  BY Zenon, NextBelow
<1> QED
  BY Zenon, <1>1, <1>2, <1>5, <1>6

\* A tick adds one to the sum, or takes a whole round of a counter off it.
LEMMA TickAccounted ==
  ASSUME IInv, AccountInv, NEW now, TimerTick(now)
  PROVE  AccountInv'
<1>1. /\ current_index \in Slots /\ current_index < task_count /\ task_count' = task_count
      /\ task_count \in Nat /\ current_index \in Nat /\ Slots \subseteq Nat
  BY MaxTasksAssumption DEF IInv, TypeOK, Slots, TimerTick, table_vars
<1>2. PICK m \in Nat \ {0, 1} : m = TICK_MOD
  BY Zenon, TickModAssumption
<1>3. PICK a \in 0 .. m - 1 : a = runtime_ticks[current_index]
  BY Zenon, <1>1, <1>2 DEF IInv, TypeOK
<1>4. runtime_ticks' = [runtime_ticks EXCEPT ![current_index] = (a + 1) % m]
  BY Zenon, <1>1, <1>2, <1>3 DEF IInv, OneRunning, TimerTick, Charge, Increment
<1>5. (a + 1) % m = IF a + 1 = m THEN 0 ELSE a + 1
  BY Zenon, NextBelow
<1>6. runtime_ticks \in [Slots -> Int] /\ runtime_ticks' \in [Slots -> Int]
  BY <1>1, <1>2, <1>4, <1>5 DEF IInv, TypeOK
<1>7. PICK s \in Int, t \in Int :
        /\ s = SumFunction(runtime_ticks) /\ t = SumFunction(runtime_ticks')
        /\ t = IF a + 1 = m THEN s + 1 - m ELSE s + 1
  <2>1. \A x \in Slots : x # current_index => runtime_ticks'[x] = runtime_ticks[x]
    BY Zenon, <1>4, <1>6
  <2>2. runtime_ticks'[current_index] = (a + 1) % m
    BY Zenon, <1>1, <1>4, <1>6
  <2>3. PICK f \in [Slots -> Int], h \in [Slots -> Int], c \in Slots :
          f = runtime_ticks /\ h = runtime_ticks' /\ c = current_index
    BY Zenon, <1>1, <1>6
  <2>4. /\ SumFunction(f) \in Int
        /\ SumFunction(h) = SumFunction(f) + (h[c] - f[c])
    BY <2>1, <2>3, SlotsFinite, SumShift
  <2>5. SumFunction(f) = SumFunction(runtime_ticks) /\ SumFunction(h) = SumFunction(runtime_ticks')
    BY Zenon, <2>3
  <2>6. h[c] - f[c] = IF a + 1 = m THEN 1 - m ELSE 1
    BY <1>3, <1>5, <2>2, <2>3
  <2> QED
    BY <2>4, <2>5, <2>6
<1>8. t % m = ((s % m) + 1) % m
  BY Zenon, <1>2, <1>3, <1>7, SumMod
<1>9. RuntimeAccounted'
  <2>1. s % m = scheduler_tick_count
    BY Zenon, <1>2, <1>7 DEF AccountInv, RuntimeAccounted
  <2>2. scheduler_tick_count' = (scheduler_tick_count + 1) % m
    BY Zenon, <1>2 DEF TimerTick, Increment
  <2> QED
    BY Zenon, <1>2, <1>7, <1>8, <2>1, <2>2 DEF RuntimeAccounted
<1>10. \A i \in Slots : i >= task_count' => runtime_ticks'[i] = 0
  BY <1>1, <1>4, <1>6 DEF AccountInv
<1> QED
  BY Zenon, <1>9, <1>10 DEF AccountInv

----------------------------------------------------------------------------
(* Results *)

\* The table's fields, counters and indices always have their types: in
\* particular task_count never passes SB_SCHED_MAX_TASKS and current_index
\* always names a task of the table.
THEOREM TypeCorrect == Spec => []TypeOK
  BY Invariance, PTL DEF IInv

\* Whatever the order of adds, picks, ticks and system calls, exactly the task
\* current_index names is RUNNING.
THEOREM ExactlyOneRunning == Spec => []OneRunning
  BY Invariance, PTL DEF IInv

\* scheduler_add_kernel_task never lets two tasks share an id.
THEOREM IdsAreUnique == Spec => []UniqueIds
  BY Invariance, PTL DEF IInv

\* No tick is lost and none is charged twice: the runtimes of all tasks add up to
\* the scheduler's tick count, for every table size and also when counters wrap.
THEOREM TicksAccounted == Spec => []RuntimeAccounted
<1>1. Init => AccountInv
  <2> SUFFICES ASSUME Init PROVE AccountInv
    OBVIOUS
  <2>1. runtime_ticks \in [Slots -> Int] /\ \A i \in Slots : runtime_ticks[i] = 0
    BY DEF Init
  <2>2. SumFunction(runtime_ticks) = 0
    BY Zenon, <2>1, SlotsFinite, SumOfZeros
  <2>3. 0 % TICK_MOD = 0
    BY TickModAssumption
  <2> QED
    BY Zenon, <2>1, <2>2, <2>3 DEF Init, AccountInv, RuntimeAccounted
<1>2. IInv /\ AccountInv /\ [Next]_vars => AccountInv'
  <2> SUFFICES ASSUME IInv, AccountInv, [Next]_vars PROVE AccountInv'
    OBVIOUS
  <2>1. ASSUME NEW i \in TaskIds, scheduler_add_kernel_task(i) PROVE AccountInv'
    <3>1. task_count \in Slots /\ task_count' = task_count + 1 /\ task_count \in Nat
          /\ Slots \subseteq Nat
      BY <2>1, MaxTasksAssumption DEF scheduler_add_kernel_task, TableFull, IInv, TypeOK, Slots
    <3>2. runtime_ticks[task_count] = 0
      BY <3>1 DEF AccountInv
    <3>3. runtime_ticks' = runtime_ticks
      BY Zenon, <2>1, <3>1, <3>2 DEF scheduler_add_kernel_task, IInv, TypeOK
    <3>4. scheduler_tick_count' = scheduler_tick_count
      BY Zenon, <2>1 DEF scheduler_add_kernel_task
    <3> QED
      BY <3>1, <3>3, <3>4 DEF AccountInv, RuntimeAccounted
  <2>2. CASE timer_init \/ sb_timer_tick
    BY Zenon, <2>2, TickAccounted DEF timer_init, sb_timer_tick
  <2>3. CASE PickAtBoot \/ SB_SYS_GET_TICKS \/ SB_SYS_PROCESS_ID \/ UNCHANGED vars
    <3>1. UNCHANGED <<runtime_ticks, scheduler_tick_count, task_count>>
      BY Zenon, <2>3 DEF PickAtBoot, SB_SYS_GET_TICKS, SB_SYS_PROCESS_ID, vars, table_vars
    <3> QED
      BY Zenon, <3>1 DEF AccountInv, RuntimeAccounted
  <2> QED
    BY Zenon, <2>1, <2>2, <2>3 DEF Next
<1>3. AccountInv => RuntimeAccounted
  BY Zenon DEF AccountInv
<1> QED
  BY <1>1, <1>2, <1>3, Invariance, PTL DEF Spec

\* At any time no task has had more than a quantum more than another, for every
\* number of tasks and every quantum, as long as the 64-bit tick counter has
\* not wrapped.
THEOREM SharesStayFair ==
  ASSUME MAX_TICKS \in Nat, MAX_TICKS < TICK_MOD
  PROVE  Spec => []QuantumFair
<1>1. Init => FairInv
  BY MaxTasksAssumption DEF Init, FairInv, Slots
<1>2. IInv /\ IInv' /\ FairInv /\ [Next]_vars => FairInv'
  BY Zenon, StepFair
<1>3. IInv /\ FairInv => QuantumFair
  <2> SUFFICES ASSUME IInv, FairInv, NEW i \in 0 .. task_count - 1, NEW j \in 0 .. task_count - 1
               PROVE  runtime_ticks[i] - runtime_ticks[j] <= SB_SCHED_QUANTUM_TICKS
    BY Zenon DEF QuantumFair
  <2>1. /\ task_count \in Nat /\ current_index \in 0 .. task_count - 1 /\ ticks \in Nat
        /\ \A k \in 0 .. task_count - 1 : runtime_ticks[k] \in Nat
        /\ SB_SCHED_QUANTUM_TICKS \in Nat \ {0}
    BY QuantumAssumption, MaxTasksAssumption, TickModAssumption DEF IInv, TypeOK, Slots
  <2>2. CASE task_count = 1
    BY <2>1, <2>2
  <2>3. CASE task_count # 1
    <3>1. PICK s \in 0 .. task_count - 1 : FairFrom(s)
      BY <2>1, <2>3 DEF FairInv
    <3>2. Used \in 0 .. SB_SCHED_QUANTUM_TICKS - 1
      BY Zenon, <2>1, NextUsed DEF Used
    <3>3. Round \in Int /\ runtime_ticks[current_index] = Round + Used
      BY <2>1, <3>2 DEF Round
    <3>4. \A k \in 0 .. task_count - 1 :
            Round <= runtime_ticks[k] /\ runtime_ticks[k] <= Round + SB_SCHED_QUANTUM_TICKS
      BY <2>1, <3>1, <3>2, <3>3 DEF FairFrom
    <3> QED
      BY <2>1, <3>3, <3>4
  <2> QED
    BY Zenon, <2>2, <2>3
<1> QED
  BY <1>1, <1>2, <1>3, Invariance, PTL DEF Spec

\* Every switch, by hand or from the timer, goes to the next task of the table.
THEOREM RoundRobin == Spec => NobodySkipped
<1>1. IInv /\ [Next]_vars =>
        [current_index' # current_index =>
           current_index' = (current_index + 1) % task_count]_vars
  <2> SUFFICES ASSUME IInv, Next, current_index' # current_index
               PROVE  current_index' = (current_index + 1) % task_count
    BY Zenon DEF vars
  <2>1. scheduler_pick_next
    BY Zenon DEF Next, scheduler_add_kernel_task, PickAtBoot, timer_init,
           sb_timer_tick, TimerTick, SB_SYS_GET_TICKS, SB_SYS_PROCESS_ID
  <2> QED
    BY Zenon, <2>1, PickIsSuccessor DEF SwitchTo, Candidate
<1> QED
  BY <1>1, Invariance, PTL DEF Spec, NobodySkipped

=============================================================================
