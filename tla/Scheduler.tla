------------------------------ MODULE Scheduler ------------------------------
(***************************************************************************)
(* The task table of kernel/scheduler.c, the timer interrupt that drives   *)
(* it (kernel/timer.c) and the calls a user program can make about it      *)
(* (kernel/syscall.c).  kmain fills the table with interrupts off, then    *)
(* timer_init turns them on; from there the timer interrupt and int 0x80   *)
(* come in any order.  Both use interrupt gates, so a handler runs to its  *)
(* end: one action each.  The array of task structures is kept as one      *)
(* function per field the code reads.                                      *)
(***************************************************************************)
EXTENDS Integers, FiniteSets, Functions

CONSTANTS SB_SCHED_MAX_TASKS,
          SB_SCHED_QUANTUM_TICKS,
          TaskIds,                   \* ids the kernel tries to add
          TICK_MOD,                  \* 2^64, what the counters wrap at
          MAX_TICKS                  \* bound: no timer interrupt after these

ASSUME MaxTasksAssumption == SB_SCHED_MAX_TASKS \in Nat \ {0}
ASSUME QuantumAssumption == SB_SCHED_QUANTUM_TICKS \in Nat \ {0}
ASSUME TaskIdsAssumption == TaskIds \subseteq Nat
ASSUME TickModAssumption == TICK_MOD \in Nat \ {0, 1}

SB_BOOTSTRAP_TASK_ID == 1

VARIABLES id, state, runtime_ticks,  \* fields of tasks[i]
          task_count, current_index,
          scheduler_tick_count,
          ticks,                     \* timer.c's own counter
          irq_enabled,               \* timer_init has executed STI
          seen                       \* what user programs were told last

table_vars == <<id, task_count>>
vars == <<id, state, runtime_ticks, task_count, current_index,
          scheduler_tick_count, ticks, irq_enabled, seen>>

Slots == 0 .. SB_SCHED_MAX_TASKS - 1
States == {"UNUSED", "READY", "RUNNING"}
Runnable(st, i) == st[i] \in {"READY", "RUNNING"}
Increment(n) == (n + 1) % TICK_MOD

----------------------------------------------------------------------------
(* Mutants *)

\* The task that gives up the processor stays marked RUNNING.
MutOldStaysRunning(c) ==
  /\ state' = [state EXCEPT ![c] = "RUNNING"]
  /\ current_index' = c

\* The search starts one task too far.
MutSkipsOne(s) == (current_index + s + 1) % task_count

\* The tick is charged only when the task keeps the processor.
MutChargeUnlessSwitch ==
  runtime_ticks' = IF current_index' # current_index THEN runtime_ticks
                   ELSE [runtime_ticks EXCEPT ![current_index] = Increment(@)]

\* Ids are not compared with the table.
MutNoDuplicateCheck(i) == FALSE

\* The search never leaves the current task's slot.
MutStuckOnCurrent(s) == current_index

----------------------------------------------------------------------------
(* scheduler.c *)

TableFull == task_count >= SB_SCHED_MAX_TASKS

IdTaken(i) == \E t \in 0 .. task_count - 1 : state[t] # "UNUSED" /\ id[t] = i

\* Only kmain's start-up code adds tasks, before timer_init.  Otherwise it
\* returns -1 or -2 and the table is as before.
scheduler_add_kernel_task(i) ==
  /\ ~ irq_enabled
  /\ ~ TableFull /\ i # 0
  /\ ~ IdTaken(i)
  /\ id' = [id EXCEPT ![task_count] = i]
  /\ runtime_ticks' = [runtime_ticks EXCEPT ![task_count] = 0]
  /\ state' = [state EXCEPT ![task_count] = "READY"]
  /\ task_count' = task_count + 1
  /\ UNCHANGED <<current_index, scheduler_tick_count, ticks, irq_enabled, seen>>

Candidate(s) == (current_index + s) % task_count

SwitchTo(c) ==
  /\ state' = [state EXCEPT ![current_index] = "READY", ![c] = "RUNNING"]
  /\ current_index' = c

\* The first runnable task after the current one, round the table.
scheduler_pick_next ==
  \/ \E s \in 1 .. task_count :
       /\ Runnable(state, Candidate(s))
       /\ \A r \in 1 .. s - 1 : ~ Runnable(state, Candidate(r))
       /\ SwitchTo(Candidate(s))
  \/ /\ \A s \in 1 .. task_count : ~ Runnable(state, Candidate(s))
     /\ UNCHANGED <<state, current_index>>

\* scheduler_tick, with the running task charged
Charge ==
  runtime_ticks' = IF state[current_index] = "RUNNING"
                   THEN [runtime_ticks EXCEPT ![current_index] = Increment(@)]
                   ELSE runtime_ticks

\* scheduler_selftest picks by hand while interrupts are off.
PickAtBoot ==
  /\ ~ irq_enabled
  /\ scheduler_pick_next
  /\ UNCHANGED <<runtime_ticks, scheduler_tick_count, ticks, irq_enabled, seen>>
  /\ UNCHANGED table_vars

----------------------------------------------------------------------------
(* timer.c *)

NextTicks == Increment(ticks)

\* sb_timer_tick: count, account, and at the end of a quantum pick the next.
TimerTick(now) ==
  /\ ticks' = now
  /\ scheduler_tick_count' = Increment(scheduler_tick_count)
  /\ IF now % SB_SCHED_QUANTUM_TICKS = 0 /\ task_count > 1
     THEN scheduler_pick_next
     ELSE UNCHANGED <<state, current_index>>
  /\ Charge
  /\ UNCHANGED table_vars

\* ticks = 0, a first tick by software int 0x20, then STI.
timer_init ==
  /\ ~ irq_enabled
  /\ TimerTick(1)
  /\ irq_enabled' = TRUE
  /\ UNCHANGED seen

sb_timer_tick ==
  /\ irq_enabled
  /\ ticks < MAX_TICKS
  /\ TimerTick(NextTicks)
  /\ UNCHANGED <<irq_enabled, seen>>

----------------------------------------------------------------------------
(* syscall.c: what syscall_dispatch answers; SB_SYS_EXIT and unknown numbers *)
(* change nothing anybody can observe.                                       *)

SB_SYS_GET_TICKS == /\ irq_enabled
                    /\ seen' = [seen EXCEPT !.ticks = ticks]
                    /\ UNCHANGED <<state, runtime_ticks, current_index,
                                   scheduler_tick_count, ticks, irq_enabled>>
                    /\ UNCHANGED table_vars

SB_SYS_PROCESS_ID == /\ irq_enabled
                     /\ seen' = [seen EXCEPT !.process_id = id[current_index]]
                     /\ UNCHANGED <<state, runtime_ticks, current_index,
                                    scheduler_tick_count, ticks, irq_enabled>>
                     /\ UNCHANGED table_vars

----------------------------------------------------------------------------
\* As scheduler_init leaves it.
Init ==
  /\ id = [i \in Slots |-> IF i = 0 THEN SB_BOOTSTRAP_TASK_ID ELSE 0]
  /\ state = [i \in Slots |-> IF i = 0 THEN "RUNNING" ELSE "UNUSED"]
  /\ runtime_ticks = [i \in Slots |-> 0]
  /\ task_count = 1 /\ current_index = 0
  /\ scheduler_tick_count = 0 /\ ticks = 0
  /\ irq_enabled = FALSE
  /\ seen = [ticks |-> 0, process_id |-> 0]

Next == \/ \E i \in TaskIds : scheduler_add_kernel_task(i)
        \/ PickAtBoot
        \/ timer_init
        \/ sb_timer_tick
        \/ SB_SYS_GET_TICKS
        \/ SB_SYS_PROCESS_ID

Spec == Init /\ [][Next]_vars

\* kmain reaches timer_init, and the PIT keeps interrupting: interrupts stay
\* enabled in user mode (arch_enter_user sets IF) and in kmain's halt loop.
FairSpec == Spec /\ WF_vars(timer_init) /\ WF_vars(sb_timer_tick)

----------------------------------------------------------------------------
(* Properties *)

\* The fields have their types and the counters point into the table.
TypeOK ==
  /\ id \in [Slots -> Nat]
  /\ state \in [Slots -> States]
  /\ runtime_ticks \in [Slots -> 0 .. TICK_MOD - 1]
  /\ task_count \in 1 .. SB_SCHED_MAX_TASKS
  /\ current_index \in 0 .. task_count - 1
  /\ scheduler_tick_count \in 0 .. TICK_MOD - 1
  /\ ticks \in 0 .. TICK_MOD - 1
  /\ irq_enabled \in BOOLEAN
  /\ seen \in [ticks : 0 .. TICK_MOD - 1, process_id : Nat]

\* At any time exactly one task is RUNNING, it is the one current_index names,
\* every other task in the table is READY and the slots past it are UNUSED.
OneRunning ==
  \A i \in Slots :
    state[i] = IF i = current_index THEN "RUNNING"
               ELSE IF i < task_count THEN "READY" ELSE "UNUSED"

\* Two tasks of the table never have the same id, and none has id 0, which
\* syscall_process_id uses for "no task".
UniqueIds ==
  \A i, j \in 0 .. task_count - 1 : id[i] # 0 /\ (id[i] = id[j] => i = j)

\* Every tick is charged to exactly one task: the runtimes add up to the
\* scheduler's tick count.
RuntimeAccounted ==
  SumFunction(runtime_ticks) % TICK_MOD = scheduler_tick_count

\* No task has had more than one quantum more than another: the tick that ends
\* a quantum is charged to the task that used it, whoever was current when the
\* timer started.  (For runs that end before the counters wrap.)
QuantumFair ==
  irq_enabled =>
    \A i, j \in 0 .. task_count - 1 :
      runtime_ticks[i] - runtime_ticks[j] <= SB_SCHED_QUANTUM_TICKS

\* The processor always goes to the next task of the table: nobody is skipped.
NobodySkipped ==
  [][current_index' # current_index =>
       current_index' = (current_index + 1) % task_count]_vars

\* Once the timer runs, every task of the table is selected again and again:
\* from wherever the system is, as long as the bound on ticks leaves every
\* task a quantum.
EveryTaskRuns ==
  \A i \in Slots :
    (/\ irq_enabled /\ i < task_count
     /\ ticks + task_count * SB_SCHED_QUANTUM_TICKS <= MAX_TICKS)
      ~> (current_index = i)

=============================================================================
