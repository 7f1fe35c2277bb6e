------------------------------- MODULE Sched -------------------------------
(***************************************************************************)
(* Tasks and the scheduler of devOS (sched/sched.c, kernel/entry.c,        *)
(* arch/x86/irq.c, isr.c, lib/panic.c): entry() makes the boot tasks and   *)
(* enters the first one; from then on every timer or keyboard interrupt    *)
(* runs schedule(), which charges the running task its priority in virtual *)
(* time and switches to the task with the least.                           *)
(*                                                                         *)
(* Interrupts are off in ring 0 except inside an exception handler that    *)
(* was entered through a trap gate, so an interrupt is one step.  A        *)
(* register context is abstracted to whose computation it is, how far it   *)
(* has got, and whether it is user code or the panicking handler.          *)
(***************************************************************************)
EXTENDS Integers, Sequences

CONSTANTS
  TASK_SLOTS,      \* number of entries of tasks[]
  BootPriorities,  \* the arguments of entry()'s make_task calls, in order
  VtimeMod,        \* 2^64: virtual time is a uint64_t
  MaxSteps         \* bound on the user steps of a task that are told apart

Slots == 0 .. TASK_SLOTS - 1
NULL == -1
KERNEL == -2       \* the kernel's own page table

ASSUME SlotsAssumption == TASK_SLOTS \in Nat \ {0}
ASSUME VtimeModAssumption == VtimeMod \in Nat \ {0, 1}
\* Priorities are uint32_t, far from 2^64; entry() passes positive ones.
ASSUME PrioritiesAssumption ==
  /\ BootPriorities \in Seq(Nat \ {0})
  /\ \A i \in DOMAIN BootPriorities : 2 * BootPriorities[i] < VtimeMod - 1
ASSUME MaxStepsAssumption == MaxSteps \in Nat

VARIABLES
  tstate, priority, vtime, ctx,  \* the fields of tasks[i]
  current,                       \* the scheduler's current
  cpu,                           \* the registers
  cr3,                           \* the page table in use
  made,                          \* make_task calls entry() has done
  first,                         \* entry()'s variable A
  done,                          \* ghost: the user steps a task has executed
  early                          \* ghost: those executed before the first interrupt

vars == <<tstate, priority, vtime, ctx, current, cpu, cr3, made, first, done, early>>

Context(mode, t, n) == [mode |-> mode, task |-> t, pc |-> n]
Zeroed == Context("none", NULL, 0)

Running == {t \in Slots : tstate[t] = "RUNNING"}

Init ==
  /\ tstate = [t \in Slots |-> "FREE"]
  /\ priority = [t \in Slots |-> 0]
  /\ vtime = [t \in Slots |-> 0]
  /\ ctx = [t \in Slots |-> Zeroed]
  /\ current = NULL
  /\ cpu = Context("boot", NULL, 0)
  /\ cr3 = KERNEL
  /\ made = 0
  /\ first = NULL
  /\ done = [t \in Slots |-> 0]
  /\ early = 0

(***************************************************************************)
(* entry(): the make_task calls, then enter_task(A).                       *)
(***************************************************************************)

Booting == cpu.mode = "boot" /\ made < Len(BootPriorities)

is_free_slot(t) == tstate[t] = "FREE" /\ \A s \in 0 .. t - 1 : tstate[s] # "FREE"

\* create_task finds no free slot.
make_task_none ==
  /\ Booting
  /\ \A t \in Slots : ~is_free_slot(t)
  /\ made' = made + 1
  /\ UNCHANGED <<tstate, priority, vtime, ctx, current, cpu, cr3, first, done, early>>

\* No memory for the PML4: __alloc_table turns the NULL page into a wild address,
\* so vmm_create_user_pml4 does not return NULL but faults in memset.
make_task_no_table ==
  /\ Booting
  /\ \E t \in Slots : is_free_slot(t)
  /\ cpu' = Context("halted", NULL, 0)
  /\ UNCHANGED <<tstate, priority, vtime, ctx, current, cr3, made, first, done, early>>

\* create_task(priority) in slot t.
create_task(t, new) ==
  /\ is_free_slot(t)
  /\ priority' = [priority EXCEPT ![t] = BootPriorities[made + 1]]
  /\ tstate' = [tstate EXCEPT ![t] = new]

\* task_alloc_pages fails: the slot stays TASK_INIT and its page table in use.
make_task_no_pages ==
  /\ Booting
  /\ \E t \in Slots : create_task(t, "INIT") /\ cr3' = t
  /\ made' = made + 1
  /\ UNCHANGED <<vtime, ctx, current, cpu, first, done, early>>

\* No memory for a page table of vmm_map, which faults in the same way.
make_task_not_mapped ==
  /\ Booting
  /\ \E t \in Slots : create_task(t, "INIT") /\ cr3' = t
  /\ cpu' = Context("halted", NULL, 0)
  /\ UNCHANGED <<vtime, ctx, current, made, first, done, early>>

\* The pid and the page list that task_alloc_pages links (page->next, page->prev,
\* task->pages) are left out: nothing but task_alloc_pages itself reads them.
make_task ==
  /\ Booting
  /\ \E t \in Slots :
       /\ create_task(t, "RUNNING")
       /\ ctx' = [ctx EXCEPT ![t] = Context("user", t, 0)]
       /\ cr3' = t
       /\ first' = IF made = 0 THEN t ELSE first
  /\ made' = made + 1
  /\ UNCHANGED <<vtime, current, cpu, done, early>>

\* enter_task(A) loads A's context, not its page table; with A = NULL it faults.
enter_task ==
  /\ cpu.mode = "boot" /\ made = Len(BootPriorities)
  /\ cpu' = IF first = NULL THEN Context("halted", NULL, 0) ELSE ctx[first]
  /\ UNCHANGED <<tstate, priority, vtime, ctx, current, cr3, made, first, done, early>>

\* The running task executes user code.
UserStep ==
  /\ cpu.mode = "user" /\ cpu.pc < MaxSteps
  /\ cpu' = [cpu EXCEPT !.pc = @ + 1]
  /\ done' = [done EXCEPT ![cpu.task] = @ + 1]
  /\ early' = IF current = NULL THEN early + 1 ELSE early
  /\ UNCHANGED <<tstate, priority, vtime, ctx, current, cr3, made, first>>

(***************************************************************************)
(* Interrupts: __isr_dispatch, irq_dispatch, schedule.                     *)
(***************************************************************************)

\* Mutant: the running task is not charged.
ChargedNot == vtime

\* vtime after the running task has been charged for its quantum.
Charged ==
  IF current = NULL THEN vtime
  ELSE [vtime EXCEPT ![current] = (@ + priority[current]) % VtimeMod]

\* An entry from user mode starts at the top of kern_stack, over whatever a
\* preempted handler has there.
Clobbered ==
  IF cpu.mode # "user" THEN ctx
  ELSE [t \in Slots |-> [ctx[t] EXCEPT !.mode = IF @ = "panic" THEN "wild" ELSE @]]

\* Mutant: the interrupted context is dropped.
SavedNot == Clobbered

\* The task contexts after the interrupted one has been saved.
Saved == IF current = NULL THEN Clobbered ELSE [Clobbered EXCEPT ![current] = cpu]

\* Mutant: slots that hold no task compete as well.
CandidatesAnyState == {t \in Slots : Charged[t] < VtimeMod - 1}

\* The tasks the selection loop considers.
Candidates == {t \in Running : Charged[t] < VtimeMod - 1}

\* Mutant: virtual times are not compared.
SelectsAny(c) == IF Candidates = {} THEN c = current ELSE c \in Candidates

\* c is what the selection loop leaves in current: the first task of least
\* virtual time, or the old current when there is none.
Selects(c) ==
  IF Candidates = {} THEN c = current
  ELSE /\ c \in Candidates
       /\ \A d \in Candidates :
            Charged[c] < Charged[d] \/ (Charged[c] = Charged[d] /\ c <= d)

\* Mutant: virtual times are not normalised.
NormalisedNot(c) == Charged

\* Virtual times relative to the least, min_vtime.
Normalised(c) ==
  LET min_vtime == IF Candidates = {} THEN VtimeMod - 1 ELSE Charged[c]
  IN  [t \in Slots |-> IF t \in Running THEN (Charged[t] - min_vtime) % VtimeMod
                       ELSE Charged[t]]

\* Mutant: the page table of the new task is not loaded.
SwitchToNoTable(c) == cpu' = Saved[c] /\ UNCHANGED cr3

SwitchTo(c) == cpu' = Saved[c] /\ cr3' = c

\* A timer or keyboard interrupt; schedule() returns early without a task.  The
\* first one finds no current task and saves nothing: A starts over.
Irq ==
  /\ cpu.mode \in {"user", "panic"}
  /\ \E c \in Slots \cup {NULL} :
       /\ Selects(c)
       /\ current' = c
       /\ ctx' = Saved
       /\ IF c = NULL THEN vtime' = Charged /\ UNCHANGED <<cpu, cr3>>
          ELSE vtime' = Normalised(c) /\ SwitchTo(c)
  /\ UNCHANGED <<tstate, priority, made, first, done, early>>

(***************************************************************************)
(* Exceptions: always a panic.  Vectors 2, 8, 14 and 18 have interrupt     *)
(* gates, so nothing runs after them; the others have trap gates, and the  *)
(* handler can be interrupted until vpanic's cli().                        *)
(***************************************************************************)

ExceptionInterruptGate ==
  /\ cpu.mode = "user"
  /\ cpu' = [cpu EXCEPT !.mode = "halted"]
  /\ UNCHANGED <<tstate, priority, vtime, ctx, current, cr3, made, first, done, early>>

ExceptionTrapGate ==
  /\ cpu.mode = "user"
  /\ cpu' = [cpu EXCEPT !.mode = "panic"]
  /\ ctx' = Clobbered
  /\ UNCHANGED <<tstate, priority, vtime, current, cr3, made, first, done, early>>

vpanic_cli ==
  /\ cpu.mode = "panic"
  /\ cpu' = [cpu EXCEPT !.mode = "halted"]
  /\ UNCHANGED <<tstate, priority, vtime, ctx, current, cr3, made, first, done, early>>

\* while (1) halt(); and, for "wild", a handler resumed on an overwritten stack,
\* whose behaviour is undefined and not followed.
Stopped == cpu.mode \in {"halted", "wild"} /\ UNCHANGED vars

\* Everything but an interrupt.
Elsewhere ==
  \/ make_task_none \/ make_task_no_table \/ make_task_no_pages
  \/ make_task_not_mapped \/ make_task
  \/ enter_task \/ UserStep
  \/ ExceptionInterruptGate \/ ExceptionTrapGate \/ vpanic_cli \/ Stopped

Next == Irq \/ Elsewhere

Spec == Init /\ [][Next]_vars

(***************************************************************************)
(* Properties.                                                             *)
(***************************************************************************)

Contexts ==
  [mode : {"none", "boot", "user", "panic", "wild", "halted"},
   task : Slots \cup {NULL}, pc : 0 .. MaxSteps]

TypeOK ==
  /\ tstate \in [Slots -> {"FREE", "INIT", "RUNNING"}]
  /\ priority \in [Slots -> Nat]
  /\ vtime \in [Slots -> 0 .. VtimeMod - 1]
  /\ ctx \in [Slots -> Contexts]
  /\ current \in Running \cup {NULL}
  /\ cpu \in Contexts
  /\ cr3 \in Slots \cup {KERNEL}
  /\ made \in 0 .. Len(BootPriorities)
  /\ first \in Running \cup {NULL}
  /\ done \in [Slots -> Nat] /\ early \in Nat

\* Between interrupts the running task is the least charged one, and no task is
\* ahead of it by more than its own priority: schedule()'s additions never
\* overflow, and a task is passed over for a bounded time only.
VtimeBounded ==
  /\ \A t \in Slots : vtime[t] <= priority[t]
  /\ current # NULL => vtime[current] = 0

\* From the first interrupt on, user code runs as the scheduler's current task
\* and in that task's address space.
CurrentOwnsCpu ==
  cpu.mode = "user" /\ current # NULL => cpu.task = current /\ cr3 = current

\* What the first interrupt drops, because schedule() has no current task yet:
\* all that entry()'s task A has done by then.
Dropped(t) == IF t = first /\ current # NULL THEN early ELSE 0

\* An interrupted task continues exactly where it was, with one exception: its
\* computation, on the CPU or saved, is all it has ever done, less, for the task
\* entered first, what it did before the first interrupt.
NoLostWork ==
  \A t \in Running :
    /\ cpu.task = t => cpu.pc + Dropped(t) = done[t]
    /\ cpu.task # t => ctx[t].task = t /\ ctx[t].pc + Dropped(t) = done[t]

\* Every runnable task gets the CPU again and again, as long as no exception has
\* brought the machine down.
NoStarvation ==
  \A t \in Slots :
    (t \in Running /\ cpu.mode = "user") ~> (current = t \/ cpu.mode # "user")

=============================================================================
