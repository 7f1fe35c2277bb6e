---------------------------- MODULE SchedProofs ----------------------------
(***************************************************************************)
(* Proofs about the scheduler, for every number of slots, every boot       *)
(* sequence of priorities and every width of virtual time.                 *)
(***************************************************************************)
EXTENDS SchedShare, SchedPic, TLAPS

(***************************************************************************)
(* The inductive invariant.  Beyond the properties it says that priorities *)
(* are small against VtimeMod, that a slot without a runnable task has     *)
(* never been charged and never run, that a runnable task's context is its *)
(* own, that before the first interrupt nothing has been saved and the     *)
(* task entered first has done all there is, and that what is on the CPU   *)
(* is the current task.                                                    *)
(***************************************************************************)
SmallPriorities == \A t \in Slots : 2 * priority[t] < VtimeMod - 1

IdleSlots == \A t \in Slots : tstate[t] # "RUNNING" => vtime[t] = 0 /\ done[t] = 0

OwnContexts ==
  \A t \in Running : ctx[t].task = t /\ ctx[t].mode \in {"user", "panic", "wild"}

BootState ==
  cpu.mode = "boot" =>
    /\ cpu.task = NULL /\ current = NULL
    /\ early = 0 /\ \A t \in Slots : vtime[t] = 0 /\ done[t] = 0
    /\ \A t \in Running : ctx[t] = Context("user", t, 0)

NothingSaved ==
  current = NULL =>
    /\ \A t \in Running : ctx[t].pc = 0 /\ done[t] = IF t = first THEN early ELSE 0
    /\ cpu.mode \in {"user", "panic"} => cpu.task = first

OnCpu ==
  /\ cpu.mode \in {"user", "panic"} => cpu.task \in Running
  /\ current # NULL => cpu.task = current /\ cr3 = current

SchedInv ==
  /\ TypeOK /\ VtimeBounded /\ NoLostWork
  /\ SmallPriorities /\ IdleSlots /\ OwnContexts /\ BootState /\ NothingSaved /\ OnCpu

LEMMA SmallMod ==
  ASSUME NEW a \in Nat, NEW m \in Nat \ {0}, a < m
  PROVE  a % m = a
  OBVIOUS

LEMMA ContextFields ==
  ASSUME NEW m, NEW t, NEW n
  PROVE  Context(m, t, n).mode = m /\ Context(m, t, n).task = t /\ Context(m, t, n).pc = n
  BY DEF Context

LEMMA SlotFacts == NULL \notin Slots /\ KERNEL \notin Slots /\ Slots \subseteq Int
  BY SlotsAssumption DEF Slots, NULL, KERNEL

\* The charge does not overflow, and no task is charged beyond its priority.
LEMMA ChargedFacts ==
  ASSUME SchedInv
  PROVE  /\ DOMAIN Charged = Slots
         /\ \A t \in Slots : /\ Charged[t] = IF t = current THEN priority[t] ELSE vtime[t]
                             /\ Charged[t] \in 0 .. VtimeMod - 2
                             /\ Charged[t] <= priority[t]
<1>1. /\ vtime \in [Slots -> 0 .. VtimeMod - 1] /\ priority \in [Slots -> Nat]
      /\ current \in Slots \cup {NULL}
  BY DEF SchedInv, TypeOK, Running
<1>2. \A t \in Slots : vtime[t] <= priority[t] /\ 2 * priority[t] < VtimeMod - 1
  BY DEF SchedInv, VtimeBounded, SmallPriorities
<1>3. current # NULL => vtime[current] = 0
  BY DEF SchedInv, VtimeBounded
<1>4. CASE current = NULL
  BY <1>1, <1>2, <1>4, SlotFacts, VtimeModAssumption DEF Charged
<1>5. CASE current # NULL
  <2>1. current \in Slots
    BY <1>1, <1>5
  <2>2. (vtime[current] + priority[current]) % VtimeMod = priority[current]
    <3>1. priority[current] \in Nat /\ priority[current] < VtimeMod
      BY <1>1, <1>2, <2>1, VtimeModAssumption
    <3> QED  BY <1>3, <1>5, <3>1, SmallMod, VtimeModAssumption
  <2> QED  BY <1>1, <1>2, <1>5, <2>1, <2>2, VtimeModAssumption DEF Charged
<1> QED  BY <1>4, <1>5

\* The selection loop finds a runnable task, the least charged one.
LEMMA Picked ==
  ASSUME SchedInv, cpu.mode \in {"user", "panic"},
         NEW c \in Slots \cup {NULL}, Selects(c)
  PROVE  /\ c \in Running /\ c \in Slots /\ c # NULL
         /\ Candidates # {}
         /\ \A d \in Running : Charged[c] <= Charged[d]
<1>1. Candidates = Running
  BY ChargedFacts, VtimeModAssumption DEF Candidates, Running
<1>2. cpu.task \in Running
  BY DEF SchedInv, OnCpu
<1>3. c \in Running /\ \A d \in Running : Charged[c] < Charged[d] \/ Charged[c] = Charged[d]
  BY <1>1, <1>2 DEF Selects
<1>4. \A d \in Running : d \in Slots /\ Charged[d] \in Int
  BY ChargedFacts, VtimeModAssumption DEF Running
<1> QED  BY <1>1, <1>2, <1>3, <1>4, SlotFacts

LEMMA NormalisedFacts ==
  ASSUME SchedInv, cpu.mode \in {"user", "panic"},
         NEW c \in Slots \cup {NULL}, Selects(c)
  PROVE  /\ Normalised(c) \in [Slots -> 0 .. VtimeMod - 1]
         /\ \A t \in Running : Normalised(c)[t] = Charged[t] - Charged[c]
         /\ \A t \in Slots : /\ Normalised(c)[t] <= priority[t]
                             /\ tstate[t] # "RUNNING" => Normalised(c)[t] = 0
         /\ Normalised(c)[c] = 0
<1>1. c \in Slots /\ c \in Running /\ Candidates # {}
  BY Picked
<1>2. \A t \in Slots : Charged[t] \in 0 .. VtimeMod - 2 /\ Charged[t] <= priority[t]
  BY ChargedFacts
<1>3. \A t \in Running : Charged[c] <= Charged[t]
  BY Picked
<1>4. priority \in [Slots -> Nat]
  BY DEF SchedInv, TypeOK
<1>5. ASSUME NEW t \in Running
      PROVE  (Charged[t] - Charged[c]) % VtimeMod = Charged[t] - Charged[c]
  <2>1. t \in Slots
    BY DEF Running
  <2>2. Charged[t] - Charged[c] \in Nat /\ Charged[t] - Charged[c] < VtimeMod
    BY <1>1, <1>2, <1>3, <2>1, VtimeModAssumption
  <2> QED  BY <2>2, SmallMod, VtimeModAssumption
<1>6. Normalised(c) =
        [t \in Slots |-> IF t \in Running THEN (Charged[t] - Charged[c]) % VtimeMod
                         ELSE Charged[t]]
  BY <1>1 DEF Normalised
<1>7. \A t \in Running : Normalised(c)[t] = Charged[t] - Charged[c]
  BY <1>5, <1>6 DEF Running
<1>8. \A t \in Slots : tstate[t] # "RUNNING" => Normalised(c)[t] = 0
  <2> SUFFICES ASSUME NEW t \in Slots, tstate[t] # "RUNNING"
               PROVE  Normalised(c)[t] = 0
    OBVIOUS
  <2>1. t # current
    BY SlotFacts DEF SchedInv, TypeOK, Running
  <2>2. vtime[t] = 0
    BY DEF SchedInv, IdleSlots
  <2> QED  BY <1>6, <2>1, <2>2, ChargedFacts DEF Running
<1>9. ASSUME NEW t \in Slots
      PROVE  Normalised(c)[t] \in 0 .. VtimeMod - 1 /\ Normalised(c)[t] <= priority[t]
  <2>1. CASE t \in Running
    BY <1>1, <1>2, <1>3, <1>4, <1>7, <2>1, VtimeModAssumption
  <2>2. CASE t \notin Running
    BY <1>4, <1>8, <2>2, VtimeModAssumption DEF Running
  <2> QED  BY <2>1, <2>2
<1>10. Normalised(c)[c] = 0
  BY <1>1, <1>2, <1>7, VtimeModAssumption
<1>11. Normalised(c) \in [Slots -> 0 .. VtimeMod - 1]
  BY <1>6, <1>9
<1> QED  BY <1>7, <1>8, <1>9, <1>10, <1>11

\* A context keeps its owner and its progress whatever happens to its stack.
LEMMA ClobberedFacts ==
  ASSUME SchedInv
  PROVE  /\ Clobbered \in [Slots -> Contexts]
         /\ \A t \in Slots : /\ Clobbered[t].task = ctx[t].task
                             /\ Clobbered[t].pc = ctx[t].pc
         /\ \A t \in Running : Clobbered[t].mode \in {"user", "panic", "wild"}
<1>1. ctx \in [Slots -> Contexts]
  BY DEF SchedInv, TypeOK
<1>2. \A t \in Running : t \in Slots /\ ctx[t].mode \in {"user", "panic", "wild"}
  BY DEF SchedInv, OwnContexts, Running
<1>3. CASE cpu.mode # "user"
  BY <1>1, <1>2, <1>3 DEF Clobbered
<1>4. CASE cpu.mode = "user"
  <2>1. \A t \in Slots :
          Clobbered[t] = [ctx[t] EXCEPT !.mode = IF ctx[t].mode = "panic" THEN "wild"
                                                 ELSE ctx[t].mode]
    BY <1>4 DEF Clobbered
  <2>2. ASSUME NEW t \in Slots
        PROVE  /\ Clobbered[t] \in Contexts
               /\ Clobbered[t].task = ctx[t].task /\ Clobbered[t].pc = ctx[t].pc
               /\ Clobbered[t].mode = IF ctx[t].mode = "panic" THEN "wild" ELSE ctx[t].mode
    BY <1>1, <2>1, Zenon DEF Contexts
  <2>3. Clobbered \in [Slots -> Contexts]
    BY <1>4, <2>2 DEF Clobbered
  <2> QED  BY <1>2, <2>2, <2>3
<1> QED  BY <1>3, <1>4

LEMMA SavedFacts ==
  ASSUME SchedInv, cpu.mode \in {"user", "panic"}
  PROVE  /\ Saved \in [Slots -> Contexts]
         /\ \A t \in Running : /\ Saved[t].task = t
                               /\ Saved[t].mode \in {"user", "panic", "wild"}
                               /\ Saved[t].pc = IF t = current THEN cpu.pc ELSE ctx[t].pc
<1>1. cpu \in Contexts /\ current \in Running \cup {NULL}
  BY DEF SchedInv, TypeOK
<1>2. \A t \in Running : t \in Slots /\ ctx[t].task = t
  BY DEF SchedInv, OwnContexts, Running
<1>3. current # NULL => cpu.task = current
  BY DEF SchedInv, OnCpu
<1>4. CASE current = NULL
  BY <1>2, <1>4, ClobberedFacts, SlotFacts, Zenon DEF Saved
<1>5. CASE current # NULL
  <2>1. current \in Slots /\ Saved = [Clobbered EXCEPT ![current] = cpu]
    BY <1>1, <1>2, <1>5 DEF Saved
  <2> QED  BY <1>1, <1>2, <1>3, <1>5, <2>1, ClobberedFacts
<1> QED  BY <1>4, <1>5

LEMMA InitSched == Init => SchedInv
<1> SUFFICES ASSUME Init PROVE SchedInv
  OBVIOUS
<1>1. Running = {}
  BY DEF Init, Running
<1>2. Zeroed \in Contexts /\ cpu \in Contexts
  BY MaxStepsAssumption DEF Init, Zeroed, Contexts, Context
<1>3. TypeOK
  BY <1>1, <1>2, VtimeModAssumption, PrioritiesAssumption, MaxStepsAssumption DEF Init, TypeOK
<1>4. VtimeBounded /\ SmallPriorities
  BY VtimeModAssumption DEF Init, VtimeBounded, SmallPriorities
<1> QED
  BY <1>1, <1>3, <1>4 DEF SchedInv, Init, NoLostWork, IdleSlots, OwnContexts, BootState,
                          NothingSaved, OnCpu, Context

\* Boot steps.
LEMMA NoneKeeps ==
  ASSUME SchedInv, make_task_none
  PROVE  SchedInv'
<1>1. made' \in 0 .. Len(BootPriorities)
  BY PrioritiesAssumption DEF make_task_none, Booting, SchedInv, TypeOK
<1>2. Running' = Running
  BY DEF make_task_none, Running
<1> QED
  BY <1>1, <1>2 DEF make_task_none, SchedInv, TypeOK, VtimeBounded, NoLostWork, Dropped,
     SmallPriorities, IdleSlots, OwnContexts, BootState, NothingSaved, OnCpu

LEMMA NoTableKeeps ==
  ASSUME SchedInv, make_task_no_table
  PROVE  SchedInv'
<1>1. /\ cpu.mode = "boot" /\ cpu' = Context("halted", NULL, 0)
      /\ UNCHANGED <<tstate, priority, vtime, ctx, current, cr3, made, first, done, early>>
  BY DEF make_task_no_table, Booting
<1>2. Running' = Running
  BY <1>1 DEF Running
<1>3. cpu' \in Contexts /\ cpu'.mode = "halted" /\ cpu'.task = NULL
  BY <1>1, MaxStepsAssumption DEF Contexts, Context
<1>4. TypeOK'
  BY <1>1, <1>2, <1>3 DEF SchedInv, TypeOK
<1>5. cpu.task = NULL /\ current = NULL
  BY <1>1 DEF SchedInv, BootState
<1>6. NoLostWork'
  BY <1>1, <1>2, <1>3, <1>5, SlotFacts DEF SchedInv, NoLostWork, Dropped, Running
<1> QED
  BY <1>1, <1>2, <1>3, <1>4, <1>5, <1>6 DEF SchedInv, VtimeBounded, SmallPriorities, IdleSlots,
     OwnContexts, BootState, NothingSaved, OnCpu

\* What create_task does in slot t, whichever state the slot ends in.
LEMMA CreateFacts ==
  ASSUME SchedInv, Booting, NEW t \in Slots, NEW new \in {"INIT", "RUNNING"},
         create_task(t, new)
  PROVE  /\ t \notin Running
         /\ tstate' \in [Slots -> {"FREE", "INIT", "RUNNING"}]
         /\ priority' \in [Slots -> Nat]
         /\ SmallPriorities'
         /\ early = 0
         /\ \A s \in Slots : vtime[s] = 0 /\ done[s] = 0 /\ vtime[s] <= priority'[s]
         /\ Running' = IF new = "RUNNING" THEN Running \cup {t} ELSE Running
         /\ cpu.mode = "boot" /\ cpu.task = NULL /\ current = NULL
         /\ made + 1 \in 0 .. Len(BootPriorities)
<1>1. made + 1 \in 1 .. Len(BootPriorities)
  BY PrioritiesAssumption DEF Booting, SchedInv, TypeOK
<1>2. BootPriorities[made + 1] \in Nat /\ 2 * BootPriorities[made + 1] < VtimeMod - 1
  BY <1>1, PrioritiesAssumption
<1>3. tstate[t] = "FREE"
  BY DEF create_task, is_free_slot
<1>4. /\ tstate \in [Slots -> {"FREE", "INIT", "RUNNING"}]
      /\ priority \in [Slots -> Nat]
  BY DEF SchedInv, TypeOK
<1>5. /\ tstate' = [tstate EXCEPT ![t] = new]
      /\ priority' = [priority EXCEPT ![t] = BootPriorities[made + 1]]
  BY DEF create_task
<1>6. SmallPriorities'
  BY <1>2, <1>4, <1>5 DEF SchedInv, SmallPriorities
<1>7. cpu.mode = "boot" /\ cpu.task = NULL /\ current = NULL /\ early = 0
      /\ \A s \in Slots : vtime[s] = 0 /\ done[s] = 0
  BY DEF Booting, SchedInv, BootState
<1>8. Running' = IF new = "RUNNING" THEN Running \cup {t} ELSE Running
  BY <1>3, <1>4, <1>5 DEF Running
<1>9. priority' \in [Slots -> Nat]
  BY <1>2, <1>4, <1>5
<1> QED  BY <1>1, <1>3, <1>4, <1>5, <1>6, <1>7, <1>8, <1>9 DEF Running

LEMMA NoPagesKeeps ==
  ASSUME SchedInv, make_task_no_pages
  PROVE  SchedInv'
<1> PICK t \in Slots : create_task(t, "INIT") /\ cr3' = t
  BY DEF make_task_no_pages
<1>1. Booting /\ made' = made + 1 /\ UNCHANGED <<vtime, ctx, current, cpu, first, done, early>>
  BY DEF make_task_no_pages
<1>2. Running' = Running
  BY <1>1, CreateFacts
<1>3. TypeOK'
  BY <1>1, <1>2, CreateFacts DEF SchedInv, TypeOK
<1>4. VtimeBounded' /\ SmallPriorities' /\ IdleSlots'
  BY <1>1, CreateFacts DEF VtimeBounded, IdleSlots
<1> QED
  BY <1>1, <1>2, <1>3, <1>4, CreateFacts DEF SchedInv, NoLostWork, Dropped, OwnContexts, BootState,
     NothingSaved, OnCpu

LEMMA NotMappedKeeps ==
  ASSUME SchedInv, make_task_not_mapped
  PROVE  SchedInv'
<1> PICK t \in Slots : create_task(t, "INIT") /\ cr3' = t
  BY DEF make_task_not_mapped
<1>1. /\ Booting /\ cpu' = Context("halted", NULL, 0)
      /\ UNCHANGED <<vtime, ctx, current, made, first, done, early>>
  BY DEF make_task_not_mapped
<1>2. Running' = Running
  BY <1>1, CreateFacts
<1>3. cpu' \in Contexts /\ cpu'.mode = "halted" /\ cpu'.task = NULL
  BY <1>1, MaxStepsAssumption DEF Contexts, Context
<1>4. TypeOK'
  BY <1>1, <1>2, <1>3, CreateFacts DEF SchedInv, TypeOK
<1>5. VtimeBounded' /\ SmallPriorities' /\ IdleSlots'
  BY <1>1, CreateFacts DEF VtimeBounded, IdleSlots
<1>6. NoLostWork'
  BY <1>1, <1>2, <1>3, CreateFacts, SlotFacts DEF SchedInv, NoLostWork, Dropped, Running
<1> QED
  BY <1>1, <1>2, <1>3, <1>4, <1>5, <1>6, CreateFacts DEF SchedInv, OwnContexts, BootState,
     NothingSaved, OnCpu

LEMMA MakeTaskKeeps ==
  ASSUME SchedInv, make_task
  PROVE  SchedInv'
<1> PICK t \in Slots : /\ create_task(t, "RUNNING")
                       /\ ctx' = [ctx EXCEPT ![t] = Context("user", t, 0)]
                       /\ cr3' = t
                       /\ first' = IF made = 0 THEN t ELSE first
  BY Zenon DEF make_task
<1>1. Booting /\ made' = made + 1 /\ UNCHANGED <<vtime, current, cpu, done, early>>
  BY DEF make_task
<1>2. Running' = Running \cup {t} /\ t \notin Running
  BY <1>1, CreateFacts
<1>3. Context("user", t, 0) \in Contexts
  BY MaxStepsAssumption DEF Contexts, Context
<1>4. ctx \in [Slots -> Contexts]
  BY DEF SchedInv, TypeOK
<1>5. \A s \in Running' : s \in Slots /\ ctx'[s] = Context("user", s, 0)
  BY <1>1, <1>2, <1>4 DEF SchedInv, BootState, Booting, Running
<1>6. \A s \in Running' : ctx'[s].task = s /\ ctx'[s].pc = 0 /\ ctx'[s].mode = "user"
  BY <1>5, ContextFields
<1>7. TypeOK'
  BY <1>1, <1>2, <1>3, <1>4, CreateFacts DEF SchedInv, TypeOK
<1>8. VtimeBounded' /\ SmallPriorities' /\ IdleSlots'
  BY <1>1, CreateFacts DEF VtimeBounded, IdleSlots
<1>9. NoLostWork'
  <2> SUFFICES ASSUME NEW s \in Running'
               PROVE  /\ cpu'.task # s /\ ctx'[s].task = s
                      /\ ctx'[s].pc + Dropped(s)' = done'[s]
    BY DEF NoLostWork
  <2>1. s \in Slots /\ cpu.task = NULL /\ done[s] = 0 /\ Dropped(s)' = 0
    BY <1>1, <1>5, CreateFacts DEF Dropped
  <2> QED  BY <1>1, <1>6, <2>1, SlotFacts
<1> QED
  BY <1>1, <1>5, <1>6, <1>7, <1>8, <1>9, CreateFacts DEF SchedInv, OwnContexts, BootState,
     NothingSaved, OnCpu

LEMMA EnterKeeps ==
  ASSUME SchedInv, enter_task
  PROVE  SchedInv'
<1>1. /\ cpu.mode = "boot"
      /\ UNCHANGED <<tstate, priority, vtime, ctx, current, cr3, made, first, done, early>>
      /\ cpu' = IF first = NULL THEN Context("halted", NULL, 0) ELSE ctx[first]
  BY DEF enter_task
<1>2. /\ current = NULL /\ early = 0 /\ \A t \in Slots : vtime[t] = 0 /\ done[t] = 0
      /\ \A t \in Running : ctx[t] = Context("user", t, 0) /\ t \in Slots
  BY <1>1 DEF SchedInv, BootState, Running
<1>3. Running' = Running /\ first \in Running \cup {NULL}
  BY <1>1 DEF SchedInv, TypeOK, Running
<1>4. /\ cpu' \in Contexts /\ cpu'.pc = 0 /\ cpu'.mode \in {"user", "halted"}
      /\ cpu'.mode = "user" => cpu'.task \in Running /\ cpu'.task = first
  <2>1. CASE first = NULL
    BY <1>1, <2>1, MaxStepsAssumption DEF Contexts, Context
  <2>2. CASE first # NULL
    <3>1. first \in Running /\ cpu' = ctx[first] /\ cpu' = Context("user", first, 0)
      BY <1>1, <1>2, <1>3, <2>2
    <3>2. cpu' \in Contexts
      BY <1>2, <3>1 DEF SchedInv, TypeOK
    <3> QED  BY <3>1, <3>2, ContextFields
  <2> QED  BY <2>1, <2>2
<1>5. \A t \in Running : ctx[t].task = t /\ ctx[t].pc = 0
  BY <1>2, ContextFields
<1>6. TypeOK'
  BY <1>1, <1>3, <1>4 DEF SchedInv, TypeOK
<1>7. VtimeBounded' /\ SmallPriorities' /\ IdleSlots' /\ OwnContexts' /\ NothingSaved'
  BY <1>1, <1>3, <1>4 DEF SchedInv, VtimeBounded, SmallPriorities, IdleSlots, OwnContexts, NothingSaved
<1>8. NoLostWork'
  BY <1>1, <1>2, <1>3, <1>4, <1>5 DEF NoLostWork, Dropped
<1> QED
  BY <1>1, <1>2, <1>3, <1>4, <1>6, <1>7, <1>8 DEF SchedInv, BootState, OnCpu

LEMMA UserStepKeeps ==
  ASSUME SchedInv, UserStep
  PROVE  SchedInv'
<1> PICK p \in Slots : p = cpu.task
  BY DEF SchedInv, OnCpu, UserStep, Running
<1>1. /\ cpu.mode = "user" /\ cpu.pc < MaxSteps
      /\ cpu' = [cpu EXCEPT !.pc = cpu.pc + 1]
      /\ done' = [done EXCEPT ![p] = done[p] + 1]
      /\ early' = IF current = NULL THEN early + 1 ELSE early
      /\ UNCHANGED <<tstate, priority, vtime, ctx, current, cr3, made, first>>
  BY DEF UserStep
<1>2. Running' = Running /\ p \in Running
  BY <1>1 DEF Running, SchedInv, OnCpu
<1>3. cpu \in Contexts /\ done \in [Slots -> Nat] /\ early \in Nat
  BY DEF SchedInv, TypeOK
<1>4. /\ \A t \in Running : Dropped(t)' = Dropped(t) /\ Dropped(t) \in Nat
      /\ cpu.pc + Dropped(p) = done[p] /\ cpu.pc \in Nat
  BY <1>1, <1>2, <1>3, MaxStepsAssumption DEF SchedInv, NoLostWork, Dropped, Contexts
<1>5. /\ cpu' \in Contexts /\ cpu'.pc = cpu.pc + 1 /\ cpu'.mode = "user" /\ cpu'.task = p
  BY <1>1, <1>3, MaxStepsAssumption DEF Contexts
<1>6. /\ done' \in [Slots -> Nat] /\ done'[p] = done[p] + 1 /\ early' \in Nat
      /\ \A t \in Slots \ {p} : done'[t] = done[t]
  BY <1>1, <1>3
<1>7. TypeOK'
  BY <1>1, <1>2, <1>5, <1>6 DEF SchedInv, TypeOK
<1>8. NoLostWork'
  <2> SUFFICES ASSUME NEW t \in Running
               PROVE  /\ p = t => cpu'.pc + Dropped(t) = done'[t]
                      /\ p # t => ctx[t].task = t /\ ctx[t].pc + Dropped(t) = done'[t]
    BY <1>1, <1>2, <1>4, <1>5 DEF NoLostWork
  <2>1. t \in Slots /\ (p # t => ctx[t].task = t /\ ctx[t].pc + Dropped(t) = done[t])
    BY DEF SchedInv, NoLostWork, Running
  <2> QED  BY <1>4, <1>5, <1>6, <2>1
<1>9. IdleSlots'
  BY <1>1, <1>2, <1>6 DEF SchedInv, IdleSlots, Running
<1>10. VtimeBounded' /\ SmallPriorities' /\ OwnContexts'
  BY <1>1, <1>2 DEF SchedInv, VtimeBounded, SmallPriorities, OwnContexts
<1>11. NothingSaved'
  BY <1>1, <1>2, <1>3, <1>5, <1>6 DEF SchedInv, NothingSaved, Running
<1> QED
  BY <1>1, <1>2, <1>5, <1>7, <1>8, <1>9, <1>10, <1>11 DEF SchedInv, BootState, OnCpu

\* An interrupt.
LEMMA IrqKeeps ==
  ASSUME SchedInv, Irq
  PROVE  SchedInv' /\ current' # NULL
<1>1. /\ cpu.mode \in {"user", "panic"}
      /\ UNCHANGED <<tstate, priority, made, first, done, early>>
  BY DEF Irq
<1> PICK c \in Slots \cup {NULL} :
      /\ Selects(c) /\ current' = c /\ ctx' = Saved
      /\ IF c = NULL THEN vtime' = Charged /\ UNCHANGED <<cpu, cr3>>
         ELSE vtime' = Normalised(c) /\ SwitchTo(c)
  BY DEF Irq
<1>2. c \in Running /\ c \in Slots /\ c # NULL
  BY <1>1, Picked
<1>3. vtime' = Normalised(c) /\ cpu' = Saved[c] /\ cr3' = c
  BY <1>2 DEF SwitchTo
<1>4. Running' = Running
  BY <1>1 DEF Running
<1>5. /\ cpu \in Contexts /\ early \in Nat
      /\ cpu.task \in Running /\ cpu.task \in Slots
  BY <1>1 DEF SchedInv, TypeOK, OnCpu, Running
<1>6. \A t \in Running : /\ t \in Slots /\ Saved[t].task = t
                         /\ Saved[t].mode \in {"user", "panic", "wild"}
                         /\ Saved[t].pc = IF t = current THEN cpu.pc ELSE ctx[t].pc
  BY <1>1, SavedFacts DEF Running
<1>7. \A t \in Running : Saved[t].pc + Dropped(t)' = done'[t]
  <2> SUFFICES ASSUME NEW t \in Running
               PROVE  Saved[t].pc + (IF t = first THEN early ELSE 0) = done[t]
    BY <1>1, <1>2 DEF Dropped
  <2>1. /\ cpu.task = t => cpu.pc + Dropped(t) = done[t]
        /\ cpu.task # t => ctx[t].pc + Dropped(t) = done[t]
    BY DEF SchedInv, NoLostWork
  <2>2. CASE current = NULL
    <3>1. Saved[t].pc = 0 /\ done[t] = IF t = first THEN early ELSE 0
      BY <1>6, <2>2, SlotFacts DEF SchedInv, NothingSaved
    <3> QED  BY <1>5, <3>1
  <2>3. CASE current # NULL
    <3>1. cpu.task = current /\ Dropped(t) = IF t = first THEN early ELSE 0
      BY <2>3 DEF SchedInv, OnCpu, Dropped
    <3> QED  BY <1>6, <2>1, <2>3, <3>1
  <2> QED  BY <2>2, <2>3
<1>8. done' \in [Slots -> Nat] /\ early' \in Nat
  BY <1>1 DEF SchedInv, TypeOK
<1>9. TypeOK'
  <2>1. vtime' \in [Slots -> 0 .. VtimeMod - 1]
    BY <1>1, <1>3, NormalisedFacts
  <2>2. ctx' \in [Slots -> Contexts] /\ cpu' \in Contexts
    BY <1>1, <1>2, <1>3, SavedFacts
  <2> QED  BY <1>1, <1>2, <1>3, <1>4, <1>8, <2>1, <2>2, SMTT(30) DEF SchedInv, TypeOK
<1>10. VtimeBounded'
  BY <1>1, <1>3, NormalisedFacts DEF VtimeBounded
<1>11. NoLostWork'
  BY <1>2, <1>3, <1>4, <1>6, <1>7, Zenon DEF NoLostWork
<1>12. SmallPriorities'
  BY <1>1 DEF SchedInv, SmallPriorities
<1>13. IdleSlots'
  <2> SUFFICES ASSUME NEW t \in Slots, tstate[t] # "RUNNING"
               PROVE  vtime'[t] = 0 /\ done'[t] = 0
    BY <1>1 DEF IdleSlots
  <2>1. vtime'[t] = 0
    BY <1>1, <1>3, NormalisedFacts
  <2>2. done[t] = 0
    BY DEF SchedInv, IdleSlots
  <2> QED  BY <1>1, <1>5, <2>1, <2>2
<1>14. OwnContexts'
  BY <1>4, <1>6 DEF OwnContexts
<1>15. BootState' /\ NothingSaved' /\ OnCpu'
  BY <1>2, <1>3, <1>4, <1>6 DEF BootState, NothingSaved, OnCpu
<1> QED
  BY <1>2, <1>9, <1>10, <1>11, <1>12, <1>13, <1>14, <1>15 DEF SchedInv

\* Exceptions and the end of a panic change what the CPU does, not whose it is.
LEMMA ExceptionKeeps ==
  ASSUME SchedInv, ExceptionInterruptGate \/ ExceptionTrapGate \/ vpanic_cli
  PROVE  SchedInv'
<1>1. /\ cpu.mode \in {"user", "panic"}
      /\ \E m \in {"panic", "halted"} : cpu' = [cpu EXCEPT !.mode = m]
      /\ ctx' \in {ctx, Clobbered}
      /\ UNCHANGED <<tstate, priority, vtime, current, cr3, made, first, done, early>>
  BY DEF ExceptionInterruptGate, ExceptionTrapGate, vpanic_cli
<1>2. Running' = Running
  BY <1>1 DEF Running
<1>3. /\ cpu' \in Contexts /\ cpu'.task = cpu.task /\ cpu'.pc = cpu.pc
      /\ cpu'.mode \in {"panic", "halted"}
  BY <1>1, Zenon DEF SchedInv, TypeOK, Contexts
<1>4. /\ ctx' \in [Slots -> Contexts]
      /\ \A t \in Slots : ctx'[t].task = ctx[t].task /\ ctx'[t].pc = ctx[t].pc
      /\ \A t \in Running : t \in Slots /\ ctx'[t].mode \in {"user", "panic", "wild"}
  BY <1>1, ClobberedFacts, SMTT(30) DEF SchedInv, TypeOK, OwnContexts, Running
<1>5. TypeOK'
  BY <1>1, <1>2, <1>3, <1>4, SMTT(30) DEF SchedInv, TypeOK
<1>6. VtimeBounded' /\ SmallPriorities' /\ IdleSlots'
  BY <1>1 DEF SchedInv, VtimeBounded, SmallPriorities, IdleSlots
<1>7. NoLostWork'
  BY <1>1, <1>2, <1>3, <1>4 DEF SchedInv, NoLostWork, Dropped
<1>8. OwnContexts' /\ NothingSaved'
  BY <1>1, <1>2, <1>3, <1>4 DEF SchedInv, OwnContexts, NothingSaved
<1>9. BootState' /\ OnCpu'
  BY <1>1, <1>2, <1>3 DEF SchedInv, BootState, OnCpu
<1> QED  BY <1>5, <1>6, <1>7, <1>8, <1>9 DEF SchedInv

LEMMA ElsewhereKeeps ==
  ASSUME SchedInv, Elsewhere
  PROVE  SchedInv'
<1>1. CASE Stopped
  BY <1>1 DEF Stopped, vars, SchedInv, TypeOK, VtimeBounded, NoLostWork, Dropped, SmallPriorities,
     IdleSlots, OwnContexts, BootState, NothingSaved, OnCpu, Running
<1> QED
  BY <1>1, NoneKeeps, NoTableKeeps, NoPagesKeeps, NotMappedKeeps, MakeTaskKeeps, EnterKeeps, UserStepKeeps,
     ExceptionKeeps DEF Elsewhere

LEMMA NextSched ==
  ASSUME SchedInv, [Next]_vars
  PROVE  SchedInv'
<1>1. CASE UNCHANGED vars
  BY <1>1 DEF vars, SchedInv, TypeOK, VtimeBounded, NoLostWork, Dropped, SmallPriorities,
     IdleSlots, OwnContexts, BootState, NothingSaved, OnCpu, Running
<1> QED  BY <1>1, IrqKeeps, ElsewhereKeeps DEF Next

LEMMA SchedInvariant == Spec => []SchedInv
  BY InitSched, NextSched, PTL DEF Spec

\* However many tasks entry() makes, whichever of them fail and whatever
\* interrupts and exceptions follow: schedule()'s virtual times stay within the
\* priorities and never overflow; from the first interrupt on the task on the CPU
\* is the current one in its own address space; and no task loses work, but for what
\* the one entered first has done before the first interrupt.
THEOREM SchedCorrect == Spec => [](TypeOK /\ VtimeBounded /\ CurrentOwnsCpu /\ NoLostWork)
<1>1. SchedInv => TypeOK /\ VtimeBounded /\ CurrentOwnsCpu /\ NoLostWork
  BY DEF SchedInv, OnCpu, CurrentOwnsCpu
<1> QED  BY <1>1, SchedInvariant, PTL

(***************************************************************************)
(* The share of the CPU.                                                   *)
(***************************************************************************)

ShareInv ==
  /\ SchedInv
  /\ service \in [Slots -> Nat] /\ vbase \in Nat
  /\ current = NULL => vbase = 0 /\ \A t \in Slots : service[t] = 0
  /\ VtimeIsLag

\* Nothing but an interrupt charges a task; a new task starts level.
LEMMA ElsewhereUncharged ==
  ASSUME SchedInv, Elsewhere
  PROVE  /\ vtime' = vtime /\ current' = current
         /\ \A t \in Running' :
              \/ t \in Running /\ priority'[t] = priority[t]
              \/ current = NULL /\ vtime[t] = 0 /\ priority'[t] \in Nat
         /\ Running' \subseteq Slots
<1>1. CASE make_task_no_pages \/ make_task_not_mapped
  <2>1. Booting /\ vtime' = vtime /\ current' = current
    BY <1>1 DEF make_task_no_pages, make_task_not_mapped
  <2> PICK s \in Slots : create_task(s, "INIT")
    BY <1>1 DEF make_task_no_pages, make_task_not_mapped
  <2>2. Running' = Running /\ s \notin Running /\ Running \subseteq Slots
    BY <2>1, CreateFacts DEF Running
  <2>3. \A t \in Slots \ {s} : priority'[t] = priority[t]
    BY DEF create_task, SchedInv, TypeOK
  <2> QED  BY <2>1, <2>2, <2>3
<1>2. CASE make_task
  <2>1. Booting /\ vtime' = vtime /\ current' = current
    BY <1>2 DEF make_task
  <2> PICK s \in Slots : create_task(s, "RUNNING")
    BY <1>2 DEF make_task
  <2>2. /\ Running' = Running \cup {s} /\ Running \subseteq Slots /\ current = NULL
        /\ vtime[s] = 0 /\ priority'[s] \in Nat /\ s \notin Running
    BY <2>1, CreateFacts DEF Running
  <2>3. \A t \in Slots \ {s} : priority'[t] = priority[t]
    BY DEF create_task, SchedInv, TypeOK
  <2> QED  BY <2>1, <2>2, <2>3
<1>3. CASE \/ make_task_none \/ make_task_no_table \/ enter_task \/ UserStep
           \/ ExceptionInterruptGate \/ ExceptionTrapGate \/ vpanic_cli \/ Stopped
  BY <1>3 DEF make_task_none, make_task_no_table, enter_task, UserStep, ExceptionInterruptGate,
     ExceptionTrapGate, vpanic_cli, Stopped, vars, Running
<1> QED  BY <1>1, <1>2, <1>3 DEF Elsewhere

LEMMA ShareElsewhere ==
  ASSUME ShareInv, Elsewhere, UNCHANGED <<service, vbase>>
  PROVE  ShareInv'
<1>1. SchedInv /\ SchedInv'
  BY ElsewhereKeeps DEF ShareInv
<1>2. current' = current /\ vtime' = vtime
  BY <1>1, ElsewhereUncharged
<1>3. VtimeIsLag'
  <2> SUFFICES ASSUME NEW t \in Running'
               PROVE  vtime'[t] = priority'[t] * service[t] - vbase
    BY DEF VtimeIsLag, Consumed
  <2>1. CASE t \in Running /\ priority'[t] = priority[t]
    BY <1>2, <2>1 DEF ShareInv, VtimeIsLag, Consumed
  <2>2. CASE current = NULL /\ vtime[t] = 0 /\ priority'[t] \in Nat
    <3>1. t \in Slots /\ service[t] = 0 /\ vbase = 0
      BY <1>1, <2>2, ElsewhereUncharged DEF ShareInv
    <3> QED  BY <1>2, <2>2, <3>1
  <2> QED  BY <1>1, <2>1, <2>2, ElsewhereUncharged
<1> QED  BY <1>1, <1>2, <1>3 DEF ShareInv

LEMMA LagStep ==
  ASSUME NEW v, NEW w, NEW p \in Nat, NEW m \in Nat, NEW base \in Nat, NEW newBase,
         v = p - m, newBase = base + m, w = base + p
  PROVE  v = w - newBase
  OBVIOUS

LEMMA ShareIrq ==
  ASSUME ShareInv, IrqCounted
  PROVE  ShareInv'
<1>1. /\ SchedInv /\ SchedInv' /\ current' # NULL
      /\ service \in [Slots -> Nat] /\ vbase \in Nat
      /\ vtime \in [Slots -> 0 .. VtimeMod - 1] /\ priority \in [Slots -> Nat]
      /\ current \in Running \cup {NULL}
  BY IrqKeeps, SMTT(30) DEF ShareInv, IrqCounted, SchedInv, TypeOK
<1>2. cpu.mode \in {"user", "panic"} /\ UNCHANGED <<tstate, priority>>
  BY DEF IrqCounted, Irq
<1> PICK c \in Slots \cup {NULL} :
      Selects(c) /\ current' = c /\ (c # NULL => vtime' = Normalised(c))
  BY DEF IrqCounted, Irq
<1>3. c \in Running /\ c \in Slots /\ c # NULL /\ Candidates # {}
  BY <1>1, <1>2, Picked
<1>4. vbase' = vbase + Charged[c] /\ Charged[c] \in Nat
  BY <1>1, <1>3, ChargedFacts, VtimeModAssumption DEF IrqCounted
<1>5. Running' = Running /\ Running \subseteq Slots
  BY <1>2 DEF Running
<1>6. service' = IF current = NULL THEN service
                 ELSE [service EXCEPT ![current] = service[current] + 1]
  BY DEF IrqCounted
<1>7. service' \in [Slots -> Nat]
  BY <1>1, <1>5, <1>6
<1>8. ASSUME NEW t \in Running
      PROVE  vtime'[t] = priority[t] * service'[t] - vbase'
  <2>1. t \in Slots /\ vtime'[t] = Charged[t] - Charged[c]
    BY <1>1, <1>2, <1>3, <1>5, NormalisedFacts
  <2>2. vtime[t] = priority[t] * service[t] - vbase
    BY DEF ShareInv, VtimeIsLag, Consumed
  <2>3. Charged[t] = IF t = current THEN priority[t] ELSE vtime[t]
    BY <1>1, <2>1, ChargedFacts
  <2>4. priority[t] \in Nat /\ service[t] \in Nat /\ Charged[t] \in Nat
    BY <1>1, <2>1, ChargedFacts, VtimeModAssumption
  <2>5. CASE t = current
    <3>1. vtime[t] = 0 /\ service'[t] = service[t] + 1
      BY <1>1, <1>6, <2>1, <2>5, SlotFacts DEF SchedInv, VtimeBounded
    <3>2. priority[t] * (service[t] + 1) = priority[t] * service[t] + priority[t]
      BY <2>4
    <3>3. priority[t] * service[t] \in Nat
      BY <2>4
    <3>4. vbase = priority[t] * service[t]
      BY <1>1, <2>2, <3>1, <3>3
    <3>5. priority[t] * service'[t] = vbase + priority[t]
      BY <3>1, <3>2, <3>4
    <3> QED
      BY <1>1, <1>4, <2>1, <2>3, <2>4, <2>5, <3>5, LagStep
  <2>6. CASE t # current
    <3>1. service'[t] = service[t]
      BY <1>1, <1>6, <2>1, <2>6
    <3>2. priority[t] * service[t] \in Nat
      BY <2>4
    <3> QED  BY <1>1, <1>4, <2>1, <2>2, <2>3, <2>4, <2>6, <3>1, <3>2
  <2> QED  BY <2>5, <2>6
<1>9. VtimeIsLag'
  BY <1>2, <1>5, <1>8 DEF VtimeIsLag, Consumed
<1> QED  BY <1>1, <1>4, <1>7, <1>9 DEF ShareInv

LEMMA ShareInvariant == ShareSpec => []ShareInv
<1>1. ShareInit => ShareInv
  <2> SUFFICES ASSUME ShareInit PROVE ShareInv
    OBVIOUS
  <2>1. SchedInv /\ Running = {}
    BY InitSched DEF ShareInit, Init, Running
  <2> QED  BY <2>1 DEF ShareInit, ShareInv, VtimeIsLag
<1>2. ShareInv /\ [ShareNext]_shareVars => ShareInv'
  <2> SUFFICES ASSUME ShareInv, [ShareNext]_shareVars PROVE ShareInv'
    OBVIOUS
  <2>1. CASE UNCHANGED shareVars
    <3>1. UNCHANGED vars /\ UNCHANGED <<service, vbase>>
      BY <2>1 DEF shareVars
    <3>2. SchedInv'
      BY <3>1, NextSched DEF ShareInv
    <3>3. UNCHANGED <<tstate, priority, vtime, current, service, vbase>>
      BY <3>1 DEF vars
    <3>4. VtimeIsLag'
      BY <3>3 DEF ShareInv, VtimeIsLag, Consumed, Running
    <3> QED  BY <3>2, <3>3, <3>4 DEF ShareInv
  <2> QED  BY <2>1, ShareIrq, ShareElsewhere DEF ShareNext
<1> QED  BY <1>1, <1>2, PTL DEF ShareSpec

\* A task's vtime is exactly what it has consumed beyond the common base, and
\* the weighted service of two tasks never differs by more than the priority of
\* the one ahead, for every history of interrupts and exceptions.
THEOREM ShareCorrect == ShareSpec => [](VtimeIsLag /\ FairShare)
<1>1. ShareInv => VtimeIsLag /\ FairShare
  <2> SUFFICES ASSUME ShareInv, NEW s \in Running, NEW t \in Running
               PROVE  Consumed(s) - Consumed(t) <= priority[s]
    BY DEF FairShare, ShareInv
  <2>1. s \in Slots /\ t \in Slots
    BY DEF Running
  <2>2. /\ vtime \in [Slots -> 0 .. VtimeMod - 1] /\ priority \in [Slots -> Nat]
        /\ service \in [Slots -> Nat] /\ vbase \in Nat
    BY DEF ShareInv, SchedInv, TypeOK
  <2>3. Consumed(s) \in Nat /\ Consumed(t) \in Nat
    BY <2>1, <2>2 DEF Consumed
  <2>4. vtime[s] = Consumed(s) - vbase /\ vtime[t] = Consumed(t) - vbase
    BY DEF ShareInv, VtimeIsLag
  <2>5. vtime[s] <= priority[s] /\ vtime[t] >= 0
    BY <2>1, <2>2, VtimeModAssumption DEF ShareInv, SchedInv, VtimeBounded
  <2> HIDE DEF Consumed
  <2> QED  BY <2>1, <2>2, <2>3, <2>4, <2>5, VtimeModAssumption
<1> QED  BY <1>1, ShareInvariant, PTL

\* A task's vtime is exactly its weighted service less the common base.
THEOREM LagCorrect == ShareSpec => []VtimeIsLag
  BY ShareCorrect, PTL

(***************************************************************************)
(* With the interrupt controllers (SchedPic): for any devices on PIC1 the  *)
(* timer stays deliverable, and what is proved of Sched holds.             *)
(***************************************************************************)

\* Between interrupts the masks are as irq_init left them and no line is in service.
PicInv == imr = irq_init /\ in_service = {}

\* Whatever number pic_send_EOI is given, PIC1 ends the service of its only line.
LEMMA EoiEndsService ==
  ASSUME NEW line \in 0 .. 7, NEW irq
  PROVE  pic_send_EOI(irq, {line}) = {}
<1>1. Ended(0 .. 7, {line}) = {}
  <2>1. line <= line
    OBVIOUS
  <2>2. \A l \in {line} : l \in {line} \cap 0 .. 7 /\ \A k \in {line} \cap 0 .. 7 : l <= k
    BY <2>1, Zenon
  <2> QED
    BY <2>2, Zenon DEF Ended
<1>2. Ended(8 .. 15, {}) = {}
  BY DEF Ended
<1> QED
  BY <1>1, <1>2 DEF pic_send_EOI

LEMMA TimerUnmasked == 0 \notin irq_init
  BY DEF irq_init, pic_unmask

LEMMA PicStep == PicInv /\ [PicNext]_<<vars, picVars>> => PicInv'
<1> SUFFICES ASSUME PicInv, [PicNext]_<<vars, picVars>>
             PROVE  PicInv'
  OBVIOUS
<1>1. CASE PicIrq
  <2>1. PICK line \in Lines : irq_dispatch(line)
    BY <1>1 DEF PicIrq
  <2>2. line \in 0 .. 7 /\ in_service \cup {line} = {line}
    BY LinesAssumption DEF PicInv
  <2>3. PICK irq : in_service' = pic_send_EOI(irq, {line})
    BY <2>1, <2>2, Zenon DEF irq_dispatch
  <2>4. in_service' = {}
    BY <2>2, <2>3, EoiEndsService
  <2>5. imr' = imr
    BY <2>1 DEF irq_dispatch
  <2> QED
    BY <2>4, <2>5 DEF PicInv, irq_init, pic_remap, pic_unmask
<1>2. CASE UNCHANGED picVars
  BY <1>2 DEF PicInv, picVars, irq_init, pic_remap, pic_unmask
<1> QED
  BY <1>1, <1>2 DEF PicNext, picVars

\* Every switch, to a task that never ran as well, ends the service of the
\* interrupt: whenever a task runs, the timer can interrupt it.
THEOREM TimerAlwaysDeliverable == PicSpec => []TimerDeliverable
<1>1. PicInit => PicInv
  BY DEF PicInit, PicInv
<1>2. PicInv => TimerDeliverable
  BY TimerUnmasked DEF PicInv, TimerDeliverable, Deliverable
<1> QED
  BY <1>1, <1>2, PicStep, PTL DEF PicSpec

\* Sched with the interrupt controllers takes only the steps of Sched.
THEOREM PicRefinesSched == PicSpec => Spec
<1>1. PicInit => Init
  BY DEF PicInit
<1>2. [PicNext]_<<vars, picVars>> => [Next]_vars
  BY Zenon DEF PicNext, PicIrq, irq_dispatch, Next
<1> QED
  BY <1>1, <1>2, PTL DEF PicSpec, Spec

\* The virtual times stay in range.
THEOREM PicVtimeBounded == PicSpec => []VtimeBounded
  BY PicRefinesSched, SchedCorrect, PTL

\* From the first interrupt on the task on the processor is the current one, in its
\* own address space.
THEOREM PicCurrentOwnsCpu == PicSpec => []CurrentOwnsCpu
  BY PicRefinesSched, SchedCorrect, PTL

\* Of all the user steps a task ever takes none is lost or done twice, except
\* that the first interrupt throws away those the task entered first took before.
THEOREM PicNoLostWork == PicSpec => []NoLostWork
  BY PicRefinesSched, SchedCorrect, PTL

\* The scheduler's state has its type.
THEOREM PicTypeOK == PicSpec => []TypeOK
  BY PicRefinesSched, SchedCorrect, PTL
=============================================================================
