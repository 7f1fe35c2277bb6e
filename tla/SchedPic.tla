------------------------------ MODULE SchedPic ------------------------------
(***************************************************************************)
(* Sched with the interrupt controllers that drive it (arch/x86/pic.c and  *)
(* irq.c).  An interrupt reaches the processor only on a line that is not  *)
(* masked and while no line of its priority or a higher one is in service; *)
(* irq_dispatch ends the service after schedule() has switched tasks, and  *)
(* so passes pic_send_EOI the vector in the context of the NEW task: the   *)
(* one it was last interrupted by, or 0 if it never ran.                   *)
(***************************************************************************)
EXTENDS Sched

CONSTANT Lines     \* the lines of PIC1 that devices raise

IRQ_TO_INTERRUPT_OFFSET == 32
PIC2_IRQ == 2
AllLines == 0 .. 15

ASSUME LinesAssumption == Lines \subseteq 0 .. 7

VARIABLES
  imr,         \* the masked lines of both PICs
  in_service,  \* the lines in service
  vector       \* vector_id in the context of task t

picVars == <<imr, in_service, vector>>

pic_unmask(mask, irq) == mask \ {irq}

\* What irq_init leaves: pic_remap masks all but the cascade.
pic_remap == AllLines \ {PIC2_IRQ}
irq_init == pic_unmask(pic_unmask(pic_remap, 0), 1)

PicInit ==
  /\ Init
  /\ imr = irq_init
  /\ in_service = {}
  /\ vector = [t \in Slots |-> 0]

Deliverable(line) == line \notin imr /\ \A l \in in_service : l > line

\* The lines left in service by a non-specific EOI to the PIC with the given lines.
Ended(pic, served) ==
  served \ {l \in served \cap pic : \A k \in served \cap pic : l <= k}

\* Mutant: the EOI goes to the PIC that the number names only.
pic_send_EOI_one(irq, served) ==
  IF irq >= 8 THEN Ended(8 .. 15, served) ELSE Ended(0 .. 7, served)

pic_send_EOI(irq, served) ==
  LET one == Ended(0 .. 7, served)
  IN  IF irq >= 8 THEN Ended(8 .. 15, one) ELSE one

\* pic_send_EOI treats the lines of a PIC alike: its first line's vector stands
\* for the vectors of all eight.
VectorOf(line) == IRQ_TO_INTERRUPT_OFFSET + (IF line < 8 THEN 0 ELSE 8)

\* irq_dispatch on a line: schedule(r), then the EOI for r->vector_id - 32, a
\* uint8_t, as schedule leaves it.
irq_dispatch(line) ==
  LET id == VectorOf(line)
      saved == IF current = NULL THEN vector ELSE [vector EXCEPT ![current] = id]
  IN  /\ Deliverable(line)
      /\ Irq
      /\ vector' = saved
      /\ in_service' =
           pic_send_EOI(((IF current' = NULL THEN id ELSE saved[current'])
                          - IRQ_TO_INTERRUPT_OFFSET) % 256,
                        in_service \cup {line})
      /\ UNCHANGED imr

PicIrq == \E line \in Lines : irq_dispatch(line)

PicNext == PicIrq \/ (Elsewhere /\ UNCHANGED picVars)

PicSpec == PicInit /\ [][PicNext]_<<vars, picVars>>

\* entry() runs on by itself, the PIT keeps raising line 0 (whether the interrupt
\* is delivered is up to the PIC), and vpanic reaches cli().
PicFairSpec ==
  /\ PicSpec
  /\ WF_vars(\/ make_task_none \/ make_task_no_table \/ make_task_no_pages
             \/ make_task_not_mapped \/ make_task)
  /\ WF_vars(enter_task)
  /\ WF_<<vars, picVars>>(irq_dispatch(0))
  /\ WF_vars(vpanic_cli)

\* Whenever a task runs, the timer can interrupt it: no interrupt is left in
\* service by the switch to another task, a task that never ran included.
TimerDeliverable == cpu.mode = "user" => Deliverable(0) /\ in_service = {}
=============================================================================
