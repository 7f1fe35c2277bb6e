----------------------------- MODULE SchedShare -----------------------------
(***************************************************************************)
(* How schedule() shares the CPU: the scheduler with two history           *)
(* variables, the quanta each task has been charged for and the virtual    *)
(* time that normalisation has taken off every runnable task.              *)
(***************************************************************************)
EXTENDS Sched

VARIABLES service, vbase

shareVars == <<vars, service, vbase>>

ShareInit == Init /\ service = [t \in Slots |-> 0] /\ vbase = 0

IrqCounted ==
  /\ Irq
  /\ service' = IF current = NULL THEN service ELSE [service EXCEPT ![current] = @ + 1]
  /\ vbase' = IF Candidates = {} THEN vbase ELSE vbase + Charged[current']

ShareNext == IrqCounted \/ (Elsewhere /\ UNCHANGED <<service, vbase>>)

ShareSpec == ShareInit /\ [][ShareNext]_shareVars

\* Quanta weighted by priority: the virtual time a task has consumed in all.
Consumed(t) == priority[t] * service[t]

\* schedule() is fair: however long it runs, the weighted service of two
\* runnable tasks never differs by more than the priority of the one ahead, so
\* that quanta are handed out in inverse proportion to priorities.
FairShare ==
  \A s, t \in Running : Consumed(s) - Consumed(t) <= priority[s]

\* A task's vtime field is what it has consumed beyond the common base: no
\* charge is lost or made twice, whichever interrupts and exceptions occur.
VtimeIsLag ==
  \A t \in Running : vtime[t] = Consumed(t) - vbase

=============================================================================
