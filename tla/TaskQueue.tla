------------------------------ MODULE TaskQueue ------------------------------
(***************************************************************************)
(* What an EventLoop promises the callers of queueInLoop: the functors it  *)
(* accepts are executed one at a time, in the order in which they were     *)
(* accepted, each of them at most once, and, until the loop ends, each of  *)
(* them eventually.  How the loop is woken up, how it batches the functors *)
(* and what else its thread does is left to the detailed specification.    *)
(***************************************************************************)
EXTENDS Naturals, Sequences

CONSTANT Task           \* the functors the callers may hand over

VARIABLES
  submitted,            \* the accepted functors, in order of acceptance
  executed,             \* the executed functors, in order of execution
  closed                \* has the loop ended?

vars == <<submitted, executed, closed>>

TypeOK ==
  /\ submitted \in Seq(Task)
  /\ executed \in Seq(Task)
  /\ closed \in BOOLEAN

Init ==
  /\ submitted = <<>>
  /\ executed = <<>>
  /\ closed = FALSE

(* A functor can be handed over even to a loop that has ended: it is kept  *)
(* in the queue and never executed.                                        *)
Submit(t) ==
  /\ submitted' = Append(submitted, t)
  /\ UNCHANGED <<executed, closed>>

Execute ==
  /\ ~closed
  /\ Len(executed) < Len(submitted)
  /\ executed' = Append(executed, submitted[Len(executed) + 1])
  /\ UNCHANGED <<submitted, closed>>

Close ==
  /\ closed' = TRUE
  /\ UNCHANGED <<submitted, executed>>

Next == (\E t \in Task : Submit(t)) \/ Execute \/ Close

SafeSpec == Init /\ [][Next]_vars

(* Weak fairness of Execute is the promise of progress.                    *)
Spec == SafeSpec /\ WF_vars(Execute)

=============================================================================
