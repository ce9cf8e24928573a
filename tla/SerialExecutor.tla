--------------------------- MODULE SerialExecutor ---------------------------
(***************************************************************************)
(* What an EventLoop promises to the users of QueueToLoop(): the functors  *)
(* handed to it are executed one at a time, each at most once, in the      *)
(* order in which they were handed over, until the loop is closed.  When   *)
(* the loop is closed the functors it has already taken may be discarded,  *)
(* but never one that was handed over after a functor that is kept.        *)
(***************************************************************************)
EXTENDS Naturals, Sequences

CONSTANT Functors   \* the callables that may be handed over

VARIABLES
    pending,    \* handed over, neither executed nor discarded
    executed,   \* executed, oldest first
    open        \* whether the loop still executes functors

vars == <<pending, executed, open>>

Init ==
    /\ pending = <<>>
    /\ executed = <<>>
    /\ open = TRUE

Submit(f) ==
    /\ pending' = Append(pending, f)
    /\ UNCHANGED <<executed, open>>

Execute ==
    /\ open
    /\ pending # <<>>
    /\ executed' = Append(executed, Head(pending))
    /\ pending' = Tail(pending)
    /\ UNCHANGED open

\* The loop ends; the n oldest pending functors are discarded.
Close ==
    /\ open
    /\ open' = FALSE
    /\ \E n \in 0 .. Len(pending) : pending' = SubSeq(pending, n + 1, Len(pending))
    /\ UNCHANGED executed

Next == Close \/ Execute \/ \E f \in Functors : Submit(f)

Spec == Init /\ [][Next]_vars
=============================================================================
