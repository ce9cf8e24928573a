----------------------------- MODULE ThreadPool ------------------------------
(***************************************************************************)
(* ThreadPool: a bounded queue of tasks between Push() and the workers that *)
(* StartRun() creates.  A worker pops one task, runs it and ends.  Every    *)
(* critical section is one step: Condition::Wait() gives the mutex up       *)
(* atomically with falling asleep, and a woken thread takes it again before *)
(* it repeats the test of its while loop.  POSIX allows spurious wake-ups.  *)
(***************************************************************************)
EXTENDS Integers, Sequences, FiniteSets

CONSTANTS
  Pushers,      \* threads calling Push()
  Workers,      \* the names StartRun() can give to its Threads
  MaxTasks,     \* bound: tasks pushed by each thread
  QueueSizes    \* values of max_queue_size_

VARIABLES
  max_queue_size_,
  tasks_,
  thread,       \* per worker, its Thread: "none", "pop", "asleep", "run", "ended"
  push,         \* per pusher: "idle", "push", "asleep"
  pushed,       \* per pusher, tasks pushed so far
  ran,          \* the tasks that were run
  owner,        \* "using" the pool, "joining" in the destructor, "gone"
  resized       \* ghost: SetMaxQueueSize() was called while the pool was in use

vars == <<max_queue_size_, tasks_, thread, push, pushed, ran, owner, resized>>

Init ==
  /\ max_queue_size_ \in QueueSizes
  /\ tasks_ = <<>>
  /\ thread = [w \in Workers |-> "none"]
  /\ push = [p \in Pushers |-> "idle"]
  /\ pushed = [p \in Pushers |-> 0]
  /\ ran = {}
  /\ owner = "using"
  /\ resized = FALSE

Asleep(state) == {t \in DOMAIN state : state[t] = "asleep"}

\* Condition::Notify(): one of the waiting threads, if any, is woken.
Notify(state, woken) ==
  IF Asleep(state) = {}
  THEN woken = state
  ELSE \E t \in Asleep(state) : woken = [state EXCEPT ![t] = IF t \in Workers THEN "pop" ELSE "push"]

-----------------------------------------------------------------------------
\* Thread::StartRun() of the threads new, with its assertion that none was started before
\* (the program exits when pthread_create() fails).
ThreadStartRun(new) ==
  /\ \A w \in new : thread[w] = "none"
  /\ thread' = [w \in Workers |-> IF w \in new THEN "pop" ELSE thread[w]]

\* StartRun(thread_num): the new threads reach Pop() only once mutex_ is free.
StartRun(new) ==
  /\ owner = "using"
  /\ ThreadStartRun(new)
  /\ UNCHANGED <<max_queue_size_, tasks_, push, pushed, ran, owner, resized>>

\* A thread decides to push one more task.
CallPush(p) ==
  /\ owner # "gone"
  /\ push[p] = "idle"
  /\ pushed[p] < MaxTasks
  /\ push' = [push EXCEPT ![p] = "push"]
  /\ UNCHANGED <<max_queue_size_, tasks_, thread, pushed, ran, owner, resized>>

\* A slip a programmer might make: notify only when the queue becomes nonempty.
Push_edge(p) ==
  /\ push[p] = "push"
  /\ IF Len(tasks_) = max_queue_size_
     THEN /\ push' = [push EXCEPT ![p] = "asleep"]
          /\ UNCHANGED <<tasks_, thread, pushed>>
     ELSE /\ tasks_' = Append(tasks_, <<p, pushed[p] + 1>>)
          /\ pushed' = [pushed EXCEPT ![p] = @ + 1]
          /\ IF tasks_ = <<>> THEN Notify(thread, thread') ELSE UNCHANGED thread
          /\ push' = [push EXCEPT ![p] = "idle"]
  /\ UNCHANGED <<max_queue_size_, ran, owner, resized>>

\* Push(), from the lock or from a wake-up to Wait() or the return.
Push(p) ==
  /\ push[p] = "push"
  /\ IF Len(tasks_) = max_queue_size_
     THEN /\ push' = [push EXCEPT ![p] = "asleep"]
          /\ UNCHANGED <<tasks_, thread, pushed>>
     ELSE /\ tasks_' = Append(tasks_, <<p, pushed[p] + 1>>)
          /\ pushed' = [pushed EXCEPT ![p] = @ + 1]
          /\ Notify(thread, thread')
          /\ push' = [push EXCEPT ![p] = "idle"]
  /\ UNCHANGED <<max_queue_size_, ran, owner, resized>>

\* Pop(), called by a worker's function.
Pop(w) ==
  /\ thread[w] = "pop"
  /\ IF tasks_ = <<>>
     THEN /\ thread' = [thread EXCEPT ![w] = "asleep"]
          /\ UNCHANGED <<tasks_, push, ran>>
     ELSE /\ tasks_' = Tail(tasks_)
          /\ Notify(push, push')
          /\ ran' = ran \cup {Head(tasks_)}
          /\ thread' = [thread EXCEPT ![w] = "run"]
  /\ UNCHANGED <<max_queue_size_, pushed, owner, resized>>

\* The worker runs the task it took; with that its Thread ends.
RunTask(w) ==
  /\ thread[w] = "run"
  /\ thread' = [thread EXCEPT ![w] = "ended"]
  /\ UNCHANGED <<max_queue_size_, tasks_, push, pushed, ran, owner, resized>>

\* pthread_cond_wait() returned without a notification.
Spurious(t) ==
  /\ \/ /\ t \in Asleep(thread)
        /\ thread' = [thread EXCEPT ![t] = "pop"]
        /\ UNCHANGED push
     \/ /\ t \in Asleep(push)
        /\ push' = [push EXCEPT ![t] = "push"]
        /\ UNCHANGED thread
  /\ UNCHANGED <<max_queue_size_, tasks_, pushed, ran, owner, resized>>

\* SetMaxQueueSize(), which takes no lock and wakes nobody.
SetMaxQueueSize(num) ==
  /\ owner = "using"
  /\ num # max_queue_size_
  /\ max_queue_size_' = num
  /\ resized' = (resized \/ \E p \in Pushers : pushed[p] > 0 \/ push[p] # "idle")
  /\ UNCHANGED <<tasks_, thread, push, pushed, ran, owner>>

\* ~ThreadPool(): Join() every Thread, one after the other.
Destroy ==
  /\ owner = "using"
  /\ owner' = "joining"
  /\ UNCHANGED <<max_queue_size_, tasks_, thread, push, pushed, ran, resized>>

Joined ==
  /\ owner = "joining"
  /\ \A w \in Workers : thread[w] \in {"none", "ended"}
  /\ owner' = "gone"
  /\ UNCHANGED <<max_queue_size_, tasks_, thread, push, pushed, ran, resized>>

Next ==
  \/ \E new \in SUBSET Workers \ {{}} : StartRun(new)
  \/ \E p \in Pushers : CallPush(p) \/ Push(p)
  \/ \E w \in Workers : Pop(w) \/ RunTask(w)
  \/ \E t \in Pushers \cup Workers : Spurious(t)
  \/ \E num \in QueueSizes : SetMaxQueueSize(num)
  \/ Destroy
  \/ Joined

Spec == Init /\ [][Next]_vars

-----------------------------------------------------------------------------
\* The queue never holds more than max_queue_size_ tasks and no task is lost or
\* run twice; and the single Notify() of Push() and of Pop() suffices: whenever
\* a worker sleeps, as many workers are on their way into Pop() as tasks wait,
\* and whenever a pusher sleeps, as many pushers are on their way as there is
\* room - unless SetMaxQueueSize() moved the bound under their feet.
TasksHandedOver ==
  LET queued == {tasks_[i] : i \in DOMAIN tasks_}
      given  == {<<p, n>> : p \in Pushers, n \in 1..MaxTasks}
      popping == {w \in Workers : thread[w] = "pop"}
      pushing == {p \in Pushers : push[p] = "push"}
  IN  /\ Cardinality(queued) = Len(tasks_)
      /\ queued \cap ran = {}
      /\ queued \cup ran = {t \in given : t[2] <= pushed[t[1]]}
      /\ Asleep(thread) # {} => Cardinality(popping) >= Len(tasks_)
      /\ ~resized => /\ Len(tasks_) <= max_queue_size_
                     /\ Asleep(push) # {} =>
                          Cardinality(pushing) >= max_queue_size_ - Len(tasks_)
=============================================================================
