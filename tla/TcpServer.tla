------------------------------ MODULE TcpServer ------------------------------
(***************************************************************************)
(* kanon/net/tcp_server.{h,cc} and acceptor.{h,cc}: the server that accepts*)
(* on its base loop, hands each connection to a loop of its pool, keeps    *)
(* the connections by name in connections_ and takes them out when they    *)
(* close.                                                                  *)
(*                                                                         *)
(* Each loop is a thread that handles events, then runs the functors it    *)
(* has taken; Connection.tla, EventLoop.tla and EventLoopPool.tla model    *)
(* the parts that are coarse here.  Of a connection only state_, its loop  *)
(* and who holds a pointer to it are kept.  A failed assertion ends the    *)
(* program; crash names it.                                                *)
(***************************************************************************)
EXTENDS Integers, Sequences, SequencesExt, FiniteSets

CONSTANTS
    Clients,        \* the connections clients ask for
    IoLoops,        \* the loops of a pool
    Starters,       \* the threads that may call StartRun(), Base or others
    StartCalls,     \* bound: calls of StartRun() per thread
    IdMod,          \* next_conn_id wraps here: 2^32 in the code
    Uses            \* the ways in which a server is used (see UseType)

Base == "base"
Loops == {Base} \cup IoLoops

\* A way to use a server: whether it has a pool (without one the base loop serves
\* all), who calls StartRun(), how many descriptors the process may have, how many
\* the rest of it opens, whether clients close, who calls ApplyAllPeers(ForceClose),
\* and whether the owner quits the base loop and destroys the server.
UseType ==
    [pool : BOOLEAN, starters : SUBSET Starters, limit : Nat, others : Nat,
     closes : BOOLEAN, applier : {"none", "base", "app"}, destroys : BOOLEAN]

ServerAssumption ==
    /\ Base \notin IoLoops /\ IsFiniteSet(IoLoops) /\ IsFiniteSet(Clients)
    /\ StartCalls \in Nat /\ IdMod \in Nat \ {0}
    /\ Uses \subseteq UseType

VARIABLES
    use,                                \* the use made of this server
    start_once_, started_, listening_,  \* TcpServer, EventLoopPool, Acceptor
    th, calls,                          \* the threads inside StartRun()
    pending, refused,                   \* clients in the accept queue; dropped
    dummy, other,                       \* dummyfd_ is open; descriptors of others
    next_conn_id, turn,                 \* turn: the order in which loops are chosen
    connections_,                       \* id -> connection, Absent or Null
    state_, loopOf, name, removed,      \* of the connections; channel removed
    closed,                             \* how often HandleClose() has closed each
    functors_, batch, quit_, pc,        \* the loops
    lock_conn_,                         \* holder, or "none"
    applied, todo,                      \* ApplyAllPeers() called; what an iteration
                                        \* over connections_ has left
    closing,                            \* where its ForceClose() of another loop's
                                        \* connection is
    crash

startVars == <<use, start_once_, started_, listening_, th, calls>>
acceptVars == <<pending, refused, dummy, next_conn_id, turn>>
connVars == <<state_, loopOf, name, removed, closed>>
loopVars == <<functors_, batch, quit_, pc>>
iterVars == <<applied, todo, closing>>
vars == <<startVars, acceptVars, other, connections_, connVars, loopVars, lock_conn_,
          iterVars, crash>>

Absent == "absent"      \* no such key
Null == "null"          \* a key whose pointer was reset
Ids == 0 .. IdMod - 1

\* The loops of its pool, and those that serve connections.
PoolLoops == IF use.pool THEN IoLoops ELSE {}
ConnLoops == IF use.pool THEN IoLoops ELSE {Base}

Init ==
    /\ use \in Uses
    /\ start_once_ = FALSE /\ started_ = FALSE /\ listening_ = FALSE
    /\ th = [t \in Starters |-> "idle"] /\ calls = [t \in Starters |-> 0]
    /\ pending = {} /\ refused = {} /\ dummy = TRUE /\ other = 0
    /\ next_conn_id = 1 % IdMod
    /\ turn = SetToSeq(ConnLoops)
    /\ connections_ = [i \in Ids |-> Absent]
    /\ state_ = [c \in Clients |-> "none"]
    /\ loopOf = [c \in Clients |-> Base] /\ name = [c \in Clients |-> 0]
    /\ removed = {} /\ closed = [c \in Clients |-> 0]
    /\ functors_ = [l \in Loops |-> <<>>] /\ batch = [l \in Loops |-> <<>>]
    /\ quit_ = [l \in Loops |-> FALSE]
    /\ pc = [l \in Loops |-> <<IF l = Base THEN "poll" ELSE "off">>]
    /\ lock_conn_ = "none" /\ applied = FALSE /\ todo = {}
    /\ closing = <<"none">> /\ crash = "none"

\* Some functor, thread or the map holds a pointer to c.
Referenced(c) ==
    \/ \E i \in Ids : connections_[i] = c
    \/ \E l \in Loops : \/ \E f \in Range(functors_[l]) \cup Range(batch[l]) : c \in Range(f)
                        \/ c \in Range(pc[l])

\* Descriptors open: the sockets of the connections, dummyfd_ and the others'.
OpenFds ==
    Cardinality({c \in Clients : state_[c] # "none" /\ Referenced(c)})
      + (IF dummy THEN 1 ELSE 0) + other

At(l, label) == pc[l][1] = label
Goto(l, where) == pc' = [pc EXCEPT ![l] = where]

\* The loop is in Poll() and its thread is not inside StartRun().
Polling(l) == At(l, "poll") /\ \A t \in Starters : t = l => th[t] = "idle"

-----------------------------------------------------------------------------
(* The functors, by what they do in their loop *)

\* ConnectionEstablished()
Established(c) ==
    /\ IF state_[c] = "connecting"
       THEN state_' = [state_ EXCEPT ![c] = "connected"] /\ UNCHANGED crash
       ELSE crash' = "established" /\ UNCHANGED state_
    /\ UNCHANGED removed

\* ConnectionDestroyed()
Destroyed(c) ==
    /\ IF state_[c] \in {"connected", "disconnected"}
       THEN /\ state_' = [state_ EXCEPT ![c] = "disconnected"]
            /\ removed' = removed \cup {c}
            /\ UNCHANGED crash
       ELSE crash' = "destroyed" /\ UNCHANGED <<state_, removed>>

\* HandleClose() up to the close callback of the server, which takes lock_conn_.
HandleClose(l, c, back) ==
    IF state_[c] \in {"connected", "disconnecting"}
    THEN /\ state_' = [state_ EXCEPT ![c] = "disconnected"]
         /\ closed' = [closed EXCEPT ![c] = @ + 1]
         /\ Goto(l, <<"erase", c, back>>)
         /\ UNCHANGED crash
    ELSE crash' = "close" /\ UNCHANGED <<state_, closed, pc>>

\* A slip a programmer might make: start_once_ is never set.
StartForgets ==
    /\ IF started_ \/ listening_
       THEN crash' = "start" /\ UNCHANGED <<started_, listening_, pc>>
       ELSE /\ started_' = TRUE /\ listening_' = TRUE
            /\ pc' = [l \in Loops |-> IF l \in PoolLoops THEN <<"poll">> ELSE pc[l]]
            /\ UNCHANGED crash
    /\ UNCHANGED start_once_

\* The functor of StartRun(): the pool is started, then the acceptor listens.
Start ==
    /\ IF started_ \/ listening_
       THEN crash' = "start" /\ UNCHANGED <<started_, listening_, pc, start_once_>>
       ELSE /\ started_' = TRUE /\ listening_' = TRUE /\ start_once_' = TRUE
            /\ pc' = [l \in Loops |-> IF l \in PoolLoops THEN <<"poll">> ELSE pc[l]]
            /\ UNCHANGED crash

-----------------------------------------------------------------------------
(* StartRun(), called by the owner of the base loop or by another thread *)

\* if (!start_once_)
CallStartRun(t) ==
    /\ crash = "none" /\ t \in use.starters /\ th[t] = "idle" /\ calls[t] < StartCalls
    /\ t = Base => At(Base, "poll")
    /\ calls' = [calls EXCEPT ![t] = @ + 1]
    /\ th' = [th EXCEPT ![t] = IF start_once_ THEN "idle" ELSE "queue"]
    /\ UNCHANGED <<use, start_once_, started_, listening_, acceptVars, other, connections_,
                   connVars, loopVars, lock_conn_, iterVars, crash>>

\* RunInLoop(): at once in the thread of the loop, queued by another.
RunStart(t) ==
    /\ crash = "none" /\ th[t] = "queue"
    /\ th' = [th EXCEPT ![t] = "idle"]
    /\ IF t = Base
       THEN Start /\ UNCHANGED functors_
       ELSE /\ functors_' = [functors_ EXCEPT ![Base] = Append(@, <<"start">>)]
            /\ UNCHANGED <<start_once_, started_, listening_, pc, crash>>
    /\ UNCHANGED <<use, calls, acceptVars, other, connections_, connVars, batch, quit_,
                   lock_conn_, iterVars>>

-----------------------------------------------------------------------------
(* The base loop: the read callback of the acceptor *)

\* External: a client connects.
Connect(c) ==
    /\ crash = "none" /\ listening_ /\ ~At(Base, "gone")
    /\ state_[c] = "none" /\ c \notin pending \cup refused
    /\ ~\E l \in Loops : c \in Range(pc[l])
    /\ pending' = pending \cup {c}
    /\ UNCHANGED <<startVars, refused, dummy, next_conn_id, turn, other, connections_,
                   connVars, loopVars, lock_conn_, iterVars, crash>>

\* The base loop handles the events of the acceptor.
BaseFree == crash = "none" /\ Polling(Base) /\ listening_

\* ++next_conn_id
Bump(id) == (id + 1) % IdMod

\* The new-connection callback up to the lock: the name, the loop and the object of c.
NewConnection(c) ==
    /\ name' = [name EXCEPT ![c] = next_conn_id]
    /\ next_conn_id' = Bump(next_conn_id)
    /\ loopOf' = [loopOf EXCEPT ![c] = Head(turn)]
    /\ turn' = Append(Tail(turn), Head(turn))
    /\ state_' = [state_ EXCEPT ![c] = "connecting"]

\* accept4() succeeds, and new_connection_callback_ begins.
Accept ==
    /\ BaseFree /\ OpenFds < use.limit
    /\ \E c \in pending :
          /\ pending' = pending \ {c}
          /\ NewConnection(c)
          /\ Goto(Base, <<"insert", c>>)
    /\ UNCHANGED <<startVars, refused, dummy, other, connections_, removed, closed, functors_,
                   batch, quit_, lock_conn_, iterVars, crash>>

\* connections_[conn_name] = conn under the lock, then RunInLoop().
InsertEntry(c) ==
    /\ connections_' = [connections_ EXCEPT ![name[c]] = c]
    /\ IF loopOf[c] = Base
       THEN Established(c) /\ UNCHANGED functors_
       ELSE /\ functors_' = [functors_ EXCEPT ![loopOf[c]] = Append(@, <<"established", c>>)]
            /\ UNCHANGED <<state_, removed, crash>>

\* The rest of the new-connection callback.
Insert ==
    /\ crash = "none" /\ At(Base, "insert") /\ lock_conn_ = "none"
    /\ InsertEntry(pc[Base][2])
    /\ Goto(Base, <<"poll">>)
    /\ UNCHANGED <<startVars, acceptVars, other, loopOf, name, closed, batch, quit_,
                   lock_conn_, iterVars>>

\* EMFILE: close(dummyfd_) makes room.
CloseDummy ==
    /\ BaseFree /\ OpenFds >= use.limit /\ pending # {}
    /\ dummy' = FALSE
    /\ Goto(Base, <<"drop">>)
    /\ UNCHANGED <<startVars, pending, refused, next_conn_id, turn, other, connections_,
                   connVars, functors_, batch, quit_, lock_conn_, iterVars, crash>>

\* A slip a programmer might make: dummyfd_ is closed and nothing is accepted.
DropNot ==
    /\ crash = "none" /\ At(Base, "drop")
    /\ Goto(Base, <<"reopen">>)
    /\ UNCHANGED <<startVars, acceptVars, other, connections_, connVars, functors_, batch,
                   quit_, lock_conn_, iterVars, crash>>

\* accept() and close() of the client that waits, if there is room.
Drop ==
    /\ crash = "none" /\ At(Base, "drop")
    /\ IF OpenFds < use.limit
       THEN \E c \in pending : pending' = pending \ {c} /\ refused' = refused \cup {c}
       ELSE UNCHANGED <<pending, refused>>
    /\ Goto(Base, <<"reopen">>)
    /\ UNCHANGED <<startVars, dummy, next_conn_id, turn, other, connections_, connVars,
                   functors_, batch, quit_, lock_conn_, iterVars, crash>>

\* open("/dev/null") may fail like any other.
Reopen ==
    /\ crash = "none" /\ At(Base, "reopen")
    /\ dummy' = (OpenFds < use.limit)
    /\ Goto(Base, <<"poll">>)
    /\ UNCHANGED <<startVars, pending, refused, next_conn_id, turn, other, connections_,
                   connVars, functors_, batch, quit_, lock_conn_, iterVars, crash>>

\* External: the rest of the process opens and closes descriptors.
OtherFd ==
    /\ crash = "none"
    /\ \/ other < use.others /\ OpenFds < use.limit /\ other' = other + 1
       \/ other > 0 /\ other' = other - 1
    /\ UNCHANGED <<startVars, acceptVars, connections_, connVars, loopVars, lock_conn_,
                   iterVars, crash>>

-----------------------------------------------------------------------------
(* A loop *)

\* The client of c has closed: the read callback calls HandleClose().
PeerCloses(l) ==
    /\ crash = "none" /\ use.closes /\ Polling(l)
    /\ \E c \in Clients :
          /\ loopOf[c] = l /\ state_[c] \in {"connected", "disconnecting"}
          /\ HandleClose(l, c, "poll")
    /\ UNCHANGED <<startVars, acceptVars, other, connections_, loopOf, name, removed,
                   functors_, batch, quit_, lock_conn_, iterVars>>

\* A slip a programmer might make: the connection stays in the map.
EraseEntryNot(l, c) ==
    /\ functors_' = [functors_ EXCEPT ![l] = Append(@, <<"destroy", c>>)]
    /\ UNCHANGED <<connections_, crash>>

\* erase() by name, the assertion on its result, and ConnectionDestroyed() queued.
EraseEntry(l, c) ==
    IF connections_[name[c]] # Absent
    THEN /\ connections_' = [connections_ EXCEPT ![name[c]] = Absent]
         /\ functors_' = [functors_ EXCEPT ![l] = Append(@, <<"destroy", c>>)]
         /\ UNCHANGED crash
    ELSE crash' = "erase" /\ UNCHANGED <<connections_, functors_>>

\* The close callback of the server, once it has the lock.
Erase(l) ==
    /\ crash = "none" /\ At(l, "erase") /\ lock_conn_ = "none"
    /\ EraseEntry(l, pc[l][2])
    /\ Goto(l, <<pc[l][3]>>)
    /\ UNCHANGED <<startVars, acceptVars, other, connVars, batch, quit_, lock_conn_, iterVars>>

\* CallFunctors() takes the functors, unless the loop is to quit.
TakeFunctors(l) ==
    /\ crash = "none" /\ Polling(l)
    /\ functors_[l] # <<>> \/ quit_[l]
    /\ IF quit_[l]
       THEN Goto(l, <<"stopped">>) /\ UNCHANGED <<functors_, batch>>
       ELSE /\ batch' = [batch EXCEPT ![l] = functors_[l]]
            /\ functors_' = [functors_ EXCEPT ![l] = <<>>]
            /\ Goto(l, <<"batch">>)
    /\ UNCHANGED <<startVars, acceptVars, other, connections_, connVars, quit_, lock_conn_,
                   iterVars, crash>>

\* One functor of the batch.
RunFunctor(l) ==
    /\ crash = "none" /\ At(l, "batch") /\ batch[l] # <<>>
    /\ LET f == Head(batch[l])
       IN
          \/ f[1] = "start" /\ Start /\ UNCHANGED <<state_, removed, closed>>
          \/ f[1] = "established" /\ Established(f[2])
             /\ UNCHANGED <<start_once_, started_, listening_, pc, closed>>
          \/ f[1] = "destroy" /\ Destroyed(f[2])
             /\ UNCHANGED <<start_once_, started_, listening_, pc, closed>>
          \/ f[1] = "close" /\ HandleClose(l, f[2], "batch")
             /\ UNCHANGED <<start_once_, started_, listening_, removed>>
    /\ batch' = [batch EXCEPT ![l] = Tail(@)]
    /\ UNCHANGED <<use, th, calls, acceptVars, other, connections_, loopOf, name, functors_,
                   quit_, lock_conn_, iterVars>>

\* All have run: the loop looks at quit_ and polls again.
BatchDone(l) ==
    /\ crash = "none" /\ At(l, "batch") /\ batch[l] = <<>>
    /\ Goto(l, <<IF quit_[l] THEN "stopped" ELSE "poll">>)
    /\ UNCHANGED <<startVars, acceptVars, other, connections_, connVars, functors_, batch,
                   quit_, lock_conn_, iterVars, crash>>

\* Return from BackGroundStartLoop(): the EventLoop and its functors are destroyed.
EndLoop(l) ==
    /\ crash = "none" /\ l # Base /\ At(l, "stopped")
    /\ functors_' = [functors_ EXCEPT ![l] = <<>>]
    /\ Goto(l, <<"ended">>)
    /\ UNCHANGED <<startVars, acceptVars, other, connections_, connVars, batch, quit_,
                   lock_conn_, iterVars, crash>>

-----------------------------------------------------------------------------
(* ApplyAllPeers() with a callback that calls ForceClose() *)

\* The lock is taken, by user code in the base loop or by another thread.
ApplyAllPeers ==
    /\ crash = "none" /\ use.applier # "none" /\ ~applied /\ lock_conn_ = "none"
    /\ IF use.applier = "base"
       THEN BaseFree /\ Goto(Base, <<"apply">>)
       ELSE listening_ /\ ~(At(Base, "dtor") \/ At(Base, "gone")) /\ UNCHANGED pc
    /\ lock_conn_' = use.applier
    /\ applied' = TRUE
    /\ todo' = {c \in Clients : \E i \in Ids : connections_[i] = c}
    /\ UNCHANGED <<startVars, acceptVars, other, connections_, connVars, functors_, batch,
                   quit_, closing, crash>>

\* The thread that called ApplyAllPeers() goes on.
Applying ==
    /\ crash = "none" /\ use.applier # "none" /\ lock_conn_ = use.applier
    /\ use.applier = "base" => At(Base, "apply")

\* ForceClose() of one connection looks at its state_; in its own thread HandleClose()
\* follows at once.
ApplyOne ==
    /\ Applying /\ closing = <<"none">>
    /\ \E c \in todo :
          /\ todo' = todo \ {c}
          /\ IF state_[c] \notin {"connected", "disconnecting"}
             THEN UNCHANGED <<state_, closed, pc, closing, crash>>
             ELSE IF use.applier = "base" /\ loopOf[c] = Base
             THEN HandleClose(Base, c, "apply") /\ UNCHANGED closing
             ELSE closing' = <<"set", c>> /\ UNCHANGED <<state_, closed, pc, crash>>
    /\ UNCHANGED <<startVars, acceptVars, other, connections_, loopOf, name, removed,
                   functors_, batch, quit_, lock_conn_, applied>>

\* From another thread it then writes state_, whatever it is by now.
ForceCloseSet ==
    /\ Applying /\ closing[1] = "set"
    /\ state_' = [state_ EXCEPT ![closing[2]] = "disconnecting"]
    /\ closing' = <<"queue", closing[2]>>
    /\ UNCHANGED <<startVars, acceptVars, other, connections_, loopOf, name, removed, closed,
                   loopVars, lock_conn_, applied, todo, crash>>

\* And it queues HandleClose() to the loop of the connection.
ForceCloseQueue ==
    /\ Applying /\ closing[1] = "queue"
    /\ functors_' = [functors_ EXCEPT ![loopOf[closing[2]]] = Append(@, <<"close", closing[2]>>)]
    /\ closing' = <<"none">>
    /\ UNCHANGED <<startVars, acceptVars, other, connections_, connVars, batch, quit_, pc,
                   lock_conn_, applied, todo, crash>>

\* The guard is released.
ApplyDone ==
    /\ Applying /\ todo = {} /\ closing = <<"none">>
    /\ IF use.applier = "base" THEN Goto(Base, <<"poll">>) ELSE UNCHANGED pc
    /\ lock_conn_' = "none"
    /\ UNCHANGED <<startVars, acceptVars, other, connections_, connVars, functors_, batch,
                   quit_, iterVars, crash>>

-----------------------------------------------------------------------------
(* ~TcpServer(), in the thread of the base loop, whose StartLoop() has returned *)

\* Nobody else uses the server any more.
Destroy ==
    /\ BaseFree /\ use.destroys /\ lock_conn_ = "none"
    /\ \A t \in Starters : th[t] = "idle"
    /\ Goto(Base, <<"dtor">>)
    /\ quit_' = [quit_ EXCEPT ![Base] = TRUE]
    /\ todo' = {i \in Ids : connections_[i] # Absent}
    /\ UNCHANGED <<startVars, acceptVars, other, connections_, connVars, functors_, batch,
                   lock_conn_, applied, closing, crash>>

\* RunInLoop() of ConnectionDestroyed().
DtorEntry(c) ==
    IF loopOf[c] = Base
    THEN Destroyed(c) /\ UNCHANGED functors_
    ELSE /\ functors_' = [functors_ EXCEPT ![loopOf[c]] = Append(@, <<"destroy", c>>)]
         /\ UNCHANGED <<state_, removed, crash>>

\* One round of the loop over connections_, without the lock; an entry erased under
\* it is a dangling iterator.
DtorOne ==
    /\ crash = "none" /\ At(Base, "dtor")
    /\ \E i \in todo :
          LET c == connections_[i]
          IN  /\ todo' = todo \ {i}
              /\ IF c = Absent
                 THEN /\ crash' \in {"none", "iterator"}
                      /\ UNCHANGED <<connections_, functors_, state_, removed>>
                 ELSE /\ connections_' = [connections_ EXCEPT ![i] = Null]
                      /\ DtorEntry(c)
    /\ UNCHANGED <<startVars, acceptVars, other, loopOf, name, closed, batch, quit_, pc,
                   lock_conn_, applied, closing>>

\* pool_ is destroyed: each loop is quit and its thread joined, one after the other.
QuitLoop(l) ==
    /\ crash = "none" /\ At(Base, "dtor") /\ todo = {}
    /\ \A k \in PoolLoops : quit_[k] => At(k, "ended")
    /\ l \in PoolLoops /\ ~quit_[l]
    /\ quit_' = [quit_ EXCEPT ![l] = TRUE]
    /\ UNCHANGED <<startVars, acceptVars, other, connections_, connVars, functors_, batch,
                   pc, lock_conn_, iterVars, crash>>

\* Then connections_ and the acceptor; the base loop drops its functors with itself.
Gone ==
    /\ crash = "none" /\ At(Base, "dtor") /\ todo = {}
    /\ \A k \in PoolLoops : At(k, "ended")
    /\ connections_' = [i \in Ids |-> Absent]
    /\ listening_' = FALSE /\ dummy' = FALSE
    /\ functors_' = [functors_ EXCEPT ![Base] = <<>>]
    /\ Goto(Base, <<"gone">>)
    /\ UNCHANGED <<use, start_once_, started_, th, calls, pending, refused, next_conn_id, turn,
                   other, connVars, batch, quit_, lock_conn_, iterVars, crash>>

-----------------------------------------------------------------------------
BaseStep ==
    \/ Accept \/ Insert \/ CloseDummy \/ Drop \/ Reopen
    \/ DtorOne \/ Gone \/ \E l \in IoLoops : QuitLoop(l)

LoopStep(l) ==
    \/ Erase(l) \/ TakeFunctors(l) \/ RunFunctor(l) \/ BatchDone(l) \/ EndLoop(l)

ApplyStep == ApplyOne \/ ForceCloseSet \/ ForceCloseQueue \/ ApplyDone

Next ==
    \/ \E t \in Starters : CallStartRun(t) \/ RunStart(t)
    \/ \E c \in Clients : Connect(c)
    \/ BaseStep \/ OtherFd \/ Destroy
    \/ \E l \in Loops : LoopStep(l) \/ PeerCloses(l)
    \/ ApplyAllPeers \/ ApplyStep

Spec == Init /\ [][Next]_vars

\* Every thread goes on with what it has begun, and a loop handles what is ready.  No
\* client has to connect or to close, nobody has to call the server, and the rest of
\* the process may keep its descriptors.
Fairness ==
    /\ WF_vars(BaseStep)
    /\ \A l \in Loops : WF_vars(LoopStep(l))
    /\ \A t \in Starters : WF_vars(RunStart(t))
    /\ WF_vars(ApplyStep)

FairSpec == Spec /\ Fairness

-----------------------------------------------------------------------------
\* While the server stands, connections_ holds exactly the connections that
\* HandleClose() has not closed yet, each under its own name: the close callback of any
\* loop, the accept of the base loop and ApplyAllPeers() see the same ones, also when a
\* ForceClose() of another thread has written state_ over that of a closed connection.
MapExact ==
    ~At(Base, "dtor") /\ ~At(Base, "gone") =>
        \A c \in Clients :
            (\E i \in Ids : connections_[i] = c) <=>
                /\ state_[c] # "none"
                /\ pc[Base] # <<"insert", c>>
                /\ \/ closed[c] = 0
                   \/ closed[c] = 1 /\ \E l \in Loops : At(l, "erase") /\ pc[l][2] = c

\* Whether ApplyAllPeers() closes connections of other threads' loops.
ClosesFromAfar == use.applier = "app" \/ (use.applier = "base" /\ use.pool)

\* An assertion of StartRun() fails only where it was called more than once and from
\* another thread.  Those of HandleClose() and, when it is called a second time, of the
\* close callback on erase() fail only where a client closes a connection that
\* ApplyAllPeers() closes from another thread; the one of ConnectionDestroyed() only
\* where a server without a pool is destroyed before the closes queued by another thread
\* have run; and an iterator dangles only where a connection closes while ~TcpServer()
\* walks over connections_ of a server with a pool.  The one of ConnectionEstablished()
\* never fails.
AssertionsHold ==
    \/ crash = "none"
    \/ /\ crash = "start"
       /\ \E t \in Starters \ {Base} :
             /\ calls[t] > 0
             /\ calls[t] > 1 \/ \E u \in Starters \ {t} : calls[u] > 0
    \/ crash = "close" /\ use.closes /\ ClosesFromAfar
    \/ crash = "erase" /\ use.closes /\ ClosesFromAfar /\ \E c \in Clients : closed[c] = 2
    \/ crash = "destroyed" /\ use.destroys /\ ~use.pool /\ use.applier = "app"
    \/ crash = "iterator" /\ use.destroys /\ use.pool /\ (use.closes \/ use.applier # "none")

Standing == ~At(Base, "dtor") /\ ~At(Base, "gone")

\* While the server stands, the last pointer to a connection goes only after
\* ConnectionDestroyed() has removed its channel from the loop.  When it is destroyed
\* that functor may be dropped with the loop, but unless the server has a pool
\* ~ConnectionBase() still finds the connection disconnected, as it asserts.
FreedRemoved ==
    \A c \in Clients :
        state_[c] # "none" /\ ~Referenced(c) =>
            /\ Standing => c \in removed
            /\ Standing \/ ~use.pool => state_[c] \in {"disconnecting", "disconnected"}

\* A connection is in connections_ as long as it is open and is not freed before its
\* loop has given it up.
ConnectionsTracked == MapExact /\ FreedRemoved

\* ApplyAllPeers() holds lock_conn_ while its callback closes connections of the
\* calling loop, whose close callback takes lock_conn_.
SelfLocks == use.applier = "base" /\ ~use.pool

\* The acceptor deals with all clients, also when the process has run out of
\* descriptors (unless the rest of it takes the one that dummyfd_ frees); connections
\* that have closed are freed; ApplyAllPeers() returns, unless it locks itself out;
\* and ~TcpServer() returns.
ServerProgress ==
    /\ (~SelfLocks /\ use.others = 0 /\ pending # {})
         ~> (pending = {} \/ ~Standing \/ crash # "none")
    /\ (~SelfLocks /\ \E c \in Clients : state_[c] = "disconnected" /\ Referenced(c))
         ~> \/ \A c \in Clients : state_[c] = "disconnected" => ~Referenced(c)
            \/ crash # "none"
    /\ (~SelfLocks /\ lock_conn_ # "none") ~> (lock_conn_ = "none" \/ crash # "none")
    /\ At(Base, "dtor") ~> (At(Base, "gone") \/ crash # "none")

\* StartRun() may be called many times and by several threads.
StartHarmless == crash # "start"
=============================================================================
