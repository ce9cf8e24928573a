------------------------------- MODULE Epoller -------------------------------
(***************************************************************************)
(* The epoll(7) demultiplexer (kanon/linux/net/epoller.cc) with the         *)
(* channels of its loop.  All of it runs in the thread of the loop, so a    *)
(* call is a step.  The kernel's table is external: epoll_ctl() fails, and  *)
(* with it the program, when it adds an fd twice or changes one that is not *)
(* in the table; epoll_wait() fills at most events_.size() events, and      *)
(* reports a hang-up or an error whatever the fd was registered for.        *)
(***************************************************************************)
EXTENDS Integers, FiniteSets

CONSTANTS
    Fds,            \* the file descriptors
    Events,         \* ReadEvent and WriteEvent
    kEventInitNums, \* the initial size of the array events_
    MaxSize         \* bound: the array is not followed further

VARIABLES
    table,      \* the kernel's: the fds it has, with their events
    interest,   \* Channel::events_ of the channel of an fd
    index,      \* Channel::index_: "new" or "added"
    size,       \* events_.size()
    ready,      \* active_channels: reported by Poll(), not handled yet
    fatal,      \* epoll_ctl() has failed
    asserted    \* the fd whose report failed the assertion, as a set

vars == <<table, interest, index, size, ready, fatal, asserted>>

Init ==
    /\ table = [fd \in {} |-> {}]
    /\ interest = [fd \in Fds |-> {}]
    /\ index = [fd \in Fds |-> "new"]
    /\ size = kEventInitNums
    /\ ready = {}
    /\ fatal = FALSE
    /\ asserted = {}

\* epoll_ctl(): the table with fd registered for es.
Registered(fd, es) == [f \in DOMAIN table \cup {fd} |-> IF f = fd THEN es ELSE table[f]]

\* UpdateEpollEvent() for EPOLL_CTL_ADD, EPOLL_CTL_MOD and EPOLL_CTL_DEL.
UpdateEpollEvent(op, fd, es) ==
    /\ fatal' = (op = "ADD" <=> fd \in DOMAIN table)
    /\ table' = IF fatal' THEN table
                ELSE IF op = "DEL" THEN [f \in DOMAIN table \ {fd} |-> table[f]]
                ELSE Registered(fd, es)

UpdateChannel(fd, es) ==
    /\ UpdateEpollEvent(IF index[fd] = "new" THEN "ADD" ELSE "MOD", fd, es)
    /\ index' = [index EXCEPT ![fd] = "added"]

\* EnableReading() and the other calls of a channel that end in Update().
Interest(fd, es) ==
    /\ interest' = [interest EXCEPT ![fd] = es]
    /\ UpdateChannel(fd, es)
    /\ UNCHANGED <<size, ready, asserted>>

\* RemoveChannel(), after which the channel is destroyed, as no handler of this round
\* is left to use it, or used again from the start.
RemoveChannel(fd) ==
    /\ fd \notin ready
    /\ IF index[fd] = "added"
       THEN UpdateEpollEvent("DEL", fd, {}) /\ index' = [index EXCEPT ![fd] = "new"]
       ELSE UNCHANGED <<fatal, table, index>>
    /\ interest' = [interest EXCEPT ![fd] = {}]
    /\ UNCHANGED <<size, ready, asserted>>

\* epoll_wait() may return these: each for an event it was registered for, or hung up.
Reportable(fds, hung) ==
    /\ fds # {} /\ Cardinality(fds) <= size
    /\ \A fd \in fds : fd \in hung \/ table[fd] # {}

\* Poll() and FillActiveChannels(): a channel without events must not be reported,
\* and an array that was filled is doubled.
Poll ==
    /\ ready = {}
    /\ \E fds, hung \in SUBSET DOMAIN table :
          /\ Reportable(fds, hung)
          /\ ready' = fds
          /\ asserted' = {fd \in fds : interest[fd] = {}}
          /\ size' = IF Cardinality(fds) = size THEN 2 * size ELSE size
    /\ size' <= MaxSize
    /\ UNCHANGED <<table, interest, index, fatal>>

\* The loop turns to the handlers of an active channel.
HandleEvents(fd) ==
    /\ fd \in ready
    /\ ready' = ready \ {fd}
    /\ UNCHANGED <<table, interest, index, size, fatal, asserted>>

Next ==
    /\ ~fatal /\ asserted = {}
    /\ \/ Poll
       \/ \E fd \in Fds : RemoveChannel(fd) \/ HandleEvents(fd)
       \/ \E fd \in Fds, es \in SUBSET Events : Interest(fd, es)

Spec == Init /\ [][Next]_vars

-----------------------------------------------------------------------------
\* index_ says whether the kernel has the fd, so that no epoll_ctl() ever fails, and
\* the kernel watches exactly what each channel has asked for; the array always has
\* room for all that is reported; and FillActiveChannels() only fails its assertion
\* for a channel that has given up all its events and is still registered, which a
\* hang-up reports.
EpollConsistent ==
    /\ ~fatal
    /\ \A fd \in Fds : index[fd] = "added" <=> fd \in DOMAIN table
    /\ \A fd \in DOMAIN table : table[fd] = interest[fd]
    /\ Cardinality(ready) <= size
    /\ \A fd \in asserted : fd \in DOMAIN table /\ table[fd] = {}

D == INSTANCE Demultiplexer WITH
        wanted <- [fd \in {f \in Fds : index[f] = "added"} |-> interest[fd]],
        watched <- table,
        reported <- ready,
        stopped <- fatal \/ asserted # {}

\* The epoller implements the same demultiplexer: epoll_ctl() changes what the kernel
\* watches on the fd of the channel that calls, and Poll() reports only such fds.
DemuxSpec == D!Spec
=============================================================================
