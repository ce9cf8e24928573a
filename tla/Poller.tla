------------------------------- MODULE Poller -------------------------------
(***************************************************************************)
(* The poll(2) demultiplexer (kanon/linux/net/poller.cc) with the channels *)
(* of its loop (kanon/linux/net/channel.h).  All of it runs in the thread  *)
(* of the loop, so a call is a step.                                       *)
(*                                                                         *)
(* Every fd has at most one channel at a time; a new channel may reuse the *)
(* fd of one that was removed.  The entry of an fd whose channel has no    *)
(* events holds -fd - 1, which poll() ignores.                             *)
(***************************************************************************)
EXTENDS Integers, Sequences, FiniteSets, SequencesExt

CONSTANTS
    Fds,        \* the file descriptors, natural numbers
    Events      \* ReadEvent and WriteEvent

VARIABLES
    pollfds_,   \* the array handed to poll(): entries [fd, events]
    mapped,     \* the fds in channels_map_
    events_,    \* Channel::events_ of the channel of an fd
    index_,     \* Channel::index_, -1 when new
    active,     \* active_channels: reported by Poll(), not handled yet
    failed      \* an assertion has failed

vars == <<pollfds_, mapped, events_, index_, active, failed>>

Init ==
    /\ pollfds_ = <<>>
    /\ mapped = {}
    /\ events_ = [fd \in Fds |-> {}]
    /\ index_ = [fd \in Fds |-> -1]
    /\ active = <<>>
    /\ failed = FALSE

\* The value that makes poll() ignore the entry.
Ignored(fd) == -fd - 1

\* The entry of a channel after its events have become es.
Entry(fd, es) == [fd |-> IF es = {} THEN Ignored(fd) ELSE fd, events |-> es]

\* UpdateChannel() for a channel that is not in channels_map_.
AddChannel(fd, es) ==
    /\ mapped' = mapped \cup {fd}
    /\ pollfds_' = Append(pollfds_, [fd |-> fd, events |-> es])
    /\ index_' = [index_ EXCEPT ![fd] = Len(pollfds_)]
    /\ failed' = (index_[fd] # -1)

\* UpdateChannel() for one that is: its entry must not be an ignored one.
ModChannel(fd, es) ==
    LET i == index_[fd] + 1
    IN  /\ IF i \in DOMAIN pollfds_ /\ pollfds_[i].fd = fd
           THEN /\ pollfds_' = [pollfds_ EXCEPT ![i] = Entry(fd, es)]
                /\ UNCHANGED failed
           ELSE /\ failed' = TRUE
                /\ UNCHANGED pollfds_
        /\ UNCHANGED <<mapped, index_>>

UpdateChannel(fd, es) == IF fd \in mapped THEN ModChannel(fd, es) ELSE AddChannel(fd, es)

\* EnableReading(), EnableWriting(), DisableReading(), DisableWriting() and
\* DisableAll() of a channel: events_ changes and Update() is called.  The first call
\* on a channel enables something.
Interest(fd, es) ==
    /\ fd \notin mapped => es # {}
    /\ events_' = [events_ EXCEPT ![fd] = es]
    /\ UpdateChannel(fd, es)
    /\ UNCHANGED active

\* The fd an entry stands for.
FdOf(entry) == IF entry.fd < 0 THEN Ignored(entry.fd) ELSE entry.fd

\* A slip a programmer might make: the entries behind the removed one move up.
RemoveChannelShift(fd) ==
    /\ fd \in mapped \ Range(active)
    /\ pollfds_' = RemoveAt(pollfds_, index_[fd] + 1)
    /\ index_' = [index_ EXCEPT ![FdOf(Last(pollfds_))] = index_[fd], ![fd] = -1]
    /\ mapped' = mapped \ {fd}
    /\ events_' = [events_ EXCEPT ![fd] = {}]
    /\ UNCHANGED <<active, failed>>

\* A slip a programmer might make: only the fd of the last entry is moved.
RemoveChannelFdOnly(fd) ==
    /\ fd \in mapped \ Range(active)
    /\ pollfds_' = Front([pollfds_ EXCEPT ![index_[fd] + 1].fd = Last(pollfds_).fd])
    /\ index_' = [index_ EXCEPT ![FdOf(Last(pollfds_))] = index_[fd], ![fd] = -1]
    /\ mapped' = mapped \ {fd}
    /\ events_' = [events_ EXCEPT ![fd] = {}]
    /\ UNCHANGED <<active, failed>>

\* RemoveChannel(): the last entry takes the place of the removed one, and its
\* channel learns the new index.  Its owner then destroys the channel, which no
\* handler of this round is left to use; the next one of this fd is new.
RemoveChannel(fd) ==
    /\ fd \in mapped \ Range(active)
    /\ LET i == index_[fd] + 1
           back == Last(pollfds_)
       IN  IF back.fd = fd
           THEN /\ pollfds_' = Front(pollfds_)
                /\ index_' = [index_ EXCEPT ![fd] = -1]
           ELSE /\ pollfds_' = Front([pollfds_ EXCEPT ![i] = back])
                /\ index_' = [index_ EXCEPT ![FdOf(back)] = i - 1, ![fd] = -1]
    /\ mapped' = mapped \ {fd}
    /\ events_' = [events_ EXCEPT ![fd] = {}]
    /\ UNCHANGED <<active, failed>>

\* The indices of the entries poll() may find ready.
Pollable == {i \in DOMAIN pollfds_ : pollfds_[i].fd >= 0}

\* Poll(): the channels of some of the polled entries, in the order of pollfds_.
Poll ==
    /\ active = <<>>
    /\ \E ready \in SUBSET Pollable \ {{}} :
          LET fds == [k \in 1 .. Cardinality(ready) |->
                         pollfds_[SetToSortSeq(ready, <)[k]].fd]
          IN  IF Range(fds) \subseteq mapped
              THEN active' = fds /\ UNCHANGED failed
              ELSE failed' = TRUE /\ UNCHANGED active
    /\ UNCHANGED <<pollfds_, mapped, events_, index_>>

\* The loop turns to the handlers of the next active channel, which then make their
\* calls.
HandleEvents ==
    /\ active # <<>>
    /\ active' = Tail(active)
    /\ UNCHANGED <<pollfds_, mapped, events_, index_, failed>>

Next ==
    /\ ~failed
    /\ \/ Poll
       \/ HandleEvents
       \/ \E fd \in Fds : RemoveChannel(fd)
       \/ \E fd \in Fds, es \in SUBSET Events : Interest(fd, es)

Spec == Init /\ [][Next]_vars

-----------------------------------------------------------------------------

\* index_ and pollfds_ are each other's inverse, whatever was swapped: every channel
\* in channels_map_ finds its own entry, there is no other entry, and an entry that
\* poll() can report is that of a channel that has asked for something.
IndexExact ==
    /\ index_ \in [Fds -> -1 .. Len(pollfds_) - 1]
    /\ \A fd \in mapped :
          /\ index_[fd] + 1 \in DOMAIN pollfds_
          /\ FdOf(pollfds_[index_[fd] + 1]) = fd
    /\ \A i \in DOMAIN pollfds_ :
          LET fd == FdOf(pollfds_[i])
          IN  fd \in mapped /\ index_[fd] = i - 1 /\ (pollfds_[i].fd = fd => events_[fd] # {})

\* The events of a channel may be changed and its fd reported at any time without a
\* failed assertion in UpdateChannel() or Poll(), except that a channel that has given
\* up all its events, and has an ignored entry for it, can not be updated again.
UpdateWorks ==
    failed => \E fd \in mapped :
                 pollfds_[index_[fd] + 1] = [fd |-> Ignored(fd), events |-> {}]

\* The fds poll() is called with, and the events it is asked for on each.
Watched ==
    [fd \in {FdOf(pollfds_[i]) : i \in DOMAIN pollfds_} |->
        UNION {pollfds_[i].events : i \in {j \in DOMAIN pollfds_ : pollfds_[j].fd = fd}}]

D == INSTANCE Demultiplexer WITH
        wanted <- [fd \in mapped |-> events_[fd]],
        watched <- Watched,
        reported <- Range(active),
        stopped <- failed

\* The poller implements the demultiplexer: UpdateChannel() and RemoveChannel() change
\* what poll() is asked for on the fd of that channel, to what it wants, and on no
\* other, whichever entry moves; Poll() reports only such fds; and it only fails its
\* assertions with a channel that wants nothing.
DemuxSpec == D!Spec
=============================================================================
