---------------------------- MODULE Demultiplexer ----------------------------
(***************************************************************************)
(* What a demultiplexer promises to its channels (PollerBase,              *)
(* kanon/net/poll/poller_base.h): a call for a channel changes what the    *)
(* kernel is asked for on its fd, to what the channel wants, and on no     *)
(* other fd; only what is watched is reported; and no channel is removed   *)
(* between its report and its handlers.  The one excuse to stop the        *)
(* program is a channel that wants nothing and was not removed.            *)
(***************************************************************************)
CONSTANTS
    Fds,        \* the file descriptors
    Events      \* what a channel may be interested in

VARIABLES
    wanted,     \* of every channel it has: the events the channel is interested in
    watched,    \* of every fd it has: the events the kernel is asked for
    reported,   \* the fds reported and not handled yet
    stopped     \* an assertion or a system call has failed

Nothing == [fd \in {} |-> {}]

Init == wanted = Nothing /\ watched = Nothing /\ reported = {} /\ stopped = FALSE

With(f, fd, es) == [g \in DOMAIN f \cup {fd} |-> IF g = fd THEN es ELSE f[g]]

Without(f, fd) == [g \in DOMAIN f \ {fd} |-> f[g]]

UpdateChannel(fd, es) ==
    /\ wanted' = With(wanted, fd, es)
    /\ watched' = With(watched, fd, es)
    /\ UNCHANGED <<reported, stopped>>

RemoveChannel(fd) ==
    /\ fd \notin reported
    /\ wanted' = Without(wanted, fd)
    /\ watched' = Without(watched, fd)
    /\ UNCHANGED <<reported, stopped>>

\* Poll() returns with some of the fds that are watched for something.
Report(fds) ==
    /\ reported = {} /\ reported' = fds
    /\ \A fd \in fds : fd \in DOMAIN watched /\ watched[fd] # {}
    /\ UNCHANGED <<wanted, watched, stopped>>

Handle(fd) ==
    /\ fd \in reported /\ reported' = reported \ {fd}
    /\ UNCHANGED <<wanted, watched, stopped>>

\* The program stops; what the channels then want or was reported is of no interest.
Stop ==
    /\ \E fd \in DOMAIN wanted : wanted[fd] = {}
    /\ stopped' = TRUE
    /\ UNCHANGED watched

Next ==
    /\ ~stopped
    /\ \/ Stop
       \/ \E fds \in SUBSET Fds : Report(fds)
       \/ \E fd \in Fds :
            \/ RemoveChannel(fd)
            \/ Handle(fd)
            \/ \E events \in SUBSET Events : UpdateChannel(fd, events)

Spec == Init /\ [][Next]_<<wanted, watched, reported, stopped>>
=============================================================================
