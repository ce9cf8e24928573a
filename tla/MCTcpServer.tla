----------------------------- MODULE MCTcpServer -----------------------------
(***************************************************************************)
(* An instance of TcpServer for TLC: a server started by two threads.      *)
(***************************************************************************)
EXTENDS TcpServer

\* Started by two threads, without a pool.
TwoStarters ==
    {[pool |-> FALSE, starters |-> {"t1", "t2"}, limit |-> 8, others |-> 0, closes |-> TRUE,
      applier |-> "none", destroys |-> FALSE]}
=============================================================================
