---------------------------- MODULE MCConnection ----------------------------
(***************************************************************************)
(* An instance of Connection for TLC.                                      *)
(***************************************************************************)
EXTENDS Connection

\* Everything happens in the IO thread: sends, half-closes and closes in
\* message_callback_; sends and half-closes in callbacks run as functors.
LoopOnly ==
    {[kinds |-> {"str", "buf"}, length |-> 2, thread |-> {},
      loop |-> {<<"events", "send">>, <<"events", "shutdown">>, <<"events", "close">>,
                <<"functors", "send">>, <<"functors", "shutdown">>},
      complete |-> FALSE]}
=============================================================================
