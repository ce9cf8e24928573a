----------------------------- MODULE RpcChannel ------------------------------
(***************************************************************************)
(* RpcChannel, client and server end of one connection.  CallMethod() takes *)
(* an id with a load and a later fetch_add, and hands the request to the    *)
(* loop; SendRpcRequest() registers the call, sends it and starts its       *)
(* deadline timer; the server's service may answer from another thread, in  *)
(* any order; RpcServer deletes its channel when the connection goes down.  *)
(* Both directions of the connection are FIFO (see Connection and PbCodec). *)
(***************************************************************************)
EXTENDS Integers, Sequences, FiniteSets

CONSTANTS
  Calls,  \* the calls made: each is one CallMethod()
  Wrap    \* ids are modulo Wrap; the code's uint64_t

VARIABLES
  callers,            \* "one" thread calls, or "many"
  kind,               \* [call -> "plain", "deadline", "notify" (no done) or "unknown" method]
  id_,                \* the client channel's next id
  pc,                 \* [call -> "new", "loaded", "queued", "sent"]
  id,                 \* [call -> the id its message carries]
  functors,           \* the loop's pending SendRpcRequest() calls
  outstanding_calls_, \* [id -> call] of the client
  timers,             \* the ids whose deadline timer is armed
  requests, replies,  \* the two directions of the connection
  working,            \* the calls the services are working on
  channel,            \* the server's channel: "live" or "deleted"
  aborted,            \* the client: "no", by LOG_FATAL on an "error", by an "assertion"
  ran,                \* ghost: [call -> the calls whose response its done was run with]
  expired             \* ghost: the calls a deadline timer erased

vars == <<callers, kind, id_, pc, id, functors, outstanding_calls_, timers, requests,
          replies, working, channel, aborted, ran, expired>>

client == <<id_, pc, id, functors>>

server == <<working, channel>>

Init ==
  /\ callers \in {"one", "many"}
  /\ kind \in [Calls -> {"plain", "deadline", "notify", "unknown"}]
  /\ id_ \in {0, Wrap - 1}    \* the client's constructor leaves it uninitialised
  /\ pc = [c \in Calls |-> "new"]
  /\ id = [c \in Calls |-> 0]
  /\ functors = <<>>
  /\ outstanding_calls_ = [i \in {} |-> 0]
  /\ timers = {}
  /\ requests = <<>>
  /\ replies = <<>>
  /\ working = {}
  /\ channel = "live"
  /\ aborted = "no"
  /\ ran = [c \in Calls |-> {}]
  /\ expired = {}

Without(f, i) == [j \in (DOMAIN f) \ {i} |-> f[j]]

-----------------------------------------------------------------------------
(* The client.                                                              *)

\* CallMethod(): id_.load().
CallLoad(c) ==
  /\ aborted = "no"
  /\ pc[c] = "new"
  /\ callers = "one" => \A d \in Calls : pc[d] # "loaded"
  /\ id' = [id EXCEPT ![c] = id_]
  /\ pc' = [pc EXCEPT ![c] = "loaded"]
  /\ UNCHANGED <<callers, kind, id_, functors, outstanding_calls_, timers, requests, replies,
                 server, aborted, ran, expired>>

\* CallMethod(): id_.fetch_add(1), the message, RunInLoop().
CallMethod(c) ==
  /\ aborted = "no"
  /\ pc[c] = "loaded"
  /\ id_' = (id_ + 1) % Wrap
  /\ pc' = [pc EXCEPT ![c] = "queued"]
  /\ functors' = Append(functors, c)
  /\ UNCHANGED <<callers, kind, id, outstanding_calls_, timers, requests, replies, server,
                 aborted, ran, expired>>

\* SendRpcRequest() in the loop: emplace() keeps an entry that is already there.
SendRpcRequest ==
  /\ aborted = "no"
  /\ functors # <<>>
  /\ LET c == Head(functors) IN
     /\ functors' = Tail(functors)
     /\ pc' = [pc EXCEPT ![c] = "sent"]
     /\ requests' = Append(requests, c)
     /\ outstanding_calls_' =
          IF kind[c] = "notify" THEN outstanding_calls_
          ELSE [i \in DOMAIN outstanding_calls_ \cup {id[c]} |->
                  IF i \in DOMAIN outstanding_calls_ THEN outstanding_calls_[i] ELSE c]
     /\ timers' = IF kind[c] = "deadline" THEN timers \cup {id[c]} ELSE timers
  /\ UNCHANGED <<callers, kind, id_, id, replies, server, aborted, ran, expired>>

\* The deadline timer: the entry is erased, and nobody is told.
Deadline(i) ==
  /\ aborted = "no"
  /\ i \in timers
  /\ timers' = timers \ {i}
  /\ outstanding_calls_' = Without(outstanding_calls_, i)
  /\ expired' = IF i \in DOMAIN outstanding_calls_
                THEN expired \cup {outstanding_calls_[i]} ELSE expired
  /\ UNCHANGED <<callers, kind, client, requests, replies, server, aborted, ran>>

\* A slip a programmer might make: the entry of an answered call is kept.
OnRpcMessageForResponse_kept ==
  /\ aborted = "no"
  /\ replies # <<>>
  /\ LET r == Head(replies)
         i == id[r.call]
         good == ~r.error /\ i <= id_
     IN  /\ outstanding_calls_' = outstanding_calls_
         /\ aborted' = IF r.error THEN "error" ELSE IF good THEN "no" ELSE "assertion"
         /\ ran' = IF good /\ i \in DOMAIN outstanding_calls_
                   THEN [ran EXCEPT ![outstanding_calls_[i]] = @ \cup {r.call}] ELSE ran
  /\ replies' = Tail(replies)
  /\ UNCHANGED <<callers, kind, client, timers, requests, server, expired>>

\* OnRpcMessageForResponse(): an error aborts, an id above id_ fails an assertion, and an
\* answer nobody waits for is dropped.
OnRpcMessageForResponse ==
  /\ aborted = "no"
  /\ replies # <<>>
  /\ LET r == Head(replies)
         i == id[r.call]
         good == ~r.error /\ i <= id_
     IN  /\ outstanding_calls_' = IF r.error \/ good THEN Without(outstanding_calls_, i)
                                  ELSE outstanding_calls_
         /\ aborted' = IF r.error THEN "error" ELSE IF good THEN "no" ELSE "assertion"
         /\ ran' = IF good /\ i \in DOMAIN outstanding_calls_
                   THEN [ran EXCEPT ![outstanding_calls_[i]] = @ \cup {r.call}] ELSE ran
  /\ replies' = Tail(replies)
  /\ UNCHANGED <<callers, kind, client, timers, requests, server, expired>>

-----------------------------------------------------------------------------
(* The server.                                                              *)

\* ErrorHandle(): an answer that carries an error and no response.
ErrorHandle(c) == replies' = Append(replies, [call |-> c, error |-> TRUE])

\* A slip a programmer might make: no answer when the method is unknown.
OnRpcMessageForRequest_silent ==
  /\ channel = "live"
  /\ requests # <<>>
  /\ LET c == Head(requests) IN
     IF kind[c] = "unknown"
     THEN /\ UNCHANGED <<replies, working>>
     ELSE /\ working' = working \cup {c}
          /\ UNCHANGED replies
  /\ requests' = Tail(requests)
  /\ UNCHANGED <<callers, kind, client, outstanding_calls_, timers, channel, aborted, ran,
                 expired>>

\* OnRpcMessageForRequest(): a service starts on the call, or ErrorHandle() answers.
OnRpcMessageForRequest ==
  /\ channel = "live"
  /\ requests # <<>>
  /\ LET c == Head(requests) IN
     IF kind[c] = "unknown"
     THEN ErrorHandle(c) /\ UNCHANGED working
     ELSE /\ working' = working \cup {c}
          /\ UNCHANGED replies
  /\ requests' = Tail(requests)
  /\ UNCHANGED <<callers, kind, client, outstanding_calls_, timers, channel, aborted, ran,
                 expired>>

\* OnRpcMessage(): the type of a message picks its handler.
OnRpcMessage == OnRpcMessageForResponse \/ OnRpcMessageForRequest

\* The service is done with c, in whatever thread: done->Run() is SendRpcResponse().
SendRpcResponse(c) ==
  /\ c \in working
  /\ working' = working \ {c}
  /\ IF channel = "live"
     THEN replies' = Append(replies, [call |-> c, error |-> FALSE])
     ELSE UNCHANGED replies    \* the deleted channel's connection: no defined outcome
  /\ UNCHANGED <<callers, kind, client, outstanding_calls_, timers, requests, channel, aborted,
                 ran, expired>>

\* RpcServer's connection callback on a connection that went down.
Disconnect ==
  /\ channel = "live"
  /\ channel' = "deleted"
  /\ requests' = <<>>
  /\ UNCHANGED <<callers, kind, client, outstanding_calls_, timers, replies, working, aborted,
                 ran, expired>>

Finished ==
  /\ \/ aborted # "no"
     \/ (\A c \in Calls : pc[c] = "sent") /\ timers = {} /\ replies = <<>>
  /\ working = {} /\ channel = "deleted"
  /\ UNCHANGED vars

Next ==
  \/ \E c \in Calls : CallLoad(c) \/ CallMethod(c) \/ SendRpcResponse(c)
  \/ \E i \in timers : Deadline(i)
  \/ SendRpcRequest
  \/ OnRpcMessage
  \/ Disconnect
  \/ Finished

\* What the loops, the services and a thread inside CallMethod() go on doing; calls need
\* not be made and the connection need not go down.
Runs ==
  \/ \E c \in Calls : CallMethod(c) \/ SendRpcResponse(c)
  \/ \E i \in timers : Deadline(i)
  \/ SendRpcRequest \/ OnRpcMessage

Fairness == WF_vars(Runs)

Spec == Init /\ [][Next]_vars /\ Fairness

-----------------------------------------------------------------------------
\* id_ has gone past its last value, and is below the id of a call.
Wrapped == \E c \in Calls : pc[c] # "new" /\ id[c] > id_

(* When one thread makes the calls: a done runs at most once, with the      *)
(* response to its own call and never after its deadline erased it; every   *)
(* call that was sent with a done is registered until it is answered or     *)
(* erased, so an answer cannot arrive before its entry; no entry is left    *)
(* behind by a call that was answered; and "The id in response should be    *)
(* not greater than the id_" fails only once id_ has wrapped around.        *)
RpcAnswers ==
  callers = "one" =>
    /\ \A c \in Calls : ran[c] \subseteq {c} /\ (c \in expired => ran[c] = {})
    /\ aborted # "error" => \A c \in Calls :
         (pc[c] = "sent" /\ kind[c] # "notify" /\ ran[c] = {} /\ c \notin expired)
         <=> (id[c] \in DOMAIN outstanding_calls_ /\ outstanding_calls_[id[c]] = c)
    /\ aborted = "assertion" => Wrapped

(* A plain call made by a single calling thread is answered (its done runs) *)
(* unless the connection goes down, an error reply aborts the client, or    *)
(* id_, which starts from any value, wraps around while calls are out and   *)
(* the assertion on the id of a good answer stops the client; a call with a *)
(* deadline is answered or erased.                                          *)
RpcProgress ==
  \A c \in Calls :
    (pc[c] = "loaded" /\ callers = "one" /\ kind[c] # "notify")
      ~> \/ ran[c] # {} \/ c \in expired \/ channel = "deleted"
         \/ aborted = "error" \/ (aborted = "assertion" /\ Wrapped)
=============================================================================
