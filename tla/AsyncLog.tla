------------------------------ MODULE AsyncLog -------------------------------
(***************************************************************************)
(* AsyncLog: front threads append messages to current_buffer_ under a       *)
(* mutex and push full buffers; one back thread takes all buffers every     *)
(* flush interval, or when one is full, writes them and recycles two of     *)
(* them.  A buffer is the sequence of its messages; Absent is a null        *)
(* unique_ptr.  Messages are numbered in the order the mutex gives them.    *)
(***************************************************************************)
EXTENDS Integers, Sequences, SequencesExt

CONSTANTS
  BufferSize,   \* the units of a FixedBuffer; a message has one
  BUFFER_BOUND,
  MaxMessages   \* bound: messages appended

VARIABLES
  running_,
  current_buffer_, next_buffer_, buffers_,  \* shared, under mutex_
  pc,                                       \* the back thread
  buffer1, buffer2, buffers_dup_,           \* the back thread's own
  signalled,    \* not_empty_ was notified while the back thread slept
  stopping,     \* Stop() is joining the back thread
  written,      \* the messages written, in order
  appended,     \* ghost: how many messages were appended
  discarded,    \* ghost: the messages given up because of BUFFER_BOUND
  nullUsed      \* ghost: back() of an empty vector was taken

vars == <<running_, current_buffer_, next_buffer_, buffers_, pc, buffer1, buffer2,
          buffers_dup_, signalled, stopping, written, appended, discarded, nullUsed>>

front == <<current_buffer_, next_buffer_, buffers_>>

back == <<buffer1, buffer2, buffers_dup_, written, discarded, nullUsed>>

Absent == <<-1>>

Init ==
  /\ running_ = TRUE
  /\ current_buffer_ = <<>> /\ next_buffer_ = <<>> /\ buffers_ = <<>>
  /\ pc = "check"
  /\ buffer1 = <<>> /\ buffer2 = <<>> /\ buffers_dup_ = <<>>
  /\ signalled = FALSE
  /\ stopping = FALSE
  /\ written = <<>>
  /\ appended = 0
  /\ discarded = {}
  /\ nullUsed = FALSE

avali(buf) == BufferSize - Len(buf)

\* FixedBuffer::Append(): a message that does not fit is dropped.
BufferAppend(buf, m) == IF 1 < avali(buf) THEN Append(buf, m) ELSE buf

-----------------------------------------------------------------------------
\* A slip a programmer might make: <= where the buffer itself tests <.
AppendMessage_tight ==
  LET m == appended + 1
      spare == IF next_buffer_ = Absent THEN <<>> ELSE next_buffer_
  IN  /\ appended < MaxMessages
      /\ ~stopping
      /\ appended' = m
      /\ IF 1 <= avali(current_buffer_)
         THEN /\ current_buffer_' = BufferAppend(current_buffer_, m)
              /\ UNCHANGED <<next_buffer_, buffers_, signalled>>
         ELSE /\ buffers_' = Append(buffers_, current_buffer_)
              /\ current_buffer_' = BufferAppend(spare, m)
              /\ next_buffer_' = Absent
              /\ signalled' = (signalled \/ pc = "waiting")
      /\ UNCHANGED <<running_, pc, back, stopping>>

\* Append() of one message by any front thread, under mutex_.
AppendMessage ==
  LET m == appended + 1
      spare == IF next_buffer_ = Absent THEN <<>> ELSE next_buffer_
  IN  /\ appended < MaxMessages
      /\ ~stopping
      /\ appended' = m
      /\ IF 1 < avali(current_buffer_)
         THEN /\ current_buffer_' = BufferAppend(current_buffer_, m)
              /\ UNCHANGED <<next_buffer_, buffers_, signalled>>
         ELSE /\ buffers_' = Append(buffers_, current_buffer_)
              /\ current_buffer_' = BufferAppend(spare, m)
              /\ next_buffer_' = Absent
              /\ signalled' = (signalled \/ pc = "waiting")
      /\ UNCHANGED <<running_, pc, back, stopping>>

\* Stop(): the flag, then a notification without the mutex, then Join().
Stop ==
  /\ running_
  /\ running_' = FALSE
  /\ stopping' = TRUE
  /\ signalled' = (signalled \/ pc = "waiting")
  /\ UNCHANGED <<front, pc, back, appended>>

-----------------------------------------------------------------------------
\* while (running_): the test is outside the mutex.
BackCheck ==
  /\ pc = "check"
  /\ pc' = IF running_ THEN "lock" ELSE "ended"
  /\ UNCHANGED <<running_, front, back, signalled, stopping, appended>>

\* The critical section after the wait: take everything, leave empty buffers.
Take ==
  /\ buffers_dup_' = Append(buffers_, current_buffer_)
  /\ buffers_' = <<>>
  /\ current_buffer_' = buffer1
  /\ buffer1' = Absent
  /\ next_buffer_' = IF next_buffer_ = Absent THEN buffer2 ELSE next_buffer_
  /\ buffer2' = IF next_buffer_ = Absent THEN Absent ELSE buffer2
  /\ pc' = "write"
  /\ signalled' = FALSE
  /\ UNCHANGED <<running_, written, discarded, nullUsed, stopping, appended>>

BackLock ==
  /\ pc = "lock"
  /\ IF buffers_ = <<>>
     THEN pc' = "waiting" /\ UNCHANGED <<running_, front, back, signalled, stopping, appended>>
     ELSE Take

\* A slip a programmer might make: wait for a full buffer without a timeout.
BackWake_untimed ==
  /\ pc = "waiting"
  /\ signalled
  /\ Take

\* WaitForSeconds() returns: notified, timed out or spuriously.
BackWake ==
  /\ pc = "waiting"
  /\ Take

\* The two vectors after one buffer was moved out of the back of dup.
Recycle(buf, dup) ==
  IF buf # Absent THEN [buf |-> buf, dup |-> dup, bad |-> FALSE]
  ELSE IF dup = <<>> THEN [buf |-> Absent, dup |-> dup, bad |-> TRUE]
  ELSE [buf |-> <<>>, dup |-> SubSeq(dup, 1, Len(dup) - 1), bad |-> FALSE]

\* Outside the mutex: discard the buffers beyond the bound, write the others, recycle
\* two of them, clear the rest and flush.
BackWrite ==
  LET kept == IF Len(buffers_dup_) > BUFFER_BOUND THEN SubSeq(buffers_dup_, 1, BUFFER_BOUND)
              ELSE buffers_dup_
      lost == SubSeq(buffers_dup_, Len(kept) + 1, Len(buffers_dup_))
      warm == IF Len(kept) > 2 THEN SubSeq(kept, 1, 2) ELSE kept
      one == Recycle(buffer1, warm)
      two == Recycle(buffer2, one.dup)
  IN  /\ pc = "write"
      /\ written' = written \o FlattenSeq(kept)
      /\ discarded' = discarded \cup ToSet(FlattenSeq(lost))
      /\ buffer1' = one.buf
      /\ buffer2' = two.buf
      /\ buffers_dup_' = <<>>
      /\ nullUsed' = (nullUsed \/ one.bad \/ two.bad)
      /\ pc' = "check"
      /\ UNCHANGED <<running_, front, signalled, stopping, appended>>

\* Stop() returned, and the program ends.
Joined ==
  /\ stopping /\ pc = "ended"
  /\ UNCHANGED vars

Next == AppendMessage \/ Stop \/ BackCheck \/ BackLock \/ BackWake \/ BackWrite \/ Joined

BackStep == BackCheck \/ BackLock \/ BackWake \/ BackWrite

\* The back thread is scheduled, and its wait has a timeout.
Fairness == WF_vars(BackStep)

Spec == Init /\ [][Next]_vars /\ Fairness

-----------------------------------------------------------------------------
(* Nothing is lost, doubled or reordered on the way through the buffers:    *)
(* what is written, being written, full and current is, in this order, all  *)
(* messages appended except those BUFFER_BOUND discarded.                   *)
LogInOrder ==
  written \o FlattenSeq(buffers_dup_) \o FlattenSeq(buffers_) \o current_buffer_
    = SelectSeq([m \in 1..appended |-> m], LAMBDA m : m \notin discarded)

(* The assertions at the top of the back thread's loop: it has two empty    *)
(* warm buffers again and an empty vector, which needs buffers_dup_ to hold *)
(* two buffers whenever both were given away; and a front thread always     *)
(* finds a current buffer.                                                  *)
BuffersRecycled ==
  /\ ~nullUsed
  /\ current_buffer_ # Absent
  /\ pc = "check" => buffer1 = <<>> /\ buffer2 = <<>> /\ buffers_dup_ = <<>>

(* Messages pass through buffers that are given away and come back: none is *)
(* lost on the way and no thread ever finds a buffer missing.               *)
LogSound == LogInOrder /\ BuffersRecycled

(* Once no more messages come, all that were appended are in the file or    *)
(* were discarded by the bound, also those in a buffer that is never filled, *)
(* unless Stop() comes first; and Stop() gets its back thread, although its  *)
(* notification is sent without the mutex.                                   *)
LogProgress ==
  /\ <>[](stopping \/ 1..appended \subseteq ToSet(written) \cup discarded)
  /\ stopping ~> (pc = "ended")
=============================================================================
