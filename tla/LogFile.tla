------------------------------- MODULE LogFile -------------------------------
(***************************************************************************)
(* LogFile: log entries are appended to the current file, which is rolled   *)
(* by size and by period; when log_file_num files have been written, all    *)
(* but the newest are handed to a remover thread.  A file is named after    *)
(* the second it was opened in.  log_files_dup_ is swapped outside          *)
(* remove_mtx_: the remover's loop over it is split where the writer's swap *)
(* can fall; an iteration torn in the middle is not modelled.               *)
(***************************************************************************)
EXTENDS Integers, Sequences, SequencesExt

CONSTANTS
  roll_size_,
  roll_interval_,
  flush_interval_,
  log_file_num_,
  MaxTime       \* bound: the clock

VARIABLES
  now,                          \* time(NULL)
  file_,                        \* the open file: its name
  writtenBytes_,                \* of the open file
  unflushed,                    \* entries in the stream buffer of the open file
  start_of_period_, last_roll_, last_flush_,
  log_files_, log_files_dup_,
  writer,                       \* "idle", or "notify": Append() before remove_mtx_
  pc, names,                    \* the remover: where it is, the files it removes
  quit_remove_thr_,
  disk,                         \* ghost: the files on disk
  opened                        \* ghost: every file ever opened, in order

vars == <<now, file_, writtenBytes_, unflushed, start_of_period_, last_roll_, last_flush_,
          log_files_, log_files_dup_, writer, pc, names, quit_remove_thr_, disk, opened>>

content == <<file_, writtenBytes_, unflushed, start_of_period_, last_roll_, last_flush_,
             log_files_, disk, opened>>

remover == <<pc, names>>

Init ==
  /\ now = 1
  /\ file_ = 1
  /\ writtenBytes_ = 0
  /\ unflushed = 0
  /\ start_of_period_ = 1 \div roll_interval_
  /\ last_roll_ = 1
  /\ last_flush_ = 1
  /\ log_files_ = <<1>>
  /\ log_files_dup_ = <<>>
  /\ writer = "idle"
  /\ pc = "check"
  /\ names = <<>>
  /\ quit_remove_thr_ = FALSE
  /\ disk = {1}
  /\ opened = <<1>>

Tick ==
  /\ now < MaxTime
  /\ now' = now + 1
  /\ UNCHANGED <<content, log_files_dup_, writer, remover, quit_remove_thr_>>

\* What RollFile() makes of the files: a new one, unless the last one is of this second;
\* closing the old one flushes it.
Rolled == now > last_roll_

RollFile ==
  IF Rolled
  THEN /\ file_' = now
       /\ writtenBytes_' = 0
       /\ unflushed' = 0
       /\ last_roll_' = now
       /\ last_flush_' = now
       /\ start_of_period_' = now \div roll_interval_
       /\ disk' = disk \cup {now}
       /\ opened' = Append(opened, now)
  ELSE /\ writtenBytes_' = writtenBytes_ + 1
       /\ unflushed' = unflushed + 1
       /\ UNCHANGED <<file_, last_roll_, last_flush_, start_of_period_, disk, opened>>

\* A slip a programmer might make: hand over every file, the open one too.
HandOver_all(files) ==
  IF Len(files) >= log_file_num_
  THEN /\ log_files_' = log_files_dup_
       /\ log_files_dup_' = files
       /\ writer' = "notify"
  ELSE /\ log_files_' = files
       /\ UNCHANGED <<log_files_dup_, writer>>

\* The end of Append(): all files but the last are swapped into log_files_dup_.
HandOver(files) ==
  IF Len(files) >= log_file_num_
  THEN /\ log_files_' = Append(log_files_dup_, Last(files))
       /\ log_files_dup_' = Front(files)
       /\ writer' = "notify"
  ELSE /\ log_files_' = files
       /\ UNCHANGED <<log_files_dup_, writer>>

\* Append() of one entry: write, roll by size or by period, or flush by interval.
AppendEntry ==
  LET period == now \div roll_interval_
      roll == writtenBytes_ + 1 > roll_size_ \/ period > start_of_period_
  IN  /\ writer = "idle"
      /\ ~quit_remove_thr_
      /\ writtenBytes_ <= roll_size_ + 1  \* bound: a second has few entries
      /\ IF roll THEN RollFile
         ELSE /\ writtenBytes_' = writtenBytes_ + 1
              /\ unflushed' = IF now - last_flush_ > flush_interval_ THEN 0 ELSE unflushed + 1
              /\ last_flush_' = IF now - last_flush_ > flush_interval_ THEN now ELSE last_flush_
              /\ UNCHANGED <<file_, last_roll_, start_of_period_, disk, opened>>
      /\ HandOver(IF roll /\ Rolled THEN Append(log_files_, now) ELSE log_files_)
      /\ UNCHANGED <<now, remover, quit_remove_thr_>>

\* KANON_MUTEX_GUARD(remove_mtx_) and the notification.
AppendNotify ==
  /\ writer = "notify"
  /\ writer' = "idle"
  /\ pc' = IF pc = "waiting" THEN "woken" ELSE pc
  /\ UNCHANGED <<now, content, log_files_dup_, names, quit_remove_thr_>>

Flush ==
  /\ writer = "idle"
  /\ unflushed > 0
  /\ unflushed' = 0
  /\ UNCHANGED <<now, file_, writtenBytes_, start_of_period_, last_roll_, last_flush_, log_files_,
                 log_files_dup_, writer, remover, quit_remove_thr_, disk, opened>>

-----------------------------------------------------------------------------
(* The remover thread, and the destructor.                                  *)

RemoverCheck ==
  /\ pc = "check"
  /\ pc' = IF quit_remove_thr_ THEN "ended" ELSE "lock"
  /\ UNCHANGED <<now, content, log_files_dup_, writer, names, quit_remove_thr_>>

RemoverLock ==
  /\ pc = "lock"
  /\ pc' = IF Len(log_files_dup_) < log_file_num_ - 1 THEN "waiting" ELSE "woken"
  /\ UNCHANGED <<now, content, log_files_dup_, writer, names, quit_remove_thr_>>

\* The loop over log_files_dup_, then clear().
RemoverRead ==
  /\ pc = "woken"
  /\ names' = log_files_dup_
  /\ pc' = "remove"
  /\ UNCHANGED <<now, content, log_files_dup_, writer, quit_remove_thr_>>

RemoverRemove ==
  /\ pc = "remove"
  /\ disk' = disk \ ToSet(names)
  /\ names' = <<>>
  /\ pc' = "clear"
  /\ UNCHANGED <<now, file_, writtenBytes_, unflushed, start_of_period_, last_roll_, last_flush_,
                 log_files_, log_files_dup_, writer, quit_remove_thr_, opened>>

RemoverClear ==
  /\ pc = "clear"
  /\ log_files_dup_' = <<>>
  /\ pc' = "check"
  /\ UNCHANGED <<now, content, writer, names, quit_remove_thr_>>

\* ~LogFile(): the flag and a notification without the mutex, then Join().
Destroy ==
  /\ writer = "idle"
  /\ ~quit_remove_thr_
  /\ quit_remove_thr_' = TRUE
  /\ pc' = IF pc = "waiting" THEN "woken" ELSE pc
  /\ UNCHANGED <<now, content, log_files_dup_, writer, names>>

\* Join() returned; or the remover slept after the notification, and Join() waits.
Ended ==
  /\ quit_remove_thr_
  /\ pc \in {"ended", "waiting"}
  /\ UNCHANGED vars

Next ==
  \/ Tick \/ AppendEntry \/ AppendNotify \/ Flush \/ Destroy \/ Ended
  \/ RemoverCheck \/ RemoverLock \/ RemoverRead \/ RemoverRemove \/ RemoverClear

Spec == Init /\ [][Next]_vars

-----------------------------------------------------------------------------
(* Whatever the order of writes, rolls and removals, the open file is the   *)
(* last one listed, stays on disk and is never about to be removed; and no  *)
(* two files ever have the same name, although names have the resolution of *)
(* a second and a roll by size may be asked for at any time.                *)
OpenFileKept ==
  /\ file_ \in disk
  /\ log_files_ # <<>> /\ file_ = Last(log_files_)
  /\ file_ \notin ToSet(names) \cup ToSet(log_files_dup_)
  /\ \A i, j \in DOMAIN opened : opened[i] = opened[j] => i = j
=============================================================================
