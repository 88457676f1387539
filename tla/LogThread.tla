----------------------------- MODULE LogThread -----------------------------
(***************************************************************************)
(* The log writer of sys_log.c: the event loop of the station (the main    *)
(* thread) puts lines into outbuf, a second thread writes them to the log  *)
(* file, which is rotated when it has become too long.                     *)
(*                                                                         *)
(* mxfill guards outbuf and outfill.  mxcond is held by the log thread     *)
(* except while it waits for condvar, and by sys_flushLog: so outbuf is    *)
(* written to the file by one thread at a time.  Exit is taken by the main *)
(* thread at the end of a handler or, for a signal, anywhere: the handler  *)
(* calls exit(), which runs sys_flushLog.                                  *)
(*                                                                         *)
(* A step is what a thread does between two calls that lock, wait, signal  *)
(* or write.  Files do not fail; the text of a line is its bytes, numbered *)
(* in the order in which they got into outbuf.                             *)
(***************************************************************************)
EXTENDS Integers, Sequences, SequencesExt, FiniteSets, FiniteSetsExt

CONSTANTS
  LOG_OUTSIZ,  \* size of outbuf
  size,        \* logfile->size: the file is rotated when it has got as long
  rotate,      \* logfile->rotate: number of old files
  Lengths,     \* lengths of log lines
  MaxBytes     \* bound: bytes accepted

ASSUME LogThreadAssumption ==
  /\ {LOG_OUTSIZ, rotate, MaxBytes} \subseteq Nat
  /\ {size} \cup Lengths \subseteq Nat \ {0}

VARIABLES
  main,    \* where the main thread is: a label
  ret,     \* sys_flushLog returns to: "loop", "exited"
  len,     \* main thread: length of the line it adds
  thread,  \* where the log thread is: a label, "none" before it runs
  tlen,    \* log thread: the len it has read
  mxcond,  \* owner of the mutex: "main", "thread", "none"
  mxfill,
  outbuf,  \* outbuf up to outfill
  delay,   \* timer is set
  path,    \* the log file
  old,     \* the old files by number; <<>> if there is none
  (* history *)
  accepted, \* bytes put into outbuf, or written at once
  written,  \* bytes written, in order
  held      \* mutexes the main thread held when a signal stopped it

mainVars == <<main, ret, len>>
threadVars == <<thread, tlen>>
files == <<path, old, written>>
vars == <<mainVars, threadVars, mxcond, mxfill, outbuf, delay, files, accepted, held>>
-----------------------------------------------------------------------------
LOG_HIGHWATER == LOG_OUTSIZ \div 2

(* writeLogData: once the file is long enough it gets the name of the      *)
(* first old file missing, or of the last one; without old files it is     *)
(* removed.                                                                *)
Slots == 0 .. rotate - 1
Missing == {i \in Slots : old[i] = <<>>}

(* Fault: the search does not stop at a missing file. *)
VictimLast == rotate - 1
Victim == IF Missing # {} THEN Min(Missing) ELSE rotate - 1

writeLogData(data) ==
  LET full == Len(path) >= size
  IN  /\ old' = IF full /\ Victim \in Slots THEN [old EXCEPT ![Victim] = path] ELSE old
      /\ path' = IF full THEN data ELSE path \o data
      /\ written' = written \o data

New(n) == [k \in 1 .. n |-> accepted + k]
Taken(n) == Min({LOG_OUTSIZ - Len(outbuf), n})
-----------------------------------------------------------------------------
Init ==
  /\ main = "loop" /\ ret = "loop" /\ len = 0
  /\ thread = "none" /\ tlen = 0
  /\ mxcond = "none" /\ mxfill = "none"
  /\ outbuf = <<>> /\ delay = FALSE
  /\ path = <<>> /\ old = [i \in Slots |-> <<>>]
  /\ accepted = 0 /\ written = <<>> /\ held = {}

(* sys_addLog and addLog *)
AddDirect(n) ==
  /\ main = "loop" /\ thread = "none" /\ accepted + n <= MaxBytes
  /\ writeLogData(New(n)) /\ accepted' = accepted + n
  /\ UNCHANGED <<mainVars, threadVars, mxcond, mxfill, outbuf, delay, held>>

Add(n) ==
  /\ main = "loop" /\ thread # "none" /\ accepted + n <= MaxBytes
  /\ main' = "add" /\ len' = n
  /\ UNCHANGED <<ret, threadVars, mxcond, mxfill, outbuf, delay, files, accepted, held>>

AddLocks ==
  /\ main = "add" /\ mxfill = "none"
  /\ mxfill' = "main" /\ main' = "copy"
  /\ UNCHANGED <<ret, len, threadVars, mxcond, outbuf, delay, files, accepted, held>>

(* A line that does not fit is cut. *)
Copy ==
  /\ main = "copy"
  /\ outbuf' = outbuf \o New(Taken(len)) /\ accepted' = accepted + Taken(len)
  /\ mxfill' = "none" /\ main' = IF Len(outbuf') >= LOG_HIGHWATER THEN "notify" ELSE "delay"
  /\ UNCHANGED <<ret, len, threadVars, mxcond, delay, files, held>>

Wakeup == thread' = IF thread = "wait" THEN "woken" ELSE thread

Notify ==
  /\ main = "notify"
  /\ Wakeup /\ main' = "loop"
  /\ UNCHANGED <<ret, len, tlen, mxcond, mxfill, outbuf, delay, files, accepted, held>>

SetDelay ==
  /\ main = "delay"
  /\ delay' = TRUE /\ main' = "loop"
  /\ UNCHANGED <<ret, len, threadVars, mxcond, mxfill, outbuf, files, accepted, held>>

(* The timer, and on_delay *)
Delayed ==
  /\ main = "loop" /\ delay
  /\ delay' = FALSE /\ main' = "on_delay"
  /\ UNCHANGED <<ret, len, threadVars, mxcond, mxfill, outbuf, files, accepted, held>>

OnDelayLocks ==
  /\ main = "on_delay" /\ mxfill = "none"
  /\ mxfill' = "main" /\ main' = "signal"
  /\ UNCHANGED <<ret, len, threadVars, mxcond, outbuf, delay, files, accepted, held>>

Signal ==
  /\ main = "signal"
  /\ IF outbuf # <<>> THEN Wakeup ELSE UNCHANGED thread
  /\ mxfill' = "none" /\ main' = "loop"
  /\ UNCHANGED <<ret, len, tlen, mxcond, outbuf, delay, files, accepted, held>>

(* sys_flushLog, called by a handler, by exit() or by exit() in the signal *)
(* handler                                                                 *)
Flush ==
  /\ main = "loop"
  /\ main' = "flush"
  /\ UNCHANGED <<ret, len, threadVars, mxcond, mxfill, outbuf, delay, files, accepted, held>>

Exit ==
  /\ main = "loop"
  /\ main' = "flush" /\ ret' = "exited"
  /\ UNCHANGED <<len, threadVars, mxcond, mxfill, outbuf, delay, files, accepted, held>>

Interrupt ==
  /\ ret = "loop" /\ main # "loop"
  /\ main' = "flush" /\ ret' = "exited"
  /\ held' = {m \in {"mxcond", "mxfill"} : [mxcond |-> mxcond, mxfill |-> mxfill][m] = "main"}
  /\ UNCHANGED <<len, threadVars, mxcond, mxfill, outbuf, delay, files, accepted>>

(* Fault: only mxfill is taken. *)
FlushLocksNot ==
  /\ main = "flush"
  /\ main' = "flush_fill"
  /\ UNCHANGED <<ret, len, threadVars, mxcond, mxfill, outbuf, delay, files, accepted, held>>

FlushLocks ==
  /\ main = "flush" /\ mxcond = "none"
  /\ mxcond' = "main" /\ main' = "flush_fill"
  /\ UNCHANGED <<ret, len, threadVars, mxfill, outbuf, delay, files, accepted, held>>

FlushLocksFill ==
  /\ main = "flush_fill" /\ mxfill = "none"
  /\ mxfill' = "main" /\ main' = "flush_write"
  /\ UNCHANGED <<ret, len, threadVars, mxcond, outbuf, delay, files, accepted, held>>

(* Fault: mxcond is kept. *)
FlushWritesKeeps ==
  /\ main = "flush_write"
  /\ writeLogData(outbuf) /\ outbuf' = <<>>
  /\ mxfill' = "none" /\ main' = ret
  /\ UNCHANGED <<ret, len, threadVars, mxcond, delay, accepted, held>>

FlushWrites ==
  /\ main = "flush_write"
  /\ writeLogData(outbuf) /\ outbuf' = <<>>
  /\ mxfill' = "none" /\ mxcond' = "none" /\ main' = ret
  /\ UNCHANGED <<ret, len, threadVars, delay, accepted, held>>

(* sys_startLogThread *)
StartThread ==
  /\ main = "loop" /\ thread = "none"
  /\ thread' = "start"
  /\ UNCHANGED <<mainVars, tlen, mxcond, mxfill, outbuf, delay, files, accepted, held>>
-----------------------------------------------------------------------------
(* thread_log *)
Up == main # "exited"

ThreadStarts ==
  /\ Up /\ thread = "start" /\ mxcond = "none"
  /\ thread' = "wait"
  /\ UNCHANGED <<mainVars, tlen, mxcond, mxfill, outbuf, delay, files, accepted, held>>

(* pthread_cond_wait may also return without a signal. *)
Spurious ==
  /\ Up /\ thread = "wait"
  /\ thread' = "woken"
  /\ UNCHANGED <<mainVars, tlen, mxcond, mxfill, outbuf, delay, files, accepted, held>>

ThreadLocks ==
  /\ Up /\ thread = "woken" /\ mxcond = "none"
  /\ mxcond' = "thread" /\ thread' = "look"
  /\ UNCHANGED <<mainVars, tlen, mxfill, outbuf, delay, files, accepted, held>>

Look ==
  /\ Up /\ thread = "look" /\ mxfill = "none"
  /\ tlen' = Len(outbuf)
  /\ IF tlen' = 0 THEN thread' = "wait" /\ mxcond' = "none" ELSE thread' = "write" /\ UNCHANGED mxcond
  /\ UNCHANGED <<mainVars, mxfill, outbuf, delay, files, accepted, held>>

ThreadWrites ==
  /\ Up /\ thread = "write"
  /\ writeLogData(SubSeq(outbuf, 1, Min({tlen, Len(outbuf)})))
  /\ thread' = "drop"
  /\ UNCHANGED <<mainVars, tlen, mxcond, mxfill, outbuf, delay, accepted, held>>

(* Fault: what has come meanwhile goes as well. *)
DropAll ==
  /\ Up /\ thread = "drop" /\ mxfill = "none"
  /\ outbuf' = <<>>
  /\ thread' = "wait" /\ mxcond' = "none"
  /\ UNCHANGED <<mainVars, tlen, mxfill, delay, files, accepted, held>>

Drop ==
  /\ Up /\ thread = "drop" /\ mxfill = "none"
  /\ outbuf' = SubSeq(outbuf, tlen + 1, Len(outbuf))
  /\ thread' = "wait" /\ mxcond' = "none"
  /\ UNCHANGED <<mainVars, tlen, mxfill, delay, files, accepted, held>>
-----------------------------------------------------------------------------
MainStep ==
  \/ AddLocks \/ Copy \/ Notify \/ SetDelay \/ Delayed \/ OnDelayLocks \/ Signal
  \/ FlushLocks \/ FlushLocksFill \/ FlushWrites

ThreadStep == ThreadStarts \/ ThreadLocks \/ Look \/ ThreadWrites \/ Drop

Next ==
  \/ \E n \in Lengths : AddDirect(n) \/ Add(n)
  \/ MainStep
  \/ Flush \/ Exit \/ Interrupt \/ StartThread
  \/ ThreadStep \/ Spurious

(* The operating system runs both threads.  SF: pthread_cond_wait does not *)
(* return without a signal so often that the log thread always gets mxcond *)
(* before a main thread that waits for it.                                 *)
Spec ==
  /\ Init /\ [][Next]_vars
  /\ WF_vars(MainStep) /\ WF_vars(ThreadStep) /\ SF_vars(FlushLocks)
-----------------------------------------------------------------------------
Numbers(n) == [k \in 1 .. n |-> k]

(* Bytes leave outbuf in the order in which they came, none twice and none *)
(* left out, although one thread copies them to the file while the other   *)
(* adds, or flushes (thread_log, sys_flushLog, addLog).                    *)
WrittenInOrder ==
  written \o SubSeq(outbuf, 1 + (IF thread = "drop" THEN tlen ELSE 0), Len(outbuf)) = Numbers(accepted)

(* exit() leaves nothing behind, also when the log thread was in the       *)
(* middle of its write (atexit(sys_flushLog)).                             *)
ExitFlushed == main = "exited" => written = Numbers(accepted)

(* No part of an accepted line is lost, doubled or out of order, up to and *)
(* including the end of the process.                                       *)
NoLineLost == WrittenInOrder /\ ExitFlushed

(* Rotation never breaks the recent log: an old file that was written to   *)
(* last, followed by the file in use, is the end of what was written; no   *)
(* byte is in two files; and nothing goes before every old file is in use  *)
(* (writeLogData).                                                         *)
RecentKept ==
  /\ IsSuffix(path, written)
  /\ \/ path = written
     \/ rotate = 0
     \/ \E i \in Slots : old[i] # <<>> /\ IsSuffix(old[i] \o path, written)
  /\ \A i \in Slots :
       Range(old[i]) \cap (Range(path) \cup UNION {Range(old[j]) : j \in Slots \ {i}}) = {}
  /\ Missing # {} => Range(written) = Range(path) \cup UNION {Range(old[i]) : i \in Slots}

(* A flush comes back, and exit() ends, unless the signal found the main   *)
(* thread with a mutex in its hands: the two threads never wait for one    *)
(* another (thread_log, sys_flushLog).                                     *)
FlushEnds == main = "flush" ~> main \in {"loop", "exited"} \/ held # {}

(* Lines that come while the log thread writes wait no longer than for the *)
(* flush that the timer starts (addLog, on_delay: LOG_LAG).                *)
LinesLeave == thread = "drop" /\ outbuf # <<>> ~> outbuf = <<>> \/ held # {}
=============================================================================
