------------------------------- MODULE RmtSh -------------------------------
(***************************************************************************)
(* The remote shells of rmtsh.c: sessions that the LNS starts and stops by *)
(* messages, each a shell on a pseudo terminal.  What the shell writes is  *)
(* read into upbuf and sent in chunks, what the LNS sends goes through     *)
(* dnbuf to the terminal.  A frame without data tells the LNS that the     *)
(* session is over.                                                        *)
(*                                                                         *)
(* Shells run beside the station; the loop of up_read is a step for every  *)
(* read, so that a shell may write between two of them.  Every byte is a   *)
(* number of its own, hence bytes that get lost, swapped or into another   *)
(* session can be told apart.  Indices of sessions are in range.           *)
(***************************************************************************)
EXTENDS Integers, Sequences

CONSTANTS
  Sessions,          \* rmtshTable
  None,              \* no session
  UPBUFSZ, DNBUFSZ,  \* sizes of both buffers of a session
  WS_CHUNKS,         \* largest frame with output of a shell
  SENDBUF,           \* bytes that the send buffer of the connection takes
  TTYSZ,             \* bytes that a terminal holds in each direction
  Lengths,           \* bytes in a frame for a shell
  MaxOut, MaxIn,     \* bounds: bytes from and for all shells
  MaxStarts          \* bound: sessions started

ASSUME RmtShAssumption ==
  /\ None \notin Sessions
  /\ {UPBUFSZ, DNBUFSZ, WS_CHUNKS, SENDBUF, TTYSZ} \subseteq Nat \ {0}
  /\ UPBUFSZ > 1 /\ WS_CHUNKS > 1
  /\ Lengths \cup {MaxOut, MaxIn, MaxStarts} \subseteq Nat

VARIABLES
  tc,       \* "none": TC is NULL, "down": not connected, "up": connected
  session,  \* rmtshTable: run (aio is set), upbuf up to upfill, upsink, the same for dn, wrfn
  shell,    \* what a shell has written, what it has not read yet, and whether it ended
  reading,  \* the session whose up_read runs
  answer,   \* s2e_handleRmtsh still has to respond
  link,     \* room in the send buffer; which sessions the LNS takes for started;
            \* missed: a message about the session did not get to the LNS
  (* history of the session that runs *)
  made,     \* bytes the shell wrote
  seen,     \* bytes sent to the LNS
  given,    \* bytes the LNS sent
  typed,    \* bytes that went to the terminal
  dropped,  \* output was dropped as there was no TC
  (* bounds *)
  produced, received, starts

history == <<made, seen, given, typed, dropped>>
vars == <<tc, session, shell, reading, answer, link, history, produced, received, starts>>
-----------------------------------------------------------------------------
UPBUFHI == UPBUFSZ \div 2
Closed == [run |-> FALSE, up |-> <<>>, sink |-> 0, dn |-> <<>>, dnsink |-> 0, wrfn |-> FALSE]
NoShell == [tty |-> <<>>, unread |-> 0, ended |-> FALSE]

Idle == reading = None /\ ~answer
Smaller(m, n) == IF m < n THEN m ELSE n
Front(q, n) == SubSeq(q, 1, n)
Rest(q, n) == SubSeq(q, n + 1, Len(q))

(* getSendbuf returns a buffer for n bytes. *)
Grants(l, n) == tc = "up" /\ l.room >= n

Init ==
  /\ tc = "none"
  /\ session = [s \in Sessions |-> Closed]
  /\ shell = [s \in Sessions |-> NoShell]
  /\ reading = None /\ answer = FALSE
  /\ link = [room |-> SENDBUF, peer |-> [s \in Sessions |-> FALSE], missed |-> [s \in Sessions |-> FALSE]]
  /\ made = [s \in Sessions |-> <<>>] /\ seen = made /\ given = made /\ typed = made
  /\ dropped = [s \in Sessions |-> FALSE]
  /\ produced = 0 /\ received = 0 /\ starts = 0
-----------------------------------------------------------------------------
(* The shells *)

ShellWrites(s) ==
  /\ session[s].run /\ ~shell[s].ended
  /\ Len(shell[s].tty) < TTYSZ /\ produced < MaxOut
  /\ produced' = produced + 1
  /\ shell' = [shell EXCEPT ![s].tty = Append(@, produced')]
  /\ made' = [made EXCEPT ![s] = Append(@, produced')]
  /\ UNCHANGED <<tc, session, reading, answer, link, seen, given, typed, dropped, received, starts>>

ShellReads(s) ==
  /\ session[s].run /\ ~shell[s].ended /\ shell[s].unread > 0
  /\ shell' = [shell EXCEPT ![s].unread = 0]
  /\ UNCHANGED <<tc, session, reading, answer, link, history, produced, received, starts>>

ShellEnds(s) ==
  /\ session[s].run /\ ~shell[s].ended
  /\ shell' = [shell EXCEPT ![s].ended = TRUE]
  /\ UNCHANGED <<tc, session, reading, answer, link, history, produced, received, starts>>
-----------------------------------------------------------------------------
(* Start and end of a session *)

(* Fault: the buffers keep what they hold. *)
StoppedFull(v) == [v EXCEPT !.run = FALSE, !.wrfn = FALSE]

(* aio_close and the resets in stopRmtsh *)
Stopped(v) == Closed

(* Fault: the LNS is not told. *)
EofUnsent(l, s) == l

(* The frame without data (stopRmtsh) *)
Eof(l, s) ==
  IF Grants(l, WS_CHUNKS)
  THEN [l EXCEPT !.room = @ - 1, !.peer[s] = FALSE, !.missed[s] = FALSE]
  ELSE [l EXCEPT !.missed[s] = TRUE]

Forget(s) ==
  /\ shell' = [shell EXCEPT ![s] = NoShell]
  /\ made' = [made EXCEPT ![s] = <<>>] /\ seen' = [seen EXCEPT ![s] = <<>>]
  /\ given' = [given EXCEPT ![s] = <<>>] /\ typed' = [typed EXCEPT ![s] = <<>>]
  /\ dropped' = [dropped EXCEPT ![s] = FALSE]

Stop(s) ==
  /\ session' = [session EXCEPT ![s] = Stopped(@)]
  /\ link' = Eof(link, s)
  /\ Forget(s)

(* A message with the fields stop and start; pty or fork may fail. *)
Request(stop, start) ==
  LET stops  == stop # None /\ session[stop].run
      ended  == IF stops THEN [session EXCEPT ![stop] = Stopped(@)] ELSE session
      begins == start # None /\ ~ended[start].run /\ starts < MaxStarts
      gone   == IF stops THEN {stop} ELSE {}
  IN  /\ Idle /\ tc = "up"
      /\ link' = IF stops THEN Eof(link, stop) ELSE link
      /\ \/ /\ begins
            /\ session' = [ended EXCEPT ![start].run = TRUE]
            /\ reading' = start /\ starts' = starts + 1
         \/ session' = ended /\ UNCHANGED <<reading, starts>>
      /\ shell' = [s \in Sessions |-> IF s \in gone THEN NoShell ELSE shell[s]]
      /\ made' = [s \in Sessions |-> IF s \in gone THEN <<>> ELSE made[s]]
      /\ seen' = [s \in Sessions |-> IF s \in gone THEN <<>> ELSE seen[s]]
      /\ given' = [s \in Sessions |-> IF s \in gone THEN <<>> ELSE given[s]]
      /\ typed' = [s \in Sessions |-> IF s \in gone THEN <<>> ELSE typed[s]]
      /\ dropped' = [s \in Sessions |-> s \notin gone /\ dropped[s]]
      /\ answer' = TRUE
      /\ UNCHANGED <<tc, produced, received>>

(* The response with the state of all sessions *)
Respond ==
  /\ answer /\ reading = None
  /\ answer' = FALSE
  /\ link' = IF Grants(link, WS_CHUNKS)
             THEN [room |-> link.room - WS_CHUNKS, peer |-> [s \in Sessions |-> session[s].run],
                   missed |-> [s \in Sessions |-> FALSE]]
             ELSE [link EXCEPT !.missed = [s \in Sessions |-> TRUE]]
  /\ UNCHANGED <<tc, session, shell, reading, history, produced, received, starts>>
-----------------------------------------------------------------------------
(* Upstream: up_read *)

(* Fault: waits until all of it has been sent. *)
CompactedLate(v) ==
  IF Len(v.up) >= UPBUFHI /\ v.sink = Len(v.up) THEN [v EXCEPT !.up = <<>>, !.sink = 0] ELSE v

Compacted(v) ==
  IF Len(v.up) >= UPBUFHI /\ v.sink > 0 THEN [v EXCEPT !.up = Rest(@, v.sink), !.sink = 0] ELSE v

(* No connection - drop data *)
Cut(v) == IF Len(v.up) >= UPBUFHI THEN [v EXCEPT !.sink = UPBUFHI] ELSE v

(* Bytes of the next frame *)
Chunk(v) == Smaller(WS_CHUNKS - 1, Len(v.up) - v.sink)

Readable(s) ==
  /\ Idle /\ session[s].run
  /\ shell[s].tty # <<>> \/ shell[s].ended
  /\ reading' = s
  /\ UNCHANGED <<tc, session, shell, answer, link, history, produced, received, starts>>

Space(v) == UPBUFSZ - Len(v.up)

(* read returns EAGAIN *)
ReadNone(s) ==
  /\ reading = s /\ Space(session[s]) > 0
  /\ shell[s].tty = <<>> /\ ~shell[s].ended
  /\ reading' = None
  /\ UNCHANGED <<tc, session, shell, answer, link, history, produced, received, starts>>

(* read returns 0, or fails as nobody has the terminal open anymore. *)
ReadEnd(s) ==
  /\ reading = s
  /\ Space(session[s]) = 0 \/ (shell[s].tty = <<>> /\ shell[s].ended)
  /\ Stop(s)
  /\ reading' = None
  /\ UNCHANGED <<tc, answer, produced, received, starts>>

ReadData(s) ==
  LET n == Smaller(Space(session[s]), Len(shell[s].tty))
      v == [session[s] EXCEPT !.up = @ \o Front(shell[s].tty, n)]
      m == Chunk(v)
  IN  /\ reading = s /\ n > 0
      /\ shell' = [shell EXCEPT ![s].tty = Rest(@, n)]
      /\ \/ /\ tc = "none"
            /\ session' = [session EXCEPT ![s] = Compacted(Cut(v))]
            /\ dropped' = [dropped EXCEPT ![s] = @ \/ Len(v.up) >= UPBUFHI]
            /\ UNCHANGED <<link, seen>>
         \/ /\ tc # "none" /\ Grants(link, m + 1)
            /\ link' = [link EXCEPT !.room = @ - (m + 1)]
            /\ seen' = [seen EXCEPT ![s] = @ \o SubSeq(v.up, v.sink + 1, v.sink + m)]
            /\ session' = [session EXCEPT ![s] = Compacted([v EXCEPT !.sink = @ + m])]
            /\ UNCHANGED dropped
         \/ /\ tc # "none" /\ ~Grants(link, m + 1)
            /\ session' = [session EXCEPT ![s] = Compacted(v)]
            /\ UNCHANGED <<link, seen, dropped>>
      /\ UNCHANGED <<tc, reading, answer, made, given, typed, produced, received, starts>>
-----------------------------------------------------------------------------
(* Downstream: dn_fill and dn_write *)

(* Fault: the callback is only set for a buffer of which nothing was written. *)
WrittenOnce(v, n) ==
  IF n = Len(v.dn) - v.dnsink THEN [v EXCEPT !.dn = <<>>, !.dnsink = 0, !.wrfn = FALSE]
  ELSE [v EXCEPT !.dnsink = @ + n, !.wrfn = n = 0]

(* dn_write when the terminal takes n more bytes *)
Written(v, n) ==
  IF n = Len(v.dn) - v.dnsink THEN [v EXCEPT !.dn = <<>>, !.dnsink = 0, !.wrfn = FALSE]
  ELSE [v EXCEPT !.dnsink = @ + n, !.wrfn = TRUE]

Write(s, v) ==
  LET n == Smaller(Len(v.dn) - v.dnsink, TTYSZ - shell[s].unread)
  IN  /\ session' = [session EXCEPT ![s] = Written(v, n)]
      /\ shell' = [shell EXCEPT ![s].unread = @ + n]
      /\ typed' = [typed EXCEPT ![s] = @ \o SubSeq(v.dn, v.dnsink + 1, v.dnsink + n)]

(* dnbuf compacted if n bytes do not fit otherwise *)
Fitted(v, n) ==
  IF Len(v.dn) + n > DNBUFSZ /\ v.dnsink > 0
  THEN [v EXCEPT !.dn = Rest(@, v.dnsink), !.dnsink = 0] ELSE v

(* The terminal takes bytes again. *)
Writable(s) ==
  /\ Idle /\ session[s].run /\ session[s].wrfn
  /\ \/ /\ shell[s].unread < TTYSZ
        /\ Write(s, session[s])
        /\ UNCHANGED <<link, made, seen, given, dropped>>
     \/ shell[s].ended /\ Stop(s)
  /\ UNCHANGED <<tc, reading, answer, produced, received, starts>>

(* A binary frame: data of a session that does not run is dropped. *)
Binary(s, n) ==
  LET data == [k \in 1 .. n |-> received + k]
      v    == Fitted(session[s], n)
  IN  /\ Idle /\ tc = "up" /\ session[s].run /\ received + n <= MaxIn
      /\ received' = received + n
      /\ \/ /\ Len(v.dn) + n <= DNBUFSZ
            /\ given' = [given EXCEPT ![s] = @ \o data]
            /\ Write(s, [v EXCEPT !.dn = @ \o data])
            /\ UNCHANGED <<link, made, seen, dropped>>
         \/ /\ Len(v.dn) + n > DNBUFSZ \/ shell[s].ended
            /\ Stop(s)
      /\ UNCHANGED <<tc, reading, answer, produced, starts>>
-----------------------------------------------------------------------------
(* The TC engine and its connection *)

Unsure == [link EXCEPT !.missed = [s \in Sessions |-> TRUE]]

TcStarts == Idle /\ tc = "none" /\ tc' = "down" /\ UNCHANGED link
TcConnects == Idle /\ tc = "down" /\ tc' = "up" /\ link' = [link EXCEPT !.room = SENDBUF]
TcLost == Idle /\ tc = "up" /\ tc' = "down" /\ link' = Unsure
TcFreed == Idle /\ tc # "none" /\ tc' = "none" /\ link' = Unsure
Drained ==
  /\ Idle /\ tc = "up"
  /\ \E r \in link.room + 1 .. SENDBUF : link' = [link EXCEPT !.room = r]
  /\ UNCHANGED tc

Connection ==
  /\ TcStarts \/ TcConnects \/ TcLost \/ TcFreed \/ Drained
  /\ UNCHANGED <<session, shell, reading, answer, history, produced, received, starts>>
-----------------------------------------------------------------------------
UpRead(s) == ReadNone(s) \/ ReadEnd(s) \/ ReadData(s)

Next ==
  \/ Connection \/ Respond
  \/ \E s \in Sessions : ShellWrites(s) \/ ShellReads(s) \/ ShellEnds(s)
  \/ \E s \in Sessions : Readable(s) \/ UpRead(s) \/ Writable(s)
  \/ \E s \in Sessions, n \in Lengths : Binary(s, n)
  \/ \E stop, start \in Sessions \cup {None} : Request(stop, start)

(* Handlers run to their end, every round of aio_loop serves all descriptors *)
(* that are ready, and a shell goes on to read its terminal.                 *)
Fairness ==
  /\ WF_vars(Respond)
  /\ \A s \in Sessions :
       WF_vars(UpRead(s)) /\ SF_vars(Readable(s)) /\ SF_vars(Writable(s)) /\ WF_vars(ShellReads(s))

Spec == Init /\ [][Next]_vars /\ Fairness
-----------------------------------------------------------------------------
TypeOK ==
  /\ tc \in {"none", "down", "up"} /\ reading \in Sessions \cup {None} /\ answer \in BOOLEAN
  /\ \A s \in Sessions :
       /\ session[s].run \in BOOLEAN /\ session[s].wrfn \in BOOLEAN
       /\ session[s].up \in Seq(Nat) /\ session[s].dn \in Seq(Nat)
       /\ session[s].sink \in 0 .. Len(session[s].up) /\ Len(session[s].up) <= UPBUFSZ
       /\ session[s].dnsink \in 0 .. Len(session[s].dn) /\ Len(session[s].dn) <= DNBUFSZ
       /\ shell[s].tty \in Seq(Nat) /\ shell[s].unread \in 0 .. TTYSZ /\ shell[s].ended \in BOOLEAN
  /\ link.room \in 0 .. SENDBUF
  /\ {made, seen, given, typed} \subseteq [Sessions -> Seq(Nat)]
  /\ produced \in 0 .. MaxOut /\ received \in 0 .. MaxIn /\ starts \in 0 .. MaxStarts

(* What the LNS has got, what waits in upbuf and what is in the terminal is  *)
(* the output of this shell, in order; unless TC was missing, all of it,     *)
(* however up_read chops it into reads, chunks and compactions.              *)
OutputWhole ==
  \A s \in Sessions :
    LET all == seen[s] \o Rest(session[s].up, session[s].sink) \o shell[s].tty
    IN  /\ \A i, j \in DOMAIN all : i < j => all[i] < all[j]
        /\ \A i \in DOMAIN all : \E j \in DOMAIN made[s] : all[i] = made[s][j]
        /\ ~dropped[s] => all = made[s]

(* What went to the terminal and what waits in dnbuf is what the LNS sent to *)
(* this session, in order and at most once, although dn_fill, compaction and *)
(* dn_write get at the buffer in any order.                                  *)
InputWhole ==
  \A s \in Sessions : typed[s] \o Rest(session[s].dn, session[s].dnsink) = given[s]

(* Neither stream of a session loses, repeats, swaps or mixes in a byte. *)
StreamsWhole == OutputWhole /\ InputWhole

(* Once all is said, LNS and station agree which sessions run: whatever ends *)
(* a session, the LNS hears of it, unless the message found no space.        *)
PeerInformed ==
  ~answer => \A s \in Sessions : ~link.missed[s] => link.peer[s] = session[s].run

UpstreamStuck(v) == tc # "none" /\ Len(v.up) = UPBUFSZ /\ v.sink = 0

(* A session ends because its shell did, because the LNS wants it, or        *)
(* because a buffer is really full: of upbuf nothing could be sent, or the   *)
(* bytes that the terminal has not taken leave no space for those of the     *)
(* LNS.  Space that compaction regains is never a reason.                    *)
StopsForCause ==
  [][\A s \in Sessions : session[s].run /\ ~session'[s].run =>
       IF reading = s
       THEN (shell[s].ended /\ shell[s].tty = <<>>) \/ UpstreamStuck(session[s])
       ELSE \/ answer' \/ shell[s].ended
            \/ Len(given[s]) - Len(typed[s]) + (received' - received) > DNBUFSZ]_vars

(* up_read takes a read of nothing for the end of the shell's output.        *)
ReadNothingIsEof ==
  [][\A s \in Sessions : reading = s /\ session[s].run /\ ~session'[s].run =>
       shell[s].ended /\ shell[s].tty = <<>>]_vars

(* Bytes for a shell that reads its terminal do not stay in dnbuf.           *)
InputTyped == \A s \in Sessions : session[s].dn # <<>> ~> session[s].dn = <<>>
=============================================================================
