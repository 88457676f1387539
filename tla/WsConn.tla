------------------------------- MODULE WsConn -------------------------------
(***************************************************************************)
(* A WebSocket connection of net.c as its client sees it: the send buffer  *)
(* with its frames, the bytes that go out, the events that come back, and  *)
(* the close handshake.                                                    *)
(*                                                                         *)
(* wbuf holds, from wpos to wend, what is left of the frame being sent     *)
(* (header and masked payload) and, from wend to wfill, frames that wait:  *)
(* three bytes with length and type, then the payload.  The header of a    *)
(* waiting frame is written in front of it when its turn has come, over    *)
(* bytes that are gone.  ws_getSendbuf may move all of it to the front.    *)
(*                                                                         *)
(* An action is one call of the client or one callback of the event loop;  *)
(* a callback that writes ends at every tls_write, which takes any number  *)
(* of bytes.  Receiving is reduced to the frames found.                    *)
(***************************************************************************)
EXTENDS Integers, Sequences, SequencesExt

CONSTANTS
  wbufsize,    \* size of the send buffer
  WSHDR_LEN2,  \* payloads from this length on have a longer header
  Lengths,     \* payloads the client sends
  PingLengths, \* payloads of the server's PINGs
  MaxFrames    \* bound: frames put into the buffer during a connection

WSHDR_INTRA == 3
WSHDR_RESV_W == 8

(* The close frame, and the first header, fit into the buffer             *)
(* (ws_closing_w; ws_handshaking makes its request there).                *)
ASSUME WsConnAssumption ==
  /\ {wbufsize, WSHDR_LEN2, MaxFrames} \subseteq Nat
  /\ wbufsize >= WSHDR_RESV_W
  /\ Lengths \cup PingLengths \subseteq Nat

VARIABLES
  state,     \* conn->state
  w,         \* wbuf with wpos, wend and wfill
  wrfn,      \* who is called when the socket takes bytes: "none", "connected", "closing"
  closedEv,  \* conn->tmr leads to triggerWsClosedEv
  (* history *)
  frames,    \* payload lengths of the frames put into the buffer
  wire,      \* bytes handed to the socket
  events,    \* CONNECTED and CLOSED events the client has got
  overrun    \* something was written behind the end of wbuf

connVars == <<state, w, wrfn, closedEv, frames, wire, events, overrun>>
-----------------------------------------------------------------------------
(* A byte is known by what it is part of; masked: the mask was applied. *)
Byte(id, part, k) == [id |-> id, part |-> part, k |-> k, masked |-> FALSE]
Junk == Byte(0, "junk", 0)
Mask(b) == [b EXCEPT !.masked = ~@]
CloseFrame == [k \in 1 .. 8 |-> Byte(0, "close", k)]

Connecting == {"TLS_HANDSHAKE", "CLIENT_REQ", "SERVER_RESP"}
Draining == {"DRAINC", "DRAINS"}
Closing == Draining \cup {"SENDCLOSE", "ECHOCLOSE", "SENTCLOSE"}
Open == {"CONNECTED"} \cup Closing

(* b with the bytes of s from position at on; what is behind the end of    *)
(* the buffer belongs to somebody else.                                    *)
Over(b, at, s) ==
  [p \in DOMAIN b |-> IF p \in at .. at + Len(s) - 1 THEN s[p - at + 1] ELSE b[p]]

HdrLen(n) == IF n < WSHDR_LEN2 THEN 6 ELSE 8
-----------------------------------------------------------------------------
(* ws_getSendbuf *)

Emptied(v) ==
  IF v.wpos = v.wfill
  THEN [v EXCEPT !.wpos = WSHDR_RESV_W, !.wend = WSHDR_RESV_W, !.wfill = WSHDR_RESV_W]
  ELSE v

TooLarge(n) == WSHDR_RESV_W + WSHDR_INTRA + n > wbufsize
Lacking(v, n) == v.wfill + n - wbufsize
Sent(v) == v.wpos - WSHDR_RESV_W

Refused(v, n) == TooLarge(n) \/ (Lacking(v, n) > 0 /\ Lacking(v, n) > Sent(v) - WSHDR_INTRA)

(* Fault: the last byte is left behind. *)
CompactedShort(v) ==
  LET m == Sent(v)
  IN  [v EXCEPT !.buf = Over(@, WSHDR_RESV_W, [k \in 1 .. v.wfill - v.wpos - 1 |-> v.buf[v.wpos + k - 1]]),
                !.wpos = @ - m, !.wend = @ - m, !.wfill = @ - m]

Compacted(v) ==
  LET m == Sent(v)
  IN  [v EXCEPT !.buf = Over(@, WSHDR_RESV_W, [k \in 1 .. v.wfill - v.wpos |-> v.buf[v.wpos + k - 1]]),
                !.wpos = @ - m, !.wend = @ - m, !.wfill = @ - m]

(* The buffer ready for n bytes that were not refused, and its free space *)
Granted(v, n) == IF Lacking(v, n) > 0 THEN Compacted(v) ELSE v
bufsize(v) == wbufsize - v.wfill - WSHDR_INTRA

(* ws_sendData, and the PONG in ws_connected_r: frame number id *)
Queued(v, id, n) ==
  LET intra == [k \in 1 .. WSHDR_INTRA |-> Byte(id, "intra", k)]
      data  == [k \in 1 .. n |-> Byte(id, "data", k)]
  IN  [v EXCEPT !.buf = Over(@, v.wfill, intra \o data), !.wfill = @ + WSHDR_INTRA + n]

(* Setup next frame (ws_connected_w): number and length are found in front *)
(* of its payload.                                                         *)
NextFrame(v, fs) ==
  LET id  == v.buf[v.wend].id
      n   == fs[id]
      beg == v.wend + WSHDR_INTRA
      hdr == [k \in 1 .. HdrLen(n) |-> Byte(id, "hdr", k)]
      msg == [k \in 1 .. n |-> Mask(v.buf[beg + k - 1])]
  IN  [buf |-> Over(v.buf, beg - Len(hdr), hdr \o msg), wpos |-> beg - Len(hdr),
       wend |-> beg + n, wfill |-> v.wfill]

(* Fault: the socket is no longer watched when frames arrived meanwhile. *)
ProceedIdle(v, fs) == w' = v /\ wrfn' = "none"

(* The rest of ws_connected_w after a frame *)
Proceed(v, fs) ==
  IF v.wend = v.wfill THEN w' = v /\ wrfn' = "none"
  ELSE w' = NextFrame(v, fs) /\ wrfn' = "connected"
-----------------------------------------------------------------------------
(* Setting up and tearing down *)

(* ws_connect on a connection that ws_ini has prepared *)
Connect ==
  /\ state = "CLOSED" /\ events = <<>> /\ ~closedEv
  /\ \/ state' = "TLS_HANDSHAKE" /\ UNCHANGED closedEv
     \/ closedEv' = TRUE /\ UNCHANGED state         \* no TCP connection: ws_shutdown
  /\ UNCHANGED <<w, wrfn, frames, wire, events, overrun>>

(* ws_handshaking, ws_connecting: the request is sent, the answer is read. *)
Handshake ==
  /\ state \in {"TLS_HANDSHAKE", "CLIENT_REQ"}
  /\ state' = IF state = "TLS_HANDSHAKE" THEN "CLIENT_REQ" ELSE "SERVER_RESP"
  /\ UNCHANGED <<w, wrfn, closedEv, frames, wire, events, overrun>>

(* ws_connecting: upgrade granted.  The client may send at once. *)
Upgraded ==
  /\ state = "SERVER_RESP"
  /\ state' = "CONNECTED"
  /\ w' = [w EXCEPT !.wpos = WSHDR_RESV_W, !.wend = WSHDR_RESV_W, !.wfill = WSHDR_RESV_W]
  /\ wrfn' = "none"
  /\ events' = Append(events, "CONNECTED")
  /\ UNCHANGED <<closedEv, frames, wire, overrun>>

(* Fault: a connection that is closing is not torn down by an I/O error. *)
ShutdownUnlessClosing ==
  /\ state' = IF state \in Closing THEN state ELSE "CLOSED"
  /\ wrfn' = "none" /\ closedEv' = (state \notin Closing)
  /\ UNCHANGED <<w, frames, wire, events, overrun>>

(* ws_shutdown *)
Shutdown ==
  /\ state' = "CLOSED" /\ wrfn' = "none" /\ closedEv' = TRUE
  /\ UNCHANGED <<w, frames, wire, events, overrun>>

(* Reading or writing fails, or the upgrade is refused. *)
IoError == state \in Connecting \cup Open /\ Shutdown

(* triggerWsClosedEv *)
ClosedEvent ==
  /\ closedEv
  /\ closedEv' = FALSE /\ events' = Append(events, "CLOSED")
  /\ UNCHANGED <<state, w, wrfn, frames, wire, overrun>>

(* ws_free: the client gives the connection up; no event will follow.  The *)
(* code leaves conn->state alone, and nobody looks at it before ws_ini.    *)
Free ==
  /\ state \in Connecting \cup Open \/ closedEv
  /\ state' = "FREED" /\ wrfn' = "none" /\ closedEv' = FALSE
  /\ events' = Append(events, "freed")
  /\ UNCHANGED <<w, frames, wire, overrun>>
-----------------------------------------------------------------------------
(* Sending *)

(* ws_getSendbuf and, unless it refuses, ws_sendText or ws_sendBinary with *)
(* n bytes, for which asked bytes were demanded.                           *)
Filled(v, asked, n) ==
  LET e == Emptied(v) IN
  IF Refused(e, asked) THEN e ELSE Queued(Granted(e, asked), Len(frames) + 1, n)

Accepts(v, asked) == ~Refused(Emptied(v), asked)

Send ==
  /\ state = "CONNECTED" /\ Len(frames) < MaxFrames
  /\ \E asked \in Lengths, n \in Lengths :
       IF Accepts(w, asked)
       THEN /\ n <= bufsize(Granted(Emptied(w), asked))
            /\ w' = Filled(w, asked, n)
            /\ frames' = Append(frames, n) /\ wrfn' = "connected"
       ELSE w' = Emptied(w) /\ UNCHANGED <<frames, wrfn>>
  /\ UNCHANGED <<state, closedEv, wire, events, overrun>>

(* ws_connected_r, WSHDR_PING: the answer is as long as the question. *)
Ping ==
  /\ state = "CONNECTED" /\ Len(frames) < MaxFrames
  /\ \E n \in PingLengths :
       IF Accepts(w, n)
       THEN /\ overrun' = (n > bufsize(Granted(Emptied(w), n)))
            /\ w' = Filled(w, n, n)
            /\ frames' = Append(frames, n) /\ wrfn' = "connected"
       ELSE w' = Emptied(w) /\ UNCHANGED <<frames, wrfn, overrun>>
  /\ UNCHANGED <<state, closedEv, wire, events>>

(* tls_write has taken k bytes. *)
Written(k) ==
  /\ k \in 1 .. w.wend - w.wpos
  /\ wire' = wire \o SubSeq([p \in 1 .. wbufsize |-> w.buf[p - 1]], w.wpos + 1, w.wpos + k)

(* ws_connected_w: a part of the frame is written, or all of it.  Then the *)
(* client is told and sends another one if it likes (s2e_flushRxjobs), and *)
(* the next frame is set up.                                               *)
WriteFrame ==
  /\ wrfn = "connected"
  /\ \E k \in 1 .. w.wend - w.wpos :
       /\ Written(k)
       /\ LET v == [w EXCEPT !.wpos = @ + k] IN
          IF v.wpos < v.wend THEN w' = v /\ UNCHANGED <<wrfn, frames>>
          ELSE \/ Proceed(v, frames) /\ UNCHANGED frames
               \/ \E n \in Lengths :
                    /\ Len(frames) < MaxFrames /\ Accepts(v, n)
                    /\ n <= bufsize(Granted(Emptied(v), n))
                    /\ frames' = Append(frames, n)
                    /\ Proceed(Filled(v, n, n), frames')
  /\ UNCHANGED <<state, closedEv, events, overrun>>

(* ws_connected_w is called and nothing is being sent. *)
StartFrame ==
  /\ wrfn = "connected" /\ w.wpos = w.wend
  /\ Proceed(w, frames)
  /\ UNCHANGED <<state, closedEv, frames, wire, events, overrun>>
-----------------------------------------------------------------------------
(* Closing *)

(* ws_close by the client; it is shut down at once while it is not open. *)
Close ==
  \/ /\ state \in Connecting /\ Shutdown
  \/ /\ state = "CONNECTED"
     /\ state' = "DRAINC" /\ wrfn' = "closing"
     /\ UNCHANGED <<w, closedEv, frames, wire, events, overrun>>

(* ws_connected_r, WSHDR_CLOSE *)
PeerClose ==
  \/ /\ state \in Closing /\ Shutdown
  \/ /\ state = "CONNECTED"
     /\ state' = "DRAINS" /\ wrfn' = "closing"
     /\ UNCHANGED <<w, closedEv, frames, wire, events, overrun>>

(* ws_closing_w in the DRAIN states: the rest of a frame *)
Drain ==
  /\ wrfn = "closing" /\ state \in Draining
  /\ \E k \in 1 .. w.wend - w.wpos : Written(k) /\ w' = [w EXCEPT !.wpos = @ + k]
  /\ UNCHANGED <<state, wrfn, closedEv, frames, events, overrun>>

Drained == w.wpos = w.wend

(* ws_closing_w after that: the close frame goes to the start of the buffer. *)
SetupClose ==
  /\ wrfn = "closing" /\ state \in Draining /\ Drained
  /\ w' = [buf |-> Over(w.buf, 0, CloseFrame), wpos |-> 0, wend |-> 8, wfill |-> 8]
  /\ state' = IF state = "DRAINC" THEN "SENDCLOSE" ELSE "ECHOCLOSE"
  /\ UNCHANGED <<wrfn, closedEv, frames, wire, events, overrun>>

(* ws_closing_w: a part of the close frame, or all of it *)
WriteClose ==
  /\ wrfn = "closing" /\ state \in {"SENDCLOSE", "ECHOCLOSE"}
  /\ \E k \in 1 .. w.wend - w.wpos :
       /\ Written(k)
       /\ w' = [w EXCEPT !.wpos = @ + k]
       /\ IF k < w.wend - w.wpos THEN UNCHANGED <<state, wrfn, closedEv>>
          ELSE /\ state' = IF state = "SENDCLOSE" THEN "SENTCLOSE" ELSE "CLOSED"
               /\ wrfn' = "none"
               /\ closedEv' = (state = "ECHOCLOSE")
  /\ UNCHANGED <<frames, events, overrun>>
-----------------------------------------------------------------------------
ConnInit ==
  /\ state = "CLOSED" /\ wrfn = "none" /\ closedEv = FALSE
  /\ w = [buf |-> [p \in 0 .. wbufsize - 1 |-> Junk], wpos |-> 0, wend |-> 0, wfill |-> 0]
  /\ frames = <<>> /\ wire = <<>> /\ events = <<>> /\ overrun = FALSE

Writes == WriteFrame \/ StartFrame \/ Drain \/ SetupClose \/ WriteClose

(* After an overrun anything might happen: the model ends. *)
ConnNext ==
  /\ ~overrun
  /\ \/ Connect \/ Handshake \/ Upgraded \/ IoError \/ ClosedEvent \/ Free
     \/ Send \/ Ping \/ Writes \/ Close \/ PeerClose

(* The socket takes bytes at last or fails, timers are served, and a peer  *)
(* that got a close frame answers or disappears (no timer waits for it).   *)
ConnSpec ==
  /\ ConnInit /\ [][ConnNext]_connVars
  /\ WF_connVars(~overrun /\ Writes) /\ WF_connVars(~overrun /\ ClosedEvent)
  /\ WF_connVars(~overrun /\ state = "SENTCLOSE" /\ (PeerClose \/ IoError))
-----------------------------------------------------------------------------
(* What frame id looks like on the wire *)
Encoded(id) ==
  [k \in 1 .. HdrLen(frames[id]) |-> Byte(id, "hdr", k)]
  \o [k \in 1 .. frames[id] |-> Mask(Byte(id, "data", k))]

Stream[n \in Nat] == IF n = 0 THEN <<>> ELSE Stream[n - 1] \o Encoded(n)

(* The server reads the frames that were sent, whole, masked once and in   *)
(* their order, and at last maybe a close frame after some of them:        *)
(* compaction, headers and the close frame never touch a byte still to go. *)
WireRight ==
  \/ IsPrefix(wire, Stream[Len(frames)])
  \/ \E n \in 0 .. Len(frames) : IsPrefix(wire, Stream[n] \o CloseFrame)

(* "nope - come back later" (ws_getSendbuf) is followed by an event that   *)
(* makes the client come back: it is refused only while frames are on      *)
(* their way and the socket is being watched.                              *)
RefusalTemporary ==
  state = "CONNECTED" /\ ~overrun =>
    \A n \in Lengths : ~TooLarge(n) /\ ~Accepts(w, n) => wrfn = "connected" /\ w.wpos < w.wfill

(* The send buffer takes what it can and hands on what it took.            *)
SendbufRight == WireRight /\ RefusalTemporary

(* The client is told of the end of a connection once and of nothing after *)
(* that; what has been given up stays silent.                              *)
EventsRight ==
  /\ \A i \in 1 .. Len(events) : events[i] = "CONNECTED" => i = 1
  /\ \A i \in 1 .. Len(events) - 1 : events[i] \notin {"CLOSED", "freed"}

(* What ws_getSendbuf and ws_connected_w do for a client and the events it *)
(* gets fit together.                                                      *)
ClientServed == SendbufRight /\ EventsRight

(* "space" of the size asked for is granted (ws_getSendbuf: "Request some  *)
(* space for filling in frame data").                                      *)
NoOverrun == ~overrun

(* Closing comes to an end with the event that says so. *)
CloseEnds == state \in Closing ~> (overrun \/ (state \in {"CLOSED", "FREED"} /\ ~closedEv))

(* Frames accepted go out, unless the connection is closed first. *)
FramesLeave ==
  \A n \in 1 .. MaxFrames :
    Len(frames) >= n ~>
      overrun \/ state # "CONNECTED" \/ (Len(frames) >= n /\ Len(wire) >= Len(Stream[n]))
=============================================================================
