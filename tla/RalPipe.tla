------------------------------ MODULE RalPipe ------------------------------
(***************************************************************************)
(* The master process of the station and one of its slaves (ral_master.c,  *)
(* ral_slave.c).  The slave drives a concentrator; the two talk through a  *)
(* pair of non-blocking pipes.  The master asks (CONFIG, TX, TXSTATUS,     *)
(* TXABORT, TIMESYNC, STOP); TX (when there is a channel to be sensed) and *)
(* TXSTATUS are synchronous: the master polls the pipe for two             *)
(* milliseconds and then gives up.  A slave that dies is started again.    *)
(*                                                                         *)
(* Slaves do not share anything but the master, one of them is modelled.   *)
(* A pipe holds cells, pieces of messages: read() returns whatever is      *)
(* there, at most PIPE_BUF bytes, and may cut the last message in two.     *)
(*                                                                         *)
(* The master is single threaded.  call says which procedure is reading    *)
(* the pipe; nothing else happens in the master until it returns.          *)
(***************************************************************************)
EXTENDS Integers, Sequences, FiniteSets

CONSTANTS
  ReadMax,         \* PIPE_BUF in cells, the most a read() returns
  PipeCap,         \* capacity of a pipe in cells
  CcaRegions,      \* is there a region with channel sensing? SUBSET BOOLEAN
  NoCca,           \* is channel sensing switched off per frame? SUBSET BOOLEAN
  MaxReqs,         \* bound: requests that may have an answer
  MaxSessions,     \* bound: configurations the network server sends
  MaxEvents,       \* bound: such requests and configurations together
  MaxCrashes       \* bound: slaves that die

ASSUME PipeAssumption ==
  /\ ReadMax \in Nat /\ ReadMax >= 2
  /\ PipeCap \in Nat /\ PipeCap >= ReadMax
  /\ CcaRegions \subseteq BOOLEAN /\ NoCca \subseteq BOOLEAN
  /\ {MaxReqs, MaxSessions, MaxEvents, MaxCrashes} \subseteq Nat

MAX_RESTARTS == 4

VARIABLES
  station,      \* "up" or the reason why the master called rt_fatal
  call,         \* [op, exp, id]: the procedure that reads the pipe, see NoCall
  buf,          \* its buffer, as far as it is not processed
  rsb,          \* slave->rsb: the first cells of a message that was cut
  last_expcmd,  \* slave->last_expcmd: an answer that may come late
  tmr,          \* slave->tmr: "off" or the callback it is set for
  tsync,        \* slave->tsync is set
  restartCnt,   \* slave->restartCnt
  config,       \* slave->sx1301confJson is not empty
  cca,          \* region # 0
  session,      \* is the radio in use by s2e (between ral_config and ral_stop)?
  pipes,        \* [open, up, dn]: slave->up and slave->dn
  proc,         \* the slave process, see Fresh
  count,        \* [reqs, sessions, crashes] so far
  (* history *)
  late,         \* expired requests whose answer may still come
  overrun,      \* did the master give up on a request in spite of a late one, or
                \* change channel sensing without telling the slave?
  wrong,        \* was an answer taken for that of another request?
  garbled,      \* was a message put together of the wrong cells?
  bare          \* did a ral_config leave the present process with nothing kept?

master == <<station, call, buf, rsb, last_expcmd, tmr, tsync, restartCnt, config, cca, session>>
history == <<late, overrun, wrong, garbled, bare>>
vars == <<master, pipes, proc, count, history>>
-----------------------------------------------------------------------------
None == "none"
NoCall == [op |-> "none", exp |-> None, id |-> 0]
Poll(op) == [NoCall EXCEPT !.op = op]
Closed == [open |-> FALSE, up |-> <<>>, dn |-> <<>>]
Opened == [open |-> TRUE, up |-> <<>>, dn |-> <<>>]

(* A slave process just started: not configured, nothing read.  It ends in *)
(* two steps: its files are closed ("exiting"), then waitpid reports it.   *)
Fresh == [state |-> "run", conf |-> FALSE, cca |-> FALSE, rx |-> FALSE,
          inbox |-> <<>>, fatal |-> FALSE]
NoProc == [Fresh EXCEPT !.state = "none"]

(* Messages: CONFIG fills a read buffer, received frames and time syncs    *)
(* are longer than answers and the other requests.                         *)
Size(cmd) == IF cmd = "CONFIG" THEN ReadMax ELSE IF cmd \in {"RX", "SYNCED"} THEN 2 ELSE 1
Cells(cmd, arg) == [k \in 1 .. Size(cmd) |-> [cmd |-> cmd, arg |-> arg, part |-> k]]
ConfigCells(withCca) == Cells("CONFIG", IF withCca THEN 1 ELSE 0)

Smaller(a, b) == IF a <= b THEN a ELSE b
Front(s, n) == SubSeq(s, 1, n)
Back(s, n) == SubSeq(s, n + 1, Len(s))
Room(pipe, cells) == Len(pipe) + Len(cells) <= PipeCap

Init ==
  /\ station = "up" /\ call = NoCall /\ buf = <<>> /\ rsb = <<>> /\ last_expcmd = None
  /\ tmr = "restart" /\ tsync = FALSE /\ restartCnt = 0
  /\ config = FALSE /\ cca = FALSE /\ session = FALSE
  /\ pipes = Closed /\ proc = NoProc
  /\ count = [reqs |-> 0, sessions |-> 0, crashes |-> 0]
  /\ late = {} /\ overrun = FALSE /\ wrong = FALSE /\ garbled = FALSE /\ bare = FALSE

Idle == station = "up" /\ call = NoCall

Fatal(reason) ==
  /\ station' = reason
  /\ UNCHANGED <<call, buf, rsb, last_expcmd, tmr, tsync, restartCnt, config, cca, session,
                 pipes, proc, history>>
-----------------------------------------------------------------------------
(* read_slave_pipe *)

(* read() returned data. *)
ReadChunk ==
  /\ station = "up" /\ call # NoCall /\ buf = <<>> /\ pipes.up # <<>>
  /\ LET n == Smaller(ReadMax, Len(pipes.up))
     IN  buf' = Front(pipes.up, n) /\ pipes' = [pipes EXCEPT !.up = Back(@, n)]
  /\ restartCnt' = 0
  /\ UNCHANGED <<station, call, rsb, last_expcmd, tmr, tsync, config, cca, session,
                 proc, count, history>>

(* What is left to process; the message cut before continues in buf.       *)
Data == rsb \o buf
Cmd == Data[1].cmd
Arg == Data[1].arg
Expected == Cmd = call.exp
Expired == Cmd # call.exp /\ Cmd = last_expcmd
Known == Expected \/ Expired \/ Cmd \in {"SYNCED", "RX"}
Whole == Len(Data) >= Size(Cmd)

(* Fault: the part that was read is not kept. *)
SpillDrops ==
  /\ station = "up" /\ buf # <<>>
  /\ Known /\ ~Whole
  /\ buf' = <<>>
  /\ UNCHANGED <<station, call, rsb, last_expcmd, tmr, tsync, restartCnt, config, cca, session,
                 pipes, proc, count, history>>

(* Part of the message is missing: keep it for the next read. *)
Spill ==
  /\ station = "up" /\ buf # <<>>
  /\ Known /\ ~Whole
  /\ rsb' = Data /\ buf' = <<>>
  /\ UNCHANGED <<station, call, last_expcmd, tmr, tsync, restartCnt, config, cca, session,
                 pipes, proc, count, history>>

Consume ==
  /\ rsb' = <<>> /\ buf' = Back(Data, Size(Cmd))
  /\ garbled' = (garbled \/ Front(Data, Size(Cmd)) # Cells(Cmd, Arg))

(* The answer to the request that is waited for, as far as cmd tells *)
Answer ==
  /\ station = "up" /\ buf # <<>>
  /\ Expected /\ Whole
  /\ Consume
  /\ call' = [call EXCEPT !.exp = None]
  /\ last_expcmd' = None
  /\ late' = late \ {Arg}
  /\ wrong' = (wrong \/ Arg # call.id)
  /\ UNCHANGED <<station, tmr, tsync, restartCnt, config, cca, session, pipes, proc, count,
                 overrun, bare>>

(* "responded to expired synchronous cmd ... Ignoring." *)
LateAnswer ==
  /\ station = "up" /\ buf # <<>>
  /\ Expired /\ Whole
  /\ Consume
  /\ last_expcmd' = None
  /\ late' = late \ {Arg}
  /\ UNCHANGED <<station, call, tmr, tsync, restartCnt, config, cca, session, pipes, proc, count,
                 overrun, wrong, bare>>

(* A time sync: ts_updateTimesync says when to ask for the next one.  Or a *)
(* frame received, which goes to the receive store (RxQ).                  *)
News ==
  /\ station = "up" /\ buf # <<>>
  /\ ~Expected /\ ~Expired /\ Cmd \in {"SYNCED", "RX"} /\ Whole
  /\ Consume
  /\ tsync' = (tsync \/ Cmd = "SYNCED")
  /\ UNCHANGED <<station, call, last_expcmd, tmr, restartCnt, config, cca, session, pipes, proc,
                 count, late, overrun, wrong, bare>>

Unexpected ==
  /\ station = "up" /\ buf # <<>>
  /\ ~Known
  /\ Fatal("unexpected")
  /\ UNCHANGED count

(* Back to the caller.  restart_slave goes on to watch the process.        *)
Return(t) ==
  /\ call' = NoCall
  /\ tmr' = IF call.op = "start" THEN "recheck" ELSE t

(* Fault: the command that expired is not kept in mind. *)
GiveUpForgets ==
  /\ station = "up" /\ call # NoCall /\ buf = <<>>
  /\ pipes.up = <<>> /\ proc.state = "run"
  /\ UNCHANGED last_expcmd
  /\ late' = IF call.exp = None THEN late ELSE late \cup {call.id}
  /\ overrun' = (overrun \/ (call.exp # None /\ late # {}))
  /\ Return(tmr)
  /\ UNCHANGED <<station, buf, rsb, tsync, restartCnt, config, cca, session, pipes, proc, count,
                 wrong, garbled, bare>>

(* EAGAIN: nothing more to read, or the wait for an answer is over. *)
GiveUp ==
  /\ station = "up" /\ call # NoCall /\ buf = <<>>
  /\ pipes.up = <<>> /\ proc.state = "run"
  /\ last_expcmd' = IF call.exp = None THEN last_expcmd ELSE call.exp
  /\ late' = IF call.exp = None THEN late ELSE late \cup {call.id}
  /\ overrun' = (overrun \/ (call.exp # None /\ late # {}))
  /\ Return(tmr)
  /\ UNCHANGED <<station, buf, rsb, tsync, restartCnt, config, cca, session, pipes, proc, count,
                 wrong, garbled, bare>>

(* EOF: the slave has closed the pipe. *)
ReadEof ==
  /\ station = "up" /\ call # NoCall /\ buf = <<>>
  /\ pipes.up = <<>> /\ proc.state # "run"
  /\ Return("restart")
  /\ UNCHANGED <<station, buf, rsb, last_expcmd, tsync, restartCnt, config, cca, session, pipes,
                 proc, count, history>>

(* aio_loop calls pipe_read when there are data or EOF. *)
PollPipe ==
  /\ Idle /\ pipes.open
  /\ pipes.up # <<>> \/ (proc.state # "run" /\ tmr # "restart")
  /\ call' = Poll("read")
  /\ UNCHANGED <<station, buf, rsb, last_expcmd, tmr, tsync, restartCnt, config, cca, session,
                 pipes, proc, count, history>>
-----------------------------------------------------------------------------
(* write_slave_pipe succeeds: the slave is there and has room in its pipe. *)
Written(cells) ==
  /\ pipes.open /\ proc.state = "run" /\ Room(pipes.dn, cells)
  /\ pipes' = [pipes EXCEPT !.dn = @ \o cells]
Writable(cells) == pipes.open /\ proc.state = "run" /\ Room(pipes.dn, cells)

(* A request with an answer is made while the answer to an expired one of  *)
(* the same kind is due.                                                   *)
Overruns(cmd) == late # {} /\ last_expcmd = cmd

MoreEvents == count.reqs + count.sessions < MaxEvents

(* ral_tx; without channel sensing nothing comes back. *)
Tx(nocca) ==
  LET id == count.reqs + 1
  IN  /\ Idle /\ session /\ count.reqs < MaxReqs /\ MoreEvents
      /\ Written(Cells(IF nocca THEN "TX_NOCCA" ELSE "TX", id))
      /\ count' = [count EXCEPT !.reqs = id]
      /\ call' = IF cca THEN [op |-> "tx", exp |-> "TX", id |-> id] ELSE NoCall
      /\ overrun' = (overrun \/ (cca /\ Overruns("TX")))
      /\ UNCHANGED <<station, buf, rsb, last_expcmd, tmr, tsync, restartCnt, config, cca, session,
                     proc, late, wrong, garbled, bare>>

(* ral_txstatus *)
Txstatus ==
  LET id == count.reqs + 1
  IN  /\ Idle /\ session /\ count.reqs < MaxReqs /\ MoreEvents
      /\ Written(Cells("TXSTATUS", id))
      /\ count' = [count EXCEPT !.reqs = id]
      /\ call' = [op |-> "txstatus", exp |-> "TXSTATUS", id |-> id]
      /\ overrun' = (overrun \/ Overruns("TXSTATUS"))
      /\ UNCHANGED <<station, buf, rsb, last_expcmd, tmr, tsync, restartCnt, config, cca, session,
                     proc, late, wrong, garbled, bare>>

(* ral_txabort *)
Txabort ==
  /\ Idle /\ session
  /\ Written(Cells("TXABORT", 0))
  /\ UNCHANGED <<master, proc, count, history>>

(* ral_config: a router_config of the network server sets up the radios.   *)
(* What was kept for a slave is given up before the new configuration is   *)
(* looked at.                                                              *)
RouterConfig ==
  /\ Idle /\ count.sessions < MaxSessions /\ MoreEvents
  /\ count' = [count EXCEPT !.sessions = @ + 1]

Configure(withCca) ==
  /\ RouterConfig
  /\ IF Writable(ConfigCells(withCca))
     THEN /\ Written(ConfigCells(withCca))
          /\ config' = TRUE /\ cca' = withCca /\ session' = TRUE
          /\ UNCHANGED <<station, call, buf, rsb, last_expcmd, tmr, tsync, restartCnt, proc, history>>
     ELSE Fatal("config")

(* It is wrong (hwspec: nothing is changed; no JSON, null, empty or not the *)
(* size of hwspec or of the hardware): nothing is sent, and what is kept is *)
(* nothing or what was read of it.  The connection is going to be closed.  *)
ConfigureFails ==
  /\ RouterConfig
  /\ config' \in BOOLEAN
  /\ bare' = (bare \/ ~config')
  /\ UNCHANGED <<station, call, buf, rsb, last_expcmd, tmr, tsync, restartCnt, cca, session,
                 pipes, proc, late, overrun, wrong, garbled>>

(* "router is underutilized": the slaves are not a multiple of what it is  *)
(* for, and this one is left out, while the session goes on.               *)
LeaveOut(withCca) ==
  /\ RouterConfig
  /\ config' = FALSE /\ bare' = TRUE /\ cca' = withCca /\ session' = TRUE
  /\ overrun' = (overrun \/ withCca # cca)
  /\ UNCHANGED <<station, call, buf, rsb, last_expcmd, tmr, tsync, restartCnt, pipes, proc,
                 late, wrong, garbled>>

(* ral_stop, called by s2e_free when a connection ends *)
Stop ==
  /\ Idle
  /\ session' = FALSE
  /\ tsync' = FALSE
  /\ IF Writable(Cells("STOP", 0)) THEN Written(Cells("STOP", 0)) ELSE UNCHANGED pipes
  /\ UNCHANGED <<station, call, buf, rsb, last_expcmd, tmr, restartCnt, config, cca,
                 proc, count, history>>

(* req_timesync *)
AskTimesync ==
  /\ Idle /\ tsync
  /\ IF Writable(Cells("TIMESYNC", 0))
     THEN /\ Written(Cells("TIMESYNC", 0))
          /\ tsync' = FALSE
          /\ UNCHANGED <<station, call, buf, rsb, last_expcmd, tmr, restartCnt, config, cca, session,
                         proc, history>>
     ELSE Fatal("request")
  /\ UNCHANGED count
-----------------------------------------------------------------------------
(* Restart *)

Alive == proc.state \in {"run", "exiting"}

(* Fault: the new process is not configured. *)
StartBare ==
  /\ proc' = Fresh
  /\ pipes' = Opened
  /\ call' = Poll("start")
  /\ tmr' = "off"
  /\ late' = {} /\ bare' = (bare /\ ~config)
  /\ UNCHANGED <<station, overrun>>

(* fork, send_config, pipe_read *)
Start ==
  /\ proc' = Fresh
  /\ pipes' = IF config THEN [Opened EXCEPT !.dn = ConfigCells(cca)] ELSE Opened
  /\ call' = Poll("start")
  /\ tmr' = "off"
  /\ late' = {} /\ bare' = (bare /\ ~config)
  /\ UNCHANGED <<station, overrun>>

(* Fault: the master does not come back to a process that is still there. *)
KillOnly ==
  /\ pipes' = Closed
  /\ tmr' = "off"
  /\ late' = {}
  /\ UNCHANGED <<station, call, proc, overrun, bare>>

(* kill (which does nothing for a process that ends anyway), try again *)
Kill ==
  /\ pipes' = Closed
  /\ tmr' = "restart"
  /\ late' = {}
  /\ UNCHANGED <<station, call, proc, overrun, bare>>

(* Fault: the count of restarts is not checked. *)
RestartUnchecked ==
  /\ restartCnt' = restartCnt + 1
  /\ tsync' = FALSE
  /\ CASE Alive -> Kill
       [] ~Alive /\ proc.fatal ->
            station' = "slave" /\ UNCHANGED <<call, tmr, pipes, proc, late, overrun, bare>>
       [] OTHER -> Start

(* restart_slave *)
RestartSlave ==
  IF restartCnt + 1 > MAX_RESTARTS
  THEN /\ station' = "velocity"
       /\ UNCHANGED <<call, restartCnt, tmr, tsync, pipes, proc, late, overrun, bare>>
  ELSE /\ restartCnt' = restartCnt + 1
       /\ tsync' = FALSE
       /\ CASE Alive -> Kill
            [] ~Alive /\ proc.fatal ->
                 station' = "slave" /\ UNCHANGED <<call, tmr, pipes, proc, late, overrun, bare>>
            [] OTHER -> Start

Restart ==
  /\ Idle /\ tmr = "restart"
  /\ RestartSlave
  /\ UNCHANGED <<buf, rsb, last_expcmd, config, cca, session, count, wrong, garbled>>

(* recheck_slave; the timer is set anew as long as the process is there. *)
Recheck ==
  /\ Idle /\ tmr = "recheck"
  /\ ~Alive
  /\ IF proc.fatal THEN Fatal("slave")
     ELSE /\ RestartSlave
          /\ UNCHANGED <<buf, rsb, last_expcmd, config, cca, session, wrong, garbled>>
  /\ UNCHANGED count
-----------------------------------------------------------------------------
(* The slave process: pipe_read, rx_polling *)

(* pipe_write_data gives up when the pipe stays full. *)
Send(cells) ==
  [pipes EXCEPT !.up = IF Room(@, cells) THEN @ \o cells ELSE @]

SlaveRead ==
  /\ proc.state = "run" /\ proc.inbox = <<>> /\ pipes.dn # <<>>
  /\ LET n == Smaller(ReadMax, Len(pipes.dn))
     IN  /\ proc' = [proc EXCEPT !.inbox = Front(pipes.dn, n)]
         /\ pipes' = [pipes EXCEPT !.dn = Back(@, n)]
  /\ UNCHANGED <<master, count, history>>

Request == Head(proc.inbox)
Fragment == proc.inbox # <<>> /\ Len(proc.inbox) < Size(Request.cmd)
SlaveGets(cmds) == /\ proc.state = "run" /\ proc.inbox # <<>>
                   /\ ~Fragment /\ Request.cmd \in cmds
Next1(p) == [p EXCEPT !.inbox = Back(@, Size(Head(p.inbox).cmd))]

(* The radio is set up, which takes seconds, or this fails. *)
SlaveConfig ==
  /\ SlaveGets({"CONFIG"})
  /\ \/ /\ proc' = [Next1(proc) EXCEPT !.conf = TRUE, !.cca = (Request.arg = 1), !.rx = TRUE]
        /\ pipes' = Send(Cells("SYNCED", 0))
        /\ UNCHANGED count
     \/ /\ count.crashes < MaxCrashes
        /\ count' = [count EXCEPT !.crashes = @ + 1]
        /\ proc' = [proc EXCEPT !.state = "exiting", !.fatal = TRUE]
        /\ UNCHANGED pipes
  /\ UNCHANGED <<master, history>>

SlaveTx ==
  /\ SlaveGets({"TX", "TX_NOCCA"})
  /\ proc' = Next1(proc)
  /\ pipes' = IF proc.cca THEN Send(<<Request>>) ELSE pipes
  /\ UNCHANGED <<master, count, history>>

SlaveTxstatus ==
  /\ SlaveGets({"TXSTATUS"})
  /\ proc' = Next1(proc)
  /\ pipes' = Send(<<Request>>)
  /\ UNCHANGED <<master, count, history>>

SlaveTimesync ==
  /\ SlaveGets({"TIMESYNC"})
  /\ proc' = Next1(proc)
  /\ pipes' = Send(Cells("SYNCED", 0))
  /\ UNCHANGED <<master, count, history>>

SlaveStop ==
  /\ SlaveGets({"STOP", "TXABORT"})
  /\ proc' = [Next1(proc) EXCEPT !.rx = (Request.cmd # "STOP" /\ @)]
  /\ UNCHANGED <<master, pipes, count, history>>

(* "Master sent unexpected data" *)
SlaveFragment ==
  /\ proc.state = "run" /\ Fragment
  /\ proc' = [proc EXCEPT !.state = "exiting", !.fatal = TRUE]
  /\ UNCHANGED <<master, pipes, count, history>>

(* A frame was received. *)
SlaveRx ==
  /\ proc.state = "run" /\ proc.inbox = <<>> /\ proc.rx
  /\ Room(pipes.up, Cells("RX", 0))
  /\ pipes' = Send(Cells("RX", 0))
  /\ UNCHANGED <<master, proc, count, history>>

(* The process is killed, crashes, ... *)
SlaveDies ==
  /\ station = "up"
  /\ proc.state = "run" /\ count.crashes < MaxCrashes
  /\ count' = [count EXCEPT !.crashes = @ + 1]
  /\ proc' = [proc EXCEPT !.state = "exiting"]
  /\ UNCHANGED <<master, pipes, history>>

SlaveGone ==
  /\ proc.state = "exiting"
  /\ proc' = [proc EXCEPT !.state = "zombie"]
  /\ UNCHANGED <<master, pipes, count, history>>

(* What the master does in read_slave_pipe, and what brings it there *)
Reading == ReadChunk \/ Spill \/ Answer \/ LateAnswer \/ News \/ Unexpected \/ GiveUp \/ ReadEof

Slave ==
  \/ SlaveRead \/ SlaveConfig \/ SlaveTx \/ SlaveTxstatus \/ SlaveTimesync \/ SlaveStop
  \/ SlaveFragment \/ SlaveRx \/ SlaveDies \/ SlaveGone

Master ==
  \/ Reading \/ PollPipe
  \/ \E nocca \in NoCca : Tx(nocca)
  \/ Txstatus \/ Txabort
  \/ \E withCca \in CcaRegions : Configure(withCca) \/ LeaveOut(withCca)
  \/ ConfigureFails \/ Stop \/ AskTimesync \/ Restart \/ Recheck

Next == Master \/ (station = "up" /\ Slave)

(* Procedures of the master end, timers are served, the slave is scheduled *)
(* and a process that exits is gone at last.                               *)
SlaveServes == SlaveRead \/ SlaveConfig \/ SlaveTx \/ SlaveTxstatus \/ SlaveTimesync \/ SlaveStop
Spec == /\ Init /\ [][Next]_vars
        /\ WF_vars(Reading) /\ WF_vars(PollPipe) /\ WF_vars(Restart) /\ WF_vars(Recheck)
        /\ WF_vars(SlaveServes) /\ WF_vars(SlaveGone)
-----------------------------------------------------------------------------
Reasons == {"velocity", "unexpected", "slave", "config", "request"}
Commands == {"CONFIG", "TX", "TX_NOCCA", "TXSTATUS", "TXABORT", "TIMESYNC", "STOP"}
Cell == [cmd : Commands \cup {"RX", "SYNCED"}, arg : Nat, part : 1 .. ReadMax]

(* Shapes of the data.  The pipes hold what they can hold, and the spill   *)
(* buffer never more than the beginning of a message (the assertion of     *)
(* read_slave_pipe).                                                       *)
TypeOK ==
  /\ station \in {"up"} \cup Reasons
  /\ last_expcmd \in {None, "TX", "TXSTATUS"} /\ call.exp \in {None, "TX", "TXSTATUS"}
  /\ tmr \in {"off", "restart", "recheck"} /\ restartCnt \in 0 .. MAX_RESTARTS
  /\ pipes.up \in Seq(Cell) /\ Len(pipes.up) <= PipeCap
  /\ pipes.dn \in Seq(Cell) /\ Len(pipes.dn) <= PipeCap
  /\ proc.state \in {"none", "run", "exiting", "zombie"}
  /\ rsb # <<>> => Len(rsb) < Size(rsb[1].cmd)

(* However read() cuts the stream, across polls, answers and restarts, the *)
(* master takes every message as a whole, and when a procedure is through  *)
(* with reading nothing is left over that the next one, or the next        *)
(* process, would be appended to.                                          *)
FramedRight ==
  /\ ~garbled
  /\ Idle => rsb = <<>> /\ buf = <<>>

(* "responded to expired synchronous cmd: %d. Ignoring." (ral_master.c):   *)
(* an answer that comes late is neither taken for that of another request  *)
(* nor is it fatal ...                                                     *)
LateIgnored == station # "unexpected" /\ ~wrong

(* ... as long as the master does not give up on a second request, or make *)
(* one of the same kind, before the late answer is there, and no slave is  *)
(* left out of a change of channel sensing.                                *)
OneLateIgnored == ~overrun => LateIgnored

(* A slave process is configured by the first thing it reads: nothing is   *)
(* sent, and no time is asked for, by a radio that was not set up, however *)
(* often it starts anew and whatever the sessions before left behind.  A   *)
(* ral_config that fails or leaves the slave out takes this away until a   *)
(* process is started with a configuration that is kept.                   *)
ConfiguredFirst ==
  ~bare /\ proc.inbox # <<>> /\ Head(proc.inbox).cmd \in Commands \ {"CONFIG", "STOP"} => proc.conf

(* "req fragments should not exist" (ral_slave.c, pipe_read) *)
NoFragments == ~Fragment

(* A slave that is gone is replaced by one that is configured again, unless *)
(* the master stops or a ral_config gives up what is kept for it.          *)
Recovers ==
  (config /\ proc.state = "exiting")
    ~> (station # "up" \/ ~config \/ (proc.state = "run" /\ proc.conf))
=============================================================================
