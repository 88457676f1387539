# A model of Basic Station

Basic Station is the program that runs on a LoRaWAN gateway.  It passes frames
received by the radio to a network server (LNS) and sends the frames the server
asks for at the microsecond it asks for.  This directory holds TLA+ modules of
its parts, TLC configurations that check them on small instances, and TLAPS
proofs.  All paths below are relative to the root of the repository unless they
name a module.

Run a check with `tlc -config X.cfg M`, a proof with `tlapm X.tla`.

## 1. Inventory

The station is a process with one event loop: `aio_loop` (`src/aio.c`) waits for
file descriptors and runs the timer queue of `src/rt.c`.  A second thread writes
the log.  Everything else that happens at the same time is the order of
callbacks, a radio or a server that answers late and, on gateways with several
radios, slave processes behind pipes.

| Component | State | Operations | Interacts with | What is hard, and what makes it correct |
|---|---|---|---|---|
| Transmit store, `xq.c` `txq_*` | pool of `txjob_t` linked by index, byte area `txdata`, `txdataInUse` | reserve, commit, insert, unlink, free | called by the s2e engine | Free moves the bytes of all other jobs. Lists stay disjoint and complete, frames tile the area and are never changed. |
| Transmit scheduler, `s2e.c` | queue, timer and duty cycle per TX unit | add a job, timer callback `s2e_nextTxAction`, `altTxTime` | TXQ, radio layer, time sync, timer queue | Jobs move between units and windows while others run. Nothing is lost, doubled, sent outside its window or too close to another frame; each job is served in the end. |
| Receive store, `xq.c` `rxq_*` | window of jobs in an array, byte area | nextJob, commitJob, dropJob | radio layer fills, s2e drains | Two compactions, a drop in the middle. It is a FIFO. |
| s2e messages, `s2e.c` | region, channels, join and net id filters, beacon | router_config, dnmsg, dnsched, dnframe, runcmd, timesync, ... | LNS web socket | Configuration while jobs wait; beacon timers. |
| Time sync, `timesync.c` | pairs of xtime and local time per unit, PPS offset, GPS epoch | updateTimesync, conversions | radio layer, LNS, scheduler | Regression over noisy pairs, roll-over of 32 bit counters; conversions fail with 0. |
| Radio layer, `ral_lgw.c`, `ral_master.c`, `ral_slave.c` | slave processes, one pending answer | tx, txstatus, txabort, config, polling | pipes; restarts | Late answers of timed out requests, messages cut by reads, restarts. A slave that is gone comes back configured. |
| Configuration, `sys.c` | URIs and credentials in regular, backup, temporary and bootstrap sets; marker files | update, backup, roll forward, reset, commit | CUPS and TC engine | Crashes between any two file operations. Sets are replaced whole; a valid backup is a whole set, and one that worked unless CUPS replaced it while TC was connecting. |
| CUPS engine, `cups.c` | session state, segment lengths, credential set in use | start, ondone, update_info, signature check | configuration files, HTTP, TC engine | Fallback among credential sets, partial responses, updates. A session is not disturbed; all sets are tried. |
| TC engine, `tc.c` | INFOS/MUXS connection state, retries | start, time-outs, back-off | web sockets, s2e, configuration, CUPS | Each engine stops and starts the other. One is always on its way. |
| Runtime, `rt.c`, `aio.c` | list of timers linked through themselves, table of descriptors | setTimer, clrTimer, yieldTo, processTimerQ | all | A callback sets or clears other timers. Timers fire, in order, once. |
| Network, `net.c`, `tls.c` | connection states, send and receive buffers | dial, send, close | TC, CUPS, web | Compaction while a frame is half written; both sides close at a time; one closed event. |
| Flash file system, `fs.c` | two sections with a log of records, open files | open, read, write, rename, unlink, gc, ck | configuration on small devices | A torn record, a collection cut short, handles across a collection. Files change at once or not at all. |
| Logs, `log.c`, `sys_log.c` | line buffer, two mutexes, rotated files | add, write, rotate, flush | all; signals | Two threads, a signal handler that exits. No line is lost; a flush ends. |
| Processes, `sys_linux.c`, `station_main.c` | pid file, `daemonPid`, `workerPid` | start, kill, respawn, update run | signals | Several starts, crashes between two looks at the file. One station has the radios, and a kill reaches all of it. |
| Remote shell, `rmtsh.c` | table of sessions, each with a terminal and two buffers | start, stop, read, write | LNS, TC engine, processes | Shells write between any two reads, the connection refuses frames. Both streams arrive in order and unmixed; a session ends for a reason and the LNS hears of it. |
| FIFO, GPS, LEDs | descriptors, line buffers | read, parse | s2e, timesync | Partial lines. |
| JSON, LoRa frames, chip setup | none between calls | parse, encode | s2e | Sequential, no protocol. |

`PROJECT.json` repeats this list with the status of each part.  It also lists the
hazards of the code line by line, each with the properties that cover it or the
reason why none does.

## 2. Modules and their code

    abstract      detailed           proofs            instance
    TxStore  <--  TxQ                ListProofs        MCTxQ
                  TxSched            TxSchedProofs     MCTxSched
    RxFifo   <--  RxQ                RxQProofs         MCRxQ
                  SysConf            SysConfProofs     MCSysConf
                  Engines            ClientProofs      MCEngines
                  RalPipe            RalProofs         MCRalPipe
    FileStore <-- FlashFs            LogProofs         MCFlashFs
                  WsConn             ClientProofs      MCWsConn
                  LogThread          LogProofs         MCLogThread
    TimerSet <--  TimerQ             ListProofs        MCTimerQ
                  RmtSh              RmtShProofs       MCRmtSh

An arrow is a refinement: the detailed module has an `INSTANCE` of the abstract
one and implements its specification (`Implements...`).  The parts divide the
system at the interfaces of its source files: TxSched works on the queues
TxStore promises and on timers TimerSet promises, Engines on sets of files that
SysConf replaces whole, and all but LogThread and RalPipe rely on the event loop
of TimerQ: a callback is not interrupted.

**TxStore** is the abstract transmit store: a pool of jobs with frames and one
sequence of jobs per unit.  **TxQ** is the store of `xq.c`.  A link (`txidx_t*`)
is the head of a list or the `next` field of a job, so insert and unlink come in
two forms, `...AtHead`/`...Head` and `...After`.  `Commit` is
`txq_reserveJob; txq_reserveData; txq_commitJob`, `Abandon` the same without the
last call, as the error paths of the message handlers leave it.  `FreeJob` holds
`txq_freeData` with its compaction; `Shifted` is the correction of one offset
with its unsigned 16 bit subtraction, `Copied` the `memcpy`.  `Ascending` selects
what that call does on overlapping areas: C leaves it open.  `home` is a history
variable that says on which list each job is.

**TxSched** is the path of a downlink frame in `s2e.c`.  `Receive` is a dnmsg,
dnsched or beacon up to the insertion of its job.  `TxTimeout` enters
`s2e_nextTxAction`, and one action follows for each way through its `again`
loop: `EmptyQueue`, `TxDone`, `TxConfirmed`, `TxFailed`, `TxMissed`, `TxAhead`,
`TxStart`, `TxRefused`, and for the loop after a started TX `Displace` and
`DisplaceDone`.  The handler is one callback; `handler` says which call is in
progress, and `Receive`, `Sync`, `Tick` and other callbacks wait for its end.
`AddTxjob` is `s2e_addTxjob` with its `check_alt` loop (`Placement`, a function
and not recursive), `altTxTime` has the windows of class A, C, P and B.  The
radio is an environment: it accepts or refuses a frame and is later found to
emit it or not.  `SendDntxed` is `send_dntxed`, which finds a send buffer or drops the
message; `TxDone` calls it for a frame that nobody has asked the radio about, when the
timer of its check comes after its end.  `ts_*` conversions give a valid xtime, or 0 when there is no
time sync, or (GPS time) a new value shifted by a member of `Drift`.  `asked`,
`sent` and `dntxed` are histories.

**RxFifo** is a FIFO that refuses a frame if and only if it is full and keeps one
of two mirror frames.  Its variable `open` says whether it takes a frame: a step
that refuses one changes nothing, so a condition on the steps alone would let a
store refuse whatever it likes.
**RxQ** is the store with its callers: `Receive` is `rxq_nextJob` (`Prepared`
with both compactions), the radio layer that fills the job, and `s2e_addRxjob`
with `rxq_dropJob`; `Discard` is a job that is fetched and not committed; `Flush`
is one round of `s2e_flushRxjobs`.

**SysConf** is the transaction scheme of `sys.c`.  A procedure is a sequence of
file operations in `todo`; one step performs one operation, so a crash fits
between any two.  `cuts` is the set of disk contents that a power failure may
leave: any of the operations since the last `sync` may be missing.  `RollForward`
is `checkRollForward`; `Respond`, `Credential`, `Commit` and `Malformed` are the
calls of `cups_update_info` in the order of a session.  `TcStart` and
`TcConnectMuxs` are the places where TC reads the URI and the credentials it connects
with (`dial`), `MuxsConnected` is the call in `tc_muxs_connection`, which backs up the
regular set as it is by then.  The content of a file is the number of the session it
came from.  `ordered` and `proven` are histories: the regular set when its backup was
last called for, and the set that had been connected with.

**Engines** is `tc.c` and `cups.c` with what `sys_linux.c` and `sys.c` put
between them.  `tc` and `cups` are the engines `TC` and `CUPS` point to, or
`NoTC` and `NoCups`; `timer` is the one timer of an engine, which leads to its
`ondone`, a time-out or the end of a back-off; `sync` is `cups_sync_tmr`.  An
action is one callback: an event of a WebSocket or HTTP connection
(`InfosConnected`, `InfosAnswer`, `MuxsConnected`, `MuxsBadMessage`,
`TcPeerCloses`, `TcShutdown`, `TcClosed`, `Cups...`), a time-out, or the ways
through `tc_continue` (`TcGivesUp`, `TcRestarts`, `TcReconnects`, `TcBacksOff`)
and `cups_ondone` (`SessionOver`, and `SyncTimer`, which has the same callback).
What a server answers and whether files parse is left open.  The timer `far` is
the INFOS time-out: `tc_start` gives microseconds to a function that takes seconds
(`src/tc.c:332`).  `retries` is a byte, as in the code.  The files and their backup are in
SysConf; here a set is a version.

**RalPipe** is the master process and one slave (they share nothing with other
slaves).  The two pipes are sequences of cells; a `read()` takes as many as fit a
buffer and may cut the last message.  The master is in a procedure that reads
(`call`) or idle.  `ReadChunk`, `Spill`, `Answer`, `LateAnswer`, `News`,
`Unexpected`, `GiveUp` and `ReadEof` are the ways through the loop of
`read_slave_pipe`; `rsb` is the spill buffer.  `Tx`, `Txstatus`, `Txabort`
and `Stop` are the `ral_*` functions, `ral_config` has three outcomes: `Configure`
sends CONFIG to the slave, `ConfigureFails` is a return of 0, by when what was kept for
the slave is gone or replaced, and `LeaveOut` is a configuration for fewer slaves than
there are, which goes on without this one.  `AskTimesync` is the `tsync`
timer, `Restart` and `Recheck` are `restart_slave` and `recheck_slave` with
`is_slave_alive`.  `SlaveRead` and the `Slave...` actions are `pipe_read` and
`rx_polling` of the slave, one action per request.  A slave ends in two steps,
as its pipe is at EOF before `waitpid` reports it (`exiting`, `zombie`); an end
by `rt_fatal` has an exit code that makes the master end too.  `GiveUp` stands
for the two milliseconds the master polls: nothing bounds how busy the slave is.
`station` is `"up"` or the reason of an `rt_fatal` of the master.  The `arg` of a
request is its number, which the program does not send; it tells `wrong` whose
answer was taken.

**FileStore** is a set of named files to which one appends, with changes that
happen at once.  **FlashFs** is `fs.c`: a log of records in the current one of
two sections.  `Mount` is `fs_ck` with its choice of section by the two magic
numbers and the repetition of an interrupted collection; `Call...` and
`Finish...` are the two halves of `fs_open`, `fs_write` and `fs_rename` around
`isFlashFull`, which may collect (`MakeSpace`), and collect again as an
emergency, giving up the log files.  `GcCopy`, `GcCopied` and `GcSwitch` are the
steps of `fs_gc` whose order on flash matters.  `Crash` is a power failure
between two flash operations, in the middle of a record (`Torn`), or of a
collection.  A record takes one cell of a section, and a name is compared as if
its CRC was the name.  `auxbuf` is the buffer that holds a name during a call and
serves `fs_gc` as well; `Risks` names the situations in which the clients come
into the way of a collection (section 4).

**WsConn** is a WebSocket connection of `net.c` as its client sees it.  The send
buffer is there byte for byte (`wpos`, `wend`, `wfill`), a byte being known by
the frame, the part and the position it belongs to and by whether it is masked;
so `WireRight` can say what the server reads.  `Send` is
`ws_getSendbuf`/`ws_sendText` with the compaction, `Ping` the answer to a PING from
within `ws_read_cb`, `WriteFrame`, `StartFrame` and `Drain` the ways through
`ws_connected_w`, `SetupClose` and `WriteClose` those through `ws_closing_w`; each
write takes any number of bytes.  `Close`, `PeerClose`, `IoError`, `Free` and
`ClosedEvent` are the ways a connection ends.

**LogThread** is `sys_log.c`.  `main` and `thread` are the places of the two
threads between calls that lock, wait, signal or write; `mxcond` and `mxfill` hold
their owners.  `Add` and `AddDirect` are `addLog`, `Flush` is `sys_flushLog`,
`Look`, `ThreadWrites` and `Drop` are the loop of `thread_log`, `Interrupt` is a
signal whose handler calls `exit()` at whatever place the main thread is, and
`Spurious` is a `pthread_cond_wait` that returns without a signal.  `Victim` is the
search of `writeLogData` for the next old file.

**TimerSet** is a set of timers with deadlines.  **TimerQ** is `rt.c`: the list
through `tmr_t.next` with its two markers, `SetTimer` (which takes the timer out
first), `ClrTimer`, `Expire` and `Return` for `rt_processTimerQ`, and the order in
which `aio_loop` serves timers, `select` and I/O.  Callbacks and I/O handlers set
and clear any timer.  `Met(v)` are the timers met when the links are followed,
`tmrnext` is `next` of `tmr_t` (TxQ has a `next` of its own).

**RmtSh** is `rmtsh.c`.  `session` is `rmtshTable`; `up` and `dn` are the buffers up
to `upfill` and `dnfill`.  `ReadData` is one round of the loop of `up_read`
(`Cut` without TC, else `Chunk`; `Compacted`), `ReadNone` and `ReadEnd` are its exits;
shells are processes of their own and write between two rounds.  `Binary` is
`s2e_onBinary` with `dn_fill` (`Fitted`, or overflow) and `dn_write` (`Write`), which
`Writable` calls again when the terminal takes bytes.  `Request` and `Respond` are the
two halves of `s2e_handleRmtsh` around the first `up_read`; stop precedes start.
The connection is reduced to its room for frames (WsConn has the rest).  `link.peer`
is what the LNS has been told, `link.missed` that a message was dropped.  Overlapping
`memcpy` in both compactions is taken to run upwards.

Operators under a comment that starts with "Fault:" are not part of the models.
Each is a definition changed by one plausible mistake, and each property was
seen to fail when its definition is replaced so (`mutants` in `PROJECT.json`).

## 3. Runs

All runs end without a violation.

| Run | Instance | Shows |
|---|---|---|
| `txq` `MCTxQ.cfg` | two units, 3 jobs, 3 bytes, frames of 0 to 2 bytes | Frames tile txdata, lists are disjoint, frames stay as committed; TxQ implements TxStore, so no job is lost from a list |
| `sched_alt` `MCTxSchedAlt.cfg` | two units, each the alternative of the other, 3 frames of class A and of a ping slot, late callbacks | Each job in one queue, in order, with a timer that will serve it, and a frame in the air is left alone (`QueueSound`); lead, distance, window and clock of what is sent (`SentRight`); one dntxed per frame, sent or dropped for want of a buffer; every job leaves |
| `sched_dc` `MCTxSchedDc.cfg` | one unit, duty cycle per channel, 3 frames of class C and of ping slots, time sync that arrives late, GPS time that moves | With displacement and backing off: no overlap, windows and clock (`OnAirRight`), duty cycle per channel |
| `rxq` `MCRxQ.cfg` | 3 jobs, 4 bytes, frames of 0 to 2 bytes | Frames tile; RxQ implements RxFifo |
| `sysconf` `MCSysConf.cfg` | 2 CUPS sessions, two failures: crashes, power failures, at most one failing write | The regular set is replaced whole, a valid backup is the set connected with, or, if CUPS replaced the set of TC between its start and the connection, the regular set at that time, also when a second crash interrupts the roll forward after the first; a power failure does not bring back a marker to files it does not belong to |
| `engines` `MCEngines.cfg` | both engines, or either alone; limits of 3 and 0 retries; one new configuration | Some timer, connection or session always pends; no session is disturbed by the sync timer; TC runs on the configuration in force; TC returns after every detour to CUPS; a station whose CUPS sessions fail tries all three credential sets for ever, unless new connections to the MUXS put off CUPS for ever |
| `ral` `MCRalPipe.cfg` | one slave, pipes of 3 cells, reads of 2; 2 requests with answers and one configuration or the other way round, with channel sensing; a configuration may fail or leave the slave out; a slave that dies or fails to set up its radio | Messages are put together right however they are cut; a single late answer is ignored; nothing is asked of a radio that is not set up; a slave that is gone is replaced and configured, or the master has stopped; the last two unless a `ral_config` left nothing to configure it with |
| `flashfs` `MCFlashFs.cfg` | two names (one a log file), two handles, sections of 4 records, a cache of one file, 3 files, 2 writes, magic up to 3 | The files of FileStore are there after any operation, collection and power failure; handles follow their files; no cell is programmed twice; what a collection keeps fits |
| `ws` `MCWsConn.cfg` | buffer of 21 bytes, payloads of 1 and 4 bytes (both header sizes), PINGs of 1, 4 frames | The server reads whole frames in order whatever the writes, compactions and pings in between; a refusal is temporary; one CONNECTED and one CLOSED; closing ends; frames leave |
| `log` `MCLogThread.cfg` | buffer of 4 bytes, lines of 1 and 3, files of 2, two old files, 8 bytes | No byte is lost, doubled or moved, exit() leaves none behind; rotation keeps the recent log; a flush ends |
| `timerq` `MCTimerQ.cfg` | three timers, set 0, 1 or 2 ahead, clock up to 2 | TimerQ implements TimerSet; a timer that is due fires although others yield to themselves for ever |
| `rmtsh` `MCRmtSh.cfg` | a session, buffers of 4 and 2 bytes, chunks of 1, a send buffer of 3, a terminal of 2, three starts, 4 bytes out and 3 in | Output and input arrive in order and whole, with nothing of an old session (`StreamsWhole`); the LNS knows whether a session runs; a session ends only for its shell, a request or a buffer that is really full; bytes for the shell do not stay |

### Bounds

* `TxQ`: three jobs suffice for a first, a middle and a last one in the byte area
  and in a list; empty frames give jobs of equal offset; the area is too small
  for three long frames, so reservations fail too.  The proofs remove the bounds.
* `TxSched`: `MaxJobs` frames are asked for until `MaxNow`; `MaxLate` bounds the
  delay of a callback and is as large as `TX_AIM_GAP`, so start times are missed.
  Times are in units of about the minimum gap: gaps, back-off step and
  RX2 delay keep the order they have in `s2conf.h`.  Three frames are needed for
  one that is in the air, one it displaces and one in the way of the latter.
  `CLASS_C_BACKOFF_MAX` is 2 where it matters.
* `RxQ`: three slots and four bytes reach each of the limits before, after and
  together with the other; two signal values tell the better mirror frame.  The
  proofs remove the bounds.
* `SysConf`: one credential file besides the URI gives two files per set, which
  is what a mixture needs; two sessions let a later one meet leftovers of an
  earlier one, or the second replace what TC has read after the first; TC starts and
  connects any number of times; `MaxFailures` is 2, so a second crash may strike the start of the
  station after the first.
* `Engines`: `RetryLimit` 3 and `MuxsRetries` 0 let TC pass through each of its
  back-offs and give up, and, as 10 and 4 in the code, leave a MUXS that comes and goes
  within the limit; `FAIL_CNT_THRES` 0 lets credentials rotate at each
  failure.  `MaxVersion` is the number of times a server hands out something new.
  Nothing else is bounded: both engines run for ever.
* `RalPipe`: reads of two cells cut any message that is two cells long and not
  first; `PipeCap` is 3 (4 in `MCRalPipeLate.cfg`), so pipes are full as well; two
  requests let a late answer meet another request; two configurations let one fail or
  leave the slave out after one that did not (`MaxEvents` lets there be two of the one and
  one of the other); one crash may come at any point, and the counter of restarts reaches
  its limit because a process that has closed its pipe may take long to end.  With two
  of both, and regions without channel sensing as well, the three invariants hold in 14.2
  million states, which takes longer than the other runs.
* `FlashFs`: with four records a section is full after a few operations, so there
  are ordinary and emergency collections and calls that fail for lack of space;
  with a cache of one file (16 in the code) two files make `fs_gc` go over the log
  again;
  `MAX_INO` is not reached: a collection numbers the files anew.
  `MaxMagic` is the number of collections.
* `WsConn`: two or three frames fit the buffer, so there are refusals, compactions
  with and without a frame half written, and a reserve for the close frame.
* `LogThread`: two lines fill the buffer beyond its high-water mark, a third is
  cut or waits; two old files let rotation find a missing one or start over.
* `RmtSh`: a session with `UPBUFSZ` 4 is full after two compactions' worth of bytes, the
  send buffer refuses after one or two frames, and `Lengths` make dnbuf overflow,
  compact or take a frame as it is.  What an old session leaves
  behind needs several starts.  What two sessions do to one another needs fewer bytes:
  `MCRmtShTwo.cfg`, kept beside the runs, has two that share the connection
  (`StreamsWhole` and `PeerInformed`, 1.3 million states).
* `TimerQ`: three timers give a first, a middle and a last one; equal deadlines
  and timers in the past occur.

Deadlock checking is off for TxSched, SysConf, RalPipe, FlashFs, WsConn, RmtSh and
LogThread: their bounds let the system come to an end (all frames served, all
sessions over, the master or the station stopped, the connection freed).

### Fairness

* **TxSched**: weak fairness of `Loop`, i.e. of time going on, expired timers
  being called and an entered handler running to its end.  `aio_loop` is an
  endless loop around `select` with the deadline of the first timer, and
  `rt_processTimerQ` calls every expired timer.  Nothing is assumed of the
  server or the radio: `AllServed` says that a job leaves in any case.
* **TimerQ**: callbacks return (`Return`), and the loop goes on.
* **Engines**: every timer is served, but for `cups_sync_tmr` in one case: `sys_delayCUPS`
  (`src/cups.c:529`) sets it anew, a full interval ahead, at each connection to the MUXS that
  finds the last CUPS session failed.  If that happens again and again (`PutOffForEver`), it
  need not fire, and `AllSetsTried` promises nothing.  A connection to INFOS, and one that is
  being closed, has no timer of the engine: there `InfosEnds` assumes that the
  peer answers or TCP gives up.  Nothing is assumed of the answers.
* **RalPipe**: the master's steps while it reads (the loop of `read_slave_pipe`
  ends after at most five polls without data), serving its pipe and its timers,
  the slave serving its requests, and a process that exits being gone at last
  (SIGKILL follows SIGTERM).  `Recovers` allows the master to stop: the velocity
  check of `restart_slave` does that when the old process takes too long to end.
* **WsConn**: a socket takes bytes at last or fails, the timer of the closed
  event is served, and a peer that got a close frame answers or disappears;
  no timer of `net.c` waits for it.
* **RmtSh**: handlers run to their end, `aio_loop` serves every descriptor that is ready
  in each of its rounds (strong fairness: other handlers run in between), and a
  shell goes on to read its terminal or ends.
* **LogThread**: both threads run.  `FlushLocks` has strong fairness: a
  `pthread_cond_wait` does not return without cause so often that the log thread
  always gets `mxcond` before a main thread that waits for it.

## 4. Where code and expectation part

Each configuration here ends in a counterexample.  They are kept beside the runs and
show what these leave out.

| Configuration | Property | What the code does | In the passing run |
|---|---|---|---|
| `MCRalPipeLate.cfg` | `LateIgnored` | A late answer is matched by command (`src-linux/ral_master.c:132`). | `OneLateIgnored` says nothing once the master gave up on a request, or repeated one, while an earlier answer was due |
| `MCRmtShEof.cfg` | `ReadNothingIsEof` | A full buffer is read as the end of the shell (`src-linux/rmtsh.c:77`). | `StopsForCause` accepts a buffer of which nothing could be sent |
| `MCRalPipeCut.cfg` | `NoFragments` | CONFIG fills the read buffer of a slave; with another request before it in the pipe it is cut, and slave and master end. | one configuration |
| `MCTxQDown.cfg` | `FramesPreserved` | `txq_freeData` uses `memcpy` on overlapping areas: with a copy that runs downwards, frames of other jobs change. | `Ascending` is TRUE |
| `MCTxSchedNoSync.cfg` | `XtimeTrue` | A job whose xtime could not be determined has xtime 0; `altTxTime` adds to it, and 0 plus an interval passes as valid. | all units of `sched_alt` are in sync; in `sched_dc` the only unit never changes its clock |
| `MCTxSchedEU868.cfg` | `BandDutyCycle` | `update_DC` charges bands only if the region is AU915, `s2e_canTxEU868` reads them in EU868: bands never rest. | no region with bands |
| `MCSysConfFault.cfg` | `UpdMarksWholeSet` | `sys_credComplete` forgets a write error; the commit that follows puts an incomplete set in force. | `RegWhole` and `BakProven` say nothing after a failed write, and `RegWhole` nothing after a power failure, because temporary files are not synced before the marker |
| `MCEnginesCut.cfg` | `TcAlwaysCurrent` | An update of TC is put in force before the firmware segment; if the session then fails, TC goes on with what it had. | `TcCurrent` leaves such sessions out |
| `MCFlashFsAux.cfg` | `NameKept` | The normalised name waits in `auxbuf` while `isFlashFull` collects, and a collection uses `auxbuf`. | clients do not run into it (`Risks = {}`) |
| `MCWsConnPong.cfg` | `NoOverrun` | `ws_getSendbuf` forgets `WSHDR_INTRA` for the case in which it moves the data: a PONG is written behind the buffer. | PINGs of one byte |
| `MCLogThreadLag.cfg` | `LinesLeave` | A line that comes while the log thread writes signals a condition nobody waits for, and stays in the buffer until somebody signals again. | such lines are late, not lost |

Some properties of the passing runs make an exception, because the code does in these
cases what it should not; TLC finds a counterexample when the exception is taken away.

* `BakProven` without `latest`: CUPS commits a new set for TC after `tc_start` or
  `tc_connect_muxs` has read the old one (`src/tc.c:308`, 125); the connection is made with the
  old set, and line 76 backs up the new one, which nobody has tried.  `bakDone` then keeps
  it: no update resets that flag, so that the backup stays the first one ever made.  (TC
  itself never reads its backup: its `credset` is always the regular one.)
* `ConfiguredFirst` without `bare`: `ral_config` frees what it keeps for every slave
  (`src-linux/ral_master.c:536`) before the checks that make it return 0, and leaves slaves
  out if their number is no multiple of what the hwspec says (578, 352).  Such a slave is
  not configured when it is started again, and `ral_altAntennas` (426) offers it for TX
  nevertheless.  For the same reason `Recovers` does not ask for a configured process
  when there is nothing to configure it with (`~config`).
* `OneLateIgnored` without that part of `overrun`: a slave left out keeps the channel sensing
  of the session before.  If the new region has none, it answers a TX the master expects
  no answer to, and the master stops ("sent unexpected data", 177).
* `AllSetsTried` without `PutOffForEver` (section 3, fairness).

`DntxedRight` does not say that a confirmed frame was seen to be sent.  `s2e_nextTxAction`
confirms one without asking the radio if its timer comes when the frame is over
(`src/s2e.c:621`), although the comment in line 600 says that a check is made that it is
being emitted; and a dntxed that finds no send buffer (275) is not sent later.

`Risks` of FlashFs has four more members: `over`, for clients that rename onto a name
that exists, `stale`, that hold a file which has been removed across a collection,
`empty`, that have an empty file open for reading during one, and `twice`, that replace a
file behind the place where a phase of the collection runs out of cache.  That phase
collects the replacement (`src/fs.c:1009`), and the next one, which begins at that place
with an empty cache, meets the same record again and copies it once more.  With
`Risks = {"twice"}` in `MCFlashFs.cfg` TLC finds `CollectionRight` violated: what is
copied may not fit, and an open file goes on in the first copy (the handle has its new
number after that one, `src/fs.c:1079`) while its name leads to the second, so what is
written from then on is not found again.  In the code this takes more than 16 files.
Further left out are: LeadKept where GPS time moves (the TX
time recalculated in `s2e_nextTxAction` is not tested against `TX_MIN_GAP`
again), and the test setting "nocca" (`NoCca` is {FALSE}: in a region with channel
sensing the answer bears a command the master does not expect and stops it).
Known, and not modelled: `rxq_dropJob` moves one job too many (`src/xq.c:265`); dnframe
and dnsched do not limit the pdu to 255 bytes (`src/s2e.c:1286`); each router_config
forgets the duty cycle already spent (`src/s2e.c:63`); a request of the radio layer that
times out counts as accepted (`src-linux/ral_master.c:477`); a start looks for another
station by a pid file that is written later and without a lock, so that two at a time
miss each other (`src-linux/sys_linux.c:1254`), and once a daemon has ended alone its
worker is out of reach of `--kill`, as `getpgid` fails for the pid in the file (371);
`up_read` of `rmtsh.c` sends one chunk for each read, so
that output of more than a chunk waits until the shell writes again and is dropped if
it ends instead (line 92), goes on for ever under a shell that never pauses while TC is
missing (76), and a stop collects the exit codes of radio slaves with its own (176).
Once all old log files are there, the one to go is always the last by name, not the oldest,
which the search has found (`src-linux/sys_log.c:146`, 149).
A signal that finds the main thread with `mxfill` in its hands makes `exit()`
wait for ever (`src-linux/sys_linux.c:106`); `FlushEnds` excepts it (`held`).

## 5. Proofs

`TypeOK` of a module that has proofs is part of its inductive invariant.

**ListProofs** is about the two components that link their elements through
themselves.  Of TxQ it speaks for any number of jobs up to 254, any area and
frame length with `MaxData + MaxLen < TXOFF_NIL` (`SizeAssumption`), any units and
byte values (`DomainAssumption`).  `Types`, `Tiling`, `Disjointness` and
`FreeIsClean`: `TypeOK`, `DataTiled`, `ListsDisjoint` and `FreeHasNoFrame` are
invariants.  `FramesSurvive`: with `Ascending = TRUE`, `FramesPreserved` holds.

The inductive invariant `IInv` strengthens the list of properties where one step
of the compaction needs it.  `DataTiled` speaks only about frames that occupy
bytes, but `txq_freeData` shifts the offset of *every* job that has one: an
empty frame needs an offset within `txdataInUse`, or the unsigned subtraction
would wrap to a wrong offset.  That every byte in use belongs to a frame is
needed to see that the frames before and after the one cut out meet again
(`CutTile`).  Disjointness of the lists needs the history `home` to say which
list a link belongs to; the step for each list operation shows that it disturbs
only the links it names.  `FramesSurvive` rests on `Shift` (what
becomes of an offset) and `CopiedUp` (what an upward copy leaves at an address),
and on `InUseHasFrame`: a job in use has an offset, so its frame is among those
that are moved.

`Implementation`: with `Ascending = TRUE`, `ImplementsStore` holds; every step of TxQ
is a step of TxStore or is not seen.  The abstract queues are what `Chain` returns, which
follows the `next` fields by recursion.  No induction theorem is needed for that recursion:
`Linked(S, e, i, nx, s)` says that link `i` leads through the sequence `s`, without
repetition, to the end `e`, and `ChainIs` shows that `Chain` returns any such `s`: the
recursion has a solution, and there is no least place at which it is not `s`.  `Census` (every
list is `Linked`, and its members are the jobs whose home it is) is the invariant added
to `IInv`.  `InsertLinked` and `RemoveLinked` say what becomes of a list at whose `k`-th
link something is put in or taken out, whatever the elements are; that the other lists
stay what they are (`SameLinked`) is where the disjointness is used again.

Of TimerQ it speaks for any set of timers, any distances and any clock
(`TimerQAssumption`).  `TimersInOrder`: `TimerInv` is an invariant: the queue is `Linked`,
sorted by deadline, and a timer has a `next` exactly if it is on it.  `TimersKept`:
`ImplementsTimers` holds.  `MetIs`, `PassedIs`, `InsertedIs` and `UnlinkedIs` say what the
searches of `rt_setTimer` and `rt_clrTimer` find: the number of timers passed is the place
behind the last one that is not later, and a timer that has a `next` is met, so that
the `assert(0)` of `rt_clrTimer` is not reached.  The order is needed for more
than the order of firing: the search stops at the first later deadline, and only in a
sorted list is that the place where the timer belongs.

**TxSchedProofs** is about TxSched, for any TX units with any alternatives, any
requests of the four classes, number of jobs, gaps (the aim gap at least the
minimum gap, `TimesAssumption`), airtimes and rates; recalculated GPS times of one
job differ by at most the minimum gap (`DriftAssumption`).  `Scheduled` is the inductive invariant `IInv`;
`TypesRight`, `QueuesSound`, `OneInTheAir`, `DntxedOnce`, and for a region with duty
cycle per channel `ChnlRests`: `TypeOK`, `QueueSound`, `NoOverlap`, `DntxedRight`
and `ChnlDutyCycle` are invariants.  `OnAirSound`: so is `OnAirRight` if `InSync`;
`SentSound`: so is `SentRight` if besides GPS time does not drift.

A queue is sound only between two calls of `s2e_nextTxAction`; `IInv` says what holds
at each place of its `again` loop.  `Queues` allows the head being sent to be out of
order while the loop over displaced jobs has not ended (`Displacing`); `Timers` says
nothing of the timer of a unit whose handler runs, and `Due` what the handler may
then rely on: it finds a frame in transmission only when its time has come.  `OnAir`
ties each frame handed to the radio to its job, so that a frame is over when the
job is removed; from that follow `NoOverlap`, since the handler starts a frame only
as head of the queue, and `DntxedInv`, as each job is confirmed in one phase and
sent in another: messages sent and messages dropped together are one for each job
confirmed.  `Charged` adds to the duty cycle what is not yet charged: a frame
in transmission begins when its channel is free.  `Serves` says what any number of
moves keeps of the request: class, window and the clock of the unit.  It is true
of whatever `altTxTime` makes of a job for which it was true (lemma `AltTxTime`), and
so of where `s2e_addTxjob` puts it in the end.

`Placement`, the `check_alt` loop of `s2e_addTxjob`, takes a fixed number of turns
in the model.  That it has come to its end by then, so that the model loses nothing,
is proved by a `Rank` that each alternative lowers (`PlacementJob`: what is placed
fits the duty cycle and collides with nothing).  Where such arguments need induction
over numbers, a least counterexample gives it (`Least`, `Induct`): `WFMin` of the
library has no operator as parameter.

`InSync` is needed: `MCTxSchedNoSync.cfg` shows a frame sent on another clock
without it (section 4).  It excludes neither units that get in sync late nor
alternatives, only alternatives that have never been in sync.  Without drift is
needed for the lead only: the time recalculated before the start is not tested
against `TX_MIN_GAP` again.

**RxQProofs** is about RxQ, for any number of slots, any area that holds a frame
(`RxSizes`) and any bytes, data rates and signals (`RxDomains`).  `Invariance`:
`Sound(rxq)` is an invariant; `Tiling`: `FramesTiled` follows.  `FramesTiled` is not
inductive, because it relates neighbours while `DataDown` subtracts the offset
of the first job from all others and `Dropped` the length of one job from all
behind it: `Ordered` says of any two jobs which one lies before the other.
`FifoOrder` is an action property: a step leaves the waiting frames alone,
appends one (with the first mirror frame taken out if that was fainter), or takes
the oldest.  For each operation one lemma
gives the shape of its result, one that this is sound, and one what becomes of
`Waiting`; the bytes are followed through `MovedBytes`.  `Implementation`: RxQ
implements RxFifo.  That `open` is mapped to `HasRoom(Prepared(rxq))` asks for more
than the order of the frames: the room that the compactions of `rxq_nextJob` make
is what the frames that wait leave (`RoomFull`).  `BytesOf` counts the bytes of these
frames; they are mapped one to one to the addresses from the first frame to the end of
the last (`BytesInUse`), which takes no induction along the frames.  `NoneMirrored` combines
`FifoOrder` with the fact that two mirrors of one frame are mirrors of one another.

**ClientProofs** is about what talks to the servers, Engines and WsConn.  Its first part
is about Engines, for any `RetryLimit` of a byte, any other
limits and any start options (`EnginesAssumption`).  `TypeCorrect`, `NothingLost`,
`Undisturbed` and `ConfigCurrent`: `TypeOK`, `SomethingPends`,
`SessionUndisturbed` and `TcCurrent` are invariants.  The first three
need each other: a session is undisturbed because TC asks for a back-off only
when none is on its way, and something pends because an ended session leaves
the sync timer.  `Inv` adds what a session has in hand (`SessionShape`: only one
that has not begun waits for its start, and only what was announced is staged) and
which version TC started with (`TcKnown`).

The second part is about WsConn, for any sizes of payloads and pings and any buffer that
holds a close frame (`WsConnAssumption`).  `ServedAlways`: `ClientServed` is an
invariant.  What was written to the socket is a beginning of what was queued (`Stream`),
and the rest of the frame being sent is what comes next.  The frames behind `wend` wait
back to back (`Waits`), and the buffer has room behind them for the header and the
length that will be put there (`Ready`).  For each operation on the buffer (move, empty,
compact, grant, commit, next frame) one lemma says that it keeps `Ready`.  A refusal
needs frames on their way, because an empty buffer is always given out whole.  Once a
PONG has overrun the buffer (section 4) the model ends, so the theorem says nothing of
what comes after.  `Stream` is a recursive function; what is needed of it for all
lengths comes from a least counterexample (`Smallest`, `JoinsAgree`).

**LogProofs** is about LogThread, for any buffer, lines and number of old files.
`NoByteLost`: `NoLineLost` is an invariant.  The argument is mutual exclusion: who
writes `outbuf` to the file and then removes bytes holds `mxcond` (`Exclusion`), so
that in between only bytes behind these can be added (`Standing`), and the numbers
of the bytes written, minus those written but not yet removed, go on in `outbuf`
(`Order`).  `RecentLogKept`: `RecentKept` is an invariant.  It needs the numbers: every
file holds a run of them, an old file only numbers before the file in use (`Below`),
no two old files the same one (`OldApart`), and the old files all of them while one
of their names is free (`OldAll`), because the file renamed then takes a free name.

LogProofs is also about FlashFs, for any names, any size of a section and of the cache, and
all `Risks`.  `FlashErasedFirst`: `EraseFirst` is a property.  A collection that the power
interrupts is begun again without erasing what it wrote.  So whatever is in the new
section must be what will be written there (`Written`): the output of the collection
(`Output`), each record in its place, the last perhaps torn.  It is, because the
output depends on the old section up to its valid end alone, which a collection leaves
as it is until everything is copied, and because a section with a torn record
(`Dirty`) is never one of an emergency collection.  `FlashSections` states the
inductive invariant: the file system is stopped, or in one of three situations
(`Running`, `Copying`, `Switching`) told apart by the two magic numbers.  That each
step keeps it needs `CollectedIs`: what a collection writes is a sequence of whole records,
whatever the log.  The recursive functions of the model are unfolded with `Computed` (such
a function exists) and `HandedOn` (what holds at 0 and is handed on holds everywhere),
which rest on the least element of a set of numbers (`LeastOf`).

**RalProofs** is about RalPipe, for any size of a read (at least two cells) and of
a pipe, any regions, and any number of requests, sessions and crashes
(`PipeAssumption`).  `TypeCorrect`, `MessagesWhole` and `RadioSetUp`: `TypeOK`,
`FramedRight` and `ConfiguredFirst` are invariants.  The proof puts together what
the code keeps in three places: `Stream` is the spill buffer, the read buffer and the
pipe to the master, `Requested` what the slave has read and the pipe to it.  A read
or a spill moves the borders inside `Stream` and leaves it as it is, a message taken is
its first one, an answer joins its end; so `Framed` (every cell has its neighbour) is
inductive, and when the pipe is empty the spill buffer, which never holds a whole
message, must be empty.  For `ConfiguredFirst` the requests of a process not yet set
up need a CONFIG before them (`Prepared`), and `ral_tx` gets this from the session:
it began with a CONFIG, or the restart wrote the one that was kept; a time sync is
asked for only after the process has sent one (`NoSynced`).  A `ral_config` that fails or
leaves the slave out takes what is kept away, so all this is said of a process that is
not `bare`; as long as one is not, `config` holds while there is a session.

`OneLate`: `OneLateIgnored` is an invariant too, if the setting "nocca" is not used
(`TRUE \notin NoCca`; with it the slave answers a request nobody waits for, and the
property is false).  A request with an answer carries its number in the model (`arg`),
and the numbers grow along `Stream`, then along `Requested` (`Numbered`, `Before`).  The
invariant `Awaited` says, as long as the master did not ask too early, that every answer
in `Stream`, and every one the slave is yet to send, is `Due`: it answers the procedure
that waits, or has the command and the number of the one that expired.  What the slave is
yet to send depends on its `cca` at the time it serves the request, and so on the last
CONFIG before it (`Sensed`), which it takes as one piece (`Blocks`); what makes it agree
with the master is that behind all requests it is what the master set last.
When an answer is taken nothing due to the same request, or to the late one, can be left,
because the numbers behind it are higher.

**RmtShProofs** is about RmtSh, for any number of sessions and any sizes of
buffers, chunks, frames and terminals (`RmtShAssumption`: `UPBUFSZ` and
`WS_CHUNKS` of more than one byte, else there is nothing to send).  `StreamsSound`
and `PeerTold`: `StreamsWhole` and `PeerInformed` are invariants; `StopsRightly`:
`StopsForCause` holds of every step.  The inductive invariant says of each session
that the bytes sent, waiting in `upbuf` and in the terminal, put together, are the
output (`Upstream`), that the bytes typed and waiting in `dnbuf` are the input
(`Downstream`), and two facts that one step does not show.  `upbuf` is compacted as
soon as it may be (`UpSound`), and it is full only while `up_read` runs with a TC
(`Drains`); so when `up_read` finds no space there is a TC and nothing of `upbuf`
was sent, which is the cause that `StopsForCause` allows.  For the other
buffer, what `dn_fill` cannot place after its compaction does not fit behind the bytes
given and not yet typed.  Without TC the older half goes out of the middle of the
stream, which keeps it in order but not whole (`MiddleGone`).

**SysConfProofs** is about SysConf, for any files of a credential (at least one, as
`sys.c` has three), any offers and any number of sessions, crashes and failures
(`ConfAssumption`).  `UpdateWhole`: `RegWhole` is an invariant.  The order in which
`SetToSeq` puts the files is not used; of a procedure counts what it holds and what
follows what (`Has`, `Follows`), which one lemma shows for each (`UpdateShape`,
`ResetShape`, `BackupQuiet`, `CredWrites`), `PlanOf` for those called together.  `RegSafe`
is what an operation leaves true (`RegStep`): the regular set is whole, or it is whole once
the temporary files are renamed (`Merged`), every one of them has its rename to come and
the marker is there, so that a start finds it.  A crash throws the operations away, and
`RollForward` gives the same ones again.  `TempSafe` is what makes `Merged` the set meant
when an update is committed: each temporary file is, or after the last write to come will
be, the one of this session, or absent, since `sys_resetConfigUpdate` has wiped it.  It
says nothing outside a session, where files of a broken one stay.

`MarkersRight` and `TypesRight`: `NoStaleMarker` and `TypeOK` are invariants, from a
second inductive invariant, `Orderly`, which unlike the first looks at all that a power
failure may leave (`cuts`) and holds whatever writes fail.  `NoStaleMarker` says nothing
while operations are pending; `MarkSafe` does.  A marker that a power failure may bring
back needs a `sync` to come before the pending removal of the marker, and in a session
`sys_resetConfigUpdate` (or the absence of such a marker) before any temporary file is
written.  This rests on the order of operations within a procedure (`Within`, `Leads`),
kept by any tail of what is to be done.  `Noted`: `bakDone` differs from the done marker
only while the procedure that notes it is pending, and only a backup of a category that
was not noted may make the marker.

`BackupSound`: `BakProven` is an invariant.  That a valid backup is the set it was called for
(`ordered`) follows from `Backed`, which is relative to the other two and,
like `Orderly`, about all of `cuts`.  From the marker of a copy on, whatever a power
failure leaves has the regular set that is to be backed up and nothing that would change
it (`Saved`): an update of a marked category has no files left to rename.  Each file of the
backup set is right or has its operations to come (`Saving`), so a `sync` after the last
of them makes all that can be left right; it comes before the copy marker is taken away.
Where an operation must be followed by a `sync` and a
later one, or must not be followed by another, the facts are collected in one lemma
(`BakLeads`).  A start finds either no copy marker, and then the backup is the old one or
the new one as the done marker says, or the marker, and then the same set to be copied.
That this set is also what was connected with is a third invariant, `Dialled`: as long as no
update was committed since `tc_start`, what TC has read is the regular set, and no rename is
pending that would change it.

Only model-checked: liveness (under fairness no backend can treat); and of FlashFs
`CollectionRight` and the refinement of FileStore.  These two compare what a search
finds before and after a collection, and so need what the phases of `fs_gc` compute for
every log, not only that it consists of whole records.

## 6. Not modelled

The status and the reason for each part are in `PROJECT.json`.

* `timesync.c` computes a regression with floating point numbers over 64 bit time
  stamps; TxSched has what the scheduler sees of it.
* Of `s2e.c`, parsing and filters are data; router_config, runcmd and
  getxtime are not modelled.  Of `cups.c`, signatures and the update process.
* Of `net.c`, the receive buffer, HTTP client and server; of `aio.c` the table of
  descriptors.
* `tls.c`, the web pages, the concentrator, GPS, FIFO, LEDs, the update process and
  commands are library calls and I/O with little state of their own.
* `uj.c`, `lora.c`, the chip configuration and argument parsing are sequential and
  have no state between calls.
* The start of the program, pid file, daemon and worker are processes of their own.
* The simulator and the self tests are test equipment (their census of lists is
  part of `ImplementsStore` of TxQ).
* `build-corecell-std/include` and `deps` are headers and build files of libraries.
  They make up most of the lines of C in the repository; the models cover the
  station itself, `src/` and `src-linux/`.

Worth doing next: proofs of `CollectionRight` and of the refinement of FileStore (FlashFs);
the table of descriptors of `aio.c` together with the double close of `ws_shutdown` (`src/net.c:458`).
