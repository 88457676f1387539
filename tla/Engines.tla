------------------------------ MODULE Engines ------------------------------
(***************************************************************************)
(* The two engines that keep a station connected, tc.c and cups.c.         *)
(*                                                                         *)
(* The TC engine asks an INFOS server for the URI of a MUXS and connects   *)
(* to it; the CUPS engine now and then fetches a new configuration, which  *)
(* replaces the one the TC engine uses.  They start and stop each other:   *)
(* a rejected TC engine ends and triggers CUPS, a finished CUPS session    *)
(* (re)starts TC and a timer for the next session, and a connected TC      *)
(* puts CUPS on a long back-off.                                           *)
(*                                                                         *)
(* Everything runs in one event loop: an action is one callback.  Timers   *)
(* fire in any order; rt_yieldTo is a timer, too.  What a server, the      *)
(* network or a credential file does is left open.                         *)
(***************************************************************************)
EXTENDS Integers, FiniteSets

CONSTANTS
  RetryLimit,      \* failures after which TC gives way to CUPS (tc.c: 10)
  MuxsRetries,     \* reconnects to one MUXS before INFOS is asked again (tc.c: 4)
  FAIL_CNT_THRES,  \* failures before CUPS rotates the credential sets
  Options,         \* possible start options: subsets of {"noTC", "noCUPS"}
  MaxVersion       \* bound: configurations a CUPS server hands out

ASSUME EnginesAssumption ==
  /\ {RetryLimit, MuxsRetries, FAIL_CNT_THRES, MaxVersion} \subseteq Nat
  /\ RetryLimit \in 1 .. 255
  /\ \A o \in Options : o \subseteq {"noTC", "noCUPS"}

VARIABLES
  tc,       \* the engine TC points to, or NoTC
  cups,     \* the engine CUPS points to, or NoCups
  cstate,   \* sys_statusCUPS of a freed engine: cstateLast
  credset,  \* cups_credset
  failCnt,  \* cups_failCnt, up to the threshold it is compared with
  sync,     \* cups_sync_tmr: "off", "resync" (CUPS_RESYNC_INTV) or "oksync"
  config,   \* version of the regular set on disk, per category
  options,  \* sys_noTC, sys_noCUPS
  (* history *)
  missed    \* a session put a new TC configuration in force and then failed

vars == <<tc, cups, cstate, credset, failCnt, sync, config, options, missed>>
-----------------------------------------------------------------------------
Cats == {"TC", "CUPS"}
REG == 0
BOOT == 2                              \* sets 0 .. 2: REG, BAK, BOOT

(* A connection is "free", "open" (connecting), "up", "closing" (ws_close)  *)
(* or "shut": the closed event is on its way.  A freed one has no events.  *)
NoTC == [st |-> "none", conn |-> "free", timer |-> "off", uri |-> FALSE, retries |-> 0, ver |-> 0]
NoCups == [st |-> "none", conn |-> "free", timer |-> "off", flags |-> {}, staged |-> {}]

TcFailed == {"FAILED", "NOURI", "TIMEOUT", "REJECTED", "CLOSED"}
CupsFailed == TcFailed
Feeding == {"FEED_CRED", "FEED_UPDATE"}
statusCUPS == IF cups = NoCups THEN cstate ELSE cups.st
-----------------------------------------------------------------------------
(* tc.c *)

(* Fault: the timer that leads to tc_continue is not set. *)
TcDoneNoYield(t, st) == [t EXCEPT !.st = st, !.conn = "free", !.timer = "off"]

(* tc_done: ondone is called as soon as possible. *)
TcDone(t, st) == [t EXCEPT !.st = st, !.conn = "free", !.timer = "ondone"]

(* tc_ini, tc_start and what the caller makes of retries.  The time-out is *)
(* "far": seconds are taken for what are microseconds.                     *)
TcStarted(n) ==
  LET ini == [NoTC EXCEPT !.st = "INI", !.retries = n % 256, !.ver = config["TC"]]
  IN  {TcDone(ini, "NOURI"), TcDone(ini, "FAILED"),
       [ini EXCEPT !.st = "INFOS_REQ_PEND", !.conn = "open", !.timer = "far"]}

(* tc_connect_muxs *)
TcToMuxs(t) ==
  {TcDone(t, "FAILED"), [t EXCEPT !.st = "MUXS_REQ_PEND", !.conn = "open", !.timer = "timeout"]}

(* sys_startTC *)
StartTC(t) == IF t # NoTC \/ "noTC" \in options THEN {t} ELSE TcStarted(0)

Infos == tc.st \in {"INFOS_REQ_PEND", "INFOS_GOT_URI"}
Muxs == tc.st \in {"MUXS_REQ_PEND", "MUXS_CONNECTED"}

(* tc_info_request, WSEV_CONNECTED *)
InfosConnected ==
  /\ tc.st = "INFOS_REQ_PEND" /\ tc.conn = "open"
  /\ tc' = [tc EXCEPT !.conn = "up"]
  /\ UNCHANGED <<cups, cstate, credset, failCnt, sync, config, options, missed>>

(* tc_info_request, WSEV_TEXTRCVD: the answer, or a second one while the   *)
(* connection is being closed, which ws_getRecvbuf makes an illegal one.   *)
InfosAnswer ==
  /\ Infos /\ tc.conn \in {"up", "closing"}
  /\ \E st \in {"INFOS_GOT_URI", "FAILED", "REJECTED"}, uri \in {tc.uri, TRUE} :
       /\ tc.conn = "closing" => st = "FAILED" /\ uri = tc.uri
       /\ st = "INFOS_GOT_URI" => uri
       /\ tc' = [tc EXCEPT !.st = st, !.uri = uri, !.conn = "closing"]
  /\ UNCHANGED <<cups, cstate, credset, failCnt, sync, config, options, missed>>

(* Fault: whether a session is on its way is not asked. *)
DelayedAlways == "oksync"

(* sys_delayCUPS.  A timer that is set already is set again, a full       *)
(* interval ahead, so each new connection to the MUXS puts CUPS off anew.  *)
DelayedSync == IF statusCUPS \in CupsFailed THEN "oksync" ELSE sync

(* tc_muxs_connection, WSEV_CONNECTED; the backup is part of SysConf *)
MuxsConnected ==
  /\ tc.st = "MUXS_REQ_PEND" /\ tc.conn = "open"
  /\ tc' = [tc EXCEPT !.st = "MUXS_CONNECTED", !.conn = "up", !.timer = "off"]
  /\ sync' = DelayedSync
  /\ UNCHANGED <<cups, cstate, credset, failCnt, config, options, missed>>

(* tc_muxs_connection, WSEV_TEXTRCVD or WSEV_BINARYRCVD with a bad message *)
MuxsBadMessage ==
  /\ tc.st = "MUXS_CONNECTED" /\ tc.conn \in {"up", "closing"}
  /\ tc' = [tc EXCEPT !.st = "FAILED", !.conn = "closing"]
  /\ UNCHANGED <<cups, cstate, credset, failCnt, sync, config, options, missed>>

(* The server starts to close a connection. *)
TcPeerCloses ==
  /\ tc.conn = "up"
  /\ tc' = [tc EXCEPT !.conn = "closing"]
  /\ UNCHANGED <<cups, cstate, credset, failCnt, sync, config, options, missed>>

(* ws_shutdown: the connection is closed on both sides or has failed *)
TcShutdown ==
  /\ tc.conn \in {"open", "up", "closing"}
  /\ tc' = [tc EXCEPT !.conn = "shut"]
  /\ UNCHANGED <<cups, cstate, credset, failCnt, sync, config, options, missed>>

(* WSEV_CLOSED in tc_info_request and tc_muxs_connection *)
TcClosed ==
  /\ tc.conn = "shut"
  /\ tc' \in CASE tc.st = "INFOS_GOT_URI" -> TcToMuxs(tc)
               [] tc.st = "MUXS_REQ_PEND" -> {TcDone(tc, "FAILED")}
               [] tc.st \in {"INFOS_REQ_PEND", "MUXS_CONNECTED"} -> {TcDone(tc, "CLOSED")}
               [] OTHER -> {TcDone(tc, tc.st)}
  /\ UNCHANGED <<cups, cstate, credset, failCnt, sync, config, options, missed>>

(* tc_timeout *)
TcTimeout ==
  /\ tc.timer = "timeout"
  /\ tc' = TcDone(tc, "TIMEOUT")
  /\ UNCHANGED <<cups, cstate, credset, failCnt, sync, config, options, missed>>
-----------------------------------------------------------------------------
(* cups.c *)

(* cups_done.  Nobody reads what was staged any more (sys_resetConfigUpdate). *)
CupsDone(c, st) == [c EXCEPT !.st = st, !.conn = "free", !.timer = "ondone", !.staged = {}]

(* sys_triggerCUPS: the engine and the sync timer after it *)
TriggerCUPS(c, s) ==
  IF c # NoCups \/ "noCUPS" \in options THEN <<c, s>>
  ELSE <<[NoCups EXCEPT !.st = "INI", !.timer = "delay"], "off">>

(* delayedCUPSstart, cups_start *)
CupsStart ==
  /\ cups.timer = "delay"
  /\ cups' \in {CupsDone(cups, "NOURI"), CupsDone(cups, "FAILED"),
                [cups EXCEPT !.st = "HTTP_REQ_PEND", !.conn = "open", !.timer = "timeout"]}
  /\ UNCHANGED <<tc, cstate, credset, failCnt, sync, config, options, missed>>

(* cups_update_info, HTTPEV_RESPONSE with a status other than 200 *)
CupsRejected ==
  /\ cups.st = "HTTP_REQ_PEND" /\ cups.conn = "open"
  /\ cups' = [cups EXCEPT !.st = "REJECTED", !.conn = "shut"]
  /\ UNCHANGED <<tc, cstate, credset, failCnt, sync, config, options, missed>>

(* sys_commitConfigUpdate: what was received is the regular set now. *)
Committed(staged) ==
  [c \in Cats |-> IF c \in staged THEN config[c] + 1 ELSE config[c]]

(* The part of a response that is in the buffer is worked off up to state  *)
(* st, with new URIs or credentials for the categories in new.  The update *)
(* is put in force before a firmware segment and at the end.               *)
Received(c, st, new) ==
  LET staged == c.staged \cup new
  IN  /\ cups' = [c EXCEPT !.flags = @ \cup new, !.st = st,
                           !.staged = IF st = "FEED_CRED" THEN staged ELSE {},
                           !.conn = IF st = "DONE" THEN "shut" ELSE "open",
                           !.timer = "timeout"]
      /\ config' = IF st = "FEED_CRED" THEN config ELSE Committed(staged)

Offered == {new \in SUBSET Cats : \A c \in new : config[c] < MaxVersion}

(* HTTPEV_RESPONSE with status 200: the first chunk; the backup is part of *)
(* SysConf                                                                 *)
CupsAccepted ==
  /\ cups.st = "HTTP_REQ_PEND" /\ cups.conn = "open"
  /\ \/ \E st \in Feeding \cup {"DONE"}, new \in Offered : Received(cups, st, new)
     \/ cups' = CupsDone(cups, "FAILED") /\ UNCHANGED config      \* proto_err
  /\ UNCHANGED <<tc, cstate, credset, failCnt, sync, options, missed>>

(* HTTPEV_RESPONSE: one more chunk *)
CupsChunk ==
  /\ cups.st \in Feeding /\ cups.conn = "open"
  /\ \/ \E st \in Feeding \cup {"DONE"}, new \in Offered :
          /\ cups.st = "FEED_UPDATE" => st # "FEED_CRED" /\ new = {}
          /\ Received(cups, st, new)
     \/ cups' = CupsDone(cups, "FAILED") /\ UNCHANGED config      \* proto_err
  /\ UNCHANGED <<tc, cstate, credset, failCnt, sync, options, missed>>

(* http_close after an I/O error or the end of the connection *)
CupsShutdown ==
  /\ cups.conn = "open"
  /\ cups' = [cups EXCEPT !.conn = "shut"]
  /\ UNCHANGED <<tc, cstate, credset, failCnt, sync, config, options, missed>>

(* HTTPEV_CLOSED *)
CupsClosed ==
  /\ cups.conn = "shut"
  /\ cups' = CupsDone(cups, IF cups.st \in Feeding \cup {"HTTP_REQ_PEND"} THEN "CLOSED" ELSE cups.st)
  /\ UNCHANGED <<tc, cstate, credset, failCnt, sync, config, options, missed>>

(* cups_timeout.  A session that is DONE has just set its time-out anew, so *)
(* its closed event comes first.                                           *)
CupsTimeout ==
  /\ cups.timer = "timeout" /\ cups.st # "DONE"
  /\ cups' = CupsDone(cups, "TIMEOUT")
  /\ UNCHANGED <<tc, cstate, credset, failCnt, sync, config, options, missed>>
-----------------------------------------------------------------------------
(* Where the engines meet *)

(* Fault: only the number of failures makes it try other credentials, and  *)
(* they wrap around before the last set.                                   *)
RotatedShort ==
  IF failCnt > FAIL_CNT_THRES \/ cups.st \in {"REJECTED", "NOURI"}
  THEN (credset + 1) % BOOT ELSE credset

(* Try the next of the sets of credentials. *)
Rotated ==
  IF failCnt > FAIL_CNT_THRES \/ cups.st \in {"REJECTED", "NOURI"}
  THEN (credset + 1) % (BOOT + 1) ELSE credset

(* Fault: only new credentials make TC start again, not a new URI. *)
TcAfterSessionKept == tc

(* sys_stopTC if its configuration has changed *)
TcAfterSession == IF cups.st = "DONE" /\ "TC" \in cups.flags THEN NoTC ELSE tc

Missed ==
  /\ TcAfterSession # NoTC
  /\ missed \/ (cups.st # "DONE" /\ tc.ver # config["TC"])

(* Fault: an engine that was stopped is left to the next session. *)
CupsOndoneNoTC ==
  /\ sync' = IF \/ tc.st = "MUXS_CONNECTED" /\ TcAfterSession = tc
                \/ cups.st = "DONE" /\ "CUPS" \notin cups.flags
             THEN "oksync" ELSE "resync"
  /\ tc' = TcAfterSession
  /\ credset' = IF cups.st = "DONE" THEN REG ELSE Rotated
  /\ failCnt' = IF cups.st = "DONE" THEN 0
                ELSE IF failCnt > FAIL_CNT_THRES THEN failCnt ELSE failCnt + 1
  /\ cstate' = cups.st
  /\ cups' = NoCups
  /\ missed' = Missed
  /\ UNCHANGED <<config, options>>

(* cups_ondone with an engine: a session is over, well or not. *)
CupsOndone ==
  /\ sync' = IF \/ tc.st = "MUXS_CONNECTED" /\ TcAfterSession = tc
                \/ cups.st = "DONE" /\ "CUPS" \notin cups.flags
             THEN "oksync" ELSE "resync"
  /\ tc' \in StartTC(TcAfterSession)
  /\ credset' = IF cups.st = "DONE" THEN REG ELSE Rotated
  /\ failCnt' = IF cups.st = "DONE" THEN 0
                ELSE IF failCnt > FAIL_CNT_THRES THEN failCnt ELSE failCnt + 1
  /\ cstate' = cups.st
  /\ cups' = NoCups
  /\ missed' = Missed
  /\ UNCHANGED <<config, options>>

SessionOver == cups.timer = "ondone" /\ CupsOndone

(* cups_sync_tmr fires, with cups_ondone as its callback: the next regular *)
(* session, or the end of one that runs.                                   *)
SyncTimer ==
  /\ sync # "off"
  /\ IF cups # NoCups THEN CupsOndone
     ELSE /\ cups' = TriggerCUPS(cups, "off")[1]
          /\ sync' = TriggerCUPS(cups, "off")[2]
          /\ UNCHANGED <<tc, cstate, credset, failCnt, config, options, missed>>

TcDue == tc.timer \in {"ondone", "backoff"}

(* Fault: only a verdict of the server counts. *)
GiveUpRejected ==
  /\ tc.st \in {"REJECTED", "NOURI"}
  /\ "noCUPS" \notin options

(* Fault: a station without CUPS gives up, too. *)
GiveUpAnyway == tc.st \in {"REJECTED", "NOURI"} \/ tc.retries >= RetryLimit

GiveUp ==
  /\ tc.st \in {"REJECTED", "NOURI"} \/ tc.retries >= RetryLimit
  /\ "noCUPS" \notin options

(* tc_continue: "Router rejected or retry limit reached. Invoking CUPS." *)
TcGivesUp ==
  /\ TcDue /\ GiveUp
  /\ tc' = NoTC
  /\ cups' = TriggerCUPS(cups, sync)[1]
  /\ sync' = TriggerCUPS(cups, sync)[2]
  /\ missed' = FALSE
  /\ UNCHANGED <<cstate, credset, failCnt, config, options>>

(* tc_continue at the end of a back-off: a new engine asks INFOS again ... *)
TcRestarts ==
  /\ TcDue /\ ~GiveUp /\ tc.st = "INFOS_BACKOFF"
  /\ tc' \in TcStarted(tc.retries + 1)
  /\ missed' = FALSE
  /\ UNCHANGED <<cups, cstate, credset, failCnt, sync, config, options>>

(* ... or the same one the MUXS it knows. *)
TcReconnects ==
  /\ TcDue /\ ~GiveUp /\ tc.st = "MUXS_BACKOFF"
  /\ tc' \in TcToMuxs([tc EXCEPT !.retries = (@ + 1) % 256])
  /\ UNCHANGED <<cups, cstate, credset, failCnt, sync, config, options, missed>>

(* tc_continue after an error: back off *)
TcBacksOff ==
  /\ TcDue /\ ~GiveUp /\ tc.st \in TcFailed
  /\ tc' = IF tc.uri /\ tc.retries <= MuxsRetries /\ tc.st = "CLOSED"
           THEN [tc EXCEPT !.st = "MUXS_BACKOFF", !.timer = "backoff"]
           ELSE [tc EXCEPT !.st = "INFOS_BACKOFF", !.timer = "backoff", !.uri = FALSE,
                           !.retries = IF tc.uri THEN 1 ELSE @]
  /\ UNCHANGED <<cups, cstate, credset, failCnt, sync, config, options, missed>>
-----------------------------------------------------------------------------
(* startupMaster2: sys_startTC, sys_triggerCUPS(0) *)
Init ==
  /\ options \in Options
  /\ config = [c \in Cats |-> 0]
  /\ tc \in StartTC(NoTC)
  /\ cups = TriggerCUPS(NoCups, "off")[1]
  /\ sync = "off" /\ cstate = "INI"
  /\ credset = REG /\ failCnt = 0
  /\ missed = FALSE

TcServer == InfosConnected \/ InfosAnswer \/ MuxsConnected \/ MuxsBadMessage \/ TcPeerCloses
CupsServer == CupsRejected \/ CupsAccepted \/ CupsChunk \/ CupsShutdown
Timers ==
  \/ TcTimeout \/ TcGivesUp \/ TcRestarts \/ TcReconnects \/ TcBacksOff \/ TcClosed
  \/ CupsStart \/ CupsTimeout \/ CupsClosed \/ SessionOver \/ SyncTimer

Next == TcServer \/ TcShutdown \/ CupsServer \/ Timers
-----------------------------------------------------------------------------
(* The loop serves every timer at last, but cups_sync_tmr only if it is    *)
(* not set anew for ever: it is by each connection to the MUXS that finds  *)
(* the last CUPS session failed (sys_delayCUPS), so a MUXS that comes and  *)
(* goes within each CUPS_OKSYNC_INTV puts off CUPS for good.               *)
PutOff == MuxsConnected /\ statusCUPS \in CupsFailed
PutOffForEver == []<><<PutOff>>_vars

(* No timer guards a connection to INFOS or one that is being closed:      *)
(* there the peer or TCP has to act.                                       *)
InfosEnds == (Infos \/ tc.conn = "closing") /\ (TcShutdown \/ InfosAnswer)

Fairness ==
  /\ WF_vars(TcTimeout) /\ WF_vars(TcClosed)
  /\ WF_vars(TcGivesUp \/ TcRestarts \/ TcReconnects \/ TcBacksOff)
  /\ WF_vars(CupsStart) /\ WF_vars(CupsTimeout \/ CupsClosed)
  /\ WF_vars(SessionOver) /\ (PutOffForEver \/ WF_vars(SyncTimer))
  /\ WF_vars(InfosEnds)

Spec == Init /\ [][Next]_vars /\ Fairness
-----------------------------------------------------------------------------
Engine(states) ==
  [st : states, conn : {"free", "open", "up", "closing", "shut"},
   timer : {"off", "ondone", "backoff", "timeout", "far"}, uri : BOOLEAN,
   retries : 0 .. 255, ver : 0 .. MaxVersion]

TcStates == TcFailed \cup
  {"INFOS_REQ_PEND", "INFOS_GOT_URI", "INFOS_BACKOFF", "MUXS_REQ_PEND", "MUXS_CONNECTED", "MUXS_BACKOFF"}
CupsStates == CupsFailed \cup Feeding \cup {"INI", "HTTP_REQ_PEND", "DONE"}

(* Shapes of the data.  With CUPS the u1 that counts the retries of TC      *)
(* stays within the limit and never wraps around.                          *)
TypeOK ==
  /\ tc \in {NoTC} \cup Engine(TcStates)
  /\ cups = NoCups \/ cups \in
       [st : CupsStates, conn : {"free", "open", "shut"}, timer : {"delay", "timeout", "ondone"},
        flags : SUBSET Cats, staged : SUBSET Cats]
  /\ cstate \in CupsStates /\ credset \in REG .. BOOT /\ failCnt \in 0 .. FAIL_CNT_THRES + 1
  /\ sync \in {"off", "resync", "oksync"} /\ config \in [Cats -> 0 .. MaxVersion]
  /\ options \in Options /\ missed \in BOOLEAN
  /\ "noCUPS" \notin options => tc.retries <= RetryLimit

(* No engine is lost: a station with CUPS always has a session or a timer   *)
(* for the next, without a TC engine a session, whose end brings TC back;  *)
(* and a TC engine that is there waits for a timer or for its connection.  *)
SomethingPends ==
  /\ "noCUPS" \notin options => cups # NoCups \/ sync # "off"
  /\ tc = NoTC => "noTC" \in options \/ cups # NoCups
  /\ tc # NoTC => tc.timer \notin {"off", "far"} \/ tc.conn # "free"

(* The sync timer has the callback that ends a session, and ends as failed *)
(* one that is not DONE: it is never set while a session is on its way and *)
(* has not failed already, whatever TC asks for meanwhile (sys_delayCUPS). *)
SessionUndisturbed == sync # "off" => cups = NoCups \/ cups.st \in CupsFailed

(* Between sessions the TC engine works with the configuration in force,   *)
(* but for sessions that fail after the update was put in force.           *)
TcCurrent == cups = NoCups /\ tc # NoTC /\ ~missed => tc.ver = config["TC"]

(* "Any change here - restart TC connection" (cups.c, cups_ondone): between *)
(* sessions the TC engine works with the configuration in force.           *)
TcAlwaysCurrent == cups = NoCups /\ tc # NoTC => tc.ver = config["TC"]

(* A TC engine that gave way to CUPS is started again, whatever becomes of *)
(* the CUPS session.                                                       *)
TcReturns == tc = NoTC /\ "noTC" \notin options ~> tc # NoTC

(* A station whose CUPS sessions all fail tries each of its credential     *)
(* sets again and again, down to the BOOT set it was delivered with,       *)
(* unless new connections to the MUXS put off CUPS for ever.               *)
AllSetsTried ==
  "noCUPS" \notin options =>
    \/ []<>(cups.st = "DONE") \/ PutOffForEver
    \/ \A s \in REG .. BOOT : []<>(credset = s /\ cups.st # "none")
=============================================================================
