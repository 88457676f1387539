---------------------------- MODULE ClientProofs ----------------------------
(***************************************************************************)
(* The safety properties of Engines, for all limits and start options, and *)
(* of WsConn, the connection that the engines are clients of, for any send *)
(* buffer and any frames.                                                  *)
(*                                                                         *)
(* Engines: the properties are proved together: Inv adds to them what a    *)
(* session has in hand.  Most steps change one engine only; the lemmas     *)
(* TcStep and CupsStep say what such a step has to keep, and the lemma of  *)
(* an action shows that it does.                                           *)
(*                                                                         *)
(* WsConn: WsInv says that what is on the wire, together with the rest of  *)
(* the frame being sent, is a beginning of the stream of frames, and that  *)
(* the frames behind it wait in the buffer.                                *)
(***************************************************************************)
EXTENDS Engines, WsConn, SequenceTheorems, WellFoundedInduction, TLAPS


TcType == Engine(TcStates)

CupsType ==
  [st : CupsStates, conn : {"free", "open", "shut"}, timer : {"delay", "timeout", "ondone"},
   flags : SUBSET Cats, staged : SUBSET Cats]

(* What is asked of a TC engine that is there *)
Alive(t) == t.timer \notin {"off", "far"} \/ t.conn # "free"

GoodTC(t) ==
  /\ t \in TcType
  /\ Alive(t)
  /\ "noCUPS" \notin options => t.retries <= RetryLimit

(* Only a session that has not begun waits for its start; what is staged   *)
(* has been announced, and can be put in force.                            *)
Session(c, conf) ==
  /\ c.timer = "delay" => c.st = "INI"
  /\ c.staged \subseteq c.flags
  /\ \A x \in c.staged : conf[x] < MaxVersion

SessionShape == cups # NoCups => Session(cups, config)

(* A TC engine that works with an old configuration is known to a session. *)
TcKnown ==
  tc # NoTC /\ ~missed =>
    tc.ver = config["TC"] \/ (cups # NoCups /\ "TC" \in cups.flags)

Inv ==
  /\ TypeOK
  /\ SomethingPends
  /\ SessionUndisturbed
  /\ SessionShape
  /\ TcKnown
-----------------------------------------------------------------------------
LEMMA NoneLeft ==
  /\ \A t \in TcType : t # NoTC
  /\ \A c \in CupsType : c # NoCups
BY DEF TcType, Engine, TcStates, TcFailed, NoTC, CupsType, CupsStates, CupsFailed, Feeding, NoCups

LEMMA RetryByte ==
  \A n \in 0 .. 255 : (n + 1) % 256 \in 0 .. 255 /\ (n + 1) % 256 <= n + 1
OBVIOUS

(* tc_done keeps an engine in shape, whatever state it ends in. *)
LEMMA TcDoneGood ==
  ASSUME NEW t \in Engine(TcStates \cup {"INI"}), NEW st \in TcStates,
         "noCUPS" \notin options => t.retries <= RetryLimit
  PROVE  GoodTC(TcDone(t, st)) /\ TcDone(t, st).ver = t.ver
BY DEF GoodTC, TcType, Engine, Alive, TcDone

LEMMA TcToMuxsGood ==
  ASSUME NEW t \in TcType, NEW u \in TcToMuxs(t),
         "noCUPS" \notin options => t.retries <= RetryLimit
  PROVE  GoodTC(u) /\ u.ver = t.ver
<1>1. CASE u = TcDone(t, "FAILED")
  <2>1. t \in Engine(TcStates \cup {"INI"}) /\ "FAILED" \in TcStates
    BY DEF TcType, Engine, TcStates, TcFailed
  <2> QED BY <1>1, <2>1, TcDoneGood
<1>2. CASE u = [t EXCEPT !.st = "MUXS_REQ_PEND", !.conn = "open", !.timer = "timeout"]
  <2> DEFINE C == {"free", "open", "up", "closing", "shut"}
             D == {"off", "ondone", "backoff", "timeout", "far"}
  <2>1. "MUXS_REQ_PEND" \in TcStates
    BY DEF TcStates
  <2>2. "open" \in C /\ "timeout" \in D
    OBVIOUS
  <2>3. t \in [st : TcStates, conn : C, timer : D, uri : BOOLEAN, retries : 0 .. 255, ver : 0 .. MaxVersion]
    BY DEF TcType, Engine
  <2> HIDE DEF C, D
  <2>4. u \in [st : TcStates, conn : C, timer : D, uri : BOOLEAN, retries : 0 .. 255, ver : 0 .. MaxVersion]
    BY <1>2, <2>1, <2>2, <2>3
  <2>5. u.conn = "open" /\ u.retries = t.retries /\ u.ver = t.ver
    BY <1>2, <2>3
  <2>6. u \in TcType
    BY <2>4 DEF TcType, Engine, C, D
  <2> QED
    BY <2>5, <2>6 DEF GoodTC, Alive
<1> QED BY <1>1, <1>2 DEF TcToMuxs

(* The fields of an engine. *)
LEMMA EngineFields ==
  ASSUME NEW S, NEW t \in Engine(S)
  PROVE  /\ t = [st |-> t.st, conn |-> t.conn, timer |-> t.timer, uri |-> t.uri, retries |-> t.retries, ver |-> t.ver]
         /\ t.timer \in {"off", "ondone", "backoff", "timeout", "far"} /\ t.uri \in BOOLEAN
         /\ t.retries \in 0 .. 255 /\ t.ver \in 0 .. MaxVersion
<1> DEFINE C == {"free", "open", "up", "closing", "shut"}
           D == {"off", "ondone", "backoff", "timeout", "far"}
<1>1. t \in [st : S, conn : C, timer : D, uri : BOOLEAN, retries : 0 .. 255, ver : 0 .. MaxVersion]
  BY DEF Engine
<1> HIDE DEF C, D
<1>2. t = [st |-> t.st, conn |-> t.conn, timer |-> t.timer, uri |-> t.uri, retries |-> t.retries, ver |-> t.ver]
  BY <1>1
<1>3. t.timer \in D /\ t.uri \in BOOLEAN /\ t.retries \in 0 .. 255 /\ t.ver \in 0 .. MaxVersion
  BY <1>1
<1> QED
  BY <1>2, <1>3 DEF D

(* tc_start leaves an engine that works with the configuration in force. *)
LEMMA TcStartedGood ==
  ASSUME config \in [Cats -> 0 .. MaxVersion], NEW n \in Nat, n % 256 \in 0 .. 255,
         "noCUPS" \notin options => n % 256 <= RetryLimit,
         NEW u \in TcStarted(n)
  PROVE  GoodTC(u) /\ u.ver = config["TC"]
<1> DEFINE ini == [NoTC EXCEPT !.st = "INI", !.retries = n % 256, !.ver = config["TC"]]
<1>1. ini \in Engine(TcStates \cup {"INI"}) /\ ini.retries = n % 256 /\ ini.ver = config["TC"]
  BY DEF NoTC, Engine, Cats
<1>2. {"NOURI", "FAILED"} \subseteq TcStates
  BY DEF TcStates, TcFailed
<1> HIDE DEF ini
<1>3. CASE u \in {TcDone(ini, "NOURI"), TcDone(ini, "FAILED")}
  BY <1>1, <1>2, <1>3, TcDoneGood
<1>4. CASE u = [ini EXCEPT !.st = "INFOS_REQ_PEND", !.conn = "open", !.timer = "far"]
  <2>1. "INFOS_REQ_PEND" \in TcStates
    BY DEF TcStates
  <2> DEFINE uri == ini.uri
             retries == ini.retries
             ver == ini.ver
             made == [st |-> "INFOS_REQ_PEND", conn |-> "open", timer |-> "far", uri |-> uri, retries |-> retries, ver |-> ver]
  <2>3. ini = [st |-> ini.st, conn |-> ini.conn, timer |-> ini.timer, uri |-> uri, retries |-> retries, ver |-> ver]
        /\ uri \in BOOLEAN /\ retries \in 0 .. 255 /\ ver \in 0 .. MaxVersion
    BY <1>1, EngineFields
  <2>4. u = made
    BY <1>4, <2>3
  <2> HIDE DEF uri, retries, ver
  <2>5. made \in Engine(TcStates)
    <3> DEFINE C == {"free", "open", "up", "closing", "shut"}
               D == {"off", "ondone", "backoff", "timeout", "far"}
    <3>1. "open" \in C /\ "far" \in D
      OBVIOUS
    <3> HIDE DEF C, D
    <3>2. made \in [st : TcStates, conn : C, timer : D, uri : BOOLEAN, retries : 0 .. 255, ver : 0 .. MaxVersion]
      BY <2>1, <2>3, <3>1
    <3> QED
      BY <3>2 DEF Engine, C, D
  <2>2. /\ u \in Engine(TcStates) /\ u.conn = "open"
        /\ u.retries = ini.retries /\ u.ver = ini.ver
    BY <2>4, <2>5 DEF retries, ver
  <2> QED
    BY <1>1, <2>2 DEF GoodTC, TcType, Alive
<1> QED BY <1>3, <1>4 DEF TcStarted, ini
-----------------------------------------------------------------------------
(* A step of the TC engine keeps Inv if it leaves the engine in shape, with *)
(* the configuration it has, and CUPS with a timer.                        *)
LEMMA TcStep ==
  ASSUME Inv, tc # NoTC, GoodTC(tc'), tc'.ver = tc.ver,
         sync' \in {"off", "resync", "oksync"}, sync # "off" => sync' # "off",
         SessionUndisturbed',
         UNCHANGED <<cups, cstate, credset, failCnt, config, options, missed>>
  PROVE  Inv'
<1>1. TypeOK'
  BY DEF Inv, TypeOK, GoodTC, TcType
<1>2. SomethingPends'
  BY NoneLeft DEF Inv, SomethingPends, GoodTC, Alive
<1>3. SessionShape'
  BY DEF Inv, SessionShape, Session
<1>4. TcKnown'
  BY DEF Inv, TcKnown
<1> QED BY <1>1, <1>2, <1>3, <1>4 DEF Inv

(* A step of a session keeps Inv if the session is still one, announces    *)
(* what it puts in force, and does not recover while the sync timer is set. *)
LEMMA CupsStep ==
  ASSUME Inv, cups # NoCups, cups' \in CupsType, cups.flags \subseteq cups'.flags,
         config' \in [Cats -> 0 .. MaxVersion], Session(cups', config'),
         config'["TC"] = config["TC"] \/ "TC" \in cups'.flags,
         cups.st \in CupsFailed => cups'.st \in CupsFailed,
         UNCHANGED <<tc, cstate, credset, failCnt, sync, options, missed>>
  PROVE  Inv'
<1>1. TypeOK'
  BY DEF Inv, TypeOK, CupsType
<1>2. SomethingPends'
  BY NoneLeft DEF Inv, SomethingPends
<1>3. SessionUndisturbed'
  BY DEF Inv, SessionUndisturbed
<1>4. SessionShape'
  BY DEF SessionShape
<1>5. TcKnown'
  BY NoneLeft DEF Inv, TcKnown
<1> QED BY <1>1, <1>2, <1>3, <1>4, <1>5 DEF Inv
-----------------------------------------------------------------------------
(* What Inv says of an engine that is there *)
LEMMA TcThere ==
  ASSUME Inv, tc # NoTC
  PROVE  GoodTC(tc)
BY DEF Inv, TypeOK, GoodTC, TcType, SomethingPends, Alive

LEMMA CupsThere ==
  ASSUME Inv, cups # NoCups
  PROVE  cups \in CupsType /\ Session(cups, config)
BY DEF Inv, TypeOK, CupsType, SessionShape

(* The callbacks of the TC connections keep Inv. *)
LEMMA TcServerInv ==
  ASSUME Inv, TcServer
  PROVE  Inv'
<1>1. tc # NoTC
  <2>1. NoTC.st = "none" /\ NoTC.conn = "free"
    BY DEF NoTC
  <2>2. tc.st # "none" \/ tc.conn # "free"
    BY DEF TcServer, InfosConnected, InfosAnswer, Infos, MuxsConnected, MuxsBadMessage, TcPeerCloses
  <2> QED BY <2>1, <2>2
<1>2. GoodTC(tc)
  BY <1>1, TcThere
<1>3. sync \in {"off", "resync", "oksync"} /\ SessionUndisturbed
  BY DEF Inv, TypeOK
<1>4. CASE InfosConnected
  <2>1. GoodTC(tc') /\ tc'.ver = tc.ver
    BY <1>2, <1>4 DEF InfosConnected, GoodTC, TcType, Engine, Alive
  <2> QED BY <1>1, <1>3, <1>4, <2>1, TcStep DEF InfosConnected, SessionUndisturbed
<1>5. CASE InfosAnswer
  <2>1. PICK st \in {"INFOS_GOT_URI", "FAILED", "REJECTED"}, uri \in {tc.uri, TRUE} :
          tc' = [tc EXCEPT !.st = st, !.uri = uri, !.conn = "closing"]
    BY <1>5 DEF InfosAnswer
  <2>2. GoodTC(tc') /\ tc'.ver = tc.ver
    <3>1. st \in TcStates
      BY DEF TcStates, TcFailed
    <3>2. uri \in BOOLEAN
      BY <1>2 DEF GoodTC, TcType, Engine
    <3>3. /\ tc' \in Engine(TcStates) /\ tc'.conn = "closing"
          /\ tc'.retries = tc.retries /\ tc'.ver = tc.ver
      <4> DEFINE timer == tc.timer
                 retries == tc.retries
                 ver == tc.ver
                 made == [st |-> st, conn |-> "closing", timer |-> timer, uri |-> uri, retries |-> retries, ver |-> ver]
      <4>1. tc = [st |-> tc.st, conn |-> tc.conn, timer |-> timer, uri |-> tc.uri, retries |-> retries, ver |-> ver]
            /\ timer \in {"off", "ondone", "backoff", "timeout", "far"}
            /\ retries \in 0 .. 255 /\ ver \in 0 .. MaxVersion
        BY <1>2, EngineFields DEF GoodTC, TcType
      <4>2. tc' = made
        BY <2>1, <4>1
      <4> HIDE DEF timer, retries, ver
      <4>3. made \in Engine(TcStates)
        <5> DEFINE C == {"free", "open", "up", "closing", "shut"}
                   D == {"off", "ondone", "backoff", "timeout", "far"}
        <5>1. "closing" \in C /\ timer \in D
          BY <4>1
        <5> HIDE DEF C, D
        <5>2. made \in [st : TcStates, conn : C, timer : D, uri : BOOLEAN, retries : 0 .. 255, ver : 0 .. MaxVersion]
          BY <3>1, <3>2, <4>1, <5>1
        <5> QED
          BY <5>2 DEF Engine, C, D
      <4> QED
        BY <4>2, <4>3 DEF retries, ver
    <3> QED
      BY <1>2, <3>3 DEF GoodTC, TcType, Alive
  <2> QED BY <1>1, <1>3, <1>5, <2>2, TcStep DEF InfosAnswer, SessionUndisturbed
<1>6. CASE MuxsConnected
  <2>1. GoodTC(tc') /\ tc'.ver = tc.ver
    BY <1>2, <1>6 DEF MuxsConnected, GoodTC, TcType, Engine, Alive, TcStates
  <2>2. sync' \in {"off", "resync", "oksync"} /\ (sync # "off" => sync' # "off")
    BY <1>3, <1>6 DEF MuxsConnected, DelayedSync
  <2>3. SessionUndisturbed'
    BY <1>3, <1>6 DEF MuxsConnected, DelayedSync, statusCUPS, SessionUndisturbed
  <2> QED BY <1>1, <1>6, <2>1, <2>2, <2>3, TcStep DEF MuxsConnected
<1>7. CASE MuxsBadMessage
  <2>1. GoodTC(tc') /\ tc'.ver = tc.ver
    BY <1>2, <1>7 DEF MuxsBadMessage, GoodTC, TcType, Engine, Alive, TcStates, TcFailed
  <2> QED BY <1>1, <1>3, <1>7, <2>1, TcStep DEF MuxsBadMessage, SessionUndisturbed
<1>8. CASE TcPeerCloses
  <2>1. GoodTC(tc') /\ tc'.ver = tc.ver
    BY <1>2, <1>8 DEF TcPeerCloses, GoodTC, TcType, Engine, Alive
  <2> QED BY <1>1, <1>3, <1>8, <2>1, TcStep DEF TcPeerCloses, SessionUndisturbed
<1> QED BY <1>4, <1>5, <1>6, <1>7, <1>8 DEF TcServer

(* The end of a TC connection keeps Inv, and so does a time-out. *)
LEMMA TcEndsInv ==
  ASSUME Inv, TcShutdown \/ TcClosed \/ TcTimeout
  PROVE  Inv'
<1>1. tc # NoTC
  <2>1. NoTC.timer = "off" /\ NoTC.conn = "free"
    BY DEF NoTC
  <2>2. tc.timer # "off" \/ tc.conn # "free"
    BY DEF TcShutdown, TcClosed, TcTimeout
  <2> QED BY <2>1, <2>2
<1>2. GoodTC(tc)
  BY <1>1, TcThere
<1>3. sync \in {"off", "resync", "oksync"} /\ SessionUndisturbed
  BY DEF Inv, TypeOK
<1>4. UNCHANGED <<cups, cstate, credset, failCnt, sync, config, options, missed>>
  BY DEF TcShutdown, TcClosed, TcTimeout
<1>5. ASSUME NEW st \in TcStates, tc' = TcDone(tc, st)
      PROVE  GoodTC(tc') /\ tc'.ver = tc.ver
  <2>1. tc \in Engine(TcStates \cup {"INI"}) /\ ("noCUPS" \notin options => tc.retries <= RetryLimit)
    BY <1>2 DEF GoodTC, TcType, Engine
  <2> QED BY <1>5, <2>1, TcDoneGood
<1>6. tc.st \in TcStates
  BY <1>2 DEF GoodTC, TcType, Engine
<1>7. GoodTC(tc') /\ tc'.ver = tc.ver
  <2>1. CASE TcShutdown
    BY <1>2, <2>1 DEF TcShutdown, GoodTC, TcType, Engine, Alive
  <2>2. CASE TcTimeout
    BY <1>5, <2>2 DEF TcTimeout, TcStates, TcFailed
  <2>3. CASE TcClosed /\ tc.st = "INFOS_GOT_URI"
    <3>1. tc' \in TcToMuxs(tc)
      BY <2>3 DEF TcClosed
    <3> QED BY <1>2, <3>1, TcToMuxsGood DEF GoodTC
  <2>4. CASE TcClosed /\ tc.st # "INFOS_GOT_URI"
    <3>1. \E st \in {"FAILED", "CLOSED", tc.st} : tc' = TcDone(tc, st)
      BY <2>4 DEF TcClosed
    <3>2. {"FAILED", "CLOSED", tc.st} \subseteq TcStates
      BY <1>6 DEF TcStates, TcFailed
    <3> QED BY <1>5, <3>1, <3>2
  <2> QED BY <2>1, <2>2, <2>3, <2>4
<1> QED BY <1>1, <1>3, <1>4, <1>7, TcStep DEF SessionUndisturbed
-----------------------------------------------------------------------------
LEMMA CupsDoneGood ==
  ASSUME NEW c \in CupsType, NEW st \in CupsStates, NEW conf
  PROVE  CupsDone(c, st) \in CupsType /\ Session(CupsDone(c, st), conf)
         /\ CupsDone(c, st).flags = c.flags /\ CupsDone(c, st).st = st
BY DEF CupsType, CupsDone, Session

(* A chunk of a response keeps the session in shape, and the update it     *)
(* puts in force has been announced.                                       *)
LEMMA ReceivedGood ==
  ASSUME Inv, cups # NoCups, NEW st \in Feeding \cup {"DONE"}, NEW new \in Offered,
         Received(cups, st, new)
  PROVE  /\ cups' \in CupsType /\ cups.flags \subseteq cups'.flags
         /\ config' \in [Cats -> 0 .. MaxVersion]
         /\ Session(cups', config')
         /\ config'["TC"] = config["TC"] \/ "TC" \in cups'.flags
<1>1. cups \in CupsType /\ Session(cups, config)
  BY CupsThere
<1>2. config \in [Cats -> 0 .. MaxVersion]
  BY DEF Inv, TypeOK
<1>3. new \in SUBSET Cats /\ \A c \in new : config[c] < MaxVersion
  BY DEF Offered
<1> DEFINE staged == cups.staged \cup new
<1>4. staged \in SUBSET Cats /\ staged \subseteq cups.flags \cup new
      /\ \A c \in staged : config[c] < MaxVersion
  BY <1>1, <1>3 DEF CupsType, Session
<1>5. /\ cups' \in CupsType /\ cups'.flags = cups.flags \cup new /\ cups'.timer = "timeout"
      /\ cups'.staged = IF st = "FEED_CRED" THEN staged ELSE {}
  BY <1>1, <1>3, <1>4 DEF Received, CupsType, CupsStates, Feeding
<1>6. CASE st = "FEED_CRED"
  <2>1. config' = config
    BY <1>6 DEF Received
  <2> QED BY <1>2, <1>4, <1>5, <1>6, <2>1 DEF Session
<1>7. CASE st # "FEED_CRED"
  <2>1. config' = Committed(staged)
    BY <1>7 DEF Received
  <2>2. config' = [c \in Cats |-> IF c \in staged THEN config[c] + 1 ELSE config[c]]
    BY <2>1 DEF Committed
  <2>3. config' \in [Cats -> 0 .. MaxVersion]
    BY <1>2, <1>4, <2>2, EnginesAssumption
  <2>4. config'["TC"] = config["TC"] \/ "TC" \in staged
    BY <2>2 DEF Cats
  <2> QED BY <1>4, <1>5, <1>7, <2>3, <2>4 DEF Session
<1> QED BY <1>6, <1>7

(* The steps of a CUPS session keep Inv. *)
LEMMA CupsSessionInv ==
  ASSUME Inv, CupsServer \/ CupsStart \/ CupsClosed \/ CupsTimeout
  PROVE  Inv'
<1>1. cups # NoCups
  <2>1. NoCups.st = "none" /\ NoCups.conn = "free" /\ NoCups.timer = "off"
    BY DEF NoCups
  <2>2. cups.st # "none" \/ cups.conn # "free" \/ cups.timer # "off"
    BY DEF CupsServer, CupsRejected, CupsAccepted, CupsChunk, CupsShutdown, CupsStart, CupsClosed, CupsTimeout
  <2> QED BY <2>1, <2>2
<1>2. cups \in CupsType /\ Session(cups, config) /\ cups.st \in CupsStates
  BY <1>1, CupsThere DEF CupsType
<1>3. config \in [Cats -> 0 .. MaxVersion]
  BY DEF Inv, TypeOK
<1>4. {"FAILED", "TIMEOUT", "CLOSED", "NOURI"} \subseteq CupsFailed /\ CupsFailed \subseteq CupsStates
      /\ (Feeding \cup {"INI", "HTTP_REQ_PEND", "DONE"}) \cap CupsFailed = {}
  BY DEF CupsStates, CupsFailed, TcFailed, Feeding
(* a session that ends *)
<1>5. ASSUME NEW st \in CupsStates, cups' = CupsDone(cups, st),
             cups.st \in CupsFailed => st \in CupsFailed
      PROVE  /\ cups' \in CupsType /\ cups.flags \subseteq cups'.flags
             /\ Session(cups', config)
             /\ (cups.st \in CupsFailed => cups'.st \in CupsFailed)
  BY <1>2, <1>5, CupsDoneGood
(* steps that leave the disk alone *)
<1>6. ASSUME cups' \in CupsType, cups.flags \subseteq cups'.flags, Session(cups', config),
             cups.st \in CupsFailed => cups'.st \in CupsFailed,
             UNCHANGED <<tc, cstate, credset, failCnt, sync, config, options, missed>>
      PROVE  Inv'
  BY <1>1, <1>3, <1>6, CupsStep DEF Session
(* an answer *)
<1>7. ASSUME cups.st \in Feeding \cup {"HTTP_REQ_PEND"},
             NEW st \in Feeding \cup {"DONE"}, NEW new \in Offered, Received(cups, st, new),
             UNCHANGED <<tc, cstate, credset, failCnt, sync, options, missed>>
      PROVE  Inv'
  <2>1. cups.st \notin CupsFailed
    BY <1>4, <1>7
  <2>2. /\ cups' \in CupsType /\ cups.flags \subseteq cups'.flags
        /\ config' \in [Cats -> 0 .. MaxVersion] /\ Session(cups', config')
        /\ config'["TC"] = config["TC"] \/ "TC" \in cups'.flags
    BY <1>1, <1>7, ReceivedGood
  <2> QED BY <1>1, <1>7, <2>1, <2>2, CupsStep
<1>8. CASE CupsStart
  <2>1. cups.st = "INI"
    BY <1>2, <1>8 DEF CupsStart, Session
  <2>2. CASE cups' = CupsDone(cups, "NOURI") \/ cups' = CupsDone(cups, "FAILED")
    BY <1>4, <1>5, <1>6, <1>8, <2>2 DEF CupsStart
  <2>3. CASE cups' = [cups EXCEPT !.st = "HTTP_REQ_PEND", !.conn = "open", !.timer = "timeout"]
    <3>1. cups' \in CupsType /\ cups'.flags = cups.flags /\ Session(cups', config)
      BY <1>2, <2>3 DEF CupsType, CupsStates, Session
    <3> QED BY <1>4, <1>6, <1>8, <2>1, <3>1 DEF CupsStart
  <2> QED BY <1>8, <2>2, <2>3 DEF CupsStart
<1>9. CASE CupsRejected
  <2>1. cups' \in CupsType /\ cups'.flags = cups.flags /\ Session(cups', config)
    BY <1>2, <1>9 DEF CupsRejected, CupsType, CupsStates, CupsFailed, TcFailed, Session
  <2>2. cups.st \notin CupsFailed
    BY <1>4, <1>9 DEF CupsRejected
  <2> QED BY <1>6, <1>9, <2>1, <2>2 DEF CupsRejected
<1>10. CASE CupsAccepted
  <2>1. CASE cups' = CupsDone(cups, "FAILED") /\ UNCHANGED config
    <3>1. cups' \in CupsType /\ cups.flags \subseteq cups'.flags /\ Session(cups', config')
          /\ (cups.st \in CupsFailed => cups'.st \in CupsFailed)
      BY <1>4, <1>5, <2>1
    <3> QED BY <1>1, <1>3, <1>10, <2>1, <3>1, CupsStep DEF CupsAccepted
  <2>2. CASE \E st \in Feeding \cup {"DONE"}, new \in Offered : Received(cups, st, new)
    BY <1>7, <1>10, <2>2 DEF CupsAccepted
  <2> QED BY <1>10, <2>1, <2>2 DEF CupsAccepted
<1>11. CASE CupsChunk
  <2>1. CASE cups' = CupsDone(cups, "FAILED") /\ UNCHANGED config
    BY <1>4, <1>5, <1>6, <1>11, <2>1 DEF CupsChunk
  <2>2. CASE \E st \in Feeding \cup {"DONE"}, new \in Offered : Received(cups, st, new)
    BY <1>7, <1>11, <2>2 DEF CupsChunk
  <2> QED BY <1>11, <2>1, <2>2 DEF CupsChunk
<1>12. CASE CupsShutdown
  <2>1. cups' \in CupsType /\ cups'.flags = cups.flags /\ Session(cups', config) /\ cups'.st = cups.st
    BY <1>2, <1>12 DEF CupsShutdown, CupsType, Session
  <2> QED BY <1>6, <1>12, <2>1 DEF CupsShutdown
<1>13. CASE CupsClosed
  <2> DEFINE st == IF cups.st \in Feeding \cup {"HTTP_REQ_PEND"} THEN "CLOSED" ELSE cups.st
  <2>1. st \in CupsStates /\ (cups.st \in CupsFailed => st \in CupsFailed)
    BY <1>2, <1>4
  <2>2. cups' = CupsDone(cups, st)
    BY <1>13 DEF CupsClosed
  <2> HIDE DEF st
  <2> QED BY <1>5, <1>6, <1>13, <2>1, <2>2 DEF CupsClosed
<1>14. CASE CupsTimeout
  BY <1>4, <1>5, <1>6, <1>14 DEF CupsTimeout
<1> QED BY <1>8, <1>9, <1>10, <1>11, <1>12, <1>13, <1>14 DEF CupsServer
-----------------------------------------------------------------------------
(* sys_triggerCUPS starts a session unless there is one, or none is wanted. *)
LEMMA TriggerGood ==
  ASSUME NEW c, NEW s
  PROVE  /\ c # NoCups \/ "noCUPS" \in options => TriggerCUPS(c, s)[1] = c /\ TriggerCUPS(c, s)[2] = s
         /\ c = NoCups /\ "noCUPS" \notin options =>
              /\ TriggerCUPS(c, s)[1] \in CupsType /\ Session(TriggerCUPS(c, s)[1], config)
              /\ TriggerCUPS(c, s)[2] = "off"
<1> DEFINE new == [NoCups EXCEPT !.st = "INI", !.timer = "delay"]
<1>1. new \in CupsType /\ Session(new, config)
  BY DEF NoCups, CupsType, CupsStates, Session
<1> QED BY <1>1 DEF TriggerCUPS

(* The end of a session keeps Inv: TC is started again, with the           *)
(* configuration in force if that has changed.                             *)
LEMMA CupsOndoneInv ==
  ASSUME Inv, cups # NoCups, CupsOndone
  PROVE  Inv'
<1>1. cups \in CupsType /\ cups.st \in CupsStates
  BY CupsThere DEF CupsType
<1>2. cups' = NoCups /\ cstate' = cups.st /\ UNCHANGED <<config, options>>
  BY DEF CupsOndone
<1>3. sync' \in {"resync", "oksync"}
  BY DEF CupsOndone
<1>4. tc' \in StartTC(TcAfterSession) /\ missed' = Missed
  BY DEF CupsOndone
<1>5. credset' \in REG .. BOOT
  <2>1. credset \in 0 .. 2 /\ (credset + 1) % 3 \in 0 .. 2
    BY DEF Inv, TypeOK, REG, BOOT
  <2> QED BY <2>1 DEF CupsOndone, Rotated, REG, BOOT
<1>6. failCnt' \in 0 .. FAIL_CNT_THRES + 1
  BY EnginesAssumption DEF CupsOndone, Inv, TypeOK
<1>7. config \in [Cats -> 0 .. MaxVersion]
  BY DEF Inv, TypeOK
<1>8. TcAfterSession \in {tc, NoTC}
  BY DEF TcAfterSession
<1>9. /\ tc' \in {NoTC} \cup TcType
      /\ "noCUPS" \notin options => tc'.retries <= RetryLimit
      /\ tc' = NoTC => "noTC" \in options
      /\ tc' # NoTC => Alive(tc')
      /\ tc' # NoTC /\ ~missed' => tc'.ver = config["TC"]
  <2>1. CASE TcAfterSession # NoTC
    <3>1. tc' = tc /\ tc # NoTC /\ TcAfterSession = tc
      BY <1>4, <1>8, <2>1 DEF StartTC
    <3>2. GoodTC(tc)
      BY <3>1, TcThere
    <3>3. ~missed' => tc.ver = config["TC"]
      <4> SUFFICES ASSUME ~missed' PROVE tc.ver = config["TC"]
        OBVIOUS
      <4>1. ~missed /\ (cups.st = "DONE" \/ tc.ver = config["TC"])
        BY <1>4, <2>1 DEF Missed
      <4>2. ~(cups.st = "DONE" /\ "TC" \in cups.flags)
        BY <2>1 DEF TcAfterSession
      <4> QED BY <3>1, <4>1, <4>2 DEF Inv, TcKnown
    <3> QED BY <3>1, <3>2, <3>3 DEF GoodTC
  <2>2. CASE TcAfterSession = NoTC /\ "noTC" \in options
    <3>1. tc' = NoTC
      BY <1>4, <2>2 DEF StartTC
    <3>2. NoTC.retries <= RetryLimit
      BY EnginesAssumption DEF NoTC
    <3> QED BY <2>2, <3>1, <3>2
  <2>3. CASE TcAfterSession = NoTC /\ "noTC" \notin options
    <3>1. tc' \in TcStarted(0)
      BY <1>4, <2>3 DEF StartTC
    <3>2. 0 % 256 \in 0 .. 255 /\ 0 % 256 <= RetryLimit
      BY EnginesAssumption
    <3>3. GoodTC(tc') /\ tc'.ver = config["TC"]
      BY <1>7, <3>1, <3>2, TcStartedGood
    <3> QED BY <3>3, NoneLeft DEF GoodTC
  <2> QED BY <2>1, <2>2, <2>3
<1>10. TypeOK'
  <2>1. missed' \in BOOLEAN
    BY <1>4 DEF Missed, Inv, TypeOK
  <2> QED BY <1>1, <1>2, <1>3, <1>5, <1>6, <1>9, <2>1 DEF Inv, TypeOK, TcType
<1>11. SomethingPends'
  BY <1>2, <1>3, <1>9 DEF SomethingPends, Alive
<1>12. SessionUndisturbed' /\ SessionShape'
  BY <1>2 DEF SessionUndisturbed, SessionShape
<1>13. TcKnown'
  BY <1>2, <1>9 DEF TcKnown
<1> QED BY <1>10, <1>11, <1>12, <1>13 DEF Inv

LEMMA SyncTimerInv ==
  ASSUME Inv, SyncTimer
  PROVE  Inv'
<1>1. CASE cups # NoCups
  BY <1>1, CupsOndoneInv DEF SyncTimer
<1>2. CASE cups = NoCups /\ "noCUPS" \in options
  <2>1. cups' = cups /\ sync' = "off" /\ UNCHANGED <<tc, cstate, credset, failCnt, config, options, missed>>
    BY <1>2, TriggerGood DEF SyncTimer
  <2>2. TypeOK'
    BY <2>1 DEF Inv, TypeOK
  <2>3. SomethingPends'
    BY <1>2, <2>1 DEF Inv, SomethingPends
  <2> QED BY <2>1, <2>2, <2>3
        DEF Inv, SessionUndisturbed, SessionShape, Session, TcKnown
<1>3. CASE cups = NoCups /\ "noCUPS" \notin options
  <2>1. cups' \in CupsType /\ Session(cups', config) /\ sync' = "off"
    BY <1>3, TriggerGood DEF SyncTimer
  <2>2. UNCHANGED <<tc, cstate, credset, failCnt, config, options, missed>>
    BY <1>3 DEF SyncTimer
  <2>3. TypeOK'
    BY <2>1, <2>2 DEF Inv, TypeOK, CupsType
  <2>4. SomethingPends'
    BY <2>1, <2>2, NoneLeft DEF Inv, SomethingPends
  <2>5. TcKnown'
    BY <1>3, <2>2 DEF Inv, TcKnown
  <2> QED BY <2>1, <2>2, <2>3, <2>4, <2>5
        DEF Inv, SessionUndisturbed, SessionShape, Session
<1> QED BY <1>1, <1>2, <1>3
-----------------------------------------------------------------------------
(* tc_continue gives way to CUPS, which is there then. *)
LEMMA TcGivesUpInv ==
  ASSUME Inv, TcGivesUp
  PROVE  Inv'
<1>1. tc' = NoTC /\ missed' = FALSE /\ "noCUPS" \notin options
      /\ UNCHANGED <<cstate, credset, failCnt, config, options>>
  BY DEF TcGivesUp, GiveUp
<1>2. cups' \in CupsType /\ Session(cups', config)
  BY <1>1, TriggerGood, CupsThere DEF TcGivesUp
<1>3. sync' = "off" \/ (cups' = cups /\ sync' = sync)
  BY <1>1, TriggerGood DEF TcGivesUp
<1>4. NoTC.retries <= RetryLimit
  BY EnginesAssumption DEF NoTC
<1>5. TypeOK'
  BY <1>1, <1>2, <1>3, <1>4 DEF Inv, TypeOK, CupsType
<1>6. SomethingPends'
  BY <1>1, <1>2, NoneLeft DEF SomethingPends
<1>7. SessionUndisturbed'
  BY <1>3 DEF Inv, SessionUndisturbed
<1>8. SessionShape' /\ TcKnown'
  BY <1>1, <1>2 DEF Inv, SessionShape, Session, TcKnown
<1> QED BY <1>5, <1>6, <1>7, <1>8 DEF Inv

(* tc_continue starts an engine anew, with the configuration in force. *)
LEMMA TcRestartsInv ==
  ASSUME Inv, TcRestarts
  PROVE  Inv'
<1>1. tc # NoTC
  BY DEF TcRestarts, TcDue, NoTC
<1>2. GoodTC(tc) /\ tc.retries \in 0 .. 255
  BY <1>1, TcThere DEF GoodTC, TcType, Engine
<1>3. config \in [Cats -> 0 .. MaxVersion]
  BY DEF Inv, TypeOK
<1>4. "noCUPS" \notin options => (tc.retries + 1) % 256 <= RetryLimit
  BY <1>2, RetryByte, EnginesAssumption, SMTT(30) DEF TcRestarts, GiveUp
<1>5. GoodTC(tc') /\ tc'.ver = config["TC"]
  <2>1. tc.retries + 1 \in Nat /\ (tc.retries + 1) % 256 \in 0 .. 255
    BY <1>2, RetryByte
  <2>2. tc' \in TcStarted(tc.retries + 1)
    BY DEF TcRestarts
  <2> QED BY <1>3, <1>4, <2>1, <2>2, TcStartedGood
<1>6. missed' = FALSE /\ UNCHANGED <<cups, cstate, credset, failCnt, sync, config, options>>
  BY DEF TcRestarts
<1>7. TypeOK'
  BY <1>5, <1>6 DEF Inv, TypeOK, GoodTC, TcType
<1>8. SomethingPends'
  BY <1>5, <1>6, NoneLeft DEF Inv, SomethingPends, GoodTC, Alive
<1>9. TcKnown'
  BY <1>5, <1>6 DEF TcKnown
<1> QED BY <1>6, <1>7, <1>8, <1>9
      DEF Inv, SessionUndisturbed, SessionShape, Session

(* tc_continue reconnects, or sets the timer of a back-off. *)
LEMMA TcGoesOnInv ==
  ASSUME Inv, TcReconnects \/ TcBacksOff
  PROVE  Inv'
<1>1. tc # NoTC
  BY DEF TcReconnects, TcBacksOff, TcDue, NoTC
<1>2. GoodTC(tc) /\ tc.retries \in 0 .. 255
  BY <1>1, TcThere DEF GoodTC, TcType, Engine
<1>3. sync \in {"off", "resync", "oksync"} /\ SessionUndisturbed
  BY DEF Inv, TypeOK
<1>4. CASE TcReconnects
  <2> DEFINE t == [tc EXCEPT !.retries = (@ + 1) % 256]
  <2>1. (tc.retries + 1) % 256 \in 0 .. 255
    BY <1>2, RetryByte
  <2>2. "noCUPS" \notin options => (tc.retries + 1) % 256 <= RetryLimit
    BY <1>2, <1>4, RetryByte, EnginesAssumption DEF TcReconnects, GiveUp
  <2>3. t \in TcType /\ t.retries = (tc.retries + 1) % 256 /\ t.ver = tc.ver
    BY <1>2, <2>1 DEF GoodTC, TcType, Engine
  <2>4. tc' \in TcToMuxs(t)
    BY <1>4 DEF TcReconnects
  <2> HIDE DEF t
  <2>5. GoodTC(tc') /\ tc'.ver = tc.ver
    BY <2>2, <2>3, <2>4, TcToMuxsGood
  <2> QED BY <1>1, <1>3, <1>4, <2>5, TcStep DEF TcReconnects, SessionUndisturbed
<1>5. CASE TcBacksOff
  <2>1. RetryLimit >= 1
    BY EnginesAssumption
  <2>2. CASE tc' = [tc EXCEPT !.st = "MUXS_BACKOFF", !.timer = "backoff"]
    <3>1. GoodTC(tc') /\ tc'.ver = tc.ver
      <4> DEFINE C == {"free", "open", "up", "closing", "shut"}
                 D == {"off", "ondone", "backoff", "timeout", "far"}
      <4>1. tc \in [st : TcStates, conn : C, timer : D, uri : BOOLEAN, retries : 0 .. 255, ver : 0 .. MaxVersion]
        BY <1>2 DEF GoodTC, TcType, Engine
      <4>2. "MUXS_BACKOFF" \in TcStates /\ "backoff" \in D
        BY DEF TcStates
      <4> HIDE DEF C, D
      <4>3. tc' \in [st : TcStates, conn : C, timer : D, uri : BOOLEAN, retries : 0 .. 255, ver : 0 .. MaxVersion]
        BY <2>2, <4>1, <4>2
      <4>4. tc'.timer = "backoff" /\ tc'.retries = tc.retries /\ tc'.ver = tc.ver
        BY <2>2, <4>1
      <4>5. tc' \in TcType
        BY <4>3 DEF TcType, Engine, C, D
      <4> QED
        BY <1>2, <4>4, <4>5 DEF GoodTC, Alive
    <3> QED BY <1>1, <1>3, <1>5, <3>1, TcStep DEF TcBacksOff, SessionUndisturbed
  <2>3. CASE \E n \in {1, tc.retries} :
               tc' = [tc EXCEPT !.st = "INFOS_BACKOFF", !.timer = "backoff", !.uri = FALSE, !.retries = n]
    <3>1. PICK n \in {1, tc.retries} :
            tc' = [tc EXCEPT !.st = "INFOS_BACKOFF", !.timer = "backoff", !.uri = FALSE, !.retries = n]
      BY <2>3
    <3>2. n \in 0 .. 255 /\ ("noCUPS" \notin options => n <= RetryLimit)
      BY <1>2, <2>1 DEF GoodTC
    <3>3. GoodTC(tc') /\ tc'.ver = tc.ver
      BY <1>2, <3>1, <3>2 DEF GoodTC, TcType, Engine, Alive, TcStates
    <3> QED BY <1>1, <1>3, <1>5, <3>3, TcStep DEF TcBacksOff, SessionUndisturbed
  <2> QED BY <1>5, <2>2, <2>3 DEF TcBacksOff
<1> QED BY <1>4, <1>5
-----------------------------------------------------------------------------
(* startupMaster2 establishes Inv. *)
LEMMA InitInv == Init => Inv
<1> SUFFICES ASSUME Init PROVE Inv
  OBVIOUS
<1>1. config = [c \in Cats |-> 0] /\ config \in [Cats -> 0 .. MaxVersion] /\ config["TC"] = 0
  BY EnginesAssumption DEF Init, Cats
<1>2. options \in Options /\ sync = "off" /\ cstate = "INI" /\ credset = REG /\ failCnt = 0
      /\ missed = FALSE
  BY DEF Init
<1>3. NoTC.retries <= RetryLimit
  BY EnginesAssumption DEF NoTC
<1>4. \/ tc = NoTC /\ "noTC" \in options
      \/ GoodTC(tc) /\ tc.ver = config["TC"]
  <2>1. CASE "noTC" \in options
    BY <2>1 DEF Init, StartTC
  <2>2. CASE "noTC" \notin options
    <3>1. tc \in TcStarted(0)
      BY <2>2 DEF Init, StartTC
    <3>2. 0 % 256 \in 0 .. 255 /\ 0 % 256 <= RetryLimit
      BY EnginesAssumption
    <3> QED BY <1>1, <3>1, <3>2, TcStartedGood
  <2> QED BY <2>1, <2>2
<1>5. \/ cups = NoCups /\ "noCUPS" \in options
      \/ cups \in CupsType /\ Session(cups, config)
  BY TriggerGood DEF Init
<1>6. TypeOK
  <2>1. /\ tc \in {NoTC} \cup TcType
        /\ "noCUPS" \notin options => tc.retries <= RetryLimit
    BY <1>3, <1>4 DEF GoodTC
  <2>2. cups = NoCups \/ cups \in CupsType
    BY <1>5
  <2>3. credset \in REG .. BOOT /\ failCnt \in 0 .. FAIL_CNT_THRES + 1
    BY <1>2, EnginesAssumption DEF REG, BOOT
  <2> QED BY <1>1, <1>2, <2>1, <2>2, <2>3 DEF TypeOK, TcType, CupsType, CupsStates
<1>7. SomethingPends
  BY <1>4, <1>5, NoneLeft DEF SomethingPends, GoodTC, Alive
<1>8. SessionUndisturbed /\ SessionShape
  BY <1>2, <1>5 DEF SessionUndisturbed, SessionShape
<1>9. TcKnown
  BY <1>4 DEF TcKnown
<1> QED BY <1>6, <1>7, <1>8, <1>9 DEF Inv

LEMMA StutterInv ==
  ASSUME Inv, UNCHANGED vars
  PROVE  Inv'
BY DEF vars, Inv, TypeOK, SomethingPends, SessionUndisturbed, SessionShape, Session, TcKnown

(* Every step of the engines keeps Inv. *)
LEMMA NextInv == Inv /\ [Next]_vars => Inv'
<1> SUFFICES ASSUME Inv, [Next]_vars PROVE Inv'
  OBVIOUS
<1>1. CASE TcServer
  BY <1>1, TcServerInv
<1>2. CASE TcShutdown \/ TcTimeout \/ TcClosed
  BY <1>2, TcEndsInv
<1>3. CASE CupsServer \/ CupsStart \/ CupsTimeout \/ CupsClosed
  BY <1>3, CupsSessionInv
<1>4. CASE SessionOver
  <2>1. cups # NoCups
    BY <1>4 DEF SessionOver, NoCups
  <2> QED BY <1>4, <2>1, CupsOndoneInv DEF SessionOver
<1>5. CASE SyncTimer
  BY <1>5, SyncTimerInv
<1>6. CASE TcGivesUp
  BY <1>6, TcGivesUpInv
<1>7. CASE TcRestarts
  BY <1>7, TcRestartsInv
<1>8. CASE TcReconnects \/ TcBacksOff
  BY <1>8, TcGoesOnInv
<1>9. CASE UNCHANGED vars
  BY <1>9, StutterInv
<1> QED BY <1>1, <1>2, <1>3, <1>4, <1>5, <1>6, <1>7, <1>8, <1>9 DEF Next, Timers

LEMMA Invariance == Spec => []Inv
BY InitInv, NextInv, PTL DEF Spec

(* The data keep their shapes, and the u1 that counts the retries of the   *)
(* TC engine stays within the limit (tc_continue).                         *)
THEOREM TypeCorrect == Spec => []TypeOK
<1>1. Inv => TypeOK
  BY DEF Inv
<1> QED BY <1>1, Invariance, PTL

(* Neither engine is lost: something is always left that will start it or  *)
(* make it go on (tc_continue, cups_ondone, sys_triggerCUPS).              *)
THEOREM NothingLost == Spec => []SomethingPends
<1>1. Inv => SomethingPends
  BY DEF Inv
<1> QED BY <1>1, Invariance, PTL

(* The sync timer, whose callback ends a session, is not set while one is  *)
(* on its way (sys_delayCUPS, sys_triggerCUPS).                            *)
THEOREM Undisturbed == Spec => []SessionUndisturbed
<1>1. Inv => SessionUndisturbed
  BY DEF Inv
<1> QED BY <1>1, Invariance, PTL

(* Unless a session has failed after its update was put in force, the TC   *)
(* engine works with the configuration in force between sessions           *)
(* (cups_ondone, sys_commitConfigUpdate).                                  *)
THEOREM ConfigCurrent == Spec => []TcCurrent
<1>1. Inv => TcCurrent
  BY DEF Inv, TcKnown, TcCurrent
<1> QED BY <1>1, Invariance, PTL
-----------------------------------------------------------------------------
(* Lists of pieces                                                         *)
(*                                                                         *)
(* Stream is defined by recursion.  What is needed of it, that it is built *)
(* piece by piece and that its beginning does not depend on later frames,  *)
(* follows without an induction rule: of the numbers for which a statement *)
(* fails there is a smallest one.                                          *)

Less == {ss \in Nat \X Nat : ss[1] < ss[2]}

(* A set of numbers has a smallest element. *)
LEMMA Smallest ==
  ASSUME NEW T, T \subseteq Nat, T # {}
  PROVE  \E x \in T : \A y \in T : x <= y
<1>1. IsWellFoundedOn(Less, Nat)
  BY NatLessThanWellFounded, Zenon DEF OpToRel, Less
<1>2. PICK x \in T : \A y \in T : ~(<<y, x>> \in Less)
  BY <1>1, WFMin
<1>3. \A y \in T : ~(y < x)
  BY <1>2 DEF Less
<1> QED
  BY <1>3

(* g is what the pieces e join up to, as far as k. *)
Joins(g, e, k) == g = [n \in 0 .. k |-> IF n = 0 THEN <<>> ELSE g[n - 1] \o e[n]]

LEMMA JoinsAt ==
  ASSUME NEW e, NEW g, NEW k \in Nat, Joins(g, e, k), NEW n \in 0 .. k
  PROVE  g[n] = IF n = 0 THEN <<>> ELSE g[n - 1] \o e[n]
<1> DEFINE h == [i \in 0 .. k |-> IF i = 0 THEN <<>> ELSE g[i - 1] \o e[i]]
<1>1. g = h
  BY DEF Joins
<1>2. h[n] = IF n = 0 THEN <<>> ELSE g[n - 1] \o e[n]
  OBVIOUS
<1> HIDE DEF h
<1> QED
  BY <1>1, <1>2

(* Pieces can be joined as far as one likes. *)
LEMMA JoinsExist ==
  ASSUME NEW e, NEW k \in Nat
  PROVE  \E g : Joins(g, e, k)
<1> DEFINE T == {n \in Nat : ~ \E g : Joins(g, e, n)}
<1> SUFFICES ASSUME T # {} PROVE FALSE
  OBVIOUS
<1>1. PICK n \in T : \A y \in T : n <= y
  BY Smallest
<1>2. CASE n = 0
  <2> DEFINE g == [i \in 0 .. 0 |-> <<>>]
  <2>1. g = [i \in 0 .. 0 |-> IF i = 0 THEN <<>> ELSE g[i - 1] \o e[i]]
    OBVIOUS
  <2> QED
    BY <1>2, <2>1, Zenon DEF Joins
<1>3. CASE n # 0
  <2>1. n \in Nat /\ n - 1 \in Nat /\ n - 1 \notin T
    BY <1>1, <1>3
  <2>2. PICK h : Joins(h, e, n - 1)
    BY <2>1
  <2>3. \A i \in 0 .. n - 1 : h[i] = IF i = 0 THEN <<>> ELSE h[i - 1] \o e[i]
    BY <2>1, <2>2, JoinsAt
  <2> DEFINE g == [i \in 0 .. n |-> IF i = n THEN h[n - 1] \o e[n] ELSE h[i]]
  <2>4. \A i \in 0 .. n - 1 : g[i] = h[i]
    BY <2>1
  <2>5. ASSUME NEW i \in 0 .. n
        PROVE  g[i] = IF i = 0 THEN <<>> ELSE g[i - 1] \o e[i]
    <3>1. CASE i = n
      <4>1. g[n - 1] = h[n - 1] /\ g[n] = h[n - 1] \o e[n]
        BY <2>1, <2>4
      <4> HIDE DEF g
      <4> QED
        BY <1>3, <3>1, <4>1
    <3>2. CASE i # n
      <4>1. i \in 0 .. n - 1 /\ (i # 0 => i - 1 \in 0 .. n - 1)
        BY <2>1, <3>2
      <4> HIDE DEF g
      <4> QED
        BY <2>3, <2>4, <4>1
    <3> QED
      BY <3>1, <3>2
  <2>6. g = [i \in 0 .. n |-> g[i]]
    OBVIOUS
  <2> HIDE DEF g
  <2>7. g = [i \in 0 .. n |-> IF i = 0 THEN <<>> ELSE g[i - 1] \o e[i]]
    BY <2>5, <2>6
  <2> QED
    BY <1>1, <2>7, Zenon DEF Joins
<1> QED
  BY <1>2, <1>3

Joined(g, e, k) == \A i \in 0 .. k : g[i] = IF i = 0 THEN <<>> ELSE g[i - 1] \o e[i]

(* Functions that join equal pieces are equal. *)
LEMMA JoinsAgree ==
  ASSUME NEW N \in Nat, NEW d, NEW e, NEW g, NEW h,
         \A i \in 1 .. N : d[i] = e[i],
         Joined(g, d, N), Joined(h, e, N)
  PROVE  \A i \in 0 .. N : g[i] = h[i]
<1> DEFINE T == {n \in 0 .. N : g[n] # h[n]}
<1> SUFFICES ASSUME T # {} PROVE FALSE
  OBVIOUS
<1>1. PICK n \in T : \A y \in T : n <= y
  <2>1. T \subseteq Nat
    OBVIOUS
  <2> HIDE DEF T
  <2> QED
    BY <2>1, Smallest
<1>2. n # 0
  BY <1>1 DEF Joined
<1>3. n \in 1 .. N /\ n - 1 \in 0 .. N /\ n - 1 \notin T
  BY <1>1, <1>2
<1>4. g[n - 1] = h[n - 1] /\ d[n] = e[n]
  BY <1>3
<1> QED
  BY <1>1, <1>2, <1>3, <1>4 DEF Joined

(* Stream is what its definition says: the recursion has a solution. *)
LEMMA StreamJoins ==
  Stream = [n \in Nat |-> IF n = 0 THEN <<>> ELSE Stream[n - 1] \o Encoded(n)]
<1> DEFINE e == [n \in Nat |-> Encoded(n)]
           G == [k \in Nat |-> CHOOSE g : Joins(g, e, k)]
           S == [n \in Nat |-> G[n][n]]
<1>1. \A k \in Nat : Joins(G[k], e, k)
  BY JoinsExist, Zenon
<1>2. ASSUME NEW n \in Nat
      PROVE  S[n] = IF n = 0 THEN <<>> ELSE S[n - 1] \o Encoded(n)
  <2>1. \A i \in 0 .. n : G[n][i] = IF i = 0 THEN <<>> ELSE G[n][i - 1] \o e[i]
    BY <1>1, JoinsAt
  <2>2. CASE n = 0
    BY <2>1, <2>2
  <2>3. CASE n # 0
    <3>1. n - 1 \in Nat /\ n \in 0 .. n /\ n - 1 \in 0 .. n - 1 /\ n - 1 \in 0 .. n
      BY <2>3
    <3>2. \A i \in 0 .. n - 1 : G[n - 1][i] = IF i = 0 THEN <<>> ELSE G[n - 1][i - 1] \o e[i]
      BY <1>1, <3>1, JoinsAt
    <3>3. \A i \in 0 .. n - 1 : i \in 0 .. n
      BY <3>1
    <3> HIDE DEF G, e
    <3> DEFINE g == G[n]
               h == G[n - 1]
    <3>4. G[n][n - 1] = G[n - 1][n - 1]
      <4>1. \A i \in 0 .. n - 1 : g[i] = IF i = 0 THEN <<>> ELSE g[i - 1] \o e[i]
        BY <2>1, <3>3
      <4>2. \A i \in 0 .. n - 1 : h[i] = IF i = 0 THEN <<>> ELSE h[i - 1] \o e[i]
        BY <3>2
      <4> HIDE DEF g, h, e
      <4> DEFINE m == n - 1
      <4>4. \A i \in 0 .. m : g[i] = h[i]
        <5>1. m \in Nat /\ Joined(g, e, m) /\ Joined(h, e, m) /\ \A i \in 1 .. m : e[i] = e[i]
          BY <3>1, <4>1, <4>2 DEF Joined
        <5> HIDE DEF m
        <5> QED
          BY <5>1, JoinsAgree
      <4> QED
        BY <3>1, <4>4 DEF g, h
    <3>5. S[n] = G[n][n] /\ S[n - 1] = G[n - 1][n - 1] /\ G[n][n] = G[n][n - 1] \o e[n]
      BY <2>1, <2>3, <3>1
    <3> QED
      BY <2>3, <3>4, <3>5 DEF e
  <2> QED
    BY <2>2, <2>3
<1>3. S = [n \in Nat |-> S[n]]
  OBVIOUS
<1> HIDE DEF S
<1>4. S = [n \in Nat |-> IF n = 0 THEN <<>> ELSE S[n - 1] \o Encoded(n)]
  BY <1>2, <1>3
<1> QED
  BY <1>4, Zenon DEF Stream
-----------------------------------------------------------------------------
(* Bytes in the send buffer *)

Addr == 0 .. wbufsize - 1
Bytes == [id : Nat, part : {"junk", "intra", "data", "hdr", "close"}, k : Nat, masked : BOOLEAN]
Buffer == [buf : [Addr -> Bytes], wpos : Nat, wend : Nat, wfill : Nat]

(* The bytes of b from lo on, before hi *)
Part(b, lo, hi) == [k \in 1 .. hi - lo |-> b[lo + k - 1]]

LEMMA Sizes ==
  /\ wbufsize \in Nat /\ wbufsize >= 8 /\ WSHDR_LEN2 \in Nat /\ MaxFrames \in Nat
  /\ Lengths \subseteq Nat /\ PingLengths \subseteq Nat /\ WSHDR_RESV_W = 8 /\ WSHDR_INTRA = 3
BY WsConnAssumption DEF WSHDR_RESV_W, WSHDR_INTRA

LEMMA ByteTypes ==
  /\ \A id \in Nat, k \in Nat : /\ Byte(id, "intra", k) \in Bytes /\ Byte(id, "data", k) \in Bytes
                                /\ Byte(id, "hdr", k) \in Bytes /\ Byte(id, "close", k) \in Bytes
  /\ Junk \in Bytes
  /\ \A b \in Bytes : Mask(b) \in Bytes
BY DEF Byte, Junk, Mask, Bytes

LEMMA TwoParts ==
  ASSUME NEW x \in Seq(Bytes), NEW y \in Seq(Bytes)
  PROVE  /\ x \o y \in Seq(Bytes) /\ Len(x \o y) = Len(x) + Len(y)
         /\ \A k \in 1 .. Len(x) : (x \o y)[k] = x[k]
         /\ \A k \in 1 .. Len(y) : (x \o y)[Len(x) + k] = y[k]
<1>1. x \o y \in Seq(Bytes) /\ Len(x \o y) = Len(x) + Len(y) /\ Len(x) \in Nat /\ Len(y) \in Nat
  OBVIOUS
<1>2. \A k \in 1 .. Len(x) + Len(y) : (x \o y)[k] = IF k <= Len(x) THEN x[k] ELSE y[k - Len(x)]
  BY ConcatProperties
<1>3. \A k \in 1 .. Len(x) : (x \o y)[k] = x[k]
  <2> TAKE k \in 1 .. Len(x)
  <2>1. k \in 1 .. Len(x) + Len(y) /\ k <= Len(x)
    BY <1>1
  <2> QED
    BY <1>2, <2>1
<1>4. \A k \in 1 .. Len(y) : (x \o y)[Len(x) + k] = y[k]
  <2> TAKE k \in 1 .. Len(y)
  <2> DEFINE j == Len(x) + k
  <2>1. j \in 1 .. Len(x) + Len(y) /\ ~(j <= Len(x)) /\ j - Len(x) = k
    BY <1>1
  <2> HIDE DEF j
  <2>2. (x \o y)[j] = y[k]
    BY <1>2, <2>1
  <2> QED
    BY <2>2 DEF j
<1> QED
  BY <1>1, <1>3, <1>4

LEMMA PartShape ==
  ASSUME NEW b \in [Addr -> Bytes], NEW lo \in Nat, NEW hi \in Nat, lo <= hi, hi <= wbufsize
  PROVE  /\ Part(b, lo, hi) \in Seq(Bytes) /\ Len(Part(b, lo, hi)) = hi - lo
         /\ \A k \in 1 .. hi - lo : Part(b, lo, hi)[k] = b[lo + k - 1]
<1>1. hi - lo \in Nat /\ \A k \in 1 .. hi - lo : lo + k - 1 \in Addr
  BY Sizes DEF Addr
<1>2. Part(b, lo, hi) \in [1 .. hi - lo -> Bytes]
  BY <1>1 DEF Part
<1> QED
  BY <1>1, <1>2 DEF Part

(* A part falls into two. *)
LEMMA PartSplit ==
  ASSUME NEW b \in [Addr -> Bytes], NEW lo \in Nat, NEW m \in Nat, NEW hi \in Nat,
         lo <= m, m <= hi, hi <= wbufsize
  PROVE  Part(b, lo, m) \o Part(b, m, hi) = Part(b, lo, hi)
<1> DEFINE x == Part(b, lo, m)
           y == Part(b, m, hi)
           z == Part(b, lo, hi)
<1>1. /\ x \in Seq(Bytes) /\ Len(x) = m - lo /\ \A k \in 1 .. m - lo : x[k] = b[lo + k - 1]
      /\ y \in Seq(Bytes) /\ Len(y) = hi - m /\ \A k \in 1 .. hi - m : y[k] = b[m + k - 1]
      /\ z \in Seq(Bytes) /\ Len(z) = hi - lo /\ \A k \in 1 .. hi - lo : z[k] = b[lo + k - 1]
  <2>1. m <= wbufsize /\ lo <= hi
    BY Sizes
  <2>2. /\ x \in Seq(Bytes) /\ Len(x) = m - lo /\ \A k \in 1 .. m - lo : x[k] = b[lo + k - 1]
    BY <2>1, PartShape
  <2>3. /\ y \in Seq(Bytes) /\ Len(y) = hi - m /\ \A k \in 1 .. hi - m : y[k] = b[m + k - 1]
    BY PartShape
  <2>4. /\ z \in Seq(Bytes) /\ Len(z) = hi - lo /\ \A k \in 1 .. hi - lo : z[k] = b[lo + k - 1]
    BY <2>1, PartShape
  <2> HIDE DEF x, y, z
  <2> QED
    BY <2>2, <2>3, <2>4
<1> HIDE DEF x, y, z
<1>2. x \o y \in Seq(Bytes) /\ Len(x \o y) = hi - lo
  <2>1. x \o y \in Seq(Bytes) /\ Len(x \o y) = Len(x) + Len(y)
    BY <1>1, TwoParts
  <2> QED
    BY <1>1, <2>1
<1>3. ASSUME NEW k \in 1 .. hi - lo PROVE (x \o y)[k] = z[k]
  <2>1. k \in 1 .. Len(x) + Len(y)
    BY <1>1
  <2>2. (x \o y)[k] = IF k <= Len(x) THEN x[k] ELSE y[k - Len(x)]
    BY <1>1, <2>1, ConcatProperties
  <2>3. CASE k <= m - lo
    <3>1. k \in 1 .. m - lo
      BY <2>3
    <3>2. x[k] = b[lo + k - 1] /\ z[k] = b[lo + k - 1]
      BY <1>1, <3>1
    <3> QED
      BY <1>1, <2>2, <2>3, <3>2
  <2>4. CASE ~(k <= m - lo)
    <3>1. k - (m - lo) \in 1 .. hi - m /\ m + (k - (m - lo)) - 1 = lo + k - 1
      BY <2>4
    <3>2. (x \o y)[k] = y[k - (m - lo)]
      BY <1>1, <2>2, <2>4
    <3>3. y[k - (m - lo)] = b[m + (k - (m - lo)) - 1]
      BY <1>1, <3>1
    <3> QED
      BY <1>1, <3>1, <3>2, <3>3
  <2> QED
    BY <2>3, <2>4
<1>4. x \o y = z
  BY <1>1, <1>2, <1>3, SeqEqual
<1> QED
  BY <1>4 DEF x, y, z

LEMMA SameParts ==
  ASSUME NEW b \in [Addr -> Bytes], NEW d \in [Addr -> Bytes], NEW lo \in Nat, NEW hi \in Nat,
         NEW l \in Nat, NEW h \in Nat, h - l = hi - lo, lo <= hi, hi <= wbufsize, h <= wbufsize,
         \A k \in 1 .. hi - lo : b[lo + k - 1] = d[l + k - 1]
  PROVE  Part(b, lo, hi) = Part(d, l, h)
BY DEF Part

(* Writing into the buffer changes what is written over and nothing else.  *)
LEMMA OverShape ==
  ASSUME NEW b \in [Addr -> Bytes], NEW at \in Nat, NEW s \in Seq(Bytes)
  PROVE  /\ Over(b, at, s) \in [Addr -> Bytes]
         /\ \A p \in Addr : p < at \/ p >= at + Len(s) => Over(b, at, s)[p] = b[p]
         /\ \A k \in 1 .. Len(s) : at + k - 1 < wbufsize => Over(b, at, s)[at + k - 1] = s[k]
<1>1. DOMAIN b = Addr /\ Len(s) \in Nat /\ \A k \in 1 .. Len(s) : s[k] \in Bytes
  OBVIOUS
<1>2. \A p \in at .. at + Len(s) - 1 : p - at + 1 \in 1 .. Len(s)
  BY <1>1
<1>3. Over(b, at, s) = [p \in Addr |-> IF p \in at .. at + Len(s) - 1 THEN s[p - at + 1] ELSE b[p]]
  BY <1>1 DEF Over
<1>4. Over(b, at, s) \in [Addr -> Bytes]
  BY <1>1, <1>2, <1>3
<1>5. ASSUME NEW p \in Addr, p < at \/ p >= at + Len(s)
      PROVE  Over(b, at, s)[p] = b[p]
  <2>1. p \notin at .. at + Len(s) - 1
    BY <1>1, <1>5 DEF Addr
  <2> QED
    BY <1>3, <2>1
<1>6. ASSUME NEW k \in 1 .. Len(s), at + k - 1 < wbufsize
      PROVE  Over(b, at, s)[at + k - 1] = s[k]
  <2>1. at + k - 1 \in Addr /\ at + k - 1 \in at .. at + Len(s) - 1 /\ at + k - 1 - at + 1 = k
    BY <1>1, <1>6, Sizes DEF Addr
  <2> QED
    BY <1>3, <2>1
<1> QED
  BY <1>4, <1>5, <1>6

(* What tls_write takes is a part of the buffer. *)
LEMMA WrittenPart ==
  ASSUME NEW b \in [Addr -> Bytes], NEW lo \in Nat, NEW k \in Nat, lo + k <= wbufsize, k >= 1
  PROVE  SubSeq([p \in 1 .. wbufsize |-> b[p - 1]], lo + 1, lo + k) = Part(b, lo, lo + k)
<1> DEFINE f == [p \in 1 .. wbufsize |-> b[p - 1]]
           x == SubSeq(f, lo + 1, lo + k)
           y == Part(b, lo, lo + k)
<1>1. \A p \in lo + 1 .. lo + k : p \in 1 .. wbufsize /\ p - 1 \in Addr
  BY Sizes DEF Addr
<1>2. \A p \in lo + 1 .. lo + k : f[p] \in Bytes
  BY <1>1
<1>3. /\ x \in Seq(Bytes) /\ Len(x) = (IF lo + 1 <= lo + k THEN lo + k - (lo + 1) + 1 ELSE 0)
      /\ \A i \in 1 .. lo + k - (lo + 1) + 1 : x[i] = f[lo + 1 + i - 1]
  <2> HIDE DEF f
  <2> QED
    BY <1>2, SubSeqProperties
<1>4. Len(x) = k /\ \A i \in 1 .. k : x[i] = b[lo + i - 1]
  <2>1. Len(x) = k
    <3> HIDE DEF x
    <3> QED
      BY <1>3
  <2>2. ASSUME NEW i \in 1 .. k PROVE x[i] = b[lo + i - 1]
    <3>1. i \in 1 .. lo + k - (lo + 1) + 1 /\ lo + 1 + i - 1 \in 1 .. wbufsize /\ lo + 1 + i - 1 - 1 = lo + i - 1
      BY Sizes
    <3>2. x[i] = f[lo + 1 + i - 1]
      BY <1>3, <3>1
    <3> HIDE DEF x
    <3> QED
      BY <3>1, <3>2
  <2> QED
    BY <2>1, <2>2
<1>5. /\ y \in Seq(Bytes) /\ Len(y) = k /\ \A i \in 1 .. k : y[i] = b[lo + i - 1]
  <2>1. /\ y \in Seq(Bytes) /\ Len(y) = lo + k - lo /\ \A i \in 1 .. lo + k - lo : y[i] = b[lo + i - 1]
    <3> DEFINE hi == lo + k
    <3>1. hi \in Nat /\ lo <= hi /\ hi <= wbufsize
      OBVIOUS
    <3>2. /\ Part(b, lo, hi) \in Seq(Bytes) /\ Len(Part(b, lo, hi)) = hi - lo
          /\ \A i \in 1 .. hi - lo : Part(b, lo, hi)[i] = b[lo + i - 1]
      <4> HIDE DEF hi
      <4> QED
        BY <3>1, PartShape
    <3> QED
      BY <3>2
  <2> HIDE DEF y
  <2> QED
    BY <2>1
<1> HIDE DEF x, y
<1>6. x = y
  BY <1>3, <1>4, <1>5, SeqEqual
<1> QED
  BY <1>6 DEF x, y
-----------------------------------------------------------------------------
(* Frames in the send buffer                                               *)
(*                                                                         *)
(* Ready(v, fs, c): the first c frames of fs have been set up for sending  *)
(* in the buffer v or are gone, and the others wait in it, back to back.   *)
(* Every operation of net.c on the buffer keeps this.                      *)

Rest(v) == Part(v.buf, v.wpos, v.wend)

InFront(v) ==
  v \in Buffer /\ v.wpos <= v.wend /\ v.wend <= v.wfill /\ v.wfill <= wbufsize /\ WSHDR_RESV_W <= v.wend

(* Behind wend lie the frames after c, each one at its pos, and nothing    *)
(* else.                                                                   *)
Waits(v, fs, c, pos) ==
  /\ pos \in [c + 1 .. Len(fs) + 1 -> Nat]
  /\ pos[c + 1] = v.wend /\ pos[Len(fs) + 1] = v.wfill
  /\ \A i \in c + 1 .. Len(fs) :
       /\ pos[i + 1] = pos[i] + 3 + fs[i] /\ v.wend <= pos[i] /\ pos[i + 1] <= v.wfill
       /\ \A k \in 1 .. 3 : v.buf[pos[i] + k - 1] = Byte(i, "intra", k)
       /\ \A k \in 1 .. fs[i] : v.buf[pos[i] + 2 + k] = Byte(i, "data", k)
  /\ \A i, j \in c + 1 .. Len(fs) + 1 : i <= j => pos[i] <= pos[j]

Ready(v, fs, c) ==
  InFront(v) /\ fs \in Seq(Nat) /\ c \in 0 .. Len(fs) /\ \E pos : Waits(v, fs, c, pos)

LEMMA InFrontShape ==
  ASSUME NEW v, InFront(v)
  PROVE  /\ v \in Buffer /\ v.buf \in [Addr -> Bytes] /\ v.wpos \in Nat /\ v.wend \in Nat /\ v.wfill \in Nat
         /\ v.wpos <= v.wend /\ v.wend <= v.wfill /\ v.wfill <= wbufsize /\ 8 <= v.wend
         /\ v = [buf |-> v.buf, wpos |-> v.wpos, wend |-> v.wend, wfill |-> v.wfill]
BY DEF InFront, Buffer, WSHDR_RESV_W

(* No frame waits exactly when wend has reached wfill. *)
LEMMA Idle ==
  ASSUME NEW v, NEW fs, NEW c, Ready(v, fs, c)
  PROVE  v.wend = v.wfill <=> c = Len(fs)
<1>1. /\ v.wend \in Nat /\ v.wfill \in Nat /\ fs \in Seq(Nat) /\ c \in 0 .. Len(fs) /\ Len(fs) \in Nat
  BY InFrontShape DEF Ready
<1>2. PICK pos : Waits(v, fs, c, pos)
  BY DEF Ready
<1>3. ASSUME c # Len(fs) PROVE v.wend # v.wfill
  <2>1. c + 1 \in c + 1 .. Len(fs) /\ fs[c + 1] \in Nat
    BY <1>1, <1>3
  <2>2. pos[c + 1] = v.wend /\ pos[c + 1 + 1] = pos[c + 1] + 3 + fs[c + 1] /\ pos[c + 1 + 1] <= v.wfill
    BY <1>2, <2>1 DEF Waits
  <2> QED
    BY <1>1, <2>1, <2>2
<1>4. ASSUME c = Len(fs) PROVE v.wend = v.wfill
  BY <1>2, <1>4 DEF Waits
<1> QED
  BY <1>3, <1>4

(* Frames moved towards the front, all by the same distance (compaction)   *)
LEMMA MovedReady ==
  ASSUME NEW v, NEW fs, NEW c, Ready(v, fs, c), NEW r, NEW m \in Nat, m + 8 <= v.wpos,
         r \in Buffer, r.wpos = v.wpos - m, r.wend = v.wend - m, r.wfill = v.wfill - m,
         \A p \in v.wpos .. v.wfill - 1 : r.buf[p - m] = v.buf[p]
  PROVE  Ready(r, fs, c) /\ Rest(r) = Rest(v)
<1>0. fs \in Seq(Nat) /\ c \in 0 .. Len(fs) /\ Len(fs) \in Nat /\ c \in Nat
  BY DEF Ready
<1>1. /\ v.wpos \in Nat /\ v.wend \in Nat /\ v.wfill \in Nat
      /\ v.wpos <= v.wend /\ v.wend <= v.wfill /\ v.wfill <= wbufsize
  BY InFrontShape DEF Ready
<1>2. InFront(r)
  BY <1>1, Sizes DEF InFront
<1>3. Rest(r) = Rest(v)
  <2>1. \A k \in 1 .. v.wend - v.wpos : /\ v.wpos + k - 1 \in v.wpos .. v.wfill - 1
                                        /\ r.wpos + k - 1 = v.wpos + k - 1 - m
    BY <1>1
  <2>2. r.wend - r.wpos = v.wend - v.wpos
    BY <1>1
  <2>3. \A k \in 1 .. v.wend - v.wpos : r.buf[r.wpos + k - 1] = v.buf[v.wpos + k - 1]
    <3> TAKE k \in 1 .. v.wend - v.wpos
    <3> DEFINE p == v.wpos + k - 1
    <3>1. p \in v.wpos .. v.wfill - 1 /\ r.wpos + k - 1 = p - m
      <4>1. p \in v.wpos .. v.wfill - 1
        BY <1>1
      <4>2. r.wpos + k - 1 = p - m
        BY <1>1
      <4> QED
        BY <4>1, <4>2
    <3> HIDE DEF p
    <3>2. r.buf[r.wpos + k - 1] = v.buf[p]
      BY <3>1
    <3> QED
      BY <3>2 DEF p
  <2> QED
    BY <2>2, <2>3 DEF Rest, Part
<1>4. PICK pos : Waits(v, fs, c, pos)
  BY DEF Ready
<1> DEFINE q == [i \in c + 1 .. Len(fs) + 1 |-> pos[i] - m]
<1>5. pos \in [c + 1 .. Len(fs) + 1 -> Nat] /\ pos[c + 1] = v.wend /\ pos[Len(fs) + 1] = v.wfill
  BY <1>4 DEF Waits
<1>6. \A i \in c + 1 .. Len(fs) : /\ i \in c + 1 .. Len(fs) + 1 /\ i + 1 \in c + 1 .. Len(fs) + 1
                                  /\ i \in 1 .. Len(fs) /\ fs[i] \in Nat
  BY <1>0, SMTT(30)
<1>7. \A i \in c + 1 .. Len(fs) + 1 : v.wend <= pos[i] /\ pos[i] <= v.wfill
  <2> TAKE i \in c + 1 .. Len(fs) + 1
  <2>1. CASE i = Len(fs) + 1
    BY <1>1, <1>5, <2>1
  <2>2. CASE i # Len(fs) + 1
    <3>1. i \in c + 1 .. Len(fs)
      BY <1>0, <2>2
    <3>2. pos[i + 1] = pos[i] + 3 + fs[i] /\ v.wend <= pos[i] /\ pos[i + 1] <= v.wfill
      BY <1>4, <3>1 DEF Waits
    <3>3. pos[i] \in Nat /\ fs[i] \in Nat
      BY <1>5, <1>6, <3>1
    <3> QED
      BY <1>1, <3>2, <3>3, SMTT(30)
  <2> QED
    BY <2>1, <2>2
<1>8. \A i \in c + 1 .. Len(fs) + 1 : q[i] = pos[i] - m /\ pos[i] \in Nat /\ q[i] \in Nat
  <2> TAKE i \in c + 1 .. Len(fs) + 1
  <2>1. pos[i] \in Nat /\ v.wend <= pos[i]
    BY <1>5, <1>7
  <2> QED
    BY <1>1, <2>1, SMTT(30)
<1>9. q \in [c + 1 .. Len(fs) + 1 -> Nat]
  BY <1>8
<1> HIDE DEF q
<1>10. q[c + 1] = r.wend /\ q[Len(fs) + 1] = r.wfill
  <2>1. c + 1 \in c + 1 .. Len(fs) + 1 /\ Len(fs) + 1 \in c + 1 .. Len(fs) + 1
    BY <1>0
  <2> QED
    BY <1>5, <1>8, <2>1
<1>11. ASSUME NEW i \in c + 1 .. Len(fs)
       PROVE  /\ q[i + 1] = q[i] + 3 + fs[i] /\ r.wend <= q[i] /\ q[i + 1] <= r.wfill
              /\ \A k \in 1 .. 3 : r.buf[q[i] + k - 1] = Byte(i, "intra", k)
              /\ \A k \in 1 .. fs[i] : r.buf[q[i] + 2 + k] = Byte(i, "data", k)
  <2>1. /\ i \in c + 1 .. Len(fs) + 1 /\ i + 1 \in c + 1 .. Len(fs) + 1 /\ fs[i] \in Nat
    BY <1>6
  <2>2. /\ pos[i + 1] = pos[i] + 3 + fs[i] /\ v.wend <= pos[i] /\ pos[i + 1] <= v.wfill
        /\ \A k \in 1 .. 3 : v.buf[pos[i] + k - 1] = Byte(i, "intra", k)
        /\ \A k \in 1 .. fs[i] : v.buf[pos[i] + 2 + k] = Byte(i, "data", k)
    BY <1>4 DEF Waits
  <2>3. /\ q[i] = pos[i] - m /\ q[i + 1] = pos[i + 1] - m /\ pos[i] \in Nat /\ pos[i + 1] \in Nat
    BY <1>8, <2>1
  <2> DEFINE x == pos[i]
             y == pos[i + 1]
             n == fs[i]
  <2>7. /\ x \in Nat /\ y \in Nat /\ n \in Nat /\ y = x + 3 + n /\ v.wpos <= x /\ y <= v.wfill
        /\ q[i] = x - m /\ q[i + 1] = y - m /\ v.wend <= x
    <3>1. v.wpos <= v.wend /\ v.wpos \in Nat /\ v.wend \in Nat
      BY <1>1
    <3>2. v.wend <= x /\ y = x + 3 + n /\ y <= v.wfill
      BY <2>2
    <3>3. x \in Nat /\ y \in Nat /\ n \in Nat /\ q[i] = x - m /\ q[i + 1] = y - m
      BY <2>1, <2>3
    <3> HIDE DEF x, y, n
    <3> QED
      BY <3>1, <3>2, <3>3
  <2>8. /\ \A k \in 1 .. 3 : v.buf[x + k - 1] = Byte(i, "intra", k)
        /\ \A k \in 1 .. n : v.buf[x + 2 + k] = Byte(i, "data", k)
    BY <2>2
  <2> HIDE DEF x, y, n
  <2>9. /\ v.wpos \in Nat /\ v.wfill \in Nat /\ x \in Nat /\ n \in Nat
        /\ v.wpos <= x /\ x + 3 + n <= v.wfill
    BY <1>1, <2>7
  <2>4. \A k \in 1 .. 3 : r.buf[q[i] + k - 1] = Byte(i, "intra", k)
    <3> TAKE k \in 1 .. 3
    <3> DEFINE p == x + k - 1
    <3>1. p \in v.wpos .. v.wfill - 1 /\ q[i] + k - 1 = p - m
      <4>1. p \in v.wpos .. v.wfill - 1
        <5> DEFINE lo == v.wpos
                   hi == v.wfill
        <5>1. lo \in Nat /\ hi \in Nat /\ x \in Nat /\ lo <= x /\ x + 3 <= hi
          BY <2>9
        <5>2. k = 1 \/ k = 2 \/ k = 3
          OBVIOUS
        <5> HIDE DEF lo, hi
        <5>3. p \in lo .. hi - 1
          BY <5>1, <5>2
        <5> QED
          BY <5>3 DEF lo, hi
      <4>2. q[i] + k - 1 = p - m
        BY <1>1, <2>7
      <4> QED
        BY <4>1, <4>2
    <3>2. v.buf[p] = Byte(i, "intra", k)
      BY <2>8
    <3> HIDE DEF p
    <3> QED
      BY <3>1, <3>2
  <2>5. \A k \in 1 .. n : r.buf[q[i] + 2 + k] = Byte(i, "data", k)
    <3> TAKE k \in 1 .. n
    <3> DEFINE p == x + 2 + k
    <3>1. p \in v.wpos .. v.wfill - 1 /\ q[i] + 2 + k = p - m
      <4>1. p \in v.wpos .. v.wfill - 1
        <5> DEFINE lo == v.wpos
                   hi == v.wfill
        <5>1. lo \in Nat /\ hi \in Nat /\ x \in Nat /\ n \in Nat /\ lo <= x /\ x + 3 + n <= hi
          BY <2>9
        <5> HIDE DEF lo, hi
        <5>2. p \in lo .. hi - 1
          BY <5>1
        <5> QED
          BY <5>2 DEF lo, hi
      <4>2. q[i] + 2 + k = p - m
        BY <1>1, <2>7
      <4> QED
        BY <4>1, <4>2
    <3>2. v.buf[p] = Byte(i, "data", k)
      BY <2>8
    <3> HIDE DEF p
    <3> QED
      BY <3>1, <3>2
  <2>6. q[i + 1] = q[i] + 3 + n /\ r.wend <= q[i] /\ q[i + 1] <= r.wfill
    BY <1>1, <2>7, SMTT(30)
  <2> QED
    BY <2>4, <2>5, <2>6 DEF n
<1>13. \A i, j \in c + 1 .. Len(fs) + 1 : i <= j => q[i] <= q[j]
  <2> TAKE i, j \in c + 1 .. Len(fs) + 1
  <2>1. i <= j => pos[i] <= pos[j]
    BY <1>4 DEF Waits
  <2> QED
    BY <1>8, <2>1
<1>12. Waits(r, fs, c, q)
  BY <1>9, <1>10, <1>11, <1>13 DEF Waits
<1> QED
  BY <1>0, <1>2, <1>3, <1>12 DEF Ready

(* ws_getSendbuf finds the buffer empty. *)
LEMMA EmptiedReady ==
  ASSUME NEW v, NEW fs, NEW c, Ready(v, fs, c)
  PROVE  /\ Ready(Emptied(v), fs, c) /\ Rest(Emptied(v)) = Rest(v)
         /\ v.wpos = v.wend <=> Emptied(v).wpos = Emptied(v).wend
<1> DEFINE e == [v EXCEPT !.wpos = WSHDR_RESV_W, !.wend = WSHDR_RESV_W, !.wfill = WSHDR_RESV_W]
<1>1. CASE v.wpos # v.wfill
  BY <1>1 DEF Emptied
<1>2. CASE v.wpos = v.wfill
  <2>1. InFront(v) /\ fs \in Seq(Nat) /\ c \in 0 .. Len(fs) /\ Len(fs) \in Nat
    BY DEF Ready
  <2>2. v.wpos = v.wend /\ c = Len(fs)
    BY <1>2, <2>1, InFrontShape, Idle
  <2>3. e.buf = v.buf /\ e.wpos = 8 /\ e.wend = 8 /\ e.wfill = 8 /\ e \in Buffer
    BY <2>1, Sizes DEF InFront, Buffer
  <2>4. Emptied(v) = e
    BY <1>2 DEF Emptied
  <2> HIDE DEF e
  <2>5. InFront(e)
    BY <2>3, Sizes DEF InFront
  <2>6. Waits(e, fs, c, [i \in c + 1 .. Len(fs) + 1 |-> 8])
    BY <2>1, <2>2, <2>3 DEF Waits
  <2>7. Rest(e) = <<>> /\ Rest(v) = <<>>
    <3>1. e.wend - e.wpos = 0 /\ v.wend - v.wpos = 0
      BY <2>1, <2>2, <2>3, InFrontShape
    <3> QED
      BY <3>1 DEF Rest, Part
  <2> QED
    BY <2>1, <2>2, <2>3, <2>4, <2>5, <2>6, <2>7 DEF Ready
<1> QED
  BY <1>1, <1>2

(* ws_getSendbuf moves everything to the front. *)
LEMMA CompactedReady ==
  ASSUME NEW v, NEW fs, NEW c, Ready(v, fs, c), v.wpos >= WSHDR_RESV_W
  PROVE  /\ Ready(Compacted(v), fs, c) /\ Rest(Compacted(v)) = Rest(v)
         /\ v.wpos = v.wend <=> Compacted(v).wpos = Compacted(v).wend
<1> DEFINE m == Sent(v)
           s == Part(v.buf, v.wpos, v.wfill)
           b == Over(v.buf, 8, s)
           r == Compacted(v)
<1>1. /\ v.wpos \in Nat /\ v.wend \in Nat /\ v.wfill \in Nat /\ v.buf \in [Addr -> Bytes] /\ v \in Buffer
      /\ v.wpos <= v.wend /\ v.wend <= v.wfill /\ v.wfill <= wbufsize /\ 8 <= v.wpos
      /\ m = v.wpos - 8 /\ m \in Nat
  BY InFrontShape, Sizes DEF Ready, Sent
<1>2. /\ s \in Seq(Bytes) /\ Len(s) = v.wfill - v.wpos
      /\ \A k \in 1 .. v.wfill - v.wpos : s[k] = v.buf[v.wpos + k - 1]
  <2>1. v.wpos <= v.wfill
    BY <1>1
  <2> QED
    BY <1>1, <2>1, PartShape, Zenon
<1>3. r = [v EXCEPT !.buf = b, !.wpos = v.wpos - m, !.wend = v.wend - m, !.wfill = v.wfill - m]
  BY Zenon DEF Compacted, Part, WSHDR_RESV_W
<1> HIDE DEF s, r, m, b
<1>5. b \in [Addr -> Bytes] /\ \A k \in 1 .. v.wfill - v.wpos : b[8 + k - 1] = v.buf[v.wpos + k - 1]
  <2>1. \A k \in 1 .. v.wfill - v.wpos : 8 + k - 1 < wbufsize
    BY <1>1, Sizes
  <2>2. b \in [Addr -> Bytes] /\ \A k \in 1 .. Len(s) : 8 + k - 1 < wbufsize => b[8 + k - 1] = s[k]
    BY <1>1, <1>2, OverShape, SMTT(30) DEF b
  <2> QED
    BY <1>2, <2>1, <2>2
<1>4. v.wpos - m \in Nat /\ v.wend - m \in Nat /\ v.wfill - m \in Nat
  BY <1>1
<1>6. r \in Buffer /\ r.buf = b /\ r.wpos = v.wpos - m /\ r.wend = v.wend - m /\ r.wfill = v.wfill - m
  <2> DEFINE i == v.wpos - m
             j == v.wend - m
             k == v.wfill - m
  <2>1. /\ i \in Nat /\ j \in Nat /\ k \in Nat
        /\ r = [v EXCEPT !.buf = b, !.wpos = i, !.wend = j, !.wfill = k]
    BY <1>3, <1>4, Zenon
  <2> HIDE DEF i, j, k
  <2>2. r \in Buffer /\ r.buf = b /\ r.wpos = i /\ r.wend = j /\ r.wfill = k
    <3> DEFINE B == [Addr -> Bytes]
    <3>1. b \in B /\ v \in [buf : B, wpos : Nat, wend : Nat, wfill : Nat]
      BY <1>1, <1>5 DEF Buffer
    <3> HIDE DEF B
    <3>2. r \in [buf : B, wpos : Nat, wend : Nat, wfill : Nat]
      BY <2>1, <3>1
    <3>3. r.buf = b
      BY <2>1, <3>1
    <3>4. r.wpos = i /\ r.wend = j /\ r.wfill = k
      BY <2>1, <3>1
    <3> QED
      BY <3>2, <3>3, <3>4 DEF Buffer, B
  <2> QED
    BY <2>1, <2>2, Zenon DEF i, j, k
<1>7. \A p \in v.wpos .. v.wfill - 1 : r.buf[p - m] = v.buf[p]
  <2> TAKE p \in v.wpos .. v.wfill - 1
  <2> DEFINE k == p - v.wpos + 1
  <2>1. k \in 1 .. v.wfill - v.wpos /\ 8 + k - 1 = p - m /\ v.wpos + k - 1 = p
    BY <1>1
  <2> HIDE DEF k
  <2> QED
    BY <1>5, <1>6, <2>1
<1>8. Ready(r, fs, c) /\ Rest(r) = Rest(v)
  <2>1. m + 8 <= v.wpos /\ r.wpos = v.wpos - m /\ r.wend = v.wend - m /\ r.wfill = v.wfill - m
    BY <1>1, <1>6
  <2>2. Ready(v, fs, c) /\ m \in Nat /\ m + 8 <= v.wpos
    BY <1>1, <2>1
  <2>3. r \in Buffer /\ r.wpos = v.wpos - m /\ r.wend = v.wend - m /\ r.wfill = v.wfill - m
    BY <1>6
  <2> QED
    BY ONLY <1>7, <2>2, <2>3, MovedReady
<1>9. v.wpos = v.wend <=> r.wpos = r.wend
  BY <1>1, <1>6
<1> QED
  BY <1>8, <1>9 DEF r

(* ws_getSendbuf does not refuse. *)
LEMMA GrantedReady ==
  ASSUME NEW v, NEW fs, NEW c, Ready(v, fs, c), NEW n \in Nat, ~Refused(v, n)
  PROVE  /\ Ready(Granted(v, n), fs, c) /\ Rest(Granted(v, n)) = Rest(v)
         /\ v.wpos = v.wend <=> Granted(v, n).wpos = Granted(v, n).wend
<1>1. CASE Lacking(v, n) > 0
  <2>1. v.wpos \in Nat /\ v.wfill \in Nat
    BY InFrontShape DEF Ready
  <2>2. v.wpos >= WSHDR_RESV_W
    BY <1>1, <2>1, Sizes DEF Refused, Lacking, Sent
  <2> QED
    BY <1>1, <2>2, CompactedReady DEF Granted
<1>2. CASE ~(Lacking(v, n) > 0)
  BY <1>2 DEF Granted
<1> QED
  BY <1>1, <1>2
-----------------------------------------------------------------------------
Wired(fs, id) ==
  [k \in 1 .. HdrLen(fs[id]) |-> Byte(id, "hdr", k)] \o [k \in 1 .. fs[id] |-> Mask(Byte(id, "data", k))]

(* What is written of a frame, before and behind the wend of the moment *)
LEMMA FrameBytes ==
  ASSUME NEW id \in Nat, NEW n \in Nat
  PROVE  LET s == [k \in 1 .. 3 |-> Byte(id, "intra", k)] \o [k \in 1 .. n |-> Byte(id, "data", k)]
         IN  /\ s \in Seq(Bytes) /\ Len(s) = 3 + n
             /\ \A k \in 1 .. 3 : s[k] = Byte(id, "intra", k)
             /\ \A k \in 1 .. n : s[3 + k] = Byte(id, "data", k)
<1> DEFINE x == [k \in 1 .. 3 |-> Byte(id, "intra", k)]
           y == [k \in 1 .. n |-> Byte(id, "data", k)]
           s == x \o y
<1>1. x \in Seq(Bytes) /\ Len(x) = 3 /\ \A k \in 1 .. 3 : x[k] = Byte(id, "intra", k)
  BY ByteTypes
<1>2. y \in Seq(Bytes) /\ Len(y) = n /\ \A k \in 1 .. n : y[k] = Byte(id, "data", k)
  BY ByteTypes
<1> HIDE DEF x, y
<1>6. /\ x \o y \in Seq(Bytes) /\ Len(x \o y) = Len(x) + Len(y)
      /\ \A k \in 1 .. Len(x) : (x \o y)[k] = x[k]
      /\ \A k \in 1 .. Len(y) : (x \o y)[Len(x) + k] = y[k]
  BY <1>1, <1>2, TwoParts
<1>7. /\ s \in Seq(Bytes) /\ Len(s) = Len(x) + Len(y)
      /\ \A k \in 1 .. Len(x) : s[k] = x[k]
      /\ \A k \in 1 .. Len(y) : s[Len(x) + k] = y[k]
  BY <1>6, Zenon
<1> HIDE DEF s
<1>3. s \in Seq(Bytes) /\ Len(s) = 3 + n /\ \A k \in 1 .. 3 : s[k] = x[k]
  BY <1>1, <1>2, <1>7
<1>4. \A k \in 1 .. n : s[3 + k] = y[k]
  BY <1>1, <1>2, <1>7
<1>5. /\ s \in Seq(Bytes) /\ Len(s) = 3 + n
      /\ \A k \in 1 .. 3 : s[k] = Byte(id, "intra", k)
      /\ \A k \in 1 .. n : s[3 + k] = Byte(id, "data", k)
  BY <1>1, <1>2, <1>3, <1>4
<1> QED
  BY <1>5 DEF s, x, y

LEMMA CommittedTypes ==
  ASSUME NEW v \in Buffer, NEW id \in Nat, NEW n \in Nat
  PROVE  LET s == [k \in 1 .. 3 |-> Byte(id, "intra", k)] \o [k \in 1 .. n |-> Byte(id, "data", k)]
             r == Queued(v, id, n)
         IN  /\ r \in Buffer /\ r.buf = Over(v.buf, v.wfill, s)
             /\ r.wpos = v.wpos /\ r.wend = v.wend /\ r.wfill = v.wfill + 3 + n
<1> DEFINE s == [k \in 1 .. 3 |-> Byte(id, "intra", k)] \o [k \in 1 .. n |-> Byte(id, "data", k)]
           b == Over(v.buf, v.wfill, s)
           j == v.wfill + 3 + n
           r == Queued(v, id, n)
           B == [Addr -> Bytes]
<1>1. r = [v EXCEPT !.buf = b, !.wfill = j]
  BY Zenon DEF Queued, WSHDR_INTRA
<1>2. b \in B /\ j \in Nat
  <2>1. s \in Seq(Bytes)
    BY FrameBytes
  <2> HIDE DEF s
  <2>2. v.buf \in [Addr -> Bytes] /\ v.wfill \in Nat
    BY DEF Buffer
  <2> QED
    BY <2>1, <2>2, OverShape
<1> HIDE DEF s, b, j, r
<1>3. v \in [buf : B, wpos : Nat, wend : Nat, wfill : Nat]
  BY DEF Buffer
<1> HIDE DEF B
<1>4. r \in [buf : B, wpos : Nat, wend : Nat, wfill : Nat] /\ r.buf = b
  BY <1>1, <1>2, <1>3
<1>5. r.wpos = v.wpos /\ r.wend = v.wend /\ r.wfill = j
  BY <1>1, <1>2, <1>3
<1> QED
  BY <1>4, <1>5 DEF Buffer, B, s, b, j, r

(* ws_sendData: the frame waits behind all others. *)
LEMMA CommittedReady ==
  ASSUME NEW v, NEW fs, NEW c, Ready(v, fs, c), NEW n \in Nat, n <= bufsize(v)
  PROVE  LET r == Queued(v, Len(fs) + 1, n)
         IN  /\ Ready(r, Append(fs, n), c) /\ Rest(r) = Rest(v)
             /\ r.wpos = v.wpos /\ r.wend = v.wend /\ r.wfill = v.wfill + 3 + n
<1> DEFINE N == Len(fs)
           s == [k \in 1 .. 3 |-> Byte(N + 1, "intra", k)] \o [k \in 1 .. n |-> Byte(N + 1, "data", k)]
           gs == Append(fs, n)
           r == Queued(v, N + 1, n)
<1>1. /\ v.wpos \in Nat /\ v.wend \in Nat /\ v.wfill \in Nat /\ v.buf \in [Addr -> Bytes] /\ v \in Buffer
      /\ v.wpos <= v.wend /\ v.wend <= v.wfill /\ v.wfill <= wbufsize /\ 8 <= v.wend
  BY InFrontShape DEF Ready
<1>2. fs \in Seq(Nat) /\ N \in Nat /\ c \in 0 .. N /\ c \in Nat /\ InFront(v)
  BY DEF Ready
<1>3. v.wfill + 3 + n <= wbufsize
  BY <1>1, Sizes DEF bufsize
<1>4. /\ gs \in Seq(Nat) /\ Len(gs) = N + 1 /\ gs[N + 1] = n /\ \A i \in 1 .. N : gs[i] = fs[i] /\ fs[i] \in Nat
  BY <1>2
<1>5. /\ s \in Seq(Bytes) /\ Len(s) = 3 + n
      /\ \A k \in 1 .. 3 : s[k] = Byte(N + 1, "intra", k)
      /\ \A k \in 1 .. n : s[3 + k] = Byte(N + 1, "data", k)
  <2>1. N + 1 \in Nat
    BY <1>2
  <2> HIDE DEF N
  <2> QED
    BY <2>1, FrameBytes
<1>6. /\ r \in Buffer /\ r.buf = Over(v.buf, v.wfill, s)
      /\ r.wpos = v.wpos /\ r.wend = v.wend /\ r.wfill = v.wfill + 3 + n
  <2>1. N + 1 \in Nat
    BY <1>2
  <2> HIDE DEF N
  <2> QED
    BY <1>1, <2>1, CommittedTypes
<1> HIDE DEF s, gs, r
<1>7. /\ \A p \in Addr : p < v.wfill => r.buf[p] = v.buf[p]
      /\ \A k \in 1 .. 3 + n : v.wfill + k - 1 < wbufsize => r.buf[v.wfill + k - 1] = s[k]
  <2> DEFINE o == Over(v.buf, v.wfill, s)
  <2>1. /\ \A p \in Addr : p < v.wfill \/ p >= v.wfill + Len(s) => o[p] = v.buf[p]
        /\ \A k \in 1 .. Len(s) : v.wfill + k - 1 < wbufsize => o[v.wfill + k - 1] = s[k]
    BY <1>1, <1>5, OverShape
  <2> HIDE DEF o
  <2>2. r.buf = o
    BY <1>6 DEF o
  <2> QED
    BY <1>5, <2>1, <2>2
<1>8. InFront(r)
  BY <1>1, <1>3, <1>6, Sizes DEF InFront
<1>9. Rest(r) = Rest(v)
  <2>1. \A k \in 1 .. v.wend - v.wpos : r.buf[v.wpos + k - 1] = v.buf[v.wpos + k - 1]
    <3> TAKE k \in 1 .. v.wend - v.wpos
    <3>1. v.wpos + k - 1 \in Addr /\ v.wpos + k - 1 < v.wfill
      BY <1>1, Sizes, SMTT(30) DEF Addr
    <3> QED
      BY <1>7, <3>1
  <2> QED
    BY <1>6, <2>1 DEF Rest, Part
<1>10. PICK pos : Waits(v, fs, c, pos)
  BY DEF Ready
<1> DEFINE q == [i \in c + 1 .. N + 2 |-> IF i = N + 2 THEN v.wfill + 3 + n ELSE pos[i]]
<1>11. pos \in [c + 1 .. N + 1 -> Nat] /\ pos[c + 1] = v.wend /\ pos[N + 1] = v.wfill
  BY <1>10 DEF Waits
<1>12. q \in [c + 1 .. N + 2 -> Nat]
  <2>1. \A i \in c + 1 .. N + 2 : i # N + 2 => i \in c + 1 .. N + 1
    BY <1>2
  <2>2. v.wfill + 3 + n \in Nat
    BY <1>1
  <2> QED
    BY <1>11, <2>1, <2>2
<1>13. q[N + 2] = v.wfill + 3 + n /\ \A i \in c + 1 .. N + 1 : q[i] = pos[i]
  <2>1. N + 2 \in c + 1 .. N + 2 /\ \A i \in c + 1 .. N + 1 : i \in c + 1 .. N + 2 /\ i # N + 2
    BY <1>2
  <2> QED
    BY <2>1
<1> HIDE DEF q, N
<1>14. c + 1 \in c + 1 .. N + 1 /\ N + 1 \in c + 1 .. N + 1
  BY <1>2
<1>15. q[c + 1] = r.wend /\ q[N + 2] = r.wfill /\ q[N + 1] = v.wfill
  BY <1>6, <1>11, <1>13, <1>14
<1>16. \A i \in c + 1 .. N + 1 : pos[i] \in Nat /\ v.wend <= pos[i] /\ pos[i] <= v.wfill
  <2> TAKE i \in c + 1 .. N + 1
  <2>1. pos[i] \in Nat
    BY <1>11
  <2>2. c + 1 <= i /\ i <= N + 1
    BY <1>2
  <2>3. \A j, k \in c + 1 .. N + 1 : j <= k => pos[j] <= pos[k]
    BY <1>10 DEF Waits, N
  <2>4. pos[c + 1] <= pos[i] /\ pos[i] <= pos[N + 1]
    BY <1>14, <2>2, <2>3
  <2> QED
    BY <1>11, <2>1, <2>4
<1>17. ASSUME NEW i \in c + 1 .. N + 2, NEW j \in c + 1 .. N + 2, i <= j
       PROVE  q[i] <= q[j]
  <2>1. CASE j = N + 2
    <3>1. CASE i = N + 2
      BY <1>1, <1>13, <2>1, <3>1
    <3>2. CASE i # N + 2
      <4>1. i \in c + 1 .. N + 1
        BY <1>2, <3>2
      <4> QED
        BY <1>1, <1>13, <1>16, <2>1, <4>1
    <3> QED
      BY <3>1, <3>2
  <2>2. CASE j # N + 2
    <3>1. i \in c + 1 .. N + 1 /\ j \in c + 1 .. N + 1
      BY <1>2, <1>17, <2>2
    <3>2. pos[i] <= pos[j]
      BY <1>10, <1>17, <3>1 DEF Waits, N
    <3> QED
      BY <1>13, <3>1, <3>2
  <2> QED
    BY <2>1, <2>2
<1>18. ASSUME NEW i \in c + 1 .. N + 1
       PROVE  /\ q[i + 1] = q[i] + 3 + gs[i] /\ r.wend <= q[i] /\ q[i + 1] <= r.wfill
              /\ \A k \in 1 .. 3 : r.buf[q[i] + k - 1] = Byte(i, "intra", k)
              /\ \A k \in 1 .. gs[i] : r.buf[q[i] + 2 + k] = Byte(i, "data", k)
  <2>1. CASE i = N + 1
    <3>1. q[i] = v.wfill /\ q[i + 1] = v.wfill + 3 + n /\ gs[i] = n
      <4>1. i + 1 = N + 2
        BY <1>2, <2>1
      <4> QED
        BY <1>4, <1>6, <1>15, <2>1, <4>1
    <3>2. \A k \in 1 .. 3 : r.buf[v.wfill + k - 1] = Byte(N + 1, "intra", k)
      <4> TAKE k \in 1 .. 3
      <4>1. k \in 1 .. 3 + n /\ v.wfill + k - 1 < wbufsize
        BY <1>1, <1>3, Sizes
      <4> QED
        BY <1>5, <1>7, <4>1
    <3>3. \A k \in 1 .. n : r.buf[v.wfill + 2 + k] = Byte(N + 1, "data", k)
      <4> TAKE k \in 1 .. n
      <4> DEFINE j == 3 + k
      <4>1. j \in 1 .. 3 + n /\ v.wfill + j - 1 < wbufsize /\ v.wfill + j - 1 = v.wfill + 2 + k
        BY <1>1, <1>3, Sizes
      <4>2. s[j] = Byte(N + 1, "data", k)
        BY <1>5
      <4> HIDE DEF j
      <4> QED
        BY <1>7, <4>1, <4>2
    <3> QED
      BY <1>1, <1>6, <2>1, <3>1, <3>2, <3>3
  <2>2. CASE i # N + 1
    <3>1. i \in c + 1 .. N /\ i \in 1 .. N /\ i + 1 \in c + 1 .. N + 1
      BY <1>2, <2>2
    <3> DEFINE x == pos[i]
               m == fs[i]
    <3>2. /\ pos[i + 1] = x + 3 + m
          /\ \A k \in 1 .. 3 : v.buf[x + k - 1] = Byte(i, "intra", k)
          /\ \A k \in 1 .. m : v.buf[x + 2 + k] = Byte(i, "data", k)
      BY <1>10, <3>1 DEF Waits, N
    <3>3. /\ x \in Nat /\ m \in Nat /\ q[i] = x /\ gs[i] = m /\ q[i + 1] = x + 3 + m
          /\ v.wend <= x /\ x + 3 + m <= v.wfill
      BY <1>4, <1>13, <1>16, <3>1, <3>2
    <3> HIDE DEF x, m
    <3>4. \A k \in 1 .. 3 : r.buf[x + k - 1] = Byte(i, "intra", k)
      <4> TAKE k \in 1 .. 3
      <4>1. x + k - 1 \in Addr /\ x + k - 1 < v.wfill
        <5> DEFINE f == v.wfill
        <5>1. f \in Nat /\ f <= wbufsize /\ x \in Nat /\ m \in Nat /\ x + 3 + m <= f
          BY <1>1, <3>3
        <5> HIDE DEF f
        <5>2. x + k - 1 \in Nat /\ x + k - 1 < f
          BY <5>1
        <5>3. x + k - 1 < wbufsize
          BY <5>1, <5>2, Sizes
        <5> QED
          BY <5>2, <5>3, Sizes DEF Addr, f
      <4> QED
        BY <1>7, <3>2, <4>1
    <3>5. \A k \in 1 .. m : r.buf[x + 2 + k] = Byte(i, "data", k)
      <4> TAKE k \in 1 .. m
      <4>1. x + 2 + k \in Addr /\ x + 2 + k < v.wfill
        BY <1>1, <3>3, Sizes, SMTT(30) DEF Addr
      <4> QED
        BY <1>7, <3>2, <4>1
    <3>6. q[i + 1] <= r.wfill /\ r.wend <= q[i]
      BY <1>1, <1>6, <3>3
    <3> QED
      BY <3>3, <3>4, <3>5, <3>6
  <2> QED
    BY <2>1, <2>2
<1>19. Waits(r, gs, c, q)
  <2>1. Len(gs) + 1 = N + 2 /\ Len(gs) = N + 1
    BY <1>2, <1>4
  <2> QED
    BY <1>12, <1>15, <1>17, <1>18, <2>1 DEF Waits
<1>20. Ready(r, gs, c)
  <2>1. c \in 0 .. Len(gs)
    BY <1>2, <1>4
  <2> QED
    BY <1>4, <1>8, <1>19, <2>1 DEF Ready
<1> QED
  BY <1>6, <1>9, <1>20 DEF r, gs, N
-----------------------------------------------------------------------------
LEMMA OverPart ==
  ASSUME NEW b \in [Addr -> Bytes], NEW at \in Nat, NEW s \in Seq(Bytes), at + Len(s) <= wbufsize
  PROVE  Part(Over(b, at, s), at, at + Len(s)) = s
<1> DEFINE o == Over(b, at, s)
           hi == at + Len(s)
           x == Part(o, at, hi)
<1>1. /\ o \in [Addr -> Bytes]
      /\ \A k \in 1 .. Len(s) : at + k - 1 < wbufsize => o[at + k - 1] = s[k]
  BY OverShape
<1>2. Len(s) \in Nat /\ hi \in Nat /\ at <= hi /\ hi <= wbufsize /\ hi - at = Len(s)
  OBVIOUS
<1> HIDE DEF o, hi
<1>3. /\ x \in Seq(Bytes) /\ Len(x) = hi - at /\ \A k \in 1 .. hi - at : x[k] = o[at + k - 1]
  BY <1>1, <1>2, PartShape
<1> HIDE DEF x
<1>4. \A k \in 1 .. Len(s) : x[k] = s[k]
  <2> TAKE k \in 1 .. Len(s)
  <2>1. at + k - 1 < wbufsize /\ k \in 1 .. hi - at
    BY <1>2, Sizes DEF hi
  <2> QED
    BY <1>1, <1>3, <2>1
<1>5. x = s
  BY <1>2, <1>3, <1>4, SeqEqual
<1> QED
  BY <1>5 DEF x, o, hi

LEMMA WiredShape ==
  ASSUME NEW fs \in Seq(Nat), NEW id \in 1 .. Len(fs)
  PROVE  /\ Wired(fs, id) \in Seq(Bytes) /\ Len(Wired(fs, id)) = HdrLen(fs[id]) + fs[id]
         /\ HdrLen(fs[id]) \in {6, 8}
<1>1. fs[id] \in Nat /\ HdrLen(fs[id]) \in {6, 8} /\ id \in Nat
  BY DEF HdrLen
<1> DEFINE n == fs[id]
           h == HdrLen(n)
           x == [k \in 1 .. h |-> Byte(id, "hdr", k)]
           y == [k \in 1 .. n |-> Mask(Byte(id, "data", k))]
<1>2. x \in Seq(Bytes) /\ Len(x) = h
  <2> HIDE DEF h
  <2> QED
    BY <1>1, ByteTypes DEF h
<1>3. y \in Seq(Bytes) /\ Len(y) = n
  <2> HIDE DEF n
  <2>1. n \in Nat
    BY <1>1 DEF n
  <2>2. \A k \in 1 .. n : Mask(Byte(id, "data", k)) \in Bytes
    BY <1>1, <2>1, ByteTypes
  <2> QED
    BY <2>1, <2>2
<1> HIDE DEF x, y, h, n
<1>4. x \o y \in Seq(Bytes) /\ Len(x \o y) = h + n
  BY <1>2, <1>3, TwoParts
<1> QED
  BY <1>1, <1>4 DEF Wired, x, y, h, n

(* The frame that follows when its number is known *)
FrameOf(v, fs, id) ==
  LET n == fs[id]
      beg == v.wend + WSHDR_INTRA
      hdr == [k \in 1 .. HdrLen(n) |-> Byte(id, "hdr", k)]
      msg == [k \in 1 .. n |-> Mask(v.buf[beg + k - 1])]
  IN  [buf |-> Over(v.buf, beg - Len(hdr), hdr \o msg), wpos |-> beg - Len(hdr),
       wend |-> beg + n, wfill |-> v.wfill]

LEMMA NumberFound ==
  ASSUME NEW v, NEW fs, NEW id, v.buf[v.wend].id = id
  PROVE  NextFrame(v, fs) = FrameOf(v, fs, id)
BY Zenon DEF NextFrame, FrameOf

(* ws_connected_w: the header is written over bytes that are gone, and what *)
(* is to be sent next is the frame as it looks on the wire.                *)
LEMMA NextReady ==
  ASSUME NEW v, NEW fs, NEW c, Ready(v, fs, c), v.wend # v.wfill
  PROVE  /\ c + 1 \in 1 .. Len(fs) /\ Ready(NextFrame(v, fs), fs, c + 1)
         /\ Rest(NextFrame(v, fs)) = Wired(fs, c + 1) /\ NextFrame(v, fs).wpos < NextFrame(v, fs).wend
<1> DEFINE N == Len(fs)
           id == c + 1
           n == fs[id]
           h == HdrLen(n)
           s == Wired(fs, id)
           at == (v.wend + 3) - h
           r == NextFrame(v, fs)
<1>1. /\ v.wpos \in Nat /\ v.wend \in Nat /\ v.wfill \in Nat /\ v.buf \in [Addr -> Bytes] /\ v \in Buffer
      /\ v.wpos <= v.wend /\ v.wend <= v.wfill /\ v.wfill <= wbufsize /\ 8 <= v.wend
  BY InFrontShape DEF Ready
<1>2. fs \in Seq(Nat) /\ N \in Nat /\ c \in 0 .. N /\ c # N
  BY Idle DEF Ready
<1>3. id \in 1 .. N /\ id \in Nat /\ n \in Nat /\ h \in {6, 8} /\ h \in Nat
  BY <1>2 DEF HdrLen
<1>4. PICK pos : Waits(v, fs, c, pos)
  BY DEF Ready
<1>5. /\ pos \in [id .. N + 1 -> Nat] /\ pos[id] = v.wend /\ pos[N + 1] = v.wfill
      /\ \A i, j \in id .. N + 1 : i <= j => pos[i] <= pos[j]
  BY <1>4 DEF Waits
<1>6. id \in id .. N /\ id \in id .. N + 1 /\ id + 1 \in id .. N + 1 /\ N + 1 \in id .. N + 1
  BY <1>2, <1>3
<1>7. /\ pos[id + 1] = v.wend + 3 + n /\ pos[id + 1] <= v.wfill
      /\ \A k \in 1 .. 3 : v.buf[v.wend + k - 1] = Byte(id, "intra", k)
      /\ \A k \in 1 .. n : v.buf[v.wend + 2 + k] = Byte(id, "data", k)
  BY <1>4, <1>5, <1>6 DEF Waits
<1>8. v.buf[v.wend].id = id
  <2>1. 1 \in 1 .. 3 /\ v.wend + 1 - 1 = v.wend
    BY <1>1
  <2>2. v.buf[v.wend] = Byte(id, "intra", 1)
    BY <1>7, <2>1
  <2> QED
    BY <2>2 DEF Byte
<1>9. [k \in 1 .. n |-> Mask(v.buf[v.wend + 3 + k - 1])] = [k \in 1 .. n |-> Mask(Byte(id, "data", k))]
  <2>1. ASSUME NEW k \in 1 .. n PROVE v.buf[v.wend + 3 + k - 1] = Byte(id, "data", k)
    <3>1. v.wend + 3 + k - 1 = v.wend + 2 + k
      BY <1>1, <1>3
    <3> QED
      BY <1>7, <3>1
  <2> HIDE DEF n, id
  <2> QED
    BY <2>1
<1>10. r = [buf |-> Over(v.buf, at, s), wpos |-> at, wend |-> v.wend + 3 + n, wfill |-> v.wfill]
  <2> DEFINE hdr == [k \in 1 .. h |-> Byte(id, "hdr", k)]
             msg == [k \in 1 .. n |-> Mask(v.buf[v.wend + 3 + k - 1])]
  <2>1. Len(hdr) = h
    <3> HIDE DEF h
    <3> QED
      BY <1>3
  <2>2. hdr \o msg = s
    BY <1>9, Zenon DEF Wired
  <2>4. r = FrameOf(v, fs, id)
    BY <1>8, NumberFound
  <2>5. FrameOf(v, fs, id) = [buf |-> Over(v.buf, (v.wend + 3) - Len(hdr), hdr \o msg), wpos |-> (v.wend + 3) - Len(hdr),
                              wend |-> v.wend + 3 + n, wfill |-> v.wfill]
    BY Zenon DEF FrameOf, WSHDR_INTRA
  <2>3. r = [buf |-> Over(v.buf, (v.wend + 3) - Len(hdr), hdr \o msg), wpos |-> (v.wend + 3) - Len(hdr),
             wend |-> v.wend + 3 + n, wfill |-> v.wfill]
    BY <2>4, <2>5, Zenon
  <2> QED
    BY <2>1, <2>2, <2>3, Zenon
<1>11. s \in Seq(Bytes) /\ Len(s) = h + n
  BY <1>2, <1>3, WiredShape
<1> HIDE DEF N, n, h, s, r, id
<1>12. /\ at \in Nat /\ at = (v.wend + 3) - h /\ at + Len(s) = v.wend + 3 + n /\ v.wend + 3 + n <= wbufsize
       /\ at + Len(s) <= wbufsize /\ v.wend + 3 + n <= v.wfill /\ v.wend + 3 + n \in Nat
  <2>1. v.wend + 3 + n <= v.wfill
    BY <1>1, <1>7
  <2> QED
    <3>1. at \in Nat /\ at = (v.wend + 3) - h
      BY <1>1, <1>3
    <3> HIDE DEF at
    <3>2. at + Len(s) = v.wend + 3 + n
      BY <1>1, <1>3, <1>11, <3>1, SMTT(30)
    <3>3. v.wend + 3 + n <= wbufsize /\ v.wend + 3 + n \in Nat
      BY <1>1, <1>3, <2>1, Sizes
    <3> QED
      BY <2>1, <3>1, <3>2, <3>3
<1> HIDE DEF at
<1>13. /\ r.buf = Over(v.buf, at, s) /\ r.wpos = at /\ r.wend = v.wend + 3 + n /\ r.wfill = v.wfill
       /\ r.buf \in [Addr -> Bytes] /\ r \in Buffer
  <2> DEFINE o == Over(v.buf, at, s)
  <2>1. o \in [Addr -> Bytes]
    BY <1>1, <1>11, <1>12, OverShape
  <2> HIDE DEF o
  <2>2. r = [buf |-> o, wpos |-> at, wend |-> v.wend + 3 + n, wfill |-> v.wfill]
    BY <1>10 DEF o
  <2>3. r.buf = o /\ r.wpos = at /\ r.wend = v.wend + 3 + n /\ r.wfill = v.wfill
    BY <2>2
  <2>4. r \in Buffer
    BY <1>1, <1>12, <2>1, <2>2 DEF Buffer
  <2> QED
    BY <2>1, <2>3, <2>4 DEF o
<1>14. Rest(r) = s /\ r.wpos < r.wend
  <2>1. Part(Over(v.buf, at, s), at, at + Len(s)) = s
    BY <1>1, <1>11, <1>12, OverPart
  <2>2. Rest(r) = s
    BY <1>12, <1>13, <2>1, Zenon DEF Rest
  <2>3. r.wpos < r.wend
    BY <1>1, <1>3, <1>12, <1>13, SMTT(30)
  <2> QED
    BY <2>2, <2>3
<1>15. InFront(r)
  <2>1. r.wpos <= r.wend /\ r.wend <= r.wfill /\ r.wfill <= wbufsize /\ 8 <= r.wend
    BY <1>1, <1>3, <1>12, <1>13, SMTT(30)
  <2> QED
    BY <1>13, <2>1, Sizes DEF InFront
<1>16. \A p \in Addr : p >= v.wend + 3 + n => r.buf[p] = v.buf[p]
  <2>1. \A p \in Addr : p >= at + Len(s) => Over(v.buf, at, s)[p] = v.buf[p]
    <3>1. /\ v.buf \in [Addr -> Bytes] /\ s \in Seq(Bytes) /\ at \in Nat
          /\ at + Len(s) <= wbufsize
      BY <1>1, <1>11, <1>12
    <3> QED
      BY <3>1, OverShape
  <2> QED
    BY <1>12, <1>13, <2>1
<1> DEFINE q == [i \in id + 1 .. N + 1 |-> pos[i]]
<1>17. \A i \in id + 1 .. N + 1 : i \in id .. N + 1 /\ q[i] = pos[i] /\ pos[i] \in Nat
  <2>1. \A i \in id + 1 .. N + 1 : i \in id .. N + 1
    BY <1>3
  <2> QED
    BY <1>5, <2>1
<1>18. q \in [id + 1 .. N + 1 -> Nat]
  BY <1>17
<1> HIDE DEF q
<1>19. id + 1 \in id + 1 .. N + 1 /\ N + 1 \in id + 1 .. N + 1
  BY <1>2, <1>3
<1>20. q[id + 1] = r.wend /\ q[N + 1] = r.wfill
  BY <1>5, <1>7, <1>13, <1>17, <1>19
<1>21. \A i, j \in id + 1 .. N + 1 : i <= j => q[i] <= q[j]
  BY <1>5, <1>17
<1>22. ASSUME NEW i \in id + 1 .. N
       PROVE  /\ q[i + 1] = q[i] + 3 + fs[i] /\ r.wend <= q[i] /\ q[i + 1] <= r.wfill
              /\ \A k \in 1 .. 3 : r.buf[q[i] + k - 1] = Byte(i, "intra", k)
              /\ \A k \in 1 .. fs[i] : r.buf[q[i] + 2 + k] = Byte(i, "data", k)
  <2>1. /\ i \in id .. N /\ i \in id + 1 .. N + 1 /\ i + 1 \in id + 1 .. N + 1 /\ id + 1 <= i /\ i + 1 <= N + 1
        /\ i \in 1 .. N
    BY <1>2, <1>3
  <2> DEFINE x == pos[i]
             m == fs[i]
  <2>2. /\ pos[i + 1] = x + 3 + m
        /\ \A k \in 1 .. 3 : v.buf[x + k - 1] = Byte(i, "intra", k)
        /\ \A k \in 1 .. m : v.buf[x + 2 + k] = Byte(i, "data", k)
    BY <1>4, <2>1 DEF Waits, id, N
  <2>3. q[id + 1] <= q[i] /\ q[i + 1] <= q[N + 1] /\ q[i] = x /\ q[i + 1] = x + 3 + m /\ x \in Nat
    BY <1>17, <1>19, <1>21, <2>1, <2>2
  <2>4. m \in Nat
    BY <1>2, <2>1 DEF N
  <2>5. r.wend <= x /\ x + 3 + m <= r.wfill
    BY <1>20, <2>3
  <2> HIDE DEF x, m
  <2>6. v.wend + 3 + n <= x /\ x + 3 + m <= wbufsize
    <3>1. x + 3 + m <= v.wfill
      BY <1>13, <2>5
    <3> QED
      BY <1>1, <1>13, <2>3, <2>4, <2>5, <3>1, Sizes
  <2>7. \A k \in 1 .. 3 : r.buf[x + k - 1] = Byte(i, "intra", k)
    <3> TAKE k \in 1 .. 3
    <3>1. x + k - 1 \in Addr /\ x + k - 1 >= v.wend + 3 + n
      BY <1>12, <2>3, <2>4, <2>6, Sizes, SMTT(30) DEF Addr
    <3> QED
      BY <1>16, <2>2, <3>1
  <2>8. \A k \in 1 .. m : r.buf[x + 2 + k] = Byte(i, "data", k)
    <3> TAKE k \in 1 .. m
    <3>1. x + 2 + k \in Addr /\ x + 2 + k >= v.wend + 3 + n
      BY <1>12, <2>3, <2>4, <2>6, Sizes, SMTT(30) DEF Addr
    <3> QED
      BY <1>16, <2>2, <3>1
  <2> QED
    BY <2>3, <2>5, <2>7, <2>8 DEF m
<1>23. Waits(r, fs, id, q)
  BY <1>18, <1>20, <1>21, <1>22 DEF Waits, N
<1>24. Ready(r, fs, id)
  <2>1. id \in 0 .. Len(fs)
    BY <1>3 DEF N
  <2> QED
    BY <1>2, <1>15, <1>23, <2>1 DEF Ready
<1> QED
  BY <1>3, <1>14, <1>24 DEF r, s, id, N

(* A frame is put into a buffer that had room for it. *)
LEMMA FilledReady ==
  ASSUME NEW v, NEW c, Ready(v, frames, c),
         NEW asked \in Nat, NEW n \in Nat, Accepts(v, asked), n <= bufsize(Granted(Emptied(v), asked))
  PROVE  /\ Ready(Filled(v, asked, n), Append(frames, n), c) /\ Rest(Filled(v, asked, n)) = Rest(v)
         /\ v.wpos = v.wend <=> Filled(v, asked, n).wpos = Filled(v, asked, n).wend
<1> DEFINE e == Emptied(v)
           g == Granted(e, asked)
<1>1. Ready(e, frames, c) /\ Rest(e) = Rest(v) /\ (v.wpos = v.wend <=> e.wpos = e.wend)
  BY EmptiedReady
<1>2. ~Refused(e, asked) /\ Filled(v, asked, n) = Queued(g, Len(frames) + 1, n)
  BY DEF Accepts, Filled
<1> HIDE DEF e
<1>3. Ready(g, frames, c) /\ Rest(g) = Rest(e) /\ (e.wpos = e.wend <=> g.wpos = g.wend)
  BY <1>1, <1>2, GrantedReady
<1>4. n <= bufsize(g)
  BY DEF e
<1> HIDE DEF g
<1> DEFINE r == Queued(g, Len(frames) + 1, n)
<1>5. Ready(r, Append(frames, n), c) /\ Rest(r) = Rest(g) /\ r.wpos = g.wpos /\ r.wend = g.wend
  BY <1>3, <1>4, CommittedReady
<1> HIDE DEF r
<1>6. Filled(v, asked, n) = r
  BY <1>2 DEF r
<1> QED
  BY <1>1, <1>3, <1>5, <1>6
-----------------------------------------------------------------------------
(* The frames on the wire *)

(* s is what the frames fs look like on the wire, one after the other. *)
Streams(s, fs) == \A i \in 0 .. Len(fs) : s[i] = IF i = 0 THEN <<>> ELSE s[i - 1] \o Wired(fs, i)

LEMMA StreamIs == frames \in Seq(Nat) => Streams(Stream, frames)
<1> SUFFICES ASSUME frames \in Seq(Nat) PROVE Streams(Stream, frames)
  OBVIOUS
<1>1. Len(frames) \in Nat
  OBVIOUS
<1>2. \A i \in 0 .. Len(frames) : i \in Nat
  BY <1>1
<1>3. \A i \in Nat : Stream[i] = IF i = 0 THEN <<>> ELSE Stream[i - 1] \o Encoded(i)
  <2> DEFINE S == [i \in Nat |-> IF i = 0 THEN <<>> ELSE Stream[i - 1] \o Encoded(i)]
  <2>1. \A i \in Nat : S[i] = IF i = 0 THEN <<>> ELSE Stream[i - 1] \o Encoded(i)
    OBVIOUS
  <2> HIDE DEF S
  <2>2. Stream = S
    BY StreamJoins DEF S
  <2> QED
    BY <2>1, <2>2
<1>4. \A i \in Nat : Encoded(i) = Wired(frames, i)
  BY Zenon DEF Encoded, Wired
<1> QED
  BY <1>2, <1>3, <1>4 DEF Streams

LEMMA StreamStep ==
  ASSUME NEW s, NEW fs \in Seq(Nat), Streams(s, fs), NEW c \in 0 .. Len(fs)
  PROVE  /\ s[0] = <<>>
         /\ c + 1 \in 1 .. Len(fs) => s[c + 1] = s[c] \o Wired(fs, c + 1)
<1>1. Len(fs) \in Nat /\ 0 \in 0 .. Len(fs)
  OBVIOUS
<1>2. s[0] = <<>>
  BY <1>1 DEF Streams
<1>3. ASSUME c + 1 \in 1 .. Len(fs) PROVE s[c + 1] = s[c] \o Wired(fs, c + 1)
  <2> DEFINE d == c + 1
  <2>1. d \in 0 .. Len(fs) /\ d # 0 /\ d - 1 = c
    BY <1>1, <1>3
  <2> HIDE DEF d
  <2>2. s[d] = s[d - 1] \o Wired(fs, d)
    BY <2>1 DEF Streams
  <2> QED
    BY <2>1, <2>2 DEF d
<1> QED
  BY <1>2, <1>3

LEMMA StreamTypes ==
  ASSUME NEW s, NEW fs \in Seq(Nat), Streams(s, fs)
  PROVE  \A c \in 0 .. Len(fs) : s[c] \in Seq(Bytes)
<1> DEFINE T == {c \in 0 .. Len(fs) : s[c] \notin Seq(Bytes)}
<1> SUFFICES ASSUME T # {} PROVE FALSE
  OBVIOUS
<1>0. Len(fs) \in Nat /\ 0 \in 0 .. Len(fs)
  OBVIOUS
<1>1. PICK c \in T : \A y \in T : c <= y
  <2>1. T \subseteq Nat
    OBVIOUS
  <2> HIDE DEF T
  <2> QED
    BY <2>1, Smallest
<1>2. c # 0
  BY <1>0, <1>1, StreamStep, EmptySeq
<1>3. c \in 1 .. Len(fs) /\ c - 1 \in 0 .. Len(fs) /\ c - 1 \notin T /\ c - 1 + 1 = c
  BY <1>0, <1>1, <1>2
<1>4. s[c - 1] \in Seq(Bytes)
  BY <1>3
<1>5. s[c] = s[c - 1] \o Wired(fs, c) /\ Wired(fs, c) \in Seq(Bytes)
  <2> DEFINE d == c - 1
  <2>1. d \in 0 .. Len(fs) /\ d + 1 = c
    BY <1>3
  <2> HIDE DEF d
  <2>2. s[d + 1] = s[d] \o Wired(fs, d + 1)
    BY <1>3, <2>1, StreamStep
  <2> QED
    BY <1>3, <2>1, <2>2, WiredShape DEF d
<1>6. s[c] \in Seq(Bytes)
  BY <1>4, <1>5, TwoParts
<1> QED
  BY <1>1, <1>6

(* Frames that are added change nothing of what went before them. *)
LEMMA StreamsAgree ==
  ASSUME NEW s, NEW fs \in Seq(Nat), Streams(s, fs), NEW t, NEW gs \in Seq(Nat), Streams(t, gs),
         \/ gs = fs
         \/ \E n \in Nat : gs = Append(fs, n)
  PROVE  \A c \in 0 .. Len(fs) : t[c] = s[c]
<1> DEFINE N == Len(fs)
           d == [i \in 1 .. N |-> Wired(fs, i)]
           e == [i \in 1 .. N |-> Wired(gs, i)]
<1>1. N \in Nat /\ N <= Len(gs) /\ Len(gs) \in Nat /\ \A i \in 1 .. N : gs[i] = fs[i]
  BY SMTT(30)
<1>2. \A i \in 1 .. N : d[i] = e[i]
  BY <1>1 DEF Wired
<1>3. Joined(s, d, N)
  <2>1. \A i \in 0 .. N : i # 0 => i \in 1 .. N
    BY <1>1
  <2>2. \A i \in 1 .. N : d[i] = Wired(fs, i)
    OBVIOUS
  <2> HIDE DEF d
  <2> QED
    BY <2>1, <2>2 DEF Streams, Joined
<1>4. Joined(t, e, N)
  <2>1. \A i \in 0 .. N : i \in 0 .. Len(gs) /\ (i # 0 => i \in 1 .. N)
    BY <1>1
  <2>2. \A i \in 1 .. N : e[i] = Wired(gs, i)
    OBVIOUS
  <2> HIDE DEF e, N
  <2> QED
    BY <2>1, <2>2 DEF Streams, Joined
<1> HIDE DEF N, d, e
<1>5. \A i \in 0 .. N : s[i] = t[i]
  BY <1>1, <1>2, <1>3, <1>4, JoinsAgree
<1> QED
  BY <1>5 DEF N

LEMMA CloseShape == CloseFrame \in Seq(Bytes) /\ Len(CloseFrame) = 8
BY ByteTypes DEF CloseFrame

LEMMA PrefixOf ==
  ASSUME NEW x \in Seq(Bytes), NEW y \in Seq(Bytes), NEW z \in Seq(Bytes)
  PROVE  IsPrefix(x, (x \o y) \o z)
<1> DEFINE t == (x \o y) \o z
           n == Len(x)
<1>1. x \o y \in Seq(Bytes) /\ n \in Nat /\ Len(x \o y) \in Nat /\ n <= Len(x \o y) /\ \A k \in 1 .. n : (x \o y)[k] = x[k]
  BY TwoParts
<1>2. t \in Seq(Bytes) /\ Len(t) \in Nat /\ Len(x \o y) <= Len(t) /\ \A k \in 1 .. Len(x \o y) : t[k] = (x \o y)[k]
  BY <1>1, TwoParts
<1> HIDE DEF t
<1>3. n <= Len(t) /\ \A k \in 1 .. n : t[k] = x[k]
  BY <1>1, <1>2, SMTT(30)
<1>4. SubSeq(x, 1, n) = SubSeq(t, 1, n)
  BY <1>1, <1>2, <1>3 DEF SubSeq
<1> QED
  BY <1>3, <1>4 DEF IsPrefix, t

LEMMA Regrouped ==
  ASSUME NEW x \in Seq(Bytes), NEW y \in Seq(Bytes), NEW z \in Seq(Bytes)
  PROVE  (x \o y) \o z = x \o (y \o z)
BY ConcatAssociative

(* The buffer after some of its bytes are gone *)
LEMMA GoneTypes ==
  ASSUME NEW v \in Buffer, NEW k \in Nat
  PROVE  LET r == [v EXCEPT !.wpos = @ + k]
         IN  r \in Buffer /\ r.buf = v.buf /\ r.wpos = v.wpos + k /\ r.wend = v.wend /\ r.wfill = v.wfill
<1> DEFINE B == [Addr -> Bytes]
           i == v.wpos + k
           r == [v EXCEPT !.wpos = i]
<1>1. v \in [buf : B, wpos : Nat, wend : Nat, wfill : Nat]
  BY DEF Buffer
<1> HIDE DEF B
<1>2. i \in Nat
  BY <1>1
<1> HIDE DEF i
<1>3. r \in [buf : B, wpos : Nat, wend : Nat, wfill : Nat] /\ r.buf = v.buf
  BY <1>1, <1>2
<1>4. r.wpos = i /\ r.wend = v.wend /\ r.wfill = v.wfill
  BY <1>1, <1>2
<1>5. r = [v EXCEPT !.wpos = @ + k]
  BY DEF i
<1> HIDE DEF r
<1> QED
  BY <1>3, <1>4, <1>5 DEF Buffer, B, i

(* What was to be sent is what has been taken and what is left. *)
LEMMA WrittenRest ==
  ASSUME NEW k, Written(k), w \in Buffer, w.wpos <= w.wend, w.wend <= wbufsize, wire \in Seq(Bytes),
         NEW v, v = [w EXCEPT !.wpos = @ + k]
  PROVE  /\ v \in Buffer /\ v.buf = w.buf /\ v.wpos = w.wpos + k /\ v.wend = w.wend /\ v.wfill = w.wfill
         /\ v.wpos <= v.wend /\ k \in Nat /\ wire' \in Seq(Bytes) /\ wire' \o Rest(v) = wire \o Rest(w)
         /\ Rest(v) \in Seq(Bytes) /\ (v.wpos = v.wend => Rest(v) = <<>>)
<1>1. w.buf \in [Addr -> Bytes] /\ w.wpos \in Nat /\ w.wend \in Nat /\ w.wfill \in Nat
  BY DEF Buffer
<1>2. k \in 1 .. w.wend - w.wpos /\ k \in Nat
  BY <1>1 DEF Written
<1>3. /\ v \in Buffer /\ v.buf = w.buf /\ v.wpos = w.wpos + k /\ v.wend = w.wend /\ v.wfill = w.wfill
  BY <1>2, GoneTypes
<1>4. w.wpos + k <= w.wend /\ w.wpos <= w.wpos + k /\ w.wpos + k \in Nat /\ w.wpos + k <= wbufsize /\ k >= 1
  BY <1>1, <1>2, Sizes, SMTT(30)
<1> DEFINE m == w.wpos + k
           x == Part(w.buf, w.wpos, m)
           y == Part(w.buf, m, w.wend)
<1>5. wire' = wire \o x
  BY <1>1, <1>2, <1>4, WrittenPart DEF Written
<1>6. m \in Nat /\ w.wpos <= m /\ m <= w.wend /\ m <= wbufsize
  BY <1>4
<1> HIDE DEF m
<1>7. x \in Seq(Bytes) /\ y \in Seq(Bytes) /\ Len(y) = w.wend - m /\ x \o y = Rest(w)
  <2>1. x \in Seq(Bytes)
    BY <1>1, <1>6, PartShape, Zenon
  <2>2. y \in Seq(Bytes) /\ Len(y) = w.wend - m
    BY <1>1, <1>6, PartShape
  <2>3. x \o y = Rest(w)
    BY <1>1, <1>6, PartSplit DEF Rest
  <2> QED
    BY <2>1, <2>2, <2>3, Zenon
<1>8. y = Rest(v)
  BY <1>3 DEF Rest, m
<1> HIDE DEF x, y
<1>9. (wire \o x) \o y = wire \o (x \o y) /\ wire \o x \in Seq(Bytes)
  <2>1. (wire \o x) \o y = wire \o (x \o y)
    BY <1>7, Regrouped
  <2>2. wire \o x \in Seq(Bytes)
    BY <1>7
  <2> QED
    BY <2>1, <2>2
<1>10. v.wpos <= v.wend
  BY <1>3, <1>4
<1>11. ASSUME v.wpos = v.wend PROVE Rest(v) = <<>>
  <2>1. v.wend - v.wpos = 0
    BY <1>1, <1>3, <1>11
  <2> QED
    BY <2>1 DEF Rest, Part
<1> QED
  BY <1>2, <1>3, <1>5, <1>7, <1>8, <1>9, <1>10, <1>11
-----------------------------------------------------------------------------
(* The inductive invariant *)

(* Frames added leave the stream up to them as it was. *)
LEMMA StreamNext ==
  ASSUME frames \in Seq(Nat), frames' = frames \/ \E n \in Nat : frames' = Append(frames, n)
  PROVE  /\ frames' \in Seq(Nat) /\ Len(frames) \in 0 .. Len(frames') /\ Len(frames) \in Nat
         /\ \A c \in 0 .. Len(frames) : /\ c \in 0 .. Len(frames') /\ Stream'[c] = Stream[c]
                                        /\ Stream[c] \in Seq(Bytes)
         /\ Streams(Stream', frames')
<1>1. (frames \in Seq(Nat) => Streams(Stream, frames))'
  BY StreamIs, PTL
<1>2. frames' \in Seq(Nat) /\ Len(frames) \in Nat /\ Len(frames') \in Nat /\ Len(frames) <= Len(frames')
  <2>1. CASE frames' = frames
    BY <2>1
  <2>2. ASSUME NEW n \in Nat, frames' = Append(frames, n)
        PROVE  frames' \in Seq(Nat) /\ Len(frames) \in Nat /\ Len(frames') = Len(frames) + 1
    BY <2>2
  <2> QED
    BY <2>1, <2>2
<1>3. Streams(Stream, frames) /\ Streams(Stream', frames')
  BY <1>1, <1>2, StreamIs
<1> DEFINE s == Stream
           t == Stream'
           fs == frames
           gs == frames'
<1>4. /\ fs \in Seq(Nat) /\ gs \in Seq(Nat) /\ Streams(s, fs) /\ Streams(t, gs)
      /\ gs = fs \/ \E n \in Nat : gs = Append(fs, n)
  BY <1>2, <1>3
<1> HIDE DEF s, t, fs, gs
<1>5. \A c \in 0 .. Len(fs) : t[c] = s[c]
  BY <1>4, StreamsAgree
<1>6. \A c \in 0 .. Len(fs) : s[c] \in Seq(Bytes)
  BY <1>4, StreamTypes
<1> QED
  BY <1>2, <1>3, <1>5, <1>6 DEF s, t, fs, gs

Sending == {"CONNECTED"} \cup Draining
SendingClose == {"SENDCLOSE", "ECHOCLOSE"}
Told == {"CONNECTED", "CLOSED", "freed"}

TypeRight ==
  /\ state \in {"CLOSED", "FREED"} \cup Connecting \cup Open
  /\ w \in Buffer /\ wrfn \in {"none", "connected", "closing"} /\ closedEv \in BOOLEAN
  /\ frames \in Seq(Nat) /\ wire \in Seq(Bytes) /\ events \in Seq(Told) /\ overrun \in BOOLEAN

Ends(e) == {<<e>>, <<"CONNECTED", e>>}

TellsRight ==
  /\ events \in {<<>>, <<"CONNECTED">>} \cup Ends("CLOSED") \cup Ends("freed")
  /\ state \in Connecting => events = <<>> /\ ~closedEv
  /\ state \in Open => events = <<"CONNECTED">> /\ ~closedEv
  /\ closedEv => state = "CLOSED" /\ events \in {<<>>, <<"CONNECTED">>}

OnWay(c) == Ready(w, frames, c) /\ wire \o Rest(w) = Stream[c]
ClosesAfter(c) == wire \o Rest(w) = Stream[c] \o CloseFrame
Reached(c) == IsPrefix(wire, Stream[c] \o CloseFrame)

DataRight ==
  /\ \E c \in 0 .. Len(frames) : Reached(c)
  /\ ~overrun /\ state \in Sending => \E c \in 0 .. Len(frames) : OnWay(c)
  /\ ~overrun /\ state \in SendingClose =>
       w.wpos <= w.wend /\ w.wend <= wbufsize /\ \E c \in 0 .. Len(frames) : ClosesAfter(c)
  /\ events = <<>> => frames = <<>> /\ wire = <<>>

WatchRight ==
  /\ wrfn = "connected" => state = "CONNECTED"
  /\ ~overrun /\ state = "CONNECTED" => wrfn = "connected" \/ (wrfn = "none" /\ w.wpos = w.wfill)

WsInv == TypeRight /\ TellsRight /\ DataRight /\ WatchRight

LEMMA States ==
  /\ Sending \subseteq Open /\ SendingClose \subseteq Open /\ "CONNECTED" \in Sending
  /\ Draining \subseteq Sending /\ Draining \cap SendingClose = {} /\ "CONNECTED" \notin SendingClose
  /\ {"CLOSED", "FREED"} \cap Open = {} /\ {"CLOSED", "FREED"} \cap Connecting = {} /\ Connecting \cap Open = {}
BY DEF Sending, SendingClose, Open, Closing, Draining, Connecting

LEMMA Initially == ConnInit => WsInv
<1> SUFFICES ASSUME ConnInit PROVE WsInv
  OBVIOUS
<1>1. w \in Buffer
  <2>1. [p \in 0 .. wbufsize - 1 |-> Junk] \in [Addr -> Bytes]
    BY ByteTypes DEF Addr
  <2> QED
    BY <2>1 DEF ConnInit, Buffer
<1>2. TypeRight
  <2>1. frames \in Seq(Nat) /\ wire \in Seq(Bytes) /\ events \in Seq(Told)
    BY EmptySeq DEF ConnInit
  <2> QED
    BY <1>1, <2>1 DEF TypeRight, ConnInit
<1>3. TellsRight /\ WatchRight
  BY DEF TellsRight, WatchRight, ConnInit, Open, Closing, Draining, Connecting
<1>4. Reached(0)
  <2>1. Stream[0] = <<>>
    <3>1. frames \in Seq(Nat) /\ 0 \in 0 .. Len(frames)
      BY DEF ConnInit
    <3> QED
      BY <3>1, StreamIs, StreamStep
  <2>2. wire = <<>> /\ <<>> \in Seq(Bytes)
    BY DEF ConnInit
  <2> DEFINE e == <<>>
  <2>3. e \in Seq(Bytes) /\ e \o e = e
    BY ConcatEmptySeq, EmptySeq
  <2> HIDE DEF e
  <2>4. IsPrefix(e, (e \o e) \o CloseFrame)
    BY <2>3, CloseShape, PrefixOf
  <2> QED
    BY <2>1, <2>2, <2>3, <2>4 DEF Reached, e
<1>5. DataRight
  <2>1. 0 \in 0 .. Len(frames)
    BY DEF ConnInit
  <2> QED
    BY <1>4, <2>1 DEF DataRight, ConnInit, Sending, SendingClose, Draining
<1> QED
  BY <1>2, <1>3, <1>5 DEF WsInv

(* What was so for the data stays so while they stay. *)
LEMMA DataKept ==
  ASSUME TypeRight, DataRight, UNCHANGED <<w, frames, wire, overrun>>,
         state' \in Sending => state \in Sending, state' \in SendingClose => state \in SendingClose,
         events' = <<>> => events = <<>>
  PROVE  DataRight'
<1>1. \A c \in 0 .. Len(frames) : c \in 0 .. Len(frames') /\ Stream'[c] = Stream[c]
  BY StreamNext DEF TypeRight
<1>2. \A c \in 0 .. Len(frames) : /\ Reached(c) => Reached(c)'
                                  /\ OnWay(c) => OnWay(c)'
                                  /\ ClosesAfter(c) => ClosesAfter(c)'
  BY <1>1 DEF Reached, OnWay, ClosesAfter
<1>3. (\E c \in 0 .. Len(frames) : Reached(c))'
  BY <1>1, <1>2 DEF DataRight
<1>4. (~overrun /\ state \in Sending => \E c \in 0 .. Len(frames) : OnWay(c))'
  BY <1>1, <1>2 DEF DataRight
<1>5. (~overrun /\ state \in SendingClose =>
         w.wpos <= w.wend /\ w.wend <= wbufsize /\ \E c \in 0 .. Len(frames) : ClosesAfter(c))'
  BY <1>1, <1>2 DEF DataRight
<1>6. (events = <<>> => frames = <<>> /\ wire = <<>>)'
  BY DEF DataRight
<1> QED
  BY <1>3, <1>4, <1>5, <1>6 DEF DataRight
-----------------------------------------------------------------------------
(* Its steps *)

LEMMA TwoLong ==
  ASSUME NEW a, NEW b
  PROVE  Append(<<a>>, b) = <<a, b>>
<1> DEFINE S == {a, b}
           x == Append(<<a>>, b)
           y == <<a, b>>
<1>1. x \in Seq(S) /\ Len(x) = 2 /\ x[1] = a /\ x[2] = b
  <2>1. <<a>> \in Seq(S) /\ Len(<<a>>) = 1 /\ b \in S
    OBVIOUS
  <2>2. x \in Seq(S) /\ Len(x) = 2 /\ x[1] = <<a>>[1] /\ x[2] = b
    BY <2>1
  <2> QED
    BY <2>2
<1>2. y \in Seq(S) /\ Len(y) = 2 /\ y[1] = a /\ y[2] = b
  OBVIOUS
<1> HIDE DEF x, y, S
<1>3. \A i \in 1 .. Len(x) : x[i] = y[i]
  BY <1>1, <1>2
<1> QED
  BY <1>1, <1>2, <1>3, SeqEqual DEF x, y

LEMMA Endings ==
  ASSUME events \in {<<>>, <<"CONNECTED">>}, NEW e \in Told, events' = Append(events, e), e # "CONNECTED"
  PROVE  events' \in Ends(e) /\ events' \in Seq(Told) /\ events' # <<>>
<1>1. CASE events = <<>>
  <2>1. events' = <<e>>
    BY <1>1
  <2> QED
    BY <2>1 DEF Ends
<1>2. CASE events = <<"CONNECTED">>
  <2>1. events' = <<"CONNECTED", e>>
    BY <1>2, TwoLong, Zenon
  <2> QED
    BY <2>1 DEF Ends, Told
<1> QED
  BY <1>1, <1>2

LEMMA QuietSteps ==
  ASSUME WsInv, Connect \/ Handshake \/ IoError \/ ClosedEvent \/ Free \/ Close \/ PeerClose
  PROVE  WsInv'
<1> USE DEF WsInv
<1>1. CASE Connect
  <2>1. TypeRight' /\ TellsRight' /\ WatchRight'
    <3>1. /\ state' \in {"CLOSED", "TLS_HANDSHAKE"} /\ state' \notin Open /\ state' # "CONNECTED" /\ state # "CONNECTED"
          /\ state' \in Connecting => state' = "TLS_HANDSHAKE"
      BY <1>1 DEF Connect, Connecting, Open, Closing, Draining
    <3>2. TypeRight'
      BY <1>1 DEF Connect, TypeRight, Connecting
    <3>3. TellsRight'
      BY <1>1, <3>1 DEF Connect, TellsRight
    <3>4. WatchRight'
      BY <1>1, <3>1 DEF Connect, WatchRight
    <3> QED
      BY <3>2, <3>3, <3>4
  <2>2. DataRight'
    <3>1. /\ UNCHANGED <<w, frames, wire, overrun, events>>
          /\ state' \in {"CLOSED", "TLS_HANDSHAKE"}
      BY <1>1 DEF Connect
    <3>2. state' \notin Sending /\ state' \notin SendingClose
      BY <3>1 DEF Sending, SendingClose, Draining
    <3> QED
      BY <3>1, <3>2, DataKept
  <2> QED
    BY <2>1, <2>2
<1>2. CASE Handshake
  <2>1. TypeRight' /\ TellsRight' /\ WatchRight'
    <3>1. state' \in Connecting /\ state' \notin Open /\ state \in Connecting /\ state' # "CONNECTED" /\ state # "CONNECTED"
      BY <1>2 DEF Handshake, Connecting, Open, Closing, Draining
    <3> QED
      BY <1>2, <3>1, States DEF Handshake, TypeRight, TellsRight, WatchRight
  <2>2. DataRight'
    <3>1. UNCHANGED <<w, frames, wire, overrun, events>> /\ state' \in Connecting
      BY <1>2 DEF Handshake, Connecting
    <3> QED
      BY <3>1, States, DataKept
  <2> QED
    BY <2>1, <2>2
<1>3. ASSUME Shutdown, state \in Connecting \cup Open PROVE WsInv'
  <2>1. TypeRight' /\ WatchRight' /\ TellsRight'
    <3>1. state' = "CLOSED" /\ state' \notin Connecting /\ state' \notin Open
      BY <1>3, States DEF Shutdown
    <3> QED
      BY <1>3, <3>1, States DEF Shutdown, TypeRight, TellsRight, WatchRight
  <2>2. DataRight'
    <3>1. UNCHANGED <<w, frames, wire, overrun, events>> /\ state' = "CLOSED"
      BY <1>3 DEF Shutdown
    <3> QED
      BY <3>1, States, DataKept
  <2> QED
    BY <2>1, <2>2
<1>4. CASE IoError
  BY <1>3, <1>4 DEF IoError
<1>5. CASE ClosedEvent
  <2>1. events' \in Ends("CLOSED") /\ events' \in Seq(Told) /\ events' # <<>>
    <3>1. "CLOSED" \in Told
      BY DEF Told
    <3> QED
      BY <1>5, <3>1, Endings DEF ClosedEvent, TellsRight
  <2>2. TypeRight' /\ WatchRight' /\ TellsRight'
    BY <1>5, <2>1, States DEF ClosedEvent, TypeRight, TellsRight, WatchRight
  <2>3. DataRight'
    <3>1. UNCHANGED <<w, frames, wire, overrun, state>>
      BY <1>5 DEF ClosedEvent
    <3> QED
      BY <2>1, <3>1, DataKept
  <2> QED
    BY <2>2, <2>3
<1>6. CASE Free
  <2>1. events' \in Ends("freed") /\ events' \in Seq(Told) /\ events' # <<>>
    <3>1. "freed" \in Told /\ events \in {<<>>, <<"CONNECTED">>}
      BY <1>6 DEF Free, TellsRight, Told
    <3> QED
      BY <1>6, <3>1, Endings DEF Free
  <2>2. TypeRight' /\ WatchRight' /\ TellsRight'
    <3>1. state' = "FREED" /\ ~closedEv' /\ wrfn' = "none"
      BY <1>6 DEF Free
    <3>2. TypeRight' /\ WatchRight'
      BY <1>6, <2>1, <3>1 DEF Free, TypeRight, WatchRight
    <3>3. state' \notin Connecting /\ state' \notin Open
      BY <3>1, States
    <3> QED
      BY <2>1, <3>1, <3>2, <3>3 DEF TellsRight
  <2>3. DataRight'
    <3>1. UNCHANGED <<w, frames, wire, overrun>> /\ state' = "FREED"
      BY <1>6 DEF Free
    <3> QED
      BY <2>1, <3>1, States, DataKept
  <2> QED
    BY <2>2, <2>3
<1>7. ASSUME state = "CONNECTED", state' \in Draining, wrfn' = "closing",
             UNCHANGED <<w, closedEv, frames, wire, events, overrun>>
      PROVE  WsInv'
  <2>1. TypeRight' /\ WatchRight' /\ TellsRight'
    <3>1. state' \in Open /\ state \in Open /\ state' # "CONNECTED"
      BY <1>7, States DEF Draining
    <3>2. TypeRight'
      BY <1>7, <3>1 DEF TypeRight
    <3>3. TellsRight'
      BY <1>7, <3>1, States DEF TellsRight
    <3> QED
      BY <1>7, <3>1, <3>2, <3>3 DEF WatchRight
  <2>2. DataRight'
    <3>1. state \in Sending /\ state' \notin SendingClose
      BY <1>7, States
    <3> QED
      BY <1>7, <3>1, DataKept
  <2> QED
    BY <2>1, <2>2
<1>8. CASE Close
  BY <1>3, <1>7, <1>8 DEF Close, Draining
<1>9. CASE PeerClose
  BY <1>3, <1>7, <1>9 DEF PeerClose, Draining, Open
<1> QED
  BY <1>1, <1>2, <1>4, <1>5, <1>6, <1>8, <1>9

LEMMA UpgradedStep == WsInv /\ Upgraded => WsInv'
<1> SUFFICES ASSUME WsInv, Upgraded PROVE WsInv'
  OBVIOUS
<1> USE DEF WsInv
<1>1. state \in Connecting /\ events = <<>> /\ frames = <<>> /\ wire = <<>> /\ ~closedEv
  BY DEF Upgraded, Connecting, TellsRight, DataRight
<1>2. w' \in Buffer /\ w'.wpos = 8 /\ w'.wend = 8 /\ w'.wfill = 8
  <2> DEFINE B == [Addr -> Bytes]
  <2>1. w \in [buf : B, wpos : Nat, wend : Nat, wfill : Nat]
    BY DEF TypeRight, Buffer
  <2> HIDE DEF B
  <2>2. w' = [w EXCEPT !.wpos = 8, !.wend = 8, !.wfill = 8]
    BY DEF Upgraded, WSHDR_RESV_W
  <2>3. w' \in [buf : B, wpos : Nat, wend : Nat, wfill : Nat]
    BY <2>1, <2>2
  <2>4. w'.wpos = 8 /\ w'.wend = 8 /\ w'.wfill = 8
    BY <2>1, <2>2
  <2> QED
    BY <2>3, <2>4 DEF Buffer, B
<1>3. events' = <<"CONNECTED">> /\ events' # <<>> /\ events' \in Seq(Told)
  <2>1. events' = <<"CONNECTED">>
    BY <1>1 DEF Upgraded
  <2> QED
    BY <2>1 DEF Told
<1>4. state' = "CONNECTED" /\ state' \in Open /\ state' \notin Connecting /\ state' \notin SendingClose
  BY States DEF Upgraded
<1>5. TypeRight' /\ TellsRight' /\ WatchRight'
  <2>1. TypeRight'
    BY <1>2, <1>3, <1>4 DEF TypeRight, Upgraded
  <2>2. TellsRight'
    BY <1>1, <1>3, <1>4 DEF TellsRight, Upgraded
  <2>3. WatchRight'
    BY <1>2 DEF WatchRight, Upgraded
  <2> QED
    BY <2>1, <2>2, <2>3
<1>6. Stream'[0] = <<>> /\ Stream[0] = <<>> /\ frames' = <<>> /\ wire' = <<>> /\ Len(frames) = 0
  <2>1. frames' = frames /\ wire' = wire /\ Len(frames) = 0 /\ frames \in Seq(Nat)
    BY <1>1 DEF Upgraded, TypeRight
  <2>2. Streams(Stream, frames) /\ 0 \in 0 .. Len(frames)
    BY <2>1, StreamIs
  <2>3. Stream[0] = <<>>
    BY <2>1, <2>2, StreamStep
  <2> QED
    BY <1>1, <2>1, <2>2, <2>3, StreamNext
<1>7. Ready(w', frames', 0)
  <2>1. InFront(w')
    BY <1>2, Sizes DEF InFront
  <2>2. frames' \in Seq(Nat) /\ Len(frames') = 0
    BY <1>6
  <2>3. Waits(w', frames', 0, [i \in 1 .. 1 |-> 8])
    BY <1>2, <2>2 DEF Waits
  <2> QED
    BY <2>1, <2>2, <2>3 DEF Ready
<1>8. Rest(w') = <<>>
  <2>1. w'.wend - w'.wpos = 0
    BY <1>2
  <2> QED
    BY <2>1 DEF Rest, Part
<1>9. OnWay(0)'
  BY <1>6, <1>7, <1>8 DEF OnWay
<1>10. (\E c \in 0 .. Len(frames) : Reached(c))'
  <2>1. \A c \in 0 .. Len(frames) : Reached(c) => c = 0
    BY <1>6
  <2>2. Reached(0)
    BY <2>1 DEF DataRight
  <2>3. Reached(0)'
    BY <1>1, <1>6, <2>2 DEF Reached
  <2> QED
    BY <1>6, <2>3
<1>11. DataRight'
  <2>1. 0 \in 0 .. Len(frames')
    BY <1>6
  <2> QED
    BY <1>3, <1>4, <1>9, <1>10, <2>1 DEF DataRight
<1> QED
  BY <1>5, <1>11
-----------------------------------------------------------------------------
(* The buffer is idle after Emptied when it was before. *)
LEMMA EmptiedIdle ==
  ASSUME NEW v \in Buffer, v.wpos = v.wfill
  PROVE  Emptied(v).wpos = Emptied(v).wfill /\ Emptied(v).wfill = 8 /\ Emptied(v).wpos = 8
BY Sizes DEF Buffer, Emptied

(* Something is refused: the buffer may have been emptied. *)
LEMMA RefuseStep ==
  ASSUME WsInv, ~overrun, state = "CONNECTED", w' = Emptied(w),
         UNCHANGED <<state, wrfn, closedEv, frames, wire, events, overrun>>
  PROVE  WsInv'
<1> USE DEF WsInv
<1>1. PICK c \in 0 .. Len(frames) : OnWay(c)
  BY States DEF DataRight
<1>2. Ready(w', frames, c) /\ Rest(w') = Rest(w)
  BY <1>1, EmptiedReady DEF OnWay
<1>3. w' \in Buffer
  BY <1>2, InFrontShape DEF Ready
<1>4. \A d \in 0 .. Len(frames) : d \in 0 .. Len(frames') /\ Stream'[d] = Stream[d]
  BY StreamNext DEF TypeRight
<1>5. OnWay(c)'
  BY <1>1, <1>2, <1>4 DEF OnWay
<1>6. TypeRight' /\ TellsRight'
  BY <1>3 DEF TypeRight, TellsRight
<1>7. WatchRight'
  <2>1. w.wpos = w.wfill => w'.wpos = w'.wfill
    BY EmptiedIdle DEF TypeRight
  <2> QED
    BY <2>1 DEF WatchRight
<1>8. DataRight'
  <2>1. \A d \in 0 .. Len(frames) : Reached(d) => Reached(d)'
    BY <1>4 DEF Reached
  <2>2. (\E d \in 0 .. Len(frames) : Reached(d))'
    BY <1>4, <2>1 DEF DataRight
  <2>3. state' \notin SendingClose
    BY States
  <2> QED
    BY <1>4, <1>5, <2>2, <2>3 DEF DataRight
<1> QED
  BY <1>6, <1>7, <1>8

(* A frame is put into the buffer; more than was granted is an overrun.    *)
LEMMA AcceptStep ==
  ASSUME WsInv, ~overrun, state = "CONNECTED", NEW asked \in Nat, NEW n \in Nat, Accepts(w, asked),
         w' = Filled(w, asked, n), frames' = Append(frames, n), wrfn' = "connected",
         UNCHANGED <<state, closedEv, wire, events>>, overrun' \in BOOLEAN,
         ~overrun' => n <= bufsize(Granted(Emptied(w), asked))
  PROVE  WsInv'
<1> USE DEF WsInv
<1>1. PICK c \in 0 .. Len(frames) : OnWay(c)
  BY States DEF DataRight
<1>2. frames \in Seq(Nat) /\ Ready(w, frames, c)
  BY <1>1 DEF OnWay, TypeRight
<1>3. w' \in Buffer
  <2> DEFINE e == Emptied(w)
             g == Granted(e, asked)
             id == Len(frames) + 1
  <2>1. Ready(e, frames, c)
    BY <1>2, EmptiedReady
  <2>2. ~Refused(e, asked) /\ w' = Queued(g, id, n)
    BY DEF Accepts, Filled
  <2> HIDE DEF e
  <2>3. Ready(g, frames, c)
    BY <2>1, <2>2, GrantedReady
  <2>4. g \in Buffer /\ id \in Nat
    BY <1>2, <2>3, InFrontShape DEF Ready
  <2> HIDE DEF g, id
  <2> QED
    BY <2>2, <2>4, CommittedTypes
<1>4. /\ frames' \in Seq(Nat)
      /\ \A d \in 0 .. Len(frames) : d \in 0 .. Len(frames') /\ Stream'[d] = Stream[d]
  BY <1>2, StreamNext
<1>5. TypeRight' /\ TellsRight' /\ WatchRight'
  BY <1>3, <1>4 DEF TypeRight, TellsRight, WatchRight
<1>6. ASSUME ~overrun' PROVE OnWay(c)'
  <2>1. Ready(w', frames', c) /\ Rest(w') = Rest(w)
    BY <1>2, <1>6, FilledReady
  <2> QED
    BY <1>1, <1>4, <2>1 DEF OnWay
<1>7. DataRight'
  <2>1. \A d \in 0 .. Len(frames) : Reached(d) => Reached(d)'
    BY <1>4 DEF Reached
  <2>2. (\E d \in 0 .. Len(frames) : Reached(d))'
    BY <1>4, <2>1 DEF DataRight
  <2>3. state' \notin SendingClose /\ events' # <<>>
    <3>1. events = <<"CONNECTED">>
      BY States DEF TellsRight
    <3> QED
      BY <3>1, States
  <2> QED
    BY <1>4, <1>6, <2>2, <2>3 DEF DataRight
<1> QED
  BY <1>5, <1>7

LEMMA SendSteps == WsInv /\ ~overrun /\ (Send \/ Ping) => WsInv'
<1> SUFFICES ASSUME WsInv, ~overrun, Send \/ Ping PROVE WsInv'
  OBVIOUS
<1>1. CASE Send
  <2>1. PICK asked \in Lengths, n \in Lengths :
          IF Accepts(w, asked)
          THEN /\ n <= bufsize(Granted(Emptied(w), asked))
               /\ w' = Filled(w, asked, n)
               /\ frames' = Append(frames, n) /\ wrfn' = "connected"
          ELSE w' = Emptied(w) /\ UNCHANGED <<frames, wrfn>>
    BY <1>1 DEF Send
  <2>2. state = "CONNECTED" /\ UNCHANGED <<state, closedEv, wire, events, overrun>>
    BY <1>1 DEF Send
  <2>3. asked \in Nat /\ n \in Nat /\ overrun \in BOOLEAN
    BY Sizes DEF WsInv, TypeRight
  <2>4. CASE Accepts(w, asked)
    BY <2>1, <2>2, <2>3, <2>4, AcceptStep
  <2>5. CASE ~Accepts(w, asked)
    BY <2>1, <2>2, <2>5, RefuseStep
  <2> QED
    BY <2>4, <2>5
<1>2. CASE Ping
  <2>1. PICK n \in PingLengths :
          IF Accepts(w, n)
          THEN /\ overrun' = (n > bufsize(Granted(Emptied(w), n)))
               /\ w' = Filled(w, n, n)
               /\ frames' = Append(frames, n) /\ wrfn' = "connected"
          ELSE w' = Emptied(w) /\ UNCHANGED <<frames, wrfn, overrun>>
    BY <1>2 DEF Ping
  <2>2. state = "CONNECTED" /\ UNCHANGED <<state, closedEv, wire, events>>
    BY <1>2 DEF Ping
  <2>3. n \in Nat
    BY Sizes
  <2>4. CASE Accepts(w, n)
    <3>1. overrun' \in BOOLEAN
      BY <2>1, <2>4
    <3>2. ~overrun' => n <= bufsize(Granted(Emptied(w), n))
      <4> DEFINE g == Granted(Emptied(w), n)
      <4>1. bufsize(g) \in Int
        <5>1. PICK c \in 0 .. Len(frames) : OnWay(c)
          BY <2>2, States DEF WsInv, DataRight
        <5>2. Ready(g, frames, c)
          BY <2>3, <2>4, <5>1, EmptiedReady, GrantedReady DEF OnWay, Accepts
        <5>3. g.wfill \in Nat
          BY <5>2, InFrontShape DEF Ready
        <5> QED
          BY <5>3, Sizes DEF bufsize
      <4> HIDE DEF g
      <4>2. overrun' = (n > bufsize(g))
        BY <2>1, <2>4 DEF g
      <4>3. ~(n > bufsize(g)) => n <= bufsize(g)
        BY <2>3, <4>1
      <4> QED
        BY <4>2, <4>3 DEF g
    <3> QED
      BY <2>1, <2>2, <2>3, <2>4, <3>1, <3>2, AcceptStep
  <2>5. CASE ~Accepts(w, n)
    BY <2>1, <2>2, <2>5, RefuseStep
  <2> QED
    BY <2>4, <2>5
<1> QED
  BY <1>1, <1>2
-----------------------------------------------------------------------------
LEMMA GoneReady ==
  ASSUME NEW v, NEW fs, NEW c, Ready(v, fs, c), NEW r \in Buffer, r.buf = v.buf, r.wend = v.wend,
         r.wfill = v.wfill, r.wpos <= r.wend
  PROVE  Ready(r, fs, c)
<1>1. InFront(r)
  BY DEF Ready, InFront
<1>2. PICK pos : Waits(v, fs, c, pos)
  BY DEF Ready
<1>3. Waits(r, fs, c, pos)
  BY <1>2 DEF Waits
<1> QED
  BY <1>1, <1>3 DEF Ready

LEMMA ReachedWhile ==
  ASSUME NEW x \in Seq(Bytes), NEW r \in Seq(Bytes), NEW s, x \o r = s
  PROVE  IsPrefix(x, s \o CloseFrame)
BY PrefixOf, CloseShape

LEMMA ReachedClosing ==
  ASSUME NEW x \in Seq(Bytes), NEW r \in Seq(Bytes), NEW s, x \o r = s \o CloseFrame
  PROVE  IsPrefix(x, s \o CloseFrame)
<1> DEFINE e == <<>>
<1>1. e \in Seq(Bytes) /\ (x \o r) \o e = x \o r
  <2>1. x \o r \in Seq(Bytes)
    BY TwoParts
  <2> QED
    BY <2>1, ConcatEmptySeq, EmptySeq
<1> HIDE DEF e
<1>2. IsPrefix(x, (x \o r) \o e)
  BY <1>1, PrefixOf
<1> QED
  BY <1>1, <1>2

(* What a step that sends keeps when the frames that went are known *)
LEMMA WriteKept ==
  ASSUME WsInv, ~overrun, state = "CONNECTED", UNCHANGED <<state, closedEv, events, overrun>>,
         frames' \in Seq(Nat), wire' \in Seq(Bytes), wrfn' \in {"none", "connected"},
         NEW c \in 0 .. Len(frames'), OnWay(c)',
         wrfn' = "connected" \/ w'.wpos = w'.wfill
  PROVE  WsInv'
<1> USE DEF WsInv
<1>1. w' \in Buffer /\ Rest(w') \in Seq(Bytes)
  <2>1. Ready(w', frames', c)
    BY DEF OnWay
  <2>2. /\ w' \in Buffer /\ w'.buf \in [Addr -> Bytes] /\ w'.wpos \in Nat /\ w'.wend \in Nat
        /\ w'.wpos <= w'.wend /\ w'.wend <= wbufsize /\ w'.wfill \in Nat
    BY <2>1, InFrontShape, Sizes DEF Ready
  <2> QED
    BY <2>2, PartShape DEF Rest
<1>2. TypeRight' /\ TellsRight'
  BY <1>1 DEF TypeRight, TellsRight
<1>3. WatchRight'
  BY DEF WatchRight
<1>4. Reached(c)'
  BY <1>1, ReachedWhile DEF Reached, OnWay
<1>5. state' \notin SendingClose /\ events' # <<>>
  <2>1. events = <<"CONNECTED">>
    BY States DEF TellsRight
  <2> QED
    BY <2>1, States
<1>6. DataRight'
  BY <1>4, <1>5 DEF DataRight
<1> QED
  BY <1>2, <1>3, <1>6

(* The next frame is set up when the one before it is gone.                *)
LEMMA ProceedStep ==
  ASSUME WsInv, ~overrun, state = "CONNECTED", UNCHANGED <<state, closedEv, events, overrun>>,
         frames' \in Seq(Nat), wire' \in Seq(Bytes), Streams(Stream', frames'),
         NEW v, NEW c \in 0 .. Len(frames'), Ready(v, frames', c), v.wpos = v.wend,
         wire' = Stream'[c], Proceed(v, frames')
  PROVE  WsInv'
<1>1. v.wend \in Nat /\ v.wpos \in Nat
  BY InFrontShape DEF Ready
<1>2. CASE v.wend = v.wfill
  <2>1. w' = v /\ wrfn' = "none"
    BY <1>2 DEF Proceed
  <2>2. Rest(w') = <<>>
    <3>1. v.wend - v.wpos = 0
      BY <1>1
    <3> QED
      BY <2>1, <3>1 DEF Rest, Part
  <2>3. wire' \o <<>> = wire'
    BY ConcatEmptySeq
  <2>4. OnWay(c)'
    BY <2>1, <2>2, <2>3 DEF OnWay
  <2>5. w'.wpos = w'.wfill
    BY <1>2, <2>1
  <2> QED
    BY <2>1, <2>4, <2>5, WriteKept
<1>3. CASE v.wend # v.wfill
  <2>1. w' = NextFrame(v, frames') /\ wrfn' = "connected"
    BY <1>3 DEF Proceed
  <2>2. /\ c + 1 \in 1 .. Len(frames') /\ Ready(w', frames', c + 1) /\ Rest(w') = Wired(frames', c + 1)
    BY <1>3, <2>1, NextReady
  <2>3. Stream'[c + 1] = Stream'[c] \o Wired(frames', c + 1)
    <3> DEFINE s == Stream'
               fs == frames'
    <3>1. fs \in Seq(Nat) /\ Streams(s, fs) /\ c \in 0 .. Len(fs) /\ c + 1 \in 1 .. Len(fs)
      BY <2>2
    <3> HIDE DEF s, fs
    <3>2. s[c + 1] = s[c] \o Wired(fs, c + 1)
      BY <3>1, StreamStep
    <3> QED
      BY <3>2 DEF s, fs
  <2> DEFINE d == c + 1
  <2>4. d \in 0 .. Len(frames')
    BY <2>2
  <2>5. Ready(w', frames', d) /\ wire' \o Rest(w') = Stream'[d]
    BY <2>2, <2>3
  <2> HIDE DEF d
  <2>6. OnWay(d)'
    BY <2>5 DEF OnWay
  <2> QED
    BY <2>1, <2>4, <2>6, WriteKept
<1> QED
  BY <1>2, <1>3

LEMMA WriteFrameStep == WsInv /\ ~overrun /\ WriteFrame => WsInv'
<1> SUFFICES ASSUME WsInv, ~overrun, WriteFrame PROVE WsInv'
  OBVIOUS
<1>1. state = "CONNECTED" /\ UNCHANGED <<state, closedEv, events, overrun>> /\ wrfn = "connected"
  BY DEF WriteFrame, WsInv, WatchRight
<1>2. frames \in Seq(Nat) /\ wire \in Seq(Bytes) /\ w \in Buffer
  BY DEF WsInv, TypeRight
<1>3. PICK c \in 0 .. Len(frames) : OnWay(c)
  BY <1>1, States DEF WsInv, DataRight
<1>4. PICK k \in 1 .. w.wend - w.wpos :
        /\ Written(k)
        /\ LET v == [w EXCEPT !.wpos = @ + k] IN
           IF v.wpos < v.wend THEN w' = v /\ UNCHANGED <<wrfn, frames>>
           ELSE \/ Proceed(v, frames) /\ UNCHANGED frames
                \/ \E n \in Lengths :
                     /\ Len(frames) < MaxFrames /\ Accepts(v, n)
                     /\ n <= bufsize(Granted(Emptied(v), n))
                     /\ frames' = Append(frames, n)
                     /\ Proceed(Filled(v, n, n), frames')
  BY DEF WriteFrame
<1> DEFINE v == [w EXCEPT !.wpos = @ + k]
<1>5. IF v.wpos < v.wend THEN w' = v /\ UNCHANGED <<wrfn, frames>>
      ELSE \/ Proceed(v, frames) /\ UNCHANGED frames
           \/ \E n \in Lengths :
                /\ Len(frames) < MaxFrames /\ Accepts(v, n)
                /\ n <= bufsize(Granted(Emptied(v), n))
                /\ frames' = Append(frames, n)
                /\ Proceed(Filled(v, n, n), frames')
  BY <1>4
<1>6. Ready(w, frames, c) /\ wire \o Rest(w) = Stream[c]
  BY <1>3 DEF OnWay
<1>7. w.wpos <= w.wend /\ w.wend <= wbufsize
  BY <1>6, InFrontShape, Sizes DEF Ready
<1>8. /\ v \in Buffer /\ v.buf = w.buf /\ v.wend = w.wend /\ v.wfill = w.wfill
      /\ v.wpos <= v.wend /\ wire' \in Seq(Bytes) /\ wire' \o Rest(v) = wire \o Rest(w)
      /\ v.wpos = v.wend => Rest(v) = <<>>
  BY <1>2, <1>4, <1>7, WrittenRest
<1> HIDE DEF v
<1>9. Ready(v, frames, c)
  BY <1>6, <1>8, GoneReady
<1>10. CASE v.wpos < v.wend
  <2>1. w' = v /\ UNCHANGED <<wrfn, frames>>
    BY <1>5, <1>10
  <2>2. Stream'[c] = Stream[c] /\ c \in 0 .. Len(frames')
    BY <1>2, <2>1, StreamNext
  <2>3. OnWay(c)'
    BY <1>6, <1>8, <1>9, <2>1, <2>2 DEF OnWay
  <2> QED
    BY <1>1, <1>2, <1>8, <2>1, <2>2, <2>3, WriteKept
<1>11. CASE ~(v.wpos < v.wend)
  <2>1. v.wpos = v.wend
    BY <1>8, <1>11 DEF Buffer
  <2>2. wire' = Stream[c]
    <3>1. wire' \o <<>> = wire'
      BY <1>8, ConcatEmptySeq
    <3> QED
      BY <1>6, <1>8, <2>1, <3>1
  <2>3. CASE Proceed(v, frames) /\ UNCHANGED frames
    <3>1. Stream'[c] = Stream[c] /\ Streams(Stream', frames') /\ c \in 0 .. Len(frames') /\ frames' \in Seq(Nat)
      BY <1>2, <2>3, StreamNext
    <3>2. Ready(v, frames', c) /\ Proceed(v, frames') /\ wire' = Stream'[c]
      BY <1>9, <2>2, <2>3, <3>1
    <3> QED
      BY <1>1, <1>8, <2>1, <3>1, <3>2, ProceedStep
  <2>4. ASSUME NEW n \in Lengths, Accepts(v, n), n <= bufsize(Granted(Emptied(v), n)),
               frames' = Append(frames, n), Proceed(Filled(v, n, n), frames')
        PROVE  WsInv'
    <3>1. n \in Nat
      BY Sizes
    <3>2. Stream'[c] = Stream[c] /\ Streams(Stream', frames') /\ c \in 0 .. Len(frames') /\ frames' \in Seq(Nat)
      BY <1>2, <2>4, <3>1, StreamNext
    <3> DEFINE u == Filled(v, n, n)
    <3>3. Ready(u, frames', c) /\ (v.wpos = v.wend <=> u.wpos = u.wend)
      BY <1>9, <2>4, <3>1, FilledReady
    <3>4. Proceed(u, frames')
      BY <2>4
    <3> HIDE DEF u
    <3>5. wire' = Stream'[c] /\ u.wpos = u.wend
      BY <2>1, <2>2, <3>2, <3>3
    <3> QED
      BY <1>1, <1>8, <3>2, <3>3, <3>4, <3>5, ProceedStep
  <2> QED
    BY <1>5, <1>11, <2>3, <2>4
<1> QED
  BY <1>10, <1>11

LEMMA StartFrameStep == WsInv /\ ~overrun /\ StartFrame => WsInv'
<1> SUFFICES ASSUME WsInv, ~overrun, StartFrame PROVE WsInv'
  OBVIOUS
<1>1. state = "CONNECTED" /\ UNCHANGED <<state, closedEv, frames, wire, events, overrun>> /\ w.wpos = w.wend
  BY DEF StartFrame, WsInv, WatchRight
<1>2. frames \in Seq(Nat) /\ wire \in Seq(Bytes)
  BY DEF WsInv, TypeRight
<1>3. PICK c \in 0 .. Len(frames) : OnWay(c)
  BY <1>1, States DEF WsInv, DataRight
<1>4. Ready(w, frames, c) /\ wire \o Rest(w) = Stream[c]
  BY <1>3 DEF OnWay
<1>5. Stream'[c] = Stream[c] /\ Streams(Stream', frames') /\ c \in 0 .. Len(frames') /\ frames' \in Seq(Nat)
  BY <1>1, <1>2, StreamNext
<1>6. wire' = Stream'[c] /\ wire' \in Seq(Bytes)
  <2>1. w.wend \in Nat
    BY <1>4, InFrontShape DEF Ready
  <2>2. w.wend - w.wpos = 0
    BY <1>1, <2>1
  <2>3. Rest(w) = <<>>
    BY <2>2 DEF Rest, Part
  <2>4. wire \o <<>> = wire
    BY <1>2, ConcatEmptySeq
  <2> QED
    BY <1>1, <1>2, <1>4, <1>5, <2>3, <2>4
<1>7. Ready(w, frames', c) /\ Proceed(w, frames')
  BY <1>1, <1>4 DEF StartFrame
<1> QED
  BY <1>1, <1>5, <1>6, <1>7, ProceedStep

LEMMA DrainStep == WsInv /\ ~overrun /\ Drain => WsInv'
<1> SUFFICES ASSUME WsInv, ~overrun, Drain PROVE WsInv'
  OBVIOUS
<1>1. state \in Draining /\ UNCHANGED <<state, wrfn, closedEv, frames, events, overrun>>
  BY DEF Drain
<1>2. frames \in Seq(Nat) /\ wire \in Seq(Bytes) /\ w \in Buffer
  BY DEF WsInv, TypeRight
<1>3. PICK c \in 0 .. Len(frames) : OnWay(c)
  BY <1>1, States DEF WsInv, DataRight
<1>4. Ready(w, frames, c) /\ wire \o Rest(w) = Stream[c]
  BY <1>3 DEF OnWay
<1>5. w.wpos <= w.wend /\ w.wend <= wbufsize
  BY <1>4, InFrontShape, Sizes DEF Ready
<1>6. PICK k : Written(k) /\ w' = [w EXCEPT !.wpos = @ + k]
  BY DEF Drain
<1>7. /\ w' \in Buffer /\ w'.buf = w.buf /\ w'.wend = w.wend /\ w'.wfill = w.wfill /\ w'.wpos <= w'.wend
      /\ wire' \in Seq(Bytes) /\ wire' \o Rest(w') = wire \o Rest(w) /\ Rest(w') \in Seq(Bytes)
  BY <1>2, <1>5, <1>6, WrittenRest
<1>8. Ready(w', frames', c)
  BY <1>1, <1>4, <1>7, GoneReady
<1>9. Stream'[c] = Stream[c] /\ c \in 0 .. Len(frames')
  BY <1>1, <1>2, StreamNext
<1>10. OnWay(c)' /\ Reached(c)'
  BY <1>4, <1>7, <1>8, <1>9, ReachedWhile DEF OnWay, Reached
<1>11. TypeRight' /\ TellsRight' /\ WatchRight'
  BY <1>1, <1>7 DEF WsInv, TypeRight, TellsRight, WatchRight, Draining
<1>12. state' \notin SendingClose /\ events' # <<>>
  <2>1. state \in Open /\ state \notin SendingClose
    BY <1>1, States
  <2>2. events = <<"CONNECTED">>
    BY <2>1 DEF WsInv, TellsRight
  <2> QED
    BY <1>1, <2>1, <2>2
<1>13. DataRight'
  BY <1>9, <1>10, <1>12 DEF DataRight
<1> QED
  BY <1>11, <1>13 DEF WsInv

LEMMA SetupCloseStep == WsInv /\ ~overrun /\ SetupClose => WsInv'
<1> SUFFICES ASSUME WsInv, ~overrun, SetupClose PROVE WsInv'
  OBVIOUS
<1>1. /\ state \in Draining /\ w.wpos = w.wend /\ state' \in SendingClose
      /\ UNCHANGED <<wrfn, closedEv, frames, wire, events, overrun>>
  BY DEF SetupClose, Drained, SendingClose
<1>2. frames \in Seq(Nat) /\ wire \in Seq(Bytes) /\ w \in Buffer
  BY DEF WsInv, TypeRight
<1>3. PICK c \in 0 .. Len(frames) : OnWay(c)
  BY <1>1, States DEF WsInv, DataRight
<1>4. wire = Stream[c]
  <2>1. w.wend \in Nat
    BY <1>2 DEF Buffer
  <2>2. w.wend - w.wpos = 0
    BY <1>1, <2>1
  <2>3. Rest(w) = <<>>
    BY <2>2 DEF Rest, Part
  <2>4. wire \o <<>> = wire
    BY <1>2, ConcatEmptySeq
  <2> QED
    BY <1>3, <2>3, <2>4 DEF OnWay
<1>5. /\ w' \in Buffer /\ w'.buf = Over(w.buf, 0, CloseFrame) /\ w'.wpos = 0 /\ w'.wend = 8 /\ w'.wfill = 8
  <2> DEFINE o == Over(w.buf, 0, CloseFrame)
  <2>1. o \in [Addr -> Bytes]
    <3>1. w.buf \in [Addr -> Bytes]
      BY <1>2 DEF Buffer
    <3> QED
      BY <3>1, CloseShape, OverShape
  <2>2. w' = [buf |-> o, wpos |-> 0, wend |-> 8, wfill |-> 8]
    BY DEF SetupClose
  <2> HIDE DEF o
  <2>3. w' \in Buffer
    BY <2>1, <2>2 DEF Buffer
  <2>4. w'.buf = o /\ w'.wpos = 0 /\ w'.wend = 8 /\ w'.wfill = 8
    BY <2>2
  <2> QED
    BY <2>3, <2>4 DEF o
<1>6. Rest(w') = CloseFrame
  <2>1. w.buf \in [Addr -> Bytes] /\ 0 + Len(CloseFrame) <= wbufsize /\ 0 + Len(CloseFrame) = 8
    BY <1>2, CloseShape, Sizes DEF Buffer
  <2>2. Part(Over(w.buf, 0, CloseFrame), 0, 0 + Len(CloseFrame)) = CloseFrame
    BY <2>1, CloseShape, OverPart
  <2> QED
    BY <1>5, <2>1, <2>2 DEF Rest
<1>7. Stream'[c] = Stream[c] /\ c \in 0 .. Len(frames')
  BY <1>1, <1>2, StreamNext
<1>8. ClosesAfter(c)' /\ Reached(c)'
  <2>1. ClosesAfter(c)'
    BY <1>1, <1>4, <1>6, <1>7 DEF ClosesAfter
  <2>2. wire' \in Seq(Bytes) /\ Rest(w') \in Seq(Bytes)
    BY <1>1, <1>2, <1>6, CloseShape
  <2> QED
    BY <2>1, <2>2, ReachedClosing DEF ClosesAfter, Reached
<1>9. /\ state' \in Open /\ state \in Open /\ state' \notin Sending /\ state' # "CONNECTED" /\ state' \notin Connecting
      /\ state' # "CLOSED" /\ events = <<"CONNECTED">>
  <2>1. state' \in Open /\ state \in Open
    BY <1>1, States
  <2>2. events = <<"CONNECTED">> /\ state' \notin Connecting /\ state' # "CLOSED"
    BY <2>1, States DEF WsInv, TellsRight
  <2>3. state' \notin Sending /\ state' # "CONNECTED"
    BY <1>1 DEF Sending, SendingClose, Draining
  <2> QED
    BY <2>1, <2>2, <2>3
<1>10. TypeRight' /\ TellsRight' /\ WatchRight'
  <2>1. TypeRight'
    BY <1>1, <1>5, <1>9 DEF WsInv, TypeRight
  <2>2. TellsRight'
    BY <1>1, <1>9 DEF WsInv, TellsRight
  <2>3. WatchRight'
    BY <1>1, <1>9 DEF SetupClose, WatchRight
  <2> QED
    BY <2>1, <2>2, <2>3
<1>11. DataRight'
  <2>1. w'.wpos <= w'.wend /\ w'.wend <= wbufsize
    BY <1>5, Sizes
  <2> QED
    BY <1>1, <1>7, <1>8, <1>9, <2>1 DEF DataRight
<1> QED
  BY <1>10, <1>11 DEF WsInv

LEMMA WriteCloseStep == WsInv /\ ~overrun /\ WriteClose => WsInv'
<1> SUFFICES ASSUME WsInv, ~overrun, WriteClose PROVE WsInv'
  OBVIOUS
<1>1. /\ state \in SendingClose /\ UNCHANGED <<frames, events, overrun>>
  BY DEF WriteClose, SendingClose
<1>2. frames \in Seq(Nat) /\ wire \in Seq(Bytes) /\ w \in Buffer
  BY DEF WsInv, TypeRight
<1>3. PICK c \in 0 .. Len(frames) : ClosesAfter(c)
  BY <1>1 DEF WsInv, DataRight
<1>4. w.wpos <= w.wend /\ w.wend <= wbufsize
  BY <1>1 DEF WsInv, DataRight
<1>5. PICK k : /\ Written(k) /\ w' = [w EXCEPT !.wpos = @ + k]
               /\ \/ UNCHANGED <<state, wrfn, closedEv>>
                  \/ /\ state' = IF state = "SENDCLOSE" THEN "SENTCLOSE" ELSE "CLOSED"
                     /\ wrfn' = "none" /\ closedEv' = (state = "ECHOCLOSE")
  BY DEF WriteClose
<1>6. /\ w' \in Buffer /\ w'.wend = w.wend /\ w'.wpos <= w'.wend
      /\ wire' \in Seq(Bytes) /\ wire' \o Rest(w') = wire \o Rest(w) /\ Rest(w') \in Seq(Bytes)
  BY <1>2, <1>4, <1>5, WrittenRest
<1>7. Stream'[c] = Stream[c] /\ c \in 0 .. Len(frames')
  BY <1>1, <1>2, StreamNext
<1>8. ClosesAfter(c)' /\ Reached(c)'
  <2>1. ClosesAfter(c)'
    BY <1>3, <1>6, <1>7 DEF ClosesAfter
  <2> QED
    BY <1>6, <2>1, ReachedClosing DEF ClosesAfter, Reached
<1>9. events = <<"CONNECTED">> /\ state # "CONNECTED" /\ ~closedEv /\ state \in Open
  BY <1>1, States DEF WsInv, TellsRight
<1>10. state' \notin Sending /\ state' # "CONNECTED" /\ state' \notin Connecting
  BY <1>1, <1>5 DEF Sending, SendingClose, Draining, Connecting
<1>11. TypeRight' /\ TellsRight' /\ WatchRight'
  <2>1. TypeRight'
    BY <1>1, <1>5, <1>6 DEF WsInv, TypeRight, Open, Closing, Draining
  <2>2. TellsRight'
    <3>1. CASE UNCHANGED <<state, wrfn, closedEv>>
      BY <1>1, <3>1 DEF WsInv, TellsRight
    <3>2. CASE state = "SENDCLOSE" /\ state' = "SENTCLOSE" /\ closedEv' = FALSE
      BY <1>1, <1>9, <1>10, <3>2 DEF WsInv, TellsRight
    <3>3. CASE state = "ECHOCLOSE" /\ state' = "CLOSED" /\ closedEv' = TRUE
      BY <1>1, <1>9, <3>3, States DEF WsInv, TellsRight
    <3> QED
      BY <1>1, <1>5, <3>1, <3>2, <3>3 DEF SendingClose
  <2>3. WatchRight'
    BY <1>1, <1>5, <1>9, <1>10 DEF WsInv, WatchRight
  <2> QED
    BY <2>1, <2>2, <2>3
<1>12. DataRight'
  <2>1. events' # <<>> /\ w'.wend <= wbufsize
    BY <1>1, <1>4, <1>6, <1>9
  <2> QED
    BY <1>6, <1>7, <1>8, <1>10, <2>1 DEF DataRight
<1> QED
  BY <1>11, <1>12 DEF WsInv
-----------------------------------------------------------------------------
LEMMA Steps == WsInv /\ [ConnNext]_connVars => WsInv'
<1> SUFFICES ASSUME WsInv, [ConnNext]_connVars PROVE WsInv'
  OBVIOUS
<1>1. CASE UNCHANGED connVars
  <2>1. UNCHANGED <<state, w, wrfn, closedEv, frames, wire, events, overrun>>
    BY <1>1 DEF connVars
  <2>2. DataRight'
    BY <2>1, DataKept DEF WsInv
  <2> QED
    BY <2>1, <2>2 DEF WsInv, TypeRight, TellsRight, WatchRight
<1>2. ASSUME ConnNext PROVE WsInv'
  <2>1. ~overrun
    BY <1>2 DEF ConnNext
  <2>2. CASE Connect \/ Handshake \/ IoError \/ ClosedEvent \/ Free \/ Close \/ PeerClose
    BY <2>2, QuietSteps
  <2>3. CASE Upgraded
    BY <2>3, UpgradedStep
  <2>4. CASE Send \/ Ping
    BY <2>1, <2>4, SendSteps
  <2>5. CASE Writes
    BY <2>1, <2>5, WriteFrameStep, StartFrameStep, DrainStep, SetupCloseStep, WriteCloseStep DEF Writes
  <2> QED
    BY <1>2, <2>2, <2>3, <2>4, <2>5 DEF ConnNext
<1> QED
  BY <1>1, <1>2

(* An empty buffer refuses nothing that fits into it at all. *)
LEMMA RefusesForATime == WsInv => RefusalTemporary
<1> SUFFICES ASSUME WsInv, state = "CONNECTED", ~overrun, NEW n \in Lengths, ~TooLarge(n), ~Accepts(w, n)
             PROVE  wrfn = "connected" /\ w.wpos < w.wfill
  BY DEF RefusalTemporary
<1>1. PICK c \in 0 .. Len(frames) : OnWay(c)
  BY States DEF WsInv, DataRight
<1>2. /\ w \in Buffer /\ w.wpos \in Nat /\ w.wend \in Nat /\ w.wfill \in Nat
      /\ w.wpos <= w.wend /\ w.wend <= w.wfill
  BY <1>1, InFrontShape DEF OnWay, Ready
<1>3. w.wpos # w.wfill
  <2> SUFFICES ASSUME w.wpos = w.wfill PROVE FALSE
    OBVIOUS
  <2> DEFINE e == Emptied(w)
  <2>1. e.wfill = 8
    BY <1>2, EmptiedIdle
  <2>2. Refused(e, n) /\ n \in Nat
    BY Sizes DEF Accepts
  <2> HIDE DEF e
  <2>3. Lacking(e, n) > 0
    BY <2>2 DEF Refused
  <2> QED
    BY <2>1, <2>2, <2>3, Sizes DEF Lacking, TooLarge
<1>4. wrfn = "connected"
  BY <1>3 DEF WsInv, WatchRight
<1> QED
  BY <1>2, <1>3, <1>4

LEMMA TellsInOrder == TellsRight => EventsRight
<1> SUFFICES ASSUME TellsRight PROVE EventsRight
  OBVIOUS
<1>1. \/ events = <<>> \/ events = <<"CONNECTED">>
      \/ \E e \in {"CLOSED", "freed"} : events = <<e>> \/ events = <<"CONNECTED", e>>
  BY DEF TellsRight, Ends
<1>2. CASE events = <<>>
  BY <1>2 DEF EventsRight
<1>3. ASSUME NEW e, events = <<e>> PROVE EventsRight
  BY <1>3 DEF EventsRight
<1>4. ASSUME NEW e \in {"CLOSED", "freed"}, events = <<"CONNECTED", e>> PROVE EventsRight
  <2>1. Len(events) = 2 /\ events[1] = "CONNECTED" /\ events[2] = e
    BY <1>4
  <2>2. \A i \in 1 .. 2 : i = 1 \/ i = 2
    OBVIOUS
  <2> QED
    BY <1>4, <2>1, <2>2 DEF EventsRight
<1> QED
  BY <1>1, <1>2, <1>3, <1>4

LEMMA Served == WsInv => ClientServed
<1> SUFFICES ASSUME WsInv PROVE ClientServed
  OBVIOUS
<1>1. WireRight
  BY DEF WsInv, DataRight, Reached, WireRight
<1>2. RefusalTemporary /\ EventsRight
  BY RefusesForATime, TellsInOrder DEF WsInv
<1> QED
  BY <1>1, <1>2 DEF ClientServed, SendbufRight

(* The server gets the frames of the client whole and in order, a refusal  *)
(* is followed by the event that makes the client come back, and the       *)
(* client is told once of the end (ws_getSendbuf, ws_connected_w,          *)
(* ws_closing_w, triggerWsClosedEv).                                       *)
THEOREM ServedAlways == ConnSpec => []ClientServed
<1>1. ConnInit => WsInv
  BY Initially
<1>2. WsInv /\ [ConnNext]_connVars => WsInv'
  BY Steps
<1>3. WsInv => ClientServed
  BY Served
<1> QED
  BY <1>1, <1>2, <1>3, PTL DEF ConnSpec
=============================================================================
