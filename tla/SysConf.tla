------------------------------ MODULE SysConf ------------------------------
(***************************************************************************)
(* The configuration files of the station (sys.c) and their transactions.  *)
(* CUPS delivers new URIs and credentials: they are written to a temporary *)
(* set of files and, when complete, renamed into the regular set.  After a *)
(* successful connection the regular set is copied to a backup set, once.  *)
(* TC connects with what it read from the regular set earlier: the URI     *)
(* when it started, the credentials when it dialled.  Marker files say     *)
(* what a start of the station has to finish.                              *)
(*                                                                         *)
(* Every file operation is a step, so that a crash may come between any    *)
(* two.  The station is single threaded and the procedures run to their    *)
(* end: todo holds the operations still to come, one sequence for each     *)
(* procedure called, and nothing else happens until it is empty.           *)
(***************************************************************************)
EXTENDS Integers, Sequences, FiniteSets, SequencesExt

CONSTANTS
  CredExts,      \* the files of a credential: trust, crt, key
  Offers,        \* what CUPS may deliver: [Cats -> SUBSET {"uri", "cred"}]
  MaxSessions,   \* bound: CUPS sessions
  MaxFaults,     \* bound: file operations that fail
  MaxFailures,   \* bound: crashes of the station and file operations that fail
  PowerCuts      \* do crashes lose what was not synced (a power failure)?

Cats == {"cups", "tc"}
Exts == CredExts \cup {"uri"}
Absent == -1                   \* contents: a file that does not exist,
Broken == -2                   \* one that could not be written to its end,
Content == {Absent, Broken} \cup 0 .. MaxSessions   \* or the session it comes from

ASSUME ConfAssumption ==
  /\ IsFiniteSet(CredExts) /\ CredExts # {} /\ "uri" \notin CredExts
  /\ Offers \subseteq [Cats -> SUBSET {"uri", "cred"}]
  /\ {MaxSessions, MaxFaults, MaxFailures} \subseteq Nat
  /\ PowerCuts \in BOOLEAN

VARIABLES
  disk,          \* the files of each category, see Files
  cuts,          \* what a power failure may leave of them
  todo,          \* file operations of the procedures in progress
  bakDone,       \* bakDone[]
  updateState,   \* updateState: categories with new files, "error"
  session,       \* CUPS session: [stage, offer, pending, fed]
  dial,          \* TC: what it read to connect with, see Dial
  count,         \* [sessions, crashes, faults] so far
  (* history *)
  whole,         \* sets of files that may be the regular set
  ordered,       \* the regular set when its backup was last called for
  proven,        \* what the station had connected with at that time, see Proof
  cut            \* did a power failure occur?

vars == <<disk, cuts, todo, bakDone, updateState, session, dial, count,
          whole, ordered, proven, cut>>
memory == <<bakDone, updateState, session, dial>>
history == <<whole, ordered, proven, cut>>

Files == [reg : [Exts -> Content], bak : [Exts -> Content], temp : [Exts -> Content],
          upd : BOOLEAN, cpy : BOOLEAN, don : BOOLEAN]
NoFiles == [e \in Exts |-> Absent]

(* TC is off, has its URI or has the URI and the credentials of MUXS; set  *)
(* is what it has read, latest is FALSE when an update came since then.    *)
Dial == [stage : {"off", "uri", "muxs"}, set : [Exts -> Content], latest : BOOLEAN]
Off == [stage |-> "off", set |-> NoFiles, latest |-> FALSE]
Proof == [set : [Exts -> Content], latest : BOOLEAN]

NoSession == [stage |-> "idle", offer |-> [c \in Cats |-> {}], pending |-> {}, fed |-> {}]

Init ==
  /\ disk = [c \in Cats |-> [reg |-> [e \in Exts |-> 0], bak |-> NoFiles, temp |-> NoFiles,
                             upd |-> FALSE, cpy |-> FALSE, don |-> FALSE]]
  /\ cuts = {disk}
  /\ todo = <<>>
  /\ bakDone = [c \in Cats |-> FALSE]
  /\ updateState = {}
  /\ session = NoSession
  /\ dial = Off
  /\ count = [sessions |-> 0, crashes |-> 0, faults |-> 0]
  /\ whole = [c \in Cats |-> {disk[c].reg}]
  /\ ordered = [c \in Cats |-> NoFiles]
  /\ proven = [c \in Cats |-> [set |-> NoFiles, latest |-> TRUE]]
  /\ cut = FALSE
-----------------------------------------------------------------------------
(* File operations *)
Write(c, set, e, v) == [op |-> "file", cat |-> c, set |-> set, ext |-> e, val |-> v]
Unlink(c, set, e) == Write(c, set, e, Absent)
Mark(c, taf, b) == [op |-> "mark", cat |-> c, taf |-> taf, val |-> b]
Rename(c, e) == [op |-> "rename", cat |-> c, ext |-> e]
Copy(c, e) == [op |-> "copy", cat |-> c, ext |-> e]
Sync == [op |-> "sync"]
Note(c) == [op |-> "note", cat |-> c]       \* bakDone[c] is set if c-bak.done exists

ForExts(exts, op(_)) == SetToSeq({op(e) : e \in exts})

(* Fault: the start of the station takes the marker away and then rolls    *)
(* forward.                                                                *)
UpdateForwardUnmarked(c, rollFwd) ==
  (IF rollFwd THEN <<Mark(c, "upd", FALSE)>> ELSE <<Mark(c, "upd", TRUE)>>)
  \o <<Sync>> \o ForExts(Exts, LAMBDA e : Rename(c, e))
  \o <<Sync, Mark(c, "upd", FALSE)>>

(* updateConfigFiles *)
Update(c, rollFwd) ==
  (IF rollFwd THEN <<>> ELSE <<Mark(c, "upd", TRUE)>>)
  \o <<Sync>> \o ForExts(Exts, LAMBDA e : Rename(c, e))
  \o <<Sync, Mark(c, "upd", FALSE)>>

(* Fault: the copies are not synced before the marker goes. *)
BackupUnsynced(c, rollFwd) ==
  (IF rollFwd THEN <<>> ELSE <<Mark(c, "cpy", TRUE)>>)
  \o <<Sync, Mark(c, "don", FALSE)>>
  \o ForExts(Exts, LAMBDA e : Unlink(c, "bak", e)) \o ForExts(Exts, LAMBDA e : Copy(c, e))
  \o <<Mark(c, "don", TRUE), Mark(c, "cpy", FALSE), Sync, Note(c)>>

(* backupConfigFiles, unless bakDone *)
Backup(c, rollFwd) ==
  (IF rollFwd THEN <<>> ELSE <<Mark(c, "cpy", TRUE)>>)
  \o <<Sync, Mark(c, "don", FALSE)>>
  \o ForExts(Exts, LAMBDA e : Unlink(c, "bak", e)) \o ForExts(Exts, LAMBDA e : Copy(c, e))
  \o <<Mark(c, "don", TRUE), Sync, Mark(c, "cpy", FALSE), Sync, Note(c)>>

BackupOnce(c) == IF bakDone[c] THEN <<>> ELSE <<Backup(c, FALSE)>>

(* Fault: no sync. *)
ResetUnsynced ==
  LET wipe(c) == <<Mark(c, "upd", FALSE)>> \o ForExts(Exts, LAMBDA e : Unlink(c, "temp", e))
  IN  wipe("cups") \o wipe("tc")

(* sys_resetConfigUpdate *)
Reset ==
  LET wipe(c) == <<Mark(c, "upd", FALSE)>> \o ForExts(Exts, LAMBDA e : Unlink(c, "temp", e))
  IN  wipe("cups") \o wipe("tc") \o <<Sync>>

(* checkRollForward at the start of the station *)
RollForward(d) ==
  LET forward(c) == (IF d[c].upd THEN <<Update(c, TRUE)>> ELSE <<>>)
                    \o (IF d[c].cpy THEN <<Backup(c, TRUE)>> ELSE <<>>)
                    \o <<<<Note(c)>>>>
  IN  forward("cups") \o forward("tc")

Failures == count.crashes + count.faults
Idle == todo = <<>>
Op == Head(Head(todo))
Rest == IF Len(Head(todo)) = 1 THEN Tail(todo) ELSE <<Tail(Head(todo))>> \o Tail(todo)

(* The outcome of operation o on disk d.  A file to be copied was read from *)
(* the present disk.  Files that do not exist are not copied or renamed.   *)
Done(o, d) ==
  CASE o.op = "file" -> [d EXCEPT ![o.cat][o.set][o.ext] = o.val]
    [] o.op = "mark" -> [d EXCEPT ![o.cat][o.taf] = o.val]
    [] o.op = "rename" -> IF d[o.cat].temp[o.ext] = Absent THEN d
                          ELSE [d EXCEPT ![o.cat].reg[o.ext] = d[o.cat].temp[o.ext],
                                         ![o.cat].temp[o.ext] = Absent]
    [] o.op = "copy" -> IF disk[o.cat].reg[o.ext] = Absent THEN d
                        ELSE [d EXCEPT ![o.cat].bak[o.ext] = disk[o.cat].reg[o.ext]]

(* After a power failure any of the operations since the last sync may be  *)
(* missing.                                                                *)
Perform(o) ==
  /\ disk' = Done(o, disk)
  /\ cuts' = IF PowerCuts THEN cuts \cup {Done(o, d) : d \in cuts} ELSE {disk'}

FileStep ==
  /\ ~Idle /\ Op.op \in {"file", "mark", "rename", "copy"}
  /\ Perform(Op)
  /\ todo' = Rest
  /\ UNCHANGED <<memory, count, history>>

SyncStep ==
  /\ ~Idle /\ Op.op = "sync"
  /\ cuts' = {disk}
  /\ todo' = Rest
  /\ UNCHANGED <<disk, memory, count, history>>

NoteStep ==
  /\ ~Idle /\ Op.op = "note"
  /\ bakDone' = [bakDone EXCEPT ![Op.cat] = disk[Op.cat].don]
  /\ todo' = Rest
  /\ UNCHANGED <<disk, cuts, updateState, session, dial, count, history>>

(* writeFile fails: a file is left incomplete, a marker is not made, and   *)
(* the procedure returns.  Only sys_saveUri keeps the error in mind.  (At  *)
(* the start of the station the failure is fatal, a crash.)                *)
WriteFault ==
  /\ ~Idle /\ session.stage # "start" /\ count.faults < MaxFaults /\ Failures < MaxFailures
  /\ \/ Op.op = "file" /\ Op.val # Absent /\ Perform([Op EXCEPT !.val = Broken])
     \/ Op.op = "copy" /\ Perform(Write(Op.cat, "bak", Op.ext, Broken))
     \/ Op.op = "mark" /\ Op.val = TRUE /\ UNCHANGED <<disk, cuts>>
  /\ updateState' = IF Op.op = "file" /\ Op.ext = "uri" THEN updateState \cup {"error"}
                    ELSE updateState
  /\ todo' = Tail(todo)
  /\ count' = [count EXCEPT !.faults = @ + 1]
  /\ UNCHANGED <<bakDone, session, dial, history>>
-----------------------------------------------------------------------------
(* cups_update_info: the first part of the response of the CUPS server,    *)
(* reached with the regular set or with another one.  It announces what    *)
(* comes in this session and carries the URIs.                             *)
WithUri(offer) == {c \in Cats : "uri" \in offer[c]}

SaveUris(offer) ==
  LET save(c) == IF c \in WithUri(offer)
                 THEN <<<<Write(c, "temp", "uri", count.sessions + 1)>>>> ELSE <<>>
  IN  save("cups") \o save("tc")

(* sys_backupConfig: the regular set of c as it is now is to be copied,    *)
(* unless there is a backup, after a connection with the set of p.         *)
CallBackup(c, p) ==
  IF bakDone[c] THEN UNCHANGED <<ordered, proven>>
  ELSE /\ ordered' = [ordered EXCEPT ![c] = disk[c].reg]
       /\ proven' = [proven EXCEPT ![c] = p]

(* The set of a CUPS session is read when it starts; only the session      *)
(* itself would update it, later.                                          *)
CupsSet == [set |-> disk["cups"].reg, latest |-> TRUE]

Respond(offer, usingReg) ==
  /\ Idle /\ session.stage = "idle" /\ count.sessions < MaxSessions
  /\ todo' = (IF usingReg THEN BackupOnce("cups") ELSE <<>>) \o <<Reset>> \o SaveUris(offer)
  /\ updateState' = WithUri(offer)
  /\ session' = [stage |-> "feed", offer |-> offer, fed |-> {},
                 pending |-> {c \in Cats : "cred" \in offer[c]}]
  /\ count' = [count EXCEPT !.sessions = @ + 1]
  /\ IF usingReg THEN CallBackup("cups", CupsSet) ELSE UNCHANGED <<ordered, proven>>
  /\ UNCHANGED <<disk, cuts, bakDone, dial, whole, cut>>

(* A response with impossible lengths: nothing but the backup is done.     *)
Malformed ==
  /\ Idle /\ session.stage = "idle"
  /\ todo' = BackupOnce("cups")
  /\ CallBackup("cups", CupsSet)
  /\ UNCHANGED <<disk, cuts, memory, count, whole, cut>>

(* sys_credStart, sys_credWrite and sys_credComplete of a credential, CUPS *)
(* before TC.  One that cannot be parsed leaves no files.                  *)
Credential(c, parsed) ==
  /\ Idle /\ session.stage = "feed"
  /\ c \in session.pending
  /\ c = "tc" => "cups" \notin session.pending
  /\ updateState' = updateState \cup {c}
  /\ todo' = IF parsed THEN <<ForExts(CredExts, LAMBDA e : Write(c, "temp", e, count.sessions))>>
             ELSE <<>>
  /\ session' = [session EXCEPT !.pending = @ \ {c}, !.fed = IF parsed THEN @ \cup {c} ELSE @]
  /\ UNCHANGED <<disk, cuts, bakDone, dial, count, history>>

(* The session breaks down: error, timeout, lost connection. *)
Break ==
  /\ Idle /\ session.stage = "feed"
  /\ session' = NoSession
  /\ UNCHANGED <<disk, cuts, todo, bakDone, updateState, dial, count, history>>

(* The regular set of c with the new files of the session *)
Renewed(c) ==
  [e \in Exts |-> IF (e = "uri" /\ c \in WithUri(session.offer))
                     \/ (e # "uri" /\ c \in session.fed)
                  THEN count.sessions ELSE disk[c].reg[e]]

(* sys_commitConfigUpdate *)
Commit ==
  /\ Idle /\ session.stage = "feed" /\ session.pending = {}
  /\ IF "error" \in updateState THEN UNCHANGED <<todo, updateState, dial, whole>>
     ELSE /\ todo' = (IF "cups" \in updateState THEN <<Update("cups", FALSE)>> ELSE <<>>)
                     \o (IF "tc" \in updateState THEN <<Update("tc", FALSE)>> ELSE <<>>)
          /\ whole' = [c \in Cats |-> IF c \in updateState THEN whole[c] \cup {Renewed(c)}
                                      ELSE whole[c]]
          /\ dial' = IF "tc" \in updateState THEN [dial EXCEPT !.latest = FALSE] ELSE dial
          /\ updateState' = {}
  /\ session' = NoSession
  /\ UNCHANGED <<disk, cuts, bakDone, count, ordered, proven, cut>>

(* tc_start: the URI and the credentials of INFOS are read. *)
TcStart ==
  /\ Idle /\ session.stage # "start"
  /\ dial' = [stage |-> "uri", set |-> disk["tc"].reg, latest |-> TRUE]
  /\ UNCHANGED <<disk, cuts, todo, bakDone, updateState, session, count, history>>

(* tc_connect_muxs, after INFOS or to connect again: the credentials are   *)
(* read, the URI of MUXS is what INFOS said when TC started.               *)
TcConnectMuxs ==
  /\ Idle /\ dial.stage = "uri"
  /\ dial' = [dial EXCEPT !.stage = "muxs",
                          !.set = [e \in Exts |-> IF e = "uri" THEN @[e] ELSE disk["tc"].reg[e]]]
  /\ UNCHANGED <<disk, cuts, todo, bakDone, updateState, session, count, history>>

(* tc_muxs_connection: connected to the MUXS *)
MuxsConnected ==
  /\ Idle /\ dial.stage = "muxs"
  /\ todo' = BackupOnce("tc")
  /\ CallBackup("tc", [set |-> dial.set, latest |-> dial.latest])
  /\ dial' = [dial EXCEPT !.stage = "uri"]
  /\ UNCHANGED <<disk, cuts, bakDone, updateState, session, count, whole, cut>>

(* The station stops anywhere and starts again from what is on disk. *)
Restart(d) ==
  /\ Failures < MaxFailures
  /\ disk' = d /\ cuts' = {d}
  /\ todo' = RollForward(d)
  /\ bakDone' = [c \in Cats |-> FALSE]
  /\ updateState' = {}
  /\ session' = [NoSession EXCEPT !.stage = "start"]
  /\ dial' = Off
  /\ count' = [count EXCEPT !.crashes = @ + 1]
  /\ UNCHANGED <<whole, ordered, proven>>

Crash == Restart(disk) /\ UNCHANGED cut
PowerFailure == \E d \in cuts : PowerCuts /\ Restart(d) /\ cut' = TRUE

Started ==
  /\ Idle /\ session.stage = "start"
  /\ session' = NoSession
  /\ UNCHANGED <<disk, cuts, todo, bakDone, updateState, dial, count, history>>

Next ==
  \/ FileStep \/ SyncStep \/ NoteStep \/ WriteFault
  \/ \E offer \in Offers, usingReg \in BOOLEAN : Respond(offer, usingReg)
  \/ Malformed
  \/ \E c \in Cats, parsed \in BOOLEAN : Credential(c, parsed)
  \/ Break \/ Commit \/ TcStart \/ TcConnectMuxs \/ MuxsConnected
  \/ Crash \/ PowerFailure \/ Started

Spec == Init /\ [][Next]_vars
-----------------------------------------------------------------------------
(* Shapes of the data; bakDone says what the done marker on disk says.     *)
TypeOK ==
  /\ disk \in [Cats -> Files] /\ disk \in cuts
  /\ updateState \subseteq Cats \cup {"error"}
  /\ session.stage \in {"idle", "feed", "start"} /\ session.pending \subseteq Cats
  /\ dial \in Dial
  /\ Idle /\ session.stage # "start" => \A c \in Cats : bakDone[c] = disk[c].don

(* An update is all or nothing: once the procedures are over, after any    *)
(* crash, the regular set is the one before an update or the one after it, *)
(* never a mixture of old and new files.  This is so as long as no power   *)
(* fails (the temporary files are not synced before the marker is made)    *)
(* and no write fails.                                                     *)
RegWhole == Idle /\ ~cut /\ count.faults = 0 => \A c \in Cats : disk[c].reg \in whole[c]

(* "rename temp set into regular set - created at end of temp set write"   *)
(* (sys.c on the .upd marker): there is no marker without a whole set.     *)
UpdMarksWholeSet == Idle => \A c \in Cats : disk[c].reg \in whole[c]

(* A valid backup ("copy is valid", sys.c) is, file by file, the regular   *)
(* set as it was when the station had connected and the backup was called  *)
(* for, in spite of power failures, as long as no write fails.  It is the  *)
(* set the station had connected with, unless CUPS updated the set of TC   *)
(* between tc_start and the connection: then a set nobody tried is kept.   *)
BakProven ==
  Idle /\ count.faults = 0 => \A c \in Cats : disk[c].don =>
    /\ disk[c].bak = ordered[c]
    /\ proven[c].latest => disk[c].bak = proven[c].set

(* A power failure never brings back the marker of a finished update while *)
(* there are temporary files of a later one that is not complete.          *)
NoStaleMarker == Idle => \A d \in cuts : \A c \in Cats : d[c].upd => d[c].temp = NoFiles
=============================================================================
