------------------------------ MODULE FlashFs ------------------------------
(***************************************************************************)
(* The flash file system of the station (fs.c): a log of records in one    *)
(* of two sections of the flash.  When the section is full its live files  *)
(* are copied to the other one (fs_gc), which becomes current when the     *)
(* first one is erased.  The power may fail between any two flash          *)
(* operations, and in the middle of a record; fs_ck then picks the section *)
(* to go on with.                                                          *)
(*                                                                         *)
(* A record takes one cell, a write appends one record, and a name is      *)
(* found by its CRC as if that were the name itself.  A record that was    *)
(* not written to its end fails its CRC.  Flash is erased from its lower   *)
(* end upwards, and a section is two pages.                                *)
(***************************************************************************)
EXTENDS Integers, Sequences, FiniteSets, SequencesExt

CONSTANTS
  Names,        \* the file names clients use
  LogNames,     \* those with ".log" in them
  Fds,          \* the slots of fhTable
  Capacity,     \* records in a section
  CacheSize,    \* SIZE_ARRAY(inocache) of fs_gc
  MAX_INO,      \* the greatest inode number
  Risks,        \* situations the clients run into, see NoRisk
  MaxFiles,     \* bound: files created
  MaxWrites,    \* bound: writes
  MaxMagic      \* bound: collections

ASSUME FsAssumption ==
  /\ LogNames \subseteq Names
  /\ Risks \subseteq {"aux", "over", "stale", "empty", "twice"}
  /\ {Capacity, CacheSize, MAX_INO, MaxFiles, MaxWrites, MaxMagic} \subseteq Nat \ {0}
  /\ Capacity > 1

VARIABLES
  flash,        \* flash[s]: the magic of section s (0: erased) and its cells
  fsSection,    \* the current section, -1 when the file system is not in use
  flashWP,      \* the cell the next record goes to
  nextIno,
  fhTable,      \* the open files, see NoFh
  auxbuf,       \* the file name in auxbuf, for as long as a call needs it
  call,         \* the procedure under way, see NoCall
  gc,           \* the collection under way: [end, emergency], or NoGc
  stamps        \* [file, chunk]: how many of each so far; ctim of a file

fsVars == <<flash, fsSection, flashWP, nextIno, fhTable, auxbuf, call, gc, stamps>>
-----------------------------------------------------------------------------
(* Records.  arg is ctim in a FILE record, the second name in a RENAME     *)
(* record and what was written in a DATA record.                           *)
Rec(cmd, ino, name, arg) == [cmd |-> cmd, ino |-> ino, name |-> name, arg |-> arg]
None == "none"
Garbage == "garbage"
Erased == Rec("ERASED", 0, None, 0)
Torn(r) == [r EXCEPT !.cmd = "TORN"]
Whole(r) == r.cmd \in {"FILE", "DATA", "RENAME", "DELETE"}

(* An open file.  at and droff say where reading goes on: in the record    *)
(* at cell at, which has been read (droff = 1) or not; at = 0 when open    *)
(* for writing.  bad is the bit MAX_INO+1 of ino.  id is the ctim of the   *)
(* file that was opened: the code does not keep it.                        *)
NoFh == [ino |-> 0, bad |-> FALSE, at |-> 0, droff |-> 0, foff |-> 0, id |-> 0]

(* op is the procedure, mode that of fs_open; tries counts the             *)
(* collections isFlashFull has asked for.                                  *)
NoCall == [op |-> "none", name |-> None, to |-> None, mode |-> "none", fd |-> 0, tries |-> 0]
NoGc == [end |-> -1, emergency |-> FALSE]

Other(s) == 1 - s
Cells(s) == flash[s].cell
LogOf(s, end) == SubSeq(flash[s].cell, 1, end - 1)
Recs == LogOf(fsSection, flashWP)

(* fs_findFile: from the end of the log to its begin, on the track of a    *)
(* name.  The index of the FILE record, 0 when there is none.              *)
Find(rs, fn) ==
  LET seek[i \in 0 .. Len(rs), n \in Names \cup {Garbage}] ==
        IF i = 0 THEN 0
        ELSE LET r == rs[i] IN
             IF r.cmd = "DATA" THEN seek[i - 1, n]
             ELSE IF r.name = n THEN (IF r.cmd = "FILE" THEN i ELSE 0)
             ELSE IF r.cmd = "RENAME" /\ r.arg = n THEN seek[i - 1, r.name]
             ELSE seek[i - 1, n]
  IN  seek[Len(rs), fn]

(* fs_findNextDataRecord: the next data of the file after cell i, or 0. *)
NextData(rs, i, ino) ==
  SelectInSubSeq(rs, i + 1, Len(rs), LAMBDA r : r.cmd = "DATA" /\ r.ino = ino)

(* All data of the file, in order *)
DataOf(rs, ino) ==
  LET upto[i \in 0 .. Len(rs)] ==
        IF i = 0 THEN <<>>
        ELSE IF rs[i].cmd = "DATA" /\ rs[i].ino = ino THEN Append(upto[i - 1], rs[i])
        ELSE upto[i - 1]
  IN  upto[Len(rs)]
-----------------------------------------------------------------------------
(* Garbage collection.  A phase follows the files it finds first through   *)
(* the log, as many as there is room for in its cache.                     *)
Start == [cache |-> <<>>, overflow |-> FALSE, cont |-> 0, done |-> FALSE]

FirstNamed(cache, n) == SelectInSeq(cache, LAMBDA c : c.name = n)

Track(rs, s, i) ==
  LET r == rs[i]
      match == FirstNamed(s.cache, r.name)
      last == Len(s.cache)
  IN  IF s.done \/ r.cmd = "DATA" THEN s
      ELSE IF match # 0 THEN
        CASE r.cmd = "FILE"   -> [s EXCEPT !.cache[match] = [file |-> i, ren |-> 0, name |-> r.name]]
          [] r.cmd = "RENAME" -> [s EXCEPT !.cache[match] = [file |-> @.file, ren |-> i, name |-> r.arg]]
          [] r.cmd = "DELETE" ->
               [s EXCEPT !.cache = Front([@ EXCEPT ![match] = s.cache[last]]),
                         !.done = last = 1 /\ s.overflow]
      ELSE IF r.cmd = "FILE" /\ ~s.overflow THEN
        IF last < CacheSize
        THEN [s EXCEPT !.cache = Append(@, [file |-> i, ren |-> 0, name |-> r.name])]
        ELSE [s EXCEPT !.overflow = TRUE, !.cont = i]
      ELSE s

Phase(rs, from) ==
  LET track[i \in from - 1 .. Len(rs)] ==
        IF i < from THEN Start ELSE Track(rs, track[i - 1], i)
  IN  track[Len(rs)]

(* The surviving files of all phases; their new numbers are 1, 2, ... *)
Survivors(rs) ==
  LET collect[from \in 1 .. Len(rs) + 1] ==
        IF from > Len(rs) THEN <<>>
        ELSE LET p == Phase(rs, from)
             IN  p.cache \o collect[IF p.overflow THEN p.cont ELSE Len(rs) + 1]
  IN  collect[1]

OldIno(rs, c) == rs[IF c.ren # 0 THEN c.ren ELSE c.file].ino
GivenUp(c, emergency) == emergency /\ c.name \in LogNames

(* The records that replace a surviving file. *)
Copied(rs, c, ino, emergency) ==
  LET data == DataOf(SubSeq(rs, c.file, Len(rs)), OldIno(rs, c))
  IN  IF GivenUp(c, emergency) THEN <<>>
      ELSE <<Rec("FILE", ino, c.name, rs[c.file].arg)>>
           \o [k \in DOMAIN data |-> [data[k] EXCEPT !.ino = ino]]

Collected(rs, emergency) ==
  LET survived == Survivors(rs)
      copy[u \in 0 .. Len(survived)] ==
        IF u = 0 THEN <<>> ELSE copy[u - 1] \o Copied(rs, survived[u], u, emergency)
  IN  copy[Len(survived)]

(* An open file that survives gets its new number, any other is bad. *)
Reinstated(rs, emergency, fh) ==
  LET survived == Survivors(rs)
      u == SelectInSeq(survived, LAMBDA c : ~GivenUp(c, emergency) /\ OldIno(rs, c) = fh.ino)
  IN  IF fh.ino = 0 THEN fh
      ELSE IF u = 0 THEN [fh EXCEPT !.bad = TRUE]
      ELSE [fh EXCEPT !.ino = u, !.bad = FALSE]

(* Fault: an open file keeps its position. *)
SoughtNot(rs, fh, offset) == fh

(* fs_lseek: the data record that ends at or behind an offset.  When there *)
(* is none, the last data record, and failing that the begin of the log.   *)
Sought(rs, fh, offset) ==
  LET data == SelectSeq([i \in DOMAIN rs |-> i],
                        LAMBDA i : i > 1 /\ rs[i].cmd = "DATA" /\ rs[i].ino = fh.ino)
      n == IF offset <= Len(data) THEN offset ELSE Len(data)
  IN  IF data = <<>> THEN [fh EXCEPT !.at = 1, !.droff = 0, !.foff = 0]
      ELSE [fh EXCEPT !.at = data[IF n = 0 THEN 1 ELSE n],
                      !.droff = IF n = 0 THEN 0 ELSE 1, !.foff = n]
-----------------------------------------------------------------------------
Blank == [magic |-> 0, cell |-> [i \in 1 .. Capacity |-> Erased]]
FirstPage == 1 .. Capacity \div 2
Wiped(s, page) ==
  [flash EXCEPT ![s].magic = IF page = FirstPage THEN 0 ELSE @,
                ![s].cell = [i \in 1 .. Capacity |-> IF i \in page THEN Erased ELSE @[i]]]

FsInit ==
  /\ flash = [s \in {0, 1} |-> Blank]
  /\ fsSection = -1 /\ flashWP = 1 /\ nextIno = 1
  /\ fhTable = [f \in Fds |-> NoFh]
  /\ auxbuf = None
  /\ call = NoCall /\ gc = NoGc
  /\ stamps = [file |-> 0, chunk |-> 0]

(* wrFlashN: programming a cell.  There is no cell behind the last one:    *)
(* the assertion fails and the station starts again.                       *)
Programmed(s, i, r) == [flash EXCEPT ![s].cell[i] = r]
Restarted ==
  /\ fsSection' = -1
  /\ fhTable' = [f \in Fds |-> NoFh]
  /\ call' = NoCall /\ gc' = NoGc
  /\ flashWP' = 1 /\ nextIno' = 1 /\ auxbuf' = None
  /\ UNCHANGED <<flash, stamps>>
-----------------------------------------------------------------------------
(* Fault: the section that was begun last wins, complete or not. *)
CurrentNewer ==
  IF flash[1].magic = 0 THEN (IF flash[0].magic = 0 THEN -1 ELSE 0)
  ELSE IF flash[0].magic = 0 \/ flash[1].magic >= flash[0].magic THEN 1 ELSE 0

(* fs_ck, at the start.  The sections are wiped page by page; the power    *)
(* may fail in between.                                                    *)
Current ==
  IF flash[1].magic = 0 THEN (IF flash[0].magic = 0 THEN -1 ELSE 0)
  ELSE IF flash[0].magic = 0 \/ flash[1].magic <= flash[0].magic THEN 1 ELSE 0

ValidEnd(s) ==
  LET bad == {i \in 1 .. Capacity : ~Whole(Cells(s)[i])}
  IN  IF bad = {} THEN Capacity + 1 ELSE CHOOSE i \in bad : \A j \in bad : i <= j
Dirty(s) == \E i \in ValidEnd(s) .. Capacity : Cells(s)[i] # Erased
Pages == {FirstPage, 1 .. Capacity \ FirstPage}

(* Fault: only the page with the magic number is wiped. *)
UnwipedMagicOnly(s) == {p \in {FirstPage} : flash[s].magic # 0}

Unwiped(s) == {p \in Pages : \/ \E i \in p : Cells(s)[i] # Erased
                             \/ p = FirstPage /\ flash[s].magic # 0}

(* fs_smartErase, one page. *)
Wipe(s) ==
  /\ Unwiped(s) # {}
  /\ flash' = Wiped(s, IF FirstPage \in Unwiped(s) THEN FirstPage ELSE 1 .. Capacity \ FirstPage)

MaxInoOf(s) ==
  LET inos == {Cells(s)[i].ino : i \in 1 .. ValidEnd(s) - 1} \cup {0}
  IN  CHOOSE m \in inos : \A n \in inos : n <= m

(* fs_gc up to the first copy: the open files, the magic of the new        *)
(* section; its cells follow.                                              *)
StartGc(s, end, emergency) ==
  /\ fsSection' = s
  /\ gc' = [end |-> end, emergency |-> emergency]
  /\ flash' = [flash EXCEPT ![Other(s)].magic = flash[s].magic + 1]
  /\ flashWP' = 1

Mount ==
  /\ fsSection = -1
  /\ \/ /\ Current = -1
        /\ \/ /\ \/ Wipe(0)
                 \/ Unwiped(0) = {} /\ Wipe(1)
              /\ UNCHANGED <<fsSection, flashWP, nextIno>>
           \/ /\ Unwiped(0) = {} /\ Unwiped(1) = {}
              /\ flash' = [flash EXCEPT ![0].magic = 1]
              /\ fsSection' = 0 /\ flashWP' = 1 /\ nextIno' = 1
        /\ UNCHANGED gc
     \/ /\ Current # -1 /\ Dirty(Current)
        /\ StartGc(Current, ValidEnd(Current), FALSE)
        /\ nextIno' = MaxInoOf(Current) + 1
     \/ /\ Current # -1 /\ ~Dirty(Current)
        /\ \/ Wipe(Other(Current)) /\ UNCHANGED <<fsSection, flashWP, nextIno>>
           \/ /\ Unwiped(Other(Current)) = {}
              /\ fsSection' = Current
              /\ flashWP' = ValidEnd(Current)
              /\ nextIno' = MaxInoOf(Current) + 1
              /\ UNCHANGED flash
        /\ UNCHANGED gc
  /\ UNCHANGED <<fhTable, auxbuf, call, stamps>>
-----------------------------------------------------------------------------
(* fs_gc: one copy after the other into the new section. *)
GcCopy ==
  LET out == Collected(LogOf(fsSection, gc.end), gc.emergency)
  IN  /\ gc.end > 0 /\ flashWP <= Len(out)
      /\ \/ /\ flashWP > Capacity
            /\ Restarted
         \/ /\ flashWP <= Capacity
            /\ flash' = Programmed(Other(fsSection), flashWP, out[flashWP])
            /\ flashWP' = flashWP + 1
            /\ UNCHANGED <<fsSection, nextIno, fhTable, auxbuf, call, gc, stamps>>

(* All is copied.  The magic of the old section goes with its first page.  *)
(* auxbuf holds what was copied last, in the clear or encrypted.           *)
GcCopied ==
  LET rs  == LogOf(fsSection, gc.end)
      survived == Survivors(rs)
  IN  /\ gc.end > 0 /\ flashWP > Len(Collected(rs, gc.emergency))
      /\ flash' = Wiped(fsSection, FirstPage)
      /\ fhTable' = [f \in Fds |-> Reinstated(rs, gc.emergency, fhTable[f])]
      /\ nextIno' = Len(survived) + 1
      /\ IF survived = <<>> \/ auxbuf = None THEN UNCHANGED auxbuf
         ELSE auxbuf' \in {Garbage, survived[Len(survived)].name}
      /\ gc' = [gc EXCEPT !.end = 0]
      /\ UNCHANGED <<fsSection, flashWP, call, stamps>>

(* The new section is current; files open for reading find their place. *)
GcSwitch ==
  LET new == Other(fsSection)
      rs  == LogOf(new, flashWP)
  IN  /\ gc.end = 0
      /\ flash' = Wiped(fsSection, 1 .. Capacity \ FirstPage)
      /\ fsSection' = new
      /\ fhTable' = [f \in Fds |->
                       LET fh == fhTable[f]
                       IN  IF fh.ino # 0 /\ ~fh.bad /\ fh.at # 0 THEN Sought(rs, fh, fh.foff) ELSE fh]
      /\ call' = IF call.op = "gc" THEN NoCall ELSE call
      /\ gc' = NoGc
      /\ UNCHANGED <<flashWP, nextIno, auxbuf, stamps>>
-----------------------------------------------------------------------------
InUse == fsSection # -1 /\ gc = NoGc
Full == flashWP > Capacity \/ nextIno >= MAX_INO - 2

(* What the clients of this instance avoid: a file being open for reading  *)
(* while it is empty, or at all after it was replaced or removed, when a   *)
(* collection takes place; a rename onto an existing file; to open or      *)
(* rename a file when the section is full; and to replace a file behind    *)
(* the place where a phase runs out of cache: the next phase begins there  *)
(* and copies the same file again.                                         *)
NoRisk(emergency) ==
  /\ LET survived == Survivors(Recs)
     IN  "twice" \in Risks \/ \A u, v \in DOMAIN survived : survived[u].file = survived[v].file => u = v
  /\ \A f \in Fds : fhTable[f].ino # 0 =>
       /\ "stale" \in Risks \/ ~Reinstated(Recs, emergency, fhTable[f]).bad
       /\ "empty" \in Risks \/ fhTable[f].at = 0 \/ DataOf(Recs, fhTable[f].ino) # <<>>
StillFull == Len(Collected(Recs, FALSE)) >= Capacity \/ Len(Survivors(Recs)) + 1 >= MAX_INO - 2
MayCollect(op) ==
  Full => /\ flash[fsSection].magic + 2 <= MaxMagic
          /\ op = "write" \/ "aux" \in Risks
          /\ NoRisk(FALSE) /\ (StillFull => NoRisk(TRUE))

(* A procedure that looks for space first: its name goes to auxbuf. *)
Call(c) ==
  /\ InUse /\ call = NoCall /\ MayCollect(c.op)
  /\ call' = c
  /\ auxbuf' = c.name
  /\ UNCHANGED <<flash, fsSection, flashWP, nextIno, fhTable, gc, stamps>>

CallOpen(n, mode) ==
  /\ mode # "read" => stamps.file < MaxFiles
  /\ Call([NoCall EXCEPT !.op = "open", !.name = n, !.mode = mode])
CallRename(a, b) ==
  /\ InUse /\ a # b
  /\ "over" \in Risks \/ Find(Recs, b) = 0
  /\ Call([NoCall EXCEPT !.op = "rename", !.name = a, !.to = b])

(* fd2fh *)
Good(f) == fhTable[f].ino # 0 /\ ~fhTable[f].bad
CallWrite(f) ==
  /\ Good(f) /\ fhTable[f].at = 0
  /\ stamps.chunk < MaxWrites
  /\ Call([NoCall EXCEPT !.op = "write", !.fd = f])

(* isFlashFull: a collection, an emergency collection, ENOSPC. *)
MakeSpace ==
  /\ InUse /\ call # NoCall /\ Full
  /\ \/ /\ call.tries < 2
        /\ StartGc(fsSection, flashWP, call.tries = 1)
        /\ call' = [call EXCEPT !.tries = @ + 1]
        /\ UNCHANGED auxbuf
     \/ /\ call.tries = 2
        /\ call' = NoCall /\ auxbuf' = None
        /\ UNCHANGED <<flash, fsSection, flashWP, gc>>
  /\ UNCHANGED <<nextIno, fhTable, stamps>>

(* fs_gc asked for by the shell. *)
ShellGc(emergency) ==
  /\ InUse /\ call = NoCall /\ NoRisk(emergency)
  /\ flash[fsSection].magic < MaxMagic
  /\ StartGc(fsSection, flashWP, emergency)
  /\ call' = [NoCall EXCEPT !.op = "gc"]
  /\ UNCHANGED <<nextIno, fhTable, auxbuf, stamps>>

(* wrFlashNwp of a record at the end of the log. *)
Log(r) ==
  /\ flash' = Programmed(fsSection, flashWP, r)
  /\ flashWP' = flashWP + 1

Free == {f \in Fds : fhTable[f].ino = 0}
FreeFd == CHOOSE f \in Free : \A g \in Free : f <= g

(* fs_open once there is space. *)
FinishOpen ==
  LET i == Find(Recs, auxbuf)
      create == call.mode = "trunc" \/ (call.mode = "append" /\ i = 0)
  IN  /\ InUse /\ call.op = "open" /\ ~Full
      /\ \/ /\ Free = {} \/ (call.mode = "read" /\ i = 0)
            /\ UNCHANGED <<flash, flashWP, nextIno, fhTable, stamps>>
         \/ /\ Free # {} /\ create
            /\ Log(Rec("FILE", nextIno, auxbuf, stamps.file + 1))
            /\ nextIno' = nextIno + 1
            /\ fhTable' = [fhTable EXCEPT ![FreeFd] =
                             [NoFh EXCEPT !.ino = nextIno, !.id = stamps.file + 1]]
            /\ stamps' = [stamps EXCEPT !.file = @ + 1]
         \/ /\ Free # {} /\ ~create /\ i # 0
            /\ fhTable' = [fhTable EXCEPT ![FreeFd] =
                             [NoFh EXCEPT !.ino = Recs[i].ino, !.id = Recs[i].arg,
                                          !.at = IF call.mode = "read" THEN i ELSE 0,
                                          !.droff = IF call.mode = "read" THEN 1 ELSE 0]]
            /\ UNCHANGED <<flash, flashWP, nextIno, stamps>>
      /\ call' = NoCall /\ auxbuf' = None
      /\ UNCHANGED <<fsSection, gc>>

(* fs_write once there is space; fh was looked up before. *)
FinishWrite ==
  /\ InUse /\ call.op = "write" /\ ~Full
  /\ Log(Rec("DATA", fhTable[call.fd].ino, None, stamps.chunk + 1))
  /\ stamps' = [stamps EXCEPT !.chunk = @ + 1]
  /\ call' = NoCall
  /\ UNCHANGED <<fsSection, nextIno, fhTable, auxbuf, gc>>

FinishRename ==
  LET i == Find(Recs, auxbuf)
  IN  /\ InUse /\ call.op = "rename" /\ ~Full
      /\ IF i = 0 THEN UNCHANGED <<flash, flashWP>>
         ELSE Log(Rec("RENAME", Recs[i].ino, auxbuf, call.to))
      /\ call' = NoCall /\ auxbuf' = None
      /\ UNCHANGED <<fsSection, nextIno, fhTable, gc, stamps>>

(* fs_unlink does not look for space. *)
Unlink(n) ==
  LET i == Find(Recs, n)
  IN  /\ InUse /\ call = NoCall /\ i # 0
      /\ \/ /\ flashWP > Capacity
            /\ Restarted
         \/ /\ flashWP <= Capacity
            /\ Log(Rec("DELETE", Recs[i].ino, n, 0))
            /\ UNCHANGED <<fsSection, nextIno, fhTable, auxbuf, call, gc, stamps>>

(* fs_read of one record's worth of data. *)
Read(f) ==
  LET fh == fhTable[f]
      next == NextData(Recs, fh.at, Recs[fh.at].ino)
  IN  /\ InUse /\ call = NoCall /\ Good(f) /\ fh.at # 0
      /\ \/ /\ fh.droff = 0
            /\ fhTable' = [fhTable EXCEPT ![f].droff = 1, ![f].foff = @ + 1]
         \/ /\ fh.droff = 1 /\ next # 0
            /\ fhTable' = [fhTable EXCEPT ![f].at = next, ![f].foff = @ + 1]
      /\ UNCHANGED <<flash, fsSection, flashWP, nextIno, auxbuf, call, gc, stamps>>

Close(f) ==
  /\ InUse /\ call = NoCall /\ Good(f)
  /\ fhTable' = [fhTable EXCEPT ![f] = NoFh]
  /\ UNCHANGED <<flash, fsSection, flashWP, nextIno, auxbuf, call, gc, stamps>>
-----------------------------------------------------------------------------
(* The power fails, perhaps in the middle of a record; a cell that is      *)
(* programmed with what it holds does not suffer.                          *)
Crash ==
  /\ fsSection # -1
  /\ fsSection' = -1
  /\ flashWP' = 1 /\ nextIno' = 1 /\ auxbuf' = None
  /\ fhTable' = [f \in Fds |-> NoFh]
  /\ call' = NoCall /\ gc' = NoGc
  /\ \/ UNCHANGED flash
     \/ /\ gc = NoGc /\ flashWP <= Capacity
        /\ flash[fsSection].magic < MaxMagic
        /\ flash' = Programmed(fsSection, flashWP, Torn(Erased))
     \/ /\ gc.end > 0
        /\ LET out == Collected(LogOf(fsSection, gc.end), gc.emergency)
           IN  /\ flashWP <= Len(out) /\ flashWP <= Capacity
               /\ Cells(Other(fsSection))[flashWP] # out[flashWP]
               /\ flash' = Programmed(Other(fsSection), flashWP, Torn(out[flashWP]))
  /\ UNCHANGED stamps

Client ==
  \/ \E n \in Names : Unlink(n) \/ \E mode \in {"trunc", "append", "read"} : CallOpen(n, mode)
  \/ \E a, b \in Names : CallRename(a, b)
  \/ \E f \in Fds : CallWrite(f) \/ Read(f) \/ Close(f)
  \/ \E e \in BOOLEAN : ShellGc(e)
Finish == MakeSpace \/ FinishOpen \/ FinishWrite \/ FinishRename
Collect == GcCopy \/ GcCopied \/ GcSwitch
FsNext == Mount \/ Client \/ Finish \/ Collect \/ Crash

FsSpec == FsInit /\ [][FsNext]_fsVars
-----------------------------------------------------------------------------
TypeOK ==
  /\ \A s \in {0, 1} : flash[s].magic \in 0 .. MaxMagic /\ DOMAIN Cells(s) = 1 .. Capacity
  /\ fsSection \in {-1, 0, 1}
  /\ flashWP \in 1 .. Capacity + 1
  /\ nextIno \in 1 .. MAX_INO
  /\ \A f \in Fds : fhTable[f].ino \in 0 .. MAX_INO /\ fhTable[f].at \in 0 .. Capacity
  /\ auxbuf \in Names \cup {None, Garbage}
  /\ gc.end \in -1 .. Capacity + 1
  /\ stamps.file \in 0 .. MaxFiles /\ stamps.chunk \in 0 .. MaxWrites

(* The files one finds after a power failure now. *)
StoreOf(rs) ==
  [n \in Names |->
    LET i == Find(rs, n)
        data == DataOf(rs, rs[i].ino)
    IN  IF i = 0 THEN [id |-> 0, data |-> <<>>]
        ELSE [id |-> rs[i].arg, data |-> [k \in DOMAIN data |-> data[k].arg]]]
Stored ==
  IF Current = -1 THEN [n \in Names |-> [id |-> 0, data |-> <<>>]]
  ELSE CHOOSE st \in {StoreOf(rs) : rs \in {LogOf(Current, ValidEnd(Current))}} : TRUE

(* Whatever the layout of the log, collections and power failures at any   *)
(* step of them included, there are the files FileStore promises: nothing  *)
(* is lost, nothing comes back, no data changes its file (fs_ck, fs_gc,    *)
(* fs_findFile and all operations together).                               *)
Store == INSTANCE FileStore WITH store <- Stored, Ids <- 1 .. MaxFiles, Chunks <- 1 .. MaxWrites
ImplementsFiles == Store!Spec

(* A good handle stands for the file that was opened, the one its name     *)
(* leads to, at the offset it has been read to, across collections that    *)
(* renumber the files (fs_gc, fs_lseek, fs_write).                         *)
HandlesRight ==
  InUse => \A f \in Fds : Good(f) =>
    LET fh == fhTable[f]
    IN  /\ \A i \in DOMAIN Recs : Recs[i].cmd = "FILE" /\ Recs[i].ino = fh.ino => Recs[i].arg = fh.id
        /\ \A n \in Names :
             LET i == Find(Recs, n)
             IN  i # 0 /\ Recs[i].arg = fh.id => Recs[i].ino = fh.ino
        /\ fh.at # 0 =>
             /\ fh.at < flashWP /\ Recs[fh.at].ino = fh.ino
             /\ fh.foff = Len(DataOf(SubSeq(Recs, 1, fh.at), fh.ino)) - (1 - fh.droff)

(* A cell is only programmed when it is erased, or with what it holds      *)
(* already: fs_ck erases nothing before it repeats an interrupted          *)
(* collection into the other section.                                      *)
EraseFirst ==
  [][\A s \in {0, 1}, i \in 1 .. Capacity :
       LET old == Cells(s)[i]
           new == flash'[s].cell[i]
       IN  old = new \/ old = Erased \/ new = Erased \/ old = Torn(new)]_flash

(* What survives a collection fits into the new section, the assertion in  *)
(* wrFlashN holds; otherwise the station can never collect again.          *)
GcFits ==
  gc.end > 0 =>
    Len(Collected(LogOf(fsSection, gc.end), gc.emergency)) <= Capacity

(* A collection takes every file with it, those that are open included, and *)
(* leaves room for it (fs_gc).                                             *)
CollectionRight == HandlesRight /\ GcFits

(* A lookup, creation or rename is for the name its caller passed:         *)
(* the file name put into auxbuf is still there after isFlashFull.         *)
NameKept == InUse /\ call.op \in {"open", "rename"} /\ ~Full => auxbuf = call.name
=============================================================================
