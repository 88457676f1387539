----------------------------- MODULE FileStore -----------------------------
(***************************************************************************)
(* What the flash file system promises to the station: a set of named      *)
(* files to which one only appends, and every change to it happens at      *)
(* once or not at all, power failures included.  FlashFs.tla describes     *)
(* the file system of fs.c and implements this module.                     *)
(***************************************************************************)
EXTENDS Naturals, Sequences

CONSTANTS
  Names,       \* file names
  LogNames,    \* those given up when there is no space left
  Ids,         \* what tells a file from its successor under the same name
  Chunks       \* what a write appends

VARIABLE
  store        \* store[n]: the file under that name

Missing == [id |-> 0, data |-> <<>>]

Init == store = [n \in Names |-> Missing]

(* A new, empty file, whatever had this name before. *)
Created(s) ==
  {[s EXCEPT ![n] = [id |-> i, data |-> <<>>]] : n \in Names, i \in Ids \ {s[m].id : m \in Names}}

Present(s) == {n \in Names : s[n] # Missing}

(* A file grows at its end. *)
Extended(s) == {[s EXCEPT ![n].data = Append(@, d)] : n \in Present(s), d \in Chunks}

Unlinked(s) == {[s EXCEPT ![n] = Missing] : n \in Present(s)}

(* The file keeps its data, and replaces the one of the new name. *)
Renamed(s) ==
  UNION {{[s EXCEPT ![a] = Missing, ![b] = s[a]] : b \in Names \ {a}} : a \in Present(s)}

WithoutLogs(s) == [n \in Names |-> IF n \in LogNames THEN Missing ELSE s[n]]

Next ==
  store' \in Created(store) \cup Extended(store) \cup Unlinked(store) \cup Renamed(store)
              \cup {WithoutLogs(store)}

Spec == Init /\ [][Next]_store
=============================================================================
