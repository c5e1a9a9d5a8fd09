------------------------------- MODULE Store -------------------------------
(***************************************************************************)
(* The host's print store (src/crates/fprintd/src/storage.rs) as the       *)
(* system calls it makes on a file system that may crash.                  *)
(*                                                                         *)
(* A print lives at <root>/<user>/<driver>/<device>/<finger>; a key is     *)
(* that path as a sequence.  Beside a print there may be its temp file     *)
(* .<finger>.tmp.  A file's contents are two chunks, so that it can be     *)
(* half written and half read.  The calls come from the pumps and method   *)
(* handlers of device.rs, which run on the threads of one runtime: a       *)
(* worker is one such thread.                                              *)
(*                                                                         *)
(* The file system keeps POSIX's promises: names are changed atomically,   *)
(* an open file survives its name, fsync makes the contents durable.  The  *)
(* tree reaches the disk as a whole and in order (a journal), contents in  *)
(* any order unless synced.                                                *)
(***************************************************************************)
EXTENDS Naturals, FiniteSets, SequencesExt

CONSTANTS
  Keys,      \* paths of prints, without the root
  Prints, Alien, Workers, None,  \* as in PrintStore
  Inodes,    \* files' identities
  Asks,      \* the calls made: triples of a worker, an operation and a key
  Exclusive  \* whether saves of one key never overlap

ASSUME StoreAssumption ==
  /\ \A k \in Keys : k \in Seq(STRING) /\ Len(k) > 1
  /\ None \notin Prints \cup {Alien} \cup Inodes
  /\ Alien \notin Prints
  /\ Exclusive \in BOOLEAN
  /\ Asks \subseteq Workers \X {"save", "load", "list", "delete"} \X Keys

VARIABLES
  dirs,  \* the directories there are
  live,  \* each key's file
  temp,  \* each key's temp file
  saved, \* the same three as they are on the disk
  data,  \* each inode's contents
  disk,  \* each inode's contents on the disk
  pc,    \* where each worker is
  call,  \* what it was asked
  fd,    \* the inode of its open file
  at,    \* how far it is: directory levels, or chunks of the file
  got    \* what its load or listing has read so far; at the end of a call, its answer

names == <<dirs, live, temp>>
vars == <<dirs, live, temp, saved, data, disk, pc, call, fd, at, got>>

Chunks == {1, 2}
Empty == [c \in Chunks |-> None]
Ops == {"save", "load", "list", "delete"}
NoAsk == [op |-> "none", key |-> None, print |-> None]

\* What from_bytes makes of a file: a print, or nothing if a part is missing.
Decoded(c) == IF c[1] = c[2] THEN c[1] ELSE None
\* load's checks of the finger, the user and the driver.
Own(p) == IF p = Alien THEN None ELSE p

Dir(k, n) == SubSeq(k, 1, n)
Levels(k) == Len(k) - 1
Exists(d) == d = <<>> \/ d \in dirs

\* No file, and no directory, in d.
Vacant(d) ==
  /\ \A k \in Keys : Front(k) = d => live[k] = None /\ temp[k] = None
  /\ \A e \in dirs : Front(e) # d

\* An inode that no name, open file or name on the disk refers to.
Free(i) ==
  /\ \A k \in Keys : i \notin {live[k], temp[k], saved.live[k], saved.temp[k]}
  /\ \A w \in Workers : fd[w] # i

Key(w) == call[w].key
Goto(w, p) == pc' = [pc EXCEPT ![w] = p]
Answer(w, a) ==
  /\ Goto(w, "done")
  /\ got' = [got EXCEPT ![w] = a]
  /\ fd' = [fd EXCEPT ![w] = None]
  /\ at' = [at EXCEPT ![w] = 0]
Fails(w) == Answer(w, <<"failed">>)
\* A load and a listing answer an error as if there were nothing.
FailsAsAsked(w) ==
  CASE call[w].op = "load" -> Answer(w, <<"found", None>>)
    [] call[w].op = "list" -> Answer(w, <<"listed", {}>>)
    [] OTHER -> Fails(w)

Init ==
  \E have \in [Keys -> Prints \cup {Alien, None}], ino \in [Keys -> Inodes] :
    /\ IsInjective(ino)
    /\ dirs = UNION {{Dir(k, n) : n \in 1..Levels(k)} : k \in {j \in Keys : have[j] # None}}
    /\ live = [k \in Keys |-> IF have[k] = None THEN None ELSE ino[k]]
    /\ temp = [k \in Keys |-> None]
    /\ saved = [dirs |-> dirs, live |-> live, temp |-> temp]
    /\ data = [i \in Inodes |-> [c \in Chunks |->
                 IF \E k \in Keys : live[k] = i
                 THEN have[CHOOSE k \in Keys : live[k] = i] ELSE None]]
    /\ disk = data
    /\ pc = [w \in Workers |-> "idle"]
    /\ call = [w \in Workers |-> NoAsk]
    /\ fd = [w \in Workers |-> None]
    /\ at = [w \in Workers |-> 0]
    /\ got = [w \in Workers |-> <<"none">>]

-----------------------------------------------------------------------------
(* Calls.                                                                  *)

FirstPlace == [save |-> "climb", load |-> "open", list |-> "list", delete |-> "unlink"]

Ask(w, op, k, p) ==
  /\ pc[w] = "idle"
  /\ <<w, op, k>> \in Asks
  /\ op = "save" /\ Exclusive => \A v \in Workers : ~(call[v].op = "save" /\ call[v].key = k)
  /\ call' = [call EXCEPT ![w] = [op |-> op, key |-> k, print |-> p]]
  /\ at' = [at EXCEPT ![w] = IF op \in {"save", "delete"} THEN Levels(k) ELSE 0]
  /\ Goto(w, FirstPlace[op])
  /\ UNCHANGED <<names, saved, data, disk, fd, got>>

Return(w) ==
  /\ pc[w] = "done"
  /\ Goto(w, "idle")
  /\ call' = [call EXCEPT ![w] = NoAsk]
  /\ got' = [got EXCEPT ![w] = <<"none">>]
  /\ UNCHANGED <<names, saved, data, disk, fd, at>>

\* A system call fails before the temp file is there, also because the parent was
\* pruned on the way down, or in the unlink, a load or a listing: nothing is undone.
GiveUp(w) ==
  /\ pc[w] \in {"climb", "descend", "open", "read", "reread", "list", "unlink"}
  /\ FailsAsAsked(w)
  /\ UNCHANGED <<names, saved, data, disk, call>>

-----------------------------------------------------------------------------
(* save: the directories, from the deepest one that is missing.            *)

\* mkdir with no parent there: try the parent first.
Climb(w) ==
  /\ pc[w] = "climb"
  /\ ~Exists(Dir(Key(w), at[w] - 1))
  /\ at' = [at EXCEPT ![w] = @ - 1]
  /\ UNCHANGED <<names, saved, data, disk, pc, call, fd, got>>

MakeDir(w) ==
  /\ pc[w] \in {"climb", "descend"}
  /\ Exists(Dir(Key(w), at[w] - 1))
  /\ dirs' = dirs \cup {Dir(Key(w), at[w])}
  /\ IF at[w] = Levels(Key(w))
     THEN Goto(w, "create") /\ at' = [at EXCEPT ![w] = 0]
     ELSE Goto(w, "descend") /\ at' = [at EXCEPT ![w] = @ + 1]
  /\ UNCHANGED <<live, temp, saved, data, disk, call, fd, got>>

(* write_atomically.                                                       *)

\* The temp file is created, or the one that is there truncated.
CreateTemp(w) ==
  /\ pc[w] = "create"
  /\ Exists(Front(Key(w)))
  /\ \E i \in Inodes :
       /\ IF temp[Key(w)] = None THEN Free(i) ELSE i = temp[Key(w)]
       /\ temp' = [temp EXCEPT ![Key(w)] = i]
       /\ fd' = [fd EXCEPT ![w] = i]
       /\ data' = [data EXCEPT ![i] = Empty]
       /\ disk' = IF temp[Key(w)] = None THEN [disk EXCEPT ![i] = Empty] ELSE disk
  /\ Goto(w, "write")
  /\ UNCHANGED <<dirs, live, saved, call, at, got>>

\* write_all: at this descriptor's own offset.
Write(w) ==
  /\ pc[w] = "write"
  /\ data' = [data EXCEPT ![fd[w]][at[w] + 1] = call[w].print]
  /\ at' = [at EXCEPT ![w] = @ + 1]
  /\ Goto(w, IF at[w] = 1 THEN "sync" ELSE "write")
  /\ UNCHANGED <<names, saved, disk, call, fd, got>>

NoSync(w) ==   \* mutant
  /\ pc[w] = "sync"
  /\ Goto(w, "rename")
  /\ fd' = [fd EXCEPT ![w] = None]
  /\ UNCHANGED <<names, saved, data, disk, call, at, got>>
\* sync_all, and the file is closed.
Sync(w) ==
  /\ pc[w] = "sync"
  /\ disk' = [disk EXCEPT ![fd[w]] = data[fd[w]]]
  /\ fd' = [fd EXCEPT ![w] = None]
  /\ Goto(w, "rename")
  /\ UNCHANGED <<names, saved, data, call, at, got>>

Rename(w) ==
  /\ pc[w] = "rename"
  /\ temp[Key(w)] # None
  /\ live' = [live EXCEPT ![Key(w)] = temp[Key(w)]]
  /\ temp' = [temp EXCEPT ![Key(w)] = None]
  /\ Answer(w, <<"ok">>)
  /\ UNCHANGED <<dirs, saved, data, disk, call>>

\* Any of these fails, for a reason of the file system's or because the
\* directory or the temp file is gone.
WriteFails(w) ==
  /\ pc[w] \in {"create", "write", "sync", "rename"}
  /\ Goto(w, "cleanup")
  /\ fd' = [fd EXCEPT ![w] = None]
  /\ at' = [at EXCEPT ![w] = 0]
  /\ UNCHANGED <<names, saved, data, disk, call, got>>

RemoveTemp(w) ==
  /\ pc[w] = "cleanup"
  /\ temp' = [temp EXCEPT ![Key(w)] = None]
  /\ Fails(w)
  /\ UNCHANGED <<dirs, live, saved, data, disk, call>>

-----------------------------------------------------------------------------
(* load, list_fingers and delete.                                          *)

LoadNothing(w) ==
  /\ pc[w] = "open"
  /\ live[Key(w)] = None
  /\ Answer(w, <<"found", None>>)
  /\ UNCHANGED <<names, saved, data, disk, call>>

OpenPrint(w) ==
  /\ pc[w] = "open"
  /\ live[Key(w)] # None
  /\ fd' = [fd EXCEPT ![w] = live[Key(w)]]
  /\ Goto(w, "read")
  /\ UNCHANGED <<names, saved, data, disk, call, at, got>>

ReadFirst(w) ==
  /\ pc[w] = "read"
  /\ got' = [got EXCEPT ![w] = <<data[fd[w]][1]>>]
  /\ Goto(w, "reread")
  /\ UNCHANGED <<names, saved, data, disk, call, fd, at>>

\* The end of the file, and load's checks.
ReadRest(w) ==
  /\ pc[w] = "reread"
  /\ Answer(w, <<"found", Own(Decoded(<<got[w][1], data[fd[w]][2]>>))>>)
  /\ UNCHANGED <<names, saved, data, disk, call>>

OpenDir(w) ==
  /\ pc[w] = "list"
  /\ Exists(Front(Key(w)))
  /\ Goto(w, "entries")
  /\ got' = [got EXCEPT ![w] = <<"listed", {}>>]
  /\ UNCHANGED <<names, saved, data, disk, call, fd, at>>

\* An entry named by one digit: the temp files are not.
ListFinger(w) ==
  /\ pc[w] = "entries"
  /\ \E k \in Keys :
       /\ Front(k) = Front(Key(w)) /\ live[k] # None
       /\ got' = [got EXCEPT ![w] = <<"listed", @[2] \cup {k}>>]
  /\ UNCHANGED <<names, saved, data, disk, pc, call, fd, at>>

\* The last entry, or one that cannot be read.
EndList(w) ==
  /\ pc[w] = "entries"
  /\ Answer(w, got[w])
  /\ UNCHANGED <<names, saved, data, disk, call>>

DeleteNothing(w) ==
  /\ pc[w] = "unlink"
  /\ live[Key(w)] = None
  /\ Answer(w, <<"ok">>)
  /\ UNCHANGED <<names, saved, data, disk, call>>

Unlink(w) ==
  /\ pc[w] = "unlink"
  /\ live[Key(w)] # None
  /\ live' = [live EXCEPT ![Key(w)] = None]
  /\ Goto(w, "prune")
  /\ UNCHANGED <<dirs, temp, saved, data, disk, call, fd, at, got>>

\* rmdir refuses a directory that is missing or not empty.
Removable(d) == d \in dirs /\ Vacant(d)

\* Up to, and not including, the root.
Prune(w) ==
  /\ pc[w] = "prune"
  /\ at[w] > 0
  /\ Removable(Dir(Key(w), at[w]))
  /\ dirs' = dirs \ {Dir(Key(w), at[w])}
  /\ at' = [at EXCEPT ![w] = @ - 1]
  /\ UNCHANGED <<live, temp, saved, data, disk, pc, call, fd, got>>

StopPruning(w) ==
  /\ pc[w] = "prune"
  /\ at[w] = 0 \/ ~Removable(Dir(Key(w), at[w]))
  /\ Answer(w, <<"ok">>)
  /\ UNCHANGED <<names, saved, data, disk, call>>

-----------------------------------------------------------------------------
(* The file system, and the machine.                                       *)

\* The journal commits the tree.
Commit ==
  /\ saved' = [dirs |-> dirs, live |-> live, temp |-> temp]
  /\ UNCHANGED <<names, data, disk, pc, call, fd, at, got>>

\* What was written so far is written back.
WriteBack(i) ==
  /\ disk' = [disk EXCEPT ![i] = data[i]]
  /\ UNCHANGED <<names, saved, data, pc, call, fd, at, got>>

Crash ==
  /\ dirs' = saved.dirs /\ live' = saved.live /\ temp' = saved.temp
  /\ data' = disk
  /\ pc' = [w \in Workers |-> "idle"]
  /\ call' = [w \in Workers |-> NoAsk]
  /\ fd' = [w \in Workers |-> None]
  /\ at' = [w \in Workers |-> 0]
  /\ got' = [w \in Workers |-> <<"none">>]
  /\ UNCHANGED <<saved, disk>>

Worker(w) ==
  \/ \E k \in Keys, op \in Ops \ {"save"} : Ask(w, op, k, None)
  \/ \E k \in Keys, p \in Prints : Ask(w, "save", k, p)
  \/ Return(w) \/ GiveUp(w)
  \/ Climb(w) \/ MakeDir(w)
  \/ CreateTemp(w) \/ Write(w) \/ Sync(w) \/ Rename(w) \/ WriteFails(w) \/ RemoveTemp(w)
  \/ LoadNothing(w) \/ OpenPrint(w) \/ ReadFirst(w) \/ ReadRest(w)
  \/ OpenDir(w) \/ ListFinger(w) \/ EndList(w)
  \/ DeleteNothing(w) \/ Unlink(w) \/ Prune(w) \/ StopPruning(w)

Next ==
  \/ \E w \in Workers : Worker(w)
  \/ Commit
  \/ \E i \in Inodes : WriteBack(i)
  \/ Crash

Spec == Init /\ [][Next]_vars

-----------------------------------------------------------------------------
(* What the store promises.                                                *)

Content(l, d) == [k \in Keys |-> IF l[k] = None THEN None
                                 ELSE IF Decoded(d[l[k]]) = None THEN "torn"
                                 ELSE Decoded(d[l[k]])]

\* A load is decided when it opens the file, a delete when it unlinks it.
AnswerOf(w) ==
  IF pc[w] \in {"entries", "done"} THEN got[w]
  ELSE IF pc[w] \in {"read", "reread"} THEN <<"found", Own(Decoded(data[fd[w]]))>>
  ELSE IF pc[w] = "prune" THEN <<"ok">>
  ELSE <<"none">>

CallOf(w) == [op |-> call[w].op, key |-> call[w].key, print |-> call[w].print,
              answer |-> AnswerOf(w)]

Abstract == INSTANCE PrintStore WITH
  records <- Content(live, data),
  committed <- Content(saved.live, disk),
  calls <- [w \in Workers |-> CallOf(w)]

\* Every call of the store takes effect in one step or not at all, also when it
\* overlaps others or the machine crashes: what is loaded was stored whole, and what
\* is listed had a print at a moment of the call.
Linearizable == Abstract!Spec

\* A print file holds a whole print at every moment, so that another reader of
\* the same tree never sees half of one.
NeverTorn == \A k \in Keys : live[k] # None => Decoded(data[live[k]]) # None
=============================================================================
