---------------------------- MODULE StoreProofs ----------------------------
(***************************************************************************)
(* Proofs about Store: when saves of one key do not overlap, a print file  *)
(* is whole at every moment and the store implements PrintStore, for any   *)
(* keys, workers and crashes.                                              *)
(***************************************************************************)
EXTENDS Store, TLAPS

Places == {"idle", "climb", "descend", "create", "write", "sync", "rename", "cleanup",
           "open", "read", "reread", "list", "entries", "unlink", "prune", "done"}
SavePlaces == {"climb", "descend", "create", "write", "sync", "rename", "cleanup"}
Names == [Keys -> Inodes \cup {None}]
Chunk == Prints \cup {Alien, None}

Typed ==
  /\ live \in Names /\ temp \in Names
  /\ saved.live \in Names /\ saved.temp \in Names
  /\ data \in [Inodes -> [Chunks -> Chunk]]
  /\ disk \in [Inodes -> [Chunks -> Chunk]]
  /\ pc \in [Workers -> Places]
  /\ call \in [Workers -> [op : Ops \cup {"none"}, key : Keys \cup {None}, print : Prints \cup {None}]]
  /\ fd \in [Workers -> Inodes \cup {None}]
  /\ at \in [Workers -> Int]
  /\ DOMAIN got = Workers

\* No file has two names, now or on the disk, and what is on the disk under a
\* print's name is not being written.
Distinct(l, t) ==
  /\ \A j, k \in Keys : l[j] = l[k] /\ l[j] # None => j = k
  /\ \A j, k \in Keys : t[j] = t[k] /\ t[j] # None => j = k
  /\ \A j, k \in Keys : l[j] = t[k] => l[j] = None

OneName ==
  /\ Distinct(live, temp)
  /\ Distinct(saved.live, saved.temp)
  /\ \A j, k \in Keys : saved.live[j] = temp[k] => temp[k] = None

\* A print's contents are whole and durable.
Whole ==
  /\ \A k \in Keys : live[k] # None =>
       Decoded(data[live[k]]) # None /\ disk[live[k]] = data[live[k]]
  /\ \A k \in Keys : saved.live[k] # None =>
       Decoded(disk[saved.live[k]]) # None /\ disk[saved.live[k]] = data[saved.live[k]]

\* Where each call is, by its place.
Asked ==
  \A w \in Workers :
    /\ pc[w] = "idle" <=> call[w].op = "none"
    /\ pc[w] = "idle" => call[w] = NoAsk
    /\ pc[w] # "idle" => Key(w) \in Keys
    /\ pc[w] \in SavePlaces => call[w].op = "save"
    /\ call[w].op = "save" => call[w].print \in Prints
    /\ pc[w] \in {"open", "read", "reread"} => call[w].op = "load"
    /\ pc[w] \in {"list", "entries"} => call[w].op = "list"
    /\ pc[w] = "entries" => got[w] = <<"listed", got[w][2]>>
    /\ pc[w] \in {"unlink", "prune"} => call[w].op = "delete"
    /\ pc[w] = "done" => got[w] # <<"none">>
    /\ call[w].op # "save" => call[w].print = None

OneSaver ==
  \A v, w \in Workers :
    call[v].op = "save" /\ call[w].op = "save" /\ Key(v) = Key(w) => v = w

\* A saver's descriptor is its temp file, written as far as its place says.
Writing ==
  \A w \in Workers :
    /\ pc[w] \in {"write", "sync"} => fd[w] # None /\ fd[w] = temp[Key(w)]
    /\ pc[w] = "create" => at[w] = 0
    /\ pc[w] = "write" => at[w] \in {0, 1}
    /\ pc[w] = "write" /\ at[w] = 1 => data[fd[w]][1] = call[w].print
    /\ pc[w] = "sync" => \A c \in Chunks : data[fd[w]][c] = call[w].print
    /\ pc[w] = "rename" =>
         /\ temp[Key(w)] # None
         /\ \A c \in Chunks : data[temp[Key(w)]][c] = call[w].print
         /\ disk[temp[Key(w)]] = data[temp[Key(w)]]

\* A reader's descriptor is a whole file that nobody writes.
Reading ==
  \A w \in Workers :
    pc[w] \in {"read", "reread"} =>
      /\ fd[w] # None
      /\ Decoded(data[fd[w]]) # None
      /\ \A k \in Keys : temp[k] # fd[w]
      /\ pc[w] = "reread" => got[w] = <<data[fd[w]][1]>>

StoreInv ==
  /\ Typed
  /\ OneName
  /\ Whole
  /\ Asked
  /\ OneSaver
  /\ Writing
  /\ Reading

-----------------------------------------------------------------------------
USE DEF Chunks, Ops, Key, Goto, names

LEMMA ReturnKeeps ==
  ASSUME StoreInv, Exclusive, NEW w \in Workers, Return(w)
  PROVE  StoreInv'
<1>. USE StoreAssumption DEF StoreInv
<1>1. Typed'
  <2>1. live' \in Names /\ temp' \in Names
    BY  DEF Return, NoAsk, Typed, Names
  <2>2. saved'.live \in Names /\ saved'.temp \in Names
    BY DEF Return, NoAsk, Typed
  <2>3. data' \in [Inodes -> [Chunks -> Chunk]] /\ disk' \in [Inodes -> [Chunks -> Chunk]]
    BY  DEF Return, NoAsk, Typed, Chunk, Names, Asked, SavePlaces
  <2>4. pc' \in [Workers -> Places] /\ at' \in [Workers -> Int]
    BY DEF Return, NoAsk, Typed, Places
  <2>5. /\ call' \in [Workers -> [op : Ops \cup {"none"}, key : Keys \cup {None}, print : Prints \cup {None}]]
        /\ fd' \in [Workers -> Inodes \cup {None}]
        /\ DOMAIN got' = Workers
    BY  DEF Return, NoAsk, Typed, Names
  <2>. QED BY <2>1, <2>2, <2>3, <2>4, <2>5 DEF Typed
<1>2. OneName' /\ Whole'
  BY DEF Return, OneName, Distinct, Whole, Typed, Names, Decoded
<1>3. Asked' /\ OneSaver'
  BY DEF Return, Asked, OneSaver, Typed, SavePlaces, NoAsk
<1>4. Writing'
  BY DEF Return, Writing, Typed, Names, Asked, OneSaver, SavePlaces
<1>5. Reading'
  BY DEF Return, Reading, Typed, Names, Asked
<1>. QED BY <1>1, <1>2, <1>3, <1>4, <1>5

\* What a call that fails does to the worker, whichever answer it gives.
LEMMA GivenUp ==
  ASSUME NEW w \in Workers, GiveUp(w)
  PROVE  /\ \E a \in {<<"failed">>, <<"found", None>>, <<"listed", {}>>} : Answer(w, a)
         /\ UNCHANGED <<names, saved, data, disk, call>>
<1>1. UNCHANGED <<names, saved, data, disk, call>> /\ FailsAsAsked(w)
  BY DEF GiveUp
<1>2. CASE call[w].op = "load"
  <2>1. Answer(w, <<"found", None>>)
    BY <1>1, <1>2, Zenon DEF FailsAsAsked
  <2>. QED BY <1>1, <2>1
<1>3. CASE call[w].op = "list"
  <2>1. Answer(w, <<"listed", {}>>)
    BY <1>1, <1>3 DEF FailsAsAsked
  <2>. QED BY <1>1, <2>1
<1>4. CASE call[w].op \notin {"load", "list"}
  <2>1. Answer(w, <<"failed">>)
    BY <1>1, <1>4, Zenon DEF FailsAsAsked, Fails
  <2>. QED BY <1>1, <2>1
<1>. QED BY <1>2, <1>3, <1>4

LEMMA GiveUpKeeps ==
  ASSUME StoreInv, Exclusive, NEW w \in Workers, GiveUp(w)
  PROVE  StoreInv'
<1>. USE StoreAssumption DEF StoreInv
<1>0. pc[w] \in {"climb", "descend", "open", "read", "reread", "list", "unlink"}
  BY DEF GiveUp
<1>a. PICK a \in {<<"failed">>, <<"found", None>>, <<"listed", {}>>} : Answer(w, a)
  BY GivenUp
<1>b. a # <<"none">>
  OBVIOUS
<1>u. UNCHANGED <<names, saved, data, disk, call>>
  BY GivenUp
<1>. HIDE DEF StoreInv
<1>v. Typed /\ OneName /\ Whole /\ Asked /\ OneSaver /\ Writing /\ Reading
  BY DEF StoreInv
<1>1. Typed'
  BY <1>v, <1>a, <1>u DEF Answer, Typed, Places
<1>2. OneName' /\ Whole'
  BY <1>v, <1>u DEF OneName, Distinct, Whole, Decoded
<1>3. Asked' /\ OneSaver'
  BY <1>v, <1>0, <1>a, <1>b, <1>u DEF Answer, Asked, OneSaver, Typed, SavePlaces
<1>4. Writing'
  BY <1>v, <1>a, <1>u DEF Answer, Writing, Typed
<1>5. Reading'
  BY <1>v, <1>a, <1>u DEF Answer, Reading, Typed
<1>. QED BY <1>1, <1>2, <1>3, <1>4, <1>5 DEF StoreInv

LEMMA ClimbKeeps ==
  ASSUME StoreInv, Exclusive, NEW w \in Workers, Climb(w)
  PROVE  StoreInv'
<1>. USE StoreAssumption DEF StoreInv
<1>1. Typed'
  BY DEF Climb, Typed, Names, Chunk, Places
<1>2. OneName' /\ Whole'
  BY DEF Climb, OneName, Distinct, Whole, Typed, Names, Decoded
<1>3. Asked' /\ OneSaver'
  BY DEF Climb, Asked, OneSaver, Typed, SavePlaces, NoAsk
<1>4. Writing'
  BY DEF Climb, Writing, Typed, Names, Asked, OneSaver, SavePlaces
<1>5. Reading'
  BY DEF Climb, Reading, Typed, Names, Asked
<1>. QED BY <1>1, <1>2, <1>3, <1>4, <1>5

LEMMA MakeDirKeeps ==
  ASSUME StoreInv, Exclusive, NEW w \in Workers, MakeDir(w)
  PROVE  StoreInv'
<1>. USE StoreAssumption
<1>v. Typed /\ OneName /\ Whole /\ Asked /\ OneSaver /\ Writing /\ Reading
  BY DEF StoreInv
<1>u. /\ pc[w] \in {"climb", "descend"}
      /\ UNCHANGED <<live, temp, saved, data, disk, call, fd, got>>
  BY DEF MakeDir
<1>a. PICK p \in {"create", "descend"}, n \in Int :
        /\ pc' = [pc EXCEPT ![w] = p]
        /\ at' = [at EXCEPT ![w] = n]
        /\ p = "create" => n = 0
  <2>1. CASE at[w] = Levels(Key(w))
    <3>1. pc' = [pc EXCEPT ![w] = "create"] /\ at' = [at EXCEPT ![w] = 0]
      BY <2>1, Zenon DEF MakeDir
    <3>2. 0 \in Int
      OBVIOUS
    <3>. QED BY <3>1, <3>2, Zenon
  <2>2. CASE at[w] # Levels(Key(w))
    <3>1. pc' = [pc EXCEPT ![w] = "descend"] /\ at' = [at EXCEPT ![w] = at[w] + 1]
      BY <2>2, Zenon DEF MakeDir
    <3>2. at[w] + 1 \in Int
      BY <1>v DEF Typed
    <3>. DEFINE n == at[w] + 1
    <3>. HIDE DEF n
    <3>3. n \in Int /\ at' = [at EXCEPT ![w] = n]
      BY <3>1, <3>2 DEF n
    <3>. QED BY <3>1, <3>3, Zenon
  <2>. QED BY <2>1, <2>2
<1>1. Typed'
  <2>1. pc' \in [Workers -> Places] /\ at' \in [Workers -> Int]
    BY <1>v, <1>a DEF Typed, Places
  <2>. QED BY <1>v, <1>u, <2>1 DEF Typed
<1>2. OneName' /\ Whole'
  BY <1>v, <1>u DEF OneName, Distinct, Whole, Decoded
<1>3. Asked' /\ OneSaver'
  BY <1>v, <1>u, <1>a DEF Asked, OneSaver, Typed, SavePlaces
<1>4. Writing'
  BY <1>v, <1>u, <1>a DEF Writing, Typed
<1>5. Reading'
  BY <1>v, <1>u, <1>a DEF Reading, Typed
<1>. QED BY <1>1, <1>2, <1>3, <1>4, <1>5 DEF StoreInv

LEMMA CreateTempKeeps ==
  ASSUME StoreInv, Exclusive, NEW w \in Workers, CreateTemp(w)
  PROVE  StoreInv'
<1>. USE StoreAssumption DEF StoreInv
<1>0. Key(w) \in Keys /\ pc[w] = "create" /\ call[w].op = "save"
  BY DEF CreateTemp, Asked, SavePlaces
<1>. PICK i \in Inodes :
       /\ IF temp[Key(w)] = None THEN Free(i) ELSE i = temp[Key(w)]
       /\ temp' = [temp EXCEPT ![Key(w)] = i]
       /\ fd' = [fd EXCEPT ![w] = i]
       /\ data' = [data EXCEPT ![i] = Empty]
       /\ disk' = IF temp[Key(w)] = None THEN [disk EXCEPT ![i] = Empty] ELSE disk
  BY DEF CreateTemp
<1>u. /\ pc' = [pc EXCEPT ![w] = "write"]
      /\ UNCHANGED <<dirs, live, saved, call, at, got>>
  BY DEF CreateTemp
<1>a. \A k \in Keys : live[k] # i /\ saved.live[k] # i /\ (k # Key(w) => temp[k] # i)
  BY <1>0 DEF OneName, Distinct, Free, Typed, Names
<1>b. \A j \in Inodes : j # i => data'[j] = data[j] /\ disk'[j] = disk[j]
  BY DEF Typed
<1>c. \A v \in Workers : pc[v] \in {"read", "reread"} => fd[v] # i
  BY <1>0 DEF Reading, Free
<1>d. \A k \in Keys : temp'[k] = IF k = Key(w) THEN i ELSE temp[k]
  BY <1>0 DEF Typed, Names
<1>1. Typed'
  <2>1. temp' \in Names /\ fd' \in [Workers -> Inodes \cup {None}] /\ pc' \in [Workers -> Places]
    BY <1>u DEF Typed, Names, Places
  <2>2. data' \in [Inodes -> [Chunks -> Chunk]] /\ disk' \in [Inodes -> [Chunks -> Chunk]]
    BY DEF Typed, Empty, Chunk
  <2>. QED BY <1>u, <2>1, <2>2 DEF Typed
<1>2. OneName' /\ Whole'
  <2>1. OneName'
    BY <1>u, <1>0, <1>a, <1>d DEF OneName, Distinct
  <2>2. Whole'
    BY <1>u, <1>a, <1>b DEF Whole, Typed, Names, Decoded
  <2>. QED BY <2>1, <2>2
<1>3. Asked' /\ OneSaver'
  BY <1>u, <1>0 DEF Asked, OneSaver, Typed, SavePlaces, NoAsk
<1>4. Writing'
  <2>. SUFFICES ASSUME NEW v \in Workers PROVE Writing!(v)'
    BY DEF Writing
  <2>1. CASE v = w
    BY <2>1, <1>0, <1>u, <1>d DEF Writing, Typed
  <2>2. CASE v # w
    <3>1. pc[v] \in {"write", "sync", "rename"} => Key(v) # Key(w)
      BY <2>2, <1>0 DEF Asked, OneSaver, SavePlaces
    <3>2. pc[v] \in {"write", "sync", "rename"} => Key(v) \in Keys
      BY DEF Asked
    <3>. QED BY <2>2, <3>1, <3>2, <1>a, <1>b, <1>d, <1>u DEF Writing, Typed, Names
  <2>. QED BY <2>1, <2>2
<1>5. Reading'
  BY <1>0, <1>u, <1>b, <1>c, <1>d DEF Reading, Typed, Decoded
<1>. QED BY <1>1, <1>2, <1>3, <1>4, <1>5

LEMMA WriteKeeps ==
  ASSUME StoreInv, Exclusive, NEW w \in Workers, Write(w)
  PROVE  StoreInv'
<1>. USE StoreAssumption DEF StoreInv
<1>0. Key(w) \in Keys /\ fd[w] \in Inodes /\ fd[w] = temp[Key(w)] /\ call[w].print \in Prints
  BY DEF Write, Asked, Writing, Typed, Names, SavePlaces
<1>a. \A k \in Keys : live[k] # fd[w] /\ saved.live[k] # fd[w]
  BY <1>0 DEF OneName, Distinct, Typed, Names
<1>b. \A i \in Inodes : i # fd[w] => data'[i] = data[i] /\ disk'[i] = disk[i]
  BY <1>0 DEF Write, Typed
<1>1. Typed'
  <2>1. live' \in Names /\ temp' \in Names
    BY <1>0 DEF Write, Typed, Names
  <2>2. saved'.live \in Names /\ saved'.temp \in Names
    BY DEF Write, Typed
  <2>3. data' \in [Inodes -> [Chunks -> Chunk]] /\ disk' \in [Inodes -> [Chunks -> Chunk]]
    BY <1>0 DEF Write, Typed, Chunk, Names, Asked, SavePlaces
  <2>4. pc' \in [Workers -> Places] /\ at' \in [Workers -> Int]
    BY DEF Write, Typed, Places
  <2>5. /\ call' \in [Workers -> [op : Ops \cup {"none"}, key : Keys \cup {None}, print : Prints \cup {None}]]
        /\ fd' \in [Workers -> Inodes \cup {None}]
        /\ DOMAIN got' = Workers
    BY <1>0 DEF Write, Typed, Names
  <2>. QED BY <2>1, <2>2, <2>3, <2>4, <2>5 DEF Typed
<1>2. OneName' /\ Whole'
  <2>1. OneName'
    BY DEF Write, OneName
  <2>2. Whole'
    BY <1>a, <1>b DEF Write, Whole, Typed, Names, Decoded
  <2>. QED BY <2>1, <2>2
<1>3. Asked' /\ OneSaver'
  BY DEF Write, Asked, OneSaver, Typed, SavePlaces, NoAsk
<1>4. Writing'
  <2>. SUFFICES ASSUME NEW v \in Workers PROVE Writing!(v)'
    BY DEF Writing
  <2>1. CASE v = w
    BY <2>1, <1>0 DEF Write, Writing, Typed, Names
  <2>2. CASE v # w
    <3>1. pc[v] \in {"write", "sync", "rename"} => temp[Key(v)] # fd[w]
      BY <2>2, <1>0 DEF Write, Asked, OneSaver, SavePlaces, OneName, Distinct, Typed, Names
    <3>. QED BY <2>2, <3>1, <1>b DEF Write, Writing, Typed, Names, Asked, SavePlaces
  <2>. QED BY <2>1, <2>2
<1>5. Reading'
  BY <1>0, <1>b DEF Write, Reading, Typed, Names, Asked, Decoded
<1>. QED BY <1>1, <1>2, <1>3, <1>4, <1>5

LEMMA SyncKeeps ==
  ASSUME StoreInv, Exclusive, NEW w \in Workers, Sync(w)
  PROVE  StoreInv'
<1>. USE StoreAssumption DEF StoreInv
<1>0. Key(w) \in Keys /\ fd[w] \in Inodes /\ fd[w] = temp[Key(w)] /\ call[w].print \in Prints
  BY DEF Sync, Asked, Writing, Typed, Names, SavePlaces
<1>a. \A k \in Keys : live[k] # fd[w] /\ saved.live[k] # fd[w]
  BY <1>0 DEF OneName, Distinct, Typed, Names
<1>b. \A i \in Inodes : i # fd[w] => data'[i] = data[i] /\ disk'[i] = disk[i]
  BY <1>0 DEF Sync, Typed
<1>1. Typed'
  <2>1. live' \in Names /\ temp' \in Names
    BY <1>0 DEF Sync, Typed, Names
  <2>2. saved'.live \in Names /\ saved'.temp \in Names
    BY DEF Sync, Typed
  <2>3. data' \in [Inodes -> [Chunks -> Chunk]] /\ disk' \in [Inodes -> [Chunks -> Chunk]]
    BY <1>0 DEF Sync, Typed, Chunk, Names, Asked, SavePlaces
  <2>4. pc' \in [Workers -> Places] /\ at' \in [Workers -> Int]
    BY DEF Sync, Typed, Places
  <2>5. /\ call' \in [Workers -> [op : Ops \cup {"none"}, key : Keys \cup {None}, print : Prints \cup {None}]]
        /\ fd' \in [Workers -> Inodes \cup {None}]
        /\ DOMAIN got' = Workers
    BY <1>0 DEF Sync, Typed, Names
  <2>. QED BY <2>1, <2>2, <2>3, <2>4, <2>5 DEF Typed
<1>2. OneName' /\ Whole'
  <2>1. OneName'
    BY DEF Sync, OneName
  <2>2. Whole'
    BY <1>a, <1>b DEF Sync, Whole, Typed, Names, Decoded
  <2>. QED BY <2>1, <2>2
<1>3. Asked' /\ OneSaver'
  BY DEF Sync, Asked, OneSaver, Typed, SavePlaces, NoAsk
<1>4. Writing'
  <2>. SUFFICES ASSUME NEW v \in Workers PROVE Writing!(v)'
    BY DEF Writing
  <2>1. CASE v = w
    BY <2>1, <1>0 DEF Sync, Writing, Typed, Names
  <2>2. CASE v # w
    <3>1. pc[v] \in {"write", "sync", "rename"} => temp[Key(v)] # fd[w]
      BY <2>2, <1>0 DEF Sync, Asked, OneSaver, SavePlaces, OneName, Distinct, Typed, Names
    <3>. QED BY <2>2, <3>1, <1>b DEF Sync, Writing, Typed, Names, Asked, SavePlaces
  <2>. QED BY <2>1, <2>2
<1>5. Reading'
  BY <1>0, <1>b DEF Sync, Reading, Typed, Names, Asked, Decoded
<1>. QED BY <1>1, <1>2, <1>3, <1>4, <1>5

LEMMA RenameKeeps ==
  ASSUME StoreInv, Exclusive, NEW w \in Workers, Rename(w)
  PROVE  StoreInv'
<1>. USE StoreAssumption DEF StoreInv
<1>0. Key(w) \in Keys /\ temp[Key(w)] \in Inodes /\ call[w].print \in Prints
  BY DEF Rename, Asked, Writing, Typed, Names, SavePlaces
<1>1. Typed'
  <2>1. live' \in Names /\ temp' \in Names
    BY <1>0 DEF Rename, Answer, Typed, Names
  <2>2. saved'.live \in Names /\ saved'.temp \in Names
    BY DEF Rename, Answer, Typed
  <2>3. data' \in [Inodes -> [Chunks -> Chunk]] /\ disk' \in [Inodes -> [Chunks -> Chunk]]
    BY <1>0 DEF Rename, Answer, Typed, Chunk, Names, Asked, SavePlaces
  <2>4. pc' \in [Workers -> Places] /\ at' \in [Workers -> Int]
    BY DEF Rename, Answer, Typed, Places
  <2>5. /\ call' \in [Workers -> [op : Ops \cup {"none"}, key : Keys \cup {None}, print : Prints \cup {None}]]
        /\ fd' \in [Workers -> Inodes \cup {None}]
        /\ DOMAIN got' = Workers
    BY <1>0 DEF Rename, Answer, Typed, Names
  <2>. QED BY <2>1, <2>2, <2>3, <2>4, <2>5 DEF Typed
<1>2. OneName' /\ Whole'
  <2>1. \A j \in Keys : /\ live'[j] = IF j = Key(w) THEN temp[Key(w)] ELSE live[j]
                      /\ temp'[j] = IF j = Key(w) THEN None ELSE temp[j]
    BY <1>0 DEF Rename, Typed, Names
  <2>2. OneName'
    BY <2>1, <1>0 DEF Rename, OneName, Distinct
  <2>3. Decoded(data[temp[Key(w)]]) # None /\ disk[temp[Key(w)]] = data[temp[Key(w)]]
    <3>1. pc[w] = "rename"
      BY DEF Rename
    <3>. QED BY <3>1, <1>0 DEF Writing, Decoded
  <2>4. Whole'
    <3>1. UNCHANGED <<saved, data, disk>>
      BY DEF Rename
    <3>. HIDE DEF StoreInv
    <3>2. Whole
      BY DEF StoreInv
    <3>. QED BY <3>1, <3>2, <2>1, <2>3 DEF Whole
  <2>. QED BY <2>2, <2>4
<1>3. Asked' /\ OneSaver'
  BY DEF Rename, Answer, Asked, OneSaver, Typed, SavePlaces, NoAsk
<1>4. Writing'
  BY DEF Rename, Answer, Writing, Typed, Names, Asked, OneSaver, SavePlaces
<1>5. Reading'
  BY DEF Rename, Answer, Reading, Typed, Names, Asked
<1>. QED BY <1>1, <1>2, <1>3, <1>4, <1>5

LEMMA WriteFailsKeeps ==
  ASSUME StoreInv, Exclusive, NEW w \in Workers, WriteFails(w)
  PROVE  StoreInv'
<1>. USE StoreAssumption DEF StoreInv
<1>1. Typed'
  BY DEF WriteFails, Typed, Names, Chunk, Places
<1>2. OneName' /\ Whole'
  BY DEF WriteFails, OneName, Distinct, Whole, Typed, Names, Decoded
<1>3. Asked' /\ OneSaver'
  BY DEF WriteFails, Asked, OneSaver, Typed, SavePlaces, NoAsk
<1>4. Writing'
  BY DEF WriteFails, Writing, Typed, Names, Asked, OneSaver, SavePlaces
<1>5. Reading'
  BY DEF WriteFails, Reading, Typed, Names, Asked
<1>. QED BY <1>1, <1>2, <1>3, <1>4, <1>5

LEMMA RemoveTempKeeps ==
  ASSUME StoreInv, Exclusive, NEW w \in Workers, RemoveTemp(w)
  PROVE  StoreInv'
<1>. USE StoreAssumption DEF StoreInv
<1>0. Key(w) \in Keys
  BY DEF RemoveTemp, Asked
<1>1. Typed'
  <2>1. live' \in Names /\ temp' \in Names
    BY <1>0 DEF RemoveTemp, Fails, Answer, Typed, Names
  <2>2. saved'.live \in Names /\ saved'.temp \in Names
    BY DEF RemoveTemp, Fails, Answer, Typed
  <2>3. data' \in [Inodes -> [Chunks -> Chunk]] /\ disk' \in [Inodes -> [Chunks -> Chunk]]
    BY <1>0 DEF RemoveTemp, Fails, Answer, Typed, Chunk, Names, Asked, SavePlaces
  <2>4. pc' \in [Workers -> Places] /\ at' \in [Workers -> Int]
    BY DEF RemoveTemp, Fails, Answer, Typed, Places
  <2>5. /\ call' \in [Workers -> [op : Ops \cup {"none"}, key : Keys \cup {None}, print : Prints \cup {None}]]
        /\ fd' \in [Workers -> Inodes \cup {None}]
        /\ DOMAIN got' = Workers
    BY <1>0 DEF RemoveTemp, Fails, Answer, Typed, Names
  <2>. QED BY <2>1, <2>2, <2>3, <2>4, <2>5 DEF Typed
<1>2. OneName' /\ Whole'
  BY DEF RemoveTemp, Fails, Answer, OneName, Distinct, Whole, Typed, Names, Decoded
<1>3. Asked' /\ OneSaver'
  BY DEF RemoveTemp, Fails, Answer, Asked, OneSaver, Typed, SavePlaces, NoAsk
<1>4. Writing'
  BY DEF RemoveTemp, Fails, Answer, Writing, Typed, Names, Asked, OneSaver, SavePlaces
<1>5. Reading'
  BY DEF RemoveTemp, Fails, Answer, Reading, Typed, Names, Asked
<1>. QED BY <1>1, <1>2, <1>3, <1>4, <1>5

LEMMA LoadNothingKeeps ==
  ASSUME StoreInv, Exclusive, NEW w \in Workers, LoadNothing(w)
  PROVE  StoreInv'
<1>. USE StoreAssumption DEF StoreInv
<1>1. Typed'
  BY DEF LoadNothing, Answer, Typed, Names, Chunk, Places
<1>2. OneName' /\ Whole'
  BY DEF LoadNothing, Answer, OneName, Distinct, Whole, Typed, Names, Decoded
<1>3. Asked' /\ OneSaver'
  BY DEF LoadNothing, Answer, Asked, OneSaver, Typed, SavePlaces, NoAsk
<1>4. Writing'
  BY DEF LoadNothing, Answer, Writing, Typed, Names, Asked, OneSaver, SavePlaces
<1>5. Reading'
  BY DEF LoadNothing, Answer, Reading, Typed, Names, Asked
<1>. QED BY <1>1, <1>2, <1>3, <1>4, <1>5

LEMMA OpenPrintKeeps ==
  ASSUME StoreInv, Exclusive, NEW w \in Workers, OpenPrint(w)
  PROVE  StoreInv'
<1>. USE StoreAssumption DEF StoreInv
<1>0. Key(w) \in Keys /\ live[Key(w)] \in Inodes
  BY DEF OpenPrint, Asked, Typed, Names
<1>1. Typed'
  <2>1. live' \in Names /\ temp' \in Names
    BY <1>0 DEF OpenPrint, Typed, Names
  <2>2. saved'.live \in Names /\ saved'.temp \in Names
    BY DEF OpenPrint, Typed
  <2>3. data' \in [Inodes -> [Chunks -> Chunk]] /\ disk' \in [Inodes -> [Chunks -> Chunk]]
    BY <1>0 DEF OpenPrint, Typed, Chunk, Names, Asked, SavePlaces
  <2>4. pc' \in [Workers -> Places] /\ at' \in [Workers -> Int]
    BY DEF OpenPrint, Typed, Places
  <2>5. /\ call' \in [Workers -> [op : Ops \cup {"none"}, key : Keys \cup {None}, print : Prints \cup {None}]]
        /\ fd' \in [Workers -> Inodes \cup {None}]
        /\ DOMAIN got' = Workers
    BY <1>0 DEF OpenPrint, Typed, Names
  <2>. QED BY <2>1, <2>2, <2>3, <2>4, <2>5 DEF Typed
<1>2. OneName' /\ Whole'
  BY DEF OpenPrint, OneName, Distinct, Whole, Typed, Names, Decoded
<1>3. Asked' /\ OneSaver'
  BY DEF OpenPrint, Asked, OneSaver, Typed, SavePlaces, NoAsk
<1>4. Writing'
  BY DEF OpenPrint, Writing, Typed, Names, Asked, OneSaver, SavePlaces
<1>5. Reading'
  BY <1>0 DEF OpenPrint, Reading, Typed, Names, Asked, OneName, Distinct, Whole
<1>. QED BY <1>1, <1>2, <1>3, <1>4, <1>5

LEMMA ReadFirstKeeps ==
  ASSUME StoreInv, Exclusive, NEW w \in Workers, ReadFirst(w)
  PROVE  StoreInv'
<1>. USE StoreAssumption DEF StoreInv
<1>1. Typed'
  BY DEF ReadFirst, Typed, Names, Chunk, Places
<1>2. OneName' /\ Whole'
  BY DEF ReadFirst, OneName, Distinct, Whole, Typed, Names, Decoded
<1>3. Asked' /\ OneSaver'
  BY DEF ReadFirst, Asked, OneSaver, Typed, SavePlaces, NoAsk
<1>4. Writing'
  BY DEF ReadFirst, Writing, Typed, Names, Asked, OneSaver, SavePlaces
<1>5. Reading'
  BY DEF ReadFirst, Reading, Typed, Names, Asked
<1>. QED BY <1>1, <1>2, <1>3, <1>4, <1>5

LEMMA ReadRestKeeps ==
  ASSUME StoreInv, Exclusive, NEW w \in Workers, ReadRest(w)
  PROVE  StoreInv'
<1>. USE StoreAssumption DEF StoreInv
<1>1. Typed'
  BY DEF ReadRest, Answer, Own, Decoded, Typed, Names, Chunk, Places
<1>2. OneName' /\ Whole'
  BY DEF ReadRest, Answer, Own, Decoded, OneName, Distinct, Whole, Typed, Names, Decoded
<1>3. Asked' /\ OneSaver'
  BY DEF ReadRest, Answer, Own, Decoded, Asked, OneSaver, Typed, SavePlaces, NoAsk
<1>4. Writing'
  BY DEF ReadRest, Answer, Own, Decoded, Writing, Typed, Names, Asked, OneSaver, SavePlaces
<1>5. Reading'
  BY DEF ReadRest, Answer, Own, Decoded, Reading, Typed, Names, Asked
<1>. QED BY <1>1, <1>2, <1>3, <1>4, <1>5

LEMMA OpenDirKeeps ==
  ASSUME StoreInv, Exclusive, NEW w \in Workers, OpenDir(w)
  PROVE  StoreInv'
<1>. USE StoreAssumption DEF StoreInv
<1>1. Typed'
  BY DEF OpenDir, Typed, Names, Chunk, Places
<1>2. OneName' /\ Whole'
  BY DEF OpenDir, OneName, Distinct, Whole, Typed, Names, Decoded
<1>3. Asked' /\ OneSaver'
  BY DEF OpenDir, Asked, OneSaver, Typed, SavePlaces, NoAsk
<1>4. Writing'
  BY DEF OpenDir, Writing, Typed, Names, Asked, OneSaver, SavePlaces
<1>5. Reading'
  BY DEF OpenDir, Reading, Typed, Names, Asked
<1>. QED BY <1>1, <1>2, <1>3, <1>4, <1>5

LEMMA ListFingerKeeps ==
  ASSUME StoreInv, Exclusive, NEW w \in Workers, ListFinger(w)
  PROVE  StoreInv'
<1>. USE StoreAssumption
<1>v. Typed /\ OneName /\ Whole /\ Asked /\ OneSaver /\ Writing /\ Reading
  BY DEF StoreInv
<1>u. pc[w] = "entries" /\ UNCHANGED <<live, temp, saved, data, disk, pc, call, fd, at>>
  BY DEF ListFinger
<1>a. PICK S : got' = [got EXCEPT ![w] = <<"listed", S>>]
  BY DEF ListFinger
<1>b. got'[w] = <<"listed", S>> /\ got'[w] = <<"listed", got'[w][2]>>
  BY <1>v, <1>a DEF Typed
<1>c. \A v \in Workers : v # w => got'[v] = got[v]
  BY <1>v, <1>a DEF Typed
<1>1. Typed'
  BY <1>v, <1>u, <1>a DEF Typed
<1>2. OneName' /\ Whole'
  BY <1>v, <1>u DEF OneName, Distinct, Whole, Decoded
<1>3. Asked' /\ OneSaver'
  BY <1>v, <1>u, <1>b, <1>c DEF Asked, OneSaver
<1>4. Writing'
  BY <1>v, <1>u DEF Writing
<1>5. Reading'
  BY <1>v, <1>u, <1>c DEF Reading
<1>. QED BY <1>1, <1>2, <1>3, <1>4, <1>5 DEF StoreInv

LEMMA EndListKeeps ==
  ASSUME StoreInv, Exclusive, NEW w \in Workers, EndList(w)
  PROVE  StoreInv'
<1>. USE StoreAssumption DEF StoreInv
<1>1. Typed'
  BY DEF EndList, Answer, Typed, Names, Chunk, Places
<1>2. OneName' /\ Whole'
  BY DEF EndList, Answer, OneName, Distinct, Whole, Typed, Names, Decoded
<1>3. Asked' /\ OneSaver'
  BY DEF EndList, Answer, Asked, OneSaver, Typed, SavePlaces, NoAsk
<1>4. Writing'
  BY DEF EndList, Answer, Writing, Typed, Names, Asked, OneSaver, SavePlaces
<1>5. Reading'
  BY DEF EndList, Answer, Reading, Typed, Names, Asked
<1>. QED BY <1>1, <1>2, <1>3, <1>4, <1>5

LEMMA DeleteNothingKeeps ==
  ASSUME StoreInv, Exclusive, NEW w \in Workers, DeleteNothing(w)
  PROVE  StoreInv'
<1>. USE StoreAssumption DEF StoreInv
<1>1. Typed'
  BY DEF DeleteNothing, Answer, Typed, Names, Chunk, Places
<1>2. OneName' /\ Whole'
  BY DEF DeleteNothing, Answer, OneName, Distinct, Whole, Typed, Names, Decoded
<1>3. Asked' /\ OneSaver'
  BY DEF DeleteNothing, Answer, Asked, OneSaver, Typed, SavePlaces, NoAsk
<1>4. Writing'
  BY DEF DeleteNothing, Answer, Writing, Typed, Names, Asked, OneSaver, SavePlaces
<1>5. Reading'
  BY DEF DeleteNothing, Answer, Reading, Typed, Names, Asked
<1>. QED BY <1>1, <1>2, <1>3, <1>4, <1>5

LEMMA UnlinkKeeps ==
  ASSUME StoreInv, Exclusive, NEW w \in Workers, Unlink(w)
  PROVE  StoreInv'
<1>. USE StoreAssumption DEF StoreInv
<1>1. Typed'
  BY DEF Unlink, Typed, Names, Chunk, Places
<1>2. OneName' /\ Whole'
  BY DEF Unlink, OneName, Distinct, Whole, Typed, Names, Decoded
<1>3. Asked' /\ OneSaver'
  BY DEF Unlink, Asked, OneSaver, Typed, SavePlaces, NoAsk
<1>4. Writing'
  BY DEF Unlink, Writing, Typed, Names, Asked, OneSaver, SavePlaces
<1>5. Reading'
  BY DEF Unlink, Reading, Typed, Names, Asked
<1>. QED BY <1>1, <1>2, <1>3, <1>4, <1>5

LEMMA PruneKeeps ==
  ASSUME StoreInv, Exclusive, NEW w \in Workers, Prune(w)
  PROVE  StoreInv'
<1>. USE StoreAssumption DEF StoreInv
<1>1. Typed'
  BY DEF Prune, Typed, Names, Chunk, Places
<1>2. OneName' /\ Whole'
  BY DEF Prune, OneName, Distinct, Whole, Typed, Names, Decoded
<1>3. Asked' /\ OneSaver'
  BY DEF Prune, Asked, OneSaver, Typed, SavePlaces, NoAsk
<1>4. Writing'
  BY DEF Prune, Writing, Typed, Names, Asked, OneSaver, SavePlaces
<1>5. Reading'
  BY DEF Prune, Reading, Typed, Names, Asked
<1>. QED BY <1>1, <1>2, <1>3, <1>4, <1>5

LEMMA StopPruningKeeps ==
  ASSUME StoreInv, Exclusive, NEW w \in Workers, StopPruning(w)
  PROVE  StoreInv'
<1>. USE StoreAssumption DEF StoreInv
<1>1. Typed'
  BY DEF StopPruning, Answer, Typed, Names, Chunk, Places
<1>2. OneName' /\ Whole'
  BY DEF StopPruning, Answer, OneName, Distinct, Whole, Typed, Names, Decoded
<1>3. Asked' /\ OneSaver'
  BY DEF StopPruning, Answer, Asked, OneSaver, Typed, SavePlaces, NoAsk
<1>4. Writing'
  BY DEF StopPruning, Answer, Writing, Typed, Names, Asked, OneSaver, SavePlaces
<1>5. Reading'
  BY DEF StopPruning, Answer, Reading, Typed, Names, Asked
<1>. QED BY <1>1, <1>2, <1>3, <1>4, <1>5

LEMMA AskKeeps ==
  ASSUME StoreInv, Exclusive, NEW w \in Workers, NEW k \in Keys, NEW op \in Ops,
         NEW p \in Prints \cup {None}, (op = "save") = (p # None), Ask(w, op, k, p)
  PROVE  StoreInv'
<1>. USE StoreAssumption DEF StoreInv
<1>1. Typed'
  <2>1. at' \in [Workers -> Int]
    <3>1. Levels(k) \in Int
      BY DEF Levels
    <3>. QED BY <3>1 DEF Ask, Typed
  <2>2. pc' \in [Workers -> Places]
    BY DEF Ask, Typed, Places, FirstPlace
  <2>3. call' \in [Workers -> [op : Ops \cup {"none"}, key : Keys \cup {None}, print : Prints \cup {None}]]
    BY DEF Ask, Typed
  <2>. QED BY <2>1, <2>2, <2>3 DEF Ask, Typed
<1>2. OneName' /\ Whole'
  BY DEF Ask, OneName, Whole
<1>3. Asked' /\ OneSaver'
  <2>1. Asked'
    BY DEF Ask, Asked, Typed, SavePlaces, NoAsk, FirstPlace
  <2>2. OneSaver'
    BY DEF Ask, OneSaver, Typed
  <2>. QED BY <2>1, <2>2
<1>4. Writing'
  BY DEF Ask, Writing, Typed, Asked, FirstPlace
<1>5. Reading'
  BY DEF Ask, Reading, Typed, Asked, FirstPlace
<1>. QED BY <1>1, <1>2, <1>3, <1>4, <1>5

LEMMA CrashKeeps ==
  ASSUME StoreInv, Crash
  PROVE  StoreInv'
<1>. USE StoreAssumption DEF StoreInv
<1>1. Typed'
  BY DEF Crash, Typed, Places, NoAsk
<1>2. OneName' /\ Whole'
  BY DEF Crash, OneName, Distinct, Whole, Typed, Names
<1>3. Asked' /\ OneSaver'
  BY DEF Crash, Asked, OneSaver, NoAsk, SavePlaces
<1>4. Writing' /\ Reading'
  BY DEF Crash, Writing, Reading
<1>. QED BY <1>1, <1>2, <1>3, <1>4

LEMMA DiskKeeps ==
  ASSUME StoreInv, Commit \/ \E i \in Inodes : WriteBack(i)
  PROVE  StoreInv'
<1>. USE StoreAssumption DEF StoreInv
<1>1. CASE Commit
  BY <1>1 DEF Commit, Typed, OneName, Distinct, Whole, Asked, OneSaver, Writing, Reading, Names
<1>2. ASSUME NEW i \in Inodes, WriteBack(i) PROVE StoreInv'
  <2>1. Typed'
    BY <1>2 DEF WriteBack, Typed
  <2>2. Whole'
    BY <1>2 DEF WriteBack, Whole, Typed, Names
  <2>3. OneName' /\ Asked' /\ OneSaver' /\ Writing' /\ Reading'
    BY <1>2 DEF WriteBack, OneName, Distinct, Asked, OneSaver, Writing, Reading, Typed, Names
  <2>. QED BY <2>1, <2>2, <2>3
<1>. QED BY <1>1, <1>2

LEMMA StoreInvInitial ==
  ASSUME Init
  PROVE  StoreInv
<1>. USE StoreAssumption
<1>. PICK have \in [Keys -> Prints \cup {Alien, None}], ino \in [Keys -> Inodes] :
       /\ IsInjective(ino)
       /\ live = [k \in Keys |-> IF have[k] = None THEN None ELSE ino[k]]
       /\ temp = [k \in Keys |-> None]
       /\ saved = [dirs |-> dirs, live |-> live, temp |-> temp]
       /\ data = [i \in Inodes |-> [c \in Chunks |->
                    IF \E k \in Keys : live[k] = i
                    THEN have[CHOOSE k \in Keys : live[k] = i] ELSE None]]
       /\ disk = data
       /\ pc = [w \in Workers |-> "idle"]
       /\ call = [w \in Workers |-> NoAsk]
       /\ fd = [w \in Workers |-> None]
       /\ at = [w \in Workers |-> 0]
       /\ got = [w \in Workers |-> <<"none">>]
  BY DEF Init
<1>1. \A j, k \in Keys : live[j] = live[k] /\ live[j] # None => j = k
  BY DEF IsInjective
<1>2. \A k \in Keys : live[k] # None => /\ live[k] \in Inodes
                                        /\ have[k] # None
                                        /\ \A c \in Chunks : data[live[k]][c] = have[k]
  BY <1>1
<1>3. Typed
  BY DEF Typed, Names, Chunk, Places, NoAsk
<1>4. OneName
  BY <1>1 DEF OneName, Distinct
<1>5. Whole
  BY <1>2 DEF Whole, Decoded
<1>6. Asked /\ OneSaver /\ Writing /\ Reading
  BY DEF Asked, OneSaver, Writing, Reading, NoAsk, SavePlaces
<1>. QED BY <1>3, <1>4, <1>5, <1>6 DEF StoreInv

LEMMA StoreInvKept ==
  ASSUME StoreInv, Exclusive, [Next]_vars
  PROVE  StoreInv'
<1>. USE StoreAssumption
<1>1. ASSUME NEW w \in Workers, Worker(w) PROVE StoreInv'
    <3>1. CASE \E k \in Keys, op \in Ops \ {"save"} : Ask(w, op, k, None)
      BY <3>1, <1>1, AskKeeps
    <3>2. CASE \E k \in Keys, p \in Prints : Ask(w, "save", k, p)
      BY <3>2, <1>1, AskKeeps
    <3>3. CASE Return(w)
      BY <3>3, <1>1, ReturnKeeps
    <3>4. CASE GiveUp(w)
      BY <3>4, <1>1, GiveUpKeeps
    <3>5. CASE Climb(w)
      BY <3>5, <1>1, ClimbKeeps
    <3>6. CASE MakeDir(w)
      BY <3>6, <1>1, MakeDirKeeps
    <3>8. CASE CreateTemp(w)
      BY <3>8, <1>1, CreateTempKeeps
    <3>9. CASE Write(w)
      BY <3>9, <1>1, WriteKeeps
    <3>10. CASE Sync(w)
      BY <3>10, <1>1, SyncKeeps
    <3>11. CASE Rename(w)
      BY <3>11, <1>1, RenameKeeps
    <3>12. CASE WriteFails(w)
      BY <3>12, <1>1, WriteFailsKeeps
    <3>13. CASE RemoveTemp(w)
      BY <3>13, <1>1, RemoveTempKeeps
    <3>14. CASE LoadNothing(w)
      BY <3>14, <1>1, LoadNothingKeeps
    <3>15. CASE OpenPrint(w)
      BY <3>15, <1>1, OpenPrintKeeps
    <3>16. CASE ReadFirst(w)
      BY <3>16, <1>1, ReadFirstKeeps
    <3>17. CASE ReadRest(w)
      BY <3>17, <1>1, ReadRestKeeps
    <3>18. CASE OpenDir(w)
      BY <3>18, <1>1, OpenDirKeeps
    <3>23. CASE ListFinger(w)
      BY <3>23, <1>1, ListFingerKeeps
    <3>24. CASE EndList(w)
      BY <3>24, <1>1, EndListKeeps
    <3>19. CASE DeleteNothing(w)
      BY <3>19, <1>1, DeleteNothingKeeps
    <3>20. CASE Unlink(w)
      BY <3>20, <1>1, UnlinkKeeps
    <3>21. CASE Prune(w)
      BY <3>21, <1>1, PruneKeeps
    <3>22. CASE StopPruning(w)
      BY <3>22, <1>1, StopPruningKeeps
    <3>. QED BY <1>1, <3>1, <3>2, <3>3, <3>4, <3>5, <3>6, <3>8, <3>9, <3>10, <3>11, <3>12, <3>13, <3>14, <3>15, <3>16, <3>17, <3>18, <3>19, <3>20, <3>21, <3>22, <3>23, <3>24 DEF Worker
<1>2. CASE Commit \/ \E i \in Inodes : WriteBack(i)
  BY <1>2, DiskKeeps
<1>3. CASE Crash
  BY <1>3, CrashKeeps
<1>4. CASE UNCHANGED vars
  BY <1>4 DEF vars, StoreInv, Typed, OneName, Whole, Asked, OneSaver, Writing, Reading
<1>. QED BY <1>1, <1>2, <1>3, <1>4 DEF Next

\* What is true of the store at every moment, for any keys, workers, prints and
\* crashes (write_atomically's tmp, fsync and rename).
THEOREM StoreSafe == Exclusive => (Spec => []StoreInv)
<1>. SUFFICES ASSUME Exclusive PROVE Spec => []StoreInv
  OBVIOUS
<1>1. Init => StoreInv
  BY StoreInvInitial
<1>2. StoreInv /\ [Next]_vars => StoreInv'
  BY StoreInvKept
<1>. QED BY <1>1, <1>2, PTL DEF Spec

\* A print file is whole at every moment, also after a crash, as long as saves of
\* one key do not overlap: the promise of write_atomically's comment.
THEOREM StoreNeverTorn == Exclusive => (Spec => []NeverTorn)
<1>. SUFFICES ASSUME Exclusive PROVE Spec => []NeverTorn
  OBVIOUS
<1>1. StoreInv => NeverTorn
  BY DEF StoreInv, Whole, NeverTorn
<1>. QED BY <1>1, StoreSafe, PTL

-----------------------------------------------------------------------------
(* The refinement: each step is a step of PrintStore or changes nothing of *)
(* what it sees.                                                           *)

absVars == <<Content(live, data), Content(saved.live, disk), [w \in Workers |-> CallOf(w)]>>

\* A step that leaves the trees alone and every file with a name or a reader.
LEMMA ContentsKept ==
  ASSUME StoreInv, UNCHANGED <<live, saved>>,
         \A k \in Keys : live[k] # None => data'[live[k]] = data[live[k]],
         \A k \in Keys : saved.live[k] # None => disk'[saved.live[k]] = disk[saved.live[k]]
  PROVE  UNCHANGED <<Content(live, data), Content(saved.live, disk)>>
  BY DEF Content

\* A file that is being written, or is about to be, is no print's and no reader's.
LEMMA TempApart ==
  ASSUME StoreInv, NEW k \in Keys, NEW i \in Inodes, i = temp[k] \/ Free(i)
  PROVE  /\ \A j \in Keys : live[j] # i /\ saved.live[j] # i
         /\ \A v \in Workers : pc[v] \in {"read", "reread"} => fd[v] # i
  BY StoreAssumption DEF StoreInv, OneName, Distinct, Free, Reading, Typed, Names

LEMMA PrivateSteps ==
  ASSUME StoreInv, StoreInv', NEW w \in Workers,
         \/ Climb(w) \/ MakeDir(w) \/ WriteFails(w) \/ ReadFirst(w)
         \/ ReadRest(w) \/ EndList(w) \/ Prune(w) \/ StopPruning(w)
  PROVE  UNCHANGED absVars
<1>. USE StoreAssumption
<1>1. UNCHANGED <<Content(live, data), Content(saved.live, disk)>>
  <2>1. UNCHANGED <<live, saved, data, disk>>
    BY DEF Climb, MakeDir, WriteFails, ReadFirst, ReadRest, EndList, Prune, StopPruning
  <2>. QED BY <2>1, ContentsKept
<1>2. CallOf(w)' = CallOf(w) /\ \A v \in Workers : v # w => CallOf(v)' = CallOf(v)
  <2>1. CASE Climb(w)
    BY <2>1 DEF Climb, CallOf, AnswerOf, StoreInv, Typed
  <2>2. CASE MakeDir(w)
    <3>1. PICK p \in {"create", "descend"} : pc' = [pc EXCEPT ![w] = p]
      <4>1. CASE at[w] = Levels(Key(w))
        BY <2>2, <4>1 DEF MakeDir, Goto
      <4>2. CASE at[w] # Levels(Key(w))
        BY <2>2, <4>2 DEF MakeDir, Goto
      <4>. QED BY <4>1, <4>2
    <3>2. pc[w] \in {"climb", "descend"} /\ UNCHANGED <<got, call, fd, data>>
      BY <2>2 DEF MakeDir
    <3>. QED BY <3>1, <3>2 DEF CallOf, AnswerOf, StoreInv, Typed
  <2>3. CASE WriteFails(w)
    BY <2>3 DEF WriteFails, CallOf, AnswerOf, StoreInv, Typed
  <2>4. CASE ReadFirst(w)
    BY <2>4 DEF ReadFirst, CallOf, AnswerOf, StoreInv, Typed
  <2>5. CASE ReadRest(w)
    <3> DEFINE x == data[fd[w]]
    <3>1. got[w] = <<x[1]>>
      BY <2>5 DEF ReadRest, StoreInv, Reading
    <3>3. Decoded(<<got[w][1], x[2]>>) = Decoded(x)
      BY <3>1 DEF Decoded
    <3>4. got' = [got EXCEPT ![w] = <<"found", Own(Decoded(x))>>]
      BY <2>5, <3>3 DEF ReadRest, Answer
    <3>. HIDE DEF x
    <3>5. CallOf(w)' = CallOf(w)
      BY <2>5, <3>4 DEF ReadRest, Answer, CallOf, AnswerOf, StoreInv, Typed, x
    <3>. QED BY <2>5, <3>5 DEF ReadRest, Answer, CallOf, AnswerOf, StoreInv, Typed
  <2>6. CASE Prune(w)
    BY <2>6 DEF Prune, CallOf, AnswerOf, StoreInv, Typed
  <2>7. CASE StopPruning(w)
    BY <2>7 DEF StopPruning, CallOf, AnswerOf, StoreInv, Typed, Answer
  <2>8. CASE EndList(w)
    BY <2>8 DEF EndList, CallOf, AnswerOf, StoreInv, Typed, Answer
  <2>. QED BY <2>1, <2>2, <2>3, <2>4, <2>5, <2>6, <2>7, <2>8
<1>. QED BY <1>1, <1>2 DEF absVars

LEMMA WritingSteps ==
  ASSUME StoreInv, NEW w \in Workers, CreateTemp(w) \/ Write(w) \/ Sync(w)
  PROVE  UNCHANGED absVars
<1>. USE StoreAssumption
<1>1. PICK i \in Inodes :
        /\ i = temp[Key(w)] \/ Free(i)
        /\ \A j \in Inodes : j # i => data'[j] = data[j] /\ disk'[j] = disk[j]
  <2>1. CASE CreateTemp(w)
    BY <2>1 DEF CreateTemp, StoreInv, Typed
  <2>2. CASE Write(w)
    BY <2>2 DEF Write, StoreInv, Typed, Writing
  <2>3. CASE Sync(w)
    BY <2>3 DEF Sync, StoreInv, Typed, Writing
  <2>. QED BY <2>1, <2>2, <2>3
<1>2. Key(w) \in Keys
  BY DEF CreateTemp, Write, Sync, StoreInv, Asked
<1>3. /\ \A j \in Keys : live[j] # i /\ saved.live[j] # i
      /\ \A v \in Workers : pc[v] \in {"read", "reread"} => fd[v] # i
  BY <1>1, <1>2, TempApart
<1>4. UNCHANGED <<Content(live, data), Content(saved.live, disk)>>
  <2>1. /\ \A k \in Keys : live[k] # None => data'[live[k]] = data[live[k]]
        /\ \A k \in Keys : saved.live[k] # None => disk'[saved.live[k]] = disk[saved.live[k]]
    BY <1>1, <1>3 DEF StoreInv, Typed, Names
  <2>2. UNCHANGED <<live, saved>>
    BY DEF CreateTemp, Write, Sync
  <2>. QED BY <2>1, <2>2, ContentsKept
<1>5. \A v \in Workers : pc[v] \in {"read", "reread"} => data'[fd[v]] = data[fd[v]]
  BY <1>1, <1>3 DEF StoreInv, Typed, Reading
<1>6. CallOf(w)' = CallOf(w) /\ \A v \in Workers : v # w => CallOf(v)' = CallOf(v)
  <2>1. CASE CreateTemp(w)
    <3>1. pc[w] = "create" /\ pc' = [pc EXCEPT ![w] = "write"] /\ UNCHANGED <<got, call>>
      BY <2>1 DEF CreateTemp, Goto
    <3>2. \A v \in Workers : v # w => fd'[v] = fd[v]
      BY <2>1 DEF CreateTemp, StoreInv, Typed
    <3>. QED BY <3>1, <3>2, <1>5 DEF CallOf, AnswerOf, StoreInv, Typed
  <2>2. CASE Write(w)
    <3>1. PICK p \in {"write", "sync"} : pc' = [pc EXCEPT ![w] = p]
      <4>1. CASE at[w] = 1
        BY <2>2, <4>1 DEF Write
      <4>2. CASE at[w] # 1
        BY <2>2, <4>2 DEF Write
      <4>. QED BY <4>1, <4>2
    <3>2. pc[w] = "write" /\ UNCHANGED <<got, call, fd>>
      BY <2>2 DEF Write
    <3>. QED BY <3>1, <3>2, <1>5 DEF CallOf, AnswerOf, StoreInv, Typed
  <2>3. CASE Sync(w)
    BY <2>3, <1>5 DEF Sync, CallOf, AnswerOf, StoreInv, Typed
  <2>. QED BY <2>1, <2>2, <2>3
<1>. QED BY <1>4, <1>6 DEF absVars


\* Steps that leave every file alone: the calls and their ends.
LEMMA CallSteps ==
  ASSUME StoreInv, NEW w \in Workers,
         \/ \E k \in Keys, op \in Ops \ {"save"} : Ask(w, op, k, None)
         \/ \E k \in Keys, p \in Prints : Ask(w, "save", k, p)
         \/ Return(w) \/ GiveUp(w) \/ RemoveTemp(w)
         \/ LoadNothing(w) \/ OpenPrint(w) \/ OpenDir(w) \/ ListFinger(w) \/ DeleteNothing(w)
  PROVE  Abstract!Next
<1>. USE StoreAssumption
<1>1. UNCHANGED <<Content(live, data), Content(saved.live, disk)>>
  <2>1. UNCHANGED <<live, saved, data, disk>>
    BY DEF Ask, Return, GiveUp, RemoveTemp, LoadNothing, OpenPrint,
           OpenDir, ListFinger, DeleteNothing
  <2>. QED BY <2>1, ContentsKept
<1>. DEFINE K == [v \in Workers |-> CallOf(v)]
<1>c. \A k \in Keys : /\ live[k] = None => Content(live, data)[k] = None
                      /\ live[k] # None => Content(live, data)[k] = Decoded(data[live[k]])
                      /\ live[k] # None => Content(live, data)[k] # None
  BY DEF Content, StoreInv, Whole
<1>2. ASSUME NEW k \in Keys, NEW op \in Ops, NEW p \in Prints \cup {None},
             (op = "save") = (p # None), Ask(w, op, k, p)
      PROVE  Abstract!Call(w)
  <2>1. K[w] = Abstract!NoCall
    BY <1>2 DEF Ask, CallOf, AnswerOf, Abstract!NoCall, StoreInv, Asked, NoAsk
  <2>2. K' = [K EXCEPT ![w] = [op |-> op, key |-> k, print |-> p, answer |-> <<"none">>]]
    <3>1. FirstPlace[op] \in {"climb", "open", "list", "unlink"}
      BY DEF FirstPlace
    <3>2. PICK q \in {"climb", "open", "list", "unlink"} : pc' = [pc EXCEPT ![w] = q]
      BY <1>2, <3>1 DEF Ask
    <3>3. /\ call' = [call EXCEPT ![w] = [op |-> op, key |-> k, print |-> p]]
          /\ UNCHANGED <<got, fd, data>>
      BY <1>2 DEF Ask
    <3>4. CallOf(w)' = [op |-> op, key |-> k, print |-> p, answer |-> <<"none">>]
      BY <3>2, <3>3 DEF CallOf, AnswerOf, StoreInv, Typed
    <3>5. \A v \in Workers : v # w => CallOf(v)' = CallOf(v)
      BY <3>2, <3>3 DEF CallOf, AnswerOf, StoreInv, Typed
    <3>. QED BY <3>4, <3>5
  <2>3. \E o \in {"save", "load", "list", "delete"}, j \in Keys, q \in Prints \cup {None} :
          /\ (o = "save") = (q # None)
          /\ K' = [K EXCEPT ![w] = [op |-> o, key |-> j, print |-> q, answer |-> <<"none">>]]
    <3>. HIDE DEF K
    <3>. WITNESS op \in {"save", "load", "list", "delete"}, k \in Keys, p \in Prints \cup {None}
    <3>. QED BY <1>2, <2>2
  <2>. QED BY <1>1, <2>1, <2>3, Zenon DEF Abstract!Call
<1>3. CASE Return(w)
  <2>1. K[w] # Abstract!NoCall /\ K[w].answer # <<"none">>
    BY <1>3 DEF Return, CallOf, AnswerOf, Abstract!NoCall, StoreInv, Asked
  <2>2. K' = [K EXCEPT ![w] = Abstract!NoCall]
    BY <1>3 DEF Return, CallOf, AnswerOf, Abstract!NoCall, StoreInv, Typed, NoAsk
  <2>. QED BY <1>1, <2>1, <2>2 DEF Abstract!Return, Abstract!Next
<1>4. ASSUME NEW a, Answer(w, a), call' = call, data' = data
      PROVE  K' = [K EXCEPT ![w].answer = a]
  BY <1>4 DEF Answer, CallOf, AnswerOf, StoreInv, Typed
<1>5. CASE GiveUp(w)
  <2>1. CASE call[w].op = "load"
    <3>1. Answer(w, <<"found", None>>)
      BY <1>5, <2>1, Zenon DEF GiveUp, FailsAsAsked
    <3>2. K' = [K EXCEPT ![w].answer = <<"found", None>>]
      BY <1>4, <1>5, <3>1 DEF GiveUp
    <3>. QED BY <1>1, <2>1, <3>2 DEF CallOf, Abstract!Miss, Abstract!Answer, Abstract!Next
  <2>2. CASE call[w].op = "list"
    <3>1. Answer(w, <<"listed", {}>>)
      BY <1>5, <2>2 DEF GiveUp, FailsAsAsked
    <3>2. K' = [K EXCEPT ![w].answer = <<"listed", {}>>]
      BY <1>4, <1>5, <3>1 DEF GiveUp
    <3>3. K[w].op = "list" /\ K[w].answer = <<"none">>
      BY <1>5, <2>2 DEF GiveUp, CallOf, AnswerOf, StoreInv, Asked, SavePlaces
    <3>. QED BY <1>1, <3>2, <3>3
             DEF Abstract!List, Abstract!Undecided, Abstract!Answer, Abstract!Next
  <2>3. CASE call[w].op \notin {"load", "list"}
    <3>1. Answer(w, <<"failed">>)
      BY <1>5, <2>3, Zenon DEF GiveUp, FailsAsAsked, Fails
    <3>2. K' = [K EXCEPT ![w].answer = <<"failed">>]
      BY <1>4, <1>5, <3>1 DEF GiveUp
    <3>3. K[w].op \in {"save", "delete"} /\ K[w].answer = <<"none">>
      BY <1>5, <2>3 DEF GiveUp, CallOf, AnswerOf, StoreInv, Asked, SavePlaces
    <3>. QED BY <1>1, <3>2, <3>3 DEF Abstract!Fail, Abstract!Answer, Abstract!Next
  <2>. QED BY <2>1, <2>2, <2>3
<1>10. CASE RemoveTemp(w)
  <2>1. K' = [K EXCEPT ![w].answer = <<"failed">>]
    BY <1>4, <1>10 DEF RemoveTemp, Fails
  <2>2. K[w].op = "save" /\ K[w].answer = <<"none">>
    BY <1>10 DEF RemoveTemp, CallOf, AnswerOf, StoreInv, Asked, SavePlaces
  <2>. QED BY <1>1, <2>1, <2>2 DEF Abstract!Fail, Abstract!Answer, Abstract!Next
<1>6. CASE LoadNothing(w)
  <2>1. K' = [K EXCEPT ![w].answer = <<"found", None>>]
    BY <1>4, <1>6 DEF LoadNothing
  <2>2. K[w].op = "load" /\ K[w].answer = <<"none">> /\ K[w].key = Key(w)
    BY <1>6 DEF LoadNothing, CallOf, AnswerOf, StoreInv, Asked
  <2>3. Abstract!Own(Content(live, data)[Key(w)]) = None
    BY <1>6, <1>c DEF LoadNothing, Abstract!Own, StoreInv, Asked
  <2>. QED BY <1>1, <2>1, <2>2, <2>3
           DEF Abstract!Load, Abstract!Undecided, Abstract!Answer, Abstract!Next
<1>7. CASE OpenPrint(w)
  <2>1. K[w].op = "load" /\ K[w].answer = <<"none">> /\ K[w].key = Key(w)
    BY <1>7 DEF OpenPrint, CallOf, AnswerOf, StoreInv, Asked
  <2>2. Key(w) \in Keys
    BY <1>7 DEF OpenPrint, StoreInv, Asked
  <2>3. Abstract!Own(Content(live, data)[Key(w)]) = Own(Decoded(data[live[Key(w)]]))
    BY <1>7, <1>c, <2>2 DEF OpenPrint, Abstract!Own, Own
  <2>4. K' = [K EXCEPT ![w].answer = <<"found", Own(Decoded(data[live[Key(w)]]))>>]
    BY <1>7 DEF OpenPrint, CallOf, AnswerOf, StoreInv, Typed
  <2>. QED BY <1>1, <2>1, <2>3, <2>4
           DEF Abstract!Load, Abstract!Undecided, Abstract!Answer, Abstract!Next
<1>8. CASE OpenDir(w)
  <2>1. K[w].op = "list" /\ K[w].answer = <<"none">>
    BY <1>8 DEF OpenDir, CallOf, AnswerOf, StoreInv, Asked
  <2>2. K' = [K EXCEPT ![w].answer = <<"listed", {}>>]
    BY <1>8 DEF OpenDir, CallOf, AnswerOf, StoreInv, Typed
  <2>. QED BY <1>1, <2>1, <2>2
           DEF Abstract!List, Abstract!Undecided, Abstract!Answer, Abstract!Next
<1>11. CASE ListFinger(w)
  <2>1. PICK j \in Keys :
          /\ Front(j) = Front(Key(w)) /\ live[j] # None
          /\ got' = [got EXCEPT ![w] = <<"listed", got[w][2] \cup {j}>>]
    BY <1>11 DEF ListFinger
  <2>2. K[w].op = "list" /\ K[w].key = Key(w) /\ K[w].answer = got[w]
    BY <1>11 DEF ListFinger, CallOf, AnswerOf, StoreInv, Asked
  <2>3. got[w][1] = "listed"
    BY <1>11 DEF ListFinger, StoreInv, Asked
  <2>4. K' = [K EXCEPT ![w].answer = <<"listed", got[w][2] \cup {j}>>]
    BY <1>11, <2>1 DEF ListFinger, CallOf, AnswerOf, StoreInv, Typed
  <2>5. Content(live, data)[j] # None /\ Abstract!Front(j) = Abstract!Front(Key(w))
    BY <1>c, <2>1 DEF Front, Abstract!Front
  <2>6. K' = [K EXCEPT ![w].answer = <<"listed", K[w].answer[2] \cup {j}>>]
    BY <2>2, <2>4
  <2>7. K[w].op = "list" /\ K[w].answer[1] = "listed"
    BY <2>2, <2>3
  <2>8. Abstract!Front(j) = Abstract!Front(K[w].key)
    BY <2>2, <2>5
  <2>. HIDE DEF K
  <2>9. Abstract!See(w)
    BY <1>1, <2>5, <2>6, <2>7, <2>8 DEF Abstract!See, Abstract!Answer, K
  <2>. QED BY <2>9 DEF Abstract!Next
<1>9. CASE DeleteNothing(w)
  <2>1. K[w].op = "delete" /\ K[w].answer = <<"none">> /\ K[w].key = Key(w)
    BY <1>9 DEF DeleteNothing, CallOf, AnswerOf, StoreInv, Asked
  <2>2. K' = [K EXCEPT ![w].answer = <<"ok">>]
    BY <1>4, <1>9 DEF DeleteNothing
  <2>3. Content(live, data) = [Content(live, data) EXCEPT ![Key(w)] = None]
    BY <1>9, <1>c DEF DeleteNothing, StoreInv, Asked, Content
  <2>. QED BY <1>1, <2>1, <2>2, <2>3
           DEF Abstract!Delete, Abstract!Undecided, Abstract!Answer, Abstract!Next
<1>. QED BY <1>2, <1>3, <1>5, <1>6, <1>7, <1>8, <1>9, <1>10, <1>11 DEF Abstract!Next, Ops

\* Steps that change what is stored.
LEMMA EffectSteps ==
  ASSUME StoreInv, NEW w \in Workers, Rename(w) \/ Unlink(w)
  PROVE  Abstract!Next
<1>. USE StoreAssumption
<1>. DEFINE K == [v \in Workers |-> CallOf(v)]
<1>0. Key(w) \in Keys
  BY DEF Rename, Unlink, StoreInv, Asked
<1>1. UNCHANGED Content(saved.live, disk)
  BY DEF Rename, Unlink, Content
<1>2. CASE Rename(w)
  <2>1. K[w].op = "save" /\ K[w].answer = <<"none">> /\ K[w].key = Key(w) /\ K[w].print \in Prints
    BY <1>2 DEF Rename, CallOf, AnswerOf, StoreInv, Asked, SavePlaces
  <2>2. K' = [K EXCEPT ![w].answer = <<"ok">>]
    BY <1>2 DEF Rename, Answer, CallOf, AnswerOf, StoreInv, Typed
  <2>3. temp[Key(w)] # None /\ Decoded(data[temp[Key(w)]]) = call[w].print
    BY <1>2 DEF Rename, StoreInv, Writing, Decoded
  <2>4. Content(live, data)' = [Content(live, data) EXCEPT ![Key(w)] = call[w].print]
    <3>1. /\ live' = [live EXCEPT ![Key(w)] = temp[Key(w)]]
          /\ data' = data
      BY <1>2 DEF Rename
    <3>2. call[w].print # None
      BY <2>1 DEF CallOf
    <3>. QED BY <1>0, <2>3, <3>1, <3>2 DEF Content, StoreInv, Typed, Names
  <2>5. K[w].print = call[w].print
    BY DEF CallOf
  <2>. QED BY <1>1, <2>1, <2>2, <2>4, <2>5
           DEF Abstract!Save, Abstract!Undecided, Abstract!Answer, Abstract!Next
<1>3. CASE Unlink(w)
  <2>1. K[w].op = "delete" /\ K[w].answer = <<"none">> /\ K[w].key = Key(w)
    BY <1>3 DEF Unlink, CallOf, AnswerOf, StoreInv, Asked
  <2>2. K' = [K EXCEPT ![w].answer = <<"ok">>]
    BY <1>3 DEF Unlink, CallOf, AnswerOf, StoreInv, Typed
  <2>3. Content(live, data)' = [Content(live, data) EXCEPT ![Key(w)] = None]
    BY <1>0, <1>3 DEF Unlink, Content, StoreInv, Typed, Names
  <2>. QED BY <1>1, <2>1, <2>2, <2>3
           DEF Abstract!Delete, Abstract!Undecided, Abstract!Answer, Abstract!Next
<1>. QED BY <1>2, <1>3

LEMMA DiskSteps ==
  ASSUME StoreInv, Commit \/ Crash \/ \E i \in Inodes : WriteBack(i)
  PROVE  [Abstract!Next]_absVars
<1>. USE StoreAssumption
<1>1. CASE Commit
  <2>1. Content(saved.live, disk)' = Content(live, data)
    BY <1>1 DEF Commit, Content, StoreInv, Whole
  <2>2. UNCHANGED <<Content(live, data), [w \in Workers |-> CallOf(w)]>>
    BY <1>1 DEF Commit, Content, CallOf, AnswerOf
  <2>. QED BY <2>1, <2>2 DEF Abstract!Commit, Abstract!Next
<1>2. CASE Crash
  <2>1. Content(live, data)' = Content(saved.live, disk)
    BY <1>2 DEF Crash, Content
  <2>2. Content(saved.live, disk)' = Content(saved.live, disk)
    BY <1>2 DEF Crash, Content
  <2>3. [w \in Workers |-> CallOf(w)]' = [w \in Workers |-> Abstract!NoCall]
    BY <1>2 DEF Crash, CallOf, AnswerOf, Abstract!NoCall, NoAsk
  <2>. QED BY <2>1, <2>2, <2>3 DEF Abstract!Crash, Abstract!Next
<1>3. ASSUME NEW i \in Inodes, WriteBack(i) PROVE UNCHANGED absVars
  <2>1. \A k \in Keys : saved.live[k] # None => disk'[saved.live[k]] = disk[saved.live[k]]
    BY <1>3 DEF WriteBack, StoreInv, Whole, Typed, Names
  <2>2. UNCHANGED <<Content(live, data), Content(saved.live, disk)>>
    BY <1>3, <2>1, ContentsKept DEF WriteBack
  <2>. QED BY <1>3, <2>2 DEF WriteBack, absVars, CallOf, AnswerOf
<1>. QED BY <1>1, <1>2, <1>3

LEMMA AbstractInitial ==
  ASSUME Init
  PROVE  Abstract!Init
<1>. USE StoreAssumption
<1>1. StoreInv
  BY StoreInvInitial
<1>2. Content(live, data) \in [Keys -> Prints \cup {Alien, None}]
  <2>1. \A k \in Keys : live[k] # None => Decoded(data[live[k]]) \in Prints \cup {Alien}
    BY <1>1 DEF StoreInv, Typed, Whole, Names, Chunk, Decoded
  <2>. QED BY <2>1 DEF Content
<1>3. Content(saved.live, disk) = Content(live, data)
  BY DEF Init, Content
<1>4. [w \in Workers |-> CallOf(w)] = [w \in Workers |-> Abstract!NoCall]
  BY DEF Init, CallOf, AnswerOf, NoAsk, Abstract!NoCall
<1>. QED BY <1>2, <1>3, <1>4 DEF Abstract!Init

\* The store implements PrintStore: calls take effect in one step or not at all,
\* and a crash falls back to one earlier moment, for any keys, workers, prints.
THEOREM StoreLinearizable == Exclusive => (Spec => Linearizable)
<1>. SUFFICES ASSUME Exclusive PROVE Spec => Linearizable
  OBVIOUS
<1>1. Init => Abstract!Init
  BY AbstractInitial
<1>2. StoreInv /\ StoreInv' /\ [Next]_vars => [Abstract!Next]_absVars
  <2>. SUFFICES ASSUME StoreInv, StoreInv', [Next]_vars PROVE [Abstract!Next]_absVars
    OBVIOUS
  <2>1. ASSUME NEW w \in Workers, Worker(w) PROVE [Abstract!Next]_absVars
    BY <2>1, PrivateSteps, WritingSteps, CallSteps, EffectSteps DEF Worker
  <2>2. CASE UNCHANGED vars
    BY <2>2 DEF vars, absVars, Content, CallOf, AnswerOf
  <2>. QED BY <2>1, <2>2, DiskSteps DEF Next
<1>. QED BY <1>1, <1>2, StoreSafe, PTL DEF Spec, Linearizable, Abstract!Spec, absVars

=============================================================================
