-------------------------- MODULE SourceRegistryProof --------------------------
(***************************************************************************)
(* The locks of the git cache, and what they buy: for any number of        *)
(* GitRepositories, directories, workers and readers, until the process is *)
(* killed for the first time, a read is never told a commit newer than its *)
(* bytes, and of a directory that one GitRepository has to itself it       *)
(* returns exactly the bytes of the commit it reports.                     *)
(*                                                                         *)
(* The invariant has three layers.  CallInv and LockInv hold always: who   *)
(* works for whom, on which struct, and with which locks.  OrderInv is     *)
(* about shared directories: what an operation is about to write is no     *)
(* older than what anybody may have recorded for that directory.           *)
(* SnapshotInv is about a directory with one user.                         *)
(***************************************************************************)
EXTENDS SourceRegistry, TLAPS

\* In a git operation on the directory; serving the registered entry; with e.rw held.
InDirPCs == {"stat", "update", "wipe", "clone", "cloneFetch", "reset", "resolve", "failed"}
Working == {"lockEntry", "lockDir", "record"} \cup InDirPCs
Holding == {"lockDir", "record"} \cup InDirPCs

\* A worker keeps to its key, which no other worker serves, and to the struct it
\* looked up; unless it is to be removed, that struct stays the registered one.
CallInv ==
  /\ \A w \in GitWorkers :
       /\ gw[w].pc = "idle" => gw[w] = GitIdle
       /\ gw[w].pc # "idle" => gw[w].key \in Repos
       /\ gw[w].pc = "register" => gw[w].cfg \in Configs /\ gw[w].cfg.pin \in PinsOf[gw[w].key]
       /\ gw[w].pc \notin {"idle", "register"} =>
            gw[w].entry \in EntryIds /\ Pin(w) \in PinsOf[gw[w].key]
       /\ gw[w].pc \in Working => entries[gw[w].key] = gw[w].entry
       /\ gw[w].pc = "remove" => entries[gw[w].key] = None
  /\ \A v, w \in GitWorkers : v # w /\ gw[v].pc # "idle" => gw[v].key # gw[w].key
  /\ \A r \in Readers : rd[r].pc # "idle" =>
       rd[r].key \in Repos /\ rd[r].entry \in EntryIds /\ heap[rd[r].entry].pin \in PinsOf[rd[r].key]
  /\ \A k \in Repos :
       /\ spec[k].pin \in PinsOf[k]
       /\ entries[k] # None => heap[entries[k]].pin \in PinsOf[k]

\* The locks are held where the code holds them, and exclude what they should.
LockInv ==
  /\ \A w \in GitWorkers :
       /\ gw[w].pc \in Holding => rw[gw[w].entry].writer = w
       /\ InDir(w) => repoMu[Pin(w)] = w
  /\ \A r \in Readers : rd[r].pc \in {"readFile", "return"} => r \in rw[rd[r].entry].readers
  /\ \A e \in EntryIds : rw[e].writer # None => rw[e].readers = {}

Locks == TypeOK /\ CallInv /\ LockInv

\* The worktree holds nothing older than commit c.
AtLeast(p, c) == disk[p].tree \in {0, Torn} \/ disk[p].tree >= c

\* Somebody is about to rewrite or to remove the worktree.
Writing(p) == \E w \in GitWorkers : gw[w].pc \in {"reset", "wipe"} /\ Pin(w) = p

OrderInv ==
  /\ \A p \in Pins : /\ disk[p].head <= upstream[p]
                     /\ AtLeast(p, disk[p].head) \/ Writing(p)
  /\ \A e \in EntryIds : heap[e].sha <= upstream[heap[e].pin] /\ AtLeast(heap[e].pin, heap[e].sha)
  /\ \A w \in GitWorkers :
       /\ gw[w].pc = "record" => gw[w].got <= upstream[Pin(w)] /\ AtLeast(Pin(w), gw[w].got)
       /\ gw[w].pc = "reset" =>
            /\ gw[w].got <= upstream[Pin(w)] /\ disk[Pin(w)].head <= gw[w].got
            /\ \A e \in EntryIds : heap[e].pin = Pin(w) => heap[e].sha <= gw[w].got
            /\ \A v \in GitWorkers :
                 gw[v].pc = "record" /\ Pin(v) = Pin(w) => gw[v].got <= gw[w].got
  /\ \A r \in Readers :
       rd[r].pc = "return" => rd[r].content = Torn \/ rd[r].content >= heap[rd[r].entry].sha

\* At most one GitRepository may ever select p.
Sole(p) == \A j, k \in Repos : p \in PinsOf[j] /\ p \in PinsOf[k] => j = k

\* The entry's directory is being worked on.
Dirty(e) == \E w \in GitWorkers :
              gw[w].entry = e /\ gw[w].pc \in (InDirPCs \ {"failed"}) \cup {"record"}

SnapshotInv ==
  /\ \A p \in Pins : Sole(p) => /\ Writing(p) \/ disk[p].tree = disk[p].head
                                /\ ~disk[p].git => disk[p] = Absent
  /\ \A w \in GitWorkers : gw[w].pc \in Working /\ Sole(Pin(w)) =>
       /\ gw[w].pc \in {"update", "cloneFetch", "reset", "resolve"} => disk[Pin(w)].git
       /\ gw[w].pc = "reset" => disk[Pin(w)].head = gw[w].got
       /\ gw[w].pc = "record" => disk[Pin(w)].tree = gw[w].got
  /\ \A k \in Repos : entries[k] # None /\ Sole(heap[entries[k]].pin) =>
       Dirty(entries[k]) \/ disk[heap[entries[k]].pin].tree \in {0, heap[entries[k]].sha}
  /\ \A r \in Readers :
       rd[r].pc = "return" /\ Sole(heap[rd[r].entry].pin) /\ entries[rd[r].key] = rd[r].entry
         => rd[r].content = heap[rd[r].entry].sha

\* What a killed process leaves on disk is not covered.
Unkilled ==
  /\ NoLeakedClone /\ OrderInv /\ SnapshotInv
  /\ CommitNotAheadOfContent /\ ExclusiveReadIsSnapshot

IInv == Locks /\ (restarts = 0 => Unkilled)
-----------------------------------------------------------------------------
(* Types.                                                                  *)

Heaps == [EntryIds -> [pin : Pins, cred : Creds, sha : 0..MaxCommit]]
GitCalls == [pc : GitPCs \cup {"idle"}, key : Repos \cup {None}, cfg : Configs \cup {None},
             entry : EntryIds \cup {None}, got : 0..MaxCommit, cloning : BOOLEAN]
ReadCalls == [pc : ReadPCs \cup {"idle"}, key : Repos \cup {None}, entry : EntryIds \cup {None},
              content : (0..MaxCommit) \cup {Torn}, sha : 0..MaxCommit]

LEMMA Constants ==
  /\ Absent \in Disks /\ GitIdle \in GitCalls /\ ReadIdle \in ReadCalls
  /\ GitIdle.pc = "idle" /\ GitIdle.key = None /\ GitIdle.entry = None /\ ReadIdle.pc = "idle"
  /\ NoStructs \in Heaps /\ \A e \in EntryIds : NoStructs[e].sha = 0
  /\ \A cfg \in Configs : /\ Fresh(cfg) \in [pin : Pins, cred : Creds, sha : 0..MaxCommit]
                          /\ Fresh(cfg).pin = cfg.pin /\ Fresh(cfg).sha = 0
  /\ Unlocked \in [writer : GitWorkers \cup {None}, readers : SUBSET Readers]
  /\ Commits \subseteq 0..MaxCommit /\ 1 \in Commits
<1>1. \E cfg : cfg \in Configs
  <2>1. PICK p \in Pins, c \in Creds : TRUE
    BY RegistryAssumption
  <2> QED
    BY <2>1, [pin |-> p, cred |-> c] \in Configs DEF Configs
<1>2. \A cfg \in Configs : /\ Fresh(cfg) \in [pin : Pins, cred : Creds, sha : 0..MaxCommit]
                           /\ Fresh(cfg).pin = cfg.pin /\ Fresh(cfg).sha = 0
  BY RegistryAssumption DEF Configs, Fresh
<1>3. NoStructs \in Heaps /\ \A e \in EntryIds : NoStructs[e].sha = 0
  BY <1>1, <1>2 DEF NoStructs, Heaps
<1> QED
  BY <1>2, <1>3, RegistryAssumption
     DEF Absent, Disks, GitIdle, GitCalls, GitPCs, ReadIdle, ReadCalls, ReadPCs, Unlocked, Commits

LEMMA Types ==
  TypeOK <=>
    /\ spec \in [Repos -> Configs] /\ upstream \in [Pins -> Commits]
    /\ entries \in [Repos -> EntryIds \cup {None}] /\ heap \in Heaps
    /\ rw \in [EntryIds -> [writer : GitWorkers \cup {None}, readers : SUBSET Readers]]
    /\ repoMu \in [Pins -> GitWorkers \cup {None}] /\ disk \in [Pins -> Disks]
    /\ gw \in [GitWorkers -> GitCalls] /\ rd \in [Readers -> ReadCalls]
    /\ reported \in [Repos -> BOOLEAN] /\ restarts \in 0..MaxRestarts
BY DEF TypeOK, Heaps, GitCalls, ReadCalls

LEMMA TypesNext ==
  TypeOK' <=>
    /\ spec' \in [Repos -> Configs] /\ upstream' \in [Pins -> Commits]
    /\ entries' \in [Repos -> EntryIds \cup {None}] /\ heap' \in Heaps
    /\ rw' \in [EntryIds -> [writer : GitWorkers \cup {None}, readers : SUBSET Readers]]
    /\ repoMu' \in [Pins -> GitWorkers \cup {None}] /\ disk' \in [Pins -> Disks]
    /\ gw' \in [GitWorkers -> GitCalls] /\ rd' \in [Readers -> ReadCalls]
    /\ reported' \in [Repos -> BOOLEAN] /\ restarts' \in 0..MaxRestarts
BY DEF TypeOK, Heaps, GitCalls, ReadCalls

LEMMA InitInv == Init => IInv
<1> SUFFICES ASSUME Init PROVE IInv
  OBVIOUS
<1>1. TypeOK
  BY Constants, Types, RegistryAssumption DEF Init
<1>2. CallInv /\ LockInv
  BY Constants, RegistryAssumption
     DEF Init, CallInv, LockInv, InDir, InDirPCs, Working, Holding, Unlocked, ReadIdle, GitIdle
<1>3. NoLeakedClone /\ CommitNotAheadOfContent /\ ExclusiveReadIsSnapshot
  BY DEF Init, NoLeakedClone, CommitNotAheadOfContent, ExclusiveReadIsSnapshot, ReadIdle
<1>4. OrderInv
  BY <1>1, Constants DEF Init, OrderInv, AtLeast, Absent, GitIdle, ReadIdle, TypeOK, Commits
<1>5. SnapshotInv
  BY DEF Init, SnapshotInv, Absent, GitIdle, ReadIdle, Working, InDirPCs
<1> QED
  BY <1>1, <1>2, <1>3, <1>4, <1>5 DEF IInv, Locks, Unkilled

-----------------------------------------------------------------------------
(* Steps of a git operation: a worker moves on, and its directory changes. *)

Moves(w, pc, got, cloning, d) ==
  /\ gw[w].pc \in InDirPCs
  /\ gw' = [gw EXCEPT ![w] = [pc |-> pc, key |-> gw[w].key, cfg |-> gw[w].cfg,
                              entry |-> gw[w].entry, got |-> got, cloning |-> cloning]]
  /\ disk' = [disk EXCEPT ![Pin(w)] = d]
  /\ UNCHANGED <<spec, upstream, entries, heap, rw, repoMu, rd, reported, restarts>>

\* The worker's place while it is there.
LEMMA Place ==
  ASSUME Locks, NEW w \in GitWorkers, gw[w].pc \in InDirPCs
  PROVE  /\ gw[w] \in GitCalls /\ gw[w].key \in Repos /\ gw[w].entry \in EntryIds
         /\ Pin(w) \in Pins /\ Pin(w) \in PinsOf[gw[w].key]
         /\ entries[gw[w].key] = gw[w].entry /\ repoMu[Pin(w)] = w
         /\ rw[gw[w].entry].writer = w /\ rw[gw[w].entry].readers = {}
<1>1. gw[w] \in GitCalls /\ gw[w].pc \notin {"idle", "register"} /\ gw[w].pc \in Working
      /\ gw[w].pc \in Holding /\ InDir(w)
  BY Types DEF Locks, InDirPCs, Working, Holding, InDir
<1>2. gw[w].key \in Repos /\ gw[w].entry \in EntryIds /\ Pin(w) \in PinsOf[gw[w].key]
      /\ entries[gw[w].key] = gw[w].entry /\ repoMu[Pin(w)] = w /\ rw[gw[w].entry].writer = w
  BY <1>1 DEF Locks, CallInv, LockInv, InDirPCs
<1>3. Pin(w) \in Pins
  BY <1>2, Types DEF Locks, Heaps, Pin
<1> QED
  BY <1>1, <1>2, <1>3, RegistryAssumption DEF Locks, LockInv

LEMMA MovesLocks ==
  ASSUME Locks, NEW w \in GitWorkers, NEW pc \in InDirPCs, NEW got \in 0..MaxCommit,
         NEW cloning \in BOOLEAN, NEW d \in Disks, Moves(w, pc, got, cloning, d)
  PROVE  Locks'
<1> DEFINE g == [pc |-> pc, key |-> gw[w].key, cfg |-> gw[w].cfg,
                 entry |-> gw[w].entry, got |-> got, cloning |-> cloning]
<1>1. gw[w].pc \in InDirPCs /\ gw \in [GitWorkers -> GitCalls]
  BY Types DEF Moves, Locks
<1>2. g \in GitCalls
  BY <1>1 DEF GitCalls, GitPCs, InDirPCs
<1>3. gw' = [gw EXCEPT ![w] = g] /\ disk' = [disk EXCEPT ![Pin(w)] = d]
  BY DEF Moves
<1>4. gw'[w] = g /\ \A v \in GitWorkers \ {w} : gw'[v] = gw[v]
  BY <1>1, <1>3
<1>5. \A v \in GitWorkers : /\ gw'[v].key = gw[v].key /\ gw'[v].entry = gw[v].entry
                            /\ Pin(v)' = Pin(v)
  BY <1>4 DEF Moves, Pin
<1> HIDE DEF g
<1>t. TypeOK'
  BY <1>1, <1>2, <1>3, Types, TypesNext DEF Moves, Locks
<1>6. g.pc = pc
  BY DEF g
<1>7. CallInv'
  <2>1. ASSUME NEW v \in GitWorkers
        PROVE  /\ gw'[v].pc = "idle" => gw'[v] = GitIdle
               /\ gw'[v].pc # "idle" => gw'[v].key \in Repos
               /\ gw'[v].pc = "register" => gw'[v].cfg \in Configs /\ gw'[v].cfg.pin \in PinsOf[gw'[v].key]
               /\ gw'[v].pc \notin {"idle", "register"} =>
                    gw'[v].entry \in EntryIds /\ Pin(v)' \in PinsOf[gw'[v].key]
               /\ gw'[v].pc \in Working => entries'[gw'[v].key] = gw'[v].entry
               /\ gw'[v].pc = "remove" => entries'[gw'[v].key] = None
    <3>1. CASE v = w
      BY <1>1, <1>4, <1>5, <1>6, <3>1, Place DEF InDirPCs, Moves
    <3>2. CASE v # w
      BY <1>4, <1>5, <3>2 DEF Locks, CallInv, Moves
    <3> QED
      BY <3>1, <3>2
  <2>2. ASSUME NEW u \in GitWorkers, NEW v \in GitWorkers, u # v, gw'[u].pc # "idle"
        PROVE  gw'[u].key # gw'[v].key
    <3>1. gw[u].pc # "idle"
      BY <1>1, <1>4, <2>2 DEF InDirPCs
    <3> QED
      BY <1>5, <2>2, <3>1 DEF Locks, CallInv
  <2> QED
    BY <2>1, <2>2 DEF Locks, CallInv, Moves
<1>8. LockInv'
  <2>1. \A v \in GitWorkers : /\ gw'[v].pc \in Holding => gw[v].pc \in Holding
                              /\ InDir(v)' => InDir(v)
    BY <1>1, <1>4 DEF Holding, InDir, InDirPCs
  <2> QED
    BY <1>5, <2>1 DEF Locks, LockInv, Moves
<1> QED
  BY <1>t, <1>7, <1>8 DEF Locks

\* Pins and recorded commits of structs that somebody still has.
LEMMA DoneStays ==
  ASSUME CommitNotAheadOfContent, ExclusiveReadIsSnapshot, rd' = rd,
         \A r \in Readers : rd[r].pc = "done" =>
           /\ heap'[rd[r].entry].pin = heap[rd[r].entry].pin
           /\ entries'[rd[r].key] = rd[r].entry => entries[rd[r].key] = rd[r].entry
  PROVE  CommitNotAheadOfContent' /\ ExclusiveReadIsSnapshot'
BY DEF CommitNotAheadOfContent, ExclusiveReadIsSnapshot, IsSnapshot, Exclusive

\* The mutex of the directory: nobody else is in it, so nobody else writes.
LEMMA AloneInDir ==
  ASSUME Locks, NEW w \in GitWorkers, gw[w].pc \in InDirPCs,
         NEW v \in GitWorkers, gw[v].pc \in InDirPCs, Pin(v) = Pin(w)
  PROVE  v = w
BY Place

LEMMA MovesFrame ==
  ASSUME Locks, NEW w \in GitWorkers, NEW pc \in InDirPCs, NEW got \in 0..MaxCommit,
         NEW cloning \in BOOLEAN, NEW d \in Disks, Moves(w, pc, got, cloning, d)
  PROVE  /\ Pin(w) \in Pins /\ disk'[Pin(w)] = d
         /\ \A p \in Pins \ {Pin(w)} : disk'[p] = disk[p]
         /\ gw'[w].pc = pc /\ gw'[w].got = got /\ gw'[w].entry = gw[w].entry /\ gw'[w].key = gw[w].key
         /\ \A v \in GitWorkers \ {w} : gw'[v] = gw[v]
         /\ \A v \in GitWorkers : Pin(v)' = Pin(v)
<1>1. gw[w].pc \in InDirPCs /\ gw \in [GitWorkers -> GitCalls] /\ disk \in [Pins -> Disks]
  BY Types DEF Moves, Locks
<1>2. Pin(w) \in Pins
  BY <1>1, Place
<1> QED
  BY <1>1, <1>2 DEF Moves, Pin

LEMMA MovesWriting ==
  ASSUME Locks, NEW w \in GitWorkers, NEW pc \in InDirPCs, NEW got \in 0..MaxCommit,
         NEW cloning \in BOOLEAN, NEW d \in Disks, Moves(w, pc, got, cloning, d)
  PROVE  /\ Writing(Pin(w))' <=> pc \in {"reset", "wipe"}
         /\ \A p \in Pins \ {Pin(w)} : Writing(p)' <=> Writing(p)
<1>1. gw[w].pc \in InDirPCs
  BY DEF Moves
<1>2. \A v \in GitWorkers \ {w} : gw[v].pc \in {"reset", "wipe"} => Pin(v) # Pin(w)
  BY <1>1, AloneInDir DEF InDirPCs
<1> QED
  BY <1>2, MovesFrame DEF Writing

\* An operation puts into the worktree what is there already, nothing, a mixture,
\* or, at the end of a reset, what it got from upstream.
LEMMA MovesOrder ==
  ASSUME Locks, OrderInv, NEW w \in GitWorkers, NEW pc \in InDirPCs, NEW got \in 0..MaxCommit,
         NEW cloning \in BOOLEAN, NEW d \in Disks, Moves(w, pc, got, cloning, d),
         \/ d.tree \in {0, Torn, disk[Pin(w)].tree}
         \/ gw[w].pc = "reset" /\ d.tree = gw[w].got,
         d.head <= upstream[Pin(w)],
         d.tree \in {0, Torn} \/ d.tree >= d.head \/ pc \in {"reset", "wipe"},
         pc = "reset" => /\ d.head <= got
                         /\ got = upstream[Pin(w)] \/ (gw[w].pc = "reset" /\ got = gw[w].got)
  PROVE  OrderInv'
<1> DEFINE q == Pin(w)
<1>f. /\ q \in Pins /\ disk'[q] = d /\ \A p \in Pins \ {q} : disk'[p] = disk[p]
      /\ gw'[w].pc = pc /\ gw'[w].got = got
      /\ \A v \in GitWorkers \ {w} : gw'[v] = gw[v]
      /\ \A v \in GitWorkers : Pin(v)' = Pin(v)
  BY MovesFrame
<1>u. heap' = heap /\ upstream' = upstream /\ rd' = rd /\ gw[w].pc \in InDirPCs
  BY DEF Moves
<1>t. /\ upstream \in [Pins -> 0..MaxCommit] /\ heap \in Heaps /\ gw \in [GitWorkers -> GitCalls]
      /\ upstream[q] \in 0..MaxCommit /\ MaxCommit \in Nat
  BY <1>f, Types, Constants, RegistryAssumption DEF Locks
<1> HIDE DEF q
<1>1. \A p \in Pins : /\ disk'[p].head <= upstream'[p]
                      /\ AtLeast(p, disk[p].head)' \/ Writing(p)'
  BY <1>f, <1>u, MovesWriting DEF OrderInv, AtLeast, q
<1>2. ASSUME NEW e \in EntryIds
      PROVE  heap'[e].sha <= upstream'[heap'[e].pin] /\ AtLeast(heap[e].pin, heap[e].sha)'
  BY <1>f, <1>u, <1>t DEF OrderInv, AtLeast, Heaps, q
<1>3. ASSUME NEW v \in GitWorkers, gw'[v].pc = "record"
      PROVE  gw'[v].got <= upstream'[Pin(v)'] /\ AtLeast(Pin(v), gw[v].got)'
  <2>1. v # w /\ gw[v].pc = "record" /\ gw'[v] = gw[v] /\ Pin(v) \in Pins
    <3>1. v # w /\ gw[v].pc = "record" /\ gw'[v] = gw[v]
      BY <1>3, <1>f DEF InDirPCs
    <3>2. Pin(v) \in Pins
      BY <3>1, Types DEF Locks, CallInv, Pin, Heaps
    <3> QED
      BY <3>1, <3>2
  <2> QED
    BY <2>1, <1>f, <1>u, <1>t DEF OrderInv, AtLeast, q
<1>4. ASSUME NEW v \in GitWorkers, gw'[v].pc = "reset"
      PROVE  /\ gw'[v].got <= upstream'[Pin(v)'] /\ disk'[Pin(v)'].head <= gw'[v].got
             /\ \A e \in EntryIds : heap'[e].pin = Pin(v)' => heap'[e].sha <= gw'[v].got
             /\ \A x \in GitWorkers :
                  gw'[x].pc = "record" /\ Pin(x)' = Pin(v)' => gw'[x].got <= gw'[v].got
  <2>1. CASE v = w
    <3>1. CASE got = upstream[q]
      BY <1>3, <1>4, <2>1, <3>1, <1>f, <1>u, <1>t DEF OrderInv, q
    <3>2. CASE gw[w].pc = "reset" /\ got = gw[w].got
      <4>1. ASSUME NEW x \in GitWorkers, gw'[x].pc = "record", Pin(x)' = Pin(w)'
            PROVE  gw[x].pc = "record" /\ Pin(x) = q /\ gw'[x].got = gw[x].got
        BY <4>1, <1>f DEF InDirPCs, q
      <4> QED
        BY <4>1, <1>4, <2>1, <3>2, <1>f, <1>u, <1>t DEF OrderInv, q
    <3> QED
      BY <1>4, <2>1, <3>1, <3>2, <1>f DEF q
  <2>2. CASE v # w
    <3>1. gw'[v] = gw[v] /\ gw[v].pc = "reset"
      BY <1>4, <2>2, <1>f
    <3>2. Pin(v) # q /\ Pin(v) \in Pins
      BY <3>1, <2>2, <1>u, AloneInDir, Place DEF InDirPCs, q
    <3>3. ASSUME NEW x \in GitWorkers, gw'[x].pc = "record", Pin(x)' = Pin(v)'
          PROVE  gw[x].pc = "record" /\ Pin(x) = Pin(v) /\ gw'[x].got = gw[x].got
      BY <3>3, <1>f DEF InDirPCs
    <3> QED
      BY <3>1, <3>2, <3>3, <1>f, <1>u DEF OrderInv
  <2> QED
    BY <2>1, <2>2
<1>5. \A r \in Readers :
        rd'[r].pc = "return" => rd'[r].content = Torn \/ rd'[r].content >= heap'[rd'[r].entry].sha
  BY <1>u DEF OrderInv
<1> QED
  BY <1>1, <1>2, <1>3, <1>4, <1>5 DEF OrderInv

LEMMA SoleKey ==
  ASSUME NEW p, Sole(p), NEW j \in Repos, NEW k \in Repos, p \in PinsOf[j], p \in PinsOf[k]
  PROVE  j = k
BY DEF Sole

\* A directory of one GitRepository has at most one worker.
LEMMA SoleWorker ==
  ASSUME Locks, NEW v \in GitWorkers, gw[v].pc \notin {"idle", "register"}, Sole(Pin(v)),
         NEW w \in GitWorkers, gw[w].pc \notin {"idle", "register"}, Pin(w) = Pin(v)
  PROVE  v = w
<1>1. gw[v].key \in Repos /\ gw[w].key \in Repos
      /\ Pin(v) \in PinsOf[gw[v].key] /\ Pin(v) \in PinsOf[gw[w].key]
  BY DEF Locks, CallInv
<1>2. gw[v].key = gw[w].key
  BY <1>1, SoleKey
<1> QED
  BY <1>2 DEF Locks, CallInv

LEMMA MovesLeak ==
  ASSUME Locks, NoLeakedClone, NEW w \in GitWorkers, NEW pc \in InDirPCs, NEW got \in 0..MaxCommit,
         NEW cloning \in BOOLEAN, NEW d \in Disks, Moves(w, pc, got, cloning, d)
  PROVE  NoLeakedClone'
<1>1. SUFFICES ASSUME NEW p \in Pins, disk'[p] # Absent
      PROVE  \/ \E k \in Repos : entries'[k] # None /\ heap'[entries'[k]].pin = p
             \/ \E v \in GitWorkers : gw'[v].pc = "remove" /\ Pin(v)' = p
  BY DEF NoLeakedClone
<1>u. heap' = heap /\ entries' = entries /\ gw[w].pc \in InDirPCs
  BY DEF Moves
<1>2. CASE p = Pin(w)
  BY <1>2, <1>u, Place, RegistryAssumption DEF Pin
<1>3. CASE p # Pin(w)
  <2>1. disk[p] # Absent /\ gw[w].pc # "remove"
    BY <1>1, <1>3, <1>u, MovesFrame DEF InDirPCs
  <2> QED
    BY <2>1, <1>u, MovesFrame DEF NoLeakedClone
<1> QED
  BY <1>2, <1>3

LEMMA MovesSnapshot ==
  ASSUME Locks, SnapshotInv, NEW w \in GitWorkers, NEW pc \in InDirPCs, NEW got \in 0..MaxCommit,
         NEW cloning \in BOOLEAN, NEW d \in Disks, Moves(w, pc, got, cloning, d),
         Sole(Pin(w)) =>
           /\ pc \in {"reset", "wipe"} \/ d.tree = d.head
           /\ ~d.git => d = Absent
           /\ pc \in {"update", "cloneFetch", "reset", "resolve"} => d.git
           /\ pc = "reset" => d.head = got
           /\ pc = "failed" => d.tree = 0
  PROVE  SnapshotInv'
<1> DEFINE q == Pin(w)
<1>f. /\ q \in Pins /\ disk'[q] = d /\ \A p \in Pins \ {q} : disk'[p] = disk[p]
      /\ gw'[w].pc = pc /\ gw'[w].got = got /\ gw'[w].entry = gw[w].entry
      /\ \A v \in GitWorkers \ {w} : gw'[v] = gw[v]
      /\ \A v \in GitWorkers : Pin(v)' = Pin(v)
  BY MovesFrame
<1>u. heap' = heap /\ entries' = entries /\ rd' = rd /\ gw[w].pc \in InDirPCs
  BY DEF Moves
<1>p. gw[w].key \in Repos /\ gw[w].entry \in EntryIds /\ q = heap[gw[w].entry].pin
      /\ entries[gw[w].key] = gw[w].entry /\ q \in PinsOf[gw[w].key]
  BY <1>u, Place DEF Pin
<1> HIDE DEF q
<1>1. ASSUME NEW p \in Pins, Sole(p)
      PROVE  /\ Writing(p)' \/ disk'[p].tree = disk'[p].head
             /\ ~disk'[p].git => disk'[p] = Absent
  BY <1>1, <1>f, MovesWriting DEF SnapshotInv, q
<1>2. ASSUME NEW v \in GitWorkers, gw'[v].pc \in Working, Sole(Pin(v)')
      PROVE  /\ gw'[v].pc \in {"update", "cloneFetch", "reset", "resolve"} => disk'[Pin(v)'].git
             /\ gw'[v].pc = "reset" => disk'[Pin(v)'].head = gw'[v].got
             /\ gw'[v].pc = "record" => disk'[Pin(v)'].tree = gw'[v].got
  <2>1. CASE v = w
    BY <1>2, <2>1, <1>f DEF InDirPCs, q
  <2>2. CASE v # w
    <3>1. gw[v] = gw'[v] /\ gw[v].pc \in Working /\ Sole(Pin(v))
      BY <1>2, <2>2, <1>f
    <3>2. Pin(v) # q /\ Pin(v) \in Pins
      <4>1. gw[v].pc \notin {"idle", "register"} /\ gw[w].pc \notin {"idle", "register"}
        BY <3>1, <1>u DEF Working, InDirPCs
      <4>2. Pin(v) \in Pins
        BY <4>1, Types DEF Locks, CallInv, Pin, Heaps
      <4> QED
        BY <4>1, <4>2, <3>1, <2>2, SoleWorker DEF q
    <3> QED
      BY <3>1, <3>2, <1>f DEF SnapshotInv
  <2> QED
    BY <2>1, <2>2
<1>3. ASSUME NEW k \in Repos, entries'[k] # None, Sole(heap'[entries'[k]].pin)
      PROVE  Dirty(entries[k])' \/ disk'[heap'[entries'[k]].pin].tree \in {0, heap'[entries'[k]].sha}
  <2> DEFINE e == entries[k]
  <2>1. e \in EntryIds /\ heap[e].pin \in Pins /\ heap[e].pin \in PinsOf[k]
    BY <1>3, <1>u, Types DEF Locks, Heaps, CallInv
  <2>2. CASE k = gw[w].key
    <3>1. e = gw[w].entry /\ heap[e].pin = q
      BY <2>2, <1>p
    <3>2. CASE pc = "failed"
      BY <3>1, <3>2, <1>3, <1>f, <1>u DEF q
    <3>3. CASE pc # "failed"
      BY <3>1, <3>3, <1>f, <1>u DEF Dirty
    <3> QED
      BY <3>2, <3>3
  <2>3. CASE k # gw[w].key
    <3>1. heap[e].pin # q
      BY <2>1, <2>3, <1>3, <1>u, <1>p, SoleKey
    <3>2. Dirty(e) => Dirty(e)'
      BY <3>1, <1>f, <1>p, <1>u DEF Dirty
    <3> QED
      BY <3>1, <3>2, <2>1, <1>3, <1>f, <1>u DEF SnapshotInv
  <2> QED
    BY <2>2, <2>3
<1>4. ASSUME NEW r \in Readers, rd'[r].pc = "return", Sole(heap'[rd'[r].entry].pin),
             entries'[rd'[r].key] = rd'[r].entry
      PROVE  rd'[r].content = heap'[rd'[r].entry].sha
  BY <1>4, <1>u DEF SnapshotInv
<1> QED
  BY <1>1, <1>2, <1>3, <1>4, <1>u DEF SnapshotInv, Sole

\* What a step of a git operation owes to the invariant.
Owed(w, pc, got, d) ==
  restarts = 0 =>
    /\ \/ d.tree \in {0, Torn, disk[Pin(w)].tree}
       \/ gw[w].pc = "reset" /\ d.tree = gw[w].got
    /\ d.head <= upstream[Pin(w)]
    /\ d.tree \in {0, Torn} \/ d.tree >= d.head \/ pc \in {"reset", "wipe"}
    /\ pc = "reset" => /\ d.head <= got
                       /\ got = upstream[Pin(w)] \/ (gw[w].pc = "reset" /\ got = gw[w].got)
    /\ Sole(Pin(w)) =>
         /\ pc \in {"reset", "wipe"} \/ d.tree = d.head
         /\ ~d.git => d = Absent
         /\ pc \in {"update", "cloneFetch", "reset", "resolve"} => d.git
         /\ pc = "reset" => d.head = got
         /\ pc = "failed" => d.tree = 0

LEMMA MovesInv ==
  ASSUME IInv, NEW w \in GitWorkers, NEW pc \in InDirPCs, NEW got \in 0..MaxCommit,
         NEW cloning \in BOOLEAN, NEW d \in Disks, Moves(w, pc, got, cloning, d),
         Owed(w, pc, got, d)
  PROVE  IInv'
<1>1. Locks'
  BY MovesLocks DEF IInv
<1>2. ASSUME restarts = 0 PROVE Unkilled'
  <2>1. OrderInv' /\ SnapshotInv' /\ NoLeakedClone'
    BY <1>2, MovesOrder, MovesSnapshot, MovesLeak DEF IInv, Unkilled, Owed
  <2>2. CommitNotAheadOfContent' /\ ExclusiveReadIsSnapshot'
    BY <1>2, DoneStays DEF IInv, Unkilled, Moves
  <2> QED
    BY <2>1, <2>2 DEF Unkilled
<1> QED
  BY <1>1, <1>2 DEF IInv, Moves

\* What is known of a worker and its directory between two steps.
Typed(w) ==
  /\ gw \in [GitWorkers -> GitCalls] /\ gw[w].got \in 0..MaxCommit /\ gw[w].cloning \in BOOLEAN
  /\ disk \in [Pins -> Disks] /\ Pin(w) \in Pins /\ disk[Pin(w)] \in Disks
  /\ disk[Pin(w)] = [git |-> disk[Pin(w)].git, head |-> disk[Pin(w)].head, tree |-> disk[Pin(w)].tree]
  /\ disk[Pin(w)].git \in BOOLEAN /\ disk[Pin(w)].head \in 0..MaxCommit
  /\ disk[Pin(w)].tree \in (0..MaxCommit) \cup {Torn}
  /\ upstream[Pin(w)] \in 0..MaxCommit /\ MaxCommit \in Nat /\ Torn \notin 0..MaxCommit

Known(w) ==
  restarts = 0 =>
    /\ disk[Pin(w)].head <= upstream[Pin(w)]
    /\ gw[w].pc \notin {"reset", "wipe"} =>
         AtLeast(Pin(w), disk[Pin(w)].head) /\ (Sole(Pin(w)) => disk[Pin(w)].tree = disk[Pin(w)].head)
    /\ gw[w].pc = "reset" => gw[w].got <= upstream[Pin(w)] /\ disk[Pin(w)].head <= gw[w].got
    /\ Sole(Pin(w)) =>
         /\ ~disk[Pin(w)].git => disk[Pin(w)] = Absent
         /\ gw[w].pc \in {"update", "cloneFetch", "reset", "resolve"} => disk[Pin(w)].git
         /\ gw[w].pc = "reset" => disk[Pin(w)].head = gw[w].got

LEMMA Before ==
  ASSUME IInv, NEW w \in GitWorkers, gw[w].pc \in InDirPCs
  PROVE  Typed(w) /\ Known(w)
<1>1. gw \in [GitWorkers -> GitCalls] /\ disk \in [Pins -> Disks] /\ upstream \in [Pins -> 0..MaxCommit]
  BY Types, Constants DEF IInv, Locks
<1>2. Pin(w) \in Pins /\ gw[w].pc \in Working
  BY Place DEF IInv, Working
<1>3. gw[w] \in GitCalls /\ disk[Pin(w)] \in Disks /\ upstream[Pin(w)] \in 0..MaxCommit
  BY <1>1, <1>2
<1>4. Typed(w)
  BY <1>1, <1>2, <1>3, RegistryAssumption DEF GitCalls, Disks, Typed
<1>5. gw[w].pc \notin {"reset", "wipe"} => ~Writing(Pin(w))
  BY AloneInDir DEF IInv, Writing, InDirPCs
<1>6. Known(w)
  BY <1>2, <1>5 DEF IInv, Unkilled, OrderInv, SnapshotInv, Known
<1> QED
  BY <1>4, <1>6

\* A step that leaves the directory alone.
LEMMA Still ==
  ASSUME IInv, NEW w \in GitWorkers, gw[w].pc \in InDirPCs, NEW pc,
         Goto(w, pc), UNCHANGED <<spec, upstream, entries, heap, rw, repoMu, disk, rd, reported, restarts>>
  PROVE  Moves(w, pc, gw[w].got, gw[w].cloning, disk[Pin(w)])
<1>1. gw[w] \in GitCalls /\ disk \in [Pins -> Disks] /\ Pin(w) \in Pins
  BY Before DEF Typed
<1>2. [gw[w] EXCEPT !.pc = pc] =
        [pc |-> pc, key |-> gw[w].key, cfg |-> gw[w].cfg, entry |-> gw[w].entry,
         got |-> gw[w].got, cloning |-> gw[w].cloning]
  BY <1>1 DEF GitCalls
<1>3. disk = [disk EXCEPT ![Pin(w)] = disk[Pin(w)]]
  BY <1>1
<1> QED
  BY <1>2, <1>3 DEF Goto, Moves

\* Nested updates, written out.
LEMMA TwiceUpdated ==
  ASSUME NEW f, NEW w, NEW a, NEW b
  PROVE  [[f EXCEPT ![w] = a] EXCEPT ![w] = b] = [f EXCEPT ![w] = b]
OBVIOUS

LEMMA CallUpdate ==
  ASSUME gw \in [GitWorkers -> GitCalls], NEW w \in GitWorkers
  PROVE  \A pc, got :
           [gw EXCEPT ![w].pc = pc, ![w].got = got] =
             [gw EXCEPT ![w] = [pc |-> pc, key |-> gw[w].key, cfg |-> gw[w].cfg,
                                entry |-> gw[w].entry, got |-> got, cloning |-> gw[w].cloning]]
<1> SUFFICES ASSUME NEW pc, NEW got
    PROVE  [gw EXCEPT ![w].pc = pc, ![w].got = got] =
             [gw EXCEPT ![w] = [pc |-> pc, key |-> gw[w].key, cfg |-> gw[w].cfg,
                                entry |-> gw[w].entry, got |-> got, cloning |-> gw[w].cloning]]
  OBVIOUS
<1> DEFINE R(c, g) == [pc |-> pc, key |-> c.key, cfg |-> c.cfg, entry |-> c.entry,
                       got |-> g, cloning |-> c.cloning]
           f1 == [gw EXCEPT ![w] = R(gw[w], gw[w].got)]
           f2 == [gw EXCEPT ![w] = R(gw[w], got)]
<1>1. [gw EXCEPT ![w].pc = pc] = f1
  <2>1. [gw[w] EXCEPT !.pc = pc] = R(gw[w], gw[w].got)
    BY gw[w] \in GitCalls DEF GitCalls
  <2> QED
    BY <2>1
<1>2. [f1 EXCEPT ![w].got = got] = f2
  <2>1. \A c : [R(c, c.got) EXCEPT !.got = got] = R(c, got)
    OBVIOUS
  <2>2. f1[w] = R(gw[w], gw[w].got)
    OBVIOUS
  <2> HIDE DEF R
  <2>3. [f1[w] EXCEPT !.got = got] = R(gw[w], got)
    BY <2>1, <2>2
  <2> QED
    BY <2>3, TwiceUpdated
<1> HIDE DEF f1, f2
<1>3. [gw EXCEPT ![w].pc = pc, ![w].got = got] = f2
  BY <1>1, <1>2
<1> QED
  BY <1>3 DEF f2

LEMMA CallUpdateCloning ==
  ASSUME gw \in [GitWorkers -> GitCalls], NEW w \in GitWorkers
  PROVE  \A got, cloning :
           [gw EXCEPT ![w].pc = "reset", ![w].got = got, ![w].cloning = cloning] =
             [gw EXCEPT ![w] = [pc |-> "reset", key |-> gw[w].key, cfg |-> gw[w].cfg,
                                entry |-> gw[w].entry, got |-> got, cloning |-> cloning]]
<1> SUFFICES ASSUME NEW got, NEW cloning
    PROVE  [gw EXCEPT ![w].pc = "reset", ![w].got = got, ![w].cloning = cloning] =
             [gw EXCEPT ![w] = [pc |-> "reset", key |-> gw[w].key, cfg |-> gw[w].cfg,
                                entry |-> gw[w].entry, got |-> got, cloning |-> cloning]]
  OBVIOUS
<1> DEFINE R(c, b) == [pc |-> "reset", key |-> c.key, cfg |-> c.cfg, entry |-> c.entry,
                       got |-> got, cloning |-> b]
           f2 == [gw EXCEPT ![w] = R(gw[w], gw[w].cloning)]
           f3 == [gw EXCEPT ![w] = R(gw[w], cloning)]
<1>1. [gw EXCEPT ![w].pc = "reset", ![w].got = got] = f2
  BY CallUpdate, Zenon
<1>2. [f2 EXCEPT ![w].cloning = cloning] = f3
  <2>1. \A c : [R(c, c.cloning) EXCEPT !.cloning = cloning] = R(c, cloning)
    OBVIOUS
  <2>2. f2[w] = R(gw[w], gw[w].cloning)
    OBVIOUS
  <2> HIDE DEF R
  <2>3. [f2[w] EXCEPT !.cloning = cloning] = R(gw[w], cloning)
    BY <2>1, <2>2
  <2> QED
    BY <2>3, TwiceUpdated
<1> HIDE DEF f2, f3
<1>3. [gw EXCEPT ![w].pc = "reset", ![w].got = got, ![w].cloning = cloning] = f3
  BY <1>1, <1>2
<1> QED
  BY <1>3 DEF f3

LEMMA StatInv == ASSUME IInv, NEW w \in GitWorkers, Stat(w) PROVE IInv'
<1> DEFINE pc == IF disk[Pin(w)].git THEN "update" ELSE "clone"
           d == disk[Pin(w)]
<1>1. gw[w].pc = "stat" /\ gw[w].pc \in InDirPCs /\ pc \in InDirPCs
  BY DEF Stat, InDirPCs
<1>2. Typed(w) /\ Known(w)
  BY <1>1, Before
<1>3. Moves(w, pc, gw[w].got, gw[w].cloning, d)
  BY <1>1, Still DEF Stat
<1>4. Owed(w, pc, gw[w].got, d)
  BY <1>1, <1>2 DEF Typed, Known, Owed, AtLeast
<1> QED
  BY <1>1, <1>2, <1>3, <1>4, MovesInv DEF Typed

LEMMA UpdateInv == ASSUME IInv, NEW w \in GitWorkers, Update(w) PROVE IInv'
<1> DEFINE p == Pin(w)
           pc == IF UpToDate(p) THEN "resolve" ELSE "reset"
           d == [git |-> disk[p].git, head |-> upstream[p], tree |-> disk[p].tree]
<1>1. gw[w].pc = "update" /\ gw[w].pc \in InDirPCs /\ pc \in InDirPCs /\ disk[p].git
  BY DEF Update, InDirPCs
<1>2. Typed(w) /\ Known(w)
  BY <1>1, Before
<1>3. Moves(w, pc, upstream[p], gw[w].cloning, d)
  <2>1. [disk[p] EXCEPT !.head = upstream[p]] = d
    BY <1>2 DEF Typed
  <2>2. gw' = [gw EXCEPT ![w] = [pc |-> pc, key |-> gw[w].key, cfg |-> gw[w].cfg,
                                 entry |-> gw[w].entry, got |-> upstream[p], cloning |-> gw[w].cloning]]
    <3>1. gw \in [GitWorkers -> GitCalls]
      BY <1>2 DEF Typed
    <3>2. [gw EXCEPT ![w].pc = pc, ![w].got = upstream[p]] =
            [gw EXCEPT ![w] = [pc |-> pc, key |-> gw[w].key, cfg |-> gw[w].cfg,
                               entry |-> gw[w].entry, got |-> upstream[p],
                               cloning |-> gw[w].cloning]]
      BY <3>1, CallUpdate, Zenon
    <3> QED
      BY <3>2, Zenon DEF Update
  <2> QED
    BY <1>1, <2>1, <2>2 DEF Update, Moves
<1>4. d \in Disks
  BY <1>2 DEF Disks, Typed
<1>5. UpToDate(p) => d = disk[p]
  BY <1>2 DEF UpToDate, Typed
<1>6. Owed(w, pc, upstream[p], d)
  BY <1>1, <1>2, <1>5 DEF Typed, Known, Owed, AtLeast
<1> QED
  BY <1>1, <1>2, <1>3, <1>4, <1>6, MovesInv DEF Typed

LEMMA UpdateFailsInv == ASSUME IInv, NEW w \in GitWorkers, UpdateFails(w) PROVE IInv'
<1> DEFINE d == disk[Pin(w)]
<1>1. gw[w].pc = "update" /\ gw[w].pc \in InDirPCs /\ "wipe" \in InDirPCs
  BY DEF UpdateFails, InDirPCs
<1>2. Typed(w) /\ Known(w)
  BY <1>1, Before
<1>3. Moves(w, "wipe", gw[w].got, gw[w].cloning, d)
  BY <1>1, Still DEF UpdateFails
<1>4. Owed(w, "wipe", gw[w].got, d)
  BY <1>1, <1>2 DEF Typed, Known, Owed
<1> QED
  BY <1>1, <1>2, <1>3, <1>4, MovesInv DEF Typed

\* A step that removes the directory.
LEMMA Removes ==
  ASSUME IInv, NEW w \in GitWorkers, gw[w].pc \in InDirPCs, NEW pc \in {"clone", "failed"},
         disk' = [disk EXCEPT ![Pin(w)] = Absent], Goto(w, pc),
         UNCHANGED <<spec, upstream, entries, heap, rw, repoMu, rd, reported, restarts>>
  PROVE  IInv'
<1>1. Typed(w) /\ Known(w) /\ pc \in InDirPCs /\ Absent \in Disks
  BY Before, Constants DEF InDirPCs
<1>2. [gw[w] EXCEPT !.pc = pc] =
        [pc |-> pc, key |-> gw[w].key, cfg |-> gw[w].cfg, entry |-> gw[w].entry,
         got |-> gw[w].got, cloning |-> gw[w].cloning]
  BY <1>1 DEF GitCalls, Typed
<1>3. Moves(w, pc, gw[w].got, gw[w].cloning, Absent)
  BY <1>2 DEF Moves, Goto
<1>4. Owed(w, pc, gw[w].got, Absent)
  BY <1>1 DEF Typed, Owed, Absent
<1> QED
  BY <1>1, <1>3, <1>4, MovesInv DEF Typed

LEMMA WipeInv == ASSUME IInv, NEW w \in GitWorkers, Wipe(w) PROVE IInv'
<1>1. gw[w].pc \in InDirPCs
  BY DEF Wipe, InDirPCs
<1> QED
  BY <1>1, Removes DEF Wipe

LEMMA CloneFailsInv == ASSUME IInv, NEW w \in GitWorkers, CloneFails(w) PROVE IInv'
<1>1. gw[w].pc \in InDirPCs
  BY DEF CloneFails, InDirPCs
<1> QED
  BY <1>1, Removes DEF CloneFails

LEMMA CloneInitInv == ASSUME IInv, NEW w \in GitWorkers, CloneInit(w) PROVE IInv'
<1> DEFINE p == Pin(w)
           d == [git |-> TRUE, head |-> disk[p].head, tree |-> disk[p].tree]
<1>1. gw[w].pc = "clone" /\ gw[w].pc \in InDirPCs /\ "cloneFetch" \in InDirPCs
  BY DEF CloneInit, InDirPCs
<1>2. Typed(w) /\ Known(w)
  BY <1>1, Before
<1>3. [gw[w] EXCEPT !.pc = "cloneFetch"] =
        [pc |-> "cloneFetch", key |-> gw[w].key, cfg |-> gw[w].cfg, entry |-> gw[w].entry,
         got |-> gw[w].got, cloning |-> gw[w].cloning]
  BY <1>2 DEF GitCalls, Typed
<1>4. disk' = [disk EXCEPT ![p] = d] /\ d \in Disks
  <2>1. [disk[p] EXCEPT !.git = TRUE] = d
    <3>1. \A b : [disk[p] EXCEPT !.git = b] = [git |-> b, head |-> disk[p].head, tree |-> disk[p].tree]
      BY <1>2 DEF Typed
    <3> QED
      BY <3>1, Zenon
  <2>2. d \in Disks
    BY <1>2 DEF Typed, Disks
  <2> QED
    BY <2>1, <2>2 DEF CloneInit
<1>5. Moves(w, "cloneFetch", gw[w].got, gw[w].cloning, d)
  BY <1>1, <1>3, <1>4 DEF CloneInit, Moves, Goto
<1>6. Owed(w, "cloneFetch", gw[w].got, d)
  BY <1>1, <1>2 DEF Typed, Known, Owed, AtLeast
<1> QED
  BY <1>1, <1>2, <1>4, <1>5, <1>6, MovesInv DEF Typed

LEMMA CloneFetchInv == ASSUME IInv, NEW w \in GitWorkers, CloneFetch(w) PROVE IInv'
<1> DEFINE p == Pin(w)
           d == [git |-> disk[p].git, head |-> upstream[p], tree |-> disk[p].tree]
<1>1. gw[w].pc = "cloneFetch" /\ gw[w].pc \in InDirPCs /\ "reset" \in InDirPCs /\ disk[p].git
  BY DEF CloneFetch, InDirPCs
<1>2. Typed(w) /\ Known(w)
  BY <1>1, Before
<1>3. Moves(w, "reset", upstream[p], TRUE, d) /\ d \in Disks
  <2>1. [disk[p] EXCEPT !.head = upstream[p]] = d /\ d \in Disks
    BY <1>2 DEF Typed, Disks
  <2>2. gw' = [gw EXCEPT ![w] = [pc |-> "reset", key |-> gw[w].key, cfg |-> gw[w].cfg,
                                 entry |-> gw[w].entry, got |-> upstream[p], cloning |-> TRUE]]
    <3>1. gw \in [GitWorkers -> GitCalls]
      BY <1>2 DEF Typed
    <3>2. \A got, c : [gw EXCEPT ![w].pc = "reset", ![w].got = got, ![w].cloning = c] =
                       [gw EXCEPT ![w] = [pc |-> "reset", key |-> gw[w].key, cfg |-> gw[w].cfg,
                                          entry |-> gw[w].entry, got |-> got, cloning |-> c]]
      BY <3>1, CallUpdateCloning, Zenon
    <3> QED
      BY <3>2, Zenon DEF CloneFetch
  <2> QED
    BY <1>1, <2>1, <2>2 DEF CloneFetch, Moves
<1>4. Owed(w, "reset", upstream[p], d)
  BY <1>1, <1>2 DEF Typed, Owed
<1> QED
  BY <1>1, <1>2, <1>3, <1>4, MovesInv DEF Typed

LEMMA ResetStartInv == ASSUME IInv, NEW w \in GitWorkers, ResetStart(w) PROVE IInv'
<1> DEFINE p == Pin(w)
           d == [git |-> disk[p].git, head |-> disk[p].head, tree |-> Torn]
<1>1. gw[w].pc = "reset" /\ gw[w].pc \in InDirPCs /\ "reset" \in InDirPCs
  BY DEF ResetStart, InDirPCs
<1>2. Typed(w) /\ Known(w)
  BY <1>1, Before
<1>3. gw' = [gw EXCEPT ![w] =
                [pc |-> "reset", key |-> gw[w].key, cfg |-> gw[w].cfg, entry |-> gw[w].entry,
                 got |-> gw[w].got, cloning |-> gw[w].cloning]]
  <2>1. gw[w] = [pc |-> "reset", key |-> gw[w].key, cfg |-> gw[w].cfg, entry |-> gw[w].entry,
                 got |-> gw[w].got, cloning |-> gw[w].cloning]
    BY <1>1, <1>2 DEF GitCalls, Typed
  <2> QED
    BY <1>2, <2>1 DEF ResetStart, Typed
<1>4. disk' = [disk EXCEPT ![p] = d] /\ d \in Disks
  <2>1. [disk[p] EXCEPT !.tree = Torn] = d /\ d \in Disks
    BY <1>2 DEF Typed, Disks
  <2> QED
    BY <2>1 DEF ResetStart
<1>5. Moves(w, "reset", gw[w].got, gw[w].cloning, d)
  BY <1>1, <1>3, <1>4 DEF ResetStart, Moves
<1>6. Owed(w, "reset", gw[w].got, d)
  BY <1>1, <1>2 DEF Typed, Known, Owed
<1> QED
  BY <1>1, <1>2, <1>4, <1>5, <1>6, MovesInv DEF Typed

LEMMA ResetEndInv == ASSUME IInv, NEW w \in GitWorkers, ResetEnd(w) PROVE IInv'
<1> DEFINE p == Pin(w)
           d == [git |-> disk[p].git, head |-> disk[p].head, tree |-> gw[w].got]
<1>1. gw[w].pc = "reset" /\ gw[w].pc \in InDirPCs /\ "resolve" \in InDirPCs
  BY DEF ResetEnd, InDirPCs
<1>2. Typed(w) /\ Known(w)
  BY <1>1, Before
<1>3. [gw[w] EXCEPT !.pc = "resolve"] =
        [pc |-> "resolve", key |-> gw[w].key, cfg |-> gw[w].cfg, entry |-> gw[w].entry,
         got |-> gw[w].got, cloning |-> gw[w].cloning]
  BY <1>2 DEF GitCalls, Typed
<1>4. disk' = [disk EXCEPT ![p] = d] /\ d \in Disks
  <2>1. [disk[p] EXCEPT !.tree = gw[w].got] = d /\ d \in Disks
    BY <1>2 DEF Typed, Disks
  <2> QED
    BY <2>1 DEF ResetEnd
<1>5. Moves(w, "resolve", gw[w].got, gw[w].cloning, d)
  BY <1>1, <1>3, <1>4 DEF ResetEnd, Moves, Goto
<1>6. Owed(w, "resolve", gw[w].got, d)
  BY <1>1, <1>2 DEF Typed, Known, Owed
<1> QED
  BY <1>1, <1>2, <1>4, <1>5, <1>6, MovesInv DEF Typed

LEMMA ResetFailsInv == ASSUME IInv, NEW w \in GitWorkers, ResetFails(w) PROVE IInv'
<1> DEFINE d == disk[Pin(w)]
<1>1. gw[w].pc = "reset" /\ gw[w].pc \in InDirPCs /\ "wipe" \in InDirPCs
  BY DEF ResetFails, InDirPCs
<1>2. CASE gw[w].cloning
  BY <1>1, <1>2, Removes DEF ResetFails
<1>3. CASE ~gw[w].cloning
  <2>1. Typed(w) /\ Known(w)
    BY <1>1, Before
  <2>2. Moves(w, "wipe", gw[w].got, gw[w].cloning, d)
    BY <1>1, <1>3, Still DEF ResetFails
  <2>3. Owed(w, "wipe", gw[w].got, d)
    BY <1>1, <2>1 DEF Typed, Known, Owed
  <2> QED
    BY <1>1, <2>1, <2>2, <2>3, MovesInv DEF Typed
<1> QED
  BY <1>2, <1>3

LEMMA ResolveFailsInv == ASSUME IInv, NEW w \in GitWorkers, ResolveFails(w) PROVE IInv'
<1> DEFINE pc == IF gw[w].cloning THEN "failed" ELSE "wipe"
           d == disk[Pin(w)]
<1>1. gw[w].pc = "resolve" /\ gw[w].pc \in InDirPCs /\ pc \in InDirPCs /\ ~d.git
  BY DEF ResolveFails, InDirPCs
<1>2. Typed(w) /\ Known(w)
  BY <1>1, Before
<1>3. Moves(w, pc, gw[w].got, gw[w].cloning, d)
  BY <1>1, Still DEF ResolveFails
<1>4. Owed(w, pc, gw[w].got, d)
  BY <1>1, <1>2 DEF Typed, Known, Owed, AtLeast
<1> QED
  BY <1>1, <1>2, <1>3, <1>4, MovesInv DEF Typed

-----------------------------------------------------------------------------
(* Steps of a reader, and of the environment.                              *)

\* What a step of one reader owes to the invariant.
ReaderOwed(r) ==
  /\ rd'[r].pc # "idle" =>
       /\ rd'[r].key \in Repos /\ rd'[r].entry \in EntryIds
       /\ heap[rd'[r].entry].pin \in PinsOf[rd'[r].key]
  /\ rd'[r].pc \in {"readFile", "return"} => r \in rw'[rd'[r].entry].readers
  /\ rd'[r].pc = "return" /\ restarts = 0 =>
       /\ rd'[r].content = Torn \/ rd'[r].content >= heap[rd'[r].entry].sha
       /\ Sole(heap[rd'[r].entry].pin) /\ entries[rd'[r].key] = rd'[r].entry
            => rd'[r].content = heap[rd'[r].entry].sha
  /\ rd'[r].pc = "done" /\ restarts = 0 =>
       /\ rd'[r].content = Torn \/ rd'[r].content >= rd'[r].sha
       /\ Exclusive(rd'[r].key, heap[rd'[r].entry].pin) /\ entries[rd'[r].key] = rd'[r].entry
            => rd'[r].content = rd'[r].sha

LEMMA ReaderInv ==
  ASSUME IInv, TypeOK', NEW r \in Readers, ReaderOwed(r),
         UNCHANGED <<spec, upstream, entries, heap, repoMu, disk, gw, reported, restarts>>,
         \A q \in Readers \ {r} :
           rd'[q] = rd[q] /\ \A e \in EntryIds : q \in rw[e].readers => q \in rw'[e].readers,
         \A e \in EntryIds :
           /\ rw'[e].writer = rw[e].writer
           /\ rw[e].writer # None => rw'[e].readers \subseteq rw[e].readers
  PROVE  IInv'
<1>1. CallInv'
  <2>1. \A q \in Readers : rd'[q].pc # "idle" =>
          rd'[q].key \in Repos /\ rd'[q].entry \in EntryIds /\ heap[rd'[q].entry].pin \in PinsOf[rd'[q].key]
    BY DEF IInv, Locks, CallInv, ReaderOwed
  <2> QED
    BY <2>1 DEF IInv, Locks, CallInv, Pin
<1>2. LockInv'
  <2>1. \A q \in Readers : rd'[q].pc \in {"readFile", "return"} => q \in rw'[rd'[q].entry].readers
    BY DEF IInv, Locks, CallInv, LockInv, ReaderOwed
  <2>2. \A w \in GitWorkers : /\ gw'[w].pc \in Holding => rw'[gw'[w].entry].writer = w
                              /\ InDir(w)' => repoMu'[Pin(w)'] = w
    <3>1. \A w \in GitWorkers : gw[w].pc \in Holding => gw[w].entry \in EntryIds
      BY DEF IInv, Locks, CallInv, Holding, InDirPCs
    <3> QED
      BY <3>1 DEF IInv, Locks, LockInv, InDir, Pin
  <2> QED
    BY <2>1, <2>2 DEF IInv, Locks, LockInv
<1>3. ASSUME restarts = 0 PROVE Unkilled'
  <2>1. OrderInv'
    BY <1>3 DEF IInv, Unkilled, OrderInv, ReaderOwed, AtLeast, Writing, Pin
  <2>2. SnapshotInv'
    BY <1>3 DEF IInv, Unkilled, SnapshotInv, ReaderOwed, Sole, Writing, Dirty, Pin
  <2>3. NoLeakedClone'
    BY <1>3 DEF IInv, Unkilled, NoLeakedClone, Pin
  <2>4. CommitNotAheadOfContent' /\ ExclusiveReadIsSnapshot'
    BY <1>3 DEF IInv, Unkilled, CommitNotAheadOfContent, ExclusiveReadIsSnapshot, IsSnapshot,
                ReaderOwed, Exclusive
  <2> QED
    BY <2>1, <2>2, <2>3, <2>4 DEF Unkilled
<1> QED
  BY <1>1, <1>2, <1>3 DEF IInv, Locks

LEMMA ReadLookupInv ==
  ASSUME IInv, NEW r \in Readers, NEW k \in Repos, ReadLookup(r, k) PROVE IInv'
<1> DEFINE c == [pc |-> "rlock", key |-> k, entry |-> entries[k], content |-> 0, sha |-> 0]
<1>1. rd' = [rd EXCEPT ![r] = c]
  <2> DEFINE R(a, b) == [pc |-> "rlock", key |-> a, entry |-> b, content |-> 0, sha |-> 0]
  <2>1. ASSUME NEW a, NEW b PROVE [ReadIdle EXCEPT !.pc = "rlock", !.key = a, !.entry = b] = R(a, b)
    <3>1. [ReadIdle EXCEPT !.pc = "rlock"] = R(None, None)
      BY DEF ReadIdle
    <3>2. [R(None, None) EXCEPT !.key = a] = R(a, None)
      OBVIOUS
    <3>3. [R(a, None) EXCEPT !.entry = b] = R(a, b)
      OBVIOUS
    <3> HIDE DEF R
    <3> QED
      BY <3>1, <3>2, <3>3
  <2> QED
    BY <2>1, Zenon DEF ReadLookup
<1>2. TypeOK /\ rd \in [Readers -> ReadCalls] /\ entries[k] \in EntryIds
      /\ heap[entries[k]].pin \in PinsOf[k]
  BY Types DEF IInv, Locks, CallInv, ReadLookup
<1>3. c \in ReadCalls
  BY <1>2, RegistryAssumption DEF ReadCalls, ReadPCs
<1>4. TypeOK'
  BY <1>1, <1>2, <1>3, Types, TypesNext DEF ReadLookup
<1>5. ReaderOwed(r)
  BY <1>1, <1>2 DEF ReaderOwed
<1> QED
  BY <1>1, <1>4, <1>5, ReaderInv DEF ReadLookup

LEMMA ReadDoneInv == ASSUME IInv, NEW r \in Readers, ReadDone(r) PROVE IInv'
<1>1. TypeOK'
  BY Constants, Types, TypesNext DEF ReadDone, IInv, Locks
<1>2. rd'[r].pc = "idle" /\ \A q \in Readers \ {r} : rd'[q] = rd[q]
  BY Constants, Types DEF ReadDone, IInv, Locks
<1>3. ReaderOwed(r)
  BY <1>2 DEF ReaderOwed
<1> QED
  BY <1>1, <1>2, <1>3, ReaderInv DEF ReadDone

LEMMA ReadLockInv == ASSUME IInv, NEW r \in Readers, ReadLock(r) PROVE IInv'
<1> DEFINE e == rd[r].entry
           c == [pc |-> "readFile", key |-> rd[r].key, entry |-> e,
                 content |-> rd[r].content, sha |-> rd[r].sha]
           l == [writer |-> rw[e].writer, readers |-> rw[e].readers \cup {r}]
<1>1. rd \in [Readers -> ReadCalls] /\ rd[r] \in ReadCalls /\ e \in EntryIds
      /\ rw \in [EntryIds -> [writer : GitWorkers \cup {None}, readers : SUBSET Readers]]
      /\ rd[r].key \in Repos /\ heap[e].pin \in PinsOf[rd[r].key] /\ rw[e].writer = None
  BY Types DEF IInv, Locks, CallInv, ReadLock, ReadLockFree
<1>2. rd' = [rd EXCEPT ![r] = c] /\ rw' = [rw EXCEPT ![e] = l]
  <2>1. [rd[r] EXCEPT !.pc = "readFile"] = c
    BY <1>1 DEF ReadCalls
  <2>2. \A s : [rw[e] EXCEPT !.readers = s] = [writer |-> rw[e].writer, readers |-> s]
    BY <1>1
  <2>3. rw' = [rw EXCEPT ![e] = l]
    BY <2>2, Zenon DEF ReadLock
  <2> QED
    BY <2>1, <2>3 DEF ReadLock
<1>3. c \in ReadCalls /\ l \in [writer : GitWorkers \cup {None}, readers : SUBSET Readers]
  BY <1>1 DEF ReadCalls, ReadPCs
<1>4. /\ rd'[r] = c /\ rw'[e] = l /\ \A x \in EntryIds \ {e} : rw'[x] = rw[x]
      /\ \A q \in Readers \ {r} : rd'[q] = rd[q]
  BY <1>1, <1>2
<1>5. TypeOK'
  <2>1. rd' \in [Readers -> ReadCalls]
    BY <1>1, <1>2, <1>3
  <2>2. rw' \in [EntryIds -> [writer : GitWorkers \cup {None}, readers : SUBSET Readers]]
    BY <1>1, <1>2, <1>3
  <2> HIDE DEF c, e, l
  <2> QED
    BY <2>1, <2>2, Types, TypesNext DEF ReadLock, IInv, Locks
<1>6. ReaderOwed(r)
  BY <1>1, <1>4 DEF ReaderOwed
<1> QED
  BY <1>1, <1>4, <1>5, <1>6, ReaderInv DEF ReadLock

\* The lock of an entry as a reader leaves it.
LEMMA ReaderUnlocks ==
  ASSUME IInv, NEW r \in Readers, NEW e \in EntryIds, rw' = [rw EXCEPT ![e] = ReadUnlocked(e, r)]
  PROVE  /\ rw' \in [EntryIds -> [writer : GitWorkers \cup {None}, readers : SUBSET Readers]]
         /\ \A x \in EntryIds :
              /\ rw'[x].writer = rw[x].writer /\ rw'[x].readers \subseteq rw[x].readers
              /\ \A q \in Readers \ {r} : q \in rw[x].readers => q \in rw'[x].readers
<1> DEFINE l == [writer |-> rw[e].writer, readers |-> rw[e].readers \ {r}]
<1>1. rw \in [EntryIds -> [writer : GitWorkers \cup {None}, readers : SUBSET Readers]]
  BY Types DEF IInv, Locks
<1>2. ReadUnlocked(e, r) = l /\ l \in [writer : GitWorkers \cup {None}, readers : SUBSET Readers]
  <2>1. \A s : [rw[e] EXCEPT !.readers = s] = [writer |-> rw[e].writer, readers |-> s]
    BY <1>1
  <2>2. ReadUnlocked(e, r) = l
    BY <2>1, Zenon DEF ReadUnlocked
  <2> QED
    BY <1>1, <2>2
<1>3. rw'[e] = l /\ \A x \in EntryIds \ {e} : rw'[x] = rw[x]
  BY <1>1, <1>2
<1> QED
  BY <1>1, <1>2, <1>3

\* Under the read lock nobody works on the entry.
LEMMA NotDirty ==
  ASSUME Locks, NEW r \in Readers, rd[r].pc = "readFile"
  PROVE  ~Dirty(rd[r].entry)
<1>1. rd[r].entry \in EntryIds /\ r \in rw[rd[r].entry].readers
  BY DEF Locks, CallInv, LockInv
<1>2. rw[rd[r].entry].writer = None
  BY <1>1 DEF Locks, LockInv
<1>3. None \notin GitWorkers
  BY RegistryAssumption
<1> QED
  BY <1>2, <1>3 DEF Locks, LockInv, Dirty, Holding, InDirPCs

LEMMA ReadFileInv == ASSUME IInv, NEW r \in Readers, ReadFile(r) PROVE IInv'
<1> DEFINE e == rd[r].entry
           file == disk[heap[e].pin].tree
           c == [pc |-> "return", key |-> rd[r].key, entry |-> e,
                 content |-> file, sha |-> rd[r].sha]
<1>1. /\ rd \in [Readers -> ReadCalls] /\ rd[r] \in ReadCalls /\ e \in EntryIds
      /\ rd[r].key \in Repos /\ heap[e].pin \in PinsOf[rd[r].key] /\ r \in rw[e].readers
      /\ heap[e].pin \in Pins /\ file \in (0..MaxCommit) \cup {Torn} /\ rd[r].pc = "readFile"
  <2>1. rd[r] \in ReadCalls /\ e \in EntryIds /\ rd[r].pc = "readFile"
    BY Types DEF IInv, Locks, CallInv, ReadFile
  <2>2. heap[e].pin \in Pins /\ disk \in [Pins -> Disks] /\ rd \in [Readers -> ReadCalls]
    BY <2>1, Types DEF IInv, Locks, Heaps
  <2>3. disk[heap[e].pin] \in Disks
    BY <2>2
  <2> QED
    BY <2>1, <2>2, <2>3 DEF IInv, Locks, CallInv, LockInv, Disks
<1>2. CASE file = 0
  <2>1. rd' = [rd EXCEPT ![r] = ReadIdle] /\ rw' = [rw EXCEPT ![e] = ReadUnlocked(e, r)]
    BY <1>2 DEF ReadFile
  <2>2. TypeOK'
    BY <1>1, <2>1, ReaderUnlocks, Constants, Types, TypesNext DEF ReadFile, IInv, Locks
  <2>3. rd'[r].pc = "idle" /\ \A q \in Readers \ {r} : rd'[q] = rd[q]
    BY <1>1, <2>1, Constants
  <2>4. ReaderOwed(r)
    BY <2>3 DEF ReaderOwed
  <2> QED
    BY <1>1, <2>1, <2>2, <2>3, <2>4, ReaderUnlocks, ReaderInv DEF ReadFile
<1>3. CASE file # 0
  <2>1. rd' = [rd EXCEPT ![r] = c] /\ rw' = rw
    <3>1. \A b : [[rd EXCEPT ![r].pc = "return"] EXCEPT ![r].content = b] =
                   [rd EXCEPT ![r] = [pc |-> "return", key |-> rd[r].key, entry |-> e,
                                      content |-> b, sha |-> rd[r].sha]]
      <4> DEFINE R(x, b) == [pc |-> "return", key |-> x.key, entry |-> x.entry, content |-> b, sha |-> x.sha]
                 f == [rd EXCEPT ![r] = R(rd[r], rd[r].content)]
      <4>1. [rd EXCEPT ![r].pc = "return"] = f
        <5>1. [rd[r] EXCEPT !.pc = "return"] = R(rd[r], rd[r].content)
          BY <1>1 DEF ReadCalls
        <5> QED
          BY <5>1
      <4>2. f[r] = R(rd[r], rd[r].content)
        BY <1>1
      <4>3. ASSUME NEW b PROVE [f EXCEPT ![r].content = b] = [rd EXCEPT ![r] = R(rd[r], b)]
        <5>1. \A x : [R(x, x.content) EXCEPT !.content = b] = R(x, b)
          OBVIOUS
        <5> HIDE DEF R
        <5>2. [f[r] EXCEPT !.content = b] = R(rd[r], b)
          BY <4>2, <5>1
        <5> QED
          BY <5>2, TwiceUpdated
      <4> HIDE DEF f
      <4> QED
        BY <4>1, <4>3
    <3> QED
      BY <1>3, <3>1, Zenon DEF ReadFile
  <2>2. c \in ReadCalls
    BY <1>1 DEF ReadCalls, ReadPCs
  <2>3. TypeOK'
    BY <1>1, <2>1, <2>2, Types, TypesNext DEF ReadFile, IInv, Locks
  <2>4. rd'[r] = c /\ \A q \in Readers \ {r} : rd'[q] = rd[q]
    BY <1>1, <2>1
  <2>5. restarts = 0 => /\ file = Torn \/ file >= heap[e].sha
                        /\ Sole(heap[e].pin) /\ entries[rd[r].key] = e => file = heap[e].sha
    <3>1. ~Dirty(e) /\ e # None
      BY <1>1, NotDirty, RegistryAssumption DEF IInv
    <3>2. ASSUME restarts = 0 PROVE file = Torn \/ file >= heap[e].sha
      BY <1>1, <1>3, <3>2 DEF IInv, Unkilled, OrderInv, AtLeast
    <3>3. ASSUME restarts = 0, Sole(heap[e].pin), entries[rd[r].key] = e
          PROVE  file = heap[e].sha
      BY <1>1, <1>3, <3>1, <3>3 DEF IInv, Unkilled, SnapshotInv
    <3> QED
      BY <3>2, <3>3
  <2>6. ReaderOwed(r)
    BY <1>1, <2>1, <2>4, <2>5 DEF ReaderOwed
  <2> QED
    BY <2>1, <2>3, <2>4, <2>6, ReaderInv DEF ReadFile
<1> QED
  BY <1>2, <1>3

LEMMA ReadReturnInv == ASSUME IInv, NEW r \in Readers, ReadReturn(r) PROVE IInv'
<1> DEFINE e == rd[r].entry
           c == [pc |-> "done", key |-> rd[r].key, entry |-> e,
                 content |-> rd[r].content, sha |-> heap[e].sha]
<1>1. /\ rd \in [Readers -> ReadCalls] /\ rd[r] \in ReadCalls /\ e \in EntryIds
      /\ rd[r].key \in Repos /\ heap[e].pin \in PinsOf[rd[r].key] /\ heap[e].sha \in 0..MaxCommit
      /\ rd[r].pc = "return"
  <2>1. rd[r] \in ReadCalls /\ e \in EntryIds /\ rd[r].pc = "return"
    BY Types DEF IInv, Locks, CallInv, ReadReturn
  <2>2. heap[e].sha \in 0..MaxCommit /\ rd \in [Readers -> ReadCalls]
    BY <2>1, Types DEF IInv, Locks, Heaps
  <2> QED
    BY <2>1, <2>2 DEF IInv, Locks, CallInv
<1>2. rd' = [rd EXCEPT ![r] = c] /\ rw' = [rw EXCEPT ![e] = ReadUnlocked(e, r)]
  <2>1. \A b : [[rd EXCEPT ![r].pc = "done"] EXCEPT ![r].sha = b] =
                 [rd EXCEPT ![r] = [pc |-> "done", key |-> rd[r].key, entry |-> e,
                                    content |-> rd[r].content, sha |-> b]]
    <3> DEFINE R(x, b) == [pc |-> "done", key |-> x.key, entry |-> x.entry, content |-> x.content, sha |-> b]
               f == [rd EXCEPT ![r] = R(rd[r], rd[r].sha)]
    <3>1. [rd EXCEPT ![r].pc = "done"] = f
      <4>1. [rd[r] EXCEPT !.pc = "done"] = R(rd[r], rd[r].sha)
        BY <1>1 DEF ReadCalls
      <4> QED
        BY <4>1
    <3>2. f[r] = R(rd[r], rd[r].sha)
      BY <1>1
    <3>3. ASSUME NEW b PROVE [f EXCEPT ![r].sha = b] = [rd EXCEPT ![r] = R(rd[r], b)]
      <4>1. \A x : [R(x, x.sha) EXCEPT !.sha = b] = R(x, b)
        OBVIOUS
      <4> HIDE DEF R
      <4>2. [f[r] EXCEPT !.sha = b] = R(rd[r], b)
        BY <3>2, <4>1
      <4> QED
        BY <4>2, TwiceUpdated
    <3> HIDE DEF f
    <3> QED
      BY <3>1, <3>3
  <2> QED
    BY <2>1, Zenon DEF ReadReturn
<1>3. c \in ReadCalls
  BY <1>1 DEF ReadCalls, ReadPCs
<1>4. TypeOK'
  <2>1. rd' \in [Readers -> ReadCalls]
    BY <1>1, <1>2, <1>3
  <2>2. rw' \in [EntryIds -> [writer : GitWorkers \cup {None}, readers : SUBSET Readers]]
    BY <1>1, <1>2, ReaderUnlocks
  <2> HIDE DEF c, e
  <2> QED
    BY <2>1, <2>2, Types, TypesNext DEF ReadReturn, IInv, Locks
<1>5. rd'[r] = c /\ \A q \in Readers \ {r} : rd'[q] = rd[q]
  BY <1>1, <1>2
<1>6. Exclusive(rd[r].key, heap[e].pin) => Sole(heap[e].pin)
  BY <1>1 DEF Exclusive, Sole
<1>7. ReaderOwed(r)
  BY <1>1, <1>5, <1>6 DEF ReaderOwed, IInv, Unkilled, OrderInv, SnapshotInv
<1> QED
  BY <1>1, <1>2, <1>4, <1>5, <1>7, ReaderUnlocks, ReaderInv DEF ReadReturn

\* Nothing that Unkilled speaks of changes, except that upstream may grow.
LEMMA EnvironmentInv ==
  ASSUME IInv, TypeOK', \A k \in Repos : spec'[k].pin \in PinsOf[k],
         \A p \in Pins : upstream'[p] >= upstream[p],
         UNCHANGED <<entries, heap, rw, repoMu, disk, gw, rd, restarts>>
  PROVE  IInv'
<1>t. /\ upstream \in [Pins -> 0..MaxCommit] /\ upstream' \in [Pins -> 0..MaxCommit]
      /\ heap \in Heaps /\ disk \in [Pins -> Disks] /\ gw \in [GitWorkers -> GitCalls]
      /\ MaxCommit \in Nat
  BY Types, TypesNext, Constants, RegistryAssumption DEF IInv, Locks
<1>p. \A w \in GitWorkers : Pin(w)' = Pin(w)
  BY DEF Pin
<1>1. CallInv'
  BY <1>p DEF IInv, Locks, CallInv
<1>2. LockInv'
  BY <1>p DEF IInv, Locks, LockInv, InDir
<1>3. ASSUME restarts = 0 PROVE Unkilled'
  <2>1. OrderInv'
    <3>1. ASSUME NEW p \in Pins
          PROVE  disk'[p].head <= upstream'[p] /\ (AtLeast(p, disk[p].head)' \/ Writing(p)')
      BY <1>3, <1>t DEF IInv, Unkilled, OrderInv, AtLeast, Writing, Pin, Disks
    <3>2. ASSUME NEW e \in EntryIds
          PROVE  heap'[e].sha <= upstream'[heap'[e].pin] /\ AtLeast(heap[e].pin, heap[e].sha)'
      BY <1>3, <1>t DEF IInv, Unkilled, OrderInv, AtLeast, Heaps
    <3>3. ASSUME NEW w \in GitWorkers, gw[w].pc \in {"record", "reset"}
          PROVE  gw[w].got <= upstream'[Pin(w)]
      <4>1. gw[w] \in GitCalls /\ Pin(w) \in Pins
        BY <1>t, <3>3 DEF IInv, Locks, CallInv, Pin, Heaps
      <4>2. gw[w].got <= upstream[Pin(w)]
        BY <1>3, <3>3 DEF IInv, Unkilled, OrderInv
      <4>3. upstream[Pin(w)] <= upstream'[Pin(w)]
        BY <1>t, <4>1
      <4> QED
        BY <4>1, <4>2, <4>3, <1>t DEF GitCalls
    <3> QED
      BY <1>3, <1>p, <3>1, <3>2, <3>3 DEF IInv, Unkilled, OrderInv, AtLeast
  <2>2. SnapshotInv'
    BY <1>3, <1>p DEF IInv, Unkilled, SnapshotInv, Sole, Writing, Dirty
  <2>3. NoLeakedClone'
    BY <1>3, <1>p DEF IInv, Unkilled, NoLeakedClone
  <2>4. CommitNotAheadOfContent' /\ ExclusiveReadIsSnapshot'
    BY <1>3, DoneStays DEF IInv, Unkilled
  <2> QED
    BY <2>1, <2>2, <2>3, <2>4 DEF Unkilled
<1> QED
  BY <1>1, <1>2, <1>3 DEF IInv, Locks

LEMMA PushInv == ASSUME IInv, NEW p \in Pins, Push(p) PROVE IInv'
<1>1. /\ upstream \in [Pins -> Commits] /\ upstream[p] \in Commits /\ upstream[p] < MaxCommit
      /\ upstream' = [upstream EXCEPT ![p] = upstream[p] + 1] /\ MaxCommit \in Nat
  BY Types, RegistryAssumption DEF IInv, Locks, Push
<1>2. upstream' \in [Pins -> Commits] /\ \A q \in Pins : upstream'[q] >= upstream[q]
  BY <1>1 DEF Commits
<1>3. TypeOK'
  BY <1>2, Types, TypesNext DEF Push, IInv, Locks
<1> QED
  BY <1>2, <1>3, EnvironmentInv DEF Push, IInv, Locks, CallInv

LEMMA EditPinInv ==
  ASSUME IInv, NEW k \in Repos, NEW p \in Pins, EditPin(k, p) PROVE IInv'
<1> DEFINE s == [pin |-> p, cred |-> spec[k].cred]
<1>1. spec \in [Repos -> Configs] /\ upstream \in [Pins -> Commits] /\ s \in Configs
  BY Types DEF IInv, Locks, Configs
<1>2. spec' = [spec EXCEPT ![k] = s]
  <2>1. spec[k] \in Configs
    BY <1>1
  <2>2. \A a : [spec[k] EXCEPT !.pin = a] = [pin |-> a, cred |-> spec[k].cred]
    BY <2>1 DEF Configs
  <2> QED
    BY <2>2, Zenon DEF EditPin
<1>3. TypeOK'
  BY <1>1, <1>2, Types, TypesNext DEF EditPin, IInv, Locks
<1>4. \A j \in Repos : spec'[j].pin \in PinsOf[j]
  BY <1>1, <1>2 DEF EditPin, IInv, Locks, CallInv
<1>5. \A q \in Pins : upstream'[q] >= upstream[q]
  BY <1>1 DEF EditPin, Commits
<1> QED
  BY <1>3, <1>4, <1>5, EnvironmentInv DEF EditPin

LEMMA EditAuthInv ==
  ASSUME IInv, NEW k \in Repos, NEW c \in Creds, EditAuth(k, c) PROVE IInv'
<1> DEFINE s == [pin |-> spec[k].pin, cred |-> c]
<1>1. spec \in [Repos -> Configs] /\ upstream \in [Pins -> Commits] /\ s \in Configs
  BY Types DEF IInv, Locks, Configs
<1>2. spec' = [spec EXCEPT ![k] = s]
  <2>1. spec[k] \in Configs
    BY <1>1
  <2>2. \A a : [spec[k] EXCEPT !.cred = a] = [pin |-> spec[k].pin, cred |-> a]
    BY <2>1 DEF Configs
  <2> QED
    BY <2>2, Zenon DEF EditAuth
<1>3. TypeOK'
  BY <1>1, <1>2, Types, TypesNext DEF EditAuth, IInv, Locks
<1>4. \A j \in Repos : spec'[j].pin \in PinsOf[j]
  BY <1>1, <1>2 DEF IInv, Locks, CallInv
<1>5. \A q \in Pins : upstream'[q] >= upstream[q]
  BY <1>1 DEF EditAuth, Commits
<1> QED
  BY <1>3, <1>4, <1>5, EnvironmentInv DEF EditAuth

LEMMA StutterInv == ASSUME IInv, UNCHANGED vars PROVE IInv'
<1>1. upstream \in [Pins -> Commits]
  BY Types DEF IInv, Locks
<1>2. TypeOK' /\ \A q \in Pins : upstream'[q] >= upstream[q]
  BY <1>1, Types, TypesNext DEF vars, IInv, Locks, Commits
<1> QED
  BY <1>2, EnvironmentInv DEF vars, IInv, Locks, CallInv

\* A killed process starts with empty tables and nobody at work.
LEMMA RestartInv == ASSUME IInv, Restart PROVE IInv'
<1>1. restarts \in 0..MaxRestarts /\ MaxRestarts \in Nat
  BY Types, RegistryAssumption DEF IInv, Locks
<1>2. restarts' # 0 /\ restarts' \in 0..MaxRestarts
  BY <1>1 DEF Restart
<1>3. TypeOK'
  BY <1>2, Constants, Types, TypesNext DEF Restart, IInv, Locks
<1>4. CallInv' /\ LockInv'
  <2>1. /\ \A w \in GitWorkers : gw'[w] = GitIdle /\ gw'[w].pc = "idle"
        /\ \A r \in Readers : rd'[r].pc = "idle"
        /\ \A k \in Repos : entries'[k] = None /\ spec'[k] = spec[k]
        /\ \A e \in EntryIds : rw'[e].writer = None
    BY Constants DEF Restart, Unlocked
  <2>2. CallInv'
    BY <2>1 DEF IInv, Locks, CallInv, Working, InDirPCs
  <2>3. LockInv'
    BY <2>1 DEF LockInv, Holding, InDirPCs, InDir
  <2> QED
    BY <2>2, <2>3
<1> QED
  BY <1>2, <1>3, <1>4 DEF IInv, Locks

-----------------------------------------------------------------------------
(* Steps of a git worker outside the git operation.                        *)

\* An entry is at work from the moment its directory is looked at until the commit
\* is recorded.
DirtyPCs == (InDirPCs \ {"failed"}) \cup {"record"}

\* What a step that changes the call of one worker, and at most the locks, owes
\* to Unkilled.
CallOwed(w, g) ==
  /\ gw[w].pc \notin {"reset", "wipe", "remove"}
  /\ g.pc \notin {"update", "wipe", "cloneFetch", "reset", "resolve"}
  /\ gw[w].pc \in DirtyPCs => g.pc \in DirtyPCs /\ g.entry = gw[w].entry
  /\ g.pc = "record" => gw[w].pc = "resolve" /\ g.got = disk[Pin(w)].head

LEMMA CallUnkilled ==
  ASSUME Locks, Unkilled, NEW w \in GitWorkers, NEW g \in GitCalls, gw' = [gw EXCEPT ![w] = g],
         CallOwed(w, g), UNCHANGED <<upstream, entries, heap, disk, rd, restarts>>
  PROVE  Unkilled'
<1>t. gw \in [GitWorkers -> GitCalls] /\ upstream \in [Pins -> 0..MaxCommit]
      /\ disk \in [Pins -> Disks] /\ heap \in Heaps /\ MaxCommit \in Nat
  BY Types, Constants, RegistryAssumption DEF Locks
<1>f. /\ gw'[w] = g /\ \A v \in GitWorkers \ {w} : gw'[v] = gw[v] /\ Pin(v)' = Pin(v)
  BY <1>t DEF Pin
<1>r. ASSUME g.pc = "record"
      PROVE  /\ gw[w].pc = "resolve" /\ g.got = disk[Pin(w)].head /\ Pin(w)' = Pin(w)
             /\ Pin(w) \in Pins /\ ~Writing(Pin(w))
             /\ \A v \in GitWorkers : gw[v].pc = "reset" => Pin(v) # Pin(w)
  <2>1. gw[w].pc = "resolve" /\ g.entry = gw[w].entry /\ g.got = disk[Pin(w)].head
    BY <1>r DEF CallOwed, DirtyPCs, InDirPCs
  <2>2. gw[w].pc \in InDirPCs
    BY <2>1 DEF InDirPCs
  <2>3. \A v \in GitWorkers : gw[v].pc \in {"reset", "wipe"} => Pin(v) # Pin(w)
    BY <2>1, <2>2, AloneInDir DEF InDirPCs
  <2> QED
    BY <2>1, <2>2, <2>3, <1>f, Place DEF Writing, Pin
<1>w. \A p : Writing(p)' <=> Writing(p)
  <2>1. gw'[w].pc \notin {"reset", "wipe"} /\ gw[w].pc \notin {"reset", "wipe"}
    BY <1>f DEF CallOwed
  <2> QED
    BY <2>1, <1>f DEF Writing
<1>1. OrderInv'
  <2>1. \A p \in Pins : disk'[p].head <= upstream'[p] /\ (AtLeast(p, disk[p].head)' \/ Writing(p)')
    BY <1>w DEF Unkilled, OrderInv, AtLeast
  <2>2. ASSUME NEW v \in GitWorkers, gw'[v].pc = "record"
        PROVE  gw'[v].got <= upstream'[Pin(v)'] /\ AtLeast(Pin(v), gw[v].got)'
    <3>1. CASE v = w
      BY <2>2, <3>1, <1>f, <1>r DEF Unkilled, OrderInv, AtLeast
    <3>2. CASE v # w
      BY <2>2, <3>2, <1>f DEF Unkilled, OrderInv, AtLeast
    <3> QED
      BY <3>1, <3>2
  <2>3. ASSUME NEW v \in GitWorkers, gw'[v].pc = "reset"
        PROVE  /\ gw'[v].got <= upstream'[Pin(v)'] /\ disk'[Pin(v)'].head <= gw'[v].got
               /\ \A e \in EntryIds : heap'[e].pin = Pin(v)' => heap'[e].sha <= gw'[v].got
               /\ \A x \in GitWorkers :
                    gw'[x].pc = "record" /\ Pin(x)' = Pin(v)' => gw'[x].got <= gw'[v].got
    <3>1. v # w /\ gw[v].pc = "reset" /\ gw'[v] = gw[v] /\ Pin(v)' = Pin(v)
      BY <2>3, <1>f DEF CallOwed
    <3>2. ASSUME NEW x \in GitWorkers, gw'[x].pc = "record", Pin(x)' = Pin(v)
          PROVE  gw'[x].got <= gw[v].got
      <4>1. CASE x = w
        BY <3>1, <3>2, <4>1, <1>f, <1>r
      <4>2. CASE x # w
        BY <3>1, <3>2, <4>2, <1>f DEF Unkilled, OrderInv
      <4> QED
        BY <4>1, <4>2
    <3> QED
      BY <3>1, <3>2 DEF Unkilled, OrderInv
  <2> QED
    BY <2>1, <2>2, <2>3 DEF Unkilled, OrderInv, AtLeast
<1>2. SnapshotInv'
  <2>1. \A p \in Pins : Sole(p) => /\ Writing(p)' \/ disk'[p].tree = disk'[p].head
                                   /\ ~disk'[p].git => disk'[p] = Absent
    BY <1>w DEF Unkilled, SnapshotInv
  <2>2. ASSUME NEW v \in GitWorkers, gw'[v].pc \in Working, Sole(Pin(v)')
        PROVE  /\ gw'[v].pc \in {"update", "cloneFetch", "reset", "resolve"} => disk'[Pin(v)'].git
               /\ gw'[v].pc = "reset" => disk'[Pin(v)'].head = gw'[v].got
               /\ gw'[v].pc = "record" => disk'[Pin(v)'].tree = gw'[v].got
    <3>1. CASE v = w
      <4>1. gw'[v].pc \notin {"update", "cloneFetch", "reset", "resolve"}
        BY <3>1, <1>f DEF CallOwed
      <4>2. CASE g.pc = "record"
        BY <2>2, <3>1, <4>1, <4>2, <1>f, <1>r DEF Unkilled, SnapshotInv
      <4> QED
        BY <3>1, <4>1, <4>2, <1>f
    <3>2. CASE v # w
      BY <2>2, <3>2, <1>f DEF Unkilled, SnapshotInv
    <3> QED
      BY <3>1, <3>2
  <2>3. \A e : Dirty(e) => Dirty(e)'
    BY <1>f DEF Dirty, CallOwed, DirtyPCs
  <2> QED
    BY <2>1, <2>2, <2>3 DEF Unkilled, SnapshotInv, Sole
<1>3. NoLeakedClone'
  <2>1. gw[w].pc # "remove"
    BY DEF CallOwed
  <2> QED
    BY <2>1, <1>f DEF Unkilled, NoLeakedClone
<1>4. CommitNotAheadOfContent' /\ ExclusiveReadIsSnapshot'
  BY DoneStays DEF Unkilled
<1> QED
  BY <1>1, <1>2, <1>3, <1>4 DEF Unkilled

\* What it owes to Locks.
LockOwed(w, g) ==
  /\ g.pc = "idle" => g = GitIdle
  /\ g.pc # "idle" => g.key \in Repos /\ (~Serving(g.key) \/ g.key = gw[w].key)
  /\ g.pc = "register" => g.cfg \in Configs /\ g.cfg.pin \in PinsOf[g.key]
  /\ g.pc \notin {"idle", "register"} => g.entry \in EntryIds /\ heap[g.entry].pin \in PinsOf[g.key]
  /\ g.pc \in Working => entries[g.key] = g.entry
  /\ g.pc # "remove"
  /\ g.pc \in Holding => rw'[g.entry].writer = w
  /\ g.pc \in InDirPCs => repoMu'[heap[g.entry].pin] = w
  /\ \A e \in EntryIds :
       /\ rw'[e].readers = rw[e].readers
       /\ rw'[e].writer = rw[e].writer
            \/ (rw[e].writer \in {None, w} /\ (rw'[e].writer = None \/ rw[e].readers = {}))
  /\ \A p \in Pins : repoMu'[p] = repoMu[p] \/ repoMu[p] \in {None, w}

LEMMA CallLocks ==
  ASSUME Locks, TypeOK', NEW w \in GitWorkers, NEW g \in GitCalls, gw' = [gw EXCEPT ![w] = g],
         LockOwed(w, g), UNCHANGED <<spec, entries, rd>>,
         \A e \in EntryIds : heap'[e].pin = heap[e].pin
  PROVE  Locks'
<1>f. gw'[w] = g /\ \A v \in GitWorkers \ {w} : gw'[v] = gw[v]
  BY Types DEF Locks
<1>p. ASSUME NEW v \in GitWorkers, v # w, gw[v].pc \notin {"idle", "register"}
      PROVE  gw[v].entry \in EntryIds /\ Pin(v)' = Pin(v) /\ Pin(v) \in Pins
  <2>1. gw[v].entry \in EntryIds /\ heap \in Heaps
    BY <1>p, Types DEF Locks, CallInv
  <2> QED
    BY <2>1, <1>f, <1>p DEF Pin, Heaps
<1>1. CallInv'
  <2>1. ASSUME NEW v \in GitWorkers
        PROVE  /\ gw'[v].pc = "idle" => gw'[v] = GitIdle
               /\ gw'[v].pc # "idle" => gw'[v].key \in Repos
               /\ gw'[v].pc = "register" => gw'[v].cfg \in Configs /\ gw'[v].cfg.pin \in PinsOf[gw'[v].key]
               /\ gw'[v].pc \notin {"idle", "register"} =>
                    gw'[v].entry \in EntryIds /\ Pin(v)' \in PinsOf[gw'[v].key]
               /\ gw'[v].pc \in Working => entries'[gw'[v].key] = gw'[v].entry
               /\ gw'[v].pc = "remove" => entries'[gw'[v].key] = None
    <3>1. CASE v = w
      BY <3>1, <1>f DEF LockOwed, Pin
    <3>2. CASE v # w
      BY <3>2, <1>f, <1>p DEF Locks, CallInv
    <3> QED
      BY <3>1, <3>2
  <2>2. ASSUME NEW u \in GitWorkers, NEW v \in GitWorkers, u # v, gw'[u].pc # "idle"
        PROVE  gw'[u].key # gw'[v].key
    <3>1. ASSUME NEW x \in GitWorkers, x # w, gw[x].pc # "idle" PROVE g.key # gw[x].key
      <4>1. CASE g.pc = "idle"
        BY <3>1, <4>1, Constants, RegistryAssumption DEF LockOwed, Locks, CallInv
      <4>2. CASE g.pc # "idle"
        BY <3>1, <4>2 DEF LockOwed, Locks, CallInv, Serving
      <4> QED
        BY <4>1, <4>2
    <3>2. CASE u = w
      <4>1. CASE gw[v].pc = "idle"
        BY <2>2, <3>2, <4>1, <1>f, Constants, RegistryAssumption DEF LockOwed, Locks, CallInv
      <4>2. CASE gw[v].pc # "idle"
        BY <2>2, <3>1, <3>2, <4>2, <1>f
      <4> QED
        BY <4>1, <4>2
    <3>3. CASE v = w
      BY <2>2, <3>1, <3>3, <1>f
    <3>4. CASE u # w /\ v # w
      BY <2>2, <3>4, <1>f DEF Locks, CallInv
    <3> QED
      BY <3>2, <3>3, <3>4
  <2>3. \A r \in Readers : rd'[r].pc # "idle" =>
          rd'[r].key \in Repos /\ rd'[r].entry \in EntryIds /\ heap'[rd'[r].entry].pin \in PinsOf[rd'[r].key]
    BY DEF Locks, CallInv
  <2>4. \A k \in Repos : entries'[k] # None => heap'[entries'[k]].pin \in PinsOf[k]
    BY Types DEF Locks, CallInv
  <2> QED
    BY <2>1, <2>2, <2>3, <2>4 DEF Locks, CallInv
<1>2. LockInv'
  <2>1. ASSUME NEW v \in GitWorkers
        PROVE  /\ gw'[v].pc \in Holding => rw'[gw'[v].entry].writer = v
               /\ InDir(v)' => repoMu'[Pin(v)'] = v
    <3>1. CASE v = w
      BY <3>1, <1>f DEF LockOwed, InDir, InDirPCs, Pin
    <3>2. CASE v # w
      <4>1. ASSUME gw[v].pc \in Holding PROVE rw'[gw[v].entry].writer = v
        <5>1. gw[v].entry \in EntryIds /\ rw[gw[v].entry].writer = v /\ v # None
          BY <3>2, <4>1, <1>p, RegistryAssumption DEF Holding, InDirPCs, Locks, LockInv
        <5> QED
          BY <3>2, <5>1 DEF LockOwed
      <4>2. ASSUME InDir(v) PROVE repoMu'[Pin(v)'] = v
        <5>1. Pin(v) \in Pins /\ Pin(v)' = Pin(v) /\ repoMu[Pin(v)] = v /\ v # None
          BY <3>2, <4>2, <1>p, RegistryAssumption DEF InDir, Locks, LockInv
        <5> QED
          BY <3>2, <5>1 DEF LockOwed
      <4> QED
        BY <3>2, <4>1, <4>2, <1>f DEF InDir
    <3> QED
      BY <3>1, <3>2
  <2>2. \A r \in Readers : rd'[r].pc \in {"readFile", "return"} => r \in rw'[rd'[r].entry].readers
    BY DEF Locks, LockInv, CallInv, LockOwed
  <2>3. \A e \in EntryIds : rw'[e].writer # None => rw'[e].readers = {}
    BY DEF Locks, LockInv, LockOwed
  <2> QED
    BY <2>1, <2>2, <2>3 DEF LockInv
<1> QED
  BY <1>1, <1>2 DEF Locks

\* The two together.
LEMMA CallStep ==
  ASSUME IInv, TypeOK', NEW w \in GitWorkers, NEW g \in GitCalls, gw' = [gw EXCEPT ![w] = g],
         LockOwed(w, g), CallOwed(w, g),
         UNCHANGED <<spec, upstream, entries, heap, disk, rd, restarts>>
  PROVE  IInv'
BY CallLocks, CallUnkilled DEF IInv

\* Updates of a call, written out.
LEMMA IdleBegins ==
  ASSUME NEW a, NEW x
  PROVE  /\ [GitIdle EXCEPT !.pc = "register", !.key = a, !.cfg = x] =
              [pc |-> "register", key |-> a, cfg |-> x, entry |-> None, got |-> 0, cloning |-> FALSE]
         /\ [GitIdle EXCEPT !.pc = "remove", !.key = a, !.entry = x] =
              [pc |-> "remove", key |-> a, cfg |-> None, entry |-> x, got |-> 0, cloning |-> FALSE]
<1>1. GitIdle = [pc |-> "idle", key |-> None, cfg |-> None, entry |-> None, got |-> 0,
                 cloning |-> FALSE]
  BY Zenon DEF GitIdle
<1>2. ASSUME NEW y, y = [GitIdle EXCEPT !.pc = "register", !.key = a, !.cfg = x]
      PROVE  y = [pc |-> "register", key |-> a, cfg |-> x, entry |-> None, got |-> 0,
                  cloning |-> FALSE]
  BY <1>1, <1>2, Zenon
<1>3. ASSUME NEW y, y = [GitIdle EXCEPT !.pc = "remove", !.key = a, !.entry = x]
      PROVE  y = [pc |-> "remove", key |-> a, cfg |-> None, entry |-> x, got |-> 0,
                  cloning |-> FALSE]
  BY <1>1, <1>3, Zenon
<1> QED
  BY <1>2, <1>3, Zenon

LEMMA CallRegisters ==
  ASSUME gw \in [GitWorkers -> GitCalls], NEW w \in GitWorkers, NEW e
  PROVE  [gw EXCEPT ![w].pc = "lockEntry", ![w].entry = e, ![w].cfg = None] =
           [gw EXCEPT ![w] = [pc |-> "lockEntry", key |-> gw[w].key, cfg |-> None,
                              entry |-> e, got |-> gw[w].got, cloning |-> gw[w].cloning]]
<1> DEFINE R(c, x) == [pc |-> "lockEntry", key |-> gw[w].key, cfg |-> c,
                       entry |-> x, got |-> gw[w].got, cloning |-> gw[w].cloning]
           F(c, x) == [gw EXCEPT ![w] = R(c, x)]
<1>1. [gw EXCEPT ![w].pc = "lockEntry"] = F(gw[w].cfg, gw[w].entry)
  <2>1. [gw[w] EXCEPT !.pc = "lockEntry"] = R(gw[w].cfg, gw[w].entry)
    BY gw[w] \in GitCalls DEF GitCalls
  <2> QED
    BY <2>1
<1>2. \A c, x : F(c, x)[w] = R(c, x)
  OBVIOUS
<1>3. \A c, x : [R(c, x) EXCEPT !.entry = e] = R(c, e)
  OBVIOUS
<1>4. \A c, x : [R(c, x) EXCEPT !.cfg = None] = R(None, x)
  OBVIOUS
<1>5. ASSUME NEW c, NEW x PROVE [F(c, x) EXCEPT ![w].entry = e] = F(c, e)
  <2> HIDE DEF R
  <2>1. [F(c, x)[w] EXCEPT !.entry = e] = R(c, e)
    BY <1>2, <1>3
  <2> QED
    BY <2>1, TwiceUpdated
<1>6. ASSUME NEW c, NEW x PROVE [F(c, x) EXCEPT ![w].cfg = None] = F(None, x)
  <2> HIDE DEF R
  <2>1. [F(c, x)[w] EXCEPT !.cfg = None] = R(None, x)
    BY <1>2, <1>4
  <2> QED
    BY <2>1, TwiceUpdated
<1> DEFINE f1 == F(gw[w].cfg, gw[w].entry)
           f2 == F(gw[w].cfg, e)
           f3 == F(None, e)
<1>7. /\ [gw EXCEPT ![w].pc = "lockEntry"] = f1
      /\ [f1 EXCEPT ![w].entry = e] = f2 /\ [f2 EXCEPT ![w].cfg = None] = f3
  <2> HIDE DEF F
  <2> QED
    BY <1>1, <1>5, <1>6, Zenon
<1> HIDE DEF f1, f2, f3
<1>8. [gw EXCEPT ![w].pc = "lockEntry", ![w].entry = e, ![w].cfg = None] = f3
  BY <1>7
<1> QED
  BY <1>8 DEF f3

LEMMA BeginEnsureInv ==
  ASSUME IInv, NEW w \in GitWorkers, NEW k \in Repos, BeginEnsure(w, k) PROVE IInv'
<1> DEFINE g == [pc |-> "register", key |-> k, cfg |-> spec[k], entry |-> None,
                 got |-> 0, cloning |-> FALSE]
<1>1. gw \in [GitWorkers -> GitCalls] /\ spec[k] \in Configs /\ spec[k].pin \in PinsOf[k]
  BY Types DEF IInv, Locks, CallInv
<1>2. gw' = [gw EXCEPT ![w] = g]
  <2>1. \A a, c : [GitIdle EXCEPT !.pc = "register", !.key = a, !.cfg = c] =
                   [pc |-> "register", key |-> a, cfg |-> c, entry |-> None,
                    got |-> 0, cloning |-> FALSE]
    BY IdleBegins, Zenon
  <2> QED
    BY <2>1, Zenon DEF BeginEnsure
<1>3. g \in GitCalls
  BY <1>1, RegistryAssumption DEF GitCalls, GitPCs
<1>4. TypeOK'
  <2>1. gw' \in [GitWorkers -> GitCalls]
    BY <1>1, <1>2, <1>3
  <2> QED
    BY <2>1, Types, TypesNext DEF BeginEnsure, IInv, Locks
<1>5. LockOwed(w, g)
  BY <1>1 DEF BeginEnsure, LockOwed, Working, Holding, InDirPCs
<1>6. CallOwed(w, g)
  BY DEF BeginEnsure, CallOwed, DirtyPCs, InDirPCs
<1> QED
  BY <1>2, <1>3, <1>4, <1>5, <1>6, CallStep DEF BeginEnsure

\* Register, when the entry in the map stays.
LEMMA RegisterKeepsInv ==
  ASSUME IInv, NEW w \in GitWorkers, Register(w), ~NeedsNewEntry(gw[w].key, gw[w].cfg)
  PROVE  IInv'
<1> DEFINE k == gw[w].key
           g == [pc |-> "lockEntry", key |-> k, cfg |-> None, entry |-> entries[k],
                 got |-> gw[w].got, cloning |-> gw[w].cloning]
<1>1. /\ gw \in [GitWorkers -> GitCalls] /\ gw[w] \in GitCalls /\ k \in Repos
      /\ entries[k] \in EntryIds /\ heap[entries[k]].pin \in PinsOf[k] /\ gw[w].pc = "register"
  <2>1. gw \in [GitWorkers -> GitCalls] /\ gw[w].pc = "register" /\ k \in Repos
    BY Types DEF IInv, Locks, CallInv, Register
  <2>2. entries \in [Repos -> EntryIds \cup {None}] /\ entries[k] # None
    BY Types DEF IInv, Locks, NeedsNewEntry
  <2> QED
    BY <2>1, <2>2 DEF IInv, Locks, CallInv
<1>2. gw' = [gw EXCEPT ![w] = g]
  <2>1. gw' = [gw EXCEPT ![w].pc = "lockEntry", ![w].entry = entries[k], ![w].cfg = None]
    BY Zenon DEF Register
  <2> QED
    BY <1>1, <2>1, CallRegisters
<1>3. g \in GitCalls
  BY <1>1 DEF GitCalls, GitPCs
<1>4. TypeOK'
  <2>1. gw' \in [GitWorkers -> GitCalls]
    BY <1>1, <1>2, <1>3
  <2> QED
    BY <2>1, Types, TypesNext DEF Register, IInv, Locks
<1>5. LockOwed(w, g)
  BY <1>1 DEF Register, LockOwed, Holding, InDirPCs
<1>6. CallOwed(w, g)
  BY <1>1 DEF CallOwed, DirtyPCs, InDirPCs
<1> QED
  BY <1>2, <1>3, <1>4, <1>5, <1>6, CallStep DEF Register

\* Goto, written out.
At(w, pc) == [pc |-> pc, key |-> gw[w].key, cfg |-> gw[w].cfg, entry |-> gw[w].entry,
              got |-> gw[w].got, cloning |-> gw[w].cloning]

RWLocks == [EntryIds -> [writer : GitWorkers \cup {None}, readers : SUBSET Readers]]

\* Where a worker stands that has looked up its entry.
LEMMA InCall ==
  ASSUME Locks, NEW w \in GitWorkers, gw[w].pc \in Working
  PROVE  /\ gw \in [GitWorkers -> GitCalls] /\ gw[w] \in GitCalls /\ gw[w].pc \notin {"idle", "register"}
         /\ gw[w].key \in Repos /\ gw[w].entry \in EntryIds /\ entries[gw[w].key] = gw[w].entry
         /\ Pin(w) \in Pins /\ Pin(w) = heap[gw[w].entry].pin /\ Pin(w) \in PinsOf[gw[w].key]
         /\ rw \in RWLocks /\ repoMu \in [Pins -> GitWorkers \cup {None}]
<1>1. gw \in [GitWorkers -> GitCalls] /\ gw[w] \in GitCalls /\ gw[w].pc \notin {"idle", "register"}
      /\ rw \in RWLocks /\ repoMu \in [Pins -> GitWorkers \cup {None}] /\ heap \in Heaps
  BY Types DEF Locks, Working, InDirPCs, RWLocks
<1>2. gw[w].entry \in EntryIds
  BY <1>1 DEF Locks, CallInv
<1> QED
  BY <1>1, <1>2 DEF Locks, CallInv, Pin, Heaps

LEMMA GotoCall ==
  ASSUME gw \in [GitWorkers -> GitCalls], NEW w \in GitWorkers, NEW pc \in GitPCs, Goto(w, pc)
  PROVE  gw' = [gw EXCEPT ![w] = At(w, pc)] /\ At(w, pc) \in GitCalls
         /\ At(w, pc).pc = pc /\ At(w, pc).key = gw[w].key /\ At(w, pc).entry = gw[w].entry
<1>1. gw[w] \in GitCalls
  OBVIOUS
<1>2. [gw[w] EXCEPT !.pc = pc] = At(w, pc)
  BY <1>1 DEF GitCalls, At
<1> QED
  BY <1>1, <1>2 DEF Goto, GitCalls, At

LEMMA LockEntryInv == ASSUME IInv, NEW w \in GitWorkers, LockEntry(w) PROVE IInv'
<1> DEFINE e == gw[w].entry
           g == At(w, "lockDir")
           l == [writer |-> w, readers |-> rw[e].readers]
<1>1. /\ gw \in [GitWorkers -> GitCalls] /\ gw[w].key \in Repos /\ e \in EntryIds
      /\ entries[gw[w].key] = e /\ heap[e].pin \in PinsOf[gw[w].key] /\ rw \in RWLocks
      /\ gw[w].pc = "lockEntry"
  BY InCall DEF LockEntry, IInv, Working
<1>2. gw' = [gw EXCEPT ![w] = g] /\ g \in GitCalls
      /\ g.pc = "lockDir" /\ g.key = gw[w].key /\ g.entry = e
  BY <1>1, GotoCall DEF LockEntry, GitPCs
<1>3. rw' = [rw EXCEPT ![e] = l] /\ l \in [writer : GitWorkers \cup {None}, readers : SUBSET Readers]
  <2>1. \A x : [rw[e] EXCEPT !.writer = x] = [writer |-> x, readers |-> rw[e].readers]
    BY <1>1 DEF RWLocks
  <2> QED
    BY <1>1, <2>1, Zenon DEF LockEntry, RWLocks
<1> HIDE DEF g
<1>4. rw'[e] = l /\ (\A x \in EntryIds \ {e} : rw'[x] = rw[x]) /\ rw' \in RWLocks
  BY <1>1, <1>3 DEF RWLocks
<1>5. TypeOK'
  <2>1. gw' \in [GitWorkers -> GitCalls]
    BY <1>1, <1>2
  <2> QED
    BY <1>4, <2>1, Types, TypesNext DEF LockEntry, IInv, Locks, RWLocks
<1>6. LockOwed(w, g)
  <2>1. rw[e].writer = None /\ rw[e].readers = {}
    BY DEF LockEntry, WriteLockFree
  <2> QED
    BY <1>1, <1>2, <1>4, <2>1 DEF LockEntry, LockOwed, InDirPCs
<1>7. CallOwed(w, g)
  BY <1>1, <1>2 DEF CallOwed, DirtyPCs, InDirPCs
<1> QED
  BY <1>2, <1>5, <1>6, <1>7, CallStep DEF LockEntry

LEMMA LockDirInv == ASSUME IInv, NEW w \in GitWorkers, LockDir(w) PROVE IInv'
<1> DEFINE e == gw[w].entry
           pc == IF heap[e].cred \in Unparsable THEN "failed" ELSE "stat"
           g == At(w, pc)
<1>1. /\ gw \in [GitWorkers -> GitCalls] /\ gw[w].key \in Repos /\ e \in EntryIds
      /\ entries[gw[w].key] = e /\ heap[e].pin \in PinsOf[gw[w].key]
      /\ Pin(w) = heap[e].pin /\ Pin(w) \in Pins /\ repoMu \in [Pins -> GitWorkers \cup {None}]
      /\ gw[w].pc = "lockDir" /\ rw[e].writer = w
  BY InCall DEF LockDir, IInv, Working, Locks, LockInv, Holding
<1>2. gw' = [gw EXCEPT ![w] = g] /\ g \in GitCalls
      /\ g.pc \in {"failed", "stat"} /\ g.key = gw[w].key /\ g.entry = e
  BY <1>1, GotoCall DEF LockDir, GitPCs
<1> HIDE DEF g
<1>3. /\ repoMu[Pin(w)] = None /\ repoMu' \in [Pins -> GitWorkers \cup {None}]
      /\ repoMu'[Pin(w)] = w /\ \A p \in Pins \ {Pin(w)} : repoMu'[p] = repoMu[p]
  BY <1>1 DEF LockDir, DirFree
<1>4. TypeOK'
  <2>1. gw' \in [GitWorkers -> GitCalls]
    BY <1>1, <1>2
  <2> QED
    BY <1>3, <2>1, Types, TypesNext DEF LockDir, IInv, Locks
<1>5. LockOwed(w, g)
  BY <1>1, <1>2, <1>3 DEF LockDir, LockOwed
<1>6. CallOwed(w, g)
  BY <1>1, <1>2 DEF CallOwed, DirtyPCs, InDirPCs
<1> QED
  BY <1>2, <1>4, <1>5, <1>6, CallStep DEF LockDir

LEMMA ResolveInv == ASSUME IInv, NEW w \in GitWorkers, Resolve(w) PROVE IInv'
<1> DEFINE e == gw[w].entry
           h == disk[Pin(w)].head
           g == [pc |-> "record", key |-> gw[w].key, cfg |-> gw[w].cfg, entry |-> e,
                 got |-> h, cloning |-> gw[w].cloning]
<1>1. /\ gw \in [GitWorkers -> GitCalls] /\ gw[w] \in GitCalls /\ gw[w].key \in Repos /\ e \in EntryIds
      /\ entries[gw[w].key] = e /\ heap[e].pin \in PinsOf[gw[w].key]
      /\ Pin(w) = heap[e].pin /\ Pin(w) \in Pins /\ repoMu \in [Pins -> GitWorkers \cup {None}]
      /\ gw[w].pc = "resolve" /\ rw[e].writer = w /\ repoMu[Pin(w)] = w
  BY InCall, Place DEF Resolve, IInv, Working, InDirPCs
<1>2. h \in 0..MaxCommit
  <2>1. gw[w].pc \in InDirPCs
    BY <1>1 DEF InDirPCs
  <2> QED
    BY <2>1, Before DEF Typed
<1>3. gw' = [gw EXCEPT ![w] = g] /\ g \in GitCalls
  <2>1. \A x : [gw EXCEPT ![w].pc = "record", ![w].got = x] =
               [gw EXCEPT ![w] = [pc |-> "record", key |-> gw[w].key, cfg |-> gw[w].cfg,
                                  entry |-> e, got |-> x, cloning |-> gw[w].cloning]]
    BY <1>1, CallUpdate, Zenon
  <2>2. gw' = [gw EXCEPT ![w] = g]
    BY <2>1, Zenon DEF Resolve
  <2> QED
    BY <1>1, <1>2, <2>2 DEF GitCalls, GitPCs
<1>4. /\ repoMu' \in [Pins -> GitWorkers \cup {None}]
      /\ repoMu'[Pin(w)] = None /\ \A p \in Pins \ {Pin(w)} : repoMu'[p] = repoMu[p]
  BY <1>1 DEF Resolve
<1>5. TypeOK'
  <2>1. gw' \in [GitWorkers -> GitCalls]
    BY <1>1, <1>3
  <2> QED
    BY <1>4, <2>1, Types, TypesNext DEF Resolve, IInv, Locks
<1>6. LockOwed(w, g)
  BY <1>1, <1>4 DEF Resolve, LockOwed, InDirPCs
<1>7. CallOwed(w, g)
  BY <1>1 DEF CallOwed, DirtyPCs, InDirPCs
<1> QED
  BY <1>3, <1>5, <1>6, <1>7, CallStep DEF Resolve

\* The lock of an entry as its writer leaves it.
LEMMA WriterUnlocks ==
  ASSUME rw \in RWLocks, NEW e \in EntryIds, rw' = [rw EXCEPT ![e] = WriteUnlocked(e)]
  PROVE  /\ rw' \in RWLocks /\ rw'[e].writer = None /\ \A x \in EntryIds \ {e} : rw'[x] = rw[x]
         /\ \A x \in EntryIds : rw'[x].readers = rw[x].readers
<1> DEFINE l == [writer |-> None, readers |-> rw[e].readers]
<1>1. WriteUnlocked(e) = l /\ l \in [writer : GitWorkers \cup {None}, readers : SUBSET Readers]
  BY DEF WriteUnlocked, RWLocks
<1>2. rw'[e] = l /\ \A x \in EntryIds \ {e} : rw'[x] = rw[x]
  BY <1>1 DEF RWLocks
<1> QED
  BY <1>1, <1>2 DEF RWLocks

LEMMA EnsureFailedInv == ASSUME IInv, NEW w \in GitWorkers, EnsureFailed(w) PROVE IInv'
<1> DEFINE e == gw[w].entry
<1>1. /\ gw \in [GitWorkers -> GitCalls] /\ e \in EntryIds /\ rw \in RWLocks
      /\ Pin(w) \in Pins /\ repoMu \in [Pins -> GitWorkers \cup {None}]
      /\ gw[w].pc = "failed" /\ rw[e].writer = w /\ repoMu[Pin(w)] = w
  BY InCall, Place DEF EnsureFailed, IInv, Working, InDirPCs
<1>2. gw' = [gw EXCEPT ![w] = GitIdle] /\ GitIdle \in GitCalls /\ GitIdle.pc = "idle"
  BY Constants DEF EnsureFailed
<1>3. /\ repoMu' \in [Pins -> GitWorkers \cup {None}]
      /\ repoMu'[Pin(w)] = None /\ \A p \in Pins \ {Pin(w)} : repoMu'[p] = repoMu[p]
  BY <1>1 DEF EnsureFailed
<1>4. /\ rw' \in RWLocks /\ rw'[e].writer = None /\ \A x \in EntryIds \ {e} : rw'[x] = rw[x]
      /\ \A x \in EntryIds : rw'[x].readers = rw[x].readers
  BY <1>1, WriterUnlocks DEF EnsureFailed
<1>5. TypeOK'
  <2>1. gw' \in [GitWorkers -> GitCalls]
    BY <1>1, <1>2
  <2> QED
    BY <1>3, <1>4, <2>1, Types, TypesNext DEF EnsureFailed, IInv, Locks, RWLocks
<1>6. LockOwed(w, GitIdle)
  BY <1>1, <1>2, <1>3, <1>4 DEF LockOwed, Working, Holding, InDirPCs
<1>7. CallOwed(w, GitIdle)
  BY <1>1, <1>2 DEF CallOwed, DirtyPCs, InDirPCs
<1> QED
  BY <1>2, <1>5, <1>6, <1>7, CallStep DEF EnsureFailed

LEMMA RecordSHAInv == ASSUME IInv, NEW w \in GitWorkers, RecordSHA(w) PROVE IInv'
<1> DEFINE e == gw[w].entry
           h == [pin |-> heap[e].pin, cred |-> heap[e].cred, sha |-> gw[w].got]
<1>1. /\ gw \in [GitWorkers -> GitCalls] /\ gw[w].got \in 0..MaxCommit /\ gw[w].key \in Repos
      /\ e \in EntryIds /\ rw \in RWLocks /\ entries[gw[w].key] = e
      /\ Pin(w) \in Pins /\ Pin(w) = heap[e].pin /\ heap \in Heaps
      /\ gw[w].pc = "record" /\ rw[e].writer = w /\ rw[e].readers = {}
  <2>1. gw[w].pc = "record" /\ gw[w].pc \in Working /\ gw[w].pc \in Holding
    BY DEF RecordSHA, Working, Holding
  <2>2. gw[w] \in GitCalls /\ e \in EntryIds /\ rw[e].writer = w /\ w # None /\ heap \in Heaps
    BY <2>1, InCall, Types, RegistryAssumption DEF IInv, Locks, LockInv
  <2> QED
    BY <2>1, <2>2, InCall DEF IInv, Locks, LockInv, GitCalls
<1>2. gw' = [gw EXCEPT ![w] = GitIdle] /\ GitIdle \in GitCalls /\ GitIdle.pc = "idle"
      /\ gw'[w] = GitIdle /\ \A v \in GitWorkers \ {w} : gw'[v] = gw[v]
  BY <1>1, Constants DEF RecordSHA
<1>3. heap' = [heap EXCEPT ![e] = h] /\ h \in [pin : Pins, cred : Creds, sha : 0..MaxCommit]
  <2>1. \A x : [heap[e] EXCEPT !.sha = x] = [pin |-> heap[e].pin, cred |-> heap[e].cred, sha |-> x]
    BY <1>1 DEF Heaps
  <2>2. heap' = [heap EXCEPT ![e] = h]
    BY <2>1, Zenon DEF RecordSHA, Recorded
  <2> QED
    BY <1>1, <2>2 DEF Heaps
<1>4. /\ heap'[e] = h /\ heap' \in Heaps /\ \A x \in EntryIds \ {e} : heap'[x] = heap[x]
      /\ \A x \in EntryIds : heap'[x].pin = heap[x].pin
  BY <1>1, <1>3 DEF Heaps
<1>5. /\ rw' \in RWLocks /\ rw'[e].writer = None /\ \A x \in EntryIds \ {e} : rw'[x] = rw[x]
      /\ \A x \in EntryIds : rw'[x].readers = rw[x].readers
  BY <1>1, WriterUnlocks DEF RecordSHA
<1>6. TypeOK'
  <2>1. gw' \in [GitWorkers -> GitCalls]
    BY <1>1, <1>2
  <2>2. reported' \in [Repos -> BOOLEAN]
    BY <1>1, Types DEF RecordSHA, IInv, Locks
  <2> QED
    BY <1>4, <1>5, <2>1, <2>2, Types, TypesNext DEF RecordSHA, IInv, Locks, RWLocks
<1>7. Locks'
  <2>1. LockOwed(w, GitIdle)
    BY <1>1, <1>2, <1>5 DEF RecordSHA, LockOwed, Working, Holding, InDirPCs
  <2> QED
    BY <1>2, <1>4, <1>6, <2>1, CallLocks DEF RecordSHA, IInv
<1>8. ASSUME restarts = 0 PROVE Unkilled'
  <2>p. ASSUME NEW v \in GitWorkers, v # w, gw[v].pc \notin {"idle", "register"}
        PROVE  gw'[v] = gw[v] /\ Pin(v)' = Pin(v)
    BY <2>p, <1>2, <1>4 DEF IInv, Locks, CallInv, Pin
  <2>w. \A p : Writing(p)' <=> Writing(p)
    BY <1>1, <1>2, <2>p DEF Writing
  <2>r. ASSUME NEW r \in Readers, rd[r].pc \in {"return", "done"}
        PROVE  /\ rd[r].entry \in EntryIds /\ heap'[rd[r].entry].pin = heap[rd[r].entry].pin
               /\ rd[r].pc = "return" => heap'[rd[r].entry] = heap[rd[r].entry]
    <3>1. rd[r].entry \in EntryIds
      BY <2>r DEF IInv, Locks, CallInv
    <3>2. rd[r].pc = "return" => rd[r].entry # e
      BY <1>1 DEF IInv, Locks, LockInv
    <3> QED
      BY <3>1, <3>2, <1>4
  <2>1. OrderInv'
    <3>1. \A p \in Pins : disk'[p].head <= upstream'[p] /\ (AtLeast(p, disk[p].head)' \/ Writing(p)')
      BY <1>8, <2>w DEF RecordSHA, IInv, Unkilled, OrderInv, AtLeast
    <3>2. ASSUME NEW x \in EntryIds
          PROVE  heap'[x].sha <= upstream'[heap'[x].pin] /\ AtLeast(heap[x].pin, heap[x].sha)'
      BY <1>1, <1>4, <1>8 DEF RecordSHA, IInv, Unkilled, OrderInv, AtLeast
    <3>3. ASSUME NEW v \in GitWorkers, gw'[v].pc = "record"
          PROVE  gw'[v].got <= upstream'[Pin(v)'] /\ AtLeast(Pin(v), gw[v].got)'
      BY <1>2, <1>8, <2>p, <3>3 DEF RecordSHA, IInv, Unkilled, OrderInv, AtLeast
    <3>4. ASSUME NEW v \in GitWorkers, gw'[v].pc = "reset"
          PROVE  /\ gw'[v].got <= upstream'[Pin(v)'] /\ disk'[Pin(v)'].head <= gw'[v].got
                 /\ \A x \in EntryIds : heap'[x].pin = Pin(v)' => heap'[x].sha <= gw'[v].got
                 /\ \A u \in GitWorkers :
                      gw'[u].pc = "record" /\ Pin(u)' = Pin(v)' => gw'[u].got <= gw'[v].got
      <4>1. v # w /\ gw[v].pc = "reset" /\ gw'[v] = gw[v] /\ Pin(v)' = Pin(v)
        BY <1>2, <2>p, <3>4
      <4>2. ASSUME NEW x \in EntryIds, heap'[x].pin = Pin(v) PROVE heap'[x].sha <= gw[v].got
        BY <1>1, <1>4, <1>8, <4>1, <4>2 DEF IInv, Unkilled, OrderInv
      <4>3. ASSUME NEW u \in GitWorkers, gw'[u].pc = "record", Pin(u)' = Pin(v)
            PROVE  gw'[u].got <= gw[v].got
        BY <1>2, <1>8, <2>p, <4>1, <4>3 DEF IInv, Unkilled, OrderInv
      <4> QED
        BY <1>8, <4>1, <4>2, <4>3 DEF RecordSHA, IInv, Unkilled, OrderInv
    <3>5. \A r \in Readers :
            rd'[r].pc = "return" => rd'[r].content = Torn \/ rd'[r].content >= heap'[rd'[r].entry].sha
      BY <1>8, <2>r DEF RecordSHA, IInv, Unkilled, OrderInv
    <3> QED
      BY <3>1, <3>2, <3>3, <3>4, <3>5 DEF OrderInv
  <2>2. SnapshotInv'
    <3>1. \A p \in Pins : Sole(p) => /\ Writing(p)' \/ disk'[p].tree = disk'[p].head
                                     /\ ~disk'[p].git => disk'[p] = Absent
      BY <1>8, <2>w DEF RecordSHA, IInv, Unkilled, SnapshotInv
    <3>2. ASSUME NEW v \in GitWorkers, gw'[v].pc \in Working, Sole(Pin(v)')
          PROVE  /\ gw'[v].pc \in {"update", "cloneFetch", "reset", "resolve"} => disk'[Pin(v)'].git
                 /\ gw'[v].pc = "reset" => disk'[Pin(v)'].head = gw'[v].got
                 /\ gw'[v].pc = "record" => disk'[Pin(v)'].tree = gw'[v].got
      <4>1. v # w /\ gw'[v] = gw[v] /\ Pin(v)' = Pin(v)
        BY <1>2, <2>p, <3>2 DEF Working, InDirPCs
      <4> QED
        BY <1>8, <3>2, <4>1 DEF RecordSHA, IInv, Unkilled, SnapshotInv
    <3>3. ASSUME NEW k \in Repos, entries[k] # None, Sole(heap'[entries[k]].pin)
          PROVE  Dirty(entries[k])' \/ disk[heap'[entries[k]].pin].tree \in {0, heap'[entries[k]].sha}
      <4>1. entries[k] \in EntryIds
        BY <3>3, Types DEF IInv, Locks
      <4>2. CASE entries[k] = e
        <5>1. disk[Pin(w)].tree = gw[w].got
          <6>1. Sole(Pin(w)) /\ gw[w].pc \in Working
            BY <1>1, <1>4, <3>3, <4>2 DEF Working
          <6> QED
            BY <1>1, <1>8, <6>1 DEF IInv, Unkilled, SnapshotInv
        <5> QED
          BY <1>1, <1>4, <4>2, <5>1
      <4>3. CASE entries[k] # e
        <5>1. Dirty(entries[k]) => Dirty(entries[k])'
          BY <1>2, <4>3 DEF RecordSHA, Dirty
        <5> QED
          BY <1>4, <1>8, <3>3, <4>1, <4>3, <5>1 DEF IInv, Unkilled, SnapshotInv
      <4> QED
        BY <4>2, <4>3
    <3>4. ASSUME NEW r \in Readers, rd[r].pc = "return", Sole(heap'[rd[r].entry].pin),
                 entries[rd[r].key] = rd[r].entry
          PROVE  rd[r].content = heap'[rd[r].entry].sha
      BY <1>8, <2>r, <3>4 DEF IInv, Unkilled, SnapshotInv
    <3> QED
      BY <3>1, <3>2, <3>3, <3>4 DEF RecordSHA, SnapshotInv, Sole
  <2>3. NoLeakedClone'
    <3>1. \A k \in Repos : entries[k] # None => entries[k] \in EntryIds
      BY Types DEF IInv, Locks
    <3> QED
      BY <1>1, <1>2, <1>4, <1>8, <2>p, <3>1 DEF RecordSHA, IInv, Unkilled, NoLeakedClone
  <2>4. CommitNotAheadOfContent' /\ ExclusiveReadIsSnapshot'
    BY <1>8, <2>r, DoneStays DEF RecordSHA, IInv, Unkilled
  <2> QED
    BY <2>1, <2>2, <2>3, <2>4 DEF Unkilled
<1> QED
  BY <1>7, <1>8 DEF RecordSHA, IInv

LEMMA ForgetInv == ASSUME IInv, NEW w \in GitWorkers, NEW k \in Repos, Forget(w, k) PROVE IInv'
<1> DEFINE e == entries[k]
           g == [pc |-> "remove", key |-> k, cfg |-> None, entry |-> e, got |-> 0, cloning |-> FALSE]
<1>1. /\ gw \in [GitWorkers -> GitCalls] /\ entries \in [Repos -> EntryIds \cup {None}]
      /\ e \in EntryIds /\ heap[e].pin \in PinsOf[k] /\ gw[w].pc = "idle" /\ ~Serving(k)
  BY Types DEF IInv, Locks, CallInv, Forget
<1>2. gw' = [gw EXCEPT ![w] = g] /\ g \in GitCalls
  <2>1. \A a, x : [GitIdle EXCEPT !.pc = "remove", !.key = a, !.entry = x] =
                   [pc |-> "remove", key |-> a, cfg |-> None, entry |-> x, got |-> 0, cloning |-> FALSE]
    BY IdleBegins, Zenon
  <2>2. gw' = [gw EXCEPT ![w] = g]
    BY <2>1, Zenon DEF Forget
  <2> QED
    BY <1>1, <2>2, RegistryAssumption DEF GitCalls, GitPCs
<1>3. /\ gw'[w] = g /\ \A v \in GitWorkers \ {w} : gw'[v] = gw[v] /\ Pin(v)' = Pin(v)
      /\ Pin(w)' = heap[e].pin
      /\ entries'[k] = None /\ \A j \in Repos \ {k} : entries'[j] = entries[j]
  BY <1>1, <1>2 DEF Forget, Pin
<1>4. TypeOK'
  <2>1. gw' \in [GitWorkers -> GitCalls] /\ entries' \in [Repos -> EntryIds \cup {None}]
    BY <1>1, <1>2 DEF Forget
  <2> QED
    BY <2>1, Types, TypesNext DEF Forget, IInv, Locks
<1>5. CallInv'
  <2>1. ASSUME NEW v \in GitWorkers
        PROVE  /\ gw'[v].pc = "idle" => gw'[v] = GitIdle
               /\ gw'[v].pc # "idle" => gw'[v].key \in Repos
               /\ gw'[v].pc = "register" => gw'[v].cfg \in Configs /\ gw'[v].cfg.pin \in PinsOf[gw'[v].key]
               /\ gw'[v].pc \notin {"idle", "register"} =>
                    gw'[v].entry \in EntryIds /\ Pin(v)' \in PinsOf[gw'[v].key]
               /\ gw'[v].pc \in Working => entries'[gw'[v].key] = gw'[v].entry
               /\ gw'[v].pc = "remove" => entries'[gw'[v].key] = None
    <3>1. CASE v = w
      BY <3>1, <1>1, <1>3 DEF Working, InDirPCs
    <3>2. CASE v # w
      <4>1. gw'[v] = gw[v] /\ Pin(v)' = Pin(v) /\ gw[v].key # k
        BY <1>1, <1>3, <3>2 DEF Serving
      <4>2. gw[v].pc # "idle" => entries'[gw[v].key] = entries[gw[v].key]
        BY <1>3, <4>1 DEF IInv, Locks, CallInv
      <4> QED
        BY <4>1, <4>2 DEF IInv, Locks, CallInv, Working, InDirPCs
    <3> QED
      BY <3>1, <3>2
  <2>2. ASSUME NEW u \in GitWorkers, NEW v \in GitWorkers, u # v, gw'[u].pc # "idle"
        PROVE  gw'[u].key # gw'[v].key
    BY <2>2, <1>1, <1>3 DEF IInv, Locks, CallInv, Serving
  <2> QED
    BY <2>1, <2>2, <1>3 DEF Forget, IInv, Locks, CallInv
<1>6. LockInv'
  BY <1>3 DEF Forget, IInv, Locks, LockInv, InDir, Holding, InDirPCs
<1>7. ASSUME restarts = 0 PROVE Unkilled'
  <2>w. \A p : Writing(p)' <=> Writing(p)
    BY <1>1, <1>3 DEF Writing
  <2>d. \A x : Dirty(x) => Dirty(x)'
    BY <1>1, <1>3 DEF Dirty, InDirPCs
  <2>1. OrderInv'
    BY <1>1, <1>3, <1>7, <2>w DEF Forget, IInv, Unkilled, OrderInv, AtLeast
  <2>2. SnapshotInv'
    <3>1. \A r \in Readers : rd[r].pc = "return" /\ entries'[rd[r].key] = rd[r].entry
                               => entries[rd[r].key] = rd[r].entry
      BY <1>3, RegistryAssumption DEF IInv, Locks, CallInv
    <3>2. ASSUME NEW v \in GitWorkers, gw'[v].pc \in Working
          PROVE  v # w
      BY <1>3, <3>2 DEF Working, InDirPCs
    <3>3. \A p \in Pins : Sole(p) => /\ Writing(p)' \/ disk'[p].tree = disk'[p].head
                                     /\ ~disk'[p].git => disk'[p] = Absent
      BY <1>7, <2>w DEF Forget, IInv, Unkilled, SnapshotInv
    <3>4. \A v \in GitWorkers : gw'[v].pc \in Working /\ Sole(Pin(v)') =>
            /\ gw'[v].pc \in {"update", "cloneFetch", "reset", "resolve"} => disk'[Pin(v)'].git
            /\ gw'[v].pc = "reset" => disk'[Pin(v)'].head = gw'[v].got
            /\ gw'[v].pc = "record" => disk'[Pin(v)'].tree = gw'[v].got
      BY <1>3, <1>7, <3>2 DEF Forget, IInv, Unkilled, SnapshotInv
    <3> QED
      BY <1>3, <1>7, <2>d, <3>1, <3>3, <3>4 DEF Forget, IInv, Unkilled, SnapshotInv, Sole
  <2>3. NoLeakedClone'
    <3>1. SUFFICES ASSUME NEW p \in Pins, disk[p] # Absent
          PROVE  \/ \E j \in Repos : entries'[j] # None /\ heap[entries'[j]].pin = p
                 \/ \E v \in GitWorkers : gw'[v].pc = "remove" /\ Pin(v)' = p
      BY DEF Forget, NoLeakedClone
    <3>2. CASE \E v \in GitWorkers : gw[v].pc = "remove" /\ Pin(v) = p
      BY <1>1, <1>3, <3>2
    <3>3. CASE \E j \in Repos : entries[j] # None /\ heap[entries[j]].pin = p
      BY <1>3, <3>3
    <3> QED
      BY <1>7, <3>1, <3>2, <3>3 DEF IInv, Unkilled, NoLeakedClone
  <2>4. CommitNotAheadOfContent' /\ ExclusiveReadIsSnapshot'
    <3>1. \A r \in Readers : rd[r].pc = "done" /\ entries'[rd[r].key] = rd[r].entry
                               => entries[rd[r].key] = rd[r].entry
      BY <1>3, RegistryAssumption DEF IInv, Locks, CallInv
    <3> QED
      BY <1>7, <3>1, DoneStays DEF Forget, IInv, Unkilled
  <2> QED
    BY <2>1, <2>2, <2>3, <2>4 DEF Unkilled
<1> QED
  BY <1>4, <1>5, <1>6, <1>7 DEF Forget, IInv, Locks

LEMMA ForgetRemoveInv == ASSUME IInv, NEW w \in GitWorkers, ForgetRemove(w) PROVE IInv'
<1> DEFINE q == Pin(w)
<1>1. /\ gw \in [GitWorkers -> GitCalls] /\ disk \in [Pins -> Disks] /\ q \in Pins
      /\ gw[w].pc = "remove" /\ gw[w].key \in Repos /\ q \in PinsOf[gw[w].key]
  <2>1. gw[w].pc = "remove" /\ gw[w].entry \in EntryIds /\ heap \in Heaps
    BY Types DEF IInv, Locks, CallInv, ForgetRemove
  <2> QED
    BY <2>1, Types DEF IInv, Locks, CallInv, Heaps, Pin
<1>2. gw' = [gw EXCEPT ![w] = GitIdle] /\ GitIdle \in GitCalls /\ GitIdle.pc = "idle"
      /\ gw'[w] = GitIdle /\ \A v \in GitWorkers \ {w} : gw'[v] = gw[v] /\ Pin(v)' = Pin(v)
  BY <1>1, Constants DEF ForgetRemove, Pin
<1>3. disk' = [disk EXCEPT ![q] = Absent] /\ Absent \in Disks
      /\ disk'[q] = Absent /\ \A p \in Pins \ {q} : disk'[p] = disk[p]
  BY <1>1, Constants DEF ForgetRemove, Removed
<1> HIDE DEF q
<1>4. TypeOK'
  BY <1>1, <1>2, <1>3, Types, TypesNext DEF ForgetRemove, IInv, Locks
<1>5. Locks'
  <2>1. LockOwed(w, GitIdle)
    BY <1>2 DEF ForgetRemove, LockOwed, Working, Holding, InDirPCs
  <2> QED
    BY <1>2, <1>4, <2>1, CallLocks DEF ForgetRemove, IInv
<1>6. ASSUME restarts = 0 PROVE Unkilled'
  <2>w. \A p : Writing(p)' <=> Writing(p)
    BY <1>1, <1>2 DEF Writing
  <2>a. Absent.head = 0 /\ Absent.tree = 0
    BY DEF Absent
  <2>t. /\ upstream \in [Pins -> 0..MaxCommit] /\ MaxCommit \in Nat
        /\ \A v \in GitWorkers : gw[v].got \in 0..MaxCommit
    BY Types, Constants, RegistryAssumption DEF IInv, Locks, GitCalls
  <2>p. ASSUME NEW v \in GitWorkers, gw[v].pc \notin {"idle", "register"}
        PROVE  Pin(v) \in Pins
    BY <2>p, Types DEF IInv, Locks, CallInv, Heaps, Pin
  <2>1. OrderInv'
    <3>1. ASSUME NEW p \in Pins
          PROVE  disk'[p].head <= upstream'[p] /\ (AtLeast(p, disk[p].head)' \/ Writing(p)')
      BY <1>3, <1>6, <2>w, <2>a, <2>t DEF ForgetRemove, IInv, Unkilled, OrderInv, AtLeast
    <3>2. ASSUME NEW p \in Pins, NEW c, AtLeast(p, c) PROVE disk'[p].tree \in {0, Torn} \/ disk'[p].tree >= c
      BY <1>3, <2>a, <3>2 DEF AtLeast
    <3>3. ASSUME NEW x \in EntryIds
          PROVE  heap'[x].sha <= upstream'[heap'[x].pin] /\ AtLeast(heap[x].pin, heap[x].sha)'
      BY <1>6, <3>2, Types DEF ForgetRemove, IInv, Locks, Heaps, Unkilled, OrderInv, AtLeast
    <3>4. ASSUME NEW v \in GitWorkers, gw'[v].pc \in {"record", "reset"}
          PROVE  v # w /\ gw'[v] = gw[v] /\ Pin(v)' = Pin(v) /\ Pin(v) \in Pins
      BY <1>2, <2>p, <3>4
    <3>5. ASSUME NEW v \in GitWorkers, gw'[v].pc = "record"
          PROVE  gw'[v].got <= upstream'[Pin(v)'] /\ AtLeast(Pin(v), gw[v].got)'
      BY <1>6, <3>2, <3>4, <3>5 DEF ForgetRemove, IInv, Unkilled, OrderInv, AtLeast
    <3>6. ASSUME NEW v \in GitWorkers, gw'[v].pc = "reset"
          PROVE  /\ gw'[v].got <= upstream'[Pin(v)'] /\ disk'[Pin(v)'].head <= gw'[v].got
                 /\ \A x \in EntryIds : heap'[x].pin = Pin(v)' => heap'[x].sha <= gw'[v].got
                 /\ \A u \in GitWorkers :
                      gw'[u].pc = "record" /\ Pin(u)' = Pin(v)' => gw'[u].got <= gw'[v].got
      <4>1. disk'[Pin(v)].head <= gw[v].got
        BY <1>3, <1>6, <2>a, <2>t, <3>4, <3>6 DEF IInv, Unkilled, OrderInv
      <4> QED
        BY <1>6, <3>4, <3>6, <4>1 DEF ForgetRemove, IInv, Unkilled, OrderInv
    <3>7. \A r \in Readers :
            rd'[r].pc = "return" => rd'[r].content = Torn \/ rd'[r].content >= heap'[rd'[r].entry].sha
      BY <1>6 DEF ForgetRemove, IInv, Unkilled, OrderInv
    <3> QED
      BY <3>1, <3>3, <3>5, <3>6, <3>7 DEF OrderInv
  <2>2. SnapshotInv'
    <3>1. \A p \in Pins : Sole(p) => /\ Writing(p)' \/ disk'[p].tree = disk'[p].head
                                     /\ ~disk'[p].git => disk'[p] = Absent
      BY <1>3, <1>6, <2>w, <2>a DEF IInv, Unkilled, SnapshotInv
    <3>2. ASSUME NEW v \in GitWorkers, gw'[v].pc \in Working, Sole(Pin(v)')
          PROVE  /\ gw'[v].pc \in {"update", "cloneFetch", "reset", "resolve"} => disk'[Pin(v)'].git
                 /\ gw'[v].pc = "reset" => disk'[Pin(v)'].head = gw'[v].got
                 /\ gw'[v].pc = "record" => disk'[Pin(v)'].tree = gw'[v].got
      <4>1. v # w /\ gw'[v] = gw[v] /\ Pin(v)' = Pin(v) /\ gw[v].pc \notin {"idle", "register"}
        BY <1>2, <3>2 DEF Working, InDirPCs
      <4>2. Pin(v) # q /\ Pin(v) \in Pins
        BY <1>1, <2>p, <3>2, <4>1, SoleWorker DEF IInv, q
      <4> QED
        BY <1>3, <1>6, <3>2, <4>1, <4>2 DEF IInv, Unkilled, SnapshotInv
    <3>3. ASSUME NEW k \in Repos, entries[k] # None, Sole(heap[entries[k]].pin)
          PROVE  Dirty(entries[k])' \/ disk'[heap[entries[k]].pin].tree \in {0, heap[entries[k]].sha}
      <4>1. heap[entries[k]].pin \in Pins
        BY <3>3, Types DEF IInv, Locks, Heaps
      <4>2. CASE heap[entries[k]].pin = q
        BY <1>3, <2>a, <4>2
      <4>3. CASE heap[entries[k]].pin # q
        <5>1. Dirty(entries[k]) \/ disk[heap[entries[k]].pin].tree \in {0, heap[entries[k]].sha}
          BY <1>6, <3>3 DEF IInv, Unkilled, SnapshotInv
        <5>2. Dirty(entries[k]) => Dirty(entries[k])'
          BY <1>1, <1>2 DEF ForgetRemove, Dirty, InDirPCs
        <5> QED
          BY <1>3, <4>1, <4>3, <5>1, <5>2
      <4> QED
        BY <4>2, <4>3
    <3> QED
      BY <1>6, <3>1, <3>2, <3>3 DEF ForgetRemove, IInv, Unkilled, SnapshotInv, Sole
  <2>3. NoLeakedClone'
    <3>1. \A p \in Pins : disk'[p] # Absent => p # q /\ disk[p] # Absent
      BY <1>3
    <3> QED
      BY <1>2, <1>6, <3>1 DEF ForgetRemove, IInv, Unkilled, NoLeakedClone, q
  <2>4. CommitNotAheadOfContent' /\ ExclusiveReadIsSnapshot'
    BY <1>6, DoneStays DEF ForgetRemove, IInv, Unkilled
  <2> QED
    BY <2>1, <2>2, <2>3, <2>4 DEF Unkilled
<1> QED
  BY <1>5, <1>6 DEF ForgetRemove, IInv

\* Register, when the map gets a new entry, and the directory of the old one goes.
LEMMA RegisterNewInv ==
  ASSUME IInv, NEW w \in GitWorkers, Register(w), NeedsNewEntry(gw[w].key, gw[w].cfg)
  PROVE  IInv'
<1> DEFINE k == gw[w].key
           cfg == gw[w].cfg
<1>1. PICK e \in EntryIds :
        /\ Garbage(e)
        /\ entries' = [entries EXCEPT ![k] = e]
        /\ heap' = [heap EXCEPT ![e] = Fresh(cfg)]
        /\ disk' = [p \in Pins |-> IF p \in Evicted(k) THEN Absent ELSE disk[p]]
        /\ gw' = [gw EXCEPT ![w].pc = "lockEntry", ![w].entry = e, ![w].cfg = None]
  BY Zenon DEF Register
<1> DEFINE g == [pc |-> "lockEntry", key |-> k, cfg |-> None, entry |-> e,
                 got |-> gw[w].got, cloning |-> gw[w].cloning]
<1>2. /\ gw \in [GitWorkers -> GitCalls] /\ gw[w] \in GitCalls /\ gw[w].pc = "register" /\ k \in Repos
      /\ cfg \in Configs /\ cfg.pin \in PinsOf[k] /\ cfg.pin \in Pins
      /\ entries \in [Repos -> EntryIds \cup {None}] /\ heap \in Heaps /\ disk \in [Pins -> Disks]
      /\ e # None
  BY Types, RegistryAssumption DEF IInv, Locks, CallInv, Register, Configs
<1>3. gw' = [gw EXCEPT ![w] = g] /\ g \in GitCalls
  BY <1>1, <1>2, CallRegisters DEF GitCalls, GitPCs
<1>4. /\ gw'[w] = g /\ \A v \in GitWorkers \ {w} : gw'[v] = gw[v]
      /\ entries'[k] = e /\ \A j \in Repos \ {k} : entries'[j] = entries[j]
      /\ heap'[e].pin = cfg.pin /\ heap'[e].sha = 0
      /\ \A x \in EntryIds \ {e} : heap'[x] = heap[x]
      /\ \A p \in Pins : disk'[p] = IF p \in Evicted(k) THEN Absent ELSE disk[p]
  BY <1>1, <1>2, <1>3, Constants DEF Heaps
<1>5. /\ \A j \in Repos : entries[j] # e
      /\ \A v \in GitWorkers : gw[v].entry # e
      /\ \A r \in Readers : rd[r].entry # e
  BY <1>1 DEF Garbage
<1>6. TypeOK'
  <2>1. gw' \in [GitWorkers -> GitCalls] /\ entries' \in [Repos -> EntryIds \cup {None}]
    <3>1. gw \in [GitWorkers -> GitCalls] /\ gw' = [gw EXCEPT ![w] = g] /\ g \in GitCalls
      BY <1>2, <1>3
    <3>2. /\ entries \in [Repos -> EntryIds \cup {None}] /\ entries' = [entries EXCEPT ![k] = e]
          /\ k \in Repos
      BY <1>1, <1>2
    <3> HIDE DEF g, k
    <3>3. gw' \in [GitWorkers -> GitCalls]
      BY <3>1
    <3>4. entries' \in [Repos -> EntryIds \cup {None}]
      BY <3>2
    <3> QED
      BY <3>3, <3>4
  <2>2. heap' \in Heaps
    <3>1. Fresh(cfg) \in [pin : Pins, cred : Creds, sha : 0..MaxCommit]
      BY <1>2, Constants
    <3>2. heap \in Heaps /\ heap' = [heap EXCEPT ![e] = Fresh(cfg)]
      BY <1>1, <1>2
    <3> HIDE DEF cfg
    <3> QED
      BY <3>1, <3>2 DEF Heaps
  <2>3. disk' \in [Pins -> Disks]
    BY <1>1, <1>2, Constants
  <2> QED
    BY <2>1, <2>2, <2>3, Types, TypesNext DEF Register, IInv, Locks
<1>g. g.pc = "lockEntry" /\ g.key = k /\ g.entry = e
  OBVIOUS
<1>u. UNCHANGED <<spec, upstream, rw, repoMu, rd, restarts>>
  BY DEF Register
<1> HIDE DEF g
<1>7. ASSUME NEW v \in GitWorkers, v # w
      PROVE  /\ gw'[v] = gw[v] /\ (gw[v].pc # "idle" => gw[v].key \in Repos /\ gw[v].key # k)
             /\ gw[v].pc \notin {"idle", "register"} =>
                  gw[v].entry \in EntryIds /\ Pin(v)' = Pin(v) /\ Pin(v) \in Pins
                  /\ Pin(v) \in PinsOf[gw[v].key]
  BY <1>2, <1>4, <1>5, <1>7 DEF IInv, Locks, CallInv, Pin, Heaps
<1>8. ASSUME NEW r \in Readers, rd[r].pc # "idle"
      PROVE  /\ rd[r].entry \in EntryIds /\ heap'[rd[r].entry] = heap[rd[r].entry]
             /\ entries'[rd[r].key] = rd[r].entry => entries[rd[r].key] = rd[r].entry
  BY <1>4, <1>5, <1>8 DEF IInv, Locks, CallInv
<1>9. ASSUME NEW j \in Repos, j # k, entries[j] # None
      PROVE  entries[j] \in EntryIds /\ entries'[j] = entries[j] /\ heap'[entries[j]] = heap[entries[j]]
             /\ heap[entries[j]].pin \in Pins /\ heap[entries[j]].pin \in PinsOf[j]
  BY <1>2, <1>4, <1>5, <1>9 DEF IInv, Locks, CallInv, Heaps
<1>a. CallInv'
  <2>1. ASSUME NEW v \in GitWorkers
        PROVE  /\ gw'[v].pc = "idle" => gw'[v] = GitIdle
               /\ gw'[v].pc # "idle" => gw'[v].key \in Repos
               /\ gw'[v].pc = "register" => gw'[v].cfg \in Configs /\ gw'[v].cfg.pin \in PinsOf[gw'[v].key]
               /\ gw'[v].pc \notin {"idle", "register"} =>
                    gw'[v].entry \in EntryIds /\ Pin(v)' \in PinsOf[gw'[v].key]
               /\ gw'[v].pc \in Working => entries'[gw'[v].key] = gw'[v].entry
               /\ gw'[v].pc = "remove" => entries'[gw'[v].key] = None
    <3>1. CASE v = w
      BY <3>1, <1>2, <1>4, <1>g DEF Pin
    <3>2. CASE v # w
      BY <3>2, <1>4, <1>7 DEF IInv, Locks, CallInv, Working, InDirPCs
    <3> QED
      BY <3>1, <3>2
  <2>2. ASSUME NEW u \in GitWorkers, NEW v \in GitWorkers, u # v, gw'[u].pc # "idle"
        PROVE  gw'[u].key # gw'[v].key
    BY <2>2, <1>2, <1>4, <1>7, <1>g DEF IInv, Locks, CallInv
  <2>3. \A r \in Readers : rd[r].pc # "idle" =>
          rd[r].key \in Repos /\ rd[r].entry \in EntryIds /\ heap'[rd[r].entry].pin \in PinsOf[rd[r].key]
    BY <1>8 DEF IInv, Locks, CallInv
  <2>4. \A j \in Repos : entries'[j] # None => heap'[entries'[j]].pin \in PinsOf[j]
    BY <1>2, <1>4, <1>9
  <2> QED
    BY <1>u, <2>1, <2>2, <2>3, <2>4 DEF IInv, Locks, CallInv
<1>b. LockInv'
  <2>1. ASSUME NEW v \in GitWorkers
        PROVE  /\ gw'[v].pc \in Holding => rw[gw'[v].entry].writer = v
               /\ InDir(v)' => repoMu[Pin(v)'] = v
    <3>1. CASE v = w
      BY <3>1, <1>4, <1>g DEF Holding, InDirPCs, InDir
    <3>2. CASE v # w
      BY <3>2, <1>7 DEF IInv, Locks, LockInv, InDir
    <3> QED
      BY <3>1, <3>2
  <2> QED
    BY <1>u, <2>1 DEF IInv, Locks, LockInv
<1>c. ASSUME restarts = 0 PROVE Unkilled'
  <2>q. Absent.head = 0 /\ Absent.tree = 0
    BY DEF Absent
  <2>w. \A p : Writing(p)' <=> Writing(p)
    BY <1>2, <1>4, <1>7, <1>g DEF Writing
  <2>t. /\ upstream \in [Pins -> 0..MaxCommit] /\ MaxCommit \in Nat
        /\ \A v \in GitWorkers : gw[v].got \in 0..MaxCommit
    BY Types, Constants, RegistryAssumption DEF IInv, Locks, GitCalls
  <2>v. ASSUME NEW v \in GitWorkers, gw'[v].pc \notin {"idle", "register", "lockEntry"}
        PROVE  v # w /\ gw'[v] = gw[v] /\ Pin(v)' = Pin(v) /\ Pin(v) \in Pins
    BY <1>4, <1>7, <1>g, <2>v
  <2>1. OrderInv'
    <3>1. ASSUME NEW p \in Pins
          PROVE  disk'[p].head <= upstream[p] /\ (AtLeast(p, disk[p].head)' \/ Writing(p)')
      BY <1>4, <1>c, <2>w, <2>q, <2>t DEF IInv, Unkilled, OrderInv, AtLeast
    <3>2. ASSUME NEW p \in Pins, NEW c, AtLeast(p, c) PROVE disk'[p].tree \in {0, Torn} \/ disk'[p].tree >= c
      BY <1>4, <2>q, <3>2 DEF AtLeast
    <3>3. ASSUME NEW x \in EntryIds
          PROVE  heap'[x].sha <= upstream[heap'[x].pin] /\ AtLeast(heap[x].pin, heap[x].sha)'
      <4>1. CASE x = e
        <5>1. disk'[cfg.pin] \in Disks
          BY <1>2, <1>6, TypesNext
        <5> QED
          BY <1>2, <1>4, <2>t, <4>1, <5>1 DEF AtLeast, Disks
      <4>2. CASE x # e
        BY <1>2, <1>4, <1>c, <3>2, <4>2 DEF Heaps, IInv, Unkilled, OrderInv, AtLeast
      <4> QED
        BY <4>1, <4>2
    <3>4. ASSUME NEW v \in GitWorkers, gw'[v].pc = "record"
          PROVE  gw'[v].got <= upstream[Pin(v)'] /\ AtLeast(Pin(v), gw[v].got)'
      BY <1>c, <2>v, <3>2, <3>4 DEF IInv, Unkilled, OrderInv, AtLeast
    <3>5. ASSUME NEW v \in GitWorkers, gw'[v].pc = "reset"
          PROVE  /\ gw'[v].got <= upstream[Pin(v)'] /\ disk'[Pin(v)'].head <= gw'[v].got
                 /\ \A x \in EntryIds : heap'[x].pin = Pin(v)' => heap'[x].sha <= gw'[v].got
                 /\ \A u \in GitWorkers :
                      gw'[u].pc = "record" /\ Pin(u)' = Pin(v)' => gw'[u].got <= gw'[v].got
      <4>1. v # w /\ gw[v].pc = "reset" /\ gw'[v] = gw[v] /\ Pin(v)' = Pin(v) /\ Pin(v) \in Pins
        BY <2>v, <3>5
      <4>2. disk'[Pin(v)].head <= gw[v].got
        BY <1>4, <1>c, <2>q, <2>t, <4>1 DEF IInv, Unkilled, OrderInv
      <4>3. ASSUME NEW x \in EntryIds, heap'[x].pin = Pin(v) PROVE heap'[x].sha <= gw[v].got
        BY <1>4, <1>c, <2>t, <4>1, <4>3 DEF IInv, Unkilled, OrderInv
      <4>4. ASSUME NEW u \in GitWorkers, gw'[u].pc = "record", Pin(u)' = Pin(v)
            PROVE  gw'[u].got <= gw[v].got
        BY <1>c, <2>v, <4>1, <4>4 DEF IInv, Unkilled, OrderInv
      <4> QED
        BY <1>c, <4>1, <4>2, <4>3, <4>4 DEF IInv, Unkilled, OrderInv
    <3>6. \A r \in Readers :
            rd[r].pc = "return" => rd[r].content = Torn \/ rd[r].content >= heap'[rd[r].entry].sha
      BY <1>8, <1>c DEF IInv, Unkilled, OrderInv
    <3> QED
      BY <1>u, <3>1, <3>3, <3>4, <3>5, <3>6 DEF OrderInv
  <2>e. \A p \in Evicted(k) : p \in PinsOf[k]
    BY <1>2 DEF Evicted, IInv, Locks, CallInv
  <2>2. SnapshotInv'
    <3>1. \A p \in Pins : Sole(p) => /\ Writing(p)' \/ disk'[p].tree = disk'[p].head
                                     /\ ~disk'[p].git => disk'[p] = Absent
      BY <1>4, <1>c, <2>w, <2>q DEF IInv, Unkilled, SnapshotInv
    <3>2. ASSUME NEW v \in GitWorkers, gw'[v].pc \in Working, Sole(Pin(v)')
          PROVE  /\ gw'[v].pc \in {"update", "cloneFetch", "reset", "resolve"} => disk'[Pin(v)'].git
                 /\ gw'[v].pc = "reset" => disk'[Pin(v)'].head = gw'[v].got
                 /\ gw'[v].pc = "record" => disk'[Pin(v)'].tree = gw'[v].got
      <4>1. CASE v = w
        BY <4>1, <1>4, <1>g
      <4>2. CASE v # w
        <5>1. /\ gw'[v] = gw[v] /\ Pin(v)' = Pin(v) /\ Pin(v) \in Pins
              /\ Pin(v) \in PinsOf[gw[v].key] /\ gw[v].key \in Repos /\ gw[v].key # k
          BY <1>7, <3>2, <4>2 DEF Working, InDirPCs
        <5>2. Pin(v) \notin Evicted(k)
          BY <1>2, <2>e, <3>2, <5>1, SoleKey
        <5> QED
          BY <1>4, <1>c, <3>2, <5>1, <5>2 DEF IInv, Unkilled, SnapshotInv
      <4> QED
        BY <4>1, <4>2
    <3>3. ASSUME NEW j \in Repos, entries'[j] # None, Sole(heap'[entries'[j]].pin)
          PROVE  Dirty(entries[j])' \/ disk'[heap'[entries'[j]].pin].tree \in {0, heap'[entries'[j]].sha}
      <4>1. CASE j = k
        <5>1. disk'[cfg.pin] = Absent
          <6>1. SUFFICES ASSUME disk'[cfg.pin] # Absent PROVE FALSE
            OBVIOUS
          <6>2. disk[cfg.pin] # Absent /\ Sole(cfg.pin)
            BY <1>2, <1>4, <3>3, <4>1, <6>1
          <6>3. CASE \E i \in Repos : entries[i] # None /\ heap[entries[i]].pin = cfg.pin
            <7>1. PICK i \in Repos : entries[i] # None /\ heap[entries[i]].pin = cfg.pin
              BY <6>3
            <7>2. i = k
              BY <1>2, <1>9, <6>2, <7>1, SoleKey
            <7> QED
              BY <7>1, <7>2 DEF NeedsNewEntry
          <6>4. CASE \E v \in GitWorkers : gw[v].pc = "remove" /\ Pin(v) = cfg.pin
            <7>1. PICK v \in GitWorkers : gw[v].pc = "remove" /\ Pin(v) = cfg.pin
              BY <6>4
            <7>2. v # w /\ gw[v].key # k /\ gw[v].key \in Repos /\ cfg.pin \in PinsOf[gw[v].key]
              BY <1>2, <1>7, <7>1
            <7> QED
              BY <1>2, <6>2, <7>2, SoleKey
          <6> QED
            BY <1>2, <1>c, <6>2, <6>3, <6>4 DEF IInv, Unkilled, NoLeakedClone
        <5> QED
          BY <1>4, <2>q, <4>1, <5>1
      <4>2. CASE j # k
        <5>1. /\ entries'[j] = entries[j] /\ entries[j] # None /\ entries[j] \in EntryIds
              /\ heap'[entries[j]] = heap[entries[j]]
              /\ heap[entries[j]].pin \in Pins /\ heap[entries[j]].pin \in PinsOf[j]
          BY <1>4, <1>9, <3>3, <4>2
        <5>2. heap[entries[j]].pin \notin Evicted(k)
          BY <1>2, <2>e, <3>3, <4>2, <5>1, SoleKey
        <5>3. Dirty(entries[j]) \/ disk[heap[entries[j]].pin].tree \in {0, heap[entries[j]].sha}
          BY <1>c, <3>3, <5>1 DEF IInv, Unkilled, SnapshotInv
        <5>4. Dirty(entries[j]) => Dirty(entries[j])'
          BY <1>2, <1>7, <5>1 DEF Dirty, InDirPCs
        <5> QED
          BY <1>4, <5>1, <5>2, <5>3, <5>4
      <4> QED
        BY <4>1, <4>2
    <3>4. ASSUME NEW r \in Readers, rd[r].pc = "return", Sole(heap'[rd[r].entry].pin),
                 entries'[rd[r].key] = rd[r].entry
          PROVE  rd[r].content = heap'[rd[r].entry].sha
      BY <1>8, <1>c, <3>4 DEF IInv, Unkilled, SnapshotInv
    <3> QED
      BY <1>u, <3>1, <3>2, <3>3, <3>4 DEF SnapshotInv, Sole
  <2>3. NoLeakedClone'
    <3>1. SUFFICES ASSUME NEW p \in Pins, disk'[p] # Absent
          PROVE  \/ \E j \in Repos : entries'[j] # None /\ heap'[entries'[j]].pin = p
                 \/ \E v \in GitWorkers : gw'[v].pc = "remove" /\ Pin(v)' = p
      BY DEF NoLeakedClone
    <3>2. disk[p] # Absent /\ p \notin Evicted(k)
      BY <1>4, <3>1
    <3>3. CASE \E v \in GitWorkers : gw[v].pc = "remove" /\ Pin(v) = p
      BY <1>2, <1>7, <3>3
    <3>4. CASE \E j \in Repos : entries[j] # None /\ heap[entries[j]].pin = p
      <4>1. PICK j \in Repos : entries[j] # None /\ heap[entries[j]].pin = p
        BY <3>4
      <4>2. j # k
        BY <3>2, <4>1 DEF Evicted
      <4> QED
        BY <1>9, <4>1, <4>2
    <3> QED
      BY <1>c, <3>2, <3>3, <3>4 DEF IInv, Unkilled, NoLeakedClone
  <2>4. CommitNotAheadOfContent' /\ ExclusiveReadIsSnapshot'
    BY <1>8, <1>c, <1>u, DoneStays DEF IInv, Unkilled
  <2> QED
    BY <2>1, <2>2, <2>3, <2>4 DEF Unkilled
<1> QED
  BY <1>6, <1>a, <1>b, <1>c, <1>u DEF IInv, Locks

-----------------------------------------------------------------------------
(* The theorems.                                                           *)

LEMMA GitStepInv == ASSUME IInv, NEW w \in GitWorkers, GitStep(w) PROVE IInv'
<1>1. CASE Register(w)
  BY <1>1, RegisterNewInv, RegisterKeepsInv
<1>2. CASE Stat(w) \/ Update(w) \/ UpdateFails(w) \/ Wipe(w)
  BY <1>2, StatInv, UpdateInv, UpdateFailsInv, WipeInv
<1>3. CASE CloneInit(w) \/ CloneFetch(w) \/ CloneFails(w)
  BY <1>3, CloneInitInv, CloneFetchInv, CloneFailsInv
<1>4. CASE ResetStart(w) \/ ResetEnd(w) \/ ResetFails(w)
  BY <1>4, ResetStartInv, ResetEndInv, ResetFailsInv
<1>5. CASE Resolve(w) \/ ResolveFails(w) \/ RecordSHA(w) \/ EnsureFailed(w)
  BY <1>5, ResolveInv, ResolveFailsInv, RecordSHAInv, EnsureFailedInv
<1>6. CASE LockEntry(w) \/ LockDir(w) \/ ForgetRemove(w)
  BY <1>6, LockEntryInv, LockDirInv, ForgetRemoveInv
<1> QED
  BY <1>1, <1>2, <1>3, <1>4, <1>5, <1>6 DEF GitStep

LEMMA NextInv == ASSUME IInv, [Next]_vars PROVE IInv'
<1>1. ASSUME NEW w \in GitWorkers, GitStep(w) PROVE IInv'
  BY <1>1, GitStepInv
<1>2. ASSUME NEW w \in GitWorkers, NEW k \in Repos, BeginEnsure(w, k) \/ Forget(w, k) PROVE IInv'
  BY <1>2, BeginEnsureInv, ForgetInv
<1>3. ASSUME NEW r \in Readers, ReadStep(r) PROVE IInv'
  BY <1>3, ReadLockInv, ReadFileInv, ReadReturnInv, ReadDoneInv DEF ReadStep
<1>4. ASSUME NEW r \in Readers, NEW k \in Repos, ReadLookup(r, k) PROVE IInv'
  BY <1>4, ReadLookupInv
<1>5. ASSUME NEW p \in Pins, Push(p) PROVE IInv'
  BY <1>5, PushInv
<1>6. ASSUME NEW k \in Repos, NEW p \in Pins, EditPin(k, p) PROVE IInv'
  BY <1>6, EditPinInv
<1>7. ASSUME NEW k \in Repos, NEW c \in Creds, EditAuth(k, c) PROVE IInv'
  BY <1>7, EditAuthInv
<1>8. CASE Restart
  BY <1>8, RestartInv
<1>9. CASE UNCHANGED vars
  BY <1>9, StutterInv
<1> QED
  BY <1>1, <1>2, <1>3, <1>4, <1>5, <1>6, <1>7, <1>8, <1>9 DEF Next

\* The invariant of the registry, through any number of restarts: the locks hold
\* always, what they buy until the first kill.
THEOREM Invariant == Spec => []IInv
<1>1. Init => IInv
  BY InitInv
<1>2. IInv /\ [Next]_vars => IInv'
  BY NextInv
<1> QED
  BY <1>1, <1>2, PTL DEF Spec

\* Every variable keeps to its type: positions of commits stay within what was
\* published, a call refers to keys and structs that exist.
THEOREM TypeCorrect == Spec => []TypeOK
<1>1. IInv => TypeOK
  BY DEF IInv, Locks
<1> QED
  BY <1>1, Invariant, PTL

\* repoMutex (git.go:115): two git operations are never in one cache directory, for
\* any number of GitRepositories that share it and of workers.
THEOREM OneGitOperation == Spec => []OneGitOperationPerDir
<1>1. IInv => OneGitOperationPerDir
  BY DEF IInv, Locks, LockInv, OneGitOperationPerDir
<1> QED
  BY <1>1, Invariant, PTL

\* Edits, failed fetches and Forget leave no clone behind that no entry owns; a
\* process killed between its map and its disk may.
THEOREM NoLeak == Spec => [](restarts = 0 => NoLeakedClone)
<1>1. IInv => (restarts = 0 => NoLeakedClone)
  BY DEF IInv, Unkilled
<1> QED
  BY <1>1, Invariant, PTL

\* Read never couples a SHA with older bytes, whoever shares the directory and
\* whatever replaced the entry, until the process is first killed.
THEOREM NeverAhead == Spec => [](restarts = 0 => CommitNotAheadOfContent)
<1>1. IInv => (restarts = 0 => CommitNotAheadOfContent)
  BY DEF IInv, Unkilled
<1> QED
  BY <1>1, Invariant, PTL

\* Read's promise (registry.go:5-8, 88-89) for a GitRepository that has its
\* directory to itself: the bytes are those of the commit it returns.
THEOREM ExclusiveSnapshot == Spec => [](restarts = 0 => ExclusiveReadIsSnapshot)
<1>1. IInv => (restarts = 0 => ExclusiveReadIsSnapshot)
  BY DEF IInv, Unkilled
<1> QED
  BY <1>1, Invariant, PTL
=============================================================================
