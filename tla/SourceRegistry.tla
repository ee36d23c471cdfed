---------------------------- MODULE SourceRegistry ----------------------------
(***************************************************************************)
(* The git half of the source cache: internal/source/registry.go over      *)
(* internal/git/git.go.  Git workers (the GitRepository controller) call   *)
(* EnsureCached and Forget, readers (the consumer controllers' workers)    *)
(* call Read.  Three locks are involved, taken in this order and never     *)
(* nested the other way:                                                   *)
(*    r.mu      guards the map of entries; every critical section under it *)
(*              is one action here, so it needs no variable;               *)
(*    e.rw      the RWMutex of an entry;                                   *)
(*    repoMutex one mutex per cache directory, taken by git operations     *)
(*              only: a reader never takes it.                             *)
(*                                                                         *)
(* A pin stands for a (URL, branch, revision) triple and, the hash of      *)
(* git.New being injective on the triples of interest, for the cache       *)
(* directory it selects.  A commit is its position in the pin's history    *)
(* as published upstream; 0 is "none".                                     *)
(***************************************************************************)
EXTENDS Naturals, FiniteSets

CONSTANTS
  Repos,          \* keys of GitRepository objects
  Pins,           \* (URL, branch, revision) triples, one cache directory each
  PinsOf,         \* PinsOf[k]: the pins the spec of k may be edited to
  RevisionPins,   \* the pins with spec.revision set: upstream never moves them
  Creds,          \* contents the auth Secret may have
  Accepted,       \* the contents that the git server accepts
  Unparsable,     \* the contents authMethod() refuses before any I/O
  EntryIds,       \* addresses of entry structs
  GitWorkers,     \* workers of the GitRepository controller (one by default)
  Readers,        \* workers of the consumer controllers
  Flaky,          \* the pins whose git operations may fail for reasons of their own
  PinEdits,       \* TRUE: specs are edited while the operator runs
  MaxCommit,      \* bound on the commits published per pin
  MaxRestarts,    \* bound on process restarts
  None,           \* no entry, no worker, no key
  Torn            \* a file that is a mixture of two commits, or half written

ASSUME RegistryAssumption ==
  /\ PinsOf \in [Repos -> SUBSET Pins]
  /\ RevisionPins \subseteq Pins
  /\ Pins # {} /\ Creds # {}
  /\ Accepted \subseteq Creds
  /\ Unparsable \subseteq Creds
  /\ Flaky \subseteq Pins
  /\ PinEdits \in BOOLEAN
  /\ MaxCommit \in Nat \ {0}
  /\ MaxRestarts \in Nat
  /\ None \notin EntryIds \cup GitWorkers \cup Repos
  /\ Torn \notin Nat

VARIABLES
  spec,       \* spec[k] = [pin, cred]: the GitRepository as the next reconcile reads it
  upstream,   \* upstream[p]: newest commit the server has for p
  entries,    \* Registry.entries: key -> address of its entry, or None
  heap,       \* the entry structs: [pin, cred, sha] = repo.cfg and commitSHA
  rw,         \* e.rw: [writer, readers]
  repoMu,     \* repoMutex(cacheDir): the git worker that holds it, or None
  disk,       \* disk[p] = [git, head, tree]: .git there, HEAD, the worktree's file
  gw,         \* the git workers' calls in progress
  rd,         \* the readers' calls in progress
  reported,   \* reported[k]: the status of k has said SourceReady=True
  restarts    \* process restarts so far

vars == <<spec, upstream, entries, heap, rw, repoMu, disk, gw, rd, reported, restarts>>

Commits == 1..MaxCommit
Configs == [pin : Pins, cred : Creds]

\* What is on disk where nothing was cloned, or after os.RemoveAll.
Absent == [git |-> FALSE, head |-> 0, tree |-> 0]
Disks == [git : BOOLEAN, head : 0..MaxCommit, tree : (0..MaxCommit) \cup {Torn}]

Unlocked == [writer |-> None, readers |-> {}]

\* The calls in progress: pc is the next step, the other fields its locals.
GitIdle == [pc |-> "idle", key |-> None, cfg |-> None, entry |-> None,
            got |-> 0, cloning |-> FALSE]
GitPCs == {"register", "lockEntry", "lockDir", "stat", "update", "wipe",
           "clone", "cloneFetch", "reset", "resolve", "record", "failed", "remove"}
ReadIdle == [pc |-> "idle", key |-> None, entry |-> None, content |-> 0, sha |-> 0]
ReadPCs == {"rlock", "readFile", "return", "done"}

\* The git worker is in a git operation on the directory of its entry.
InDir(w) == gw[w].pc \in {"stat", "update", "wipe", "clone", "cloneFetch",
                          "reset", "resolve", "failed"}

-----------------------------------------------------------------------------
(* Entry structs.                                                          *)

\* An address nobody can reach any more: the garbage collector may reuse it.
Garbage(e) == /\ \A k \in Repos : entries[k] # e
              /\ \A w \in GitWorkers : gw[w].entry # e
              /\ \A r \in Readers : rd[r].entry # e

\* &entry{repo: repo, cacheDir: repo.CacheDir()}
FreshFault(cfg) == [pin |-> cfg.pin, cred |-> cfg.cred, sha |-> None]
Fresh(cfg) == [pin |-> cfg.pin, cred |-> cfg.cred, sha |-> 0]

\* Before anything is allocated the addresses hold nothing of interest.
NoStructs == [e \in EntryIds |-> Fresh(CHOOSE cfg \in Configs : TRUE)]

\* registry.go:67: an entry is replaced when the cache directory changed; a
\* new credential alone keeps the entry, and with it the git.Repo built from
\* the old one.
NeedsNewEntry(k, cfg) ==
  \/ entries[k] = None
  \/ heap[entries[k]].pin # cfg.pin

\* The directory of an entry that another takes the place of: os.RemoveAll.
EvictedFault(k) == {}
Evicted(k) == IF entries[k] = None THEN {} ELSE {heap[entries[k]].pin}

\* sync.RWMutex: when Lock and RLock get through, and what the deferred Unlock
\* and RUnlock leave.
WriteLockFreeFault(e) == rw[e].writer = None
WriteLockFree(e) == rw[e].writer = None /\ rw[e].readers = {}
ReadLockFreeFault(e) == e \in EntryIds
ReadLockFree(e) == rw[e].writer = None
WriteUnlockedFault(e) == rw[e]
WriteUnlocked(e) == [rw[e] EXCEPT !.writer = None]
ReadUnlockedFault(e, r) == rw[e]
ReadUnlocked(e, r) == [rw[e] EXCEPT !.readers = @ \ {r}]

\* git.go:115 repoMutex.
DirFreeFault(p) == p \in Pins
DirFree(p) == repoMu[p] = None

Pin(w) == heap[gw[w].entry].pin

\* The server lets the credential of the entry's git.Repo in.
Admitted(w) == heap[gw[w].entry].cred \in Accepted

Goto(w, pc) == gw' = [gw EXCEPT ![w].pc = pc]

-----------------------------------------------------------------------------
(* EnsureCached, as the GitRepository worker runs it.  The controller's    *)
(* work queue never gives one key to two workers.                          *)

Serving(k) == \E w \in GitWorkers : gw[w].key = k

\* Reconcile has read the spec and resolved the auth Secret, and calls
\* EnsureCached with the resulting git.Config.
BeginEnsure(w, k) ==
  /\ gw[w].pc = "idle" /\ ~Serving(k)
  /\ gw' = [gw EXCEPT ![w] = [GitIdle EXCEPT !.pc = "register", !.key = k, !.cfg = spec[k]]]
  /\ UNCHANGED <<spec, upstream, entries, heap, rw, repoMu, disk, rd, reported, restarts>>

\* The section under r.mu.  An entry for another directory is evicted: its
\* directory goes, without its lock, and the map gets a new struct.
Register(w) ==
  /\ gw[w].pc = "register"
  /\ LET k == gw[w].key
         cfg == gw[w].cfg
     IN IF NeedsNewEntry(k, cfg)
        THEN \E e \in EntryIds :
               /\ Garbage(e)
               /\ entries' = [entries EXCEPT ![k] = e]
               /\ heap' = [heap EXCEPT ![e] = Fresh(cfg)]
               /\ disk' = [p \in Pins |-> IF p \in Evicted(k) THEN Absent ELSE disk[p]]
               /\ gw' = [gw EXCEPT ![w].pc = "lockEntry", ![w].entry = e, ![w].cfg = None]
        ELSE /\ gw' = [gw EXCEPT ![w].pc = "lockEntry", ![w].entry = entries[k], ![w].cfg = None]
             /\ UNCHANGED <<entries, heap, disk>>
  /\ UNCHANGED <<spec, upstream, rw, repoMu, rd, reported, restarts>>

LockEntry(w) ==
  /\ gw[w].pc = "lockEntry"
  /\ WriteLockFree(gw[w].entry)
  /\ rw' = [rw EXCEPT ![gw[w].entry].writer = w]
  /\ Goto(w, "lockDir")
  /\ UNCHANGED <<spec, upstream, entries, heap, repoMu, disk, rd, reported, restarts>>

\* EnsureCloned takes repoMutex, then builds the auth method: an SSH key it
\* cannot parse is an error before the cache directory is looked at.
LockDir(w) ==
  /\ gw[w].pc = "lockDir"
  /\ DirFree(Pin(w))
  /\ repoMu' = [repoMu EXCEPT ![Pin(w)] = w]
  /\ Goto(w, IF heap[gw[w].entry].cred \in Unparsable THEN "failed" ELSE "stat")
  /\ UNCHANGED <<spec, upstream, entries, heap, rw, disk, rd, reported, restarts>>

\* os.Stat(cacheDir/.git).
Stat(w) ==
  /\ gw[w].pc = "stat"
  /\ Goto(w, IF disk[Pin(w)].git THEN "update" ELSE "clone")
  /\ UNCHANGED <<spec, upstream, entries, heap, rw, repoMu, disk, rd, reported, restarts>>

\* A pull that finds HEAD at the fetched commit is "already up to date"; a pinned
\* revision is checked out with Force whatever HEAD says.
UpToDateFault(p) == disk[p].head = upstream[p]
UpToDate(p) == p \notin RevisionPins /\ disk[p].head = upstream[p]

\* updateAndResolve up to the point where HEAD names the commit to show.  The
\* client moves HEAD before it rewrites the worktree, and leaves a worktree that
\* it takes to be up to date as it is.
Update(w) ==
  /\ gw[w].pc = "update"
  /\ Admitted(w) /\ disk[Pin(w)].git
  /\ LET p == Pin(w)
     IN /\ disk' = [disk EXCEPT ![p].head = upstream[p]]
        /\ gw' = [gw EXCEPT ![w].pc = IF UpToDate(p) THEN "resolve" ELSE "reset",
                            ![w].got = upstream[p]]
  /\ UNCHANGED <<spec, upstream, entries, heap, rw, repoMu, rd, reported, restarts>>

\* Fetch, pull or checkout fails, also when the directory has been removed
\* meanwhile by the Forget or the eviction of another repository.
UpdateFails(w) ==
  /\ gw[w].pc = "update"
  /\ Pin(w) \in Flaky \/ ~Admitted(w) \/ ~disk[Pin(w)].git
  /\ Goto(w, "wipe")
  /\ UNCHANGED <<spec, upstream, entries, heap, rw, repoMu, disk, rd, reported, restarts>>

\* "Stale cache - wipe and reclone."
Wipe(w) ==
  /\ gw[w].pc = "wipe"
  /\ disk' = [disk EXCEPT ![Pin(w)] = Absent]
  /\ Goto(w, "clone")
  /\ UNCHANGED <<spec, upstream, entries, heap, rw, repoMu, rd, reported, restarts>>

\* PlainClone initialises the repository before it talks to the server.
CloneInit(w) ==
  /\ gw[w].pc = "clone"
  /\ disk' = [disk EXCEPT ![Pin(w)].git = TRUE]
  /\ Goto(w, "cloneFetch")
  /\ UNCHANGED <<spec, upstream, entries, heap, rw, repoMu, rd, reported, restarts>>

\* The objects arrive, HEAD is set; the worktree follows.
CloneFetch(w) ==
  /\ gw[w].pc = "cloneFetch"
  /\ Admitted(w) /\ disk[Pin(w)].git
  /\ LET p == Pin(w)
     IN /\ disk' = [disk EXCEPT ![p].head = upstream[p]]
        /\ gw' = [gw EXCEPT ![w].pc = "reset", ![w].got = upstream[p], ![w].cloning = TRUE]
  /\ UNCHANGED <<spec, upstream, entries, heap, rw, repoMu, rd, reported, restarts>>

\* A failed clone removes what it had put on disk.
CloneFails(w) ==
  /\ gw[w].pc = "cloneFetch"
  /\ Pin(w) \in Flaky \/ ~Admitted(w) \/ ~disk[Pin(w)].git
  /\ disk' = [disk EXCEPT ![Pin(w)] = Absent]
  /\ Goto(w, "failed")
  /\ UNCHANGED <<spec, upstream, entries, heap, rw, repoMu, rd, reported, restarts>>

\* The file is being rewritten: whoever opens it may see a part of each
\* version.  A file that already is as it should be is not touched.
ResetStart(w) ==
  /\ gw[w].pc = "reset"
  /\ disk[Pin(w)].tree \notin {gw[w].got, Torn}
  /\ disk' = [disk EXCEPT ![Pin(w)].tree = Torn]
  /\ UNCHANGED <<spec, upstream, entries, heap, rw, repoMu, gw, rd, reported, restarts>>

ResetEnd(w) ==
  /\ gw[w].pc = "reset"
  /\ disk[Pin(w)].tree \in {gw[w].got, Torn}
  /\ disk' = [disk EXCEPT ![Pin(w)].tree = gw[w].got]
  /\ Goto(w, "resolve")
  /\ UNCHANGED <<spec, upstream, entries, heap, rw, repoMu, rd, reported, restarts>>

\* The disk fills up or the objects are gone: an update falls back to wipe and
\* reclone, a clone fails.
ResetFails(w) ==
  /\ gw[w].pc = "reset"
  /\ Pin(w) \in Flaky \/ ~disk[Pin(w)].git
  /\ IF gw[w].cloning
     THEN /\ disk' = [disk EXCEPT ![Pin(w)] = Absent]
          /\ Goto(w, "failed")
     ELSE /\ Goto(w, "wipe")
          /\ UNCHANGED disk
  /\ UNCHANGED <<spec, upstream, entries, heap, rw, repoMu, rd, reported, restarts>>

\* resolveHead, and EnsureCloned returns: repoMutex is released first.
Resolve(w) ==
  /\ gw[w].pc = "resolve"
  /\ disk[Pin(w)].git
  /\ gw' = [gw EXCEPT ![w].pc = "record", ![w].got = disk[Pin(w)].head]
  /\ repoMu' = [repoMu EXCEPT ![Pin(w)] = None]
  /\ UNCHANGED <<spec, upstream, entries, heap, rw, disk, rd, reported, restarts>>

\* There is no HEAD to resolve: after an update the clone is tried, after a
\* clone the call fails and leaves the directory as it is.
ResolveFails(w) ==
  /\ gw[w].pc = "resolve"
  /\ ~disk[Pin(w)].git
  /\ Goto(w, IF gw[w].cloning THEN "failed" ELSE "wipe")
  /\ UNCHANGED <<spec, upstream, entries, heap, rw, repoMu, disk, rd, reported, restarts>>

\* The commit that EnsureCloned returned.
RecordedFault(w) == IF heap[gw[w].entry].sha = 0 THEN gw[w].got ELSE heap[gw[w].entry].sha
Recorded(w) == gw[w].got

\* e.commitSHA = sha, under e.rw, which the return releases; the controller
\* then reports the repository ready.
RecordSHA(w) ==
  /\ gw[w].pc = "record"
  /\ heap' = [heap EXCEPT ![gw[w].entry].sha = Recorded(w)]
  /\ rw' = [rw EXCEPT ![gw[w].entry] = WriteUnlocked(gw[w].entry)]
  /\ gw' = [gw EXCEPT ![w] = GitIdle]
  /\ reported' = [reported EXCEPT ![gw[w].key] = TRUE]
  /\ UNCHANGED <<spec, upstream, entries, repoMu, disk, rd, restarts>>

\* The error return: both locks go, commitSHA keeps its value.
EnsureFailed(w) ==
  /\ gw[w].pc = "failed"
  /\ repoMu' = [repoMu EXCEPT ![Pin(w)] = None]
  /\ rw' = [rw EXCEPT ![gw[w].entry] = WriteUnlocked(gw[w].entry)]
  /\ gw' = [gw EXCEPT ![w] = GitIdle]
  /\ UNCHANGED <<spec, upstream, entries, heap, disk, rd, reported, restarts>>

-----------------------------------------------------------------------------
(* Forget: on deletion of the GitRepository and on a force-sync.           *)

\* The map entry goes under r.mu ...
Forget(w, k) ==
  /\ gw[w].pc = "idle" /\ ~Serving(k)
  /\ entries[k] # None
  /\ entries' = [entries EXCEPT ![k] = None]
  /\ gw' = [gw EXCEPT ![w] = [GitIdle EXCEPT !.pc = "remove", !.key = k, !.entry = entries[k]]]
  /\ UNCHANGED <<spec, upstream, heap, rw, repoMu, disk, rd, reported, restarts>>

Removed(p) == Absent

\* ... and the directory after it, under no lock at all.
ForgetRemove(w) ==
  /\ gw[w].pc = "remove"
  /\ disk' = [disk EXCEPT ![Pin(w)] = Removed(Pin(w))]
  /\ gw' = [gw EXCEPT ![w] = GitIdle]
  /\ UNCHANGED <<spec, upstream, entries, heap, rw, repoMu, rd, reported, restarts>>

-----------------------------------------------------------------------------
(* Read, as a consumer worker runs it.  An error return is the end of the  *)
(* call: a missing entry leaves the reader idle.                           *)

\* A consumer calls Read when the status it has of the source says Ready.  That
\* status may be older than a failure or a spec edit, and survives a restart.
ReadLookup(r, k) ==
  /\ rd[r].pc = "idle"
  /\ reported[k]
  /\ entries[k] # None
  /\ rd' = [rd EXCEPT ![r] = [ReadIdle EXCEPT !.pc = "rlock", !.key = k, !.entry = entries[k]]]
  /\ UNCHANGED <<spec, upstream, entries, heap, rw, repoMu, disk, gw, reported, restarts>>

ReadLock(r) ==
  /\ rd[r].pc = "rlock"
  /\ ReadLockFree(rd[r].entry)
  /\ rw' = [rw EXCEPT ![rd[r].entry].readers = @ \cup {r}]
  /\ rd' = [rd EXCEPT ![r].pc = "readFile"]
  /\ UNCHANGED <<spec, upstream, entries, heap, repoMu, disk, gw, reported, restarts>>

\* os.ReadFile: the file as it is now, or an error that releases the lock.
ReadFile(r) ==
  /\ rd[r].pc = "readFile"
  /\ LET e == rd[r].entry
         file == disk[heap[e].pin].tree
     IN IF file = 0
        THEN /\ rd' = [rd EXCEPT ![r] = ReadIdle]
             /\ rw' = [rw EXCEPT ![e] = ReadUnlocked(e, r)]
        ELSE /\ rd' = [rd EXCEPT ![r].pc = "return", ![r].content = file]
             /\ UNCHANGED rw
  /\ UNCHANGED <<spec, upstream, entries, heap, repoMu, disk, gw, reported, restarts>>

\* return content, e.commitSHA
ReadReturn(r) ==
  /\ rd[r].pc = "return"
  /\ rd' = [rd EXCEPT ![r].pc = "done", ![r].sha = heap[rd[r].entry].sha]
  /\ rw' = [rw EXCEPT ![rd[r].entry] = ReadUnlocked(rd[r].entry, r)]
  /\ UNCHANGED <<spec, upstream, entries, heap, repoMu, disk, gw, reported, restarts>>

\* The consumer has used the result.
ReadDone(r) ==
  /\ rd[r].pc = "done"
  /\ rd' = [rd EXCEPT ![r] = ReadIdle]
  /\ UNCHANGED <<spec, upstream, entries, heap, rw, repoMu, disk, gw, reported, restarts>>

-----------------------------------------------------------------------------
(* The environment.                                                        *)

\* A commit is pushed to a branch.
Push(p) ==
  /\ p \notin RevisionPins
  /\ upstream[p] < MaxCommit
  /\ upstream' = [upstream EXCEPT ![p] = @ + 1]
  /\ UNCHANGED <<spec, entries, heap, rw, repoMu, disk, gw, rd, reported, restarts>>

\* spec.url, spec.branch or spec.revision is edited.
EditPin(k, p) ==
  /\ PinEdits
  /\ p \in PinsOf[k] \ {spec[k].pin}
  /\ spec' = [spec EXCEPT ![k].pin = p]
  /\ UNCHANGED <<upstream, entries, heap, rw, repoMu, disk, gw, rd, reported, restarts>>

\* The auth Secret gets other contents.
EditAuth(k, c) ==
  /\ c # spec[k].cred
  /\ spec' = [spec EXCEPT ![k].cred = c]
  /\ UNCHANGED <<upstream, entries, heap, rw, repoMu, disk, gw, rd, reported, restarts>>

\* The process dies anywhere and starts again: the cache directories are on a
\* volume that outlives the container, everything else was memory.
Restart ==
  /\ restarts < MaxRestarts
  /\ restarts' = restarts + 1
  /\ entries' = [k \in Repos |-> None]
  /\ rw' = [e \in EntryIds |-> Unlocked]
  /\ repoMu' = [p \in Pins |-> None]
  /\ gw' = [w \in GitWorkers |-> GitIdle]
  /\ rd' = [r \in Readers |-> ReadIdle]
  /\ heap' = NoStructs
  /\ UNCHANGED <<spec, upstream, disk, reported>>

-----------------------------------------------------------------------------

Init ==
  /\ spec \in {s \in [Repos -> Configs] : \A k \in Repos : s[k].pin \in PinsOf[k]}
  /\ upstream = [p \in Pins |-> 1]
  /\ entries = [k \in Repos |-> None]
  /\ heap = NoStructs
  /\ rw = [e \in EntryIds |-> Unlocked]
  /\ repoMu = [p \in Pins |-> None]
  /\ disk = [p \in Pins |-> Absent]
  /\ gw = [w \in GitWorkers |-> GitIdle]
  /\ rd = [r \in Readers |-> ReadIdle]
  /\ reported = [k \in Repos |-> FALSE]
  /\ restarts = 0

\* The rest of an EnsureCached or Forget call once it has begun.
GitStep(w) ==
  \/ Register(w) \/ LockEntry(w) \/ LockDir(w) \/ Stat(w)
  \/ Update(w) \/ UpdateFails(w) \/ Wipe(w)
  \/ CloneInit(w) \/ CloneFetch(w) \/ CloneFails(w)
  \/ ResetStart(w) \/ ResetEnd(w) \/ ResetFails(w)
  \/ Resolve(w) \/ ResolveFails(w) \/ RecordSHA(w) \/ EnsureFailed(w) \/ ForgetRemove(w)

\* The rest of a Read call once it has begun.
ReadStep(r) == ReadLock(r) \/ ReadFile(r) \/ ReadReturn(r) \/ ReadDone(r)

Next ==
  \/ \E w \in GitWorkers : GitStep(w)
  \/ \E w \in GitWorkers, k \in Repos : BeginEnsure(w, k) \/ Forget(w, k)
  \/ \E r \in Readers : ReadStep(r)
  \/ \E r \in Readers, k \in Repos : ReadLookup(r, k)
  \/ \E p \in Pins : Push(p)
  \/ \E k \in Repos, p \in Pins : EditPin(k, p)
  \/ \E k \in Repos, c \in Creds : EditAuth(k, c)
  \/ Restart

Spec == Init /\ [][Next]_vars

\* Goroutines run, Go's RWMutex lets neither side starve (a blocked Lock keeps
\* new readers out, an Unlock lets the waiting readers in), and the work queue
\* hands every key out again: a reconcile is requeued after spec.interval or
\* retryAfter.  Nothing is assumed of edits, pushes, Forget or restarts.
Fairness ==
  /\ \A w \in GitWorkers : WF_vars(GitStep(w)) /\ SF_vars(LockEntry(w)) /\ SF_vars(LockDir(w))
  /\ \A r \in Readers : WF_vars(ReadStep(r)) /\ SF_vars(ReadLock(r))
  /\ \A k \in Repos : SF_vars(\E w \in GitWorkers : BeginEnsure(w, k))

FairSpec == Spec /\ Fairness

-----------------------------------------------------------------------------
(* Properties.                                                             *)

\* Type correctness.
TypeOK ==
  /\ spec \in [Repos -> Configs]
  /\ upstream \in [Pins -> Commits]
  /\ entries \in [Repos -> EntryIds \cup {None}]
  /\ heap \in [EntryIds -> [pin : Pins, cred : Creds, sha : 0..MaxCommit]]
  /\ rw \in [EntryIds -> [writer : GitWorkers \cup {None}, readers : SUBSET Readers]]
  /\ repoMu \in [Pins -> GitWorkers \cup {None}]
  /\ disk \in [Pins -> Disks]
  /\ gw \in [GitWorkers -> [pc : GitPCs \cup {"idle"}, key : Repos \cup {None},
                             cfg : Configs \cup {None}, entry : EntryIds \cup {None},
                             got : 0..MaxCommit, cloning : BOOLEAN]]
  /\ rd \in [Readers -> [pc : ReadPCs \cup {"idle"}, key : Repos \cup {None},
                          entry : EntryIds \cup {None},
                          content : (0..MaxCommit) \cup {Torn}, sha : 0..MaxCommit]]
  /\ reported \in [Repos -> BOOLEAN]
  /\ restarts \in 0..MaxRestarts

\* What registry.go promises of Read (lines 5-8 and 88-89): updates and reads
\* interleave safely, and the SHA that comes with the bytes is the commit the
\* bytes are from.  Stated for a read whose entry is still the registered one
\* when it returns.
IsSnapshot(r) ==
  rd[r].pc = "done" /\ entries[rd[r].key] = rd[r].entry => rd[r].content = rd[r].sha

ReadIsSnapshot == \A r \in Readers : IsSnapshot(r)

\* No other GitRepository ever selects the URL, branch and revision of p.
Exclusive(k, p) == \A j \in Repos \ {k} : p \notin PinsOf[j]

\* The promise where it is kept: for a repository that has its directory to
\* itself, whatever the others share, through failed fetches, force-syncs and
\* spec edits.
ExclusiveReadIsSnapshot ==
  \A r \in Readers :
    rd[r].pc = "done" /\ Exclusive(rd[r].key, heap[rd[r].entry].pin) => IsSnapshot(r)

\* A reader is never told a commit newer than the bytes it was given, whoever
\* shares its directory and whatever replaced its entry: a consumer that
\* records the SHA as synced has at least that commit's content.
CommitNotAheadOfContent ==
  \A r \in Readers :
    rd[r].pc = "done" => rd[r].content = Torn \/ rd[r].content >= rd[r].sha

\* repoMutex: two clones, pulls or wipes by git operations never run in one
\* cache directory at the same time, also when two GitRepositories have the
\* same URL, branch and revision and so two entries with a lock each.
OneGitOperationPerDir ==
  \A v, w \in GitWorkers : v # w /\ InDir(v) /\ InDir(w) => Pin(v) # Pin(w)

\* A clone on disk always belongs to a registered entry or to a call that is
\* about to remove it: spec edits, failed fetches and Forget leave no
\* directory behind on the cache volume.
NoLeakedClone ==
  \A p \in Pins : disk[p] # Absent =>
    \/ \E k \in Repos : entries[k] # None /\ heap[entries[k]].pin = p
    \/ \E w \in GitWorkers : gw[w].pc = "remove" /\ Pin(w) = p

\* No reader waits for ever on a lock of the registry.
EveryReadReturns == \A r \in Readers : rd[r].pc # "idle" ~> rd[r].pc = "idle"

\* No reconcile waits for ever on a lock of the registry.
EveryGitCallReturns == \A w \in GitWorkers : gw[w].pc # "idle" ~> gw[w].pc = "idle"

Synced(k) == IF entries[k] = None THEN 0 ELSE heap[entries[k]].sha

\* What EnsureCloned says it ensures (git.go:126-127): the cache of a repository
\* that stays pinned to a revision comes to hold that commit, and goes on doing
\* so, wherever in a clone or a checkout the process was killed.
PinnedCachePopulated ==
  \A k \in Repos :
    <>[](spec[k].pin \in RevisionPins) =>
      []<>(Synced(k) # 0 /\ disk[heap[entries[k]].pin].tree = Synced(k))

\* A commit pushed upstream is eventually what the cache of a repository whose
\* spec and credential stay valid was last synced to.
PushReachesCache ==
  \A k \in Repos, c \in Commits :
    <>[](upstream[spec[k].pin] >= c /\ spec[k].cred \in Accepted) => []<>(Synced(k) >= c)
=============================================================================
