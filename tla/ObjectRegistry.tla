---------------------------- MODULE ObjectRegistry ----------------------------
(***************************************************************************)
(* The object half of the source cache for one ObjectSource:               *)
(* internal/source/object_entry.go over internal/object/fetcher.go, driven *)
(* by the ObjectSource controller and read by the consumer controllers.    *)
(*                                                                         *)
(* An ObjectSource points at a target.  A URL target is one file, which    *)
(* the controller keeps in memory and refreshes with a conditional GET.  A *)
(* bucket target is only probed: every consumer read goes to the bucket,   *)
(* with the client that the controller left in the entry.                  *)
(*                                                                         *)
(* The object at a target is its version there; [target, ver] are bytes.   *)
(* ETags are what the servers choose: two versions, or the objects of two  *)
(* targets, may have the same one, and a server may send none.             *)
(***************************************************************************)
EXTENDS Naturals, FiniteSets

CONSTANTS
  Targets,      \* what spec.url or spec.bucket may name
  Bucket,       \* the targets that are buckets; the others are URLs
  EtagOf,       \* EtagOf[t][v]: the ETag of version v at target t
  NoEtag,       \* the ETag of a server that sends none
  Creds,        \* contents the auth Secret may have
  Accepted,     \* the contents the servers accept
  Unusable,     \* the contents without the keys that spec.auth.type asks for
  Flaky,        \* the targets where a request may fail for reasons of its own
  EntryIds,     \* addresses of objectEntry structs
  Readers,      \* workers of the consumer controllers
  MaxVersion,   \* bound on the versions published per target
  MaxMoving,    \* bound on the targets that get a new version
  MaxEdits,     \* bound on edits of the ObjectSource and its auth Secret, and restarts
  None          \* no entry, no target

Versions == 1..MaxVersion

ASSUME ObjectAssumption ==
  /\ Bucket \subseteq Targets
  /\ Accepted \subseteq Creds \ Unusable
  /\ Flaky \subseteq Targets
  /\ DOMAIN EtagOf = Targets
  /\ \A t \in Targets : DOMAIN EtagOf[t] = Versions
  /\ MaxVersion \in Nat \ {0}
  /\ MaxEdits \in Nat
  /\ MaxMoving \in Nat
  /\ None \notin EntryIds \cup Targets
  /\ IsFiniteSet(EntryIds) /\ IsFiniteSet(Readers)
  /\ Cardinality(EntryIds) >= Cardinality(Readers) + 2

VARIABLES
  os,         \* the ObjectSource at the API server
  cached,     \* the informer's copy of it, which every Get reads
  auth,       \* content of the auth Secret
  origin,     \* origin[t]: the newest version at t
  requested,  \* origin when the current force-sync token was annotated
  current,    \* Registry.objects: the address of the entry, or None
  heap,       \* the objectEntry structs
  rw,         \* e.rw: [writer, readers]
  wk,         \* the ObjectSource worker's pass in progress
  rd,         \* the consumers' reads in progress
  edits       \* edits and restarts so far

vars == <<os, cached, auth, origin, requested, current, heap, rw, wk, rd, edits>>

Etags == {NoEtag} \cup {EtagOf[t][v] : t \in Targets, v \in Versions}
Bytes == [target : Targets \cup {None}, ver : 0..MaxVersion]
Empty == [target |-> None, ver |-> 0]
Fetchers == [target : Targets, cred : Creds]

\* Status: ready is the SourceReady condition and CacheReady, which are always
\* set together; synced is no field of the status but the bytes it was written for.
NoStatus == [ready |-> FALSE, etag |-> NoEtag, token |-> 0,
             observed |-> 0, synced |-> Empty]

\* gen stands for the UID and metadata.generation: no two specs share one.
NewObject(t, gen) == [exists |-> TRUE, target |-> t, gen |-> gen, token |-> 0, status |-> NoStatus]

Idle == [pc |-> "idle", view |-> None, fetcher |-> None, entry |-> None,
         etag |-> NoEtag, body |-> Empty]
WorkerPCs == {"forget", "register", "lock", "request", "storeContent", "ready", "failed"}
ReadIdle == [pc |-> "idle", entry |-> None, floor |-> Empty, etag |-> NoEtag, tagged |-> Empty,
             content |-> Empty]
ReadPCs == {"rlock", "first", "second", "done"}

-----------------------------------------------------------------------------
(* Entries and servers.                                                    *)

Mode(t) == IF t \in Bucket THEN "bucket" ELSE "url"

\* Nobody can reach the struct: the garbage collector takes it (in Begin, which
\* comes again and again), and an allocation may have its address.
Garbage(e) == current # e /\ wk.entry # e /\ \A r \in Readers : rd[r].entry # e

Fresh(mode) == [mode |-> mode, fetcher |-> None, etag |-> NoEtag, content |-> Empty]
NoStructs == [e \in EntryIds |-> Fresh("url")]
Collected == [e \in EntryIds |-> IF Garbage(e) THEN Fresh("url") ELSE heap[e]]
Address == CHOOSE e \in EntryIds : Garbage(e)
Unlocked == [writer |-> FALSE, readers |-> {}]

\* !ok || e.mode != mode: another URL, or another bucket, keeps the entry.
NeedsNewEntryFault(mode) == current = None
NeedsNewEntry(mode) == current = None \/ heap[current].mode # mode

WriteLockFree(e) == ~rw[e].writer /\ rw[e].readers = {}
ReadLockFreeFault(e) == e \in EntryIds
ReadLockFree(e) == ~rw[e].writer
WriteUnlocked(e) == [rw[e] EXCEPT !.writer = FALSE]
ReadUnlocked(e, r) == [rw[e] EXCEPT !.readers = @ \ {r}]

\* The two HTTP clients: a request is let in, or fails.
Admitted(f) == f.cred \in Accepted
MayFail(f) == f.target \in Flaky \/ ~Admitted(f)

\* The server honours If-None-Match; the header is sent for an ETag only.
NotModified(t, ifNoneMatch) == ifNoneMatch # NoEtag /\ ifNoneMatch = EtagOf[t][origin[t]]

-----------------------------------------------------------------------------
(* One pass of the ObjectSource controller.  The work queue gives the only *)
(* key to one worker at a time.                                            *)

Goto(pc) == wk' = [wk EXCEPT !.pc = pc]

\* A token the status has not recorded: drop the entry first.
ForceSyncFault(view) == FALSE
ForceSync(view) == view.token # 0 /\ view.token # view.status.token

\* Get: an ObjectSource that is gone, or being deleted, is forgotten.
Begin ==
  /\ wk.pc = "idle"
  /\ IF cached.exists
     THEN /\ wk' = [Idle EXCEPT !.pc = IF ForceSync(cached) THEN "forget" ELSE "register",
                                !.view = cached]
          /\ UNCHANGED current
     ELSE current' = None /\ UNCHANGED wk
  /\ heap' = Collected
  /\ UNCHANGED <<os, cached, auth, origin, requested, rw, rd, edits>>

ForgetObject ==
  /\ wk.pc = "forget"
  /\ current' = None
  /\ Goto("register")
  /\ UNCHANGED <<os, cached, auth, origin, requested, heap, rw, rd, edits>>

\* buildFetcher finds that the auth Secret lacks the keys it needs; a spec that
\* fails the oneOf check of url and bucket ends the pass the same way.
BuildFails ==
  /\ wk.pc = "register"
  /\ auth \in Unusable
  /\ Goto("failed")
  /\ UNCHANGED <<os, cached, auth, origin, requested, current, heap, rw, rd, edits>>

\* buildFetcher takes the auth Secret as it is now; then the section of
\* EnsureObjectCached under r.mu.
Register ==
  /\ wk.pc = "register"
  /\ auth \notin Unusable
  /\ LET mode == Mode(wk.view.target)
         call == [wk EXCEPT !.pc = "lock", !.fetcher = [target |-> wk.view.target, cred |-> auth]]
     IN IF NeedsNewEntry(mode)
        THEN LET e == Address
             IN /\ current' = e
                /\ heap' = [heap EXCEPT ![e] = Fresh(mode)]
                /\ wk' = [call EXCEPT !.entry = e]
        ELSE /\ wk' = [call EXCEPT !.entry = current]
             /\ UNCHANGED <<current, heap>>
  /\ UNCHANGED <<os, cached, auth, origin, requested, rw, rd, edits>>

\* e.fetcher = fetcher, whatever the entry held.
FetcherFault(e) == IF heap[e].fetcher = None THEN wk.fetcher ELSE heap[e].fetcher
Fetcher(e) == wk.fetcher

LockEntry ==
  /\ wk.pc = "lock"
  /\ WriteLockFree(wk.entry)
  /\ rw' = [rw EXCEPT ![wk.entry].writer = TRUE]
  /\ heap' = [heap EXCEPT ![wk.entry].fetcher = Fetcher(wk.entry)]
  /\ wk' = [wk EXCEPT !.pc = "request", !.fetcher = None]
  /\ UNCHANGED <<os, cached, auth, origin, requested, current, rd, edits>>

Unlock == rw' = [rw EXCEPT ![wk.entry] = WriteUnlocked(wk.entry)]

\* A bucket is probed and nothing is kept of it.
Probe ==
  /\ wk.pc = "request"
  /\ LET f == heap[wk.entry].fetcher
     IN f.target \in Bucket /\ Admitted(f)
  /\ Goto("ready")
  /\ Unlock
  /\ UNCHANGED <<os, cached, auth, origin, requested, current, heap, rd, edits>>

\* GET with If-None-Match: 304 keeps what the entry holds, 200 brings both, the
\* ETag being stored first.
Get ==
  /\ wk.pc = "request"
  /\ LET e == heap[wk.entry]
         t == e.fetcher.target
         etag == EtagOf[t][origin[t]]
     IN /\ t \notin Bucket /\ Admitted(e.fetcher)
        /\ IF NotModified(t, e.etag)
           THEN /\ wk' = [wk EXCEPT !.pc = "ready", !.etag = e.etag, !.body = e.content]
                /\ Unlock
                /\ UNCHANGED heap
           ELSE /\ wk' = [wk EXCEPT !.pc = "storeContent", !.etag = etag,
                                    !.body = [target |-> t, ver |-> origin[t]]]
                /\ heap' = [heap EXCEPT ![wk.entry].etag = etag]
                /\ UNCHANGED rw
  /\ UNCHANGED <<os, cached, auth, origin, requested, current, rd, edits>>

\* The error return: the new fetcher stays, ETag and content too.
RequestFails ==
  /\ wk.pc = "request"
  /\ MayFail(heap[wk.entry].fetcher)
  /\ Goto("failed")
  /\ Unlock
  /\ UNCHANGED <<os, cached, auth, origin, requested, current, heap, rd, edits>>

\* e.content = body
StoredFault(e) == IF heap[e].content = Empty THEN wk.body ELSE heap[e].content
Stored(e) == wk.body

StoreContent ==
  /\ wk.pc = "storeContent"
  /\ heap' = [heap EXCEPT ![wk.entry].content = Stored(wk.entry)]
  /\ Goto("ready")
  /\ Unlock
  /\ UNCHANGED <<os, cached, auth, origin, requested, current, rd, edits>>

\* The status as the pass leaves it, from the copy the pass began with.  A
\* failure records neither the token nor the generation.
Reported ==
  IF wk.pc = "ready"
  THEN [ready |-> TRUE, etag |-> wk.etag, token |-> wk.view.token,
        observed |-> wk.view.gen, synced |-> wk.body]
  ELSE [wk.view.status EXCEPT !.ready = FALSE]

\* Status().Update: a conflict unless the ObjectSource is still as it was read;
\* either way the key comes back, after the interval or a backoff.
Report ==
  /\ wk.pc \in {"ready", "failed"}
  /\ os' = IF wk.view = os THEN [os EXCEPT !.status = Reported] ELSE os
  /\ wk' = Idle
  /\ UNCHANGED <<cached, auth, origin, requested, current, heap, rw, rd, edits>>

-----------------------------------------------------------------------------
(* ReadObject, as a consumer worker runs it.                               *)

\* The consumer has seen the source ready in the informer's copy; the lookup
\* under r.mu finds an entry, or the read is over.  floor is what the status at
\* the API server says is cached.
ReadLookup(r) ==
  /\ rd[r].pc = "idle"
  /\ cached.exists /\ cached.status.ready
  /\ current # None
  /\ rd' = [rd EXCEPT ![r] = [ReadIdle EXCEPT !.pc = "rlock", !.entry = current,
                                !.floor = IF os.exists /\ os.status.ready /\ heap[current].mode = "url"
                                          THEN os.status.synced ELSE Empty]]
  /\ UNCHANGED <<os, cached, auth, origin, requested, current, heap, rw, wk, edits>>

\* URL mode: the content and its ETag, or the error of an entry never filled.
\* Nothing that RLock lets in comes between RLock and RUnlock.
ReadCopy(r) ==
  /\ rd[r].pc = "rlock"
  /\ LET e == heap[rd[r].entry]
     IN /\ e.mode = "url"
        /\ ReadLockFree(rd[r].entry)
        /\ rd' = [rd EXCEPT ![r] =
                    IF e.content = Empty THEN ReadIdle
                    ELSE [@ EXCEPT !.pc = "done", !.entry = None, !.etag = e.etag,
                                   !.content = e.content]]
  /\ UNCHANGED <<os, cached, auth, origin, requested, current, heap, rw, wk, edits>>

\* Bucket mode: RLock is held while the requests are under way.
ReadLock(r) ==
  /\ rd[r].pc = "rlock"
  /\ LET e == rd[r].entry
     IN /\ heap[e].mode = "bucket"
        /\ ReadLockFree(e)
        /\ rw' = [rw EXCEPT ![e].readers = @ \cup {r}]
        /\ rd' = [rd EXCEPT ![r].pc = "first"]
  /\ UNCHANGED <<os, cached, auth, origin, requested, current, heap, wk, edits>>

\* S3Fetcher.Fetch asks for the object's ETag first, then for the object.
AnswerFault(r, found) ==
  IF rd[r].pc = "second"
  THEN [rd[r] EXCEPT !.etag = EtagOf[found.target][found.ver], !.tagged = found]
  ELSE [rd[r] EXCEPT !.content = found]
Answer(r, found) ==
  IF rd[r].pc = "first"
  THEN [rd[r] EXCEPT !.etag = EtagOf[found.target][found.ver], !.tagged = found]
  ELSE [rd[r] EXCEPT !.content = found]

ReadRequest(r) ==
  /\ rd[r].pc \in {"first", "second"}
  /\ LET e == rd[r].entry
         f == heap[e].fetcher
     IN /\ f # None
        /\ Admitted(f)
        /\ LET got == Answer(r, [target |-> f.target, ver |-> origin[f.target]])
           IN IF rd[r].pc = "first"
              THEN /\ rd' = [rd EXCEPT ![r] = [got EXCEPT !.pc = "second"]]
                   /\ UNCHANGED rw
              ELSE /\ rd' = [rd EXCEPT ![r] = [got EXCEPT !.pc = "done", !.entry = None]]
                   /\ rw' = [rw EXCEPT ![e] = ReadUnlocked(e, r)]
  /\ UNCHANGED <<os, cached, auth, origin, requested, current, heap, wk, edits>>

\* The entry has no fetcher yet, or a request fails.
ReadFails(r) ==
  /\ rd[r].pc \in {"first", "second"}
  /\ LET f == heap[rd[r].entry].fetcher
     IN IF f = None THEN TRUE ELSE MayFail(f)
  /\ rd' = [rd EXCEPT ![r] = ReadIdle]
  /\ rw' = [rw EXCEPT ![rd[r].entry] = ReadUnlocked(rd[r].entry, r)]
  /\ UNCHANGED <<os, cached, auth, origin, requested, current, heap, wk, edits>>

\* The consumer has used the result.
ReadDone(r) ==
  /\ rd[r].pc = "done"
  /\ rd' = [rd EXCEPT ![r] = ReadIdle]
  /\ UNCHANGED <<os, cached, auth, origin, requested, current, heap, rw, wk, edits>>

-----------------------------------------------------------------------------
(* The environment.                                                        *)

Edit == edits < MaxEdits /\ edits' = edits + 1

\* spec.url or spec.bucket is edited.
EditTarget(t) ==
  /\ Edit
  /\ os.exists /\ t # os.target
  /\ os' = [os EXCEPT !.target = t, !.gen = @ + 1]
  /\ UNCHANGED <<cached, auth, origin, requested, current, heap, rw, wk, rd>>

\* The reconcile-requested annotation gets a value it never had.
Annotate ==
  /\ Edit
  /\ os.exists
  /\ os' = [os EXCEPT !.token = @ + 1]
  /\ requested' = origin
  /\ UNCHANGED <<cached, auth, origin, current, heap, rw, wk, rd>>

\* Deleted; ObjectSources have no finalizer of the operator's.
Delete ==
  /\ Edit
  /\ os.exists
  /\ os' = [os EXCEPT !.exists = FALSE]
  /\ UNCHANGED <<cached, auth, origin, requested, current, heap, rw, wk, rd>>

Create(t) ==
  /\ Edit
  /\ ~os.exists
  /\ os' = NewObject(t, os.gen + 1)
  /\ UNCHANGED <<cached, auth, origin, requested, current, heap, rw, wk, rd>>

EditAuth(c) ==
  /\ Edit
  /\ c # auth
  /\ auth' = c
  /\ UNCHANGED <<os, cached, origin, requested, current, heap, rw, wk, rd>>

Publish(t) ==
  /\ origin[t] < MaxVersion
  /\ Cardinality({u \in Targets : u = t \/ origin[u] > 1}) <= MaxMoving
  /\ origin' = [origin EXCEPT ![t] = @ + 1]
  /\ UNCHANGED <<os, cached, auth, requested, current, heap, rw, wk, rd, edits>>

\* A watch event arrives; several changes may arrive as one.
InformerSync ==
  /\ cached # os
  /\ cached' = os
  /\ UNCHANGED <<os, auth, origin, requested, current, heap, rw, wk, rd, edits>>

\* The registry is memory; the informer lists afresh before workers start.
Restart ==
  /\ Edit
  /\ cached' = os
  /\ current' = None
  /\ heap' = NoStructs
  /\ rw' = [e \in EntryIds |-> Unlocked]
  /\ wk' = Idle
  /\ rd' = [r \in Readers |-> ReadIdle]
  /\ UNCHANGED <<os, auth, origin, requested>>

-----------------------------------------------------------------------------

Init ==
  /\ \E t \in Targets : os = NewObject(t, 1)
  /\ cached = os
  /\ auth \in Creds
  /\ origin = [t \in Targets |-> 1]
  /\ requested = origin
  /\ current = None
  /\ heap = NoStructs
  /\ rw = [e \in EntryIds |-> Unlocked]
  /\ wk = Idle
  /\ rd = [r \in Readers |-> ReadIdle]
  /\ edits = 0

WorkerStep ==
  \/ Begin \/ ForgetObject \/ BuildFails \/ Register \/ LockEntry
  \/ Probe \/ Get \/ RequestFails \/ StoreContent \/ Report

\* The rest of a read once it has begun.
ReadStep(r) ==
  \/ ReadLock(r) \/ ReadCopy(r)
  \/ ReadRequest(r) \/ ReadFails(r) \/ ReadDone(r)

Next ==
  \/ WorkerStep
  \/ \E r \in Readers : ReadLookup(r) \/ ReadStep(r)
  \/ \E t \in Targets : EditTarget(t) \/ Create(t) \/ Publish(t)
  \/ \E c \in Creds : EditAuth(c)
  \/ Annotate \/ Delete \/ InformerSync \/ Restart

Spec == Init /\ [][Next]_vars

\* Goroutines run, requests end (HTTP timeouts), Go's RWMutex starves neither
\* side, watch events arrive, and the key comes back after every pass.
Fairness ==
  /\ WF_vars(WorkerStep) /\ SF_vars(LockEntry)
  /\ \A r \in Readers : WF_vars(ReadStep(r)) /\ SF_vars(ReadCopy(r) \/ ReadLock(r))
  /\ WF_vars(InformerSync)

FairSpec == Spec /\ Fairness

-----------------------------------------------------------------------------
(* Properties.                                                             *)

Statuses == [ready : BOOLEAN, etag : Etags, token : 0..MaxEdits,
             observed : Nat, synced : Bytes]
Objects == [exists : BOOLEAN, target : Targets, gen : Nat \ {0}, token : 0..MaxEdits,
            status : Statuses]

\* Type correctness; the client of an entry is one for the entry's mode.
TypeOK ==
  /\ os \in Objects /\ cached \in Objects
  /\ auth \in Creds
  /\ origin \in [Targets -> Versions] /\ requested \in [Targets -> Versions]
  /\ current \in EntryIds \cup {None}
  /\ heap \in [EntryIds -> [mode : {"url", "bucket"}, fetcher : Fetchers \cup {None},
                            etag : Etags, content : Bytes]]
  /\ \A e \in EntryIds : heap[e].fetcher # None => heap[e].mode = Mode(heap[e].fetcher.target)
  /\ rw \in [EntryIds -> [writer : BOOLEAN, readers : SUBSET Readers]]
  /\ wk \in [pc : WorkerPCs \cup {"idle"}, view : Objects \cup {None},
             fetcher : Fetchers \cup {None}, entry : EntryIds \cup {None},
             etag : Etags, body : Bytes]
  /\ rd \in [Readers -> [pc : ReadPCs \cup {"idle"}, entry : EntryIds \cup {None},
                          floor : Bytes, etag : Etags, tagged : Bytes, content : Bytes]]
  /\ edits \in 0..MaxEdits

\* A read that returns bytes from the entry, or from the bucket itself.
Done(r, mode) == rd[r].pc = "done" /\ mode = IF rd[r].tagged = Empty THEN "url" ELSE "bucket"

\* What ReadObject promises (object_entry.go:103-106) for a URL: the ETag that a
\* consumer records as its source-commit is the one the server sent with the
\* bytes it was given, also while the controller stores a newer response.
ReadIsOneResponse ==
  \A r \in Readers :
    Done(r, "url") => rd[r].etag = EtagOf[rd[r].content.target][rd[r].content.ver]

\* A bucket read is two requests (fetcher.go:175 and 184), between which the
\* object may be replaced: the ETag is then older than the bytes, never newer,
\* so a consumer never claims a version it has not applied.
ETagNotAheadOfBytes ==
  \A r \in Readers :
    Done(r, "bucket") => /\ rd[r].tagged.target = rd[r].content.target
                         /\ rd[r].tagged.ver <= rd[r].content.ver

\* README, force-sync: the controller "drops the local cache and re-fetches
\* upstream regardless of commit/ETag".  Once the status records the token, the
\* bytes it stands for were at the origin when the token was annotated or came
\* later, also from a server whose ETag does not change with the content.
ForceSyncRefetches ==
  LET s == os.status
  IN os.exists /\ os.token # 0 /\ s.token = os.token /\ s.synced # Empty =>
       s.synced.ver >= requested[s.synced.target]

\* No version at t has the ETag of the file at another URL.
TellsApart(t) ==
  \A u \in Targets \ (Bucket \cup {t}), v, w \in Versions :
    EtagOf[t][v] # NoEtag => EtagOf[t][v] # EtagOf[u][w]

\* Ready at the current generation means that the cached bytes come from the URL
\* the spec names now, although an edit of spec.url keeps the entry with its old
\* ETag and content -- unless the new server happens to use the old one's ETag.
ObservedMeansFetched ==
  LET s == os.status
  IN os.exists /\ s.ready /\ s.observed = os.gen /\ os.target \notin Bucket /\ TellsApart(os.target)
       => s.synced.target = os.target

\* A consumer that sees the source ready is never handed bytes older than those
\* the status was written for, over force-syncs, failed fetches and restarts.
ReadNotBehindStatus ==
  \A r \in Readers :
    Done(r, "url") /\ rd[r].floor.target = rd[r].content.target
      => rd[r].content.ver >= rd[r].floor.ver

\* The ETags of t change with the content.
Honest(t) ==
  \A v, w \in Versions : v # w /\ EtagOf[t][v] # NoEtag => EtagOf[t][v] # EtagOf[t][w]

\* What is published at the URL of a source that stays as it is, with a
\* credential the server accepts, reaches the cache and stays there: a rotated
\* credential is used without a new entry, because every pass brings its own
\* fetcher, and no read keeps the lock from the controller.
OriginReachesCache ==
  \A t \in {t \in Targets \ (Bucket \cup Flaky) : Honest(t) /\ TellsApart(t)}, v \in Versions :
    <>[](os.exists /\ os.target = t /\ auth \in Accepted /\ origin[t] >= v) =>
      <>[](/\ current # None
           /\ heap[current].content.target = t
           /\ heap[current].content.ver >= v)
===============================================================================
