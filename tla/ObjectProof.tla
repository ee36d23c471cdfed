------------------------------ MODULE ObjectProof ------------------------------
(***************************************************************************)
(* What ReadObject returns, for any number of targets, versions, ETags,    *)
(* credentials, consumer workers and edits.                                *)
(*                                                                         *)
(* For a URL the ETag and the content of an entry belong together except   *)
(* between the two assignments of a fetch, and the invariant says that     *)
(* e.rw is held for writing there, so no reader copies them.  For a bucket *)
(* the two requests of a read go to one target because the reader holds    *)
(* e.rw, without which no pass can put another fetcher in; the entry is no *)
(* garbage meanwhile, also when it has been replaced or forgotten.         *)
(*                                                                         *)
(* The second half is about time: what the status, the cache and the reads *)
(* hold, compared with the origin when the status was written, when a read *)
(* began, and when a sync was requested.                                   *)
(***************************************************************************)
EXTENDS ObjectRegistry, FiniteSetTheorems, FunctionTheorems, TLAPS

WorkerInv ==
  /\ os.token <= edits
  /\ wk.pc # "idle" => wk.view \in Objects
  /\ wk.pc \in {"idle", "forget", "register"} => wk.entry = None
  /\ wk.pc \in {"lock", "request", "storeContent"} => wk.entry \in EntryIds
  /\ wk.pc = "lock" =>
       wk.fetcher \in Fetchers /\ heap[wk.entry].mode = Mode(wk.fetcher.target)
  /\ wk.pc \in {"request", "storeContent"} =>
       rw[wk.entry].writer /\ heap[wk.entry].fetcher \in Fetchers

\* The ETag that came with bytes.
Etag(bytes) == EtagOf[bytes.target][bytes.ver]

\* ETag and content belong together, but for the moment between their assignments.
PairInv ==
  /\ wk.pc = "storeContent" => wk.etag = Etag(wk.body) /\ heap[wk.entry].etag = wk.etag
  /\ \A e \in EntryIds :
       heap[e].content # Empty /\ ~(wk.pc = "storeContent" /\ wk.entry = e) =>
         heap[e].etag = Etag(heap[e].content)

\* A read between its two requests.
HalfRead(r) ==
  LET f == heap[rd[r].entry].fetcher
      tagged == rd[r].tagged
  IN /\ f \in Fetchers /\ tagged.target = f.target
     /\ tagged.ver \in Versions /\ tagged.ver <= origin[f.target]

ReaderInv ==
  \A r \in Readers :
    /\ rd[r].pc \in {"rlock", "first", "second"} => rd[r].entry \in EntryIds
    /\ rd[r].pc = "rlock" => rd[r].tagged = Empty
    /\ rd[r].pc \in {"first", "second"} => r \in rw[rd[r].entry].readers
    /\ rd[r].pc = "second" => HalfRead(r)

Reads == ReadIsOneResponse /\ ETagNotAheadOfBytes

IInv == TypeOK /\ WorkerInv /\ PairInv /\ ReaderInv /\ Reads

-----------------------------------------------------------------------------
(* Lemmas about the helpers.                                               *)

LEMMA Constants ==
  /\ Empty \in Bytes /\ NoEtag \in Etags
  /\ \A t \in Targets : Mode(t) \in {"url", "bucket"}
  /\ \A t \in Targets, v \in Versions :
       /\ EtagOf[t][v] \in Etags
       /\ [target |-> t, ver |-> v] \in Bytes
       /\ [target |-> t, ver |-> v] # Empty
       /\ Etag([target |-> t, ver |-> v]) = EtagOf[t][v]
BY ObjectAssumption DEF Empty, Bytes, Etags, Mode, Versions, Etag

\* There is always an address for a new entry: the old one, and what readers hold,
\* are fewer than there are.
LEMMA FreeAddress ==
  ASSUME wk.entry = None
  PROVE  Address \in EntryIds /\ Garbage(Address)
<1> DEFINE held == {rd[r].entry : r \in Readers}
           f == [r \in Readers |-> rd[r].entry]
<1>1. f \in Surjection(Readers, held)
  BY DEF Surjection
<1>2. IsFiniteSet(held) /\ Cardinality(held) <= Cardinality(Readers)
  BY <1>1, FS_Surjection, ObjectAssumption
<1>r. \A r \in Readers : rd[r].entry \in held
  OBVIOUS
<1> HIDE DEF held
<1>3. IsFiniteSet(held \cup {current}) /\ Cardinality(held \cup {current}) <= Cardinality(held) + 1
  <2>1. Cardinality(held) \in Nat
    BY <1>2, FS_CardinalityType
  <2>2. /\ IsFiniteSet(held \cup {current})
        /\ \/ Cardinality(held \cup {current}) = Cardinality(held)
           \/ Cardinality(held \cup {current}) = Cardinality(held) + 1
    BY <1>2, FS_AddElement, Zenon
  <2> QED
    BY <2>1, <2>2
<1>4. ~(EntryIds \subseteq held \cup {current})
  <2> SUFFICES ASSUME EntryIds \subseteq held \cup {current} PROVE FALSE
    OBVIOUS
  <2>1. Cardinality(EntryIds) <= Cardinality(held \cup {current})
    BY <1>3, FS_Subset
  <2> QED
    BY <1>2, <1>3, <2>1, ObjectAssumption, FS_CardinalityType
<1>5. \E e \in EntryIds : Garbage(e)
  <2>1. PICK e \in EntryIds : e \notin held /\ e # current
    BY <1>4
  <2>2. e # None
    BY ObjectAssumption
  <2>3. \A r \in Readers : rd[r].entry # e
    BY <2>1, <1>r
  <2> QED
    BY <2>1, <2>2, <2>3 DEF Garbage
<1> QED
  BY <1>5 DEF Address

-----------------------------------------------------------------------------
(* The structs, their locks and the worker's record, field by field.       *)

Structs == [mode : {"url", "bucket"}, fetcher : Fetchers \cup {None},
            etag : Etags, content : Bytes]
Heaps == [EntryIds -> Structs]
Locks == [EntryIds -> [writer : BOOLEAN, readers : SUBSET Readers]]
Passes == [pc : WorkerPCs \cup {"idle"}, view : Objects \cup {None},
           fetcher : Fetchers \cup {None}, entry : EntryIds \cup {None},
           etag : Etags, body : Bytes]

LEMMA Types == TypeOK => heap \in Heaps /\ rw \in Locks /\ wk \in Passes
BY DEF TypeOK, Heaps, Structs, Locks, Passes

LEMMA PassRecord ==
  ASSUME NEW w \in Passes
  PROVE  w = [pc |-> w.pc, view |-> w.view, fetcher |-> w.fetcher, entry |-> w.entry,
              etag |-> w.etag, body |-> w.body]
BY DEF Passes

LEMMA StructRecord ==
  ASSUME heap \in Heaps, NEW e \in EntryIds
  PROVE  /\ heap[e] = [mode |-> heap[e].mode, fetcher |-> heap[e].fetcher, etag |-> heap[e].etag,
                    content |-> heap[e].content]
         /\ heap[e].mode \in {"url", "bucket"} /\ heap[e].fetcher \in Fetchers \cup {None}
         /\ heap[e].etag \in Etags /\ heap[e].content \in Bytes
BY DEF Heaps, Structs

\* One field of one struct is assigned, or the writer of one lock.
FetcherSet(e, x) == heap' = [heap EXCEPT ![e].fetcher = x]

LEMMA FetcherUpdate ==
  ASSUME heap \in Heaps, NEW e \in EntryIds, NEW x \in Fetchers, FetcherSet(e, x)
  PROVE  /\ heap' \in Heaps
         /\ \A d \in EntryIds :
              /\ heap'[d].mode = heap[d].mode /\ heap'[d].etag = heap[d].etag
              /\ heap'[d].content = heap[d].content
              /\ heap'[d].fetcher = IF d = e THEN x ELSE heap[d].fetcher
<1> DEFINE s == [mode |-> heap[e].mode, fetcher |-> x, etag |-> heap[e].etag, content |-> heap[e].content]
<1>1. heap[e] = [mode |-> heap[e].mode, fetcher |-> heap[e].fetcher, etag |-> heap[e].etag,
                 content |-> heap[e].content]
  BY StructRecord
<1>2. ASSUME NEW y, y = [heap[e] EXCEPT !.fetcher = x] PROVE y = s
  BY <1>1, <1>2, Zenon
<1>3. heap' = [heap EXCEPT ![e] = s]
  BY <1>2 DEF FetcherSet
<1>4. s \in Structs
  BY StructRecord DEF Structs
<1>5. /\ s.mode = heap[e].mode /\ s.etag = heap[e].etag
      /\ s.content = heap[e].content /\ s.fetcher = x
  OBVIOUS
<1> HIDE DEF s
<1>6. heap' \in Heaps /\ heap'[e] = s /\ \A d \in EntryIds \ {e} : heap'[d] = heap[d]
  BY <1>3, <1>4 DEF Heaps
<1> QED
  BY <1>5, <1>6

EtagSet(e, x) == heap' = [heap EXCEPT ![e].etag = x]

LEMMA EtagUpdate ==
  ASSUME heap \in Heaps, NEW e \in EntryIds, NEW x \in Etags, EtagSet(e, x)
  PROVE  /\ heap' \in Heaps
         /\ \A d \in EntryIds :
              /\ heap'[d].mode = heap[d].mode /\ heap'[d].fetcher = heap[d].fetcher
              /\ heap'[d].content = heap[d].content
              /\ heap'[d].etag = IF d = e THEN x ELSE heap[d].etag
<1> DEFINE s == [mode |-> heap[e].mode, fetcher |-> heap[e].fetcher, etag |-> x, content |-> heap[e].content]
<1>1. heap[e] = [mode |-> heap[e].mode, fetcher |-> heap[e].fetcher, etag |-> heap[e].etag,
                 content |-> heap[e].content]
  BY StructRecord
<1>2. ASSUME NEW y, y = [heap[e] EXCEPT !.etag = x] PROVE y = s
  BY <1>1, <1>2, Zenon
<1>3. heap' = [heap EXCEPT ![e] = s]
  BY <1>2 DEF EtagSet
<1>4. s \in Structs
  BY StructRecord DEF Structs
<1>5. /\ s.mode = heap[e].mode /\ s.fetcher = heap[e].fetcher
      /\ s.content = heap[e].content /\ s.etag = x
  OBVIOUS
<1> HIDE DEF s
<1>6. heap' \in Heaps /\ heap'[e] = s /\ \A d \in EntryIds \ {e} : heap'[d] = heap[d]
  BY <1>3, <1>4 DEF Heaps
<1> QED
  BY <1>5, <1>6

ContentSet(e, x) == heap' = [heap EXCEPT ![e].content = x]

LEMMA ContentUpdate ==
  ASSUME heap \in Heaps, NEW e \in EntryIds, NEW x \in Bytes, ContentSet(e, x)
  PROVE  /\ heap' \in Heaps
         /\ \A d \in EntryIds :
              /\ heap'[d].mode = heap[d].mode /\ heap'[d].fetcher = heap[d].fetcher
              /\ heap'[d].etag = heap[d].etag
              /\ heap'[d].content = IF d = e THEN x ELSE heap[d].content
<1> DEFINE s == [mode |-> heap[e].mode, fetcher |-> heap[e].fetcher, etag |-> heap[e].etag, content |-> x]
<1>1. heap[e] = [mode |-> heap[e].mode, fetcher |-> heap[e].fetcher, etag |-> heap[e].etag,
                 content |-> heap[e].content]
  BY StructRecord
<1>2. ASSUME NEW y, y = [heap[e] EXCEPT !.content = x] PROVE y = s
  BY <1>1, <1>2, Zenon
<1>3. heap' = [heap EXCEPT ![e] = s]
  BY <1>2 DEF ContentSet
<1>4. s \in Structs
  BY StructRecord DEF Structs
<1>5. /\ s.mode = heap[e].mode /\ s.fetcher = heap[e].fetcher
      /\ s.etag = heap[e].etag /\ s.content = x
  OBVIOUS
<1> HIDE DEF s
<1>6. heap' \in Heaps /\ heap'[e] = s /\ \A d \in EntryIds \ {e} : heap'[d] = heap[d]
  BY <1>3, <1>4 DEF Heaps
<1> QED
  BY <1>5, <1>6

WriterSet(e, x) == rw' = [rw EXCEPT ![e] = [rw[e] EXCEPT !.writer = x]]

LEMMA WriterUpdate ==
  ASSUME rw \in Locks, NEW e \in EntryIds, NEW x \in BOOLEAN, WriterSet(e, x)
  PROVE  /\ rw' \in Locks /\ rw'[e].writer = x
         /\ \A d \in EntryIds : rw'[d].readers = rw[d].readers
         /\ \A d \in EntryIds \ {e} : rw'[d] = rw[d]
<1> DEFINE s == [writer |-> x, readers |-> rw[e].readers]
<1>1. rw[e] = [writer |-> rw[e].writer, readers |-> rw[e].readers]
  BY DEF Locks
<1>2. ASSUME NEW y, y = [rw[e] EXCEPT !.writer = x] PROVE y = s
  BY <1>1, <1>2, Zenon
<1>3. /\ s \in [writer : BOOLEAN, readers : SUBSET Readers]
      /\ s.writer = x /\ s.readers = rw[e].readers
  BY DEF Locks
<1> HIDE DEF s
<1>4. rw' = [rw EXCEPT ![e] = s]
  BY <1>2 DEF WriterSet
<1>5. rw' \in Locks /\ rw'[e] = s /\ \A d \in EntryIds \ {e} : rw'[d] = rw[d]
  BY <1>3, <1>4 DEF Locks
<1> QED
  BY <1>3, <1>5

-----------------------------------------------------------------------------

LEMMA InitInv == Init => IInv
<1> SUFFICES ASSUME Init PROVE IInv
  OBVIOUS
<1>1. os \in Objects /\ cached = os /\ os.token = 0
  <2>1. PICK t \in Targets : os = NewObject(t, 1)
    BY DEF Init
  <2> QED
    BY <2>1, Constants, ObjectAssumption DEF Init, NewObject, NoStatus, Objects, Statuses
<1>2. origin \in [Targets -> Versions] /\ requested = origin
  BY ObjectAssumption DEF Init, Versions
<1>3. TypeOK
  BY <1>1, <1>2, Constants, ObjectAssumption
     DEF Init, TypeOK, NoStructs, Fresh, Unlocked, Idle, ReadIdle
<1>4. WorkerInv /\ PairInv /\ ReaderInv /\ Reads
  BY <1>1 DEF Init, WorkerInv, PairInv, ReaderInv, Reads, ReadIsOneResponse,
              ETagNotAheadOfBytes, Done, Idle, ReadIdle, NoStructs, Fresh, Unlocked
<1> QED
  BY <1>3, <1>4 DEF IInv

\* Steps of users and informers.
LEMMA OutsideInv ==
  ASSUME IInv, os' \in Objects, cached' \in Objects, auth' \in Creds,
         requested' \in [Targets -> Versions], origin' \in [Targets -> Versions],
         \A t \in Targets : origin[t] <= origin'[t],
         edits' \in 0..MaxEdits, os'.token <= edits',
         UNCHANGED <<current, heap, rw, wk, rd>>
  PROVE  IInv'
<1>1. TypeOK'
  BY DEF IInv, TypeOK
<1>2. WorkerInv' /\ PairInv' /\ Reads'
  BY DEF IInv, WorkerInv, PairInv, Reads, ReadIsOneResponse, ETagNotAheadOfBytes, Done
<1>3. ReaderInv'
  <2>1. ASSUME NEW r \in Readers, rd[r].pc = "second" PROVE HalfRead(r)'
    <3> DEFINE t == heap[rd[r].entry].fetcher.target
    <3>1. HalfRead(r)
      BY <2>1 DEF IInv, ReaderInv
    <3>2. t \in Targets /\ origin[t] \in Versions /\ origin'[t] \in Versions /\ origin[t] <= origin'[t]
      BY <3>1 DEF HalfRead, Fetchers, IInv, TypeOK
    <3> QED
      BY <3>1, <3>2, ObjectAssumption DEF HalfRead, Versions
  <2> QED
    BY <2>1 DEF IInv, ReaderInv
<1> QED
  BY <1>1, <1>2, <1>3 DEF IInv

LEMMA EditBound ==
  ASSUME edits \in 0..MaxEdits, Edit
  PROVE  edits' = edits + 1 /\ edits' \in 0..MaxEdits
BY ObjectAssumption DEF Edit

LEMMA EnvironmentInv ==
  ASSUME IInv,
         \/ \E t \in Targets : EditTarget(t) \/ Create(t) \/ Publish(t)
         \/ \E c \in Creds : EditAuth(c)
         \/ Annotate \/ Delete \/ InformerSync
  PROVE  IInv'
<1> USE DEF IInv, TypeOK, WorkerInv
<1>0. \A t \in Targets : origin[t] \in Versions /\ origin[t] <= origin[t]
  BY ObjectAssumption DEF Versions
<1>1. ASSUME NEW t \in Targets, EditTarget(t) PROVE IInv'
  <2>0. edits' = edits + 1 /\ edits' \in 0..MaxEdits
    BY <1>1, EditBound DEF EditTarget
  <2>1. os' \in Objects /\ os'.token = os.token
    <3>1. os' = [exists |-> os.exists, target |-> t, gen |-> os.gen + 1, token |-> os.token,
                 status |-> os.status]
      BY <1>1 DEF EditTarget, Objects
    <3> QED
      BY <3>1 DEF Objects
  <2>2. os'.token <= edits'
    BY <2>0, <2>1 DEF Objects
  <2> QED
    BY <1>0, <1>1, <2>0, <2>1, <2>2, OutsideInv DEF EditTarget
<1>2. ASSUME NEW t \in Targets, Create(t) PROVE IInv'
  <2>1. os' \in Objects /\ os'.token = 0 /\ edits' = edits + 1 /\ edits' \in 0..MaxEdits
    BY <1>2, Constants, ObjectAssumption DEF Create, Edit, Objects, Statuses, NewObject, NoStatus
  <2>2. os'.token <= edits'
    BY <2>1
  <2> QED
    BY <1>0, <1>2, <2>1, <2>2, OutsideInv DEF Create
<1>3. ASSUME NEW t \in Targets, Publish(t) PROVE IInv'
  <2>1. /\ origin' \in [Targets -> Versions]
        /\ \A u \in Targets : origin[u] <= origin'[u]
    BY <1>3, ObjectAssumption DEF Publish, Versions
  <2> QED
    BY <1>3, <2>1, OutsideInv DEF Publish
<1>4. ASSUME NEW c \in Creds, EditAuth(c) PROVE IInv'
  <2>1. edits' \in 0..MaxEdits /\ os.token <= edits'
    BY <1>4, ObjectAssumption DEF EditAuth, Edit, Objects
  <2> QED
    BY <1>0, <1>4, <2>1, OutsideInv DEF EditAuth
<1>5. ASSUME Annotate PROVE IInv'
  <2>1. edits' = edits + 1 /\ edits' \in 0..MaxEdits
    BY <1>5, ObjectAssumption DEF Annotate, Edit
  <2>2. os' \in Objects /\ os'.token = os.token + 1
    <3>1. os' = [exists |-> os.exists, target |-> os.target, gen |-> os.gen,
                 token |-> os.token + 1, status |-> os.status]
      BY <1>5 DEF Annotate, Objects
    <3>2. os.token + 1 \in 0..MaxEdits
      BY <2>1, ObjectAssumption DEF Objects
    <3> QED
      BY <3>1, <3>2 DEF Objects
  <2>3. os'.token <= edits'
    BY <2>1, <2>2 DEF Objects
  <2> QED
    BY <1>0, <1>5, <2>1, <2>2, <2>3, OutsideInv DEF Annotate
<1>6. ASSUME Delete PROVE IInv'
  <2>1. edits' = edits + 1 /\ edits' \in 0..MaxEdits
    BY <1>6, ObjectAssumption DEF Delete, Edit
  <2>2. os' \in Objects /\ os'.token = os.token
    <3>1. os' = [exists |-> FALSE, target |-> os.target, gen |-> os.gen, token |-> os.token,
                 status |-> os.status]
      BY <1>6 DEF Delete, Objects
    <3> QED
      BY <3>1 DEF Objects
  <2>3. os'.token <= edits'
    BY <2>1, <2>2 DEF Objects
  <2> QED
    BY <1>0, <1>6, <2>1, <2>2, <2>3, OutsideInv DEF Delete
<1>7. ASSUME InformerSync PROVE IInv'
  BY <1>0, <1>7, OutsideInv DEF InformerSync
<1> QED
  BY <1>1, <1>2, <1>3, <1>4, <1>5, <1>6, <1>7

LEMMA RestartInv == ASSUME IInv, Restart PROVE IInv'
<1>1. edits' \in 0..MaxEdits /\ os.token <= edits'
  BY ObjectAssumption DEF IInv, TypeOK, WorkerInv, Restart, Edit, Objects
<1>2. TypeOK'
  BY <1>1, Constants DEF Restart, IInv, TypeOK, NoStructs, Fresh, Unlocked, Idle, ReadIdle
<1>3. WorkerInv' /\ PairInv' /\ ReaderInv' /\ Reads'
  BY <1>1 DEF Restart, WorkerInv, PairInv, ReaderInv, Reads, ReadIsOneResponse,
              ETagNotAheadOfBytes, Done, Idle, ReadIdle, NoStructs, Fresh, Unlocked
<1> QED
  BY <1>2, <1>3 DEF IInv

-----------------------------------------------------------------------------
(* The pass of the ObjectSource controller.  Every lemma takes the parts   *)
(* of the invariant in turn.                                               *)

\* A step that leaves the structs, their locks and the reads alone.
LEMMA ReadersUntouched ==
  ASSUME IInv, UNCHANGED <<origin, heap, rw, rd>>
  PROVE  ReaderInv' /\ Reads'
BY DEF IInv, ReaderInv, HalfRead, Reads, ReadIsOneResponse, ETagNotAheadOfBytes, Done

LEMMA BeginShape ==
  ASSUME IInv, Begin
  PROVE  /\ wk.pc = "idle"
         /\ \A e \in EntryIds : heap'[e] = heap[e] \/ (Garbage(e) /\ heap'[e] = Fresh("url"))
         /\ \A r \in Readers : rd[r].entry \in EntryIds => heap'[rd[r].entry] = heap[rd[r].entry]
         /\ \/ wk' = wk /\ current' = None
            \/ \E pc \in {"forget", "register"} :
                 /\ wk' = [pc |-> pc, view |-> cached, fetcher |-> None, entry |-> None,
                           etag |-> NoEtag, body |-> Empty]
                 /\ cached.exists /\ (ForceSync(cached) => pc = "forget")
                 /\ current' = current /\ (current # None => heap'[current] = heap[current])
<1>1. \A e \in EntryIds : heap'[e] = heap[e] \/ (Garbage(e) /\ heap'[e] = Fresh("url"))
  BY DEF Begin, Collected
<1>2. \A r \in Readers : rd[r].entry \in EntryIds => heap'[rd[r].entry] = heap[rd[r].entry]
  BY <1>1 DEF Garbage
<1>3. current # None => heap'[current] = heap[current]
  BY <1>1 DEF Garbage, IInv, TypeOK
<1>4. CASE ~cached.exists
  BY <1>1, <1>2, <1>4 DEF Begin
<1>5. CASE cached.exists
  <2> DEFINE pc == IF ForceSync(cached) THEN "forget" ELSE "register"
  <2>1. wk' = [Idle EXCEPT !.pc = pc, !.view = cached] /\ current' = current /\ wk.pc = "idle"
    BY <1>5 DEF Begin
  <2>2. pc \in {"forget", "register"} /\ (ForceSync(cached) => pc = "forget")
    OBVIOUS
  <2> HIDE DEF pc
  <2>3. ASSUME NEW y, y = [Idle EXCEPT !.pc = pc, !.view = cached]
        PROVE  y = [pc |-> pc, view |-> cached, fetcher |-> None, entry |-> None,
                    etag |-> NoEtag, body |-> Empty]
    <3>1. Idle = [pc |-> "idle", view |-> None, fetcher |-> None, entry |-> None,
                  etag |-> NoEtag, body |-> Empty]
      BY Zenon DEF Idle
    <3> QED
      BY <2>3, <3>1, Zenon
  <2> QED
    BY <1>1, <1>2, <1>3, <1>5, <2>1, <2>2, <2>3
<1> QED
  BY <1>4, <1>5

LEMMA BeginInv == ASSUME IInv, Begin PROVE IInv'
<1>1. \A e \in EntryIds : heap'[e] = heap[e] \/ (Garbage(e) /\ heap'[e] = Fresh("url"))
  BY BeginShape
<1>2. \A r \in Readers : rd[r].entry \in EntryIds => heap'[rd[r].entry] = heap[rd[r].entry]
  BY BeginShape
<1>w. \/ wk' = wk /\ wk.pc = "idle"
      \/ \E pc \in {"forget", "register"} :
           wk' = [pc |-> pc, view |-> cached, fetcher |-> None, entry |-> None,
                  etag |-> NoEtag, body |-> Empty]
  BY BeginShape
<1>4. TypeOK'
  <2>1. wk' \in [pc : WorkerPCs \cup {"idle"}, view : Objects \cup {None},
                 fetcher : Fetchers \cup {None}, entry : EntryIds \cup {None},
                 etag : Etags, body : Bytes]
    BY <1>w, Constants DEF IInv, TypeOK, WorkerPCs
  <2>2. heap' \in [EntryIds -> [mode : {"url", "bucket"}, fetcher : Fetchers \cup {None},
                                etag : Etags, content : Bytes]]
    BY Constants DEF IInv, TypeOK, Begin, Collected, Fresh
  <2>3. \A e \in EntryIds : heap'[e].fetcher # None => heap'[e].mode = Mode(heap'[e].fetcher.target)
    BY <1>1 DEF IInv, TypeOK, Fresh
  <2>4. current' \in EntryIds \cup {None}
    BY DEF IInv, TypeOK, Begin
  <2> QED
    BY <2>1, <2>2, <2>3, <2>4 DEF IInv, TypeOK, Begin
<1>5. WorkerInv'
  BY <1>w DEF IInv, WorkerInv, TypeOK, Begin
<1>6. PairInv'
  <2>1. wk'.pc # "storeContent"
    BY <1>w
  <2>2. ASSUME NEW e \in EntryIds, heap'[e].content # Empty
        PROVE  heap'[e].etag = Etag(heap'[e].content)
    BY <1>1, <2>2 DEF IInv, PairInv, Fresh, Begin
  <2> QED
    BY <2>1, <2>2 DEF PairInv, Etag
<1>7. ReaderInv' /\ Reads'
  BY <1>2 DEF IInv, ReaderInv, HalfRead, Reads, ReadIsOneResponse, ETagNotAheadOfBytes, Done, Begin
<1> QED
  BY <1>4, <1>5, <1>6, <1>7 DEF IInv

LEMMA ForgetObjectInv == ASSUME IInv, ForgetObject PROVE IInv'
<1>1. TypeOK'
  BY DEF IInv, TypeOK, ForgetObject, Goto, WorkerPCs
<1>2. WorkerInv' /\ PairInv'
  BY DEF IInv, TypeOK, WorkerInv, PairInv, ForgetObject, Goto
<1> QED
  BY <1>1, <1>2, ReadersUntouched DEF IInv, ForgetObject

LEMMA BuildFailsInv == ASSUME IInv, BuildFails PROVE IInv'
<1>1. TypeOK'
  BY DEF IInv, TypeOK, BuildFails, Goto, WorkerPCs
<1>2. WorkerInv' /\ PairInv'
  BY DEF IInv, TypeOK, WorkerInv, PairInv, BuildFails, Goto
<1> QED
  BY <1>1, <1>2, ReadersUntouched DEF IInv, BuildFails

LEMMA RegisterShape ==
  ASSUME IInv, Register
  PROVE  \E e \in EntryIds :
           /\ wk' = [pc |-> "lock", view |-> wk.view,
                     fetcher |-> [target |-> wk.view.target, cred |-> auth], entry |-> e,
                     etag |-> wk.etag, body |-> wk.body]
           /\ current' = e
           /\ \/ heap' = heap /\ heap[e].mode = Mode(wk.view.target) /\ current = e
              \/ Garbage(e) /\ heap' = [heap EXCEPT ![e] = Fresh(Mode(wk.view.target))]
<1> DEFINE mode == Mode(wk.view.target)
           f == [target |-> wk.view.target, cred |-> auth]
<1>1. wk.pc = "register" /\ wk.entry = None
  BY DEF Register, IInv, WorkerInv
<1>2. wk = [pc |-> wk.pc, view |-> wk.view, fetcher |-> wk.fetcher, entry |-> wk.entry,
            etag |-> wk.etag, body |-> wk.body]
  BY DEF IInv, TypeOK
<1>3. CASE NeedsNewEntry(mode)
  <2>1. Address \in EntryIds /\ Garbage(Address)
    BY <1>1, FreeAddress
  <2>2. /\ current' = Address /\ heap' = [heap EXCEPT ![Address] = Fresh(mode)]
        /\ wk' = [[wk EXCEPT !.pc = "lock", !.fetcher = f] EXCEPT !.entry = Address]
    BY <1>3 DEF Register
  <2>3. wk' = [pc |-> "lock", view |-> wk.view, fetcher |-> f, entry |-> Address,
               etag |-> wk.etag, body |-> wk.body]
    BY <1>2, <2>2, Zenon
  <2> QED
    BY <2>1, <2>2, <2>3
<1>4. CASE ~NeedsNewEntry(mode)
  <2>1. current \in EntryIds /\ heap[current].mode = mode
    BY <1>4 DEF NeedsNewEntry, IInv, TypeOK
  <2>2. /\ current' = current /\ heap' = heap
        /\ wk' = [[wk EXCEPT !.pc = "lock", !.fetcher = f] EXCEPT !.entry = current]
    BY <1>4 DEF Register
  <2>3. wk' = [pc |-> "lock", view |-> wk.view, fetcher |-> f, entry |-> current,
               etag |-> wk.etag, body |-> wk.body]
    BY <1>2, <2>2, Zenon
  <2> QED
    BY <2>1, <2>2, <2>3
<1> QED
  BY <1>3, <1>4

LEMMA RegisterInv == ASSUME IInv, Register PROVE IInv'
<1> DEFINE mode == Mode(wk.view.target)
           f == [target |-> wk.view.target, cred |-> auth]
<1>1. wk.pc = "register" /\ wk.entry = None /\ wk.view \in Objects
  BY DEF Register, IInv, WorkerInv
<1>2. f \in Fetchers /\ mode \in {"url", "bucket"}
  BY <1>1, Constants DEF IInv, TypeOK, Objects, Fetchers
<1>3. PICK e \in EntryIds :
        /\ wk' = [pc |-> "lock", view |-> wk.view, fetcher |-> f, entry |-> e,
                  etag |-> wk.etag, body |-> wk.body]
        /\ current' = e
        /\ \/ heap' = heap /\ heap[e].mode = mode
           \/ Garbage(e) /\ heap' = [heap EXCEPT ![e] = Fresh(mode)]
  BY RegisterShape
<1> HIDE DEF f, mode
<1>4. \A d \in EntryIds : heap'[d] = heap[d] \/ (d = e /\ heap'[d] = Fresh(mode))
  BY <1>3 DEF IInv, TypeOK
<1>5. heap'[e].mode = mode
  BY <1>3 DEF IInv, TypeOK, Fresh
<1>6. \A r \in Readers : rd[r].entry \in EntryIds => heap'[rd[r].entry] = heap[rd[r].entry]
  BY <1>3 DEF Garbage, IInv, TypeOK
<1>7. TypeOK'
  <2>1. wk' \in [pc : WorkerPCs \cup {"idle"}, view : Objects \cup {None},
                 fetcher : Fetchers \cup {None}, entry : EntryIds \cup {None},
                 etag : Etags, body : Bytes]
    BY <1>1, <1>2, <1>3 DEF IInv, TypeOK, WorkerPCs
  <2>2. heap' \in [EntryIds -> [mode : {"url", "bucket"}, fetcher : Fetchers \cup {None},
                                etag : Etags, content : Bytes]]
    BY <1>2, <1>3, Constants DEF IInv, TypeOK, Fresh
  <2>3. \A d \in EntryIds : heap'[d].fetcher # None => heap'[d].mode = Mode(heap'[d].fetcher.target)
    BY <1>4 DEF IInv, TypeOK, Fresh
  <2> QED
    BY <1>3, <2>1, <2>2, <2>3 DEF IInv, TypeOK, Register
<1>8. WorkerInv'
  BY <1>1, <1>2, <1>3, <1>5 DEF IInv, WorkerInv, Register, f, mode
<1>9. PairInv'
  <2>1. ASSUME NEW d \in EntryIds, heap'[d].content # Empty
        PROVE  heap'[d].etag = Etag(heap'[d].content)
    BY <1>1, <1>4, <2>1 DEF IInv, PairInv, Fresh
  <2> QED
    BY <1>3, <2>1 DEF PairInv, Etag
<1>10. ReaderInv' /\ Reads'
  BY <1>6 DEF IInv, ReaderInv, HalfRead, Reads, ReadIsOneResponse, ETagNotAheadOfBytes, Done, Register
<1> QED
  BY <1>7, <1>8, <1>9, <1>10 DEF IInv

\* Nobody reads under e.rw when the new fetcher goes in.
LEMMA LockEntryShape ==
  ASSUME IInv, LockEntry
  PROVE  /\ wk.pc = "lock" /\ wk.entry \in EntryIds /\ wk.fetcher \in Fetchers
         /\ heap[wk.entry].mode = Mode(wk.fetcher.target)
         /\ rw[wk.entry].readers = {}
         /\ wk' = [pc |-> "request", view |-> wk.view, fetcher |-> None, entry |-> wk.entry,
                   etag |-> wk.etag, body |-> wk.body]
         /\ heap' \in Heaps /\ rw' \in Locks
         /\ \A e \in EntryIds :
              /\ heap'[e].mode = heap[e].mode /\ heap'[e].etag = heap[e].etag
              /\ heap'[e].content = heap[e].content
              /\ heap'[e].fetcher = IF e = wk.entry THEN wk.fetcher ELSE heap[e].fetcher
              /\ rw'[e].readers = rw[e].readers
              /\ rw'[e].writer = IF e = wk.entry THEN TRUE ELSE rw[e].writer
<1>1. /\ wk.pc = "lock" /\ wk.entry \in EntryIds /\ wk.fetcher \in Fetchers
      /\ heap[wk.entry].mode = Mode(wk.fetcher.target)
      /\ rw[wk.entry].readers = {}
  BY DEF LockEntry, WriteLockFree, IInv, WorkerInv
<1>2. wk' = [pc |-> "request", view |-> wk.view, fetcher |-> None, entry |-> wk.entry,
             etag |-> wk.etag, body |-> wk.body]
  <2>1. wk = [pc |-> wk.pc, view |-> wk.view, fetcher |-> wk.fetcher, entry |-> wk.entry,
              etag |-> wk.etag, body |-> wk.body]
    BY DEF IInv, TypeOK
  <2>2. wk' = [wk EXCEPT !.pc = "request", !.fetcher = None]
    BY DEF LockEntry
  <2> QED
    BY <2>1, <2>2, Zenon
<1>3. heap' \in Heaps /\ rw' \in Locks /\ \A e \in EntryIds :
        /\ heap'[e].mode = heap[e].mode /\ heap'[e].etag = heap[e].etag
        /\ heap'[e].content = heap[e].content
        /\ heap'[e].fetcher = IF e = wk.entry THEN wk.fetcher ELSE heap[e].fetcher
        /\ rw'[e].readers = rw[e].readers
        /\ rw'[e].writer = IF e = wk.entry THEN TRUE ELSE rw[e].writer
  <2>1. heap \in Heaps /\ rw \in Locks
    BY Types DEF IInv
  <2>2. FetcherSet(wk.entry, wk.fetcher)
    BY DEF LockEntry, Fetcher, FetcherSet
  <2>3. WriterSet(wk.entry, TRUE)
    BY DEF LockEntry, WriterSet
  <2>4. heap' \in Heaps /\ \A e \in EntryIds :
          /\ heap'[e].mode = heap[e].mode /\ heap'[e].etag = heap[e].etag
          /\ heap'[e].content = heap[e].content
          /\ heap'[e].fetcher = IF e = wk.entry THEN wk.fetcher ELSE heap[e].fetcher
    BY <1>1, <2>1, <2>2, FetcherUpdate
  <2>5. /\ rw' \in Locks /\ rw'[wk.entry].writer = TRUE
        /\ \A e \in EntryIds : rw'[e].readers = rw[e].readers
        /\ \A e \in EntryIds \ {wk.entry} : rw'[e] = rw[e]
    BY <1>1, <2>1, <2>3, WriterUpdate
  <2> QED
    BY <2>4, <2>5
<1> QED
  BY <1>1, <1>2, <1>3

LEMMA LockEntryInv == ASSUME IInv, LockEntry PROVE IInv'
<1>1. /\ wk.pc = "lock" /\ wk.entry \in EntryIds /\ wk.fetcher \in Fetchers
      /\ heap[wk.entry].mode = Mode(wk.fetcher.target)
      /\ rw[wk.entry].readers = {}
  BY LockEntryShape
<1>2. wk' = [pc |-> "request", view |-> wk.view, fetcher |-> None, entry |-> wk.entry,
             etag |-> wk.etag, body |-> wk.body]
  BY LockEntryShape
<1>3. heap' \in Heaps /\ rw' \in Locks /\ \A e \in EntryIds :
        /\ heap'[e].mode = heap[e].mode /\ heap'[e].etag = heap[e].etag
        /\ heap'[e].content = heap[e].content
        /\ heap'[e].fetcher = IF e = wk.entry THEN wk.fetcher ELSE heap[e].fetcher
        /\ rw'[e].readers = rw[e].readers
        /\ rw'[e].writer = IF e = wk.entry THEN TRUE ELSE rw[e].writer
  BY LockEntryShape
<1>4. TypeOK'
  <2>1. wk' \in [pc : WorkerPCs \cup {"idle"}, view : Objects \cup {None},
                 fetcher : Fetchers \cup {None}, entry : EntryIds \cup {None},
                 etag : Etags, body : Bytes]
    BY <1>2 DEF IInv, TypeOK, WorkerPCs
  <2>2. heap' \in [EntryIds -> [mode : {"url", "bucket"}, fetcher : Fetchers \cup {None},
                                etag : Etags, content : Bytes]]
    BY <1>3 DEF Heaps, Structs
  <2>3. \A d \in EntryIds : heap'[d].fetcher # None => heap'[d].mode = Mode(heap'[d].fetcher.target)
    <3> SUFFICES ASSUME NEW d \in EntryIds, heap'[d].fetcher # None
                 PROVE  heap'[d].mode = Mode(heap'[d].fetcher.target)
      OBVIOUS
    <3>1. CASE d = wk.entry
      BY <1>1, <1>3, <3>1
    <3>2. CASE d # wk.entry
      <4>1. heap[d].fetcher # None => heap[d].mode = Mode(heap[d].fetcher.target)
        BY DEF IInv, TypeOK
      <4> QED
        BY <1>3, <3>2, <4>1
    <3> QED
      BY <3>1, <3>2
  <2>4. rw' \in [EntryIds -> [writer : BOOLEAN, readers : SUBSET Readers]]
    BY <1>3 DEF Locks
  <2> QED
    BY <2>1, <2>2, <2>3, <2>4 DEF IInv, TypeOK, LockEntry
<1>5. WorkerInv'
  <2>1. os.token <= edits /\ wk.view \in Objects
    BY <1>1 DEF IInv, WorkerInv
  <2>2. rw'[wk.entry].writer /\ heap'[wk.entry].fetcher \in Fetchers
    BY <1>1, <1>3
  <2>3. UNCHANGED <<os, edits>>
    BY DEF LockEntry
  <2> QED
    BY <1>1, <1>2, <2>1, <2>2, <2>3 DEF WorkerInv
<1>6. PairInv'
  <2>1. \A b : Etag(b)' = Etag(b)
    BY DEF Etag
  <2>2. \A e \in EntryIds : heap[e].content # Empty => heap[e].etag = Etag(heap[e].content)
    BY <1>1 DEF IInv, PairInv
  <2>3. wk'.pc = "request"
    BY <1>2
  <2>4. \A e \in EntryIds : heap'[e].etag = heap[e].etag /\ heap'[e].content = heap[e].content
    BY <1>3
  <2> QED
    BY <2>1, <2>2, <2>3, <2>4 DEF PairInv
<1>7. ReaderInv'
  <2>1. ASSUME NEW r \in Readers, rd[r].pc \in {"first", "second"} PROVE rd[r].entry # wk.entry
    BY <1>1, <2>1 DEF IInv, ReaderInv
  <2>2. ASSUME NEW r \in Readers, rd[r].pc = "second" PROVE HalfRead(r)'
    <3>1. HalfRead(r) /\ rd[r].entry \in EntryIds
      BY <2>2 DEF IInv, ReaderInv
    <3>2. heap'[rd[r].entry].fetcher = heap[rd[r].entry].fetcher
      BY <1>3, <2>1, <2>2, <3>1
    <3> QED
      BY <3>1, <3>2 DEF HalfRead, LockEntry
  <2> QED
    BY <1>3, <2>2 DEF IInv, ReaderInv, LockEntry
<1>8. Reads'
  BY DEF IInv, Reads, ReadIsOneResponse, ETagNotAheadOfBytes, Done, LockEntry
<1> QED
  BY <1>4, <1>5, <1>6, <1>7, <1>8 DEF IInv

\* The step gives the write lock back, or keeps it, and fetchers stay.
LEMMA UnlockInv ==
  ASSUME IInv, wk.entry \in EntryIds, Unlock \/ rw' = rw
  PROVE  /\ rw' \in [EntryIds -> [writer : BOOLEAN, readers : SUBSET Readers]]
         /\ \A e \in EntryIds : rw'[e].readers = rw[e].readers
<1>1. rw \in [EntryIds -> [writer : BOOLEAN, readers : SUBSET Readers]]
  BY DEF IInv, TypeOK
<1>2. CASE rw' = rw
  BY <1>1, <1>2
<1>3. CASE Unlock
  <2>1. WriterSet(wk.entry, FALSE)
    BY <1>3 DEF Unlock, WriteUnlocked, WriterSet
  <2>2. rw' \in Locks /\ \A e \in EntryIds : rw'[e].readers = rw[e].readers
    BY <1>1, <2>1, WriterUpdate DEF Locks
  <2> QED
    BY <2>2 DEF Locks
<1> QED
  BY <1>2, <1>3

LEMMA ReadersKept ==
  ASSUME IInv, wk.entry \in EntryIds, Unlock \/ rw' = rw, UNCHANGED <<origin, rd>>,
         \A e \in EntryIds : heap'[e].fetcher = heap[e].fetcher
  PROVE  ReaderInv' /\ Reads'
<1>1. ReaderInv'
  <2>1. ASSUME NEW r \in Readers, rd[r].pc = "second" PROVE HalfRead(r)'
    <3>1. HalfRead(r) /\ rd[r].entry \in EntryIds
      BY <2>1 DEF IInv, ReaderInv
    <3> QED
      BY <3>1 DEF HalfRead
  <2>2. \A e \in EntryIds : rw'[e].readers = rw[e].readers
    BY UnlockInv
  <2>3. \A r \in Readers :
          /\ rd[r].pc \in {"rlock", "first", "second"} => rd[r].entry \in EntryIds
          /\ rd[r].pc = "rlock" => rd[r].tagged = Empty
          /\ rd[r].pc \in {"first", "second"} => r \in rw[rd[r].entry].readers
    BY DEF IInv, ReaderInv
  <2> QED
    BY <2>1, <2>2, <2>3 DEF ReaderInv
<1> QED
  BY <1>1 DEF IInv, Reads, ReadIsOneResponse, ETagNotAheadOfBytes, Done

LEMMA ProbeOrFailureInv == ASSUME IInv, Probe \/ RequestFails PROVE IInv'
<1>1. /\ wk.pc = "request" /\ wk.entry \in EntryIds
      /\ \E pc \in {"ready", "failed"} : wk' = [wk EXCEPT !.pc = pc]
      /\ Unlock
      /\ UNCHANGED <<os, cached, auth, origin, requested, current, heap, rd, edits>>
  BY DEF Probe, RequestFails, Goto, IInv, WorkerInv
<1>2. TypeOK'
  BY <1>1, UnlockInv DEF IInv, TypeOK, WorkerPCs
<1>3. WorkerInv' /\ PairInv'
  BY <1>1 DEF IInv, TypeOK, WorkerInv, PairInv
<1> QED
  BY <1>1, <1>2, <1>3, ReadersKept DEF IInv

\* The target of the request under way, and what is there.
Asked == heap[wk.entry].fetcher.target
Found == [target |-> Asked, ver |-> origin[Asked]]

LEMMA GetShape ==
  ASSUME IInv, Get
  PROVE  /\ wk.pc = "request" /\ wk.entry \in EntryIds
         /\ Asked \in Targets \ Bucket /\ origin[Asked] \in Versions /\ Found \in Bytes
         /\ UNCHANGED <<os, cached, auth, origin, requested, current, rd, edits>>
         /\ \/ /\ NotModified(Asked, heap[wk.entry].etag)
               /\ heap' = heap /\ Unlock
               /\ wk' = [pc |-> "ready", view |-> wk.view, fetcher |-> wk.fetcher, entry |-> wk.entry,
                         etag |-> heap[wk.entry].etag, body |-> heap[wk.entry].content]
            \/ /\ ~NotModified(Asked, heap[wk.entry].etag)
               /\ rw' = rw
               /\ wk' = [pc |-> "storeContent", view |-> wk.view, fetcher |-> wk.fetcher,
                         entry |-> wk.entry, etag |-> Etag(Found), body |-> Found]
               /\ heap' \in Heaps
               /\ \A d \in EntryIds :
                    /\ heap'[d].mode = heap[d].mode /\ heap'[d].fetcher = heap[d].fetcher
                    /\ heap'[d].content = heap[d].content
                    /\ heap'[d].etag = IF d = wk.entry THEN Etag(Found) ELSE heap[d].etag
<1>1. /\ wk.pc = "request" /\ wk.entry \in EntryIds /\ Asked \in Targets \ Bucket
      /\ UNCHANGED <<os, cached, auth, origin, requested, current, rd, edits>>
  BY DEF Get, IInv, WorkerInv, Fetchers, Asked
<1>2. origin[Asked] \in Versions /\ Found \in Bytes /\ Etag(Found) = EtagOf[Asked][origin[Asked]]
      /\ Etag(Found) \in Etags
  <2>1. origin[Asked] \in Versions
    BY <1>1 DEF IInv, TypeOK
  <2> QED
    BY <1>1, <2>1, Constants DEF Found
<1>3. wk = [pc |-> wk.pc, view |-> wk.view, fetcher |-> wk.fetcher, entry |-> wk.entry,
            etag |-> wk.etag, body |-> wk.body]
  BY DEF IInv, TypeOK
<1>4. CASE NotModified(Asked, heap[wk.entry].etag)
  <2>1. /\ heap' = heap /\ Unlock
        /\ wk' = [wk EXCEPT !.pc = "ready", !.etag = heap[wk.entry].etag,
                            !.body = heap[wk.entry].content]
    BY <1>4 DEF Get, Asked
  <2>2. wk' = [pc |-> "ready", view |-> wk.view, fetcher |-> wk.fetcher, entry |-> wk.entry,
               etag |-> heap[wk.entry].etag, body |-> heap[wk.entry].content]
    BY <1>3, <2>1, Zenon
  <2> QED
    BY <1>1, <1>2, <1>4, <2>1, <2>2
<1>5. CASE ~NotModified(Asked, heap[wk.entry].etag)
  <2>1. /\ heap' = [heap EXCEPT ![wk.entry].etag = Etag(Found)] /\ rw' = rw
        /\ wk' = [wk EXCEPT !.pc = "storeContent", !.etag = Etag(Found), !.body = Found]
    BY <1>2, <1>5 DEF Get, Asked, Found
  <2>2. wk' = [pc |-> "storeContent", view |-> wk.view, fetcher |-> wk.fetcher,
               entry |-> wk.entry, etag |-> Etag(Found), body |-> Found]
    BY <1>3, <2>1, Zenon
  <2>3. EtagSet(wk.entry, Etag(Found)) /\ heap \in Heaps
    BY <2>1, Types DEF EtagSet, IInv
  <2>4. /\ heap' \in Heaps
        /\ \A d \in EntryIds :
             /\ heap'[d].mode = heap[d].mode /\ heap'[d].fetcher = heap[d].fetcher
             /\ heap'[d].content = heap[d].content
             /\ heap'[d].etag = IF d = wk.entry THEN Etag(Found) ELSE heap[d].etag
    BY <1>1, <1>2, <2>3, EtagUpdate
  <2> QED
    BY <1>1, <1>2, <1>5, <2>1, <2>2, <2>4
<1> QED
  BY <1>4, <1>5

LEMMA GetInv == ASSUME IInv, Get PROVE IInv'
<1> DEFINE e == wk.entry
<1>1. /\ wk.pc = "request" /\ e \in EntryIds /\ rw[e].writer
      /\ heap[e].fetcher \in Fetchers
      /\ wk.view \in Objects
  BY DEF Get, IInv, WorkerInv
<1>2. Found \in Bytes /\ Etag(Found) \in Etags
  <2>1. Asked \in Targets /\ origin[Asked] \in Versions
    BY GetShape
  <2> QED
    BY <2>1, Constants DEF Found
<1>u. UNCHANGED <<os, cached, auth, origin, requested, current, rd, edits>>
  BY GetShape
<1>3. CASE NotModified(Asked, heap[e].etag)
  <2>1. heap' = heap /\ Unlock
    BY <1>3, GetShape
  <2>2. wk' = [pc |-> "ready", view |-> wk.view, fetcher |-> wk.fetcher, entry |-> e,
               etag |-> heap[e].etag, body |-> heap[e].content]
    BY <1>3, GetShape
  <2>3. TypeOK'
    <3>1. wk' \in [pc : WorkerPCs \cup {"idle"}, view : Objects \cup {None},
                   fetcher : Fetchers \cup {None}, entry : EntryIds \cup {None},
                   etag : Etags, body : Bytes]
      BY <1>1, <2>2 DEF IInv, TypeOK, WorkerPCs
    <3> QED
      BY <1>1, <1>u, <2>1, <3>1, UnlockInv DEF IInv, TypeOK
  <2>4. WorkerInv'
    BY <1>1, <1>u, <2>1, <2>2 DEF IInv, WorkerInv
  <2>5. PairInv'
    BY <1>1, <2>1, <2>2 DEF IInv, PairInv, Etag
  <2> QED
    BY <1>1, <1>u, <2>1, <2>3, <2>4, <2>5, ReadersKept DEF IInv
<1>4. CASE ~NotModified(Asked, heap[e].etag)
  <2>1. rw' = rw
    BY <1>4, GetShape
  <2>2. wk' = [pc |-> "storeContent", view |-> wk.view, fetcher |-> wk.fetcher, entry |-> e,
               etag |-> Etag(Found), body |-> Found]
    BY <1>4, GetShape
  <2>3. heap' \in Heaps /\ \A d \in EntryIds :
          /\ heap'[d].mode = heap[d].mode /\ heap'[d].fetcher = heap[d].fetcher
          /\ heap'[d].content = heap[d].content
          /\ heap'[d].etag = IF d = e THEN Etag(Found) ELSE heap[d].etag
    BY <1>4, GetShape
  <2> HIDE DEF e
  <2>4. TypeOK'
    <3>1. wk' \in [pc : WorkerPCs \cup {"idle"}, view : Objects \cup {None},
                   fetcher : Fetchers \cup {None}, entry : EntryIds \cup {None},
                   etag : Etags, body : Bytes]
      BY <1>1, <1>2, <2>2 DEF IInv, TypeOK, WorkerPCs
    <3>2. heap' \in [EntryIds -> [mode : {"url", "bucket"}, fetcher : Fetchers \cup {None},
                                  etag : Etags, content : Bytes]]
      BY <2>3 DEF Heaps, Structs
    <3>3. \A d \in EntryIds : heap'[d].fetcher # None => heap'[d].mode = Mode(heap'[d].fetcher.target)
      BY <2>3 DEF IInv, TypeOK
    <3> QED
      BY <1>u, <2>1, <3>1, <3>2, <3>3 DEF IInv, TypeOK
  <2>5. WorkerInv'
    <3>1. os.token <= edits /\ rw'[e].writer /\ heap'[e].fetcher \in Fetchers
      BY <1>1, <2>1, <2>3 DEF IInv, WorkerInv
    <3> QED
      BY <1>1, <1>u, <2>2, <3>1 DEF WorkerInv
  <2>6. PairInv'
    <3>1. \A b : Etag(b)' = Etag(b)
      BY DEF Etag
    <3> QED
      BY <1>1, <1>2, <2>2, <2>3, <3>1 DEF IInv, PairInv
  <2>7. wk.entry \in EntryIds
    BY <1>1 DEF e
  <2> QED
    BY <1>u, <2>1, <2>4, <2>5, <2>6, <2>7, <2>3, ReadersKept DEF IInv
<1> QED
  BY <1>3, <1>4

LEMMA StoreContentShape ==
  ASSUME IInv, StoreContent
  PROVE  /\ wk.pc = "storeContent" /\ wk.entry \in EntryIds
         /\ wk.etag = Etag(wk.body) /\ heap[wk.entry].etag = wk.etag
         /\ wk' = [wk EXCEPT !.pc = "ready"] /\ Unlock
         /\ UNCHANGED <<os, cached, auth, origin, requested, current, rd, edits>>
         /\ heap' \in Heaps
         /\ \A d \in EntryIds :
              /\ heap'[d].mode = heap[d].mode /\ heap'[d].fetcher = heap[d].fetcher
              /\ heap'[d].etag = heap[d].etag
              /\ heap'[d].content = IF d = wk.entry THEN wk.body ELSE heap[d].content
<1>1. /\ wk.pc = "storeContent" /\ wk.entry \in EntryIds
      /\ wk.etag = Etag(wk.body) /\ heap[wk.entry].etag = wk.etag
      /\ wk' = [wk EXCEPT !.pc = "ready"] /\ Unlock
      /\ heap' = [heap EXCEPT ![wk.entry].content = wk.body]
      /\ UNCHANGED <<os, cached, auth, origin, requested, current, rd, edits>>
  BY DEF StoreContent, Stored, Goto, IInv, WorkerInv, PairInv
<1>2. heap' \in Heaps /\ \A d \in EntryIds :
        /\ heap'[d].mode = heap[d].mode /\ heap'[d].fetcher = heap[d].fetcher
        /\ heap'[d].etag = heap[d].etag
        /\ heap'[d].content = IF d = wk.entry THEN wk.body ELSE heap[d].content
  <2>1. heap \in Heaps
    BY Types DEF IInv
  <2>2. wk.body \in Bytes
    BY Types DEF IInv, Passes
  <2>3. ContentSet(wk.entry, wk.body)
    BY <1>1 DEF ContentSet
  <2> QED
    BY <1>1, <2>1, <2>2, <2>3, ContentUpdate
<1> QED
  BY <1>1, <1>2

LEMMA StoreContentInv == ASSUME IInv, StoreContent PROVE IInv'
<1>1. /\ wk.pc = "storeContent" /\ wk.entry \in EntryIds
      /\ wk.etag = Etag(wk.body) /\ heap[wk.entry].etag = wk.etag
      /\ wk' = [wk EXCEPT !.pc = "ready"] /\ Unlock
      /\ UNCHANGED <<os, cached, auth, origin, requested, current, rd, edits>>
  BY StoreContentShape
<1>2. heap' \in Heaps /\ \A d \in EntryIds :
        /\ heap'[d].mode = heap[d].mode /\ heap'[d].fetcher = heap[d].fetcher
        /\ heap'[d].etag = heap[d].etag
        /\ heap'[d].content = IF d = wk.entry THEN wk.body ELSE heap[d].content
  BY StoreContentShape
<1>3. wk'.pc = "ready" /\ wk'.view = wk.view
  BY <1>1 DEF IInv, TypeOK
<1>4. TypeOK'
  <2>1. heap' \in [EntryIds -> [mode : {"url", "bucket"}, fetcher : Fetchers \cup {None},
                                etag : Etags, content : Bytes]]
    BY <1>2 DEF Heaps, Structs
  <2>2. \A d \in EntryIds : heap'[d].fetcher # None => heap'[d].mode = Mode(heap'[d].fetcher.target)
    BY <1>2 DEF IInv, TypeOK
  <2> QED
    BY <1>1, <2>1, <2>2, UnlockInv DEF IInv, TypeOK, WorkerPCs
<1>5. WorkerInv'
  BY <1>1, <1>3 DEF IInv, WorkerInv
<1>6. PairInv'
  <2>1. \A b : Etag(b)' = Etag(b)
    BY DEF Etag
  <2> QED
    BY <1>1, <1>2, <1>3, <2>1 DEF IInv, PairInv
<1> QED
  BY <1>1, <1>2, <1>4, <1>5, <1>6, ReadersKept DEF IInv

LEMMA ReportInv == ASSUME IInv, Report PROVE IInv'
<1>1. wk.view \in Objects
  BY DEF Report, IInv, WorkerInv
<1>2. Reported \in Statuses
  BY <1>1 DEF Reported, Objects, Statuses, IInv, TypeOK
<1>3. os' \in Objects /\ os'.token = os.token
  <2>1. CASE os' = os
    BY <2>1 DEF IInv, TypeOK
  <2>2. CASE os' = [os EXCEPT !.status = Reported]
    BY <1>2, <2>2 DEF IInv, TypeOK, Objects
  <2> QED
    BY <2>1, <2>2 DEF Report
<1>4. TypeOK'
  BY <1>3, Constants DEF IInv, TypeOK, Report, Idle
<1>5. WorkerInv' /\ PairInv'
  BY <1>3 DEF IInv, WorkerInv, PairInv, Report, Idle, Etag
<1> QED
  BY <1>4, <1>5, ReadersUntouched DEF IInv, Report

-----------------------------------------------------------------------------
(* A consumer's read.                                                      *)

\* Only r's own read moves, and of the locks only r's hold on its entry.
LEMMA OneReader ==
  ASSUME IInv, NEW r \in Readers, UNCHANGED <<os, cached, auth, origin, requested, current, heap, wk, edits>>,
         rd' \in [Readers -> [pc : ReadPCs \cup {"idle"}, entry : EntryIds \cup {None},
                              floor : Bytes, etag : Etags, tagged : Bytes, content : Bytes]],
         \A q \in Readers \ {r} : rd'[q] = rd[q],
         rw' \in [EntryIds -> [writer : BOOLEAN, readers : SUBSET Readers]],
         \A e \in EntryIds : /\ rw'[e].writer = rw[e].writer
                             /\ \A q \in Readers \ {r} : q \in rw[e].readers => q \in rw'[e].readers,
         rd'[r].pc \in {"rlock", "first", "second"} => rd'[r].entry \in EntryIds,
         rd'[r].pc = "rlock" => rd'[r].tagged = Empty,
         rd'[r].pc \in {"first", "second"} => r \in rw'[rd'[r].entry].readers,
         rd'[r].pc = "second" => HalfRead(r)',
         rd'[r].pc = "done" /\ rd'[r].tagged = Empty => rd'[r].etag = Etag(rd'[r].content),
         rd'[r].pc = "done" /\ rd'[r].tagged # Empty =>
           /\ rd'[r].tagged.target = rd'[r].content.target
           /\ rd'[r].tagged.ver <= rd'[r].content.ver
  PROVE  IInv'
<1>1. TypeOK'
  BY DEF IInv, TypeOK
<1>2. WorkerInv' /\ PairInv'
  BY DEF IInv, WorkerInv, PairInv, Etag
<1>3. ReaderInv'
  <2>1. ASSUME NEW q \in Readers, q # r, rd[q].pc = "second" PROVE HalfRead(q)'
    BY <2>1 DEF IInv, ReaderInv, HalfRead
  <2>2. ASSUME NEW q \in Readers, q # r
        PROVE  /\ rd'[q].pc \in {"rlock", "first", "second"} => rd'[q].entry \in EntryIds
               /\ rd'[q].pc = "rlock" => rd'[q].tagged = Empty
               /\ rd'[q].pc \in {"first", "second"} => q \in rw'[rd'[q].entry].readers
               /\ rd'[q].pc = "second" => HalfRead(q)'
    BY <2>1, <2>2 DEF IInv, ReaderInv
  <2> QED
    BY <2>2 DEF ReaderInv
<1>4. Reads'
  <2>1. ASSUME NEW q \in Readers
        PROVE  /\ Done(q, "url")' => rd'[q].etag = Etag(rd'[q].content)
               /\ Done(q, "bucket")' => /\ rd'[q].tagged.target = rd'[q].content.target
                                        /\ rd'[q].tagged.ver <= rd'[q].content.ver
    <3>1. CASE q = r
      BY <3>1 DEF Done
    <3>2. CASE q # r
      BY <3>2 DEF IInv, Reads, ReadIsOneResponse, ETagNotAheadOfBytes, Done, Etag
    <3> QED
      BY <3>1, <3>2
  <2> QED
    BY <2>1 DEF Reads, ReadIsOneResponse, ETagNotAheadOfBytes, Etag
<1> QED
  BY <1>1, <1>2, <1>3, <1>4 DEF IInv

\* The record of a read, spelled out.
LEMMA ReadRecord ==
  ASSUME IInv, NEW r \in Readers
  PROVE  /\ rd[r] = [pc |-> rd[r].pc, entry |-> rd[r].entry, floor |-> rd[r].floor,
                     etag |-> rd[r].etag, tagged |-> rd[r].tagged, content |-> rd[r].content]
         /\ rd[r].floor \in Bytes /\ rd[r].etag \in Etags
         /\ rd[r].tagged \in Bytes /\ rd[r].content \in Bytes
BY DEF IInv, TypeOK

\* Records after an update, field by field.
LEMMA LockUpdate ==
  ASSUME NEW x, NEW y, NEW s,
         x = [writer |-> x.writer, readers |-> x.readers], y = [x EXCEPT !.readers = s]
  PROVE  y = [writer |-> x.writer, readers |-> s]
BY Zenon

LEMMA LookupUpdate ==
  ASSUME NEW x, NEW y, NEW pc, NEW e, NEW f, y = [x EXCEPT !.pc = pc, !.entry = e, !.floor = f],
         x = [pc |-> x.pc, entry |-> x.entry, floor |-> x.floor,
              etag |-> x.etag, tagged |-> x.tagged, content |-> x.content]
  PROVE  y = [pc |-> pc, entry |-> e, floor |-> f, etag |-> x.etag, tagged |-> x.tagged, content |-> x.content]
BY Zenon

LEMMA CopyUpdate ==
  ASSUME NEW x, NEW y, NEW pc, NEW e, NEW g, NEW c, y = [x EXCEPT !.pc = pc, !.entry = e, !.etag = g, !.content = c],
         x = [pc |-> x.pc, entry |-> x.entry, floor |-> x.floor,
              etag |-> x.etag, tagged |-> x.tagged, content |-> x.content]
  PROVE  y = [pc |-> pc, entry |-> e, floor |-> x.floor, etag |-> g, tagged |-> x.tagged, content |-> c]
BY Zenon

LEMMA FirstUpdate ==
  ASSUME NEW x, NEW y, NEW pc, NEW g, NEW t, y = [[x EXCEPT !.etag = g, !.tagged = t] EXCEPT !.pc = pc],
         x = [pc |-> x.pc, entry |-> x.entry, floor |-> x.floor,
              etag |-> x.etag, tagged |-> x.tagged, content |-> x.content]
  PROVE  y = [pc |-> pc, entry |-> x.entry, floor |-> x.floor, etag |-> g, tagged |-> t, content |-> x.content]
BY Zenon

LEMMA SecondUpdate ==
  ASSUME NEW x, NEW y, NEW pc, NEW e, NEW c, y = [[x EXCEPT !.content = c] EXCEPT !.pc = pc, !.entry = e],
         x = [pc |-> x.pc, entry |-> x.entry, floor |-> x.floor,
              etag |-> x.etag, tagged |-> x.tagged, content |-> x.content]
  PROVE  y = [pc |-> pc, entry |-> e, floor |-> x.floor, etag |-> x.etag, tagged |-> x.tagged, content |-> c]
BY Zenon

\* The lock without and with r among its readers.
LEMMA LockRecord ==
  ASSUME IInv, NEW r \in Readers, NEW e \in EntryIds
  PROVE  /\ rw[e].readers \subseteq Readers /\ rw[e].writer \in BOOLEAN
         /\ ReadUnlocked(e, r) = [writer |-> rw[e].writer, readers |-> rw[e].readers \ {r}]
         /\ [rw[e] EXCEPT !.readers = rw[e].readers \cup {r}]
              = [writer |-> rw[e].writer, readers |-> rw[e].readers \cup {r}]
<1>1. rw[e] \in [writer : BOOLEAN, readers : SUBSET Readers]
  BY DEF IInv, TypeOK
<1>2. rw[e] = [writer |-> rw[e].writer, readers |-> rw[e].readers]
  BY <1>1
<1>3. [rw[e] EXCEPT !.readers = rw[e].readers \ {r}]
        = [writer |-> rw[e].writer, readers |-> rw[e].readers \ {r}]
  BY <1>2, LockUpdate, Zenon
<1>4. [rw[e] EXCEPT !.readers = rw[e].readers \cup {r}]
        = [writer |-> rw[e].writer, readers |-> rw[e].readers \cup {r}]
  BY <1>2, LockUpdate, Zenon
<1> QED
  BY <1>1, <1>3, <1>4 DEF ReadUnlocked

\* The read ends, or has not begun, and its hold on the lock may go.
LEMMA ReadEndsInv == ASSUME IInv, NEW r \in Readers, ReadFails(r) \/ ReadDone(r) PROVE IInv'
<1>1. rd' = [rd EXCEPT ![r] = ReadIdle]
  BY DEF ReadFails, ReadDone
<1>2. rd' \in [Readers -> [pc : ReadPCs \cup {"idle"}, entry : EntryIds \cup {None},
                           floor : Bytes, etag : Etags, tagged : Bytes, content : Bytes]]
  BY <1>1, Constants DEF IInv, TypeOK, ReadIdle
<1>3. rd'[r].pc = "idle" /\ \A q \in Readers \ {r} : rd'[q] = rd[q]
  BY <1>1 DEF IInv, TypeOK, ReadIdle
<1>4. /\ rw' \in [EntryIds -> [writer : BOOLEAN, readers : SUBSET Readers]]
      /\ \A e \in EntryIds : /\ rw'[e].writer = rw[e].writer
                             /\ \A q \in Readers \ {r} : q \in rw[e].readers => q \in rw'[e].readers
  <2>1. CASE ReadDone(r)
    BY <2>1 DEF ReadDone, IInv, TypeOK
  <2>2. CASE ReadFails(r)
    <3>1. rd[r].entry \in EntryIds
      BY <2>2 DEF ReadFails, IInv, ReaderInv
    <3>2. rw' = [rw EXCEPT ![rd[r].entry] = [writer |-> rw[rd[r].entry].writer,
                                            readers |-> rw[rd[r].entry].readers \ {r}]]
      <4>1. rw' = [rw EXCEPT ![rd[r].entry] = ReadUnlocked(rd[r].entry, r)]
        BY <2>2 DEF ReadFails
      <4> QED
        BY <3>1, <4>1, LockRecord
    <3> QED
      BY <3>1, <3>2 DEF IInv, TypeOK
  <2> QED
    BY <2>1, <2>2
<1>5. UNCHANGED <<os, cached, auth, origin, requested, current, heap, wk, edits>>
  BY DEF ReadFails, ReadDone
<1> QED
  BY <1>2, <1>3, <1>4, <1>5, OneReader

LEMMA ReadLookupShape ==
  ASSUME NEW r \in Readers, ReadLookup(r)
  PROVE  \E floor \in {os.status.synced, Empty} :
           rd' = [rd EXCEPT ![r] = [pc |-> "rlock", entry |-> current, floor |-> floor,
                                    etag |-> NoEtag, tagged |-> Empty, content |-> Empty]]
<1> DEFINE floor == IF os.exists /\ os.status.ready /\ heap[current].mode = "url"
                    THEN os.status.synced ELSE Empty
           new == [pc |-> "rlock", entry |-> current, floor |-> floor, etag |-> NoEtag,
                   tagged |-> Empty, content |-> Empty]
<1>1. rd' = [rd EXCEPT ![r] = [ReadIdle EXCEPT !.pc = "rlock", !.entry = current, !.floor = floor]]
  BY DEF ReadLookup
<1>2. ReadIdle = [pc |-> ReadIdle.pc, entry |-> ReadIdle.entry, floor |-> ReadIdle.floor,
                  etag |-> ReadIdle.etag, tagged |-> ReadIdle.tagged,
                  content |-> ReadIdle.content]
      /\ ReadIdle.etag = NoEtag /\ ReadIdle.tagged = Empty /\ ReadIdle.content = Empty
  BY DEF ReadIdle
<1>3. ASSUME NEW y, y = [ReadIdle EXCEPT !.pc = "rlock", !.entry = current, !.floor = floor]
      PROVE  y = new
  BY <1>2, <1>3, LookupUpdate, Zenon
<1>4. floor \in {os.status.synced, Empty}
  OBVIOUS
<1> HIDE DEF floor
<1> QED
  BY <1>1, <1>3, <1>4

LEMMA ReadLookupInv == ASSUME IInv, NEW r \in Readers, ReadLookup(r) PROVE IInv'
<1>1. PICK floor \in {os.status.synced, Empty} :
        rd' = [rd EXCEPT ![r] = [pc |-> "rlock", entry |-> current, floor |-> floor,
                                 etag |-> NoEtag, tagged |-> Empty, content |-> Empty]]
  BY ReadLookupShape
<1>2. current \in EntryIds /\ floor \in Bytes
  BY Constants DEF ReadLookup, IInv, TypeOK, Objects, Statuses
<1>3. rd' \in [Readers -> [pc : ReadPCs \cup {"idle"}, entry : EntryIds \cup {None},
                           floor : Bytes, etag : Etags, tagged : Bytes, content : Bytes]]
  BY <1>1, <1>2, Constants DEF IInv, TypeOK, ReadPCs
<1>4. /\ rd'[r].pc = "rlock" /\ rd'[r].entry \in EntryIds /\ rd'[r].tagged = Empty
      /\ \A q \in Readers \ {r} : rd'[q] = rd[q]
  BY <1>1, <1>2 DEF IInv, TypeOK
<1>5. UNCHANGED <<os, cached, auth, origin, requested, current, heap, rw, wk, edits>>
  BY DEF ReadLookup
<1> QED
  BY <1>3, <1>4, <1>5, OneReader DEF IInv, TypeOK

LEMMA ReadCopyShape ==
  ASSUME IInv, NEW r \in Readers, ReadCopy(r)
  PROVE  LET e == rd[r].entry
             new == [pc |-> "done", entry |-> None, floor |-> rd[r].floor, etag |-> heap[e].etag,
                     tagged |-> rd[r].tagged, content |-> heap[e].content]
         IN \/ heap[e].content = Empty /\ rd' = [rd EXCEPT ![r] = ReadIdle]
            \/ heap[e].content # Empty /\ rd' = [rd EXCEPT ![r] = new]
<1> DEFINE e == rd[r].entry
           new == [pc |-> "done", entry |-> None, floor |-> rd[r].floor, etag |-> heap[e].etag,
                   tagged |-> rd[r].tagged, content |-> heap[e].content]
<1>r. rd[r] = [pc |-> rd[r].pc, entry |-> rd[r].entry, floor |-> rd[r].floor,
                 etag |-> rd[r].etag, tagged |-> rd[r].tagged, content |-> rd[r].content]
  BY ReadRecord
<1>1. CASE heap[e].content = Empty
  BY <1>1 DEF ReadCopy
<1>2. CASE heap[e].content # Empty
  <2>1. rd' = [rd EXCEPT ![r] = [rd[r] EXCEPT !.pc = "done", !.entry = None,
                                   !.etag = heap[e].etag, !.content = heap[e].content]]
    BY <1>2 DEF ReadCopy, IInv, TypeOK
  <2>2. ASSUME NEW y, y = [rd[r] EXCEPT !.pc = "done", !.entry = None, !.etag = heap[e].etag,
                                     !.content = heap[e].content]
        PROVE  y = new
    BY <1>r, <2>2, CopyUpdate, Zenon
  <2> QED
    BY <1>2, <2>1, <2>2
<1> QED
  BY <1>1, <1>2

\* No writer: the entry is between two fetches, where ETag and content belong together.
LEMMA ReadCopyInv == ASSUME IInv, NEW r \in Readers, ReadCopy(r) PROVE IInv'
<1> DEFINE e == rd[r].entry
           new == [pc |-> "done", entry |-> None, floor |-> rd[r].floor, etag |-> heap[e].etag,
                   tagged |-> rd[r].tagged, content |-> heap[e].content]
<1>1. e \in EntryIds /\ ~rw[e].writer /\ rd[r].tagged = Empty
  BY DEF ReadCopy, ReadLockFree, IInv, ReaderInv
<1>2. heap[e].content # Empty => heap[e].etag = Etag(heap[e].content)
  BY <1>1 DEF IInv, WorkerInv, PairInv
<1>3. \/ heap[e].content = Empty /\ rd' = [rd EXCEPT ![r] = ReadIdle]
      \/ heap[e].content # Empty /\ rd' = [rd EXCEPT ![r] = new]
  BY ReadCopyShape
<1>4. heap[e].etag \in Etags /\ heap[e].content \in Bytes
  BY <1>1 DEF IInv, TypeOK
<1>5. rd' \in [Readers -> [pc : ReadPCs \cup {"idle"}, entry : EntryIds \cup {None},
                           floor : Bytes, etag : Etags, tagged : Bytes, content : Bytes]]
  <2>1. new \in [pc : ReadPCs \cup {"idle"}, entry : EntryIds \cup {None},
                 floor : Bytes, etag : Etags, tagged : Bytes, content : Bytes]
    BY <1>4, ReadRecord DEF ReadPCs
  <2>2. ReadIdle \in [pc : ReadPCs \cup {"idle"}, entry : EntryIds \cup {None},
                      floor : Bytes, etag : Etags, tagged : Bytes, content : Bytes]
    BY Constants DEF ReadIdle
  <2> HIDE DEF new
  <2> QED
    BY <1>3, <2>1, <2>2 DEF IInv, TypeOK
<1>6. /\ rd'[r].pc \in {"idle", "done"}
      /\ rd'[r].pc = "done" => rd'[r].tagged = Empty /\ rd'[r].etag = Etag(rd'[r].content)
      /\ \A q \in Readers \ {r} : rd'[q] = rd[q]
  BY <1>1, <1>2, <1>3 DEF IInv, TypeOK, ReadIdle
<1>7. UNCHANGED <<os, cached, auth, origin, requested, current, heap, rw, wk, edits>>
  BY DEF ReadCopy
<1> QED
  BY <1>5, <1>6, <1>7, OneReader DEF IInv, TypeOK

LEMMA ReadLockInv == ASSUME IInv, NEW r \in Readers, ReadLock(r) PROVE IInv'
<1> DEFINE e == rd[r].entry
<1>1. e \in EntryIds
  BY DEF ReadLock, IInv, ReaderInv
<1>2. rw' = [rw EXCEPT ![e] = [writer |-> rw[e].writer, readers |-> rw[e].readers \cup {r}]]
  <2>1. rw' = [rw EXCEPT ![e] = [rw[e] EXCEPT !.readers = rw[e].readers \cup {r}]]
    BY <1>1 DEF ReadLock, IInv, TypeOK
  <2> QED
    BY <1>1, <2>1, LockRecord
<1>3. /\ rw' \in [EntryIds -> [writer : BOOLEAN, readers : SUBSET Readers]]
      /\ \A d \in EntryIds : /\ rw'[d].writer = rw[d].writer
                             /\ \A q \in Readers \ {r} : q \in rw[d].readers => q \in rw'[d].readers
      /\ r \in rw'[e].readers
  BY <1>1, <1>2 DEF IInv, TypeOK
<1>4. /\ rd' \in [Readers -> [pc : ReadPCs \cup {"idle"}, entry : EntryIds \cup {None},
                              floor : Bytes, etag : Etags, tagged : Bytes, content : Bytes]]
      /\ rd'[r].pc = "first" /\ rd'[r].entry = e
      /\ \A q \in Readers \ {r} : rd'[q] = rd[q]
  BY DEF ReadLock, IInv, TypeOK, ReadPCs
<1>5. UNCHANGED <<os, cached, auth, origin, requested, current, heap, wk, edits>>
  BY DEF ReadLock
<1> QED
  BY <1>1, <1>3, <1>4, <1>5, OneReader

LEMMA ReadRequestShape ==
  ASSUME IInv, NEW r \in Readers, ReadRequest(r)
  PROVE  LET e == rd[r].entry
             t == heap[e].fetcher.target
             found == [target |-> t, ver |-> origin[t]]
             first == [pc |-> "second", entry |-> e, floor |-> rd[r].floor,
                       etag |-> EtagOf[t][origin[t]], tagged |-> found, content |-> rd[r].content]
             second == [pc |-> "done", entry |-> None, floor |-> rd[r].floor,
                        etag |-> rd[r].etag, tagged |-> rd[r].tagged, content |-> found]
         IN \/ rd[r].pc = "first" /\ rd' = [rd EXCEPT ![r] = first] /\ rw' = rw
            \/ /\ rd[r].pc = "second" /\ rd' = [rd EXCEPT ![r] = second]
               /\ rw' = [rw EXCEPT ![e] = ReadUnlocked(e, r)]
<1> DEFINE e == rd[r].entry
           t == heap[e].fetcher.target
           found == [target |-> t, ver |-> origin[t]]
           first == [pc |-> "second", entry |-> e, floor |-> rd[r].floor,
                     etag |-> EtagOf[t][origin[t]], tagged |-> found, content |-> rd[r].content]
           second == [pc |-> "done", entry |-> None, floor |-> rd[r].floor,
                      etag |-> rd[r].etag, tagged |-> rd[r].tagged, content |-> found]
<1>r. rd[r] = [pc |-> rd[r].pc, entry |-> rd[r].entry, floor |-> rd[r].floor,
                 etag |-> rd[r].etag, tagged |-> rd[r].tagged, content |-> rd[r].content]
  BY ReadRecord
<1>1. CASE rd[r].pc = "first"
  <2>1. rd' = [rd EXCEPT ![r] = [Answer(r, found) EXCEPT !.pc = "second"]] /\ rw' = rw
    BY <1>1 DEF ReadRequest
  <2>2. Answer(r, found) = [rd[r] EXCEPT !.etag = EtagOf[t][origin[t]], !.tagged = found]
    BY <1>1 DEF Answer
  <2>3. ASSUME NEW y, y = [[rd[r] EXCEPT !.etag = EtagOf[t][origin[t]], !.tagged = found]
                             EXCEPT !.pc = "second"]
        PROVE  y = first
    BY <1>r, <2>3, FirstUpdate, Zenon
  <2> QED
    BY <1>1, <2>1, <2>2, <2>3
<1>2. CASE rd[r].pc = "second"
  <2>1. /\ rd' = [rd EXCEPT ![r] = [Answer(r, found) EXCEPT !.pc = "done", !.entry = None]]
        /\ rw' = [rw EXCEPT ![e] = ReadUnlocked(e, r)]
    BY <1>2 DEF ReadRequest
  <2>2. Answer(r, found) = [rd[r] EXCEPT !.content = found]
    BY <1>2 DEF Answer
  <2>3. ASSUME NEW y, y = [[rd[r] EXCEPT !.content = found] EXCEPT !.pc = "done", !.entry = None]
        PROVE  y = second
    BY <1>r, <2>3, SecondUpdate, Zenon
  <2> QED
    BY <1>2, <2>1, <2>2, <2>3
<1> QED
  BY <1>1, <1>2 DEF ReadRequest

\* Both requests go to the target of one fetcher, and versions only grow.
LEMMA ReadRequestInv == ASSUME IInv, NEW r \in Readers, ReadRequest(r) PROVE IInv'
<1> DEFINE e == rd[r].entry
           t == heap[e].fetcher.target
           found == [target |-> t, ver |-> origin[t]]
           first == [pc |-> "second", entry |-> e, floor |-> rd[r].floor,
                     etag |-> EtagOf[t][origin[t]], tagged |-> found, content |-> rd[r].content]
           second == [pc |-> "done", entry |-> None, floor |-> rd[r].floor,
                      etag |-> rd[r].etag, tagged |-> rd[r].tagged, content |-> found]
<1>1. /\ e \in EntryIds /\ r \in rw[e].readers /\ heap[e].fetcher \in Fetchers
      /\ rd[r].pc = "second" => HalfRead(r)
  BY DEF ReadRequest, IInv, TypeOK, ReaderInv
<1>2. t \in Targets /\ origin[t] \in Versions
  BY <1>1 DEF Fetchers, IInv, TypeOK
<1>3. found \in Bytes /\ found # Empty /\ EtagOf[t][origin[t]] \in Etags
  BY <1>2, Constants
<1>u. UNCHANGED <<os, cached, auth, origin, requested, current, heap, wk, edits>>
  BY DEF ReadRequest
<1>4. CASE rd[r].pc = "first"
  <2>1. rd' = [rd EXCEPT ![r] = first] /\ rw' = rw
    BY <1>4, ReadRequestShape
  <2>2. first \in [pc : ReadPCs \cup {"idle"}, entry : EntryIds \cup {None},
                   floor : Bytes, etag : Etags, tagged : Bytes, content : Bytes]
    BY <1>1, <1>3, ReadRecord DEF ReadPCs
  <2>3. /\ rd' \in [Readers -> [pc : ReadPCs \cup {"idle"}, entry : EntryIds \cup {None},
                                floor : Bytes, etag : Etags, tagged : Bytes, content : Bytes]]
        /\ \A q \in Readers \ {r} : rd'[q] = rd[q]
    <3> HIDE DEF first
    <3> QED
      BY <2>1, <2>2 DEF IInv, TypeOK
  <2>4. rd'[r].pc = "second" /\ rd'[r].entry = e /\ rd'[r].tagged = found
    BY <2>1 DEF IInv, TypeOK
  <2>5. HalfRead(r)'
    <3>1. heap' = heap /\ origin' = origin /\ origin[t] \in Nat
      BY <1>2, <1>u, ObjectAssumption DEF Versions
    <3>2. heap'[rd'[r].entry].fetcher = heap[e].fetcher /\ rd'[r].tagged = found
      BY <2>4, <3>1
    <3> QED
      BY <1>1, <1>2, <3>1, <3>2 DEF HalfRead
  <2> QED
    BY <1>1, <1>u, <2>1, <2>3, <2>4, <2>5, OneReader DEF IInv, TypeOK
<1>5. CASE rd[r].pc = "second"
  <2>1. rd' = [rd EXCEPT ![r] = second] /\ rw' = [rw EXCEPT ![e] = ReadUnlocked(e, r)]
    BY <1>5, ReadRequestShape
  <2>2. second \in [pc : ReadPCs \cup {"idle"}, entry : EntryIds \cup {None},
                    floor : Bytes, etag : Etags, tagged : Bytes, content : Bytes]
    BY <1>1, <1>3, ReadRecord DEF ReadPCs
  <2>3. /\ rd' \in [Readers -> [pc : ReadPCs \cup {"idle"}, entry : EntryIds \cup {None},
                                floor : Bytes, etag : Etags, tagged : Bytes, content : Bytes]]
        /\ \A q \in Readers \ {r} : rd'[q] = rd[q]
    <3> HIDE DEF second
    <3> QED
      BY <2>1, <2>2 DEF IInv, TypeOK
  <2>4. rd'[r].pc = "done" /\ rd'[r].tagged = rd[r].tagged /\ rd'[r].content = found
    BY <2>1 DEF IInv, TypeOK
  <2>5. /\ rd[r].tagged.target = t /\ rd[r].tagged.ver \in Versions
        /\ rd[r].tagged.ver <= origin[t]
    BY <1>1, <1>5 DEF HalfRead
  <2>6. rd[r].tagged # Empty
    BY <2>5 DEF Empty, Versions
  <2>7. rw' = [rw EXCEPT ![e] = [writer |-> rw[e].writer, readers |-> rw[e].readers \ {r}]]
    BY <1>1, <2>1, LockRecord
  <2>8. /\ rw' \in [EntryIds -> [writer : BOOLEAN, readers : SUBSET Readers]]
        /\ \A d \in EntryIds : /\ rw'[d].writer = rw[d].writer
                               /\ \A q \in Readers \ {r} : q \in rw[d].readers => q \in rw'[d].readers
    BY <1>1, <2>7 DEF IInv, TypeOK
  <2>9. /\ rd'[r].tagged # Empty /\ rd'[r].tagged.target = rd'[r].content.target
        /\ rd'[r].tagged.ver <= rd'[r].content.ver
    BY <2>4, <2>5, <2>6
  <2> QED
    BY <1>u, <2>3, <2>4, <2>8, <2>9, OneReader
<1> QED
  BY <1>4, <1>5 DEF ReadRequest

-----------------------------------------------------------------------------

LEMMA StepInv == ASSUME IInv, [Next]_vars PROVE IInv'
<1>1. CASE WorkerStep
  BY <1>1, BeginInv, ForgetObjectInv, BuildFailsInv, RegisterInv, LockEntryInv,
     ProbeOrFailureInv, GetInv, StoreContentInv, ReportInv DEF WorkerStep
<1>2. ASSUME NEW r \in Readers, ReadLookup(r) \/ ReadStep(r) PROVE IInv'
  BY <1>2, ReadLookupInv, ReadLockInv, ReadCopyInv, ReadRequestInv, ReadEndsInv DEF ReadStep
<1>3. CASE \/ \E t \in Targets : EditTarget(t) \/ Create(t) \/ Publish(t)
           \/ \E c \in Creds : EditAuth(c)
           \/ Annotate \/ Delete \/ InformerSync
  BY <1>3, EnvironmentInv
<1>4. CASE Restart
  BY <1>4, RestartInv
<1>5. CASE UNCHANGED vars
  BY <1>5 DEF vars, IInv, TypeOK, WorkerInv, PairInv, Etag, ReaderInv, HalfRead, Reads,
              ReadIsOneResponse, ETagNotAheadOfBytes, Done
<1> QED
  BY <1>1, <1>2, <1>3, <1>4, <1>5 DEF Next

LEMMA Invariance == Spec => []IInv
BY InitInv, StepInv, PTL DEF Spec

\* Every state of ObjectRegistry is well-typed, and an entry's client suits its mode.
THEOREM TypeCorrect == Spec => []TypeOK
<1>1. IInv => TypeOK
  BY DEF IInv
<1> QED
  BY <1>1, Invariance, PTL

\* What a consumer reads of a URL source is one response: the ETag it will record
\* came with the bytes it was given.
THEOREM ReadsAreResponses == Spec => []ReadIsOneResponse
<1>1. IInv => ReadIsOneResponse
  BY DEF IInv, Reads
<1> QED
  BY <1>1, Invariance, PTL

\* What a consumer reads of a bucket is at least as new as the ETag it records.
THEOREM TagsAreNotAhead == Spec => []ETagNotAheadOfBytes
<1>1. IInv => ETagNotAheadOfBytes
  BY DEF IInv, Reads
<1> QED
  BY <1>1, Invariance, PTL

-----------------------------------------------------------------------------
(* What the status stands for.  Every pass that stores content asked the   *)
(* origin after the status was last written, so its bytes are no older     *)
(* than those of the status and of a read that began before, and meet any  *)
(* request for a sync that its copy of the object names.  The bytes that a *)
(* 304 keeps are those of an entry that has met the request already, since *)
(* an entry made for the request has no ETag to send.                      *)

\* Bytes that have been at the origin of a URL, which o are the newest versions of;
\* what the status, the entries and the passes hold is that or nothing.
Real(b, o) == b.target \in Targets \ Bucket /\ b.ver \in 1..o[b.target]
Genuine(b, o) == b = Empty \/ Real(b, o)

\* b is no newer than c, if they are of one file.
Behind(b, c) == b.target = c.target => b.ver <= c.ver

\* The status of o has recorded the token; b honours the request q.
Settled(o) == o.token # 0 /\ o.status.token = o.token
Answers(b, q) == b # Empty => b.ver >= q[b.target]

\* The copy v is not ahead of the object o, so after a change to o, v is equal to
\* none of its later states.
Past(v, o) == v.gen <= o.gen /\ (v.gen = o.gen => v.token <= o.token)

OriginInv ==
  /\ \A t \in Targets : requested[t] <= origin[t]
  /\ Genuine(os.status.synced, origin) /\ Genuine(wk.body, origin)
  /\ \A e \in EntryIds : Genuine(heap[e].content, origin)
  /\ \A r \in Readers : Genuine(rd[r].floor, origin)

CopyInv ==
  /\ Past(cached, os)
  /\ wk.pc # "idle" => wk.view.exists /\ Past(wk.view, os)
  /\ os.status.token <= os.token /\ os.status.observed <= os.gen

\* An entry without content has no ETag, so no request for it is conditional.
EntryInv ==
  \A e \in EntryIds :
    /\ heap[e].mode = "bucket" => heap[e].content = Empty
    /\ heap[e].content = Empty /\ ~(wk.pc = "storeContent" /\ wk.entry = e) =>
         heap[e].etag = NoEtag

\* How far the pass has come.
PassInv ==
  /\ wk.pc \in {"idle", "forget", "register", "lock", "request"} => wk.body = Empty
  /\ wk.pc \in {"lock", "request", "storeContent", "ready"} =>
       wk.entry \in EntryIds /\ current = wk.entry
  /\ wk.pc = "register" /\ ForceSync(wk.view) => current = None
  /\ wk.pc = "lock" => wk.fetcher.target = wk.view.target
  /\ wk.pc = "request" =>
       /\ heap[wk.entry].fetcher.target = wk.view.target
       /\ heap[wk.entry].mode = Mode(wk.view.target)
  /\ wk.pc \in {"lock", "request"} /\ ForceSync(wk.view) => heap[wk.entry].etag = NoEtag

\* The bytes of the pass, about to be stored, and stored.
Storing ==
  /\ Real(wk.body, origin) /\ wk.body.target = wk.view.target
  /\ heap[wk.entry].mode = "url"
  /\ Behind(os.status.synced, wk.body)
  /\ Settled(os) \/ wk.view = os => Answers(wk.body, requested)
  /\ \A r \in Readers :
       rd[r].pc = "rlock" /\ rd[r].entry = wk.entry => Behind(rd[r].floor, wk.body)

OfTheView(b, v) == v.target \notin Bucket /\ TellsApart(v.target) => b.target = v.target

Stores ==
  /\ heap[wk.entry].content = wk.body
  /\ wk.view = os /\ os.token # 0 => Answers(wk.body, requested)
  /\ OfTheView(wk.body, wk.view)

BodyInv == (wk.pc = "storeContent" => Storing) /\ (wk.pc = "ready" => Stores)

CacheInv ==
  /\ current # None =>
       /\ Behind(os.status.synced, heap[current].content)
       /\ Settled(os) => Answers(heap[current].content, requested)
  /\ \A r \in Readers :
       rd[r].pc = "rlock" => Behind(rd[r].floor, heap[rd[r].entry].content)

StatusInv ==
  /\ Settled(os) => Answers(os.status.synced, requested)
  /\ os.status.ready /\ os.status.observed = os.gen => OfTheView(os.status.synced, os)
  /\ \A r \in Readers : Done(r, "url") => Behind(rd[r].floor, rd[r].content)

SInv == OriginInv /\ CopyInv /\ EntryInv /\ PassInv /\ BodyInv /\ CacheInv /\ StatusInv

-----------------------------------------------------------------------------

\* Nothing is behind nothing, and honours every request.
LEMMA Nothing ==
  ASSUME NEW b, NEW o, Genuine(b, o)
  PROVE  Behind(b, Empty) /\ Behind(Empty, b) /\ \A q : Answers(Empty, q)
BY ObjectAssumption DEF Genuine, Real, Behind, Empty, Answers

LEMMA GenuineStays ==
  ASSUME NEW b, NEW o \in [Targets -> Versions], NEW p \in [Targets -> Versions],
         \A t \in Targets : o[t] <= p[t], Genuine(b, o)
  PROVE  Genuine(b, p)
<1>1. CASE b = Empty
  BY <1>1 DEF Genuine
<1>2. CASE Real(b, o)
  <2>1. /\ b.target \in Targets \ Bucket /\ b.ver \in 1..o[b.target]
        /\ o[b.target] \in Versions /\ p[b.target] \in Versions /\ o[b.target] <= p[b.target]
    BY <1>2 DEF Real
  <2>2. b.ver \in 1..p[b.target]
    BY <2>1, ObjectAssumption DEF Versions
  <2> QED
    BY <2>1, <2>2 DEF Genuine, Real
<1> QED
  BY <1>1, <1>2 DEF Genuine

\* The newest version at a target is ahead of everything that has been there.
LEMMA NewestIsAhead ==
  ASSUME NEW o \in [Targets -> Versions], NEW b, Genuine(b, o), NEW t \in Targets \ Bucket
  PROVE  /\ Behind(b, [target |-> t, ver |-> o[t]])
         /\ Real([target |-> t, ver |-> o[t]], o)
<1>1. o[t] \in 1..o[t]
  BY ObjectAssumption DEF Versions
<1>2. Behind(b, [target |-> t, ver |-> o[t]])
  BY ObjectAssumption DEF Genuine, Real, Behind, Empty, Versions
<1> QED
  BY <1>1, <1>2 DEF Real

LEMMA InitSync == Init => SInv
<1> SUFFICES ASSUME Init PROVE SInv
  OBVIOUS
<1>1. PICK t \in Targets : os = NewObject(t, 1)
  BY DEF Init
<1>2. /\ cached = os /\ os.token = 0 /\ os.gen = 1 /\ os.status = NoStatus
      /\ NoStatus.synced = Empty /\ NoStatus.token = 0 /\ NoStatus.observed = 0
      /\ requested = origin /\ \A u \in Targets : origin[u] = 1
      /\ wk.pc = "idle" /\ wk.body = Empty /\ current = None
  BY <1>1 DEF Init, NewObject, NoStatus, Idle
<1>3. \A e \in EntryIds : heap[e].content = Empty /\ heap[e].etag = NoEtag
  BY DEF Init, NoStructs, Fresh
<1>4. \A r \in Readers : rd[r].pc = "idle" /\ rd[r].floor = Empty
  BY DEF Init, ReadIdle
<1>5. OriginInv
  BY <1>2, <1>3, <1>4 DEF OriginInv, Genuine
<1>6. CopyInv
  BY <1>2 DEF CopyInv, Past
<1>7. EntryInv /\ PassInv /\ BodyInv /\ CacheInv
  BY <1>2, <1>3, <1>4 DEF EntryInv, PassInv, BodyInv, CacheInv
<1>8. StatusInv
  BY <1>2, <1>4 DEF StatusInv, Settled, Done
<1> QED
  BY <1>5, <1>6, <1>7, <1>8 DEF SInv

-----------------------------------------------------------------------------
(* Users, servers and informers.                                           *)

LEMMA OutsideSync ==
  ASSUME IInv, SInv, UNCHANGED <<current, heap, rw, wk, rd>>,
         os' \in Objects, origin' \in [Targets -> Versions],
         \A t \in Targets : origin[t] <= origin'[t] /\ requested'[t] <= origin'[t],
         Past(cached', os'),
         wk.pc # "idle" => Past(wk.view, os') /\ (wk.view = os' => os' = os),
         os'.status.synced = os.status.synced \/ os'.status.synced = Empty,
         os'.status.token <= os'.token, os'.status.observed <= os'.gen,
         Settled(os') => Settled(os) /\ os'.status = os.status /\ requested' = requested,
         os' = os => requested' = requested,
         os'.status.ready /\ os'.status.observed = os'.gen =>
           os'.status = os.status /\ os'.gen = os.gen /\ os'.target = os.target
  PROVE  SInv'
<1>0. origin \in [Targets -> Versions]
  BY DEF IInv, TypeOK
<1>1. OriginInv'
  <2>1. \A b : Genuine(b, origin) => Genuine(b, origin')
    BY <1>0, GenuineStays
  <2>2. Genuine(os'.status.synced, origin')
    BY <2>1 DEF SInv, OriginInv, Genuine
  <2> HIDE DEF Genuine
  <2> QED
    BY <2>1, <2>2 DEF SInv, OriginInv
<1>2. CopyInv'
  BY DEF SInv, CopyInv
<1>3. EntryInv' /\ PassInv'
  BY DEF SInv, EntryInv, PassInv
<1>4. \A b : Behind(os.status.synced, b) /\ Genuine(b, origin) => Behind(os'.status.synced, b)
  BY Nothing
<1>5. BodyInv'
  <2>1. ASSUME wk.pc = "storeContent" PROVE Storing'
    <3>1. Storing
      BY <2>1 DEF SInv, BodyInv
    <3>2. Real(wk.body, origin')
      BY <1>0, <3>1, GenuineStays, ObjectAssumption DEF Storing, Genuine, Real, Empty
    <3>3. Behind(os'.status.synced, wk.body)
      BY <1>4, <3>1 DEF Storing, Genuine
    <3>4. Settled(os') \/ wk.view = os' => Answers(wk.body, requested')
      BY <2>1, <3>1 DEF Storing
    <3> QED
      BY <3>1, <3>2, <3>3, <3>4 DEF Storing
  <2>2. ASSUME wk.pc = "ready" PROVE Stores'
    BY <2>2 DEF SInv, BodyInv, Stores
  <2> QED
    BY <2>1, <2>2 DEF BodyInv
<1>6. CacheInv'
  <2>1. ASSUME current # None
        PROVE  /\ Behind(os'.status.synced, heap[current].content)
               /\ Settled(os') => Answers(heap[current].content, requested')
    <3>1. Genuine(heap[current].content, origin) /\ Behind(os.status.synced, heap[current].content)
      BY <2>1 DEF IInv, TypeOK, SInv, OriginInv, CacheInv
    <3> QED
      BY <1>4, <2>1, <3>1 DEF SInv, CacheInv
  <2> QED
    BY <2>1 DEF SInv, CacheInv
<1>7. StatusInv'
  <2>1. Settled(os') => Answers(os'.status.synced, requested')
    BY DEF SInv, StatusInv
  <2>2. os'.status.ready /\ os'.status.observed = os'.gen => OfTheView(os'.status.synced, os')
    BY DEF SInv, StatusInv, OfTheView
  <2> QED
    BY <2>1, <2>2 DEF SInv, StatusInv, Done
<1> QED
  BY <1>1, <1>2, <1>3, <1>5, <1>6, <1>7 DEF SInv

\* The clock of the object: after an edit it is ahead of every copy.
LEMMA EditedIsNew ==
  ASSUME IInv, SInv, os' \in Objects,
         \/ os'.gen > os.gen
         \/ os'.gen = os.gen /\ os'.token > os.token
         \/ os'.gen = os.gen /\ os'.token = os.token /\ ~os'.exists
  PROVE  /\ Past(cached, os')
         /\ wk.pc # "idle" => Past(wk.view, os') /\ wk.view # os'
<1>1. cached \in Objects /\ os \in Objects /\ (wk.pc # "idle" => wk.view \in Objects)
  BY DEF IInv, TypeOK, WorkerInv
<1>2. \A v \in Objects : Past(v, os) => Past(v, os')
  BY <1>1 DEF Past, Objects
<1>3. ASSUME wk.pc # "idle" PROVE wk.view # os'
  <2>1. Past(wk.view, os) /\ wk.view.exists /\ wk.view \in Objects
    BY <1>1, <1>3 DEF SInv, CopyInv
  <2>2. /\ wk.view.gen \in Nat /\ os.gen \in Nat /\ os'.gen \in Nat
        /\ wk.view.token \in Nat /\ os.token \in Nat /\ os'.token \in Nat
    BY <1>1, <2>1, ObjectAssumption DEF Objects
  <2> QED
    BY <2>1, <2>2 DEF Past
<1> QED
  BY <1>1, <1>2, <1>3 DEF SInv, CopyInv

\* What the bounds on copies and requests mean for the numbers.
LEMMA Numbers ==
  ASSUME IInv, SInv
  PROVE  /\ os \in Objects /\ os.gen \in Nat /\ os.token \in Nat /\ os.status \in Statuses
         /\ os.status.token \in Nat /\ os.status.observed \in Nat
         /\ os.status.token <= os.token /\ os.status.observed <= os.gen
         /\ \A t \in Targets : /\ origin[t] \in Nat /\ requested[t] \in Nat
                               /\ requested[t] <= origin[t]
<1>1. os \in Objects /\ origin \in [Targets -> Versions] /\ requested \in [Targets -> Versions]
  BY DEF IInv, TypeOK
<1>2. /\ os.gen \in Nat /\ os.token \in Nat /\ os.status \in Statuses
      /\ os.status.token \in Nat /\ os.status.observed \in Nat
  BY <1>1, ObjectAssumption DEF Objects, Statuses
<1>3. \A t \in Targets : origin[t] \in Nat /\ requested[t] \in Nat
  BY <1>1, ObjectAssumption DEF Versions
<1> QED
  BY <1>1, <1>2, <1>3 DEF SInv, CopyInv, OriginInv

LEMMA EditTargetSync ==
  ASSUME IInv, SInv, NEW t \in Targets, EditTarget(t)
  PROVE  SInv'
<1>1. os' = [exists |-> os.exists, target |-> t, gen |-> os.gen + 1, token |-> os.token,
             status |-> os.status]
  BY DEF EditTarget, IInv, TypeOK, Objects
<1>2. os' \in Objects /\ os'.status = os.status /\ os'.token = os.token /\ os'.gen = os.gen + 1
  BY <1>1 DEF IInv, TypeOK, Objects
<1>3. UNCHANGED <<cached, origin, requested, current, heap, rw, wk, rd>>
  BY DEF EditTarget
<1>4. /\ Past(cached, os')
      /\ wk.pc # "idle" => Past(wk.view, os') /\ wk.view # os'
  BY <1>2, EditedIsNew, Numbers
<1>5. /\ os'.status.token <= os'.token /\ os'.status.observed <= os'.gen
      /\ os'.status.observed # os'.gen /\ os' # os
  BY <1>2, Numbers
<1>6. Settled(os') => Settled(os)
  BY <1>2 DEF Settled
<1>7. origin' \in [Targets -> Versions] /\ \A u \in Targets : origin[u] <= origin'[u] /\ requested'[u] <= origin'[u]
  BY <1>3, Numbers DEF IInv, TypeOK
<1> QED
  BY <1>2, <1>3, <1>4, <1>5, <1>6, <1>7, OutsideSync

LEMMA CreateSync ==
  ASSUME IInv, SInv, NEW t \in Targets, Create(t)
  PROVE  SInv'
<1>1. /\ os' = NewObject(t, os.gen + 1) /\ os.gen \in Nat
      /\ UNCHANGED <<cached, auth, origin, requested, current, heap, rw, wk, rd>>
  BY Numbers DEF Create
<1>2. /\ os' \in Objects /\ os'.gen = os.gen + 1 /\ os'.token = 0 /\ os'.status = NoStatus
      /\ NoStatus.synced = Empty /\ NoStatus.token = 0 /\ NoStatus.observed = 0
      /\ NoStatus.ready = FALSE
  BY <1>1, Constants, ObjectAssumption DEF NewObject, NoStatus, Objects, Statuses
<1>3. /\ Past(cached, os')
      /\ wk.pc # "idle" => Past(wk.view, os') /\ wk.view # os'
  BY <1>1, <1>2, EditedIsNew
<1>4. ~Settled(os') /\ os' # os
  BY <1>1, <1>2 DEF Settled
<1>5. origin' \in [Targets -> Versions] /\ \A u \in Targets : origin[u] <= origin'[u] /\ requested'[u] <= origin'[u]
  BY <1>1, Numbers DEF IInv, TypeOK
<1> QED
  BY <1>1, <1>2, <1>3, <1>4, <1>5, OutsideSync

LEMMA PublishSync ==
  ASSUME IInv, SInv, NEW t \in Targets, Publish(t)
  PROVE  SInv'
<1>1. /\ origin' = [origin EXCEPT ![t] = origin[t] + 1] /\ origin[t] < MaxVersion
      /\ UNCHANGED <<os, cached, auth, requested, current, heap, rw, wk, rd>>
      /\ origin \in [Targets -> Versions] /\ os \in Objects
  BY DEF Publish, IInv, TypeOK
<1>2. origin' \in [Targets -> Versions] /\ \A u \in Targets : origin[u] <= origin'[u]
  BY <1>1, ObjectAssumption DEF Versions
<1>3. \A u \in Targets : requested'[u] <= origin'[u]
  <2>1. \A u \in Targets : origin[u] \in Nat /\ origin'[u] \in Nat
    BY <1>1, <1>2, ObjectAssumption DEF Versions
  <2> QED
    BY <1>1, <1>2, <2>1, Numbers
<1>4. Past(cached, os) /\ (wk.pc # "idle" => Past(wk.view, os))
  BY DEF SInv, CopyInv
<1> QED
  BY <1>1, <1>2, <1>3, <1>4, Numbers, OutsideSync

LEMMA AnnotateSync ==
  ASSUME IInv, SInv, IInv', Annotate
  PROVE  SInv'
<1>1. os' = [exists |-> os.exists, target |-> os.target, gen |-> os.gen, token |-> os.token + 1,
             status |-> os.status]
  BY DEF Annotate, IInv, TypeOK, Objects
<1>2. /\ os' \in Objects /\ os'.status = os.status /\ os'.token = os.token + 1 /\ os'.gen = os.gen
      /\ os'.target = os.target
  BY <1>1 DEF IInv, TypeOK
<1>3. UNCHANGED <<cached, origin, current, heap, rw, wk, rd>> /\ requested' = origin
  BY DEF Annotate
<1>4. /\ Past(cached, os')
      /\ wk.pc # "idle" => Past(wk.view, os') /\ wk.view # os'
  BY <1>2, EditedIsNew, Numbers
<1>5. /\ os'.status.token <= os'.token /\ os'.status.observed <= os'.gen /\ ~Settled(os') /\ os' # os
  BY <1>2, Numbers DEF Settled
<1>6. /\ origin' \in [Targets -> Versions]
      /\ \A u \in Targets : origin[u] <= origin'[u] /\ requested'[u] <= origin'[u]
  BY <1>3, Numbers DEF IInv, TypeOK
<1> QED
  BY <1>2, <1>3, <1>4, <1>5, <1>6, OutsideSync

LEMMA DeleteSync == ASSUME IInv, SInv, Delete PROVE SInv'
<1>1. os' = [exists |-> FALSE, target |-> os.target, gen |-> os.gen, token |-> os.token,
             status |-> os.status]
  BY DEF Delete, IInv, TypeOK, Objects
<1>2. /\ os' \in Objects /\ os'.status = os.status /\ os'.token = os.token /\ os'.gen = os.gen
      /\ os'.target = os.target /\ ~os'.exists
  BY <1>1 DEF IInv, TypeOK, Objects
<1>3. UNCHANGED <<cached, origin, requested, current, heap, rw, wk, rd>>
  BY DEF Delete
<1>4. /\ Past(cached, os')
      /\ wk.pc # "idle" => Past(wk.view, os') /\ wk.view # os'
  BY <1>2, EditedIsNew
<1>5. /\ os'.status.token <= os'.token /\ os'.status.observed <= os'.gen
      /\ Settled(os') => Settled(os)
  BY <1>2, Numbers DEF Settled
<1>6. /\ origin' \in [Targets -> Versions]
      /\ \A u \in Targets : origin[u] <= origin'[u] /\ requested'[u] <= origin'[u]
  BY <1>3, Numbers DEF IInv, TypeOK
<1>7. os' # os
  BY <1>2 DEF Delete
<1> QED
  BY <1>2, <1>3, <1>4, <1>5, <1>6, <1>7, OutsideSync

LEMMA UnseenSync ==
  ASSUME IInv, SInv, cached' \in {cached, os}, UNCHANGED <<os, origin, requested, current, heap, rw, wk, rd>>
  PROVE  SInv'
<1>1. Past(os, os) /\ Past(cached, os) /\ (wk.pc # "idle" => Past(wk.view, os))
  BY Numbers DEF SInv, CopyInv, Past
<1>2. /\ origin' \in [Targets -> Versions]
      /\ \A u \in Targets : origin[u] <= origin'[u] /\ requested'[u] <= origin'[u]
  BY Numbers DEF IInv, TypeOK
<1>3. Past(cached', os')
  BY <1>1
<1> QED
  BY <1>1, <1>2, <1>3, Numbers, OutsideSync

LEMMA RestartSync == ASSUME IInv, SInv, Restart PROVE SInv'
<1>1. /\ UNCHANGED <<os, origin, requested>> /\ cached' = os /\ current' = None
      /\ wk'.pc = "idle" /\ wk'.body = Empty
  BY DEF Restart, Idle
<1>2. \A e \in EntryIds : heap'[e].content = Empty /\ heap'[e].etag = NoEtag
  BY DEF Restart, NoStructs, Fresh
<1>3. \A r \in Readers : rd'[r].pc = "idle" /\ rd'[r].floor = Empty
  BY DEF Restart, ReadIdle
<1>4. OriginInv'
  BY <1>1, <1>2, <1>3 DEF SInv, OriginInv, Genuine
<1>5. CopyInv'
  BY <1>1, Numbers DEF SInv, CopyInv, Past
<1>6. EntryInv' /\ PassInv' /\ BodyInv' /\ CacheInv'
  BY <1>1, <1>2, <1>3 DEF EntryInv, PassInv, BodyInv, CacheInv
<1>7. StatusInv'
  BY <1>1, <1>3 DEF SInv, StatusInv, Done
<1> QED
  BY <1>4, <1>5, <1>6, <1>7 DEF SInv

-----------------------------------------------------------------------------
(* The pass.                                                               *)

\* A step of the pass that leaves object and reads alone.
LEMMA PassSync ==
  ASSUME IInv, SInv, UNCHANGED <<os, cached, origin, requested, rd>>,
         Genuine(wk'.body, origin), \A e \in EntryIds : Genuine(heap'[e].content, origin),
         wk'.pc # "idle" => wk'.view.exists /\ Past(wk'.view, os)
  PROVE  OriginInv' /\ CopyInv' /\ StatusInv'
<1>1. OriginInv'
  BY DEF SInv, OriginInv
<1>2. CopyInv'
  BY DEF SInv, CopyInv
<1>3. StatusInv'
  BY DEF SInv, StatusInv, Done
<1> QED
  BY <1>1, <1>2, <1>3

\* A step that stores nothing: what readers and the status compare with stays.
LEMMA CacheKept ==
  ASSUME IInv, SInv, UNCHANGED <<os, origin, requested, rd>>, current' \in {current, None},
         current' # None => heap'[current].content = heap[current].content,
         \A r \in Readers : rd[r].entry \in EntryIds =>
           heap'[rd[r].entry].content = heap[rd[r].entry].content
  PROVE  CacheInv'
<1>1. \A r \in Readers : rd[r].pc = "rlock" => rd[r].entry \in EntryIds
  BY DEF IInv, ReaderInv
<1> QED
  BY <1>1 DEF SInv, CacheInv

LEMMA EmptyIsGenuine == \A o : Genuine(Empty, o)
BY DEF Genuine

LEMMA BeginSync == ASSUME IInv, SInv, Begin PROVE SInv'
<1>1. /\ wk.pc = "idle" /\ wk.body = Empty
      /\ UNCHANGED <<os, cached, origin, requested, rd>>
  BY DEF Begin, SInv, PassInv
<1>2. \A e \in EntryIds :
        \/ heap'[e] = heap[e]
        \/ heap'[e].mode = "url" /\ heap'[e].content = Empty /\ heap'[e].etag = NoEtag
  BY BeginShape DEF Fresh
<1>3. /\ wk'.pc \in {"idle", "forget", "register"} /\ wk'.body = Empty
      /\ current' \in {current, None} /\ (current' # None => heap'[current] = heap[current])
      /\ wk'.pc # "idle" => /\ wk'.view = cached /\ cached.exists
                            /\ (ForceSync(cached) => wk'.pc = "forget")
  BY <1>1, BeginShape
<1>4. OriginInv' /\ CopyInv' /\ StatusInv'
  <2>1. \A e \in EntryIds : Genuine(heap'[e].content, origin)
    BY <1>2, EmptyIsGenuine DEF SInv, OriginInv
  <2>2. wk'.pc # "idle" => wk'.view.exists /\ Past(wk'.view, os)
    BY <1>3 DEF SInv, CopyInv
  <2> QED
    BY <1>1, <1>3, <2>1, <2>2, EmptyIsGenuine, PassSync
<1>5. EntryInv'
  BY <1>1, <1>2 DEF SInv, EntryInv
<1>6. PassInv' /\ BodyInv'
  BY <1>3 DEF PassInv, BodyInv
<1>7. CacheInv'
  BY <1>1, <1>3, BeginShape, CacheKept
<1> QED
  BY <1>4, <1>5, <1>6, <1>7 DEF SInv

\* The entry is dropped, or the pass ends without a request.
LEMMA NoRequestSync ==
  ASSUME IInv, SInv, ForgetObject \/ BuildFails \/ RequestFails
  PROVE  SInv'
<1>1. /\ wk.pc \in {"forget", "register", "request"} /\ wk.body = Empty
      /\ UNCHANGED <<os, cached, origin, requested, heap, rd>>
      /\ wk'.pc \in {"register", "failed"} /\ wk'.body = wk.body /\ wk'.view = wk.view
      /\ wk'.entry = wk.entry
      /\ current' \in {current, None} /\ (wk'.pc = "register" => current' = None)
  BY DEF ForgetObject, BuildFails, RequestFails, Goto, IInv, TypeOK, SInv, PassInv
<1>2. OriginInv' /\ CopyInv' /\ StatusInv'
  <2>1. /\ \A e \in EntryIds : Genuine(heap'[e].content, origin)
        /\ Genuine(wk'.body, origin) /\ wk'.view.exists /\ Past(wk'.view, os)
    BY <1>1 DEF SInv, OriginInv, CopyInv
  <2> QED
    BY <1>1, <2>1, PassSync
<1>3. EntryInv' /\ PassInv' /\ BodyInv'
  BY <1>1 DEF SInv, EntryInv, PassInv, BodyInv
<1>4. CacheInv'
  BY <1>1, CacheKept
<1> QED
  BY <1>2, <1>3, <1>4 DEF SInv

LEMMA RegisterSync == ASSUME IInv, SInv, Register PROVE SInv'
<1>1. PICK e \in EntryIds :
        /\ wk' = [pc |-> "lock", view |-> wk.view,
                  fetcher |-> [target |-> wk.view.target, cred |-> auth], entry |-> e,
                  etag |-> wk.etag, body |-> wk.body]
        /\ current' = e
        /\ \/ heap' = heap /\ heap[e].mode = Mode(wk.view.target) /\ current = e
           \/ Garbage(e) /\ heap' = [heap EXCEPT ![e] = Fresh(Mode(wk.view.target))]
  BY RegisterShape
<1>2. /\ wk.pc = "register" /\ wk.body = Empty
      /\ UNCHANGED <<os, cached, origin, requested, rd>>
  BY DEF Register, SInv, PassInv
<1>3. /\ wk'.pc = "lock" /\ wk'.view = wk.view /\ wk'.fetcher.target = wk.view.target
      /\ wk'.entry = e /\ wk'.body = Empty
  BY <1>1, <1>2
<1>4. /\ \A d \in EntryIds \ {e} : heap'[d] = heap[d]
      /\ \/ heap'[e] = heap[e] /\ current = e
         \/ /\ Garbage(e) /\ heap'[e].content = Empty /\ heap'[e].etag = NoEtag
  <2>1. heap \in Heaps
    BY Types DEF IInv
  <2> QED
    BY <1>1, <2>1 DEF Heaps, Fresh
<1>5. OriginInv' /\ CopyInv' /\ StatusInv'
  <2>1. \A d \in EntryIds : Genuine(heap'[d].content, origin)
    BY <1>4, EmptyIsGenuine DEF SInv, OriginInv
  <2>2. wk'.view.exists /\ Past(wk'.view, os)
    BY <1>2, <1>3 DEF SInv, CopyInv
  <2> QED
    BY <1>2, <1>3, <2>1, <2>2, EmptyIsGenuine, PassSync
<1>6. EntryInv'
  BY <1>2, <1>3, <1>4 DEF SInv, EntryInv
<1>7. PassInv'
  <2>1. ForceSync(wk.view) => heap'[e].etag = NoEtag
    <3>1. ForceSync(wk.view) => current = None
      BY <1>2 DEF SInv, PassInv
    <3> QED
      BY <1>4, <3>1, ObjectAssumption
  <2> QED
    BY <1>1, <1>3, <2>1 DEF PassInv
<1>8. BodyInv'
  BY <1>3 DEF BodyInv
<1>9. CacheInv'
  <2>1. /\ Behind(os.status.synced, heap'[e].content)
        /\ Settled(os) => Answers(heap'[e].content, requested)
    <3>1. CASE heap'[e] = heap[e] /\ current = e
      BY <3>1, ObjectAssumption DEF SInv, CacheInv
    <3>2. CASE heap'[e].content = Empty
      BY <3>2, Nothing DEF SInv, OriginInv
    <3> QED
      BY <1>4, <3>1, <3>2
  <2>2. ASSUME NEW r \in Readers, rd[r].pc = "rlock"
        PROVE  Behind(rd[r].floor, heap'[rd[r].entry].content)
    <3>1. rd[r].entry \in EntryIds /\ Behind(rd[r].floor, heap[rd[r].entry].content)
      BY <2>2 DEF IInv, ReaderInv, SInv, CacheInv
    <3>2. heap'[rd[r].entry] = heap[rd[r].entry]
      BY <1>4, <3>1 DEF Garbage
    <3> QED
      BY <3>1, <3>2
  <2> QED
    BY <1>1, <1>2, <2>1, <2>2 DEF CacheInv
<1> QED
  BY <1>5, <1>6, <1>7, <1>8, <1>9 DEF SInv

LEMMA LockEntrySync == ASSUME IInv, SInv, LockEntry PROVE SInv'
<1>1. /\ wk.pc = "lock" /\ wk.entry \in EntryIds /\ wk.body = Empty /\ current = wk.entry
      /\ wk.fetcher.target = wk.view.target
      /\ UNCHANGED <<os, cached, origin, requested, current, rd>>
  BY DEF LockEntry, SInv, PassInv
<1>2. /\ wk'.pc = "request" /\ wk'.view = wk.view /\ wk'.entry = wk.entry /\ wk'.body = Empty
      /\ heap'[wk.entry].fetcher = wk.fetcher
      /\ \A e \in EntryIds : /\ heap'[e].mode = heap[e].mode /\ heap'[e].etag = heap[e].etag
                             /\ heap'[e].content = heap[e].content
      /\ heap'[wk.entry].mode = Mode(wk.view.target)
  <2>1. wk' = [pc |-> "request", view |-> wk.view, fetcher |-> None, entry |-> wk.entry,
               etag |-> wk.etag, body |-> wk.body]
    BY LockEntryShape
  <2>2. \A e \in EntryIds :
          /\ heap'[e].mode = heap[e].mode /\ heap'[e].etag = heap[e].etag
          /\ heap'[e].content = heap[e].content
          /\ heap'[e].fetcher = IF e = wk.entry THEN wk.fetcher ELSE heap[e].fetcher
    BY LockEntryShape
  <2>3. heap[wk.entry].mode = Mode(wk.fetcher.target)
    BY LockEntryShape
  <2> QED
    BY <1>1, <2>1, <2>2, <2>3
<1>3. OriginInv' /\ CopyInv' /\ StatusInv'
  <2>1. /\ \A e \in EntryIds : Genuine(heap'[e].content, origin)
        /\ wk'.view.exists /\ Past(wk'.view, os)
    BY <1>1, <1>2 DEF SInv, OriginInv, CopyInv
  <2> QED
    BY <1>1, <1>2, <2>1, EmptyIsGenuine, PassSync
<1>4. EntryInv'
  BY <1>1, <1>2 DEF SInv, EntryInv
<1>5. PassInv' /\ BodyInv'
  BY <1>1, <1>2 DEF SInv, PassInv, BodyInv
<1>6. CacheInv'
  BY <1>1, <1>2, CacheKept
<1> QED
  BY <1>3, <1>4, <1>5, <1>6 DEF SInv

\* A bucket's entry holds no content, and the pass brings none.
LEMMA ProbeSync == ASSUME IInv, SInv, Probe PROVE SInv'
<1>1. /\ wk.pc = "request" /\ wk.entry \in EntryIds /\ wk.body = Empty /\ current = wk.entry
      /\ heap[wk.entry].fetcher \in Fetchers
      /\ heap[wk.entry].fetcher.target = wk.view.target /\ wk.view.target \in Bucket
      /\ UNCHANGED <<os, cached, origin, requested, current, heap, rd>>
      /\ wk'.pc = "ready" /\ wk'.view = wk.view /\ wk'.entry = wk.entry /\ wk'.body = Empty
  BY DEF Probe, Goto, IInv, TypeOK, WorkerInv, SInv, PassInv
<1>2. heap[wk.entry].content = Empty
  <2>1. heap[wk.entry].mode = "bucket"
    BY <1>1 DEF SInv, PassInv, Mode
  <2> QED
    BY <1>1, <2>1 DEF SInv, EntryInv
<1>3. OriginInv' /\ CopyInv' /\ StatusInv'
  <2>1. /\ \A e \in EntryIds : Genuine(heap'[e].content, origin)
        /\ wk'.view.exists /\ Past(wk'.view, os)
    BY <1>1 DEF SInv, OriginInv, CopyInv
  <2> QED
    BY <1>1, <2>1, EmptyIsGenuine, PassSync
<1>4. EntryInv' /\ PassInv'
  BY <1>1 DEF SInv, EntryInv, PassInv
<1>5. BodyInv'
  <2>1. Stores'
    BY <1>1, <1>2 DEF Stores, OfTheView, Answers
  <2> QED
    BY <1>1, <2>1 DEF BodyInv
<1>6. CacheInv'
  BY <1>1, CacheKept
<1> QED
  BY <1>3, <1>4, <1>5, <1>6 DEF SInv

\* What an unmodified entry holds: of the file that the pass asked for, if the ETag
\* tells; and enough for the request of a sync, since an entry made for it has no ETag.
LEMMA NotModifiedSync ==
  ASSUME IInv, SInv, wk.pc = "request", wk.entry \in EntryIds, Asked \in Targets \ Bucket,
         NotModified(Asked, heap[wk.entry].etag)
  PROVE  /\ OfTheView(heap[wk.entry].content, wk.view)
         /\ wk.view = os /\ os.token # 0 => Answers(heap[wk.entry].content, requested)
<1> DEFINE e == heap[wk.entry]
<1>1. /\ e.etag # NoEtag /\ e.etag = EtagOf[Asked][origin[Asked]] /\ Asked = wk.view.target
      /\ origin[Asked] \in Versions
  BY DEF NotModified, SInv, PassInv, IInv, TypeOK, Asked
<1>2. Real(e.content, origin) /\ e.etag = Etag(e.content)
  <2>1. e.content # Empty
    BY <1>1 DEF SInv, EntryInv
  <2> QED
    BY <2>1 DEF SInv, OriginInv, Genuine, IInv, PairInv
<1>3. OfTheView(e.content, wk.view)
  <2>1. /\ e.content.target \in Targets \ Bucket /\ e.content.ver \in Versions
    BY <1>2, ObjectAssumption DEF Real, IInv, TypeOK, Versions
  <2> SUFFICES ASSUME TellsApart(Asked), e.content.target # Asked PROVE FALSE
    BY <1>1 DEF OfTheView
  <2> QED
    BY <1>1, <1>2, <2>1 DEF TellsApart, Etag
<1>4. ASSUME wk.view = os, os.token # 0 PROVE Answers(e.content, requested)
  <2>1. current = wk.entry /\ wk.entry # None
    BY ObjectAssumption DEF SInv, PassInv
  <2>2. ~ForceSync(os)
    BY <1>1, <1>4 DEF SInv, PassInv
  <2>3. Settled(os)
    BY <1>4, <2>2 DEF ForceSync, Settled
  <2> QED
    BY <2>1, <2>3 DEF SInv, CacheInv
<1> QED
  BY <1>3, <1>4

LEMMA GetSync == ASSUME IInv, SInv, Get PROVE SInv'
<1>1. /\ wk.pc = "request" /\ wk.entry \in EntryIds /\ current = wk.entry
      /\ Asked \in Targets \ Bucket /\ Asked = wk.view.target
      /\ UNCHANGED <<os, cached, origin, requested, current, rd>>
      /\ wk.view.exists /\ Past(wk.view, os)
      /\ heap[wk.entry].mode = "url"
  <2>1. /\ wk.pc = "request" /\ wk.entry \in EntryIds /\ Asked \in Targets \ Bucket
        /\ UNCHANGED <<os, cached, auth, origin, requested, current, rd, edits>>
    BY GetShape
  <2> QED
    BY <2>1 DEF SInv, PassInv, CopyInv, Asked, Mode
<1>2. CASE NotModified(Asked, heap[wk.entry].etag)
  <2>1. /\ heap' = heap
        /\ wk'.pc = "ready" /\ wk'.view = wk.view /\ wk'.entry = wk.entry
        /\ wk'.body = heap[wk.entry].content
    <3>1. /\ heap' = heap
          /\ wk' = [pc |-> "ready", view |-> wk.view, fetcher |-> wk.fetcher, entry |-> wk.entry,
                    etag |-> heap[wk.entry].etag, body |-> heap[wk.entry].content]
      BY <1>2, GetShape
    <3> QED
      BY <3>1
  <2>2. OriginInv' /\ CopyInv' /\ StatusInv'
    <3>1. \A e \in EntryIds : Genuine(heap[e].content, origin)
      BY DEF SInv, OriginInv
    <3> QED
      BY <1>1, <2>1, <3>1, PassSync
  <2>3. EntryInv' /\ PassInv'
    BY <1>1, <2>1 DEF SInv, EntryInv, PassInv
  <2>4. BodyInv'
    <3>1. /\ OfTheView(heap[wk.entry].content, wk.view)
          /\ wk.view = os /\ os.token # 0 => Answers(heap[wk.entry].content, requested)
      BY <1>1, <1>2, NotModifiedSync
    <3>2. Stores'
      BY <1>1, <2>1, <3>1 DEF Stores
    <3> QED
      BY <2>1, <3>2 DEF BodyInv
  <2>5. CacheInv'
    BY <1>1, <2>1, CacheKept
  <2> QED
    BY <2>2, <2>3, <2>4, <2>5 DEF SInv
<1>3. CASE ~NotModified(Asked, heap[wk.entry].etag)
  <2>1. /\ wk'.pc = "storeContent" /\ wk'.view = wk.view /\ wk'.entry = wk.entry
        /\ wk'.body = Found
    <3>1. wk' = [pc |-> "storeContent", view |-> wk.view, fetcher |-> wk.fetcher,
                 entry |-> wk.entry, etag |-> Etag(Found), body |-> Found]
      BY <1>3, GetShape
    <3> QED
      BY <3>1
  <2>2. \A d \in EntryIds :
          /\ heap'[d].mode = heap[d].mode /\ heap'[d].content = heap[d].content
          /\ d # wk.entry => heap'[d].etag = heap[d].etag
    BY <1>3, GetShape
  <2>3. /\ Real(Found, origin) /\ Found.target = Asked /\ Found.ver = origin[Asked]
        /\ \A b : Genuine(b, origin) => Behind(b, Found)
    <3>1. origin \in [Targets -> Versions]
      BY DEF IInv, TypeOK
    <3>2. Found = [target |-> Asked, ver |-> origin[Asked]]
      BY DEF Found
    <3>3. Found.target = Asked /\ Found.ver = origin[Asked]
      BY <3>2
    <3>4. \A b : Genuine(b, origin) => Behind(b, Found) /\ Real(Found, origin)
      BY <1>1, <3>1, <3>2, NewestIsAhead
    <3> QED
      BY <3>3, <3>4, EmptyIsGenuine
  <2>4. OriginInv' /\ CopyInv' /\ StatusInv'
    <3>1. \A e \in EntryIds : Genuine(heap'[e].content, origin)
      BY <2>2 DEF SInv, OriginInv
    <3>2. Genuine(wk'.body, origin)
      BY <2>1, <2>3 DEF Genuine
    <3> QED
      BY <1>1, <2>1, <3>1, <3>2, PassSync
  <2>5. EntryInv' /\ PassInv'
    BY <1>1, <2>1, <2>2 DEF SInv, EntryInv, PassInv
  <2>6. BodyInv'
    <3>1. Behind(os.status.synced, Found) /\ \A r \in Readers : Behind(rd[r].floor, Found)
      BY <2>3 DEF SInv, OriginInv
    <3>2. Answers(Found, requested)
      BY <1>1, <2>3, Numbers DEF Answers
    <3>3. heap'[wk.entry].mode = "url"
      BY <1>1, <2>2
    <3>4. Storing'
      BY <1>1, <2>1, <2>3, <3>1, <3>2, <3>3 DEF Storing
    <3> QED
      BY <2>1, <3>4 DEF BodyInv
  <2>7. CacheInv'
    BY <1>1, <2>2, CacheKept, ObjectAssumption
  <2> QED
    BY <2>4, <2>5, <2>6, <2>7 DEF SInv
<1> QED
  BY <1>2, <1>3

LEMMA StoreContentSync == ASSUME IInv, SInv, StoreContent PROVE SInv'
<1>1. /\ wk.pc = "storeContent" /\ wk.entry \in EntryIds /\ current = wk.entry /\ Storing
      /\ UNCHANGED <<os, cached, origin, requested, current, rd>>
      /\ wk.view.exists /\ Past(wk.view, os)
  BY DEF StoreContent, SInv, PassInv, BodyInv, CopyInv, IInv, WorkerInv
<1>2. /\ wk'.pc = "ready" /\ wk'.view = wk.view /\ wk'.entry = wk.entry /\ wk'.body = wk.body
  BY StoreContentShape DEF IInv, TypeOK
<1>3. \A d \in EntryIds :
        /\ heap'[d].mode = heap[d].mode /\ heap'[d].etag = heap[d].etag
        /\ heap'[d].content = IF d = wk.entry THEN wk.body ELSE heap[d].content
  BY StoreContentShape
<1>4. Real(wk.body, origin) /\ Genuine(wk.body, origin) /\ wk.body # Empty
  BY <1>1, ObjectAssumption DEF Storing, Real, Genuine, Empty
<1>5. OriginInv' /\ CopyInv' /\ StatusInv'
  <2>1. \A e \in EntryIds : Genuine(heap'[e].content, origin)
    BY <1>3, <1>4 DEF SInv, OriginInv
  <2> QED
    BY <1>1, <1>2, <1>4, <2>1, PassSync
<1>6. EntryInv'
  <2>1. heap[wk.entry].mode = "url"
    BY <1>1 DEF Storing
  <2> QED
    BY <1>1, <1>2, <1>3, <1>4, <2>1 DEF SInv, EntryInv
<1>7. PassInv'
  BY <1>1, <1>2 DEF PassInv
<1>8. BodyInv'
  <2>1. Stores'
    BY <1>1, <1>2, <1>3 DEF Storing, Stores, OfTheView
  <2> QED
    BY <1>2, <2>1 DEF BodyInv
<1>9. CacheInv'
  <2>1. /\ Behind(os.status.synced, heap'[current].content)
        /\ Settled(os) => Answers(heap'[current].content, requested)
    BY <1>1, <1>3 DEF Storing
  <2>2. ASSUME NEW r \in Readers, rd[r].pc = "rlock"
        PROVE  Behind(rd[r].floor, heap'[rd[r].entry].content)
    <3>1. rd[r].entry \in EntryIds /\ Behind(rd[r].floor, heap[rd[r].entry].content)
      BY <2>2 DEF IInv, ReaderInv, SInv, CacheInv
    <3> QED
      BY <1>1, <1>3, <2>2, <3>1 DEF Storing
  <2> QED
    BY <1>1, <2>1, <2>2 DEF CacheInv
<1> QED
  BY <1>5, <1>6, <1>7, <1>8, <1>9 DEF SInv

\* The status is written for the bytes of the pass, or not ready, or not written.
LEMMA ReportShape ==
  ASSUME IInv, Report
  PROVE  \/ os' = os
         \/ /\ wk.view = os
            /\ os'.exists = os.exists /\ os'.target = os.target /\ os'.gen = os.gen
            /\ os'.token = os.token
            /\ \/ /\ wk.pc = "ready"
                  /\ os'.status.token = os.token /\ os'.status.observed = os.gen
                  /\ os'.status.synced = wk.body
               \/ /\ ~os'.status.ready
                  /\ os'.status.token = os.status.token
                  /\ os'.status.observed = os.status.observed
                  /\ os'.status.synced = os.status.synced
<1>1. CASE wk.view # os
  BY <1>1 DEF Report
<1>2. CASE wk.view = os
  <2>1. os' = [os EXCEPT !.status = Reported]
    BY <1>2 DEF Report
  <2>2. /\ os'.exists = os.exists /\ os'.target = os.target /\ os'.gen = os.gen
        /\ os'.token = os.token /\ os'.status = Reported
    BY <2>1 DEF IInv, TypeOK, Objects
  <2>3. CASE wk.pc = "ready"
    <3>1. /\ Reported.token = os.token /\ Reported.observed = os.gen /\ Reported.synced = wk.body
      BY <1>2, <2>3 DEF Reported
    <3> QED
      BY <1>2, <2>2, <2>3, <3>1
  <2>4. CASE wk.pc # "ready"
    <3>1. Reported = [os.status EXCEPT !.ready = FALSE]
      BY <1>2, <2>4 DEF Reported
    <3>2. /\ Reported.ready = FALSE
          /\ Reported.token = os.status.token /\ Reported.observed = os.status.observed
          /\ Reported.synced = os.status.synced
      BY <3>1 DEF IInv, TypeOK, Objects, Statuses
    <3> QED
      BY <1>2, <2>2, <3>2
  <2> QED
    BY <2>3, <2>4
<1> QED
  BY <1>1, <1>2

LEMMA ReportSync == ASSUME IInv, SInv, Report PROVE SInv'
<1>1. /\ wk.pc \in {"ready", "failed"}
      /\ UNCHANGED <<cached, origin, requested, current, heap, rd>>
      /\ wk'.pc = "idle" /\ wk'.body = Empty
  BY DEF Report, Idle
<1>2. CASE os' = os
  <2>1. OriginInv' /\ CopyInv' /\ StatusInv'
    <3>1. \A e \in EntryIds : Genuine(heap[e].content, origin)
      BY DEF SInv, OriginInv
    <3> QED
      BY <1>1, <1>2, <3>1, EmptyIsGenuine, PassSync
  <2>2. EntryInv' /\ PassInv' /\ BodyInv' /\ CacheInv'
    BY <1>1, <1>2 DEF SInv, EntryInv, PassInv, BodyInv, CacheInv
  <2> QED
    BY <2>1, <2>2 DEF SInv
<1>3. CASE os' # os
  <2>1. /\ wk.view = os
        /\ os'.target = os.target /\ os'.gen = os.gen /\ os'.token = os.token
        /\ \/ /\ wk.pc = "ready"
              /\ os'.status.token = os.token /\ os'.status.observed = os.gen
              /\ os'.status.synced = wk.body
           \/ /\ ~os'.status.ready
              /\ os'.status.token = os.status.token
              /\ os'.status.observed = os.status.observed
              /\ os'.status.synced = os.status.synced
    BY <1>3, ReportShape
  <2>2. /\ \A b : Genuine(b, origin) => b.ver <= b.ver
        /\ wk.pc = "ready" => current = wk.entry /\ Stores
    BY ObjectAssumption DEF Genuine, Real, Empty, SInv, PassInv, BodyInv
  <2>3. OriginInv'
    BY <1>1, <2>1, EmptyIsGenuine DEF SInv, OriginInv
  <2>4. CopyInv'
    BY <1>1, <2>1, Numbers DEF SInv, CopyInv, Past
  <2>5. EntryInv' /\ PassInv' /\ BodyInv'
    BY <1>1 DEF SInv, EntryInv, PassInv, BodyInv
  <2>6. CacheInv'
    <3>1. CASE /\ wk.pc = "ready" /\ os'.status.token = os.token
               /\ os'.status.synced = wk.body
      <4>1. /\ current = wk.entry /\ heap[wk.entry].content = wk.body
            /\ os.token # 0 => Answers(wk.body, requested)
            /\ Behind(wk.body, wk.body)
        BY <2>1, <2>2, <3>1 DEF Stores, SInv, OriginInv, Behind
      <4> QED
        BY <1>1, <2>1, <3>1, <4>1 DEF SInv, CacheInv, Settled
    <3>2. CASE os'.status.token = os.status.token /\ os'.status.synced = os.status.synced
      BY <1>1, <2>1, <3>2 DEF SInv, CacheInv, Settled
    <3> QED
      BY <2>1, <3>1, <3>2
  <2>7. StatusInv'
    <3>1. \A r \in Readers : Done(r, "url")' => Behind(rd'[r].floor, rd'[r].content)
      BY <1>1 DEF SInv, StatusInv, Done
    <3>2. CASE /\ wk.pc = "ready" /\ os'.status.token = os.token
               /\ os'.status.synced = wk.body
      <4>1. /\ os.token # 0 => Answers(wk.body, requested)
            /\ OfTheView(wk.body, os)
        BY <2>1, <2>2, <3>2 DEF Stores
      <4> QED
        BY <1>1, <2>1, <3>1, <3>2, <4>1 DEF StatusInv, Settled, OfTheView
    <3>3. CASE /\ ~os'.status.ready
               /\ os'.status.token = os.status.token /\ os'.status.synced = os.status.synced
      BY <1>1, <2>1, <3>1, <3>3 DEF SInv, StatusInv, Settled
    <3> QED
      BY <2>1, <3>2, <3>3
  <2> QED
    BY <2>3, <2>4, <2>5, <2>6, <2>7 DEF SInv
<1> QED
  BY <1>2, <1>3

-----------------------------------------------------------------------------
(* The reads.                                                              *)

LEMMA OneReadSync ==
  ASSUME IInv, SInv, NEW r \in Readers,
         UNCHANGED <<os, cached, origin, requested, current, heap, wk>>,
         \A q \in Readers \ {r} : rd'[q] = rd[q],
         Genuine(rd'[r].floor, origin),
         rd'[r].pc = "rlock" =>
           /\ Behind(rd'[r].floor, heap[rd'[r].entry].content)
           /\ wk.pc = "storeContent" /\ rd'[r].entry = wk.entry => Behind(rd'[r].floor, wk.body),
         Done(r, "url")' => Behind(rd'[r].floor, rd'[r].content)
  PROVE  SInv'
<1>1. OriginInv'
  BY DEF SInv, OriginInv
<1>2. CopyInv' /\ EntryInv' /\ PassInv'
  BY DEF SInv, CopyInv, EntryInv, PassInv
<1>3. BodyInv'
  <2>1. ASSUME wk.pc = "storeContent" PROVE Storing'
    BY <2>1 DEF SInv, BodyInv, Storing
  <2>2. ASSUME wk.pc = "ready" PROVE Stores'
    BY <2>2 DEF SInv, BodyInv, Stores
  <2> QED
    BY <2>1, <2>2 DEF BodyInv
<1>4. CacheInv'
  BY DEF SInv, CacheInv
<1>5. StatusInv'
  <2>1. ASSUME NEW q \in Readers, Done(q, "url")' PROVE Behind(rd'[q].floor, rd'[q].content)
    <3>1. CASE q = r
      BY <2>1, <3>1
    <3>2. CASE q # r
      BY <2>1, <3>2 DEF SInv, StatusInv, Done
    <3> QED
      BY <3>1, <3>2
  <2> QED
    BY <2>1 DEF SInv, StatusInv
<1> QED
  BY <1>1, <1>2, <1>3, <1>4, <1>5 DEF SInv

\* What the consumer finds is no older than the status it may have seen.
LEMMA ReadLookupSync == ASSUME IInv, SInv, NEW r \in Readers, ReadLookup(r) PROVE SInv'
<1>1. PICK floor \in {os.status.synced, Empty} :
        rd' = [rd EXCEPT ![r] = [pc |-> "rlock", entry |-> current, floor |-> floor,
                                 etag |-> NoEtag, tagged |-> Empty, content |-> Empty]]
  BY ReadLookupShape
<1>2. /\ current \in EntryIds /\ current # None
      /\ UNCHANGED <<os, cached, origin, requested, current, heap, wk>>
  BY DEF ReadLookup, IInv, TypeOK
<1>3. /\ rd'[r].pc = "rlock" /\ rd'[r].entry = current /\ rd'[r].floor = floor
      /\ \A q \in Readers \ {r} : rd'[q] = rd[q]
  BY <1>1 DEF IInv, TypeOK
<1>4. /\ Genuine(floor, origin)
      /\ \A b : Genuine(b, origin) /\ Behind(os.status.synced, b) => Behind(floor, b)
  BY Nothing, EmptyIsGenuine DEF SInv, OriginInv
<1>5. Behind(floor, heap[current].content)
  BY <1>2, <1>4 DEF SInv, OriginInv, CacheInv
<1>6. wk.pc = "storeContent" => Behind(floor, wk.body)
  BY <1>4 DEF SInv, OriginInv, BodyInv, Storing
<1>7. ~Done(r, "url")'
  BY <1>3 DEF Done
<1> QED
  BY <1>2, <1>3, <1>4, <1>5, <1>6, <1>7, OneReadSync

LEMMA ReadCopySync == ASSUME IInv, SInv, NEW r \in Readers, ReadCopy(r) PROVE SInv'
<1> DEFINE e == rd[r].entry
           new == [pc |-> "done", entry |-> None, floor |-> rd[r].floor, etag |-> heap[e].etag,
                   tagged |-> rd[r].tagged, content |-> heap[e].content]
<1>1. \/ rd' = [rd EXCEPT ![r] = ReadIdle]
      \/ rd' = [rd EXCEPT ![r] = new]
  BY ReadCopyShape
<1>2. /\ rd'[r].pc \in {"idle", "done"}
      /\ rd'[r].floor \in {Empty, rd[r].floor}
      /\ rd'[r].pc = "done" => rd'[r].floor = rd[r].floor /\ rd'[r].content = heap[e].content
      /\ \A q \in Readers \ {r} : rd'[q] = rd[q]
  <2>1. r \in DOMAIN rd
    BY DEF IInv, TypeOK
  <2>2. CASE rd' = [rd EXCEPT ![r] = ReadIdle]
    BY <2>1, <2>2 DEF IInv, TypeOK, ReadIdle
  <2>3. CASE rd' = [rd EXCEPT ![r] = new]
    BY <2>1, <2>3 DEF IInv, TypeOK
  <2> QED
    BY <1>1, <2>2, <2>3
<1>3. /\ rd[r].pc = "rlock"
      /\ UNCHANGED <<os, cached, origin, requested, current, heap, wk>>
  BY DEF ReadCopy
<1>4. Genuine(rd'[r].floor, origin)
  BY <1>2, EmptyIsGenuine DEF SInv, OriginInv
<1>5. Done(r, "url")' => Behind(rd'[r].floor, rd'[r].content)
  BY <1>2, <1>3 DEF Done, SInv, CacheInv
<1> QED
  BY <1>2, <1>3, <1>4, <1>5, OneReadSync

\* A read of a bucket keeps its floor, and ends with the version its ETag is of.
LEMMA ReadBucketSync ==
  ASSUME IInv, SInv, NEW r \in Readers, ReadLock(r) \/ ReadRequest(r)
  PROVE  SInv'
<1>1. rd \in [Readers -> [pc : ReadPCs \cup {"idle"}, entry : EntryIds \cup {None},
                          floor : Bytes, etag : Etags, tagged : Bytes, content : Bytes]]
  BY DEF IInv, TypeOK
<1>2. /\ \A q \in Readers \ {r} : rd'[q] = rd[q]
      /\ rd'[r].pc \in {"first", "second", "done"} /\ rd'[r].floor = rd[r].floor
      /\ rd'[r].pc = "done" => rd'[r].tagged # Empty
  <2>1. CASE ReadLock(r)
    <3>1. rd' = [rd EXCEPT ![r].pc = "first"]
      BY <2>1 DEF ReadLock
    <3> QED
      BY <1>1, <3>1
  <2>2. CASE ReadRequest(r) /\ rd[r].pc = "first"
    <3> DEFINE t == heap[rd[r].entry].fetcher.target
               new == [pc |-> "second", entry |-> rd[r].entry, floor |-> rd[r].floor,
                       etag |-> EtagOf[t][origin[t]], tagged |-> [target |-> t, ver |-> origin[t]],
                       content |-> rd[r].content]
    <3>1. rd' = [rd EXCEPT ![r] = new]
      BY <2>2, ReadRequestShape
    <3>2. new.pc = "second" /\ new.floor = rd[r].floor
      OBVIOUS
    <3> HIDE DEF new
    <3> QED
      BY <1>1, <3>1, <3>2
  <2>3. CASE ReadRequest(r) /\ rd[r].pc = "second"
    <3> DEFINE t == heap[rd[r].entry].fetcher.target
               new == [pc |-> "done", entry |-> None, floor |-> rd[r].floor,
                       etag |-> rd[r].etag, tagged |-> rd[r].tagged,
                       content |-> [target |-> t, ver |-> origin[t]]]
    <3>1. rd' = [rd EXCEPT ![r] = new]
      BY <2>3, ReadRequestShape
    <3>2. new.pc = "done" /\ new.floor = rd[r].floor /\ new.tagged = rd[r].tagged
      OBVIOUS
    <3>3. rd[r].tagged # Empty
      BY <2>3 DEF IInv, ReaderInv, HalfRead, Empty, Versions
    <3> HIDE DEF new
    <3> QED
      BY <1>1, <3>1, <3>2, <3>3
  <2> QED
    BY <2>1, <2>2, <2>3 DEF ReadRequest
<1>3. UNCHANGED <<os, cached, origin, requested, current, heap, wk>>
  BY DEF ReadLock, ReadRequest
<1>4. Genuine(rd'[r].floor, origin)
  BY <1>2 DEF SInv, OriginInv
<1>5. ~Done(r, "url")'
  BY <1>2 DEF Done
<1> QED
  BY <1>2, <1>3, <1>4, <1>5, OneReadSync

LEMMA ReadEndsSync == ASSUME IInv, SInv, NEW r \in Readers, ReadFails(r) \/ ReadDone(r) PROVE SInv'
<1>1. rd' = [rd EXCEPT ![r] = ReadIdle]
  BY DEF ReadFails, ReadDone
<1>2. /\ rd'[r].pc = "idle" /\ rd'[r].floor = Empty
      /\ \A q \in Readers \ {r} : rd'[q] = rd[q]
  BY <1>1 DEF IInv, TypeOK, ReadIdle
<1>3. UNCHANGED <<os, cached, origin, requested, current, heap, wk>>
  BY DEF ReadFails, ReadDone
<1>4. ~Done(r, "url")'
  BY <1>2 DEF Done
<1> QED
  BY <1>2, <1>3, <1>4, EmptyIsGenuine, OneReadSync

LEMMA StepSync == ASSUME IInv, SInv, IInv', [Next]_vars PROVE SInv'
<1>1. CASE WorkerStep
  BY <1>1, BeginSync, NoRequestSync, RegisterSync, LockEntrySync, ProbeSync, GetSync,
     StoreContentSync, ReportSync DEF WorkerStep
<1>2. ASSUME NEW r \in Readers, ReadLookup(r) \/ ReadStep(r) PROVE SInv'
  BY <1>2, ReadLookupSync, ReadCopySync, ReadBucketSync, ReadEndsSync DEF ReadStep
<1>3. ASSUME NEW t \in Targets, EditTarget(t) \/ Create(t) \/ Publish(t) PROVE SInv'
  BY <1>3, EditTargetSync, CreateSync, PublishSync
<1>4. CASE \E c \in Creds : EditAuth(c)
  BY <1>4, UnseenSync DEF EditAuth
<1>5. CASE InformerSync
  BY <1>5, UnseenSync DEF InformerSync
<1>6. CASE UNCHANGED vars
  BY <1>6, UnseenSync DEF vars
<1> QED
  BY <1>1, <1>2, <1>3, <1>4, <1>5, <1>6, AnnotateSync, DeleteSync, RestartSync DEF Next

-----------------------------------------------------------------------------

LEMMA SyncInvariance == Spec => []SInv
<1>1. IInv /\ IInv' /\ SInv /\ [Next]_vars => SInv'
  BY StepSync
<1> QED
  BY InitSync, Invariance, <1>1, PTL DEF Spec

\* A force-sync token that the status records was honoured: the bytes the status
\* stands for were at the origin when the token was annotated, or came later.
THEOREM ForceSyncHonoured == Spec => []ForceSyncRefetches
<1>1. SInv => ForceSyncRefetches
  BY DEF SInv, StatusInv, Settled, Answers, ForceSyncRefetches
<1> QED
  BY <1>1, SyncInvariance, PTL

\* Ready at the current generation means that the cached bytes come from the URL that
\* the spec names now, unless another server answers with the same ETag.
THEOREM ReadyMeansFetched == Spec => []ObservedMeansFetched
<1>1. SInv => ObservedMeansFetched
  BY DEF SInv, StatusInv, OfTheView, ObservedMeansFetched
<1> QED
  BY <1>1, SyncInvariance, PTL

\* No read returns bytes older than those the status stood for when it began.
THEOREM ReadsKeepUp == Spec => []ReadNotBehindStatus
<1>1. SInv => ReadNotBehindStatus
  BY DEF SInv, StatusInv, Behind, ReadNotBehindStatus
<1> QED
  BY <1>1, SyncInvariance, PTL
================================================================================
