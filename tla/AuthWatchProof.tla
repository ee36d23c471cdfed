---------------------------- MODULE AuthWatchProof ----------------------------
(***************************************************************************)
(* No rotation of a credential is missed, for any number of sources,       *)
(* Secrets, namespaces and permitted namespaces, with and without a        *)
(* default.  NoMissedWakeup says nothing while anything is on its way, so  *)
(* the invariant says, of every source at every moment, where the wakeup   *)
(* is: queued, in an event, or in the hands of a worker whose reads are    *)
(* still the caches' contents; otherwise the last fetch is up to date with *)
(* the caches.                                                             *)
(***************************************************************************)
EXTENDS AuthWatch, TLAPS

\* The worker has a source when it is not idle, and a key when it needs one.
WorkerInv ==
  /\ wk.pc = "idle" => wk.cr = None
  /\ wk.pc # "idle" => wk.cr \in CRs
  /\ wk.pc = "getSecret" => wk.key \in Secrets

\* A wakeup of c is queued or an event that will cause one has been stored.
Pending(c) ==
  \/ c \in queue
  \/ c \in crEvents
  \/ \E s \in secEvents : s \in IndexValues(c, crCache[c])

\* What the worker has read for c is what the caches hold.
InHand(c) ==
  /\ wk.cr = c
  /\ \/ wk.pc = "getCR"
     \/ wk.pc = "getSecret" /\ wk.key = Resolve(c, crCache[c])
     \/ wk.pc = "fetch" /\ wk.out = Outcome(c, crCache[c], secCache)

UpToDate(c) == wk.cr # c /\ used[c] = Outcome(c, crCache[c], secCache)

WakeInv == \A c \in CRs : Pending(c) \/ InHand(c) \/ UpToDate(c)

IInv == TypeOK /\ WorkerInv /\ WakeInv

-----------------------------------------------------------------------------
(* internal/secretref: the index has what resolution reads.                *)

\* What Resolve returns is a Secret, and an index value of the same reference.
LEMMA ResolveIndexed ==
  ASSUME NEW c \in CRs, NEW ref \in Refs, Resolve(c, ref) # None
  PROVE  /\ Resolve(c, ref) \in Secrets
         /\ Resolve(c, ref) \in IndexValues(c, ref)
         /\ ref # NoCR /\ ref # Anonymous
BY WatchAssumption DEF Resolve, IndexValues, Refs

LEMMA OutcomeResolved ==
  ASSUME NEW c \in CRs, NEW ref \in Refs, NEW f, Resolve(c, ref) # None
  PROVE  Outcome(c, ref, f) = Credential(f[Resolve(c, ref)])
BY ResolveIndexed DEF Outcome

\* The outcome depends on no Secret that is not indexed.
LEMMA OutcomeIndexed ==
  ASSUME NEW c \in CRs, NEW ref \in Refs, NEW f, NEW g,
         \A s \in IndexValues(c, ref) : f[s] = g[s]
  PROVE  Outcome(c, ref, f) = Outcome(c, ref, g)
<1>1. CASE Resolve(c, ref) = None
  BY <1>1 DEF Outcome
<1>2. CASE Resolve(c, ref) # None
  BY <1>2, ResolveIndexed, OutcomeResolved
<1> QED BY <1>1, <1>2

LEMMA OutcomeTyped ==
  ASSUME NEW c \in CRs, NEW ref \in Refs, NEW f \in [Secrets -> Values \cup {Absent}]
  PROVE  Outcome(c, ref, f) \in Outcomes
<1>1. CASE Resolve(c, ref) = None
  BY <1>1 DEF Outcome, Outcomes
<1>2. CASE Resolve(c, ref) # None
  <2>1. f[Resolve(c, ref)] \in Values \cup {Absent}
    BY <1>2, ResolveIndexed
  <2> QED BY <1>2, <2>1, OutcomeResolved DEF Credential, Outcomes
<1> QED BY <1>1, <1>2

-----------------------------------------------------------------------------

LEMMA InitIInv == Init => IInv
BY WatchAssumption DEF Init, IInv, TypeOK, WorkerInv, WakeInv, Pending, Idle, PCs, Outcomes

LEMMA TypeStep ==
  ASSUME TypeOK, WorkerInv, [Next]_vars
  PROVE  TypeOK' /\ WorkerInv'
<1> USE DEF TypeOK, WorkerInv
<1>1. CASE UNCHANGED vars
  BY <1>1 DEF vars
<1>2. ASSUME NEW c \in CRs, NEW ref \in Refs, EditSpec(c, ref) PROVE TypeOK' /\ WorkerInv'
  BY <1>2 DEF EditSpec, Edit
<1>3. ASSUME NEW s \in Secrets, NEW v \in Values \cup {Absent}, EditSecret(s, v)
      PROVE  TypeOK' /\ WorkerInv'
  BY <1>3 DEF EditSecret, Edit
<1>4. ASSUME NEW c \in CRs, StoreCR(c) PROVE TypeOK' /\ WorkerInv'
  BY <1>4 DEF StoreCR
<1>5. ASSUME NEW c \in CRs, HandleCR(c) PROVE TypeOK' /\ WorkerInv'
  BY <1>5 DEF HandleCR, Added
<1>6. ASSUME NEW c \in CRs, Timer(c) PROVE TypeOK' /\ WorkerInv'
  BY <1>6 DEF Timer, Added
<1>7. ASSUME NEW s \in Secrets, StoreSecret(s) PROVE TypeOK' /\ WorkerInv'
  BY <1>7 DEF StoreSecret
<1>8. ASSUME NEW s \in Secrets, HandleSecret(s) PROVE TypeOK' /\ WorkerInv'
  BY <1>8 DEF HandleSecret, Added
<1>9. ASSUME NEW c \in CRs, Begin(c) PROVE TypeOK' /\ WorkerInv'
  BY <1>9 DEF Begin, Idle, PCs, Outcomes
<1>10. CASE GetCR
  <2>1. wk.cr \in CRs /\ crCache[wk.cr] \in Refs
    BY <1>10 DEF GetCR
  <2>2. CASE Resolve(wk.cr, crCache[wk.cr]) # None
    BY <1>10, <2>1, <2>2, ResolveIndexed DEF GetCR, PCs
  <2>3. CASE Resolve(wk.cr, crCache[wk.cr]) = None
    BY <1>10, <2>1, <2>3, OutcomeTyped DEF GetCR, PCs
  <2> QED BY <2>2, <2>3
<1>11. CASE GetSecret
  <2>1. Credential(secCache[wk.key]) \in Outcomes
    BY <1>11 DEF GetSecret, Credential, Outcomes
  <2> QED BY <1>11, <2>1 DEF GetSecret, PCs
<1>12. CASE Fetch
  BY <1>12 DEF Fetch, Idle, PCs, Outcomes
<1>13. CASE Restart
  BY <1>13 DEF Restart, Started, Edit, Idle, PCs, Outcomes
<1> QED BY <1>1, <1>2, <1>3, <1>4, <1>5, <1>6, <1>7, <1>8, <1>9, <1>10, <1>11, <1>12, <1>13
        DEF Next, Worker

\* The wakeup of every source is somewhere after every step.
LEMMA WakeStep ==
  ASSUME IInv, [Next]_vars
  PROVE  WakeInv'
<1> SUFFICES ASSUME NEW d \in CRs PROVE (Pending(d) \/ InHand(d) \/ UpToDate(d))'
  BY DEF WakeInv
<1>0. Pending(d) \/ InHand(d) \/ UpToDate(d)
  BY DEF IInv, WakeInv
<1>t. crCache[d] \in Refs
  BY DEF IInv, TypeOK
<1> USE DEF Pending, InHand, UpToDate
<1>1. CASE UNCHANGED vars
  BY <1>0, <1>1 DEF vars
<1>2. ASSUME NEW c \in CRs, NEW ref \in Refs, EditSpec(c, ref)
      PROVE  (Pending(d) \/ InHand(d) \/ UpToDate(d))'
  BY <1>0, <1>2 DEF EditSpec
<1>3. ASSUME NEW s \in Secrets, NEW v \in Values \cup {Absent}, EditSecret(s, v)
      PROVE  (Pending(d) \/ InHand(d) \/ UpToDate(d))'
  BY <1>0, <1>3 DEF EditSecret
<1>4. ASSUME NEW c \in CRs, StoreCR(c)
      PROVE  (Pending(d) \/ InHand(d) \/ UpToDate(d))'
  BY <1>0, <1>4 DEF StoreCR, IInv, TypeOK
<1>5. ASSUME NEW c \in CRs, HandleCR(c)
      PROVE  (Pending(d) \/ InHand(d) \/ UpToDate(d))'
  BY <1>0, <1>5 DEF HandleCR, Added
<1>6. ASSUME NEW c \in CRs, Timer(c)
      PROVE  (Pending(d) \/ InHand(d) \/ UpToDate(d))'
  BY <1>0, <1>6 DEF Timer, Added
<1>7. ASSUME NEW s \in Secrets, StoreSecret(s)
      PROVE  (Pending(d) \/ InHand(d) \/ UpToDate(d))'
  <2>1. CASE s \in IndexValues(d, crCache[d])
    BY <1>7, <2>1 DEF StoreSecret
  <2>2. CASE s \notin IndexValues(d, crCache[d])
    <3>1. \A x \in IndexValues(d, crCache[d]) : secCache'[x] = secCache[x]
      BY <1>7, <2>2 DEF StoreSecret, IInv, TypeOK
    <3>2. Outcome(d, crCache[d], secCache') = Outcome(d, crCache[d], secCache)
      BY <1>t, <3>1, OutcomeIndexed
    <3> QED BY <1>0, <1>7, <3>2 DEF StoreSecret
  <2> QED BY <2>1, <2>2
<1>8. ASSUME NEW s \in Secrets, HandleSecret(s)
      PROVE  (Pending(d) \/ InHand(d) \/ UpToDate(d))'
  BY <1>0, <1>8 DEF HandleSecret, Added
<1>9. ASSUME NEW c \in CRs, Begin(c)
      PROVE  (Pending(d) \/ InHand(d) \/ UpToDate(d))'
  BY <1>0, <1>9 DEF Begin, Idle, IInv, WorkerInv
<1>10. CASE GetCR
  BY <1>0, <1>10 DEF GetCR, IInv, TypeOK
<1>11. CASE GetSecret
  <2>1. CASE wk.cr = d /\ ~Pending(d)
    <3>1. wk.key = Resolve(d, crCache[d]) /\ wk.key # None
      BY <1>0, <1>11, <2>1, WatchAssumption DEF GetSecret, IInv, WorkerInv
    <3>2. Credential(secCache[wk.key]) = Outcome(d, crCache[d], secCache)
      BY <1>t, <3>1, OutcomeResolved
    <3> QED BY <1>11, <2>1, <3>2 DEF GetSecret, IInv, TypeOK
  <2>2. CASE wk.cr # d \/ Pending(d)
    BY <1>0, <1>11, <2>2 DEF GetSecret, IInv, TypeOK
  <2> QED BY <2>1, <2>2
<1>12. CASE Fetch
  BY <1>0, <1>12, WatchAssumption DEF Fetch, Idle, IInv, TypeOK
<1>13. CASE Restart
  BY <1>13 DEF Restart, Started
<1> QED BY <1>1, <1>2, <1>3, <1>4, <1>5, <1>6, <1>7, <1>8, <1>9, <1>10, <1>11, <1>12, <1>13
        DEF Next, Worker

-----------------------------------------------------------------------------

\* Where the wakeup of every source is, at every moment.
THEOREM Invariant == Spec => []IInv
<1>1. IInv /\ [Next]_vars => IInv'
  BY TypeStep, WakeStep DEF IInv
<1> QED BY <1>1, InitIInv, PTL DEF Spec

\* Queue, events, caches and the worker's locals stay in their ranges.
THEOREM TypeCorrect == Spec => []TypeOK
<1>1. IInv => TypeOK
  BY DEF IInv
<1> QED BY <1>1, Invariant, PTL

\* secretref.go:184-188: whatever the interleaving of edits, rotations, informers
\* and reconciles, a source that is left alone with nothing on its way fetches
\* with what its Secret holds.
THEOREM RotationNotMissed == Spec => []NoMissedWakeup
<1>1. IInv => NoMissedWakeup
  <2> SUFFICES ASSUME IInv, NEW c \in CRs, Settled(c)
               PROVE  used[c] = Outcome(c, spec[c], secret)
    BY DEF NoMissedWakeup
  <2>1. spec[c] \in Refs /\ crCache[c] = spec[c]
    BY DEF Settled, IInv, TypeOK
  <2>2. ~Pending(c) /\ ~InHand(c)
    BY <2>1 DEF Settled, Pending, InHand
  <2>3. used[c] = Outcome(c, spec[c], secCache)
    BY <2>1, <2>2 DEF IInv, WakeInv, UpToDate
  <2>4. Outcome(c, spec[c], secCache) = Outcome(c, spec[c], secret)
    BY <2>1, OutcomeIndexed DEF Settled
  <2> QED BY <2>3, <2>4
<1> QED BY <1>1, Invariant, PTL
===============================================================================
