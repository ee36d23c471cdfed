--------------------------- MODULE TargetSecretProof ---------------------------
(***************************************************************************)
(* The ownership theorems of TargetSecret, for every set of CRs, kinds,    *)
(* names and adopters, with and without informer lag.  OwnerNeverSwitched  *)
(* and AdoptionOptIn need to know, of a worker that is about to update,    *)
(* that the copy it decided on is the Secret that is there as long as its  *)
(* resourceVersion is: that is CopiesCurrent and ViewCurrent below.        *)
(*                                                                         *)
(* DeletesOnlyOwned and NoOrphan are promises of the finalizer, kept only  *)
(* where a read sees the API server.  They need to know what a reconcile   *)
(* may go on relying on after it has read its CR (Tied), and what a        *)
(* cleanup between its look and its deletes knows of the Secrets (Chosen,  *)
(* Cleaned).                                                               *)
(***************************************************************************)
EXTENDS TargetSecret, TLAPS

\* The locals of a reconcile in progress are set.
LocalsSet ==
  \A k \in Kinds : wk[k].pc # "idle" =>
    wk[k].cr \in CRs /\ wk[k].name \in Names /\ wk[k].crView.exists

\* The informer's copy of a Secret is the Secret when it has its version.
CopiesCurrent ==
  \A n \in Names : Cache \in secCurrent[n] => secCache[n] = sec[n]

\* So is the copy of a worker that is about to update ...
ViewCurrent ==
  \A k \in Kinds :
    wk[k].pc = "update" /\ k \in secCurrent[wk[k].name] => wk[k].view = sec[wk[k].name]

\* ... and the adoption rules allowed that copy to be written over.
ViewWritable ==
  \A k \in Kinds : wk[k].pc = "update" => MayWrite(wk[k].cr, wk[k].view)

IInv == TypeOK /\ LocalsSet /\ CopiesCurrent /\ ViewCurrent /\ ViewWritable

LEMMA SecretsFields ==
  ASSUME NEW s \in Secrets
  PROVE  /\ s.exists \in BOOLEAN /\ (~s.exists => s = NoSecret)
         /\ s.managed \in {"none", "us", "other"}
         /\ s.owner \in CRs \cup {None}
<1>1. CASE s = NoSecret
  BY <1>1 DEF NoSecret
<1>2. CASE s # NoSecret
  <2>1. s \in [exists : {TRUE}, managed : {"none", "us", "other"},
              owner : CRs \cup {None}, data : CRs \cup {None}]
    BY <1>2 DEF Secrets
  <2> QED BY <2>1
<1> QED BY <1>1, <1>2

LEMMA DriftedIsSecret ==
  ASSUME NEW s \in Secrets, s.exists
  PROVE  [s EXCEPT !.data = None] \in Secrets
<1>1. s \in [exists : {TRUE}, managed : {"none", "us", "other"},
            owner : CRs \cup {None}, data : CRs \cup {None}]
  <2>1. s # NoSecret
    BY DEF NoSecret
  <2> QED BY <2>1 DEF Secrets
<1> QED BY <1>1 DEF Secrets

LEMMA CRStatesFields ==
  ASSUME NEW v \in CRStates
  PROVE  /\ v.exists => v.target \in Names
         /\ v.exists => [v EXCEPT !.fin = TRUE] \in CRStates
         /\ v.exists => [v EXCEPT !.deleting = TRUE] \in CRStates
         /\ v.exists => \A n \in Names : [v EXCEPT !.target = n] \in CRStates
<1> DEFINE Live == [exists : {TRUE}, deleting : BOOLEAN, fin : BOOLEAN, target : Names]
<1>1. CASE v = NoCR
  BY <1>1 DEF NoCR
<1>2. CASE v # NoCR
  <2>1. v \in Live
    BY <1>2 DEF CRStates
  <2>2. /\ v.target \in Names
        /\ [v EXCEPT !.fin = TRUE] \in Live
        /\ [v EXCEPT !.deleting = TRUE] \in Live
        /\ \A n \in Names : [v EXCEPT !.target = n] \in Live
    BY <2>1
  <2> QED BY <2>2 DEF CRStates
<1> QED BY <1>1, <1>2

LEMMA AppliedIsSecret == ASSUME NEW c \in CRs PROVE Applied(c) \in Secrets
BY DEF Applied, Secrets

LEMMA IdleIsReconcile == Idle \in Reconciles
<1>1. NoSecret \in Secrets /\ NoCR \in CRStates
  BY DEF Secrets, CRStates
<1> QED BY <1>1 DEF Idle, Reconciles

LEMMA InitIInv == Init => IInv
<1> SUFFICES ASSUME Init PROVE IInv
  OBVIOUS
<1>1. NoSecret \in Secrets /\ NoCR \in CRStates
  BY DEF Secrets, CRStates
<1>2. TypeOK
  BY <1>1, IdleIsReconcile, TargetAssumption DEF Init, TypeOK, Holders
<1> QED BY <1>2 DEF IInv, LocalsSet, CopiesCurrent, ViewCurrent, ViewWritable, Init, Idle

(* Type correctness, one lemma for the operator, one for its environment.  *)

LEMMA WriteSecTyped ==
  ASSUME TypeOK, NEW n \in Names, NEW s \in Secrets, WriteSec(n, s)
  PROVE  sec' \in [Names -> Secrets] /\ secCurrent' \in [Names -> SUBSET Holders]
BY DEF TypeOK, WriteSec

LEMMA WriteCRTyped ==
  ASSUME TypeOK, NEW c \in CRs, NEW v \in CRStates, WriteCR(c, v)
  PROVE  cr' \in [CRs -> CRStates] /\ crCurrent' \in [CRs -> SUBSET Holders]
BY DEF TypeOK, WriteCR

LEMMA GotoTyped ==
  ASSUME TypeOK, LocalsSet, NEW k \in Kinds, wk[k].pc # "idle", NEW pc \in PCs, Goto(k, pc)
  PROVE  wk' \in [Kinds -> Reconciles] /\ LocalsSet'
<1>1. pc # "idle" /\ pc \in PCs \cup {"idle"}
  BY DEF PCs
<1>2. wk' = [wk EXCEPT ![k] = [wk[k] EXCEPT !.pc = pc]]
  BY DEF Goto, TypeOK
<1>3. [wk[k] EXCEPT !.pc = pc] \in Reconciles
  BY <1>1 DEF TypeOK, Reconciles
<1> QED BY <1>2, <1>3 DEF TypeOK, LocalsSet, Reconciles

LEMMA IdleTyped ==
  ASSUME TypeOK, LocalsSet, NEW k \in Kinds, wk' = [wk EXCEPT ![k] = Idle]
  PROVE  wk' \in [Kinds -> Reconciles] /\ LocalsSet'
BY IdleIsReconcile DEF TypeOK, LocalsSet, Idle

\* A worker's locals after a read of its own.
LEMMA LocalsTyped ==
  ASSUME TypeOK, LocalsSet, NEW k \in Kinds, NEW r \in Reconciles,
         r.pc # "idle" => r.cr \in CRs /\ r.name \in Names /\ r.crView.exists,
         wk' = [wk EXCEPT ![k] = r]
  PROVE  wk' \in [Kinds -> Reconciles] /\ LocalsSet'
BY DEF TypeOK, LocalsSet

LEMMA StepTyped ==
  ASSUME TypeOK, LocalsSet, NEW k \in Kinds, Step(k)
  PROVE  TypeOK' /\ LocalsSet'
<1> DEFINE c == wk[k].cr
           n == wk[k].name
<1>0. NoSecret \in Secrets /\ NoCR \in CRStates
  BY DEF Secrets, CRStates
<1>1. ASSUME wk[k].pc # "idle"
      PROVE  c \in CRs /\ n \in Names /\ wk[k] \in Reconciles /\ wk[k].crView.exists
  BY <1>1 DEF LocalsSet, TypeOK
<1>2. CASE AddFinalizer(k)
  <2>1. c \in CRs /\ [wk[k].crView EXCEPT !.fin = TRUE] \in CRStates
    BY <1>1, <1>2, CRStatesFields DEF AddFinalizer, Reconciles
  <2>2. cr' \in [CRs -> CRStates] /\ crCurrent' \in [CRs -> SUBSET Holders]
    BY <1>2, <2>1, WriteCRTyped DEF AddFinalizer, TypeOK
  <2>3. wk' \in [Kinds -> Reconciles] /\ LocalsSet'
    BY <1>2, IdleTyped DEF AddFinalizer
  <2> QED BY <1>2, <2>2, <2>3 DEF AddFinalizer, TypeOK, secVars
<1>3. CASE PipelineFails(k)
  <2>1. wk' \in [Kinds -> Reconciles] /\ LocalsSet'
    BY <1>3, GotoTyped DEF PipelineFails, PCs
  <2> QED BY <1>3, <2>1 DEF PipelineFails, TypeOK, crVars, secVars
<1>4. CASE GetTarget(k)
  <2> DEFINE s == SecSeen(n)
             pc == CASE ~s.exists -> "create"
                     [] s.exists /\ MayWrite(c, s) /\ Changes(c, s) -> "update"
                     [] OTHER -> "status"
             r == [wk[k] EXCEPT !.view = s, !.pc = pc]
  <2>1. c \in CRs /\ n \in Names /\ wk[k] \in Reconciles /\ wk[k].crView.exists
    BY <1>1, <1>4 DEF GetTarget
  <2>2. s \in Secrets
    BY <2>1 DEF SecSeen, TypeOK
  <2>3. pc \in PCs
    BY DEF PCs
  <2> HIDE DEF pc
  <2>4. r \in Reconciles /\ r.cr = c /\ r.name = n /\ r.crView = wk[k].crView
    BY <2>1, <2>2, <2>3 DEF Reconciles
  <2>5. wk' = [wk EXCEPT ![k] = r]
    BY <1>4 DEF GetTarget, pc, TypeOK
  <2>6. wk' \in [Kinds -> Reconciles] /\ LocalsSet'
    BY <2>1, <2>4, <2>5, LocalsTyped
  <2>7. secCurrent' \in [Names -> SUBSET Holders]
    BY <1>4, <2>1 DEF GetTarget, SecReadBy, TypeOK, Holders
  <2> QED BY <1>4, <2>6, <2>7 DEF GetTarget, TypeOK, crVars
<1>5. CASE CreateTarget(k)
  <2>1. sec' \in [Names -> Secrets] /\ secCurrent' \in [Names -> SUBSET Holders]
    BY <1>1, <1>5, WriteSecTyped, AppliedIsSecret DEF CreateTarget, TypeOK
  <2>2. wk' \in [Kinds -> Reconciles] /\ LocalsSet'
    BY <1>5, GotoTyped DEF CreateTarget, PCs
  <2> QED BY <1>5, <2>1, <2>2 DEF CreateTarget, TypeOK, crVars
<1>6. CASE UpdateTarget(k)
  <2>1. sec' \in [Names -> Secrets] /\ secCurrent' \in [Names -> SUBSET Holders]
    BY <1>1, <1>6, WriteSecTyped, AppliedIsSecret DEF UpdateTarget, TypeOK
  <2>2. wk' \in [Kinds -> Reconciles] /\ LocalsSet'
    BY <1>6, GotoTyped DEF UpdateTarget, PCs
  <2> QED BY <1>6, <2>1, <2>2 DEF UpdateTarget, TypeOK, crVars
<1>7. CASE UpdateStatus(k)
  <2>1. c \in CRs /\ cr[c] \in CRStates
    BY <1>1, <1>7 DEF UpdateStatus, TypeOK
  <2>2. cr' \in [CRs -> CRStates] /\ crCurrent' \in [CRs -> SUBSET Holders]
    BY <1>7, <2>1, WriteCRTyped DEF UpdateStatus, TypeOK
  <2>3. wk' \in [Kinds -> Reconciles] /\ LocalsSet'
    BY <1>7, IdleTyped DEF UpdateStatus
  <2> QED BY <1>7, <2>2, <2>3 DEF UpdateStatus, TypeOK, secVars
<1>8. CASE GetOwned(k)
  <2> DEFINE todo == {m \in Candidates(c, n) : OwnedBy(c, SecSeen(m))}
             pc == AfterOwned(todo)
             r == [wk[k] EXCEPT !.todo = todo, !.pc = pc]
  <2>1. c \in CRs /\ n \in Names /\ wk[k] \in Reconciles /\ wk[k].crView.exists
    BY <1>1, <1>8 DEF GetOwned
  <2>2. todo \in SUBSET Names
    BY <2>1, TargetAssumption DEF Candidates
  <2>3. pc \in PCs
    BY DEF AfterOwned, PCs
  <2>4. wk' = [wk EXCEPT ![k] = r]
    BY <1>8 DEF GetOwned, TypeOK
  <2> HIDE DEF pc, todo
  <2>5. r \in Reconciles /\ r.cr = c /\ r.name = n /\ r.crView = wk[k].crView
    BY <2>1, <2>2, <2>3 DEF Reconciles
  <2>6. wk' \in [Kinds -> Reconciles] /\ LocalsSet'
    BY <2>1, <2>4, <2>5, LocalsTyped
  <2> QED BY <1>8, <2>6 DEF GetOwned, TypeOK, crVars, secVars
<1>9. CASE DeleteOwned(k)
  <2>1. wk[k] \in Reconciles /\ wk[k].crView.exists /\ c \in CRs /\ n \in Names
    BY <1>1, <1>9 DEF DeleteOwned
  <2>2. PICK m \in wk[k].todo :
          /\ IF sec[m].exists THEN WriteSec(m, NoSecret) ELSE UNCHANGED <<sec, secCurrent>>
          /\ wk' = [wk EXCEPT ![k].todo = @ \ {m}, ![k].pc = AfterOwned(wk[k].todo \ {m})]
    BY <1>9 DEF DeleteOwned
  <2> DEFINE pc == AfterOwned(wk[k].todo \ {m})
             r == [wk[k] EXCEPT !.todo = wk[k].todo \ {m}, !.pc = pc]
  <2>3. m \in Names
    BY <2>1, <2>2 DEF Reconciles
  <2>4. sec' \in [Names -> Secrets] /\ secCurrent' \in [Names -> SUBSET Holders]
    BY <1>0, <2>2, <2>3, WriteSecTyped DEF TypeOK
  <2>5. wk' = [wk EXCEPT ![k] = r]
    BY <2>2 DEF TypeOK
  <2>6. pc \in PCs
    BY DEF AfterOwned, PCs
  <2> HIDE DEF pc
  <2>7. r \in Reconciles /\ r.cr = c /\ r.name = n /\ r.crView = wk[k].crView
    BY <2>1, <2>6 DEF Reconciles
  <2>8. wk' \in [Kinds -> Reconciles] /\ LocalsSet'
    BY <2>1, <2>5, <2>7, LocalsTyped
  <2> QED BY <1>9, <2>4, <2>8 DEF DeleteOwned, TypeOK, crVars
<1>10. CASE RemoveFinalizer(k)
  <2>1. cr' \in [CRs -> CRStates] /\ crCurrent' \in [CRs -> SUBSET Holders]
    BY <1>0, <1>1, <1>10, WriteCRTyped DEF RemoveFinalizer, TypeOK
  <2>2. wk' \in [Kinds -> Reconciles] /\ LocalsSet'
    BY <1>10, IdleTyped DEF RemoveFinalizer
  <2> QED BY <1>10, <2>1, <2>2 DEF RemoveFinalizer, TypeOK, secVars
<1> QED BY <1>2, <1>3, <1>4, <1>5, <1>6, <1>7, <1>8, <1>9, <1>10 DEF Step

LEMMA StartTyped ==
  ASSUME TypeOK, LocalsSet, NEW k \in Kinds, NEW c \in CRs, Start(k, c)
  PROVE  TypeOK' /\ LocalsSet'
<1> DEFINE v == CRSeen(c)
           pc == FirstStep(v)
           r == [Idle EXCEPT !.pc = pc, !.cr = c, !.crView = v, !.name = v.target]
<1>1. v \in CRStates /\ v.exists
  BY DEF Start, CRSeen, TypeOK
<1>2. v.target \in Names
  BY <1>1, CRStatesFields
<1>3. pc \in PCs
  BY DEF FirstStep, PCs
<1>4. wk' = [wk EXCEPT ![k] = r]
  BY DEF Start
<1>5. crCurrent' \in [CRs -> SUBSET Holders]
  BY DEF Start, CRReadBy, TypeOK, Holders
<1> HIDE DEF v, pc
<1>6. r \in Reconciles /\ r.cr = c /\ r.name = v.target /\ r.crView = v
  BY <1>1, <1>2, <1>3, IdleIsReconcile DEF Reconciles, Idle
<1>7. wk' \in [Kinds -> Reconciles] /\ LocalsSet'
  BY <1>1, <1>2, <1>4, <1>6, LocalsTyped
<1> QED BY <1>5, <1>7 DEF Start, TypeOK, secVars

LEMMA InformersTyped ==
  ASSUME TypeOK, LocalsSet, Informers
  PROVE  TypeOK' /\ LocalsSet'
<1>1. ASSUME NEW c \in CRs, SyncCR(c) PROVE TypeOK' /\ LocalsSet'
  BY <1>1 DEF SyncCR, TypeOK, LocalsSet, secVars, Holders
<1>2. ASSUME NEW n \in Names, SyncSecret(n) PROVE TypeOK' /\ LocalsSet'
  BY <1>2 DEF SyncSecret, TypeOK, LocalsSet, crVars, Holders
<1> QED BY <1>1, <1>2 DEF Informers

LEMMA EnvironmentTyped ==
  ASSUME TypeOK, LocalsSet, Environment
  PROVE  TypeOK' /\ LocalsSet'
<1>0. NoSecret \in Secrets /\ NoCR \in CRStates
  BY DEF Secrets, CRStates
<1>1. ASSUME Edit PROVE edits' \in 0..MaxEdits
  BY <1>1, TargetAssumption DEF Edit, TypeOK
<1>2. ASSUME NEW c \in CRs, NEW v \in CRStates, WriteCR(c, v), Edit,
             UNCHANGED <<crCache, secVars, wk>>
      PROVE  TypeOK' /\ LocalsSet'
  BY <1>1, <1>2, WriteCRTyped DEF TypeOK, LocalsSet, secVars
<1>3. ASSUME NEW n \in Names, NEW s \in Secrets, WriteSec(n, s), Edit,
             UNCHANGED <<crVars, secCache, wk>>
      PROVE  TypeOK' /\ LocalsSet'
  BY <1>1, <1>3, WriteSecTyped DEF TypeOK, LocalsSet, crVars
<1>4. ASSUME NEW c \in CRs, NEW n \in Names, CreateCR(c, n) PROVE TypeOK' /\ LocalsSet'
  <2>1. [exists |-> TRUE, deleting |-> FALSE, fin |-> FALSE, target |-> n] \in CRStates
    BY DEF CRStates
  <2> QED BY <1>2, <1>4, <2>1 DEF CreateCR
<1>5. ASSUME NEW c \in CRs, NEW n \in Names, Retarget(c, n) PROVE TypeOK' /\ LocalsSet'
  <2>1. [cr[c] EXCEPT !.target = n] \in CRStates
    BY <1>5, CRStatesFields DEF Retarget, TypeOK
  <2> QED BY <1>2, <1>5, <2>1 DEF Retarget
<1>6. ASSUME NEW c \in CRs, DeleteCR(c) PROVE TypeOK' /\ LocalsSet'
  <2>1. [cr[c] EXCEPT !.deleting = TRUE] \in CRStates
    BY <1>6, CRStatesFields DEF DeleteCR, TypeOK
  <2> QED BY <1>0, <1>2, <1>6, <2>1 DEF DeleteCR
<1>7. ASSUME NEW n \in Names, NEW m \in {"none", "other"}, UserCreates(n, m)
      PROVE  TypeOK' /\ LocalsSet'
  <2>1. [exists |-> TRUE, managed |-> m, owner |-> None, data |-> None] \in Secrets
    BY DEF Secrets
  <2> QED BY <1>3, <1>7, <2>1 DEF UserCreates
<1>8. ASSUME NEW n \in Names, UserDeletes(n) PROVE TypeOK' /\ LocalsSet'
  BY <1>0, <1>3, <1>8 DEF UserDeletes
<1>9. ASSUME NEW n \in Names, UserDrifts(n) PROVE TypeOK' /\ LocalsSet'
  BY <1>3, <1>9, DriftedIsSecret DEF UserDrifts, TypeOK
<1>10. ASSUME Restart PROVE TypeOK' /\ LocalsSet'
  BY <1>1, <1>10, IdleIsReconcile DEF Restart, TypeOK, LocalsSet, Idle, Holders
<1> QED BY <1>4, <1>5, <1>6, <1>7, <1>8, <1>9, <1>10 DEF Environment

LEMMA NextTyped ==
  ASSUME TypeOK, LocalsSet, [Next]_vars
  PROVE  TypeOK' /\ LocalsSet'
<1>1. CASE UNCHANGED vars
  BY <1>1 DEF vars, TypeOK, LocalsSet
<1>2. CASE Next
  BY <1>2, StepTyped, StartTyped, InformersTyped, EnvironmentTyped DEF Next, Operator
<1> QED BY <1>1, <1>2

(* What a worker that is about to update knows of the Secret.              *)

Views == CopiesCurrent /\ ViewCurrent /\ ViewWritable

\* No step but GetTarget makes a worker ready to update, and a write leaves
\* no copy current.
LEMMA ViewsKept ==
  ASSUME TypeOK, LocalsSet, Views, secCache' = secCache,
         \/ UNCHANGED <<sec, secCurrent>>
         \/ \E n \in Names, s \in Secrets : WriteSec(n, s),
         \A k \in Kinds : wk'[k].pc = "update" => wk'[k] = wk[k]
  PROVE  Views'
<1>1. CASE UNCHANGED <<sec, secCurrent>>
  <2>1. CopiesCurrent' /\ ViewCurrent'
    BY <1>1 DEF Views, CopiesCurrent, ViewCurrent
  <2>2. ViewWritable'
    BY DEF Views, ViewWritable, MayWrite
  <2> QED BY <2>1, <2>2 DEF Views
<1>2. ASSUME NEW n \in Names, NEW s \in Secrets, WriteSec(n, s) PROVE Views'
  <2>1. \A m \in Names : m = n \/ (sec'[m] = sec[m] /\ secCurrent'[m] = secCurrent[m])
    BY <1>2 DEF WriteSec, TypeOK
  <2>2. secCurrent'[n] = {}
    BY <1>2 DEF WriteSec, TypeOK
  <2>3. CopiesCurrent'
    BY <2>1, <2>2 DEF Views, CopiesCurrent
  <2>4. ViewCurrent'
    BY <2>1, <2>2 DEF Views, ViewCurrent, LocalsSet
  <2>5. ViewWritable'
    BY DEF Views, ViewWritable, MayWrite
  <2> QED BY <2>3, <2>4, <2>5 DEF Views
<1> QED BY <1>1, <1>2

LEMMA GetTargetViews ==
  ASSUME TypeOK, LocalsSet, Views, NEW k \in Kinds, GetTarget(k)
  PROVE  Views'
<1> DEFINE c == wk[k].cr
           n == wk[k].name
           s == SecSeen(n)
<1>1. k # Cache /\ c \in CRs /\ n \in Names
  BY CacheIsNoWorker DEF GetTarget, LocalsSet
<1>2. /\ wk'[k].view = s /\ wk'[k].cr = c /\ wk'[k].name = n
      /\ wk'[k].pc = "update" => MayWrite(c, s)
      /\ \A j \in Kinds : j # k => wk'[j] = wk[j]
  BY DEF GetTarget, TypeOK, Reconciles
<1>3. /\ secCurrent'[n] = SecReadBy(k, n)
      /\ \A m \in Names : m # n => secCurrent'[m] = secCurrent[m]
      /\ sec' = sec /\ secCache' = secCache
  BY <1>1 DEF GetTarget, TypeOK
<1>4. CopiesCurrent'
  BY <1>1, <1>3 DEF Views, CopiesCurrent, SecReadBy
<1>5. k \in SecReadBy(k, n) => s = sec[n]
  BY <1>1 DEF SecReadBy, SecSeen, Views, CopiesCurrent
<1>6. \A j \in Kinds : j # k /\ j \in secCurrent'[wk[j].name] /\ wk[j].name \in Names
                         => j \in secCurrent[wk[j].name]
  BY <1>3 DEF SecReadBy
<1>7. ViewCurrent'
  <2> SUFFICES ASSUME NEW j \in Kinds, wk'[j].pc = "update", j \in secCurrent'[wk'[j].name]
               PROVE  wk'[j].view = sec'[wk'[j].name]
    BY DEF ViewCurrent
  <2>1. CASE j = k
    BY <2>1, <1>2, <1>3, <1>5
  <2>2. CASE j # k
    BY <2>2, <1>2, <1>3, <1>6 DEF Views, ViewCurrent, LocalsSet
  <2> QED BY <2>1, <2>2
<1>8. ViewWritable'
  <2> SUFFICES ASSUME NEW j \in Kinds, wk'[j].pc = "update"
               PROVE  MayWrite(wk'[j].cr, wk'[j].view)
    BY DEF ViewWritable, MayWrite
  <2>1. CASE j = k
    BY <2>1, <1>2
  <2>2. CASE j # k
    BY <2>2, <1>2 DEF Views, ViewWritable
  <2> QED BY <2>1, <2>2
<1> QED BY <1>4, <1>7, <1>8 DEF Views

LEMMA StepViews ==
  ASSUME TypeOK, LocalsSet, Views, NEW k \in Kinds, Step(k)
  PROVE  Views'
<1>0. NoSecret \in Secrets
  BY DEF Secrets
<1>1. ASSUME NEW pc, pc # "update", Goto(k, pc)
      PROVE  \A j \in Kinds : wk'[j].pc = "update" => wk'[j] = wk[j]
  BY <1>1 DEF Goto, TypeOK, Reconciles
<1>2. ASSUME wk' = [wk EXCEPT ![k] = Idle]
      PROVE  \A j \in Kinds : wk'[j].pc = "update" => wk'[j] = wk[j]
  BY <1>2 DEF Idle, TypeOK
<1>3. CASE AddFinalizer(k)
  BY <1>2, <1>3, ViewsKept DEF AddFinalizer, secVars
<1>4. CASE PipelineFails(k)
  BY <1>1, <1>4, ViewsKept DEF PipelineFails, secVars
<1>5. CASE GetTarget(k)
  BY <1>5, GetTargetViews
<1>6. CASE CreateTarget(k)
  <2>1. UNCHANGED <<sec, secCurrent>> \/ \E n \in Names, s \in Secrets : WriteSec(n, s)
    BY <1>6, AppliedIsSecret DEF CreateTarget, LocalsSet
  <2> QED BY <1>1, <1>6, <2>1, ViewsKept DEF CreateTarget
<1>7. CASE UpdateTarget(k)
  <2>1. UNCHANGED <<sec, secCurrent>> \/ \E n \in Names, s \in Secrets : WriteSec(n, s)
    BY <1>7, AppliedIsSecret DEF UpdateTarget, LocalsSet
  <2> QED BY <1>1, <1>7, <2>1, ViewsKept DEF UpdateTarget
<1>8. CASE UpdateStatus(k)
  BY <1>2, <1>8, ViewsKept DEF UpdateStatus, secVars
<1>9. CASE GetOwned(k)
  <2>1. \A j \in Kinds : wk'[j].pc = "update" => wk'[j] = wk[j]
    BY <1>9 DEF GetOwned, AfterOwned, TypeOK, Reconciles
  <2> QED BY <1>9, <2>1, ViewsKept DEF GetOwned, secVars
<1>10. CASE DeleteOwned(k)
  <2>1. \A j \in Kinds : wk'[j].pc = "update" => wk'[j] = wk[j]
    BY <1>10 DEF DeleteOwned, AfterOwned, TypeOK, Reconciles
  <2>2. UNCHANGED <<sec, secCurrent>> \/ \E n \in Names, s \in Secrets : WriteSec(n, s)
    BY <1>0, <1>10 DEF DeleteOwned, TypeOK, Reconciles
  <2> QED BY <1>10, <2>1, <2>2, ViewsKept DEF DeleteOwned
<1>11. CASE RemoveFinalizer(k)
  BY <1>2, <1>11, ViewsKept DEF RemoveFinalizer, secVars
<1> QED BY <1>3, <1>4, <1>5, <1>6, <1>7, <1>8, <1>9, <1>10, <1>11 DEF Step

LEMMA EnvironmentViews ==
  ASSUME TypeOK, LocalsSet, Views, Environment
  PROVE  Views'
<1>0. NoSecret \in Secrets
  BY DEF Secrets
<1>1. ASSUME UNCHANGED <<secVars, wk>> PROVE Views'
  BY <1>1, ViewsKept DEF secVars
<1>2. ASSUME NEW n \in Names, NEW s \in Secrets, WriteSec(n, s), UNCHANGED <<secCache, wk>>
      PROVE  Views'
  BY <1>2, ViewsKept
<1>3. ASSUME NEW c \in CRs, DeleteCR(c) \/ \E n \in Names : CreateCR(c, n) \/ Retarget(c, n)
      PROVE  Views'
  BY <1>1, <1>3 DEF CreateCR, Retarget, DeleteCR
<1>4. ASSUME NEW n \in Names, NEW m \in {"none", "other"}, UserCreates(n, m) PROVE Views'
  <2>1. [exists |-> TRUE, managed |-> m, owner |-> None, data |-> None] \in Secrets
    BY DEF Secrets
  <2> QED BY <1>2, <1>4, <2>1 DEF UserCreates
<1>5. ASSUME NEW n \in Names, UserDeletes(n) PROVE Views'
  BY <1>0, <1>2, <1>5 DEF UserDeletes
<1>6. ASSUME NEW n \in Names, UserDrifts(n) PROVE Views'
  BY <1>2, <1>6, DriftedIsSecret DEF UserDrifts, TypeOK
<1>7. ASSUME Restart PROVE Views'
  <2>1. CopiesCurrent'
    BY <1>7 DEF Restart, CopiesCurrent
  <2>2. \A k \in Kinds : wk'[k].pc # "update"
    BY <1>7 DEF Restart, Idle
  <2>3. ViewCurrent'
    BY <2>2 DEF ViewCurrent
  <2>4. ViewWritable'
    BY <2>2 DEF ViewWritable
  <2> QED BY <2>1, <2>3, <2>4 DEF Views
<1> QED BY <1>3, <1>4, <1>5, <1>6, <1>7 DEF Environment

LEMMA NextViews ==
  ASSUME TypeOK, LocalsSet, Views, [Next]_vars
  PROVE  Views'
<1>1. CASE UNCHANGED vars
  BY <1>1, ViewsKept DEF vars
<1>2. ASSUME NEW k \in Kinds, NEW c \in CRs, Start(k, c) PROVE Views'
  <2>1. \A j \in Kinds : wk'[j].pc = "update" => wk'[j] = wk[j]
    BY <1>2 DEF Start, FirstStep, TypeOK, Idle
  <2> QED BY <1>2, <2>1, ViewsKept DEF Start, secVars
<1>3. ASSUME NEW c \in CRs, SyncCR(c) PROVE Views'
  BY <1>3, ViewsKept DEF SyncCR, secVars
<1>4. ASSUME NEW n \in Names, SyncSecret(n) PROVE Views'
  <2>1. \A m \in Names : m = n \/ (secCache'[m] = secCache[m] /\ secCurrent'[m] = secCurrent[m])
    BY <1>4 DEF SyncSecret, TypeOK
  <2>2. secCache'[n] = sec[n] /\ secCurrent'[n] = secCurrent[n] \cup {Cache}
    BY <1>4 DEF SyncSecret, TypeOK
  <2>3. CopiesCurrent'
    BY <1>4, <2>1, <2>2 DEF SyncSecret, Views, CopiesCurrent
  <2>4. ViewCurrent'
    BY <1>4, <2>1, <2>2, CacheIsNoWorker DEF SyncSecret, Views, ViewCurrent, LocalsSet
  <2>5. ViewWritable'
    BY <1>4 DEF SyncSecret, Views, ViewWritable, MayWrite
  <2> QED BY <2>3, <2>4, <2>5 DEF Views
<1>5. CASE Next
  BY <1>2, <1>3, <1>4, <1>5, StepViews, EnvironmentViews DEF Next, Operator, Informers
<1> QED BY <1>1, <1>5

LEMMA InductiveStep == IInv /\ [Next]_vars => IInv'
BY NextTyped, NextViews DEF IInv, Views

-----------------------------------------------------------------------------
\* TargetSecret keeps its invariant.
THEOREM Invariant == Spec => []IInv
BY InitIInv, InductiveStep, PTL DEF Spec

\* Every behaviour of the consumers is type correct.
THEOREM TypeCorrect == Spec => []TypeOK
<1>1. IInv => TypeOK
  BY DEF IInv
<1> QED BY <1>1, Invariant, PTL

\* One step of a worker changes a Secret only as the rules let it.
LEMMA StepRespectsOwner ==
  ASSUME IInv, NEW k \in Kinds, Step(k), NEW n \in Names, sec[n].exists, sec'[n].exists,
         sec'[n] # sec[n]
  PROVE  wk[k].cr \in CRs /\ MayWrite(wk[k].cr, sec[n]) /\ sec'[n] = Applied(wk[k].cr)
<1>1. ASSUME UNCHANGED sec PROVE FALSE
  BY <1>1
<1>2. CASE UpdateTarget(k)
  BY <1>2 DEF UpdateTarget, SecUnchanged, WriteSec, IInv, ViewCurrent, ViewWritable, TypeOK,
              LocalsSet
<1>3. CASE CreateTarget(k)
  BY <1>3 DEF CreateTarget, WriteSec, IInv, TypeOK, LocalsSet
<1>4. CASE DeleteOwned(k)
  <2>1. PICK m \in wk[k].todo : sec' = [sec EXCEPT ![m] = NoSecret] \/ UNCHANGED sec
    BY <1>4 DEF DeleteOwned, WriteSec
  <2> QED BY <1>1, <2>1 DEF NoSecret, IInv, TypeOK
<1> QED BY <1>1, <1>2, <1>3, <1>4
        DEF Step, AddFinalizer, PipelineFails, GetTarget, UpdateStatus, GetOwned,
            RemoveFinalizer, crVars, secVars

\* A step that is not an edit and changes a Secret is a worker's.
LEMMA OnlyWorkersWrite ==
  ASSUME IInv, [Next]_vars, ByOperator, sec' # sec
  PROVE  \E k \in Kinds : Step(k)
<1>1. edits \in Nat
  BY TargetAssumption DEF IInv, TypeOK
<1>2. ~Edit
  BY <1>1 DEF Edit, ByOperator
<1>3. ~Environment
  BY <1>2 DEF Environment, CreateCR, Retarget, DeleteCR, UserCreates, UserDeletes,
              UserDrifts, Restart
<1> QED BY <1>3 DEF Next, Operator, Informers, Start, SyncCR, SyncSecret, vars, secVars

\* SECURITY.md:35: no interleaving of any number of controllers, users and
\* restarts, and no informer lag, makes the operator hand a Secret that one CR
\* owns to another.
THEOREM OwnershipIsStable == Spec => OwnerNeverSwitched
<1>1. ASSUME IInv, [Next]_vars
      PROVE  [\A n \in Names :
                ByOperator /\ sec[n].managed = "us" /\ sec[n].owner # None /\ sec'[n].exists
                  => sec'[n].owner = sec[n].owner]_vars
  <2> SUFFICES ASSUME NEW n \in Names, ByOperator, sec[n].managed = "us",
                      sec[n].owner # None, sec'[n].exists, sec'[n] # sec[n]
               PROVE  sec'[n].owner = sec[n].owner
    OBVIOUS
  <2>1. PICK k \in Kinds : Step(k)
    BY <1>1, OnlyWorkersWrite
  <2>2. sec[n].exists
    BY SecretsFields, <1>1 DEF IInv, TypeOK, NoSecret
  <2>3. MayWrite(wk[k].cr, sec[n]) /\ sec'[n] = Applied(wk[k].cr)
    BY <1>1, <2>1, <2>2, StepRespectsOwner
  <2> QED BY <2>3 DEF MayWrite, Applied
<1> QED BY <1>1, Invariant, PTL DEF Spec, OwnerNeverSwitched

\* SECURITY.md:33: under the same conditions a Secret without the managed-by
\* label is written over only for a CR with adopt set.
THEOREM AdoptionIsOptIn == Spec => AdoptionOptIn
<1>1. ASSUME IInv, [Next]_vars
      PROVE  [\A n \in Names :
                ByOperator /\ sec[n].exists /\ sec[n].managed = "none"
                  /\ sec'[n] # sec[n] /\ sec'[n].exists
                  => sec'[n].owner \in Adopters]_vars
  <2> SUFFICES ASSUME NEW n \in Names, ByOperator, sec[n].exists, sec[n].managed = "none",
                      sec'[n] # sec[n], sec'[n].exists
               PROVE  sec'[n].owner \in Adopters
    OBVIOUS
  <2>1. PICK k \in Kinds : Step(k)
    BY <1>1, OnlyWorkersWrite
  <2>2. MayWrite(wk[k].cr, sec[n]) /\ sec'[n] = Applied(wk[k].cr)
    BY <1>1, <2>1, StepRespectsOwner
  <2> QED BY <2>2 DEF MayWrite, Applied
<1> QED BY <1>1, Invariant, PTL DEF Spec, AdoptionOptIn

-----------------------------------------------------------------------------
(* Finalizers, as long as a read sees the API server (~Lag).  A reconcile  *)
(* holds on to the CR it works for: only the controller of a CR takes its  *)
(* finalizer away, and that controller is busy.                            *)

\* Past the finalizer: on the way to a write, or cleaning up.
Writing == {"get", "create", "update"}
Cleaning == {"getOwned", "delete", "removeFinalizer"}

\* What reconcile r of kind k may rely on, v being its CR and cur the current
\* copies of that CR.
HoldsOn(k, r, v, cur) ==
  r.pc # "idle" =>
    /\ KindOf[r.cr] = k
    /\ k \in cur => r.crView = v
    /\ r.pc \in Writing => v.exists /\ v.fin
    /\ r.pc \in Cleaning => v.exists /\ v.fin /\ v.deleting
Tied == \A k \in Kinds : HoldsOn(k, wk[k], cr[wk[k].cr], crCurrent[wk[k].cr])

\* Two reconciles in progress are about different CRs.
LEMMA WorkersApart ==
  ASSUME Tied, NEW k \in Kinds, NEW j \in Kinds, j # k, wk[k].pc # "idle", wk[j].pc # "idle"
  PROVE  wk[j].cr # wk[k].cr
BY DEF Tied, HoldsOn

\* A reconcile that ends, with or without a write of its CR.
LEMMA EndTied ==
  ASSUME TypeOK, LocalsSet, Tied, NEW k \in Kinds, wk[k].pc # "idle",
         wk' = [wk EXCEPT ![k] = Idle], NEW v,
         WriteCR(wk[k].cr, v) \/ UNCHANGED <<cr, crCurrent>>
  PROVE  Tied'
<1> SUFFICES ASSUME NEW j \in Kinds PROVE HoldsOn(j, wk'[j], cr'[wk'[j].cr], crCurrent'[wk'[j].cr])
  BY DEF Tied
<1>1. CASE wk'[j].pc = "idle"
  BY <1>1 DEF HoldsOn
<1>2. CASE wk'[j].pc # "idle"
  <2>1. j # k
    BY <1>2 DEF TypeOK, Idle
  <2>2. wk'[j] = wk[j]
    BY <2>1 DEF TypeOK
  <2>3. wk[j].cr # wk[k].cr /\ wk[j].cr \in CRs
    BY <1>2, <2>1, <2>2, WorkersApart DEF LocalsSet
  <2>4. cr'[wk[j].cr] = cr[wk[j].cr] /\ crCurrent'[wk[j].cr] = crCurrent[wk[j].cr]
    BY <2>3 DEF WriteCR, TypeOK
  <2> QED BY <2>2, <2>4 DEF Tied
<1> QED BY <1>1, <1>2

\* A reconcile that goes on, and leaves the CRs alone.
LEMMA GoOnTied ==
  ASSUME TypeOK, Tied, UNCHANGED <<cr, crCurrent>>, NEW k \in Kinds, wk[k].pc # "idle",
         NEW r, wk' = [wk EXCEPT ![k] = r], r.cr = wk[k].cr, r.crView = wk[k].crView,
         r.pc \in Writing => wk[k].pc \in Writing,
         r.pc \in Cleaning => wk[k].pc \in Cleaning
  PROVE  Tied'
<1> SUFFICES ASSUME NEW j \in Kinds PROVE HoldsOn(j, wk'[j], cr'[wk'[j].cr], crCurrent'[wk'[j].cr])
  BY DEF Tied
<1>1. CASE j = k
  <2>1. wk'[j] = r
    BY <1>1 DEF TypeOK
  <2>2. HoldsOn(k, wk[k], cr[wk[k].cr], crCurrent[wk[k].cr])
    BY DEF Tied
  <2> QED BY <1>1, <2>1, <2>2 DEF HoldsOn
<1>2. CASE j # k
  <2>1. wk'[j] = wk[j]
    BY <1>2 DEF TypeOK
  <2> QED BY <2>1 DEF Tied
<1> QED BY <1>1, <1>2

\* A reconcile that begins.
LEMMA StartTied ==
  ASSUME TypeOK, Tied, ~Lag, NEW k \in Kinds, NEW c \in CRs, Start(k, c)
  PROVE  Tied'
<1> DEFINE v == cr[c]
           r == [Idle EXCEPT !.pc = FirstStep(v), !.cr = c, !.crView = v, !.name = v.target]
<1>1. /\ KindOf[c] = k /\ v.exists /\ (v.deleting => v.fin)
      /\ wk[k].pc = "idle" /\ wk' = [wk EXCEPT ![k] = r] /\ cr' = cr
      /\ crCurrent' = [crCurrent EXCEPT ![c] = CRReadBy(k, c)]
  BY DEF Start, CRSeen
<1>2. r.cr = c /\ r.crView = v /\ r.pc = FirstStep(v)
  BY DEF Idle
<1> HIDE DEF r
<1> SUFFICES ASSUME NEW j \in Kinds PROVE HoldsOn(j, wk'[j], cr'[wk'[j].cr], crCurrent'[wk'[j].cr])
  BY DEF Tied
<1>3. CASE j = k
  <2>1. wk'[j] = r
    BY <1>1, <1>3 DEF TypeOK
  <2>2. /\ r.pc \in Writing => v.fin
        /\ r.pc \in Cleaning => v.deleting
    BY <1>2 DEF FirstStep, Writing, Cleaning
  <2> QED BY <1>1, <1>2, <1>3, <2>1, <2>2 DEF HoldsOn
<1>4. CASE j # k
  <2>1. wk'[j] = wk[j]
    BY <1>1, <1>4 DEF TypeOK
  <2>2. \A d \in CRs : j \in crCurrent'[d] => j \in crCurrent[d]
    BY <1>1, <1>4 DEF CRReadBy, TypeOK
  <2>3. CASE wk[j].pc = "idle"
    BY <2>1, <2>3 DEF HoldsOn
  <2>4. CASE wk[j].pc # "idle"
    <3>1. HoldsOn(j, wk[j], cr[wk[j].cr], crCurrent[wk[j].cr])
      BY DEF Tied
    <3>2. wk[j].cr = c \/ crCurrent'[wk[j].cr] = crCurrent[wk[j].cr]
      BY <1>1 DEF TypeOK
    <3> QED BY <1>1, <2>1, <2>2, <3>1, <3>2 DEF HoldsOn
  <2> QED BY <2>3, <2>4
<1> QED BY <1>3, <1>4

\* A user's write of a CR keeps the finalizer and the deletion timestamp.
LEMMA UserTied ==
  ASSUME TypeOK, LocalsSet, Tied, NEW c \in CRs, NEW v, WriteCR(c, v), UNCHANGED wk,
         cr[c].exists /\ cr[c].fin => /\ v.exists /\ v.fin
                                      /\ cr[c].deleting => v.deleting
  PROVE  Tied'
<1> SUFFICES ASSUME NEW j \in Kinds, wk[j].pc # "idle"
             PROVE  HoldsOn(j, wk[j], cr'[wk[j].cr], crCurrent'[wk[j].cr])
  BY DEF Tied, HoldsOn
<1>1. wk[j].cr \in CRs /\ HoldsOn(j, wk[j], cr[wk[j].cr], crCurrent[wk[j].cr])
  BY DEF Tied, LocalsSet
<1>2. CASE wk[j].cr = c
  <2>1. cr'[c] = v /\ crCurrent'[c] = {}
    BY DEF WriteCR, TypeOK
  <2> QED BY <1>1, <1>2, <2>1 DEF HoldsOn
<1>3. CASE wk[j].cr # c
  <2>1. cr'[wk[j].cr] = cr[wk[j].cr] /\ crCurrent'[wk[j].cr] = crCurrent[wk[j].cr]
    BY <1>1, <1>3 DEF WriteCR, TypeOK
  <2> QED BY <1>1, <2>1
<1> QED BY <1>2, <1>3

\* What a write of one field makes of a CR.
LEMMA CRWritten ==
  ASSUME NEW v \in CRStates, v.exists
  PROVE  /\ LET f == [v EXCEPT !.fin = TRUE]
            IN f.exists /\ f.fin /\ f.deleting = v.deleting /\ f.target = v.target
         /\ LET d == [v EXCEPT !.deleting = TRUE]
            IN d.exists /\ d.fin = v.fin /\ d.deleting /\ d.target = v.target
         /\ \A n \in Names : LET t == [v EXCEPT !.target = n]
                             IN t.exists /\ t.fin = v.fin /\ t.deleting = v.deleting
<1>1. v # NoCR
  BY DEF NoCR
<1>2. v \in [exists : {TRUE}, deleting : BOOLEAN, fin : BOOLEAN, target : Names]
  BY <1>1 DEF CRStates
<1>3. LET f == [v EXCEPT !.fin = TRUE]
      IN f.exists /\ f.fin /\ f.deleting = v.deleting /\ f.target = v.target
  BY <1>2
<1>4. LET d == [v EXCEPT !.deleting = TRUE]
      IN d.exists /\ d.fin = v.fin /\ d.deleting /\ d.target = v.target
  BY <1>2
<1>5. ASSUME NEW n \in Names
      PROVE  LET t == [v EXCEPT !.target = n]
             IN t.exists /\ t.fin = v.fin /\ t.deleting = v.deleting
  BY <1>2
<1> QED BY <1>3, <1>4, <1>5

\* The locals that a step of a reconcile in progress does not touch.
LEMMA LocalsKept ==
  ASSUME TypeOK, NEW k \in Kinds, NEW pc, NEW view, NEW todo
  PROVE  LET r == [wk[k] EXCEPT !.pc = pc]
             s == [wk[k] EXCEPT !.view = view, !.pc = pc]
             t == [wk[k] EXCEPT !.todo = todo, !.pc = pc]
         IN /\ r.pc = pc /\ r.cr = wk[k].cr /\ r.crView = wk[k].crView /\ r.name = wk[k].name
            /\ s.pc = pc /\ s.cr = wk[k].cr /\ s.crView = wk[k].crView /\ s.name = wk[k].name
            /\ t.pc = pc /\ t.cr = wk[k].cr /\ t.crView = wk[k].crView /\ t.name = wk[k].name
            /\ t.todo = todo
<1>1. wk[k] \in Reconciles
  BY DEF TypeOK
<1>2. wk[k] = [pc |-> wk[k].pc, cr |-> wk[k].cr, crView |-> wk[k].crView, name |-> wk[k].name,
               view |-> wk[k].view, todo |-> wk[k].todo]
  BY <1>1 DEF Reconciles
<1> QED BY <1>2

LEMMA StepTied ==
  ASSUME TypeOK, LocalsSet, Tied, NEW k \in Kinds, Step(k)
  PROVE  Tied'
<1>0. wk = [j \in Kinds |-> wk[j]]
  BY DEF TypeOK
<1>1. ASSUME wk[k].pc # "idle", UNCHANGED crVars, NEW pc, Goto(k, pc), pc \notin Writing \cup Cleaning
      PROVE  Tied'
  <2> DEFINE r == [wk[k] EXCEPT !.pc = pc]
  <2>1. wk' = [wk EXCEPT ![k] = r]
    BY <1>1 DEF Goto, TypeOK
  <2>2. r.pc = pc /\ r.cr = wk[k].cr /\ r.crView = wk[k].crView
    BY LocalsKept
  <2> HIDE DEF r
  <2> QED BY <1>1, <2>1, <2>2, GoOnTied DEF crVars
<1>2. "status" \notin Writing \cup Cleaning
  BY DEF Writing, Cleaning
<1>3. CASE AddFinalizer(k)
  BY <1>3, EndTied DEF AddFinalizer
<1>4. CASE PipelineFails(k)
  BY <1>1, <1>2, <1>4 DEF PipelineFails
<1>5. CASE GetTarget(k)
  <2> DEFINE s == SecSeen(wk[k].name)
             pc == CASE ~s.exists -> "create"
                     [] s.exists /\ MayWrite(wk[k].cr, s) /\ Changes(wk[k].cr, s) -> "update"
                     [] OTHER -> "status"
             r == [wk[k] EXCEPT !.view = s, !.pc = pc]
  <2>1. wk' = [wk EXCEPT ![k] = r]
    BY <1>5 DEF GetTarget, TypeOK
  <2>2. pc \in {"create", "update", "status"}
    OBVIOUS
  <2> HIDE DEF s, pc
  <2>3. r.pc = pc /\ r.cr = wk[k].cr /\ r.crView = wk[k].crView
    BY LocalsKept
  <2> HIDE DEF r
  <2>4. /\ wk[k].pc \in Writing /\ wk[k].pc # "idle"
        /\ pc \notin Cleaning
    BY <1>5, <2>2 DEF GetTarget, Writing, Cleaning
  <2> QED BY <1>5, <2>1, <2>3, <2>4, GoOnTied DEF GetTarget, crVars
<1>6. CASE CreateTarget(k)
  BY <1>1, <1>2, <1>6 DEF CreateTarget
<1>7. CASE UpdateTarget(k)
  BY <1>1, <1>2, <1>7 DEF UpdateTarget
<1>8. CASE UpdateStatus(k)
  BY <1>8, EndTied DEF UpdateStatus
<1>9. CASE GetOwned(k)
  <2> DEFINE todo == {n \in Candidates(wk[k].cr, wk[k].name) : OwnedBy(wk[k].cr, SecSeen(n))}
             r == [wk[k] EXCEPT !.todo = todo, !.pc = AfterOwned(todo)]
  <2>1. wk' = [wk EXCEPT ![k] = r]
    BY <1>9 DEF GetOwned, TypeOK
  <2> HIDE DEF todo
  <2>2. r.pc = AfterOwned(todo) /\ r.cr = wk[k].cr /\ r.crView = wk[k].crView
    BY LocalsKept
  <2> HIDE DEF r
  <2>3. wk[k].pc \in Cleaning /\ AfterOwned(todo) \notin Writing /\ wk[k].pc # "idle"
    BY <1>9 DEF GetOwned, Cleaning, Writing, AfterOwned
  <2> QED BY <1>9, <2>1, <2>2, <2>3, GoOnTied DEF GetOwned, crVars
<1>10. CASE DeleteOwned(k)
  <2>1. PICK m \in wk[k].todo :
          wk' = [wk EXCEPT ![k].todo = @ \ {m}, ![k].pc = AfterOwned(wk[k].todo \ {m})]
    BY <1>10 DEF DeleteOwned
  <2> DEFINE todo == wk[k].todo \ {m}
             r == [wk[k] EXCEPT !.todo = todo, !.pc = AfterOwned(todo)]
  <2>2. wk' = [wk EXCEPT ![k] = r]
    BY <2>1 DEF TypeOK
  <2> HIDE DEF todo
  <2>3. r.pc = AfterOwned(todo) /\ r.cr = wk[k].cr /\ r.crView = wk[k].crView
    BY LocalsKept
  <2> HIDE DEF r
  <2>4. wk[k].pc \in Cleaning /\ AfterOwned(todo) \notin Writing /\ wk[k].pc # "idle"
    BY <1>10 DEF DeleteOwned, Cleaning, Writing, AfterOwned
  <2> QED BY <1>10, <2>2, <2>3, <2>4, GoOnTied DEF DeleteOwned, crVars
<1>11. CASE RemoveFinalizer(k)
  BY <1>11, EndTied DEF RemoveFinalizer
<1> QED BY <1>3, <1>4, <1>5, <1>6, <1>7, <1>8, <1>9, <1>10, <1>11 DEF Step

LEMMA EnvironmentTied ==
  ASSUME TypeOK, LocalsSet, Tied, Environment
  PROVE  Tied'
<1>1. ASSUME UNCHANGED <<crVars, wk>> PROVE Tied'
  BY <1>1 DEF crVars, Tied, HoldsOn
<1>2. ASSUME NEW c \in CRs, NEW n \in Names, CreateCR(c, n) PROVE Tied'
  BY <1>2, UserTied DEF CreateCR
<1>3. ASSUME NEW c \in CRs, NEW n \in Names, Retarget(c, n) PROVE Tied'
  <2>1. cr[c] \in CRStates /\ cr[c].exists
    BY <1>3 DEF Retarget, TypeOK
  <2> DEFINE v == [cr[c] EXCEPT !.target = n]
  <2>2. v.exists /\ v.fin = cr[c].fin /\ v.deleting = cr[c].deleting
    BY <2>1, CRWritten
  <2> HIDE DEF v
  <2>3. WriteCR(c, v) /\ UNCHANGED wk
    BY <1>3 DEF Retarget, v
  <2> QED BY <2>2, <2>3, UserTied
<1>4. ASSUME NEW c \in CRs, DeleteCR(c) PROVE Tied'
  <2>1. cr[c] \in CRStates /\ cr[c].exists
    BY <1>4 DEF DeleteCR, TypeOK
  <2> DEFINE v == [cr[c] EXCEPT !.deleting = TRUE]
  <2>2. v.exists /\ v.fin = cr[c].fin /\ v.deleting
    BY <2>1, CRWritten
  <2> HIDE DEF v
  <2>3. CASE cr[c].fin
    <3>1. WriteCR(c, v) /\ UNCHANGED wk
      BY <1>4, <2>3 DEF DeleteCR, v
    <3> QED BY <2>2, <3>1, UserTied
  <2>4. CASE ~cr[c].fin
    BY <1>4, <2>4, UserTied DEF DeleteCR
  <2> QED BY <2>3, <2>4
<1>5. ASSUME NEW n \in Names, \/ \E m \in {"none", "other"} : UserCreates(n, m)
                              \/ UserDeletes(n) \/ UserDrifts(n)
      PROVE  Tied'
  BY <1>1, <1>5 DEF UserCreates, UserDeletes, UserDrifts
<1>6. ASSUME Restart PROVE Tied'
  BY <1>6 DEF Restart, Tied, HoldsOn, Idle
<1> QED BY <1>2, <1>3, <1>4, <1>5, <1>6 DEF Environment

LEMMA NextTied ==
  ASSUME TypeOK, LocalsSet, Tied, ~Lag, [Next]_vars
  PROVE  Tied'
<1>1. CASE UNCHANGED vars
  BY <1>1 DEF vars, Tied, HoldsOn
<1>2. ASSUME Informers PROVE Tied'
  BY <1>2 DEF Informers, SyncCR, SyncSecret
<1> QED BY <1>1, <1>2, StepTied, StartTied, EnvironmentTied DEF Next, Operator

(* What a finalizer is about to delete is its CR's own, as long as nobody  *)
(* else deletes Secrets (~UserSecrets).                                    *)

\* Every Secret on the list of a cleanup is still there, and its CR's.
Chosen ==
  \A k \in Kinds : wk[k].pc = "delete" => \A n \in wk[k].todo : OwnedBy(wk[k].cr, sec[n])

LEMMA ChosenKept ==
  ASSUME LocalsSet, Chosen, TypeOK,
         \A c \in CRs, n \in Names : OwnedBy(c, sec[n]) => OwnedBy(c, sec'[n]),
         \A j \in Kinds : wk'[j] = wk[j] \/ wk'[j].pc # "delete"
  PROVE  Chosen'
<1> SUFFICES ASSUME NEW j \in Kinds, wk'[j].pc = "delete", NEW n \in wk'[j].todo
             PROVE  OwnedBy(wk'[j].cr, sec'[n])
  BY DEF Chosen, OwnedBy
<1>1. wk'[j] = wk[j]
  OBVIOUS
<1>2. wk[j].cr \in CRs /\ n \in Names
  BY <1>1 DEF LocalsSet, TypeOK, Reconciles
<1>3. OwnedBy(wk[j].cr, sec[n])
  BY <1>1 DEF Chosen
<1> QED BY <1>1, <1>2, <1>3

LEMMA StepChosen ==
  ASSUME IInv, Tied, Chosen, ~Lag, NEW k \in Kinds, Step(k)
  PROVE  Chosen'
<1>0. TypeOK /\ LocalsSet
  BY DEF IInv
<1>1. ASSUME UNCHANGED sec PROVE \A c \in CRs, n \in Names : OwnedBy(c, sec[n]) => OwnedBy(c, sec'[n])
  BY <1>1
<1>2. ASSUME NEW pc, pc # "delete", Goto(k, pc)
      PROVE  \A j \in Kinds : wk'[j] = wk[j] \/ wk'[j].pc # "delete"
  BY <1>0, <1>2 DEF Goto, TypeOK, Reconciles
<1>3. ASSUME wk' = [wk EXCEPT ![k] = Idle]
      PROVE  \A j \in Kinds : wk'[j] = wk[j] \/ wk'[j].pc # "delete"
  BY <1>0, <1>3 DEF Idle, TypeOK
<1>4. CASE AddFinalizer(k)
  BY <1>0, <1>1, <1>3, <1>4, ChosenKept DEF AddFinalizer, secVars
<1>5. CASE PipelineFails(k)
  BY <1>0, <1>1, <1>2, <1>5, ChosenKept DEF PipelineFails, secVars
<1>6. CASE GetTarget(k)
  <2>1. \A j \in Kinds : wk'[j] = wk[j] \/ wk'[j].pc # "delete"
    BY <1>0, <1>6 DEF GetTarget, TypeOK, Reconciles
  <2> QED BY <1>0, <1>1, <1>6, <2>1, ChosenKept DEF GetTarget
<1>7. ASSUME CreateTarget(k) \/ UpdateTarget(k) PROVE Chosen'
  <2>1. ASSUME NEW c \in CRs, NEW n \in Names, OwnedBy(c, sec[n]) PROVE OwnedBy(c, sec'[n])
    <3>1. sec'[n] = sec[n] \/ sec'[n] = Applied(wk[k].cr)
      BY <1>0, <1>7, <2>1 DEF CreateTarget, UpdateTarget, WriteSec, TypeOK
    <3>2. CASE sec'[n] # sec[n]
      <4>1. sec[n].exists /\ sec'[n].exists
        BY <2>1, <3>1, <3>2 DEF OwnedBy, Applied
      <4>2. MayWrite(wk[k].cr, sec[n]) /\ wk[k].cr \in CRs
        BY <3>2, <4>1, StepRespectsOwner
      <4>3. wk[k].cr = c
        BY <2>1, <4>2, TargetAssumption DEF MayWrite, OwnedBy
      <4> QED BY <3>1, <3>2, <4>3 DEF OwnedBy, Applied
    <3> QED BY <2>1, <3>2
  <2>2. \A j \in Kinds : wk'[j] = wk[j] \/ wk'[j].pc # "delete"
    BY <1>2, <1>7 DEF CreateTarget, UpdateTarget
  <2> QED BY <1>0, <2>1, <2>2, ChosenKept
<1>8. CASE UpdateStatus(k)
  BY <1>0, <1>1, <1>3, <1>8, ChosenKept DEF UpdateStatus, secVars
<1>9. CASE GetOwned(k)
  <2> DEFINE todo == {n \in Candidates(wk[k].cr, wk[k].name) : OwnedBy(wk[k].cr, sec[n])}
             r == [wk[k] EXCEPT !.todo = todo, !.pc = AfterOwned(todo)]
  <2>1. wk' = [wk EXCEPT ![k] = r] /\ UNCHANGED sec
    BY <1>0, <1>9 DEF GetOwned, SecSeen, TypeOK, secVars
  <2>2. \A n \in todo : OwnedBy(wk[k].cr, sec[n])
    OBVIOUS
  <2> HIDE DEF todo
  <2>3. r.todo = todo /\ r.cr = wk[k].cr
    BY <1>0, LocalsKept
  <2> HIDE DEF r
  <2> SUFFICES ASSUME NEW j \in Kinds, wk'[j].pc = "delete", NEW n \in wk'[j].todo
               PROVE  OwnedBy(wk'[j].cr, sec'[n])
    BY DEF Chosen, OwnedBy
  <2>4. CASE j = k
    <3>1. wk'[j] = r
      BY <1>0, <2>1, <2>4 DEF TypeOK
    <3> QED BY <2>1, <2>2, <2>3, <3>1
  <2>5. CASE j # k
    <3>1. wk'[j] = wk[j]
      BY <1>0, <2>1, <2>5 DEF TypeOK
    <3> QED BY <2>1, <3>1 DEF Chosen
  <2> QED BY <2>4, <2>5
<1>10. CASE DeleteOwned(k)
  <2>1. PICK m \in wk[k].todo :
          /\ IF sec[m].exists THEN WriteSec(m, NoSecret) ELSE UNCHANGED <<sec, secCurrent>>
          /\ wk' = [wk EXCEPT ![k].todo = @ \ {m}, ![k].pc = AfterOwned(wk[k].todo \ {m})]
    BY <1>10 DEF DeleteOwned
  <2> DEFINE todo == wk[k].todo \ {m}
             r == [wk[k] EXCEPT !.todo = todo, !.pc = AfterOwned(todo)]
  <2>2. wk' = [wk EXCEPT ![k] = r]
    BY <1>0, <2>1 DEF TypeOK
  <2>3. r.todo = todo /\ r.cr = wk[k].cr
    BY <1>0, LocalsKept
  <2> HIDE DEF r
  <2>4. wk[k].pc = "delete" /\ OwnedBy(wk[k].cr, sec[m])
    BY <1>10, <2>1 DEF DeleteOwned, Chosen
  <2>5. \A n \in Names : n # m => sec'[n] = sec[n]
    BY <1>0, <2>1 DEF WriteSec, TypeOK
  <2> SUFFICES ASSUME NEW j \in Kinds, wk'[j].pc = "delete", NEW n \in wk'[j].todo
               PROVE  OwnedBy(wk'[j].cr, sec'[n])
    BY DEF Chosen, OwnedBy
  <2>6. CASE j = k
    <3>1. wk'[j] = r
      BY <1>0, <2>2, <2>6 DEF TypeOK
    <3>2. n \in wk[k].todo /\ n # m /\ n \in Names
      BY <1>0, <2>3, <3>1 DEF TypeOK, Reconciles
    <3> QED BY <2>3, <2>4, <2>5, <3>1, <3>2 DEF Chosen
  <2>7. CASE j # k
    <3>1. wk'[j] = wk[j]
      BY <1>0, <2>2, <2>7 DEF TypeOK
    <3>2. OwnedBy(wk[j].cr, sec[n]) /\ n \in Names
      BY <1>0, <3>1 DEF Chosen, TypeOK, Reconciles
    <3>3. wk[j].cr # wk[k].cr
      BY <2>4, <2>7, <3>1, WorkersApart
    <3>4. n # m
      BY <2>4, <3>2, <3>3 DEF OwnedBy
    <3> QED BY <2>5, <3>1, <3>2, <3>4
  <2> QED BY <2>6, <2>7
<1>11. CASE RemoveFinalizer(k)
  BY <1>0, <1>1, <1>3, <1>11, ChosenKept DEF RemoveFinalizer, secVars
<1> QED BY <1>4, <1>5, <1>6, <1>7, <1>8, <1>9, <1>10, <1>11 DEF Step

LEMMA NextChosen ==
  ASSUME IInv, Tied, Chosen, ~Lag, ~UserSecrets, [Next]_vars
  PROVE  Chosen'
<1>0. TypeOK /\ LocalsSet
  BY DEF IInv
<1>1. ASSUME UNCHANGED <<sec, wk>> PROVE Chosen'
  BY <1>0, <1>1, ChosenKept
<1>2. CASE UNCHANGED vars
  BY <1>1, <1>2 DEF vars
<1>3. ASSUME NEW k \in Kinds, NEW c \in CRs, Start(k, c) PROVE Chosen'
  <2>1. sec' = sec
    BY <1>3 DEF Start, secVars
  <2>2. \A j \in Kinds : wk'[j] = wk[j] \/ wk'[j].pc # "delete"
    BY <1>0, <1>3 DEF Start, FirstStep, TypeOK, Idle
  <2> QED BY <1>0, <2>1, <2>2, ChosenKept
<1>4. CASE Informers
  BY <1>1, <1>4 DEF Informers, SyncCR, SyncSecret, secVars
<1>5. CASE Environment
  <2>1. CASE Restart
    <3>1. sec' = sec /\ \A j \in Kinds : wk'[j].pc # "delete"
      BY <2>1 DEF Restart, Idle
    <3> QED BY <1>0, <3>1, ChosenKept
  <2>2. CASE ~Restart
    <3>1. UNCHANGED <<sec, wk>>
      BY <1>5, <2>2 DEF Environment, CreateCR, Retarget, DeleteCR, UserCreates, UserDeletes,
                        UserDrifts, secVars
    <3> QED BY <1>1, <3>1
  <2> QED BY <2>1, <2>2
<1> QED BY <1>2, <1>3, <1>4, <1>5, StepChosen DEF Next, Operator

LEMMA InitTied == Init => Tied /\ Chosen
BY DEF Init, Idle, Tied, HoldsOn, Chosen

\* labels.go:167-168: where reads are not stale and only the operator deletes
\* Secrets, a Secret that the operator deletes was written for a CR that is
\* being deleted -- for any number of controllers, also when users move the
\* targets of their CRs about while the finalizers run.
THEOREM DeletesOwn ==
  ASSUME ~Lag, ~UserSecrets
  PROVE  Spec => DeletesOnlyOwned
<1>1. Init => Tied /\ Chosen
  BY InitTied
<1>2. IInv /\ Tied /\ Chosen /\ [Next]_vars => Tied' /\ Chosen'
  BY NextTied, NextChosen DEF IInv
<1>3. ASSUME IInv, Tied, Chosen, [Next]_vars
      PROVE  [\A n \in Names :
                ByOperator /\ sec[n].exists /\ ~sec'[n].exists
                  => sec[n].managed = "us" /\ sec[n].owner # None /\ ~InUse(sec[n].owner)]_vars
  <2> SUFFICES ASSUME NEW n \in Names, ByOperator, sec[n].exists, ~sec'[n].exists
               PROVE  sec[n].managed = "us" /\ sec[n].owner # None /\ ~InUse(sec[n].owner)
    OBVIOUS
  <2>1. PICK k \in Kinds : Step(k)
    BY <1>3, OnlyWorkersWrite
  <2>2. DeleteOwned(k)
    <3>1. ASSUME CreateTarget(k) \/ UpdateTarget(k) PROVE FALSE
      BY <1>3, <3>1 DEF CreateTarget, UpdateTarget, WriteSec, Applied, IInv, TypeOK
    <3> QED BY <2>1, <3>1 DEF Step, AddFinalizer, PipelineFails, GetTarget, UpdateStatus, GetOwned,
                              RemoveFinalizer, crVars, secVars
  <2>3. n \in wk[k].todo /\ wk[k].pc = "delete"
    BY <1>3, <2>2 DEF DeleteOwned, WriteSec, IInv, TypeOK
  <2>4. OwnedBy(wk[k].cr, sec[n]) /\ wk[k].cr \in CRs
    BY <1>3, <2>3 DEF Chosen, IInv, LocalsSet
  <2>5. cr[wk[k].cr].deleting
    BY <1>3, <2>3 DEF Tied, HoldsOn, Cleaning
  <2> QED BY <2>4, <2>5, TargetAssumption DEF OwnedBy, InUse
<1> QED BY <1>1, <1>2, <1>3, Invariant, PTL DEF Spec, DeletesOnlyOwned

(* A Secret does not outlive its owner, as long as targets do not move     *)
(* (~Renames): whoever deletes the Secrets in between.                     *)

\* A reconcile past the finalizer works on the target its CR has now.
OnTarget(r, v) == r.pc \in Writing \cup Cleaning => v.target = r.name
Placed == \A k \in Kinds : OnTarget(wk[k], cr[wk[k].cr])

\* A CR that holds on to Secret n: it has its finalizer, and n for its target.
Anchors(v, n) == v.exists /\ v.fin /\ v.target = n
Owned(s) == s.managed = "us" /\ s.owner # None
Anchored == \A n \in Names : Owned(sec[n]) => Anchors(cr[sec[n].owner], n)

\* A cleanup that has looked has left out no Secret s of its CR.
Cleans(r, n, s) ==
  r.pc \in {"delete", "removeFinalizer"} /\ OwnedBy(r.cr, s) => r.pc = "delete" /\ n \in r.todo
Cleaned == \A k \in Kinds, n \in Names : Cleans(wk[k], n, sec[n])

NInv == Placed /\ Anchored /\ Cleaned

\* Steps that end reconciles or go on to the status, give no CR new Secrets,
\* and leave alone the CRs that have the finalizer.
LEMMA Steady ==
  ASSUME TypeOK, LocalsSet, Tied, NInv,
         \A c \in CRs : cr[c].exists /\ cr[c].fin =>
           cr'[c].exists /\ cr'[c].fin /\ cr'[c].target = cr[c].target,
         \A n \in Names : Owned(sec'[n]) => Owned(sec[n]) /\ sec'[n].owner = sec[n].owner,
         \A j \in Kinds : wk'[j] = wk[j] \/ wk'[j].pc \in {"idle", "addFinalizer", "status"}
  PROVE  NInv'
<1>1. Placed'
  <2> SUFFICES ASSUME NEW j \in Kinds, wk'[j].pc \in Writing \cup Cleaning
               PROVE  cr'[wk'[j].cr].target = wk'[j].name
    BY DEF Placed, OnTarget
  <2>1. wk'[j] = wk[j] /\ wk[j].pc # "idle"
    BY DEF Writing, Cleaning
  <2>2. wk[j].cr \in CRs /\ cr[wk[j].cr].exists /\ cr[wk[j].cr].fin
    BY <2>1 DEF Tied, HoldsOn, LocalsSet
  <2> QED BY <2>1, <2>2 DEF NInv, Placed, OnTarget
<1>2. Anchored'
  <2> SUFFICES ASSUME NEW n \in Names, Owned(sec'[n]) PROVE Anchors(cr'[sec'[n].owner], n)
    BY DEF Anchored
  <2>1. Owned(sec[n]) /\ sec'[n].owner = sec[n].owner /\ sec[n].owner \in CRs
    BY SecretsFields DEF TypeOK, Owned
  <2>2. Anchors(cr[sec[n].owner], n)
    BY <2>1 DEF NInv, Anchored
  <2> QED BY <2>1, <2>2 DEF Anchors
<1>3. Cleaned'
  <2> SUFFICES ASSUME NEW j \in Kinds, NEW n \in Names,
                      wk'[j].pc \in {"delete", "removeFinalizer"}, OwnedBy(wk'[j].cr, sec'[n])
               PROVE  wk'[j].pc = "delete" /\ n \in wk'[j].todo
    BY DEF Cleaned, Cleans
  <2>1. wk'[j] = wk[j] /\ wk[j].cr \in CRs
    BY DEF LocalsSet
  <2>2. Owned(sec[n]) /\ sec[n].owner = wk[j].cr
    BY <2>1, TargetAssumption DEF Owned, OwnedBy
  <2>3. sec[n] \in Secrets
    BY DEF TypeOK
  <2>4. sec[n].exists
    BY <2>2, <2>3, SecretsFields DEF Owned, NoSecret
  <2>5. OwnedBy(wk[j].cr, sec[n])
    BY <2>2, <2>4 DEF OwnedBy, Owned
  <2> QED BY <2>1, <2>5 DEF NInv, Cleaned, Cleans
<1> QED BY <1>1, <1>2, <1>3 DEF NInv

\* A reconcile that takes another step, and leaves CRs and Secrets alone.
LEMMA GoOn ==
  ASSUME TypeOK, NInv, UNCHANGED <<cr, sec>>, NEW k \in Kinds, NEW r, wk' = [wk EXCEPT ![k] = r],
         OnTarget(r, cr[r.cr]), \A n \in Names : Cleans(r, n, sec[n])
  PROVE  NInv'
<1>1. \A j \in Kinds : wk'[j] = IF j = k THEN r ELSE wk[j]
  BY DEF TypeOK
<1>2. Placed'
  BY <1>1 DEF NInv, Placed, OnTarget
<1>3. Anchored'
  BY DEF NInv, Anchored, Anchors, Owned
<1>4. Cleaned'
  BY <1>1 DEF NInv, Cleaned, Cleans, OwnedBy
<1> QED BY <1>2, <1>3, <1>4 DEF NInv

LEMMA StartKept ==
  ASSUME TypeOK, NInv, ~Lag, NEW k \in Kinds, NEW c \in CRs, Start(k, c)
  PROVE  NInv'
<1> DEFINE v == cr[c]
           r == [Idle EXCEPT !.pc = FirstStep(v), !.cr = c, !.crView = v, !.name = v.target]
<1>1. wk' = [wk EXCEPT ![k] = r] /\ UNCHANGED <<cr, sec>>
  BY DEF Start, CRSeen, secVars
<1>2. r.cr = c /\ r.name = v.target /\ r.pc \in {"getOwned", "get", "addFinalizer"}
  BY DEF Idle, FirstStep
<1> HIDE DEF r
<1>3. OnTarget(r, cr[r.cr]) /\ \A n \in Names : Cleans(r, n, sec[n])
  BY <1>2 DEF OnTarget, Cleans
<1> QED BY <1>1, <1>3, GoOn

\* A write of the target: the CR is there, with the finalizer.
LEMMA WriteKept ==
  ASSUME TypeOK, LocalsSet, Tied, NInv, NEW k \in Kinds, wk[k].pc \in {"create", "update"},
         WriteSec(wk[k].name, Applied(wk[k].cr)), Goto(k, "status"), UNCHANGED cr
  PROVE  NInv'
<1> DEFINE c == wk[k].cr
           m == wk[k].name
<1>1. c \in CRs /\ m \in Names /\ wk[k].pc \in Writing /\ wk[k].pc # "idle"
  BY DEF LocalsSet, Writing
<1>2. Anchors(cr[c], m)
  BY <1>1 DEF Tied, HoldsOn, NInv, Placed, OnTarget, Anchors
<1>3. sec'[m] = Applied(c) /\ \A n \in Names : n # m => sec'[n] = sec[n]
  BY <1>1 DEF WriteSec, TypeOK
<1>4. wk'[k].pc = "status" /\ \A j \in Kinds : j # k => wk'[j] = wk[j]
  BY DEF Goto, TypeOK, Reconciles
<1>5. Placed'
  BY <1>4 DEF NInv, Placed, OnTarget, Writing, Cleaning
<1>6. Anchored'
  BY <1>2, <1>3 DEF NInv, Anchored, Applied, Anchors, Owned
<1>7. Cleaned'
  <2> SUFFICES ASSUME NEW j \in Kinds, NEW n \in Names,
                      wk'[j].pc \in {"delete", "removeFinalizer"}, OwnedBy(wk'[j].cr, sec'[n])
               PROVE  wk'[j].pc = "delete" /\ n \in wk'[j].todo
    BY DEF Cleaned, Cleans
  <2>1. j # k /\ wk'[j] = wk[j]
    BY <1>4
  <2>2. wk[j].cr # c
    BY <1>1, <2>1, WorkersApart
  <2>3. sec'[n] = sec[n]
    BY <1>3, <2>1, <2>2 DEF OwnedBy, Applied
  <2> QED BY <2>1, <2>3 DEF NInv, Cleaned, Cleans
<1> QED BY <1>5, <1>6, <1>7 DEF NInv

\* The look at what there is to delete leaves out nothing of the CR's: its
\* Secrets are all where its target is.
LEMMA GetOwnedKept ==
  ASSUME TypeOK, LocalsSet, Tied, NInv, ~Lag, NEW k \in Kinds, GetOwned(k)
  PROVE  NInv'
<1> DEFINE c == wk[k].cr
           todo == {n \in Candidates(c, wk[k].name) : OwnedBy(c, sec[n])}
           r == [wk[k] EXCEPT !.todo = todo, !.pc = AfterOwned(todo)]
<1>1. wk' = [wk EXCEPT ![k] = r] /\ UNCHANGED <<cr, sec>>
  BY DEF GetOwned, SecSeen, TypeOK, crVars, secVars
<1>2. wk[k].pc \in Cleaning /\ c \in CRs /\ wk[k].name \in Names
  BY DEF GetOwned, Cleaning, LocalsSet
<1>3. \A n \in Names : OwnedBy(c, sec[n]) => n = wk[k].name
  <2> SUFFICES ASSUME NEW n \in Names, OwnedBy(c, sec[n]) PROVE n = wk[k].name
    OBVIOUS
  <2>1. Owned(sec[n]) /\ sec[n].owner = c
    BY <1>2, TargetAssumption DEF OwnedBy, Owned
  <2>2. Anchors(cr[c], n)
    BY <2>1 DEF NInv, Anchored
  <2> QED BY <1>2, <2>2 DEF Anchors, NInv, Placed, OnTarget
<1>4. wk[k].name \in Candidates(c, wk[k].name)
  BY <1>2, TargetAssumption DEF Candidates
<1>5. \A n \in Names : OwnedBy(c, sec[n]) => n \in todo
  BY <1>3, <1>4
<1> HIDE DEF todo
<1>6. /\ r.pc = AfterOwned(todo) /\ r.cr = c /\ r.name = wk[k].name /\ r.todo = todo
  BY LocalsKept
<1> HIDE DEF r
<1>7. OnTarget(r, cr[r.cr])
  BY <1>2, <1>6 DEF NInv, Placed, OnTarget
<1>8. \A n \in Names : Cleans(r, n, sec[n])
  BY <1>5, <1>6 DEF Cleans, AfterOwned
<1> QED BY <1>1, <1>7, <1>8, GoOn

LEMMA DeleteOwnedKept ==
  ASSUME TypeOK, LocalsSet, Tied, NInv, NEW k \in Kinds, DeleteOwned(k)
  PROVE  NInv'
<1>1. PICK m \in wk[k].todo :
        /\ IF sec[m].exists THEN WriteSec(m, NoSecret) ELSE UNCHANGED <<sec, secCurrent>>
        /\ wk' = [wk EXCEPT ![k].todo = @ \ {m}, ![k].pc = AfterOwned(wk[k].todo \ {m})]
  BY DEF DeleteOwned
<1> DEFINE c == wk[k].cr
           todo == wk[k].todo \ {m}
           r == [wk[k] EXCEPT !.todo = todo, !.pc = AfterOwned(todo)]
<1>2. wk' = [wk EXCEPT ![k] = r] /\ cr' = cr
  BY <1>1 DEF DeleteOwned, TypeOK, crVars
<1>3. /\ r.pc = AfterOwned(todo) /\ r.cr = c /\ r.name = wk[k].name /\ r.todo = todo
  BY LocalsKept
<1>4. wk[k].pc = "delete" /\ wk[k].pc \in Cleaning
  BY DEF DeleteOwned, Cleaning
<1>5. /\ \A n \in Names : n # m => sec'[n] = sec[n]
      /\ \A n \in Names : sec'[n] = sec[n] \/ sec'[n] = NoSecret
      /\ m \in Names => ~sec'[m].exists
  <2>1. CASE sec[m].exists
    BY <1>1, <2>1 DEF WriteSec, TypeOK, NoSecret
  <2>2. CASE ~sec[m].exists
    BY <1>1, <2>2
  <2> QED BY <2>1, <2>2
<1>6. \A n \in Names : n \in wk[k].todo => n = m \/ n \in todo
  OBVIOUS
<1> HIDE DEF todo, r
<1>7. \A j \in Kinds : wk'[j] = IF j = k THEN r ELSE wk[j]
  BY <1>2 DEF TypeOK
<1>8. Placed'
  BY <1>2, <1>3, <1>4, <1>7 DEF NInv, Placed, OnTarget
<1>9. Anchored'
  BY <1>2, <1>5 DEF NInv, Anchored, Anchors, Owned, NoSecret
<1>10. \A j \in Kinds, n \in Names : Cleans(wk[j], n, sec'[n])
  BY <1>5 DEF NInv, Cleaned, Cleans, OwnedBy, NoSecret
<1>11. \A n \in Names : Cleans(r, n, sec'[n])
  <2> SUFFICES ASSUME NEW n \in Names, OwnedBy(c, sec'[n]) PROVE r.pc = "delete" /\ n \in todo
    BY <1>3 DEF Cleans
  <2>1. n # m
    BY <1>5 DEF OwnedBy
  <2>2. n \in todo
    BY <1>4, <1>6, <1>10, <2>1 DEF Cleans
  <2> QED BY <1>3, <2>2 DEF AfterOwned
<1>12. Cleaned'
  BY <1>7, <1>10, <1>11 DEF Cleaned
<1> QED BY <1>8, <1>9, <1>12 DEF NInv

\* The finalizer goes when no Secret of the CR is left.
LEMMA RemoveFinalizerKept ==
  ASSUME TypeOK, LocalsSet, Tied, NInv, NEW k \in Kinds, RemoveFinalizer(k)
  PROVE  NInv'
<1> DEFINE c == wk[k].cr
<1>1. c \in CRs /\ wk[k].pc = "removeFinalizer" /\ UNCHANGED sec /\ wk' = [wk EXCEPT ![k] = Idle]
  BY DEF RemoveFinalizer, LocalsSet, secVars
<1>2. \A d \in CRs : d # c => cr'[d] = cr[d]
  BY DEF RemoveFinalizer, WriteCR, TypeOK
<1>3. wk'[k].pc = "idle" /\ \A j \in Kinds : j # k => wk'[j] = wk[j]
  BY <1>1 DEF TypeOK, Idle
<1>4. \A n \in Names : ~OwnedBy(c, sec[n])
  BY <1>1 DEF NInv, Cleaned, Cleans
<1>5. Placed'
  <2> SUFFICES ASSUME NEW j \in Kinds, wk'[j].pc \in Writing \cup Cleaning
               PROVE  cr'[wk'[j].cr].target = wk'[j].name
    BY DEF Placed, OnTarget
  <2>1. j # k /\ wk'[j] = wk[j] /\ wk[j].pc # "idle"
    BY <1>3 DEF Writing, Cleaning
  <2>2. wk[j].cr # c /\ wk[j].cr \in CRs
    BY <1>1, <2>1, WorkersApart DEF LocalsSet
  <2> QED BY <1>2, <2>1, <2>2 DEF NInv, Placed, OnTarget
<1>6. Anchored'
  <2> SUFFICES ASSUME NEW n \in Names, Owned(sec[n]) PROVE Anchors(cr'[sec[n].owner], n)
    BY <1>1 DEF Anchored
  <2>1. sec[n] \in Secrets
    BY DEF TypeOK
  <2>2. sec[n].owner \in CRs /\ sec[n].exists
    BY <2>1, SecretsFields DEF Owned, NoSecret
  <2>3. sec[n].owner # c
    BY <1>4, <2>2 DEF OwnedBy, Owned
  <2> QED BY <1>2, <2>2, <2>3 DEF NInv, Anchored
<1>7. Cleaned'
  BY <1>1, <1>3 DEF NInv, Cleaned, Cleans, OwnedBy
<1> QED BY <1>5, <1>6, <1>7 DEF NInv

LEMMA StepKept ==
  ASSUME TypeOK, LocalsSet, Tied, NInv, ~Lag, NEW k \in Kinds, Step(k)
  PROVE  NInv'
<1>1. ASSUME UNCHANGED sec
      PROVE  \A n \in Names : Owned(sec'[n]) => Owned(sec[n]) /\ sec'[n].owner = sec[n].owner
  BY <1>1 DEF Owned
<1>2. ASSUME UNCHANGED cr
      PROVE  \A c \in CRs : cr[c].exists /\ cr[c].fin =>
               cr'[c].exists /\ cr'[c].fin /\ cr'[c].target = cr[c].target
  BY <1>2
<1>3. ASSUME wk' = [wk EXCEPT ![k] = Idle]
      PROVE  \A j \in Kinds : wk'[j] = wk[j] \/ wk'[j].pc \in {"idle", "addFinalizer", "status"}
  BY <1>3 DEF TypeOK, Idle
<1>4. ASSUME Goto(k, "status")
      PROVE  \A j \in Kinds : wk'[j] = wk[j] \/ wk'[j].pc \in {"idle", "addFinalizer", "status"}
  BY <1>4 DEF Goto, TypeOK, Reconciles
<1>5. CASE AddFinalizer(k)
  <2> DEFINE c == wk[k].cr
             v == [wk[k].crView EXCEPT !.fin = TRUE]
  <2>1. wk[k].pc # "idle" /\ c \in CRs /\ wk[k].crView.exists /\ wk[k].crView \in CRStates
    BY <1>5 DEF AddFinalizer, LocalsSet, TypeOK, Reconciles
  <2>2. v.exists /\ v.fin /\ v.target = wk[k].crView.target
    BY <2>1, CRWritten
  <2> HIDE DEF v
  <2>3. CASE UNCHANGED cr
    BY <1>1, <1>2, <1>3, <1>5, <2>3, Steady DEF AddFinalizer, secVars
  <2>4. CASE ~UNCHANGED cr
    <3>1. k \in crCurrent[c] /\ WriteCR(c, v)
      BY <1>5, <2>4 DEF AddFinalizer, CRUnchanged, v
    <3>2. wk[k].crView = cr[c]
      BY <2>1, <3>1 DEF Tied, HoldsOn
    <3>3. \A d \in CRs : cr[d].exists /\ cr[d].fin =>
            cr'[d].exists /\ cr'[d].fin /\ cr'[d].target = cr[d].target
      BY <2>1, <2>2, <3>1, <3>2 DEF WriteCR, TypeOK
    <3> QED BY <1>1, <1>3, <1>5, <3>3, Steady DEF AddFinalizer, secVars
  <2> QED BY <2>3, <2>4
<1>6. CASE PipelineFails(k)
  BY <1>1, <1>2, <1>4, <1>6, Steady DEF PipelineFails, crVars, secVars
<1>7. CASE GetTarget(k)
  <2> DEFINE s == SecSeen(wk[k].name)
             pc == CASE ~s.exists -> "create"
                     [] s.exists /\ MayWrite(wk[k].cr, s) /\ Changes(wk[k].cr, s) -> "update"
                     [] OTHER -> "status"
             r == [wk[k] EXCEPT !.view = s, !.pc = pc]
  <2>1. wk' = [wk EXCEPT ![k] = r] /\ UNCHANGED <<cr, sec>>
    BY <1>7 DEF GetTarget, TypeOK, crVars
  <2>2. pc \in {"create", "update", "status"}
    OBVIOUS
  <2> HIDE DEF s, pc
  <2>3. r.pc = pc /\ r.cr = wk[k].cr /\ r.name = wk[k].name
    BY LocalsKept
  <2> HIDE DEF r
  <2>4. OnTarget(r, cr[r.cr])
    BY <1>7, <2>3 DEF GetTarget, NInv, Placed, OnTarget, Writing
  <2>5. \A n \in Names : Cleans(r, n, sec[n])
    BY <2>2, <2>3 DEF Cleans
  <2> QED BY <2>1, <2>4, <2>5, GoOn
<1>8. CASE CreateTarget(k)
  <2>1. CASE WriteSec(wk[k].name, Applied(wk[k].cr))
    BY <1>8, <2>1, WriteKept DEF CreateTarget, crVars
  <2>2. CASE UNCHANGED sec
    BY <1>1, <1>2, <1>4, <1>8, <2>2, Steady DEF CreateTarget, crVars
  <2> QED BY <1>8, <2>1, <2>2 DEF CreateTarget
<1>9. CASE UpdateTarget(k)
  <2>1. CASE WriteSec(wk[k].name, Applied(wk[k].cr))
    BY <1>9, <2>1, WriteKept DEF UpdateTarget, crVars
  <2>2. CASE UNCHANGED sec
    BY <1>1, <1>2, <1>4, <1>9, <2>2, Steady DEF UpdateTarget, crVars
  <2> QED BY <1>9, <2>1, <2>2 DEF UpdateTarget
<1>10. CASE UpdateStatus(k)
  <2>1. wk[k].cr \in CRs
    BY <1>10 DEF UpdateStatus, LocalsSet
  <2>2. cr' = cr
    BY <1>10, <2>1 DEF UpdateStatus, WriteCR, TypeOK
  <2> QED BY <1>1, <1>2, <1>3, <1>10, <2>2, Steady DEF UpdateStatus, secVars
<1> QED BY <1>5, <1>6, <1>7, <1>8, <1>9, <1>10, GetOwnedKept, DeleteOwnedKept,
           RemoveFinalizerKept DEF Step

LEMMA EnvironmentKept ==
  ASSUME TypeOK, LocalsSet, Tied, NInv, ~Renames, Environment
  PROVE  NInv'
<1>1. ASSUME UNCHANGED cr
      PROVE  \A c \in CRs : cr[c].exists /\ cr[c].fin =>
               cr'[c].exists /\ cr'[c].fin /\ cr'[c].target = cr[c].target
  BY <1>1
<1>2. ASSUME UNCHANGED sec
      PROVE  \A n \in Names : Owned(sec'[n]) => Owned(sec[n]) /\ sec'[n].owner = sec[n].owner
  BY <1>2 DEF Owned
<1>3. ASSUME NEW c \in CRs, NEW v, WriteCR(c, v), UNCHANGED <<sec, wk>>,
             cr[c].exists /\ cr[c].fin => v.exists /\ v.fin /\ v.target = cr[c].target
      PROVE  NInv'
  <2>1. \A d \in CRs : cr[d].exists /\ cr[d].fin =>
          cr'[d].exists /\ cr'[d].fin /\ cr'[d].target = cr[d].target
    BY <1>3 DEF WriteCR, TypeOK
  <2> QED BY <1>2, <1>3, <2>1, Steady
<1>4. ASSUME NEW n \in Names, NEW s, WriteSec(n, s), UNCHANGED <<cr, wk>>,
             Owned(s) => Owned(sec[n]) /\ s.owner = sec[n].owner
      PROVE  NInv'
  <2>1. \A m \in Names : Owned(sec'[m]) => Owned(sec[m]) /\ sec'[m].owner = sec[m].owner
    BY <1>4 DEF WriteSec, TypeOK
  <2> QED BY <1>1, <1>4, <2>1, Steady
<1>5. ASSUME NEW c \in CRs, NEW n \in Names, CreateCR(c, n) \/ Retarget(c, n) PROVE NInv'
  BY <1>3, <1>5 DEF CreateCR, Retarget, secVars
<1>6. ASSUME NEW c \in CRs, DeleteCR(c) PROVE NInv'
  <2> DEFINE v == [cr[c] EXCEPT !.deleting = TRUE]
  <2>1. cr[c] \in CRStates /\ cr[c].exists
    BY <1>6 DEF DeleteCR, TypeOK
  <2>2. v.exists /\ v.fin = cr[c].fin /\ v.target = cr[c].target
    BY <2>1, CRWritten
  <2> HIDE DEF v
  <2>3. CASE cr[c].fin
    <3>1. WriteCR(c, v) /\ UNCHANGED <<sec, wk>>
      BY <1>6, <2>3 DEF DeleteCR, v, secVars
    <3> QED BY <1>3, <2>2, <3>1
  <2>4. CASE ~cr[c].fin
    BY <1>3, <1>6, <2>4 DEF DeleteCR, secVars
  <2> QED BY <2>3, <2>4
<1>7. ASSUME NEW n \in Names, NEW m \in {"none", "other"}, UserCreates(n, m) PROVE NInv'
  <2> DEFINE s == [exists |-> TRUE, managed |-> m, owner |-> None, data |-> None]
  <2>1. WriteSec(n, s) /\ UNCHANGED <<cr, wk>> /\ ~Owned(s)
    BY <1>7 DEF UserCreates, crVars, Owned
  <2> HIDE DEF s
  <2> QED BY <1>4, <2>1
<1>8. ASSUME NEW n \in Names, UserDeletes(n) PROVE NInv'
  <2>1. WriteSec(n, NoSecret) /\ UNCHANGED <<cr, wk>> /\ ~Owned(NoSecret)
    BY <1>8 DEF UserDeletes, crVars, Owned, NoSecret
  <2> QED BY <1>4, <2>1
<1>9. ASSUME NEW n \in Names, UserDrifts(n) PROVE NInv'
  <2> DEFINE s == [sec[n] EXCEPT !.data = None]
  <2>1. sec[n] \in Secrets /\ sec[n] # NoSecret
    BY <1>9 DEF UserDrifts, TypeOK, NoSecret
  <2>2. sec[n] \in [exists : {TRUE}, managed : {"none", "us", "other"},
                    owner : CRs \cup {None}, data : CRs \cup {None}]
    BY <2>1 DEF Secrets
  <2>3. s.managed = sec[n].managed /\ s.owner = sec[n].owner
    BY <2>2
  <2>4. WriteSec(n, s) /\ UNCHANGED <<cr, wk>>
    BY <1>9 DEF UserDrifts, crVars
  <2> HIDE DEF s
  <2> QED BY <1>4, <2>3, <2>4 DEF Owned
<1>10. ASSUME Restart PROVE NInv'
  <2>1. UNCHANGED <<cr, sec>> /\ \A j \in Kinds : wk'[j].pc = "idle"
    BY <1>10 DEF Restart, Idle
  <2> QED BY <1>1, <1>2, <2>1, Steady
<1> QED BY <1>5, <1>6, <1>7, <1>8, <1>9, <1>10 DEF Environment

LEMMA NextKept ==
  ASSUME TypeOK, LocalsSet, Tied, NInv, ~Lag, ~Renames, [Next]_vars
  PROVE  NInv'
<1>1. ASSUME UNCHANGED <<cr, sec, wk>> PROVE NInv'
  BY <1>1 DEF NInv, Placed, OnTarget, Anchored, Owned, Anchors, Cleaned, Cleans, OwnedBy
<1>2. CASE UNCHANGED vars
  BY <1>1, <1>2 DEF vars
<1>3. CASE Informers
  BY <1>1, <1>3 DEF Informers, SyncCR, SyncSecret, crVars
<1> QED BY <1>2, <1>3, StepKept, StartKept, EnvironmentKept DEF Next, Operator

\* labels.go:187-188: where reads are not stale and targets are not moved, a
\* Secret never outlives the CR it names as its owner -- for any number of
\* controllers, CRs and Secrets, whatever restarts come between the steps of a
\* cleanup, and whoever else creates, edits or deletes Secrets meanwhile.
\* (RenameOrphan shows that a moved target does outlive it.)
THEOREM FinalizersCleanUp ==
  ASSUME ~Lag, ~Renames
  PROVE  Spec => []NoOrphan
<1>1. Init => Tied /\ NInv
  <2> SUFFICES ASSUME Init PROVE Tied /\ NInv
    OBVIOUS
  <2>1. /\ \A k \in Kinds : wk[k].pc = "idle"
        /\ \A n \in Names : ~Owned(sec[n])
    BY DEF Init, Idle, Owned, NoSecret
  <2> QED BY <2>1, InitTied DEF NInv, Placed, OnTarget, Writing, Cleaning, Anchored, Cleaned, Cleans
<1>2. IInv /\ Tied /\ NInv /\ [Next]_vars => Tied' /\ NInv'
  BY NextTied, NextKept DEF IInv
<1>3. NInv => NoOrphan
  BY DEF NInv, Anchored, Anchors, Owned, NoOrphan
<1> QED BY <1>1, <1>2, <1>3, Invariant, PTL DEF Spec
================================================================================
