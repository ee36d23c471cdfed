----------------------------- MODULE TargetSecret -----------------------------
(***************************************************************************)
(* Who owns a target Secret.  The three consumer controllers (SopsSecret,  *)
(* SopsSecretManifest, InlineSopsSecret) add a finalizer to their CR,      *)
(* write a target Secret with CreateOrUpdate under the adoption rules, and *)
(* delete it when the CR is deleted.  Each controller is one worker, all   *)
(* of them run at once, and users edit the same CRs and Secrets.           *)
(*                                                                         *)
(* Reads come from informer caches that lag behind the API server; writes  *)
(* go to the API server, which refuses an Update made from a copy with an  *)
(* old resourceVersion and a Create of a name that exists.  A version is   *)
(* not a number here: secCurrent[n] is the set of the copies of Secret n   *)
(* (the cache's, the workers') that carry its present resourceVersion, and *)
(* every write of n empties it.                                            *)
(*                                                                         *)
(* The fetch, decrypt and mapping that precede the write are elsewhere:    *)
(* here they are a payload per CR, and may fail at any time.               *)
(***************************************************************************)
EXTENDS FiniteSets, Naturals

CONSTANTS
  CRs,          \* consumer CRs, each with its own owner key kind/namespace/name
  Kinds,        \* the consumer controllers
  KindOf,       \* KindOf[c]: the controller of c
  Names,        \* namespace/name pairs of target Secrets
  SameNS,       \* SameNS[n]: the names in the namespace of n
  Adopters,     \* the CRs with spec.target.adopt
  Listers,      \* the CRs whose target name is only in the decrypted manifest
  Lag,          \* TRUE: informer caches lag; FALSE: a read sees the API server
  Renames,      \* TRUE: users edit spec.target
  UserSecrets,  \* TRUE: users create, edit and delete Secrets
  MaxEdits,     \* bound on what users and restarts do
  None

ASSUME TargetAssumption ==
  /\ KindOf \in [CRs -> Kinds]
  /\ SameNS \in [Names -> SUBSET Names]
  /\ \A n \in Names : n \in SameNS[n]
  /\ Adopters \subseteq CRs
  /\ Listers \subseteq CRs
  /\ {Lag, Renames, UserSecrets} \subseteq BOOLEAN
  /\ MaxEdits \in Nat
  /\ None \notin CRs \cup Names \cup Kinds

Cache == "cache"
ASSUME CacheIsNoWorker == Cache \notin Kinds

VARIABLES
  cr,          \* cr[c]: the CR at the API server
  crCache,     \* crCache[c]: the CR as the informer has it
  crCurrent,   \* crCurrent[c]: which copies of c have its resourceVersion
  sec,         \* sec[n]: the Secret at the API server
  secCache,    \* secCache[n]: the Secret as the informer has it
  secCurrent,  \* secCurrent[n]: which copies of n have its resourceVersion
  wk,          \* wk[k]: the reconcile in progress in the controller of kind k
  edits        \* what users and restarts have done so far

crVars == <<cr, crCache, crCurrent>>
secVars == <<sec, secCache, secCurrent>>
vars == <<cr, crCache, crCurrent, sec, secCache, secCurrent, wk, edits>>

Holders == Kinds \cup {Cache}

\* A Secret: the managed-by label ("us" is ManagedByValue, "other" any other
\* value), the owner annotation, and whose payload Data and the annotations
\* hold (None: not the operator's).
NoSecret == [exists |-> FALSE, managed |-> "none", owner |-> None, data |-> None]
Secrets == {NoSecret} \cup
           [exists : {TRUE}, managed : {"none", "us", "other"},
            owner : CRs \cup {None}, data : CRs \cup {None}]

\* A CR: the deletion timestamp, the finalizer, and where it wants its Secret.
NoCR == [exists |-> FALSE, deleting |-> FALSE, fin |-> FALSE, target |-> None]
CRStates == {NoCR} \cup
            [exists : {TRUE}, deleting : BOOLEAN, fin : BOOLEAN, target : Names]

Idle == [pc |-> "idle", cr |-> None, crView |-> NoCR, name |-> None,
         view |-> NoSecret, todo |-> {}]
PCs == {"addFinalizer", "get", "create", "update", "status", "getOwned", "delete",
        "removeFinalizer"}
Reconciles == [pc : PCs \cup {"idle"}, cr : CRs \cup {None}, crView : CRStates,
               name : Names \cup {None}, view : Secrets, todo : SUBSET Names]

-----------------------------------------------------------------------------
(* The client: cached reads, versioned writes.                             *)

CRSeen(c) == IF Lag THEN crCache[c] ELSE cr[c]
SecSeen(n) == IF Lag THEN secCache[n] ELSE sec[n]

\* The copies that are current after worker k has read c, or n.
CRReadBy(k, c) == IF ~Lag \/ Cache \in crCurrent[c] THEN crCurrent[c] \cup {k}
                                                    ELSE crCurrent[c] \ {k}
SecReadBy(k, n) == IF ~Lag \/ Cache \in secCurrent[n] THEN secCurrent[n] \cup {k}
                                                      ELSE secCurrent[n] \ {k}

\* A write that the API server accepts: no copy is current any more.
WriteCR(c, v) == cr' = [cr EXCEPT ![c] = v] /\ crCurrent' = [crCurrent EXCEPT ![c] = {}]
WriteSec(n, v) == sec' = [sec EXCEPT ![n] = v] /\ secCurrent' = [secCurrent EXCEPT ![n] = {}]

\* The resourceVersion that k's copy carries is the present one.
CRUnchanged(k, c) == k \in crCurrent[c]
SecUnchanged(k, n) == k \in secCurrent[n]

Goto(k, pc) == wk' = [wk EXCEPT ![k].pc = pc]

-----------------------------------------------------------------------------
(* The adoption rules and the ownership test.                              *)

\* sopssecret_controller.go:235-245: CR c may write over the Secret s.
MayWriteFault(c, s) == ~(s.managed = "us" /\ s.owner \notin {None, c})
MayTakeFault(c, s) == ~(s.managed = "none" /\ c \notin Adopters)
MayWrite(c, s) ==
  /\ ~(s.managed = "none" /\ c \notin Adopters)
  /\ ~(s.managed = "us" /\ s.owner \notin {None, c})

\* What the mutate function makes of any Secret.
AppliedFault(c) == [exists |-> TRUE, managed |-> "us", owner |-> KindOf[c], data |-> c]
Applied(c) == [exists |-> TRUE, managed |-> "us", owner |-> c, data |-> c]

\* CreateOrUpdate writes only what the mutate function has changed.
ChangesFault(c, s) == s.owner # c
Changes(c, s) == s # Applied(c)

\* deleteOwnedSecret, deleteIfOwned: label and annotation are this CR's.
OwnedByFault(c, s) == s.exists /\ s.managed = "us"
OwnedBy(c, s) == s.exists /\ s.managed = "us" /\ s.owner = c

\* The Secrets a finalizing CR asks about: its present target, or, when the
\* name was only in the manifest, every managed Secret of the namespace.
Candidates(c, target) == IF c \in Listers THEN SameNS[target] ELSE {target}

-----------------------------------------------------------------------------
(* Reconcile.                                                              *)

\* Clean up a CR that is being deleted; make sure of the finalizer before
\* anything else.
FirstStepFault(v) == IF v.deleting THEN "getOwned" ELSE "get"
FirstStep(v) == IF v.deleting THEN "getOwned" ELSE IF v.fin THEN "get" ELSE "addFinalizer"

\* The Get of the CR, and the branch on finalizer and deletion timestamp.  A
\* CR that is gone, or deleting without the finalizer, ends it at once.
Start(k, c) ==
  /\ wk[k].pc = "idle"
  /\ KindOf[c] = k
  /\ LET v == CRSeen(c)
     IN /\ v.exists
        /\ ~(v.deleting /\ ~v.fin)
        /\ wk' = [wk EXCEPT ![k] = [Idle EXCEPT
                    !.pc = FirstStep(v), !.cr = c, !.crView = v, !.name = v.target]]
        /\ crCurrent' = [crCurrent EXCEPT ![c] = CRReadBy(k, c)]
  /\ UNCHANGED <<cr, crCache, secVars, edits>>

\* r.Update with the finalizer added: refused when the CR has changed.
AddFinalizer(k) ==
  /\ wk[k].pc = "addFinalizer"
  /\ LET c == wk[k].cr
     IN IF CRUnchanged(k, c)
        THEN WriteCR(c, [wk[k].crView EXCEPT !.fin = TRUE])
        ELSE UNCHANGED <<cr, crCurrent>>
  /\ wk' = [wk EXCEPT ![k] = Idle]
  /\ UNCHANGED <<crCache, secVars, edits>>

\* The source cannot be fetched, decrypted or mapped: failStatus, no write.
PipelineFails(k) ==
  /\ wk[k].pc = "get"
  /\ Goto(k, "status")
  /\ UNCHANGED <<crVars, secVars, edits>>

\* CreateOrUpdate, first half: the cached Get, then the mutate function with
\* its adoption check.  An object the mutation leaves as it was is not written.
GetTarget(k) ==
  /\ wk[k].pc = "get"
  /\ LET c == wk[k].cr
         n == wk[k].name
         s == SecSeen(n)
     IN /\ wk' = [wk EXCEPT ![k].view = s, ![k].pc =
                    CASE ~s.exists -> "create"
                      [] s.exists /\ MayWrite(c, s) /\ Changes(c, s) -> "update"
                      [] OTHER -> "status"]
        /\ secCurrent' = [secCurrent EXCEPT ![n] = SecReadBy(k, n)]
  /\ UNCHANGED <<crVars, sec, secCache, edits>>

\* Create: AlreadyExists when the name was taken since the cached Get.
CreateTarget(k) ==
  /\ wk[k].pc = "create"
  /\ LET n == wk[k].name
     IN IF ~sec[n].exists THEN WriteSec(n, Applied(wk[k].cr))
                          ELSE UNCHANGED <<sec, secCurrent>>
  /\ Goto(k, "status")
  /\ UNCHANGED <<crVars, secCache, edits>>

\* Update: Conflict when the Secret changed since the cached Get, or is gone.
UpdateTarget(k) ==
  /\ wk[k].pc = "update"
  /\ LET n == wk[k].name
     IN IF SecUnchanged(k, n) THEN WriteSec(n, Applied(wk[k].cr))
                              ELSE UNCHANGED <<sec, secCurrent>>
  /\ Goto(k, "status")
  /\ UNCHANGED <<crVars, secCache, edits>>

\* Status().Update on every way out of the pipeline.  It makes a new version of
\* the CR unless it conflicts or nothing in the status is different.
UpdateStatus(k) ==
  /\ wk[k].pc = "status"
  /\ \/ /\ CRUnchanged(k, wk[k].cr)
        /\ WriteCR(wk[k].cr, cr[wk[k].cr])
     \/ UNCHANGED <<cr, crCurrent>>
  /\ wk' = [wk EXCEPT ![k] = Idle]
  /\ UNCHANGED <<crCache, secVars, edits>>

\* Nothing to delete, or nothing any more, is a success: the finalizer goes.
AfterOwnedFault(todo) == IF todo = {} THEN "status" ELSE "delete"
AfterOwned(todo) == IF todo = {} THEN "removeFinalizer" ELSE "delete"

\* deleteOwnedSecret and its variants: the cached Get or List picks what to
\* delete.
GetOwned(k) ==
  /\ wk[k].pc = "getOwned"
  /\ LET c == wk[k].cr
         todo == {n \in Candidates(c, wk[k].name) : OwnedBy(c, SecSeen(n))}
     IN wk' = [wk EXCEPT ![k].todo = todo, ![k].pc = AfterOwned(todo)]
  /\ UNCHANGED <<crVars, secVars, edits>>

\* Delete by name, with no precondition on what is there by now; NotFound is
\* ignored.
DeleteOwned(k) ==
  /\ wk[k].pc = "delete"
  /\ \E n \in wk[k].todo :
       /\ IF sec[n].exists THEN WriteSec(n, NoSecret) ELSE UNCHANGED <<sec, secCurrent>>
       /\ wk' = [wk EXCEPT ![k].todo = @ \ {n}, ![k].pc = AfterOwned(wk[k].todo \ {n})]
  /\ UNCHANGED <<crVars, secCache, edits>>

\* r.Update without the finalizer: the API server then drops the CR.
RemoveFinalizer(k) ==
  /\ wk[k].pc = "removeFinalizer"
  /\ LET c == wk[k].cr
     IN IF CRUnchanged(k, c) THEN WriteCR(c, NoCR) ELSE UNCHANGED <<cr, crCurrent>>
  /\ wk' = [wk EXCEPT ![k] = Idle]
  /\ UNCHANGED <<crCache, secVars, edits>>

-----------------------------------------------------------------------------
(* The informers, the users, and the process itself.                       *)

SyncCR(c) ==
  /\ Lag /\ Cache \notin crCurrent[c]
  /\ crCache' = [crCache EXCEPT ![c] = cr[c]]
  /\ crCurrent' = [crCurrent EXCEPT ![c] = @ \cup {Cache}]
  /\ UNCHANGED <<cr, secVars, wk, edits>>

SyncSecret(n) ==
  /\ Lag /\ Cache \notin secCurrent[n]
  /\ secCache' = [secCache EXCEPT ![n] = sec[n]]
  /\ secCurrent' = [secCurrent EXCEPT ![n] = @ \cup {Cache}]
  /\ UNCHANGED <<crVars, sec, wk, edits>>

Edit == edits < MaxEdits /\ edits' = edits + 1

CreateCR(c, n) ==
  /\ Edit
  /\ ~cr[c].exists
  /\ WriteCR(c, [exists |-> TRUE, deleting |-> FALSE, fin |-> FALSE, target |-> n])
  /\ UNCHANGED <<crCache, secVars, wk>>

\* With a finalizer a deletion only stamps the CR.
DeleteCR(c) ==
  /\ Edit
  /\ cr[c].exists /\ ~cr[c].deleting
  /\ WriteCR(c, IF cr[c].fin THEN [cr[c] EXCEPT !.deleting = TRUE] ELSE NoCR)
  /\ UNCHANGED <<crCache, secVars, wk>>

\* spec.target (or the name in the manifest) is edited.
Retarget(c, n) ==
  /\ Renames /\ Edit
  /\ cr[c].exists /\ ~cr[c].deleting /\ cr[c].target # n
  /\ WriteCR(c, [cr[c] EXCEPT !.target = n])
  /\ UNCHANGED <<crCache, secVars, wk>>

\* A Secret made by somebody else, perhaps another operator's.
UserCreates(n, m) ==
  /\ UserSecrets /\ Edit
  /\ ~sec[n].exists
  /\ WriteSec(n, [exists |-> TRUE, managed |-> m, owner |-> None, data |-> None])
  /\ UNCHANGED <<crVars, secCache, wk>>

UserDeletes(n) ==
  /\ UserSecrets /\ Edit
  /\ sec[n].exists
  /\ WriteSec(n, NoSecret)
  /\ UNCHANGED <<crVars, secCache, wk>>

\* kubectl edit of the data.
UserDrifts(n) ==
  /\ UserSecrets /\ Edit
  /\ sec[n].exists /\ sec[n].data # None
  /\ WriteSec(n, [sec[n] EXCEPT !.data = None])
  /\ UNCHANGED <<crVars, secCache, wk>>

\* The operator dies between any two steps and comes back with caches that it
\* fills before it starts its workers.
Restart ==
  /\ Edit
  /\ wk' = [k \in Kinds |-> Idle]
  /\ crCache' = cr /\ secCache' = sec
  /\ crCurrent' = [c \in CRs |-> {Cache}]
  /\ secCurrent' = [n \in Names |-> {Cache}]
  /\ UNCHANGED <<cr, sec>>

-----------------------------------------------------------------------------

Init ==
  /\ cr = [c \in CRs |-> NoCR] /\ crCache = cr
  /\ crCurrent = [c \in CRs |-> {Cache}]
  /\ sec = [n \in Names |-> NoSecret] /\ secCache = sec
  /\ secCurrent = [n \in Names |-> {Cache}]
  /\ wk = [k \in Kinds |-> Idle]
  /\ edits = 0

\* The rest of a reconcile once it has begun.
Step(k) ==
  \/ AddFinalizer(k) \/ PipelineFails(k)
  \/ GetTarget(k) \/ CreateTarget(k) \/ UpdateTarget(k) \/ UpdateStatus(k)
  \/ GetOwned(k) \/ DeleteOwned(k) \/ RemoveFinalizer(k)

Operator ==
  \/ \E k \in Kinds : Step(k)
  \/ \E k \in Kinds, c \in CRs : Start(k, c)

Informers == (\E c \in CRs : SyncCR(c)) \/ (\E n \in Names : SyncSecret(n))

Environment ==
  \/ \E c \in CRs, n \in Names : CreateCR(c, n) \/ Retarget(c, n)
  \/ \E c \in CRs : DeleteCR(c)
  \/ \E n \in Names, m \in {"none", "other"} : UserCreates(n, m)
  \/ \E n \in Names : UserDeletes(n) \/ UserDrifts(n)
  \/ Restart

Next == Operator \/ Informers \/ Environment

Spec == Init /\ [][Next]_vars

\* Every CR is reconciled again and again (resyncAfter, retryAfter and the rate
\* limiter see to it), a reconcile that has begun goes on, the source can be
\* fetched every now and then, and the watches deliver.
Fairness ==
  /\ \A k \in Kinds : WF_vars(Step(k)) /\ SF_vars(GetTarget(k))
  /\ \A c \in CRs : SF_vars(\E k \in Kinds : Start(k, c))
  /\ \A c \in CRs : WF_vars(SyncCR(c))
  /\ \A n \in Names : WF_vars(SyncSecret(n))

FairSpec == Spec /\ Fairness

-----------------------------------------------------------------------------
(* Properties.                                                             *)

\* Type correctness.
TypeOK ==
  /\ cr \in [CRs -> CRStates]
  /\ crCache \in [CRs -> CRStates]
  /\ crCurrent \in [CRs -> SUBSET Holders]
  /\ sec \in [Names -> Secrets]
  /\ secCache \in [Names -> Secrets]
  /\ secCurrent \in [Names -> SUBSET Holders]
  /\ wk \in [Kinds -> Reconciles]
  /\ edits \in 0..MaxEdits

InUse(c) == cr[c].exists /\ ~cr[c].deleting

\* A step of the operator, not of a user.
ByOperator == edits' = edits

\* SECURITY.md:35, CONTRIBUTING.md:137: a Secret that carries the label and the
\* owner annotation of one CR is never turned into another CR's, whatever the
\* controllers read from their caches and however their writes interleave.
OwnerNeverSwitched ==
  [][\A n \in Names :
       ByOperator /\ sec[n].managed = "us" /\ sec[n].owner # None /\ sec'[n].exists
         => sec'[n].owner = sec[n].owner]_vars

\* SECURITY.md:33: a Secret without the managed-by label is only ever written
\* over by a CR with adopt set, also when it appeared after the cached read.
\* (Of a Secret with another operator's value of the label the code does not
\* keep it: applyTargetSecret's test is for an empty label.)
AdoptionOptIn ==
  [][\A n \in Names :
       ByOperator /\ sec[n].exists /\ sec[n].managed = "none" /\ sec'[n] # sec[n] /\ sec'[n].exists
         => sec'[n].owner \in Adopters]_vars

\* labels.go:167-168: the labels mark ownership for finalizer cleanup.  The
\* operator never deletes a Secret that a CR in use owns, nor one that is not
\* marked as its own.
DeletesOnlyOwned ==
  [][\A n \in Names :
       ByOperator /\ sec[n].exists /\ ~sec'[n].exists
         => sec[n].managed = "us" /\ sec[n].owner # None /\ ~InUse(sec[n].owner)]_vars

\* labels.go:187-188: the finalizer is there so that the target Secret can be
\* cleaned up; a Secret that names a CR as its owner does not outlive it.
NoOrphan ==
  \A n \in Names :
    sec[n].managed = "us" /\ sec[n].owner # None => cr[sec[n].owner].exists

\* A deleted CR does not hang on its finalizer.
DeletionCompletes == \A c \in CRs : cr[c].deleting ~> ~cr[c].deleting

\* README.md:274: out-of-band edits do not survive the next reconcile, and a
\* Secret that was deleted comes back.  Once users leave them alone the target
\* of every CR holds its payload, or something the CR may not write over.
TargetRestored ==
  \A c \in CRs : <>[](~cr[c].exists \/ cr[c].deleting
                       \/ sec[cr[c].target] = Applied(c)
                       \/ (sec[cr[c].target].exists /\ ~MayWrite(c, sec[cr[c].target])))
===============================================================================
