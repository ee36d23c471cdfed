----------------------------- MODULE PipelineProof -----------------------------
(***************************************************************************)
(* The pipeline, for any specs, sources, documents, edits and keys, with   *)
(* the informers and the pass in progress as far behind as they like.      *)
(*                                                                         *)
(* Five arguments.  Edits: what a user writes through one version of the   *)
(* API keeps what the other version has in the rest of the object:         *)
(* ConversionProof's EditedKeeps, carried over to what the API server      *)
(* stores.  Generations: ObservedMeansApplied is not inductive.  It        *)
(* survives the Apply of a pass that began before the last edit because    *)
(* such a pass and a status at the current generation exclude each other:  *)
(* the status got there from a copy of the present object, so the informer *)
(* had delivered it, and the one pass at a time that follows starts from   *)
(* nothing older.  Revisions: the registry's entry never goes back behind  *)
(* what a ready copy of the source reports, and a pass that nothing has    *)
(* asked to run again has read no older one.  Types: every edit counts     *)
(* against one bound.  Documents: what a pass carries, and what a Secret   *)
(* holds, is what TransformProof says of one document and one spec.        *)
(***************************************************************************)
EXTENDS ConsumerPipeline, ConversionProof, TransformProof

-----------------------------------------------------------------------------
(* Edits keep the rest of the object.                                      *)

\* What is stored is a spec of the stored version.
Stores ==
  /\ setup \in Setups
  /\ cr = [spec |-> cr.spec, gen |-> cr.gen, token |-> cr.token, status |-> cr.status]
  /\ src = [spec |-> src.spec, gen |-> src.gen, token |-> src.token, status |-> src.status]
  /\ IsSpec(setup.consumer, Storage(setup.consumer), cr.spec)
  /\ setup.source = "git" =>
       IsSpec("GitRepository", Storage("GitRepository"), src.spec)

\* One step of EditKeepsTheRest.
EditKeeps ==
  /\ cr'.spec # cr.spec => \E e \in SpecEdits[setup.consumer] : Keeps(cr.spec, cr'.spec, e)
  /\ src'.spec # src.spec => \E e \in SourceEdits[SourceKind] : Keeps(src.spec, src'.spec, e)

LEMMA SetupKinds ==
  ASSUME setup \in Setups
  PROVE  /\ setup.consumer \in Kinds \ {"GitRepository"}
         /\ setup.source \in {"git", "url", "bucket"}
         /\ SourceKind \in {"GitRepository", "ObjectSource"}
         /\ setup.source = "git" <=> SourceKind = "GitRepository"
BY PipelineAssumption DEF SourceKind

\* Init names the kind of source in the spec of a consumer that has one.
LEMMA NamesSource ==
  ASSUME NEW kind \in {"SopsSecret", "SopsSecretManifest"}, NEW s, IsSpec(kind, Storage(kind), s),
         NEW k \in {"GitRepository", "ObjectSource"}
  PROVE  IsSpec(kind, Storage(kind), [s EXCEPT !.source.sourceRef.kind = k])
<1> DEFINE source == [s.source EXCEPT !.sourceRef.kind = k]
           new == [s EXCEPT !.source = source]
<1>1. Storage(kind) = "v1alpha2"
  BY DEF Storage
<1>2. "source" \in DOMAIN FieldsOf(kind, "v1alpha2")
      /\ FieldsOf(kind, "v1alpha2")["source"] = SourceRefs("v1alpha2")
  BY DEF FieldsOf
<1>3. s.source \in SourceRefs("v1alpha2")
  BY <1>1, <1>2 DEF IsSpec
<1>4. source \in SourceRefs("v1alpha2")
  BY <1>3 DEF SourceRefs
<1> HIDE DEF source
<1>5. IsSpec(kind, Storage(kind), new)
  BY <1>1, <1>2, <1>4 DEF IsSpec
<1> QED
  BY <1>5 DEF source

LEMMA InitStores == Init => Stores
<1> SUFFICES ASSUME Init PROVE Stores
  OBVIOUS
<1>1. setup \in Setups
  BY DEF Init
<1>2. IsSpec(setup.consumer, Storage(setup.consumer), FirstSpec[setup.consumer])
  BY <1>1, SetupKinds, SpecsAssumption
<1>3. IsSpec(setup.consumer, Storage(setup.consumer), cr.spec)
  <2>1. CASE Inline
    BY <1>2, <2>1 DEF Init
  <2>2. CASE ~Inline
    <3>1. setup.consumer \in {"SopsSecret", "SopsSecretManifest"}
      BY <1>1, <2>2, SetupKinds DEF Kinds, Inline
    <3>2. cr.spec = [FirstSpec[setup.consumer] EXCEPT !.source.sourceRef.kind = SourceKind]
      BY <2>2 DEF Init
    <3>3. IsSpec(setup.consumer, Storage(setup.consumer),
                 [FirstSpec[setup.consumer] EXCEPT !.source.sourceRef.kind = SourceKind])
      BY <1>1, <1>2, <3>1, SetupKinds, NamesSource, Zenon
    <3> QED
      BY <3>2, <3>3, Zenon
  <2> QED
    BY <2>1, <2>2
<1>4. src = NewSource(FirstSource[SourceKind])
  BY DEF Init
<1>5. setup.source = "git" => IsSpec("GitRepository", Storage("GitRepository"), src.spec)
  BY <1>1, <1>4, SetupKinds, SpecsAssumption DEF NewSource
<1>6. /\ cr = [spec |-> cr.spec, gen |-> cr.gen, token |-> cr.token, status |-> cr.status]
      /\ src = [spec |-> src.spec, gen |-> src.gen, token |-> src.token, status |-> src.status]
  BY <1>4 DEF Init, NewSource
<1> QED
  BY <1>1, <1>3, <1>5, <1>6 DEF Stores

LEMMA EditSpecKeeps ==
  ASSUME Stores, NEW e \in SpecEdits[setup.consumer], EditSpec(e) PROVE Stores' /\ EditKeeps
<1> DEFINE kind == setup.consumer
           new == Edited(kind, e.version, cr.spec, e.change)
<1>1. /\ cr' = [cr EXCEPT !.spec = new, !.gen = @ + 1]
      /\ CanServe(kind, e.version, cr.spec)
      /\ UNCHANGED <<setup, src>>
  BY DEF EditSpec, sourceSide
<1>2. /\ kind \in Kinds /\ e.version \in Versions
      /\ IsSpec(kind, Storage(kind), cr.spec)
      /\ Settable(kind, e.version, e.change)
  BY SetupKinds, SpecsAssumption DEF Stores, IsEdit
<1>3. /\ IsSpec(kind, Storage(kind), new)
      /\ Keeps(cr.spec, new, e)
  BY <1>1, <1>2, EditedKeeps DEF Keeps
<1> HIDE DEF new
<1>4. cr' = [spec |-> new, gen |-> cr.gen + 1, token |-> cr.token, status |-> cr.status]
  BY <1>1 DEF Stores
<1>5. Stores'
  BY <1>1, <1>3, <1>4 DEF Stores
<1>6. EditKeeps
  BY <1>1, <1>3, <1>4 DEF EditKeeps
<1> QED
  BY <1>5, <1>6

LEMMA EditSourceKeeps ==
  ASSUME Stores, NEW e \in SourceEdits[SourceKind], EditSource(e) PROVE Stores' /\ EditKeeps
<1> DEFINE git == Edited("GitRepository", e.version, src.spec, e.change)
<1>1. PICK new :
        /\ new = IF setup.source = "git" THEN git ELSE With(src.spec, e.change)
        /\ src' = [src EXCEPT !.spec = new, !.gen = @ + 1]
        /\ UNCHANGED <<setup, cr>>
  BY DEF EditSource
<1>2. src' = [spec |-> new, gen |-> src.gen + 1, token |-> src.token, status |-> src.status]
  BY <1>1 DEF Stores
<1>3. CASE setup.source = "git"
  <2>1. /\ IsSpec("GitRepository", Storage("GitRepository"), src.spec)
        /\ e.version \in Versions
        /\ Settable("GitRepository", e.version, e.change)
    <3>1. SourceKind = "GitRepository"
      BY <1>3, SetupKinds DEF Stores
    <3>2. IsSpec("GitRepository", Storage("GitRepository"), src.spec)
      BY <1>3 DEF Stores
    <3>3. IsEdit("GitRepository", e)
      BY <3>1, SpecsAssumption
    <3> QED
      BY <3>2, <3>3 DEF IsEdit
  <2>2. CanServe("GitRepository", e.version, src.spec) /\ "GitRepository" \in Kinds
    BY DEF CanServe, Representable, Kinds
  <2>3. IsSpec("GitRepository", Storage("GitRepository"), new) /\ Keeps(src.spec, new, e)
    BY <1>1, <1>3, <2>1, <2>2, EditedKeeps DEF Keeps
  <2>4. /\ setup' = setup /\ cr' = cr
        /\ src'.spec = new /\ src'.gen = src.gen + 1
    BY <1>1, <1>2
  <2>5. Stores'
    BY <1>2, <1>3, <2>3, <2>4 DEF Stores
  <2>6. EditKeeps
    BY <2>3, <2>4 DEF EditKeeps
  <2> QED
    BY <2>5, <2>6
<1>4. CASE setup.source # "git"
  <2>1. Keeps(src.spec, new, e)
    BY <1>1, <1>4, WithKeeps DEF Keeps
  <2>2. /\ setup' = setup /\ cr' = cr
        /\ src'.spec = new /\ src'.gen = src.gen + 1
    BY <1>1, <1>2
  <2>3. Stores'
    BY <1>2, <1>4, <2>2 DEF Stores
  <2>4. EditKeeps
    BY <2>1, <2>2 DEF EditKeeps
  <2> QED
    BY <2>3, <2>4
<1> QED
  BY <1>3, <1>4

\* Steps that set other fields of an object, or none.
LEMMA OtherKeeps ==
  ASSUME Stores, setup' = setup,
         \/ cr' = cr
         \/ \E status : cr' = [cr EXCEPT !.status = status]
         \/ \E token : cr' = [cr EXCEPT !.token = token],
         \/ src' = src
         \/ \E status : src' = [src EXCEPT !.status = status]
         \/ \E token : src' = [src EXCEPT !.token = token]
  PROVE  Stores' /\ EditKeeps
<1>1. \E status, token :
        cr' = [spec |-> cr.spec, gen |-> cr.gen, token |-> token, status |-> status]
  BY DEF Stores
<1>2. \E status, token :
        src' = [spec |-> src.spec, gen |-> src.gen, token |-> token, status |-> status]
  BY DEF Stores
<1> QED
  BY <1>1, <1>2 DEF Stores, EditKeeps

LEMMA StepKeeps == ASSUME Stores, [Next]_vars PROVE Stores' /\ EditKeeps
<1>1. CASE Step \/ Decrypt
  BY <1>1, OtherKeeps DEF Step, Start, FetchSource, Fails, Apply, UpdateStatus, Decrypt, sourceSide
<1>2. CASE WakeUp \/ HandleConsumer \/ HandleSource
  BY <1>2, OtherKeeps DEF WakeUp, HandleConsumer, HandleSource, sourceSide
<1>3. CASE SourceFetch \/ SourceReport
  BY <1>3, OtherKeeps DEF SourceFetch, SourceReport
<1>4. CASE SourceFails
  <2>1. src' = [src EXCEPT !.status = [src.status EXCEPT !.ready = FALSE]]
    BY <1>4 DEF SourceFails
  <2> QED
    BY <1>4, <2>1, OtherKeeps DEF SourceFails
<1>5. CASE \E loc \in Locations : Push(loc)
  BY <1>5, OtherKeeps DEF Push
<1>6. CASE User
  <2>1. CASE \E e \in SpecEdits[setup.consumer] : EditSpec(e)
    BY <2>1, EditSpecKeeps
  <2>2. CASE ~Inline /\ \E e \in SourceEdits[SourceKind] : EditSource(e)
    BY <2>2, EditSourceKeeps
  <2>3. CASE Annotate
    BY <2>3, OtherKeeps DEF Annotate, sourceSide
  <2>4. CASE AnnotateSource
    BY <2>4, OtherKeeps DEF AnnotateSource
  <2>5. CASE \E ref \in KeySecrets, key \in AgeKeys \cup {None} : RotateKey(ref, key)
    BY <2>5, OtherKeeps DEF RotateKey, sourceSide
  <2>6. CASE DeleteSecret \/ Drift
    BY <2>6, OtherKeeps DEF DeleteSecret, Drift, sourceSide
  <2> QED
    BY <1>6, <2>1, <2>2, <2>3, <2>4, <2>5, <2>6 DEF User
<1>7. CASE Restart
  BY <1>7, OtherKeeps DEF Restart
<1>8. CASE UNCHANGED vars
  BY <1>8, OtherKeeps DEF vars
<1> QED
  BY <1>1, <1>2, <1>3, <1>4, <1>5, <1>6, <1>7, <1>8 DEF Next

\* The conversion webhook under every interleaving of users and controllers: a field
\* that an edit does not set is stored as it was.
THEOREM EditsKeepTheRest == Spec => EditKeepsTheRest
<1>1. Stores /\ [Next]_vars => [EditKeeps]_vars
  BY StepKeeps
<1>2. Stores /\ [Next]_vars => Stores'
  BY StepKeeps
<1>3. Spec => []Stores
  BY InitStores, <1>2, PTL DEF Spec
<1> QED
  BY <1>1, <1>3, PTL DEF Spec, EditKeepsTheRest, EditKeeps

-----------------------------------------------------------------------------
(* What a status says of the current generation is so.                     *)

\* The records that the operator updates field by field.
ObjectShape(o) ==
  /\ o = [spec |-> o.spec, gen |-> o.gen, token |-> o.token, status |-> o.status]
  /\ o.status = [conditions |-> o.status.conditions, lastAppliedHash |-> o.status.lastAppliedHash,
                 lastSyncedCommit |-> o.status.lastSyncedCommit,
                 lastProcessedReconcileToken |-> o.status.lastProcessedReconcileToken,
                 observedGeneration |-> o.status.observedGeneration]
  /\ o.gen \in Nat
  /\ o.status.observedGeneration \in Nat
SecretShape ==
  sec = [exists |-> sec.exists, type |-> sec.type, data |-> sec.data, hash |-> sec.hash,
         commit |-> sec.commit, by |-> sec.by]
PassShape ==
  pass = [pc |-> pass.pc, view |-> pass.view, at |-> pass.at, out |-> pass.out,
          failed |-> pass.failed]

Shapes ==
  /\ ObjectShape(cr) /\ ObjectShape(crSeen)
  /\ pass.pc # "idle" => ObjectShape(pass.view)
  /\ SecretShape /\ PassShape

\* Copies lag behind, and never ahead; a generation is one spec.
CopiesLag ==
  /\ cr.status.observedGeneration <= cr.gen
  /\ crSeen.gen <= cr.gen
  /\ crSeen.gen = cr.gen => crSeen.spec = cr.spec
  /\ pass.pc # "idle" => /\ pass.view.gen <= crSeen.gen
                         /\ pass.view.gen = cr.gen => pass.view.spec = cr.spec

\* A pass that has got through and not reported applied the spec it works on.
AppliedItsView ==
  pass.pc = "status" /\ pass.failed = "none" /\ sec.by # None => sec.by.spec = pass.view.spec

\* At the current generation nothing older is under way.
NothingOlder ==
  cr.status.observedGeneration = cr.gen =>
    /\ crSeen.gen = cr.gen
    /\ pass.pc # "idle" => pass.view.gen = cr.gen

IInv == Shapes /\ CopiesLag /\ AppliedItsView /\ NothingOlder /\ ObservedMeansApplied

-----------------------------------------------------------------------------

LEMMA InitInv == Init => IInv
<1> SUFFICES ASSUME Init PROVE IInv
  OBVIOUS
<1>1. /\ cr.gen = 1 /\ cr.status = NewStatus /\ crSeen = cr
      /\ sec = NoSecret /\ pass = Idle
  BY DEF Init
<1>2. Shapes
  BY <1>1 DEF Init, Shapes, ObjectShape, SecretShape, PassShape, NewStatus, NoSecret, Idle
<1>3. CopiesLag /\ AppliedItsView /\ NothingOlder /\ ObservedMeansApplied
  BY <1>1 DEF CopiesLag, AppliedItsView, NothingOlder, ObservedMeansApplied, NewStatus, NoSecret, Idle
<1> QED
  BY <1>2, <1>3 DEF IInv

\* What the invariant looks at.
core == <<cr, crSeen, sec, pass>>

LEMMA Frame == ASSUME IInv, UNCHANGED core PROVE IInv'
BY DEF IInv, core, Shapes, ObjectShape, SecretShape, PassShape, CopiesLag, AppliedItsView,
       NothingOlder, ObservedMeansApplied

\* The stages of a pass before it touches the Secret.
LEMMA PassInv ==
  ASSUME IInv, UNCHANGED <<cr, crSeen, sec>>, PassShape',
         pass'.pc # "idle" =>
           /\ IF pass.pc = "idle" THEN pass'.view = crSeen ELSE pass'.view = pass.view
           /\ pass'.pc = "status" => pass'.failed # "none"
  PROVE  IInv'
<1>1. pass'.pc # "idle" => /\ ObjectShape(pass'.view)
                           /\ pass'.view.gen <= crSeen.gen
                           /\ pass'.view.gen = cr.gen => pass'.view.spec = cr.spec
                           /\ cr.status.observedGeneration = cr.gen => pass'.view.gen = cr.gen
  BY DEF IInv, Shapes, CopiesLag, NothingOlder, ObjectShape
<1>2. Shapes'
  BY <1>1 DEF IInv, Shapes, ObjectShape, SecretShape
<1> QED
  BY <1>1, <1>2 DEF IInv, CopiesLag, AppliedItsView, NothingOlder, ObservedMeansApplied

LEMMA StartInv == ASSUME IInv, Start PROVE IInv'
<1>1. pass' = [Idle EXCEPT !.pc = IF Inline THEN "decrypt" ELSE "fetch", !.view = crSeen]
  BY DEF Start
<1>2. PassShape' /\ pass.pc = "idle" /\ pass'.view = crSeen /\ pass'.pc # "status"
  BY <1>1 DEF Start, Idle, PassShape
<1> QED
  BY <1>2, PassInv DEF Start

LEMMA FailsInv ==
  ASSUME IInv, NEW stage, stage # "none", pass.pc # "idle", Fails(stage),
         UNCHANGED <<cr, crSeen, sec>>
  PROVE  IInv'
<1>1. PassShape' /\ pass'.view = pass.view /\ pass'.failed = stage /\ pass'.pc = "status"
  BY DEF Fails, IInv, Shapes, PassShape
<1> QED
  BY <1>1, PassInv

LEMMA FetchSourceInv == ASSUME IInv, FetchSource PROVE IInv'
<1>0. pass.pc = "fetch" /\ UNCHANGED <<cr, crSeen, sec>>
  BY DEF FetchSource
<1>1. CASE Fails("SourceReady")
  BY <1>0, <1>1, FailsInv
<1>2. CASE pass' = [pass EXCEPT !.pc = "decrypt", !.at = ReadAt]
  <2>1. PassShape' /\ pass'.view = pass.view /\ pass'.pc = "decrypt"
    BY <1>2 DEF IInv, Shapes, PassShape
  <2> QED
    BY <1>0, <2>1, PassInv
<1> QED
  BY <1>1, <1>2 DEF FetchSource

LEMMA DecryptInv == ASSUME IInv, Decrypt PROVE IInv'
<1> DEFINE out == Outcome(pass.view.spec, pass.at)
<1>0. pass.pc = "decrypt" /\ UNCHANGED <<cr, crSeen, sec>>
  BY DEF Decrypt
<1>1. CASE Fails("Decrypted")
  BY <1>0, <1>1, FailsInv
<1>2. CASE pass' = [pass EXCEPT !.pc = "apply", !.out = out.value]
  <2>1. PassShape' /\ pass'.view = pass.view /\ pass'.pc = "apply"
    BY <1>2 DEF IInv, Shapes, PassShape
  <2> QED
    BY <1>0, <2>1, PassInv
<1> QED
  BY <1>1, <1>2 DEF Decrypt

\* The write itself: what it was written for is the spec of the pass.
LEMMA ApplyInv == ASSUME IInv, Apply PROVE IInv'
<1> DEFINE new == [exists |-> TRUE, type |-> TypeFor(pass.out), data |-> pass.out.data,
                   hash |-> pass.out.hash, commit |-> IF Inline THEN 0 ELSE pass.at.rev,
                   by |-> [spec |-> pass.view.spec, at |-> pass.at]]
<1>0. pass.pc = "apply" /\ UNCHANGED <<cr, crSeen>>
  BY DEF Apply
<1>1. CASE Fails("Applied") /\ UNCHANGED sec
  BY <1>0, <1>1, FailsInv
<1>2. CASE ~(Fails("Applied") /\ UNCHANGED sec)
  <2>1. /\ sec' = new \/ sec' = [sec EXCEPT !.by = new.by]
        /\ pass' = [pass EXCEPT !.pc = "status"]
    BY <1>2 DEF Apply
  <2>2. SecretShape' /\ sec'.by = [spec |-> pass.view.spec, at |-> pass.at]
    BY <2>1 DEF IInv, Shapes, SecretShape
  <2>3. PassShape' /\ pass'.view = pass.view /\ pass'.failed = pass.failed /\ pass'.pc = "status"
    BY <2>1 DEF IInv, Shapes, PassShape
  <2>4. Shapes' /\ CopiesLag' /\ NothingOlder'
    BY <1>0, <2>2, <2>3 DEF IInv, Shapes, ObjectShape, CopiesLag, NothingOlder
  <2>5. AppliedItsView'
    BY <2>2, <2>3 DEF AppliedItsView
  <2>6. ObservedMeansApplied'
    BY <1>0, <2>2 DEF IInv, ObservedMeansApplied, NothingOlder, CopiesLag
  <2> QED
    BY <2>4, <2>5, <2>6 DEF IInv
<1> QED
  BY <1>1, <1>2

\* A status that the API server accepts is one about the present object.
LEMMA UpdateStatusInv == ASSUME IInv, UpdateStatus PROVE IInv'
<1>0. pass.pc = "status" /\ pass' = Idle /\ UNCHANGED <<crSeen, sec>>
  BY DEF UpdateStatus
<1>1. PassShape' /\ pass'.pc = "idle" /\ SecretShape'
  BY <1>0 DEF Idle, PassShape, SecretShape, IInv, Shapes
<1>2. CASE UNCHANGED cr
  BY <1>0, <1>1, <1>2 DEF IInv, Shapes, ObjectShape, CopiesLag, AppliedItsView, NothingOlder,
                          ObservedMeansApplied
<1>3. CASE pass.view = cr /\ cr' = [cr EXCEPT !.status = StatusAfter]
  <2>1. /\ ObjectShape(cr') /\ cr'.gen = cr.gen /\ cr'.spec = cr.spec
        /\ \/ cr'.status.observedGeneration = cr.status.observedGeneration
           \/ pass.failed = "none" /\ cr'.status.observedGeneration = cr.gen
    BY <1>3 DEF IInv, Shapes, ObjectShape, StatusAfter
  <2>2. crSeen.gen = cr.gen
    BY <1>0, <1>3 DEF IInv, CopiesLag, Shapes, ObjectShape
  <2>3. Shapes' /\ CopiesLag' /\ NothingOlder' /\ AppliedItsView'
    BY <1>0, <1>1, <2>1, <2>2 DEF IInv, Shapes, ObjectShape, CopiesLag, NothingOlder, AppliedItsView
  <2>4. ObservedMeansApplied'
    BY <1>0, <1>3, <2>1 DEF IInv, ObservedMeansApplied, AppliedItsView
  <2> QED
    BY <2>3, <2>4 DEF IInv
<1> QED
  BY <1>2, <1>3 DEF UpdateStatus

LEMMA HandleConsumerInv == ASSUME IInv, HandleConsumer PROVE IInv'
<1>1. crSeen' = cr /\ UNCHANGED <<cr, sec, pass>>
  BY DEF HandleConsumer
<1>2. Shapes' /\ CopiesLag' /\ NothingOlder'
  BY <1>1 DEF IInv, Shapes, ObjectShape, SecretShape, PassShape, CopiesLag, NothingOlder
<1> QED
  BY <1>1, <1>2 DEF IInv, AppliedItsView, ObservedMeansApplied

\* A new generation that no status has observed.
LEMMA EditSpecInv == ASSUME IInv, NEW e, EditSpec(e) PROVE IInv'
<1> DEFINE new == Edited(setup.consumer, e.version, cr.spec, e.change)
<1>1. cr' = [cr EXCEPT !.spec = new, !.gen = @ + 1] /\ UNCHANGED <<crSeen, sec, pass>>
  BY DEF EditSpec
<1> HIDE DEF new
<1>2. ObjectShape(cr') /\ cr'.gen = cr.gen + 1 /\ cr'.status = cr.status
  <2>1. cr = [spec |-> cr.spec, gen |-> cr.gen, token |-> cr.token, status |-> cr.status]
    BY DEF IInv, Shapes, ObjectShape
  <2>2. cr' = [spec |-> new, gen |-> cr.gen + 1, token |-> cr.token, status |-> cr.status]
    BY <1>1, <2>1
  <2> QED
    BY <2>2 DEF IInv, Shapes, ObjectShape
<1>3. cr'.status.observedGeneration # cr'.gen /\ crSeen.gen # cr'.gen
  BY <1>2 DEF IInv, Shapes, ObjectShape, CopiesLag
<1>4. Shapes' /\ CopiesLag'
  BY <1>1, <1>2, <1>3 DEF IInv, Shapes, ObjectShape, SecretShape, PassShape, CopiesLag
<1> QED
  BY <1>1, <1>3, <1>4 DEF IInv, AppliedItsView, NothingOlder, ObservedMeansApplied

LEMMA AnnotateInv == ASSUME IInv, Annotate PROVE IInv'
<1>1. cr' = [cr EXCEPT !.token = @ + 1] /\ UNCHANGED <<crSeen, sec, pass>>
  BY DEF Annotate
<1>2. ObjectShape(cr') /\ cr'.gen = cr.gen /\ cr'.status = cr.status /\ cr'.spec = cr.spec
  BY <1>1 DEF IInv, Shapes, ObjectShape
<1> QED
  BY <1>1, <1>2 DEF IInv, Shapes, ObjectShape, SecretShape, PassShape, CopiesLag, AppliedItsView,
                    NothingOlder, ObservedMeansApplied

\* Somebody else touches the Secret: it was applied for nothing any more.
LEMMA TouchedInv ==
  ASSUME IInv, SecretShape', sec'.by = None, UNCHANGED <<cr, crSeen, pass>> PROVE IInv'
<1>1. Shapes'
  BY DEF IInv, Shapes, ObjectShape, PassShape
<1> QED
  BY <1>1 DEF IInv, CopiesLag, AppliedItsView, NothingOlder, ObservedMeansApplied

LEMMA DeleteSecretInv == ASSUME IInv, DeleteSecret PROVE IInv'
BY TouchedInv DEF DeleteSecret, NoSecret, SecretShape

LEMMA DriftInv == ASSUME IInv, Drift PROVE IInv'
<1>1. SecretShape' /\ sec'.by = None
  BY DEF Drift, IInv, Shapes, SecretShape
<1> QED
  BY <1>1, TouchedInv DEF Drift

LEMMA RestartInv == ASSUME IInv, Restart PROVE IInv'
<1>1. crSeen' = cr /\ pass' = Idle /\ UNCHANGED <<cr, sec>>
  BY DEF Restart
<1>2. Shapes' /\ pass'.pc = "idle"
  BY <1>1 DEF IInv, Shapes, ObjectShape, SecretShape, PassShape, Idle
<1> QED
  BY <1>1, <1>2 DEF IInv, Shapes, ObjectShape, CopiesLag, AppliedItsView, NothingOlder,
                    ObservedMeansApplied

\* The source's side, timers and keys.
LEMMA OtherInv ==
  ASSUME IInv,
         \/ WakeUp \/ HandleSource \/ SourceFetch \/ SourceReport \/ SourceFails
         \/ AnnotateSource
         \/ \E loc \in Locations : Push(loc)
         \/ \E e : EditSource(e)
         \/ \E ref \in KeySecrets, key \in AgeKeys \cup {None} : RotateKey(ref, key)
  PROVE  IInv'
<1>1. UNCHANGED core
  BY DEF WakeUp, HandleSource, SourceFetch, SourceReport, SourceFails, AnnotateSource, Push,
         EditSource, RotateKey, core
<1> QED
  BY <1>1, Frame

LEMMA StepInv == ASSUME IInv, [Next]_vars PROVE IInv'
<1>1. CASE Step
  BY <1>1, StartInv, FetchSourceInv, ApplyInv, UpdateStatusInv DEF Step
<1>2. CASE Decrypt
  BY <1>2, DecryptInv
<1>3. CASE HandleConsumer
  BY <1>3, HandleConsumerInv
<1>4. CASE User
  <2>1. CASE \E e \in SpecEdits[setup.consumer] : EditSpec(e)
    BY <2>1, EditSpecInv
  <2>2. CASE ~Inline /\ \E e \in SourceEdits[SourceKind] : EditSource(e)
    BY <2>2, OtherInv
  <2>3. CASE Annotate
    BY <2>3, AnnotateInv
  <2>4. CASE AnnotateSource
    BY <2>4, OtherInv
  <2>5. CASE \E ref \in KeySecrets, key \in AgeKeys \cup {None} : RotateKey(ref, key)
    BY <2>5, OtherInv
  <2>6. CASE DeleteSecret
    BY <2>6, DeleteSecretInv
  <2>7. CASE Drift
    BY <2>7, DriftInv
  <2> QED
    BY <1>4, <2>1, <2>2, <2>3, <2>4, <2>5, <2>6, <2>7 DEF User
<1>5. CASE Restart
  BY <1>5, RestartInv
<1>6. CASE \/ WakeUp \/ HandleSource \/ SourceFetch \/ SourceReport \/ SourceFails
           \/ \E loc \in Locations : Push(loc)
  BY <1>6, OtherInv
<1>7. CASE UNCHANGED vars
  BY <1>7, Frame DEF vars, core
<1> QED
  BY <1>1, <1>2, <1>3, <1>4, <1>5, <1>6, <1>7 DEF Next

\* At the current generation, a Secret that nobody has touched since was applied
\* for the current spec: UpdateStatus (sopssecret_controller.go:144-152) may be
\* believed whatever an older pass was doing meanwhile.
THEOREM ObservedGenerationHolds == Spec => []ObservedMeansApplied
<1>1. IInv => ObservedMeansApplied
  BY DEF IInv
<1> QED
  BY <1>1, InitInv, StepInv, PTL DEF Spec

-----------------------------------------------------------------------------
(* The source's side: whatever a copy of the source reports as fetched,    *)
(* upstream has it, and the cache has not gone back behind it.             *)

\* at is a revision that upstream up has.
Grounded(at, up) == at.loc \in Locations /\ at.rev \in 1..up[at.loc]

\* Copy o of source s reports for the present generation.
Current(o, s) == o.gen = s.gen /\ o.status.observedGeneration = o.gen

\* What was read at at is not behind what o reports.
Covered(at, o, s) ==
  /\ at.loc = o.status.at.loc => at.rev >= o.status.at.rev
  /\ Current(o, s) => at.loc = o.status.at.loc

\* What may be relied on of copy o that says it is ready; c is the cache.
Reports(o, s, up, c) ==
  o.status.ready =>
    /\ Grounded(o.status.at, up)
    /\ Current(o, s) => o.status.at.loc = s.spec.url
    /\ c # None => Covered(c, o, s)

SourceShape(o) ==
  /\ o = [spec |-> o.spec, gen |-> o.gen, token |-> o.token, status |-> o.status]
  /\ o.status = [ready |-> o.status.ready, at |-> o.status.at, token |-> o.status.token,
                 observedGeneration |-> o.status.observedGeneration]
  /\ o.gen \in Nat /\ o.status.observedGeneration \in Nat
  /\ o.status.observedGeneration <= o.gen
  /\ "url" \in DOMAIN o.spec /\ o.spec.url \in Locations

Sources == SourceShape(src) /\ SourceShape(srcSeen) /\ srcSeen.gen <= src.gen
Upstreams ==
  upstream \in [Locations -> Nat] /\ \A loc \in Locations : upstream[loc] \in 1..Revisions[loc]
Cached == cache # None => Grounded(cache, upstream)
Fetched == fetched # None => Grounded(cache, upstream) /\ cache.loc = fetched.spec.url
Reported == Reports(src, src, upstream, cache) /\ Reports(srcSeen, src, upstream, cache)

SourceInv == Stores /\ Sources /\ Upstreams /\ Cached /\ Fetched /\ Reported

LEMMA InitSource == Init => SourceInv
<1> SUFFICES ASSUME Init PROVE SourceInv
  OBVIOUS
<1>1. /\ src = NewSource(FirstSource[SourceKind]) /\ srcSeen = src
      /\ upstream = [loc \in Locations |-> 1] /\ cache = None /\ fetched = None
  BY DEF Init
<1>2. Stores
  BY InitStores
<1>3. SourceKind \in {"GitRepository", "ObjectSource"}
  BY <1>2, SetupKinds DEF Stores
<1>4. SourceShape(src)
  BY <1>1, <1>3, SpecsAssumption DEF SourceShape, NewSource
<1>5. ~src.status.ready
  BY <1>1 DEF NewSource
<1>6. Upstreams
  BY <1>1, PipelineAssumption DEF Upstreams
<1> QED
  BY <1>1, <1>2, <1>4, <1>5, <1>6 DEF SourceInv, Sources, Cached, Fetched, Reported, Reports,
                                SourceShape

\* Steps that leave the source's side alone.
LEMMA SourceFrame ==
  ASSUME SourceInv, Stores', UNCHANGED sourceSide PROVE SourceInv'
BY DEF SourceInv, sourceSide, Sources, SourceShape, Upstreams, Cached, Fetched, Reported, Reports,
       Grounded, Covered, Current

LEMMA HandleSourceInv == ASSUME SourceInv, Stores', HandleSource PROVE SourceInv'
<1>1. srcSeen' = src /\ UNCHANGED <<src, upstream, cache, fetched>>
  BY DEF HandleSource
<1>2. Sources' /\ Upstreams' /\ Cached' /\ Fetched'
  BY <1>1 DEF SourceInv, Sources, SourceShape, Upstreams, Cached, Fetched, Grounded
<1>3. Reported'
  BY <1>1 DEF SourceInv, Reported, Reports, Grounded, Covered, Current
<1> QED
  BY <1>2, <1>3 DEF SourceInv

\* A fetch gets the newest revision there is at the present URL.
LEMMA SourceFetchInv == ASSUME SourceInv, Stores', SourceFetch PROVE SourceInv'
<1> DEFINE newest == [loc |-> src.spec.url, rev |-> upstream[src.spec.url]]
<1>1. cache' = newest /\ fetched' = src /\ UNCHANGED <<src, srcSeen, upstream>>
  BY DEF SourceFetch
<1>2. src.spec.url \in Locations /\ \A loc \in Locations : upstream[loc] \in Nat \ {0}
  <2>1. src.spec.url \in Locations
    BY DEF SourceInv, Sources, SourceShape
  <2>2. ASSUME NEW loc \in Locations PROVE upstream[loc] \in Nat \ {0}
    BY DEF SourceInv, Upstreams
  <2> QED
    BY <2>1, <2>2
<1>3. newest.loc = src.spec.url /\ newest.rev = upstream[newest.loc]
  OBVIOUS
<1> HIDE DEF newest
<1>4. Grounded(newest, upstream)
  BY <1>2, <1>3 DEF Grounded
<1>5. ASSUME NEW o, Reports(o, src, upstream, cache) PROVE Reports(o, src, upstream, newest)
  <2> SUFFICES ASSUME o.status.ready PROVE Reports(o, src, upstream, newest)
    BY DEF Reports
  <2>1. Grounded(o.status.at, upstream) /\ (Current(o, src) => o.status.at.loc = src.spec.url)
    BY <1>5 DEF Reports
  <2>2. Covered(newest, o, src)
    BY <1>2, <1>3, <2>1 DEF Covered, Grounded
  <2> QED
    BY <2>1, <2>2 DEF Reports
<1>6. Sources' /\ Upstreams'
  BY <1>1 DEF SourceInv, Sources, SourceShape, Upstreams
<1>7. Cached' /\ Fetched'
  BY <1>1, <1>3, <1>4 DEF Cached, Fetched
<1>8. Reported'
  BY <1>1, <1>5 DEF SourceInv, Reported
<1> QED
  BY <1>6, <1>7, <1>8 DEF SourceInv

LEMMA SourceReportInv == ASSUME SourceInv, Stores', SourceReport PROVE SourceInv'
<1>1. /\ fetched # None /\ fetched' = None
      /\ src' = IF fetched = src THEN [src EXCEPT !.status = Synced] ELSE src
      /\ UNCHANGED <<srcSeen, upstream, cache>>
  BY DEF SourceReport
<1>2. Upstreams' /\ Cached' /\ Fetched'
  BY <1>1 DEF SourceInv, Upstreams, Cached, Fetched, Grounded
<1>3. CASE src' = src
  BY <1>1, <1>2, <1>3 DEF SourceInv, Sources, SourceShape, Reported, Reports, Grounded, Covered,
                          Current
<1>4. CASE fetched = src /\ src' = [src EXCEPT !.status = Synced]
  <2>1. src' = [spec |-> src.spec, gen |-> src.gen, token |-> src.token, status |-> Synced]
    BY <1>4 DEF SourceInv, Sources, SourceShape
  <2>2. SourceShape(src') /\ src'.gen = src.gen /\ src'.spec = src.spec
        /\ src'.status.at = cache
    BY <2>1 DEF SourceInv, Sources, SourceShape, Synced
  <2>3. Sources'
    BY <1>1, <2>2 DEF SourceInv, Sources, SourceShape
  <2>4. Grounded(cache, upstream) /\ cache.loc = src.spec.url
    BY <1>1, <1>4 DEF SourceInv, Fetched
  <2>5. Reports(src', src', upstream, cache)
    BY <2>2, <2>4 DEF Reports, Covered, Grounded
  <2>6. Reports(srcSeen, src', upstream, cache)
    BY <2>2 DEF SourceInv, Reported, Reports, Covered, Current
  <2> QED
    BY <1>1, <1>2, <2>3, <2>5, <2>6 DEF SourceInv, Reported
<1> QED
  BY <1>1, <1>3, <1>4

LEMMA SourceFailsInv == ASSUME SourceInv, Stores', SourceFails PROVE SourceInv'
<1>1. /\ fetched = None /\ src' = [src EXCEPT !.status.ready = FALSE]
      /\ cache' = cache \/ cache' = None
      /\ UNCHANGED <<srcSeen, upstream, fetched>>
  BY DEF SourceFails
<1>2. src' = [spec |-> src.spec, gen |-> src.gen, token |-> src.token,
              status |-> [src.status EXCEPT !.ready = FALSE]]
  BY <1>1 DEF SourceInv, Sources, SourceShape
<1>3. [src.status EXCEPT !.ready = FALSE]
        = [ready |-> FALSE, at |-> src.status.at, token |-> src.status.token,
           observedGeneration |-> src.status.observedGeneration]
  <2>1. src.status = [ready |-> src.status.ready, at |-> src.status.at, token |-> src.status.token,
                      observedGeneration |-> src.status.observedGeneration]
    BY DEF SourceInv, Sources, SourceShape
  <2>2. ASSUME NEW y, y = [src.status EXCEPT !.ready = FALSE]
        PROVE  y = [ready |-> FALSE, at |-> src.status.at, token |-> src.status.token,
                    observedGeneration |-> src.status.observedGeneration]
    BY <2>1, <2>2, Zenon
  <2> QED
    BY <2>2
<1>4. SourceShape(src') /\ src'.gen = src.gen /\ src'.spec = src.spec /\ ~src'.status.ready
  BY <1>2, <1>3 DEF SourceInv, Sources, SourceShape
<1>5. Sources' /\ Upstreams' /\ Cached' /\ Fetched'
  BY <1>1, <1>4 DEF SourceInv, Sources, SourceShape, Upstreams, Cached, Fetched, Grounded
<1>6. Reports(srcSeen, src', upstream, cache')
  BY <1>1, <1>4 DEF SourceInv, Reported, Reports, Covered, Current
<1> QED
  BY <1>1, <1>4, <1>5, <1>6 DEF SourceInv, Reported, Reports

LEMMA PushInv == ASSUME SourceInv, Stores', NEW loc \in Locations, Push(loc) PROVE SourceInv'
<1>1. /\ upstream' = [upstream EXCEPT ![loc] = @ + 1]
      /\ UNCHANGED <<src, srcSeen, cache, fetched>>
  BY DEF Push
<1>2. upstream' \in [Locations -> Nat] /\ \A l \in Locations : upstream[l] <= upstream'[l]
  BY <1>1 DEF SourceInv, Upstreams
<1>8. Upstreams'
  <2>1. upstream[loc] < Revisions[loc]
    BY DEF Push
  <2>2. \A l \in Locations : Revisions[l] \in Nat
    BY PipelineAssumption
  <2> QED
    BY <1>1, <1>2, <2>1, <2>2 DEF SourceInv, Upstreams
<1>3. ASSUME NEW at, Grounded(at, upstream) PROVE Grounded(at, upstream')
  BY <1>2, <1>3 DEF Grounded, SourceInv, Upstreams
<1>4. ASSUME NEW o, Reports(o, src, upstream, cache) PROVE Reports(o, src, upstream', cache)
  BY <1>3, <1>4 DEF Reports
<1>5. Sources' /\ Upstreams'
  BY <1>1, <1>8 DEF SourceInv, Sources, SourceShape
<1>6. Cached' /\ Fetched'
  BY <1>1, <1>3 DEF SourceInv, Cached, Fetched
<1>7. Reported'
  BY <1>1, <1>4 DEF SourceInv, Reported
<1> QED
  BY <1>5, <1>6, <1>7 DEF SourceInv

\* Nobody has reported for the generation that an edit begins.
LEMMA EditSourceInv ==
  ASSUME SourceInv, Stores', NEW e \in SourceEdits[SourceKind], EditSource(e)
  PROVE  SourceInv'
<1> DEFINE new == With(src.spec, e.change)
<1>0. /\ SourceKind \in {"GitRepository", "ObjectSource"}
      /\ setup.source = "git" <=> SourceKind = "GitRepository"
  BY SetupKinds DEF SourceInv, Stores
<1>1. /\ src' = [src EXCEPT !.spec = new, !.gen = @ + 1]
      /\ UNCHANGED <<srcSeen, upstream, cache, fetched>>
  <2>1. CASE setup.source # "git"
    BY <2>1 DEF EditSource
  <2>2. CASE setup.source = "git"
    <3>1. /\ IsSpec("GitRepository", Storage("GitRepository"), src.spec)
          /\ e.version \in Versions
          /\ Settable("GitRepository", e.version, e.change)
      BY <1>0, <2>2, SpecsAssumption DEF SourceInv, Stores, IsEdit
    <3>2. Edited("GitRepository", e.version, src.spec, e.change) = new
      <4>1. Served("GitRepository", e.version, src.spec) = src.spec
        BY <3>1, Unchanged DEF Served, Storage, Versions
      <4>2. IsSpec("GitRepository", e.version, new)
        BY <3>1, Unchanged, WithIsSpec
      <4>3. Stored("GitRepository", e.version, new) = new
        BY <3>1, <4>2, Unchanged DEF Stored, Storage, Versions
      <4> QED
        BY <4>1, <4>3 DEF Edited
    <3> QED
      BY <2>2, <3>2 DEF EditSource
  <2> QED
    BY <2>1, <2>2
<1>2. "url" \in DOMAIN new /\ new.url \in Locations
  BY <1>0, SpecsAssumption DEF With, SourceInv, Sources, SourceShape
<1> HIDE DEF new
<1>3. src' = [spec |-> new, gen |-> src.gen + 1, token |-> src.token, status |-> src.status]
  BY <1>1 DEF SourceInv, Sources, SourceShape
<1>4. SourceShape(src') /\ src'.gen = src.gen + 1 /\ src'.status = src.status
  BY <1>2, <1>3 DEF SourceInv, Sources, SourceShape
<1>5. ~Current(src', src') /\ ~Current(srcSeen, src')
  BY <1>4 DEF SourceInv, Sources, SourceShape, Current
<1>6. Sources' /\ Upstreams' /\ Cached' /\ Fetched'
  BY <1>1, <1>4 DEF SourceInv, Sources, SourceShape, Upstreams, Cached, Fetched, Grounded
<1>7. Reports(src', src', upstream, cache) /\ Reports(srcSeen, src', upstream, cache)
  BY <1>4, <1>5 DEF SourceInv, Reported, Reports, Covered
<1> QED
  BY <1>1, <1>6, <1>7 DEF SourceInv, Reported

LEMMA AnnotateSourceInv == ASSUME SourceInv, Stores', AnnotateSource PROVE SourceInv'
<1>1. /\ src' = [src EXCEPT !.token = @ + 1]
      /\ UNCHANGED <<srcSeen, upstream, cache, fetched>>
  BY DEF AnnotateSource
<1>2. src' = [spec |-> src.spec, gen |-> src.gen, token |-> src.token + 1, status |-> src.status]
  BY <1>1 DEF SourceInv, Sources, SourceShape
<1>3. /\ SourceShape(src')
      /\ src'.gen = src.gen /\ src'.spec = src.spec /\ src'.status = src.status
  BY <1>2 DEF SourceInv, Sources, SourceShape
<1>4. Sources' /\ Upstreams' /\ Cached' /\ Fetched'
  BY <1>1, <1>3 DEF SourceInv, Sources, SourceShape, Upstreams, Cached, Fetched, Grounded
<1>5. Reports(src', src', upstream, cache) /\ Reports(srcSeen, src', upstream, cache)
  BY <1>3 DEF SourceInv, Reported, Reports, Covered, Current
<1> QED
  BY <1>1, <1>4, <1>5 DEF SourceInv, Reported

LEMMA RestartSourceInv == ASSUME SourceInv, Stores', Restart PROVE SourceInv'
<1>1. srcSeen' = src /\ cache' = None /\ fetched' = None /\ UNCHANGED <<src, upstream>>
  BY DEF Restart
<1>2. Sources' /\ Upstreams' /\ Cached' /\ Fetched'
  BY <1>1 DEF SourceInv, Sources, SourceShape, Upstreams, Cached, Fetched
<1>3. Reported'
  BY <1>1 DEF SourceInv, Reported, Reports, Grounded, Current
<1> QED
  BY <1>2, <1>3 DEF SourceInv

LEMMA SourceStep == ASSUME SourceInv, [Next]_vars PROVE SourceInv'
<1>0. Stores'
  BY StepKeeps DEF SourceInv
<1>1. CASE Step \/ Decrypt \/ WakeUp \/ HandleConsumer
  <2>1. UNCHANGED sourceSide
    BY <1>1 DEF Step, Start, FetchSource, Apply, UpdateStatus, Decrypt, WakeUp, HandleConsumer
  <2> QED
    BY <1>0, <2>1, SourceFrame
<1>2. CASE HandleSource \/ SourceFetch \/ SourceReport \/ SourceFails
  BY <1>0, <1>2, HandleSourceInv, SourceFetchInv, SourceReportInv, SourceFailsInv
<1>3. CASE \E loc \in Locations : Push(loc)
  BY <1>0, <1>3, PushInv
<1>4. CASE User
  <2>1. CASE ~Inline /\ \E e \in SourceEdits[SourceKind] : EditSource(e)
    BY <1>0, <2>1, EditSourceInv
  <2>2. CASE AnnotateSource
    BY <1>0, <2>2, AnnotateSourceInv
  <2>3. CASE \/ \E e \in SpecEdits[setup.consumer] : EditSpec(e)
             \/ Annotate \/ DeleteSecret \/ Drift
             \/ \E ref \in KeySecrets, key \in AgeKeys \cup {None} : RotateKey(ref, key)
    <3>1. UNCHANGED sourceSide
      BY <2>3 DEF EditSpec, Annotate, DeleteSecret, Drift, RotateKey
    <3> QED
      BY <1>0, <3>1, SourceFrame
  <2> QED
    BY <1>4, <2>1, <2>2, <2>3 DEF User
<1>5. CASE Restart
  BY <1>0, <1>5, RestartSourceInv
<1>6. CASE UNCHANGED vars
  <2>1. UNCHANGED sourceSide
    BY <1>6 DEF vars, sourceSide
  <2> QED
    BY <1>0, <2>1, SourceFrame
<1> QED
  BY <1>1, <1>2, <1>3, <1>4, <1>5, <1>6 DEF Next

-----------------------------------------------------------------------------
(* The consumer's side: a pass that nothing has asked to run again read    *)
(* nothing older than what the source is seen to report, and at rest a     *)
(* success is one of such a pass.                                          *)

Direct == ~Inline /\ setup.source # "bucket"
HasRead == pass.pc \in {"decrypt", "apply"} \/ (pass.pc = "status" /\ pass.failed = "none")
AllTrue(status) == status.conditions = [c \in Conditions |-> "True"]
Fresh(at, o, s) == o.status.ready => Covered(at, o, s)

ViewSeen == pass.pc # "idle" /\ wake # "now" => pass.view = crSeen
FailureNamed == pass.failed \in Conditions \cup {"none"}
ReadFresh ==
  Direct /\ wake # "now" /\ HasRead => Indexed(pass.view.spec) /\ Fresh(pass.at, srcSeen, src)
AppliedAt ==
  pass.pc = "status" /\ pass.failed = "none" /\ sec.by # None => sec.by.at = pass.at
AtRest ==
  Direct /\ wake # "now" /\ pass.pc = "idle" /\ AllTrue(cr.status) =>
    Indexed(crSeen.spec) /\ (sec.by # None => Fresh(sec.by.at, srcSeen, src))

EventInv == ViewSeen /\ FailureNamed /\ ReadFresh /\ AppliedAt /\ AtRest

LEMMA ConditionNames ==
  /\ Conditions = {"SourceReady", "Decrypted", "Applied"}
  /\ "none" \notin Conditions
<1>1. /\ Stages[1] = "SourceReady" /\ Stages[2] = "Decrypted" /\ Stages[3] = "Applied"
      /\ 1..3 = {1, 2, 3}
  BY DEF Stages
<1> QED
  BY <1>1 DEF Conditions

LEMMA InitEvent == Init => EventInv
BY DEF Init, Idle, EventInv, ViewSeen, FailureNamed, ReadFresh, HasRead, AppliedAt, AtRest

\* Steps of others, who may also take away what a pass has applied.
LEMMA OutsideKept ==
  ASSUME SourceInv, EventInv, UNCHANGED <<setup, crSeen, srcSeen, pass, wake>>,
         sec' = sec \/ sec'.by = None,
         cr'.status.conditions = cr.status.conditions,
         src'.gen = src.gen \/ src'.gen = src.gen + 1
  PROVE  EventInv'
<1>1. Current(srcSeen, src') => Current(srcSeen, src)
  BY DEF Current, SourceInv, Sources, SourceShape
<1>2. \A at : Fresh(at, srcSeen, src) => Fresh(at, srcSeen, src')
  BY <1>1 DEF Fresh, Covered
<1>3. ViewSeen' /\ FailureNamed' /\ AppliedAt'
  BY DEF EventInv, ViewSeen, FailureNamed, AppliedAt
<1>4. ReadFresh'
  BY <1>2 DEF EventInv, ReadFresh, Direct, HasRead, Indexed, Inline, SourceKind
<1>5. AtRest'
  BY <1>2 DEF EventInv, AtRest, Direct, AllTrue, Indexed, Inline, SourceKind
<1> QED
  BY <1>3, <1>4, <1>5 DEF EventInv

\* A wakeup takes back every promise.
LEMMA WokenKept ==
  ASSUME EventInv, wake' = "now", sec' = sec, pass' = pass \/ pass' = Idle
  PROVE  EventInv'
<1>1. FailureNamed' /\ AppliedAt'
  BY DEF EventInv, FailureNamed, AppliedAt, Idle
<1> QED
  BY <1>1 DEF EventInv, ViewSeen, ReadFresh, AtRest

\* A consumer that the event does not wake reads nothing from this source.
LEMMA HandleSourceEvent == ASSUME EventInv, HandleSource PROVE EventInv'
<1>1. CASE Indexed(crSeen.spec)
  BY <1>1, WokenKept DEF HandleSource
<1>2. CASE ~Indexed(crSeen.spec)
  <2>1. UNCHANGED <<setup, cr, crSeen, pass, wake, sec>>
    BY <1>2 DEF HandleSource
  <2>2. ViewSeen' /\ FailureNamed' /\ AppliedAt'
    BY <2>1 DEF EventInv, ViewSeen, FailureNamed, AppliedAt
  <2>3. ~(Direct /\ wake # "now" /\ HasRead)
    BY <1>2 DEF EventInv, ReadFresh, ViewSeen, HasRead
  <2>4. ReadFresh'
    BY <2>1, <2>3 DEF ReadFresh, Direct, HasRead, Inline
  <2>5. ~(Direct /\ wake # "now" /\ pass.pc = "idle" /\ AllTrue(cr.status))
    BY <1>2 DEF EventInv, AtRest
  <2>6. AtRest'
    BY <2>1, <2>5 DEF AtRest, Direct, AllTrue, Inline
  <2> QED
    BY <2>2, <2>4, <2>6 DEF EventInv
<1> QED
  BY <1>1, <1>2

\* The stages of a pass: nothing of it is at rest.
LEMMA PassKept ==
  ASSUME EventInv, pass'.pc # "idle", ViewSeen', FailureNamed', ReadFresh', AppliedAt'
  PROVE  EventInv'
BY DEF EventInv, AtRest

LEMMA StartEvent == ASSUME EventInv, Start PROVE EventInv'
<1>1. /\ pass' = [Idle EXCEPT !.pc = IF Inline THEN "decrypt" ELSE "fetch", !.view = crSeen]
      /\ UNCHANGED <<setup, crSeen>>
  BY DEF Start
<1>2. /\ pass'.pc = IF Inline THEN "decrypt" ELSE "fetch"
      /\ pass'.view = crSeen /\ pass'.failed = "none"
  BY <1>1 DEF Idle
<1>3. ViewSeen' /\ FailureNamed' /\ AppliedAt'
  BY <1>1, <1>2 DEF ViewSeen, FailureNamed, AppliedAt
<1>4. ReadFresh'
  BY <1>1, <1>2 DEF ReadFresh, Direct, HasRead, Inline
<1> QED
  BY <1>2, <1>3, <1>4, PassKept

LEMMA FailsEvent ==
  ASSUME IInv, EventInv, NEW stage \in Conditions, pass.pc # "idle", Fails(stage),
         UNCHANGED <<setup, crSeen, wake>>
  PROVE  EventInv'
<1>1. pass'.view = pass.view /\ pass'.failed = stage /\ pass'.pc = "status"
  BY DEF Fails, IInv, Shapes, PassShape
<1>2. stage # "none"
  BY ConditionNames
<1>3. ViewSeen' /\ FailureNamed' /\ AppliedAt' /\ ReadFresh'
  BY <1>1, <1>2 DEF EventInv, ViewSeen, FailureNamed, AppliedAt, ReadFresh, HasRead
<1> QED
  BY <1>1, <1>3, PassKept

\* A file of a git source or a URL is read as the cache has it.
LEMMA FetchSourceEvent == ASSUME SourceInv, IInv, EventInv, FetchSource PROVE EventInv'
<1>0. pass.pc = "fetch" /\ UNCHANGED <<setup, crSeen, wake, src, srcSeen, cache>>
  BY DEF FetchSource, sourceSide
<1>1. CASE Fails("SourceReady")
  BY <1>0, <1>1, FailsEvent, ConditionNames
<1>2. CASE Readable(pass.view.spec) /\ pass' = [pass EXCEPT !.pc = "decrypt", !.at = ReadAt]
  <2>1. /\ pass'.view = pass.view /\ pass'.pc = "decrypt"
        /\ pass'.failed = pass.failed /\ pass'.at = ReadAt
    BY <1>2 DEF IInv, Shapes, PassShape
  <2>2. ViewSeen' /\ FailureNamed' /\ AppliedAt'
    BY <1>0, <2>1 DEF EventInv, ViewSeen, FailureNamed, AppliedAt
  <2>3. ASSUME Direct PROVE Indexed(pass.view.spec) /\ Fresh(ReadAt, srcSeen, src)
    <3>1. ReadAt = [loc |-> cache.loc, rev |-> cache.rev]
      BY <2>3 DEF Direct, ReadAt
    <3>2. cache # None /\ Covered(cache, srcSeen, src)
      BY <1>2 DEF Readable, SourceInv, Reported, Reports
    <3>3. Fresh(ReadAt, srcSeen, src)
      BY <3>1, <3>2 DEF Fresh, Covered
    <3>4. pass.view.spec.source.sourceRef.kind = SourceKind
          /\ pass.view.spec.source.sourceRef.name = SourceName
      BY <1>2 DEF Readable
    <3> QED
      BY <2>3, <3>3, <3>4 DEF Direct, Indexed
  <2>4. ReadFresh'
    BY <1>0, <2>1, <2>3 DEF ReadFresh, Direct, Indexed, Inline, SourceKind
  <2> QED
    BY <2>1, <2>2, <2>4, PassKept
<1> QED
  BY <1>1, <1>2 DEF FetchSource

LEMMA DecryptEvent == ASSUME IInv, EventInv, Decrypt PROVE EventInv'
<1> DEFINE out == Outcome(pass.view.spec, pass.at)
<1>0. pass.pc = "decrypt" /\ UNCHANGED <<setup, crSeen, wake, src, srcSeen>>
  BY DEF Decrypt, sourceSide
<1>1. CASE Fails("Decrypted")
  BY <1>0, <1>1, FailsEvent, ConditionNames
<1>2. CASE pass' = [pass EXCEPT !.pc = "apply", !.out = out.value]
  <2>1. /\ pass'.view = pass.view /\ pass'.pc = "apply"
        /\ pass'.failed = pass.failed /\ pass'.at = pass.at
    BY <1>2 DEF IInv, Shapes, PassShape
  <2>2. ViewSeen' /\ FailureNamed' /\ AppliedAt'
    BY <1>0, <2>1 DEF EventInv, ViewSeen, FailureNamed, AppliedAt
  <2>3. ReadFresh'
    BY <1>0, <2>1 DEF EventInv, ReadFresh, Direct, HasRead, Indexed, Inline, SourceKind
  <2> QED
    BY <2>1, <2>2, <2>3, PassKept
<1> QED
  BY <1>1, <1>2 DEF Decrypt

LEMMA ApplyEvent == ASSUME IInv, EventInv, Apply PROVE EventInv'
<1> DEFINE new == [exists |-> TRUE, type |-> TypeFor(pass.out), data |-> pass.out.data,
                   hash |-> pass.out.hash, commit |-> IF Inline THEN 0 ELSE pass.at.rev,
                   by |-> [spec |-> pass.view.spec, at |-> pass.at]]
<1>0. pass.pc = "apply" /\ UNCHANGED <<setup, crSeen, wake, src, srcSeen>>
  BY DEF Apply, sourceSide
<1>1. CASE Fails("Applied") /\ UNCHANGED sec
  BY <1>0, <1>1, FailsEvent, ConditionNames
<1>2. CASE ~(Fails("Applied") /\ UNCHANGED sec)
  <2>1. /\ sec' = new \/ sec' = [sec EXCEPT !.by = new.by]
        /\ pass' = [pass EXCEPT !.pc = "status"]
    BY <1>2 DEF Apply
  <2>2. sec'.by.at = pass.at
    BY <2>1 DEF IInv, Shapes, SecretShape
  <2>3. /\ pass'.view = pass.view /\ pass'.pc = "status"
        /\ pass'.failed = pass.failed /\ pass'.at = pass.at
    BY <2>1 DEF IInv, Shapes, PassShape
  <2>4. ViewSeen' /\ FailureNamed' /\ AppliedAt'
    BY <1>0, <2>2, <2>3 DEF EventInv, ViewSeen, FailureNamed, AppliedAt
  <2>5. ReadFresh'
    BY <1>0, <2>3 DEF EventInv, ReadFresh, Direct, HasRead, Indexed, Inline, SourceKind
  <2> QED
    BY <2>3, <2>4, <2>5, PassKept
<1> QED
  BY <1>1, <1>2

\* All conditions are true only after a pass that got through.
LEMMA UpdateStatusEvent == ASSUME IInv, EventInv, UpdateStatus PROVE EventInv'
<1>0. pass.pc = "status" /\ pass' = Idle /\ UNCHANGED <<setup, crSeen, src, srcSeen, sec>>
  BY DEF UpdateStatus, sourceSide
<1>1. CASE wake' = "now"
  BY <1>0, <1>1, WokenKept
<1>2. CASE wake' # "now"
  <2>1. pass.view = cr /\ cr' = [cr EXCEPT !.status = StatusAfter] /\ wake # "now"
    BY <1>2 DEF UpdateStatus
  <2>2. cr'.status = StatusAfter
    BY <2>1 DEF IInv, Shapes, ObjectShape
  <2>3. ViewSeen' /\ FailureNamed' /\ AppliedAt' /\ ReadFresh'
    BY <1>0 DEF ViewSeen, FailureNamed, AppliedAt, ReadFresh, HasRead, Idle
  <2>4. CASE pass.failed = "none"
    <3>1. ASSUME Direct
          PROVE  Indexed(crSeen.spec) /\ (sec.by # None => Fresh(sec.by.at, srcSeen, src))
      BY <1>0, <2>1, <2>4, <3>1 DEF EventInv, ReadFresh, HasRead, ViewSeen, AppliedAt
    <3>2. AtRest'
      BY <1>0, <3>1 DEF AtRest, Direct, Indexed, Inline, SourceKind
    <3> QED
      BY <2>3, <3>2 DEF EventInv
  <2>5. CASE pass.failed # "none"
    <3>1. pass.failed \in Conditions
      BY <2>5 DEF EventInv, FailureNamed
    <3>2. StatusAfter.conditions = ConditionsAfter
      <4>1. StatusAfter = [pass.view.status EXCEPT !.conditions = ConditionsAfter]
        BY <2>5 DEF StatusAfter
      <4>2. cr.status = [conditions |-> cr.status.conditions,
                         lastAppliedHash |-> cr.status.lastAppliedHash,
                         lastSyncedCommit |-> cr.status.lastSyncedCommit,
                         lastProcessedReconcileToken |-> cr.status.lastProcessedReconcileToken,
                         observedGeneration |-> cr.status.observedGeneration]
        BY DEF IInv, Shapes, ObjectShape
      <4>3. ASSUME NEW c, NEW y, y = [cr.status EXCEPT !.conditions = c] PROVE y.conditions = c
        BY <4>2, <4>3, Zenon
      <4> QED
        BY <2>1, <4>1, <4>3
    <3>3. ConditionsAfter[pass.failed] = "False"
      <4>1. ConditionsAfter[pass.failed] = ConditionAfter(pass.failed)
        BY <3>1 DEF ConditionsAfter
      <4> QED
        BY <4>1 DEF ConditionAfter
    <3>4. ~AllTrue(cr'.status)
      BY <2>2, <3>1, <3>2, <3>3 DEF AllTrue
    <3>5. AtRest'
      BY <3>4 DEF AtRest, AllTrue
    <3> QED
      BY <2>3, <3>5 DEF EventInv
  <2> QED
    BY <2>4, <2>5
<1> QED
  BY <1>1, <1>2

LEMMA EventStep == ASSUME SourceInv, IInv, EventInv, [Next]_vars PROVE EventInv'
<1>0. src = [spec |-> src.spec, gen |-> src.gen, token |-> src.token, status |-> src.status]
      /\ src.gen \in Nat
  BY DEF SourceInv, Sources, SourceShape
<1>1. CASE Step \/ Decrypt
  BY <1>1, StartEvent, FetchSourceEvent, ApplyEvent, UpdateStatusEvent, DecryptEvent DEF Step
<1>2. CASE WakeUp \/ HandleConsumer \/ Restart
  BY <1>2, WokenKept DEF WakeUp, HandleConsumer, Restart
<1>3. CASE HandleSource
  BY <1>3, HandleSourceEvent
<1>4. CASE SourceFetch \/ (\E loc \in Locations : Push(loc))
  BY <1>4, OutsideKept DEF SourceFetch, Push
<1>5. CASE SourceReport
  <2>1. src'.gen = src.gen
    BY <1>0, <1>5 DEF SourceReport
  <2> QED
    BY <1>5, <2>1, OutsideKept DEF SourceReport
<1>6. CASE SourceFails
  <2>1. src'.gen = src.gen
    BY <1>0, <1>6 DEF SourceFails
  <2> QED
    BY <1>6, <2>1, OutsideKept DEF SourceFails
<1>7. CASE User
  <2>1. ASSUME NEW e, EditSpec(e) PROVE EventInv'
    <3> DEFINE new == Edited(setup.consumer, e.version, cr.spec, e.change)
    <3>1. cr' = [cr EXCEPT !.spec = new, !.gen = @ + 1]
      BY <2>1 DEF EditSpec
    <3> HIDE DEF new
    <3>2. cr = [spec |-> cr.spec, gen |-> cr.gen, token |-> cr.token, status |-> cr.status]
      BY DEF IInv, Shapes, ObjectShape
    <3>3. cr'.status = cr.status
      BY <3>1, <3>2
    <3> QED
      BY <2>1, <3>3, OutsideKept DEF EditSpec, sourceSide
  <2>2. ASSUME NEW e, EditSource(e) PROVE EventInv'
    <3>1. PICK new : src' = [src EXCEPT !.spec = new, !.gen = @ + 1]
      BY <2>2 DEF EditSource
    <3>2. src'.gen = src.gen + 1
      BY <1>0, <3>1
    <3> QED
      BY <2>2, <3>2, OutsideKept DEF EditSource
  <2>3. CASE Annotate
    <3>1. cr' = [cr EXCEPT !.token = @ + 1]
      BY <2>3 DEF Annotate
    <3>2. cr = [spec |-> cr.spec, gen |-> cr.gen, token |-> cr.token, status |-> cr.status]
      BY DEF IInv, Shapes, ObjectShape
    <3>3. cr'.status = cr.status
      BY <3>1, <3>2
    <3> QED
      BY <2>3, <3>3, OutsideKept DEF Annotate, sourceSide
  <2>4. CASE AnnotateSource
    <3>1. src'.gen = src.gen
      BY <1>0, <2>4 DEF AnnotateSource
    <3> QED
      BY <2>4, <3>1, OutsideKept DEF AnnotateSource
  <2>5. CASE \E ref \in KeySecrets, key \in AgeKeys \cup {None} : RotateKey(ref, key)
    BY <2>5, OutsideKept DEF RotateKey, sourceSide
  <2>6. CASE DeleteSecret
    BY <2>6, OutsideKept DEF DeleteSecret, NoSecret, sourceSide
  <2>7. CASE Drift
    <3>1. sec'.by = None
      BY <2>7 DEF Drift, IInv, Shapes, SecretShape
    <3> QED
      BY <2>7, <3>1, OutsideKept DEF Drift, sourceSide
  <2> QED
    BY <1>7, <2>1, <2>2, <2>3, <2>4, <2>5, <2>6, <2>7 DEF User
<1>8. CASE UNCHANGED vars
  BY <1>8, OutsideKept DEF vars
<1> QED
  BY <1>1, <1>2, <1>3, <1>4, <1>5, <1>6, <1>7, <1>8 DEF Next

\* sopssecret_controller.go:379-400: no order of pushes, failed syncs, force-syncs,
\* edits of the URL there and back, events and restarts leaves a consumer of a git
\* source or a URL at rest, after a success, with a Secret made from an older
\* revision than the one its source reports.
THEOREM EventsReachSecrets == Spec => []SourceEventReachesSecret
<1>1. Init => SourceInv /\ IInv /\ EventInv
  BY InitSource, InitInv, InitEvent
<1>2. SourceInv /\ IInv /\ EventInv /\ [Next]_vars => SourceInv' /\ IInv' /\ EventInv'
  BY SourceStep, StepInv, EventStep
<1>3. SourceInv /\ IInv /\ EventInv => SourceEventReachesSecret
  <2> SUFFICES ASSUME EventInv, Quiet, ~Inline, setup.source # "bucket", src.status.ready,
                      sec.by # None, cr.status.conditions = [c \in Conditions |-> "True"]
               PROVE  /\ sec.by.at.loc = src.status.at.loc => sec.by.at.rev >= src.status.at.rev
                      /\ src.status.observedGeneration = src.gen => sec.by.at.loc = src.status.at.loc
    BY DEF SourceEventReachesSecret
  <2>1. pass.pc = "idle" /\ wake # "now" /\ srcSeen = src
    BY DEF Quiet, Idle
  <2>2. Covered(sec.by.at, src, src)
    BY <2>1 DEF EventInv, AtRest, Direct, AllTrue, Fresh
  <2> QED
    BY <2>2 DEF Covered, Current
<1> QED
  BY <1>1, <1>2, <1>3, PTL DEF Spec

-----------------------------------------------------------------------------
(* Documents: what a pass carries from its Decrypt to its Apply, and what  *)
(* a Secret holds, is what the transformation makes of one document.       *)

Good(spec) == IsSpec(setup.consumer, Storage(setup.consumer), spec) /\ Valid(setup.consumer, spec)
Specs ==
  /\ Good(cr.spec) /\ Good(crSeen.spec)
  /\ pass.pc # "idle" => Good(pass.view.spec)
  /\ sec.by # None => Good(sec.by.spec)

\* What the document of a spec becomes.
Made(spec, at) == Produced(spec, Document(spec, at).plain)
Carried ==
  pass.pc = "apply" =>
    Made(pass.view.spec, pass.at).ok /\ pass.out = Made(pass.view.spec, pass.at).value
Held ==
  sec.by # None =>
    /\ Made(sec.by.spec, sec.by.at).ok
    /\ sec.data = Made(sec.by.spec, sec.by.at).value.data
    /\ ~Inline => sec.commit = sec.by.at.rev

DocumentInv == Specs /\ Carried /\ Held

\* Which document is meant does not change.
LEMMA MadeKept == ASSUME setup' = setup, NEW spec, NEW at PROVE Made(spec, at)' = Made(spec, at)
BY DEF Made, Produced, Document, FileAt, ByMapping, ByManifest, FromMapping, FromManifest,
       ManifestName, ManifestType, Inline

LEMMA HeldKept == ASSUME DocumentInv, setup' = setup, sec' = sec PROVE Held'
BY MadeKept DEF DocumentInv, Held, Inline

LEMMA CarriedKept == ASSUME DocumentInv, setup' = setup, pass' = pass PROVE Carried'
BY MadeKept DEF DocumentInv, Carried

\* Specs pass from the API server to the informer, to the pass, to the Secret.
LEMMA SpecsKept ==
  ASSUME Specs, setup' = setup,
         cr'.spec = cr.spec \/ Good(cr'.spec),
         crSeen' = crSeen \/ crSeen' = cr,
         pass'.pc # "idle" =>
           pass'.view = crSeen \/ (pass.pc # "idle" /\ pass'.view = pass.view),
         \/ sec'.by = sec.by \/ sec'.by = None
         \/ pass.pc # "idle" /\ sec'.by.spec = pass.view.spec
  PROVE  Specs'
BY DEF Specs, Good

\* Steps of others, who may also take away what a pass has applied.
LEMMA OutsideDocument ==
  ASSUME DocumentInv, setup' = setup,
         cr'.spec = cr.spec \/ Good(cr'.spec),
         crSeen' = crSeen \/ crSeen' = cr,
         pass' = pass \/ pass' = Idle,
         sec' = sec \/ sec'.by = None
  PROVE  DocumentInv'
<1>1. Specs'
  BY SpecsKept DEF DocumentInv, Idle
<1>2. Carried'
  <2>1. CASE pass' = pass
    BY <2>1, CarriedKept
  <2>2. CASE pass' = Idle
    BY <2>2 DEF Carried, Idle
  <2> QED
    BY <2>1, <2>2
<1>3. Held'
  <2>1. CASE sec' = sec
    BY <2>1, HeldKept
  <2>2. CASE sec'.by = None
    BY <2>2 DEF Held
  <2> QED
    BY <2>1, <2>2
<1> QED
  BY <1>1, <1>2, <1>3 DEF DocumentInv

\* A stage of a pass that does not get to the Secret.
LEMMA PassDocument ==
  ASSUME DocumentInv, UNCHANGED <<setup, cr, crSeen, sec>>, Carried',
         pass'.view = crSeen \/ (pass.pc # "idle" /\ pass'.view = pass.view)
  PROVE  DocumentInv'
BY SpecsKept, HeldKept DEF DocumentInv

LEMMA FailsDocument ==
  ASSUME IInv, DocumentInv, NEW stage, pass.pc # "idle", Fails(stage),
         UNCHANGED <<setup, cr, crSeen, sec>>
  PROVE  DocumentInv'
<1>1. pass'.view = pass.view /\ pass'.pc = "status"
  BY DEF Fails, IInv, Shapes, PassShape
<1> QED
  BY <1>1, PassDocument DEF Carried

LEMMA StartDocument == ASSUME DocumentInv, Start PROVE DocumentInv'
<1>1. /\ pass' = [Idle EXCEPT !.pc = IF Inline THEN "decrypt" ELSE "fetch", !.view = crSeen]
      /\ UNCHANGED <<setup, cr, crSeen, sec>>
  BY DEF Start
<1>2. pass'.pc # "apply" /\ pass'.view = crSeen
  BY <1>1 DEF Idle
<1> QED
  BY <1>1, <1>2, PassDocument DEF Carried

LEMMA FetchSourceDocument == ASSUME IInv, DocumentInv, FetchSource PROVE DocumentInv'
<1>0. pass.pc = "fetch" /\ UNCHANGED <<setup, cr, crSeen, sec>>
  BY DEF FetchSource
<1>1. CASE Fails("SourceReady")
  BY <1>0, <1>1, FailsDocument
<1>2. CASE pass' = [pass EXCEPT !.pc = "decrypt", !.at = ReadAt]
  <2>1. pass'.view = pass.view /\ pass'.pc = "decrypt"
    BY <1>2 DEF IInv, Shapes, PassShape
  <2> QED
    BY <1>0, <2>1, PassDocument DEF Carried
<1> QED
  BY <1>1, <1>2 DEF FetchSource

\* Whatever key opened it, the document is the one of the pass's spec and revision.
LEMMA OutcomeIsMade ==
  ASSUME NEW spec, NEW at, Outcome(spec, at).ok
  PROVE  Made(spec, at).ok /\ Outcome(spec, at).value = Made(spec, at).value
<1> DEFINE key == AgeKey(spec.decryption)
           plain == IF key.ok THEN Decrypted(Document(spec, at), key.value) ELSE Failed
<1>1. plain.ok /\ Outcome(spec, at) = Produced(spec, plain.value)
  BY DEF Outcome, Failed
<1>2. plain.value = Document(spec, at).plain
  BY <1>1 DEF Decrypted, Ok, Failed
<1> QED
  BY <1>1, <1>2 DEF Made

LEMMA DecryptDocument == ASSUME IInv, DocumentInv, Decrypt PROVE DocumentInv'
<1> DEFINE out == Outcome(pass.view.spec, pass.at)
<1>0. pass.pc = "decrypt" /\ UNCHANGED <<setup, cr, crSeen, sec>>
  BY DEF Decrypt
<1>1. CASE Fails("Decrypted")
  BY <1>0, <1>1, FailsDocument
<1>2. CASE out.ok /\ pass' = [pass EXCEPT !.pc = "apply", !.out = out.value]
  <2>1. /\ pass'.view = pass.view /\ pass'.pc = "apply"
        /\ pass'.at = pass.at /\ pass'.out = out.value
    BY <1>2 DEF IInv, Shapes, PassShape
  <2>2. Made(pass.view.spec, pass.at).ok /\ pass'.out = Made(pass.view.spec, pass.at).value
    BY <1>2, <2>1, OutcomeIsMade
  <2>3. Carried'
    BY <1>0, <2>1, <2>2, MadeKept DEF Carried
  <2> QED
    BY <1>0, <2>1, <2>3, PassDocument
<1> QED
  BY <1>1, <1>2 DEF Decrypt

\* Skipping the write when nothing changes leaves what was to be written.
LEMMA ApplyDocument == ASSUME IInv, DocumentInv, Apply PROVE DocumentInv'
<1> DEFINE new == [exists |-> TRUE, type |-> TypeFor(pass.out), data |-> pass.out.data,
                   hash |-> pass.out.hash, commit |-> IF Inline THEN 0 ELSE pass.at.rev,
                   by |-> [spec |-> pass.view.spec, at |-> pass.at]]
<1>0. pass.pc = "apply" /\ UNCHANGED <<setup, cr, crSeen>>
  BY DEF Apply
<1>1. CASE Fails("Applied") /\ UNCHANGED sec
  BY <1>0, <1>1, FailsDocument
<1>2. CASE ~(Fails("Applied") /\ UNCHANGED sec)
  <2>1. /\ sec' = IF Changes(new) THEN new ELSE [sec EXCEPT !.by = new.by]
        /\ pass' = [pass EXCEPT !.pc = "status"]
    BY <1>2 DEF Apply
  <2>2. /\ sec'.data = pass.out.data
        /\ sec'.commit = IF Inline THEN 0 ELSE pass.at.rev
        /\ sec'.by.spec = pass.view.spec /\ sec'.by.at = pass.at
    <3>1. CASE Changes(new)
      BY <2>1, <3>1
    <3>2. CASE ~Changes(new)
      <4>1. sec' = [sec EXCEPT !.by = new.by]
        BY <2>1, <3>2
      <4>2. /\ sec'.data = sec.data /\ sec'.commit = sec.commit /\ sec'.by = new.by
        BY <4>1 DEF IInv, Shapes, SecretShape
      <4>3. [new EXCEPT !.by = sec.by] = sec
        BY <3>2 DEF Changes
      <4>4. sec.data = new.data /\ sec.commit = new.commit
        BY <4>3
      <4> QED
        BY <4>2, <4>4
    <3> QED
      BY <3>1, <3>2
  <2>3. pass'.view = pass.view /\ pass'.pc = "status"
    BY <2>1 DEF IInv, Shapes, PassShape
  <2>4. Specs'
    BY <1>0, <2>2, <2>3, SpecsKept DEF DocumentInv
  <2>5. Carried'
    BY <2>3 DEF Carried
  <2>6. Held'
    BY <1>0, <2>2, MadeKept DEF DocumentInv, Carried, Held, Inline
  <2> QED
    BY <2>4, <2>5, <2>6 DEF DocumentInv
<1> QED
  BY <1>1, <1>2

LEMMA EditSpecDocument ==
  ASSUME Stores', DocumentInv, NEW e, EditSpec(e) PROVE DocumentInv'
<1>1. UNCHANGED <<setup, crSeen, pass, sec>>
  BY DEF EditSpec
<1>2. Valid(setup.consumer, cr'.spec)
  BY DEF EditSpec
<1> QED
  BY <1>1, <1>2, OutsideDocument DEF Stores, Good

LEMMA InitDocument == Init => DocumentInv
<1> SUFFICES ASSUME Init PROVE DocumentInv
  OBVIOUS
<1>1. crSeen = cr /\ sec.by = None /\ pass.pc = "idle"
  BY DEF Init, NoSecret, Idle
<1>2. Stores
  BY InitStores
<1>3. setup.consumer \in Kinds \ {"GitRepository"}
  BY <1>2, SetupKinds DEF Stores
<1>4. Valid(setup.consumer, FirstSpec[setup.consumer])
  BY <1>3, SpecsAssumption
<1>5. Valid(setup.consumer, cr.spec)
  <2>1. CASE Inline
    BY <1>4, <2>1 DEF Init
  <2>2. CASE ~Inline
    <3> DEFINE first == FirstSpec[setup.consumer]
    <3>1. cr.spec = [first EXCEPT !.source = [first.source EXCEPT !.sourceRef.kind = SourceKind]]
      BY <2>2 DEF Init
    <3> HIDE DEF first
    <3>2. cr.spec.data = first.data
      BY <3>1
    <3> QED
      BY <1>4, <2>2, <3>2 DEF Valid, Inline, first
  <2> QED
    BY <2>1, <2>2
<1> QED
  BY <1>1, <1>2, <1>5 DEF DocumentInv, Specs, Carried, Held, Good, Stores

LEMMA DocumentStep == ASSUME Stores', IInv, DocumentInv, [Next]_vars PROVE DocumentInv'
<1>0. /\ cr = [spec |-> cr.spec, gen |-> cr.gen, token |-> cr.token, status |-> cr.status]
      /\ SecretShape
  BY DEF IInv, Shapes, ObjectShape
<1>1. CASE Start \/ FetchSource \/ Decrypt \/ Apply
  BY <1>1, StartDocument, FetchSourceDocument, DecryptDocument, ApplyDocument
<1>2. CASE UpdateStatus
  <2>1. cr'.spec = cr.spec
    BY <1>0, <1>2 DEF UpdateStatus
  <2> QED
    BY <1>2, <2>1, OutsideDocument DEF UpdateStatus
<1>3. CASE HandleConsumer \/ Restart
  BY <1>3, OutsideDocument DEF HandleConsumer, Restart
<1>4. CASE \/ WakeUp \/ HandleSource \/ SourceFetch \/ SourceReport \/ SourceFails
           \/ \E loc \in Locations : Push(loc)
  BY <1>4, OutsideDocument
     DEF WakeUp, HandleSource, SourceFetch, SourceReport, SourceFails, Push
<1>5. CASE User
  <2>1. CASE \E e \in SpecEdits[setup.consumer] : EditSpec(e)
    BY <2>1, EditSpecDocument
  <2>2. CASE Annotate
    <3>1. cr'.spec = cr.spec
      BY <1>0, <2>2 DEF Annotate
    <3> QED
      BY <2>2, <3>1, OutsideDocument DEF Annotate
  <2>3. CASE \/ \E e : EditSource(e)
             \/ AnnotateSource
             \/ \E ref \in KeySecrets, key \in AgeKeys \cup {None} : RotateKey(ref, key)
    BY <2>3, OutsideDocument DEF EditSource, AnnotateSource, RotateKey
  <2>4. CASE DeleteSecret
    BY <2>4, OutsideDocument DEF DeleteSecret, NoSecret
  <2>5. CASE Drift
    <3>1. sec'.by = None
      BY <1>0, <2>5 DEF Drift, SecretShape
    <3> QED
      BY <2>5, <3>1, OutsideDocument DEF Drift
  <2> QED
    BY <1>5, <2>1, <2>2, <2>3, <2>4, <2>5 DEF User
<1>6. CASE UNCHANGED vars
  BY <1>6, OutsideDocument DEF vars
<1> QED
  BY <1>1, <1>2, <1>3, <1>4, <1>5, <1>6 DEF Next, Step

\* The integers of a document are float64 values; flat.go:55-64 rounds the others.
Exact(plain) ==
  \A k \in DOMAIN Entries(plain) :
    Entries(plain)[k].tag = "int" => Float64(Entries(plain)[k].val) = Entries(plain)[k].val

\* A mapping gives the values of the document as they were written.
LEMMA MappingReference ==
  ASSUME NEW spec, NEW plain, Good(spec), ByMapping(spec), Exact(plain), Produced(spec, plain).ok
  PROVE  Produced(spec, plain).value.data = Reference(spec, plain)
<1> DEFINE flat == ParseFlatYAML(plain)
           data == IF flat.ok THEN ApplyMapping(flat.value, Mappings(spec)) ELSE Failed
<1>1. /\ flat.ok /\ data.ok
      /\ Produced(spec, plain).value.data = data.value
  <2>1. ~ByManifest(spec)
    BY DEF ByMapping, ByManifest, Inline
  <2>2. Produced(spec, plain) = FromMapping(spec, plain)
    BY <2>1 DEF Produced
  <2>3. ~flat.ok => ~data.ok
    BY DEF Failed
  <2>4. FromMapping(spec, plain) =
          IF data.ok THEN Ok([type |-> spec.target.type, data |-> data.value,
                              hash |-> HashSecretData(data.value)])
          ELSE Failed
    BY DEF FromMapping
  <2> HIDE DEF flat, data
  <2> QED
    BY <2>2, <2>3, <2>4 DEF Ok, Failed
<1>2. spec.data \in DataLists /\ spec.data # << >>
  <2>1. CASE setup.consumer = "SopsSecret"
    BY <2>1 DEF Good, IsSpec, FieldsOf, Valid
  <2>2. CASE setup.consumer = "InlineSopsSecret" /\ spec.mode = "Mapping"
    BY <2>2 DEF Good, IsSpec, FieldsOf, Valid
  <2> QED
    BY <2>1, <2>2 DEF ByMapping, Inline
<1>3. Mappings(spec) = spec.data
  BY <1>2, ConversionAssumption DEF Mappings
<1>4. DOMAIN spec.data = 1..Len(spec.data) /\ Len(spec.data) \in Nat
  BY <1>2 DEF DataLists
<1>5. /\ \A i \in DOMAIN spec.data : spec.data[i].from \in DOMAIN flat.value
      /\ data.value = LastWins(flat.value, spec.data)
  <2>1. data = ApplyMapping(flat.value, spec.data)
    BY <1>1, <1>3
  <2> HIDE DEF flat, data
  <2> QED
    BY <1>1, <1>4, <2>1, LastEntryWins
<1>6. /\ IsMapping(plain)
      /\ \A f \in DOMAIN Entries(plain) : ScalarToString(Entries(plain)[f]).ok
      /\ flat.value = [f \in DOMAIN Entries(plain) |-> ScalarToString(Entries(plain)[f]).value]
  BY <1>1, FlatParsed
<1> HIDE DEF flat, data
<1>7. Entries(plain) = plain.entries
  <2>1. 1 \in DOMAIN spec.data
    BY <1>2, <1>4 DEF DataLists
  <2>2. DOMAIN Entries(plain) # {}
    BY <1>5, <1>6, <2>1
  <2> QED
    BY <2>2 DEF Entries, NoData
<1>8. ASSUME NEW f \in DOMAIN flat.value PROVE flat.value[f] = Written(plain.entries[f])
  <2>1. /\ f \in DOMAIN Entries(plain)
        /\ flat.value[f] = ScalarToString(Entries(plain)[f]).value
    BY <1>6
  <2>2. ScalarToString(Entries(plain)[f]).ok
    BY <1>6, <2>1
  <2>3. Entries(plain)[f].tag = "int" => Float64(Entries(plain)[f].val) = Entries(plain)[f].val
    BY <2>1 DEF Exact
  <2>4. ScalarToString(Entries(plain)[f]).value = Written(Entries(plain)[f])
    BY <2>2, <2>3 DEF ScalarToString, Written, Ok, Failed
  <2> QED
    BY <1>7, <2>1, <2>4
<1>9. data.value = [k \in {spec.data[i].key : i \in DOMAIN spec.data} |->
                      Written(plain.entries[spec.data[LastFor(spec.data, k)].from])]
  <2>1. ASSUME NEW k \in {spec.data[i].key : i \in DOMAIN spec.data}
        PROVE  flat.value[spec.data[LastFor(spec.data, k)].from]
                 = Written(plain.entries[spec.data[LastFor(spec.data, k)].from])
    <3>1. spec.data[LastFor(spec.data, k)].from \in DOMAIN flat.value
      BY <1>4, <1>5, LastIsEntry
    <3> QED
      BY <1>8, <3>1
  <2> QED
    BY <1>5, <2>1 DEF LastWins
<1>10. Reference(spec, plain) = [k \in {spec.data[i].key : i \in DOMAIN spec.data} |->
                                  Written(plain.entries[spec.data[LastFor(spec.data, k)].from])]
  BY DEF Reference, LastFor
<1> QED
  BY <1>1, <1>9, <1>10

\* A manifest gives its own data and stringData.
LEMMA ManifestReference ==
  ASSUME NEW spec, NEW plain, ~ByMapping(spec), Produced(spec, plain).ok
  PROVE  Produced(spec, plain).value.data = Reference(spec, plain)
<1> DEFINE parsed == ParseManifest(plain)
           bytes == Texts(Entries(plain), "data")
           strings == Texts(Entries(plain), "stringData")
<1>1. /\ parsed.ok
      /\ Produced(spec, plain).value.data = NormalizeSecretData(parsed.value).data
  BY DEF Produced, FromManifest, Ok, Failed
<1>2. /\ plain.tag = "map"
      /\ NormalizeSecretData(parsed.value).data
           = [k \in DOMAIN bytes \cup DOMAIN strings |->
                IF k \in DOMAIN strings THEN strings[k] ELSE Decoded(bytes[k])]
  BY <1>1, StringDataWins
<1>3. Entries(plain) = plain.entries
  BY <1>2 DEF Entries
<1>4. /\ bytes = [k \in DOMAIN Field(plain, "data") |-> TextOf(Field(plain, "data")[k])]
      /\ strings = [k \in DOMAIN Field(plain, "stringData") |->
                      TextOf(Field(plain, "stringData")[k])]
  BY <1>3 DEF Texts, Field
<1> HIDE DEF parsed, bytes, strings
<1>5. Reference(spec, plain)
        = [k \in DOMAIN bytes \cup DOMAIN strings |->
             IF k \in DOMAIN strings THEN strings[k] ELSE Decoded(bytes[k])]
  BY <1>4 DEF Reference
<1> QED
  BY <1>1, <1>2, <1>5

\* README: from the first Secret to the last, whatever is edited, pushed, rotated,
\* deleted or restarted meanwhile, a Secret that nobody has touched since a pass holds
\* what one document says to one spec, and names the revision; for a document with
\* integers that float64 cannot hold this is not so.
THEOREM SecretsHoldOneDocument ==
  Spec => [](Exact(Document(sec.by.spec, sec.by.at).plain) => DataFromOneDocument)
<1>1. Init => Stores /\ IInv /\ DocumentInv
  BY InitStores, InitInv, InitDocument
<1>2. Stores /\ IInv /\ DocumentInv /\ [Next]_vars => Stores' /\ IInv' /\ DocumentInv'
  BY StepKeeps, StepInv, DocumentStep
<1>3. DocumentInv => (Exact(Document(sec.by.spec, sec.by.at).plain) => DataFromOneDocument)
  <2> SUFFICES ASSUME DocumentInv, Exact(Document(sec.by.spec, sec.by.at).plain), sec.by # None
               PROVE  /\ sec.data = Reference(sec.by.spec, Document(sec.by.spec, sec.by.at).plain)
                      /\ ~Inline => sec.commit = sec.by.at.rev
    BY DEF DataFromOneDocument
  <2> DEFINE spec == sec.by.spec
             plain == Document(sec.by.spec, sec.by.at).plain
  <2>1. /\ Good(spec) /\ Produced(spec, plain).ok
        /\ sec.data = Produced(spec, plain).value.data
        /\ ~Inline => sec.commit = sec.by.at.rev
    BY DEF DocumentInv, Specs, Held, Made
  <2>2. Produced(spec, plain).value.data = Reference(spec, plain)
    BY <2>1, MappingReference, ManifestReference
  <2> QED
    BY <2>1, <2>2
<1> QED
  BY <1>1, <1>2, <1>3, PTL DEF Spec

-----------------------------------------------------------------------------
(* Types: every edit counts against one bound.                             *)

Budget ==
  /\ edits \in 0..MaxEdits
  /\ cr.gen \in Nat \ {0} /\ cr.token \in Nat
  /\ src.gen \in Nat \ {0} /\ src.token \in Nat
  /\ cr.gen + cr.token + src.gen + src.token <= edits + 2

StatusTyped(o) ==
  /\ o.status.conditions \in [Conditions -> {"Unknown", "True", "False"}]
  /\ o.status.observedGeneration \in 0..o.gen
  /\ o.status.lastProcessedReconcileToken \in 0..o.token
  /\ o.status.lastSyncedCommit \in Nat
Consumers ==
  /\ StatusTyped(cr) /\ StatusTyped(crSeen)
  /\ crSeen.gen \in 1..cr.gen /\ crSeen.token \in 0..cr.token

Origins ==
  /\ src.status.ready \in BOOLEAN /\ srcSeen.status.ready \in BOOLEAN
  /\ srcSeen.gen \in 1..src.gen /\ srcSeen.token \in 0..src.token

SecretTyped == sec.exists \in BOOLEAN /\ (sec.exists => sec.type # << >>)

Worker ==
  /\ pass.pc \in PCs \cup {"idle"}
  /\ wake \in {"now", "later", "never"}
  /\ ~Inline /\ HasRead => pass.at.rev \in Nat

KeysTyped == keys \in [KeySecrets -> AgeKeys \cup {None}]

TypeInv == Budget /\ Consumers /\ Origins /\ SecretTyped /\ Worker /\ KeysTyped

LEMMA InitTypes == Init => TypeInv
<1> SUFFICES ASSUME Init PROVE TypeInv
  OBVIOUS
<1>1. /\ cr.gen = 1 /\ cr.token = 0 /\ cr.status = NewStatus /\ crSeen = cr
      /\ src.gen = 1 /\ src.token = 0 /\ src.status.ready = FALSE /\ srcSeen = src
      /\ keys = FirstKeys /\ sec = NoSecret /\ pass = Idle /\ wake = "now" /\ edits = 0
  BY DEF Init, NewSource
<1>2. Budget /\ Origins /\ KeysTyped
  <2>1. MaxEdits \in Nat /\ FirstKeys \in [KeySecrets -> AgeKeys \cup {None}]
    BY PipelineAssumption
  <2>2. Budget
    BY <1>1, <2>1 DEF Budget
  <2>3. src.status.ready \in BOOLEAN /\ srcSeen.status.ready \in BOOLEAN
    BY <1>1, Zenon
  <2>4. srcSeen.gen = 1 /\ srcSeen.token = 0
    BY <1>1
  <2>5. Origins
    BY <1>1, <2>3, <2>4 DEF Origins
  <2>6. KeysTyped
    BY <1>1, <2>1 DEF KeysTyped
  <2> QED
    BY <2>2, <2>5, <2>6
<1>3. Consumers
  BY <1>1 DEF Consumers, StatusTyped, NewStatus
<1>4. SecretTyped /\ Worker
  BY <1>1 DEF SecretTyped, Worker, NoSecret, Idle, HasRead
<1> QED
  BY <1>2, <1>3, <1>4 DEF TypeInv

\* What users, failures and restarts do to the objects, and what the operator may
\* not do.
LEMMA BudgetKept ==
  ASSUME Budget,
         \/ UNCHANGED <<cr, src, edits>>
         \/ /\ UNCHANGED edits
            /\ cr'.gen = cr.gen /\ cr'.token = cr.token /\ src'.gen = src.gen /\ src'.token = src.token
         \/ /\ Edit
            /\ \/ cr'.gen = cr.gen + 1 /\ cr'.token = cr.token
               \/ cr'.gen = cr.gen /\ cr'.token = cr.token + 1
               \/ cr'.gen = cr.gen /\ cr'.token = cr.token
            /\ src'.gen = src.gen /\ src'.token = src.token
         \/ /\ Edit
            /\ \/ src'.gen = src.gen + 1 /\ src'.token = src.token
               \/ src'.gen = src.gen /\ src'.token = src.token + 1
               \/ src'.gen = src.gen /\ src'.token = src.token
            /\ cr'.gen = cr.gen /\ cr'.token = cr.token
  PROVE  Budget'
<1>1. MaxEdits \in Nat
  BY PipelineAssumption
<1>2. CASE Edit
  BY <1>1, <1>2 DEF Budget, Edit
<1>3. CASE UNCHANGED edits
  BY <1>1, <1>3 DEF Budget, Edit
<1> QED
  BY <1>2, <1>3 DEF Edit

LEMMA BudgetStep == ASSUME SourceInv, IInv, Budget, [Next]_vars PROVE Budget'
<1>0. /\ cr = [spec |-> cr.spec, gen |-> cr.gen, token |-> cr.token, status |-> cr.status]
      /\ src = [spec |-> src.spec, gen |-> src.gen, token |-> src.token, status |-> src.status]
  BY DEF IInv, Shapes, ObjectShape, SourceInv, Sources, SourceShape
<1>1. CASE \/ Start \/ FetchSource \/ Decrypt \/ Apply \/ WakeUp \/ HandleConsumer \/ HandleSource
           \/ SourceFetch \/ \E loc \in Locations : Push(loc)
  BY <1>1, BudgetKept DEF Start, FetchSource, Decrypt, Apply, WakeUp, HandleConsumer, HandleSource,
                         SourceFetch, Push, sourceSide
<1>2. CASE UpdateStatus
  <2>1. cr'.gen = cr.gen /\ cr'.token = cr.token
    BY <1>0, <1>2 DEF UpdateStatus
  <2> QED
    BY <1>2, <2>1, BudgetKept DEF UpdateStatus, sourceSide
<1>3. CASE SourceReport
  <2>1. src'.gen = src.gen /\ src'.token = src.token
    BY <1>0, <1>3 DEF SourceReport
  <2> QED
    BY <1>3, <2>1, BudgetKept DEF SourceReport
<1>4. CASE SourceFails
  <2>1. src'.gen = src.gen /\ src'.token = src.token
    BY <1>0, <1>4 DEF SourceFails
  <2> QED
    BY <1>4, <2>1, BudgetKept DEF SourceFails
<1>5. CASE \E e : EditSpec(e)
  <2>1. PICK new : cr' = [cr EXCEPT !.spec = new, !.gen = @ + 1]
    BY <1>5 DEF EditSpec
  <2>2. cr'.gen = cr.gen + 1 /\ cr'.token = cr.token
    BY <1>0, <2>1
  <2> QED
    BY <1>5, <2>2, BudgetKept DEF EditSpec, sourceSide
<1>6. CASE \E e : EditSource(e)
  <2>1. PICK new : src' = [src EXCEPT !.spec = new, !.gen = @ + 1]
    BY <1>6 DEF EditSource
  <2>2. src'.gen = src.gen + 1 /\ src'.token = src.token
    BY <1>0, <2>1
  <2> QED
    BY <1>6, <2>2, BudgetKept DEF EditSource
<1>7. CASE Annotate
  <2>1. cr'.gen = cr.gen /\ cr'.token = cr.token + 1
    BY <1>0, <1>7 DEF Annotate
  <2> QED
    BY <1>7, <2>1, BudgetKept DEF Annotate, sourceSide
<1>8. CASE AnnotateSource
  <2>1. src'.gen = src.gen /\ src'.token = src.token + 1
    BY <1>0, <1>8 DEF AnnotateSource
  <2> QED
    BY <1>8, <2>1, BudgetKept DEF AnnotateSource
<1>9. CASE \/ DeleteSecret \/ Drift \/ Restart
           \/ \E ref \in KeySecrets, key \in AgeKeys \cup {None} : RotateKey(ref, key)
  <2>1. Edit /\ cr' = cr /\ src' = src
    BY <1>9 DEF DeleteSecret, Drift, Restart, RotateKey, sourceSide
  <2> QED
    BY <2>1, BudgetKept
<1>10. CASE UNCHANGED vars
  BY <1>10, BudgetKept DEF vars
<1> QED
  BY <1>1, <1>2, <1>3, <1>4, <1>5, <1>6, <1>7, <1>8, <1>9, <1>10 DEF Next, Step, User

\* What a pass writes into the status of the object that it read.
LEMMA StatusAfterTyped ==
  ASSUME IInv, EventInv, Stores, Consumers, Worker, UpdateStatus, pass.view = cr,
         cr.gen \in Nat \ {0}, cr.token \in Nat
  PROVE  /\ StatusAfter.conditions \in [Conditions -> {"Unknown", "True", "False"}]
         /\ StatusAfter.observedGeneration \in 0..cr.gen
         /\ StatusAfter.lastProcessedReconcileToken \in 0..cr.token
         /\ StatusAfter.lastSyncedCommit \in Nat
<1>1. ConditionsAfter \in [Conditions -> {"Unknown", "True", "False"}]
  <2>1. ASSUME NEW c \in Conditions PROVE ConditionAfter(c) \in {"Unknown", "True", "False"}
    <3>1. cr.status.conditions[c] \in {"Unknown", "True", "False"}
      BY DEF Consumers, StatusTyped
    <3> QED
      BY <3>1 DEF ConditionAfter
  <2> QED
    BY <2>1 DEF ConditionsAfter
<1>2. CASE pass.failed = "none"
  <2>1. /\ StatusAfter.conditions = ConditionsAfter
        /\ StatusAfter.lastSyncedCommit = IF Inline THEN 0 ELSE pass.at.rev
        /\ StatusAfter.lastProcessedReconcileToken = cr.token
        /\ StatusAfter.observedGeneration = cr.gen
    BY <1>2 DEF StatusAfter
  <2>2. ~Inline => pass.at.rev \in Nat
    BY <1>2 DEF Worker, HasRead, UpdateStatus
  <2> QED
    BY <1>1, <2>1, <2>2
<1>3. CASE pass.failed # "none"
  <2>1. StatusAfter = [cr.status EXCEPT !.conditions = ConditionsAfter]
    BY <1>3 DEF StatusAfter
  <2>2. cr.status = [conditions |-> cr.status.conditions,
                     lastAppliedHash |-> cr.status.lastAppliedHash,
                     lastSyncedCommit |-> cr.status.lastSyncedCommit,
                     lastProcessedReconcileToken |-> cr.status.lastProcessedReconcileToken,
                     observedGeneration |-> cr.status.observedGeneration]
    BY DEF IInv, Shapes, ObjectShape
  <2>3. ASSUME NEW c, NEW y, y = [cr.status EXCEPT !.conditions = c]
        PROVE  /\ y.conditions = c
               /\ y.observedGeneration = cr.status.observedGeneration
               /\ y.lastProcessedReconcileToken = cr.status.lastProcessedReconcileToken
               /\ y.lastSyncedCommit = cr.status.lastSyncedCommit
    BY <2>2, <2>3, Zenon
  <2>4. /\ StatusAfter.conditions = ConditionsAfter
        /\ StatusAfter.observedGeneration = cr.status.observedGeneration
        /\ StatusAfter.lastProcessedReconcileToken = cr.status.lastProcessedReconcileToken
        /\ StatusAfter.lastSyncedCommit = cr.status.lastSyncedCommit
    BY <2>1, <2>3
  <2> QED
    BY <1>1, <2>4 DEF Consumers, StatusTyped
<1> QED
  BY <1>2, <1>3

\* The consumer and its copy, whose generations and tokens only grow.
LEMMA ConsumersKept ==
  ASSUME Budget, Consumers, StatusTyped(cr'), cr'.gen \in Nat, cr'.token \in Nat,
         cr'.gen >= cr.gen, cr'.token >= cr.token,
         crSeen' = crSeen \/ (crSeen' = cr /\ cr' = cr)
  PROVE  Consumers'
BY DEF Budget, Consumers, StatusTyped

LEMMA ConsumersStep ==
  ASSUME IInv, EventInv, Stores, Budget, Consumers, Worker, [Next]_vars PROVE Consumers'
<1>0. /\ cr = [spec |-> cr.spec, gen |-> cr.gen, token |-> cr.token, status |-> cr.status]
      /\ StatusTyped(cr) /\ cr.gen \in Nat \ {0} /\ cr.token \in Nat
  BY DEF IInv, Shapes, ObjectShape, Consumers, Budget
<1>1. CASE UNCHANGED <<cr, crSeen>>
  BY <1>1 DEF Consumers, StatusTyped
<1>2. CASE crSeen' = cr /\ cr' = cr
  BY <1>0, <1>2, ConsumersKept
<1>3. CASE UpdateStatus /\ pass.view = cr
  <2>1. cr' = [cr EXCEPT !.status = StatusAfter] /\ crSeen' = crSeen
    BY <1>3 DEF UpdateStatus
  <2>2. cr'.status = StatusAfter /\ cr'.gen = cr.gen /\ cr'.token = cr.token
    BY <1>0, <2>1
  <2>3. StatusTyped(cr')
    BY <1>0, <1>3, <2>2, StatusAfterTyped DEF StatusTyped
  <2> QED
    BY <1>0, <2>1, <2>2, <2>3, ConsumersKept
<1>4. CASE \E e : EditSpec(e)
  <2>1. PICK new : cr' = [cr EXCEPT !.spec = new, !.gen = @ + 1]
    BY <1>4 DEF EditSpec
  <2>2. cr'.gen = cr.gen + 1 /\ cr'.token = cr.token /\ cr'.status = cr.status
    BY <1>0, <2>1
  <2>3. StatusTyped(cr')
    BY <1>0, <2>2 DEF StatusTyped
  <2> QED
    BY <1>0, <1>4, <2>2, <2>3, ConsumersKept DEF EditSpec
<1>5. CASE Annotate
  <2>1. cr' = [cr EXCEPT !.token = @ + 1]
    BY <1>5 DEF Annotate
  <2>2. cr'.gen = cr.gen /\ cr'.token = cr.token + 1 /\ cr'.status = cr.status
    BY <1>0, <2>1
  <2>3. StatusTyped(cr')
    BY <1>0, <2>2 DEF StatusTyped
  <2> QED
    BY <1>0, <1>5, <2>2, <2>3, ConsumersKept DEF Annotate
<1>6. \/ UNCHANGED <<cr, crSeen>>
      \/ crSeen' = cr /\ cr' = cr
      \/ UpdateStatus /\ pass.view = cr
      \/ \E e : EditSpec(e)
      \/ Annotate
  <2>1. CASE \/ Start \/ FetchSource \/ Decrypt \/ Apply \/ WakeUp \/ HandleSource
             \/ SourceFetch \/ SourceReport \/ SourceFails \/ AnnotateSource \/ DeleteSecret \/ Drift
             \/ (\E loc \in Locations : Push(loc)) \/ (\E e : EditSource(e))
             \/ \E ref \in KeySecrets, key \in AgeKeys \cup {None} : RotateKey(ref, key)
    BY <2>1 DEF Start, FetchSource, Decrypt, Apply, WakeUp, HandleSource, SourceFetch, SourceReport,
                SourceFails, AnnotateSource, DeleteSecret, Drift, Push, EditSource, RotateKey
  <2>2. CASE UpdateStatus \/ HandleConsumer \/ Restart \/ UNCHANGED vars
    BY <2>2 DEF UpdateStatus, HandleConsumer, Restart, vars
  <2> QED
    BY <2>1, <2>2 DEF Next, Step, User
<1> QED
  BY <1>1, <1>2, <1>3, <1>4, <1>5, <1>6

\* The source and its copy.
LEMMA OriginsStep == ASSUME SourceInv, Budget, Origins, [Next]_vars PROVE Origins'
<1>0. /\ src = [spec |-> src.spec, gen |-> src.gen, token |-> src.token, status |-> src.status]
      /\ src.status = [ready |-> src.status.ready, at |-> src.status.at, token |-> src.status.token,
                       observedGeneration |-> src.status.observedGeneration]
      /\ src.gen \in Nat \ {0} /\ src.token \in Nat
  BY DEF SourceInv, Sources, SourceShape, Budget
<1>1. CASE UNCHANGED <<src, srcSeen>>
  BY <1>1 DEF Origins
<1>2. CASE srcSeen' = src /\ src' = src
  BY <1>0, <1>2 DEF Origins
<1>3. CASE /\ srcSeen' = srcSeen
           /\ src'.status.ready \in BOOLEAN
           /\ src'.gen = src.gen \/ src'.gen = src.gen + 1
           /\ src'.token = src.token \/ src'.token = src.token + 1
  BY <1>0, <1>3 DEF Origins
<1>4. CASE SourceReport
  <2>1. CASE src' = src
    BY <1>1, <1>4, <2>1 DEF SourceReport
  <2>2. CASE src' = [src EXCEPT !.status = Synced]
    <3>1. src'.gen = src.gen /\ src'.token = src.token /\ src'.status = Synced
      BY <1>0, <2>2
    <3>2. Synced.ready = TRUE
      BY DEF Synced
    <3>3. src'.status.ready \in BOOLEAN /\ srcSeen' = srcSeen
      BY <1>4, <3>1, <3>2 DEF SourceReport
    <3> QED
      BY <1>3, <3>1, <3>3
  <2> QED
    BY <1>4, <2>1, <2>2 DEF SourceReport
<1>5. CASE SourceFails
  <2>1. src' = [src EXCEPT !.status.ready = FALSE] /\ srcSeen' = srcSeen
    BY <1>5 DEF SourceFails
  <2>2. /\ src'.gen = src.gen /\ src'.token = src.token
        /\ src'.status = [src.status EXCEPT !.ready = FALSE]
    BY <1>0, <2>1
  <2>3. ASSUME NEW y, y = [src.status EXCEPT !.ready = FALSE] PROVE y.ready = FALSE
    BY <1>0, <2>3, Zenon
  <2>4. src'.status.ready = FALSE
    BY <2>2, <2>3
  <2> QED
    BY <1>3, <2>1, <2>2, <2>4
<1>6. CASE \E e : EditSource(e)
  <2>1. PICK new : src' = [src EXCEPT !.spec = new, !.gen = @ + 1]
    BY <1>6 DEF EditSource
  <2>2. src'.gen = src.gen + 1 /\ src'.token = src.token /\ src'.status = src.status
    BY <1>0, <2>1
  <2> QED
    BY <1>0, <1>3, <1>6, <2>2 DEF EditSource, Origins
<1>7. CASE AnnotateSource
  <2>1. src'.gen = src.gen /\ src'.token = src.token + 1 /\ src'.status = src.status
    BY <1>0, <1>7 DEF AnnotateSource
  <2> QED
    BY <1>0, <1>3, <1>7, <2>1 DEF AnnotateSource, Origins
<1>8. CASE \/ Start \/ FetchSource \/ Decrypt \/ Apply \/ UpdateStatus \/ WakeUp \/ HandleConsumer
           \/ SourceFetch \/ Annotate \/ DeleteSecret \/ Drift
           \/ (\E loc \in Locations : Push(loc)) \/ (\E e : EditSpec(e))
           \/ \E ref \in KeySecrets, key \in AgeKeys \cup {None} : RotateKey(ref, key)
  <2>1. UNCHANGED <<src, srcSeen>>
    BY <1>8 DEF Start, FetchSource, Decrypt, Apply, UpdateStatus, WakeUp, HandleConsumer, SourceFetch,
                Annotate, DeleteSecret, Drift, Push, EditSpec, RotateKey, sourceSide
  <2> QED
    BY <1>1, <2>1
<1>9. CASE HandleSource \/ Restart
  BY <1>2, <1>9 DEF HandleSource, Restart
<1>10. CASE UNCHANGED vars
  BY <1>1, <1>10 DEF vars
<1> QED
  BY <1>4, <1>5, <1>6, <1>7, <1>8, <1>9, <1>10 DEF Next, Step, User

LEMMA SecretTypedStep == ASSUME IInv, SecretTyped, [Next]_vars PROVE SecretTyped'
<1>1. CASE UNCHANGED sec
  BY <1>1 DEF SecretTyped
<1>2. CASE Apply /\ ~UNCHANGED sec
  <2> DEFINE new == [exists |-> TRUE, type |-> TypeFor(pass.out), data |-> pass.out.data,
                     hash |-> pass.out.hash, commit |-> IF Inline THEN 0 ELSE pass.at.rev,
                     by |-> [spec |-> pass.view.spec, at |-> pass.at]]
  <2>1. sec' = IF Changes(new) THEN new ELSE [sec EXCEPT !.by = new.by]
    BY <1>2 DEF Apply
  <2>2. CASE sec' = new
    <3>1. TypeFor(pass.out) # << >>
      BY DEF TypeFor, SecretTyped
    <3>2. sec'.exists = TRUE /\ sec'.type = TypeFor(pass.out)
      BY <2>2
    <3> QED
      BY <3>1, <3>2 DEF SecretTyped
  <2>3. CASE sec' = [sec EXCEPT !.by = new.by]
    <3>1. sec'.exists = sec.exists /\ sec'.type = sec.type
      BY <2>3 DEF IInv, Shapes, SecretShape
    <3> QED
      BY <3>1 DEF SecretTyped
  <2> QED
    BY <2>1, <2>2, <2>3
<1>3. CASE DeleteSecret
  <2>1. sec'.exists = FALSE
    BY <1>3 DEF DeleteSecret, NoSecret
  <2> QED
    BY <2>1 DEF SecretTyped
<1>4. CASE Drift
  <2>1. sec'.exists = sec.exists /\ sec'.type = sec.type
    BY <1>4 DEF Drift, IInv, Shapes, SecretShape
  <2> QED
    BY <2>1 DEF SecretTyped
<1>5. UNCHANGED sec \/ (Apply /\ ~UNCHANGED sec) \/ DeleteSecret \/ Drift
  <2>1. CASE \/ Start \/ FetchSource \/ Decrypt \/ UpdateStatus \/ WakeUp \/ HandleConsumer
             \/ HandleSource \/ SourceFetch \/ SourceReport \/ SourceFails \/ Annotate
             \/ AnnotateSource \/ Restart \/ UNCHANGED vars
             \/ (\E loc \in Locations : Push(loc)) \/ (\E e : EditSpec(e)) \/ (\E e : EditSource(e))
             \/ \E ref \in KeySecrets, key \in AgeKeys \cup {None} : RotateKey(ref, key)
    BY <2>1 DEF Start, FetchSource, Decrypt, UpdateStatus, WakeUp, HandleConsumer, HandleSource,
                SourceFetch, SourceReport, SourceFails, Annotate, AnnotateSource, Restart, Push,
                EditSpec, EditSource, RotateKey, vars
  <2> QED
    BY <2>1 DEF Next, Step, User
<1> QED
  BY <1>1, <1>2, <1>3, <1>4, <1>5

LEMMA KeysTypedStep == ASSUME KeysTyped, [Next]_vars PROVE KeysTyped'
<1>1. CASE \E ref \in KeySecrets, key \in AgeKeys \cup {None} : RotateKey(ref, key)
  <2>1. PICK ref \in KeySecrets, key \in AgeKeys \cup {None} :
          keys' = [keys EXCEPT ![ref] = key]
    BY <1>1 DEF RotateKey
  <2> QED
    BY <2>1 DEF KeysTyped
<1>2. CASE UNCHANGED keys
  BY <1>2 DEF KeysTyped
<1>3. CASE ~ \E ref \in KeySecrets, key \in AgeKeys \cup {None} : RotateKey(ref, key)
  <2>1. UNCHANGED keys
    BY <1>3 DEF Next, Step, User, Start, FetchSource, Decrypt, Apply, UpdateStatus, WakeUp,
                HandleConsumer, HandleSource, SourceFetch, SourceReport, SourceFails, Annotate,
                AnnotateSource, DeleteSecret, Drift, Restart, Push, EditSpec, EditSource, vars
  <2> QED
    BY <1>2, <2>1
<1> QED
  BY <1>1, <1>3

\* What a pass has read is a revision.
LEMMA FailsWorker ==
  ASSUME IInv, Worker, NEW stage \in Conditions, Fails(stage), UNCHANGED <<setup, wake>>
  PROVE  Worker'
<1>1. pass'.pc = "status" /\ pass'.failed = stage /\ stage # "none"
  BY ConditionNames DEF Fails, IInv, Shapes, PassShape
<1> QED
  BY <1>1 DEF Worker, PCs, HasRead

LEMMA WorkerStep == ASSUME SourceInv, IInv, Worker, [Next]_vars PROVE Worker'
<1>1. CASE pass' = Idle /\ wake' \in {"now", "later", "never"}
  BY <1>1 DEF Worker, HasRead, Idle
<1>2. CASE UNCHANGED <<setup, pass>> /\ wake' \in {"now", "later", "never"}
  BY <1>2 DEF Worker, HasRead, Inline
<1>3. CASE Start
  <2>1. pass'.pc = (IF Inline THEN "decrypt" ELSE "fetch") /\ wake' = "never" /\ setup' = setup
    BY <1>3 DEF Start, Idle
  <2> QED
    BY <2>1 DEF Worker, HasRead, Inline, PCs
<1>4. CASE FetchSource
  <2>1. UNCHANGED <<setup, wake>>
    BY <1>4 DEF FetchSource
  <2>2. CASE Fails("SourceReady")
    BY <2>1, <2>2, FailsWorker, ConditionNames
  <2>3. CASE Readable(pass.view.spec) /\ pass' = [pass EXCEPT !.pc = "decrypt", !.at = ReadAt]
    <3>1. pass'.pc = "decrypt" /\ pass'.at = ReadAt
      BY <2>3 DEF IInv, Shapes, PassShape
    <3>2. Grounded(cache, upstream)
      BY <2>3 DEF Readable, SourceInv, Cached
    <3>3. cache.loc \in Locations /\ cache.rev \in Nat /\ upstream[cache.loc] \in Nat
      BY <3>2 DEF Grounded, SourceInv, Upstreams
    <3>4. ReadAt.rev \in Nat
      BY <3>3 DEF ReadAt
    <3> QED
      BY <2>1, <3>1, <3>4 DEF Worker, PCs
  <2> QED
    BY <1>4, <2>2, <2>3 DEF FetchSource
<1>5. CASE Decrypt
  <2> DEFINE out == Outcome(pass.view.spec, pass.at)
  <2>1. pass.pc = "decrypt" /\ UNCHANGED <<setup, wake>>
    BY <1>5 DEF Decrypt
  <2>2. CASE Fails("Decrypted")
    BY <2>1, <2>2, FailsWorker, ConditionNames
  <2>3. CASE pass' = [pass EXCEPT !.pc = "apply", !.out = out.value]
    <3>1. pass'.pc = "apply" /\ pass'.at = pass.at
      BY <2>3 DEF IInv, Shapes, PassShape
    <3> QED
      BY <2>1, <3>1 DEF Worker, HasRead, Inline, PCs
  <2> QED
    BY <1>5, <2>2, <2>3 DEF Decrypt
<1>6. CASE Apply
  <2>1. pass.pc = "apply" /\ UNCHANGED <<setup, wake>>
    BY <1>6 DEF Apply
  <2>2. CASE Fails("Applied")
    BY <2>1, <2>2, FailsWorker, ConditionNames
  <2>3. CASE pass' = [pass EXCEPT !.pc = "status"]
    <3>1. pass'.pc = "status" /\ pass'.at = pass.at
      BY <2>3 DEF IInv, Shapes, PassShape
    <3> QED
      BY <2>1, <3>1 DEF Worker, HasRead, Inline, PCs
  <2> QED
    BY <1>6, <2>2, <2>3 DEF Apply
<1>7. CASE UpdateStatus \/ Restart
  BY <1>1, <1>7 DEF UpdateStatus, Restart, Worker
<1>8. CASE WakeUp \/ HandleConsumer \/ HandleSource
  BY <1>2, <1>8 DEF WakeUp, HandleConsumer, HandleSource, Worker
<1>9. CASE \/ SourceFetch \/ SourceReport \/ SourceFails \/ User
           \/ \E loc \in Locations : Push(loc)
  <2>1. UNCHANGED <<setup, pass, wake>>
    BY <1>9 DEF SourceFetch, SourceReport, SourceFails, User, Push, EditSpec, EditSource, Annotate,
                AnnotateSource, RotateKey, DeleteSecret, Drift
  <2> QED
    BY <1>2, <2>1 DEF Worker
<1>10. CASE UNCHANGED vars
  BY <1>2, <1>10 DEF vars, Worker
<1> QED
  BY <1>3, <1>4, <1>5, <1>6, <1>7, <1>8, <1>9, <1>10 DEF Next, Step

LEMMA TypeStep ==
  ASSUME SourceInv, IInv, EventInv, TypeInv, [Next]_vars PROVE TypeInv'
<1>1. Stores /\ Budget /\ Consumers /\ Origins /\ SecretTyped /\ Worker /\ KeysTyped
  BY DEF SourceInv, TypeInv
<1>2. Budget' /\ Consumers' /\ Origins'
  BY <1>1, BudgetStep, ConsumersStep, OriginsStep
<1>3. SecretTyped' /\ Worker' /\ KeysTyped'
  BY <1>1, SecretTypedStep, WorkerStep, KeysTypedStep
<1> QED
  BY <1>2, <1>3 DEF TypeInv

\* Every field of the pipeline keeps its type: the generations, tokens and revisions of
\* the objects and their copies stay within what edits and pushes allow, and no status
\* records more of the source than upstream has.
THEOREM PipelineTypes == Spec => []TypeOK
<1>1. Init => SourceInv /\ IInv /\ EventInv /\ TypeInv
  BY InitSource, InitInv, InitEvent, InitTypes
<1>2. SourceInv /\ IInv /\ EventInv /\ TypeInv /\ [Next]_vars
        => SourceInv' /\ IInv' /\ EventInv' /\ TypeInv'
  BY SourceStep, StepInv, EventStep, TypeStep
<1>3. SourceInv /\ IInv /\ EventInv /\ TypeInv => TypeOK
  <2> SUFFICES ASSUME SourceInv, IInv, EventInv, TypeInv PROVE TypeOK
    OBVIOUS
  <2>1. /\ setup \in Setups
        /\ IsSpec(setup.consumer, Storage(setup.consumer), cr.spec)
    BY DEF SourceInv, Stores
  <2>2. /\ MaxEdits \in Nat /\ edits \in 0..MaxEdits
        /\ cr.gen \in 1..(MaxEdits + 1) /\ cr.token \in 0..MaxEdits
        /\ src.gen \in 1..(MaxEdits + 1) /\ src.token \in 0..MaxEdits
    BY PipelineAssumption DEF TypeInv, Budget
  <2>3. /\ crSeen.gen \in 1..(MaxEdits + 1) /\ crSeen.token \in 0..MaxEdits
        /\ srcSeen.gen \in 1..(MaxEdits + 1) /\ srcSeen.token \in 0..MaxEdits
    BY <2>2 DEF TypeInv, Consumers, Origins
  <2>4. \A o \in {cr, crSeen} :
          /\ o.gen \in 1..(MaxEdits + 1) /\ o.token \in 0..MaxEdits
          /\ o.status.conditions \in [Conditions -> {"Unknown", "True", "False"}]
          /\ o.status.observedGeneration \in 0..o.gen
          /\ o.status.lastProcessedReconcileToken \in 0..o.token
          /\ o.status.lastSyncedCommit \in Nat
    BY <2>2, <2>3 DEF TypeInv, Consumers, StatusTyped
  <2>5. ASSUME NEW o \in {src, srcSeen}
        PROVE  /\ o.gen \in 1..(MaxEdits + 1) /\ o.token \in 0..MaxEdits
               /\ o.spec.url \in Locations
               /\ o.status.ready \in BOOLEAN /\ o.status.observedGeneration \in 0..o.gen
               /\ o.status.ready => o.status.at.loc \in Locations
    <3>1. o.gen \in 1..(MaxEdits + 1) /\ o.token \in 0..MaxEdits
      BY <2>2, <2>3
    <3>2. SourceShape(o)
      BY DEF SourceInv, Sources
    <3>3. o.status.ready \in BOOLEAN
      BY DEF TypeInv, Origins
    <3>4. o.status.ready => o.status.at.loc \in Locations
      BY DEF SourceInv, Reported, Reports, Grounded
    <3>5. o.spec.url \in Locations /\ o.status.observedGeneration \in 0..o.gen
      BY <3>2 DEF SourceShape
    <3> QED
      BY <3>1, <3>3, <3>4, <3>5
  <2>6. /\ \A loc \in Locations : upstream[loc] \in 1..Revisions[loc]
        /\ cache # None => cache.rev \in 1..upstream[cache.loc]
    BY DEF SourceInv, Upstreams, Cached, Grounded
  <2>7. /\ keys \in [KeySecrets -> AgeKeys \cup {None}]
        /\ sec.exists \in BOOLEAN /\ (sec.exists => sec.type # << >>)
        /\ pass.pc \in PCs \cup {"idle"} /\ pass.failed \in Conditions \cup {"none"}
        /\ wake \in {"now", "later", "never"}
    BY DEF TypeInv, KeysTyped, SecretTyped, Worker, EventInv, FailureNamed
  <2> QED
    BY <2>1, <2>2, <2>4, <2>5, <2>6, <2>7 DEF TypeOK
<1> QED
  BY <1>1, <1>2, <1>3, PTL DEF Spec
================================================================================
