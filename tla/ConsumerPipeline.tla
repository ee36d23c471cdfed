---------------------------- MODULE ConsumerPipeline ----------------------------
(***************************************************************************)
(* One consumer, from a commit or an upload to the data of its Secret: the *)
(* pass of the SopsSecret, SopsSecretManifest and InlineSopsSecret         *)
(* controllers with every stage and the status it leaves, the source it    *)
(* reads from with its status and cache, the watches and timers that start *)
(* the next pass, and users who edit the objects through either version of *)
(* the API.                                                                *)
(*                                                                         *)
(* A behaviour is about one kind of consumer and one kind of source, fixed *)
(* in Init.  The source's side is what SourceRegistry and ObjectRegistry   *)
(* refine: one step fetches, another reports.  Ownership of the target,    *)
(* its name, finalizers and the Secret's own informer are TargetSecret's.  *)
(***************************************************************************)
EXTENDS Naturals, FiniteSets, Sequences, FiniteSetsExt, Transform, Conversion

CONSTANTS
  None,           \* no entry, no pass, no reference
  Setups,         \* kinds of consumer and source to look at: [consumer, source]
  Locations,      \* what spec.url of the source, or spec.bucket, may name
  Revisions,      \* Revisions[loc]: bound on the revisions there
  Files,          \* Files[kind][loc][rev]: path -> encrypted document
  Payloads,       \* Payloads[p]: the encrypted document in spec.encryptedYAML
  FirstSpec,      \* FirstSpec[kind]: spec of the consumer, as stored
  FirstSource,    \* FirstSource[kind]: spec of the source, as stored
  SpecEdits,      \* SpecEdits[kind]: edits of the spec: [version, change: field -> value]
  SourceEdits,    \* SourceEdits[kind]: edits of the source's spec
  Namespace,      \* namespace of the consumer
  Allowed,        \* --secret-ref-namespaces
  GlobalKey,      \* --global-age-key-secret: [namespace, name], or None
  KeySecrets,     \* the age key Secrets: a set of [namespace, name]
  AgeKeys,        \* contents an age key may have
  FirstKeys,      \* content of each age key Secret at first, or None
  MaxEdits        \* bound on what users do, failures and restarts

ASSUME PipelineAssumption ==
  /\ Setups \subseteq [consumer : Kinds \ {"GitRepository"}, source : {"git", "url", "bucket"}]
  /\ Revisions \in [Locations -> Nat \ {0}]
  /\ FirstKeys \in [KeySecrets -> AgeKeys \cup {None}]
  /\ MaxEdits \in Nat
  /\ GlobalKey \in KeySecrets \cup {None}

\* What users write is what the CRDs let through, field by field.
IsEdit(kind, e) == e.version \in Versions /\ Settable(kind, e.version, e.change)

ASSUME SpecsAssumption ==
  /\ \A kind \in Kinds \ {"GitRepository"} :
       /\ IsSpec(kind, Storage(kind), FirstSpec[kind])
       /\ Valid(kind, FirstSpec[kind])
       /\ \A e \in SpecEdits[kind] : IsEdit(kind, e)
  /\ IsSpec("GitRepository", Storage("GitRepository"), FirstSource["GitRepository"])
  /\ \A e \in SourceEdits["GitRepository"] : IsEdit("GitRepository", e)
  /\ \A kind \in {"GitRepository", "ObjectSource"} :
       /\ "url" \in DOMAIN FirstSource[kind] /\ FirstSource[kind].url \in Locations
       /\ \A e \in SourceEdits[kind] :
            "url" \in DOMAIN e.change => e.change.url \in Locations

VARIABLES
  setup,     \* the kinds: [consumer, source]
  cr,        \* the consumer at the API server
  crSeen,    \* the informer's copy of it
  src,       \* the source at the API server
  srcSeen,   \* the informer's copy of it
  upstream,  \* upstream[loc]: newest revision there
  cache,     \* the registry's entry: [loc, rev], or None
  fetched,   \* the source worker's copy of the source, fetched but not reported
  keys,      \* content of each age key Secret; None without a usable key
  sec,       \* the target Secret
  pass,      \* the consumer worker's pass in progress
  wake,      \* the work queue: "now", "later" for a pending RequeueAfter, or "never"
  edits      \* edits, failures and restarts so far

vars == <<setup, cr, crSeen, src, srcSeen, upstream, cache, fetched, keys, sec, pass, wake, edits>>
sourceSide == <<src, srcSeen, upstream, cache, fetched>>

Inline == setup.consumer = "InlineSopsSecret"
SourceKind == IF setup.source = "git" THEN "GitRepository" ELSE "ObjectSource"
SourceName == "source"

Stages == <<"SourceReady", "Decrypted", "Applied">>
Conditions == {Stages[i] : i \in 1..3}

\* A new consumer and a new source.  The status of the source keeps, besides its
\* own fields, what was fetched for it: at.
NewStatus == [conditions |-> [c \in Conditions |-> "Unknown"], lastAppliedHash |-> << >>,
              lastSyncedCommit |-> 0, lastProcessedReconcileToken |-> 0, observedGeneration |-> 0]
NewSource(spec) == [spec |-> spec, gen |-> 1, token |-> 0,
                    status |-> [ready |-> FALSE, at |-> None, token |-> 0, observedGeneration |-> 0]]

\* Before the operator's first write, and after a deletion.
NoSecret == [exists |-> FALSE, type |-> << >>, data |-> NoData, hash |-> << >>, commit |-> 0,
             by |-> None]
Idle == [pc |-> "idle", view |-> None, at |-> None, out |-> None, failed |-> "none"]
PCs == {"fetch", "decrypt", "apply", "status"}

-----------------------------------------------------------------------------
(* Age keys: secretref.Resolve, keyresolve.Age, decrypt.DecryptAge.        *)

\* resolveAgeKey: spec.decryption may be nil; a foreign namespace must be allowed.
KeyRef(decryption) ==
  IF decryption = Nil THEN GlobalKey
  ELSE LET ref == decryption.keyRef
           ns == IF ref.namespace = "" THEN Namespace ELSE ref.namespace
       IN IF ns \in Allowed \cup {Namespace} THEN [namespace |-> ns, name |-> ref.name] ELSE None

AgeKey(decryption) ==
  LET ref == KeyRef(decryption)
  IN IF ref \in KeySecrets /\ keys[ref] # None THEN Ok(keys[ref]) ELSE Failed

\* A document opens with the key it was encrypted for.
Decrypted(enc, key) == IF enc.key = key THEN Ok(enc.plain) ELSE Failed

-----------------------------------------------------------------------------
(* From the plaintext to the Secret's type and data, per kind and mode.    *)

ByMapping(spec) == setup.consumer = "SopsSecret" \/ (Inline /\ spec.mode = "Mapping")
ByManifest(spec) == setup.consumer = "SopsSecretManifest" \/ (Inline /\ spec.mode = "Manifest")

\* convertSpecDataMappings, convertInlineDataMappings.
Mappings(spec) == IF spec.data = Nil THEN << >> ELSE spec.data

FromMapping(spec, plain) ==
  LET flat == ParseFlatYAML(plain)
      data == IF flat.ok THEN ApplyMapping(flat.value, Mappings(spec)) ELSE Failed
  IN IF data.ok
     THEN Ok([type |-> spec.target.type, data |-> data.value, hash |-> HashSecretData(data.value)])
     ELSE Failed

\* target.nameOverride, or target.name of an inline consumer, before metadata.name.
ManifestName(spec, parsed) ==
  LET given == IF Inline THEN spec.target.name ELSE spec.target.nameOverride
  IN IF given # << >> THEN given ELSE parsed.name

\* The type is the manifest's; an inline consumer may override it.
ManifestType(spec, parsed) ==
  CASE Inline /\ spec.target.type # << >> -> spec.target.type
    [] ~(Inline /\ spec.target.type # << >>) /\ parsed.type # << >> -> parsed.type
    [] OTHER -> <<"Opaque">>

FromManifest(spec, plain) ==
  LET parsed == ParseManifest(plain)
      normal == NormalizeSecretData(parsed.value)
  IN IF parsed.ok /\ ManifestName(spec, normal) # << >>
     THEN Ok([type |-> ManifestType(spec, normal), data |-> normal.data,
              hash |-> HashManifestSecret(normal)])
     ELSE Failed

\* Anything else is the unknown mode that admission refuses.
Produced(spec, plain) ==
  CASE ByMapping(spec) -> FromMapping(spec, plain)
    [] ByManifest(spec) -> FromManifest(spec, plain)
    [] OTHER -> Failed

\* A type that nobody asks for stays; a new Secret is Opaque.
TypeForFault(out) == out.type
TypeFor(out) ==
  CASE out.type # << >> -> out.type
    [] out.type = << >> /\ sec.exists -> sec.type
    [] OTHER -> <<"Opaque">>

\* CreateOrUpdate writes when its mutate function changed something.
ChangesFault(new) == ~sec.exists \/ sec.hash # new.hash
Changes(new) == [new EXCEPT !.by = sec.by] # sec

-----------------------------------------------------------------------------
(* A pass of the consumer's controller.                                    *)

\* The condition a pass fails with goes into its status; the stages after it
\* keep the condition of an earlier pass.
Fails(stage) == pass' = [pass EXCEPT !.pc = "status", !.failed = stage]

\* Get from the informer.
Start ==
  /\ pass.pc = "idle" /\ wake = "now"
  /\ wake' = "never"
  /\ pass' = [Idle EXCEPT !.pc = IF Inline THEN "decrypt" ELSE "fetch", !.view = crSeen]
  /\ UNCHANGED <<setup, cr, crSeen, sourceSide, keys, sec, edits>>

\* fetchSource: the source's informer copy is ready, whatever generation that is
\* about, and the registry has the file.  A bucket is read as it is now.
Readable(spec) ==
  /\ spec.source.sourceRef = [kind |-> SourceKind, name |-> SourceName]
  /\ srcSeen.status.ready
  /\ cache # None

ReadAt == [loc |-> cache.loc, rev |-> IF setup.source = "bucket" THEN upstream[cache.loc] ELSE cache.rev]
FileAt(at) == Files[setup.consumer][at.loc][at.rev]

FetchSource ==
  /\ pass.pc = "fetch"
  /\ IF Readable(pass.view.spec) /\ pass.view.spec.source.path \in DOMAIN FileAt(ReadAt)
     THEN pass' = [pass EXCEPT !.pc = "decrypt", !.at = ReadAt]
     ELSE Fails("SourceReady")
  /\ UNCHANGED <<setup, cr, crSeen, sourceSide, keys, sec, wake, edits>>

\* The document a pass works on.
Document(spec, at) == IF Inline THEN Payloads[spec.encryptedYAML] ELSE FileAt(at)[spec.source.path]

\* resolveAgeKey, DecryptAge, and the transformation.
Outcome(spec, at) ==
  LET key == AgeKey(spec.decryption)
      plain == IF key.ok THEN Decrypted(Document(spec, at), key.value) ELSE Failed
  IN IF plain.ok THEN Produced(spec, plain.value) ELSE Failed

Decrypt ==
  /\ pass.pc = "decrypt"
  /\ LET out == Outcome(pass.view.spec, pass.at)
     IN IF out.ok
        THEN pass' = [pass EXCEPT !.pc = "apply", !.out = out.value]
        ELSE Fails("Decrypted")
  /\ UNCHANGED <<setup, cr, crSeen, sourceSide, keys, sec, wake, edits>>

\* CreateOrUpdate.  The API server refuses to change the type of a Secret.
Apply ==
  /\ pass.pc = "apply"
  /\ LET new == [exists |-> TRUE, type |-> TypeFor(pass.out), data |-> pass.out.data,
                 hash |-> pass.out.hash, commit |-> IF Inline THEN 0 ELSE pass.at.rev,
                 by |-> [spec |-> pass.view.spec, at |-> pass.at]]
     IN IF sec.exists /\ sec.type # new.type
        THEN Fails("Applied") /\ UNCHANGED sec
        ELSE /\ sec' = IF Changes(new) THEN new ELSE [sec EXCEPT !.by = new.by]
             /\ pass' = [pass EXCEPT !.pc = "status"]
  /\ UNCHANGED <<setup, cr, crSeen, sourceSide, keys, wake, edits>>

\* setCondition per stage passed, and for the stage that failed.
Order(c) == CHOOSE i \in 1..3 : Stages[i] = c
ConditionAfter(c) ==
  CASE c = pass.failed -> "False"
    [] c # pass.failed /\ c = "SourceReady" /\ Inline -> "Unknown"
    [] c # pass.failed /\ ~(c = "SourceReady" /\ Inline) ->
         IF pass.failed = "none" \/ Order(c) < Order(pass.failed)
         THEN "True" ELSE pass.view.status.conditions[c]
ConditionsAfter == [c \in Conditions |-> ConditionAfter(c)]

\* failStatus records the conditions, a success everything.
StatusAfterFault ==
  IF pass.failed # "none"
  THEN [pass.view.status EXCEPT !.conditions = ConditionsAfter,
                                !.observedGeneration = pass.view.gen]
  ELSE [conditions |-> ConditionsAfter, lastAppliedHash |-> pass.out.hash,
        lastSyncedCommit |-> IF Inline THEN 0 ELSE pass.at.rev,
        lastProcessedReconcileToken |-> pass.view.token, observedGeneration |-> pass.view.gen]
StatusAfter ==
  IF pass.failed # "none"
  THEN [pass.view.status EXCEPT !.conditions = ConditionsAfter]
  ELSE [conditions |-> ConditionsAfter, lastAppliedHash |-> pass.out.hash,
        lastSyncedCommit |-> IF Inline THEN 0 ELSE pass.at.rev,
        lastProcessedReconcileToken |-> pass.view.token, observedGeneration |-> pass.view.gen]

\* Status().Update: a conflict puts the key back, otherwise a success sets the timer
\* resyncAfter and a failure the timer retryAfter.  One that is pending when an event
\* comes first is left out: the pass that follows sets another.
UpdateStatus ==
  /\ pass.pc = "status"
  /\ pass' = Idle
  /\ IF pass.view = cr
     THEN /\ cr' = [cr EXCEPT !.status = StatusAfter]
          /\ wake' = IF wake = "never" THEN "later" ELSE wake
     ELSE wake' = "now" /\ UNCHANGED cr
  /\ UNCHANGED <<setup, crSeen, sourceSide, keys, sec, edits>>

\* The timer fires.
WakeUp ==
  /\ wake = "later"
  /\ wake' = "now"
  /\ UNCHANGED <<setup, cr, crSeen, sourceSide, keys, sec, pass, edits>>

-----------------------------------------------------------------------------
(* Watches.                                                                *)

\* For: every change of the consumer, its own status included.
HandleConsumer ==
  /\ crSeen # cr
  /\ crSeen' = cr
  /\ wake' = "now"
  /\ UNCHANGED <<setup, cr, sourceSide, keys, sec, pass, edits>>

\* The field index of the consumers, one per kind of source, and the map function
\* of the source's watch.
IndexedFault(spec) ==
  ~Inline /\ spec.source.sourceRef.kind # SourceKind /\ spec.source.sourceRef.name = SourceName
Indexed(spec) ==
  ~Inline /\ spec.source.sourceRef.kind = SourceKind /\ spec.source.sourceRef.name = SourceName

\* An ObjectSource's lastSyncedAt changes with every success and wakes its consumers
\* too; such a wakeup is one of the timer's here.
HandleSource ==
  /\ srcSeen # src
  /\ srcSeen' = src
  /\ wake' = IF Indexed(crSeen.spec) THEN "now" ELSE wake
  /\ UNCHANGED <<setup, cr, crSeen, src, upstream, cache, fetched, keys, sec, pass, edits>>

-----------------------------------------------------------------------------
(* The source's controller: GitRepository or ObjectSource.                 *)

\* A new token drops the entry before the fetch.
ForceSync == src.token # 0 /\ src.token # src.status.token

\* The status of a success.
Synced == [ready |-> TRUE, at |-> cache, token |-> src.token, observedGeneration |-> src.gen]

\* A pass that finds nothing new and has nothing to report is left out.
SourceFetch ==
  LET newest == [loc |-> src.spec.url, rev |-> upstream[src.spec.url]]
  IN /\ ~Inline /\ fetched = None
     /\ cache # newest \/ src.status # Synced
     /\ cache' = newest
     /\ fetched' = src
     /\ UNCHANGED <<setup, cr, crSeen, src, srcSeen, upstream, keys, sec, pass, wake, edits>>

\* The status is not written if the source has changed since it was read.
SourceReport ==
  /\ fetched # None
  /\ fetched' = None
  /\ src' = IF fetched = src THEN [src EXCEPT !.status = Synced] ELSE src
  /\ UNCHANGED <<setup, cr, crSeen, srcSeen, upstream, cache, keys, sec, pass, wake, edits>>

Edit == edits < MaxEdits /\ edits' = edits + 1

\* Auth or fetch fails: the token is not recorded, the next pass forgets again.
SourceFails ==
  /\ Edit /\ ~Inline
  /\ fetched = None
  /\ src' = [src EXCEPT !.status.ready = FALSE]
  /\ cache' = IF ForceSync THEN None ELSE cache
  /\ UNCHANGED <<setup, cr, crSeen, srcSeen, upstream, fetched, keys, sec, pass, wake>>

-----------------------------------------------------------------------------
(* The environment.                                                        *)

Push(loc) ==
  /\ ~Inline /\ upstream[loc] < Revisions[loc]
  /\ upstream' = [upstream EXCEPT ![loc] = @ + 1]
  /\ UNCHANGED <<setup, cr, crSeen, src, srcSeen, cache, fetched, keys, sec, pass, wake, edits>>

\* A client of either version edits fields of the consumer's spec ...
EditSpec(e) ==
  /\ Edit
  /\ CanServe(setup.consumer, e.version, cr.spec)
  /\ LET new == Edited(setup.consumer, e.version, cr.spec, e.change)
     IN /\ Valid(setup.consumer, new)
        /\ new # cr.spec
        /\ cr' = [cr EXCEPT !.spec = new, !.gen = @ + 1]
  /\ UNCHANGED <<setup, crSeen, sourceSide, keys, sec, pass, wake>>

\* ... or of the source.  ObjectSources exist in one version only.
EditSource(e) ==
  /\ Edit
  /\ LET new == IF setup.source = "git"
                THEN Edited("GitRepository", e.version, src.spec, e.change)
                ELSE With(src.spec, e.change)
     IN /\ new # src.spec
        /\ src' = [src EXCEPT !.spec = new, !.gen = @ + 1]
  /\ UNCHANGED <<setup, cr, crSeen, srcSeen, upstream, cache, fetched, keys, sec, pass, wake>>

\* The reconcile-requested annotation, on the consumer and on the source.
Annotate ==
  /\ Edit
  /\ cr' = [cr EXCEPT !.token = @ + 1]
  /\ UNCHANGED <<setup, crSeen, sourceSide, keys, sec, pass, wake>>

AnnotateSource ==
  /\ Edit /\ ~Inline
  /\ src' = [src EXCEPT !.token = @ + 1]
  /\ UNCHANGED <<setup, cr, crSeen, srcSeen, upstream, cache, fetched, keys, sec, pass, wake>>

\* An age key Secret is created, rotated or deleted.  Nobody watches it.
RotateKey(ref, key) ==
  /\ Edit
  /\ key # keys[ref]
  /\ keys' = [keys EXCEPT ![ref] = key]
  /\ UNCHANGED <<setup, cr, crSeen, sourceSide, sec, pass, wake>>

\* Somebody deletes the target Secret, or empties it.  Nobody watches it either.
DeleteSecret ==
  /\ Edit
  /\ sec.exists
  /\ sec' = NoSecret
  /\ UNCHANGED <<setup, cr, crSeen, sourceSide, keys, pass, wake>>

Drift ==
  /\ Edit
  /\ sec.exists /\ sec.data # NoData
  /\ sec' = [sec EXCEPT !.data = NoData, !.by = None]
  /\ UNCHANGED <<setup, cr, crSeen, sourceSide, keys, pass, wake>>

\* The registry is empty, the statuses are as they were; every object is listed.
Restart ==
  /\ Edit
  /\ crSeen' = cr
  /\ srcSeen' = src
  /\ cache' = None
  /\ fetched' = None
  /\ pass' = Idle
  /\ wake' = "now"
  /\ UNCHANGED <<setup, cr, src, upstream, keys, sec>>

-----------------------------------------------------------------------------

Init ==
  /\ setup \in Setups
  /\ cr = [spec |-> IF Inline THEN FirstSpec[setup.consumer]
                    ELSE [FirstSpec[setup.consumer] EXCEPT !.source.sourceRef.kind = SourceKind],
           gen |-> 1, token |-> 0, status |-> NewStatus]
  /\ crSeen = cr
  /\ src = NewSource(FirstSource[SourceKind])
  /\ srcSeen = src
  /\ upstream = [loc \in Locations |-> 1]
  /\ cache = None
  /\ fetched = None
  /\ keys = FirstKeys
  /\ sec = NoSecret
  /\ pass = Idle
  /\ wake = "now"
  /\ edits = 0

Step == Start \/ FetchSource \/ Apply \/ UpdateStatus

User ==
  \/ \E e \in SpecEdits[setup.consumer] : EditSpec(e)
  \/ ~Inline /\ \E e \in SourceEdits[SourceKind] : EditSource(e)
  \/ Annotate \/ AnnotateSource
  \/ \E ref \in KeySecrets, key \in AgeKeys \cup {None} : RotateKey(ref, key)
  \/ DeleteSecret \/ Drift

Next ==
  \/ Step \/ Decrypt \/ WakeUp \/ HandleConsumer \/ HandleSource
  \/ SourceFetch \/ SourceReport \/ SourceFails
  \/ \E loc \in Locations : Push(loc)
  \/ User \/ Restart

Spec == Init /\ [][Next]_vars

\* Workers run, watch events arrive, timers fire, and the source's own requeue
\* comes back after its interval.  That decryption ends is stated without ENABLED,
\* which would have TLC transform a document for every transition.
Fairness ==
  /\ WF_vars(Step) /\ []<>(pass.pc # "decrypt") /\ WF_vars(WakeUp)
  /\ WF_vars(HandleConsumer) /\ WF_vars(HandleSource)
  /\ WF_vars(SourceFetch \/ SourceReport)

FairSpec == Spec /\ Fairness

-----------------------------------------------------------------------------
(* Properties.                                                             *)

\* Type correctness.
TypeOK ==
  /\ setup \in Setups
  /\ IsSpec(setup.consumer, Storage(setup.consumer), cr.spec)
  /\ \A o \in {cr, crSeen} :
       /\ o.gen \in 1..(MaxEdits + 1) /\ o.token \in 0..MaxEdits
       /\ o.status.conditions \in [Conditions -> {"Unknown", "True", "False"}]
       /\ o.status.observedGeneration \in 0..o.gen
       /\ o.status.lastProcessedReconcileToken \in 0..o.token
       /\ o.status.lastSyncedCommit \in Nat
  /\ \A o \in {src, srcSeen} :
       /\ o.gen \in 1..(MaxEdits + 1) /\ o.token \in 0..MaxEdits
       /\ o.spec.url \in Locations
       /\ o.status.ready \in BOOLEAN /\ o.status.observedGeneration \in 0..o.gen
       /\ o.status.ready => o.status.at.loc \in Locations
  /\ \A loc \in Locations : upstream[loc] \in 1..Revisions[loc]
  /\ cache # None => cache.rev \in 1..upstream[cache.loc]
  /\ keys \in [KeySecrets -> AgeKeys \cup {None}]
  /\ sec.exists \in BOOLEAN /\ (sec.exists => sec.type # << >>)
  /\ pass.pc \in PCs \cup {"idle"} /\ pass.failed \in Conditions \cup {"none"}
  /\ wake \in {"now", "later", "never"}
  /\ edits \in 0..MaxEdits

\* The value a document gives to a key, as its author wrote it.
Written(node) == IF node.tag \in {"bool", "int"} THEN <<ToString(node.val)>> ELSE node.text

\* README: a Secret has exactly the keys of spec.data, or of the manifest's data
\* and stringData, with stringData first.
Field(plain, f) == Entries(Lookup(plain.entries, f, Null))
Reference(spec, plain) ==
  IF ByMapping(spec)
  THEN [k \in {spec.data[i].key : i \in DOMAIN spec.data} |->
          LET last == Max({i \in DOMAIN spec.data : spec.data[i].key = k})
          IN Written(plain.entries[spec.data[last].from])]
  ELSE [k \in DOMAIN Field(plain, "data") \cup DOMAIN Field(plain, "stringData") |->
          IF k \in DOMAIN Field(plain, "stringData") THEN TextOf(Field(plain, "stringData")[k])
          ELSE Decoded(TextOf(Field(plain, "data")[k]))]

\* What a Secret holds, once a pass has got through and nobody has touched the
\* Secret since, is what one revision of one file and one spec say -- never the
\* keys of an earlier mapping or document, also when two documents have the same
\* content hash -- and the source-commit annotation names that revision.
DataFromOneDocument ==
  sec.by # None =>
    /\ sec.data = Reference(sec.by.spec, Document(sec.by.spec, sec.by.at).plain)
    /\ ~Inline => sec.commit = sec.by.at.rev

\* ObservedGeneration is what tells a current Applied=True from the one that
\* failStatus (sopssecret_controller.go:290) leaves behind: at the current
\* generation the Secret, if nobody has touched it, was applied for this spec.
ObservedMeansApplied ==
  cr.status.observedGeneration = cr.gen /\ sec.by # None => sec.by.spec = cr.spec

\* Nothing is on its way to the consumer but its resync.
Quiet == pass = Idle /\ wake # "now" /\ crSeen = cr /\ srcSeen = src

\* The watch of the sources (sopssecret_controller.go:379-400): a consumer that
\* has come to rest after a success does not lag behind what its source reports;
\* it does not need the resync to get there.  What it reports for an earlier
\* generation is of a URL that may not be the one in the spec.  A bucket reports
\* no revision: its consumers wait for the resync.
SourceEventReachesSecret ==
  LET reported == src.status.at
  IN Quiet /\ ~Inline /\ setup.source # "bucket" /\ src.status.ready /\ sec.by # None
       /\ cr.status.conditions = [c \in Conditions |-> "True"]
     => /\ sec.by.at.loc = reported.loc => sec.by.at.rev >= reported.rev
        /\ src.status.observedGeneration = src.gen => sec.by.at.loc = reported.loc

\* The conversion loses nothing, as sopssecret_types.go:21-23 says: whatever the version
\* a client writes, the fields that it does not set are stored as they were.
Keeps(old, new, e) ==
  DOMAIN new = DOMAIN old /\ \A f \in DOMAIN old \ DOMAIN e.change : new[f] = old[f]
EditKeepsTheRest ==
  [][/\ cr'.spec # cr.spec => \E e \in SpecEdits[setup.consumer] : Keeps(cr.spec, cr'.spec, e)
     /\ src'.spec # src.spec => \E e \in SourceEdits[SourceKind] : Keeps(src.spec, src'.spec, e)
    ]_vars

\* What the Secret should hold now, if the pipeline can get through at all.
Healthy ==
  LET spec == cr.spec
      at == [loc |-> src.spec.url, rev |-> upstream[src.spec.url]]
      key == AgeKey(spec.decryption)
  IN /\ ~Inline => /\ spec.source.sourceRef = [kind |-> SourceKind, name |-> SourceName]
                   /\ spec.source.path \in DOMAIN FileAt(at)
     /\ key.ok
     /\ LET plain == Decrypted(Document(spec, at), key.value)
            out == IF plain.ok THEN Produced(spec, plain.value) ELSE Failed
        IN out.ok /\ (sec.exists => TypeFor(out.value) = sec.type)
UpToDate ==
  /\ sec.exists
  /\ sec.data = Reference(cr.spec,
                  Document(cr.spec, [loc |-> src.spec.url, rev |-> upstream[src.spec.url]]).plain)
  /\ cr.status.observedGeneration = cr.gen
  /\ cr.status.lastProcessedReconcileToken = cr.token

\* As long as source, key and document stay good, the Secret comes to hold the
\* newest revision at the source's present URL and the status says so: after
\* failures, force-syncs that forget the cache again and again, edits of the
\* source that leave it ready for the old URL, drift, deletion and restarts with
\* an empty registry.  Nothing but timers gets a consumer there in some cases.
SecretConverges == <>[]Healthy => <>[](Healthy /\ UpToDate)
=================================================================================
