---------------------------- MODULE ConversionProof ----------------------------
(***************************************************************************)
(* The conversion webhook loses nothing, for every spec of every kind: the *)
(* two round trips, and what an edit through either version leaves alone.  *)
(* Both directions copy the parts they share, so a converted spec is the   *)
(* same spec except for the source of the two kinds that renamed it.       *)
(***************************************************************************)
EXTENDS Conversion, TLAPS

LEMMA DecryptionCopied == ASSUME NEW d \in Decryptions PROVE Decryption(d) = d
BY DEF Decryptions, Decryption

LEMMA DataMappingsCopied ==
  ASSUME NEW ms \in DataLists \cup {Nil} PROVE DataMappings(ms) = ms
<1>1. CASE ms = Nil
  BY <1>1 DEF DataMappings
<1>2. CASE ms # Nil
  <2> DEFINE Items == [key : STRING, from : STRING]
  <2>1. ms \in [1..Len(ms) -> Items]
    <3>1. ms \in Seq(Items)
      BY <1>2 DEF DataLists
    <3> HIDE DEF Items
    <3> QED
      BY <3>1
  <2>2. \A i \in DOMAIN ms : ms[i] = [key |-> ms[i].key, from |-> ms[i].from]
    BY <2>1
  <2> QED
    BY <1>2, <2>1, <2>2 DEF DataMappings
<1> QED
  BY <1>1, <1>2

LEMMA TargetsCopied ==
  /\ \A t \in MappingTargets : MappingTarget(t) = t
  /\ \A t \in ManifestTargets : ManifestTarget(t) = t
BY DEF MappingTargets, ManifestTargets, MappingTarget, ManifestTarget

LEMMA AuthCopied == ASSUME NEW a \in Auths PROVE Auth(a) = a
<1>1. CASE a = Nil
  BY <1>1 DEF Auth
<1>2. CASE a # Nil
  <2>1. /\ a = [type |-> a.type, secretRef |-> a.secretRef]
        /\ a.secretRef \in [name : STRING, namespace : STRING] \cup {Nil}
    BY <1>2 DEF Auths
  <2>2. CASE a.secretRef = Nil
    BY <1>2, <2>1, <2>2 DEF Auth
  <2>3. CASE a.secretRef # Nil
    <3>1. a.secretRef = [name |-> a.secretRef.name, namespace |-> a.secretRef.namespace]
      BY <2>1, <2>3
    <3> QED
      BY <1>2, <2>1, <2>3, <3>1 DEF Auth
  <2> QED
    BY <2>2, <2>3
<1> QED
  BY <1>1, <1>2

\* v1alpha1 knows GitRepositories only.
LEMMA SourceThere ==
  ASSUME NEW s \in SourceRefs("v1alpha1")
  PROVE  SourceTo(s) \in SourceRefs("v1alpha2") /\ SourceFrom(SourceTo(s)) = s
BY DEF SourceRefs, SourceTo, SourceFrom

LEMMA SourceBack ==
  ASSUME NEW s \in SourceRefs("v1alpha2")
  PROVE  /\ SourceFrom(s) \in SourceRefs("v1alpha1")
         /\ s.sourceRef.kind = "GitRepository" => SourceTo(SourceFrom(s)) = s
BY DEF SourceRefs, SourceTo, SourceFrom

-----------------------------------------------------------------------------

\* The kinds without a source, and the others field by field.
LEMMA Unchanged ==
  ASSUME NEW kind \in {"GitRepository", "InlineSopsSecret"}, NEW version, NEW s,
         IsSpec(kind, version, s)
  PROVE  /\ ConvertTo(kind, s) = s /\ ConvertFrom(kind, s) = s
         /\ \A v : IsSpec(kind, v, s)
<1>1. CASE kind = "GitRepository"
  <2>1. /\ s = [url |-> s.url, branch |-> s.branch, revision |-> s.revision,
                interval |-> s.interval, auth |-> s.auth]
        /\ s.auth \in Auths
    BY <1>1 DEF IsSpec, FieldsOf
  <2>2. GitRepositorySpec(s) = s
    BY <2>1, AuthCopied DEF GitRepositorySpec
  <2> QED
    BY <1>1, <2>2 DEF ConvertTo, ConvertFrom, IsSpec, FieldsOf
<1>2. CASE kind = "InlineSopsSecret"
  <2>1. /\ s = [mode |-> s.mode, encryptedYAML |-> s.encryptedYAML,
                decryption |-> s.decryption, target |-> s.target, data |-> s.data]
        /\ s.decryption \in Decryptions
        /\ s.target \in MappingTargets
        /\ s.data \in DataLists \cup {Nil}
    BY <1>2 DEF IsSpec, FieldsOf
  <2>2. InlineSopsSecretSpec(s) = s
    BY <2>1, DecryptionCopied, TargetsCopied, DataMappingsCopied DEF InlineSopsSecretSpec
  <2> QED
    BY <1>2, <2>2 DEF ConvertTo, ConvertFrom, IsSpec, FieldsOf
<1> QED
  BY <1>1, <1>2

\* A spec with a source, and the parts of it.
LEMMA SopsSecretParts ==
  ASSUME NEW version, NEW s, IsSpec("SopsSecret", version, s)
  PROVE  /\ s.source \in SourceRefs(version)
         /\ DOMAIN s = {"source", "decryption", "target", "data"}
         /\ s = [source |-> s.source, decryption |-> s.decryption,
                 target |-> s.target, data |-> s.data]
         /\ \A source : SopsSecretSpec(source, s) =
              [source |-> source, decryption |-> s.decryption,
               target |-> s.target, data |-> s.data]
<1>1. /\ s = [source |-> s.source, decryption |-> s.decryption,
              target |-> s.target, data |-> s.data]
      /\ s.source \in SourceRefs(version)
      /\ s.decryption \in Decryptions
      /\ s.target \in MappingTargets
      /\ s.data \in DataLists \cup {Nil}
  BY DEF IsSpec, FieldsOf
<1> QED
  BY <1>1, DecryptionCopied, TargetsCopied, DataMappingsCopied DEF SopsSecretSpec

LEMMA SopsSecretManifestParts ==
  ASSUME NEW version, NEW s, IsSpec("SopsSecretManifest", version, s)
  PROVE  /\ s.source \in SourceRefs(version)
         /\ DOMAIN s = {"source", "decryption", "target"}
         /\ s = [source |-> s.source, decryption |-> s.decryption, target |-> s.target]
         /\ \A source : SopsSecretManifestSpec(source, s) =
              [source |-> source, decryption |-> s.decryption, target |-> s.target]
<1>1. /\ s = [source |-> s.source, decryption |-> s.decryption, target |-> s.target]
      /\ s.source \in SourceRefs(version)
      /\ s.decryption \in Decryptions
      /\ s.target \in ManifestTargets
  BY DEF IsSpec, FieldsOf
<1> QED
  BY <1>1, DecryptionCopied, TargetsCopied DEF SopsSecretManifestSpec

\* The kinds with a source: the conversion replaces it and nothing else.
LEMMA Sourced ==
  ASSUME NEW kind \in {"SopsSecret", "SopsSecretManifest"}, NEW s
  PROVE  /\ IsSpec(kind, "v1alpha1", s) =>
              /\ IsSpec(kind, "v1alpha2", ConvertTo(kind, s))
              /\ ConvertTo(kind, s) = [s EXCEPT !.source = SourceTo(s.source)]
         /\ IsSpec(kind, "v1alpha2", s) =>
              /\ IsSpec(kind, "v1alpha1", ConvertFrom(kind, s))
              /\ ConvertFrom(kind, s) = [s EXCEPT !.source = SourceFrom(s.source)]
<1>1. CASE kind = "SopsSecret"
  <2>1. ASSUME IsSpec(kind, "v1alpha1", s)
        PROVE  /\ IsSpec(kind, "v1alpha2", ConvertTo(kind, s))
               /\ ConvertTo(kind, s) = [s EXCEPT !.source = SourceTo(s.source)]
    BY <1>1, <2>1, SopsSecretParts, SourceThere DEF ConvertTo, IsSpec, FieldsOf
  <2>2. ASSUME IsSpec(kind, "v1alpha2", s)
        PROVE  /\ IsSpec(kind, "v1alpha1", ConvertFrom(kind, s))
               /\ ConvertFrom(kind, s) = [s EXCEPT !.source = SourceFrom(s.source)]
    BY <1>1, <2>2, SopsSecretParts, SourceBack DEF ConvertFrom, IsSpec, FieldsOf
  <2> QED
    BY <2>1, <2>2
<1>2. CASE kind = "SopsSecretManifest"
  <2>1. ASSUME IsSpec(kind, "v1alpha1", s)
        PROVE  /\ IsSpec(kind, "v1alpha2", ConvertTo(kind, s))
               /\ ConvertTo(kind, s) = [s EXCEPT !.source = SourceTo(s.source)]
    BY <1>2, <2>1, SopsSecretManifestParts, SourceThere DEF ConvertTo, IsSpec, FieldsOf
  <2>2. ASSUME IsSpec(kind, "v1alpha2", s)
        PROVE  /\ IsSpec(kind, "v1alpha1", ConvertFrom(kind, s))
               /\ ConvertFrom(kind, s) = [s EXCEPT !.source = SourceFrom(s.source)]
    BY <1>2, <2>2, SopsSecretManifestParts, SourceBack DEF ConvertFrom, IsSpec, FieldsOf
  <2> QED
    BY <2>1, <2>2
<1> QED
  BY <1>1, <1>2

\* What ConvertTo (api/v1alpha1/*_conversion.go) makes of a v1alpha1 object is
\* converted back to the same object.
THEOREM SpokeRoundTrip ==
  ASSUME NEW kind \in Kinds, NEW s, IsSpec(kind, "v1alpha1", s)
  PROVE  ConvertFrom(kind, ConvertTo(kind, s)) = s
<1>1. CASE kind \in {"GitRepository", "InlineSopsSecret"}
  BY <1>1, Unchanged
<1>2. CASE kind \in {"SopsSecret", "SopsSecretManifest"}
  <2> DEFINE t == ConvertTo(kind, s)
  <2>1. /\ t = [s EXCEPT !.source = SourceTo(s.source)]
        /\ ConvertFrom(kind, t) = [t EXCEPT !.source = SourceFrom(t.source)]
    BY <1>2, Sourced
  <2>2. SourceFrom(SourceTo(s.source)) = s.source
    BY <1>2, SopsSecretParts, SopsSecretManifestParts, SourceThere
  <2>3. "source" \in DOMAIN s /\ s = [f \in DOMAIN s |-> s[f]]
    BY <1>2 DEF IsSpec, FieldsOf
  <2> QED
    BY <2>1, <2>2, <2>3
<1> QED
  BY <1>1, <1>2 DEF Kinds

\* A hub object whose source is a GitRepository survives ConvertFrom and ConvertTo;
\* one with another source is refused, so a v1alpha1 client never gets to write it.
THEOREM HubRoundTrip ==
  ASSUME NEW kind \in Kinds, NEW s, IsSpec(kind, "v1alpha2", s), Representable(kind, s)
  PROVE  ConvertTo(kind, ConvertFrom(kind, s)) = s
<1>1. CASE kind \in {"GitRepository", "InlineSopsSecret"}
  BY <1>1, Unchanged
<1>2. CASE kind \in {"SopsSecret", "SopsSecretManifest"}
  <2> DEFINE t == ConvertFrom(kind, s)
  <2>1. /\ t = [s EXCEPT !.source = SourceFrom(s.source)]
        /\ ConvertTo(kind, t) = [t EXCEPT !.source = SourceTo(t.source)]
    BY <1>2, Sourced
  <2>2. s.source \in SourceRefs("v1alpha2")
    BY <1>2, SopsSecretParts, SopsSecretManifestParts
  <2>3. s.source.sourceRef.kind = "GitRepository"
    BY <1>2, <2>2 DEF Representable, SourceRefs
  <2>4. "source" \in DOMAIN s /\ s = [f \in DOMAIN s |-> s[f]]
    BY <1>2 DEF IsSpec, FieldsOf
  <2>5. SourceTo(SourceFrom(s.source)) = s.source
    BY <2>2, <2>3, SourceBack
  <2> QED
    BY <2>1, <2>4, <2>5
<1> QED
  BY <1>1, <1>2 DEF Kinds

-----------------------------------------------------------------------------
(* Edits.                                                                  *)

LEMMA WithKeeps ==
  ASSUME NEW s, NEW change
  PROVE  /\ DOMAIN With(s, change) = DOMAIN s
         /\ \A f \in DOMAIN s \ DOMAIN change : With(s, change)[f] = s[f]
BY DEF With

LEMMA WithIsSpec ==
  ASSUME NEW kind, NEW version, NEW s, NEW change, IsSpec(kind, version, s),
         Settable(kind, version, change)
  PROVE  IsSpec(kind, version, With(s, change))
BY DEF IsSpec, With, Settable

\* An accepted write through either version stores a spec, and stores every field
\* that it does not set as it was.
THEOREM EditedKeeps ==
  ASSUME NEW kind \in Kinds, NEW version \in Versions, NEW s, NEW change,
         IsSpec(kind, Storage(kind), s), CanServe(kind, version, s),
         Settable(kind, version, change)
  PROVE  LET new == Edited(kind, version, s, change)
         IN /\ IsSpec(kind, Storage(kind), new)
            /\ DOMAIN new = DOMAIN s
            /\ \A f \in DOMAIN s \ DOMAIN change : new[f] = s[f]
<1>1. CASE version = Storage(kind)
  <2>1. Edited(kind, version, s, change) = With(s, change)
    BY <1>1 DEF Edited, Served, Stored
  <2> QED
    BY <1>1, <2>1, WithIsSpec, WithKeeps
<1>2. CASE version # Storage(kind) /\ kind \in {"GitRepository", "InlineSopsSecret"}
  <2>0. IsSpec(kind, version, s)
    BY <1>2, Unchanged
  <2>1. Served(kind, version, s) = s
    BY <1>2, <2>0, Unchanged DEF Served, Storage, Versions
  <2>2. IsSpec(kind, version, With(s, change))
    BY <2>0, WithIsSpec
  <2>3. /\ Edited(kind, version, s, change) = With(s, change)
        /\ IsSpec(kind, Storage(kind), With(s, change))
    BY <1>2, <2>1, <2>2, Unchanged DEF Edited, Stored, Storage, Versions
  <2> QED
    BY <2>3, WithKeeps
<1>3. CASE version # Storage(kind) /\ kind \in {"SopsSecret", "SopsSecretManifest"}
  <2> DEFINE served == ConvertFrom(kind, s)
             written == With(served, change)
             new == ConvertTo(kind, written)
  <2>1. version = "v1alpha1" /\ Storage(kind) = "v1alpha2"
    BY <1>3 DEF Storage, Versions
  <2>2. Edited(kind, version, s, change) = new
    BY <2>1 DEF Edited, Served, Stored
  <2>3. /\ IsSpec(kind, "v1alpha1", served)
        /\ served = [s EXCEPT !.source = SourceFrom(s.source)]
    BY <1>3, <2>1, Sourced
  <2>4. /\ IsSpec(kind, "v1alpha1", written)
        /\ DOMAIN written = DOMAIN served
        /\ \A f \in DOMAIN served \ DOMAIN change : written[f] = served[f]
    BY <2>1, <2>3, WithIsSpec, WithKeeps
  <2>5. /\ IsSpec(kind, "v1alpha2", new)
        /\ new = [written EXCEPT !.source = SourceTo(written.source)]
    BY <1>3, <2>4, Sourced
  <2>6. /\ s.source \in SourceRefs("v1alpha2")
        /\ "source" \in DOMAIN s
    BY <1>3, <2>1, SopsSecretParts, SopsSecretManifestParts
  <2>7. SourceTo(SourceFrom(s.source)) = s.source
    <3>1. s.source.sourceRef.kind = "GitRepository"
      BY <1>3, <2>1, <2>6 DEF CanServe, Representable, SourceRefs
    <3> QED
      BY <2>6, <3>1, SourceBack
  <2> HIDE DEF served, written, new
  <2>8. DOMAIN new = DOMAIN s
    BY <2>3, <2>4, <2>5
  <2>9. \A f \in DOMAIN s \ DOMAIN change : new[f] = s[f]
    BY <2>3, <2>4, <2>5, <2>6, <2>7
  <2> QED
    BY <2>1, <2>2, <2>5, <2>8, <2>9
<1> QED
  BY <1>1, <1>2, <1>3 DEF Kinds
================================================================================
