------------------------------- MODULE Conversion -------------------------------
(***************************************************************************)
(* The conversion webhook: api/v1alpha1/*_conversion.go.  v1alpha2 is the  *)
(* hub.  The API server stores one version of each kind, asks the webhook  *)
(* for the other one, and again for the stored one when a client writes    *)
(* the version it reads.                                                   *)
(*                                                                         *)
(* Specs are records with the API's field names; metadata and the fields   *)
(* of the status are copied as they are, both ways, and left out.          *)
(***************************************************************************)
EXTENDS Naturals, Sequences

CONSTANT Nil    \* a nil pointer or slice

Kinds == {"GitRepository", "SopsSecret", "SopsSecretManifest", "InlineSopsSecret"}
Versions == {"v1alpha1", "v1alpha2"}

\* +kubebuilder:storageversion
Storage(kind) ==
  IF kind \in {"SopsSecret", "SopsSecretManifest"} THEN "v1alpha2" ELSE "v1alpha1"

-----------------------------------------------------------------------------
(* What a spec looks like: *_types.go of both packages.  The names and the *)
(* type of a Secret are Transform's texts, << >> being the empty string.   *)

SourceRefs(version) ==
  IF version = "v1alpha1" THEN [repositoryRef : [name : STRING], path : STRING]
  ELSE [sourceRef : [kind : {"GitRepository", "ObjectSource"}, name : STRING], path : STRING]

Decryptions == [keyRef : [name : STRING, key : STRING, namespace : STRING]] \cup {Nil}
Auths ==
  [type : STRING, secretRef : [name : STRING, namespace : STRING] \cup {Nil}] \cup {Nil}
MappingTargets ==
  [name : Seq(STRING), namespace : STRING, type : Seq(STRING), adopt : BOOLEAN]
ManifestTargets == [namespace : STRING, nameOverride : Seq(STRING), adopt : BOOLEAN]
DataLists == Seq([key : STRING, from : STRING])

\* A nil slice is none of them.
ASSUME ConversionAssumption == Nil \notin DataLists

\* The fields of a spec, and what each may hold.
FieldsOf(kind, version) ==
  CASE kind = "GitRepository" ->
         [url |-> STRING, branch |-> STRING, revision |-> STRING, interval |-> Nat, auth |-> Auths]
    [] kind = "SopsSecret" ->
         [source |-> SourceRefs(version), decryption |-> Decryptions,
          target |-> MappingTargets, data |-> DataLists]
    [] kind = "SopsSecretManifest" ->
         [source |-> SourceRefs(version), decryption |-> Decryptions, target |-> ManifestTargets]
    [] kind = "InlineSopsSecret" ->
         [mode |-> {"Mapping", "Manifest"}, encryptedYAML |-> STRING,
          decryption |-> Decryptions, target |-> MappingTargets, data |-> DataLists \cup {Nil}]

IsSpec(kind, version, s) ==
  LET fields == FieldsOf(kind, version)
  IN /\ s = [f \in DOMAIN fields |-> s[f]]
     /\ \A f \in DOMAIN fields : s[f] \in fields[f]

\* What a client of a version may set fields of a spec to.
Settable(kind, version, change) ==
  LET fields == FieldsOf(kind, version)
  IN \A f \in DOMAIN change : f \in DOMAIN fields /\ change[f] \in fields[f]

\* The validation rules on data: MinItems, and the mode of an inline spec.
Valid(kind, s) ==
  /\ kind = "SopsSecret" => s.data # << >>
  /\ kind = "InlineSopsSecret" => (s.mode = "Mapping" <=> s.data \notin {Nil, << >>})

-----------------------------------------------------------------------------
(* Parts that both directions share, field by field.                       *)

DecryptionFault(d) ==
  IF d = Nil THEN Nil ELSE [keyRef |-> [name |-> d.keyRef.name, key |-> d.keyRef.key, namespace |-> ""]]
Decryption(d) ==
  IF d = Nil THEN Nil
  ELSE [keyRef |-> [name |-> d.keyRef.name, key |-> d.keyRef.key, namespace |-> d.keyRef.namespace]]

DataMappings(ms) ==
  IF ms = Nil THEN Nil ELSE [i \in DOMAIN ms |-> [key |-> ms[i].key, from |-> ms[i].from]]

MappingTarget(t) == [name |-> t.name, namespace |-> t.namespace, type |-> t.type, adopt |-> t.adopt]
ManifestTarget(t) == [namespace |-> t.namespace, nameOverride |-> t.nameOverride, adopt |-> t.adopt]

Auth(a) ==
  IF a = Nil THEN Nil
  ELSE [type |-> a.type,
        secretRef |-> IF a.secretRef = Nil THEN Nil
                      ELSE [name |-> a.secretRef.name, namespace |-> a.secretRef.namespace]]

SourceTo(s) == [sourceRef |-> [kind |-> "GitRepository", name |-> s.repositoryRef.name], path |-> s.path]
SourceFrom(s) == [repositoryRef |-> [name |-> s.sourceRef.name], path |-> s.path]

-----------------------------------------------------------------------------
(* The kinds.                                                              *)

GitRepositorySpec(s) ==
  [url |-> s.url, branch |-> s.branch, revision |-> s.revision, interval |-> s.interval,
   auth |-> Auth(s.auth)]

\* source is the source field of s, converted.
SopsSecretSpec(source, s) ==
  [source |-> source, decryption |-> Decryption(s.decryption),
   target |-> MappingTarget(s.target), data |-> DataMappings(s.data)]

SopsSecretManifestSpec(source, s) ==
  [source |-> source, decryption |-> Decryption(s.decryption),
   target |-> ManifestTarget(s.target)]

InlineSopsSecretSpec(s) ==
  [mode |-> s.mode, encryptedYAML |-> s.encryptedYAML, decryption |-> Decryption(s.decryption),
   target |-> MappingTarget(s.target), data |-> DataMappings(s.data)]

\* ConvertTo: v1alpha1 to v1alpha2.
ConvertTo(kind, s) ==
  CASE kind = "GitRepository" -> GitRepositorySpec(s)
    [] kind = "SopsSecret" -> SopsSecretSpec(SourceTo(s.source), s)
    [] kind = "SopsSecretManifest" -> SopsSecretManifestSpec(SourceTo(s.source), s)
    [] kind = "InlineSopsSecret" -> InlineSopsSecretSpec(s)

\* ConvertFrom: v1alpha2 to v1alpha1 ...
ConvertFrom(kind, s) ==
  CASE kind = "GitRepository" -> GitRepositorySpec(s)
    [] kind = "SopsSecret" -> SopsSecretSpec(SourceFrom(s.source), s)
    [] kind = "SopsSecretManifest" -> SopsSecretManifestSpec(SourceFrom(s.source), s)
    [] kind = "InlineSopsSecret" -> InlineSopsSecretSpec(s)

\* ... and where it returns an error instead.
Representable(kind, s) ==
  kind \in {"SopsSecret", "SopsSecretManifest"} =>
    s.source.sourceRef.kind \in {"", "GitRepository"}

-----------------------------------------------------------------------------
(* The API server.                                                         *)

\* What a client of a version reads, and what its write stores.
Served(kind, version, s) ==
  CASE version = Storage(kind) -> s
    [] version # Storage(kind) /\ version = "v1alpha1" -> ConvertFrom(kind, s)
    [] version # Storage(kind) /\ version = "v1alpha2" -> ConvertTo(kind, s)
Stored(kind, version, s) ==
  CASE version = Storage(kind) -> s
    [] version # Storage(kind) /\ version = "v1alpha1" -> ConvertTo(kind, s)
    [] version # Storage(kind) /\ version = "v1alpha2" -> ConvertFrom(kind, s)

CanServe(kind, version, s) ==
  version = "v1alpha1" /\ Storage(kind) = "v1alpha2" => Representable(kind, s)

\* A client of a version reads a spec, sets some fields and writes it back.
With(s, change) == [f \in DOMAIN s |-> IF f \in DOMAIN change THEN change[f] ELSE s[f]]
Edited(kind, version, s, change) == Stored(kind, version, With(Served(kind, version, s), change))
=================================================================================
