------------------------------- MODULE Transform -------------------------------
(***************************************************************************)
(* internal/transform: from a decrypted document to the data of a Secret.  *)
(*                                                                         *)
(* A YAML node is [tag, ...]: "str" and "frac" have a text, "bool" and     *)
(* "int" a val, "map" entries (a function from keys to nodes); "null" and  *)
(* "list" have nothing of interest.  A text is a sequence of atoms, among  *)
(* them NUL, so that the bytes a hash separates its parts with may occur   *)
(* in a value.  Base64 text is <<"b64">> followed by what it decodes to.   *)
(***************************************************************************)
EXTENDS Integers, Sequences, SequencesExt

CONSTANTS
  NUL,        \* the byte 0
  MaxExact    \* 2^53: the integers up to it are float64 values of their own

ASSUME TransformAssumption == MaxExact \in Nat

\* (value, nil) and (nil, err).
Ok(value) == [ok |-> TRUE, value |-> value]
Failed == [ok |-> FALSE]

Null == [tag |-> "null"]
NoData == << >>

\* map[string]any of a document that is a mapping, or empty.
IsMapping(node) == node.tag \in {"map", "null"}
Entries(node) == IF node.tag = "map" THEN node.entries ELSE NoData
Lookup(f, key, default) == IF key \in DOMAIN f THEN f[key] ELSE default

-----------------------------------------------------------------------------
(* Flat documents: flat.go.                                                *)

\* Numbers arrive as float64: above 2^53 an odd integer is rounded to the even
\* neighbour whose half is even.
Float64(n) ==
  IF n <= MaxExact \/ n % 2 = 0 THEN n
  ELSE IF (n - 1) % 4 = 0 THEN n - 1 ELSE n + 1

ScalarToString(node) ==
  CASE node.tag \in {"str", "frac"} -> Ok(node.text)
    [] node.tag = "bool" -> Ok(<<ToString(node.val)>>)
    [] node.tag = "int" -> Ok(<<ToString(Float64(node.val))>>)
    [] OTHER -> Failed

\* One value that is no scalar fails the document.
ParseFlatYAML(doc) ==
  LET raw == Entries(doc)
  IN IF IsMapping(doc) /\ \A k \in DOMAIN raw : ScalarToString(raw[k]).ok
     THEN Ok([k \in DOMAIN raw |-> ScalarToString(raw[k]).value])
     ELSE Failed

\* Later entries of spec.data overwrite earlier ones with the same key; one
\* source key that is missing fails the mapping.
Put(out, key, value) == [k \in DOMAIN out \cup {key} |-> IF k = key THEN value ELSE out[k]]
Mapped(source, mappings) ==
  LET out[n \in 0..Len(mappings)] ==
        IF n = 0 THEN NoData ELSE Put(out[n - 1], mappings[n].key, source[mappings[n].from])
  IN out[Len(mappings)]
ApplyMapping(source, mappings) ==
  IF \A i \in DOMAIN mappings : mappings[i].from \in DOMAIN source
  THEN Ok(Mapped(source, mappings)) ELSE Failed

-----------------------------------------------------------------------------
(* Content hashes.  SHA-256 stands for what it is given: the keys in one   *)
(* order, each followed by NUL, its value and NUL.                         *)

HashSecretData(data) ==
  FoldLeft(LAMBDA h, k : h \o <<k, NUL>> \o data[k] \o <<NUL>>, << >>, SetToSeq(DOMAIN data))

HashManifestSecret(sec) == <<"type=", sec.type, NUL>> \o HashSecretData(sec.data)

-----------------------------------------------------------------------------
(* Manifests: manifest.go.                                                 *)

AllowedTopLevel == {"apiVersion", "kind", "metadata", "type", "data", "stringData"}
AllowedMetadata == {"name", "namespace", "labels", "annotations"}

IsString(node, text) == node.tag = "str" /\ node.text = text
TextOf(node) == IF node.tag = "str" THEN node.text ELSE << >>
IsBase64(node) ==
  node.tag \in {"str", "null"} /\ (TextOf(node) = << >> \/ Head(TextOf(node)) = "b64")
Decoded(text) == IF text = << >> THEN << >> ELSE Tail(text)

\* yaml.Unmarshal into a corev1.Secret: what the fields must look like.
Decodable(raw) ==
  LET StringOrNull(node) == node.tag \in {"str", "null"}
      data == Lookup(raw, "data", Null)
      strings == Lookup(raw, "stringData", Null)
      meta == Lookup(raw, "metadata", Null)
  IN /\ IsMapping(data) /\ \A k \in DOMAIN Entries(data) : IsBase64(Entries(data)[k])
     /\ IsMapping(strings) /\ \A k \in DOMAIN Entries(strings) : StringOrNull(Entries(strings)[k])
     /\ IsMapping(meta) /\ StringOrNull(Lookup(Entries(meta), "name", Null))
     /\ StringOrNull(Lookup(raw, "type", Null))

\* A field that is a mapping to texts.
Texts(raw, field) ==
  LET m == Entries(Lookup(raw, field, Null)) IN [k \in DOMAIN m |-> TextOf(m[k])]

\* The Secret of a document; name and type are << >> when they are not given.
ParseManifest(doc) ==
  LET raw == Entries(doc)
      meta == Entries(Lookup(raw, "metadata", Null))
      bytes == Texts(raw, "data")
  IN IF /\ IsMapping(doc)
        /\ DOMAIN raw \subseteq AllowedTopLevel
        /\ IsString(Lookup(raw, "apiVersion", Null), <<"v1">>)
        /\ IsString(Lookup(raw, "kind", Null), <<"Secret">>)
        /\ DOMAIN meta \subseteq AllowedMetadata
        /\ Decodable(raw)
     THEN Ok([name |-> TextOf(Lookup(meta, "name", Null)),
              type |-> TextOf(Lookup(raw, "type", Null)),
              data |-> [k \in DOMAIN bytes |-> Decoded(bytes[k])],
              stringData |-> Texts(raw, "stringData")])
     ELSE Failed

\* stringData is merged into data and wins.
NormalizeSecretData(sec) ==
  LET merged == [k \in DOMAIN sec.data \cup DOMAIN sec.stringData |->
                   IF k \in DOMAIN sec.stringData THEN sec.stringData[k] ELSE sec.data[k]]
  IN [sec EXCEPT !.data = merged, !.stringData = NoData]
================================================================================
