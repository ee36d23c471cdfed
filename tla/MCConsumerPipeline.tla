--------------------------- MODULE MCConsumerPipeline ---------------------------
(***************************************************************************)
(* Instance of ConsumerPipeline for TLC.                                   *)
(***************************************************************************)
EXTENDS ConsumerPipeline

CONSTANTS K1, K2   \* age keys

Str(text) == [tag |-> "str", text |-> text]
Map(entries) == [tag |-> "map", entries |-> entries]
Enc(doc) == [key |-> K1, plain |-> doc]

\* {a: x, b: y} and {a: "x NUL b NUL y"} have one content hash.
Joined == <<"x", NUL, "b", NUL, "y">>

Flat1 == Map([u |-> Str(<<"x">>), p |-> Str(<<"y">>), n |-> [tag |-> "int", val |-> MaxExact]])
Flat2 == Map([u |-> Str(Joined), p |-> Str(<<"z">>), n |-> [tag |-> "bool", val |-> TRUE]])
Nested == Map([u |-> Map([deep |-> Str(<<"x">>)])])

Manifest(fields) ==
  Map([apiVersion |-> Str(<<"v1">>), kind |-> Str(<<"Secret">>),
       metadata |-> Map([name |-> Str(<<"db">>)])] @@ fields)
Manifest1 == Manifest([data |-> Map([a |-> Str(<<"b64", "w">>), b |-> Str(<<"b64", "y">>)]),
                       stringData |-> Map([a |-> Str(<<"x">>)])])
Manifest2 == Manifest([data |-> Map([a |-> Str(<<"b64">> \o Joined)])])
NoSecretKind == Manifest([kind |-> Str(<<"ConfigMap">>)])
Typed == Manifest([type |-> Str(<<"kubernetes.io/tls">>)])
Nameless == Map([apiVersion |-> Str(<<"v1">>), kind |-> Str(<<"Secret">>)])

Commit(doc) == [f |-> Enc(doc)]
SomeFiles ==
  [SopsSecret |->
     [l1 |-> <<Commit(Flat1), Commit(Flat2)>>, l2 |-> <<Commit(Flat2)>>],
   SopsSecretManifest |->
     [l1 |-> <<Commit(Manifest1), Commit(Manifest2)>>, l2 |-> <<[f |-> Enc(Typed), g |-> Enc(Manifest1)]>>]]
SomePayloads ==
  [flat1 |-> Enc(Flat1), flat2 |-> Enc(Flat2), manifest |-> Enc(Manifest1),
   nested |-> Enc(Nested), nameless |-> Enc(Nameless), other |-> Enc(NoSecretKind)]

Key(namespace) == [keyRef |-> [name |-> "age", key |-> "keys.txt", namespace |-> namespace]]
Source == [sourceRef |-> [kind |-> "GitRepository", name |-> "source"], path |-> "f"]
From(source) == [key |-> "a", from |-> source]
Both == <<[key |-> "b", from |-> "p"], From("n"), From("u")>>
Target(type) == [name |-> << >>, namespace |-> "", type |-> type, adopt |-> FALSE]

Specs ==
  [SopsSecret |->
     [source |-> Source, decryption |-> Key("ops"), target |-> Target(<< >>), data |-> Both],
   SopsSecretManifest |->
     [source |-> Source, decryption |-> Nil,
      target |-> [namespace |-> "", nameOverride |-> << >>, adopt |-> FALSE]],
   InlineSopsSecret |->
     [mode |-> "Mapping", encryptedYAML |-> "flat1", decryption |-> Key("ops"),
      target |-> Target(<< >>), data |-> Both]]
Sources ==
  [GitRepository |-> [url |-> "l1", branch |-> "main", revision |-> "", interval |-> 0,
                      auth |-> [type |-> "ssh", secretRef |-> Nil]],
   ObjectSource |-> [url |-> "l1", interval |-> 0]]

By(version, change) == [version |-> version, change |-> change]
SomeSpecEdits ==
  [SopsSecret |-> {By("v1alpha1", [data |-> <<From("u")>>]),
                   By("v1alpha2", [data |-> <<From("missing")>>])},
   SopsSecretManifest |-> {By("v1alpha1", [decryption |-> Key("")]),
                           By("v1alpha2", [source |-> [Source EXCEPT !.path = "g"]])},
   InlineSopsSecret |-> {By("v1alpha1", [mode |-> "Manifest", data |-> Nil]),
                         By("v1alpha2", [mode |-> "Mapping", data |-> <<From("u")>>]),
                         By("v1alpha2", [decryption |-> Key("elsewhere")])}
     \cup {By("v1alpha2", [encryptedYAML |-> p]) : p \in DOMAIN SomePayloads}]
SomeSourceEdits ==
  [GitRepository |-> {By("v1alpha2", [url |-> "l1"]), By("v1alpha2", [url |-> "l2"])},
   ObjectSource |-> {By("v1alpha2", [url |-> "l2"])}]

Secrets == {[namespace |-> "ops", name |-> "age"]}
GoodKeys == [ref \in Secrets |-> K1]
Counts == [l1 |-> 2, l2 |-> 1]
SomeSetups ==
  {[consumer |-> "SopsSecret", source |-> "git"],
   [consumer |-> "SopsSecretManifest", source |-> "bucket"],
   [consumer |-> "InlineSopsSecret", source |-> "git"]}
Global == [namespace |-> "ops", name |-> "age"]
=================================================================================
