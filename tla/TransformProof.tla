----------------------------- MODULE TransformProof -----------------------------
(***************************************************************************)
(* What the transformations make of a document, for every document and     *)
(* every mapping.  ApplyMapping's loop is a recursive function; what it    *)
(* computes is shown without an induction rule, by the least entry at      *)
(* which a solution of the recursion could differ from the closed form.    *)
(***************************************************************************)
EXTENDS Transform, FiniteSetsExt, WellFoundedInduction, TLAPS

\* The least-number principle, of sets.
LEMMA Least ==
  ASSUME NEW T, T \subseteq Nat, T # {}
  PROVE  \E x \in T : \A y \in T : x <= y
<1> DEFINE R == {ss \in Nat \X Nat : ss[1] < ss[2]}
<1>1. IsWellFoundedOn(R, Nat)
  BY NatLessThanWellFounded DEF OpToRel
<1>2. ASSUME NEW x \in Nat, NEW y \in Nat, <<y, x>> \notin R PROVE x <= y
  BY <1>2
<1> HIDE DEF R
<1>3. PICK x \in T : \A y \in T : <<y, x>> \notin R
  BY <1>1, WFMin
<1> QED
  BY <1>2, <1>3

LEMMA Greatest ==
  ASSUME NEW n \in Nat, NEW T, T \subseteq 1..n, T # {}
  PROVE  Max(T) \in T /\ \A y \in T : y <= Max(T)
<1> DEFINE U == {n - t : t \in T}
<1>1. U \subseteq Nat /\ U # {}
  OBVIOUS
<1>2. PICK u \in U : \A v \in U : u <= v
  BY <1>1, Least
<1>3. PICK x \in T : u = n - x
  BY <1>2
<1>4. \A y \in T : n - y \in U /\ y \in Nat /\ x \in Nat
  OBVIOUS
<1>5. \A y \in T : x >= y
  <2> SUFFICES ASSUME NEW y \in T PROVE x >= y
    OBVIOUS
  <2>1. n - x <= n - y /\ y \in Nat /\ x \in Nat
    BY <1>2, <1>3, <1>4
  <2> QED
    BY <2>1
<1>6. Max(T) \in T /\ \A y \in T : Max(T) >= y
  BY <1>5 DEF Max
<1> QED
  BY <1>4, <1>6

-----------------------------------------------------------------------------
(* The mapping.                                                            *)

\* The first n entries: their keys, the entries for a key, and what they pick.
KeysOf(ms, n) == {ms[i].key : i \in 1..n}
EntriesFor(ms, n, k) == {i \in 1..n : ms[i].key = k}
Picked(source, ms, n) ==
  [k \in KeysOf(ms, n) |-> source[ms[Max(EntriesFor(ms, n, k))].from]]

LEMMA PickedFirst == ASSUME NEW source, NEW ms PROVE Picked(source, ms, 0) = NoData
<1>1. KeysOf(ms, 0) = {}
  BY DEF KeysOf
<1> QED
  BY <1>1 DEF Picked, NoData

LEMMA PickedNext ==
  ASSUME NEW source, NEW ms, NEW n \in Nat \ {0}
  PROVE  Picked(source, ms, n) = Put(Picked(source, ms, n - 1), ms[n].key, source[ms[n].from])
<1>1. 1..n = (1..(n - 1)) \cup {n} /\ n \notin 1..(n - 1) /\ n - 1 \in Nat
  OBVIOUS
<1>2. KeysOf(ms, n) = KeysOf(ms, n - 1) \cup {ms[n].key}
  BY <1>1 DEF KeysOf
<1>3. ASSUME NEW k, k # ms[n].key PROVE EntriesFor(ms, n, k) = EntriesFor(ms, n - 1, k)
  BY <1>1, <1>3 DEF EntriesFor
<1>4. Max(EntriesFor(ms, n, ms[n].key)) = n
  <2> DEFINE T == EntriesFor(ms, n, ms[n].key)
  <2>1. T \subseteq 1..n /\ n \in T
    BY DEF EntriesFor
  <2> HIDE DEF T
  <2>2. Max(T) \in T /\ n <= Max(T)
    BY <2>1, Greatest
  <2>3. Max(T) \in 1..n
    BY <2>1, <2>2
  <2>4. \A m \in 1..n : n <= m => m = n
    OBVIOUS
  <2>5. Max(T) = n
    BY <2>2, <2>3, <2>4
  <2> QED
    BY <2>5 DEF T
<1>5. ASSUME NEW k \in KeysOf(ms, n)
      PROVE  source[ms[Max(EntriesFor(ms, n, k))].from]
               = IF k = ms[n].key THEN source[ms[n].from] ELSE Picked(source, ms, n - 1)[k]
  <2>1. CASE k = ms[n].key
    BY <1>4, <2>1
  <2>2. CASE k # ms[n].key
    <3>1. k \in KeysOf(ms, n - 1)
      BY <1>2, <2>2
    <3> QED
      BY <1>3, <2>2, <3>1 DEF Picked
  <2> QED
    BY <2>1, <2>2
<1>6. DOMAIN Picked(source, ms, n - 1) = KeysOf(ms, n - 1)
  BY DEF Picked
<1>7. Put(Picked(source, ms, n - 1), ms[n].key, source[ms[n].from])
        = [k \in KeysOf(ms, n) |->
             IF k = ms[n].key THEN source[ms[n].from] ELSE Picked(source, ms, n - 1)[k]]
  BY <1>2, <1>6 DEF Put
<1>8. Picked(source, ms, n)
        = [k \in KeysOf(ms, n) |->
             IF k = ms[n].key THEN source[ms[n].from] ELSE Picked(source, ms, n - 1)[k]]
  <2>1. Picked(source, ms, n)
          = [k \in KeysOf(ms, n) |-> source[ms[Max(EntriesFor(ms, n, k))].from]]
    BY DEF Picked
  <2> QED
    BY <1>5, <2>1, Zenon
<1> QED
  BY <1>7, <1>8, Zenon

\* The loop of ApplyMapping (flat.go:74-84) in closed form.
LEMMA MappedIsPicked ==
  ASSUME NEW source, NEW ms, Len(ms) \in Nat
  PROVE  Mapped(source, ms) = Picked(source, ms, Len(ms))
<1> DEFINE Turn(f, n) == IF n = 0 THEN NoData ELSE Put(f[n - 1], ms[n].key, source[ms[n].from])
           Solves(f) == f = [n \in 0..Len(ms) |-> Turn(f, n)]
           picked == [n \in 0..Len(ms) |-> Picked(source, ms, n)]
           out == CHOOSE f : Solves(f)
<1>1. ASSUME NEW n \in 0..Len(ms) PROVE picked[n] = Turn(picked, n)
  <2>1. CASE n = 0
    BY <2>1, PickedFirst
  <2>2. CASE n # 0
    <3>1. n - 1 \in 0..Len(ms) /\ n \in Nat \ {0}
      BY <2>2
    <3> QED
      BY <2>2, <3>1, PickedNext
  <2> QED
    BY <2>1, <2>2
<1>2. Solves(picked)
  BY <1>1
<1>3. Solves(out)
  BY <1>2
<1> HIDE DEF out
<1>4. ASSUME NEW n \in 0..Len(ms) PROVE out[n] = Turn(out, n)
  BY <1>3
<1> HIDE DEF Solves
<1>5. ASSUME NEW n \in 0..Len(ms), out[n] # picked[n] PROVE FALSE
  <2> DEFINE T == {m \in 0..Len(ms) : out[m] # picked[m]}
  <2>1. PICK m \in T : \A k \in T : m <= k
    <3>1. T \subseteq Nat /\ T # {}
      BY <1>5
    <3> QED
      BY <3>1, Least
  <2>2. m # 0
    BY <1>1, <1>4, <2>1
  <2>3. m - 1 \in 0..Len(ms) /\ m - 1 \notin T
    BY <2>1, <2>2
  <2>4. out[m - 1] = picked[m - 1]
    BY <2>3
  <2>5. out[m] = picked[m]
    BY <1>1, <1>4, <2>1, <2>2, <2>4
  <2> QED
    BY <2>1, <2>5
<1>6. Mapped(source, ms) = out[Len(ms)]
  BY DEF Mapped, out, Solves
<1>7. Len(ms) \in 0..Len(ms)
  OBVIOUS
<1> QED
  BY <1>5, <1>6, <1>7

\* A flat document that parses is a mapping whose values are all scalars.
LEMMA FlatParsed ==
  ASSUME NEW doc, ParseFlatYAML(doc).ok
  PROVE  /\ IsMapping(doc)
         /\ \A k \in DOMAIN Entries(doc) : ScalarToString(Entries(doc)[k]).ok
         /\ ParseFlatYAML(doc).value
              = [k \in DOMAIN Entries(doc) |-> ScalarToString(Entries(doc)[k]).value]
BY DEF ParseFlatYAML, Ok, Failed

\* The last entry for a key, and the mapping in which it wins.
LastFor(ms, k) == Max({i \in DOMAIN ms : ms[i].key = k})
LastWins(source, ms) ==
  [k \in {ms[i].key : i \in DOMAIN ms} |-> source[ms[LastFor(ms, k)].from]]

\* flat.go:72-84: the keys of a mapping that is applied are those of its entries, and
\* each has the source value that the last entry for it names.
THEOREM LastEntryWins ==
  ASSUME NEW source, NEW ms, Len(ms) \in Nat, DOMAIN ms = 1..Len(ms), ApplyMapping(source, ms).ok
  PROVE  /\ \A i \in DOMAIN ms : ms[i].from \in DOMAIN source
         /\ ApplyMapping(source, ms).value = LastWins(source, ms)
<1>1. /\ \A i \in DOMAIN ms : ms[i].from \in DOMAIN source
      /\ ApplyMapping(source, ms).value = Mapped(source, ms)
  BY DEF ApplyMapping, Ok, Failed
<1>2. Mapped(source, ms) = Picked(source, ms, Len(ms))
  BY MappedIsPicked
<1>3. Picked(source, ms, Len(ms)) = LastWins(source, ms)
  BY DEF Picked, KeysOf, EntriesFor, LastWins, LastFor
<1> QED
  BY <1>1, <1>2, <1>3

\* There is a last entry for every key of a mapping.
LEMMA LastIsEntry ==
  ASSUME NEW ms, Len(ms) \in Nat, DOMAIN ms = 1..Len(ms), NEW k \in {ms[i].key : i \in DOMAIN ms}
  PROVE  LastFor(ms, k) \in DOMAIN ms
<1> DEFINE T == {i \in DOMAIN ms : ms[i].key = k}
<1>1. T \subseteq 1..Len(ms) /\ T # {}
  OBVIOUS
<1> HIDE DEF T
<1>2. Max(T) \in T
  BY <1>1, Greatest
<1> QED
  BY <1>1, <1>2 DEF LastFor, T

-----------------------------------------------------------------------------
(* Manifests.                                                              *)

\* manifest.go:34-85: a manifest that parses has, after NormalizeSecretData, the keys
\* of its data and its stringData, and those of stringData win.
THEOREM StringDataWins ==
  ASSUME NEW doc, ParseManifest(doc).ok
  PROVE  LET bytes == Texts(Entries(doc), "data")
             strings == Texts(Entries(doc), "stringData")
         IN /\ doc.tag = "map"
            /\ NormalizeSecretData(ParseManifest(doc).value).data
                 = [k \in DOMAIN bytes \cup DOMAIN strings |->
                      IF k \in DOMAIN strings THEN strings[k] ELSE Decoded(bytes[k])]
<1> DEFINE raw == Entries(doc)
           bytes == Texts(raw, "data")
           strings == Texts(raw, "stringData")
           decoded == [k \in DOMAIN bytes |-> Decoded(bytes[k])]
           parsed == ParseManifest(doc).value
<1>1. doc.tag = "map"
  <2>1. IsString(Lookup(raw, "kind", Null), <<"Secret">>)
    BY DEF ParseManifest, Failed
  <2>2. "kind" \in DOMAIN raw
    BY <2>1 DEF Lookup, IsString, Null
  <2> QED
    BY <2>2 DEF Entries, NoData
<1>2. /\ parsed = [name |-> parsed.name, type |-> parsed.type, data |-> decoded, stringData |-> strings]
  BY DEF ParseManifest, Ok, Failed
<1> HIDE DEF parsed, strings, bytes
<1>3. parsed.data = decoded /\ parsed.stringData = strings
  BY <1>2
<1>4. NormalizeSecretData(parsed).data
        = [k \in DOMAIN decoded \cup DOMAIN strings |->
             IF k \in DOMAIN strings THEN strings[k] ELSE decoded[k]]
  <2> DEFINE merged == [k \in DOMAIN parsed.data \cup DOMAIN parsed.stringData |->
                          IF k \in DOMAIN parsed.stringData THEN parsed.stringData[k]
                          ELSE parsed.data[k]]
  <2>1. NormalizeSecretData(parsed) = [parsed EXCEPT !.data = merged, !.stringData = NoData]
    BY DEF NormalizeSecretData
  <2>2. ASSUME NEW y, NEW m, y = [parsed EXCEPT !.data = m, !.stringData = NoData]
        PROVE  y.data = m
    BY <1>2, <2>2, Zenon
  <2>3. NormalizeSecretData(parsed).data = merged
    BY <2>1, <2>2
  <2> QED
    BY <1>3, <2>3
<1>5. NormalizeSecretData(parsed).data
        = [k \in DOMAIN bytes \cup DOMAIN strings |->
             IF k \in DOMAIN strings THEN strings[k] ELSE Decoded(bytes[k])]
  BY <1>4
<1> QED
  BY <1>1, <1>5 DEF parsed, strings, bytes
=================================================================================
