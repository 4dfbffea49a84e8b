------------------------ MODULE BundleTransfer_proofs ------------------------
(***************************************************************************)
(* What the channel can do to a bundle, for every value of the constants:   *)
(* a manifest that unlocks and an item that decrypts are ones that were     *)
(* exported, however often and however the bytes were damaged.              *)
(***************************************************************************)
EXTENDS BundleTransfer, FiniteSetTheorems, SequenceTheorems, TLAPS

-----------------------------------------------------------------------------
(* The running sum of record sizes, by which builder and parser both find   *)
(* the records in a file.                                                   *)

\* An initial interval of the positive integers has its upper bound for size.
LEMMA IntervalSize ==
    ASSUME NEW n \in Nat
    PROVE  IsFiniteSet(1..n) /\ Cardinality(1..n) = n
<1>1. 1 \in Int /\ n \in Int
  OBVIOUS
<1>2. /\ IsFiniteSet(1..n)
      /\ Cardinality(1..n) = IF 1 > n THEN 0 ELSE n - 1 + 1
  BY <1>1, FS_Interval
<1> QED BY <1>2

\* The (item, byte) pairs RecordBytes counts.
RecordPairs(list, n) ==
    {ib \in (1..n) \X (1..itemSizeMax) : ib[2] <= list[ib[1]].itemSize}

LEMMA RecordPairsFinite ==
    ASSUME NEW list, NEW n \in Nat
    PROVE  /\ IsFiniteSet(RecordPairs(list, n))
           /\ RecordBytes(list, n) = Cardinality(RecordPairs(list, n))
           /\ RecordBytes(list, n) \in Nat
<1>1. itemSizeMax \in Nat
  BY LimitsAssumption
<1>2. IsFiniteSet(1..n) /\ IsFiniteSet(1..itemSizeMax)
  BY <1>1, FS_Interval
<1>3. IsFiniteSet((1..n) \X (1..itemSizeMax))
  BY <1>2, FS_Product
<1>4. RecordPairs(list, n) \in SUBSET ((1..n) \X (1..itemSizeMax))
  BY DEF RecordPairs
<1>5. IsFiniteSet(RecordPairs(list, n))
  BY <1>3, <1>4, FS_Subset
<1>6. RecordBytes(list, n) = Cardinality(RecordPairs(list, n))
  BY DEF RecordBytes, RecordPairs
<1> QED
  BY <1>5, <1>6, FS_CardinalityType

\* No records, no bytes.
LEMMA RecordBytesZero ==
    ASSUME NEW list
    PROVE  RecordBytes(list, 0) = 0
<1>1. RecordPairs(list, 0) = {}
  BY DEF RecordPairs
<1> QED
  BY <1>1, RecordPairsFinite, FS_EmptySet

\* More records take no fewer bytes.
LEMMA RecordBytesMonotone ==
    ASSUME NEW list, NEW m \in Nat, NEW n \in Nat, m <= n
    PROVE  RecordBytes(list, m) <= RecordBytes(list, n)
<1>1. RecordPairs(list, m) \in SUBSET RecordPairs(list, n)
  BY DEF RecordPairs
<1> QED
  BY <1>1, RecordPairsFinite, FS_Subset

\* The next record adds its itemSize.
LEMMA RecordBytesStep ==
    ASSUME NEW list, NEW n \in Nat,
           list[n + 1].itemSize \in 0..itemSizeMax
    PROVE  RecordBytes(list, n + 1)
              = RecordBytes(list, n) + list[n + 1].itemSize
<1> DEFINE size == list[n + 1].itemSize
           last == {n + 1} \X (1..size)
<1>1. size \in Nat /\ itemSizeMax \in Nat
  BY LimitsAssumption
<1>2. RecordPairs(list, n + 1) = RecordPairs(list, n) \cup last
  BY <1>1 DEF RecordPairs
<1>3. RecordPairs(list, n) \cap last = {}
  BY DEF RecordPairs
<1>4. IsFiniteSet({n + 1}) /\ Cardinality({n + 1}) = 1
  BY FS_Singleton
<1> HIDE DEF size
<1>5. IsFiniteSet(1..size) /\ Cardinality(1..size) = size
  BY <1>1, IntervalSize
<1>6. IsFiniteSet(last) /\ Cardinality(last) = size
  BY <1>1, <1>4, <1>5, FS_Product
<1> HIDE DEF last
<1>7. /\ IsFiniteSet(RecordPairs(list, n))
      /\ Cardinality(RecordPairs(list, n)) \in Nat
      /\ Cardinality(RecordPairs(list, n) \cap last) = 0
  BY <1>3, RecordPairsFinite, FS_CardinalityType, FS_EmptySet
<1>8. Cardinality(RecordPairs(list, n) \cup last)
         = Cardinality(RecordPairs(list, n)) + size - 0
  BY <1>6, <1>7, FS_Union
<1>9. RecordBytes(list, n + 1) = RecordBytes(list, n) + size
  <2>1. n + 1 \in Nat
    OBVIOUS
  <2>2. /\ RecordBytes(list, n + 1) = Cardinality(RecordPairs(list, n + 1))
        /\ RecordBytes(list, n) = Cardinality(RecordPairs(list, n))
    BY <2>1, RecordPairsFinite
  <2>3. Cardinality(RecordPairs(list, n)) + size - 0
           = Cardinality(RecordPairs(list, n)) + size
    BY <1>1, <1>7
  <2> QED BY <1>2, <1>8, <2>2, <2>3
<1> QED
  BY <1>9 DEF size

\* Records lie end to end, each as long as its itemSize says.
LEMMA RecordsEndToEnd ==
    ASSUME NEW list, NEW n \in Nat,
           \A k \in 1..n : list[k].itemSize \in 0..itemSizeMax
    PROVE  \A k \in 1..n :
              /\ RecordBytes(list, k - 1) \in Nat
              /\ RecordBytes(list, k) \in Nat
              /\ RecordBytes(list, k)
                   = RecordBytes(list, k - 1) + list[k].itemSize
              /\ \A m \in k..n : RecordBytes(list, k) <= RecordBytes(list, m)
<1> SUFFICES ASSUME NEW k \in 1..n
             PROVE  /\ RecordBytes(list, k - 1) \in Nat
                    /\ RecordBytes(list, k) \in Nat
                    /\ RecordBytes(list, k)
                         = RecordBytes(list, k - 1) + list[k].itemSize
                    /\ \A m \in k..n :
                          RecordBytes(list, k) <= RecordBytes(list, m)
  OBVIOUS
<1>1. k - 1 \in Nat /\ k \in Nat /\ (k - 1) + 1 = k
  OBVIOUS
<1>2. RecordBytes(list, (k - 1) + 1)
         = RecordBytes(list, k - 1) + list[(k - 1) + 1].itemSize
  BY <1>1, RecordBytesStep
<1>3. \A m \in k..n : RecordBytes(list, k) <= RecordBytes(list, m)
  BY <1>1, RecordBytesMonotone
<1>4. RecordBytes(list, k - 1) \in Nat /\ RecordBytes(list, k) \in Nat
  BY <1>1, RecordPairsFinite
<1> QED BY <1>1, <1>2, <1>3, <1>4

\* Every byte behind the manifest belongs to exactly one record's span.
LEMMA RecordBytesFind ==
    ASSUME NEW list, NEW n \in Nat, NEW k \in Nat,
           0 < k, k <= RecordBytes(list, n)
    PROVE  \E i \in 1..n : /\ RecordBytes(list, i - 1) < k
                           /\ k <= RecordBytes(list, i)
<1> DEFINE T == {i \in 0..n : RecordBytes(list, i) < k}
           c == Cardinality(T)
<1>1. \A i \in 0..n : RecordBytes(list, i) \in Nat
  BY RecordPairsFinite
<1>2. T \in SUBSET (0..n) /\ 0 \in T /\ n \notin T
  BY <1>1, RecordBytesZero
<1>3. \A i \in T : \A j \in 0..i : j \in T
  <2> SUFFICES ASSUME NEW i \in T, NEW j \in 0..i PROVE j \in T
    OBVIOUS
  <2>1. RecordBytes(list, j) <= RecordBytes(list, i)
    BY RecordBytesMonotone
  <2> QED BY <1>1, <2>1
<1> HIDE DEF T
<1>4. IsFiniteSet(T) /\ c \in Nat /\ c # 0
  <2>1. IsFiniteSet(0..n)
    BY FS_Interval
  <2>2. IsFiniteSet(T)
    BY <1>2, <2>1, FS_Subset
  <2> QED BY <1>2, <2>2, FS_CardinalityType, FS_EmptySet
<1> HIDE DEF c
<1>5. \A i \in T : i + 1 <= c
  <2> SUFFICES ASSUME NEW i \in T PROVE i + 1 <= c
    OBVIOUS
  <2>1. i \in Nat /\ 0..i \in SUBSET T
    BY <1>2, <1>3
  <2>2. Cardinality(0..i) = i + 1
    <3>1. Cardinality(0..i) = IF 0 > i THEN 0 ELSE i - 0 + 1
      BY <2>1, FS_Interval
    <3> QED BY <2>1, <3>1
  <2> QED BY <1>4, <2>1, <2>2, FS_Subset DEF c
<1>6. T \in SUBSET (0..(c - 1))
  BY <1>2, <1>4, <1>5
<1>7. IsFiniteSet(0..(c - 1)) /\ Cardinality(0..(c - 1)) = c
  <2>1. /\ IsFiniteSet(0..(c - 1))
        /\ Cardinality(0..(c - 1)) = IF 0 > c - 1 THEN 0 ELSE c - 1 - 0 + 1
    BY <1>4, FS_Interval
  <2> QED BY <1>4, <2>1
<1>8. T = 0..(c - 1)
  BY <1>6, <1>7, FS_Subset DEF c
<1>9. c \in 1..n /\ c - 1 \in T /\ ~ (c \in T)
  BY <1>2, <1>4, <1>8
<1> QED
  BY <1>1, <1>9 DEF T

-----------------------------------------------------------------------------
(* The inductive invariant. *)

\* The boxes a bundle was sealed into.
ManifestBox(x) ==
    Box(deriveManifestKey(x.key), x.header.manifestNonce, x.manifest,
        encodedSize(x.manifest), serialize(x.header))

ItemBox(x, i) ==
    Box(deriveItemKey(x.key, x.items[i].id), x.manifest.items[i].itemNonce,
        x.items[i].plaintext, x.items[i].count,
        ItemAAD(serialize(x.header), x.items[i].id))

BoxesOf(x) == {ManifestBox(x)} \cup {ItemBox(x, i) : i \in DOMAIN x.items}

IsSequence(s) == s \in Seq({s[k] : k \in DOMAIN s})

\* What a bundle holds: its header, the sealed manifest, and otherwise only
\* bytes of its own boxes.
ExportMade(x) ==
    /\ x.header = BundleHeader(x.header.parameters, x.header.salt,
                               x.header.manifestNonce, x.header.manifestSize)
    /\ x.header.parameters \in
          [timeCost : Nat, memoryKiB : Nat, parallelism : Nat]
    /\ x.key = deriveKey(x.passphrase, x.header.salt, x.header.parameters)
    /\ IsSequence(x.manifest.items)
    /\ encodedSize(x.manifest) \in Nat
    /\ x.header.manifestSize = encodedSize(x.manifest) + TagSize

ExportLaidOut(x) ==
    /\ IsSequence(x.data)
    /\ HeaderSize + x.header.manifestSize <= Len(x.data)
    /\ \A k \in 1..HeaderSize : x.data[k] = serialize(x.header)[k]
    /\ \A k \in 1..x.header.manifestSize :
          x.data[HeaderSize + k] = SealedByte(ManifestBox(x), k)
    /\ \A k \in 1..Len(x.data) :
          x.data[k].kind = "sealed" => x.data[k].box \in BoxesOf(x)

\* Sealed bytes come from bundles only.
Known(d) ==
    \A k \in 1..Len(d) :
        d[k].kind = "sealed" =>
            \E e \in DOMAIN exports : d[k].box \in BoxesOf(exports[e])

BuilderInv ==
    /\ parameters \in [timeCost : Nat, memoryKiB : Nat, parallelism : Nat]
    /\ items \in Seq(Contents)
    /\ rnd \in Nat
    /\ IsSequence(exports)

ExportsInv ==
    \A e \in DOMAIN exports :
        ExportMade(exports[e]) /\ ExportLaidOut(exports[e])

\* Every bundle has a salt of its own, and no later draw repeats it.
SaltsInv ==
    /\ \A e \in DOMAIN exports :
          \E k \in 1..rnd : exports[e].header.salt = Rnd(k)
    /\ \A e, f \in DOMAIN exports :
          exports[e].header.salt = exports[f].header.salt => e = f

FileInv == IsSequence(file) /\ Known(file)

ParserInv ==
    parser # None =>
        /\ IsSequence(Data) /\ Known(Data)
        /\ parseAccepts(Data)
        /\ Header = ParsedHeader(Data)
        /\ manifestEnd <= Len(Data)

SessionInv ==
    /\ parser = None => masterKey = None
    /\ masterKey = None <=> cachedManifest = None
    /\ cachedManifest # None =>
          /\ validateManifest(cachedManifest[1])
          /\ RecordBytes(cachedManifest[1].items, Len(cachedManifest[1].items))
                <= Len(Data) - manifestEnd

IInv ==
    /\ BuilderInv /\ ExportsInv /\ SaltsInv /\ FileInv /\ ParserInv
    /\ SessionInv
    /\ UnlockedManifestWasExported
    /\ DeliveredItemWasExported

-----------------------------------------------------------------------------
(* Sequences. *)

LEMMA SequenceOfFunction ==
    ASSUME NEW n \in Nat, NEW f, f = [k \in 1..n |-> f[k]]
    PROVE  IsSequence(f) /\ Len(f) = n /\ DOMAIN f = 1..n
<1> DEFINE R == {f[k] : k \in 1..n}
<1>1. f \in [1..n -> R] /\ DOMAIN f = 1..n
  OBVIOUS
<1>2. f \in Seq(R)
  BY <1>1
<1>3. DOMAIN f = 1..Len(f) /\ Len(f) \in Nat
  BY <1>2, LenProperties
<1> QED BY <1>1, <1>2, <1>3 DEF IsSequence

LEMMA SequenceFacts ==
    ASSUME NEW s, IsSequence(s)
    PROVE  /\ Len(s) \in Nat /\ DOMAIN s = 1..Len(s)
           /\ s = [k \in 1..Len(s) |-> s[k]]
BY LenProperties DEF IsSequence

\* A part of a sequence, byte by byte.
LEMMA SubSeqFacts ==
    ASSUME NEW s, NEW m \in Nat, NEW n \in Nat, m <= n + 1
    PROVE  /\ Len(SubSeq(s, m, n)) = n - m + 1
           /\ \A i \in 1..(n - m + 1) : SubSeq(s, m, n)[i] = s[m + i - 1]
           /\ IsSequence(SubSeq(s, m, n))
<1> DEFINE S == {s[i] : i \in m..n}
<1>1. /\ SubSeq(s, m, n) \in Seq(S)
      /\ Len(SubSeq(s, m, n)) = IF m <= n THEN n - m + 1 ELSE 0
      /\ \A i \in 1..(n - m + 1) : SubSeq(s, m, n)[i] = s[m + i - 1]
  <2>1. \A i \in m..n : s[i] \in S
    OBVIOUS
  <2> HIDE DEF S
  <2> QED BY <2>1, SubSeqProperties
<1>2. Len(SubSeq(s, m, n)) = n - m + 1
  BY <1>1
<1>3. IsSequence(SubSeq(s, m, n))
  BY ZenonT(30), <1>1, LenProperties, SequenceOfFunction
<1> QED BY <1>1, <1>2, <1>3

-----------------------------------------------------------------------------
(* Headers. *)

\* The fields of a serialized header, one by one; none is a sealed byte.
LEMMA SerializedHeader ==
    ASSUME NEW h
    PROVE  /\ serialize(h)[4] = Num(h.parameters.timeCost)
           /\ serialize(h)[5] = Num(h.parameters.memoryKiB)
           /\ serialize(h)[6] = Num(h.parameters.parallelism)
           /\ serialize(h)[7] = h.salt
           /\ serialize(h)[8] = h.manifestNonce
           /\ serialize(h)[9] = Num(h.manifestSize)
           /\ \A k \in (1..HeaderSize) \ {7, 8} :
                 serialize(h)[k].kind = "number"
           /\ IsSequence(serialize(h)) /\ Len(serialize(h)) = HeaderSize
<1>1. \A k \in (1..HeaderSize) \ {7, 8} : serialize(h)[k].kind = "number"
  BY DEF serialize, Num, HeaderSize
<1>2. /\ serialize(h)[4] = Num(h.parameters.timeCost)
      /\ serialize(h)[5] = Num(h.parameters.memoryKiB)
      /\ serialize(h)[6] = Num(h.parameters.parallelism)
      /\ serialize(h)[7] = h.salt
      /\ serialize(h)[8] = h.manifestNonce
      /\ serialize(h)[9] = Num(h.manifestSize)
  BY DEF serialize
<1>3. serialize(h) = [k \in 1..HeaderSize |-> serialize(h)[k]]
  BY DEF serialize, HeaderSize
<1>4. HeaderSize \in Nat
  BY DEF HeaderSize
<1> QED
  BY <1>1, <1>2, <1>3, <1>4, SequenceOfFunction

\* The associated data pins down the whole header: bytes that equal a
\* bundle's serialized header parse to that bundle's header.
LEMMA SameBytesSameHeader ==
    ASSUME NEW x, ExportMade(x), NEW d,
           \A k \in 1..HeaderSize : d[k] = serialize(x.header)[k]
    PROVE  ParsedHeader(d) = x.header
<1> DEFINE h == x.header
<1>0. \A k \in {4, 5, 6, 7, 8, 9} : d[k] = serialize(h)[k]
  BY DEF HeaderSize
<1>1. /\ d[4] = Num(x.header.parameters.timeCost)
      /\ d[5] = Num(x.header.parameters.memoryKiB)
      /\ d[6] = Num(x.header.parameters.parallelism)
      /\ d[7] = x.header.salt
      /\ d[8] = x.header.manifestNonce
      /\ d[9] = Num(x.header.manifestSize)
  BY <1>0, SerializedHeader
<1>2. x.header.parameters = [timeCost |-> d[4].value,
                             memoryKiB |-> d[5].value,
                             parallelism |-> d[6].value]
  BY <1>1 DEF ExportMade, Num
<1> QED
  BY <1>1, <1>2 DEF ExportMade, ParsedHeader, BundleHeader, Num

\* Bytes taken from the file, from bundles or from nowhere are known.
LEMMA KnownBytes ==
    ASSUME ExportsInv, Known(file), NEW d,
           \A k \in 1..Len(d) :
              \/ d[k].kind # "sealed"
              \/ \E j \in 1..Len(file) : d[k] = file[j]
              \/ \E e \in DOMAIN exports :
                    \E j \in 1..Len(exports[e].data) : d[k] = exports[e].data[j]
    PROVE  Known(d)
BY DEF ExportsInv, ExportLaidOut, Known

-----------------------------------------------------------------------------
(* What build appends to exports. *)

\* build keeps the facts it computes with in range.
LEMMA StagedFacts ==
    ASSUME BuilderInv
    PROVE  /\ DOMAIN items = 1..Len(items) /\ Len(items) \in Nat
           /\ \A i \in DOMAIN items : items[i].count \in Nat
           /\ IsSequence(StagedManifest.items)
           /\ Len(StagedManifest.items) = Len(items)
           /\ \A i \in DOMAIN items :
                 StagedManifest.items[i] = ItemDescriptor(items[i], ItemNonce(i))
           /\ encodedSize(StagedManifest) \in Nat
           /\ ManifestCiphertextSize \in Nat
           /\ BundleSize \in Nat
<1>1. /\ DOMAIN items = 1..Len(items) /\ Len(items) \in Nat
      /\ \A i \in DOMAIN items : items[i].count \in Nat
  BY LenProperties, ElementOfSeq, TransferAssumption DEF BuilderInv
<1> DEFINE ds == [i \in DOMAIN items |-> ItemDescriptor(items[i], ItemNonce(i))]
<1>2. StagedManifest.items = ds
  BY DEF StagedManifest, Manifest
<1>3. ds = [i \in 1..Len(items) |-> ds[i]]
  BY <1>1
<1>4. \A i \in DOMAIN items : ds[i] = ItemDescriptor(items[i], ItemNonce(i))
  OBVIOUS
<1> HIDE DEF ds
<1>5. IsSequence(ds) /\ Len(ds) = Len(items)
  BY <1>1, <1>3, SequenceOfFunction
<1>6. encodedSize(StagedManifest) = EnvelopeSize + Len(items) * DescriptorSize
  BY <1>2, <1>5 DEF encodedSize
<1>7. \A a, b \in Nat : a * b \in Nat
  OBVIOUS
<1>8. encodedSize(StagedManifest) \in Nat /\ ManifestCiphertextSize \in Nat
  BY <1>1, <1>6, <1>7, LimitsAssumption, TagSizeAssumption
     DEF ManifestCiphertextSize
<1>9. RecordBytes(StagedManifest.items, Len(items)) \in Nat
  BY <1>1, RecordPairsFinite
<1>10. BundleSize \in Nat
  BY <1>1, <1>8, <1>9 DEF BundleSize, BundleStart, HeaderSize
<1> QED
  BY <1>1, <1>2, <1>4, <1>5, <1>8, <1>10

LEMMA BuildMakesExport ==
    ASSUME BuilderInv, NEW p, buildAccepts(p)
    PROVE  ExportMade(Export(p))
<1>1. encodedSize(StagedManifest) \in Nat /\ IsSequence(StagedManifest.items)
  BY StagedFacts
<1> QED
  BY <1>1
     DEF BuilderInv, ExportMade, Export, StagedHeader, BundleHeader, Key,
         ManifestCiphertextSize

\* The record region: every byte behind the manifest is a byte of the box of
\* the item whose record spans it.
LEMMA BuildRecordBytes ==
    ASSUME BuilderInv, NEW p, buildAccepts(p),
           NEW k \in Nat, HeaderSize + ManifestCiphertextSize < k,
           k <= BundleSize
    PROVE  \E i \in DOMAIN items, j \in Nat :
              BundleData(p)[k] = SealedByte(ItemBox(Export(p), i), j)
<1> DEFINE ds == StagedManifest.items
           base == HeaderSize + ManifestCiphertextSize
           n == Len(items)
           Spans(i) == BundleStart(i) < k /\ k <= BundleStart(i + 1)
           item == CHOOSE i \in DOMAIN items : Spans(i)
           j == k - BundleStart(item)
<1>1. /\ DOMAIN items = 1..n /\ n \in Nat /\ base \in Nat
      /\ ManifestCiphertextSize \in Nat /\ BundleSize \in Nat
      /\ \A i \in DOMAIN items : /\ items[i].count \in Nat
                                 /\ ds[i] = ItemDescriptor(items[i], ItemNonce(i))
  BY StagedFacts DEF HeaderSize
<1>2. \A i \in DOMAIN items :
         /\ ds[i].itemSize = items[i].count + TagSize
         /\ ds[i].itemSize \in 0..itemSizeMax
  <2> SUFFICES ASSUME NEW i \in DOMAIN items
               PROVE  /\ ds[i].itemSize = items[i].count + TagSize
                      /\ ds[i].itemSize \in 0..itemSizeMax
    OBVIOUS
  <2>1. validateDescriptor(ds[i])
    BY DEF buildAccepts
  <2>2. ds[i].itemSize \in TagSize..itemSizeMax
    BY <2>1 DEF validateDescriptor, validateItemSize, itemSizeMin
  <2>3. ds[i].itemSize = items[i].count + TagSize
    <3>1. ds[i] = ItemDescriptor(items[i], ItemNonce(i))
      BY <1>1
    <3> HIDE DEF ds
    <3> QED BY <3>1 DEF ItemDescriptor
  <2> QED BY <2>2, <2>3, TagSizeAssumption, LimitsAssumption
<1>3. \A i \in 1..n : /\ BundleStart(i) = base + RecordBytes(ds, i - 1)
                      /\ BundleStart(i + 1) = base + RecordBytes(ds, i)
                      /\ RecordBytes(ds, i) \in Nat
                      /\ RecordBytes(ds, i - 1) \in Nat
                      /\ RecordBytes(ds, i)
                            = RecordBytes(ds, i - 1) + ds[i].itemSize
  <2>1. \A i \in 1..n : (i + 1) - 1 = i
    BY <1>1
  <2>2. \A i \in 1..n : ds[i].itemSize \in 0..itemSizeMax
    BY <1>1, <1>2
  <2> HIDE DEF ds
  <2>3. \A i \in 1..n : /\ RecordBytes(ds, i) \in Nat
                        /\ RecordBytes(ds, i - 1) \in Nat
                        /\ RecordBytes(ds, i)
                              = RecordBytes(ds, i - 1) + ds[i].itemSize
    BY <1>1, <2>2, RecordsEndToEnd
  <2> QED BY <2>1, <2>3 DEF BundleStart, ds
<1>4. \E i \in DOMAIN items : Spans(i)
  <2>1. BundleSize = base + RecordBytes(ds, n)
    BY <1>1 DEF BundleSize, BundleStart
  <2>2. RecordBytes(ds, n) \in Nat
    BY <1>1, RecordPairsFinite
  <2>3. /\ k - base \in Nat /\ 0 < k - base
        /\ k - base <= RecordBytes(ds, n)
    BY <1>1, <2>1, <2>2
  <2>4. PICK i \in 1..n : /\ RecordBytes(ds, i - 1) < k - base
                          /\ k - base <= RecordBytes(ds, i)
    BY <1>1, <2>3, RecordBytesFind
  <2>5. i \in DOMAIN items
    BY <1>1
  <2>6. Spans(i)
    BY <1>1, <1>3, <2>4
  <2> QED BY <2>5, <2>6
<1>5. item \in DOMAIN items /\ Spans(item)
  BY <1>4
<1> HIDE DEF item
<1>6. j \in 1..(items[item].count + TagSize)
  <2>1. /\ item \in 1..n /\ BundleStart(item) < k
        /\ k <= BundleStart(item + 1)
    BY <1>1, <1>5
  <2>2. /\ RecordBytes(ds, item - 1) \in Nat /\ RecordBytes(ds, item) \in Nat
        /\ BundleStart(item) = base + RecordBytes(ds, item - 1)
        /\ BundleStart(item + 1)
              = base + (RecordBytes(ds, item - 1) + ds[item].itemSize)
    BY <1>3, <2>1
  <2>3. /\ ds[item].itemSize = items[item].count + TagSize
        /\ ds[item].itemSize \in Nat
    BY <1>2, <1>5
  <2> QED BY SMTT(30), <1>1, <2>1, <2>2, <2>3
<1>7. SealedItem(p, item)[j] = SealedByte(ItemBox(Export(p), item), j)
  <2> DEFINE x == Export(p)
  <2>1. /\ x.items = items /\ x.manifest = StagedManifest
        /\ x.key = Key(p) /\ x.header = StagedHeader
    BY DEF Export
  <2>2. ds[item].itemNonce = ItemNonce(item)
    <3>1. ds[item] = ItemDescriptor(items[item], ItemNonce(item))
      BY <1>1, <1>5
    <3> HIDE DEF ds
    <3> QED BY <3>1 DEF ItemDescriptor
  <2> HIDE DEF x
  <2>3. ItemBox(x, item)
           = Box(deriveItemKey(Key(p), items[item].id), ItemNonce(item),
                 items[item].plaintext, items[item].count,
                 ItemAAD(serialize(StagedHeader), items[item].id))
    BY <2>1, <2>2 DEF ItemBox
  <2>4. SealedItem(p, item)[j] = SealedByte(ItemBox(x, item), j)
    BY <1>6, <2>3 DEF SealedItem, encryptItem, sealGCM
  <2> QED BY <2>4 DEF x
<1>8. BundleData(p)[k] = SealedItem(p, item)[j]
  BY <1>1 DEF BundleData, item, HeaderSize
<1> QED
  BY <1>5, <1>6, <1>7, <1>8, TagSizeAssumption, <1>1

LEMMA BuildLaysOutExport ==
    ASSUME BuilderInv, NEW p, buildAccepts(p)
    PROVE  ExportLaidOut(Export(p))
<1> DEFINE x == Export(p)
           base == HeaderSize + ManifestCiphertextSize
<1>1. /\ x.data = BundleData(p) /\ x.header = StagedHeader
      /\ x.items = items /\ x.manifest = StagedManifest /\ x.key = Key(p)
      /\ x.header.manifestSize = ManifestCiphertextSize
  BY DEF Export, StagedHeader, BundleHeader
<1>2. /\ ManifestCiphertextSize \in Nat /\ BundleSize \in Nat
      /\ HeaderSize \in Nat /\ base <= BundleSize
  <2>1. RecordBytes(StagedManifest.items, Len(items)) \in Nat
    BY StagedFacts, RecordPairsFinite
  <2> QED
    BY <2>1, StagedFacts DEF BundleSize, BundleStart, HeaderSize
<1>3. BundleData(p) = [k \in 1..BundleSize |-> BundleData(p)[k]]
  BY DEF BundleData
<1>4. IsSequence(BundleData(p)) /\ Len(BundleData(p)) = BundleSize
  BY <1>2, <1>3, SequenceOfFunction
<1>5. \A k \in 1..HeaderSize : BundleData(p)[k] = serialize(StagedHeader)[k]
  BY <1>2 DEF BundleData
<1>6. \A k \in 1..ManifestCiphertextSize :
         BundleData(p)[HeaderSize + k] = SealedByte(ManifestBox(x), k)
  <2> SUFFICES ASSUME NEW k \in 1..ManifestCiphertextSize
               PROVE  BundleData(p)[HeaderSize + k]
                         = SealedByte(ManifestBox(x), k)
    OBVIOUS
  <2> DEFINE m == encryptManifest(StagedManifest, Key(p), ManifestNonce,
                                  serialize(StagedHeader))
  <2>1. /\ HeaderSize + k \in 1..BundleSize /\ ~ (HeaderSize + k <= HeaderSize)
        /\ HeaderSize + k <= base /\ (HeaderSize + k) - HeaderSize = k
    BY <1>2
  <2>2. BundleData(p)[HeaderSize + k] = m[k]
    BY <2>1 DEF BundleData
  <2>3. m[k] = SealedByte(Box(deriveManifestKey(Key(p)), ManifestNonce,
                              StagedManifest, encodedSize(StagedManifest),
                              serialize(StagedHeader)), k)
    BY DEF encryptManifest, sealGCM, ManifestCiphertextSize
  <2>4. ManifestBox(x) = Box(deriveManifestKey(Key(p)), ManifestNonce,
                             StagedManifest, encodedSize(StagedManifest),
                             serialize(StagedHeader))
    BY <1>1 DEF ManifestBox, StagedHeader, BundleHeader
  <2> QED BY <2>2, <2>3, <2>4
<1>7. ASSUME NEW k \in 1..BundleSize, BundleData(p)[k].kind = "sealed"
      PROVE  BundleData(p)[k].box \in BoxesOf(x)
  <2>1. CASE k <= HeaderSize
    <3>1. serialize(StagedHeader)[k].kind # "sealed"
      <4>1. StagedHeader.salt = Salt /\ StagedHeader.manifestNonce = ManifestNonce
        BY DEF StagedHeader, BundleHeader
      <4>2. Salt.kind = "random" /\ ManifestNonce.kind = "random"
        BY DEF Salt, ManifestNonce, Rnd
      <4>3. CASE k \in {7, 8}
        BY <4>1, <4>2, <4>3, SerializedHeader
      <4>4. CASE k \notin {7, 8}
        <5>1. serialize(StagedHeader)[k].kind = "number"
          BY <1>2, <2>1, <4>4, SerializedHeader
        <5> QED BY <5>1
      <4> QED BY <4>3, <4>4
    <3> QED BY <1>2, <1>5, <1>7, <2>1, <3>1
  <2>2. CASE HeaderSize < k /\ k <= base
    <3>1. k - HeaderSize \in 1..ManifestCiphertextSize
          /\ HeaderSize + (k - HeaderSize) = k
      BY <1>2, <2>2
    <3>2. BundleData(p)[k] = SealedByte(ManifestBox(x), k - HeaderSize)
      BY <1>6, <3>1
    <3> QED BY <3>2 DEF SealedByte, BoxesOf
  <2>3. CASE base < k
    <3>1. PICK i \in DOMAIN items, j \in Nat :
             BundleData(p)[k] = SealedByte(ItemBox(x, i), j)
      BY <1>2, <2>3, BuildRecordBytes
    <3> QED BY <1>1, <3>1 DEF SealedByte, BoxesOf
  <2> QED BY <1>2, <2>1, <2>2, <2>3
<1> HIDE DEF x
<1> QED
  BY <1>1, <1>2, <1>4, <1>5, <1>6, <1>7 DEF ExportLaidOut, x

-----------------------------------------------------------------------------
(* What unlock and decrypt accept. *)

\* An open parser's header is the one its bytes spell out, within the limits.
LEMMA OpenFacts ==
    ASSUME ParserInv, parser # None
    PROVE  /\ Len(Data) \in Nat /\ DOMAIN Data = 1..Len(Data)
           /\ Header.manifestSize \in Nat
           /\ TagSize <= Header.manifestSize
           /\ HeaderSize \in Nat
           /\ manifestEnd = HeaderSize + Header.manifestSize
           /\ manifestEnd \in Nat /\ manifestEnd <= Len(Data)
           /\ \A k \in 1..HeaderSize : headerBytes[k] = Data[k]
           /\ Len(manifestBytes) = Header.manifestSize
           /\ \A k \in 1..Header.manifestSize :
                 manifestBytes[k] = Data[HeaderSize + k]
<1>1. /\ Len(Data) \in Nat /\ DOMAIN Data = 1..Len(Data)
      /\ manifestEnd <= Len(Data)
  BY SequenceFacts DEF ParserInv
<1>2. Header.manifestSize \in TagSize..manifestSizeMax
  BY DEF ParserInv, parseAccepts, validateManifestSize, manifestSizeMin
<1>3. /\ Header.manifestSize \in Nat /\ TagSize <= Header.manifestSize
      /\ HeaderSize \in Nat /\ HeaderSize >= 1
  BY <1>2, TagSizeAssumption, LimitsAssumption DEF HeaderSize
<1>4. manifestEnd = HeaderSize + Header.manifestSize /\ manifestEnd \in Nat
  BY <1>3 DEF manifestEnd
<1> DEFINE ms == Header.manifestSize
<1> HIDE DEF ms
<1>5. ms = Header.manifestSize
  BY DEF ms
<1>6. \A k \in 1..HeaderSize : headerBytes[k] = Data[k]
  BY <1>3, SubSeqFacts DEF headerBytes
<1>7. /\ Len(manifestBytes) = ms
      /\ \A k \in 1..ms : manifestBytes[k] = Data[HeaderSize + k]
  <2>1. /\ HeaderSize + 1 \in Nat /\ HeaderSize + ms \in Nat
        /\ HeaderSize + 1 <= (HeaderSize + ms) + 1
        /\ (HeaderSize + ms) - (HeaderSize + 1) + 1 = ms
        /\ \A k \in 1..ms : (HeaderSize + 1) + k - 1 = HeaderSize + k
    BY <1>3, <1>5
  <2>2. manifestBytes = SubSeq(Data, HeaderSize + 1, HeaderSize + ms)
    BY <1>4, <1>5 DEF manifestBytes
  <2> QED BY <2>1, <2>2, SubSeqFacts
<1> QED
  BY <1>1, <1>3, <1>4, <1>5, <1>6, <1>7

\* The manifest section opens under a key: then it is a bundle's section, the
\* header before it is that bundle's, and the key is the bundle's key.
LEMMA OpenedManifestWasExported ==
    ASSUME ExportsInv, ParserInv, parser # None, NEW key,
           decryptManifestAccepts(manifestBytes, key, Header.manifestNonce,
                                  headerBytes)
    PROVE  \E e \in DOMAIN exports :
              /\ SameFront(e)
              /\ OpenedPlaintext(manifestBytes) = exports[e].manifest
              /\ key = exports[e].key
<1> DEFINE b == manifestBytes[1].box
           ms == Header.manifestSize
<1>1. /\ manifestBytes[1].kind = "sealed"
      /\ b.key = deriveManifestKey(key)
      /\ b.aad = headerBytes
      /\ manifestBytes = [i \in 1..(b.count + TagSize) |-> SealedByte(b, i)]
  BY DEF decryptManifestAccepts, openGCM
<1>2. /\ ms \in Nat /\ 1 <= ms /\ HeaderSize \in Nat
      /\ Len(Data) \in Nat /\ HeaderSize + ms <= Len(Data)
      /\ manifestEnd = HeaderSize + ms
      /\ \A k \in 1..HeaderSize : headerBytes[k] = Data[k]
      /\ Len(manifestBytes) = ms
      /\ \A k \in 1..ms : manifestBytes[k] = Data[HeaderSize + k]
  BY OpenFacts, TagSizeAssumption
<1>3. PICK e \in DOMAIN exports : b \in BoxesOf(exports[e])
  <2>1. manifestBytes[1] = Data[HeaderSize + 1] /\ HeaderSize + 1 \in 1..Len(Data)
    BY <1>2
  <2> QED BY <1>1, <2>1 DEF ParserInv, Known
<1> DEFINE x == exports[e]
<1>4. ExportMade(x) /\ ExportLaidOut(x)
  BY <1>3 DEF ExportsInv
<1> HIDE DEF b, ms
<1>5. b = ManifestBox(x)
  <2>1. \A i : b # ItemBox(x, i)
    BY <1>1 DEF ItemBox, Box, deriveItemKey, deriveManifestKey
  <2> QED BY <1>3, <2>1 DEF BoxesOf
<1>6. /\ key = x.key /\ headerBytes = serialize(x.header)
      /\ b.plaintext = x.manifest /\ b.count = encodedSize(x.manifest)
  BY <1>1, <1>5 DEF ManifestBox, Box, deriveManifestKey
<1>7. ParsedHeader(Data) = x.header /\ ms = x.header.manifestSize
  <2>1. \A k \in 1..HeaderSize : Data[k] = serialize(x.header)[k]
    BY <1>2, <1>6
  <2>2. ParsedHeader(Data) = x.header
    BY <1>4, <2>1, SameBytesSameHeader
  <2> QED BY <2>2 DEF ParserInv, ms
<1>8. SameFront(e)
  <2> DEFINE E == HeaderSize + ms
  <2>1. \A k \in 1..E : x.data[k] = Data[k]
    <3> SUFFICES ASSUME NEW k \in 1..E PROVE x.data[k] = Data[k]
      OBVIOUS
    <3>1. CASE k <= HeaderSize
      BY <1>2, <1>4, <1>6, <3>1 DEF ExportLaidOut
    <3>2. CASE HeaderSize < k
      <4>1. /\ k - HeaderSize \in 1..ms /\ HeaderSize + (k - HeaderSize) = k
        BY <1>2, <3>2
      <4>2. x.data[k] = SealedByte(b, k - HeaderSize)
        BY <1>4, <1>5, <1>7, <4>1 DEF ExportLaidOut
      <4>3. ms = b.count + TagSize
        BY <1>4, <1>6, <1>7 DEF ExportMade
      <4>4. Data[k] = manifestBytes[k - HeaderSize]
        BY <1>2, <4>1
      <4>5. manifestBytes[k - HeaderSize] = SealedByte(b, k - HeaderSize)
        BY <1>1, <4>1, <4>3
      <4> QED BY <4>2, <4>4, <4>5
    <3> QED BY <1>2, <3>1, <3>2
  <2>2. /\ E \in Nat /\ 1 \in Nat /\ 1 <= E + 1 /\ E - 1 + 1 = E
        /\ \A k \in 1..E : 1 + k - 1 = k
    BY <1>2
  <2>5. E <= Len(x.data)
    BY <1>4, <1>7 DEF ExportLaidOut
  <2> HIDE DEF E
  <2>3. ASSUME NEW s
        PROVE  /\ Len(SubSeq(s, 1, E)) = E
               /\ \A k \in 1..E : SubSeq(s, 1, E)[k] = s[k]
               /\ IsSequence(SubSeq(s, 1, E))
    <3>1. /\ Len(SubSeq(s, 1, E)) = E - 1 + 1
          /\ \A i \in 1..(E - 1 + 1) : SubSeq(s, 1, E)[i] = s[1 + i - 1]
          /\ IsSequence(SubSeq(s, 1, E))
      BY <2>2, SubSeqFacts
    <3> QED BY <2>2, <3>1
  <2>4. \A s : SubSeq(s, 1, E) = [k \in 1..E |-> s[k]]
    BY <2>3, SequenceFacts
  <2> QED BY <1>2, <2>1, <2>4, <2>5 DEF SameFront, E
<1> QED
  BY <1>6, <1>8 DEF OpenedPlaintext, b

\* What an unlocked session says of the entry a descriptor names: it is the
\* only one with that id, and its record begins at a byte of the data.
LEMMA EntryFacts ==
    ASSUME BuilderInv, ExportsInv, ParserInv, SessionInv,
           UnlockedManifestWasExported, parser # None, cachedManifest # None,
           NEW d, Entries(d) # {}
    PROVE  /\ firstIndex(d) \in DOMAIN cachedManifest[1].items
           /\ cachedManifest[1].items[firstIndex(d)].id = d.id
           /\ RecordStart(firstIndex(d)) \in Nat
           /\ RecordEnd(firstIndex(d)) \in Nat
           /\ RecordStart(firstIndex(d)) < RecordEnd(firstIndex(d))
<1> DEFINE its == cachedManifest[1].items
           n == firstIndex(d)
<1>1. IsSequence(its) /\ validateManifest(cachedManifest[1])
  BY DEF UnlockedManifestWasExported, ExportsInv, ExportMade, SessionInv
<1>2. DOMAIN its = 1..Len(its) /\ Len(its) \in Nat
  BY <1>1, SequenceFacts
<1>3. \A i, j \in Entries(d) : i = j
  BY <1>1 DEF Entries, validateManifest
<1>4. \A i \in Entries(d) : i \in Nat /\ i \in DOMAIN its
  BY <1>2 DEF Entries
<1>5. \E i \in Entries(d) : \A j \in Entries(d) : i <= j
  BY <1>3, <1>4
<1>6. n \in Entries(d)
  BY <1>5 DEF firstIndex
<1> HIDE DEF n
<1>7. n \in 1..Len(its) /\ its[n].id = d.id
  BY <1>2, <1>6 DEF Entries
<1>8. its[n].itemSize \in TagSize..itemSizeMax
  BY <1>1, <1>2, <1>7
     DEF validateManifest, validateDescriptor, validateItemSize, itemSizeMin
<1>9. RecordBytes(its, n - 1) \in Nat /\ manifestEnd \in Nat
  BY <1>2, <1>7, RecordPairsFinite, OpenFacts
<1>10. /\ RecordStart(n) = manifestEnd + RecordBytes(its, n - 1)
       /\ RecordEnd(n) = RecordStart(n) + its[n].itemSize
  BY DEF RecordStart, RecordEnd
<1>11. /\ RecordStart(n) \in Nat /\ RecordEnd(n) \in Nat
       /\ RecordStart(n) < RecordEnd(n)
  BY <1>8, <1>9, <1>10, TagSizeAssumption, LimitsAssumption
<1> QED
  BY <1>2, <1>7, <1>11 DEF n

\* decrypt succeeds: what it returns is the plaintext of the item with that id
\* in the bundle whose manifest is unlocked.
LEMMA DecryptedItemWasExported ==
    ASSUME BuilderInv, ExportsInv, SaltsInv, ParserInv, SessionInv,
           UnlockedManifestWasExported, parser # None,
           NEW d, DecryptStatus(d) = "ok"
    PROVE  \E e \in DOMAIN exports :
              /\ SameFront(e)
              /\ cachedManifest[1] = exports[e].manifest
              /\ \E i \in DOMAIN exports[e].items :
                   /\ exports[e].items[i].id = d.id
                   /\ exports[e].items[i].plaintext
                        = OpenedPlaintext(Record(firstIndex(d)))
<1> DEFINE n == firstIndex(d)
           r == Record(n)
           b == r[1].box
<1>1. /\ masterKey # None /\ cachedManifest # None /\ Entries(d) # {}
      /\ ~ (Len(Data) < RecordEnd(n))
      /\ decryptItemAccepts(r, masterKey[1], d.id,
                            cachedManifest[1].items[n].itemNonce, headerBytes)
  BY DEF DecryptStatus
<1>2. PICK e \in DOMAIN exports :
         /\ SameFront(e)
         /\ cachedManifest[1] = exports[e].manifest
         /\ masterKey[1] = exports[e].key
  BY <1>1 DEF UnlockedManifestWasExported
<1>3. /\ r[1].kind = "sealed"
      /\ b.key = deriveItemKey(masterKey[1], d.id)
  BY <1>1 DEF decryptItemAccepts, openGCM
<1>4. /\ RecordStart(n) \in Nat /\ RecordEnd(n) \in Nat
      /\ RecordStart(n) < RecordEnd(n)
      /\ Len(Data) \in Nat
  BY <1>1, EntryFacts, OpenFacts
<1>5. r[1] = Data[RecordStart(n) + 1] /\ RecordStart(n) + 1 \in 1..Len(Data)
  <2>1. /\ RecordStart(n) + 1 \in Nat /\ RecordStart(n) + 1 <= RecordEnd(n) + 1
        /\ 1 \in 1..(RecordEnd(n) - (RecordStart(n) + 1) + 1)
        /\ (RecordStart(n) + 1) + 1 - 1 = RecordStart(n) + 1
        /\ RecordStart(n) + 1 \in 1..Len(Data)
    BY <1>1, <1>4
  <2> QED BY <1>4, <2>1, SubSeqFacts DEF Record
<1>6. PICK f \in DOMAIN exports : b \in BoxesOf(exports[f])
  BY <1>3, <1>5 DEF ParserInv, Known
<1> HIDE DEF b, n
<1>7. b # ManifestBox(exports[f])
  BY <1>3 DEF ManifestBox, Box, deriveItemKey, deriveManifestKey
<1>8. PICK i \in DOMAIN exports[f].items : b = ItemBox(exports[f], i)
  BY <1>6, <1>7 DEF BoxesOf
<1>9. /\ exports[f].key = masterKey[1] /\ exports[f].items[i].id = d.id
      /\ exports[f].items[i].plaintext = b.plaintext
  BY <1>3, <1>8 DEF ItemBox, Box, deriveItemKey
<1>10. e = f
  <2>1. exports[e].key.salt = exports[f].key.salt
    BY <1>2, <1>9
  <2>2. /\ exports[e].key.salt = exports[e].header.salt
        /\ exports[f].key.salt = exports[f].header.salt
    <3>1. ExportMade(exports[e]) /\ ExportMade(exports[f])
      BY <1>2, <1>6 DEF ExportsInv
    <3>2. \A x : ExportMade(x) => x.key.salt = x.header.salt
      BY DEF ExportMade, deriveKey
    <3> QED BY <3>1, <3>2
  <2> QED BY <1>2, <1>6, <2>1, <2>2 DEF SaltsInv
<1> QED
  BY <1>2, <1>8, <1>9, <1>10 DEF OpenedPlaintext, b, n

-----------------------------------------------------------------------------
(* Every state satisfies the invariant. *)

LEMMA InitIInv == Init => IInv
<1> SUFFICES ASSUME Init PROVE IInv
  OBVIOUS
<1>1. IsSequence(<<>>) /\ Len(<<>>) = 0 /\ DOMAIN <<>> = {}
  BY EmptySeq DEF IsSequence
<1>2. parser = None /\ masterKey = None /\ cachedManifest = None
  BY DEF Init
<1>3. exports = <<>> /\ file = <<>> /\ items = <<>>
  BY DEF Init
<1>4. BuilderInv
  BY <1>1, <1>3, TransferAssumption, EmptySeq DEF Init, BuilderInv
<1>5. ExportsInv /\ SaltsInv /\ FileInv
  BY <1>1, <1>3 DEF ExportsInv, SaltsInv, FileInv, Known
<1>6. ParserInv /\ SessionInv /\ UnlockedManifestWasExported
  BY <1>2 DEF ParserInv, SessionInv, UnlockedManifestWasExported
<1>7. DeliveredItemWasExported
  BY DEF Init, NoCall, DeliveredItemWasExported
<1> QED BY <1>4, <1>5, <1>6, <1>7 DEF IInv

\* What stays the same when exports, parser and session do.
LEMMA ParserUndisturbed ==
    ASSUME IInv, UNCHANGED <<exports, parser, session>>,
           result'.call # "decrypt"
    PROVE  /\ ParserInv' /\ SessionInv'
           /\ UnlockedManifestWasExported' /\ DeliveredItemWasExported'
<1>1. ParserInv'
  BY DEF IInv, ParserInv, Data, Header, manifestEnd, Known, session
<1>2. SessionInv'
  BY DEF IInv, SessionInv, Data, Header, manifestEnd, session
<1>3. UnlockedManifestWasExported'
  BY DEF IInv, UnlockedManifestWasExported, SameFront, Data, Header,
         manifestEnd, session
<1>4. DeliveredItemWasExported'
  BY DEF DeliveredItemWasExported
<1> QED BY <1>1, <1>2, <1>3, <1>4

\* What stays the same when the builder does.
LEMMA BuilderUndisturbed ==
    ASSUME IInv, UNCHANGED builderVars
    PROVE  BuilderInv' /\ ExportsInv' /\ SaltsInv'
BY DEF IInv, builderVars, BuilderInv, ExportsInv, SaltsInv

LEMMA FileUndisturbed ==
    ASSUME IInv, UNCHANGED <<file, exports>>
    PROVE  FileInv'
BY DEF IInv, FileInv, Known

LEMMA AddStep ==
    ASSUME IInv, NEW item \in Contents, add(item)
    PROVE  IInv'
<1>1. /\ UNCHANGED <<exports, parser, session>> /\ result'.call # "decrypt"
      /\ UNCHANGED <<file, exports>>
  BY DEF add, channelVars, NoCall
<1>2. BuilderInv'
  BY AppendProperties DEF add, IInv, BuilderInv
<1>3. ExportsInv' /\ SaltsInv'
  BY DEF add, IInv, ExportsInv, SaltsInv
<1> QED
  BY <1>1, <1>2, <1>3, ParserUndisturbed, FileUndisturbed DEF IInv

\* What is appended to exports comes last; the earlier bundles stay in place.
LEMMA AppendedExport ==
    ASSUME BuilderInv, NEW x, exports' = Append(exports, x)
    PROVE  /\ Len(exports) \in Nat /\ DOMAIN exports = 1..Len(exports)
           /\ DOMAIN exports' = 1..(Len(exports) + 1)
           /\ \A e \in 1..Len(exports) : exports'[e] = exports[e]
           /\ exports'[Len(exports) + 1] = x
           /\ IsSequence(exports')
<1> DEFINE n == Len(exports)
           S == {exports[e] : e \in DOMAIN exports} \cup {x}
           g == Append(exports, x)
<1>1. IsSequence(exports) /\ n \in Nat /\ DOMAIN exports = 1..n
  BY SequenceFacts DEF BuilderInv
<1>2. exports \in Seq(S) /\ x \in S
  <2>1. exports \in [1..n -> S]
    BY <1>1, SequenceFacts
  <2> QED BY <1>1, <2>1
<1>3. /\ g \in Seq(S) /\ Len(g) = n + 1
      /\ \A i \in 1..n : g[i] = exports[i]
      /\ g[n + 1] = x
  BY <1>2, AppendProperties
<1>4. g = [k \in 1..(n + 1) |-> g[k]]
  BY <1>3, LenProperties
<1>5. IsSequence(g) /\ DOMAIN g = 1..(n + 1)
  BY <1>1, <1>4, SequenceOfFunction
<1> QED BY <1>1, <1>3, <1>5

\* A new bundle leaves the earlier ones where they are.
LEMMA BuildStep ==
    ASSUME IInv, NEW p \in Passphrases, build(p)
    PROVE  IInv'
<1> DEFINE x == Export(p)
           n == Len(exports)
<1>1. /\ buildAccepts(p) /\ exports' = Append(exports, x)
      /\ rnd' = rnd + 2 + Len(items)
      /\ UNCHANGED <<parameters, items, file, parser, session>>
      /\ result'.call = "build"
  BY DEF build, channelVars, Outcome
<1>2. BuilderInv /\ ExportsInv /\ SaltsInv
  BY DEF IInv
<1>3. ExportMade(x) /\ ExportLaidOut(x)
  BY <1>1, <1>2, BuildMakesExport, BuildLaysOutExport
<1>4. x.header.salt = Rnd(rnd + 1)
  BY DEF Export, StagedHeader, BundleHeader, Salt
<1> HIDE DEF x
<1>5. n \in Nat /\ DOMAIN exports = 1..n
  BY <1>1, <1>2, AppendedExport
<1>6. /\ DOMAIN exports' = 1..(n + 1)
      /\ \A e \in 1..n : exports'[e] = exports[e]
      /\ exports'[n + 1] = x
      /\ IsSequence(exports')
  BY <1>1, <1>2, AppendedExport
<1>7. rnd \in Nat /\ Len(items) \in Nat /\ rnd' \in Nat /\ rnd + 1 \in 1..rnd'
  BY <1>1, <1>2, StagedFacts DEF BuilderInv
<1>8. BuilderInv'
  BY <1>1, <1>2, <1>6, <1>7 DEF BuilderInv
<1>9. ExportsInv'
  BY <1>2, <1>3, <1>5, <1>6 DEF ExportsInv
<1>10. SaltsInv'
  <2>1. \A e \in 1..n : \E k \in 1..rnd : exports[e].header.salt = Rnd(k)
    BY <1>2, <1>5 DEF SaltsInv
  <2>2. \A e \in 1..n : exports[e].header.salt # Rnd(rnd + 1)
    <3> SUFFICES ASSUME NEW e \in 1..n
                 PROVE  exports[e].header.salt # Rnd(rnd + 1)
      OBVIOUS
    <3>1. PICK k \in 1..rnd : exports[e].header.salt = Rnd(k)
      BY <2>1
    <3>2. k # rnd + 1
      BY <1>7
    <3>3. Rnd(k).value = k /\ Rnd(rnd + 1).value = rnd + 1
      BY DEF Rnd
    <3> QED BY <3>1, <3>2, <3>3
  <2>3. \A e \in 1..(n + 1) :
           \E k \in 1..rnd' : exports'[e].header.salt = Rnd(k)
    <3> SUFFICES ASSUME NEW e \in 1..(n + 1)
                 PROVE  \E k \in 1..rnd' : exports'[e].header.salt = Rnd(k)
      OBVIOUS
    <3>1. CASE e \in 1..n
      <4>1. 1..rnd \subseteq 1..rnd'
        BY <1>1, <1>7
      <4> QED BY <1>6, <2>1, <3>1, <4>1
    <3>2. CASE e = n + 1
      BY <1>4, <1>6, <1>7, <3>2
    <3> QED BY <1>5, <3>1, <3>2
  <2>4. \A e, f \in 1..(n + 1) :
           exports'[e].header.salt = exports'[f].header.salt => e = f
    <3> SUFFICES ASSUME NEW e \in 1..(n + 1), NEW f \in 1..(n + 1),
                        exports'[e].header.salt = exports'[f].header.salt
                 PROVE  e = f
      OBVIOUS
    <3>1. CASE e \in 1..n /\ f \in 1..n
      BY <1>2, <1>5, <1>6, <3>1 DEF SaltsInv
    <3>2. CASE e \in 1..n /\ f = n + 1
      BY <1>4, <1>6, <2>2, <3>2
    <3>3. CASE e = n + 1 /\ f \in 1..n
      BY <1>4, <1>6, <2>2, <3>3
    <3> QED BY <1>5, <3>1, <3>2, <3>3
  <2> QED BY <1>6, <2>3, <2>4 DEF SaltsInv
<1>11. \A d : Known(d) => Known(d)'
  BY <1>5, <1>6 DEF Known
<1>12. FileInv'
  BY <1>1, <1>11 DEF IInv, FileInv, Known
<1>13. ParserInv'
  BY <1>1, <1>11 DEF IInv, ParserInv, Data, Header, manifestEnd, Known
<1>14. SessionInv'
  BY <1>1 DEF IInv, SessionInv, Data, Header, manifestEnd, session
<1>15. UnlockedManifestWasExported'
  <2> SUFFICES ASSUME (cachedManifest # None)'
               PROVE  \E e \in 1..(n + 1) :
                         /\ SameFront(e)'
                         /\ cachedManifest'[1] = exports'[e].manifest
                         /\ masterKey'[1] = exports'[e].key
    BY <1>6 DEF UnlockedManifestWasExported
  <2>1. cachedManifest' = cachedManifest /\ masterKey' = masterKey
        /\ parser' = parser
    BY <1>1 DEF session
  <2>2. PICK e \in 1..n : /\ SameFront(e)
                          /\ cachedManifest[1] = exports[e].manifest
                          /\ masterKey[1] = exports[e].key
    BY <1>5, <2>1 DEF IInv, UnlockedManifestWasExported, None
  <2>3. e \in 1..(n + 1) /\ exports'[e] = exports[e]
    BY <1>5, <1>6
  <2>4. SameFront(e)'
    BY <2>1, <2>2, <2>3 DEF SameFront, Data, Header, manifestEnd
  <2> QED BY <2>1, <2>2, <2>3, <2>4
<1>16. DeliveredItemWasExported'
  BY <1>1 DEF DeliveredItemWasExported
<1> QED
  BY <1>8, <1>9, <1>10, <1>12, <1>13, <1>14, <1>15, <1>16 DEF IInv

LEMMA SendStep ==
    ASSUME IInv, NEW e \in DOMAIN exports, Send(e)
    PROVE  IInv'
<1>1. /\ UNCHANGED <<exports, parser, session>> /\ result'.call # "decrypt"
      /\ UNCHANGED builderVars
  BY DEF Send, builderVars, NoCall
<1>2. IsSequence(exports[e].data) /\ Known(exports[e].data)
  BY DEF IInv, ExportsInv, ExportLaidOut, Known
<1>3. FileInv'
  BY <1>1, <1>2 DEF Send, FileInv, Known
<1> QED
  BY <1>1, <1>3, ParserUndisturbed, BuilderUndisturbed DEF IInv

\* Damage leaves a sequence of bytes each of which was in the file or in a
\* bundle, or belongs to no box.
LEMMA DamagedStep ==
    ASSUME IInv, NEW f, Damaged(f), IsSequence(f), Known(f)
    PROVE  IInv'
<1>1. /\ UNCHANGED <<exports, parser, session>> /\ result'.call # "decrypt"
      /\ UNCHANGED builderVars /\ file' = f
  BY DEF Damaged, builderVars, NoCall
<1>2. FileInv'
  BY <1>1 DEF FileInv, Known
<1> QED
  BY <1>1, <1>2, ParserUndisturbed, BuilderUndisturbed DEF IInv

LEMMA DamageStep ==
    ASSUME IInv, Damage
    PROVE  IInv'
<1>1. ExportsInv /\ Known(file) /\ IsSequence(file)
  BY DEF IInv, FileInv
<1>2. Len(file) \in Nat /\ DOMAIN file = 1..Len(file)
  BY <1>1, SequenceFacts
<1>3. ASSUME NEW i \in 1..Len(file), Corrupt(i) PROVE IInv'
  <2> DEFINE f == [file EXCEPT ![i] = Noise]
  <2>1. f = [k \in 1..Len(file) |-> f[k]]
    BY <1>2
  <2>2. IsSequence(f) /\ Len(f) = Len(file)
    BY <1>2, <2>1, SequenceOfFunction
  <2>3. \A k \in 1..Len(f) : f[k] = Noise \/ f[k] = file[k]
    BY <1>2, <2>2
  <2>4. Noise.kind # "sealed"
    BY DEF Noise
  <2>5. \A k \in 1..Len(f) : \/ f[k].kind # "sealed"
                            \/ \E j \in 1..Len(file) : f[k] = file[j]
    BY <1>2, <2>2, <2>3, <2>4
  <2> HIDE DEF f
  <2>6. Known(f)
    BY <1>1, <2>5, KnownBytes
  <2> QED BY <1>3, <2>2, <2>6, DamagedStep DEF Corrupt, f
<1>4. ASSUME NEW i \in 1..Len(file), NEW n, ChangeField(i, n) PROVE IInv'
  <2> DEFINE f == [file EXCEPT ![i] = Num(n)]
  <2>1. f = [k \in 1..Len(file) |-> f[k]]
    BY <1>2
  <2>2. IsSequence(f) /\ Len(f) = Len(file)
    BY <1>2, <2>1, SequenceOfFunction
  <2>3. \A k \in 1..Len(f) : f[k] = Num(n) \/ f[k] = file[k]
    BY <1>2, <2>2
  <2>4. Num(n).kind # "sealed"
    BY DEF Num
  <2>5. \A k \in 1..Len(f) : \/ f[k].kind # "sealed"
                            \/ \E j \in 1..Len(file) : f[k] = file[j]
    BY <1>2, <2>2, <2>3, <2>4
  <2> HIDE DEF f
  <2>6. Known(f)
    BY <1>1, <2>5, KnownBytes
  <2> QED BY <1>4, <2>2, <2>6, DamagedStep DEF ChangeField, f
<1>5. ASSUME NEW i \in 1..Len(file), NEW j \in 1..Len(file),
             NEW n \in SpliceLengths, Swap(i, j, n)
      PROVE  IInv'
  <2> DEFINE f == [k \in 1..Len(file) |->
                     IF k \in i..(i + n - 1) THEN file[j + k - i]
                     ELSE IF k \in j..(j + n - 1) THEN file[i + k - j]
                     ELSE file[k]]
  <2>1. f = [k \in 1..Len(file) |-> f[k]]
    OBVIOUS
  <2>2. IsSequence(f) /\ Len(f) = Len(file)
    BY <1>2, <2>1, SequenceOfFunction
  <2>3. n \in Nat /\ i + n <= j /\ j + n - 1 <= Len(file)
    BY <1>5, TransferAssumption DEF Swap
  <2>4. \A k \in 1..Len(f) : \E m \in 1..Len(file) : f[k] = file[m]
    <3> SUFFICES ASSUME NEW k \in 1..Len(file)
                 PROVE  \E m \in 1..Len(file) : f[k] = file[m]
      BY <2>2
    <3>1. CASE k \in i..(i + n - 1)
      BY <1>2, <2>3, <3>1
    <3>2. CASE k \notin i..(i + n - 1) /\ k \in j..(j + n - 1)
      BY <1>2, <2>3, <3>2
    <3>3. CASE k \notin i..(i + n - 1) /\ k \notin j..(j + n - 1)
      BY <1>2, <2>3, <3>3
    <3> QED BY <3>1, <3>2, <3>3
  <2> HIDE DEF f
  <2>5. Known(f)
    BY <1>1, <2>4, KnownBytes
  <2> QED BY <1>5, <2>2, <2>5, DamagedStep DEF Swap, f
<1>6. ASSUME NEW n \in 0..Len(file), Truncate(n) PROVE IInv'
  <2> DEFINE f == SubSeq(file, 1, n)
  <2>1. /\ 1 \in Nat /\ n \in Nat /\ 1 <= n + 1 /\ n - 1 + 1 = n
        /\ \A k \in 1..n : 1 + k - 1 = k
    BY <1>2
  <2>2. IsSequence(f) /\ Len(f) = n /\ \A k \in 1..n : f[k] = file[k]
    BY <2>1, SubSeqFacts
  <2>3. \A k \in 1..Len(f) : k \in 1..Len(file)
    BY <1>2, <2>2
  <2>4. Known(f)
    BY <1>1, <2>2, <2>3, KnownBytes
  <2> QED BY <1>6, <2>2, <2>4, DamagedStep DEF Truncate
<1>7. ASSUME NEW e \in DOMAIN exports, Extend(e) PROVE IInv'
  <2> DEFINE d == exports[e].data
             f == file \o d
             S == {file[k] : k \in DOMAIN file} \cup {d[k] : k \in DOMAIN d}
  <2>1. IsSequence(d) /\ Len(d) \in Nat /\ DOMAIN d = 1..Len(d)
    BY <1>1, SequenceFacts DEF ExportsInv, ExportLaidOut
  <2>2. file \in Seq(S) /\ d \in Seq(S)
    <3>1. file \in [1..Len(file) -> S] /\ d \in [1..Len(d) -> S]
      BY <1>1, <1>2, <2>1, SequenceFacts
    <3> QED BY SMTT(30), <1>2, <2>1, <3>1
  <2>3. /\ f \in Seq(S) /\ Len(f) = Len(file) + Len(d)
        /\ \A k \in 1..(Len(file) + Len(d)) :
              f[k] = IF k <= Len(file) THEN file[k] ELSE d[k - Len(file)]
    BY <2>2, ConcatProperties
  <2>4. IsSequence(f)
    BY <2>3, LenProperties, SequenceOfFunction
  <2>5. \A k \in 1..Len(f) :
           \/ \E j \in 1..Len(file) : f[k] = file[j]
           \/ \E j \in 1..Len(d) : f[k] = d[j]
    <3> SUFFICES ASSUME NEW k \in 1..(Len(file) + Len(d))
                 PROVE  \/ \E j \in 1..Len(file) : f[k] = file[j]
                        \/ \E j \in 1..Len(d) : f[k] = d[j]
      BY <2>3
    <3>1. CASE k <= Len(file)
      BY <1>2, <2>1, <2>3, <3>1
    <3>2. CASE Len(file) < k
      <4>1. k - Len(file) \in 1..Len(d) /\ f[k] = d[k - Len(file)]
        BY <1>2, <2>1, <2>3, <3>2
      <4> QED BY <4>1
    <3> QED BY <1>2, <2>1, <3>1, <3>2
  <2> HIDE DEF f
  <2>6. Known(f)
    BY <1>1, <2>5, KnownBytes
  <2> QED BY <1>7, <2>4, <2>6, DamagedStep DEF Extend, f
<1>8. ASSUME NEW e \in DOMAIN exports, NEW i \in 1..Len(file),
             NEW j \in 1..Len(exports[e].data), NEW n \in SpliceLengths,
             Splice(e, i, j, n)
      PROVE  IInv'
  <2> DEFINE d == exports[e].data
             f == [k \in 1..Len(file) |->
                     IF k \in i..(i + n - 1) THEN d[j + k - i] ELSE file[k]]
  <2>1. f = [k \in 1..Len(file) |-> f[k]]
    OBVIOUS
  <2>2. IsSequence(f) /\ Len(f) = Len(file)
    BY <1>2, <2>1, SequenceOfFunction
  <2>3. n \in Nat /\ j + n - 1 <= Len(d) /\ Len(d) \in Nat
    BY <1>1, <1>8, TransferAssumption, SequenceFacts
       DEF Splice, ExportsInv, ExportLaidOut
  <2>4. \A k \in 1..Len(f) :
           \/ \E m \in 1..Len(file) : f[k] = file[m]
           \/ \E m \in 1..Len(d) : f[k] = d[m]
    <3> SUFFICES ASSUME NEW k \in 1..Len(file)
                 PROVE  \/ \E m \in 1..Len(file) : f[k] = file[m]
                        \/ \E m \in 1..Len(d) : f[k] = d[m]
      BY <2>2
    <3>1. CASE k \in i..(i + n - 1)
      <4>1. j + k - i \in 1..Len(d) /\ f[k] = d[j + k - i]
        BY <1>2, <2>3, <3>1
      <4> QED BY <4>1
    <3>2. CASE k \notin i..(i + n - 1)
      BY <3>2
    <3> QED BY <3>1, <3>2
  <2> HIDE DEF f
  <2>5. Known(f)
    BY <1>1, <2>4, KnownBytes
  <2> QED BY <1>8, <2>2, <2>5, DamagedStep DEF Splice, f
<1> QED
  BY <1>3, <1>4, <1>5, <1>6, <1>7, <1>8 DEF Damage

LEMMA BuildThrowsStep ==
    ASSUME IInv, NEW p \in Passphrases, buildThrows(p)
    PROVE  IInv'
<1>1. /\ UNCHANGED <<exports, parser, session>> /\ result'.call # "decrypt"
      /\ UNCHANGED builderVars /\ UNCHANGED <<file, exports>>
  BY DEF buildThrows, builderVars, channelVars, Outcome
<1> QED
  BY <1>1, ParserUndisturbed, BuilderUndisturbed, FileUndisturbed DEF IInv

\* A parser that opens takes the bytes of the file as they are.
LEMMA OpenStep ==
    ASSUME IInv, open
    PROVE  IInv'
<1>1. /\ parser = None /\ UNCHANGED builderVars /\ UNCHANGED <<file, exports>>
      /\ UNCHANGED session /\ result'.call # "decrypt"
  BY DEF open, builderVars, channelVars, Outcome
<1>2. masterKey' = None /\ cachedManifest' = None
  BY <1>1 DEF IInv, SessionInv, session
<1>3. ParserInv'
  <2> SUFFICES ASSUME (parser # None)'
               PROVE  (/\ IsSequence(Data) /\ Known(Data)
                       /\ parseAccepts(Data)
                       /\ Header = ParsedHeader(Data)
                       /\ manifestEnd <= Len(Data))'
    BY DEF ParserInv
  <2>1. /\ openAccepts
        /\ parser' = <<[data |-> file, header |-> ParsedHeader(file)]>>
    BY DEF open, Some
  <2>2. Data' = file /\ Header' = ParsedHeader(file)
    BY <2>1 DEF Data, Header
  <2>3. IsSequence(file) /\ Known(file)
    BY DEF IInv, FileInv
  <2>4. Known(Data)'
    BY <1>1, <2>2, <2>3 DEF Known
  <2>5. /\ parseAccepts(file) /\ Len(file) \in Nat /\ HeaderSize \in Nat
        /\ HeaderSize + ParsedHeader(file).manifestSize <= Len(file)
    <3>1. ParsedHeader(file).manifestSize \in Nat
      BY <2>1, TagSizeAssumption, LimitsAssumption
         DEF openAccepts, parseAccepts, validateManifestSize, manifestSizeMin
    <3> QED BY <2>1, <2>3, <3>1, SequenceFacts DEF openAccepts, HeaderSize
  <2>6. (manifestEnd <= Len(Data))'
    BY <2>2, <2>5 DEF manifestEnd
  <2> QED BY <2>2, <2>3, <2>4, <2>5, <2>6
<1>4. SessionInv' /\ UnlockedManifestWasExported' /\ DeliveredItemWasExported'
  BY <1>1, <1>2
     DEF SessionInv, UnlockedManifestWasExported, DeliveredItemWasExported
<1> QED
  BY <1>1, <1>3, <1>4, BuilderUndisturbed, FileUndisturbed DEF IInv

\* An unlock that succeeds opened the manifest of a bundle.
LEMMA UnlockStep ==
    ASSUME IInv, NEW p \in Passphrases, unlock(p)
    PROVE  IInv'
<1>1. /\ parser # None /\ UNCHANGED builderVars /\ UNCHANGED <<file, exports>>
      /\ parser' = parser /\ result'.call # "decrypt"
  BY DEF unlock, builderVars, channelVars, Outcome
<1>2. CASE UNCHANGED session
  BY <1>1, <1>2, ParserUndisturbed, BuilderUndisturbed, FileUndisturbed
     DEF IInv
<1>3. CASE ~ UNCHANGED session
  <2> DEFINE key == deriveKey(p, Header.salt, Header.parameters)
             manifest == OpenedPlaintext(manifestBytes)
  <2>1. /\ UnlockStatus(p) = "ok"
        /\ masterKey' = <<key>> /\ cachedManifest' = <<manifest>>
    BY <1>3 DEF unlock, Some
  <2>2. /\ decryptManifestAccepts(manifestBytes, key, Header.manifestNonce,
                                  headerBytes)
        /\ validateManifest(manifest)
        /\ ~ (RecordBytes(manifest.items, Len(manifest.items))
                  > Len(Data) - manifestEnd)
    BY <2>1 DEF UnlockStatus
  <2> HIDE DEF key, manifest
  <2>3. /\ Data' = Data /\ Header' = Header /\ manifestEnd' = manifestEnd
    BY <1>1 DEF Data, Header, manifestEnd
  <2>4. /\ masterKey'[1] = key /\ cachedManifest'[1] = manifest
        /\ masterKey' # None /\ cachedManifest' # None
    BY <2>1 DEF None
  <2>5. PICK e \in DOMAIN exports : /\ SameFront(e)
                                    /\ manifest = exports[e].manifest
                                    /\ key = exports[e].key
    BY <1>1, <2>2, OpenedManifestWasExported DEF IInv, manifest
  <2>6. RecordBytes(manifest.items, Len(manifest.items))
             <= Len(Data) - manifestEnd
    <3>1. Len(Data) \in Nat /\ manifestEnd \in Nat
      BY <1>1, OpenFacts DEF IInv
    <3>2. Len(manifest.items) \in Nat
      BY <2>5, SequenceFacts DEF IInv, ExportsInv, ExportMade
    <3>3. RecordBytes(manifest.items, Len(manifest.items)) \in Nat
      BY <3>2, RecordPairsFinite
    <3> QED BY <2>2, <3>1, <3>3
  <2>7. SessionInv'
    BY <1>1, <2>2, <2>3, <2>4, <2>6 DEF SessionInv
  <2>8. UnlockedManifestWasExported'
    <3>1. SameFront(e)'
      BY <1>1, <2>3, <2>5 DEF SameFront
    <3> QED
      BY <1>1, <2>4, <2>5, <3>1 DEF UnlockedManifestWasExported
  <2>9. ParserInv'
    BY <1>1, <2>3 DEF IInv, ParserInv, Known
  <2>10. DeliveredItemWasExported'
    BY <1>1 DEF DeliveredItemWasExported
  <2> QED
    BY <1>1, <2>7, <2>8, <2>9, <2>10, BuilderUndisturbed, FileUndisturbed
       DEF IInv
<1> QED BY <1>2, <1>3

LEMMA UnlockOutOfResourcesStep ==
    ASSUME IInv, NEW p \in Passphrases, unlockOutOfResources(p)
    PROVE  IInv'
<1>1. /\ UNCHANGED <<exports, parser, session>> /\ result'.call # "decrypt"
      /\ UNCHANGED builderVars /\ UNCHANGED <<file, exports>>
  BY DEF unlockOutOfResources, builderVars, channelVars, Outcome
<1> QED
  BY <1>1, ParserUndisturbed, BuilderUndisturbed, FileUndisturbed DEF IInv

\* decrypt changes nothing but the result.
LEMMA DecryptStep ==
    ASSUME IInv, NEW d, decrypt(d)
    PROVE  IInv'
<1>1. /\ parser # None /\ UNCHANGED builderVars /\ UNCHANGED <<file, exports>>
      /\ UNCHANGED <<exports, parser, session>>
      /\ masterKey' = masterKey /\ cachedManifest' = cachedManifest
      /\ result'.argument = <<d>> /\ result'.status = DecryptStatus(d)
      /\ DecryptStatus(d) = "ok" =>
            result'.value = <<OpenedPlaintext(Record(firstIndex(d)))>>
  BY DEF decrypt, builderVars, channelVars, session, Outcome, Some
<1>2. ParserInv' /\ SessionInv' /\ UnlockedManifestWasExported'
  BY <1>1
     DEF IInv, ParserInv, SessionInv, UnlockedManifestWasExported, SameFront,
         Data, Header, manifestEnd, Known
<1>3. DeliveredItemWasExported'
  <2> SUFFICES ASSUME DecryptStatus(d) = "ok"
               PROVE  \E e \in DOMAIN exports :
                         /\ SameFront(e)'
                         /\ cachedManifest'[1] = exports[e].manifest
                         /\ \E i \in DOMAIN exports[e].items :
                              /\ exports[e].items[i].id = result'.argument[1].id
                              /\ exports[e].items[i].plaintext
                                    = result'.value[1]
    BY <1>1 DEF DeliveredItemWasExported
  <2>1. result'.argument[1] = d
        /\ result'.value[1] = OpenedPlaintext(Record(firstIndex(d)))
    BY <1>1
  <2>2. PICK e \in DOMAIN exports :
           /\ SameFront(e)
           /\ cachedManifest[1] = exports[e].manifest
           /\ \E i \in DOMAIN exports[e].items :
                /\ exports[e].items[i].id = d.id
                /\ exports[e].items[i].plaintext
                     = OpenedPlaintext(Record(firstIndex(d)))
    BY <1>1, DecryptedItemWasExported DEF IInv
  <2>3. SameFront(e)'
    BY <1>1, <2>2 DEF SameFront, Data, Header, manifestEnd
  <2> QED BY <1>1, <2>1, <2>2, <2>3
<1> QED
  BY <1>1, <1>2, <1>3, BuilderUndisturbed, FileUndisturbed DEF IInv

LEMMA LockStep ==
    ASSUME IInv, lock
    PROVE  IInv'
<1>1. /\ parser # None /\ UNCHANGED builderVars /\ UNCHANGED <<file, exports>>
      /\ parser' = parser /\ result'.call # "decrypt"
      /\ masterKey' = None /\ cachedManifest' = None
  BY DEF lock, builderVars, channelVars, Outcome
<1>2. ParserInv'
  BY <1>1 DEF IInv, ParserInv, Data, Header, manifestEnd, Known
<1>3. SessionInv' /\ UnlockedManifestWasExported' /\ DeliveredItemWasExported'
  BY <1>1
     DEF SessionInv, UnlockedManifestWasExported, DeliveredItemWasExported
<1> QED
  BY <1>1, <1>2, <1>3, BuilderUndisturbed, FileUndisturbed DEF IInv

LEMMA StutterStep ==
    ASSUME IInv, UNCHANGED vars
    PROVE  IInv'
<1>1. /\ UNCHANGED builderVars /\ UNCHANGED <<file, exports>>
      /\ UNCHANGED <<exports, parser, session>> /\ result' = result
      /\ cachedManifest' = cachedManifest
  BY DEF vars, builderVars, channelVars, session
<1>2. ParserInv' /\ SessionInv' /\ UnlockedManifestWasExported'
  BY <1>1
     DEF IInv, ParserInv, SessionInv, UnlockedManifestWasExported, SameFront,
         Data, Header, manifestEnd, Known, session
<1>3. DeliveredItemWasExported'
  BY <1>1 DEF IInv, DeliveredItemWasExported, SameFront, Data, Header,
              manifestEnd
<1> QED
  BY <1>1, <1>2, <1>3, BuilderUndisturbed, FileUndisturbed DEF IInv

\* Builders, channel and parsers keep the inductive invariant.
THEOREM Invariance == Spec => []IInv
<1>1. Init => IInv
  BY InitIInv
<1>2. IInv /\ [Next]_vars => IInv'
  <2> SUFFICES ASSUME IInv, [Next]_vars PROVE IInv'
    OBVIOUS
  <2>1. ASSUME NEW item \in Contents, add(item) PROVE IInv'
    BY <2>1, AddStep
  <2>2. ASSUME NEW p \in Passphrases, build(p) \/ buildThrows(p) PROVE IInv'
    BY <2>2, BuildStep, BuildThrowsStep
  <2>3. ASSUME NEW e \in DOMAIN exports, Send(e) PROVE IInv'
    BY <2>3, SendStep
  <2>4. CASE Damage
    BY <2>4, DamageStep
  <2>5. CASE open
    BY <2>5, OpenStep
  <2>6. ASSUME NEW p \in Passphrases, unlock(p) \/ unlockOutOfResources(p)
        PROVE  IInv'
    BY <2>6, UnlockStep, UnlockOutOfResourcesStep
  <2>7. ASSUME NEW d \in KnownDescriptors, decrypt(d) PROVE IInv'
    BY <2>7, DecryptStep
  <2>8. CASE lock
    BY <2>8, LockStep
  <2>9. CASE UNCHANGED vars
    BY <2>9, StutterStep
  <2> QED
    BY <2>1, <2>2, <2>3, <2>4, <2>5, <2>6, <2>7, <2>8, <2>9 DEF Next
<1> QED BY <1>1, <1>2, PTL DEF Spec

\* BundleParser.unlock accepts only the manifest of a bundle BundleBuilder
\* built, with the header it was built with, whatever the channel did.
THEOREM UnlockedManifestIsGenuine == Spec => []UnlockedManifestWasExported
<1>1. IInv => UnlockedManifestWasExported
  BY DEF IInv
<1> QED BY <1>1, Invariance, PTL

\* BundleParser.decrypt returns only the plaintext of an item that was
\* exported under that id in the bundle whose manifest is unlocked.
THEOREM DeliveredItemIsGenuine == Spec => []DeliveredItemWasExported
<1>1. IInv => DeliveredItemWasExported
  BY DEF IInv
<1> QED BY <1>1, Invariance, PTL

\* The records of an unlocked manifest lie within the data, end to end, so
\* decrypt's truncation check never fails after unlockWithKey's.
THEOREM RecordsLieInsideData == Spec => []RecordsInsideData
<1>1. IInv => RecordsInsideData
  <2> SUFFICES ASSUME IInv, cachedManifest # None,
                      NEW i \in DOMAIN cachedManifest[1].items
               PROVE  /\ RecordEnd(i) <= Len(Data)
                      /\ i > 1 => RecordStart(i) = RecordEnd(i - 1)
    BY DEF RecordsInsideData
  <2> DEFINE its == cachedManifest[1].items
  <2>1. /\ IsSequence(its) /\ validateManifest(cachedManifest[1])
        /\ RecordBytes(its, Len(its)) <= Len(Data) - manifestEnd
        /\ parser # None
    BY DEF IInv, UnlockedManifestWasExported, ExportsInv, ExportMade,
           SessionInv
  <2>2. DOMAIN its = 1..Len(its) /\ Len(its) \in Nat
    BY <2>1, SequenceFacts
  <2>3. \A k \in 1..Len(its) : its[k].itemSize \in 0..itemSizeMax
    BY SMTT(30), <2>1, <2>2, TagSizeAssumption, LimitsAssumption
       DEF validateManifest, validateDescriptor, validateItemSize, itemSizeMin
  <2>4. Len(Data) \in Nat /\ manifestEnd \in Nat
    BY <2>1, OpenFacts DEF IInv
  <2> HIDE DEF its
  <2>5. \A k \in 1..Len(its) : /\ k - 1 \in Nat
                               /\ RecordBytes(its, k - 1) \in Nat
                               /\ RecordBytes(its, k) \in Nat
                               /\ RecordBytes(its, k)
                                    = RecordBytes(its, k - 1) + its[k].itemSize
                               /\ RecordBytes(its, k)
                                    <= RecordBytes(its, Len(its))
    <3>1. \A k \in 1..Len(its) : k - 1 \in Nat /\ Len(its) \in k..Len(its)
      BY <2>2
    <3> QED BY <2>2, <2>3, <3>1, RecordsEndToEnd
  <2>6. /\ \A k \in 1..Len(its) : its[k].itemSize \in Nat
        /\ RecordBytes(its, Len(its)) \in Nat
    BY <2>2, <2>3, LimitsAssumption, RecordPairsFinite
  <2>7. \A k \in 1..Len(its) :
           /\ RecordStart(k) = manifestEnd + RecordBytes(its, k - 1)
           /\ RecordEnd(k) = manifestEnd + RecordBytes(its, k)
    <3>1. \A k : /\ RecordStart(k) = manifestEnd + RecordBytes(its, k - 1)
                 /\ RecordEnd(k) = RecordStart(k) + its[k].itemSize
      BY DEF RecordStart, RecordEnd, its
    <3>2. \A k \in 1..Len(its) :
             (manifestEnd + RecordBytes(its, k - 1)) + its[k].itemSize
                 = manifestEnd + RecordBytes(its, k)
      BY <2>4, <2>5, <2>6
    <3> QED BY <3>1, <3>2
  <2>8. i \in 1..Len(its)
    BY <2>2 DEF its
  <2>9. RecordEnd(i) <= Len(Data)
    BY <2>1, <2>4, <2>5, <2>6, <2>7, <2>8 DEF its
  <2>10. ASSUME i > 1 PROVE RecordStart(i) = RecordEnd(i - 1)
    <3>1. i - 1 \in 1..Len(its)
      BY <2>2, <2>8, <2>10
    <3> QED BY <2>7, <2>8, <3>1
  <2> QED BY <2>9, <2>10
<1> QED BY <1>1, Invariance, PTL

\* Only build makes bundles; nothing changes a builder's parameters, and only
\* BundleParser.init gives a parser its data.
LEMMA StepEffects ==
    ASSUME [Next]_vars, damage \in Nat
    PROVE  /\ parameters' = parameters
           /\ damage' \in Nat
           /\ \/ exports' = exports
              \/ \E p \in Passphrases :
                    buildAccepts(p) /\ exports' = Append(exports, Export(p))
           /\ \/ parser' = parser
              \/ open
<1>1. CASE \E item \in Contents : add(item)
  BY <1>1 DEF add, channelVars
<1>2. CASE \E p \in Passphrases : build(p)
  BY <1>2 DEF build, channelVars
<1>3. CASE \E p \in Passphrases : buildThrows(p)
  BY <1>3 DEF buildThrows, builderVars, channelVars
<1>4. CASE \E e \in DOMAIN exports : Send(e)
  BY <1>4 DEF Send, builderVars
<1>5. CASE Damage
  <2>1. PICK f : Damaged(f)
    BY <1>5 DEF Damage, Corrupt, ChangeField, Truncate, Extend, Splice, Swap
  <2> QED BY <2>1 DEF Damaged, builderVars
<1>6. CASE open
  BY <1>6 DEF open, builderVars, channelVars
<1>7. CASE \E p \in Passphrases : unlock(p) \/ unlockOutOfResources(p)
  BY <1>7 DEF unlock, unlockOutOfResources, builderVars, channelVars
<1>8. CASE \E d \in KnownDescriptors : decrypt(d)
  BY <1>8 DEF decrypt, builderVars, channelVars
<1>9. CASE lock
  BY <1>9 DEF lock, builderVars, channelVars
<1>10. CASE UNCHANGED vars
  BY <1>10 DEF vars, builderVars, channelVars
<1> QED
  BY <1>1, <1>2, <1>3, <1>4, <1>5, <1>6, <1>7, <1>8, <1>9, <1>10 DEF Next

\* Every state has the types of the code, with the limits BundleParser.init
\* and Argon2idParameters.init enforce.
THEOREM TypeCorrect == Spec => []TypeOK
<1>1. Init => TypeOK
  <2> SUFFICES ASSUME Init PROVE TypeOK
    OBVIOUS
  <2>1. items = <<>> /\ exports = <<>> /\ DOMAIN exports = {}
        /\ parser = None /\ masterKey = None /\ cachedManifest = None
        /\ rnd = 0 /\ damage = 0 /\ validateArgon2Params(parameters)
    BY DEF Init
  <2> QED BY <2>1, EmptySeq DEF TypeOK
<1>2. IInv /\ IInv' /\ TypeOK /\ [Next]_vars => TypeOK'
  <2> SUFFICES ASSUME IInv, IInv', TypeOK, [Next]_vars PROVE TypeOK'
    OBVIOUS
  <2>1. /\ parameters' = parameters
        /\ damage' \in Nat
        /\ \/ exports' = exports
           \/ \E p \in Passphrases : exports' = Append(exports, Export(p))
        /\ \/ parser' = parser
           \/ open
    BY StepEffects DEF TypeOK
  <2>2. validateArgon2Params(parameters)'
    BY <2>1 DEF TypeOK
  <2>3. (/\ items \in Seq(Contents) /\ rnd \in Nat
         /\ masterKey = None <=> cachedManifest = None)'
    BY DEF IInv, BuilderInv, SessionInv
  <2>4. (\A e \in DOMAIN exports : exports[e].items \in Seq(Contents))'
    <3>1. CASE exports' = exports
      BY <3>1 DEF TypeOK
    <3>2. CASE \E p \in Passphrases : exports' = Append(exports, Export(p))
      <4>1. PICK p \in Passphrases : exports' = Append(exports, Export(p))
        BY <3>2
      <4>2. Export(p).items \in Seq(Contents)
        BY DEF Export, IInv, BuilderInv
      <4>3. \A e \in DOMAIN exports' : exports'[e].items \in Seq(Contents)
        BY <4>1, <4>2, AppendedExport DEF TypeOK, IInv
      <4> QED BY <4>3
    <3> QED BY <2>1, <3>1, <3>2
  <2>5. ASSUME (parser # None)'
        PROVE  (/\ validateArgon2Params(Header.parameters)
                /\ validateManifestSize(Header.manifestSize)
                /\ manifestEnd <= Len(Data)
                /\ validateTotalFileSize(Len(Data)))'
    <3>1. (/\ parseAccepts(Data) /\ Header = ParsedHeader(Data)
           /\ manifestEnd <= Len(Data))'
      BY <2>5 DEF IInv, ParserInv
    <3>2. validateTotalFileSize(Len(Data))'
      <4>1. CASE parser' = parser
        BY <2>5, <4>1 DEF TypeOK, Data, validateTotalFileSize
      <4>2. CASE open
        <5>1. /\ openAccepts
              /\ parser' = <<[data |-> file, header |-> ParsedHeader(file)]>>
          BY <2>5, <4>2 DEF open, Some
        <5>2. Data' = file
          BY <5>1 DEF Data
        <5> QED BY <5>1, <5>2 DEF openAccepts, validateTotalFileSize
      <4> QED BY <2>1, <4>1, <4>2
    <3> QED
      BY <3>1, <3>2 DEF parseAccepts
  <2> QED BY <2>1, <2>2, <2>3, <2>4, <2>5 DEF TypeOK
<1> QED BY <1>1, <1>2, Invariance, PTL DEF Spec

\* An unlocked session survives every call but lock, failed unlocks included.
THEOREM SessionIsKept == Spec => SessionChangesOnlyByUnlockAndLock
<1>1. [Next]_vars => [SessionStep]_vars
  <2> SUFFICES ASSUME Next PROVE SessionStep
    OBVIOUS
  <2>1. CASE \E item \in Contents : add(item)
    BY <2>1 DEF add, SessionStep
  <2>2. CASE \E p \in Passphrases : build(p) \/ buildThrows(p)
    BY <2>2 DEF build, buildThrows, SessionStep
  <2>3. CASE \E e \in DOMAIN exports : Send(e)
    BY <2>3 DEF Send, SessionStep
  <2>4. CASE Damage
    <3>1. PICK f : Damaged(f)
      BY <2>4 DEF Damage, Corrupt, ChangeField, Truncate, Extend, Splice, Swap
    <3> QED BY <3>1 DEF Damaged, SessionStep
  <2>5. CASE open
    BY <2>5 DEF open, SessionStep
  <2>6. ASSUME NEW p \in Passphrases, unlock(p) PROVE SessionStep
    <3>1. CASE UnlockStatus(p) = "ok"
      BY <2>6, <3>1 DEF unlock, SessionStep, Outcome, Some, None
    <3>2. CASE UnlockStatus(p) # "ok"
      BY <2>6, <3>2 DEF unlock, SessionStep
    <3> QED BY <3>1, <3>2
  <2>7. CASE \E p \in Passphrases : unlockOutOfResources(p)
    BY <2>7 DEF unlockOutOfResources, SessionStep
  <2>8. CASE \E d \in KnownDescriptors : decrypt(d)
    BY <2>8 DEF decrypt, SessionStep
  <2>9. CASE lock
    BY <2>9 DEF lock, SessionStep, Outcome
  <2> QED
    BY <2>1, <2>2, <2>3, <2>4, <2>5, <2>6, <2>7, <2>8, <2>9 DEF Next
<1> QED BY <1>1, PTL DEF Spec, SessionChangesOnlyByUnlockAndLock
=============================================================================
