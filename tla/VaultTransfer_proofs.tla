------------------------ MODULE VaultTransfer_proofs ------------------------
(***************************************************************************)
(* What a transfer promises, for every value of the constants: whatever the *)
(* channel does, BundleTransfer implements VaultTransfer; no key seals two  *)
(* plaintexts under one nonce; and when the channel does nothing to a       *)
(* bundle, it unlocks and delivers its items.                               *)
(***************************************************************************)
EXTENDS BundleTransfer_proofs

\* A key remembers the passphrase and the salt it was derived from.
LEMMA KeyRemembers ==
    ASSUME NEW k, NEW p, NEW s, NEW q, k = deriveKey(p, s, q)
    PROVE  k.passphrase = p /\ k.salt = s
BY DEF deriveKey

LEMMA ExportKey ==
    ASSUME ExportsInv, NEW e \in DOMAIN exports
    PROVE  /\ exports[e].key.passphrase = exports[e].passphrase
           /\ exports[e].key.salt = exports[e].header.salt
<1>1. exports[e].key = deriveKey(exports[e].passphrase, exports[e].header.salt,
                                 exports[e].header.parameters)
  BY DEF ExportsInv, ExportMade
<1> QED BY <1>1, KeyRemembers

\* A salt is drawn for one bundle only, so its key names the bundle.
LEMMA KeyNamesBundle ==
    ASSUME NEW xs,
           \A e \in DOMAIN xs :
              xs[e].key = deriveKey(xs[e].passphrase, xs[e].header.salt,
                                    xs[e].header.parameters),
           \A e, f \in DOMAIN xs : xs[e].header.salt = xs[f].header.salt => e = f
    PROVE  \A e, f \in DOMAIN xs : xs[e].key = xs[f].key => e = f
<1> SUFFICES ASSUME NEW e \in DOMAIN xs, NEW f \in DOMAIN xs, xs[e].key = xs[f].key
             PROVE  e = f
  OBVIOUS
<1>1. xs[e].key.salt = xs[e].header.salt /\ xs[f].key.salt = xs[f].header.salt
  BY KeyRemembers
<1> QED BY <1>1

\* The header names the bundle, too.
LEMMA FrontNamesBundle ==
    ASSUME IInv, parser # None, NEW e \in DOMAIN exports, SameFront(e),
           NEW f \in DOMAIN exports, SameFront(f)
    PROVE  e = f
<1>1. ASSUME NEW g \in DOMAIN exports, SameFront(g)
      PROVE  ParsedHeader(Data) = exports[g].header
  <2>1. ExportMade(exports[g]) /\ ExportLaidOut(exports[g])
    BY DEF IInv, ExportsInv
  <2>2. /\ manifestEnd = HeaderSize + Header.manifestSize
        /\ Header.manifestSize \in Nat /\ HeaderSize \in Nat
        /\ 1 \in Nat /\ manifestEnd \in Nat /\ 1 <= manifestEnd + 1
        /\ HeaderSize <= manifestEnd
    BY OpenFacts DEF IInv, HeaderSize
  <2>3. \A k \in 1..(manifestEnd - 1 + 1) :
           /\ SubSeq(Data, 1, manifestEnd)[k] = Data[1 + k - 1]
           /\ SubSeq(exports[g].data, 1, manifestEnd)[k] = exports[g].data[1 + k - 1]
    BY <2>2, SubSeqFacts
  <2>4. \A k \in 1..HeaderSize : k \in 1..(manifestEnd - 1 + 1) /\ 1 + k - 1 = k
    BY <2>2
  <2>5. \A k \in 1..HeaderSize : Data[k] = exports[g].data[k]
    BY <1>1, <2>3, <2>4 DEF SameFront
  <2>6. \A k \in 1..HeaderSize : Data[k] = serialize(exports[g].header)[k]
    BY <2>1, <2>5 DEF ExportLaidOut
  <2> QED BY <2>1, <2>6, SameBytesSameHeader
<1>2. exports[e].header = exports[f].header
  BY <1>1
<1> QED BY <1>2 DEF IInv, SaltsInv

\* An unlocked session belongs to exactly one bundle.
LEMMA OneBundleUnlocked ==
    ASSUME IInv, masterKey # None
    PROVE  \E e \in DOMAIN exports :
              /\ UnlockedBundles = {e} /\ SameFront(e)
              /\ exports[e].key = masterKey[1]
<1>1. PICK e \in DOMAIN exports : SameFront(e) /\ masterKey[1] = exports[e].key
  BY DEF IInv, SessionInv, UnlockedManifestWasExported
<1>2. \A f \in DOMAIN exports : exports[f].key = masterKey[1] => f = e
  BY <1>1, KeyNamesBundle DEF IInv, ExportsInv, ExportMade, SaltsInv
<1> QED BY <1>1, <1>2 DEF UnlockedBundles

\* A call that changes neither bundles nor key and returns nothing of either.
LEMMA RefuseMaps ==
    ASSUME UNCHANGED <<exports, masterKey>>,
           result'.status # "ok" \/ result'.call \notin {"unlock", "decrypt", "lock"}
    PROVE  Vault!Refuse
<1>1. BuiltBundles' = BuiltBundles /\ UnlockedBundles' = UnlockedBundles
  BY DEF BuiltBundles, UnlockedBundles
<1>2. VaultOutcome' = [did |-> "nothing"]
  BY DEF VaultOutcome
<1> QED BY <1>1, <1>2 DEF Vault!Refuse, Vault!Nothing

LEMMA BuildMaps ==
    ASSUME IInv, IInv', NEW p \in Passphrases, build(p)
    PROVE  \E S \in SUBSET Contents : Vault!Build(p, S)
<1> DEFINE x == Export(p)
           n == Len(exports)
           S == {x.items[i] : i \in DOMAIN x.items}
           b == [passphrase |-> p, items |-> S]
<1>1. exports' = Append(exports, x) /\ masterKey' = masterKey /\ result'.call = "build"
  BY DEF build, session, Outcome
<1>2. x.passphrase = p /\ x.items = items /\ items \in Seq(Contents)
  BY DEF Export, IInv, BuilderInv
<1> HIDE DEF x
<1>3. S \in SUBSET Contents
  BY <1>2
<1>4. n \in Nat /\ DOMAIN exports = 1..n
  BY <1>1, AppendedExport DEF IInv
<1>5. /\ DOMAIN exports' = 1..(n + 1)
      /\ \A e \in 1..n : exports'[e] = exports[e]
      /\ exports'[n + 1] = x
  BY <1>1, AppendedExport DEF IInv
<1>6. BuiltBundles' = Append(BuiltBundles, b)
  <2> DEFINE B(e) == [passphrase |-> exports[e].passphrase,
                      items |-> {exports[e].items[i] : i \in DOMAIN exports[e].items}]
             T == {B(e) : e \in 1..n} \cup {b}
  <2>1. BuiltBundles = [e \in 1..n |-> B(e)]
    BY <1>4 DEF BuiltBundles
  <2>2. BuiltBundles' = [e \in 1..(n + 1) |-> IF e \in 1..n THEN B(e) ELSE b]
    <3>1. \A e \in 1..(n + 1) : e \in 1..n \/ e = n + 1
      BY <1>4
    <3>2. \A e \in 1..(n + 1) :
             [passphrase |-> exports'[e].passphrase,
              items |-> {exports'[e].items[i] : i \in DOMAIN exports'[e].items}]
                = (IF e \in 1..n THEN B(e) ELSE b)
      <4> SUFFICES ASSUME NEW e \in 1..(n + 1)
                   PROVE  [passphrase |-> exports'[e].passphrase,
                           items |-> {exports'[e].items[i] : i \in DOMAIN exports'[e].items}]
                             = (IF e \in 1..n THEN B(e) ELSE b)
        OBVIOUS
      <4>1. CASE e \in 1..n
        BY <1>5, <4>1
      <4>2. CASE e = n + 1
        <5>1. n + 1 \notin 1..n
          BY <1>4
        <5>2. exports'[e] = x
          BY <1>5, <4>2
        <5>3. (IF e \in 1..n THEN B(e) ELSE b) = b
          BY <4>2, <5>1
        <5> QED BY <1>2, <5>2, <5>3
      <4> QED BY <3>1, <4>1, <4>2
    <3> QED BY <1>5, <3>2 DEF BuiltBundles
  <2> HIDE DEF B, b
  <2>3. [e \in 1..n |-> B(e)] \in Seq(T) /\ b \in T /\ Len([e \in 1..n |-> B(e)]) = n
    BY <1>4
  <2>4. /\ Append([e \in 1..n |-> B(e)], b) \in Seq(T)
        /\ Len(Append([e \in 1..n |-> B(e)], b)) = n + 1
        /\ \A i \in 1..n : Append([e \in 1..n |-> B(e)], b)[i] = B(i)
        /\ Append([e \in 1..n |-> B(e)], b)[n + 1] = b
    BY <2>3, AppendProperties
  <2>5. Append([e \in 1..n |-> B(e)], b)
           = [e \in 1..(n + 1) |-> Append([j \in 1..n |-> B(j)], b)[e]]
    BY <2>4, LenProperties
  <2>6. \A e \in 1..(n + 1) : Append([j \in 1..n |-> B(j)], b)[e]
                                 = (IF e \in 1..n THEN B(e) ELSE b)
    BY <1>4, <2>4
  <2> QED BY <2>1, <2>2, <2>5, <2>6
<1>7. UnlockedBundles' = UnlockedBundles
  <2>1. CASE masterKey = None
    BY <1>1, <2>1 DEF UnlockedBundles
  <2>2. CASE masterKey # None
    <3>1. PICK e \in DOMAIN exports : UnlockedBundles = {e} /\ exports[e].key = masterKey[1]
      BY <2>2, OneBundleUnlocked
    <3>2. e \in DOMAIN exports' /\ exports'[e].key = masterKey'[1] /\ masterKey' # None
      BY <1>1, <1>4, <1>5, <2>2, <3>1 DEF None
    <3>3. \A f, g \in DOMAIN exports' : exports'[f].key = exports'[g].key => f = g
      <4>1. /\ \A f \in DOMAIN exports' :
                  exports'[f].key = deriveKey(exports'[f].passphrase,
                                              exports'[f].header.salt,
                                              exports'[f].header.parameters)
            /\ \A f, g \in DOMAIN exports' :
                  exports'[f].header.salt = exports'[g].header.salt => f = g
        BY DEF IInv, ExportsInv, ExportMade, SaltsInv
      <4> QED BY <4>1, KeyNamesBundle
    <3>4. UnlockedBundles' = {e}
      BY <3>2, <3>3 DEF UnlockedBundles
    <3> QED BY <3>1, <3>4
  <2> QED BY <2>1, <2>2
<1>8. VaultOutcome' = [did |-> "nothing"]
  BY <1>1 DEF VaultOutcome
<1>9. Vault!Build(p, S)
  BY <1>6, <1>7, <1>8 DEF Vault!Build, Vault!Nothing
<1> QED BY <1>3, <1>9

\* The key that was derived is the bundle's, and so is the passphrase.
LEMMA UnlockMaps ==
    ASSUME IInv, IInv', NEW p \in Passphrases, unlock(p), UnlockStatus(p) = "ok"
    PROVE  \E e \in DOMAIN BuiltBundles : Vault!Unlock(p, e)
<1> DEFINE key == deriveKey(p, Header.salt, Header.parameters)
<1>1. /\ masterKey' = <<key>> /\ exports' = exports
      /\ result'.call = "unlock" /\ result'.status = "ok" /\ result'.argument = <<p>>
  BY DEF unlock, Some, Outcome, builderVars
<1> HIDE DEF key
<1>2. masterKey' # None /\ masterKey'[1] = key
  BY <1>1 DEF None
<1>3. PICK e \in DOMAIN exports : exports[e].key = key
  BY <1>1, <1>2 DEF IInv, SessionInv, UnlockedManifestWasExported
<1>4. exports[e].passphrase = p
  <2>1. exports[e].key.passphrase = exports[e].passphrase
    BY ExportKey DEF IInv
  <2>2. key.passphrase = p
    BY KeyRemembers DEF key
  <2> QED BY <1>3, <2>1, <2>2
<1>5. UnlockedBundles' = {e}
  <2>1. \A f \in DOMAIN exports : exports[f].key = key => f = e
    BY <1>3, KeyNamesBundle DEF IInv, ExportsInv, ExportMade, SaltsInv
  <2> QED BY <1>1, <1>2, <1>3, <2>1 DEF UnlockedBundles
<1>6. VaultOutcome' = [did |-> "unlock", passphrase |-> p]
  BY <1>1 DEF VaultOutcome
<1>7. /\ BuiltBundles' = BuiltBundles
      /\ e \in DOMAIN BuiltBundles /\ BuiltBundles[e].passphrase = p
  BY <1>1, <1>4 DEF BuiltBundles
<1> QED BY <1>5, <1>6, <1>7 DEF Vault!Unlock

\* The item is one of the bundle the session belongs to, not only of some bundle.
LEMMA DecryptMaps ==
    ASSUME IInv, TypeOK, NEW d, decrypt(d), DecryptStatus(d) = "ok"
    PROVE  \E e \in DOMAIN BuiltBundles : \E i \in Contents : Vault!Deliver(e, i)
<1>1. /\ UNCHANGED <<exports, masterKey>> /\ parser # None
      /\ result'.call = "decrypt" /\ result'.status = "ok" /\ result'.argument = <<d>>
      /\ result'.value = <<OpenedPlaintext(Record(firstIndex(d)))>>
  BY DEF decrypt, Some, Outcome, builderVars, session
<1>2. PICK e \in DOMAIN exports :
         /\ SameFront(e)
         /\ \E i \in DOMAIN exports[e].items :
              /\ exports[e].items[i].id = d.id
              /\ exports[e].items[i].plaintext = OpenedPlaintext(Record(firstIndex(d)))
  BY <1>1, DecryptedItemWasExported DEF IInv
<1>3. PICK i \in DOMAIN exports[e].items :
         /\ exports[e].items[i].id = d.id
         /\ exports[e].items[i].plaintext = OpenedPlaintext(Record(firstIndex(d)))
  BY <1>2
<1>4. masterKey # None
  BY DEF DecryptStatus
<1>5. UnlockedBundles = {e}
  BY <1>1, <1>2, <1>4, OneBundleUnlocked, FrontNamesBundle
<1> DEFINE item == exports[e].items[i]
<1>6. item \in Contents
  <2>1. exports[e].items \in Seq(Contents)
    BY DEF TypeOK
  <2> QED BY <2>1
<1>7. /\ e \in DOMAIN BuiltBundles /\ item \in BuiltBundles[e].items
      /\ BuiltBundles' = BuiltBundles /\ UnlockedBundles' = UnlockedBundles
  BY <1>1 DEF BuiltBundles, UnlockedBundles
<1>8. VaultOutcome' = [did |-> "decrypt", id |-> item.id, plaintext |-> item.plaintext]
  BY <1>1, <1>3 DEF VaultOutcome
<1>9. Vault!Deliver(e, item)
  BY <1>5, <1>7, <1>8 DEF Vault!Deliver
<1> QED BY <1>6, <1>7, <1>9

LEMMA LockMaps ==
    ASSUME lock
    PROVE  Vault!Lock
<1>1. /\ exports' = exports /\ masterKey' = None
      /\ result'.call = "lock" /\ result'.status = "ok"
  BY DEF lock, builderVars, Outcome
<1>2. BuiltBundles' = BuiltBundles /\ UnlockedBundles' = {}
  BY <1>1 DEF BuiltBundles, UnlockedBundles
<1>3. VaultOutcome' = [did |-> "lock"]
  BY <1>1 DEF VaultOutcome
<1> QED BY <1>2, <1>3 DEF Vault!Lock

\* Every run of builder, channel and parser, seen from the vaults, is a run of
\* VaultTransfer: build builds, unlock unlocks with the bundle's passphrase,
\* decrypt delivers an item of the unlocked bundle, and the rest is refused.
THEOREM ImplementsVault == Spec => VaultImplemented
<1>1. Init => Vault!Init
  <2> SUFFICES ASSUME Init PROVE Vault!Init
    OBVIOUS
  <2>1. exports = <<>> /\ masterKey = None /\ result = NoCall /\ DOMAIN exports = {}
    BY DEF Init
  <2>2. UnlockedBundles = {} /\ BuiltBundles = <<>>
    BY <2>1 DEF UnlockedBundles, BuiltBundles
  <2>3. VaultOutcome = [did |-> "nothing"]
    BY <2>1 DEF VaultOutcome, NoCall
  <2> QED BY <2>2, <2>3 DEF Vault!Init, Vault!Nothing
<1>2. IInv /\ IInv' /\ TypeOK /\ [Next]_vars
         => [Vault!Next]_<<BuiltBundles, UnlockedBundles, VaultOutcome>>
  <2> SUFFICES ASSUME IInv, IInv', TypeOK, [Next]_vars
               PROVE  Vault!Next \/ UNCHANGED <<BuiltBundles, UnlockedBundles, VaultOutcome>>
    OBVIOUS
  <2>1. ASSUME NEW item \in Contents, add(item) PROVE Vault!Next
    BY <2>1, RefuseMaps DEF add, session, NoCall, Vault!Next
  <2>2. ASSUME NEW p \in Passphrases, build(p) PROVE Vault!Next
    BY <2>2, BuildMaps DEF Vault!Next
  <2>3. ASSUME NEW p \in Passphrases, buildThrows(p) PROVE Vault!Next
    BY <2>3, RefuseMaps DEF buildThrows, builderVars, session, Outcome, Vault!Next
  <2>4. ASSUME NEW e \in DOMAIN exports, Send(e) PROVE Vault!Next
    BY <2>4, RefuseMaps DEF Send, builderVars, session, NoCall, Vault!Next
  <2>5. CASE Damage
    <3>1. PICK f : Damaged(f)
      BY <2>5 DEF Damage, Corrupt, ChangeField, Truncate, Extend, Splice, Swap
    <3> QED BY <3>1, RefuseMaps DEF Damaged, builderVars, session, NoCall, Vault!Next
  <2>6. CASE open
    BY <2>6, RefuseMaps DEF open, builderVars, session, Outcome, Vault!Next
  <2>7. ASSUME NEW p \in Passphrases, unlock(p) PROVE Vault!Next
    <3>1. CASE UnlockStatus(p) = "ok"
      BY <2>7, <3>1, UnlockMaps DEF Vault!Next
    <3>2. CASE UnlockStatus(p) # "ok"
      BY <2>7, <3>2, RefuseMaps DEF unlock, builderVars, session, Outcome, Vault!Next
    <3> QED BY <3>1, <3>2
  <2>8. ASSUME NEW p \in Passphrases, unlockOutOfResources(p) PROVE Vault!Next
    BY <2>8, RefuseMaps DEF unlockOutOfResources, builderVars, session, Outcome, Vault!Next
  <2>9. ASSUME NEW d \in KnownDescriptors, decrypt(d) PROVE Vault!Next
    <3>1. CASE DecryptStatus(d) = "ok"
      BY <2>9, <3>1, DecryptMaps DEF Vault!Next
    <3>2. CASE DecryptStatus(d) # "ok"
      BY <2>9, <3>2, RefuseMaps DEF decrypt, builderVars, session, Outcome, Vault!Next
    <3> QED BY <3>1, <3>2
  <2>10. CASE lock
    BY <2>10, LockMaps DEF Vault!Next
  <2>11. CASE UNCHANGED vars
    BY <2>11 DEF vars, builderVars, session, BuiltBundles, UnlockedBundles, VaultOutcome
  <2> QED
    BY <2>1, <2>2, <2>3, <2>4, <2>5, <2>6, <2>7, <2>8, <2>9, <2>10, <2>11 DEF Next
<1> QED
  BY <1>1, <1>2, Invariance, TypeCorrect, PTL DEF Spec, VaultImplemented, Vault!Spec

-----------------------------------------------------------------------------
(* Whole bundles. *)

\* Where record i of a bundle begins.
RecordAt(x, i) ==
    HeaderSize + x.header.manifestSize + RecordBytes(x.manifest.items, i - 1)

\* What build has checked and laid out: a key can be derived, every item has a
\* valid descriptor and its record, and no two records share a nonce.
ExportWhole(x) ==
    /\ deriveKeyAccepts(x.passphrase, x.header.parameters)
    /\ x.manifest.schemaVersion = 1
    /\ Len(x.manifest.items) \in Nat
    /\ DOMAIN x.items = 1..Len(x.manifest.items)
    /\ \A i \in DOMAIN x.items :
          /\ x.items[i].count \in Nat
          /\ validateDescriptor(x.manifest.items[i])
          /\ x.manifest.items[i].id = x.items[i].id
          /\ x.manifest.items[i].itemSize = x.items[i].count + TagSize
          /\ \A j \in 1..(x.items[i].count + TagSize) :
                x.data[RecordAt(x, i) + j] = SealedByte(ItemBox(x, i), j)
    /\ Len(x.data) = RecordAt(x, Len(x.manifest.items) + 1)
    /\ \A i, j \in DOMAIN x.items :
          x.manifest.items[i].itemNonce = x.manifest.items[j].itemNonce => i = j

\* build puts byte j of record i where RecordStart of the parser looks for it.
LEMMA BuildPlacesRecords ==
    ASSUME BuilderInv, NEW p, buildAccepts(p), NEW i \in DOMAIN items,
           NEW j \in 1..(items[i].count + TagSize)
    PROVE  BundleData(p)[BundleStart(i) + j]
              = SealedByte(ItemBox(Export(p), i), j)
<1> DEFINE ds == StagedManifest.items
           n == Len(items)
           base == HeaderSize + ManifestCiphertextSize
           k == BundleStart(i) + j
           Spans(m) == BundleStart(m) < k /\ k <= BundleStart(m + 1)
           item == CHOOSE m \in DOMAIN items : Spans(m)
<1>1. /\ DOMAIN items = 1..n /\ n \in Nat /\ base \in Nat
      /\ ManifestCiphertextSize \in Nat
      /\ \A m \in DOMAIN items : /\ items[m].count \in Nat
                                 /\ ds[m] = ItemDescriptor(items[m], ItemNonce(m))
  BY StagedFacts DEF HeaderSize
<1>2. \A m \in DOMAIN items :
         /\ ds[m].itemSize = items[m].count + TagSize
         /\ ds[m].itemSize \in 0..itemSizeMax
         /\ ds[m].itemNonce = ItemNonce(m)
  <2> SUFFICES ASSUME NEW m \in DOMAIN items
               PROVE  /\ ds[m].itemSize = items[m].count + TagSize
                      /\ ds[m].itemSize \in 0..itemSizeMax
                      /\ ds[m].itemNonce = ItemNonce(m)
    OBVIOUS
  <2>1. validateDescriptor(ds[m])
    BY DEF buildAccepts
  <2>2. ds[m].itemSize \in TagSize..itemSizeMax
    BY <2>1 DEF validateDescriptor, validateItemSize, itemSizeMin
  <2>3. ds[m] = ItemDescriptor(items[m], ItemNonce(m))
    BY <1>1
  <2> HIDE DEF ds
  <2>4. ds[m].itemSize = items[m].count + TagSize /\ ds[m].itemNonce = ItemNonce(m)
    BY <2>3 DEF ItemDescriptor
  <2> QED BY <2>2, <2>4, TagSizeAssumption, LimitsAssumption
<1>3. \A m \in 1..n : /\ BundleStart(m) = base + RecordBytes(ds, m - 1)
                      /\ BundleStart(m + 1) = base + RecordBytes(ds, m)
                      /\ RecordBytes(ds, m) \in Nat
                      /\ RecordBytes(ds, m - 1) \in Nat
                      /\ RecordBytes(ds, m)
                            = RecordBytes(ds, m - 1) + ds[m].itemSize
                      /\ \A l \in m..n : RecordBytes(ds, m) <= RecordBytes(ds, l)
  <2>1. \A m \in 1..n : (m + 1) - 1 = m
    BY <1>1
  <2>2. \A m \in 1..n : ds[m].itemSize \in 0..itemSizeMax
    BY <1>1, <1>2
  <2> HIDE DEF ds
  <2>3. \A m \in 1..n : /\ RecordBytes(ds, m) \in Nat
                        /\ RecordBytes(ds, m - 1) \in Nat
                        /\ RecordBytes(ds, m)
                              = RecordBytes(ds, m - 1) + ds[m].itemSize
                        /\ \A l \in m..n : RecordBytes(ds, m) <= RecordBytes(ds, l)
    BY <1>1, <2>2, RecordsEndToEnd
  <2> QED BY <2>1, <2>3 DEF BundleStart, ds
<1>4. i \in 1..n /\ j \in Nat /\ 1 <= j /\ j <= ds[i].itemSize
      /\ ds[i].itemSize \in Nat
  BY <1>1, <1>2, TagSizeAssumption
<1> HIDE DEF ds, base
<1>5. Spans(i) /\ k \in Nat /\ base < k
  <2>1. /\ BundleStart(i) = base + RecordBytes(ds, i - 1)
        /\ BundleStart(i + 1) = base + (RecordBytes(ds, i - 1) + ds[i].itemSize)
        /\ RecordBytes(ds, i - 1) \in Nat /\ base \in Nat
    BY <1>1, <1>3, <1>4
  <2> QED BY SMTT(30), <1>4, <2>1
<1>6. \A m \in DOMAIN items : Spans(m) => m = i
  <2> SUFFICES ASSUME NEW m \in 1..n, Spans(m) PROVE m = i
    BY <1>1
  <2>3. base \in Nat /\ k \in Nat
    BY <1>1, <1>5
  <2> HIDE DEF k
  <2>1. CASE m < i
    <3>1. i - 1 \in m..n /\ i - 1 \in 1..n
      BY <1>1, <1>4, <2>1
    <3>2. RecordBytes(ds, m) <= RecordBytes(ds, i - 1)
      BY <1>3, <3>1
    <3>3. k <= base + RecordBytes(ds, m) /\ base + RecordBytes(ds, i - 1) < k
      BY <1>3, <1>4, <1>5
    <3>4. RecordBytes(ds, m) \in Nat /\ RecordBytes(ds, i - 1) \in Nat
      BY <1>3, <1>4
    <3> QED BY <2>3, <3>2, <3>3, <3>4
  <2>2. CASE i < m
    <3>1. m - 1 \in i..n /\ m - 1 \in 1..n
      BY <1>1, <1>4, <2>2
    <3>2. RecordBytes(ds, i) <= RecordBytes(ds, m - 1)
      BY <1>3, <1>4, <3>1
    <3>3. k <= base + RecordBytes(ds, i) /\ base + RecordBytes(ds, m - 1) < k
      BY <1>3, <1>4, <1>5
    <3>4. RecordBytes(ds, i) \in Nat /\ RecordBytes(ds, m - 1) \in Nat
      BY <1>3, <1>4
    <3> QED BY <2>3, <3>2, <3>3, <3>4
  <2> QED BY <1>1, <1>4, <2>1, <2>2
<1>7. item = i
  BY <1>1, <1>4, <1>5, <1>6
<1>8. k \in 1..BundleSize /\ ~ (k <= HeaderSize)
      /\ ~ (k <= HeaderSize + ManifestCiphertextSize)
  <2>1. n \in i..n /\ (n + 1) - 1 = n
    BY <1>1, <1>4
  <2>2. BundleSize = base + RecordBytes(ds, n)
    BY <2>1 DEF BundleSize, BundleStart, ds, base
  <2>3. /\ RecordBytes(ds, i) <= RecordBytes(ds, n)
        /\ RecordBytes(ds, i) \in Nat /\ RecordBytes(ds, n) \in Nat
        /\ k <= base + RecordBytes(ds, i)
    BY <1>1, <1>3, <1>4, <1>5, <2>1, RecordPairsFinite
  <2>4. base \in Nat /\ k \in Nat /\ base < k
    BY <1>1, <1>5
  <2> HIDE DEF k
  <2>5. k \in 1..BundleSize /\ ~ (k <= base)
    BY <2>2, <2>3, <2>4
  <2> QED BY <1>1, <2>4, <2>5 DEF base, HeaderSize
<1>9. k - BundleStart(i) = j
  BY <1>1, <1>3, <1>4
<1>10. BundleData(p)[k] = SealedItem(p, i)[j]
  <2>1. BundleData(p)[k] = SealedItem(p, item)[k - BundleStart(item)]
    BY <1>8 DEF BundleData, item
  <2> QED BY <1>7, <1>9, <2>1
<1>11. SealedItem(p, i)[j] = SealedByte(ItemBox(Export(p), i), j)
  <2> DEFINE x == Export(p)
  <2>1. /\ x.items = items /\ x.manifest = StagedManifest
        /\ x.key = Key(p) /\ x.header = StagedHeader
    BY DEF Export
  <2> HIDE DEF x
  <2>2. ItemBox(x, i)
           = Box(deriveItemKey(Key(p), items[i].id), ItemNonce(i),
                 items[i].plaintext, items[i].count,
                 ItemAAD(serialize(StagedHeader), items[i].id))
    BY <1>2, <2>1 DEF ItemBox, ds
  <2>3. SealedItem(p, i)[j] = SealedByte(ItemBox(x, i), j)
    BY <2>2 DEF SealedItem, encryptItem, sealGCM
  <2> QED BY <2>3 DEF x
<1> QED BY <1>10, <1>11

LEMMA BuildMakesWhole ==
    ASSUME BuilderInv, NEW p, buildAccepts(p)
    PROVE  ExportWhole(Export(p))
<1> DEFINE x == Export(p)
           ds == StagedManifest.items
           n == Len(items)
<1>1. /\ x.data = BundleData(p) /\ x.header = StagedHeader
      /\ x.items = items /\ x.manifest = StagedManifest /\ x.key = Key(p)
      /\ x.header.manifestSize = ManifestCiphertextSize
      /\ x.passphrase = p /\ x.header.parameters = parameters
  BY DEF Export, StagedHeader, BundleHeader
<1>2. /\ DOMAIN items = 1..n /\ n \in Nat /\ Len(ds) = n
      /\ BundleSize \in Nat
      /\ \A i \in DOMAIN items : /\ items[i].count \in Nat
                                 /\ ds[i] = ItemDescriptor(items[i], ItemNonce(i))
  BY StagedFacts
<1>3. \A i : RecordAt(x, i) = BundleStart(i)
  BY <1>1 DEF RecordAt, BundleStart
<1>4. Len(x.data) = BundleStart(n + 1)
  <2>1. BundleData(p) = [k \in 1..BundleSize |-> BundleData(p)[k]]
    BY DEF BundleData
  <2> QED BY <1>1, <1>2, <2>1, SequenceOfFunction DEF BundleSize
<1>5. \A i \in DOMAIN items : \A j \in 1..(items[i].count + TagSize) :
         x.data[BundleStart(i) + j] = SealedByte(ItemBox(x, i), j)
  BY <1>1, BuildPlacesRecords
<1>6. deriveKeyAccepts(x.passphrase, x.header.parameters)
      /\ \A i \in DOMAIN items : validateDescriptor(ds[i])
  BY <1>1 DEF buildAccepts
<1>7. x.manifest.schemaVersion = 1
  BY <1>1 DEF StagedManifest, Manifest
<1> HIDE DEF x, ds
<1>8. \A i \in DOMAIN items : /\ ds[i].id = items[i].id
                              /\ ds[i].itemSize = items[i].count + TagSize
                              /\ ds[i].itemNonce = Rnd(rnd + 2 + i)
  <2>1. \A c, r, d : d = ItemDescriptor(c, r)
                       => d.id = c.id /\ d.itemSize = c.count + TagSize /\ d.itemNonce = r
    BY DEF ItemDescriptor
  <2>2. \A i \in DOMAIN items : ds[i] = ItemDescriptor(items[i], ItemNonce(i))
    BY <1>2
  <2>3. \A i : ItemNonce(i) = Rnd(rnd + 2 + i)
    BY DEF ItemNonce
  <2> QED BY <2>1, <2>2, <2>3
<1>9. ASSUME NEW i \in DOMAIN items, NEW j \in DOMAIN items,
             ds[i].itemNonce = ds[j].itemNonce
      PROVE  i = j
  <2>1. Rnd(rnd + 2 + i).value = rnd + 2 + i /\ Rnd(rnd + 2 + j).value = rnd + 2 + j
    BY DEF Rnd
  <2>2. i \in Nat /\ j \in Nat /\ rnd \in Nat
    BY <1>2 DEF BuilderInv
  <2> QED BY <1>8, <1>9, <2>1, <2>2
<1>10. x.manifest.items = ds
  BY <1>1 DEF ds
<1>11. \A i \in DOMAIN items : \A j \in 1..(items[i].count + TagSize) :
          x.data[RecordAt(x, i) + j] = SealedByte(ItemBox(x, i), j)
  BY <1>3, <1>5
<1> QED
  BY <1>1, <1>2, <1>3, <1>4, <1>6, <1>7, <1>8, <1>9, <1>10, <1>11
     DEF ExportWhole, x

ExportsWhole == \A e \in DOMAIN exports : ExportWhole(exports[e])

LEMMA ExportsStayWhole == Spec => []ExportsWhole
<1>1. Init => ExportsWhole
  BY DEF Init, ExportsWhole
<1>2. IInv /\ TypeOK /\ ExportsWhole /\ [Next]_vars => ExportsWhole'
  <2> SUFFICES ASSUME IInv, TypeOK, ExportsWhole, [Next]_vars PROVE ExportsWhole'
    OBVIOUS
  <2>1. CASE exports' = exports
    BY <2>1 DEF ExportsWhole
  <2>2. CASE \E p \in Passphrases : buildAccepts(p) /\ exports' = Append(exports, Export(p))
    <3>1. PICK p : buildAccepts(p) /\ exports' = Append(exports, Export(p))
      BY <2>2
    <3> DEFINE x == Export(p)
    <3>2. BuilderInv
      BY DEF IInv
    <3>3. ExportWhole(x)
      BY <3>1, <3>2, BuildMakesWhole
    <3> HIDE DEF x
    <3>4. \A e \in DOMAIN exports' : \/ exports'[e] = x
                                     \/ e \in DOMAIN exports /\ exports'[e] = exports[e]
      BY <3>1, <3>2, AppendedExport DEF x
    <3> QED BY <3>3, <3>4 DEF ExportsWhole
  <2> QED BY <2>1, <2>2, StepEffects DEF TypeOK
<1> QED BY <1>1, <1>2, Invariance, TypeCorrect, PTL DEF Spec

-----------------------------------------------------------------------------
(* Nonces. *)

\* A box that seals an item is under a key no manifest has.
LEMMA KeysOfBoxes ==
    ASSUME NEW x, NEW y, NEW i
    PROVE  /\ ManifestBox(x).key.info = "manifest" /\ ManifestBox(x).key.master = x.key
           /\ ItemBox(y, i).key.info = "item" /\ ItemBox(y, i).key.master = y.key
           /\ ItemBox(y, i).nonce = y.manifest.items[i].itemNonce
BY DEF ManifestBox, ItemBox, Box, deriveManifestKey, deriveItemKey

\* Two boxes under one key and nonce are one box: the salt tells bundles
\* apart, the key the manifest from the items, and a draw per item the items.
THEOREM NoNonceIsReused == Spec => []NonceUsedOnce
<1>1. IInv /\ ExportsWhole => NonceUsedOnce
  <2> SUFFICES ASSUME IInv, ExportsWhole,
                      NEW e \in DOMAIN exports, NEW f \in DOMAIN exports,
                      NEW b \in Boxes(e), NEW c \in Boxes(f),
                      b.key = c.key, b.nonce = c.nonce
               PROVE  b = c
    BY DEF NonceUsedOnce
  <2>1. \A g \in DOMAIN exports : Boxes(g) \subseteq BoxesOf(exports[g])
    <3> SUFFICES ASSUME NEW g \in DOMAIN exports
                 PROVE  Boxes(g) \subseteq BoxesOf(exports[g])
      OBVIOUS
    <3>1. ExportLaidOut(exports[g])
      BY DEF IInv, ExportsInv
    <3>2. DOMAIN exports[g].data = 1..Len(exports[g].data)
      BY <3>1, SequenceFacts DEF ExportLaidOut
    <3> QED BY <3>1, <3>2 DEF ExportLaidOut, Boxes
  <2>2. exports[e].key = exports[f].key => e = f
    BY KeyNamesBundle DEF IInv, ExportsInv, ExportMade, SaltsInv
  <2>3. CASE b = ManifestBox(exports[e]) /\ c = ManifestBox(exports[f])
    BY <2>2, <2>3, KeysOfBoxes
  <2>4. ASSUME NEW i \in DOMAIN exports[e].items, NEW j \in DOMAIN exports[f].items,
               b = ItemBox(exports[e], i), c = ItemBox(exports[f], j)
        PROVE  b = c
    <3>1. e = f
      BY <2>2, <2>4, KeysOfBoxes
    <3>2. exports[e].manifest.items[i].itemNonce = exports[e].manifest.items[j].itemNonce
      BY <2>4, <3>1, KeysOfBoxes
    <3>3. i = j
      BY <3>1, <3>2 DEF ExportsWhole, ExportWhole
    <3> QED BY <2>4, <3>1, <3>3
  <2>5. \A i : ~ (b = ManifestBox(exports[e]) /\ c = ItemBox(exports[f], i))
    BY KeysOfBoxes
  <2>6. \A i : ~ (b = ItemBox(exports[e], i) /\ c = ManifestBox(exports[f]))
    BY KeysOfBoxes
  <2> QED BY <2>1, <2>3, <2>4, <2>5, <2>6 DEF BoxesOf
<1> QED BY <1>1, Invariance, ExportsStayWhole, PTL

-----------------------------------------------------------------------------
(* Delivery. *)

\* What a parser reads off an undamaged bundle is what build wrote.
LEMMA UndamagedReads ==
    ASSUME IInv, ExportsWhole, NEW e \in DOMAIN exports, Undamaged(e)
    PROVE  /\ Header = exports[e].header
           /\ headerBytes = serialize(exports[e].header)
           /\ SameFront(e)
           /\ manifestBytes = [k \in 1..(encodedSize(exports[e].manifest) + TagSize) |->
                                  SealedByte(ManifestBox(exports[e]), k)]
           /\ Len(Data) = RecordAt(exports[e], Len(exports[e].manifest.items) + 1)
           /\ \A i : RecordAt(exports[e], i)
                        = manifestEnd + RecordBytes(exports[e].manifest.items, i - 1)
<1> DEFINE x == exports[e]
           ms == x.header.manifestSize
<1>1. ExportMade(x) /\ ExportLaidOut(x) /\ ExportWhole(x)
      /\ parser # None /\ Data = x.data /\ ParserInv
  BY DEF IInv, ExportsInv, ExportsWhole, Undamaged
<1>2. \A k \in 1..HeaderSize : Data[k] = serialize(x.header)[k]
  BY <1>1 DEF ExportLaidOut
<1>3. Header = x.header
  <2>1. ParsedHeader(Data) = x.header
    BY <1>1, <1>2, SameBytesSameHeader
  <2> QED BY <1>1, <2>1 DEF ParserInv
<1>4. /\ manifestEnd = HeaderSize + ms /\ ms \in Nat /\ HeaderSize \in Nat
      /\ manifestEnd \in Nat /\ manifestEnd <= Len(Data) /\ Len(Data) \in Nat
      /\ \A k \in 1..HeaderSize : headerBytes[k] = Data[k]
      /\ Len(manifestBytes) = ms
      /\ \A k \in 1..ms : manifestBytes[k] = Data[HeaderSize + k]
  BY <1>1, <1>3, OpenFacts
<1>5. /\ IsSequence(headerBytes) /\ Len(headerBytes) = HeaderSize
      /\ IsSequence(manifestBytes)
  <2>1. /\ 1 \in Nat /\ 1 <= HeaderSize + 1 /\ HeaderSize - 1 + 1 = HeaderSize
        /\ HeaderSize + 1 \in Nat /\ HeaderSize + 1 <= manifestEnd + 1
    BY <1>4
  <2>2. IsSequence(SubSeq(Data, 1, HeaderSize)) /\ Len(SubSeq(Data, 1, HeaderSize)) = HeaderSize
    BY <1>4, <2>1, SubSeqFacts
  <2>3. IsSequence(SubSeq(Data, HeaderSize + 1, manifestEnd))
    BY <1>4, <2>1, SubSeqFacts
  <2> QED BY <2>2, <2>3 DEF headerBytes, manifestBytes
<1>6. headerBytes = serialize(x.header)
  <2> DEFINE s == serialize(x.header)
  <2>1. IsSequence(s) /\ Len(s) = HeaderSize
    BY SerializedHeader
  <2> HIDE DEF s
  <2>2. \A k \in 1..HeaderSize : headerBytes[k] = s[k]
    BY <1>2, <1>4 DEF s
  <2>3. s = [k \in 1..HeaderSize |-> s[k]]
        /\ headerBytes = [k \in 1..HeaderSize |-> headerBytes[k]]
    BY <1>5, <2>1, SequenceFacts
  <2> QED BY <2>2, <2>3 DEF s
<1>7. manifestBytes = [k \in 1..(encodedSize(x.manifest) + TagSize) |->
                          SealedByte(ManifestBox(x), k)]
  <2>1. ms = encodedSize(x.manifest) + TagSize
    BY <1>1 DEF ExportMade
  <2>2. \A k \in 1..ms : manifestBytes[k] = SealedByte(ManifestBox(x), k)
    BY <1>1, <1>4 DEF ExportLaidOut
  <2>3. manifestBytes = [k \in 1..ms |-> manifestBytes[k]]
    BY <1>4, <1>5, SequenceFacts
  <2> QED BY <2>1, <2>2, <2>3
<1>8. SameFront(e)
  BY <1>1, <1>4 DEF SameFront
<1>9. Len(Data) = RecordAt(x, Len(x.manifest.items) + 1)
  BY <1>1 DEF ExportWhole
<1>10. \A i : RecordAt(x, i) = manifestEnd + RecordBytes(x.manifest.items, i - 1)
  BY <1>4 DEF RecordAt
<1> QED BY <1>3, <1>6, <1>7, <1>8, <1>9, <1>10

\* unlock accepts an undamaged bundle with its passphrase and distinct ids.
LEMMA UndamagedUnlocks ==
    ASSUME IInv, ExportsWhole, NEW e \in DOMAIN exports, Undamaged(e), DistinctIds(e)
    PROVE  UnlockStatus(exports[e].passphrase) = "ok"
<1> DEFINE x == exports[e]
           m == ManifestBox(x)
           n == Len(x.manifest.items)
<1>1. ExportMade(x) /\ ExportWhole(x)
  BY DEF IInv, ExportsInv, ExportsWhole
<1>2. /\ Header = x.header /\ headerBytes = serialize(x.header)
      /\ manifestBytes = [k \in 1..(encodedSize(x.manifest) + TagSize) |-> SealedByte(m, k)]
      /\ Len(Data) = RecordAt(x, n + 1)
      /\ \A i : RecordAt(x, i) = manifestEnd + RecordBytes(x.manifest.items, i - 1)
  BY UndamagedReads
<1>3. /\ parser # None /\ Len(manifestBytes) = Header.manifestSize
      /\ TagSize <= Header.manifestSize /\ Header.manifestSize \in Nat
      /\ manifestEnd \in Nat /\ Len(Data) \in Nat
  BY OpenFacts DEF IInv, Undamaged
<1>4. deriveKeyAccepts(x.passphrase, Header.parameters)
  BY <1>1, <1>2 DEF ExportWhole
<1>5. deriveKey(x.passphrase, Header.salt, Header.parameters) = x.key
  BY <1>1, <1>2 DEF ExportMade
<1>6. /\ m.key = deriveManifestKey(x.key) /\ m.nonce = x.header.manifestNonce
      /\ m.plaintext = x.manifest /\ m.count = encodedSize(x.manifest)
      /\ m.aad = serialize(x.header)
  BY DEF ManifestBox, Box
<1> HIDE DEF m
<1>7. manifestBytes[1] = SealedByte(m, 1)
  <2>1. 1 \in 1..(encodedSize(x.manifest) + TagSize)
    BY <1>1, TagSizeAssumption DEF ExportMade
  <2> QED BY <1>2, <2>1
<1>8. manifestBytes[1].kind = "sealed" /\ manifestBytes[1].box = m
  BY <1>7 DEF SealedByte
<1>9. decryptManifestAccepts(manifestBytes, x.key, Header.manifestNonce, headerBytes)
  BY <1>2, <1>3, <1>6, <1>8 DEF decryptManifestAccepts, openGCM
<1>10. OpenedPlaintext(manifestBytes) = x.manifest
  BY <1>6, <1>8 DEF OpenedPlaintext
<1>11. DOMAIN x.manifest.items = DOMAIN x.items
  <2>1. DOMAIN x.manifest.items = 1..n
    BY <1>1, SequenceFacts DEF ExportMade
  <2> QED BY <1>1, <2>1 DEF ExportWhole
<1>12. validateManifest(x.manifest)
  BY <1>1, <1>11 DEF validateManifest, ExportWhole, DistinctIds
<1>13. RecordBytes(x.manifest.items, n) <= Len(Data) - manifestEnd
  <2>1. n \in Nat /\ (n + 1) - 1 = n
    BY <1>1 DEF ExportWhole
  <2>2. RecordBytes(x.manifest.items, n) \in Nat
    BY <2>1, RecordPairsFinite
  <2>3. Len(Data) = manifestEnd + RecordBytes(x.manifest.items, n)
    BY <1>2, <2>1
  <2> QED BY <1>3, <2>2, <2>3
<1>14. ~ (RecordBytes(x.manifest.items, n) > Len(Data) - manifestEnd)
  <2>1. n \in Nat
    BY <1>1 DEF ExportWhole
  <2>2. RecordBytes(x.manifest.items, n) \in Nat
    BY <2>1, RecordPairsFinite
  <2> QED BY <1>3, <1>13, <2>2
<1> HIDE DEF x, n
<1>15. UnlockStatus(x.passphrase) = "ok"
  BY <1>4, <1>5, <1>9, <1>10, <1>12, <1>14 DEF UnlockStatus, n
<1> QED BY <1>15 DEF x

\* An undamaged bundle has no records but its own in their places, so a
\* session of it decrypts every item it lists under an id of its own.
LEMMA UndamagedDecrypts ==
    ASSUME IInv, ExportsWhole, NEW e \in DOMAIN exports, Undamaged(e), DistinctIds(e),
           cachedManifest # None,
           NEW i \in DOMAIN exports[e].items, NEW d, d.id = exports[e].items[i].id
    PROVE  /\ DecryptStatus(d) = "ok"
           /\ OpenedPlaintext(Record(firstIndex(d))) = exports[e].items[i].plaintext
<1> DEFINE x == exports[e]
           its == x.manifest.items
           n == Len(its)
           size == x.items[i].count + TagSize
           b == ItemBox(x, i)
<1>1. ExportMade(x) /\ ExportWhole(x) /\ parser # None /\ Data = x.data
  BY DEF IInv, ExportsInv, ExportsWhole, Undamaged
<1>2. /\ headerBytes = serialize(x.header) /\ SameFront(e)
      /\ Len(Data) = RecordAt(x, n + 1)
      /\ \A k : RecordAt(x, k) = manifestEnd + RecordBytes(its, k - 1)
  BY UndamagedReads
<1>3. masterKey # None /\ cachedManifest[1] = x.manifest /\ masterKey[1] = x.key
  <2>1. PICK f \in DOMAIN exports : /\ SameFront(f)
                                    /\ cachedManifest[1] = exports[f].manifest
                                    /\ masterKey[1] = exports[f].key
    BY DEF IInv, UnlockedManifestWasExported
  <2>2. e = f
    BY <1>1, <1>2, <2>1, FrontNamesBundle
  <2> QED BY <2>1, <2>2 DEF IInv, SessionInv
<1>4. /\ n \in Nat /\ DOMAIN x.items = 1..n /\ DOMAIN its = 1..n
      /\ \A k \in 1..n : /\ its[k].id = x.items[k].id
                         /\ validateDescriptor(its[k])
  BY <1>1, SequenceFacts DEF ExportMade, ExportWhole
<1>5. /\ i \in 1..n /\ i - 1 \in Nat /\ its[i].itemSize = size /\ size \in Nat
      /\ TagSize <= size /\ TagSize \in Nat \ {0}
      /\ \A j \in 1..size : Data[RecordAt(x, i) + j] = SealedByte(b, j)
  BY SMTT(30), <1>1, <1>4, TagSizeAssumption DEF ExportWhole
<1>6. firstIndex(d) = i /\ Entries(d) # {}
  <2>1. Entries(d) = {i}
    BY <1>3, <1>4, <1>5 DEF Entries, DistinctIds
  <2>2. i <= i
    BY <1>5
  <2> QED BY <2>1, <2>2 DEF firstIndex
<1>7. \A k \in 1..n : its[k].itemSize \in 0..itemSizeMax
  <2>1. \A k \in 1..n : its[k].itemSize \in TagSize..itemSizeMax
    BY <1>4 DEF validateDescriptor, validateItemSize, itemSizeMin
  <2> QED BY SMTT(30), <1>4, <2>1, TagSizeAssumption, LimitsAssumption
<1> HIDE DEF its, n, size, b
<1>8. /\ RecordStart(i) = RecordAt(x, i) /\ RecordEnd(i) = RecordAt(x, i) + size
      /\ RecordAt(x, i) \in Nat /\ RecordEnd(i) <= Len(Data)
  <2>1. /\ RecordBytes(its, i - 1) \in Nat /\ RecordBytes(its, i) \in Nat
        /\ RecordBytes(its, i) = RecordBytes(its, i - 1) + its[i].itemSize
        /\ RecordBytes(its, i) <= RecordBytes(its, n)
    <3>1. n \in i..n
      BY <1>4, <1>5
    <3> QED BY <1>4, <1>5, <1>7, <3>1, RecordsEndToEnd
  <2>2. /\ RecordStart(i) = manifestEnd + RecordBytes(its, i - 1)
        /\ RecordEnd(i) = RecordStart(i) + its[i].itemSize
    BY <1>3 DEF RecordStart, RecordEnd, its
  <2>3. manifestEnd \in Nat
    BY <1>1, OpenFacts DEF IInv
  <2>4. RecordAt(x, i) = manifestEnd + RecordBytes(its, i - 1)
    BY <1>2
  <2>5. Len(Data) = manifestEnd + RecordBytes(its, n) /\ RecordBytes(its, n) \in Nat
    <3>1. (n + 1) - 1 = n
      BY <1>4
    <3> QED BY <1>2, <1>4, <3>1, RecordPairsFinite
  <2> HIDE DEF x
  <2> QED BY <1>5, <2>1, <2>2, <2>3, <2>4, <2>5
<1>9. /\ Record(i) = [j \in 1..size |-> SealedByte(b, j)]
      /\ Len(Record(i)) = size
  <2> DEFINE a == RecordAt(x, i)
  <2>0. a = RecordAt(x, i) /\ a \in Nat /\ size \in Nat
    BY <1>5, <1>8
  <2> HIDE DEF a
  <2>1. /\ a + 1 \in Nat /\ a + size \in Nat /\ a + 1 <= (a + size) + 1
        /\ (a + size) - (a + 1) + 1 = size
        /\ \A j \in 1..size : (a + 1) + j - 1 = a + j
    BY <2>0
  <2>2. Record(i) = SubSeq(Data, a + 1, a + size)
    BY <1>8, <2>0 DEF Record
  <2>3. /\ Len(Record(i)) = size /\ IsSequence(Record(i))
        /\ \A j \in 1..size : Record(i)[j] = Data[a + j]
    <3>1. LET w == (a + size) - (a + 1) + 1 IN
          /\ Len(Record(i)) = w /\ IsSequence(Record(i))
          /\ \A j \in 1..w : Record(i)[j] = Data[(a + 1) + j - 1]
      BY <2>1, <2>2, SubSeqFacts
    <3> QED BY <2>1, <3>1
  <2>4. Record(i) = [j \in 1..size |-> Record(i)[j]]
    BY <2>3, SequenceFacts
  <2>5. \A j \in 1..size : Record(i)[j] = SealedByte(b, j)
    BY <1>5, <2>0, <2>3
  <2> QED BY <2>3, <2>4, <2>5
<1>10. /\ b.key = deriveItemKey(x.key, d.id)
       /\ b.nonce = x.manifest.items[i].itemNonce
       /\ b.plaintext = x.items[i].plaintext /\ b.count = x.items[i].count
       /\ b.aad = ItemAAD(headerBytes, d.id)
  BY <1>2 DEF ItemBox, Box, b
<1>11. Record(i)[1].kind = "sealed" /\ Record(i)[1].box = b
  <2>1. 1 \in 1..size
    BY <1>5
  <2> QED BY <1>9, <2>1 DEF SealedByte
<1>12. b.count + TagSize = size
  BY <1>10 DEF size
<1>13. decryptItemAccepts(Record(i), x.key, d.id, x.manifest.items[i].itemNonce,
                          headerBytes)
  BY <1>5, <1>9, <1>10, <1>11, <1>12 DEF decryptItemAccepts, openGCM
<1>14. ~ (Len(Data) < RecordEnd(i))
  <2>1. Len(Data) \in Nat /\ RecordEnd(i) \in Nat
    BY <1>1, <1>5, <1>8, OpenFacts DEF IInv
  <2> QED BY <1>8, <2>1
<1>15. DecryptStatus(d) = "ok"
  BY <1>3, <1>6, <1>13, <1>14 DEF DecryptStatus
<1>16. OpenedPlaintext(Record(firstIndex(d))) = x.items[i].plaintext
  BY <1>6, <1>10, <1>11 DEF OpenedPlaintext
<1> QED BY <1>15, <1>16

\* An undamaged bundle unlocks with its passphrase and delivers every item,
\* unless ids repeat or Argon2 runs out of resources.
THEOREM WhatIsSentArrives == Spec => []UndamagedBundleDelivers
<1>1. Init => UndamagedBundleDelivers
  BY DEF Init, NoCall, UndamagedBundleDelivers, Undamaged
<1>2. IInv /\ IInv' /\ ExportsWhole /\ ExportsWhole' /\ UndamagedBundleDelivers
         /\ [Next]_vars => UndamagedBundleDelivers'
  <2> SUFFICES ASSUME IInv, IInv', ExportsWhole, ExportsWhole',
                      UndamagedBundleDelivers, [Next]_vars
               PROVE  UndamagedBundleDelivers'
    OBVIOUS
  <2>1. ASSUME result'.call \notin {"unlock", "decrypt"}
        PROVE  UndamagedBundleDelivers'
    BY <2>1 DEF UndamagedBundleDelivers
  <2>2. ASSUME NEW p \in Passphrases, unlock(p) PROVE UndamagedBundleDelivers'
    <3>1. /\ exports' = exports /\ parser' = parser
          /\ result'.call = "unlock" /\ result'.argument = <<p>>
          /\ result'.status = UnlockStatus(p)
      BY <2>2 DEF unlock, builderVars, Outcome, Some
    <3>2. ASSUME NEW e \in DOMAIN exports, Undamaged(e)', DistinctIds(e)',
                 p = exports[e].passphrase
          PROVE  UnlockStatus(p) = "ok"
      <4>1. Undamaged(e) /\ DistinctIds(e)
        BY <3>1, <3>2 DEF Undamaged, DistinctIds, Data
      <4> QED BY <3>2, <4>1, UndamagedUnlocks
    <3> QED BY <3>1, <3>2 DEF UndamagedBundleDelivers
  <2>3. ASSUME NEW p \in Passphrases, unlockOutOfResources(p)
        PROVE  UndamagedBundleDelivers'
    BY <2>3 DEF unlockOutOfResources, Outcome, UndamagedBundleDelivers
  <2>4. ASSUME NEW d \in KnownDescriptors, decrypt(d) PROVE UndamagedBundleDelivers'
    <3>1. /\ exports' = exports /\ parser' = parser /\ cachedManifest' = cachedManifest
          /\ result'.call = "decrypt" /\ result'.argument = <<d>>
          /\ result'.status = DecryptStatus(d)
          /\ DecryptStatus(d) = "ok" =>
                result'.value = <<OpenedPlaintext(Record(firstIndex(d)))>>
      BY <2>4 DEF decrypt, builderVars, session, Outcome, Some
    <3>2. ASSUME NEW e \in DOMAIN exports, Undamaged(e)', DistinctIds(e)',
                 cachedManifest # None, NEW i \in DOMAIN exports[e].items,
                 d.id = exports[e].items[i].id
          PROVE  /\ DecryptStatus(d) = "ok"
                 /\ OpenedPlaintext(Record(firstIndex(d))) = exports[e].items[i].plaintext
      <4>1. Undamaged(e) /\ DistinctIds(e)
        BY <3>1, <3>2 DEF Undamaged, DistinctIds, Data
      <4> QED BY <3>2, <4>1, UndamagedDecrypts
    <3>3. result'.argument[1] = d
          /\ (DecryptStatus(d) = "ok" =>
                result'.value[1] = OpenedPlaintext(Record(firstIndex(d))))
      BY <3>1
    <3>4. cachedManifest' # None' => cachedManifest # None
      BY <3>1 DEF None
    <3> QED BY <3>1, <3>2, <3>3, <3>4 DEF UndamagedBundleDelivers
  <2>5. CASE UNCHANGED vars
    BY <2>5 DEF vars, builderVars, session, UndamagedBundleDelivers, Undamaged,
                DistinctIds, Data
  <2>6. ASSUME Next,
               ~ (\E p \in Passphrases : unlock(p) \/ unlockOutOfResources(p)),
               ~ (\E d \in KnownDescriptors : decrypt(d))
        PROVE  result'.call \notin {"unlock", "decrypt"}
    <3>1. CASE Damage
      <4>1. PICK f : Damaged(f)
        BY <3>1 DEF Damage, Corrupt, ChangeField, Truncate, Extend, Splice, Swap
      <4> QED BY <4>1 DEF Damaged, NoCall
    <3> QED
      BY <2>6, <3>1
         DEF Next, add, build, buildThrows, Send, open, lock, Outcome, NoCall
  <2> QED BY <2>1, <2>2, <2>3, <2>4, <2>5, <2>6
<1> QED BY <1>1, <1>2, Invariance, ExportsStayWhole, PTL DEF Spec
=============================================================================
