-------------------------- MODULE MCBundleTransfer --------------------------
(***************************************************************************)
(* BundleTransfer on small instances.  A tag is one byte, items have up to  *)
(* two bytes of plaintext, and every limit is one that some item or bundle  *)
(* reaches and another exceeds.                                             *)
(***************************************************************************)
EXTENDS BundleTransfer, SequencesExt

CONSTANTS id1, id2, textA, textB, textC

Item(id, text, count) ==
    [id |-> id, plaintext |-> text, count |-> count,
     ttlSeconds |-> TRUE, ttlOriginEpoch |-> TRUE]

\* Every way an item can be accepted or refused: empty, full, too large,
\* half a TTL, and an id that repeats.
AllContents ==
    {Item(id1, textA, 0), Item(id1, textB, 2), Item(id2, textC, 2),
     Item(id2, textB, 3),
     [Item(id2, textA, 1) EXCEPT !.ttlOriginEpoch = FALSE]}

\* Two items of one size, so that their records can change places.
EqualSizedContents == {Item(id1, textA, 1), Item(id2, textB, 1)}

SpliceContents == EqualSizedContents \cup {Item(id1, textC, 1)}

Params(t, m, p) == [timeCost |-> t, memoryKiB |-> m, parallelism |-> p]

\* The recommended default, one the limits refuse, and the smallest memory
\* with one lane and with two.
AllParameters ==
    {Params(3, 65536, 4), Params(0, 8, 1), Params(1, 8, 1), Params(1, 8, 2)}

OneParameters == {Params(1, 16, 2)}

\* RecordBytes is the running sum of the item sizes.
ASSUME RecordBytesIsSum ==
    \A sizes \in UNION {[1..n -> 0..itemSizeMax] : n \in 0..3} :
        LET descriptors == [i \in DOMAIN sizes |-> [itemSize |-> sizes[i]]]
        IN \A n \in 0..Len(sizes) :
              RecordBytes(descriptors, n)
                 = FoldLeft(LAMBDA a, b : a + b, 0, SubSeq(sizes, 1, n))
=============================================================================
