--------------------------- MODULE Argon2_proofs ---------------------------
(***************************************************************************)
(* Filling the matrix with any number of lanes, threads and passes: no data *)
(* race, the blocks a single thread would have read, the order of           *)
(* SegmentOrder, and no thread left when the main thread goes on.  The      *)
(* inductive invariant comes first, then what it is for.                    *)
(***************************************************************************)
EXTENDS Argon2, FiniteSetTheorems, TLAPS

-----------------------------------------------------------------------------
(* Arithmetic. *)

LEMMA ProductOrder ==
    ASSUME NEW a \in Nat, NEW b \in Nat, NEW c \in Nat, a <= b
    PROVE  /\ a * c \in Nat /\ b * c \in Nat
           /\ a * c <= b * c
<1>1. PICK d \in Nat : b = a + d
  <2>1. b - a \in Nat /\ b = a + (b - a)
    OBVIOUS
  <2> QED BY <2>1
<1>2. (a + d) * c = a * c + d * c
  OBVIOUS
<1>3. a * c \in Nat /\ d * c \in Nat
  OBVIOUS
<1> QED BY <1>1, <1>2, <1>3

\* The quotient of n by w, as the code's shift computes it.
LEMMA QuotientBounds ==
    ASSUME NEW n \in Nat, NEW w \in Nat, w > 0
    PROVE  /\ n \div w \in Nat
           /\ (n \div w) * w <= n
OBVIOUS

\* A part y of w scales a number down below itself.
LEMMA ScaledDown ==
    ASSUME NEW a \in Nat, NEW w \in Nat, NEW y \in 0..(w - 1), w > 0
    PROVE  /\ (a * y) \div w \in Nat
           /\ a > 0 => (a * y) \div w < a
           /\ a = 0 => (a * y) \div w = 0
<1> DEFINE n == a * y
           q == n \div w
<1>1. n \in Nat
  OBVIOUS
<1> HIDE DEF n
<1>2. q \in Nat /\ q * w <= n
  BY <1>1, QuotientBounds
<1> HIDE DEF q
<1>3. ASSUME a > 0, a <= q PROVE FALSE
  <2>1. a * w <= q * w
    BY <1>2, <1>3, ProductOrder
  <2>2. a * w = a * (w - y) + a * y
    OBVIOUS
  <2>3. a * (w - y) > 0
    BY <1>3
  <2>4. a * w \in Nat /\ q * w \in Nat /\ a * (w - y) \in Nat
    BY <1>2
  <2> QED BY <1>1, <1>2, <2>1, <2>2, <2>3, <2>4 DEF n
<1>4. ASSUME a = 0 PROVE q = 0
  BY <1>4 DEF q, n
<1> QED BY <1>2, <1>3, <1>4 DEF q, n

LEMMA Remainder ==
    ASSUME NEW x \in Nat, NEW m \in Nat, m > 0
    PROVE  /\ x < m => x % m = x
           /\ (m <= x /\ x < m + m) => x % m = x - m
OBVIOUS

-----------------------------------------------------------------------------
(* index_alpha. *)

\* A block that fill_segment makes, and a lane that it may take one from.
InSegment(s, i, same_lane) ==
    /\ s \in Segments
    /\ i \in starting_index(s)..(SegmentLength - 1)
    /\ same_lane \in BOOLEAN
    /\ s.pass = 0 /\ s.slice = 0 => same_lane

\* The area without the word's wrap-around.
Area(s, i, same_lane) ==
    (IF s.pass = 0 THEN s.slice * SegmentLength
                   ELSE LaneLength - SegmentLength)
      + (IF same_lane THEN i - 1 ELSE IF i = 0 THEN -1 ELSE 0)

LEMMA AreaBounds ==
    ASSUME NEW s, NEW i, NEW same_lane, InSegment(s, i, same_lane)
    PROVE  /\ Area(s, i, same_lane) \in 1..LaneLength
           /\ reference_area_size(s, i, same_lane) = Area(s, i, same_lane)
<1> DEFINE area == Area(s, i, same_lane)
<1>1. /\ SegmentLength \in Nat /\ SegmentLength >= 2
      /\ WordSize \in Nat /\ LaneLength < WordSize
      /\ LaneLength = 4 * SegmentLength
  BY Argon2Assumption DEF LaneLength, SyncPoints
<1>2. /\ s.pass \in Nat /\ s.slice \in 0..3
      /\ i \in Nat /\ i < SegmentLength
      /\ s.pass = 0 /\ s.slice = 0 => i >= 2 /\ same_lane
      /\ same_lane \in BOOLEAN
  BY <1>1, Argon2Assumption
     DEF InSegment, Segments, SyncPoints, starting_index
<1>3. /\ s.slice = 0 => s.slice * SegmentLength = 0
      /\ s.slice > 0 => /\ s.slice * SegmentLength >= SegmentLength
                        /\ s.slice * SegmentLength <= 3 * SegmentLength
      /\ s.slice * SegmentLength \in Nat
  <2>1. CASE s.slice = 0
    BY <1>1, <2>1
  <2>2. CASE s.slice = 1
    BY <1>1, <2>2
  <2>3. CASE s.slice = 2
    BY <1>1, <2>3
  <2>4. CASE s.slice = 3
    BY <1>1, <2>4
  <2> QED BY <1>2, <2>1, <2>2, <2>3, <2>4
<1>4. area \in 1..LaneLength
  BY <1>1, <1>2, <1>3 DEF Area
<1>5. reference_area_size(s, i, same_lane) = area % WordSize
  BY <1>2 DEF reference_area_size, Area
<1>6. area % WordSize = area
  <2> HIDE DEF area
  <2> QED BY <1>1, <1>4, Remainder
<1> QED BY <1>4, <1>5, <1>6

\* The mapped word lies within the area.
LEMMA RelativeBounds ==
    ASSUME NEW area \in 1..LaneLength, NEW rand \in 0..(WordSize - 1)
    PROVE  relative_position(area, rand) \in 0..(area - 1)
<1> DEFINE skewed == (rand * rand) \div WordSize
           q == (area * skewed) \div WordSize
<1>1. /\ WordSize \in Nat /\ WordSize > 0 /\ LaneLength < WordSize
      /\ area \in Nat /\ area > 0 /\ area < WordSize
  BY Argon2Assumption DEF LaneLength, SyncPoints
<1>2. skewed \in 0..(WordSize - 1)
  BY <1>1, ScaledDown
<1> HIDE DEF skewed
<1>3. q \in Nat /\ q < area
  BY <1>1, <1>2, ScaledDown
<1> HIDE DEF q
<1>4. (area - 1) % WordSize = area - 1
  BY <1>1, Remainder
<1>5. /\ WordSize * WordSize \in Nat
      /\ WordSize <= WordSize * WordSize
  BY <1>1, ProductOrder
<1>6. (area - 1 - q) \in Nat /\ area - 1 - q < WordSize * WordSize
  BY <1>1, <1>3, <1>5
<1>7. (area - 1 - q) % (WordSize * WordSize) = area - 1 - q
  <2> DEFINE m == WordSize * WordSize
             x == area - 1 - q
  <2>1. m \in Nat /\ m > 0 /\ x \in Nat /\ x < m
    BY <1>1, <1>5, <1>6
  <2> HIDE DEF m, x
  <2>2. x % m = x
    BY <2>1, Remainder
  <2> QED BY <2>2 DEF m, x
<1>8. relative_position(area, rand) = area - 1 - q
  BY <1>4, <1>7 DEF relative_position, skewed, q
<1> QED BY <1>1, <1>3, <1>8

\* Whatever word a block holds, index_alpha (core.c) picks a block of the lane
\* that is finished when the next one is made, and not the one just before.
THEOREM IndexAlphaIsFinished ==
    ASSUME NEW s, NEW i, NEW same_lane, InSegment(s, i, same_lane),
           NEW rand \in 0..(WordSize - 1)
    PROVE  index_alpha(s, i, rand, same_lane) \in Finished(s, i, same_lane)
<1> DEFINE area == Area(s, i, same_lane)
           rel == relative_position(area, rand)
           x == start_position(s) + rel
           k == index_alpha(s, i, rand, same_lane)
<1>1. /\ SegmentLength \in Nat /\ SegmentLength >= 2
      /\ LaneLength = 4 * SegmentLength
  BY Argon2Assumption DEF LaneLength, SyncPoints
<1>2. /\ s.pass \in Nat /\ s.slice \in 0..3
      /\ i \in Nat /\ i < SegmentLength
      /\ s.pass = 0 /\ s.slice = 0 => i >= 2 /\ same_lane
      /\ same_lane \in BOOLEAN
  BY <1>1, Argon2Assumption
     DEF InSegment, Segments, SyncPoints, starting_index
<1>3. area \in 1..LaneLength /\ rel \in 0..(area - 1)
  BY AreaBounds, RelativeBounds
<1>4. k = x % LaneLength
  BY AreaBounds DEF index_alpha
<1> HIDE DEF rel, k
<1>5. start_position(s) = IF s.pass = 0 \/ s.slice = 3 THEN 0
                          ELSE (s.slice + 1) * SegmentLength
  BY DEF start_position, SyncPoints
<1>6. curr_offset(s, i) = s.slice * SegmentLength + i
  BY DEF curr_offset
<1>7. prev_offset(s, i) = IF curr_offset(s, i) = 0 THEN LaneLength - 1
                                                   ELSE curr_offset(s, i) - 1
  BY DEF prev_offset
<1> SUFFICES /\ k \in 0..(LaneLength - 1)
             /\ k # prev_offset(s, i)
             /\ \/ same_lane /\ s.slice * SegmentLength <= k
                             /\ k < curr_offset(s, i)
                \/ k < s.slice * SegmentLength
                \/ s.pass > 0 /\ k >= (s.slice + 1) * SegmentLength
  BY DEF Finished, k
<1>8. CASE s.pass = 0
  <2>1. x = rel /\ x \in Nat
    BY <1>3, <1>5, <1>8 DEF rel
  <2>2. /\ s.slice * SegmentLength \in Nat
        /\ s.slice = 0 => s.slice * SegmentLength = 0
        /\ s.slice * SegmentLength <= 3 * SegmentLength
    <3>1. CASE s.slice = 0
      BY <1>1, <3>1
    <3>2. CASE s.slice = 1
      BY <1>1, <3>2
    <3>3. CASE s.slice = 2
      BY <1>1, <3>3
    <3>4. CASE s.slice = 3
      BY <1>1, <3>4
    <3> QED BY <1>2, <3>1, <3>2, <3>3, <3>4
  <2>3. x < LaneLength /\ LaneLength \in Nat /\ LaneLength > 0
    BY <1>1, <1>3, <2>1
  <2>4. k = rel
    BY <1>4, <2>1, <2>3, Remainder
  <2>5. area = s.slice * SegmentLength
                 + (IF same_lane THEN i - 1 ELSE IF i = 0 THEN -1 ELSE 0)
    BY <1>8 DEF Area
  <2> HIDE DEF area, x
  <2> QED BY <1>1, <1>2, <1>3, <1>6, <1>7, <2>2, <2>3, <2>4, <2>5, <1>8
<1>9. CASE s.pass > 0
  <2>1. area = 3 * SegmentLength
                 + (IF same_lane THEN i - 1 ELSE IF i = 0 THEN -1 ELSE 0)
    BY <1>1, <1>9 DEF Area
  <2> HIDE DEF area
  <2>2. /\ LaneLength \in Nat /\ LaneLength > 0
        /\ x \in Nat => /\ x < LaneLength => k = x
                        /\ (LaneLength <= x /\ x < LaneLength + LaneLength)
                              => k = x - LaneLength
    BY <1>1, <1>4, Remainder
  <2>3. rel \in Nat /\ rel <= area - 1 /\ area \in Nat
    BY <1>1, <1>3
  <2>4. CASE s.slice = 3
    <3>1. x = rel
      BY <1>5, <2>3, <2>4
    <3> QED BY <1>1, <1>2, <1>6, <1>7, <1>9, <2>1, <2>2, <2>3, <2>4, <3>1
  <2>5. CASE s.slice = 0
    <3>1. x = SegmentLength + rel
      BY <1>1, <1>5, <1>9, <2>3, <2>5
    <3> HIDE DEF x
    <3> QED BY <1>1, <1>2, <1>6, <1>7, <1>9, <2>1, <2>2, <2>3, <2>5, <3>1
  <2>6. CASE s.slice = 1
    <3>1. x = 2 * SegmentLength + rel
      BY <1>1, <1>5, <1>9, <2>3, <2>6
    <3> HIDE DEF x
    <3> QED BY <1>1, <1>2, <1>6, <1>7, <1>9, <2>1, <2>2, <2>3, <2>6, <3>1
  <2>7. CASE s.slice = 2
    <3>1. x = 3 * SegmentLength + rel
      BY <1>1, <1>5, <1>9, <2>3, <2>7
    <3> HIDE DEF x
    <3> QED BY <1>1, <1>2, <1>6, <1>7, <1>9, <2>1, <2>2, <2>3, <2>7, <3>1
  <2> QED BY <1>2, <2>4, <2>5, <2>6, <2>7
<1> QED BY <1>2, <1>8, <1>9

-----------------------------------------------------------------------------
(* The inductive invariant: what the position of the main thread says of    *)
(* every thread, of the handles and inputs, and of every block.             *)

\* Segment s belongs to an earlier slice than t.
Before(s, t) == \/ s.pass < t.pass
                \/ s.pass = t.pass /\ s.slice < t.slice

\* The segment of lane l in the slice in hand.
Peer(l) == [pass |-> at.pass, slice |-> at.slice, lane |-> l]

State(t) == threads[t].state

ThreadStates == {"none", "created", "filling", "exited"}

ThreadRecords ==
    [state : ThreadStates, segment : Segments \cup {None}, index : Nat,
     ref : Blocks \cup {None}]

\* A thread that has read its inputs fills the segment it was created for; at
\* a block, it refers to one that is finished.
ThreadInv(t) ==
    /\ threads[t].state \in {"filling", "exited"} =>
          /\ threads[t].segment = t
          /\ threads[t].index \in starting_index(t)..SegmentLength
    /\ threads[t].ref # None =>
          /\ threads[t].state = "filling"
          /\ threads[t].index < SegmentLength
          /\ t.pass = 0 /\ t.slice = 0 => threads[t].ref[1] = t.lane
          /\ threads[t].ref[2] \in
                Finished(t, threads[t].index, threads[t].ref[1] = t.lane)

ThreadsInv ==
    /\ threads \in [Segments -> ThreadRecords]
    /\ \A t \in Segments : ThreadInv(t)

\* Where the main thread can be, and what it knows of its counters.
Fill == {"room", "create", "join", "abandon"}

MainInv ==
    /\ pc \in {"initialize", "calloc", "fill_st", "finalize", "returned"}
                 \cup Fill
    /\ at \in Segments /\ joining \in 0..Lanes
    /\ rc \in {"none", "ok", "memory", "threads"}
    /\ rc # "none" <=> pc = "returned"
    /\ matrix \in {"none", "in use", "wiped"}
    /\ pc = "room" => at.lane >= ThreadLimit
    /\ pc = "join" => at.lane = Lanes - 1 /\ joining < Lanes
    /\ pc = "abandon" => joining <= at.lane
    /\ pc = "finalize" \/ rc = "ok" => LastSlice(at)
    /\ pc \in {"initialize", "calloc"} => at = FirstSegment

ArraysInv ==
    IF pc \in Fill
    THEN /\ handle \in [LaneIds -> Segments \cup {None}]
         /\ thr_data \in [LaneIds -> Segments \cup {None}]
    ELSE handle = None /\ thr_data = None

\* Slices before the one in hand are filled, those after it not begun.
OrderInv ==
    \A t \in Segments : /\ Before(t, at) => State(t) = "exited"
                        /\ Before(at, t) => State(t) = "none"

\* The lanes below this one have been joined in this slice.
Freed == CASE pc = "room"   -> at.lane - ThreadLimit
           [] pc = "create" -> at.lane + 1 - ThreadLimit
           [] OTHER         -> joining

LaneInv(l) ==
    /\ pc \in {"initialize", "calloc"} => State(Peer(l)) = "none"
    /\ pc \in {"room", "create", "abandon"} =>
          IF l < at.lane
          THEN State(Peer(l)) # "none" /\ handle[l] = Peer(l)
                                       /\ thr_data[l] = Peer(l)
          ELSE State(Peer(l)) = "none"
    /\ pc = "join" => State(Peer(l)) # "none" /\ handle[l] = Peer(l)
                                              /\ thr_data[l] = Peer(l)
    /\ pc \in Fill =>
          /\ l < Freed => State(Peer(l)) = "exited"
          /\ (Peer(l) \in joined /\ (pc = "abandon" => ThreadLimit = Lanes))
                => l < Freed
    /\ pc = "fill_st" =>
          /\ l < at.lane => State(Peer(l)) = "exited"
          /\ l > at.lane => State(Peer(l)) = "none"
          /\ State(Peer(l)) # "created"
    /\ pc = "finalize" \/ rc = "ok" => State(Peer(l)) = "exited"
    /\ pc = "returned" => State(Peer(l)) \in {"none", "exited"}

SliceInv == \A l \in LaneIds : LaneInv(l)

JoinedInv == \A t \in joined : t \in Segments /\ State(t) = "exited"

\* Block i of lane l in the slice in hand has been made in this pass.
Made(l, i) ==
    \/ State(Peer(l)) = "exited"
    \/ State(Peer(l)) = "filling" /\ i < threads[Peer(l)].index
    \/ at.pass = 0 /\ at.slice = 0 /\ i < 2

Written(l, c, i) ==
    IF c < at.slice \/ (c = at.slice /\ Made(l, i)) THEN at.pass + 1
                                                     ELSE at.pass

Slices  == 0..3
Indices == 0..(SegmentLength - 1)

MemoryInv ==
    /\ memory \in [Blocks -> Nat]
    /\ matrix = "none" =>
          /\ pc = "initialize" \/ (pc = "returned" /\ rc # "ok")
          /\ \A b \in Blocks : memory[b] = 0
          /\ \A t \in Segments : State(t) = "none"
    /\ matrix # "none" =>
          \A l \in LaneIds, c \in Slices, i \in Indices :
              memory[<<l, c * SegmentLength + i>>] = Written(l, c, i)

IInv ==
    /\ MainInv /\ ArraysInv /\ ThreadsInv /\ OrderInv /\ SliceInv /\ JoinedInv
    /\ MemoryInv

-----------------------------------------------------------------------------
(* Segments and slices. *)

LEMMA Sizes ==
    /\ Lanes \in Nat /\ Lanes >= 1 /\ Passes \in Nat /\ Passes >= 1
    /\ SegmentLength \in Nat /\ SegmentLength >= 2
    /\ LaneLength = 4 * SegmentLength /\ SyncPoints = 4
    /\ ThreadLimit \in Nat /\ ThreadLimit >= 1 /\ ThreadLimit <= Lanes
    /\ 0 \in LaneIds
<1>1. SegmentLength \in Nat /\ SegmentLength >= 2
  BY Argon2Assumption
<1>2. Lanes \in Nat /\ Lanes >= 1 /\ Passes \in Nat /\ Passes >= 1
  BY Argon2Assumption
<1>3. LaneLength = 4 * SegmentLength /\ SyncPoints = 4
  BY DEF LaneLength, SyncPoints
<1>4. ThreadLimit \in Nat /\ ThreadLimit >= 1 /\ ThreadLimit <= Lanes
  BY <1>2, ThreadsAssumption DEF ThreadLimit
<1> QED BY <1>1, <1>2, <1>3, <1>4 DEF LaneIds

\* Every segment is in an earlier slice than s, in a later one, or in its own.
LEMMA SliceOf ==
    ASSUME NEW s \in Segments, NEW t \in Segments
    PROVE  /\ s.pass \in Nat /\ s.pass < Passes /\ s.slice \in 0..3
           /\ s.lane \in LaneIds
           /\ s = [pass |-> s.pass, slice |-> s.slice, lane |-> s.lane]
           /\ Before(t, s) => ~ Before(s, t)
           /\ \/ Before(t, s) \/ Before(s, t)
              \/ (t.pass = s.pass /\ t.slice = s.slice)
BY Sizes DEF Segments, Before, SyncPoints

LEMMA Peers ==
    ASSUME at \in Segments, NEW l \in LaneIds
    PROVE  /\ Peer(l) \in Segments /\ Peer(l).lane = l
           /\ Peer(l).pass = at.pass /\ Peer(l).slice = at.slice
           /\ ~ Before(Peer(l), at) /\ ~ Before(at, Peer(l))
           /\ at = Peer(at.lane)
           /\ \A t \in Segments : ~ Before(t, at) /\ ~ Before(at, t)
                                     => t = Peer(t.lane)
<1>1. /\ at.pass \in 0..(Passes - 1) /\ at.slice \in 0..(SyncPoints - 1)
      /\ at.pass \in Nat /\ at.slice \in Nat
  BY Sizes DEF Segments
<1>2. /\ Peer(l) \in Segments /\ Peer(l).lane = l
      /\ Peer(l).pass = at.pass /\ Peer(l).slice = at.slice
  BY <1>1 DEF Peer, Segments
<1>3. at = Peer(at.lane)
  BY SliceOf DEF Peer
<1>4. ASSUME NEW t \in Segments, ~ Before(t, at), ~ Before(at, t)
      PROVE  t = Peer(t.lane)
  <2>1. t = [pass |-> t.pass, slice |-> t.slice, lane |-> t.lane]
    BY SliceOf
  <2>2. t.pass = at.pass /\ t.slice = at.slice
    BY <1>4, SliceOf
  <2> QED BY <2>1, <2>2 DEF Peer
<1> QED BY <1>1, <1>2, <1>3, <1>4 DEF Before

\* What follows the last lane of a slice.
LEMMA NextSliceFacts ==
    ASSUME NEW s \in Segments, ~ LastSlice(s), NEW t \in Segments
    PROVE  LET n == NextSlice(s) IN
           /\ n \in Segments /\ n.lane = 0
           /\ Before(s, n)
           /\ Before(t, n) <=> Before(t, s) \/ (t.pass = s.pass
                                                   /\ t.slice = s.slice)
           /\ Before(n, t) => Before(s, t)
           /\ t.pass = n.pass /\ t.slice = n.slice => Before(s, t)
           /\ IF s.slice < 3 THEN n.pass = s.pass /\ n.slice = s.slice + 1
                               ELSE n.pass = s.pass + 1 /\ n.slice = 0
<1>1. /\ s.pass \in Nat /\ s.pass < Passes /\ s.slice \in 0..3
      /\ t.pass \in Nat /\ t.pass < Passes /\ t.slice \in 0..3
      /\ Passes \in Nat /\ SyncPoints = 4 /\ 0 \in LaneIds
  BY Sizes, SliceOf
<1>2. CASE s.slice < 3
  <2>1. NextSlice(s) = [pass |-> s.pass, slice |-> s.slice + 1, lane |-> 0]
    BY <1>1, <1>2 DEF NextSlice
  <2> QED BY <1>1, <1>2, <2>1 DEF Segments, Before
<1>3. CASE s.slice = 3
  <2>1. NextSlice(s) = [pass |-> s.pass + 1, slice |-> 0, lane |-> 0]
    BY <1>1, <1>3 DEF NextSlice
  <2>2. s.pass # Passes - 1
    BY <1>1, <1>3 DEF LastSlice
  <2> QED BY <1>1, <1>3, <2>1, <2>2 DEF Segments, Before
<1> QED BY <1>1, <1>2, <1>3

-----------------------------------------------------------------------------
(* The steps of a thread. *)

\* A thread that runs fills a segment of the slice in hand.
LEMMA ActiveThread ==
    ASSUME IInv, NEW t \in Segments, State(t) \in {"created", "filling"}
    PROVE  /\ t = Peer(t.lane) /\ t.lane \in LaneIds
           /\ t.pass = at.pass /\ t.slice = at.slice
           /\ pc \in Fill \cup {"fill_st"}
           /\ pc = "fill_st" => t = at
           /\ State(t) = "created" => pc \in Fill /\ thr_data[t.lane] = t
           /\ t \notin joined
           /\ matrix # "none"
<1>1. t = Peer(t.lane) /\ t.lane \in LaneIds
  BY Peers, SliceOf DEF IInv, MainInv, OrderInv
<1>2. LaneInv(t.lane)
  BY <1>1 DEF IInv, SliceInv
<1>3. t.pass = at.pass /\ t.slice = at.slice
  BY <1>1 DEF Peer
<1>4. pc \in Fill \cup {"fill_st"}
  BY <1>1, <1>2 DEF IInv, MainInv, LaneInv
<1>5. pc = "fill_st" => t = at
  <2>1. at \in Segments
    BY DEF IInv, MainInv
  <2>2. at = Peer(at.lane) /\ at.lane \in LaneIds
    BY <1>1, <2>1, Peers, SliceOf
  <2>3. at.lane \in Int /\ t.lane \in Int
    BY <1>1, <2>2 DEF LaneIds
  <2> QED BY <1>1, <1>2, <2>2, <2>3 DEF LaneInv
<1>6. State(t) = "created" => pc \in Fill /\ thr_data[t.lane] = t
  BY <1>1, <1>2, <1>4 DEF LaneInv, Fill
<1>7. t \notin joined
  BY DEF IInv, JoinedInv
<1>8. matrix # "none"
  BY DEF IInv, MemoryInv
<1> QED BY <1>1, <1>3, <1>4, <1>5, <1>6, <1>7, <1>8

\* Thread t comes to state st, and nothing else changes but memory and what
\* the threads keep for themselves.
LEMMA ThreadMoves ==
    ASSUME IInv, NEW t \in Segments, NEW st \in {"filling", "exited"},
           \/ State(t) \in {"created", "filling"}
           \/ pc = "fill_st" /\ t = at /\ State(t) = "none",
           \A u \in Segments : State(u)' = IF u = t THEN st ELSE State(u),
           UNCHANGED <<mainVars, matrix, arrayVars, joined>>
    PROVE  MainInv' /\ ArraysInv' /\ OrderInv' /\ SliceInv' /\ JoinedInv'
<1>1. /\ UNCHANGED <<pc, at, joining, rc, matrix, handle, thr_data, joined>>
  BY DEF mainVars, arrayVars
<1>2. /\ at \in Segments /\ t = Peer(t.lane) /\ t.lane \in LaneIds
      /\ ~ Before(t, at) /\ ~ Before(at, t)
      /\ t \notin joined
      /\ pc \in Fill \cup {"fill_st"}
      /\ pc = "fill_st" => t = at
      /\ State(t) = "none" => pc = "fill_st"
      /\ State(t) # "exited"
  <2>1. at \in Segments
    BY DEF IInv, MainInv
  <2>2. t = Peer(t.lane) /\ t.lane \in LaneIds
    BY <2>1, ActiveThread, Peers, SliceOf
  <2>3. ~ Before(t, at) /\ ~ Before(at, t)
    BY <2>1, <2>2, Peers
  <2>4. t \notin joined
    BY DEF IInv, JoinedInv
  <2> QED BY <2>1, <2>2, <2>3, <2>4, ActiveThread
<1>3. MainInv'
  BY <1>1 DEF IInv, MainInv, LastSlice
<1>4. ArraysInv'
  BY <1>1 DEF IInv, ArraysInv
<1>5. OrderInv'
  BY <1>1, <1>2 DEF IInv, OrderInv
<1>6. JoinedInv'
  BY <1>1, <1>2 DEF IInv, JoinedInv
<1>7. SliceInv'
  <2> SUFFICES ASSUME NEW l \in LaneIds PROVE LaneInv(l)'
    BY DEF SliceInv
  <2>1. /\ LaneInv(l) /\ Peer(l)' = Peer(l) /\ Freed' = Freed
        /\ Peer(l) \in Segments /\ Peer(l).lane = l
    BY <1>1, <1>2, Peers DEF IInv, SliceInv, Peer, Freed
  <2>2. State(Peer(l))' = IF Peer(l) = t THEN st ELSE State(Peer(l))
    BY <2>1 DEF State
  <2>3. CASE Peer(l) # t
    BY <1>1, <2>1, <2>2, <2>3 DEF LaneInv
  <2>4. CASE Peer(l) = t
    <3>1. l = t.lane /\ l \in Int /\ (pc = "fill_st" => ~(l > at.lane) /\ ~(l < at.lane))
      BY <1>2, <2>1, <2>4 DEF LaneIds
    <3>2. pc # "returned" /\ rc # "ok" /\ pc \notin {"finalize", "initialize", "calloc"}
      BY <1>2 DEF IInv, MainInv, Fill
    <3> QED BY <1>1, <1>2, <2>1, <2>2, <2>4, <3>1, <3>2 DEF LaneInv, Fill
  <2> QED BY <2>3, <2>4
<1> QED BY <1>3, <1>4, <1>5, <1>6, <1>7

\* Block i of slice c has an offset of its own.
LEMMA Offsets ==
    ASSUME NEW c \in Slices, NEW i \in Indices
    PROVE  /\ c * SegmentLength + i \in 0..(LaneLength - 1)
           /\ \A d \in Slices, j \in Indices :
                 c * SegmentLength + i = d * SegmentLength + j => c = d /\ i = j
<1>1. /\ SegmentLength \in Nat /\ SegmentLength >= 2
      /\ LaneLength = 4 * SegmentLength /\ i \in 0..(SegmentLength - 1)
  BY Sizes DEF Indices
<1>2. \A d \in Slices : d \in {0, 1, 2, 3}
  BY DEF Slices
<1>3. ASSUME NEW d \in {0, 1, 2, 3}
      PROVE  /\ d = 0 => d * SegmentLength = 0
             /\ d = 1 => d * SegmentLength = SegmentLength
             /\ d = 2 => d * SegmentLength = SegmentLength + SegmentLength
             /\ d = 3 => d * SegmentLength
                           = SegmentLength + SegmentLength + SegmentLength
  BY <1>1
<1>4. c * SegmentLength + i \in 0..(LaneLength - 1)
  BY <1>1, <1>2, <1>3
<1>5. ASSUME NEW d \in Slices, NEW j \in Indices,
             c * SegmentLength + i = d * SegmentLength + j
      PROVE  c = d /\ i = j
  <2>1. j \in 0..(SegmentLength - 1) /\ c \in {0, 1, 2, 3} /\ d \in {0, 1, 2, 3}
    BY <1>2 DEF Indices
  <2> QED BY <1>1, <1>3, <1>5, <2>1
<1> QED BY <1>4, <1>5

\* Steps that make no block leave the memory as the invariant has it.
LEMMA NoBlockMade ==
    ASSUME IInv, matrix # "none", UNCHANGED <<memory, matrix, at>>,
           \A l \in LaneIds, i \in Indices : Made(l, i)' = Made(l, i)
    PROVE  MemoryInv'
BY DEF IInv, MemoryInv, Written

\* A step replaces the record of thread t by r.
LEMMA ThreadReplaced ==
    ASSUME IInv, NEW t \in Segments, NEW r \in ThreadRecords,
           threads' = [threads EXCEPT ![t] = r],
           ThreadInv(t)'
    PROVE  /\ ThreadsInv'
           /\ \A u \in Segments : threads'[u] = IF u = t THEN r ELSE threads[u]
<1>1. threads \in [Segments -> ThreadRecords]
  BY DEF IInv, ThreadsInv
<1>2. \A u \in Segments : threads'[u] = IF u = t THEN r ELSE threads[u]
  BY <1>1
<1>3. threads' \in [Segments -> ThreadRecords]
  BY <1>1
<1>4. ASSUME NEW u \in Segments, u # t PROVE ThreadInv(u)'
  BY <1>2, <1>4 DEF IInv, ThreadsInv, ThreadInv
<1> QED BY <1>2, <1>3, <1>4 DEF ThreadsInv

LEMMA StartingIndex ==
    ASSUME NEW s \in Segments
    PROVE  /\ starting_index(s) = IF s.pass = 0 /\ s.slice = 0 THEN 2 ELSE 0
           /\ starting_index(s) \in 0..SegmentLength
BY Sizes DEF starting_index

\* A thread reads its inputs, or the main thread begins a segment itself.
LEMMA BeginSegment ==
    ASSUME IInv, NEW t \in Segments,
           \/ State(t) = "created"
           \/ pc = "fill_st" /\ t = at /\ State(t) = "none",
           threads' = [threads EXCEPT ![t] = Filling(t)],
           UNCHANGED <<mainVars, matrix, memory, arrayVars, joined>>
    PROVE  IInv'
<1>1. Filling(t) \in ThreadRecords
  BY StartingIndex DEF Filling, ThreadRecords, ThreadStates
<1>2. threads'[t] = Filling(t)
  BY DEF IInv, ThreadsInv
<1>3. ThreadInv(t)'
  BY <1>2, StartingIndex, Sizes DEF Filling, ThreadInv
<1>4. /\ ThreadsInv'
      /\ \A u \in Segments :
            threads'[u] = IF u = t THEN Filling(t) ELSE threads[u]
  BY <1>1, <1>3, ThreadReplaced
<1>5. \A u \in Segments : State(u)' = IF u = t THEN "filling" ELSE State(u)
  BY <1>4 DEF State, Filling
<1>6. MainInv' /\ ArraysInv' /\ OrderInv' /\ SliceInv' /\ JoinedInv'
  BY <1>5, ThreadMoves
<1>7. MemoryInv'
  <2>1. matrix # "none" /\ UNCHANGED <<memory, matrix, at>>
    BY DEF IInv, MainInv, MemoryInv, mainVars
  <2>2. ASSUME NEW l \in LaneIds, NEW i \in Indices
        PROVE  Made(l, i)' = Made(l, i)
    <3>1. at \in Segments /\ Peer(l)' = Peer(l) /\ Peer(l) \in Segments
          /\ Peer(l).pass = at.pass /\ Peer(l).slice = at.slice
      BY <2>1, Peers DEF IInv, MainInv, Peer
    <3>2. CASE Peer(l) # t
      BY <1>4, <2>1, <3>1, <3>2 DEF Made, State
    <3>3. CASE Peer(l) = t
      <4>1. /\ State(t) \in {"created", "none"}
            /\ threads'[t].state = "filling"
            /\ threads'[t].index = starting_index(t)
        BY <1>2 DEF Filling
      <4> QED BY <2>1, <3>1, <3>3, <4>1, StartingIndex DEF Made, State, Indices
    <3> QED BY <3>2, <3>3
  <2> QED BY <2>1, <2>2, NoBlockMade
<1> QED BY <1>4, <1>6, <1>7 DEF IInv

LEMMA StartStep ==
    ASSUME IInv, NEW t \in Segments, start(t)
    PROVE  IInv'
<1>1. State(t) = "created"
  BY DEF start, State
<1>2. thr_data[t.lane] = t
  BY <1>1, ActiveThread
<1>3. threads' = [threads EXCEPT ![t] = Filling(t)]
  BY <1>2 DEF start
<1> QED BY <1>1, <1>3, BeginSegment DEF start

LEMMA FillSegmentStep ==
    ASSUME IInv, fillSegment
    PROVE  IInv'
<1>1. at \in Segments
  BY DEF IInv, MainInv
<1>2. pc = "fill_st" /\ State(at) = "none"
  BY DEF fillSegment, State
<1>3. threads' = [threads EXCEPT ![at] = Filling(at)]
  BY DEF fillSegment
<1> QED BY <1>1, <1>2, <1>3, BeginSegment DEF fillSegment

\* What a thread that is filling keeps of its own.
LEMMA FillingThread ==
    ASSUME IInv, NEW t \in Segments, threads[t].state = "filling"
    PROVE  /\ threads[t] \in ThreadRecords
           /\ threads[t].segment = t
           /\ threads[t].index \in Nat
           /\ threads[t].index >= starting_index(t)
           /\ threads[t].index <= SegmentLength
           /\ State(t) = "filling"
           /\ ThreadInv(t)
<1>1. threads[t] \in ThreadRecords /\ ThreadInv(t)
  BY DEF IInv, ThreadsInv
<1>2. threads[t].index \in starting_index(t)..SegmentLength
  BY <1>1 DEF ThreadInv
<1> QED BY <1>1, <1>2, Sizes, StartingIndex DEF ThreadInv, State, ThreadRecords

\* A lane and an offset make a block.
LEMMA ReferenceIsBlock ==
    ASSUME NEW l \in LaneIds, NEW k \in 0..(LaneLength - 1)
    PROVE  /\ <<l, k>> \in Blocks /\ <<l, k>> # None
           /\ <<l, k>>[1] = l /\ <<l, k>>[2] = k
BY DEF Blocks, None

LEMMA BeginBlockStep ==
    ASSUME IInv, NEW t \in Segments, beginBlock(t)
    PROVE  IInv'
<1> DEFINE i == threads[t].index
<1>1. /\ threads[t].state = "filling" /\ i < SegmentLength
      /\ UNCHANGED <<mainVars, matrix, memory, arrayVars, joined>>
  BY DEF beginBlock
<1>2. /\ threads[t] \in ThreadRecords /\ threads[t].segment = t
      /\ i \in Nat /\ i >= starting_index(t) /\ State(t) = "filling"
      /\ ThreadInv(t)
  BY <1>1, FillingThread
<1> DEFINE s == threads[t].segment
<1>3. PICK pseudo_rand \in PseudoRands, word \in LaneIds :
         LET ref_lane == IF s.pass = 0 /\ s.slice = 0 THEN s.lane ELSE word
         IN threads' = [threads EXCEPT ![t].ref =
                <<ref_lane, index_alpha(s, i, pseudo_rand, ref_lane = s.lane)>>]
  BY DEF beginBlock
<1> DEFINE ref_lane == IF s.pass = 0 /\ s.slice = 0 THEN s.lane ELSE word
           k == index_alpha(s, i, pseudo_rand, ref_lane = s.lane)
           r == [threads[t] EXCEPT !.ref = <<ref_lane, k>>]
<1>4. s = t
  BY <1>2
<1>5. k \in Finished(s, i, ref_lane = s.lane)
  <2> HIDE DEF s
  <2>1. s \in Segments
    BY <1>4
  <2>2. pseudo_rand \in 0..(WordSize - 1)
    BY ThreadsAssumption
  <2>3. i \in starting_index(s)..(SegmentLength - 1)
    BY <1>1, <1>2, <1>4, Sizes, StartingIndex
  <2>4. InSegment(s, i, ref_lane = s.lane)
    BY <2>1, <2>3 DEF InSegment
  <2> QED BY <2>1, <2>2, <2>4, IndexAlphaIsFinished
<1>6. ref_lane \in LaneIds /\ k \in 0..(LaneLength - 1)
  BY <1>4, <1>5, SliceOf DEF Finished
<1> HIDE DEF s, ref_lane, k
<1>7. /\ <<ref_lane, k>> \in Blocks
      /\ <<ref_lane, k>>[1] = ref_lane /\ <<ref_lane, k>>[2] = k
  BY <1>6, ReferenceIsBlock
<1>8. /\ r \in ThreadRecords /\ r.state = "filling" /\ r.segment = t
      /\ r.index = i /\ r.ref = <<ref_lane, k>>
  BY <1>1, <1>2, <1>7 DEF ThreadRecords
<1>9. threads' = [threads EXCEPT ![t] = r]
  BY <1>3 DEF ref_lane, k
<1> HIDE DEF r
<1>10. threads'[t] = r
  BY <1>9 DEF IInv, ThreadsInv
<1>11. ThreadInv(t)'
  <2>1. t.pass = 0 /\ t.slice = 0 => ref_lane = t.lane
    BY <1>4 DEF ref_lane
  <2> QED BY <1>1, <1>2, <1>4, <1>5, <1>7, <1>8, <1>10, <2>1 DEF ThreadInv
<1>12. /\ ThreadsInv'
       /\ \A u \in Segments : threads'[u] = IF u = t THEN r ELSE threads[u]
  BY <1>8, <1>9, <1>11, ThreadReplaced
<1>13. \A u \in Segments : State(u)' = IF u = t THEN "filling" ELSE State(u)
  BY <1>8, <1>12 DEF State
<1>14. MainInv' /\ ArraysInv' /\ OrderInv' /\ SliceInv' /\ JoinedInv'
  BY <1>1, <1>2, <1>13, ThreadMoves
<1>15. MemoryInv'
  <2>1. matrix # "none" /\ UNCHANGED <<memory, matrix, at>>
    BY <1>1, <1>2, ActiveThread DEF mainVars
  <2>2. ASSUME NEW l \in LaneIds, NEW j \in Indices
        PROVE  Made(l, j)' = Made(l, j)
    <3>1. Peer(l)' = Peer(l) /\ Peer(l) \in Segments
      BY <2>1, Peers DEF IInv, MainInv, Peer
    <3> QED BY <1>1, <1>2, <1>8, <1>12, <2>1, <3>1 DEF Made, State
  <2> QED BY <2>1, <2>2, NoBlockMade
<1> QED BY <1>12, <1>14, <1>15 DEF IInv

LEMMA ExitStep ==
    ASSUME IInv, NEW t \in Segments, exit(t)
    PROVE  IInv'
<1> DEFINE r == [threads[t] EXCEPT !.state = "exited"]
<1>1. /\ threads[t].state = "filling" /\ threads[t].ref = None
      /\ threads[t].index >= SegmentLength
      /\ threads' = [threads EXCEPT ![t] = r]
      /\ UNCHANGED <<mainVars, matrix, memory, arrayVars, joined>>
  BY DEF exit
<1>2. /\ threads[t] \in ThreadRecords /\ threads[t].segment = t
      /\ threads[t].index \in Nat /\ State(t) = "filling" /\ ThreadInv(t)
  BY <1>1, FillingThread
<1>3. /\ r \in ThreadRecords /\ r.state = "exited" /\ r.segment = t
      /\ r.index = threads[t].index /\ r.ref = None
  BY <1>1, <1>2 DEF ThreadRecords, ThreadStates
<1> HIDE DEF r
<1>4. threads'[t] = r
  BY <1>1 DEF IInv, ThreadsInv
<1>5. ThreadInv(t)'
  BY <1>1, <1>2, <1>3, <1>4 DEF ThreadInv
<1>6. /\ ThreadsInv'
      /\ \A u \in Segments : threads'[u] = IF u = t THEN r ELSE threads[u]
  BY <1>1, <1>3, <1>5, ThreadReplaced
<1>7. \A u \in Segments : State(u)' = IF u = t THEN "exited" ELSE State(u)
  BY <1>3, <1>6 DEF State
<1>8. MainInv' /\ ArraysInv' /\ OrderInv' /\ SliceInv' /\ JoinedInv'
  BY <1>1, <1>2, <1>7, ThreadMoves
<1>9. MemoryInv'
  <2>1. matrix # "none" /\ UNCHANGED <<memory, matrix, at>>
    BY <1>1, <1>2, ActiveThread DEF mainVars
  <2>2. ASSUME NEW l \in LaneIds, NEW j \in Indices
        PROVE  Made(l, j)' = Made(l, j)
    <3>1. Peer(l)' = Peer(l) /\ Peer(l) \in Segments
      BY <2>1, Peers DEF IInv, MainInv, Peer
    <3>2. j < threads[t].index
      BY <1>1, <1>2, Sizes DEF Indices
    <3> QED BY <1>1, <1>2, <1>3, <1>6, <2>1, <3>1, <3>2 DEF Made, State
  <2> QED BY <2>1, <2>2, NoBlockMade
<1> QED BY <1>6, <1>8, <1>9 DEF IInv

\* The block a thread is at, with the others of its lane and slice.
LEMMA CurrentBlock ==
    ASSUME IInv, NEW t \in Segments, threads[t].ref # None
    PROVE  /\ threads[t].state = "filling" /\ threads[t].segment = t
           /\ threads[t].index \in Indices /\ t.lane \in LaneIds
           /\ t.slice \in Slices /\ t.slice = at.slice /\ t.pass = at.pass
           /\ t = Peer(t.lane)
           /\ Current(t) = <<t.lane, at.slice * SegmentLength + threads[t].index>>
           /\ Current(t) \in Blocks
<1>1. ThreadInv(t)
  BY DEF IInv, ThreadsInv
<1>2. threads[t].state = "filling" /\ threads[t].index < SegmentLength
  BY <1>1 DEF ThreadInv
<1>3. threads[t].segment = t /\ threads[t].index \in Nat
  BY <1>2, FillingThread
<1>4. /\ t = Peer(t.lane) /\ t.lane \in LaneIds
      /\ t.slice = at.slice /\ t.pass = at.pass /\ t.slice \in Slices
  BY <1>2, ActiveThread, SliceOf DEF State, Slices
<1>5. threads[t].index \in Indices
  BY <1>2, <1>3, Sizes DEF Indices
<1>6. Current(t) = <<t.lane, at.slice * SegmentLength + threads[t].index>>
  BY <1>3, <1>4 DEF Current, Lane, curr_offset
<1>7. Current(t) \in Blocks
  BY <1>4, <1>5, <1>6, Offsets DEF Blocks
<1> QED BY <1>2, <1>3, <1>4, <1>5, <1>6, <1>7

LEMMA EndBlockStep ==
    ASSUME IInv, NEW t \in Segments, endBlock(t)
    PROVE  IInv'
<1> DEFINE i == threads[t].index
           c == <<t.lane, at.slice * SegmentLength + i>>
           r == [threads[t] EXCEPT !.ref = None, !.index = @ + 1]
<1>1. /\ threads[t].state = "filling" /\ threads[t].ref # None
      /\ threads' = [threads EXCEPT ![t] = r]
      /\ UNCHANGED <<mainVars, matrix, arrayVars, joined>>
  BY DEF endBlock
<1>2. /\ threads[t].segment = t /\ i \in Indices /\ t.lane \in LaneIds
      /\ t.slice \in Slices /\ t.slice = at.slice /\ t.pass = at.pass
      /\ t = Peer(t.lane) /\ Current(t) = c /\ c \in Blocks
  BY <1>1, CurrentBlock
<1>3. /\ threads[t] \in ThreadRecords /\ i \in Nat /\ i >= starting_index(t)
      /\ State(t) = "filling" /\ i < SegmentLength /\ i + 1 <= SegmentLength
      /\ starting_index(t) \in Nat
  BY <1>1, <1>2, FillingThread, Sizes, StartingIndex DEF Indices
<1>4. /\ r \in ThreadRecords /\ r.state = "filling" /\ r.segment = t
      /\ r.index = i + 1 /\ r.ref = None
  <2>1. threads[t] \in [state : ThreadStates, segment : Segments \cup {None},
                        index : Nat, ref : Blocks \cup {None}]
    BY <1>3 DEF ThreadRecords
  <2> DEFINE m == [threads[t] EXCEPT !.ref = None]
  <2>2. /\ m \in [state : ThreadStates, segment : Segments \cup {None},
                  index : Nat, ref : Blocks \cup {None}]
        /\ m.state = threads[t].state /\ m.segment = threads[t].segment
        /\ m.index = i /\ m.ref = None
    BY <2>1
  <2>3. r = [m EXCEPT !.index = m.index + 1]
    BY <2>1, <2>2
  <2> HIDE DEF m, r
  <2>4. /\ r \in [state : ThreadStates, segment : Segments \cup {None},
                  index : Nat, ref : Blocks \cup {None}]
        /\ r.state = m.state /\ r.segment = m.segment
        /\ r.index = m.index + 1 /\ r.ref = m.ref
    BY <1>3, <2>2, <2>3
  <2> QED BY <1>1, <1>2, <2>2, <2>4 DEF ThreadRecords
<1>5. memory' = [memory EXCEPT ![c] = IF t.pass = 0 THEN 1 ELSE memory[c] + 1]
  <2>1. memory' = [memory EXCEPT ![Current(t)] =
            IF threads[t].segment.pass = 0 THEN 1 ELSE memory[Current(t)] + 1]
    BY DEF endBlock
  <2>2. Current(t) = c
    BY <1>2
  <2>3. threads[t].segment = t
    BY <1>2
  <2> HIDE DEF c
  <2>4. memory' = [memory EXCEPT ![c] =
            IF threads[t].segment.pass = 0 THEN 1 ELSE memory[c] + 1]
    BY <2>1, <2>2, Zenon
  <2> QED BY <2>3, <2>4, Zenon
<1> HIDE DEF r
<1>6. threads'[t] = r
  BY <1>1 DEF IInv, ThreadsInv
<1>7. ThreadInv(t)'
  BY <1>3, <1>4, <1>6, Sizes DEF ThreadInv
<1>8. /\ ThreadsInv'
      /\ \A u \in Segments : threads'[u] = IF u = t THEN r ELSE threads[u]
  BY <1>1, <1>4, <1>7, ThreadReplaced
<1>9. \A u \in Segments : State(u)' = IF u = t THEN "filling" ELSE State(u)
  BY <1>4, <1>8 DEF State
<1>10. MainInv' /\ ArraysInv' /\ OrderInv' /\ SliceInv' /\ JoinedInv'
  BY <1>1, <1>3, <1>9, ThreadMoves
<1>11. /\ matrix # "none" /\ UNCHANGED <<matrix, at, pc, rc>>
       /\ at \in Segments /\ at.pass \in Nat
       /\ memory \in [Blocks -> Nat]
  BY <1>1, <1>3, ActiveThread, SliceOf DEF mainVars, IInv, MainInv, MemoryInv
<1>12. ASSUME NEW l \in LaneIds, NEW j \in Indices
       PROVE  Made(l, j)' <=> Made(l, j) \/ (l = t.lane /\ j = i)
  <2>1. Peer(l)' = Peer(l) /\ Peer(l) \in Segments /\ Peer(l).lane = l
    BY <1>11, Peers DEF Peer
  <2>2. j \in Int
    BY DEF Indices
  <2>3. CASE Peer(l) = t
    BY <1>2, <1>3, <1>4, <1>8, <1>11, <2>1, <2>2, <2>3 DEF Made, State
  <2>4. CASE Peer(l) # t
    BY <1>2, <1>8, <1>11, <2>1, <2>4 DEF Made, State
  <2> QED BY <2>3, <2>4
<1>13. ~ Made(t.lane, i)
  BY <1>2, <1>3, StartingIndex DEF Made, State
<1>14. memory[c] = at.pass
  <2>1. memory[c] = Written(t.lane, at.slice, i)
    BY <1>2, <1>11 DEF IInv, MemoryInv
  <2> QED BY <1>11, <1>13, <2>1, SliceOf DEF Written
<1>15. memory' = [memory EXCEPT ![c] = at.pass + 1]
  <2>1. (IF t.pass = 0 THEN 1 ELSE memory[c] + 1) = at.pass + 1
    BY <1>2, <1>11, <1>14
  <2> QED BY <1>5, <2>1, Zenon
<1>16. MemoryInv'
  <2>1. memory' \in [Blocks -> Nat]
    BY <1>2, <1>11, <1>15
  <2>2. ASSUME NEW l \in LaneIds, NEW d \in Slices, NEW j \in Indices
        PROVE  memory[<<l, d * SegmentLength + j>>]' = Written(l, d, j)'
    <3>1. <<l, d * SegmentLength + j>> \in Blocks
      BY Offsets DEF Blocks
    <3>2. memory[<<l, d * SegmentLength + j>>] = Written(l, d, j)
      BY <1>11 DEF IInv, MemoryInv
    <3>3. CASE l = t.lane /\ d = at.slice /\ j = i
      BY <1>2, <1>11, <1>12, <1>15, <3>1, <3>3 DEF Written
    <3>4. CASE ~ (l = t.lane /\ d = at.slice /\ j = i)
      <4>1. <<l, d * SegmentLength + j>> # c
        BY <1>2, <3>4, Offsets
      <4>2. memory'[<<l, d * SegmentLength + j>>] = Written(l, d, j)
        BY <1>15, <1>11, <3>1, <3>2, <4>1
      <4> QED BY <1>11, <1>12, <3>4, <4>2 DEF Written
    <3> QED BY <3>3, <3>4
  <2> QED BY <1>11, <2>1, <2>2 DEF MemoryInv
<1> QED BY <1>8, <1>10, <1>16 DEF IInv

\* No step of a thread breaks the invariant.
LEMMA FillSegmentThreadStep ==
    ASSUME IInv, NEW t \in Segments, fill_segment(t)
    PROVE  IInv'
BY StartStep, BeginBlockStep, EndBlockStep, ExitStep DEF fill_segment

-----------------------------------------------------------------------------
(* The steps of the main thread. *)

\* No thread moves, no block is made, the slice in hand stays.
LEMMA SliceStays ==
    ASSUME IInv, UNCHANGED <<memory, threads>>,
           at' \in Segments, at'.pass = at.pass, at'.slice = at.slice,
           \/ matrix # "none" /\ matrix' # "none"
           \/ UNCHANGED matrix /\ pc' = "returned" /\ rc' # "ok"
    PROVE  /\ ThreadsInv' /\ OrderInv' /\ MemoryInv'
           /\ \A l \in LaneIds : /\ Peer(l)' = Peer(l) /\ Peer(l) \in Segments
                                 /\ State(Peer(l))' = State(Peer(l))
<1>1. \A l \in LaneIds : /\ Peer(l)' = Peer(l) /\ Peer(l) \in Segments
                         /\ State(Peer(l))' = State(Peer(l))
  BY Peers DEF IInv, MainInv, Peer, State
<1>2. ThreadsInv'
  BY DEF IInv, ThreadsInv, ThreadInv
<1>3. OrderInv'
  BY DEF IInv, OrderInv, Before, State
<1>4. ASSUME NEW l \in LaneIds, NEW c, NEW i
      PROVE  Written(l, c, i)' = Written(l, c, i)
  BY <1>1 DEF Written, Made
<1>5. MemoryInv'
  BY <1>4 DEF IInv, MemoryInv, State
<1> QED BY <1>1, <1>2, <1>3, <1>5

LEMMA LaneCounters ==
    ASSUME IInv
    PROVE  /\ at \in Segments /\ at.lane \in LaneIds
           /\ at.lane \in Nat /\ at.lane < Lanes /\ joining \in Nat
           /\ Lanes \in Nat /\ Lanes >= 1
           /\ ThreadLimit \in Nat /\ ThreadLimit >= 1 /\ ThreadLimit <= Lanes
           /\ \A l \in LaneIds : l \in Nat /\ l < Lanes
<1>1. /\ Lanes \in Nat /\ Lanes >= 1
      /\ ThreadLimit \in Nat /\ ThreadLimit >= 1 /\ ThreadLimit <= Lanes
  BY Sizes
<1>2. \A l \in LaneIds : l \in Nat /\ l < Lanes
  BY <1>1 DEF LaneIds
<1>3. at \in Segments /\ joining \in Nat
  <2>1. at \in Segments /\ joining \in 0..Lanes
    BY DEF IInv, MainInv
  <2> QED BY <1>1, <2>1
<1>4. at.lane \in LaneIds
  BY <1>3, SliceOf
<1> QED BY <1>1, <1>2, <1>3, <1>4

LEMMA InitializeStep ==
    ASSUME IInv, initialize
    PROVE  IInv'
<1>1. /\ pc = "initialize" /\ pc' \in {"fill_st", "calloc"}
      /\ matrix' = "in use"
      /\ memory' = [b \in Blocks |-> IF b[2] \in {0, 1} THEN 1 ELSE 0]
      /\ UNCHANGED <<at, joining, rc, handle, thr_data, joined, threads>>
  BY DEF initialize, arrayVars
<1>2. /\ at \in Segments /\ at.lane = 0 /\ at.pass = 0 /\ at.slice = 0
      /\ \A l \in LaneIds : /\ Peer(l)' = Peer(l) /\ Peer(l) \in Segments
                            /\ State(Peer(l)) = "none" /\ ~ (l < 0)
                            /\ State(Peer(l))' = State(Peer(l))
  <2>1. at \in Segments /\ at = FirstSegment
    BY <1>1 DEF IInv, MainInv
  <2>2. at.lane = 0 /\ at.pass = 0 /\ at.slice = 0
    BY <2>1 DEF FirstSegment
  <2>3. ASSUME NEW l \in LaneIds
        PROVE  /\ Peer(l)' = Peer(l) /\ Peer(l) \in Segments
               /\ State(Peer(l)) = "none" /\ ~ (l < 0)
               /\ State(Peer(l))' = State(Peer(l))
    <3>1. Peer(l)' = Peer(l) /\ Peer(l) \in Segments
      BY <1>1, <2>1, Peers DEF Peer
    <3>2. State(Peer(l)) = "none"
      BY <1>1 DEF IInv, SliceInv, LaneInv
    <3>3. State(Peer(l))' = State(Peer(l))
      BY <1>1, <3>1 DEF State
    <3>4. l \in Nat
      BY LaneCounters
    <3> QED BY <3>1, <3>2, <3>3, <3>4
  <2> QED BY <2>1, <2>2, <2>3
<1>3. MainInv' /\ ArraysInv'
  BY <1>1, <1>2 DEF IInv, MainInv, ArraysInv, LastSlice, FirstSegment, Fill
<1>4. ThreadsInv' /\ OrderInv' /\ JoinedInv'
  BY <1>1 DEF IInv, ThreadsInv, ThreadInv, OrderInv, Before, State, JoinedInv
<1>5. SliceInv'
  BY <1>1, <1>2 DEF SliceInv, LaneInv, IInv, MainInv, Fill
<1>6. MemoryInv'
  <2>1. memory' \in [Blocks -> Nat]
    BY <1>1
  <2>2. ASSUME NEW l \in LaneIds, NEW c \in Slices, NEW i \in Indices
        PROVE  memory[<<l, c * SegmentLength + i>>]' = Written(l, c, i)'
    <3>1. /\ <<l, c * SegmentLength + i>> \in Blocks
          /\ i \in Nat /\ 0 \in Indices /\ 1 \in Indices
          /\ c \in Nat /\ 0 \in Slices
      BY Offsets, Sizes DEF Blocks, Indices, Slices
    <3>2. 0 * SegmentLength + 0 = 0 /\ 0 * SegmentLength + 1 = 1
      BY Sizes
    <3>3. c * SegmentLength + i \in {0, 1} <=> c = 0 /\ i < 2
      BY <3>1, <3>2, Offsets
    <3>4. Made(l, i)' <=> i < 2
      BY <1>1, <1>2 DEF Made
    <3>5. memory'[<<l, c * SegmentLength + i>>] =
             IF c = 0 /\ i < 2 THEN 1 ELSE 0
      BY <1>1, <3>1, <3>3
    <3>6. at'.slice = 0 /\ at'.pass = 0 /\ ~ (c < 0)
      <4>1. at' = at /\ at.slice = 0 /\ at.pass = 0
        BY <1>1, <1>2
      <4> QED BY <3>1, <4>1
    <3>7. Written(l, c, i)' = IF c = 0 /\ i < 2 THEN 1 ELSE 0
      BY <3>1, <3>4, <3>6 DEF Written
    <3> QED BY <3>5, <3>7
  <2> QED BY <1>1, <2>1, <2>2 DEF MemoryInv
<1> QED BY <1>3, <1>4, <1>5, <1>6 DEF IInv

\* argon2_ctx returns when no thread of the slice in hand runs.
LEMMA ReturnStep ==
    ASSUME IInv, pc' = "returned", rc' \in {"ok", "memory", "threads"},
           rc' = "ok" => LastSlice(at) /\ matrix # "none"
                            /\ \A l \in LaneIds : State(Peer(l)) = "exited",
           \A l \in LaneIds : State(Peer(l)) \in {"none", "exited"},
           matrix' \in {"none", "in use", "wiped"},
           matrix' # matrix => matrix # "none" /\ matrix' # "none",
           handle' = None, thr_data' = None, joining' \in 0..Lanes,
           UNCHANGED <<at, memory, joined, threads>>
    PROVE  IInv'
<1>1. at' \in Segments
  BY DEF IInv, MainInv
<1>2. /\ ThreadsInv' /\ OrderInv' /\ MemoryInv'
      /\ \A l \in LaneIds : /\ Peer(l)' = Peer(l)
                            /\ State(Peer(l))' = State(Peer(l))
  BY <1>1, SliceStays
<1>3. MainInv'
  BY <1>1 DEF MainInv, LastSlice, Fill
<1>4. ArraysInv' /\ JoinedInv'
  BY DEF IInv, ArraysInv, Fill, JoinedInv, State
<1>5. SliceInv'
  BY <1>2 DEF SliceInv, LaneInv, Fill
<1> QED BY <1>2, <1>3, <1>4, <1>5 DEF IInv

LEMMA EarlyReturnStep ==
    ASSUME IInv, initializeFails \/ allocateFails
    PROVE  IInv'
<1>1. /\ pc \in {"initialize", "calloc"} /\ pc' = "returned" /\ rc' = "memory"
      /\ UNCHANGED <<at, joining, matrix, memory, joined, threads>>
  BY DEF initializeFails, allocateFails, Return, fillFails
<1>2. handle' = None /\ thr_data' = None
  BY DEF initializeFails, allocateFails, fillFails, arrayVars, IInv, ArraysInv,
         Fill
<1>3. \A l \in LaneIds : State(Peer(l)) = "none"
  BY <1>1 DEF IInv, SliceInv, LaneInv
<1>4. joining' \in 0..Lanes /\ matrix' \in {"none", "in use", "wiped"}
  BY <1>1 DEF IInv, MainInv
<1> QED BY <1>1, <1>2, <1>3, <1>4, ReturnStep

LEMMA FinalizeStep ==
    ASSUME IInv, finalize
    PROVE  IInv'
<1>1. /\ pc = "finalize" /\ pc' = "returned" /\ rc' = "ok" /\ matrix' = "wiped"
      /\ UNCHANGED <<at, joining, memory, handle, thr_data, joined, threads>>
  BY DEF finalize, Return, arrayVars
<1>2. /\ handle = None /\ thr_data = None /\ LastSlice(at)
      /\ joining \in 0..Lanes
  BY <1>1 DEF IInv, ArraysInv, MainInv, Fill
<1>3. matrix # "none" /\ \A l \in LaneIds : State(Peer(l)) = "exited"
  BY <1>1 DEF IInv, MemoryInv, SliceInv, LaneInv
<1> QED BY <1>1, <1>2, <1>3, ReturnStep

LEMMA AllocateStep ==
    ASSUME IInv, allocate
    PROVE  IInv'
<1>1. /\ pc = "calloc" /\ pc' = beforeLane(0)
      /\ handle' = [l \in LaneIds |-> None]
      /\ thr_data' = [l \in LaneIds |-> None]
      /\ UNCHANGED <<at, joining, rc, matrix, memory, joined, threads>>
  BY DEF allocate
<1>2. pc' = "create"
  BY <1>1, Sizes DEF beforeLane
<1>3. /\ at \in Segments /\ at.lane = 0 /\ matrix # "none"
      /\ \A l \in LaneIds : State(Peer(l)) = "none"
  <2>1. at \in Segments /\ at = FirstSegment
    BY <1>1 DEF IInv, MainInv
  <2>2. at.lane = 0
    BY <2>1 DEF FirstSegment
  <2>3. matrix # "none"
    BY <1>1 DEF IInv, MemoryInv
  <2>4. \A l \in LaneIds : State(Peer(l)) = "none"
    BY <1>1 DEF IInv, SliceInv, LaneInv
  <2> QED BY <2>1, <2>2, <2>3, <2>4
<1>4. /\ ThreadsInv' /\ OrderInv' /\ MemoryInv'
      /\ \A l \in LaneIds : /\ Peer(l)' = Peer(l)
                            /\ State(Peer(l))' = State(Peer(l))
  BY <1>1, <1>3, SliceStays
<1>5. MainInv' /\ JoinedInv' /\ ArraysInv'
  BY <1>1, <1>2 DEF IInv, MainInv, JoinedInv, State, ArraysInv, Fill, LastSlice
<1>6. SliceInv'
  <2> SUFFICES ASSUME NEW l \in LaneIds PROVE LaneInv(l)'
    BY DEF SliceInv
  <2>1. l \in Nat /\ Peer(l) \notin joined /\ ~ (l < Freed')
    BY <1>1, <1>2, <1>3, LaneCounters DEF IInv, JoinedInv, Freed
  <2>2. /\ pc' = "create" /\ ~ (l < at'.lane) /\ State(Peer(l))' = "none"
        /\ rc' # "ok" /\ (Peer(l) \in joined)' = (Peer(l) \in joined)
    <3>1. at' = at /\ joined' = joined /\ rc' = rc
      BY <1>1
    <3>2. rc = "none" /\ Peer(l)' = Peer(l) /\ State(Peer(l))' = "none"
      BY <1>1, <1>3, <1>4 DEF IInv, MainInv
    <3> QED BY <1>2, <1>3, <2>1, <3>1, <3>2
  <2> QED BY <2>1, <2>2 DEF LaneInv
<1> QED BY <1>4, <1>5, <1>6 DEF IInv

\* What the main thread knows in the middle of a slice of lane l.
LEMMA FillFacts ==
    ASSUME IInv, pc \in Fill, NEW l \in LaneIds
    PROVE  /\ matrix # "none" /\ rc = "none" /\ LaneInv(l)
           /\ handle \in [LaneIds -> Segments \cup {None}]
           /\ thr_data \in [LaneIds -> Segments \cup {None}]
           /\ l < Freed => State(Peer(l)) = "exited"
           /\ (Peer(l) \in joined /\ (pc = "abandon" => ThreadLimit = Lanes))
                  => l < Freed
           /\ Peer(l) \in joined => State(Peer(l)) = "exited"
           /\ pc = "join" \/ l < at.lane => handle[l] = Peer(l)
<1>1. LaneInv(l)
  BY DEF IInv, SliceInv
<1>2. matrix # "none" /\ rc = "none"
  BY DEF IInv, MainInv, MemoryInv, Fill
<1>3. /\ handle \in [LaneIds -> Segments \cup {None}]
      /\ thr_data \in [LaneIds -> Segments \cup {None}]
  BY DEF IInv, ArraysInv
<1>4. Peer(l) \in joined => State(Peer(l)) = "exited"
  BY DEF IInv, JoinedInv
<1> QED BY <1>1, <1>2, <1>3, <1>4 DEF LaneInv, Fill

\* A join of lane l of the slice in hand.
LEMMA JoinOfPeer ==
    ASSUME IInv, pc \in Fill, NEW l \in LaneIds, join(l),
           pc = "join" \/ l < at.lane
    PROVE  /\ joined' = joined \cup {Peer(l)}
           /\ State(Peer(l)) = "exited" /\ Peer(l) \in Segments
<1>1. handle[l] = Peer(l)
  BY FillFacts
<1>2. Peer(l) \in joined => State(Peer(l)) = "exited"
  BY FillFacts
<1>3. Peer(l) \in Segments
  BY Peers DEF IInv, MainInv
<1> QED BY <1>1, <1>2, <1>3 DEF join, State

LEMMA MakeRoomStep ==
    ASSUME IInv, makeRoom
    PROVE  IInv'
<1> DEFINE m == at.lane - ThreadLimit
<1>1. /\ pc = "room" /\ pc' = "create" /\ pc \in Fill /\ join(m)
      /\ UNCHANGED <<at, joining, rc, matrix, memory, handle, thr_data, threads>>
  BY DEF makeRoom, arrayVars, Fill
<1>2. at.lane >= ThreadLimit
  BY <1>1 DEF IInv, MainInv
<1>3. m \in LaneIds /\ m \in Nat /\ m < at.lane
  BY <1>2, LaneCounters DEF LaneIds
<1>4. /\ joined' = joined \cup {Peer(m)}
      /\ State(Peer(m)) = "exited" /\ Peer(m) \in Segments
  BY <1>1, <1>3, JoinOfPeer
<1>5. matrix # "none" /\ at \in Segments
  BY <1>1, <1>3, FillFacts, LaneCounters
<1>6. /\ ThreadsInv' /\ OrderInv' /\ MemoryInv'
      /\ \A l \in LaneIds : /\ Peer(l)' = Peer(l)
                            /\ State(Peer(l))' = State(Peer(l))
  BY <1>1, <1>5, SliceStays
<1>7. MainInv' /\ ArraysInv'
  BY <1>1 DEF IInv, MainInv, ArraysInv, Fill, LastSlice
<1>8. JoinedInv'
  BY <1>1, <1>4 DEF IInv, JoinedInv, State
<1>9. SliceInv'
  <2> SUFFICES ASSUME NEW l \in LaneIds PROVE LaneInv(l)'
    BY DEF SliceInv
  <2>1. /\ l \in Nat /\ Peer(l).lane = l /\ Peer(m).lane = m
        /\ LaneInv(l) /\ rc # "ok"
    BY <1>1, <1>3, FillFacts, LaneCounters, Peers
  <2>2. Freed = m /\ Freed' = m + 1
    BY <1>1, <1>3, LaneCounters DEF Freed
  <2>3. l < Freed' <=> l < Freed \/ l = m
    BY <1>3, <2>1, <2>2
  <2>4. Peer(l) \in joined' <=> Peer(l) \in joined \/ l = m
    BY <1>4, <2>1
  <2>5. l < Freed' => State(Peer(l)) = "exited"
    BY <1>1, <1>4, <2>1, <2>3, FillFacts
  <2>6. Peer(l) \in joined' => l < Freed'
    BY <1>1, <2>3, <2>4, FillFacts
  <2> QED BY <1>1, <1>6, <2>1, <2>5, <2>6 DEF LaneInv
<1> QED BY <1>6, <1>7, <1>8, <1>9 DEF IInv

\* The thread of the lane in hand is created, or cannot be.
LEMMA CreateFacts ==
    ASSUME IInv, pc = "create"
    PROVE  /\ pc \in Fill /\ matrix # "none" /\ rc = "none"
           /\ at \in Segments /\ at.lane \in LaneIds /\ at = Peer(at.lane)
           /\ State(at) = "none" /\ at \notin joined
           /\ Freed = at.lane + 1 - ThreadLimit /\ Freed <= at.lane
<1>1. pc \in Fill /\ at \in Segments /\ at.lane \in LaneIds
  BY LaneCounters DEF Fill
<1>2. at = Peer(at.lane)
  BY <1>1, Peers
<1>3. Freed = at.lane + 1 - ThreadLimit /\ Freed <= at.lane
      /\ ~ (at.lane < at.lane)
  BY LaneCounters DEF Freed
<1>4. matrix # "none" /\ rc = "none" /\ LaneInv(at.lane)
  BY <1>1, FillFacts
<1>5. State(at) = "none"
  BY <1>2, <1>3, <1>4 DEF LaneInv
<1>6. at \notin joined
  BY <1>5 DEF IInv, JoinedInv
<1> QED BY <1>1, <1>2, <1>3, <1>4, <1>5, <1>6

LEMMA CreateFailsStep ==
    ASSUME IInv, createFails
    PROVE  IInv'
<1>1. /\ pc = "create" /\ pc' = "abandon" /\ joining' = 0
      /\ thr_data' = [thr_data EXCEPT ![at.lane] = at]
      /\ UNCHANGED <<at, rc, matrix, memory, handle, joined, threads>>
  BY DEF createFails
<1>2. /\ pc \in Fill /\ matrix # "none" /\ rc = "none"
      /\ at \in Segments /\ at.lane \in LaneIds
      /\ Freed = at.lane + 1 - ThreadLimit
  BY <1>1, CreateFacts
<1>3. /\ ThreadsInv' /\ OrderInv' /\ MemoryInv'
      /\ \A l \in LaneIds : /\ Peer(l)' = Peer(l)
                            /\ State(Peer(l))' = State(Peer(l))
  BY <1>1, <1>2, SliceStays
<1>4. MainInv' /\ JoinedInv'
  <2>1. 0 \in 0..Lanes /\ 0 <= at.lane
    BY LaneCounters
  <2> QED BY <1>1, <1>2, <2>1 DEF IInv, MainInv, JoinedInv, State, LastSlice, Fill
<1>5. /\ handle \in [LaneIds -> Segments \cup {None}]
      /\ thr_data \in [LaneIds -> Segments \cup {None}]
  BY <1>2, FillFacts
<1>6. ArraysInv'
  BY <1>1, <1>2, <1>5 DEF ArraysInv, Fill
<1>7. SliceInv'
  <2> SUFFICES ASSUME NEW l \in LaneIds PROVE LaneInv(l)'
    BY DEF SliceInv
  <2>1. LaneInv(l) /\ l \in Nat
    BY <1>2, FillFacts, LaneCounters
  <2>2. l < at.lane => thr_data'[l] = thr_data[l]
    BY <1>1, <1>2, <1>5, LaneCounters
  <2>3. Freed' = 0 /\ ~ (l < Freed')
    BY <1>1, <2>1 DEF Freed
  <2>4. ThreadLimit = Lanes => Peer(l) \notin joined
    BY <1>1, <1>2, <2>1, FillFacts, LaneCounters
  <2> QED BY <1>1, <1>2, <1>3, <2>1, <2>2, <2>3, <2>4 DEF LaneInv
<1> QED BY <1>3, <1>4, <1>6, <1>7 DEF IInv

LEMMA AbandonStep ==
    ASSUME IInv, abandon
    PROVE  IInv'
<1>1. pc = "abandon" /\ UNCHANGED <<at, memory, threads>> /\ pc \in Fill
  BY DEF abandon, Fill
<1>2. joining <= at.lane /\ joining \in 0..Lanes
  BY <1>1 DEF IInv, MainInv
<1>3. CASE joining < at.lane
  <2>1. /\ join(joining) /\ joining' = joining + 1
        /\ UNCHANGED <<pc, rc, matrix, handle, thr_data>>
    BY <1>3 DEF abandon, arrayVars
  <2>2. /\ joining \in LaneIds /\ joining \in Nat
        /\ joining + 1 \in 0..Lanes /\ joining + 1 <= at.lane
    BY <1>3, LaneCounters DEF LaneIds
  <2>3. /\ joined' = joined \cup {Peer(joining)}
        /\ State(Peer(joining)) = "exited" /\ Peer(joining) \in Segments
    BY <1>1, <1>3, <2>1, <2>2, JoinOfPeer
  <2>4. matrix # "none" /\ rc = "none" /\ at \in Segments
    BY <1>1, <2>2, FillFacts, LaneCounters
  <2>5. /\ ThreadsInv' /\ OrderInv' /\ MemoryInv'
        /\ \A l \in LaneIds : /\ Peer(l)' = Peer(l)
                              /\ State(Peer(l))' = State(Peer(l))
    BY <1>1, <2>1, <2>4, SliceStays
  <2>6. MainInv' /\ ArraysInv'
    BY <1>1, <2>1, <2>2, <2>4 DEF IInv, MainInv, ArraysInv, Fill, LastSlice
  <2>7. JoinedInv'
    BY <1>1, <2>3 DEF IInv, JoinedInv, State
  <2>8. SliceInv'
    <3> SUFFICES ASSUME NEW l \in LaneIds PROVE LaneInv(l)'
      BY DEF SliceInv
    <3>1. /\ l \in Nat /\ Peer(l).lane = l /\ Peer(joining).lane = joining
          /\ LaneInv(l)
      BY <1>1, <2>2, <2>4, FillFacts, LaneCounters, Peers
    <3>2. Freed = joining /\ Freed' = joining + 1
      BY <1>1, <2>1 DEF Freed
    <3>3. l < Freed' <=> l < Freed \/ l = joining
      BY <2>2, <3>1, <3>2
    <3>4. Peer(l) \in joined' <=> Peer(l) \in joined \/ l = joining
      BY <2>3, <3>1
    <3>5. l < Freed' => State(Peer(l)) = "exited"
      BY <1>1, <2>3, <3>3, FillFacts
    <3>6. Peer(l) \in joined' /\ ThreadLimit = Lanes => l < Freed'
      BY <1>1, <3>3, <3>4, FillFacts
    <3> QED BY <1>1, <2>1, <2>4, <2>5, <3>1, <3>5, <3>6 DEF LaneInv
  <2> QED BY <2>5, <2>6, <2>7, <2>8 DEF IInv
<1>4. CASE ~ (joining < at.lane)
  <2>1. /\ pc' = "returned" /\ rc' = "threads" /\ handle' = None
        /\ thr_data' = None /\ UNCHANGED <<matrix, joining, joined>>
    BY <1>4 DEF abandon, fillFails, Return
  <2>2. ASSUME NEW l \in LaneIds
        PROVE  State(Peer(l)) \in {"none", "exited"}
    <3>1. l \in Nat /\ joining = at.lane /\ LaneInv(l)
      BY <1>1, <1>2, <1>4, FillFacts, LaneCounters
    <3>2. Freed = at.lane
      BY <1>1, <3>1 DEF Freed
    <3>3. l < at.lane => State(Peer(l)) = "exited"
      BY <1>1, <3>2, FillFacts
    <3> QED BY <1>1, <3>1, <3>3 DEF LaneInv
  <2>3. matrix' \in {"none", "in use", "wiped"} /\ joining' \in 0..Lanes
    BY <1>2, <2>1 DEF IInv, MainInv
  <2> QED BY <1>1, <2>1, <2>2, <2>3, ReturnStep
<1> QED BY <1>3, <1>4

\* The segment after the one in hand, in the same slice.
LEMMA NextLane ==
    ASSUME at \in Segments, at.lane < Lanes - 1,
           at' = [at EXCEPT !.lane = at.lane + 1]
    PROVE  /\ at' \in Segments /\ at'.lane = at.lane + 1
           /\ at'.pass = at.pass /\ at'.slice = at.slice
<1>1. at \in [pass : 0..(Passes - 1), slice : 0..(SyncPoints - 1),
              lane : LaneIds]
  BY DEF Segments
<1>2. at.lane + 1 \in LaneIds
  BY <1>1, Sizes DEF LaneIds
<1>3. /\ at'.lane = at.lane + 1 /\ at'.pass = at.pass /\ at'.slice = at.slice
      /\ at' \in [pass : 0..(Passes - 1), slice : 0..(SyncPoints - 1),
                  lane : LaneIds]
  BY <1>1, <1>2
<1> QED BY <1>3 DEF Segments

LEMMA CreateStep ==
    ASSUME IInv, create
    PROVE  IInv'
<1> DEFINE r == [threads[at] EXCEPT !.state = "created"]
<1>1. /\ pc = "create"
      /\ thr_data' = [thr_data EXCEPT ![at.lane] = at]
      /\ handle' = [handle EXCEPT ![at.lane] = at]
      /\ threads' = [threads EXCEPT ![at] = r]
      /\ UNCHANGED <<rc, matrix, memory, joined>>
  BY DEF create
<1>2. \/ /\ at.lane < Lanes - 1 /\ at' = [at EXCEPT !.lane = at.lane + 1]
         /\ pc' = beforeLane(at.lane + 1) /\ UNCHANGED joining
      \/ /\ ~ (at.lane < Lanes - 1) /\ UNCHANGED at
         /\ pc' = "join" /\ joining' = Lanes - ThreadLimit
  BY DEF create
<1>3. /\ pc \in Fill /\ matrix # "none" /\ rc = "none"
      /\ at \in Segments /\ at.lane \in LaneIds /\ at = Peer(at.lane)
      /\ State(at) = "none" /\ at \notin joined
      /\ Freed = at.lane + 1 - ThreadLimit /\ Freed <= at.lane
  BY <1>1, CreateFacts
<1>4. /\ at' \in Segments /\ at'.pass = at.pass /\ at'.slice = at.slice
      /\ at'.lane = IF at.lane < Lanes - 1 THEN at.lane + 1 ELSE at.lane
  BY <1>2, <1>3, NextLane
<1>5. threads[at] \in ThreadRecords /\ ThreadInv(at)
  BY <1>3 DEF IInv, ThreadsInv
<1>6. /\ r \in ThreadRecords /\ r.state = "created" /\ r.ref = threads[at].ref
  BY <1>5 DEF ThreadRecords, ThreadStates
<1> HIDE DEF r
<1>7. threads'[at] = r
  BY <1>1, <1>3 DEF IInv, ThreadsInv
<1>8. \A u \in Segments : threads'[u] = IF u = at THEN r ELSE threads[u]
  BY <1>1, <1>3 DEF IInv, ThreadsInv
<1>9. ThreadsInv'
  <2>1. threads' \in [Segments -> ThreadRecords]
    BY <1>1, <1>6 DEF IInv, ThreadsInv
  <2>2. ASSUME NEW u \in Segments PROVE ThreadInv(u)'
    <3>1. CASE u = at
      BY <1>3, <1>5, <1>6, <1>7, <3>1 DEF ThreadInv, State
    <3>2. CASE u # at
      <4>1. ThreadInv(u) /\ threads'[u] = threads[u]
        BY <1>8, <3>2 DEF IInv, ThreadsInv
      <4> QED BY <4>1 DEF ThreadInv
    <3> QED BY <3>1, <3>2
  <2> QED BY <2>1, <2>2 DEF ThreadsInv
<1>10. \A u \in Segments : /\ threads'[u].state =
                                IF u = at THEN "created" ELSE State(u)
                           /\ Before(u, at') = Before(u, at)
                           /\ Before(at', u) = Before(at, u)
  BY <1>4, <1>6, <1>8 DEF State, Before
<1>11. ~ Before(at, at)
  BY <1>3, SliceOf
<1>12. OrderInv'
  BY <1>10, <1>11 DEF IInv, OrderInv, State
<1>13. JoinedInv'
  BY <1>1, <1>3, <1>10 DEF IInv, JoinedInv, State
<1>14. \A l \in LaneIds : Peer(l)' = Peer(l) /\ Peer(l) \in Segments
  BY <1>3, <1>4, Peers DEF Peer
<1>15. /\ at.lane \in Nat /\ Lanes \in Nat /\ at.lane < Lanes
       /\ ThreadLimit \in Nat /\ ThreadLimit >= 1 /\ ThreadLimit <= Lanes
       /\ joining \in 0..Lanes
  BY LaneCounters DEF IInv, MainInv
<1>16. \/ /\ pc' = "room" /\ at'.lane = at.lane + 1 /\ joining' = joining
          /\ at'.lane >= ThreadLimit /\ Freed' = Freed
       \/ /\ pc' = "create" /\ at'.lane = at.lane + 1 /\ joining' = joining
          /\ Freed' = Freed + 1 /\ Freed' <= 0
       \/ /\ pc' = "join" /\ at'.lane = at.lane /\ at.lane = Lanes - 1
          /\ joining' \in 0..Lanes /\ joining' < Lanes /\ Freed' = Freed
  BY <1>2, <1>3, <1>4, <1>15 DEF beforeLane, Freed
<1>17. MainInv'
  BY <1>1, <1>3, <1>4, <1>15, <1>16 DEF IInv, MainInv, Fill
<1>18. /\ handle \in [LaneIds -> Segments \cup {None}]
       /\ thr_data \in [LaneIds -> Segments \cup {None}]
  BY <1>3, FillFacts
<1>19. ArraysInv'
  BY <1>1, <1>3, <1>16, <1>18 DEF ArraysInv, Fill
<1>20. SliceInv'
  <2> SUFFICES ASSUME NEW l \in LaneIds PROVE LaneInv(l)'
    BY DEF SliceInv
  <2>1. LaneInv(l) /\ l \in Nat /\ Peer(l).lane = l /\ Peer(l)' = Peer(l)
    BY <1>3, <1>14, FillFacts, LaneCounters, Peers
  <2>2. Peer(l) = at <=> l = at.lane
    BY <1>3, <2>1
  <2>3. /\ handle'[l] = IF l = at.lane THEN at ELSE handle[l]
        /\ thr_data'[l] = IF l = at.lane THEN at ELSE thr_data[l]
    BY <1>1, <1>3, <1>18
  <2>4. State(Peer(l))' = IF l = at.lane THEN "created" ELSE State(Peer(l))
    BY <1>10, <1>14, <2>2 DEF State
  <2>5. /\ l < at.lane => State(Peer(l)) # "none" /\ handle[l] = Peer(l)
                             /\ thr_data[l] = Peer(l)
        /\ ~ (l < at.lane) => State(Peer(l)) = "none"
    BY <1>1, <2>1 DEF LaneInv
  <2>6. IF pc' = "join" \/ l < at'.lane
        THEN /\ State(Peer(l))' # "none" /\ handle'[l] = Peer(l)
             /\ thr_data'[l] = Peer(l)
        ELSE State(Peer(l))' = "none"
    <3>1. pc' = "join" \/ l < at'.lane <=> l <= at.lane
      BY <1>15, <1>16, <2>1, LaneCounters
    <3> QED BY <1>15, <2>1, <2>2, <2>3, <2>4, <2>5, <3>1
  <2>7. l < Freed' => State(Peer(l))' = "exited"
    <3>1. l < Freed' => l < Freed
      BY <1>3, <1>15, <1>16, <2>1
    <3>2. l < Freed => l # at.lane /\ State(Peer(l)) = "exited"
      BY <1>3, <1>15, <2>1, FillFacts
    <3> QED BY <2>4, <3>1, <3>2
  <2>8. Peer(l) \in joined' => l < Freed'
    BY <1>1, <1>3, <1>15, <1>16, <2>1, FillFacts
  <2> QED BY <1>1, <1>3, <1>16, <2>1, <2>6, <2>7, <2>8 DEF LaneInv
<1>21. MemoryInv'
  <2>1. ASSUME NEW l \in LaneIds, NEW i \in Indices
        PROVE  Made(l, i)' = Made(l, i)
    <3>1. CASE Peer(l) = at
      BY <1>3, <1>4, <1>10, <1>14, <3>1 DEF Made, State
    <3>2. CASE Peer(l) # at
      BY <1>4, <1>8, <1>14, <3>2 DEF Made, State
    <3> QED BY <3>1, <3>2
  <2>2. ASSUME NEW l \in LaneIds, NEW c \in Slices, NEW i \in Indices
        PROVE  Written(l, c, i)' = Written(l, c, i)
    BY <1>4, <2>1 DEF Written
  <2> QED BY <1>1, <1>3, <2>2 DEF IInv, MemoryInv
<1> QED BY <1>9, <1>12, <1>13, <1>17, <1>19, <1>20, <1>21 DEF IInv

\* Every thread of the slice in hand has exited, and the next slice begins.
LEMMA SliceDone ==
    ASSUME IInv, ~ LastSlice(at), at' = NextSlice(at),
           \A l \in LaneIds : State(Peer(l)) = "exited",
           UNCHANGED <<memory, threads>>, matrix' = matrix
    PROVE  /\ at' \in Segments /\ at'.lane = 0
           /\ ThreadsInv' /\ OrderInv' /\ MemoryInv'
           /\ \A l \in LaneIds : State(Peer(l))' = "none"
<1>1. at \in Segments /\ 0 \in LaneIds
  BY Sizes DEF IInv, MainInv
<1>2. at' \in Segments /\ at'.lane = 0
  BY <1>1, NextSliceFacts
<1>3. ThreadsInv'
  BY DEF IInv, ThreadsInv, ThreadInv
<1>4. ASSUME NEW t \in Segments
      PROVE  /\ Before(t, at') => State(t) = "exited"
             /\ Before(at', t) => State(t) = "none"
             /\ t.pass = at'.pass /\ t.slice = at'.slice => State(t) = "none"
  <2>1. /\ Before(t, at') => Before(t, at) \/ (t.pass = at.pass
                                                 /\ t.slice = at.slice)
        /\ Before(at', t) => Before(at, t)
        /\ t.pass = at'.pass /\ t.slice = at'.slice => Before(at, t)
    BY <1>1, NextSliceFacts
  <2>2. t.pass = at.pass /\ t.slice = at.slice
            => t = Peer(t.lane) /\ t.lane \in LaneIds
    BY SliceOf DEF Peer
  <2> QED BY <2>1, <2>2 DEF IInv, OrderInv
<1>5. OrderInv'
  BY <1>4 DEF OrderInv, State, Before
<1>6. ASSUME NEW l \in LaneIds
      PROVE  State(Peer(l))' = "none"
  <2>1. /\ Peer(l)' \in Segments
        /\ Peer(l)'.pass = at'.pass /\ Peer(l)'.slice = at'.slice
    BY <1>2, SliceOf DEF Peer, Segments
  <2>2. threads[Peer(l)'].state = "none"
    BY <1>4, <2>1 DEF State
  <2> QED BY <2>2 DEF State
<1>7. /\ at.pass \in Nat /\ at.slice \in 0..3
      /\ IF at.slice < 3 THEN at'.pass = at.pass /\ at'.slice = at.slice + 1
                         ELSE at'.pass = at.pass + 1 /\ at'.slice = 0
  BY <1>1, SliceOf, NextSliceFacts
<1>8. matrix # "none"
  <2>1. Peer(0) \in Segments /\ State(Peer(0)) = "exited"
    BY <1>1, Peers
  <2> QED BY <2>1 DEF IInv, MemoryInv
<1>9. ASSUME NEW l \in LaneIds, NEW c \in Slices, NEW i \in Indices
      PROVE  Written(l, c, i)' = Written(l, c, i)
  <2>1. Made(l, i)
    BY DEF Made
  <2>2. ~ Made(l, i)'
    <3>1. ~ (at'.pass = 0 /\ at'.slice = 0)
      BY <1>7
    <3> QED BY <1>6, <3>1 DEF Made
  <2>3. Written(l, c, i) = IF c <= at.slice THEN at.pass + 1 ELSE at.pass
    BY <1>7, <2>1 DEF Written, Slices
  <2>4. Written(l, c, i)' = IF c < at'.slice THEN at'.pass + 1 ELSE at'.pass
    BY <2>2 DEF Written
  <2> QED BY <1>7, <2>3, <2>4 DEF Slices
<1>10. MemoryInv'
  BY <1>8, <1>9 DEF IInv, MemoryInv
<1> QED BY <1>2, <1>3, <1>5, <1>6, <1>10

LEMMA JoinRemainingStep ==
    ASSUME IInv, joinRemaining
    PROVE  IInv'
<1>1. /\ pc = "join" /\ pc \in Fill /\ join(joining)
      /\ joining' = joining + 1
      /\ UNCHANGED <<rc, matrix, memory, threads>>
  BY DEF joinRemaining, Fill
<1>2. at.lane = Lanes - 1 /\ joining < Lanes
  BY <1>1 DEF IInv, MainInv
<1>3. /\ joining \in LaneIds /\ joining \in Nat /\ joining + 1 \in 0..Lanes
      /\ Lanes \in Nat /\ at \in Segments
  BY <1>2, LaneCounters DEF LaneIds
<1>4. /\ joined' = joined \cup {Peer(joining)}
      /\ State(Peer(joining)) = "exited" /\ Peer(joining) \in Segments
  BY <1>1, <1>3, JoinOfPeer
<1>5. matrix # "none" /\ rc = "none"
  BY <1>1, <1>3, FillFacts
<1>6. JoinedInv'
  BY <1>1, <1>4 DEF IInv, JoinedInv, State
<1>7. ASSUME NEW l \in LaneIds
      PROVE  /\ l \in Nat /\ l < Lanes /\ LaneInv(l)
             /\ l < joining + 1 => State(Peer(l)) = "exited"
             /\ Peer(l) \in joined' => l < joining + 1
  <2>1. /\ l \in Nat /\ l < Lanes /\ LaneInv(l)
        /\ Peer(l).lane = l /\ Peer(joining).lane = joining
    BY <1>1, <1>3, FillFacts, LaneCounters, Peers
  <2>2. Freed = joining
    BY <1>1 DEF Freed
  <2>3. l < joining + 1 <=> l < joining \/ l = joining
    BY <1>3, <2>1
  <2> QED BY <1>1, <1>4, <2>1, <2>2, <2>3, FillFacts
<1>8. CASE joining < Lanes - 1
  <2>1. pc' = pc /\ UNCHANGED <<at, handle, thr_data>>
    BY <1>8 DEF joinRemaining, arrayVars
  <2>2. /\ ThreadsInv' /\ OrderInv' /\ MemoryInv'
        /\ \A l \in LaneIds : /\ Peer(l)' = Peer(l)
                              /\ State(Peer(l))' = State(Peer(l))
    BY <1>1, <1>3, <1>5, <2>1, SliceStays
  <2>3. MainInv' /\ ArraysInv'
    <3>1. /\ pc' = "join" /\ joining' \in 0..Lanes /\ joining' < Lanes
          /\ at'.lane = Lanes - 1 /\ at' \in Segments /\ rc' = "none"
      BY <1>1, <1>2, <1>3, <1>5, <1>8, <2>1
    <3>2. MainInv'
      BY <1>1, <3>1 DEF IInv, MainInv, Fill
    <3>3. ArraysInv'
      BY <1>1, <2>1 DEF IInv, ArraysInv
    <3> QED BY <3>2, <3>3
  <2>4. SliceInv'
    <3> SUFFICES ASSUME NEW l \in LaneIds PROVE LaneInv(l)'
      BY DEF SliceInv
    <3>1. Freed' = joining + 1
      BY <1>1, <2>1 DEF Freed
    <3> QED BY <1>1, <1>5, <1>7, <2>1, <2>2, <3>1 DEF LaneInv
  <2> QED BY <1>6, <2>2, <2>3, <2>4 DEF IInv
<1>9. CASE ~ (joining < Lanes - 1)
  <2>1. \A l \in LaneIds : State(Peer(l)) = "exited"
    BY <1>3, <1>7, <1>9
  <2>2. CASE LastSlice(at)
    <3>1. /\ pc' = "finalize" /\ handle' = None /\ thr_data' = None
          /\ at' = at
      BY <1>9, <2>2 DEF joinRemaining
    <3>2. /\ ThreadsInv' /\ OrderInv' /\ MemoryInv'
          /\ \A l \in LaneIds : /\ Peer(l)' = Peer(l)
                                /\ State(Peer(l))' = State(Peer(l))
      BY <1>1, <1>3, <1>5, <3>1, SliceStays
    <3>3. MainInv' /\ ArraysInv'
      BY <1>1, <1>3, <1>5, <2>2, <3>1
         DEF IInv, MainInv, ArraysInv, Fill, LastSlice
    <3>4. SliceInv'
      BY <1>1, <1>5, <2>1, <3>1, <3>2 DEF SliceInv, LaneInv, Fill
    <3> QED BY <1>6, <3>2, <3>3, <3>4 DEF IInv
  <2>3. CASE ~ LastSlice(at)
    <3>1. /\ at' = NextSlice(at) /\ pc' = beforeLane(0)
          /\ UNCHANGED <<handle, thr_data>>
      BY <1>9, <2>3 DEF joinRemaining, arrayVars
    <3>2. pc' = "create"
      BY <3>1, Sizes DEF beforeLane
    <3>3. /\ at' \in Segments /\ at'.lane = 0
          /\ ThreadsInv' /\ OrderInv' /\ MemoryInv'
          /\ \A l \in LaneIds : State(Peer(l))' = "none"
      BY <1>1, <2>1, <2>3, <3>1, SliceDone
    <3>4. MainInv' /\ ArraysInv'
      BY <1>1, <1>3, <1>5, <3>1, <3>2, <3>3 DEF IInv, MainInv, ArraysInv, Fill
    <3>5. SliceInv'
      <4> SUFFICES ASSUME NEW l \in LaneIds PROVE LaneInv(l)'
        BY DEF SliceInv
      <4>1. ~ (l < at'.lane) /\ ~ (l < Freed')
        BY <1>7, <3>2, <3>3, LaneCounters DEF Freed
      <4>2. (Peer(l) \notin joined)'
        BY <1>6, <3>3 DEF JoinedInv
      <4> QED BY <1>1, <1>5, <3>2, <3>3, <4>1, <4>2 DEF LaneInv
    <3> QED BY <1>6, <3>3, <3>4, <3>5 DEF IInv
  <2> QED BY <2>2, <2>3
<1> QED BY <1>8, <1>9

LEMMA SegmentFilledStep ==
    ASSUME IInv, segmentFilled
    PROVE  IInv'
<1>1. /\ pc = "fill_st" /\ State(at) = "exited"
      /\ UNCHANGED <<joining, rc, matrix, memory, handle, thr_data, joined,
                     threads>>
  BY DEF segmentFilled, arrayVars, State
<1>2. /\ at \in Segments /\ at.lane \in LaneIds /\ at = Peer(at.lane)
      /\ at.lane \in Nat /\ at.lane < Lanes /\ Lanes \in Nat
      /\ rc = "none" /\ matrix # "none"
  BY <1>1, LaneCounters, Peers DEF IInv, MainInv, MemoryInv
<1>3. ASSUME NEW l \in LaneIds
      PROVE  /\ l \in Nat /\ l < Lanes /\ State(Peer(l)) # "created"
             /\ l <= at.lane => State(Peer(l)) = "exited"
             /\ l > at.lane => State(Peer(l)) = "none"
  <2>1. LaneInv(l) /\ l \in Nat /\ l < Lanes
    BY LaneCounters DEF IInv, SliceInv
  <2>2. l <= at.lane => l < at.lane \/ l = at.lane
    BY <1>2, <2>1
  <2> QED BY <1>1, <1>2, <2>1, <2>2 DEF LaneInv
<1>4. JoinedInv'
  BY <1>1 DEF IInv, JoinedInv, State
<1>5. CASE at.lane < Lanes - 1
  <2>1. pc' = pc /\ at' = [at EXCEPT !.lane = at.lane + 1]
    BY <1>5 DEF segmentFilled
  <2>2. /\ at' \in Segments /\ at'.lane = at.lane + 1
        /\ at'.pass = at.pass /\ at'.slice = at.slice
    BY <1>2, <1>5, <2>1, NextLane
  <2>3. /\ ThreadsInv' /\ OrderInv' /\ MemoryInv'
        /\ \A l \in LaneIds : /\ Peer(l)' = Peer(l)
                              /\ State(Peer(l))' = State(Peer(l))
    BY <1>1, <1>2, <2>2, SliceStays
  <2>4. MainInv' /\ ArraysInv'
    BY <1>1, <1>2, <2>1, <2>2 DEF IInv, MainInv, ArraysInv, Fill
  <2>5. SliceInv'
    <3> SUFFICES ASSUME NEW l \in LaneIds PROVE LaneInv(l)'
      BY DEF SliceInv
    <3>1. /\ l < at'.lane => State(Peer(l))' = "exited"
          /\ l > at'.lane => State(Peer(l))' = "none"
          /\ State(Peer(l))' # "created"
      BY <1>2, <1>3, <2>2, <2>3
    <3> QED BY <1>1, <1>2, <2>1, <3>1 DEF LaneInv, Fill
  <2> QED BY <1>4, <2>3, <2>4, <2>5 DEF IInv
<1>6. CASE ~ (at.lane < Lanes - 1)
  <2>1. \A l \in LaneIds : State(Peer(l)) = "exited"
    BY <1>2, <1>3, <1>6
  <2>2. CASE LastSlice(at)
    <3>1. pc' = "finalize" /\ at' = at
      BY <1>6, <2>2 DEF segmentFilled
    <3>2. /\ ThreadsInv' /\ OrderInv' /\ MemoryInv'
          /\ \A l \in LaneIds : /\ Peer(l)' = Peer(l)
                                /\ State(Peer(l))' = State(Peer(l))
      BY <1>1, <1>2, <3>1, SliceStays
    <3>3. MainInv' /\ ArraysInv'
      BY <1>1, <1>2, <2>2, <3>1 DEF IInv, MainInv, ArraysInv, Fill, LastSlice
    <3>4. SliceInv'
      BY <1>1, <1>2, <2>1, <3>1, <3>2 DEF SliceInv, LaneInv, Fill
    <3> QED BY <1>4, <3>2, <3>3, <3>4 DEF IInv
  <2>3. CASE ~ LastSlice(at)
    <3>1. at' = NextSlice(at) /\ pc' = pc
      BY <1>6, <2>3 DEF segmentFilled
    <3>2. /\ at' \in Segments /\ at'.lane = 0
          /\ ThreadsInv' /\ OrderInv' /\ MemoryInv'
          /\ \A l \in LaneIds : State(Peer(l))' = "none"
      BY <1>1, <2>1, <2>3, <3>1, SliceDone
    <3>3. MainInv' /\ ArraysInv'
      BY <1>1, <1>2, <3>1, <3>2 DEF IInv, MainInv, ArraysInv, Fill
    <3>4. SliceInv'
      <4> SUFFICES ASSUME NEW l \in LaneIds PROVE LaneInv(l)'
        BY DEF SliceInv
      <4>1. ~ (l < at'.lane)
        BY <1>3, <3>2
      <4> QED BY <1>1, <1>2, <3>1, <3>2, <4>1 DEF LaneInv, Fill
    <3> QED BY <1>4, <3>2, <3>3, <3>4 DEF IInv
  <2> QED BY <2>2, <2>3
<1> QED BY <1>5, <1>6

-----------------------------------------------------------------------------
(* The invariant holds. *)

LEMMA InitHolds == Init => IInv
<1> SUFFICES ASSUME Init PROVE IInv
  OBVIOUS
<1>1. /\ pc = "initialize" /\ at = FirstSegment /\ joining = 0 /\ rc = "none"
      /\ matrix = "none" /\ memory = [b \in Blocks |-> 0]
      /\ handle = None /\ thr_data = None /\ joined = {}
      /\ threads = [t \in Segments |-> NotCreated]
  BY DEF Init
<1>2. FirstSegment \in Segments
  BY Sizes DEF FirstSegment, Segments
<1>3. ASSUME NEW t \in Segments
      PROVE  /\ threads[t] \in ThreadRecords /\ State(t) = "none"
             /\ threads[t].state = "none" /\ threads[t].ref = None
  BY <1>1 DEF NotCreated, ThreadRecords, ThreadStates, State
<1>4. MainInv /\ ArraysInv /\ JoinedInv
  BY <1>1, <1>2, Sizes DEF MainInv, ArraysInv, JoinedInv, Fill
<1>5. ThreadsInv
  BY <1>1, <1>3 DEF ThreadsInv, ThreadInv
<1>6. OrderInv
  <2>1. at.pass = 0 /\ at.slice = 0
    BY <1>1 DEF FirstSegment
  <2>2. \A t \in Segments : ~ Before(t, at)
    BY <2>1, SliceOf DEF Before
  <2> QED BY <1>3, <2>2 DEF OrderInv
<1>7. SliceInv
  <2>1. \A l \in LaneIds : State(Peer(l)) = "none"
    BY <1>1, <1>2, <1>3, Peers
  <2> QED BY <1>1, <2>1 DEF SliceInv, LaneInv, Fill
<1>8. MemoryInv
  BY <1>1, <1>3 DEF MemoryInv
<1> QED BY <1>4, <1>5, <1>6, <1>7, <1>8 DEF IInv

LEMMA Stutters ==
    ASSUME IInv, UNCHANGED vars
    PROVE  IInv'
<1>1. UNCHANGED <<pc, at, joining, rc, matrix, memory, handle, thr_data,
                  joined, threads>>
  BY DEF vars, mainVars, arrayVars
<1>2. MainInv' /\ ArraysInv' /\ JoinedInv' /\ OrderInv'
  BY <1>1 DEF IInv, MainInv, ArraysInv, JoinedInv, OrderInv, Before, State,
     LastSlice
<1>3. ThreadsInv'
  BY <1>1 DEF IInv, ThreadsInv, ThreadInv
<1>4. SliceInv'
  BY <1>1 DEF IInv, SliceInv, LaneInv, State, Peer, Freed
<1>5. MemoryInv'
  BY <1>1 DEF IInv, MemoryInv, Written, Made, State, Peer
<1> QED BY <1>2, <1>3, <1>4, <1>5 DEF IInv

LEMMA NextHolds == IInv /\ [Next]_vars => IInv'
<1> SUFFICES ASSUME IInv, [Next]_vars PROVE IInv'
  OBVIOUS
<1>1. CASE main
  BY <1>1, InitializeStep, EarlyReturnStep, FinalizeStep, FillSegmentStep,
     SegmentFilledStep, AllocateStep, MakeRoomStep, CreateStep,
     CreateFailsStep, AbandonStep, JoinRemainingStep DEF main
<1>2. CASE done
  BY <1>2, Stutters DEF done
<1>3. ASSUME NEW t \in Segments, fill_segment(t) PROVE IInv'
  BY <1>3, FillSegmentThreadStep
<1>4. CASE UNCHANGED vars
  BY <1>4, Stutters
<1> QED BY <1>1, <1>2, <1>3, <1>4 DEF Next

\* What every reachable state of argon2_ctx satisfies.
THEOREM Invariance == Spec => []IInv
BY InitHolds, NextHolds, PTL DEF Spec

-----------------------------------------------------------------------------
(* Blocks. *)

\* Every block is one of a slice.
LEMMA SliceOfBlock ==
    ASSUME NEW k \in 0..(LaneLength - 1)
    PROVE  \E c \in Slices, i \in Indices : k = c * SegmentLength + i
<1>1. /\ SegmentLength \in Nat /\ SegmentLength >= 2
      /\ LaneLength = 4 * SegmentLength /\ k \in Nat /\ k < 4 * SegmentLength
  BY Sizes
<1>2. CASE k < SegmentLength
  <2>1. k = 0 * SegmentLength + k /\ 0 \in Slices /\ k \in Indices
    BY <1>1, <1>2 DEF Slices, Indices
  <2> QED BY <2>1
<1>3. CASE SegmentLength <= k /\ k < 2 * SegmentLength
  <2> DEFINE i == k - SegmentLength
  <2>1. k = 1 * SegmentLength + i /\ 1 \in Slices /\ i \in Indices
    BY <1>1, <1>3 DEF Slices, Indices
  <2> QED BY <2>1
<1>4. CASE 2 * SegmentLength <= k /\ k < 3 * SegmentLength
  <2> DEFINE i == k - 2 * SegmentLength
  <2>1. k = 2 * SegmentLength + i /\ 2 \in Slices /\ i \in Indices
    BY <1>1, <1>4 DEF Slices, Indices
  <2> QED BY <2>1
<1>5. CASE 3 * SegmentLength <= k
  <2> DEFINE i == k - 3 * SegmentLength
  <2>1. k = 3 * SegmentLength + i /\ 3 \in Slices /\ i \in Indices
    BY <1>1, <1>5 DEF Slices, Indices
  <2> QED BY <2>1
<1> QED BY <1>1, <1>2, <1>3, <1>4, <1>5

\* Where block i of slice c lies, seen from a segment of slice d.
LEMMA SliceBounds ==
    ASSUME NEW c \in Slices, NEW i \in Indices, NEW d \in Slices
    PROVE  LET k == c * SegmentLength + i IN
           /\ k \in Nat
           /\ c < d <=> k < d * SegmentLength
           /\ c > d <=> k >= (d + 1) * SegmentLength
           /\ \A j \in Nat : c = d => (k < d * SegmentLength + j <=> i < j)
<1>1. /\ SegmentLength \in Nat /\ SegmentLength >= 2
      /\ i \in 0..(SegmentLength - 1)
      /\ c \in {0, 1, 2, 3} /\ d \in {0, 1, 2, 3}
  BY Sizes DEF Indices, Slices
<1>2. ASSUME NEW e \in {0, 1, 2, 3, 4}
      PROVE  /\ e = 0 => e * SegmentLength = 0
             /\ e = 1 => e * SegmentLength = SegmentLength
             /\ e = 2 => e * SegmentLength = SegmentLength + SegmentLength
             /\ e = 3 => e * SegmentLength
                           = SegmentLength + SegmentLength + SegmentLength
             /\ e = 4 => e * SegmentLength = SegmentLength + SegmentLength
                                               + SegmentLength + SegmentLength
  BY <1>1
<1>3. d + 1 \in {0, 1, 2, 3, 4}
  BY <1>1
<1> QED BY <1>1, <1>2, <1>3

\* To a thread at a block, the blocks of its own lane and those of the other
\* slices are as old as in the single-threaded order.
LEMMA AgeOfBlock ==
    ASSUME IInv, NEW t \in Busy, NEW l \in LaneIds,
           NEW c \in Slices, NEW i \in Indices, l = t.lane \/ c # t.slice
    PROVE  LET b == <<l, c * SegmentLength + i>>
           IN  memory[b] = Age(t, b)
<1> DEFINE k == c * SegmentLength + i
           b == <<l, k>>
           n == threads[t].index
<1>1. /\ t \in Segments /\ threads[t].ref # None
      /\ threads[t].state = "filling" /\ threads[t].segment = t
      /\ n \in Nat /\ t.lane \in LaneIds /\ t.slice \in Slices
      /\ t.slice = at.slice /\ t.pass = at.pass /\ t = Peer(t.lane)
      /\ n >= starting_index(t)
  BY CurrentBlock, FillingThread DEF Busy
<1>2. memory[b] = Written(l, c, i)
  BY <1>1, ActiveThread DEF IInv, MemoryInv, State
<1>3. /\ k \in Nat /\ c \in Int /\ t.slice \in Int
      /\ c < t.slice <=> k < t.slice * SegmentLength
      /\ c > t.slice <=> k >= (t.slice + 1) * SegmentLength
      /\ c = t.slice => (k < t.slice * SegmentLength + n <=> i < n)
  BY <1>1, SliceBounds DEF Slices
<1>4. t.slice * SegmentLength + n < (t.slice + 1) * SegmentLength
  <2>1. n < SegmentLength
    BY <1>1, CurrentBlock, Sizes DEF Indices
  <2> QED BY <1>1, <1>3, <2>1, Sizes
<1>5. l = t.lane => (Made(l, i) <=> i < n)
  <2>1. t.pass = 0 /\ t.slice = 0 => n >= 2
    BY <1>1, StartingIndex
  <2> QED BY <1>1, <2>1 DEF Made, State, Indices
<1>6. Age(t, b) = IF \/ k < t.slice * SegmentLength
                     \/ l = t.lane /\ k < t.slice * SegmentLength + n
                  THEN t.pass + 1 ELSE t.pass
  BY <1>1 DEF Age, curr_offset
<1>7. CASE c = t.slice
  BY <1>1, <1>2, <1>3, <1>5, <1>6, <1>7 DEF Written
<1>8. CASE c < t.slice
  BY <1>1, <1>2, <1>3, <1>6, <1>8 DEF Written
<1>9. CASE c > t.slice
  <2>1. ~ (k < t.slice * SegmentLength) /\ ~ (k < t.slice * SegmentLength + n)
    <3>1. /\ t.slice * SegmentLength \in Nat
          /\ t.slice * SegmentLength + n \in Nat
          /\ (t.slice + 1) * SegmentLength \in Nat
      BY <1>1, Sizes DEF Slices
    <3> QED BY <1>3, <1>4, <1>9, <3>1
  <2> QED BY <1>1, <1>2, <1>3, <1>6, <1>9, <2>1 DEF Written
<1> QED BY <1>3, <1>7, <1>8, <1>9

-----------------------------------------------------------------------------
(* What the invariant says of the blocks a thread reads and writes. *)

LEMMA BusyThread ==
    ASSUME IInv, NEW t \in Busy
    PROVE  /\ t \in Segments /\ threads[t].segment = t
           /\ t.lane \in LaneIds /\ t.slice = at.slice /\ t.pass = at.pass
           /\ t = Peer(t.lane) /\ t.pass \in Nat
           /\ t.slice \in Slices /\ threads[t].index \in Indices
           /\ threads[t].index \in Nat
           /\ threads[t].index >= starting_index(t)
           /\ Current(t) = <<t.lane, t.slice * SegmentLength + threads[t].index>>
           /\ Previous(t) = <<t.lane, prev_offset(t, threads[t].index)>>
           /\ \E l \in LaneIds, k \in 0..(LaneLength - 1) :
                 /\ threads[t].ref = <<l, k>>
                 /\ k \in Finished(t, threads[t].index, l = t.lane)
<1>1. /\ t \in Segments /\ threads[t].ref # None
      /\ threads[t].state = "filling"
  BY CurrentBlock DEF Busy
<1>2. /\ threads[t].segment = t
      /\ t.lane \in LaneIds /\ t.slice = at.slice /\ t.pass = at.pass
      /\ t = Peer(t.lane)
      /\ t.slice \in Slices /\ threads[t].index \in Indices
      /\ Current(t) = <<t.lane, t.slice * SegmentLength + threads[t].index>>
  BY <1>1, CurrentBlock
<1>3. /\ threads[t].index \in Nat /\ threads[t].index >= starting_index(t)
      /\ threads[t] \in ThreadRecords /\ ThreadInv(t) /\ t.pass \in Nat
  BY <1>1, FillingThread, SliceOf
<1>4. Previous(t) = <<t.lane, prev_offset(t, threads[t].index)>>
  BY <1>2 DEF Previous, Lane
<1>5. threads[t].ref \in Blocks
  BY <1>1, <1>3 DEF ThreadRecords
<1>6. threads[t].ref[2] \in
         Finished(t, threads[t].index, threads[t].ref[1] = t.lane)
  BY <1>1, <1>3 DEF ThreadInv
<1>7. PICK l \in LaneIds, k \in 0..(LaneLength - 1) : threads[t].ref = <<l, k>>
  BY <1>5 DEF Blocks
<1>8. k \in Finished(t, threads[t].index, l = t.lane)
  BY <1>6, <1>7
<1> QED BY <1>1, <1>2, <1>3, <1>4, <1>7, <1>8

LEMMA NoRaceOfInvariant ==
    ASSUME IInv
    PROVE  NoDataRace
<1> SUFFICES ASSUME NEW t \in Busy, NEW u \in Busy, t # u
             PROVE  Current(t) \notin {Current(u), Previous(u), threads[u].ref}
  BY DEF NoDataRace
<1> DEFINE k == t.slice * SegmentLength + threads[t].index
<1>1. /\ t.lane # u.lane /\ t.slice = u.slice /\ Current(t) = <<t.lane, k>>
      /\ t.slice \in Slices /\ threads[t].index \in Indices
  BY BusyThread
<1>2. Current(u)[1] = u.lane /\ Previous(u)[1] = u.lane
  BY BusyThread
<1>3. PICK l \in LaneIds, m \in 0..(LaneLength - 1) :
         /\ threads[u].ref = <<l, m>>
         /\ m \in Finished(u, threads[u].index, l = u.lane)
  BY BusyThread
<1>4. l = t.lane => m # k
  <2>1. /\ ~ (k < t.slice * SegmentLength)
        /\ ~ (k >= (t.slice + 1) * SegmentLength)
    BY <1>1, SliceBounds DEF Slices
  <2> QED BY <1>1, <1>3, <2>1 DEF Finished
<1> QED BY <1>1, <1>2, <1>3, <1>4

LEMMA ReferenceOfInvariant ==
    ASSUME IInv
    PROVE  ReferenceIsFinished
<1> SUFFICES ASSUME NEW t \in Busy
             PROVE  threads[t].ref[2] \in
                       Finished(threads[t].segment, threads[t].index,
                                threads[t].ref[1] = threads[t].segment.lane)
  BY DEF ReferenceIsFinished
<1>1. PICK l \in LaneIds, k \in 0..(LaneLength - 1) :
         /\ threads[t].ref = <<l, k>>
         /\ k \in Finished(t, threads[t].index, l = t.lane)
  BY BusyThread
<1>2. threads[t].segment = t
  BY BusyThread
<1> QED BY <1>1, <1>2

LEMMA ReadsOfInvariant ==
    ASSUME IInv
    PROVE  ReadsMatchSequential
<1> SUFFICES ASSUME NEW t \in Busy
             PROVE  /\ memory[Previous(t)] = Age(t, Previous(t))
                    /\ memory[threads[t].ref] = Age(t, threads[t].ref)
                    /\ memory[Current(t)] = threads[t].segment.pass
  BY DEF ReadsMatchSequential
<1> DEFINE n == threads[t].index
           k == t.slice * SegmentLength + n
<1>1. /\ t \in Segments /\ threads[t].segment = t /\ t.lane \in LaneIds
      /\ t.slice \in Slices /\ n \in Indices /\ t.pass \in Nat
      /\ n \in Nat /\ n >= starting_index(t)
      /\ Current(t) = <<t.lane, k>>
      /\ Previous(t) = <<t.lane, prev_offset(t, n)>>
  BY BusyThread
<1>2. k \in Nat /\ k \in 0..(LaneLength - 1) /\ ~ (k < t.slice * SegmentLength)
  <2>1. k \in 0..(LaneLength - 1)
    BY <1>1, Offsets
  <2>2. /\ k \in Nat /\ t.slice < t.slice <=> k < t.slice * SegmentLength
        /\ ~ (t.slice < t.slice)
    BY <1>1, SliceBounds DEF Slices
  <2> QED BY <2>1, <2>2
<1>3. memory[Current(t)] = threads[t].segment.pass
  <2>1. memory[Current(t)] = Age(t, Current(t))
    BY <1>1, AgeOfBlock
  <2>2. Age(t, <<t.lane, k>>) = t.pass
    BY <1>1, <1>2 DEF Age, curr_offset
  <2> QED BY <1>1, <2>1, <2>2
<1>4. memory[Previous(t)] = Age(t, Previous(t))
  <2>1. prev_offset(t, n) \in 0..(LaneLength - 1)
    BY <1>1, <1>2, Sizes DEF prev_offset, curr_offset
  <2>2. PICK c \in Slices, i \in Indices :
           prev_offset(t, n) = c * SegmentLength + i
    BY <2>1, SliceOfBlock
  <2> QED BY <1>1, <2>2, AgeOfBlock
<1>5. memory[threads[t].ref] = Age(t, threads[t].ref)
  <2>1. PICK l \in LaneIds, m \in 0..(LaneLength - 1) :
           /\ threads[t].ref = <<l, m>> /\ m \in Finished(t, n, l = t.lane)
    BY BusyThread
  <2>2. PICK c \in Slices, i \in Indices : m = c * SegmentLength + i
    BY SliceOfBlock
  <2>3. l = t.lane \/ c # t.slice
    <3>1. c = t.slice => /\ ~ (m < t.slice * SegmentLength)
                         /\ ~ (m >= (t.slice + 1) * SegmentLength)
      BY <1>1, <2>2, SliceBounds DEF Slices
    <3> QED BY <2>1, <3>1 DEF Finished
  <2>4. memory[<<l, m>>] = Age(t, <<l, m>>)
    BY <2>2, <2>3, AgeOfBlock
  <2> QED BY <2>1, <2>4
<1> QED BY <1>3, <1>4, <1>5

LEMMA OwnDataOfInvariant ==
    ASSUME IInv
    PROVE  ThreadReadsItsOwnData
<1> SUFFICES ASSUME NEW t \in Segments
             PROVE  /\ threads[t].state = "created" =>
                          thr_data # None /\ thr_data[t.lane] = t
                    /\ threads[t].state \in {"filling", "exited"} =>
                          threads[t].segment = t
  BY DEF ThreadReadsItsOwnData
<1>1. ThreadInv(t)
  BY DEF IInv, ThreadsInv
<1>2. ASSUME threads[t].state = "created"
      PROVE  thr_data # None /\ thr_data[t.lane] = t
  <2>1. /\ pc \in Fill /\ thr_data[t.lane] = t /\ t.lane \in LaneIds
    BY <1>2, ActiveThread DEF State
  <2>2. DOMAIN thr_data = LaneIds
    BY <2>1 DEF IInv, ArraysInv
  <2>3. DOMAIN None = {}
    BY DEF None
  <2> QED BY <2>1, <2>2, <2>3
<1> QED BY <1>1, <1>2 DEF ThreadInv

LEMMA NoThreadLeftOfInvariant ==
    ASSUME IInv
    PROVE  NoThreadOutlivesFill
<1> SUFFICES ASSUME pc \in {"finalize", "returned"}, NEW t \in Segments,
                    Running(t)
             PROVE  FALSE
  BY DEF NoThreadOutlivesFill
<1>1. State(t) \in {"created", "filling"}
  BY DEF Running, State
<1> QED BY <1>1, ActiveThread DEF Fill

LEMMA TagOfInvariant ==
    ASSUME IInv
    PROVE  TagOfFullMatrix
<1> SUFFICES ASSUME rc = "ok", NEW b \in Blocks PROVE memory[b] = Passes
  BY DEF TagOfFullMatrix
<1>1. at \in Segments /\ LastSlice(at) /\ matrix # "none"
  BY DEF IInv, MainInv, MemoryInv
<1>2. at.pass = Passes - 1 /\ at.slice = 3 /\ Passes \in Nat
  BY <1>1, Sizes DEF LastSlice
<1>3. PICK l \in LaneIds, k \in 0..(LaneLength - 1) : b = <<l, k>>
  BY DEF Blocks
<1>4. PICK c \in Slices, i \in Indices : k = c * SegmentLength + i
  BY SliceOfBlock
<1>5. Made(l, i)
  BY DEF IInv, SliceInv, LaneInv, Made
<1>6. memory[b] = Written(l, c, i)
  BY <1>1, <1>3, <1>4 DEF IInv, MemoryInv
<1>7. c < at.slice \/ c = at.slice
  BY <1>2 DEF Slices
<1> QED BY <1>2, <1>5, <1>6, <1>7 DEF Written

LEMMA TypeOfInvariant ==
    ASSUME IInv
    PROVE  TypeOK
<1>1. /\ pc \in {"initialize", "calloc", "room", "create", "join", "abandon",
                 "fill_st", "finalize", "returned"}
      /\ at \in Segments /\ joining \in 0..Lanes
      /\ rc \in {"none", "ok", "memory", "threads"}
      /\ matrix \in {"none", "in use", "wiped"}
  BY DEF IInv, MainInv, Fill
<1>2. memory \in [Blocks -> 0..Passes]
  <2>1. memory \in [Blocks -> Nat]
    BY DEF IInv, MemoryInv
  <2>2. ASSUME NEW b \in Blocks PROVE memory[b] \in 0..Passes
    <3>1. PICK l \in LaneIds, k \in 0..(LaneLength - 1) : b = <<l, k>>
      BY DEF Blocks
    <3>2. PICK c \in Slices, i \in Indices : k = c * SegmentLength + i
      BY SliceOfBlock
    <3>3. at.pass \in Nat /\ at.pass < Passes /\ Passes \in Nat
      BY <1>1, SliceOf, Sizes
    <3>4. CASE matrix = "none"
      BY <3>3, <3>4 DEF IInv, MemoryInv
    <3>5. CASE matrix # "none"
      <4>1. memory[b] = Written(l, c, i)
        BY <3>1, <3>2, <3>5 DEF IInv, MemoryInv
      <4> QED BY <3>3, <4>1 DEF Written
    <3> QED BY <3>4, <3>5
  <2> QED BY <2>1, <2>2
<1>3. joined \subseteq Segments
  BY DEF IInv, JoinedInv
<1>4. handle = None <=> thr_data = None
  <2>1. CASE pc \in Fill
    <3>1. DOMAIN handle = LaneIds /\ DOMAIN thr_data = LaneIds
      BY <2>1 DEF IInv, ArraysInv
    <3>2. DOMAIN None = {} /\ LaneIds # {}
      BY Sizes DEF None
    <3> QED BY <3>1, <3>2
  <2>2. CASE pc \notin Fill
    BY <2>2 DEF IInv, ArraysInv
  <2> QED BY <2>1, <2>2
<1> QED BY <1>1, <1>2, <1>3, <1>4 DEF TypeOK

-----------------------------------------------------------------------------
(* Refinement of SegmentOrder, and the joins. *)

LEMMA FilledByState ==
    ASSUME IInv, NEW st \in {"filling", "exited"}
    PROVE  FilledBy(st) = {t \in Segments : State(t) = st}
<1>1. ASSUME NEW t \in Segments, State(t) = st
      PROVE  threads[t].segment = t
  BY <1>1 DEF IInv, ThreadsInv, ThreadInv, State
<1> QED BY <1>1 DEF FilledBy, State

LEMMA FilledByStateNext ==
    ASSUME IInv', NEW st \in {"filling", "exited"}
    PROVE  FilledBy(st)' = {t \in Segments : State(t)' = st}
<1>1. ASSUME NEW t \in Segments, threads'[t].state = st
      PROVE  threads'[t].segment = t
  BY <1>1 DEF IInv, ThreadsInv, ThreadInv
<1> QED BY <1>1 DEF FilledBy, State

\* A segment begins only when all of the earlier slices are filled.
LEMMA BeginRefines ==
    ASSUME IInv, IInv', NEW t \in Segments,
           \/ State(t) = "created"
           \/ pc = "fill_st" /\ t = at /\ State(t) = "none",
           \A u \in Segments : State(u)' = IF u = t THEN "filling" ELSE State(u)
    PROVE  Order!Begin(t)
<1>1. /\ FilledBy("filling") = {u \in Segments : State(u) = "filling"}
      /\ FilledBy("exited") = {u \in Segments : State(u) = "exited"}
      /\ FilledBy("filling")' = {u \in Segments : State(u)' = "filling"}
      /\ FilledBy("exited")' = {u \in Segments : State(u)' = "exited"}
  BY FilledByState, FilledByStateNext
<1>2. at \in Segments /\ t.pass = at.pass /\ t.slice = at.slice
  BY ActiveThread DEF IInv, MainInv
<1>3. ASSUME NEW u \in Segments, Order!Earlier(u, t)
      PROVE  u \in FilledBy("exited")
  BY <1>1, <1>2, <1>3 DEF Order!Earlier, Before, IInv, OrderInv
<1>4. t \notin FilledBy("filling") \cup FilledBy("exited")
  BY <1>1
<1>5. FilledBy("filling")' = FilledBy("filling") \cup {t}
  BY <1>1
<1>6. FilledBy("exited")' = FilledBy("exited")
  BY <1>1
<1> QED BY <1>3, <1>4, <1>5, <1>6 DEF Order!Begin

\* Every step of argon2_ctx begins or completes a segment, or leaves them.
LEMMA NextRefines ==
    ASSUME IInv, IInv', [Next]_vars
    PROVE  [Order!Next]_<<FilledBy("filling"), FilledBy("exited")>>
<1>1. threads \in [Segments -> ThreadRecords] /\ at \in Segments
  BY DEF IInv, ThreadsInv, MainInv
<1>2. ASSUME \A u \in Segments : \A st \in {"filling", "exited"} :
                State(u)' = st <=> State(u) = st
      PROVE  UNCHANGED <<FilledBy("filling"), FilledBy("exited")>>
  <2>1. ASSUME NEW st \in {"filling", "exited"}
        PROVE  FilledBy(st)' = FilledBy(st)
    BY <1>2, FilledByState, FilledByStateNext
  <2> QED BY <2>1
<1>3. CASE UNCHANGED threads
  BY <1>2, <1>3 DEF State
<1>4. CASE create
  <2>1. State(at) = "none"
    BY <1>4, CreateFacts DEF create
  <2>2. threads' = [threads EXCEPT ![at] =
                       [threads[at] EXCEPT !.state = "created"]]
    BY <1>4 DEF create
  <2>3. threads[at] \in ThreadRecords
    BY <1>1
  <2>4. \A u \in Segments :
           State(u)' = IF u = at THEN "created" ELSE State(u)
    BY <1>1, <2>2, <2>3 DEF State, ThreadRecords
  <2> QED BY <1>2, <2>1, <2>4
<1>5. CASE fillSegment
  <2>1. pc = "fill_st" /\ State(at) = "none"
        /\ threads' = [threads EXCEPT ![at] = Filling(at)]
    BY <1>5 DEF fillSegment, State
  <2>2. \A u \in Segments :
           State(u)' = IF u = at THEN "filling" ELSE State(u)
    BY <1>1, <2>1 DEF State, Filling
  <2>3. Order!Begin(at)
    BY <1>1, <2>1, <2>2, BeginRefines
  <2> QED BY <1>1, <2>3 DEF Order!Next
<1>6. ASSUME NEW t \in Segments, fill_segment(t)
      PROVE  [Order!Next]_<<FilledBy("filling"), FilledBy("exited")>>
  <2>1. CASE start(t)
    <3>1. /\ State(t) = "created"
          /\ threads' = [threads EXCEPT ![t] = Filling(thr_data[t.lane])]
      BY <2>1 DEF start, State
    <3>2. \A u \in Segments :
             State(u)' = IF u = t THEN "filling" ELSE State(u)
      BY <1>1, <3>1 DEF State, Filling
    <3>3. Order!Begin(t)
      BY <3>1, <3>2, BeginRefines
    <3> QED BY <3>3 DEF Order!Next
  <2>2. CASE beginBlock(t) \/ endBlock(t)
    <3>1. threads[t].state = "filling" /\ threads[t] \in ThreadRecords
      BY <1>1, <2>2 DEF beginBlock, endBlock
    <3>2. threads'[t].state = "filling"
          /\ \A u \in Segments : u # t => threads'[u] = threads[u]
      <4>1. CASE beginBlock(t)
        BY <1>1, <3>1, <4>1 DEF beginBlock, ThreadRecords
      <4>2. CASE endBlock(t)
        BY <1>1, <3>1, <4>2 DEF endBlock, ThreadRecords
      <4> QED BY <2>2, <4>1, <4>2
    <3> QED BY <1>2, <3>1, <3>2 DEF State
  <2>3. CASE exit(t)
    <3>1. /\ State(t) = "filling" /\ threads[t] \in ThreadRecords
          /\ threads' = [threads EXCEPT ![t] =
                            [threads[t] EXCEPT !.state = "exited"]]
      BY <1>1, <2>3 DEF exit, State
    <3>2. \A u \in Segments :
             State(u)' = IF u = t THEN "exited" ELSE State(u)
      BY <1>1, <3>1 DEF State, ThreadRecords
    <3>3. /\ FilledBy("filling") = {u \in Segments : State(u) = "filling"}
          /\ FilledBy("exited") = {u \in Segments : State(u) = "exited"}
          /\ FilledBy("filling")' = {u \in Segments : State(u)' = "filling"}
          /\ FilledBy("exited")' = {u \in Segments : State(u)' = "exited"}
      BY FilledByState, FilledByStateNext
    <3>4. /\ t \in FilledBy("filling")
          /\ FilledBy("filling")' = FilledBy("filling") \ {t}
          /\ FilledBy("exited")' = FilledBy("exited") \cup {t}
      BY <3>1, <3>2, <3>3
    <3>5. Order!Complete(t)
      BY <3>4 DEF Order!Complete
    <3> QED BY <3>5 DEF Order!Next
  <2> QED BY <1>6, <2>1, <2>2, <2>3 DEF fill_segment
<1>7. CASE main
  <2>1. ASSUME ~ create, ~ fillSegment PROVE UNCHANGED threads
    BY <1>7, <2>1 DEF main, initialize, initializeFails, finalize, segmentFilled,
       allocate, allocateFails, makeRoom, createFails, abandon, joinRemaining
  <2> QED BY <1>3, <1>4, <1>5, <2>1
<1>8. CASE done \/ UNCHANGED vars
  BY <1>3, <1>8 DEF done, vars
<1> QED BY <1>6, <1>7, <1>8 DEF Next

\* With a thread for every lane nobody is joined before the end of a slice.
LEMMA JoinsOfInvariant ==
    ASSUME IInv, Threads >= Lanes
    PROVE  JoinsEachThreadOnce
<1> SUFFICES ASSUME NEW l \in Target, handle[l] \in joined PROVE FALSE
  BY DEF JoinsEachThreadOnce
<1>1. ThreadLimit = Lanes
  BY Sizes, ThreadsAssumption DEF ThreadLimit
<1>2. pc # "room"
  <2>1. pc = "room" => at.lane >= ThreadLimit
    BY DEF IInv, MainInv
  <2> QED BY <1>1, <2>1, LaneCounters
<1>3. /\ pc \in {"join", "abandon"} /\ l = joining
      /\ pc = "abandon" => joining < at.lane
  BY <1>2, LaneCounters DEF Target
<1>4. l \in LaneIds /\ ~ (l < joining)
  <2>1. pc = "join" => joining < Lanes
    BY DEF IInv, MainInv
  <2>2. joining \in Nat /\ joining < Lanes
    BY <1>3, <2>1, LaneCounters
  <2> QED BY <1>3, <2>2, LaneCounters DEF LaneIds
<1>5. handle[l] = Peer(l) /\ (Peer(l) \in joined => l < Freed)
  BY <1>1, <1>3, <1>4, FillFacts DEF Fill
<1>6. Freed = joining
  BY <1>3 DEF Freed
<1> QED BY <1>4, <1>5, <1>6

-----------------------------------------------------------------------------
(* The number of threads. *)

\* No more than ThreadLimit threads of the slice in hand are left to join.
RoomInv ==
    /\ pc = "abandon" => \A l \in LaneIds :
          l < at.lane + 1 - ThreadLimit => State(Peer(l)) = "exited"
    /\ pc = "join" => joining >= Lanes - ThreadLimit

LEMMA ThreadStepKeepsRoom ==
    ASSUME IInv, RoomInv, NEW t \in Segments, fill_segment(t)
    PROVE  RoomInv'
<1>1. UNCHANGED <<pc, at, joining>>
  BY DEF fill_segment, start, beginBlock, endBlock, exit, mainVars
<1>2. ASSUME NEW u \in Segments, State(u) = "exited"
      PROVE  State(u)' = "exited"
  <2>1. u # t
    BY <1>2 DEF fill_segment, start, beginBlock, endBlock, exit, State
  <2>2. threads'[u] = threads[u]
    BY <2>1 DEF fill_segment, start, beginBlock, endBlock, exit, IInv, ThreadsInv
  <2> QED BY <1>2, <2>2 DEF State
<1>3. \A l \in LaneIds : Peer(l) \in Segments /\ Peer(l)' = Peer(l)
  BY <1>1, Peers DEF IInv, MainInv, Peer
<1>4. \A l \in LaneIds : State(Peer(l)) = "exited" => State(Peer(l))' = "exited"
  BY <1>2, <1>3 DEF State
<1> QED BY <1>1, <1>4 DEF RoomInv

LEMMA MainStepKeepsRoom ==
    ASSUME IInv, IInv', RoomInv, main
    PROVE  RoomInv'
<1>1. ASSUME pc' = "abandon", NEW l \in LaneIds,
             l < at'.lane + 1 - ThreadLimit
      PROVE  State(Peer(l))' = "exited"
  <2>1. createFails \/ abandon
    BY <1>1, Sizes DEF main, initialize, initializeFails, finalize, fillSegment,
       segmentFilled, allocate, allocateFails, makeRoom, create, joinRemaining,
       Return, fillFails, beforeLane, mainVars
  <2>2. UNCHANGED <<at, threads>>
    BY <2>1 DEF createFails, abandon
  <2>3. State(Peer(l)) = "exited"
    <3>1. CASE createFails
      <4>1. pc = "create" /\ pc \in Fill
        BY <3>1 DEF createFails, Fill
      <4>2. l < Freed
        BY <1>1, <2>2, <4>1 DEF Freed
      <4> QED BY <4>1, <4>2, FillFacts
    <3>2. CASE abandon
      BY <1>1, <2>2, <3>2 DEF abandon, RoomInv
    <3> QED BY <2>1, <3>1, <3>2
  <2>4. Peer(l)' = Peer(l)
    BY <2>2 DEF Peer
  <2> QED BY <2>2, <2>3, <2>4 DEF State
<1>2. ASSUME pc' = "join" PROVE joining' >= Lanes - ThreadLimit
  <2>1. create \/ joinRemaining
    BY <1>2, Sizes DEF main, initialize, initializeFails, finalize, fillSegment,
       segmentFilled, allocate, allocateFails, makeRoom, createFails, abandon,
       Return, fillFails, beforeLane, mainVars
  <2>2. CASE create
    BY <1>2, <2>2, LaneCounters DEF create, beforeLane
  <2>3. CASE joinRemaining
    <3>1. joining' = joining + 1 /\ joining >= Lanes - ThreadLimit
      BY <2>3 DEF joinRemaining, RoomInv
    <3> QED BY <3>1, LaneCounters
  <2> QED BY <2>1, <2>2, <2>3
<1> QED BY <1>1, <1>2 DEF RoomInv

LEMMA RoomHolds == Spec => []RoomInv
<1>1. Init => RoomInv
  BY DEF Init, RoomInv
<1>2. IInv /\ IInv' /\ RoomInv /\ [Next]_vars => RoomInv'
  <2> SUFFICES ASSUME IInv, IInv', RoomInv, [Next]_vars PROVE RoomInv'
    OBVIOUS
  <2>1. CASE main
    BY <2>1, MainStepKeepsRoom
  <2>2. ASSUME NEW t \in Segments, fill_segment(t) PROVE RoomInv'
    BY <2>2, ThreadStepKeepsRoom
  <2>3. CASE done \/ UNCHANGED vars
    BY <2>3 DEF done, vars, mainVars, RoomInv, State, Peer
  <2> QED BY <2>1, <2>2, <2>3 DEF Next
<1> QED BY <1>1, <1>2, Invariance, PTL DEF Spec

\* The threads that run have lanes from a range of ThreadLimit lanes.
LEMMA ThreadsOfInvariant ==
    ASSUME IInv, RoomInv
    PROVE  AtMostThreads
<1> DEFINE running == {t \in Segments : Running(t)}
           a == CASE pc = "room"    -> at.lane - ThreadLimit
                  [] pc = "create"  -> at.lane + 1 - ThreadLimit
                  [] pc = "abandon" -> at.lane + 1 - ThreadLimit
                  [] pc = "join"    -> Lanes - ThreadLimit
                  [] OTHER          -> at.lane
           b == CASE pc = "room"    -> at.lane - 1
                  [] pc = "create"  -> at.lane - 1
                  [] pc = "abandon" -> at.lane - 1
                  [] pc = "join"    -> Lanes - 1
                  [] OTHER          -> at.lane
           f == [t \in running |-> t.lane]
<1>1. /\ at.lane \in Nat /\ Lanes \in Nat /\ ThreadLimit \in Nat
      /\ ThreadLimit >= 1 /\ ThreadLimit <= Lanes /\ joining \in Nat
  BY LaneCounters
<1>2. a \in Int /\ b \in Int /\ b - a + 1 <= ThreadLimit
  BY <1>1
<1>3. ASSUME NEW t \in running
      PROVE  t.lane \in a..b /\ t = Peer(t.lane)
  <2>1. t \in Segments /\ State(t) \in {"created", "filling"}
    BY DEF Running, State
  <2>2. /\ t = Peer(t.lane) /\ t.lane \in LaneIds /\ t.lane \in Nat
        /\ t.lane < Lanes
        /\ pc \in Fill \cup {"fill_st"} /\ (pc = "fill_st" => t = at)
    BY <2>1, ActiveThread, LaneCounters
  <2>3. CASE pc = "fill_st"
    BY <1>1, <2>2, <2>3
  <2>4. CASE pc \in Fill
    <3>1. LaneInv(t.lane) /\ ~ (t.lane < Freed)
      BY <2>1, <2>2, <2>4, FillFacts
    <3>2. pc \in {"room", "create", "abandon"} => t.lane < at.lane
      BY <2>1, <2>2, <3>1 DEF LaneInv
    <3>3. pc = "abandon" => ~ (t.lane < at.lane + 1 - ThreadLimit)
      BY <2>1, <2>2 DEF RoomInv
    <3>4. pc = "join" => joining >= Lanes - ThreadLimit
      BY DEF RoomInv
    <3>5. pc \in {"room", "create", "join", "abandon"}
      BY <2>4 DEF Fill
    <3> QED BY <1>1, <2>2, <3>1, <3>2, <3>3, <3>4, <3>5 DEF Freed
  <2> QED BY <2>2, <2>3, <2>4
<1> HIDE DEF a, b, running
<1>4. f \in Injection(running, a..b)
  <2>1. f \in [running -> a..b]
    BY <1>3
  <2>2. \A t, u \in running : f[t] = f[u] => t = u
    BY <1>3
  <2> QED BY <2>1, <2>2 DEF Injection, IsInjective
<1>5. IsFiniteSet(a..b) /\ Cardinality(a..b) <= ThreadLimit
  <2>1. /\ IsFiniteSet(a..b)
        /\ Cardinality(a..b) = IF a > b THEN 0 ELSE b - a + 1
    BY <1>2, FS_Interval
  <2> QED BY <1>1, <1>2, <2>1
<1>6. /\ IsFiniteSet(running)
      /\ Cardinality(running) <= Cardinality(a..b)
  BY <1>4, <1>5, FS_Injection
<1>7. Cardinality(running) \in Nat /\ Cardinality(a..b) \in Nat
  BY <1>5, <1>6, FS_CardinalityType
<1>8. Cardinality(running) <= ThreadLimit
  BY <1>1, <1>5, <1>6, <1>7
<1> QED BY <1>8 DEF AtMostThreads, running

-----------------------------------------------------------------------------
(* What argon2_ctx does for every number of lanes, threads and passes. *)

\* The variables of argon2_ctx keep their types; no block is written more
\* often than there are passes.
THEOREM TypeCorrect == Spec => []TypeOK
BY Invariance, TypeOfInvariant, PTL

\* The threads of fill_memory_blocks_mt share the matrix without locks, and
\* no schedule lets two of them meet at a block that one of them writes.
THEOREM DataRaceFree == Spec => []NoDataRace
BY Invariance, NoRaceOfInvariant, PTL

\* Whatever index_alpha is given by a running thread, it refers to a block
\* that is finished in every schedule.
THEOREM ReferencesFinished == Spec => []ReferenceIsFinished
BY Invariance, ReferenceOfInvariant, PTL

\* fill_segment reads the very blocks it would read with one thread: the tag
\* does not depend on the schedule.
THEOREM ScheduleIndependent == Spec => []ReadsMatchSequential
BY Invariance, ReadsOfInvariant, PTL

\* thr_data[l] is neither overwritten nor freed before its thread reads it.
THEOREM OwnInputs == Spec => []ThreadReadsItsOwnData
BY Invariance, OwnDataOfInvariant, PTL

\* fill_memory_blocks returns, in success or failure, only when every thread
\* it created has ended.
THEOREM NoThreadLeft == Spec => []NoThreadOutlivesFill
BY Invariance, NoThreadLeftOfInvariant, PTL

\* finalize hashes a matrix whose every block was written in every pass.
THEOREM FullMatrix == Spec => []TagOfFullMatrix
BY Invariance, TagOfInvariant, PTL

\* With as many threads as lanes, as app_argon2_encrypt and argon2_hash call
\* it, fill_memory_blocks_mt never joins a thread twice.
THEOREM JoinedOnce ==
    ASSUME Threads >= Lanes
    PROVE  Spec => []JoinsEachThreadOnce
<1>1. IInv => JoinsEachThreadOnce
  BY JoinsOfInvariant
<1> QED BY <1>1, Invariance, PTL

\* Filling, however it is scheduled, implements SegmentOrder: no segment is
\* begun before the slices before it are complete.
THEOREM ImplementsSegmentOrder == Spec => SegmentsInOrder
<1>1. Init => Order!Init
  <2> SUFFICES ASSUME Init PROVE Order!Init
    OBVIOUS
  <2>1. \A t \in Segments : threads[t].state = "none"
    BY DEF Init, NotCreated
  <2> QED BY <2>1 DEF Order!Init, FilledBy
<1>2. IInv /\ IInv' /\ [Next]_vars
         => [Order!Next]_<<FilledBy("filling"), FilledBy("exited")>>
  BY NextRefines
<1> QED BY <1>1, <1>2, Invariance, PTL DEF Spec, SegmentsInOrder, Order!Spec

\* Whether segments are filled or a creation has failed, no more threads run
\* than argon2_ctx allows.
THEOREM ThreadsBounded == Spec => []AtMostThreads
BY Invariance, RoomHolds, ThreadsOfInvariant, PTL
=============================================================================
