---------------------------- MODULE Argon2Index ----------------------------
(***************************************************************************)
(* Where fill_segment takes its blocks from: the matrix of Lanes lanes,     *)
(* each of SyncPoints segments, and index_alpha, which maps a pseudo-random *)
(* word to the block of a lane that is mixed into the next one.  Block k of *)
(* lane l is memory[l * LaneLength + k] of the code.                        *)
(***************************************************************************)
EXTENDS Integers

CONSTANTS Lanes, SegmentLength, Passes,
          WordSize                       \* 2^32, the range of a uint32_t

SyncPoints == 4
LaneLength == SyncPoints * SegmentLength

\* argon2_ctx gives every segment two blocks or more, and memory_blocks is a
\* uint32_t.
ASSUME Argon2Assumption ==
    /\ Lanes \in Nat \ {0} /\ Passes \in Nat \ {0}
    /\ SegmentLength \in Nat /\ SegmentLength >= 2
    /\ WordSize \in Nat /\ Lanes * LaneLength < WordSize
    /\ LaneLength < WordSize

LaneIds == 0..(Lanes - 1)

\* A segment of the matrix in one pass; a position is a segment with an index.
Segments == [pass : 0..(Passes - 1), slice : 0..(SyncPoints - 1), lane : LaneIds]

-----------------------------------------------------------------------------
(* fill_segment: which blocks it makes. *)

\* Mutant of starting_index: every segment of the first pass skips two blocks.
starting_index_in_pass(s) == IF s.pass = 0 THEN 2 ELSE 0

\* The first two blocks of a lane come from fill_first_blocks.
starting_index(s) == IF s.pass = 0 /\ s.slice = 0 THEN 2 ELSE 0

curr_offset(s, i) == s.slice * SegmentLength + i

\* The block before, cyclically within the lane.
prev_offset(s, i) == IF curr_offset(s, i) = 0 THEN LaneLength - 1
                                              ELSE curr_offset(s, i) - 1

-----------------------------------------------------------------------------
(* index_alpha, in the unsigned arithmetic of the code. *)

\* Mutant of reference_area_size: other lanes lend their current segment too.
reference_area_too_large(s, i, same_lane) ==
    ((IF s.pass = 0 THEN s.slice * SegmentLength
                    ELSE LaneLength - SegmentLength) + i - 1) % WordSize

\* Mutant of reference_area_size: the block just before is included.
reference_area_with_previous(s, i, same_lane) ==
    ((IF s.pass = 0 THEN s.slice * SegmentLength
                    ELSE LaneLength - SegmentLength)
      + (IF same_lane THEN i ELSE 0)) % WordSize

\* All finished segments within reach; of the own lane also the blocks made
\* in this segment; never the block just before.
reference_area_size(s, i, same_lane) ==
    LET finished == IF s.pass = 0 THEN s.slice * SegmentLength
                                  ELSE LaneLength - SegmentLength
    IN (finished + (IF same_lane \/ (s.pass = 0 /\ s.slice = 0) THEN i - 1
                    ELSE IF i = 0 THEN -1 ELSE 0)) % WordSize

\* Squared and scaled down to 0..area-1, counted from the last block back.
relative_position(area, pseudo_rand) ==
    LET skewed == (pseudo_rand * pseudo_rand) \div WordSize
    IN (((area - 1) % WordSize) - ((area * skewed) \div WordSize))
          % (WordSize * WordSize)

\* Mutant of start_position: the window begins with the current slice.
start_position_early(s) == IF s.pass = 0 THEN 0 ELSE s.slice * SegmentLength

start_position(s) ==
    IF s.pass = 0 \/ s.slice = SyncPoints - 1 THEN 0
    ELSE (s.slice + 1) * SegmentLength

index_alpha(s, i, pseudo_rand, same_lane) ==
    (start_position(s)
       + relative_position(reference_area_size(s, i, same_lane), pseudo_rand))
       % LaneLength

-----------------------------------------------------------------------------
(* What index_alpha is for. *)

\* The blocks of a lane that are finished when block i of segment s is made,
\* without the one just before it: those of other segments (in pass 0, of
\* earlier ones), and those of this segment in this lane.
Finished(s, i, same_lane) ==
    {k \in 0..(LaneLength - 1) :
        /\ k # prev_offset(s, i)
        /\ \/ same_lane /\ s.slice * SegmentLength <= k /\ k < curr_offset(s, i)
           \/ k < s.slice * SegmentLength
           \/ s.pass > 0 /\ k >= (s.slice + 1) * SegmentLength}
=============================================================================
