---------------------------- MODULE SegmentOrder ----------------------------
(***************************************************************************)
(* What filling the matrix promises about its schedule: the segments of a   *)
(* slice are filled in any order, also side by side, but no segment begins  *)
(* before every earlier slice is complete, and each is filled once.  The    *)
(* blocks a segment reads are then the same in every schedule.              *)
(***************************************************************************)
EXTENDS Naturals

CONSTANT Segments     \* records with pass, slice and lane

VARIABLES filling, filled      \* sets of segments

Earlier(s, t) == \/ s.pass < t.pass
                 \/ s.pass = t.pass /\ s.slice < t.slice

Init == filling = {} /\ filled = {}

Begin(s) ==
    /\ s \notin filling \cup filled
    /\ \A t \in Segments : Earlier(t, s) => t \in filled
    /\ filling' = filling \cup {s}
    /\ UNCHANGED filled

Complete(s) ==
    /\ s \in filling
    /\ filling' = filling \ {s}
    /\ filled' = filled \cup {s}

Next == \E s \in Segments : Begin(s) \/ Complete(s)

Spec == Init /\ [][Next]_<<filling, filled>>
=============================================================================
