------------------------------- MODULE Argon2 -------------------------------
(***************************************************************************)
(* argon2_ctx behind its input checks: the matrix is allocated, filled      *)
(* slice by slice by as many threads as there are lanes or as are allowed,  *)
(* and finalized.  The main thread runs fill_memory_blocks, every other     *)
(* thread fill_segment_thr; between two points where threads meet (thread   *)
(* creation, start, block, exit, join) a thread runs alone and its steps    *)
(* are one action.  Of a block the model keeps how often it was written.    *)
(***************************************************************************)
EXTENDS Argon2Index, FiniteSets

CONSTANTS Threads,          \* context->threads, the threads allowed
          PseudoRands,      \* the words a block may hold
          MayFail           \* what may run out: a subset of {"memory", "threads"}

ASSUME ThreadsAssumption ==
    Threads \in Nat \ {0} /\ PseudoRands \subseteq 0..(WordSize - 1)

VARIABLES
    pc,          \* where the main thread is
    at,          \* its r, s and l: the segment in hand
    joining,     \* the lane it joins next in the joining loops
    rc,          \* what argon2_ctx returns
    matrix,      \* instance.memory: "none", "in use" or "wiped" (and freed)
    memory,      \* how often each block was written
    handle,      \* thread[l]: the thread it denotes
    joined,      \* threads that were joined: their handles are dead
    thr_data,    \* thr_data[l]: the segment it holds
    threads      \* every thread there may be, by what it was created for

mainVars   == <<pc, at, joining, rc>>
arrayVars  == <<handle, thr_data>>
vars == <<mainVars, matrix, memory, arrayVars, joined, threads>>

\* No thread, or an array that is not allocated.
None == <<>>

Blocks == LaneIds \X (0..(LaneLength - 1))

\* Mutant of ThreadLimit: one thread fewer.
OneThreadFewer == Lanes - 1

\* argon2_ctx lowers threads to lanes.
ThreadLimit == IF Threads > Lanes THEN Lanes ELSE Threads

FirstSegment == [pass |-> 0, slice |-> 0, lane |-> 0]

\* Mutant of LastSlice: one slice more.
LastSliceMissed(s) == s.pass = Passes - 1 /\ s.slice = SyncPoints

LastSlice(s) == s.pass = Passes - 1 /\ s.slice = SyncPoints - 1

\* The first segment of the next slice.
NextSlice(s) ==
    IF s.slice < SyncPoints - 1
    THEN [pass |-> s.pass, slice |-> s.slice + 1, lane |-> 0]
    ELSE [pass |-> s.pass + 1, slice |-> 0, lane |-> 0]

NotCreated == [state |-> "none", segment |-> None, index |-> 0, ref |-> None]
Filling(s) == [state |-> "filling", segment |-> s,
               index |-> starting_index(s), ref |-> None]

Running(t) == threads[t].state \in {"created", "filling"}

Init ==
    /\ pc = "initialize" /\ at = FirstSegment /\ joining = 0 /\ rc = "none"
    /\ matrix = "none"
    /\ memory = [b \in Blocks |-> 0]
    /\ handle = None /\ thr_data = None /\ joined = {}
    /\ threads = [t \in Segments |-> NotCreated]

-----------------------------------------------------------------------------
(* argon2_ctx: initialize, fill_memory_blocks, finalize. *)

Return(code) == pc' = "returned" /\ rc' = code

initialize ==
    /\ pc = "initialize"
    /\ pc' = IF ThreadLimit = 1 THEN "fill_st" ELSE "calloc"
    /\ matrix' = "in use"
    /\ memory' = [b \in Blocks |-> IF b[2] \in {0, 1} THEN 1 ELSE 0]
    /\ UNCHANGED <<at, joining, rc, arrayVars, joined, threads>>

initializeFails ==
    /\ pc = "initialize" /\ "memory" \in MayFail
    /\ Return("memory")
    /\ UNCHANGED <<at, joining, matrix, memory, arrayVars, joined, threads>>

\* Filling failed: argon2_ctx returns at once.
fillFails(code) ==
    /\ Return(code)
    /\ handle' = None /\ thr_data' = None
    /\ UNCHANGED matrix

\* The last block of every lane is hashed; the matrix is wiped and freed.
finalize ==
    /\ pc = "finalize"
    /\ Return("ok")
    /\ matrix' = "wiped"
    /\ UNCHANGED <<at, joining, memory, arrayVars, joined, threads>>

-----------------------------------------------------------------------------
(* fill_memory_blocks_st: the main thread fills one segment after another.  *)

fillSegment ==
    /\ pc = "fill_st" /\ threads[at].state = "none"
    /\ threads' = [threads EXCEPT ![at] = Filling(at)]
    /\ UNCHANGED <<mainVars, matrix, memory, arrayVars, joined>>

segmentFilled ==
    /\ pc = "fill_st" /\ threads[at].state = "exited"
    /\ IF at.lane < Lanes - 1
       THEN at' = [at EXCEPT !.lane = @ + 1] /\ UNCHANGED pc
       ELSE IF LastSlice(at) THEN pc' = "finalize" /\ UNCHANGED at
       ELSE at' = NextSlice(at) /\ UNCHANGED pc
    /\ UNCHANGED <<joining, rc, matrix, memory, arrayVars, joined, threads>>

-----------------------------------------------------------------------------
(* fill_memory_blocks_mt. *)

\* Mutant of beforeLane: room is made one lane too late.
beforeLaneLate(l) == IF l > ThreadLimit THEN "room" ELSE "create"

\* The step before lane l: room is made when ThreadLimit threads run.
beforeLane(l) == IF l >= ThreadLimit THEN "room" ELSE "create"

allocate ==
    /\ pc = "calloc"
    /\ pc' = beforeLane(0)
    /\ handle' = [l \in LaneIds |-> None]
    /\ thr_data' = [l \in LaneIds |-> None]
    /\ UNCHANGED <<at, joining, rc, matrix, memory, joined, threads>>

allocateFails ==
    /\ pc = "calloc" /\ "memory" \in MayFail
    /\ fillFails("memory")
    /\ UNCHANGED <<at, joining, memory, joined, threads>>

\* Mutant of join: it does not wait.
joinAtOnce(l) == joined' = joined \cup {handle[l]}

\* pthread_join returns when the thread has exited.  To join a thread twice
\* is undefined; here the call then returns at once.
join(l) ==
    /\ \/ handle[l] \in joined
       \/ threads[handle[l]].state = "exited"
    /\ joined' = joined \cup {handle[l]}

makeRoom ==
    /\ pc = "room"
    /\ join(at.lane - ThreadLimit)
    /\ pc' = "create"
    /\ UNCHANGED <<at, joining, rc, matrix, memory, arrayVars, threads>>

\* The inputs of the thread are written before it is created.
create ==
    /\ pc = "create"
    /\ thr_data' = [thr_data EXCEPT ![at.lane] = at]
    /\ handle' = [handle EXCEPT ![at.lane] = at]
    /\ threads' = [threads EXCEPT ![at].state = "created"]
    /\ IF at.lane < Lanes - 1
       THEN /\ at' = [at EXCEPT !.lane = @ + 1]
            /\ pc' = beforeLane(at.lane + 1)
            /\ UNCHANGED joining
       ELSE pc' = "join" /\ joining' = Lanes - ThreadLimit /\ UNCHANGED at
    /\ UNCHANGED <<rc, matrix, memory, joined>>

\* thread[l] is left as pthread_create leaves it; it is not used again.
createFails ==
    /\ pc = "create" /\ "threads" \in MayFail
    /\ thr_data' = [thr_data EXCEPT ![at.lane] = at]
    /\ pc' = "abandon" /\ joining' = 0
    /\ UNCHANGED <<at, rc, matrix, memory, handle, joined, threads>>

\* Mutant of abandon: the threads that run are not waited for.
abandonAtOnce ==
    /\ pc = "abandon"
    /\ fillFails("threads") /\ UNCHANGED <<joining, joined>>
    /\ UNCHANGED <<at, memory, threads>>

\* Every thread of this slice is joined, whether it was joined before or not.
abandon ==
    /\ pc = "abandon"
    /\ IF joining < at.lane
       THEN /\ join(joining) /\ joining' = joining + 1
            /\ UNCHANGED <<pc, rc, matrix, arrayVars>>
       ELSE fillFails("threads") /\ UNCHANGED <<joining, joined>>
    /\ UNCHANGED <<at, memory, threads>>

\* Behind the last lane the slice is complete: the next one begins, or the
\* arrays are freed and filling is done.
joinRemaining ==
    /\ pc = "join"
    /\ join(joining)
    /\ joining' = joining + 1
    /\ IF joining < Lanes - 1 THEN UNCHANGED <<pc, at, arrayVars>>
       ELSE IF LastSlice(at)
         THEN /\ pc' = "finalize" /\ handle' = None /\ thr_data' = None
              /\ UNCHANGED at
       ELSE /\ at' = NextSlice(at) /\ pc' = beforeLane(0)
            /\ UNCHANGED arrayVars
    /\ UNCHANGED <<rc, matrix, memory, threads>>

-----------------------------------------------------------------------------
(* fill_segment in thread t. *)

\* The thread reads its inputs: what thr_data[lane] holds by now.
start(t) ==
    /\ threads[t].state = "created" /\ thr_data # None
    /\ threads' = [threads EXCEPT ![t] = Filling(thr_data[t.lane])]
    /\ UNCHANGED <<mainVars, matrix, memory, arrayVars, joined>>

Lane(t)     == threads[t].segment.lane
Current(t)  == <<Lane(t), curr_offset(threads[t].segment, threads[t].index)>>
Previous(t) == <<Lane(t), prev_offset(threads[t].segment, threads[t].index)>>

\* The previous block (or an address block made from the position) holds the
\* word that selects lane and block; in the first slice the lane is its own.
beginBlock(t) ==
    /\ threads[t].state = "filling" /\ threads[t].ref = None
    /\ threads[t].index < SegmentLength
    /\ LET s == threads[t].segment IN
       \E pseudo_rand \in PseudoRands, word \in LaneIds :
          LET ref_lane == IF s.pass = 0 /\ s.slice = 0 THEN s.lane ELSE word
          IN threads' = [threads EXCEPT ![t].ref =
                 <<ref_lane, index_alpha(s, threads[t].index, pseudo_rand,
                                         ref_lane = s.lane)>>]
    /\ UNCHANGED <<mainVars, matrix, memory, arrayVars, joined>>

\* fill_block: the first pass overwrites, the later ones XOR.
endBlock(t) ==
    /\ threads[t].state = "filling" /\ threads[t].ref # None
    /\ memory' = [memory EXCEPT ![Current(t)] =
                     IF threads[t].segment.pass = 0 THEN 1 ELSE @ + 1]
    /\ threads' = [threads EXCEPT ![t].ref = None, ![t].index = @ + 1]
    /\ UNCHANGED <<mainVars, matrix, arrayVars, joined>>

\* Mutant of exit: a thread waits until every lane of the slice has its own.
exitAtBarrier(t) ==
    /\ threads[t].state = "filling" /\ threads[t].ref = None
    /\ threads[t].index >= SegmentLength
    /\ \A l \in LaneIds : threads[[t EXCEPT !.lane = l]].state # "none"
    /\ threads' = [threads EXCEPT ![t].state = "exited"]
    /\ UNCHANGED <<mainVars, matrix, memory, arrayVars, joined>>

exit(t) ==
    /\ threads[t].state = "filling" /\ threads[t].ref = None
    /\ threads[t].index >= SegmentLength
    /\ threads' = [threads EXCEPT ![t].state = "exited"]
    /\ UNCHANGED <<mainVars, matrix, memory, arrayVars, joined>>

-----------------------------------------------------------------------------
main ==
    \/ initialize \/ initializeFails \/ finalize
    \/ fillSegment \/ segmentFilled
    \/ allocate \/ allocateFails \/ makeRoom \/ create \/ createFails
    \/ abandon \/ joinRemaining

fill_segment(t) == start(t) \/ beginBlock(t) \/ endBlock(t) \/ exit(t)

\* argon2_ctx has returned: nothing is left to do.
done ==
    /\ pc = "returned" /\ \A t \in Segments : ~ Running(t)
    /\ UNCHANGED vars

Next == main \/ done \/ \E t \in Segments : fill_segment(t)

\* The system runs every thread that can run.
Fairness == WF_vars(main) /\ \A t \in Segments : WF_vars(fill_segment(t))

Spec == Init /\ [][Next]_vars /\ Fairness

-----------------------------------------------------------------------------
(* Properties. *)

TypeOK ==
    /\ pc \in {"initialize", "calloc", "room", "create", "join", "abandon",
               "fill_st", "finalize", "returned"}
    /\ at \in Segments /\ joining \in 0..Lanes
    /\ rc \in {"none", "ok", "memory", "threads"}
    /\ matrix \in {"none", "in use", "wiped"}
    /\ memory \in [Blocks -> 0..Passes]
    /\ joined \subseteq Segments
    /\ handle = None <=> thr_data = None

\* Threads that are at a block.
Busy == {t \in Segments : threads[t].ref # None}

\* Threads share the matrix without locks (core.c, fill_segment_thr): nobody
\* reads or writes a block that another thread is writing.
NoDataRace ==
    \A t, u \in Busy :
        t # u => Current(t) \notin {Current(u), Previous(u), threads[u].ref}

\* index_alpha refers to blocks that are finished in every schedule, whatever
\* the pseudo-random word, and never to the previous block.
ReferenceIsFinished ==
    \A t \in Busy :
        LET s == threads[t].segment  ref == threads[t].ref IN
        ref[2] \in Finished(s, threads[t].index, ref[1] = s.lane)

\* Every block read is as old as in the single-threaded order: those before
\* the current one in the lane, or in an earlier slice, were made in this
\* pass, the others in the one before.  So the key does not depend on the
\* schedule, and a bundle opens on every device.
Age(t, b) ==
    LET s == threads[t].segment IN
    IF \/ b[2] < s.slice * SegmentLength
       \/ b[1] = s.lane /\ b[2] < curr_offset(s, threads[t].index)
    THEN s.pass + 1 ELSE s.pass

ReadsMatchSequential ==
    \A t \in Busy :
        /\ memory[Previous(t)] = Age(t, Previous(t))
        /\ memory[threads[t].ref] = Age(t, threads[t].ref)
        /\ memory[Current(t)] = threads[t].segment.pass

\* argon2.h:210, "maximum number of threads".
AtMostThreads == Cardinality({t \in Segments : Running(t)}) <= ThreadLimit

\* While a thread has not read its inputs, thr_data holds them, not those of
\* a later slice, and is not freed.
ThreadReadsItsOwnData ==
    \A t \in Segments :
        /\ threads[t].state = "created" =>
              thr_data # None /\ thr_data[t.lane] = t
        /\ threads[t].state \in {"filling", "exited"} =>
              threads[t].segment = t

\* When filling is over, in success or failure, no thread is left at the
\* matrix and none still needs its inputs.
NoThreadOutlivesFill ==
    pc \in {"finalize", "returned"} => \A t \in Segments : ~ Running(t)

\* A tag is made only of a matrix whose every block was written in every pass.
TagOfFullMatrix ==
    rc = "ok" => \A b \in Blocks : memory[b] = Passes

\* The threads fill the matrix in an order SegmentOrder allows.
FilledBy(state) ==
    {threads[t].segment : t \in {u \in Segments : threads[u].state = state}}

Order == INSTANCE SegmentOrder
            WITH filling <- FilledBy("filling"), filled <- FilledBy("exited")

SegmentsInOrder == Order!Spec

\* argon2_ctx returns, whatever fails and however the threads are scheduled.
Returns == <>(pc = "returned")

\* core.c:338, "Wait for already running threads": a join waits for a thread
\* that was created and not yet joined, or the outcome is undefined.
Target == CASE pc = "room"    -> {at.lane - ThreadLimit}
            [] pc = "abandon" -> {joining} \cap 0..(at.lane - 1)
            [] pc = "join"    -> {joining}
            [] OTHER          -> {}

JoinsEachThreadOnce == \A l \in Target : handle[l] \notin joined

\* core.c:147, the memory clear flag defaults to true: the matrix, which is
\* made from the password, is wiped when argon2_ctx returns.
InternalMemoryWiped == pc = "returned" => matrix # "in use"
=============================================================================
