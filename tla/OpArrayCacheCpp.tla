---------------------------- MODULE OpArrayCacheCpp ----------------------------
(***************************************************************************)
(* The lazyflow operator OpArrayCacheCpp                                   *)
(* (blockedarray/lazyflow_cpp/opArrayCacheCpp.py) on top of an Array b: a  *)
(* cache of its Input.  Requests for its Output run in threads; dirty      *)
(* notifications of the Input, setInSlot and the setting of slots run in   *)
(* others.  All of them take the operator's lock when they touch b, and a  *)
(* request keeps it while it waits for the blocks it asks the Input for.   *)
(*                                                                         *)
(* b is the array of BlockedArray with all options off.  The operator      *)
(* calls b.setDirty(start, stop, True).  The committed binding takes a     *)
(* tuple of slices and a bool and refuses the call, so that each           *)
(* setupOutputs ends with the lock in its hands (outcome "refused") and    *)
(* nothing after it runs.  The outcome "made" is that of a binding that    *)
(* takes the corners: only behind it the other actions, Mark among them,   *)
(* are possible, and setDirty is Array::setDirty.                          *)
(***************************************************************************)
EXTENDS BlockedArray, Sequences

CONSTANTS
    Shape,           \* Input.meta.shape
    Threads,         \* the threads that run a request, one each
    Wanted,          \* the regions they ask for
    Changes,         \* the regions in which the Input changes
    Given,           \* the regions given to setInSlot
    MaxChanges,      \* bound on the number of changes
    MaxCalls,        \* bound on the other calls: setupOutputs, settings, gifts
    Free, Setup      \* _lock is free; it is held by a setupOutputs that raised

VARIABLES
    Input,           \* the data upstream; change k leaves the value k + 1
    _lock,           \* its holder
    _fixed,          \* the value of fixAtCurrent
    setups,          \* the calls of setupOutputs that made a new array
    pc, roi,         \* per thread: where its request is, and its region
    reqs, got,       \* blocks that are still to be written, answers for blocks
    result,
    notices,         \* the calls of propagateDirty for the Input, in order
    gifts, settings, \* numbers of calls
    given,           \* history: the voxels last written by setInSlot
    missed,          \* history: the voxels whose mark Array does not report
    fetches, known   \* history: see execute

b       == <<blocks_, options, tables, status, vox>>
threads == <<pc, roi, reqs, got, result, fetches, known>>
counts  == <<setups, gifts, settings>>
history == <<given, missed>>
cacheVars == <<b, threads, counts, Input, _lock, _fixed, notices, history>>

InputVoxels  == Box(Origin, Shape)
MaxValue     == MaxChanges + 1
Whole(r)     == Box(r.p, r.q)
NoRoi        == [p |-> Origin, q |-> Origin]
Raised       == _lock = Setup \/ \E t \in Threads : pc[t] = "raised"

(* The blocks that r touches and does not cover, and voxels of them whose  *)
(* mark gets lost.  A change of a part of a clean block sets the slices it *)
(* covers and leaves isDirty_ alone, so that the block is not listed for a *)
(* refetch: MarkedIsListed is refuted.  In several dimensions the slices   *)
(* of one share slots with those of another, and a gift of a part may take *)
(* the mark off the rest: BlockStaysDirty is refuted.                      *)
Partly(r)     == {c \in BlocksInRange(r.p, r.q) : ~CoversBlock(c, r.p, r.q)}
Overlooked(r) == {v \in Whole(r) : LET c == blockGivenCoordinateP(v)
                                   IN  c \in Partly(r) \cap Stored /\ ~blocks_[c].isDirty_}
Shadowed(r)   == IF N = 1 THEN {}
                 ELSE {v \in InputVoxels \ Whole(r) : blockGivenCoordinateP(v) \in Partly(r)}

(* Constants fit together: regions lie in the image, its values in Value.  *)
ASSUME CacheAssumption ==
    /\ \A d \in Dim : Shape[d] \in 1 .. Extent[d] * BlockShape[d]
    /\ MaxChanges \in Nat /\ Value = 0 .. MaxChanges + 1
    /\ \A r \in Wanted \cup Changes \cup Given :
          r \in Rois /\ \A d \in Dim : r.q[d] <= Shape[d]
    /\ Free \notin Threads /\ Setup \notin Threads /\ Free # Setup

CacheInit ==
    /\ Init
    /\ Input = [v \in InputVoxels |-> 1]
    /\ _lock = Free /\ _fixed = FALSE /\ setups = 0
    /\ pc = [t \in Threads |-> "idle"] /\ roi = [t \in Threads |-> NoRoi]
    /\ reqs = [t \in Threads |-> {}] /\ got = [t \in Threads |-> Empty]
    /\ result = [t \in Threads |-> Empty]
    /\ notices = <<>> /\ gifts = 0 /\ settings = 0
    /\ given = {} /\ missed = {} /\ fetches = [t \in Threads |-> FALSE]
    /\ known = [t \in Threads |-> Empty]

------------------------------------------------------------------------------
(* setupOutputs with a new block shape.  With a type that has no           *)
(* BlockedArray class it raises before b is replaced; when b is a new,     *)
(* empty array, either its setDirty is refused, or it marks nothing,       *)
(* because no block is stored.  Who raises keeps the lock.                 *)
SetupOutcomes == {"unsupported", "refused", "made"}

setupOutputs(outcome) ==
    /\ _lock = Free /\ setups + settings + gifts < MaxCalls
    /\ setups' = setups + 1
    /\ _lock' = IF outcome = "made" THEN Free ELSE Setup
    /\ IF outcome = "unsupported"
       THEN UNCHANGED <<blocks_, vox, history>>
       ELSE blocks_' = Empty /\ vox' = [v \in Voxels |-> 0] /\ given' = {} /\ missed' = {}
    /\ UNCHANGED <<options, tables, status, threads, gifts, settings, Input, _fixed, notices>>

(* A new value of fixAtCurrent.  Nobody downstream is told.                *)
setFixAtCurrent(fix) ==
    /\ setups + settings + gifts < MaxCalls /\ settings' = settings + 1
    /\ _fixed # fix /\ _fixed' = fix
    /\ UNCHANGED <<b, threads, setups, gifts, Input, _lock, notices, history>>

setInSlot(r) ==
    /\ setups > 0 /\ _lock = Free /\ setups + settings + gifts < MaxCalls
    /\ writeSubarray(r.p, r.q, [v \in Box(Origin, Minus(r.q, r.p)) |-> 0])
    /\ gifts' = gifts + 1 /\ given' = given \cup Whole(r)
    /\ missed' = missed \cup Shadowed(r)
    /\ UNCHANGED <<threads, setups, settings, Input, _lock, _fixed, notices>>

------------------------------------------------------------------------------
(* propagateDirty for the Input, after its data has changed: mark the      *)
(* blocks under the lock, then tell those downstream, unless fixed.        *)

ChangeInput(r) ==
    /\ setups > 0 /\ Len(notices) < MaxChanges
    /\ Input' = [v \in InputVoxels |-> IF v \in Whole(r) THEN Len(notices) + 2 ELSE Input[v]]
    /\ notices' = Append(notices, [at |-> "mark", roi |-> r])
    /\ UNCHANGED <<b, threads, counts, _lock, _fixed, history>>

(* Mutant of Mark: b is not marked.                                        *)
MarkNothing(n) ==
    /\ notices[n].at = "mark" /\ _lock = Free
    /\ notices' = [notices EXCEPT ![n].at = "tell"]
    /\ UNCHANGED <<b, threads, counts, Input, _lock, _fixed, history>>

(* Mutant of Mark: the notification does not wait for the lock.            *)
MarkUnlocked(n) ==
    /\ notices[n].at = "mark"
    /\ setDirtySubarray(notices[n].roi.p, notices[n].roi.q, TRUE)
    /\ notices' = [notices EXCEPT ![n].at = "tell"]
    /\ missed' = missed \cup Overlooked(notices[n].roi)
    /\ UNCHANGED <<threads, counts, Input, _lock, _fixed, given>>

Mark(n) ==
    /\ notices[n].at = "mark" /\ _lock = Free
    /\ setDirtySubarray(notices[n].roi.p, notices[n].roi.q, TRUE)
    /\ notices' = [notices EXCEPT ![n].at = "tell"]
    /\ missed' = missed \cup Overlooked(notices[n].roi)
    /\ UNCHANGED <<threads, counts, Input, _lock, _fixed, given>>

(* Mutant of Tell: waits until the operator is not fixed.                  *)
TellUnfixed(n) ==
    /\ notices[n].at = "tell" /\ ~_fixed
    /\ notices' = [notices EXCEPT ![n].at = "told"]
    /\ UNCHANGED <<b, threads, counts, Input, _lock, _fixed, history>>

Tell(n) ==
    /\ notices[n].at = "tell"
    /\ notices' = [notices EXCEPT ![n].at = IF _fixed THEN "kept" ELSE "told"]
    /\ UNCHANGED <<b, threads, counts, Input, _lock, _fixed, history>>

------------------------------------------------------------------------------
(* _executeOutput.                                                         *)

(* For every voxel, the last change that downstream has been told of.      *)
Told == [v \in InputVoxels |->
            SetMax({0} \cup {n \in DOMAIN notices : /\ notices[n].at = "told"
                                                    /\ v \in Whole(notices[n].roi)})]

execute(t, r) ==
    /\ setups > 0 /\ pc[t] = "idle"
    /\ pc' = [pc EXCEPT ![t] = "acquire"] /\ roi' = [roi EXCEPT ![t] = r]
    /\ known' = [known EXCEPT ![t] = Told]
    /\ UNCHANGED <<b, counts, Input, _lock, _fixed, notices, history, reqs, got, result, fetches>>

(* Mutant of Acquire: lists the blocks that are not stored, too.           *)
AcquireAll(t) ==
    /\ pc[t] = "acquire" /\ _lock = Free
    /\ _lock' = t
    /\ pc' = [pc EXCEPT ![t] = "fill"]
    /\ reqs' = [reqs EXCEPT ![t] = IF _fixed THEN {} ELSE Grid]
    /\ fetches' = [fetches EXCEPT ![t] = ~_fixed]
    /\ UNCHANGED <<b, counts, Input, _fixed, notices, history, roi, got, result, known>>

(* Takes the lock, and lists the dirty blocks, of the whole array.         *)
Acquire(t) ==
    /\ pc[t] = "acquire" /\ _lock = Free
    /\ _lock' = t
    /\ pc' = [pc EXCEPT ![t] = "fill"]
    /\ reqs' = [reqs EXCEPT ![t] = IF _fixed THEN {} ELSE DirtyBlocks(roi[t].p, roi[t].q)]
    /\ fetches' = [fetches EXCEPT ![t] = ~_fixed]
    /\ UNCHANGED <<b, counts, Input, _fixed, notices, history, roi, got, result, known>>

(* The region of block c, cut to the shape.                                *)
Fetched(c) == [p |-> blockBounds(c).p,
               q |-> [d \in Dim |-> IF blockBounds(c).q[d] < Shape[d]
                                    THEN blockBounds(c).q[d] ELSE Shape[d]]]

(* Mutant of Answer: the Input needs the operator's lock to answer.        *)
AnswerUnderLock(t, c) ==
    /\ pc[t] = "fill" /\ c \in reqs[t] \ DOMAIN got[t] /\ _lock = Free
    /\ got' = [got EXCEPT ![t] = [e \in DOMAIN @ \cup {c} |-> Empty]]
    /\ UNCHANGED <<b, counts, Input, _lock, _fixed, notices, history,
                   pc, roi, reqs, result, fetches, known>>

(* The Input answers the request for block c, at any time.                 *)
Answer(t, c) ==
    /\ pc[t] = "fill" /\ c \in reqs[t] \ DOMAIN got[t]
    /\ LET f    == Fetched(c)
           data == [v \in Box(Origin, Minus(f.q, f.p)) |-> Input[Plus(f.p, v)]]
       IN  got' = [got EXCEPT ![t] = [e \in DOMAIN @ \cup {c} |->
                                         IF e = c THEN data ELSE @[e]]]
    /\ UNCHANGED <<b, counts, Input, _lock, _fixed, notices, history,
                   pc, roi, reqs, result, fetches, known>>

(* It fails instead: wait() raises, and nothing gives the lock back.       *)
AnswerFails(t) ==
    /\ pc[t] = "fill" /\ reqs[t] \ DOMAIN got[t] # {}
    /\ pc' = [pc EXCEPT ![t] = "raised"]
    /\ UNCHANGED <<b, counts, Input, _lock, _fixed, notices, history,
                   roi, reqs, got, result, fetches, known>>

(* Once all have been answered, the blocks are written one by one.         *)
WriteBack(t) ==
    /\ pc[t] = "fill" /\ reqs[t] # {} /\ reqs[t] \subseteq DOMAIN got[t]
    /\ LET c == CHOOSE e \in reqs[t] : \A f \in reqs[t] \ {e} : Before(e, f)
           f == Fetched(c)
       IN  /\ writeSubarray(f.p, f.q, got[t][c])
           /\ reqs' = [reqs EXCEPT ![t] = @ \ {c}]
           /\ given' = given \ Whole(f) /\ missed' = missed \ Whole(f)
    /\ UNCHANGED <<counts, Input, _lock, _fixed, notices, pc, roi, got, result, fetches, known>>

(* The voxels of r that result takes from stored blocks and from the Input,*)
(* but for those with a mark that got lost.                                *)
Cached(r) == {v \in Whole(r) \ (given \cup missed) : blockGivenCoordinateP(v) \in Stored}

(* Mutant of Return: the lock is kept.                                     *)
ReturnLocked(t) ==
    /\ pc[t] = "fill" /\ reqs[t] = {}
    /\ result' = [result EXCEPT ![t] = ReadSubarray(roi[t].p, roi[t].q)]
    /\ known' = [known EXCEPT ![t] = [v \in Cached(roi[t]) |-> @[v]]]
    /\ pc' = [pc EXCEPT ![t] = "done"]
    /\ got' = [got EXCEPT ![t] = Empty]
    /\ UNCHANGED <<b, counts, Input, _lock, _fixed, notices, history, roi, reqs, fetches>>

Return(t) ==
    /\ pc[t] = "fill" /\ reqs[t] = {}
    /\ result' = [result EXCEPT ![t] = ReadSubarray(roi[t].p, roi[t].q)]
    /\ known' = [known EXCEPT ![t] = [v \in Cached(roi[t]) |-> @[v]]]
    /\ pc' = [pc EXCEPT ![t] = "done"] /\ _lock' = Free
    /\ got' = [got EXCEPT ![t] = Empty]
    /\ UNCHANGED <<b, counts, Input, _fixed, notices, history, roi, reqs, fetches>>

------------------------------------------------------------------------------
Request(t) ==
    \/ Acquire(t)
    \/ \E c \in Grid : Answer(t, c)
    \/ WriteBack(t)
    \/ Return(t)

Notify(n) == Mark(n) \/ Tell(n)

CacheNext ==
    \/ \E outcome \in SetupOutcomes : setupOutputs(outcome)
    \/ \E fix \in BOOLEAN : setFixAtCurrent(fix)
    \/ \E r \in Given : setInSlot(r)
    \/ \E r \in Changes : ChangeInput(r)
    \/ \E n \in DOMAIN notices : Notify(n)
    \/ \E t \in Threads : Request(t) \/ AnswerFails(t) \/ \E r \in Wanted : execute(t, r)

(* Threads that are not blocked go on, and the Input answers in the end.   *)
(* Locks of Python promise no order, but the requests are bounded, so that *)
(* weak fairness is enough to get the lock.                                *)
Fairness ==
    /\ \A t \in Threads : WF_cacheVars(Request(t))
    /\ \A n \in 1 .. MaxChanges : WF_cacheVars(n \in DOMAIN notices /\ Notify(n))

CacheSpec == CacheInit /\ [][CacheNext]_cacheVars /\ Fairness

------------------------------------------------------------------------------
(* Shape of the state.  The array of this component never leaves "ok".     *)
CacheTypeOK ==
    /\ Stored \subseteq Grid /\ blocks_ \in [Stored -> Block] /\ status = "ok"
    /\ Input \in [InputVoxels -> 1 .. MaxValue]
    /\ _lock \in Threads \cup {Free, Setup} /\ _fixed \in BOOLEAN
    /\ pc \in [Threads -> {"idle", "acquire", "fill", "raised", "done"}]
    /\ \A t \in Threads :
          /\ reqs[t] \subseteq Stored /\ DOMAIN got[t] \subseteq Grid
          /\ DOMAIN known[t] \subseteq InputVoxels
          /\ \A v \in DOMAIN known[t] : known[t][v] \in 0 .. MaxChanges
    /\ given \subseteq InputVoxels /\ missed \subseteq InputVoxels
    /\ \A n \in DOMAIN notices : notices[n].at \in {"mark", "tell", "told", "kept"}

(* At most one request is between taking the lock and giving it back, and  *)
(* it holds the lock, also when the Input fails it; no other part of the   *)
(* operator ends while it holds the lock except by raising.                *)
LockHeld ==
    \A t \in Threads : pc[t] \in {"fill", "raised"} <=> _lock = t

(* A clean block holds the current Input, unless setInSlot wrote it or the *)
(* notification is still to come: a change that arrives while a request    *)
(* waits for older data is never lost.  The one exception is a voxel that  *)
(* a change of a part of a clean block overlooks (missed), and only until  *)
(* the block is written back.                                              *)
CleanIsCurrent ==
    \A v \in InputVoxels \ (given \cup missed) :
        LET c == blockGivenCoordinateP(v)
        IN  \/ c \notin Stored \/ blocks_[c].isDirty_
            \/ \E n \in DOMAIN notices : notices[n].at = "mark" /\ v \in Whole(notices[n].roi)
            \/ At(v) = Input[v]

(* A request that is not answered from the fixed state returns data that   *)
(* is no older than the last change downstream had been told of when it    *)
(* was made: "Same request, but should need to access the data again due   *)
(* to dirtiness" (testOpArrayCacheCpp.py).  Given and missed voxels are    *)
(* left out, as above.                                                     *)
NoOlderThanTold ==
    \A t \in Threads : pc[t] = "done" /\ fetches[t] =>
        \A v \in DOMAIN known[t] : result[t][Minus(v, roi[t].p)] > known[t][v]

PassedOn(n) == n \in DOMAIN notices /\ notices[n].at \in {"told", "kept"}

(* Every request ends, and every change is passed on or kept back: waiting *)
(* with the lock in hand stops nobody forever, unless one of the lock's    *)
(* holders has raised.                                                     *)
RequestsEnd ==
    \A t \in Threads : pc[t] = "acquire" ~> pc[t] = "done" \/ Raised

ChangesPassedOn ==
    \A n \in 1 .. MaxChanges :
        n \in DOMAIN notices ~> Raised \/ PassedOn(n)
==============================================================================
