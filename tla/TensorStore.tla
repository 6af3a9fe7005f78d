----------------------------- MODULE TensorStore -----------------------------
(***************************************************************************)
(* The SDK's tensor table (python/trainpool_torch/store.py) under the      *)
(* threads that use it: the training thread, the lease renewal and, in     *)
(* PrefetchSpec, the worker of SequentialPrefetch; and the transaction of  *)
(* CapacityOptimizer.step (sequential.py), for one weight without          *)
(* optimizer state at a time.                                              *)
(*                                                                         *)
(* A tensor's value is in VRAM, or in blocks of the pool, in order.  The   *)
(* table lock protects the block lists.  Eviction, which moves residents   *)
(* out, chooses its victims and clears their residency without it, and     *)
(* transfers run outside it but for those of prepare_transient.            *)
(*                                                                         *)
(* Tensors have the size 1 and Parts blocks each.  What the policy prefers *)
(* and how much room the CUDA allocator has is left open.                  *)
(***************************************************************************)
EXTENDS Integers, FiniteSets, SequencesExt

CONSTANTS
    Tensor,    \* bound: the handles that exist at one time
    Initial,   \* those of them that are the model's weights at the start
    Main,      \* the training thread
    Prefetch,  \* the prefetch worker, or no thread (prefetch_depth)
    Parts,     \* blocks per tensor
    Capacity,  \* tensors that fit in the VRAM budget
    Id,        \* bound: block ids in use at one time
    None       \* no tensor

Thread == {Main} \cup Prefetch

(* The pool has room for the weights at the start. *)
ASSUME ConstantsAssumption ==
    /\ IsFiniteSet(Tensor) /\ Initial \subseteq Tensor /\ None \notin Tensor
    /\ Main \notin Prefetch
    /\ Parts \in Nat \ {0} /\ Capacity \in Nat
    /\ \E at \in [Initial \X (1..Parts) -> Id] : IsInjective(at)

VARIABLES
    handle,    \* handle[x]: the TensorHandle x
    live,      \* the blocks that the pool holds
    resident,  \* _resident_bytes
    leaseError, \* the renewal thread has given up
    thread,    \* thread[t]: what thread t is doing
    weights,   \* the handles of the model's current weights
    stage      \* where the optimizer transaction is, and its new handle

vars == <<handle, live, resident, leaseError, thread, weights, stage>>

(* renewed: the dict is not the one put_chunks returned.  stray (history): *)
(* the undo of its own write left it on the list, not recognising it.      *)
Block == [id : Id, part : 1..Parts, renewed : BOOLEAN, stray : BOOLEAN]

Handle == [listed : BOOLEAN, res : BOOLEAN, dirty : BOOLEAN,
           blocks : Seq(Block)]
NoHandle ==
    [listed |-> FALSE, res |-> FALSE, dirty |-> FALSE, blocks |-> <<>>]

Op == {"none", "offload", "publish", "restore", "transient", "prepare"}
Step == {"idle", "room", "evict", "write", "undo", "retain", "read",
         "promote", "error"}
ThreadState == [op : Op, x : Tensor \cup {None}, pc : Step,
                todo : SUBSET Tensor, tgt : Tensor \cup {None},
                news : Seq(Block)]
IdleThread == [op |-> "none", x |-> None, pc |-> "idle", todo |-> {},
               tgt |-> None, news |-> <<>>]

Ids(blocks) == {b.id : b \in ToSet(blocks)}
Used == live \cup UNION {Ids(handle[x].blocks) : x \in Tensor}
             \cup UNION {Ids(thread[t].news) : t \in Thread}

IsIdle(t) == thread[t].pc = "idle"

(* The handles that t has a reference to. *)
Holds(t) == {thread[t].x, thread[t].tgt} \cup thread[t].todo

(* prepare_transient keeps the lock while it writes. *)
LockTaken == \E t \in Thread : thread[t].op = "prepare"

(* An operation of t returns, or raises. *)
Return(t) == thread' = [thread EXCEPT ![t] = IdleThread]
Raise(t) == thread' = [thread EXCEPT ![t].pc = "error"]

Goto(t, step) == thread' = [thread EXCEPT ![t].pc = step]
WriteTo(t, x) == thread' = [thread EXCEPT ![t].pc = "write", ![t].tgt = x,
                                          ![t].news = <<>>]

Listed == {x \in Tensor : handle[x].listed}

(* _resident_candidates: those no thread is writing out. *)
Clean == {x \in Listed : handle[x].res /\ ~handle[x].dirty}

-----------------------------------------------------------------------------
(* offload *)

Begin(t, op, x, step) ==
    thread' = [thread EXCEPT ![t] = [IdleThread EXCEPT !.op = op, !.x = x,
                                       !.pc = step,
                                       !.tgt = IF step = "write" THEN x
                                                                 ELSE None]]

(* The new handle is in the table, dirty, before anything is written.  A   *)
(* transactional_offload ("publish") goes to RAM directly.                 *)
Offload(t, op, x) ==
    /\ IsIdle(t) /\ ~leaseError
    /\ ~handle[x].listed /\ \A u \in Thread : x \notin Holds(u)
    /\ handle' = [handle EXCEPT ![x] = [NoHandle EXCEPT !.listed = TRUE,
                                                        !.dirty = TRUE]]
    /\ Begin(t, op, x, IF op = "offload" THEN "room" ELSE "write")
    /\ UNCHANGED <<live, resident, leaseError, weights>>

(* One more tensor is within the budget; the mutant takes one too many. *)
FitsMutant == resident <= Capacity
Fits == resident + 1 <= Capacity

(* _try_retain: there is room, or enough residents are to make it (the     *)
(* device may have less room than the budget), or the incoming tensor is   *)
(* not worth it.                                                           *)
MakeRoom(t) ==
    /\ thread[t].pc = "room" /\ thread[t].op = "offload"
    /\ \/ Fits /\ Goto(t, "retain")
       \/ \E v \in SUBSET Clean :
            /\ v # {} /\ Cardinality(v) >= resident + 1 - Capacity
            /\ thread' = [thread EXCEPT ![t].pc = "evict", ![t].todo = v]
       \/ WriteTo(t, thread[t].x)
    /\ UNCHANGED <<handle, live, resident, leaseError, weights, stage>>

(* The value becomes resident, unless the allocator has no room after all. *)
Retain(t) ==
    /\ thread[t].pc = "retain"
    /\ LET x == thread[t].x IN
       \/ /\ handle' = [handle EXCEPT ![x].res = TRUE, ![x].dirty = FALSE]
          /\ resident' = resident + 1
          /\ Return(t)
       \/ WriteTo(t, x) /\ UNCHANGED <<handle, resident>>
    /\ UNCHANGED <<live, leaseError, weights, stage>>

-----------------------------------------------------------------------------
(* _spill and _write_backing *)

(* The next victim is looked up.  It may have left the table, which raises *)
(* a KeyError, or VRAM.                                                    *)
EvictNext(t) ==
    /\ thread[t].pc = "evict"
    /\ \E v \in thread[t].todo :
         /\ thread' = [thread EXCEPT
              ![t].todo = @ \ {v},
              ![t].pc = IF ~handle[v].listed THEN "error"
                        ELSE IF handle[v].res THEN "write" ELSE "evict",
              ![t].tgt = v, ![t].news = <<>>]
         /\ handle' = [handle EXCEPT ![v].dirty =
                                       @ \/ (handle[v].listed /\ handle[v].res)]
    /\ UNCHANGED <<live, resident, leaseError, weights, stage>>

(* All victims are out: offload retains its value, restore looks again. *)
Evicted(t) ==
    /\ thread[t].pc = "evict"
    /\ thread[t].todo = {}
    /\ Goto(t, IF thread[t].op = "offload" THEN "retain" ELSE "room")
    /\ UNCHANGED <<handle, live, resident, leaseError, weights, stage>>

(* One more block is committed and appended to the handle. *)
PutBlock(t) ==
    /\ thread[t].pc = "write"
    /\ Len(thread[t].news) < Parts
    /\ Id \ Used # {}
    /\ LET b == [id |-> CHOOSE i \in Id \ Used : TRUE,
                 part |-> Len(thread[t].news) + 1, renewed |-> FALSE,
                 stray |-> FALSE]
       IN  /\ live' = live \cup {b.id}
           /\ thread' = [thread EXCEPT ![t].news = Append(@, b)]
           /\ handle' = [handle EXCEPT ![thread[t].tgt].blocks = Append(@, b)]
    /\ UNCHANGED <<resident, leaseError, weights, stage>>

(* t writes a resident out, not the value of its own new handle. *)
Spills(t) == thread[t].op \notin {"offload", "publish"}
               \/ thread[t].tgt # thread[t].x

(* A block cannot be had: those already written are freed, as far as the   *)
(* pool answers.                                                           *)
PutFails(t) ==
    /\ thread[t].pc = "write"
    /\ Len(thread[t].news) < Parts
    /\ \E gone \in SUBSET Ids(thread[t].news) : live' = live \ gone
    /\ Goto(t, "undo")
    /\ UNCHANGED <<handle, resident, leaseError, weights, stage>>

(* The entries of list s that are not among gone, in their order. *)
Without(s, gone) ==
    LET kept == {i \in DOMAIN s : s[i] \notin gone}
        rank(i) == Cardinality({j \in kept : j <= i})
    IN  [k \in 1..Cardinality(kept) |-> s[CHOOSE i \in kept : rank(i) = k]]

(* The renewed blocks of a failed write that are still on list s. *)
MarkStray(s, ids) ==
    [i \in DOMAIN s |->
        [s[i] EXCEPT !.stray = @ \/ (s[i].renewed /\ s[i].id \in ids)]]

(* They are taken off the list, where a dict that has been renewed since   *)
(* is not recognised.                                                      *)
Undo(t) ==
    /\ thread[t].pc = "undo"
    /\ handle' = [handle EXCEPT
         ![thread[t].tgt].blocks =
            MarkStray(Without(@, ToSet(thread[t].news)), Ids(thread[t].news)),
         ![thread[t].tgt].dirty = @ /\ ~Spills(t)]
    /\ Raise(t)
    /\ UNCHANGED <<live, resident, leaseError, weights, stage>>

(* The residency ends with the last block written; the mutant ends it as   *)
(* soon as the last one is requested.                                      *)
AllWrittenMutant(t) == Len(thread[t].news) >= Parts - 1
AllWritten(t) == Len(thread[t].news) = Parts

Written(t) ==
    /\ thread[t].pc = "write"
    /\ AllWritten(t)
    /\ LET x == thread[t].tgt IN
       /\ handle' = [handle EXCEPT ![x].dirty = FALSE,
                                   ![x].res = @ /\ ~Spills(t)]
       /\ resident' = IF Spills(t) THEN resident - 1 ELSE resident
    /\ IF Spills(t) /\ thread[t].op # "prepare" THEN Goto(t, "evict")
                                                 ELSE Return(t)
    /\ UNCHANGED <<live, leaseError, weights, stage>>

-----------------------------------------------------------------------------
(* restore *)

(* A resident is copied at once; a dirty one is refused. *)
Restore(t, op, x) ==
    /\ IsIdle(t) /\ ~leaseError
    /\ handle[x].listed
    /\ Begin(t, op, x, IF handle[x].dirty THEN "error" ELSE "room")
    /\ handle[x].dirty \/ ~handle[x].res
    /\ UNCHANGED <<handle, live, resident, leaseError, weights, stage>>

(* ensure_cuda_capacity, without the lock: there is room, or residents are *)
(* evicted, or there are too few of them.                                  *)
EnsureCapacity(t) ==
    /\ thread[t].pc = "room" /\ thread[t].op \in {"restore", "transient"}
    /\ \/ Goto(t, "read")
       \/ \E v \in SUBSET (Clean \ {thread[t].x}) :
            /\ v # {}
            /\ thread' = [thread EXCEPT ![t].pc = "evict", ![t].todo = v]
       \/ Raise(t)
    /\ UNCHANGED <<handle, live, resident, leaseError, weights, stage>>

(* The listed blocks are the whole value, once. *)
Readable(x) ==
    /\ Ids(handle[x].blocks) \subseteq live
    /\ [i \in DOMAIN handle[x].blocks |-> handle[x].blocks[i].part]
         = [i \in 1..Parts |-> i]

ReadBlocks(t) ==
    /\ thread[t].pc = "read"
    /\ \/ Readable(thread[t].x) /\ Goto(t, "promote")
       \/ Raise(t)
    /\ UNCHANGED <<handle, live, resident, leaseError, weights, stage>>

(* _drop_blocks: the list is emptied first; a release may fail, and the    *)
(* rest is left to its leases.  The mutant releases what it still lists.   *)
DroppedMutant(x) == handle[x].blocks
Dropped(x) == <<>>
DropBlocks(x, keep) ==
    /\ live' = live \ (Ids(handle[x].blocks) \ keep)
    /\ keep \subseteq Ids(handle[x].blocks)

(* Promotion is a move, under the lock: what is counted as resident; the   *)
(* mutant counts a promotion only when there was nothing to release.       *)
CountedMutant(x) == handle[x].blocks = <<>>
Counted(x) == TRUE

Promote(t) ==
    /\ thread[t].pc = "promote"
    /\ LET x == thread[t].x IN
       \/ /\ thread[t].op = "restore" /\ Fits
          /\ handle' = [handle EXCEPT ![x].res = TRUE, ![x].blocks = Dropped(x)]
          /\ resident' = IF Counted(x) THEN resident + 1 ELSE resident
          /\ \E keep \in SUBSET Ids(handle[x].blocks) :
               /\ DropBlocks(x, keep)
               /\ IF keep = {} THEN Return(t) ELSE Raise(t)
          /\ UNCHANGED stage
       \/ /\ Return(t)
          /\ stage' = IF thread[t].op = "transient"
                      THEN [stage EXCEPT !.at = "publish"] ELSE stage
          /\ UNCHANGED <<handle, live, resident>>
    /\ UNCHANGED <<leaseError, weights>>

-----------------------------------------------------------------------------
(* prepare_transient, free, errors and renewal *)

PrepareTransient(t, x) ==
    /\ IsIdle(t)
    /\ handle[x].res
    /\ handle' = [handle EXCEPT ![x].dirty = TRUE]
    /\ Begin(t, "prepare", x, "write")
    /\ UNCHANGED <<live, resident, leaseError, weights, stage>>

(* free: a release that fails leaves the handle in the table. *)
Freed(x, keep) ==
    /\ DropBlocks(x, keep)
    /\ handle' = [handle EXCEPT ![x] = IF keep = {} THEN NoHandle
                                       ELSE [@ EXCEPT !.blocks = Dropped(x)]]
    /\ resident' = IF keep = {} /\ handle[x].res THEN resident - 1 ELSE resident

(* The exception leaves the operation; offload frees its handle first.  It *)
(* ends a backward and the transaction for good, a forward may be tried    *)
(* again.  The worker's reaches the training thread when that waits for it. *)
Unwind(t) ==
    /\ thread[t].pc = "error"
    /\ t = Main \/ IsIdle(Main)
    /\ LET x == thread[t].x IN
       IF thread[t].op \in {"offload", "publish"} /\ handle[x].listed
       THEN \E keep \in SUBSET Ids(handle[x].blocks) : Freed(x, keep)
       ELSE UNCHANGED <<handle, live, resident>>
    /\ Return(t)
    /\ \/ stage' = [stage EXCEPT !.at = "failed"]
       \/ stage.at = "train" /\ UNCHANGED stage
    /\ UNCHANGED <<leaseError, weights>>

(* Every block has a new dict. *)
Renewed(x) ==
    [i \in DOMAIN handle[x].blocks |->
        [handle[x].blocks[i] EXCEPT !.renewed = TRUE]]

(* The renewal thread, under the lock.  It gives up when a block is gone,  *)
(* and when the call fails.                                                *)
Renew ==
    /\ ~LockTaken
    /\ ~leaseError
    /\ \/ /\ \A x \in Listed : Ids(handle[x].blocks) \subseteq live
          /\ handle' = [x \in Tensor |-> IF x \in Listed
                 THEN [handle[x] EXCEPT !.blocks = Renewed(x)] ELSE handle[x]]
          /\ UNCHANGED leaseError
       \/ leaseError' = TRUE /\ UNCHANGED handle
    /\ UNCHANGED <<live, resident, thread, weights, stage>>

(* A block that no list names is not renewed and goes with its lease, and  *)
(* so does every block once the renewal has given up.                      *)
LeaseRunsOut ==
    /\ \E i \in live :
         /\ \/ leaseError
            \/ /\ \A x \in Listed : i \notin Ids(handle[x].blocks)
               /\ \A t \in Thread : i \notin Ids(thread[t].news)
         /\ live' = live \ {i}
    /\ UNCHANGED <<handle, resident, leaseError, thread, weights, stage>>

-----------------------------------------------------------------------------
(* Training *)

PrefetchIdle == \A t \in Prefetch : IsIdle(t)

(* Forward and backward: values are offloaded and restored, and what is    *)
(* not a weight is released, after a failure too.                          *)
Train ==
    /\ stage.at = "train"
    /\ \E x \in Tensor :
         \/ Offload(Main, "offload", x) /\ UNCHANGED stage
         \/ PrefetchIdle /\ Restore(Main, "restore", x)

Free ==
    /\ stage.at \in {"train", "failed"} /\ IsIdle(Main)
    /\ \E x \in Tensor \ weights :
         /\ handle[x].listed
         /\ \E keep \in SUBSET Ids(handle[x].blocks) : Freed(x, keep)
    /\ UNCHANGED <<leaseError, thread, weights, stage>>

(* The worker loads a stage's weights while the training thread computes,  *)
(* offloads gradients and releases inputs; everything else waits for it.   *)
PrefetchWeights(t) ==
    /\ stage.at = "train"
    /\ \E x \in weights : Restore(t, "restore", x)

(* The transaction: the old weight is written out, restored for the update *)
(* without being retained, its replacement uploaded and then swapped in.   *)
At(step) == stage.at = step /\ IsIdle(Main) /\ PrefetchIdle

StartStep ==
    /\ At("train")
    /\ \E w \in weights : stage' = [at |-> "prepare", old |-> w, new |-> None]
    /\ UNCHANGED <<handle, live, resident, leaseError, thread, weights>>

StepPrepare ==
    /\ At("prepare")
    /\ \/ PrepareTransient(Main, stage.old)
       \/ /\ ~handle[stage.old].res
          /\ stage' = [stage EXCEPT !.at = "load"]
          /\ UNCHANGED <<handle, live, resident, leaseError, thread, weights>>

StepLoad == At("load") /\ Restore(Main, "transient", stage.old)

StepPublish ==
    /\ At("publish")
    /\ \E x \in Tensor :
         /\ Offload(Main, "publish", x)
         /\ stage' = [stage EXCEPT !.at = "swap", !.new = x]

(* The swap comes after the replacement is durable. *)
StepSwap ==
    /\ At("swap")
    /\ weights' = (weights \ {stage.old}) \cup {stage.new}
    /\ stage' = [stage EXCEPT !.at = "release"]
    /\ UNCHANGED <<handle, live, resident, leaseError, thread>>

StepRelease ==
    /\ At("release")
    /\ \E keep \in SUBSET Ids(handle[stage.old].blocks) :
         /\ Freed(stage.old, keep)
         /\ stage' = IF keep = {} THEN [at |-> "train", old |-> None, new |-> None]
                     ELSE [stage EXCEPT !.at = "failed"]
    /\ UNCHANGED <<leaseError, thread, weights>>

-----------------------------------------------------------------------------
(* prepare has offloaded the weights, into VRAM or into the pool. *)
Init ==
    /\ \E r \in SUBSET Initial :
         LET at == CHOOSE f \in [(Initial \ r) \X (1..Parts) -> Id] :
                     IsInjective(f)
         IN  /\ Cardinality(r) <= Capacity
             /\ resident = Cardinality(r)
             /\ live = Range(at)
             /\ handle = [x \in Tensor |-> [listed |-> x \in Initial,
                   res |-> x \in r, dirty |-> FALSE,
                   blocks |-> IF x \notin Initial \ r THEN <<>>
                              ELSE [k \in 1..Parts |-> [id |-> at[<<x, k>>],
                              part |-> k, renewed |-> FALSE, stray |-> FALSE]]]]
    /\ leaseError = FALSE
    /\ thread = [t \in Thread |-> IdleThread]
    /\ weights = Initial
    /\ stage = [at |-> "train", old |-> None, new |-> None]

Running(t) ==
    \/ MakeRoom(t) \/ Retain(t) \/ EvictNext(t) \/ Evicted(t) \/ PutBlock(t)
    \/ PutFails(t) \/ Undo(t) \/ Written(t) \/ EnsureCapacity(t)
    \/ ReadBlocks(t) \/ Promote(t) \/ Unwind(t)

Next ==
    \/ \E t \in Thread : Running(t)
    \/ Train \/ Free \/ StartStep \/ StepPrepare \/ StepLoad \/ StepPublish
    \/ StepSwap \/ StepRelease
    \/ Renew \/ LeaseRunsOut

Spec == Init /\ [][Next]_vars

(* With prefetch_depth = 1. *)
PrefetchSpec ==
    Init /\ [][Next \/ \E t \in Prefetch : PrefetchWeights(t)]_vars

-----------------------------------------------------------------------------
(* Properties *)

Stage == {"train", "prepare", "load", "publish", "swap", "release", "failed"}

(* Lists, threads and the transaction stay in their types; the tensors in  *)
(* VRAM never exceed the budget, whoever retains, promotes and evicts      *)
(* (_try_retain, restore).                                                 *)
TypeOK ==
    /\ handle \in [Tensor -> Handle]
    /\ live \subseteq Id
    /\ resident \in 0..Capacity
    /\ leaseError \in BOOLEAN
    /\ thread \in [Thread -> ThreadState]
    /\ weights \subseteq Tensor
    /\ stage \in [at : Stage, old : Tensor \cup {None}, new : Tensor \cup {None}]

(* The last Parts blocks of the list are the whole value. *)
Stored(x) ==
    /\ Len(handle[x].blocks) >= Parts
    /\ \A k \in 1..Parts :
         LET b == handle[x].blocks[Len(handle[x].blocks) - Parts + k]
         IN  b.id \in live /\ b.part = k

(* Whatever fails in an eviction, a promotion, a release or the optimizer  *)
(* transaction, as long as leases are renewed the value of every current   *)
(* weight is in VRAM, or whole and in order at the end of the list of its  *)
(* blocks (_spill, restore, free, CapacityOptimizer.step).                 *)
WeightDurable ==
    leaseError \/ \A w \in weights : handle[w].listed
                                      /\ (handle[w].res \/ Stored(w))

(* When no operation is under way, the residency counter is the number of  *)
(* tensors that the table really keeps in VRAM (_spill, restore, free).    *)
ExactOwnership ==
    (\A t \in Thread : IsIdle(t)) =>
        resident = Cardinality({x \in Listed : handle[x].res})

(* The only released blocks that a list names are those of a write that    *)
(* failed: its own blocks until its undo, and after it those that the undo *)
(* did not recognise because they were renewed while it ran.  For a block  *)
(* released in any other way, renewed before or not, the next renewal      *)
(* would give up and refuse every later operation (_renew_loop,            *)
(* _drop_blocks, _write_backing).                                          *)
ListedLive ==
    leaseError \/ \A x \in Listed : \A b \in ToSet(handle[x].blocks) :
        \/ b.id \in live \/ b.stray
        \/ \E t \in Thread : thread[t].pc = "undo" /\ thread[t].tgt = x
                              /\ b.id \in Ids(thread[t].news)

(* Not met by the code when a tensor has several blocks: a weight that is  *)
(* not resident can be restored.  The blocks that an undo did not          *)
(* recognise stay in front of those that the next spill appends            *)
(* (_write_backing).                                                       *)
WeightReadable ==
    leaseError \/ \A w \in weights : handle[w].res \/ Readable(w)

=============================================================================
