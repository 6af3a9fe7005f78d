-------------------------- MODULE TensorStoreProofs --------------------------
(***************************************************************************)
(* Proofs about TensorStore without a prefetch worker (Spec), for any      *)
(* finite set of tensors, any number of blocks per tensor and any VRAM     *)
(* budget: what the residency counter stands for, that the budget is kept, *)
(* which blocks the lists name, and that no failure loses a weight.        *)
(***************************************************************************)
EXTENDS TensorStore, FiniteSetTheorems, TLAPS

-----------------------------------------------------------------------------
(* Lists *)

(* Every set of bounded naturals has a least element. *)
LEMMA Least ==
    ASSUME NEW n \in Nat, NEW S \in SUBSET (0..n), S # {}
    PROVE  \E i \in S : \A j \in S : i <= j
<1>1. IsFiniteSet(1..n)
  BY FS_Interval
<1> DEFINE T == {1..i : i \in S}
<1>2. T \subseteq FiniteSubsetsOf(1..n) /\ T # {}
  <2>1. \A i \in S : 1..i \subseteq 1..n
    OBVIOUS
  <2>2. FiniteSubsetsOf(1..n) = SUBSET (1..n)
    BY <1>1, FS_FiniteSubsetsOfFinite
  <2>3. T \subseteq SUBSET (1..n)
    <3> SUFFICES ASSUME NEW u \in T PROVE u \subseteq 1..n
      OBVIOUS
    <3>1. PICK i \in S : u = 1..i
      OBVIOUS
    <3> QED BY <2>1, <3>1
  <2>4. T # {}
    <3>1. PICK i \in S : TRUE
      OBVIOUS
    <3>2. 1..i \in T
      BY <3>1
    <3> QED BY <3>2
  <2> HIDE DEF T
  <2> QED BY <2>2, <2>3, <2>4
<1>3. PICK u \in T : \A v \in T : <<v, u>> \notin StrictSubsetOrdering(1..n)
  BY <1>2, WFMin, FS_StrictSubsetOrderingWellFounded
<1>4. PICK i \in S : u = 1..i
  OBVIOUS
<1>5. ASSUME NEW j \in S, j < i PROVE FALSE
  <2>1. 1..j \in T /\ 1..j \subseteq 1..i /\ i \in 1..i /\ i \notin 1..j
    BY <1>5
  <2>2. 1..i \subseteq 1..n /\ 1..j \subseteq 1..n
    BY <1>5
  <2>3. <<1..j, 1..i>> \in StrictSubsetOrdering(1..n)
    <3>1. <<1..j, 1..i>> \in (SUBSET (1..n)) \X (SUBSET (1..n))
      BY <2>2
    <3> QED BY <2>1, <3>1 DEF StrictSubsetOrdering
  <2> QED BY <1>3, <1>4, <2>1, <2>3
<1> QED BY <1>5

(* The list comprehension of _write_backing keeps entries of the list that *)
(* are not among those it leaves out.                                      *)
LEMMA WithoutIs ==
    ASSUME NEW T, NEW s \in Seq(T), NEW gone
    PROVE  /\ Without(s, gone) \in Seq(T)
           /\ \A k \in 1..Len(Without(s, gone)) :
                \E i \in 1..Len(s) : /\ Without(s, gone)[k] = s[i]
                                     /\ s[i] \notin gone
<1> DEFINE kept == {i \in DOMAIN s : s[i] \notin gone}
           upto(i) == {j \in kept : j <= i}
<1>1. /\ kept \subseteq 1..Len(s) /\ IsFiniteSet(kept) /\ Len(s) \in Nat
      /\ Cardinality(kept) \in Nat
  <2>1. kept \in SUBSET (1..Len(s)) /\ Len(s) \in Nat /\ IsFiniteSet(1..Len(s))
    BY FS_Interval
  <2>2. IsFiniteSet(kept)
    BY <2>1, FS_Subset
  <2> QED BY <2>1, <2>2, FS_CardinalityType
<1>2. ASSUME NEW i \in Nat
      PROVE  IsFiniteSet(upto(i)) /\ Cardinality(upto(i)) \in Nat
  <2>1. upto(i) \in SUBSET kept
    OBVIOUS
  <2>2. IsFiniteSet(upto(i))
    BY <1>1, <2>1, FS_Subset
  <2> QED BY <2>2, FS_CardinalityType
<1> DEFINE count == [i \in 0..Len(s) |-> Cardinality(upto(i))]
<1>3. count[0] = 0 /\ count[Len(s)] = Cardinality(kept)
  <2>1. upto(0) = {} /\ upto(Len(s)) = kept
    BY <1>1
  <2>2. count[0] = Cardinality(upto(0)) /\ count[Len(s)] = Cardinality(upto(Len(s)))
    BY <1>1
  <2> QED BY <2>1, <2>2, FS_EmptySet
<1>4. ASSUME NEW i \in 1..Len(s)
      PROVE  count[i] = IF i \in kept THEN count[i - 1] + 1 ELSE count[i - 1]
  <2>1. /\ count[i] = Cardinality(upto(i)) /\ count[i - 1] = Cardinality(upto(i - 1))
        /\ i - 1 \in Nat
    OBVIOUS
  <2>2. CASE i \in kept
    <3>1. upto(i) = upto(i - 1) \cup {i} /\ i \notin upto(i - 1)
      BY <1>1, <2>2
    <3>2. IsFiniteSet(upto(i - 1))
      BY <1>2, <2>1
    <3> HIDE DEF upto
    <3>3. Cardinality(upto(i - 1) \cup {i}) = Cardinality(upto(i - 1)) + 1
      BY <3>1, <3>2, FS_AddElement
    <3> QED BY <2>1, <2>2, <3>1, <3>3
  <2>3. CASE i \notin kept
    <3>1. upto(i) = upto(i - 1)
      BY <1>1, <2>3
    <3> QED BY <2>1, <2>3, <3>1
  <2> QED BY <2>2, <2>3
<1>5. \A i \in 0..Len(s) : count[i] = Cardinality(upto(i)) /\ count[i] \in Nat
  <2>1. \A i \in 0..Len(s) : count[i] = Cardinality(upto(i)) /\ i \in Nat
    OBVIOUS
  <2> HIDE DEF count, upto
  <2> QED BY <1>2, <2>1
<1>6. ASSUME NEW k \in 1..Cardinality(kept)
      PROVE  \E i \in kept : Cardinality(upto(i)) = k
  <2> HIDE DEF count, upto, kept
  <2> DEFINE S == {i \in 0..Len(s) : count[i] >= k}
  <2>1. Len(s) \in S
    BY <1>1, <1>3
  <2>2. PICK i \in S : \A j \in S : i <= j
    <3> HIDE DEF S
    <3>1. S \in SUBSET (0..Len(s)) /\ S # {}
      BY <2>1 DEF S
    <3> QED BY <1>1, <3>1, Least
  <2>3. i \in 1..Len(s)
    BY <1>1, <1>3, <2>2
  <2>4. i - 1 \in 0..Len(s) /\ i - 1 \notin S
    BY <1>1, <2>2, <2>3
  <2>5. count[i - 1] < k /\ count[i] >= k /\ count[i - 1] \in Nat
    BY <1>5, <2>2, <2>4
  <2>6. i \in kept /\ count[i] = k
    BY <1>4, <2>3, <2>5
  <2> QED BY <1>5, <2>3, <2>6
<1> DEFINE at(k) == CHOOSE i \in kept : Cardinality(upto(i)) = k
<1>7. \A k \in 1..Cardinality(kept) : at(k) \in kept
  <2> HIDE DEF upto, kept
  <2> QED BY <1>6
<1>8. Without(s, gone) = [k \in 1..Cardinality(kept) |-> s[at(k)]]
  BY DEF Without
<1> HIDE DEF at
<1>9. \A k \in 1..Cardinality(kept) : s[at(k)] \in T
  BY <1>1, <1>7
<1> DEFINE w == [k \in 1..Cardinality(kept) |-> s[at(k)]]
<1>10. w \in Seq(T) /\ Len(w) = Cardinality(kept)
  BY <1>1, <1>9
<1>11. \A k \in 1..Len(w) : w[k] = s[at(k)] /\ at(k) \in 1..Len(s) /\ s[at(k)] \notin gone
  BY <1>1, <1>7, <1>10
<1> QED BY <1>8, <1>10, <1>11

-----------------------------------------------------------------------------
(* The training thread *)

main == thread[Main]

(* The worker is never started in Spec. *)
Workers == \A t \in Prefetch : thread[t] = IdleThread

InVram == {x \in Tensor : handle[x].res}

(* What the training thread is about, by operation. *)
Control ==
    /\ main.op = "none" => main = IdleThread
    /\ main.op # "none" => main.x \in Tensor /\ main.pc # "idle"
    /\ main.op \in {"publish", "prepare"} => main.pc \in {"write", "undo", "error"}
    /\ main.op = "offload" => main.pc \notin {"read", "promote"}
    /\ main.op \in {"restore", "transient"} => main.pc # "retain"
    /\ main.op \in {"offload", "publish"} => main.x \notin weights

(* A new handle is dirty until its value is somewhere, a tensor that is    *)
(* being restored is in the pool only, and what is written out is resident *)
(* until it has been.                                                      *)
Own ==
    /\ main.op \in {"offload", "publish"} /\ main.pc # "error"
         => handle[main.x].listed /\ handle[main.x].dirty /\ ~handle[main.x].res
    /\ main.op \in {"restore", "transient"} /\ main.pc # "error"
         => handle[main.x].listed /\ ~handle[main.x].dirty /\ ~handle[main.x].res
    /\ main.pc \in {"write", "undo"}
         => /\ main.tgt \in Tensor \ main.todo
            /\ handle[main.tgt].listed
            /\ main.op \in {"publish", "prepare"} => main.tgt = main.x
            /\ Spills(Main) => handle[main.tgt].res
    /\ main.pc \notin {"undo", "error"} => main.todo \subseteq InVram

(* The victims that are left make the room that was found missing. *)
Room ==
    /\ main.op = "offload" /\ main.pc = "evict"
         => Cardinality(main.todo) >= resident + 1 - Capacity
    /\ main.op = "offload" /\ main.pc = "write" /\ main.tgt # main.x
         => Cardinality(main.todo) >= resident - Capacity
    /\ main.pc = "retain" => resident + 1 <= Capacity

Counting ==
    /\ resident = Cardinality(InVram)
    /\ \A x \in Tensor : handle[x].res => handle[x].listed

(* The transaction and the operation it waits for. *)
Transaction ==
    /\ main.op \in {"offload", "restore"} => stage.at = "train"
    /\ main.op = "publish" => stage.at = "swap" /\ main.x = stage.new
    /\ main.op = "prepare" => stage.at = "prepare"
    /\ main.op = "transient" => stage.at = "load"
    /\ stage.at \in {"prepare", "load", "publish", "swap"} => stage.old \in weights
    /\ stage.at = "swap" => stage.new \in Tensor \ weights
    /\ stage.at = "swap" /\ main.op = "none" => handle[stage.new].listed
    /\ stage.at = "release" => stage.old \in Tensor \ weights
    /\ \A w \in weights : handle[w].listed

Ctl == Workers /\ Control /\ Own /\ Room /\ Counting /\ Transaction

-----------------------------------------------------------------------------
(* What one step does to the thread and to a handle *)

MainIs(op, x, pc, todo, tgt, news) ==
    /\ thread' \in [Thread -> ThreadState]
    /\ Workers'
    /\ main' = [op |-> op, x |-> x, pc |-> pc, todo |-> todo, tgt |-> tgt,
                news |-> news]

HandleIs(x, listed, res, dirty, blocks) ==
    /\ handle' \in [Tensor -> Handle]
    /\ handle'[x] = [listed |-> listed, res |-> res, dirty |-> dirty,
                     blocks |-> blocks]
    /\ \A y \in Tensor : y # x => handle'[y] = handle[y]

LEMMA MainType ==
    ASSUME TypeOK
    PROVE  /\ main \in ThreadState /\ Main \in Thread
           /\ main.op \in Op /\ main.x \in Tensor \cup {None} /\ main.pc \in Step
           /\ main.todo \in SUBSET Tensor /\ main.tgt \in Tensor \cup {None}
           /\ main.news \in Seq(Block)
           /\ main = [op |-> main.op, x |-> main.x, pc |-> main.pc,
                      todo |-> main.todo, tgt |-> main.tgt, news |-> main.news]
BY DEF TypeOK, main, Thread, ThreadState

LEMMA HandleType ==
    ASSUME TypeOK, NEW x \in Tensor
    PROVE  /\ handle[x] \in Handle /\ handle[x].listed \in BOOLEAN
           /\ handle[x].res \in BOOLEAN /\ handle[x].dirty \in BOOLEAN
           /\ handle[x].blocks \in Seq(Block)
           /\ handle[x] = [listed |-> handle[x].listed, res |-> handle[x].res,
                           dirty |-> handle[x].dirty, blocks |-> handle[x].blocks]
BY DEF TypeOK, Handle

LEMMA NoBlocks == <<>> \in Seq(Block) /\ Len(<<>>) = 0
OBVIOUS

LEMMA IdleThreadType == IdleThread \in ThreadState
BY DEF IdleThread, ThreadState, Op, Step

(* The thread changes to the record r. *)
LEMMA MainMoves ==
    ASSUME TypeOK, Workers, NEW r \in ThreadState,
           thread' = [thread EXCEPT ![Main] = r]
    PROVE  MainIs(r.op, r.x, r.pc, r.todo, r.tgt, r.news)
<1>1. thread' \in [Thread -> ThreadState] /\ main' = r
  BY MainType DEF TypeOK, main
<1>2. Workers'
  BY ConstantsAssumption DEF Workers, Thread, TypeOK
<1>3. r = [op |-> r.op, x |-> r.x, pc |-> r.pc, todo |-> r.todo, tgt |-> r.tgt,
           news |-> r.news]
  BY DEF ThreadState
<1> QED BY <1>1, <1>2, <1>3 DEF MainIs

LEMMA GotoMoves ==
    ASSUME TypeOK, Workers, NEW step \in Step, Goto(Main, step)
    PROVE  MainIs(main.op, main.x, step, main.todo, main.tgt, main.news)
<1> DEFINE r == [main EXCEPT !.pc = step]
<1>1. /\ r \in ThreadState /\ r.pc = step /\ r.op = main.op /\ r.x = main.x
      /\ r.todo = main.todo /\ r.tgt = main.tgt /\ r.news = main.news
  BY MainType DEF ThreadState
<1>2. thread' = [thread EXCEPT ![Main] = r]
  BY MainType DEF Goto, main
<1> HIDE DEF r
<1> QED BY <1>1, <1>2, MainMoves

LEMMA RaiseMoves ==
    ASSUME TypeOK, Workers, Raise(Main)
    PROVE  MainIs(main.op, main.x, "error", main.todo, main.tgt, main.news)
<1>1. Goto(Main, "error") /\ "error" \in Step
  BY DEF Raise, Goto, Step
<1> QED BY <1>1, GotoMoves

LEMMA ReturnMoves ==
    ASSUME TypeOK, Workers, Return(Main)
    PROVE  MainIs("none", None, "idle", {}, None, <<>>) /\ main' = IdleThread
<1>1. MainIs(IdleThread.op, IdleThread.x, IdleThread.pc, IdleThread.todo,
             IdleThread.tgt, IdleThread.news)
  BY IdleThreadType, MainMoves DEF Return
<1> QED BY <1>1 DEF IdleThread, MainIs

LEMMA WriteToMoves ==
    ASSUME TypeOK, Workers, NEW x \in Tensor, WriteTo(Main, x)
    PROVE  MainIs(main.op, main.x, "write", main.todo, x, <<>>)
<1> DEFINE r == [main EXCEPT !.pc = "write", !.tgt = x, !.news = <<>>]
<1>1. /\ r \in ThreadState /\ r.pc = "write" /\ r.op = main.op /\ r.x = main.x
      /\ r.todo = main.todo /\ r.tgt = x /\ r.news = <<>>
  BY MainType, NoBlocks DEF ThreadState, Step
<1>2. thread' = [thread EXCEPT ![Main] = r]
  BY MainType DEF WriteTo, main
<1> HIDE DEF r
<1> QED BY <1>1, <1>2, MainMoves

LEMMA BeginMoves ==
    ASSUME TypeOK, Workers, NEW op \in Op, NEW x \in Tensor, NEW step \in Step,
           Begin(Main, op, x, step)
    PROVE  MainIs(op, x, step, {}, IF step = "write" THEN x ELSE None, <<>>)
<1> DEFINE tgt == IF step = "write" THEN x ELSE None
           r == [IdleThread EXCEPT !.op = op, !.x = x, !.pc = step, !.tgt = tgt]
<1>1. /\ r \in ThreadState /\ r.pc = step /\ r.op = op /\ r.x = x
      /\ r.todo = {} /\ r.tgt = tgt /\ r.news = <<>>
  BY NoBlocks DEF ThreadState, IdleThread
<1>2. thread' = [thread EXCEPT ![Main] = r]
  BY DEF Begin
<1> HIDE DEF r
<1> QED BY <1>1, <1>2, MainMoves

LEMMA VictimsMoves ==
    ASSUME TypeOK, Workers, NEW v \in SUBSET Tensor,
           thread' = [thread EXCEPT ![Main].pc = "evict", ![Main].todo = v]
    PROVE  MainIs(main.op, main.x, "evict", v, main.tgt, main.news)
<1> DEFINE r == [main EXCEPT !.pc = "evict", !.todo = v]
<1>1. /\ r \in ThreadState /\ r.pc = "evict" /\ r.op = main.op /\ r.x = main.x
      /\ r.todo = v /\ r.tgt = main.tgt /\ r.news = main.news
  BY MainType DEF ThreadState, Step
<1>2. thread' = [thread EXCEPT ![Main] = r]
  BY MainType DEF main
<1> HIDE DEF r
<1> QED BY <1>1, <1>2, MainMoves

(* Handle x changes to the record r. *)
LEMMA HandleMoves ==
    ASSUME TypeOK, NEW x \in Tensor, NEW r \in Handle,
           handle' = [handle EXCEPT ![x] = r]
    PROVE  HandleIs(x, r.listed, r.res, r.dirty, r.blocks)
<1>1. r = [listed |-> r.listed, res |-> r.res, dirty |-> r.dirty,
           blocks |-> r.blocks]
  BY DEF Handle
<1> QED BY <1>1 DEF HandleIs, TypeOK

LEMMA VramFinite ==
    /\ IsFiniteSet(InVram) /\ InVram \in SUBSET Tensor
    /\ \A v \in SUBSET Tensor : IsFiniteSet(v) /\ Cardinality(v) \in Nat
<1>1. \A v \in SUBSET Tensor : IsFiniteSet(v)
  BY ConstantsAssumption, FS_Subset
<1>2. InVram \in SUBSET Tensor
  BY DEF InVram
<1> QED BY <1>1, <1>2, FS_CardinalityType

(* The counter follows the residency of the one handle that changes. *)
LEMMA CountMoves ==
    ASSUME TypeOK, Counting, NEW x \in Tensor, NEW l \in BOOLEAN,
           NEW r \in BOOLEAN, NEW d, NEW b, HandleIs(x, l, r, d, b), r => l,
           resident' = IF r = handle[x].res THEN resident
                       ELSE IF r THEN resident + 1 ELSE resident - 1
    PROVE  Counting' /\ resident' \in Nat
<1>1. InVram' = IF r THEN InVram \cup {x} ELSE InVram \ {x}
  BY DEF HandleIs, InVram
<1>2. x \in InVram <=> handle[x].res
  BY DEF InVram
<1>3. resident = Cardinality(InVram) /\ resident \in Nat
  BY DEF Counting, TypeOK
<1>4. Cardinality(InVram \cup {x}) = IF x \in InVram THEN resident ELSE resident + 1
  BY <1>3, VramFinite, FS_AddElement
<1>5. Cardinality(InVram \ {x}) = IF x \in InVram THEN resident - 1 ELSE resident
  BY <1>3, VramFinite, FS_RemoveElement
<1>6. resident' = Cardinality(InVram')
  BY <1>1, <1>2, <1>4, <1>5, HandleType
<1>7. \A y \in Tensor : handle'[y].res => handle'[y].listed
  BY DEF HandleIs, Counting
<1>8. InVram' \in SUBSET Tensor
  BY <1>1, VramFinite
<1>9. resident' \in Nat
  BY <1>6, <1>8, VramFinite
<1> QED BY <1>6, <1>7, <1>9 DEF Counting

LEMMA SameCount ==
    ASSUME Counting, UNCHANGED <<handle, resident>>
    PROVE  Counting' /\ InVram' = InVram
BY DEF Counting, InVram

(* An operation has returned. *)
LEMMA IdleCtl ==
    ASSUME MainIs("none", None, "idle", {}, None, <<>>), Counting', Transaction'
    PROVE  Ctl'
<1>1. /\ main'.op = "none" /\ main'.pc = "idle" /\ main'.todo = {}
      /\ main' = IdleThread /\ Workers'
  BY DEF MainIs, IdleThread
<1> QED BY <1>1 DEF Ctl, Control, Own, Room

-----------------------------------------------------------------------------
(* Each step of the training thread keeps the types and Ctl *)

LEMMA MakeRoomKept ==
    ASSUME TypeOK, Ctl, MakeRoom(Main)
    PROVE  TypeOK' /\ Ctl'
<1>1. /\ main.pc = "room" /\ main.op = "offload" /\ main.x \in Tensor
      /\ UNCHANGED <<handle, live, resident, leaseError, weights, stage>>
      /\ Workers
  BY DEF MakeRoom, main, Ctl, Control
<1>2. Counting' /\ InVram' = InVram
  BY <1>1, SameCount DEF Ctl
<1>3. CASE Fits /\ Goto(Main, "retain")
  <2>1. MainIs(main.op, main.x, "retain", main.todo, main.tgt, main.news)
    BY <1>1, <1>3, GotoMoves DEF Step
  <2>2. TypeOK'
    BY <1>1, <2>1 DEF MainIs, TypeOK
  <2> QED
    BY <1>1, <1>2, <1>3, <2>1, <2>2
    DEF Ctl, MainIs, Control, Own, Room, Transaction, Fits
<1>4. ASSUME NEW v \in SUBSET Clean, Cardinality(v) >= resident + 1 - Capacity,
             thread' = [thread EXCEPT ![Main].pc = "evict", ![Main].todo = v]
      PROVE  TypeOK' /\ Ctl'
  <2>1. v \in SUBSET Tensor /\ v \subseteq InVram
    BY DEF Clean, Listed, InVram
  <2>2. MainIs(main.op, main.x, "evict", v, main.tgt, main.news)
    BY <1>1, <1>4, <2>1, VictimsMoves
  <2>3. TypeOK'
    BY <1>1, <2>2 DEF MainIs, TypeOK
  <2> QED
    BY <1>1, <1>2, <1>4, <2>1, <2>2, <2>3
    DEF Ctl, MainIs, Control, Own, Room, Transaction
<1>5. CASE WriteTo(Main, main.x)
  <2>1. MainIs(main.op, main.x, "write", main.todo, main.x, <<>>)
    BY <1>1, <1>5, WriteToMoves
  <2>2. TypeOK'
    BY <1>1, <2>1 DEF MainIs, TypeOK
  <2>3. main.x \notin main.todo
    BY <1>1 DEF Ctl, Own, InVram
  <2>4. ~Spills(Main)'
    BY <1>1, <2>1 DEF Spills, MainIs, main
  <2> QED
    BY <1>1, <1>2, <2>1, <2>2, <2>3, <2>4
    DEF Ctl, MainIs, Control, Own, Room, Transaction
<1> QED BY <1>3, <1>4, <1>5 DEF MakeRoom, main

LEMMA RetainKept ==
    ASSUME TypeOK, Ctl, Retain(Main)
    PROVE  TypeOK' /\ Ctl'
<1>1. /\ main.pc = "retain" /\ main.op = "offload" /\ main.x \in Tensor
      /\ UNCHANGED <<live, leaseError, weights, stage>> /\ Workers
      /\ resident + 1 <= Capacity
      /\ handle[main.x].listed /\ ~handle[main.x].res
  BY MainType, IdleThreadType
  DEF Retain, main, Ctl, Control, Room, Own, Op, IdleThread
<1>2. CASE /\ handle' = [handle EXCEPT ![main.x].res = TRUE, ![main.x].dirty = FALSE]
           /\ resident' = resident + 1
           /\ Return(Main)
  <2>1. MainIs("none", None, "idle", {}, None, <<>>) /\ main' = IdleThread
    BY <1>1, <1>2, ReturnMoves
  <2>2. HandleIs(main.x, TRUE, TRUE, FALSE, handle[main.x].blocks)
    <3> DEFINE r == [handle[main.x] EXCEPT !.res = TRUE, !.dirty = FALSE]
    <3>1. /\ r \in Handle /\ r.listed = TRUE /\ r.res = TRUE /\ r.dirty = FALSE
          /\ r.blocks = handle[main.x].blocks
      BY <1>1, HandleType DEF Handle
    <3>2. handle' = [handle EXCEPT ![main.x] = r]
      BY <1>1, <1>2 DEF TypeOK
    <3> HIDE DEF r
    <3> QED BY <1>1, <3>1, <3>2, HandleMoves
  <2>3. Counting' /\ resident' \in Nat
    BY <1>1, <1>2, <2>2, CountMoves DEF Ctl
  <2>4. TypeOK'
    BY <1>1, <1>2, <2>1, <2>2, <2>3, ConstantsAssumption DEF MainIs, HandleIs, TypeOK
  <2>5. Transaction'
    <3>1. /\ main'.op = "none" /\ stage.at = "train" /\ stage' = stage
          /\ weights' = weights
      BY <1>1, <2>1 DEF Ctl, Transaction, MainIs
    <3>2. \A w \in weights : handle'[w].listed
      BY <2>2 DEF Ctl, Transaction, TypeOK, HandleIs
    <3> QED BY <3>1, <3>2 DEF Transaction
  <2> QED BY <2>1, <2>3, <2>4, <2>5, IdleCtl
<1>3. CASE WriteTo(Main, main.x) /\ UNCHANGED <<handle, resident>>
  <2>1. MainIs(main.op, main.x, "write", main.todo, main.x, <<>>)
    BY <1>1, <1>3, WriteToMoves
  <2>2. TypeOK'
    BY <1>1, <1>3, <2>1 DEF MainIs, TypeOK
  <2>3. main.x \notin main.todo /\ Counting' /\ InVram' = InVram
    BY <1>1, <1>3, SameCount DEF Ctl, Own, InVram
  <2>4. ~Spills(Main)'
    BY <1>1, <2>1 DEF Spills, MainIs, main
  <2> QED
    BY <1>1, <1>3, <2>1, <2>2, <2>3, <2>4
    DEF Ctl, MainIs, Control, Own, Room, Transaction
<1> QED BY <1>2, <1>3 DEF Retain, main

LEMMA EvictNextKept ==
    ASSUME TypeOK, Ctl, EvictNext(Main)
    PROVE  TypeOK' /\ Ctl'
<1>1. /\ main.pc = "evict" /\ main.op \in {"offload", "restore", "transient"}
      /\ main.x \in Tensor /\ Workers /\ main.todo \subseteq InVram
      /\ main.todo \in SUBSET Tensor /\ ~handle[main.x].res
      /\ UNCHANGED <<live, resident, leaseError, weights, stage>>
  BY MainType DEF EvictNext, main, Ctl, Control, Own, Op, IdleThread
<1>2. PICK v \in main.todo :
        /\ thread' = [thread EXCEPT
              ![Main].todo = @ \ {v},
              ![Main].pc = IF ~handle[v].listed THEN "error"
                           ELSE IF handle[v].res THEN "write" ELSE "evict",
              ![Main].tgt = v, ![Main].news = <<>>]
        /\ handle' = [handle EXCEPT ![v].dirty =
                                       @ \/ (handle[v].listed /\ handle[v].res)]
  BY DEF EvictNext, main
<1>3. v \in Tensor /\ handle[v].res /\ handle[v].listed /\ v # main.x
  BY <1>1 DEF InVram, Ctl, Counting
<1>4. MainIs(main.op, main.x, "write", main.todo \ {v}, v, <<>>)
  <2> DEFINE r == [main EXCEPT !.todo = main.todo \ {v}, !.pc = "write",
                               !.tgt = v, !.news = <<>>]
  <2>1. /\ r \in ThreadState /\ r.pc = "write" /\ r.op = main.op /\ r.x = main.x
        /\ r.todo = main.todo \ {v} /\ r.tgt = v /\ r.news = <<>>
    BY <1>1, <1>3, MainType, NoBlocks DEF ThreadState, Step
  <2>2. thread' = [thread EXCEPT ![Main] = r]
    BY <1>2, <1>3, MainType DEF main
  <2> HIDE DEF r
  <2> QED BY <1>1, <2>1, <2>2, MainMoves
<1>5. HandleIs(v, TRUE, TRUE, TRUE, handle[v].blocks)
  <2> DEFINE r == [handle[v] EXCEPT !.dirty = TRUE]
  <2>1. /\ r \in Handle /\ r.listed = TRUE /\ r.res = TRUE /\ r.dirty = TRUE
        /\ r.blocks = handle[v].blocks
    BY <1>3, HandleType DEF Handle
  <2>2. handle' = [handle EXCEPT ![v] = r]
    BY <1>2, <1>3 DEF TypeOK
  <2> HIDE DEF r
  <2> QED BY <1>3, <2>1, <2>2, HandleMoves
<1>6. Counting'
  BY <1>1, <1>3, <1>5, CountMoves DEF Ctl
<1>7. TypeOK'
  BY <1>1, <1>4, <1>5 DEF MainIs, HandleIs, TypeOK
<1>8. InVram' = InVram
  BY <1>3, <1>5 DEF InVram, HandleIs
<1>9. Control' /\ Workers'
  BY <1>1, <1>4 DEF MainIs, Control, Ctl
<1>10. Own'
  BY <1>1, <1>3, <1>4, <1>5, <1>8 DEF MainIs, HandleIs, Own, Ctl
<1>11. Room'
  <2>1. Cardinality(main.todo \ {v}) = Cardinality(main.todo) - 1
    BY <1>1, VramFinite, FS_RemoveElement
  <2>2. Cardinality(main.todo) \in Nat /\ resident \in Nat
    BY <1>1, VramFinite DEF TypeOK
  <2> QED BY <1>1, <1>4, <2>1, <2>2, ConstantsAssumption DEF MainIs, Room, Ctl
<1>12. Transaction'
  BY <1>1, <1>4, <1>5 DEF MainIs, HandleIs, Transaction, Ctl, TypeOK
<1> QED BY <1>6, <1>7, <1>9, <1>10, <1>11, <1>12 DEF Ctl

LEMMA EvictedKept ==
    ASSUME TypeOK, Ctl, Evicted(Main)
    PROVE  TypeOK' /\ Ctl'
<1>1. /\ main.pc = "evict" /\ main.todo = {} /\ Workers
      /\ main.op \in {"offload", "restore", "transient"}
      /\ UNCHANGED <<handle, live, resident, leaseError, weights, stage>>
  BY MainType DEF Evicted, main, Ctl, Control, Op, IdleThread
<1> DEFINE step == IF main.op = "offload" THEN "retain" ELSE "room"
<1>2. MainIs(main.op, main.x, step, main.todo, main.tgt, main.news)
  BY <1>1, GotoMoves DEF Evicted, main, Step
<1>3. TypeOK' /\ Counting' /\ InVram' = InVram
  BY <1>1, <1>2, SameCount DEF MainIs, TypeOK, Ctl
<1>4. main.op = "offload" => resident + 1 <= Capacity
  <2>1. main.op = "offload" => 0 >= resident + 1 - Capacity
    BY <1>1, FS_EmptySet DEF Ctl, Room
  <2> QED BY <2>1, ConstantsAssumption DEF TypeOK
<1> QED
  BY <1>1, <1>2, <1>3, <1>4 DEF Ctl, MainIs, Control, Own, Room, Transaction

(* The facts about a write that is under way. *)
LEMMA WriteFacts ==
    ASSUME TypeOK, Ctl, main.pc \in {"write", "undo"}
    PROVE  /\ main.op \in {"offload", "publish", "restore", "transient", "prepare"}
           /\ main.x \in Tensor /\ main.tgt \in Tensor /\ Workers
           /\ main.tgt \notin main.todo /\ handle[main.tgt].listed
           /\ handle[main.tgt].res <=> Spills(Main)
           /\ Spills(Main) /\ main.op # "prepare" => main.tgt # main.x
           /\ ~Spills(Main) => main.op \in {"offload", "publish"} /\ main.tgt = main.x
           /\ main.op = "prepare" => main.tgt = main.x
BY MainType DEF Ctl, Control, Own, Spills, Op, IdleThread, main

LEMMA PutBlockMoves ==
    ASSUME TypeOK, Ctl, PutBlock(Main)
    PROVE  \E b \in Block :
             /\ b.part = Len(main.news) + 1 /\ b.renewed = FALSE
             /\ b.id \notin Used /\ live' = live \cup {b.id}
             /\ MainIs(main.op, main.x, main.pc, main.todo, main.tgt,
                       Append(main.news, b))
             /\ HandleIs(main.tgt, handle[main.tgt].listed, handle[main.tgt].res,
                         handle[main.tgt].dirty, Append(handle[main.tgt].blocks, b))
<1>1. main.pc = "write" /\ Len(main.news) < Parts /\ Id \ Used # {}
  BY DEF PutBlock, main
<1>2. main.tgt \in Tensor /\ Workers
  BY <1>1, WriteFacts
<1>3. PICK i \in Id \ Used : i = CHOOSE j \in Id \ Used : TRUE
  BY <1>1
<1> DEFINE b == [id |-> i, part |-> Len(main.news) + 1, renewed |-> FALSE,
                 stray |-> FALSE]
<1>4. /\ b \in Block /\ b.part = Len(main.news) + 1 /\ b.renewed = FALSE
      /\ b.id \notin Used
  BY <1>1, <1>3, MainType, ConstantsAssumption DEF Block
<1>5. /\ live' = live \cup {b.id}
      /\ thread' = [thread EXCEPT ![Main].news = Append(@, b)]
      /\ handle' = [handle EXCEPT ![main.tgt].blocks = Append(@, b)]
  BY <1>3 DEF PutBlock, main
<1> HIDE DEF b
<1>6. MainIs(main.op, main.x, main.pc, main.todo, main.tgt, Append(main.news, b))
  <2> DEFINE r == [main EXCEPT !.news = Append(main.news, b)]
  <2>0. Append(main.news, b) \in Seq(Block)
    BY <1>4, MainType
  <2>1. /\ r \in ThreadState /\ r.pc = main.pc /\ r.op = main.op /\ r.x = main.x
        /\ r.todo = main.todo /\ r.tgt = main.tgt /\ r.news = Append(main.news, b)
    BY <2>0, MainType DEF ThreadState
  <2>2. thread' = [thread EXCEPT ![Main] = r]
    BY <1>5, MainType DEF main
  <2> HIDE DEF r
  <2> QED BY <1>2, <2>1, <2>2, MainMoves
<1>7. HandleIs(main.tgt, handle[main.tgt].listed, handle[main.tgt].res,
               handle[main.tgt].dirty, Append(handle[main.tgt].blocks, b))
  <2> DEFINE x == main.tgt
             r == [handle[x] EXCEPT !.blocks = Append(handle[x].blocks, b)]
  <2>0. Append(handle[x].blocks, b) \in Seq(Block)
    <3>1. handle[x].blocks \in Seq(Block)
      BY <1>2, HandleType
    <3> QED BY <1>4, <3>1
  <2>1. /\ r \in Handle /\ r.listed = handle[x].listed /\ r.res = handle[x].res
        /\ r.dirty = handle[x].dirty /\ r.blocks = Append(handle[x].blocks, b)
    BY <1>2, <2>0, HandleType DEF Handle
  <2>2. handle' = [handle EXCEPT ![x] = r]
    BY <1>2, <1>5 DEF TypeOK
  <2> HIDE DEF r
  <2> QED BY <1>2, <2>1, <2>2, HandleMoves
<1> QED BY <1>4, <1>5, <1>6, <1>7

LEMMA PutBlockKept ==
    ASSUME TypeOK, Ctl, PutBlock(Main)
    PROVE  TypeOK' /\ Ctl'
<1>1. PICK b \in Block :
        /\ live' = live \cup {b.id}
        /\ MainIs(main.op, main.x, main.pc, main.todo, main.tgt,
                  Append(main.news, b))
        /\ HandleIs(main.tgt, handle[main.tgt].listed, handle[main.tgt].res,
                    handle[main.tgt].dirty, Append(handle[main.tgt].blocks, b))
  BY PutBlockMoves
<1>2. /\ main.pc = "write" /\ main.tgt \in Tensor /\ main.x \in Tensor
      /\ UNCHANGED <<resident, leaseError, weights, stage>>
  BY WriteFacts DEF PutBlock, main
<1>3. \A y \in Tensor : /\ handle'[y].listed = handle[y].listed
                        /\ handle'[y].res = handle[y].res
                        /\ handle'[y].dirty = handle[y].dirty
  BY <1>1, <1>2 DEF HandleIs
<1>4. Counting' /\ InVram' = InVram
  BY <1>2, <1>3 DEF Ctl, Counting, InVram
<1>5. TypeOK'
  BY <1>1, <1>2 DEF MainIs, HandleIs, TypeOK, Block
<1>6. /\ main'.op = main.op /\ main'.x = main.x /\ main'.pc = "write"
      /\ main'.todo = main.todo /\ main'.tgt = main.tgt /\ Workers'
      /\ main'.op # "none"
  BY <1>1, <1>2, WriteFacts DEF MainIs
<1>7. Spills(Main)' <=> Spills(Main)
  BY <1>6 DEF Spills, main
<1> QED
  BY <1>2, <1>3, <1>4, <1>5, <1>6, <1>7
  DEF Ctl, Control, Own, Room, Transaction, TypeOK

LEMMA PutFailsKept ==
    ASSUME TypeOK, Ctl, PutFails(Main)
    PROVE  TypeOK' /\ Ctl'
<1>1. /\ main.pc = "write" /\ main.tgt \in Tensor /\ main.x \in Tensor /\ Workers
      /\ UNCHANGED <<handle, resident, leaseError, weights, stage>>
      /\ live' \subseteq live /\ main.op # "none"
  BY WriteFacts DEF PutFails, main
<1>2. MainIs(main.op, main.x, "undo", main.todo, main.tgt, main.news)
  BY <1>1, GotoMoves DEF PutFails, Step
<1>3. TypeOK' /\ Counting' /\ InVram' = InVram
  BY <1>1, <1>2, SameCount DEF MainIs, TypeOK, Ctl
<1>4. Spills(Main)' <=> Spills(Main)
  BY <1>2 DEF Spills, main, MainIs
<1> QED
  BY <1>1, <1>2, <1>3, <1>4
  DEF MainIs, Ctl, Control, Own, Room, Transaction

(* Marking changes nothing but the mark. *)
LEMMA MarkStrayIs ==
    ASSUME NEW s \in Seq(Block), NEW ids
    PROVE  /\ MarkStray(s, ids) \in Seq(Block)
           /\ Len(MarkStray(s, ids)) = Len(s)
           /\ \A i \in 1..Len(s) :
                LET b == MarkStray(s, ids)[i]
                IN  /\ b.id = s[i].id /\ b.part = s[i].part
                    /\ b.stray <=> s[i].stray \/ (s[i].renewed /\ s[i].id \in ids)
<1> DEFINE m == MarkStray(s, ids)
<1>1. /\ m = [i \in 1..Len(s) |->
               [s[i] EXCEPT !.stray = @ \/ (s[i].renewed /\ s[i].id \in ids)]]
      /\ Len(s) \in Nat
  BY DEF MarkStray
<1> HIDE DEF m
<1>2. ASSUME NEW i \in 1..Len(s)
      PROVE  /\ m[i] \in Block /\ m[i].id = s[i].id /\ m[i].part = s[i].part
             /\ m[i].stray <=> s[i].stray \/ (s[i].renewed /\ s[i].id \in ids)
  <2>1. s[i] \in Block
    OBVIOUS
  <2>2. PICK f \in BOOLEAN : f = (s[i].stray \/ (s[i].renewed /\ s[i].id \in ids))
    OBVIOUS
  <2>3. m[i] = [s[i] EXCEPT !.stray = f]
    BY <1>1, <2>2
  <2>4. m[i] \in Block /\ m[i].id = s[i].id /\ m[i].part = s[i].part
        /\ m[i].stray = f
    BY <2>1, <2>3 DEF Block
  <2> QED BY <2>2, <2>4
<1>3. m \in [1..Len(s) -> Block]
  BY <1>1, <1>2
<1>4. m \in Seq(Block) /\ Len(m) = Len(s)
  BY <1>1, <1>3
<1> QED BY <1>2, <1>4 DEF m

LEMMA UndoMoves ==
    ASSUME TypeOK, Ctl, Undo(Main)
    PROVE  /\ main.pc = "undo" /\ main.tgt \in Tensor
           /\ MainIs(main.op, main.x, "error", main.todo, main.tgt, main.news)
           /\ HandleIs(main.tgt, handle[main.tgt].listed, handle[main.tgt].res,
                       handle[main.tgt].dirty /\ ~Spills(Main),
                       MarkStray(Without(handle[main.tgt].blocks, ToSet(main.news)),
                                 Ids(main.news)))
<1>1. main.pc = "undo" /\ main.tgt \in Tensor /\ Workers
  BY WriteFacts DEF Undo, main
<1>2. MainIs(main.op, main.x, "error", main.todo, main.tgt, main.news)
  BY <1>1, RaiseMoves DEF Undo
<1> DEFINE x == main.tgt
           rest == MarkStray(Without(handle[x].blocks, ToSet(main.news)),
                             Ids(main.news))
           d == handle[x].dirty /\ ~Spills(Main)
           r == [handle[x] EXCEPT !.blocks = rest, !.dirty = d]
<1>3. rest \in Seq(Block)
  <2>1. handle[x].blocks \in Seq(Block)
    BY <1>1, HandleType
  <2>2. Without(handle[x].blocks, ToSet(main.news)) \in Seq(Block)
    BY <2>1, WithoutIs
  <2> QED BY <2>2, MarkStrayIs
<1>4. d \in BOOLEAN
  OBVIOUS
<1>5. handle' = [handle EXCEPT ![x] = r]
  BY <1>1 DEF Undo, main, TypeOK
<1> HIDE DEF rest, d
<1>6. /\ r \in Handle /\ r.listed = handle[x].listed /\ r.res = handle[x].res
      /\ r.dirty = d /\ r.blocks = rest
  BY ZenonT(60), <1>1, <1>3, <1>4, HandleType DEF Handle
<1>7. HandleIs(x, handle[x].listed, handle[x].res, d, rest)
  <2> HIDE DEF r
  <2> QED BY <1>1, <1>5, <1>6, HandleMoves
<1> QED BY <1>1, <1>2, <1>7 DEF d, rest

LEMMA UndoKept ==
    ASSUME TypeOK, Ctl, Undo(Main)
    PROVE  TypeOK' /\ Ctl'
<1>1. /\ main.pc = "undo" /\ main.tgt \in Tensor /\ main.x \in Tensor
      /\ UNCHANGED <<live, resident, leaseError, weights, stage>>
      /\ main.op # "none"
  BY WriteFacts DEF Undo, main
<1>2. \A y \in Tensor : /\ handle'[y].listed = handle[y].listed
                        /\ handle'[y].res = handle[y].res
  BY UndoMoves DEF HandleIs
<1>3. Counting' /\ InVram' = InVram
  BY <1>1, <1>2 DEF Ctl, Counting, InVram
<1>4. TypeOK'
  BY <1>1, UndoMoves DEF MainIs, HandleIs, TypeOK
<1>5. /\ main'.op = main.op /\ main'.x = main.x /\ main'.pc = "error" /\ Workers'
  BY UndoMoves DEF MainIs
<1> QED
  BY <1>1, <1>2, <1>3, <1>4, <1>5 DEF Ctl, Control, Own, Room, Transaction, TypeOK

LEMMA WrittenMoves ==
    ASSUME TypeOK, Ctl, Written(Main)
    PROVE  /\ main.pc = "write" /\ main.tgt \in Tensor
           /\ HandleIs(main.tgt, TRUE, FALSE, FALSE, handle[main.tgt].blocks)
           /\ resident' = IF handle[main.tgt].res THEN resident - 1 ELSE resident
           /\ IF Spills(Main) /\ main.op # "prepare"
              THEN MainIs(main.op, main.x, "evict", main.todo, main.tgt, main.news)
              ELSE MainIs("none", None, "idle", {}, None, <<>>)
<1>1. /\ main.pc = "write" /\ main.tgt \in Tensor /\ Workers
      /\ handle[main.tgt].listed /\ (handle[main.tgt].res <=> Spills(Main))
  BY WriteFacts DEF Written, main
<1> DEFINE x == main.tgt
           r == [handle[x] EXCEPT !.dirty = FALSE, !.res = FALSE]
<1>2. /\ r \in Handle /\ r.listed = TRUE /\ r.res = FALSE /\ r.dirty = FALSE
      /\ r.blocks = handle[x].blocks
  BY ZenonT(60), <1>1, HandleType DEF Handle
<1>3. handle' = [handle EXCEPT ![x] = r]
  <2>1. (handle[x].res /\ ~Spills(Main)) = FALSE
    BY <1>1
  <2>2. handle' = [handle EXCEPT ![x].dirty = FALSE,
                                 ![x].res = handle[x].res /\ ~Spills(Main)]
    BY DEF Written, main
  <2> QED BY <1>1, <2>1, <2>2 DEF TypeOK
<1>4. HandleIs(x, TRUE, FALSE, FALSE, handle[x].blocks)
  <2> HIDE DEF r
  <2> QED BY <1>1, <1>2, <1>3, HandleMoves
<1>5. resident' = IF handle[x].res THEN resident - 1 ELSE resident
  BY <1>1, HandleType DEF Written, main
<1>6. IF Spills(Main) /\ main.op # "prepare" THEN Goto(Main, "evict")
                                             ELSE Return(Main)
  BY DEF Written, main
<1>7. "evict" \in Step
  BY DEF Step
<1> QED BY <1>1, <1>4, <1>5, <1>6, <1>7, GotoMoves, ReturnMoves

LEMMA WrittenKept ==
    ASSUME TypeOK, Ctl, Written(Main)
    PROVE  TypeOK' /\ Ctl'
<1>1. /\ main.pc = "write" /\ main.tgt \in Tensor /\ main.x \in Tensor
      /\ UNCHANGED <<live, leaseError, weights, stage>>
      /\ main.tgt \notin main.todo
      /\ handle[main.tgt].res <=> Spills(Main)
      /\ handle[main.tgt].res \in BOOLEAN
  BY WriteFacts, HandleType DEF Written, main
<1>2. HandleIs(main.tgt, TRUE, FALSE, FALSE, handle[main.tgt].blocks)
  BY WrittenMoves
<1>3. resident' = IF handle[main.tgt].res THEN resident - 1 ELSE resident
  BY WrittenMoves
<1>4. Counting' /\ resident' \in Nat
  BY <1>1, <1>2, <1>3, CountMoves DEF Ctl
<1>5. resident' \in 0..Capacity
  BY <1>3, <1>4, ConstantsAssumption DEF TypeOK
<1>6. thread' \in [Thread -> ThreadState]
  BY WrittenMoves DEF MainIs
<1>7. TypeOK'
  BY <1>1, <1>2, <1>5, <1>6 DEF HandleIs, TypeOK
<1>8. \A y \in Tensor : handle[y].listed => handle'[y].listed
  BY <1>2 DEF HandleIs
<1>9. CASE Spills(Main) /\ main.op # "prepare"
  <2>1. MainIs(main.op, main.x, "evict", main.todo, main.tgt, main.news)
    BY <1>9, WrittenMoves
  <2>2. /\ main.tgt # main.x /\ main.op \in {"offload", "restore", "transient"}
        /\ main.todo \subseteq InVram
    BY <1>1, <1>9, WriteFacts, MainType DEF Ctl, Own
  <2>3. main.todo \subseteq InVram'
    BY <1>1, <1>2, <2>2 DEF InVram, HandleIs
  <2>4. Control' /\ Own' /\ Workers'
    BY <1>1, <1>2, <2>1, <2>2, <2>3 DEF MainIs, HandleIs, Control, Own, Ctl
  <2>5. Room'
    <3>1. resident' = resident - 1
      BY <1>1, <1>3, <1>9
    <3>2. main.op = "offload" => Cardinality(main.todo) >= resident - Capacity
      BY <1>1, <2>2 DEF Ctl, Room
    <3>3. Cardinality(main.todo) \in Nat /\ resident \in Nat
      BY MainType, VramFinite DEF TypeOK
    <3> QED BY <2>1, <3>1, <3>2, <3>3, ConstantsAssumption DEF MainIs, Room
  <2>6. Transaction'
    BY <1>1, <1>8, <2>1, <2>2 DEF MainIs, Transaction, Ctl, TypeOK
  <2> QED BY <1>4, <1>7, <2>4, <2>5, <2>6 DEF Ctl
<1>10. CASE ~(Spills(Main) /\ main.op # "prepare")
  <2>1. MainIs("none", None, "idle", {}, None, <<>>)
    BY <1>10, WrittenMoves
  <2>2. main'.op = "none" /\ stage' = stage /\ weights' = weights
    BY <1>1, <2>1 DEF MainIs
  <2>3. stage.at = "swap" => handle'[stage.new].listed
    <3> SUFFICES ASSUME stage.at = "swap"
                 PROVE  stage.new \in Tensor /\ handle[stage.new].listed
      BY <1>8
    <3>1. main.op = "publish" /\ main.x = stage.new
      BY <1>1, <1>10, WriteFacts, MainType DEF Transaction, Ctl
    <3> QED BY <1>1, <3>1 DEF Own, Ctl
  <2>4. Transaction'
    BY <1>8, <2>2, <2>3 DEF Transaction, Ctl, TypeOK
  <2> QED BY <1>4, <1>7, <2>1, <2>4, IdleCtl
<1> QED BY <1>9, <1>10

(* A step that changes neither a handle nor the counter, and goes on to a  *)
(* step of a restore that needs nothing more.                              *)
LEMMA RestoreMoves ==
    ASSUME TypeOK, Ctl, main.op \in {"restore", "transient"},
           main.pc \in {"room", "read"},
           UNCHANGED <<handle, live, resident, leaseError, weights, stage>>,
           NEW step \in {"read", "promote", "error"}, Goto(Main, step)
    PROVE  TypeOK' /\ Ctl'
<1>1. MainIs(main.op, main.x, step, main.todo, main.tgt, main.news)
  BY GotoMoves DEF Ctl, Step
<1>2. TypeOK' /\ Counting' /\ InVram' = InVram
  BY <1>1, SameCount DEF MainIs, TypeOK, Ctl
<1> QED BY <1>1, <1>2 DEF Ctl, MainIs, Control, Own, Room, Transaction

LEMMA EnsureCapacityKept ==
    ASSUME TypeOK, Ctl, EnsureCapacity(Main)
    PROVE  TypeOK' /\ Ctl'
<1>1. /\ main.pc = "room" /\ main.op \in {"restore", "transient"} /\ Workers
      /\ main.x \in Tensor
      /\ UNCHANGED <<handle, live, resident, leaseError, weights, stage>>
  BY DEF EnsureCapacity, main, Ctl, Control
<1>2. CASE Goto(Main, "read") \/ Raise(Main)
  BY <1>1, <1>2, RestoreMoves DEF Raise, Goto
<1>3. ASSUME NEW v \in SUBSET (Clean \ {main.x}),
             thread' = [thread EXCEPT ![Main].pc = "evict", ![Main].todo = v]
      PROVE  TypeOK' /\ Ctl'
  <2>1. v \in SUBSET Tensor /\ v \subseteq InVram
    BY DEF Clean, Listed, InVram
  <2>2. MainIs(main.op, main.x, "evict", v, main.tgt, main.news)
    BY <1>1, <1>3, <2>1, VictimsMoves
  <2>3. TypeOK' /\ Counting' /\ InVram' = InVram
    BY <1>1, <2>2, SameCount DEF MainIs, TypeOK, Ctl
  <2> QED
    BY <1>1, <2>1, <2>2, <2>3 DEF Ctl, MainIs, Control, Own, Room, Transaction
<1> QED BY <1>2, <1>3 DEF EnsureCapacity, main

LEMMA ReadBlocksKept ==
    ASSUME TypeOK, Ctl, ReadBlocks(Main)
    PROVE  TypeOK' /\ Ctl'
<1>1. /\ main.pc = "read" /\ main.op \in {"restore", "transient"}
      /\ UNCHANGED <<handle, live, resident, leaseError, weights, stage>>
      /\ Goto(Main, "promote") \/ Goto(Main, "error")
  BY MainType DEF ReadBlocks, Raise, Goto, main, Ctl, Control, Op, IdleThread
<1> QED BY <1>1, RestoreMoves

LEMMA PromoteFacts ==
    ASSUME TypeOK, Ctl, main.pc = "promote"
    PROVE  /\ main.op \in {"restore", "transient"} /\ main.x \in Tensor /\ Workers
           /\ handle[main.x].listed /\ ~handle[main.x].dirty /\ ~handle[main.x].res
BY MainType DEF main, Ctl, Control, Own, Op, IdleThread

(* The value moves to VRAM and its blocks are dropped. *)
Moved == /\ main.op = "restore" /\ Fits
         /\ HandleIs(main.x, TRUE, TRUE, FALSE, <<>>)
         /\ resident' = resident + 1 /\ stage' = stage
         /\ \E keep \in SUBSET Ids(handle[main.x].blocks) : DropBlocks(main.x, keep)
         /\ \/ MainIs("none", None, "idle", {}, None, <<>>)
            \/ MainIs(main.op, main.x, "error", main.todo, main.tgt, main.news)

LEMMA PromoteMoves ==
    ASSUME TypeOK, Ctl, Promote(Main)
    PROVE  \/ Moved
           \/ /\ MainIs("none", None, "idle", {}, None, <<>>)
              /\ stage' = IF main.op = "transient"
                          THEN [stage EXCEPT !.at = "publish"] ELSE stage
              /\ UNCHANGED <<handle, live, resident>>
<1>1. main.pc = "promote"
  BY DEF Promote, main
<1>2. CASE /\ main.op = "restore" /\ Fits
           /\ handle' = [handle EXCEPT ![main.x].res = TRUE,
                                       ![main.x].blocks = Dropped(main.x)]
           /\ resident' = IF Counted(main.x) THEN resident + 1 ELSE resident
           /\ \E keep \in SUBSET Ids(handle[main.x].blocks) :
                /\ DropBlocks(main.x, keep)
                /\ IF keep = {} THEN Return(Main) ELSE Raise(Main)
           /\ UNCHANGED stage
  <2> DEFINE x == main.x
             r == [handle[x] EXCEPT !.res = TRUE, !.blocks = <<>>]
  <2>1. /\ r \in Handle /\ r.listed = TRUE /\ r.res = TRUE /\ r.dirty = FALSE
        /\ r.blocks = <<>>
    BY <1>1, PromoteFacts, HandleType, NoBlocks DEF Handle
  <2>2. handle' = [handle EXCEPT ![x] = r]
    BY <1>1, <1>2, PromoteFacts DEF TypeOK, Dropped
  <2>3. HandleIs(x, TRUE, TRUE, FALSE, <<>>)
    <3> HIDE DEF r
    <3> QED BY <1>1, <2>1, <2>2, HandleMoves, PromoteFacts
  <2>4. /\ \E keep \in SUBSET Ids(handle[main.x].blocks) : DropBlocks(main.x, keep)
        /\ Return(Main) \/ Raise(Main)
    BY <1>2
  <2>5. \/ MainIs("none", None, "idle", {}, None, <<>>)
        \/ MainIs(main.op, main.x, "error", main.todo, main.tgt, main.news)
    BY <1>1, <2>4, ReturnMoves, RaiseMoves, PromoteFacts
  <2> QED BY <1>2, <2>3, <2>4, <2>5 DEF Moved, Counted
<1>3. CASE /\ Return(Main)
           /\ stage' = IF main.op = "transient"
                       THEN [stage EXCEPT !.at = "publish"] ELSE stage
           /\ UNCHANGED <<handle, live, resident>>
  BY <1>1, <1>3, ReturnMoves, PromoteFacts
<1> QED BY <1>2, <1>3 DEF Promote, main

LEMMA PromoteKept ==
    ASSUME TypeOK, Ctl, Promote(Main)
    PROVE  TypeOK' /\ Ctl'
<1>1. main.pc = "promote" /\ UNCHANGED <<leaseError, weights>>
  BY DEF Promote, main
<1>2. CASE Moved
  <2>1. Counting' /\ resident' \in 0..Capacity
    <3>1. Counting' /\ resident' \in Nat
      BY <1>1, <1>2, CountMoves, PromoteFacts DEF Moved, Ctl
    <3> QED BY <1>2, <3>1, ConstantsAssumption DEF Moved, Fits
  <2>2. TypeOK'
    BY <1>1, <1>2, <2>1 DEF Moved, MainIs, HandleIs, DropBlocks, TypeOK
  <2>3. /\ \A y \in Tensor : handle[y].listed => handle'[y].listed
        /\ stage.at = "train" /\ stage' = stage
    BY <1>2 DEF Moved, HandleIs, Ctl, Transaction
  <2>4. CASE MainIs("none", None, "idle", {}, None, <<>>)
    <3>1. Transaction'
      BY <1>1, <2>3, <2>4 DEF MainIs, Transaction, Ctl, TypeOK
    <3> QED BY <2>1, <2>2, <2>4, <3>1, IdleCtl
  <2>5. CASE MainIs(main.op, main.x, "error", main.todo, main.tgt, main.news)
    BY <1>1, <1>2, <2>1, <2>2, <2>3, <2>5, PromoteFacts
    DEF MainIs, Moved, Ctl, Control, Own, Room, Transaction, TypeOK
  <2> QED BY <1>2, <2>4, <2>5 DEF Moved
<1>3. CASE /\ MainIs("none", None, "idle", {}, None, <<>>)
           /\ stage' = IF main.op = "transient"
                       THEN [stage EXCEPT !.at = "publish"] ELSE stage
           /\ UNCHANGED <<handle, live, resident>>
  <2>1. /\ stage' \in [at : Stage, old : Tensor \cup {None}, new : Tensor \cup {None}]
        /\ stage' # stage => /\ stage.at = "load" /\ stage'.at = "publish"
                             /\ stage'.old = stage.old
        /\ stage.at # "swap"
    BY <1>1, <1>3, PromoteFacts DEF TypeOK, Stage, Ctl, Transaction
  <2>2. TypeOK' /\ Counting'
    BY <1>1, <1>3, <2>1, SameCount DEF MainIs, TypeOK, Ctl
  <2>3. Transaction'
    BY <1>1, <1>3, <2>1 DEF MainIs, Transaction, Ctl
  <2> QED BY <1>3, <2>2, <2>3, IdleCtl
<1> QED BY <1>2, <1>3, PromoteMoves

(* free: the handle is gone, or has no blocks any more. *)
LEMMA FreedMoves ==
    ASSUME TypeOK, Counting, NEW x \in Tensor,
           NEW keep \in SUBSET Ids(handle[x].blocks), Freed(x, keep)
    PROVE  /\ Counting' /\ resident' \in 0..Capacity /\ live' \subseteq live
           /\ live \ Ids(handle[x].blocks) \subseteq live'
           /\ handle' \in [Tensor -> Handle] /\ handle'[x].blocks = <<>>
           /\ \A y \in Tensor : y # x => handle'[y] = handle[y]
<1>1. live' \subseteq live /\ live \ Ids(handle[x].blocks) \subseteq live'
  BY DEF Freed, DropBlocks
<1>2. CASE keep = {}
  <2>1. NoHandle \in Handle /\ handle' = [handle EXCEPT ![x] = NoHandle]
    BY <1>2, NoBlocks DEF Freed, NoHandle, Handle
  <2>2. HandleIs(x, FALSE, FALSE, FALSE, <<>>)
    <3>1. HandleIs(x, NoHandle.listed, NoHandle.res, NoHandle.dirty, NoHandle.blocks)
      BY <2>1, HandleMoves
    <3> QED BY <3>1 DEF NoHandle
  <2>3. resident' = IF handle[x].res THEN resident - 1 ELSE resident
    BY <1>2 DEF Freed
  <2>4. Counting' /\ resident' \in Nat
    BY <2>2, <2>3, CountMoves, HandleType
  <2>5. resident' \in 0..Capacity
    BY <2>3, <2>4, ConstantsAssumption DEF TypeOK
  <2> QED BY <1>1, <1>2, <2>2, <2>4, <2>5 DEF HandleIs
<1>3. CASE keep # {}
  <2> DEFINE r == [handle[x] EXCEPT !.blocks = <<>>]
  <2>1. /\ r \in Handle /\ r.listed = handle[x].listed /\ r.res = handle[x].res
        /\ r.dirty = handle[x].dirty /\ r.blocks = <<>>
    BY HandleType, NoBlocks DEF Handle
  <2>2. handle' = [handle EXCEPT ![x] = r] /\ resident' = resident
    BY <1>3 DEF Freed, Dropped, TypeOK
  <2>3. HandleIs(x, handle[x].listed, handle[x].res, handle[x].dirty, <<>>)
    <3> HIDE DEF r
    <3> QED BY <2>1, <2>2, HandleMoves
  <2>4. Counting'
    <3>1. handle[x].res => handle[x].listed
      BY DEF Counting
    <3> QED BY <2>2, <2>3, <3>1, CountMoves, HandleType
  <2> QED BY <1>1, <2>2, <2>3, <2>4 DEF HandleIs, TypeOK
<1> QED BY <1>2, <1>3

LEMMA UnwindKept ==
    ASSUME TypeOK, Ctl, Unwind(Main)
    PROVE  TypeOK' /\ Ctl'
<1>1. /\ main.pc = "error" /\ main.x \in Tensor /\ main.op # "none" /\ Workers
      /\ UNCHANGED <<leaseError, weights>> /\ Return(Main)
      /\ \/ stage' = [stage EXCEPT !.at = "failed"]
         \/ stage.at = "train" /\ UNCHANGED stage
  BY DEF Unwind, main, Ctl, Control, IdleThread
<1>2. MainIs("none", None, "idle", {}, None, <<>>)
  BY <1>1, ReturnMoves
<1>3. /\ stage' \in [at : Stage, old : Tensor \cup {None}, new : Tensor \cup {None}]
      /\ stage'.at \in {"train", "failed"}
  BY <1>1 DEF TypeOK, Stage
<1>4. ASSUME Counting', resident' \in 0..Capacity, live' \subseteq live,
             handle' \in [Tensor -> Handle],
             \A w \in weights : handle'[w].listed
      PROVE  TypeOK' /\ Ctl'
  <2>1. TypeOK'
    BY <1>1, <1>2, <1>3, <1>4 DEF MainIs, TypeOK
  <2>2. Transaction'
    BY <1>1, <1>2, <1>3, <1>4 DEF MainIs, Transaction
  <2> QED BY <1>2, <1>4, <2>1, <2>2, IdleCtl
<1>5. CASE UNCHANGED <<handle, live, resident>>
  BY <1>4, <1>5, SameCount DEF Ctl, Transaction, TypeOK
<1>6. ASSUME main.op \in {"offload", "publish"}, handle[main.x].listed,
             NEW keep \in SUBSET Ids(handle[main.x].blocks), Freed(main.x, keep)
      PROVE  TypeOK' /\ Ctl'
  <2>1. /\ Counting' /\ resident' \in 0..Capacity /\ live' \subseteq live
        /\ handle' \in [Tensor -> Handle]
        /\ \A y \in Tensor : y # main.x => handle'[y] = handle[y]
    BY <1>1, <1>6, FreedMoves DEF Ctl
  <2>2. main.x \notin weights
    BY <1>6 DEF Ctl, Control
  <2>3. \A w \in weights : handle'[w].listed
    BY <2>1, <2>2 DEF Ctl, Transaction, TypeOK
  <2> QED BY <1>4, <2>1, <2>3
<1> QED BY <1>5, <1>6 DEF Unwind, main

-----------------------------------------------------------------------------
(* The operations begin *)

LEMMA IdleFacts ==
    ASSUME TypeOK, Ctl, IsIdle(Main)
    PROVE  main = IdleThread /\ main.op = "none" /\ Workers
BY MainType DEF IsIdle, main, Ctl, Control

LEMMA OffloadMoves ==
    ASSUME TypeOK, Ctl, NEW op \in {"offload", "publish"}, NEW x \in Tensor,
           Offload(Main, op, x)
    PROVE  /\ MainIs(op, x, IF op = "offload" THEN "room" ELSE "write", {},
                     IF op = "offload" THEN None ELSE x, <<>>)
           /\ HandleIs(x, TRUE, FALSE, TRUE, <<>>)
           /\ ~handle[x].listed /\ ~handle[x].res /\ x \notin weights
<1>1. /\ IsIdle(Main) /\ ~handle[x].listed
      /\ Begin(Main, op, x, IF op = "offload" THEN "room" ELSE "write")
      /\ handle' = [handle EXCEPT ![x] = [NoHandle EXCEPT !.listed = TRUE,
                                                          !.dirty = TRUE]]
  BY DEF Offload
<1> DEFINE step == IF op = "offload" THEN "room" ELSE "write"
<1>2. op \in Op /\ step \in Step
  BY DEF Op, Step
<1>3. MainIs(op, x, step, {}, IF step = "write" THEN x ELSE None, <<>>)
  BY <1>1, <1>2, BeginMoves, IdleFacts
<1> DEFINE r == [NoHandle EXCEPT !.listed = TRUE, !.dirty = TRUE]
<1>4. /\ r \in Handle /\ r.listed = TRUE /\ r.res = FALSE /\ r.dirty = TRUE
      /\ r.blocks = <<>>
  BY NoBlocks DEF Handle, NoHandle
<1>5. HandleIs(x, TRUE, FALSE, TRUE, <<>>)
  <2> HIDE DEF r
  <2> QED BY <1>1, <1>4, HandleMoves DEF r
<1>6. ~handle[x].res /\ x \notin weights
  BY <1>1 DEF Ctl, Counting, Transaction
<1> QED BY <1>1, <1>3, <1>5, <1>6

LEMMA OffloadKept ==
    ASSUME TypeOK, Ctl, NEW op \in {"offload", "publish"}, NEW x \in Tensor,
           Offload(Main, op, x),
           op = "offload" => stage.at = "train" /\ stage' = stage,
           op = "publish" => stage.at = "publish"
                               /\ stage' = [stage EXCEPT !.at = "swap", !.new = x]
    PROVE  TypeOK' /\ Ctl'
<1>1. /\ MainIs(op, x, IF op = "offload" THEN "room" ELSE "write", {},
                IF op = "offload" THEN None ELSE x, <<>>)
      /\ HandleIs(x, TRUE, FALSE, TRUE, <<>>)
      /\ ~handle[x].listed /\ ~handle[x].res /\ x \notin weights
  BY OffloadMoves
<1>2. UNCHANGED <<live, resident, leaseError, weights>>
  BY DEF Offload
<1>3. Counting'
  <2>1. resident' = resident /\ handle[x].res = FALSE
    BY <1>1, <1>2, HandleType
  <2> QED BY <1>1, <2>1, CountMoves DEF Ctl
<1>4. /\ stage' \in [at : Stage, old : Tensor \cup {None}, new : Tensor \cup {None}]
      /\ op = "publish" => /\ stage'.at = "swap" /\ stage'.new = x
                           /\ stage'.old = stage.old
  BY DEF TypeOK, Stage
<1>5. TypeOK'
  BY <1>1, <1>2, <1>4 DEF MainIs, HandleIs, TypeOK
<1>6. \A y \in Tensor : handle[y].listed => handle'[y].listed
  BY <1>1 DEF HandleIs
<1>7. /\ main'.op = op /\ main'.x = x /\ main'.todo = {} /\ Workers'
      /\ main'.pc = IF op = "offload" THEN "room" ELSE "write"
      /\ op = "publish" => main'.tgt = x
      /\ handle'[x].listed /\ ~handle'[x].res /\ handle'[x].dirty
  BY <1>1 DEF MainIs, HandleIs
<1>8. Control'
  BY <1>1, <1>2, <1>7 DEF Control
<1>9. Own'
  <2>1. op = "publish" => ~Spills(Main)'
    BY <1>7 DEF Spills, main
  <2> QED BY <1>7, <2>1 DEF Own
<1>10. Room'
  BY <1>7 DEF Room
<1>11. Transaction'
  BY <1>1, <1>2, <1>4, <1>6, <1>7 DEF Ctl, Transaction, TypeOK
<1> QED BY <1>3, <1>5, <1>7, <1>8, <1>9, <1>10, <1>11 DEF Ctl

LEMMA RestoreKept ==
    ASSUME TypeOK, Ctl, NEW op \in {"restore", "transient"}, NEW x \in Tensor,
           Restore(Main, op, x),
           op = "restore" => stage.at = "train",
           op = "transient" => stage.at = "load"
    PROVE  TypeOK' /\ Ctl'
<1>1. /\ IsIdle(Main) /\ handle[x].listed
      /\ Begin(Main, op, x, IF handle[x].dirty THEN "error" ELSE "room")
      /\ handle[x].dirty \/ ~handle[x].res
      /\ UNCHANGED <<handle, live, resident, leaseError, weights, stage>>
  BY DEF Restore
<1> DEFINE step == IF handle[x].dirty THEN "error" ELSE "room"
<1>2. op \in Op /\ step \in Step /\ step # "write"
  BY DEF Op, Step
<1>3. MainIs(op, x, step, {}, None, <<>>)
  BY <1>1, <1>2, BeginMoves, IdleFacts
<1>4. TypeOK' /\ Counting' /\ InVram' = InVram
  BY <1>1, <1>3, SameCount DEF MainIs, TypeOK, Ctl
<1> QED
  BY <1>1, <1>3, <1>4 DEF Ctl, MainIs, Control, Own, Room, Transaction

LEMMA PrepareMoves ==
    ASSUME TypeOK, Ctl, NEW x \in Tensor, PrepareTransient(Main, x)
    PROVE  /\ MainIs("prepare", x, "write", {}, x, <<>>)
           /\ HandleIs(x, TRUE, TRUE, TRUE, handle[x].blocks)
           /\ handle[x].res /\ handle[x].listed
<1>1. /\ IsIdle(Main) /\ handle[x].res /\ handle[x].listed
      /\ Begin(Main, "prepare", x, "write")
      /\ handle' = [handle EXCEPT ![x].dirty = TRUE]
  BY DEF PrepareTransient, Ctl, Counting
<1>2. MainIs("prepare", x, "write", {}, x, <<>>)
  <2>1. "prepare" \in Op /\ "write" \in Step
    BY DEF Op, Step
  <2>2. MainIs("prepare", x, "write", {}, IF "write" = "write" THEN x ELSE None, <<>>)
    BY <1>1, <2>1, BeginMoves, IdleFacts
  <2> QED BY <2>2
<1> DEFINE r == [handle[x] EXCEPT !.dirty = TRUE]
<1>3. /\ r \in Handle /\ r.listed = TRUE /\ r.res = TRUE /\ r.dirty = TRUE
      /\ r.blocks = handle[x].blocks
  BY <1>1, HandleType DEF Handle
<1>4. handle' = [handle EXCEPT ![x] = r]
  BY <1>1 DEF TypeOK
<1>5. HandleIs(x, TRUE, TRUE, TRUE, handle[x].blocks)
  <2> HIDE DEF r
  <2> QED BY <1>3, <1>4, HandleMoves
<1> QED BY <1>1, <1>2, <1>5

LEMMA PrepareKept ==
    ASSUME TypeOK, Ctl, NEW x \in Tensor, PrepareTransient(Main, x),
           stage.at = "prepare"
    PROVE  TypeOK' /\ Ctl'
<1>1. UNCHANGED <<live, resident, leaseError, weights, stage>>
  BY DEF PrepareTransient
<1>0. /\ MainIs("prepare", x, "write", {}, x, <<>>)
      /\ HandleIs(x, TRUE, TRUE, TRUE, handle[x].blocks)
      /\ handle[x].res = TRUE /\ handle[x].listed
  BY PrepareMoves, HandleType
<1>2. Counting'
  <2>1. resident' = resident
    BY <1>1
  <2> QED BY <1>0, <2>1, CountMoves DEF Ctl
<1>3. TypeOK'
  BY <1>0, <1>1 DEF MainIs, HandleIs, TypeOK
<1>4. \A y \in Tensor : handle[y].listed => handle'[y].listed
  BY <1>0 DEF HandleIs
<1>5. /\ main'.op = "prepare" /\ main'.x = x /\ main'.tgt = x /\ main'.todo = {}
      /\ main'.pc = "write" /\ handle'[x].res /\ handle'[x].listed /\ Workers'
  BY <1>0 DEF MainIs, HandleIs
<1>6. Control' /\ Own' /\ Room'
  BY <1>5 DEF Control, Own, Room
<1>7. Transaction'
  BY <1>1, <1>4, <1>5 DEF Transaction, Ctl, TypeOK
<1> QED BY <1>2, <1>3, <1>5, <1>6, <1>7 DEF Ctl

-----------------------------------------------------------------------------
(* Training and the transaction *)

LEMMA TrainKept ==
    ASSUME TypeOK, Ctl, Train
    PROVE  TypeOK' /\ Ctl'
BY OffloadKept, RestoreKept DEF Train

LEMMA FreeKept ==
    ASSUME TypeOK, Ctl, Free
    PROVE  TypeOK' /\ Ctl'
<1>1. /\ stage.at \in {"train", "failed"} /\ IsIdle(Main)
      /\ UNCHANGED <<leaseError, thread, weights, stage>>
  BY DEF Free
<1>2. PICK x \in Tensor \ weights :
        \E keep \in SUBSET Ids(handle[x].blocks) : Freed(x, keep)
  BY DEF Free
<1>3. /\ Counting' /\ resident' \in 0..Capacity /\ live' \subseteq live
      /\ handle' \in [Tensor -> Handle]
      /\ \A y \in Tensor : y # x => handle'[y] = handle[y]
  BY <1>2, FreedMoves DEF Ctl
<1>4. TypeOK' /\ main' = main
  BY <1>1, <1>3 DEF TypeOK, main
<1>5. Transaction'
  BY <1>1, <1>2, <1>3, <1>4, IdleFacts DEF Transaction, Ctl, TypeOK
<1>6. MainIs("none", None, "idle", {}, None, <<>>)
  BY <1>1, <1>4, IdleFacts DEF MainIs, TypeOK, Workers, IdleThread
<1> QED BY <1>3, <1>4, <1>5, <1>6, IdleCtl

LEMMA StartStepKept ==
    ASSUME TypeOK, Ctl, StartStep
    PROVE  TypeOK' /\ Ctl'
<1>1. /\ IsIdle(Main)
      /\ UNCHANGED <<handle, live, resident, leaseError, thread, weights>>
  BY DEF StartStep, At
<1>2. PICK w \in weights : stage' = [at |-> "prepare", old |-> w, new |-> None]
  BY DEF StartStep
<1>3. TypeOK' /\ main' = main /\ Counting'
  BY <1>1, <1>2, SameCount DEF TypeOK, Stage, main, Ctl
<1>4. Transaction'
  BY <1>1, <1>2, <1>3, IdleFacts DEF Transaction, Ctl
<1>5. MainIs("none", None, "idle", {}, None, <<>>)
  BY <1>1, <1>3, IdleFacts DEF MainIs, TypeOK, Workers, IdleThread
<1> QED BY <1>3, <1>4, <1>5, IdleCtl

LEMMA StepPrepareKept ==
    ASSUME TypeOK, Ctl, StepPrepare
    PROVE  TypeOK' /\ Ctl'
<1>1. stage.at = "prepare" /\ IsIdle(Main) /\ stage.old \in Tensor
  BY DEF StepPrepare, At, Ctl, Transaction, TypeOK
<1>2. CASE PrepareTransient(Main, stage.old)
  BY <1>1, <1>2, PrepareKept
<1>3. CASE /\ stage' = [stage EXCEPT !.at = "load"]
           /\ UNCHANGED <<handle, live, resident, leaseError, thread, weights>>
  <2>1. TypeOK' /\ main' = main /\ Counting'
    BY <1>3, SameCount DEF TypeOK, Stage, main, Ctl
  <2>2. stage'.at = "load" /\ stage'.old = stage.old
    BY <1>3 DEF TypeOK
  <2>3. Transaction'
    BY <1>1, <1>3, <2>1, <2>2, IdleFacts DEF Transaction, Ctl
  <2>4. MainIs("none", None, "idle", {}, None, <<>>)
    BY <1>1, <1>3, <2>1, IdleFacts DEF MainIs, TypeOK, Workers, IdleThread
  <2> QED BY <2>1, <2>3, <2>4, IdleCtl
<1> QED BY <1>2, <1>3 DEF StepPrepare

LEMMA StepLoadKept ==
    ASSUME TypeOK, Ctl, StepLoad
    PROVE  TypeOK' /\ Ctl'
<1>1. stage.at = "load" /\ stage.old \in Tensor /\ Restore(Main, "transient", stage.old)
  BY DEF StepLoad, At, Ctl, Transaction, TypeOK
<1> QED BY <1>1, RestoreKept

LEMMA StepPublishKept ==
    ASSUME TypeOK, Ctl, StepPublish
    PROVE  TypeOK' /\ Ctl'
BY OffloadKept DEF StepPublish, At

LEMMA StepSwapKept ==
    ASSUME TypeOK, Ctl, StepSwap
    PROVE  TypeOK' /\ Ctl'
<1>1. /\ stage.at = "swap" /\ IsIdle(Main)
      /\ weights' = (weights \ {stage.old}) \cup {stage.new}
      /\ stage' = [stage EXCEPT !.at = "release"]
      /\ UNCHANGED <<handle, live, resident, leaseError, thread>>
  BY DEF StepSwap, At
<1>2. /\ stage.old \in weights /\ stage.new \in Tensor \ weights
      /\ handle[stage.new].listed
  BY <1>1, IdleFacts DEF Ctl, Transaction
<1>3. stage'.at = "release" /\ stage'.old = stage.old
  BY <1>1 DEF TypeOK
<1>4. TypeOK' /\ main' = main /\ Counting'
  BY <1>1, <1>2, SameCount DEF TypeOK, Stage, main, Ctl
<1>5. Transaction'
  BY <1>1, <1>2, <1>3, <1>4, IdleFacts DEF Transaction, Ctl, TypeOK
<1>6. MainIs("none", None, "idle", {}, None, <<>>)
  BY <1>1, <1>4, IdleFacts DEF MainIs, TypeOK, Workers, IdleThread
<1> QED BY <1>4, <1>5, <1>6, IdleCtl

LEMMA StepReleaseKept ==
    ASSUME TypeOK, Ctl, StepRelease
    PROVE  TypeOK' /\ Ctl'
<1>1. /\ stage.at = "release" /\ IsIdle(Main) /\ stage.old \in Tensor \ weights
      /\ UNCHANGED <<leaseError, thread, weights>>
  BY DEF StepRelease, At, Ctl, Transaction
<1>2. PICK keep \in SUBSET Ids(handle[stage.old].blocks) :
        /\ Freed(stage.old, keep)
        /\ stage' = IF keep = {} THEN [at |-> "train", old |-> None, new |-> None]
                     ELSE [stage EXCEPT !.at = "failed"]
  BY DEF StepRelease
<1>3. /\ stage' \in [at : Stage, old : Tensor \cup {None}, new : Tensor \cup {None}]
      /\ stage'.at \in {"train", "failed"}
  BY <1>2 DEF TypeOK, Stage
<1>4. /\ Counting' /\ resident' \in 0..Capacity /\ live' \subseteq live
      /\ handle' \in [Tensor -> Handle]
      /\ \A y \in Tensor : y # stage.old => handle'[y] = handle[y]
  BY <1>1, <1>2, FreedMoves DEF Ctl
<1>5. TypeOK' /\ main' = main
  BY <1>1, <1>3, <1>4 DEF TypeOK, main
<1>6. Transaction'
  BY <1>1, <1>3, <1>4, <1>5, IdleFacts DEF Transaction, Ctl, TypeOK
<1>7. MainIs("none", None, "idle", {}, None, <<>>)
  BY <1>1, <1>5, IdleFacts DEF MainIs, TypeOK, Workers, IdleThread
<1> QED BY <1>4, <1>5, <1>6, <1>7, IdleCtl

-----------------------------------------------------------------------------
(* Renewal and leases *)

(* The renewal replaces the dicts of the blocks, not what they stand for. *)
RenewedFrom(x) ==
    /\ handle'[x].listed = handle[x].listed
    /\ handle'[x].res = handle[x].res
    /\ handle'[x].dirty = handle[x].dirty
    /\ handle'[x].blocks \in Seq(Block)
    /\ Len(handle'[x].blocks) = Len(handle[x].blocks)
    /\ \A i \in 1..Len(handle[x].blocks) :
         /\ handle'[x].blocks[i].id = handle[x].blocks[i].id
         /\ handle'[x].blocks[i].part = handle[x].blocks[i].part
         /\ handle'[x].blocks[i].stray = handle[x].blocks[i].stray
         /\ handle[x].listed => handle'[x].blocks[i].renewed
         /\ ~handle[x].listed => handle'[x].blocks[i] = handle[x].blocks[i]

LEMMA RenewMoves ==
    ASSUME TypeOK, NEW x \in Tensor,
           handle' = [y \in Tensor |-> IF y \in Listed
                 THEN [handle[y] EXCEPT !.blocks = Renewed(y)] ELSE handle[y]]
    PROVE  RenewedFrom(x) /\ handle'[x] \in Handle
<1>1. handle[x] \in Handle /\ handle[x].blocks \in Seq(Block)
  BY HandleType
<1>2. PICK s \in Seq(Block) : s = handle[x].blocks
  BY <1>1
<1>3. CASE handle[x].listed
  <2>1. PICK new : new = [i \in 1..Len(s) |-> [s[i] EXCEPT !.renewed = TRUE]]
    OBVIOUS
  <2>2. Renewed(x) = new
    BY <1>2, <2>1 DEF Renewed
  <2>3. \A i \in 1..Len(s) :
          /\ new[i] \in Block /\ new[i].id = s[i].id /\ new[i].part = s[i].part
          /\ new[i].renewed = TRUE /\ new[i].stray = s[i].stray
    <3> SUFFICES ASSUME NEW i \in 1..Len(s)
                 PROVE  /\ new[i] \in Block /\ new[i].id = s[i].id
                        /\ new[i].part = s[i].part /\ new[i].renewed = TRUE
                        /\ new[i].stray = s[i].stray
      OBVIOUS
    <3>1. s[i] \in Block /\ new[i] = [s[i] EXCEPT !.renewed = TRUE]
      BY <2>1
    <3> QED BY <3>1 DEF Block
  <2>4. new \in Seq(Block) /\ Len(new) = Len(s)
    <3>1. Len(s) \in Nat /\ new \in [1..Len(s) -> Block]
      BY <2>1, <2>3
    <3> QED BY <3>1
  <2>5. handle'[x] = [handle[x] EXCEPT !.blocks = new]
    BY <1>3, <2>2 DEF Listed
  <2>6. /\ handle'[x] \in Handle /\ handle'[x].blocks = new
        /\ handle'[x].listed = handle[x].listed
        /\ handle'[x].res = handle[x].res /\ handle'[x].dirty = handle[x].dirty
    BY <1>1, <2>4, <2>5 DEF Handle
  <2> QED BY ZenonT(60), <1>2, <1>3, <2>3, <2>4, <2>6 DEF RenewedFrom
<1>4. CASE ~handle[x].listed
  <2>1. handle'[x] = handle[x]
    BY <1>4 DEF Listed
  <2> QED BY <1>1, <1>4, <2>1 DEF RenewedFrom
<1> QED BY <1>3, <1>4

LEMMA RenewKept ==
    ASSUME TypeOK, Ctl, Renew
    PROVE  TypeOK' /\ Ctl'
<1>1. UNCHANGED <<live, resident, thread, weights, stage>> /\ leaseError' \in BOOLEAN
  BY DEF Renew, TypeOK
<1>2. /\ handle' \in [Tensor -> Handle]
      /\ \A x \in Tensor : /\ handle'[x].listed = handle[x].listed
                           /\ handle'[x].res = handle[x].res
                           /\ handle'[x].dirty = handle[x].dirty
  <2>1. CASE handle' = handle
    BY <2>1 DEF TypeOK
  <2>2. CASE handle' = [y \in Tensor |-> IF y \in Listed
                 THEN [handle[y] EXCEPT !.blocks = Renewed(y)] ELSE handle[y]]
    <3>1. \A x \in Tensor : RenewedFrom(x) /\ handle'[x] \in Handle
      BY <2>2, RenewMoves
    <3>2. handle' = [x \in Tensor |-> handle'[x]]
      BY <2>2
    <3> QED BY <3>1, <3>2 DEF RenewedFrom
  <2> QED BY <2>1, <2>2 DEF Renew
<1>3. TypeOK' /\ main' = main
  BY <1>1, <1>2 DEF TypeOK, main
<1>4. Counting' /\ InVram' = InVram
  BY <1>1, <1>2 DEF Ctl, Counting, InVram
<1>5. (Spills(Main)' <=> Spills(Main)) /\ Workers'
  BY <1>1 DEF Spills, Workers, Ctl
<1>6. Own'
  BY <1>2, <1>3, <1>4, <1>5 DEF Own, Ctl, Control
<1>7. Transaction'
  BY <1>1, <1>2, <1>3 DEF Transaction, Ctl, TypeOK
<1>8. Control' /\ Room'
  BY <1>1, <1>3 DEF Control, Room, Ctl
<1> QED BY <1>3, <1>4, <1>5, <1>6, <1>7, <1>8 DEF Ctl

LEMMA LeaseKept ==
    ASSUME TypeOK, Ctl, LeaseRunsOut
    PROVE  TypeOK' /\ Ctl'
BY DEF LeaseRunsOut, TypeOK, Ctl, Workers, Control, Own, Room, Counting,
   Transaction, main, InVram, Spills

-----------------------------------------------------------------------------
(* The start, and every step *)

(* The weights that do not start in VRAM have blocks of their own. *)
InitFrom(r, at) ==
    /\ IsInjective(at)
    /\ Cardinality(r) <= Capacity
    /\ resident = Cardinality(r)
    /\ live = Range(at)
    /\ \A x \in Tensor :
         /\ handle[x].listed <=> x \in Initial
         /\ handle[x].res <=> x \in r
         /\ x \notin Initial \ r => handle[x].blocks = <<>>
         /\ x \in Initial \ r =>
              handle[x].blocks = [k \in 1..Parts |-> [id |-> at[<<x, k>>],
                                    part |-> k, renewed |-> FALSE, stray |-> FALSE]]

LEMMA InitIs ==
    ASSUME Init
    PROVE  /\ \E r \in SUBSET Initial :
                \E at \in [(Initial \ r) \X (1..Parts) -> Id] : InitFrom(r, at)
           /\ handle \in [Tensor -> Handle]
<1>1. PICK r \in SUBSET Initial :
        LET at == CHOOSE f \in [(Initial \ r) \X (1..Parts) -> Id] : IsInjective(f)
        IN  /\ Cardinality(r) <= Capacity
            /\ resident = Cardinality(r)
            /\ live = Range(at)
            /\ handle = [x \in Tensor |-> [listed |-> x \in Initial,
                   res |-> x \in r, dirty |-> FALSE,
                   blocks |-> IF x \notin Initial \ r THEN <<>>
                              ELSE [k \in 1..Parts |-> [id |-> at[<<x, k>>],
                                      part |-> k, renewed |-> FALSE, stray |-> FALSE]]]]
  BY DEF Init
<1> DEFINE D == (Initial \ r) \X (1..Parts)
<1>2. \E f \in [D -> Id] : IsInjective(f)
  <2>1. PICK g \in [Initial \X (1..Parts) -> Id] : IsInjective(g)
    BY ConstantsAssumption
  <2>2. D \subseteq Initial \X (1..Parts)
    OBVIOUS
  <2> HIDE DEF D
  <2>3. [d \in D |-> g[d]] \in [D -> Id] /\ IsInjective([d \in D |-> g[d]])
    BY <2>1, <2>2 DEF IsInjective
  <2> QED BY <2>3
<1> DEFINE at == CHOOSE f \in [D -> Id] : IsInjective(f)
<1>3. at \in [D -> Id] /\ IsInjective(at)
  <2> HIDE DEF D
  <2> QED BY <1>2
<1>4. /\ Cardinality(r) <= Capacity /\ resident = Cardinality(r) /\ live = Range(at)
      /\ handle = [x \in Tensor |-> [listed |-> x \in Initial,
                   res |-> x \in r, dirty |-> FALSE,
                   blocks |-> IF x \notin Initial \ r THEN <<>>
                              ELSE [k \in 1..Parts |-> [id |-> at[<<x, k>>],
                                      part |-> k, renewed |-> FALSE, stray |-> FALSE]]]]
  BY <1>1
<1> HIDE DEF at
<1>5. ASSUME NEW x \in Tensor
      PROVE  /\ handle[x].listed <=> x \in Initial
             /\ handle[x].res <=> x \in r
             /\ x \notin Initial \ r => handle[x].blocks = <<>>
             /\ x \in Initial \ r =>
                  handle[x].blocks = [k \in 1..Parts |-> [id |-> at[<<x, k>>],
                                        part |-> k, renewed |-> FALSE, stray |-> FALSE]]
             /\ handle[x] \in Handle
  <2> DEFINE new == [k \in 1..Parts |-> [id |-> at[<<x, k>>], part |-> k,
                                         renewed |-> FALSE, stray |-> FALSE]]
             s == IF x \notin Initial \ r THEN <<>> ELSE new
  <2>1. handle[x] = [listed |-> x \in Initial, res |-> x \in r, dirty |-> FALSE,
                     blocks |-> s]
    BY <1>4
  <2>2. s \in Seq(Block)
    <3>1. CASE x \in Initial \ r
      <4>1. \A k \in 1..Parts : at[<<x, k>>] \in Id
        BY <1>3, <3>1
      <4>2. \A k \in 1..Parts :
              [id |-> at[<<x, k>>], part |-> k, renewed |-> FALSE, stray |-> FALSE] \in Block
        BY <4>1 DEF Block
      <4>3. new \in [1..Parts -> Block]
        BY <4>2
      <4>4. new \in Seq(Block)
        <5> HIDE DEF new
        <5> QED BY <4>3, ConstantsAssumption
      <4> QED BY <3>1, <4>4
    <3>2. CASE x \notin Initial \ r
      BY <3>2, NoBlocks
    <3> QED BY <3>1, <3>2
  <2>3. /\ x \notin Initial \ r => s = <<>>
        /\ x \in Initial \ r => s = new
    OBVIOUS
  <2> HIDE DEF s
  <2>4. handle[x] \in Handle
    BY <2>1, <2>2 DEF Handle
  <2>5. (handle[x].listed <=> x \in Initial) /\ (handle[x].res <=> x \in r)
    <3>1. PICK l \in BOOLEAN : l <=> x \in Initial
      OBVIOUS
    <3>2. PICK v \in BOOLEAN : v <=> x \in r
      OBVIOUS
    <3>3. handle[x] = [listed |-> l, res |-> v, dirty |-> FALSE, blocks |-> s]
      BY <2>1, <3>1, <3>2
    <3> QED BY <3>1, <3>2, <3>3
  <2>6. handle[x].blocks = s
    BY <2>1
  <2> QED BY <2>3, <2>4, <2>5, <2>6
<1>6. handle \in [Tensor -> Handle]
  <2>1. handle = [x \in Tensor |-> handle[x]]
    BY <1>4
  <2> QED BY <1>5, <2>1
<1>7. InitFrom(r, at)
  BY <1>3, <1>4, <1>5 DEF InitFrom
<1> QED BY <1>3, <1>6, <1>7

LEMMA InitKept ==
    ASSUME Init
    PROVE  TypeOK /\ Ctl
<1>1. PICK r \in SUBSET Initial :
        \E at \in [(Initial \ r) \X (1..Parts) -> Id] : InitFrom(r, at)
  BY InitIs
<1>2. PICK at \in [(Initial \ r) \X (1..Parts) -> Id] : InitFrom(r, at)
  BY <1>1
<1>3. /\ leaseError = FALSE /\ thread = [t \in Thread |-> IdleThread]
      /\ weights = Initial
      /\ stage = [at |-> "train", old |-> None, new |-> None]
  BY DEF Init
<1>4. r \in SUBSET Tensor /\ Initial \subseteq Tensor
  BY ConstantsAssumption
<1>5. live \subseteq Id
  BY <1>2 DEF InitFrom, Range
<1>6. resident \in 0..Capacity
  BY <1>2, <1>4, VramFinite, ConstantsAssumption DEF InitFrom
<1>7. thread \in [Thread -> ThreadState]
  BY <1>3, IdleThreadType
<1>8. stage \in [at : Stage, old : Tensor \cup {None}, new : Tensor \cup {None}]
  BY <1>3 DEF Stage
<1>9. TypeOK
  BY <1>3, <1>4, <1>5, <1>6, <1>7, <1>8, InitIs DEF TypeOK
<1>10. main = IdleThread /\ Workers
  BY <1>3 DEF main, Workers, Thread
<1>11. Counting
  <2>1. InVram = r /\ \A x \in Tensor : handle[x].res => handle[x].listed
    BY <1>2, <1>4 DEF InitFrom, InVram
  <2> QED BY <1>2, <2>1 DEF InitFrom, Counting
<1>12. Transaction
  <2>1. \A w \in weights : handle[w].listed
    BY <1>2, <1>3, <1>4 DEF InitFrom
  <2> QED BY <1>3, <1>10, <2>1 DEF Transaction, IdleThread
<1> QED
  BY <1>9, <1>10, <1>11, <1>12 DEF Ctl, Control, Own, Room, IdleThread

(* Only the training thread runs an operation. *)
LEMMA OnlyMain ==
    ASSUME Workers, NEW t \in Thread, Running(t)
    PROVE  t = Main
<1> SUFFICES ASSUME t \in Prefetch PROVE FALSE
  BY DEF Thread
<1>1. thread[t].pc = "idle"
  BY DEF Workers, IdleThread
<1> QED
  BY <1>1 DEF Running, MakeRoom, Retain, EvictNext, Evicted, PutBlock, PutFails,
              Undo, Written, EnsureCapacity, ReadBlocks, Promote, Unwind

LEMMA NextKept ==
    ASSUME TypeOK, Ctl, [Next]_vars
    PROVE  TypeOK' /\ Ctl'
<1>1. CASE \E t \in Thread : Running(t)
  <2>1. Running(Main)
    BY <1>1, OnlyMain DEF Ctl
  <2> QED
    BY <2>1, MakeRoomKept, RetainKept, EvictNextKept, EvictedKept, PutBlockKept,
       PutFailsKept, UndoKept, WrittenKept, EnsureCapacityKept, ReadBlocksKept,
       PromoteKept, UnwindKept DEF Running
<1>2. CASE UNCHANGED vars
  <2>1. main' = main /\ Workers'
    BY <1>2 DEF vars, main, Workers, Ctl
  <2>2. TypeOK'
    BY <1>2 DEF vars, TypeOK
  <2>3. Counting' /\ InVram' = InVram
    BY <1>2, SameCount DEF vars, Ctl
  <2>4. Spills(Main)' <=> Spills(Main)
    BY <1>2 DEF vars, Spills
  <2> QED
    BY <1>2, <2>1, <2>2, <2>3, <2>4 DEF vars, Ctl, Control, Own, Room, Transaction
<1> QED
  BY <1>1, <1>2, TrainKept, FreeKept, StartStepKept, StepPrepareKept, StepLoadKept,
     StepPublishKept, StepSwapKept, StepReleaseKept, RenewKept, LeaseKept DEF Next

LEMMA Controlled == Spec => [](TypeOK /\ Ctl)
<1>1. Init => TypeOK /\ Ctl
  BY InitKept
<1>2. TypeOK /\ Ctl /\ [Next]_vars => (TypeOK /\ Ctl)'
  BY NextKept
<1> QED BY <1>1, <1>2, PTL DEF Spec

(* The VRAM budget is kept and every list, operation and transaction stays *)
(* well formed, for any number of tensors, blocks and any budget           *)
(* (_try_retain, restore, _spill).                                         *)
THEOREM TypeCorrect == Spec => []TypeOK
BY Controlled, PTL

(* The residency counter is exact whenever no operation is under way,      *)
(* whatever failed before (_spill, restore, free).                         *)
THEOREM CounterExact == Spec => []ExactOwnership
<1>1. TypeOK /\ Ctl => ExactOwnership
  <2> SUFFICES ASSUME TypeOK, Ctl PROVE ExactOwnership
    OBVIOUS
  <2>1. {x \in Listed : handle[x].res} = InVram
    BY DEF Listed, InVram, Ctl, Counting
  <2> QED BY <2>1 DEF ExactOwnership, Ctl, Counting
<1> QED BY <1>1, Controlled, PTL

-----------------------------------------------------------------------------
(* The blocks *)

(* No two lists name the same block. *)
Apart ==
    \A x, y \in Tensor :
        x # y => Ids(handle[x].blocks) \cap Ids(handle[y].blocks) = {}

(* The blocks n of a write are the last of list s, in order. *)
WrittenLast(s, n) ==
    /\ Len(n) <= Parts /\ Len(n) <= Len(s)
    /\ \A k \in 1..Len(n) : /\ s[Len(s) - Len(n) + k].id = n[k].id
                            /\ s[Len(s) - Len(n) + k].part = k

(* The write recognises its own blocks in s, but for the renewed ones. *)
Recognised(s, n) ==
    \A i \in 1..Len(s) : s[i].id \in Ids(n) => s[i].renewed \/ s[i] \in ToSet(n)

Writing ==
    \A x \in Tensor : main.pc \in {"write", "undo"} /\ main.tgt = x =>
        /\ WrittenLast(handle[x].blocks, main.news)
        /\ Recognised(handle[x].blocks, main.news)
        /\ main.pc = "write" /\ ~leaseError => Ids(main.news) \subseteq live

Lists == Apart /\ Writing /\ ListedLive

(* The replacement is durable before it becomes the weight. *)
Published ==
    \A x \in Tensor : stage.at = "swap" /\ main.op = "none" /\ x = stage.new
                        => leaseError \/ handle[x].res \/ Stored(x)

Values == WeightDurable /\ Published

LEMMA IdsAre ==
    ASSUME NEW s \in Seq(Block)
    PROVE  /\ ToSet(s) = {s[i] : i \in 1..Len(s)}
           /\ \A i \in 1..Len(s) : s[i] \in Block /\ s[i] \in ToSet(s)
                                     /\ s[i].id \in Ids(s)
           /\ \A d \in Ids(s) : \E i \in 1..Len(s) : d = s[i].id
<1>1. ToSet(s) = {s[i] : i \in 1..Len(s)}
  BY DEF ToSet
<1>2. \A i \in 1..Len(s) : s[i] \in Block /\ s[i] \in ToSet(s)
  BY <1>1
<1>3. \A i \in 1..Len(s) : s[i].id \in Ids(s)
  BY <1>2 DEF Ids
<1>4. ASSUME NEW d \in Ids(s) PROVE \E i \in 1..Len(s) : d = s[i].id
  <2>1. PICK b \in ToSet(s) : d = b.id
    BY DEF Ids
  <2>2. PICK i \in 1..Len(s) : b = s[i]
    BY <1>1
  <2> QED BY <2>1, <2>2
<1> QED BY <1>1, <1>2, <1>3, <1>4

LEMMA NoIds == Ids(<<>>) = {} /\ ToSet(<<>>) = {}
<1>1. ToSet(<<>>) = {}
  BY DEF ToSet
<1> QED BY <1>1 DEF Ids

(* The lists in a state of the right type. *)
LEMMA BlocksType ==
    ASSUME TypeOK, NEW x \in Tensor
    PROVE  /\ handle[x].blocks \in Seq(Block) /\ Len(handle[x].blocks) \in Nat
           /\ \A i \in 1..Len(handle[x].blocks) :
                /\ handle[x].blocks[i] \in Block
                /\ handle[x].blocks[i] \in ToSet(handle[x].blocks)
                /\ handle[x].blocks[i].id \in Ids(handle[x].blocks)
           /\ \A d \in Ids(handle[x].blocks) :
                \E i \in 1..Len(handle[x].blocks) : d = handle[x].blocks[i].id
           /\ \A b \in ToSet(handle[x].blocks) : b.id \in Ids(handle[x].blocks)
<1>1. handle[x].blocks \in Seq(Block)
  BY HandleType
<1>2. PICK s \in Seq(Block) : s = handle[x].blocks
  BY <1>1
<1>3. \A b \in ToSet(s) : b.id \in Ids(s)
  BY DEF Ids
<1>4. Len(s) \in Nat
  OBVIOUS
<1> QED BY <1>2, <1>3, <1>4, IdsAre

(* A thread is in an undo only if it is the training thread. *)
LEMMA UndoIsMain ==
    ASSUME Workers, NEW x, NEW i
    PROVE  (\E t \in Thread : thread[t].pc = "undo" /\ thread[t].tgt = x
                               /\ i \in Ids(thread[t].news))
             <=> (main.pc = "undo" /\ main.tgt = x /\ i \in Ids(main.news))
BY DEF Workers, Thread, main, IdleThread

(* What a step that writes no block does to the lists: each is emptied, or *)
(* stays as it is and keeps its blocks.                                    *)
KeepsLists ==
    /\ leaseError' = leaseError
    /\ main.pc # "undo"
    /\ main'.pc \in {"write", "undo"} => main'.pc = "write" /\ main'.news = <<>>
    /\ \A y \in Tensor :
         \/ handle'[y].blocks = <<>>
         \/ /\ handle'[y].blocks = handle[y].blocks
            /\ handle'[y].listed => handle[y].listed
            /\ Ids(handle[y].blocks) \cap live \subseteq live'

LEMMA ListsCalm ==
    ASSUME TypeOK, Workers, Workers', Lists, KeepsLists
    PROVE  Lists'
<1>1. \A y \in Tensor : \/ handle'[y].blocks = <<>>
                          \/ /\ handle'[y].blocks = handle[y].blocks
                             /\ handle'[y].listed => handle[y].listed
                             /\ Ids(handle[y].blocks) \cap live \subseteq live'
  BY DEF KeepsLists
<1>2. Apart'
  <2>1. \A x \in Tensor : Ids(handle'[x].blocks) \subseteq Ids(handle[x].blocks)
    BY <1>1, NoIds
  <2> QED BY <2>1 DEF Apart, Lists
<1>3. main'.pc # "undo" /\ (main'.pc = "write" => main'.news = <<>>)
  BY DEF KeepsLists
<1>4. Writing'
  <2> SUFFICES ASSUME NEW x \in Tensor, main'.pc = "write"
               PROVE  /\ WrittenLast(handle'[x].blocks, <<>>)
                      /\ Recognised(handle'[x].blocks, <<>>)
                      /\ Ids(<<>>) \subseteq live'
    BY <1>3 DEF Writing
  <2>1. Len(handle'[x].blocks) \in Nat
    BY <1>1, BlocksType, NoBlocks
  <2>2. Len(<<>>) = 0 /\ Parts \in Nat
    BY NoBlocks, ConstantsAssumption
  <2>3. WrittenLast(handle'[x].blocks, <<>>)
    BY <2>1, <2>2 DEF WrittenLast
  <2> QED BY <2>3, NoIds DEF Recognised
<1>6. ListedLive'
  <2> SUFFICES ASSUME ~leaseError', NEW x \in Tensor, handle'[x].listed,
                      NEW b \in ToSet(handle'[x].blocks)
               PROVE  b.id \in live' \/ b.stray
    BY DEF ListedLive, Listed
  <2>1. /\ b \in ToSet(handle[x].blocks) /\ handle[x].listed
        /\ Ids(handle[x].blocks) \cap live \subseteq live'
    BY <1>1, NoIds
  <2>2. b.id \in live \/ b.stray
    <3>1. ~leaseError /\ main.pc # "undo" /\ x \in Listed
      BY <2>1 DEF KeepsLists, Listed
    <3>2. \/ b.id \in live \/ b.stray
          \/ \E t \in Thread : thread[t].pc = "undo" /\ thread[t].tgt = x
                                /\ b.id \in Ids(thread[t].news)
      BY <2>1, <3>1 DEF Lists, ListedLive
    <3> QED BY <3>1, <3>2, UndoIsMain
  <2> QED BY <2>1, <2>2, BlocksType
<1> QED BY <1>2, <1>4, <1>6 DEF Lists

(* The value of x stays where it is. *)
KeepsValue(x) ==
    \/ handle'[x].res
    \/ /\ handle[x].res => handle'[x].res
       /\ handle'[x].blocks = handle[x].blocks
       /\ Ids(handle[x].blocks) \cap live \subseteq live'

LEMMA ValueKept ==
    ASSUME TypeOK, NEW x \in Tensor, KeepsValue(x), handle[x].res \/ Stored(x)
    PROVE  handle'[x].res \/ Stored(x)'
<1> SUFFICES ASSUME ~handle'[x].res PROVE Stored(x)'
  OBVIOUS
<1>1. PICK s \in Seq(Block) : s = handle[x].blocks /\ s = handle'[x].blocks
  BY BlocksType DEF KeepsValue
<1>2. Len(s) >= Parts /\ \A k \in 1..Parts : /\ s[Len(s) - Parts + k].id \in live
                                             /\ s[Len(s) - Parts + k].part = k
  BY <1>1 DEF Stored, KeepsValue
<1>3. \A k \in 1..Parts : s[Len(s) - Parts + k].id \in live'
  <2> SUFFICES ASSUME NEW k \in 1..Parts
               PROVE  s[Len(s) - Parts + k].id \in live'
    OBVIOUS
  <2>1. Len(s) - Parts + k \in 1..Len(s)
    BY <1>2, ConstantsAssumption
  <2>2. s[Len(s) - Parts + k].id \in Ids(s)
    BY <2>1, IdsAre
  <2> QED BY <1>1, <1>2, <2>2 DEF KeepsValue
<1> QED BY <1>1, <1>2, <1>3 DEF Stored

LEMMA ValuesCalm ==
    ASSUME TypeOK, Ctl', Values, weights' = weights, leaseError' = leaseError,
           \A w \in weights : KeepsValue(w),
           stage'.at # "swap" \/ main'.op # "none"
    PROVE  Values'
<1>1. \A w \in weights : handle'[w].listed
  BY DEF Ctl, Transaction
<1>2. ASSUME ~leaseError, NEW w \in weights PROVE handle'[w].res \/ Stored(w)'
  <2>1. w \in Tensor /\ (handle[w].res \/ Stored(w))
    BY <1>2 DEF TypeOK, Values, WeightDurable
  <2> QED BY <1>2, <2>1, ValueKept
<1>3. WeightDurable'
  BY <1>1, <1>2 DEF WeightDurable
<1> QED BY <1>3 DEF Values, Published

-----------------------------------------------------------------------------
(* Each step keeps the lists and the values *)

Blk == Lists /\ Values

(* No block and no residency is given up. *)
HandlesStill ==
    \A y \in Tensor : /\ handle'[y].blocks = handle[y].blocks
                      /\ handle'[y].listed => handle[y].listed
                      /\ handle[y].res => handle'[y].res

LEMMA StillKept ==
    ASSUME TypeOK, Ctl, Ctl', Blk, UNCHANGED <<live, leaseError, weights>>,
           HandlesStill,
           main.pc # "undo",
           main'.pc \in {"write", "undo"} => main'.pc = "write" /\ main'.news = <<>>,
           stage'.at # "swap" \/ main'.op # "none"
    PROVE  Blk'
<1>1. KeepsLists
  BY DEF HandlesStill, KeepsLists
<1>2. Lists'
  BY <1>1, ListsCalm DEF Blk, Ctl
<1>3. \A w \in weights : KeepsValue(w)
  BY DEF HandlesStill, KeepsValue, TypeOK
<1>4. Values'
  BY <1>3, ValuesCalm DEF Blk
<1> QED BY <1>2, <1>4 DEF Blk

LEMMA MakeRoomBlk ==
    ASSUME TypeOK, Ctl, Ctl', Blk, MakeRoom(Main)
    PROVE  Blk'
<1>1. /\ main.pc = "room" /\ main.op = "offload" /\ main.x \in Tensor /\ Workers
      /\ UNCHANGED <<handle, live, leaseError, weights, stage>>
  BY DEF MakeRoom, main, Ctl, Control
<1>2. main'.op # "none" /\ main'.pc # "undo" /\ (main'.pc = "write" => main'.news = <<>>)
  <2>1. CASE Goto(Main, "retain")
    <3>1. "retain" \in Step
      BY DEF Step
    <3> QED BY <1>1, <2>1, <3>1, GotoMoves DEF MainIs
  <2>2. ASSUME NEW v \in SUBSET Clean,
               thread' = [thread EXCEPT ![Main].pc = "evict", ![Main].todo = v]
        PROVE  main'.op # "none" /\ main'.pc = "evict"
    <3>1. v \in SUBSET Tensor
      BY DEF Clean, Listed
    <3>2. MainIs(main.op, main.x, "evict", v, main.tgt, main.news)
      BY <1>1, <2>2, <3>1, VictimsMoves
    <3> QED BY <1>1, <3>2 DEF MainIs
  <2>3. CASE WriteTo(Main, main.x)
    BY <1>1, <2>3, WriteToMoves DEF MainIs
  <2> QED BY <2>1, <2>2, <2>3 DEF MakeRoom, main
<1> QED BY <1>1, <1>2, StillKept DEF HandlesStill

LEMMA RetainBlk ==
    ASSUME TypeOK, Ctl, Ctl', Blk, Retain(Main)
    PROVE  Blk'
<1>1. /\ main.pc = "retain" /\ main.op = "offload" /\ main.x \in Tensor
      /\ UNCHANGED <<live, leaseError, weights, stage>> /\ Workers
      /\ stage.at = "train"
  BY MainType DEF Retain, main, Ctl, Control, Op, IdleThread, Transaction
<1>2. CASE /\ handle' = [handle EXCEPT ![main.x].res = TRUE, ![main.x].dirty = FALSE]
           /\ Return(Main)
  <2>1. main'.pc = "idle"
    BY <1>1, <1>2, ReturnMoves DEF MainIs
  <2>2. HandlesStill
    BY <1>1, <1>2, HandleType DEF TypeOK, Handle, HandlesStill
  <2>3. /\ UNCHANGED <<live, leaseError, weights>> /\ stage'.at # "swap"
        /\ main.pc # "undo" /\ main'.pc \notin {"write", "undo"}
    BY <1>1, <2>1
  <2> QED BY <2>2, <2>3, StillKept
<1>3. CASE WriteTo(Main, main.x) /\ UNCHANGED handle
  <2>1. main'.pc = "write" /\ main'.news = <<>>
    BY <1>1, <1>3, WriteToMoves DEF MainIs
  <2> QED BY <1>1, <1>3, <2>1, StillKept DEF HandlesStill
<1> QED BY <1>2, <1>3 DEF Retain, main

LEMMA EvictNextBlk ==
    ASSUME TypeOK, Ctl, Ctl', Blk, EvictNext(Main)
    PROVE  Blk'
<1>1. /\ main.pc = "evict" /\ main.op # "none" /\ main.todo \in SUBSET Tensor
      /\ UNCHANGED <<live, leaseError, weights, stage>>
  BY MainType DEF EvictNext, main, Ctl, Control, IdleThread
<1>2. PICK v \in main.todo :
        /\ thread' = [thread EXCEPT
              ![Main].todo = @ \ {v},
              ![Main].pc = IF ~handle[v].listed THEN "error"
                           ELSE IF handle[v].res THEN "write" ELSE "evict",
              ![Main].tgt = v, ![Main].news = <<>>]
        /\ handle' = [handle EXCEPT ![v].dirty =
                                       @ \/ (handle[v].listed /\ handle[v].res)]
  BY DEF EvictNext, main
<1>3. main'.op = main.op /\ main'.pc # "undo" /\ main'.news = <<>>
  <2>1. main' = [main EXCEPT
              !.todo = @ \ {v},
              !.pc = IF ~handle[v].listed THEN "error"
                           ELSE IF handle[v].res THEN "write" ELSE "evict",
              !.tgt = v, !.news = <<>>]
    BY <1>2, MainType DEF main, TypeOK
  <2> QED BY <2>1, MainType DEF ThreadState
<1>4. HandlesStill
  <2> SUFFICES ASSUME NEW y \in Tensor
               PROVE  /\ handle'[y].blocks = handle[y].blocks
                      /\ handle'[y].listed => handle[y].listed
                      /\ handle[y].res => handle'[y].res
    BY DEF HandlesStill
  <2>1. PICK d : handle' = [handle EXCEPT ![v].dirty = d]
    BY <1>2
  <2>2. handle'[y] = handle[y] \/ handle'[y] = [handle[y] EXCEPT !.dirty = d]
    BY <1>1, <2>1 DEF TypeOK
  <2> QED BY <2>2, HandleType DEF Handle
<1>5. /\ UNCHANGED <<live, leaseError, weights>> /\ main'.op # "none"
      /\ main.pc # "undo"
  BY <1>1, <1>3
<1> QED BY <1>3, <1>4, <1>5, StillKept

LEMMA EvictedBlk ==
    ASSUME TypeOK, Ctl, Ctl', Blk, Evicted(Main)
    PROVE  Blk'
<1>1. /\ main.pc = "evict" /\ main.op # "none" /\ Workers
      /\ UNCHANGED <<handle, live, leaseError, weights, stage>>
  BY DEF Evicted, main, Ctl, Control, IdleThread
<1>2. PICK step \in {"retain", "room"} : Goto(Main, step)
  BY DEF Evicted, main
<1>3. main'.op = main.op /\ main'.pc = step
  BY <1>1, <1>2, GotoMoves DEF Step, MainIs
<1> QED BY <1>1, <1>2, <1>3, StillKept DEF HandlesStill

LEMMA EnsureCapacityBlk ==
    ASSUME TypeOK, Ctl, Ctl', Blk, EnsureCapacity(Main)
    PROVE  Blk'
<1>1. /\ main.pc = "room" /\ main.op # "none" /\ Workers
      /\ UNCHANGED <<handle, live, leaseError, weights, stage>>
  BY DEF EnsureCapacity, main, Ctl, Control, IdleThread
<1>2. main'.op = main.op /\ main'.pc \in {"read", "evict", "error"}
  <2>1. CASE Goto(Main, "read")
    <3>1. "read" \in Step
      BY DEF Step
    <3> QED BY <1>1, <2>1, <3>1, GotoMoves DEF MainIs
  <2>2. ASSUME NEW v \in SUBSET (Clean \ {main.x}),
               thread' = [thread EXCEPT ![Main].pc = "evict", ![Main].todo = v]
        PROVE  main'.op = main.op /\ main'.pc = "evict"
    <3>1. v \in SUBSET Tensor
      BY DEF Clean, Listed
    <3>2. MainIs(main.op, main.x, "evict", v, main.tgt, main.news)
      BY <1>1, <2>2, <3>1, VictimsMoves
    <3> QED BY <1>1, <3>2 DEF MainIs
  <2>3. CASE Raise(Main)
    BY <1>1, <2>3, RaiseMoves DEF MainIs
  <2> QED BY <2>1, <2>2, <2>3 DEF EnsureCapacity, main
<1> QED BY <1>1, <1>2, StillKept DEF HandlesStill

LEMMA ReadBlocksBlk ==
    ASSUME TypeOK, Ctl, Ctl', Blk, ReadBlocks(Main)
    PROVE  Blk'
<1>1. /\ main.pc = "read" /\ main.op # "none" /\ Workers
      /\ UNCHANGED <<handle, live, leaseError, weights, stage>>
  BY DEF ReadBlocks, main, Ctl, Control, IdleThread
<1>2. PICK step \in {"promote", "error"} : Goto(Main, step)
  BY DEF ReadBlocks, Raise, Goto
<1>3. main'.op = main.op /\ main'.pc = step
  BY <1>1, <1>2, GotoMoves DEF Step, MainIs
<1> QED BY <1>1, <1>2, <1>3, StillKept DEF HandlesStill

(* The blocks of x are dropped, and nothing else is. *)
LEMMA DroppedKept ==
    ASSUME TypeOK, Ctl, Ctl', Blk, NEW x \in Tensor,
           x \notin weights \/ handle'[x].res,
           handle'[x].blocks = <<>>,
           \A y \in Tensor : y # x => handle'[y] = handle[y],
           live \ Ids(handle[x].blocks) \subseteq live',
           UNCHANGED <<leaseError, weights>>,
           main.pc # "undo", main'.pc \notin {"write", "undo"},
           stage'.at # "swap" \/ main'.op # "none"
    PROVE  Blk'
<1>1. \A y \in Tensor : y # x => Ids(handle[y].blocks) \cap live \subseteq live'
  BY DEF Blk, Lists, Apart
<1>2. KeepsLists
  BY <1>1 DEF KeepsLists
<1>3. Lists'
  BY <1>2, ListsCalm DEF Blk, Ctl
<1>4. \A w \in weights : KeepsValue(w)
  BY <1>1 DEF KeepsValue, TypeOK
<1>5. Values'
  BY <1>4, ValuesCalm DEF Blk
<1> QED BY <1>3, <1>5 DEF Blk

LEMMA PromoteBlk ==
    ASSUME TypeOK, Ctl, Ctl', Blk, Promote(Main)
    PROVE  Blk'
<1>1. /\ main.pc = "promote" /\ main.x \in Tensor
      /\ main.op \in {"restore", "transient"} /\ UNCHANGED <<leaseError, weights>>
  BY PromoteFacts DEF Promote, main
<1>2. CASE Moved
  <2>1. stage' = stage /\ stage.at = "train"
    BY <1>2 DEF Moved, Ctl, Transaction
  <2>2. main'.pc \in {"idle", "error"}
    BY <1>2 DEF Moved, MainIs
  <2>3. /\ handle'[main.x].res /\ handle'[main.x].blocks = <<>>
        /\ \A y \in Tensor : y # main.x => handle'[y] = handle[y]
        /\ live \ Ids(handle[main.x].blocks) \subseteq live'
    BY <1>2 DEF Moved, HandleIs, DropBlocks
  <2> QED BY <1>1, <2>1, <2>2, <2>3, DroppedKept
<1>3. CASE /\ MainIs("none", None, "idle", {}, None, <<>>)
           /\ stage' = IF main.op = "transient"
                       THEN [stage EXCEPT !.at = "publish"] ELSE stage
           /\ UNCHANGED <<handle, live, resident>>
  <2>1. stage'.at # "swap" /\ main'.pc = "idle"
    BY <1>1, <1>3 DEF TypeOK, MainIs, Ctl, Transaction
  <2> QED BY <1>1, <1>3, <2>1, StillKept DEF HandlesStill
<1> QED BY <1>2, <1>3, PromoteMoves

LEMMA UnwindBlk ==
    ASSUME TypeOK, Ctl, Ctl', Blk, Unwind(Main)
    PROVE  Blk'
<1>1. /\ main.pc = "error" /\ main.x \in Tensor /\ Workers
      /\ UNCHANGED <<leaseError, weights>> /\ Return(Main)
      /\ \/ stage' = [stage EXCEPT !.at = "failed"]
         \/ stage.at = "train" /\ UNCHANGED stage
  BY DEF Unwind, main, Ctl, Control, IdleThread
<1>2. main'.pc = "idle" /\ stage'.at # "swap"
  BY <1>1, ReturnMoves DEF MainIs, TypeOK
<1>3. CASE UNCHANGED <<handle, live, resident>>
  BY <1>1, <1>2, <1>3, StillKept DEF HandlesStill
<1>4. ASSUME main.op \in {"offload", "publish"},
             NEW keep \in SUBSET Ids(handle[main.x].blocks), Freed(main.x, keep)
      PROVE  Blk'
  <2>1. /\ live \ Ids(handle[main.x].blocks) \subseteq live'
        /\ handle'[main.x].blocks = <<>>
        /\ \A y \in Tensor : y # main.x => handle'[y] = handle[y]
    BY <1>1, <1>4, FreedMoves DEF Ctl
  <2>2. main.x \notin weights
    BY <1>4 DEF Ctl, Control
  <2> QED BY <1>1, <1>2, <2>1, <2>2, DroppedKept
<1> QED BY <1>3, <1>4 DEF Unwind, main

(* A weight is written out from VRAM. *)
LEMMA WeightsLeaveVram ==
    ASSUME TypeOK, Ctl, main.pc \in {"write", "undo"}, NEW w \in weights, w = main.tgt
    PROVE  handle[w].res
<1>1. ~Spills(Main) => main.op \in {"offload", "publish"} /\ main.tgt = main.x
  BY WriteFacts
<1>2. main.op \in {"offload", "publish"} => main.x \notin weights
  BY DEF Ctl, Control
<1> QED BY <1>1, <1>2, WriteFacts

(* A list to which a fresh block is appended. *)
LEMMA AppendIs ==
    ASSUME NEW s \in Seq(Block), NEW b \in Block
    PROVE  /\ Append(s, b) \in Seq(Block) /\ Len(Append(s, b)) = Len(s) + 1
           /\ Append(s, b)[Len(s) + 1] = b
           /\ \A i \in 1..Len(s) : Append(s, b)[i] = s[i]
           /\ ToSet(Append(s, b)) = ToSet(s) \cup {b}
           /\ Ids(Append(s, b)) = Ids(s) \cup {b.id}
<1> DEFINE a == Append(s, b)
<1>1. /\ a \in Seq(Block) /\ Len(a) = Len(s) + 1 /\ a[Len(s) + 1] = b
      /\ \A i \in 1..Len(s) : a[i] = s[i]
  OBVIOUS
<1>2. Len(s) \in Nat /\ 1..(Len(s) + 1) = (1..Len(s)) \cup {Len(s) + 1}
  OBVIOUS
<1> HIDE DEF a
<1>3. ToSet(a) = ToSet(s) \cup {b}
  <2>1. ToSet(a) = {a[i] : i \in 1..Len(a)} /\ ToSet(s) = {s[i] : i \in 1..Len(s)}
    BY <1>1, IdsAre
  <2>2. ASSUME NEW e \in ToSet(a) PROVE e \in ToSet(s) \cup {b}
    <3>1. PICK i \in 1..Len(a) : e = a[i]
      BY <2>1
    <3> QED BY <1>1, <1>2, <2>1, <3>1
  <2>3. ASSUME NEW e \in ToSet(s) PROVE e \in ToSet(a)
    <3>1. PICK i \in 1..Len(s) : e = s[i]
      BY <2>1
    <3>2. i \in 1..Len(a) /\ e = a[i]
      BY <1>1, <1>2, <3>1
    <3> QED BY <2>1, <3>2
  <2>4. b \in ToSet(a)
    <3>1. Len(s) + 1 \in 1..Len(a)
      BY <1>1, <1>2
    <3> QED BY <1>1, <2>1, <3>1
  <2> QED BY <2>2, <2>3, <2>4
<1>4. Ids(a) = Ids(s) \cup {b.id}
  BY <1>3 DEF Ids
<1> QED BY <1>1, <1>3, <1>4 DEF a

LEMMA PutBlockBlk ==
    ASSUME TypeOK, Ctl, Ctl', Blk, PutBlock(Main)
    PROVE  Blk'
<1>1. /\ main.pc = "write" /\ main.tgt \in Tensor /\ Len(main.news) < Parts
      /\ UNCHANGED <<leaseError, weights, stage>> /\ main.op # "none"
      /\ main.news \in Seq(Block) /\ Len(main.news) \in Nat
  BY WriteFacts, MainType DEF PutBlock, main
<1>2. PICK b \in Block :
        /\ b.part = Len(main.news) + 1 /\ b.id \notin Used
        /\ live' = live \cup {b.id}
        /\ MainIs(main.op, main.x, main.pc, main.todo, main.tgt,
                  Append(main.news, b))
        /\ HandleIs(main.tgt, handle[main.tgt].listed, handle[main.tgt].res,
                    handle[main.tgt].dirty, Append(handle[main.tgt].blocks, b))
  BY PutBlockMoves
<1>3. PICK x \in Tensor : x = main.tgt
  BY <1>1
<1>4. PICK s \in Seq(Block) : s = handle[x].blocks
  BY BlocksType
<1>5. PICK n \in Seq(Block) : n = main.news
  BY <1>1
<1>6. /\ main'.pc = "write" /\ main'.tgt = x /\ main'.op # "none"
      /\ main'.news = Append(n, b)
  BY <1>1, <1>2, <1>3, <1>5 DEF MainIs
<1>7. /\ handle'[x].blocks = Append(s, b) /\ handle'[x].res = handle[x].res
      /\ handle'[x].listed = handle[x].listed
      /\ \A y \in Tensor : y # x => handle'[y] = handle[y]
  BY <1>2, <1>3, <1>4 DEF HandleIs
<1>8. \A y \in Tensor : b.id \notin Ids(handle[y].blocks)
  BY <1>2 DEF Used
<1>9. /\ WrittenLast(s, n) /\ Recognised(s, n)
      /\ ~leaseError => Ids(n) \subseteq live
  BY <1>1, <1>3, <1>4, <1>5 DEF Blk, Lists, Writing
<1>10. Apart'
  <2>1. /\ Ids(handle'[x].blocks) = Ids(handle[x].blocks) \cup {b.id}
        /\ \A y \in Tensor : y # x => Ids(handle'[y].blocks) = Ids(handle[y].blocks)
    BY <1>4, <1>7, AppendIs
  <2>2. \A y, z \in Tensor :
          y # z => Ids(handle[y].blocks) \cap Ids(handle[z].blocks) = {}
    BY DEF Apart, Blk, Lists
  <2>3. ASSUME NEW y \in Tensor, NEW z \in Tensor, y # z
        PROVE  Ids(handle'[y].blocks) \cap Ids(handle'[z].blocks) = {}
    <3>1. Ids(handle[y].blocks) \cap Ids(handle[z].blocks) = {}
      BY <2>2, <2>3
    <3>2. b.id \notin Ids(handle[y].blocks) /\ b.id \notin Ids(handle[z].blocks)
      BY <1>8
    <3>3. CASE y = x
      BY <2>1, <2>3, <3>1, <3>2, <3>3
    <3>4. CASE z = x
      BY <2>1, <2>3, <3>1, <3>2, <3>4
    <3>5. CASE y # x /\ z # x
      BY <2>1, <3>1, <3>5
    <3> QED BY <3>3, <3>4, <3>5
  <2> QED BY <2>3 DEF Apart
<1>11. WrittenLast(Append(s, b), Append(n, b))
  <2> DEFINE s2 == Append(s, b)  n2 == Append(n, b)
  <2>1. /\ Len(s2) = Len(s) + 1 /\ Len(n2) = Len(n) + 1
        /\ s2[Len(s) + 1] = b /\ n2[Len(n) + 1] = b
        /\ \A i \in 1..Len(s) : s2[i] = s[i]
        /\ \A i \in 1..Len(n) : n2[i] = n[i]
        /\ Len(s) \in Nat /\ Len(n) \in Nat
    BY AppendIs
  <2> HIDE DEF s2, n2
  <2>2. Len(n2) <= Parts /\ Len(n2) <= Len(s2) /\ Len(n) <= Len(s)
    BY <1>1, <1>5, <1>9, <2>1, ConstantsAssumption DEF WrittenLast
  <2>3. ASSUME NEW k \in 1..Len(n2)
        PROVE  /\ s2[Len(s2) - Len(n2) + k].id = n2[k].id
               /\ s2[Len(s2) - Len(n2) + k].part = k
    <3>1. Len(s2) - Len(n2) + k = Len(s) - Len(n) + k
      BY <2>1
    <3>2. CASE k = Len(n) + 1
      <4>1. Len(s) - Len(n) + k = Len(s) + 1
        BY <2>1, <3>2
      <4> QED BY <1>2, <1>5, <2>1, <3>1, <3>2, <4>1
    <3>3. CASE k \in 1..Len(n)
      <4>1. Len(s) - Len(n) + k \in 1..Len(s)
        BY <2>1, <2>2, <3>3
      <4>2. s2[Len(s) - Len(n) + k] = s[Len(s) - Len(n) + k] /\ n2[k] = n[k]
        BY <2>1, <3>3, <4>1
      <4>3. s[Len(s) - Len(n) + k].id = n[k].id /\ s[Len(s) - Len(n) + k].part = k
        BY <1>9, <3>3 DEF WrittenLast
      <4> QED BY <3>1, <4>2, <4>3
    <3> QED BY <2>1, <3>2, <3>3
  <2>4. WrittenLast(s2, n2)
    BY <2>2, <2>3 DEF WrittenLast
  <2> QED BY <2>4 DEF s2, n2
<1>12. Recognised(Append(s, b), Append(n, b))
  <2> DEFINE s2 == Append(s, b)  n2 == Append(n, b)
  <2>1. /\ Len(s2) = Len(s) + 1 /\ s2[Len(s) + 1] = b
        /\ \A i \in 1..Len(s) : s2[i] = s[i]
        /\ ToSet(n2) = ToSet(n) \cup {b} /\ Ids(n2) = Ids(n) \cup {b.id}
        /\ Len(s) \in Nat
    BY AppendIs
  <2>2. \A i \in 1..Len(s) : s[i].id # b.id
    BY <1>4, <1>8, IdsAre
  <2> HIDE DEF s2, n2
  <2>3. ASSUME NEW i \in 1..Len(s2), s2[i].id \in Ids(n2)
        PROVE  s2[i].renewed \/ s2[i] \in ToSet(n2)
    <3>1. CASE i = Len(s) + 1
      BY <2>1, <3>1
    <3>2. CASE i \in 1..Len(s)
      <4>1. s2[i] = s[i] /\ s[i].id \in Ids(n)
        BY <2>1, <2>2, <2>3, <3>2
      <4> QED BY <1>9, <2>1, <3>2, <4>1 DEF Recognised
    <3> QED BY <2>1, <3>1, <3>2
  <2>4. Recognised(s2, n2)
    BY <2>3 DEF Recognised
  <2> QED BY <2>4 DEF s2, n2
<1>13. Writing'
  <2>1. ~leaseError' => Ids(Append(n, b)) \subseteq live'
    BY <1>1, <1>2, <1>9, AppendIs
  <2>2. /\ WrittenLast(handle'[x].blocks, main'.news)
        /\ Recognised(handle'[x].blocks, main'.news)
        /\ ~leaseError' => Ids(main'.news) \subseteq live'
    BY <1>6, <1>7, <1>11, <1>12, <2>1
  <2> QED BY <1>6, <2>2 DEF Writing
<1>15. ListedLive'
  <2> SUFFICES ASSUME ~leaseError', NEW y \in Tensor, handle'[y].listed,
                      NEW e \in ToSet(handle'[y].blocks)
               PROVE  e.id \in live' \/ e.stray
    BY DEF ListedLive, Listed
  <2>1. e \in ToSet(handle[y].blocks) \/ e = b
    <3>1. ToSet(handle'[x].blocks) = ToSet(handle[x].blocks) \cup {b}
      BY <1>4, <1>7, AppendIs
    <3>2. y # x => ToSet(handle'[y].blocks) = ToSet(handle[y].blocks)
      BY <1>7
    <3> QED BY <3>1, <3>2
  <2>2. y \in Listed /\ ~leaseError
    BY <1>1, <1>7 DEF Listed
  <2>3. ~\E t \in Thread : thread[t].pc = "undo" /\ thread[t].tgt = y
                             /\ e.id \in Ids(thread[t].news)
    BY <1>1, UndoIsMain DEF Ctl
  <2>4. e \in ToSet(handle[y].blocks) => e.id \in live \/ e.stray
    BY <2>2, <2>3 DEF Blk, Lists, ListedLive
  <2> QED BY <1>2, <2>1, <2>4
<1>16. Values'
  <2>1. \A w \in weights : KeepsValue(w)
    <3> SUFFICES ASSUME NEW w \in weights PROVE KeepsValue(w)
      OBVIOUS
    <3>1. CASE w = x
      BY <1>1, <1>3, <1>7, <3>1, WeightsLeaveVram DEF KeepsValue
    <3>2. CASE w # x
      BY <1>2, <1>7, <3>2 DEF KeepsValue, TypeOK
    <3> QED BY <3>1, <3>2
  <2> QED BY <1>1, <1>6, <2>1, ValuesCalm DEF Blk
<1> QED BY <1>10, <1>13, <1>15, <1>16 DEF Blk, Lists

(* The blocks of a write are on the list it writes. *)
LEMMA NewsListed ==
    ASSUME NEW s \in Seq(Block), NEW n \in Seq(Block), WrittenLast(s, n)
    PROVE  Ids(n) \subseteq Ids(s)
<1> SUFFICES ASSUME NEW d \in Ids(n) PROVE d \in Ids(s)
  OBVIOUS
<1>1. PICK k \in 1..Len(n) : d = n[k].id
  BY IdsAre
<1>2. Len(s) - Len(n) + k \in 1..Len(s)
  BY DEF WrittenLast
<1>3. d = s[Len(s) - Len(n) + k].id
  BY <1>1 DEF WrittenLast
<1> QED BY <1>2, <1>3, IdsAre

LEMMA PutFailsBlk ==
    ASSUME TypeOK, Ctl, Ctl', Blk, PutFails(Main)
    PROVE  Blk'
<1>1. /\ main.pc = "write" /\ main.tgt \in Tensor /\ Workers
      /\ UNCHANGED <<handle, leaseError, weights, stage>> /\ main.op # "none"
      /\ handle[main.tgt].listed
      /\ main.news \in Seq(Block)
  BY WriteFacts, MainType DEF PutFails, main
<1>2. PICK gone \in SUBSET Ids(main.news) : live' = live \ gone
  BY DEF PutFails, main
<1>3. /\ main'.pc = "undo" /\ main'.tgt = main.tgt /\ main'.op = main.op
      /\ main'.news = main.news /\ Workers'
  <2>1. "undo" \in Step
    BY DEF Step
  <2> QED BY <1>1, <2>1, GotoMoves DEF PutFails, MainIs
<1>4. PICK x \in Tensor : x = main.tgt
  BY <1>1
<1>5. /\ WrittenLast(handle[x].blocks, main.news)
      /\ Recognised(handle[x].blocks, main.news)
  BY <1>1, <1>4 DEF Blk, Lists, Writing
<1>6. gone \subseteq Ids(handle[x].blocks)
  BY <1>1, <1>2, <1>5, NewsListed, BlocksType
<1>7. \A y \in Tensor : y # x => Ids(handle[y].blocks) \cap live \subseteq live'
  BY <1>2, <1>6 DEF Blk, Lists, Apart
<1>8. Apart'
  BY <1>1 DEF Apart, Blk, Lists
<1>9. Writing'
  BY <1>1, <1>3, <1>4, <1>5 DEF Writing
<1>10. \A y \in Tensor : ~leaseError /\ handle[y].listed =>
         \A b \in ToSet(handle[y].blocks) : b.id \in live \/ b.stray
  <2>1. ~\E t \in Thread : thread[t].pc = "undo"
    BY <1>1 DEF Workers, Thread, main, IdleThread
  <2> QED BY <2>1 DEF Blk, Lists, ListedLive, Listed
<1>12. ListedLive'
  <2> SUFFICES ASSUME ~leaseError', NEW y \in Tensor, handle'[y].listed,
                      NEW b \in ToSet(handle'[y].blocks)
               PROVE  \/ b.id \in live' \/ b.stray
                      \/ \E t \in Thread : thread'[t].pc = "undo" /\ thread'[t].tgt = y
                                            /\ b.id \in Ids(thread'[t].news)
    BY DEF ListedLive, Listed
  <2>1. b.id \in live \/ b.stray
    BY <1>1, <1>10
  <2>2. CASE y = x /\ b.id \in gone
    <3>1. /\ Main \in Thread /\ thread'[Main].pc = "undo" /\ thread'[Main].tgt = x
          /\ b.id \in Ids(thread'[Main].news)
      BY <1>2, <1>3, <1>4, <2>2 DEF main, Thread
    <3> QED BY <2>2, <3>1
  <2>3. CASE y # x
    BY <1>1, <1>7, <2>1, <2>3, BlocksType
  <2> QED BY <1>2, <2>1, <2>2, <2>3
<1>13. Values'
  <2>1. \A w \in weights : KeepsValue(w)
    <3> SUFFICES ASSUME NEW w \in weights PROVE KeepsValue(w)
      OBVIOUS
    <3>1. CASE w = x
      BY <1>1, <1>4, <3>1, WeightsLeaveVram DEF KeepsValue
    <3>2. CASE w # x
      BY <1>1, <1>7, <3>2 DEF KeepsValue, TypeOK
    <3> QED BY <3>1, <3>2
  <2> QED BY <1>1, <1>3, <2>1, ValuesCalm DEF Blk
<1> QED BY <1>8, <1>9, <1>12, <1>13 DEF Blk, Lists

LEMMA UndoBlk ==
    ASSUME TypeOK, Ctl, Ctl', Blk, Undo(Main)
    PROVE  Blk'
<1>1. /\ main.pc = "undo" /\ main.tgt \in Tensor
      /\ UNCHANGED <<live, leaseError, weights, stage>> /\ main.op # "none"
  BY WriteFacts DEF Undo, main
<1>2. PICK x \in Tensor : x = main.tgt
  BY <1>1
<1>3. /\ main'.pc = "error" /\ main'.op # "none"
      /\ handle'[x].blocks = MarkStray(Without(handle[x].blocks, ToSet(main.news)),
                                       Ids(main.news))
      /\ handle'[x].listed = handle[x].listed /\ handle'[x].res = handle[x].res
      /\ \A y \in Tensor : y # x => handle'[y] = handle[y]
  BY <1>1, <1>2, UndoMoves DEF MainIs, HandleIs
<1>4. PICK s \in Seq(Block) : s = handle[x].blocks
  BY BlocksType
<1>5. PICK r \in Seq(Block) : r = Without(s, ToSet(main.news))
  BY WithoutIs
<1>6. PICK m \in Seq(Block) : m = MarkStray(r, Ids(main.news))
  BY MarkStrayIs
<1>7. handle'[x].blocks = m
  BY <1>3, <1>4, <1>5, <1>6
<1>8. ASSUME NEW b \in ToSet(m)
      PROVE  \E i \in 1..Len(s) :
               /\ s[i] \in ToSet(s) /\ s[i] \notin ToSet(main.news) /\ b.id = s[i].id
               /\ b.stray <=> s[i].stray
                               \/ (s[i].renewed /\ s[i].id \in Ids(main.news))
  <2>1. PICK k \in 1..Len(m) : b = m[k]
    BY IdsAre
  <2>2. /\ k \in 1..Len(r) /\ b.id = r[k].id
        /\ b.stray <=> r[k].stray \/ (r[k].renewed /\ r[k].id \in Ids(main.news))
    BY <1>6, <2>1, MarkStrayIs
  <2>3. PICK i \in 1..Len(s) : r[k] = s[i] /\ s[i] \notin ToSet(main.news)
    <3>1. PICK gone : gone = ToSet(main.news)
      OBVIOUS
    <3>2. r = Without(s, gone)
      BY <1>5, <3>1
    <3>3. \A j \in 1..Len(Without(s, gone)) :
            \E i \in 1..Len(s) : Without(s, gone)[j] = s[i] /\ s[i] \notin gone
      BY WithoutIs
    <3> QED BY <2>2, <3>1, <3>2, <3>3
  <2> QED BY <2>2, <2>3, IdsAre
<1>9. Apart'
  <2>1. ASSUME NEW d \in Ids(m) PROVE d \in Ids(s)
    <3>1. PICK b \in ToSet(m) : d = b.id
      BY DEF Ids
    <3> QED BY <1>8, <3>1, IdsAre
  <2>2. \A y \in Tensor : Ids(handle'[y].blocks) \subseteq Ids(handle[y].blocks)
    BY <1>3, <1>4, <1>7, <2>1
  <2> QED BY <2>2 DEF Apart, Blk, Lists
<1>10. Writing'
  BY <1>3 DEF Writing
<1>11. ListedLive'
  <2> SUFFICES ASSUME ~leaseError', NEW y \in Tensor, handle'[y].listed,
                      NEW b \in ToSet(handle'[y].blocks)
               PROVE  b.id \in live' \/ b.stray
    BY DEF ListedLive, Listed
  <2>1. CASE y = x
    <3>1. PICK i \in 1..Len(s) :
            /\ s[i] \in ToSet(s) /\ s[i] \notin ToSet(main.news) /\ b.id = s[i].id
            /\ b.stray <=> s[i].stray
                            \/ (s[i].renewed /\ s[i].id \in Ids(main.news))
      BY <1>8, <1>7, <2>1
    <3>2. CASE s[i].id \in Ids(main.news)
      <4>1. Recognised(s, main.news)
        BY <1>1, <1>2, <1>4 DEF Blk, Lists, Writing
      <4>2. s[i].renewed
        BY <3>1, <3>2, <4>1 DEF Recognised
      <4> QED BY <3>1, <3>2, <4>2
    <3>3. CASE s[i].id \notin Ids(main.news)
      <4>1. x \in Listed /\ s[i] \in ToSet(handle[x].blocks) /\ ~leaseError
        BY <1>1, <1>3, <1>4, <2>1, <3>1 DEF Listed
      <4>2. ~\E t \in Thread : thread[t].pc = "undo" /\ thread[t].tgt = x
                                 /\ s[i].id \in Ids(thread[t].news)
        BY ZenonT(60), <3>3, UndoIsMain DEF Ctl
      <4>3. s[i].id \in live \/ s[i].stray
        BY <4>1, <4>2 DEF Blk, Lists, ListedLive
      <4> QED BY <1>1, <3>1, <4>3
    <3> QED BY <3>2, <3>3
  <2>2. CASE y # x
    <3>1. y \in Listed /\ b \in ToSet(handle[y].blocks) /\ ~leaseError
      BY <1>1, <1>3, <2>2 DEF Listed
    <3>2. ~\E t \in Thread : thread[t].pc = "undo" /\ thread[t].tgt = y
                               /\ b.id \in Ids(thread[t].news)
      BY <1>2, <2>2, UndoIsMain DEF Ctl
    <3>3. b.id \in live \/ b.stray
      BY <3>1, <3>2 DEF Blk, Lists, ListedLive
    <3> QED BY <1>1, <3>3
  <2> QED BY <2>1, <2>2
<1>12. Values'
  <2>1. \A w \in weights : KeepsValue(w)
    <3> SUFFICES ASSUME NEW w \in weights PROVE KeepsValue(w)
      OBVIOUS
    <3>1. CASE w = x
      BY <1>1, <1>2, <1>3, <3>1, WeightsLeaveVram DEF KeepsValue
    <3>2. CASE w # x
      BY <1>1, <1>3, <3>2 DEF KeepsValue, TypeOK
    <3> QED BY <3>1, <3>2
  <2> QED BY <1>1, <1>3, <2>1, ValuesCalm DEF Blk
<1> QED BY <1>9, <1>10, <1>11, <1>12 DEF Blk, Lists

LEMMA WrittenBlk ==
    ASSUME TypeOK, Ctl, Ctl', Blk, Written(Main)
    PROVE  Blk'
<1>1. /\ main.pc = "write" /\ main.tgt \in Tensor /\ Len(main.news) = Parts
      /\ UNCHANGED <<live, leaseError, weights, stage>> /\ main.op # "none"
      /\ main.news \in Seq(Block) /\ handle[main.tgt].listed
  BY WriteFacts, MainType DEF Written, AllWritten, main
<1>2. PICK x \in Tensor : x = main.tgt
  BY <1>1
<1>3. /\ \A y \in Tensor : handle'[y].blocks = handle[y].blocks
      /\ \A y \in Tensor : handle'[y].listed => handle[y].listed
      /\ \A y \in Tensor : y # x => handle'[y] = handle[y]
  BY <1>1, <1>2, WrittenMoves DEF HandleIs
<1>4. main'.pc \in {"evict", "idle"}
  BY WrittenMoves DEF MainIs
<1>5. Lists'
  <2>1. KeepsLists
    BY <1>1, <1>3, <1>4 DEF KeepsLists
  <2> QED BY <2>1, ListsCalm DEF Blk, Ctl
<1>6. ASSUME ~leaseError PROVE Stored(x)'
  <2>1. PICK s \in Seq(Block) : s = handle[x].blocks /\ s = handle'[x].blocks
    BY <1>3, BlocksType
  <2>2. PICK n \in Seq(Block) : n = main.news
    BY <1>1
  <2>3. WrittenLast(s, n) /\ Ids(n) \subseteq live /\ Len(n) = Parts
    BY <1>1, <1>2, <1>6, <2>1, <2>2 DEF Blk, Lists, Writing
  <2>4. \A k \in 1..Parts : /\ s[Len(s) - Parts + k].id \in live'
                            /\ s[Len(s) - Parts + k].part = k
    <3>1. \A k \in 1..Parts : n[k].id \in Ids(n)
      BY <2>3, IdsAre
    <3>2. \A k \in 1..Parts : /\ s[Len(s) - Parts + k].id = n[k].id
                              /\ s[Len(s) - Parts + k].part = k
      BY <2>3 DEF WrittenLast
    <3> QED BY <1>1, <2>3, <3>1, <3>2
  <2>5. Len(s) >= Parts
    BY <2>3, ConstantsAssumption DEF WrittenLast
  <2> QED BY <2>1, <2>4, <2>5 DEF Stored
<1>7. WeightDurable'
  <2>1. \A w \in weights : handle'[w].listed
    BY <1>1 DEF Ctl, Transaction
  <2>2. ASSUME ~leaseError, NEW w \in weights, w # x
        PROVE  handle'[w].res \/ Stored(w)'
    <3>1. w \in Tensor /\ (handle[w].res \/ Stored(w))
      BY <2>2 DEF TypeOK, Blk, Values, WeightDurable
    <3>2. KeepsValue(w)
      BY <1>1, <1>3, <2>2, <3>1 DEF KeepsValue
    <3> QED BY <3>1, <3>2, ValueKept
  <2> QED BY <1>1, <1>6, <2>1, <2>2 DEF WeightDurable
<1>8. Published'
  <2> SUFFICES ASSUME stage'.at = "swap", main'.op = "none", NEW y \in Tensor,
                      y = stage'.new, ~leaseError'
               PROVE  Stored(y)'
    BY DEF Published
  <2>1. main.op = "publish" /\ main.x = stage.new
    BY <1>1, MainType DEF Ctl, Transaction, Op
  <2>2. y = x
    <3>1. main.tgt = main.x
      BY <1>1, <2>1 DEF Ctl, Own
    <3> QED BY <1>1, <1>2, <2>1, <3>1
  <2> QED BY <1>1, <1>6, <2>2
<1> QED BY <1>5, <1>7, <1>8 DEF Blk, Values

LEMMA OffloadBlk ==
    ASSUME TypeOK, Ctl, Ctl', Blk, NEW op \in {"offload", "publish"},
           NEW x \in Tensor, Offload(Main, op, x)
    PROVE  Blk'
<1>1. /\ main'.op = op /\ main'.pc \in {"room", "write"} /\ main'.news = <<>>
      /\ handle'[x].blocks = <<>> /\ x \notin weights
      /\ \A y \in Tensor : y # x => handle'[y] = handle[y]
  <2>1. /\ MainIs(op, x, IF op = "offload" THEN "room" ELSE "write", {},
                     IF op = "offload" THEN None ELSE x, <<>>)
        /\ HandleIs(x, TRUE, FALSE, TRUE, <<>>) /\ x \notin weights
    BY OffloadMoves
  <2> QED BY <2>1 DEF MainIs, HandleIs
<1>2. UNCHANGED <<live, leaseError, weights>> /\ main.pc # "undo"
  BY DEF Offload, IsIdle, main
<1>3. Lists'
  <2>1. KeepsLists
    BY <1>1, <1>2 DEF KeepsLists
  <2> QED BY <2>1, ListsCalm DEF Blk, Ctl
<1>4. Values'
  <2>1. \A w \in weights : KeepsValue(w)
    BY <1>1, <1>2 DEF KeepsValue, TypeOK
  <2>2. main'.op # "none"
    BY <1>1
  <2> QED BY <1>2, <2>1, <2>2, ValuesCalm DEF Blk
<1> QED BY <1>3, <1>4 DEF Blk

LEMMA RestoreBlk ==
    ASSUME TypeOK, Ctl, Ctl', Blk, NEW op \in {"restore", "transient"},
           NEW x \in Tensor, Restore(Main, op, x)
    PROVE  Blk'
<1>1. /\ IsIdle(Main)
      /\ Begin(Main, op, x, IF handle[x].dirty THEN "error" ELSE "room")
      /\ UNCHANGED <<handle, live, leaseError, weights, stage>>
  BY DEF Restore
<1>2. PICK step \in {"error", "room"} : Begin(Main, op, x, step)
  BY <1>1
<1>3. op \in Op /\ step \in Step
  BY DEF Op, Step
<1>4. MainIs(op, x, step, {}, IF step = "write" THEN x ELSE None, <<>>)
  BY <1>1, <1>2, <1>3, BeginMoves, IdleFacts
<1>5. main'.op # "none" /\ main'.pc \notin {"write", "undo"} /\ main.pc # "undo"
  BY <1>1, <1>2, <1>4 DEF MainIs, IsIdle, main
<1> QED BY <1>1, <1>5, StillKept DEF HandlesStill

LEMMA PrepareBlk ==
    ASSUME TypeOK, Ctl, Ctl', Blk, NEW x \in Tensor, PrepareTransient(Main, x)
    PROVE  Blk'
<1>1. /\ MainIs("prepare", x, "write", {}, x, <<>>)
      /\ HandleIs(x, TRUE, TRUE, TRUE, handle[x].blocks)
      /\ handle[x].listed
  BY PrepareMoves
<1>2. UNCHANGED <<live, leaseError, weights>> /\ main.pc # "undo"
  BY DEF PrepareTransient, IsIdle, main
<1>3. main'.op # "none" /\ main'.pc = "write" /\ main'.news = <<>>
  BY <1>1 DEF MainIs
<1>4. HandlesStill
  BY <1>1 DEF HandleIs, HandlesStill
<1> QED BY <1>2, <1>3, <1>4, StillKept

LEMMA TrainBlk ==
    ASSUME TypeOK, Ctl, Ctl', Blk, Train
    PROVE  Blk'
BY OffloadBlk, RestoreBlk DEF Train

LEMMA FreeBlk ==
    ASSUME TypeOK, Ctl, Ctl', Blk, Free
    PROVE  Blk'
<1>1. /\ stage.at \in {"train", "failed"} /\ main.pc = "idle"
      /\ UNCHANGED <<leaseError, thread, weights, stage>>
  BY DEF Free, IsIdle, main
<1>2. PICK x \in Tensor \ weights :
        \E keep \in SUBSET Ids(handle[x].blocks) : Freed(x, keep)
  BY DEF Free
<1>3. /\ live \ Ids(handle[x].blocks) \subseteq live' /\ handle'[x].blocks = <<>>
      /\ \A y \in Tensor : y # x => handle'[y] = handle[y]
  BY <1>2, FreedMoves DEF Ctl
<1>4. main'.pc = "idle" /\ stage'.at # "swap"
  BY <1>1 DEF main
<1> QED BY <1>1, <1>2, <1>3, <1>4, DroppedKept

LEMMA StartStepBlk ==
    ASSUME TypeOK, Ctl, Ctl', Blk, StartStep
    PROVE  Blk'
<1>1. /\ main.pc = "idle" /\ stage'.at = "prepare"
      /\ UNCHANGED <<handle, live, leaseError, thread, weights>>
  BY DEF StartStep, At, IsIdle, main
<1>2. main'.pc = "idle"
  BY <1>1 DEF main
<1> QED BY <1>1, <1>2, StillKept DEF HandlesStill

LEMMA StepPrepareBlk ==
    ASSUME TypeOK, Ctl, Ctl', Blk, StepPrepare
    PROVE  Blk'
<1>1. stage.old \in Tensor /\ main.pc = "idle"
  BY DEF StepPrepare, At, Ctl, Transaction, TypeOK, IsIdle, main
<1>2. CASE PrepareTransient(Main, stage.old)
  BY <1>1, <1>2, PrepareBlk
<1>3. CASE /\ stage' = [stage EXCEPT !.at = "load"]
           /\ UNCHANGED <<handle, live, resident, leaseError, thread, weights>>
  <2>1. stage'.at = "load" /\ main'.pc = "idle"
    BY <1>1, <1>3 DEF TypeOK, main
  <2> QED BY <1>1, <1>3, <2>1, StillKept DEF HandlesStill
<1> QED BY <1>2, <1>3 DEF StepPrepare

LEMMA StepLoadBlk ==
    ASSUME TypeOK, Ctl, Ctl', Blk, StepLoad
    PROVE  Blk'
<1>1. stage.old \in Tensor /\ Restore(Main, "transient", stage.old)
  BY DEF StepLoad, At, Ctl, Transaction, TypeOK
<1> QED BY <1>1, RestoreBlk

LEMMA StepPublishBlk ==
    ASSUME TypeOK, Ctl, Ctl', Blk, StepPublish
    PROVE  Blk'
BY OffloadBlk DEF StepPublish

LEMMA StepSwapBlk ==
    ASSUME TypeOK, Ctl, Ctl', Blk, StepSwap
    PROVE  Blk'
<1>1. /\ stage.at = "swap" /\ main.op = "none" /\ main.pc = "idle"
      /\ weights' = (weights \ {stage.old}) \cup {stage.new}
      /\ stage' = [stage EXCEPT !.at = "release"]
      /\ UNCHANGED <<handle, live, leaseError, thread>>
  BY IdleFacts DEF StepSwap, At, IsIdle, main
<1>2. main' = main /\ stage'.at = "release"
  BY <1>1 DEF main, TypeOK
<1>3. Lists'
  <2>1. KeepsLists
    BY <1>1, <1>2 DEF KeepsLists
  <2> QED BY <2>1, ListsCalm DEF Blk, Ctl
<1>4. \A x : Stored(x)' <=> Stored(x)
  BY <1>1 DEF Stored
<1>5. stage.new \in Tensor
        /\ (leaseError \/ handle[stage.new].res \/ Stored(stage.new))
  BY <1>1 DEF Blk, Values, Published, Ctl, Transaction
<1>6. \A w \in weights' : handle'[w].listed
  BY DEF Ctl, Transaction
<1>7. WeightDurable'
  BY <1>1, <1>4, <1>5, <1>6 DEF WeightDurable, Blk, Values
<1>8. Published'
  BY <1>2 DEF Published
<1> QED BY <1>3, <1>7, <1>8 DEF Blk, Values

LEMMA StepReleaseBlk ==
    ASSUME TypeOK, Ctl, Ctl', Blk, StepRelease
    PROVE  Blk'
<1>1. /\ main.pc = "idle" /\ stage.old \in Tensor \ weights
      /\ UNCHANGED <<leaseError, thread, weights>>
  BY DEF StepRelease, At, Ctl, Transaction, IsIdle, main
<1>2. PICK keep \in SUBSET Ids(handle[stage.old].blocks) :
        /\ Freed(stage.old, keep)
        /\ stage' = IF keep = {} THEN [at |-> "train", old |-> None, new |-> None]
                     ELSE [stage EXCEPT !.at = "failed"]
  BY DEF StepRelease
<1>3. main'.pc = "idle" /\ stage'.at # "swap"
  BY <1>1, <1>2 DEF main, TypeOK
<1>4. /\ live \ Ids(handle[stage.old].blocks) \subseteq live'
      /\ handle'[stage.old].blocks = <<>>
      /\ \A y \in Tensor : y # stage.old => handle'[y] = handle[y]
  BY <1>1, <1>2, FreedMoves DEF Ctl
<1> QED BY <1>1, <1>3, <1>4, DroppedKept

(* The dicts of x have at most been renewed. *)
Aged(x) ==
    /\ handle'[x].listed = handle[x].listed
    /\ handle'[x].res = handle[x].res
    /\ Len(handle'[x].blocks) = Len(handle[x].blocks)
    /\ \A i \in 1..Len(handle[x].blocks) :
         /\ handle'[x].blocks[i].id = handle[x].blocks[i].id
         /\ handle'[x].blocks[i].part = handle[x].blocks[i].part
         /\ handle'[x].blocks[i].stray = handle[x].blocks[i].stray
         /\ \/ handle'[x].blocks[i].renewed
            \/ handle'[x].blocks[i] = handle[x].blocks[i]

(* A step of the renewal, of a lease, or none. *)
LEMMA AgedKept ==
    ASSUME TypeOK, TypeOK', Ctl, Ctl', Blk, UNCHANGED <<thread, stage, weights>>,
           \A x \in Tensor : Aged(x), leaseError => leaseError',
           ~leaseError' =>
             /\ \A x \in Listed : Ids(handle[x].blocks) \cap live \subseteq live'
             /\ Ids(main.news) \cap live \subseteq live'
    PROVE  Blk'
<1>1. main' = main /\ leaseError \in BOOLEAN /\ leaseError' \in BOOLEAN
  BY DEF main, TypeOK
<1>2. ASSUME NEW x \in Tensor PROVE Ids(handle'[x].blocks) \subseteq Ids(handle[x].blocks)
  <2>1. PICK s \in Seq(Block) : s = handle[x].blocks
    BY BlocksType
  <2>2. PICK r \in Seq(Block) : r = handle'[x].blocks
    BY HandleType DEF TypeOK, Handle
  <2>3. Len(r) = Len(s) /\ \A i \in 1..Len(s) : r[i].id = s[i].id
    BY <2>1, <2>2 DEF Aged
  <2>4. ASSUME NEW d \in Ids(r) PROVE d \in Ids(s)
    <3>1. PICK i \in 1..Len(r) : d = r[i].id
      BY IdsAre
    <3> QED BY <2>3, <3>1, IdsAre
  <2> QED BY <2>1, <2>2, <2>4
<1>3. Apart'
  BY <1>2 DEF Apart, Blk, Lists
<1>4. ASSUME NEW x \in Tensor, NEW b \in ToSet(handle'[x].blocks)
      PROVE  \E e \in ToSet(handle[x].blocks) : b.id = e.id /\ b.stray = e.stray
  <2>1. PICK r \in Seq(Block) : r = handle'[x].blocks
    BY HandleType DEF TypeOK, Handle
  <2>2. PICK i \in 1..Len(r) : b = r[i]
    BY <2>1, IdsAre
  <2> QED BY <2>1, <2>2, BlocksType DEF Aged
<1>5. ASSUME NEW x \in Tensor, main.pc \in {"write", "undo"}, main.tgt = x
      PROVE  /\ WrittenLast(handle'[x].blocks, main.news)
             /\ Recognised(handle'[x].blocks, main.news)
             /\ main.pc = "write" /\ ~leaseError' => Ids(main.news) \subseteq live'
  <2>1. PICK s \in Seq(Block) : s = handle[x].blocks
    BY BlocksType
  <2>2. PICK r \in Seq(Block) : r = handle'[x].blocks
    BY HandleType DEF TypeOK, Handle
  <2>3. PICK n \in Seq(Block) : n = main.news
    BY MainType
  <2>4. /\ Len(r) = Len(s)
        /\ \A i \in 1..Len(s) : /\ r[i].id = s[i].id /\ r[i].part = s[i].part
                                /\ r[i].renewed \/ r[i] = s[i]
    BY <2>1, <2>2 DEF Aged
  <2>5. /\ WrittenLast(s, n) /\ Recognised(s, n)
        /\ main.pc = "write" /\ ~leaseError => Ids(n) \subseteq live
    BY <1>5, <2>1, <2>3 DEF Blk, Lists, Writing
  <2>6. WrittenLast(r, n)
    <3>1. \A k \in 1..Len(n) : Len(s) - Len(n) + k \in 1..Len(s)
      BY <2>5 DEF WrittenLast
    <3>2. ASSUME NEW k \in 1..Len(n)
          PROVE  /\ r[Len(r) - Len(n) + k].id = n[k].id
                 /\ r[Len(r) - Len(n) + k].part = k
      <4>1. PICK i \in 1..Len(s) : i = Len(s) - Len(n) + k
        BY <3>1
      <4>2. s[i].id = n[k].id /\ s[i].part = k
        BY <2>5, <4>1 DEF WrittenLast
      <4>3. r[i].id = s[i].id /\ r[i].part = s[i].part
        BY <2>4
      <4> QED BY <2>4, <4>1, <4>2, <4>3
    <3>3. Len(n) <= Parts /\ Len(n) <= Len(r)
      BY <2>4, <2>5 DEF WrittenLast
    <3> QED BY <3>2, <3>3 DEF WrittenLast
  <2>7. Recognised(r, n)
    BY <2>4, <2>5 DEF Recognised
  <2> QED BY <2>2, <2>3, <2>5, <2>6, <2>7
<1>6. Writing'
  BY <1>1, <1>5 DEF Writing
<1>8. ListedLive'
  <2> SUFFICES ASSUME ~leaseError', NEW x \in Tensor, handle'[x].listed,
                      NEW b \in ToSet(handle'[x].blocks)
               PROVE  \/ b.id \in live' \/ b.stray
                      \/ \E t \in Thread : thread[t].pc = "undo" /\ thread[t].tgt = x
                                            /\ b.id \in Ids(thread[t].news)
    BY DEF ListedLive, Listed
  <2>1. PICK e \in ToSet(handle[x].blocks) : b.id = e.id /\ b.stray = e.stray
    BY <1>4
  <2>2. ~leaseError /\ x \in Listed
    BY DEF Aged, Listed
  <2>3. \/ e.id \in live \/ e.stray
        \/ \E t \in Thread : thread[t].pc = "undo" /\ thread[t].tgt = x
                              /\ e.id \in Ids(thread[t].news)
    BY <2>2 DEF Blk, Lists, ListedLive
  <2>4. e.id \in Ids(handle[x].blocks)
    BY BlocksType
  <2> QED BY <2>1, <2>2, <2>3, <2>4
<1>9. ASSUME NEW x \in Tensor, handle[x].listed, ~leaseError', handle[x].res \/ Stored(x)
      PROVE  handle'[x].res \/ Stored(x)'
  <2> SUFFICES ASSUME ~handle[x].res PROVE Stored(x)'
    BY DEF Aged
  <2>1. PICK s \in Seq(Block) : s = handle[x].blocks
    BY BlocksType
  <2>2. PICK r \in Seq(Block) : r = handle'[x].blocks
    BY HandleType DEF TypeOK, Handle
  <2>3. /\ Len(r) = Len(s)
        /\ \A i \in 1..Len(s) : r[i].id = s[i].id /\ r[i].part = s[i].part
    BY <2>1, <2>2 DEF Aged
  <2>4. Len(s) >= Parts /\ \A k \in 1..Parts : /\ s[Len(s) - Parts + k].id \in live
                                               /\ s[Len(s) - Parts + k].part = k
    BY <1>9, <2>1 DEF Stored
  <2>5. \A k \in 1..Parts : Len(s) - Parts + k \in 1..Len(s)
    BY <2>4, ConstantsAssumption
  <2>6. Ids(s) \cap live \subseteq live'
    BY <1>9, <2>1 DEF Listed
  <2>7. \A k \in 1..Parts : s[Len(s) - Parts + k].id \in live'
    BY <2>4, <2>5, <2>6, IdsAre
  <2> QED BY <2>2, <2>3, <2>4, <2>5, <2>7 DEF Stored
<1>10. WeightDurable'
  <2> SUFFICES ASSUME ~leaseError', NEW w \in weights
               PROVE  handle'[w].listed /\ (handle'[w].res \/ Stored(w)')
    BY DEF WeightDurable
  <2>1. w \in Tensor /\ handle[w].listed /\ (handle[w].res \/ Stored(w))
    BY <1>1 DEF TypeOK, Blk, Values, WeightDurable
  <2> QED BY <1>9, <2>1 DEF Aged
<1>11. Published'
  <2> SUFFICES ASSUME stage.at = "swap", main.op = "none", NEW x \in Tensor,
                      x = stage.new, ~leaseError'
               PROVE  handle'[x].res \/ Stored(x)'
    BY <1>1 DEF Published
  <2>1. handle[x].listed /\ (handle[x].res \/ Stored(x))
    BY <1>1 DEF Ctl, Transaction, Blk, Values, Published
  <2> QED BY <1>9, <2>1
<1> QED BY <1>3, <1>6, <1>8, <1>10, <1>11 DEF Blk, Lists, Values

LEMMA RenewBlk ==
    ASSUME TypeOK, TypeOK', Ctl, Ctl', Blk, Renew
    PROVE  Blk'
<1>1. UNCHANGED <<live, thread, weights, stage>> /\ (leaseError => leaseError')
  BY DEF Renew
<1>2. \A x \in Tensor : Aged(x)
  <2>1. CASE handle' = handle
    BY <2>1 DEF Aged
  <2>2. CASE handle' = [y \in Tensor |-> IF y \in Listed
                 THEN [handle[y] EXCEPT !.blocks = Renewed(y)] ELSE handle[y]]
    <3>1. \A x \in Tensor : RenewedFrom(x)
      BY <2>2, RenewMoves
    <3>2. \A x \in Tensor : handle[x].listed \in BOOLEAN
      BY HandleType
    <3> QED BY <3>1, <3>2 DEF RenewedFrom, Aged
  <2> QED BY <2>1, <2>2 DEF Renew
<1> QED BY <1>1, <1>2, AgedKept

LEMMA LeaseBlk ==
    ASSUME TypeOK, TypeOK', Ctl, Ctl', Blk, LeaseRunsOut
    PROVE  Blk'
<1>1. UNCHANGED <<handle, leaseError, thread, weights, stage>>
  BY DEF LeaseRunsOut
<1>2. \A x \in Tensor : Aged(x)
  BY <1>1 DEF Aged
<1>3. PICK i \in live :
        /\ \/ leaseError
           \/ /\ \A x \in Listed : i \notin Ids(handle[x].blocks)
              /\ \A t \in Thread : i \notin Ids(thread[t].news)
        /\ live' = live \ {i}
  BY DEF LeaseRunsOut
<1>4. ~leaseError' =>
        /\ \A x \in Listed : Ids(handle[x].blocks) \cap live \subseteq live'
        /\ Ids(main.news) \cap live \subseteq live'
  BY <1>1, <1>3 DEF main, Thread
<1> QED BY <1>1, <1>2, <1>4, AgedKept

LEMMA InitBlk ==
    ASSUME Init
    PROVE  Blk
<1>1. TypeOK /\ Ctl
  BY InitKept
<1>2. PICK r \in SUBSET Initial :
        \E at \in [(Initial \ r) \X (1..Parts) -> Id] : InitFrom(r, at)
  BY InitIs
<1>3. PICK at \in [(Initial \ r) \X (1..Parts) -> Id] : InitFrom(r, at)
  BY <1>2
<1>4. main = IdleThread
  BY DEF Init, main, Thread
<1>5. ASSUME NEW x \in Tensor, NEW d \in Ids(handle[x].blocks)
      PROVE  /\ x \in Initial \ r
             /\ \E k \in 1..Parts : d = at[<<x, k>>]
  <2>1. x \in Initial \ r
    BY <1>3, <1>5, NoIds DEF InitFrom
  <2>2. handle[x].blocks = [k \in 1..Parts |-> [id |-> at[<<x, k>>],
                              part |-> k, renewed |-> FALSE, stray |-> FALSE]]
    BY <1>3, <2>1 DEF InitFrom
  <2>3. PICK i \in 1..Len(handle[x].blocks) : d = handle[x].blocks[i].id
    BY <1>1, <1>5, BlocksType
  <2>4. Len(handle[x].blocks) = Parts
    BY <2>2, ConstantsAssumption
  <2>5. d = at[<<x, i>>] /\ i \in 1..Parts
    <3>1. i \in 1..Parts
      BY <2>3, <2>4
    <3>2. handle[x].blocks[i] = [id |-> at[<<x, i>>], part |-> i,
                                   renewed |-> FALSE, stray |-> FALSE]
      BY <2>2, <3>1
    <3> QED BY <2>3, <3>1, <3>2
  <2> QED BY <2>1, <2>5
<1>6. Apart
  <2> SUFFICES ASSUME NEW x \in Tensor, NEW y \in Tensor, x # y,
                      NEW d \in Ids(handle[x].blocks), d \in Ids(handle[y].blocks)
               PROVE  FALSE
    BY DEF Apart
  <2>1. PICK i \in 1..Parts : d = at[<<x, i>>]
    BY <1>5
  <2>2. PICK j \in 1..Parts : d = at[<<y, j>>]
    BY <1>5
  <2>3. /\ <<x, i>> \in (Initial \ r) \X (1..Parts)
        /\ <<y, j>> \in (Initial \ r) \X (1..Parts)
    BY <1>5
  <2>4. <<x, i>> = <<y, j>>
    BY <1>3, <2>1, <2>2, <2>3 DEF InitFrom, IsInjective
  <2> QED BY <2>4
<1>7. \A x \in Tensor : Ids(handle[x].blocks) \subseteq live
  <2> SUFFICES ASSUME NEW x \in Tensor, NEW d \in Ids(handle[x].blocks)
               PROVE  d \in live
    OBVIOUS
  <2>1. PICK i \in 1..Parts : d = at[<<x, i>>]
    BY <1>5
  <2>2. <<x, i>> \in (Initial \ r) \X (1..Parts)
    BY <1>5
  <2> QED BY <1>3, <2>1, <2>2 DEF InitFrom, Range
<1>8. Writing /\ Published
  BY <1>4 DEF Writing, Published, IdleThread, Init
<1>9. ListedLive
  BY <1>1, <1>7, BlocksType DEF ListedLive, Listed
<1>10. WeightDurable
  <2> SUFFICES ASSUME NEW w \in weights
               PROVE  handle[w].listed /\ (handle[w].res \/ Stored(w))
    BY DEF WeightDurable
  <2>1. w \in Initial /\ w \in Tensor
    BY ConstantsAssumption DEF Init
  <2>2. handle[w].listed /\ (w \in r => handle[w].res)
    BY <1>3, <2>1 DEF InitFrom
  <2>3. CASE w \notin r
    <3>1. PICK s : s = [k \in 1..Parts |-> [id |-> at[<<w, k>>],
                          part |-> k, renewed |-> FALSE, stray |-> FALSE]]
      OBVIOUS
    <3>2. handle[w].blocks = s /\ s \in Seq(Block)
      BY <1>1, <1>3, <2>1, <2>3, <3>1, BlocksType DEF InitFrom
    <3>3. Len(s) = Parts /\ Parts \in Nat
      BY <3>1, ConstantsAssumption
    <3>4. \A k \in 1..Parts : s[k].part = k /\ s[k].id \in live
      <4>1. \A k \in 1..Parts : s[k].part = k
        BY <3>1
      <4>2. \A k \in 1..Parts : s[k].id \in Ids(s)
        BY <3>2, <3>3, IdsAre
      <4> QED BY <1>7, <2>1, <3>2, <4>1, <4>2
    <3>5. \A k \in 1..Parts : Len(s) - Parts + k = k
      BY <3>3
    <3>6. Stored(w)
      BY <3>2, <3>3, <3>4, <3>5 DEF Stored
    <3> QED BY <2>2, <3>6
  <2> QED BY <2>2, <2>3
<1> QED BY <1>6, <1>8, <1>9, <1>10 DEF Blk, Lists, Values

LEMMA NextBlk ==
    ASSUME TypeOK, TypeOK', Ctl, Ctl', Blk, [Next]_vars
    PROVE  Blk'
<1>1. CASE \E t \in Thread : Running(t)
  <2>1. Running(Main)
    BY <1>1, OnlyMain DEF Ctl
  <2> QED
    BY <2>1, MakeRoomBlk, RetainBlk, EvictNextBlk, EvictedBlk, PutBlockBlk,
       PutFailsBlk, UndoBlk, WrittenBlk, EnsureCapacityBlk, ReadBlocksBlk,
       PromoteBlk, UnwindBlk DEF Running
<1>2. CASE UNCHANGED vars
  <2>1. UNCHANGED <<handle, live, leaseError, thread, weights, stage>>
    BY <1>2 DEF vars
  <2>2. \A x \in Tensor : Aged(x)
    BY <2>1 DEF Aged
  <2> QED BY <2>1, <2>2, AgedKept
<1> QED
  BY <1>1, <1>2, TrainBlk, FreeBlk, StartStepBlk, StepPrepareBlk, StepLoadBlk,
     StepPublishBlk, StepSwapBlk, StepReleaseBlk, RenewBlk, LeaseBlk DEF Next

LEMMA Invariance == Spec => [](TypeOK /\ Ctl /\ Blk)
<1>1. Init => TypeOK /\ Ctl /\ Blk
  BY InitKept, InitBlk
<1>2. TypeOK /\ Ctl /\ Blk /\ [Next]_vars => (TypeOK /\ Ctl /\ Blk)'
  BY NextKept, NextBlk
<1> QED BY <1>1, <1>2, PTL DEF Spec

(* Whatever fails, as long as leases are renewed no weight is lost: each   *)
(* is in VRAM, or whole and in order at the end of its list (_spill,       *)
(* restore, free, CapacityOptimizer.step).                                 *)
THEOREM WeightsSurvive == Spec => []WeightDurable
<1>1. TypeOK /\ Ctl /\ Blk => WeightDurable
  BY DEF Blk, Values
<1> QED BY <1>1, Invariance, PTL

(* The only released blocks on a list are those of a failed write whose    *)
(* undo is still to come, or did not recognise them because they had been  *)
(* renewed meanwhile; no other failure, and no renewal, leaves a block     *)
(* that makes the next renewal give up (_renew_loop, _drop_blocks,         *)
(* _write_backing).                                                        *)
THEOREM RenewalFindsBlocks == Spec => []ListedLive
<1>1. TypeOK /\ Ctl /\ Blk => ListedLive
  BY DEF Blk, Lists
<1> QED BY <1>1, Invariance, PTL

==============================================================================
