------------------------ MODULE BlockResidencyProofs ------------------------
(***************************************************************************)
(* Proofs about BlockResidency for every set of nodes and calls, every     *)
(* lease and deadline, and any number of restarts and exchanges: types, the *)
(* table's direction, one published copy per generation, publication by    *)
(* the compare-and-set alone until a renewal, release, the table's backing *)
(* by a complete copy, and whose copy a migration discards.                *)
(***************************************************************************)
EXTENDS BlockResidency, TLAPS

(* A call that has not started or has ended holds nothing. *)
Quiet == {"idle"} \cup Ended

(* What the types rest on: an object that a map, a handler or a migration  *)
(* refers to exists, a call under way and an inventory name an owner, and  *)
(* an allocation does not carry a tombstone.                               *)
MappedExist == \A o \in Obj : obj[o].mapped => obj[o].node # None

CallNamed(c) ==
    /\ call[c].pc \notin Quiet => call[c].h.owner # None
    /\ call[c].pc = "alloc" => call[c].h.lease # Tombstone

CallHolds(c) ==
    /\ call[c].pin # None => obj[call[c].pin].node # None
    /\ call[c].src # None => obj[call[c].src].node # None
    /\ c \in Migration /\ call[c].live /\ call[c].pc \notin Quiet \cup {"picked"}
         => call[c].src # None
    /\ call[c].pc \in LocalStep => call[c].live

(* The steps that each kind of call goes through. *)
Steps(c) ==
    CASE c = Origin -> {"alloc", "grant", "toWrite", "write", "toCommit",
                        "commit", "register"}
      [] c \in Renewal -> {"renew", "register"}
      [] c \in Release -> {"free", "unmap", "register"}
      [] c \in Migration -> {"picked", "lock", "alloc", "write", "commit",
                             "cas", "publish", "drop", "free", "unmap"}

CallRole(c) == call[c].pc \in Quiet \cup Steps(c)

GossipNamed == \A m \in gossip : m.h # NoHandle => m.h.owner # None

Refs ==
    /\ MappedExist
    /\ \A c \in Call : CallNamed(c)
    /\ \A c \in Call : CallHolds(c)
    /\ \A c \in Call : CallRole(c)
    /\ GossipNamed

-----------------------------------------------------------------------------
(* Facts about the operators *)

LEMMA HandleFields ==
    ASSUME NEW h \in Handle
    PROVE  /\ h.owner \in Node \cup {None} /\ h.inc \in Nat /\ h.gen \in Nat
           /\ h.state \in {"Writing", "Ready", "Lost"}
           /\ h.lease \in LeaseTicks
BY DEF Handle

LEMMA NoHandleType == NoHandle \in Handle
BY ConstantsAssumption DEF NoHandle, Handle, LeaseTicks, Tombstone

LEMMA NoObjectType == NoObject \in Object
BY ConstantsAssumption DEF NoObject, Object

LEMMA IdleType == IdleCall \in CallState
BY ConstantsAssumption, NoHandleType
DEF IdleCall, CallState, Step, LocalStep

LEMMA OverType ==
    ASSUME NEW r \in Ended
    PROVE  Over(r) \in CallState /\ Over(r).pc = r /\ Over(r).pin = None
             /\ Over(r).src = None
BY IdleType DEF Over, CallState, Step, IdleCall

LEMMA FailureType ==
    ASSUME NEW c \in Call
    PROVE  Failure(c) \in Ended
BY DEF Failure, Ended

(* register never names a handle that is neither of its arguments. *)
LEMMA RegisteredType ==
    ASSUME NEW t \in Handle, NEW h \in Handle
    PROVE  Registered(t, h) \in Handle
BY DEF Registered, Sealed, Supersedes, Larger, Handle, LeaseTicks

(* Once the table has an entry, registering a named handle neither drops   *)
(* it, nor takes it back to an older generation, nor revives a tombstone.  *)
LEMMA RegisteredForward ==
    ASSUME NEW t \in Handle, NEW h \in Handle,
           t.owner # None, h.owner # None
    PROVE  /\ Registered(t, h).owner # None
           /\ Registered(t, h).gen >= t.gen
           /\ t.lease = Tombstone => Registered(t, h).lease = Tombstone
BY DEF Registered, Sealed, Supersedes, Larger, Handle, LeaseTicks

LEMMA LoseNodeType ==
    ASSUME NEW t \in Handle, NEW n \in Node
    PROVE  /\ LoseNode(t, n) \in Handle
           /\ LoseNode(t, n).owner = t.owner
           /\ LoseNode(t, n).gen = t.gen
           /\ LoseNode(t, n).lease = t.lease
BY DEF LoseNode, Handle

LEMMA AgedType ==
    ASSUME NEW h \in Handle
    PROVE  /\ AgedHandle(h) \in Handle
           /\ AgedHandle(h).owner = h.owner
           /\ AgedHandle(h).gen = h.gen
           /\ AgedHandle(h).lease = Tombstone <=> h.lease = Tombstone
BY ConstantsAssumption
DEF AgedHandle, Aged, Handle, LeaseTicks, Tombstone

LEMMA AgedNoHandle == AgedHandle(NoHandle) = NoHandle
BY DEF AgedHandle, Aged, NoHandle

LEMMA UnlockedType ==
    ASSUME obj \in [Obj -> Object], NEW c \in Call
    PROVE  /\ Unlocked(c) \in [Obj -> Object]
           /\ \A o \in Obj : Unlocked(c)[o].node = obj[o].node
                               /\ Unlocked(c)[o].mapped = obj[o].mapped
BY DEF Unlocked, Object

LEMMA HandleOfType ==
    ASSUME TypeOK, NEW o \in Obj, obj[o].node # None
    PROVE  /\ HandleOf(o) \in Handle
           /\ HandleOf(o).owner # None
           /\ HandleOf(o).lease # Tombstone
BY ConstantsAssumption DEF TypeOK, HandleOf, Object, Handle, LeaseTicks, Tombstone

(* The handle a commit returns is the copy's, Ready; the one a renewal     *)
(* returns is the copy's with a full lease.                                *)
LEMMA ReturnedHandles ==
    ASSUME NEW o \in Obj, HandleOf(o) \in Handle
    PROVE  /\ \E h \in Handle :
                /\ h = [HandleOf(o) EXCEPT !.state = "Ready"]
                /\ h.owner = obj[o].node /\ h.inc = inc[obj[o].node]
                /\ h.gen = obj[o].gen /\ h.lease = obj[o].lease
                /\ h.state = "Ready"
           /\ \E h \in Handle :
                /\ h = [HandleOf(o) EXCEPT !.lease = Lease]
                /\ h.owner = obj[o].node /\ h.inc = inc[obj[o].node]
                /\ h.gen = obj[o].gen /\ h.lease = Lease
                /\ h.state = obj[o].state
<1>1. /\ HandleOf(o).owner = obj[o].node /\ HandleOf(o).inc = inc[obj[o].node]
      /\ HandleOf(o).gen = obj[o].gen /\ HandleOf(o).lease = obj[o].lease
      /\ HandleOf(o).state = obj[o].state
  BY DEF HandleOf
<1>2. Lease \in LeaseTicks
  BY ConstantsAssumption DEF LeaseTicks, Tombstone
<1>3. [HandleOf(o) EXCEPT !.state = "Ready"] \in Handle
  BY DEF Handle
<1>4. [HandleOf(o) EXCEPT !.lease = Lease] \in Handle
  BY <1>2 DEF Handle
<1>5. LET h == [HandleOf(o) EXCEPT !.state = "Ready"] IN
        /\ h.owner = obj[o].node /\ h.inc = inc[obj[o].node]
        /\ h.gen = obj[o].gen /\ h.lease = obj[o].lease /\ h.state = "Ready"
  BY <1>1 DEF Handle
<1>6. LET h == [HandleOf(o) EXCEPT !.lease = Lease] IN
        /\ h.owner = obj[o].node /\ h.inc = inc[obj[o].node]
        /\ h.gen = obj[o].gen /\ h.lease = Lease /\ h.state = obj[o].state
  BY <1>1 DEF Handle
<1> QED BY <1>3, <1>4, <1>5, <1>6

LEMMA StepsOf ==
    ASSUME NEW c \in Call
    PROVE  /\ c = Origin => Steps(c) = {"alloc", "grant", "toWrite", "write",
                                       "toCommit", "commit", "register"}
           /\ c \in Renewal => Steps(c) = {"renew", "register"}
           /\ c \in Release => Steps(c) = {"free", "unmap", "register"}
           /\ c \in Migration =>
                Steps(c) = {"picked", "lock", "alloc", "write", "commit",
                            "cas", "publish", "drop", "free", "unmap"}
           /\ Steps(c) \cap Quiet = {}
BY ConstantsAssumption DEF Call, Steps, Quiet, Ended

-----------------------------------------------------------------------------
(* How a call's own update changes it *)

Only(c) == /\ call' \in [Call -> CallState]
           /\ \A d \in Call : d # c => call'[d] = call[d]

(* A reply that reaches its caller moves the call on with the handle; to   *)
(* one that has given up it ends the call.                                 *)
LEMMA AdvanceMoves ==
    ASSUME TypeOK, NEW c \in Call, NEW next \in Step, NEW h \in Handle,
           Advance(c, next, h)
    PROVE  /\ Only(c)
           /\ call'[c].pin = None
           /\ \/ call'[c].pc \in Ended /\ call'[c].src = None
                    /\ call'[c].live /\ call'[c].h = NoHandle
              \/ /\ call'[c].pc = next /\ call'[c].h = h
                 /\ call'[c].src = call[c].src
                 /\ call'[c].live = call[c].live
                 /\ call[c].live \/ next = "register"
<1>1. Over("done") \in CallState /\ Over(Failure(c)) \in CallState
  BY OverType, FailureType DEF Ended
<1>2. CASE ~Onward(c, next)
  BY <1>1, <1>2, OverType, FailureType, IdleType
  DEF TypeOK, Advance, Only, Over, IdleCall
<1>3. CASE Onward(c, next) /\ next = "done"
  BY <1>1, <1>3 DEF TypeOK, Advance, Only, Over, IdleCall, Ended
<1>4. CASE Onward(c, next) /\ next # "done"
  BY ZenonT(60), <1>4 DEF TypeOK, Advance, Only, CallState, Onward
<1>5. QED
  BY <1>2, <1>3, <1>4 DEF TypeOK, CallState

(* A failed request ends the call and unlocks what it held, or turns a     *)
(* copying migration to discarding its destination.                        *)
LEMMA FailsMoves ==
    ASSUME TypeOK, NEW c \in Call, Fails(c)
    PROVE  /\ Only(c)
           /\ call'[c].pin = None
           /\ \/ call'[c].pc \in Ended /\ call'[c].src = None
                    /\ call'[c].live /\ call'[c].h = NoHandle
              \/ /\ c \in Migration
                 /\ call'[c].pc = "free" /\ call'[c].h = call[c].h
                 /\ call'[c].src = call[c].src
                 /\ call'[c].live /\ call[c].live
                 /\ call[c].pc \in {"write", "commit"}
           /\ obj' \in [Obj -> Object]
           /\ \A o \in Obj : obj'[o].node = obj[o].node
                               /\ obj'[o].mapped = obj[o].mapped
<1>1. Over(Failure(c)) \in CallState
  BY OverType, FailureType
<1>2. CASE Discards(c)
  BY <1>2 DEF TypeOK, Fails, Discards, Only, CallState, Step, OwnerStep
<1>3. CASE ~Discards(c)
  <2>1. call' = [call EXCEPT ![c] = Over(Failure(c))] /\ obj' = Unlocked(c)
    BY <1>3 DEF Fails
  <2>2. Only(c) /\ call'[c] = Over(Failure(c))
    BY <1>1, <2>1 DEF TypeOK, Only
  <2>3. call'[c].pin = None /\ call'[c].pc \in Ended /\ call'[c].src = None
          /\ call'[c].live /\ call'[c].h = NoHandle
    BY <2>2, OverType, FailureType DEF Over, IdleCall
  <2>4. QED
    BY <2>1, <2>2, <2>3, UnlockedType DEF TypeOK
<1>4. QED
  BY <1>2, <1>3

-----------------------------------------------------------------------------
(* Preservation *)

CallFine(c) == CallNamed(c) /\ CallHolds(c) /\ CallRole(c)

(* Objects only come into being here; Restart alone makes them go. *)
ObjectsStay ==
    /\ obj' \in [Obj -> Object]
    /\ \A o \in Obj : /\ obj[o].node # None => obj'[o].node # None
                      /\ obj'[o].mapped => obj'[o].node # None

LEMMA EndedFine ==
    ASSUME NEW c \in Call, call'[c].pc \in Ended, call'[c].src = None,
           call'[c].pin = None, call'[c].live
    PROVE  CallFine(c)'
BY DEF CallFine, CallNamed, CallHolds, CallRole, Quiet, Ended

(* A step of one call that leaves membership and inventories alone. *)
LEMMA StepKept ==
    ASSUME TypeOK, Refs, NEW c \in Call, Only(c), ObjectsStay, CallFine(c)',
           UNCHANGED <<inc, peer, jobError, gossip>>,
           table' \in Handle, lapsed' \in BOOLEAN, crossed' \in BOOLEAN
    PROVE  TypeOK' /\ Refs'
<1>1. TypeOK'
  BY DEF TypeOK, Only, ObjectsStay
<1>2. ASSUME NEW d \in Call, d # c PROVE CallFine(d)'
  <2>1. CallFine(d) /\ call'[d] = call[d]
    BY <1>2 DEF Refs, Only, CallFine
  <2>2. call[d].pin \in Obj \cup {None} /\ call[d].src \in Obj \cup {None}
    BY DEF TypeOK, CallState
  <2>3. QED
    BY <2>1, <2>2
    DEF CallFine, CallNamed, CallHolds, CallRole, ObjectsStay
<1>3. \A d \in Call : CallFine(d)'
  BY <1>2
<1>4. MappedExist' /\ GossipNamed'
  BY DEF Refs, MappedExist, GossipNamed, ObjectsStay
<1>5. QED
  BY <1>1, <1>3, <1>4 DEF Refs, CallFine

LEMMA LapseType ==
    ASSUME TypeOK, Lapse
    PROVE  lapsed' \in BOOLEAN
BY DEF TypeOK, Lapse

LEMMA ObjSame ==
    ASSUME TypeOK, Refs, obj' = obj
    PROVE  ObjectsStay
BY DEF TypeOK, Refs, MappedExist, ObjectsStay

(* A failed request keeps the invariant whatever step it was for. *)
LEMMA FailsKept ==
    ASSUME TypeOK, Refs, NEW c \in Call, Fails(c),
           UNCHANGED <<inc, peer, jobError, gossip>>,
           table' \in Handle, lapsed' \in BOOLEAN, crossed' \in BOOLEAN
    PROVE  TypeOK' /\ Refs'
<1>1. ObjectsStay
  BY FailsMoves DEF Refs, MappedExist, ObjectsStay
<1>2. CallFine(c)'
  <2>1. CASE call'[c].pc \in Ended
    BY <2>1, FailsMoves, EndedFine DEF Ended
  <2>2. CASE call'[c].pc \notin Ended
    <3>1. /\ c \in Migration /\ call'[c].pc = "free"
          /\ call'[c].h = call[c].h /\ call'[c].src = call[c].src
          /\ call'[c].live /\ call[c].live /\ call'[c].pin = None
          /\ call[c].pc \in {"write", "commit"}
      BY <2>2, FailsMoves
    <3>2. CallFine(c) /\ call[c].src \in Obj \cup {None}
      BY DEF TypeOK, CallState, Refs, CallFine
    <3>3. QED
      BY <1>1, <3>1, <3>2, StepsOf
      DEF CallFine, CallNamed, CallHolds, CallRole, ObjectsStay, Quiet, Ended
  <2>3. QED
    BY <2>1, <2>2
<1>3. QED
  BY <1>1, <1>2, FailsMoves, StepKept

(* A reply that moves a call on keeps the invariant if the step it moves   *)
(* to is one of the call's own.                                            *)
LEMMA AdvanceKept ==
    ASSUME TypeOK, Refs, NEW c \in Call, NEW next \in Step, NEW h \in Handle,
           Advance(c, next, h), call[c].pc \notin Quiet \cup {"picked"},
           next # "alloc", next \in Quiet => next \in Ended,
           next \in Quiet \cup Steps(c),
           h.owner # None, ObjectsStay,
           UNCHANGED <<inc, peer, jobError, gossip>>,
           table' \in Handle, lapsed' \in BOOLEAN, crossed' \in BOOLEAN
    PROVE  TypeOK' /\ Refs'
<1>1. CallFine(c)'
  <2>1. CASE call'[c].pc \in Ended /\ call'[c].src = None /\ call'[c].live
    BY <2>1, AdvanceMoves, EndedFine
  <2>2. CASE /\ call'[c].pc = next /\ call'[c].h = h
             /\ call'[c].src = call[c].src
             /\ call'[c].live = call[c].live
             /\ call[c].live \/ next = "register"
    <3>1. CallFine(c) /\ call[c].src \in Obj \cup {None}
      BY DEF TypeOK, CallState, Refs, CallFine
    <3>2. call'[c].pin = None
      BY AdvanceMoves
    <3>3. QED
      BY <2>2, <3>1, <3>2
      DEF CallFine, CallNamed, CallHolds, CallRole, ObjectsStay, LocalStep
  <2>3. QED
    BY <2>1, <2>2, AdvanceMoves
<1>2. QED
  BY <1>1, AdvanceMoves, StepKept

(* Only call has changed: c has moved to another of its steps. *)
LEMMA OnlyCallKept ==
    ASSUME TypeOK, Refs, NEW c \in Call, Only(c), CallFine(c)',
           UNCHANGED <<inc, obj, leader, gossip, crossed>>
    PROVE  TypeOK' /\ Refs'
<1>1. ObjectsStay
  BY ObjSame
<1>2. QED
  BY <1>1, StepKept DEF leader, TypeOK

LEMMA AllocateKept ==
    ASSUME TypeOK, Refs, NEW n \in Node, Allocate(n)
    PROVE  TypeOK' /\ Refs'
<1> DEFINE h == [owner |-> n, inc |-> peer[n], gen |-> 0,
                 state |-> "Writing", lease |-> Lease]
<1>1. h \in Handle /\ h.owner # None /\ h.lease # Tombstone
  BY ConstantsAssumption DEF TypeOK, Handle, LeaseTicks, Tombstone
<1>2. Origin \in Call /\ call[Origin] \in CallState
  BY DEF TypeOK, Call
<1>3. call' = [call EXCEPT ![Origin].pc = "alloc", ![Origin].h = h]
  BY DEF Allocate
<1> HIDE DEF h
<1>4. Only(Origin) /\ call'[Origin].pc = "alloc" /\ call'[Origin].h = h
        /\ call'[Origin].pin = call[Origin].pin
        /\ call'[Origin].src = call[Origin].src
        /\ call'[Origin].live = call[Origin].live
  BY <1>1, <1>2, <1>3 DEF TypeOK, CallState, Only, Step
<1>5. CallFine(Origin)'
  <2>1. CallFine(Origin) /\ obj' = obj /\ call[Origin].pc = "idle"
    BY <1>2 DEF Refs, CallFine, Allocate
  <2>2. QED
    BY <1>1, <1>2, <1>4, <2>1, StepsOf, ConstantsAssumption
    DEF CallFine, CallNamed, CallHolds, CallRole, LocalStep, Quiet, Ended
<1>6. QED
  BY <1>2, <1>4, <1>5, OnlyCallKept DEF Allocate

LEMMA AllocateLocalKept ==
    ASSUME TypeOK, Refs, NEW c \in Call, AllocateLocal(c)
    PROVE  TypeOK' /\ Refs'
<1>1. /\ call[c].h \in Handle /\ call[c].h.owner # None
      /\ call[c].h.lease # Tombstone
  BY DEF TypeOK, CallState, AllocateLocal, Refs, CallNamed, Quiet, Ended
<1>2. AllocatedAs(call[c].h) \in Object
        /\ AllocatedAs(call[c].h).node # None
  BY <1>1, ConstantsAssumption
  DEF AllocatedAs, Object, Handle, LeaseTicks, Tombstone
<1>3. ObjectsStay
  BY <1>2 DEF TypeOK, AllocateLocal, ObjectsStay, Refs, MappedExist
<1>4. c = Origin \/ c \in Migration
  BY StepsOf DEF Call, AllocateLocal, Refs, CallRole, Quiet, Ended
<1> DEFINE next == IF c = Origin THEN "grant" ELSE "write"
<1>5. /\ next \in Step /\ next # "alloc" /\ next \notin Quiet
      /\ next \in Steps(c)
  BY <1>4, StepsOf DEF Step, LocalStep, OwnerStep, Quiet, Ended
<1>6. call[c].pc \notin Quiet \cup {"picked"}
  BY DEF AllocateLocal, Quiet, Ended
<1>7. Advance(c, next, call[c].h)
  BY DEF AllocateLocal
<1> HIDE DEF next
<1>8. QED
  BY <1>1, <1>3, <1>5, <1>6, <1>7, AdvanceKept
  DEF AllocateLocal, leader, TypeOK

LEMMA GrantKept ==
    ASSUME TypeOK, Refs, Grant
    PROVE  TypeOK' /\ Refs'
<1>1. Origin \in Call /\ call[Origin] \in CallState
  BY DEF TypeOK, Call
<1>2. table' \in Handle
  BY <1>1, RegisteredType DEF Grant, TypeOK, CallState
<1>3. Only(Origin) /\ call'[Origin].pc = "toWrite"
        /\ call'[Origin].h = call[Origin].h
        /\ call'[Origin].pin = call[Origin].pin
        /\ call'[Origin].src = call[Origin].src
        /\ call'[Origin].live = call[Origin].live
  BY <1>1 DEF Grant, TypeOK, CallState, Only, Step, LocalStep
<1>4. CallFine(Origin)'
  <2>1. CallFine(Origin) /\ obj' = obj /\ call[Origin].pc = "grant"
    BY <1>1 DEF Refs, CallFine, Grant
  <2>2. QED
    BY <1>1, <1>3, <2>1, StepsOf, ConstantsAssumption
    DEF CallFine, CallNamed, CallHolds, CallRole, LocalStep, Quiet, Ended
<1>5. QED
  BY <1>1, <1>2, <1>3, <1>4, ObjSame, StepKept, LapseType
  DEF Grant, TypeOK

(* A client's request starts with the handle that the table resolves to. *)
LEMMA ResolveKept ==
    ASSUME TypeOK, Refs, NEW c \in Call \ Migration,
           NEW step \in OwnerStep, step \in Steps(c),
           call[c].live, ResolveFor(c, step)
    PROVE  TypeOK' /\ Refs'
<1>1. call[c] \in CallState /\ table \in Handle /\ table.owner # None
  BY DEF TypeOK, ResolveFor, Resolvable
<1>2. Only(c) /\ call'[c].pc = step /\ call'[c].h = table
        /\ call'[c].pin = call[c].pin
        /\ call'[c].src = call[c].src
        /\ call'[c].live = call[c].live
  BY <1>1 DEF ResolveFor, TypeOK, CallState, Only, Step
<1>3. CallFine(c)'
  <2>1. CallFine(c) /\ obj' = obj
    BY <1>1 DEF Refs, CallFine, ResolveFor
  <2>2. QED
    BY <1>1, <1>2, <2>1
    DEF CallFine, CallNamed, CallHolds, CallRole, OwnerStep
<1>4. QED
  BY <1>2, <1>3, OnlyCallKept DEF ResolveFor

LEMMA StartKept ==
    ASSUME TypeOK, Refs, NEW c \in Call,
           ClientWrite \/ ClientCommit \/ StartRenew(c) \/ StartFree(c)
    PROVE  TypeOK' /\ Refs'
<1>1. \A d \in Call : call[d].pc \in LocalStep => call[d].live
  BY DEF Refs, CallHolds
<1>2. Origin \in Call \ Migration
  BY ConstantsAssumption DEF Call
<1>3. CASE ClientWrite
  BY <1>1, <1>2, <1>3, StepsOf, ResolveKept
  DEF ClientWrite, LocalStep, OwnerStep
<1>4. CASE ClientCommit
  BY <1>1, <1>2, <1>4, StepsOf, ResolveKept
  DEF ClientCommit, LocalStep, OwnerStep
<1>5. CASE StartRenew(c)
  BY <1>1, <1>5, StepsOf, ResolveKept, ConstantsAssumption
  DEF StartRenew, LocalStep, OwnerStep
<1>6. CASE StartFree(c)
  BY <1>1, <1>6, StepsOf, ResolveKept, ConstantsAssumption
  DEF StartFree, LocalStep, OwnerStep
<1>7. QED
  BY <1>3, <1>4, <1>5, <1>6

(* c has moved on without losing what it holds. *)
LEMMA ArriveKept ==
    ASSUME TypeOK, Refs, NEW c \in Call, Arrive(c)
    PROVE  TypeOK' /\ Refs'
<1>1. call[c] \in CallState /\ CallFine(c) /\ call[c].h.owner # None
  BY DEF TypeOK, Refs, CallFine, CallNamed, Arrive, OwnerStep, Quiet, Ended
<1>2. CASE Fails(c)
  BY <1>2, FailsKept DEF Arrive, leader, TypeOK
<1>3. ASSUME NEW o \in MappedAt(call[c].h.owner),
             call' = [call EXCEPT ![c].pin = o], UNCHANGED obj
      PROVE  TypeOK' /\ Refs'
  <2>1. o \in Obj /\ obj[o].node # None
    BY <1>1, <1>3 DEF MappedAt
  <2>2. Only(c) /\ call'[c].pin = o /\ call'[c].pc = call[c].pc
          /\ call'[c].h = call[c].h /\ call'[c].src = call[c].src
          /\ call'[c].live = call[c].live
    BY <1>1, <1>3, <2>1 DEF TypeOK, CallState, Only
  <2>3. CallFine(c)'
    BY <1>1, <1>3, <2>1, <2>2
    DEF CallFine, CallNamed, CallHolds, CallRole
  <2>4. QED
    BY <1>3, <2>2, <2>3, OnlyCallKept DEF Arrive
<1>4. CASE /\ call[c].pc = "free" /\ UNCHANGED obj
           /\ call' = [call EXCEPT ![c].pc = "unmap"]
  <2>1. Only(c) /\ call'[c].pc = "unmap" /\ call'[c].h = call[c].h
          /\ call'[c].src = call[c].src /\ call'[c].pin = call[c].pin
          /\ call'[c].live = call[c].live
    BY <1>1, <1>4 DEF TypeOK, CallState, Only, Step
  <2>2. CallFine(c)'
    BY <1>1, <1>4, <2>1, StepsOf, ConstantsAssumption
    DEF CallFine, CallNamed, CallHolds, CallRole, Call, Quiet, Ended, LocalStep
  <2>3. QED
    BY <1>4, <2>1, <2>2, OnlyCallKept DEF Arrive
<1>5. QED
  BY <1>2, <1>3, <1>4 DEF Arrive

(* What a handler that has pinned a block can rely on. *)
LEMMA PinnedFacts ==
    ASSUME TypeOK, Refs, NEW c \in Call, NEW step \in OwnerStep,
           Pinned(c, step)
    PROVE  /\ call[c] \in CallState /\ CallFine(c)
           /\ call[c].h \in Handle /\ call[c].h.owner # None
           /\ call[c].pc = step /\ call[c].pc \notin Quiet \cup {"picked"}
           /\ call[c].pin \in Obj /\ obj[call[c].pin] \in Object
           /\ obj[call[c].pin].node # None
           /\ HandleOf(call[c].pin) \in Handle
           /\ HandleOf(call[c].pin).owner # None
<1>1. call[c] \in CallState /\ CallFine(c) /\ call[c].pin # None
        /\ call[c].pc = step
  BY DEF TypeOK, Refs, CallFine, Pinned
<1>2. call[c].pin \in Obj /\ obj[call[c].pin].node # None
  BY <1>1 DEF CallState, CallFine, CallHolds
<1>3. step \notin Quiet \cup {"picked"}
  BY DEF OwnerStep, Quiet, Ended
<1>4. call[c].h \in Handle /\ call[c].h.owner # None
  BY <1>1, <1>3 DEF CallState, CallFine, CallNamed
<1>5. QED
  BY <1>1, <1>2, <1>3, <1>4, HandleOfType DEF TypeOK

LEMMA WriteChunksKept ==
    ASSUME TypeOK, Refs, NEW c \in Call, WriteChunks(c)
    PROVE  TypeOK' /\ Refs'
<1> DEFINE o == call[c].pin
           next == IF c = Origin THEN "toCommit" ELSE "commit"
<1>1. Pinned(c, "write") /\ "write" \in OwnerStep
  BY DEF WriteChunks, OwnerStep
<1>2. c = Origin \/ c \in Migration
  BY <1>1, StepsOf, PinnedFacts
  DEF Call, CallFine, CallRole, Quiet, Ended
<1>3. next \in Step /\ next # "alloc" /\ next \notin Quiet /\ next \in Steps(c)
  BY <1>2, StepsOf DEF Step, LocalStep, OwnerStep, Quiet, Ended
<1>4. CASE Fails(c)
  BY <1>4, FailsKept DEF WriteChunks, leader, TypeOK
<1>5. CASE obj' = [obj EXCEPT ![o].full = TRUE] /\ Advance(c, next, call[c].h)
  <2>1. o \in Obj /\ obj[o] \in Object /\ obj[o].node # None
    BY <1>1, PinnedFacts
  <2>2. obj' = [obj EXCEPT ![o].full = TRUE]
    BY <1>5
  <2>3. ObjectsStay
    <3> HIDE DEF o, next
    <3>1. QED
      BY <2>1, <2>2 DEF TypeOK, Object, ObjectsStay, Refs, MappedExist
  <2>4. QED
    BY <1>1, <1>3, <1>5, <2>3, PinnedFacts, AdvanceKept
    DEF WriteChunks, leader, TypeOK
<1>6. QED
  BY <1>4, <1>5 DEF WriteChunks

LEMMA CommitKept ==
    ASSUME TypeOK, Refs, NEW c \in Call, Commit(c)
    PROVE  TypeOK' /\ Refs'
<1> DEFINE o == call[c].pin
           h == [HandleOf(o) EXCEPT !.state = "Ready"]
<1>1. Pinned(c, "commit") /\ "commit" \in OwnerStep
  BY DEF Commit, OwnerStep
<1>2. c = Origin \/ c \in Migration
  BY <1>1, StepsOf, PinnedFacts
  DEF Call, CallFine, CallRole, Quiet, Ended
<1>3. /\ AfterCommit(c) \in Step /\ AfterCommit(c) # "alloc"
      /\ AfterCommit(c) \notin Quiet /\ AfterCommit(c) \in Steps(c)
  BY <1>2, StepsOf DEF AfterCommit, Step, LocalStep, OwnerStep, Quiet, Ended
<1>4. h \in Handle /\ h.owner # None
  BY <1>1, PinnedFacts DEF Handle
<1>5. crossed' \in BOOLEAN /\ table' = table /\ lapsed' = lapsed
        /\ UNCHANGED <<inc, peer, jobError, gossip>>
  BY DEF Commit, TypeOK, leader
<1>6. ASSUME obj' = [obj EXCEPT ![o].state = "Ready"]
      PROVE  ObjectsStay
  <2> HIDE DEF h
  <2>1. o \in Obj /\ obj[o] \in Object /\ obj[o].node # None
    BY <1>1, PinnedFacts
  <2> HIDE DEF o
  <2>2. QED
    BY <1>6, <2>1 DEF TypeOK, Object, ObjectsStay, Refs, MappedExist
<1>7. CASE Fails(c)
  BY <1>5, <1>7, FailsKept DEF TypeOK
<1>8. CASE /\ obj' = [obj EXCEPT ![o].state = "Ready"]
           /\ Advance(c, AfterCommit(c), h)
  <2> HIDE DEF h
  <2>1. QED
    BY <1>1, <1>3, <1>4, <1>5, <1>6, <1>8, PinnedFacts, AdvanceKept DEF TypeOK
<1>9. CASE /\ obj' = [obj EXCEPT ![o].state = "Ready"] /\ Discards(c)
           /\ call' = [call EXCEPT ![c].pc = "free", ![c].pin = None]
  <2>1. Only(c) /\ call'[c].pc = "free" /\ call'[c].h = call[c].h
          /\ call'[c].src = call[c].src /\ call'[c].pin = None
          /\ call'[c].live = call[c].live /\ c \in Migration
    BY ZenonT(60), <1>1, <1>9, PinnedFacts
    DEF TypeOK, CallState, Only, Step, OwnerStep, Discards
  <2>2. CallFine(c)'
    BY <1>1, <1>6, <1>9, <2>1, PinnedFacts, StepsOf
    DEF CallFine, CallNamed, CallHolds, CallRole, CallState, Quiet, Ended,
        LocalStep, ObjectsStay
  <2>3. QED
    BY <1>5, <1>6, <1>9, <2>1, <2>2, StepKept DEF TypeOK
<1>10. QED
  BY <1>7, <1>8, <1>9 DEF Commit

LEMMA RegisterKept ==
    ASSUME TypeOK, Refs, NEW c \in Call, Register(c)
    PROVE  TypeOK' /\ Refs'
<1>1. /\ call[c] \in CallState /\ call[c].h \in Handle
      /\ call[c].h.owner # None /\ call[c].pc \notin Quiet \cup {"picked"}
  BY DEF TypeOK, CallState, Register, Refs, CallNamed, Quiet, Ended
<1>2. table' \in Handle /\ lapsed' \in BOOLEAN /\ crossed' \in BOOLEAN
  BY <1>1, RegisteredType, LapseType DEF Register, TypeOK
<1>3. "done" \in Step /\ "done" \in Quiet /\ "done" \in Ended
  BY DEF Step, Quiet, Ended
<1>4. QED
  BY <1>1, <1>2, <1>3, ObjSame, AdvanceKept DEF Register

LEMMA RenewKept ==
    ASSUME TypeOK, Refs, NEW c \in Call, Renew(c)
    PROVE  TypeOK' /\ Refs'
<1> DEFINE o == call[c].pin
           h == [HandleOf(o) EXCEPT !.lease = Lease]
<1>1. Pinned(c, "renew") /\ "renew" \in OwnerStep
  BY DEF Renew, OwnerStep
<1>2. c \in Renewal
  BY <1>1, StepsOf, PinnedFacts
  DEF Call, CallFine, CallRole, Quiet, Ended
<1>3. /\ "register" \in Step /\ "register" \notin Quiet
      /\ "register" \in Steps(c)
  BY <1>2, StepsOf DEF Step, Quiet, Ended
<1>4. h \in Handle /\ h.owner # None
  BY <1>1, PinnedFacts, ConstantsAssumption DEF Handle, LeaseTicks, Tombstone
<1>5. crossed' \in BOOLEAN /\ table' = table /\ lapsed' = lapsed
        /\ UNCHANGED <<inc, peer, jobError, gossip>>
  BY DEF Renew, TypeOK, leader
<1>6. CASE Fails(c)
  BY <1>5, <1>6, FailsKept DEF TypeOK
<1>7. CASE obj' = [obj EXCEPT ![o].lease = Lease] /\ Advance(c, "register", h)
  <2> HIDE DEF h
  <2>1. o \in Obj /\ obj[o] \in Object /\ obj[o].node # None
    BY <1>1, PinnedFacts
  <2>2. obj' = [obj EXCEPT ![o].lease = Lease]
    BY <1>7
  <2>3. ObjectsStay
    <3> HIDE DEF o
    <3>1. QED
      BY <2>1, <2>2, ConstantsAssumption
      DEF TypeOK, Object, ObjectsStay, Refs, MappedExist
  <2>4. QED
    BY <1>1, <1>3, <1>4, <1>5, <1>7, <2>3, PinnedFacts, AdvanceKept DEF TypeOK
<1>8. QED
  BY <1>6, <1>7 DEF Renew

LEMMA FreeCheckKept ==
    ASSUME TypeOK, Refs, NEW c \in Call, FreeCheck(c)
    PROVE  TypeOK' /\ Refs'
<1>1. Pinned(c, "free") /\ "free" \in OwnerStep
  BY DEF FreeCheck, OwnerStep
<1>2. Only(c) /\ call'[c].pc = "unmap" /\ call'[c].h = call[c].h
        /\ call'[c].src = call[c].src /\ call'[c].pin = call[c].pin
        /\ call'[c].live = call[c].live
  BY <1>1, PinnedFacts DEF FreeCheck, TypeOK, CallState, Only, Step
<1>3. CallFine(c)'
  <2>1. CallFine(c) /\ obj' = obj /\ call[c].pc = "free"
          /\ call[c].h.owner # None
    BY <1>1, PinnedFacts DEF FreeCheck
  <2>2. QED
    BY <1>2, <2>1, StepsOf, ConstantsAssumption
    DEF CallFine, CallNamed, CallHolds, CallRole, Call, Quiet, Ended, LocalStep
<1>4. QED
  BY <1>2, <1>3, OnlyCallKept DEF FreeCheck

LEMMA UnmapKept ==
    ASSUME TypeOK, Refs, NEW c \in Call, Unmap(c)
    PROVE  TypeOK' /\ Refs'
<1>1. /\ call[c] \in CallState /\ call[c].h \in Handle
      /\ call[c].h.owner # None /\ call[c].pc \notin Quiet \cup {"picked"}
  BY DEF TypeOK, CallState, Unmap, Refs, CallNamed, Quiet, Ended
<1>2. crossed' \in BOOLEAN /\ table' = table /\ lapsed' = lapsed
        /\ UNCHANGED <<inc, peer, jobError, gossip>>
  BY DEF Unmap, TypeOK, leader
<1>3. ObjectsStay
  <2>1. Unlocked(c) \in [Obj -> Object]
    BY UnlockedType DEF TypeOK
  <2>2. \A o \in Obj : Unlocked(c)[o].node = obj[o].node
                         /\ Unlocked(c)[o].mapped = obj[o].mapped
    BY UnlockedType DEF TypeOK
  <2>3. obj' = [o \in Obj |-> [Unlocked(c)[o] EXCEPT
                                 !.mapped = @ /\ o # call[c].pin]]
    BY DEF Unmap
  <2>4. \A o \in Obj :
          [Unlocked(c)[o] EXCEPT !.mapped = @ /\ o # call[c].pin] \in Object
    BY ZenonT(60), <2>1 DEF Object
  <2>5. obj' \in [Obj -> Object]
    BY <2>3, <2>4
  <2>6. \A o \in Obj : /\ obj'[o].node = Unlocked(c)[o].node
                       /\ obj'[o].mapped => Unlocked(c)[o].mapped
    BY <2>1, <2>3 DEF Object
  <2>7. QED
    BY <2>2, <2>5, <2>6 DEF ObjectsStay, Refs, MappedExist
<1>4. CASE c \in Release
  <2> DEFINE h == [call[c].h EXCEPT !.lease = Tombstone]
  <2>1. h \in Handle /\ h.owner # None
    BY <1>1, ConstantsAssumption DEF Handle, LeaseTicks, Tombstone
  <2>2. Advance(c, "register", h)
    BY <1>4 DEF Unmap
  <2>3. "register" \in Step /\ "register" \notin Quiet
          /\ "register" \in Steps(c)
    BY <1>4, StepsOf DEF Step, Quiet, Ended
  <2> HIDE DEF h
  <2>4. QED
    BY <1>1, <1>2, <1>3, <2>1, <2>2, <2>3, AdvanceKept DEF TypeOK
<1>5. CASE c \notin Release
  <2>1. "done" \in Step /\ "done" \in Quiet /\ "done" \in Ended
    BY DEF Step, Quiet, Ended
  <2>2. Advance(c, "done", call[c].h)
    BY <1>5 DEF Unmap
  <2>3. QED
    BY <1>1, <1>2, <1>3, <2>1, <2>2, AdvanceKept DEF TypeOK
<1>6. QED
  BY <1>4, <1>5

LEMMA PickKept ==
    ASSUME TypeOK, Refs, NEW c \in Call, PickForMigration(c)
    PROVE  TypeOK' /\ Refs'
<1>1. call[c] \in CallState /\ CallFine(c) /\ table \in Handle
        /\ c \in Migration /\ table.owner # None /\ call[c].pc = "idle"
  BY DEF TypeOK, Refs, CallFine, PickForMigration
<1>2. Only(c) /\ call'[c].pc = "picked" /\ call'[c].h = table
        /\ call'[c].src = call[c].src /\ call'[c].pin = call[c].pin
        /\ call'[c].live = call[c].live
  BY <1>1 DEF PickForMigration, TypeOK, CallState, Only, Step, LocalStep
<1>3. CallFine(c)'
  <2>1. obj' = obj
    BY DEF PickForMigration
  <2>2. QED
    BY <1>1, <1>2, <2>1, StepsOf
    DEF CallFine, CallNamed, CallHolds, CallRole, Quiet, Ended, LocalStep
<1>4. QED
  BY <1>2, <1>3, OnlyCallKept DEF PickForMigration

LEMMA MigrateKept ==
    ASSUME TypeOK, Refs, NEW c \in Call, Migrate(c)
    PROVE  TypeOK' /\ Refs'
<1>1. call[c] \in CallState /\ CallFine(c) /\ call[c].h.owner # None
  BY DEF TypeOK, Refs, CallFine, CallNamed, Migrate, Quiet, Ended
<1>2. CASE Fails(c)
  BY <1>2, FailsKept DEF Migrate, leader, TypeOK
<1>3. ASSUME NEW o \in MappedAt(call[c].h.owner), UNCHANGED obj,
             call' = [call EXCEPT ![c].pc = "lock", ![c].src = o]
      PROVE  TypeOK' /\ Refs'
  <2>1. o \in Obj /\ obj[o].node # None /\ o # None
    BY <1>1, <1>3, ConstantsAssumption DEF MappedAt, Obj, Call
  <2>2. Only(c) /\ call'[c].pin = call[c].pin /\ call'[c].pc = "lock"
          /\ call'[c].h = call[c].h /\ call'[c].src = o
          /\ call'[c].live = call[c].live
    BY <1>1, <1>3, <2>1 DEF TypeOK, CallState, Only, Step, LocalStep
  <2>3. c \in Migration /\ call[c].pc = "picked"
    BY <1>1, StepsOf
    DEF Migrate, Call, CallFine, CallRole, Quiet, Ended
  <2>4. CallFine(c)'
    BY <1>1, <1>3, <2>1, <2>2, <2>3, StepsOf
    DEF CallFine, CallNamed, CallHolds, CallRole, LocalStep, Quiet, Ended
  <2>5. QED
    BY <1>3, <2>2, <2>4, OnlyCallKept DEF Migrate
<1>4. QED
  BY <1>2, <1>3 DEF Migrate

LEMMA LockSourceKept ==
    ASSUME TypeOK, Refs, NEW c \in Call, NEW dst \in Node, LockSource(c, dst)
    PROVE  TypeOK' /\ Refs'
<1> DEFINE s == call[c].src
           h == [owner |-> dst, inc |-> inc[dst], gen |-> obj[s].gen + 1,
                 state |-> "Writing", lease |-> Lease]
<1>1. call[c] \in CallState /\ CallFine(c) /\ call[c].pc = "lock"
        /\ c \in Migration /\ call[c].live
  BY StepsOf
  DEF TypeOK, Refs, CallFine, CallRole, CallHolds, LockSource, LocalStep,
      Call, Quiet, Ended
<1>2. s \in Obj /\ obj[s] \in Object /\ obj[s].node # None
  BY <1>1 DEF TypeOK, CallState, CallFine, CallHolds, Quiet, Ended
<1>3. h \in Handle /\ h.owner # None /\ h.lease # Tombstone
  BY <1>2, ConstantsAssumption
  DEF TypeOK, Object, Handle, LeaseTicks, Tombstone
<1>4. CASE Fails(c)
  BY <1>4, FailsKept DEF LockSource, leader, TypeOK
<1>5. CASE /\ obj' = [obj EXCEPT ![s].lock = c]
           /\ call' = [call EXCEPT ![c].pc = "alloc", ![c].prev = obj[s].gen,
                                   ![c].h = h]
  <2> HIDE DEF h
  <2>1. ObjectsStay
    <3> HIDE DEF s
    <3>1. QED
      BY <1>1, <1>2, <1>5 DEF TypeOK, Object, ObjectsStay, Refs, MappedExist
  <2>2. obj[s].gen \in Nat
    BY <1>2 DEF Object
  <2>3. Only(c) /\ call'[c].pin = call[c].pin /\ call'[c].pc = "alloc"
          /\ call'[c].h = h /\ call'[c].src = call[c].src
          /\ call'[c].live = call[c].live
    BY <1>1, <1>3, <1>5, <2>2 DEF TypeOK, CallState, Only, Step
  <2>4. CallFine(c)'
    BY <1>1, <1>2, <1>3, <2>1, <2>3, StepsOf
    DEF CallFine, CallNamed, CallHolds, CallRole, LocalStep, Quiet, Ended,
        ObjectsStay, CallState
  <2>5. QED
    BY <2>1, <2>3, <2>4, StepKept DEF LockSource, leader, TypeOK
<1>6. QED
  BY <1>4, <1>5 DEF LockSource

LEMMA CompareAndSetKept ==
    ASSUME TypeOK, Refs, NEW c \in Call, CompareAndSet(c)
    PROVE  TypeOK' /\ Refs'
<1>1. /\ call[c] \in CallState /\ call[c].h \in Handle
      /\ call[c].h.owner # None /\ call[c].pc \notin Quiet \cup {"picked"}
  BY DEF TypeOK, CallState, CompareAndSet, Refs, CallNamed, Quiet, Ended
<1>2. c \in Migration
  BY StepsOf DEF Call, CompareAndSet, Refs, CallRole, Quiet, Ended
<1>3. /\ lapsed' \in BOOLEAN /\ crossed' \in BOOLEAN
      /\ UNCHANGED <<inc, peer, jobError, gossip>>
  BY LapseType DEF CompareAndSet, TypeOK
<1>4. CASE Fails(c) /\ UNCHANGED table
  BY <1>3, <1>4, FailsKept DEF TypeOK
<1>5. CASE /\ table' = Registered(table, call[c].h)
           /\ Advance(c, "publish", call[c].h) /\ UNCHANGED obj
  <2>1. table' \in Handle
    BY <1>1, <1>5, RegisteredType DEF TypeOK
  <2>2. /\ "publish" \in Step /\ "publish" \notin Quiet
        /\ "publish" \in Steps(c)
    BY <1>2, StepsOf DEF Step, OwnerStep, Quiet, Ended
  <2>3. QED
    BY <1>1, <1>3, <1>5, <2>1, <2>2, ObjSame, AdvanceKept
<1>6. QED
  BY <1>4, <1>5 DEF CompareAndSet

LEMMA PublishKept ==
    ASSUME TypeOK, Refs, NEW c \in Call, Publish(c)
    PROVE  TypeOK' /\ Refs'
<1> DEFINE o == call[c].pin
<1>1. Pinned(c, "publish") /\ "publish" \in OwnerStep
  BY DEF Publish, OwnerStep
<1>2. c \in Migration
  BY <1>1, StepsOf, PinnedFacts
  DEF Call, CallFine, CallRole, Quiet, Ended
<1>3. crossed' \in BOOLEAN /\ table' = table /\ lapsed' = lapsed
        /\ UNCHANGED <<inc, peer, jobError, gossip>>
  BY DEF Publish, TypeOK, leader
<1>4. CASE Fails(c)
  BY <1>3, <1>4, FailsKept DEF TypeOK
<1>5. CASE /\ obj' = [obj EXCEPT ![o].published = TRUE]
           /\ Advance(c, "drop", call[c].h)
  <2>1. o \in Obj /\ obj[o] \in Object /\ obj[o].node # None
    BY <1>1, PinnedFacts
  <2>2. ObjectsStay
    <3> HIDE DEF o
    <3>1. QED
      BY <1>5, <2>1 DEF TypeOK, Object, ObjectsStay, Refs, MappedExist
  <2>3. "drop" \in Step /\ "drop" \notin Quiet /\ "drop" \in Steps(c)
    BY <1>2, StepsOf DEF Step, LocalStep, Quiet, Ended
  <2>4. QED
    BY <1>1, <1>3, <1>5, <2>2, <2>3, PinnedFacts, AdvanceKept DEF TypeOK
<1>6. QED
  BY <1>4, <1>5 DEF Publish

(* Dropping c's guard changes no object's place. *)
LEMMA UnlockedStays ==
    ASSUME TypeOK, Refs, NEW c \in Call, obj' = Unlocked(c)
    PROVE  ObjectsStay /\ \A o \in Obj : obj'[o].node = obj[o].node
BY UnlockedType DEF TypeOK, ObjectsStay, Refs, MappedExist

LEMMA EndsKept ==
    ASSUME TypeOK, Refs, NEW c \in Call, NEW r \in Ended, ObjectsStay,
           call' = [call EXCEPT ![c] = Over(r)],
           UNCHANGED <<inc, leader, gossip, crossed>>
    PROVE  TypeOK' /\ Refs'
<1>1. Only(c) /\ call'[c] = Over(r)
  BY OverType DEF TypeOK, Only
<1>2. Over(r).live /\ Over(r).src = None /\ Over(r).pin = None /\ Over(r).pc = r
  BY OverType DEF Over, IdleCall
<1>3. QED
  BY <1>1, <1>2, EndedFine, StepKept DEF leader, TypeOK

LEMMA DropSourceKept ==
    ASSUME TypeOK, Refs, NEW c \in Call, DropSource(c)
    PROVE  TypeOK' /\ Refs'
<1>1. call[c] \in CallState /\ CallFine(c) /\ call[c].pc = "drop"
        /\ c \in Migration /\ call[c].live
  BY StepsOf
  DEF TypeOK, Refs, CallFine, CallRole, CallHolds, DropSource, LocalStep,
      Call, Quiet, Ended
<1>2. call[c].src \in Obj /\ obj[call[c].src].node # None
  BY <1>1 DEF CallState, CallFine, CallHolds, Quiet, Ended
<1>3. ObjectsStay
  BY UnlockedStays DEF DropSource
<1>4. CASE call' = [call EXCEPT ![c] = Over("done")]
  BY <1>3, <1>4, EndsKept DEF DropSource, Ended
<1>5. ASSUME NEW o \in MappedAt(obj[call[c].src].node),
             call' = [call EXCEPT ![c].pc = "free", ![c].pin = o,
                                  ![c].h = HandleOf(call[c].src)]
      PROVE  TypeOK' /\ Refs'
  <2> DEFINE h == HandleOf(call[c].src)
  <2>1. h \in Handle /\ h.owner # None
    BY <1>2, HandleOfType
  <2>2. o \in Obj /\ obj[o].node # None
    BY <1>2 DEF MappedAt
  <2>3. call' = [call EXCEPT ![c].pc = "free", ![c].pin = o, ![c].h = h]
    BY <1>5
  <2> HIDE DEF h
  <2>4. Only(c) /\ call'[c].pin = o /\ call'[c].pc = "free"
          /\ call'[c].h = h /\ call'[c].src = call[c].src
          /\ call'[c].live = call[c].live
    BY <1>1, <2>1, <2>2, <2>3 DEF TypeOK, CallState, Only, Step, OwnerStep
  <2>5. CallFine(c)'
    BY <1>1, <1>2, <1>3, <2>1, <2>2, <2>4, StepsOf
    DEF CallFine, CallNamed, CallHolds, CallRole, LocalStep, Quiet, Ended,
        ObjectsStay
  <2>6. QED
    BY <1>3, <2>4, <2>5, StepKept DEF DropSource, leader, TypeOK
<1>6. QED
  BY <1>4, <1>5 DEF DropSource

LEMMA RpcErrorKept ==
    ASSUME TypeOK, Refs, NEW c \in Call, RpcError(c)
    PROVE  TypeOK' /\ Refs'
BY FailsKept DEF RpcError, leader, TypeOK

LEMMA DropStrayKept ==
    ASSUME TypeOK, Refs, NEW c \in Call, DropStray(c)
    PROVE  TypeOK' /\ Refs'
BY FailureType, EndsKept, ObjSame DEF DropStray

LEMMA AbandonKept ==
    ASSUME TypeOK, Refs, NEW c \in Call, Abandon(c)
    PROVE  TypeOK' /\ Refs'
<1>1. ObjectsStay
  BY UnlockedStays DEF Abandon
<1>2. CASE call[c].pc \in LocalStep
  <2>1. call' = [call EXCEPT ![c] = Over(Failure(c))]
    BY <1>2 DEF Abandon
  <2>2. QED
    BY <1>1, <2>1, FailureType, EndsKept DEF Abandon
<1>3. CASE call[c].pc \notin LocalStep
  <2>1. call[c] \in CallState /\ CallFine(c)
    BY DEF TypeOK, Refs, CallFine
  <2>2. call' = [call EXCEPT ![c] = [@ EXCEPT !.live = FALSE]]
    BY <1>3 DEF Abandon
  <2>3. Only(c) /\ call'[c].pin = call[c].pin /\ call'[c].pc = call[c].pc
          /\ call'[c].h = call[c].h /\ call'[c].src = call[c].src
          /\ call'[c].live = FALSE
    BY <2>1, <2>2 DEF TypeOK, CallState, Only
  <2>4. CallFine(c)'
    BY <1>1, <1>3, <2>1, <2>3
    DEF CallFine, CallNamed, CallHolds, CallRole, ObjectsStay, CallState
  <2>5. QED
    BY <1>1, <2>3, <2>4, StepKept DEF Abandon, leader, TypeOK
<1>4. QED
  BY <1>2, <1>3

(* Expire leaves the calls as they are. *)
LEMMA ExpireKept ==
    ASSUME TypeOK, Refs, NEW o \in Obj, Expire(o)
    PROVE  TypeOK' /\ Refs'
<1>1. obj[o] \in Object /\ obj' = [obj EXCEPT ![o].mapped = FALSE]
  BY DEF TypeOK, Expire
<1>2. obj' \in [Obj -> Object]
  BY <1>1 DEF TypeOK, Object
<1>3. \A p \in Obj : obj'[p].node = obj[p].node
                       /\ (obj'[p].mapped => obj[p].mapped)
  BY <1>1 DEF TypeOK, Object
<1>4. TypeOK'
  BY <1>2 DEF TypeOK, Expire, leader
<1>5. \A c \in Call : /\ call[c].pin \in Obj \cup {None}
                      /\ call[c].src \in Obj \cup {None}
  BY DEF TypeOK, CallState
<1>6. ASSUME NEW c \in Call PROVE CallFine(c)'
  BY <1>3, <1>5
  DEF Refs, CallFine, CallNamed, CallHolds, CallRole, Expire
<1>7. QED
  BY <1>3, <1>4, <1>6
  DEF Refs, CallFine, MappedExist, GossipNamed, Expire

LEMMA RestartKept ==
    ASSUME TypeOK, Refs, NEW n \in Node, Restart(n)
    PROVE  TypeOK' /\ Refs'
<1> DEFINE gone == {o \in Obj : obj[o].node = n}
           killed(c) == call[c].src \in gone
           served(c) == call[c].pin \in gone
           ended(c) == \/ killed(c) /\ (call[c].pc \in LocalStep \/ served(c))
                       \/ ~call[c].live /\ (served(c) \/ Awaits(c, n))
           left(c) == [call[c] EXCEPT
                         !.live = @ /\ ~killed(c),
                         !.src = IF killed(c) THEN None ELSE @,
                         !.pin = IF served(c) THEN None ELSE @,
                         !.pc = IF served(c) /\ @ = "unmap" THEN "free" ELSE @]
<1>1. /\ obj' = [o \in Obj |->
                   IF o \in gone THEN NoObject
                   ELSE [obj[o] EXCEPT
                           !.lock = IF @ \in {c \in Call : killed(c)}
                                    THEN None ELSE @]]
      /\ call' = [c \in Call |->
                    IF ended(c) THEN Over(Failure(c)) ELSE left(c)]
      /\ inc' = [inc EXCEPT ![n] = @ + 1]
      /\ UNCHANGED <<leader, gossip, crossed>>
  BY DEF Restart
<1>2. \A o \in Obj : obj[o] \in Object
  BY DEF TypeOK
<1>3. obj' \in [Obj -> Object]
  BY ZenonT(60), <1>1, <1>2, NoObjectType DEF Object
<1>4. \A o \in Obj : /\ o \notin gone => obj'[o].node = obj[o].node
                                          /\ obj'[o].mapped = obj[o].mapped
                     /\ o \in gone => ~obj'[o].mapped
  BY <1>1, <1>2 DEF Object, NoObject
<1>5. MappedExist'
  BY <1>3, <1>4 DEF Refs, MappedExist
<1>6. ASSUME NEW c \in Call
      PROVE  call'[c] \in CallState /\ CallFine(c)'
  <2>1. call[c] \in CallState /\ CallFine(c)
    BY DEF TypeOK, Refs, CallFine
  <2>2. CASE ended(c)
    <3>1. call'[c] = Over(Failure(c)) /\ Failure(c) \in Ended
      BY <1>1, <2>2, FailureType
    <3>2. Over(Failure(c)).live
      BY DEF Over, IdleCall
    <3>3. QED
      BY <3>1, <3>2, OverType, EndedFine
  <2>3. CASE ~ended(c)
    <3>1. call'[c] = left(c)
      BY <1>1, <2>3
    <3>2. left(c) \in CallState
      BY ZenonT(60), <2>1 DEF CallState, Step, OwnerStep
    <3>3. /\ left(c).h = call[c].h
          /\ left(c).live <=> call[c].live /\ ~killed(c)
          /\ left(c).src = IF killed(c) THEN None ELSE call[c].src
          /\ left(c).pin = IF served(c) THEN None ELSE call[c].pin
          /\ left(c).pc = IF served(c) /\ call[c].pc = "unmap"
                          THEN "free" ELSE call[c].pc
      BY <2>1 DEF CallState
    <3>4. /\ call[c].pc \in LocalStep => ~killed(c)
          /\ call[c].pc = "unmap" => c \in Release \cup Migration
      BY <2>1, <2>3, StepsOf, ConstantsAssumption
      DEF CallFine, CallRole, Call, Quiet, Ended
    <3>5. /\ call[c].src \in Obj \cup {None} /\ call[c].pin \in Obj \cup {None}
          /\ None \notin Obj
      BY <2>1, ConstantsAssumption DEF CallState, Obj, Call
    <3> HIDE DEF left
    <3>6. CallNamed(c)'
      BY <2>1, <3>1, <3>3 DEF CallFine, CallNamed, Quiet, Ended
    <3>7. CallHolds(c)'
      BY <1>4, <2>1, <3>1, <3>3, <3>4, <3>5
      DEF CallFine, CallHolds, Quiet, Ended, LocalStep
    <3>8. CallRole(c)'
      BY <2>1, <3>1, <3>3, <3>4, StepsOf
      DEF CallFine, CallRole, Quiet, Ended
    <3>9. QED
      BY <3>1, <3>2, <3>6, <3>7, <3>8 DEF CallFine
  <2>4. QED
    BY <2>2, <2>3
<1> HIDE DEF ended, left, killed, served, gone
<1>7. call' \in [Call -> CallState]
  BY <1>1, <1>6
<1>8. TypeOK'
  BY <1>1, <1>3, <1>7 DEF TypeOK, leader
<1>9. QED
  BY <1>1, <1>5, <1>6, <1>8 DEF Refs, CallFine, GossipNamed

(* A step that touches no call and no object. *)
LEMMA LeaderKept ==
    ASSUME TypeOK, Refs, UNCHANGED <<inc, obj, call, crossed>>,
           table' \in Handle, peer' \in [Node -> Nat], jobError' \in BOOLEAN,
           lapsed' \in BOOLEAN,
           gossip' \subseteq [node : Node, inc : Nat, h : Handle],
           GossipNamed'
    PROVE  TypeOK' /\ Refs'
<1>1. TypeOK'
  BY DEF TypeOK
<1>2. QED
  BY <1>1
  DEF Refs, MappedExist, CallNamed, CallHolds, CallRole

LEMMA ExchangeKept ==
    ASSUME TypeOK, Refs, NEW n \in Node, Exchange(n)
    PROVE  TypeOK' /\ Refs'
<1>1. PICK h \in {HandleOf(o) : o \in {m \in MappedAt(n) :
                     obj[m].published /\ obj[m].lock = None}}
                  \cup {NoHandle} :
           gossip' = gossip \cup {[node |-> n, inc |-> inc[n], h |-> h]}
  BY DEF Exchange
<1>2. ASSUME NEW o \in MappedAt(n)
      PROVE  HandleOf(o) \in Handle /\ HandleOf(o).owner # None
  <2>1. o \in Obj /\ obj[o].node # None
    BY ConstantsAssumption DEF MappedAt
  <2>2. QED
    BY <2>1, HandleOfType
<1>3. h \in Handle /\ (h # NoHandle => h.owner # None)
  BY <1>1, <1>2, NoHandleType
<1>4. gossip' \subseteq [node : Node, inc : Nat, h : Handle]
  BY <1>1, <1>3 DEF TypeOK
<1>5. GossipNamed'
  BY <1>1, <1>3 DEF Refs, GossipNamed
<1>6. QED
  BY <1>4, <1>5, LeaderKept DEF Exchange, leader, TypeOK

LEMMA AcceptPeerKept ==
    ASSUME TypeOK, Refs, NEW m \in gossip, AcceptPeer(m)
    PROVE  TypeOK' /\ Refs'
<1> DEFINE restarted == peer[m.node] \notin {0, m.inc}
           after == IF restarted THEN LoseNode(table, m.node) ELSE table
<1>1. m.node \in Node /\ m.inc \in Nat /\ m.h \in Handle
  BY DEF TypeOK
<1>2. after \in Handle
  BY <1>1, LoseNodeType DEF TypeOK
<1>3. table' = IF m.h = NoHandle THEN after ELSE Registered(after, m.h)
  BY DEF AcceptPeer
<1>4. table' \in Handle
  <2> HIDE DEF after
  <2>1. QED
    BY <1>1, <1>2, <1>3, RegisteredType
<1>5. peer' \in [Node -> Nat] /\ jobError' \in BOOLEAN /\ lapsed' \in BOOLEAN
  BY <1>1, LapseType DEF AcceptPeer, TypeOK
<1>6. gossip' \subseteq gossip
  BY DEF AcceptPeer
<1>7. QED
  BY <1>4, <1>5, <1>6, LeaderKept DEF AcceptPeer, TypeOK, Refs, GossipNamed

LEMMA DropGossipKept ==
    ASSUME TypeOK, Refs, NEW m \in gossip, DropGossip(m)
    PROVE  TypeOK' /\ Refs'
BY LeaderKept DEF DropGossip, leader, TypeOK, Refs, GossipNamed

LEMMA ExpirePeerKept ==
    ASSUME TypeOK, Refs, NEW n \in Node, ExpirePeer(n)
    PROVE  TypeOK' /\ Refs'
<1>1. table' \in Handle /\ peer' \in [Node -> Nat] /\ jobError' \in BOOLEAN
  BY LoseNodeType DEF ExpirePeer, TypeOK
<1>2. QED
  BY <1>1, LeaderKept DEF ExpirePeer, TypeOK, Refs, GossipNamed

LEMMA RefreshKept ==
    ASSUME TypeOK, Refs, NEW n \in Node, RefreshCapabilities(n)
    PROVE  TypeOK' /\ Refs'
<1>1. peer' \in [Node -> Nat]
  <2>1. PICK j \in 1..inc[n] : peer' = [peer EXCEPT ![n] = j]
    BY DEF RefreshCapabilities
  <2> QED BY <2>1 DEF TypeOK
<1>2. QED
  BY <1>1, LeaderKept DEF RefreshCapabilities, TypeOK, Refs, GossipNamed

LEMMA TickKept ==
    ASSUME TypeOK, Refs, Tick
    PROVE  TypeOK' /\ Refs'
<1>1. \A o \in Obj : obj[o] \in Object
  BY DEF TypeOK
<1>2. \A o \in Obj : Aged(obj[o].lease) \in 0..Lease
  BY <1>1, ConstantsAssumption DEF Object, Aged
<1>3. obj' \in [Obj -> Object]
  BY <1>1, <1>2 DEF Tick, Object
<1>4. \A o \in Obj : obj'[o].node = obj[o].node /\ obj'[o].mapped = obj[o].mapped
  BY <1>1 DEF Tick, Object
<1>5. table' \in Handle /\ lapsed' \in BOOLEAN
  BY AgedType, LapseType DEF Tick, TypeOK
<1>6. ASSUME NEW c \in Call
      PROVE  call'[c] \in CallState /\ CallFine(c)'
  <2>1. call[c] \in CallState /\ CallFine(c)
    BY DEF TypeOK, Refs, CallFine
  <2>2. AgedHandle(call[c].h) \in Handle
    BY <2>1, AgedType DEF CallState
  <2>3. (IF Timed(c) THEN call[c].age + 1 ELSE call[c].age) \in 0..Deadline
    <3>1. Timed(c) => call[c].age < Deadline
      BY DEF Tick
    <3>2. call[c].age \in 0..Deadline
      BY <2>1 DEF CallState
    <3>3. QED
      BY <3>1, <3>2, ConstantsAssumption
  <2>4. call'[c] = [call[c] EXCEPT
                      !.age = IF Timed(c) THEN @ + 1 ELSE @,
                      !.h = AgedHandle(@)]
    BY DEF Tick
  <2>5. /\ call'[c] \in CallState
        /\ call'[c].pc = call[c].pc /\ call'[c].live = call[c].live
        /\ call'[c].src = call[c].src /\ call'[c].pin = call[c].pin
        /\ call'[c].h = AgedHandle(call[c].h)
    BY <2>1, <2>2, <2>3, <2>4 DEF CallState
  <2>6. /\ call'[c].h.owner = call[c].h.owner
        /\ call'[c].h.lease = Tombstone <=> call[c].h.lease = Tombstone
    BY <2>1, <2>5, AgedType DEF CallState
  <2>7. call[c].src \in Obj \cup {None} /\ call[c].pin \in Obj \cup {None}
    BY <2>1 DEF CallState
  <2>8. QED
    BY <1>4, <2>1, <2>5, <2>6, <2>7
    DEF CallFine, CallNamed, CallHolds, CallRole
<1>7. call' \in [Call -> CallState]
  BY <1>6 DEF Tick
<1>8. ASSUME NEW m \in gossip'
      PROVE  /\ m \in [node : Node, inc : Nat, h : Handle]
             /\ m.h # NoHandle => m.h.owner # None
  <2>1. PICK k \in gossip : m = [k EXCEPT !.h = AgedHandle(@)]
    BY <1>8 DEF Tick
  <2>2. k \in [node : Node, inc : Nat, h : Handle]
    BY DEF TypeOK
  <2>3. AgedHandle(k.h) \in Handle /\ AgedHandle(k.h).owner = k.h.owner
    BY <2>2, AgedType
  <2>4. m.h = AgedHandle(k.h) /\ m \in [node : Node, inc : Nat, h : Handle]
    BY <2>1, <2>2, <2>3
  <2>5. k.h # NoHandle => k.h.owner # None
    BY DEF Refs, GossipNamed
  <2>6. QED
    BY <2>3, <2>4, <2>5, AgedNoHandle
<1>9. TypeOK'
  BY <1>3, <1>5, <1>7, <1>8 DEF TypeOK, Tick
<1>10. QED
  BY <1>4, <1>6, <1>8, <1>9 DEF Refs, CallFine, GossipNamed, MappedExist

-----------------------------------------------------------------------------
(* The theorems *)

LEMMA InitFine == Init => TypeOK /\ Refs
<1> SUFFICES ASSUME Init PROVE TypeOK /\ Refs
  OBVIOUS
<1>1. TypeOK
  <2>1. inc \in [Node -> Nat \ {0}] /\ peer \in [Node -> Nat]
    BY DEF Init
  <2>2. obj \in [Obj -> Object] /\ table \in Handle /\ gossip = {}
    BY NoHandleType, NoObjectType DEF Init
  <2>3. call \in [Call -> CallState]
    BY IdleType DEF Init
  <2>4. jobError \in BOOLEAN /\ lapsed \in BOOLEAN /\ crossed \in BOOLEAN
    BY DEF Init
  <2>5. QED
    BY <2>1, <2>2, <2>3, <2>4 DEF TypeOK
<1>2. ASSUME NEW c \in Call PROVE CallFine(c)
  <2>1. call[c] = IdleCall
    BY DEF Init
  <2>2. QED
    BY <2>1
    DEF CallFine, CallNamed, CallHolds, CallRole, IdleCall, Quiet, LocalStep
<1>3. QED
  BY <1>1, <1>2 DEF Init, Refs, CallFine, MappedExist, NoObject, GossipNamed

LEMMA CallStepKept ==
    ASSUME TypeOK, Refs, NEW c \in Call, CallStep(c)
    PROVE  TypeOK' /\ Refs'
BY AllocateLocalKept, ArriveKept, WriteChunksKept, CommitKept, RegisterKept,
   RenewKept, FreeCheckKept, UnmapKept, MigrateKept, CompareAndSetKept,
   PublishKept, DropSourceKept, LockSourceKept, RpcErrorKept, AbandonKept,
   DropStrayKept
DEF CallStep

LEMMA NextKept == TypeOK /\ Refs /\ [Next]_vars => TypeOK' /\ Refs'
<1> SUFFICES ASSUME TypeOK, Refs, [Next]_vars
             PROVE  TypeOK' /\ Refs'
  OBVIOUS
<1>1. CASE UNCHANGED vars
  BY <1>1
  DEF vars, leader, TypeOK, Refs, MappedExist, CallNamed, CallHolds, CallRole,
      GossipNamed
<1>2. CASE Start
  <2>1. Origin \in Call
    BY DEF Call
  <2>2. QED
    BY <1>2, <2>1, AllocateKept, GrantKept, StartKept, PickKept DEF Start
<1>3. CASE \E c \in Call : CallStep(c)
  BY <1>3, CallStepKept
<1>4. CASE \E o \in Obj : Expire(o)
  BY <1>4, ExpireKept
<1>5. CASE \E n \in Node : Restart(n)
  BY <1>5, RestartKept
<1>6. CASE Membership
  BY <1>6, ExchangeKept, ExpirePeerKept, RefreshKept, AcceptPeerKept,
     DropGossipKept
  DEF Membership
<1>7. CASE Tick
  BY <1>7, TickKept
<1>8. QED
  BY <1>1, <1>2, <1>3, <1>4, <1>5, <1>6, <1>7 DEF Next, Work

LEMMA Invariance == Spec => [](TypeOK /\ Refs)
BY InitFine, NextKept, PTL DEF Spec

(* Every reachable state has the shapes of the structs of local_ram.rs,    *)
(* residency.rs and the handlers: no handler of control.rs or migration.rs *)
(* works on an object that does not exist or a handle that names nobody.   *)
THEOREM TypeCorrect == Spec => []TypeOK
BY Invariance, PTL

(* What a step may do to an entry of the residency table. *)
Forward ==
    table.owner # None =>
        /\ table'.owner # None
        /\ table'.gen >= table.gen
        /\ table.lease = Tombstone => table'.lease = Tombstone

LEMMA SameTableForward ==
    ASSUME TypeOK, table' = table
    PROVE  Forward
BY DEF TypeOK, Handle, Forward

LEMMA CallStepForward ==
    ASSUME TypeOK, Refs, NEW c \in Call, CallStep(c)
    PROVE  Forward
<1>1. call[c].h \in Handle /\ table \in Handle
  BY DEF TypeOK, CallState
<1>2. CASE Register(c)
  <2>1. call[c].h.owner # None
    BY <1>2 DEF Register, Refs, CallNamed, Quiet, Ended
  <2>2. QED
    BY <1>1, <1>2, <2>1, RegisteredForward DEF Register, Forward
<1>3. CASE CompareAndSet(c)
  <2>1. call[c].h.owner # None
    BY <1>3 DEF CompareAndSet, Refs, CallNamed, Quiet, Ended
  <2>2. QED
    BY <1>1, <1>3, <2>1, RegisteredForward, SameTableForward
    DEF CompareAndSet, Forward
<1>4. CASE ~Register(c) /\ ~CompareAndSet(c)
  <2>1. table' = table
    BY <1>4
    DEF CallStep, leader, AllocateLocal, Arrive, WriteChunks, Commit, Renew,
        FreeCheck, Unmap, Migrate, Publish, DropSource, LockSource, RpcError,
        Abandon, DropStray
  <2>2. QED
    BY <2>1, SameTableForward
<1>5. QED
  BY <1>2, <1>3, <1>4

LEMMA NextForward == TypeOK /\ Refs /\ [Next]_vars => Forward
<1> SUFFICES ASSUME TypeOK, Refs, [Next]_vars PROVE Forward
  OBVIOUS
<1>1. table \in Handle
  BY DEF TypeOK
<1>2. CASE Grant
  <2>1. call[Origin].h \in Handle /\ call[Origin].h.owner # None
    BY <1>2 DEF Grant, TypeOK, CallState, Refs, CallNamed, Call, Quiet, Ended
  <2>2. QED
    BY <1>1, <1>2, <2>1, RegisteredForward DEF Grant, Forward
<1>3. CASE \E c \in Call : CallStep(c)
  BY <1>3, CallStepForward
<1>4. ASSUME NEW m \in gossip, AcceptPeer(m) PROVE Forward
  <2> DEFINE restarted == peer[m.node] \notin {0, m.inc}
             after == IF restarted THEN LoseNode(table, m.node) ELSE table
  <2>1. m.node \in Node /\ m.h \in Handle
    BY DEF TypeOK
  <2>2. /\ after \in Handle /\ after.owner = table.owner
        /\ after.gen = table.gen /\ after.lease = table.lease
    BY <1>1, <2>1, LoseNodeType
  <2>3. m.h # NoHandle => m.h.owner # None
    BY DEF Refs, GossipNamed
  <2>4. table' = IF m.h = NoHandle THEN after ELSE Registered(after, m.h)
    BY <1>4 DEF AcceptPeer
  <2>5. after.gen \in Nat
    BY <2>2, HandleFields
  <2> HIDE DEF after
  <2>6. CASE m.h = NoHandle
    BY <2>2, <2>4, <2>5, <2>6 DEF Forward
  <2>7. CASE m.h # NoHandle
    <3>1. table.owner # None =>
            /\ Registered(after, m.h).owner # None
            /\ Registered(after, m.h).gen >= after.gen
            /\ after.lease = Tombstone
                 => Registered(after, m.h).lease = Tombstone
      BY <2>1, <2>2, <2>3, <2>7, RegisteredForward
    <3>2. QED
      BY <2>2, <2>4, <2>7, <3>1 DEF Forward
  <2>8. QED
    BY <2>6, <2>7
<1>5. ASSUME NEW n \in Node, ExpirePeer(n) PROVE Forward
  <2>1. table' = LoseNode(table, n) /\ table.gen \in Nat
    BY <1>1, <1>5, HandleFields DEF ExpirePeer
  <2>2. QED
    BY <1>1, <2>1, LoseNodeType DEF Forward
<1>6. CASE Tick
  <2>1. table' = AgedHandle(table) /\ table.gen \in Nat
    BY <1>1, <1>6, HandleFields DEF Tick
  <2>2. QED
    BY <1>1, <2>1, AgedType DEF Forward
<1>7. ASSUME NEW n \in Node,
             \/ Allocate(n) \/ Restart(n) \/ Exchange(n)
             \/ RefreshCapabilities(n)
      PROVE  Forward
  BY <1>7, SameTableForward
  DEF Allocate, Restart, Exchange, RefreshCapabilities, leader
<1>8. ASSUME NEW c \in Call,
             \/ ClientWrite \/ ClientCommit \/ StartRenew(c) \/ StartFree(c)
             \/ PickForMigration(c)
      PROVE  Forward
  BY <1>8, SameTableForward
  DEF ClientWrite, ClientCommit, StartRenew, StartFree, PickForMigration,
      ResolveFor, leader
<1>9. CASE (\E o \in Obj : Expire(o)) \/ UNCHANGED vars
  BY <1>9, SameTableForward DEF Expire, vars, leader
<1>10. ASSUME NEW m \in gossip, DropGossip(m) PROVE Forward
  BY <1>10, SameTableForward DEF DropGossip, leader
<1>11. Origin \in Call
  BY DEF Call
<1>12. QED
  BY <1>2, <1>3, <1>4, <1>5, <1>6, <1>7, <1>8, <1>9, <1>10, <1>11
  DEF Next, Work, Start, Membership

(* However registrations, renewals, compare-and-sets, inventories and      *)
(* losses are delayed or reordered, the residency table never goes back to *)
(* an older generation and never revives a freed block (residency.rs).     *)
THEOREM NeverBack == Spec => TableForward
<1>1. Forward => (table.owner # None =>
                    /\ table'.owner # None
                    /\ table'.gen >= table.gen
                    /\ table.lease = Tombstone => table'.lease = Tombstone)
  BY DEF Forward
<1>2. QED
  BY <1>1, Invariance, NextForward, PTL DEF Spec, TableForward

-----------------------------------------------------------------------------
(* Generations: who publishes a copy, and what the table may be told *)

Tombstoned == table.owner # None /\ table.lease = Tombstone

RenewalsIdle == \A r \in Renewal : call[r].pc = "idle"

Exists(o) == obj[o].node # None

(* Only the origin makes a copy of generation 0, and a copy of a later one *)
(* is published only once it is committed.                                 *)
Generations ==
    /\ \A o \in Obj : Exists(o) /\ obj[o].gen = 0 => o = Origin
    /\ \A o \in Obj : Exists(o) /\ obj[o].published /\ obj[o].gen > 0
                        => obj[o].state = "Ready"
    /\ \A c \in Migration : call[c].pc = "alloc" => call[c].h.gen > 0

(* A migration whose compare-and-set has succeeded is alone in its         *)
(* generation, which nobody has published yet, and the table is as far.    *)
CasUnique ==
    /\ \A o \in Obj : Exists(o) /\ obj[o].published /\ obj[o].gen > 0
                        => table.owner # None /\ obj[o].gen <= table.gen
    /\ \A c \in Migration : call[c].pc = "publish" =>
         /\ table.owner # None
         /\ 0 < call[c].h.gen /\ call[c].h.gen <= table.gen
         /\ \A o \in Obj : Exists(o) /\ obj[o].published
                             => obj[o].gen # call[c].h.gen
         /\ \A d \in Migration :
              call[d].pc = "publish" /\ call[d].h.gen = call[c].h.gen => c = d
    /\ PublishedUnique

Lineage == Generations /\ (~Tombstoned => CasUnique)

(* What most steps leave alone. *)
CopiesSame ==
    \A o \in Obj : obj'[o].node # None =>
        /\ obj'[o].node = obj[o].node /\ obj'[o].gen = obj[o].gen
        /\ obj'[o].published = obj[o].published
        /\ obj'[o].state \in {obj[o].state, "Ready"}

CasSame ==
    \A c \in Migration :
        /\ call'[c].pc = "publish" => call[c].pc = "publish"
                                        /\ call'[c].h.gen = call[c].h.gen
        /\ call'[c].pc = "alloc" => call'[c].h.gen > 0

LEMMA PlainLineage ==
    ASSUME TypeOK, TypeOK', Lineage, CopiesSame, CasSame, Forward
    PROVE  Lineage'
<1>1. Generations'
  BY DEF Lineage, Generations, Exists, CopiesSame, CasSame
<1>2. ~Tombstoned' => ~Tombstoned
  BY DEF Tombstoned, Forward
<1>3. ASSUME CasUnique PROVE CasUnique'
  <2>1. table.owner # None => table'.owner # None /\ table.gen <= table'.gen
    BY DEF Forward, TypeOK, Handle
  <2>2. /\ \A o \in Obj : obj[o].gen \in Nat
        /\ \A c \in Migration : call[c].h.gen \in Nat
        /\ table.gen \in Nat /\ table'.gen \in Nat
    BY DEF TypeOK, Object, CallState, Handle, Call
  <2>3. \A o \in Obj : obj'[o].node # None =>
          /\ obj[o].node # None /\ obj'[o].gen = obj[o].gen
          /\ obj'[o].published = obj[o].published
    BY DEF CopiesSame
  <2>4. \A o \in Obj : Exists(o)' /\ obj'[o].published /\ obj'[o].gen > 0
                         => table'.owner # None /\ obj'[o].gen <= table'.gen
    BY <1>3, <2>1, <2>2, <2>3 DEF CasUnique, Exists
  <2>5. \A c \in Migration : call'[c].pc = "publish" =>
          /\ call[c].pc = "publish" /\ call'[c].h.gen = call[c].h.gen
    BY DEF CasSame
  <2>6. PublishedUnique'
    BY <1>3, <2>3 DEF CasUnique, PublishedUnique
  <2>7. \A c \in Migration : call'[c].pc = "publish" =>
          /\ table'.owner # None
          /\ 0 < call'[c].h.gen /\ call'[c].h.gen <= table'.gen
    BY <1>3, <2>1, <2>2, <2>5 DEF CasUnique
  <2>8. \A c \in Migration : call'[c].pc = "publish" =>
          /\ \A o \in Obj : Exists(o)' /\ obj'[o].published
                              => obj'[o].gen # call'[c].h.gen
          /\ \A d \in Migration :
               call'[d].pc = "publish" /\ call'[d].h.gen = call'[c].h.gen => c = d
    BY <1>3, <2>3, <2>5 DEF CasUnique, Exists
  <2> QED BY <2>4, <2>6, <2>7, <2>8 DEF CasUnique
<1> QED BY <1>1, <1>2, <1>3 DEF Lineage

LEMMA SameCopies ==
    ASSUME TypeOK, obj' = obj
    PROVE  CopiesSame
BY DEF TypeOK, CopiesSame

LEMMA UnlockedCopies ==
    ASSUME TypeOK, NEW c \in Call, obj' = Unlocked(c)
    PROVE  CopiesSame
BY DEF TypeOK, CopiesSame, Unlocked, Object

(* A call that does not move to publish or alloc. *)
LEMMA OtherCas ==
    ASSUME TypeOK, Generations, NEW c \in Call,
           \A d \in Call : d # c => call'[d] = call[d],
           \/ call'[c].pc \notin {"publish", "alloc"}
           \/ call'[c].pc = call[c].pc /\ call'[c].h = call[c].h
    PROVE  CasSame
BY DEF CasSame, Generations, Call

LEMMA FailsPlain ==
    ASSUME TypeOK, Generations, NEW c \in Call, Fails(c)
    PROVE  CopiesSame /\ CasSame
<1>1. CopiesSame
  BY SameCopies, UnlockedCopies DEF Fails
<1>2. CasSame
  BY FailsMoves, OtherCas DEF Only, Ended
<1> QED BY <1>1, <1>2

LEMMA AdvancePlain ==
    ASSUME TypeOK, Generations, NEW c \in Call, NEW next \in Step,
           NEW h \in Handle, Advance(c, next, h), next \notin {"publish", "alloc"}
    PROVE  CasSame
BY AdvanceMoves, OtherCas DEF Only, Ended

(* The steps that neither make, publish nor win a generation. *)
PlainStep(c) ==
    \/ Arrive(c) \/ WriteChunks(c) \/ Commit(c) \/ Register(c) \/ Renew(c)
    \/ FreeCheck(c) \/ Unmap(c) \/ Migrate(c) \/ DropSource(c)
    \/ (\E dst \in Node : LockSource(c, dst))
    \/ RpcError(c) \/ Abandon(c) \/ DropStray(c)

LEMMA CallHandle ==
    ASSUME TypeOK, NEW c \in Call
    PROVE  call[c] \in CallState /\ call[c].h \in Handle
BY DEF TypeOK, CallState

LEMMA PinnedObject ==
    ASSUME TypeOK, Refs, NEW c \in Call, call[c].pin # None
    PROVE  /\ call[c].pin \in Obj /\ obj[call[c].pin] \in Object
           /\ obj[call[c].pin].node # None
           /\ HandleOf(call[c].pin) \in Handle
BY HandleOfType DEF TypeOK, CallState, Refs, CallHolds

LEMMA PlainStepFrame ==
    ASSUME TypeOK, Refs, Generations, NEW c \in Call, PlainStep(c)
    PROVE  CopiesSame /\ CasSame
<1>1. call \in [Call -> CallState] /\ call[c] \in CallState /\ call[c].h \in Handle
      /\ obj \in [Obj -> Object]
  BY CallHandle DEF TypeOK
<1>2. CASE Fails(c)
  BY <1>2, FailsPlain
<1>3. CASE Arrive(c) /\ ~Fails(c)
  <2>1. obj' = obj
    BY <1>3 DEF Arrive
  <2>2. CasSame
    BY <1>1, <1>3, OtherCas DEF Arrive, CallState
  <2> QED BY <2>1, <2>2, SameCopies
<1>4. CASE WriteChunks(c) /\ ~Fails(c)
  <2>1. PICK o \in Obj : /\ obj' = [obj EXCEPT ![o].full = TRUE]
                         /\ Advance(c, IF c = Origin THEN "toCommit" ELSE "commit",
                                    call[c].h)
    BY <1>4, PinnedObject DEF WriteChunks, Pinned
  <2>2. CopiesSame
    BY <1>1, <2>1 DEF CopiesSame, Object
  <2>3. CasSame
    BY <1>1, <2>1, AdvancePlain DEF Step, LocalStep, OwnerStep
  <2> QED BY <2>2, <2>3
<1>5. CASE Commit(c) /\ ~Fails(c)
  <2>1. PICK o \in Obj :
          /\ obj' = [obj EXCEPT ![o].state = "Ready"] /\ HandleOf(o) \in Handle
          /\ \/ Advance(c, AfterCommit(c), [HandleOf(o) EXCEPT !.state = "Ready"])
             \/ call' = [call EXCEPT ![c].pc = "free", ![c].pin = None]
    BY <1>5, PinnedObject DEF Commit, Pinned
  <2>2. CopiesSame
    BY <1>1, <2>1 DEF CopiesSame, Object
  <2>3. [HandleOf(o) EXCEPT !.state = "Ready"] \in Handle
    BY <2>1 DEF Handle
  <2>4. CASE Advance(c, AfterCommit(c), [HandleOf(o) EXCEPT !.state = "Ready"])
    <3>1. AfterCommit(c) \in Step \ {"publish", "alloc"}
      BY DEF AfterCommit, Step
    <3> QED BY <2>2, <2>3, <2>4, <3>1, AdvancePlain
  <2>5. CASE call' = [call EXCEPT ![c].pc = "free", ![c].pin = None]
    <3>1. CasSame
      BY <1>1, <2>5, OtherCas DEF CallState
    <3> QED BY <2>2, <3>1
  <2> QED BY <2>1, <2>4, <2>5
<1>6. CASE Register(c)
  BY <1>1, <1>6, AdvancePlain, SameCopies DEF Register, Step, Ended
<1>7. CASE Renew(c) /\ ~Fails(c)
  <2>1. PICK o \in Obj :
          /\ obj' = [obj EXCEPT ![o].lease = Lease] /\ HandleOf(o) \in Handle
          /\ Advance(c, "register", [HandleOf(o) EXCEPT !.lease = Lease])
    BY <1>7, PinnedObject DEF Renew, Pinned
  <2>2. CopiesSame
    BY <1>1, <2>1 DEF CopiesSame, Object
  <2>3. [HandleOf(o) EXCEPT !.lease = Lease] \in Handle
    BY <2>1, ConstantsAssumption DEF Handle, LeaseTicks, Tombstone
  <2>4. CasSame
    BY <2>1, <2>3, AdvancePlain DEF Step
  <2> QED BY <2>2, <2>4
<1>8. CASE FreeCheck(c)
  <2>1. obj' = obj /\ CasSame
    BY <1>1, <1>8, OtherCas DEF FreeCheck, CallState
  <2> QED BY <2>1, SameCopies
<1>9. CASE Unmap(c)
  <2>1. CopiesSame
    BY <1>1, <1>9, UnlockedType DEF Unmap, CopiesSame, Unlocked, Object
  <2>2. [call[c].h EXCEPT !.lease = Tombstone] \in Handle
    BY <1>1, ConstantsAssumption DEF Handle, LeaseTicks, Tombstone
  <2>3. CasSame
    <3>1. {"register", "done"} \subseteq Step
      BY DEF Step, Ended
    <3>2. \/ Advance(c, "register", [call[c].h EXCEPT !.lease = Tombstone])
          \/ Advance(c, "done", call[c].h)
      BY <1>9 DEF Unmap
    <3> QED BY <1>1, <2>2, <3>1, <3>2, AdvancePlain
  <2> QED BY <2>1, <2>3
<1>10. CASE Migrate(c) /\ ~Fails(c)
  <2>1. obj' = obj /\ CasSame
    BY <1>1, <1>10, OtherCas DEF Migrate, CallState
  <2> QED BY <2>1, SameCopies
<1>11. CASE DropSource(c)
  <2>1. call'[c].pc \in {"free", "done"} /\ \A d \in Call : d # c => call'[d] = call[d]
    BY ZenonT(60), <1>1, <1>11, OverType DEF DropSource, CallState, Ended
  <2>2. CasSame
    BY <2>1, OtherCas
  <2> QED BY <1>11, <2>2, UnlockedCopies DEF DropSource
<1>12. ASSUME NEW dst \in Node, LockSource(c, dst), ~Fails(c)
       PROVE  CopiesSame /\ CasSame
  <2>1. c \in Migration /\ call[c].src \in Obj
    <3>1. CallHolds(c) /\ CallRole(c) /\ call[c].pc = "lock"
      BY <1>12 DEF Refs, LockSource
    <3>2. c \in Migration
      BY <3>1, StepsOf DEF CallRole, Call, Quiet, Ended
    <3> QED
      BY <1>1, <3>1, <3>2 DEF CallHolds, CallState, LocalStep, Quiet, Ended
  <2>2. PICK o \in Obj : o = call[c].src
    BY <2>1
  <2>3. /\ obj' = [obj EXCEPT ![o].lock = c]
        /\ call' = [call EXCEPT ![c].pc = "alloc", ![c].prev = obj[o].gen,
                                ![c].h = [owner |-> dst, inc |-> inc[dst],
                                          gen |-> obj[o].gen + 1,
                                          state |-> "Writing", lease |-> Lease]]
    BY <1>12, <2>2 DEF LockSource
  <2>4. obj[o].gen \in Nat
    BY <1>1 DEF Object
  <2>5. CopiesSame
    BY <1>1, <2>3 DEF CopiesSame, Object
  <2>6. /\ call'[c].pc = "alloc" /\ call'[c].h.gen = obj[o].gen + 1
        /\ \A d \in Call : d # c => call'[d] = call[d]
    BY <1>1, <2>3 DEF CallState
  <2>7. CasSame
    BY <2>4, <2>6 DEF CasSame, Generations, Call
  <2> QED BY <2>5, <2>7
<1>13. CASE Abandon(c)
  <2>1. \/ call' = [call EXCEPT ![c] = Over(Failure(c))]
        \/ call' = [call EXCEPT ![c] = [@ EXCEPT !.live = FALSE]]
    BY <1>13 DEF Abandon
  <2>2. CasSame
    BY <1>1, <2>1, FailureType, OverType, OtherCas DEF CallState, Ended
  <2> QED BY <1>13, <2>2, UnlockedCopies DEF Abandon
<1>14. CASE DropStray(c)
  <2>1. CasSame
    BY <1>1, <1>14, FailureType, OverType, OtherCas DEF DropStray, Ended
  <2> QED BY <1>14, <2>1, SameCopies DEF DropStray
<1>15. CASE RpcError(c)
  BY <1>2, <1>15 DEF RpcError
<1> QED
  BY <1>2, <1>3, <1>4, <1>5, <1>6, <1>7, <1>8, <1>9, <1>10, <1>11, <1>12,
     <1>13, <1>14, <1>15
  DEF PlainStep

LEMMA AllocateLocalLineage ==
    ASSUME TypeOK, TypeOK', Refs, Lineage, Forward, NEW c \in Call,
           AllocateLocal(c)
    PROVE  Lineage'
<1>1. c \in Obj /\ (c \in Migration \/ c = Origin) /\ call[c].h.gen \in Nat
  BY StepsOf, CallHandle
  DEF AllocateLocal, Refs, CallRole, Call, Obj, Quiet, Ended, Handle
<1>2. /\ obj' = [obj EXCEPT ![c] = AllocatedAs(call[c].h)]
      /\ \A o \in Obj \ {c} : obj'[o] = obj[o]
      /\ obj'[c].gen = call[c].h.gen
      /\ obj'[c].published => obj'[c].gen = 0
      /\ call[c].pc = "alloc" /\ table' = table
  BY <1>1 DEF AllocateLocal, AllocatedAs, TypeOK, leader
<1>3. /\ obj'[c].gen = 0 => c = Origin
      /\ ~(obj'[c].published /\ obj'[c].gen > 0)
  BY <1>1, <1>2 DEF Lineage, Generations
<1>4. CasSame
  <2>1. PICK next \in {"grant", "write"} : Advance(c, next, call[c].h)
    BY DEF AllocateLocal
  <2> QED BY <2>1, AdvancePlain, CallHandle
          DEF Lineage, Step, LocalStep, OwnerStep
<1>5. Generations'
  BY <1>2, <1>3, <1>4 DEF Lineage, Generations, Exists, CasSame
<1>6. ASSUME CasUnique PROVE CasUnique'
  <2>1. PublishedUnique'
    BY <1>2, <1>3, <1>6 DEF PublishedUnique, CasUnique, Lineage, Generations, Exists
  <2>2. \A d \in Migration : call'[d].pc = "publish" =>
          /\ table'.owner # None
          /\ 0 < call'[d].h.gen /\ call'[d].h.gen <= table'.gen
          /\ \A o \in Obj : Exists(o)' /\ obj'[o].published
                              => obj'[o].gen # call'[d].h.gen
          /\ \A e \in Migration :
               call'[e].pc = "publish" /\ call'[e].h.gen = call'[d].h.gen => d = e
    BY <1>2, <1>3, <1>4, <1>6 DEF CasUnique, CasSame, Exists
  <2>3. \A o \in Obj : Exists(o)' /\ obj'[o].published /\ obj'[o].gen > 0
                         => table'.owner # None /\ obj'[o].gen <= table'.gen
    BY <1>2, <1>3, <1>6 DEF CasUnique, Exists
  <2> QED BY <2>1, <2>2, <2>3 DEF CasUnique
<1> QED BY <1>2, <1>5, <1>6 DEF Lineage, Tombstoned

(* The table moves on with the first success, and later ones of the same   *)
(* generation fail.                                                        *)
LEMMA CompareAndSetLineage ==
    ASSUME TypeOK, TypeOK', Refs, Lineage, Forward, NEW c \in Call,
           CompareAndSet(c)
    PROVE  Lineage'
<1>1. CASE ~CasHolds(c)
  <2>1. Fails(c)
    BY <1>1 DEF CompareAndSet
  <2> QED BY <2>1, FailsPlain, PlainLineage DEF Lineage
<1>2. CASE CasHolds(c)
  <2>1. /\ c \in Migration /\ call[c].h \in Handle /\ table \in Handle
        /\ call[c].h.gen \in Nat /\ table.gen \in Nat
    BY StepsOf, CallHandle
    DEF CompareAndSet, Refs, CallRole, Call, Quiet, Ended, TypeOK, Handle
  <2>2. /\ obj' = obj /\ table' = Registered(table, call[c].h)
        /\ Advance(c, "publish", call[c].h)
    BY <1>2 DEF CompareAndSet
  <2>3. /\ table.owner # None /\ call[c].h.gen = table.gen + 1
    BY <1>2 DEF CasHolds
  <2>4. /\ \A d \in Call : d # c => call'[d] = call[d]
        /\ call'[c].pc = "publish" => call'[c].h = call[c].h
        /\ call'[c].pc # "alloc"
    BY <2>1, <2>2, AdvanceMoves DEF Only, Step, OwnerStep, Ended
  <2>5. Generations'
    BY <2>2, <2>4 DEF Lineage, Generations, Exists, Call
  <2>6. ASSUME ~Tombstoned, CasUnique PROVE CasUnique'
    <3>1. table'.gen = call[c].h.gen /\ table'.owner # None
      BY <2>1, <2>2, <2>3, <2>6, RegisteredForward
      DEF Registered, Tombstoned, Sealed, Supersedes, Handle, Refs, CallNamed,
          Quiet, Ended, CompareAndSet, Forward
    <3>2. \A o \in Obj : obj[o].gen \in Nat
      BY DEF TypeOK, Object
    <3>3. PublishedUnique'
      BY <2>2, <2>6 DEF CasUnique, PublishedUnique
    <3>4. \A o \in Obj : Exists(o)' /\ obj'[o].published =>
            obj'[o].gen = 0 \/ obj'[o].gen < call[c].h.gen
      BY <2>1, <2>2, <2>3, <2>6, <3>2 DEF CasUnique, Exists
    <3>5. \A d \in Migration : d # c /\ call'[d].pc = "publish" =>
            /\ call[d].pc = "publish" /\ call'[d].h.gen = call[d].h.gen
            /\ call[d].h.gen \in Nat
            /\ 0 < call[d].h.gen /\ call[d].h.gen < call[c].h.gen
      BY <2>1, <2>3, <2>4, <2>6, CallHandle DEF CasUnique, Call, Handle
    <3>6. ASSUME NEW d \in Migration, call'[d].pc = "publish"
          PROVE  /\ 0 < call'[d].h.gen /\ call'[d].h.gen <= table'.gen
                 /\ \A o \in Obj : Exists(o)' /\ obj'[o].published
                                     => obj'[o].gen # call'[d].h.gen
                 /\ \A e \in Migration :
                      call'[e].pc = "publish" /\ call'[e].h.gen = call'[d].h.gen
                      => d = e
      <4>1. CASE d = c
        BY <2>1, <2>3, <2>4, <3>1, <3>2, <3>4, <3>5, <3>6, <4>1
      <4>2. CASE d # c
        BY <2>1, <2>2, <2>4, <2>6, <3>1, <3>5, <3>6, <4>2 DEF CasUnique, Exists
      <4> QED BY <4>1, <4>2
    <3>7. \A o \in Obj : Exists(o)' /\ obj'[o].published /\ obj'[o].gen > 0
                           => obj'[o].gen <= table'.gen
      BY <2>1, <2>2, <3>1, <3>2, <3>4
    <3> QED BY <3>1, <3>3, <3>6, <3>7 DEF CasUnique
  <2>7. ~Tombstoned' => ~Tombstoned
    BY DEF Tombstoned, Forward
  <2> QED BY <2>5, <2>6, <2>7 DEF Lineage
<1> QED BY <1>1, <1>2

LEMMA PublishLineage ==
    ASSUME TypeOK, TypeOK', Refs, Lineage, Forward, NEW c \in Call, Publish(c)
    PROVE  Lineage'
<1>1. CASE Fails(c)
  BY <1>1, FailsPlain, PlainLineage DEF Lineage
<1>2. CASE ~Fails(c)
  <2>1. PICK o \in Obj :
          /\ obj[o].node # None /\ obj[o].state = "Ready"
          /\ obj[o].gen = call[c].h.gen
          /\ obj' = [obj EXCEPT ![o].published = TRUE]
          /\ Advance(c, "drop", call[c].h)
    BY <1>2, PinnedObject DEF Publish, Pinned
  <2>2. /\ c \in Migration /\ call[c].pc = "publish" /\ table' = table
    BY StepsOf
    DEF Publish, Pinned, Refs, CallRole, Call, Quiet, Ended, leader
  <2>3. /\ \A q \in Obj : /\ obj'[q].node = obj[q].node /\ obj'[q].gen = obj[q].gen
                          /\ obj'[q].state = obj[q].state
                          /\ obj'[q].published => obj[q].published \/ q = o
    BY <2>1 DEF TypeOK, Object
  <2>4. /\ \A d \in Call : d # c => call'[d] = call[d]
        /\ call'[c].pc \notin {"publish", "alloc"}
    <3>1. "drop" \in Step /\ call[c].h \in Handle
      BY CallHandle DEF Step, LocalStep
    <3>2. Only(c) /\ (call'[c].pc \in Ended \/ call'[c].pc = "drop")
      BY <2>1, <3>1, AdvanceMoves
    <3> QED BY <3>2 DEF Only, Ended
  <2>5. Generations'
    BY <2>1, <2>3, <2>4 DEF Lineage, Generations, Exists, Call
  <2>6. ASSUME CasUnique PROVE CasUnique'
    <3>1. /\ table.owner # None /\ obj[o].gen <= table.gen
          /\ \A q \in Obj : Exists(q) /\ obj[q].published
                              => obj[q].gen # obj[o].gen
          /\ \A d \in Migration : call[d].pc = "publish"
               /\ call[d].h.gen = obj[o].gen => d = c
      BY <2>1, <2>2, <2>6 DEF CasUnique
    <3>2. PublishedUnique'
      BY <2>3, <2>6, <3>1 DEF CasUnique, PublishedUnique, Exists
    <3>3. \A q \in Obj : Exists(q)' /\ obj'[q].published /\ obj'[q].gen > 0
                           => table'.owner # None /\ obj'[q].gen <= table'.gen
      BY <2>2, <2>3, <2>6, <3>1 DEF CasUnique, Exists
    <3>4. \A d \in Migration : call'[d].pc = "publish" => d # c /\ call'[d] = call[d]
      BY <2>4 DEF Call
    <3>5. \A d \in Migration : call'[d].pc = "publish" =>
            /\ table'.owner # None
            /\ 0 < call'[d].h.gen /\ call'[d].h.gen <= table'.gen
            /\ \A q \in Obj : Exists(q)' /\ obj'[q].published
                                => obj'[q].gen # call'[d].h.gen
            /\ \A e \in Migration :
                 call'[e].pc = "publish" /\ call'[e].h.gen = call'[d].h.gen => d = e
      BY <2>2, <2>3, <2>6, <3>1, <3>4 DEF CasUnique, Exists
    <3> QED BY <3>2, <3>3, <3>5 DEF CasUnique
  <2> QED BY <2>2, <2>5, <2>6 DEF Lineage, Tombstoned
<1> QED BY <1>1, <1>2

LEMMA RestartFrame ==
    ASSUME TypeOK, Generations, NEW n \in Node, Restart(n)
    PROVE  CopiesSame /\ CasSame
<1>1. obj \in [Obj -> Object] /\ call \in [Call -> CallState]
  BY DEF TypeOK
<1>2. \A o \in Obj : \/ obj'[o] = NoObject
                     \/ \E l : obj'[o] = [obj[o] EXCEPT !.lock = l]
  BY DEF Restart
<1>3. CopiesSame
  <2> SUFFICES ASSUME NEW o \in Obj, obj'[o].node # None
               PROVE  /\ obj'[o].node = obj[o].node /\ obj'[o].gen = obj[o].gen
                      /\ obj'[o].published = obj[o].published
                      /\ obj'[o].state = obj[o].state
    BY DEF CopiesSame
  <2>1. obj'[o] # NoObject
    BY DEF NoObject
  <2>2. PICK l : obj'[o] = [obj[o] EXCEPT !.lock = l]
    BY <1>2, <2>1
  <2>3. obj[o] \in Object
    BY <1>1
  <2> QED BY <2>2, <2>3 DEF Object
<1>4. \A c \in Call :
        \/ call'[c] = Over(Failure(c))
        \/ \E l, s, i, q : /\ call'[c] = [call[c] EXCEPT !.live = l, !.src = s,
                                            !.pin = i, !.pc = q]
                           /\ q \in {call[c].pc, "free"}
  BY DEF Restart
<1>5. \A c \in Call : \/ call'[c].pc \notin {"publish", "alloc"}
                      \/ call'[c].pc = call[c].pc /\ call'[c].h = call[c].h
  <2> SUFFICES ASSUME NEW c \in Call
               PROVE  \/ call'[c].pc \notin {"publish", "alloc"}
                      \/ call'[c].pc = call[c].pc /\ call'[c].h = call[c].h
    OBVIOUS
  <2>1. CASE call'[c] = Over(Failure(c))
    <3>1. Failure(c) \in Ended
      BY FailureType
    <3>2. call'[c].pc \in Ended
      BY <2>1, <3>1, OverType
    <3> QED BY <3>2 DEF Ended
  <2>2. CASE \E l, s, i, q :
               /\ call'[c] = [call[c] EXCEPT !.live = l, !.src = s,
                                !.pin = i, !.pc = q]
               /\ q \in {call[c].pc, "free"}
    <3>1. PICK l, s, i, q :
            /\ call'[c] = [call[c] EXCEPT !.live = l, !.src = s,
                             !.pin = i, !.pc = q]
            /\ q \in {call[c].pc, "free"}
      BY <2>2
    <3>2. call[c] \in CallState
      BY <1>1
    <3>3. call'[c].pc = q /\ call'[c].h = call[c].h
      BY <3>1, <3>2 DEF CallState
    <3> QED BY <3>1, <3>3
  <2> QED BY <1>4, <2>1, <2>2
<1>6. CasSame
  BY <1>5 DEF CasSame, Generations, Call
<1> QED BY <1>3, <1>6

LEMMA TickFrame ==
    ASSUME TypeOK, Generations, Tick
    PROVE  CopiesSame /\ CasSame
<1>1. obj \in [Obj -> Object] /\ call \in [Call -> CallState]
  BY DEF TypeOK
<1>2. \A o \in Obj : obj'[o] = [obj[o] EXCEPT !.lease = Aged(@)]
  BY DEF Tick
<1>3. CopiesSame
  <2>1. \A o \in Obj : /\ obj'[o].node = obj[o].node /\ obj'[o].gen = obj[o].gen
                       /\ obj'[o].published = obj[o].published
                       /\ obj'[o].state = obj[o].state
    BY ZenonT(60), <1>1, <1>2 DEF Object
  <2> QED BY <2>1 DEF CopiesSame
<1>4. \A c \in Call : /\ call'[c].pc = call[c].pc
                      /\ call'[c].h = AgedHandle(call[c].h)
  BY <1>1 DEF Tick, CallState
<1>5. \A c \in Call : call'[c].h.gen = call[c].h.gen
  BY <1>4, CallHandle, AgedType
<1>6. CasSame
  BY <1>4, <1>5 DEF CasSame, Generations, Call
<1> QED BY <1>3, <1>6

LEMMA StartFrame ==
    ASSUME TypeOK, Generations, Start
    PROVE  CopiesSame /\ CasSame
<1>1. obj' = obj
  BY DEF Start, Allocate, Grant, ClientWrite, ClientCommit, StartRenew, StartFree,
     PickForMigration, ResolveFor
<1>2. \E c \in Call : /\ \A d \in Call : d # c => call'[d] = call[d]
                      /\ c = Origin \/ call'[c].pc \notin {"publish", "alloc"}
  <2>1. call \in [Call -> CallState] /\ Origin \in Call
    BY DEF TypeOK, Call
  <2>2. CASE (\E n \in Node : Allocate(n)) \/ Grant \/ ClientWrite \/ ClientCommit
    BY <2>1, <2>2 DEF Allocate, Grant, ClientWrite, ClientCommit, ResolveFor
  <2>3. ASSUME NEW c \in Call, StartRenew(c) \/ StartFree(c) \/ PickForMigration(c)
        PROVE  /\ \A d \in Call : d # c => call'[d] = call[d]
               /\ call'[c].pc \notin {"publish", "alloc"}
    BY <2>1, <2>3 DEF StartRenew, StartFree, PickForMigration, ResolveFor, CallState
  <2> QED BY <2>2, <2>3 DEF Start
<1>3. CasSame
  BY <1>2, ConstantsAssumption DEF CasSame, Generations, Call
<1> QED BY <1>1, <1>3, SameCopies

LEMMA NextLineage ==
    ASSUME TypeOK, TypeOK', Refs, Lineage, Forward, [Next]_vars
    PROVE  Lineage'
<1>1. CASE UNCHANGED <<obj, call>>
  <2>1. CasSame
    BY <1>1 DEF CasSame, Lineage, Generations
  <2> QED BY <1>1, <2>1, SameCopies, PlainLineage
<1>2. CASE Start
  BY <1>2, StartFrame, PlainLineage DEF Lineage
<1>3. ASSUME NEW c \in Call, CallStep(c) PROVE Lineage'
  <2>1. CASE PlainStep(c)
    BY <2>1, PlainStepFrame, PlainLineage DEF Lineage
  <2> QED
    BY <1>3, <2>1, AllocateLocalLineage, CompareAndSetLineage, PublishLineage
    DEF CallStep, PlainStep
<1>4. CASE \E o \in Obj : Expire(o)
  <2>1. call' = call /\ CopiesSame
    BY <1>4 DEF Expire, CopiesSame, TypeOK, Object
  <2>2. CasSame
    BY <2>1 DEF CasSame, Lineage, Generations
  <2> QED BY <2>1, <2>2, PlainLineage
<1>5. CASE \E n \in Node : Restart(n)
  BY <1>5, RestartFrame, PlainLineage DEF Lineage
<1>6. CASE Membership
  BY <1>1, <1>6
  DEF Membership, Exchange, ExpirePeer, RefreshCapabilities, AcceptPeer,
      DropGossip
<1>7. CASE Tick
  BY <1>7, TickFrame, PlainLineage DEF Lineage
<1> QED
  BY <1>1, <1>2, <1>3, <1>4, <1>5, <1>6, <1>7 DEF Next, Work, vars

LEMMA LineageInvariant == Spec => []Lineage
<1>1. Init => Lineage
  <2> SUFFICES ASSUME Init PROVE Lineage
    OBVIOUS
  <2>1. /\ \A o \in Obj : obj[o].node = None
        /\ \A c \in Migration : call[c].pc = "idle"
    BY DEF Init, NoObject, IdleCall, Call
  <2> QED BY <2>1 DEF Lineage, Generations, CasUnique, PublishedUnique, Exists
<1>2. TypeOK /\ Refs /\ TypeOK' /\ Lineage /\ [Next]_vars => Lineage'
  BY NextForward, NextLineage
<1> QED BY <1>1, <1>2, Invariance, PTL DEF Spec

(* Until the block is freed, no two copies of one generation are           *)
(* published, for any number of migrations that race, are abandoned or     *)
(* repeated: the leader lets one compare-and-set of each generation        *)
(* succeed, and Publish follows it (control.rs, migration.rs).  A freed    *)
(* entry accepts every compare-and-set of its generation and keeps none.   *)
THEOREM OneCopyPublished == Spec => [](~Tombstoned => PublishedUnique)
<1>1. Lineage => (~Tombstoned => PublishedUnique)
  BY DEF Lineage, CasUnique
<1> QED BY <1>1, LineageInvariant, PTL

(* What may be registered for a migrated copy: not that it is being        *)
(* written.  Without renewals this holds of every handle under way.        *)
Calm(h) == h.gen > 0 => h.state # "Writing"

HandlesCalm ==
    /\ Calm(table)
    /\ \A m \in gossip : Calm(m.h)
    /\ \A c \in Call \ Migration : Calm(call[c].h)

LEMMA CalmOperators ==
    /\ Calm(NoHandle)
    /\ \A t, h \in Handle : Calm(t) /\ Calm(h) => Calm(Registered(t, h))
    /\ \A t \in Handle, n \in Node : Calm(t) => Calm(LoseNode(t, n))
    /\ \A h \in Handle : Calm(h) => Calm(AgedHandle(h))
<1>1. Calm(NoHandle)
  BY DEF Calm, NoHandle
<1>2. ASSUME NEW t \in Handle, NEW h \in Handle, Calm(t), Calm(h)
      PROVE  Calm(Registered(t, h))
  BY <1>2 DEF Calm, Registered, Handle
<1>3. ASSUME NEW t \in Handle, NEW n \in Node, Calm(t)
      PROVE  Calm(LoseNode(t, n))
  BY <1>3 DEF Calm, LoseNode, Handle
<1>4. ASSUME NEW h \in Handle, Calm(h) PROVE Calm(AgedHandle(h))
  BY <1>4 DEF Calm, AgedHandle, Handle
<1> QED BY <1>1, <1>2, <1>3, <1>4

(* A step of c ends where c is under way or over, and leaves it calm       *)
(* unless it is a renewal.                                                 *)
CalmMove(c) ==
    /\ \A d \in Call : d # c => call'[d] = call[d]
    /\ call'[c].pc # "idle"
    /\ c \notin Renewal \cup Migration /\ Calm(call[c].h) => Calm(call'[c].h)

LEMMA FailsCalm ==
    ASSUME TypeOK, NEW c \in Call, Fails(c)
    PROVE  CalmMove(c)
BY FailsMoves, CalmOperators DEF CalmMove, Only, Ended

LEMMA AdvanceCalm ==
    ASSUME TypeOK, NEW c \in Call, NEW next \in Step, NEW h \in Handle,
           Advance(c, next, h), next # "idle",
           c \notin Renewal \cup Migration /\ Calm(call[c].h) => Calm(h)
    PROVE  CalmMove(c)
BY AdvanceMoves, CalmOperators DEF CalmMove, Only, Ended

LEMMA StepNames ==
    /\ {"grant", "write", "toCommit", "commit", "register", "cas", "done",
        "publish", "drop"} \subseteq Step
BY DEF Step, LocalStep, OwnerStep, Ended

LEMMA CallStepCalm ==
    ASSUME TypeOK, Refs, NEW c \in Call, CallStep(c)
    PROVE  CalmMove(c)
<1>1. call \in [Call -> CallState] /\ call[c] \in CallState /\ call[c].h \in Handle
      /\ obj \in [Obj -> Object]
  BY CallHandle DEF TypeOK
<1>2. CASE Fails(c)
  BY <1>2, FailsCalm
<1>3. CASE AllocateLocal(c)
  <2>1. PICK next \in {"grant", "write"} : Advance(c, next, call[c].h)
    BY <1>3 DEF AllocateLocal
  <2> QED BY <1>1, <2>1, AdvanceCalm, StepNames
<1>4. CASE Arrive(c) /\ ~Fails(c)
  BY <1>1, <1>4 DEF Arrive, CalmMove, CallState, OwnerStep
<1>5. CASE WriteChunks(c) /\ ~Fails(c)
  <2>1. PICK next \in {"toCommit", "commit"} : Advance(c, next, call[c].h)
    BY <1>5 DEF WriteChunks
  <2> QED BY <1>1, <2>1, AdvanceCalm, StepNames
<1>6. CASE Commit(c) /\ ~Fails(c)
  <2>1. PICK o \in Obj :
          /\ HandleOf(o) \in Handle
          /\ \/ Advance(c, AfterCommit(c), [HandleOf(o) EXCEPT !.state = "Ready"])
             \/ Discards(c) /\ call' = [call EXCEPT ![c].pc = "free", ![c].pin = None]
    BY <1>6, PinnedObject DEF Commit, Pinned
  <2>2. /\ [HandleOf(o) EXCEPT !.state = "Ready"] \in Handle
        /\ Calm([HandleOf(o) EXCEPT !.state = "Ready"])
    BY <2>1 DEF Handle, Calm
  <2>3. CASE Advance(c, AfterCommit(c), [HandleOf(o) EXCEPT !.state = "Ready"])
    BY <2>2, <2>3, AdvanceCalm, StepNames DEF AfterCommit
  <2>4. CASE Discards(c) /\ call' = [call EXCEPT ![c].pc = "free", ![c].pin = None]
    BY <1>1, <2>4 DEF CalmMove, Discards, CallState
  <2> QED BY <2>1, <2>3, <2>4
<1>7. CASE Register(c)
  BY <1>1, <1>7, AdvanceCalm, StepNames DEF Register
<1>8. CASE Renew(c) /\ ~Fails(c)
  <2>1. PICK o \in Obj :
          /\ HandleOf(o) \in Handle
          /\ Advance(c, "register", [HandleOf(o) EXCEPT !.lease = Lease])
    BY <1>8, PinnedObject DEF Renew, Pinned
  <2>2. [HandleOf(o) EXCEPT !.lease = Lease] \in Handle
    BY <2>1, ConstantsAssumption DEF Handle, LeaseTicks, Tombstone
  <2>3. c \in Renewal
    BY <1>8, StepsOf DEF Renew, Pinned, Refs, CallRole, Call, Quiet, Ended
  <2> QED BY <2>1, <2>2, <2>3, AdvanceCalm, StepNames
<1>9. CASE FreeCheck(c)
  BY <1>1, <1>9 DEF FreeCheck, CalmMove, CallState
<1>10. CASE Unmap(c)
  <2>1. /\ [call[c].h EXCEPT !.lease = Tombstone] \in Handle
        /\ Calm(call[c].h) => Calm([call[c].h EXCEPT !.lease = Tombstone])
    BY <1>1, ConstantsAssumption DEF Handle, LeaseTicks, Tombstone, Calm
  <2>2. \/ Advance(c, "register", [call[c].h EXCEPT !.lease = Tombstone])
        \/ Advance(c, "done", call[c].h)
    BY <1>10 DEF Unmap
  <2> QED BY <1>1, <2>1, <2>2, AdvanceCalm, StepNames
<1>11. CASE c \in Migration
  <2>1. call'[c].pc # "idle" /\ \A d \in Call : d # c => call'[d] = call[d]
    <3>1. CASE Migrate(c) /\ ~Fails(c)
      BY <1>1, <3>1 DEF Migrate, CallState
    <3>2. CASE CompareAndSet(c) /\ ~Fails(c)
      <4>1. Advance(c, "publish", call[c].h)
        BY <3>2 DEF CompareAndSet
      <4> QED BY <1>1, <1>11, <4>1, AdvanceCalm, StepNames DEF CalmMove
    <3>3. CASE Publish(c) /\ ~Fails(c)
      <4>1. Advance(c, "drop", call[c].h)
        BY <3>3 DEF Publish
      <4> QED BY <1>1, <1>11, <4>1, AdvanceCalm, StepNames DEF CalmMove
    <3>4. CASE DropSource(c)
      BY ZenonT(60), <1>1, <3>4, OverType DEF DropSource, CallState, Ended
    <3>5. ASSUME NEW dst \in Node, LockSource(c, dst), ~Fails(c)
          PROVE  call'[c].pc # "idle" /\ \A d \in Call : d # c => call'[d] = call[d]
      BY <1>1, <3>5 DEF LockSource, CallState
    <3>6. CASE Abandon(c)
      <4>1. \/ call' = [call EXCEPT ![c] = Over(Failure(c))]
            \/ call' = [call EXCEPT ![c] = [@ EXCEPT !.live = FALSE]]
                 /\ call[c].pc # "idle"
        BY <3>6 DEF Abandon
      <4> QED BY <1>1, <4>1, FailureType, OverType DEF CallState, Ended
    <3>7. CASE DropStray(c)
      BY <1>1, <3>7, FailureType, OverType DEF DropStray, Ended
    <3> QED
      BY <1>2, <1>3, <1>4, <1>5, <1>6, <1>7, <1>8, <1>9, <1>10,
         <3>1, <3>2, <3>3, <3>4, <3>5, <3>6, <3>7
      DEF CallStep, CalmMove, RpcError
  <2> QED BY <1>11, <2>1 DEF CalmMove
<1>12. CASE c \notin Migration
  <2>1. CASE Abandon(c)
    <3>1. \/ call' = [call EXCEPT ![c] = Over(Failure(c))]
          \/ call' = [call EXCEPT ![c] = [@ EXCEPT !.live = FALSE]]
               /\ call[c].pc # "idle"
      BY <2>1 DEF Abandon
    <3>2. Over(Failure(c)).h = NoHandle
      BY DEF Over, IdleCall
    <3> QED
      BY <1>1, <3>1, <3>2, FailureType, OverType, CalmOperators
      DEF CallState, Ended, CalmMove
  <2>2. CASE DropStray(c)
    <3>1. Over(Failure(c)).h = NoHandle
      BY DEF Over, IdleCall
    <3> QED
      BY <1>1, <2>2, <3>1, FailureType, OverType, CalmOperators
      DEF DropStray, Ended, CalmMove
  <2>3. call[c].pc \notin {"picked", "lock", "cas", "publish", "drop"}
    BY <1>12, StepsOf DEF Refs, CallRole, Call, Quiet, Ended
  <2> QED
    BY <1>2, <1>3, <1>4, <1>5, <1>6, <1>7, <1>8, <1>9, <1>10, <2>1, <2>2, <2>3
    DEF CallStep, RpcError, Migrate, CompareAndSet, Publish, Pinned, DropSource,
        LockSource
<1> QED BY <1>11, <1>12

(* What the leader learns from calls and exchanges stays calm. *)
LEMMA TableCalm ==
    ASSUME TypeOK, TypeOK', Refs, HandlesCalm, RenewalsIdle, Next
    PROVE  Calm(table')
<1>1. table \in Handle /\ Calm(table)
  BY DEF TypeOK, HandlesCalm
<1>2. CASE Grant
  BY <1>1, <1>2, CallHandle, CalmOperators, ConstantsAssumption
  DEF Grant, HandlesCalm, Call
<1>3. ASSUME NEW c \in Call, CallStep(c) PROVE Calm(table')
  <2>1. CASE Register(c)
    <3>1. c \notin Migration
      BY <2>1, StepsOf DEF Register, Refs, CallRole, Quiet, Ended
    <3> QED BY <1>1, <2>1, <3>1, CallHandle, CalmOperators DEF Register, HandlesCalm
  <2>2. CASE CompareAndSet(c)
    <3>1. CasHolds(c) => Calm(call[c].h)
      BY DEF CasHolds, Calm
    <3> QED BY <1>1, <2>2, <3>1, CallHandle, CalmOperators DEF CompareAndSet
  <2>3. CASE ~Register(c) /\ ~CompareAndSet(c)
    <3>1. table' = table
      BY <1>3, <2>3
      DEF CallStep, leader, AllocateLocal, Arrive, WriteChunks, Commit, Renew,
          FreeCheck, Unmap, Migrate, Publish, DropSource, LockSource, RpcError,
          Abandon, DropStray
    <3> QED BY <1>1, <3>1
  <2> QED BY <2>1, <2>2, <2>3
<1>4. ASSUME NEW m \in gossip, AcceptPeer(m) PROVE Calm(table')
  <2>1. m.node \in Node /\ m.h \in Handle /\ Calm(m.h)
    BY DEF TypeOK, HandlesCalm
  <2>2. PICK after \in {table, LoseNode(table, m.node)} :
          table' = IF m.h = NoHandle THEN after ELSE Registered(after, m.h)
    BY <1>4 DEF AcceptPeer
  <2>3. after \in Handle /\ Calm(after)
    BY <1>1, <2>1, LoseNodeType, CalmOperators
  <2> QED BY <2>1, <2>2, <2>3, CalmOperators
<1>5. ASSUME NEW n \in Node, ExpirePeer(n) PROVE Calm(table')
  BY <1>1, <1>5, CalmOperators DEF ExpirePeer
<1>6. CASE Tick
  BY <1>1, <1>6, CalmOperators DEF Tick
<1>7. CASE table' = table
  BY <1>1, <1>7
<1> QED
  BY <1>2, <1>3, <1>4, <1>5, <1>6, <1>7
  DEF Next, Work, Start, Membership, Allocate, ClientWrite, ClientCommit,
      StartRenew, StartFree, PickForMigration, ResolveFor, Expire, Restart,
      Exchange, RefreshCapabilities, DropGossip, leader

LEMMA GossipCalm ==
    ASSUME TypeOK, Refs, Generations, HandlesCalm, Next
    PROVE  \A m \in gossip' : Calm(m.h)
<1>1. \A m \in gossip : m.h \in Handle /\ Calm(m.h)
  BY DEF TypeOK, HandlesCalm
<1>2. ASSUME NEW n \in Node, Exchange(n) PROVE \A m \in gossip' : Calm(m.h)
  <2>1. PICK h \in {HandleOf(o) : o \in {m \in MappedAt(n) :
                      obj[m].published /\ obj[m].lock = None}} \cup {NoHandle} :
          gossip' = gossip \cup {[node |-> n, inc |-> inc[n], h |-> h]}
    BY <1>2 DEF Exchange
  <2>2. Calm(h)
    <3>1. CASE h = NoHandle
      BY <3>1, CalmOperators
    <3>2. CASE h # NoHandle
      <4>1. PICK o \in Obj : /\ h = HandleOf(o) /\ obj[o].mapped
                             /\ obj[o].published
        BY <2>1, <3>2 DEF MappedAt
      <4>2. Exists(o)
        BY <4>1 DEF Refs, MappedExist, Exists
      <4> QED BY <4>1, <4>2 DEF Generations, HandleOf, Calm
    <3> QED BY <3>1, <3>2
  <2> QED BY <1>1, <2>1, <2>2
<1>3. CASE Tick
  <2> SUFFICES ASSUME NEW m \in gossip' PROVE Calm(m.h)
    OBVIOUS
  <2>1. PICK g \in gossip : m = [g EXCEPT !.h = AgedHandle(@)]
    BY <1>3 DEF Tick
  <2>2. g \in [node : Node, inc : Nat, h : Handle]
    BY DEF TypeOK
  <2>3. m.h = AgedHandle(g.h)
    BY <2>1, <2>2
  <2> QED BY <1>1, <2>3, CalmOperators
<1>4. CASE gossip' \subseteq gossip
  BY <1>1, <1>4
<1> QED
  BY ZenonT(60), <1>2, <1>3, <1>4
  DEF Next, Work, Start, Membership, Allocate, Grant, ClientWrite, ClientCommit,
      StartRenew, StartFree, PickForMigration, ResolveFor, Expire, Restart,
      ExpirePeer, RefreshCapabilities, AcceptPeer, DropGossip, CallStep,
      AllocateLocal, Arrive, WriteChunks, Commit, Register, Renew, FreeCheck,
      Unmap, Migrate, CompareAndSet, Publish, DropSource, LockSource, RpcError,
      Abandon, DropStray

(* The calls: none becomes idle again, and none but a renewal takes up a   *)
(* handle that is not calm.                                                *)
LEMMA CallsCalm ==
    ASSUME TypeOK, Refs, Next
    PROVE  /\ \A c \in Call : call'[c].pc = "idle" => call[c].pc = "idle"
           /\ HandlesCalm /\ RenewalsIdle' =>
                \A c \in Call \ Migration : Calm(call'[c].h)
<1>1. call \in [Call -> CallState] /\ Origin \in Call
  BY DEF TypeOK, Call
<1>2. ASSUME NEW c \in Call, CalmMove(c)
      PROVE  /\ \A d \in Call : call'[d].pc = "idle" => call[d].pc = "idle"
             /\ HandlesCalm /\ RenewalsIdle' =>
                  \A d \in Call \ Migration : Calm(call'[d].h)
  BY <1>2 DEF CalmMove, HandlesCalm, RenewalsIdle
<1>3. ASSUME NEW c \in Call, CallStep(c) PROVE CalmMove(c)
  BY <1>3, CallStepCalm
<1>4. ASSUME NEW c \in Call, NEW step, NEW h,
             call' = [call EXCEPT ![c].pc = step, ![c].h = h], step # "idle",
             HandlesCalm => Calm(h)
      PROVE  /\ \A d \in Call : call'[d].pc = "idle" => call[d].pc = "idle"
             /\ HandlesCalm => \A d \in Call \ Migration : Calm(call'[d].h)
  <2>1. /\ call'[c].pc = step /\ call'[c].h = h
        /\ \A d \in Call : d # c => call'[d] = call[d]
    BY <1>1, <1>4 DEF CallState
  <2> QED BY <1>4, <2>1 DEF HandlesCalm
<1>5. CASE Start
  <2>1. ASSUME NEW n \in Node, Allocate(n)
        PROVE  \E h : /\ call' = [call EXCEPT ![Origin].pc = "alloc", ![Origin].h = h]
                      /\ Calm(h)
    <3> DEFINE h == [owner |-> n, inc |-> peer[n], gen |-> 0,
                     state |-> "Writing", lease |-> Lease]
    <3>1. Calm(h)
      BY DEF Calm
    <3>2. call' = [call EXCEPT ![Origin].pc = "alloc", ![Origin].h = h]
      BY <2>1 DEF Allocate
    <3> QED BY <3>1, <3>2
  <2>2. CASE Grant
    <3>1. /\ call'[Origin].pc = "toWrite" /\ call'[Origin].h = call[Origin].h
          /\ \A d \in Call : d # Origin => call'[d] = call[d]
      BY <1>1, <2>2 DEF Grant, CallState
    <3> QED BY <3>1 DEF HandlesCalm
  <2>3. ASSUME NEW c \in Call, NEW step \in {"write", "commit", "renew", "free"},
               ResolveFor(c, step)
        PROVE  /\ \A d \in Call : call'[d].pc = "idle" => call[d].pc = "idle"
               /\ HandlesCalm => \A d \in Call \ Migration : Calm(call'[d].h)
    BY <1>4, <2>3 DEF ResolveFor, HandlesCalm
  <2>4. ASSUME NEW c \in Call, PickForMigration(c)
        PROVE  /\ \A d \in Call : call'[d].pc = "idle" => call[d].pc = "idle"
               /\ HandlesCalm => \A d \in Call \ Migration : Calm(call'[d].h)
    BY <1>4, <2>4 DEF PickForMigration, HandlesCalm
  <2> QED
    BY <1>1, <1>4, <1>5, <2>1, <2>2, <2>3, <2>4
    DEF Start, ClientWrite, ClientCommit, StartRenew, StartFree
<1>6. ASSUME NEW n \in Node, Restart(n)
      PROVE  /\ \A d \in Call : call'[d].pc = "idle" => call[d].pc = "idle"
             /\ HandlesCalm => \A d \in Call \ Migration : Calm(call'[d].h)
  <2>1. \A c \in Call :
          \/ call'[c] = Over(Failure(c))
          \/ \E l, s, i, q : /\ call'[c] = [call[c] EXCEPT !.live = l, !.src = s,
                                              !.pin = i, !.pc = q]
                             /\ q \in {call[c].pc, "free"}
    BY <1>6 DEF Restart
  <2>2. \A c \in Call : Over(Failure(c)).h = NoHandle /\ Over(Failure(c)).pc # "idle"
    BY FailureType, OverType DEF Over, IdleCall, Ended
  <2>3. \A c \in Call : \/ call'[c].h = NoHandle /\ call'[c].pc # "idle"
                        \/ call'[c].h = call[c].h /\ call'[c].pc \in {call[c].pc, "free"}
    <3> SUFFICES ASSUME NEW c \in Call, call'[c] # Over(Failure(c))
                 PROVE  /\ call'[c].h = call[c].h
                        /\ call'[c].pc \in {call[c].pc, "free"}
      BY <2>2
    <3>1. PICK l, s, i, q : /\ call'[c] = [call[c] EXCEPT !.live = l, !.src = s,
                                              !.pin = i, !.pc = q]
                            /\ q \in {call[c].pc, "free"}
      BY <2>1
    <3>2. call[c] \in CallState
      BY <1>1
    <3> QED BY <3>1, <3>2 DEF CallState
  <2> QED BY <2>3, CalmOperators DEF HandlesCalm
<1>7. CASE Tick
  <2>1. \A c \in Call : /\ call'[c].pc = call[c].pc
                        /\ call'[c].h = AgedHandle(call[c].h)
    BY <1>1, <1>7 DEF Tick, CallState
  <2> QED BY <2>1, CallHandle, CalmOperators DEF HandlesCalm
<1>8. CASE call' = call
  BY <1>8 DEF HandlesCalm
<1> QED
  BY <1>2, <1>3, <1>5, <1>6, <1>7, <1>8
  DEF Next, Work, Membership, Expire, Exchange, ExpirePeer, RefreshCapabilities,
      AcceptPeer, DropGossip

LEMMA CalmInvariant == Spec => [](RenewalsIdle => HandlesCalm)
<1>1. Init => HandlesCalm
  BY CalmOperators DEF Init, HandlesCalm, IdleCall
<1>2. /\ TypeOK /\ Refs /\ TypeOK' /\ Lineage /\ (RenewalsIdle => HandlesCalm)
      /\ [Next]_vars
      => (RenewalsIdle => HandlesCalm)'
  <2> SUFFICES ASSUME TypeOK, Refs, TypeOK', Lineage, RenewalsIdle => HandlesCalm,
                      [Next]_vars, RenewalsIdle'
               PROVE  HandlesCalm'
    OBVIOUS
  <2>1. CASE UNCHANGED vars
    BY <2>1 DEF vars, leader, HandlesCalm, RenewalsIdle
  <2>2. CASE Next
    <3>1. RenewalsIdle /\ HandlesCalm
      BY <2>2, CallsCalm DEF RenewalsIdle, Call
    <3> QED BY <2>2, <3>1, TableCalm, GossipCalm, CallsCalm DEF HandlesCalm, Lineage
  <2> QED BY <2>1, <2>2
<1> QED BY <1>1, <1>2, Invariance, LineageInvariant, PTL DEF Spec

(* Until the first renewal, the table never lists a migrated generation    *)
(* that is still being written, whatever restarts, expires or is lost on   *)
(* the way: it has such a generation from a compare-and-set or from the    *)
(* inventory of an owner that had published it (control.rs, Register).     *)
THEOREM CasAlonePublishes == Spec => [](RenewalsIdle => OnlyCasPublishes)
<1>1. HandlesCalm => OnlyCasPublishes
  BY DEF HandlesCalm, Calm, OnlyCasPublishes
<1> QED BY <1>1, CalmInvariant, PTL

-----------------------------------------------------------------------------
(* Release, as long as no migration has been started *)

NoMigration == \A c \in Migration : call[c].pc = "idle"

(* A handle of the one copy there is, or was; n is the node that has it. *)
Home(h, n) == h.gen = 0 /\ (n # None => h.owner \in {None, n})

HandlesHome ==
    /\ Home(table, obj[Origin].node)
    /\ \A m \in gossip : Home(m.h, obj[Origin].node)
    /\ \A c \in Call : Home(call[c].h, obj[Origin].node)

(* Before the copy is made nobody knows of it. *)
Unborn ==
    call[Origin].pc \in {"idle", "alloc"} =>
        /\ table.owner = None
        /\ obj[Origin].node = None
        /\ \A m \in gossip : m.h = NoHandle
        /\ \A c \in Call \ {Origin} : call[c] = IdleCall

(* A Free that has passed the owner's map leaves the block in no map; one  *)
(* that has been answered has left its tombstone.                          *)
Freeing ==
    \A f \in Release :
        /\ call[f].pc = "unmap" /\ call[f].pin = None => ~obj[Origin].mapped
        /\ call[f].pc = "register" => /\ ~obj[Origin].mapped
                                      /\ call[f].h.lease = Tombstone
        /\ call[f].pc = "done" => ~obj[Origin].mapped /\ Tombstoned

OneCopy ==
    /\ \A o \in Obj : Exists(o) => o = Origin
    /\ Exists(Origin) => obj[Origin].gen = 0

Alone == OneCopy /\ HandlesHome /\ Unborn /\ Freeing

MappedDown == \A o \in Obj : obj'[o].mapped => obj[o].mapped

LEMMA HomeOperators ==
    ASSUME NEW n \in Node \cup {None}
    PROVE  /\ Home(NoHandle, n)
           /\ \A t, h \in Handle : Home(t, n) /\ Home(h, n) => Home(Registered(t, h), n)
           /\ \A t \in Handle, k \in Node : Home(t, n) => Home(LoseNode(t, k), n)
           /\ \A h \in Handle : Home(h, n) => Home(AgedHandle(h), n)
<1>1. Home(NoHandle, n)
  BY DEF Home, NoHandle
<1>2. ASSUME NEW t \in Handle, NEW h \in Handle, Home(t, n), Home(h, n)
      PROVE  Home(Registered(t, h), n)
  BY <1>2 DEF Home, Registered, Handle
<1>3. ASSUME NEW t \in Handle, NEW k \in Node, Home(t, n)
      PROVE  Home(LoseNode(t, k), n)
  BY <1>3 DEF Home, LoseNode, Handle
<1>4. ASSUME NEW h \in Handle, Home(h, n) PROVE Home(AgedHandle(h), n)
  BY <1>4 DEF Home, AgedHandle, Handle
<1> QED BY <1>1, <1>2, <1>3, <1>4

LEMMA OriginNode ==
    ASSUME TypeOK
    PROVE  Origin \in Obj /\ Origin \in Call /\ obj[Origin] \in Object
             /\ obj[Origin].node \in Node \cup {None}
BY DEF TypeOK, Obj, Call, Object

LEMMA HomeHandleOf ==
    ASSUME TypeOK, OneCopy, NEW o \in Obj, Exists(o)
    PROVE  o = Origin /\ Home(HandleOf(o), obj[Origin].node)
BY DEF OneCopy, Home, HandleOf

(* What a step of c has to leave for the block to stay alone. *)
FreeMove(c) ==
    /\ \A d \in Call : d # c => call'[d] = call[d]
    /\ Home(call'[c].h, obj[Origin].node)
    /\ call'[c].pc = "alloc" => call[c].pc = "alloc"
    /\ c \in Release =>
         /\ call'[c].pc = "unmap" /\ call'[c].pin = None => ~obj'[Origin].mapped
         /\ call'[c].pc = "register" => /\ ~obj'[Origin].mapped
                                        /\ call'[c].h.lease = Tombstone
         /\ call'[c].pc = "done" => ~obj'[Origin].mapped /\ Tombstoned'

LEMMA FailsFree ==
    ASSUME TypeOK, HandlesHome, NEW c \in Call, Fails(c), c \notin Migration
    PROVE  FreeMove(c) /\ MappedDown
<1>1. /\ Only(c) /\ call'[c].pc \in Ended /\ call'[c].h = NoHandle
      /\ \A o \in Obj : obj'[o].mapped = obj[o].mapped
  BY FailsMoves
<1>2. call'[c].pc # "done"
  <2>1. call' = [call EXCEPT ![c] = Over(Failure(c))]
    BY DEF Fails, Discards
  <2> QED BY <2>1, FailureType, OverType DEF Failure, TypeOK
<1>3. FreeMove(c)
  BY <1>1, <1>2, HomeOperators, OriginNode DEF FreeMove, Only, Ended
<1> QED BY <1>1, <1>3 DEF MappedDown

(* A reply moves c on, and for a client's Free says what it may. *)
LEMMA AdvanceFree ==
    ASSUME TypeOK, NEW c \in Call, NEW next \in Step, NEW h \in Handle,
           Advance(c, next, h), Home(h, obj[Origin].node), next # "alloc",
           c \in Release => /\ next \in {"register", "done"}
                            /\ ~obj'[Origin].mapped
                            /\ next = "register" => h.lease = Tombstone
                            /\ next = "done" => Tombstoned'
    PROVE  FreeMove(c)
<1>1. /\ Only(c)
      /\ \/ call'[c].pc \in Ended /\ call'[c].h = NoHandle
         \/ call'[c].pc = next /\ call'[c].h = h
  BY AdvanceMoves
<1>2. next # "done" => call'[c].pc # "done" \/ call'[c].pc = next
  <2>1. ASSUME next # "done"
        PROVE  \/ call' = [call EXCEPT ![c] = Over(Failure(c))]
               \/ call' = [call EXCEPT ![c] = [@ EXCEPT !.pc = next, !.pin = None,
                                                        !.h = h]]
    BY <2>1 DEF Advance
  <2>2. Over(Failure(c)).pc # "done"
    BY FailureType, OverType DEF Failure
  <2> QED BY ZenonT(60), <1>1, <2>1, <2>2 DEF TypeOK, CallState
<1>3. Home(call'[c].h, obj[Origin].node)
  BY <1>1, HomeOperators, OriginNode
<1> QED BY <1>1, <1>2, <1>3 DEF FreeMove, Only, Ended

LEMMA TombstoneRegistered ==
    ASSUME NEW t \in Handle, NEW h \in Handle, t.gen = 0, h.gen = 0,
           h.owner # None, h.lease = Tombstone
    PROVE  Registered(t, h).owner # None /\ Registered(t, h).lease = Tombstone
BY DEF Registered, Sealed, Supersedes, Larger, Handle

(* A call that keeps its step, or ends without an answer. *)
LEMMA KeepsFree ==
    ASSUME TypeOK, HandlesHome, Freeing, NEW c \in Call,
           \A d \in Call : d # c => call'[d] = call[d],
           \/ call'[c].pc \in {"failed", "denied"} /\ call'[c].h = NoHandle
           \/ /\ call'[c].pc = call[c].pc /\ call'[c].h = call[c].h
              /\ call'[c].pc \notin Ended
              /\ call'[c].pc = "unmap" => call'[c].pin = call[c].pin,
           \A o \in Obj : obj'[o].mapped = obj[o].mapped
    PROVE  FreeMove(c) /\ MappedDown
<1>1. Home(call'[c].h, obj[Origin].node)
  BY HomeOperators, OriginNode DEF HandlesHome
<1>2. c \in Release =>
         /\ call'[c].pc = "unmap" /\ call'[c].pin = None => ~obj'[Origin].mapped
         /\ call'[c].pc = "register" => /\ ~obj'[Origin].mapped
                                        /\ call'[c].h.lease = Tombstone
         /\ call'[c].pc # "done"
  BY OriginNode DEF Freeing, Ended
<1> QED BY <1>1, <1>2 DEF FreeMove, MappedDown

LEMMA CallStepFree ==
    ASSUME TypeOK, Refs, Alone, NEW c \in Call, c \notin Migration,
           CallStep(c), ~AllocateLocal(c)
    PROVE  FreeMove(c) /\ MappedDown
<1>1. /\ call \in [Call -> CallState] /\ call[c] \in CallState
      /\ call[c].h \in Handle /\ obj \in [Obj -> Object]
      /\ Home(call[c].h, obj[Origin].node) /\ call[c].pin \in Obj \cup {None}
  BY CallHandle DEF TypeOK, Alone, HandlesHome, CallState
<1>2. /\ call[c].pc \in Quiet \cup Steps(c)
      /\ c = Origin \/ c \in Renewal \/ c \in Release
      /\ c = Origin => c \notin Release
      /\ c \in Renewal => c \notin Release
  BY ConstantsAssumption DEF Refs, CallRole, Call
<1>3. CASE Fails(c)
  BY <1>3, FailsFree DEF Alone
<1>4. CASE Arrive(c) /\ ~Fails(c)
  <2>1. obj' = obj /\ call[c].pc \in OwnerStep
    BY <1>4 DEF Arrive
  <2>2. CASE \E o \in Obj : call' = [call EXCEPT ![c].pin = o]
    <3>1. /\ call'[c].pc = call[c].pc /\ call'[c].h = call[c].h
          /\ \A d \in Call : d # c => call'[d] = call[d]
      BY <1>1, <2>2 DEF CallState
    <3> QED BY <2>1, <3>1, KeepsFree DEF Alone, OwnerStep, Ended
  <2>3. CASE /\ MappedAt(call[c].h.owner) = {} /\ call[c].pc = "free"
             /\ call' = [call EXCEPT ![c].pc = "unmap"]
    <3>1. /\ call'[c].pc = "unmap" /\ call'[c].h = call[c].h
          /\ \A d \in Call : d # c => call'[d] = call[d]
      BY <1>1, <2>3 DEF CallState
    <3>2. ~obj[Origin].mapped
      <4>1. obj[Origin].mapped => obj[Origin].node # None
        BY OriginNode DEF Refs, MappedExist
      <4>2. call[c].h.owner # None
        BY <2>3 DEF Refs, CallNamed, Quiet, Ended
      <4>3. obj[Origin].mapped => Origin \in MappedAt(call[c].h.owner)
        BY <1>1, <4>1, <4>2, OriginNode DEF MappedAt, Home
      <4> QED BY <2>3, <4>3
    <3> QED BY <1>1, <2>1, <3>1, <3>2 DEF FreeMove, MappedDown
  <2> QED BY <1>4, <2>2, <2>3 DEF Arrive, MappedAt
<1>5. CASE WriteChunks(c) /\ ~Fails(c)
  <2>1. PICK o \in Obj : obj' = [obj EXCEPT ![o].full = TRUE]
    BY <1>5, PinnedObject DEF WriteChunks, Pinned
  <2>2. PICK next \in {"toCommit", "commit"} : Advance(c, next, call[c].h)
    BY <1>5 DEF WriteChunks
  <2>3. c \notin Release
    BY <1>2, <1>5, StepsOf DEF WriteChunks, Pinned, Quiet, Ended
  <2>4. MappedDown
    BY <1>1, <2>1 DEF MappedDown, Object
  <2> QED BY <1>1, <2>2, <2>3, <2>4, AdvanceFree, StepNames
<1>6. CASE Commit(c) /\ ~Fails(c)
  <2>1. PICK o \in Obj :
          /\ HandleOf(o) \in Handle /\ Exists(o)
          /\ obj' = [obj EXCEPT ![o].state = "Ready"]
          /\ Advance(c, AfterCommit(c), [HandleOf(o) EXCEPT !.state = "Ready"])
    BY <1>6, PinnedObject DEF Commit, Pinned, Discards, Exists
  <2>2. /\ [HandleOf(o) EXCEPT !.state = "Ready"] \in Handle
        /\ Home([HandleOf(o) EXCEPT !.state = "Ready"], obj[Origin].node)
    BY <2>1, HomeHandleOf DEF Handle, Home, Alone
  <2>3. c \notin Release
    BY <1>2, <1>6, StepsOf DEF Commit, Pinned, Quiet, Ended
  <2>4. MappedDown
    BY <1>1, <2>1 DEF MappedDown, Object
  <2>5. AfterCommit(c) \in Step /\ AfterCommit(c) # "alloc"
    BY StepNames DEF AfterCommit
  <2> QED BY <2>1, <2>2, <2>3, <2>4, <2>5, AdvanceFree
<1>7. CASE Register(c)
  <2>1. /\ obj' = obj /\ Advance(c, "done", call[c].h)
        /\ table' = Registered(table, call[c].h)
    BY <1>7 DEF Register
  <2>2. MappedDown
    BY <2>1 DEF MappedDown
  <2>3. ASSUME c \in Release
        PROVE  ~obj'[Origin].mapped /\ Tombstoned'
    <3>1. ~obj[Origin].mapped /\ call[c].h.lease = Tombstone
      BY <1>7, <2>3 DEF Alone, Freeing, Register
    <3>2. call[c].h.owner # None /\ call[c].h.gen = 0 /\ table.gen = 0
      BY <1>1, <1>7 DEF Refs, CallNamed, Quiet, Ended, Register, Home, Alone,
         HandlesHome
    <3>3. table'.owner # None /\ table'.lease = Tombstone
      BY <1>1, <2>1, <3>1, <3>2, TombstoneRegistered DEF TypeOK
    <3> QED BY <2>1, <3>1, <3>3 DEF Tombstoned
  <2> QED BY <1>1, <2>1, <2>2, <2>3, AdvanceFree, StepNames
<1>8. CASE Renew(c) /\ ~Fails(c)
  <2>1. PICK o \in Obj :
          /\ HandleOf(o) \in Handle /\ Exists(o)
          /\ obj' = [obj EXCEPT ![o].lease = Lease]
          /\ Advance(c, "register", [HandleOf(o) EXCEPT !.lease = Lease])
    BY <1>8, PinnedObject DEF Renew, Pinned, Exists
  <2>2. /\ [HandleOf(o) EXCEPT !.lease = Lease] \in Handle
        /\ Home([HandleOf(o) EXCEPT !.lease = Lease], obj[Origin].node)
    BY <2>1, HomeHandleOf, ConstantsAssumption
    DEF Handle, Home, Alone, LeaseTicks, Tombstone
  <2>3. c \notin Release
    BY <1>2, <1>8, StepsOf DEF Renew, Pinned, Quiet, Ended
  <2>4. MappedDown
    BY <1>1, <2>1 DEF MappedDown, Object
  <2> QED BY <2>1, <2>2, <2>3, <2>4, AdvanceFree, StepNames
<1>9. CASE FreeCheck(c)
  <2>1. /\ call'[c].pc = "unmap" /\ call'[c].h = call[c].h
        /\ call'[c].pin = call[c].pin /\ call[c].pin # None
        /\ \A d \in Call : d # c => call'[d] = call[d]
        /\ obj' = obj
    BY <1>1, <1>9 DEF FreeCheck, CallState, Pinned
  <2> QED BY <1>1, <2>1 DEF FreeMove, MappedDown
<1>10. CASE Unmap(c)
  <2>1. c \in Release
    BY <1>2, <1>10, StepsOf DEF Unmap, Quiet, Ended
  <2>2. /\ Advance(c, "register", [call[c].h EXCEPT !.lease = Tombstone])
        /\ \A o \in Obj : obj'[o] = [Unlocked(c)[o] EXCEPT
                                       !.mapped = @ /\ o # call[c].pin]
    BY <1>10, <2>1 DEF Unmap
  <2>3. \A o \in Obj : obj'[o].mapped <=> obj[o].mapped /\ o # call[c].pin
    <3> SUFFICES ASSUME NEW o \in Obj
                 PROVE  obj'[o].mapped <=> obj[o].mapped /\ o # call[c].pin
      OBVIOUS
    <3>1. PICK u \in Object : u = Unlocked(c)[o] /\ u.mapped = obj[o].mapped
      BY <1>1, UnlockedType
    <3>2. obj'[o] = [u EXCEPT !.mapped = u.mapped /\ o # call[c].pin]
      BY <2>2, <3>1
    <3> QED BY <3>1, <3>2 DEF Object
  <2>4. /\ [call[c].h EXCEPT !.lease = Tombstone] \in Handle
        /\ Home([call[c].h EXCEPT !.lease = Tombstone], obj[Origin].node)
        /\ [call[c].h EXCEPT !.lease = Tombstone].lease = Tombstone
    BY <1>1, ConstantsAssumption DEF Handle, LeaseTicks, Tombstone, Home
  <2>5. ~obj'[Origin].mapped
    <3>1. CASE call[c].pin = None
      BY <1>10, <2>1, <2>3, <3>1, OriginNode DEF Alone, Freeing, Unmap
    <3>2. CASE call[c].pin # None
      BY <2>3, <3>2, PinnedObject, OriginNode DEF Alone, OneCopy, Exists
    <3> QED BY <3>1, <3>2
  <2>6. MappedDown
    BY <2>3 DEF MappedDown
  <2> QED BY <2>2, <2>4, <2>5, <2>6, AdvanceFree, StepNames
<1>11. CASE Abandon(c)
  <2>1. \A o \in Obj : obj'[o].mapped = obj[o].mapped
    BY <1>1, <1>11, UnlockedType DEF Abandon
  <2>2. CASE call' = [call EXCEPT ![c] = Over(Failure(c))]
    <3>1. /\ call'[c] = Over(Failure(c)) /\ Over(Failure(c)).h = NoHandle
          /\ Over(Failure(c)).pc \in {"failed", "denied"}
          /\ \A d \in Call : d # c => call'[d] = call[d]
      BY <1>1, <2>2, FailureType, OverType DEF Over, IdleCall, Failure
    <3> QED BY <2>1, <3>1, KeepsFree DEF Alone
  <2>3. CASE call' = [call EXCEPT ![c] = [@ EXCEPT !.live = FALSE]]
    <3>1. /\ call'[c].pc = call[c].pc /\ call'[c].h = call[c].h
          /\ call'[c].pin = call[c].pin /\ call[c].pc \notin Ended
          /\ \A d \in Call : d # c => call'[d] = call[d]
      BY <1>1, <1>11, <2>3 DEF CallState, Abandon
    <3> QED BY <2>1, <3>1, KeepsFree DEF Alone
  <2> QED BY <1>11, <2>2, <2>3 DEF Abandon
<1>12. CASE DropStray(c)
  <2>1. call' = [call EXCEPT ![c] = Over(Failure(c))] /\ obj' = obj
    BY <1>12 DEF DropStray
  <2>2. /\ call'[c] = Over(Failure(c)) /\ Over(Failure(c)).h = NoHandle
        /\ Over(Failure(c)).pc \in {"failed", "denied"}
        /\ \A d \in Call : d # c => call'[d] = call[d]
    BY <1>1, <2>1, FailureType, OverType DEF Over, IdleCall, Failure
  <2> QED BY <2>1, <2>2, KeepsFree DEF Alone
<1>13. call[c].pc \notin {"picked", "lock", "cas", "publish", "drop"}
  BY <1>2, StepsOf DEF Quiet, Ended
<1> QED
  BY <1>3, <1>4, <1>5, <1>6, <1>7, <1>8, <1>9, <1>10, <1>11, <1>12, <1>13
  DEF CallStep, RpcError, Migrate, CompareAndSet, Publish, Pinned, DropSource,
      LockSource

(* The conjuncts that hold again once the copies have only shrunk. *)
LEMMA AloneAgain ==
    ASSUME TypeOK, TypeOK', Refs, Alone, Forward, CopiesSame, MappedDown
    PROVE  /\ OneCopy'
           /\ \A h : Home(h, obj[Origin].node) => Home(h, obj'[Origin].node)
           /\ \A f \in Release : call'[f] = call[f] =>
                /\ call'[f].pc = "unmap" /\ call'[f].pin = None
                     => ~obj'[Origin].mapped
                /\ call'[f].pc = "register" => /\ ~obj'[Origin].mapped
                                               /\ call'[f].h.lease = Tombstone
                /\ call'[f].pc = "done" => ~obj'[Origin].mapped /\ Tombstoned'
<1>1. OneCopy'
  BY OriginNode DEF Alone, OneCopy, CopiesSame, Exists
<1>2. obj'[Origin].node # None => obj'[Origin].node = obj[Origin].node
  BY OriginNode DEF CopiesSame
<1>3. Tombstoned => Tombstoned'
  BY DEF Tombstoned, Forward
<1>4. obj'[Origin].mapped => obj[Origin].mapped
  BY OriginNode DEF MappedDown
<1> QED BY <1>1, <1>2, <1>3, <1>4 DEF Home, Alone, Freeing

(* A call under way is not idle, and one that takes a step is under way. *)
LEMMA StepUnderWay ==
    ASSUME TypeOK, Refs, NEW c \in Call, CallStep(c)
    PROVE  call[c].pc # "idle"
<1>1. call[c].pc \in LocalStep => call[c].live
  BY DEF Refs, CallHolds
<1> QED
  BY <1>1
  DEF CallStep, AllocateLocal, Arrive, WriteChunks, Commit, Register, Renew,
      FreeCheck, Unmap, Migrate, CompareAndSet, Publish, DropSource, LockSource,
      RpcError, Abandon, DropStray, Pinned, LocalStep, OwnerStep

LEMMA CallStepAlone ==
    ASSUME TypeOK, TypeOK', Refs, Generations, Alone, Forward, NEW c \in Call,
           c \notin Migration, CallStep(c)
    PROVE  Alone'
<1>0. gossip' = gossip
  BY DEF CallStep, AllocateLocal, Arrive, WriteChunks, Commit, Register, Renew,
     FreeCheck, Unmap, Migrate, CompareAndSet, Publish, DropSource, LockSource,
     RpcError, Abandon, DropStray
<1>1. CASE ~AllocateLocal(c)
  <2>1. FreeMove(c) /\ MappedDown
    BY <1>1, CallStepFree
  <2>2. CopiesSame
    <3>1. call[c].pc \notin {"cas", "publish"}
      BY StepsOf DEF Refs, CallRole, Call, Quiet, Ended
    <3> QED
      BY <1>1, <3>1, PlainStepFrame
      DEF CallStep, PlainStep, CompareAndSet, Publish, Pinned
  <2>3. Home(table', obj[Origin].node)
    <3>1. /\ table \in Handle /\ call[c].h \in Handle
          /\ Home(table, obj[Origin].node) /\ Home(call[c].h, obj[Origin].node)
      BY CallHandle DEF Alone, HandlesHome, TypeOK
    <3>2. Home(Registered(table, call[c].h), obj[Origin].node)
      BY <3>1, HomeOperators, OriginNode
    <3>3. table' \in {table, Registered(table, call[c].h)}
      <4>1. CASE Register(c) \/ CompareAndSet(c)
        BY <4>1 DEF Register, CompareAndSet
      <4>2. CASE ~Register(c) /\ ~CompareAndSet(c)
        BY <4>2
        DEF CallStep, leader, AllocateLocal, Arrive, WriteChunks, Commit, Renew,
            FreeCheck, Unmap, Migrate, Publish, DropSource, LockSource, RpcError,
            Abandon, DropStray
      <4> QED BY <4>1, <4>2
    <3> QED BY <3>1, <3>2, <3>3
  <2>4. HandlesHome'
    BY <1>0, <2>1, <2>2, <2>3, AloneAgain DEF Alone, HandlesHome, FreeMove
  <2>5. Freeing'
    BY <2>1, <2>2, AloneAgain DEF FreeMove, Freeing, Call
  <2>6. Unborn'
    <3> SUFFICES ASSUME call'[Origin].pc \in {"idle", "alloc"}
                 PROVE  /\ table'.owner = None /\ obj'[Origin].node = None
                        /\ \A m \in gossip' : m.h = NoHandle
                        /\ \A d \in Call \ {Origin} : call'[d] = IdleCall
      BY DEF Unborn
    <3>1. call[Origin].pc \in {"idle", "alloc"}
      BY <2>1, CallStepCalm, OriginNode DEF FreeMove, CalmMove
    <3>2. /\ table.owner = None /\ obj[Origin].node = None
          /\ \A m \in gossip : m.h = NoHandle
          /\ \A d \in Call \ {Origin} : call[d] = IdleCall
      BY <3>1 DEF Alone, Unborn
    <3>3. c = Origin /\ call[c].pc = "alloc"
      BY <3>1, <3>2, StepUnderWay DEF IdleCall
    <3>4. table' = table
      BY <3>3
      DEF CallStep, leader, AllocateLocal, Arrive, WriteChunks, Commit, Register,
         Renew, FreeCheck, Unmap, Migrate, CompareAndSet, Publish, DropSource,
         LockSource, RpcError, Abandon, DropStray
    <3>5. obj'[Origin].node = None
      BY <2>2, <3>2, OriginNode DEF CopiesSame
    <3> QED BY <1>0, <2>1, <3>2, <3>3, <3>4, <3>5 DEF FreeMove
  <2> QED BY <2>1, <2>2, <2>4, <2>5, <2>6, AloneAgain DEF Alone
<1>2. CASE AllocateLocal(c)
  <2>1. c = Origin /\ call[c].pc = "alloc"
    BY <1>2, StepsOf DEF AllocateLocal, Refs, CallRole, Call, Quiet, Ended
  <2>2. /\ table.owner = None /\ obj[Origin].node = None
        /\ \A m \in gossip : m.h = NoHandle
        /\ \A d \in Call \ {Origin} : call[d] = IdleCall
    BY <2>1 DEF Alone, Unborn
  <2>3. /\ call[Origin].h \in Handle /\ call[Origin].h.gen = 0 /\ table.gen = 0
    BY CallHandle, OriginNode DEF Alone, HandlesHome, Home
  <2>4. /\ obj' = [obj EXCEPT ![Origin] = AllocatedAs(call[Origin].h)]
        /\ Advance(Origin, "grant", call[Origin].h) /\ table' = table
    BY <1>2, <2>1 DEF AllocateLocal, leader
  <2>5. /\ obj'[Origin].node = call[Origin].h.owner /\ obj'[Origin].gen = 0
        /\ \A o \in Obj : o # Origin => obj'[o] = obj[o]
    BY <2>3, <2>4, OriginNode DEF AllocatedAs, TypeOK
  <2>6. /\ Only(Origin)
        /\ \/ call'[Origin].pc \in Ended /\ call'[Origin].h = NoHandle
           \/ call'[Origin].pc = "grant" /\ call'[Origin].h = call[Origin].h
    BY <2>3, <2>4, AdvanceMoves, StepNames, OriginNode
  <2>7. OneCopy'
    BY <2>5 DEF Alone, OneCopy, Exists
  <2>8. HandlesHome'
    <3>1. Home(table', obj'[Origin].node)
      BY <2>2, <2>3, <2>4 DEF Home
    <3>2. \A m \in gossip' : Home(m.h, obj'[Origin].node)
      BY <1>0, <2>2 DEF Home, NoHandle
    <3>3. Home(call'[Origin].h, obj'[Origin].node)
      BY <2>3, <2>5, <2>6 DEF Home, NoHandle
    <3>4. \A d \in Call \ {Origin} : Home(call'[d].h, obj'[Origin].node)
      BY <2>2, <2>6 DEF Home, NoHandle, Only, IdleCall
    <3> QED BY <3>1, <3>2, <3>3, <3>4 DEF HandlesHome
  <2>9. Unborn'
    BY <2>6 DEF Unborn, Ended
  <2>10. Freeing'
    <3>1. \A f \in Release : f \in Call /\ f # Origin
      BY ConstantsAssumption DEF Call
    <3>2. \A f \in Release : call'[f].pc = "idle"
      BY <2>2, <2>6, <3>1 DEF Only, IdleCall
    <3> QED BY <3>2 DEF Freeing
  <2> QED BY <2>7, <2>8, <2>9, <2>10 DEF Alone
<1> QED BY <1>1, <1>2

(* The same for a step that is not one of a call's own. *)
LEMMA AloneKept ==
    ASSUME TypeOK, TypeOK', Refs, Alone, Forward, CopiesSame, MappedDown, Unborn',
           Home(table', obj[Origin].node),
           \A m \in gossip' : Home(m.h, obj[Origin].node),
           \A c \in Call : Home(call'[c].h, obj[Origin].node),
           \A f \in Release :
             /\ call'[f].pc = "unmap" /\ call'[f].pin = None
                  => call[f].pc = "unmap" /\ call[f].pin = None
             /\ call'[f].pc = "register"
                  => /\ call[f].pc = "register"
                     /\ call[f].h.lease = Tombstone => call'[f].h.lease = Tombstone
             /\ call'[f].pc = "done" => call[f].pc = "done"
    PROVE  Alone'
<1>1. OneCopy' /\ \A h : Home(h, obj[Origin].node) => Home(h, obj'[Origin].node)
  BY AloneAgain
<1>2. HandlesHome'
  BY <1>1 DEF HandlesHome
<1>3. Tombstoned => Tombstoned'
  BY DEF Tombstoned, Forward
<1>4. obj'[Origin].mapped => obj[Origin].mapped
  BY OriginNode DEF MappedDown
<1>5. Freeing'
  BY <1>3, <1>4 DEF Alone, Freeing
<1> QED BY <1>1, <1>2, <1>5 DEF Alone

LEMMA UnchangedCopies ==
    ASSUME obj' = obj
    PROVE  CopiesSame /\ MappedDown
BY DEF CopiesSame, MappedDown

LEMMA StartAlone ==
    ASSUME TypeOK, TypeOK', Refs, Alone, Forward, NoMigration', Start
    PROVE  Alone'
<1>1. /\ obj' = obj /\ gossip' = gossip
  BY DEF Start, Allocate, Grant, ClientWrite, ClientCommit, StartRenew, StartFree,
     PickForMigration, ResolveFor
<1>2. /\ call \in [Call -> CallState] /\ Origin \in Call /\ table \in Handle
      /\ \A f \in Release : f \in Call /\ f # Origin /\ f \notin Renewal
      /\ Home(table, obj[Origin].node)
      /\ \A m \in gossip : Home(m.h, obj[Origin].node)
      /\ \A c \in Call : Home(call[c].h, obj[Origin].node) /\ call[c].h \in Handle
  BY CallHandle, ConstantsAssumption DEF TypeOK, Call, Alone, HandlesHome
<1>3. ASSUME NEW n \in Node, Allocate(n) PROVE Alone'
  <2> DEFINE h == [owner |-> n, inc |-> peer[n], gen |-> 0,
                   state |-> "Writing", lease |-> Lease]
  <2>1. /\ call[Origin].pc = "idle" /\ table' = table
        /\ call' = [call EXCEPT ![Origin].pc = "alloc", ![Origin].h = h]
    BY <1>3 DEF Allocate, leader
  <2>2. /\ table.owner = None /\ obj[Origin].node = None
        /\ \A m \in gossip : m.h = NoHandle
        /\ \A d \in Call \ {Origin} : call[d] = IdleCall
    BY <2>1 DEF Alone, Unborn
  <2>3. Home(h, obj[Origin].node)
    BY <2>2 DEF Home
  <2> HIDE DEF h
  <2>4. /\ call'[Origin].h = h
        /\ \A d \in Call : d # Origin => call'[d] = call[d]
    BY <1>2, <2>1 DEF CallState
  <2>5. Unborn'
    BY <1>1, <2>1, <2>2, <2>4 DEF Unborn
  <2>6. \A c \in Call : Home(call'[c].h, obj[Origin].node)
    BY <1>2, <2>3, <2>4
  <2> QED BY <1>1, <1>2, <2>1, <2>4, <2>5, <2>6, AloneKept, UnchangedCopies
<1>4. CASE Grant
  <2>1. /\ table' = Registered(table, call[Origin].h)
        /\ call'[Origin].pc = "toWrite" /\ call'[Origin].h = call[Origin].h
        /\ \A d \in Call : d # Origin => call'[d] = call[d]
    BY <1>2, <1>4 DEF Grant, CallState
  <2>2. Home(table', obj[Origin].node)
    BY <1>2, <2>1, HomeOperators, OriginNode
  <2>3. Unborn'
    BY <2>1 DEF Unborn
  <2>4. \A c \in Call : Home(call'[c].h, obj[Origin].node)
    BY <1>2, <2>1
  <2> QED BY <1>1, <1>2, <2>1, <2>2, <2>3, <2>4, AloneKept, UnchangedCopies
<1>5. ASSUME NEW c \in Call, NEW step \in {"write", "commit", "renew", "free"},
             ResolveFor(c, step), call[Origin].pc \notin {"idle", "alloc"}
      PROVE  Alone'
  <2>1. /\ table' = table /\ call'[c].pc = step /\ call'[c].h = table
        /\ \A d \in Call : d # c => call'[d] = call[d]
    BY <1>2, <1>5 DEF ResolveFor, leader, CallState
  <2>2. Unborn'
    BY <1>2, <1>5, <2>1 DEF Unborn
  <2>3. \A d \in Call : Home(call'[d].h, obj[Origin].node)
    BY <1>2, <2>1
  <2>4. ASSUME NEW f \in Release
        PROVE  call'[f] = call[f] \/ call'[f].pc \notin {"unmap", "register", "done"}
    BY <1>2, <2>1
  <2> QED BY <1>1, <1>2, <2>1, <2>2, <2>3, <2>4, AloneKept, UnchangedCopies
<1>6. ASSUME NEW c \in Call, PickForMigration(c) PROVE FALSE
  <2>1. c \in Migration /\ call'[c].pc = "picked"
    BY <1>2, <1>6 DEF PickForMigration, CallState
  <2> QED BY <2>1 DEF NoMigration
<1> QED
  BY <1>2, <1>3, <1>4, <1>5, <1>6
  DEF Start, ClientWrite, ClientCommit, StartRenew, StartFree, Granted

LEMMA TickAlone ==
    ASSUME TypeOK, TypeOK', Refs, Generations, Alone, Forward, Tick
    PROVE  Alone'
<1>1. obj \in [Obj -> Object] /\ call \in [Call -> CallState] /\ table \in Handle
  BY DEF TypeOK
<1>2. CopiesSame /\ table' = AgedHandle(table)
  BY TickFrame DEF Tick
<1>3. \A o \in Obj : obj'[o].mapped = obj[o].mapped /\ obj'[o].node = obj[o].node
  BY <1>1 DEF Tick, Object
<1>4. \A c \in Call : /\ call'[c].pc = call[c].pc /\ call'[c].pin = call[c].pin
                      /\ call'[c].h = AgedHandle(call[c].h)
  BY <1>1 DEF Tick, CallState
<1>5. \A m \in gossip' : \E g \in gossip : m.h = AgedHandle(g.h) /\ g.h \in Handle
  <2> SUFFICES ASSUME NEW m \in gossip'
               PROVE  \E g \in gossip : m.h = AgedHandle(g.h) /\ g.h \in Handle
    OBVIOUS
  <2>1. PICK g \in gossip : m = [g EXCEPT !.h = AgedHandle(@)]
    BY DEF Tick
  <2>2. g \in [node : Node, inc : Nat, h : Handle]
    BY DEF TypeOK
  <2> QED BY <2>1, <2>2
<1>6. Home(table', obj[Origin].node)
  BY <1>1, <1>2, HomeOperators, OriginNode DEF Alone, HandlesHome
<1>7. \A m \in gossip' : Home(m.h, obj[Origin].node)
  BY <1>5, HomeOperators, OriginNode DEF Alone, HandlesHome
<1>8. \A c \in Call : Home(call'[c].h, obj[Origin].node)
  BY <1>4, CallHandle, HomeOperators, OriginNode DEF Alone, HandlesHome
<1>9. Unborn'
  <2>1. /\ table'.owner = table.owner
        /\ obj'[Origin].node = obj[Origin].node
    BY <1>1, <1>2, <1>3, AgedType, OriginNode
  <2>2. Origin \in Call
    BY OriginNode
  <2>3. ASSUME NEW d \in Call, call[d] = IdleCall PROVE call'[d] = IdleCall
    <3>1. ~Timed(d) /\ IdleCall \in CallState
      BY <2>3, IdleType DEF Timed, IdleCall
    <3>2. call'[d] = [IdleCall EXCEPT !.age = @, !.h = AgedHandle(@)]
      BY <2>3, <3>1 DEF Tick
    <3>3. IdleCall.h = NoHandle
      BY DEF IdleCall
    <3> QED BY <3>1, <3>2, <3>3, AgedNoHandle DEF CallState
  <2> QED BY <1>4, <1>5, <2>1, <2>2, <2>3, AgedNoHandle DEF Alone, Unborn
<1>10. ASSUME NEW f \in Release
       PROVE  call[f].h.lease = Tombstone => call'[f].h.lease = Tombstone
  BY <1>4, CallHandle, AgedType DEF Call
<1>11. \A f \in Release : f \in Call
  BY DEF Call
<1>12. MappedDown
  BY <1>3 DEF MappedDown
<1> QED
  BY <1>2, <1>4, <1>6, <1>7, <1>8, <1>9, <1>10, <1>11, <1>12, AloneKept

LEMMA RestartAlone ==
    ASSUME TypeOK, TypeOK', Refs, Generations, Alone, Forward, NEW n \in Node,
           Restart(n)
    PROVE  Alone'
<1>1. /\ obj \in [Obj -> Object] /\ call \in [Call -> CallState]
      /\ table' = table /\ gossip' = gossip /\ CopiesSame
  BY RestartFrame DEF TypeOK, Restart, leader
<1>2. MappedDown
  <2> SUFFICES ASSUME NEW o \in Obj PROVE obj'[o].mapped => obj[o].mapped
    BY DEF MappedDown
  <2>1. obj'[o] = NoObject \/ \E l : obj'[o] = [obj[o] EXCEPT !.lock = l]
    BY DEF Restart
  <2>2. ASSUME NEW l, obj'[o] = [obj[o] EXCEPT !.lock = l]
        PROVE  obj'[o].mapped = obj[o].mapped
    <3>1. obj[o] \in Object
      BY <1>1
    <3> QED BY <2>2, <3>1 DEF Object
  <2>3. NoObject.mapped = FALSE
    BY DEF NoObject
  <2> QED BY <2>1, <2>2, <2>3
<1>3. ASSUME NEW c \in Call
      PROVE  \/ call'[c].h = NoHandle /\ call'[c].pc \in {"failed", "denied"}
             \/ /\ call'[c].h = call[c].h
                /\ call'[c].pc \in {call[c].pc, "free"}
                /\ call'[c].pc = "unmap" => call'[c].pin = call[c].pin
  <2>1. Over(Failure(c)).h = NoHandle /\ Over(Failure(c)).pc \in {"failed", "denied"}
    BY FailureType, OverType DEF Over, IdleCall, Failure
  <2>2. \/ call'[c] = Over(Failure(c))
        \/ \E l, s, served \in BOOLEAN :
             call'[c] = [call[c] EXCEPT
                           !.live = l, !.src = IF s THEN None ELSE @,
                           !.pin = IF served THEN None ELSE @,
                           !.pc = IF served /\ @ = "unmap" THEN "free" ELSE @]
    <3> DEFINE gone == {o \in Obj : obj[o].node = n}
    <3>1. \/ call'[c] = Over(Failure(c))
          \/ call'[c] = [call[c] EXCEPT
                           !.live = @ /\ ~(call[c].src \in gone),
                           !.src = IF call[c].src \in gone THEN None ELSE @,
                           !.pin = IF call[c].pin \in gone THEN None ELSE @,
                           !.pc = IF call[c].pin \in gone /\ @ = "unmap"
                                  THEN "free" ELSE @]
      BY DEF Restart
    <3>2. call[c].live \in BOOLEAN
      BY <1>1 DEF CallState
    <3> QED BY <3>1, <3>2
  <2>3. ASSUME NEW l \in BOOLEAN, NEW s \in BOOLEAN, NEW served \in BOOLEAN,
               call'[c] = [call[c] EXCEPT
                             !.live = l, !.src = IF s THEN None ELSE @,
                             !.pin = IF served THEN None ELSE @,
                             !.pc = IF served /\ @ = "unmap" THEN "free" ELSE @]
        PROVE  /\ call'[c].h = call[c].h
               /\ call'[c].pc \in {call[c].pc, "free"}
               /\ call'[c].pc = "unmap" => call'[c].pin = call[c].pin
    <3>1. call[c] \in CallState
      BY <1>1
    <3> QED BY <2>3, <3>1 DEF CallState
  <2> QED BY <2>1, <2>2, <2>3
<1>4. \A c \in Call : Home(call'[c].h, obj[Origin].node)
  BY <1>3, HomeOperators, OriginNode DEF Alone, HandlesHome
<1>5. Unborn'
  <2> SUFFICES ASSUME call'[Origin].pc \in {"idle", "alloc"}
               PROVE  /\ table'.owner = None /\ obj'[Origin].node = None
                      /\ \A m \in gossip' : m.h = NoHandle
                      /\ \A d \in Call \ {Origin} : call'[d] = IdleCall
    BY DEF Unborn
  <2>1. call[Origin].pc \in {"idle", "alloc"}
    BY <1>3, OriginNode
  <2>2. /\ table.owner = None /\ obj[Origin].node = None
        /\ \A m \in gossip : m.h = NoHandle
        /\ \A d \in Call \ {Origin} : call[d] = IdleCall
    BY <2>1 DEF Alone, Unborn
  <2>3. obj'[Origin].node = None
    BY <1>1, <2>2, OriginNode DEF CopiesSame
  <2>4. ASSUME NEW d \in Call \ {Origin}
        PROVE  call'[d] = IdleCall
    <3>1. /\ call[d] = IdleCall /\ IdleCall \in CallState
          /\ IdleCall.src = None /\ IdleCall.pin = None /\ IdleCall.live = TRUE
          /\ IdleCall.pc = "idle" /\ None \notin Obj
      BY <2>2, IdleType, ConstantsAssumption DEF IdleCall, Obj, Call
    <3>2. call'[d] = [IdleCall EXCEPT !.live = TRUE, !.src = None, !.pin = None,
                                      !.pc = "idle"]
      BY <3>1 DEF Restart
    <3> QED BY <3>2 DEF IdleCall
  <2> QED BY <1>1, <2>2, <2>3, <2>4
<1>6. \A f \in Release :
        /\ call'[f].pc = "unmap" /\ call'[f].pin = None
             => call[f].pc = "unmap" /\ call[f].pin = None
        /\ call'[f].pc = "register"
             => /\ call[f].pc = "register"
                /\ call[f].h.lease = Tombstone => call'[f].h.lease = Tombstone
        /\ call'[f].pc = "done" => call[f].pc = "done"
  BY <1>3 DEF Call
<1> QED
  BY <1>1, <1>2, <1>4, <1>5, <1>6, AloneKept DEF Alone, HandlesHome

LEMMA ExpireAlone ==
    ASSUME TypeOK, TypeOK', Refs, Alone, Forward, NEW o \in Obj, Expire(o)
    PROVE  Alone'
<1>1. obj \in [Obj -> Object] /\ obj' = [obj EXCEPT ![o].mapped = FALSE]
  BY DEF TypeOK, Expire
<1>2. CopiesSame /\ MappedDown
  BY <1>1 DEF CopiesSame, MappedDown, Object
<1>3. obj'[Origin].node = obj[Origin].node
  BY <1>1, OriginNode DEF Object
<1>4. UNCHANGED <<table, call, gossip>>
  BY DEF Expire, leader
<1>5. Unborn'
  BY <1>3, <1>4 DEF Alone, Unborn
<1> QED BY <1>2, <1>4, <1>5, AloneKept DEF Alone, HandlesHome

LEMMA MembershipAlone ==
    ASSUME TypeOK, TypeOK', Refs, Alone, Forward, Membership
    PROVE  Alone'
<1>1. /\ table \in Handle /\ Home(table, obj[Origin].node) /\ Origin \in Call
      /\ \A m \in gossip : /\ Home(m.h, obj[Origin].node)
                           /\ m.h \in Handle /\ m.node \in Node
      /\ \A c \in Call : Home(call[c].h, obj[Origin].node)
  BY OriginNode DEF TypeOK, Alone, HandlesHome
<1>2. obj' = obj /\ call' = call
  BY DEF Membership, Exchange, ExpirePeer, RefreshCapabilities, AcceptPeer,
     DropGossip
<1>3. ASSUME Home(table', obj[Origin].node), Unborn',
             \A m \in gossip' : Home(m.h, obj[Origin].node)
      PROVE  Alone'
  BY <1>1, <1>2, <1>3, AloneKept, UnchangedCopies
<1>4. ASSUME NEW n \in Node, Exchange(n) PROVE Alone'
  <2>1. PICK h \in {HandleOf(o) : o \in {m \in MappedAt(n) :
                      obj[m].published /\ obj[m].lock = None}} \cup {NoHandle} :
          gossip' = gossip \cup {[node |-> n, inc |-> inc[n], h |-> h]}
    BY <1>4 DEF Exchange
  <2>2. Home(h, obj[Origin].node) /\ (h # NoHandle => Exists(Origin))
    <3>1. CASE h = NoHandle
      BY <3>1, HomeOperators, OriginNode
    <3>2. CASE h # NoHandle
      <4>1. PICK o \in Obj : h = HandleOf(o) /\ obj[o].mapped
        BY <2>1, <3>2 DEF MappedAt
      <4>2. Exists(o)
        BY <4>1 DEF Refs, MappedExist, Exists
      <4> QED BY <4>1, <4>2, HomeHandleOf DEF Alone
    <3> QED BY <3>1, <3>2
  <2>3. table' = table
    BY <1>4 DEF Exchange, leader
  <2>4. Unborn'
    BY <1>2, <2>1, <2>2, <2>3 DEF Alone, Unborn, Exists
  <2>5. \A m \in gossip' : Home(m.h, obj[Origin].node)
    BY <1>1, <2>1, <2>2
  <2> QED BY <1>1, <1>3, <2>3, <2>4, <2>5
<1>5. ASSUME NEW m \in gossip, AcceptPeer(m) PROVE Alone'
  <2>1. gossip' \subseteq gossip
    BY <1>5 DEF AcceptPeer
  <2>2. PICK after \in {table, LoseNode(table, m.node)} :
          table' = IF m.h = NoHandle THEN after ELSE Registered(after, m.h)
    BY <1>5 DEF AcceptPeer
  <2>3. after \in Handle /\ Home(after, obj[Origin].node) /\ after.owner = table.owner
    BY <1>1, LoseNodeType, HomeOperators, OriginNode
  <2>4. Home(table', obj[Origin].node)
    BY <1>1, <2>2, <2>3, HomeOperators, OriginNode
  <2>5. Unborn'
    BY <1>2, <2>1, <2>2, <2>3 DEF Alone, Unborn
  <2> QED BY <1>1, <1>3, <2>1, <2>4, <2>5
<1>6. ASSUME NEW n \in Node, ExpirePeer(n) PROVE Alone'
  <2>1. table' = LoseNode(table, n) /\ gossip' = gossip
    BY <1>6 DEF ExpirePeer
  <2>2. Home(table', obj[Origin].node) /\ table'.owner = table.owner
    BY <1>1, <2>1, LoseNodeType, HomeOperators, OriginNode
  <2>3. Unborn'
    BY <1>2, <2>1, <2>2 DEF Alone, Unborn
  <2> QED BY <1>1, <1>3, <2>1, <2>2, <2>3
<1>7. CASE table' = table /\ gossip' \subseteq gossip
  <2>1. Unborn'
    BY <1>2, <1>7 DEF Alone, Unborn
  <2> QED BY <1>1, <1>3, <1>7, <2>1
<1> QED
  BY <1>4, <1>5, <1>6, <1>7
  DEF Membership, RefreshCapabilities, DropGossip, leader

LEMMA FreeInvariant == Spec => [](NoMigration => Alone)
<1>1. Init => Alone
  <2> SUFFICES ASSUME Init PROVE Alone
    OBVIOUS
  <2>1. /\ \A o \in Obj : obj[o].node = None
        /\ \A c \in Call : call[c] = IdleCall /\ call[c].h = NoHandle
                             /\ call[c].pc = "idle"
        /\ table = NoHandle /\ gossip = {} /\ Origin \in Obj
    BY DEF Init, NoObject, IdleCall, Obj
  <2>2. HandlesHome /\ OneCopy
    BY <2>1 DEF HandlesHome, Home, NoHandle, OneCopy, Exists
  <2>3. Unborn /\ Freeing
    BY <2>1 DEF Unborn, Freeing, NoHandle, Call
  <2> QED BY <2>2, <2>3 DEF Alone
<1>2. /\ TypeOK /\ Refs /\ TypeOK' /\ Lineage /\ (NoMigration => Alone)
      /\ [Next]_vars
      => (NoMigration => Alone)'
  <2> SUFFICES ASSUME TypeOK, Refs, TypeOK', Lineage, NoMigration => Alone,
                      [Next]_vars, NoMigration'
               PROVE  Alone'
    OBVIOUS
  <2>1. CASE UNCHANGED vars
    BY <2>1
    DEF vars, leader, NoMigration, Alone, OneCopy, HandlesHome, Unborn, Freeing,
        Exists, Tombstoned
  <2>2. CASE Next
    <3>1. NoMigration /\ Alone /\ Forward /\ Generations
      BY <2>2, CallsCalm, NextForward DEF NoMigration, Call, Lineage
    <3>2. ASSUME NEW c \in Call, CallStep(c) PROVE Alone'
      BY <3>1, <3>2, StepUnderWay, CallStepAlone DEF NoMigration
    <3> QED
      BY <2>2, <3>1, <3>2, StartAlone, TickAlone, RestartAlone, ExpireAlone,
         MembershipAlone
      DEF Next, Work
  <2> QED BY <2>1, <2>2
<1> QED BY <1>1, <1>2, Invariance, LineageInvariant, PTL DEF Spec

(* A client's Free that has been answered has released the block, as long  *)
(* as no migration has been started: no map holds it and it cannot be      *)
(* resolved, whatever renewals, restarts, lost or abandoned requests and   *)
(* late inventories the Free has raced (LocalRam::free, the Free handler   *)
(* of control.rs and the tombstone of ResidencyTable::register).           *)
THEOREM FreedGone == Spec => []FreeReleases
<1>1. TypeOK /\ Refs /\ (NoMigration => Alone) => FreeReleases
  <2> SUFFICES ASSUME TypeOK, Refs, NoMigration => Alone, NEW f \in Release,
                      call[f].pc = "done", NoMigration
               PROVE  ~Resolvable /\ \A o \in Obj : ~obj[o].mapped
    BY DEF FreeReleases, NoMigration
  <2>1. ~obj[Origin].mapped /\ Tombstoned
    BY DEF Alone, Freeing
  <2>2. ~Resolvable
    BY <2>1 DEF Tombstoned, Tombstone, Resolvable
  <2>3. \A o \in Obj : ~obj[o].mapped
    BY <2>1 DEF Refs, MappedExist, Alone, OneCopy, Exists
  <2> QED BY <2>2, <2>3
<1> QED BY <1>1, Invariance, FreeInvariant, PTL

-----------------------------------------------------------------------------
(* The table is backed by a copy *)

(* No request has acted on another copy than its own, the entry has never  *)
(* been seen expired and no Free has been sent.                            *)
Undisturbed ==
    ~crossed /\ ~lapsed /\ \A f \in Release : call[f].pc = "idle"

(* Handle h is that of the object o. *)
Names(h, o) ==
    h.owner = obj[o].node /\ h.inc = inc[obj[o].node] /\ h.gen = obj[o].gen

(* No handle names an incarnation that is still to come. *)
Dated(h) ==
    h.lease >= 0 /\ (h.owner # None => 0 < h.inc /\ h.inc <= inc[h.owner])

(* Node n, as incarnation i, is the one that every handle of the table's   *)
(* generation names, and no handle is ahead of the table.                  *)
Agrees(h, n, i) ==
    h.owner # None => /\ h.gen <= table.gen
                      /\ h.gen = table.gen => h.owner = n /\ h.inc = i

(* A handle of the table's generation whose owner has not restarted names  *)
(* a copy in that owner's map, and promises no more than this copy keeps.  *)
Backed(h) ==
    h.owner # None /\ h.inc = inc[h.owner] /\ h.gen = table.gen =>
      /\ h.lease > 0 => \E o \in Obj : obj[o].mapped /\ Names(h, o)
      /\ \A o \in Obj : obj[o].mapped /\ Names(h, o) =>
           /\ obj[o].lease >= h.lease
           /\ h.state = "Ready" => obj[o].state = "Ready"

Vouched(h, n, i) == Dated(h) /\ Agrees(h, n, i) /\ Backed(h)

(* The calls whose handle may still reach the table as it is. *)
Speaks(c) ==
    \/ c \in Renewal /\ call[c].pc \in {"renew", "register"}
    \/ c = Origin /\ call[c].pc \in {"grant", "toWrite", "write", "toCommit",
                                     "commit", "register"}
    \/ c \in Migration /\ call[c].pc = "publish"

MappedOnce ==
    \A o, q \in Obj :
        obj[o].mapped /\ obj[q].mapped /\ obj[o].node = obj[q].node => o = q

ReadyFull == \A o \in Obj : obj[o].state = "Ready" => obj[o].full

CopiesKept(n, i) ==
    /\ MappedOnce
    /\ ReadyFull
    /\ \A o \in Obj : Exists(o) /\ obj[o].published => Agrees(HandleOf(o), n, i)
    /\ Exists(Origin) => obj[Origin].published /\ obj[Origin].gen = 0

EntriesKept(n, i) ==
    /\ Vouched(table, n, i)
    /\ table.owner # None => table.lease > 0
    /\ \A m \in gossip : Vouched(m.h, n, i) /\ m.inc <= inc[m.node]
    /\ \A k \in Node : peer[k] <= inc[k]

(* Before the first registration there is at most the origin's copy. *)
Beginning ==
    /\ call[Origin].pc \in {"idle", "alloc"} =>
         /\ table.owner = None
         /\ ~Exists(Origin)
         /\ \A m \in gossip : m.h.owner = None
    /\ call[Origin].pc = "alloc" => /\ call[Origin].h.gen = 0
                                    /\ call[Origin].h.state = "Writing"
    /\ call[Origin].pc \in {"toWrite", "write", "toCommit", "commit",
                            "register", "done"} => table.owner # None
    /\ table.owner = None =>
         /\ table.gen = 0
         /\ \A c \in Call \ {Origin} : call[c].pc = "idle" /\ call[c].src = None
         /\ \A o \in Obj : Exists(o) => o = Origin

(* A migration gives up its source, discards its destination, or still     *)
(* works on it.                                                            *)
Leaves(c) == /\ call[c].pc \in {"free", "unmap"}
             /\ call[c].src # None
             /\ obj[call[c].src].node = call[c].h.owner

Discarding(c) == call[c].pc \in {"free", "unmap"} /\ ~Leaves(c)

Building(c) == call[c].pc \in {"write", "commit", "cas"}

(* Where a migration stands with its source and its destination. *)
Course(c) ==
    /\ Exists(c) => call[c].pc \notin {"idle", "picked", "lock", "alloc"}
    /\ call[c].src # None /\ Exists(c) => obj[c].node # obj[call[c].src].node
    /\ call[c].src # None /\ call[c].pc \in {"alloc", "write", "commit", "cas"}
         => /\ obj[call[c].src].gen = call[c].prev
            /\ obj[call[c].src].node # call[c].h.owner
    /\ Exists(c) /\ (Building(c) \/ call[c].pc = "publish")
         => Names(call[c].h, c)
    /\ Leaves(c) => call[c].pin # None

(* It gives up a source that the table has left behind. *)
Left(c) ==
    \/ Leaves(c)
    \/ call[c].src # None /\ call[c].pc \in {"publish", "drop"}
    => obj[call[c].src].gen < table.gen

(* The table does not name a destination that may still be discarded. *)
Private(c) ==
    obj[c].mapped /\ (Building(c) \/ Discarding(c)) => ~Names(table, c)

(* The destination is still in its map when the compare-and-set arrives,   *)
(* and the handle sent with it promises no more than that copy keeps.      *)
Held(c) ==
    /\ Building(c) /\ Exists(c) /\ obj[c].lease > 0 /\ obj[c].gen > table.gen
         => obj[c].mapped
    /\ /\ call[c].pc = "cas" /\ call[c].h.owner # None
       /\ call[c].h.inc = inc[call[c].h.owner]
       => /\ Exists(c) /\ obj[c].state = "Ready"
          /\ obj[c].lease >= call[c].h.lease

(* A renewal that meets the table's own copy meets it in its map. *)
Renewing(c) ==
    /\ call[c].pc = "renew" /\ call[c].pin # None
    /\ call[c].h.gen = table.gen /\ obj[call[c].pin].lease > 0
    /\ Names(call[c].h, call[c].pin)
    => obj[call[c].pin].mapped

CallKept(c, n, i) ==
    /\ Dated(call[c].h)
    /\ call[c].pin # None => /\ call[c].pc \in OwnerStep \cup {"unmap"}
                             /\ obj[call[c].pin].node = call[c].h.owner
    /\ c \notin Migration => call[c].src = None
    /\ Speaks(c) => /\ Agrees(call[c].h, n, i)
                    /\ c \notin Migration => Backed(call[c].h)
    /\ c \in Migration => Course(c) /\ Left(c) /\ Private(c) /\ Held(c)
    /\ c \in Renewal => Renewing(c)

Kept(n, i) ==
    /\ CopiesKept(n, i)
    /\ EntriesKept(n, i)
    /\ Beginning
    /\ \A c \in Call : CallKept(c, n, i)

(* The steps of one generation: the entry keeps its generation and, once   *)
(* there is one, its owner.                                                *)
EntryStays ==
    /\ table'.gen = table.gen
    /\ table.owner # None => table'.owner = table.owner /\ table'.inc = table.inc

(* Copies keep what they have.  One leaves a map only when its lease has   *)
(* run out or when the table does not name it; one that the table has not  *)
(* left behind is then c's own.                                            *)
Steady(c) ==
    \A o \in Obj :
        /\ obj'[o].node = obj[o].node /\ obj'[o].gen = obj[o].gen
        /\ obj'[o].lease >= obj[o].lease
        /\ obj'[o].lease > 0 => obj[o].lease > 0
        /\ obj[o].state = "Ready" => obj'[o].state = "Ready"
        /\ obj'[o].mapped => obj[o].mapped
        /\ obj[o].mapped /\ ~obj'[o].mapped =>
             \/ obj[o].lease = 0
             \/ /\ table.owner # None /\ ~Names(table, o)
                /\ o # c => obj[o].gen < table.gen

LEMMA CopyFields ==
    ASSUME TypeOK, NEW o \in Obj
    PROVE  /\ obj[o] \in Object
           /\ obj[o].node \in Node \cup {None} /\ obj[o].gen \in Nat
           /\ obj[o].lease \in Nat
           /\ obj[o].state \in {"Writing", "Ready"} /\ obj[o].full \in BOOLEAN
           /\ obj[o].published \in BOOLEAN /\ obj[o].mapped \in BOOLEAN
<1>1. obj[o] \in Object
  BY DEF TypeOK
<1>2. 0..Lease \subseteq Nat
  BY ConstantsAssumption
<1> QED BY <1>1, <1>2 DEF Object

LEMMA CallFields ==
    ASSUME TypeOK, NEW c \in Call
    PROVE  /\ call[c] \in CallState /\ call[c].h \in Handle
           /\ call[c].h.owner \in Node \cup {None} /\ call[c].h.gen \in Nat
           /\ call[c].h.inc \in Nat /\ call[c].h.lease \in Int
           /\ call[c].pin \in Obj \cup {None} /\ call[c].src \in Obj \cup {None}
           /\ call[c].prev \in Nat /\ call[c].pc \in Step
           /\ call[c].live \in BOOLEAN
BY CallHandle, HandleFields, ConstantsAssumption
DEF CallState, LeaseTicks, Tombstone

LEMMA EntryFields ==
    ASSUME TypeOK
    PROVE  /\ table \in Handle /\ table.owner \in Node \cup {None}
           /\ table.gen \in Nat /\ table.inc \in Nat /\ table.lease \in Int
           /\ \A k \in Node : inc[k] \in Nat /\ inc[k] > 0 /\ peer[k] \in Nat
           /\ \A m \in gossip : /\ m.h \in Handle /\ m.node \in Node
                                /\ m.inc \in Nat /\ m.h.lease \in Int
                                /\ m.h.owner \in Node \cup {None}
                                /\ m.h.gen \in Nat /\ m.h.inc \in Nat
<1>1. table \in Handle /\ \A m \in gossip : m.h \in Handle /\ m.node \in Node
                                              /\ m.inc \in Nat
  BY DEF TypeOK
<1>2. \A h \in Handle : /\ h.lease \in Int /\ h.owner \in Node \cup {None}
                        /\ h.gen \in Nat /\ h.inc \in Nat
  BY HandleFields, ConstantsAssumption DEF LeaseTicks, Tombstone
<1>3. \A k \in Node : inc[k] \in Nat /\ inc[k] > 0 /\ peer[k] \in Nat
  BY DEF TypeOK
<1> QED BY <1>1, <1>2, <1>3

LEMMA CallKinds ==
    /\ Origin \in Call /\ Origin \in Obj /\ Origin \notin Migration
    /\ Origin \notin Renewal /\ None \notin Obj /\ None \notin Call
    /\ None \notin Node /\ Obj \subseteq Call /\ Migration \subseteq Obj
    /\ \A c \in Renewal : c \in Call /\ c \notin Obj /\ c \notin Migration
BY ConstantsAssumption DEF Call, Obj

(* A handle that the table's node vouches for stays backed. *)
LEMMA BackedStays ==
    ASSUME TypeOK, TypeOK', NEW n, NEW i, NEW c, NEW h \in Handle,
           Agrees(table, n, i), Agrees(h, n, i), Backed(h),
           inc' = inc, EntryStays, Steady(c)
    PROVE  Agrees(h, n, i)' /\ Backed(h)'
<1>1. Agrees(h, n, i)'
  BY DEF Agrees, EntryStays
<1>2. ASSUME h.owner # None, h.inc = inc[h.owner], h.gen = table.gen
      PROVE  /\ h.lease > 0 => \E o \in Obj : obj'[o].mapped /\ Names(h, o)'
             /\ \A o \in Obj : obj'[o].mapped /\ Names(h, o)' =>
                  /\ obj'[o].lease >= h.lease
                  /\ h.state = "Ready" => obj'[o].state = "Ready"
  <2>1. \A o \in Obj : Names(h, o)' <=> Names(h, o)
    BY DEF Names, Steady
  <2>2. h.lease \in Int
    BY HandleFields, ConstantsAssumption DEF LeaseTicks, Tombstone
  <2>3. ASSUME NEW o \in Obj, obj'[o].mapped, Names(h, o)
        PROVE  /\ obj'[o].lease >= h.lease
               /\ h.state = "Ready" => obj'[o].state = "Ready"
    <3>1. obj[o].mapped /\ obj[o].lease \in Int /\ obj'[o].lease \in Int
      BY <2>3, CopyFields DEF Steady, TypeOK, Object
    <3>2. obj[o].lease >= h.lease /\ (h.state = "Ready" => obj[o].state = "Ready")
      BY <1>2, <2>3, <3>1 DEF Backed
    <3> QED BY <2>2, <3>1, <3>2 DEF Steady
  <2>4. ASSUME h.lease > 0
        PROVE  \E o \in Obj : obj'[o].mapped /\ Names(h, o)
    <3>1. PICK o \in Obj : obj[o].mapped /\ Names(h, o)
      BY <1>2, <2>4 DEF Backed
    <3>2. obj[o].lease # 0
      BY <1>2, <2>2, <2>4, <3>1, CopyFields DEF Backed
    <3>3. table.owner # None => Names(table, o)
      BY <1>2, <3>1 DEF Agrees, Names
    <3> QED BY <3>1, <3>2, <3>3 DEF Steady
  <2> QED BY <2>1, <2>3, <2>4
<1>3. Backed(h)'
  BY <1>2 DEF Backed, EntryStays
<1> QED BY <1>1, <1>3

LEMMA VouchedStays ==
    ASSUME TypeOK, TypeOK', NEW n, NEW i, NEW c, NEW h \in Handle,
           Agrees(table, n, i), Vouched(h, n, i),
           inc' = inc, EntryStays, Steady(c)
    PROVE  Vouched(h, n, i)'
BY BackedStays DEF Vouched, Dated

(* What a step of c's says of another call's request stays true. *)
LEMMA OtherBacks ==
    ASSUME TypeOK, TypeOK', Refs, NEW n, NEW i, Kept(n, i), NEW c,
           inc' = inc, EntryStays, Steady(c),
           NEW d \in Call, d # c, call'[d].pc = call[d].pc,
           call'[d].h = call[d].h, call'[d].pin = call[d].pin,
           call'[d].src = call[d].src, call'[d].prev = call[d].prev
    PROVE  CallKept(d, n, i)'
<1>1. CallKept(d, n, i) /\ Agrees(table, n, i)
  BY DEF Kept, EntriesKept, Vouched
<1>2. /\ call[d].h \in Handle /\ call[d].pin \in Obj \cup {None}
      /\ call[d].src \in Obj \cup {None} /\ call[d].h.gen \in Nat
  BY CallFields
<1>3. Speaks(d)' <=> Speaks(d)
  BY DEF Speaks
<1>4. Speaks(d)' => /\ Agrees(call[d].h, n, i)'
                    /\ d \notin Migration => Backed(call[d].h)'
  <2>1. Agrees(call[d].h, n, i) => Agrees(call[d].h, n, i)'
    BY DEF Agrees, EntryStays
  <2> QED BY <1>1, <1>2, <1>3, <2>1, BackedStays DEF CallKept
<1>5. ASSUME d \in Migration
      PROVE  Course(d)' /\ Left(d)' /\ Private(d)' /\ Held(d)'
  <2>1. d \in Obj /\ Course(d) /\ Left(d) /\ Private(d) /\ Held(d)
    BY <1>1, <1>5, CallKinds DEF CallKept
  <2>2. /\ obj'[d].node = obj[d].node /\ obj'[d].gen = obj[d].gen
        /\ call[d].src # None =>
             /\ obj'[call[d].src].node = obj[call[d].src].node
             /\ obj'[call[d].src].gen = obj[call[d].src].gen
    BY <1>2, <2>1 DEF Steady
  <2>3. /\ Leaves(d)' <=> Leaves(d)
        /\ Discarding(d)' <=> Discarding(d)
        /\ Building(d)' <=> Building(d)
        /\ Exists(d)' <=> Exists(d)
        /\ Names(call[d].h, d)' <=> Names(call[d].h, d)
    BY <2>2 DEF Leaves, Discarding, Building, Exists, Names
  <2>4. Course(d)' /\ Left(d)'
    <3>2. Course(d)'
      BY <2>1, <2>2, <2>3 DEF Course
    <3>3. Left(d)'
      BY <2>1, <2>2, <2>3 DEF Left, EntryStays, Leaves
    <3> QED BY <3>2, <3>3
  <2>5. Private(d)'
    <3>1. CASE table.owner = None
      BY <1>5, <3>1, CallKinds DEF Kept, Beginning, Private, Building, Discarding
    <3>2. CASE table.owner # None
      BY <2>1, <2>2, <2>3, <3>2 DEF Private, Steady, EntryStays, Names
    <3> QED BY <3>1, <3>2
  <2>6. Held(d)'
    <3>1. /\ obj[d].lease \in Nat /\ obj'[d].lease \in Nat /\ obj[d].gen \in Nat
          /\ obj'[d].lease >= obj[d].lease /\ table.gen \in Nat
          /\ obj'[d].lease > 0 => obj[d].lease > 0
          /\ obj[d].state = "Ready" => obj'[d].state = "Ready"
          /\ call[d].h.lease \in Int
      BY <2>1, CopyFields, EntryFields, CallFields DEF Steady, TypeOK, Object
    <3>2. ASSUME obj[d].lease > 0, obj[d].gen > table.gen, obj[d].mapped
          PROVE  obj'[d].mapped
      BY <2>1, <3>1, <3>2 DEF Steady
    <3> QED BY <2>1, <2>2, <2>3, <3>1, <3>2 DEF Held, EntryStays
  <2> QED BY <2>1, <2>4, <2>5, <2>6
<1>6. ASSUME d \in Renewal
      PROVE  Renewing(d)'
  <2> SUFFICES ASSUME call[d].pc = "renew", call[d].pin # None,
                      call[d].h.gen = table.gen, obj'[call[d].pin].lease > 0,
                      Names(call[d].h, call[d].pin)'
               PROVE  obj'[call[d].pin].mapped
    BY DEF Renewing, EntryStays
  <2>1. PICK o \in Obj : o = call[d].pin
    BY <1>2
  <2>2. Names(call[d].h, o) /\ obj[o].lease > 0 /\ obj[o].mapped
    BY <1>1, <1>6, <2>1 DEF Steady, Names, CallKept, Renewing
  <2>3. Names(call[d].h, o) /\ call[d].h.owner # None
    BY <1>6, <2>1, <2>2, CallKinds
    DEF Refs, CallNamed, Quiet, Ended
  <2>4. table.owner # None => Names(table, o)
    BY <1>1, <1>6, <2>3 DEF CallKept, Agrees, Speaks, Names
  <2> QED BY <2>1, <2>2, <2>4, CopyFields DEF Steady
<1>7. call[d].pin # None => obj'[call[d].pin].node = obj[call[d].pin].node
  BY <1>2 DEF Steady
<1> QED BY <1>1, <1>3, <1>4, <1>5, <1>6, <1>7 DEF CallKept, Dated

(* A step of call c that stays in the generation and changes no more than  *)
(* c, its copy and the entry.                                              *)
LEMMA SoloBacks ==
    ASSUME TypeOK, TypeOK', Refs, NEW n, NEW i, Kept(n, i), NEW c \in Call,
           Only(c), UNCHANGED <<inc, gossip, peer>>, EntryStays, Steady(c),
           ReadyFull',
           \A o \in Obj : obj[o].published => obj'[o].published,
           \A o \in Obj : Exists(o) /\ obj'[o].published =>
                            obj[o].published \/ Agrees(HandleOf(o), n, i),
           Vouched(table, n, i)', table'.owner # None => table'.lease > 0,
           CallKept(c, n, i)', c # Origin => table.owner # None,
           c = Origin => /\ call'[c].pc \in {"idle", "alloc"} =>
                              call[c].pc \in {"idle", "alloc"} /\ table' = table
                         /\ call'[c].pc = "alloc" =>
                              call'[c].h.gen = 0 /\ call'[c].h.state = "Writing"
                         /\ call'[c].pc \in {"toWrite", "write", "toCommit",
                                             "commit", "register", "done"}
                              => table'.owner # None
    PROVE  Kept(n, i)'
<1>1. \A d \in Call : CallKept(d, n, i)'
  BY OtherBacks DEF Only
<1>2. EntriesKept(n, i)'
  <2>1. ASSUME NEW m \in gossip PROVE Vouched(m.h, n, i)' /\ m.inc <= inc[m.node]
    BY VouchedStays, EntryFields DEF Kept, EntriesKept, Vouched
  <2> QED BY <2>1 DEF Kept, EntriesKept
<1>3. \A o \in Obj : Exists(o)' <=> Exists(o)
  BY DEF Exists, Steady
<1>4. CopiesKept(n, i)'
  <2>1. MappedOnce'
    BY DEF MappedOnce, Steady, Kept, CopiesKept
  <2>2. ASSUME NEW o \in Obj, Exists(o), obj'[o].published
        PROVE  Agrees(HandleOf(o), n, i)'
    <3>1. Agrees(HandleOf(o), n, i)
      BY <2>2 DEF Kept, CopiesKept
    <3>2. obj'[o].node = obj[o].node /\ obj'[o].gen = obj[o].gen
      BY DEF Steady
    <3> QED BY <3>1, <3>2 DEF HandleOf, Agrees, EntryStays
  <2>3. Exists(Origin)' => obj'[Origin].published /\ obj'[Origin].gen = 0
    BY <1>3, CallKinds DEF Kept, CopiesKept, Steady
  <2> QED BY <1>3, <2>1, <2>2, <2>3 DEF CopiesKept
<1>5. Beginning'
  <2>1. \A d \in Call : d # c => call'[d] = call[d]
    BY DEF Only
  <2>2. table.owner # None => table'.owner # None
    BY DEF EntryStays
  <2>3. table'.owner = None => c = Origin
    BY <2>2
  <2> QED
    BY <1>3, <2>1, <2>2, <2>3, CallKinds DEF Kept, Beginning, EntryStays
<1> QED BY <1>1, <1>2, <1>4, <1>5 DEF Kept

(* A call that is over claims nothing. *)
LEMMA EndedBacks ==
    ASSUME TypeOK', NEW n, NEW i, NEW c \in Call, call'[c].pc \in Ended,
           call'[c].pin = None, call'[c].src = None, call'[c].h = NoHandle
    PROVE  CallKept(c, n, i)'
<1>1. ~Speaks(c)' /\ ~Building(c)' /\ ~Leaves(c)' /\ ~Discarding(c)'
  BY DEF Speaks, Building, Leaves, Discarding, Ended
<1>2. Dated(call[c].h)'
  BY DEF Dated, NoHandle
<1>3. Course(c)' /\ Left(c)'
  BY <1>1 DEF Course, Left, Ended
<1>4. Private(c)'
  BY <1>1 DEF Private
<1>5. Held(c)'
  BY <1>1 DEF Held, Ended
<1>6. Renewing(c)'
  BY DEF Renewing
<1> QED BY <1>1, <1>2, <1>3, <1>4, <1>5, <1>6 DEF CallKept

(* Every call but the origin's starts after the first registration. *)
LEMMA UnderWay ==
    ASSUME NEW n, NEW i, Kept(n, i), NEW c \in Call, c # Origin,
           call[c].pc # "idle"
    PROVE  table.owner # None
BY DEF Kept, Beginning

LEMMA SameSteady ==
    ASSUME TypeOK, NEW c,
           \A o \in Obj :
               /\ obj'[o].node = obj[o].node /\ obj'[o].gen = obj[o].gen
               /\ obj'[o].lease = obj[o].lease /\ obj'[o].mapped = obj[o].mapped
               /\ obj[o].state = "Ready" => obj'[o].state = "Ready"
    PROVE  Steady(c)
BY CopyFields DEF Steady

(* Steps that leave the entry and the copies as they are, but for a lock. *)
LEMMA StillBacks ==
    ASSUME TypeOK, TypeOK', Refs, NEW n, NEW i, Kept(n, i), NEW c \in Call,
           Only(c), UNCHANGED <<inc, table, gossip, peer>>,
           obj' = obj \/ obj' = Unlocked(c),
           CallKept(c, n, i)', c # Origin => table.owner # None,
           c = Origin => /\ call'[c].pc \in {"idle", "alloc"} =>
                              call[c].pc \in {"idle", "alloc"}
                         /\ call'[c].pc = "alloc" =>
                              call'[c].h.gen = 0 /\ call'[c].h.state = "Writing"
                         /\ call'[c].pc \in {"toWrite", "write", "toCommit",
                                             "commit", "register", "done"}
                              => table.owner # None
    PROVE  Kept(n, i)'
<1>1. \A o \in Obj :
        /\ obj'[o].node = obj[o].node /\ obj'[o].gen = obj[o].gen
        /\ obj'[o].lease = obj[o].lease /\ obj'[o].mapped = obj[o].mapped
        /\ obj'[o].state = obj[o].state /\ obj'[o].full = obj[o].full
        /\ obj'[o].published = obj[o].published
  BY DEF TypeOK, Unlocked, Object
<1>2. Steady(c) /\ EntryStays
  BY <1>1, SameSteady DEF EntryStays
<1>3. ReadyFull'
  BY <1>1 DEF Kept, CopiesKept, ReadyFull
<1>4. Vouched(table, n, i)'
  <2>1. Vouched(table, n, i) /\ table \in Handle
    BY EntryFields DEF Kept, EntriesKept
  <2>2. PICK t \in Handle : t = table
    BY <2>1
  <2>3. Vouched(t, n, i)'
    BY <1>2, <2>1, <2>2, VouchedStays DEF Vouched
  <2> QED BY <2>2, <2>3
<1>5. table'.owner # None => table'.lease > 0
  BY DEF Kept, EntriesKept
<1> QED BY <1>1, <1>2, <1>3, <1>4, <1>5, SoloBacks

LEMMA FailureKind ==
    ASSUME NEW c \in Call
    PROVE  /\ Failure(c) \in {"failed", "denied"}
           /\ Over(Failure(c)) \in CallState
           /\ Over(Failure(c)).pc \in {"failed", "denied"}
           /\ Over(Failure(c)).pin = None /\ Over(Failure(c)).src = None
           /\ Over(Failure(c)).h = NoHandle
BY FailureType, OverType DEF Failure, Over, IdleCall

(* The caller of a request that fails is told so. *)
LEMMA FailsEnds ==
    ASSUME TypeOK, NEW c \in Call, Fails(c)
    PROVE  \/ call'[c].pc \in {"failed", "denied"}
           \/ /\ c \in Migration /\ call'[c].pc = "free"
              /\ call[c].pc \in {"write", "commit"}
              /\ obj' = obj
<1>1. call \in [Call -> CallState]
  BY DEF TypeOK
<1> QED
  BY <1>1, FailureKind DEF Fails, Discards, CallState

LEMMA AdvanceEnds ==
    ASSUME TypeOK, NEW c \in Call, NEW next \in Step, NEW h \in Handle,
           Advance(c, next, h), next \notin Ended
    PROVE  /\ Only(c) /\ call'[c].pin = None
           /\ \/ /\ call'[c].pc \in {"failed", "denied"} /\ call'[c].src = None
                 /\ call'[c].h = NoHandle
              \/ /\ call'[c].pc = next /\ call'[c].h = h
                 /\ call'[c].src = call[c].src /\ call'[c].prev = call[c].prev
<1>1. call \in [Call -> CallState] /\ next # "done"
  BY DEF TypeOK, Ended
<1>2. \/ call' = [call EXCEPT ![c] = Over(Failure(c))]
      \/ call' = [call EXCEPT ![c] = [@ EXCEPT !.pc = next, !.pin = None, !.h = h]]
  BY <1>1 DEF Advance
<1>3. Only(c)
  BY AdvanceMoves
<1>4. CASE call' = [call EXCEPT ![c] = Over(Failure(c))]
  <2>1. call'[c] = Over(Failure(c))
    BY <1>1, <1>4
  <2> QED BY <1>3, <2>1, FailureKind
<1>5. CASE call' = [call EXCEPT ![c] = [@ EXCEPT !.pc = next, !.pin = None, !.h = h]]
  BY <1>1, <1>3, <1>5 DEF CallState
<1> QED BY <1>2, <1>4, <1>5

LEMMA DoneEnds ==
    ASSUME TypeOK, NEW c \in Call, NEW h \in Handle, Advance(c, "done", h)
    PROVE  /\ Only(c) /\ call'[c].pin = None /\ call'[c].src = None
           /\ call'[c].pc \in Ended /\ call'[c].h = NoHandle
<1>1. call \in [Call -> CallState] /\ Only(c)
  BY AdvanceMoves, StepNames DEF TypeOK
<1>2. call'[c] = Over("done") \/ call'[c] = Over(Failure(c))
  BY <1>1 DEF Advance
<1>3. Over("done").h = NoHandle
  BY DEF Over, IdleCall
<1> QED BY <1>1, <1>2, <1>3, FailureKind, OverType DEF Ended

LEMMA EndsBacks ==
    ASSUME TypeOK, TypeOK', Refs, NEW n, NEW i, Kept(n, i), NEW c \in Call,
           Only(c), UNCHANGED <<inc, table, gossip, peer>>,
           obj' = obj \/ obj' = Unlocked(c), call[c].pc # "idle",
           call'[c].pc \in Ended, call'[c].pin = None, call'[c].src = None,
           call'[c].h = NoHandle, c = Origin => call'[c].pc # "done"
    PROVE  Kept(n, i)'
<1>1. CallKept(c, n, i)'
  BY EndedBacks
<1>2. c # Origin => table.owner # None
  BY UnderWay
<1> QED BY <1>1, <1>2, StillBacks DEF Ended

(* A migration that turns to discarding its copy, because its request to   *)
(* write or commit it has failed.                                          *)
LEMMA DiscardBacks ==
    ASSUME TypeOK, TypeOK', Refs, NEW n, NEW i, Kept(n, i), NEW c \in Migration,
           call[c].pc \in {"write", "commit"}, call'[c].pc = "free",
           call'[c].h = call[c].h, call'[c].src = call[c].src,
           call'[c].pin = None, UNCHANGED <<inc, table>>,
           \A o \in Obj : /\ obj'[o].node = obj[o].node
                          /\ obj'[o].mapped = obj[o].mapped
                          /\ obj'[o].gen = obj[o].gen
    PROVE  CallKept(c, n, i)'
<1>1. /\ c \in Obj /\ c \in Call /\ call[c].src \in Obj \cup {None}
      /\ CallKept(c, n, i) /\ c \notin Renewal /\ c # Origin
  BY CallKinds, CallFields DEF Kept
<1>2. Course(c) /\ Private(c)
  BY <1>1 DEF CallKept
<1>3. ~Leaves(c)' /\ Discarding(c)' /\ ~Building(c)' /\ ~Speaks(c)' /\ Building(c)
  BY <1>1, <1>2 DEF Leaves, Course, Discarding, Building, Speaks
<1>4. Course(c)'
  BY <1>1, <1>2, <1>3 DEF Course, Exists
<1>5. Private(c)'
  BY <1>1, <1>2, <1>3 DEF Private, Names
<1>6. Left(c)'
  BY <1>3 DEF Left
<1>7. Held(c)'
  BY <1>3 DEF Held
<1> QED BY <1>1, <1>3, <1>4, <1>5, <1>6, <1>7 DEF CallKept, Dated

(* A request that fails, whatever step it was for. *)
LEMMA FailsBacks ==
    ASSUME TypeOK, TypeOK', Refs, NEW n, NEW i, Kept(n, i), NEW c \in Call,
           Fails(c), call[c].pc # "idle", UNCHANGED <<inc, table, gossip, peer>>
    PROVE  Kept(n, i)'
<1>1. CASE call'[c].pc \in {"failed", "denied"}
  BY <1>1, FailsMoves, EndsBacks DEF Fails, Ended
<1>2. CASE /\ c \in Migration /\ call'[c].pc = "free"
           /\ call[c].pc \in {"write", "commit"} /\ obj' = obj
  <2>1. CallKept(c, n, i)'
    BY <1>2, FailsMoves, DiscardBacks DEF Ended
  <2>2. c # Origin /\ table.owner # None
    BY <1>2, CallKinds, UnderWay
  <2> QED BY <1>2, <2>1, <2>2, FailsMoves, StillBacks
<1> QED BY <1>1, <1>2, FailsEnds

LEMMA StrayBacks ==
    ASSUME TypeOK, TypeOK', Refs, NEW n, NEW i, Kept(n, i), NEW c \in Call,
           Abandon(c) \/ DropStray(c)
    PROVE  Kept(n, i)'
<1>1. call \in [Call -> CallState] /\ call[c] \in CallState /\ call[c].pc # "idle"
        /\ UNCHANGED <<inc, table, gossip, peer>>
        /\ (obj' = obj \/ obj' = Unlocked(c))
  BY DEF TypeOK, Abandon, DropStray, leader, Refs, CallHolds, LocalStep
<1>2. CASE call' = [call EXCEPT ![c] = Over(Failure(c))]
  <2>1. Only(c) /\ call'[c] = Over(Failure(c))
    BY <1>1, <1>2, FailureKind DEF Only
  <2> QED BY <1>1, <2>1, FailureKind, EndsBacks DEF Ended
<1>3. CASE call' = [call EXCEPT ![c] = [@ EXCEPT !.live = FALSE]]
  <2>1. Only(c) /\ call'[c].pc = call[c].pc /\ call'[c].h = call[c].h
          /\ call'[c].pin = call[c].pin /\ call'[c].src = call[c].src
          /\ call'[c].prev = call[c].prev
    BY <1>1, <1>3 DEF Only, CallState
  <2>2. \A o \in Obj :
          /\ obj'[o].node = obj[o].node /\ obj'[o].gen = obj[o].gen
          /\ obj'[o].lease = obj[o].lease /\ obj'[o].mapped = obj[o].mapped
          /\ obj'[o].state = obj[o].state
    BY <1>1 DEF TypeOK, Unlocked, Object
  <2>3. CallKept(c, n, i)'
    <3>1. Steady(None) /\ EntryStays /\ c # None
      BY <1>1, <2>2, SameSteady, CallKinds DEF EntryStays
    <3> QED BY <1>1, <2>1, <3>1, OtherBacks
  <2>4. c # Origin => table.owner # None
    BY <1>1, UnderWay
  <2> QED BY <1>1, <2>1, <2>3, <2>4, StillBacks DEF Kept, Beginning, LocalStep, Abandon
<1> QED BY <1>1, <1>2, <1>3 DEF Abandon, DropStray

(* A request that waits for a block, takes it or has its token compared. *)
LEMMA WaitBacks ==
    ASSUME TypeOK, TypeOK', Refs, NEW n, NEW i, Kept(n, i), NEW c \in Call,
           UNCHANGED <<inc, table, obj>>,
           call'[c].h = call[c].h, call'[c].src = call[c].src,
           call'[c].prev = call[c].prev,
           \/ call'[c].pc = call[c].pc
           \/ call[c].pc = "free" /\ call'[c].pc = "unmap",
           \/ call'[c].pin = call[c].pin
           \/ /\ call[c].pin = None /\ call[c].pc \in OwnerStep
              /\ call'[c].pin \in MappedAt(call[c].h.owner)
    PROVE  CallKept(c, n, i)'
<1>1. CallKept(c, n, i) /\ call[c].pin \in Obj \cup {None}
  BY CallFields DEF Kept
<1>2. /\ Leaves(c)' <=> Leaves(c)
      /\ Discarding(c)' <=> Discarding(c)
      /\ Building(c)' <=> Building(c)
      /\ Speaks(c)' <=> Speaks(c)
  BY DEF Leaves, Discarding, Building, Speaks
<1>3. c \in Migration => Course(c)' /\ Left(c)' /\ Private(c)' /\ Held(c)'
  <2>1. c \in Migration => Course(c)'
    BY <1>1, <1>2, CallKinds DEF CallKept, Course, MappedAt, Exists, Names
  <2>2. c \in Migration => Left(c)' /\ Private(c)' /\ Held(c)'
    BY <1>1, <1>2 DEF CallKept, Left, Private, Held, Exists, Names
  <2> QED BY <2>1, <2>2
<1>4. c \in Renewal => Renewing(c)'
  BY <1>1 DEF CallKept, Renewing, MappedAt, Names
<1>5. Speaks(c)' => /\ Agrees(call[c].h, n, i)'
                    /\ c \notin Migration => Backed(call[c].h)'
  BY <1>1, <1>2 DEF CallKept, Agrees, Backed, Names
<1>6. call'[c].pin # None => /\ call'[c].pc \in OwnerStep \cup {"unmap"}
                             /\ obj[call'[c].pin].node = call[c].h.owner
  BY <1>1 DEF CallKept, MappedAt, OwnerStep
<1> QED BY <1>1, <1>3, <1>4, <1>5, <1>6 DEF CallKept, Dated

LEMMA ArriveBacks ==
    ASSUME TypeOK, TypeOK', Refs, NEW n, NEW i, Kept(n, i), NEW c \in Call,
           Arrive(c)
    PROVE  Kept(n, i)'
<1>1. /\ call \in [Call -> CallState] /\ call[c] \in CallState
      /\ call[c].pc \in OwnerStep /\ call[c].pin = None
      /\ UNCHANGED <<inc, table, gossip, peer>>
  BY DEF TypeOK, Arrive, leader
<1>2. CASE Fails(c)
  BY <1>1, <1>2, FailsBacks DEF OwnerStep
<1>3. CASE ~Fails(c)
  <2>1. obj' = obj
    BY <1>3 DEF Arrive
  <2>2. \/ \E o \in MappedAt(call[c].h.owner) : call' = [call EXCEPT ![c].pin = o]
        \/ call[c].pc = "free" /\ call' = [call EXCEPT ![c].pc = "unmap"]
    BY <1>3 DEF Arrive
  <2>3. /\ Only(c) /\ call'[c].h = call[c].h /\ call'[c].src = call[c].src
        /\ call'[c].prev = call[c].prev
        /\ \/ /\ call'[c].pc = call[c].pc
              /\ call'[c].pin \in MappedAt(call[c].h.owner)
           \/ /\ call[c].pc = "free" /\ call'[c].pc = "unmap"
              /\ call'[c].pin = call[c].pin
    BY <1>1, <2>2 DEF Only, CallState, MappedAt, Step
  <2>4. CallKept(c, n, i)'
    BY <1>1, <2>1, <2>3, WaitBacks
  <2>5. c # Origin => table.owner # None
    BY <1>1, UnderWay DEF OwnerStep
  <2> QED
    BY <1>1, <2>1, <2>3, <2>4, <2>5, StillBacks DEF Kept, Beginning, OwnerStep
<1> QED BY <1>2, <1>3

LEMMA FreeCheckBacks ==
    ASSUME TypeOK, TypeOK', Refs, NEW n, NEW i, Kept(n, i), NEW c \in Call,
           FreeCheck(c)
    PROVE  Kept(n, i)'
<1>1. /\ call \in [Call -> CallState] /\ call[c] \in CallState
      /\ call[c].pc = "free" /\ call' = [call EXCEPT ![c].pc = "unmap"]
      /\ UNCHANGED <<inc, table, obj, gossip, peer>>
  BY DEF TypeOK, FreeCheck, Pinned, leader
<1>2. /\ Only(c) /\ call'[c].h = call[c].h /\ call'[c].src = call[c].src
      /\ call'[c].prev = call[c].prev /\ call'[c].pin = call[c].pin
      /\ call'[c].pc = "unmap"
  BY <1>1 DEF Only, CallState, Step
<1>3. CallKept(c, n, i)'
  BY <1>1, <1>2, WaitBacks
<1>4. c # Origin => table.owner # None
  BY <1>1, UnderWay
<1> QED BY <1>1, <1>2, <1>3, <1>4, StillBacks

(* The entry as it is stays vouched for when copies stay steady. *)
LEMMA EntryBacks ==
    ASSUME TypeOK, TypeOK', NEW n, NEW i, Kept(n, i), NEW c,
           inc' = inc, table' = table, Steady(c)
    PROVE  /\ EntryStays /\ Vouched(table, n, i)'
           /\ table'.owner # None => table'.lease > 0
<1>1. Vouched(table, n, i) /\ table \in Handle /\ EntryStays
  BY EntryFields DEF Kept, EntriesKept, EntryStays
<1>2. PICK t \in Handle : t = table
  BY <1>1
<1>3. Vouched(t, n, i)'
  BY <1>1, <1>2, VouchedStays DEF Vouched
<1> QED BY <1>1, <1>2, <1>3 DEF Kept, EntriesKept

LEMMA WriteChunksBacks ==
    ASSUME TypeOK, TypeOK', Refs, NEW n, NEW i, Kept(n, i), NEW c \in Call,
           WriteChunks(c)
    PROVE  Kept(n, i)'
<1>1. /\ call[c].pc = "write" /\ UNCHANGED <<inc, table, gossip, peer>>
      /\ call[c].h \in Handle /\ obj \in [Obj -> Object]
      /\ CallKept(c, n, i)
  BY CallFields DEF WriteChunks, Pinned, leader, TypeOK, Kept
<1>2. CASE Fails(c)
  BY <1>1, <1>2, FailsBacks
<1>3. CASE ~Fails(c)
  <2>1. PICK o \in Obj : /\ obj' = [obj EXCEPT ![o].full = TRUE]
                         /\ Advance(c, IF c = Origin THEN "toCommit" ELSE "commit",
                                    call[c].h)
    BY <1>3, PinnedObject DEF WriteChunks, Pinned
  <2>2. \A q \in Obj :
          /\ obj'[q].node = obj[q].node /\ obj'[q].gen = obj[q].gen
          /\ obj'[q].lease = obj[q].lease /\ obj'[q].mapped = obj[q].mapped
          /\ obj'[q].state = obj[q].state
          /\ obj'[q].published = obj[q].published
          /\ obj[q].full => obj'[q].full
    BY <1>1, <2>1 DEF Object
  <2>3. Steady(c) /\ Steady(None)
    BY <2>2, SameSteady
  <2>4. ReadyFull'
    BY <2>2 DEF Kept, CopiesKept, ReadyFull
  <2>5. PICK next \in {"toCommit", "commit"} :
          /\ next = IF c = Origin THEN "toCommit" ELSE "commit"
          /\ Advance(c, next, call[c].h)
    BY <2>1
  <2>6. Only(c)
    BY <1>1, <2>5, AdvanceEnds, StepNames DEF Ended
  <2>7. c # Origin => table.owner # None
    BY <1>1, UnderWay
  <2>8. c = Origin => table.owner # None
    BY <1>1 DEF Kept, Beginning
  <2>9. c = Origin \/ c \in Migration
    BY <1>1, StepsOf DEF Call, Refs, CallRole, Quiet, Ended
  <2>10. CallKept(c, n, i)'
    <3>1. CASE call'[c].pc \in Ended
      BY <1>1, <2>5, <3>1, AdvanceEnds, StepNames, EndedBacks DEF Ended
    <3>2. CASE call'[c].pc \notin Ended
      <4>1. /\ call'[c].pc = next /\ call'[c].h = call[c].h
            /\ call'[c].src = call[c].src /\ call'[c].pin = None
            /\ call'[c].prev = call[c].prev
        BY <1>1, <2>5, <3>2, AdvanceEnds, StepNames DEF Ended
      <4>2. CASE c = Origin
        <5>1. Speaks(c) /\ Agrees(call[c].h, n, i) /\ Backed(call[c].h)
          BY <1>1, <4>2, CallKinds DEF Speaks, CallKept
        <5>2. Agrees(call[c].h, n, i)' /\ Backed(call[c].h)'
          <6>1. PICK h \in Handle : h = call[c].h
            BY <1>1
          <6>2. Agrees(h, n, i)' /\ Backed(h)'
            BY <1>1, <2>3, <5>1, <6>1, BackedStays, EntryBacks
            DEF Kept, EntriesKept, Vouched
          <6> QED BY <4>1, <6>1, <6>2
        <5> QED BY <1>1, <4>1, <4>2, <5>2, CallKinds DEF CallKept, Dated
      <4>3. CASE c \in Migration
        <5>1. /\ Course(c) /\ Left(c) /\ Private(c) /\ Held(c) /\ c \in Obj
              /\ c \notin Renewal /\ c # Origin /\ next = "commit"
              /\ call[c].src \in Obj \cup {None}
          BY <1>1, <2>5, <4>3, CallKinds, CallFields DEF CallKept
        <5>2. /\ Building(c) /\ Building(c)' /\ ~Leaves(c)' /\ ~Discarding(c)'
              /\ ~Speaks(c)'
          BY <1>1, <4>1, <5>1 DEF Building, Leaves, Discarding, Speaks
        <5>3. Names(call[c].h, c)' <=> Names(call[c].h, c)
          BY <1>1, <2>2, <4>1, <5>1 DEF Names
        <5>4. Course(c)'
          BY <1>1, <2>2, <4>1, <5>1, <5>2, <5>3 DEF Course, Exists
        <5>5. Left(c)' /\ Private(c)'
          BY <1>1, <2>2, <4>1, <5>1, <5>2 DEF Left, Private, Names
        <5>6. Held(c)'
          BY <1>1, <2>2, <4>1, <5>1, <5>2 DEF Held, Exists
        <5> QED
          BY <1>1, <4>1, <5>1, <5>2, <5>4, <5>5, <5>6 DEF CallKept, Dated
      <4> QED BY <2>9, <4>2, <4>3
    <3> QED BY <3>1, <3>2
  <2>11. call'[c].pc \in {next, "failed", "denied"}
    BY <1>1, <2>5, AdvanceEnds, StepNames DEF Ended
  <2> QED
    BY <1>1, <2>2, <2>3, <2>4, <2>6, <2>7, <2>8, <2>10, <2>11, EntryBacks,
       SoloBacks
<1> QED BY <1>2, <1>3

(* The handler has met the copy that its request was issued for. *)
LEMMA OwnCopyPinned ==
    ASSUME TypeOK, NEW c \in Call, OwnCopy(c), call[c].pin # None
    PROVE  /\ c \in Obj => call[c].pin \in {c, call[c].src}
           /\ c \in Renewal => /\ obj[call[c].pin].gen = call[c].h.gen
                               /\ inc[obj[call[c].pin].node] = call[c].h.inc
BY ConstantsAssumption DEF OwnCopy, HandleOf, Obj, Call

LEMMA CommitBacks ==
    ASSUME TypeOK, TypeOK', Refs, Generations, NEW n, NEW i, Kept(n, i),
           NEW c \in Call, Commit(c), ~crossed'
    PROVE  Kept(n, i)'
<1>1. /\ call[c].pc = "commit" /\ UNCHANGED <<inc, table, gossip, peer>>
      /\ call[c].h \in Handle /\ obj \in [Obj -> Object]
      /\ CallKept(c, n, i) /\ call[c].pin # None
      /\ OwnCopy(c)
  BY CallFields DEF Commit, Pinned, leader, TypeOK, Kept
<1>2. CASE Fails(c)
  BY <1>1, <1>2, FailsBacks
<1>3. CASE ~Fails(c)
  <2>1. PICK o \in Obj :
          /\ o = call[c].pin /\ HandleOf(o) \in Handle /\ Exists(o)
          /\ obj[o].lease > 0 /\ obj[o].full
          /\ obj' = [obj EXCEPT ![o].state = "Ready"]
          /\ \/ Advance(c, AfterCommit(c), [HandleOf(o) EXCEPT !.state = "Ready"])
             \/ Discards(c) /\ call' = [call EXCEPT ![c].pc = "free", ![c].pin = None]
    BY <1>1, <1>3, PinnedObject DEF Commit, Authorized, Exists
  <2>2. \A q \in Obj :
          /\ obj'[q].node = obj[q].node /\ obj'[q].gen = obj[q].gen
          /\ obj'[q].lease = obj[q].lease /\ obj'[q].mapped = obj[q].mapped
          /\ obj'[q].state = IF q = o THEN "Ready" ELSE obj[q].state
          /\ obj'[q].published = obj[q].published
          /\ obj'[q].full = obj[q].full
    BY <1>1, <2>1 DEF Object
  <2>3. Steady(c)
    BY <2>2, SameSteady
  <2>4. ReadyFull'
    BY <2>1, <2>2 DEF Kept, CopiesKept, ReadyFull
  <2>5. c = Origin \/ c \in Migration
    BY <1>1, StepsOf DEF Call, Refs, CallRole, Quiet, Ended
  <2>6. (c # Origin => table.owner # None) /\ (c = Origin => table.owner # None)
    BY <1>1, UnderWay DEF Kept, Beginning
  <2>7. o = c
    <3>1. call[c].src # None /\ c \in Migration => obj[call[c].src].node # call[c].h.owner
      BY <1>1 DEF CallKept, Course
    <3>2. c \in Obj /\ (c = Origin => call[c].src = None) /\ o # None
      BY <1>1, <2>5, CallKinds DEF CallKept
    <3>3. obj[o].node = call[c].h.owner
      BY <1>1, <2>1 DEF CallKept
    <3> QED BY <1>1, <2>1, <2>5, <3>1, <3>2, <3>3, OwnCopyPinned
  <2>8. PICK h \in Handle :
          /\ h = [HandleOf(o) EXCEPT !.state = "Ready"]
          /\ h.owner = obj[o].node /\ h.inc = inc[obj[o].node]
          /\ h.gen = obj[o].gen /\ h.lease = obj[o].lease /\ h.state = "Ready"
    BY <2>1, ReturnedHandles
  <2>9. ASSUME Advance(c, AfterCommit(c), h)
        PROVE  /\ Only(c) /\ CallKept(c, n, i)'
               /\ call'[c].pc \in {AfterCommit(c), "failed", "denied"}
    <3>1. /\ Only(c) /\ call'[c].pin = None
          /\ \/ /\ call'[c].pc \in {"failed", "denied"} /\ call'[c].src = None
                /\ call'[c].h = NoHandle
             \/ /\ call'[c].pc = AfterCommit(c) /\ call'[c].h = h
                /\ call'[c].src = call[c].src /\ call'[c].prev = call[c].prev
      BY <2>8, <2>9, AdvanceEnds, StepNames DEF AfterCommit, Ended
    <3>2. CASE call'[c].pc \in {"failed", "denied"} /\ call'[c].src = None
                 /\ call'[c].h = NoHandle
      BY <3>1, <3>2, EndedBacks DEF Ended
    <3>3. CASE c = Origin /\ call'[c].pc = "register" /\ call'[c].h = h
                 /\ call'[c].src = call[c].src
      <4>1. Agrees(h, n, i)'
        <5>1. Agrees(HandleOf(o), n, i)
          BY <2>1, <2>7, <3>3 DEF Kept, CopiesKept
        <5> QED BY <1>1, <2>8, <5>1 DEF Agrees, HandleOf
      <4>2. Backed(h)'
        <5> SUFFICES ASSUME h.gen = table.gen
                     PROVE  /\ \E q \in Obj : obj'[q].mapped /\ Names(h, q)'
                            /\ \A q \in Obj : obj'[q].mapped /\ Names(h, q)' =>
                                 obj'[q].lease >= h.lease /\ obj'[q].state = "Ready"
          BY <1>1 DEF Backed
        <5>1. Agrees(table, n, i) /\ Backed(table) /\ table.lease > 0
          BY <2>6 DEF Kept, EntriesKept, Vouched
        <5>2. Names(table, o)
          BY <1>1, <2>1, <2>6, <2>8, <4>1, <5>1 DEF Agrees, Names, Exists
        <5>3. PICK q \in Obj : obj[q].mapped /\ Names(table, q)
          BY <2>6, <5>1, <5>2 DEF Backed, Names
        <5>4. obj[o].gen = 0
          BY <2>1, <2>7, <3>3 DEF Kept, CopiesKept
        <5>5. \A k \in Obj : Exists(k) /\ obj[k].gen = 0 => k = o
          BY <2>7, <3>3 DEF Generations
        <5>6. q = o
          BY <5>2, <5>3, <5>4, <5>5, <2>1 DEF Names, Exists
        <5>7. Names(h, o)' /\ obj'[o].mapped
          BY <1>1, <2>2, <2>8, <5>3, <5>6 DEF Names
        <5>8. ASSUME NEW k \in Obj, obj'[k].mapped, Names(h, k)'
              PROVE  k = o
          <6>1. obj[k].gen = 0 /\ Exists(k)
            BY ZenonT(60), <2>1, <2>2, <2>8, <5>4, <5>8 DEF Names, Exists
          <6> QED BY <5>5, <6>1
        <5>9. obj'[o].lease >= h.lease /\ obj'[o].state = "Ready"
          BY <2>2, <2>8, CopyFields
        <5> QED BY <5>7, <5>8, <5>9
      <4>3. Dated(h)'
        BY <1>1, <2>1, <2>8, CopyFields, EntryFields DEF Dated, Exists
      <4> QED BY <1>1, <3>1, <3>3, <4>1, <4>2, <4>3, CallKinds DEF CallKept
    <3>4. CASE c \in Migration /\ call'[c].pc = "cas" /\ call'[c].h = h
                 /\ call'[c].src = call[c].src /\ call'[c].prev = call[c].prev
      <4>1. /\ Course(c) /\ Private(c) /\ Held(c) /\ c \in Obj
            /\ c \notin Renewal /\ c # Origin
            /\ call[c].src \in Obj \cup {None}
        BY <1>1, <3>4, CallKinds, CallFields DEF CallKept
      <4>2. /\ Building(c) /\ Building(c)' /\ ~Leaves(c)' /\ ~Discarding(c)'
            /\ ~Speaks(c)'
        BY <1>1, <3>4, <4>1 DEF Building, Leaves, Discarding, Speaks
      <4>3. Names(call[c].h, c)' /\ h.owner = call[c].h.owner
        BY <1>1, <2>1, <2>2, <2>7, <2>8, <3>4 DEF Names, CallKept
      <4>4. Course(c)'
        BY <1>1, <2>2, <3>4, <4>1, <4>2, <4>3 DEF Course, Exists
      <4>5. Left(c)' /\ Private(c)'
        BY <1>1, <2>2, <3>4, <4>1, <4>2 DEF Left, Private, Names
      <4>6. Held(c)'
        BY <1>1, <2>1, <2>2, <2>7, <2>8, <3>4, <4>1, <4>2, CopyFields
        DEF Held, Exists
      <4>7. Dated(h)'
        BY <1>1, <2>1, <2>8, CopyFields, EntryFields DEF Dated, Exists
      <4> QED
        BY <3>1, <3>4, <4>1, <4>2, <4>4, <4>5, <4>6, <4>7 DEF CallKept, Dated
    <3> QED BY <2>5, <3>1, <3>2, <3>3, <3>4, CallKinds DEF AfterCommit
  <2>10. ASSUME Discards(c), call' = [call EXCEPT ![c].pc = "free", ![c].pin = None]
         PROVE  Only(c) /\ CallKept(c, n, i)' /\ call'[c].pc = "free" /\ c # Origin
    <3>1. call \in [Call -> CallState] /\ c \in Migration
      BY <2>10 DEF TypeOK, Discards
    <3>2. /\ Only(c) /\ call'[c].pc = "free" /\ call'[c].h = call[c].h
          /\ call'[c].src = call[c].src /\ call'[c].pin = None
      BY <2>10, <3>1 DEF TypeOK, Only, CallState
    <3> QED BY <1>1, <2>2, <3>1, <3>2, DiscardBacks, CallKinds
  <2>11. /\ Only(c) /\ CallKept(c, n, i)'
         /\ c = Origin => call'[c].pc \notin {"idle", "alloc"}
    BY <2>1, <2>8, <2>9, <2>10, CallKinds DEF AfterCommit
  <2> QED
    BY <1>1, <2>2, <2>3, <2>4, <2>6, <2>11, EntryBacks, SoloBacks
<1> QED BY <1>2, <1>3

LEMMA RenewBacks ==
    ASSUME TypeOK, TypeOK', Refs, NEW n, NEW i, Kept(n, i), NEW c \in Call,
           Renew(c), ~crossed'
    PROVE  Kept(n, i)'
<1>1. /\ call[c].pc = "renew" /\ UNCHANGED <<inc, table, gossip, peer>>
      /\ call[c].h \in Handle /\ obj \in [Obj -> Object]
      /\ CallKept(c, n, i) /\ call[c].pin # None
      /\ OwnCopy(c)
  BY CallFields DEF Renew, Pinned, leader, TypeOK, Kept
<1>2. CASE Fails(c)
  BY <1>1, <1>2, FailsBacks
<1>3. CASE ~Fails(c)
  <2>1. PICK o \in Obj :
          /\ o = call[c].pin /\ HandleOf(o) \in Handle /\ Exists(o)
          /\ obj[o].lease > 0
          /\ obj' = [obj EXCEPT ![o].lease = Lease]
          /\ Advance(c, "register", [HandleOf(o) EXCEPT !.lease = Lease])
    BY <1>1, <1>3, PinnedObject DEF Renew, Authorized, Exists
  <2>2. \A q \in Obj :
          /\ obj'[q].node = obj[q].node /\ obj'[q].gen = obj[q].gen
          /\ obj'[q].lease = IF q = o THEN Lease ELSE obj[q].lease
          /\ obj'[q].mapped = obj[q].mapped
          /\ obj'[q].state = obj[q].state
          /\ obj'[q].published = obj[q].published
          /\ obj'[q].full = obj[q].full
          /\ obj[q].lease \in 0..Lease
    BY <1>1, <2>1 DEF Object
  <2>3. Steady(c)
    BY <2>1, <2>2, ConstantsAssumption DEF Steady
  <2>4. ReadyFull'
    BY <2>2 DEF Kept, CopiesKept, ReadyFull
  <2>5. c \in Renewal /\ c # Origin /\ c \notin Migration
    BY <1>1, StepsOf, CallKinds DEF Call, Refs, CallRole, Quiet, Ended
  <2>6. table.owner # None
    BY <1>1, <2>5, UnderWay
  <2>7. /\ obj[o].node = call[c].h.owner /\ obj[o].gen = call[c].h.gen
        /\ inc[obj[o].node] = call[c].h.inc
        /\ call[c].src = None
        /\ Agrees(call[c].h, n, i) /\ Renewing(c)
    BY <1>1, <2>1, <2>5, OwnCopyPinned DEF CallKept, Speaks
  <2>8. PICK h \in Handle :
          /\ h = [HandleOf(o) EXCEPT !.lease = Lease]
          /\ h.owner = obj[o].node /\ h.inc = inc[obj[o].node]
          /\ h.gen = obj[o].gen /\ h.lease = Lease /\ h.state = obj[o].state
    BY <2>1, ReturnedHandles
  <2>9. /\ Only(c) /\ call'[c].pin = None
        /\ \/ /\ call'[c].pc \in {"failed", "denied"} /\ call'[c].src = None
              /\ call'[c].h = NoHandle
           \/ /\ call'[c].pc = "register" /\ call'[c].h = h
              /\ call'[c].src = None
    BY <2>1, <2>7, <2>8, AdvanceEnds, StepNames DEF Ended
  <2>10. CallKept(c, n, i)'
    <3>1. CASE call'[c].pc \in {"failed", "denied"} /\ call'[c].src = None
                 /\ call'[c].h = NoHandle
      BY <2>9, <3>1, EndedBacks DEF Ended
    <3>2. CASE call'[c].pc = "register" /\ call'[c].h = h /\ call'[c].src = None
      <4>1. Agrees(h, n, i)'
        BY <1>1, <2>7, <2>8 DEF Agrees
      <4>2. ASSUME h.gen = table.gen
            PROVE  obj[o].mapped
        BY <1>1, <2>1, <2>7, <2>8, <4>2 DEF Renewing, Names
      <4>3. \A q \in Obj : obj'[q].mapped /\ Names(h, q)' /\ obj[o].mapped => q = o
        BY ZenonT(60), <1>1, <2>2, <2>8 DEF Kept, CopiesKept, MappedOnce, Names
      <4>4. Names(h, o)'
        BY <1>1, <2>2, <2>8 DEF Names
      <4>5. Backed(h)'
        BY <1>1, <2>2, <2>8, <4>2, <4>3, <4>4, ConstantsAssumption DEF Backed
      <4>6. Dated(h)'
        BY <1>1, <2>1, <2>8, CopyFields, EntryFields, ConstantsAssumption
        DEF Dated, Exists
      <4>7. Renewing(c)'
        BY <3>2 DEF Renewing
      <4> QED BY <2>5, <2>9, <3>2, <4>1, <4>5, <4>6, <4>7 DEF CallKept
    <3> QED BY <2>9, <3>1, <3>2
  <2> QED
    BY <1>1, <2>2, <2>3, <2>4, <2>5, <2>6, <2>9, <2>10, EntryBacks, SoloBacks
<1> QED BY <1>2, <1>3

(* What a migration takes out of a map is a source that the table has left *)
(* behind or a destination that it does not name.                          *)
LEMMA UnmapBacks ==
    ASSUME TypeOK, TypeOK', Refs, NEW n, NEW i, Kept(n, i), NEW c \in Call,
           Unmap(c), ~crossed', c \notin Release
    PROVE  Kept(n, i)'
<1>1. /\ call[c].pc = "unmap" /\ UNCHANGED <<inc, table, gossip, peer>>
      /\ call[c].h \in Handle /\ obj \in [Obj -> Object]
      /\ CallKept(c, n, i) /\ OwnCopy(c) /\ Advance(c, "done", call[c].h)
  BY CallFields DEF Unmap, leader, TypeOK, Kept
<1>2. c \in Migration /\ c \in Obj /\ c # Origin
  BY <1>1, StepsOf, CallKinds DEF Call, Refs, CallRole, Quiet, Ended
<1>3. table.owner # None
  BY <1>1, <1>2, UnderWay
<1>4. \A q \in Obj :
        /\ obj'[q].node = obj[q].node /\ obj'[q].gen = obj[q].gen
        /\ obj'[q].lease = obj[q].lease
        /\ obj'[q].mapped = (obj[q].mapped /\ q # call[c].pin)
        /\ obj'[q].state = obj[q].state
        /\ obj'[q].published = obj[q].published
        /\ obj'[q].full = obj[q].full
  BY <1>1 DEF Unmap, Unlocked, Object
<1>5. /\ Only(c) /\ call'[c].pin = None /\ call'[c].src = None
      /\ call'[c].pc \in Ended /\ call'[c].h = NoHandle
  BY <1>1, DoneEnds
<1>6. CallKept(c, n, i)'
  BY <1>5, EndedBacks
<1>7. ASSUME call[c].pin # None, obj[call[c].pin].mapped
      PROVE  /\ ~Names(table, call[c].pin)
             /\ call[c].pin # c => obj[call[c].pin].gen < table.gen
  <2>1. call[c].pin \in {c, call[c].src} /\ obj[call[c].pin].node = call[c].h.owner
    BY <1>1, <1>2, <1>7, OwnCopyPinned DEF CallKept
  <2>2. Course(c) /\ Private(c) /\ Left(c)
    BY <1>1, <1>2 DEF CallKept
  <2>3. CASE call[c].pin = c
    <3>1. Exists(c)
      BY <1>2, <1>7, <2>3, CopyFields DEF Refs, MappedExist, Exists
    <3>2. Discarding(c)
      BY <1>1, <2>1, <2>2, <2>3, <3>1 DEF Course, Leaves, Discarding
    <3> QED BY <1>7, <2>2, <2>3, <3>2 DEF Private
  <2>4. CASE call[c].pin = call[c].src
    <3>1. Leaves(c)
      BY <1>1, <1>7, <2>1, <2>4 DEF Leaves
    <3>2. PICK s \in Obj : s = call[c].src
      BY <1>7, <2>4, CallFields
    <3>3. obj[s].gen < table.gen /\ obj[s].gen \in Nat /\ table.gen \in Nat
      BY <2>2, <3>1, <3>2, CopyFields, EntryFields DEF Left
    <3> QED BY <2>4, <3>2, <3>3 DEF Names
  <2> QED BY <2>1, <2>3, <2>4
<1>8. Steady(c)
  BY <1>3, <1>4, <1>7, CopyFields, CallKinds DEF Steady
<1>9. ReadyFull'
  BY <1>4 DEF Kept, CopiesKept, ReadyFull
<1> QED
  BY <1>1, <1>2, <1>3, <1>4, <1>5, <1>6, <1>8, <1>9, EntryBacks, SoloBacks

(* A copy whose lease has run out leaves its map. *)
LEMMA ExpireBacks ==
    ASSUME TypeOK, TypeOK', Refs, NEW n, NEW i, Kept(n, i), NEW o \in Obj,
           Expire(o)
    PROVE  Kept(n, i)'
<1>1. /\ UNCHANGED <<inc, table, gossip, peer, call>> /\ obj \in [Obj -> Object]
      /\ obj' = [obj EXCEPT ![o].mapped = FALSE] /\ obj[o].lease = 0
  BY DEF Expire, leader, TypeOK
<1>2. \A q \in Obj :
        /\ obj'[q].node = obj[q].node /\ obj'[q].gen = obj[q].gen
        /\ obj'[q].lease = obj[q].lease
        /\ obj'[q].mapped = (obj[q].mapped /\ q # o)
        /\ obj'[q].state = obj[q].state
        /\ obj'[q].published = obj[q].published
        /\ obj'[q].full = obj[q].full
  BY <1>1 DEF Object
<1>3. Steady(None)
  BY <1>1, <1>2, CopyFields DEF Steady
<1>4. EntryStays
  BY <1>1 DEF EntryStays
<1>5. \A d \in Call : CallKept(d, n, i)'
  BY <1>1, <1>3, <1>4, OtherBacks, CallKinds
<1>6. EntriesKept(n, i)'
  <2>1. ASSUME NEW m \in gossip PROVE Vouched(m.h, n, i)'
    <3>1. PICK h \in Handle : h = m.h
      BY EntryFields
    <3>2. Vouched(h, n, i)'
      BY <1>1, <1>3, <1>4, <3>1, VouchedStays DEF Kept, EntriesKept, Vouched
    <3> QED BY <3>1, <3>2
  <2>2. Vouched(table, n, i)' /\ (table'.owner # None => table'.lease > 0)
    BY <1>1, <1>3, EntryBacks
  <2> QED BY <1>1, <2>1, <2>2 DEF Kept, EntriesKept
<1>7. \A q \in Obj : Exists(q)' <=> Exists(q)
  BY <1>2 DEF Exists
<1>8. CopiesKept(n, i)'
  <2>1. MappedOnce' /\ ReadyFull'
    BY <1>2 DEF Kept, CopiesKept, MappedOnce, ReadyFull
  <2>2. ASSUME NEW q \in Obj, Exists(q), obj[q].published
        PROVE  Agrees(HandleOf(q), n, i)'
    <3>1. Agrees(HandleOf(q), n, i)
      BY <2>2 DEF Kept, CopiesKept
    <3> QED BY <1>1, <1>2, <3>1 DEF HandleOf, Agrees
  <2> QED BY <1>2, <1>7, <2>1, <2>2, CallKinds DEF Kept, CopiesKept
<1>9. Beginning'
  BY <1>1, <1>7, CallKinds DEF Kept, Beginning
<1> QED BY <1>5, <1>6, <1>8, <1>9 DEF Kept

LEMMA MigrateBacks ==
    ASSUME TypeOK, TypeOK', Refs, NEW n, NEW i, Kept(n, i), NEW c \in Call,
           Migrate(c)
    PROVE  Kept(n, i)'
<1>1. /\ call \in [Call -> CallState] /\ call[c] \in CallState
      /\ call[c].pc = "picked" /\ UNCHANGED <<inc, table, gossip, peer>>
      /\ CallKept(c, n, i)
  BY DEF TypeOK, Migrate, leader, Kept
<1>2. CASE Fails(c)
  BY <1>1, <1>2, FailsBacks
<1>3. CASE ~Fails(c)
  <2>1. PICK o \in Obj : call' = [call EXCEPT ![c].pc = "lock", ![c].src = o]
    BY <1>3 DEF Migrate, MappedAt
  <2>2. obj' = obj
    BY <1>3 DEF Migrate
  <2>3. /\ Only(c) /\ call'[c].h = call[c].h /\ call'[c].src = o
        /\ call'[c].pin = call[c].pin /\ call'[c].pc = "lock"
    BY <1>1, <2>1 DEF Only, CallState, Step, LocalStep
  <2>4. c \in Migration /\ c \in Obj /\ c # Origin /\ c \notin Renewal
    BY <1>1, StepsOf, CallKinds DEF Call, Refs, CallRole, Quiet, Ended
  <2>5. ~Exists(c) /\ call[c].pin = None
    BY <1>1, <2>4 DEF CallKept, Course, OwnerStep
  <2>6. /\ ~Speaks(c)' /\ ~Building(c)' /\ ~Leaves(c)' /\ ~Discarding(c)'
        /\ ~Exists(c)'
    BY <2>2, <2>3, <2>4, <2>5 DEF Speaks, Building, Leaves, Discarding, Exists
  <2>7. Course(c)' /\ Left(c)'
    BY <2>3, <2>6 DEF Course, Left
  <2>8. Private(c)' /\ Held(c)'
    BY <2>3, <2>6 DEF Private, Held
  <2>9. CallKept(c, n, i)'
    BY <1>1, <2>3, <2>4, <2>5, <2>6, <2>7, <2>8 DEF CallKept, Dated
  <2>10. table.owner # None
    BY <1>1, <2>4, UnderWay
  <2> QED BY <1>1, <2>2, <2>3, <2>4, <2>9, <2>10, StillBacks
<1> QED BY <1>2, <1>3

LEMMA LockSourceBacks ==
    ASSUME TypeOK, TypeOK', Refs, NEW n, NEW i, Kept(n, i), NEW c \in Call,
           NEW dst \in Node, LockSource(c, dst)
    PROVE  Kept(n, i)'
<1>1. /\ call \in [Call -> CallState] /\ call[c] \in CallState
      /\ obj \in [Obj -> Object]
      /\ call[c].pc = "lock" /\ UNCHANGED <<inc, table, gossip, peer>>
      /\ CallKept(c, n, i) /\ call[c].live
  BY DEF TypeOK, LockSource, leader, Kept, Refs, CallHolds, LocalStep
<1>2. c \in Migration /\ c \in Obj /\ c # Origin /\ c \notin Renewal
  BY <1>1, StepsOf, CallKinds DEF Call, Refs, CallRole, Quiet, Ended
<1>3. PICK s \in Obj : s = call[c].src
  BY <1>1, <1>2, CallFields DEF Refs, CallHolds, Quiet, Ended
<1>4. table.owner # None
  BY <1>1, <1>2, UnderWay
<1>5. CASE Fails(c)
  BY <1>1, <1>5, FailsBacks
<1>6. CASE ~Fails(c)
  <2>1. PICK h : h = [owner |-> dst, inc |-> inc[dst], gen |-> obj[s].gen + 1,
                      state |-> "Writing", lease |-> Lease]
    OBVIOUS
  <2>2. /\ dst # obj[s].node /\ obj' = [obj EXCEPT ![s].lock = c]
        /\ call' = [call EXCEPT ![c].pc = "alloc", ![c].prev = obj[s].gen,
                                ![c].h = h]
    BY <1>3, <1>6, <2>1 DEF LockSource
  <2>3. /\ call'[c].h = h /\ call'[c].src = s /\ call'[c].prev = obj[s].gen
        /\ call'[c].pin = call[c].pin /\ call'[c].pc = "alloc"
        /\ \A d \in Call : d # c => call'[d] = call[d]
    BY <1>1, <1>3, <2>2 DEF CallState
  <2>4. \A q \in Obj :
          /\ obj'[q].node = obj[q].node /\ obj'[q].gen = obj[q].gen
          /\ obj'[q].lease = obj[q].lease /\ obj'[q].mapped = obj[q].mapped
          /\ obj'[q].state = obj[q].state
          /\ obj'[q].published = obj[q].published
          /\ obj'[q].full = obj[q].full
    BY <1>1, <2>2 DEF Object
  <2>5. ~Exists(c) /\ call[c].pin = None
    BY <1>1, <1>2 DEF CallKept, Course, OwnerStep
  <2>6. /\ ~Speaks(c)' /\ ~Building(c)' /\ ~Leaves(c)' /\ ~Discarding(c)'
        /\ ~Exists(c)'
    BY <1>2, <2>3, <2>4, <2>5 DEF Speaks, Building, Leaves, Discarding, Exists
  <2>7. Course(c)' /\ Left(c)'
    BY <2>1, <2>2, <2>3, <2>4, <2>6 DEF Course, Left
  <2>8. Private(c)' /\ Held(c)'
    BY <2>3, <2>6 DEF Private, Held
  <2>9. Dated(h)'
    BY <1>1, <2>1, EntryFields, ConstantsAssumption DEF Dated
  <2>10. CallKept(c, n, i)'
    BY <1>2, <2>3, <2>5, <2>6, <2>7, <2>8, <2>9 DEF CallKept, Dated
  <2>11. Only(c) /\ Steady(c) /\ ReadyFull'
    BY <2>3, <2>4, SameSteady DEF Only, TypeOK, Kept, CopiesKept, ReadyFull
  <2> QED
    BY <1>1, <1>2, <1>4, <2>4, <2>10, <2>11, EntryBacks, SoloBacks
<1> QED BY <1>5, <1>6

(* Publish follows the compare-and-set, so what it publishes is the copy   *)
(* that the table names, or one that the table has left behind.            *)
LEMMA PublishBacks ==
    ASSUME TypeOK, TypeOK', Refs, NEW n, NEW i, Kept(n, i), NEW c \in Call,
           Publish(c), ~crossed'
    PROVE  Kept(n, i)'
<1>1. /\ call[c].pc = "publish" /\ UNCHANGED <<inc, table, gossip, peer>>
      /\ call[c].h \in Handle /\ obj \in [Obj -> Object]
      /\ CallKept(c, n, i) /\ call[c].pin # None
      /\ OwnCopy(c)
  BY CallFields DEF Publish, Pinned, leader, TypeOK, Kept
<1>2. c \in Migration /\ c \in Obj /\ c # Origin /\ c \notin Renewal
  BY <1>1, StepsOf, CallKinds DEF Call, Refs, CallRole, Quiet, Ended
<1>3. table.owner # None
  BY <1>1, <1>2, UnderWay
<1>4. CASE Fails(c)
  BY <1>1, <1>4, FailsBacks
<1>5. CASE ~Fails(c)
  <2>1. PICK o \in Obj :
          /\ o = call[c].pin /\ Exists(o) /\ obj[o].gen = call[c].h.gen
          /\ obj' = [obj EXCEPT ![o].published = TRUE]
          /\ Advance(c, "drop", call[c].h)
    BY <1>1, <1>5, PinnedObject DEF Publish, Exists
  <2>2. \A q \in Obj :
          /\ obj'[q].node = obj[q].node /\ obj'[q].gen = obj[q].gen
          /\ obj'[q].lease = obj[q].lease /\ obj'[q].mapped = obj[q].mapped
          /\ obj'[q].state = obj[q].state
          /\ obj'[q].published = (obj[q].published \/ q = o)
          /\ obj'[q].full = obj[q].full
    BY ZenonT(60), <1>1, <2>1 DEF Object
  <2>3. Steady(c) /\ ReadyFull'
    BY <2>2, SameSteady DEF Kept, CopiesKept, ReadyFull
  <2>4. /\ Course(c) /\ Left(c) /\ Agrees(call[c].h, n, i)
        /\ obj[o].node = call[c].h.owner /\ o \in {c, call[c].src}
        /\ call[c].src \in Obj \cup {None}
    BY <1>1, <1>2, <2>1, OwnCopyPinned, CallFields DEF CallKept, Speaks
  <2>5. Agrees(HandleOf(o), n, i)
    <3>1. CASE o = c
      <4>1. Names(call[c].h, c)
        BY <1>1, <2>1, <2>4, <3>1 DEF Course
      <4> QED BY <2>1, <2>4, <3>1, <4>1 DEF Names, Agrees, HandleOf
    <3>2. CASE o = call[c].src
      <4>1. obj[o].gen < table.gen /\ obj[o].gen \in Nat /\ table.gen \in Nat
        BY <1>1, <2>4, <3>2, CopyFields, EntryFields, CallKinds DEF Left
      <4> QED BY <4>1 DEF Agrees, HandleOf
    <3> QED BY <2>4, <3>1, <3>2
  <2>6. /\ Only(c) /\ call'[c].pin = None
        /\ \/ /\ call'[c].pc \in {"failed", "denied"} /\ call'[c].src = None
              /\ call'[c].h = NoHandle
           \/ /\ call'[c].pc = "drop" /\ call'[c].h = call[c].h
              /\ call'[c].src = call[c].src
    BY <1>1, <2>1, AdvanceEnds, StepNames DEF Ended
  <2>7. CallKept(c, n, i)'
    <3>1. CASE call'[c].pc \in {"failed", "denied"} /\ call'[c].src = None
                 /\ call'[c].h = NoHandle
      BY <2>6, <3>1, EndedBacks DEF Ended
    <3>2. CASE call'[c].pc = "drop" /\ call'[c].h = call[c].h
                 /\ call'[c].src = call[c].src
      <4>1. ~Speaks(c)' /\ ~Building(c)' /\ ~Leaves(c)' /\ ~Discarding(c)'
        BY <1>2, <3>2 DEF Speaks, Building, Leaves, Discarding
      <4>2. Course(c)'
        BY <1>2, <2>2, <2>4, <3>2, <4>1 DEF Course, Exists
      <4>3. Left(c)'
        BY <1>1, <2>2, <2>4, <3>2, <4>1 DEF Left
      <4>4. Private(c)' /\ Held(c)'
        BY <3>2, <4>1 DEF Private, Held
      <4> QED
        BY <1>1, <1>2, <2>6, <3>2, <4>1, <4>2, <4>3, <4>4 DEF CallKept, Dated
    <3> QED BY <2>6, <3>1, <3>2
  <2> QED
    BY <1>1, <1>2, <1>3, <2>2, <2>3, <2>5, <2>6, <2>7, EntryBacks, SoloBacks
<1> QED BY <1>4, <1>5

LEMMA DropSourceBacks ==
    ASSUME TypeOK, TypeOK', Refs, NEW n, NEW i, Kept(n, i), NEW c \in Call,
           DropSource(c)
    PROVE  Kept(n, i)'
<1>1. /\ call \in [Call -> CallState] /\ call[c] \in CallState
      /\ obj' = Unlocked(c) /\ obj \in [Obj -> Object]
      /\ call[c].pc = "drop" /\ UNCHANGED <<inc, table, gossip, peer>>
      /\ CallKept(c, n, i) /\ call[c].live
  BY DEF TypeOK, DropSource, leader, Kept, Refs, CallHolds, LocalStep
<1>2. c \in Migration /\ c \in Obj /\ c # Origin /\ c \notin Renewal
  BY <1>1, StepsOf, CallKinds DEF Call, Refs, CallRole, Quiet, Ended
<1>3. PICK s \in Obj : s = call[c].src /\ Exists(s)
  BY <1>1, <1>2, CallFields DEF Refs, CallHolds, Quiet, Ended, Exists
<1>4. table.owner # None
  BY <1>1, <1>2, UnderWay
<1>5. CASE call' = [call EXCEPT ![c] = Over("done")]
  <2>1. Only(c) /\ call'[c] = Over("done")
    BY <1>1, <1>5, OverType DEF Only, Ended
  <2>2. Over("done").h = NoHandle
    BY DEF Over, IdleCall
  <2> QED BY <1>1, <1>2, <2>1, <2>2, OverType, EndsBacks DEF Ended
<1>6. CASE call' # [call EXCEPT ![c] = Over("done")]
  <2>1. PICK h \in Handle : /\ h = HandleOf(s) /\ h.owner = obj[s].node
                            /\ h.inc = inc[obj[s].node] /\ h.lease = obj[s].lease
    BY <1>3, HandleOfType DEF HandleOf, Exists
  <2>2. PICK o \in MappedAt(obj[s].node) :
          call' = [call EXCEPT ![c].pc = "free", ![c].pin = o, ![c].h = h]
    BY <1>3, <1>6, <2>1 DEF DropSource
  <2>3. o \in Obj /\ obj[o].node = obj[s].node
    BY <2>2 DEF MappedAt
  <2>4. /\ Only(c) /\ call'[c].h = h /\ call'[c].src = s /\ call'[c].pin = o
        /\ call'[c].pc = "free"
    BY <1>1, <1>3, <2>2, <2>3 DEF Only, CallState, Step, OwnerStep
  <2>5. \A q \in Obj : obj'[q].node = obj[q].node /\ obj'[q].gen = obj[q].gen
                         /\ obj'[q].mapped = obj[q].mapped
    BY <1>1 DEF Unlocked, Object
  <2>6. Leaves(c)' /\ ~Speaks(c)' /\ ~Building(c)' /\ ~Discarding(c)'
    BY <1>2, <2>1, <2>4, <2>5, CallKinds
    DEF Leaves, Speaks, Building, Discarding
  <2>7. Course(c)'
    BY <1>1, <1>2, <1>3, <2>3, <2>4, <2>5, <2>6, CallKinds
    DEF CallKept, Course, Exists
  <2>8. Left(c)'
    BY <1>1, <1>2, <1>3, <2>4, <2>5, CallKinds DEF CallKept, Left
  <2>9. Private(c)' /\ Held(c)'
    BY <2>4, <2>6 DEF Private, Held
  <2>10. Dated(h)'
    BY <1>1, <1>3, <2>1, CopyFields, EntryFields DEF Dated, Exists
  <2>11. CallKept(c, n, i)'
    BY <1>2, <2>1, <2>3, <2>4, <2>5, <2>6, <2>7, <2>8, <2>9, <2>10
    DEF CallKept, Dated, OwnerStep
  <2> QED BY <1>1, <1>2, <1>4, <2>4, <2>11, StillBacks
<1> QED BY <1>5, <1>6

LEMMA NotLapsed ==
    ASSUME Lapse, ~lapsed'
    PROVE  table'.owner # None => table'.lease # 0
BY DEF Lapse

(* register, told of a handle that is not ahead of a live entry. *)
LEMMA RegisteredWithin ==
    ASSUME NEW t \in Handle, NEW h \in Handle, t.owner # None, t.lease > 0,
           h.lease >= 0, h.gen <= t.gen
    PROVE  /\ Registered(t, h).gen = t.gen
           /\ h.gen < t.gen => Registered(t, h) = t
           /\ h.gen = t.gen =>
                /\ \/ /\ Registered(t, h).owner = t.owner
                      /\ Registered(t, h).inc = t.inc
                   \/ /\ Registered(t, h).owner = h.owner
                      /\ Registered(t, h).inc = h.inc
                /\ Registered(t, h).lease \in {t.lease, h.lease}
                /\ Registered(t, h).lease >= t.lease
                /\ Registered(t, h).state = "Ready" => "Ready" \in {t.state, h.state}
<1>1. /\ t.lease \in Int /\ h.lease \in Int /\ t.gen \in Nat /\ h.gen \in Nat
      /\ h.lease # Tombstone /\ ~Sealed(t)
  BY HandleFields, ConstantsAssumption DEF LeaseTicks, Tombstone, Sealed
<1>2. CASE h.gen < t.gen
  <2>1. h.gen # t.gen /\ ~Supersedes(h, t)
    BY <1>1, <1>2 DEF Supersedes
  <2>2. Registered(t, h) = t
    BY <1>1, <2>1 DEF Registered
  <2> QED BY <2>1, <2>2
<1>3. CASE h.gen = t.gen
  <2>1. PICK l : l = Larger(t.lease, h.lease)
    OBVIOUS
  <2>2. l \in {t.lease, h.lease} /\ l >= t.lease
    BY <1>1, <2>1 DEF Larger
  <2>3. Registered(t, h) \in {[t EXCEPT !.lease = l], [h EXCEPT !.lease = l]}
    BY <1>1, <1>3, <2>1 DEF Registered, Supersedes
  <2>4. /\ Registered(t, h).lease = l /\ Registered(t, h).gen = t.gen
        /\ \/ /\ Registered(t, h).owner = t.owner /\ Registered(t, h).inc = t.inc
              /\ Registered(t, h).state = t.state
           \/ /\ Registered(t, h).owner = h.owner /\ Registered(t, h).inc = h.inc
              /\ Registered(t, h).state = h.state
    BY <1>3, <2>3 DEF Handle
  <2>5. ~(h.gen < t.gen)
    BY <1>1, <1>3
  <2>6. Registered(t, h).state = "Ready" => "Ready" \in {t.state, h.state}
    BY <2>4
  <2> QED BY <2>2, <2>4, <2>5, <2>6
<1> QED BY <1>1, <1>2, <1>3

(* Whoever vouches for a handle, registering it keeps the entry backed: an *)
(* older one changes nothing, one of the entry's generation names the same *)
(* copy.  t is the entry, marked lost or not.                              *)
LEMMA VoiceRegistered ==
    ASSUME TypeOK, TypeOK', NEW n, NEW i, Kept(n, i),
           inc' = inc, obj' = obj, NEW t \in Handle,
           t.owner = table.owner, t.inc = table.inc, t.gen = table.gen,
           t.lease = table.lease, t.state = "Ready" => table.state = "Ready",
           NEW h \in Handle, h.owner # None, Vouched(h, n, i),
           table' = Registered(t, h), Lapse, ~lapsed'
    PROVE  /\ EntryStays /\ Vouched(table, n, i)'
           /\ table'.owner # None /\ table'.lease > 0
<1>1. /\ Vouched(table, n, i) /\ (table.owner # None => table.lease > 0)
      /\ table' \in Handle /\ MappedOnce
  BY EntryFields DEF Kept, EntriesKept, CopiesKept, TypeOK
<1>2. /\ h.lease \in Int /\ h.lease >= 0 /\ h.gen \in Nat /\ table.gen \in Nat
      /\ h.gen <= table.gen /\ table.lease \in Int
  BY HandleFields, EntryFields, ConstantsAssumption
  DEF LeaseTicks, Tombstone, Vouched, Dated, Agrees
<1>3. \A o \in Obj : Names(h, o)' <=> Names(h, o)
  BY DEF Names
<1>4. CASE table.owner = None
  <2>1. table' = h /\ h.gen = table.gen
    BY <1>2, <1>4 DEF Registered, Kept, Beginning
  <2>2. h.lease > 0
    BY <1>2, <2>1, NotLapsed
  <2>3. EntryStays /\ Vouched(h, n, i)'
    BY <1>3, <1>4, <2>1 DEF EntryStays, Vouched, Dated, Agrees, Backed
  <2> QED BY <2>1, <2>2, <2>3 DEF Vouched, Dated, Agrees, Backed, Names
<1>5. CASE table.owner # None /\ h.gen < table.gen
  <2>1. table' = t
    BY <1>1, <1>2, <1>5, RegisteredWithin
  <2>2. EntryStays
    BY <2>1 DEF EntryStays
  <2>3. Vouched(t, n, i)'
    <3>1. Vouched(t, n, i)
      BY <1>1 DEF Vouched, Dated, Agrees, Backed, Names
    <3> QED BY <2>1, <3>1 DEF Vouched, Dated, Agrees, Backed, Names
  <2> QED BY <1>1, <1>5, <2>1, <2>2, <2>3 DEF Vouched, Dated, Agrees, Backed, Names
<1>6. CASE table.owner # None /\ h.gen = table.gen
  <2>1. h.owner = table.owner /\ h.inc = table.inc
    BY <1>1, <1>6 DEF Vouched, Agrees
  <2>2. PICK r \in Handle : r = table'
    BY <1>1
  <2>3. /\ r.owner = table.owner /\ r.inc = table.inc /\ r.gen = table.gen
        /\ r.lease \in {table.lease, h.lease} /\ r.lease >= table.lease
        /\ r.state = "Ready" => "Ready" \in {table.state, h.state}
    BY <1>1, <1>2, <1>6, <2>1, <2>2, RegisteredWithin
  <2>4. EntryStays /\ r.lease > 0
    BY <1>1, <1>2, <1>6, <2>2, <2>3 DEF EntryStays
  <2>5. \A o \in Obj : /\ Names(r, o)' <=> Names(table, o)
                       /\ Names(table, o) <=> Names(h, o)
    BY <1>6, <2>1, <2>3 DEF Names
  <2>6. Backed(r)'
    <3> SUFFICES ASSUME r.inc = inc[r.owner]
                 PROVE  /\ \E o \in Obj : obj[o].mapped /\ Names(table, o)
                        /\ \A o \in Obj : obj[o].mapped /\ Names(table, o) =>
                             /\ obj[o].lease >= r.lease
                             /\ r.state = "Ready" => obj[o].state = "Ready"
      BY <2>5 DEF Backed
    <3>1. /\ \E o \in Obj : obj[o].mapped /\ Names(table, o)
          /\ \A o \in Obj : obj[o].mapped /\ Names(table, o) =>
               /\ obj[o].lease >= table.lease
               /\ table.state = "Ready" => obj[o].state = "Ready"
      BY <1>1, <1>6, <2>3 DEF Vouched, Backed
    <3>2. \A o \in Obj : obj[o].mapped /\ Names(h, o) =>
               /\ obj[o].lease >= h.lease
               /\ h.state = "Ready" => obj[o].state = "Ready"
      BY <1>6, <2>1, <2>3 DEF Vouched, Backed
    <3> QED BY <2>3, <2>5, <3>1, <3>2
  <2>7. Vouched(r, n, i)'
    BY <1>1, <1>2, <2>2, <2>3, <2>4, <2>6 DEF Vouched, Dated, Agrees
  <2> QED BY <1>6, <2>2, <2>3, <2>4, <2>7 DEF Vouched, Dated, Agrees, Backed, Names
<1> QED BY <1>2, <1>4, <1>5, <1>6

LEMMA RegisterBacks ==
    ASSUME TypeOK, TypeOK', Refs, NEW n, NEW i, Kept(n, i), NEW c \in Call,
           c \notin Release, Register(c), ~lapsed'
    PROVE  Kept(n, i)'
<1>1. /\ call[c].pc = "register" /\ UNCHANGED <<inc, obj, gossip, peer>>
      /\ Lapse /\ table' = Registered(table, call[c].h)
      /\ Advance(c, "done", call[c].h)
      /\ CallKept(c, n, i) /\ table \in Handle
  BY EntryFields DEF Register, Kept
<1>2. c = Origin \/ c \in Renewal
  BY <1>1, StepsOf DEF Call, Refs, CallRole, Quiet, Ended
<1>3. PICK h \in Handle : h = call[c].h /\ h.owner # None /\ Vouched(h, n, i)
  BY <1>1, <1>2, CallFields, CallKinds
  DEF CallKept, Speaks, Vouched, Refs, CallNamed, Quiet, Ended
<1>4. /\ EntryStays /\ Vouched(table, n, i)'
      /\ table'.owner # None /\ table'.lease > 0
  BY <1>1, <1>3, VoiceRegistered
<1>5. Steady(c) /\ ReadyFull'
  BY <1>1, SameSteady DEF Kept, CopiesKept, ReadyFull
<1>6. /\ Only(c) /\ call'[c].pin = None /\ call'[c].src = None
      /\ call'[c].pc \in Ended /\ call'[c].h = NoHandle
  BY <1>1, <1>3, DoneEnds
<1>7. CallKept(c, n, i)'
  BY <1>6, EndedBacks
<1>8. c # Origin => table.owner # None
  BY <1>1, UnderWay
<1> QED BY <1>1, <1>4, <1>5, <1>6, <1>7, <1>8, SoloBacks DEF Ended

LEMMA GrantBacks ==
    ASSUME TypeOK, TypeOK', Refs, NEW n, NEW i, Kept(n, i), Grant, ~lapsed'
    PROVE  Kept(n, i)'
<1>1. /\ call \in [Call -> CallState] /\ call[Origin].pc = "grant"
      /\ UNCHANGED <<inc, obj, gossip, peer>> /\ table \in Handle
      /\ Lapse /\ table' = Registered(table, call[Origin].h)
      /\ call' = [call EXCEPT ![Origin].pc = "toWrite"]
      /\ CallKept(Origin, n, i) /\ Origin \in Call
  BY EntryFields, CallKinds DEF Grant, Kept, TypeOK
<1>2. /\ Only(Origin) /\ call'[Origin].pc = "toWrite"
      /\ call'[Origin].h = call[Origin].h /\ call'[Origin].src = call[Origin].src
      /\ call'[Origin].pin = call[Origin].pin
  BY <1>1 DEF Only, CallState, Step, LocalStep
<1>3. PICK h \in Handle : h = call[Origin].h /\ h.owner # None /\ Vouched(h, n, i)
  BY <1>1, CallFields, CallKinds
  DEF CallKept, Speaks, Vouched, Refs, CallNamed, Quiet, Ended
<1>4. /\ EntryStays /\ Vouched(table, n, i)'
      /\ table'.owner # None /\ table'.lease > 0
  BY <1>1, <1>3, VoiceRegistered
<1>5. Steady(Origin) /\ ReadyFull'
  BY <1>1, SameSteady DEF Kept, CopiesKept, ReadyFull
<1>6. Vouched(h, n, i)'
  BY <1>1, <1>3, <1>4, <1>5, VouchedStays DEF Kept, EntriesKept, Vouched
<1>7. call'[Origin].pin = None /\ call'[Origin].src = None
  BY <1>1, <1>2, CallKinds DEF CallKept, OwnerStep
<1>8. CallKept(Origin, n, i)'
  BY <1>2, <1>3, <1>6, <1>7, CallKinds
  DEF CallKept, Vouched, Dated, Agrees, Backed, Names
<1> QED BY <1>1, <1>2, <1>4, <1>5, <1>8, SoloBacks

(* A client's request starts with what the table resolves to. *)
LEMMA ResolveBacks ==
    ASSUME TypeOK, TypeOK', Refs, NEW n, NEW i, Kept(n, i), NEW c \in Call,
           c \notin Migration, NEW step \in {"write", "commit", "renew"},
           call[c].pc \in LocalStep, ResolveFor(c, step)
    PROVE  Kept(n, i)'
<1>1. /\ call \in [Call -> CallState] /\ call[c] \in CallState
      /\ UNCHANGED <<inc, obj, table, gossip, peer>>
      /\ call' = [call EXCEPT ![c].pc = step, ![c].h = table]
      /\ table.owner # None /\ table \in Handle /\ CallKept(c, n, i)
  BY DEF ResolveFor, Resolvable, leader, TypeOK, Kept
<1>2. /\ Only(c) /\ call'[c].pc = step /\ call'[c].h = table
      /\ call'[c].pin = call[c].pin /\ call'[c].src = call[c].src
  BY <1>1 DEF Only, CallState, Step, OwnerStep
<1>3. call[c].pin = None /\ call[c].src = None /\ c \notin Migration
  BY <1>1, CallKinds DEF CallKept, OwnerStep, LocalStep
<1>4. Vouched(table, n, i)
  BY DEF Kept, EntriesKept
<1>5. Vouched(table, n, i)'
  BY <1>1, <1>4 DEF Vouched, Dated, Agrees, Backed, Names
<1>6. Renewing(c)'
  BY <1>2, <1>3 DEF Renewing
<1>7. /\ Dated(call[c].h)' /\ Agrees(call[c].h, n, i)' /\ Backed(call[c].h)'
  BY <1>1, <1>2, <1>5 DEF Vouched, Dated, Agrees, Backed, Names
<1>8. CallKept(c, n, i)'
  BY <1>2, <1>3, <1>6, <1>7 DEF CallKept
<1> QED BY <1>1, <1>2, <1>8, StillBacks

LEMMA StartBacks ==
    ASSUME TypeOK, TypeOK', Refs, NEW n, NEW i, Kept(n, i), Start,
           Undisturbed'
    PROVE  Kept(n, i)'
<1>1. call \in [Call -> CallState] /\ Origin \in Call /\ ~lapsed'
  BY CallKinds DEF TypeOK, Undisturbed
<1>2. ASSUME NEW k \in Node, Allocate(k) PROVE Kept(n, i)'
  <2>1. PICK h : h = [owner |-> k, inc |-> peer[k], gen |-> 0,
                      state |-> "Writing", lease |-> Lease]
    OBVIOUS
  <2>2. /\ call[Origin].pc = "idle" /\ UNCHANGED <<inc, obj, table, gossip, peer>>
        /\ call' = [call EXCEPT ![Origin].pc = "alloc", ![Origin].h = h]
        /\ CallKept(Origin, n, i) /\ peer[k] <= inc[k] /\ peer[k] > 0
    BY <1>1, <1>2, <2>1, EntryFields DEF Allocate, leader, Kept, EntriesKept
  <2>3. /\ call'[Origin].pc = "alloc" /\ call'[Origin].h = h
        /\ call'[Origin].pin = call[Origin].pin
        /\ call'[Origin].src = call[Origin].src
        /\ \A d \in Call : d # Origin => call'[d] = call[d]
    BY <1>1, <2>2 DEF CallState
  <2>4. call'[Origin].pin = None /\ call'[Origin].src = None
    BY <2>2, <2>3, CallKinds DEF CallKept, OwnerStep
  <2>5. Dated(h)' /\ h.gen = 0 /\ h.state = "Writing"
    BY <2>1, <2>2, ConstantsAssumption DEF Dated
  <2>6. CallKept(Origin, n, i)'
    BY <2>3, <2>4, <2>5, CallKinds DEF CallKept, Dated, Speaks
  <2>7. Only(Origin)
    BY <2>3 DEF Only, TypeOK
  <2> QED BY <1>1, <2>2, <2>3, <2>5, <2>6, <2>7, StillBacks
<1>3. CASE Grant
  BY <1>1, <1>3, GrantBacks
<1>4. CASE ClientWrite
  BY <1>1, <1>4, ResolveBacks, CallKinds DEF ClientWrite, LocalStep
<1>5. CASE ClientCommit
  BY <1>1, <1>5, ResolveBacks, CallKinds DEF ClientCommit, LocalStep
<1>6. ASSUME NEW c \in Call, StartRenew(c) PROVE Kept(n, i)'
  BY <1>6, ResolveBacks, CallKinds DEF StartRenew, LocalStep
<1>7. ASSUME NEW c \in Call, StartFree(c) PROVE FALSE
  <2>1. c \in Release /\ call' = [call EXCEPT ![c].pc = "free", ![c].h = table]
    BY <1>7 DEF StartFree, ResolveFor
  <2>2. call'[c].pc = "free"
    BY <1>1, <1>7, <2>1 DEF CallState
  <2> QED BY <2>1, <2>2 DEF Undisturbed
<1>8. ASSUME NEW c \in Call, PickForMigration(c) PROVE Kept(n, i)'
  <2>1. /\ c \in Migration /\ call[c].pc = "idle"
        /\ call' = [call EXCEPT ![c].pc = "picked", ![c].h = table]
        /\ UNCHANGED <<inc, obj, table, gossip, peer>>
        /\ table.owner # None /\ CallKept(c, n, i) /\ Dated(table)
    BY <1>8 DEF PickForMigration, leader, Kept, EntriesKept, Vouched
  <2>2. c \in Obj /\ c # Origin /\ c \notin Renewal
    BY <2>1, CallKinds
  <2>3. /\ Only(c) /\ call'[c].pc = "picked" /\ call'[c].h = table
        /\ call'[c].pin = call[c].pin /\ call'[c].src = call[c].src
    BY <1>1, <2>1 DEF Only, TypeOK, CallState
  <2>4. ~Exists(c) /\ call[c].pin = None
    BY <2>1 DEF CallKept, Course, OwnerStep
  <2>5. /\ ~Speaks(c)' /\ ~Building(c)' /\ ~Leaves(c)' /\ ~Discarding(c)'
        /\ ~Exists(c)'
    BY <2>1, <2>2, <2>3, <2>4 DEF Speaks, Building, Leaves, Discarding, Exists
  <2>6. Course(c)' /\ Left(c)'
    BY <2>3, <2>5 DEF Course, Left
  <2>7. Private(c)' /\ Held(c)'
    BY <2>3, <2>5 DEF Private, Held
  <2>8. CallKept(c, n, i)'
    BY <2>1, <2>2, <2>3, <2>4, <2>5, <2>6, <2>7 DEF CallKept, Dated
  <2> QED BY <2>1, <2>2, <2>3, <2>8, StillBacks
<1> QED BY <1>2, <1>3, <1>4, <1>5, <1>6, <1>7, <1>8 DEF Start

(* The table moves on to the copy that the migration has committed, which  *)
(* its owner still holds unless it has restarted; nobody else has heard of *)
(* that generation.                                                        *)
LEMMA CompareAndSetBacks ==
    ASSUME TypeOK, TypeOK', Refs, NEW n, NEW i, Kept(n, i), NEW c \in Call,
           CompareAndSet(c), ~lapsed'
    PROVE  \E m, j : Kept(m, j)'
<1>1. /\ call[c].pc = "cas" /\ UNCHANGED <<inc, gossip, peer>> /\ Lapse
      /\ CallKept(c, n, i) /\ table \in Handle
  BY EntryFields DEF CompareAndSet, Kept
<1>2. c \in Migration /\ c \in Obj /\ c # Origin /\ c \notin Renewal
  BY <1>1, StepsOf, CallKinds DEF Call, Refs, CallRole, Quiet, Ended
<1>3. CASE ~CasHolds(c)
  <2>1. Fails(c) /\ table' = table
    BY <1>3 DEF CompareAndSet
  <2> QED BY <1>1, <2>1, FailsBacks
<1>4. CASE CasHolds(c)
  <2>1. PICK h \in Handle : h = call[c].h /\ h.owner # None /\ Dated(h)
    BY <1>1, CallFields DEF CallKept, Refs, CallNamed, Quiet, Ended
  <2>2. /\ table' = Registered(table, h) /\ obj' = obj
        /\ Advance(c, "publish", h)
        /\ table.owner # None /\ table.gen = call[c].prev
        /\ h.gen = table.gen + 1
    BY <1>4, <2>1 DEF CompareAndSet, CasHolds
  <2>3. /\ table.lease > 0 /\ table.lease \in Int /\ h.lease \in Int
        /\ h.lease >= 0 /\ table.gen \in Nat /\ h.gen \in Nat
    BY <2>1, <2>2, EntryFields, HandleFields, ConstantsAssumption
    DEF Kept, EntriesKept, Dated, LeaseTicks, Tombstone
  <2>4. /\ table'.owner = h.owner /\ table'.inc = h.inc /\ table'.gen = h.gen
        /\ table'.lease = h.lease /\ table'.state = h.state
    BY <2>2, <2>3 DEF Registered, Sealed, Supersedes, Tombstone, Handle
  <2>5. h.lease > 0 /\ table'.gen > table.gen /\ table'.gen \in Nat
    BY <1>1, <2>1, <2>2, <2>3, <2>4, NotLapsed
  <2>6. /\ Course(c) /\ Private(c) /\ Held(c) /\ call[c].src \in Obj \cup {None}
        /\ Building(c)
    BY <1>1, <1>2, CallFields DEF CallKept, Building
  <2>7. ASSUME h.inc = inc[h.owner]
        PROVE  /\ obj[c].mapped /\ Names(h, c) /\ obj[c].lease >= h.lease
               /\ obj[c].state = "Ready"
    <3>1. Exists(c) /\ obj[c].state = "Ready" /\ obj[c].lease >= h.lease
      BY <1>1, <2>1, <2>6, <2>7 DEF Held
    <3>2. Names(h, c)
      BY <2>1, <2>6, <3>1 DEF Course
    <3>3. obj[c].lease > 0 /\ obj[c].gen > table.gen
      BY <1>2, <2>3, <2>4, <2>5, <3>1, <3>2, CopyFields DEF Names
    <3> QED BY <2>6, <3>1, <3>2, <3>3 DEF Held
  <2>8. \A o \in Obj : obj[o].mapped /\ Names(h, o) => o = c
    <3> SUFFICES ASSUME NEW o \in Obj, obj[o].mapped, Names(h, o) PROVE o = c
      OBVIOUS
    <3>1. h.inc = inc[h.owner]
      BY DEF Names
    <3> QED BY <1>2, <2>7, <3>1 DEF Kept, CopiesKept, MappedOnce, Names
  <2>9. \A o \in Obj : \A g : (Names(g, o)' <=> Names(g, o)) /\ (Exists(o)' <=> Exists(o))
    BY <1>1, <2>2 DEF Names, Exists
  <2>10. ASSUME NEW g, g.gen \in Nat, Agrees(g, n, i)
         PROVE  Agrees(g, h.owner, h.inc)' /\ Backed(g)'
    BY <2>3, <2>5, <2>10 DEF Agrees, Backed
  <2>11. Vouched(table, h.owner, h.inc)'
    <3>1. Dated(table)' /\ Agrees(table, h.owner, h.inc)'
      BY <1>1, <2>1, <2>3, <2>4 DEF Dated, Agrees
    <3>2. \A o \in Obj : Names(table, o)' <=> Names(h, o)
      BY <1>1, <2>2, <2>4 DEF Names
    <3>3. Backed(table)'
      BY <1>1, <1>2, <2>2, <2>4, <2>7, <2>8, <3>2 DEF Backed
    <3> QED BY <3>1, <3>3 DEF Vouched
  <2>12. EntriesKept(h.owner, h.inc)'
    <3>1. \A m \in gossip : Vouched(m.h, h.owner, h.inc)' /\ m.inc <= inc[m.node]
      BY <1>1, <2>10, EntryFields DEF Kept, EntriesKept, Vouched, Dated
    <3> QED BY <1>1, <2>4, <2>5, <2>11, <3>1 DEF Kept, EntriesKept
  <2>13. CopiesKept(h.owner, h.inc)'
    <3>1. ASSUME NEW o \in Obj, Exists(o), obj[o].published
          PROVE  Agrees(HandleOf(o), h.owner, h.inc)'
      <4>1. PICK g \in Handle : g = HandleOf(o)
        BY <3>1, HandleOfType DEF Exists
      <4>2. Agrees(g, n, i) /\ g.gen \in Nat
        BY <3>1, <4>1, HandleFields DEF Kept, CopiesKept
      <4>3. HandleOf(o)' = g
        BY <1>1, <2>2, <4>1 DEF HandleOf
      <4> QED BY <2>10, <4>2, <4>3
    <3> QED
      BY <2>2, <2>9, <3>1, CallKinds
      DEF Kept, CopiesKept, MappedOnce, ReadyFull, Exists
  <2>14. /\ Only(c) /\ call'[c].pin = None
         /\ \/ /\ call'[c].pc \in {"failed", "denied"} /\ call'[c].src = None
               /\ call'[c].h = NoHandle
            \/ /\ call'[c].pc = "publish" /\ call'[c].h = h
               /\ call'[c].src = call[c].src
    BY <2>2, AdvanceEnds, StepNames DEF Ended
  <2>15. Beginning'
    BY <1>2, <2>1, <2>2, <2>4, <2>14, CallKinds DEF Kept, Beginning, Only
  <2>16. CallKept(c, h.owner, h.inc)'
    <3>1. CASE call'[c].pc \in {"failed", "denied"} /\ call'[c].src = None
                 /\ call'[c].h = NoHandle
      BY <2>14, <3>1, EndedBacks DEF Ended
    <3>2. CASE call'[c].pc = "publish" /\ call'[c].h = h
                 /\ call'[c].src = call[c].src
      <4>1. ~Building(c)' /\ ~Leaves(c)' /\ ~Discarding(c)'
        BY <3>2 DEF Building, Leaves, Discarding
      <4>2. Names(call[c].h, c)' <=> Names(call[c].h, c)
        BY <1>1, <2>1, <2>2, <3>2 DEF Names
      <4>3. Course(c)'
        BY <2>2, <2>6, <3>2, <4>1, <4>2 DEF Course, Exists
      <4>4. Left(c)'
        BY <1>1, <2>2, <2>5, <2>6, <3>2, <4>1 DEF Left, Course
      <4>5. Private(c)' /\ Held(c)'
        BY <3>2, <4>1 DEF Private, Held
      <4>6. Agrees(h, h.owner, h.inc)'
        BY <2>3, <2>4 DEF Agrees
      <4> QED
        BY <1>1, <1>2, <2>1, <2>14, <3>2, <4>3, <4>4, <4>5, <4>6
        DEF CallKept, Dated, Agrees
    <3> QED BY <2>14, <3>1, <3>2
  <2>17. ASSUME NEW d \in Call, d # c
         PROVE  CallKept(d, h.owner, h.inc)'
    <3>1. call'[d] = call[d] /\ CallKept(d, n, i) /\ call[d].h.gen \in Nat
      BY <2>14, <2>17, CallFields DEF Only, Kept
    <3>2. Speaks(d)' => /\ Speaks(d) /\ Agrees(call[d].h, h.owner, h.inc)'
                        /\ Backed(call[d].h)'
      <4>1. PICK g : g = call[d].h
        OBVIOUS
      <4>2. Speaks(d)' => Speaks(d)
        BY <3>1 DEF Speaks
      <4>3. Speaks(d) => Agrees(g, h.owner, h.inc)' /\ Backed(g)'
        BY <2>10, <3>1, <4>1 DEF CallKept
      <4> QED BY <3>1, <4>1, <4>2, <4>3 DEF Agrees, Backed, Names
    <3>3. ASSUME d \in Migration
          PROVE  Course(d)' /\ Left(d)' /\ Private(d)' /\ Held(d)'
      <4>1. d \in Obj /\ Course(d) /\ Left(d) /\ Private(d) /\ Held(d)
        BY <3>1, <3>3, CallKinds DEF CallKept
      <4>2. /\ Leaves(d)' <=> Leaves(d)
            /\ Discarding(d)' <=> Discarding(d)
            /\ Building(d)' <=> Building(d)
            /\ Names(call[d].h, d)' <=> Names(call[d].h, d)
        BY <1>1, <2>2, <3>1 DEF Leaves, Discarding, Building, Names
      <4>3. Course(d)'
        BY <2>2, <3>1, <4>1, <4>2 DEF Course, Exists
      <4>4. Left(d)'
        <5>1. call[d].src # None => obj[call[d].src].gen \in Nat
          BY CallFields, CopyFields
        <5> QED
          BY <2>2, <2>3, <2>5, <3>1, <4>1, <4>2, <5>1 DEF Left, Leaves
      <4>5. Private(d)'
        BY <1>1, <2>2, <2>4, <2>8, <2>17, <4>1 DEF Private, Names
      <4>6. Held(d)'
        BY <1>1, <2>2, <2>3, <2>5, <3>1, <4>1, <4>2, CopyFields DEF Held, Exists
      <4> QED BY <4>3, <4>4, <4>5, <4>6
    <3>4. ASSUME d \in Renewal
          PROVE  Renewing(d)'
      <4>1. call[d].pc = "renew" => call[d].h.gen <= table.gen
        BY <3>1, <3>4, CallKinds
        DEF CallKept, Speaks, Agrees, Refs, CallNamed, Quiet, Ended
      <4> QED BY <2>3, <2>5, <3>1, <4>1 DEF Renewing
    <3> QED
      BY <1>1, <2>2, <3>1, <3>2, <3>3, <3>4 DEF CallKept, Dated
  <2>18. Kept(h.owner, h.inc)'
    BY <2>12, <2>13, <2>15, <2>16, <2>17 DEF Kept
  <2> QED BY <2>18
<1> QED BY <1>3, <1>4

(* The first copy: nobody has heard of the block before. *)
LEMMA FirstCopyBacks ==
    ASSUME TypeOK, TypeOK', Refs, NEW n, NEW i, Kept(n, i), AllocateLocal(Origin)
    PROVE  \E m, j : Kept(m, j)'
<1>1. /\ call[Origin].pc = "alloc" /\ UNCHANGED <<inc, table, gossip, peer>>
      /\ CallKept(Origin, n, i) /\ obj \in [Obj -> Object]
      /\ Origin \in Call /\ Origin \in Obj
  BY CallKinds DEF AllocateLocal, leader, TypeOK, Kept
<1>2. PICK h \in Handle :
        /\ h = call[Origin].h /\ h.owner # None /\ h.gen = 0
        /\ h.state = "Writing" /\ h.inc = inc[h.owner] /\ Dated(h)
        /\ obj' = [obj EXCEPT ![Origin] = AllocatedAs(h)]
        /\ Advance(Origin, "grant", h)
  BY <1>1, CallFields
  DEF AllocateLocal, Kept, Beginning, CallKept, Refs, CallNamed, Quiet, Ended
<1>3. /\ table.owner = None /\ table.gen = 0 /\ ~Exists(Origin)
      /\ \A m \in gossip : m.h.owner = None
      /\ \A c \in Call \ {Origin} : call[c].pc = "idle" /\ call[c].src = None
      /\ \A o \in Obj : ~Exists(o) /\ ~obj[o].mapped
  BY <1>1 DEF Kept, Beginning, Refs, MappedExist, Exists
<1>4. /\ \A o \in Obj : o # Origin => obj'[o] = obj[o]
      /\ obj'[Origin].node = h.owner /\ obj'[Origin].gen = 0
      /\ obj'[Origin].state = "Writing" /\ obj'[Origin].lease = h.lease
      /\ obj'[Origin].published /\ obj'[Origin].mapped
  BY <1>1, <1>2 DEF AllocatedAs
<1>5. \A o \in Obj : Exists(o)' \/ obj'[o].mapped => o = Origin
  BY <1>3, <1>4 DEF Exists
<1>6. CopiesKept(h.owner, h.inc)'
  <2>1. MappedOnce' /\ ReadyFull'
    BY <1>4, <1>5 DEF MappedOnce, ReadyFull, Kept, CopiesKept
  <2>2. Agrees(HandleOf(Origin), h.owner, h.inc)'
    BY <1>1, <1>2, <1>3, <1>4 DEF Agrees, HandleOf
  <2> QED BY <1>4, <1>5, <2>1, <2>2 DEF CopiesKept
<1>7. EntriesKept(h.owner, h.inc)'
  <2>1. Dated(table) /\ \A m \in gossip : Dated(m.h) /\ m.inc <= inc[m.node]
    BY DEF Kept, EntriesKept, Vouched
  <2> QED
    BY <1>1, <1>3, <2>1 DEF Kept, EntriesKept, Vouched, Dated, Agrees, Backed
<1>8. /\ Only(Origin) /\ call'[Origin].pin = None
      /\ \/ /\ call'[Origin].pc \in {"failed", "denied"} /\ call'[Origin].src = None
            /\ call'[Origin].h = NoHandle
         \/ /\ call'[Origin].pc = "grant" /\ call'[Origin].h = h
            /\ call'[Origin].src = call[Origin].src
  BY <1>1, <1>2, AdvanceEnds, StepNames DEF Ended
<1>9. Beginning'
  BY <1>1, <1>3, <1>5, <1>8 DEF Beginning, Only
<1>10. CallKept(Origin, h.owner, h.inc)'
  <2>1. CASE call'[Origin].pc \in {"failed", "denied"} /\ call'[Origin].src = None
               /\ call'[Origin].h = NoHandle
    BY <1>1, <1>8, <2>1, EndedBacks DEF Ended
  <2>2. CASE call'[Origin].pc = "grant" /\ call'[Origin].h = h
               /\ call'[Origin].src = call[Origin].src
    <3>1. Agrees(h, h.owner, h.inc)' /\ Dated(h)'
      BY <1>1, <1>2, <1>3 DEF Agrees, Dated
    <3>2. Names(h, Origin)'
      BY <1>1, <1>2, <1>4 DEF Names
    <3>3. h.lease \in Int
      BY HandleFields, ConstantsAssumption DEF LeaseTicks, Tombstone
    <3>4. Backed(h)'
      BY <1>1, <1>2, <1>4, <1>5, <3>2, <3>3 DEF Backed
    <3>5. call'[Origin].src = None
      BY <1>1, <2>2, CallKinds DEF CallKept
    <3> QED
      BY <1>8, <2>2, <3>1, <3>4, <3>5, CallKinds
      DEF CallKept, Dated, Agrees, Backed, Names
  <2> QED BY <1>8, <2>1, <2>2
<1>11. ASSUME NEW d \in Call, d # Origin PROVE CallKept(d, h.owner, h.inc)'
  <2>1. call'[d] = call[d] /\ call[d].pc = "idle" /\ CallKept(d, n, i)
    BY <1>3, <1>8, <1>11 DEF Only, Kept
  <2>2. call[d].pin = None
    BY <2>1 DEF CallKept, OwnerStep
  <2>3. /\ ~Speaks(d)' /\ ~Building(d)' /\ ~Leaves(d)' /\ ~Discarding(d)'
    BY <1>11, <2>1 DEF Speaks, Building, Leaves, Discarding
  <2>4. ASSUME d \in Migration
        PROVE  Course(d)' /\ Left(d)' /\ Private(d)' /\ Held(d)'
    <3>1. ~Exists(d)'
      BY <1>5, <1>11, <2>4, CallKinds
    <3>2. Course(d)' /\ Left(d)'
      BY <2>1, <2>3, <3>1 DEF Course, Left
    <3>3. Private(d)' /\ Held(d)'
      BY <2>1, <2>3, <3>1 DEF Private, Held
    <3> QED BY <3>2, <3>3
  <2>5. Renewing(d)'
    BY <2>1, <2>2 DEF Renewing
  <2> QED BY <1>1, <2>1, <2>2, <2>3, <2>4, <2>5 DEF CallKept, Dated
<1>12. Kept(h.owner, h.inc)'
  BY <1>6, <1>7, <1>9, <1>10, <1>11 DEF Kept
<1> QED BY <1>12

(* A migration's destination: no map entry is in its way, so the table     *)
(* cannot name its node's present incarnation.                             *)
LEMMA NextCopyBacks ==
    ASSUME TypeOK, TypeOK', Refs, Generations, NEW n, NEW i, Kept(n, i),
           NEW c \in Migration, AllocateLocal(c)
    PROVE  Kept(n, i)'
<1>1. /\ c \in Call /\ c \in Obj /\ c # Origin /\ c \notin Renewal
      /\ call[c].pc = "alloc" /\ UNCHANGED <<inc, table, gossip, peer>>
      /\ CallKept(c, n, i) /\ obj \in [Obj -> Object]
  BY CallKinds DEF AllocateLocal, leader, TypeOK, Kept
<1>2. PICK h \in Handle :
        /\ h = call[c].h /\ h.owner # None /\ h.gen > 0
        /\ h.inc = inc[h.owner] /\ Dated(h)
        /\ obj' = [obj EXCEPT ![c] = AllocatedAs(h)]
        /\ Advance(c, "write", h)
        /\ \A o \in Obj : ~(obj[o].mapped /\ obj[o].node = h.owner)
  BY <1>1, CallFields
  DEF AllocateLocal, CallKept, Refs, CallNamed, Quiet, Ended, Generations,
      Vacant, MappedAt
<1>3. /\ \A o \in Obj : o # c => obj'[o] = obj[o]
      /\ obj'[c].node = h.owner /\ obj'[c].gen = h.gen
      /\ obj'[c].state = "Writing" /\ obj'[c].lease = h.lease
      /\ ~obj'[c].published /\ obj'[c].mapped
  <2>1. obj'[c] = AllocatedAs(h) /\ \A o \in Obj : o # c => obj'[o] = obj[o]
    BY <1>1, <1>2
  <2>2. h.gen # 0
    BY <1>2, HandleFields
  <2>3. ~AllocatedAs(h).published
    BY <2>2, Zenon DEF AllocatedAs
  <2>4. /\ AllocatedAs(h).node = h.owner /\ AllocatedAs(h).gen = h.gen
        /\ AllocatedAs(h).state = "Writing" /\ AllocatedAs(h).lease = h.lease
        /\ AllocatedAs(h).mapped
    BY DEF AllocatedAs
  <2> QED BY <2>1, <2>3, <2>4
<1>4. /\ Course(c) /\ ~Exists(c) /\ ~obj[c].mapped
      /\ \A d \in Call : call[d].pin # c /\ call[d].src # c
  <2>1. Course(c) /\ ~Exists(c)
    BY <1>1 DEF CallKept, Course
  <2>2. c # None
    BY <1>1, CallKinds
  <2> QED BY <1>1, <2>1, <2>2 DEF Exists, Refs, MappedExist, CallHolds
<1>5. table.owner # None
  BY <1>1, UnderWay
<1>6. ASSUME NEW g, Agrees(g, n, i), g.gen = table.gen, g.owner # None
      PROVE  ~Names(g, c)'
  <2>1. SUFFICES ASSUME g.owner = h.owner, g.inc = inc[h.owner] PROVE FALSE
    BY <1>1, <1>3 DEF Names
  <2>2. Vouched(table, n, i) /\ table.lease > 0
    BY <1>5 DEF Kept, EntriesKept
  <2>3. table.owner = h.owner /\ table.inc = inc[table.owner]
    BY <1>5, <1>6, <2>1, <2>2 DEF Vouched, Agrees
  <2>4. \E o \in Obj : obj[o].mapped /\ Names(table, o)
    BY <1>5, <2>2, <2>3 DEF Vouched, Backed
  <2> QED BY <1>2, <2>3, <2>4 DEF Names
<1>7. ASSUME NEW g, Agrees(g, n, i), Backed(g)
      PROVE  Agrees(g, n, i)' /\ Backed(g)'
  <2>1. Agrees(g, n, i)'
    BY <1>1, <1>7 DEF Agrees
  <2>2. \A o \in Obj : o # c => (Names(g, o)' <=> Names(g, o))
    BY <1>1, <1>3 DEF Names
  <2>3. Backed(g)'
    BY <1>1, <1>3, <1>4, <1>6, <1>7, <2>2 DEF Backed
  <2> QED BY <2>1, <2>3
<1>8. CopiesKept(n, i)'
  <2>1. MappedOnce'
    BY <1>2, <1>3 DEF MappedOnce, Kept, CopiesKept
  <2>2. ReadyFull'
    BY <1>3 DEF ReadyFull, Kept, CopiesKept
  <2>3. ASSUME NEW o \in Obj, Exists(o)', obj'[o].published
        PROVE  Agrees(HandleOf(o), n, i)'
    <3>1. o # c /\ obj'[o] = obj[o]
      BY <1>3, <2>3
    <3>2. Agrees(HandleOf(o), n, i)
      BY <2>3, <3>1 DEF Kept, CopiesKept, Exists
    <3> QED BY <1>1, <3>1, <3>2 DEF Agrees, HandleOf
  <2>4. Exists(Origin)' => obj'[Origin].published /\ obj'[Origin].gen = 0
    BY <1>1, <1>3, CallKinds DEF Kept, CopiesKept, Exists
  <2> QED BY <2>1, <2>2, <2>3, <2>4 DEF CopiesKept
<1>9. EntriesKept(n, i)'
  <2>1. PICK t : t = table
    OBVIOUS
  <2>2. Agrees(t, n, i)' /\ Backed(t)'
    BY <1>7, <2>1 DEF Kept, EntriesKept, Vouched
  <2>3. Vouched(table, n, i)'
    BY <1>1, <2>1, <2>2
    DEF Kept, EntriesKept, Vouched, Dated, Agrees, Backed, Names
  <2>4. \A m \in gossip : Vouched(m.h, n, i)'
    BY <1>1, <1>7 DEF Kept, EntriesKept, Vouched, Dated
  <2> QED BY <1>1, <2>3, <2>4 DEF Kept, EntriesKept
<1>10. /\ Only(c) /\ call'[c].pin = None
       /\ \/ /\ call'[c].pc \in {"failed", "denied"} /\ call'[c].src = None
             /\ call'[c].h = NoHandle
          \/ /\ call'[c].pc = "write" /\ call'[c].h = h
             /\ call'[c].src = call[c].src /\ call'[c].prev = call[c].prev
  BY <1>1, <1>2, AdvanceEnds, StepNames DEF Ended
<1>11. Beginning'
  BY <1>1, <1>5, <1>10, CallKinds DEF Kept, Beginning, Only
<1>12. CallKept(c, n, i)'
  <2>1. CASE call'[c].pc \in {"failed", "denied"} /\ call'[c].src = None
               /\ call'[c].h = NoHandle
    BY <1>1, <1>10, <2>1, EndedBacks DEF Ended
  <2>2. CASE call'[c].pc = "write" /\ call'[c].h = h
               /\ call'[c].src = call[c].src /\ call'[c].prev = call[c].prev
    <3>1. Building(c)' /\ ~Leaves(c)' /\ ~Discarding(c)' /\ ~Speaks(c)'
      BY <1>1, <2>2 DEF Building, Leaves, Discarding, Speaks
    <3>2. Names(call[c].h, c)'
      BY <1>1, <1>2, <1>3, <2>2 DEF Names
    <3>3. call[c].src # None => obj'[call[c].src] = obj[call[c].src]
      BY <1>1, <1>3, <1>4, CallFields
    <3>4. Course(c)'
      BY <1>1, <1>2, <1>3, <1>4, <2>2, <3>1, <3>2, <3>3 DEF Course, Exists
    <3>5. Private(c)'
      <4>1. PICK t : t = table
        OBVIOUS
      <4>2. t.gen = table.gen => ~Names(t, c)'
        BY <1>5, <1>6, <4>1 DEF Kept, EntriesKept, Vouched
      <4> QED BY <1>1, <4>1, <4>2 DEF Private, Names
    <3>6. Left(c)' /\ Held(c)'
      BY <1>3, <2>2, <3>1 DEF Left, Held
    <3> QED
      BY <1>1, <1>2, <1>10, <2>2, <3>1, <3>4, <3>5, <3>6 DEF CallKept, Dated
  <2> QED BY <1>10, <2>1, <2>2
<1>13. ASSUME NEW d \in Call, d # c PROVE CallKept(d, n, i)'
  <2>1. /\ call'[d] = call[d] /\ CallKept(d, n, i)
        /\ call[d].src \in Obj \cup {None} /\ call[d].pin \in Obj \cup {None}
    BY <1>10, <1>13, CallFields DEF Only, Kept
  <2>2. /\ call[d].src # None => obj'[call[d].src] = obj[call[d].src]
        /\ call[d].pin # None => obj'[call[d].pin] = obj[call[d].pin]
    BY <1>3, <1>4, <2>1
  <2>3. /\ Leaves(d)' <=> Leaves(d)
        /\ Discarding(d)' <=> Discarding(d)
        /\ Building(d)' <=> Building(d)
        /\ Speaks(d)' <=> Speaks(d)
    BY <2>1, <2>2 DEF Leaves, Discarding, Building, Speaks
  <2>4. Speaks(d) => /\ Agrees(call[d].h, n, i)'
                     /\ d \notin Migration => Backed(call[d].h)'
    <3>1. PICK g : g = call[d].h
      OBVIOUS
    <3>2. Speaks(d) /\ d \notin Migration => Agrees(g, n, i)' /\ Backed(g)'
      BY <1>7, <2>1, <3>1 DEF CallKept
    <3>3. Speaks(d) => Agrees(g, n, i)'
      BY <1>1, <2>1, <3>1 DEF CallKept, Agrees
    <3> QED BY <2>1, <3>1, <3>2, <3>3 DEF Agrees, Backed, Names
  <2>5. ASSUME d \in Migration
        PROVE  Course(d)' /\ Left(d)' /\ Private(d)' /\ Held(d)'
    <3>1. /\ d \in Obj /\ obj'[d] = obj[d]
          /\ Course(d) /\ Left(d) /\ Private(d) /\ Held(d)
      BY <1>3, <1>13, <2>1, <2>5, CallKinds DEF CallKept
    <3>2. /\ Exists(d)' <=> Exists(d)
          /\ Names(call[d].h, d)' <=> Names(call[d].h, d)
          /\ Names(table, d)' <=> Names(table, d)
      BY <1>1, <2>1, <3>1 DEF Exists, Names
    <3>3. Course(d)'
      BY <2>1, <2>2, <2>3, <3>1, <3>2 DEF Course
    <3>4. Left(d)'
      BY <1>1, <2>1, <2>2, <2>3, <3>1 DEF Left, Leaves
    <3>5. Private(d)' /\ Held(d)'
      BY <1>1, <2>1, <2>3, <3>1, <3>2 DEF Private, Held
    <3> QED BY <3>3, <3>4, <3>5
  <2>6. d \in Renewal => Renewing(d)'
    BY <1>1, <2>1, <2>2 DEF CallKept, Renewing, Names
  <2> QED BY <1>1, <2>1, <2>2, <2>3, <2>4, <2>5, <2>6 DEF CallKept, Dated
<1> QED BY <1>8, <1>9, <1>11, <1>12, <1>13 DEF Kept

(* What a restart of k does to the copies and the calls. *)
LEMMA RestartMoves ==
    ASSUME TypeOK, Refs, NEW k \in Node, Restart(k)
    PROVE  /\ UNCHANGED <<table, gossip, peer>>
           /\ \A c \in Call :
                call[c].pc = "idle" /\ call[c].src = None /\ call[c].pin = None
                => call'[c].pc = "idle" /\ call'[c].src = None
           /\ inc'[k] = inc[k] + 1 /\ \A m \in Node : m # k => inc'[m] = inc[m]
           /\ \A o \in Obj : obj[o].node = k => obj'[o] = NoObject
           /\ \A o \in Obj : obj[o].node # k =>
                /\ obj'[o].node = obj[o].node /\ obj'[o].gen = obj[o].gen
                /\ obj'[o].lease = obj[o].lease /\ obj'[o].mapped = obj[o].mapped
                /\ obj'[o].state = obj[o].state /\ obj'[o].full = obj[o].full
                /\ obj'[o].published = obj[o].published
           /\ \A c \in Call :
                \/ /\ call'[c].pc \in {"failed", "denied"} /\ call'[c].pin = None
                   /\ call'[c].src = None /\ call'[c].h = NoHandle
                \/ /\ call'[c].h = call[c].h /\ call'[c].prev = call[c].prev
                   /\ call'[c].src = IF call[c].src \in {o \in Obj : obj[o].node = k}
                                     THEN None ELSE call[c].src
                   /\ call'[c].pin = IF call[c].pin \in {o \in Obj : obj[o].node = k}
                                     THEN None ELSE call[c].pin
                   /\ \/ call'[c].pc = call[c].pc
                      \/ /\ call[c].pin \in {o \in Obj : obj[o].node = k}
                         /\ call[c].pc = "unmap" /\ call'[c].pc = "free"
                   /\ ~ /\ call[c].src \in {o \in Obj : obj[o].node = k}
                        /\ call[c].pin \in {o \in Obj : obj[o].node = k}
<1> DEFINE gone == {o \in Obj : obj[o].node = k}
<1>1. obj \in [Obj -> Object] /\ call \in [Call -> CallState] /\ inc \in [Node -> Nat \ {0}]
  BY DEF TypeOK
<1>2. /\ UNCHANGED <<table, gossip, peer>>
      /\ inc' = [inc EXCEPT ![k] = @ + 1]
  BY DEF Restart, leader
<1>3. \A o \in Obj : obj[o].node = k => obj'[o] = NoObject
  BY DEF Restart
<1>4. ASSUME NEW o \in Obj, obj[o].node # k
      PROVE  /\ obj'[o].node = obj[o].node /\ obj'[o].gen = obj[o].gen
             /\ obj'[o].lease = obj[o].lease /\ obj'[o].mapped = obj[o].mapped
             /\ obj'[o].state = obj[o].state /\ obj'[o].full = obj[o].full
             /\ obj'[o].published = obj[o].published
  <2>1. \E l : obj'[o] = [obj[o] EXCEPT !.lock = l]
    BY <1>4 DEF Restart
  <2> QED BY <1>1, <2>1 DEF Object
<1>5. ASSUME NEW c \in Call
      PROVE  \/ call'[c] = Over(Failure(c))
             \/ /\ ~(call[c].src \in gone /\ call[c].pin \in gone)
                /\ \E l : call'[c] = [call[c] EXCEPT
                            !.live = l,
                            !.src = IF call[c].src \in gone THEN None ELSE @,
                            !.pin = IF call[c].pin \in gone THEN None ELSE @,
                            !.pc = IF call[c].pin \in gone /\ @ = "unmap"
                                   THEN "free" ELSE @]
  BY DEF Restart
<1> HIDE DEF gone
<1>6. ASSUME NEW c \in Call
      PROVE  \/ /\ call'[c].pc \in {"failed", "denied"} /\ call'[c].pin = None
                /\ call'[c].src = None /\ call'[c].h = NoHandle
             \/ /\ call'[c].h = call[c].h /\ call'[c].prev = call[c].prev
                /\ call'[c].src = IF call[c].src \in gone THEN None ELSE call[c].src
                /\ call'[c].pin = IF call[c].pin \in gone THEN None ELSE call[c].pin
                /\ \/ call'[c].pc = call[c].pc
                   \/ /\ call[c].pin \in gone
                      /\ call[c].pc = "unmap" /\ call'[c].pc = "free"
                /\ ~(call[c].src \in gone /\ call[c].pin \in gone)
  <2>1. CASE call'[c] = Over(Failure(c))
    BY <2>1, FailureKind
  <2>2. CASE call'[c] # Over(Failure(c))
    <3>1. PICK l : call'[c] = [call[c] EXCEPT
                            !.live = l,
                            !.src = IF call[c].src \in gone THEN None ELSE @,
                            !.pin = IF call[c].pin \in gone THEN None ELSE @,
                            !.pc = IF call[c].pin \in gone /\ @ = "unmap"
                                   THEN "free" ELSE @]
      BY <1>5, <2>2
    <3>2. call[c] \in CallState
      BY <1>1
    <3>3. ~(call[c].src \in gone /\ call[c].pin \in gone)
      BY <1>5, <2>2
    <3> QED BY <3>1, <3>2, <3>3 DEF CallState
  <2> QED BY <2>1, <2>2
<1>7. inc'[k] = inc[k] + 1 /\ \A m \in Node : m # k => inc'[m] = inc[m]
  BY <1>1, <1>2
<1>8. gone = {o \in Obj : obj[o].node = k}
  BY DEF gone
<1>9. ASSUME NEW c \in Call, call[c].pc = "idle", call[c].src = None,
             call[c].pin = None
      PROVE  call'[c].pc = "idle" /\ call'[c].src = None
  <2>1. call[c].live /\ None \notin Obj /\ ~Awaits(c, k) /\ call[c] \in CallState
    BY <1>1, <1>9, CallKinds DEF Refs, CallHolds, LocalStep, Awaits, OwnerStep
  <2>2. \E l : call'[c] = [call[c] EXCEPT !.live = l, !.src = None, !.pin = None,
                                            !.pc = "idle"]
    BY <1>9, <2>1 DEF Restart
  <2> QED BY <2>1, <2>2 DEF CallState
<1> QED BY <1>2, <1>3, <1>4, <1>6, <1>7, <1>8, <1>9

LEMMA RestartBacks ==
    ASSUME TypeOK, TypeOK', Refs, NEW n, NEW i, Kept(n, i), NEW k \in Node,
           Restart(k)
    PROVE  Kept(n, i)'
<1>1. /\ UNCHANGED <<table, gossip, peer>>
      /\ inc'[k] = inc[k] + 1 /\ \A m \in Node : m # k => inc'[m] = inc[m]
      /\ \A m \in Node : inc[m] \in Nat /\ inc[m] <= inc'[m]
  BY RestartMoves, EntryFields
<1>2. \A o \in Obj : /\ Exists(o)' => Exists(o) /\ obj[o].node # k
                     /\ obj'[o].mapped => obj[o].mapped /\ obj[o].node # k
  BY RestartMoves, ConstantsAssumption DEF NoObject, Exists
<1>3. \A o \in Obj : obj[o].node # k =>
        /\ obj'[o].node = obj[o].node /\ obj'[o].gen = obj[o].gen
        /\ obj'[o].lease = obj[o].lease /\ obj'[o].mapped = obj[o].mapped
        /\ obj'[o].state = obj[o].state /\ obj'[o].full = obj[o].full
        /\ obj'[o].published = obj[o].published
  BY RestartMoves
<1>4. ASSUME NEW h \in Handle, Dated(h)
      PROVE  /\ Dated(h)'
             /\ h.owner # None /\ h.inc = inc'[h.owner]
                  => h.owner # k /\ h.inc = inc[h.owner]
  BY <1>1, <1>4, HandleFields DEF Dated
<1>5. ASSUME NEW h \in Handle, Dated(h), Backed(h)
      PROVE  Backed(h)'
  <2> SUFFICES ASSUME h.owner # None, h.inc = inc'[h.owner], h.gen = table.gen
               PROVE  /\ h.lease > 0 => \E o \in Obj : obj'[o].mapped /\ Names(h, o)'
                      /\ \A o \in Obj : obj'[o].mapped /\ Names(h, o)' =>
                           /\ obj'[o].lease >= h.lease
                           /\ h.state = "Ready" => obj'[o].state = "Ready"
    BY <1>1 DEF Backed
  <2>1. h.owner # k /\ h.inc = inc[h.owner] /\ h.owner \in Node
    BY <1>4, <1>5, HandleFields
  <2>2. \A o \in Obj : obj[o].node # k => (Names(h, o)' <=> Names(h, o))
    BY <1>1, <1>3, <2>1 DEF Names
  <2>3. \A o \in Obj : Names(h, o) => obj[o].node # k
    BY <2>1 DEF Names
  <2> QED BY <1>2, <1>3, <1>5, <2>1, <2>2, <2>3 DEF Backed
<1>6. ASSUME NEW h, Agrees(h, n, i) PROVE Agrees(h, n, i)'
  BY <1>1, <1>6 DEF Agrees
<1>7. EntriesKept(n, i)'
  <2>1. PICK t \in Handle : t = table
    BY EntryFields
  <2>2. Vouched(t, n, i)'
    BY <1>4, <1>5, <1>6, <2>1 DEF Kept, EntriesKept, Vouched
  <2>3. Vouched(table, n, i)'
    BY <1>1, <2>1, <2>2 DEF Vouched, Dated, Agrees, Backed, Names
  <2>4. ASSUME NEW m \in gossip PROVE Vouched(m.h, n, i)' /\ m.inc <= inc'[m.node]
    <3>1. PICK h \in Handle : h = m.h /\ Vouched(h, n, i)
      BY EntryFields DEF Kept, EntriesKept
    <3>2. Vouched(h, n, i)'
      BY <1>4, <1>5, <1>6, <3>1 DEF Vouched
    <3>3. m.inc <= inc'[m.node]
      BY <1>1, EntryFields DEF Kept, EntriesKept
    <3> QED BY <3>1, <3>2, <3>3
  <2>5. \A m \in Node : peer[m] <= inc'[m]
    BY <1>1, EntryFields DEF Kept, EntriesKept
  <2> QED BY <1>1, <2>3, <2>4, <2>5 DEF Kept, EntriesKept
<1>8. CopiesKept(n, i)'
  <2>1. MappedOnce'
    BY <1>2, <1>3 DEF MappedOnce, Kept, CopiesKept
  <2>2. ReadyFull'
    BY <1>3, RestartMoves DEF ReadyFull, Kept, CopiesKept, NoObject
  <2>3. ASSUME NEW o \in Obj, Exists(o)', obj'[o].published
        PROVE  Agrees(HandleOf(o), n, i)'
    <3>1. Exists(o) /\ obj[o].node # k /\ obj[o].node \in Node
      BY <1>2, <2>3, CopyFields DEF Exists
    <3>2. Agrees(HandleOf(o), n, i)
      BY <1>3, <2>3, <3>1 DEF Kept, CopiesKept
    <3> QED BY <1>1, <1>3, <3>1, <3>2 DEF Agrees, HandleOf
  <2>4. Exists(Origin)' => obj'[Origin].published /\ obj'[Origin].gen = 0
    BY <1>2, <1>3, CallKinds DEF Kept, CopiesKept
  <2> QED BY <2>1, <2>2, <2>3, <2>4 DEF CopiesKept
<1>9. Beginning'
  <2>1. /\ call'[Origin].pc \in {"idle", "alloc", "toWrite", "write", "toCommit",
                                "commit", "register", "done"}
             => call'[Origin].pc = call[Origin].pc /\ call'[Origin].h = call[Origin].h
    <3>1. Origin \in Call /\ call[Origin].pc # "unmap"
      BY CallKinds, StepsOf DEF Refs, CallRole, Quiet, Ended
    <3> QED BY <3>1, RestartMoves
  <2>2. ASSUME table.owner = None, NEW c \in Call \ {Origin}
        PROVE  call'[c].pc = "idle" /\ call'[c].src = None
    <3>1. call[c].pc = "idle" /\ call[c].src = None
      BY <2>2 DEF Kept, Beginning
    <3>2. call[c].pin = None
      BY <2>2, <3>1 DEF Kept, CallKept, OwnerStep
    <3> QED BY <3>1, <3>2, RestartMoves
  <2> QED BY <1>1, <1>2, <2>1, <2>2, CallKinds DEF Kept, Beginning
<1>10. ASSUME NEW d \in Call PROVE CallKept(d, n, i)'
  <2>1. CASE /\ call'[d].pc \in {"failed", "denied"} /\ call'[d].pin = None
             /\ call'[d].src = None /\ call'[d].h = NoHandle
    BY <2>1, EndedBacks DEF Ended
  <2>2. CASE /\ call'[d].h = call[d].h /\ call'[d].prev = call[d].prev
             /\ call'[d].src = IF call[d].src \in {o \in Obj : obj[o].node = k}
                               THEN None ELSE call[d].src
             /\ call'[d].pin = IF call[d].pin \in {o \in Obj : obj[o].node = k}
                               THEN None ELSE call[d].pin
             /\ \/ call'[d].pc = call[d].pc
                \/ /\ call[d].pin \in {o \in Obj : obj[o].node = k}
                   /\ call[d].pc = "unmap" /\ call'[d].pc = "free"
             /\ ~ /\ call[d].src \in {o \in Obj : obj[o].node = k}
                  /\ call[d].pin \in {o \in Obj : obj[o].node = k}
    <3>1. PICK h \in Handle : h = call[d].h /\ Dated(h) /\ CallKept(d, n, i)
      BY CallFields DEF CallKept, Kept
    <3>2. /\ call[d].src \in Obj \cup {None} /\ call[d].pin \in Obj \cup {None}
          /\ None \notin Obj
      BY CallFields, CallKinds
    <3>3. /\ call'[d].src # None =>
               /\ call'[d].src = call[d].src /\ call[d].src \in Obj
               /\ obj[call[d].src].node # k
               /\ obj'[call[d].src].node = obj[call[d].src].node
               /\ obj'[call[d].src].gen = obj[call[d].src].gen
          /\ call'[d].pin # None =>
               /\ call'[d].pin = call[d].pin /\ call[d].pin \in Obj
               /\ obj[call[d].pin].node # k /\ call'[d].pc = call[d].pc
      BY <1>3, <2>2, <3>2
    <3>4. Speaks(d)' => /\ Agrees(h, n, i)'
                        /\ d \notin Migration => Backed(h)'
      <4>1. Speaks(d)' => Speaks(d)
        BY <2>2 DEF Speaks
      <4> QED BY <1>5, <1>6, <3>1, <4>1 DEF CallKept
    <3>5. ASSUME d \in Migration
          PROVE  Course(d)' /\ Left(d)' /\ Private(d)' /\ Held(d)'
      <4>1. d \in Obj /\ Course(d) /\ Left(d) /\ Private(d) /\ Held(d)
        BY <3>1, <3>5, CallKinds DEF CallKept
      <4>2. Leaves(d)' => Leaves(d) /\ call'[d].pin # None
        <5> SUFFICES ASSUME Leaves(d)' PROVE Leaves(d) /\ call'[d].pin # None
          OBVIOUS
        <5>1. Leaves(d) /\ h.owner # k
          BY <2>2, <3>1, <3>3 DEF Leaves
        <5>2. call[d].pin # None /\ obj[call[d].pin].node = h.owner
          BY <3>1, <4>1, <5>1 DEF Course, CallKept
        <5> QED BY <2>2, <5>1, <5>2
      <4>3. Discarding(d)' => Discarding(d)
        <5> SUFFICES ASSUME Discarding(d)', Leaves(d) PROVE FALSE
          BY <2>2 DEF Discarding
        <5>1. /\ call[d].src # None /\ obj[call[d].src].node = h.owner
              /\ call[d].pin # None /\ obj[call[d].pin].node = h.owner
          BY <3>1, <4>1 DEF Leaves, Course, CallKept
        <5>2. h.owner # k
          BY <2>2, <3>2, <5>1
        <5>3. call'[d].src = call[d].src /\ obj'[call[d].src].node = h.owner
          BY <1>3, <2>2, <3>2, <5>1, <5>2
        <5> QED BY <2>2, <3>1, <5>1, <5>3 DEF Discarding, Leaves
      <4>4. Building(d)' => Building(d)
        BY <2>2 DEF Building
      <4>5. ASSUME Exists(d)'
            PROVE  /\ Exists(d) /\ obj[d].node # k /\ obj[d].node \in Node
                   /\ obj'[d].node = obj[d].node /\ obj'[d].gen = obj[d].gen
                   /\ \A g : Names(g, d)' <=> Names(g, d)
        <5>1. /\ Exists(d) /\ obj[d].node # k /\ obj[d].node \in Node
              /\ obj'[d].node = obj[d].node /\ obj'[d].gen = obj[d].gen
          BY <1>2, <1>3, <4>1, <4>5, CopyFields DEF Exists
        <5> QED BY <1>1, <5>1 DEF Names
      <4>6. Course(d)'
        <5>1. ASSUME Exists(d)', Building(d)' \/ call'[d].pc = "publish"
              PROVE  Names(call[d].h, d)'
          <6>1. Names(h, d)
            BY <2>2, <3>1, <4>1, <4>4, <4>5, <5>1 DEF Course
          <6>2. Names(h, d)'
            BY <4>5, <5>1, <6>1
          <6> QED BY <2>2, <3>1, <6>2 DEF Names
        <5> QED
          BY <2>2, <3>3, <4>1, <4>2, <4>5, <5>1 DEF Course
      <4>7. Left(d)'
        <5> SUFFICES ASSUME \/ Leaves(d)'
                            \/ call'[d].src # None /\ call'[d].pc \in {"publish", "drop"}
                     PROVE  obj'[call[d].src].gen < table.gen /\ call'[d].src = call[d].src
          BY <1>1 DEF Left
        <5>1. call'[d].src # None
          BY DEF Leaves
        <5>2. Leaves(d) \/ (call[d].src # None /\ call[d].pc \in {"publish", "drop"})
          BY <2>2, <3>3, <4>2, <5>1
        <5> QED BY <3>3, <4>1, <5>1, <5>2 DEF Left
      <4>8. Private(d)'
        <5> SUFFICES ASSUME obj'[d].mapped, Building(d)' \/ Discarding(d)',
                            Names(table, d)'
                     PROVE  FALSE
          BY DEF Private
        <5>1. obj[d].mapped /\ Exists(d)'
          BY <1>2, <1>3, <4>1, <3>5 DEF Exists, Refs, MappedExist
        <5>2. Names(table, d)
          BY <1>1, <4>5, <5>1 DEF Names
        <5> QED BY <4>1, <4>3, <4>4, <5>1, <5>2 DEF Private
      <4>9. Held(d)'
        <5>1. ASSUME Building(d)', Exists(d)', obj'[d].lease > 0,
                     obj'[d].gen > table.gen
              PROVE  obj'[d].mapped
          BY <1>3, <4>1, <4>4, <4>5, <5>1 DEF Held
        <5>2. ASSUME call'[d].pc = "cas", h.owner # None, h.inc = inc'[h.owner]
              PROVE  Exists(d)' /\ obj'[d].state = "Ready" /\ obj'[d].lease >= h.lease
          <6>1. call[d].pc = "cas" /\ h.owner # k /\ h.inc = inc[h.owner]
            BY <1>4, <2>2, <3>1, <5>2
          <6>2. Exists(d) /\ obj[d].state = "Ready" /\ obj[d].lease >= h.lease
            BY <3>1, <4>1, <5>2, <6>1 DEF Held
          <6>3. obj[d].node = h.owner
            BY <3>1, <4>1, <6>1, <6>2 DEF Course, Building, Names
          <6> QED BY <1>3, <4>1, <6>1, <6>2, <6>3 DEF Exists
        <5> QED BY <1>1, <2>2, <3>1, <5>1, <5>2 DEF Held
      <4> QED BY <4>6, <4>7, <4>8, <4>9
    <3>6. ASSUME d \in Renewal
          PROVE  Renewing(d)'
      <4> SUFFICES ASSUME call'[d].pc = "renew", call'[d].pin # None,
                          h.gen = table.gen, obj'[call[d].pin].lease > 0,
                          Names(h, call[d].pin)'
                   PROVE  obj'[call[d].pin].mapped
        BY <1>1, <2>2, <3>1, <3>3 DEF Renewing, Names
      <4>1. PICK o \in Obj : o = call[d].pin /\ obj[o].node # k
        BY <3>3
      <4>2. obj[o].node \in Node /\ Names(h, o)
        <5>1. obj[o].node # None
          BY <3>2, <4>1, CallKinds DEF Refs, CallHolds
        <5>2. Names(h, o)' /\ obj[o].node \in Node
          BY <2>2, <3>3, <4>1, <5>1, CopyFields DEF Names
        <5> QED BY <1>1, <1>3, <4>1, <5>2 DEF Names
      <4> QED BY <1>3, <2>2, <3>1, <3>3, <3>6, <4>1, <4>2 DEF CallKept, Renewing
    <3>7. call'[d].pin # None => /\ call'[d].pc \in OwnerStep \cup {"unmap"}
                                 /\ obj'[call[d].pin].node = h.owner
      BY <1>3, <3>1, <3>3 DEF CallKept
    <3>8. d \notin Migration => call'[d].src = None
      BY <2>2, <3>1 DEF CallKept
    <3>9. Dated(h)'
      BY <1>4, <3>1
    <3> QED
      BY SMTT(30), <2>2, <3>1, <3>3, <3>4, <3>5, <3>6, <3>7, <3>8, <3>9
      DEF CallKept, Dated, Agrees, Backed, Names
  <2> QED BY <2>1, <2>2, RestartMoves
<1> QED BY <1>7, <1>8, <1>9, <1>10 DEF Kept

(* A step of the leader's alone that stays in the generation. *)
LEMMA LeaderBacks ==
    ASSUME TypeOK, TypeOK', Refs, NEW n, NEW i, Kept(n, i),
           UNCHANGED <<inc, obj, call>>, EntryStays, Vouched(table, n, i)',
           table'.owner # None => table'.lease > 0,
           table.owner = None /\ table'.owner # None =>
             call[Origin].pc \notin {"idle", "alloc"},
           \A k \in Node : peer'[k] <= inc[k],
           \A m \in gossip' :
             \/ m \in gossip
             \/ /\ Vouched(m.h, n, i) /\ m.inc <= inc[m.node] /\ m.h \in Handle
                /\ m.h.owner # None => call[Origin].pc \notin {"idle", "alloc"}
    PROVE  Kept(n, i)'
<1>1. Steady(None) /\ Agrees(table, n, i)
  BY SameSteady DEF Kept, EntriesKept, Vouched
<1>2. \A d \in Call : CallKept(d, n, i)'
  BY <1>1, OtherBacks, CallKinds
<1>3. EntriesKept(n, i)'
  <2>1. ASSUME NEW m \in gossip' PROVE Vouched(m.h, n, i)' /\ m.inc <= inc[m.node]
    <3>1. PICK h \in Handle : h = m.h /\ Vouched(h, n, i) /\ m.inc <= inc[m.node]
      BY EntryFields DEF Kept, EntriesKept
    <3>2. Vouched(h, n, i)'
      BY <1>1, <3>1, VouchedStays
    <3> QED BY <3>1, <3>2
  <2> QED BY <2>1 DEF EntriesKept
<1>4. CopiesKept(n, i)'
  <2>1. MappedOnce' /\ ReadyFull'
    BY DEF Kept, CopiesKept, MappedOnce, ReadyFull
  <2>2. ASSUME NEW o \in Obj, Exists(o), obj[o].published
        PROVE  Agrees(HandleOf(o), n, i)'
    <3>1. Agrees(HandleOf(o), n, i)
      BY <2>2 DEF Kept, CopiesKept
    <3> QED BY <3>1 DEF HandleOf, Agrees, EntryStays
  <2> QED BY <2>1, <2>2 DEF Kept, CopiesKept, Exists
<1>5. Beginning'
  BY DEF Kept, Beginning, EntryStays, Exists
<1> QED BY <1>2, <1>3, <1>4, <1>5 DEF Kept

(* The entry is marked lost, or nothing happens to it. *)
LEMMA LostBacks ==
    ASSUME TypeOK, TypeOK', NEW n, NEW i, Kept(n, i), UNCHANGED <<inc, obj>>,
           table'.owner = table.owner, table'.inc = table.inc,
           table'.gen = table.gen, table'.lease = table.lease,
           table'.state = "Ready" => table.state = "Ready"
    PROVE  /\ EntryStays /\ Vouched(table, n, i)'
           /\ table'.owner # None => table'.lease > 0
<1>1. Vouched(table, n, i) /\ (table.owner # None => table.lease > 0)
  BY DEF Kept, EntriesKept
<1>2. \A o \in Obj : Names(table, o)' <=> Names(table, o)
  BY DEF Names
<1> QED BY <1>1, <1>2 DEF EntryStays, Vouched, Dated, Agrees, Backed

(* The inventory of a node names what its map holds. *)
LEMMA InventoryBacked ==
    ASSUME TypeOK, Refs, NEW n, NEW i, Kept(n, i), NEW o \in Obj,
           obj[o].mapped, obj[o].published
    PROVE  /\ HandleOf(o) \in Handle /\ Vouched(HandleOf(o), n, i)
           /\ call[Origin].pc \notin {"idle", "alloc"}
<1>1. Exists(o) /\ obj[o].node \in Node
  BY CopyFields DEF Exists, Refs, MappedExist
<1>2. PICK h \in Handle :
        /\ h = HandleOf(o) /\ h.owner = obj[o].node /\ h.inc = inc[obj[o].node]
        /\ h.gen = obj[o].gen /\ h.state = obj[o].state /\ h.lease = obj[o].lease
  <2>1. HandleOf(o) \in Handle
    BY <1>1, HandleOfType DEF Exists
  <2> QED BY <2>1 DEF HandleOf
<1>3. Agrees(h, n, i)
  BY <1>1, <1>2 DEF Kept, CopiesKept
<1>4. Dated(h)
  BY <1>1, <1>2, CopyFields, EntryFields DEF Dated
<1>5. Backed(h)
  <2>1. Names(h, o)
    BY <1>2 DEF Names
  <2>2. \A q \in Obj : obj[q].mapped /\ Names(h, q) => q = o
    BY <1>2 DEF Names, Kept, CopiesKept, MappedOnce
  <2>3. obj[o].lease >= h.lease
    BY <1>2, CopyFields
  <2> QED BY <1>2, <2>1, <2>2, <2>3 DEF Backed
<1>6. call[Origin].pc \notin {"idle", "alloc"}
  BY <1>1 DEF Kept, Beginning
<1> QED BY <1>2, <1>3, <1>4, <1>5, <1>6 DEF Vouched

LEMMA MembershipBacks ==
    ASSUME TypeOK, TypeOK', Refs, NEW n, NEW i, Kept(n, i), Membership, ~lapsed'
    PROVE  Kept(n, i)'
<1>1. UNCHANGED <<inc, obj, call>>
  BY DEF Membership, Exchange, ExpirePeer, RefreshCapabilities, AcceptPeer,
     DropGossip
<1>2. /\ table \in Handle /\ \A k \in Node : peer[k] <= inc[k] /\ inc[k] \in Nat
      /\ \A m \in gossip : /\ Vouched(m.h, n, i) /\ m.inc <= inc[m.node]
                           /\ m.h \in Handle /\ m.node \in Node
                           /\ m.h.owner # None =>
                                call[Origin].pc \notin {"idle", "alloc"}
      /\ peer \in [Node -> Nat]
  BY EntryFields DEF Kept, EntriesKept, Beginning, TypeOK
<1>3. CASE /\ table' = table /\ gossip' \subseteq gossip
           /\ \A k \in Node : peer'[k] <= inc[k]
  BY <1>1, <1>3, LeaderBacks, LostBacks
<1>4. ASSUME NEW k \in Node, Exchange(k) PROVE Kept(n, i)'
  <2>1. PICK h \in {HandleOf(o) : o \in {m \in MappedAt(k) :
                      obj[m].published /\ obj[m].lock = None}} \cup {NoHandle} :
          gossip' = gossip \cup {[node |-> k, inc |-> inc[k], h |-> h]}
    BY <1>4 DEF Exchange
  <2>2. UNCHANGED <<table, peer>>
    BY <1>4 DEF Exchange, leader
  <2>3. /\ h \in Handle /\ Vouched(h, n, i)
        /\ h.owner # None => call[Origin].pc \notin {"idle", "alloc"}
    <3>1. CASE h = NoHandle
      BY <3>1, NoHandleType DEF Vouched, Dated, Agrees, Backed, NoHandle
    <3>2. CASE h # NoHandle
      <4>1. PICK o \in Obj : h = HandleOf(o) /\ obj[o].mapped /\ obj[o].published
        BY <2>1, <3>2 DEF MappedAt
      <4> QED BY <4>1, InventoryBacked
    <3> QED BY <3>1, <3>2
  <2>4. \A m \in gossip' :
          \/ m \in gossip
          \/ /\ Vouched(m.h, n, i) /\ m.inc <= inc[m.node] /\ m.h \in Handle
             /\ m.h.owner # None => call[Origin].pc \notin {"idle", "alloc"}
    BY <1>2, <2>1, <2>3
  <2>5. \A q \in Node : peer'[q] <= inc[q]
    BY <1>2, <2>2
  <2> QED BY <1>1, <2>2, <2>4, <2>5, LeaderBacks, LostBacks
<1>5. ASSUME NEW m \in gossip, AcceptPeer(m) PROVE Kept(n, i)'
  <2>1. /\ gossip' \subseteq gossip /\ peer' = [peer EXCEPT ![m.node] = m.inc]
        /\ Lapse
    BY <1>5 DEF AcceptPeer
  <2>2. PICK after \in {table, LoseNode(table, m.node)} :
          table' = IF m.h = NoHandle THEN after ELSE Registered(after, m.h)
    BY <1>5 DEF AcceptPeer
  <2>3. /\ after \in Handle /\ after.owner = table.owner /\ after.inc = table.inc
        /\ after.gen = table.gen /\ after.lease = table.lease
        /\ after.state = "Ready" => table.state = "Ready"
    BY <1>2 DEF LoseNode, Handle
  <2>4. \A k \in Node : peer'[k] <= inc[k]
    BY <1>2, <2>1
  <2>5. CASE m.h = NoHandle
    <3>1. table' = after
      BY <2>2, <2>5
    <3> QED BY <1>1, <2>1, <2>3, <2>4, <3>1, LeaderBacks, LostBacks
  <2>6. CASE m.h # NoHandle
    <3>1. table' = Registered(after, m.h) /\ m.h.owner # None
      BY <2>2, <2>6 DEF Refs, GossipNamed
    <3>2. /\ EntryStays /\ Vouched(table, n, i)'
          /\ table'.owner # None /\ table'.lease > 0
      BY <1>1, <1>2, <2>1, <2>3, <3>1, VoiceRegistered
    <3> QED BY <1>1, <1>2, <2>1, <2>4, <3>1, <3>2, LeaderBacks
  <2> QED BY <2>5, <2>6
<1>6. ASSUME NEW k \in Node, ExpirePeer(k) PROVE Kept(n, i)'
  <2>1. /\ table' = LoseNode(table, k) /\ gossip' = gossip
        /\ peer' = [peer EXCEPT ![k] = 0]
    BY <1>6 DEF ExpirePeer
  <2>2. /\ table'.owner = table.owner /\ table'.inc = table.inc
        /\ table'.gen = table.gen /\ table'.lease = table.lease
        /\ table'.state = "Ready" => table.state = "Ready"
    BY <1>2, <2>1 DEF LoseNode, Handle
  <2>3. \A q \in Node : peer'[q] <= inc[q]
    BY <1>2, <2>1
  <2> QED BY <1>1, <2>1, <2>2, <2>3, LeaderBacks, LostBacks
<1>7. ASSUME NEW k \in Node, RefreshCapabilities(k) PROVE Kept(n, i)'
  <2>1. table' = table /\ gossip' = gossip
    BY <1>7 DEF RefreshCapabilities
  <2>2. PICK j \in 1..inc[k] : peer' = [peer EXCEPT ![k] = j]
    BY <1>7 DEF RefreshCapabilities
  <2>3. \A q \in Node : peer'[q] <= inc[q]
    BY <1>2, <2>2 DEF TypeOK
  <2> QED BY <1>3, <2>1, <2>3
<1>8. ASSUME NEW m \in gossip, DropGossip(m) PROVE Kept(n, i)'
  BY <1>2, <1>3, <1>8 DEF DropGossip, leader
<1> QED BY <1>4, <1>5, <1>6, <1>7, <1>8 DEF Membership

(* Time passes for everybody alike. *)
LEMMA AgedMonotone ==
    ASSUME NEW a \in Int, NEW b \in Int
    PROVE  /\ Aged(a) \in Int /\ (Aged(a) > 0 => a > 0) /\ (a >= 0 => Aged(a) >= 0)
           /\ a >= b /\ a >= 0 => Aged(a) >= Aged(b)
           /\ Aged(a) # 0 /\ a > 0 => Aged(a) > 0
BY DEF Aged

LEMMA AgedFields ==
    ASSUME NEW h \in Handle
    PROVE  /\ AgedHandle(h).owner = h.owner /\ AgedHandle(h).inc = h.inc
           /\ AgedHandle(h).gen = h.gen /\ AgedHandle(h).state = h.state
           /\ AgedHandle(h).lease = Aged(h.lease) /\ h.lease \in Int
           /\ AgedHandle(h) \in Handle
BY AgedType, HandleFields, ConstantsAssumption
DEF AgedHandle, Handle, LeaseTicks, Tombstone

LEMMA TickBacks ==
    ASSUME TypeOK, TypeOK', Refs, NEW n, NEW i, Kept(n, i), Tick, ~lapsed'
    PROVE  Kept(n, i)'
<1>1. /\ table \in Handle /\ table' = AgedHandle(table) /\ Lapse
      /\ UNCHANGED <<inc, peer>>
      /\ table'.owner = table.owner /\ table'.inc = table.inc
      /\ table'.gen = table.gen /\ table'.state = table.state
      /\ table'.lease = Aged(table.lease) /\ table.lease \in Int
  BY EntryFields, AgedFields DEF Tick
<1>2. \A o \in Obj :
        /\ obj'[o].node = obj[o].node /\ obj'[o].gen = obj[o].gen
        /\ obj'[o].mapped = obj[o].mapped /\ obj'[o].state = obj[o].state
        /\ obj'[o].full = obj[o].full /\ obj'[o].published = obj[o].published
        /\ obj'[o].lease = Aged(obj[o].lease) /\ obj[o].lease \in Int
        /\ obj[o].lease >= 0
  <2> SUFFICES ASSUME NEW o \in Obj
               PROVE  /\ obj'[o].node = obj[o].node /\ obj'[o].gen = obj[o].gen
                      /\ obj'[o].mapped = obj[o].mapped
                      /\ obj'[o].state = obj[o].state
                      /\ obj'[o].full = obj[o].full
                      /\ obj'[o].published = obj[o].published
                      /\ obj'[o].lease = Aged(obj[o].lease)
                      /\ obj[o].lease \in Int /\ obj[o].lease >= 0
    OBVIOUS
  <2>1. obj'[o] = [obj[o] EXCEPT !.lease = Aged(@)] /\ obj[o] \in Object
    BY DEF Tick, TypeOK
  <2>2. obj[o].lease \in Int /\ obj[o].lease >= 0
    BY CopyFields
  <2> QED BY <2>1, <2>2 DEF Object
<1>3. \A c \in Call :
        /\ call'[c].pc = call[c].pc /\ call'[c].pin = call[c].pin
        /\ call'[c].src = call[c].src /\ call'[c].prev = call[c].prev
        /\ call'[c].h = AgedHandle(call[c].h)
  BY CallFields DEF Tick, CallState
<1>4. \A m \in gossip' : \E g \in gossip :
        /\ m.h = AgedHandle(g.h) /\ g.h \in Handle
        /\ m.inc = g.inc /\ m.node = g.node
  <2> SUFFICES ASSUME NEW m \in gossip'
               PROVE  \E g \in gossip : /\ m.h = AgedHandle(g.h) /\ g.h \in Handle
                                        /\ m.inc = g.inc /\ m.node = g.node
    OBVIOUS
  <2>1. PICK g \in gossip : m = [g EXCEPT !.h = AgedHandle(@)]
    BY DEF Tick
  <2>2. g \in [node : Node, inc : Nat, h : Handle]
    BY DEF TypeOK
  <2> QED BY <2>1, <2>2
<1>5. ASSUME NEW h \in Handle, NEW a \in Handle, a = AgedHandle(h)
      PROVE  /\ Dated(h) => Dated(a)'
             /\ Agrees(h, n, i) => Agrees(a, n, i)'
             /\ Dated(h) /\ Backed(h) => Backed(a)'
             /\ \A o \in Obj : Names(a, o)' <=> Names(h, o)
  <2>1. /\ a.owner = h.owner /\ a.inc = h.inc /\ a.gen = h.gen
        /\ a.state = h.state /\ a.lease = Aged(h.lease) /\ h.lease \in Int
    BY <1>5, AgedFields
  <2>2. \A o \in Obj : Names(a, o)' <=> Names(h, o)
    BY <1>1, <1>2, <2>1 DEF Names
  <2>3. Dated(h) => Dated(a)'
    BY <1>1, <2>1, AgedMonotone DEF Dated
  <2>4. Agrees(h, n, i) => Agrees(a, n, i)'
    BY <1>1, <2>1 DEF Agrees
  <2>5. ASSUME Backed(h) PROVE Backed(a)'
    <3> SUFFICES ASSUME h.owner # None, h.inc = inc[h.owner], h.gen = table.gen
                 PROVE  /\ a.lease > 0 => \E o \in Obj : obj[o].mapped /\ Names(h, o)
                        /\ \A o \in Obj : obj[o].mapped /\ Names(h, o) =>
                             /\ obj'[o].lease >= a.lease
                             /\ h.state = "Ready" => obj[o].state = "Ready"
      BY <1>1, <1>2, <2>1, <2>2 DEF Backed
    <3>1. a.lease > 0 => h.lease > 0
      BY <2>1, AgedMonotone
    <3>2. \A o \in Obj : obj[o].lease >= h.lease => obj'[o].lease >= a.lease
      BY <1>2, <2>1, AgedMonotone
    <3> QED BY <2>5, <3>1, <3>2 DEF Backed
  <2> QED BY <2>2, <2>3, <2>4, <2>5
<1>6. EntriesKept(n, i)'
  <2>1. PICK t \in Handle : t = table'
    BY DEF TypeOK
  <2>2. Vouched(t, n, i)'
    BY <1>1, <1>5, <2>1 DEF Kept, EntriesKept, Vouched
  <2>3. Vouched(table, n, i)'
    BY <2>1, <2>2 DEF Vouched, Dated, Agrees, Backed, Names
  <2>4. ASSUME NEW m \in gossip' PROVE Vouched(m.h, n, i)' /\ m.inc <= inc[m.node]
    <3>1. PICK g \in gossip : /\ m.h = AgedHandle(g.h) /\ g.h \in Handle
                              /\ m.inc = g.inc /\ m.node = g.node
      BY <1>4
    <3>2. PICK a \in Handle : a = AgedHandle(g.h) /\ a = m.h
      BY <3>1, AgedFields
    <3>3. Vouched(a, n, i)'
      BY <1>5, <3>1, <3>2 DEF Kept, EntriesKept, Vouched
    <3> QED BY <3>1, <3>2, <3>3 DEF Kept, EntriesKept
  <2>5. table'.owner # None => table'.lease > 0
    BY <1>1, NotLapsed, AgedMonotone DEF Kept, EntriesKept
  <2> QED BY <1>1, <2>3, <2>4, <2>5 DEF Kept, EntriesKept
<1>7. CopiesKept(n, i)'
  <2>1. MappedOnce' /\ ReadyFull'
    BY <1>2 DEF Kept, CopiesKept, MappedOnce, ReadyFull
  <2>2. ASSUME NEW o \in Obj, Exists(o)', obj'[o].published
        PROVE  Agrees(HandleOf(o), n, i)'
    <3>1. Agrees(HandleOf(o), n, i)
      BY <1>2, <2>2 DEF Kept, CopiesKept, Exists
    <3> QED BY <1>1, <1>2, <3>1 DEF HandleOf, Agrees
  <2> QED BY <1>2, <2>1, <2>2, CallKinds DEF Kept, CopiesKept, Exists
<1>8. Beginning'
  <2>1. \A o \in Obj : Exists(o)' <=> Exists(o)
    BY <1>2 DEF Exists
  <2>2. \A m \in gossip' : \E g \in gossip : m.h.owner = g.h.owner
    BY <1>4, AgedFields
  <2>3. /\ Origin \in Call /\ call'[Origin].h.gen = call[Origin].h.gen
        /\ call'[Origin].h.state = call[Origin].h.state
    BY <1>3, CallKinds, CallFields, AgedFields
  <2> QED BY <1>1, <1>3, <2>1, <2>2, <2>3, CallKinds DEF Kept, Beginning
<1>9. ASSUME NEW d \in Call PROVE CallKept(d, n, i)'
  <2>1. PICK h \in Handle : h = call[d].h /\ Dated(h) /\ CallKept(d, n, i)
    BY CallFields DEF CallKept, Kept
  <2>2. PICK a \in Handle : a = AgedHandle(h) /\ a = call'[d].h
    BY <1>3, <2>1, AgedFields
  <2>3. /\ a.owner = h.owner /\ a.inc = h.inc /\ a.gen = h.gen
        /\ a.state = h.state /\ a.lease = Aged(h.lease) /\ h.lease \in Int
    BY <2>2, AgedFields
  <2>4. Dated(a)' /\ \A o \in Obj : Names(a, o)' <=> Names(h, o)
    BY <1>5, <2>1, <2>2
  <2>5. Speaks(d)' => /\ Agrees(a, n, i)'
                      /\ d \notin Migration => Backed(a)'
    <3>1. Speaks(d)' => Speaks(d)
      BY <1>3 DEF Speaks
    <3> QED BY <1>5, <2>1, <2>2, <3>1 DEF CallKept
  <2>6. call[d].src \in Obj \cup {None} /\ call[d].pin \in Obj \cup {None}
    BY CallFields
  <2>7. ASSUME d \in Migration
        PROVE  Course(d)' /\ Left(d)' /\ Private(d)' /\ Held(d)'
    <3>1. d \in Obj /\ Course(d) /\ Left(d) /\ Private(d) /\ Held(d)
      BY <2>1, <2>7, CallKinds DEF CallKept
    <3>2. /\ Leaves(d)' <=> Leaves(d)
          /\ Building(d)' <=> Building(d)
          /\ Exists(d)' <=> Exists(d)
      BY <1>2, <1>3, <2>1, <2>2, <2>3, <2>6, <3>1 DEF Leaves, Building, Exists
    <3>3. Discarding(d)' <=> Discarding(d)
      BY <1>3, <3>2 DEF Discarding
    <3>4. Names(call[d].h, d)' <=> Names(h, d)
      BY <1>1, <1>2, <2>2, <2>3, <3>1 DEF Names
    <3>5. Course(d)'
      BY <1>2, <1>3, <2>1, <2>2, <2>3, <2>6, <3>1, <3>2, <3>4 DEF Course
    <3>6. Left(d)'
      BY <1>1, <1>2, <1>3, <2>6, <3>1, <3>2 DEF Left, Leaves
    <3>7. Private(d)'
      BY <1>1, <1>2, <3>1, <3>2, <3>3 DEF Private, Names
    <3>8. Held(d)'
      <4>1. obj'[d].lease > 0 => obj[d].lease > 0
        BY <1>2, <3>1, AgedMonotone
      <4>2. obj[d].lease >= h.lease => obj'[d].lease >= a.lease
        BY <1>2, <2>3, <3>1, AgedMonotone
      <4> QED BY <1>1, <1>2, <1>3, <2>1, <2>2, <2>3, <3>1, <3>2, <4>1, <4>2 DEF Held
    <3> QED BY <3>5, <3>6, <3>7, <3>8
  <2>8. ASSUME d \in Renewal
        PROVE  Renewing(d)'
    <3> SUFFICES ASSUME call[d].pc = "renew", call[d].pin # None,
                        h.gen = table.gen, obj'[call[d].pin].lease > 0,
                        Names(h, call[d].pin)
                 PROVE  obj[call[d].pin].mapped
      BY <1>1, <1>2, <1>3, <2>2, <2>3, <2>6 DEF Renewing, Names
    <3>1. obj[call[d].pin].lease > 0
      BY <1>2, <2>6, AgedMonotone
    <3> QED BY <2>1, <2>8, <3>1 DEF CallKept, Renewing
  <2>9. call[d].pin # None => obj'[call[d].pin].node = obj[call[d].pin].node
    BY <1>2, <2>6
  <2> QED
    BY <1>3, <2>1, <2>2, <2>3, <2>4, <2>5, <2>7, <2>8, <2>9
    DEF CallKept, Dated, Agrees, Backed, Names
<1> QED BY <1>6, <1>7, <1>8, <1>9 DEF Kept

(* What the histories and the sent requests record is not forgotten. *)
LEMMA UndisturbedBefore ==
    ASSUME TypeOK, Refs, [Next]_vars, Undisturbed'
    PROVE  Undisturbed
<1>1. CASE UNCHANGED vars
  BY <1>1 DEF vars, leader, Undisturbed
<1>2. CASE Next
  <2>1. \A f \in Release : call[f].pc = "idle"
    BY <1>2, CallsCalm DEF Undisturbed, Call
  <2>2. crossed => crossed'
    BY ZenonT(60), <1>2
    DEF Next, Work, Start, CallStep, Membership, Allocate, Grant, ClientWrite,
        ClientCommit, StartRenew, StartFree, PickForMigration, ResolveFor,
        AllocateLocal, Arrive, WriteChunks, Commit, Register, Renew, FreeCheck,
        Unmap, Expire, Migrate, LockSource, CompareAndSet, Publish, DropSource,
        RpcError, Abandon, DropStray, Restart, Exchange, AcceptPeer, DropGossip,
        ExpirePeer, RefreshCapabilities, Tick
  <2>3. lapsed => lapsed'
    BY ZenonT(60), <1>2
    DEF Next, Work, Start, CallStep, Membership, Allocate, Grant, ClientWrite,
        ClientCommit, StartRenew, StartFree, PickForMigration, ResolveFor,
        AllocateLocal, Arrive, WriteChunks, Commit, Register, Renew, FreeCheck,
        Unmap, Expire, Migrate, LockSource, CompareAndSet, Publish, DropSource,
        RpcError, Abandon, DropStray, Restart, Exchange, AcceptPeer, DropGossip,
        ExpirePeer, RefreshCapabilities, Tick, leader, Lapse
  <2> QED BY <2>1, <2>2, <2>3 DEF Undisturbed
<1> QED BY <1>1, <1>2

LEMMA CallStepBacks ==
    ASSUME TypeOK, TypeOK', Refs, Generations, NEW n, NEW i, Kept(n, i),
           Undisturbed, Undisturbed', NEW c \in Call, CallStep(c)
    PROVE  \E m, j : Kept(m, j)'
<1>1. c \notin Release /\ call[c].pc # "idle" /\ ~crossed' /\ ~lapsed'
  BY StepUnderWay DEF Undisturbed
<1>2. CASE AllocateLocal(c)
  <2>1. c = Origin \/ c \in Migration
    BY <1>2, StepsOf DEF Call, Refs, CallRole, Quiet, Ended, AllocateLocal
  <2> QED BY <1>2, <2>1, FirstCopyBacks, NextCopyBacks
<1>3. CASE CompareAndSet(c)
  BY <1>1, <1>3, CompareAndSetBacks
<1>4. CASE RpcError(c)
  BY <1>1, <1>4, FailsBacks DEF RpcError, leader
<1>5. CASE \E dst \in Node : LockSource(c, dst)
  BY <1>5, LockSourceBacks
<1>6. CASE Abandon(c) \/ DropStray(c)
  BY <1>6, StrayBacks
<1>7. CASE Commit(c)
  BY <1>1, <1>7, CommitBacks
<1>8. CASE Register(c) \/ Renew(c) \/ Unmap(c) \/ Publish(c)
  BY <1>1, <1>8, RegisterBacks, RenewBacks, UnmapBacks, PublishBacks
<1>9. CASE \/ Arrive(c) \/ WriteChunks(c) \/ FreeCheck(c) \/ Migrate(c)
           \/ DropSource(c)
  BY <1>9, ArriveBacks, WriteChunksBacks, FreeCheckBacks, MigrateBacks,
     DropSourceBacks
<1> QED
  BY <1>2, <1>3, <1>4, <1>5, <1>6, <1>7, <1>8, <1>9 DEF CallStep

LEMMA InitBacks ==
    ASSUME Init
    PROVE  Kept(None, 0)
<1>1. /\ \A o \in Obj : obj[o].node = None /\ ~obj[o].mapped /\ obj[o].state = "Writing"
      /\ \A c \in Call : /\ call[c].pc = "idle" /\ call[c].h = NoHandle
                         /\ call[c].src = None /\ call[c].pin = None
      /\ table = NoHandle /\ gossip = {} /\ Origin \in Obj /\ Origin \in Call
      /\ \A k \in Node : peer[k] = 1 /\ inc[k] = 1
      /\ NoHandle.owner = None /\ NoHandle.gen = 0 /\ NoHandle.lease = 0
  BY CallKinds DEF Init, NoObject, IdleCall, NoHandle
<1>2. CopiesKept(None, 0)
  BY <1>1 DEF CopiesKept, MappedOnce, ReadyFull, Exists
<1>3. EntriesKept(None, 0)
  BY <1>1 DEF EntriesKept, Vouched, Dated, Agrees, Backed
<1>4. Beginning
  BY <1>1, CallKinds DEF Beginning, Exists
<1>5. ASSUME NEW c \in Call PROVE CallKept(c, None, 0)
  <2>1. ~Speaks(c) /\ ~Building(c) /\ ~Leaves(c) /\ ~Discarding(c)
    BY <1>1 DEF Speaks, Building, Leaves, Discarding
  <2>2. c \in Migration => Course(c) /\ Left(c) /\ Private(c) /\ Held(c)
    BY <1>1, <2>1, CallKinds DEF Course, Left, Private, Held, Exists
  <2>3. Renewing(c)
    BY <1>1 DEF Renewing
  <2>4. Dated(call[c].h)
    BY <1>1 DEF Dated
  <2> QED BY <1>1, <2>1, <2>2, <2>3, <2>4 DEF CallKept
<1> QED BY <1>2, <1>3, <1>4, <1>5 DEF Kept

LEMMA NextBacks ==
    ASSUME TypeOK, TypeOK', Refs, Lineage, NEW n, NEW i, Kept(n, i),
           [Next]_vars, Undisturbed'
    PROVE  \E m, j : Kept(m, j)'
<1>1. Undisturbed /\ ~lapsed' /\ Generations
  BY UndisturbedBefore DEF Undisturbed, Lineage
<1>2. CASE UNCHANGED vars
  <2>1. UNCHANGED <<inc, obj, table, peer, call, gossip>>
    BY <1>2 DEF vars, leader
  <2>3. \A k \in Node : peer'[k] <= inc[k]
    BY <2>1 DEF Kept, EntriesKept
  <2> QED BY <2>1, <2>3, LeaderBacks, LostBacks
<1>3. CASE Next
  <2>1. ASSUME NEW c \in Call, CallStep(c) PROVE \E m, j : Kept(m, j)'
    BY <1>1, <2>1, CallStepBacks
  <2> QED
    BY <1>1, <1>3, <2>1, StartBacks, TickBacks, RestartBacks, ExpireBacks,
       MembershipBacks
    DEF Next, Work
<1> QED BY <1>2, <1>3

LEMMA KeptInvariant == Spec => [](Undisturbed => \E n, i : Kept(n, i))
<1>1. Init => (Undisturbed => \E n, i : Kept(n, i))
  BY InitBacks
<1>2. /\ TypeOK /\ Refs /\ TypeOK' /\ Lineage
      /\ (Undisturbed => \E n, i : Kept(n, i)) /\ [Next]_vars
      => (Undisturbed => \E n, i : Kept(n, i))'
  <2> SUFFICES ASSUME TypeOK, Refs, TypeOK', Lineage,
                      Undisturbed => \E n, i : Kept(n, i), [Next]_vars,
                      Undisturbed'
               PROVE  \E n, i : Kept(n, i)'
    OBVIOUS
  <2>1. PICK n, i : Kept(n, i)
    BY UndisturbedBefore
  <2> QED BY <2>1, NextBacks
<1> QED BY <1>1, <1>2, Invariance, LineageInvariant, PTL DEF Spec

(* The copy that the table calls Ready is in its owner's map, committed,   *)
(* whole and leased for no less, as long as the lease has been kept up,    *)
(* nobody has asked for the block to be freed and no request has met a     *)
(* copy it was not issued for: through any number of migrations that fail, *)
(* are abandoned or race each other, of renewals, of restarts and of late  *)
(* or repeated inventories (ResidencyTable::register, migrate              *)
(* and the Commit, Renew, Free and Publish handlers of control.rs).        *)
THEOREM TableTrue == Spec => []TableBacked
<1>1. TypeOK /\ (Undisturbed => \E n, i : Kept(n, i)) => TableBacked
  <2> SUFFICES ASSUME TypeOK, Undisturbed => \E n, i : Kept(n, i), ~crossed,
                      table.owner # None, table.state = "Ready",
                      table.lease > 0, ~lapsed, table.inc = inc[table.owner],
                      \A f \in Release : call[f].pc = "idle"
               PROVE  \E o \in MappedAt(table.owner) :
                        /\ obj[o].gen = table.gen /\ obj[o].state = "Ready"
                        /\ obj[o].full /\ obj[o].lease >= table.lease
    BY DEF TableBacked, CurrentCopyHeld
  <2>1. PICK n, i : Kept(n, i)
    BY DEF Undisturbed
  <2>2. Backed(table) /\ ReadyFull
    BY <2>1 DEF Kept, EntriesKept, CopiesKept, Vouched
  <2>3. PICK o \in Obj : obj[o].mapped /\ Names(table, o)
    BY <2>2 DEF Backed
  <2>4. obj[o].lease >= table.lease /\ obj[o].state = "Ready"
    BY <2>2, <2>3 DEF Backed
  <2> QED BY <2>2, <2>3, <2>4 DEF ReadyFull, MappedAt, Names
<1> QED BY <1>1, Invariance, KeptInvariant, PTL

-----------------------------------------------------------------------------
(* A migration frees its own copies *)

(* No node has been restarted. *)
NoRestart == \A k \in Node : inc[k] = 1

(* Migration c may still have to discard its destination. *)
Working(c) == Building(c) \/ Discarding(c)

(* Its compare-and-set has succeeded. *)
Handed(c) ==
    /\ call[c].src # None
    /\ call[c].pc \in {"publish", "drop"} \/ Leaves(c)

(* Its destination is too young to expire and stays in its map. *)
Fresh(c) ==
    /\ call[c].pc = "alloc" => call[c].h.lease + call[c].age >= Lease
    /\ Working(c) =>
         /\ obj[c].mapped /\ obj[c].node = call[c].h.owner
         /\ obj[c].lease + call[c].age >= Lease
         /\ call[c].pin # None => call[c].pin = c

(* Unless the table has moved on, its source is the table's own copy. *)
Reads(c) ==
    /\ call[c].pc \in {"picked", "lock"} =>
         /\ call[c].h.gen <= table.gen
         /\ call[c].h.gen = table.gen => call[c].h.owner = table.owner
    /\ call[c].pc \in {"lock", "alloc", "write", "commit", "cas"}
       /\ call[c].src # None =>
         /\ call[c].pc # "lock" => obj[call[c].src].gen <= table.gen
         /\ obj[call[c].src].gen = table.gen
            /\ (call[c].pc = "lock" => call[c].h.gen = table.gen)
            => obj[call[c].src].mapped /\ Names(table, call[c].src)

(* It holds its source's lock until it frees that source. *)
Holds(c) ==
    /\ call[c].live /\ call[c].src # None =>
         /\ call[c].pc \in {"alloc", "write", "commit", "cas", "publish", "drop"}
              => obj[call[c].src].lock = c
         /\ call[c].pc \in {"publish", "drop"} => obj[call[c].src].mapped
    /\ Leaves(c) => call[c].pin = call[c].src

(* Nobody else frees that source. *)
Parted(c) ==
    Handed(c) =>
      /\ call[c].src \in Migration => ~Working(call[c].src)
      /\ \A d \in Migration :
           Handed(d) /\ call[d].src = call[c].src => d = c

Own == \A c \in Migration : Fresh(c) /\ Reads(c) /\ Holds(c) /\ Parted(c)

(* What c's step leaves of the copies: c may make its own, lock a free one *)
(* and unlock what it has locked.                                          *)
Spared(c) ==
    \A o \in Obj :
        \/ o = c /\ ~Exists(o)
        \/ /\ obj'[o].node = obj[o].node /\ obj'[o].gen = obj[o].gen
           /\ obj'[o].lease >= obj[o].lease
           /\ obj[o].mapped => obj'[o].mapped
           /\ obj[o].lock \in {None, c} \/ obj'[o].lock = obj[o].lock

(* The same, when c may also take a copy from its map. *)
Eased(c) ==
    \A o \in Obj :
        \/ o = c /\ ~Exists(o)
        \/ /\ obj'[o].node = obj[o].node /\ obj'[o].gen = obj[o].gen
           /\ obj'[o].lease >= obj[o].lease
           /\ obj[o].lock \in {None, c} \/ obj'[o].lock = obj[o].lock

(* The copies that migration d relies on stay in their maps. *)
Minded(d) ==
    /\ Working(d) /\ obj[d].mapped => obj'[d].mapped
    /\ \A o \in Obj : Names(table, o) /\ obj[o].mapped => obj'[o].mapped
    /\ Handed(d) /\ call[d].live /\ ~Leaves(d) /\ obj[call[d].src].mapped
         => obj'[call[d].src].mapped

(* What the step of a migration says of itself. *)
OwnMove(c) ==
    /\ (Fresh(c) /\ Reads(c) /\ Holds(c))'
    /\ Handed(c)' => Handed(c) /\ call'[c].src = call[c].src
    /\ Working(c)' => Working(c) \/ ~Exists(c)

LEMMA MigrationFields ==
    ASSUME TypeOK, Refs, NEW c \in Migration
    PROVE  /\ c \in Call /\ c \in Obj /\ c # Origin /\ c \notin Renewal
           /\ call[c].age \in Nat /\ call[c].age <= Deadline
           /\ Lease \in Nat /\ Deadline \in Nat
           /\ call[c].src # None => call[c].src \in Obj /\ Exists(call[c].src)
           /\ call[c].pin # None => call[c].pin \in Obj /\ Exists(call[c].pin)
           /\ call[c].pc \in Quiet \cup
                {"picked", "lock", "alloc", "write", "commit", "cas", "publish",
                 "drop", "free", "unmap"}
           /\ call[c].pc \in {"lock", "drop"} => call[c].live /\ call[c].src # None
<1>1. c \in Call /\ c \in Obj /\ c # Origin /\ c \notin Renewal
  BY CallKinds
<1>2. call[c].age \in 0..Deadline /\ Lease \in Nat /\ Deadline \in Nat
  BY <1>1, CallFields, ConstantsAssumption DEF CallState
<1>3. call[c].pc \in Quiet \cup Steps(c)
  BY <1>1 DEF Refs, CallRole
<1>4. /\ call[c].src # None => call[c].src \in Obj /\ Exists(call[c].src)
      /\ call[c].pin # None => call[c].pin \in Obj /\ Exists(call[c].pin)
  BY <1>1, CallFields DEF Refs, CallHolds, Exists
<1>5. call[c].pc \in {"lock", "drop"} => call[c].live /\ call[c].src # None
  BY <1>1 DEF Refs, CallHolds, LocalStep, Quiet, Ended
<1> QED BY <1>1, <1>2, <1>3, <1>4, <1>5, StepsOf

(* Without restarts the entry names the copy in its owner's map. *)
LEMMA TableCopy ==
    ASSUME TypeOK, NEW n, NEW i, Kept(n, i), NoRestart, table.owner # None
    PROVE  /\ \A o \in Obj : obj[o].mapped /\ Names(table, o) => obj[o].lease > 0
           /\ \A o \in Obj : obj[o].mapped /\ obj[o].node = table.owner
                               => Names(table, o)
<1>1. Dated(table) /\ Backed(table) /\ table.lease > 0 /\ MappedOnce
  BY DEF Kept, EntriesKept, CopiesKept, Vouched
<1>2. /\ table.owner \in Node /\ table.inc \in Nat /\ table.lease \in Int
      /\ table.inc = inc[table.owner]
  BY <1>1, EntryFields DEF Dated, NoRestart
<1>3. PICK q \in Obj : obj[q].mapped /\ Names(table, q)
  BY <1>1, <1>2 DEF Backed
<1>4. \A o \in Obj : obj[o].mapped /\ Names(table, o) => obj[o].lease > 0
  BY <1>1, <1>2, CopyFields DEF Backed
<1>5. \A o \in Obj : obj[o].mapped /\ obj[o].node = table.owner => o = q
  BY <1>1, <1>3 DEF MappedOnce, Names
<1> QED BY <1>3, <1>4, <1>5

(* The other migrations, whatever c does. *)
LEMMA OthersOwn ==
    ASSUME TypeOK, TypeOK', Refs, NEW n, NEW i, Kept(n, i), Own, NEW c,
           inc' = inc, EntryStays, Eased(c), NEW d \in Migration, d # c,
           Minded(d), call'[d] = call[d]
    PROVE  OwnMove(d)
<1>1. Fresh(d) /\ Reads(d) /\ Holds(d) /\ d \in Obj /\ d \in Call /\ d # Origin
  BY MigrationFields DEF Own
<1>2. /\ obj'[d].node = obj[d].node
      /\ obj'[d].lease >= obj[d].lease /\ obj[d].lease \in Nat
      /\ obj'[d].lease \in Int /\ call[d].age \in Nat /\ Lease \in Nat
  BY <1>1, CopyFields, MigrationFields DEF Eased, TypeOK, Object
<1>3. ASSUME call[d].src # None
      PROVE  /\ obj'[call[d].src].node = obj[call[d].src].node
             /\ obj'[call[d].src].gen = obj[call[d].src].gen
             /\ obj[call[d].src].lock = d => obj'[call[d].src].lock = d
             /\ call[d].src \in Obj
  <2>1. call[d].src \in Obj /\ Exists(call[d].src) /\ d # None
    BY <1>3, MigrationFields, CallKinds
  <2> QED BY <2>1 DEF Eased
<1>4. (Leaves(d)' <=> Leaves(d)) /\ (Building(d)' <=> Building(d))
  BY <1>3 DEF Leaves, Building
<1>5. (Handed(d)' <=> Handed(d)) /\ (Working(d)' <=> Working(d))
  BY <1>4 DEF Handed, Working, Discarding
<1>6. Fresh(d)'
  BY <1>1, <1>2, <1>5 DEF Fresh, Minded
<1>7. Reads(d)'
  <2>1. CASE call[d].pc = "idle"
    BY <2>1 DEF Reads
  <2>2. CASE call[d].pc # "idle"
    <3>1. /\ table'.gen = table.gen /\ table'.owner = table.owner
          /\ table'.inc = table.inc
      BY <1>1, <2>2, UnderWay DEF EntryStays
    <3> QED BY <1>1, <1>3, <3>1 DEF Reads, Names, Minded
  <2> QED BY <2>1, <2>2
<1>8. Holds(d)'
  <2>1. call[d].pc \in {"publish", "drop"} /\ call[d].src # None
          => Handed(d) /\ ~Leaves(d)
    BY DEF Handed, Leaves
  <2> QED BY <1>1, <1>3, <1>4, <2>1 DEF Holds, Minded
<1> QED BY <1>5, <1>6, <1>7, <1>8 DEF OwnMove

(* Nobody comes to share a source without a compare-and-set. *)
LEMMA MovesOwn ==
    ASSUME TypeOK, Refs, Own, \A d \in Migration : OwnMove(d)
    PROVE  Own'
<1> SUFFICES ASSUME NEW c \in Migration, Handed(c)'
             PROVE  /\ call'[c].src \in Migration => ~Working(call[c].src)'
                    /\ \A d \in Migration :
                         Handed(d)' /\ call'[d].src = call'[c].src => d = c
  BY DEF Own, OwnMove, Parted
<1>1. /\ Handed(c) /\ call'[c].src = call[c].src /\ Parted(c)
      /\ Exists(call[c].src)
  BY MigrationFields DEF OwnMove, Own, Handed
<1>2. ASSUME NEW s \in Migration, s = call[c].src PROVE ~Working(s)'
  BY <1>1, <1>2 DEF OwnMove, Parted
<1>3. \A d \in Migration : Handed(d)' /\ call'[d].src = call'[c].src => d = c
  BY <1>1 DEF OwnMove, Parted
<1>4. call'[c].src \in Migration => ~Working(call[c].src)'
  <2> SUFFICES ASSUME call'[c].src \in Migration PROVE ~Working(call[c].src)'
    OBVIOUS
  <2>1. PICK s \in Migration : s = call[c].src /\ s = call'[c].src
    BY <1>1
  <2>2. ~Working(s)'
    BY <1>2, <2>1
  <2> QED BY <2>1, <2>2
<1> QED BY <1>3, <1>4

LEMMA StepOwn ==
    ASSUME TypeOK, TypeOK', Refs, NEW n, NEW i, Kept(n, i), Own, NEW c,
           inc' = inc, EntryStays, Spared(c),
           \A d \in Call : d # c => call'[d] = call[d],
           c \in Migration => OwnMove(c)
    PROVE  Own'
<1>1. Eased(c)
  BY DEF Spared, Eased
<1>2. ASSUME NEW d \in Migration, d # c PROVE Minded(d)
  <2>1. \A o \in Obj : obj[o].mapped => obj'[o].mapped
    <3>1. \A o \in Obj : obj[o].mapped => Exists(o)
      BY DEF Refs, MappedExist, Exists
    <3> QED BY <3>1 DEF Spared
  <2>2. d \in Obj /\ (call[d].src # None => call[d].src \in Obj)
    BY MigrationFields
  <2> QED BY <2>1, <2>2 DEF Minded, Handed
<1>3. \A d \in Migration : d # c => OwnMove(d)
  BY <1>1, <1>2, OthersOwn, CallKinds
<1> QED BY <1>3, MovesOwn

(* A migration that is over claims nothing. *)
LEMMA EndedOwn ==
    ASSUME NEW c \in Migration, call'[c].pc \in Ended
    PROVE  OwnMove(c)
<1>1. ~Building(c)' /\ ~Leaves(c)' /\ ~Discarding(c)'
  BY DEF Building, Leaves, Discarding, Ended
<1> QED
  BY <1>1 DEF OwnMove, Fresh, Reads, Holds, Handed, Working, Ended

LEMMA AdvanceOwn ==
    ASSUME TypeOK, NEW c \in Call, NEW next \in Step, NEW h \in Handle,
           Advance(c, next, h), next \notin Ended
    PROVE  \/ call'[c].pc \in Ended
           \/ /\ call'[c].pc = next /\ call'[c].h = h /\ call'[c].pin = None
              /\ call'[c].src = call[c].src /\ call'[c].age = call[c].age
              /\ call'[c].live = call[c].live
              /\ next # "register" => call[c].live
<1>1. call \in [Call -> CallState] /\ next # "done"
  BY DEF TypeOK, Ended
<1>2. CASE ~Onward(c, next)
  <2>1. call'[c] = Over(Failure(c))
    BY <1>1, <1>2 DEF Advance
  <2> QED BY <2>1, FailureKind DEF Ended
<1>3. CASE Onward(c, next)
  BY <1>1, <1>3 DEF Advance, Onward, CallState
<1> QED BY <1>2, <1>3

LEMMA FailsOwn ==
    ASSUME TypeOK, NEW c \in Call, Fails(c)
    PROVE  \/ call'[c].pc \in Ended
           \/ /\ c \in Migration /\ call[c].pc \in {"write", "commit"}
              /\ obj' = obj /\ call'[c].pc = "free" /\ call'[c].pin = None
              /\ call'[c].h = call[c].h /\ call'[c].src = call[c].src
              /\ call'[c].age = call[c].age /\ call'[c].live = call[c].live
<1>1. call \in [Call -> CallState]
  BY DEF TypeOK
<1>2. CASE Discards(c)
  <2>1. /\ call' = [call EXCEPT ![c].pc = "free", ![c].pin = None] /\ obj' = obj
        /\ c \in Migration /\ call[c].pc \in {"write", "commit"}
    BY <1>2 DEF Fails, Discards
  <2>2. /\ call'[c].pc = "free" /\ call'[c].pin = None
        /\ call'[c].h = call[c].h /\ call'[c].src = call[c].src
        /\ call'[c].age = call[c].age /\ call'[c].live = call[c].live
    BY <1>1, <2>1 DEF CallState
  <2> QED BY <2>1, <2>2
<1>3. CASE ~Discards(c)
  <2>1. call'[c] = Over(Failure(c))
    BY <1>1, <1>3 DEF Fails
  <2> QED BY <2>1, FailureKind DEF Ended
<1> QED BY <1>2, <1>3

(* A migration that keeps its step, or whose Free has been checked. *)
LEMMA RemainOwn ==
    ASSUME TypeOK, TypeOK', Refs, NEW n, NEW i, Kept(n, i), Own,
           NEW c \in Migration, UNCHANGED <<inc, table>>, Spared(c),
           \/ call'[c].pc = call[c].pc
           \/ call[c].pc = "free" /\ call'[c].pc = "unmap",
           call'[c].h = call[c].h, call'[c].src = call[c].src,
           call'[c].age = call[c].age,
           call'[c].live => call[c].live /\ \A o \in Obj : obj'[o].lock = obj[o].lock,
           Working(c) => call'[c].pin \in {None, c, call[c].pin},
           Leaves(c) => call'[c].pin = call[c].pin,
           call[c].pc = "alloc" => ~Exists(c)
    PROVE  OwnMove(c)
<1>1. Fresh(c) /\ Reads(c) /\ Holds(c) /\ c \in Obj /\ c \in Call
  BY MigrationFields DEF Own
<1>2. ASSUME call[c].src # None
      PROVE  /\ obj'[call[c].src].node = obj[call[c].src].node
             /\ obj'[call[c].src].gen = obj[call[c].src].gen
             /\ obj[call[c].src].mapped => obj'[call[c].src].mapped
             /\ call[c].src \in Obj
  <2>1. call[c].src \in Obj /\ Exists(call[c].src)
    BY <1>2, MigrationFields
  <2> QED BY <2>1 DEF Spared
<1>3. (Leaves(c)' <=> Leaves(c)) /\ (Building(c)' <=> Building(c))
  BY <1>2 DEF Leaves, Building
<1>4. (Handed(c)' <=> Handed(c)) /\ (Working(c)' <=> Working(c))
  BY <1>3 DEF Handed, Working, Discarding
<1>5. Fresh(c)'
  <2>1. CASE Working(c)
    <3>1. Exists(c)
      BY <1>1, <2>1 DEF Fresh, Refs, MappedExist, Exists
    <3>2. /\ obj'[c].node = obj[c].node
          /\ obj[c].mapped => obj'[c].mapped
          /\ obj'[c].lease >= obj[c].lease /\ obj[c].lease \in Nat
          /\ obj'[c].lease \in Int /\ call[c].age \in Nat /\ Lease \in Nat
      BY <1>1, <3>1, CopyFields, MigrationFields DEF Spared, TypeOK, Object
    <3>3. call'[c].pc # "alloc"
      BY <1>4, <2>1 DEF Working, Building, Discarding
    <3> QED BY <1>1, <2>1, <3>2, <3>3 DEF Fresh
  <2>2. CASE ~Working(c)
    BY <1>1, <1>4, <2>2 DEF Fresh
  <2> QED BY <2>1, <2>2
<1>6. Reads(c)'
  BY <1>1, <1>2 DEF Reads, Names
<1>7. Holds(c)'
  BY <1>1, <1>2, <1>3 DEF Holds
<1> QED BY <1>4, <1>5, <1>6, <1>7 DEF OwnMove

(* A migration that goes on from a step on its destination to another. *)
LEMMA WorkOwn ==
    ASSUME TypeOK, TypeOK', Refs, NEW n, NEW i, Kept(n, i), Own,
           NEW c \in Migration, UNCHANGED <<inc, table>>, Spared(c),
           call[c].pc \in {"write", "commit"},
           call'[c].pc \in {"commit", "cas", "free"},
           call'[c].h.owner = call[c].h.owner, call'[c].src = call[c].src,
           call'[c].age = call[c].age, call'[c].live = call[c].live,
           call'[c].pin = None, \A o \in Obj : obj'[o].lock = obj[o].lock
    PROVE  OwnMove(c)
<1>1. /\ Fresh(c) /\ Reads(c) /\ Holds(c) /\ c \in Obj /\ c \in Call
      /\ Course(c) /\ Building(c) /\ Working(c)
  BY MigrationFields DEF Own, Kept, CallKept, Working, Building
<1>2. ASSUME call[c].src # None
      PROVE  /\ obj'[call[c].src].node = obj[call[c].src].node
             /\ obj'[call[c].src].gen = obj[call[c].src].gen
             /\ obj[call[c].src].mapped => obj'[call[c].src].mapped
             /\ call[c].src \in Obj
             /\ obj[call[c].src].node # call[c].h.owner
  <2>1. call[c].src \in Obj /\ Exists(call[c].src)
    BY <1>2, MigrationFields
  <2> QED BY <1>1, <1>2, <2>1 DEF Spared, Course
<1>3. ~Leaves(c)'
  BY <1>2 DEF Leaves
<1>4. Fresh(c)'
  <2>1. Exists(c)
    BY <1>1 DEF Fresh, Refs, MappedExist, Exists
  <2>2. /\ obj'[c].node = obj[c].node
        /\ obj[c].mapped => obj'[c].mapped
        /\ obj'[c].lease >= obj[c].lease /\ obj[c].lease \in Nat
        /\ obj'[c].lease \in Int /\ call[c].age \in Nat /\ Lease \in Nat
    BY <1>1, <2>1, CopyFields, MigrationFields DEF Spared, TypeOK, Object
  <2> QED BY <1>1, <2>2 DEF Fresh
<1>5. Reads(c)'
  BY <1>1, <1>2 DEF Reads, Names
<1>6. Holds(c)'
  BY <1>1, <1>2, <1>3 DEF Holds
<1>7. ~Handed(c)'
  BY <1>3 DEF Handed
<1> QED BY <1>1, <1>4, <1>5, <1>6, <1>7 DEF OwnMove

LEMMA FailsMove ==
    ASSUME TypeOK, TypeOK', Refs, NEW n, NEW i, Kept(n, i), Own,
           NEW c \in Migration, UNCHANGED <<inc, table>>, Spared(c), Fails(c)
    PROVE  OwnMove(c)
<1>1. c \in Call
  BY MigrationFields
<1> QED BY <1>1, FailsOwn, EndedOwn, WorkOwn

(* A copy is found where it was made. *)
LEMMA OwnMapped ==
    ASSUME TypeOK, Refs, NEW n, NEW i, Kept(n, i), Own, NEW c \in Migration,
           Working(c)
    PROVE  MappedAt(call[c].h.owner) = {c}
<1>1. obj[c].mapped /\ obj[c].node = call[c].h.owner /\ c \in Obj /\ MappedOnce
  BY MigrationFields DEF Own, Fresh, Kept, CopiesKept
<1> QED BY <1>1 DEF MappedAt, MappedOnce

LEMMA ArriveOwn ==
    ASSUME TypeOK, TypeOK', Refs, NEW n, NEW i, Kept(n, i), Own,
           NEW c \in Migration, Spared(c), Arrive(c)
    PROVE  OwnMove(c)
<1>1. /\ call[c] \in CallState /\ call \in [Call -> CallState]
      /\ UNCHANGED <<inc, table>> /\ call[c].pin = None /\ c \in Call
      /\ Course(c) /\ call[c].pc \in OwnerStep
  BY MigrationFields DEF Arrive, TypeOK, leader, Kept, CallKept
<1>2. CASE Fails(c)
  BY <1>1, <1>2, FailsMove
<1>3. ASSUME NEW o \in MappedAt(call[c].h.owner),
             call' = [call EXCEPT ![c].pin = o], obj' = obj
      PROVE  OwnMove(c)
  <2>1. /\ call'[c].pc = call[c].pc /\ call'[c].h = call[c].h
        /\ call'[c].src = call[c].src /\ call'[c].age = call[c].age
        /\ call'[c].live = call[c].live /\ call'[c].pin = o
    BY <1>1, <1>3 DEF CallState
  <2>2. Working(c) => o = c
    BY <1>3, OwnMapped
  <2>3. ~Leaves(c) /\ call[c].pc # "alloc"
    BY <1>1 DEF Course, OwnerStep
  <2> QED BY <1>1, <1>3, <2>1, <2>2, <2>3, RemainOwn
<1>4. ASSUME MappedAt(call[c].h.owner) = {}, call[c].pc = "free"
      PROVE  FALSE
  <2>1. Working(c)
    BY <1>1, <1>4 DEF Working, Discarding, Course
  <2> QED BY <1>4, <2>1, OwnMapped
<1> QED BY <1>2, <1>3, <1>4 DEF Arrive

LEMMA WriteChunksOwn ==
    ASSUME TypeOK, TypeOK', Refs, NEW n, NEW i, Kept(n, i), Own,
           NEW c \in Migration, Spared(c), WriteChunks(c)
    PROVE  OwnMove(c)
<1>1. /\ UNCHANGED <<inc, table>> /\ c \in Call /\ call[c].pc = "write"
      /\ c # Origin /\ call[c].h \in Handle /\ obj \in [Obj -> Object]
  BY MigrationFields, CallFields DEF WriteChunks, Pinned, leader, TypeOK
<1>2. CASE Fails(c)
  BY <1>1, <1>2, FailsMove
<1>3. CASE ~Fails(c)
  <2>1. PICK o \in Obj : /\ obj' = [obj EXCEPT ![o].full = TRUE]
                         /\ Advance(c, "commit", call[c].h)
    BY <1>1, <1>3, PinnedObject DEF WriteChunks, Pinned
  <2>2. \A q \in Obj : obj'[q].lock = obj[q].lock
    BY <1>1, <2>1 DEF Object
  <2> QED
    BY <1>1, <2>1, <2>2, AdvanceOwn, StepNames, EndedOwn, WorkOwn DEF Ended
<1> QED BY <1>2, <1>3

LEMMA CommitOwn ==
    ASSUME TypeOK, TypeOK', Refs, NEW n, NEW i, Kept(n, i), Own,
           NEW c \in Migration, Spared(c), Commit(c)
    PROVE  OwnMove(c)
<1>1. /\ UNCHANGED <<inc, table>> /\ c \in Call /\ call[c].pc = "commit"
      /\ c # Origin /\ call[c].h \in Handle /\ obj \in [Obj -> Object]
      /\ call[c].pin # None /\ call \in [Call -> CallState]
  BY MigrationFields, CallFields DEF Commit, Pinned, leader, TypeOK
<1>2. CASE Fails(c)
  BY <1>1, <1>2, FailsMove
<1>3. CASE ~Fails(c)
  <2>1. PICK o \in Obj :
          /\ o = call[c].pin /\ HandleOf(o) \in Handle
          /\ obj' = [obj EXCEPT ![o].state = "Ready"]
          /\ \/ Advance(c, "cas", [HandleOf(o) EXCEPT !.state = "Ready"])
             \/ call' = [call EXCEPT ![c].pc = "free", ![c].pin = None]
    BY <1>1, <1>3, PinnedObject DEF Commit, AfterCommit
  <2>2. o = c /\ obj[c].node = call[c].h.owner
    BY <1>1, <2>1 DEF Own, Fresh, Working, Building
  <2>3. \A q \in Obj : obj'[q].lock = obj[q].lock
    BY <1>1, <2>1 DEF Object
  <2>4. PICK h \in Handle :
          h = [HandleOf(o) EXCEPT !.state = "Ready"] /\ h.owner = obj[o].node
    BY SMTT(60), <2>1 DEF Handle, HandleOf
  <2>5. CASE Advance(c, "cas", h)
    BY ZenonT(60),
       <1>1, <2>2, <2>3, <2>4, <2>5, AdvanceOwn, StepNames, EndedOwn, WorkOwn
    DEF Ended
  <2>6. CASE call' = [call EXCEPT ![c].pc = "free", ![c].pin = None]
    <3>1. /\ call'[c].pc = "free" /\ call'[c].h = call[c].h
          /\ call'[c].src = call[c].src /\ call'[c].age = call[c].age
          /\ call'[c].live = call[c].live /\ call'[c].pin = None
      BY <1>1, <2>6 DEF CallState
    <3> QED BY <1>1, <2>3, <3>1, WorkOwn
  <2> QED BY <2>1, <2>4, <2>5, <2>6
<1> QED BY <1>2, <1>3

LEMMA FreeCheckOwn ==
    ASSUME TypeOK, TypeOK', Refs, NEW n, NEW i, Kept(n, i), Own,
           NEW c \in Migration, Spared(c), FreeCheck(c)
    PROVE  OwnMove(c)
<1>1. /\ call \in [Call -> CallState] /\ c \in Call /\ call[c].pc = "free"
      /\ UNCHANGED <<inc, table, obj>>
      /\ call' = [call EXCEPT ![c].pc = "unmap"]
  BY MigrationFields DEF FreeCheck, Pinned, leader, TypeOK
<1>2. /\ call'[c].pc = "unmap" /\ call'[c].h = call[c].h
      /\ call'[c].src = call[c].src /\ call'[c].age = call[c].age
      /\ call'[c].live = call[c].live /\ call'[c].pin = call[c].pin
  BY <1>1 DEF CallState
<1> QED BY <1>1, <1>2, RemainOwn

(* The source that Migrate finds is the table's copy, unless the snapshot  *)
(* is old.                                                                 *)
LEMMA MigrateOwn ==
    ASSUME TypeOK, TypeOK', Refs, NEW n, NEW i, Kept(n, i), NoRestart, Own,
           NEW c \in Migration, Spared(c), Migrate(c)
    PROVE  OwnMove(c)
<1>1. /\ call \in [Call -> CallState] /\ c \in Call /\ call[c].pc = "picked"
      /\ UNCHANGED <<inc, table>> /\ c # Origin
  BY MigrationFields DEF Migrate, leader, TypeOK
<1>2. CASE Fails(c)
  BY <1>1, <1>2, FailsMove
<1>3. CASE ~Fails(c)
  <2>1. PICK o \in MappedAt(call[c].h.owner) :
          call' = [call EXCEPT ![c].pc = "lock", ![c].src = o]
    BY <1>3 DEF Migrate
  <2>2. /\ call'[c].pc = "lock" /\ call'[c].src = o /\ call'[c].h = call[c].h
        /\ obj' = obj
    BY ZenonT(60), <1>1, <1>3, <2>1 DEF CallState, Migrate
  <2>3. /\ call[c].h.gen <= table.gen
        /\ call[c].h.gen = table.gen => call[c].h.owner = table.owner
    BY <1>1 DEF Own, Reads
  <2>4. o \in Obj /\ obj[o].mapped /\ obj[o].node = call[c].h.owner
    BY <2>1 DEF MappedAt
  <2>5. call[c].h.gen = table.gen => Names(table, o)
    BY <1>1, <2>3, <2>4, TableCopy, UnderWay
  <2>6. ~Building(c)' /\ ~Leaves(c)' /\ ~Discarding(c)'
    BY <2>2 DEF Building, Leaves, Discarding
  <2>7. Reads(c)'
    BY <1>1, <2>2, <2>3, <2>4, <2>5 DEF Reads, Names
  <2> QED
    BY <2>2, <2>6, <2>7 DEF OwnMove, Fresh, Holds, Handed, Working
<1> QED BY <1>2, <1>3

LEMMA LockSourceOwn ==
    ASSUME TypeOK, TypeOK', Refs, NEW n, NEW i, Kept(n, i), Own,
           NEW c \in Migration, Spared(c), NEW dst \in Node, LockSource(c, dst)
    PROVE  OwnMove(c)
<1>1. /\ call \in [Call -> CallState] /\ c \in Call /\ call[c].pc = "lock"
      /\ UNCHANGED <<inc, table>> /\ obj \in [Obj -> Object]
      /\ call[c].age \in Nat /\ Lease \in Nat
  BY MigrationFields DEF LockSource, leader, TypeOK
<1>2. CASE Fails(c)
  BY <1>1, <1>2, FailsMove
<1>3. CASE ~Fails(c)
  <2>1. PICK s \in Obj : s = call[c].src
    BY <1>1, MigrationFields
  <2>2. PICK h : h = [owner |-> dst, inc |-> inc[dst], gen |-> obj[s].gen + 1,
                      state |-> "Writing", lease |-> Lease]
    OBVIOUS
  <2>3. /\ obj[s].gen = call[c].h.gen /\ obj' = [obj EXCEPT ![s].lock = c]
        /\ call' = [call EXCEPT ![c].pc = "alloc", ![c].prev = obj[s].gen,
                                ![c].h = h]
    BY <1>3, <2>1, <2>2 DEF LockSource
  <2>4. /\ call'[c].pc = "alloc" /\ call'[c].src = s /\ call'[c].h = h
        /\ call'[c].age = call[c].age
    BY <1>1, <2>1, <2>3 DEF CallState
  <2>5. /\ obj'[s].lock = c /\ obj'[s].gen = obj[s].gen
        /\ obj'[s].node = obj[s].node /\ obj'[s].mapped = obj[s].mapped
    BY <1>1, <2>3 DEF Object
  <2>6. ~Building(c)' /\ ~Leaves(c)' /\ ~Discarding(c)'
    BY <2>4 DEF Building, Leaves, Discarding
  <2>7. Fresh(c)'
    BY <1>1, <2>2, <2>4, <2>6 DEF Fresh, Working
  <2>8. Reads(c)'
    <3>1. Reads(c) /\ s # None
      BY <2>1, CallKinds DEF Own
    <3> QED BY <1>1, <2>1, <2>3, <2>4, <2>5, <3>1 DEF Reads, Names
  <2>9. Holds(c)'
    BY <2>4, <2>5, <2>6 DEF Holds
  <2> QED BY <2>4, <2>6, <2>7, <2>8, <2>9 DEF OwnMove, Handed, Working
<1> QED BY <1>2, <1>3

LEMMA AllocateLocalOwn ==
    ASSUME TypeOK, TypeOK', Refs, NEW n, NEW i, Kept(n, i), Own,
           NEW c \in Migration, Spared(c), AllocateLocal(c)
    PROVE  OwnMove(c)
<1>1. /\ call \in [Call -> CallState] /\ c \in Call /\ call[c].pc = "alloc"
      /\ UNCHANGED <<inc, table>> /\ obj \in [Obj -> Object] /\ c \in Obj
      /\ call[c].h \in Handle /\ c # Origin /\ Course(c)
  BY MigrationFields, CallFields DEF AllocateLocal, leader, TypeOK, Kept, CallKept
<1>2. /\ obj' = [obj EXCEPT ![c] = AllocatedAs(call[c].h)]
      /\ Advance(c, "write", call[c].h) /\ ~Exists(c)
  BY <1>1 DEF AllocateLocal, Course
<1>3. /\ obj'[c].node = call[c].h.owner /\ obj'[c].lease = call[c].h.lease
      /\ obj'[c].mapped /\ \A o \in Obj : o # c => obj'[o] = obj[o]
  BY <1>1, <1>2 DEF AllocatedAs
<1>4. CASE call'[c].pc \in Ended
  BY <1>4, EndedOwn
<1>5. CASE call'[c].pc \notin Ended
  <2>1. /\ call'[c].pc = "write" /\ call'[c].h = call[c].h
        /\ call'[c].pin = None /\ call'[c].src = call[c].src
        /\ call'[c].age = call[c].age /\ call'[c].live = call[c].live
    BY <1>1, <1>2, <1>5, AdvanceOwn, StepNames DEF Ended
  <2>2. call[c].src # None => call[c].src \in Obj /\ call[c].src # c
    BY <1>2, MigrationFields
  <2>3. Fresh(c) /\ Reads(c) /\ Holds(c)
    BY DEF Own
  <2>4. ~Leaves(c)' /\ ~Handed(c)'
    BY <2>1 DEF Leaves, Handed
  <2>5. Fresh(c)'
    BY <1>1, <1>3, <2>1, <2>3 DEF Fresh
  <2>6. Reads(c)'
    BY <1>1, <1>3, <2>1, <2>2, <2>3 DEF Reads, Names
  <2>7. Holds(c)'
    BY <1>1, <1>3, <2>1, <2>2, <2>3, <2>4 DEF Holds
  <2> QED BY <1>2, <2>4, <2>5, <2>6, <2>7 DEF OwnMove
<1> QED BY <1>4, <1>5

LEMMA PublishOwn ==
    ASSUME TypeOK, TypeOK', Refs, NEW n, NEW i, Kept(n, i), Own,
           NEW c \in Migration, Spared(c), Publish(c)
    PROVE  OwnMove(c)
<1>1. /\ call \in [Call -> CallState] /\ c \in Call /\ call[c].pc = "publish"
      /\ UNCHANGED <<inc, table>> /\ obj \in [Obj -> Object]
      /\ call[c].h \in Handle /\ call[c].pin # None
  BY MigrationFields, CallFields DEF Publish, Pinned, leader, TypeOK
<1>2. CASE Fails(c)
  BY <1>1, <1>2, FailsMove
<1>3. CASE ~Fails(c)
  <2>1. PICK o \in Obj : /\ obj' = [obj EXCEPT ![o].published = TRUE]
                         /\ Advance(c, "drop", call[c].h)
    BY <1>1, <1>3, PinnedObject DEF Publish
  <2>2. \A q \in Obj : obj'[q].lock = obj[q].lock /\ obj'[q].mapped = obj[q].mapped
    BY <1>1, <2>1 DEF Object
  <2>3. CASE call'[c].pc \in Ended
    BY <2>3, EndedOwn
  <2>4. CASE call'[c].pc \notin Ended
    <3>1. /\ call'[c].pc = "drop" /\ call'[c].src = call[c].src
          /\ call'[c].live = call[c].live
      BY <1>1, <2>1, <2>4, AdvanceOwn, StepNames DEF Ended
    <3>2. ~Building(c)' /\ ~Leaves(c)' /\ ~Discarding(c)'
      BY <3>1 DEF Building, Leaves, Discarding
    <3>3. Holds(c)'
      BY <1>1, <2>2, <3>1, <3>2, MigrationFields DEF Own, Holds
    <3>4. Handed(c)' => Handed(c)
      BY <1>1, <3>1 DEF Handed
    <3> QED
      BY <3>1, <3>2, <3>3, <3>4 DEF OwnMove, Fresh, Reads, Working
  <2> QED BY <2>3, <2>4
<1> QED BY <1>2, <1>3

(* What the source then frees is the copy it has had locked. *)
LEMMA DropSourceOwn ==
    ASSUME TypeOK, TypeOK', Refs, NEW n, NEW i, Kept(n, i), Own,
           NEW c \in Migration, Spared(c), DropSource(c)
    PROVE  OwnMove(c)
<1>1. /\ call \in [Call -> CallState] /\ c \in Call /\ call[c].pc = "drop"
      /\ UNCHANGED <<inc, table>> /\ obj \in [Obj -> Object]
      /\ call[c].live
  BY MigrationFields DEF DropSource, leader, TypeOK
<1>2. PICK s \in Obj : s = call[c].src /\ Exists(s) /\ HandleOf(s) \in Handle
  BY <1>1, MigrationFields, HandleOfType DEF Exists
<1>3. s \in MappedAt(obj[s].node) /\ MappedAt(obj[s].node) = {s} /\ s # None
  <2>1. obj[s].mapped /\ MappedOnce /\ s # None
    BY <1>1, <1>2, CallKinds DEF Own, Holds, Kept, CopiesKept
  <2> QED BY <2>1 DEF MappedAt, MappedOnce
<1>4. call' = [call EXCEPT ![c].pc = "free", ![c].pin = s, ![c].h = HandleOf(s)]
  BY <1>2, <1>3 DEF DropSource
<1>5. /\ call'[c].pc = "free" /\ call'[c].pin = s /\ call'[c].src = s
      /\ call'[c].h.owner = obj[s].node
  BY <1>1, <1>2, <1>4 DEF CallState, HandleOf
<1>6. obj'[s].node = obj[s].node
  BY <1>2 DEF Spared
<1>7. Leaves(c)' /\ ~Working(c)' /\ Handed(c)
  BY <1>1, <1>2, <1>3, <1>5, <1>6
  DEF Leaves, Working, Discarding, Building, Handed
<1>8. Fresh(c)' /\ Reads(c)' /\ Holds(c)'
  BY <1>5, <1>7 DEF Fresh, Reads, Holds
<1> QED BY <1>2, <1>5, <1>7, <1>8 DEF OwnMove

LEMMA StrayOwn ==
    ASSUME TypeOK, TypeOK', Refs, NEW n, NEW i, Kept(n, i), Own,
           NEW c \in Migration, Spared(c), Abandon(c) \/ DropStray(c)
    PROVE  OwnMove(c)
<1>1. /\ call \in [Call -> CallState] /\ c \in Call /\ UNCHANGED <<inc, table>>
      /\ Course(c)
  BY MigrationFields DEF Abandon, DropStray, leader, TypeOK, Kept, CallKept
<1>2. CASE call' = [call EXCEPT ![c] = Over(Failure(c))]
  <2>1. call'[c] = Over(Failure(c))
    BY <1>1, <1>2
  <2> QED BY <1>1, <2>1, FailureKind, EndedOwn DEF Ended
<1>3. CASE call' = [call EXCEPT ![c] = [@ EXCEPT !.live = FALSE]]
  <2>1. /\ call'[c].pc = call[c].pc /\ call'[c].h = call[c].h
        /\ call'[c].pin = call[c].pin /\ call'[c].src = call[c].src
        /\ call'[c].age = call[c].age /\ call'[c].live = FALSE
    BY <1>1, <1>3 DEF CallState
  <2>2. call[c].pc = "alloc" => ~Exists(c)
    BY <1>1 DEF Course
  <2> QED BY <1>1, <2>1, <2>2, RemainOwn
<1> QED BY <1>2, <1>3 DEF Abandon, DropStray

LEMMA StillSpared ==
    ASSUME TypeOK, NEW c, obj' = obj \/ obj' = Unlocked(c)
    PROVE  Spared(c)
BY CopyFields DEF TypeOK, Unlocked, Object, Spared

(* No step of a call but Unmap takes a copy from its map. *)
LEMMA CallSpares ==
    ASSUME TypeOK, TypeOK', Refs, NEW n, NEW i, Kept(n, i), NEW c \in Call,
           CallStep(c), ~Unmap(c)
    PROVE  Spared(c) /\ inc' = inc /\ \A d \in Call : d # c => call'[d] = call[d]
<1>1. inc' = inc
  BY DEF CallStep, AllocateLocal, Arrive, WriteChunks, Commit, Register, Renew,
     FreeCheck, Migrate, CompareAndSet, Publish, DropSource, LockSource,
     RpcError, Abandon, DropStray
<1>2. \A d \in Call : d # c => call'[d] = call[d]
  BY CallStepCalm DEF CalmMove
<1>3. obj \in [Obj -> Object] /\ 0..Lease \subseteq Int
        /\ \A o \in Obj : obj[o].lease \in Nat /\ obj[o].lease <= Lease
  BY ConstantsAssumption DEF TypeOK, Object
<1>4. ASSUME Fails(c) PROVE Spared(c)
  BY <1>4, StillSpared DEF Fails
<1>5. ASSUME \/ Arrive(c) \/ Register(c) \/ FreeCheck(c) \/ Migrate(c)
             \/ CompareAndSet(c) \/ DropSource(c) \/ RpcError(c) \/ Abandon(c)
             \/ DropStray(c)
      PROVE  Spared(c)
  BY <1>4, <1>5, StillSpared
  DEF Arrive, Register, FreeCheck, Migrate, CompareAndSet, DropSource, RpcError,
      Abandon, DropStray
<1>6. ASSUME AllocateLocal(c) PROVE Spared(c)
  <2>1. c \in Obj /\ ~Exists(c)
    <3>1. c = Origin \/ c \in Migration
      BY <1>6, StepsOf DEF Call, Refs, CallRole, Quiet, Ended, AllocateLocal
    <3>2. c = Origin => ~Exists(c)
      BY <1>6 DEF AllocateLocal, Kept, Beginning
    <3>3. c \in Migration => ~Exists(c)
      BY <1>6 DEF AllocateLocal, Kept, CallKept, Course
    <3> QED BY <3>1, <3>2, <3>3, CallKinds
  <2>2. \A o \in Obj : o # c => obj'[o] = obj[o]
    BY <1>3, <1>6 DEF AllocateLocal
  <2> QED BY <1>3, <2>1, <2>2 DEF Spared
<1>7. ASSUME WriteChunks(c) \/ Commit(c) \/ Publish(c), ~Fails(c)
      PROVE  Spared(c)
  <2>1. PICK o \in Obj : \/ obj' = [obj EXCEPT ![o].full = TRUE]
                         \/ obj' = [obj EXCEPT ![o].state = "Ready"]
                         \/ obj' = [obj EXCEPT ![o].published = TRUE]
    BY <1>7, PinnedObject DEF WriteChunks, Commit, Publish, Pinned
  <2>2. \A q \in Obj :
          /\ obj'[q].node = obj[q].node /\ obj'[q].gen = obj[q].gen
          /\ obj'[q].lease = obj[q].lease /\ obj'[q].mapped = obj[q].mapped
          /\ obj'[q].lock = obj[q].lock
    BY <1>3, <2>1 DEF Object
  <2> QED BY <1>3, <2>2 DEF Spared
<1>8. ASSUME Renew(c), ~Fails(c) PROVE Spared(c)
  <2>1. PICK o \in Obj : obj' = [obj EXCEPT ![o].lease = Lease]
    BY <1>8, PinnedObject DEF Renew, Pinned
  <2>2. \A q \in Obj :
          /\ obj'[q].node = obj[q].node /\ obj'[q].gen = obj[q].gen
          /\ obj'[q].lease \in {obj[q].lease, Lease}
          /\ obj'[q].mapped = obj[q].mapped /\ obj'[q].lock = obj[q].lock
    BY <1>3, <2>1 DEF Object
  <2> QED BY <1>3, <2>2 DEF Spared
<1>9. ASSUME NEW dst \in Node, LockSource(c, dst), ~Fails(c) PROVE Spared(c)
  <2>1. PICK s : obj' = [obj EXCEPT ![s].lock = c] /\ obj[s].lock = None
    BY <1>9 DEF LockSource
  <2>2. \A q \in Obj :
          /\ obj'[q].node = obj[q].node /\ obj'[q].gen = obj[q].gen
          /\ obj'[q].lease = obj[q].lease /\ obj'[q].mapped = obj[q].mapped
          /\ q # s => obj'[q].lock = obj[q].lock
    BY <1>3, <2>1 DEF Object
  <2> QED BY <1>3, <2>1, <2>2 DEF Spared
<1> QED
  BY <1>1, <1>2, <1>4, <1>5, <1>6, <1>7, <1>8, <1>9 DEF CallStep

LEMMA RegisterEntry ==
    ASSUME TypeOK, TypeOK', Refs, NEW n, NEW i, Kept(n, i), NEW c \in Call,
           c \notin Release, Register(c), ~lapsed'
    PROVE  EntryStays
<1>1. /\ call[c].pc = "register" /\ UNCHANGED <<inc, obj>>
      /\ Lapse /\ table' = Registered(table, call[c].h)
      /\ CallKept(c, n, i) /\ table \in Handle
  BY EntryFields DEF Register, Kept
<1>2. c = Origin \/ c \in Renewal
  BY <1>1, StepsOf DEF Call, Refs, CallRole, Quiet, Ended
<1>3. PICK h \in Handle : h = call[c].h /\ h.owner # None /\ Vouched(h, n, i)
  BY <1>1, <1>2, CallFields, CallKinds
  DEF CallKept, Speaks, Vouched, Refs, CallNamed, Quiet, Ended
<1> QED BY <1>1, <1>3, VoiceRegistered

LEMMA GrantEntry ==
    ASSUME TypeOK, TypeOK', Refs, NEW n, NEW i, Kept(n, i), Grant, ~lapsed'
    PROVE  EntryStays
<1>1. /\ call[Origin].pc = "grant" /\ UNCHANGED <<inc, obj>> /\ Lapse
      /\ table' = Registered(table, call[Origin].h) /\ table \in Handle
      /\ CallKept(Origin, n, i) /\ Origin \in Call
  BY EntryFields, CallKinds DEF Grant, Kept
<1>2. PICK h \in Handle : h = call[Origin].h /\ h.owner # None /\ Vouched(h, n, i)
  BY <1>1, CallFields, CallKinds
  DEF CallKept, Speaks, Vouched, Refs, CallNamed, Quiet, Ended
<1> QED BY <1>1, <1>2, VoiceRegistered

LEMMA MembershipEntry ==
    ASSUME TypeOK, TypeOK', Refs, NEW n, NEW i, Kept(n, i), Membership, ~lapsed'
    PROVE  EntryStays
<1>1. UNCHANGED <<inc, obj>> /\ table \in Handle
  BY EntryFields
  DEF Membership, Exchange, ExpirePeer, RefreshCapabilities, AcceptPeer,
      DropGossip
<1>2. ASSUME NEW m \in gossip, AcceptPeer(m) PROVE EntryStays
  <2>1. /\ Vouched(m.h, n, i) /\ m.h \in Handle /\ Lapse
    BY <1>2, EntryFields DEF AcceptPeer, Kept, EntriesKept
  <2>2. PICK after \in {table, LoseNode(table, m.node)} :
          table' = IF m.h = NoHandle THEN after ELSE Registered(after, m.h)
    BY <1>2 DEF AcceptPeer
  <2>3. /\ after \in Handle /\ after.owner = table.owner /\ after.inc = table.inc
        /\ after.gen = table.gen /\ after.lease = table.lease
        /\ after.state = "Ready" => table.state = "Ready"
    BY <1>1 DEF LoseNode, Handle
  <2>4. CASE m.h = NoHandle
    BY <2>2, <2>3, <2>4 DEF EntryStays
  <2>5. CASE m.h # NoHandle
    <3>1. table' = Registered(after, m.h) /\ m.h.owner # None
      BY <2>2, <2>5 DEF Refs, GossipNamed
    <3> QED BY <1>1, <2>1, <2>3, <3>1, VoiceRegistered
  <2> QED BY <2>4, <2>5
<1>3. ASSUME NEW k \in Node, ExpirePeer(k) PROVE EntryStays
  BY <1>1, <1>3 DEF ExpirePeer, LoseNode, Handle, EntryStays
<1>4. CASE table' = table
  BY <1>4 DEF EntryStays
<1> QED
  BY <1>2, <1>3, <1>4
  DEF Membership, Exchange, RefreshCapabilities, DropGossip, leader

LEMMA CallStepOwn ==
    ASSUME TypeOK, TypeOK', Refs, NEW n, NEW i, Kept(n, i), NoRestart, Own,
           NEW c \in Call, c \notin Release, CallStep(c), ~Unmap(c),
           ~CompareAndSet(c), ~lapsed'
    PROVE  Own'
<1>1. Spared(c) /\ inc' = inc /\ \A d \in Call : d # c => call'[d] = call[d]
  BY CallSpares
<1>2. ~Register(c) => table' = table
  BY DEF CallStep, AllocateLocal, Arrive, WriteChunks, Commit, Renew, FreeCheck,
     Migrate, Publish, DropSource, LockSource, RpcError, Abandon, DropStray,
     leader
<1>3. EntryStays
  <2>1. CASE Register(c)
    BY <2>1, RegisterEntry
  <2>2. CASE ~Register(c)
    BY <1>2, <2>2 DEF EntryStays
  <2> QED BY <2>1, <2>2
<1>4. ASSUME c \in Migration PROVE OwnMove(c)
  <2>1. ~Register(c) /\ ~Renew(c)
    BY <1>4, MigrationFields DEF Register, Renew, Pinned, Quiet, Ended
  <2>2. CASE Fails(c)
    BY <1>1, <1>2, <1>4, <2>1, <2>2, FailsMove
  <2>3. ASSUME NEW dst \in Node, LockSource(c, dst) PROVE OwnMove(c)
    BY <1>1, <1>4, <2>3, LockSourceOwn
  <2>4. CASE AllocateLocal(c) \/ Arrive(c) \/ WriteChunks(c) \/ Commit(c)
    BY <1>1, <1>4, <2>4, AllocateLocalOwn, ArriveOwn, WriteChunksOwn, CommitOwn
  <2>5. CASE FreeCheck(c) \/ Migrate(c) \/ Publish(c) \/ DropSource(c)
    BY <1>1, <1>4, <2>5, FreeCheckOwn, MigrateOwn, PublishOwn, DropSourceOwn
  <2>6. CASE Abandon(c) \/ DropStray(c)
    BY <1>1, <1>4, <2>6, StrayOwn
  <2> QED BY <2>1, <2>2, <2>3, <2>4, <2>5, <2>6 DEF CallStep, RpcError
<1> QED BY <1>1, <1>3, <1>4, StepOwn

(* What Unmap removes is the copy that its migration made and the table    *)
(* has never named, or the source that the table has left behind.          *)
LEMMA UnmapOwn ==
    ASSUME TypeOK, TypeOK', Refs, NEW n, NEW i, Kept(n, i), Own,
           NEW c \in Migration, Unmap(c)
    PROVE  Own'
<1>1. /\ call[c].pc = "unmap" /\ UNCHANGED <<inc, table>>
      /\ call[c].h \in Handle /\ obj \in [Obj -> Object]
      /\ CallKept(c, n, i) /\ Advance(c, "done", call[c].h)
      /\ c \in Call /\ c \in Obj
  BY MigrationFields, CallFields, ConstantsAssumption
  DEF Unmap, leader, TypeOK, Kept
<1>2. \A q \in Obj :
        /\ obj'[q].node = obj[q].node /\ obj'[q].gen = obj[q].gen
        /\ obj'[q].lease = obj[q].lease /\ obj[q].lease \in Int
        /\ obj[q].mapped /\ q # call[c].pin => obj'[q].mapped
        /\ obj[q].lock \in {None, c} \/ obj'[q].lock = obj[q].lock
  <2> SUFFICES ASSUME NEW q \in Obj
               PROVE  /\ obj'[q].node = obj[q].node /\ obj'[q].gen = obj[q].gen
                      /\ obj'[q].lease = obj[q].lease /\ obj[q].lease \in Int
                      /\ obj[q].mapped /\ q # call[c].pin => obj'[q].mapped
                      /\ obj[q].lock \in {None, c} \/ obj'[q].lock = obj[q].lock
    OBVIOUS
  <2>1. /\ obj'[q] = [Unlocked(c)[q] EXCEPT !.mapped = @ /\ q # call[c].pin]
        /\ obj[q] \in Object
    BY <1>1 DEF Unmap
  <2>2. obj[q].lease \in Int
    BY CopyFields
  <2> QED BY <2>1, <2>2 DEF Unlocked, Object
<1>3. /\ call'[c].pc \in Ended
      /\ \A d \in Call : d # c => call'[d] = call[d]
  BY <1>1, DoneEnds DEF Only
<1>4. Eased(c) /\ EntryStays
  BY <1>1, <1>2 DEF Eased, EntryStays
<1>5. ASSUME NEW d \in Migration, d # c PROVE Minded(d)
  <2>1. Parted(c) /\ Parted(d) /\ Holds(c) /\ Fresh(c) /\ d \in Obj
    BY <1>5, MigrationFields DEF Own
  <2>2. Left(c) /\ Private(c)
    BY <1>1 DEF CallKept
  <2>3. Handed(d) => call[d].src \in Obj
    BY <1>5, MigrationFields DEF Handed
  <2>4. CASE Leaves(c)
    <3>1. PICK s \in Obj : s = call[c].src /\ s = call[c].pin
      BY <2>1, <2>4, MigrationFields DEF Holds, Leaves
    <3>2. Handed(c) /\ obj[s].gen < table.gen
      BY <2>2, <2>4, <3>1 DEF Handed, Leaves, Left
    <3>3. ~Names(table, s)
      BY <3>2, CopyFields, EntryFields DEF Names
    <3>4. Working(d) => d # s
      BY <1>5, <2>1, <3>1, <3>2 DEF Parted
    <3>5. Handed(d) => call[d].src # s
      BY <1>5, <2>1, <3>1, <3>2 DEF Parted
    <3> QED BY <1>2, <2>1, <2>3, <3>1, <3>3, <3>4, <3>5 DEF Minded
  <2>5. CASE ~Leaves(c)
    <3>1. Working(c) /\ Discarding(c)
      BY <1>1, <2>5 DEF Working, Discarding
    <3>2. /\ call[c].pin \in {None, c} /\ obj[c].mapped /\ ~Names(table, c)
          /\ None \notin Obj
      BY <2>1, <2>2, <3>1, CallKinds DEF Fresh, Private
    <3>3. Handed(d) => call[d].src # c
      BY <1>5, <2>1, <3>1 DEF Parted
    <3> QED BY <1>2, <1>5, <2>1, <2>3, <3>2, <3>3 DEF Minded
  <2> QED BY <2>4, <2>5
<1>6. ASSUME NEW d \in Migration PROVE OwnMove(d)
  <2>1. CASE d = c
    BY <1>3, <2>1, EndedOwn
  <2>2. CASE d # c
    <3>1. Minded(d) /\ call'[d] = call[d]
      BY <1>3, <1>5, <2>2, MigrationFields
    <3> QED BY <1>1, <1>4, <2>2, <3>1, OthersOwn
  <2> QED BY <2>1, <2>2
<1> QED BY <1>6, MovesOwn

(* A destination is discarded or handed over before it can expire; the     *)
(* source is locked meanwhile, and the table's copy has a lease.           *)
LEMMA ExpireOwn ==
    ASSUME Deadline < Lease, TypeOK, TypeOK', Refs, NEW n, NEW i, Kept(n, i),
           NoRestart, Own, NEW o \in Obj, Expire(o)
    PROVE  Own'
<1>1. /\ UNCHANGED <<inc, table, call>> /\ obj \in [Obj -> Object]
      /\ obj' = [obj EXCEPT ![o].mapped = FALSE] /\ obj[o].lease = 0
      /\ obj[o].lock = None
  BY DEF Expire, leader, TypeOK
<1>2. \A q \in Obj :
        /\ obj'[q].node = obj[q].node /\ obj'[q].gen = obj[q].gen
        /\ obj'[q].lease = obj[q].lease /\ obj[q].lease \in Int
        /\ obj[q].mapped /\ q # o => obj'[q].mapped
        /\ obj'[q].lock = obj[q].lock
  BY <1>1, CopyFields DEF Object
<1>3. Eased(None) /\ EntryStays
  BY <1>1, <1>2 DEF Eased, EntryStays
<1>4. ASSUME NEW d \in Migration PROVE OwnMove(d)
  <2>1. /\ Fresh(d) /\ Holds(d) /\ d \in Obj /\ d # None
        /\ Handed(d) => call[d].src \in Obj
    BY <1>4, MigrationFields, CallKinds DEF Own, Handed
  <2>2. Working(d) => d # o
    <3>1. /\ call[d].age \in Nat /\ call[d].age <= Deadline
          /\ Lease \in Nat /\ Deadline \in Nat
      BY MigrationFields
    <3> QED BY <1>1, <2>1, <3>1 DEF Fresh
  <2>3. obj[o].mapped => ~Names(table, o)
    <3>1. CASE table.owner # None
      BY <1>1, <3>1, TableCopy
    <3>2. CASE table.owner = None
      BY <3>2 DEF Names, Refs, MappedExist, Exists
    <3> QED BY <3>1, <3>2
  <2>4. Handed(d) /\ call[d].live /\ ~Leaves(d) => call[d].src # o
    BY <1>1, <2>1 DEF Handed, Holds
  <2>5. Minded(d)
    BY <1>2, <2>1, <2>2, <2>3, <2>4 DEF Minded
  <2> QED BY <1>1, <1>3, <2>1, <2>5, OthersOwn
<1> QED BY <1>4, MovesOwn

(* One compare-and-set of each generation succeeds, and its source is the  *)
(* copy that the table has named until then.                               *)
LEMMA CompareAndSetOwn ==
    ASSUME TypeOK, TypeOK', Refs, NEW n, NEW i, Kept(n, i), Own,
           NEW c \in Call, CompareAndSet(c)
    PROVE  Own'
<1>1. call[c].pc = "cas" /\ inc' = inc
  BY DEF CompareAndSet
<1>2. c \in Migration /\ c # Origin
  BY <1>1, StepsOf, CallKinds DEF Call, Refs, CallRole, Quiet, Ended
<1>3. CASE ~CasHolds(c)
  <2>1. Fails(c) /\ table' = table
    BY <1>3 DEF CompareAndSet
  <2>2. Spared(c) /\ EntryStays /\ CallStep(c)
    BY <2>1, StillSpared DEF Fails, EntryStays, CallStep
  <2>3. \A d \in Call : d # c => call'[d] = call[d]
    BY <2>2, CallStepCalm DEF CalmMove
  <2> QED BY <1>1, <1>2, <2>1, <2>2, <2>3, FailsMove, StepOwn
<1>4. CASE CasHolds(c)
  <2>1. PICK h \in Handle : h = call[c].h
    BY CallFields
  <2>2. /\ table' = Registered(table, h) /\ obj' = obj
        /\ Advance(c, "publish", h)
        /\ table.owner # None /\ table.gen = call[c].prev
        /\ h.gen = table.gen + 1 /\ table.gen \in Nat
        /\ table.lease > 0 /\ table.lease \in Int
    BY <1>4, <2>1, EntryFields DEF CompareAndSet, CasHolds, Kept, EntriesKept
  <2>3. table'.gen = table.gen + 1
    BY <2>2 DEF Registered, Sealed, Supersedes, Tombstone, Handle
  <2>4. \A d \in Call : d # c => call'[d] = call[d]
    BY <2>2, AdvanceEnds, StepNames DEF Only, Ended
  <2>5. ASSUME NEW d \in Migration, d # c
        PROVE  /\ OwnMove(d)
               /\ (Handed(d)' <=> Handed(d)) /\ (Working(d)' <=> Working(d))
               /\ call'[d].src = call[d].src
    <3>1. /\ Fresh(d) /\ Reads(d) /\ Holds(d) /\ call'[d] = call[d]
          /\ call[d].src # None => obj[call[d].src].gen \in Nat
          /\ call[d].h.gen \in Nat
      BY <2>4, <2>5, MigrationFields, CopyFields, CallFields DEF Own
    <3>2. /\ Leaves(d)' <=> Leaves(d)
          /\ Building(d)' <=> Building(d)
      BY <2>2, <3>1 DEF Leaves, Building
    <3>3. (Handed(d)' <=> Handed(d)) /\ (Working(d)' <=> Working(d))
      BY <3>1, <3>2 DEF Handed, Working, Discarding
    <3>4. Fresh(d)'
      BY <2>2, <3>1, <3>3 DEF Fresh
    <3>5. Reads(d)'
      BY <2>2, <2>3, <3>1 DEF Reads
    <3>6. Holds(d)'
      BY <2>2, <3>1, <3>2 DEF Holds
    <3> QED BY <3>1, <3>3, <3>4, <3>5, <3>6 DEF OwnMove
  <2>6. CASE call'[c].pc \in Ended
    BY <1>2, <2>5, <2>6, EndedOwn, MovesOwn
  <2>7. CASE call'[c].pc \notin Ended
    <3>1. /\ call'[c].pc = "publish" /\ call'[c].src = call[c].src
          /\ call'[c].live = call[c].live
      BY <2>2, <2>7, AdvanceOwn, StepNames DEF Ended
    <3>2. ~Building(c)' /\ ~Leaves(c)' /\ ~Discarding(c)' /\ ~Working(c)'
      BY <3>1 DEF Building, Leaves, Discarding, Working
    <3>3. ASSUME call[c].src # None
          PROVE  /\ call[c].src \in Obj /\ obj[call[c].src].gen = table.gen
                 /\ obj[call[c].src].mapped /\ Names(table, call[c].src)
                 /\ call[c].live => obj[call[c].src].lock = c
      <4>1. Course(c) /\ Reads(c) /\ Holds(c)
        BY <1>2 DEF Kept, CallKept, Own
      <4>2. call[c].src \in Obj /\ obj[call[c].src].gen = table.gen
        BY <1>1, <1>2, <2>2, <3>3, <4>1, MigrationFields DEF Course
      <4> QED BY <1>1, <3>3, <4>1, <4>2 DEF Reads, Holds
    <3>4. Fresh(c)' /\ Reads(c)' /\ Holds(c)'
      BY <2>2, <3>1, <3>2, <3>3 DEF Fresh, Reads, Holds
    <3>5. ASSUME NEW s \in Migration, s = call[c].src PROVE ~Working(s)'
      <4>1. CASE s = c
        BY <3>2, <4>1
      <4>2. CASE s # c
        <5>1. obj[s].mapped /\ Names(table, s) /\ Private(s)
          BY <3>3, <3>5, MigrationFields, CallKinds DEF Kept, CallKept
        <5> QED BY <2>5, <4>2, <5>1 DEF Private, Working
      <4> QED BY <4>1, <4>2
    <3>6. ASSUME NEW d \in Migration, d # c, Handed(d), call[d].src = call[c].src
          PROVE  FALSE
      <4>1. Left(d) /\ call[c].src # None
        BY <3>6, MigrationFields DEF Kept, CallKept, Handed
      <4>2. obj[call[c].src].gen < table.gen
        BY <3>6, <4>1 DEF Left, Handed
      <4> QED BY <2>2, <3>3, <4>1, <4>2
    <3>7. Parted(c)'
      BY <2>5, <3>1, <3>5, <3>6 DEF Parted
    <3>8. ASSUME NEW d \in Migration, d # c PROVE Parted(d)'
      <4> SUFFICES ASSUME Handed(d)
                   PROVE  /\ call[d].src \in Migration => ~Working(call[d].src)'
                          /\ \A e \in Migration :
                               Handed(e)' /\ call'[e].src = call[d].src => e = d
        BY <2>5, <3>8 DEF Parted
      <4>1. Parted(d)
        BY <3>8 DEF Own
      <4>2. ASSUME NEW s \in Migration, s = call[d].src PROVE ~Working(s)'
        BY <2>5, <3>2, <4>1, <4>2 DEF Parted
      <4>3. ASSUME NEW e \in Migration, Handed(e)', call'[e].src = call[d].src
            PROVE  e = d
        BY <2>5, <3>1, <3>6, <3>8, <4>1, <4>3 DEF Parted
      <4>4. ASSUME call[d].src \in Migration PROVE ~Working(call[d].src)'
        <5>1. PICK s \in Migration : s = call[d].src /\ s = call'[d].src
          BY <2>5, <3>8, <4>4
        <5>2. ~Working(s)'
          BY <4>2, <5>1
        <5> QED BY <5>1, <5>2
      <4> QED BY <4>3, <4>4
    <3> QED BY <2>5, <3>4, <3>7, <3>8 DEF Own, OwnMove
  <2> QED BY <2>6, <2>7
<1> QED BY <1>3, <1>4

LEMMA StartOwn ==
    ASSUME TypeOK, TypeOK', Refs, NEW n, NEW i, Kept(n, i), Own, Start, ~lapsed'
    PROVE  Own'
<1>1. /\ call \in [Call -> CallState] /\ Origin \in Call /\ Origin \notin Migration
      /\ UNCHANGED <<inc, obj>>
  BY CallKinds
  DEF TypeOK, Start, Allocate, Grant, ClientWrite, ClientCommit, StartRenew,
      StartFree, PickForMigration, ResolveFor
<1>2. \A c : Spared(c)
  BY <1>1, StillSpared
<1>3. EntryStays
  <2>1. CASE Grant
    BY <2>1, GrantEntry
  <2>2. CASE table' = table
    BY <2>2 DEF EntryStays
  <2> QED
    BY <2>1, <2>2
    DEF Start, Allocate, ClientWrite, ClientCommit, StartRenew, StartFree,
        PickForMigration, ResolveFor, leader
<1>4. ASSUME NEW c \in Call, c \notin Migration,
             \A d \in Call : d # c => call'[d] = call[d]
      PROVE  Own'
  BY <1>1, <1>2, <1>3, <1>4, StepOwn
<1>5. ASSUME NEW k \in Node, Allocate(k) PROVE Own'
  BY <1>1, <1>4, <1>5 DEF Allocate
<1>6. CASE Grant \/ ClientWrite \/ ClientCommit
  BY <1>1, <1>4, <1>6 DEF Grant, ClientWrite, ClientCommit, ResolveFor
<1>7. ASSUME NEW c \in Call, StartRenew(c) \/ StartFree(c) PROVE Own'
  <2>1. c \notin Migration
    BY <1>7, ConstantsAssumption DEF StartRenew, StartFree
  <2> QED BY <1>1, <1>4, <1>7, <2>1 DEF StartRenew, StartFree, ResolveFor
<1>8. ASSUME NEW c \in Call, PickForMigration(c) PROVE Own'
  <2>1. /\ c \in Migration /\ table' = table /\ table \in Handle
        /\ call' = [call EXCEPT ![c].pc = "picked", ![c].h = table]
    BY <1>8 DEF PickForMigration, leader, TypeOK
  <2>2. call'[c].pc = "picked" /\ call'[c].h = table
    BY <1>1, <2>1 DEF CallState
  <2>3. ~Building(c)' /\ ~Leaves(c)' /\ ~Discarding(c)'
    BY <2>2 DEF Building, Leaves, Discarding
  <2>4. Reads(c)'
    BY <2>1, <2>2, EntryFields DEF Reads
  <2>5. OwnMove(c)
    BY <2>2, <2>3, <2>4 DEF OwnMove, Fresh, Holds, Handed, Working
  <2>6. \A d \in Call : d # c => call'[d] = call[d]
    BY <1>1, <2>1
  <2> QED BY <1>1, <1>2, <1>3, <2>5, <2>6, StepOwn
<1> QED BY <1>5, <1>6, <1>7, <1>8 DEF Start

LEMMA MembershipOwn ==
    ASSUME TypeOK, TypeOK', Refs, NEW n, NEW i, Kept(n, i), Own, Membership,
           ~lapsed'
    PROVE  Own'
<1>1. UNCHANGED <<inc, obj, call>>
  BY DEF Membership, Exchange, ExpirePeer, RefreshCapabilities, AcceptPeer,
      DropGossip
<1>2. EntryStays /\ Spared(None) /\ None \notin Migration
  BY <1>1, MembershipEntry, StillSpared, CallKinds
<1> QED BY <1>1, <1>2, StepOwn

(* A destination loses a tick of its lease when its migration ages by one. *)
LEMMA TickOwn ==
    ASSUME TypeOK, TypeOK', Refs, NEW n, NEW i, Kept(n, i), Own, Tick
    PROVE  Own'
<1>1. /\ table'.owner = table.owner /\ table'.inc = table.inc
      /\ table'.gen = table.gen /\ inc' = inc
  BY EntryFields, AgedFields DEF Tick
<1>2. \A o \in Obj :
        /\ obj'[o].node = obj[o].node /\ obj'[o].gen = obj[o].gen
        /\ obj'[o].mapped = obj[o].mapped /\ obj'[o].lock = obj[o].lock
        /\ obj'[o].lease >= obj[o].lease - 1 /\ obj[o].lease \in Int
        /\ obj'[o].lease \in Int
  <2> SUFFICES ASSUME NEW o \in Obj
               PROVE  /\ obj'[o].node = obj[o].node /\ obj'[o].gen = obj[o].gen
                      /\ obj'[o].mapped = obj[o].mapped
                      /\ obj'[o].lock = obj[o].lock
                      /\ obj'[o].lease >= obj[o].lease - 1
                      /\ obj[o].lease \in Int /\ obj'[o].lease \in Int
    OBVIOUS
  <2>1. obj'[o] = [obj[o] EXCEPT !.lease = Aged(@)] /\ obj[o] \in Object
    BY DEF Tick, TypeOK
  <2>2. obj[o].lease \in Int
    BY CopyFields
  <2>3. Aged(obj[o].lease) \in Int /\ Aged(obj[o].lease) >= obj[o].lease - 1
    BY <2>2 DEF Aged
  <2> QED BY <2>1, <2>2, <2>3 DEF Object
<1>3. ASSUME NEW d \in Migration PROVE OwnMove(d)
  <2>1. /\ Fresh(d) /\ Reads(d) /\ Holds(d) /\ d \in Obj /\ d \in Call
        /\ d # Origin /\ call[d].age \in Nat /\ Lease \in Nat
        /\ call[d].src # None => call[d].src \in Obj
    BY <1>3, MigrationFields DEF Own
  <2>2. PICK h \in Handle : h = call[d].h /\ h.lease \in Int
    BY <2>1, CallFields
  <2>3. PICK a \in Handle : /\ a = AgedHandle(h) /\ a.owner = h.owner
                            /\ a.gen = h.gen /\ a.lease = Aged(h.lease)
    BY <2>2, AgedFields
  <2>4. /\ call'[d].pc = call[d].pc /\ call'[d].pin = call[d].pin
        /\ call'[d].src = call[d].src /\ call'[d].live = call[d].live
        /\ call'[d].h = a
        /\ call'[d].age = IF Timed(d) THEN call[d].age + 1 ELSE call[d].age
    BY <2>1, <2>2, <2>3, CallFields DEF Tick, CallState
  <2>5. a.lease >= h.lease - 1 /\ a.lease \in Int
    BY <2>2, <2>3 DEF Aged
  <2>6. /\ Leaves(d)' <=> Leaves(d)
        /\ Building(d)' <=> Building(d)
    BY <1>2, <2>1, <2>2, <2>3, <2>4 DEF Leaves, Building
  <2>7. (Handed(d)' <=> Handed(d)) /\ (Working(d)' <=> Working(d))
    BY <2>4, <2>6 DEF Handed, Working, Discarding
  <2>8. Working(d) \/ call[d].pc = "alloc" => call'[d].age = call[d].age + 1
    BY <2>1, <2>4 DEF Working, Building, Discarding, Timed, Ended
  <2>9. Fresh(d)'
    <3>1. call[d].pc = "alloc" => a.lease + call'[d].age >= Lease
      BY <2>1, <2>2, <2>5, <2>8 DEF Fresh
    <3>2. Working(d) => obj'[d].lease + call'[d].age >= Lease
      BY <1>2, <2>1, <2>8 DEF Fresh
    <3> QED BY <1>2, <2>1, <2>2, <2>3, <2>4, <2>7, <3>1, <3>2 DEF Fresh
  <2>10. Reads(d)'
    BY <1>1, <1>2, <2>1, <2>2, <2>3, <2>4 DEF Reads, Names
  <2>11. Holds(d)'
    BY <1>2, <2>1, <2>4, <2>6 DEF Holds
  <2> QED BY <2>4, <2>7, <2>9, <2>10, <2>11 DEF OwnMove
<1> QED BY <1>3, MovesOwn

LEMMA NoRestartBefore ==
    ASSUME TypeOK, [Next]_vars, NoRestart'
    PROVE  NoRestart /\ \A k \in Node : ~Restart(k)
<1>1. ASSUME NEW k \in Node, Restart(k) PROVE FALSE
  <2>1. inc' = [inc EXCEPT ![k] = @ + 1] /\ inc \in [Node -> Nat \ {0}]
    BY <1>1 DEF Restart, TypeOK
  <2>2. inc'[k] = inc[k] + 1 /\ inc[k] \in Nat /\ inc[k] # 0
    BY <2>1
  <2> QED BY <2>2 DEF NoRestart
<1>2. inc' = inc
  BY ZenonT(60), <1>1
  DEF Next, Work, Start, CallStep, Membership, Allocate, Grant, ClientWrite,
      ClientCommit, StartRenew, StartFree, PickForMigration, ResolveFor,
      AllocateLocal, Arrive, WriteChunks, Commit, Register, Renew, FreeCheck,
      Unmap, Expire, Migrate, LockSource, CompareAndSet, Publish, DropSource,
      RpcError, Abandon, DropStray, Exchange, AcceptPeer, DropGossip,
      ExpirePeer, RefreshCapabilities, Tick, vars
<1> QED BY <1>1, <1>2 DEF NoRestart

LEMMA NextOwn ==
    ASSUME Deadline < Lease, TypeOK, TypeOK', Refs, NEW n, NEW i, Kept(n, i),
           Own, [Next]_vars, Undisturbed', NoRestart'
    PROVE  Own'
<1>1. /\ Undisturbed /\ ~lapsed' /\ NoRestart
      /\ \A k \in Node : ~Restart(k)
  BY UndisturbedBefore, NoRestartBefore DEF Undisturbed
<1>2. CASE UNCHANGED vars
  <2>1. UNCHANGED <<inc, obj, call, table>>
    BY <1>2 DEF vars, leader
  <2>2. EntryStays /\ Spared(None) /\ None \notin Migration
    BY <2>1, StillSpared, CallKinds DEF EntryStays
  <2> QED BY <2>1, <2>2, StepOwn
<1>3. ASSUME NEW c \in Call, CallStep(c) PROVE Own'
  <2>1. c \notin Release
    BY <1>1, <1>3, StepUnderWay DEF Undisturbed
  <2>2. CASE Unmap(c)
    <3>1. c \in Migration
      BY <2>1, <2>2, StepsOf DEF Unmap, Call, Refs, CallRole, Quiet, Ended
    <3> QED BY <2>2, <3>1, UnmapOwn
  <2>3. CASE CompareAndSet(c)
    BY <2>3, CompareAndSetOwn
  <2> QED BY <1>1, <1>3, <2>1, <2>2, <2>3, CallStepOwn
<1>4. ASSUME NEW o \in Obj, Expire(o) PROVE Own'
  BY <1>1, <1>4, ExpireOwn
<1> QED
  BY <1>1, <1>2, <1>3, <1>4, StartOwn, MembershipOwn, TickOwn DEF Next, Work

LEMMA OwnInvariant ==
    ASSUME Deadline < Lease
    PROVE  Spec => [](Undisturbed /\ NoRestart => Own)
<1>1. Init => Own
  <2> SUFFICES ASSUME Init, NEW c \in Migration
               PROVE  Fresh(c) /\ Reads(c) /\ Holds(c) /\ Parted(c)
    BY DEF Own
  <2>1. call[c].pc = "idle"
    BY CallKinds DEF Init, IdleCall
  <2>2. ~Building(c) /\ ~Leaves(c) /\ ~Discarding(c) /\ ~Handed(c) /\ ~Working(c)
    BY <2>1 DEF Building, Leaves, Discarding, Handed, Working
  <2> QED BY <2>1, <2>2 DEF Fresh, Reads, Holds, Parted
<1>2. /\ TypeOK /\ Refs /\ TypeOK' /\ (Undisturbed => \E n, i : Kept(n, i))
      /\ (Undisturbed /\ NoRestart => Own) /\ [Next]_vars
      => (Undisturbed /\ NoRestart => Own)'
  <2> SUFFICES ASSUME TypeOK, Refs, TypeOK', [Next]_vars,
                      Undisturbed => \E n, i : Kept(n, i),
                      Undisturbed /\ NoRestart => Own, Undisturbed', NoRestart'
               PROVE  Own'
    OBVIOUS
  <2>1. Undisturbed /\ NoRestart
    BY UndisturbedBefore, NoRestartBefore
  <2>2. PICK n, i : Kept(n, i)
    BY <2>1
  <2> QED BY <2>1, <2>2, NextOwn
<1> QED BY <1>1, <1>2, Invariance, KeptInvariant, PTL DEF Spec

(* The Free that a failed migration sends, or the one that ends a          *)
(* successful one, removes that migration's own destination or source and  *)
(* no other copy, whatever is lost, late, abandoned or racing: as long as  *)
(* the entry has been kept up, no client has freed the block, no request   *)
(* has met another's copy and no owner has restarted, and when a migration *)
(* ends before the lease it gave its destination does (migrate             *)
(* in memory/migration.rs, LocalRam::free in memory/local_ram.rs).         *)
THEOREM DiscardsOwn ==
    ASSUME Deadline < Lease
    PROVE  Spec => [](Undisturbed /\ NoRestart => DiscardsOwnCopy)
<1>1. /\ TypeOK /\ Refs /\ (Undisturbed /\ NoRestart => Own)
      => (Undisturbed /\ NoRestart => DiscardsOwnCopy)
  <2> SUFFICES ASSUME TypeOK, Refs, Own, NEW c \in Migration,
                      call[c].pc \in {"free", "unmap"}
               PROVE  OwnCopy(c)
    BY DEF DiscardsOwnCopy
  <2>1. c \in Obj /\ Fresh(c) /\ Holds(c)
    BY CallKinds DEF Own
  <2>2. call[c].pin \in {None, c, call[c].src}
    <3>1. CASE Leaves(c)
      BY <2>1, <3>1 DEF Holds
    <3>2. CASE ~Leaves(c)
      BY <2>1, <3>2 DEF Fresh, Working, Discarding
    <3> QED BY <3>1, <3>2
  <2> QED BY <2>1, <2>2 DEF OwnCopy
<1> QED BY <1>1, Invariance, OwnInvariant, PTL

=============================================================================
