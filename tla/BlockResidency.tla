--------------------------- MODULE BlockResidency ---------------------------
(***************************************************************************)
(* The life of one RAM block in a TrainPool cluster: the copies that the   *)
(* owner daemons hold (memory/local_ram.rs), the leader's residency table  *)
(* (memory/residency.rs), the control handlers that allocate, commit,      *)
(* renew, free, register and publish it (runtime/control.rs), the          *)
(* migration handler (memory/migration.rs) and the membership exchange     *)
(* that carries inventories and reveals restarts (runtime/monitor.rs).     *)
(*                                                                         *)
(* Blocks meet only in the RAM accounting (module RamAccounting), so one   *)
(* block is followed.  Its lease token never changes and every caller      *)
(* modelled here holds it.  The leader is fixed: leadership changes are    *)
(* not part of this module.                                                *)
(*                                                                         *)
(* Every call is used once.  A call has at most one request under way;     *)
(* the request is first in flight (pin = None), then pinned to the Arc its *)
(* handler took from the owner's map, then executed under that block's     *)
(* lock.  A caller that gives up (live = FALSE) leaves its request behind, *)
(* and that request may still execute.                                     *)
(*                                                                         *)
(* Time is relative: a lease is the number of ticks it still has to run,   *)
(* so that Tick ages every lease and no clock is needed.                   *)
(***************************************************************************)
EXTENDS Integers, FiniteSets

CONSTANTS
    Node,       \* the daemons that own RAM
    Compute,    \* those of them that the job's plan computes on
    Origin,     \* the client call that allocates and uploads the block
    Renewal,    \* the client calls that renew its lease
    Release,    \* the client calls that free it
    Migration,  \* the Migrate requests the leader sends
    None,       \* no node, no object, no call
    Lease,      \* ticks of a fresh lease (config.lease_seconds)
    Deadline,   \* ticks a request and what it leaves behind can last
    MaxInc,     \* bound: incarnations of one node
    MaxGossip   \* bound: exchanges in flight

Call == {Origin} \cup Renewal \cup Release \cup Migration

(* Each allocation creates one RamBlock object; it is named after the call *)
(* that made it, and its name stands for the Arc's identity.               *)
Obj == {Origin} \cup Migration

ASSUME ConstantsAssumption ==
    /\ Origin \notin Renewal \cup Release \cup Migration
    /\ Renewal \cap Release = {}
    /\ Renewal \cap Migration = {}
    /\ Release \cap Migration = {}
    /\ None \notin Node \cup Call
    /\ Compute \subseteq Node
    /\ Lease \in Nat \ {0}
    /\ Deadline \in Nat \ {0}
    /\ MaxInc \in Nat \ {0}
    /\ MaxGossip \in Nat

VARIABLES
    inc,      \* inc[n]: the incarnation node n runs as
    obj,      \* obj[o]: the RamBlock object o
    table,    \* the leader's residency entry for the block
    peer,     \* peer[n]: incarnation the leader has for member n, 0 if none
    jobError, \* the leader has failed the block's job
    call,     \* call[c]: progress of call c
    gossip,   \* exchange requests on their way to the leader
    lapsed,   \* history: the table's entry has been seen expired
    crossed   \* history: a request has acted on another copy than its own

leader == <<table, peer, jobError, lapsed>>

vars == <<inc, obj, leader, call, gossip, crossed>>

-----------------------------------------------------------------------------
(* Handles, objects and calls *)

(* lease_expires_ms = 0, the mark a Free leaves in the table; an instant   *)
(* that has passed is the lease 0.                                         *)
Tombstone == -1

LeaseTicks == Tombstone..Lease

Handle == [owner : Node \cup {None}, inc : Nat, gen : Nat,
           state : {"Writing", "Ready", "Lost"}, lease : LeaseTicks]

NoHandle ==
    [owner |-> None, inc |-> 0, gen |-> 0, state |-> "Lost", lease |-> 0]

Object == [node : Node \cup {None}, gen : Nat, state : {"Writing", "Ready"},
           full : BOOLEAN, lease : 0..Lease, published : BOOLEAN,
           mapped : BOOLEAN, lock : Migration \cup {None}]

NoObject == [node |-> None, gen |-> 0, state |-> "Writing", full |-> FALSE,
             lease |-> 0, published |-> FALSE, mapped |-> FALSE,
             lock |-> None]

(* The steps a call goes through; all but the local ones wait for a reply. *)
LocalStep == {"idle", "picked", "lock", "grant", "toWrite", "toCommit", "drop"}
OwnerStep == {"write", "commit", "renew", "free", "publish"}
Ended == {"done", "failed", "denied"}
Step == LocalStep \cup OwnerStep \cup {"alloc", "unmap", "register", "cas"}
          \cup Ended

CallState == [pc : Step, live : BOOLEAN, age : 0..Deadline, h : Handle,
              prev : Nat, src : Obj \cup {None}, pin : Obj \cup {None}]

IdleCall == [pc |-> "idle", live |-> TRUE, age |-> 0, h |-> NoHandle,
             prev |-> 0, src |-> None, pin |-> None]

(* The later of two expiry instants (u64::max); the mutant adds them. *)
LargerMutant(a, b) == a + b
Larger(a, b) == IF a >= b THEN a ELSE b

MappedAt(n) == {o \in Obj : obj[o].mapped /\ obj[o].node = n}

(* What RamBlock.handle says: the owner's incarnation is the one that made *)
(* the object, because objects do not outlive their process.               *)
HandleOf(o) ==
    [owner |-> obj[o].node, inc |-> inc[obj[o].node], gen |-> obj[o].gen,
     state |-> obj[o].state, lease |-> obj[o].lease]

(* LocalRam.allocate: only generation 0 starts published.  The mutant      *)
(* publishes a migration's destination from the start.                     *)
AllocatedAsMutant(h) ==
    [node |-> h.owner, gen |-> h.gen, state |-> "Writing", full |-> FALSE,
     lease |-> h.lease, published |-> TRUE, mapped |-> TRUE, lock |-> None]

AllocatedAs(h) ==
    [node |-> h.owner, gen |-> h.gen, state |-> "Writing", full |-> FALSE,
     lease |-> h.lease, published |-> h.gen = 0, mapped |-> TRUE,
     lock |-> None]

(* LocalRam.allocate refuses an id its map already has; the mutant does    *)
(* not look.                                                               *)
VacantMutant(n) == TRUE
Vacant(n) == MappedAt(n) = {}

(* RamBlock.authorize: the token always matches here, the lease may not. *)
Authorized(o) == obj[o].lease > 0

(* The guard that migration c holds is dropped; the mutant leaks it. *)
UnlockedMutant(c) == obj
Unlocked(c) ==
    [o \in Obj |-> IF obj[o].lock = c THEN [obj[o] EXCEPT !.lock = None]
                                      ELSE obj[o]]

-----------------------------------------------------------------------------
(* The residency table *)

(* A tombstone never changes; the mutant forgets that. *)
SealedMutant(t) == FALSE
Sealed(t) == t.lease = Tombstone

(* Only a generation that is not older replaces an entry. *)
SupersedesMutant(h, t) == TRUE
Supersedes(h, t) == h.gen >= t.gen

(* ResidencyTable.register *)
Registered(t, h) ==
    LET same == h.gen = t.gen /\ h.lease # Tombstone
        lease == IF same THEN Larger(t.lease, h.lease) ELSE h.lease
    IN  CASE t.owner = None -> h
          [] t.owner # None /\ Sealed(t) -> t
          [] OTHER ->
               IF same /\ t.state = "Ready" /\ h.state = "Writing"
               THEN [t EXCEPT !.lease = lease]
               ELSE IF Supersedes(h, t) THEN [h EXCEPT !.lease = lease] ELSE t

(* ResidencyTable.lose_node *)
LoseNode(t, n) == IF t.owner = n THEN [t EXCEPT !.state = "Lost"] ELSE t

(* The loss of n fails the job: Jobs.lose_compute, or Jobs.fail for the    *)
(* blocks that lose_node returns.                                          *)
LosesJob(n) == n \in Compute \/ table.owner = n

(* What Resolve answers: a handle that is neither lost nor expired and     *)
(* whose owner has an address.                                             *)
Resolvable ==
    /\ table.owner # None
    /\ table.state # "Lost"
    /\ table.lease > 0
    /\ peer[table.owner] # 0

(* Recorded whenever the table is written. *)
Lapse == lapsed' = (lapsed \/ (table'.owner # None /\ table'.lease = 0))

-----------------------------------------------------------------------------
(* How a call moves on *)

(* The call is over; nothing it held or knew matters any more. *)
Over(result) == [IdleCall EXCEPT !.pc = result]

(* An allocation whose answer the leader never gets is never handed out:   *)
(* the leader turns to its next candidate, under another id.               *)
Failure(c) == IF call[c].pc \in {"alloc", "grant"} THEN "denied" ELSE "failed"

(* Commit and Renew send their Register from the owner's own handler, for  *)
(* whom the caller's patience does not matter.                             *)
Onward(c, next) == call[c].live \/ (next = "register" /\ c \notin Release)

(* The reply to c's request reaches its caller, if it still waits. *)
Advance(c, next, h) ==
    call' = [call EXCEPT
               ![c] = IF ~Onward(c, next) THEN Over(Failure(c))
                      ELSE IF next = "done" THEN Over("done")
                      ELSE [@ EXCEPT !.pc = next, !.pin = None, !.h = h]]

(* A copy that fails has the source discard the destination; it keeps its  *)
(* own block locked meanwhile.                                             *)
Discards(c) ==
    c \in Migration /\ call[c].live /\ call[c].pc \in {"write", "commit"}

(* c's request is answered with an error, or never answered. *)
Fails(c) ==
    IF Discards(c)
    THEN /\ call' = [call EXCEPT ![c].pc = "free", ![c].pin = None]
         /\ UNCHANGED obj
    ELSE /\ call' = [call EXCEPT ![c] = Over(Failure(c))]
         /\ obj' = Unlocked(c)

(* c's request has met the copy it was issued for: the one its call made   *)
(* or moves, or the one its handle names.  Commit, Renew, Free and Publish *)
(* find a block by id and token, none looks at the incarnation and only    *)
(* Publish at the generation, so they may meet another copy.  The code     *)
(* goes on all the same; crossed only records that it happened.            *)
OwnCopy(c) ==
    LET o == call[c].pin
        h == call[c].h
    IN  CASE o = None -> TRUE
          [] o # None /\ c \in Obj -> o \in {c, call[c].src}
          [] o # None /\ c \in Release -> TRUE
          [] OTHER -> HandleOf(o).gen = h.gen /\ HandleOf(o).inc = h.inc

Pinned(c, step) == call[c].pc = step /\ call[c].pin # None

(* The handler's block.lock().await has returned. *)
LockFree(c) == obj[call[c].pin].lock = None

-----------------------------------------------------------------------------
(* Allocation and upload *)

(* The leader handles Allocate: it chooses a member with room and asks it  *)
(* for the block.  Ranking and capacity are left open.                     *)
Allocate(n) ==
    /\ call[Origin].pc = "idle"
    /\ ~jobError
    /\ peer[n] # 0
    /\ call' = [call EXCEPT
                  ![Origin].pc = "alloc",
                  ![Origin].h = [owner |-> n, inc |-> peer[n], gen |-> 0,
                                 state |-> "Writing", lease |-> Lease]]
    /\ UNCHANGED <<inc, obj, leader, gossip, crossed>>

(* AllocateLocal at the chosen owner, for the leader or for a migration    *)
(* source: the right incarnation, and no block of that id in its map.      *)
AllocateLocal(c) ==
    /\ call[c].pc = "alloc"
    /\ inc[call[c].h.owner] = call[c].h.inc
    /\ Vacant(call[c].h.owner)
    /\ obj' = [obj EXCEPT ![c] = AllocatedAs(call[c].h)]
    /\ Advance(c, IF c = Origin THEN "grant" ELSE "write", call[c].h)
    /\ UNCHANGED <<inc, leader, gossip, crossed>>

(* The leader records the answered allocation and hands out the handle. *)
Grant ==
    /\ call[Origin].pc = "grant"
    /\ table' = Registered(table, call[Origin].h)
    /\ Lapse
    /\ call' = [call EXCEPT ![Origin].pc = "toWrite"]
    /\ UNCHANGED <<inc, obj, peer, jobError, gossip, crossed>>

(* A client request with direct = false: the daemon resolves the block and *)
(* sends the same request to the owner it was told.                        *)
ResolveFor(c, step) ==
    /\ Resolvable
    /\ call' = [call EXCEPT ![c].pc = step, ![c].h = table]
    /\ UNCHANGED <<inc, obj, leader, gossip, crossed>>

ClientWrite == call[Origin].pc = "toWrite" /\ ResolveFor(Origin, "write")
ClientCommit == call[Origin].pc = "toCommit" /\ ResolveFor(Origin, "commit")

(* The owner's handler takes the Arc from its map.  An absent block is an  *)
(* error, except to LocalRam.free, which then has nothing to do.           *)
Arrive(c) ==
    /\ call[c].pc \in OwnerStep
    /\ call[c].pin = None
    /\ LET here == MappedAt(call[c].h.owner) IN
       \/ \E o \in here :
            /\ call' = [call EXCEPT ![c].pin = o]
            /\ UNCHANGED obj
       \/ /\ here = {}
          /\ call[c].pc # "free"
          /\ Fails(c)
       \/ /\ here = {}
          /\ call[c].pc = "free"
          /\ call' = [call EXCEPT ![c].pc = "unmap"]
          /\ UNCHANGED obj
    /\ UNCHANGED <<inc, leader, gossip, crossed>>

(* The chunks of one upload or one migration copy, as one step. *)
WriteChunks(c) ==
    /\ Pinned(c, "write") /\ LockFree(c)
    /\ LET o == call[c].pin IN
       \/ /\ Authorized(o) /\ obj[o].gen = call[c].h.gen
          /\ obj[o].state = "Writing" /\ ~obj[o].full
          /\ obj' = [obj EXCEPT ![o].full = TRUE]
          /\ Advance(c, IF c = Origin THEN "toCommit" ELSE "commit", call[c].h)
       \/ /\ \/ ~Authorized(o) \/ obj[o].gen # call[c].h.gen
             \/ obj[o].state # "Writing" \/ obj[o].full
          /\ Fails(c)
    /\ UNCHANGED <<inc, leader, gossip, crossed>>

(* What follows a commit: the owner registers the origin's copy, which is  *)
(* the one of generation 0; the mutant has a migration release its source  *)
(* at once.                                                                *)
AfterCommitMutant(c) == IF c = Origin THEN "register" ELSE "drop"
AfterCommit(c) == IF c = Origin THEN "register" ELSE "cas"

(* Commit at the owner.  Only a first generation is registered from here;  *)
(* a migrated copy becomes current through its source's compare-and-set.   *)
(* The second case is a commit whose reply is lost: the source discards    *)
(* the copy although it is committed.                                      *)
Commit(c) ==
    /\ Pinned(c, "commit") /\ LockFree(c)
    /\ LET o == call[c].pin IN
       \/ /\ Authorized(o) /\ obj[o].full
          /\ obj' = [obj EXCEPT ![o].state = "Ready"]
          /\ Advance(c, AfterCommit(c),
                     [HandleOf(o) EXCEPT !.state = "Ready"])
       \/ /\ Authorized(o) /\ obj[o].full /\ Discards(c)
          /\ obj' = [obj EXCEPT ![o].state = "Ready"]
          /\ call' = [call EXCEPT ![c].pc = "free", ![c].pin = None]
       \/ /\ ~Authorized(o) \/ ~obj[o].full
          /\ Fails(c)
    /\ crossed' = (crossed \/ ~OwnCopy(c))
    /\ UNCHANGED <<inc, leader, gossip>>

(* Register without previous_generation reaches the leader. *)
Register(c) ==
    /\ call[c].pc = "register"
    /\ table' = Registered(table, call[c].h)
    /\ Lapse
    /\ Advance(c, "done", call[c].h)
    /\ UNCHANGED <<inc, obj, peer, jobError, gossip, crossed>>

-----------------------------------------------------------------------------
(* Renewal and release *)

(* The client has the handle: it knows the block's id and lease token. *)
Granted == call[Origin].pc \notin {"idle", "alloc", "grant", "denied"}

StartRenew(c) ==
    /\ c \in Renewal /\ call[c].pc = "idle" /\ Granted
    /\ ResolveFor(c, "renew")

(* Renew at the owner: whichever generation it holds is renewed, and the   *)
(* renewed handle goes to the leader.                                      *)
Renew(c) ==
    /\ Pinned(c, "renew") /\ LockFree(c)
    /\ LET o == call[c].pin IN
       \/ /\ Authorized(o)
          /\ obj' = [obj EXCEPT ![o].lease = Lease]
          /\ Advance(c, "register", [HandleOf(o) EXCEPT !.lease = Lease])
       \/ ~Authorized(o) /\ Fails(c)
    /\ crossed' = (crossed \/ ~OwnCopy(c))
    /\ UNCHANGED <<inc, leader, gossip>>

StartFree(c) ==
    /\ c \in Release /\ call[c].pc = "idle" /\ Granted
    /\ ResolveFor(c, "free")

(* LocalRam.free waits for the block's lock only to compare the token. *)
FreeCheck(c) ==
    /\ Pinned(c, "free") /\ LockFree(c)
    /\ call' = [call EXCEPT ![c].pc = "unmap"]
    /\ UNCHANGED <<inc, obj, leader, gossip, crossed>>

(* LocalRam.free's second half removes the Arc it checked, if the map      *)
(* still holds that one.  A client's Free goes on to register the          *)
(* tombstone; a discard or a release ends the migration.                   *)
Unmap(c) ==
    /\ call[c].pc = "unmap"
    /\ obj' = [o \in Obj |->
                 [Unlocked(c)[o] EXCEPT
                    !.mapped = @ /\ o # call[c].pin]]
    /\ crossed' = (crossed \/ ~OwnCopy(c))
    /\ IF c \in Release
       THEN Advance(c, "register", [call[c].h EXCEPT !.lease = Tombstone])
       ELSE Advance(c, "done", call[c].h)
    /\ UNCHANGED <<inc, leader, gossip>>

(* The owner's monitor drops an expired block unless someone holds its     *)
(* lock.                                                                   *)
Expire(o) ==
    /\ obj[o].mapped
    /\ obj[o].lease = 0
    /\ obj[o].lock = None
    /\ obj' = [obj EXCEPT ![o].mapped = FALSE]
    /\ UNCHANGED <<inc, leader, call, gossip, crossed>>

-----------------------------------------------------------------------------
(* Migration *)

(* relieve_pressure at the leader reads the entries of the node under      *)
(* pressure; what it then sends, to one target after another, is that      *)
(* snapshot.                                                               *)
PickForMigration(c) ==
    /\ c \in Migration
    /\ call[c].pc = "idle"
    /\ table.owner # None /\ table.state = "Ready" /\ table.lease > 0
    /\ call' = [call EXCEPT ![c].pc = "picked", ![c].h = table]
    /\ UNCHANGED <<inc, obj, leader, gossip, crossed>>

(* Migrate reaches the source, whose handler takes the Arc. *)
Migrate(c) ==
    /\ call[c].pc = "picked"
    /\ LET here == MappedAt(call[c].h.owner) IN
       \/ /\ \E o \in here :
               call' = [call EXCEPT ![c].pc = "lock", ![c].src = o]
          /\ UNCHANGED obj
       \/ here = {} /\ Fails(c)
    /\ UNCHANGED <<inc, leader, gossip, crossed>>

(* The source locks its block, checks it and asks the destination for an   *)
(* unpublished successor.                                                  *)
LockSource(c, dst) ==
    /\ call[c].pc = "lock"
    /\ LET s == call[c].src IN
       /\ obj[s].lock = None
       /\ dst # obj[s].node
       /\ \/ /\ Authorized(s) /\ obj[s].state = "Ready"
             /\ obj[s].gen = call[c].h.gen
             /\ obj' = [obj EXCEPT ![s].lock = c]
             /\ call' = [call EXCEPT
                           ![c].pc = "alloc",
                           ![c].prev = obj[s].gen,
                           ![c].h = [owner |-> dst, inc |-> inc[dst],
                                     gen |-> obj[s].gen + 1,
                                     state |-> "Writing", lease |-> Lease]]
          \/ /\ \/ ~Authorized(s) \/ obj[s].state # "Ready"
                \/ obj[s].gen # call[c].h.gen
             /\ Fails(c)
    /\ UNCHANGED <<inc, leader, gossip, crossed>>

(* Register's checks against the entry; the mutant skips the comparison of *)
(* the entry's generation.                                                 *)
CasHoldsMutant(c) ==
    /\ table.owner # None
    /\ call[c].h.gen = call[c].prev + 1
    /\ call[c].h.state = "Ready"

CasHolds(c) ==
    /\ table.owner # None
    /\ table.gen = call[c].prev
    /\ call[c].h.gen = call[c].prev + 1
    /\ call[c].h.state = "Ready"

(* Register with previous_generation reaches the leader. *)
CompareAndSet(c) ==
    /\ call[c].pc = "cas"
    /\ \/ /\ CasHolds(c)
          /\ table' = Registered(table, call[c].h)
          /\ Advance(c, "publish", call[c].h)
          /\ UNCHANGED obj
       \/ /\ ~CasHolds(c)
          /\ Fails(c)
          /\ UNCHANGED table
    /\ Lapse
    /\ UNCHANGED <<inc, peer, jobError, gossip, crossed>>

Publish(c) ==
    /\ Pinned(c, "publish") /\ LockFree(c)
    /\ LET o == call[c].pin IN
       \/ /\ Authorized(o) /\ obj[o].state = "Ready"
          /\ obj[o].gen = call[c].h.gen
          /\ obj' = [obj EXCEPT ![o].published = TRUE]
          /\ Advance(c, "drop", call[c].h)
       \/ /\ ~Authorized(o) \/ obj[o].state # "Ready"
             \/ obj[o].gen # call[c].h.gen
          /\ Fails(c)
    /\ crossed' = (crossed \/ ~OwnCopy(c))
    /\ UNCHANGED <<inc, leader, gossip>>

(* The source unlocks its block and enters LocalRam.free on its own map.   *)
(* The map's mutex is first come, first served, so nothing that needs the  *)
(* map twice gets in between.                                              *)
DropSource(c) ==
    /\ call[c].pc = "drop"
    /\ obj' = Unlocked(c)
    /\ LET here == MappedAt(obj[call[c].src].node) IN
       \/ \E o \in here :
            call' = [call EXCEPT ![c].pc = "free", ![c].pin = o,
                                 ![c].h = HandleOf(call[c].src)]
       \/ here = {} /\ call' = [call EXCEPT ![c] = Over("done")]
    /\ UNCHANGED <<inc, leader, gossip, crossed>>

-----------------------------------------------------------------------------
(* Failures *)

(* The request is lost, or its capacity or transport fails: the caller     *)
(* sees an error.                                                          *)
RpcError(c) ==
    /\ call[c].live
    /\ call[c].pc \notin LocalStep \cup Ended \cup {"unmap"}
    /\ Fails(c)
    /\ UNCHANGED <<inc, leader, gossip, crossed>>

(* The caller stops waiting (its connection's deadline cancels the         *)
(* handler) and drops what it holds; the request it sent is still about.   *)
Abandon(c) ==
    /\ c \in Migration \cup Release \cup {Origin}
    /\ call[c].live
    /\ call[c].pc \notin {"idle"} \cup Ended
    /\ call' = [call EXCEPT
                  ![c] = IF @.pc \in LocalStep THEN Over(Failure(c))
                         ELSE [@ EXCEPT !.live = FALSE]]
    /\ obj' = Unlocked(c)
    /\ UNCHANGED <<inc, leader, gossip, crossed>>

(* A request left behind never executes. *)
DropStray(c) ==
    /\ ~call[c].live
    /\ call[c].pc \notin Ended
    /\ call' = [call EXCEPT ![c] = Over(Failure(c))]
    /\ UNCHANGED <<inc, obj, leader, gossip, crossed>>

Awaits(c, n) ==
    call[c].pc \in OwnerStep \cup {"alloc", "unmap"} /\ call[c].h.owner = n

(* The process of node n dies and starts again: its blocks are gone, and   *)
(* so are the handlers it ran and the requests left behind there.          *)
(* Requests it had sent are still about; a caller that still waits for it  *)
(* has to reach the new process or fail.                                   *)
Restart(n) ==
    /\ inc[n] < MaxInc
    /\ inc' = [inc EXCEPT ![n] = @ + 1]
    /\ LET gone == {o \in Obj : obj[o].node = n}
           killed(c) == call[c].src \in gone
           served(c) == call[c].pin \in gone
           ended(c) == \/ killed(c) /\ (call[c].pc \in LocalStep \/ served(c))
                       \/ ~call[c].live /\ (served(c) \/ Awaits(c, n))
       IN /\ obj' = [o \in Obj |->
                       IF o \in gone THEN NoObject
                       ELSE [obj[o] EXCEPT
                               !.lock = IF @ \in {c \in Call : killed(c)}
                                        THEN None ELSE @]]
          /\ call' = [c \in Call |->
               IF ended(c) THEN Over(Failure(c))
               ELSE [call[c] EXCEPT
                       !.live = @ /\ ~killed(c),
                       !.src = IF killed(c) THEN None ELSE @,
                       !.pin = IF served(c) THEN None ELSE @,
                       !.pc = IF served(c) /\ @ = "unmap" THEN "free" ELSE @]]
    /\ UNCHANGED <<leader, gossip, crossed>>

-----------------------------------------------------------------------------
(* Membership at the leader *)

(* Node n sends its capabilities and its inventory: the published block,   *)
(* unless its lock is taken.                                               *)
Exchange(n) ==
    /\ Cardinality(gossip) < MaxGossip
    /\ \E h \in {HandleOf(o) : o \in {m \in MappedAt(n) :
                    obj[m].published /\ obj[m].lock = None}}
               \cup {NoHandle} :
         /\ h = NoHandle => \A o \in MappedAt(n) :
                              ~obj[o].published \/ obj[o].lock # None
         /\ gossip' = gossip \cup {[node |-> n, inc |-> inc[n], h |-> h]}
    /\ UNCHANGED <<inc, obj, leader, call, crossed>>

(* accept_peer at the leader: a changed incarnation loses the node's       *)
(* blocks and fails their jobs, then the inventory is registered.          *)
AcceptPeer(m) ==
    LET restarted == peer[m.node] \notin {0, m.inc}
        after == IF restarted THEN LoseNode(table, m.node) ELSE table
    IN /\ gossip' = gossip \ {m}
       /\ table' = IF m.h = NoHandle THEN after ELSE Registered(after, m.h)
       /\ Lapse
       /\ jobError' = (jobError \/ (restarted /\ LosesJob(m.node)))
       /\ peer' = [peer EXCEPT ![m.node] = m.inc]
       /\ UNCHANGED <<inc, obj, call, crossed>>

DropGossip(m) ==
    /\ gossip' = gossip \ {m}
    /\ UNCHANGED <<inc, obj, leader, call, crossed>>

(* The leader's monitor has not heard from n for the membership timeout. *)
ExpirePeer(n) ==
    /\ peer[n] # 0
    /\ peer' = [peer EXCEPT ![n] = 0]
    /\ table' = LoseNode(table, n)
    /\ jobError' = (jobError \/ LosesJob(n))
    /\ UNCHANGED <<inc, obj, call, gossip, lapsed,
                   crossed>>

(* Allocate for another block, with n as its compute node, has asked n for *)
(* its capabilities and updates the membership with the answer.  By then n *)
(* may have restarted or expired, and the job may have failed.             *)
RefreshCapabilities(n) ==
    /\ \E i \in 1..inc[n] : peer' = [peer EXCEPT ![n] = i]
    /\ UNCHANGED <<inc, obj, table, jobError, call, gossip, lapsed,
                   crossed>>

-----------------------------------------------------------------------------
(* Time *)

Aged(lease) == IF lease > 0 THEN lease - 1 ELSE lease

AgedHandle(h) == [h EXCEPT !.lease = Aged(@)]

(* An upload is many requests and lasts as long as its client likes; any   *)
(* other call has to end before it gets older than the deadlines of its    *)
(* connections allow.                                                      *)
Timed(c) == c # Origin /\ call[c].pc \notin {"idle"} \cup Ended

(* One tick passes for everybody. *)
Tick ==
    /\ \A c \in Call : Timed(c) => call[c].age < Deadline
    /\ obj' = [o \in Obj |-> [obj[o] EXCEPT !.lease = Aged(@)]]
    /\ table' = AgedHandle(table)
    /\ Lapse
    /\ call' = [c \in Call |->
                  [call[c] EXCEPT !.age = IF Timed(c) THEN @ + 1 ELSE @,
                                  !.h = AgedHandle(@)]]
    /\ gossip' = {[m EXCEPT !.h = AgedHandle(@)] : m \in gossip}
    /\ UNCHANGED <<inc, peer, jobError, crossed>>

-----------------------------------------------------------------------------
Init ==
    /\ inc = [n \in Node |-> 1]
    /\ obj = [o \in Obj |-> NoObject]
    /\ table = NoHandle
    /\ peer = [n \in Node |-> 1]
    /\ jobError = FALSE
    /\ call = [c \in Call |-> IdleCall]
    /\ gossip = {}
    /\ lapsed = FALSE
    /\ crossed = FALSE

(* The steps of call c once it has started; each of them is run by a       *)
(* daemon's scheduler or forced by a connection deadline.                  *)
CallStep(c) ==
    \/ AllocateLocal(c) \/ Arrive(c) \/ WriteChunks(c) \/ Commit(c)
    \/ Register(c) \/ Renew(c) \/ FreeCheck(c) \/ Unmap(c)
    \/ Migrate(c) \/ CompareAndSet(c) \/ Publish(c) \/ DropSource(c)
    \/ (\E dst \in Node : LockSource(c, dst))
    \/ RpcError(c) \/ Abandon(c) \/ DropStray(c)

Start ==
    \/ \E n \in Node : Allocate(n)
    \/ Grant \/ ClientWrite \/ ClientCommit
    \/ \E c \in Call : StartRenew(c) \/ StartFree(c) \/ PickForMigration(c)

Membership ==
    \/ \E n \in Node : Exchange(n) \/ ExpirePeer(n) \/ RefreshCapabilities(n)
    \/ \E m \in gossip : AcceptPeer(m) \/ DropGossip(m)

Work ==
    \/ Start
    \/ \E c \in Call : CallStep(c)
    \/ \E o \in Obj : Expire(o)
    \/ \E n \in Node : Restart(n)
    \/ Membership

Next == Work \/ Tick

Spec == Init /\ [][Next]_vars

(* Daemons keep scheduling their tasks, connections have deadlines, the    *)
(* monitor sweeps every two seconds and clocks advance.  Nothing is asked  *)
(* of clients, of the leader's migrations or of the network.               *)
Fairness ==
    /\ WF_vars(Tick)
    /\ \A o \in Obj : WF_vars(Expire(o))
    /\ \A c \in Call : WF_vars(CallStep(c))

FairSpec == Spec /\ Fairness

-----------------------------------------------------------------------------
(* Properties *)

(* The variables keep the shapes of the structs they stand for. *)
TypeOK ==
    /\ inc \in [Node -> Nat \ {0}]
    /\ obj \in [Obj -> Object]
    /\ table \in Handle
    /\ peer \in [Node -> Nat]
    /\ jobError \in BOOLEAN
    /\ call \in [Call -> CallState]
    /\ gossip \subseteq [node : Node, inc : Nat, h : Handle]
    /\ lapsed \in BOOLEAN
    /\ crossed \in BOOLEAN

(* The owner that the table names still runs and holds the committed copy  *)
(* of that generation, under a lease that is no shorter.                   *)
CurrentCopyHeld ==
    /\ table.owner # None
    /\ table.state = "Ready"
    /\ table.lease > 0
    /\ ~lapsed
    /\ table.inc = inc[table.owner]
    /\ \A f \in Release : call[f].pc = "idle"
    => \E o \in MappedAt(table.owner) :
         /\ obj[o].gen = table.gen
         /\ obj[o].state = "Ready"
         /\ obj[o].full
         /\ obj[o].lease >= table.lease

(* As long as the lease has been kept up, nobody has asked for the block   *)
(* to be freed and no request has met a copy it was not issued for, the    *)
(* copy that the table calls Ready is there: migrate gives its source up   *)
(* only after the table has moved on, whatever is lost, late or repeated,  *)
(* and discards a destination only while the table does not know it.       *)
TableBacked == ~crossed => CurrentCopyHeld

(* No two copies of one generation are published: only one compare-and-set *)
(* of each generation succeeds, and Publish follows it.                    *)
PublishedUnique ==
    \A o, q \in Obj :
        /\ obj[o].node # None /\ obj[q].node # None
        /\ obj[o].published /\ obj[q].published
        /\ obj[o].gen = obj[q].gen
        => o = q

(* The table learns of a migrated generation from its source's             *)
(* compare-and-set only, so it never lists one that is still being         *)
(* written.                                                                *)
OnlyCasPublishes == table.gen > 0 => table.state # "Writing"

(* The Free that a failed migration sends, or the one that ends a          *)
(* successful one, is about to remove that migration's own destination or  *)
(* source and no other copy.                                               *)
DiscardsOwnCopy ==
    \A c \in Migration : call[c].pc \in {"free", "unmap"} => OwnCopy(c)

(* Late and reordered registrations and inventories never take the table   *)
(* back to an older generation, and a freed entry stays freed.             *)
TableForward ==
    [][table.owner # None =>
         /\ table'.owner # None
         /\ table'.gen >= table.gen
         /\ table.lease = Tombstone => table'.lease = Tombstone]_vars

(* After a client's Free has been answered, the block cannot be resolved   *)
(* and no copy of it is left in any map, unless a migration has been       *)
(* started: the renewals, restarts and inventories that it races do not    *)
(* bring the block back.                                                   *)
FreeReleases ==
    \A f \in Release :
        call[f].pc = "done" /\ (\A c \in Migration : call[c].pc = "idle")
        => ~Resolvable /\ \A o \in Obj : ~obj[o].mapped

(* Not met by the code: after a client's Free has been answered, the block *)
(* cannot be resolved.  A migration may publish between the resolution and *)
(* the tombstone.                                                          *)
FreedUnresolvable ==
    \A f \in Release : call[f].pc = "done" => ~Resolvable

(* Not met by the code: a leader that takes over a new incarnation of a    *)
(* member loses the blocks of the old one and fails their job.  An         *)
(* Allocate takes it over without looking (RefreshCapabilities).           *)
RestartInvalidates ==
    [][\A n \in Node :
         peer[n] \notin {0, peer'[n]} /\ table.owner = n
         => table'.state = "Lost" \/ jobError']_vars

(* Once nobody renews the block, every copy of it leaves memory: freed     *)
(* ones, leftovers of failed migrations and the ones whose lease runs out. *)
Reclaimed == <>[](\A o \in Obj : ~obj[o].mapped)

=============================================================================
