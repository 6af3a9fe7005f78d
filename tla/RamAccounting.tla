---------------------------- MODULE RamAccounting ----------------------------
(***************************************************************************)
(* The RAM budget of one TrainPool daemon: the atomic counters of          *)
(* memory/allocator.rs, the admission of payload blocks, staging buffers   *)
(* and relay buffers (runtime/control.rs, memory/local_ram.rs,             *)
(* runtime/data.rs, runtime/udp.rs), and the sampling that revises the     *)
(* budget (runtime/monitor.rs, node/memory.rs).                            *)
(*                                                                         *)
(* Handlers run on several threads.  A step is one access to a shared      *)
(* counter, or what runs under one mutex.  Every use of RAM is a task that *)
(* reserves once; its reservation is an RAII value and goes with it.       *)
(***************************************************************************)
EXTENDS Integers, FiniteSets

CONSTANTS
    Payload,       \* AllocateLocal requests, and the blocks they create
    Staging,       \* ReserveStaging requests of the SDK
    Relay,         \* relayed chunks and UDP sessions
    Monitor,       \* the monitor's own refresh
    None,          \* nobody
    PayloadBytes,  \* size of a block
    ChunkBytes,    \* size of a staging, relay or session buffer
    Headroom,      \* what an allocation must leave free (256 KiB)
    Total,         \* physical RAM
    Reserve,       \* the larger of ram_reserve_bytes and the fraction's
    Ceiling,       \* the smaller of ram_fraction's share and ram_limit_bytes
    AppLevels,     \* what other applications may occupy
    MaxPins        \* bound: handlers that hold one block's Arc

Task == Payload \cup Staging \cup Relay

ASSUME RamAssumption ==
    /\ Payload \cap Staging = {} /\ Payload \cap Relay = {}
    /\ Staging \cap Relay = {}
    /\ IsFiniteSet(Task)
    /\ Monitor \notin Task /\ None \notin Task \cup {Monitor}
    /\ {PayloadBytes, ChunkBytes, Headroom, Total, Reserve, Ceiling, MaxPins}
         \subseteq Nat
    /\ AppLevels \subseteq 0..Total /\ AppLevels # {}

VARIABLES
    owned,     \* RamAccounting.owned
    jobOwned,  \* JobRamAccounting.owned of the one job
    budget,    \* RamAccounting.budget
    task,      \* task[t]: progress of t, the counter value it read, its pins
    sampler,   \* who refreshes the memory, under the membership lock
    sampled,   \* the owned bytes that refresh has read
    mapLock,   \* who holds the lock of LocalRam.blocks
    apps,      \* RAM other applications occupy
    highest    \* history: the highest budget sampled so far

counters == <<owned, jobOwned>>
sampling == <<budget, sampler, sampled, highest>>
vars == <<counters, task, sampling, mapLock, apps>>

Bytes(t) == IF t \in Payload THEN PayloadBytes ELSE ChunkBytes

(* The bytes of a set of tasks; all of a kind are of one size. *)
BytesOf(S) == PayloadBytes * Cardinality(S \cap Payload)
                + ChunkBytes * Cardinality(S \ Payload)

Smaller(a, b) == IF a <= b THEN a ELSE b

(* u64::saturating_sub; the mutant subtracts. *)
SaturatingSubMutant(a, b) == a - b
SaturatingSub(a, b) == IF a >= b THEN a - b ELSE 0

At(t, step) == task[t].pc = step
Goto(t, step) == task' = [task EXCEPT ![t].pc = step]

(* Reserved buffers that are used: blocks in the map or held by a handler, *)
(* relays that still carry their chunk.  The copy of a block's chunk that  *)
(* a UDP read sends from has no reservation and is not among them.         *)
InUse == {t \in Payload : At(t, "held") \/ task[t].pins > 0}
           \cup {t \in Relay : At(t, "held")}

(* Buffers that occupy RAM: a relay's vector outlives its reservation      *)
(* until the reply is written, and the SDK fills what it has staged.       *)
Resident == InUse \cup {t \in Relay : task[t].pc \in {"dropNode", "reply"}}
              \cup {t \in Staging : At(t, "held")}

-----------------------------------------------------------------------------
(* Sampling *)

Available == SaturatingSub(Total, apps + BytesOf(Resident))

(* MemoryCapabilities::calculate *)
Calculate(available, used) ==
    Smaller(SaturatingSub(Smaller(available + used, Total), Reserve), Ceiling)

Refreshes(m) == m = Monitor \/ (m \in Task /\ At(m, "refresh"))

(* refresh_memory takes the membership lock and reads the owned bytes ... *)
RefreshRead(m) ==
    /\ Refreshes(m)
    /\ sampler = None
    /\ sampler' = m
    /\ sampled' = owned
    /\ UNCHANGED <<counters, task, budget, highest, mapLock, apps>>

(* ... then samples the system, and stores the budget of the two. *)
RefreshStore(m) ==
    /\ sampler = m
    /\ budget' = Calculate(Available, sampled)
    /\ highest' = IF budget' > highest THEN budget' ELSE highest
    /\ sampler' = None
    /\ sampled' = 0
    /\ IF m = Monitor THEN UNCHANGED task
       ELSE Goto(m, IF m \in Payload THEN "check" ELSE "load")
    /\ UNCHANGED <<counters, mapLock, apps>>

-----------------------------------------------------------------------------
(* Admission *)

(* AllocateLocal and ReserveStaging refresh first, relays do not. *)
Begin(t) ==
    /\ At(t, "idle")
    /\ Goto(t, IF t \in Relay THEN "load" ELSE "refresh")
    /\ UNCHANGED <<counters, sampling, mapLock, apps>>

(* AllocateLocal looks for the headroom ... *)
CheckHeadroom(t) ==
    /\ At(t, "check")
    /\ Goto(t, IF PayloadBytes + Headroom <= SaturatingSub(budget, owned)
               THEN "allocate" ELSE "failed")
    /\ UNCHANGED <<counters, sampling, mapLock, apps>>

(* ... and LocalRam.allocate locks the map. *)
LockMap(t) ==
    /\ At(t, "allocate")
    /\ mapLock = None
    /\ mapLock' = t
    /\ Goto(t, "load")
    /\ UNCHANGED <<counters, sampling, apps>>

(* reserve: fetch_update loads owned ... *)
LoadOwned(t) ==
    /\ At(t, "load")
    /\ task' = [task EXCEPT ![t].pc = "decide", ![t].used = owned]
    /\ UNCHANGED <<counters, sampling, mapLock, apps>>

(* ... its closure loads the budget and refuses what would not fit ... *)
Decide(t) ==
    /\ At(t, "decide")
    /\ IF task[t].used + Bytes(t) <= budget
       THEN Goto(t, "cas") /\ UNCHANGED mapLock
       ELSE Goto(t, "failed")
              /\ mapLock' = IF mapLock = t THEN None ELSE mapLock
    /\ UNCHANGED <<counters, sampling, apps>>

(* The exchange stores the sum if nobody has changed the counter since;    *)
(* the mutant adds to whatever is there.                                   *)
StoresMutant(t) == owned' = owned + Bytes(t)
Stores(t) == owned = task[t].used /\ owned' = task[t].used + Bytes(t)

AfterReserve(t) == CASE t \in Payload -> "jobAdd"
                     [] t \in Staging -> "insert"
                     [] t \in Relay -> "held"

(* ... and the compare-and-exchange stores the sum, or starts over. *)
Exchange(t) ==
    /\ At(t, "cas")
    /\ \/ /\ Stores(t)
          /\ task' = [task EXCEPT ![t].pc = AfterReserve(t), ![t].used = 0]
       \/ /\ owned # task[t].used
          /\ task' = [task EXCEPT ![t].pc = "decide", ![t].used = owned]
          /\ UNCHANGED owned
    /\ UNCHANGED <<jobOwned, sampling, mapLock, apps>>

(* reserve_payload then charges the job. *)
JobAdd(t) ==
    /\ At(t, "jobAdd")
    /\ jobOwned' = jobOwned + PayloadBytes
    /\ Goto(t, "fill")
    /\ UNCHANGED <<owned, sampling, mapLock, apps>>

(* The vector is allocated and the block enters the map, or the allocator  *)
(* refuses and the reservation is dropped.                                 *)
Fill(t) ==
    /\ At(t, "fill")
    /\ Goto(t, "held") \/ Goto(t, "dropJob")
    /\ mapLock' = None
    /\ UNCHANGED <<counters, sampling, apps>>

(* ReserveStaging keeps the reservation in the staging table. *)
InsertStaging(t) ==
    /\ At(t, "insert")
    /\ Goto(t, "held")
    /\ UNCHANGED <<counters, sampling, mapLock, apps>>

(* A connection ends while its handler awaits a lock or its peer; what the *)
(* handler has reserved is dropped with it.                                *)
Cancel(t) ==
    /\ \/ task[t].pc \in {"refresh", "allocate"} /\ sampler # t
            /\ Goto(t, "failed")
       \/ At(t, "insert") /\ Goto(t, "dropNode")
    /\ UNCHANGED <<counters, sampling, mapLock, apps>>

-----------------------------------------------------------------------------
(* Release *)

(* A transfer or migration takes the Arc of a block from the map. *)
Pin(t) ==
    /\ t \in Payload /\ At(t, "held") /\ mapLock = None
    /\ task[t].pins < MaxPins
    /\ task' = [task EXCEPT ![t].pins = @ + 1]
    /\ UNCHANGED <<counters, sampling, mapLock, apps>>

(* A block out of the map goes with its last reference; the mutant lets it *)
(* go with its map entry.                                                  *)
AfterUnmapMutant(t) == "dropJob"
AfterUnmap(t) == IF task[t].pins = 0 THEN "dropJob" ELSE "pinned"

(* The block leaves the map: freed by a client or by a migration, or its   *)
(* lease has run out.                                                      *)
Unmap(t) ==
    /\ t \in Payload /\ At(t, "held") /\ mapLock = None
    /\ Goto(t, AfterUnmap(t))
    /\ UNCHANGED <<counters, sampling, mapLock, apps>>

Unpin(t) ==
    /\ t \in Payload /\ task[t].pins > 0
    /\ task' = [task EXCEPT
                  ![t].pins = @ - 1,
                  ![t].pc = IF @ = "pinned" /\ task[t].pins = 1
                            THEN "dropJob" ELSE @]
    /\ UNCHANGED <<counters, sampling, mapLock, apps>>

(* The SDK releases its staging buffer, or the monitor finds it past its   *)
(* deadline; the mutant does neither.                                      *)
StagingEndsMutant(t) == FALSE
StagingEnds(t) == t \in Staging /\ At(t, "held")
EndStaging(t) ==
    /\ StagingEnds(t)
    /\ Goto(t, "dropNode")
    /\ UNCHANGED <<counters, sampling, mapLock, apps>>

(* The chunk is delivered, or the relay's transfer or connection fails. *)
EndRelay(t) ==
    /\ t \in Relay /\ At(t, "held")
    /\ Goto(t, "dropNode")
    /\ UNCHANGED <<counters, sampling, mapLock, apps>>

(* What a task with a given progress drops first; the mutant credits the   *)
(* node before the job.                                                    *)
DropFirstMutant(t) == owned' = owned - PayloadBytes /\ UNCHANGED jobOwned
DropFirst(t) == jobOwned' = jobOwned - PayloadBytes /\ UNCHANGED owned

(* Reservation::drop credits the job ... *)
DropJob(t) ==
    /\ At(t, "dropJob")
    /\ DropFirst(t)
    /\ Goto(t, "dropNode")
    /\ UNCHANGED <<sampling, mapLock, apps>>

(* ... and then the node. *)
DropNode(t) ==
    /\ At(t, "dropNode")
    /\ owned' = owned - Bytes(t)
    /\ Goto(t, IF t \in Relay THEN "reply" ELSE "done")
    /\ UNCHANGED <<jobOwned, sampling, mapLock, apps>>

(* The relay's reply is written, or its handler ends with an error. *)
Reply(t) ==
    /\ At(t, "reply")
    /\ Goto(t, "done")
    /\ UNCHANGED <<counters, sampling, mapLock, apps>>

(* Another application takes or gives back memory. *)
AppsChange ==
    /\ apps' \in AppLevels \ {apps}
    /\ UNCHANGED <<counters, task, sampling, mapLock>>

-----------------------------------------------------------------------------
Init ==
    /\ owned = 0
    /\ jobOwned = 0
    /\ apps \in AppLevels
    /\ task = [t \in Task |-> [pc |-> "idle", used |-> 0, pins |-> 0]]
    /\ budget = Calculate(Available, 0)
    /\ sampler = None
    /\ sampled = 0
    /\ mapLock = None
    /\ highest = budget

(* The steps that a running handler or the monitor takes by itself. *)
Proceed(t) ==
    \/ RefreshRead(t) \/ RefreshStore(t) \/ CheckHeadroom(t) \/ LockMap(t)
    \/ LoadOwned(t) \/ Decide(t) \/ Exchange(t) \/ JobAdd(t) \/ Fill(t)
    \/ InsertStaging(t) \/ Unpin(t) \/ EndStaging(t) \/ EndRelay(t)
    \/ DropJob(t) \/ DropNode(t) \/ Reply(t)

Next ==
    \/ \E t \in Task : Begin(t) \/ Proceed(t) \/ Cancel(t) \/ Pin(t) \/ Unmap(t)
    \/ RefreshRead(Monitor) \/ RefreshStore(Monitor)
    \/ AppsChange

Spec == Init /\ [][Next]_vars

(* Handlers are scheduled and have deadlines, the monitor sweeps, leases   *)
(* run out when nobody renews them.  Locks are first come, first served,   *)
(* so a handler that waits for one gets it (strong fairness).              *)
Fairness ==
    /\ WF_vars(RefreshStore(Monitor))
    /\ \A t \in Task : /\ WF_vars(Proceed(t))
                       /\ SF_vars(RefreshRead(t))
                       /\ SF_vars(LockMap(t))
                       /\ SF_vars(Unmap(t))

FairSpec == Spec /\ Fairness

-----------------------------------------------------------------------------
(* Properties *)

Progress == {"idle", "refresh", "check", "allocate", "load", "decide", "cas",
             "jobAdd", "fill", "insert", "held", "pinned", "dropJob",
             "dropNode", "reply", "done", "failed"}

(* The counters never wrap below zero and the locks have at most one       *)
(* holder.                                                                 *)
TypeOK ==
    /\ {owned, jobOwned, budget, sampled, highest} \subseteq Nat
    /\ task \in [Task -> [pc : Progress, used : Nat, pins : 0..MaxPins]]
    /\ sampler \in Task \cup {Monitor, None}
    /\ mapLock \in Payload \cup {None}
    /\ apps \in AppLevels

(* Every block, and every relay that carries its chunk, is accounted for   *)
(* while it is used, also a block that has left the map while a transfer   *)
(* still reads it (Reservation).                                           *)
Covered == BytesOf(InUse) <= owned

(* However many requests are admitted at once, together they stay within a *)
(* budget that was sampled.                                                *)
UnderSample == owned <= highest

(* The job's share never exceeds the node's total, not even between the    *)
(* two updates of a reservation.                                           *)
JobWithinNode == jobOwned <= owned

(* Every reservation is given back: by its handler, on error and when the  *)
(* connection ends, or by the monitor.                                     *)
Drained == <>[](owned = 0 /\ jobOwned = 0)

(* Not met by the code: a payload allocation leaves the headroom free,     *)
(* unless the budget has been lowered meanwhile.  The check and the        *)
(* reservation are two steps.                                              *)
HeadroomLeft ==
    [][\A t \in Payload :
         At(t, "cas") /\ task'[t].pc = "jobAdd" /\ budget = highest
         => owned' + Headroom <= budget]_vars

=============================================================================
