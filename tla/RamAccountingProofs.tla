------------------------- MODULE RamAccountingProofs -------------------------
(***************************************************************************)
(* Proofs about RamAccounting for any finite sets of requests and any      *)
(* sizes: what the two counters stand for at every interleaving of         *)
(* reserve, reserve_payload and Drop, and what follows.                    *)
(***************************************************************************)
EXTENDS RamAccounting, FiniteSetTheorems, TLAPS

(* Between which steps a task is charged to the node, and to the job. *)
ChargedSteps ==
    {"jobAdd", "fill", "insert", "held", "pinned", "dropJob", "dropNode"}
JobSteps == {"fill", "held", "pinned", "dropJob"}

Charged == {t \in Task : task[t].pc \in ChargedSteps}
JobCharged == {t \in Payload : task[t].pc \in JobSteps}

(* The counters are the sums of the live reservations. *)
Charges ==
    /\ owned = BytesOf(Charged)
    /\ jobOwned = PayloadBytes * Cardinality(JobCharged)

TaskFine(t) ==
    /\ task[t].pc \in {"check", "allocate", "jobAdd", "fill", "pinned", "dropJob"}
         => t \in Payload
    /\ task[t].pc = "insert" => t \in Staging
    /\ task[t].pins > 0 => t \in Payload /\ task[t].pc \in {"held", "pinned"}
    /\ task[t].pc = "cas" => task[t].used + Bytes(t) <= highest

Inv ==
    /\ TypeOK
    /\ Charges
    /\ \A t \in Task : TaskFine(t)
    /\ sampler \in Task => task[sampler].pc = "refresh"
    /\ budget <= highest
    /\ owned <= highest

-----------------------------------------------------------------------------
(* Facts about the operators *)

LEMMA BytesType == \A t : Bytes(t) \in Nat
BY RamAssumption DEF Bytes

LEMMA CalculateType ==
    ASSUME NEW a \in Nat, NEW u \in Nat
    PROVE  Calculate(a, u) \in Nat
BY RamAssumption DEF Calculate, Smaller, SaturatingSub

LEMMA FiniteTasks ==
    ASSUME NEW S, S \subseteq Task
    PROVE  /\ IsFiniteSet(S) /\ Cardinality(S) \in Nat
           /\ IsFiniteSet(S \cap Payload) /\ Cardinality(S \cap Payload) \in Nat
           /\ IsFiniteSet(S \ Payload) /\ Cardinality(S \ Payload) \in Nat
BY RamAssumption, FS_Subset, FS_CardinalityType

LEMMA TimesNat ==
    ASSUME NEW a \in Nat, NEW b \in Nat
    PROVE  a * b \in Nat /\ a * (b + 1) = a * b + a
OBVIOUS

LEMMA TimesMonotone ==
    ASSUME NEW a \in Nat, NEW b \in Nat, NEW c \in Nat, b <= c
    PROVE  a * b <= a * c
OBVIOUS

LEMMA BytesOfType ==
    ASSUME NEW S, S \subseteq Task
    PROVE  BytesOf(S) \in Nat
<1>1. Cardinality(S \cap Payload) \in Nat /\ Cardinality(S \ Payload) \in Nat
  BY FiniteTasks
<1>2. PayloadBytes \in Nat /\ ChunkBytes \in Nat
  BY RamAssumption
<1>3. QED
  BY <1>1, <1>2, TimesNat DEF BytesOf

(* One more reservation adds its bytes. *)
LEMMA BytesOfAdd ==
    ASSUME NEW S, S \subseteq Task, NEW t \in Task, t \notin S
    PROVE  BytesOf(S \cup {t}) = BytesOf(S) + Bytes(t)
<1> DEFINE p == Cardinality(S \cap Payload)
           q == Cardinality(S \ Payload)
<1>1. /\ IsFiniteSet(S \cap Payload) /\ IsFiniteSet(S \ Payload)
      /\ p \in Nat /\ q \in Nat
  BY FiniteTasks
<1>2. /\ PayloadBytes \in Nat /\ ChunkBytes \in Nat
      /\ PayloadBytes * p \in Nat /\ ChunkBytes * q \in Nat
  BY <1>1, RamAssumption, TimesNat
<1>3. CASE t \in Payload
  <2>1. /\ (S \cup {t}) \cap Payload = (S \cap Payload) \cup {t}
        /\ (S \cup {t}) \ Payload = S \ Payload
    BY <1>3
  <2>2. Cardinality((S \cap Payload) \cup {t}) = p + 1
    BY <1>1, FS_AddElement
  <2>3. PayloadBytes * (p + 1) = PayloadBytes * p + PayloadBytes
    BY <1>1, <1>2, TimesNat
  <2>4. BytesOf(S \cup {t}) = PayloadBytes * (p + 1) + ChunkBytes * q
    BY <2>1, <2>2 DEF BytesOf
  <2>5. QED
    BY <1>1, <1>2, <1>3, <2>3, <2>4 DEF BytesOf, Bytes
<1>4. CASE t \notin Payload
  <2>1. /\ (S \cup {t}) \cap Payload = S \cap Payload
        /\ (S \cup {t}) \ Payload = (S \ Payload) \cup {t}
    BY <1>4
  <2>2. Cardinality((S \ Payload) \cup {t}) = q + 1
    BY <1>1, FS_AddElement
  <2>3. ChunkBytes * (q + 1) = ChunkBytes * q + ChunkBytes
    BY <1>1, <1>2, TimesNat
  <2>4. BytesOf(S \cup {t}) = PayloadBytes * p + ChunkBytes * (q + 1)
    BY <2>1, <2>2 DEF BytesOf
  <2>5. QED
    BY <1>1, <1>2, <1>4, <2>3, <2>4 DEF BytesOf, Bytes
<1>5. QED
  BY <1>3, <1>4

LEMMA BytesOfMonotone ==
    ASSUME NEW S, NEW T, S \subseteq T, T \subseteq Task
    PROVE  BytesOf(S) <= BytesOf(T)
<1> DEFINE p == Cardinality(S \cap Payload) q == Cardinality(S \ Payload)
           r == Cardinality(T \cap Payload) u == Cardinality(T \ Payload)
<1>1. /\ p \in Nat /\ q \in Nat /\ r \in Nat /\ u \in Nat
      /\ IsFiniteSet(T \cap Payload) /\ IsFiniteSet(T \ Payload)
  BY FiniteTasks
<1>2. p <= r /\ q <= u
  BY <1>1, FS_Subset
<1>3. PayloadBytes \in Nat /\ ChunkBytes \in Nat
  BY RamAssumption
<1>4. PayloadBytes * p <= PayloadBytes * r /\ ChunkBytes * q <= ChunkBytes * u
  BY <1>1, <1>2, <1>3, TimesMonotone
<1>5. /\ PayloadBytes * p \in Nat /\ PayloadBytes * r \in Nat
      /\ ChunkBytes * q \in Nat /\ ChunkBytes * u \in Nat
  BY <1>1, <1>3, TimesNat
<1>6. QED
  BY <1>4, <1>5 DEF BytesOf

-----------------------------------------------------------------------------
(* How one task's step changes the sets of charged tasks *)

TaskState == [pc : Progress, used : Nat, pins : 0..MaxPins]

Moves(t, s) ==
    /\ task' \in [Task -> TaskState]
    /\ \A u \in Task : u # t => task'[u] = task[u]
    /\ task'[t].pc = s

LEMMA GotoMoves ==
    ASSUME TypeOK, NEW t \in Task, NEW s \in Progress, Goto(t, s)
    PROVE  Moves(t, s) /\ task'[t].pins = task[t].pins
             /\ task'[t].used = task[t].used
BY DEF TypeOK, Goto, Moves, TaskState

LEMMA ChargedMoves ==
    ASSUME NEW t \in Task, NEW s, Moves(t, s)
    PROVE  /\ Charged \subseteq Task /\ Charged' \subseteq Task
           /\ Charged' = IF s \in ChargedSteps THEN Charged \cup {t}
                         ELSE Charged \ {t}
           /\ t \in Charged <=> task[t].pc \in ChargedSteps
BY DEF Charged, Moves

LEMMA JobChargedMoves ==
    ASSUME NEW t \in Task, NEW s, Moves(t, s)
    PROVE  /\ JobCharged \subseteq Task /\ JobCharged' \subseteq Task
           /\ t \in Payload =>
                JobCharged' = IF s \in JobSteps THEN JobCharged \cup {t}
                              ELSE JobCharged \ {t}
           /\ t \notin Payload => JobCharged' = JobCharged
           /\ t \in JobCharged <=> t \in Payload /\ task[t].pc \in JobSteps
BY DEF JobCharged, Moves, Task

LEMMA SameCharges ==
    ASSUME Charges, NEW t \in Task, NEW s, Moves(t, s), UNCHANGED counters,
           s \in ChargedSteps <=> task[t].pc \in ChargedSteps,
           t \in Payload => (s \in JobSteps <=> task[t].pc \in JobSteps)
    PROVE  Charges'
<1>1. Charged' = Charged
  BY ChargedMoves
<1>2. JobCharged' = JobCharged
  BY JobChargedMoves
<1>3. QED
  BY <1>1, <1>2 DEF Charges, counters

(* What a step of one task has to establish. *)
LEMMA StepKept ==
    ASSUME Inv, NEW t \in Task, NEW s, Moves(t, s), Charges', TaskFine(t)',
           highest' \in Nat, highest' >= highest,
           budget' \in Nat, budget' <= highest', owned' <= highest',
           sampled' \in Nat, sampler' \in Task \cup {Monitor, None},
           sampler' \in Task => task'[sampler'].pc = "refresh",
           mapLock' \in Payload \cup {None}, apps' \in AppLevels
    PROVE  Inv'
<1>1. owned' \in Nat
  BY ChargedMoves, BytesOfType DEF Charges
<1>2. jobOwned' \in Nat
  <2>1. Cardinality(JobCharged') \in Nat
    BY JobChargedMoves, FiniteTasks
  <2>2. QED
    BY <2>1, RamAssumption, TimesNat DEF Charges
<1>3. TypeOK'
  BY <1>1, <1>2 DEF TypeOK, Moves, TaskState
<1>4. ASSUME NEW u \in Task, u # t PROVE TaskFine(u)'
  <2>1. task'[u] = task[u] /\ task[u] \in TaskState /\ TaskFine(u)
    BY <1>4 DEF Moves, Inv, TypeOK, TaskState
  <2>2. highest \in Nat /\ Bytes(u) \in Nat /\ task[u].used \in Nat
    BY <2>1, BytesType DEF Inv, TypeOK, TaskState
  <2>3. task[u].used + Bytes(u) <= highest
          => task[u].used + Bytes(u) <= highest'
    BY <2>2
  <2>4. QED
    BY <2>1, <2>3 DEF TaskFine, Bytes
<1>5. QED
  BY <1>3, <1>4 DEF Inv

(* A step that leaves counters, samples and applications alone. *)
LEMMA QuietKept ==
    ASSUME Inv, NEW t \in Task, NEW s, Moves(t, s), TaskFine(t)',
           s \in ChargedSteps <=> task[t].pc \in ChargedSteps,
           t \in Payload => (s \in JobSteps <=> task[t].pc \in JobSteps),
           sampler # t, mapLock' \in Payload \cup {None},
           UNCHANGED <<counters, sampling, apps>>
    PROVE  Inv'
<1>1. Charges'
  BY SameCharges DEF Inv
<1>2. sampler' \in Task => task'[sampler'].pc = "refresh"
  BY DEF Inv, Moves, sampling
<1>3. QED
  BY <1>1, <1>2, StepKept DEF Inv, TypeOK, counters, sampling

(* A task that is not waiting for a refresh does not sample. *)
LEMMA NotSampling ==
    ASSUME Inv, NEW t \in Task, task[t].pc # "refresh"
    PROVE  sampler # t
BY DEF Inv

(* The same for a step that only moves on. *)
LEMMA GotoKept ==
    ASSUME Inv, NEW t \in Task, NEW s \in Progress, Goto(t, s),
           s \in ChargedSteps <=> task[t].pc \in ChargedSteps,
           t \in Payload => (s \in JobSteps <=> task[t].pc \in JobSteps),
           sampler # t, mapLock' \in Payload \cup {None},
           UNCHANGED <<counters, sampling, apps>>,
           s \in {"check", "allocate", "jobAdd", "fill", "pinned", "dropJob"}
             => t \in Payload,
           s = "insert" => t \in Staging,
           task[t].pins > 0 => s \in {"held", "pinned"},
           s = "cas" => task[t].used + Bytes(t) <= highest
    PROVE  Inv'
<1>1. Moves(t, s) /\ task'[t].pins = task[t].pins /\ task'[t].used = task[t].used
  BY GotoMoves DEF Inv
<1>2. TaskFine(t)'
  BY <1>1 DEF Moves, TaskFine, Inv, sampling, Bytes
<1>3. QED
  BY <1>1, <1>2, QuietKept

-----------------------------------------------------------------------------
(* The steps *)

LEMMA PinsFree ==
    ASSUME Inv, NEW t \in Task, task[t].pc \notin {"held", "pinned"}
    PROVE  ~(task[t].pins > 0)
BY DEF Inv, TaskFine

LEMMA RefreshKept ==
    ASSUME Inv, NEW m \in Task \cup {Monitor},
           RefreshRead(m) \/ RefreshStore(m)
    PROVE  Inv'
<1>1. TypeOK /\ Charges /\ (\A t \in Task : TaskFine(t))
  BY DEF Inv
<1>2. CASE RefreshRead(m)
  <2>1. /\ UNCHANGED <<counters, task, budget, highest, mapLock, apps>>
        /\ sampler' = m /\ sampled' = owned
        /\ m \in Task => task[m].pc = "refresh"
    BY <1>2, RamAssumption DEF RefreshRead, Refreshes, At
  <2>2. TypeOK'
    BY <1>1, <2>1 DEF TypeOK, counters
  <2>3. QED
    BY <2>1, <2>2
    DEF Inv, Charges, Charged, JobCharged, TaskFine, counters
<1>3. CASE RefreshStore(m)
  <2>1. Available \in Nat
    <3>1. Resident \subseteq Task
      BY DEF Resident, InUse, Task
    <3>2. BytesOf(Resident) \in Nat
      BY <3>1, BytesOfType
    <3>3. apps \in Nat
      BY <1>1, RamAssumption DEF TypeOK
    <3>4. QED
      BY <3>2, <3>3, RamAssumption DEF Available, SaturatingSub
  <2>2. budget' \in Nat
    BY <1>1, <1>3, <2>1, CalculateType DEF RefreshStore, TypeOK
  <2>3. /\ highest' \in Nat /\ highest' >= highest /\ budget' <= highest'
        /\ owned' = owned /\ owned' <= highest' /\ sampled' = 0 /\ sampler' = None
        /\ mapLock' = mapLock /\ apps' = apps /\ jobOwned' = jobOwned
    BY <1>1, <1>3, <2>2 DEF RefreshStore, TypeOK, Inv, counters
  <2>4. None \notin Task
    BY RamAssumption
  <2>5. CASE m = Monitor
    <3>1. task' = task
      BY <1>3, <2>5 DEF RefreshStore
    <3>2. TypeOK'
      BY <1>1, <2>2, <2>3, <3>1 DEF TypeOK
    <3>3. ASSUME NEW t \in Task PROVE TaskFine(t)'
      <4>1. task[t].used \in Nat /\ Bytes(t) \in Nat /\ highest \in Nat
        BY <1>1, BytesType DEF TypeOK
      <4>2. task[t].used + Bytes(t) <= highest
              => task[t].used + Bytes(t) <= highest'
        BY <2>3, <4>1
      <4>3. QED
        BY <1>1, <3>1, <4>2 DEF TaskFine, Bytes
    <3>4. QED
      BY <1>1, <2>3, <2>4, <3>1, <3>2, <3>3
      DEF Inv, Charges, Charged, JobCharged
  <2>6. CASE m # Monitor
    <3> DEFINE s == IF m \in Payload THEN "check" ELSE "load"
    <3>1. m \in Task /\ Goto(m, s) /\ task[m].pc = "refresh"
      BY <1>3, <2>6 DEF RefreshStore, Inv
    <3>2. s \in Progress /\ s \notin ChargedSteps /\ s \notin JobSteps
      BY DEF Progress, ChargedSteps, JobSteps
    <3>3. task[m].pc \notin ChargedSteps /\ task[m].pc \notin JobSteps
      BY <3>1 DEF ChargedSteps, JobSteps
    <3>4. Moves(m, s) /\ task'[m].pins = task[m].pins
      BY <1>1, <3>1, <3>2, GotoMoves
    <3>5. Charges'
      BY <1>1, <2>3, <3>1, <3>2, <3>3, <3>4, SameCharges DEF counters
    <3>6. TaskFine(m)'
      BY <3>1, <3>4, PinsFree DEF Moves, TaskFine
    <3> HIDE DEF s
    <3>7. QED
      BY <1>1, <2>2, <2>3, <2>4, <3>1, <3>4, <3>5, <3>6, StepKept DEF TypeOK
  <2>7. QED
    BY <2>5, <2>6
<1>4. QED
  BY <1>2, <1>3

(* Steps up to the exchange, and the ones that end without a charge. *)
LEMMA AdmissionKept ==
    ASSUME Inv, NEW t \in Task,
           \/ Begin(t) \/ CheckHeadroom(t) \/ LockMap(t) \/ Decide(t)
    PROVE  Inv'
<1>1. TypeOK /\ TaskFine(t)
  BY DEF Inv
<1>2. CASE Begin(t)
  BY <1>1, <1>2, GotoKept, NotSampling, PinsFree
  DEF Begin, At, Progress, ChargedSteps, JobSteps, TypeOK
<1>3. CASE CheckHeadroom(t)
  BY <1>1, <1>3, GotoKept, NotSampling, PinsFree
  DEF CheckHeadroom, At, Progress, ChargedSteps, JobSteps, TypeOK, TaskFine
<1>4. CASE LockMap(t)
  BY <1>1, <1>4, GotoKept, NotSampling, PinsFree
  DEF LockMap, At, Progress, ChargedSteps, JobSteps, TypeOK, TaskFine
<1>5. CASE Decide(t)
  <2>1. task[t].used \in Nat /\ Bytes(t) \in Nat /\ budget \in Nat
          /\ highest \in Nat /\ budget <= highest
    BY <1>1, BytesType DEF TypeOK, Inv
  <2>2. CASE task[t].used + Bytes(t) <= budget
    BY <1>1, <1>5, <2>1, <2>2, GotoKept, NotSampling, PinsFree
    DEF Decide, At, Progress, ChargedSteps, JobSteps, TypeOK
  <2>3. CASE ~(task[t].used + Bytes(t) <= budget)
    BY <1>1, <1>5, <2>3, GotoKept, NotSampling, PinsFree
    DEF Decide, At, Progress, ChargedSteps, JobSteps, TypeOK
  <2>4. QED
    BY <2>2, <2>3
<1>6. QED
  BY <1>2, <1>3, <1>4, <1>5

(* A step that reads the counter again. *)
LEMMA ReadKept ==
    ASSUME Inv, NEW t \in Task, task[t].pc \in {"load", "cas"},
           task' = [task EXCEPT ![t].pc = "decide", ![t].used = owned],
           UNCHANGED <<counters, sampling, mapLock, apps>>
    PROVE  Inv'
<1>1. Moves(t, "decide") /\ task'[t].pins = task[t].pins
  BY DEF Inv, TypeOK, Moves, TaskState, Progress
<1>2. TaskFine(t)'
  BY <1>1, PinsFree DEF Moves, TaskFine
<1>3. QED
  BY <1>1, <1>2, QuietKept, NotSampling
  DEF ChargedSteps, JobSteps, Inv, TypeOK

LEMMA ExchangeKept ==
    ASSUME Inv, NEW t \in Task, Exchange(t)
    PROVE  Inv'
<1>1. TypeOK /\ Charges /\ TaskFine(t) /\ task[t].pc = "cas"
  BY DEF Inv, Exchange, At
<1>2. CASE owned # task[t].used /\ ~Stores(t)
  BY <1>1, <1>2, ReadKept DEF Exchange, counters
<1>3. CASE Stores(t)
  <2> DEFINE s == AfterReserve(t)
  <2>1. /\ t \in Payload => s = "jobAdd"
        /\ t \in Staging => s = "insert"
        /\ t \in Relay => s = "held"
        /\ s \in {"jobAdd", "insert", "held"}
    BY RamAssumption DEF AfterReserve, Task
  <2>2. CASE owned # task[t].used
    BY <1>3, <2>2 DEF Stores
  <2>3. CASE owned = task[t].used
    <3>1. /\ task' = [task EXCEPT ![t].pc = s, ![t].used = 0]
          /\ owned' = owned + Bytes(t)
          /\ UNCHANGED <<jobOwned, sampling, mapLock, apps>>
      BY <1>3, <2>3 DEF Exchange, Stores
    <3>2. Moves(t, s) /\ task'[t].pins = task[t].pins
      BY <1>1, <2>1, <3>1 DEF TypeOK, Moves, TaskState, Progress
    <3>3. Charged' = Charged \cup {t} /\ t \notin Charged /\ Charged \subseteq Task
      BY <1>1, <2>1, <3>2, ChargedMoves DEF ChargedSteps
    <3>4. JobCharged' = JobCharged
      BY <1>1, <2>1, <3>2, JobChargedMoves DEF JobSteps, Task
    <3>5. Charges'
      BY <1>1, <3>1, <3>3, <3>4, BytesOfAdd DEF Charges
    <3>6. TaskFine(t)'
      BY <1>1, <2>1, <3>2, PinsFree DEF Moves, TaskFine, Task
    <3>7. owned' <= highest
      BY <1>1, <2>3, <3>1 DEF TaskFine
    <3>8. sampler # t
      BY <1>1, NotSampling
    <3>9. sampler' \in Task => task'[sampler'].pc = "refresh"
      BY <3>1, <3>2, <3>8 DEF Inv, Moves, sampling
    <3> HIDE DEF s
    <3>10. QED
      BY <1>1, <3>1, <3>2, <3>5, <3>6, <3>7, <3>9, StepKept
      DEF TypeOK, sampling, Inv
  <2>4. QED
    BY <2>2, <2>3
<1>4. QED
  BY <1>2, <1>3 DEF Exchange

LEMMA JobAddKept ==
    ASSUME Inv, NEW t \in Task, JobAdd(t)
    PROVE  Inv'
<1>1. TypeOK /\ Charges /\ TaskFine(t) /\ task[t].pc = "jobAdd" /\ t \in Payload
  BY DEF Inv, JobAdd, At, TaskFine
<1>2. Moves(t, "fill") /\ task'[t].pins = task[t].pins
  BY <1>1, GotoMoves DEF JobAdd, Progress
<1>3. Charged' = Charged
  BY <1>1, <1>2, ChargedMoves DEF ChargedSteps
<1>4. JobCharged' = JobCharged \cup {t} /\ t \notin JobCharged
        /\ IsFiniteSet(JobCharged) /\ Cardinality(JobCharged) \in Nat
  BY <1>1, <1>2, JobChargedMoves, FiniteTasks DEF JobSteps
<1>5. Charges'
  <2>1. Cardinality(JobCharged') = Cardinality(JobCharged) + 1
    BY <1>4, FS_AddElement
  <2>2. PayloadBytes \in Nat
    BY RamAssumption
  <2>3. PayloadBytes * (Cardinality(JobCharged) + 1)
          = PayloadBytes * Cardinality(JobCharged) + PayloadBytes
    BY <1>4, <2>2, TimesNat
  <2>4. QED
    BY <1>1, <1>3, <2>1, <2>3 DEF Charges, JobAdd
<1>6. TaskFine(t)'
  BY <1>1, <1>2, PinsFree DEF Moves, TaskFine
<1>7. sampler' \in Task => task'[sampler'].pc = "refresh"
  BY <1>1, <1>2, NotSampling DEF Inv, Moves, sampling, JobAdd
<1>8. QED
  BY <1>1, <1>2, <1>5, <1>6, <1>7, StepKept DEF JobAdd, TypeOK, sampling, Inv

LEMMA DropJobKept ==
    ASSUME Inv, NEW t \in Task, DropJob(t)
    PROVE  Inv'
<1>1. TypeOK /\ Charges /\ TaskFine(t) /\ task[t].pc = "dropJob" /\ t \in Payload
  BY DEF Inv, DropJob, At, TaskFine
<1>2. Moves(t, "dropNode") /\ task'[t].pins = task[t].pins
  BY <1>1, GotoMoves DEF DropJob, Progress
<1>3. Charged' = Charged
  BY <1>1, <1>2, ChargedMoves DEF ChargedSteps
<1>4. JobCharged = JobCharged' \cup {t} /\ t \notin JobCharged'
        /\ IsFiniteSet(JobCharged') /\ Cardinality(JobCharged') \in Nat
  <2>1. t \in JobCharged /\ "dropNode" \notin JobSteps
    BY <1>1, <1>2, JobChargedMoves DEF JobSteps
  <2>2. JobCharged' = JobCharged \ {t}
    BY <1>1, <1>2, <2>1, JobChargedMoves
  <2>3. JobCharged' \subseteq Task
    BY <1>2, JobChargedMoves
  <2>4. IsFiniteSet(JobCharged') /\ Cardinality(JobCharged') \in Nat
    BY <2>3, FiniteTasks
  <2>5. QED
    BY <2>1, <2>2, <2>4
<1>5. Charges'
  <2>1. Cardinality(JobCharged) = Cardinality(JobCharged') + 1
    BY <1>4, FS_AddElement
  <2>2. PayloadBytes \in Nat /\ PayloadBytes * Cardinality(JobCharged') \in Nat
    BY <1>4, RamAssumption, TimesNat
  <2>3. PayloadBytes * (Cardinality(JobCharged') + 1)
          = PayloadBytes * Cardinality(JobCharged') + PayloadBytes
    BY <1>4, <2>2, TimesNat
  <2>4. QED
    BY <1>1, <1>3, <2>1, <2>2, <2>3 DEF Charges, DropJob, DropFirst
<1>6. TaskFine(t)'
  BY <1>1, <1>2, PinsFree DEF Moves, TaskFine
<1>7. sampler' \in Task => task'[sampler'].pc = "refresh"
  BY <1>1, <1>2, NotSampling DEF Inv, Moves, sampling, DropJob
<1>8. QED
  BY <1>1, <1>2, <1>5, <1>6, <1>7, StepKept
  DEF DropJob, DropFirst, TypeOK, sampling, Inv

LEMMA DropNodeKept ==
    ASSUME Inv, NEW t \in Task, DropNode(t)
    PROVE  Inv'
<1> DEFINE s == IF t \in Relay THEN "reply" ELSE "done"
<1>1. TypeOK /\ Charges /\ TaskFine(t) /\ task[t].pc = "dropNode"
  BY DEF Inv, DropNode, At
<1>2. Moves(t, s) /\ task'[t].pins = task[t].pins
  BY <1>1, GotoMoves DEF DropNode, Progress
<1>3. Charged = Charged' \cup {t} /\ t \notin Charged' /\ Charged' \subseteq Task
  BY <1>1, <1>2, ChargedMoves DEF ChargedSteps
<1>4. JobCharged' = JobCharged
  BY <1>1, <1>2, JobChargedMoves DEF JobSteps
<1>5. BytesOf(Charged) = BytesOf(Charged') + Bytes(t)
        /\ BytesOf(Charged') \in Nat /\ Bytes(t) \in Nat
  BY <1>3, BytesOfAdd, BytesOfType, BytesType
<1>6. Charges'
  BY <1>1, <1>4, <1>5 DEF Charges, DropNode
<1>7. TaskFine(t)'
  BY <1>1, <1>2, PinsFree DEF Moves, TaskFine
<1>8. owned' <= highest
  BY <1>1, <1>5 DEF Inv, DropNode, TypeOK
<1>9. sampler' \in Task => task'[sampler'].pc = "refresh"
  BY <1>1, <1>2, NotSampling DEF Inv, Moves, sampling, DropNode
<1> HIDE DEF s
<1>10. QED
  BY <1>1, <1>2, <1>6, <1>7, <1>8, <1>9, StepKept
  DEF DropNode, TypeOK, sampling, Inv

LEMMA HoldKept ==
    ASSUME Inv, NEW t \in Task,
           \/ Fill(t) \/ InsertStaging(t) \/ Cancel(t) \/ EndStaging(t)
           \/ EndRelay(t) \/ Reply(t) \/ Unmap(t)
    PROVE  Inv'
<1>1. TypeOK /\ TaskFine(t)
  BY DEF Inv
<1>2. t \in Payload => t \notin Staging /\ t \notin Relay
  BY RamAssumption
<1>3. CASE Fill(t)
  BY <1>1, <1>3, GotoKept, NotSampling, PinsFree
  DEF Fill, At, Progress, ChargedSteps, JobSteps, TypeOK, TaskFine
<1>4. CASE InsertStaging(t)
  BY <1>1, <1>2, <1>4, GotoKept, NotSampling, PinsFree
  DEF InsertStaging, At, Progress, ChargedSteps, JobSteps, TypeOK, TaskFine
<1>5. CASE Cancel(t)
  BY <1>1, <1>2, <1>5, GotoKept, NotSampling, PinsFree
  DEF Cancel, At, Progress, ChargedSteps, JobSteps, TypeOK, TaskFine
<1>6. CASE EndStaging(t)
  BY <1>1, <1>2, <1>6, GotoKept, NotSampling
  DEF EndStaging, StagingEnds, At, Progress, ChargedSteps, JobSteps, TypeOK,
      TaskFine
<1>7. CASE EndRelay(t)
  BY <1>1, <1>2, <1>7, GotoKept, NotSampling
  DEF EndRelay, At, Progress, ChargedSteps, JobSteps, TypeOK, TaskFine
<1>8. CASE Reply(t)
  BY <1>1, <1>8, GotoKept, NotSampling, PinsFree
  DEF Reply, At, Progress, ChargedSteps, JobSteps, TypeOK
<1>9. CASE Unmap(t)
  BY <1>1, <1>9, GotoKept, NotSampling
  DEF Unmap, AfterUnmap, At, Progress, ChargedSteps, JobSteps, TypeOK
<1>10. QED
  BY <1>3, <1>4, <1>5, <1>6, <1>7, <1>8, <1>9

LEMMA PinKept ==
    ASSUME Inv, NEW t \in Task, Pin(t) \/ Unpin(t)
    PROVE  Inv'
<1>1. TypeOK /\ TaskFine(t) /\ task[t] \in TaskState /\ t \in Payload
        /\ MaxPins \in Nat
  BY RamAssumption DEF Inv, TypeOK, TaskState, Pin, Unpin
<1>2. CASE Pin(t)
  <2>1. Moves(t, "held") /\ task[t].pc = "held"
    BY <1>1, <1>2 DEF Pin, At, TypeOK, Moves, TaskState, Progress
  <2>2. TaskFine(t)'
    BY <1>1, <2>1 DEF Moves, TaskFine
  <2>3. QED
    BY <1>1, <1>2, <2>1, <2>2, QuietKept, NotSampling DEF Pin, TypeOK
<1>3. CASE Unpin(t)
  <2> DEFINE s == IF task[t].pc = "pinned" /\ task[t].pins = 1
                  THEN "dropJob" ELSE task[t].pc
  <2>1. task[t].pc \in {"held", "pinned"} /\ task[t].pins > 0
    BY <1>1, <1>3 DEF Unpin, TaskFine
  <2>2. Moves(t, s) /\ task'[t].pins = task[t].pins - 1
    <3>1. task' = [task EXCEPT ![t].pins = task[t].pins - 1, ![t].pc = s]
      BY <1>3 DEF Unpin
    <3>2. task[t].pins - 1 \in 0..MaxPins /\ s \in Progress
      BY <1>1, <2>1 DEF TaskState, Progress
    <3> HIDE DEF s
    <3>3. QED
      BY <1>1, <3>1, <3>2 DEF TypeOK, Moves, TaskState
  <2>3. TaskFine(t)'
    BY <1>1, <2>1, <2>2 DEF Moves, TaskFine, TaskState
  <2>4. /\ s \in ChargedSteps <=> task[t].pc \in ChargedSteps
        /\ s \in JobSteps <=> task[t].pc \in JobSteps
    BY <2>1 DEF ChargedSteps, JobSteps
  <2> HIDE DEF s
  <2>5. QED
    BY <1>1, <1>3, <2>1, <2>2, <2>3, <2>4, QuietKept, NotSampling
    DEF Unpin, TypeOK
<1>4. QED
  BY <1>2, <1>3

LEMMA NextKept == Inv /\ [Next]_vars => Inv'
<1> SUFFICES ASSUME Inv, [Next]_vars PROVE Inv'
  OBVIOUS
<1>1. CASE UNCHANGED vars
  BY <1>1
  DEF vars, counters, sampling, Inv, TypeOK, Charges, Charged, JobCharged,
      TaskFine
<1>2. CASE AppsChange
  BY <1>2
  DEF AppsChange, counters, sampling, Inv, TypeOK, Charges, Charged,
      JobCharged, TaskFine
<1>3. CASE RefreshRead(Monitor) \/ RefreshStore(Monitor)
  BY <1>3, RefreshKept
<1>4. ASSUME NEW t \in Task, Begin(t) \/ Cancel(t) \/ Pin(t) \/ Unmap(t)
      PROVE  Inv'
  BY <1>4, AdmissionKept, HoldKept, PinKept
<1>5. ASSUME NEW t \in Task, Proceed(t) PROVE Inv'
  <2>1. CASE LoadOwned(t)
    BY <2>1, ReadKept DEF LoadOwned, At
  <2>2. QED
    BY <1>5, <2>1, RefreshKept, AdmissionKept, ExchangeKept, JobAddKept,
       DropJobKept, DropNodeKept, HoldKept, PinKept
    DEF Proceed
<1>6. QED
  BY <1>1, <1>2, <1>3, <1>4, <1>5 DEF Next

LEMMA InitFine == Init => Inv
<1> SUFFICES ASSUME Init PROVE Inv
  OBVIOUS
<1>1. /\ task = [t \in Task |-> [pc |-> "idle", used |-> 0, pins |-> 0]]
      /\ owned = 0 /\ jobOwned = 0 /\ sampler = None /\ sampled = 0
      /\ mapLock = None /\ highest = budget /\ apps \in AppLevels
      /\ budget = Calculate(Available, 0)
  BY DEF Init
<1>2. \A t \in Task : task[t].pc = "idle" /\ task[t].pins = 0
  BY <1>1
<1>3. Charged = {} /\ JobCharged = {}
  BY <1>2 DEF Charged, JobCharged, ChargedSteps, JobSteps, Task
<1>4. BytesOf({}) = 0
  <2>1. Cardinality({} \cap Payload) = 0 /\ Cardinality({} \ Payload) = 0
    BY FS_EmptySet
  <2>2. QED
    BY <2>1, RamAssumption DEF BytesOf
<1>5. Charges
  BY <1>1, <1>3, <1>4, FS_EmptySet, RamAssumption DEF Charges
<1>6. budget \in Nat
  <2>1. Resident \subseteq Task
    BY DEF Resident, InUse, Task
  <2>2. BytesOf(Resident) \in Nat /\ apps \in Nat
    BY <1>1, <2>1, BytesOfType, RamAssumption
  <2>3. Available \in Nat
    BY <2>2, RamAssumption DEF Available, SaturatingSub
  <2>4. QED
    BY <1>1, <2>3, CalculateType
<1>7. TypeOK
  <2>1. task \in [Task -> [pc : Progress, used : Nat, pins : 0..MaxPins]]
    BY <1>1, RamAssumption DEF Progress
  <2>2. QED
    BY <1>1, <1>6, <2>1 DEF TypeOK
<1>8. QED
  BY <1>1, <1>2, <1>5, <1>6, <1>7, RamAssumption DEF Inv, TaskFine

LEMMA Invariance == Spec => []Inv
BY InitFine, NextKept, PTL DEF Spec

-----------------------------------------------------------------------------
(* The theorems *)

(* The counters of allocator.rs never wrap below zero: every fetch_sub of  *)
(* a Drop takes back what its own reserve has added.                       *)
THEOREM TypeCorrect == Spec => []TypeOK
<1>1. Inv => TypeOK
  BY DEF Inv
<1>2. QED
  BY <1>1, Invariance, PTL

(* No interleaving of reservations, samples and drops takes the owned      *)
(* bytes above the highest budget that refresh_memory ever stored.         *)
THEOREM WithinSample == Spec => []UnderSample
<1>1. Inv => UnderSample
  BY DEF Inv, UnderSample
<1>2. QED
  BY <1>1, Invariance, PTL

(* The job's counter never exceeds the node's, although they are two       *)
(* atomics that reserve_payload and Drop update one after the other.       *)
THEOREM JobBelowNode == Spec => []JobWithinNode
<1>1. ASSUME Inv PROVE JobWithinNode
  <2>1. JobCharged \subseteq Charged \cap Payload /\ Charged \subseteq Task
    BY DEF JobCharged, Charged, JobSteps, ChargedSteps, Task
  <2>2. BytesOf(JobCharged) <= BytesOf(Charged)
    BY <2>1, BytesOfMonotone
  <2>3. JobCharged \cap Payload = JobCharged /\ JobCharged \ Payload = {}
    BY DEF JobCharged
  <2>4. BytesOf(JobCharged) = PayloadBytes * Cardinality(JobCharged)
    <3>1. Cardinality(JobCharged) \in Nat
      BY <2>1, FiniteTasks
    <3>2. PayloadBytes * Cardinality(JobCharged) \in Nat /\ ChunkBytes * 0 = 0
      BY <3>1, TimesNat, RamAssumption
    <3>3. QED
      BY <2>3, <3>2, FS_EmptySet DEF BytesOf
  <2>5. QED
    BY <1>1, <2>2, <2>4 DEF Inv, Charges, JobWithinNode
<1>2. QED
  BY <1>1, Invariance, PTL

(* A block or relay buffer in use is accounted for until the last handler  *)
(* that holds it lets go (local_ram.rs, data.rs).                          *)
THEOREM UseAccounted == Spec => []Covered
<1>1. ASSUME Inv PROVE Covered
  <2>1. InUse \subseteq Charged /\ Charged \subseteq Task
    BY <1>1 DEF InUse, Charged, Inv, TaskFine, At, ChargedSteps, Task
  <2>2. QED
    BY <1>1, <2>1, BytesOfMonotone DEF Inv, Charges, Covered
<1>2. QED
  BY <1>1, Invariance, PTL

=============================================================================
