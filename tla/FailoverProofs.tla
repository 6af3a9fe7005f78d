---------------------------- MODULE FailoverProofs ---------------------------
(***************************************************************************)
(* A block survives a change of leader, for every set of owners and calls, *)
(* every lease and deadline, and any number of exchanges in flight.        *)
(*                                                                         *)
(* Two tables are filled from different inventories, and requests of the   *)
(* dead leader's are still about.  The invariant therefore says of an      *)
(* entry only that the surviving copies are not behind it (Known), and     *)
(* that a copy leaves its map only when a published successor stays.       *)
(***************************************************************************)
EXTENDS Failover, BlockResidencyProofs

(* No request has acted on another copy than its own, no node has been     *)
(* restarted, no Free has been sent and no copy's lease has run out.       *)
Unbroken ==
    /\ ~crossed /\ NoRestart
    /\ \A f \in Release : call[f].pc = "idle"
    /\ \A o \in Obj : Exists(o) => obj[o].lease > 0

(* A call has not made its copy yet. *)
Early == {"idle", "picked", "lock", "alloc"}

Unmade == \A c \in Obj : call[c].pc \in Early => ~Exists(c)

Committed(o) == Exists(o) /\ obj[o].state = "Ready"

(* Its migration will not discard it any more. *)
Spoken(o) ==
    o \in Migration => call[o].pc \notin {"write", "commit"} /\ ~Discarding(o)

(* A committed copy in its map that only a successor can replace. *)
Sound(o) == obj[o].mapped /\ Committed(o) /\ Spoken(o)

(* Such a copy of at least generation g is in its owner's inventories. *)
Listed(o) == obj[o].mapped /\ Committed(o) /\ obj[o].published
Carried(g) == \E q \in Obj : Listed(q) /\ obj[q].gen >= g

(* What a table may be told: nothing that the surviving copies are behind. *)
Known(h) ==
    /\ h.lease # Tombstone
    /\ \/ h.gen = 0 \/ Carried(h.gen)
       \/ \E q \in Obj : Sound(q) /\ obj[q].node = h.owner /\ obj[q].gen = h.gen

CopyRight(o) ==
    /\ obj[o].published /\ Committed(o) => Carried(obj[o].gen)
    /\ o = Origin /\ Exists(o) =>
         /\ obj[o].published /\ obj[o].gen = 0
         /\ obj[o].state = "Writing" => obj[o].mapped
    /\ o \in Migration /\ Exists(o) =>
         /\ issued[o] <= knows[obj[o].node]
         /\ obj[o].published => Committed(o) /\ Spoken(o)

EntriesRight ==
    /\ Known(table) /\ Known(heir)
    /\ \A m \in gossip : Known(m.h)

OriginRight ==
    /\ call[Origin].pc \in {"alloc", "grant", "register"} => call[Origin].h.gen = 0
    /\ call[Origin].pc \in {"register", "done"} => Committed(Origin)

CallRight(c) ==
    /\ call[c].h.lease # Tombstone
    /\ call[c].pin # None => /\ call[c].pc \in OwnerStep \cup {"unmap"}
                             /\ obj[call[c].pin].node = call[c].h.owner
    /\ c \notin Migration => call[c].src = None
    /\ c \in Renewal /\ call[c].pc \in {"renew", "register"} => Known(call[c].h)

(* A migration and its destination. *)
Built(c) ==
    /\ call[c].pc \in {"write", "commit", "cas", "publish", "drop"} => Exists(c)
    /\ call[c].pc \in {"cas", "publish", "drop"} => Committed(c)
    /\ call[c].pc \in {"write", "commit", "cas", "publish"} =>
         obj[c].node = call[c].h.owner /\ obj[c].gen = call[c].h.gen
    /\ call[c].pc = "drop" \/ Leaves(c) => obj[c].published /\ Committed(c)

(* A migration and its source. *)
Sourced(c) ==
    /\ call[c].pc \notin Quiet \cup {"picked"} => call[c].src # None
    /\ call[c].pc = "alloc" => /\ call[c].h.gen = obj[call[c].src].gen + 1
                               /\ call[c].h.owner # obj[call[c].src].node
    /\ call[c].pc \in {"alloc", "write", "commit", "cas"}
         => call[c].prev = obj[call[c].src].gen
    /\ call[c].pc \notin Quiet \cup {"picked", "lock"} => Committed(call[c].src)
    /\ call[c].src # None /\ Exists(c) =>
         /\ obj[c].gen = obj[call[c].src].gen + 1
         /\ obj[c].node # obj[call[c].src].node
    /\ call[c].src \in Migration => issued[call[c].src] <= issued[c]

(* The leader may still let its compare-and-set succeed. *)
Awaited(c) == /\ call[c].pc \in {"write", "commit", "cas"}
              /\ issued[c] = term /\ table.gen <= call[c].prev

(* A compare-and-set that the leader would let succeed finds its copy in   *)
(* its map, and the table of its term has left the source behind then.     *)
Answered(c) ==
    /\ Awaited(c) => obj[c].mapped
    /\ call[c].pc = "publish" => obj[c].mapped \/ Carried(obj[c].gen)
    /\ /\ call[c].pc \in {"publish", "drop"} \/ Leaves(c)
       /\ issued[c] = term
       => obj[call[c].src].gen < table.gen

MigrationRight(c) == Built(c) /\ Sourced(c) /\ Answered(c)

Right ==
    /\ MappedOnce /\ EntriesRight /\ OriginRight
    /\ \A o \in Obj : CopyRight(o)
    /\ \A c \in Call : CallRight(c)
    /\ \A c \in Migration : MigrationRight(c)

(* Who has validated a request is not behind its term. *)
AdmittedOK ==
    /\ admitted \subseteq Call \X Node \X {0, 1}
    /\ \A a \in admitted : a[3] <= knows[a[2]]

(* The shapes of what a change of leader adds. *)
ChangeOK ==
    /\ term \in {0, 1}
    /\ knows \in [Node -> {0, 1}] /\ \A k \in Node : knows[k] <= term
    /\ \A c \in Migration : issued[c] \in {0, 1} /\ issued[c] <= term
    /\ heir \in Handle /\ (heir.owner = None => heir.gen = 0)
    /\ heirPeer \in [Node -> Nat]
    /\ table.owner = None => table.gen = 0
    /\ AdmittedOK


-----------------------------------------------------------------------------
(* Frames *)

(* Copy o keeps what the invariant says of it, its place in a map apart. *)
Same(o) ==
    /\ obj'[o].node = obj[o].node /\ obj'[o].gen = obj[o].gen
    /\ obj'[o].state = obj[o].state /\ obj'[o].published = obj[o].published

(* Only c's own copy is made, committed or published. *)
CopyStep(c) ==
    \A o \in Obj :
        \/ Same(o)
        \/ /\ o = c
           /\ Exists(o) =>
                /\ obj'[o].node = obj[o].node /\ obj'[o].gen = obj[o].gen
                /\ obj[o].state = "Ready" => obj'[o].state = "Ready"
                /\ obj[o].published => obj'[o].published

(* Call d goes on as it was. *)
CallSame(d) ==
    /\ call'[d].pc = call[d].pc /\ call'[d].src = call[d].src
    /\ call'[d].pin = call[d].pin /\ call'[d].prev = call[d].prev
    /\ call'[d].h.owner = call[d].h.owner /\ call'[d].h.gen = call[d].h.gen
    /\ call'[d].h.lease = Tombstone => call[d].h.lease = Tombstone

(* The copies that others depend on are still there or have a successor. *)
Saves ==
    /\ \A g \in Nat : Carried(g) => Carried(g)'
    /\ \A o \in Obj, g \in Nat :
         Sound(o) /\ obj[o].gen = g => Sound(o)' \/ Carried(g)'
    /\ \A d \in Migration : Awaited(d) /\ obj[d].mapped => obj'[d].mapped
    /\ \A d \in Migration, g \in Nat :
         call[d].pc = "publish" /\ obj[d].mapped /\ obj[d].gen = g
         => obj'[d].mapped \/ Carried(g)'
    /\ Exists(Origin) /\ obj[Origin].mapped /\ obj[Origin].state = "Writing"
         => obj'[Origin].mapped

(* What the others read of the leadership. *)
TermStep(c) ==
    /\ \A k \in Node : knows[k] <= knows'[k]
    /\ \A d \in Migration : issued'[d] = issued[d] \/ (d = c /\ ~Exists(d))
    /\ \A d \in Migration \ {c} :
         issued'[d] = term' => issued[d] = term /\ table.gen <= table'.gen

(* What the step of a call says of the call itself. *)
SelfRight(c) ==
    /\ CallRight(c)
    /\ c \in Obj => CopyRight(c)
    /\ c = Origin => OriginRight
    /\ c \in Migration => MigrationRight(c)

LEMMA KnownStays ==
    ASSUME TypeOK, NEW c, CopyStep(c), Saves, NEW h \in Handle, NEW k \in Handle,
           k.gen = h.gen, k.owner = h.owner, k.lease # Tombstone, Known(h)
    PROVE  Known(k)'
<1>1. h.gen \in Nat
  BY HandleFields
<1>2. CASE h.gen = 0
  BY <1>2 DEF Known
<1>3. CASE Carried(h.gen)
  <2>1. PICK g \in Nat : g = h.gen
    BY <1>1
  <2>2. Carried(g)'
    BY <1>3, <2>1 DEF Saves
  <2> QED BY <2>1, <2>2 DEF Known
<1>4. ASSUME NEW q \in Obj, Sound(q), obj[q].node = h.owner, obj[q].gen = h.gen
      PROVE  Known(k)'
  <2>1. PICK g \in Nat : g = h.gen
    BY <1>1
  <2>2. Sound(q)' \/ Carried(g)'
    BY <1>4, <2>1 DEF Saves
  <2>3. CASE Carried(g)'
    BY <2>1, <2>3 DEF Known
  <2>4. CASE Sound(q)'
    <3>1. obj'[q].node = obj[q].node /\ obj'[q].gen = obj[q].gen
      BY <1>4 DEF CopyStep, Same, Sound, Committed
    <3> QED BY <1>4, <2>4, <3>1 DEF Known
  <2> QED BY <2>2, <2>3, <2>4
<1> QED BY <1>2, <1>3, <1>4 DEF Known

(* A call that goes on as it was leaves its copy as it was. *)
LEMMA SpokenSame ==
    ASSUME TypeOK, Refs, NEW c, CopyStep(c), NEW o \in Obj, CallSame(o)
    PROVE  Spoken(o) => Spoken(o)'
<1>1. o \in Call
  BY CallKinds
<1>2. call[o].src # None => /\ call[o].src \in Obj /\ Exists(call[o].src)
                            /\ obj'[call[o].src].node = obj[call[o].src].node
  <2>1. call[o].src # None => call[o].src \in Obj /\ Exists(call[o].src)
    BY <1>1, CallFields DEF Refs, CallHolds, Exists
  <2> QED BY <2>1 DEF CopyStep, Same
<1> QED BY <1>2 DEF Spoken, CallSame, Discarding, Leaves

LEMMA CopyAgain ==
    ASSUME TypeOK, NEW c, Saves, TermStep(c), Right, ChangeOK, ChangeOK',
           NEW o \in Obj, Same(o), Exists(o) /\ Spoken(o) => Spoken(o)'
    PROVE  CopyRight(o)'
<1>1. CopyRight(o)
  BY DEF Right
<1>2. obj[o].gen \in Nat
  BY CopyFields
<1>3. obj'[o].published /\ Committed(o)' => Carried(obj[o].gen)'
  <2>1. PICK g \in Nat : g = obj[o].gen
    BY <1>2
  <2>2. obj'[o].published /\ Committed(o)' => Carried(g)
    BY <1>1, <2>1 DEF CopyRight, Same, Committed, Exists
  <2>3. obj'[o].published /\ Committed(o)' => Carried(g)'
    BY <2>2 DEF Saves
  <2>4. g = obj'[o].gen
    BY <2>1 DEF Same
  <2> QED BY <2>3, <2>4
<1>4. o = Origin /\ Exists(o)' =>
         /\ obj'[o].published /\ obj'[o].gen = 0
         /\ obj'[o].state = "Writing" => obj'[o].mapped
  BY <1>1 DEF CopyRight, Same, Exists, Saves
<1>5. o \in Migration /\ Exists(o)' =>
         /\ issued'[o] <= knows'[obj'[o].node]
         /\ obj'[o].published => Committed(o)' /\ Spoken(o)'
  <2> SUFFICES ASSUME o \in Migration, Exists(o)'
               PROVE  /\ issued'[o] <= knows'[obj'[o].node]
                      /\ obj'[o].published => Committed(o)' /\ Spoken(o)'
    OBVIOUS
  <2>1. Exists(o) /\ issued[o] <= knows[obj[o].node]
        /\ (obj[o].published => Committed(o) /\ Spoken(o))
    BY <1>1 DEF CopyRight, Same, Exists
  <2>2. obj[o].node \in Node /\ issued'[o] = issued[o] /\ obj'[o].node = obj[o].node
    BY <2>1, CopyFields DEF TermStep, Same, Exists
  <2>3. issued'[o] <= knows'[obj'[o].node]
    BY <2>1, <2>2 DEF TermStep, ChangeOK
  <2> QED BY <2>1, <2>3 DEF Same, Committed, Exists
<1> QED BY <1>3, <1>4, <1>5 DEF CopyRight

LEMMA SourceStays ==
    ASSUME TypeOK, Refs, NEW c, CopyStep(c), NEW d \in Call
    PROVE  /\ call[d].src # None =>
                /\ call[d].src \in Obj /\ Exists(call[d].src)
                /\ obj[call[d].src].gen \in Nat
                /\ obj'[call[d].src].node = obj[call[d].src].node
                /\ obj'[call[d].src].gen = obj[call[d].src].gen
                /\ Committed(call[d].src) =>
                     /\ obj'[call[d].src].node # None
                     /\ obj'[call[d].src].state = "Ready"
           /\ call[d].pin # None =>
                /\ call[d].pin \in Obj /\ Exists(call[d].pin)
                /\ obj'[call[d].pin].node = obj[call[d].pin].node
<1>1. call[d].src # None => call[d].src \in Obj /\ Exists(call[d].src)
  BY CallFields DEF Refs, CallHolds, Exists
<1>2. call[d].pin # None => call[d].pin \in Obj /\ Exists(call[d].pin)
  BY CallFields DEF Refs, CallHolds, Exists
<1> QED BY <1>1, <1>2, CopyFields DEF CopyStep, Same, Committed, Exists

LEMMA CallOther ==
    ASSUME TypeOK, TypeOK', Refs, NEW c, CopyStep(c), Saves, Right,
           NEW d \in Call, CallSame(d)
    PROVE  CallRight(d)'
<1>1. CallRight(d)
  BY DEF Right
<1>2. call'[d].pin # None => /\ call'[d].pc \in OwnerStep \cup {"unmap"}
                             /\ obj'[call'[d].pin].node = call'[d].h.owner
  BY <1>1, SourceStays DEF CallRight, CallSame
<1>3. ASSUME d \in Renewal, call'[d].pc \in {"renew", "register"}
      PROVE  Known(call[d].h)'
  <2>1. PICK h \in Handle, k \in Handle : h = call[d].h /\ k = call'[d].h
    BY DEF TypeOK, CallState
  <2>2. Known(h)
    BY <1>1, <1>3, <2>1 DEF CallRight, CallSame
  <2>3. k.gen = h.gen /\ k.owner = h.owner /\ k.lease # Tombstone
    BY <2>1, <2>2 DEF CallSame, Known
  <2>4. Known(k)'
    BY <2>2, <2>3, KnownStays
  <2> QED BY <2>1, <2>4
<1> QED BY <1>1, <1>2, <1>3 DEF CallRight, CallSame

LEMMA MigrationOther ==
    ASSUME TypeOK, TypeOK', Refs, ChangeOK, ChangeOK', NEW c, CopyStep(c), Saves,
           TermStep(c), Right, Unmade, NEW d \in Migration, d # c, CallSame(d)
    PROVE  MigrationRight(d)'
<1>1. /\ Built(d) /\ Sourced(d) /\ Answered(d) /\ Same(d) /\ d \in Obj /\ d \in Call
      /\ issued'[d] = issued[d]
  BY CallKinds DEF Right, MigrationRight, CopyStep, TermStep
<1>2. /\ obj[d].gen \in Nat /\ obj'[d].gen \in Nat
      /\ obj'[d].gen = obj[d].gen /\ obj'[d].node = obj[d].node
  BY <1>1, CopyFields DEF TypeOK, Object, Same
<1>3. PICK s \in Obj \cup {None} : s = call[d].src /\ s = call'[d].src
  BY <1>1, CallFields DEF CallSame
<1>4. s # None => /\ s \in Obj /\ Exists(s) /\ Exists(s)' /\ obj[s].gen \in Nat
                  /\ obj'[s].node = obj[s].node /\ obj'[s].gen = obj[s].gen
                  /\ Committed(s) => Committed(s)'
  BY <1>1, <1>3, SourceStays DEF Committed, Exists
<1>5. Leaves(d)' <=> Leaves(d)
  BY <1>3, <1>4 DEF Leaves, CallSame
<1>6. Built(d)'
  BY <1>1, <1>2, <1>5 DEF Built, CallSame, Committed, Exists, Same
<1>7. Sourced(d)'
  <2>1. s \in Migration => issued'[s] = issued[s]
    BY <1>4, CallKinds DEF TermStep
  <2>2. /\ call'[d].pc = call[d].pc /\ call'[d].prev = call[d].prev
        /\ call'[d].h.gen = call[d].h.gen /\ call'[d].h.owner = call[d].h.owner
    BY DEF CallSame
  <2>3. /\ call[d].pc \notin Quiet \cup {"picked"} => s # None
        /\ call[d].pc = "alloc" => /\ call[d].h.gen = obj[s].gen + 1
                                   /\ call[d].h.owner # obj[s].node
        /\ call[d].pc \in {"alloc", "write", "commit", "cas"}
             => call[d].prev = obj[s].gen
        /\ call[d].pc \notin Quiet \cup {"picked", "lock"} => Committed(s)
        /\ s # None /\ Exists(d) => obj[d].gen = obj[s].gen + 1
                                    /\ obj[d].node # obj[s].node
        /\ s \in Migration => issued[s] <= issued[d]
    BY <1>1, <1>3 DEF Sourced
  <2>4. {"alloc", "write", "commit", "cas"} \cap (Quiet \cup {"picked"}) = {}
    BY DEF Quiet, Ended
  <2>5. /\ call'[d].pc \notin Quiet \cup {"picked"} => s # None
        /\ call'[d].pc = "alloc" => /\ call'[d].h.gen = obj'[s].gen + 1
                                    /\ call'[d].h.owner # obj'[s].node
        /\ call'[d].pc \in {"alloc", "write", "commit", "cas"}
             => call'[d].prev = obj'[s].gen
        /\ call'[d].pc \notin Quiet \cup {"picked", "lock"} => Committed(s)'
        /\ s # None /\ Exists(d)' => obj'[d].gen = obj'[s].gen + 1
                                    /\ obj'[d].node # obj'[s].node
        /\ s \in Migration => issued'[s] <= issued'[d]
    BY <1>1, <1>2, <1>4, <2>1, <2>2, <2>3, <2>4 DEF Exists
  <2> QED BY <1>3, <2>5 DEF Sourced
<1>8. Answered(d)'
  <2>0. call[d].prev \in Nat /\ table.gen \in Nat /\ table'.gen \in Nat
        /\ term \in {0, 1}
    <3>1. table' \in Handle
      BY DEF TypeOK
    <3> QED BY <1>1, <3>1, CallFields, EntryFields, HandleFields DEF ChangeOK
  <2>1. ASSUME Awaited(d)' PROVE obj'[d].mapped
    <3>1. Awaited(d)
      BY <1>1, <2>0, <2>1 DEF Awaited, CallSame, TermStep
    <3> QED BY <1>1, <3>1 DEF Answered, Saves
  <2>2. ASSUME call'[d].pc = "publish"
        PROVE  obj'[d].mapped \/ Carried(obj[d].gen)'
    <3>1. PICK g \in Nat : g = obj[d].gen /\ g = obj'[d].gen
      BY <1>2
    <3>2. obj[d].mapped \/ Carried(g)
      BY <1>1, <2>2, <3>1 DEF Answered, CallSame
    <3>3. obj'[d].mapped \/ Carried(g)'
      BY <2>2, <3>1, <3>2 DEF Saves, CallSame
    <3> QED BY <3>1, <3>3
  <2>3. ASSUME call'[d].pc \in {"publish", "drop"} \/ Leaves(d)', issued'[d] = term'
        PROVE  obj'[s].gen < table'.gen
    <3>1. obj[s].gen < table.gen /\ table.gen <= table'.gen
      BY <1>1, <1>3, <1>5, <2>3 DEF Answered, CallSame, TermStep
    <3>2. s # None
      <4>1. call[d].pc \notin Quiet \cup {"picked"}
        BY <1>5, <2>3 DEF Leaves, CallSame, Quiet, Ended
      <4> QED BY <1>1, <1>3, <4>1 DEF Sourced
    <3> QED BY <1>4, <2>0, <3>1, <3>2
  <2> QED BY <1>3, <2>1, <2>2, <2>3 DEF Answered
<1> QED BY <1>6, <1>7, <1>8 DEF MigrationRight

(* Of a step it remains to see what becomes of its own call. *)
LEMMA RightAgain ==
    ASSUME TypeOK, TypeOK', Refs, ChangeOK, ChangeOK', Right, Unmade, NEW c,
           CopyStep(c), Saves, TermStep(c), MappedOnce', EntriesRight',
           \A d \in Call : d # c => CallSame(d), c \in Call => SelfRight(c)'
    PROVE  Right'
<1>1. \A o \in Obj : CopyRight(o)'
  <2> SUFFICES ASSUME NEW o \in Obj, o # c PROVE CopyRight(o)'
    BY CallKinds DEF SelfRight
  <2>1. Same(o) /\ CallSame(o)
    BY CallKinds DEF CopyStep
  <2> QED BY <2>1, SpokenSame, CopyAgain
<1>2. \A d \in Call : CallRight(d)'
  BY CallOther DEF SelfRight
<1>3. \A d \in Migration : MigrationRight(d)'
  BY MigrationOther, CallKinds DEF SelfRight
<1>4. OriginRight'
  <2>1. CASE c = Origin
    BY <2>1, CallKinds DEF SelfRight
  <2>2. CASE c # Origin
    <3>1. CallSame(Origin) /\ Same(Origin)
      BY <2>2, CallKinds DEF CopyStep
    <3> QED BY <3>1 DEF Right, OriginRight, CallSame, Same, Committed, Exists
  <2> QED BY <2>1, <2>2
<1> QED BY <1>1, <1>2, <1>3, <1>4 DEF Right

(* A step that changes no map. *)
LEMMA StillSaves ==
    ASSUME TypeOK, TypeOK', NEW c, CopyStep(c),
           \A o \in Obj : Exists(o) => obj'[o].mapped = obj[o].mapped,
           \A o \in Obj : Exists(o) /\ Spoken(o) => Spoken(o)',
           MappedExist
    PROVE  Saves
<1>1. \A o \in Obj : Listed(o) => Listed(o)' /\ obj'[o].gen = obj[o].gen
  BY DEF Listed, Committed, Exists, CopyStep, Same
<1>2. \A o \in Obj : Sound(o) => Sound(o)'
  BY DEF Sound, Committed, Exists, CopyStep, Same
<1>3. ASSUME NEW g \in Nat, Carried(g) PROVE Carried(g)'
  BY <1>1, <1>3 DEF Carried
<1> QED BY <1>2, <1>3, CallKinds DEF Saves, MappedExist, Exists

-----------------------------------------------------------------------------
(* What a step may do to the copies and to the calls that make them *)

(* What a step of call c does to a copy. *)
LEMMA CallCopies ==
    ASSUME TypeOK, Refs, NEW c \in Call, CallStep(c), NEW o \in Obj
    PROVE  \/ o = c /\ AllocateLocal(c)
           \/ /\ obj'[o].node = obj[o].node /\ obj'[o].gen = obj[o].gen
              /\ obj'[o].lease > 0 => obj[o].lease > 0
              /\ \/ obj'[o].state = obj[o].state
                 \/ (obj'[o].state = "Ready" /\ Commit(c) /\ o = call[c].pin)
              /\ \/ obj'[o].published = obj[o].published
                 \/ (obj'[o].published /\ Publish(c) /\ o = call[c].pin)
              /\ \/ obj'[o].mapped = obj[o].mapped
                 \/ (~obj'[o].mapped /\ Unmap(c) /\ o = call[c].pin)
<1> DEFINE Rest == /\ obj'[o].node = obj[o].node /\ obj'[o].gen = obj[o].gen
                   /\ obj'[o].lease > 0 => obj[o].lease > 0
                   /\ \/ obj'[o].state = obj[o].state
                      \/ (obj'[o].state = "Ready" /\ Commit(c) /\ o = call[c].pin)
                   /\ \/ obj'[o].published = obj[o].published
                      \/ (obj'[o].published /\ Publish(c) /\ o = call[c].pin)
                   /\ \/ obj'[o].mapped = obj[o].mapped
                      \/ (~obj'[o].mapped /\ Unmap(c) /\ o = call[c].pin)
<1>1. obj \in [Obj -> Object] /\ obj[o] \in Object
  BY DEF TypeOK
<1>2. ASSUME obj' = obj \/ obj' = Unlocked(c)
      PROVE  /\ obj'[o].node = obj[o].node /\ obj'[o].gen = obj[o].gen
             /\ obj'[o].lease = obj[o].lease /\ obj'[o].state = obj[o].state
             /\ obj'[o].published = obj[o].published
             /\ obj'[o].mapped = obj[o].mapped
  BY <1>1, <1>2 DEF Unlocked, Object
<1>3. ASSUME Fails(c) PROVE Rest
  <2>1. obj' = obj \/ obj' = Unlocked(c)
    BY <1>3 DEF Fails
  <2> QED BY <1>2, <2>1
<1>4. ASSUME \/ Arrive(c) \/ Register(c) \/ FreeCheck(c) \/ Migrate(c)
             \/ CompareAndSet(c) \/ DropSource(c) \/ RpcError(c) \/ Abandon(c)
             \/ DropStray(c),
             ~Fails(c)
      PROVE  Rest
  <2>1. obj' = obj \/ obj' = Unlocked(c)
    BY <1>4
    DEF Arrive, Register, FreeCheck, Migrate, CompareAndSet, DropSource, RpcError,
        Abandon, DropStray
  <2> QED BY <1>2, <2>1
<1>5. ASSUME AllocateLocal(c) PROVE o = c \/ Rest
  <2>1. o # c => obj'[o] = obj[o]
    BY <1>1, <1>5 DEF AllocateLocal
  <2> QED BY <2>1
<1>6. ASSUME WriteChunks(c), ~Fails(c) PROVE Rest
  <2>1. PICK q : obj' = [obj EXCEPT ![q].full = TRUE]
    BY <1>6 DEF WriteChunks
  <2>2. /\ obj'[o].node = obj[o].node /\ obj'[o].gen = obj[o].gen
        /\ obj'[o].lease = obj[o].lease /\ obj'[o].state = obj[o].state
        /\ obj'[o].published = obj[o].published
        /\ obj'[o].mapped = obj[o].mapped
    BY <1>1, <2>1 DEF Object
  <2> QED BY <2>2
<1>7. ASSUME Commit(c), ~Fails(c) PROVE Rest
  <2>1. PICK q : obj' = [obj EXCEPT ![q].state = "Ready"] /\ q = call[c].pin
    BY <1>7 DEF Commit
  <2>2. /\ obj'[o].node = obj[o].node /\ obj'[o].gen = obj[o].gen
        /\ obj'[o].lease = obj[o].lease
        /\ obj'[o].published = obj[o].published
        /\ obj'[o].mapped = obj[o].mapped
        /\ obj'[o].state = IF o = q THEN "Ready" ELSE obj[o].state
    BY <1>1, <2>1 DEF Object
  <2> QED BY <1>7, <2>1, <2>2
<1>8. ASSUME Publish(c), ~Fails(c) PROVE Rest
  <2>1. PICK q : obj' = [obj EXCEPT ![q].published = TRUE] /\ q = call[c].pin
    BY <1>8 DEF Publish
  <2>2. /\ obj'[o].node = obj[o].node /\ obj'[o].gen = obj[o].gen
        /\ obj'[o].lease = obj[o].lease /\ obj'[o].state = obj[o].state
        /\ obj'[o].mapped = obj[o].mapped
        /\ obj'[o].published = IF o = q THEN TRUE ELSE obj[o].published
    BY <1>1, <2>1 DEF Object
  <2> QED BY <1>8, <2>1, <2>2
<1>9. ASSUME Renew(c), ~Fails(c) PROVE Rest
  <2>1. PICK q : obj' = [obj EXCEPT ![q].lease = Lease] /\ obj[q].lease > 0
    BY <1>9 DEF Renew, Authorized
  <2>2. /\ obj'[o].node = obj[o].node /\ obj'[o].gen = obj[o].gen
        /\ obj'[o].state = obj[o].state /\ obj'[o].mapped = obj[o].mapped
        /\ obj'[o].published = obj[o].published
        /\ o # q => obj'[o].lease = obj[o].lease
    BY <1>1, <2>1 DEF Object
  <2> QED BY <2>1, <2>2
<1>10. ASSUME Unmap(c) PROVE Rest
  <2>1. obj'[o] = [Unlocked(c)[o] EXCEPT !.mapped = @ /\ o # call[c].pin]
    BY <1>10 DEF Unmap
  <2>2. Unlocked(c)[o] \in Object
    BY <1>1, UnlockedType
  <2>3. /\ Unlocked(c)[o].node = obj[o].node /\ Unlocked(c)[o].gen = obj[o].gen
        /\ Unlocked(c)[o].lease = obj[o].lease
        /\ Unlocked(c)[o].state = obj[o].state
        /\ Unlocked(c)[o].published = obj[o].published
        /\ Unlocked(c)[o].mapped = obj[o].mapped
    BY <1>1 DEF Unlocked, Object
  <2>4. /\ obj'[o].node = obj[o].node /\ obj'[o].gen = obj[o].gen
        /\ obj'[o].lease = obj[o].lease /\ obj'[o].state = obj[o].state
        /\ obj'[o].published = obj[o].published
        /\ obj'[o].mapped = (Unlocked(c)[o].mapped /\ o # call[c].pin)
    BY <2>1, <2>2, <2>3 DEF Object
  <2>5. obj'[o].mapped = obj[o].mapped \/ (~obj'[o].mapped /\ o = call[c].pin)
    BY <2>3, <2>4, CopyFields
  <2> QED BY <1>10, <2>4, <2>5
<1>11. ASSUME NEW dst \in Node, LockSource(c, dst), ~Fails(c) PROVE Rest
  <2>1. PICK q : obj' = [obj EXCEPT ![q].lock = c]
    BY <1>11 DEF LockSource
  <2>2. /\ obj'[o].node = obj[o].node /\ obj'[o].gen = obj[o].gen
        /\ obj'[o].lease = obj[o].lease /\ obj'[o].state = obj[o].state
        /\ obj'[o].mapped = obj[o].mapped
        /\ obj'[o].published = obj[o].published
    BY <1>1, <2>1 DEF Object
  <2> QED BY <2>2
<1> QED
  BY <1>3, <1>4, <1>5, <1>6, <1>7, <1>8, <1>9, <1>10, <1>11 DEF CallStep

(* A call that has made its copy, or can no longer make one, does not      *)
(* return to where it could.                                               *)
LEMMA EarlyBefore ==
    ASSUME TypeOK, NEW c \in Call, CallStep(c), call'[c].pc \in Early
    PROVE  call[c].pc \in Early /\ ~AllocateLocal(c)
<1>1. call \in [Call -> CallState] /\ call[c] \in CallState
  BY DEF TypeOK
<1>2. \A r \in Ended : Over(r).pc \notin Early
  BY OverType DEF Ended, Early
<1>3. Failure(c) \in Ended /\ "done" \in Ended
  BY FailureType DEF Ended
<1>4. ASSUME Fails(c) PROVE FALSE
  BY <1>1, <1>2, <1>3, <1>4 DEF Fails, Early, CallState
<1>5. ASSUME NEW next, NEW h, Advance(c, next, h), next \notin Early PROVE FALSE
  <2>1. \/ call'[c] = Over(Failure(c)) \/ call'[c] = Over("done")
        \/ call'[c] = [call[c] EXCEPT !.pc = next, !.pin = None, !.h = h]
    BY <1>1, <1>5 DEF Advance
  <2> QED BY <1>1, <1>2, <1>3, <1>5, <2>1 DEF CallState
<1>6. ~AllocateLocal(c)
  <2> SUFFICES ASSUME AllocateLocal(c) PROVE FALSE
    OBVIOUS
  <2>1. PICK next : next = IF c = Origin THEN "grant" ELSE "write"
    OBVIOUS
  <2>2. Advance(c, next, call[c].h) /\ next \notin Early
    BY <2>1 DEF AllocateLocal, Early
  <2> QED BY <1>5, <2>2
<1>7. CASE Arrive(c) \/ FreeCheck(c)
  BY <1>1, <1>4, <1>7 DEF Arrive, FreeCheck, CallState, OwnerStep, Early
<1>8. CASE WriteChunks(c) \/ Commit(c) \/ Register(c) \/ Renew(c) \/ Unmap(c)
           \/ Publish(c)
  <2>1. /\ \A h : ~Advance(c, "toCommit", h) /\ ~Advance(c, "commit", h)
                  /\ ~Advance(c, "register", h) /\ ~Advance(c, "cas", h)
                  /\ ~Advance(c, "done", h) /\ ~Advance(c, "drop", h)
        /\ ~Fails(c)
    BY <1>4, <1>5 DEF Early
  <2>2. CASE WriteChunks(c)
    BY <2>1, <2>2 DEF WriteChunks
  <2>3. CASE Commit(c)
    BY <1>1, <2>1, <2>3 DEF Commit, AfterCommit, CallState, Early
  <2>4. CASE Register(c) \/ Renew(c) \/ Unmap(c) \/ Publish(c)
    BY <2>1, <2>4 DEF Register, Renew, Unmap, Publish
  <2> QED BY <1>8, <2>2, <2>3, <2>4
<1>9. CASE Migrate(c) \/ (\E dst \in Node : LockSource(c, dst))
  BY <1>6, <1>9 DEF Migrate, LockSource, Early
<1>10. CASE CompareAndSet(c)
  <2>1. ~Advance(c, "publish", call[c].h)
    BY <1>5 DEF Early
  <2> QED BY <1>4, <1>10, <2>1 DEF CompareAndSet
<1>11. CASE DropSource(c)
  <2>1. \/ \E o, h : call' = [call EXCEPT ![c].pc = "free", ![c].pin = o, ![c].h = h]
        \/ call' = [call EXCEPT ![c] = Over("done")]
    BY <1>11 DEF DropSource
  <2>2. call'[c].pc = "free" \/ call'[c] = Over("done")
    BY ZenonT(60), <1>1, <2>1 DEF CallState
  <2> QED BY <1>2, <1>3, <2>2 DEF Early
<1>12. CASE RpcError(c) \/ DropStray(c)
  BY <1>1, <1>2, <1>3, <1>4, <1>12 DEF RpcError, DropStray
<1>13. CASE Abandon(c)
  BY <1>1, <1>2, <1>3, <1>6, <1>13 DEF Abandon, CallState
<1> QED
  BY <1>6, <1>7, <1>8, <1>9, <1>10, <1>11, <1>12, <1>13 DEF CallStep

LEMMA UnmadeStart ==
    ASSUME TypeOK, Refs, Unmade, Start
    PROVE  Unmade'
<1>1. call \in [Call -> CallState]
  BY DEF TypeOK
<1>2. obj' = obj
  BY DEF Start, Allocate, Grant, ClientWrite, ClientCommit, StartRenew, StartFree,
     PickForMigration, ResolveFor
<1> SUFFICES ASSUME NEW d \in Obj, call'[d].pc \in Early
             PROVE  call[d].pc \in Early
  BY <1>2 DEF Unmade, Exists
<1>3. d \in Call /\ d \notin Renewal /\ d \notin Release
  BY ConstantsAssumption DEF Obj, Call
<1>4. CASE \E n \in Node : Allocate(n)
  BY <1>1, <1>3, <1>4 DEF Allocate, CallState, Early
<1>5. CASE Grant
  BY <1>1, <1>3, <1>5 DEF Grant, CallState, Early
<1>6. CASE ClientWrite \/ ClientCommit
  BY <1>1, <1>3, <1>6 DEF ClientWrite, ClientCommit, ResolveFor, CallState, Early
<1>7. CASE \E c \in Call : StartRenew(c) \/ StartFree(c) \/ PickForMigration(c)
  BY <1>1, <1>3, <1>7
  DEF StartRenew, StartFree, PickForMigration, ResolveFor, CallState, Early
<1> QED BY <1>4, <1>5, <1>6, <1>7 DEF Start

LEMMA UnmadeKept ==
    ASSUME TypeOK, Refs, Unmade, Next
    PROVE  Unmade'
<1>1. call \in [Call -> CallState] /\ obj \in [Obj -> Object]
  BY DEF TypeOK
<1>2. CASE Start
  BY <1>2, UnmadeStart
<1>3. ASSUME NEW c \in Call, CallStep(c) PROVE Unmade'
  <2> SUFFICES ASSUME NEW d \in Obj, call'[d].pc \in Early
               PROVE  ~Exists(d)'
    BY DEF Unmade
  <2>1. call[d].pc \in Early /\ (d = c => ~AllocateLocal(c))
    <3>1. d # c => call'[d] = call[d]
      BY <1>3, CallStepCalm, CallKinds DEF CalmMove
    <3> QED BY <1>3, <3>1, EarlyBefore
  <2>2. obj'[d].node = obj[d].node
    BY <1>3, <2>1, CallCopies
  <2> QED BY <2>1, <2>2 DEF Unmade, Exists
<1>4. CASE Membership
  BY <1>4 DEF Membership, Exchange, ExpirePeer, RefreshCapabilities, AcceptPeer,
     DropGossip, Unmade, Exists
<1>5. ASSUME NEW o \in Obj, Expire(o) PROVE Unmade'
  <2>1. call' = call /\ \A q \in Obj : obj'[q].node = obj[q].node
    BY <1>1, <1>5 DEF Expire, Object
  <2> QED BY <2>1 DEF Unmade, Exists
<1>6. ASSUME NEW n \in Node, Restart(n) PROVE Unmade'
  <2> SUFFICES ASSUME NEW d \in Obj, call'[d].pc \in Early
               PROVE  ~Exists(d)'
    BY DEF Unmade
  <2>1. obj'[d].node \in {None, obj[d].node}
    BY ZenonT(60), <1>1, <1>6 DEF Restart, NoObject, Object
  <2>2. d \in Call /\ call[d] \in CallState
    BY <1>1, CallKinds
  <2>3. \/ call'[d] = Over(Failure(d))
        \/ call'[d].pc \in {call[d].pc, "free"}
    BY <1>6, <2>2 DEF Restart, CallState
  <2>4. call[d].pc \in Early
    BY <2>2, <2>3, FailureKind DEF Early
  <2> QED BY <2>1, <2>4 DEF Unmade, Exists
<1>7. CASE Tick
  <2>1. \A q \in Obj : obj'[q].node = obj[q].node
    BY <1>1, <1>7 DEF Tick, Object
  <2>2. \A q \in Obj : call'[q].pc = call[q].pc
    BY ZenonT(60), <1>1, <1>7, CallKinds DEF Tick, CallState
  <2> QED BY <2>1, <2>2 DEF Unmade, Exists
<1> QED
  BY <1>2, <1>3, <1>4, <1>5, <1>6, <1>7 DEF Next, Work

-----------------------------------------------------------------------------
(* Shapes, and what only ever gets worse *)

(* An entry that has been made keeps its owner's name. *)
LEMMA EntryNamed ==
    ASSUME TypeOK, Refs, Next
    PROVE  \/ table'.owner # None
           \/ table'.owner = table.owner /\ table'.gen = table.gen
<1>1. /\ table \in Handle
      /\ \A c \in Call : call[c].h \in Handle
                           /\ (call[c].pc \notin Quiet => call[c].h.owner # None)
      /\ \A m \in gossip : m.h \in Handle /\ m.node \in Node
                             /\ (m.h # NoHandle => m.h.owner # None)
  BY EntryFields, CallFields DEF Refs, CallNamed, GossipNamed
<1>2. ASSUME NEW t \in Handle, NEW h \in Handle, h.owner # None
      PROVE  Registered(t, h).owner # None
  BY <1>2 DEF Registered, Sealed, Supersedes, Handle
<1>3. CASE Start
  <2>1. CASE Grant
    <3>1. call[Origin].h.owner # None /\ Origin \in Call
      BY <1>1, <2>1, CallKinds DEF Grant, Quiet, Ended
    <3> QED BY <1>1, <1>2, <2>1, <3>1 DEF Grant
  <2>2. CASE ~Grant
    BY <1>3, <2>2
    DEF Start, Allocate, ClientWrite, ClientCommit, StartRenew, StartFree,
        PickForMigration, ResolveFor, leader
  <2> QED BY <2>1, <2>2
<1>4. ASSUME NEW c \in Call, CallStep(c)
      PROVE  \/ table'.owner # None
             \/ table'.owner = table.owner /\ table'.gen = table.gen
  <2>1. CASE Register(c) \/ CompareAndSet(c)
    <3>1. call[c].h.owner # None
      BY <1>1, <2>1 DEF Register, CompareAndSet, Quiet, Ended
    <3> QED BY <1>1, <1>2, <2>1, <3>1 DEF Register, CompareAndSet
  <2>2. CASE ~Register(c) /\ ~CompareAndSet(c)
    BY <1>4, <2>2
    DEF CallStep, leader, AllocateLocal, Arrive, WriteChunks, Commit, Renew,
        FreeCheck, Unmap, Migrate, Publish, DropSource, LockSource, RpcError,
        Abandon, DropStray
  <2> QED BY <2>1, <2>2
<1>5. CASE Membership
  <2>1. ASSUME NEW m \in gossip, AcceptPeer(m)
        PROVE  \/ table'.owner # None
               \/ table'.owner = table.owner /\ table'.gen = table.gen
    <3>1. PICK t \in Handle :
            /\ t.owner = table.owner /\ t.gen = table.gen
            /\ table' = IF m.h = NoHandle THEN t ELSE Registered(t, m.h)
      BY <1>1, <2>1, LoseNodeType DEF AcceptPeer
    <3> QED BY <1>1, <1>2, <3>1
  <2>2. ASSUME NEW n \in Node, ExpirePeer(n)
        PROVE  table'.owner = table.owner /\ table'.gen = table.gen
    BY <1>1, <2>2, LoseNodeType DEF ExpirePeer
  <2> QED
    BY <1>5, <2>1, <2>2
    DEF Membership, Exchange, RefreshCapabilities, DropGossip, leader
<1>6. CASE Tick
  BY <1>1, <1>6, AgedType DEF Tick
<1>7. CASE (\E o \in Obj : Expire(o)) \/ (\E n \in Node : Restart(n))
  BY <1>7 DEF Expire, Restart, leader
<1> QED
  BY <1>3, <1>4, <1>5, <1>6, <1>7 DEF Next, Work

(* A step under one leader is a step of BlockResidency. *)
LEMMA VarsStep ==
    ASSUME FNext, ~TakeOver
    PROVE  Next \/ UNCHANGED vars
<1>1. CASE Serve \/ FTick
  BY <1>1 DEF Serve, FTick, Next
<1>2. ASSUME NEW m \in gossip, HeirHears(m) PROVE Next
  BY <1>2 DEF HeirHears, DropGossip, Next, Work, Membership
<1>3. ASSUME NEW n \in Node, HeirExpires(n) \/ Learn(n) PROVE UNCHANGED vars
  BY <1>3 DEF HeirExpires, Learn, vars
<1>4. ASSUME NEW c \in Obj, Admit(c) PROVE UNCHANGED vars
  BY <1>4 DEF Admit
<1> QED BY <1>1, <1>2, <1>3, <1>4 DEF FNext

LEMMA TakeOverCalls ==
    ASSUME TypeOK, TakeOver
    PROVE  /\ Only(Origin)
           /\ \/ call'[Origin] = [call[Origin] EXCEPT !.live = FALSE]
                 /\ call[Origin].pc = "alloc"
              \/ call'[Origin] = Over("denied")
              \/ call'[Origin] = call[Origin]
<1>1. call \in [Call -> CallState] /\ Origin \in Call /\ call[Origin] \in CallState
  BY CallKinds DEF TypeOK
<1>2. /\ [call[Origin] EXCEPT !.live = FALSE] \in CallState
      /\ Over("denied") \in CallState
  BY <1>1, OverType DEF CallState, Ended
<1>3. /\ \A d \in Call : d # Origin => call'[d] = call[d]
      /\ call'[Origin] = CASE call[Origin].pc = "alloc" ->
                                [call[Origin] EXCEPT !.live = FALSE]
                           [] call[Origin].pc = "grant" -> Over("denied")
                           [] OTHER -> call[Origin]
      /\ call' = [d \in Call |-> call'[d]]
  BY <1>1 DEF TakeOver
<1>4. \/ call'[Origin] = [call[Origin] EXCEPT !.live = FALSE]
         /\ call[Origin].pc = "alloc"
      \/ call'[Origin] = Over("denied")
      \/ call'[Origin] = call[Origin]
  BY <1>3
<1>5. \A d \in Call : call'[d] \in CallState
  BY <1>1, <1>2, <1>3, <1>4
<1>6. call' \in [Call -> CallState]
  BY <1>3, <1>5
<1> QED BY <1>3, <1>4, <1>6 DEF Only

LEMMA TakeOverKept ==
    ASSUME TypeOK, Refs, ChangeOK, TakeOver
    PROVE  TypeOK' /\ Refs'
<1>1. /\ Only(Origin) /\ Origin \in Call /\ call[Origin] \in CallState
      /\ \/ call'[Origin] = [call[Origin] EXCEPT !.live = FALSE]
            /\ call[Origin].pc = "alloc"
         \/ call'[Origin] = Over("denied")
         \/ call'[Origin] = call[Origin]
  BY TakeOverCalls, CallKinds DEF TypeOK
<1>2. TypeOK'
  BY <1>1, LapseType DEF TakeOver, TypeOK, ChangeOK, Only
<1>3. CallFine(Origin)'
  <2>1. CallFine(Origin) /\ obj' = obj
    BY <1>1 DEF Refs, CallFine, TakeOver
  <2>2. CASE call'[Origin] = [call[Origin] EXCEPT !.live = FALSE]
             /\ call[Origin].pc = "alloc"
    <3>1. /\ call'[Origin].pc = "alloc" /\ call'[Origin].h = call[Origin].h
          /\ call'[Origin].pin = call[Origin].pin
          /\ call'[Origin].src = call[Origin].src
      BY <1>1, <2>2 DEF CallState
    <3> QED
      BY <2>1, <2>2, <3>1, CallKinds
      DEF CallFine, CallNamed, CallHolds, CallRole, LocalStep
  <2>3. CASE call'[Origin] = Over("denied")
    <3>1. Over("denied").live
      BY DEF Over, IdleCall
    <3> QED BY <1>1, <2>3, <3>1, OverType, EndedFine DEF Ended
  <2>4. CASE call'[Origin] = call[Origin]
    BY <2>1, <2>4 DEF CallFine, CallNamed, CallHolds, CallRole
  <2> QED BY <1>1, <2>2, <2>3, <2>4
<1>4. \A d \in Call : CallFine(d)'
  BY <1>1, <1>3 DEF Only, Refs, CallFine, CallNamed, CallHolds, CallRole, TakeOver
<1>5. MappedExist' /\ GossipNamed'
  BY DEF Refs, MappedExist, GossipNamed, TakeOver
<1> QED BY <1>2, <1>4, <1>5 DEF Refs, CallFine

Base == TypeOK /\ Refs /\ ChangeOK /\ Unmade

LEMMA HeirHearsShape ==
    ASSUME TypeOK, Refs, ChangeOK, NEW m \in gossip, HeirHears(m)
    PROVE  /\ \E t \in Handle :
                /\ t.owner = heir.owner /\ t.gen = heir.gen /\ t.lease = heir.lease
                /\ heir' = IF m.h = NoHandle THEN t ELSE Registered(t, m.h)
           /\ heir' \in Handle
           /\ heir'.owner = None => heir'.gen = 0
<1>1. /\ heir \in Handle /\ (heir.owner = None => heir.gen = 0)
      /\ m.h \in Handle /\ m.node \in Node /\ (m.h # NoHandle => m.h.owner # None)
  BY EntryFields DEF ChangeOK, Refs, GossipNamed
<1>2. PICK t \in Handle :
        /\ t.owner = heir.owner /\ t.gen = heir.gen /\ t.lease = heir.lease
        /\ heir' = IF m.h = NoHandle THEN t ELSE Registered(t, m.h)
  BY <1>1, LoseNodeType DEF HeirHears
<1>3. m.h # NoHandle => Registered(t, m.h).owner # None
  BY <1>1 DEF Registered, Sealed, Supersedes, Handle
<1> QED BY <1>1, <1>2, <1>3, RegisteredType

(* Owners only learn of later terms. *)
LEMMA AdmittedStays ==
    ASSUME ChangeOK, admitted' \subseteq admitted, \A k \in Node :
             knows'[k] \in {0, 1} /\ knows[k] <= knows'[k]
    PROVE  AdmittedOK'
<1> SUFFICES ASSUME NEW a \in admitted PROVE a[3] <= knows'[a[2]]
  BY DEF ChangeOK, AdmittedOK
<1>1. a[2] \in Node /\ a[3] \in {0, 1} /\ a[3] <= knows[a[2]]
  BY DEF ChangeOK, AdmittedOK
<1>2. knows[a[2]] \in {0, 1}
  BY <1>1 DEF ChangeOK
<1> QED BY <1>1, <1>2

LEMMA AdmitKept ==
    ASSUME TypeOK, Refs, ChangeOK, NEW c \in Obj, Admit(c)
    PROVE  AdmittedOK'
<1>1. c \in Call /\ call[c] \in CallState /\ CallNamed(c)
  BY CallKinds DEF TypeOK, Refs, Obj, Call
<1>2. call[c].pc = "alloc" /\ call[c].h.owner \in Node
  BY <1>1, CallFields DEF Admit, CallNamed, Quiet, Ended
<1>3. issued[c] = knows[call[c].h.owner] /\ knows[call[c].h.owner] \in {0, 1}
  BY <1>2 DEF Admit, ChangeOK
<1> DEFINE a == <<c, call[c].h.owner, issued[c]>>
<1>4. a \in Call \X Node \X {0, 1} /\ a[3] <= knows[a[2]]
  BY <1>1, <1>2, <1>3
<1>5. admitted' = admitted \cup {a} /\ knows' = knows
  BY DEF Admit
<1> HIDE DEF a
<1> QED BY <1>4, <1>5 DEF ChangeOK, AdmittedOK

LEMMA ChangeKept ==
    ASSUME Base, TypeOK', Refs', FNext
    PROVE  ChangeOK'
<1>1. ChangeOK /\ TypeOK /\ Refs
  BY DEF Base
<1>2. CASE Serve
  <2>1. /\ term' = term /\ knows' = knows /\ heir' = heir /\ heirPeer' = heirPeer
        /\ issued' = [c \in Call |-> Issued(c)]
    BY <1>2 DEF Serve
  <2>2. ASSUME NEW c \in Migration PROVE issued'[c] \in {issued[c], term}
    <3>1. c \in Call /\ c # Origin /\ call'[c].pc \in Quiet \cup Steps(c)
      BY <1>1, CallKinds DEF Refs, CallRole
    <3>2. call'[c].pc # "register"
      BY <2>2, <3>1, StepsOf DEF Quiet, Ended
    <3> QED BY <2>1, <3>1, <3>2 DEF Issued
  <2>3. table'.owner = None => table'.gen = 0
    BY <1>1, <1>2, EntryNamed DEF Serve, Next, ChangeOK
  <2>4. AdmittedOK'
    <3>1. admitted' \subseteq admitted
      BY <1>2 DEF Serve
    <3>2. \A k \in Node : knows'[k] \in {0, 1} /\ knows[k] <= knows'[k]
      BY <1>1, <2>1 DEF ChangeOK
    <3> QED BY <1>1, <3>1, <3>2, AdmittedStays
  <2> QED BY <1>1, <2>1, <2>2, <2>3, <2>4 DEF ChangeOK
<1>3. CASE FTick
  <2>1. table'.owner = None => table'.gen = 0
    BY <1>1, <1>3, EntryNamed DEF FTick, Next, ChangeOK
  <2>2. AdmittedOK'
    BY <1>1, <1>3 DEF FTick, ChangeOK, AdmittedOK
  <2> QED BY <1>1, <1>3, <2>1, <2>2, AgedType DEF FTick, ChangeOK
<1>4. ASSUME NEW m \in gossip, HeirHears(m) PROVE ChangeOK'
  <2>1. m.node \in Node /\ m.inc \in Nat
    BY <1>1, EntryFields
  <2>2. heirPeer' \in [Node -> Nat]
    BY <1>1, <1>4, <2>1 DEF HeirHears, ChangeOK
  <2>3. UNCHANGED <<term, knows, issued, table, admitted>>
    BY <1>4 DEF HeirHears, leader
  <2>4. AdmittedOK'
    BY <1>1, <2>3 DEF ChangeOK, AdmittedOK
  <2> QED BY <1>1, <1>4, <2>2, <2>3, <2>4, HeirHearsShape DEF ChangeOK
<1>5. ASSUME NEW n \in Node, HeirExpires(n) PROVE ChangeOK'
  <2>1. heirPeer' \in [Node -> Nat]
    BY <1>1, <1>5 DEF HeirExpires, ChangeOK
  <2>2. /\ UNCHANGED <<term, knows, issued, table, admitted>>
        /\ heir' = LoseNode(heir, n)
    BY <1>5 DEF HeirExpires, vars, leader
  <2>3. AdmittedOK'
    BY <1>1, <2>2 DEF ChangeOK, AdmittedOK
  <2> QED BY <1>1, <2>1, <2>2, <2>3, LoseNodeType DEF ChangeOK
<1>6. ASSUME NEW n \in Node, Learn(n) PROVE ChangeOK'
  <2>1. UNCHANGED <<term, issued, table, heir, heirPeer, admitted>>
        /\ knows' = [knows EXCEPT ![n] = term]
    BY <1>6 DEF Learn, vars, leader
  <2>2. \A k \in Node : knows'[k] \in {0, 1} /\ knows[k] <= knows'[k]
    BY <1>1, <2>1 DEF ChangeOK
  <2>3. AdmittedOK'
    BY <1>1, <2>1, <2>2, AdmittedStays
  <2> QED BY <1>1, <2>1, <2>3 DEF ChangeOK
<1>7. CASE TakeOver
  <2>1. /\ term = 0 /\ term' = 1 /\ table' = heir /\ heir' = NoHandle
        /\ knows' = [n \in Node |-> IF n = Heir THEN 1 ELSE knows[n]]
        /\ issued' = issued /\ heirPeer' = heirPeer /\ admitted' = admitted
    BY <1>7 DEF TakeOver
  <2>2. \A k \in Node : knows'[k] \in {0, 1} /\ knows[k] <= knows'[k]
    BY <1>1, <2>1 DEF ChangeOK
  <2>3. AdmittedOK'
    BY <1>1, <2>1, <2>2, AdmittedStays
  <2>4. knows' \in [Node -> {0, 1}] /\ \A k \in Node : knows'[k] <= term'
    BY <2>1, <2>2
  <2> QED BY <1>1, <2>1, <2>3, <2>4, NoHandleType DEF ChangeOK, NoHandle
<1>8. ASSUME NEW c \in Obj, Admit(c) PROVE ChangeOK'
  <2>1. UNCHANGED <<term, knows, issued, heir, heirPeer, table>>
    BY <1>8 DEF Admit, vars, leader
  <2>2. AdmittedOK'
    BY <1>1, <1>8, AdmitKept
  <2> QED BY <1>1, <2>1, <2>2 DEF ChangeOK
<1> QED
  BY <1>2, <1>3, <1>4, <1>5, <1>6, <1>7, <1>8 DEF FNext

LEMMA BaseKept ==
    ASSUME Base, [FNext]_fvars
    PROVE  Base'
<1>1. CASE UNCHANGED fvars
  BY <1>1 DEF fvars, vars, leader, change, Base, TypeOK, Refs, MappedExist, CallNamed,
     CallHolds, CallRole, GossipNamed, ChangeOK, AdmittedOK, Unmade, Exists
<1>2. CASE FNext /\ ~TakeOver
  <2>1. Next \/ UNCHANGED vars
    BY <1>2, VarsStep
  <2>2. TypeOK' /\ Refs'
    BY <2>1, NextKept DEF Base
  <2>3. Unmade'
    <3>1. CASE Next
      BY <3>1, UnmadeKept DEF Base
    <3>2. CASE UNCHANGED vars
      BY <3>2 DEF vars, Base, Unmade, Exists
    <3> QED BY <2>1, <3>1, <3>2
  <2> QED BY <1>2, <2>2, <2>3, ChangeKept DEF Base
<1>3. CASE TakeOver
  <2>1. TypeOK' /\ Refs'
    BY <1>3, TakeOverKept DEF Base
  <2>2. Unmade'
    <3>1. obj' = obj /\ \A d \in Obj : d # Origin => call'[d].pc = call[d].pc
      BY <1>3, TakeOverCalls, CallKinds DEF TakeOver, Only, Base
    <3>2. call[Origin] \in CallState
      BY CallKinds DEF Base, TypeOK
    <3>3. call'[Origin].pc \in Early => call[Origin].pc \in Early
      BY <1>3, <3>2, TakeOverCalls, OverType DEF Base, CallState, Ended, Early
    <3> QED BY <3>1, <3>3 DEF Unmade, Exists, Base
  <2> QED BY <1>3, <2>1, <2>2, ChangeKept DEF Base, FNext
<1> QED BY <1>1, <1>2, <1>3

LEMMA RestartMovesInc ==
    ASSUME TypeOK, NEW n \in Node, Restart(n)
    PROVE  inc' # inc
<1>1. inc' = [inc EXCEPT ![n] = @ + 1] /\ inc \in [Node -> Nat \ {0}]
  BY DEF Restart, TypeOK
<1>2. inc'[n] = inc[n] + 1 /\ inc[n] \in Nat
  BY <1>1
<1> QED BY <1>2

(* What a lease that has run out, a restart, a Free or a request that met  *)
(* another copy has broken stays broken.                                   *)
LEMMA UnbrokenBefore ==
    ASSUME Base, FNext, Unbroken'
    PROVE  /\ Unbroken
           /\ \A o \in Obj : ~Expire(o)
           /\ \A n \in Node : ~Restart(n)
<1>1. TypeOK /\ Refs /\ Unmade
  BY DEF Base
<1>2. CASE TakeOver
  <2>1. UNCHANGED <<inc, obj, crossed>>
    BY <1>2 DEF TakeOver
  <2>2. \A f \in Release : call'[f] = call[f]
    BY <1>1, <1>2, TakeOverCalls, ConstantsAssumption DEF Only, Call
  <2>3. Unbroken
    BY <2>1, <2>2 DEF Unbroken, NoRestart, Exists
  <2>4. \A o \in Obj : ~Expire(o)
    BY <1>1, <2>3 DEF Expire, Unbroken, Refs, MappedExist, Exists
  <2>5. ASSUME NEW n \in Node, Restart(n) PROVE FALSE
    BY <1>1, <2>1, <2>5, RestartMovesInc
  <2> QED BY <2>3, <2>4, <2>5
<1>3. CASE UNCHANGED vars
  <2>1. Unbroken
    BY <1>3 DEF vars, Unbroken, NoRestart, Exists
  <2>2. \A o \in Obj : ~Expire(o)
    BY <1>1, <2>1 DEF Expire, Unbroken, Refs, MappedExist, Exists
  <2>3. ASSUME NEW n \in Node, Restart(n) PROVE FALSE
    BY <1>1, <1>3, <2>3, RestartMovesInc DEF vars
  <2> QED BY <2>1, <2>2, <2>3
<1>4. CASE Next
  <2>1. NoRestart /\ \A k \in Node : ~Restart(k)
    BY <1>1, <1>4, NoRestartBefore DEF Unbroken
  <2>2. \A f \in Release : call[f].pc = "idle"
    BY <1>1, <1>4, CallsCalm DEF Unbroken, Call
  <2>3. ~crossed
    <3>1. crossed => crossed'
      BY ZenonT(60), <1>4
      DEF Next, Work, Start, CallStep, Membership, Allocate, Grant, ClientWrite,
          ClientCommit, StartRenew, StartFree, PickForMigration, ResolveFor,
          AllocateLocal, Arrive, WriteChunks, Commit, Register, Renew, FreeCheck,
          Unmap, Expire, Migrate, LockSource, CompareAndSet, Publish, DropSource,
          RpcError, Abandon, DropStray, Restart, Exchange, AcceptPeer, DropGossip,
          ExpirePeer, RefreshCapabilities, Tick
    <3> QED BY <3>1 DEF Unbroken
  <2>4. ASSUME NEW o \in Obj, Exists(o)
        PROVE  Exists(o)' /\ (obj'[o].lease > 0 => obj[o].lease > 0)
    <3>1. obj \in [Obj -> Object] /\ obj[o].lease \in Nat
      BY <1>1, CopyFields DEF TypeOK
    <3>2. ASSUME NEW c \in Call, CallStep(c)
          PROVE  Exists(o)' /\ (obj'[o].lease > 0 => obj[o].lease > 0)
      <4>1. ~(o = c /\ AllocateLocal(c))
        BY <1>1, <2>4 DEF Unmade, AllocateLocal, Early
      <4> QED BY <1>1, <2>4, <3>2, <4>1, CallCopies DEF Exists
    <3>3. CASE Start \/ Membership
      BY <2>4, <3>3
      DEF Start, Allocate, Grant, ClientWrite, ClientCommit, StartRenew, StartFree,
          PickForMigration, ResolveFor, Membership, Exchange, ExpirePeer,
          RefreshCapabilities, AcceptPeer, DropGossip, Exists
    <3>4. ASSUME NEW q \in Obj, Expire(q)
          PROVE  Exists(o)' /\ (obj'[o].lease > 0 => obj[o].lease > 0)
      BY <2>4, <3>1, <3>4 DEF Expire, Exists, Object
    <3>5. CASE Tick
      <4>1. obj'[o].node = obj[o].node /\ obj'[o].lease = Aged(obj[o].lease)
        BY <3>1, <3>5 DEF Tick, Object
      <4> QED BY <2>4, <3>1, <4>1 DEF Aged, Exists
    <3> QED BY <1>4, <2>1, <3>2, <3>3, <3>4, <3>5 DEF Next, Work
  <2>5. Unbroken
    BY <2>1, <2>2, <2>3, <2>4 DEF Unbroken
  <2>6. \A o \in Obj : ~Expire(o)
    BY <1>1, <2>5 DEF Expire, Unbroken, Refs, MappedExist, Exists
  <2> QED BY <2>1, <2>5, <2>6
<1> QED BY <1>2, <1>3, <1>4, VarsStep

-----------------------------------------------------------------------------
(* Steps that make, commit, publish and remove no copy *)

LEMMA KnownRegistered ==
    ASSUME NEW t \in Handle, NEW h \in Handle, Known(t), Known(h)
    PROVE  Known(Registered(t, h))
<1>1. /\ Registered(t, h).lease # Tombstone
      /\ \/ Registered(t, h).gen = t.gen /\ Registered(t, h).owner = t.owner
         \/ Registered(t, h).gen = h.gen /\ Registered(t, h).owner = h.owner
  <2>1. t.lease # Tombstone /\ h.lease # Tombstone
    BY DEF Known
  <2>2. Larger(t.lease, h.lease) # Tombstone
    BY <2>1 DEF Larger
  <2> QED BY <2>1, <2>2 DEF Registered, Sealed, Supersedes, Handle
<1> QED BY <1>1 DEF Known

LEMMA EntriesStay ==
    ASSUME TypeOK, TypeOK', ChangeOK', NEW c, CopyStep(c), Saves, Known(table'),
           Known(heir'), \A m \in gossip' : Known(m.h)
    PROVE  EntriesRight'
<1>1. ASSUME NEW h \in Handle, Known(h) PROVE Known(h)'
  BY <1>1, KnownStays DEF Known
<1>2. Known(table)'
  <2>1. PICK h \in Handle : h = table'
    BY DEF TypeOK
  <2>2. Known(h)'
    BY <1>1, <2>1
  <2> QED BY <2>1, <2>2
<1>3. Known(heir)'
  <2>1. PICK h \in Handle : h = heir'
    BY DEF ChangeOK
  <2>2. Known(h)'
    BY <1>1, <2>1
  <2> QED BY <2>1, <2>2
<1>4. ASSUME NEW m \in gossip' PROVE Known(m.h)'
  <2>1. PICK h \in Handle : h = m.h
    BY DEF TypeOK
  <2>2. Known(h)'
    BY <1>1, <2>1
  <2> QED BY <2>1, <2>2
<1> QED BY <1>2, <1>3, <1>4 DEF EntriesRight

(* The step of c changes no copy in what the invariant says. *)
StillCopies == \A o \in Obj : Same(o) /\ obj'[o].mapped = obj[o].mapped

(* What the step of a call says of the call itself then. *)
MoveRight(c) ==
    /\ CallRight(c)'
    /\ c = Origin => OriginRight'
    /\ c \in Migration => MigrationRight(c)'
    /\ c \in Migration /\ Exists(c) /\ Spoken(c) => Spoken(c)'

LEMMA StillStep ==
    ASSUME TypeOK, TypeOK', Refs, NEW c, StillCopies,
           \A d \in Call : d # c => CallSame(d),
           c \in Migration /\ Exists(c) /\ Spoken(c) => Spoken(c)'
    PROVE  /\ CopyStep(c) /\ Saves
           /\ \A o \in Obj : Exists(o) /\ Spoken(o) => Spoken(o)'
<1>1. CopyStep(c)
  BY DEF StillCopies, CopyStep
<1>2. \A o \in Obj : Exists(o) /\ Spoken(o) => Spoken(o)'
  <2> SUFFICES ASSUME NEW o \in Obj, Exists(o), Spoken(o) PROVE Spoken(o)'
    OBVIOUS
  <2>1. CASE o # c
    BY <1>1, <2>1, SpokenSame, CallKinds
  <2>2. CASE o = c
    BY <2>2 DEF Spoken
  <2> QED BY <2>1, <2>2
<1> QED BY <1>1, <1>2, StillSaves DEF StillCopies, Refs

LEMMA StillRight ==
    ASSUME Base, Base', Right, NEW c, StillCopies, TermStep(c),
           \A d \in Call : d # c => CallSame(d), c \in Call => MoveRight(c),
           Known(table'), Known(heir'), \A m \in gossip' : Known(m.h)
    PROVE  Right'
<1>1. TypeOK /\ TypeOK' /\ Refs /\ ChangeOK /\ ChangeOK' /\ Unmade
  BY DEF Base
<1>2. /\ CopyStep(c) /\ Saves
      /\ \A o \in Obj : Exists(o) /\ Spoken(o) => Spoken(o)'
  BY <1>1, StillStep, CallKinds DEF MoveRight
<1>3. c \in Call => SelfRight(c)'
  <2>1. c \in Obj => CopyRight(c)'
    BY <1>1, <1>2, CopyAgain DEF StillCopies
  <2> QED BY <2>1 DEF SelfRight, MoveRight
<1>4. MappedOnce'
  BY DEF StillCopies, Same, MappedOnce, Right
<1>5. EntriesRight'
  BY <1>1, <1>2, EntriesStay
<1> QED BY <1>1, <1>2, <1>3, <1>4, <1>5, RightAgain

(* The leadership as one of its calls goes on. *)
LEMMA ServeTerm ==
    ASSUME Base, Base', Serve, NEW c \in Call,
           \A d \in Call : d # c => call'[d] = call[d],
           c \in Migration /\ call'[c].pc = "picked"
             => call[c].pc \in {"idle", "picked"}
    PROVE  /\ TermStep(c) /\ \A d \in Call : d # c => CallSame(d)
           /\ term' = term /\ knows' = knows /\ heir' = heir
           /\ table.gen <= table'.gen
           /\ c \in Migration /\ call'[c].pc # "picked" => issued'[c] = issued[c]
           /\ c \in Migration => issued'[c] \in {issued[c], term}
<1>1. /\ TypeOK /\ TypeOK' /\ Refs /\ Refs' /\ ChangeOK /\ Unmade
      /\ term' = term /\ knows' = knows /\ heir' = heir
      /\ issued' = [d \in Call |-> Issued(d)] /\ Next
  BY DEF Base, Serve, Next
<1>2. table.gen <= table'.gen
  <2>1. /\ table.gen \in Nat /\ table'.gen \in Nat
        /\ table.owner = None => table.gen = 0
    BY <1>1, HandleFields DEF ChangeOK, TypeOK
  <2>2. table.owner # None => table'.gen >= table.gen
    BY <1>1, NextForward DEF Forward
  <2> QED BY <2>1, <2>2
<1>3. ASSUME NEW d \in Migration
      PROVE  /\ d # c => issued'[d] = issued[d]
             /\ d = c /\ call'[d].pc # "picked" => issued'[d] = issued[d]
             /\ issued'[d] \in {issued[d], term}
             /\ issued'[d] = issued[d] \/ (d = c /\ ~Exists(d))
  <2>1. d \in Call /\ d \in Obj /\ d # Origin /\ call'[d].pc \in Quiet \cup Steps(d)
    BY <1>1, CallKinds DEF Refs, CallRole
  <2>2. call'[d].pc # "register"
    BY <1>3, <2>1, StepsOf DEF Quiet, Ended
  <2>3. d # c => issued'[d] = issued[d]
    BY <1>1, <2>1 DEF Issued
  <2>4. issued'[d] = issued[d] \/ (issued'[d] = term /\ call'[d].pc = "picked"
                                   /\ call[d].pc # "picked")
    BY <1>1, <2>1, <2>2 DEF Issued
  <2>5. call[d].pc = "idle" => ~Exists(d)
    BY <1>1, <2>1 DEF Unmade, Early
  <2> QED BY <2>3, <2>4, <2>5
<1>4. \A k \in Node : knows[k] <= knows'[k]
  BY <1>1 DEF ChangeOK
<1>5. TermStep(c)
  BY <1>1, <1>2, <1>3, <1>4 DEF TermStep
<1>6. \A d \in Call : d # c => CallSame(d)
  BY DEF CallSame
<1> QED BY <1>1, <1>2, <1>3, <1>5, <1>6

LEMMA MoveEnded ==
    ASSUME NEW c \in Call, call'[c].pc \in Ended, call'[c].pin = None,
           call'[c].src = None, call'[c].h = NoHandle,
           c = Origin /\ call'[c].pc = "done" => Committed(Origin)'
    PROVE  MoveRight(c)
<1>1. CallRight(c)'
  <2>1. NoHandle.lease # Tombstone
    BY DEF NoHandle, Tombstone
  <2>2. call'[c].pc \notin {"renew", "register"}
    BY DEF Ended
  <2> QED BY <2>1, <2>2 DEF CallRight
<1>2. c = Origin => OriginRight'
  BY DEF OriginRight, Ended
<1>3. c \in Migration => MigrationRight(c)'
  <2>1. ~Leaves(c)' /\ ~Awaited(c)'
    BY DEF Leaves, Awaited, Ended
  <2>2. Built(c)'
    BY <2>1 DEF Built, Ended
  <2>3. Sourced(c)'
    <3>1. /\ call'[c].pc \in Quiet \cup {"picked"}
          /\ call'[c].pc \notin {"alloc", "write", "commit", "cas"}
      BY DEF Quiet, Ended
    <3> QED BY <3>1, CallKinds DEF Sourced
  <2>4. Answered(c)'
    BY <2>1 DEF Answered, Ended
  <2> QED BY <2>2, <2>3, <2>4 DEF MigrationRight
<1>4. Spoken(c)'
  BY DEF Spoken, Discarding, Ended
<1> QED BY <1>1, <1>2, <1>3, <1>4 DEF MoveRight

(* What c's source keeps when c makes, commits or publishes its own copy. *)
LEMMA SourceKept ==
    ASSUME TypeOK, Refs, NEW c \in Migration, CopyStep(c), Right,
           call[c].src # None
    PROVE  /\ call[c].src \in Obj /\ Exists(call[c].src) /\ None \notin Migration
           /\ obj[call[c].src].gen \in Nat
           /\ obj'[call[c].src].node = obj[call[c].src].node
           /\ obj'[call[c].src].gen = obj[call[c].src].gen
           /\ Committed(call[c].src) =>
                obj'[call[c].src].node # None /\ obj'[call[c].src].state = "Ready"
           /\ Exists(c) => obj'[c].node = obj[c].node /\ obj'[c].gen = obj[c].gen
           /\ Exists(c) /\ Committed(c) => Committed(c)'
           /\ Exists(c) /\ obj[c].published => obj'[c].published
<1>1. c \in Call /\ c \in Obj /\ None \notin Migration
  BY CallKinds
<1> QED BY <1>1, SourceStays DEF CopyStep, Same, Committed, Exists

LEMMA MoveDiscard ==
    ASSUME TypeOK, TypeOK', Refs, NEW c \in Migration, CopyStep(c), Right,
           call[c].pc \in {"write", "commit"}, call'[c].pc = "free",
           call'[c].pin = None, call'[c].src = call[c].src,
           call'[c].prev = call[c].prev, call'[c].h = call[c].h,
           \A d \in Migration : Exists(d) => issued'[d] = issued[d]
    PROVE  MoveRight(c)
<1>1. c \in Call /\ c \in Obj /\ c \notin Renewal /\ c # Origin
  BY ConstantsAssumption DEF Call, Obj
<1>2. Built(c) /\ Sourced(c) /\ CallRight(c)
  BY <1>1 DEF Right, MigrationRight
<1>3. /\ Exists(c) /\ obj[c].node = call[c].h.owner /\ call[c].src # None
      /\ Committed(call[c].src)
      /\ obj[c].gen = obj[call[c].src].gen + 1
      /\ obj[c].node # obj[call[c].src].node
  BY <1>2 DEF Built, Sourced, Quiet, Ended
<1>4. PICK s \in Obj : s = call[c].src /\ s = call'[c].src
  BY <1>1, <1>3, CallFields
<1>5. /\ Exists(s) /\ obj'[s].node = obj[s].node /\ obj'[s].gen = obj[s].gen
      /\ Committed(s)' /\ None \notin Migration
      /\ obj'[c].node = obj[c].node /\ obj'[c].gen = obj[c].gen
  BY <1>3, <1>4, SourceKept DEF Committed, Exists
<1>6. ~Leaves(c)'
  BY <1>3, <1>4, <1>5 DEF Leaves
<1>7. Built(c)'
  BY <1>6 DEF Built
<1>8. Sourced(c)'
  <2>1. s \in Migration => issued'[s] <= issued'[c]
    BY <1>2, <1>3, <1>4, <1>5 DEF Sourced
  <2> QED BY <1>3, <1>4, <1>5, <2>1 DEF Sourced, Exists
<1>9. Answered(c)'
  BY <1>6 DEF Answered, Awaited
<1>10. CallRight(c)'
  BY <1>1, <1>2 DEF CallRight
<1> QED
  BY <1>1, <1>7, <1>8, <1>9, <1>10 DEF MoveRight, MigrationRight, Spoken

(* c waits on, or goes on to a step of which the same is true. *)
LEMMA MoveStay ==
    ASSUME TypeOK, TypeOK', Refs, ChangeOK, NEW c \in Call, c \notin Release,
           StillCopies, CopyStep(c), Saves, Right, term' = term,
           table.gen <= table'.gen,
           \A d \in Migration : issued'[d] = issued[d],
           \/ call'[c].pc = call[c].pc
           \/ c \in Migration /\ call[c].pc = "write" /\ call'[c].pc = "commit"
           \/ c \in Migration /\ call[c].pc = "free" /\ call'[c].pc = "unmap",
           call'[c].src = call[c].src, call'[c].prev = call[c].prev,
           call'[c].h = call[c].h,
           call'[c].pin # None => /\ call'[c].pc \in OwnerStep \cup {"unmap"}
                                  /\ call'[c].pin \in Obj
                                  /\ Exists(call'[c].pin)
                                  /\ obj[call'[c].pin].node = call[c].h.owner
    PROVE  MoveRight(c)
<1>1. CallRight(c) /\ call[c].h \in Handle /\ call'[c].h \in Handle
  BY CallFields DEF Right
<1>2. CallRight(c)'
  <2>1. call'[c].pin # None => obj'[call'[c].pin].node = call'[c].h.owner
    BY DEF CopyStep, Same
  <2>2. ASSUME c \in Renewal, call'[c].pc \in {"renew", "register"}
        PROVE  Known(call[c].h)'
    <3>1. PICK h \in Handle : h = call[c].h /\ h = call'[c].h
      BY <1>1
    <3>2. Known(h)
      BY <1>1, <2>2, <3>1, ConstantsAssumption DEF CallRight
    <3>3. Known(h)'
      BY <3>2, KnownStays DEF Known
    <3> QED BY <3>1, <3>3
  <2> QED BY <1>1, <2>1, <2>2 DEF CallRight
<1>3. ASSUME c = Origin PROVE OriginRight'
  <2>1. call'[Origin].pc = call[Origin].pc /\ call'[Origin].h = call[Origin].h
    BY <1>3, CallKinds
  <2>2. Committed(Origin) => Committed(Origin)'
    BY <1>3, CallKinds DEF CopyStep, Same, Committed, Exists
  <2> QED BY <2>1, <2>2 DEF Right, OriginRight
<1>4. ASSUME c \in Migration PROVE MigrationRight(c)' /\ (Exists(c) /\ Spoken(c) => Spoken(c)')
  <2>1. c \in Obj /\ Built(c) /\ Sourced(c) /\ Answered(c)
    BY <1>4, CallKinds DEF Right, MigrationRight
  <2>2. PICK s \in Obj \cup {None} : s = call[c].src /\ s = call'[c].src
    BY CallFields
  <2>3. s # None =>
          /\ s \in Obj /\ Exists(s) /\ obj[s].gen \in Nat
          /\ obj'[s].node = obj[s].node /\ obj'[s].gen = obj[s].gen
          /\ Committed(s) => Committed(s)'
    BY <1>4, <2>2, SourceKept DEF Committed, Exists
  <2>4. /\ Exists(c) => /\ Exists(c)' /\ obj'[c].node = obj[c].node
                        /\ obj'[c].gen = obj[c].gen
                        /\ obj[c].published => obj'[c].published
        /\ Committed(c) => Committed(c)'
    BY <2>1 DEF CopyStep, Same, Committed, Exists
  <2>5. Leaves(c)' <=> Leaves(c)
    BY <2>2, <2>3 DEF Leaves
  <2>6. Exists(c)' <=> Exists(c)
    BY <2>1 DEF StillCopies, Same, Exists
  <2>7. Built(c)'
    <3>1. call'[c].pc = call[c].pc \/
            (call[c].pc = "write" /\ call'[c].pc = "commit") \/
            (call[c].pc = "free" /\ call'[c].pc = "unmap")
      OBVIOUS
    <3>2. /\ call'[c].pc \in {"write", "commit", "cas", "publish", "drop"} => Exists(c)
          /\ call'[c].pc \in {"cas", "publish", "drop"} => Committed(c)
          /\ call'[c].pc \in {"write", "commit", "cas", "publish"} =>
               obj[c].node = call[c].h.owner /\ obj[c].gen = call[c].h.gen
          /\ call'[c].pc = "drop" \/ Leaves(c) => obj[c].published /\ Committed(c)
      BY <2>1, <3>1 DEF Built
    <3>3. {"write", "commit", "cas", "publish"}
            \subseteq {"write", "commit", "cas", "publish", "drop"}
      OBVIOUS
    <3> QED BY <2>4, <2>5, <3>2, <3>3 DEF Built, Committed
  <2>8. Sourced(c)'
    <3>1. /\ call'[c].pc \notin Quiet \cup {"picked"} => s # None
          /\ call'[c].pc = "alloc" => /\ call[c].h.gen = obj[s].gen + 1
                                      /\ call[c].h.owner # obj[s].node
          /\ call'[c].pc \in {"alloc", "write", "commit", "cas"}
               => call[c].prev = obj[s].gen
          /\ call'[c].pc \notin Quiet \cup {"picked", "lock"} => Committed(s)
          /\ s # None /\ Exists(c) => obj[c].gen = obj[s].gen + 1
                                      /\ obj[c].node # obj[s].node
          /\ s \in Migration => issued[s] <= issued[c]
      BY <2>1, <2>2 DEF Sourced, Quiet, Ended
    <3>2. {"alloc", "write", "commit", "cas"} \cap (Quiet \cup {"picked"}) = {}
      BY DEF Quiet, Ended
    <3>3. s \in Migration => issued'[s] <= issued'[c]
      BY <1>4, <3>1
    <3>4. /\ call'[c].pc \notin Quiet \cup {"picked"} => s # None
          /\ call'[c].pc = "alloc" => /\ call'[c].h.gen = obj'[s].gen + 1
                                      /\ call'[c].h.owner # obj'[s].node
          /\ call'[c].pc \in {"alloc", "write", "commit", "cas"}
               => call'[c].prev = obj'[s].gen
          /\ call'[c].pc \notin Quiet \cup {"picked", "lock"} => Committed(s)'
          /\ s # None /\ Exists(c)' => obj'[c].gen = obj'[s].gen + 1
                                       /\ obj'[c].node # obj'[s].node
      BY <2>3, <2>4, <2>6, <3>1, <3>2
    <3> QED BY <2>2, <3>3, <3>4 DEF Sourced
  <2>9. Answered(c)'
    <3>0. /\ table.gen \in Nat /\ table'.gen \in Nat /\ call[c].prev \in Nat
          /\ obj[c].gen \in Nat
      BY <2>1, CallFields, HandleFields, CopyFields DEF TypeOK
    <3>1. ASSUME Awaited(c)' PROVE obj'[c].mapped
      <4>1. Awaited(c)
        BY <1>4, <3>0, <3>1 DEF Awaited
      <4> QED BY <2>1, <4>1 DEF Answered, StillCopies
    <3>2. ASSUME call'[c].pc = "publish" PROVE obj'[c].mapped \/ Carried(obj[c].gen)'
      <4>1. PICK g \in Nat : g = obj[c].gen /\ g = obj'[c].gen
        BY <2>1, <3>0 DEF StillCopies, Same
      <4>2. obj[c].mapped \/ Carried(g)
        BY <2>1, <3>2, <4>1 DEF Answered
      <4>3. obj'[c].mapped \/ Carried(g)'
        BY <2>1, <4>2 DEF Saves, StillCopies
      <4> QED BY <4>1, <4>3
    <3>3. ASSUME call'[c].pc \in {"publish", "drop"} \/ Leaves(c)', issued'[c] = term'
          PROVE  obj'[s].gen < table'.gen
      <4>1. obj[s].gen < table.gen
        BY <1>4, <2>1, <2>2, <2>5, <3>3 DEF Answered
      <4>2. s # None
        <5>1. call[c].pc \notin Quiet \cup {"picked"}
          BY <2>5, <3>3 DEF Leaves, Quiet, Ended
        <5> QED BY <2>1, <2>2, <5>1 DEF Sourced
      <4> QED BY <2>3, <3>0, <4>1, <4>2
    <3> QED BY <2>2, <3>1, <3>2, <3>3 DEF Answered
  <2>10. Spoken(c) => Spoken(c)'
    BY <1>4, <2>5 DEF Spoken, Discarding
  <2> QED BY <2>7, <2>8, <2>9, <2>10 DEF MigrationRight
<1> QED BY <1>2, <1>3, <1>4 DEF MoveRight

-----------------------------------------------------------------------------
(* The steps of a call *)

LEMMA NeverPicked ==
    ASSUME TypeOK, Refs, NEW c \in Call, CallStep(c)
    PROVE  call'[c].pc # "picked"
<1> SUFFICES ASSUME call'[c].pc = "picked" PROVE FALSE
  OBVIOUS
<1>1. call \in [Call -> CallState] /\ call[c] \in CallState
  BY DEF TypeOK
<1>2. call[c].pc \in Early /\ ~AllocateLocal(c)
  BY EarlyBefore DEF Early
<1>3. /\ Over(Failure(c)).pc # "picked" /\ ~Discards(c)
  BY <1>2, FailureKind DEF Discards, Early
<1>4. ~Fails(c)
  BY <1>1, <1>3 DEF Fails
<1>5. ~Migrate(c) /\ \A dst \in Node : ~LockSource(c, dst)
  BY <1>1, <1>4 DEF Migrate, LockSource, CallState
<1>6. ~RpcError(c) /\ ~DropStray(c)
  BY <1>1, <1>3, <1>4 DEF RpcError, DropStray
<1>7. ~Abandon(c)
  BY <1>1, <1>3 DEF Abandon, CallState, LocalStep
<1> QED
  BY <1>2, <1>5, <1>6, <1>7
  DEF CallStep, Early, Arrive, WriteChunks, Commit, Register, Renew, FreeCheck, Unmap,
      CompareAndSet, Publish, DropSource, Pinned, OwnerStep

(* What the steps of a call have in common. *)
LEMMA CallSetup ==
    ASSUME Base, Base', Unbroken, Serve, NEW c \in Call, CallStep(c)
    PROVE  /\ TypeOK /\ TypeOK' /\ Refs /\ ChangeOK /\ ChangeOK' /\ Unmade
           /\ c \notin Release /\ TermStep(c)
           /\ \A d \in Call : d # c => CallSame(d)
           /\ term' = term /\ knows' = knows /\ heir' = heir /\ gossip' = gossip
           /\ table.gen <= table'.gen
           /\ \A d \in Migration : issued'[d] = issued[d]
           /\ Valid(c)
<1>1. TypeOK /\ TypeOK' /\ Refs /\ ChangeOK /\ ChangeOK' /\ Unmade
  BY DEF Base
<1>2. c \notin Release
  BY <1>1, StepUnderWay DEF Unbroken
<1>3. \A d \in Call : d # c => call'[d] = call[d]
  BY <1>1, CallStepCalm DEF CalmMove
<1>4. call'[c].pc # "picked"
  BY <1>1, NeverPicked
<1>5. gossip' = gossip
  BY DEF CallStep, AllocateLocal, Arrive, WriteChunks, Commit, Register, Renew,
     FreeCheck, Unmap, Migrate, CompareAndSet, Publish, DropSource, LockSource,
     RpcError, Abandon, DropStray
<1>6. /\ TermStep(c) /\ \A d \in Call : d # c => CallSame(d)
      /\ term' = term /\ knows' = knows /\ heir' = heir
      /\ table.gen <= table'.gen
      /\ c \in Migration => issued'[c] = issued[c]
  BY <1>3, <1>4, ServeTerm
<1>7. \A d \in Migration : issued'[d] = issued[d]
  BY <1>6 DEF TermStep
<1>8. Valid(c)
  BY DEF Serve
<1> QED BY <1>1, <1>2, <1>5, <1>6, <1>7, <1>8

(* Of a step of c that changes no copy and no entry, what c says of itself *)
(* is all there is to see.                                                 *)
LEMMA MoveStill ==
    ASSUME Base, Base', Unbroken, Right, Serve, NEW c \in Call, CallStep(c),
           StillCopies, MoveRight(c), Known(table')
    PROVE  Right'
<1>1. /\ TermStep(c) /\ \A d \in Call : d # c => CallSame(d)
      /\ heir' = heir /\ gossip' = gossip
  BY CallSetup
<1>2. Known(heir') /\ \A m \in gossip' : Known(m.h)
  BY <1>1 DEF Right, EntriesRight
<1> QED BY <1>1, <1>2, StillRight

LEMMA UnlockedStill ==
    ASSUME TypeOK, NEW c \in Call, obj' = obj \/ obj' = Unlocked(c)
    PROVE  StillCopies
<1>1. obj \in [Obj -> Object]
  BY DEF TypeOK
<1> QED BY <1>1 DEF StillCopies, Same, Unlocked, Object

(* What MoveStay and MoveDiscard ask for. *)
LEMMA StillSetup ==
    ASSUME TypeOK, TypeOK', Refs, NEW c \in Call, StillCopies,
           \A d \in Call : d # c => CallSame(d),
           c \in Migration /\ Exists(c) /\ Spoken(c) => Spoken(c)'
    PROVE  CopyStep(c) /\ Saves
BY StillStep

LEMMA EndsRight ==
    ASSUME Base, Base', Unbroken, Right, Serve, NEW c \in Call, CallStep(c),
           obj' = obj \/ obj' = Unlocked(c), table' = table,
           call'[c].pc \in Ended, call'[c].pin = None,
           call'[c].src = None, call'[c].h = NoHandle,
           c = Origin => call'[c].pc # "done"
    PROVE  Right'
<1>1. MoveRight(c)
  BY MoveEnded
<1>2. StillCopies
  BY UnlockedStill DEF Base
<1> QED BY <1>1, <1>2, MoveStill DEF Right, EntriesRight

LEMMA FailsRight ==
    ASSUME Base, Base', Unbroken, Right, Serve, NEW c \in Call, CallStep(c),
           Fails(c), table' = table
    PROVE  Right'
<1>1. /\ TypeOK /\ TypeOK' /\ Refs /\ call \in [Call -> CallState]
      /\ call[c] \in CallState
  BY DEF Base, TypeOK
<1>2. CASE Discards(c)
  <2>1. call' = [call EXCEPT ![c].pc = "free", ![c].pin = None] /\ obj' = obj
    BY <1>2 DEF Fails
  <2>2. /\ call'[c].pc = "free" /\ call'[c].pin = None
        /\ call'[c].src = call[c].src /\ call'[c].prev = call[c].prev
        /\ call'[c].h = call[c].h
    BY <1>1, <2>1 DEF CallState
  <2>3. c \in Migration /\ call[c].pc \in {"write", "commit"}
    BY <1>2 DEF Discards
  <2>4. StillCopies
    BY <1>1, <2>1, UnlockedStill
  <2>5. CopyStep(c)
    BY <2>4 DEF CopyStep, StillCopies
  <2>6. \A d \in Migration : Exists(d) => issued'[d] = issued[d]
    BY CallSetup
  <2>7. MoveRight(c)
    BY <1>1, <2>2, <2>3, <2>5, <2>6, MoveDiscard
  <2> QED BY <2>4, <2>7, MoveStill DEF Right, EntriesRight
<1>3. CASE ~Discards(c)
  <2>1. call'[c] = Over(Failure(c)) /\ obj' = Unlocked(c)
    BY <1>1, <1>3 DEF Fails
  <2> QED BY <2>1, FailureKind, EndsRight DEF Ended
<1> QED BY <1>2, <1>3

LEMMA StayRight ==
    ASSUME Base, Base', Unbroken, Right, Serve, NEW c \in Call, CallStep(c),
           StillCopies, table' = table,
           \/ call'[c].pc = call[c].pc
           \/ c \in Migration /\ call[c].pc = "write" /\ call'[c].pc = "commit"
           \/ c \in Migration /\ call[c].pc = "free" /\ call'[c].pc = "unmap",
           call'[c].src = call[c].src, call'[c].prev = call[c].prev,
           call'[c].h = call[c].h,
           \/ call'[c].pin = None
           \/ call'[c].pin = call[c].pin
              /\ (call[c].pin # None => call'[c].pc \in OwnerStep \cup {"unmap"})
           \/ /\ call'[c].pin \in Obj /\ call'[c].pc \in OwnerStep
              /\ Exists(call'[c].pin) /\ obj[call'[c].pin].node = call[c].h.owner
    PROVE  Right'
<1>1. /\ TypeOK /\ TypeOK' /\ Refs /\ ChangeOK /\ c \notin Release
      /\ \A d \in Call : d # c => CallSame(d)
      /\ term' = term /\ table.gen <= table'.gen
      /\ \A d \in Migration : issued'[d] = issued[d]
  BY CallSetup
<1>2. ASSUME c \in Migration, Exists(c), Spoken(c) PROVE Spoken(c)'
  <2>1. PICK s \in Obj \cup {None} : s = call[c].src /\ s = call'[c].src
    BY <1>1, CallFields
  <2>2. Leaves(c) => Leaves(c)' \/ call'[c].pc \notin {"free", "unmap"}
    BY <2>1 DEF Leaves, StillCopies, Same
  <2> QED BY <1>2, <2>2 DEF Spoken, Discarding
<1>3. CopyStep(c) /\ Saves
  BY <1>1, <1>2, StillSetup
<1>4. call'[c].pin # None => /\ call'[c].pc \in OwnerStep \cup {"unmap"}
                             /\ call'[c].pin \in Obj
                             /\ Exists(call'[c].pin)
                             /\ obj[call'[c].pin].node = call[c].h.owner
  <2>1. call[c].pin # None => /\ call[c].pin \in Obj /\ Exists(call[c].pin)
                              /\ obj[call[c].pin].node = call[c].h.owner
    BY <1>1, CallFields DEF Refs, CallHolds, Exists, Right, CallRight
  <2> QED BY <2>1
<1>5. MoveRight(c)
  BY <1>1, <1>3, <1>4, MoveStay
<1> QED BY <1>5, MoveStill DEF Right, EntriesRight

LEMMA SameStill ==
    ASSUME obj' = obj
    PROVE  StillCopies
BY DEF StillCopies, Same

LEMMA ArriveRight ==
    ASSUME Base, Base', Unbroken, Right, Serve, NEW c \in Call, Arrive(c)
    PROVE  Right'
<1>1. /\ TypeOK /\ call \in [Call -> CallState] /\ call[c] \in CallState
      /\ CallStep(c) /\ table' = table /\ Refs
  BY DEF Base, TypeOK, CallStep, Arrive, leader
<1>2. CASE Fails(c)
  BY <1>1, <1>2, FailsRight
<1>3. ASSUME NEW o \in MappedAt(call[c].h.owner),
             call' = [call EXCEPT ![c].pin = o], obj' = obj
      PROVE  Right'
  <2>1. o \in Obj /\ obj[o].mapped /\ obj[o].node = call[c].h.owner
    BY DEF MappedAt
  <2>2. Exists(o)
    BY <1>1, <2>1 DEF Refs, MappedExist, Exists
  <2>3. /\ call'[c].pc = call[c].pc /\ call'[c].src = call[c].src
        /\ call'[c].prev = call[c].prev /\ call'[c].h = call[c].h
        /\ call'[c].pin = o /\ call[c].pc \in OwnerStep
    BY <1>1, <1>3 DEF CallState, Arrive
  <2> QED BY <1>1, <1>3, <2>1, <2>2, <2>3, SameStill, StayRight
<1>4. CASE /\ call[c].pc = "free" /\ obj' = obj
           /\ call' = [call EXCEPT ![c].pc = "unmap"]
  <2>1. /\ call[c].pc = "free" /\ call'[c].pc = "unmap"
        /\ call'[c].src = call[c].src /\ call'[c].prev = call[c].prev
        /\ call'[c].h = call[c].h /\ call'[c].pin = None
    BY <1>1, <1>4 DEF CallState, Arrive
  <2>2. c \in Migration
    <3>1. call[c].pc \in Quiet \cup Steps(c) /\ c \notin Release
      BY <1>1, CallSetup DEF Refs, CallRole
    <3> QED BY <1>4, <3>1, StepsOf DEF Quiet, Ended, Call
  <2> QED BY <1>1, <1>4, <2>1, <2>2, SameStill, StayRight
<1> QED BY <1>2, <1>3, <1>4 DEF Arrive

LEMMA FreeCheckRight ==
    ASSUME Base, Base', Unbroken, Right, Serve, NEW c \in Call, FreeCheck(c)
    PROVE  Right'
<1>1. /\ TypeOK /\ call \in [Call -> CallState] /\ call[c] \in CallState
      /\ CallStep(c) /\ table' = table /\ obj' = obj /\ Refs
  BY DEF Base, TypeOK, CallStep, FreeCheck, leader
<1>2. /\ call[c].pc = "free" /\ call'[c].pc = "unmap"
      /\ call'[c].src = call[c].src /\ call'[c].prev = call[c].prev
      /\ call'[c].h = call[c].h /\ call'[c].pin = call[c].pin
  BY <1>1 DEF FreeCheck, Pinned, CallState
<1>3. c \in Migration
  <2>1. call[c].pc \in Quiet \cup Steps(c) /\ c \notin Release
    BY <1>1, CallSetup DEF Refs, CallRole
  <2> QED BY <1>2, <2>1, StepsOf DEF Quiet, Ended, Call
<1> QED BY <1>1, <1>2, <1>3, SameStill, StayRight

LEMMA StrayRight ==
    ASSUME Base, Base', Unbroken, Right, Serve, NEW c \in Call,
           RpcError(c) \/ Abandon(c) \/ DropStray(c)
    PROVE  Right'
<1>1. /\ TypeOK /\ call \in [Call -> CallState] /\ call[c] \in CallState
      /\ CallStep(c) /\ table' = table /\ Refs
  BY DEF Base, TypeOK, CallStep, RpcError, Abandon, DropStray, leader
<1>2. CASE RpcError(c)
  BY <1>1, <1>2, FailsRight DEF RpcError
<1>3. CASE DropStray(c)
  <2>1. call'[c] = Over(Failure(c)) /\ obj' = obj
    BY <1>1, <1>3 DEF DropStray
  <2> QED BY <1>1, <2>1, FailureKind, EndsRight DEF Ended
<1>4. CASE Abandon(c)
  <2>1. obj' = Unlocked(c)
    BY <1>4 DEF Abandon
  <2>2. CASE call[c].pc \in LocalStep
    <3>1. call'[c] = Over(Failure(c))
      BY <1>1, <1>4, <2>2 DEF Abandon
    <3> QED BY <1>1, <2>1, <3>1, FailureKind, EndsRight DEF Ended
  <2>3. CASE call[c].pc \notin LocalStep
    <3>1. call'[c] = [call[c] EXCEPT !.live = FALSE]
      BY <1>1, <1>4, <2>3 DEF Abandon
    <3>2. /\ call'[c].pc = call[c].pc /\ call'[c].src = call[c].src
          /\ call'[c].prev = call[c].prev /\ call'[c].h = call[c].h
          /\ call'[c].pin = call[c].pin
      BY <1>1, <3>1 DEF CallState
    <3>3. call[c].pin # None => call'[c].pc \in OwnerStep \cup {"unmap"}
      BY <3>2 DEF Right, CallRight
    <3>4. StillCopies
      BY <1>1, <2>1, UnlockedStill
    <3> QED BY <1>1, <3>2, <3>3, <3>4, StayRight
  <2> QED BY <2>2, <2>3
<1> QED BY <1>2, <1>3, <1>4

(* An upload or the copy of a migration. *)
LEMMA WriteChunksRight ==
    ASSUME Base, Base', Unbroken, Right, Serve, NEW c \in Call, WriteChunks(c)
    PROVE  Right'
<1>1. /\ TypeOK /\ call \in [Call -> CallState] /\ call[c] \in CallState
      /\ CallStep(c) /\ table' = table /\ Refs /\ call[c].h \in Handle
      /\ call[c].pc = "write"
  BY CallHandle DEF Base, TypeOK, CallStep, WriteChunks, Pinned, leader
<1>2. CASE Fails(c)
  BY <1>1, <1>2, FailsRight
<1>3. CASE ~Fails(c)
  <2>1. PICK next, q : /\ next = IF c = Origin THEN "toCommit" ELSE "commit"
                       /\ Advance(c, next, call[c].h)
                       /\ obj' = [obj EXCEPT ![q].full = TRUE]
    BY <1>3 DEF WriteChunks
  <2>2. next \in Step /\ next \notin Ended
    BY <2>1 DEF Step, LocalStep, OwnerStep, Ended
  <2>3. StillCopies
    <3>1. obj \in [Obj -> Object]
      BY <1>1 DEF TypeOK
    <3> QED BY <2>1, <3>1 DEF StillCopies, Same, Object
  <2>4. /\ call'[c].pin = None
        /\ \/ /\ call'[c].pc \in {"failed", "denied"} /\ call'[c].src = None
              /\ call'[c].h = NoHandle
           \/ /\ call'[c].pc = next /\ call'[c].h = call[c].h
              /\ call'[c].src = call[c].src /\ call'[c].prev = call[c].prev
    BY <1>1, <2>1, <2>2, AdvanceEnds
  <2>5. CASE call'[c].pc \in {"failed", "denied"} /\ call'[c].src = None
             /\ call'[c].h = NoHandle
    <3>1. MoveRight(c)
      BY <2>4, <2>5, MoveEnded DEF Ended
    <3> QED BY <1>1, <2>3, <3>1, MoveStill DEF Right, EntriesRight
  <2>6. CASE c # Origin /\ call'[c].pc = next /\ call'[c].h = call[c].h
             /\ call'[c].src = call[c].src /\ call'[c].prev = call[c].prev
    <3>1. c \in Migration
      <4>1. call[c].pc \in Quiet \cup Steps(c)
        BY <1>1 DEF Refs, CallRole
      <4> QED BY <1>1, <2>6, <4>1, StepsOf DEF Quiet, Ended, Call
    <3> QED BY <1>1, <2>1, <2>3, <2>4, <2>6, <3>1, StayRight
  <2>7. CASE c = Origin /\ call'[c].pc = next /\ call'[c].h = call[c].h
             /\ call'[c].src = call[c].src /\ call'[c].prev = call[c].prev
    <3>1. call'[c].pc = "toCommit"
      BY <2>1, <2>7
    <3>2. CallRight(c)'
      <4>1. CallRight(c)
        BY DEF Right
      <4> QED BY <2>4, <2>7, <3>1, <4>1 DEF CallRight
    <3>3. OriginRight'
      BY <2>7, <3>1 DEF OriginRight
    <3>4. MoveRight(c)
      BY <2>7, <3>2, <3>3, CallKinds DEF MoveRight
    <3> QED BY <1>1, <2>3, <3>4, MoveStill DEF Right, EntriesRight
  <2> QED BY <2>4, <2>5, <2>6, <2>7
<1> QED BY <1>2, <1>3

LEMMA RegisterRight ==
    ASSUME Base, Base', Unbroken, Right, Serve, NEW c \in Call, Register(c)
    PROVE  Right'
<1>1. /\ TypeOK /\ Refs /\ CallStep(c) /\ call[c].h \in Handle /\ table \in Handle
      /\ call[c].pc = "register" /\ obj' = obj
  BY CallHandle DEF Base, TypeOK, CallStep, Register
<1>2. Known(call[c].h)
  <2>1. c \in Renewal \/ c = Origin
    <3>1. call[c].pc \in Quiet \cup Steps(c) /\ c \notin Release
      BY <1>1, CallSetup DEF Refs, CallRole
    <3> QED BY <1>1, <3>1, StepsOf DEF Quiet, Ended, Call
  <2> QED BY <1>1, <2>1 DEF Right, CallRight, OriginRight, Known
<1>3. Known(table')
  BY <1>1, <1>2, KnownRegistered DEF Register, Right, EntriesRight
<1>4. /\ call'[c].pin = None /\ call'[c].src = None
      /\ call'[c].pc \in Ended /\ call'[c].h = NoHandle
  BY <1>1, DoneEnds DEF Register
<1>5. c = Origin => Committed(Origin)'
  BY <1>1 DEF Right, OriginRight, Committed, Exists
<1>6. MoveRight(c)
  BY <1>4, <1>5, MoveEnded
<1> QED BY <1>1, <1>3, <1>6, SameStill, MoveStill

LEMMA RenewRight ==
    ASSUME Base, Base', Unbroken, Unbroken', Right, Serve, NEW c \in Call, Renew(c)
    PROVE  Right'
<1>1. /\ TypeOK /\ TypeOK' /\ Refs /\ CallStep(c) /\ call[c].pc = "renew"
      /\ call[c] \in CallState /\ table' = table /\ call[c].pin # None
      /\ call[c].h \in Handle /\ obj \in [Obj -> Object]
  BY CallHandle DEF Base, TypeOK, CallStep, Renew, Pinned, leader
<1>2. CASE Fails(c)
  BY <1>1, <1>2, FailsRight
<1>3. CASE ~Fails(c)
  <2>1. PICK o \in Obj :
          /\ o = call[c].pin /\ Exists(o)
          /\ obj' = [obj EXCEPT ![o].lease = Lease]
          /\ Advance(c, "register", [HandleOf(o) EXCEPT !.lease = Lease])
    BY <1>1, <1>3, PinnedObject DEF Renew, Exists
  <2>2. c \in Renewal /\ c \notin Obj /\ c \notin Release /\ c \notin Migration
    <3>1. call[c].pc \in Quiet \cup Steps(c) /\ c \notin Release
      BY <1>1, CallSetup DEF Refs, CallRole
    <3> QED BY <1>1, <3>1, StepsOf, CallKinds DEF Quiet, Ended, Call
  <2>3. /\ HandleOf(o) \in Handle /\ HandleOf(o).gen = obj[o].gen
        /\ HandleOf(o).owner = obj[o].node
    BY <1>1, <2>1, HandleOfType DEF Exists, HandleOf
  <2>4. obj[o].gen = call[c].h.gen /\ obj[o].node = call[c].h.owner
    <3>1. OwnCopy(c)
      BY DEF Renew, Unbroken
    <3> QED BY <1>1, <2>1, <2>2, <2>3, <3>1 DEF OwnCopy, Right, CallRight
  <2>5. PICK k \in Handle : /\ k = [HandleOf(o) EXCEPT !.lease = Lease]
                            /\ k.gen = call[c].h.gen /\ k.owner = call[c].h.owner
                            /\ k.lease # Tombstone
    <3>1. PICK e : e = HandleOf(o) /\ e \in Handle
      BY <2>3
    <3>2. Lease \in LeaseTicks /\ Lease # Tombstone
      BY ConstantsAssumption DEF LeaseTicks, Tombstone
    <3>3. /\ [e EXCEPT !.lease = Lease] \in Handle
          /\ [e EXCEPT !.lease = Lease].gen = e.gen
          /\ [e EXCEPT !.lease = Lease].owner = e.owner
          /\ [e EXCEPT !.lease = Lease].lease = Lease
      BY <3>1, <3>2 DEF Handle
    <3> QED BY <2>3, <2>4, <3>1, <3>2, <3>3
  <2>6. StillCopies
    BY <1>1, <2>1 DEF StillCopies, Same, Object
  <2>7. CopyStep(c) /\ Saves
    <3>1. \A d \in Call : d # c => CallSame(d)
      BY <1>1, CallSetup
    <3> QED BY <1>1, <2>2, <2>6, <3>1, StillSetup
  <2>8. /\ call'[c].pin = None
        /\ \/ /\ call'[c].pc \in {"failed", "denied"} /\ call'[c].src = None
              /\ call'[c].h = NoHandle
           \/ /\ call'[c].pc = "register" /\ call'[c].h = k
              /\ call'[c].src = call[c].src
    BY <1>1, <2>1, <2>5, AdvanceEnds DEF Step, Ended
  <2>9. CASE call'[c].pc \in {"failed", "denied"} /\ call'[c].src = None
              /\ call'[c].h = NoHandle
    <3>1. MoveRight(c)
      BY <2>8, <2>9, MoveEnded DEF Ended
    <3> QED BY <1>1, <2>6, <3>1, MoveStill DEF Right, EntriesRight
  <2>10. CASE call'[c].pc = "register" /\ call'[c].h = k
              /\ call'[c].src = call[c].src
    <3>1. PICK h \in Handle : h = call[c].h
      BY <1>1
    <3>2. Known(h)
      BY <1>1, <2>2, <3>1 DEF Right, CallRight
    <3>3. Known(k)'
      BY <1>1, <2>5, <2>7, <3>1, <3>2, KnownStays
    <3>4. CallRight(c)'
      <4>1. CallRight(c)
        BY DEF Right
      <4> QED BY <2>2, <2>5, <2>8, <2>10, <3>3, <4>1 DEF CallRight
    <3>5. MoveRight(c)
      BY <2>2, <3>4, CallKinds DEF MoveRight
    <3> QED BY <1>1, <2>6, <3>5, MoveStill DEF Right, EntriesRight
  <2> QED BY <2>8, <2>9, <2>10
<1> QED BY <1>2, <1>3

LEMMA MigrateRight ==
    ASSUME Base, Base', Unbroken, Right, Serve, NEW c \in Call, Migrate(c)
    PROVE  Right'
<1>1. /\ TypeOK /\ TypeOK' /\ Refs /\ CallStep(c) /\ call[c].pc = "picked"
      /\ call \in [Call -> CallState] /\ call[c] \in CallState /\ table' = table
      /\ Unmade /\ ChangeOK
  BY DEF Base, TypeOK, CallStep, Migrate, leader
<1>2. CASE Fails(c)
  BY <1>1, <1>2, FailsRight
<1>3. CASE ~Fails(c)
  <2>1. PICK o \in MappedAt(call[c].h.owner) :
          call' = [call EXCEPT ![c].pc = "lock", ![c].src = o] /\ obj' = obj
    BY <1>3 DEF Migrate
  <2>2. c \in Migration /\ c \in Obj /\ c # Origin /\ c \notin Renewal
    <3>1. call[c].pc \in Quiet \cup Steps(c) /\ c \notin Release
      BY <1>1, CallSetup DEF Refs, CallRole
    <3> QED BY <1>1, <3>1, StepsOf, CallKinds, ConstantsAssumption
            DEF Quiet, Ended, Call
  <2>3. o \in Obj /\ o # None /\ Exists(o) /\ obj[o].node = call[c].h.owner
        /\ obj[o].node \in Node
    BY <1>1, CallKinds, CopyFields DEF MappedAt, Refs, MappedExist, Exists
  <2>4. /\ call'[c].pc = "lock" /\ call'[c].src = o /\ call'[c].pin = call[c].pin
        /\ call'[c].h = call[c].h
    BY <1>1, <2>1 DEF CallState
  <2>5. ~Exists(c) /\ ~Exists(c)'
    BY <1>1, <2>1, <2>2 DEF Unmade, Early, Exists
  <2>6. /\ CallRight(c) /\ CopyRight(o)
    BY <2>3 DEF Right
  <2>7. CallRight(c)'
    <3>1. call[c].pin = None
      BY <1>1, <2>6 DEF CallRight, OwnerStep
    <3> QED BY <2>2, <2>4, <2>6, <3>1 DEF CallRight
  <2>8. o \in Migration => issued'[o] <= issued'[c]
    <3>1. knows[call[c].h.owner] = issued[c]
      BY <1>1, <2>4, CallSetup DEF Valid
    <3>2. o \in Migration => issued[o] <= knows[call[c].h.owner]
      BY <2>3, <2>6 DEF CopyRight
    <3>3. \A d \in Migration : issued'[d] = issued[d]
      BY <1>1, CallSetup
    <3> QED BY <2>2, <3>1, <3>2, <3>3
  <2>9. MigrationRight(c)'
    <3>1. ~Leaves(c)' /\ ~Awaited(c)'
      BY <2>4 DEF Leaves, Awaited
    <3>2. Built(c)'
      BY <2>4, <3>1 DEF Built
    <3>3. Sourced(c)'
      BY <2>3, <2>4, <2>5, <2>8 DEF Sourced
    <3>4. Answered(c)'
      BY <2>4, <3>1 DEF Answered
    <3> QED BY <3>2, <3>3, <3>4 DEF MigrationRight
  <2>10. MoveRight(c)
    BY <2>2, <2>5, <2>7, <2>9 DEF MoveRight
  <2> QED BY <1>1, <2>1, <2>10, SameStill, MoveStill DEF Right, EntriesRight
<1> QED BY <1>2, <1>3

LEMMA LockSourceRight ==
    ASSUME Base, Base', Unbroken, Right, Serve, NEW c \in Call, NEW dst \in Node,
           LockSource(c, dst)
    PROVE  Right'
<1>1. /\ TypeOK /\ TypeOK' /\ Refs /\ CallStep(c) /\ call[c].pc = "lock"
      /\ call \in [Call -> CallState] /\ call[c] \in CallState /\ table' = table
      /\ Unmade /\ obj \in [Obj -> Object]
  BY DEF Base, TypeOK, CallStep, LockSource, leader
<1>2. CASE Fails(c)
  BY <1>1, <1>2, FailsRight
<1>3. CASE ~Fails(c)
  <2>1. PICK s : /\ s = call[c].src /\ dst # obj[s].node /\ obj[s].state = "Ready"
                 /\ obj' = [obj EXCEPT ![s].lock = c]
                 /\ call' = [call EXCEPT
                              ![c].pc = "alloc",
                              ![c].prev = obj[s].gen,
                              ![c].h = [owner |-> dst, inc |-> inc[dst],
                                        gen |-> obj[s].gen + 1,
                                        state |-> "Writing", lease |-> Lease]]
    BY <1>3 DEF LockSource
  <2>2. c \in Migration /\ c \in Obj /\ c # Origin /\ c \notin Renewal
    <3>1. call[c].pc \in Quiet \cup Steps(c) /\ c \notin Release
      BY <1>1, CallSetup DEF Refs, CallRole
    <3> QED BY <1>1, <3>1, StepsOf, CallKinds, ConstantsAssumption
            DEF Quiet, Ended, Call
  <2>3. CallRight(c) /\ Sourced(c)
    BY <2>2 DEF Right, MigrationRight
  <2>4. s # None /\ s \in Obj /\ Exists(s) /\ None \notin Migration
    <3>1. s # None
      BY <1>1, <2>1, <2>3 DEF Sourced, Quiet, Ended
    <3> QED BY <1>1, <2>1, <3>1, CallFields, CallKinds DEF Refs, CallHolds, Exists
  <2>5. StillCopies
    BY <1>1, <2>1 DEF StillCopies, Same, Object
  <2>6. /\ call'[c].pc = "alloc" /\ call'[c].src = s /\ call'[c].pin = call[c].pin
        /\ call'[c].prev = obj[s].gen /\ call'[c].h.owner = dst
        /\ call'[c].h.gen = obj[s].gen + 1 /\ call'[c].h.lease = Lease
    BY <1>1, <2>1 DEF CallState
  <2>7. /\ obj'[s].gen = obj[s].gen /\ obj'[s].node = obj[s].node /\ Committed(s)'
        /\ ~Exists(c) /\ ~Exists(c)'
    <3>1. ~Exists(c)
      BY <1>1, <2>2 DEF Unmade, Early
    <3> QED BY <2>1, <2>2, <2>4, <2>5, <3>1 DEF StillCopies, Same, Committed, Exists
  <2>8. CallRight(c)'
    <3>1. call[c].pin = None
      BY <1>1, <2>3 DEF CallRight, OwnerStep
    <3>2. Lease # Tombstone
      BY ConstantsAssumption DEF Tombstone
    <3> QED BY <2>2, <2>6, <3>1, <3>2 DEF CallRight
  <2>9. s \in Migration => issued'[s] <= issued'[c]
    <3>1. \A d \in Migration : issued'[d] = issued[d]
      BY <1>1, CallSetup
    <3> QED BY <2>1, <2>2, <2>3, <3>1 DEF Sourced
  <2>10. MigrationRight(c)'
    <3>1. ~Leaves(c)' /\ ~Awaited(c)'
      BY <2>6 DEF Leaves, Awaited
    <3>2. Built(c)'
      BY <2>6, <3>1 DEF Built
    <3>3. Sourced(c)'
      BY <2>1, <2>4, <2>6, <2>7, <2>9 DEF Sourced
    <3>4. Answered(c)'
      BY <2>6, <3>1 DEF Answered
    <3> QED BY <3>2, <3>3, <3>4 DEF MigrationRight
  <2>11. MoveRight(c)
    BY <2>2, <2>7, <2>8, <2>10 DEF MoveRight
  <2> QED BY <1>1, <2>5, <2>11, MoveStill DEF Right, EntriesRight
<1> QED BY <1>2, <1>3

LEMMA DropSourceRight ==
    ASSUME Base, Base', Unbroken, Right, Serve, NEW c \in Call, DropSource(c)
    PROVE  Right'
<1>1. /\ TypeOK /\ TypeOK' /\ Refs /\ CallStep(c) /\ call[c].pc = "drop"
      /\ call \in [Call -> CallState] /\ call[c] \in CallState /\ table' = table
      /\ obj' = Unlocked(c)
  BY DEF Base, TypeOK, CallStep, DropSource, leader
<1>2. c \in Migration /\ c \in Obj /\ c # Origin /\ c \notin Renewal
  <2>1. call[c].pc \in Quiet \cup Steps(c) /\ c \notin Release
    BY <1>1, CallSetup DEF Refs, CallRole
  <2> QED BY <1>1, <2>1, StepsOf, CallKinds, ConstantsAssumption
          DEF Quiet, Ended, Call
<1>3. CASE call' = [call EXCEPT ![c] = Over("done")]
  <2>1. call'[c] = Over("done")
    BY <1>1, <1>3
  <2>2. Over("done").h = NoHandle
    BY DEF Over, IdleCall
  <2> QED BY <1>1, <1>2, <2>1, <2>2, OverType, EndsRight DEF Ended
<1>4. ASSUME NEW o \in MappedAt(obj[call[c].src].node),
             call' = [call EXCEPT ![c].pc = "free", ![c].pin = o,
                                  ![c].h = HandleOf(call[c].src)]
      PROVE  Right'
  <2>1. CallRight(c) /\ Sourced(c) /\ Built(c) /\ Answered(c)
    BY <1>2 DEF Right, MigrationRight
  <2>2. PICK s \in Obj : s = call[c].src /\ Exists(s) /\ Committed(s)
    <3>1. call[c].src # None /\ Committed(call[c].src)
      BY <1>1, <2>1 DEF Sourced, Quiet, Ended
    <3> QED BY <1>1, <3>1, CallFields DEF Committed
  <2>3. /\ call'[c].pc = "free" /\ call'[c].src = s /\ call'[c].pin = o
        /\ call'[c].h = HandleOf(s)
    BY <1>1, <1>4, <2>2 DEF CallState
  <2>4. /\ HandleOf(s).owner = obj[s].node /\ HandleOf(s).lease # Tombstone
    BY <1>1, <2>2, HandleOfType DEF Exists, HandleOf
  <2>5. StillCopies
    BY <1>1, UnlockedStill
  <2>6. /\ obj'[s].node = obj[s].node /\ obj'[s].gen = obj[s].gen /\ Committed(s)'
        /\ obj'[c].published = obj[c].published /\ (Committed(c) => Committed(c)')
        /\ obj'[c].node = obj[c].node /\ obj'[c].gen = obj[c].gen
    BY <1>2, <2>2, <2>5 DEF StillCopies, Same, Committed, Exists
  <2>7. CallRight(c)'
    <3>1. o \in Obj /\ obj'[o].node = obj[s].node
      BY <2>2, <2>5 DEF MappedAt, StillCopies, Same
    <3> QED BY <1>2, <2>3, <2>4, <3>1 DEF CallRight, OwnerStep
  <2>8. Leaves(c)'
    BY <2>2, <2>3, <2>4, <2>6, CallKinds DEF Leaves
  <2>9. /\ \A d \in Migration : issued'[d] = issued[d]
        /\ term' = term
    BY <1>1, CallSetup
  <2>10. MigrationRight(c)'
    <3>1. ~Awaited(c)' /\ s # None
      BY <2>3, CallKinds DEF Awaited
    <3>2. Built(c)'
      BY <1>1, <2>1, <2>3, <2>6 DEF Built
    <3>3. Sourced(c)'
      <4>1. s \in Migration => issued'[s] <= issued'[c]
        BY <1>2, <2>1, <2>2, <2>9 DEF Sourced
      <4>2. Exists(c)' => /\ obj'[c].gen = obj'[s].gen + 1
                          /\ obj'[c].node # obj'[s].node
        BY <2>1, <2>2, <2>6, <3>1 DEF Sourced, Exists
      <4> QED BY <2>3, <2>6, <3>1, <4>1, <4>2 DEF Sourced
    <3>4. Answered(c)'
      <4>1. issued'[c] = term' => obj'[s].gen < table'.gen
        BY <1>1, <1>2, <2>1, <2>2, <2>6, <2>9 DEF Answered
      <4> QED BY <2>3, <3>1, <4>1 DEF Answered
    <3> QED BY <3>2, <3>3, <3>4 DEF MigrationRight
  <2>11. MoveRight(c)
    BY <1>2, <2>3, <2>7, <2>8, <2>10 DEF MoveRight, Spoken, Discarding
  <2> QED BY <1>1, <2>5, <2>11, MoveStill DEF Right, EntriesRight
<1> QED BY <1>3, <1>4 DEF DropSource

(* The compare-and-set that succeeds is the one of a copy that is there,   *)
(* and the table then leaves the source behind.                            *)
LEMMA CompareAndSetRight ==
    ASSUME Base, Base', Unbroken, Right, Serve, NEW c \in Call, CompareAndSet(c)
    PROVE  Right'
<1>1. /\ TypeOK /\ TypeOK' /\ Refs /\ CallStep(c) /\ call[c].pc = "cas"
      /\ call[c] \in CallState /\ call[c].h \in Handle /\ table \in Handle
  BY CallHandle DEF Base, TypeOK, CallStep, CompareAndSet
<1>2. CASE Fails(c) /\ table' = table
  BY <1>1, <1>2, FailsRight
<1>3. CASE CasHolds(c) /\ table' = Registered(table, call[c].h)
           /\ Advance(c, "publish", call[c].h) /\ obj' = obj
  <2>1. c \in Migration /\ c \in Obj /\ c # Origin /\ c \notin Renewal
    <3>1. call[c].pc \in Quiet \cup Steps(c) /\ c \notin Release
      BY <1>1, CallSetup DEF Refs, CallRole
    <3> QED BY <1>1, <3>1, StepsOf, CallKinds, ConstantsAssumption
            DEF Quiet, Ended, Call
  <2>2. CallRight(c) /\ Sourced(c) /\ Built(c) /\ Answered(c) /\ Known(table)
    BY <2>1 DEF Right, MigrationRight, EntriesRight
  <2>3. /\ call'[c].pin = None
        /\ \/ /\ call'[c].pc \in {"failed", "denied"} /\ call'[c].src = None
              /\ call'[c].h = NoHandle
           \/ /\ call'[c].pc = "publish" /\ call'[c].h = call[c].h
              /\ call'[c].src = call[c].src /\ call'[c].prev = call[c].prev
    BY <1>1, <1>3, AdvanceEnds DEF Step, OwnerStep, Ended
  <2>4. /\ \A d \in Migration : issued'[d] = issued[d]
        /\ term' = term /\ Valid(c)
    BY <1>1, CallSetup
  <2>5. ASSUME call'[c].pc = "publish" \/ table' # table
        PROVE  obj[c].mapped /\ Known(call[c].h)
    <3>1. call'[c] # call[c]
      BY <1>1, <2>3
    <3>2. issued[c] = term
      BY <1>1, <2>4, <2>5, <3>1 DEF Valid
    <3>3. Awaited(c)
      BY <1>1, <1>3, <3>2, HandleFields DEF Awaited, CasHolds
    <3>4. /\ obj[c].mapped /\ Exists(c) /\ Committed(c)
          /\ obj[c].node = call[c].h.owner /\ obj[c].gen = call[c].h.gen
      BY <1>1, <2>2, <3>3 DEF Answered, Built
    <3>5. Sound(c)
      BY <1>1, <3>4 DEF Sound, Spoken, Discarding
    <3> QED BY <2>1, <2>2, <3>4, <3>5 DEF Known, CallRight
  <2>6. Known(table')
    <3>1. CASE table' = table
      BY <2>2, <3>1
    <3>2. CASE table' # table
      BY <1>1, <1>3, <2>2, <2>5, <3>2, KnownRegistered
    <3> QED BY <3>1, <3>2
  <2>7. CASE call'[c].pc \in {"failed", "denied"} /\ call'[c].src = None
             /\ call'[c].h = NoHandle
    <3>1. MoveRight(c)
      BY <2>3, <2>7, MoveEnded DEF Ended
    <3> QED BY <1>1, <1>3, <2>6, <3>1, SameStill, MoveStill
  <2>8. CASE call'[c].pc = "publish" /\ call'[c].h = call[c].h
             /\ call'[c].src = call[c].src /\ call'[c].prev = call[c].prev
    <3>1. PICK s \in Obj : s = call[c].src /\ s = call'[c].src /\ s # None
      <4>1. call[c].src # None
        BY <1>1, <2>2 DEF Sourced, Quiet, Ended
      <4> QED BY <1>1, <2>8, <4>1, CallFields
    <3>2. obj[s].gen < table'.gen
      <4>1. /\ call[c].prev = obj[s].gen /\ obj[s].gen \in Nat
            /\ call[c].h.gen = obj[s].gen + 1 /\ table.gen = obj[s].gen
            /\ table.owner # None
        BY <1>1, <1>3, <2>2, <3>1, CopyFields DEF Sourced, CasHolds
      <4>2. ~Sealed(table)
        BY <2>2 DEF Sealed, Known
      <4>3. Registered(table, call[c].h).gen = call[c].h.gen
        <5>1. PICK t \in Handle, h \in Handle : t = table /\ h = call[c].h
          BY <1>1
        <5>2. t.gen \in Nat /\ h.gen = t.gen + 1 /\ t.owner # None /\ ~Sealed(t)
          BY <4>1, <4>2, <5>1
        <5>3. Registered(t, h).gen = h.gen
          BY <5>1, <5>2 DEF Registered, Supersedes, Handle
        <5> QED BY <5>1, <5>3
      <4> QED BY <1>3, <4>1, <4>3
    <3>3. Built(c)'
      <4>1. /\ Exists(c) /\ Committed(c) /\ obj[c].node = call[c].h.owner
            /\ obj[c].gen = call[c].h.gen
        BY <1>1, <2>2 DEF Built
      <4> QED BY <1>3, <2>8, <4>1 DEF Built, Committed, Exists, Leaves
    <3>4. Sourced(c)'
      <4>1. s \in Migration => issued'[s] <= issued'[c]
        BY <2>1, <2>2, <2>4, <3>1 DEF Sourced
      <4>2. /\ Committed(s)'
            /\ Exists(c)' => obj'[c].gen = obj'[s].gen + 1 /\ obj'[c].node # obj'[s].node
        BY <1>1, <1>3, <2>2, <3>1 DEF Sourced, Quiet, Ended, Committed, Exists
      <4> QED BY <2>8, <3>1, <4>1, <4>2 DEF Sourced
    <3>5. Answered(c)'
      <4>1. obj'[c].mapped /\ obj'[s].gen < table'.gen
        BY <1>3, <2>5, <2>8, <3>2
      <4> QED BY <2>8, <3>1, <4>1 DEF Answered, Awaited
    <3>6. CallRight(c)'
      BY <2>1, <2>2, <2>3, <2>8 DEF CallRight
    <3>7. MoveRight(c)
      BY <2>1, <2>8, <3>3, <3>4, <3>5, <3>6
      DEF MoveRight, MigrationRight, Spoken, Discarding
    <3> QED BY <1>1, <1>3, <2>6, <3>7, SameStill, MoveStill
  <2> QED BY <2>3, <2>7, <2>8
<1> QED BY <1>2, <1>3 DEF CompareAndSet

-----------------------------------------------------------------------------
(* Steps that make, commit, publish or remove a copy *)

(* A copy that a step of c makes, commits or publishes is c's own. *)
LEMMA GrownRight ==
    ASSUME Base, Base', Unbroken, Right, Serve, NEW c \in Obj, CallStep(c),
           CopyStep(c), \A o \in Obj : Exists(o) => obj'[o].mapped = obj[o].mapped,
           MappedOnce', table' = table,
           Exists(c) /\ Spoken(c) => Spoken(c)', MoveRight(c),
           Saves => CopyRight(c)'
    PROVE  Right'
<1>1. /\ TypeOK /\ TypeOK' /\ Refs /\ ChangeOK /\ ChangeOK' /\ Unmade /\ TermStep(c)
      /\ \A d \in Call : d # c => CallSame(d)
      /\ heir' = heir /\ gossip' = gossip /\ c \in Call
  BY CallSetup, CallKinds
<1>2. \A o \in Obj : Exists(o) /\ Spoken(o) => Spoken(o)'
  BY <1>1, SpokenSame, CallKinds
<1>3. Saves
  BY <1>1, <1>2, StillSaves DEF Refs
<1>4. SelfRight(c)'
  BY <1>3 DEF SelfRight, MoveRight
<1>5. Known(table') /\ Known(heir') /\ \A m \in gossip' : Known(m.h)
  BY <1>1 DEF Right, EntriesRight
<1>6. EntriesRight'
  BY <1>1, <1>3, <1>5, EntriesStay
<1> QED BY <1>1, <1>3, <1>4, <1>6, RightAgain

LEMMA OwnPinned ==
    ASSUME Base, Right, NEW c \in Call, c \notin Release, call[c].pin # None,
           call[c].pc \in {"commit", "publish"}, OwnCopy(c)
    PROVE  c \in Obj /\ call[c].pin = c /\ Exists(c)
<1>1. TypeOK /\ Refs
  BY DEF Base
<1>2. c \in Obj
  <2>1. call[c].pc \in Quiet \cup Steps(c)
    BY <1>1 DEF Refs, CallRole
  <2> QED BY <2>1, StepsOf, CallKinds DEF Quiet, Ended, Call
<1>3. call[c].pin \in {c, call[c].src} /\ call[c].pin \in Obj
      /\ Exists(call[c].pin) /\ obj[call[c].pin].node = call[c].h.owner
  BY <1>1, <1>2, CallFields DEF OwnCopy, Refs, CallHolds, Exists, Right, CallRight
<1>4. CASE c \notin Migration
  BY <1>2, <1>3, <1>4 DEF Right, CallRight
<1>5. CASE c \in Migration
  <2>1. Built(c) /\ Sourced(c)
    BY <1>5 DEF Right, MigrationRight
  <2>2. /\ Exists(c) /\ obj[c].node = call[c].h.owner
        /\ call[c].src # None => obj[c].node # obj[call[c].src].node
    BY <2>1 DEF Built, Sourced
  <2> QED BY <1>2, <1>3, <2>2
<1> QED BY <1>2, <1>3, <1>4, <1>5

LEMMA PublishRight ==
    ASSUME Base, Base', Unbroken, Unbroken', Right, Serve, NEW c \in Call, Publish(c)
    PROVE  Right'
<1>1. /\ TypeOK /\ TypeOK' /\ Refs /\ CallStep(c) /\ call[c].pc = "publish"
      /\ call[c] \in CallState /\ table' = table /\ call[c].pin # None
      /\ call[c].h \in Handle /\ obj \in [Obj -> Object] /\ ChangeOK /\ ChangeOK'
      /\ OwnCopy(c)
  BY CallHandle DEF Base, TypeOK, CallStep, Publish, Pinned, leader, Unbroken
<1>2. CASE Fails(c)
  BY <1>1, <1>2, FailsRight
<1>3. CASE ~Fails(c)
  <2>1. c \in Obj /\ call[c].pin = c /\ Exists(c)
    BY <1>1, CallSetup, OwnPinned
  <2>2. c \in Migration /\ c # Origin /\ c \notin Renewal
    <3>1. call[c].pc \in Quiet \cup Steps(c)
      BY <1>1 DEF Refs, CallRole
    <3> QED BY <1>1, <2>1, <3>1, StepsOf, CallKinds DEF Quiet, Ended, Call, Obj
  <2>3. /\ obj' = [obj EXCEPT ![c].published = TRUE]
        /\ Advance(c, "drop", call[c].h)
    BY <1>3, <2>1 DEF Publish
  <2>4. /\ \A o \in Obj : o # c => obj'[o] = obj[o]
        /\ obj'[c].node = obj[c].node /\ obj'[c].gen = obj[c].gen
        /\ obj'[c].state = obj[c].state /\ obj'[c].mapped = obj[c].mapped
        /\ obj'[c].published
    BY <1>1, <2>1, <2>3 DEF Object
  <2>5. CopyStep(c) /\ \A o \in Obj : obj'[o].mapped = obj[o].mapped
    BY <2>4 DEF CopyStep, Same
  <2>6. /\ call'[c].pin = None
        /\ \/ /\ call'[c].pc \in {"failed", "denied"} /\ call'[c].src = None
              /\ call'[c].h = NoHandle
           \/ /\ call'[c].pc = "drop" /\ call'[c].h = call[c].h
              /\ call'[c].src = call[c].src /\ call'[c].prev = call[c].prev
    BY <1>1, <2>3, AdvanceEnds DEF Step, LocalStep, Ended
  <2>7. /\ Built(c) /\ Sourced(c) /\ Answered(c) /\ CallRight(c) /\ CopyRight(c)
    BY <2>1, <2>2 DEF Right, MigrationRight
  <2>8. Committed(c)' /\ Committed(c)
    BY <1>1, <2>4, <2>7 DEF Built, Committed, Exists
  <2>9. Spoken(c)'
    BY <2>6 DEF Spoken, Discarding
  <2>10. /\ \A d \in Migration : issued'[d] = issued[d]
         /\ term' = term /\ knows' = knows
    BY <1>1, CallSetup
  <2>11. ASSUME Saves PROVE CopyRight(c)'
    <3>1. Carried(obj[c].gen)'
      <4>1. PICK g \in Nat : g = obj[c].gen /\ g = obj'[c].gen
        BY <1>1, <2>1, <2>4, CopyFields
      <4>2. CASE Carried(g)
        <5>1. Carried(g)'
          BY <2>11, <4>2 DEF Saves
        <5> QED BY <4>1, <5>1
      <4>3. CASE obj[c].mapped
        <5>1. Listed(c)'
          BY <2>4, <2>8, <4>3 DEF Listed
        <5> QED BY <2>1, <4>1, <5>1 DEF Carried
      <4> QED BY <1>1, <2>7, <4>1, <4>2, <4>3 DEF Answered
    <3>2. issued'[c] <= knows'[obj'[c].node]
      BY <2>1, <2>2, <2>4, <2>7, <2>10 DEF CopyRight
    <3> QED BY <2>2, <2>8, <2>9, <3>1, <3>2 DEF CopyRight
  <2>12. MoveRight(c)
    <3>1. CASE call'[c].pc \in {"failed", "denied"} /\ call'[c].src = None
               /\ call'[c].h = NoHandle
      BY <2>2, <2>6, <3>1, MoveEnded DEF Ended
    <3>2. CASE call'[c].pc = "drop" /\ call'[c].h = call[c].h
               /\ call'[c].src = call[c].src /\ call'[c].prev = call[c].prev
      <4>1. PICK s \in Obj : s = call[c].src /\ s = call'[c].src /\ s # None
        <5>1. call[c].src # None
          BY <1>1, <2>7 DEF Sourced, Quiet, Ended
        <5> QED BY <1>1, <3>2, <5>1, CallFields
      <4>2. /\ obj'[s].node = obj[s].node /\ obj'[s].gen = obj[s].gen
            /\ Committed(s) => Committed(s)'
        BY <2>4, <4>1 DEF Committed, Exists
      <4>3. Built(c)'
        BY <2>4, <2>8, <3>2 DEF Built, Committed, Leaves
      <4>4. Sourced(c)'
        <5>1. s \in Migration => issued'[s] <= issued'[c]
          BY <2>2, <2>7, <2>10, <4>1 DEF Sourced
        <5>2. Committed(s)'
          BY <1>1, <2>7, <4>1, <4>2 DEF Sourced, Quiet, Ended
        <5>3. obj'[c].gen = obj'[s].gen + 1 /\ obj'[c].node # obj'[s].node
          BY <2>1, <2>4, <2>7, <4>1, <4>2 DEF Sourced
        <5> QED BY <3>2, <4>1, <5>1, <5>2, <5>3 DEF Sourced
      <4>5. Answered(c)'
        <5>1. issued'[c] = term' => obj'[s].gen < table'.gen
          BY <1>1, <2>2, <2>7, <2>10, <4>1, <4>2 DEF Answered
        <5> QED BY <3>2, <4>1, <5>1 DEF Answered, Awaited
      <4>6. CallRight(c)'
        BY <2>2, <2>6, <2>7, <3>2 DEF CallRight
      <4> QED
        BY <2>2, <2>9, <4>3, <4>4, <4>5, <4>6 DEF MoveRight, MigrationRight
    <3> QED BY <2>6, <3>1, <3>2
  <2>13. MappedOnce'
    BY <2>4, <2>5 DEF MappedOnce, Right
  <2> QED
    BY <1>1, <2>1, <2>5, <2>9, <2>11, <2>12, <2>13, GrownRight
<1> QED BY <1>2, <1>3

(* What a commit makes of c and of its own copy. *)
LEMMA CommitCopy ==
    ASSUME Base, Right, NEW c \in Obj, Exists(c), call[c].pc = "commit",
           obj' = [obj EXCEPT ![c].state = "Ready"]
    PROVE  /\ \A o \in Obj : o # c => obj'[o] = obj[o]
           /\ obj'[c].node = obj[c].node /\ obj'[c].gen = obj[c].gen
           /\ obj'[c].published = obj[c].published
           /\ obj'[c].mapped = obj[c].mapped
           /\ Committed(c)' /\ CopyStep(c) /\ MappedOnce'
           /\ \A o \in Obj : obj'[o].mapped = obj[o].mapped
<1>1. obj \in [Obj -> Object] /\ obj[c] \in Object
  BY DEF Base, TypeOK
<1>2. /\ \A o \in Obj : o # c => obj'[o] = obj[o]
      /\ obj'[c].node = obj[c].node /\ obj'[c].gen = obj[c].gen
      /\ obj'[c].published = obj[c].published
      /\ obj'[c].mapped = obj[c].mapped /\ obj'[c].state = "Ready"
  BY <1>1 DEF Object
<1>3. CopyStep(c)
  BY <1>2 DEF CopyStep, Same
<1>4. MappedOnce'
  BY <1>2 DEF MappedOnce, Right
<1> QED BY <1>2, <1>3, <1>4 DEF Committed, Exists

LEMMA CommitGrown ==
    ASSUME Base, Base', Unbroken, Right, Serve, NEW c \in Obj, CallStep(c), Exists(c),
           call[c].pc = "commit", obj' = [obj EXCEPT ![c].state = "Ready"],
           table' = table, MoveRight(c)
    PROVE  Right'
<1>1. /\ TypeOK /\ Refs /\ c \in Call
      /\ \A d \in Migration : issued'[d] = issued[d]
      /\ knows' = knows
  BY CallSetup, CallKinds
<1>2. /\ obj'[c].node = obj[c].node /\ obj'[c].gen = obj[c].gen
      /\ obj'[c].published = obj[c].published
      /\ obj'[c].mapped = obj[c].mapped
      /\ Committed(c)' /\ CopyStep(c) /\ MappedOnce'
      /\ \A o \in Obj : obj'[o].mapped = obj[o].mapped
  BY CommitCopy
<1>3. CopyRight(c)
  BY DEF Right
<1>4. Exists(c) /\ Spoken(c) => Spoken(c)'
  BY DEF MoveRight, Spoken
<1>5. ASSUME Saves PROVE CopyRight(c)'
  <2>1. CASE c \in Migration
    <3>1. c # Origin /\ ~Spoken(c) /\ ~obj[c].published
      BY <1>3, <2>1, CallKinds DEF CopyRight, Spoken
    <3>2. issued'[c] <= knows'[obj'[c].node]
      BY <1>1, <1>2, <1>3, <2>1 DEF CopyRight
    <3> QED BY <1>2, <3>1, <3>2 DEF CopyRight
  <2>2. CASE c \notin Migration
    <3>1. /\ c = Origin /\ obj[c].published /\ obj[c].gen = 0
          /\ obj[c].state = "Writing" => obj[c].mapped
      BY <1>3, <2>2 DEF CopyRight, Obj
    <3>2. Carried(0)'
      <4>1. CASE obj[c].state = "Writing"
        <5>1. Listed(c)' /\ obj'[c].gen >= 0
          BY <1>2, <3>1, <4>1 DEF Listed
        <5> QED BY <5>1 DEF Carried
      <4>2. CASE obj[c].state = "Ready"
        <5>1. Carried(0)
          BY <1>3, <3>1, <4>2 DEF CopyRight, Committed
        <5> QED BY <1>5, <5>1 DEF Saves
      <4> QED BY <1>1, <4>1, <4>2, CopyFields
    <3>3. obj'[c].state = "Ready"
      BY <1>2 DEF Committed
    <3> QED BY <1>2, <2>2, <3>1, <3>2, <3>3 DEF CopyRight
  <2> QED BY <2>1, <2>2
<1> QED BY <1>2, <1>4, <1>5, GrownRight

LEMMA CommitRight ==
    ASSUME Base, Base', Unbroken, Unbroken', Right, Serve, NEW c \in Call, Commit(c)
    PROVE  Right'
<1>1. /\ TypeOK /\ TypeOK' /\ Refs /\ CallStep(c) /\ call[c].pc = "commit"
      /\ call \in [Call -> CallState]
      /\ call[c] \in CallState /\ table' = table /\ call[c].pin # None
      /\ OwnCopy(c)
  BY CallHandle DEF Base, TypeOK, CallStep, Commit, Pinned, leader, Unbroken
<1>2. CASE Fails(c)
  BY <1>1, <1>2, FailsRight
<1>3. CASE ~Fails(c)
  <2>1. c \in Obj /\ call[c].pin = c /\ Exists(c)
    BY <1>1, CallSetup, OwnPinned
  <2>2. obj' = [obj EXCEPT ![c].state = "Ready"]
    BY <1>3, <2>1 DEF Commit
  <2>3. /\ \A o \in Obj : o # c => obj'[o] = obj[o]
        /\ obj'[c].node = obj[c].node /\ obj'[c].gen = obj[c].gen
        /\ obj'[c].mapped = obj[c].mapped
        /\ Committed(c)' /\ CopyStep(c)
    BY <1>1, <2>1, <2>2, CommitCopy
  <2>4. /\ \A d \in Migration : issued'[d] = issued[d]
        /\ term' = term /\ knows' = knows
    BY <1>1, CallSetup
  <2>5. SUFFICES MoveRight(c)
    BY <1>1, <2>1, <2>2, CommitGrown
  <2>6. CASE Discards(c) /\ call' = [call EXCEPT ![c].pc = "free", ![c].pin = None]
    <3>1. /\ call'[c].pc = "free" /\ call'[c].pin = None
          /\ call'[c].src = call[c].src /\ call'[c].prev = call[c].prev
          /\ call'[c].h = call[c].h
      BY <1>1, <2>6 DEF CallState
    <3>2. c \in Migration
      BY <2>6 DEF Discards
    <3> QED BY <1>1, <2>3, <2>4, <3>1, <3>2, MoveDiscard
  <2>7. CASE Advance(c, AfterCommit(c), [HandleOf(c) EXCEPT !.state = "Ready"])
    <3>1. PICK k \in Handle : /\ k = [HandleOf(c) EXCEPT !.state = "Ready"]
                              /\ k.gen = obj[c].gen /\ k.owner = obj[c].node
                              /\ k.lease # Tombstone
      <4>1. PICK e : /\ e = HandleOf(c) /\ e \in Handle /\ e.lease # Tombstone
                     /\ e.gen = obj[c].gen /\ e.owner = obj[c].node
        <5>1. /\ HandleOf(c) \in Handle /\ HandleOf(c).lease # Tombstone
              /\ HandleOf(c).gen = obj[c].gen /\ HandleOf(c).owner = obj[c].node
          BY <1>1, <2>1, HandleOfType DEF Exists, HandleOf
        <5> QED BY <5>1
      <4>2. /\ [e EXCEPT !.state = "Ready"] \in Handle
            /\ [e EXCEPT !.state = "Ready"].gen = e.gen
            /\ [e EXCEPT !.state = "Ready"].owner = e.owner
            /\ [e EXCEPT !.state = "Ready"].lease = e.lease
        BY <4>1 DEF Handle
      <4> QED BY <4>1, <4>2
    <3>2. PICK next \in Step : /\ next = IF c = Origin THEN "register" ELSE "cas"
                               /\ next \notin Ended /\ Advance(c, next, k)
      <4>1. AfterCommit(c) \in Step /\ AfterCommit(c) \notin Ended
        BY DEF AfterCommit, Step, Ended
      <4> QED BY <2>7, <3>1, <4>1 DEF AfterCommit
    <3>3. /\ call'[c].pin = None
          /\ \/ /\ call'[c].pc \in {"failed", "denied"} /\ call'[c].src = None
                /\ call'[c].h = NoHandle
             \/ /\ call'[c].pc = next /\ call'[c].h = k
                /\ call'[c].src = call[c].src /\ call'[c].prev = call[c].prev
      BY <1>1, <3>2, AdvanceEnds
    <3>4. CASE call'[c].pc \in {"failed", "denied"} /\ call'[c].src = None
               /\ call'[c].h = NoHandle
      BY <3>3, <3>4, MoveEnded DEF Ended
    <3>5. CASE c = Origin /\ call'[c].pc = next /\ call'[c].h = k
               /\ call'[c].src = call[c].src
      <4>1. call'[c].pc = "register" /\ obj[c].gen = 0
        BY <2>1, <3>2, <3>5 DEF Right, CopyRight
      <4>2. OriginRight'
        BY <2>3, <3>1, <3>5, <4>1 DEF OriginRight
      <4>3. CallRight(c)'
        BY <3>1, <3>3, <3>5, CallKinds DEF CallRight, Right
      <4> QED BY <3>5, <4>2, <4>3, CallKinds DEF MoveRight
    <3>6. CASE c # Origin /\ call'[c].pc = next /\ call'[c].h = k
               /\ call'[c].src = call[c].src /\ call'[c].prev = call[c].prev
      <4>1. c \in Migration /\ c \notin Renewal /\ call'[c].pc = "cas"
        BY <2>1, <3>2, <3>6, CallKinds DEF Obj
      <4>2. Built(c) /\ Sourced(c) /\ Answered(c)
        BY <4>1 DEF Right, MigrationRight
      <4>3. PICK s \in Obj : s = call[c].src /\ s = call'[c].src /\ s # None
        <5>1. call[c].src # None
          BY <1>1, <4>2 DEF Sourced, Quiet, Ended
        <5> QED BY <1>1, <3>6, <5>1, CallFields
      <4>4. /\ obj'[s].node = obj[s].node /\ obj'[s].gen = obj[s].gen
            /\ Committed(s) => Committed(s)'
        BY <2>3, <4>3 DEF Committed, Exists
      <4>5. Built(c)'
        BY <2>3, <3>1, <3>6, <4>1 DEF Built, Committed, Leaves
      <4>6. Sourced(c)'
        <5>1. s \in Migration => issued'[s] <= issued'[c]
          BY <2>4, <4>1, <4>2, <4>3 DEF Sourced
        <5>2. Committed(s)' /\ call'[c].prev = obj'[s].gen
          BY <1>1, <3>6, <4>2, <4>3, <4>4 DEF Sourced, Quiet, Ended
        <5>3. obj'[c].gen = obj'[s].gen + 1 /\ obj'[c].node # obj'[s].node
          BY <2>1, <2>3, <4>2, <4>3, <4>4 DEF Sourced
        <5> QED BY <4>1, <4>3, <5>1, <5>2, <5>3 DEF Sourced
      <4>7. Answered(c)'
        <5>1. Awaited(c)' => obj'[c].mapped
          BY <1>1, <2>3, <2>4, <3>6, <4>1, <4>2 DEF Answered, Awaited
        <5> QED BY <4>1, <5>1 DEF Answered, Leaves
      <4>8. CallRight(c)'
        BY <3>1, <3>3, <3>6, <4>1 DEF CallRight
      <4>9. ~Spoken(c)
        BY <1>1, <4>1 DEF Spoken
      <4> QED
        BY <3>6, <4>1, <4>5, <4>6, <4>7, <4>8, <4>9 DEF MoveRight, MigrationRight
    <3> QED BY <3>3, <3>4, <3>5, <3>6
  <2> QED BY <1>3, <2>1, <2>6, <2>7 DEF Commit
<1> QED BY <1>2, <1>3

LEMMA AllocateLocalRight ==
    ASSUME Base, Base', Unbroken, Right, Serve, NEW c \in Call, AllocateLocal(c)
    PROVE  Right'
<1>1. /\ TypeOK /\ TypeOK' /\ Refs /\ CallStep(c) /\ call[c].pc = "alloc"
      /\ call[c] \in CallState /\ table' = table /\ obj \in [Obj -> Object]
      /\ Unmade /\ ChangeOK
  BY CallHandle DEF Base, TypeOK, CallStep, AllocateLocal, leader
<1>2. c \in Obj /\ c \notin Renewal /\ (c # Origin => c \in Migration)
  <2>1. call[c].pc \in Quiet \cup Steps(c) /\ c \notin Release
    BY <1>1, CallSetup DEF Refs, CallRole
  <2> QED BY <1>1, <2>1, StepsOf, CallKinds DEF Quiet, Ended, Call, Obj
<1>3. PICK h \in Handle : h = call[c].h /\ h.owner # None /\ h.owner \in Node
  BY <1>1, CallFields DEF Refs, CallNamed, Quiet, Ended
<1>4. ~Exists(c)
  BY <1>1, <1>2 DEF Unmade, Early
<1>5. /\ \A o \in Obj : o # c => obj'[o] = obj[o]
      /\ obj'[c] = AllocatedAs(h)
  BY <1>1, <1>2, <1>3 DEF AllocateLocal
<1>6. /\ obj'[c].node = h.owner /\ obj'[c].gen = h.gen
      /\ obj'[c].state = "Writing" /\ obj'[c].mapped
      /\ Exists(c)' /\ ~Committed(c)'
  BY <1>3, <1>5 DEF AllocatedAs, Exists, Committed
<1>7. obj'[c].published <=> h.gen = 0
  <2>1. AllocatedAs(h).published = (h.gen = 0)
    BY Zenon DEF AllocatedAs
  <2> QED BY <1>5, <2>1, Zenon
<1>8. /\ CopyStep(c)
      /\ \A o \in Obj : Exists(o) => obj'[o].mapped = obj[o].mapped
  BY <1>4, <1>5 DEF CopyStep, Same
<1>9. MappedOnce'
  <2>1. \A o \in Obj : obj[o].mapped => obj[o].node # h.owner
    BY <1>3 DEF AllocateLocal, Vacant, MappedAt
  <2> QED BY <1>5, <1>6, <2>1 DEF MappedOnce, Right
<1>10. /\ \A d \in Migration : issued'[d] = issued[d]
       /\ term' = term /\ knows' = knows /\ Valid(c)
  BY <1>1, CallSetup
<1>11. issued[c] <= knows[h.owner]
  <2>1. obj'[c] # obj[c]
    BY <1>4, <1>6 DEF Exists
  <2>2. <<c, h.owner, issued[c]>> \in admitted
    BY <1>1, <1>3, <1>10, <2>1 DEF Valid
  <2>3. AdmittedOK
    BY <1>1 DEF ChangeOK
  <2> QED BY <2>2, <2>3 DEF AdmittedOK
<1>12. c = Origin => h.gen = 0
  BY <1>1, <1>3 DEF Right, OriginRight
<1>13. CallRight(c)
  BY DEF Right
<1>14. ASSUME c \in Migration
       PROVE  /\ Sourced(c) /\ call[c].src \in Obj /\ call[c].src # None
              /\ call[c].src # c
              /\ h.gen = obj[call[c].src].gen + 1 /\ obj[call[c].src].gen \in Nat
              /\ h.owner # obj[call[c].src].node /\ Committed(call[c].src)
              /\ call[c].prev = obj[call[c].src].gen
  <2>1. Sourced(c)
    BY <1>14 DEF Right, MigrationRight
  <2>2. /\ call[c].src # None /\ call[c].src \in Obj /\ Committed(call[c].src)
        /\ h.gen = obj[call[c].src].gen + 1
        /\ h.owner # obj[call[c].src].node
        /\ call[c].prev = obj[call[c].src].gen
    BY <1>1, <1>3, <2>1, CallFields DEF Sourced, Quiet, Ended
  <2> QED BY <1>1, <1>4, <2>1, <2>2, CopyFields DEF Committed
<1>15. CopyRight(c)'
  <2>1. c \in Migration => /\ issued'[c] <= knows'[obj'[c].node]
                           /\ ~obj'[c].published
    <3>1. c \in Migration => issued[c] <= knows[h.owner]
      BY <1>1, <1>11 DEF ChangeOK
    <3>2. c \in Migration => h.gen # 0
      BY <1>14
    <3> QED BY <1>6, <1>7, <1>10, <3>1, <3>2
  <2>2. c = Origin => obj'[c].published /\ obj'[c].gen = 0
    BY <1>6, <1>7, <1>12
  <2> QED BY <1>6, <2>1, <2>2 DEF CopyRight
<1>16. PICK next \in Step : /\ next = IF c = Origin THEN "grant" ELSE "write"
                            /\ next \notin Ended /\ Advance(c, next, h)
  <2>1. (IF c = Origin THEN "grant" ELSE "write") \in Step \ Ended
    BY DEF Step, LocalStep, OwnerStep, Ended
  <2> QED BY <1>3, <2>1 DEF AllocateLocal
<1>17. /\ call'[c].pin = None
       /\ \/ /\ call'[c].pc \in {"failed", "denied"} /\ call'[c].src = None
             /\ call'[c].h = NoHandle
          \/ /\ call'[c].pc = next /\ call'[c].h = h
             /\ call'[c].src = call[c].src /\ call'[c].prev = call[c].prev
  BY <1>1, <1>16, AdvanceEnds
<1>18. MoveRight(c)
  <2>1. CASE call'[c].pc \in {"failed", "denied"} /\ call'[c].src = None
             /\ call'[c].h = NoHandle
    BY <1>17, <2>1, MoveEnded DEF Ended
  <2>2. CASE c = Origin /\ call'[c].pc = next /\ call'[c].h = h
             /\ call'[c].src = call[c].src
    <3>1. call'[c].pc = "grant"
      BY <1>16, <2>2
    <3>2. OriginRight'
      BY <1>12, <2>2, <3>1 DEF OriginRight
    <3>3. CallRight(c)'
      BY <1>2, <1>3, <1>13, <1>17, <2>2, CallKinds DEF CallRight
    <3> QED BY <2>2, <3>2, <3>3, CallKinds DEF MoveRight
  <2>3. CASE c # Origin /\ call'[c].pc = next /\ call'[c].h = h
             /\ call'[c].src = call[c].src /\ call'[c].prev = call[c].prev
    <3>1. c \in Migration /\ call'[c].pc = "write"
      BY <1>2, <1>16, <2>3
    <3>2. PICK s \in Obj : s = call[c].src /\ s = call'[c].src /\ s # None /\ s # c
      BY <1>14, <2>3, <3>1
    <3>3. obj'[s] = obj[s]
      BY <1>5, <3>2
    <3>4. Built(c)'
      BY <1>6, <2>3, <3>1 DEF Built, Leaves
    <3>5. Sourced(c)'
      <4>1. s \in Migration => issued'[s] <= issued'[c]
        BY <1>10, <1>14, <3>1, <3>2 DEF Sourced
      <4>2. Committed(s)' /\ call'[c].prev = obj'[s].gen
        BY <1>14, <2>3, <3>1, <3>2, <3>3 DEF Committed, Exists
      <4>3. obj'[c].gen = obj'[s].gen + 1 /\ obj'[c].node # obj'[s].node
        BY <1>6, <1>14, <3>1, <3>2, <3>3
      <4> QED BY <3>1, <3>2, <4>1, <4>2, <4>3 DEF Sourced
    <3>6. Answered(c)'
      BY <1>6, <3>1 DEF Answered, Leaves
    <3>7. CallRight(c)'
      BY <1>2, <1>3, <1>13, <1>17, <2>3, <3>1 DEF CallRight
    <3> QED
      BY <1>4, <2>3, <3>4, <3>5, <3>6, <3>7 DEF MoveRight, MigrationRight
  <2> QED BY <1>17, <2>1, <2>2, <2>3
<1> QED BY <1>1, <1>2, <1>4, <1>8, <1>9, <1>15, <1>18, GrownRight

(* A copy leaves its map that nothing but a successor depends on. *)
LEMMA UnmapSaves ==
    ASSUME TypeOK, TypeOK', Refs, NEW p \in Obj, \A o \in Obj : Same(o),
           \A o \in Obj : o # p => obj'[o].mapped = obj[o].mapped,
           \A o \in Obj : Exists(o) /\ Spoken(o) => Spoken(o)',
           Listed(p) \/ Sound(p) \/ (p \in Migration /\ call[p].pc = "publish")
             => \E q \in Obj : q # p /\ Listed(q) /\ obj[q].gen >= obj[p].gen,
           p \in Migration => ~Awaited(p),
           p = Origin => obj[p].state # "Writing"
    PROVE  Saves
<1>1. \A o \in Obj : obj[o].gen \in Nat
  BY CopyFields
<1>2. ASSUME NEW q \in Obj, q # p, Listed(q) PROVE Listed(q)' /\ obj'[q].gen = obj[q].gen
  BY <1>2 DEF Listed, Committed, Exists, Same
<1>3. ASSUME NEW q \in Obj, q # p, Sound(q) PROVE Sound(q)'
  <2>1. Spoken(q)' /\ obj'[q].mapped
    BY <1>3 DEF Sound, Committed
  <2> QED BY <1>3, <2>1 DEF Sound, Committed, Exists, Same
<1>4. ASSUME NEW g \in Nat, NEW q \in Obj, q # p, Listed(q), obj[q].gen >= g
      PROVE  Carried(g)'
  BY <1>2, <1>4 DEF Carried
<1>5. ASSUME NEW g \in Nat, g <= obj[p].gen,
             Listed(p) \/ Sound(p) \/ (p \in Migration /\ call[p].pc = "publish")
      PROVE  Carried(g)'
  <2>1. PICK q \in Obj : q # p /\ Listed(q) /\ obj[q].gen >= obj[p].gen
    BY <1>5
  <2>2. obj[q].gen >= g
    BY <1>1, <1>5, <2>1
  <2> QED BY <1>4, <2>1, <2>2
<1>6. ASSUME NEW g \in Nat, Carried(g) PROVE Carried(g)'
  <2>1. PICK r \in Obj : Listed(r) /\ obj[r].gen >= g
    BY <1>6 DEF Carried
  <2>2. CASE r = p
    BY <1>1, <1>5, <2>1, <2>2
  <2>3. CASE r # p
    BY <1>4, <2>1, <2>3
  <2> QED BY <2>2, <2>3
<1>7. ASSUME NEW o \in Obj, NEW g \in Nat, Sound(o), obj[o].gen = g
      PROVE  Sound(o)' \/ Carried(g)'
  <2>1. CASE o = p
    BY <1>1, <1>5, <1>7, <2>1
  <2>2. CASE o # p
    BY <1>3, <1>7, <2>2
  <2> QED BY <2>1, <2>2
<1>8. ASSUME NEW d \in Migration, NEW g \in Nat, call[d].pc = "publish",
             obj[d].mapped, obj[d].gen = g
      PROVE  obj'[d].mapped \/ Carried(g)'
  <2>1. CASE d = p
    BY <1>1, <1>5, <1>8, <2>1
  <2>2. CASE d # p
    BY <1>8, <2>2, CallKinds
  <2> QED BY <2>1, <2>2
<1>9. \A d \in Migration : Awaited(d) /\ obj[d].mapped => obj'[d].mapped
  BY CallKinds
<1>10. Exists(Origin) /\ obj[Origin].mapped /\ obj[Origin].state = "Writing"
         => obj'[Origin].mapped
  BY CallKinds
<1> QED BY <1>6, <1>7, <1>8, <1>9, <1>10 DEF Saves

(* The source that a finished migration gives up has a published           *)
(* successor, and the leader waits for no compare-and-set of it.           *)
LEMMA SourceSpent ==
    ASSUME TypeOK, Refs, ChangeOK, Right, NEW c \in Migration, Leaves(c),
           NEW s \in Obj, s = call[c].src
    PROVE  /\ \E q \in Obj : q # s /\ Listed(q) /\ obj[q].gen >= obj[s].gen
           /\ s \in Migration => ~Awaited(s)
           /\ s = Origin => obj[s].state # "Writing"
<1>1. c \in Obj /\ c \in Call /\ Built(c) /\ Sourced(c) /\ Answered(c) /\ CopyRight(c)
  BY CallKinds DEF Right, MigrationRight
<1>2. /\ call[c].src # None /\ obj[c].published /\ Committed(c) /\ Committed(s)
      /\ obj[c].gen = obj[s].gen + 1 /\ obj[s].gen \in Nat
  <2>1. call[c].pc \in {"free", "unmap"} /\ call[c].src # None
    BY DEF Leaves
  <2>2. obj[c].published /\ Committed(c) /\ Committed(s)
    BY <1>1, <2>1 DEF Built, Sourced, Quiet, Ended
  <2> QED BY <1>1, <2>1, <2>2, CopyFields DEF Sourced, Committed
<1>3. PICK q \in Obj : Listed(q) /\ obj[q].gen >= obj[c].gen
  BY <1>1, <1>2 DEF CopyRight, Carried
<1>4. obj[q].gen \in Nat
  BY CopyFields
<1>5. ASSUME s \in Migration, Awaited(s) PROVE FALSE
  <2>1. /\ issued[s] = term /\ issued[s] <= issued[c] /\ issued[c] <= term
        /\ term \in {0, 1} /\ issued[c] \in {0, 1}
    BY <1>1, <1>5 DEF Awaited, Sourced, ChangeOK
  <2>2. obj[s].gen < table.gen
    BY <1>1, <2>1 DEF Answered
  <2>3. Sourced(s) /\ s \in Call
    BY <1>5, CallKinds DEF Right, MigrationRight
  <2>4. /\ call[s].src # None /\ call[s].prev = obj[call[s].src].gen
        /\ table.gen <= call[s].prev
    BY <1>5, <2>3 DEF Awaited, Sourced, Quiet, Ended
  <2>5. obj[s].gen = call[s].prev + 1
    BY <1>2, <2>3, <2>4 DEF Sourced, Committed
  <2>6. table.gen \in Nat /\ call[s].prev \in Nat
    BY <2>3, EntryFields, CallFields
  <2> QED BY <1>2, <2>2, <2>4, <2>5, <2>6
<1> QED BY <1>2, <1>3, <1>4, <1>5 DEF Committed

LEMMA UnmapRight ==
    ASSUME Base, Base', Unbroken, Unbroken', Right, Serve, NEW c \in Call, Unmap(c)
    PROVE  Right'
<1>1. /\ TypeOK /\ TypeOK' /\ Refs /\ CallStep(c) /\ call[c].pc = "unmap"
      /\ call[c] \in CallState /\ table' = table /\ obj \in [Obj -> Object]
      /\ call[c].h \in Handle /\ Unmade /\ ChangeOK /\ ChangeOK' /\ OwnCopy(c)
  BY CallHandle DEF Base, TypeOK, CallStep, Unmap, leader, Unbroken
<1>2. /\ c \in Migration /\ c \in Obj /\ c # Origin /\ c \notin Release
      /\ None \notin Migration
  <2>1. call[c].pc \in Quiet \cup Steps(c) /\ c \notin Release
    BY <1>1, CallSetup DEF Refs, CallRole
  <2> QED BY <1>1, <2>1, StepsOf, CallKinds DEF Quiet, Ended, Call
<1>3. /\ TermStep(c) /\ heir' = heir /\ gossip' = gossip
      /\ \A d \in Call : d # c => CallSame(d)
  BY <1>1, CallSetup
<1>4. /\ \A o \in Obj : Same(o)
      /\ \A o \in Obj : o # call[c].pin => obj'[o].mapped = obj[o].mapped
      /\ \A o \in Obj : obj'[o].mapped => obj[o].mapped
  <2>1. ~AllocateLocal(c) /\ ~Commit(c) /\ ~Publish(c)
    BY <1>1 DEF AllocateLocal, Commit, Publish, Pinned
  <2> QED BY <1>1, <2>1, CallCopies DEF Same
<1>5. /\ call'[c].pin = None /\ call'[c].src = None
      /\ call'[c].pc \in Ended /\ call'[c].h = NoHandle
  BY <1>1, <1>2, DoneEnds DEF Unmap
<1>6. MoveRight(c)
  BY <1>2, <1>5, MoveEnded
<1>7. CASE call[c].pin = None
  BY <1>1, <1>4, <1>6, <1>7, MoveStill, CallKinds DEF StillCopies, Right, EntriesRight
<1>8. CASE call[c].pin # None
  <2>1. CopyStep(c) /\ Spoken(c)'
    BY <1>4, <1>5 DEF CopyStep, Spoken, Discarding, Ended
  <2>2. \A o \in Obj : Exists(o) /\ Spoken(o) => Spoken(o)'
    BY <1>1, <1>3, <2>1, SpokenSame, CallKinds
  <2>3. PICK p \in Obj : /\ p = call[c].pin /\ p \in {c, call[c].src} /\ Exists(p)
                         /\ obj[p].node = call[c].h.owner
    BY <1>1, <1>2, <1>8, PinnedObject DEF OwnCopy, Exists, Right, CallRight
  <2>4. Sourced(c) /\ CopyRight(c)
    BY <1>2 DEF Right, MigrationRight
  <2>5. Saves
    <3>1. CASE Leaves(c)
      <4>1. p = call[c].src
        BY <2>3, <2>4, <3>1 DEF Leaves, Sourced
      <4>2. /\ \E q \in Obj : q # p /\ Listed(q) /\ obj[q].gen >= obj[p].gen
            /\ p \in Migration => ~Awaited(p)
            /\ p = Origin => obj[p].state # "Writing"
        BY <1>1, <1>2, <3>1, <4>1, SourceSpent
      <4> QED BY <1>1, <1>4, <2>2, <2>3, <4>2, UnmapSaves
    <3>2. CASE ~Leaves(c)
      <4>1. p = c
        BY <1>1, <2>3, <3>2, CallKinds DEF Leaves
      <4>2. ~Spoken(c)
        BY <1>1, <1>2, <3>2 DEF Spoken, Discarding
      <4>3. ~Listed(p) /\ ~Sound(p) /\ call[p].pc # "publish" /\ ~Awaited(p)
        BY <1>1, <1>2, <2>3, <2>4, <4>1, <4>2 DEF Listed, Sound, CopyRight, Awaited
      <4> QED BY <1>1, <1>2, <1>4, <2>2, <2>3, <4>1, <4>3, UnmapSaves
    <3> QED BY <3>1, <3>2
  <2>6. CopyRight(c)'
    BY <1>1, <1>2, <1>3, <1>4, <2>1, <2>5, CopyAgain
  <2>7. SelfRight(c)'
    BY <1>2, <1>6, <2>6 DEF MoveRight, SelfRight
  <2>8. MappedOnce'
    BY <1>4 DEF MappedOnce, Right, Same
  <2>9. EntriesRight'
    <3>1. Known(table') /\ Known(heir') /\ \A m \in gossip' : Known(m.h)
      BY <1>1, <1>3 DEF Right, EntriesRight
    <3> QED BY <1>1, <2>1, <2>5, <3>1, EntriesStay
  <2> QED BY <1>1, <1>3, <2>1, <2>5, <2>7, <2>8, <2>9, RightAgain
<1> QED BY <1>7, <1>8

LEMMA CallStepRight ==
    ASSUME Base, Base', Unbroken, Unbroken', Right, Serve, NEW c \in Call, CallStep(c)
    PROVE  Right'
BY AllocateLocalRight, ArriveRight, WriteChunksRight, CommitRight, RegisterRight,
   RenewRight, FreeCheckRight, UnmapRight, MigrateRight, CompareAndSetRight,
   PublishRight, DropSourceRight, LockSourceRight, StrayRight DEF CallStep

-----------------------------------------------------------------------------
(* The steps that are no call's own *)

(* A call starts or goes on, and no copy changes. *)
LEMMA StartStill ==
    ASSUME Base, Base', Right, Serve, NEW c \in Call, obj' = obj, gossip' = gossip,
           \A d \in Call : d # c => call'[d] = call[d],
           c \in Migration /\ call'[c].pc = "picked"
             => call[c].pc \in {"idle", "picked"},
           MoveRight(c), Known(table')
    PROVE  Right'
<1>1. TermStep(c) /\ heir' = heir /\ \A d \in Call : d # c => CallSame(d)
  BY ServeTerm
<1>2. StillCopies
  BY SameStill
<1>3. Known(heir') /\ \A m \in gossip' : Known(m.h)
  BY <1>1 DEF Right, EntriesRight
<1> QED BY <1>1, <1>2, <1>3, StillRight

LEMMA AllocateRight ==
    ASSUME Base, Base', Right, Serve, NEW n \in Node, Allocate(n)
    PROVE  Right'
<1>1. /\ call \in [Call -> CallState] /\ obj' = obj /\ gossip' = gossip
      /\ table' = table /\ call[Origin].pc = "idle" /\ Origin \in Call
      /\ Origin \notin Migration /\ Origin \notin Renewal
  BY CallKinds DEF Base, TypeOK, Allocate, leader
<1>2. /\ \A d \in Call : d # Origin => call'[d] = call[d]
      /\ call'[Origin].pc = "alloc" /\ call'[Origin].h.gen = 0
      /\ call'[Origin].h.lease = Lease /\ call'[Origin].src = call[Origin].src
      /\ call'[Origin].pin = call[Origin].pin
  BY <1>1 DEF Allocate, CallState
<1>3. call[Origin].pin = None /\ call[Origin].src = None
  BY <1>1 DEF Right, CallRight, OwnerStep
<1>4. Lease # Tombstone
  BY ConstantsAssumption DEF Tombstone
<1>5. CallRight(Origin)' /\ OriginRight'
  BY <1>1, <1>2, <1>3, <1>4 DEF CallRight, OriginRight
<1>6. MoveRight(Origin)
  BY <1>1, <1>5 DEF MoveRight
<1> QED BY <1>1, <1>2, <1>6, StartStill DEF Right, EntriesRight

LEMMA GrantRight ==
    ASSUME Base, Base', Right, Serve, Grant
    PROVE  Right'
<1>1. /\ call \in [Call -> CallState] /\ obj' = obj /\ gossip' = gossip
      /\ call[Origin].pc = "grant" /\ Origin \in Call
      /\ Origin \notin Migration /\ Origin \notin Renewal
      /\ call[Origin].h \in Handle /\ table \in Handle
  BY CallKinds, CallHandle DEF Base, TypeOK, Grant
<1>2. /\ \A d \in Call : d # Origin => call'[d] = call[d]
      /\ call'[Origin].pc = "toWrite" /\ call'[Origin].h = call[Origin].h
      /\ call'[Origin].src = call[Origin].src
      /\ call'[Origin].pin = call[Origin].pin
  BY <1>1 DEF Grant, CallState
<1>3. /\ call[Origin].pin = None /\ call[Origin].src = None
      /\ call[Origin].h.lease # Tombstone
  BY <1>1 DEF Right, CallRight, OwnerStep
<1>4. CallRight(Origin)' /\ OriginRight'
  BY <1>1, <1>2, <1>3 DEF CallRight, OriginRight
<1>5. MoveRight(Origin)
  BY <1>1, <1>4 DEF MoveRight
<1>6. Known(call[Origin].h)
  BY <1>1, <1>3 DEF Known, Right, OriginRight
<1>7. Known(table')
  BY <1>1, <1>6, KnownRegistered DEF Grant, Right, EntriesRight
<1> QED BY <1>1, <1>2, <1>5, <1>7, StartStill

LEMMA ResolvedRight ==
    ASSUME Base, Base', Right, Serve, NEW c \in Call, NEW step,
           ResolveFor(c, step),
           \/ c = Origin /\ step \in {"write", "commit"}
                /\ call[c].pc \in {"toWrite", "toCommit"}
           \/ c \in Renewal /\ step = "renew" /\ call[c].pc = "idle"
    PROVE  Right'
<1>1. /\ TypeOK /\ TypeOK' /\ Refs /\ call \in [Call -> CallState]
      /\ obj' = obj /\ gossip' = gossip /\ table' = table /\ table \in Handle
      /\ c \notin Migration /\ (c # Origin => c \notin Obj)
  BY CallKinds DEF Base, TypeOK, ResolveFor, leader
<1>2. /\ \A d \in Call : d # c => call'[d] = call[d]
      /\ call'[c].pc = step /\ call'[c].h = table
      /\ call'[c].src = call[c].src /\ call'[c].pin = call[c].pin
  BY <1>1 DEF ResolveFor, CallState
<1>3. call[c].pin = None /\ call[c].src = None
  BY <1>1 DEF Right, CallRight, OwnerStep
<1>4. Known(table)
  BY DEF Right, EntriesRight
<1>5. CopyStep(c) /\ Saves
  <2>1. StillCopies /\ \A d \in Call : d # c => CallSame(d)
    BY <1>1, <1>2, SameStill DEF CallSame
  <2> QED BY <1>1, <2>1, StillSetup
<1>6. PICK h \in Handle : h = table /\ h = call'[c].h
  BY <1>1, <1>2
<1>7. Known(h)' /\ h.lease # Tombstone
  BY <1>1, <1>4, <1>5, <1>6, KnownStays DEF Known
<1>8. CallRight(c)'
  BY <1>1, <1>2, <1>3, <1>6, <1>7 DEF CallRight
<1>9. c = Origin => OriginRight'
  BY <1>2, CallKinds DEF OriginRight
<1>10. MoveRight(c)
  BY <1>1, <1>8, <1>9 DEF MoveRight
<1> QED BY <1>1, <1>2, <1>4, <1>10, StartStill

LEMMA PickRight ==
    ASSUME Base, Base', Right, Serve, NEW c \in Call, PickForMigration(c)
    PROVE  Right'
<1>1. /\ TypeOK /\ Refs /\ ChangeOK /\ Unmade /\ call \in [Call -> CallState]
      /\ obj' = obj /\ gossip' = gossip /\ table' = table /\ call[c].pc = "idle"
      /\ c \in Migration /\ c \in Obj /\ c # Origin /\ c \notin Renewal
  BY CallKinds DEF Base, TypeOK, PickForMigration, leader
<1>2. /\ \A d \in Call : d # c => call'[d] = call[d]
      /\ call'[c].pc = "picked" /\ call'[c].h = table
      /\ call'[c].src = call[c].src /\ call'[c].pin = call[c].pin
  BY <1>1 DEF PickForMigration, CallState
<1>3. ~Exists(c) /\ ~Exists(c)'
  BY <1>1 DEF Unmade, Early, Exists
<1>4. CallRight(c)'
  <2>1. call[c].pin = None /\ table.lease # Tombstone
    BY <1>1 DEF Right, CallRight, OwnerStep, EntriesRight, Known
  <2> QED BY <1>1, <1>2, <2>1 DEF CallRight
<1>5. PICK s \in Obj \cup {None} : s = call[c].src /\ s = call'[c].src
  BY <1>1, <1>2, CallFields
<1>6. s \in Migration => issued'[s] <= issued'[c]
  <2>1. TermStep(c) /\ issued'[c] \in {issued[c], term}
    BY <1>1, <1>2, ServeTerm
  <2>2. s \in Migration => s # c
    BY <1>1, <1>3, <1>5, CallKinds DEF Refs, CallHolds, Exists
  <2>3. s \in Migration => issued'[s] = issued[s]
    BY <2>1, <2>2 DEF TermStep
  <2>4. s \in Migration => issued[s] <= issued[c] /\ issued[s] <= term
    BY <1>1, <1>5 DEF Right, MigrationRight, Sourced, ChangeOK
  <2> QED BY <2>1, <2>3, <2>4
<1>7. MigrationRight(c)'
  <2>1. ~Leaves(c)' /\ ~Awaited(c)'
    BY <1>2 DEF Leaves, Awaited
  <2>2. Built(c)' /\ Answered(c)'
    BY <1>2, <2>1 DEF Built, Answered
  <2>3. Sourced(c)'
    BY <1>2, <1>3, <1>5, <1>6 DEF Sourced
  <2> QED BY <2>2, <2>3 DEF MigrationRight
<1>8. MoveRight(c)
  BY <1>1, <1>3, <1>4, <1>7 DEF MoveRight
<1> QED BY <1>1, <1>2, <1>8, StartStill DEF Right, EntriesRight

LEMMA StartRight ==
    ASSUME Base, Base', Unbroken', Right, Serve, Start
    PROVE  Right'
<1>1. ASSUME NEW c \in Call, StartFree(c) PROVE FALSE
  <2>1. call \in [Call -> CallState] /\ c \in Release
    BY <1>1 DEF Base, TypeOK, StartFree
  <2>2. call'[c].pc = "free"
    BY <1>1, <2>1 DEF StartFree, ResolveFor
  <2> QED BY <2>1, <2>2 DEF Unbroken
<1>2. CASE ClientWrite \/ ClientCommit
  BY <1>2, ResolvedRight, CallKinds DEF ClientWrite, ClientCommit
<1>3. ASSUME NEW c \in Call, StartRenew(c) PROVE Right'
  BY <1>3, ResolvedRight DEF StartRenew
<1> QED BY <1>1, <1>2, <1>3, AllocateRight, GrantRight, PickRight DEF Start

LEMMA LoseNodeKnown ==
    ASSUME NEW t \in Handle, NEW n \in Node
    PROVE  /\ LoseNode(t, n) \in Handle
           /\ Known(t) => Known(LoseNode(t, n))
BY LoseNodeType DEF Known

(* A step of nobody's call that changes no copy. *)
LEMMA EntryRight ==
    ASSUME Base, Base', Right, StillCopies, \A d \in Call : CallSame(d),
           \A k \in Node : knows[k] <= knows'[k], issued' = issued,
           \A d \in Migration :
             issued[d] = term' => issued[d] = term /\ table.gen <= table'.gen,
           Known(table'), Known(heir'), \A m \in gossip' : Known(m.h)
    PROVE  Right'
<1>1. TermStep(None)
  BY DEF TermStep
<1>2. None \notin Call
  BY CallKinds
<1> QED BY <1>1, <1>2, StillRight

LEMMA MembershipRight ==
    ASSUME Base, Base', Right, Serve, Membership
    PROVE  Right'
<1>1. /\ TypeOK /\ table \in Handle /\ ChangeOK
      /\ \A m \in gossip : m.h \in Handle /\ m.node \in Node
  BY EntryFields DEF Base
<1>2. call' = call /\ obj' = obj
  BY DEF Membership, Exchange, AcceptPeer, DropGossip, ExpirePeer, RefreshCapabilities
<1>3. /\ term' = term /\ knows' = knows /\ heir' = heir /\ table.gen <= table'.gen
      /\ \A d \in Migration : issued'[d] = issued[d]
      /\ TermStep(Origin)
  <2>1. TermStep(Origin) /\ term' = term /\ knows' = knows /\ heir' = heir
        /\ table.gen <= table'.gen
    BY <1>2, ServeTerm, CallKinds
  <2> QED BY <2>1, CallKinds DEF TermStep
<1>4. TermStep(None) /\ StillCopies /\ None \notin Call
      /\ \A d \in Call : CallSame(d)
  BY <1>2, <1>3, SameStill, CallKinds DEF TermStep, CallSame
<1>5. Known(table) /\ Known(heir') /\ \A m \in gossip : Known(m.h)
  BY <1>3 DEF Right, EntriesRight
<1>6. SUFFICES Known(table') /\ \A m \in gossip' : Known(m.h)
  BY <1>4, <1>5, StillRight
<1>7. ASSUME NEW n \in Node, Exchange(n)
      PROVE  Known(table') /\ \A m \in gossip' : Known(m.h)
  <2>1. PICK h : /\ \/ \E o \in MappedAt(n) : obj[o].published /\ h = HandleOf(o)
                    \/ h = NoHandle
                 /\ gossip' = gossip \cup {[node |-> n, inc |-> inc[n], h |-> h]}
                 /\ table' = table
    BY <1>7 DEF Exchange, leader
  <2>2. Known(h)
    <3>1. CASE h = NoHandle
      BY <3>1 DEF Known, NoHandle, Tombstone
    <3>2. ASSUME NEW o \in MappedAt(n), obj[o].published, h = HandleOf(o)
          PROVE  Known(h)
      <4>1. o \in Obj /\ Exists(o) /\ CopyRight(o)
        BY CallKinds DEF MappedAt, Exists, Right
      <4>2. h.gen = obj[o].gen /\ h.lease # Tombstone
        BY <1>1, <3>2, <4>1, HandleOfType DEF HandleOf, Exists
      <4>3. obj[o].gen = 0 \/ Carried(obj[o].gen)
        BY <3>2, <4>1 DEF CopyRight, Obj
      <4> QED BY <4>2, <4>3 DEF Known
    <3> QED BY <2>1, <3>1, <3>2
  <2> QED BY <1>5, <2>1, <2>2
<1>8. ASSUME NEW m \in gossip, AcceptPeer(m)
      PROVE  Known(table') /\ \A k \in gossip' : Known(k.h)
  <2>1. PICK t \in Handle : /\ t \in {table, LoseNode(table, m.node)}
                            /\ table' = IF m.h = NoHandle THEN t ELSE Registered(t, m.h)
    BY <1>1, <1>8, LoseNodeKnown DEF AcceptPeer
  <2>2. Known(t)
    BY <1>1, <1>5, <2>1, LoseNodeKnown
  <2>3. Known(table')
    BY <1>1, <1>5, <2>1, <2>2, KnownRegistered
  <2> QED BY <1>5, <1>8, <2>3 DEF AcceptPeer
<1>9. ASSUME NEW n \in Node, ExpirePeer(n) \/ RefreshCapabilities(n)
      PROVE  Known(table') /\ \A m \in gossip' : Known(m.h)
  BY <1>1, <1>5, <1>9, LoseNodeKnown DEF ExpirePeer, RefreshCapabilities
<1>10. ASSUME NEW m \in gossip, DropGossip(m)
       PROVE  Known(table') /\ \A k \in gossip' : Known(k.h)
  BY <1>5, <1>10 DEF DropGossip, leader
<1> QED BY <1>7, <1>8, <1>9, <1>10 DEF Membership

LEMMA AgedKnown ==
    ASSUME NEW h \in Handle
    PROVE  /\ AgedHandle(h).owner = h.owner /\ AgedHandle(h).gen = h.gen
           /\ AgedHandle(h).lease = Tombstone => h.lease = Tombstone
           /\ Known(h) => Known(AgedHandle(h))
BY AgedType DEF Known

LEMMA FTickRight ==
    ASSUME Base, Base', Right, FTick
    PROVE  Right'
<1>1. /\ TypeOK /\ table \in Handle /\ heir \in Handle /\ ChangeOK
      /\ obj \in [Obj -> Object] /\ call \in [Call -> CallState]
      /\ \A m \in gossip : m.h \in Handle
  BY EntryFields DEF Base, TypeOK, ChangeOK
<1>2. StillCopies
  BY <1>1 DEF StillCopies, Same, FTick, Tick, Object
<1>3. ASSUME NEW d \in Call PROVE CallSame(d)
  <2>1. /\ call'[d].pc = call[d].pc /\ call'[d].src = call[d].src
        /\ call'[d].pin = call[d].pin /\ call'[d].prev = call[d].prev
        /\ call'[d].h = AgedHandle(call[d].h)
    BY <1>1 DEF FTick, Tick, CallState
  <2>2. call[d].h \in Handle
    BY <1>1, CallFields
  <2> QED BY <2>1, <2>2, AgedKnown DEF CallSame
<1>4. /\ term' = term /\ knows' = knows /\ issued' = issued
      /\ table' = AgedHandle(table) /\ heir' = AgedHandle(heir)
      /\ gossip' = {[m EXCEPT !.h = AgedHandle(@)] : m \in gossip}
  BY DEF FTick, Tick
<1>5. Known(table) /\ Known(heir) /\ \A m \in gossip : Known(m.h)
  BY DEF Right, EntriesRight
<1>6. \A m \in gossip' : Known(m.h)
  <2> SUFFICES ASSUME NEW k \in gossip PROVE Known([k EXCEPT !.h = AgedHandle(@)].h)
    BY <1>4
  <2>1. [k EXCEPT !.h = AgedHandle(@)].h = AgedHandle(k.h)
    <3>1. k \in [node : Node, inc : Nat, h : Handle]
      BY <1>1 DEF TypeOK
    <3> QED BY <3>1
  <2> QED BY <1>1, <1>5, <2>1, AgedKnown
<1>7. /\ \A k \in Node : knows[k] <= knows'[k]
      /\ table.gen <= table'.gen
  <2>1. table.gen \in Nat /\ table'.gen = table.gen
    BY <1>1, <1>4, AgedKnown, HandleFields
  <2> QED BY <1>1, <1>4, <2>1 DEF ChangeOK
<1> QED BY <1>1, <1>2, <1>3, <1>4, <1>5, <1>6, <1>7, AgedKnown, EntryRight

(* What the heir hears and the owners learn. *)
LEMMA HeirRight ==
    ASSUME Base, Base', Right,
           \/ \E m \in gossip : HeirHears(m)
           \/ \E n \in Node : HeirExpires(n) \/ Learn(n)
           \/ \E c \in Obj : Admit(c)
           \/ UNCHANGED fvars
    PROVE  Right'
<1>1. /\ TypeOK /\ Refs /\ ChangeOK /\ heir \in Handle /\ table.gen \in Nat
      /\ \A m \in gossip : m.h \in Handle
  BY EntryFields DEF Base, ChangeOK
<1>2. /\ obj' = obj /\ call' = call /\ table' = table /\ term' = term
      /\ issued' = issued /\ gossip' \subseteq gossip
  BY DEF HeirHears, HeirExpires, Learn, Admit, fvars, vars, leader, change
<1>3. \A k \in Node : knows[k] <= knows'[k]
  <2>1. CASE knows' = knows
    BY <1>1, <2>1 DEF ChangeOK
  <2>2. ASSUME NEW n \in Node, Learn(n) PROVE \A k \in Node : knows[k] <= knows'[k]
    BY <1>1, <2>2 DEF Learn, ChangeOK
  <2> QED BY <2>1, <2>2 DEF HeirHears, HeirExpires, Admit, fvars, change
<1>4. Known(table) /\ Known(heir) /\ \A m \in gossip : Known(m.h)
  BY DEF Right, EntriesRight
<1>5. Known(heir')
  <2>1. CASE heir' = heir
    BY <1>4, <2>1
  <2>2. ASSUME NEW n \in Node, HeirExpires(n) PROVE Known(heir')
    BY <1>1, <1>4, <2>2, LoseNodeKnown DEF HeirExpires
  <2>3. ASSUME NEW m \in gossip, HeirHears(m) PROVE Known(heir')
    <3>1. PICK t \in Handle :
            /\ t.owner = heir.owner /\ t.gen = heir.gen /\ t.lease = heir.lease
            /\ heir' = IF m.h = NoHandle THEN t ELSE Registered(t, m.h)
      BY <1>1, <2>3, HeirHearsShape
    <3>2. Known(t)
      BY <1>4, <3>1 DEF Known
    <3> QED BY <1>1, <1>4, <3>1, <3>2, KnownRegistered
  <2> QED BY <2>1, <2>2, <2>3 DEF Learn, Admit, fvars, change
<1>6. StillCopies /\ \A d \in Call : CallSame(d)
  BY <1>2, SameStill DEF CallSame
<1> QED BY <1>1, <1>2, <1>3, <1>4, <1>5, <1>6, EntryRight

(* The heir starts to lead with what it has heard.  No request of the      *)
(* first leader's can succeed at it.                                       *)
LEMMA TakeOverRight ==
    ASSUME Base, Base', Right, TakeOver
    PROVE  Right'
<1>1. TypeOK /\ ChangeOK /\ term = 0 /\ term' = 1
      /\ knows' = [n \in Node |-> IF n = Heir THEN 1 ELSE knows[n]]
      /\ issued' = issued /\ obj' = obj /\ table' = heir /\ heir' = NoHandle
      /\ gossip' \subseteq gossip
  BY DEF Base, TakeOver
<1>2. /\ \A d \in Call : d # Origin => call'[d] = call[d]
      /\ \/ call'[Origin] = [call[Origin] EXCEPT !.live = FALSE]
            /\ call[Origin].pc = "alloc"
         \/ call'[Origin] = Over("denied")
         \/ call'[Origin] = call[Origin]
  BY <1>1, TakeOverCalls DEF Only
<1>3. TermStep(Origin)
  <2>1. \A d \in Migration : issued[d] <= 0 /\ issued[d] \in {0, 1}
    BY <1>1 DEF ChangeOK
  <2>2. \A k \in Node : knows[k] <= knows'[k]
    BY <1>1 DEF ChangeOK
  <2> QED BY <1>1, <2>1, <2>2 DEF TermStep
<1>4. StillCopies /\ \A d \in Call : d # Origin => CallSame(d)
  BY <1>1, <1>2, SameStill DEF CallSame
<1>5. Known(table') /\ Known(heir') /\ \A m \in gossip' : Known(m.h)
  <2>1. Known(NoHandle)
    BY DEF Known, NoHandle, Tombstone
  <2> QED BY <1>1, <2>1 DEF Right, EntriesRight
<1>6. MoveRight(Origin)
  <2>0. Origin \in Call /\ Origin \notin Migration /\ Origin \notin Renewal
    BY CallKinds
  <2>1. CASE call'[Origin] = Over("denied")
    <3>1. /\ call'[Origin].pc = "denied" /\ call'[Origin].pin = None
          /\ call'[Origin].src = None /\ call'[Origin].h = NoHandle
      BY <2>1 DEF Over, IdleCall
    <3> QED BY <2>0, <3>1, MoveEnded DEF Ended
  <2>2. CASE /\ call'[Origin].pc = call[Origin].pc /\ call'[Origin].h = call[Origin].h
             /\ call'[Origin].pin = call[Origin].pin
             /\ call'[Origin].src = call[Origin].src
    <3>1. CallRight(Origin)'
      BY <1>1, <2>0, <2>2 DEF Right, CallRight
    <3>2. OriginRight'
      BY <1>1, <2>2 DEF Right, OriginRight, Committed, Exists
    <3> QED BY <2>0, <3>1, <3>2 DEF MoveRight
  <2>3. call[Origin] \in CallState
    BY <1>1, <2>0 DEF TypeOK
  <2>4. CASE call'[Origin] = [call[Origin] EXCEPT !.live = FALSE]
    BY <2>2, <2>3, <2>4 DEF CallState
  <2> QED BY <1>2, <2>1, <2>2, <2>4
<1> QED BY <1>3, <1>4, <1>5, <1>6, StillRight, CallKinds

-----------------------------------------------------------------------------
LEMMA RightInit == FInit => Base /\ Right
<1> SUFFICES ASSUME FInit PROVE Base /\ Right
  OBVIOUS
<1>1. TypeOK /\ Refs
  BY InitFine DEF FInit
<1>2. /\ \A o \in Obj : obj[o] = NoObject
      /\ \A c \in Call : call[c] = IdleCall
      /\ table = NoHandle /\ heir = NoHandle /\ gossip = {}
  BY DEF FInit, Init
<1>3. /\ \A o \in Obj : /\ ~Exists(o) /\ ~obj[o].mapped /\ ~obj[o].published
      /\ \A c \in Call : /\ call[c].pc = "idle" /\ call[c].h = NoHandle
                         /\ call[c].src = None /\ call[c].pin = None
  BY <1>2 DEF Exists, NoObject, IdleCall
<1>4. ChangeOK
  <2>1. NoHandle \in Handle /\ NoHandle.gen = 0
    BY NoHandleType DEF NoHandle
  <2>2. /\ term = 0 /\ knows = [n \in Node |-> 0] /\ heirPeer = [n \in Node |-> 1]
        /\ \A c \in Migration : issued[c] = 0
        /\ admitted = {}
    BY CallKinds DEF FInit
  <2>3. AdmittedOK
    BY <2>2 DEF AdmittedOK
  <2> QED BY <1>2, <2>1, <2>2, <2>3 DEF ChangeOK
<1>5. Unmade
  BY <1>3 DEF Unmade
<1>6. Known(NoHandle) /\ NoHandle.lease # Tombstone
  BY DEF Known, NoHandle, Tombstone
<1>7. MappedOnce /\ EntriesRight
  BY <1>2, <1>3, <1>6 DEF MappedOnce, EntriesRight
<1>8. OriginRight /\ \A c \in Call : CallRight(c)
  BY <1>3, <1>6, CallKinds DEF OriginRight, CallRight
<1>9. \A o \in Obj : CopyRight(o)
  BY <1>3 DEF CopyRight
<1>10. ASSUME NEW c \in Migration PROVE MigrationRight(c)
  <2>1. /\ c \in Call /\ c \in Obj /\ call[c].pc = "idle" /\ call[c].src = None
        /\ None \notin Migration
    BY <1>3, CallKinds
  <2>2. ~Leaves(c) /\ ~Awaited(c)
    BY <2>1 DEF Leaves, Awaited
  <2>3. Built(c) /\ Answered(c)
    BY <2>1, <2>2 DEF Built, Answered
  <2>4. Sourced(c)
    BY <2>1 DEF Sourced, Quiet
  <2> QED BY <2>3, <2>4 DEF MigrationRight
<1> QED BY <1>1, <1>4, <1>5, <1>7, <1>8, <1>9, <1>10 DEF Base, Right

LEMMA RightNext ==
    ASSUME Base, Unbroken => Right, [FNext]_fvars
    PROVE  Base' /\ (Unbroken' => Right')
<1>1. Base'
  BY BaseKept
<1>2. ASSUME Unbroken' PROVE Right'
  <2>1. CASE UNCHANGED fvars
    <3>1. Unbroken
      BY <1>2, <2>1 DEF fvars, vars, Unbroken, NoRestart, Exists
    <3> QED BY <1>1, <2>1, <3>1, HeirRight
  <2>2. CASE FNext
    <3>1. Unbroken /\ (\A o \in Obj : ~Expire(o)) /\ (\A n \in Node : ~Restart(n))
      BY <1>2, <2>2, UnbrokenBefore
    <3>2. CASE Serve
      BY <1>1, <1>2, <3>1, <3>2, CallStepRight, StartRight, MembershipRight
      DEF Serve, Work
    <3> QED BY <1>1, <2>2, <3>1, <3>2, FTickRight, HeirRight, TakeOverRight DEF FNext
  <2> QED BY <2>1, <2>2
<1> QED BY <1>1, <1>2

(* The copy that a table may be told of is intact. *)
LEMMA RightSurvives ==
    ASSUME Base, Unbroken => Right, ~crossed, Unharmed
    PROVE  \E o \in Intact : InTable(o) \/ Welcome(o)
<1>1. TypeOK /\ Right
  BY DEF Unharmed, Unbroken, NoRestart, Exists, Base
<1>2. \A o \in Obj : obj[o].mapped /\ Committed(o) => o \in Intact
  BY DEF Unharmed, Intact, Committed, Exists
<1>3. table.gen \in Nat /\ Known(table)
  BY <1>1, EntryFields DEF Right, EntriesRight
<1>4. Carried(0)
  BY <1>1, CallKinds DEF Unharmed, Right, OriginRight, CopyRight, Committed
<1>5. CASE table.gen = 0 \/ Carried(table.gen)
  <2>1. PICK q \in Obj : Listed(q) /\ obj[q].gen >= table.gen
    BY <1>4, <1>5 DEF Carried
  <2>2. table.gen <= obj[q].gen /\ obj[q].published /\ q \in Intact
    BY <1>1, <1>2, <1>3, <2>1, CopyFields DEF Listed
  <2> QED BY <2>2 DEF Welcome
<1>6. ASSUME NEW q \in Obj, Sound(q), obj[q].node = table.owner,
             obj[q].gen = table.gen
      PROVE  \E o \in Intact : InTable(o)
  BY <1>2, <1>6 DEF Sound, InTable
<1> QED BY <1>3, <1>5, <1>6 DEF Known

LEMMA RightAlways == FSpec => [](Base /\ (Unbroken => Right))
<1>1. FInit => Base /\ (Unbroken => Right)
  BY RightInit
<1>2. Base /\ (Unbroken => Right) /\ [FNext]_fvars => (Base /\ (Unbroken => Right))'
  BY RightNext
<1> QED BY <1>1, <1>2, PTL DEF FSpec

(* A block whose upload was acknowledged survives a change of leader at    *)
(* any point of a migration (module Failover): as long as no lease has run *)
(* out, no owner has restarted, nobody frees it and no request has acted   *)
(* on another copy than its own, an intact copy is there that the leader's *)
(* table lists or would take.  Where the heir is one of the owners that    *)
(* copy may be its own, which its table never takes (Overlooked): the      *)
(* theorem says that the bytes are there, not that the leader finds them.  *)
(* It is about the order of register, publish and free in migrate          *)
(* (memory/migration.rs), validate_leadership (runtime/mod.rs) and the     *)
(* tables that inventories fill (accept_peer in runtime/monitor.rs).       *)
THEOREM BlockSurvives == FSpec => [](~crossed => CopySurvives)
<1>1. Base /\ (Unbroken => Right) => (~crossed => CopySurvives)
  BY RightSurvives DEF CopySurvives, Offered, Overlooked
<1> QED BY <1>1, RightAlways, PTL

(* When the heir owns no copy of the block, the leader also finds the copy *)
(* that survives: its table lists it, or takes it from the next inventory  *)
(* of an owner that is not the leader.                                     *)
THEOREM BlockFound ==
    ASSUME Heir \notin Node
    PROVE  FSpec => [](~crossed => CopyFound)
<1>1. Base /\ (Unbroken => Right) => (~crossed => CopyFound)
  <2> SUFFICES ASSUME Base, Unbroken => Right, ~crossed, Unharmed
               PROVE  \E o \in Intact : InTable(o) \/ Offered(o)
    BY DEF CopyFound
  <2>1. PICK o \in Intact : InTable(o) \/ Welcome(o)
    BY RightSurvives
  <2>2. obj[o].mapped /\ o \in Obj
    BY <2>1 DEF Intact
  <2>3. obj[o].node \in Node
    BY <2>2, CopyFields DEF Base, TypeOK, Refs, MappedExist, Exists
  <2>4. ~LeadersOwn(o)
    BY <2>3 DEF LeadersOwn
  <2> QED BY <2>1, <2>4 DEF Offered
<1> QED BY <1>1, RightAlways, PTL

=============================================================================
