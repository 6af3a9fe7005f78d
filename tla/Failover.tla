------------------------------ MODULE Failover -------------------------------
(***************************************************************************)
(* The leader dies and another daemon takes over, while a block lives its  *)
(* life (module BlockResidency).  Every daemon keeps a residency table     *)
(* that it fills from the inventories of its own exchanges; the heir's is  *)
(* what it starts to lead with.  Registrations, compare-and-sets and       *)
(* tombstones went to the dead leader only.                                *)
(*                                                                         *)
(* Requests carry the leadership they were issued under, and whoever       *)
(* executes one compares it with its own view when it arrives              *)
(* (validate_leadership); the owners learn of the change one by one.  A    *)
(* request that is refused is an RpcError of BlockResidency.  There is one *)
(* change of leader, and the heir does not restart.                        *)
(***************************************************************************)
EXTENDS BlockResidency

CONSTANT
    Heir   \* who takes over: one of the owners, or a daemon that owns nothing

VARIABLES
    admitted,  \* AllocateLocal requests an owner has validated, with the term
    term,      \* 0 under the first leader, 1 under the heir
    knows,     \* knows[n]: the term in the view of owner n
    issued,    \* issued[c]: the term in the leadership that c carries
    heir,      \* the heir's residency entry
    heirPeer   \* heirPeer[n]: incarnation the heir has for n, 0 if none

change == <<term, knows, issued, heir, heirPeer, admitted>>
fvars == <<vars, change>>

(* The leadership a call carries is read when the leader sends AllocateLocal *)
(* or Migrate, and by the owner or the client's daemon when it registers.  *)
Issued(c) ==
    LET to == call'[c].pc IN
    IF to = call[c].pc THEN issued[c]
    ELSE CASE to = "picked" \/ (to = "alloc" /\ c = Origin) -> term
           [] to = "register" /\ c \in Release -> term
           [] to = "register" /\ c \notin Release -> knows[call[c].h.owner]
           [] OTHER -> issued[c]

(* AllocateLocal arrives at the owner, which compares the leadership and   *)
(* then waits for its locks.                                               *)
Admit(c) ==
    /\ call[c].pc = "alloc"
    /\ knows[call[c].h.owner] = issued[c]
    /\ admitted' = admitted \cup {<<c, call[c].h.owner, issued[c]>>}
    /\ UNCHANGED <<vars, term, knows, issued, heir, heirPeer>>

(* validate_leadership: AllocateLocal and Publish at the owner of the new  *)
(* copy, before it waits for the map or pins the block, Migrate at the     *)
(* source, Register at the leader.                                         *)
Valid(c) ==
    LET from == call[c].pc
        to == call'[c].pc
        at == call[c].h.owner
    IN  /\ from = "alloc" /\ obj'[c] # obj[c]
             => <<c, at, issued[c]>> \in admitted
        /\ from = "picked" /\ to = "lock" => knows[at] = issued[c]
        /\ from = "publish" /\ call[c].pin = None /\ call'[c].pin # None
             => knows[at] = issued[c]
        /\ from \in {"register", "cas"} /\ call'[c] # call[c]
             /\ (table' # table \/ to \in {"done", "publish"})
             => issued[c] = term

(* accept_peer refuses the daemon's own id, and a daemon does not expire   *)
(* itself: once the heir leads, none of its inventories is on its way to   *)
(* the leader, and its entry in the leader's membership stays.             *)
LeaderIsHeir ==
    \A n \in Node : n = Heir =>
        /\ inc'[n] = inc[n]
        /\ term = 1 => /\ peer'[n] = peer[n]
                       /\ \A m \in gossip' : m.node # n

(* A step of BlockResidency under whatever leadership is current. *)
Serve ==
    /\ Work
    /\ \A c \in Call : Valid(c)
    /\ LeaderIsHeir
    /\ issued' = [c \in Call |-> Issued(c)]
    /\ admitted' = {a \in admitted : call'[a[1]].pc = "alloc"}
    /\ UNCHANGED <<term, knows, heir, heirPeer>>

FTick ==
    /\ Tick
    /\ heir' = AgedHandle(heir)
    /\ UNCHANGED <<term, knows, issued, heirPeer, admitted>>

(* accept_peer at the heir, which fails no job: it has none.  It refuses   *)
(* the heir's own id.                                                      *)
HeirHears(m) ==
    LET restarted == heirPeer[m.node] \notin {0, m.inc}
        after == IF restarted THEN LoseNode(heir, m.node) ELSE heir
    IN  /\ term = 0
        /\ m.node # Heir
        /\ gossip' = gossip \ {m}
        /\ heir' = IF m.h = NoHandle THEN after ELSE Registered(after, m.h)
        /\ heirPeer' = [heirPeer EXCEPT ![m.node] = m.inc]
        /\ UNCHANGED <<inc, obj, leader, call, crossed, term, knows, issued,
                       admitted>>

(* The heir's monitor has not heard from n for the membership timeout. *)
HeirExpires(n) ==
    /\ term = 0
    /\ n # Heir
    /\ heirPeer[n] # 0
    /\ heirPeer' = [heirPeer EXCEPT ![n] = 0]
    /\ heir' = LoseNode(heir, n)
    /\ UNCHANGED <<vars, term, knows, issued, admitted>>

(* The leader is gone, with its table, its jobs and the handler of an      *)
(* Allocate, whose AllocateLocal may still execute.  To the heir the job   *)
(* is lost, and what the heir itself owns is not in its table.             *)
TakeOver ==
    /\ term = 0
    /\ term' = 1
    /\ table' = heir
    /\ peer' = heirPeer
    /\ jobError' = TRUE
    /\ Lapse
    /\ call' = [call EXCEPT
                  ![Origin] = CASE @.pc = "alloc" -> [@ EXCEPT !.live = FALSE]
                                [] @.pc = "grant" -> Over("denied")
                                [] OTHER -> @]
    /\ heir' = NoHandle
    /\ knows' = [n \in Node |-> IF n = Heir THEN 1 ELSE knows[n]]
    /\ gossip' = {m \in gossip : m.node # Heir}
    /\ UNCHANGED <<inc, obj, crossed, issued, heirPeer, admitted>>

(* Owner n's view of the leader changes. *)
Learn(n) ==
    /\ knows[n] < term
    /\ knows' = [knows EXCEPT ![n] = term]
    /\ UNCHANGED <<vars, term, issued, heir, heirPeer, admitted>>

-----------------------------------------------------------------------------
FInit ==
    /\ Init
    /\ term = 0
    /\ knows = [n \in Node |-> 0]
    /\ issued = [c \in Call |-> 0]
    /\ heir = NoHandle
    /\ heirPeer = [n \in Node |-> 1]
    /\ admitted = {}

FNext ==
    \/ Serve \/ FTick
    \/ \E c \in Obj : Admit(c)
    \/ \E m \in gossip : HeirHears(m)
    \/ \E n \in Node : HeirExpires(n) \/ Learn(n)
    \/ TakeOver

FSpec == FInit /\ [][FNext]_fvars

-----------------------------------------------------------------------------
(* Properties *)

(* The complete copies that still have a lease. *)
Intact == {o \in Obj : /\ obj[o].mapped
                       /\ obj[o].state = "Ready"
                       /\ obj[o].lease > 0}

(* The leader's table names the copy; that of an owner the leader has not  *)
(* heard from is marked lost until the owner's next exchange.              *)
InTable(o) == table.owner = obj[o].node /\ table.gen = obj[o].gen

(* The leader's table would take it from an inventory of its owner. *)
Welcome(o) == obj[o].published /\ table.gen <= obj[o].gen

(* Its owner's next inventory brings it there, unless the owner is the     *)
(* leader itself, whose own inventory accept_peer refuses.                 *)
LeadersOwn(o) == term = 1 /\ obj[o].node = Heir
Offered(o) == Welcome(o) /\ ~LeadersOwn(o)
Overlooked(o) == Welcome(o) /\ LeadersOwn(o)

(* Nothing that the copies are not expected to outlive has happened: no    *)
(* restart, no Free and no lease that has run out.                         *)
Unharmed ==
    /\ call[Origin].pc = "done"
    /\ \A n \in Node : inc[n] = 1
    /\ \A f \in Release : call[f].pc = "idle"
    /\ \A o \in Obj : obj[o].node # None => obj[o].lease > 0

(* A block whose upload was acknowledged survives a change of leader at    *)
(* any point of a migration and is found again: an intact copy is there    *)
(* that the leader lists or that its owner's next inventory brings into    *)
(* the leader's table.  Neither the dead leader's compare-and-set nor a    *)
(* stale inventory of the heir's may leave a table that names a generation *)
(* nobody holds and turns the surviving one down.  The code gives this     *)
(* when the heir owns no copy of the block, Heir \notin Node.              *)
CopyFound == Unharmed => \E o \in Intact : InTable(o) \/ Offered(o)

(* Whoever takes over, an intact copy is there, of a generation the table  *)
(* would not turn down.  Where the heir owns it, no table names it, and    *)
(* Resolve answers TRAINPOOL_DATA_LOST although the bytes are there.       *)
CopySurvives ==
    Unharmed => \E o \in Intact : InTable(o) \/ Offered(o) \/ Overlooked(o)

=============================================================================
