-------------------------- MODULE LeadershipProofs ---------------------------
(***************************************************************************)
(* Proofs about Leadership for any number of daemons, restarts, cuts and   *)
(* exchanges.                                                              *)
(*                                                                         *)
(* That a job which is still active has had one leader all the time rests  *)
(* on the count of drawn generations: a daemon that comes back to lead     *)
(* draws a generation later than all it had before, the one its job was    *)
(* planned under included (JobDated).  Allocate stores a member's          *)
(* capabilities without rotating; it can depose a leader but never make    *)
(* one.                                                                    *)
(***************************************************************************)
EXTENDS Leadership, FiniteSetTheorems, WellFoundedInduction, TLAPS

Lead == [id : Node \cup {NoNode}, epoch : (Node \cup {NoNode}) \X Nat]

JobState == [at : Node \cup {NoNode}, epoch : (Node \cup {NoNode}) \X Nat,
             compute : Node \cup {NoNode}, inc : 0..MaxInc,
             lost : BOOLEAN, deposed : BOOLEAN, missed : BOOLEAN]

ReqState == [op : {"none", "plan", "allocate"}, at : Node \cup {NoNode},
             pc : {"idle", "arrived", "handled", "planned", "asking", "told",
                   "ranking", "ranked", "sent"},
             ask : Node \cup {NoNode}, told : Capabilities,
             lead : Lead, left : SUBSET (Node \X (1..MaxInc))]

Shapes == job \in JobState /\ req \in ReqState

(* Capabilities that are not Unknown are some process's. *)
Real(caps) == caps.inc = 0 => caps = Unknown

ViewsReal ==
    /\ \A n, m \in Node : Real(view[n][m])
    /\ \A x \in exchange : x.from # x.to /\ x.caps.inc > 0

(* A request that is under way is at a daemon, which asks another one for  *)
(* its capabilities and is told those of some process.                     *)
ReqPlaced ==
    /\ req.pc # "idle" => req.at \in Node
    /\ req.pc \in {"asking", "told"} => req.ask \in Node \ {req.at}
    /\ req.pc = "told" => req.told.inc > 0

(* Every generation a daemon has for itself, and the one its job was       *)
(* planned under, was drawn; one that leads again has drawn a later one.   *)
JobDated ==
    /\ \A n \in Node : Local(n).gen <= tokens[n]
    /\ \A n \in Node : job.at = n =>
         /\ job.epoch[1] = n => job.epoch[2] <= tokens[n]
         /\ job.deposed /\ Leads(n) => job.epoch # <<n, Local(n).gen>>

(* The inductive invariant. *)
Inv == TypeOK /\ Shapes /\ ViewsReal /\ ReqPlaced /\ JobDated

-----------------------------------------------------------------------------
(* The greatest member of a finite set *)

LEMMA Least ==
    ASSUME NEW S, S \subseteq Nat, S # {}
    PROVE  \E n \in S : \A m \in S : n <= m
<1> DEFINE R == OpToRel(<, Nat)
<1>1. IsWellFoundedOn(R, Nat)
  BY NatLessThanWellFounded
<1>2. \A m, n \in Nat : m < n => <<m, n>> \in R
  BY DEF OpToRel
<1> HIDE DEF R
<1>3. PICK n \in S : \A m \in S : <<m, n>> \notin R
  BY <1>1, WFMin
<1>4. \A m \in S : ~(m < n)
  BY <1>2, <1>3
<1> QED BY <1>4

(* Every finite set of natural numbers is bounded: a smallest one that is  *)
(* not would lose its bound with one element.                              *)
LEMMA Bounded ==
    ASSUME NEW S, S \subseteq Nat, IsFiniteSet(S)
    PROVE  \E b \in Nat : \A x \in S : x <= b
<1> DEFINE BoundedSet(T) == \E b \in Nat : \A x \in T : x <= b
           Bad == {k \in Nat : \E T \in SUBSET S :
                     IsFiniteSet(T) /\ Cardinality(T) = k /\ ~BoundedSet(T)}
<1> SUFFICES ASSUME Bad # {} PROVE FALSE
  BY FS_CardinalityType
<1>1. PICK k \in Bad : \A l \in Bad : k <= l
  <2> HIDE DEF Bad
  <2>1. Bad \subseteq Nat
    BY DEF Bad
  <2> QED BY <2>1, Least
<1>2. PICK T \in SUBSET S :
        IsFiniteSet(T) /\ Cardinality(T) = k /\ ~BoundedSet(T)
  BY <1>1
<1>3. PICK x \in T : TRUE
  <2>1. T # {}
    <3>1. T = {} => BoundedSet(T)
      OBVIOUS
    <3> QED BY <1>2, <3>1
  <2> QED BY <2>1
<1>4. /\ IsFiniteSet(T \ {x}) /\ Cardinality(T \ {x}) = k - 1
      /\ Cardinality(T \ {x}) \in Nat
  <2>1. IsFiniteSet(T \ {x}) /\ Cardinality(T \ {x}) = k - 1
    BY <1>2, <1>3, FS_RemoveElement
  <2> QED BY <2>1, FS_CardinalityType
<1>5. k \in Nat
  BY <1>1
<1>6. BoundedSet(T \ {x})
  <2>1. k - 1 \notin Bad
    <3>1. ~(k <= k - 1)
      BY <1>5
    <3> HIDE DEF Bad
    <3> QED BY <1>1, <3>1
  <2> QED BY <1>4, <2>1
<1>7. PICK b \in Nat : \A y \in T \ {x} : y <= b
  BY <1>6
<1>8. x \in Nat /\ \A y \in T : y \in Nat
  BY <1>3
<1>9. CASE x <= b
  <2>1. \A y \in T : y <= b
    BY <1>7, <1>9
  <2> QED BY <1>2, <2>1
<1>10. CASE ~(x <= b)
  <2>1. \A y \in T : y <= x
    BY <1>7, <1>8, <1>10
  <2> QED BY <1>2, <1>8, <2>1
<1> QED BY <1>9, <1>10

LEMMA MaxType ==
    ASSUME NEW S, S \subseteq Node, S # {}
    PROVE  Max(S) \in S /\ \A y \in S : Max(S) >= y
<1>1. IsFiniteSet(S) /\ S \subseteq Nat
  BY LeadershipAssumption, FS_Subset
<1>2. PICK b \in Nat : \A x \in S : x <= b
  BY <1>1, Bounded
<1> DEFINE T == {b - x : x \in S}
<1>3. T \subseteq Nat /\ T # {}
  <2>1. \A x \in S : b - x \in Nat
    BY <1>1, <1>2
  <2> QED BY <2>1
<1>4. PICK n \in T : \A m \in T : n <= m
  <2> HIDE DEF T
  <2> QED BY <1>3, Least
<1>5. PICK x \in S : n = b - x
  BY <1>4
<1>6. \A y \in S : x >= y
  <2> SUFFICES ASSUME NEW y \in S PROVE x >= y
    OBVIOUS
  <2>1. n <= b - y
    BY <1>4
  <2> QED BY <1>1, <1>5, <2>1
<1> QED BY <1>6 DEF Max

-----------------------------------------------------------------------------
(* Elections *)

View == [Node -> Capabilities]

LEMMA Nodes == NoNode \notin Node /\ \A n \in Node : n # NoNode /\ n \in Nat
BY LeadershipAssumption DEF NoNode

LEMMA ElectType ==
    ASSUME NEW v \in View, NEW n \in Node, v[n].inc > 0
    PROVE  /\ n \in Known(v) /\ Elect(v).id \in Known(v)
           /\ Elect(v).id \in Node /\ v[Elect(v).id] \in Capabilities
           /\ Elect(v).epoch = <<Elect(v).id, v[Elect(v).id].gen>>
           /\ \A m \in Known(v) : Elect(v).id >= m
           /\ Elect(v) \in Lead
<1>1. n \in Known(v) /\ Known(v) \subseteq Node
  BY DEF Known, Unknown, View, Capabilities
<1>2. Max(Known(v)) \in Known(v) /\ \A m \in Known(v) : Max(Known(v)) >= m
  BY <1>1, MaxType
<1>3. /\ Elect(v).id = Max(Known(v))
      /\ Elect(v).epoch = <<Elect(v).id, v[Elect(v).id].gen>>
      /\ Elect(v) = [id |-> Elect(v).id, epoch |-> Elect(v).epoch]
  BY DEF Elect
<1>4. Elect(v).id \in Node /\ v[Elect(v).id] \in Capabilities
  BY <1>1, <1>2, <1>3 DEF View
<1>5. v[Elect(v).id].gen \in Nat
  BY <1>4 DEF Capabilities
<1>6. Elect(v) \in Lead
  BY <1>3, <1>4, <1>5 DEF Lead
<1> QED BY <1>1, <1>2, <1>3, <1>4, <1>6

(* Who leads depends on who is known, not on what is known of them. *)
LEMMA ElectSame ==
    ASSUME NEW v \in View, NEW w \in View, Known(v) = Known(w)
    PROVE  Elect(v).id = Elect(w).id
BY DEF Elect

LEMMA RotatedType ==
    ASSUME NEW n \in Node, NEW before \in View, NEW after \in View,
           after[n].inc > 0, tokens \in [Node -> Nat]
    PROVE  /\ Rotated(n, before, after) \in View
           /\ \A m \in Node \ {n} : Rotated(n, before, after)[m] = after[m]
           /\ Rotated(n, before, after)[n].inc = after[n].inc
           /\ Elect(Rotated(n, before, after)).id = Elect(after).id
           /\ Rotated(n, before, after)[n].gen =
                IF Elect(after).id = n /\ Elect(before).id # n
                THEN tokens[n] + 1 ELSE after[n].gen
<1> DEFINE r == [after EXCEPT ![n].gen = tokens[n] + 1]
<1>1. CASE Elect(after).id = n /\ Elect(before).id # n
  <2>1. Rotated(n, before, after) = r
    BY <1>1 DEF Rotated
  <2>2. tokens[n] + 1 \in Nat
    OBVIOUS
  <2>3. /\ r \in View /\ \A m \in Node \ {n} : r[m] = after[m]
        /\ r[n].inc = after[n].inc /\ r[n].gen = tokens[n] + 1
    BY <2>2 DEF View, Capabilities
  <2>4. Known(r) = Known(after)
    BY <2>3 DEF Known, Unknown, View, Capabilities
  <2> HIDE DEF r
  <2> QED BY <1>1, <2>1, <2>3, <2>4, ElectSame
<1>2. CASE ~(Elect(after).id = n /\ Elect(before).id # n)
  <2>1. Rotated(n, before, after) = after
    BY <1>2 DEF Rotated
  <2> QED BY <1>2, <2>1
<1> QED BY <1>1, <1>2

-----------------------------------------------------------------------------
(* A daemon changes what it has of others and rotates *)

LEMMA Parts ==
    ASSUME TypeOK
    PROVE  /\ \A k \in Node : view[k] \in View /\ view[k][k].inc > 0
           /\ \A k, m \in Node : view[k][m] \in Capabilities
           /\ \A k \in Node : Elect(view[k]).id \in Known(view[k])
           /\ \A k \in Node : Elect(view[k]).id \in Node
BY ElectType DEF TypeOK, View, Local

LEMMA SetViewKept ==
    ASSUME Inv, NEW n \in Node, NEW after \in View, after[n] = view[n][n],
           \A m \in Node : Real(after[m]), NEW gone,
           SetView(n, Rotated(n, view[n], after), gone)
    PROVE  /\ view' \in [Node -> View]
           /\ \A k \in Node : view'[k][k].inc = view[k][k].inc
           /\ \A k, m \in Node : Real(view'[k][m])
           /\ tokens' \in [Node -> Nat]
           /\ job' \in JobState
           /\ job'.at = job.at /\ job'.compute = job.compute
           /\ JobDated'
<1> DEFINE r == Rotated(n, view[n], after)
<1>1. /\ TypeOK /\ JobDated /\ job \in JobState
      /\ \A k, m \in Node : Real(view[k][m])
  BY DEF Inv, Shapes, ViewsReal
<1>2. /\ view \in [Node -> View] /\ tokens \in [Node -> Nat]
      /\ \A k \in Node : view[k] \in View /\ view[k][k].inc > 0
      /\ after[n].inc > 0
  BY <1>1, Parts DEF TypeOK, View
<1>3. /\ r \in View
      /\ \A m \in Node \ {n} : r[m] = after[m]
      /\ r[n].inc = view[n][n].inc
      /\ Elect(r).id = Elect(after).id
      /\ r[n].gen = IF Elect(after).id = n /\ Elect(view[n]).id # n
                    THEN tokens[n] + 1 ELSE view[n][n].gen
  BY SMTT(60), <1>2, RotatedType
<1>4. /\ view' = [view EXCEPT ![n] = r]
      /\ tokens' = [tokens EXCEPT ![n] = IF r[n].gen > @ THEN r[n].gen ELSE @]
      /\ job' = [job EXCEPT !.lost = @ \/ Failed(n, gone),
                            !.deposed = @ \/ (job.at = n /\ Elect(r).id # n)]
  BY DEF SetView
<1> HIDE DEF r
<1>5. /\ view' \in [Node -> View] /\ view'[n] = r
      /\ \A k \in Node \ {n} : view'[k] = view[k]
  BY <1>2, <1>3, <1>4
<1>6. r[n].gen \in Nat /\ view[n][n].gen \in Nat
  BY <1>2, <1>3 DEF View, Capabilities
<1>7. /\ tokens' \in [Node -> Nat] /\ tokens'[n] >= tokens[n]
      /\ tokens'[n] >= r[n].gen
      /\ \A k \in Node \ {n} : tokens'[k] = tokens[k]
  BY <1>2, <1>4, <1>6
<1>8. /\ job' \in JobState /\ job'.at = job.at /\ job'.compute = job.compute
      /\ job'.epoch = job.epoch
      /\ job'.deposed = (job.deposed \/ (job.at = n /\ Elect(r).id # n))
  BY <1>1, <1>4 DEF JobState, Failed, Entered
<1>9. \A k \in Node : view'[k][k].inc = view[k][k].inc
  BY <1>3, <1>5
<1>10. \A k, m \in Node : Real(view'[k][m])
  <2>1. \A m \in Node : Real(r[m])
    BY <1>2, <1>3 DEF Real
  <2> QED BY <1>1, <1>5, <2>1
<1>11. \A k \in Node : view'[k][k].gen <= tokens'[k]
  BY <1>1, <1>5, <1>6, <1>7 DEF JobDated, Local
<1>12. ASSUME NEW k \in Node, job.at = k
       PROVE  /\ job'.epoch[1] = k => job'.epoch[2] <= tokens'[k]
              /\ (job'.deposed /\ Elect(view'[k]).id = k) =>
                   job'.epoch # <<k, view'[k][k].gen>>
  <2>1. job.epoch[2] \in Nat /\ tokens[k] \in Nat /\ tokens'[k] \in Nat
    BY <1>1, <1>2, <1>7 DEF JobState
  <2>2. /\ job.epoch[1] = k => job.epoch[2] <= tokens[k]
        /\ (job.deposed /\ Elect(view[k]).id = k) =>
             job.epoch # <<k, view[k][k].gen>>
    BY <1>1, <1>12 DEF JobDated, Leads, LeadershipAt, Local
  <2>3. job'.epoch[1] = k => job'.epoch[2] <= tokens'[k]
    BY <1>7, <1>8, <2>1, <2>2
  <2>4. CASE k # n
    BY <1>5, <1>8, <1>12, <2>2, <2>3, <2>4
  <2>5. CASE k = n /\ Elect(view[n]).id = n
    BY <1>3, <1>5, <1>8, <1>12, <2>2, <2>3, <2>5
  <2>6. CASE k = n /\ Elect(view[n]).id # n
    <3>1. SUFFICES ASSUME Elect(r).id = n
                   PROVE  job.epoch # <<n, r[n].gen>>
      BY <1>5, <1>8, <2>3, <2>6
    <3>2. r[n].gen = tokens[n] + 1
      BY <1>3, <2>6, <3>1
    <3>3. job.epoch = <<n, r[n].gen>> =>
            job.epoch[1] = n /\ job.epoch[2] = tokens[n] + 1
      BY <3>2
    <3> QED BY <2>1, <2>2, <2>6, <3>3
  <2> QED BY <2>4, <2>5, <2>6
<1>13. JobDated'
  BY <1>8, <1>11, <1>12 DEF JobDated, Leads, LeadershipAt, Local
<1> QED BY <1>5, <1>7, <1>8, <1>9, <1>10, <1>13

-----------------------------------------------------------------------------
(* Membership *)

Exchanges == [from : Node, to : Node, at : {"request", "reply"},
              caps : Capabilities]

ExchangesFine ==
    /\ exchange \subseteq Exchanges
    /\ \A x \in exchange : x.from # x.to /\ x.caps.inc > 0

LEMMA SetViewInv ==
    ASSUME Inv, NEW n \in Node, NEW after \in View, after[n] = view[n][n],
           \A m \in Node : Real(after[m]), NEW gone,
           SetView(n, Rotated(n, view[n], after), gone),
           ExchangesFine', UNCHANGED <<down, cuts, req>>
    PROVE  Inv'
<1>1. /\ view' \in [Node -> View]
      /\ \A k \in Node : view'[k][k].inc = view[k][k].inc
      /\ \A k, m \in Node : Real(view'[k][m])
      /\ tokens' \in [Node -> Nat]
      /\ job' \in JobState
      /\ job'.at = job.at /\ job'.compute = job.compute
      /\ JobDated'
  BY SetViewKept
<1>2. TypeOK'
  <2>1. \A k \in Node : view'[k][k].inc > 0
    BY <1>1 DEF Inv, TypeOK, Local
  <2>2. view' \in [Node -> [Node -> Capabilities]]
    BY <1>1 DEF View
  <2>3. exchange' \subseteq Exchanges
    BY DEF ExchangesFine, Exchanges, Capabilities
  <2>4. /\ down \subseteq {{k, m} : k, m \in Node} /\ cuts \in 0..MaxCuts
        /\ req.at \in Node \cup {NoNode} /\ req.left \subseteq Node \X (1..MaxInc)
        /\ job.at \in Node \cup {NoNode} /\ job.compute \in Node \cup {NoNode}
    BY DEF Inv, TypeOK
  <2> QED
    BY <1>1, <2>1, <2>2, <2>3, <2>4 DEF TypeOK, Exchanges, Local, Capabilities
<1>3. Shapes'
  BY <1>1 DEF Inv, Shapes
<1>4. ViewsReal'
  BY <1>1 DEF ViewsReal, ExchangesFine
<1>5. ReqPlaced'
  BY <1>1 DEF Inv, ReqPlaced
<1> QED BY <1>1, <1>2, <1>3, <1>4, <1>5 DEF Inv

LEMMA ExchangeKept ==
    ASSUME Inv, NEW x \in exchange
    PROVE  /\ ExchangesFine
           /\ x.from \in Node /\ x.to \in Node /\ x.from # x.to
           /\ x.caps \in Capabilities /\ x.caps.inc > 0
BY DEF Inv, TypeOK, ViewsReal, ExchangesFine, Exchanges

LEMMA AcceptPeerView ==
    ASSUME Inv, NEW n \in Node, NEW m \in Node, n # m,
           NEW caps \in Capabilities, caps.inc > 0
    PROVE  LET after == [view[n] EXCEPT ![m] = caps]
           IN  /\ after \in View /\ after[n] = view[n][n]
               /\ \A k \in Node : Real(after[k])
<1>1. view[n] \in View /\ \A k \in Node : Real(view[n][k])
  BY Parts DEF Inv, ViewsReal
<1>2. Real(caps)
  BY DEF Real, Capabilities
<1> QED BY <1>1, <1>2 DEF View

LEMMA AcceptPeerInv ==
    ASSUME Inv, NEW n \in Node, NEW m \in Node, n # m,
           NEW caps \in Capabilities, caps.inc > 0, AcceptPeer(n, m, caps),
           ExchangesFine', UNCHANGED <<down, cuts, req>>
    PROVE  Inv'
<1> DEFINE after == [view[n] EXCEPT ![m] = caps]
           gone == IF view[n][m] # Unknown /\ view[n][m].inc # caps.inc
                   THEN {m} ELSE {}
<1>1. /\ after \in View /\ after[n] = view[n][n]
      /\ \A k \in Node : Real(after[k])
  BY AcceptPeerView
<1>2. SetView(n, Rotated(n, view[n], after), gone)
  BY DEF AcceptPeer, Accepted
<1> HIDE DEF after, gone
<1> QED BY <1>1, <1>2, SetViewInv

LEMMA AnswerExchangeInv ==
    ASSUME Inv, NEW x \in exchange, AnswerExchange(x)
    PROVE  Inv'
<1>1. /\ ExchangesFine /\ x.from \in Node /\ x.to \in Node /\ x.from # x.to
      /\ x.caps \in Capabilities /\ x.caps.inc > 0
  BY ExchangeKept
<1> DEFINE n == x.to
           after == [view[n] EXCEPT ![x.from] = x.caps]
           gone == IF view[n][x.from] # Unknown /\ view[n][x.from].inc # x.caps.inc
                   THEN {x.from} ELSE {}
<1>2. /\ after \in View /\ after[n] = view[n][n]
      /\ \A k \in Node : Real(after[k])
  BY <1>1, AcceptPeerView
<1>3. SetView(n, Rotated(n, view[n], after), gone)
  BY DEF AnswerExchange, AcceptPeer, Accepted
<1>4. view' \in [Node -> View] /\ \A k \in Node : view'[k][k].inc = view[k][k].inc
  <2> HIDE DEF after, gone
  <2> QED BY <1>1, <1>2, <1>3, SetViewKept
<1>5. \A k \in Node : view[k][k].inc > 0
  BY Parts DEF Inv
<1> DEFINE y == [x EXCEPT !.at = "reply", !.caps = view'[n][n]]
<1>6. view'[n][n] \in Capabilities /\ view'[n][n].inc > 0
  BY <1>1, <1>4, <1>5 DEF View
<1>7. y \in Exchanges /\ y.from # y.to /\ y.caps.inc > 0
  <2>1. x \in Exchanges
    BY <1>1 DEF ExchangesFine
  <2> QED BY <1>1, <1>6, <2>1 DEF Exchanges
<1>8. exchange' = (exchange \ {x}) \cup {y} /\ UNCHANGED <<down, cuts, req>>
  BY DEF AnswerExchange
<1>9. ExchangesFine'
  <2> HIDE DEF y
  <2> QED BY <1>1, <1>7, <1>8 DEF ExchangesFine, Exchanges, Capabilities
<1>10. AcceptPeer(x.to, x.from, x.caps)
  BY DEF AnswerExchange
<1> QED BY <1>1, <1>8, <1>9, <1>10, AcceptPeerInv

LEMMA EndExchangeInv ==
    ASSUME Inv, NEW x \in exchange, EndExchange(x)
    PROVE  Inv'
<1>1. /\ ExchangesFine /\ x.from \in Node /\ x.to \in Node /\ x.from # x.to
      /\ x.caps \in Capabilities /\ x.caps.inc > 0
  BY ExchangeKept
<1>2. /\ AcceptPeer(x.from, x.to, x.caps)
      /\ exchange' = exchange \ {x} /\ UNCHANGED <<down, cuts, req>>
  BY DEF EndExchange
<1>3. ExchangesFine'
  BY <1>1, <1>2 DEF ExchangesFine, Exchanges, Capabilities
<1> QED BY <1>1, <1>2, <1>3, AcceptPeerInv

(* A daemon never expires itself: it needs no link to itself. *)
LEMMA ExpireInv ==
    ASSUME Inv, NEW n \in Node, NEW dead \in SUBSET Node, Expire(n, dead)
    PROVE  Inv'
<1> DEFINE after == [m \in Node |-> IF m \in dead THEN Unknown ELSE view[n][m]]
<1>1. n \notin dead
  BY DEF Expire, Linked
<1>2. Unknown \in Capabilities /\ Real(Unknown)
  BY LeadershipAssumption DEF Unknown, Capabilities, Real
<1>3. view[n] \in View /\ \A k \in Node : Real(view[n][k])
  BY Parts DEF Inv, ViewsReal
<1>4. /\ after \in View /\ after[n] = view[n][n]
      /\ \A k \in Node : Real(after[k])
  BY <1>1, <1>2, <1>3 DEF View
<1>5. /\ SetView(n, Rotated(n, view[n], after), dead)
      /\ UNCHANGED <<down, cuts, exchange, req>>
  BY DEF Expire
<1>6. ExchangesFine'
  BY <1>5 DEF Inv, TypeOK, ViewsReal, ExchangesFine, Exchanges, Capabilities
<1> HIDE DEF after
<1> QED BY <1>4, <1>5, <1>6, SetViewInv

(* Nothing but the links and the exchanges changes. *)
LEMMA LinksInv ==
    ASSUME Inv, UNCHANGED <<view, tokens, job, req>>, ExchangesFine',
           down' \subseteq {{n, m} : n, m \in Node}, cuts' \in 0..MaxCuts
    PROVE  Inv'
<1>1. exchange' \subseteq Exchanges
  BY DEF ExchangesFine, Exchanges, Capabilities
<1>2. TypeOK'
  BY <1>1 DEF Inv, TypeOK, Exchanges, Local, Capabilities
<1>3. Shapes' /\ ReqPlaced'
  BY DEF Inv, Shapes, ReqPlaced
<1>4. ViewsReal'
  BY DEF Inv, ViewsReal, ExchangesFine
<1>5. JobDated'
  BY DEF Inv, JobDated, Leads, LeadershipAt, Local
<1> QED BY <1>2, <1>3, <1>4, <1>5 DEF Inv

LEMMA ExchangesNow == ASSUME Inv PROVE ExchangesFine
BY DEF Inv, TypeOK, ViewsReal, ExchangesFine, Exchanges

LEMMA ExchangeInv ==
    ASSUME Inv, NEW n \in Node, NEW m \in Node, Exchange(n, m)
    PROVE  Inv'
<1> DEFINE x == [from |-> n, to |-> m, at |-> "request", caps |-> view[n][n]]
<1>1. /\ n # m /\ exchange' = exchange \cup {x}
      /\ UNCHANGED <<view, tokens, down, cuts, job, req>>
  BY DEF Exchange, Local
<1>2. x \in Exchanges /\ x.from # x.to /\ x.caps.inc > 0
  <2>1. view[n][n] \in Capabilities /\ view[n][n].inc > 0
    BY Parts DEF Inv
  <2> QED BY <1>1, <2>1 DEF Exchanges
<1>3. ExchangesFine'
  <2> HIDE DEF x
  <2> QED BY <1>1, <1>2, ExchangesNow DEF ExchangesFine, Exchanges, Capabilities
<1>4. /\ down' \subseteq {{k, l} : k, l \in Node} /\ cuts' \in 0..MaxCuts
  BY <1>1 DEF Inv, TypeOK
<1> QED BY <1>1, <1>3, <1>4, LinksInv

LEMMA LoseExchangeInv ==
    ASSUME Inv, NEW x \in exchange, LoseExchange(x)
    PROVE  Inv'
<1>1. /\ exchange' = exchange \ {x}
      /\ UNCHANGED <<view, tokens, down, cuts, job, req>>
  BY DEF LoseExchange
<1>2. ExchangesFine'
  BY <1>1, ExchangesNow DEF ExchangesFine, Exchanges, Capabilities
<1>3. /\ down' \subseteq {{k, l} : k, l \in Node} /\ cuts' \in 0..MaxCuts
  BY <1>1 DEF Inv, TypeOK
<1> QED BY <1>1, <1>2, <1>3, LinksInv

LEMMA LinkInv ==
    ASSUME Inv, NEW n \in Node, NEW m \in Node, CutLink(n, m) \/ HealLink(n, m)
    PROVE  Inv'
<1>1. UNCHANGED <<view, tokens, exchange, job, req>>
  BY DEF CutLink, HealLink
<1>2. ExchangesFine'
  BY <1>1, ExchangesNow DEF ExchangesFine, Exchanges, Capabilities
<1>3. cuts' \in 0..MaxCuts
  BY LeadershipAssumption DEF Inv, TypeOK, CutLink, HealLink
<1>4. {n, m} \in {{k, l} : k, l \in Node}
  OBVIOUS
<1>5. down' \subseteq {{k, l} : k, l \in Node}
  BY <1>4 DEF Inv, TypeOK, CutLink, HealLink
<1> QED BY <1>1, <1>2, <1>3, <1>5, LinksInv

LEMMA NothingType == NoJob \in JobState /\ NoReq \in ReqState
BY LeadershipAssumption
   DEF NoJob, NoReq, NoLead, JobState, ReqState, Lead, Capabilities, Unknown

(* The job of a process that ends goes with it, so its generations may     *)
(* start anew.                                                             *)
LEMMA RestartInv ==
    ASSUME Inv, NEW n \in Node, Restart(n)
    PROVE  Inv'
<1> DEFINE own == [inc |-> view[n][n].inc + 1, gen |-> tokens[n] + 1]
           v == [m \in Node |-> IF m = n THEN own ELSE Unknown]
<1>1. /\ TypeOK /\ JobDated /\ job \in JobState /\ req \in ReqState
      /\ \A k, m \in Node : Real(view[k][m])
  BY DEF Inv, Shapes, ViewsReal
<1>2. /\ view \in [Node -> View] /\ tokens \in [Node -> Nat]
      /\ \A k \in Node : view[k][k].inc > 0
      /\ view[n][n] \in Capabilities
  BY <1>1, Parts DEF TypeOK, View
<1>3. /\ view[n][n].inc < MaxInc
      /\ view' = [view EXCEPT ![n] = v]
      /\ tokens' = [tokens EXCEPT ![n] = @ + 1]
      /\ job' = IF job.at = n THEN NoJob ELSE job
      /\ req' = IF req.at = n THEN NoReq ELSE req
      /\ UNCHANGED <<down, cuts>>
  BY DEF Restart, Local
<1>4. own \in Capabilities /\ own.inc > 0 /\ Real(own)
  BY <1>2, <1>3, LeadershipAssumption DEF Capabilities, Real
<1>5. own.gen = tokens[n] + 1
  OBVIOUS
<1>6. Unknown \in Capabilities /\ Real(Unknown)
  BY LeadershipAssumption DEF Unknown, Capabilities, Real
<1> HIDE DEF own
<1>7. v \in View /\ v[n] = own /\ \A m \in Node : Real(v[m])
  BY <1>4, <1>6 DEF View
<1> HIDE DEF v
<1>8. /\ view' \in [Node -> View] /\ view'[n] = v
      /\ \A k \in Node \ {n} : view'[k] = view[k]
  BY <1>2, <1>3, <1>7
<1>9. /\ tokens' \in [Node -> Nat] /\ tokens'[n] = tokens[n] + 1
      /\ \A k \in Node \ {n} : tokens'[k] = tokens[k]
  BY <1>2, <1>3
<1>10. job' \in JobState /\ req' \in ReqState
  BY <1>1, <1>3, NothingType
<1>11. ExchangesFine'
  BY ExchangesNow DEF Restart, ExchangesFine, Exchanges, Capabilities
<1>12. TypeOK'
  <2>1. \A k \in Node : view'[k][k].inc > 0
    BY <1>2, <1>4, <1>7, <1>8
  <2>2. view' \in [Node -> [Node -> Capabilities]]
    BY <1>8 DEF View
  <2>3. exchange' \subseteq Exchanges
    BY <1>11 DEF ExchangesFine, Exchanges, Capabilities
  <2>4. /\ down \subseteq {{k, m} : k, m \in Node} /\ cuts \in 0..MaxCuts
    BY <1>1 DEF TypeOK
  <2>5. /\ req'.at \in Node \cup {NoNode} /\ req'.left \subseteq Node \X (1..MaxInc)
        /\ job'.at \in Node \cup {NoNode} /\ job'.compute \in Node \cup {NoNode}
    BY <1>10 DEF JobState, ReqState
  <2> QED
    BY <1>3, <1>9, <2>1, <2>2, <2>3, <2>4, <2>5
    DEF TypeOK, Exchanges, Local, Capabilities
<1>13. Shapes'
  BY <1>10 DEF Shapes
<1>14. ViewsReal'
  <2>1. \A k, m \in Node : Real(view'[k][m])
    BY <1>1, <1>7, <1>8
  <2> QED BY <1>11, <2>1 DEF ViewsReal, ExchangesFine
<1>15. ReqPlaced'
  <2>1. CASE req.at = n
    BY <1>3, <2>1 DEF ReqPlaced, NoReq
  <2>2. CASE req.at # n
    BY <1>3, <2>2 DEF Inv, ReqPlaced
  <2> QED BY <2>1, <2>2
<1>16. JobDated'
  <2>1. \A k \in Node : view'[k][k].gen <= tokens'[k]
    <3>1. view'[n][n].gen <= tokens'[n]
      BY <1>2, <1>5, <1>7, <1>8, <1>9
    <3> QED BY <1>1, <1>8, <1>9, <3>1 DEF JobDated, Local
  <2>2. ASSUME NEW k \in Node, job'.at = k
        PROVE  k # n /\ job' = job
    BY <1>3, <2>2, Nodes DEF NoJob
  <2> QED
    BY <1>1, <1>8, <1>9, <2>1, <2>2 DEF JobDated, Leads, LeadershipAt, Local
<1> QED BY <1>12, <1>13, <1>14, <1>15, <1>16 DEF Inv

-----------------------------------------------------------------------------
(* Requests *)

(* Nothing but the request changes. *)
LEMMA ReqInv ==
    ASSUME Inv, UNCHANGED <<cluster, job>>, req' \in ReqState, ReqPlaced'
    PROVE  Inv'
<1>1. TypeOK'
  <2>1. req'.at \in Node \cup {NoNode} /\ req'.left \subseteq Node \X (1..MaxInc)
    BY DEF ReqState
  <2> QED BY <2>1 DEF Inv, TypeOK, cluster, Local
<1>2. Shapes'
  BY DEF Inv, Shapes
<1>3. ViewsReal'
  BY DEF Inv, ViewsReal, cluster
<1>4. JobDated'
  BY DEF Inv, JobDated, cluster, Leads, LeadershipAt, Local
<1> QED BY <1>1, <1>2, <1>3, <1>4 DEF Inv

LEMMA ReqEndInv ==
    ASSUME Inv, UNCHANGED <<cluster, job>>, req' = NoReq
    PROVE  Inv'
<1>1. req' \in ReqState
  BY NothingType
<1>2. ReqPlaced'
  BY DEF ReqPlaced, NoReq
<1> QED BY <1>1, <1>2, ReqInv

LEMMA SubmitInv ==
    ASSUME Inv, NEW n \in Node, NEW op \in {"plan", "allocate"}, Submit(n, op)
    PROVE  Inv'
<1>1. /\ req' = [NoReq EXCEPT !.op = op, !.at = n, !.pc = "arrived"]
      /\ UNCHANGED <<cluster, job>>
  BY DEF Submit
<1>2. req' \in ReqState
  BY <1>1, NothingType DEF ReqState
<1>3. ReqPlaced'
  BY <1>1 DEF ReqPlaced, NoReq
<1> QED BY <1>1, <1>2, <1>3, ReqInv

LEMMA ForwardInv ==
    ASSUME Inv, Forward
    PROVE  Inv'
<1>1. req \in ReqState /\ req.pc = "arrived" /\ req.at \in Node
  BY DEF Inv, Shapes, Forward, ReqPlaced
<1>2. PICK l \in Node : l = LeadershipAt(req.at).id
  BY <1>1, Parts DEF Inv, LeadershipAt
<1>3. UNCHANGED <<cluster, job>>
  BY DEF Forward
<1>4. CASE req' = NoReq
  BY <1>3, <1>4, ReqEndInv
<1>5. CASE req' = [req EXCEPT !.at = l]
  <2>1. req' \in ReqState
    BY <1>1, <1>5 DEF ReqState
  <2>2. ReqPlaced'
    BY <1>1, <1>5 DEF ReqPlaced, ReqState
  <2> QED BY <1>3, <2>1, <2>2, ReqInv
<1> QED BY <1>2, <1>4, <1>5 DEF Forward

LEMMA HandleInv ==
    ASSUME Inv, Handle
    PROVE  Inv'
<1>1. /\ req \in ReqState /\ req.pc = "arrived" /\ req.at \in Node
      /\ req' = [req EXCEPT !.pc = "handled"] /\ UNCHANGED <<cluster, job>>
  BY DEF Inv, Shapes, Handle, ReqPlaced
<1>2. req' \in ReqState
  BY <1>1 DEF ReqState
<1>3. ReqPlaced'
  BY <1>1 DEF ReqPlaced, ReqState
<1> QED BY <1>1, <1>2, <1>3, ReqInv

LEMMA CheckJobInv ==
    ASSUME Inv, CheckJob
    PROVE  Inv'
<1>1. req \in ReqState /\ req.at \in Node /\ UNCHANGED <<cluster, job>>
  BY DEF Inv, Shapes, CheckJob, ReqPlaced
<1>2. CASE req' = NoReq
  BY <1>1, <1>2, ReqEndInv
<1>3. CASE req' = [req EXCEPT !.pc = "ranking"]
  <2>1. req' \in ReqState
    BY <1>1, <1>3 DEF ReqState
  <2>2. ReqPlaced'
    BY <1>1, <1>3 DEF ReqPlaced, ReqState
  <2> QED BY <1>1, <2>1, <2>2, ReqInv
<1>4. CASE /\ job.compute \in Known(view[req.at]) \ {req.at}
           /\ req' = [req EXCEPT !.pc = "asking", !.ask = job.compute]
  <2>1. job.compute \in Node \ {req.at}
    BY <1>4 DEF Known
  <2>2. req' \in ReqState
    BY <1>1, <1>4, <2>1 DEF ReqState
  <2>3. ReqPlaced'
    BY <1>1, <1>4, <2>1 DEF ReqPlaced, ReqState
  <2> QED BY <1>1, <2>2, <2>3, ReqInv
<1> QED BY <1>2, <1>3, <1>4 DEF CheckJob

(* The daemon that plans the job either leads, and then under a           *)
(* generation it has drawn, or plans it as deposed already.               *)
LEMMA PlanInv ==
    ASSUME Inv, NEW c \in Node \cup {NoNode}, Plan(c)
    PROVE  Inv'
<1>1. /\ TypeOK /\ JobDated /\ req \in ReqState /\ req.pc = "handled"
      /\ UNCHANGED cluster
  BY DEF Inv, Shapes, Plan
<1>2. CASE req' = NoReq /\ job' = job
  BY <1>1, <1>2, ReqEndInv
<1>3. CASE job' = Planned(req.at, c) /\ req' = [req EXCEPT !.pc = "planned"]
  <2>1. PICK n \in Node : n = req.at
    BY <1>1 DEF Inv, ReqPlaced
  <2>2. PICK l \in Node : /\ l = Elect(view[n]).id
                          /\ Elect(view[n]).epoch = <<l, view[n][l].gen>>
                          /\ Elect(view[n]).epoch \in (Node \cup {NoNode}) \X Nat
    BY <1>1, Parts, ElectType DEF Lead
  <2>3. PICK i \in 0..MaxInc : i = IF c = NoNode THEN 0 ELSE view[n][c].inc
    <3>1. CASE c = NoNode
      BY <3>1, LeadershipAssumption
    <3>2. CASE c # NoNode
      <4>1. view[n][c] \in Capabilities
        BY <1>1, <3>2, Parts
      <4> QED BY <3>2, <4>1 DEF Capabilities
    <3> QED BY <3>1, <3>2
  <2>4. job' = [NoJob EXCEPT !.at = n, !.epoch = Elect(view[n]).epoch,
                             !.compute = c, !.inc = i, !.deposed = (l # n)]
    BY <1>3, <2>1, <2>2, <2>3 DEF Planned, LeadershipAt, Leads
  <2>5. /\ job' \in JobState /\ job'.at = n /\ job'.compute = c
        /\ job'.epoch = <<l, view[n][l].gen>> /\ job'.deposed = (l # n)
    BY <2>2, <2>4, NothingType DEF JobState
  <2>11. req' \in ReqState
    BY <1>1, <1>3 DEF ReqState
  <2>6. TypeOK'
    <3>1. req'.at \in Node \cup {NoNode} /\ req'.left \subseteq Node \X (1..MaxInc)
      BY <2>11 DEF ReqState
    <3> QED BY <1>1, <2>5, <3>1 DEF TypeOK, cluster, Local
  <2>7. Shapes'
    BY <2>5, <2>11 DEF Shapes
  <2>8. ViewsReal'
    BY <1>1 DEF Inv, ViewsReal, cluster
  <2>9. ReqPlaced'
    BY <1>1, <1>3, <2>1 DEF ReqPlaced, ReqState
  <2>10. JobDated'
    <3>1. view' = view /\ tokens' = tokens /\ \A k \in Node : view[k][k].gen <= tokens[k]
      BY <1>1 DEF cluster, JobDated, Local
    <3>2. job'.epoch[1] = n => job'.epoch[2] <= tokens[n]
      BY <2>5, <3>1
    <3>3. ~(job'.deposed /\ Elect(view'[n]).id = n)
      BY <2>2, <2>5, <3>1
    <3> QED BY <2>5, <3>1, <3>2, <3>3 DEF JobDated, Leads, LeadershipAt, Local
  <2> QED BY <2>6, <2>7, <2>8, <2>9, <2>10 DEF Inv
<1> QED BY <1>2, <1>3 DEF Plan

LEMMA EnterJobInv ==
    ASSUME Inv, EnterJob
    PROVE  Inv'
<1>1. /\ TypeOK /\ JobDated /\ job \in JobState /\ req' = NoReq
      /\ UNCHANGED cluster
  BY DEF Inv, Shapes, EnterJob
<1>2. /\ job' \in JobState /\ job'.at = job.at /\ job'.compute = job.compute
      /\ job'.epoch = job.epoch /\ job'.deposed = job.deposed
  BY <1>1 DEF EnterJob, JobState
<1>3. TypeOK'
  <2>1. req'.at \in Node \cup {NoNode} /\ req'.left \subseteq Node \X (1..MaxInc)
    BY <1>1 DEF NoReq
  <2> QED BY <1>1, <1>2, <2>1 DEF TypeOK, cluster, Local
<1>4. Shapes'
  BY <1>1, <1>2, NothingType DEF Shapes
<1>5. ViewsReal'
  BY <1>1 DEF Inv, ViewsReal, cluster
<1>6. ReqPlaced'
  BY <1>1 DEF ReqPlaced, NoReq
<1>7. JobDated'
  BY <1>1, <1>2 DEF JobDated, cluster, Leads, LeadershipAt, Local
<1> QED BY <1>3, <1>4, <1>5, <1>6, <1>7 DEF Inv

LEMMA CandidatesType ==
    ASSUME NEW v \in View, \A m \in Node : Real(v[m])
    PROVE  Candidates(v) \subseteq Node \X (1..MaxInc)
<1> SUFFICES ASSUME NEW m \in Known(v)
             PROVE  <<m, v[m].inc>> \in Node \X (1..MaxInc)
  BY DEF Candidates
<1>1. m \in Node /\ v[m] \in Capabilities /\ v[m].inc # 0
  BY DEF Known, Real, View
<1>2. v[m].inc \in 1..MaxInc
  BY <1>1, LeadershipAssumption DEF Capabilities
<1> QED BY <1>1, <1>2

LEMMA AskComputeInv ==
    ASSUME Inv, AskCompute
    PROVE  Inv'
<1>1. /\ req \in ReqState /\ req.pc = "asking" /\ req.at \in Node
      /\ req.ask \in Node \ {req.at} /\ UNCHANGED <<cluster, job>>
  BY DEF Inv, Shapes, AskCompute, ReqPlaced
<1>2. CASE req' = [req EXCEPT !.pc = "ranking", !.ask = NoNode]
  <2>1. req' \in ReqState
    BY <1>1, <1>2 DEF ReqState
  <2>2. ReqPlaced'
    BY <1>1, <1>2 DEF ReqPlaced, ReqState
  <2> QED BY <1>1, <2>1, <2>2, ReqInv
<1>3. CASE req' = [req EXCEPT !.pc = "told", !.told = Local(req.ask)]
  <2>1. Local(req.ask) \in Capabilities /\ Local(req.ask).inc > 0
    BY <1>1, Parts DEF Inv, Local
  <2>2. req' \in ReqState
    BY <1>1, <1>3, <2>1 DEF ReqState
  <2>3. ReqPlaced'
    BY <1>1, <1>3, <2>1 DEF ReqPlaced, ReqState
  <2> QED BY <1>1, <2>2, <2>3, ReqInv
<1> QED BY <1>2, <1>3 DEF AskCompute

(* What Allocate stores of the compute node, however old, can bring a      *)
(* greater member into the view, and so never makes the daemon lead that   *)
(* stores it.                                                              *)
LEMMA StoreCapabilitiesInv ==
    ASSUME Inv, StoreCapabilities
    PROVE  Inv'
<1>1. /\ TypeOK /\ JobDated /\ job \in JobState /\ req \in ReqState
      /\ req.pc = "told"
      /\ \A k, m \in Node : Real(view[k][m])
      /\ UNCHANGED <<tokens, down, cuts, exchange>>
  BY DEF Inv, Shapes, ViewsReal, StoreCapabilities
<1>2. PICK n \in Node : n = req.at
  BY <1>1 DEF Inv, ReqPlaced
<1>3. PICK c \in Node : c = req.ask /\ c # n
  BY <1>1, <1>2 DEF Inv, ReqPlaced
<1>4. /\ view \in [Node -> View] /\ tokens \in [Node -> Nat]
      /\ \A k \in Node : view[k] \in View /\ view[k][k].inc > 0
  BY <1>1, Parts DEF TypeOK, View
<1>5. /\ req.told \in Capabilities /\ req.told.inc > 0
      /\ req.told # Unknown /\ Real(req.told)
  BY <1>1 DEF Inv, ReqPlaced, ReqState, Capabilities, Unknown, Real
<1> DEFINE v == [view[n] EXCEPT ![c] = req.told]
           missed == /\ job.at = n /\ job.compute = c
                     /\ job.inc # req.told.inc
<1>6. v \in View /\ v[n] = view[n][n] /\ \A m \in Node : Real(v[m])
  BY <1>1, <1>3, <1>4, <1>5 DEF View
<1>7. Known(view[n]) \subseteq Known(v)
  BY <1>4, <1>5 DEF Known, View
<1>8. /\ view' = [view EXCEPT ![n] = v]
      /\ job' = [job EXCEPT !.missed = @ \/ missed,
                            !.deposed = @ \/ (job.at = n /\ Elect(v).id # n)]
      /\ req' = [req EXCEPT !.pc = "ranking", !.ask = NoNode, !.told = Unknown]
  BY <1>2, <1>3 DEF StoreCapabilities
<1>9. missed \in BOOLEAN
  OBVIOUS
<1> HIDE DEF v, missed
<1>10. Elect(v).id = n => Elect(view[n]).id = n
  <2>1. v[n].inc > 0
    BY <1>4, <1>6
  <2>2. /\ n \in Known(view[n]) /\ Elect(view[n]).id \in Known(view[n])
        /\ Elect(view[n]).id \in Node /\ Elect(view[n]).id >= n
    BY <1>4, ElectType
  <2>3. Elect(v).id >= Elect(view[n]).id
    BY <1>6, <1>7, <2>1, <2>2, ElectType
  <2> QED BY <2>2, <2>3, Nodes
<1>11. /\ view' \in [Node -> View] /\ view'[n] = v
       /\ \A k \in Node \ {n} : view'[k] = view[k]
  BY <1>4, <1>6, <1>8
<1>12. req' \in ReqState
  BY <1>1, <1>8, NothingType DEF ReqState, NoReq
<1>13. /\ job' \in JobState /\ job'.at = job.at /\ job'.compute = job.compute
       /\ job'.epoch = job.epoch
       /\ job'.deposed => job.deposed \/ (job.at = n /\ Elect(v).id # n)
  BY <1>1, <1>8, <1>9 DEF JobState
<1>14. TypeOK'
  <2>1. \A k \in Node : view'[k][k].inc > 0
    BY <1>4, <1>6, <1>11
  <2>2. view' \in [Node -> [Node -> Capabilities]]
    BY <1>11 DEF View
  <2>3. req'.at \in Node \cup {NoNode} /\ req'.left \subseteq Node \X (1..MaxInc)
    BY <1>12 DEF ReqState
  <2> QED BY <1>1, <1>13, <2>1, <2>2, <2>3 DEF TypeOK, Local
<1>15. Shapes'
  BY <1>12, <1>13 DEF Shapes
<1>16. ViewsReal'
  <2>1. \A k, m \in Node : Real(view'[k][m])
    BY <1>1, <1>6, <1>11
  <2> QED BY <1>1, <2>1 DEF Inv, ViewsReal
<1>17. ReqPlaced'
  BY <1>1, <1>2, <1>8 DEF ReqPlaced, ReqState
<1>18. JobDated'
  <2>1. \A k \in Node : view'[k][k] = view[k][k]
    BY <1>6, <1>11
  <2>2. \A k \in Node : view'[k][k].gen <= tokens'[k]
    BY <1>1, <2>1 DEF JobDated, Local
  <2>3. ASSUME NEW k \in Node, job.at = k, job'.deposed, Elect(view'[k]).id = k
        PROVE  job.deposed /\ Elect(view[k]).id = k
    <3>1. CASE k = n
      BY <1>10, <1>11, <1>13, <2>3, <3>1
    <3>2. CASE k # n
      BY <1>11, <1>13, <2>3, <3>2
    <3> QED BY <3>1, <3>2
  <2> QED
    BY <1>1, <1>13, <2>1, <2>2, <2>3 DEF JobDated, Leads, LeadershipAt, Local
<1> QED BY <1>14, <1>15, <1>16, <1>17, <1>18 DEF Inv

LEMMA RankMembersInv ==
    ASSUME Inv, RankMembers
    PROVE  Inv'
<1>1. /\ req \in ReqState /\ req.pc = "ranking" /\ req.at \in Node
      /\ req' = [req EXCEPT !.pc = "ranked", !.left = Candidates(view[req.at])]
      /\ UNCHANGED <<cluster, job>>
  BY DEF Inv, Shapes, RankMembers, ReqPlaced
<1>2. Candidates(view[req.at]) \in SUBSET (Node \X (1..MaxInc))
  BY <1>1, Parts, CandidatesType DEF Inv, ViewsReal
<1>3. req' \in ReqState
  BY <1>1, <1>2 DEF ReqState
<1>4. ReqPlaced'
  BY <1>1 DEF ReqPlaced, ReqState
<1> QED BY <1>1, <1>3, <1>4, ReqInv

LEMMA ReadLeadershipInv ==
    ASSUME Inv, ReadLeadership
    PROVE  Inv'
<1>1. /\ req \in ReqState /\ req.pc = "ranked" /\ req.at \in Node
      /\ req' = [req EXCEPT !.pc = "sent", !.lead = Elect(view[req.at])]
      /\ UNCHANGED <<cluster, job>>
  BY DEF Inv, Shapes, ReadLeadership, ReqPlaced, LeadershipAt
<1>2. Elect(view[req.at]) \in Lead
  BY <1>1, Parts, ElectType DEF Inv
<1>3. req' \in ReqState
  BY <1>1, <1>2 DEF ReqState
<1>4. ReqPlaced'
  BY <1>1 DEF ReqPlaced, ReqState
<1> QED BY <1>1, <1>3, <1>4, ReqInv

LEMMA AllocateLocalInv ==
    ASSUME Inv, NEW m \in Node, NEW i \in 1..MaxInc, AllocateLocal(m, i)
    PROVE  Inv'
<1>1. /\ req \in ReqState /\ req.pc = "sent" /\ req.at \in Node
      /\ UNCHANGED <<cluster, job>>
  BY DEF Inv, Shapes, AllocateLocal, ReqPlaced
<1>2. CASE req' = NoReq
  BY <1>1, <1>2, ReqEndInv
<1>3. CASE req' = [req EXCEPT !.left = @ \ {<<m, i>>}]
  <2>1. req' \in ReqState
    BY <1>1, <1>3 DEF ReqState
  <2>2. ReqPlaced'
    BY <1>1, <1>3 DEF ReqPlaced, ReqState
  <2> QED BY <1>1, <2>1, <2>2, ReqInv
<1> QED BY <1>2, <1>3 DEF AllocateLocal

-----------------------------------------------------------------------------
(* The invariant and what follows from it *)

LEMMA InitInv == Init => Inv
<1> SUFFICES ASSUME Init PROVE Inv
  OBVIOUS
<1> DEFINE own == [inc |-> 1, gen |-> 1]
<1>1. own \in Capabilities /\ Unknown \in Capabilities /\ own.inc = 1 /\ own.gen = 1
  BY LeadershipAssumption DEF Capabilities, Unknown
<1>2. view = [n \in Node |-> [m \in Node |-> IF m = n THEN own ELSE Unknown]]
  BY DEF Init
<1>3. Real(own) /\ Real(Unknown)
  BY DEF Real
<1> HIDE DEF own
<1>4. /\ view \in [Node -> [Node -> Capabilities]]
      /\ \A n \in Node : view[n][n] = own
      /\ \A n, m \in Node : Real(view[n][m])
  BY <1>1, <1>2, <1>3
<1>5. /\ tokens = [n \in Node |-> 1] /\ down = {} /\ cuts = 0 /\ exchange = {}
      /\ job = NoJob /\ req = NoReq
  BY DEF Init
<1>6. TypeOK
  <2>1. /\ job.at \in Node \cup {NoNode} /\ job.compute \in Node \cup {NoNode}
        /\ req.at \in Node \cup {NoNode} /\ req.left = {}
    BY <1>5 DEF NoJob, NoReq
  <2>2. 0 \in 0..MaxCuts
    BY LeadershipAssumption
  <2> QED BY <1>1, <1>4, <1>5, <2>1, <2>2 DEF TypeOK, Local
<1>7. Shapes
  BY <1>5, NothingType DEF Shapes
<1>8. ViewsReal
  BY <1>4, <1>5 DEF ViewsReal
<1>9. ReqPlaced
  BY <1>5 DEF ReqPlaced, NoReq
<1>10. JobDated
  BY <1>1, <1>4, <1>5, Nodes DEF JobDated, Local, NoJob
<1> QED BY <1>6, <1>7, <1>8, <1>9, <1>10 DEF Inv

LEMMA NextInv == Inv /\ [Next]_vars => Inv'
<1> SUFFICES ASSUME Inv, [Next]_vars PROVE Inv'
  OBVIOUS
<1>1. CASE UNCHANGED vars
  <2>1. UNCHANGED <<cluster, job>> /\ req' = req
    BY <1>1 DEF vars
  <2>2. req' \in ReqState /\ ReqPlaced'
    BY <2>1 DEF Inv, Shapes, ReqPlaced
  <2> QED BY <2>1, <2>2, ReqInv
<1>2. CASE Membership
  BY <1>2, ExchangeInv, AnswerExchangeInv, EndExchangeInv, LoseExchangeInv,
     ExpireInv
  DEF Membership
<1>3. CASE Requests
  <2>1. CASE NoCandidate
    BY <2>1, ReqEndInv DEF NoCandidate
  <2> QED
    BY <1>3, <2>1, SubmitInv, ForwardInv, HandleInv, PlanInv, EnterJobInv,
       CheckJobInv, AskComputeInv, StoreCapabilitiesInv, RankMembersInv,
       ReadLeadershipInv, AllocateLocalInv
    DEF Requests
<1>4. CASE Faults
  BY <1>4, RestartInv, LinkInv DEF Faults
<1> QED BY <1>1, <1>2, <1>3, <1>4 DEF Next

LEMMA Invariant == Spec => []Inv
BY InitInv, NextInv, PTL DEF Spec

(* Views, exchanges, the job and the request keep their shapes, and every  *)
(* daemon knows itself: no expiry, exchange or Allocate removes or         *)
(* replaces a daemon's entry of itself.                                    *)
THEOREM TypeCorrect == Spec => []TypeOK
<1>1. Inv => TypeOK
  BY DEF Inv
<1> QED BY <1>1, Invariant, PTL

(* A job that JobStatus still reports as active has had one leader all the *)
(* time, for any number of daemons, restarts, cuts and exchanges: whoever  *)
(* leads again after another has led carries a generation the job was not  *)
(* planned under (rotate_leader).                                          *)
THEOREM ActiveJobOneLeader == Spec => []ActiveJobContinuous
<1>1. Inv => ActiveJobContinuous
  <2> SUFFICES ASSUME Inv, Active, job.deposed PROVE FALSE
    BY DEF ActiveJobContinuous
  <2>1. PICK n \in Node : n = job.at
    BY DEF Active, Entered, Inv, TypeOK
  <2>2. /\ Elect(view[n]).id = n /\ Elect(view[n]).epoch = job.epoch
    BY <2>1 DEF Active, Leads, LeadershipAt
  <2>3. Elect(view[n]).epoch = <<n, view[n][n].gen>>
    BY <2>2, Parts, ElectType DEF Inv
  <2> QED
    BY <2>1, <2>2, <2>3 DEF Inv, JobDated, Leads, LeadershipAt, Local
<1> QED BY <1>1, Invariant, PTL

=============================================================================
