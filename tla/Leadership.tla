----------------------------- MODULE Leadership ------------------------------
(***************************************************************************)
(* Who leads, and what becomes of a job when that changes: the membership  *)
(* view of every daemon (cluster/membership.rs), the election every daemon *)
(* holds on its own view (cluster/election.rs), the exchange, expiry and   *)
(* rotation of leader generations (runtime/monitor.rs), and the requests   *)
(* of one job that the leader answers: Plan, JobStatus and Allocate        *)
(* (runtime/control.rs, jobs/mod.rs).                                      *)
(*                                                                         *)
(* A node is its rank in the order (election_score, node_id), which is     *)
(* fixed by the hardware and the installation.  A leader generation, a     *)
(* Uuid in the code, is the pair of the node and a count of the tokens it  *)
(* has drawn.  There is no quorum: two daemons may see two leaders.        *)
(***************************************************************************)
EXTENDS Integers, FiniteSetsExt

CONSTANTS
    Node,          \* ranks of the daemons
    MaxInc,        \* bound: incarnations of one node
    MaxCuts,       \* bound: how often a link fails
    MaxExchanges   \* bound: exchanges under way at a time

ASSUME LeadershipAssumption ==
    /\ Node \subseteq Nat \ {0} /\ IsFiniteSet(Node) /\ Node # {}
    /\ MaxInc \in Nat \ {0}
    /\ MaxCuts \in Nat
    /\ MaxExchanges \in Nat \ {0}

VARIABLES
    view,      \* view[n][m]: the capabilities n has for m, Unknown if none
    tokens,    \* tokens[n]: leader generations n has drawn
    down,      \* links that do not work, as sets of two nodes
    cuts,      \* how often a link has failed
    exchange,  \* exchanges under way
    job,       \* the job as the daemon that planned it keeps it
    req,       \* the request the client has under way
    strayed    \* history: a block was granted under another leadership than
               \* the one that planned the job

cluster == <<view, tokens, down, cuts, exchange>>
vars == <<cluster, job, req, strayed>>

-----------------------------------------------------------------------------
(* Views and elections *)

(* The capabilities that matter here: incarnation and leader_generation. *)
Capabilities == [inc : 0..MaxInc, gen : Nat]
Unknown == [inc |-> 0, gen |-> 0]

NoNode == 0

Known(v) == {m \in Node : v[m] # Unknown}
Local(n) == view[n][n]

(* elect: the greatest member of the view leads, under the generation the  *)
(* view has of it.                                                         *)
Elect(v) ==
    LET id == Max(Known(v)) IN [id |-> id, epoch |-> <<id, v[id].gen>>]

LeadershipAt(n) == Elect(view[n])

Leads(n) == LeadershipAt(n).id = n

Linked(n, m) == n = m \/ {n, m} \notin down

(* rotate_leader: a daemon that has just become the leader of its own view *)
(* draws a new generation; the mutant keeps the one it had.                *)
RotatedMutant(n, before, after) == after
Rotated(n, before, after) ==
    IF Elect(after).id = n /\ Elect(before).id # n
    THEN [after EXCEPT ![n].gen = tokens[n] + 1]
    ELSE after

-----------------------------------------------------------------------------
(* The job and its requests *)

(* at: who planned it and keeps it; inc: the compute node's incarnation in *)
(* the plan; deposed, missed: history, whether that daemon has seen        *)
(* another leader since, and whether it has taken another incarnation of   *)
(* the compute node into its view where no lose_compute reached the job.   *)
NoJob == [at |-> NoNode, epoch |-> <<NoNode, 0>>, compute |-> NoNode, inc |-> 0,
          lost |-> FALSE, deposed |-> FALSE, missed |-> FALSE]

NoLead == [id |-> NoNode, epoch |-> <<NoNode, 0>>]

(* ask, told: the compute node an Allocate asks, and what it has answered. *)
NoReq == [op |-> "none", at |-> NoNode, pc |-> "idle", ask |-> NoNode,
          told |-> Unknown, lead |-> NoLead, left |-> {}]

(* The job is in the table of the daemon that planned it. *)
Entered == job.at # NoNode /\ req.pc # "planned"

(* What JobStatus answers with the job and not with an error. *)
Active ==
    /\ Entered
    /\ Leads(job.at)
    /\ LeadershipAt(job.at).epoch = job.epoch
    /\ ~job.lost

(* The view of n becomes v; gone are the nodes whose loss or restart n has *)
(* noticed (Jobs.lose_compute, which sees the jobs that are entered).  The *)
(* mutant does not fail the job.                                           *)
FailedMutant(n, gone) == FALSE
Failed(n, gone) == Entered /\ job.at = n /\ job.compute \in gone

SetView(n, v, gone) ==
    /\ view' = [view EXCEPT ![n] = v]
    /\ tokens' = [tokens EXCEPT ![n] = IF v[n].gen > @ THEN v[n].gen ELSE @]
    /\ job' = [job EXCEPT !.lost = @ \/ Failed(n, gone),
                          !.deposed = @ \/ (job.at = n /\ Elect(v).id # n)]

-----------------------------------------------------------------------------
(* Membership *)

(* accept_peer: an incarnation that differs from the known one is a        *)
(* restart; the mutant only renews last_seen of a peer it knows.           *)
AcceptedMutant(n, m, caps) ==
    IF view[n][m] # Unknown THEN view[n]
    ELSE Rotated(n, view[n], [view[n] EXCEPT ![m] = caps])
Accepted(n, m, caps) ==
    Rotated(n, view[n], [view[n] EXCEPT ![m] = caps])

AcceptPeer(n, m, caps) ==
    SetView(n, Accepted(n, m, caps),
            IF view[n][m] # Unknown /\ view[n][m].inc # caps.inc
            THEN {m} ELSE {})

(* n sends its capabilities to a seed, a discovered or a known peer. *)
Exchange(n, m) ==
    /\ n # m /\ Linked(n, m)
    /\ Cardinality(exchange) < MaxExchanges
    /\ \A x \in exchange : x.from # n \/ x.to # m
    /\ exchange' = exchange \cup {[from |-> n, to |-> m, at |-> "request",
                                   caps |-> Local(n)]}
    /\ UNCHANGED <<view, tokens, down, cuts, job, req, strayed>>

(* The peer accepts them and answers with its own ... *)
AnswerExchange(x) ==
    /\ x.at = "request"
    /\ AcceptPeer(x.to, x.from, x.caps)
    /\ exchange' = (exchange \ {x})
         \cup {[x EXCEPT !.at = "reply", !.caps = view'[x.to][x.to]]}
    /\ UNCHANGED <<down, cuts, req, strayed>>

(* ... which n accepts in turn. *)
EndExchange(x) ==
    /\ x.at = "reply"
    /\ AcceptPeer(x.from, x.to, x.caps)
    /\ exchange' = exchange \ {x}
    /\ UNCHANGED <<down, cuts, req, strayed>>

(* The exchange fails, or takes longer than its 1.5 seconds; a link over   *)
(* which it does so counts as down.                                        *)
LoseExchange(x) ==
    /\ ~Linked(x.from, x.to)
    /\ exchange' = exchange \ {x}
    /\ UNCHANGED <<view, tokens, down, cuts, job, req, strayed>>

(* The monitor drops the peers it has not heard of for seven seconds: they *)
(* cannot be reached, since every peer is asked every two.                 *)
Expire(n, dead) ==
    /\ dead # {} /\ dead \subseteq Known(view[n])
    /\ \A m \in dead : ~Linked(n, m)
    /\ SetView(n, Rotated(n, view[n],
                          [m \in Node |-> IF m \in dead THEN Unknown
                                          ELSE view[n][m]]),
               dead)
    /\ UNCHANGED <<down, cuts, exchange, req, strayed>>

(* A new process of n: it knows itself only, under a new incarnation and   *)
(* generation.  Its jobs, handlers and connections are gone; what it had   *)
(* sent may still arrive.                                                  *)
Restart(n) ==
    /\ Local(n).inc < MaxInc
    /\ view' = [view EXCEPT
                  ![n] = [m \in Node |->
                            IF m = n THEN [inc |-> Local(n).inc + 1,
                                           gen |-> tokens[n] + 1]
                            ELSE Unknown]]
    /\ tokens' = [tokens EXCEPT ![n] = @ + 1]
    /\ exchange' = {x \in exchange : IF x.at = "request" THEN x.to # n
                                     ELSE x.from # n}
    /\ job' = IF job.at = n THEN NoJob ELSE job
    /\ req' = IF req.at = n THEN NoReq ELSE req
    /\ UNCHANGED <<down, cuts, strayed>>

CutLink(n, m) ==
    /\ n # m /\ Linked(n, m)
    /\ cuts < MaxCuts
    /\ cuts' = cuts + 1
    /\ down' = down \cup {{n, m}}
    /\ UNCHANGED <<view, tokens, exchange, job, req, strayed>>

HealLink(n, m) ==
    /\ ~Linked(n, m)
    /\ down' = down \ {{n, m}}
    /\ UNCHANGED <<view, tokens, cuts, exchange, job, req, strayed>>

-----------------------------------------------------------------------------
(* Requests *)

(* The client sends Plan once, then Allocate for its job, to any daemon.   *)
(* JobStatus changes nothing: Active is what it answers.                   *)
Submit(n, op) ==
    /\ req = NoReq
    /\ (op = "plan") = (job = NoJob)
    /\ req' = [NoReq EXCEPT !.op = op, !.at = n, !.pc = "arrived"]
    /\ UNCHANGED <<cluster, job, strayed>>

(* control: a daemon that does not lead passes the request on to the one   *)
(* that does, in its view, over a connection of its own.                   *)
Forward ==
    /\ req.pc = "arrived"
    /\ ~Leads(req.at)
    /\ req' = IF Linked(req.at, LeadershipAt(req.at).id)
              THEN [req EXCEPT !.at = LeadershipAt(req.at).id]
              ELSE NoReq
    /\ UNCHANGED <<cluster, job, strayed>>

(* A daemon that leads handles it; by then it may lead no more. *)
Handle ==
    /\ req.pc = "arrived"
    /\ Leads(req.at)
    /\ req' = [req EXCEPT !.pc = "handled"]
    /\ UNCHANGED <<cluster, job, strayed>>

(* CapacityPlanner.plan: the member c with the largest GPU computes, or    *)
(* nobody does, under the leadership as it is now.                         *)
Planned(n, c) ==
    [NoJob EXCEPT !.at = n, !.epoch = LeadershipAt(n).epoch, !.compute = c,
                  !.inc = IF c = NoNode THEN 0 ELSE view[n][c].inc,
                  !.deposed = ~Leads(n)]

(* Plan makes the plan from the view as it is, unless a stage exceeds      *)
(* every GPU, and releases the view ...                                    *)
Plan(c) ==
    /\ req.pc = "handled" /\ req.op = "plan"
    /\ c \in Known(view[req.at]) \cup {NoNode}
    /\ \/ /\ job' = Planned(req.at, c)
          /\ req' = [req EXCEPT !.pc = "planned"]
       \/ /\ req' = NoReq
          /\ UNCHANGED job
    /\ UNCHANGED <<cluster, strayed>>

(* ... before it enters the job, as it was planned, under the jobs' lock.  *)
(* What the view has lost in between, no lose_compute will see again.      *)
EnterJob ==
    /\ req.pc = "planned"
    /\ job' = [job EXCEPT !.missed = job.compute # NoNode
                             /\ view[job.at][job.compute].inc # job.inc]
    /\ req' = NoReq
    /\ UNCHANGED <<cluster, strayed>>

(* Allocate first looks the job up, and where its compute node is. *)
CheckJob ==
    /\ req.pc = "handled" /\ req.op = "allocate"
    /\ req' = IF /\ job.at = req.at /\ ~job.lost
                 /\ job.epoch = LeadershipAt(req.at).epoch
              THEN IF job.compute \in Known(view[req.at]) \ {req.at}
                   THEN [req EXCEPT !.pc = "asking", !.ask = job.compute]
                   ELSE [req EXCEPT !.pc = "ranking"]
              ELSE NoReq
    /\ UNCHANGED <<cluster, job, strayed>>

(* It asks the compute node for its capabilities, unless the call fails;   *)
(* the answer may be old when it is used.                                  *)
AskCompute ==
    /\ req.pc = "asking"
    /\ \/ req' = [req EXCEPT !.pc = "ranking", !.ask = NoNode]
       \/ /\ Linked(req.at, req.ask)
          /\ req' = [req EXCEPT !.pc = "told", !.told = Local(req.ask)]
    /\ UNCHANGED <<cluster, job, strayed>>

(* It stores what it was told without looking for a restart or a new       *)
(* leader, also of a member that has expired meanwhile.                    *)
StoreCapabilities ==
    /\ req.pc = "told"
    /\ LET v == [view[req.at] EXCEPT ![req.ask] = req.told]
       IN  /\ view' = [view EXCEPT ![req.at] = v]
           /\ job' = [job EXCEPT
                        !.missed = @ \/ (/\ job.at = req.at
                                         /\ job.compute = req.ask
                                         /\ job.inc # req.told.inc),
                        !.deposed = @ \/ (job.at = req.at
                                           /\ Elect(v).id # req.at)]
    /\ req' = [req EXCEPT !.pc = "ranking", !.ask = NoNode, !.told = Unknown]
    /\ UNCHANGED <<tokens, down, cuts, exchange, strayed>>

(* The members that may be asked for a block, in any order; the mutant     *)
(* does not see who has left.                                              *)
CandidatesMutant(v) == {<<m, v[m].inc>> : m \in Node}
Candidates(v) == {<<m, v[m].inc>> : m \in Known(v)}

(* It ranks the members ... *)
RankMembers ==
    /\ req.pc = "ranking"
    /\ req' = [req EXCEPT !.pc = "ranked", !.left = Candidates(view[req.at])]
    /\ UNCHANGED <<cluster, job, strayed>>

(* ... and reads its leadership again, for AllocateLocal. *)
ReadLeadership ==
    /\ req.pc = "ranked"
    /\ req' = [req EXCEPT !.pc = "sent", !.lead = LeadershipAt(req.at)]
    /\ UNCHANGED <<cluster, job, strayed>>

(* AllocateLocal at the candidate m: it takes the block if it agrees on    *)
(* the leadership and is the process that was meant, otherwise, or when it *)
(* cannot be reached, the next candidate is tried.                         *)
AllocateLocal(m, i) ==
    /\ req.pc = "sent"
    /\ <<m, i>> \in req.left
    /\ \/ /\ Linked(req.at, m)
          /\ LeadershipAt(m) = req.lead
          /\ Local(m).inc = i
          /\ strayed' = (strayed \/ req.lead.epoch # job.epoch)
          /\ req' = NoReq
       \/ /\ req' = [req EXCEPT !.left = @ \ {<<m, i>>}]
          /\ UNCHANGED strayed
    /\ UNCHANGED <<cluster, job>>

(* TRAINPOOL_OUT_OF_CAPACITY *)
NoCandidate ==
    /\ req.pc = "sent" /\ req.left = {}
    /\ req' = NoReq
    /\ UNCHANGED <<cluster, job, strayed>>

-----------------------------------------------------------------------------
Init ==
    /\ view = [n \in Node |-> [m \in Node |->
                 IF m = n THEN [inc |-> 1, gen |-> 1] ELSE Unknown]]
    /\ tokens = [n \in Node |-> 1]
    /\ down = {}
    /\ cuts = 0
    /\ exchange = {}
    /\ job = NoJob
    /\ req = NoReq
    /\ strayed = FALSE

Requests ==
    \/ \E n \in Node, op \in {"plan", "allocate"} : Submit(n, op)
    \/ Forward \/ Handle
    \/ \E c \in Node \cup {NoNode} : Plan(c)
    \/ EnterJob
    \/ CheckJob \/ AskCompute \/ StoreCapabilities
    \/ RankMembers \/ ReadLeadership
    \/ \E m \in Node, i \in 1..MaxInc : AllocateLocal(m, i)
    \/ NoCandidate

Membership ==
    \/ \E n, m \in Node : Exchange(n, m)
    \/ \E x \in exchange :
         AnswerExchange(x) \/ EndExchange(x) \/ LoseExchange(x)
    \/ \E n \in Node : \E dead \in SUBSET Node : Expire(n, dead)

Faults ==
    \/ \E n \in Node : Restart(n)
    \/ \E n, m \in Node : CutLink(n, m) \/ HealLink(n, m)

Next == Membership \/ Requests \/ Faults

Spec == Init /\ [][Next]_vars

(* Two peers whose link works exchange again and again, because at least   *)
(* one of their monitors asks the other every two seconds, and what is     *)
(* under way on such a link is finished; peers that cannot be reached      *)
(* expire.  Nothing is assumed of clients.                                 *)
Fairness ==
    /\ \A n, m \in Node :
         n < m => SF_vars(Exchange(n, m) \/ Exchange(m, n))
    /\ WF_vars(\E x \in exchange :
                 AnswerExchange(x) \/ EndExchange(x) \/ LoseExchange(x))
    /\ \A n \in Node : WF_vars(\E dead \in SUBSET Node : Expire(n, dead))

FairSpec == Spec /\ Fairness

-----------------------------------------------------------------------------
(* Properties *)

(* Views, exchanges, job and request keep their shapes; every daemon knows *)
(* itself.                                                                 *)
TypeOK ==
    /\ view \in [Node -> [Node -> Capabilities]]
    /\ \A n \in Node : Local(n).inc > 0
    /\ tokens \in [Node -> Nat]
    /\ down \subseteq {{n, m} : n, m \in Node}
    /\ cuts \in 0..MaxCuts
    /\ exchange \subseteq [from : Node, to : Node, at : {"request", "reply"},
                           caps : Capabilities]
    /\ job.at \in Node \cup {NoNode} /\ job.compute \in Node \cup {NoNode}
    /\ req.at \in Node \cup {NoNode}
    /\ req.left \subseteq Node \X (1..MaxInc)

(* A job that JobStatus still reports as active has had one leader all the *)
(* time: the daemon that planned it has not seen another one meanwhile,    *)
(* however leaders, links and processes came and went.                     *)
ActiveJobContinuous == Active => ~job.deposed

(* Once the links work again for good, all daemons come to agree on the    *)
(* leader and its generation, whatever they believed during the outage.    *)
Agreed == \A n, m \in Node : LeadershipAt(n) = LeadershipAt(m)
Converges == <>[](down = {}) => <>[]Agreed

(* A job whose compute node has restarted does not stay active, except     *)
(* when its leader took the new process into its view where lose_compute   *)
(* cannot reach the job: between the plan and its entry, or in Allocate.   *)
ComputeLost ==
    job.compute # NoNode /\ Local(job.compute).inc # job.inc
ComputeLossNoticed == ComputeLost ~> (~Active \/ job.missed)

(* Not met by the code: node loss "fails affected jobs", without           *)
(* exception.  A restart that the leader accepts while Plan waits for the  *)
(* jobs' lock, or stores in Allocate, fails no job.                        *)
ComputeLossFails == ComputeLost ~> ~Active

(* Not met by the code: a block is granted to a job only under the         *)
(* leadership that planned it, since a change of the leader's generation   *)
(* invalidates the job.  Allocate compares the epochs first and reads the  *)
(* leadership again before it sends AllocateLocal.                         *)
GrantedUnderPlan == ~strayed

=============================================================================
