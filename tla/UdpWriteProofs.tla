--------------------------- MODULE UdpWriteProofs ----------------------------
(***************************************************************************)
(* Proofs about UdpWrite for every chunk, window, bitmap and retry bound,  *)
(* and any number of receiver tasks.                                       *)
(***************************************************************************)
EXTENDS UdpWrite, WellFoundedInduction, TLAPS

-----------------------------------------------------------------------------
(* What the operators of UdpSender return *)

(* Every set of natural numbers that is not empty has a least element. *)
LEMMA Least ==
    ASSUME NEW S, S \subseteq Nat, S # {}
    PROVE  \E n \in S : \A m \in S : n <= m
<1> DEFINE R == OpToRel(<, Nat)
<1>1. \E n \in S : \A m \in S : <<m, n>> \notin R
  <2>1. IsWellFoundedOn(R, Nat)
    BY NatLessThanWellFounded
  <2> HIDE DEF R
  <2> QED BY <2>1, WFMin
<1>2. \A m, n \in Nat : m < n => <<m, n>> \in R
  BY DEF OpToRel
<1> HIDE DEF R
<1>3. PICK n \in S : \A m \in S : <<m, n>> \notin R
  BY <1>1
<1>4. \A m \in S : ~(m < n)
  BY <1>2, <1>3
<1>5. \A m \in S : n <= m
  BY <1>4
<1> QED BY <1>5

LEMMA MinType ==
    ASSUME NEW S, S \subseteq Nat, S # {}
    PROVE  Min(S) \in S
BY Least DEF Min

LEMMA MaxType ==
    ASSUME NEW S, S \subseteq Sequence, S # {}
    PROVE  Max(S) \in S
<1> DEFINE T == {Packets - x : x \in S}
<1>1. T \subseteq Nat /\ T # {}
  <2>1. \A x \in S : x \in Int /\ x <= Packets
    BY SenderAssumption DEF Sequence
  <2>2. \A x \in S : Packets - x \in Nat
    BY <2>1, SenderAssumption
  <2> QED BY <2>2
<1>2. PICK n \in T : \A m \in T : n <= m
  <2> HIDE DEF T
  <2> QED BY <1>1, Least
<1>3. PICK x \in S : n = Packets - x
  BY <1>2
<1>4. \A y \in S : x >= y
  <2> SUFFICES ASSUME NEW y \in S PROVE x >= y
    OBVIOUS
  <2>1. n <= Packets - y
    BY <1>2
  <2>2. x \in Int /\ y \in Int
    BY DEF Sequence
  <2> QED BY <2>1, <2>2, <1>3, SenderAssumption
<1> QED BY <1>4 DEF Max

(* A sender in another phase is still one. *)
LEMMA PhaseMoved ==
    ASSUME NEW s \in Sender, NEW p \in Phase
    PROVE  [s EXCEPT !.phase = p] \in Sender
BY DEF Sender

LEMMA EnterWindowType ==
    ASSUME NEW s \in Sender, NEW b \in Nat
    PROVE  /\ EnterWindow(s, b) \in Sender
           /\ EnterWindow(s, b).phase \in {"data", "fin"}
           /\ EnterWindow(s, b).acked = s.acked
<1> DEFINE opens(i) == /\ (i - b) % s.win = 0
                       /\ \E j \in Sequence \ s.acked : j >= i /\ j < i + s.win
           open == {i \in b..Packets - 1 : opens(i)}
           first == Min(open)
<1> HIDE DEF opens
<1>1. CASE open = {}
  <2>1. EnterWindow(s, b) = [s EXCEPT !.phase = "fin", !.retries = 0,
                                      !.base = Packets, !.end = Packets]
    BY <1>1 DEF EnterWindow, opens
  <2>2. /\ "fin" \in Phase /\ 0 \in 0..MaxRetries
        /\ Packets \in 0..Packets
    BY SenderAssumption DEF Phase
  <2>3. EnterWindow(s, b) \in Sender
    BY <2>1, <2>2 DEF Sender
  <2> QED BY <2>1, <2>3 DEF Sender
<1>2. CASE open # {}
  <2>1. first \in open
    BY <1>2, MinType, SenderAssumption
  <2>2. EnterWindow(s, b) =
          [s EXCEPT !.phase = "data", !.retries = 0, !.base = first,
                    !.end = Lesser(first + s.win, Packets)]
    BY <1>2 DEF EnterWindow, opens
  <2>3. first \in 0..Packets /\ Lesser(first + s.win, Packets) \in 0..Packets
    BY <2>1, SenderAssumption DEF Lesser, Sender
  <2> HIDE DEF first
  <2> DEFINE last == Lesser(first + s.win, Packets)
  <2>4. /\ "data" \in Phase /\ 0 \in 0..MaxRetries
        /\ last \in 0..Packets
    BY <2>3, SenderAssumption DEF Phase
  <2> HIDE DEF last
  <2>5. EnterWindow(s, b) = [s EXCEPT !.phase = "data", !.retries = 0,
                                      !.base = first, !.end = last]
    BY <2>2 DEF last
  <2>6. EnterWindow(s, b) \in Sender
    BY <2>3, <2>4, <2>5 DEF Sender
  <2> QED BY <2>5, <2>6 DEF Sender
<1> QED BY <1>1, <1>2

LEMMA NegotiatedType ==
    ASSUME NEW s \in Sender
    PROVE  /\ Negotiated(s) \in Sender
           /\ Negotiated(s).phase = s.phase
           /\ Negotiated(s).acked = s.acked
BY SenderAssumption DEF Negotiated, Sender, Lesser, Greater

LEMMA EndRoundType ==
    ASSUME NEW s \in Sender, s.phase = "data"
    PROVE  /\ EndRound(s) \in Sender
           /\ EndRound(s).phase \in {"data", "fin", "timeout"}
           /\ EndRound(s).acked = s.acked
<1> DEFINE rounds == s.retries + 1
           win == IF rounds > 1 THEN Greater(s.win \div 2, 2) ELSE s.win
           r == [s EXCEPT !.win = win]
<1>1. win \in Nat /\ s.end \in Nat /\ s.retries \in Nat
  BY SenderAssumption DEF Sender, Greater
<1>2. r \in Sender /\ r.acked = s.acked
  BY <1>1 DEF Sender
<1> HIDE DEF win
<1>3. CASE rounds > MaxRetries
  <2>1. EndRound(s) = [s EXCEPT !.phase = "timeout"]
    BY <1>3 DEF EndRound
  <2>2. EndRound(s) \in Sender
    BY <2>1, PhaseMoved DEF Phase
  <2> QED BY <2>1, <2>2 DEF Sender
<1>4. CASE rounds <= MaxRetries /\ Missing(s) = {}
  <2>1. EndRound(s) = EnterWindow(r, s.end)
    BY <1>4, <1>1, SenderAssumption DEF EndRound, win
  <2> QED BY ZenonT(60), <2>1, <1>1, <1>2, EnterWindowType
<1>5. CASE rounds <= MaxRetries /\ Missing(s) # {}
  <2>1. EndRound(s) = [s EXCEPT !.retries = rounds, !.win = win]
    BY <1>5, <1>1, SenderAssumption DEF EndRound, win
  <2>2. rounds \in 0..MaxRetries
    BY <1>5, <1>1, SenderAssumption
  <2> HIDE DEF rounds
  <2>3. EndRound(s) \in Sender
    BY <2>1, <2>2, <1>1 DEF Sender
  <2> QED BY <2>1, <2>3 DEF Sender
<1> QED BY <1>1, <1>3, <1>4, <1>5, SenderAssumption

LEMMA TryAgainType ==
    ASSUME NEW s \in Sender
    PROVE  /\ TryAgain(s) \in Sender
           /\ TryAgain(s).phase \in {s.phase, "timeout"}
           /\ TryAgain(s).acked = s.acked
BY SenderAssumption DEF TryAgain, Sender, Phase

LEMMA OnTimeoutType ==
    ASSUME NEW s \in Sender, s.phase \in Sending
    PROVE  /\ OnTimeout(s) \in Sender
           /\ OnTimeout(s).phase \notin {"done"}
           /\ s.phase = "fin" => OnTimeout(s).phase \notin {"start", "data"}
           /\ OnTimeout(s).acked = s.acked
BY EndRoundType, TryAgainType DEF OnTimeout, Sending

(* What the sender hears. *)
Replies == Datagrams({"StartAck", "Ack", "Nack", "Complete", "Error"})

LEMMA AcknowledgedType ==
    ASSUME NEW s \in Sender, NEW m \in Replies
    PROVE  /\ Acknowledged(s, m) \in SUBSET Sequence
           /\ m.kind = "Ack" => Acknowledged(s, m) = s.acked \cup m.bits
BY SenderAssumption DEF Acknowledged, Sender, Sequence, Replies, Datagrams

LEMMA OnDatagramType ==
    ASSUME NEW s \in Sender, s.phase \in Sending, NEW m \in Replies
    PROVE  /\ OnDatagram(s, m) \in Sender
           /\ OnDatagram(s, m).phase = "done" => m.kind = "Complete"
           /\ s.phase = "fin" => OnDatagram(s, m).phase \notin {"start", "data"}
           /\ \/ OnDatagram(s, m).acked = s.acked
              \/ m.kind = "Ack" /\ OnDatagram(s, m).acked = s.acked \cup m.bits
              \/ /\ m.kind = "Nack" /\ s.phase = "data"
                 /\ OnDatagram(s, m).acked = Acknowledged(s, m)
<1>1. m.kind \in {"StartAck", "Ack", "Nack", "Complete", "Error"}
  BY DEF Replies, Datagrams
<1>2. CASE m.kind = "Error"
  <2>1. OnDatagram(s, m) = [s EXCEPT !.phase = "error"]
    BY <1>2 DEF OnDatagram
  <2> QED BY <2>1, <1>2 DEF Sender, Phase
<1>3. CASE s.phase = "start" /\ m.kind = "StartAck"
  <2>1. OnDatagram(s, m) = EnterWindow(Negotiated(s), 0)
    BY <1>3 DEF OnDatagram
  <2> QED BY <2>1, <1>3, NegotiatedType, EnterWindowType
<1>4. CASE s.phase = "data" /\ m.kind \in {"Ack", "Nack"}
  <2> DEFINE a == [s EXCEPT !.acked = Acknowledged(s, m)]
             heard == Negotiated(a)
  <2>1. OnDatagram(s, m) = OnBitmap(s, m)
    BY <1>4 DEF OnDatagram
  <2>2. a \in Sender /\ a.acked = Acknowledged(s, m) /\ a.phase = "data"
    BY <1>4, AcknowledgedType DEF Sender
  <2>3. /\ heard \in Sender /\ heard.acked = Acknowledged(s, m)
        /\ heard.phase = "data"
    BY <2>2, NegotiatedType
  <2>4. OnBitmap(s, m) = IF Missing(heard) = {} THEN EndRound(heard) ELSE heard
    BY DEF OnBitmap
  <2> HIDE DEF heard
  <2>5. OnBitmap(s, m) \in Sender /\ OnBitmap(s, m).acked = Acknowledged(s, m)
          /\ OnBitmap(s, m).phase # "done"
    BY <2>3, <2>4, EndRoundType
  <2> QED BY <2>1, <2>5, <1>4, AcknowledgedType
<1>5. CASE s.phase = "fin" /\ m.kind = "Complete"
  <2>1. OnDatagram(s, m) = [s EXCEPT !.phase = "done"]
    BY <1>5 DEF OnDatagram
  <2> QED BY <2>1, <1>5 DEF Sender, Phase
<1>6. CASE s.phase = "fin" /\ m.kind \notin {"Error", "Complete"}
  <2>1. OnDatagram(s, m) = TryAgain(s)
    BY <1>6 DEF OnDatagram
  <2> QED BY <2>1, <1>6, TryAgainType
<1>7. CASE /\ m.kind # "Error"
           /\ ~(s.phase = "start" /\ m.kind = "StartAck")
           /\ ~(s.phase = "data" /\ m.kind \in {"Ack", "Nack"})
           /\ s.phase # "fin"
  <2>1. OnDatagram(s, m) = s
    BY <1>7 DEF OnDatagram
  <2> QED BY <2>1, <1>7 DEF Sending
<1> QED BY <1>2, <1>3, <1>4, <1>5, <1>6, <1>7

(* What the sender sends. *)
Requests == Datagrams({"Start", "Data", "Fin", "Abort"})

LEMMA OutgoingType ==
    ASSUME NEW s \in Sender
    PROVE  /\ Outgoing(s) \subseteq Requests
           /\ \A m \in Outgoing(s) :
                /\ m.kind = "Fin" => s.phase = "fin"
                /\ m.kind = "Abort" => s.phase \notin Sending
<1>1. 0 \in Sequence
  BY SenderAssumption DEF Sequence
<1>2. Missing(s) \subseteq Sequence
  BY SenderAssumption DEF Missing, Sender, Sequence
<1>3. s.phase \in Phase
  BY DEF Sender
<1>4. CASE s.phase = "start"
  BY <1>1, <1>4 DEF Outgoing, Requests, Datagrams, Plain, Datagram
<1>5. CASE s.phase = "data"
  <2>1. Outgoing(s) = {Data(i) : i \in Missing(s)}
    BY <1>5 DEF Outgoing
  <2>2. \A i \in Sequence : Data(i) \in Requests /\ Data(i).kind = "Data"
    BY DEF Requests, Datagrams, Data, Datagram
  <2> QED BY <2>1, <2>2, <1>2
<1>6. CASE s.phase = "fin"
  BY <1>1, <1>6 DEF Outgoing, Requests, Datagrams, Plain, Datagram
<1>7. CASE s.phase \in {"timeout", "error"}
  BY <1>1, <1>7 DEF Outgoing, Requests, Datagrams, Plain, Datagram, Sending
<1>8. CASE s.phase \in {"done", "cancelled"}
  BY <1>8 DEF Outgoing
<1> QED BY <1>3, <1>4, <1>5, <1>6, <1>7, <1>8 DEF Phase

LEMMA GroupType ==
    ASSUME NEW i \in Sequence
    PROVE  GroupStart(i) \in Sequence /\ Group(i) \subseteq Sequence
<1>1. /\ i \in Nat /\ i <= Packets - 1 /\ AckBits \in Nat /\ AckBits > 0
      /\ Packets \in Nat
  BY SenderAssumption DEF Sequence
<1>2. i \div AckBits \in Int
  BY <1>1
<1>3. (i \div AckBits) * AckBits \in 0..i
  BY <1>1, Z3
<1>4. GroupStart(i) \in Sequence
  BY <1>1, <1>3 DEF GroupStart, Sequence
<1> QED BY <1>4 DEF Group

LEMMA PlainType ==
    ASSUME NEW k \in {"StartAck", "Complete", "Error"}
    PROVE  Plain(k) \in Replies /\ Plain(k).kind = k
BY SenderAssumption DEF Plain, Datagram, Replies, Datagrams, Sequence

-----------------------------------------------------------------------------
(* The inductive invariant *)

(* The whole chunk is in the block, by one copy. *)
Stored == writes = 1 /\ stored = Sequence

(* The sender has its data behind it. *)
Past == snd.phase \notin {"start", "data"}

Finishers == {"copy", "undo", "record", "clear"}

(* A task that finishes holds the whole chunk until the block has it; FIN  *)
(* and ABORT come from a sender that has got that far.                     *)
TaskFine(r) ==
    /\ r.at = "copy" => r.got = Sequence
    /\ r.at = "undo" => block # "open"
    /\ r.at \in {"record", "clear"} => Stored
    /\ r.at \notin Finishers => r.got = {}
    /\ r.kind = "Fin" => Past
    /\ r.kind = "Abort" => snd.phase \notin Sending

(* COMPLETE is recorded, sent and heard only after the copy. *)
BlockFine ==
    /\ block = "open" => writes = 0
    /\ block = "full" => Stored
    /\ writes <= 1
    /\ completed => Stored

ReplyFine(m) ==
    /\ m.kind = "Complete" => Stored
    /\ m.kind = "Nack" => Past

RequestFine(m) ==
    /\ m.kind = "Fin" => Past
    /\ m.kind = "Abort" => snd.phase \notin Sending

(* What has arrived is in one of three places. *)
Held == session.got \cup stored \cup UNION {task[t].got : t \in Task}

Watched == snd.phase \in Sending /\ ~swept /\ block # "gone"

AcksFine ==
    Watched =>
      /\ snd.acked \subseteq Held
      /\ \A m \in toSender : m.kind = "Ack" => m.bits \subseteq Held
      /\ finishing => Sequence \subseteq Held

Inv ==
    /\ TypeOK
    /\ BlockFine
    /\ snd.phase = "done" => Stored
    /\ ~session.live => session = NoSession
    /\ \A t \in Task : TaskFine(task[t])
    /\ \A m \in toSender : ReplyFine(m)
    /\ \A m \in toServer : RequestFine(m)
    /\ AcksFine

-----------------------------------------------------------------------------
(* The sender's steps *)

LEMMA SenderKept ==
    ASSUME Inv, snd.phase \in Sending, NEW s \in Sender, SenderMoves(s),
           s.phase = "done" => Stored,
           snd.phase = "fin" => s.phase \notin {"start", "data"},
           Watched => s.acked \subseteq Held
    PROVE  Inv'
<1> USE DEF SenderMoves, server
<1>1. snd' = s /\ toServer' = toServer \cup Outgoing(s)
  OBVIOUS
<1>2. /\ UNCHANGED <<toSender, session, finishing, completed, block, stored>>
      /\ UNCHANGED <<writes, swept, task>>
  OBVIOUS
<1>3. Past => Past'
  BY <1>1 DEF Past, Sending
<1>4. Stored' = Stored /\ Held' = Held
  BY <1>2 DEF Stored, Held
<1>5. TypeOK'
  BY <1>1, <1>2, OutgoingType DEF Inv, TypeOK, Requests
<1>6. BlockFine'
  BY <1>2, <1>4 DEF Inv, BlockFine
<1>7. (snd.phase = "done" => Stored)'
  BY <1>1, <1>4
<1>8. (~session.live => session = NoSession)'
  BY <1>2 DEF Inv, NoSession
<1>9. \A t \in Task : TaskFine(task[t])'
  BY <1>1, <1>2, <1>3, <1>4 DEF Inv, TaskFine
<1>10. \A m \in toSender' : ReplyFine(m)'
  BY <1>2, <1>3, <1>4 DEF Inv, ReplyFine
<1>11. \A m \in toServer' : RequestFine(m)'
  <2> SUFFICES ASSUME NEW m \in toServer' PROVE RequestFine(m)'
    OBVIOUS
  <2>1. CASE m \in toServer
    BY <2>1, <1>1, <1>3 DEF Inv, RequestFine
  <2>2. CASE m \in Outgoing(s)
    BY <2>2, <1>1, OutgoingType DEF RequestFine, Past
  <2> QED BY <2>1, <2>2, <1>1
<1>12. AcksFine'
  BY <1>1, <1>2, <1>4 DEF Inv, AcksFine, Watched
<1> QED BY <1>5, <1>6, <1>7, <1>8, <1>9, <1>10, <1>11, <1>12 DEF Inv

LEMMA SenderStepsKept ==
    ASSUME Inv, SenderHears \/ SenderWaits \/ SenderBreaks \/ SenderCancelled
    PROVE  Inv'
<1>1. snd \in Sender /\ snd.phase \in Sending
  BY DEF Inv, TypeOK, SenderHears, SenderWaits, SenderBreaks, SenderCancelled
<1>2. Watched => snd.acked \subseteq Held
  BY DEF Inv, AcksFine
<1>3. CASE SenderHears
  <2>1. PICK m \in toSender : SenderMoves(OnDatagram(snd, m))
    BY <1>3 DEF SenderHears
  <2>2. m \in Replies
    BY DEF Inv, TypeOK, Replies
  <2>3. ReplyFine(m)
    BY DEF Inv
  <2> DEFINE s == OnDatagram(snd, m)
  <2>4. /\ s \in Sender
        /\ s.phase = "done" => m.kind = "Complete"
        /\ snd.phase = "fin" => s.phase \notin {"start", "data"}
        /\ \/ s.acked = snd.acked
           \/ m.kind = "Ack" /\ s.acked = snd.acked \cup m.bits
           \/ m.kind = "Nack" /\ snd.phase = "data"
    BY <1>1, <2>2, OnDatagramType
  <2> HIDE DEF s
  <2>5. Watched => s.acked \subseteq Held
    BY <1>2, <2>3, <2>4 DEF Inv, AcksFine, ReplyFine, Past
  <2>6. s.phase = "done" => Stored
    BY <2>3, <2>4 DEF ReplyFine
  <2>7. SenderMoves(s)
    BY <2>1 DEF s
  <2> QED BY <1>1, <2>4, <2>5, <2>6, <2>7, SenderKept
<1>4. CASE SenderWaits
  <2> DEFINE s == OnTimeout(snd)
  <2>1. /\ s \in Sender /\ s.phase # "done" /\ s.acked = snd.acked
        /\ snd.phase = "fin" => s.phase \notin {"start", "data"}
    BY <1>1, OnTimeoutType
  <2>2. SenderMoves(s)
    BY <1>4 DEF SenderWaits
  <2> HIDE DEF s
  <2> QED BY <1>1, <1>2, <2>1, <2>2, SenderKept
<1>5. CASE SenderBreaks
  <2> DEFINE s == [snd EXCEPT !.phase = "error"]
  <2>1. s \in Sender /\ s.phase = "error" /\ s.acked = snd.acked
    BY <1>1 DEF Sender, Phase
  <2>2. SenderMoves(s)
    BY <1>5 DEF SenderBreaks
  <2> HIDE DEF s
  <2> QED BY <1>1, <1>2, <2>1, <2>2, SenderKept
<1>6. CASE SenderCancelled
  <2> DEFINE s == [snd EXCEPT !.phase = "cancelled"]
  <2>1. s \in Sender /\ s.phase = "cancelled" /\ s.acked = snd.acked
    BY <1>1 DEF Sender, Phase
  <2>2. SenderMoves(s)
    BY <1>6 DEF SenderCancelled
  <2> HIDE DEF s
  <2> QED BY <1>1, <1>2, <2>1, <2>2, SenderKept
<1> QED BY <1>3, <1>4, <1>5, <1>6

-----------------------------------------------------------------------------
(* The receiver's tasks *)

TaskState == [kind : {"None", "Start", "Data", "Fin", "Abort"},
              at : {"idle", "begin", "insert", "session", "finishing",
                    "copy", "undo", "record", "clear"},
              batch : SUBSET Sequence, last : Sequence, got : SUBSET Sequence]

LEMMA IdleType ==
    Idle \in TaskState /\ Idle.got = {} /\ Idle.kind = "None" /\ Idle.at = "idle"
BY SenderAssumption DEF Idle, TaskState, Sequence

(* What a step of task t must keep, x the task and R the replies after it. *)
LEMMA TaskKept ==
    ASSUME Inv, NEW t \in Task, NEW x \in TaskState, NEW R \in SUBSET Replies,
           task' = [task EXCEPT ![t] = x], toSender' = toSender \cup R,
           UNCHANGED <<snd, toServer, swept>>,
           session' \in [live : BOOLEAN, got : SUBSET Sequence,
                         last : Sequence \cup {Nobody}],
           finishing' \in BOOLEAN, completed' \in BOOLEAN,
           block' \in {"open", "full", "gone"},
           stored' \in SUBSET Sequence, writes' \in Nat,
           BlockFine', Stored => Stored', block # "open" => block' # "open",
           block = "gone" => block' = "gone",
           (~session.live => session = NoSession)',
           TaskFine(x)', \A m \in R : ReplyFine(m)',
           Watched => task[t].got \cup session.got \cup stored
                      \subseteq x.got \cup session'.got \cup stored',
           Watched => \A m \in R : m.kind = "Ack" => m.bits \subseteq Held',
           Watched /\ finishing' => finishing \/ Sequence \subseteq Held'
    PROVE  Inv'
<1>1. task \in [Task -> TaskState] /\ task[t] \in TaskState
  BY DEF Inv, TypeOK, TaskState
<1>2. task'[t] = x /\ \A u \in Task \ {t} : task'[u] = task[u]
  BY <1>1
<1>3. TypeOK'
  <2>1. task' \in [Task -> TaskState]
    BY <1>1
  <2>2. toSender' \subseteq Replies
    BY DEF Inv, TypeOK, Replies
  <2> QED BY <2>1, <2>2 DEF Inv, TypeOK, TaskState, Replies
<1>4. Past' = Past
  BY DEF Past
<1>5. \A u \in Task : TaskFine(task[u])'
  <2> SUFFICES ASSUME NEW u \in Task PROVE TaskFine(task[u])'
    OBVIOUS
  <2>1. CASE u = t
    BY <2>1, <1>2 DEF TaskFine, Stored, Past
  <2>2. CASE u # t
    <3>1. TaskFine(task[u]) /\ task'[u] = task[u]
      BY <2>2, <1>2 DEF Inv
    <3> QED BY <3>1, <1>4 DEF TaskFine
  <2> QED BY <2>1, <2>2
<1>6. \A m \in toSender' : ReplyFine(m)'
  BY <1>4 DEF Inv, ReplyFine
<1>7. \A m \in toServer' : RequestFine(m)'
  BY <1>4 DEF Inv, RequestFine
<1>8. Watched' => Watched
  BY DEF Watched
<1>9. Watched => Held \subseteq Held'
  <2> SUFFICES ASSUME Watched, NEW i \in Held PROVE i \in Held'
    OBVIOUS
  <2>1. CASE i \in task[t].got \cup session.got \cup stored
    BY <2>1, <1>2 DEF Held
  <2>2. CASE \E u \in Task \ {t} : i \in task[u].got
    BY <2>2, <1>2 DEF Held
  <2> QED BY <2>1, <2>2 DEF Held
<1>10. AcksFine'
  <2> SUFFICES ASSUME Watched'
               PROVE  /\ snd'.acked \subseteq Held'
                      /\ \A m \in toSender' : m.kind = "Ack"
                           => m.bits \subseteq Held'
                      /\ finishing' => Sequence \subseteq Held'
    BY DEF AcksFine
  <2>1. AcksFine /\ Held \subseteq Held' /\ Watched
    BY <1>8, <1>9 DEF Inv
  <2> QED BY <2>1 DEF AcksFine
<1>11. (snd.phase = "done" => Stored)'
  BY DEF Inv
<1> QED BY <1>3, <1>5, <1>6, <1>7, <1>10, <1>11 DEF Inv

(* A step of a task that leaves the receiver's state alone. *)
LEMMA QuietKept ==
    ASSUME Inv, NEW t \in Task, NEW x \in TaskState, NEW R \in SUBSET Replies,
           task' = [task EXCEPT ![t] = x], toSender' = toSender \cup R,
           UNCHANGED <<snd, toServer, server>>,
           task[t].got = {}, TaskFine(x), \A m \in R : ReplyFine(m),
           Watched => \A m \in R : m.kind = "Ack" => m.bits \subseteq Held
    PROVE  Inv'
<1>1. UNCHANGED <<session, finishing, completed, block, stored, writes, swept>>
  BY DEF server
<1>2. Stored' = Stored /\ Past' = Past
  BY <1>1 DEF Stored, Past
<1>3. BlockFine'
  BY <1>1, <1>2 DEF Inv, BlockFine
<1>4. TaskFine(x)' /\ \A m \in R : ReplyFine(m)'
  BY <1>1, <1>2 DEF TaskFine, ReplyFine
<1>5. Held \subseteq Held'
  <2> SUFFICES ASSUME NEW i \in Held PROVE i \in Held'
    OBVIOUS
  <2>1. task \in [Task -> TaskState]
    BY DEF Inv, TypeOK, TaskState
  <2>2. \A u \in Task : task[u].got \subseteq task'[u].got
    BY <2>1
  <2> QED BY <2>2, <1>1 DEF Held
<1>6. (~session.live => session = NoSession)'
  BY <1>1 DEF Inv, NoSession
<1>7. /\ session \in [live : BOOLEAN, got : SUBSET Sequence,
                      last : Sequence \cup {Nobody}]
      /\ finishing \in BOOLEAN /\ completed \in BOOLEAN
      /\ block \in {"open", "full", "gone"}
      /\ stored \in SUBSET Sequence /\ writes \in Nat
  BY DEF Inv, TypeOK
<1>8. Watched => \A m \in R : m.kind = "Ack" => m.bits \subseteq Held'
  BY <1>5
<1> HIDE DEF Held
<1> QED BY <1>1, <1>2, <1>3, <1>4, <1>6, <1>7, <1>8, TaskKept

LEMMA GotoKept ==
    ASSUME Inv, NEW t \in Task, NEW p \in {"insert", "session", "finishing"},
           task[t].at \notin Finishers, Goto(t, p),
           UNCHANGED <<snd, toServer, toSender, server>>
    PROVE  Inv'
<1> DEFINE x == [task[t] EXCEPT !.at = p]
<1>1. task \in [Task -> TaskState] /\ task[t] \in TaskState
  BY DEF Inv, TypeOK, TaskState
<1>2. x \in TaskState /\ x.at = p /\ x.kind = task[t].kind
        /\ x.got = task[t].got
  BY <1>1 DEF TaskState
<1>3. TaskFine(task[t])
  BY DEF Inv
<1>4. task[t].got = {} /\ TaskFine(x)
  BY <1>2, <1>3 DEF TaskFine, Finishers
<1>5. task' = [task EXCEPT ![t] = x]
  BY DEF Goto
<1>6. toSender' = toSender \cup {}
  OBVIOUS
<1> HIDE DEF x
<1> QED BY <1>2, <1>4, <1>5, <1>6, QuietKept

LEMMA EndsKept ==
    ASSUME Inv, NEW t \in Task, NEW R \in SUBSET Replies,
           task[t].at \notin Finishers, Ends(t, R),
           UNCHANGED <<snd, toServer, server>>,
           \A m \in R : ReplyFine(m),
           Watched => \A m \in R : m.kind = "Ack" => m.bits \subseteq Held
    PROVE  Inv'
<1>1. TaskFine(task[t])
  BY DEF Inv
<1>2. task[t].got = {} /\ TaskFine(Idle)
  BY <1>1, IdleType DEF TaskFine, Finishers
<1> QED BY <1>2, IdleType, QuietKept DEF Ends

(* An error answers anything; COMPLETE and a full bitmap need the chunk to *)
(* be there.                                                               *)
LEMMA ErrorFine ==
    /\ {Plain("Error")} \in SUBSET Replies
    /\ \A m \in {Plain("Error")} : ReplyFine(m) /\ m.kind = "Error"
BY PlainType DEF ReplyFine

LEMMA CompleteFine ==
    ASSUME Stored
    PROVE  /\ {Plain("Complete")} \in SUBSET Replies
           /\ \A m \in {Plain("Complete")} : ReplyFine(m) /\ m.kind = "Complete"
BY PlainType DEF ReplyFine

LEMMA FullAckFine ==
    ASSUME NEW i \in Sequence
    PROVE  /\ {FullAck(i)} \in SUBSET Replies
           /\ \A m \in {FullAck(i)} : /\ ReplyFine(m)
                                      /\ m.kind = "Ack"
                                      /\ m.bits \subseteq Sequence
BY GroupType DEF FullAck, Datagram, Replies, Datagrams, ReplyFine

LEMMA ReceiveKept ==
    ASSUME Inv, NEW t \in Task, NEW m \in toServer, Receive(t, m)
    PROVE  Inv'
<1> DEFINE x == [Idle EXCEPT !.kind = m.kind, !.at = "begin"]
<1>1. x \in TaskState /\ x.got = {} /\ x.at = "begin" /\ x.kind = m.kind
  BY IdleType DEF Receive, TaskState, Idle
<1>2. RequestFine(m)
  BY DEF Inv
<1>3. TaskFine(x)
  BY <1>1, <1>2 DEF TaskFine, RequestFine, Finishers
<1>4. task' = [task EXCEPT ![t] = x] /\ toSender' = toSender \cup {}
  BY DEF Receive
<1>5. task[t].got = {} /\ UNCHANGED <<snd, toServer, server>>
  BY IdleType DEF Receive
<1> HIDE DEF x
<1> QED BY <1>1, <1>3, <1>4, <1>5, QuietKept

LEMMA ReceiveDataKept ==
    ASSUME Inv, NEW t \in Task, NEW batch \in SUBSET Sequence, NEW i \in batch,
           ReceiveData(t, batch, i)
    PROVE  Inv'
<1> DEFINE x == [Idle EXCEPT !.kind = "Data", !.at = "begin",
                             !.batch = batch, !.last = i]
<1>1. x \in TaskState /\ x.got = {} /\ x.at = "begin" /\ x.kind = "Data"
  BY IdleType DEF TaskState, Idle
<1>2. TaskFine(x)
  BY <1>1 DEF TaskFine, Finishers
<1>3. task' = [task EXCEPT ![t] = x] /\ toSender' = toSender \cup {}
  BY DEF ReceiveData
<1>4. task[t].got = {} /\ UNCHANGED <<snd, toServer, server>>
  BY IdleType DEF ReceiveData
<1> HIDE DEF x
<1> QED BY <1>1, <1>2, <1>3, <1>4, QuietKept

LEMMA CheckBlockKept ==
    ASSUME Inv, NEW t \in Task, CheckBlock(t)
    PROVE  Inv'
<1>1. task[t].at \notin Finishers
  BY DEF CheckBlock, At, Finishers
<1>2. CASE Goto(t, "insert") /\ UNCHANGED toSender
  BY <1>1, <1>2, GotoKept DEF CheckBlock
<1>3. CASE Ends(t, {Plain("Error")})
  BY <1>1, <1>3, ErrorFine, EndsKept DEF CheckBlock
<1> QED BY <1>2, <1>3 DEF CheckBlock

LEMMA InsertSessionKept ==
    ASSUME Inv, NEW t \in Task, InsertSession(t)
    PROVE  Inv'
<1>1. task[t].at \notin Finishers
  BY DEF InsertSession, Entered, At, Finishers
<1>2. CASE /\ session' = IF session.live THEN session ELSE NewSession
           /\ Ends(t, {Plain("StartAck")})
  <2> DEFINE R == {Plain("StartAck")}
  <2>1. /\ UNCHANGED <<snd, toServer, finishing, completed, block, stored>>
        /\ UNCHANGED <<writes, swept>>
    BY DEF InsertSession, Entered
  <2>2. /\ TypeOK /\ BlockFine /\ TaskFine(task[t])
        /\ ~session.live => session = NoSession
    BY DEF Inv
  <2>3. /\ session' \in [live : BOOLEAN, got : SUBSET Sequence,
                         last : Sequence \cup {Nobody}]
        /\ session'.live /\ session.got \subseteq session'.got
    BY <1>2, <2>2 DEF TypeOK, NewSession, NoSession
  <2>4. /\ R \in SUBSET Replies
        /\ \A m \in R : m.kind = "StartAck" /\ ReplyFine(m)'
    BY PlainType DEF ReplyFine
  <2>5. BlockFine' /\ Stored' = Stored
    BY <2>1, <2>2 DEF BlockFine, Stored
  <2>6. TaskFine(Idle)'
    BY IdleType DEF TaskFine, Finishers
  <2>7. task[t].got = {}
    BY <1>1, <2>2 DEF TaskFine
  <2>8. task' = [task EXCEPT ![t] = Idle] /\ toSender' = toSender \cup R
    BY <1>2 DEF Ends
  <2> HIDE DEF R
  <2>9. /\ finishing' \in BOOLEAN /\ completed' \in BOOLEAN
        /\ block' \in {"open", "full", "gone"}
        /\ stored' \in SUBSET Sequence /\ writes' \in Nat
    BY <2>1, <2>2 DEF TypeOK
  <2> QED BY <2>1, <2>3, <2>4, <2>5, <2>6, <2>7, <2>8, <2>9, IdleType, TaskKept
<1>3. CASE UNCHANGED session /\ Ends(t, {Plain("Error")})
  <2>1. UNCHANGED <<snd, toServer, server>>
    BY <1>3 DEF InsertSession, Entered, server
  <2> QED BY <1>1, <1>3, <2>1, ErrorFine, EndsKept
<1> QED BY <1>2, <1>3 DEF InsertSession, Entered

LEMMA DataCompletedKept ==
    ASSUME Inv, NEW t \in Task, DataCompleted(t)
    PROVE  Inv'
<1>1. task[t].at \notin Finishers
  BY DEF DataCompleted, At, Finishers
<1>2. CASE completed /\ Ends(t, {FullAck(task[t].last)})
  <2>1. task[t].last \in Sequence
    BY DEF Inv, TypeOK
  <2>2. Sequence \subseteq Held
    BY <1>2 DEF Inv, BlockFine, Stored, Held
  <2> QED BY <1>1, <1>2, <2>1, <2>2, FullAckFine, EndsKept DEF DataCompleted
<1>3. CASE Goto(t, "session") /\ UNCHANGED toSender
  BY <1>1, <1>3, GotoKept DEF DataCompleted
<1> QED BY <1>2, <1>3 DEF DataCompleted

LEMMA DataFinishingKept ==
    ASSUME Inv, NEW t \in Task, DataFinishing(t)
    PROVE  Inv'
<1>1. /\ task[t].at \notin Finishers
      /\ UNCHANGED <<snd, toServer, server>>
  BY DEF DataFinishing, At, Finishers
<1>2. CASE finishing
  <2>1. task[t].last \in Sequence
    BY DEF Inv, TypeOK
  <2>2. Watched => Sequence \subseteq Held
    BY <1>2 DEF Inv, AcksFine
  <2>3. Ends(t, {FullAck(task[t].last)})
    BY <1>2 DEF DataFinishing
  <2> QED BY <1>1, <2>1, <2>2, <2>3, FullAckFine, EndsKept
<1>3. CASE ~finishing
  <2>1. Ends(t, {Plain("Error")})
    BY <1>3 DEF DataFinishing
  <2> QED BY <1>1, <2>1, ErrorFine, EndsKept
<1> QED BY <1>2, <1>3

LEMMA FinCompletedKept ==
    ASSUME Inv, NEW t \in Task, FinCompleted(t)
    PROVE  Inv'
<1>1. task[t].at \notin Finishers
  BY DEF FinCompleted, At, Finishers
<1>2. CASE completed /\ Ends(t, {Plain("Complete")})
  <2>1. Stored
    BY <1>2 DEF Inv, BlockFine
  <2> QED BY <1>1, <1>2, <2>1, CompleteFine, EndsKept DEF FinCompleted
<1>3. CASE Goto(t, "session") /\ UNCHANGED toSender
  BY <1>1, <1>3, GotoKept DEF FinCompleted
<1> QED BY <1>2, <1>3 DEF FinCompleted

LEMMA FinFinishingKept ==
    ASSUME Inv, NEW t \in Task, FinFinishing(t)
    PROVE  Inv'
<1>1. /\ task[t].at \notin Finishers
      /\ UNCHANGED <<snd, toServer, server>>
  BY DEF FinFinishing, At, Finishers
<1>2. CASE Ends(t, {})
  BY <1>1, <1>2, EndsKept
<1>3. CASE Ends(t, {Plain("Error")})
  BY <1>1, <1>3, ErrorFine, EndsKept
<1> QED BY <1>2, <1>3 DEF FinFinishing

(* A step of a task that changes the session and the marks, not the block. *)
LEMMA MarksKept ==
    ASSUME Inv, NEW t \in Task, NEW x \in TaskState, NEW R \in SUBSET Replies,
           task' = [task EXCEPT ![t] = x], toSender' = toSender \cup R,
           UNCHANGED <<snd, toServer, block, stored, writes, swept>>,
           session' \in [live : BOOLEAN, got : SUBSET Sequence,
                         last : Sequence \cup {Nobody}],
           (~session.live => session = NoSession)',
           finishing' \in BOOLEAN, completed' \in BOOLEAN,
           completed' => Stored,
           TaskFine(x), \A m \in R : ReplyFine(m),
           Watched => task[t].got \cup session.got \cup stored
                      \subseteq x.got \cup session'.got \cup stored,
           Watched => \A m \in R : m.kind = "Ack" => m.bits \subseteq Held',
           Watched /\ finishing' => finishing \/ Sequence \subseteq Held'
    PROVE  Inv'
<1>1. Stored' = Stored /\ Past' = Past
  BY DEF Stored, Past
<1>2. BlockFine'
  BY <1>1 DEF Inv, BlockFine
<1>3. TaskFine(x)' /\ \A m \in R : ReplyFine(m)'
  BY <1>1 DEF TaskFine, ReplyFine
<1>4. /\ block' \in {"open", "full", "gone"}
      /\ stored' \in SUBSET Sequence /\ writes' \in Nat
  BY DEF Inv, TypeOK
<1> HIDE DEF Held
<1> QED BY <1>1, <1>2, <1>3, <1>4, TaskKept

LEMMA StoreDataKept ==
    ASSUME Inv, NEW t \in Task, StoreData(t)
    PROVE  Inv'
<1> DEFINE got == session.got \cup task[t].batch
           new == task[t].batch \ session.got
           i == task[t].last
           R == IF AckDue(t, session) THEN {SessionAck(got, i)} ELSE {}
<1>1. task[t].at \notin Finishers
  BY DEF StoreData, At, Finishers
<1>2. CASE session.live /\ Ends(t, R)
           /\ session' = [session EXCEPT
                            !.got = got,
                            !.last = IF i \in new THEN i
                                     ELSE IF new # {} THEN Max(new) ELSE @]
  <2>1. /\ TypeOK /\ TaskFine(task[t])
        /\ got \subseteq Sequence /\ new \subseteq Sequence /\ i \in Sequence
    BY DEF Inv, TypeOK
  <2>2. (IF i \in new THEN i ELSE IF new # {} THEN Max(new) ELSE session.last)
          \in Sequence \cup {Nobody}
    <3>1. new # {} => Max(new) \in new
      BY <2>1, MaxType
    <3> QED BY <2>1, <3>1 DEF TypeOK
  <2>3. /\ session' \in [live : BOOLEAN, got : SUBSET Sequence,
                         last : Sequence \cup {Nobody}]
        /\ session'.live /\ session'.got = got
    BY <1>2, <2>1, <2>2 DEF TypeOK
  <2>4. /\ SessionAck(got, i) \in Replies
        /\ SessionAck(got, i).kind = "Ack"
        /\ SessionAck(got, i).bits \subseteq got
        /\ ReplyFine(SessionAck(got, i))
    BY <2>1, GroupType DEF SessionAck, Datagram, Replies, Datagrams, ReplyFine
  <2>5. /\ R \in SUBSET Replies
        /\ \A m \in R : ReplyFine(m) /\ m.bits \subseteq got
    BY <2>4
  <2>6. task' = [task EXCEPT ![t] = Idle] /\ toSender' = toSender \cup R
    BY <1>2 DEF Ends
  <2>7. /\ UNCHANGED <<snd, toServer, finishing, completed, block, stored>>
        /\ UNCHANGED <<writes, swept>>
    BY DEF StoreData
  <2>8. task[t].got = {} /\ session.got \subseteq got
    BY <1>1, <2>1 DEF TaskFine
  <2> HIDE DEF R, got
  <2>9. \A m \in R : m.bits \subseteq Held'
    BY <2>3, <2>5 DEF Held
  <2>10. TaskFine(Idle)
    BY IdleType DEF TaskFine, Finishers
  <2>11. /\ finishing' \in BOOLEAN /\ completed' \in BOOLEAN
         /\ completed' => Stored
    BY <2>1, <2>7 DEF Inv, TypeOK, BlockFine
  <2> QED BY <2>3, <2>5, <2>6, <2>7, <2>8, <2>9, <2>10, <2>11, IdleType,
             MarksKept
<1>3. CASE Goto(t, "finishing") /\ UNCHANGED <<session, toSender>>
  <2>1. UNCHANGED <<snd, toServer, toSender, server>>
    BY <1>3 DEF StoreData, server
  <2> QED BY <1>1, <1>3, <2>1, GotoKept
<1> QED BY <1>2, <1>3 DEF StoreData

LEMMA FinNackFine ==
    ASSUME NEW got \in SUBSET Sequence, got # Sequence, Past
    PROVE  /\ {FinNack(got)} \in SUBSET Replies
           /\ \A m \in {FinNack(got)} : ReplyFine(m) /\ m.kind = "Nack"
<1> DEFINE first == Min(Sequence \ got)
<1>1. Sequence \ got \subseteq Nat
  BY DEF Sequence
<1>2. first \in Sequence
  <2>1. Sequence \ got # {}
    OBVIOUS
  <2> QED BY <1>1, <2>1, MinType
<1>3. FinNack(got) = Datagram("Nack", GroupStart(first), Group(first) \ got)
  BY DEF FinNack
<1> HIDE DEF first
<1> QED BY <1>2, <1>3, GroupType DEF Datagram, Replies, Datagrams, ReplyFine

LEMMA TakeSessionKept ==
    ASSUME Inv, NEW t \in Task, TakeSession(t)
    PROVE  Inv'
<1>1. /\ task[t].at \notin Finishers /\ task[t].kind = "Fin"
      /\ UNCHANGED <<snd, toServer, completed, block, stored, writes, swept>>
  BY DEF TakeSession, At, Finishers
<1>2. /\ TypeOK /\ TaskFine(task[t])
      /\ task \in [Task -> TaskState] /\ task[t] \in TaskState
  BY DEF Inv, TypeOK, TaskState
<1>3. CASE /\ session.live /\ Whole(session.got)
           /\ task' = [task EXCEPT ![t].at = "copy", ![t].got = session.got]
           /\ session' = NoSession /\ finishing' = TRUE /\ UNCHANGED toSender
  <2> DEFINE x == [task[t] EXCEPT !.at = "copy", !.got = session.got]
  <2>1. /\ x \in TaskState /\ x.at = "copy" /\ x.kind = "Fin"
        /\ x.got = session.got /\ x.got = Sequence
    BY <1>1, <1>2, <1>3 DEF TypeOK, TaskState, Whole
  <2>2. task' = [task EXCEPT ![t] = x] /\ toSender' = toSender \cup {}
    BY <1>2, <1>3
  <2> HIDE DEF x
  <2>3. TaskFine(x)
    BY <1>1, <1>2, <2>1 DEF TaskFine, Finishers
  <2>4. task[t].got = {}
    BY <1>1, <1>2 DEF TaskFine
  <2>5. Sequence \subseteq Held'
    <3>1. task'[t] = x
      BY <1>2, <2>2
    <3> QED BY <2>1, <3>1 DEF Held
  <2>6. /\ session' \in [live : BOOLEAN, got : SUBSET Sequence,
                         last : Sequence \cup {Nobody}]
        /\ session' = NoSession
    BY <1>3 DEF NoSession
  <2>7. completed' \in BOOLEAN /\ (completed' => Stored)
    BY <1>1, <1>2 DEF Inv, TypeOK, BlockFine
  <2>8. (~session.live => session = NoSession)'
    BY <1>3 DEF NoSession
  <2>9. finishing' \in BOOLEAN
    BY <1>3
  <2> QED BY <1>1, <2>1, <2>2, <2>3, <2>4, <2>5, <2>6, <2>7, <2>8, <2>9,
             MarksKept
<1>4. CASE /\ ~Whole(session.got) /\ Ends(t, {FinNack(session.got)})
           /\ UNCHANGED <<session, finishing>>
  <2>1. UNCHANGED <<snd, toServer, server>>
    BY <1>1, <1>4 DEF server
  <2>2. Past /\ session.got \in SUBSET Sequence /\ session.got # Sequence
    BY <1>1, <1>2, <1>4 DEF TaskFine, TypeOK, Whole
  <2> QED BY <1>1, <1>4, <2>1, <2>2, FinNackFine, EndsKept
<1>5. CASE /\ Goto(t, "finishing")
           /\ UNCHANGED <<session, finishing, toSender>>
  <2>1. UNCHANGED <<snd, toServer, toSender, server>>
    BY <1>1, <1>5 DEF server
  <2> QED BY <1>1, <1>5, <2>1, GotoKept
<1> QED BY <1>3, <1>4, <1>5 DEF TakeSession

LEMMA CopyChunkKept ==
    ASSUME Inv, NEW t \in Task, CopyChunk(t)
    PROVE  Inv'
<1>1. /\ task[t].at = "copy" /\ task[t].kind = "Fin"
      /\ UNCHANGED <<snd, toServer, toSender, session, finishing, completed>>
      /\ UNCHANGED swept
  BY DEF CopyChunk, At
<1>2. /\ TypeOK /\ BlockFine /\ TaskFine(task[t])
      /\ task \in [Task -> TaskState] /\ task[t] \in TaskState
      /\ ~session.live => session = NoSession
  BY DEF Inv, TypeOK, TaskState
<1>3. task[t].got = Sequence
  BY <1>1, <1>2 DEF TaskFine
<1> DEFINE R == {}
<1>6. /\ R \in SUBSET Replies /\ toSender' = toSender \cup R
      /\ \A m \in R : FALSE
  BY <1>1
<1> HIDE DEF R
<1>4. CASE /\ Continues(block) /\ block' = "full" /\ stored' = task[t].got
           /\ writes' = writes + 1 /\ Goto(t, "record")
  <2>0. PICK x \in TaskState : x = [task[t] EXCEPT !.at = "record"]
    BY <1>2 DEF TaskState
  <2>1. /\ x \in TaskState /\ x.at = "record" /\ x.kind = "Fin"
        /\ x.got = Sequence
    BY <1>1, <1>2, <1>3, <2>0 DEF TaskState
  <2>2. task' = [task EXCEPT ![t] = x]
    BY <1>4, <2>0 DEF Goto
  <2>3. /\ block = "open" /\ writes = 0 /\ writes' = 1
        /\ stored' = Sequence /\ Stored'
    BY <1>2, <1>3, <1>4 DEF Continues, BlockFine, Stored
  <2>4. BlockFine'
    BY <1>4, <2>3 DEF BlockFine
  <2>5. TaskFine(x)'
    <3>1. Past /\ Past' = Past
      BY <1>1, <1>2 DEF TaskFine, Past
    <3> QED BY <2>1, <2>3, <3>1 DEF TaskFine, Finishers
  <2>6. session' \in [live : BOOLEAN, got : SUBSET Sequence,
                      last : Sequence \cup {Nobody}]
          /\ finishing' \in BOOLEAN /\ completed' \in BOOLEAN
    BY <1>1, <1>2 DEF TypeOK
  <2>7. (~session.live => session = NoSession)'
    BY <1>1, <1>2 DEF NoSession
  <2>8. task[t].got \cup session.got \cup stored
          \subseteq x.got \cup session'.got \cup stored'
    BY <1>2, <2>3 DEF TypeOK
  <2>9. /\ stored' \in SUBSET Sequence /\ writes' \in Nat
        /\ block' \in {"open", "full", "gone"} /\ block' # "open"
        /\ block # "gone"
    BY <1>4, <2>3
  <2>10. UNCHANGED <<snd, toServer, swept>> /\ (finishing' => finishing)
    BY <1>1
  <2> QED BY <1>6, <2>1, <2>2, <2>3, <2>4, <2>5, <2>6, <2>7, <2>8, <2>9,
             <2>10, TaskKept
<1>5. CASE /\ ~Continues(block) /\ Goto(t, "undo")
           /\ UNCHANGED <<block, stored, writes>>
  <2>0. PICK x \in TaskState : x = [task[t] EXCEPT !.at = "undo"]
    BY <1>2 DEF TaskState
  <2>1. /\ x \in TaskState /\ x.at = "undo" /\ x.kind = "Fin"
        /\ x.got = task[t].got
    BY <1>1, <1>2, <2>0 DEF TaskState
  <2>2. task' = [task EXCEPT ![t] = x]
    BY <1>5, <2>0 DEF Goto
  <2>3. TaskFine(x)
    BY <1>1, <1>2, <1>5, <2>1 DEF TaskFine, Finishers, Continues
  <2>4. /\ session' \in [live : BOOLEAN, got : SUBSET Sequence,
                         last : Sequence \cup {Nobody}]
        /\ finishing' \in BOOLEAN /\ completed' \in BOOLEAN
        /\ completed' => Stored
    BY <1>1, <1>2 DEF TypeOK, BlockFine
  <2>5. (~session.live => session = NoSession)'
    BY <1>1, <1>2 DEF NoSession
  <2>6. /\ UNCHANGED <<snd, toServer, block, stored, writes, swept>>
        /\ finishing' => finishing
    BY <1>1, <1>5
  <2>7. task[t].got \cup session.got \cup stored
          \subseteq x.got \cup session'.got \cup stored
    BY <1>1, <2>1
  <2> QED BY <1>6, <2>1, <2>2, <2>3, <2>4, <2>5, <2>6, <2>7, MarksKept
<1> QED BY <1>4, <1>5 DEF CopyChunk

(* Dropping the finishing mark: the block has the chunk, or is gone. *)
LEMMA UnmarkKept ==
    ASSUME Inv, NEW t \in Task, NEW m \in Replies,
           task[t].at \in {"undo", "record", "clear"}, Ends(t, {m}),
           finishing' = FALSE, m.kind # "Ack", ReplyFine(m),
           UNCHANGED <<snd, toServer, session, completed, block, stored,
                       writes, swept>>
    PROVE  Inv'
<1>1. TypeOK /\ BlockFine /\ TaskFine(task[t])
  BY DEF Inv
<1>2. Watched => stored = Sequence
  <2>1. task[t].at = "undo" => block # "open"
    BY <1>1 DEF TaskFine
  <2>2. task[t].at # "undo" => Stored
    BY <1>1 DEF TaskFine
  <2>3. Watched /\ block # "open" => Stored
    BY <1>1 DEF Watched, TypeOK, BlockFine
  <2> QED BY <2>1, <2>2, <2>3 DEF Stored
<1>3. Watched => task[t].got \cup session.got \cup stored
                 \subseteq Idle.got \cup session'.got \cup stored
  BY <1>1, <1>2 DEF TypeOK
<1>4. /\ session' \in [live : BOOLEAN, got : SUBSET Sequence,
                       last : Sequence \cup {Nobody}]
      /\ finishing' \in BOOLEAN /\ completed' \in BOOLEAN
      /\ completed' => Stored
  BY <1>1 DEF TypeOK, BlockFine
<1>5. (~session.live => session = NoSession)'
  BY DEF Inv, NoSession
<1>6. TaskFine(Idle)
  BY IdleType DEF TaskFine, Finishers
<1> DEFINE R == {m}
<1>7. /\ R \in SUBSET Replies /\ toSender' = toSender \cup R
      /\ \A n \in R : ReplyFine(n) /\ n.kind # "Ack"
      /\ task' = [task EXCEPT ![t] = Idle]
  BY DEF Ends
<1>8. ~finishing' /\ UNCHANGED <<snd, toServer, block, stored, writes, swept>>
  OBVIOUS
<1> HIDE DEF R
<1> QED BY <1>3, <1>4, <1>5, <1>6, <1>7, <1>8, IdleType, MarksKept

LEMMA UndoFinKept ==
    ASSUME Inv, NEW t \in Task, UndoFin(t)
    PROVE  Inv'
<1>1. task[t].at = "undo"
  BY DEF UndoFin, At
<1>2. /\ Plain("Error") \in Replies /\ Plain("Error").kind = "Error"
      /\ ReplyFine(Plain("Error"))
  BY PlainType DEF ReplyFine
<1> QED BY <1>1, <1>2, UnmarkKept DEF UndoFin

LEMMA ClearFinishingKept ==
    ASSUME Inv, NEW t \in Task, ClearFinishing(t)
    PROVE  Inv'
<1>1. task[t].at = "clear"
  BY DEF ClearFinishing, At
<1>2. Stored
  BY <1>1 DEF Inv, TaskFine
<1>3. /\ Plain("Complete") \in Replies /\ Plain("Complete").kind = "Complete"
      /\ ReplyFine(Plain("Complete"))
  BY <1>2, PlainType DEF ReplyFine
<1> QED BY <1>1, <1>3, UnmarkKept DEF ClearFinishing

LEMMA RecordCompleteKept ==
    ASSUME Inv, NEW t \in Task, RecordComplete(t)
    PROVE  Inv'
<1>1. /\ task[t].at = "record" /\ task[t].kind = "Fin" /\ completed' = TRUE
      /\ UNCHANGED <<snd, toServer, toSender, session, finishing, block>>
      /\ UNCHANGED <<stored, writes, swept>>
  BY DEF RecordComplete, At
<1>2. /\ TypeOK /\ TaskFine(task[t]) /\ task[t] \in TaskState
      /\ ~session.live => session = NoSession
  BY DEF Inv, TypeOK, TaskState
<1>3. Stored
  BY <1>1, <1>2 DEF TaskFine
<1>4. PICK x \in TaskState : x = [task[t] EXCEPT !.at = "clear"]
  BY <1>2 DEF TaskState
<1>5. x.at = "clear" /\ x.kind = "Fin" /\ x.got = task[t].got
  BY <1>1, <1>2, <1>4 DEF TaskState
<1>6. TaskFine(x)
  BY <1>1, <1>2, <1>3, <1>5 DEF TaskFine, Finishers
<1>7. /\ session' \in [live : BOOLEAN, got : SUBSET Sequence,
                       last : Sequence \cup {Nobody}]
      /\ finishing' \in BOOLEAN /\ completed' \in BOOLEAN
      /\ finishing' => finishing
  BY <1>1, <1>2 DEF TypeOK
<1>8. (~session.live => session = NoSession)'
  BY <1>1, <1>2 DEF NoSession
<1> DEFINE R == {}
<1>9. /\ R \in SUBSET Replies /\ toSender' = toSender \cup R
      /\ \A m \in R : FALSE
      /\ task' = [task EXCEPT ![t] = x]
  BY <1>1, <1>4 DEF RecordComplete, Goto
<1>10. /\ UNCHANGED <<snd, toServer, block, stored, writes, swept>>
       /\ task[t].got \cup session.got \cup stored
            \subseteq x.got \cup session'.got \cup stored
  BY <1>1, <1>5
<1> HIDE DEF R
<1> QED BY <1>3, <1>6, <1>7, <1>8, <1>9, <1>10, MarksKept

LEMMA AbortSessionKept ==
    ASSUME Inv, NEW t \in Task, AbortSession(t)
    PROVE  Inv'
<1>1. /\ task[t].kind = "Abort" /\ session' = NoSession
      /\ UNCHANGED <<snd, toServer, finishing, completed, block, stored>>
      /\ UNCHANGED <<writes, swept>>
  BY DEF AbortSession, At
<1>2. TypeOK /\ BlockFine /\ TaskFine(task[t])
  BY DEF Inv
<1>3. ~Watched
  BY <1>1, <1>2 DEF TaskFine, Watched
<1>4. /\ session' \in [live : BOOLEAN, got : SUBSET Sequence,
                       last : Sequence \cup {Nobody}]
      /\ finishing' \in BOOLEAN /\ completed' \in BOOLEAN
      /\ completed' => Stored
  BY <1>1, <1>2 DEF TypeOK, BlockFine, NoSession
<1>5. (~session.live => session = NoSession)'
  BY <1>1 DEF NoSession
<1>6. TaskFine(Idle)
  BY IdleType DEF TaskFine, Finishers
<1> DEFINE R == {}
<1>7. /\ R \in SUBSET Replies /\ toSender' = toSender \cup R
      /\ \A m \in R : FALSE
      /\ task' = [task EXCEPT ![t] = Idle]
  BY DEF AbortSession, Ends
<1>8. UNCHANGED <<snd, toServer, block, stored, writes, swept>>
  BY <1>1
<1> HIDE DEF R
<1> QED BY <1>3, <1>4, <1>5, <1>6, <1>7, <1>8, IdleType, MarksKept

-----------------------------------------------------------------------------
(* Expiry, eviction and the loss of the block: nothing is claimed of the   *)
(* acknowledgements afterwards, or nothing of what is held has moved.      *)

LEMMA SurroundingsKept ==
    ASSUME Inv, SweepSession \/ EvictCompleted \/ LoseBlock
    PROVE  Inv'
<1>1. UNCHANGED <<snd, toServer, toSender, task, finishing, stored, writes>>
  BY DEF SweepSession, EvictCompleted, LoseBlock
<1>2. Past' = Past /\ Stored' = Stored
  BY <1>1 DEF Past, Stored
<1>3. /\ session' \in [live : BOOLEAN, got : SUBSET Sequence,
                       last : Sequence \cup {Nobody}]
      /\ ~session'.live => session' = NoSession
      /\ session' = session \/ swept'
  <2>1. \/ session' = NoSession /\ swept' = TRUE
        \/ session' = session
    BY DEF SweepSession, EvictCompleted, LoseBlock
  <2>2. CASE session' = NoSession /\ swept' = TRUE
    BY <2>2 DEF NoSession
  <2>3. CASE session' = session
    BY <2>3 DEF Inv, TypeOK, NoSession
  <2> QED BY <2>1, <2>2, <2>3
<1>4. /\ completed' \in BOOLEAN /\ swept' \in BOOLEAN
      /\ completed' => completed
      /\ swept => swept'
      /\ block' \in {block, "gone"}
  <2>1. completed \in BOOLEAN /\ swept \in BOOLEAN
    BY DEF Inv, TypeOK
  <2>2. completed' = completed \/ completed' = FALSE
    BY DEF SweepSession, EvictCompleted, LoseBlock
  <2>3. swept' = swept \/ swept' = TRUE
    BY DEF SweepSession, EvictCompleted, LoseBlock
  <2>4. block' = block \/ block' = "gone"
    BY DEF SweepSession, EvictCompleted, LoseBlock
  <2>5. completed' \in BOOLEAN /\ (completed' => completed)
    <3>1. CASE completed' = completed
      BY <2>1, <3>1
    <3>2. CASE completed' = FALSE
      BY <3>2
    <3> QED BY <2>2, <3>1, <3>2
  <2>6. swept' \in BOOLEAN /\ (swept => swept')
    BY <2>1, <2>3
  <2> QED BY <2>4, <2>5, <2>6
<1>5. TypeOK'
  BY <1>1, <1>3, <1>4 DEF Inv, TypeOK
<1>6. BlockFine'
  BY <1>1, <1>2, <1>4 DEF Inv, BlockFine
<1>7. \A t \in Task : TaskFine(task[t])'
  BY <1>1, <1>2, <1>4 DEF Inv, TaskFine
<1>8. \A m \in toSender' : ReplyFine(m)'
  BY <1>1, <1>2 DEF Inv, ReplyFine
<1>9. \A m \in toServer' : RequestFine(m)'
  BY <1>1, <1>2 DEF Inv, RequestFine
<1>10. AcksFine'
  <2> SUFFICES ASSUME Watched' PROVE AcksFine'
    BY DEF AcksFine
  <2>1. Watched /\ session' = session
    BY <1>1, <1>3, <1>4 DEF Watched
  <2>2. Held' = Held
    BY <1>1, <2>1 DEF Held
  <2> QED BY <1>1, <2>1, <2>2 DEF Inv, AcksFine
<1>11. (snd.phase = "done" => Stored)'
  BY <1>1, <1>2 DEF Inv
<1>12. (~session.live => session = NoSession)'
  BY <1>3 DEF NoSession
<1> QED BY <1>5, <1>6, <1>7, <1>8, <1>9, <1>10, <1>11, <1>12 DEF Inv

-----------------------------------------------------------------------------
(* The theorems *)

LEMMA InitFine == Init => Inv
<1> SUFFICES ASSUME Init PROVE Inv
  OBVIOUS
<1>1. /\ InitSender \in Sender /\ InitSender.phase = "start"
      /\ InitSender.acked = {}
  BY SenderAssumption DEF InitSender, Sender, Phase, Lesser
<1>2. Outgoing(InitSender) \subseteq Requests
  BY <1>1, OutgoingType
<1>3. NoSession \in [live : BOOLEAN, got : SUBSET Sequence,
                     last : Sequence \cup {Nobody}]
  BY DEF NoSession
<1>4. TypeOK
  <2>1. task \in [Task -> TaskState]
    BY IdleType DEF Init
  <2> QED BY <1>1, <1>2, <1>3, <2>1 DEF Init, TypeOK, Requests, TaskState
<1>5. BlockFine
  BY DEF Init, BlockFine
<1>6. \A t \in Task : TaskFine(task[t])
  <2>1. \A t \in Task : task[t] = Idle
    BY DEF Init
  <2> QED BY <2>1, IdleType DEF TaskFine, Finishers
<1>7. \A m \in toServer : RequestFine(m)
  BY <1>1, OutgoingType DEF Init, RequestFine, Sending
<1>8. AcksFine
  BY <1>1 DEF Init, AcksFine
<1>9. toSender = {} /\ snd.phase # "done" /\ session = NoSession
  BY <1>1 DEF Init
<1> QED BY <1>4, <1>5, <1>6, <1>7, <1>8, <1>9 DEF Inv

LEMMA TaskStepKept ==
    ASSUME Inv, NEW t \in Task, TaskStep(t)
    PROVE  Inv'
BY CheckBlockKept, InsertSessionKept, DataCompletedKept, StoreDataKept,
   DataFinishingKept, FinCompletedKept, TakeSessionKept, FinFinishingKept,
   CopyChunkKept, UndoFinKept, RecordCompleteKept, ClearFinishingKept,
   AbortSessionKept DEF TaskStep

LEMMA NextKept == Inv /\ [Next]_vars => Inv'
<1> SUFFICES ASSUME Inv, [Next]_vars PROVE Inv'
  OBVIOUS
<1>1. CASE SenderHears \/ SenderWaits \/ SenderBreaks \/ SenderCancelled
  BY <1>1, SenderStepsKept
<1>2. CASE \E t \in Task : Arrival(t)
  BY <1>2, ReceiveKept, ReceiveDataKept DEF Arrival
<1>3. CASE \E t \in Task : TaskStep(t)
  BY <1>3, TaskStepKept
<1>4. CASE SweepSession \/ EvictCompleted \/ LoseBlock
  BY <1>4, SurroundingsKept
<1>5. CASE UNCHANGED vars
  BY <1>5 DEF vars, server, Inv, TypeOK, BlockFine, Stored, TaskFine, Past,
              ReplyFine, RequestFine, AcksFine, Watched, Held, NoSession
<1> QED BY <1>1, <1>2, <1>3, <1>4, <1>5 DEF Next

LEMMA Invariance == Spec => []Inv
BY InitFine, NextKept, PTL DEF Spec

(* The structs of both sides keep their shapes, and only datagrams of the  *)
(* protocol are under way, for every chunk and any number of tasks.        *)
THEOREM TypeCorrect == Spec => []TypeOK
<1>1. Inv => TypeOK
  BY DEF Inv
<1> QED BY <1>1, Invariance, PTL

(* However many tasks handle however many copies of START, DATA and FIN,   *)
(* append_block takes the chunk once at most.                              *)
THEOREM CopiedOnce == Spec => []WrittenOnce
<1>1. Inv => WrittenOnce
  BY DEF Inv, BlockFine, WrittenOnce
<1> QED BY <1>1, Invariance, PTL

(* A sender that returns Ok has had its whole chunk copied into the block, *)
(* whatever the network did to the datagrams.                              *)
THEOREM SuccessStored == Spec => []DoneIsStored
<1>1. Inv => DoneIsStored
  BY DEF Inv, DoneIsStored, Stored
<1> QED BY <1>1, Invariance, PTL

(* A bitmap never acknowledges a packet the receiver does not have.        *)
THEOREM AcksHonest == Spec => []AcksTruthful
<1>1. Inv => AcksTruthful
  BY DEF Inv, AcksFine, AcksTruthful, Watched, Held
<1> QED BY <1>1, Invariance, PTL

-----------------------------------------------------------------------------
(* The write implements the abstract transfer *)

(* Only the sender's own steps change what it reports, and only CopyChunk  *)
(* delivers the chunk.                                                     *)
LEMMA StepsApart ==
    ASSUME [Next]_vars
    PROVE  \/ snd.phase \in Sending /\ writes' = writes
           \/ snd' = snd /\ writes' \in {writes, writes + 1}
<1>1. CASE SenderHears \/ SenderWaits \/ SenderBreaks \/ SenderCancelled
  BY <1>1 DEF SenderHears, SenderWaits, SenderBreaks, SenderCancelled,
              SenderMoves, server
<1>2. CASE \E t \in Task : Arrival(t)
  BY <1>2 DEF Arrival, Receive, ReceiveData, server
<1>3. ASSUME NEW t \in Task, TaskStep(t)
      PROVE  snd' = snd /\ writes' \in {writes, writes + 1}
  <2>1. CASE CopyChunk(t)
    BY <2>1 DEF CopyChunk
  <2>2. CASE \/ CheckBlock(t) \/ InsertSession(t) \/ DataCompleted(t)
             \/ StoreData(t) \/ DataFinishing(t) \/ FinCompleted(t)
    BY <2>2 DEF CheckBlock, InsertSession, Entered, DataCompleted, StoreData,
                DataFinishing, FinCompleted, server
  <2>3. CASE \/ TakeSession(t) \/ FinFinishing(t) \/ UndoFin(t)
             \/ RecordComplete(t) \/ ClearFinishing(t) \/ AbortSession(t)
    BY <2>3 DEF TakeSession, FinFinishing, UndoFin, RecordComplete,
                ClearFinishing, AbortSession, server
  <2> QED BY <1>3, <2>1, <2>2, <2>3 DEF TaskStep
<1>4. CASE SweepSession \/ EvictCompleted \/ LoseBlock
  BY <1>4 DEF SweepSession, EvictCompleted, LoseBlock
<1>5. CASE UNCHANGED vars
  BY <1>5 DEF vars, server
<1> QED BY <1>1, <1>2, <1>3, <1>4, <1>5 DEF Next

LEMMA TransferStep ==
    ASSUME Inv, Inv', [Next]_vars
    PROVE  [Transfer!Next]_Transfer!vars
<1>1. writes \in {0, 1} /\ writes' \in {0, 1}
  BY DEF Inv, TypeOK, BlockFine
<1>2. snd'.phase = "done" => writes' = 1
  BY DEF Inv, Stored
<1>3. CASE snd.phase \in Sending /\ writes' = writes
  <2>1. Outcome = "pending"
    BY <1>3 DEF Outcome, Sending
  <2>2. CASE snd'.phase \in Sending
    <3>1. Outcome' = "pending"
      BY <2>2 DEF Outcome, Sending
    <3> QED BY <1>3, <2>1, <3>1 DEF Transfer!vars
  <2>3. CASE snd'.phase = "done"
    <3>1. Outcome' = "ok"
      BY <2>3 DEF Outcome, Sending
    <3> QED BY <1>2, <1>3, <2>1, <2>3, <3>1
            DEF Transfer!Next, Transfer!Report, Transfer!Succeed
  <2>4. CASE snd'.phase \notin Sending \cup {"done"}
    <3>1. Outcome' = "failed"
      BY <2>4 DEF Outcome
    <3> QED BY <1>3, <2>1, <3>1
            DEF Transfer!Next, Transfer!Report, Transfer!Fail
  <2> QED BY <2>2, <2>3, <2>4
<1>4. CASE snd' = snd /\ writes' \in {writes, writes + 1}
  <2>1. Outcome' = Outcome
    BY <1>4 DEF Outcome
  <2>2. CASE writes' = writes
    BY <2>1, <2>2 DEF Transfer!vars
  <2>3. CASE writes' = writes + 1
    <3>1. writes = 0 /\ writes' = 1
      BY <1>1, <2>3
    <3> QED BY <2>1, <3>1 DEF Transfer!Next, Transfer!Deliver
  <2> QED BY <1>4, <2>2, <2>3
<1> QED BY <1>3, <1>4, StepsApart

(* send_payload against the receiving daemon implements the abstract       *)
(* transfer of a chunk, but for its liveness: append_block takes the chunk *)
(* once at most, and Ok is returned only after that.                       *)
THEOREM WriteTransfers == Spec => Transfer!Spec
<1>1. Init => Transfer!Init
  BY DEF Init, InitSender, Transfer!Init, Outcome, Sending
<1>2. Inv /\ Inv' /\ [Next]_vars => [Transfer!Next]_Transfer!vars
  BY TransferStep
<1> QED BY <1>1, <1>2, Invariance, PTL DEF Spec, Transfer!Spec

=============================================================================
