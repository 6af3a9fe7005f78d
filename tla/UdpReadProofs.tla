---------------------------- MODULE UdpReadProofs ----------------------------
(***************************************************************************)
(* Proofs about UdpRead for every chunk, window, bitmap and retry bound,   *)
(* any number of senders and any udp_max_sessions.                         *)
(*                                                                         *)
(* What a sender takes as acknowledged depends on datagrams that may be    *)
(* old, so the invariant speaks of every datagram ever sent to a sender:   *)
(* it went to the sender that the reader follows, and what it reports is   *)
(* still true (ReplyFine).                                                 *)
(***************************************************************************)
EXTENDS UdpRead, FiniteSetTheorems, WellFoundedInduction, TLAPS

-----------------------------------------------------------------------------
(* What the operators of UdpSender return *)

(* Every set of natural numbers that is not empty has a least element. *)
LEMMA Least ==
    ASSUME NEW S, S \subseteq Nat, S # {}
    PROVE  \E n \in S : \A m \in S : n <= m
<1> DEFINE R == OpToRel(<, Nat)
<1>1. \E n \in S : \A m \in S : <<m, n>> \notin R
  <2>1. IsWellFoundedOn(R, Nat)
    BY NatLessThanWellFounded
  <2> HIDE DEF R
  <2> QED BY <2>1, WFMin
<1>2. \A m, n \in Nat : m < n => <<m, n>> \in R
  BY DEF OpToRel
<1> HIDE DEF R
<1>3. PICK n \in S : \A m \in S : <<m, n>> \notin R
  BY <1>1
<1>4. \A m \in S : ~(m < n)
  BY <1>2, <1>3
<1>5. \A m \in S : n <= m
  BY <1>4
<1> QED BY <1>5

LEMMA MinType ==
    ASSUME NEW S, S \subseteq Nat, S # {}
    PROVE  Min(S) \in S
BY Least DEF Min

(* A sender in another phase is still one. *)
LEMMA PhaseMoved ==
    ASSUME NEW s \in Sender, NEW p \in Phase
    PROVE  [s EXCEPT !.phase = p] \in Sender
BY DEF Sender

LEMMA EnterWindowType ==
    ASSUME NEW s \in Sender, NEW b \in Nat
    PROVE  /\ EnterWindow(s, b) \in Sender
           /\ EnterWindow(s, b).phase \in {"data", "fin"}
           /\ EnterWindow(s, b).acked = s.acked
<1> DEFINE opens(i) == /\ (i - b) % s.win = 0
                       /\ \E j \in Sequence \ s.acked : j >= i /\ j < i + s.win
           open == {i \in b..Packets - 1 : opens(i)}
           first == Min(open)
<1> HIDE DEF opens
<1>1. CASE open = {}
  <2>1. EnterWindow(s, b) = [s EXCEPT !.phase = "fin", !.retries = 0,
                                      !.base = Packets, !.end = Packets]
    BY <1>1 DEF EnterWindow, opens
  <2>2. /\ "fin" \in Phase /\ 0 \in 0..MaxRetries
        /\ Packets \in 0..Packets
    BY SenderAssumption DEF Phase
  <2>3. EnterWindow(s, b) \in Sender
    BY <2>1, <2>2 DEF Sender
  <2> QED BY <2>1, <2>3 DEF Sender
<1>2. CASE open # {}
  <2>1. first \in open
    BY <1>2, MinType, SenderAssumption
  <2>2. EnterWindow(s, b) =
          [s EXCEPT !.phase = "data", !.retries = 0, !.base = first,
                    !.end = Lesser(first + s.win, Packets)]
    BY <1>2 DEF EnterWindow, opens
  <2>3. first \in 0..Packets /\ Lesser(first + s.win, Packets) \in 0..Packets
    BY <2>1, SenderAssumption DEF Lesser, Sender
  <2> HIDE DEF first
  <2> DEFINE last == Lesser(first + s.win, Packets)
  <2>4. /\ "data" \in Phase /\ 0 \in 0..MaxRetries
        /\ last \in 0..Packets
    BY <2>3, SenderAssumption DEF Phase
  <2> HIDE DEF last
  <2>5. EnterWindow(s, b) = [s EXCEPT !.phase = "data", !.retries = 0,
                                      !.base = first, !.end = last]
    BY <2>2 DEF last
  <2>6. EnterWindow(s, b) \in Sender
    BY <2>3, <2>4, <2>5 DEF Sender
  <2> QED BY <2>5, <2>6 DEF Sender
<1> QED BY <1>1, <1>2

LEMMA NegotiatedType ==
    ASSUME NEW s \in Sender
    PROVE  /\ Negotiated(s) \in Sender
           /\ Negotiated(s).phase = s.phase
           /\ Negotiated(s).acked = s.acked
BY SenderAssumption DEF Negotiated, Sender, Lesser, Greater

LEMMA EndRoundType ==
    ASSUME NEW s \in Sender, s.phase = "data"
    PROVE  /\ EndRound(s) \in Sender
           /\ EndRound(s).phase \in {"data", "fin", "timeout"}
           /\ EndRound(s).acked = s.acked
<1> DEFINE rounds == s.retries + 1
           win == IF rounds > 1 THEN Greater(s.win \div 2, 2) ELSE s.win
           r == [s EXCEPT !.win = win]
<1>1. win \in Nat /\ s.end \in Nat /\ s.retries \in Nat
  BY SenderAssumption DEF Sender, Greater
<1>2. r \in Sender /\ r.acked = s.acked
  BY <1>1 DEF Sender
<1> HIDE DEF win
<1>3. CASE rounds > MaxRetries
  <2>1. EndRound(s) = [s EXCEPT !.phase = "timeout"]
    BY <1>3 DEF EndRound
  <2>2. EndRound(s) \in Sender
    BY <2>1, PhaseMoved DEF Phase
  <2> QED BY <2>1, <2>2 DEF Sender
<1>4. CASE rounds <= MaxRetries /\ Missing(s) = {}
  <2>1. EndRound(s) = EnterWindow(r, s.end)
    BY <1>4, <1>1, SenderAssumption DEF EndRound, win
  <2> QED BY ZenonT(60), <2>1, <1>1, <1>2, EnterWindowType
<1>5. CASE rounds <= MaxRetries /\ Missing(s) # {}
  <2>1. EndRound(s) = [s EXCEPT !.retries = rounds, !.win = win]
    BY <1>5, <1>1, SenderAssumption DEF EndRound, win
  <2>2. rounds \in 0..MaxRetries
    BY <1>5, <1>1, SenderAssumption
  <2> HIDE DEF rounds
  <2>3. EndRound(s) \in Sender
    BY <2>1, <2>2, <1>1 DEF Sender
  <2> QED BY <2>1, <2>3 DEF Sender
<1> QED BY <1>1, <1>3, <1>4, <1>5, SenderAssumption

LEMMA TryAgainType ==
    ASSUME NEW s \in Sender
    PROVE  /\ TryAgain(s) \in Sender
           /\ TryAgain(s).phase \in {s.phase, "timeout"}
           /\ TryAgain(s).acked = s.acked
BY SenderAssumption DEF TryAgain, Sender, Phase

LEMMA OnTimeoutType ==
    ASSUME NEW s \in Sender, s.phase \in Sending
    PROVE  /\ OnTimeout(s) \in Sender
           /\ OnTimeout(s).phase \notin {"done"}
           /\ s.phase = "fin" => OnTimeout(s).phase \notin {"start", "data"}
           /\ OnTimeout(s).acked = s.acked
BY EndRoundType, TryAgainType DEF OnTimeout, Sending

(* What the sender hears. *)
Replies == Datagrams({"StartAck", "Ack", "Nack", "Complete", "Error"})

LEMMA AcknowledgedType ==
    ASSUME NEW s \in Sender, NEW m \in Replies
    PROVE  /\ Acknowledged(s, m) \in SUBSET Sequence
           /\ m.kind = "Ack" => Acknowledged(s, m) = s.acked \cup m.bits
BY SenderAssumption DEF Acknowledged, Sender, Sequence, Replies, Datagrams

LEMMA OnDatagramType ==
    ASSUME NEW s \in Sender, s.phase \in Sending, NEW m \in Replies
    PROVE  /\ OnDatagram(s, m) \in Sender
           /\ OnDatagram(s, m).phase = "done" => m.kind = "Complete"
           /\ s.phase = "fin" => OnDatagram(s, m).phase \notin {"start", "data"}
           /\ \/ OnDatagram(s, m).acked = s.acked
              \/ m.kind = "Ack" /\ OnDatagram(s, m).acked = s.acked \cup m.bits
              \/ /\ m.kind = "Nack" /\ s.phase = "data"
                 /\ OnDatagram(s, m).acked = Acknowledged(s, m)
<1>1. m.kind \in {"StartAck", "Ack", "Nack", "Complete", "Error"}
  BY DEF Replies, Datagrams
<1>2. CASE m.kind = "Error"
  <2>1. OnDatagram(s, m) = [s EXCEPT !.phase = "error"]
    BY <1>2 DEF OnDatagram
  <2> QED BY <2>1, <1>2 DEF Sender, Phase
<1>3. CASE s.phase = "start" /\ m.kind = "StartAck"
  <2>1. OnDatagram(s, m) = EnterWindow(Negotiated(s), 0)
    BY <1>3 DEF OnDatagram
  <2> QED BY <2>1, <1>3, NegotiatedType, EnterWindowType
<1>4. CASE s.phase = "data" /\ m.kind \in {"Ack", "Nack"}
  <2> DEFINE a == [s EXCEPT !.acked = Acknowledged(s, m)]
             heard == Negotiated(a)
  <2>1. OnDatagram(s, m) = OnBitmap(s, m)
    BY <1>4 DEF OnDatagram
  <2>2. a \in Sender /\ a.acked = Acknowledged(s, m) /\ a.phase = "data"
    BY <1>4, AcknowledgedType DEF Sender
  <2>3. /\ heard \in Sender /\ heard.acked = Acknowledged(s, m)
        /\ heard.phase = "data"
    BY <2>2, NegotiatedType
  <2>4. OnBitmap(s, m) = IF Missing(heard) = {} THEN EndRound(heard) ELSE heard
    BY DEF OnBitmap
  <2> HIDE DEF heard
  <2>5. OnBitmap(s, m) \in Sender /\ OnBitmap(s, m).acked = Acknowledged(s, m)
          /\ OnBitmap(s, m).phase # "done"
    BY <2>3, <2>4, EndRoundType
  <2> QED BY <2>1, <2>5, <1>4, AcknowledgedType
<1>5. CASE s.phase = "fin" /\ m.kind = "Complete"
  <2>1. OnDatagram(s, m) = [s EXCEPT !.phase = "done"]
    BY <1>5 DEF OnDatagram
  <2> QED BY <2>1, <1>5 DEF Sender, Phase
<1>6. CASE s.phase = "fin" /\ m.kind \notin {"Error", "Complete"}
  <2>1. OnDatagram(s, m) = TryAgain(s)
    BY <1>6 DEF OnDatagram
  <2> QED BY <2>1, <1>6, TryAgainType
<1>7. CASE /\ m.kind # "Error"
           /\ ~(s.phase = "start" /\ m.kind = "StartAck")
           /\ ~(s.phase = "data" /\ m.kind \in {"Ack", "Nack"})
           /\ s.phase # "fin"
  <2>1. OnDatagram(s, m) = s
    BY <1>7 DEF OnDatagram
  <2> QED BY <2>1, <1>7 DEF Sending
<1> QED BY <1>2, <1>3, <1>4, <1>5, <1>6, <1>7

(* What the sender sends. *)
Requests == Datagrams({"Start", "Data", "Fin", "Abort"})

LEMMA OutgoingType ==
    ASSUME NEW s \in Sender
    PROVE  /\ Outgoing(s) \subseteq Requests
           /\ \A m \in Outgoing(s) :
                /\ m.kind = "Fin" => s.phase = "fin"
                /\ m.kind = "Abort" => s.phase \notin Sending
<1>1. 0 \in Sequence
  BY SenderAssumption DEF Sequence
<1>2. Missing(s) \subseteq Sequence
  BY SenderAssumption DEF Missing, Sender, Sequence
<1>3. s.phase \in Phase
  BY DEF Sender
<1>4. CASE s.phase = "start"
  BY <1>1, <1>4 DEF Outgoing, Requests, Datagrams, Plain, Datagram
<1>5. CASE s.phase = "data"
  <2>1. Outgoing(s) = {Data(i) : i \in Missing(s)}
    BY <1>5 DEF Outgoing
  <2>2. \A i \in Sequence : Data(i) \in Requests /\ Data(i).kind = "Data"
    BY DEF Requests, Datagrams, Data, Datagram
  <2> QED BY <2>1, <2>2, <1>2
<1>6. CASE s.phase = "fin"
  BY <1>1, <1>6 DEF Outgoing, Requests, Datagrams, Plain, Datagram
<1>7. CASE s.phase \in {"timeout", "error"}
  BY <1>1, <1>7 DEF Outgoing, Requests, Datagrams, Plain, Datagram, Sending
<1>8. CASE s.phase \in {"done", "cancelled"}
  BY <1>8 DEF Outgoing
<1> QED BY <1>3, <1>4, <1>5, <1>6, <1>7, <1>8 DEF Phase

LEMMA GroupType ==
    ASSUME NEW i \in Sequence
    PROVE  GroupStart(i) \in Sequence /\ Group(i) \subseteq Sequence
<1>1. /\ i \in Nat /\ i <= Packets - 1 /\ AckBits \in Nat /\ AckBits > 0
      /\ Packets \in Nat
  BY SenderAssumption DEF Sequence
<1>2. i \div AckBits \in Int
  BY <1>1
<1>3. (i \div AckBits) * AckBits \in 0..i
  BY <1>1, Z3
<1>4. GroupStart(i) \in Sequence
  BY <1>1, <1>3 DEF GroupStart, Sequence
<1> QED BY <1>4 DEF Group

-----------------------------------------------------------------------------
(* The invariant *)

(* Before the first START nothing was stored and nobody was answered. *)
ReaderFine ==
    /\ reader.phase = "asking" =>
         reader.source = Server /\ reader.got = {} /\ toSender = {}
    /\ reader.phase = "receiving" => reader.source \in Socket
    /\ reader.phase = "ok" => reader.got = Sequence

ReplyFine(s, m) ==
    /\ s = reader.source
    /\ m.kind = "Ack" => m.bits \subseteq reader.got
    /\ m.kind = "Nack" => m.seq = 0 /\ Group(0) \ m.bits \subseteq reader.got
    /\ m.kind = "Complete" => reader.phase = "ok"

RepliesFine ==
    \A s \in Socket, m \in Replies : <<s, m>> \in toSender => ReplyFine(s, m)

(* The inductive invariant. *)
Inv == TypeOK /\ ReaderFine /\ RepliesFine /\ AckedIsHeld /\ DoneIsRead

(* The slots: every running sender and every other read holds one. *)
Running == {s \in Socket : task[s] = "running"}

(* active_reads is exactly the number of reads under way, so the           *)
(* saturating_sub that gives a slot back never saturates.                  *)
SlotsExact ==
    IsFiniteSet(Running) /\ active = others + Cardinality(Running)

-----------------------------------------------------------------------------
(* The owner's steps *)

OwnerKinds == Datagrams({"Start", "Data", "Fin", "Abort", "Error"})
ReaderKinds == Datagrams({"StartAck", "Ack", "Nack", "Complete"})

LEMMA Kinds == Requests \subseteq OwnerKinds /\ ReaderKinds \subseteq Replies
BY DEF Requests, OwnerKinds, ReaderKinds, Replies, Datagrams

LEMMA Initial ==
    /\ InitSender \in Sender /\ InitSender.acked = {}
    /\ InitSender.phase = "start"
BY SenderAssumption DEF InitSender, Sender, Phase, Lesser

(* What sender s sends keeps the shape of what is under way. *)
LEMMA OutgoingKept ==
    ASSUME TypeOK, NEW s \in Socket, NEW x \in Sender
    PROVE  toReader \cup {<<s, m>> : m \in Outgoing(x)}
             \subseteq (Socket \cup {Server}) \X OwnerKinds
<1>1. Outgoing(x) \subseteq OwnerKinds
  BY OutgoingType, Kinds
<1> QED BY <1>1 DEF TypeOK, OwnerKinds

(* The reader's part of the invariant only depends on the reader and on    *)
(* what it has sent.                                                       *)
LEMMA ReaderSame ==
    ASSUME Inv, reader' = reader, toSender' = toSender
    PROVE  ReaderFine' /\ RepliesFine'
BY DEF Inv, ReaderFine, RepliesFine, ReplyFine

LEMMA SenderKept ==
    ASSUME Inv, NEW s \in Socket, NEW x \in Sender, SenderMoves(s, x),
           x.acked \subseteq IF s = reader.source THEN reader.got ELSE {},
           x.phase = "done" => reader.phase = "ok" /\ reader.source = s
    PROVE  Inv'
<1>1. /\ snd' = [snd EXCEPT ![s] = x]
      /\ toReader' = toReader \cup {<<s, m>> : m \in Outgoing(x)}
      /\ reader' = reader /\ ready' = ready /\ active' = active
      /\ others' = others /\ task' = task /\ toSender' = toSender
  BY DEF SenderMoves
<1>2. TypeOK
  BY DEF Inv
<1>3. snd \in [Socket -> Sender]
  BY <1>2 DEF TypeOK
<1>4. TypeOK'
  <2>1. snd' \in [Socket -> Sender]
    BY <1>1, <1>3
  <2>2. toReader' \subseteq (Socket \cup {Server}) \X OwnerKinds
    BY <1>1, <1>2, OutgoingKept
  <2> QED BY <1>1, <1>2, <2>1, <2>2 DEF TypeOK, OwnerKinds
<1>5. AckedIsHeld' /\ DoneIsRead'
  BY <1>1, <1>3 DEF Inv, AckedIsHeld, DoneIsRead
<1> QED BY <1>1, <1>4, <1>5, ReaderSame DEF Inv

LEMMA SenderWaitsKept ==
    ASSUME Inv, NEW s \in Socket, SenderWaits(s)
    PROVE  Inv'
<1>1. snd[s] \in Sender /\ snd[s].phase \in Sending
  BY DEF Inv, TypeOK, SenderWaits, SenderRuns
<1>2. /\ OnTimeout(snd[s]) \in Sender
      /\ OnTimeout(snd[s]).phase # "done"
      /\ OnTimeout(snd[s]).acked = snd[s].acked
  BY <1>1, OnTimeoutType
<1>3. SenderMoves(s, OnTimeout(snd[s]))
  BY DEF SenderWaits
<1>4. snd[s].acked \subseteq IF s = reader.source THEN reader.got ELSE {}
  BY DEF Inv, AckedIsHeld
<1> QED BY <1>2, <1>3, <1>4, SenderKept

LEMMA SenderBreaksKept ==
    ASSUME Inv, NEW s \in Socket, SenderBreaks(s)
    PROVE  Inv'
<1> DEFINE x == [snd[s] EXCEPT !.phase = "error"]
<1>1. snd[s] \in Sender
  BY DEF Inv, TypeOK
<1>2. x \in Sender /\ x.phase # "done" /\ x.acked = snd[s].acked
  BY <1>1 DEF Sender, Phase
<1>3. SenderMoves(s, x)
  BY DEF SenderBreaks
<1>4. snd[s].acked \subseteq IF s = reader.source THEN reader.got ELSE {}
  BY DEF Inv, AckedIsHeld
<1> HIDE DEF x
<1> QED BY <1>2, <1>3, <1>4, SenderKept

(* The packets the first bitmap covers. *)
LEMMA FirstGroup ==
    ASSUME NEW i \in Sequence, i < AckBits
    PROVE  i \in Group(0)
<1>1. i \in Nat /\ AckBits \in Nat /\ AckBits > 0
  BY SenderAssumption DEF Sequence
<1>2. i \div AckBits = 0 /\ 0 \div AckBits = 0
  BY <1>1, Z3
<1> QED BY <1>1, <1>2 DEF Group, GroupStart

LEMMA SenderHearsKept ==
    ASSUME Inv, NEW s \in Socket, SenderHears(s)
    PROVE  Inv'
<1>1. PICK m : <<s, m>> \in toSender /\ SenderMoves(s, OnDatagram(snd[s], m))
  <2>1. PICK m \in {p[2] : p \in {q \in toSender : q[1] = s}} :
          SenderMoves(s, OnDatagram(snd[s], m))
    BY DEF SenderHears
  <2>2. PICK p \in toSender : p[1] = s /\ m = p[2]
    BY <2>1
  <2>3. p = <<s, m>>
    BY <2>2 DEF Inv, TypeOK
  <2> QED BY <2>1, <2>2, <2>3
<1>2. m \in ReaderKinds /\ m \in Replies
  <2>1. m \in ReaderKinds
    BY <1>1 DEF Inv, TypeOK, ReaderKinds
  <2> QED BY <2>1, Kinds
<1>3. ReplyFine(s, m)
  BY <1>1, <1>2 DEF Inv, RepliesFine
<1>4. snd[s] \in Sender /\ snd[s].phase \in Sending
  BY DEF Inv, TypeOK, SenderHears, SenderRuns
<1> DEFINE x == OnDatagram(snd[s], m)
<1>5. /\ x \in Sender
      /\ x.phase = "done" => m.kind = "Complete"
      /\ \/ x.acked = snd[s].acked
         \/ m.kind = "Ack" /\ x.acked = snd[s].acked \cup m.bits
         \/ m.kind = "Nack" /\ x.acked = Acknowledged(snd[s], m)
  BY <1>2, <1>4, OnDatagramType
<1>6. snd[s].acked \subseteq reader.got /\ s = reader.source
  BY <1>3 DEF Inv, AckedIsHeld, ReplyFine
<1>7. x.acked \subseteq reader.got
  <2>1. CASE m.kind = "Ack" /\ x.acked = snd[s].acked \cup m.bits
    BY <1>3, <1>6, <2>1 DEF ReplyFine
  <2>2. CASE m.kind = "Nack" /\ x.acked = Acknowledged(snd[s], m)
    <3>1. m.seq = 0 /\ Group(0) \ m.bits \subseteq reader.got
      BY <1>3, <2>2 DEF ReplyFine
    <3>2. \A i \in snd[s].base..snd[s].end - 1 :
            i \in Sequence
      BY <1>4, SenderAssumption DEF Sender, Sequence
    <3>3. \A i \in snd[s].base..snd[s].end - 1 :
            i < AckBits /\ i \notin m.bits => i \in reader.got
      BY <3>1, <3>2, FirstGroup
    <3>4. Acknowledged(snd[s], m) =
            snd[s].acked \cup {i \in snd[s].base..snd[s].end - 1 :
                                 /\ i >= 0 /\ i < 0 + AckBits
                                 /\ i \notin m.bits}
      BY <2>2, <3>1 DEF Acknowledged
    <3>5. 0 + AckBits = AckBits
      BY SenderAssumption
    <3> QED BY <1>6, <2>2, <3>3, <3>4, <3>5
  <2> QED BY <1>5, <1>6, <2>1, <2>2
<1>8. x.phase = "done" => reader.phase = "ok" /\ reader.source = s
  BY <1>3, <1>5 DEF ReplyFine
<1> HIDE DEF x
<1>9. SenderMoves(s, x)
  BY <1>1 DEF x
<1> QED BY <1>5, <1>6, <1>7, <1>8, <1>9, SenderKept

LEMMA OwnerKept ==
    ASSUME Inv,
           \/ \E s \in Socket : ReadRequest(s) \/ EndRead(s)
           \/ RefuseRead \/ LoseBlock \/ EndOther
    PROVE  Inv'
<1>1. TypeOK /\ reader' = reader /\ toSender' = toSender
  BY DEF Inv, ReadRequest, EndRead, RefuseRead, LoseBlock, EndOther
<1>2. ReaderFine' /\ RepliesFine'
  BY <1>1, ReaderSame
<1>3. /\ active \in 0..MaxReads /\ others \in 0..MaxReads
      /\ GiveBack(active) \in 0..MaxReads
      /\ SlotFree => active + 1 \in 0..MaxReads
      /\ others > 0 => others - 1 \in 0..MaxReads
  BY <1>1, ReadAssumption DEF TypeOK, GiveBack, SlotFree
<1>4. TypeOK' /\ AckedIsHeld' /\ DoneIsRead'
  <2>1. ASSUME NEW s \in Socket, ReadRequest(s)
        PROVE  TypeOK' /\ AckedIsHeld' /\ DoneIsRead'
    <3>1. /\ SlotFree /\ active' = active + 1 /\ others' = others
          /\ task' = [task EXCEPT ![s] = "running"] /\ ready' = ready
          /\ snd' = [snd EXCEPT ![s] = InitSender]
          /\ toReader' = toReader \cup {<<s, m>> : m \in Outgoing(InitSender)}
      BY <2>1 DEF ReadRequest
    <3>2. toReader' \subseteq (Socket \cup {Server}) \X OwnerKinds
      BY <1>1, <3>1, OutgoingKept, Initial
    <3>3. snd' \in [Socket -> Sender]
      BY <1>1, <3>1, Initial DEF TypeOK
    <3>4. task' \in [Socket -> {"none", "running", "ended"}]
      BY <1>1, <3>1 DEF TypeOK
    <3>5. TypeOK'
      BY <1>1, <1>3, <3>1, <3>2, <3>3, <3>4 DEF TypeOK, OwnerKinds
    <3>6. \A r \in Socket : snd'[r] = snd[r] \/ snd'[r] = InitSender
      BY <1>1, <3>1 DEF TypeOK
    <3>7. AckedIsHeld' /\ DoneIsRead'
      BY <1>1, <3>6, Initial DEF Inv, AckedIsHeld, DoneIsRead
    <3> QED BY <3>5, <3>7
  <2>2. CASE (\E s \in Socket : EndRead(s)) \/ LoseBlock \/ EndOther
    <3>1. snd' = snd /\ toReader' = toReader
      BY <2>2 DEF EndRead, LoseBlock, EndOther
    <3>2. /\ task' \in [Socket -> {"none", "running", "ended"}]
          /\ ready' \in BOOLEAN
          /\ active' \in 0..MaxReads /\ others' \in 0..MaxReads
      BY <1>1, <1>3, <2>2 DEF TypeOK, EndRead, LoseBlock, EndOther
    <3>3. TypeOK'
      BY <1>1, <3>1, <3>2 DEF TypeOK
    <3> QED BY <1>1, <3>1, <3>3 DEF Inv, AckedIsHeld, DoneIsRead
  <2>3. CASE RefuseRead
    <3>1. /\ toReader' = toReader \cup {<<Server, Plain("Error")>>}
          /\ ready' = ready /\ active' = active /\ others' = others
          /\ task' = task /\ snd' = snd
      BY <2>3 DEF RefuseRead, owner
    <3>2. Plain("Error") \in OwnerKinds
      BY SenderAssumption DEF Plain, Datagram, OwnerKinds, Datagrams, Sequence
    <3>3. toReader' \subseteq (Socket \cup {Server}) \X OwnerKinds
      BY <1>1, <3>1, <3>2 DEF TypeOK, OwnerKinds
    <3>4. TypeOK'
      BY <1>1, <3>1, <3>3 DEF TypeOK, OwnerKinds
    <3> QED BY <1>1, <3>1, <3>4 DEF Inv, AckedIsHeld, DoneIsRead
  <2> QED BY <2>1, <2>2, <2>3
<1> QED BY <1>2, <1>4 DEF Inv

-----------------------------------------------------------------------------
(* The reader's steps *)

(* A step of the reader: it follows nobody else, forgets nothing, ends at  *)
(* most once, and what it has sent before stays true.                      *)
LEMMA ReaderKept ==
    ASSUME Inv, NEW r \in Reader, NEW R \in SUBSET Replies,
           reader' = r, UNCHANGED <<owner, toReader>>,
           toSender' = toSender \cup {<<r.source, m>> : m \in R},
           reader.phase \in Waiting,
           R # {} => r.source \in Socket /\ R \subseteq ReaderKinds,
           reader.got \subseteq r.got,
           r.source = reader.source \/ reader.phase = "asking",
           r.phase = "asking" => /\ reader.phase = "asking"
                                 /\ r.source = reader.source
                                 /\ r.got = {} /\ R = {},
           r.source = reader.source \/ r.source \in Socket,
           r.phase = "receiving" => r.source \in Socket,
           r.phase = "ok" => r.got = Sequence,
           \A m \in R :
             /\ m.kind = "Ack" => m.bits \subseteq r.got
             /\ m.kind = "Nack" => m.seq = 0 /\ Group(0) \ m.bits \subseteq r.got
             /\ m.kind = "Complete" => r.phase = "ok"
    PROVE  Inv'
<1>1. /\ TypeOK /\ ReaderFine /\ RepliesFine /\ AckedIsHeld /\ DoneIsRead
      /\ snd' = snd
  BY DEF Inv, owner
<1>2. TypeOK'
  <2>1. toSender' \subseteq Socket \X ReaderKinds
    BY <1>1 DEF TypeOK, ReaderKinds
  <2>2. /\ reader' \in Reader /\ ready' = ready /\ active' = active
        /\ others' = others /\ task' = task /\ toReader' = toReader
    BY DEF owner
  <2> QED BY <1>1, <2>1, <2>2 DEF TypeOK, ReaderKinds
<1>3. reader.phase = "asking" =>
        /\ reader.source = Server /\ toSender = {} /\ reader.got = {}
        /\ \A s \in Socket : snd[s].acked = {}
  BY <1>1, ReadAssumption DEF ReaderFine, AckedIsHeld
<1>4. ReaderFine'
  <2>1. ASSUME r.phase = "asking"
        PROVE  r.source = Server /\ r.got = {} /\ toSender' = {}
    <3>1. reader.phase = "asking" /\ R = {} /\ r.got = {}
      BY <2>1
    <3>2. toSender' = {} /\ reader.source = Server
      BY <1>3, <3>1
    <3> QED BY <2>1, <3>1, <3>2
  <2> QED BY <2>1 DEF ReaderFine
<1>5. RepliesFine'
  <2> SUFFICES ASSUME NEW s \in Socket, NEW m \in Replies,
                      <<s, m>> \in toSender'
               PROVE  ReplyFine(s, m)'
    BY DEF RepliesFine
  <2>1. CASE <<s, m>> \in toSender
    <3>1. ReplyFine(s, m) /\ reader.phase # "asking"
      BY <1>1, <1>3, <2>1 DEF RepliesFine
    <3>2. reader.phase # "ok"
      BY DEF Waiting
    <3> QED BY <3>1, <3>2 DEF ReplyFine
  <2>2. CASE s = r.source /\ m \in R
    BY <2>2 DEF ReplyFine
  <2> QED BY <2>1, <2>2
<1>6. AckedIsHeld'
  <2>1. CASE reader.phase = "asking"
    BY <1>1, <1>3, <2>1 DEF AckedIsHeld
  <2>2. CASE reader.phase # "asking"
    BY <1>1, <2>2 DEF AckedIsHeld
  <2> QED BY <2>1, <2>2
<1>7. DoneIsRead'
  <2>1. \A s \in Socket : snd[s].phase # "done"
    BY <1>1 DEF DoneIsRead, Waiting
  <2> QED BY <1>1, <2>1 DEF DoneIsRead
<1> QED BY <1>2, <1>4, <1>5, <1>6, <1>7 DEF Inv

LEMMA FollowStartKept ==
    ASSUME Inv, NEW s \in Socket, FollowStart(s)
    PROVE  Inv'
<1> DEFINE r == [reader EXCEPT !.phase = "receiving", !.retries = 0,
                               !.source = s]
           m == Plain("StartAck")
<1>1. /\ reader \in Reader /\ reader.phase = "asking" /\ reader' = r
      /\ toSender' = toSender \cup {<<s, m>>}
      /\ UNCHANGED <<owner, toReader>>
  BY DEF Inv, TypeOK, FollowStart
<1>2. /\ r \in Reader /\ r.phase = "receiving" /\ r.source = s
      /\ r.got = reader.got
  <2>1. 0 \in 0..MaxRetries
    BY SenderAssumption
  <2> QED BY <1>1, <2>1 DEF Reader, Waiting
<1>3. m \in Replies /\ m \in ReaderKinds /\ m.kind = "StartAck"
  BY SenderAssumption
     DEF Plain, Datagram, Replies, ReaderKinds, Datagrams, Sequence
<1> HIDE DEF r, m
<1>4. PICK R : /\ toSender' = toSender \cup {<<r.source, n>> : n \in R}
               /\ R = {m}
  BY <1>1, <1>2
<1> QED BY <1>1, <1>2, <1>3, <1>4, ReaderKept DEF Waiting

(* The reader moves without an answer. *)
LEMMA QuietKept ==
    ASSUME Inv, NEW r \in Reader, reader.phase \in Waiting,
           reader' = r, UNCHANGED <<owner, toReader, toSender>>,
           r.source = reader.source, r.got = reader.got,
           r.phase \in {reader.phase, "failed", "timeout"}
    PROVE  Inv'
<1>1. /\ r.phase = "asking" => reader.phase = "asking" /\ r.got = {}
      /\ r.phase = "receiving" => r.source \in Socket
      /\ r.phase # "ok"
  BY DEF Inv, ReaderFine, Waiting
<1>2. PICK R : /\ toSender' = toSender \cup {<<r.source, m>> : m \in R}
               /\ R = {}
  OBVIOUS
<1> QED BY <1>1, <1>2, ReaderKept

LEMMA ReaderEndsKept ==
    ASSUME Inv, ReadRefused \/ ReadAborted \/ ReaderWaits \/ ReaderDropped
    PROVE  Inv'
<1>1. reader \in Reader
  BY DEF Inv, TypeOK
<1>2. /\ UNCHANGED <<owner, toReader, toSender>> /\ reader.phase \in Waiting
      /\ \/ reader' = [reader EXCEPT !.phase = "failed"]
         \/ reader' = Count(reader)
  BY DEF ReadRefused, ReadAborted, ReaderWaits, ReaderDropped, Heard, Waiting
<1>3. PICK r \in Reader :
        /\ reader' = r /\ r.source = reader.source /\ r.got = reader.got
        /\ r.phase \in {reader.phase, "failed", "timeout"}
  BY <1>1, <1>2, SenderAssumption DEF Reader, Count, Waiting
<1> QED BY <1>2, <1>3, QuietKept

LEMMA StoreDataKept ==
    ASSUME Inv, NEW batch \in SUBSET Sequence, NEW i \in batch,
           StoreData(batch, i)
    PROVE  Inv'
<1> DEFINE got == reader.got \cup batch
           r == [reader EXCEPT !.got = got]
           m == ReadAck(got, i)
<1>1. /\ reader \in Reader /\ reader.phase = "receiving" /\ reader' = r
      /\ UNCHANGED <<owner, toReader>>
      /\ \/ toSender' = toSender
         \/ toSender' = toSender \cup {<<reader.source, m>>}
  BY DEF Inv, TypeOK, StoreData, Heard, Reply
<1>2. /\ r \in Reader /\ r.phase = "receiving" /\ r.source = reader.source
      /\ r.got = got
  BY <1>1 DEF Reader
<1>3. m \in Replies /\ m \in ReaderKinds /\ m.kind = "Ack" /\ m.bits \subseteq got
  <2>1. i \in Sequence /\ GroupStart(i) \in Sequence /\ Group(i) \subseteq Sequence
    BY GroupType
  <2> QED BY <2>1 DEF ReadAck, Datagram, Replies, ReaderKinds, Datagrams
<1>4. reader.source \in Socket /\ reader.got \subseteq got
  BY <1>1 DEF Inv, ReaderFine
<1> HIDE DEF r, m, got
<1>5. PICK R \in SUBSET {m} :
        toSender' = toSender \cup {<<r.source, n>> : n \in R}
  <2>1. CASE toSender' = toSender
    <3>1. toSender' = toSender \cup {<<r.source, n>> : n \in {}}
      BY <2>1
    <3> QED BY <3>1
  <2>2. CASE toSender' = toSender \cup {<<reader.source, m>>}
    <3>1. toSender' = toSender \cup {<<r.source, n>> : n \in {m}}
      BY <1>2, <2>2
    <3> QED BY <3>1
  <2> QED BY <1>1, <2>1, <2>2
<1>6. /\ R \in SUBSET Replies /\ R \subseteq ReaderKinds
      /\ \A n \in R : n.kind = "Ack" /\ n.bits \subseteq r.got
  BY <1>2, <1>3
<1> QED BY <1>1, <1>2, <1>4, <1>5, <1>6, ReaderKept DEF Waiting

LEMMA FinishReadKept ==
    ASSUME Inv, FinishRead
    PROVE  Inv'
<1>1. /\ reader \in Reader /\ reader.phase = "receiving"
      /\ UNCHANGED <<owner, toReader>>
  BY DEF Inv, TypeOK, FinishRead, Heard
<1>2. reader.source \in Socket
  BY <1>1 DEF Inv, ReaderFine
<1>3. CASE reader.got = Sequence
  <2> DEFINE r == [reader EXCEPT !.phase = "ok"]
             m == Plain("Complete")
  <2>1. reader' = r /\ toSender' = toSender \cup {<<reader.source, m>>}
    BY <1>3 DEF FinishRead, Reply
  <2>2. /\ r \in Reader /\ r.phase = "ok" /\ r.source = reader.source
        /\ r.got = Sequence
    BY <1>1, <1>3 DEF Reader, Waiting
  <2>3. m \in Replies /\ m \in ReaderKinds /\ m.kind = "Complete"
    BY SenderAssumption
       DEF Plain, Datagram, Replies, ReaderKinds, Datagrams, Sequence
  <2> HIDE DEF r, m
  <2>4. PICK R : /\ toSender' = toSender \cup {<<r.source, n>> : n \in R}
                 /\ R = {m}
    BY <2>1, <2>2
  <2> QED BY <1>1, <1>2, <1>3, <2>1, <2>2, <2>3, <2>4, ReaderKept DEF Waiting
<1>4. CASE reader.got # Sequence
  <2> DEFINE m == Datagram("Nack", 0, Group(0) \ reader.got)
  <2>1. reader' = reader /\ toSender' = toSender \cup {<<reader.source, m>>}
    BY <1>4 DEF FinishRead, Reply
  <2>2. /\ m \in Replies /\ m \in ReaderKinds /\ m.kind = "Nack" /\ m.seq = 0
        /\ Group(0) \ m.bits \subseteq reader.got
    <3>1. 0 \in Sequence
      BY SenderAssumption DEF Sequence
    <3>2. Group(0) \subseteq Sequence
      BY <3>1, GroupType
    <3> QED BY <3>1, <3>2 DEF Datagram, Replies, ReaderKinds, Datagrams
  <2> HIDE DEF m
  <2>3. PICK R : /\ toSender' = toSender \cup {<<reader.source, n>> : n \in R}
                 /\ R = {m}
    BY <2>1
  <2>4. PICK r \in Reader : r = reader
    BY <1>1
  <2> QED BY <1>1, <1>2, <2>1, <2>2, <2>3, <2>4, ReaderKept DEF Waiting
<1> QED BY <1>3, <1>4

-----------------------------------------------------------------------------
(* The results *)

LEMMA InitFine == Init => Inv
<1> SUFFICES ASSUME Init PROVE Inv
  OBVIOUS
<1>1. TypeOK
  <2>1. /\ reader \in Reader /\ ready \in BOOLEAN
        /\ active \in 0..MaxReads /\ others \in 0..MaxReads
    BY SenderAssumption, ReadAssumption
       DEF Init, InitReader, Reader, Waiting
  <2>2. /\ task \in [Socket -> {"none", "running", "ended"}]
        /\ snd \in [Socket -> Sender]
    BY Initial DEF Init
  <2> QED BY <2>1, <2>2 DEF Init, TypeOK
<1>2. ReaderFine /\ RepliesFine
  BY DEF Init, InitReader, ReaderFine, RepliesFine
<1>3. AckedIsHeld /\ DoneIsRead
  BY Initial DEF Init, AckedIsHeld, DoneIsRead
<1> QED BY <1>1, <1>2, <1>3 DEF Inv

LEMMA NextKept == Inv /\ [Next]_vars => Inv'
<1> SUFFICES ASSUME Inv, [Next]_vars PROVE Inv'
  OBVIOUS
<1>1. ASSUME NEW s \in Socket, OwnerStep(s) PROVE Inv'
  BY <1>1, OwnerKept, SenderHearsKept, SenderWaitsKept, SenderBreaksKept
     DEF OwnerStep
<1>2. CASE ReaderStep
  BY <1>2, FollowStartKept, StoreDataKept, FinishReadKept, ReaderEndsKept
     DEF ReaderStep
<1>3. CASE UNCHANGED vars
  BY <1>3 DEF vars, owner, Inv, TypeOK, ReaderFine, RepliesFine, ReplyFine,
              AckedIsHeld, DoneIsRead
<1> QED BY <1>1, <1>2, <1>3, OwnerKept DEF Next

LEMMA Invariance == Spec => []Inv
BY InitFine, NextKept, PTL DEF Spec

(* Reader, senders and datagrams keep the shapes of the code's, and        *)
(* active_reads stays within udp_max_sessions.                             *)
THEOREM TypeCorrect == Spec => []TypeOK
<1>1. Inv => TypeOK
  BY DEF Inv
<1> QED BY <1>1, Invariance, PTL

(* Whatever is lost, repeated or delayed, and however many senders the     *)
(* repeated requests have started, only the sender that receive_payload    *)
(* follows is ever acknowledged, and only what the reader has.             *)
THEOREM AcksHonest == Spec => []AckedIsHeld
<1>1. Inv => AckedIsHeld
  BY DEF Inv
<1> QED BY <1>1, Invariance, PTL

(* A sender whose FIN was answered with COMPLETE has served the read that  *)
(* returned the data.                                                      *)
THEOREM SuccessRead == Spec => []DoneIsRead
<1>1. Inv => DoneIsRead
  BY DEF Inv
<1> QED BY <1>1, Invariance, PTL

(* No slot leaks or is given back twice: active_reads counts exactly the   *)
(* reads under way, for any number of senders.                             *)
THEOREM SlotsCounted == Spec => []SlotsExact
<1>1. Init => SlotsExact
  <2> SUFFICES ASSUME Init PROVE SlotsExact
    OBVIOUS
  <2>1. Running = {}
    BY DEF Init, Running
  <2>2. others \in Int /\ active = others
    BY ReadAssumption DEF Init
  <2> QED BY <2>1, <2>2, FS_EmptySet DEF SlotsExact
<1>2. Inv /\ SlotsExact /\ [Next]_vars => SlotsExact'
  <2> SUFFICES ASSUME Inv, SlotsExact, [Next]_vars PROVE SlotsExact'
    OBVIOUS
  <2>1. /\ active \in Nat /\ others \in Nat /\ IsFiniteSet(Running)
        /\ Cardinality(Running) \in Nat
        /\ active = others + Cardinality(Running)
        /\ task \in [Socket -> {"none", "running", "ended"}]
    BY ReadAssumption, FS_CardinalityType DEF Inv, TypeOK, SlotsExact
  <2>2. ASSUME NEW s \in Socket, ReadRequest(s) PROVE SlotsExact'
    <3>1. /\ active' = active + 1 /\ others' = others
          /\ Running' = Running \cup {s} /\ s \notin Running
      BY <2>1, <2>2 DEF ReadRequest, Running
    <3>2. /\ IsFiniteSet(Running \cup {s})
          /\ Cardinality(Running \cup {s}) = Cardinality(Running) + 1
      BY <2>1, <3>1, FS_AddElement
    <3> QED BY <2>1, <3>1, <3>2 DEF SlotsExact
  <2>3. ASSUME NEW s \in Socket, EndRead(s) PROVE SlotsExact'
    <3>1. /\ active' = GiveBack(active) /\ others' = others
          /\ Running' = Running \ {s} /\ s \in Running
      BY <2>1, <2>3 DEF EndRead, Finished, Running
    <3>2. /\ IsFiniteSet(Running \ {s})
          /\ Cardinality(Running \ {s}) = Cardinality(Running) - 1
      BY <2>1, <3>1, FS_RemoveElement
    <3>3. Cardinality(Running \ {s}) \in Nat
      BY <3>2, FS_CardinalityType
    <3> QED BY <2>1, <3>1, <3>2, <3>3 DEF SlotsExact, GiveBack
  <2>4. CASE EndOther
    <3>1. /\ active' = GiveBack(active) /\ others' = others - 1 /\ others > 0
          /\ Running' = Running
      BY <2>4 DEF EndOther, Running
    <3> QED BY <2>1, <3>1 DEF SlotsExact, GiveBack
  <2>5. CASE UNCHANGED <<active, others, task>>
    BY <2>1, <2>5 DEF SlotsExact, Running
  <2>6. ASSUME NEW s \in Socket, SenderHears(s) \/ SenderWaits(s)
                                   \/ SenderBreaks(s)
        PROVE  UNCHANGED <<active, others, task>>
    BY <2>6 DEF SenderHears, SenderWaits, SenderBreaks, SenderMoves
  <2>7. RefuseRead \/ LoseBlock => UNCHANGED <<active, others, task>>
    BY DEF RefuseRead, LoseBlock, owner
  <2>8. ReaderStep => UNCHANGED <<active, others, task>>
    BY DEF ReaderStep, FollowStart, StoreData, ReadRefused, FinishRead,
           ReadAborted, ReaderWaits, ReaderDropped, owner
  <2>9. UNCHANGED vars => UNCHANGED <<active, others, task>>
    BY DEF vars, owner
  <2> QED BY <2>2, <2>3, <2>4, <2>5, <2>6, <2>7, <2>8, <2>9
          DEF Next, OwnerStep
<1> QED BY <1>1, <1>2, Invariance, PTL DEF Spec

-----------------------------------------------------------------------------
(* A read implements ChunkTransfer *)

LEMMA TransferStep ==
    ASSUME Inv, [Next]_vars
    PROVE  [Transfer!Next]_(Transfer!vars)
<1>1. reader \in Reader
  BY DEF Inv, TypeOK
<1>2. CASE reader' = reader
  BY <1>2 DEF Transfer!vars, Outcome
<1>3. ASSUME NEW p \in {"failed", "timeout"}, reader.phase \in Waiting,
             reader' = [reader EXCEPT !.phase = p]
      PROVE  Transfer!Fail
  <2>1. Outcome = "pending"
    BY <1>3 DEF Outcome, Waiting
  <2>2. reader'.phase = p /\ reader'.got = reader.got
    BY <1>1, <1>3 DEF Reader
  <2>3. Outcome' = "failed"
    BY <2>2 DEF Outcome, Waiting
  <2> QED BY <2>1, <2>2, <2>3 DEF Transfer!Fail
<1>4. ASSUME NEW s \in Socket, FollowStart(s)
      PROVE  UNCHANGED Transfer!vars
  <2>1. /\ reader.phase \in Waiting /\ reader'.phase \in Waiting
        /\ reader'.got = reader.got
    BY <1>1, <1>4 DEF FollowStart, Reader, Waiting
  <2>2. Outcome = "pending" /\ Outcome' = "pending"
    BY <2>1 DEF Outcome, Waiting
  <2> QED BY <2>1, <2>2 DEF Transfer!vars
<1>5. CASE ReadRefused \/ ReadAborted \/ ReaderDropped
  <2>1. /\ reader.phase \in Waiting
        /\ reader' = [reader EXCEPT !.phase = "failed"]
    BY <1>5 DEF ReadRefused, ReadAborted, ReaderDropped, Heard, Waiting
  <2> QED BY <1>3, <2>1 DEF Transfer!Next, Transfer!Report
<1>6. CASE ReaderWaits
  <2>1. reader.phase \in Waiting /\ reader' = Count(reader)
    BY <1>6 DEF ReaderWaits
  <2>2. CASE reader.retries = MaxRetries
    BY <1>3, <2>1, <2>2 DEF Count, Transfer!Next, Transfer!Report
  <2>3. CASE reader.retries # MaxRetries
    <3>1. reader'.phase = reader.phase /\ reader'.got = reader.got
      BY <1>1, <2>1, <2>3 DEF Count, Reader
    <3> QED BY <3>1 DEF Transfer!vars, Outcome
  <2> QED BY <2>2, <2>3
<1>7. ASSUME NEW batch \in SUBSET Sequence, NEW i \in batch,
             StoreData(batch, i)
      PROVE  Transfer!Deliver \/ UNCHANGED Transfer!vars
  <2>1. /\ reader'.phase = reader.phase
        /\ reader'.got = reader.got \cup batch
    BY <1>1, <1>7 DEF StoreData, Reader
  <2>2. Outcome' = Outcome
    BY <2>1 DEF Outcome
  <2>3. reader.got = Sequence => reader'.got = Sequence
    BY <2>1
  <2> QED BY <2>2, <2>3 DEF Transfer!Deliver, Transfer!vars
<1>8. CASE FinishRead
  <2>1. reader.phase = "receiving"
    BY <1>8 DEF FinishRead, Heard
  <2>2. CASE reader.got = Sequence
    <3>1. reader'.phase = "ok" /\ reader'.got = Sequence
      BY <1>1, <1>8, <2>2 DEF FinishRead, Reader
    <3>2. Outcome = "pending" /\ Outcome' = "ok"
      BY <2>1, <3>1 DEF Outcome, Waiting
    <3> QED BY <2>2, <3>1, <3>2
            DEF Transfer!Next, Transfer!Report, Transfer!Succeed
  <2>3. CASE reader.got # Sequence
    BY <1>2, <1>8, <2>3 DEF FinishRead
  <2> QED BY <2>2, <2>3
<1>9. ASSUME NEW s \in Socket, OwnerStep(s) PROVE reader' = reader
  BY <1>9 DEF OwnerStep, ReadRequest, SenderHears, SenderWaits, SenderBreaks,
              SenderMoves, EndRead
<1>10. RefuseRead \/ LoseBlock \/ EndOther \/ UNCHANGED vars => reader' = reader
  BY DEF RefuseRead, LoseBlock, EndOther, vars
<1> QED BY <1>2, <1>4, <1>5, <1>6, <1>7, <1>8, <1>9, <1>10
        DEF Next, ReaderStep, Transfer!Next

(* ReliableUdpDataTransport.read keeps the data plane's promise: it        *)
(* returns the whole chunk or an error, and reports once.                  *)
THEOREM ReadTransfers == Spec => Transfer!Spec
<1>1. Init => Transfer!Init
  <2> SUFFICES ASSUME Init PROVE Transfer!Init
    OBVIOUS
  <2>1. reader.phase = "asking" /\ reader.got = {}
    BY DEF Init, InitReader
  <2>2. 0 \in Sequence
    BY SenderAssumption DEF Sequence
  <2> QED BY <2>1, <2>2 DEF Transfer!Init, Outcome, Waiting
<1>2. Inv /\ [Next]_vars => [Transfer!Next]_(Transfer!vars)
  BY TransferStep
<1> QED BY <1>1, <1>2, Invariance, PTL DEF Spec, Transfer!Spec

=============================================================================
