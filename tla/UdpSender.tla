------------------------------ MODULE UdpSender ------------------------------
(***************************************************************************)
(* The sending half of the reliable UDP data plane: send_payload of        *)
(* transport/udp.rs, which moves one chunk of a block with a handshake,    *)
(* bounded selective-repeat windows and a final FIN.  It serves uploads    *)
(* and migrations (module UdpWrite) and the answers to reads.              *)
(*                                                                         *)
(* The sender is a record; the operators say which record follows a        *)
(* datagram or a timeout and which datagrams it then sends.  Pacing and    *)
(* round-trip estimates only decide when a timeout comes, which is left    *)
(* open.                                                                   *)
(***************************************************************************)
EXTENDS Integers, FiniteSetsExt

CONSTANTS
    Packets,         \* data packets of the chunk
    Window,          \* udp_window_packets of the sender
    ReceiverWindow,  \* udp_window_packets of the receiver
    AckBits,         \* sequences one bitmap covers (ACK_BITS)
    MaxRetries       \* udp_max_retries

ASSUME SenderAssumption ==
    /\ Packets \in Nat \ {0}
    /\ Window \in Nat /\ Window >= 2
    /\ ReceiverWindow \in Nat /\ ReceiverWindow >= 2
    /\ AckBits \in Nat /\ AckBits >= 2
    /\ MaxRetries \in Nat \ {0}

Sequence == 0..Packets - 1

(* A datagram: seq is the number of a Data packet, or where the bitmap of  *)
(* an Ack or Nack starts.                                                  *)
Datagram(kind, seq, bits) == [kind |-> kind, seq |-> seq, bits |-> bits]
Plain(kind) == Datagram(kind, 0, {})
Data(i) == Datagram("Data", i, {})
Datagrams(kinds) == [kind : kinds, seq : Sequence, bits : SUBSET Sequence]

Lesser(a, b) == IF a <= b THEN a ELSE b
Greater(a, b) == IF a >= b THEN a ELSE b

(* Where the bitmap that covers sequence i starts, and what it covers; the *)
(* mutant forgets that the last bitmap may be longer than the chunk.       *)
GroupStart(i) == (i \div AckBits) * AckBits
GroupMutant(i) == GroupStart(i)..GroupStart(i) + AckBits - 1
Group(i) == {j \in Sequence : GroupStart(j) = GroupStart(i)}

-----------------------------------------------------------------------------
Phase == {"start", "data", "fin", "done", "timeout", "error", "cancelled"}
Sending == {"start", "data", "fin"}

Sender == [phase : Phase, retries : 0..MaxRetries, base : 0..Packets,
           end : 0..Packets, acked : SUBSET Sequence, win : Nat]

InitSender == [phase |-> "start", retries |-> 0, base |-> 0, end |-> 0,
               acked |-> {}, win |-> Lesser(Window, AckBits)]

(* The packets of the current window that are not acknowledged. *)
Missing(s) == (s.base..s.end - 1) \ s.acked

(* What the sender has on the wire: START, the missing packets of the      *)
(* window or FIN, repeated in every round, and ABORT when it gives up.     *)
Outgoing(s) ==
    CASE s.phase = "start" -> {Plain("Start")}
      [] s.phase = "data" -> {Data(i) : i \in Missing(s)}
      [] s.phase = "fin" -> {Plain("Fin")}
      [] s.phase \in {"timeout", "error"} -> {Plain("Abort")}
      [] s.phase \in {"done", "cancelled"} -> {}

(* The first window from sequence b on that has something to send; FIN     *)
(* when there is none.                                                     *)
EnterWindow(s, b) ==
    LET opens(i) == (i - b) % s.win = 0
                      /\ \E j \in Sequence \ s.acked : j >= i /\ j < i + s.win
        open == {i \in b..Packets - 1 : opens(i)}
        first == Min(open)
    IN  IF open = {}
        THEN [s EXCEPT !.phase = "fin", !.retries = 0, !.base = Packets,
                       !.end = Packets]
        ELSE [s EXCEPT !.phase = "data", !.retries = 0, !.base = first,
                       !.end = Lesser(first + s.win, Packets)]

(* Both ends' windows limit what is sent, but never to less than two. *)
Negotiated(s) ==
    [s EXCEPT !.win = Lesser(@, Greater(ReceiverWindow, 2))]

(* One more round of a window is over, by its last acknowledgement or by   *)
(* the timeout.  The bound is on all rounds, also on the one that          *)
(* completes the window; after a second round the next window is halved.   *)
EndRound(s) ==
    LET rounds == s.retries + 1
        win == IF rounds > 1 THEN Greater(s.win \div 2, 2) ELSE s.win
    IN  IF rounds > MaxRetries THEN [s EXCEPT !.phase = "timeout"]
        ELSE IF Missing(s) = {}
        THEN EnterWindow([s EXCEPT !.win = win], s.end)
        ELSE [s EXCEPT !.retries = rounds, !.win = win]

(* A START or FIN that was not answered in time is sent again, up to       *)
(* MaxRetries times; the mutant does not count.                            *)
TryAgainMutant(s) == s
TryAgain(s) == IF s.retries = MaxRetries THEN [s EXCEPT !.phase = "timeout"]
               ELSE [s EXCEPT !.retries = @ + 1]

(* An Ack tells what has arrived, a Nack what of its range is missing. *)
Acknowledged(s, m) ==
    IF m.kind = "Ack" THEN s.acked \cup m.bits
    ELSE s.acked \cup {i \in s.base..s.end - 1 :
                         /\ i >= m.seq /\ i < m.seq + AckBits
                         /\ i \notin m.bits}

OnBitmap(s, m) ==
    LET heard == Negotiated([s EXCEPT !.acked = Acknowledged(s, m)])
    IN  IF Missing(heard) = {} THEN EndRound(heard) ELSE heard

(* The handshake repeats START at once for a datagram it does not expect,  *)
(* the FIN loop uses up an attempt for it.                                 *)
OnDatagram(s, m) ==
    CASE m.kind = "Error" -> [s EXCEPT !.phase = "error"]
      [] s.phase = "start" /\ m.kind = "StartAck" ->
           EnterWindow(Negotiated(s), 0)
      [] s.phase = "data" /\ m.kind \in {"Ack", "Nack"} -> OnBitmap(s, m)
      [] s.phase = "fin" /\ m.kind = "Complete" -> [s EXCEPT !.phase = "done"]
      [] s.phase = "fin" /\ m.kind \notin {"Error", "Complete"} -> TryAgain(s)
      [] OTHER -> s

OnTimeout(s) == IF s.phase = "data" THEN EndRound(s) ELSE TryAgain(s)

=============================================================================
