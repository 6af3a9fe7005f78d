------------------------------- MODULE UdpRead -------------------------------
(***************************************************************************)
(* One chunk read from a block over UDP: ReliableUdpDataTransport.read and *)
(* receive_payload of transport/udp.rs at the reading daemon, the          *)
(* ReadRequest handler of runtime/udp.rs at the owner, and the senders     *)
(* that the handler spawns (module UdpSender).                             *)
(*                                                                         *)
(* Every ReadRequest the owner handles, also a repeated one, starts a      *)
(* sender of its own, on a socket of its own, that counts as an active     *)
(* read until it ends.  The reader answers the sender whose START it sees  *)
(* first and ignores the others.  A datagram once sent may arrive at any   *)
(* time, any number of times, or never; a ReadRequest is therefore always  *)
(* under way, and only the number of senders bounds its repetitions.       *)
(***************************************************************************)
EXTENDS UdpSender

CONSTANTS
    Socket,    \* the sockets of the senders the owner may spawn
    Server,    \* the owner's own socket
    MaxReads,  \* udp_max_sessions, the bound of active_reads
    AckEvery   \* packets between two unprompted acknowledgements (8)

ASSUME ReadAssumption ==
    /\ Server \notin Socket
    /\ MaxReads \in Nat \ {0}
    /\ AckEvery \in Nat \ {0}

VARIABLES
    reader,    \* the reading side
    ready,     \* the block is there, Ready and of the requested generation
    active,    \* the owner's active_reads
    others,    \* how many of them serve other reads
    task,      \* task[s]: "none", "running" or "ended"
    snd,       \* snd[s]: the sender on socket s
    toReader,  \* pairs of a socket and a datagram sent from it
    toSender   \* pairs of a socket and a datagram sent to it

owner == <<ready, active, others, task, snd>>
vars == <<reader, owner, toReader, toSender>>

Waiting == {"asking", "receiving"}

Reader == [phase : Waiting \cup {"ok", "failed", "timeout"},
           retries : 0..MaxRetries, source : Socket \cup {Server},
           got : SUBSET Sequence]

InitReader ==
    [phase |-> "asking", retries |-> 0, source |-> Server, got |-> {}]

-----------------------------------------------------------------------------
(* The owner *)

(* A slot is taken before the payload is copied, both under the block's    *)
(* lock; the mutant lets one read too many in.                             *)
SlotFreeMutant == active <= MaxReads
SlotFree == active < MaxReads

ReadRequest(s) ==
    /\ task[s] = "none"
    /\ ready /\ SlotFree
    /\ active' = active + 1
    /\ task' = [task EXCEPT ![s] = "running"]
    /\ snd' = [snd EXCEPT ![s] = InitSender]
    /\ toReader' = toReader \cup {<<s, m>> : m \in Outgoing(InitSender)}
    /\ UNCHANGED <<reader, ready, others, toSender>>

(* The block is gone, or every slot is taken. *)
RefuseRead ==
    /\ ~ready \/ ~SlotFree
    /\ toReader' = toReader \cup {<<Server, Plain("Error")>>}
    /\ UNCHANGED <<reader, owner, toSender>>

SenderMoves(s, next) ==
    /\ snd' = [snd EXCEPT ![s] = next]
    /\ toReader' = toReader \cup {<<s, m>> : m \in Outgoing(next)}
    /\ UNCHANGED <<reader, ready, active, others, task, toSender>>

SenderRuns(s) == task[s] = "running" /\ snd[s].phase \in Sending

SenderHears(s) ==
    /\ SenderRuns(s)
    /\ \E m \in {p[2] : p \in {q \in toSender : q[1] = s}} :
         SenderMoves(s, OnDatagram(snd[s], m))

SenderWaits(s) ==
    /\ SenderRuns(s)
    /\ SenderMoves(s, OnTimeout(snd[s]))

(* The socket cannot be bound or used, or a datagram does not decode. *)
SenderBreaks(s) ==
    /\ SenderRuns(s)
    /\ SenderMoves(s, [snd[s] EXCEPT !.phase = "error"])

GiveBack(n) == IF n = 0 THEN 0 ELSE n - 1

(* The spawned task gives its slot back however the transfer ended; the    *)
(* mutant does so only for a transfer that the reader confirmed.           *)
FinishedMutant(s) == task[s] = "running" /\ snd[s].phase = "done"
Finished(s) == task[s] = "running" /\ snd[s].phase \notin Sending

EndRead(s) ==
    /\ Finished(s)
    /\ task' = [task EXCEPT ![s] = "ended"]
    /\ active' = GiveBack(active)
    /\ UNCHANGED <<reader, ready, others, snd, toReader, toSender>>

(* Other reads hold slots as well, and end. *)
EndOther ==
    /\ others > 0
    /\ others' = others - 1
    /\ active' = GiveBack(active)
    /\ UNCHANGED <<reader, ready, task, snd, toReader, toSender>>

(* The block is freed, migrated away, or its lease runs out. *)
LoseBlock ==
    /\ ready
    /\ ready' = FALSE
    /\ UNCHANGED <<reader, active, others, task, snd, toReader, toSender>>

-----------------------------------------------------------------------------
(* The reader *)

Reply(m) == toSender' = toSender \cup {<<reader.source, m>>}

(* The first START decides which sender is listened to; it is answered     *)
(* once, and ignored when it is repeated.                                  *)
FollowStart(s) ==
    /\ reader.phase = "asking"
    /\ <<s, Plain("Start")>> \in toReader
    /\ reader' = [reader EXCEPT !.phase = "receiving", !.retries = 0,
                                !.source = s]
    /\ toSender' = toSender \cup {<<s, Plain("StartAck")>>}
    /\ UNCHANGED <<owner, toReader>>

(* While asking, an ERROR of any sender of the transfer ends the read;     *)
(* anything else but START has the request repeated at once, uncounted.    *)
ReadRefused ==
    /\ reader.phase = "asking"
    /\ <<Server, Plain("Error")>> \in toReader
    /\ reader' = [reader EXCEPT !.phase = "failed"]
    /\ UNCHANGED <<owner, toReader, toSender>>

Heard(m) == reader.phase = "receiving" /\ <<reader.source, m>> \in toReader

(* One packet is acknowledged when it repeats, completes the chunk or is   *)
(* the next AckEvery-th; packets that arrived together always are.         *)
AckDue(batch, got) ==
    \/ Cardinality(batch) > 1
    \/ batch \subseteq reader.got
    \/ Cardinality(got) % AckEvery = 0
    \/ got = Sequence

(* The bitmap around the batch's last packet; the mutant reports the whole *)
(* group.                                                                  *)
ReadAckMutant(got, i) == Datagram("Ack", GroupStart(i), Group(i))
ReadAck(got, i) == Datagram("Ack", GroupStart(i), got \cap Group(i))

StoreData(batch, i) ==
    LET got == reader.got \cup batch IN
    /\ i \in batch
    /\ \A j \in batch : Heard(Data(j))
    /\ reader' = [reader EXCEPT !.got = got]
    /\ IF AckDue(batch, got) THEN Reply(ReadAck(got, i)) ELSE UNCHANGED toSender
    /\ UNCHANGED <<owner, toReader>>

(* FIN ends a read that has everything: the digest is checked, COMPLETE    *)
(* sent once and the socket closed.  The mutant sends COMPLETE before the  *)
(* read is over.                                                           *)
FinishReadMutant ==
    /\ Heard(Plain("Fin"))
    /\ reader.got = Sequence
    /\ Reply(Plain("Complete"))
    /\ UNCHANGED <<reader, owner, toReader>>

FinishRead ==
    /\ Heard(Plain("Fin"))
    /\ IF reader.got = Sequence
       THEN /\ reader' = [reader EXCEPT !.phase = "ok"]
            /\ Reply(Plain("Complete"))
       ELSE /\ Reply(Datagram("Nack", 0, Group(0) \ reader.got))
            /\ UNCHANGED reader
    /\ UNCHANGED <<owner, toReader>>

ReadAborted ==
    /\ Heard(Plain("Abort"))
    /\ reader' = [reader EXCEPT !.phase = "failed"]
    /\ UNCHANGED <<owner, toReader, toSender>>

(* Nothing in time: both loops of the reader count up to MaxRetries.  The  *)
(* mutant of the count never gives up.                                     *)
CountMutant(r) == r
Count(r) == IF r.retries = MaxRetries THEN [r EXCEPT !.phase = "timeout"]
            ELSE [r EXCEPT !.retries = @ + 1]

ReaderWaits ==
    /\ reader.phase \in Waiting
    /\ reader' = Count(reader)
    /\ UNCHANGED <<owner, toReader, toSender>>

(* The connection that relays the read reaches its deadline, or the socket *)
(* fails.                                                                  *)
ReaderDropped ==
    /\ reader.phase \in Waiting
    /\ reader' = [reader EXCEPT !.phase = "failed"]
    /\ UNCHANGED <<owner, toReader, toSender>>

-----------------------------------------------------------------------------
Init ==
    /\ reader = InitReader
    /\ ready \in BOOLEAN
    /\ others \in 0..MaxReads
    /\ active = others
    /\ task = [s \in Socket |-> "none"]
    /\ snd = [s \in Socket |-> InitSender]
    /\ toReader = {}
    /\ toSender = {}

OwnerStep(s) ==
    \/ ReadRequest(s) \/ SenderHears(s) \/ SenderWaits(s)
    \/ SenderBreaks(s) \/ EndRead(s)

ReaderStep ==
    \/ \E s \in Socket : FollowStart(s)
    \/ \E batch \in SUBSET Sequence : \E i \in batch : StoreData(batch, i)
    \/ ReadRefused \/ FinishRead \/ ReadAborted \/ ReaderWaits
    \/ ReaderDropped

Next ==
    \/ \E s \in Socket : OwnerStep(s)
    \/ RefuseRead \/ LoseBlock \/ EndOther
    \/ ReaderStep

Spec == Init /\ [][Next]_vars

(* Timers fire on both sides and the spawned task is scheduled; nothing is *)
(* asked of the network.                                                   *)
Fairness ==
    /\ WF_vars(ReaderWaits)
    /\ WF_vars(EndOther)
    /\ \A s \in Socket : WF_vars(SenderWaits(s)) /\ WF_vars(EndRead(s))

FairSpec == Spec /\ Fairness

-----------------------------------------------------------------------------
(* Properties *)

(* Reader, senders and datagrams keep the shapes of the code's, and no     *)
(* more reads are active than udp_max_sessions.                            *)
TypeOK ==
    /\ reader \in Reader
    /\ ready \in BOOLEAN
    /\ active \in 0..MaxReads
    /\ others \in 0..MaxReads
    /\ task \in [Socket -> {"none", "running", "ended"}]
    /\ snd \in [Socket -> Sender]
    /\ toReader \subseteq (Socket \cup {Server})
                            \X Datagrams({"Start", "Data", "Fin", "Abort", "Error"})
    /\ toSender \subseteq Socket
                            \X Datagrams({"StartAck", "Ack", "Nack", "Complete"})

(* What a sender takes as acknowledged the reader has, and only the sender *)
(* that the reader follows is ever acknowledged: the reads that repeated   *)
(* requests started never mix.                                             *)
AckedIsHeld ==
    \A s \in Socket :
      snd[s].acked \subseteq IF s = reader.source THEN reader.got ELSE {}

(* A sender reports a completed read only if the read has returned its     *)
(* data, and to it.                                                        *)
DoneIsRead ==
    \A s \in Socket :
      snd[s].phase = "done" => reader.phase = "ok" /\ reader.source = s

(* Every slot of active_reads comes back, although the reader may be gone, *)
(* may have ignored the sender or its COMPLETE may be lost.                *)
SlotsReturn == <>[](active = 0)

(* The chunk counts as delivered when the reader has all of its packets.   *)
Outcome ==
    CASE reader.phase \in Waiting -> "pending"
      [] reader.phase = "ok" -> "ok"
      [] OTHER -> "failed"

Transfer == INSTANCE ChunkTransfer
              WITH outcome <- Outcome,
                   copies <- IF reader.got = Sequence THEN 1 ELSE 0

(* A read implements the abstract transfer of a chunk: it returns only the *)
(* whole chunk, and it always ends, with the data or an explicit error,    *)
(* whatever is lost and however many senders it has started.               *)
IsTransfer == Transfer!FairSpec

=============================================================================
