------------------------------ MODULE UdpWrite -------------------------------
(***************************************************************************)
(* One chunk written to a block over UDP: the sender of module UdpSender   *)
(* and the receiving daemon of runtime/udp.rs, which runs a task for every *)
(* datagram or batch of Data datagrams.                                    *)
(*                                                                         *)
(* A datagram once sent may arrive at any time, any number of times, or    *)
(* never.  The receiver's session, finishing and completed entries are     *)
(* those of this transfer's key; they are separate mutexes, so a task is a *)
(* sequence of steps, one for each lock it takes.                          *)
(***************************************************************************)
EXTENDS UdpSender

CONSTANTS
    Task,      \* datagram tasks the receiver runs at a time
    AckEvery,  \* packets between two unprompted acknowledgements (8)
    Sweeps,    \* whether sessions may expire and COMPLETEs be evicted
    Nobody     \* no packet received yet

ASSUME WriteAssumption ==
    /\ AckEvery \in Nat \ {0}
    /\ Sweeps \in BOOLEAN
    /\ Nobody \notin Sequence

VARIABLES
    snd,        \* the sender
    toServer,   \* datagrams sent to the receiver
    toSender,   \* datagrams sent to the sender
    session,    \* the IncomingSession, NoSession if there is none
    finishing,  \* the key is in UdpServerState.finishing
    completed,  \* the key and offset are in UdpServerState.completed
    block,      \* "open": written = the chunk's offset; "full": its end
    stored,     \* the packets the block has of this chunk
    writes,     \* history: how often the chunk was copied into the block
    swept,      \* history: a session of this key has expired
    task        \* the receiver's tasks

server == <<session, finishing, completed, block, stored, writes, swept>>
vars == <<snd, toServer, toSender, server, task>>

NoSession == [live |-> FALSE, got |-> {}, last |-> Nobody]
NewSession == [live |-> TRUE, got |-> {}, last |-> Nobody]

Idle == [kind |-> "None", at |-> "idle", batch |-> {}, last |-> 0, got |-> {}]

At(t, kind, step) == task[t].kind = kind /\ task[t].at = step
Goto(t, step) == task' = [task EXCEPT ![t].at = step]

(* Task t ends with at most one reply. *)
Ends(t, replies) ==
    /\ toSender' = toSender \cup replies
    /\ task' = [task EXCEPT ![t] = Idle]

-----------------------------------------------------------------------------
(* The sender *)

SenderMoves(s) ==
    /\ snd' = s
    /\ toServer' = toServer \cup Outgoing(s)
    /\ UNCHANGED <<toSender, server, task>>

SenderHears ==
    /\ snd.phase \in Sending
    /\ \E m \in toSender : SenderMoves(OnDatagram(snd, m))

SenderWaits ==
    /\ snd.phase \in Sending
    /\ SenderMoves(OnTimeout(snd))

(* The socket fails, or a datagram does not decode. *)
SenderBreaks ==
    /\ snd.phase \in Sending
    /\ SenderMoves([snd EXCEPT !.phase = "error"])

(* The connection that relays the chunk reaches its deadline: the sender   *)
(* is dropped where it stands, without an ABORT.                           *)
SenderCancelled ==
    /\ snd.phase \in Sending
    /\ SenderMoves([snd EXCEPT !.phase = "cancelled"])

-----------------------------------------------------------------------------
(* The receiver: a task begins *)

(* A single datagram other than Data. *)
Receive(t, m) ==
    /\ task[t] = Idle
    /\ m.kind \in {"Start", "Fin", "Abort"}
    /\ task' = [task EXCEPT
                  ![t] = [Idle EXCEPT !.kind = m.kind, !.at = "begin"]]
    /\ UNCHANGED <<snd, toServer, toSender, server>>

(* Data datagrams that arrived together; i came last. *)
ReceiveData(t, batch, i) ==
    /\ task[t] = Idle
    /\ i \in batch
    /\ {Data(j) : j \in batch} \subseteq toServer
    /\ task' = [task EXCEPT
                  ![t] = [Idle EXCEPT !.kind = "Data", !.at = "begin",
                                      !.batch = batch, !.last = i]]
    /\ UNCHANGED <<snd, toServer, toSender, server>>

-----------------------------------------------------------------------------
(* START *)

(* The block is checked under its own lock ... *)
CheckBlock(t) ==
    /\ At(t, "Start", "begin")
    /\ \/ block = "open" /\ Goto(t, "insert") /\ UNCHANGED toSender
       \/ block # "open" /\ Ends(t, {Plain("Error")})
    /\ UNCHANGED <<snd, toServer, server>>

(* A repeated START finds its session; the mutant starts it over. *)
EnteredMutant == NewSession
Entered == IF session.live THEN session ELSE NewSession

(* ... and the session is entered under the sessions' lock, unless there   *)
(* is one, or no room for one.                                             *)
InsertSession(t) ==
    /\ At(t, "Start", "insert")
    /\ \/ /\ session' = Entered
          /\ Ends(t, {Plain("StartAck")})
       \/ /\ ~session.live
          /\ UNCHANGED session
          /\ Ends(t, {Plain("Error")})
    /\ UNCHANGED <<snd, toServer, finishing, completed, block, stored, writes,
                   swept>>

-----------------------------------------------------------------------------
(* DATA *)

(* completed_data_ack: every packet of the group has arrived. *)
FullAck(i) == Datagram("Ack", GroupStart(i), Group(i))

(* The bitmap of what a session has of i's group. *)
SessionAck(got, i) == Datagram("Ack", GroupStart(i), got \cap Group(i))

(* A packet at a time is acknowledged when it repeats or overtakes, and    *)
(* every now and then; a batch always is.                                  *)
AckDue(t, s) ==
    LET i == task[t].last
        got == s.got \cup task[t].batch
    IN  \/ Cardinality(task[t].batch) > 1
        \/ i \in s.got
        \/ s.last # Nobody /\ i < s.last
        \/ Cardinality(got) % AckEvery = 0
        \/ got = Sequence

DataCompleted(t) ==
    /\ At(t, "Data", "begin")
    /\ \/ completed /\ Ends(t, {FullAck(task[t].last)})
       \/ ~completed /\ Goto(t, "session") /\ UNCHANGED toSender
    /\ UNCHANGED <<snd, toServer, server>>

StoreData(t) ==
    /\ At(t, "Data", "session")
    /\ LET got == session.got \cup task[t].batch
           new == task[t].batch \ session.got
           i == task[t].last IN
       \/ /\ session.live
          /\ session' = [session EXCEPT
                           !.got = got,
                           !.last = IF i \in new THEN i
                                    ELSE IF new # {} THEN Max(new) ELSE @]
          /\ Ends(t, IF AckDue(t, session) THEN {SessionAck(got, i)} ELSE {})
       \/ /\ ~session.live
          /\ Goto(t, "finishing")
          /\ UNCHANGED <<session, toSender>>
    /\ UNCHANGED <<snd, toServer, finishing, completed, block, stored, writes,
                   swept>>

DataFinishing(t) ==
    /\ At(t, "Data", "finishing")
    /\ Ends(t, {IF finishing THEN FullAck(task[t].last) ELSE Plain("Error")})
    /\ UNCHANGED <<snd, toServer, server>>

-----------------------------------------------------------------------------
(* FIN *)

FinCompleted(t) ==
    /\ At(t, "Fin", "begin")
    /\ \/ completed /\ Ends(t, {Plain("Complete")})
       \/ ~completed /\ Goto(t, "session") /\ UNCHANGED toSender
    /\ UNCHANGED <<snd, toServer, server>>

(* The missing packets of the first group that misses one. *)
FinNack(got) ==
    LET first == Min(Sequence \ got)
    IN  Datagram("Nack", GroupStart(first), Group(first) \ got)

(* FIN is for a session that has every packet; the mutant believes the     *)
(* sender.                                                                 *)
WholeMutant(got) == TRUE
Whole(got) == got = Sequence

(* A whole session moves from the sessions to the finishing keys. *)
TakeSession(t) ==
    /\ At(t, "Fin", "session")
    /\ \/ /\ session.live /\ Whole(session.got)
          /\ task' = [task EXCEPT ![t].at = "copy", ![t].got = session.got]
          /\ session' = NoSession
          /\ finishing' = TRUE
          /\ UNCHANGED toSender
       \/ /\ session.live /\ ~Whole(session.got)
          /\ Ends(t, {FinNack(session.got)})
          /\ UNCHANGED <<session, finishing>>
       \/ /\ ~session.live
          /\ Goto(t, "finishing")
          /\ UNCHANGED <<session, finishing, toSender>>
    /\ UNCHANGED <<snd, toServer, completed, block, stored, writes, swept>>

FinFinishing(t) ==
    /\ At(t, "Fin", "finishing")
    /\ Ends(t, IF finishing THEN {} ELSE {Plain("Error")})
    /\ UNCHANGED <<snd, toServer, server>>

(* The chunk goes where the block's written bytes end; the mutant does not *)
(* compare.                                                                *)
ContinuesMutant(b) == b # "gone"
Continues(b) == b = "open"

CopyChunk(t) ==
    /\ At(t, "Fin", "copy")
    /\ \/ /\ Continues(block)
          /\ block' = "full"
          /\ stored' = task[t].got
          /\ writes' = writes + 1
          /\ Goto(t, "record")
       \/ /\ ~Continues(block)
          /\ Goto(t, "undo")
          /\ UNCHANGED <<block, stored, writes>>
    /\ UNCHANGED <<snd, toServer, toSender, session, finishing, completed,
                   swept>>

(* The copy has failed: the key stops being finishing before the error is  *)
(* sent; the mutant forgets the mark.                                      *)
UndoFinMutant(t) ==
    /\ At(t, "Fin", "undo")
    /\ Ends(t, {Plain("Error")})
    /\ UNCHANGED <<snd, toServer, server>>

UndoFin(t) ==
    /\ At(t, "Fin", "undo")
    /\ finishing' = FALSE
    /\ Ends(t, {Plain("Error")})
    /\ UNCHANGED <<snd, toServer, session, completed, block, stored, writes,
                   swept>>

RecordComplete(t) ==
    /\ At(t, "Fin", "record")
    /\ completed' = TRUE
    /\ Goto(t, "clear")
    /\ UNCHANGED <<snd, toServer, toSender, session, finishing, block, stored,
                   writes, swept>>

ClearFinishing(t) ==
    /\ At(t, "Fin", "clear")
    /\ finishing' = FALSE
    /\ Ends(t, {Plain("Complete")})
    /\ UNCHANGED <<snd, toServer, session, completed, block, stored, writes,
                   swept>>

-----------------------------------------------------------------------------
(* ABORT, expiry and the block's own life *)

AbortSession(t) ==
    /\ At(t, "Abort", "begin")
    /\ session' = NoSession
    /\ Ends(t, {})
    /\ UNCHANGED <<snd, toServer, finishing, completed, block, stored, writes,
                   swept>>

(* Another transfer's START finds the session idle for too long. *)
SweepSession ==
    /\ Sweeps
    /\ session.live
    /\ session' = NoSession
    /\ swept' = TRUE
    /\ UNCHANGED <<snd, toServer, toSender, finishing, completed, block,
                   stored, writes, task>>

(* The COMPLETE is old, or newer ones fill the cache. *)
EvictCompleted ==
    /\ Sweeps
    /\ completed
    /\ completed' = FALSE
    /\ UNCHANGED <<snd, toServer, toSender, session, finishing, block, stored,
                   writes, swept, task>>

(* The block is freed, or its lease runs out. *)
LoseBlock ==
    /\ block # "gone"
    /\ block' = "gone"
    /\ UNCHANGED <<snd, toServer, toSender, session, finishing, completed,
                   stored, writes, swept, task>>

-----------------------------------------------------------------------------
Init ==
    /\ snd = InitSender
    /\ toServer = Outgoing(InitSender)
    /\ toSender = {}
    /\ session = NoSession
    /\ finishing = FALSE
    /\ completed = FALSE
    /\ block = "open"
    /\ stored = {}
    /\ writes = 0
    /\ swept = FALSE
    /\ task = [t \in Task |-> Idle]

TaskStep(t) ==
    \/ CheckBlock(t) \/ InsertSession(t)
    \/ DataCompleted(t) \/ StoreData(t) \/ DataFinishing(t)
    \/ FinCompleted(t) \/ TakeSession(t) \/ FinFinishing(t) \/ CopyChunk(t)
    \/ UndoFin(t) \/ RecordComplete(t) \/ ClearFinishing(t)
    \/ AbortSession(t)

Arrival(t) ==
    \/ \E m \in toServer : Receive(t, m)
    \/ \E batch \in SUBSET Sequence : \E i \in batch : ReceiveData(t, batch, i)

Next ==
    \/ SenderHears \/ SenderWaits \/ SenderBreaks \/ SenderCancelled
    \/ \E t \in Task : Arrival(t) \/ TaskStep(t)
    \/ SweepSession \/ EvictCompleted \/ LoseBlock

Spec == Init /\ [][Next]_vars

(* The sender's timers fire and tasks are scheduled; nothing is asked of   *)
(* the network.                                                            *)
Fairness ==
    /\ WF_vars(SenderWaits)
    /\ \A t \in Task : WF_vars(TaskStep(t))

FairSpec == Spec /\ Fairness

-----------------------------------------------------------------------------
(* Properties *)

(* Sender, session and tasks keep the shapes of their structs, and only    *)
(* datagrams of the protocol are under way.                                *)
TypeOK ==
    /\ snd \in Sender
    /\ toServer \subseteq Datagrams({"Start", "Data", "Fin", "Abort"})
    /\ toSender \subseteq
         Datagrams({"StartAck", "Ack", "Nack", "Complete", "Error"})
    /\ session \in [live : BOOLEAN, got : SUBSET Sequence,
                    last : Sequence \cup {Nobody}]
    /\ finishing \in BOOLEAN
    /\ completed \in BOOLEAN
    /\ block \in {"open", "full", "gone"}
    /\ stored \in SUBSET Sequence
    /\ writes \in Nat
    /\ swept \in BOOLEAN
    /\ task \in [Task -> [kind : {"None", "Start", "Data", "Fin", "Abort"},
                          at : {"idle", "begin", "insert", "session",
                                "finishing", "copy", "undo", "record",
                                "clear"},
                          batch : SUBSET Sequence, last : Sequence,
                          got : SUBSET Sequence]]

(* However often START, DATA and FIN are repeated, and although two FINs   *)
(* may finish two sessions of one transfer at the same time, the chunk is  *)
(* copied into the block once at most.                                     *)
WrittenOnce == writes <= 1

(* A sender that reports success has its whole chunk in the block. *)
DoneIsStored == snd.phase = "done" => writes = 1 /\ stored = Sequence

(* What the sender takes as acknowledged is with the receiver: in the      *)
(* session, in the hands of a finishing task or in the block, unless the   *)
(* receiver has expired the session, the block is gone or the sender has   *)
(* given up.                                                               *)
AcksTruthful ==
    snd.phase \in Sending /\ ~swept /\ block # "gone"
    => snd.acked \subseteq
         session.got \cup stored \cup UNION {task[t].got : t \in Task}

(* The sender is the side that asked. *)
Outcome ==
    CASE snd.phase \in Sending -> "pending"
      [] snd.phase = "done" -> "ok"
      [] OTHER -> "failed"

Transfer == INSTANCE ChunkTransfer WITH outcome <- Outcome, copies <- writes

(* A write implements the abstract transfer of a chunk: it is copied once  *)
(* at most, success is reported only after that, and every transfer ends,  *)
(* by success or explicitly, whatever the network does.                    *)
IsTransfer == Transfer!FairSpec

(* No key stays marked as finishing: its FINs would never be answered.     *)
FinishingEnds == <>[](~finishing)

(* Not met by the code: once the chunk is in the block, a late repetition  *)
(* of its data is acknowledged and not answered with an error.  The three  *)
(* maps are read one after the other while FIN moves the transfer.         *)
LateDataAcked ==
    [][\A t \in Task :
         /\ block = "full" /\ task[t].kind = "Data" /\ task'[t] = Idle
         /\ task[t].at # "idle"
         => Plain("Error") \notin toSender' \ toSender]_vars

=============================================================================
