------------------------------ MODULE TcpChunk -------------------------------
(***************************************************************************)
(* Chunks that a daemon writes to and reads from a block of another daemon *)
(* over TCP: the pool of authenticated connections and the two client      *)
(* operations (runtime/data.rs tcp_write_chunk and tcp_read_chunk,         *)
(* memory/remote_ram.rs), and the owner's connection loop                  *)
(* (runtime/mod.rs connection, runtime/data.rs data with direct = true).   *)
(*                                                                         *)
(* A connection is two queues of frames.  No answer says which request it  *)
(* belongs to, so a connection may only be used again when both queues     *)
(* are empty.  Either side may stop anywhere: the relaying task when its   *)
(* own client goes away or its deadline passes, the owner when the         *)
(* connection gets older than its deadline, however busy it is.  Each      *)
(* stop closes its end of the connection.                                  *)
(*                                                                         *)
(* One block is followed.  Its chunks have to be written in order.         *)
(***************************************************************************)
EXTENDS Integers, Sequences, FiniteSets

CONSTANTS
    Writer,     \* tasks that each write one chunk
    Reader,     \* tasks that each read one chunk
    Conn,       \* bound: the connections that can be opened
    Chunks,     \* chunks in the block
    Upload,     \* transfer ids
    MaxIdle,    \* connections kept per destination (8)
    MaxServed,  \* the owner's connection permits (64)
    None        \* no task, connection or transfer id

Task == Writer \cup Reader

ASSUME TcpAssumption ==
    /\ Writer \cap Reader = {}
    /\ None \notin Task \cup Conn \cup Upload
    /\ Chunks \in Nat \ {0}
    /\ MaxIdle \in Nat
    /\ MaxServed \in Nat \ {0}

VARIABLES
    task,   \* task[t]: the relaying daemon's operation t
    pool,   \* its idle connections, the last one is used first
    up,     \* up[c]: what c carries to the owner
    down,   \* down[c]: what c carries back
    open,   \* open[c]: the relaying end of c has not been dropped
    srv,    \* srv[c]: the owner's handler of c
    block,  \* the block at its owner
    lost,   \* the relaying daemon's machine cannot be reached any more
    lock,   \* the connection whose handler holds the block's lock
    copied  \* copied[t]: history, how often t's chunk left or reached the block

stream == <<up, down, open, srv, lost>>
vars == <<task, pool, stream, block, lock, copied>>

Ended == {"ok", "failed"}
TaskState == [pc : {"idle", "connect", "go", "payload", "answer", "bytes"}
                     \cup Ended,
              conn : Conn \cup {None}, chunk : 1..Chunks,
              upload : Upload \cup {None}]

ServerState == [pc : {"none", "request", "lock", "payload", "bytes", "gone"},
                for : Task \cup {None}]

(* "part" is a payload that breaks off: only the end of the stream follows. *)
Frame == [kind : {"request", "payload", "part"}, for : Task]
Answer == [kind : {"ok", "meta", "bytes", "error"}, for : Task]

(* ruined[k]: the bytes of chunk k are not those of its writer. *)
Block == [state : {"Writing", "Ready"}, mapped : BOOLEAN, written : 0..Chunks,
          hash : Seq(1..Chunks), ruined : [1..Chunks -> BOOLEAN],
          upload : Upload \cup {None}]

Idle == {pool[i] : i \in DOMAIN pool}

-----------------------------------------------------------------------------
(* The relaying daemon *)

(* Only a connection whose operation succeeded is kept; the mutant keeps   *)
(* the one of a cancelled operation too.                                   *)
HealthyMutant(result) == TRUE
Healthy(result) == result = "ok"

(* The pool has room for one more; the mutant is off by one. *)
KeepsMutant == Len(pool) <= MaxIdle
Keeps == Len(pool) < MaxIdle

(* release_tcp_data, or the stream is dropped. *)
Finish(t, result) ==
    LET c == task[t].conn
        kept == c # None /\ Healthy(result) /\ Keeps
    IN  /\ task' = [task EXCEPT ![t].pc = result, ![t].conn = None]
        /\ pool' = IF kept THEN Append(pool, c) ELSE pool
        /\ open' = [d \in Conn |-> open[d] /\ (d # c \/ kept)]

Send(c, t, kind) == up' = [up EXCEPT ![c] = Append(@, [kind |-> kind, for |-> t])]

(* write_chunk_to and read_chunk_from begin with their request. *)
Request(t, c) ==
    /\ task' = [task EXCEPT ![t].pc = "go", ![t].conn = c]
    /\ Send(c, t, "request")

(* A chunk operation starts: acquire_tcp_data takes an idle connection, or *)
(* opens one.                                                              *)
Acquire(t) ==
    /\ task[t].pc = "idle"
    /\ \E k \in 1..Chunks, u \in Upload :
         LET asked == [task EXCEPT ![t].chunk = k,
                         ![t].upload = IF t \in Writer THEN u ELSE None]
             c == pool[Len(pool)]
         IN  IF pool # <<>>
             THEN /\ task' = [asked EXCEPT ![t].pc = "go", ![t].conn = c]
                  /\ pool' = SubSeq(pool, 1, Len(pool) - 1)
                  /\ Send(c, t, "request")
             ELSE /\ task' = [asked EXCEPT ![t].pc = "connect"]
                  /\ UNCHANGED <<pool, up>>
    /\ UNCHANGED <<lost, down, open, srv, block, lock, copied>>

Served == {c \in Conn : srv[c].pc \notin {"none", "gone"}}

(* TcpTransport.connect: the owner accepts, if it has a permit left, and   *)
(* both sides authenticate.                                                *)
Connect(t) ==
    /\ task[t].pc = "connect"
    /\ Cardinality(Served) < MaxServed
    /\ \E c \in Conn :
         /\ srv[c].pc = "none"
         /\ srv' = [srv EXCEPT ![c].pc = "request"]
         /\ open' = [open EXCEPT ![c] = TRUE]
         /\ Request(t, c)
    /\ UNCHANGED <<lost, pool, down, block, lock, copied>>

(* The next frame from the owner is taken for the answer to t's request. *)
Hear(t, kinds) ==
    LET c == task[t].conn IN
    /\ down[c] # <<>>
    /\ Head(down[c]).kind \in kinds
    /\ down' = [down EXCEPT ![c] = Tail(@)]

(* The first Response: a writer sends its payload, a reader goes on to the *)
(* bytes.                                                                  *)
HearGo(t) ==
    /\ task[t].pc = "go"
    /\ Hear(t, {"ok", "meta"})
    /\ task' = [task EXCEPT ![t].pc = IF t \in Writer THEN "payload" ELSE "bytes"]
    /\ UNCHANGED <<lost, pool, up, open, srv, block, lock, copied>>

SendPayload(t) ==
    /\ task[t].pc = "payload"
    /\ Send(task[t].conn, t, "payload")
    /\ task' = [task EXCEPT ![t].pc = "answer"]
    /\ UNCHANGED <<lost, pool, down, open, srv, block, lock, copied>>

(* The operation's last answer; the mutant takes a writer's go-ahead for   *)
(* it.                                                                     *)
LastAnswerMutant(t) ==
    \/ task[t].pc = "go" /\ t \in Writer /\ Hear(t, {"ok"})
    \/ task[t].pc = "bytes" /\ Hear(t, {"bytes"})
LastAnswer(t) ==
    \/ task[t].pc = "answer" /\ Hear(t, {"ok", "meta"})
    \/ task[t].pc = "bytes" /\ Hear(t, {"bytes"})

Succeed(t) ==
    /\ LastAnswer(t)
    /\ Finish(t, "ok")
    /\ UNCHANGED <<lost, up, srv, block, lock, copied>>

(* The answer is an error, or cannot be read as what is expected. *)
Refused(t) ==
    /\ \/ task[t].pc \in {"go", "answer"} /\ Hear(t, {"error", "bytes"})
       \/ task[t].pc = "bytes" /\ Hear(t, {"error", "ok", "meta"})
    /\ Finish(t, "failed")
    /\ UNCHANGED <<lost, up, srv, block, lock, copied>>

(* The operation ends early: no connection, the end of the stream, or the  *)
(* relaying handler's deadline, which drops its future and the stream with *)
(* it.  A payload may break off.                                           *)
Cancel(t) ==
    /\ task[t].pc \notin {"idle"} \cup Ended
    /\ Finish(t, "failed")
    /\ \/ UNCHANGED up
       \/ task[t].pc = "payload" /\ Send(task[t].conn, t, "part")
    /\ UNCHANGED <<lost, down, srv, block, lock, copied>>

-----------------------------------------------------------------------------
(* The owner *)

Answers(c, kinds) ==
    down' = [down EXCEPT ![c] = @ \o [i \in DOMAIN kinds |->
                                   [kind |-> kinds[i], for |-> srv[c].for]]]

(* The handler of c returns; the connection and the lock go with it. *)
Hangup(c) ==
    /\ srv' = [srv EXCEPT ![c] = [pc |-> "gone", for |-> None]]
    /\ lock' = IF lock = c THEN None ELSE lock

(* read_frame: the next request, and the Arc of its block. *)
TakeRequest(c) ==
    /\ srv[c].pc = "request"
    /\ up[c] # <<>>
    /\ LET f == Head(up[c]) IN
       \/ /\ f.kind = "request" /\ block.mapped
          /\ srv' = [srv EXCEPT ![c] = [pc |-> "lock", for |-> f.for]]
          /\ UNCHANGED <<down, lock>>
       \/ /\ f.kind # "request" \/ ~block.mapped
          /\ down' = [down EXCEPT ![c] = Append(@, [kind |-> "error",
                                                    for |-> f.for])]
          /\ Hangup(c)
    /\ up' = [up EXCEPT ![c] = Tail(@)]
    /\ UNCHANGED <<lost, task, pool, open, block, copied>>

(* Nothing more will come from the other side. *)
EndOfStream(c) == up[c] = <<>> /\ ~open[c]

(* The block's state and the request agree; the mutant drops the check of  *)
(* the offset.                                                             *)
AdmitsMutant(t) ==
    IF t \in Writer
    THEN block.state = "Writing" /\ block.upload \in {None, task[t].upload}
    ELSE block.state = "Ready"
Admits(t) ==
    IF t \in Writer
    THEN /\ block.state = "Writing"
         /\ block.written = task[t].chunk - 1
         /\ block.upload \in {None, task[t].upload}
    ELSE block.state = "Ready"

(* The handler locks the block and checks the request.  A block that has   *)
(* left the map in the meantime may have an expired lease as well.         *)
LockBlock(c) ==
    /\ srv[c].pc = "lock"
    /\ lock = None
    /\ LET t == srv[c].for IN
       \/ /\ Admits(t)
          /\ Answers(c, IF t \in Writer THEN <<"ok">> ELSE <<"meta">>)
          /\ lock' = c
          /\ srv' = [srv EXCEPT ![c].pc = IF t \in Writer THEN "payload"
                                                          ELSE "bytes"]
       \/ /\ ~Admits(t) \/ ~block.mapped
          /\ Answers(c, <<"error">>)
          /\ Hangup(c)
    /\ UNCHANGED <<lost, task, pool, up, open, block, copied>>

(* The payload goes straight into the block.  A whole one is counted, and  *)
(* hashed, under the same lock.                                            *)
TakePayload(c) ==
    /\ srv[c].pc = "payload"
    /\ up[c] # <<>>
    /\ LET t == srv[c].for
           k == task[t].chunk
           f == Head(up[c])
       IN  \/ /\ f.kind = "payload"
              /\ block' = [block EXCEPT !.written = k,
                                        !.hash = Append(@, k),
                                        !.ruined[k] = f.for # t,
                                        !.upload = task[t].upload]
              /\ copied' = [copied EXCEPT ![t] = @ + 1]
              /\ Answers(c, <<"ok">>)
              /\ srv' = [srv EXCEPT ![c] = [pc |-> "request", for |-> None]]
              /\ lock' = None
           \/ /\ f.kind # "payload"
              /\ block' = [block EXCEPT !.ruined[k] = TRUE]
              /\ Answers(c, <<"error">>)
              /\ Hangup(c)
              /\ UNCHANGED copied
    /\ up' = [up EXCEPT ![c] = Tail(@)]
    /\ UNCHANGED <<lost, task, pool, open>>

SendBytes(c) ==
    /\ srv[c].pc = "bytes"
    /\ Answers(c, <<"bytes">>)
    /\ srv' = [srv EXCEPT ![c] = [pc |-> "request", for |-> None]]
    /\ lock' = None
    /\ copied' = [copied EXCEPT ![srv[c].for] = @ + 1]
    /\ UNCHANGED <<lost, task, pool, up, open, block>>

(* connection reads the end of the stream, also in the middle of a chunk. *)
PeerGone(c) ==
    /\ srv[c].pc \in {"request", "payload"}
    /\ EndOfStream(c)
    /\ Hangup(c)
    /\ UNCHANGED <<lost, task, pool, up, down, open, block, copied>>

(* The deadline covers the whole connection; the mutant's does not run     *)
(* while a payload is awaited.                                             *)
OverdueMutant(c) == srv[c].pc \in {"request", "lock", "bytes"}
Overdue(c) == srv[c].pc \notin {"none", "gone"}

(* Part of the payload may be in the block by then. *)
ServerDeadline(c) ==
    /\ Overdue(c)
    /\ Hangup(c)
    /\ \/ UNCHANGED block
       \/ /\ srv[c].pc = "payload" /\ up[c] # <<>>
          /\ block' = [block EXCEPT !.ruined[task[srv[c].for].chunk] = TRUE]
    /\ UNCHANGED <<lost, task, pool, up, down, open, copied>>

(* Commit: every byte has come, and their digest is the client's. *)
Commit ==
    /\ lock = None
    /\ block.mapped /\ block.state = "Writing"
    /\ block.written = Chunks
    /\ block' = [block EXCEPT !.state = "Ready"]
    /\ UNCHANGED <<task, pool, stream, lock, copied>>

(* Free and expiry take the block from the map; whoever has its Arc goes   *)
(* on.                                                                     *)
LoseBlock ==
    /\ lock = None
    /\ block.mapped
    /\ block' = [block EXCEPT !.mapped = FALSE]
    /\ UNCHANGED <<task, pool, stream, lock, copied>>

(* The relaying daemon's machine loses its power or its network: nothing   *)
(* more comes from it, not even the end of a stream.                       *)
Vanish ==
    /\ lost' = TRUE
    /\ UNCHANGED <<task, pool, up, down, open, srv, block, lock, copied>>

-----------------------------------------------------------------------------
Init ==
    /\ task = [t \in Task |-> [pc |-> "idle", conn |-> None, chunk |-> 1,
                               upload |-> None]]
    /\ pool = <<>>
    /\ up = [c \in Conn |-> <<>>]
    /\ down = [c \in Conn |-> <<>>]
    /\ open = [c \in Conn |-> FALSE]
    /\ srv = [c \in Conn |-> [pc |-> "none", for |-> None]]
    /\ block = [state |-> "Writing", mapped |-> TRUE, written |-> 0,
                hash |-> <<>>, ruined |-> [k \in 1..Chunks |-> FALSE],
                upload |-> None]
    /\ lost = FALSE
    /\ lock = None
    /\ copied = [t \in Task |-> 0]

TaskStep(t) ==
    /\ ~lost
    /\ \/ Connect(t) \/ HearGo(t) \/ SendPayload(t)
       \/ Succeed(t) \/ Refused(t) \/ Cancel(t)

ServerStep(c) ==
    TakeRequest(c) \/ LockBlock(c) \/ TakePayload(c) \/ SendBytes(c)
      \/ PeerGone(c)

Next ==
    \/ \E t \in Task : (~lost /\ Acquire(t)) \/ TaskStep(t)
    \/ ~lost /\ Vanish
    \/ \E c \in Conn : ServerStep(c) \/ ServerDeadline(c)
    \/ Commit \/ LoseBlock

Spec == Init /\ [][Next]_vars

(* Both daemons' schedulers run their tasks and both have deadlines.       *)
(* Nothing is asked of the network.                                        *)
Fairness ==
    /\ \A t \in Task : WF_vars(TaskStep(t))
    /\ \A c \in Conn : WF_vars(ServerStep(c)) /\ WF_vars(ServerDeadline(c))

FairSpec == Spec /\ Fairness

-----------------------------------------------------------------------------
(* Properties *)

(* The variables keep the shapes of the structs and streams they stand for, *)
(* and the pool keeps its bound.                                           *)
TypeOK ==
    /\ task \in [Task -> TaskState]
    /\ pool \in Seq(Conn) /\ Len(pool) <= MaxIdle
    /\ up \in [Conn -> Seq(Frame)]
    /\ down \in [Conn -> Seq(Answer)]
    /\ open \in [Conn -> BOOLEAN]
    /\ lost \in BOOLEAN
    /\ srv \in [Conn -> ServerState]
    /\ block \in Block
    /\ lock \in Conn \cup {None}
    /\ copied \in [Task -> Nat]

(* An operation on a connection that others have used before, cancelled    *)
(* ones included, only ever hears the answers to its own request, though   *)
(* no answer says whose it is.                                             *)
OwnAnswers ==
    /\ \A t \in Task : LET c == task[t].conn IN
         c # None => \A i \in DOMAIN down[c] : down[c][i].for = t
    /\ \A c \in Idle : up[c] = <<>> /\ down[c] = <<>>

(* Whatever breaks off in the middle of a chunk, the bytes the block       *)
(* counts are whole and hashed in their order, so that a Ready block, and  *)
(* every read of it, is what was uploaded.                                 *)
CountedIntact ==
    /\ block.hash = [i \in 1..block.written |-> i]
    /\ \A k \in 1..block.written : ~block.ruined[k]

(* A stalled or vanished peer does not keep the block locked: everybody    *)
(* who waits for it, renewals, frees and migrations included, gets its     *)
(* turn.                                                                   *)
LockReturns == []<>(lock = None)

(* How t ended, as its caller sees it. *)
Outcome(t) == CASE task[t].pc = "ok" -> "ok"
                [] task[t].pc = "failed" -> "failed"
                [] OTHER -> "pending"

Transfer(t) == INSTANCE ChunkTransfer WITH
                   outcome <- Outcome(t), copies <- copied[t]

(* Every chunk operation is a ChunkTransfer: no connection failure copies  *)
(* a chunk twice, and success is only reported for a chunk that was        *)
(* copied.                                                                 *)
IsTransfer ==
    /\ \A t \in Task : Transfer(t)!Init
    /\ [][\A t \in Task : Transfer(t)!Next
                            \/ UNCHANGED <<Outcome(t), copied[t]>>]_vars

=============================================================================
