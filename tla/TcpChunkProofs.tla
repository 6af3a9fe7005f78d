--------------------------- MODULE TcpChunkProofs ----------------------------
(***************************************************************************)
(* Proofs about TcpChunk for any number of writers, readers, connections   *)
(* and chunks, any pool size and any number of permits.                    *)
(*                                                                         *)
(* No frame says which request it belongs to.  What the proofs need is     *)
(* therefore where each conversation stands: which frames are under way    *)
(* on the connection a task holds, as a function of how far the task and   *)
(* the owner's handler have come (Conversation).  A connection that its    *)
(* task has dropped keeps serving what was sent before (ServedOne): the    *)
(* handler must still find its own task's frames there and nobody else's.  *)
(***************************************************************************)
EXTENDS TcpChunk, SequenceTheorems, TLAPS

(* A frame of t's conversation. *)
Msg(t, kind) == [kind |-> kind, for |-> t]

(* A task holds a connection exactly while it is talking. *)
Talking == {"go", "payload", "answer", "bytes"}

Holding ==
    /\ \A t \in Task : task[t].conn # None <=> task[t].pc \in Talking
    /\ \A t \in Task : task[t].pc \in {"payload", "answer"} => t \in Writer
    /\ \A t \in Task : task[t].pc = "bytes" => t \in Reader
    /\ \A t, u \in Task :
         task[t].conn = task[u].conn /\ task[t].conn # None => t = u
    /\ \A t \in Task, i \in DOMAIN pool : task[t].conn # pool[i]
    /\ \A i, j \in DOMAIN pool : pool[i] = pool[j] => i = j

(* What a connection's handler can find on it, whoever still holds it. *)
ServedOne(c) ==
    /\ srv[c].for = None <=> srv[c].pc \in {"none", "request", "gone"}
    /\ srv[c].pc = "none" => up[c] = <<>> /\ down[c] = <<>>
    /\ srv[c].pc = "request" =>
         up[c] = <<>> \/ \E t \in Task : up[c] = <<Msg(t, "request")>>
    /\ srv[c].pc = "lock" => up[c] = <<>>
    /\ srv[c].pc = "payload" =>
         /\ srv[c].for \in Writer
         /\ \/ up[c] = <<>>
            \/ up[c] = <<Msg(srv[c].for, "payload")>>
            \/ up[c] = <<Msg(srv[c].for, "part")>>
         /\ block.written = task[srv[c].for].chunk - 1
    /\ srv[c].pc = "bytes" => srv[c].for \in Reader /\ up[c] = <<>>
    /\ lock = c <=> srv[c].pc \in {"payload", "bytes"}

(* t's request, or the handler working on it, is on c. *)
Pending(t, c) == up[c] = <<Msg(t, "request")>> \/ srv[c].for = t

(* The frames on the connection c that t holds. *)
Waiting(t, c) == srv[c].for = t /\ up[c] = <<>>
Rest(c) == srv[c].pc \in {"request", "gone"} /\ up[c] = <<>>
Unused(c) == Rest(c) /\ down[c] = <<>>

Conversation(t, c) ==
    /\ task[t].pc = "go" =>
         \/ /\ srv[c].pc \in {"request", "gone"}
            /\ up[c] = <<Msg(t, "request")>> /\ down[c] = <<>>
         \/ srv[c].pc = "lock" /\ Waiting(t, c) /\ down[c] = <<>>
         \/ /\ srv[c].pc \in {"payload", "bytes"} /\ Waiting(t, c)
            /\ down[c] = IF t \in Writer THEN <<Msg(t, "ok")>>
                                         ELSE <<Msg(t, "meta")>>
         \/ /\ Rest(c) /\ t \in Reader /\ copied[t] = 1
            /\ down[c] = <<Msg(t, "meta"), Msg(t, "bytes")>>
         \/ /\ srv[c].pc = "gone" /\ up[c] = <<>>
            /\ \/ down[c] = <<>> \/ down[c] = <<Msg(t, "error")>>
               \/ down[c] = <<Msg(t, "ok")>> \/ down[c] = <<Msg(t, "meta")>>
    /\ task[t].pc = "payload" =>
         /\ up[c] = <<>> /\ down[c] = <<>>
         /\ (srv[c].pc = "payload" /\ srv[c].for = t) \/ srv[c].pc = "gone"
    /\ task[t].pc = "answer" =>
         \/ /\ (srv[c].pc = "payload" /\ srv[c].for = t) \/ srv[c].pc = "gone"
            /\ up[c] = <<Msg(t, "payload")>> /\ down[c] = <<>>
         \/ Rest(c) /\ down[c] = <<Msg(t, "ok")>> /\ copied[t] = 1
         \/ srv[c].pc = "gone" /\ up[c] = <<>> /\ down[c] = <<>>
    /\ task[t].pc = "bytes" =>
         \/ srv[c].pc = "bytes" /\ Waiting(t, c) /\ down[c] = <<>>
         \/ Rest(c) /\ down[c] = <<Msg(t, "bytes")>> /\ copied[t] = 1
         \/ srv[c].pc = "gone" /\ up[c] = <<>> /\ down[c] = <<>>

(* Each task asks once. *)
AskedOnce ==
    /\ \A t \in Task : copied[t] \in {0, 1}
    /\ \A t \in Task : task[t].pc \in {"idle", "connect"} => copied[t] = 0
    /\ \A t \in Task : task[t].pc = "ok" => copied[t] = 1
    /\ \A t \in Task, c \in Conn : Pending(t, c) =>
         /\ copied[t] = 0
         /\ task[t].pc \notin {"idle", "connect"}
         /\ task[t].conn # None => task[t].conn = c
         /\ \A d \in Conn : Pending(t, d) => c = d

Conversations ==
    /\ \A c \in Conn : ServedOne(c)
    /\ \A t \in Task, c \in Conn : task[t].conn = c => Conversation(t, c)
    /\ \A c \in Conn, i \in DOMAIN pool : pool[i] = c => Unused(c)

(* The inductive invariant. *)
IInv == TypeOK /\ Holding /\ Conversations /\ AskedOnce /\ CountedIntact

-----------------------------------------------------------------------------
(* Facts about short queues *)

LEMMA Queue ==
    ASSUME NEW x, NEW y
    PROVE  /\ Append(<<>>, x) = <<x>> /\ Append(<<x>>, y) = <<x, y>>
           /\ Head(<<x>>) = x /\ Tail(<<x>>) = <<>>
           /\ Head(<<x, y>>) = x /\ Tail(<<x, y>>) = <<y>>
           /\ <<x>> # <<>> /\ <<x, y>> # <<>> /\ <<x>> # <<x, y>>
           /\ <<x>> = <<y>> => x = y
<1>1. Append(<<>>, x) = <<x>>
  OBVIOUS
<1>2. Append(<<x>>, y) = <<x, y>>
  <2> DEFINE a == Append(<<x>>, y)
  <2>1. a \in Seq({x, y}) /\ Len(a) = 2 /\ a[1] = x /\ a[2] = y
    OBVIOUS
  <2>2. <<x, y>> \in Seq({x, y}) /\ Len(<<x, y>>) = 2
    OBVIOUS
  <2> HIDE DEF a
  <2>3. \A i \in 1..2 : a[i] = <<x, y>>[i]
    BY <2>1
  <2> QED BY <2>1, <2>2, <2>3, SeqEqual DEF a
<1>3. Head(<<x>>) = x
  OBVIOUS
<1>4. Tail(<<x>>) = <<>>
  OBVIOUS
<1>5. Head(<<x, y>>) = x
  OBVIOUS
<1>6. Tail(<<x, y>>) = <<y>>
  OBVIOUS
<1>7. <<x>> # <<>> /\ <<x, y>> # <<>>
  OBVIOUS
<1>8. <<x>> # <<x, y>>
  OBVIOUS
<1>9. <<x>> = <<y>> => x = y
  OBVIOUS
<1> QED BY <1>1, <1>2, <1>3, <1>4, <1>5, <1>6, <1>7, <1>8, <1>9

LEMMA Frames ==
    ASSUME NEW t, NEW u, NEW k, NEW l
    PROVE  /\ Msg(t, k).kind = k /\ Msg(t, k).for = t
           /\ Msg(t, k) = Msg(u, l) => t = u /\ k = l
BY DEF Msg

(* One answer of the handler of c. *)
LEMMA AnswersOne ==
    ASSUME TypeOK, NEW c \in Conn, NEW k \in {"ok", "meta", "bytes", "error"},
           srv[c].for \in Task, Answers(c, <<k>>)
    PROVE  /\ down' = [down EXCEPT ![c] = Append(@, Msg(srv[c].for, k))]
           /\ Msg(srv[c].for, k) \in Answer
<1> DEFINE m == Msg(srv[c].for, k)
<1>1. m \in Answer
  BY DEF Answer, Msg
<1>2. [i \in DOMAIN <<k>> |-> [kind |-> <<k>>[i], for |-> srv[c].for]] = <<m>>
  <2> DEFINE f == [i \in DOMAIN <<k>> |-> [kind |-> <<k>>[i], for |-> srv[c].for]]
  <2>1. f = [i \in 1..1 |-> m]
    BY DEF Msg
  <2>2. <<m>> = [i \in 1..1 |-> m]
    OBVIOUS
  <2> QED BY <2>1, <2>2
<1>3. down[c] \in Seq(Answer)
  BY DEF TypeOK
<1>4. Append(down[c], m) = down[c] \o <<m>>
  BY <1>1, <1>3, AppendIsConcat
<1> QED BY <1>1, <1>2, <1>4 DEF Answers

LEMMA MsgType ==
    ASSUME NEW t \in Task
    PROVE  /\ \A k \in {"request", "payload", "part"} : Msg(t, k) \in Frame
           /\ \A k \in {"ok", "meta", "bytes", "error"} : Msg(t, k) \in Answer
BY DEF Msg, Frame, Answer

LEMMA TailType ==
    ASSUME NEW S, NEW s \in Seq(S), s # <<>>
    PROVE  Head(s) \in S /\ Tail(s) \in Seq(S)
BY HeadTailProperties

LEMMA NoneOut == /\ None \notin Task /\ None \notin Conn /\ None \notin Upload
                 /\ \A t \in Task : t # None
                 /\ \A c \in Conn : c # None
BY TcpAssumption

-----------------------------------------------------------------------------
(* What each action leaves alone, and what it makes of the task *)

LEMMA FinishEffect ==
    ASSUME TypeOK, NEW t \in Task, NEW r \in Ended, Finish(t, r)
    PROVE  /\ task' \in [Task -> TaskState]
           /\ task'[t].pc = r /\ task'[t].conn = None
           /\ task'[t].chunk = task[t].chunk
           /\ \A u \in Task \ {t} : task'[u] = task[u]
           /\ open' \in [Conn -> BOOLEAN]
           /\ pool' \in Seq(Conn) /\ Len(pool') <= MaxIdle
           /\ \/ pool' = pool
              \/ /\ task[t].conn # None /\ r = "ok"
                 /\ pool' = Append(pool, task[t].conn)
<1>1. task' = [task EXCEPT ![t].pc = r, ![t].conn = None]
  BY DEF Finish
<1>2. /\ task'[t].pc = r /\ task'[t].conn = None
      /\ task'[t].chunk = task[t].chunk
      /\ \A u \in Task \ {t} : task'[u] = task[u]
      /\ task' \in [Task -> TaskState]
  BY ZenonT(60), <1>1 DEF TypeOK, TaskState, Ended
<1>3. open' \in [Conn -> BOOLEAN]
  BY DEF Finish, TypeOK
<1>4. CASE pool' = pool
  BY <1>2, <1>3, <1>4 DEF TypeOK
<1>5. CASE pool' # pool
  <2>1. /\ task[t].conn # None /\ r = "ok" /\ Len(pool) < MaxIdle
        /\ pool' = Append(pool, task[t].conn)
    BY <1>5 DEF Finish, Healthy, Keeps
  <2>2. task[t].conn \in Conn /\ pool \in Seq(Conn)
    BY <2>1 DEF TypeOK, TaskState
  <2>3. pool' \in Seq(Conn) /\ Len(pool') = Len(pool) + 1
    BY <2>1, <2>2, AppendProperties
  <2>4. Len(pool') <= MaxIdle
    <3>1. Len(pool) \in Nat
      BY <2>2
    <3> QED BY <2>1, <2>3, <3>1, TcpAssumption
  <2> QED BY <1>2, <1>3, <2>1, <2>3, <2>4
<1> QED BY <1>4, <1>5

LEMMA TaskMoved ==
    ASSUME TypeOK, NEW t \in Task, NEW p \in Talking,
           NEW c \in Conn \cup {None},
           task' = [task EXCEPT ![t].pc = p, ![t].conn = c]
    PROVE  /\ task' \in [Task -> TaskState]
           /\ task'[t].pc = p /\ task'[t].conn = c
           /\ task'[t].chunk = task[t].chunk
           /\ \A u \in Task \ {t} : task'[u] = task[u]
BY DEF TypeOK, TaskState, Talking

LEMMA TaskStays ==
    ASSUME TypeOK, NEW t \in Task, NEW p \in Talking,
           task' = [task EXCEPT ![t].pc = p]
    PROVE  /\ task' \in [Task -> TaskState]
           /\ task'[t].pc = p /\ task'[t].conn = task[t].conn
           /\ task'[t].chunk = task[t].chunk
           /\ \A u \in Task \ {t} : task'[u] = task[u]
BY DEF TypeOK, TaskState, Talking

LEMMA SendEffect ==
    ASSUME TypeOK, NEW c \in Conn, NEW t \in Task,
           NEW k \in {"request", "payload", "part"}, Send(c, t, k)
    PROVE  /\ up' \in [Conn -> Seq(Frame)]
           /\ up'[c] = Append(up[c], Msg(t, k))
           /\ \A d \in Conn \ {c} : up'[d] = up[d]
<1>1. Msg(t, k) \in Frame
  BY MsgType
<1>2. up' = [up EXCEPT ![c] = Append(@, Msg(t, k))]
  BY DEF Send, Msg
<1>3. up[c] \in Seq(Frame)
  BY DEF TypeOK
<1>4. Append(up[c], Msg(t, k)) \in Seq(Frame)
  BY <1>1, <1>3, AppendProperties
<1> QED BY <1>2, <1>4 DEF TypeOK

-----------------------------------------------------------------------------
(* What a step on one connection leaves alone *)

LEMMA ServedSame ==
    ASSUME NEW d \in Conn, ServedOne(d), up'[d] = up[d], down'[d] = down[d],
           srv'[d] = srv[d], lock' = d <=> lock = d,
           srv[d].pc = "payload" =>
             /\ block'.written = block.written
             /\ task'[srv[d].for].chunk = task[srv[d].for].chunk
    PROVE  ServedOne(d)'
BY DEF ServedOne

LEMMA TalkSame ==
    ASSUME NEW u \in Task, NEW d \in Conn, Conversation(u, d),
           task'[u].pc = task[u].pc, up'[d] = up[d], down'[d] = down[d],
           srv'[d] = srv[d], copied'[u] = copied[u]
    PROVE  Conversation(u, d)'
BY DEF Conversation, Waiting, Rest

(* A step of the handler of c. *)
LEMMA ServerFrame ==
    ASSUME IInv, NEW c \in Conn, task' = task, pool' = pool,
           \A d \in Conn \ {c} :
             /\ up'[d] = up[d] /\ down'[d] = down[d] /\ srv'[d] = srv[d]
             /\ lock' = d <=> lock = d
             /\ srv[d].pc = "payload" => block'.written = block.written,
           \A u \in Task :
             copied'[u] = copied[u] \/ (srv[c].for = u /\ copied'[u] = 1),
           ServedOne(c)',
           \A u \in Task : task[u].conn = c => Conversation(u, c)',
           \A j \in DOMAIN pool : pool[j] = c => Unused(c)',
           \A u \in Task :
             Pending(u, c)' => Pending(u, c) /\ copied'[u] = copied[u]
    PROVE  Holding' /\ Conversations' /\ AskedOnce'
<1>1. Holding'
  BY DEF IInv, Holding
<1>2. \A d \in Conn : ServedOne(d)'
  <2> SUFFICES ASSUME NEW d \in Conn, d # c PROVE ServedOne(d)'
    OBVIOUS
  <2>1. ServedOne(d)
    BY DEF IInv, Conversations
  <2> QED BY <2>1, ServedSame
<1>3. \A u \in Task, d \in Conn : task'[u].conn = d => Conversation(u, d)'
  <2> SUFFICES ASSUME NEW u \in Task, NEW d \in Conn, task[u].conn = d, d # c
               PROVE  Conversation(u, d)'
    OBVIOUS
  <2>1. Conversation(u, d) /\ task[u].conn # None
    BY NoneOut DEF IInv, Conversations
  <2>2. copied'[u] = copied[u]
    BY <2>1 DEF IInv, AskedOnce, Pending
  <2> QED BY <2>1, <2>2, TalkSame
<1>4. \A d \in Conn, j \in DOMAIN pool' : pool'[j] = d => Unused(d)'
  BY DEF IInv, Conversations, Unused, Rest
<1>5. AskedOnce'
  <2>1. \A u \in Task, d \in Conn \ {c} : Pending(u, d)' <=> Pending(u, d)
    BY DEF Pending
  <2>2. \A u \in Task : copied'[u] \in {0, 1}
    BY DEF IInv, AskedOnce
  <2>3. \A u \in Task : srv[c].for = u => Pending(u, c)
    BY DEF Pending
  <2>4. ASSUME NEW u \in Task, NEW d \in Conn, Pending(u, d)'
        PROVE  Pending(u, d) /\ copied'[u] = copied[u]
    <3>1. CASE d = c
      BY <2>4, <3>1
    <3>2. CASE d # c
      <4>1. Pending(u, d)
        BY <2>1, <2>4, <3>2
      <4>2. ~Pending(u, c)
        BY <4>1, <3>2 DEF IInv, AskedOnce
      <4> QED BY <4>1, <4>2, <2>3
    <3> QED BY <3>1, <3>2
  <2>5. \A u \in Task : /\ task[u].pc \in {"idle", "connect"} => copied'[u] = 0
                        /\ task[u].pc = "ok" => copied'[u] = 1
    BY <2>3 DEF IInv, AskedOnce
  <2>6. \A u \in Task, d \in Conn : Pending(u, d)' =>
          /\ copied'[u] = 0
          /\ task[u].pc \notin {"idle", "connect"}
          /\ task[u].conn # None => task[u].conn = d
          /\ \A e \in Conn : Pending(u, e)' => d = e
    <3> SUFFICES ASSUME NEW u \in Task, NEW d \in Conn, Pending(u, d)'
                 PROVE  /\ copied'[u] = 0
                        /\ task[u].pc \notin {"idle", "connect"}
                        /\ task[u].conn # None => task[u].conn = d
                        /\ \A e \in Conn : Pending(u, e)' => d = e
      OBVIOUS
    <3>1. Pending(u, d) /\ copied'[u] = copied[u]
      BY <2>4
    <3>2. \A e \in Conn : Pending(u, e)' => Pending(u, e)
      BY <2>4
    <3> QED BY <3>1, <3>2 DEF IInv, AskedOnce
  <2> QED BY <2>2, <2>5, <2>6 DEF AskedOnce
<1> QED BY <1>1, <1>2, <1>3, <1>4, <1>5 DEF Conversations

(* A step of t that touches no other connection than c. *)
LEMMA TaskFrame ==
    ASSUME IInv, NEW t \in Task, NEW c \in Conn \cup {None},
           \A u \in Task \ {t} : task'[u] = task[u],
           c \in Conn => \A u \in Task \ {t} : task[u].conn # c,
           task[t].pc # "idle" => task'[t].chunk = task[t].chunk,
           \A d \in Conn \ {c} :
             up'[d] = up[d] /\ down'[d] = down[d] /\ srv'[d] = srv[d],
           block' = block, lock' = lock, copied' = copied,
           task'[t].conn \in {c, None},
           task'[t].conn # None =>
             task[t].conn = c \/ task[t].pc \in {"idle", "connect"},
           task'[t].pc \in {"idle", "connect"} =>
             task[t].pc \in {"idle", "connect"},
           task'[t].pc = "ok" => copied[t] = 1,
           c \in Conn =>
             /\ ServedOne(c)'
             /\ task'[t].conn = c => Conversation(t, c)'
             /\ \A u \in Task : Pending(u, c)' =>
                  \/ Pending(u, c)
                  \/ /\ u = t /\ task[t].pc \in {"idle", "connect"}
                     /\ task'[t].pc \notin {"idle", "connect"},
           \A d \in Conn, j \in DOMAIN pool' : pool'[j] = d => Unused(d)'
    PROVE  Conversations' /\ AskedOnce'
<1> USE NoneOut
<1>1. \A d \in Conn : ServedOne(d)'
  <2> SUFFICES ASSUME NEW d \in Conn, d # c PROVE ServedOne(d)'
    OBVIOUS
  <2>1. ServedOne(d)
    BY DEF IInv, Conversations
  <2>2. ASSUME srv[d].pc = "payload"
        PROVE  task'[srv[d].for].chunk = task[srv[d].for].chunk
    <3>1. srv[d].for \in Task
      BY <2>1, <2>2 DEF ServedOne, Task
    <3>2. srv[d].for = t => task[t].pc # "idle"
      BY <3>1 DEF IInv, AskedOnce, Pending
    <3> QED BY <3>1, <3>2
  <2> QED BY <2>1, <2>2, ServedSame
<1>2. \A u \in Task, d \in Conn : task'[u].conn = d => Conversation(u, d)'
  <2>1. \A d \in Conn : task'[t].conn = d => Conversation(t, d)'
    OBVIOUS
  <2>2. ASSUME NEW u \in Task \ {t}, NEW d \in Conn, task[u].conn = d
        PROVE  Conversation(u, d)'
    <3>1. Conversation(u, d)
      BY <2>2 DEF IInv, Conversations
    <3> QED BY <2>2, <3>1, TalkSame
  <2> QED BY <2>1, <2>2
<1>3. AskedOnce'
  <2>1. \A u \in Task, d \in Conn \ {c} : Pending(u, d)' <=> Pending(u, d)
    BY DEF Pending
  <2>2. \A u \in Task, d \in Conn : Pending(u, d)' =>
          \/ Pending(u, d)
          \/ /\ d = c /\ u = t /\ task[t].pc \in {"idle", "connect"}
             /\ task'[t].pc \notin {"idle", "connect"}
    BY <2>1
  <2>3. \A u \in Task : /\ copied[u] \in {0, 1}
                        /\ task'[u].pc \in {"idle", "connect"} => copied[u] = 0
                        /\ task'[u].pc = "ok" => copied[u] = 1
    BY DEF IInv, AskedOnce
  <2>4. ASSUME NEW u \in Task, NEW d \in Conn, Pending(u, d)'
        PROVE  /\ copied[u] = 0
               /\ task'[u].pc \notin {"idle", "connect"}
               /\ task'[u].conn # None => task'[u].conn = d
               /\ \A e \in Conn : Pending(u, e)' => d = e
    <3>1. CASE Pending(u, d)
      <4>1. /\ copied[u] = 0 /\ task[u].pc \notin {"idle", "connect"}
            /\ task[u].conn # None => task[u].conn = d
            /\ \A e \in Conn : Pending(u, e) => d = e
        BY <3>1 DEF IInv, AskedOnce
      <4> QED BY <4>1, <2>2
    <3>2. CASE ~Pending(u, d)
      <4>1. /\ d = c /\ u = t /\ task[t].pc \in {"idle", "connect"}
            /\ task'[t].pc \notin {"idle", "connect"}
        BY <2>2, <2>4, <3>2
      <4>2. \A e \in Conn : ~Pending(t, e)
        BY <4>1 DEF IInv, AskedOnce
      <4>3. copied[t] = 0
        BY <4>1 DEF IInv, AskedOnce
      <4> QED BY <4>1, <4>2, <4>3, <2>2
    <3> QED BY <3>1, <3>2
  <2> QED BY <2>3, <2>4 DEF AskedOnce
<1> QED BY <1>1, <1>2, <1>3 DEF Conversations

-----------------------------------------------------------------------------
(* The relaying daemon's steps keep the invariant *)

LEMMA PoolPop ==
    ASSUME NEW p \in Seq(Conn), p # <<>>
    PROVE  /\ Len(p) \in DOMAIN p /\ p[Len(p)] \in Conn
           /\ SubSeq(p, 1, Len(p) - 1) \in Seq(Conn)
           /\ Len(SubSeq(p, 1, Len(p) - 1)) <= Len(p)
           /\ \A j \in DOMAIN SubSeq(p, 1, Len(p) - 1) :
                /\ j \in DOMAIN p /\ j # Len(p)
                /\ SubSeq(p, 1, Len(p) - 1)[j] = p[j]
<1>1. Len(p) \in Nat /\ Len(p) >= 1 /\ DOMAIN p = 1..Len(p)
  BY EmptySeq, LenProperties
<1> DEFINE q == SubSeq(p, 1, Len(p) - 1)
<1>2. /\ q \in Seq(Conn) /\ Len(q) = Len(p) - 1
      /\ \A j \in 1..Len(q) : q[j] = p[j]
  BY <1>1
<1>3. DOMAIN q = 1..(Len(p) - 1)
  BY <1>2
<1> HIDE DEF q
<1>4. \A j \in DOMAIN q : j \in DOMAIN p /\ j # Len(p) /\ q[j] = p[j]
  BY <1>1, <1>2, <1>3
<1>5. p[Len(p)] \in Conn /\ Len(p) \in DOMAIN p
  BY <1>1
<1> QED BY <1>1, <1>2, <1>4, <1>5 DEF q

LEMMA PoolPush ==
    ASSUME NEW p \in Seq(Conn), NEW c \in Conn
    PROVE  \A j \in DOMAIN Append(p, c) :
             \/ j \in DOMAIN p /\ Append(p, c)[j] = p[j]
             \/ j = Len(p) + 1 /\ j \notin DOMAIN p /\ Append(p, c)[j] = c
<1>1. Len(p) \in Nat /\ DOMAIN p = 1..Len(p)
  BY LenProperties
<1>2. DOMAIN Append(p, c) = 1..(Len(p) + 1)
  BY <1>1, AppendProperties, LenProperties
<1> QED BY <1>1, <1>2, AppendProperties

(* Holding, when t keeps its connection or takes one that nobody holds. *)
LEMMA HoldingKept ==
    ASSUME IInv, NEW t \in Task,
           \A u \in Task \ {t} : task'[u] = task[u],
           task'[t].conn # None <=> task'[t].pc \in Talking,
           task'[t].pc \in {"payload", "answer"} => t \in Writer,
           task'[t].pc = "bytes" => t \in Reader,
           \/ task'[t].conn = task[t].conn
           \/ task'[t].conn = None
           \/ \A u \in Task \ {t} : task[u].conn # task'[t].conn,
           \A j \in DOMAIN pool' :
             /\ j \in DOMAIN pool /\ pool'[j] = pool[j]
             /\ pool[j] # task'[t].conn
    PROVE  Holding'
BY DEF IInv, Holding

LEMMA AcquireKeeps ==
    ASSUME IInv, NEW t \in Task, Acquire(t)
    PROVE  /\ IInv'
           /\ task'[t].pc \in {"go", "connect"}
           /\ \A v \in Task \ {t} : task'[v] = task[v]
<1> USE NoneOut
<1>1. PICK k \in 1..Chunks, u \in Upload :
        LET asked == [task EXCEPT ![t].chunk = k,
                        ![t].upload = IF t \in Writer THEN u ELSE None]
            c == pool[Len(pool)]
        IN  IF pool # <<>>
            THEN /\ task' = [asked EXCEPT ![t].pc = "go", ![t].conn = c]
                 /\ pool' = SubSeq(pool, 1, Len(pool) - 1)
                 /\ Send(c, t, "request")
            ELSE /\ task' = [asked EXCEPT ![t].pc = "connect"]
                 /\ UNCHANGED <<pool, up>>
  BY DEF Acquire
<1>2. /\ lost' = lost /\ down' = down /\ open' = open /\ srv' = srv
      /\ block' = block /\ lock' = lock /\ copied' = copied
      /\ task[t].pc = "idle" /\ task[t].conn = None
  BY DEF Acquire, IInv, Holding, Talking
<1>3. TypeOK
  BY DEF IInv
<1>4. CountedIntact'
  BY <1>2 DEF IInv, CountedIntact
<1>5. CASE pool # <<>>
  <2>1. PICK c \in Conn : c = pool[Len(pool)]
    BY <1>3, <1>5, PoolPop DEF TypeOK
  <2>2. /\ pool' = SubSeq(pool, 1, Len(pool) - 1)
        /\ Send(c, t, "request")
    BY <1>1, <1>5, <2>1
  <2>3. /\ task' \in [Task -> TaskState]
        /\ task'[t].pc = "go" /\ task'[t].conn = c
        /\ \A v \in Task \ {t} : task'[v] = task[v]
    <3>1. task' = [task EXCEPT ![t] = [pc |-> "go", conn |-> c, chunk |-> k,
                                 upload |-> IF t \in Writer THEN u ELSE None]]
      BY <1>1, <1>3, <1>5, <2>1 DEF TypeOK, TaskState
    <3> QED BY <1>3, <3>1 DEF TypeOK, TaskState
  <2>0. /\ Len(pool) \in DOMAIN pool
         /\ pool' \in Seq(Conn) /\ Len(pool') <= Len(pool)
         /\ \A j \in DOMAIN pool' :
              j \in DOMAIN pool /\ j # Len(pool) /\ pool'[j] = pool[j]
    <3>1. pool \in Seq(Conn)
      BY <1>3 DEF TypeOK
    <3> QED BY <1>5, <2>2, <3>1, PoolPop
  <2>4. Unused(c) /\ \A v \in Task : task[v].conn # c
    BY <2>1, <2>0 DEF IInv, Conversations, Holding
  <2>5. /\ up' \in [Conn -> Seq(Frame)] /\ up'[c] = <<Msg(t, "request")>>
        /\ \A d \in Conn \ {c} : up'[d] = up[d]
    <3>1. up[c] = <<>>
      BY <2>4 DEF Unused, Rest
    <3> QED BY <1>3, <2>2, <3>1, SendEffect, Queue
  <2>6. \A j \in DOMAIN pool' : pool'[j] # c
    BY <2>1, <2>0 DEF IInv, Holding
  <2>7. TypeOK'
    <3>1. Len(pool') <= MaxIdle
      BY <1>3, <2>0, LenProperties, TcpAssumption DEF TypeOK
    <3> QED BY <1>2, <1>3, <2>0, <2>3, <2>5, <3>1 DEF TypeOK
  <2>8. Holding'
    <3>1. \A j \in DOMAIN pool' :
            j \in DOMAIN pool /\ pool'[j] = pool[j] /\ pool[j] # task'[t].conn
      BY <2>0, <2>3, <2>6
    <3> QED BY <2>1, <2>3, <2>4, <3>1, HoldingKept DEF Talking
  <2>9. ServedOne(c)' /\ Conversation(t, c)'
    BY <1>2, <2>1, <2>3, <2>4, <2>5
       DEF IInv, Conversations, ServedOne, Conversation, Unused, Rest
  <2>10. \A v \in Task : Pending(v, c)' => v = t
    BY <1>2, <2>1, <2>4, <2>5, Queue, Frames
       DEF IInv, Conversations, ServedOne, Pending, Unused, Rest
  <2>11. \A d \in Conn, j \in DOMAIN pool' : pool'[j] = d => Unused(d)'
    BY <1>2, <2>0, <2>5, <2>6 DEF IInv, Conversations, Unused, Rest
  <2>12. Conversations' /\ AskedOnce'
    BY <1>2, <2>1, <2>3, <2>4, <2>5, <2>9, <2>10, <2>11, TaskFrame
  <2> QED BY <1>4, <2>3, <2>7, <2>8, <2>12 DEF IInv
<1>6. CASE pool = <<>>
  <2>1. pool' = pool /\ up' = up
    BY <1>1, <1>6
  <2>2. /\ task' \in [Task -> TaskState]
        /\ task'[t].pc = "connect" /\ task'[t].conn = None
        /\ \A v \in Task \ {t} : task'[v] = task[v]
    <3>1. task' = [task EXCEPT ![t] =
                     [pc |-> "connect", conn |-> None, chunk |-> k,
                      upload |-> IF t \in Writer THEN u ELSE None]]
      BY <1>1, <1>2, <1>3, <1>6 DEF TypeOK, TaskState
    <3> QED BY <1>3, <3>1 DEF TypeOK, TaskState
  <2>3. TypeOK'
    BY <1>2, <1>3, <2>1, <2>2 DEF TypeOK
  <2>4. Holding'
    BY <1>6, <2>1, <2>2, HoldingKept DEF Talking
  <2>6. \A d \in Conn, j \in DOMAIN pool' : pool'[j] = d => Unused(d)'
    BY <1>2, <2>1 DEF IInv, Conversations, Unused, Rest
  <2>7. Conversations' /\ AskedOnce'
    BY <1>2, <2>1, <2>2, <2>6, TaskFrame
  <2> QED BY <1>4, <2>2, <2>3, <2>4, <2>7 DEF IInv
<1> QED BY <1>5, <1>6

LEMMA ConnectKeeps ==
    ASSUME IInv, NEW t \in Task, Connect(t)
    PROVE  IInv'
<1> USE NoneOut
<1>1. PICK c \in Conn :
        /\ srv[c].pc = "none"
        /\ srv' = [srv EXCEPT ![c].pc = "request"]
        /\ open' = [open EXCEPT ![c] = TRUE]
        /\ Request(t, c)
  BY DEF Connect
<1>2. /\ lost' = lost /\ down' = down /\ pool' = pool
      /\ block' = block /\ lock' = lock /\ copied' = copied
      /\ task[t].pc = "connect" /\ task[t].conn = None
  BY DEF Connect, IInv, Holding, Talking
<1>3. TypeOK /\ CountedIntact'
  BY <1>2 DEF IInv, CountedIntact
<1>4. /\ task' \in [Task -> TaskState]
      /\ task'[t].pc = "go" /\ task'[t].conn = c
      /\ task'[t].chunk = task[t].chunk
      /\ \A v \in Task \ {t} : task'[v] = task[v]
  BY <1>1, <1>3, TaskMoved DEF Request, Talking
<1>5. /\ up[c] = <<>> /\ down[c] = <<>> /\ srv[c].for = None /\ lock # c
      /\ \A v \in Task : task[v].conn # c
      /\ \A j \in DOMAIN pool : pool[j] # c
  <2>1. ServedOne(c)
    BY DEF IInv, Conversations
  <2>2. \A v \in Task : task[v].conn # c
    BY ZenonT(60), <1>1, <2>1
       DEF IInv, Conversations, Holding, Talking, Conversation, Waiting, Rest
  <2>3. \A j \in DOMAIN pool : pool[j] # c
    BY <1>1 DEF IInv, Conversations, Unused, Rest
  <2> QED BY <1>1, <2>1, <2>2, <2>3 DEF ServedOne
<1>6. /\ up' \in [Conn -> Seq(Frame)] /\ up'[c] = <<Msg(t, "request")>>
      /\ \A d \in Conn \ {c} : up'[d] = up[d]
  BY <1>1, <1>3, <1>5, SendEffect, Queue DEF Request
<1>7. /\ srv' \in [Conn -> ServerState]
      /\ srv'[c].pc = "request" /\ srv'[c].for = None
      /\ \A d \in Conn \ {c} : srv'[d] = srv[d]
  BY <1>1, <1>3, <1>5 DEF TypeOK, ServerState
<1>8. TypeOK'
  BY <1>1, <1>2, <1>3, <1>4, <1>6, <1>7 DEF TypeOK
<1>9. Holding'
  BY <1>2, <1>4, <1>5, HoldingKept DEF Talking
<1>10. ServedOne(c)' /\ Conversation(t, c)'
  BY <1>2, <1>4, <1>5, <1>6, <1>7 DEF ServedOne, Conversation
<1>11. \A v \in Task : Pending(v, c)' => v = t
  BY <1>6, <1>7, Queue, Frames DEF Pending
<1>12. \A d \in Conn, j \in DOMAIN pool' : pool'[j] = d => Unused(d)'
  BY <1>2, <1>5, <1>6, <1>7 DEF IInv, Conversations, Unused, Rest
<1>13. Conversations' /\ AskedOnce'
  BY <1>2, <1>4, <1>5, <1>6, <1>7, <1>10, <1>11, <1>12, TaskFrame
<1> QED BY <1>3, <1>8, <1>9, <1>13 DEF IInv

(* What t finds when it hears from its connection. *)
LEMMA HearEffect ==
    ASSUME IInv, NEW t \in Task, task[t].pc \in Talking, NEW K, Hear(t, K)
    PROVE  \E c \in Conn :
             /\ c = task[t].conn
             /\ down' \in [Conn -> Seq(Answer)]
             /\ down[c] # <<>> /\ Head(down[c]).kind \in K
             /\ down'[c] = Tail(down[c])
             /\ \A d \in Conn \ {c} : down'[d] = down[d]
             /\ Conversation(t, c) /\ ServedOne(c)
             /\ \A u \in Task \ {t} : task[u].conn # c
             /\ \A j \in DOMAIN pool : pool[j] # c
<1>1. TypeOK
  BY DEF IInv
<1>2. task[t].conn \in Conn
  BY <1>1 DEF IInv, Holding, TypeOK, TaskState
<1>3. PICK c \in Conn : c = task[t].conn
  BY <1>2
<1>4. /\ down[c] # <<>> /\ Head(down[c]).kind \in K
      /\ down' = [down EXCEPT ![c] = Tail(@)]
  BY <1>3 DEF Hear
<1>5. down[c] \in Seq(Answer)
  BY <1>1 DEF TypeOK
<1>6. Tail(down[c]) \in Seq(Answer)
  BY <1>4, <1>5, TailType
<1>7. Conversation(t, c) /\ ServedOne(c)
  BY <1>3 DEF IInv, Conversations
<1>8. /\ \A u \in Task \ {t} : task[u].conn # c
      /\ \A j \in DOMAIN pool : pool[j] # c
  BY <1>3, NoneOut DEF IInv, Holding
<1> QED BY <1>1, <1>3, <1>4, <1>6, <1>7, <1>8 DEF TypeOK

LEMMA HearGoKeeps ==
    ASSUME IInv, NEW t \in Task, HearGo(t)
    PROVE  IInv'
<1> USE NoneOut
<1>1. /\ task[t].pc = "go" /\ task[t].pc \in Talking
      /\ Hear(t, {"ok", "meta"})
      /\ lost' = lost /\ up' = up /\ pool' = pool /\ open' = open /\ srv' = srv
      /\ block' = block /\ lock' = lock /\ copied' = copied
  BY DEF HearGo, Talking
<1>2. PICK c \in Conn :
        /\ c = task[t].conn
        /\ down' \in [Conn -> Seq(Answer)]
        /\ down[c] # <<>> /\ Head(down[c]).kind \in {"ok", "meta"}
        /\ down'[c] = Tail(down[c])
        /\ \A d \in Conn \ {c} : down'[d] = down[d]
        /\ Conversation(t, c) /\ ServedOne(c)
        /\ \A u \in Task \ {t} : task[u].conn # c
        /\ \A j \in DOMAIN pool : pool[j] # c
  BY <1>1, HearEffect
<1>3. TypeOK /\ CountedIntact'
  BY <1>1 DEF IInv, CountedIntact
<1>4. /\ task' \in [Task -> TaskState]
      /\ task'[t].pc = IF t \in Writer THEN "payload" ELSE "bytes"
      /\ task'[t].conn = c /\ task'[t].chunk = task[t].chunk
      /\ \A v \in Task \ {t} : task'[v] = task[v]
  <2> DEFINE p == IF t \in Writer THEN "payload" ELSE "bytes"
  <2>1. task' = [task EXCEPT ![t].pc = p] /\ p \in Talking
    BY DEF HearGo, Talking
  <2> HIDE DEF p
  <2> QED BY ZenonT(60), <1>2, <1>3, <2>1, TaskStays DEF p
<1>5. TypeOK'
  BY <1>1, <1>2, <1>3, <1>4 DEF TypeOK
<1>6. Holding'
  BY <1>1, <1>2, <1>4, HoldingKept DEF Talking, Task
<1>7. ServedOne(c)'
  <2>1. ServedOne(c) /\ srv[c].pc # "none"
    BY <1>1, <1>2 DEF ServedOne
  <2>2. srv[c].pc = "payload" =>
          task'[srv[c].for].chunk = task[srv[c].for].chunk
    BY <1>4, <2>1 DEF ServedOne, Task
  <2> QED BY <1>1, <2>1, <2>2 DEF ServedOne
<1>8. Conversation(t, c)'
  <2>1. \/ /\ srv[c].pc \in {"payload", "bytes"} /\ Waiting(t, c)
           /\ down'[c] = <<>>
        \/ /\ Rest(c) /\ t \in Reader /\ copied[t] = 1
           /\ down'[c] = <<Msg(t, "bytes")>>
        \/ srv[c].pc = "gone" /\ up[c] = <<>> /\ down'[c] = <<>>
    <3> DEFINE a == Msg(t, "ok")
               b == Msg(t, "meta")
               e == Msg(t, "error")
               y == Msg(t, "bytes")
    <3>1. /\ Tail(<<a>>) = <<>> /\ Tail(<<b>>) = <<>>
          /\ Tail(<<b, y>>) = <<y>> /\ Head(<<e>>).kind = "error"
      BY Queue, Frames
    <3>2. Conversation(t, c) /\ task[t].pc = "go"
      BY <1>1, <1>2
    <3> HIDE DEF a, b, e, y
    <3> QED BY <1>2, <3>1, <3>2 DEF Conversation, a, b, e, y
  <2>2. Waiting(t, c) =>
          /\ srv[c].pc = "payload" => t \in Writer
          /\ srv[c].pc = "bytes" => t \in Reader
    BY <1>2 DEF ServedOne, Waiting
  <2>3. t \in Writer => t \notin Reader
    BY TcpAssumption
  <2> QED BY <1>1, <1>4, <2>1, <2>2, <2>3 DEF Conversation, Waiting, Rest
<1>9. \A v \in Task : Pending(v, c)' => Pending(v, c)
  BY <1>1 DEF Pending
<1>10. \A d \in Conn, j \in DOMAIN pool' : pool'[j] = d => Unused(d)'
  BY <1>1, <1>2 DEF IInv, Conversations, Unused, Rest
<1>11. Conversations' /\ AskedOnce'
  BY <1>1, <1>2, <1>4, <1>7, <1>8, <1>9, <1>10, TaskFrame
<1> QED BY <1>3, <1>5, <1>6, <1>11 DEF IInv

(* Nobody else uses the connection that t holds. *)
LEMMA Held ==
    ASSUME IInv, NEW t \in Task, task[t].pc \in Talking
    PROVE  \E c \in Conn :
             /\ c = task[t].conn
             /\ Conversation(t, c) /\ ServedOne(c)
             /\ \A u \in Task \ {t} : task[u].conn # c
             /\ \A j \in DOMAIN pool : pool[j] # c
<1>1. task[t].conn \in Conn
  BY DEF IInv, Holding, TypeOK, TaskState
<1>2. PICK c \in Conn : c = task[t].conn
  BY <1>1
<1>3. Conversation(t, c) /\ ServedOne(c)
  BY <1>2 DEF IInv, Conversations
<1>4. /\ \A u \in Task \ {t} : task[u].conn # c
      /\ \A j \in DOMAIN pool : pool[j] # c
  BY <1>2, NoneOut DEF IInv, Holding
<1> QED BY <1>2, <1>3, <1>4

LEMMA SendPayloadKeeps ==
    ASSUME IInv, NEW t \in Task, SendPayload(t)
    PROVE  IInv'
<1> USE NoneOut
<1>1. /\ task[t].pc = "payload" /\ task[t].pc \in Talking
      /\ task' = [task EXCEPT ![t].pc = "answer"]
      /\ lost' = lost /\ down' = down /\ pool' = pool /\ open' = open
      /\ srv' = srv /\ block' = block /\ lock' = lock /\ copied' = copied
  BY DEF SendPayload, Talking
<1>2. PICK c \in Conn :
        /\ c = task[t].conn
        /\ Conversation(t, c) /\ ServedOne(c)
        /\ \A u \in Task \ {t} : task[u].conn # c
        /\ \A j \in DOMAIN pool : pool[j] # c
  BY <1>1, Held
<1>3. TypeOK /\ CountedIntact' /\ t \in Writer
  BY <1>1 DEF IInv, CountedIntact, Holding
<1>4. /\ task' \in [Task -> TaskState]
      /\ task'[t].pc = "answer"
      /\ task'[t].conn = c /\ task'[t].chunk = task[t].chunk
      /\ \A v \in Task \ {t} : task'[v] = task[v]
  BY <1>1, <1>2, <1>3, TaskStays DEF Talking
<1>5. /\ up[c] = <<>> /\ down[c] = <<>>
      /\ (srv[c].pc = "payload" /\ srv[c].for = t) \/ srv[c].pc = "gone"
  BY <1>1, <1>2 DEF Conversation
<1>6. /\ up' \in [Conn -> Seq(Frame)] /\ up'[c] = <<Msg(t, "payload")>>
      /\ \A d \in Conn \ {c} : up'[d] = up[d]
  <2>1. Send(c, t, "payload")
    BY <1>2 DEF SendPayload
  <2> QED BY <1>3, <1>5, <2>1, SendEffect, Queue
<1>7. TypeOK'
  BY <1>1, <1>3, <1>4, <1>6 DEF TypeOK
<1>8. Holding'
  BY <1>1, <1>2, <1>3, <1>4, HoldingKept DEF Talking
<1>9. ServedOne(c)' /\ Conversation(t, c)'
  BY <1>1, <1>2, <1>4, <1>5, <1>6 DEF ServedOne, Conversation
<1>10. \A v \in Task : Pending(v, c)' => Pending(v, c)
  BY <1>1, <1>6, Queue, Frames DEF Pending
<1>11. \A d \in Conn, j \in DOMAIN pool' : pool'[j] = d => Unused(d)'
  BY <1>1, <1>2, <1>6 DEF IInv, Conversations, Unused, Rest
<1>12. Conversations' /\ AskedOnce'
  BY <1>1, <1>2, <1>4, <1>6, <1>9, <1>10, <1>11, TaskFrame
<1> QED BY <1>3, <1>7, <1>8, <1>12 DEF IInv

(* A task that ends lets go of its connection: its own end of the queues   *)
(* may have changed, nothing else has.                                     *)
LEMMA FinishKeeps ==
    ASSUME IInv, NEW t \in Task, NEW r \in Ended, Finish(t, r),
           task[t].pc \notin {"idle"} \cup Ended,
           lost' = lost, srv' = srv, block' = block, lock' = lock,
           copied' = copied,
           up' \in [Conn -> Seq(Frame)], down' \in [Conn -> Seq(Answer)],
           \A d \in Conn : d # task[t].conn =>
             up'[d] = up[d] /\ down'[d] = down[d],
           \A d \in Conn : d = task[t].conn =>
             /\ ServedOne(d)'
             /\ \A u \in Task : Pending(u, d)' => Pending(u, d),
           r = "ok" => /\ copied[t] = 1
                       /\ \A d \in Conn : d = task[t].conn => Unused(d)'
    PROVE  IInv'
<1> USE NoneOut
<1>1. TypeOK /\ CountedIntact'
  BY DEF IInv, CountedIntact
<1>2. /\ task' \in [Task -> TaskState]
      /\ task'[t].pc = r /\ task'[t].conn = None
      /\ task'[t].chunk = task[t].chunk
      /\ \A u \in Task \ {t} : task'[u] = task[u]
      /\ open' \in [Conn -> BOOLEAN]
      /\ pool' \in Seq(Conn) /\ Len(pool') <= MaxIdle
      /\ \/ pool' = pool
         \/ /\ task[t].conn # None /\ r = "ok"
            /\ pool' = Append(pool, task[t].conn)
  BY <1>1, FinishEffect
<1>0. Holding
  BY DEF IInv
<1>10. /\ task'[t].pc \in {"ok", "failed"} /\ task'[t].conn = None
       /\ task'[t].pc \notin Talking
       /\ \A u \in Task \ {t} : task'[u] = task[u]
  BY <1>2 DEF Ended, Talking
<1>3. TypeOK'
  BY <1>1, <1>2 DEF TypeOK
<1>4. PICK c \in Conn \cup {None} : c = task[t].conn
  BY <1>1 DEF TypeOK, TaskState
<1>5. c \in Conn => /\ \A u \in Task \ {t} : task[u].conn # c
                    /\ \A j \in DOMAIN pool : pool[j] # c
  BY <1>4 DEF IInv, Holding
<1>6. \A j \in DOMAIN pool' :
        \/ j \in DOMAIN pool /\ pool'[j] = pool[j]
        \/ /\ j = Len(pool) + 1 /\ j \notin DOMAIN pool /\ pool'[j] = c
           /\ c \in Conn /\ r = "ok"
  <2>1. pool \in Seq(Conn)
    BY <1>1 DEF TypeOK
  <2>2. CASE pool' = pool
    BY <2>2
  <2>3. CASE pool' # pool
    <3>1. c \in Conn /\ r = "ok" /\ pool' = Append(pool, c)
      BY <1>2, <1>4, <2>3
    <3> QED BY <2>1, <3>1, PoolPush
  <2> QED BY <2>2, <2>3
<1>7. Holding'
  <2>1. \A u \in Task :
          /\ task'[u].conn # None <=> task'[u].pc \in Talking
          /\ task'[u].pc \in {"payload", "answer"} => u \in Writer
          /\ task'[u].pc = "bytes" => u \in Reader
    BY <1>0, <1>10 DEF Holding
  <2>2. \A u, v \in Task :
          task'[u].conn = task'[v].conn /\ task'[u].conn # None => u = v
    BY <1>0, <1>10 DEF Holding
  <2>3. \A u \in Task, j \in DOMAIN pool' : task'[u].conn # pool'[j]
    <3> SUFFICES ASSUME NEW u \in Task, NEW j \in DOMAIN pool'
                 PROVE  task'[u].conn # pool'[j]
      OBVIOUS
    <3>1. pool'[j] \in Conn
      BY <1>2, ElementOfSeq, LenProperties
    <3>2. CASE u = t
      BY <1>2, <3>1, <3>2
    <3>3. CASE u # t
      <4>1. task'[u].conn = task[u].conn
        BY <1>10, <3>3
      <4>2. CASE j \in DOMAIN pool /\ pool'[j] = pool[j]
        BY <1>0, <4>1, <4>2 DEF Holding
      <4>3. CASE pool'[j] = c /\ c \in Conn
        BY <1>5, <3>3, <4>1, <4>3
      <4> QED BY <1>6, <4>2, <4>3
    <3> QED BY <3>2, <3>3
  <2>4. \A i, j \in DOMAIN pool' : pool'[i] = pool'[j] => i = j
    BY <1>5, <1>6 DEF IInv, Holding
  <2> QED BY <2>1, <2>2, <2>3, <2>4 DEF Holding
<1>8. \A d \in Conn, j \in DOMAIN pool' : pool'[j] = d => Unused(d)'
  <2> SUFFICES ASSUME NEW d \in Conn, NEW j \in DOMAIN pool', pool'[j] = d
               PROVE  Unused(d)'
    OBVIOUS
  <2>1. CASE j \in DOMAIN pool /\ pool'[j] = pool[j]
    <3>1. Unused(d) /\ d # c
      BY <1>5, <2>1 DEF IInv, Conversations
    <3> QED BY <1>4, <3>1 DEF Unused, Rest
  <2>2. CASE d = c /\ r = "ok"
    BY <1>4, <2>2
  <2> QED BY <1>6, <2>1, <2>2
<1>9. Conversations' /\ AskedOnce'
  <2>1. task'[t].pc \notin {"idle", "connect"}
    BY <1>2 DEF Ended
  <2>2. task'[t].pc = "ok" => copied[t] = 1
    BY <1>2
  <2>3. task'[t].chunk = task[t].chunk
    BY <1>2
  <2>4. \A d \in Conn \ {c} :
          up'[d] = up[d] /\ down'[d] = down[d] /\ srv'[d] = srv[d]
    BY <1>4
  <2>5. c \in Conn =>
          /\ ServedOne(c)'
          /\ task'[t].conn = c => Conversation(t, c)'
          /\ \A u \in Task : Pending(u, c)' => Pending(u, c)
    BY <1>4, <1>10
  <2> QED BY <1>5, <1>8, <1>10, <2>1, <2>2, <2>3, <2>4, <2>5, TaskFrame
<1> QED BY <1>1, <1>3, <1>7, <1>9 DEF IInv

LEMMA SucceedKeeps ==
    ASSUME IInv, NEW t \in Task, Succeed(t)
    PROVE  IInv' /\ copied[t] = 1
<1> USE NoneOut
<1>1. /\ Finish(t, "ok") /\ lost' = lost /\ up' = up
      /\ srv' = srv /\ block' = block /\ lock' = lock /\ copied' = copied
  BY DEF Succeed
<1>2. PICK K : /\ Hear(t, K)
               /\ \/ task[t].pc = "answer" /\ K = {"ok", "meta"}
                  \/ task[t].pc = "bytes" /\ K = {"bytes"}
  BY DEF Succeed, LastAnswer
<1>3. task[t].pc \in Talking
  BY <1>2 DEF Talking
<1>4. PICK c \in Conn :
        /\ c = task[t].conn
        /\ down' \in [Conn -> Seq(Answer)]
        /\ down[c] # <<>> /\ Head(down[c]).kind \in K
        /\ down'[c] = Tail(down[c])
        /\ \A d \in Conn \ {c} : down'[d] = down[d]
        /\ Conversation(t, c) /\ ServedOne(c)
        /\ \A u \in Task \ {t} : task[u].conn # c
        /\ \A j \in DOMAIN pool : pool[j] # c
  BY <1>2, <1>3, HearEffect
<1>5. copied[t] = 1 /\ Rest(c) /\ down'[c] = <<>>
  <2> DEFINE a == Msg(t, "ok")
             y == Msg(t, "bytes")
  <2>1. Tail(<<a>>) = <<>> /\ Tail(<<y>>) = <<>>
    BY Queue
  <2> HIDE DEF a, y
  <2> QED BY <1>2, <1>4, <2>1 DEF Conversation, a, y
<1>6. Unused(c)'
  BY <1>1, <1>5 DEF Unused, Rest
<1>7. ServedOne(c)'
  <2>1. srv[c].pc \in {"request", "gone"}
    BY <1>5 DEF Rest
  <2> QED BY <1>1, <1>4, <2>1 DEF ServedOne
<1>8. \A u \in Task : Pending(u, c)' => Pending(u, c)
  BY <1>1 DEF Pending
<1>9. up \in [Conn -> Seq(Frame)]
  BY DEF IInv, TypeOK
<1> QED BY <1>1, <1>3, <1>4, <1>5, <1>6, <1>7, <1>8, <1>9, FinishKeeps
           DEF Talking, Ended

LEMMA RefusedKeeps ==
    ASSUME IInv, NEW t \in Task, Refused(t)
    PROVE  IInv'
<1> USE NoneOut
<1>1. /\ Finish(t, "failed") /\ lost' = lost /\ up' = up
      /\ srv' = srv /\ block' = block /\ lock' = lock /\ copied' = copied
  BY DEF Refused
<1>2. PICK K : Hear(t, K) /\ task[t].pc \in {"go", "answer", "bytes"}
  BY DEF Refused
<1>3. task[t].pc \in Talking
  BY <1>2 DEF Talking
<1>4. PICK c \in Conn :
        /\ c = task[t].conn
        /\ down' \in [Conn -> Seq(Answer)]
        /\ down[c] # <<>> /\ Head(down[c]).kind \in K
        /\ down'[c] = Tail(down[c])
        /\ \A d \in Conn \ {c} : down'[d] = down[d]
        /\ Conversation(t, c) /\ ServedOne(c)
        /\ \A u \in Task \ {t} : task[u].conn # c
        /\ \A j \in DOMAIN pool : pool[j] # c
  BY <1>2, <1>3, HearEffect
<1>5. ServedOne(c)'
  <2>1. srv[c].pc # "none"
    BY <1>4 DEF ServedOne
  <2>2. srv[c].pc = "payload" =>
          task'[srv[c].for].chunk = task[srv[c].for].chunk
    <3>1. \A u \in Task : task'[u].chunk = task[u].chunk
      BY <1>1, FinishEffect DEF IInv, Ended
    <3> QED BY <1>4, <3>1 DEF ServedOne, Task
  <2> QED BY <1>1, <1>4, <2>1, <2>2 DEF ServedOne
<1>6. \A u \in Task : Pending(u, c)' => Pending(u, c)
  BY <1>1 DEF Pending
<1>7. up \in [Conn -> Seq(Frame)]
  BY DEF IInv, TypeOK
<1> QED BY <1>1, <1>3, <1>4, <1>5, <1>6, <1>7, FinishKeeps DEF Talking, Ended

LEMMA CancelKeeps ==
    ASSUME IInv, NEW t \in Task, Cancel(t)
    PROVE  IInv'
<1> USE NoneOut
<1>1. /\ Finish(t, "failed") /\ lost' = lost /\ down' = down
      /\ task[t].pc \notin {"idle"} \cup Ended
      /\ srv' = srv /\ block' = block /\ lock' = lock /\ copied' = copied
  BY DEF Cancel
<1>2. TypeOK
  BY DEF IInv
<1>3. \A u \in Task : task'[u].chunk = task[u].chunk
  BY <1>1, <1>2, FinishEffect DEF Ended
<1>4. CASE up' = up
  <2>1. ASSUME NEW d \in Conn PROVE ServedOne(d)'
    <3>1. ServedOne(d)
      BY DEF IInv, Conversations
    <3> QED BY <1>1, <1>3, <1>4, <3>1 DEF ServedOne, Task
  <2>2. \A d \in Conn, u \in Task : Pending(u, d)' => Pending(u, d)
    BY <1>1, <1>4 DEF Pending
  <2>3. up \in [Conn -> Seq(Frame)] /\ down \in [Conn -> Seq(Answer)]
    BY <1>2 DEF TypeOK
  <2> QED BY <1>1, <1>4, <2>1, <2>2, <2>3, FinishKeeps DEF Ended
<1>5. CASE task[t].pc = "payload" /\ Send(task[t].conn, t, "part")
  <2>1. task[t].pc \in Talking
    BY <1>5 DEF Talking
  <2>2. PICK c \in Conn :
          /\ c = task[t].conn
          /\ Conversation(t, c) /\ ServedOne(c)
          /\ \A u \in Task \ {t} : task[u].conn # c
          /\ \A j \in DOMAIN pool : pool[j] # c
    BY <2>1, Held
  <2>3. /\ up[c] = <<>>
        /\ (srv[c].pc = "payload" /\ srv[c].for = t) \/ srv[c].pc = "gone"
    BY <1>5, <2>2 DEF Conversation
  <2>4. /\ up' \in [Conn -> Seq(Frame)] /\ up'[c] = <<Msg(t, "part")>>
        /\ \A d \in Conn \ {c} : up'[d] = up[d]
    BY <1>2, <1>5, <2>2, <2>3, SendEffect, Queue
  <2>5. ServedOne(c)'
    BY <1>1, <1>3, <2>2, <2>3, <2>4 DEF ServedOne, Task
  <2>6. \A u \in Task : Pending(u, c)' => Pending(u, c)
    BY <1>1, <2>4, Queue, Frames DEF Pending
  <2>7. down \in [Conn -> Seq(Answer)]
    BY <1>2 DEF TypeOK
  <2> QED BY <1>1, <2>2, <2>4, <2>5, <2>6, <2>7, FinishKeeps DEF Ended
<1> QED BY <1>4, <1>5 DEF Cancel

-----------------------------------------------------------------------------
(* The owner's steps keep the invariant *)

LEMMA HangupEffect ==
    ASSUME TypeOK, NEW c \in Conn, Hangup(c)
    PROVE  /\ srv' \in [Conn -> ServerState]
           /\ srv'[c].pc = "gone" /\ srv'[c].for = None
           /\ \A d \in Conn \ {c} :
                srv'[d] = srv[d] /\ (lock' = d <=> lock = d)
           /\ lock' \in Conn \cup {None} /\ lock' # c
<1>1. [pc |-> "gone", for |-> None] \in ServerState
  BY DEF ServerState
<1>2. srv' = [srv EXCEPT ![c] = [pc |-> "gone", for |-> None]]
  BY DEF Hangup
<1>3. /\ srv' \in [Conn -> ServerState]
      /\ srv'[c].pc = "gone" /\ srv'[c].for = None
      /\ \A d \in Conn \ {c} : srv'[d] = srv[d]
  BY <1>1, <1>2 DEF TypeOK
<1>4. lock' = IF lock = c THEN None ELSE lock
  BY DEF Hangup
<1> QED BY <1>3, <1>4, NoneOut DEF TypeOK

LEMMA ServedFacts ==
    ASSUME IInv, NEW c \in Conn
    PROVE  /\ ServedOne(c) /\ TypeOK /\ srv[c] \in ServerState
           /\ srv[c].pc \in {"lock", "payload", "bytes"} => srv[c].for \in Task
           /\ \A d \in Conn \ {c} :
                srv[c].pc \in {"payload", "bytes"} =>
                  lock = c /\ srv[d].pc \notin {"payload", "bytes"}
           /\ \A u \in Task : task[u].conn = c => Conversation(u, c)
           /\ \A j \in DOMAIN pool : pool[j] = c => Unused(c)
<1>1. ServedOne(c) /\ TypeOK /\ srv[c] \in ServerState
  BY DEF IInv, Conversations, TypeOK
<1>2. srv[c].pc \in {"lock", "payload", "bytes"} => srv[c].for \in Task
  <2>1. srv[c].for \in Task \cup {None}
    BY <1>1 DEF ServerState
  <2> QED BY <1>1, <2>1 DEF ServedOne
<1>3. \A d \in Conn \ {c} :
        srv[c].pc \in {"payload", "bytes"} =>
          lock = c /\ srv[d].pc \notin {"payload", "bytes"}
  <2>1. \A d \in Conn : lock = d <=> srv[d].pc \in {"payload", "bytes"}
    BY DEF IInv, Conversations, ServedOne
  <2> QED BY <2>1
<1>4. /\ \A u \in Task : task[u].conn = c => Conversation(u, c)
      /\ \A j \in DOMAIN pool : pool[j] = c => Unused(c)
  BY DEF IInv, Conversations
<1> QED BY <1>1, <1>2, <1>3, <1>4

(* The handler returns and leaves the queues alone. *)
LEMMA GoneKeeps ==
    ASSUME IInv, NEW c \in Conn, Hangup(c),
           task' = task, pool' = pool, up' = up, down' = down,
           copied' = copied,
           srv[c].pc # "none", block'.written = block.written
    PROVE  Holding' /\ Conversations' /\ AskedOnce'
<1> USE NoneOut
<1>1. /\ ServedOne(c) /\ TypeOK
      /\ \A u \in Task : task[u].conn = c => Conversation(u, c)
      /\ \A j \in DOMAIN pool : pool[j] = c => Unused(c)
  BY ServedFacts
<1>2. /\ srv'[c].pc = "gone" /\ srv'[c].for = None
      /\ \A d \in Conn \ {c} : srv'[d] = srv[d] /\ (lock' = d <=> lock = d)
      /\ lock' # c
  BY <1>1, HangupEffect
<1>3. ServedOne(c)'
  BY <1>2 DEF ServedOne
<1>4. ASSUME NEW u \in Task, task[u].conn = c PROVE Conversation(u, c)'
  <2>1. Conversation(u, c)
    BY <1>1, <1>4
  <2>2. task[u].pc = task'[u].pc
    OBVIOUS
  <2> QED BY <1>2, <2>1 DEF Conversation, Waiting, Rest
<1>5. \A j \in DOMAIN pool : pool[j] = c => Unused(c)'
  BY <1>1, <1>2 DEF Unused, Rest
<1>6. \A u \in Task : Pending(u, c)' => Pending(u, c)
  BY <1>2 DEF Pending
<1> QED BY <1>2, <1>3, <1>4, <1>5, <1>6, ServerFrame

LEMMA PeerGoneKeeps ==
    ASSUME IInv, NEW c \in Conn, PeerGone(c)
    PROVE  IInv'
<1>1. /\ Hangup(c) /\ srv[c].pc # "none" /\ lost' = lost /\ task' = task
      /\ pool' = pool /\ up' = up /\ down' = down /\ open' = open
      /\ block' = block /\ copied' = copied
  BY DEF PeerGone
<1>2. TypeOK /\ CountedIntact'
  BY <1>1 DEF IInv, CountedIntact
<1>3. TypeOK'
  BY <1>1, <1>2, HangupEffect DEF TypeOK
<1> QED BY <1>1, <1>2, <1>3, GoneKeeps DEF IInv

(* Only a chunk that is not counted yet is ruined. *)
LEMMA RuinKeeps ==
    ASSUME TypeOK, CountedIntact, NEW k \in 1..Chunks,
           block.written = k - 1,
           block' = [block EXCEPT !.ruined[k] = TRUE]
    PROVE  block' \in Block /\ CountedIntact' /\ block'.written = block.written
<1>1. /\ block \in Block /\ block.ruined \in [1..Chunks -> BOOLEAN]
      /\ block.written \in 0..Chunks
  BY DEF TypeOK, Block
<1> DEFINE r == [block.ruined EXCEPT ![k] = TRUE]
<1>2. block' = [block EXCEPT !.ruined = r] /\ r \in [1..Chunks -> BOOLEAN]
  BY <1>1
<1>3. \A l \in 1..block.written : r[l] = block.ruined[l]
  <2>1. \A l \in 1..block.written : l \in 1..Chunks /\ l # k
    BY <1>1, TcpAssumption
  <2> QED BY <1>1, <2>1
<1> HIDE DEF r
<1>4. /\ block' \in Block /\ block'.written = block.written
      /\ block'.hash = block.hash /\ block'.ruined = r
  BY <1>1, <1>2 DEF Block
<1> QED BY <1>3, <1>4 DEF CountedIntact

LEMMA ServerDeadlineKeeps ==
    ASSUME IInv, NEW c \in Conn, ServerDeadline(c)
    PROVE  IInv'
<1>1. /\ Hangup(c) /\ srv[c].pc # "none" /\ lost' = lost /\ task' = task
      /\ pool' = pool /\ up' = up /\ down' = down /\ open' = open
      /\ copied' = copied
  BY DEF ServerDeadline, Overdue
<1>2. TypeOK /\ CountedIntact
  BY DEF IInv
<1>3. block' \in Block /\ CountedIntact' /\ block'.written = block.written
  <2>1. CASE block' = block
    BY <1>2, <2>1 DEF TypeOK, CountedIntact
  <2>2. CASE /\ srv[c].pc = "payload"
             /\ block' = [block EXCEPT !.ruined[task[srv[c].for].chunk] = TRUE]
    <3>1. srv[c].for \in Task /\ block.written = task[srv[c].for].chunk - 1
      BY <2>2, ServedFacts DEF ServedOne
    <3>2. task[srv[c].for].chunk \in 1..Chunks
      BY <1>2, <3>1 DEF TypeOK, TaskState
    <3> QED BY <1>2, <2>2, <3>1, <3>2, RuinKeeps
  <2> QED BY <2>1, <2>2 DEF ServerDeadline
<1>4. TypeOK'
  BY <1>1, <1>2, <1>3, HangupEffect DEF TypeOK
<1> QED BY <1>1, <1>3, <1>4, GoneKeeps DEF IInv

(* Whoever holds a connection whose request is unread is its asker. *)
LEMMA AskerHolds ==
    ASSUME NEW u \in Task, NEW t \in Task, NEW c \in Conn,
           Conversation(u, c), task[u].pc \in Talking,
           up[c] = <<Msg(t, "request")>>
    PROVE  u = t /\ task[u].pc = "go" /\ down[c] = <<>>
<1> DEFINE q == Msg(u, "request")
           p == Msg(u, "payload")
           m == Msg(t, "request")
<1>1. <<m>> # <<>> /\ <<m>> # <<p>> /\ (<<m>> = <<q>> => u = t)
  <2>1. <<m>> = <<p>> => m = p
    BY Queue
  <2>2. <<m>> = <<q>> => m = q
    BY Queue
  <2>3. m # p /\ (m = q => u = t)
    BY Frames
  <2> QED BY <2>1, <2>2, <2>3, Queue
<1>2. /\ up[c] # <<>> /\ up[c] # <<Msg(u, "payload")>>
      /\ up[c] = <<Msg(u, "request")>> => u = t
  BY <1>1
<1>3. task[u].pc = "go"
  <2>1. task[u].pc # "payload"
    BY <1>2 DEF Conversation
  <2>2. task[u].pc # "answer"
    BY <1>2 DEF Conversation, Rest
  <2>3. task[u].pc # "bytes"
    BY <1>2 DEF Conversation, Waiting, Rest
  <2> QED BY <2>1, <2>2, <2>3 DEF Talking
<1>4. up[c] = <<Msg(u, "request")>> /\ down[c] = <<>>
  BY <1>2, <1>3 DEF Conversation, Waiting, Rest
<1> QED BY <1>2, <1>3, <1>4

LEMMA HolderTalks ==
    ASSUME IInv, NEW u \in Task, NEW c \in Conn, task[u].conn = c
    PROVE  Conversation(u, c) /\ task[u].pc \in Talking
BY NoneOut DEF IInv, Conversations, Holding

LEMMA TakeRequestKeeps ==
    ASSUME IInv, NEW c \in Conn, TakeRequest(c)
    PROVE  IInv'
<1> USE NoneOut
<1>1. /\ srv[c].pc = "request" /\ up[c] # <<>>
      /\ up' = [up EXCEPT ![c] = Tail(@)]
      /\ lost' = lost /\ task' = task /\ pool' = pool /\ open' = open
      /\ block' = block /\ copied' = copied
  BY DEF TakeRequest
<1>2. TypeOK /\ ServedOne(c) /\ CountedIntact'
  BY <1>1, ServedFacts DEF IInv, CountedIntact
<1>3. PICK t \in Task : up[c] = <<Msg(t, "request")>>
  BY <1>1, <1>2 DEF ServedOne
<1>4. /\ up' \in [Conn -> Seq(Frame)] /\ up'[c] = <<>>
      /\ \A d \in Conn \ {c} : up'[d] = up[d]
  <2>1. Tail(up[c]) = <<>>
    BY <1>3, Queue
  <2>2. <<>> \in Seq(Frame)
    OBVIOUS
  <2> QED BY <1>1, <1>2, <2>1, <2>2 DEF TypeOK
<1>5. Head(up[c]).kind = "request" /\ Head(up[c]).for = t
  BY <1>3, Queue, Frames
<1>6. Pending(t, c)
  BY <1>3 DEF Pending
<1>7. \A j \in DOMAIN pool : pool[j] # c
  BY <1>1 DEF IInv, Conversations, Unused, Rest
<1>8. \A u \in Task : task[u].conn = c =>
        u = t /\ task[u].pc = "go" /\ down[c] = <<>>
  BY <1>3, HolderTalks, AskerHolds
<1>9. \A v \in Task : <<>> # <<Msg(v, "request")>>
  BY Queue
<1>10. CASE /\ srv' = [srv EXCEPT ![c] = [pc |-> "lock", for |-> t]]
            /\ down' = down /\ lock' = lock
  <2>1. /\ srv' \in [Conn -> ServerState]
        /\ srv'[c].pc = "lock" /\ srv'[c].for = t
        /\ \A d \in Conn \ {c} : srv'[d] = srv[d]
    BY <1>2, <1>10 DEF TypeOK, ServerState
  <2>2. TypeOK'
    BY <1>1, <1>2, <1>4, <1>10, <2>1 DEF TypeOK
  <2>3. ServedOne(c)'
    BY <1>1, <1>2, <1>4, <1>10, <2>1 DEF ServedOne
  <2>4. ASSUME NEW u \in Task, task[u].conn = c PROVE Conversation(u, c)'
    <3>1. u = t /\ task'[u].pc = "go" /\ down'[c] = <<>>
      BY <1>1, <1>8, <1>10, <2>4
    <3> QED BY <1>4, <2>1, <3>1 DEF Conversation, Waiting
  <2>5. \A v \in Task : Pending(v, c)' => Pending(v, c)
    BY <1>4, <1>6, <1>9, <2>1 DEF Pending
  <2>6. Holding' /\ Conversations' /\ AskedOnce'
    BY <1>1, <1>4, <1>7, <1>10, <2>1, <2>3, <2>4, <2>5, ServerFrame
  <2> QED BY <1>2, <2>2, <2>6 DEF IInv
<1>11. CASE /\ down' = [down EXCEPT ![c] = Append(@, [kind |-> "error",
                                                      for |-> t])]
            /\ Hangup(c)
  <2>1. /\ srv' \in [Conn -> ServerState]
        /\ srv'[c].pc = "gone" /\ srv'[c].for = None
        /\ \A d \in Conn \ {c} :
             srv'[d] = srv[d] /\ (lock' = d <=> lock = d)
        /\ lock' \in Conn \cup {None} /\ lock' # c
    BY <1>2, <1>11, HangupEffect
  <2>2. /\ down' \in [Conn -> Seq(Answer)]
        /\ down'[c] = Append(down[c], Msg(t, "error"))
        /\ \A d \in Conn \ {c} : down'[d] = down[d]
    <3>1. Msg(t, "error") \in Answer /\ down[c] \in Seq(Answer)
      BY <1>2, MsgType DEF TypeOK
    <3>2. Append(down[c], Msg(t, "error")) \in Seq(Answer)
      BY <3>1, AppendProperties
    <3>3. down' = [down EXCEPT ![c] = Append(@, Msg(t, "error"))]
      BY <1>11 DEF Msg
    <3> QED BY <1>2, <3>2, <3>3 DEF TypeOK
  <2>3. TypeOK'
    BY <1>1, <1>2, <1>4, <2>1, <2>2 DEF TypeOK
  <2>4. ServedOne(c)'
    BY <2>1 DEF ServedOne
  <2>5. ASSUME NEW u \in Task, task[u].conn = c PROVE Conversation(u, c)'
    <3>1. u = t /\ task'[u].pc = "go" /\ down'[c] = <<Msg(t, "error")>>
      BY <1>1, <1>8, <2>2, <2>5, Queue
    <3> QED BY <1>4, <2>1, <3>1 DEF Conversation
  <2>6. \A v \in Task : Pending(v, c)' => Pending(v, c)
    BY <1>4, <1>9, <2>1 DEF Pending
  <2>7. Holding' /\ Conversations' /\ AskedOnce'
    BY <1>1, <1>4, <1>7, <2>1, <2>2, <2>4, <2>5, <2>6, ServerFrame
  <2> QED BY <1>2, <2>3, <2>7 DEF IInv
<1> QED BY <1>5, <1>10, <1>11 DEF TakeRequest

(* The handler of c answers and goes on, or hangs up after it. *)
LEMMA AnswerEffect ==
    ASSUME IInv, NEW c \in Conn, srv[c].pc \in {"lock", "payload", "bytes"},
           NEW k \in {"ok", "meta", "bytes", "error"}, Answers(c, <<k>>)
    PROVE  /\ down' \in [Conn -> Seq(Answer)]
           /\ down'[c] = Append(down[c], Msg(srv[c].for, k))
           /\ \A d \in Conn \ {c} : down'[d] = down[d]
<1>1. srv[c].for \in Task /\ TypeOK
  BY ServedFacts
<1>2. /\ down' = [down EXCEPT ![c] = Append(@, Msg(srv[c].for, k))]
      /\ Msg(srv[c].for, k) \in Answer
  BY <1>1, AnswersOne
<1>3. down[c] \in Seq(Answer)
  BY <1>1 DEF TypeOK
<1>4. Append(down[c], Msg(srv[c].for, k)) \in Seq(Answer)
  BY <1>2, <1>3, AppendProperties
<1> QED BY <1>1, <1>2, <1>4 DEF TypeOK

LEMMA LockBlockKeeps ==
    ASSUME IInv, NEW c \in Conn, LockBlock(c)
    PROVE  IInv'
<1> USE NoneOut
<1>1. /\ srv[c].pc = "lock" /\ lock = None
      /\ up' = up /\ lost' = lost /\ task' = task /\ pool' = pool
      /\ open' = open /\ block' = block /\ copied' = copied
  BY DEF LockBlock
<1>2. TypeOK /\ ServedOne(c) /\ CountedIntact' /\ srv[c].for \in Task
  BY <1>1, ServedFacts DEF IInv, CountedIntact
<1>3. PICK t \in Task : t = srv[c].for
  BY <1>2
<1>4. up[c] = <<>>
  BY <1>1, <1>2 DEF ServedOne
<1>5. \A j \in DOMAIN pool : pool[j] # c
  BY <1>1 DEF IInv, Conversations, Unused, Rest
<1>6. \A u \in Task : task[u].conn = c =>
        u = t /\ task[u].pc = "go" /\ down[c] = <<>>
  <2> SUFFICES ASSUME NEW u \in Task, task[u].conn = c
               PROVE  u = t /\ task[u].pc = "go" /\ down[c] = <<>>
    OBVIOUS
  <2>1. Conversation(u, c) /\ task[u].pc \in Talking
    BY HolderTalks
  <2>2. \A k : <<>> # <<Msg(u, k)>>
    BY Queue
  <2> QED BY <1>1, <1>3, <1>4, <2>1, <2>2
          DEF Conversation, Talking, Waiting, Rest
<1>7. \A v \in Task : <<>> # <<Msg(v, "request")>>
  BY Queue
<1>8. CASE /\ Admits(t)
           /\ Answers(c, IF t \in Writer THEN <<"ok">> ELSE <<"meta">>)
           /\ lock' = c
           /\ srv' = [srv EXCEPT ![c].pc = IF t \in Writer THEN "payload"
                                                           ELSE "bytes"]
  <2>1. PICK k \in {"ok", "meta"} :
          Answers(c, <<k>>) /\ k = IF t \in Writer THEN "ok" ELSE "meta"
    BY <1>8
  <2>2. /\ down' \in [Conn -> Seq(Answer)]
        /\ down'[c] = Append(down[c], Msg(t, k))
        /\ \A d \in Conn \ {c} : down'[d] = down[d]
    BY <1>1, <1>3, <2>1, AnswerEffect
  <2>3. /\ srv' \in [Conn -> ServerState]
        /\ srv'[c].pc = IF t \in Writer THEN "payload" ELSE "bytes"
        /\ srv'[c].for = t
        /\ \A d \in Conn \ {c} : srv'[d] = srv[d]
    <3> DEFINE p == IF t \in Writer THEN "payload" ELSE "bytes"
    <3>1. p \in {"payload", "bytes"}
      OBVIOUS
    <3>2. srv' = [srv EXCEPT ![c].pc = p]
      BY <1>8
    <3> HIDE DEF p
    <3>3. /\ srv' \in [Conn -> ServerState]
          /\ srv'[c].pc = p /\ srv'[c].for = srv[c].for
          /\ \A d \in Conn \ {c} : srv'[d] = srv[d]
      BY <1>2, <3>1, <3>2 DEF TypeOK, ServerState
    <3> QED BY <1>3, <3>3 DEF p
  <2>4. TypeOK'
    BY <1>1, <1>2, <1>8, <2>2, <2>3 DEF TypeOK
  <2>5. ServedOne(c)'
    <3>1. t \in Writer => block.written = task[t].chunk - 1
      BY <1>8 DEF Admits
    <3>2. t \notin Writer => t \in Reader
      BY DEF Task
    <3> QED BY <1>1, <1>4, <1>8, <2>3, <3>1, <3>2 DEF ServedOne
  <2>6. ASSUME NEW u \in Task, task[u].conn = c PROVE Conversation(u, c)'
    <3>1. u = t /\ task'[u].pc = "go" /\ down'[c] = <<Msg(t, k)>>
      BY <1>1, <1>6, <2>2, <2>6, Queue
    <3>2. down'[c] = IF t \in Writer THEN <<Msg(t, "ok")>>
                                     ELSE <<Msg(t, "meta")>>
      BY <2>1, <3>1
    <3> QED BY <1>1, <1>4, <2>3, <3>1, <3>2 DEF Conversation, Waiting
  <2>7. \A v \in Task : Pending(v, c)' => Pending(v, c)
    BY <1>1, <1>3, <2>3 DEF Pending
  <2>8. \A d \in Conn \ {c} : lock' = d <=> lock = d
    BY <1>1, <1>8
  <2>9. Holding' /\ Conversations' /\ AskedOnce'
    BY <1>1, <1>5, <2>2, <2>3, <2>5, <2>6, <2>7, <2>8, ServerFrame
  <2> QED BY <1>2, <2>4, <2>9 DEF IInv
<1>9. CASE Answers(c, <<"error">>) /\ Hangup(c)
  <2>1. /\ srv' \in [Conn -> ServerState]
        /\ srv'[c].pc = "gone" /\ srv'[c].for = None
        /\ \A d \in Conn \ {c} :
             srv'[d] = srv[d] /\ (lock' = d <=> lock = d)
        /\ lock' \in Conn \cup {None} /\ lock' # c
    BY <1>2, <1>9, HangupEffect
  <2>2. /\ down' \in [Conn -> Seq(Answer)]
        /\ down'[c] = Append(down[c], Msg(t, "error"))
        /\ \A d \in Conn \ {c} : down'[d] = down[d]
    BY <1>1, <1>3, <1>9, AnswerEffect
  <2>3. TypeOK'
    BY <1>1, <1>2, <2>1, <2>2 DEF TypeOK
  <2>4. ServedOne(c)'
    BY <2>1 DEF ServedOne
  <2>5. ASSUME NEW u \in Task, task[u].conn = c PROVE Conversation(u, c)'
    <3>1. u = t /\ task'[u].pc = "go" /\ down'[c] = <<Msg(t, "error")>>
      BY <1>1, <1>6, <2>2, <2>5, Queue
    <3> QED BY <1>1, <1>4, <2>1, <3>1 DEF Conversation
  <2>6. \A v \in Task : Pending(v, c)' => Pending(v, c)
    BY <1>1, <2>1 DEF Pending
  <2>7. Holding' /\ Conversations' /\ AskedOnce'
    BY <1>1, <1>5, <2>1, <2>2, <2>4, <2>5, <2>6, ServerFrame
  <2> QED BY <1>2, <2>3, <2>7 DEF IInv
<1> QED BY <1>3, <1>8, <1>9 DEF LockBlock

LEMMA SendBytesKeeps ==
    ASSUME IInv, NEW c \in Conn, SendBytes(c)
    PROVE  IInv' /\ copied[srv[c].for] = 0
<1> USE NoneOut
<1>1. /\ srv[c].pc = "bytes" /\ Answers(c, <<"bytes">>)
      /\ srv' = [srv EXCEPT ![c] = [pc |-> "request", for |-> None]]
      /\ lock' = None
      /\ copied' = [copied EXCEPT ![srv[c].for] = @ + 1]
      /\ up' = up /\ lost' = lost /\ task' = task /\ pool' = pool
      /\ open' = open /\ block' = block
  BY DEF SendBytes
<1>2. /\ TypeOK /\ ServedOne(c) /\ CountedIntact' /\ srv[c].for \in Task
      /\ lock = c
  BY <1>1, ServedFacts DEF IInv, CountedIntact, ServedOne
<1>3. PICK t \in Task : t = srv[c].for
  BY <1>2
<1>4. up[c] = <<>> /\ t \in Reader
  BY <1>1, <1>2, <1>3 DEF ServedOne
<1>5. \A j \in DOMAIN pool : pool[j] # c
  BY <1>1 DEF IInv, Conversations, Unused, Rest
<1>6. copied[t] = 0 /\ Pending(t, c)
  BY <1>3 DEF IInv, AskedOnce, Pending
<1>7. /\ copied' \in [Task -> Nat] /\ copied'[t] = 1
      /\ \A u \in Task \ {t} : copied'[u] = copied[u]
  BY <1>1, <1>2, <1>3, <1>6 DEF TypeOK
<1>8. /\ down' \in [Conn -> Seq(Answer)]
      /\ down'[c] = Append(down[c], Msg(t, "bytes"))
      /\ \A d \in Conn \ {c} : down'[d] = down[d]
  BY <1>1, <1>3, AnswerEffect
<1>9. /\ srv' \in [Conn -> ServerState]
      /\ srv'[c].pc = "request" /\ srv'[c].for = None
      /\ \A d \in Conn \ {c} : srv'[d] = srv[d]
  BY <1>1, <1>2 DEF TypeOK, ServerState
<1>10. TypeOK'
  BY <1>1, <1>2, <1>7, <1>8, <1>9 DEF TypeOK
<1>11. ServedOne(c)'
  BY <1>1, <1>4, <1>9 DEF ServedOne
<1>12. ASSUME NEW u \in Task, task[u].conn = c PROVE Conversation(u, c)'
  <2>1. Conversation(u, c) /\ task[u].pc \in Talking
    BY <1>12, HolderTalks
  <2>2. up[c] # <<Msg(u, "request")>> /\ up[c] # <<Msg(u, "payload")>>
    BY <1>4, Queue
  <2>3. CASE task[u].pc = "go"
    <3>1. t \notin Writer
      BY <1>4, TcpAssumption
    <3>2. u = t /\ down[c] = <<Msg(t, "meta")>>
      BY <1>1, <1>3, <2>1, <2>2, <2>3, <3>1 DEF Conversation, Waiting, Rest
    <3>3. down'[c] = <<Msg(t, "meta"), Msg(t, "bytes")>>
      <4> DEFINE x == Msg(t, "meta")
                 y == Msg(t, "bytes")
      <4>1. down'[c] = Append(<<x>>, y)
        BY <1>8, <3>2
      <4> HIDE DEF x, y
      <4>2. down'[c] = <<x, y>>
        BY <4>1, Queue
      <4> QED BY <4>2 DEF x, y
    <3> QED BY <1>1, <1>4, <1>7, <1>9, <2>3, <3>2, <3>3
            DEF Conversation, Rest
  <2>4. CASE task[u].pc = "bytes"
    <3>1. u = t /\ down[c] = <<>>
      BY <1>1, <1>3, <2>1, <2>4 DEF Conversation, Waiting, Rest
    <3>2. down'[c] = <<Msg(t, "bytes")>>
      BY <1>8, <3>1, Queue
    <3> QED BY <1>1, <1>4, <1>7, <1>9, <2>4, <3>1, <3>2
            DEF Conversation, Rest
  <2>5. task[u].pc \notin {"payload", "answer"}
    BY <1>1, <2>1, <2>2 DEF Conversation, Rest
  <2> QED BY <2>1, <2>3, <2>4, <2>5 DEF Talking
<1>13. \A v \in Task : ~Pending(v, c)'
  BY <1>1, <1>4, <1>9, Queue DEF Pending
<1>14. \A d \in Conn \ {c} : lock' = d <=> lock = d
  BY <1>1, <1>2
<1>15. Holding' /\ Conversations' /\ AskedOnce'
  BY <1>1, <1>3, <1>5, <1>7, <1>8, <1>9, <1>11, <1>12, <1>13, <1>14,
     ServerFrame
<1> QED BY <1>2, <1>3, <1>6, <1>10, <1>15 DEF IInv

(* A whole chunk is counted and hashed where it belongs. *)
LEMMA CountKeeps ==
    ASSUME TypeOK, CountedIntact, NEW k \in 1..Chunks,
           NEW w \in Upload \cup {None}, block.written = k - 1,
           block' = [block EXCEPT !.written = k, !.hash = Append(@, k),
                                  !.ruined[k] = FALSE, !.upload = w]
    PROVE  block' \in Block /\ CountedIntact'
<1>1. /\ block \in Block /\ block.ruined \in [1..Chunks -> BOOLEAN]
      /\ block.hash \in Seq(1..Chunks)
  BY DEF TypeOK, Block
<1> DEFINE r == [block.ruined EXCEPT ![k] = FALSE]
           h == Append(block.hash, k)
<1>2. r \in [1..Chunks -> BOOLEAN] /\ h \in Seq(1..Chunks)
  BY <1>1, AppendProperties
<1>3. block' = [block EXCEPT !.written = k, !.hash = h, !.ruined = r,
                             !.upload = w]
  BY <1>1
<1>4. \A l \in 1..k : ~r[l]
  <2>1. \A l \in 1..k : l \in 1..Chunks /\ (l = k \/ l \in 1..block.written)
    BY TcpAssumption
  <2>2. \A l \in 1..block.written : ~block.ruined[l]
    BY DEF CountedIntact
  <2> QED BY <1>1, <2>1, <2>2
<1>5. h = [i \in 1..k |-> i]
  <2> DEFINE g == [i \in 1..k |-> i]
  <2>1. block.hash = [i \in 1..(k - 1) |-> i]
    BY DEF CountedIntact
  <2>2. Len(block.hash) = k - 1 /\ \A i \in 1..(k - 1) : block.hash[i] = i
    <3>1. DOMAIN block.hash = 1..(k - 1)
      BY <2>1
    <3>2. DOMAIN block.hash = 1..Len(block.hash) /\ Len(block.hash) \in Nat
      BY <1>1, LenProperties
    <3> QED BY <2>1, <3>1, <3>2
  <2>3. /\ Len(h) = k /\ h[k] = k /\ \A i \in 1..(k - 1) : h[i] = i
    BY <1>1, <2>2, AppendProperties
  <2>4. DOMAIN h = 1..k /\ \A i \in 1..k : h[i] = i
    <3>1. \A i \in 1..k : i = k \/ i \in 1..(k - 1)
      OBVIOUS
    <3>2. DOMAIN h = 1..Len(h)
      BY <1>2, LenProperties
    <3> HIDE DEF h
    <3> QED BY <2>3, <3>1, <3>2
  <2>5. h = [i \in DOMAIN h |-> h[i]]
    <3> HIDE DEF h
    <3> QED BY <1>2
  <2> HIDE DEF h
  <2> QED BY <2>4, <2>5
<1> HIDE DEF r, h
<1>6. k \in 0..Chunks
  BY TcpAssumption
<1>7. /\ block' \in Block /\ block'.written = k /\ block'.hash = h
      /\ block'.ruined = r
  BY <1>1, <1>2, <1>3, <1>6 DEF Block
<1> QED BY <1>4, <1>5, <1>7 DEF CountedIntact

LEMMA TakePayloadKeeps ==
    ASSUME IInv, NEW c \in Conn, TakePayload(c)
    PROVE  IInv' /\ copied[srv[c].for] = 0
<1> USE NoneOut
<1>1. /\ srv[c].pc = "payload" /\ up[c] # <<>>
      /\ up' = [up EXCEPT ![c] = Tail(@)]
      /\ lost' = lost /\ task' = task /\ pool' = pool /\ open' = open
  BY DEF TakePayload
<1>2. /\ TypeOK /\ ServedOne(c) /\ CountedIntact /\ srv[c].for \in Task
      /\ lock = c /\ \A d \in Conn \ {c} : srv[d].pc # "payload"
  BY <1>1, ServedFacts DEF IInv, ServedOne
<1>3. PICK t \in Task : t = srv[c].for
  BY <1>2
<1>4. PICK k \in 1..Chunks : k = task[t].chunk
  BY <1>2 DEF TypeOK, TaskState
<1>5. /\ t \in Writer /\ block.written = k - 1
      /\ up[c] = <<Msg(t, "payload")>> \/ up[c] = <<Msg(t, "part")>>
  BY <1>1, <1>2, <1>3, <1>4 DEF ServedOne
<1>6. copied[t] = 0 /\ Pending(t, c)
  BY <1>3 DEF IInv, AskedOnce, Pending
<1>7. /\ up' \in [Conn -> Seq(Frame)] /\ up'[c] = <<>>
      /\ \A d \in Conn \ {c} : up'[d] = up[d]
  <2>1. Tail(up[c]) = <<>>
    BY <1>5, Queue
  <2>2. <<>> \in Seq(Frame)
    OBVIOUS
  <2> QED BY <1>1, <1>2, <2>1, <2>2 DEF TypeOK
<1>8. \A j \in DOMAIN pool : pool[j] # c
  BY <1>1 DEF IInv, Conversations, Unused, Rest
<1>9. \A u \in Task : task[u].conn = c =>
        /\ u = t /\ task[u].pc = "answer" /\ down[c] = <<>>
        /\ up[c] = <<Msg(t, "payload")>>
  <2> SUFFICES ASSUME NEW u \in Task, task[u].conn = c
               PROVE  /\ u = t /\ task[u].pc = "answer" /\ down[c] = <<>>
                      /\ up[c] = <<Msg(t, "payload")>>
    OBVIOUS
  <2>1. Conversation(u, c) /\ task[u].pc \in Talking
    BY HolderTalks
  <2>2. task[u].pc = "answer"
    BY <1>1, <2>1 DEF Conversation, Talking, Waiting, Rest
  <2> QED BY <1>1, <1>3, <2>1, <2>2 DEF Conversation, Rest
<1>10. \A v \in Task : <<>> # <<Msg(v, "request")>>
  BY Queue
<1>11. CASE up[c] = <<Msg(t, "payload")>>
  <2>1. Head(up[c]).kind = "payload" /\ Head(up[c]).for = t
    BY <1>11, Queue, Frames
  <2>2. /\ block' = [block EXCEPT !.written = k, !.hash = Append(@, k),
                                  !.ruined[k] = (t # t),
                                  !.upload = task[t].upload]
        /\ copied' = [copied EXCEPT ![t] = @ + 1]
        /\ Answers(c, <<"ok">>)
        /\ srv' = [srv EXCEPT ![c] = [pc |-> "request", for |-> None]]
        /\ lock' = None
    BY <1>3, <1>4, <2>1 DEF TakePayload
  <2>3. block' \in Block /\ CountedIntact'
    <3>1. task[t].upload \in Upload \cup {None}
      BY <1>2 DEF TypeOK, TaskState
    <3>2. block' = [block EXCEPT !.written = k, !.hash = Append(@, k),
                                 !.ruined[k] = FALSE,
                                 !.upload = task[t].upload]
      BY <2>2
    <3> QED BY <1>2, <1>5, <3>1, <3>2, CountKeeps
  <2>4. /\ copied' \in [Task -> Nat] /\ copied'[t] = 1
        /\ \A u \in Task \ {t} : copied'[u] = copied[u]
    BY <1>2, <1>6, <2>2 DEF TypeOK
  <2>5. /\ down' \in [Conn -> Seq(Answer)]
        /\ down'[c] = Append(down[c], Msg(t, "ok"))
        /\ \A d \in Conn \ {c} : down'[d] = down[d]
    BY <1>1, <1>3, <2>2, AnswerEffect
  <2>6. /\ srv' \in [Conn -> ServerState]
        /\ srv'[c].pc = "request" /\ srv'[c].for = None
        /\ \A d \in Conn \ {c} : srv'[d] = srv[d]
    BY <1>2, <2>2 DEF TypeOK, ServerState
  <2>7. TypeOK'
    BY <1>1, <1>2, <1>7, <2>2, <2>3, <2>4, <2>5, <2>6 DEF TypeOK
  <2>8. ServedOne(c)'
    BY <1>7, <2>2, <2>6 DEF ServedOne
  <2>9. ASSUME NEW u \in Task, task[u].conn = c PROVE Conversation(u, c)'
    <3>1. u = t /\ task'[u].pc = "answer" /\ down'[c] = <<Msg(t, "ok")>>
      BY <1>1, <1>9, <2>5, <2>9, Queue
    <3> QED BY <1>7, <2>4, <2>6, <3>1 DEF Conversation, Rest
  <2>10. \A v \in Task : ~Pending(v, c)'
    BY <1>7, <1>10, <2>6 DEF Pending
  <2>11. \A d \in Conn \ {c} : lock' = d <=> lock = d
    BY <1>2, <2>2
  <2>12. Holding' /\ Conversations' /\ AskedOnce'
    BY <1>1, <1>2, <1>3, <1>7, <1>8, <2>4, <2>5, <2>6, <2>8, <2>9, <2>10,
       <2>11, ServerFrame
  <2> QED BY <1>3, <1>6, <2>3, <2>7, <2>12 DEF IInv
<1>12. CASE up[c] = <<Msg(t, "part")>>
  <2>1. Head(up[c]).kind # "payload" /\ up[c] # <<Msg(t, "payload")>>
    <3>1. Head(up[c]).kind = "part"
      BY <1>12, Queue, Frames
    <3>2. Head(<<Msg(t, "payload")>>).kind = "payload"
      BY Queue, Frames
    <3> QED BY <3>1, <3>2
  <2>2. /\ block' = [block EXCEPT !.ruined[k] = TRUE]
        /\ Answers(c, <<"error">>) /\ Hangup(c) /\ copied' = copied
    BY <1>3, <1>4, <2>1 DEF TakePayload
  <2>3. block' \in Block /\ CountedIntact'
    BY <1>2, <1>5, <2>2, RuinKeeps
  <2>4. /\ srv' \in [Conn -> ServerState]
        /\ srv'[c].pc = "gone" /\ srv'[c].for = None
        /\ \A d \in Conn \ {c} :
             srv'[d] = srv[d] /\ (lock' = d <=> lock = d)
        /\ lock' \in Conn \cup {None} /\ lock' # c
    BY <1>2, <2>2, HangupEffect
  <2>5. /\ down' \in [Conn -> Seq(Answer)]
        /\ \A d \in Conn \ {c} : down'[d] = down[d]
    BY <1>1, <2>2, AnswerEffect
  <2>6. TypeOK'
    BY <1>1, <1>2, <1>7, <2>2, <2>3, <2>4, <2>5 DEF TypeOK
  <2>7. ServedOne(c)'
    BY <2>4 DEF ServedOne
  <2>8. \A u \in Task : task[u].conn # c
    BY <1>9, <2>1
  <2>9. \A v \in Task : ~Pending(v, c)'
    BY <1>7, <1>10, <2>4 DEF Pending
  <2>10. Holding' /\ Conversations' /\ AskedOnce'
    BY <1>1, <1>2, <1>7, <1>8, <2>2, <2>4, <2>5, <2>7, <2>8, <2>9, ServerFrame
  <2> QED BY <1>3, <1>6, <2>3, <2>6, <2>10 DEF IInv
<1> QED BY <1>5, <1>11, <1>12

(* Steps that change the block's state or the network, or nothing. *)
LEMMA OtherKeeps ==
    ASSUME IInv, Commit \/ LoseBlock \/ Vanish \/ UNCHANGED vars
    PROVE  IInv'
<1>1. /\ task' = task /\ pool' = pool /\ up' = up /\ down' = down
      /\ open' = open /\ srv' = srv /\ lock' = lock /\ copied' = copied
  BY DEF Commit, LoseBlock, Vanish, stream, vars
<1>2. TypeOK /\ CountedIntact /\ Holding /\ Conversations /\ AskedOnce
  BY DEF IInv
<1>3. /\ block' \in Block /\ lost' \in BOOLEAN
      /\ block'.written = block.written /\ block'.hash = block.hash
      /\ block'.ruined = block.ruined
  <2>1. block \in Block /\ lost \in BOOLEAN
    BY <1>2 DEF TypeOK
  <2>2. CASE Commit
    BY <2>1, <2>2 DEF Commit, Block, stream
  <2>3. CASE LoseBlock
    BY <2>1, <2>3 DEF LoseBlock, Block, stream
  <2>4. CASE Vanish
    BY <2>1, <2>4 DEF Vanish
  <2>5. CASE UNCHANGED vars
    BY <2>1, <2>5 DEF vars, stream
  <2> QED BY <2>2, <2>3, <2>4, <2>5
<1>4. TypeOK'
  BY <1>1, <1>2, <1>3 DEF TypeOK
<1>5. Holding'
  BY <1>1, <1>2 DEF Holding
<1>6. Conversations'
  <2>1. ASSUME NEW d \in Conn PROVE ServedOne(d)'
    <3>1. ServedOne(d)
      BY <1>2 DEF Conversations
    <3> QED BY <1>1, <1>3, <3>1, ServedSame
  <2>2. ASSUME NEW u \in Task, NEW d \in Conn, task'[u].conn = d
        PROVE  Conversation(u, d)'
    <3>1. Conversation(u, d)
      BY <1>1, <1>2, <2>2 DEF Conversations
    <3> QED BY <1>1, <3>1, TalkSame
  <2>3. \A d \in Conn, j \in DOMAIN pool' : pool'[j] = d => Unused(d)'
    BY <1>1, <1>2 DEF Conversations, Unused, Rest
  <2> QED BY <2>1, <2>2, <2>3 DEF Conversations
<1>7. AskedOnce'
  BY <1>1, <1>2 DEF AskedOnce, Pending
<1>8. CountedIntact'
  BY <1>2, <1>3 DEF CountedIntact
<1> QED BY <1>4, <1>5, <1>6, <1>7, <1>8 DEF IInv

LEMMA InitIInv == Init => IInv
<1> SUFFICES ASSUME Init PROVE IInv
  OBVIOUS
<1>1. TypeOK
  <2>1. pool \in Seq(Conn) /\ Len(pool) = 0
    BY DEF Init
  <2>2. task \in [Task -> TaskState]
    BY TcpAssumption DEF Init, TaskState
  <2>3. /\ up \in [Conn -> Seq(Frame)] /\ down \in [Conn -> Seq(Answer)]
        /\ open \in [Conn -> BOOLEAN] /\ lost \in BOOLEAN
        /\ srv \in [Conn -> ServerState] /\ lock \in Conn \cup {None}
        /\ copied \in [Task -> Nat]
    <3>1. up \in [Conn -> Seq(Frame)] /\ down \in [Conn -> Seq(Answer)]
      BY DEF Init
    <3>2. open \in [Conn -> BOOLEAN] /\ lost \in BOOLEAN
      BY DEF Init
    <3>3. srv \in [Conn -> ServerState] /\ lock \in Conn \cup {None}
      BY DEF Init, ServerState
    <3>4. copied \in [Task -> Nat]
      BY DEF Init
    <3> QED BY <3>1, <3>2, <3>3, <3>4
  <2>4. block \in Block
    BY TcpAssumption DEF Init, Block
  <2> QED BY <2>1, <2>2, <2>3, <2>4, TcpAssumption DEF TypeOK
<1>2. Holding
  BY DEF Init, Holding, Talking
<1>3. Conversations
  BY NoneOut DEF Init, Conversations, ServedOne
<1>4. AskedOnce
  BY NoneOut, Queue DEF Init, AskedOnce, Pending
<1>5. CountedIntact
  <2>1. block.hash = <<>> /\ block.written = 0
    BY DEF Init
  <2> QED BY <2>1 DEF CountedIntact
<1> QED BY <1>1, <1>2, <1>3, <1>4, <1>5 DEF IInv

LEMMA NextIInv == IInv /\ [Next]_vars => IInv'
<1> SUFFICES ASSUME IInv, [Next]_vars PROVE IInv'
  OBVIOUS
<1>1. ASSUME NEW t \in Task, Acquire(t) \/ TaskStep(t) PROVE IInv'
  BY <1>1, AcquireKeeps, ConnectKeeps, HearGoKeeps, SendPayloadKeeps,
     SucceedKeeps, RefusedKeeps, CancelKeeps DEF TaskStep
<1>2. ASSUME NEW c \in Conn, ServerStep(c) \/ ServerDeadline(c) PROVE IInv'
  BY <1>2, TakeRequestKeeps, LockBlockKeeps, TakePayloadKeeps, SendBytesKeeps,
     PeerGoneKeeps, ServerDeadlineKeeps DEF ServerStep
<1> QED BY <1>1, <1>2, OtherKeeps DEF Next

LEMMA AlwaysIInv == Spec => []IInv
BY InitIInv, NextIInv, PTL DEF Spec

-----------------------------------------------------------------------------
(* The results *)

(* The type invariant: every operation of the relaying daemon and every    *)
(* step of the owner's handler keeps the shapes of their structs and the   *)
(* bound of the pool.                                                      *)
THEOREM TypeCorrect == Spec => []TypeOK
<1>1. IInv => TypeOK
  BY DEF IInv
<1> QED BY <1>1, AlwaysIInv, PTL

(* release_tcp_data only ever keeps a connection on which nothing is under *)
(* way, so acquire_tcp_data never hands out one with somebody else's       *)
(* answer on it, for any number of tasks, connections and cancellations.   *)
THEOREM AnswersAreOwn == Spec => []OwnAnswers
<1>1. ASSUME IInv PROVE OwnAnswers
  <2>1. ASSUME NEW t \in Task, task[t].conn # None,
               NEW i \in DOMAIN down[task[t].conn]
        PROVE  down[task[t].conn][i].for = t
    <3>1. PICK c \in Conn : c = task[t].conn
      BY <1>1, <2>1 DEF IInv, TypeOK, TaskState
    <3>2. Conversation(t, c) /\ task[t].pc \in Talking
      BY <1>1, <3>1, HolderTalks
    <3> DEFINE a == Msg(t, "ok")
               b == Msg(t, "meta")
               e == Msg(t, "error")
               y == Msg(t, "bytes")
    <3>3. /\ \A j \in DOMAIN <<a>> : <<a>>[j].for = t
          /\ \A j \in DOMAIN <<b>> : <<b>>[j].for = t
          /\ \A j \in DOMAIN <<e>> : <<e>>[j].for = t
          /\ \A j \in DOMAIN <<y>> : <<y>>[j].for = t
          /\ \A j \in DOMAIN <<b, y>> : <<b, y>>[j].for = t
      <4>1. a.for = t /\ b.for = t /\ e.for = t /\ y.for = t
        BY Frames
      <4> HIDE DEF a, b, e, y
      <4> QED BY <4>1
    <3>4. \/ down[c] = <<>> \/ down[c] = <<a>> \/ down[c] = <<b>>
          \/ down[c] = <<e>> \/ down[c] = <<y>> \/ down[c] = <<b, y>>
      BY <3>2 DEF Conversation, Talking
    <3> HIDE DEF a, b, e, y
    <3>5. \A j \in DOMAIN down[c] : down[c][j].for = t
      <4>1. CASE down[c] = <<>>
        BY <4>1
      <4>2. CASE down[c] # <<>>
        BY <3>3, <3>4, <4>2
      <4> QED BY <4>1, <4>2
    <3> QED BY <2>1, <3>1, <3>5
  <2>2. ASSUME NEW c \in Idle PROVE up[c] = <<>> /\ down[c] = <<>>
    <3>1. PICK i \in DOMAIN pool : c = pool[i]
      BY DEF Idle
    <3>2. c \in Conn
      BY <1>1, <3>1 DEF IInv, TypeOK
    <3> QED BY <1>1, <3>1, <3>2 DEF IInv, Conversations, Unused, Rest
  <2> QED BY <2>1, <2>2 DEF OwnAnswers
<1> QED BY <1>1, AlwaysIInv, PTL

(* Whatever breaks off in the middle of a payload, the bytes the block     *)
(* counts are whole and hashed in their order, for any number of chunks    *)
(* and of concurrent writers.                                              *)
THEOREM CountedBytesIntact == Spec => []CountedIntact
<1>1. IInv => CountedIntact
  BY DEF IInv
<1> QED BY <1>1, AlwaysIInv, PTL

-----------------------------------------------------------------------------
(* Every operation implements ChunkTransfer *)

LEMMA TransferInit ==
    ASSUME Init, NEW t \in Task PROVE Transfer(t)!Init
BY DEF Init, Transfer!Init, Outcome

LEMMA SameOutcome ==
    ASSUME NEW u \in Task, copied'[u] = copied[u],
           \/ task'[u].pc = task[u].pc
           \/ task[u].pc \notin Ended /\ task'[u].pc \notin Ended
    PROVE  UNCHANGED <<Outcome(u), copied[u]>>
BY DEF Outcome, Ended

LEMMA TaskTransfers ==
    ASSUME IInv, NEW t \in Task, Acquire(t) \/ TaskStep(t), NEW u \in Task
    PROVE  Transfer(u)!Next \/ UNCHANGED <<Outcome(u), copied[u]>>
<1>1. TypeOK
  BY DEF IInv
<1>2. copied' = copied
  BY DEF TaskStep, Acquire, Connect, HearGo, SendPayload, Succeed, Refused,
         Cancel
<1>3. CASE Acquire(t) \/ Connect(t) \/ HearGo(t) \/ SendPayload(t)
  <2>1. /\ \A v \in Task \ {t} : task'[v].pc = task[v].pc
        /\ task[t].pc \notin Ended /\ task'[t].pc \notin Ended
    <3>1. CASE Acquire(t)
      <4>1. task[t].pc = "idle"
        BY <3>1 DEF Acquire
      <4> QED BY <3>1, <4>1, AcquireKeeps DEF Ended
    <3>2. CASE Connect(t)
      BY <1>1, <3>2 DEF Connect, Request, TypeOK, TaskState, Ended
    <3>3. CASE HearGo(t)
      BY <1>1, <3>3 DEF HearGo, TypeOK, TaskState, Ended
    <3>4. CASE SendPayload(t)
      BY <1>1, <3>4 DEF SendPayload, TypeOK, TaskState, Ended
    <3> QED BY <1>3, <3>1, <3>2, <3>3, <3>4
  <2> QED BY <1>2, <2>1, SameOutcome
<1>4. ASSUME NEW r \in Ended, Finish(t, r), task[t].pc \notin Ended,
             r = "ok" => copied[t] = 1
      PROVE  Transfer(u)!Next \/ UNCHANGED <<Outcome(u), copied[u]>>
  <2>1. task'[t].pc = r /\ \A v \in Task \ {t} : task'[v] = task[v]
    BY <1>1, <1>4, FinishEffect
  <2>2. CASE u # t
    BY <1>2, <2>1, <2>2, SameOutcome
  <2>3. CASE u = t
    <3>1. Outcome(t) = "pending" /\ Outcome(t)' = r
      BY <1>4, <2>1 DEF Outcome, Ended
    <3> QED BY <1>2, <1>4, <2>3, <3>1
            DEF Transfer!Next, Transfer!Report, Transfer!Succeed,
                Transfer!Fail, Ended
  <2> QED BY <2>2, <2>3
<1>5. CASE Succeed(t)
  <2>1. Finish(t, "ok") /\ task[t].pc \notin Ended
    BY <1>5 DEF Succeed, LastAnswer, Ended
  <2>2. copied[t] = 1
    BY <1>5, SucceedKeeps
  <2> QED BY <1>4, <2>1, <2>2 DEF Ended
<1>6. CASE Refused(t) \/ Cancel(t)
  <2>1. Finish(t, "failed") /\ task[t].pc \notin Ended
    BY <1>6 DEF Refused, Cancel, Ended
  <2> QED BY <1>4, <2>1 DEF Ended
<1> QED BY <1>3, <1>5, <1>6 DEF TaskStep

LEMMA ServerTransfers ==
    ASSUME IInv, NEW c \in Conn, ServerStep(c) \/ ServerDeadline(c),
           NEW u \in Task
    PROVE  Transfer(u)!Next \/ UNCHANGED <<Outcome(u), copied[u]>>
<1>1. TypeOK
  BY DEF IInv
<1>2. task' = task
  BY DEF ServerStep, TakeRequest, LockBlock, TakePayload, SendBytes, PeerGone,
         ServerDeadline
<1>3. Outcome(u)' = Outcome(u)
  BY <1>2 DEF Outcome
<1>4. CASE copied' = copied
  BY <1>3, <1>4
<1>5. CASE copied' # copied
  <2>1. TakePayload(c) \/ SendBytes(c)
    BY <1>5 DEF ServerStep, TakeRequest, LockBlock, PeerGone, ServerDeadline
  <2>2. copied[srv[c].for] = 0
    BY <2>1, TakePayloadKeeps, SendBytesKeeps
  <2>3. copied' = [copied EXCEPT ![srv[c].for] = @ + 1]
    BY <1>5, <2>1 DEF TakePayload, SendBytes
  <2>4. \/ copied'[u] = copied[u]
        \/ copied[u] = 0 /\ copied'[u] = 1
    BY <1>1, <2>2, <2>3 DEF TypeOK
  <2> QED BY <1>3, <2>4 DEF Transfer!Next, Transfer!Deliver
<1> QED BY <1>4, <1>5

(* tcp_write_chunk and tcp_read_chunk keep the data plane's promise: no    *)
(* failure of a connection, on either side, copies a chunk twice, and      *)
(* success is only reported for a chunk that was copied.                   *)
THEOREM ImplementsTransfer == Spec => IsTransfer
<1> DEFINE Moves == \A t \in Task :
             Transfer(t)!Next \/ UNCHANGED <<Outcome(t), copied[t]>>
<1>1. Init => \A t \in Task : Transfer(t)!Init
  BY TransferInit
<1>2. IInv /\ [Next]_vars => [Moves]_vars
  <2> SUFFICES ASSUME IInv, Next PROVE Moves
    OBVIOUS
  <2>1. ASSUME NEW t \in Task, Acquire(t) \/ TaskStep(t) PROVE Moves
    BY <2>1, TaskTransfers
  <2>2. ASSUME NEW c \in Conn, ServerStep(c) \/ ServerDeadline(c) PROVE Moves
    BY <2>2, ServerTransfers
  <2>3. CASE Commit \/ LoseBlock \/ Vanish
    <3>1. task' = task /\ copied' = copied
      BY <2>3 DEF Commit, LoseBlock, Vanish
    <3> QED BY <3>1, SameOutcome
  <2> QED BY <2>1, <2>2, <2>3 DEF Next
<1> HIDE DEF Moves
<1>3. Spec => (\A t \in Task : Transfer(t)!Init) /\ [][Moves]_vars
  BY <1>1, <1>2, AlwaysIInv, PTL DEF Spec
<1> QED BY <1>3 DEF IsTransfer, Moves

=============================================================================
