---------------------------- MODULE ChunkTransfer ----------------------------
(***************************************************************************)
(* What the data plane promises for one chunk, whichever side asked for it *)
(* and over whichever transport: the chunk is delivered once at most, and  *)
(* the asking side reports success only for a chunk that was delivered.    *)
(* A chunk may be delivered although the asking side has given up: a lost  *)
(* answer cannot be told from a lost chunk.  FairSpec adds that it always  *)
(* comes to report something.                                              *)
(*                                                                         *)
(* UdpWrite and UdpRead (ReliableUdpDataTransport.write and read)          *)
(* implement FairSpec, TcpChunk (tcp_write_chunk and tcp_read_chunk)       *)
(* implements Spec.                                                        *)
(***************************************************************************)
EXTENDS Naturals

VARIABLES
    outcome,  \* what the asking side has reported
    copies    \* how often the chunk was delivered

vars == <<outcome, copies>>

Init ==
    /\ outcome = "pending"
    /\ copies = 0

Deliver ==
    /\ copies = 0
    /\ copies' = 1
    /\ UNCHANGED outcome

Succeed ==
    /\ outcome = "pending"
    /\ copies = 1
    /\ outcome' = "ok"
    /\ UNCHANGED copies

Fail ==
    /\ outcome = "pending"
    /\ outcome' = "failed"
    /\ UNCHANGED copies

Report == Succeed \/ Fail

Next == Deliver \/ Report

Spec == Init /\ [][Next]_vars

FairSpec == Spec /\ WF_vars(Report)

=============================================================================
