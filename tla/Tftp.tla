---------------------------------- MODULE Tftp ---------------------------------
(****************************************************************************)
(* serve_rrq of mini_tftpd.py: one thread per request, stop-and-wait with   *)
(* five attempts per block, and the BusyBox client that fetches one file.   *)
(*                                                                          *)
(* UDP loses, duplicates, delays and reorders: the wire holds every packet  *)
(* sent so far and delivers any of them at any time, or never.  Sending a   *)
(* packet again therefore changes the counters of the sender only.  Block   *)
(* numbers are 16 bits wide (mod W here); Lifetime says how many blocks a   *)
(* packet can be late.  The client's request (RRQ) is on the wire from the  *)
(* start, and each copy of it starts another thread on another port.        *)
(****************************************************************************)
EXTENDS Integers, Sequences

CONSTANTS
  Threads,    \* bound: copies of the request that arrive
  Files,      \* what the served path may hold, a file half written included
  BlockSize,  \* BLOCK_SIZE
  W,          \* block numbers are sent modulo W (2^16)
  Lifetime,   \* no packet arrives more than that many blocks late
  Attempts,   \* sendto calls per block (5)
  NoFile,     \* the path does not exist
  NoThread    \* the client has not heard from any thread

ASSUME FilesAssumption == /\ \A f \in Files : f.size \in Nat
                          /\ NoFile \notin Files
ASSUME ThreadsAssumption == NoThread \notin Threads
ASSUME SizesAssumption ==
  /\ BlockSize \in Nat \ {0} /\ Attempts \in Nat \ {0}
  /\ W \in Nat /\ W > 1 /\ Lifetime \in Nat /\ Lifetime < W

VARIABLES
  disk,    \* what the path in the served directory holds
  thread,  \* the serve_rrq threads
  data,    \* DATA packets sent so far
  acks,    \* ACK and ERROR packets sent to the threads so far
  client   \* the tftp process on the appliance

vars == <<disk, thread, data, acks, client>>

FT == INSTANCE FileTransfer WITH
        source <- IF client.port = NoThread THEN NoFile ELSE thread[client.port].file,
        got <- client.got, outcome <- client.pc

Piece(f, from) == FT!Piece(f, from)

Pieces == [file : Files, from : Nat, size : 0..BlockSize]

TypeOK ==
  /\ disk \in Files \cup {NoFile}
  /\ thread \in [Threads -> [pc : {"free", "waiting", "complete", "failed", "notfound"},
                             file : Files \cup {NoFile}, offset : Nat, block : Nat,
                             attempt : 0..Attempts]]
  /\ data \subseteq [thread : Threads, block : Nat, chunk : Pieces]
  /\ acks \subseteq [op : {"ack", "error"}, thread : Threads, block : Nat]
  /\ client \in [pc : {"running", "ok", "failed"}, port : Threads \cup {NoThread},
                 got : Seq(Pieces)]

Init ==
  /\ disk \in Files \cup {NoFile}
  /\ thread = [t \in Threads |-> [pc |-> "free", file |-> NoFile, offset |-> 0,
                                  block |-> 0, attempt |-> 0]]
  /\ data = {} /\ acks = {}
  /\ client = [pc |-> "running", port |-> NoThread, got |-> <<>>]

\* The served file is rendered again, removed, or is just being written.
Replace ==
  /\ disk' \in Files \cup {NoFile}
  /\ disk' # disk
  /\ UNCHANGED <<thread, data, acks, client>>

SameNumber(a, b) == a % W = b % W

--------------------------------------------------------------------------------
(* The server *)

Send(t, b, piece) ==
  data' = data \cup {[thread |-> t, block |-> b, chunk |-> piece]}

\* An RRQ arrives: the thread reads all of the file, or answers with an ERROR.
Accept(t) ==
  /\ thread[t].pc = "free"
  /\ IF disk = NoFile
     THEN /\ thread' = [thread EXCEPT ![t].pc = "notfound"]
          /\ UNCHANGED data
     ELSE /\ thread' = [thread EXCEPT ![t] = [pc |-> "waiting", file |-> disk,
                                              offset |-> 0, block |-> 1, attempt |-> 1]]
          /\ Send(t, 1, Piece(disk, 0))
  /\ UNCHANGED <<disk, acks, client>>

\* Mutant: the chunk is read from the file when it is sent.
ChunkFromDisk(t, offset) ==
  Piece(IF disk = NoFile THEN thread[t].file ELSE disk, offset)

\* data[offset:offset + BLOCK_SIZE], of what the thread has read.
Chunk(t, offset) == Piece(thread[t].file, offset)

\* Mutant: the number is not looked at.
AcknowledgesAny(p, t) == p.op = "ack"

Acknowledges(p, t) == p.op = "ack" /\ SameNumber(p.block, thread[t].block)

\* Mutant: the transfer ends when all bytes are sent, an empty block never is.
LastChunkFull(t, chunk) == chunk.from + chunk.size = thread[t].file.size

LastChunk(t, chunk) == chunk.size < BlockSize

\* The ACK of the block on its way: go on to the next one, or finish.
Advance(t) ==
  LET chunk  == Chunk(t, thread[t].offset)
      offset == thread[t].offset + chunk.size
      block  == thread[t].block + 1
  IN  IF LastChunk(t, chunk)
      THEN /\ thread' = [thread EXCEPT ![t].pc = "complete", ![t].offset = offset]
           /\ UNCHANGED data
      ELSE /\ thread' = [thread EXCEPT ![t].offset = offset, ![t].block = block,
                                       ![t].attempt = 1]
           /\ Send(t, block, Chunk(t, offset))

\* Mutant: the attempts start over.
RetryForever(t) ==
  thread' = [thread EXCEPT ![t].attempt = IF @ = Attempts THEN 1 ELSE @ + 1]

\* Mutant: one attempt too many.
RetryOnceMore(t) ==
  thread' = [thread EXCEPT
    ![t].pc = IF thread[t].attempt > Attempts THEN "failed" ELSE @,
    ![t].attempt = IF thread[t].attempt > Attempts THEN @ ELSE @ + 1]

\* Anything else, or five seconds of silence: send it again, five times in all.
Retry(t) ==
  thread' = [thread EXCEPT
    ![t].pc = IF thread[t].attempt = Attempts THEN "failed" ELSE @,
    ![t].attempt = IF thread[t].attempt = Attempts THEN @ ELSE @ + 1]

\* recvfrom returns: a packet for this port.
Receive(t) ==
  /\ thread[t].pc = "waiting"
  /\ \E p \in acks :
       /\ p.thread = t
       /\ thread[t].block - p.block <= Lifetime
       /\ IF Acknowledges(p, t) THEN Advance(t) ELSE Retry(t) /\ UNCHANGED data
  /\ UNCHANGED <<disk, acks, client>>

Timeout(t) ==
  /\ thread[t].pc = "waiting"
  /\ Retry(t)
  /\ UNCHANGED <<disk, data, acks, client>>

--------------------------------------------------------------------------------
(* The client *)

Expected == Len(client.got) + 1

\* DATA with the number expected, from the port that answered first: write it,
\* acknowledge it, and stop after a short one.
Take ==
  /\ client.pc = "running"
  /\ \E p \in data :
       /\ client.port \in {NoThread, p.thread}
       /\ Expected - p.block <= Lifetime
       /\ SameNumber(p.block, Expected)
       /\ client' = [pc |-> IF p.chunk.size < BlockSize THEN "ok" ELSE "running",
                     port |-> p.thread, got |-> Append(client.got, p.chunk)]
       /\ acks' = acks \cup {[op |-> "ack", thread |-> p.thread, block |-> Expected]}
  /\ UNCHANGED <<disk, thread, data>>

\* An ERROR from the server, or out of retries.
GiveUp ==
  /\ client.pc = "running"
  /\ client' = [client EXCEPT !.pc = "failed"]
  /\ UNCHANGED <<disk, thread, data, acks>>

\* The block cannot be written; the server is told so.
Abort ==
  /\ client.pc = "running" /\ client.port # NoThread
  /\ client' = [client EXCEPT !.pc = "failed"]
  /\ acks' = acks \cup {[op |-> "error", thread |-> client.port, block |-> Expected]}
  /\ UNCHANGED <<disk, thread, data>>

--------------------------------------------------------------------------------
ThreadStep(t) == Receive(t) \/ Timeout(t)

Next ==
  \/ \E t \in Threads : Accept(t) \/ ThreadStep(t)
  \/ Replace \/ Take \/ GiveUp \/ Abort

Spec == Init /\ [][Next]_vars

\* settimeout(5): a thread that waits is woken in the end, by a packet or by the
\* timeout.  Nothing is assumed of the network, the client or the operator.
FairSpec == Spec /\ \A t \in Threads : WF_vars(ThreadStep(t))

--------------------------------------------------------------------------------
\* A download yields the pieces of one state of one file, in order, none missing
\* and none twice, and succeeds only with the last of them, whatever happens to
\* the packets, however many copies of the request were served, and whatever is
\* done to the file meanwhile.
Transfer == FT!Spec

\* mini_tftpd prints "complete" only when the client has the whole file, from
\* this very thread (lines 66-69).
CompleteIsTrue ==
  \A t \in Threads :
    thread[t].pc = "complete" =>
      /\ client.pc = "ok" /\ client.port = t
      /\ FT!Received(client.got) = thread[t].file.size

\* The thread the client listens to is never more than one block ahead of it,
\* and never behind what it acknowledged last; another thread never gets past
\* its first block.
LockStep ==
  \A t \in Threads :
    IF t = client.port THEN thread[t].block \in {Len(client.got), Expected}
    ELSE thread[t].block <= 1

\* No thread lives for ever, not even when stray and duplicate packets keep
\* coming: everything that is not the ACK awaited uses up an attempt.
ThreadsEnd ==
  \A t \in Threads : (thread[t].pc = "waiting") ~> (thread[t].pc # "waiting")
================================================================================
