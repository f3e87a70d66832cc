------------------------------- MODULE TftpWrite -------------------------------
(****************************************************************************)
(* serve_wrq of mini_tftpd.py: a thread per upload, which acknowledges each *)
(* block it has not seen yet and, when the short one has come, stores the   *)
(* file.  Uploads of one path meet here: names that differ in their         *)
(* directory only are the same path (os.path.basename), nothing is locked,  *)
(* and open(path, "wb") empties the file some time before it is written.    *)
(*                                                                          *)
(* The wire is that of module Tftp.  A client is known by the file it       *)
(* sends.  A packet that makes the thread only repeat its last ACK, or wait *)
(* five more seconds (an old block, a runt, another opcode), changes        *)
(* nothing here.                                                            *)
(****************************************************************************)
EXTENDS Integers, Sequences

CONSTANTS
  Threads,    \* bound: copies of the requests (WRQ) that arrive
  Files,      \* what is uploaded to the path, by a client each
  OldSizes,   \* how long the file at the path may be before
  BlockSize,  \* BLOCK_SIZE
  W,          \* block numbers are sent modulo W (2^16)
  Lifetime,   \* no packet arrives more than that many blocks late
  NoFile,     \* none of the files uploaded: where the bytes of the old one are from
  NoThread    \* the client has not heard from any thread

ASSUME FilesAssumption == /\ \A f \in Files : f.size \in Nat
                          /\ NoFile \notin Files /\ OldSizes \subseteq Nat
ASSUME ThreadsAssumption == NoThread \notin Threads
ASSUME SizesAssumption == /\ BlockSize \in Nat \ {0}
                          /\ W \in Nat /\ W > 1 /\ Lifetime \in Nat /\ Lifetime < W

VARIABLES
  disk,    \* the bytes at the path: the file each is from, and its place in it
  server,  \* "up", or "stopped" with Ctrl-C, which ends the threads where they are
  thread,  \* the serve_wrq threads: whose upload (from) and what came of it (got)
  data,    \* DATA packets sent so far
  acks,    \* ACK packets sent so far
  client   \* the tftp -p processes, each with the block it waits to see acknowledged

vars == <<disk, server, thread, data, acks, client>>

Source(t) == IF thread[t].got = <<>> THEN NoFile ELSE thread[t].from

Outcome(t) ==
  CASE thread[t].pc \in {"free", "receiving"} -> "running"
    [] thread[t].pc = "timedout" -> "failed"
    [] OTHER -> "ok"

FT(t) == INSTANCE FileTransfer WITH
           source <- Source(t), got <- thread[t].got, outcome <- Outcome(t)

Piece(f, from) == FT(NoThread)!Piece(f, from)

Bytes(file, size) == [i \in 1..size |-> <<file, i>>]

Init ==
  /\ disk \in {Bytes(NoFile, size) : size \in OldSizes}
  /\ server = "up"
  /\ thread = [t \in Threads |-> [pc |-> "free", from |-> NoFile, got |-> <<>>]]
  /\ data = {} /\ acks = {}
  /\ client = [f \in Files |-> [pc |-> "running", block |-> 0, port |-> NoThread]]

SameNumber(a, b) == a % W = b % W

--------------------------------------------------------------------------------
(* The server *)

Acknowledge(t, b) == acks' = acks \cup {[thread |-> t, block |-> b]}

\* A WRQ arrives: the thread says that block 1 may come.
Accept(t) ==
  /\ server = "up" /\ thread[t].pc = "free"
  /\ \E f \in Files :
       thread' = [thread EXCEPT ![t] = [pc |-> "receiving", from |-> f, got |-> <<>>]]
  /\ Acknowledge(t, 0)
  /\ UNCHANGED <<disk, server, data, client>>

\* expected_block
Expected(t) == Len(thread[t].got) + 1

\* Mutant: the number is not looked at.
IsAnyBlock(p, t) == p.thread = t

IsExpected(p, t) == p.thread = t /\ SameNumber(p.block, Expected(t))

\* Mutant: an empty block does not end the file.
LastUnlessEmpty(chunk) == chunk.size < BlockSize /\ chunk.size > 0

LastChunk(chunk) == chunk.size < BlockSize

\* The block expected: keep it and acknowledge it, the last one too, although it
\* is not stored yet.
Receive(t) ==
  /\ server = "up" /\ thread[t].pc = "receiving"
  /\ \E p \in data :
       /\ IsExpected(p, t)
       /\ Expected(t) - p.block <= Lifetime
       /\ thread' = [thread EXCEPT ![t].got = Append(@, p.chunk),
                                   ![t].pc = IF LastChunk(p.chunk) THEN "opening" ELSE @]
       /\ Acknowledge(t, Expected(t))
  /\ UNCHANGED <<disk, server, data, client>>

\* Five seconds of silence end the upload; what came so far is thrown away.
Timeout(t) ==
  /\ server = "up" /\ thread[t].pc = "receiving"
  /\ thread' = [thread EXCEPT ![t].pc = "timedout"]
  /\ UNCHANGED <<disk, server, data, acks, client>>

\* Mutant: the file is opened without emptying it ("r+b").
KeptByOpen(bytes) == bytes

EmptiedByOpen(bytes) == <<>>

\* open(path, "wb"), or the exception that ends the thread.
Open(t) ==
  /\ server = "up" /\ thread[t].pc = "opening"
  /\ \/ /\ thread' = [thread EXCEPT ![t].pc = "writing"]
        /\ disk' = EmptiedByOpen(disk)
     \/ /\ thread' = [thread EXCEPT ![t].pc = "refused"]
        /\ UNCHANGED disk
  /\ UNCHANGED <<server, data, acks, client>>

\* The blocks received, joined.
Received(t) ==
  [i \in 1..FT(t)!Received(thread[t].got) |->
     LET piece == thread[t].got[(i - 1) \div BlockSize + 1]
     IN  <<piece.file, piece.from + ((i - 1) % BlockSize) + 1>>]

\* Writing from the start of a file that may have been written since it was opened.
WrittenOver(bytes) ==
  bytes \o SubSeq(disk, Len(bytes) + 1, Len(disk))

\* f.write(received), all of it or as much as there is room for.
Write(t) ==
  /\ server = "up" /\ thread[t].pc = "writing"
  /\ \/ /\ thread' = [thread EXCEPT ![t].pc = "stored"]
        /\ disk' = WrittenOver(Received(t))
     \/ /\ thread' = [thread EXCEPT ![t].pc = "lost"]
        /\ \E room \in 0..(Len(Received(t)) - 1) :
             disk' = WrittenOver(SubSeq(Received(t), 1, room))
  /\ UNCHANGED <<server, data, acks, client>>

CtrlC ==
  /\ server = "up" /\ server' = "stopped"
  /\ UNCHANGED <<disk, thread, data, acks, client>>

--------------------------------------------------------------------------------
(* The clients *)

\* The ACK of the block on its way, from the port that answered first: send the
\* next one, or be done.
Hear(f) ==
  /\ client[f].pc = "running"
  /\ LET block == client[f].block
     IN  \E a \in acks :
           /\ thread[a.thread].from = f /\ client[f].port \in {NoThread, a.thread}
           /\ SameNumber(a.block, block) /\ block - a.block <= Lifetime
           /\ IF block > 0 /\ Piece(f, (block - 1) * BlockSize).size < BlockSize
              THEN /\ client' = [client EXCEPT ![f].pc = "ok"]
                   /\ UNCHANGED data
              ELSE /\ client' = [client EXCEPT ![f].block = block + 1,
                                               ![f].port = a.thread]
                   /\ data' = data \cup {[thread |-> a.thread, block |-> block + 1,
                                          chunk |-> Piece(f, block * BlockSize)]}
  /\ UNCHANGED <<disk, server, thread, acks>>

\* Out of retries.
GiveUp(f) ==
  /\ client[f].pc = "running"
  /\ client' = [client EXCEPT ![f].pc = "failed"]
  /\ UNCHANGED <<disk, server, thread, data, acks>>

--------------------------------------------------------------------------------
Next ==
  \/ \E t \in Threads : Accept(t) \/ Receive(t) \/ Timeout(t) \/ Open(t) \/ Write(t)
  \/ CtrlC
  \/ \E f \in Files : Hear(f) \/ GiveUp(f)

Spec == Init /\ [][Next]_vars

\* A thread that has everything goes on to open and write.  A thread that waits
\* need not end: any packet at all gives it five more seconds.
FairSpec == Spec /\ \A t \in Threads : WF_vars(Open(t)) /\ WF_vars(Write(t))

--------------------------------------------------------------------------------
\* What a thread has received is the pieces of one file in order, none missing and
\* none twice, and it goes on to store them only with the last: an upload keeps the
\* promise of a download, seen from the other end.
Upload ==
  /\ \A t \in Threads : FT(t)!Init
  /\ [][\A t \in Threads : [FT(t)!Next]_<<Source(t), thread[t].got, Outcome(t)>>]_vars

Touching == {t \in Threads : thread[t].pc \in {"writing", "stored", "lost"}}

\* Without a lock: the path holds the old file until an upload is complete, and
\* once no thread is writing and none ran out of room, it begins with all of one
\* upload and ends where one ends; only when uploads by several clients met can
\* anything follow, and that is from the longer ones, each byte where it belongs.
\* A client whose request came twice stores its file once.
IsByteOf(t, i) == i <= thread[t].from.size /\ disk[i] = <<thread[t].from, i>>

Layered ==
  /\ \E t \in Touching : Len(disk) = thread[t].from.size
  /\ \E t \in Touching : /\ thread[t].from.size <= Len(disk)
                         /\ \A i \in 1..thread[t].from.size : IsByteOf(t, i)
  /\ \A i \in 1..Len(disk) : \E t \in Touching : IsByteOf(t, i)

StoredIsWhole ==
  /\ Touching = {} => disk \in {Bytes(NoFile, size) : size \in OldSizes}
  /\ \A t, u \in Touching : thread[t].from = thread[u].from => t = u
  /\ (Touching # {} /\ \A t \in Touching : thread[t].pc = "stored") => Layered

\* The client is told that all is well before the file is written (lines 105 and
\* 107): it is stored in the end, unless it cannot be opened, there is no room, or
\* the server is stopped in between.
AckedIsStored ==
  \A f \in Files :
    (client[f].pc = "ok") ~>
      \/ server = "stopped"
      \/ \E t \in Threads :
           thread[t].from = f /\ thread[t].pc \in {"stored", "refused", "lost"}
================================================================================
