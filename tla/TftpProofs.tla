------------------------------- MODULE TftpProofs ------------------------------
(****************************************************************************)
(* For every set of files, block size, width of the block numbers (as long  *)
(* as no packet is late by that many blocks), number of attempts and of     *)
(* copies of the request: serve_rrq and its client stay in lock step,       *)
(* "complete" is true when it is printed, and the two implement             *)
(* FileTransfer.                                                            *)
(****************************************************************************)
EXTENDS Tftp, TLAPS

Got == client.got

Received(pieces) == FT!Received(pieces)

ThreadRecord ==
  [pc : {"free", "waiting", "complete", "failed", "notfound"},
   file : Files \cup {NoFile}, offset : Nat, block : Nat, attempt : 0..Attempts]

\* A thread that has read its file sends the piece at its offset.
ThreadsInv ==
  \A t \in Threads :
    IF thread[t].pc \in {"free", "notfound"}
    THEN thread[t].block = 0 /\ client.port # t
    ELSE /\ thread[t].file \in Files /\ thread[t].block >= 1
         /\ thread[t].offset <= thread[t].file.size

\* A DATA packet carries a piece of its thread's file; the packet with the number
\* the thread is at carries the piece at the thread's offset.
DataInv ==
  \A d \in data :
    LET t == d.thread IN
      /\ thread[t].pc \notin {"free", "notfound"}
      /\ 1 <= d.block /\ d.block <= thread[t].block
      /\ d.chunk = Piece(thread[t].file, d.chunk.from)
      /\ d.block = thread[t].block /\ thread[t].pc # "complete"
           => d.chunk.from = thread[t].offset
      /\ t # client.port => d.chunk.from = 0
      /\ t = client.port /\ d.block = Expected => d.chunk.from = Received(Got)

\* Only blocks that were written are acknowledged, and only to one thread.
AcksInv ==
  \A a \in acks : /\ a.thread = client.port
                  /\ a.op = "ack" => a.block <= Len(Got)

\* Where the thread stands whose data the client takes.
PortInv ==
  client.port # NoThread =>
    LET t == thread[client.port] IN
      /\ t.block = Expected => t.pc # "complete" /\ t.offset = Received(Got)
      /\ t.block = Len(Got) /\ t.pc # "complete"
           => Got[Len(Got)] = Piece(t.file, t.offset)

ClientInv ==
  /\ client.port = NoThread => Got = <<>>
  /\ client.port # NoThread => Got # <<>>
  /\ Got # <<>> => (client.pc = "ok" <=> Got[Len(Got)].size < BlockSize)
  /\ client.pc = "ok" => Got # <<>>

Inv == /\ TypeOK /\ LockStep /\ CompleteIsTrue
       /\ ThreadsInv /\ DataInv /\ AcksInv /\ PortInv /\ ClientInv

--------------------------------------------------------------------------------
\* Numbers that agree modulo W belong to the same block when they are less than W
\* blocks apart.
LEMMA SameBlock ==
  ASSUME NEW a \in Nat, NEW b \in Nat, a <= b, b - a < W, SameNumber(a, b)
  PROVE  a = b
<1> DEFINE i == a \div W
           j == b \div W
           k == j - i
<1>1. W \in Nat /\ W > 1 /\ a % W = b % W
  BY SizesAssumption DEF SameNumber
<1>2. i \in Int /\ j \in Int /\ a = W * i + (a % W) /\ b = W * j + (b % W)
  BY <1>1, SMT
<1> HIDE DEF i, j
<1>3. b - a = W * k
  BY <1>1, <1>2, SMT
<1>4. k \in Int /\ W * k < W /\ 0 <= W * k
  BY <1>2, <1>3
<1> HIDE DEF k
<1>5. k = 0
  BY <1>1, <1>4, SMT
<1> QED
  BY <1>1, <1>3, <1>5

\* The piece at an offset inside the file, or at its end.
LEMMA PieceType ==
  ASSUME NEW f \in Files, NEW from \in Nat, from <= f.size
  PROVE  /\ Piece(f, from) \in Pieces
         /\ Piece(f, from).file = f /\ Piece(f, from).from = from
         /\ Piece(f, from).size \in Nat
         /\ from + Piece(f, from).size <= f.size
         /\ Piece(f, from).size < BlockSize
              => from + Piece(f, from).size = f.size
<1>1. f.size \in Nat /\ BlockSize \in Nat /\ BlockSize > 0
  BY FilesAssumption, SizesAssumption
<1>2. Piece(f, from) = [file |-> f, from |-> from,
        size |-> IF f.size - from < BlockSize THEN f.size - from ELSE BlockSize]
  BY DEF Piece, FT!Piece
<1>3. (IF f.size - from < BlockSize THEN f.size - from ELSE BlockSize) \in 0..BlockSize
  BY <1>1
<1>4. Piece(f, from) \in Pieces
  BY <1>2, <1>3 DEF Pieces
<1> QED
  BY <1>1, <1>2, <1>4

LEMMA ReceivedAppend ==
  ASSUME NEW s \in Seq(Pieces), NEW c \in Pieces
  PROVE  Received(Append(s, c)) = c.from + c.size
  BY DEF Received, FT!Received

LEMMA ReceivedEmpty == Received(<<>>) = 0
  BY DEF Received, FT!Received

LEMMA InitInv == Init => Inv
<1> SUFFICES ASSUME Init PROVE Inv
  OBVIOUS
<1> USE DEF Init
<1>1. TypeOK
  BY SizesAssumption DEF TypeOK
<1>2. LockStep /\ CompleteIsTrue
  BY ThreadsAssumption DEF LockStep, CompleteIsTrue, Expected
<1>3. ThreadsInv
  BY ThreadsAssumption DEF ThreadsInv
<1>4. DataInv /\ AcksInv
  BY DEF DataInv, AcksInv
<1>5. PortInv /\ ClientInv
  BY DEF PortInv, ClientInv, Got
<1> QED
  BY <1>1, <1>2, <1>3, <1>4, <1>5 DEF Inv

\* An ERROR, or a thread that starts: it has sent the first piece to a client that
\* does not listen to it yet.
LEMMA AcceptInv ==
  ASSUME Inv, NEW t \in Threads, Accept(t)
  PROVE  Inv'
<1> USE DEF Inv
<1>1. /\ thread[t].pc = "free" /\ client.port # t
      /\ UNCHANGED <<disk, acks, client>>
  BY DEF Accept, ThreadsInv
<1>2. \A d \in data : d.thread # t
  BY <1>1 DEF DataInv
<1>3. CASE disk = NoFile
  <2>1. thread' = [thread EXCEPT ![t].pc = "notfound"] /\ data' = data
    BY <1>3 DEF Accept
  <2>2. TypeOK'
    BY <1>1, <2>1 DEF TypeOK
  <2>3. /\ thread'[t].pc = "notfound" /\ thread'[t].block = thread[t].block
        /\ \A u \in Threads \ {t} : thread'[u] = thread[u]
    BY <2>1 DEF TypeOK
  <2>4. LockStep' /\ CompleteIsTrue'
    BY <1>1, <2>3 DEF LockStep, CompleteIsTrue, Expected
  <2>5. ThreadsInv'
    BY <1>1, <2>3 DEF ThreadsInv
  <2>6. DataInv'
    BY <1>1, <1>2, <2>1, <2>3 DEF DataInv, TypeOK, Expected, Got
  <2>7. AcksInv' /\ PortInv' /\ ClientInv'
    BY <1>1, <2>3 DEF AcksInv, PortInv, ClientInv, Expected, Got, TypeOK
  <2> QED
    BY <2>2, <2>4, <2>5, <2>6, <2>7
<1>4. CASE disk # NoFile
  <2> DEFINE new == [pc |-> "waiting", file |-> disk, offset |-> 0, block |-> 1,
                     attempt |-> 1]
             packet == [thread |-> t, block |-> 1, chunk |-> Piece(disk, 0)]
  <2>1. thread' = [thread EXCEPT ![t] = new] /\ data' = data \cup {packet}
    BY <1>4 DEF Accept, Send
  <2>2. disk \in Files /\ disk.size \in Nat
    BY <1>4, FilesAssumption DEF TypeOK
  <2>3. Piece(disk, 0) \in Pieces /\ Piece(disk, 0).file = disk
        /\ Piece(disk, 0).from = 0
    BY <2>2, PieceType
  <2>4. packet \in [thread : Threads, block : Nat, chunk : Pieces]
    BY <2>3
  <2>5. new \in [pc : {"free", "waiting", "complete", "failed", "notfound"},
                 file : Files \cup {NoFile}, offset : Nat, block : Nat,
                 attempt : 0..Attempts]
    BY <2>2, SizesAssumption
  <2>6. TypeOK'
    BY <1>1, <2>1, <2>4, <2>5 DEF TypeOK
  <2>7. thread'[t] = new /\ \A u \in Threads \ {t} : thread'[u] = thread[u]
    BY <2>1 DEF TypeOK
  <2>8. LockStep' /\ CompleteIsTrue'
    BY <1>1, <2>7 DEF LockStep, CompleteIsTrue, Expected
  <2>9. ThreadsInv'
    BY <1>1, <2>2, <2>7 DEF ThreadsInv
  <2>10. DataInv'
    <3>1. \A d \in data : d.thread \in Threads \ {t}
      BY <1>2 DEF TypeOK
    <3>2. \A d \in data : thread'[d.thread] = thread[d.thread]
      BY <2>7, <3>1
    <3> SUFFICES ASSUME NEW d \in data'
                 PROVE  LET u == d.thread IN
                   /\ thread'[u].pc \notin {"free", "notfound"}
                   /\ 1 <= d.block /\ d.block <= thread'[u].block
                   /\ d.chunk = Piece(thread'[u].file, d.chunk.from)
                   /\ d.block = thread'[u].block /\ thread'[u].pc # "complete"
                        => d.chunk.from = thread'[u].offset
                   /\ u # client.port => d.chunk.from = 0
                   /\ u = client.port /\ d.block = Expected
                        => d.chunk.from = Received(Got)
      BY <1>1 DEF DataInv, Expected, Got, Piece, FT!Piece, Received, FT!Received
    <3>3. CASE d \in data
      BY <3>2, <3>3 DEF DataInv
    <3>4. CASE d = packet
      BY <1>1, <2>3, <2>7, <3>4
    <3> QED
      BY <2>1, <3>3, <3>4
  <2>11. AcksInv' /\ PortInv' /\ ClientInv'
    BY <1>1, <2>7 DEF AcksInv, PortInv, ClientInv, Expected, Got, TypeOK
  <2> QED
    BY <2>6, <2>8, <2>9, <2>10, <2>11
<1> QED
  BY <1>3, <1>4

\* An attempt more or the end of them: what was sent and read stays as it is.
LEMMA RetryInv ==
  ASSUME Inv, NEW t \in Threads, thread[t].pc = "waiting", Retry(t),
         UNCHANGED <<disk, data, acks, client>>
  PROVE  Inv'
<1> USE DEF Inv
<1> DEFINE last == thread[t].attempt = Attempts
           pc == IF last THEN "failed" ELSE "waiting"
           attempt == IF last THEN thread[t].attempt ELSE thread[t].attempt + 1
<1>1. thread' = [thread EXCEPT ![t].pc = pc, ![t].attempt = attempt]
  BY DEF Retry
<1>2. thread[t].attempt \in 0..Attempts /\ Attempts \in Nat
  BY SizesAssumption DEF TypeOK
<1>3. attempt \in 0..Attempts
  BY <1>2
<1>4. pc \in {"waiting", "failed"}
  OBVIOUS
<1> HIDE DEF pc, attempt
<1>5. TypeOK'
  <2> DEFINE r == [thread[t] EXCEPT !.pc = pc, !.attempt = attempt]
  <2>1. thread \in [Threads -> ThreadRecord]
    BY DEF TypeOK, ThreadRecord
  <2>2. r \in ThreadRecord
    BY <1>3, <1>4, <2>1 DEF ThreadRecord
  <2>3. thread' = [thread EXCEPT ![t] = r]
    BY <1>1, <2>1
  <2> HIDE DEF r
  <2>4. thread' \in [Threads -> ThreadRecord]
    BY <2>1, <2>2, <2>3
  <2> QED
    BY <2>4 DEF TypeOK, ThreadRecord
<1>6. /\ thread'[t].pc \in {"waiting", "failed"}
      /\ \A u \in Threads : /\ thread'[u].file = thread[u].file
                            /\ thread'[u].offset = thread[u].offset
                            /\ thread'[u].block = thread[u].block
                            /\ u # t => thread'[u].pc = thread[u].pc
  BY <1>1, <1>4 DEF TypeOK
<1>7. LockStep'
  BY <1>6 DEF LockStep, Expected
<1>8. CompleteIsTrue'
  BY <1>6 DEF CompleteIsTrue, FT!Received
<1>9. ThreadsInv'
  BY <1>6 DEF ThreadsInv
<1>10. DataInv'
  <2>1. \A d \in data : d.thread \in Threads
    BY DEF TypeOK
  <2> QED
    BY <1>6, <2>1 DEF DataInv, Expected, Got, Piece, FT!Piece, Received, FT!Received
<1>11. AcksInv' /\ ClientInv'
  BY DEF AcksInv, ClientInv, Got
<1>12. PortInv'
  <2>1. client.port \in Threads \cup {NoThread}
    BY DEF TypeOK
  <2> QED
    BY <1>6, <2>1 DEF PortInv, Expected, Got, Piece, FT!Piece, Received, FT!Received
<1> QED
  BY <1>5, <1>7, <1>8, <1>9, <1>10, <1>11, <1>12

\* The awaited ACK can only come from the client, which has then written the very
\* piece the thread was sending.
LEMMA AdvanceInv ==
  ASSUME Inv, NEW t \in Threads, thread[t].pc = "waiting",
         NEW p \in acks, p.thread = t, thread[t].block - p.block <= Lifetime,
         Acknowledges(p, t), Advance(t), UNCHANGED <<disk, acks, client>>
  PROVE  Inv'
<1> USE DEF Inv
<1> DEFINE f == thread[t].file
           offset == thread[t].offset
           chunk == Piece(f, offset)
           n == Len(Got)
<1>1. f \in Files /\ offset \in Nat /\ offset <= f.size /\ thread[t].block >= 1
  BY DEF ThreadsInv, TypeOK
<1>2. t = client.port /\ t # NoThread /\ p.block <= n
  BY ThreadsAssumption DEF AcksInv, Acknowledges
<1>3. Got \in Seq(Pieces) /\ n \in Nat /\ p.block \in Nat /\ thread[t].block \in Nat
  BY DEF TypeOK, Got
<1>4. thread[t].block = n
  <2>1. thread[t].block \in {n, n + 1}
    BY <1>2 DEF LockStep, Expected, Got
  <2>2. p.block <= thread[t].block /\ thread[t].block - p.block < W
    BY <1>2, <1>3, <2>1, SizesAssumption
  <2>3. p.block = thread[t].block
    BY <1>3, <2>2, SameBlock DEF Acknowledges
  <2> QED
    BY <1>2, <1>3, <2>1, <2>3
<1>5. Got[n] = chunk /\ Got # <<>> /\ n > 0
  BY <1>1, <1>2, <1>3, <1>4 DEF PortInv, Got, ClientInv
<1>6. chunk.from = offset /\ chunk.file = f /\ chunk.size \in Nat
      /\ offset + chunk.size <= f.size /\ chunk \in Pieces
      /\ (chunk.size < BlockSize => offset + chunk.size = f.size)
  BY <1>1, PieceType
<1>7. Received(Got) = offset + chunk.size
  BY <1>5, <1>6 DEF Received, FT!Received
<1>8. chunk.size < BlockSize <=> client.pc = "ok"
  BY <1>5 DEF ClientInv
<1> DEFINE next == Piece(f, offset + chunk.size)
<1>9. next \in Pieces /\ next.from = offset + chunk.size
  BY <1>1, <1>6, PieceType
<1>10. Chunk(t, thread[t].offset) = chunk
  BY DEF Chunk
<1>11. CASE chunk.size < BlockSize
  <2>1. /\ thread' = [thread EXCEPT ![t].pc = "complete",
                                    ![t].offset = offset + chunk.size]
        /\ data' = data
    BY <1>10, <1>11 DEF Advance, LastChunk
  <2>2. /\ thread'[t].pc = "complete" /\ thread'[t].offset = offset + chunk.size
        /\ thread'[t].block = n /\ thread'[t].file = f
        /\ \A u \in Threads \ {t} : thread'[u] = thread[u]
    BY <1>4, <2>1 DEF TypeOK
  <2>3. TypeOK'
    <3>1. offset + chunk.size \in Nat
      BY <1>1, <1>6
    <3> DEFINE sum == offset + chunk.size
    <3> HIDE DEF sum
    <3>2. thread' \in [Threads -> ThreadRecord]
      <4>1. thread' = [thread EXCEPT ![t].pc = "complete", ![t].offset = sum]
        BY <2>1 DEF sum
      <4>2. sum \in Nat /\ thread \in [Threads -> ThreadRecord]
        BY <3>1 DEF TypeOK, ThreadRecord, sum
      <4> DEFINE r == [thread[t] EXCEPT !.pc = "complete", !.offset = sum]
      <4>3. r \in ThreadRecord
        BY <4>2 DEF ThreadRecord
      <4>4. thread' = [thread EXCEPT ![t] = r]
        BY <4>1, <4>2
      <4> HIDE DEF r
      <4> QED
        BY <4>2, <4>3, <4>4
    <3> QED
      BY <2>1, <3>2 DEF TypeOK, ThreadRecord
  <2>4. LockStep'
    BY <1>2, <1>4, <2>2 DEF LockStep, Expected
  <2>5. CompleteIsTrue'
    <3>1. FT!Received(client.got) = f.size
      BY <1>6, <1>7, <1>11 DEF Received, Got
    <3>2. client.pc = "ok"
      BY <1>8, <1>11
    <3> SUFFICES ASSUME NEW u \in Threads, thread'[u].pc = "complete"
                 PROVE  /\ client.pc = "ok" /\ client.port = u
                        /\ FT!Received(client.got) = thread'[u].file.size
      BY DEF CompleteIsTrue, FT!Received
    <3>3. CASE u = t
      BY <1>2, <2>2, <3>1, <3>2, <3>3
    <3>4. CASE u # t
      BY <2>2, <3>4 DEF CompleteIsTrue
    <3> QED
      BY <3>3, <3>4
  <2>6. ThreadsInv'
    BY <1>1, <1>3, <1>4, <1>6, <2>2 DEF ThreadsInv
  <2>7. DataInv'
    <3>1. \A d \in data : d.thread \in Threads
      BY DEF TypeOK
    <3>2. \A u \in Threads : /\ thread'[u].file = thread[u].file
                             /\ thread'[u].block = thread[u].block
                             /\ u # t => thread'[u] = thread[u]
      BY <1>4, <2>2
    <3> SUFFICES ASSUME NEW d \in data'
                 PROVE  LET u == d.thread IN
                   /\ thread'[u].pc \notin {"free", "notfound"}
                   /\ 1 <= d.block /\ d.block <= thread'[u].block
                   /\ d.chunk = Piece(thread'[u].file, d.chunk.from)
                   /\ d.block = thread'[u].block /\ thread'[u].pc # "complete"
                        => d.chunk.from = thread'[u].offset
                   /\ u # client.port => d.chunk.from = 0
                   /\ u = client.port /\ d.block = n + 1
                        => d.chunk.from = Received(Got)
      BY DEF DataInv, Expected, Got, Piece, FT!Piece, Received, FT!Received
    <3>3. d \in data
      BY <2>1
    <3>4. CASE d.thread = t
      BY <2>2, <3>2, <3>3, <3>4 DEF DataInv, Expected, Got
    <3>5. CASE d.thread # t
      BY <3>1, <3>2, <3>3, <3>5 DEF DataInv, Expected, Got
    <3> QED
      BY <3>4, <3>5
  <2>8. AcksInv' /\ ClientInv'
    BY DEF AcksInv, ClientInv, Got
  <2>9. PortInv'
    <3>1. n # n + 1
      BY <1>3
    <3> QED
      BY <1>2, <2>2, <3>1 DEF PortInv, Expected, Got
  <2> QED
    BY <2>3, <2>4, <2>5, <2>6, <2>7, <2>8, <2>9
<1>12. CASE ~(chunk.size < BlockSize)
  <2> DEFINE packet == [thread |-> t, block |-> n + 1, chunk |-> next]
  <2>1. /\ thread' = [thread EXCEPT ![t].offset = offset + chunk.size,
                                    ![t].block = n + 1, ![t].attempt = 1]
        /\ data' = data \cup {packet}
    BY <1>4, <1>10, <1>12 DEF Advance, LastChunk, Send, Chunk
  <2>2. /\ thread'[t].pc = "waiting" /\ thread'[t].offset = offset + chunk.size
        /\ thread'[t].block = n + 1 /\ thread'[t].file = f
        /\ \A u \in Threads \ {t} : thread'[u] = thread[u]
    BY <2>1 DEF TypeOK
  <2>3. TypeOK'
    <3>1. offset + chunk.size \in Nat /\ n + 1 \in Nat /\ 1 \in 0..Attempts
      BY <1>1, <1>3, <1>6, SizesAssumption
    <3>2. packet \in [thread : Threads, block : Nat, chunk : Pieces]
      BY <1>9, <3>1
    <3> DEFINE sum == offset + chunk.size
               m == n + 1
               r == [thread[t] EXCEPT !.offset = sum, !.block = m, !.attempt = 1]
    <3> HIDE DEF sum, m
    <3>3. sum \in Nat /\ m \in Nat /\ thread \in [Threads -> ThreadRecord]
      BY <3>1 DEF TypeOK, ThreadRecord, sum, m
    <3>4. r \in ThreadRecord
      BY <3>1, <3>3 DEF ThreadRecord
    <3>5. thread' = [thread EXCEPT ![t] = r]
      BY <2>1, <3>3 DEF sum, m
    <3> HIDE DEF r
    <3>6. thread' \in [Threads -> ThreadRecord]
      BY <3>3, <3>4, <3>5
    <3> HIDE DEF packet
    <3> QED
      BY <2>1, <3>2, <3>6 DEF TypeOK, ThreadRecord
  <2>4. LockStep'
    BY <1>2, <2>2 DEF LockStep, Expected, Got
  <2>5. CompleteIsTrue'
    BY <2>2 DEF CompleteIsTrue, FT!Received
  <2>6. ThreadsInv'
    BY <1>1, <1>3, <1>6, <2>2 DEF ThreadsInv
  <2>7. DataInv'
    <3>1. \A d \in data : d.thread \in Threads /\ d.block \in Nat
      BY DEF TypeOK
    <3> SUFFICES ASSUME NEW d \in data'
                 PROVE  LET u == d.thread IN
                   /\ thread'[u].pc \notin {"free", "notfound"}
                   /\ 1 <= d.block /\ d.block <= thread'[u].block
                   /\ d.chunk = Piece(thread'[u].file, d.chunk.from)
                   /\ d.block = thread'[u].block /\ thread'[u].pc # "complete"
                        => d.chunk.from = thread'[u].offset
                   /\ u # client.port => d.chunk.from = 0
                   /\ u = client.port /\ d.block = n + 1
                        => d.chunk.from = Received(Got)
      BY DEF DataInv, Expected, Got, Piece, FT!Piece, Received, FT!Received
    <3>2. CASE d = packet
      BY <1>2, <1>3, <1>7, <1>9, <2>2, <3>2
    <3>3. CASE d \in data /\ d.thread = t
      <4>1. d.block <= n /\ 1 <= d.block
        BY <1>4, <3>3 DEF DataInv
      <4>2. d.block # n + 1
        BY <1>3, <3>1, <3>3, <4>1
      <4>3. d.block <= n + 1
        BY <1>3, <3>1, <3>3, <4>1
      <4> QED
        BY <1>2, <2>2, <3>3, <4>1, <4>2, <4>3 DEF DataInv
    <3>4. CASE d \in data /\ d.thread # t
      BY <1>2, <2>2, <3>1, <3>4 DEF DataInv
    <3> QED
      BY <2>1, <3>2, <3>3, <3>4
  <2>8. AcksInv' /\ ClientInv'
    BY DEF AcksInv, ClientInv, Got
  <2>9. PortInv'
    <3>1. n # n + 1
      BY <1>3
    <3> QED
      BY <1>2, <1>7, <2>2, <3>1 DEF PortInv, Expected, Got, Received, FT!Received
  <2> QED
    BY <2>3, <2>4, <2>5, <2>6, <2>7, <2>8, <2>9
<1> QED
  BY <1>11, <1>12

\* What the client takes is the piece that follows those it has, and the thread it
\* came from was just sending it.
LEMMA TakenPiece ==
  ASSUME Inv, client.pc = "running", NEW p \in data,
         client.port \in {NoThread, p.thread}, Expected - p.block <= Lifetime,
         SameNumber(p.block, Expected)
  PROVE  LET t == thread[p.thread] IN
           /\ p.block = Expected /\ t.block = Expected
           /\ t.pc \in {"waiting", "failed"} /\ t.file \in Files
           /\ t.offset = Received(Got)
           /\ p.chunk = Piece(t.file, Received(Got))
<1> USE DEF Inv
<1> DEFINE u == p.thread
<1>1. /\ u \in Threads /\ p.block \in Nat /\ p.chunk \in Pieces
      /\ Expected \in Nat /\ thread[u].block \in Nat
      /\ thread[u].pc \in {"free", "waiting", "complete", "failed", "notfound"}
  BY DEF TypeOK, Expected
<1>2. /\ thread[u].pc \notin {"free", "notfound"}
      /\ 1 <= p.block /\ p.block <= thread[u].block
      /\ p.chunk = Piece(thread[u].file, p.chunk.from)
      /\ p.block = thread[u].block /\ thread[u].pc # "complete"
           => p.chunk.from = thread[u].offset
      /\ u # client.port => p.chunk.from = 0
      /\ u = client.port /\ p.block = Expected => p.chunk.from = Received(Got)
  BY DEF DataInv
<1>3. thread[u].file \in Files
  BY <1>1, <1>2 DEF ThreadsInv
<1>4. thread[u].pc # "complete"
  BY <1>1 DEF CompleteIsTrue
<1>5. CASE u = client.port
  <2>1. thread[u].block <= Expected
    BY <1>1, <1>5 DEF LockStep, Expected, TypeOK
  <2>2. p.block = Expected
    BY <1>1, <1>2, <2>1, SameBlock, SizesAssumption
  <2>3. thread[u].block = Expected
    BY <1>1, <1>2, <2>1, <2>2
  <2> QED
    BY <1>1, <1>2, <1>3, <1>4, <1>5, <2>2, <2>3
<1>6. CASE u # client.port
  <2>1. thread[u].block <= 1 /\ Got = <<>> /\ Expected = 1
    BY <1>1, <1>6 DEF LockStep, ClientInv, Expected, Got
  <2>2. p.block = Expected /\ thread[u].block = Expected
    BY <1>1, <1>2, <2>1
  <2>3. Received(Got) = 0
    BY <2>1, ReceivedEmpty
  <2> QED
    BY <1>1, <1>2, <1>3, <1>4, <1>6, <2>2, <2>3
<1> QED
  BY <1>5, <1>6

LEMMA TakeInv == Inv /\ Take => Inv'
<1> SUFFICES ASSUME Inv, Take PROVE Inv'
  OBVIOUS
<1> USE DEF Inv
<1>1. PICK p \in data :
        /\ client.port \in {NoThread, p.thread}
        /\ Expected - p.block <= Lifetime
        /\ SameNumber(p.block, Expected)
        /\ client' = [pc |-> IF p.chunk.size < BlockSize THEN "ok" ELSE "running",
                      port |-> p.thread, got |-> Append(client.got, p.chunk)]
        /\ acks' = acks \cup {[op |-> "ack", thread |-> p.thread, block |-> Expected]}
  BY DEF Take
<1>2. client.pc = "running" /\ UNCHANGED <<disk, thread, data>>
  BY DEF Take
<1> DEFINE u == p.thread
           n == Len(Got)
<1>3. u \in Threads /\ p.chunk \in Pieces /\ Got \in Seq(Pieces) /\ n \in Nat
      /\ u # NoThread
  BY ThreadsAssumption DEF TypeOK, Got
<1>4. \A t \in Threads \ {u} : t # client.port
  BY <1>1, ThreadsAssumption
<1>5. /\ thread[u].block = n + 1
      /\ thread[u].pc \in {"waiting", "failed"} /\ thread[u].file \in Files
      /\ p.chunk = Piece(thread[u].file, thread[u].offset)
      /\ thread[u].offset = Received(Got)
  BY <1>1, <1>2, TakenPiece DEF Expected, Got
<1>6. /\ client'.port = u
      /\ client'.pc = IF p.chunk.size < BlockSize THEN "ok" ELSE "running"
      /\ Got' = Append(Got, p.chunk) /\ Got' \in Seq(Pieces) /\ Got' # <<>>
      /\ Len(Got') = n + 1 /\ Got'[n + 1] = p.chunk /\ client'.got = Got'
  BY <1>1, <1>3 DEF Got
<1>7. TypeOK'
  <2>1. [op |-> "ack", thread |-> u, block |-> Expected]
          \in [op : {"ack", "error"}, thread : Threads, block : Nat]
    BY <1>3 DEF Expected, Got
  <2> DEFINE pc == IF p.chunk.size < BlockSize THEN "ok" ELSE "running"
             got == Append(client.got, p.chunk)
  <2>2. pc \in {"running", "ok", "failed"} /\ got \in Seq(Pieces)
    BY <1>3 DEF Got
  <2>3. client' = [pc |-> pc, port |-> u, got |-> got]
    BY <1>1
  <2> HIDE DEF pc, got
  <2>4. client' \in [pc : {"running", "ok", "failed"}, port : Threads \cup {NoThread},
                     got : Seq(Pieces)]
    BY <1>3, <2>2, <2>3
  <2> QED
    BY <1>1, <1>2, <2>1, <2>4 DEF TypeOK
<1>8. LockStep'
  <2>1. \A t \in Threads \ {u} : thread[t].block <= 1
    BY <1>4 DEF LockStep
  <2> QED
    BY <1>2, <1>5, <1>6, <2>1 DEF LockStep, Expected, Got
<1>9. CompleteIsTrue'
  BY <1>2 DEF CompleteIsTrue
<1>10. ThreadsInv'
  BY <1>2, <1>5, <1>6 DEF ThreadsInv
<1>11. DataInv'
  <2>1. \A d \in data : d.thread \in Threads /\ d.block \in Nat
    BY DEF TypeOK
  <2> SUFFICES ASSUME NEW d \in data'
               PROVE  LET t == d.thread IN
                 /\ thread[t].pc \notin {"free", "notfound"}
                 /\ 1 <= d.block /\ d.block <= thread[t].block
                 /\ d.chunk = Piece(thread[t].file, d.chunk.from)
                 /\ d.block = thread[t].block /\ thread[t].pc # "complete"
                      => d.chunk.from = thread[t].offset
                 /\ t # u => d.chunk.from = 0
                 /\ t = u => d.block # n + 2
    BY <1>2, <1>3, <1>6
    DEF DataInv, Expected, Got, Piece, FT!Piece, Received, FT!Received
  <2>2. d.thread # u => d.chunk.from = 0
    BY <1>2, <1>4, <2>1 DEF DataInv
  <2>3. d.thread = u => d.block # n + 2
    BY <1>2, <1>3, <1>5, <2>1 DEF DataInv
  <2> QED
    BY <1>2, <2>2, <2>3 DEF DataInv
<1>12. AcksInv'
  <2>1. \A a \in acks : a.block \in Nat
    BY DEF TypeOK
  <2>2. \A a \in acks : a.thread \in Threads /\ a.thread = client.port
    BY DEF AcksInv, TypeOK
  <2>3. \A a \in acks : a.thread = u
    BY <1>4, <2>2
  <2>4. \A a \in acks : a.op = "ack" => a.block <= n + 1
    BY <1>3, <2>1 DEF AcksInv
  <2>5. \A a \in acks : a.thread = u /\ (a.op = "ack" => a.block <= n + 1)
    BY <2>3, <2>4
  <2>6. Expected = n + 1
    BY DEF Expected, Got
  <2> QED
    BY <1>1, <1>3, <1>6, <2>5, <2>6 DEF AcksInv
<1>13. PortInv'
  <2>1. n + 1 # n + 2
    BY <1>3
  <2>2. thread[u].block # Expected'
    BY <1>3, <1>5, <1>6 DEF Expected
  <2>3. Piece(thread[u].file, thread[u].offset)' = p.chunk
    BY <1>2, <1>5, <1>6 DEF Piece, FT!Piece
  <2> QED
    BY <1>2, <1>5, <1>6, <2>2 DEF PortInv, Piece, FT!Piece
<1>14. ClientInv'
  BY <1>3, <1>6 DEF ClientInv
<1> QED
  BY <1>7, <1>8, <1>9, <1>10, <1>11, <1>12, <1>13, <1>14

LEMMA StopInv == Inv /\ (GiveUp \/ Abort) => Inv'
<1> SUFFICES ASSUME Inv, GiveUp \/ Abort PROVE Inv'
  OBVIOUS
<1> USE DEF Inv
<1>1. /\ client.pc = "running" /\ client' = [client EXCEPT !.pc = "failed"]
      /\ UNCHANGED <<disk, thread, data>>
  BY DEF GiveUp, Abort
<1>2. /\ client'.pc = "failed" /\ client'.port = client.port /\ client'.got = client.got
  BY <1>1 DEF TypeOK
<1>3. /\ acks' \subseteq [op : {"ack", "error"}, thread : Threads, block : Nat]
      /\ \A a \in acks' : a \in acks \/ (a.op = "error" /\ a.thread = client.port)
  <2>1. CASE GiveUp
    BY <2>1 DEF GiveUp, TypeOK
  <2>2. CASE Abort
    BY <2>2 DEF Abort, TypeOK, Expected
  <2> QED
    BY <2>1, <2>2
<1>4. TypeOK'
  BY <1>1, <1>3 DEF TypeOK
<1>5. LockStep' /\ ThreadsInv'
  BY <1>1, <1>2 DEF LockStep, ThreadsInv, Expected
<1>6. CompleteIsTrue'
  BY <1>1 DEF CompleteIsTrue
<1>7. DataInv'
  BY <1>1, <1>2 DEF DataInv, Expected, Got, Piece, FT!Piece, Received, FT!Received
<1>8. AcksInv'
  BY <1>2, <1>3 DEF AcksInv, Got
<1>9. PortInv'
  BY <1>1, <1>2 DEF PortInv, Expected, Got, Piece, FT!Piece, Received, FT!Received
<1>10. ClientInv'
  BY <1>1, <1>2 DEF ClientInv, Got
<1> QED
  BY <1>4, <1>5, <1>6, <1>7, <1>8, <1>9, <1>10

\* The threads have read their file: what happens to it later is nothing to them.
LEMMA IdleInv == Inv /\ (Replace \/ UNCHANGED vars) => Inv'
<1> SUFFICES ASSUME Inv, Replace \/ UNCHANGED vars PROVE Inv'
  OBVIOUS
<1>1. UNCHANGED <<thread, data, acks, client>> /\ disk' \in Files \cup {NoFile}
  BY DEF Replace, vars, Inv, TypeOK
<1> QED
  BY <1>1 DEF Inv, TypeOK, LockStep, CompleteIsTrue, ThreadsInv, DataInv, AcksInv,
              PortInv, ClientInv, Expected, Got, Piece, FT!Piece, Received, FT!Received

LEMMA StepInv == Inv /\ [Next]_vars => Inv'
<1> SUFFICES ASSUME Inv, [Next]_vars PROVE Inv'
  OBVIOUS
<1>1. CASE \E t \in Threads : Accept(t)
  BY <1>1, AcceptInv
<1>2. ASSUME NEW t \in Threads, Receive(t) PROVE Inv'
  <2>1. PICK p \in acks :
          /\ p.thread = t /\ thread[t].block - p.block <= Lifetime
          /\ IF Acknowledges(p, t) THEN Advance(t) ELSE Retry(t) /\ UNCHANGED data
    BY <1>2 DEF Receive
  <2>2. thread[t].pc = "waiting" /\ UNCHANGED <<disk, acks, client>>
    BY <1>2 DEF Receive
  <2>3. CASE Acknowledges(p, t)
    BY <2>1, <2>2, <2>3, AdvanceInv
  <2>4. CASE ~Acknowledges(p, t)
    BY <2>1, <2>2, <2>4, RetryInv
  <2> QED
    BY <2>3, <2>4
<1>3. ASSUME NEW t \in Threads, Timeout(t) PROVE Inv'
  BY <1>3, RetryInv DEF Timeout
<1>4. CASE Take \/ GiveUp \/ Abort
  BY <1>4, TakeInv, StopInv
<1>5. CASE Replace \/ UNCHANGED vars
  BY <1>5, IdleInv
<1> QED
  BY <1>1, <1>2, <1>3, <1>4, <1>5 DEF Next, ThreadStep

THEOREM Invariance == Spec => []Inv
  BY InitInv, StepInv, PTL DEF Spec

\* Every variable keeps its type.
THEOREM TypeCorrect == Spec => []TypeOK
<1>1. Inv => TypeOK
  BY DEF Inv
<1> QED
  BY <1>1, Invariance, PTL

\* Thread and client stay in lock step.
THEOREM StaysInStep == Spec => []LockStep
<1>1. Inv => LockStep
  BY DEF Inv
<1> QED
  BY <1>1, Invariance, PTL

\* A transfer that the server reports complete has reached the client whole.
THEOREM CompleteHolds == Spec => []CompleteIsTrue
<1>1. Inv => CompleteIsTrue
  BY DEF Inv
<1> QED
  BY <1>1, Invariance, PTL

--------------------------------------------------------------------------------
\* serve_rrq and the client implement FileTransfer: the client's steps are its
\* steps, everything else is invisible to the caller of tftp.
THEOREM TransferHolds == Spec => Transfer
<1> DEFINE src == IF client.port = NoThread THEN NoFile ELSE thread[client.port].file
<1>1. Init => FT!Init
  BY DEF Init, FT!Init
<1>2. Inv /\ [Next]_vars => [FT!Next]_<<src, client.got, client.pc>>
  <2> SUFFICES ASSUME Inv, [Next]_vars
               PROVE  [FT!Next]_<<src, client.got, client.pc>>
    OBVIOUS
  <2> USE DEF Inv
  <2>1. client.port \in Threads \cup {NoThread}
    BY DEF TypeOK
  <2>2. CASE Take
    <3>1. PICK p \in data :
            /\ client.port \in {NoThread, p.thread}
            /\ Expected - p.block <= Lifetime
            /\ SameNumber(p.block, Expected)
            /\ client' = [pc |-> IF p.chunk.size < BlockSize THEN "ok" ELSE "running",
                          port |-> p.thread, got |-> Append(client.got, p.chunk)]
      BY <2>2 DEF Take
    <3>2. client.pc = "running" /\ thread' = thread
      BY <2>2 DEF Take
    <3> DEFINE f == thread[p.thread].file
    <3>3. f \in Files /\ p.chunk = FT!Piece(f, FT!Received(client.got))
      BY <3>1, <3>2, TakenPiece DEF Piece, Received, Got
    <3>4. p.thread # NoThread
      BY ThreadsAssumption DEF TypeOK
    <3>5. /\ src \in {NoFile, f} /\ src' = f
          /\ client'.got = Append(client.got, p.chunk)
          /\ client'.pc = IF p.chunk.size < BlockSize THEN "ok" ELSE "running"
      BY <3>1, <3>2, <3>4
    <3>6. FT!Deliver
      BY <3>2, <3>3, <3>5 DEF FT!Deliver
    <3> QED
      BY <3>6 DEF FT!Next
  <2>3. CASE GiveUp \/ Abort
    <3>1. /\ client.pc = "running" /\ client' = [client EXCEPT !.pc = "failed"]
          /\ thread' = thread
      BY <2>3 DEF GiveUp, Abort
    <3>2. client'.pc = "failed" /\ client'.got = client.got /\ client'.port = client.port
      BY <3>1 DEF TypeOK
    <3>3. FT!Fail
      BY <3>1, <3>2 DEF FT!Fail
    <3> QED
      BY <3>3 DEF FT!Next
  <2>4. CASE \E t \in Threads : Accept(t) \/ ThreadStep(t)
    <3>1. PICK t \in Threads : Accept(t) \/ ThreadStep(t)
      BY <2>4
    <3>2. client' = client
      BY <3>1 DEF Accept, ThreadStep, Receive, Timeout
    <3>3. CASE Accept(t)
      <4>1. t # client.port
        BY <3>3 DEF Accept, ThreadsInv
      <4>2. \A u \in Threads \ {t} : thread'[u] = thread[u]
        BY <3>3 DEF Accept, TypeOK
      <4> QED
        BY <2>1, <3>2, <4>1, <4>2
    <3>4. CASE ThreadStep(t)
      <4>1. Advance(t) \/ Retry(t)
        BY <3>4 DEF ThreadStep, Receive, Timeout
      <4>2. CASE Advance(t)
        <5> DEFINE chunk == Chunk(t, thread[t].offset)
                   offset == thread[t].offset + chunk.size
                   block == thread[t].block + 1
        <5> HIDE DEF chunk, offset, block
        <5>1. \/ thread' = [thread EXCEPT ![t].pc = "complete", ![t].offset = offset]
              \/ thread' = [thread EXCEPT ![t].offset = offset, ![t].block = block,
                                         ![t].attempt = 1]
          BY <4>2 DEF Advance, chunk, offset, block
        <5> DEFINE last == [thread[t] EXCEPT !.pc = "complete", !.offset = offset]
                   more == [thread[t] EXCEPT !.offset = offset, !.block = block,
                                             !.attempt = 1]
        <5>2. thread \in [Threads -> ThreadRecord]
          BY DEF TypeOK, ThreadRecord
        <5>3. last.file = thread[t].file /\ more.file = thread[t].file
          BY <5>2 DEF ThreadRecord
        <5>4. \E r \in {last, more} : thread' = [thread EXCEPT ![t] = r]
          BY <5>1, <5>2
        <5> HIDE DEF last, more
        <5>5. \A u \in Threads : thread'[u].file = thread[u].file
          BY <5>2, <5>3, <5>4
        <5> QED
          BY <2>1, <3>2, <5>5
      <4>3. CASE Retry(t)
        <5>1. \A u \in Threads : thread'[u].file = thread[u].file
          BY <4>3 DEF Retry, TypeOK
        <5> QED
          BY <2>1, <3>2, <5>1
      <4> QED
        BY <4>1, <4>2, <4>3
    <3> QED
      BY <3>1, <3>3, <3>4
  <2>5. CASE Replace \/ UNCHANGED vars
    BY <2>5 DEF Replace, vars
  <2> QED
    BY <2>2, <2>3, <2>4, <2>5 DEF Next
<1> QED
  BY <1>1, <1>2, Invariance, PTL DEF Spec, Transfer, FT!Spec
================================================================================
