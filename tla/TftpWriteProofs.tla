---------------------------- MODULE TftpWriteProofs ----------------------------
(****************************************************************************)
(* Proofs about TftpWrite, for every set of files and of their sizes, block *)
(* size, width of the block numbers (as long as no packet is late by that   *)
(* many blocks), number of uploads and of copies of their requests.         *)
(****************************************************************************)
EXTENDS TftpWrite, SequenceTheorems, TLAPS

Pieces == [file : Files, from : Nat, size : 0..BlockSize]
Places == (Files \cup {NoFile}) \X Nat

ThreadRecord ==
  [pc : {"free", "receiving", "timedout", "opening", "refused", "writing", "stored", "lost"},
   from : Files \cup {NoFile}, got : Seq(Pieces)]
ClientRecord ==
  [pc : {"running", "ok", "failed"}, block : Nat, port : Threads \cup {NoThread}]

Types ==
  /\ disk \in Seq(Places) /\ server \in {"up", "stopped"}
  /\ thread \in [Threads -> ThreadRecord]
  /\ data \subseteq [thread : Threads, block : Nat, chunk : Pieces]
  /\ acks \subseteq [thread : Threads, block : Nat]
  /\ client \in [Files -> ClientRecord]

\* Nobody has heard of a thread that has not begun.
FreeInv ==
  \A t \in Threads :
    IF thread[t].pc = "free"
    THEN thread[t].got = <<>> /\ \A f \in Files : client[f].port # t
    ELSE thread[t].from \in Files

\* A client sends to one thread, and at most one block more than that has taken.
ClientInv ==
  \A f \in Files :
    LET u == client[f].port
    IN  IF u = NoThread THEN client[f].block = 0
        ELSE /\ thread[u].from = f
             /\ 1 <= client[f].block
             /\ Len(thread[u].got) <= client[f].block
             /\ client[f].block <= Len(thread[u].got) + 1

\* A packet carries the piece that its number says.
DataInv ==
  \A d \in data :
    LET f == thread[d.thread].from
    IN  /\ f \in Files /\ client[f].port = d.thread
        /\ 1 <= d.block /\ d.block <= client[f].block
        /\ (d.block - 1) * BlockSize <= f.size
        /\ d.chunk = Piece(f, (d.block - 1) * BlockSize)

AcksInv == \A a \in acks : thread[a.thread].pc # "free" /\ a.block <= Len(thread[a.thread].got)

\* What a thread has got are the pieces of its file, all of them once it goes on.
GotInv ==
  \A t \in Threads :
    LET f == thread[t].from  n == Len(thread[t].got)
    IN  /\ n > 0 => client[f].port = t
        /\ \A i \in 1..n : /\ thread[t].got[i] = Piece(f, (i - 1) * BlockSize)
                           /\ (i - 1) * BlockSize <= f.size
        /\ IF thread[t].pc \in {"free", "receiving", "timedout"}
           THEN n > 0 => n * BlockSize <= f.size
           ELSE n > 0 /\ f.size < n * BlockSize

\* The path: the old file, or what the uploads left, unless one ran out of room.
DiskInv ==
  /\ Touching = {} => disk \in {Bytes(NoFile, size) : size \in OldSizes}
  /\ Touching # {} =>
       \/ \E t \in Touching : thread[t].pc = "lost"
       \/ Layered
       \/ disk = <<>> /\ \E t \in Touching : thread[t].pc = "writing"

Inv == Types /\ FreeInv /\ ClientInv /\ DataInv /\ AcksInv /\ GotInv /\ DiskInv

--------------------------------------------------------------------------------
(* Numbers and pieces *)

\* Numbers that agree modulo W belong to the same block when they are less than W
\* blocks apart.
LEMMA SameBlock ==
  ASSUME NEW a \in Nat, NEW b \in Nat, a <= b, b - a < W, SameNumber(a, b)
  PROVE  a = b
<1> DEFINE i == a \div W
           j == b \div W
           k == j - i
<1>1. W \in Nat /\ W > 1 /\ a % W = b % W
  BY SizesAssumption DEF SameNumber
<1>2. i \in Int /\ j \in Int /\ a = W * i + (a % W) /\ b = W * j + (b % W)
  BY <1>1, SMT
<1> HIDE DEF i, j
<1>3. b - a = W * k
  BY <1>1, <1>2, SMT
<1>4. k \in Int /\ W * k < W /\ 0 <= W * k
  BY <1>2, <1>3
<1> HIDE DEF k
<1>5. k = 0
  BY <1>1, <1>4, SMT
<1> QED
  BY <1>1, <1>3, <1>5

LEMMA Offsets ==
  ASSUME NEW n \in Nat
  PROVE  /\ n * BlockSize \in Nat /\ (n + 1) * BlockSize = n * BlockSize + BlockSize
         /\ ((n + 1) - 1) * BlockSize = n * BlockSize /\ 0 * BlockSize = 0
BY SizesAssumption

LEMMA Ordered ==
  ASSUME NEW m \in Nat, NEW n \in Nat, m * BlockSize < n * BlockSize
  PROVE  m < n
<1> SUFFICES ASSUME ~(m < n) PROVE FALSE
  OBVIOUS
<1> DEFINE k == m - n
<1>1. k \in Nat /\ m = n + k /\ BlockSize \in Nat
  BY SizesAssumption
<1> HIDE DEF k
<1>2. m * BlockSize = n * BlockSize + k * BlockSize /\ k * BlockSize \in Nat
  BY <1>1, SMT
<1>3. n * BlockSize \in Nat
  BY <1>1
<1> QED
  BY <1>2, <1>3

LEMMA PieceIs ==
  ASSUME NEW f \in Files, NEW from \in Nat, from <= f.size
  PROVE  /\ Piece(f, from) \in Pieces
         /\ Piece(f, from).file = f /\ Piece(f, from).from = from
         /\ Piece(f, from).size < BlockSize <=> f.size < from + BlockSize
         /\ Piece(f, from).size < BlockSize => from + Piece(f, from).size = f.size
         /\ Piece(f, from).size <= BlockSize
         /\ Piece(f, from).size >= BlockSize => Piece(f, from).size = BlockSize
<1>1. Piece(f, from) =
        [file |-> f, from |-> from,
         size |-> IF f.size - from < BlockSize THEN f.size - from ELSE BlockSize]
  BY DEF Piece, FT!Piece
<1>2. f.size \in Nat /\ BlockSize \in Nat
  BY FilesAssumption, SizesAssumption
<1> QED
  BY <1>1, <1>2 DEF Pieces

\* The length of what a thread has got.
LEMMA Counted ==
  ASSUME Types, GotInv, NEW t \in Threads, thread[t].got # <<>>, thread[t].from \in Files
  PROVE  LET f == thread[t].from  n == Len(thread[t].got)
             last == Piece(f, (n - 1) * BlockSize)
         IN  /\ n \in Nat /\ n > 0 /\ thread[t].got[n] = last
             /\ FT(t)!Received(thread[t].got) = (n - 1) * BlockSize + last.size
             /\ (n - 1) * BlockSize <= f.size
<1>1. thread[t].got \in Seq(Pieces)
  BY DEF Types, ThreadRecord
<1>2. Len(thread[t].got) \in Nat /\ Len(thread[t].got) > 0
  BY <1>1
<1> DEFINE n == Len(thread[t].got)
           from == (n - 1) * BlockSize
<1>3. thread[t].got[n] = Piece(thread[t].from, from) /\ from <= thread[t].from.size
  BY <1>2 DEF GotInv
<1>4. from \in Nat
  BY <1>2, SizesAssumption
<1>5. Piece(thread[t].from, from).from = from
  BY <1>3, <1>4, PieceIs
<1> QED
  BY <1>2, <1>3, <1>5 DEF FT!Received

LEMMA BytesAre ==
  ASSUME NEW file \in Files \cup {NoFile}, NEW size \in Nat
  PROVE  /\ Bytes(file, size) \in Seq(Places) /\ Len(Bytes(file, size)) = size
         /\ \A i \in 1..size : Bytes(file, size)[i] = <<file, i>>
<1>1. \A i \in 1..size : <<file, i>> \in Places
  BY DEF Places
<1>2. Bytes(file, size) \in [1..size -> Places]
  BY <1>1 DEF Bytes
<1> QED
  BY <1>2 DEF Bytes

\* What is written is the file that was sent.
LEMMA ReceivedIs ==
  ASSUME Types, FreeInv, GotInv, NEW t \in Threads,
         thread[t].pc \notin {"free", "receiving", "timedout"}
  PROVE  Received(t) = Bytes(thread[t].from, thread[t].from.size)
<1> DEFINE f == thread[t].from
           n == Len(thread[t].got)
           got == thread[t].got
<1>1. /\ f \in Files /\ f.size \in Nat /\ n \in Nat /\ n > 0 /\ got # <<>>
      /\ f.size < n * BlockSize
      /\ \A i \in 1..n : /\ got[i] = Piece(f, (i - 1) * BlockSize)
                         /\ (i - 1) * BlockSize <= f.size
  <2>1. got \in Seq(Pieces)
    BY DEF Types, ThreadRecord
  <2> QED
    BY <2>1, FilesAssumption DEF FreeInv, GotInv
<1>2. FT(t)!Received(got) = f.size
  <2> DEFINE from == (n - 1) * BlockSize
             last == Piece(f, from)
  <2>1. from \in Nat /\ from <= f.size /\ n * BlockSize = from + BlockSize
    <3>1. n - 1 \in Nat /\ (n - 1) + 1 = n /\ n \in 1..n
      BY <1>1
    <3> QED
      BY <1>1, <3>1, Offsets
  <2>2. FT(t)!Received(got) = from + last.size
    BY <1>1, Counted
  <2> HIDE DEF from
  <2>3. last.size < BlockSize /\ from + last.size = f.size
    BY <1>1, <2>1, PieceIs
  <2> QED
    BY <2>2, <2>3
<1>3. ASSUME NEW i \in 1..f.size
      PROVE  LET piece == got[(i - 1) \div BlockSize + 1]
             IN  <<piece.file, piece.from + ((i - 1) % BlockSize) + 1>> = <<f, i>>
  <2> DEFINE q == (i - 1) \div BlockSize
             r == (i - 1) % BlockSize
  <2>1. i - 1 \in Nat /\ BlockSize \in Nat /\ BlockSize > 0
    BY <1>1, SizesAssumption
  <2>2. q \in Nat /\ r \in 0..(BlockSize - 1) /\ i - 1 = q * BlockSize + r
    BY <2>1, SMT
  <2> HIDE DEF q, r
  <2>3. q < n
    <3>1. q * BlockSize < n * BlockSize
      BY <1>1, <2>1, <2>2
    <3> QED
      BY <1>1, <2>2, <3>1, Ordered
  <2>4. q + 1 \in 1..n /\ (q + 1) - 1 = q
    BY <1>1, <2>2, <2>3
  <2>5. got[q + 1] = Piece(f, q * BlockSize) /\ q * BlockSize <= f.size
    BY <1>1, <2>4
  <2>6. q * BlockSize \in Nat
    BY <2>2, Offsets
  <2>7. got[q + 1].file = f /\ got[q + 1].from = q * BlockSize
    BY <1>1, <2>5, <2>6, PieceIs
  <2>8. q * BlockSize + r + 1 = i
    BY <2>1, <2>2, <2>6
  <2> QED
    BY <2>7, <2>8 DEF q, r
<1> QED
  BY <1>2, <1>3 DEF Received, Bytes

--------------------------------------------------------------------------------
(* The path *)

\* A byte of what is written over the file, and one of the file beyond it.
IsWritten(new, bytes) ==
  /\ new \in Seq(Places)
  /\ Len(new) = IF Len(disk) > Len(bytes) THEN Len(disk) ELSE Len(bytes)
  /\ \A i \in 1..Len(new) : new[i] = IF i <= Len(bytes) THEN bytes[i] ELSE disk[i]

LEMMA WrittenOverIs ==
  ASSUME disk \in Seq(Places), NEW bytes \in Seq(Places)
  PROVE  IsWritten(WrittenOver(bytes), bytes)
<1> DEFINE from == Len(bytes) + 1
           rest == SubSeq(disk, from, Len(disk))
           new  == bytes \o rest
<1>1. /\ Len(bytes) \in Nat /\ Len(disk) \in Nat /\ from \in Int
      /\ \A i \in from..Len(disk) : disk[i] \in Places
  BY LenProperties
<1>2. /\ rest \in Seq(Places)
      /\ Len(rest) = IF from <= Len(disk) THEN Len(disk) - from + 1 ELSE 0
      /\ \A i \in 1..(Len(disk) - from + 1) : rest[i] = disk[from + i - 1]
  BY <1>1, SubSeqProperties
<1> HIDE DEF rest
<1>3. /\ new \in Seq(Places) /\ Len(new) = Len(bytes) + Len(rest)
      /\ \A i \in 1..(Len(bytes) + Len(rest)) :
           new[i] = IF i <= Len(bytes) THEN bytes[i] ELSE rest[i - Len(bytes)]
  BY <1>2, ConcatProperties
<1>4. WrittenOver(bytes) = new
  BY DEF WrittenOver, rest
<1> HIDE DEF new
<1>5. Len(new) = IF Len(disk) > Len(bytes) THEN Len(disk) ELSE Len(bytes)
  BY <1>1, <1>2, <1>3
<1>6. ASSUME NEW i \in 1..Len(new)
      PROVE  new[i] = IF i <= Len(bytes) THEN bytes[i] ELSE disk[i]
  <2>1. CASE i <= Len(bytes)
    BY <1>3, <2>1
  <2>2. CASE ~(i <= Len(bytes))
    <3>1. new[i] = rest[i - Len(bytes)]
      BY <1>3, <2>2
    <3>2. i - Len(bytes) \in 1..(Len(disk) - from + 1) /\ from + (i - Len(bytes)) - 1 = i
      BY <1>1, <1>5, <2>2
    <3>3. rest[i - Len(bytes)] = disk[i]
      BY <1>2, <3>2
    <3> QED
      BY <2>2, <3>1, <3>3
  <2> QED
    BY <2>1, <2>2
<1> QED
  BY <1>3, <1>4, <1>5, <1>6 DEF IsWritten

\* A step that leaves the path and those who touch it as they are.
LEMMA DiskSame ==
  ASSUME DiskInv, UNCHANGED disk, Touching' = Touching,
         \A t \in Touching : thread'[t].pc = thread[t].pc /\ thread'[t].from = thread[t].from
  PROVE  DiskInv'
<1>1. Layered => Layered'
  BY DEF Layered, IsByteOf
<1> QED
  BY <1>1 DEF DiskInv

LEMMA DiskOpened ==
  ASSUME NEW t \in Touching', thread'[t].pc = "writing", disk' = <<>>
  PROVE  DiskInv'
BY DEF DiskInv

LEMMA DiskLost ==
  ASSUME NEW t \in Touching', thread'[t].pc = "lost"
  PROVE  DiskInv'
BY DEF DiskInv

\* A file that is written over what is there: a layer more, unless it covers all.
LEMMA DiskWritten ==
  ASSUME Types, DiskInv, NEW t \in Touching, thread[t].from \in Files,
         thread[t].pc = "writing", Touching' = Touching,
         \A u \in Touching : thread'[u].from = thread[u].from,
         \A u \in Touching \ {t} : thread'[u].pc = thread[u].pc,
         disk' = WrittenOver(Bytes(thread[t].from, thread[t].from.size))
  PROVE  DiskInv'
<1> DEFINE f == thread[t].from
           bytes == Bytes(f, f.size)
<1>1. /\ f \in Files \cup {NoFile} /\ f.size \in Nat
      /\ bytes \in Seq(Places) /\ Len(bytes) = f.size
      /\ \A i \in 1..f.size : bytes[i] = <<f, i>>
  BY FilesAssumption, BytesAre
<1>2. disk \in Seq(Places) /\ Len(disk) \in Nat
  BY DEF Types
<1>3. /\ disk' \in Seq(Places) /\ Len(disk') \in Nat
      /\ Len(disk') = IF Len(disk) > f.size THEN Len(disk) ELSE f.size
      /\ \A i \in 1..Len(disk') : disk'[i] = IF i <= f.size THEN <<f, i>> ELSE disk[i]
  <2> HIDE DEF f, bytes
  <2>1. IsWritten(disk', bytes)
    BY <1>1, <1>2, WrittenOverIs DEF f, bytes
  <2>2. /\ disk' \in Seq(Places)
        /\ Len(disk') = IF Len(disk) > Len(bytes) THEN Len(disk) ELSE Len(bytes)
        /\ \A i \in 1..Len(disk') : disk'[i] = IF i <= Len(bytes) THEN bytes[i] ELSE disk[i]
    BY <2>1 DEF IsWritten
  <2>3. Len(disk') \in Nat
    BY <1>1, <1>2, <2>2
  <2>4. ASSUME NEW i \in 1..Len(disk')
        PROVE  disk'[i] = IF i <= f.size THEN <<f, i>> ELSE disk[i]
    <3>1. i \in Nat /\ 1 <= i
      BY <2>3
    <3>2. CASE i <= f.size
      <4>1. i \in 1..f.size
        BY <1>1, <3>1, <3>2
      <4>2. disk'[i] = bytes[i]
        BY <1>1, <2>2, <3>2
      <4> QED
        BY <1>1, <3>2, <4>1, <4>2
    <3>3. CASE ~(i <= f.size)
      BY <1>1, <2>2, <3>3
    <3> QED
      BY <3>2, <3>3
  <2> QED
    BY <1>1, <2>2, <2>3, <2>4
<1>4. ASSUME NEW i \in 1..f.size PROVE IsByteOf(t, i)'
  <2>1. i \in 1..Len(disk') /\ i <= f.size
    BY <1>1, <1>2, <1>3
  <2>2. disk'[i] = <<f, i>>
    BY <1>3, <2>1
  <2> QED
    BY <2>1, <2>2 DEF IsByteOf
<1>5. CASE Layered \/ disk = <<>>
  <2>1. \A i \in 1..Len(disk) : \E u \in Touching : IsByteOf(u, i)
    <3>1. disk = <<>> => 1..Len(disk) = {}
      OBVIOUS
    <3> QED
      BY <1>5, <3>1 DEF Layered
  <2>2. \A i \in 1..Len(disk)' : \E u \in Touching' : IsByteOf(u, i)'
    <3> SUFFICES ASSUME NEW i \in 1..Len(disk') PROVE \E u \in Touching : IsByteOf(u, i)'
      OBVIOUS
    <3>1. CASE i <= f.size
      BY <1>1, <1>2, <1>3, <1>4, <3>1
    <3>2. CASE ~(i <= f.size)
      <4>1. disk'[i] = disk[i]
        BY <1>3, <3>2
      <4>2. i \in 1..Len(disk)
        BY <1>1, <1>2, <1>3, <3>2
      <4> QED
        BY <2>1, <4>1, <4>2 DEF IsByteOf
    <3> QED
      BY <3>1, <3>2
  <2>3. \E u \in Touching' : Len(disk)' = thread'[u].from.size
    <3>1. CASE Len(disk) > f.size
      <4>1. disk # <<>>
        BY <1>1, <3>1
      <4> QED
        BY <1>3, <1>5, <3>1, <4>1 DEF Layered
    <3>2. CASE ~(Len(disk) > f.size)
      BY <1>3, <3>2
    <3> QED
      BY <3>1, <3>2
  <2>4. f.size <= Len(disk') /\ thread'[t].from = f
    BY <1>1, <1>2, <1>3
  <2>5. Layered'
    BY <1>4, <2>2, <2>3, <2>4 DEF Layered
  <2> QED
    BY <2>5 DEF DiskInv
<1>6. CASE \E u \in Touching : thread[u].pc = "lost"
  <2>1. PICK u \in Touching : thread[u].pc = "lost"
    BY <1>6
  <2>2. u \in Touching' /\ thread'[u].pc = "lost"
    BY <2>1
  <2> QED
    BY <2>2, DiskLost
<1> QED
  BY <1>5, <1>6 DEF DiskInv

--------------------------------------------------------------------------------
(* The steps *)

Links == FreeInv /\ ClientInv /\ DataInv /\ AcksInv /\ GotInv

LEMMA InitInv == Init => Inv
<1> SUFFICES ASSUME Init PROVE Inv
  OBVIOUS
<1>1. PICK size \in OldSizes : disk = Bytes(NoFile, size)
  BY DEF Init
<1>2. disk \in Seq(Places)
  <2>1. size \in Nat /\ NoFile \in Files \cup {NoFile}
    BY FilesAssumption
  <2> QED
    BY <1>1, <2>1, BytesAre
<1>3. \A t \in Threads : thread[t].pc = "free" /\ thread[t].from = NoFile /\ thread[t].got = <<>>
  BY DEF Init
<1>4. Types
  BY <1>2 DEF Init, Types, ThreadRecord, ClientRecord
<1>5. Links
  BY <1>3, ThreadsAssumption DEF Init, Links, FreeInv, ClientInv, DataInv, AcksInv, GotInv
<1>6. Touching = {}
  BY <1>3 DEF Touching
<1>7. DiskInv
  BY <1>1, <1>6 DEF DiskInv
<1> QED
  BY <1>4, <1>5, <1>7 DEF Inv, Links

\* A thread that only goes on: what it got, and what the others know, stays.
LEMMA PcChange ==
  ASSUME Types, Links, NEW t \in Threads, thread[t].pc # "free",
         NEW pc \in {"timedout", "refused", "writing", "stored", "lost"},
         thread' = [thread EXCEPT ![t].pc = pc], UNCHANGED <<data, acks, client>>,
         thread[t].pc = "receiving" <=> pc = "timedout", thread[t].pc # "timedout"
  PROVE  /\ Links' /\ thread' \in [Threads -> ThreadRecord] /\ thread'[t].pc = pc
         /\ \A u \in Threads : thread'[u].from = thread[u].from /\ thread'[u].got = thread[u].got
         /\ \A u \in Threads \ {t} : thread'[u] = thread[u]
<1>1. /\ thread' \in [Threads -> ThreadRecord] /\ thread'[t].pc = pc
      /\ \A u \in Threads : thread'[u].from = thread[u].from /\ thread'[u].got = thread[u].got
      /\ \A u \in Threads \ {t} : thread'[u] = thread[u]
  BY DEF Types, ThreadRecord
<1>2. \A u \in Threads : /\ thread'[u].pc = "free" <=> thread[u].pc = "free"
                         /\ thread'[u].pc \in {"free", "receiving", "timedout"}
                              <=> thread[u].pc \in {"free", "receiving", "timedout"}
  BY <1>1 DEF Types, ThreadRecord
<1>3. FreeInv'
  BY <1>1, <1>2 DEF Links, FreeInv
<1>4. ClientInv'
  BY <1>1 DEF Links, ClientInv, Types, ClientRecord
<1>5. DataInv'
  BY <1>1 DEF Links, DataInv, Types, Piece, FT!Piece
<1>6. AcksInv'
  BY <1>1, <1>2 DEF Links, AcksInv, Types
<1>7. GotInv'
  BY <1>1, <1>2 DEF Links, GotInv, Piece, FT!Piece
<1> QED
  BY <1>1, <1>3, <1>4, <1>5, <1>6, <1>7 DEF Links

LEMMA AcceptInv == ASSUME Inv, NEW t \in Threads, Accept(t) PROVE Inv'
<1> USE DEF Inv
<1>1. PICK f \in Files :
        thread' = [thread EXCEPT ![t] = [pc |-> "receiving", from |-> f, got |-> <<>>]]
  BY DEF Accept
<1>2. /\ thread[t].pc = "free" /\ UNCHANGED <<disk, server, data, client>>
      /\ acks' = acks \cup {[thread |-> t, block |-> 0]}
  BY DEF Accept, Acknowledge
<1>3. /\ thread'[t] = [pc |-> "receiving", from |-> f, got |-> <<>>]
      /\ \A u \in Threads \ {t} : thread'[u] = thread[u]
      /\ thread' \in [Threads -> ThreadRecord]
  BY <1>1 DEF Types, ThreadRecord
<1>4. thread[t].got = <<>> /\ \A g \in Files : client[g].port # t
  BY <1>2 DEF FreeInv
<1>5. Types'
  BY <1>2, <1>3 DEF Types
<1>6. FreeInv'
  BY <1>2, <1>3 DEF FreeInv
<1>7. ClientInv'
  BY <1>2, <1>3, <1>4 DEF ClientInv, Types, ClientRecord
<1>8. DataInv'
  <2>1. \A d \in data : d.thread \in Threads /\ d.thread # t
    BY <1>4 DEF DataInv, Types
  <2> QED
    BY <1>2, <1>3, <2>1 DEF DataInv, Piece, FT!Piece
<1>9. AcksInv'
  <2>1. \A a \in acks : a.thread \in Threads /\ a.thread # t
    BY <1>2 DEF AcksInv, Types
  <2>2. Len(thread'[t].got) = 0 /\ thread'[t].pc = "receiving"
    BY <1>3
  <2> QED
    BY <1>2, <1>3, <2>1, <2>2 DEF AcksInv
<1>10. GotInv'
  <2>1. Len(thread'[t].got) = 0 /\ thread'[t].pc = "receiving"
    BY <1>3
  <2> QED
    BY <1>2, <1>3, <2>1 DEF GotInv, Piece, FT!Piece
<1>11. DiskInv'
  <2>1. Touching' = Touching /\ t \notin Touching
    BY <1>2, <1>3 DEF Touching
  <2>2. \A u \in Touching : thread'[u] = thread[u]
    BY <1>3, <2>1 DEF Touching
  <2> QED
    BY <1>2, <2>1, <2>2, DiskSame
<1> QED
  BY <1>5, <1>6, <1>7, <1>8, <1>9, <1>10, <1>11

\* What a thread takes is the piece that follows those it has.
LEMMA TakenPiece ==
  ASSUME Inv, NEW t \in Threads, NEW p \in data, IsExpected(p, t),
         Expected(t) - p.block <= Lifetime
  PROVE  LET f == thread[t].from  n == Len(thread[t].got)
         IN  /\ f \in Files /\ n \in Nat /\ thread[t].got \in Seq(Pieces)
             /\ client[f].port = t /\ client[f].block = n + 1
             /\ n * BlockSize <= f.size /\ p.chunk = Piece(f, n * BlockSize)
<1> USE DEF Inv
<1> DEFINE f == thread[t].from
           n == Len(thread[t].got)
<1>1. thread[t].got \in Seq(Pieces) /\ n \in Nat
  BY DEF Types, ThreadRecord
<1>2. p.thread = t /\ SameNumber(p.block, Expected(t)) /\ p.block \in Nat /\ Expected(t) = n + 1
  BY DEF IsExpected, Expected, Types
<1>3. /\ f \in Files /\ client[f].port = t
      /\ 1 <= p.block /\ p.block <= client[f].block
      /\ (p.block - 1) * BlockSize <= f.size
      /\ p.chunk = Piece(f, (p.block - 1) * BlockSize)
  BY <1>2 DEF DataInv
<1>4. client[f].block \in Nat /\ client[f].block <= n + 1
  BY <1>3, ThreadsAssumption DEF ClientInv, Types, ClientRecord
<1>5. p.block = n + 1
  <2> DEFINE m == Expected(t)
             b == p.block
  <2>1. m \in Nat /\ b \in Nat /\ b <= m /\ m - b < W
    BY <1>1, <1>2, <1>3, <1>4, SizesAssumption
  <2>2. SameNumber(b, m)
    BY <1>2
  <2> HIDE DEF m, b
  <2>3. b = m
    BY <2>1, <2>2, SameBlock
  <2> QED
    BY <1>2, <2>3 DEF b, m
<1>6. (p.block - 1) * BlockSize = n * BlockSize
  BY <1>1, <1>5, Offsets
<1> QED
  BY <1>1, <1>3, <1>4, <1>5, <1>6

LEMMA ReceiveInv == ASSUME Inv, NEW t \in Threads, Receive(t) PROVE Inv'
<1> USE DEF Inv
<1>1. PICK p \in data :
        /\ IsExpected(p, t) /\ Expected(t) - p.block <= Lifetime
        /\ thread' = [thread EXCEPT ![t].got = Append(@, p.chunk),
                                    ![t].pc = IF LastChunk(p.chunk) THEN "opening" ELSE @]
        /\ acks' = acks \cup {[thread |-> t, block |-> Expected(t)]}
  BY DEF Receive, Acknowledge
<1>2. thread[t].pc = "receiving" /\ UNCHANGED <<disk, server, data, client>>
  BY DEF Receive
<1> DEFINE f     == thread[t].from
           n     == Len(thread[t].got)
           from  == n * BlockSize
           got   == Append(thread[t].got, p.chunk)
           pc    == IF LastChunk(p.chunk) THEN "opening" ELSE "receiving"
           after == [pc |-> pc, from |-> f, got |-> got]
<1>3. /\ f \in Files /\ n \in Nat /\ thread[t].got \in Seq(Pieces)
      /\ client[f].port = t /\ client[f].block = n + 1
      /\ from <= f.size /\ p.chunk = Piece(f, from) /\ p.chunk \in Pieces
  BY <1>1, TakenPiece DEF Types
<1>4. /\ from \in Nat /\ (n + 1) * BlockSize = from + BlockSize
      /\ f.size \in Nat /\ BlockSize \in Nat
  BY <1>3, Offsets, FilesAssumption, SizesAssumption
<1>5. LastChunk(p.chunk) <=> f.size < (n + 1) * BlockSize
  BY <1>3, <1>4, PieceIs DEF LastChunk
<1>6. /\ got \in Seq(Pieces) /\ Len(got) = n + 1
      /\ got[n + 1] = p.chunk /\ \A i \in 1..n : got[i] = thread[t].got[i]
  BY <1>3, AppendProperties
<1>7. thread[t] \in ThreadRecord
  BY DEF Types
<1> HIDE DEF from, got, pc
<1>8. /\ thread'[t] = after
      /\ \A u \in Threads \ {t} : thread'[u] = thread[u]
      /\ thread' \in [Threads -> ThreadRecord]
  <2>1. thread \in [Threads -> ThreadRecord]
    BY DEF Types
  <2>2. thread' = [thread EXCEPT ![t].got = got, ![t].pc = pc]
    BY <1>1, <1>2, <2>1 DEF got, pc
  <2>3. got \in Seq(Pieces) /\ pc \in {"opening", "receiving"}
    BY <1>6 DEF pc
  <2>4. /\ thread' \in [Threads -> ThreadRecord]
        /\ thread'[t].pc = pc /\ thread'[t].from = f /\ thread'[t].got = got
        /\ \A u \in Threads \ {t} : thread'[u] = thread[u]
    BY <2>1, <2>2, <2>3 DEF ThreadRecord
  <2>5. thread'[t] = [pc |-> thread'[t].pc, from |-> thread'[t].from, got |-> thread'[t].got]
    BY <2>4 DEF ThreadRecord
  <2> QED
    BY <2>4, <2>5
<1>9. Types'
  <2>1. Expected(t) = n + 1
    BY DEF Expected
  <2> QED
    BY <1>1, <1>2, <1>3, <1>8, <2>1 DEF Types
<1>10. FreeInv'
  BY <1>2, <1>3, <1>8 DEF FreeInv, pc
<1>11. ClientInv'
  <2> SUFFICES ASSUME NEW g \in Files, client[g].port # NoThread
               PROVE  LET u == client[g].port
                      IN  /\ thread'[u].from = g
                          /\ 1 <= client[g].block
                          /\ Len(thread'[u].got) <= client[g].block
                          /\ client[g].block <= Len(thread'[u].got) + 1
    BY <1>2 DEF ClientInv
  <2>1. client[g].port \in Threads /\ client[g].block \in Nat
    BY DEF Types, ClientRecord
  <2>2. CASE client[g].port = t
    <3>1. g = f
      BY <2>2 DEF ClientInv
    <3> QED
      BY <1>3, <1>6, <1>8, <2>2, <3>1
  <2>3. CASE client[g].port # t
    BY <1>8, <2>1, <2>3 DEF ClientInv
  <2> QED
    BY <2>2, <2>3
<1>12. DataInv'
  <2>1. \A u \in Threads : thread'[u].from = thread[u].from
    BY <1>8
  <2> QED
    BY <1>2, <2>1 DEF DataInv, Types, Piece, FT!Piece
<1>13. AcksInv'
  <2>1. \A u \in Threads : thread[u].pc # "free" => thread'[u].pc # "free"
    BY <1>8 DEF pc
  <2>2. Len(thread'[t].got) = n + 1 /\ thread'[t].pc # "free"
    BY <1>6, <1>8 DEF pc
  <2>3. ASSUME NEW a \in acks
        PROVE  thread'[a.thread].pc # "free" /\ a.block <= Len(thread'[a.thread].got)
    <3>1. a.thread \in Threads /\ a.block \in Nat
      BY DEF Types
    <3>2. thread[a.thread].pc # "free" /\ a.block <= Len(thread[a.thread].got)
      BY DEF AcksInv
    <3>3. CASE a.thread = t
      BY <1>3, <2>2, <3>1, <3>2, <3>3
    <3>4. CASE a.thread # t
      BY <1>8, <3>1, <3>2, <3>4
    <3> QED
      BY <3>3, <3>4
  <2>4. Expected(t) = n + 1 /\ n + 1 <= n + 1
    BY <1>3 DEF Expected
  <2>5. \A a \in acks' : a \in acks \/ (a.thread = t /\ a.block = Len(thread'[t].got))
    BY <1>1, <2>2, <2>4
  <2>6. Len(thread'[t].got) <= Len(thread'[t].got)
    BY <1>3, <2>2
  <2> QED
    BY <2>2, <2>3, <2>5, <2>6 DEF AcksInv
<1>14. GotInv'
  <2> SUFFICES ASSUME NEW u \in Threads
               PROVE  LET g == thread'[u].from  m == Len(thread'[u].got)
                      IN  /\ m > 0 => client[g].port = u
                          /\ \A i \in 1..m : /\ thread'[u].got[i] = Piece(g, (i - 1) * BlockSize)
                                             /\ (i - 1) * BlockSize <= g.size
                          /\ IF thread'[u].pc \in {"free", "receiving", "timedout"}
                             THEN m > 0 => m * BlockSize <= g.size
                             ELSE m > 0 /\ g.size < m * BlockSize
    BY <1>2 DEF GotInv, Piece, FT!Piece
  <2>1. CASE u # t
    BY <1>8, <2>1 DEF GotInv
  <2>2. CASE u = t
    <3>1. thread'[u].from = f /\ thread'[u].got = got /\ thread'[u].pc = pc
      BY <1>8, <2>2
    <3>2. ASSUME NEW i \in 1..(n + 1)
          PROVE  got[i] = Piece(f, (i - 1) * BlockSize) /\ (i - 1) * BlockSize <= f.size
      <4>1. CASE i \in 1..n
        BY <1>6, <4>1 DEF GotInv
      <4>2. CASE i = n + 1
        <5>1. (i - 1) * BlockSize = from
          BY <1>3, <4>2 DEF from
        <5> QED
          BY <1>3, <1>6, <4>2, <5>1
      <4> QED
        BY <1>3, <4>1, <4>2
    <3>3. IF pc \in {"free", "receiving", "timedout"}
          THEN (n + 1) * BlockSize <= f.size ELSE f.size < (n + 1) * BlockSize
      BY <1>4, <1>5 DEF pc
    <3> QED
      BY <1>3, <1>6, <2>2, <3>1, <3>2, <3>3
  <2> QED
    BY <2>1, <2>2
<1>15. DiskInv'
  <2>1. Touching' = Touching /\ t \notin Touching
    BY <1>2, <1>8 DEF Touching, pc
  <2>2. \A u \in Touching : thread'[u] = thread[u]
    BY <1>8, <2>1 DEF Touching
  <2> QED
    BY <1>2, <2>1, <2>2, DiskSame
<1> QED
  BY <1>9, <1>10, <1>11, <1>12, <1>13, <1>14, <1>15

\* The ACK that a client hears is of all that its thread has got.
LEMMA HeardBlock ==
  ASSUME Inv, NEW f \in Files, NEW a \in acks, thread[a.thread].from = f,
         client[f].port \in {NoThread, a.thread},
         SameNumber(a.block, client[f].block), client[f].block - a.block <= Lifetime
  PROVE  LET u == a.thread
         IN  /\ u \in Threads /\ thread[u].pc # "free" /\ thread[u].got \in Seq(Pieces)
             /\ client[f].block \in Nat /\ Len(thread[u].got) = client[f].block
<1> USE DEF Inv
<1> DEFINE u == a.thread
           n == Len(thread[u].got)
           block == client[f].block
<1>1. /\ u \in Threads /\ a.block \in Nat /\ block \in Nat
      /\ thread[u].got \in Seq(Pieces) /\ n \in Nat
  BY DEF Types, ThreadRecord, ClientRecord
<1>2. thread[u].pc # "free" /\ a.block <= n
  BY DEF AcksInv
<1>3. CASE client[f].port = NoThread
  <2>1. block = 0
    BY <1>3 DEF ClientInv
  <2>2. n = 0
    <3>1. client[f].port # u
      BY <1>1, <1>3, ThreadsAssumption
    <3> QED
      BY <1>1, <3>1 DEF GotInv
  <2> QED
    BY <1>1, <1>2, <2>1, <2>2
<1>4. CASE client[f].port = u
  <2>1. n <= block
    BY <1>1, <1>4, ThreadsAssumption DEF ClientInv
  <2>2. a.block <= block /\ block - a.block < W
    BY <1>1, <1>2, <2>1, SizesAssumption
  <2>3. a.block = block
    <3> DEFINE b == a.block
    <3>1. b \in Nat /\ block \in Nat /\ b <= block /\ block - b < W /\ SameNumber(b, block)
      BY <1>1, <2>2
    <3> HIDE DEF b, block
    <3>2. b = block
      BY <3>1, SameBlock
    <3> QED
      BY <3>2 DEF b, block
  <2> QED
    BY <1>1, <1>2, <2>1, <2>3
<1> QED
  BY <1>3, <1>4

\* A client that is done, or gives up, sends no more.
LEMMA ClientStops ==
  ASSUME Inv, NEW f \in Files, NEW pc \in {"ok", "failed"},
         client' = [client EXCEPT ![f].pc = pc], UNCHANGED <<disk, server, thread, data, acks>>
  PROVE  Inv'
<1> USE DEF Inv
<1>1. /\ client' \in [Files -> ClientRecord]
      /\ \A g \in Files : client'[g].port = client[g].port /\ client'[g].block = client[g].block
  BY DEF Types, ClientRecord
<1>2. Types'
  BY <1>1 DEF Types
<1>3. FreeInv' /\ ClientInv' /\ AcksInv'
  BY <1>1 DEF FreeInv, ClientInv, AcksInv
<1>4. DataInv'
  BY <1>1 DEF DataInv, Piece, FT!Piece
<1>5. GotInv'
  <2>1. \A t \in Threads : Len(thread[t].got) > 0 => thread[t].from \in Files
    BY DEF FreeInv, GotInv
  <2> QED
    BY <1>1, <2>1 DEF GotInv, Piece, FT!Piece
<1>6. DiskInv'
  BY DiskSame DEF Touching
<1> QED
  BY <1>2, <1>3, <1>4, <1>5, <1>6

SentOn(new, old, f, block, u) ==
  /\ new \in [Files -> ClientRecord] /\ new[f].port = u /\ new[f].block = block
  /\ \A g \in Files \ {f} : new[g] = old[g]

LEMMA SendingOn ==
  ASSUME NEW old \in [Files -> ClientRecord], NEW f \in Files, NEW block \in Nat,
         NEW u \in Threads
  PROVE  SentOn([old EXCEPT ![f].block = block, ![f].port = u], old, f, block, u)
BY DEF ClientRecord, SentOn

\* The next block is sent when the one before has been taken.
LEMMA ClientSends ==
  ASSUME Inv, NEW f \in Files, NEW u \in Threads, thread[u].from = f, thread[u].pc # "free",
         client[f].port \in {NoThread, u}, client[f].block \in Nat,
         thread[u].got \in Seq(Pieces), Len(thread[u].got) = client[f].block,
         client[f].block * BlockSize <= f.size,
         client' = [client EXCEPT ![f].block = client[f].block + 1, ![f].port = u],
         data' = data \cup {[thread |-> u, block |-> client[f].block + 1,
                             chunk |-> Piece(f, client[f].block * BlockSize)]},
         UNCHANGED <<disk, server, thread, acks>>
  PROVE  Inv'
<1> USE DEF Inv
<1> DEFINE n == client[f].block
           from == n * BlockSize
           packet == [thread |-> u, block |-> n + 1, chunk |-> Piece(f, from)]
<1>1. from \in Nat /\ ((n + 1) - 1) * BlockSize = from
  BY Offsets
<1>2. Piece(f, from) \in Pieces
  BY <1>1, PieceIs
<1>3. /\ client' \in [Files -> ClientRecord]
      /\ client'[f].port = u /\ client'[f].block = n + 1
      /\ \A g \in Files \ {f} : client'[g] = client[g]
  <2> DEFINE block == n + 1
  <2>1. block \in Nat /\ client \in [Files -> ClientRecord]
    BY DEF Types
  <2>2. client' = [client EXCEPT ![f].block = block, ![f].port = u]
    OBVIOUS
  <2> HIDE DEF block
  <2>3. SentOn([client EXCEPT ![f].block = block, ![f].port = u], client, f, block, u)
    BY <2>1, SendingOn
  <2>4. SentOn(client', client, f, block, u)
    BY <2>2, <2>3
  <2> QED
    BY <2>4 DEF block, SentOn
<1>4. packet \in [thread : Threads, block : Nat, chunk : Pieces]
  BY <1>2
<1>5. Types'
  BY <1>3, <1>4 DEF Types
<1>6. FreeInv'
  <2>1. \A t \in Threads, g \in Files : thread[t].pc = "free" => client'[g].port # t
    BY <1>3 DEF FreeInv
  <2> QED
    BY <2>1 DEF FreeInv
<1>7. ClientInv'
  <2>1. u # NoThread
    BY ThreadsAssumption
  <2>2. 1 <= n + 1 /\ n <= n + 1 /\ n + 1 <= n + 1
    OBVIOUS
  <2> QED
    BY <1>3, <2>1, <2>2 DEF ClientInv
<1>8. DataInv'
  <2> SUFFICES ASSUME NEW d \in data'
               PROVE  LET g == thread[d.thread].from
                      IN  /\ g \in Files /\ client'[g].port = d.thread
                          /\ 1 <= d.block /\ d.block <= client'[g].block
                          /\ (d.block - 1) * BlockSize <= g.size
                          /\ d.chunk = Piece(g, (d.block - 1) * BlockSize)
    BY DEF DataInv, Piece, FT!Piece
  <2>1. CASE d \in data
    <3> DEFINE g == thread[d.thread].from
    <3>1. /\ g \in Files /\ client[g].port = d.thread /\ d.thread \in Threads /\ d.block \in Nat
          /\ 1 <= d.block /\ d.block <= client[g].block
          /\ (d.block - 1) * BlockSize <= g.size
          /\ d.chunk = Piece(g, (d.block - 1) * BlockSize)
      BY <2>1 DEF DataInv, Types
    <3> HIDE DEF g
    <3>2. CASE g = f
      <4>1. client[f].port = u
        BY <3>1, <3>2, ThreadsAssumption
      <4>2. d.block <= n + 1
        BY <3>1, <3>2
      <4> QED
        BY <1>3, <3>1, <3>2, <4>1, <4>2 DEF g
    <3>3. CASE g # f
      BY <1>3, <3>1, <3>3 DEF g
    <3> QED
      BY <3>2, <3>3
  <2>2. CASE d = packet
    <3>1. d.thread = u /\ d.block = n + 1 /\ d.chunk = Piece(f, from)
      BY <2>2
    <3>2. 1 <= n + 1 /\ n + 1 <= n + 1
      OBVIOUS
    <3> QED
      BY <1>1, <1>3, <3>1, <3>2
  <2> QED
    BY <2>1, <2>2
<1>9. AcksInv'
  BY DEF AcksInv
<1>10. GotInv'
  <2>1. \A t \in Threads : /\ thread[t].got \in Seq(Pieces)
                           /\ Len(thread[t].got) > 0 => thread[t].from \in Files
    BY DEF FreeInv, GotInv, Types, ThreadRecord
  <2>2. ASSUME NEW t \in Threads, Len(thread[t].got) > 0
        PROVE  client'[thread[t].from].port = t
    <3>1. client[thread[t].from].port = t
      BY <2>2 DEF GotInv
    <3> QED
      BY <1>3, <2>1, <2>2, <3>1, ThreadsAssumption
  <2> QED
    BY <2>2 DEF GotInv, Piece, FT!Piece
<1>11. DiskInv'
  BY DiskSame DEF Touching
<1> QED
  BY <1>5, <1>6, <1>7, <1>8, <1>9, <1>10, <1>11

LEMMA HearInv == ASSUME Inv, NEW f \in Files, Hear(f) PROVE Inv'
<1> DEFINE n == client[f].block
<1>1. PICK a \in acks :
        /\ thread[a.thread].from = f /\ client[f].port \in {NoThread, a.thread}
        /\ SameNumber(a.block, n) /\ n - a.block <= Lifetime
        /\ IF n > 0 /\ Piece(f, (n - 1) * BlockSize).size < BlockSize
           THEN /\ client' = [client EXCEPT ![f].pc = "ok"]
                /\ UNCHANGED data
           ELSE /\ client' = [client EXCEPT ![f].block = n + 1, ![f].port = a.thread]
                /\ data' = data \cup {[thread |-> a.thread, block |-> n + 1,
                                       chunk |-> Piece(f, n * BlockSize)]}
  BY DEF Hear
<1>2. UNCHANGED <<disk, server, thread, acks>>
  BY DEF Hear
<1>3. /\ a.thread \in Threads /\ thread[a.thread].pc # "free"
      /\ thread[a.thread].got \in Seq(Pieces) /\ n \in Nat /\ Len(thread[a.thread].got) = n
  BY <1>1, HeardBlock
<1>4. CASE n > 0 /\ Piece(f, (n - 1) * BlockSize).size < BlockSize
  BY <1>1, <1>2, <1>4, ClientStops
<1>5. CASE ~(n > 0 /\ Piece(f, (n - 1) * BlockSize).size < BlockSize)
  <2>1. n * BlockSize <= f.size
    <3>1. CASE n = 0
      BY <3>1, FilesAssumption, SizesAssumption
    <3>2. CASE n > 0
      <4> DEFINE from == (n - 1) * BlockSize
      <4>1. n - 1 \in Nat /\ (n - 1) + 1 = n /\ n \in 1..n
        BY <1>3, <3>2
      <4>2. from \in Nat /\ n * BlockSize = from + BlockSize
        BY <4>1, Offsets
      <4>3. from <= f.size
        BY <1>1, <1>3, <4>1 DEF Inv, GotInv
      <4> HIDE DEF from
      <4>4. ~(Piece(f, from).size < BlockSize)
        BY <1>5, <3>2 DEF from
      <4>5. ~(f.size < from + BlockSize)
        BY <4>2, <4>3, <4>4, PieceIs
      <4> QED
        BY <4>2, <4>5, FilesAssumption, SizesAssumption
    <3> QED
      BY <1>3, <3>1, <3>2
  <2> QED
    BY <1>1, <1>2, <1>3, <1>5, <2>1, ClientSends
<1> QED
  BY <1>4, <1>5

LEMMA TimeoutInv == ASSUME Inv, NEW t \in Threads, Timeout(t) PROVE Inv'
<1> USE DEF Inv
<1>1. /\ thread[t].pc = "receiving" /\ thread' = [thread EXCEPT ![t].pc = "timedout"]
      /\ UNCHANGED <<disk, server, data, acks, client>>
  BY DEF Timeout
<1>2. /\ Links' /\ thread' \in [Threads -> ThreadRecord] /\ thread'[t].pc = "timedout"
      /\ \A u \in Threads \ {t} : thread'[u] = thread[u]
  BY <1>1, PcChange DEF Links
<1>3. Types'
  BY <1>1, <1>2 DEF Types
<1>4. Touching' = Touching /\ t \notin Touching
  BY <1>1, <1>2 DEF Touching
<1>5. DiskInv'
  BY <1>1, <1>2, <1>4, DiskSame DEF Touching
<1> QED
  BY <1>2, <1>3, <1>5 DEF Links

LEMMA OpenInv == ASSUME Inv, NEW t \in Threads, Open(t) PROVE Inv'
<1> USE DEF Inv
<1>1. PICK pc \in {"writing", "refused"} :
        /\ thread' = [thread EXCEPT ![t].pc = pc]
        /\ pc = "writing" => disk' = <<>>
        /\ pc = "refused" => UNCHANGED disk
  BY DEF Open, EmptiedByOpen
<1>2. thread[t].pc = "opening" /\ UNCHANGED <<server, data, acks, client>>
  BY DEF Open
<1>3. /\ Links' /\ thread' \in [Threads -> ThreadRecord] /\ thread'[t].pc = pc
      /\ \A u \in Threads \ {t} : thread'[u] = thread[u]
  BY <1>1, <1>2, PcChange DEF Links
<1>4. Types'
  <2>1. disk' = <<>> \/ disk' = disk
    BY <1>1
  <2>2. <<>> \in Seq(Places) /\ disk \in Seq(Places)
    BY DEF Types
  <2>3. disk' \in Seq(Places)
    BY <2>1, <2>2
  <2> QED
    BY <1>2, <1>3, <2>3 DEF Types
<1>5. CASE pc = "writing"
  <2>1. t \in Touching'
    BY <1>3, <1>5 DEF Touching
  <2> QED
    BY <1>1, <1>3, <1>4, <1>5, <2>1, DiskOpened DEF Links
<1>6. CASE pc = "refused"
  <2>1. Touching' = Touching /\ t \notin Touching
    BY <1>2, <1>3, <1>6 DEF Touching
  <2>2. DiskInv'
    BY <1>1, <1>3, <1>6, <2>1, DiskSame DEF Touching
  <2> QED
    BY <1>3, <1>4, <2>2 DEF Links
<1> QED
  BY <1>1, <1>5, <1>6

LEMMA WriteInv == ASSUME Inv, NEW t \in Threads, Write(t) PROVE Inv'
<1> USE DEF Inv
<1> DEFINE f == thread[t].from
           bytes == Received(t)
<1>1. PICK pc \in {"stored", "lost"} :
        /\ thread' = [thread EXCEPT ![t].pc = pc]
        /\ pc = "stored" => disk' = WrittenOver(bytes)
        /\ pc = "lost" => \E room \in 0..(Len(bytes) - 1) :
                            disk' = WrittenOver(SubSeq(bytes, 1, room))
  BY DEF Write
<1>2. thread[t].pc = "writing" /\ UNCHANGED <<server, data, acks, client>>
  BY DEF Write
<1>3. /\ Links' /\ thread' \in [Threads -> ThreadRecord] /\ thread'[t].pc = pc
      /\ \A u \in Threads : thread'[u].from = thread[u].from
      /\ \A u \in Threads \ {t} : thread'[u] = thread[u]
  BY <1>1, <1>2, PcChange DEF Links
<1>4. bytes = Bytes(f, f.size) /\ f \in Files /\ f.size \in Nat
  BY <1>2, ReceivedIs, FilesAssumption DEF FreeInv
<1>5. bytes \in Seq(Places) /\ Len(bytes) \in Nat
  <2>1. f \in Files \cup {NoFile}
    BY <1>4
  <2> HIDE DEF f, bytes
  <2> QED
    BY <1>4, <2>1, BytesAre
<1>6. Touching' = Touching /\ t \in Touching
  BY <1>2, <1>3 DEF Touching
<1> HIDE DEF bytes
<1>7. CASE pc = "stored"
  <2>1. disk' \in Seq(Places)
    BY <1>1, <1>5, <1>7, WrittenOverIs DEF Types, IsWritten
  <2>2. DiskInv'
    BY <1>1, <1>2, <1>3, <1>4, <1>6, <1>7, DiskWritten DEF Touching
  <2> QED
    BY <1>2, <1>3, <2>1, <2>2 DEF Types, Links
<1>8. CASE pc = "lost"
  <2>1. PICK room \in 0..(Len(bytes) - 1) : disk' = WrittenOver(SubSeq(bytes, 1, room))
    BY <1>1, <1>8
  <2>2. SubSeq(bytes, 1, room) \in Seq(Places)
    <3>1. 1 \in Int /\ room \in Int /\ \A i \in 1..room : bytes[i] \in Places
      BY <1>5, LenProperties
    <3> QED
      BY <3>1, SubSeqProperties
  <2>3. disk' \in Seq(Places)
    BY <2>1, <2>2, WrittenOverIs DEF Types, IsWritten
  <2>4. DiskInv'
    BY <1>3, <1>6, <1>8, DiskLost
  <2> QED
    BY <1>2, <1>3, <2>3, <2>4 DEF Types, Links
<1> QED
  BY <1>1, <1>7, <1>8

LEMMA IdleInv == Inv /\ (CtrlC \/ UNCHANGED vars) => Inv'
<1> SUFFICES ASSUME Inv, CtrlC \/ UNCHANGED vars PROVE Inv'
  OBVIOUS
<1>1. UNCHANGED <<disk, thread, data, acks, client>> /\ server' \in {"up", "stopped"}
  BY DEF CtrlC, vars, Inv, Types
<1>2. DiskInv'
  BY <1>1, DiskSame DEF Inv, Touching
<1> QED
  BY <1>1, <1>2 DEF Inv, Types, FreeInv, ClientInv, DataInv, AcksInv, GotInv, Piece, FT!Piece

LEMMA StepInv == Inv /\ [Next]_vars => Inv'
<1> SUFFICES ASSUME Inv, [Next]_vars PROVE Inv'
  OBVIOUS
<1>1. ASSUME NEW t \in Threads,
             Accept(t) \/ Receive(t) \/ Timeout(t) \/ Open(t) \/ Write(t)
      PROVE  Inv'
  BY <1>1, AcceptInv, ReceiveInv, TimeoutInv, OpenInv, WriteInv
<1>2. ASSUME NEW f \in Files, GiveUp(f) PROVE Inv'
  BY <1>2, ClientStops DEF GiveUp
<1>3. ASSUME NEW f \in Files, Hear(f) PROVE Inv'
  BY <1>3, HearInv
<1>4. CASE CtrlC \/ UNCHANGED vars
  BY <1>4, IdleInv
<1> QED
  BY <1>1, <1>2, <1>3, <1>4 DEF Next

LEMMA Invariance == Spec => []Inv
BY InitInv, StepInv, PTL DEF Spec

--------------------------------------------------------------------------------
(* The theorems *)

\* serve_wrq stores whole files, though nothing is locked (mini_tftpd.py:77-112): for
\* any number of uploads that meet at a path, of any sizes, with copies of their
\* requests, the path holds the old file until one of them is complete, and when
\* they are all written it begins with all of one of them, ends where one of them
\* ends, and each byte in between is some upload's byte of that place.
THEOREM StoredWhole == Spec => []StoredIsWhole
<1>1. Inv => StoredIsWhole
  <2> SUFFICES ASSUME Inv PROVE StoredIsWhole
    OBVIOUS
  <2>1. \A t, u \in Touching : thread[t].from = thread[u].from => t = u
    <3>1. \A t \in Touching : client[thread[t].from].port = t
      <4> SUFFICES ASSUME NEW t \in Touching PROVE client[thread[t].from].port = t
        OBVIOUS
      <4>1. t \in Threads /\ thread[t].pc \notin {"free", "receiving", "timedout"}
        BY DEF Touching
      <4> QED
        BY <4>1 DEF Inv, GotInv
    <3> QED
      BY <3>1
  <2> QED
    BY <2>1 DEF Inv, DiskInv, StoredIsWhole
<1> QED
  BY <1>1, Invariance, PTL

\* serve_wrq implements FileTransfer seen from the other end: each thread gets the
\* pieces of one file in order, none missing and none twice, and goes on to store
\* them with the last one only.
THEOREM UploadHolds == Spec => Upload
<1>1. Init => \A t \in Threads : FT(t)!Init
  <2> SUFFICES ASSUME Init, NEW t \in Threads PROVE FT(t)!Init
    OBVIOUS
  <2>1. thread[t].pc = "free" /\ thread[t].got = <<>>
    BY DEF Init
  <2> QED
    BY <2>1 DEF FT!Init, Source, Outcome
<1>2. ASSUME Inv, [Next]_vars
      PROVE  [\A t \in Threads : [FT(t)!Next]_<<Source(t), thread[t].got, Outcome(t)>>]_vars
  <2> SUFFICES ASSUME NEW t \in Threads
               PROVE  [FT(t)!Next]_<<Source(t), thread[t].got, Outcome(t)>>
    OBVIOUS
  <2>1. thread[t] \in ThreadRecord /\ thread \in [Threads -> ThreadRecord]
    BY <1>2 DEF Inv, Types
  <2>2. CASE thread'[t] = thread[t]
    BY <2>2 DEF Source, Outcome
  <2>3. CASE Accept(t)
    <3>1. /\ thread[t].pc = "free" /\ thread[t].got = <<>>
          /\ thread'[t].pc = "receiving" /\ thread'[t].got = <<>>
      BY <1>2, <2>1, <2>3 DEF Accept, Inv, FreeInv
    <3> QED
      BY <3>1 DEF Source, Outcome
  <2>4. CASE Receive(t)
    <3>1. PICK p \in data :
            /\ IsExpected(p, t) /\ Expected(t) - p.block <= Lifetime
            /\ thread' = [thread EXCEPT ![t].got = Append(@, p.chunk),
                                        ![t].pc = IF LastChunk(p.chunk) THEN "opening" ELSE @]
      BY <2>4 DEF Receive
    <3> DEFINE f == thread[t].from
               n == Len(thread[t].got)
               got == Append(thread[t].got, p.chunk)
               pc == IF LastChunk(p.chunk) THEN "opening" ELSE "receiving"
    <3>2. /\ f \in Files /\ n \in Nat /\ thread[t].got \in Seq(Pieces)
          /\ n * BlockSize <= f.size /\ p.chunk = Piece(f, n * BlockSize)
      BY <1>2, <3>1, TakenPiece
    <3>3. thread[t].pc = "receiving"
      BY <2>4 DEF Receive
    <3>4. p.chunk \in Pieces
      BY <1>2 DEF Inv, Types
    <3>5. got \in Seq(Pieces) /\ got # <<>>
      BY <3>2, <3>4, AppendProperties
    <3>6. FT(t)!Received(thread[t].got) = n * BlockSize
      <4>1. CASE n = 0
        BY <3>2, <4>1, SizesAssumption DEF FT!Received
      <4>2. CASE n > 0
        <5> DEFINE from == (n - 1) * BlockSize
        <5>1. n - 1 \in Nat /\ (n - 1) + 1 = n /\ thread[t].got # <<>>
          BY <3>2, <4>2
        <5>2. from \in Nat /\ n * BlockSize = from + BlockSize
          BY <5>1, Offsets
        <5>3. /\ FT(t)!Received(thread[t].got) = from + Piece(f, from).size
              /\ from <= f.size
          BY <1>2, <3>2, <5>1, Counted DEF Inv
        <5> HIDE DEF from
        <5>4. Piece(f, from).size = BlockSize
          <6>1. ~(f.size < from + BlockSize)
            BY <3>2, <5>2, FilesAssumption, SizesAssumption
          <6>2. ~(Piece(f, from).size < BlockSize) /\ Piece(f, from).size <= BlockSize
                /\ Piece(f, from) \in Pieces
            BY <3>2, <5>2, <5>3, <6>1, PieceIs
          <6> QED
            BY <6>2, SizesAssumption DEF Pieces
        <5> QED
          BY <5>2, <5>3, <5>4
      <4> QED
        BY <3>2, <4>1, <4>2
    <3> HIDE DEF got, pc
    <3>7. thread'[t].got = got /\ thread'[t].pc = pc /\ thread'[t].from = f
      <4>1. thread' = [thread EXCEPT ![t].got = got, ![t].pc = pc]
        BY <2>1, <3>1, <3>3 DEF got, pc
      <4> QED
        BY <2>1, <4>1 DEF ThreadRecord
    <3>8. /\ Source(t) \in {NoFile, f} /\ Source(t)' = f
          /\ Outcome(t) = "running"
          /\ Outcome(t)' = IF p.chunk.size < BlockSize THEN "ok" ELSE "running"
      BY <3>3, <3>5, <3>7 DEF Source, Outcome, pc, LastChunk
    <3>9. FT(t)!Piece(f, FT(t)!Received(thread[t].got)) = p.chunk
      BY <3>2, <3>6 DEF Piece, FT!Piece
    <3>10. FT(t)!Deliver
      BY <3>2, <3>7, <3>8, <3>9 DEF FT!Deliver, got
    <3> QED
      BY <3>10 DEF FT!Next
  <2>5. CASE Timeout(t)
    <3>1. /\ thread[t].pc = "receiving" /\ thread'[t].pc = "timedout"
          /\ thread'[t].got = thread[t].got /\ thread'[t].from = thread[t].from
      BY <2>1, <2>5 DEF Timeout, ThreadRecord
    <3>2. FT(t)!Fail
      BY <3>1 DEF FT!Fail, Source, Outcome
    <3> QED
      BY <3>2 DEF FT!Next
  <2>6. CASE Open(t) \/ Write(t)
    <3>1. PICK pc \in {"writing", "refused", "stored", "lost"} :
            thread' = [thread EXCEPT ![t].pc = pc]
      BY <2>6 DEF Open, Write
    <3>2. /\ thread[t].pc \in {"opening", "writing"} /\ thread'[t].pc = pc
          /\ thread'[t].got = thread[t].got /\ thread'[t].from = thread[t].from
      BY <2>1, <2>6, <3>1 DEF Open, Write, ThreadRecord
    <3> QED
      BY <3>2 DEF Source, Outcome
  <2>7. CASE \E f \in Files : Hear(f) \/ GiveUp(f)
    BY <2>2, <2>7 DEF Hear, GiveUp
  <2>8. CASE CtrlC \/ UNCHANGED vars
    BY <2>2, <2>8 DEF CtrlC, vars
  <2>9. ASSUME NEW u \in Threads \ {t},
               Accept(u) \/ Receive(u) \/ Timeout(u) \/ Open(u) \/ Write(u)
        PROVE  thread'[t] = thread[t]
    BY <2>1, <2>9 DEF Accept, Receive, Timeout, Open, Write
  <2> QED
    BY <1>2, <2>2, <2>3, <2>4, <2>5, <2>6, <2>7, <2>8, <2>9 DEF Next
<1> QED
  BY <1>1, <1>2, Invariance, PTL DEF Spec, Upload
================================================================================
