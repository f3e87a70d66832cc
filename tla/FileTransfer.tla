----------------------------- MODULE FileTransfer ------------------------------
(****************************************************************************)
(* What a transfer by TFTP promises its two ends: the pieces of one file,   *)
(* in order, each once, and success only when the last of them has been     *)
(* written. Who looks at the outcome is another matter: fetch() of          *)
(* install.sh tests only that the file is not empty, ensure_file of         *)
(* watchdog.sh tests nothing.                                               *)
(****************************************************************************)
EXTENDS Integers, Sequences

CONSTANTS
  Files,      \* the files that may be fetched: records with a size in bytes
  BlockSize,
  NoFile      \* no piece of any file has arrived

VARIABLES source, got, outcome

\* The piece of file f that starts at a byte offset; an empty one at the end.
Piece(f, from) ==
  [file |-> f, from |-> from,
   size |-> IF f.size - from < BlockSize THEN f.size - from ELSE BlockSize]

\* How many bytes there are in pieces that follow each other.
Received(pieces) ==
  IF pieces = <<>> THEN 0
  ELSE pieces[Len(pieces)].from + pieces[Len(pieces)].size

Init == source = NoFile /\ got = <<>> /\ outcome = "running"

Deliver ==
  /\ outcome = "running"
  /\ \E f \in Files :
       /\ source \in {NoFile, f}
       /\ source' = f
       /\ got' = Append(got, Piece(f, Received(got)))
       /\ outcome' = IF Piece(f, Received(got)).size < BlockSize THEN "ok"
                     ELSE "running"

Fail == outcome = "running" /\ outcome' = "failed" /\ UNCHANGED <<source, got>>

Next == Deliver \/ Fail

Spec == Init /\ [][Next]_<<source, got, outcome>>
================================================================================
