-------------------------------- MODULE MCCramfs -------------------------------
EXTENDS Cramfs, TLC

\* The second name is as long as the widths allow, the third one byte longer.
MCNameLen == <<3, 12, 13>>

Dir == [type |-> "dir", size |-> 0, zips |-> <<>>]
TwoBlocks == [type |-> "reg", size |-> 65, zips |-> <<12, 9>>]
Largest == [type |-> "dev", size |-> 127, zips |-> <<>>]

Incompressible == [type |-> "reg", size |-> 127, zips |-> <<69, 66>>]

Kinds ==
  {Dir, TwoBlocks, Largest, Incompressible,
   [type |-> "reg", size |-> 0, zips |-> <<>>],
   [type |-> "lnk", size |-> 5, zips |-> <<11>>],
   [type |-> "dev", size |-> 128, zips |-> <<>>]}

Maybe(path, kinds) == {<<>>} \cup {path :> node : node \in kinds}

\* Up to three entries in the root; the first may be a directory of two, the first
\* of which may be a directory again.
Inside ==
  {a @@ b : a \in Maybe(<<1, 1>>, {Dir, TwoBlocks, Largest}),
            b \in Maybe(<<1, 2>>, {Dir, TwoBlocks, Largest})}
  \cup {(<<1, 1>> :> Dir) @@ b : b \in Maybe(<<1, 1, 2>>, {Dir, TwoBlocks, Largest})}

\* The offset of the second directory, cut off, is that of the root: the reader
\* goes round in circles.
Circle ==
  (<<>> :> Dir) @@ (<<1>> :> Dir) @@ (<<1, 1>> :> TwoBlocks)
  @@ (<<1, 2>> :> Incompressible) @@ (<<2>> :> Dir) @@ (<<2, 1>> :> Dir)
  @@ (<<2, 2>> :> Dir)

MCTrees ==
  {Circle} \cup
  {(<<>> :> Dir) @@ a @@ b @@ c :
     a \in Maybe(<<1>>, Kinds) \cup {(<<1>> :> Dir) @@ in : in \in Inside},
     b \in Maybe(<<2>>, Kinds), c \in Maybe(<<3>>, {Dir, TwoBlocks})}
================================================================================
