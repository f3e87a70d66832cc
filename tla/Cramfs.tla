--------------------------------- MODULE Cramfs --------------------------------
(****************************************************************************)
(* cramfs_tool.py: serialize lays a tree out as an image, parse reads it    *)
(* back.  A directory first reserves a slot (inode and name) for every      *)
(* child, next to each other, then emits what the children hold and patches *)
(* their inodes; the reader knows where a directory ends from its size      *)
(* alone.  The fields of an inode are narrow and nothing looks whether a    *)
(* value fits: it is cut off.                                               *)
(*                                                                          *)
(* A path is a sequence of names, a name is a number in sorting order.  The *)
(* image maps an address to what starts there, a "cell" of so many bytes;   *)
(* the recursion of emit_dir and of build is a stack.  Owner, mode bits and *)
(* superblock are left out.                                                 *)
(****************************************************************************)
EXTENDS Integers, Sequences

CONSTANTS
  Trees,     \* functions from paths to nodes: type, size (rdev of a device), and
             \* the compressed length of each block
  NameLen,   \* how many bytes each name has
  BlockSize, \* BLKSZ, 4096
  NameBits,  \* width of namelen, which counts words (6)
  SizeBits,  \* width of size (24)
  OffBits,   \* width of offset, which counts words (26)
  MaxDepth   \* directories inside each other, before Python's recursion ends

Names == DOMAIN NameLen

HasData(node) == node.type \in {"reg", "lnk"}

Blocks(size) == (size + BlockSize - 1) \div BlockSize

ASSUME WidthsAssumption ==
  /\ BlockSize \in Nat \ {0} /\ NameBits \in Nat /\ SizeBits \in Nat /\ OffBits \in Nat
  /\ MaxDepth \in Nat /\ NameLen \in Seq(Nat \ {0})
\* Arithmetic, for the provers, who know nothing of powers.
ASSUME PowersAssumption == \A bits \in {NameBits, SizeBits, OffBits} : 2^bits \in Nat \ {0}
ASSUME TreesAssumption ==
  \A tree \in Trees :
    /\ DOMAIN tree \subseteq Seq(Names)
    /\ <<>> \in DOMAIN tree /\ tree[<<>>].type = "dir"
    /\ \A p \in DOMAIN tree :
         /\ Len(p) <= MaxDepth
         /\ p # <<>> => \E q \in DOMAIN tree, n \in Names :
                          p = Append(q, n) /\ tree[q].type = "dir"
         /\ tree[p].type \in {"dir", "reg", "lnk", "dev"} /\ tree[p].size \in Nat
         /\ tree[p].type = "dir" => tree[p].size = 0
         /\ tree[p].zips \in Seq(Nat \ {0})
         /\ Len(tree[p].zips) = IF HasData(tree[p]) THEN Blocks(tree[p].size) ELSE 0

VARIABLES
  tree,   \* what is written
  pc,     \* "serialize", "parse", "done" or "failed"
  pos,    \* the length of buf
  image,  \* the cells of buf
  stack,  \* the calls of emit_dir, or of build on directories, under way
  out     \* the tree read back

vars == <<tree, pc, pos, image, stack, out>>

\* What f has and, where it has nothing, what g has.
Adding(f, g) ==
  [x \in DOMAIN f \cup DOMAIN g |-> IF x \in DOMAIN f THEN f[x] ELSE g[x]]

ROOT == 64    \* HEADER: the superblock, then the inode of the root
Top == stack[Len(stack)]
Pop == SubSeq(stack, 1, Len(stack) - 1)

Children(p) == {n \in Names : Append(p, n) \in DOMAIN tree}

\* sorted(): the names in a directory come in their order.
First(names) == CHOOSE n \in names : \A m \in names : n <= m

Padded(bytes) == ((bytes + 3) \div 4) * 4

SlotSize(n) == 12 + Padded(NameLen[n])

\* Where things of these lengths end that lie one after the other.
Sums(start, lengths) ==
  LET end[i \in 0..Len(lengths)] == IF i = 0 THEN start ELSE end[i - 1] + lengths[i]
  IN  end

\* The entries of a directory in front of each name, and all of them.
EntrySizes(p) == [n \in Names |-> IF n \in Children(p) THEN SlotSize(n) ELSE 0]
DirSize(p) == Sums(0, EntrySizes(p))[Len(NameLen)]

--------------------------------------------------------------------------------
(* serialize *)

\* emit_dir and the first loop of emit_dir_entries are about to run for path p,
\* whose inode is at address at.
Call(p, at, start) ==
  [path |-> p, at |-> at, start |-> start,
   unplaced |-> {n \in Names : Append(p, n) \in DOMAIN tree},
   unfilled |-> {n \in Names : Append(p, n) \in DOMAIN tree}, slot |-> <<>>]

Cut(value, bits) == value % 2^bits

\* What write_inode leaves in the three words, as read_inode reads them.
Inode(type, size, namelen, offset) ==
  [type |-> type, size |-> Cut(size, SizeBits),
   namelen |-> 4 * Cut(namelen \div 4, NameBits),
   offset |-> 4 * Cut(offset \div 4, OffBits)]

Slot(bytes, name, inode) ==
  [kind |-> "slot", bytes |-> bytes, name |-> name, inode |-> inode]

Blank == Inode("none", 0, 0, 0)

Init ==
  /\ tree \in Trees
  /\ pc = "serialize"
  /\ pos = ROOT + 12
  /\ image = [a \in {ROOT} |-> Slot(12, 0, Blank)]
  /\ stack = <<Call(<<>>, ROOT, ROOT + 12)>>
  /\ out = <<>>

\* slot_at = alloc(12 + namelen_padded)
Reserve ==
  /\ pc = "serialize" /\ Top.unplaced # {}
  /\ LET n == First(Top.unplaced)
     IN  /\ image' = Adding(image, [a \in {pos} |-> Slot(SlotSize(n), n, Blank)])
         /\ pos' = pos + SlotSize(n)
         /\ stack' = [stack EXCEPT ![Len(stack)].unplaced = @ \ {n},
                                   ![Len(stack)].slot = Adding(@, [m \in {n} |-> pos])]
  /\ UNCHANGED <<tree, pc, out>>

\* write_inode in the slot at an address.
Patched(at, inode) == [image EXCEPT ![at].inode = inode]

\* Mutant: room for the end of one block.
TableOfOne(zips) == 4

TableBytes(zips) == 4 * Len(zips)

\* Where each compressed block ends, the absolute offsets of ptrs.
BlockEnds(zips, start) == Sums(start, zips)

\* Mutant: the next thing starts right behind the last block.
NoPadding(bytes) == bytes

AfterData(bytes) == Padded(bytes)

\* emit_file_data: the table of the ends, the blocks, and zeros up to a word.
FillData(n, p) ==
  LET zips  == tree[p].zips
      ends  == BlockEnds(zips, pos + TableBytes(zips))
      block == [i \in DOMAIN zips |-> [kind |-> "block", bytes |-> zips[i],
                                       content |-> <<p, i>>]]
      from  == [i \in DOMAIN zips |-> ends[i - 1]]
      cells == [a \in {from[i] : i \in DOMAIN zips} |->
                  block[CHOOSE i \in DOMAIN zips : from[i] = a]]
      table == [kind |-> "table", bytes |-> 4 * Len(zips),
                ends |-> [i \in DOMAIN zips |-> ends[i]]]
      inode == Inode(tree[p].type, tree[p].size, SlotSize(n) - 12, pos)
  IN  /\ HasData(tree[p])
      /\ IF zips = <<>>
         THEN image' = Patched(Top.slot[n], inode) /\ UNCHANGED pos
         ELSE /\ image' = Adding(Patched(Top.slot[n], inode), Adding([a \in {pos} |-> table], cells))
              /\ pos' = AfterData(ends[Len(zips)])
      /\ stack' = [stack EXCEPT ![Len(stack)].unfilled = @ \ {n}]

\* A device: its number is in the size field.
FillDevice(n, p) ==
  /\ tree[p].type = "dev"
  /\ image' = Patched(Top.slot[n], Inode("dev", tree[p].size, SlotSize(n) - 12, 0))
  /\ stack' = [stack EXCEPT ![Len(stack)].unfilled = @ \ {n}]
  /\ UNCHANGED pos

\* emit_dir(child)
FillDir(n, p) ==
  /\ tree[p].type = "dir"
  /\ stack' = Append([stack EXCEPT ![Len(stack)].unfilled = @ \ {n}],
                     Call(p, Top.slot[n], pos))
  /\ UNCHANGED <<pos, image>>

\* The second loop of emit_dir_entries, when all slots are reserved.
Fill ==
  /\ pc = "serialize" /\ Top.unplaced = {} /\ Top.unfilled # {}
  /\ LET n == First(Top.unfilled)
         p == Append(Top.path, n)
     IN  FillData(n, p) \/ FillDevice(n, p) \/ FillDir(n, p)
  /\ UNCHANGED <<tree, pc, out>>

NameField(p) == IF p = <<>> THEN 0 ELSE SlotSize(p[Len(p)]) - 12

\* emit_dir returns: the inode of the directory is written.  After the root, the
\* image is complete and is read back.
Leave ==
  /\ pc = "serialize" /\ Top.unplaced = {} /\ Top.unfilled = {}
  /\ image' = Patched(Top.at, Inode("dir", DirSize(Top.path), NameField(Top.path),
                                    Top.start))
  /\ stack' = Pop
  /\ pc' = IF Len(stack) = 1 THEN "parse" ELSE "serialize"
  /\ UNCHANGED <<tree, pos, out>>

--------------------------------------------------------------------------------
(* parse *)

Failed == pc' = "failed" /\ UNCHANGED <<stack, out>>

Read(p, node) == out' = Adding(out, [q \in {p} |-> node])

\* build of a directory: the entries from its offset on, size bytes of them.
Descend(p, inode, calls) ==
  /\ inode.type = "dir"
  /\ IF Len(p) > MaxDepth
     THEN Failed
     ELSE /\ Read(p, [type |-> "dir", size |-> 0, content |-> <<>>])
          /\ stack' = Append(calls, [path |-> p, from |-> inode.offset,
                                     to |-> inode.offset + inode.size])
          /\ UNCHANGED pc

\* read_file_data: each block from the end of the one before to its own.
ReadData(p, inode, calls) ==
  LET count == Blocks(inode.size)
      table == image[inode.offset]
      from(i) == IF i = 1 THEN inode.offset + 4 * count ELSE table.ends[i - 1]
      whole == /\ inode.offset \in DOMAIN image
               /\ table.kind = "table" /\ Len(table.ends) = count
               /\ \A i \in 1..count :
                    /\ from(i) \in DOMAIN image /\ image[from(i)].kind = "block"
                    /\ image[from(i)].bytes = table.ends[i] - from(i)
      content == IF count = 0 THEN <<>>
                 ELSE [i \in 1..count |-> image[from(i)].content]
  IN  /\ HasData(inode)
      /\ IF count = 0 \/ whole
         THEN /\ Read(p, [type |-> inode.type, size |-> inode.size, content |-> content])
              /\ stack' = calls /\ UNCHANGED pc
         ELSE Failed

ReadDevice(p, inode, calls) ==
  /\ inode.type = "dev"
  /\ Read(p, [type |-> "dev", size |-> inode.size, content |-> <<>>])
  /\ stack' = calls /\ UNCHANGED pc

ReadRoot ==
  /\ pc = "parse" /\ out = <<>>
  /\ Descend(<<>>, image[ROOT].inode, <<>>)
  /\ UNCHANGED <<tree, pos, image>>

\* The entry at pos of the directory being read.  Bytes that are no entry, or half
\* a name, are read as whatever they happen to be: the tree is lost.
ReadEntry ==
  /\ pc = "parse" /\ stack # <<>> /\ Top.from < Top.to
  /\ LET cell  == image[Top.from]
         p     == Append(Top.path, cell.name)
         calls == [stack EXCEPT ![Len(stack)].from = @ + 12 + cell.inode.namelen]
     IN  IF ~ /\ Top.from \in DOMAIN image
              /\ cell.kind = "slot" /\ cell.name \in Names
              /\ NameLen[cell.name] <= cell.inode.namelen
         THEN Failed
         ELSE \/ Descend(p, cell.inode, calls)
              \/ ReadData(p, cell.inode, calls)
              \/ ReadDevice(p, cell.inode, calls)
  /\ UNCHANGED <<tree, pos, image>>

ReturnFromDir ==
  /\ pc = "parse" /\ stack # <<>> /\ Top.from >= Top.to
  /\ stack' = Pop
  /\ pc' = IF Len(stack) = 1 THEN "done" ELSE "parse"
  /\ UNCHANGED <<tree, pos, image, out>>

Next == Reserve \/ Fill \/ Leave \/ ReadRoot \/ ReadEntry \/ ReturnFromDir

Spec == Init /\ [][Next]_vars

--------------------------------------------------------------------------------
\* Every value fits the field it is written to; directories count what their
\* entries take.
Fits ==
  /\ \A p \in DOMAIN tree :
       /\ p # <<>> => SlotSize(p[Len(p)]) - 12 < 4 * 2^NameBits
       /\ (IF tree[p].type = "dir" THEN DirSize(p) ELSE tree[p].size) < 2^SizeBits
  /\ pos <= 4 * 2^OffBits

Same ==
  [p \in DOMAIN tree |->
     [type |-> tree[p].type, size |-> tree[p].size,
      content |-> [i \in DOMAIN tree[p].zips |-> <<p, i>>]]]

\* walk_compare of the self-test, for every tree that fits the format and not only
\* for the firmware at hand: the image reads back as the tree it was made from.
RoundTrip ==
  /\ (Fits /\ pc = "done") => out = Same
  /\ ~(Fits /\ pc = "failed")

\* No two things in the image share a byte, none lies in the superblock or sticks
\* out at the end: nothing that was emitted is overwritten by what comes later,
\* however the directories are nested.
NoOverlap ==
  \A a \in DOMAIN image :
    /\ ROOT <= a /\ a + image[a].bytes <= pos
    /\ \A b \in DOMAIN image : a < b => a + image[a].bytes <= b
================================================================================
