------------------------------ MODULE FlashTools -------------------------------
(****************************************************************************)
(* The three static binaries the scripts call on /dev/mtd1, modelled from   *)
(* how the scripts use them and from what they report:                      *)
(*   mtd_erase_write  refuses a region that is neither blank nor ours, then *)
(*                    erases block by block, checks the erase, writes block *)
(*                    by block and verifies: PASS or FAIL;                  *)
(*   mtd_erase_only   erases block by block and checks: PASS or FAIL;       *)
(*                    both also end in FAIL where an ioctl, a seek, a read  *)
(*                    or a write fails, and leave the region as it is then; *)
(*   flash_bundle_read copies the bundle out, FAIL when there is none.      *)
(* The scripts ignore their exit status (the binaries die of SIGILL anyway).*)
(****************************************************************************)
EXTENDS Appliance

Ours     == flash[1] \notin {Blank, Foreign}     \* the region starts with AVCB
AllBlank == Whole(Blank)

\* The job record of `mtd_erase_write_ppc /dev/mtd1 <offset> <src>`: the source
\* is read into memory and the region checked before anything is erased.
EraseWrite(src) ==
  IF src # None /\ (Ours \/ AllBlank)
  THEN [op |-> "erase", k |-> 1, src |-> src]
  ELSE [op |-> "fail", k |-> 1, src |-> src]

\* `mtd_erase_only_ppc /dev/mtd1 <offset> <length>`: no check, nothing to write.
EraseOnly == [op |-> "erase", k |-> 1, src |-> None]

\* What an attempt at a block comes to: "toolfail" says that it may not take.
Attempt(wanted, otherwise) ==
  {wanted} \cup (IF "toolfail" \in Activity THEN {otherwise} ELSE {})

\* A block that does not erase keeps what it held.
EraseBlock(p) ==
  /\ job[p].op = "erase" /\ job[p].k \in Blocks
  /\ \E c \in Attempt(Blank, flash[job[p].k]) :
       flash' = [flash EXCEPT ![job[p].k] = c]
  /\ job' = [job EXCEPT ![p].k = @ + 1]
  /\ UNCHANGED torn

\* The post-erase check.  An eraser is finished here; a writer goes on.
EraseChecked(p) ==
  /\ job[p].op = "erase" /\ job[p].k \notin Blocks
  /\ job' = [job EXCEPT ![p].k = 1,
                        ![p].op = IF ~AllBlank THEN "fail"
                                  ELSE IF job[p].src = None THEN "pass"
                                  ELSE "write"]
  /\ torn' = IF AllBlank THEN torn /\ job[p].src # None ELSE TRUE
  /\ UNCHANGED flash

\* Programming flash only clears bits: a block that is not blank is garbled, and
\* so is one that was programmed in part.  The magic of the first block stands in
\* both cases: it is written first, and is the same in every envelope.
WriteBlock(p) ==
  /\ job[p].op = "write" /\ job[p].k \in Blocks
  /\ \E c \in Attempt(IF flash[job[p].k] \in {Blank, job[p].src}
                       THEN job[p].src ELSE Bad, Bad) :
       flash' = [flash EXCEPT ![job[p].k] = c]
  /\ job' = [job EXCEPT ![p].k = @ + 1]
  /\ UNCHANGED torn

WriteChecked(p) ==
  /\ job[p].op = "write" /\ job[p].k \notin Blocks
  /\ job' = [job EXCEPT ![p].op = IF Whole(job[p].src) THEN "pass" ELSE "fail",
                        ![p].k = 1]
  /\ torn' = ~Whole(job[p].src)
  /\ UNCHANGED flash

\* A system call fails: the tool reports FAIL and ends where it is.
GivesUp(p) ==
  /\ "toolfail" \in Activity /\ Writing(p)
  /\ job' = [job EXCEPT ![p].op = "fail", ![p].k = 1]
  /\ torn' = TRUE
  /\ UNCHANGED flash

FlashStep(p) ==
  /\ \/ EraseBlock(p)
     \/ EraseChecked(p)
     \/ WriteBlock(p)
     \/ WriteChecked(p)
     \/ GivesUp(p)
  /\ UNCHANGED <<filesVars, wd, updateVars, shellVars, approved>>

\* Mutant: the reader knows the legacy format only.
TarAfterLegacyRead == tmp["tar"]

\* What `flash_bundle_read /dev/mtd1 <offset> /tmp/flash_bundle.tar` leaves in
\* the file: the bundle, a truncated one when a rewrite was cut short, and the
\* file as it was when the reader is missing or finds no bundle.
TarAfterRead ==
  IF jffs["reader"] # "ok" \/ ~Ours THEN tmp["tar"]
  ELSE IF \E v \in Builds : Whole(v) THEN flash[1]
  ELSE Bad
================================================================================
