--------------------------------- MODULE Build ---------------------------------
(****************************************************************************)
(* build_kvm_firmware.py, and options 1 and 2 of runme.sh that call it: one *)
(* build at a time, step by step, over the .fl files and .md5 sidecars of   *)
(* the release directory.  A step may fail (a feature that refuses, a tool  *)
(* that is missing, a full disk), Ctrl-C may come between any two, and what *)
(* one build leaves behind is what the next one starts from.                *)
(****************************************************************************)
EXTENDS Firmware

CONSTANTS
  Names,      \* names of .fl files in the release directory
  Stock,      \* the one that is there from the start
  MaxBuilds,  \* bound: builds that are started
  Selections, \* bound: the sets of features that are asked for
  Trouble     \* what may go wrong: subset of {"tool", "full", "interrupt"}

ASSUME NamesAssumption == Stock \in Names /\ None \notin Names
ASSUME BuildsAssumption == MaxBuilds \in Nat
ASSUME SelectionsAssumption == Selections \subseteq SUBSET Features
ASSUME TroubleAssumption == Trouble \subseteq {"tool", "full", "interrupt"}

VARIABLES
  fl,      \* name -> the image in the file, or None
  md5,     \* name -> the image its sidecar was computed from, None or Torn
  menu,    \* is runme.sh at its prompt, or gone?
  FW_PATH, \* runme.sh: the firmware that is open, or None
  job,     \* the build_kvm_firmware.py process
  builds   \* history: builds started so far

disk == <<fl, md5>>
vars == <<disk, menu, FW_PATH, job, builds>>

NoTree == [manifest |-> {}, file |-> [p \in {} |-> {}]]
NoJob  == [pc |-> "idle", menu |-> FALSE, stock |-> None, out |-> None, feats |-> {},
           skipped |-> FALSE, id |-> None, base |-> None, tree |-> NoTree,
           image |-> None]

Applying == {"modem", "avsp", "java", "enh", "gg"}
Writing  == {"open", "body", "tail", "truncate", "sidecar"}
Stages   == {"idle", "start", "unpack", "ptmx", "pack", "check", "done", "failed"}
              \cup Applying \cup Writing

TypeOK ==
  /\ DOMAIN fl = Names /\ DOMAIN md5 = Names
  /\ \A n \in Names : /\ fl[n] = None \/ IsImage(fl[n])
                      /\ md5[n] \in {None, Torn} \/ IsImage(md5[n])
  /\ menu \in {"prompt", "gone"}
  /\ FW_PATH \in Names \cup {None}
  /\ job.pc \in Stages
  /\ {job.stock, job.out} \subseteq Names \cup {None} /\ job.feats \subseteq Features
  /\ job.tree.manifest \subseteq Paths
  /\ job.tree.file \in [job.tree.manifest \ Special -> SUBSET Edits]
  /\ \A image \in {job.base, job.image} : image = None \/ IsImage(image)
  /\ builds \in 0..MaxBuilds

\* A sidecar may come with the stock image or not.
Init ==
  /\ \E layout \in Layouts :
       fl = [n \in Names |-> IF n = Stock
                             THEN [root |-> StockRoot(layout), lost |-> "nothing"]
                             ELSE None]
  /\ md5 \in {[n \in Names |-> None], [n \in Names |-> fl[n]]}
  /\ menu = "prompt" /\ FW_PATH = None
  /\ job = NoJob /\ builds = 0

Accepted(n) == Verifies(fl[n], md5[n])

--------------------------------------------------------------------------------
(* runme.sh *)

\* open_firmware: a file that is missing or does not verify leaves none open.
Open(n) ==
  /\ menu = "prompt" /\ job.pc = "idle"
  /\ FW_PATH' = IF Accepted(n) THEN n ELSE None
  /\ UNCHANGED <<disk, menu, job, builds>>

Start(request) ==
  /\ job.pc = "idle" /\ builds < MaxBuilds
  /\ job' = [NoJob EXCEPT !.pc = "start", !.menu = request.menu, !.stock = request.stock,
                          !.out = request.out, !.feats = request.feats,
                          !.skipped = request.skipped, !.id = request.id]
  /\ builds' = builds + 1
  /\ UNCHANGED <<disk, menu, FW_PATH>>

\* build_firmware_menu: any features and any output name.  java-certs without an
\* IP is taken back by blanking its word in the array, which leaves an empty word.
Choose ==
  /\ menu = "prompt" /\ FW_PATH # None
  /\ \E feats \in Selections, skipped \in BOOLEAN, out \in Names, id \in Ids :
       /\ skipped => "java" \notin feats
       /\ feats # {} \/ skipped
       /\ Start([menu |-> TRUE, stock |-> FW_PATH, out |-> out, feats |-> feats,
                 skipped |-> skipped, id |-> id])

\* The same program run from a shell; without features it asks for them.
Command ==
  /\ menu = "gone"
  /\ \E n, out \in Names, feats \in Selections, id \in Ids :
       Start([menu |-> FALSE, stock |-> n, out |-> out, feats |-> feats,
              skipped |-> FALSE, id |-> id])

\* Lines 319-327: the exit status is reported and the menu comes back.
Report ==
  /\ job.pc \in {"done", "failed"}
  /\ job' = NoJob
  /\ UNCHANGED <<disk, menu, FW_PATH, builds>>

\* 0) Exit, and ./runme.sh again.
Leave ==
  /\ menu = "prompt" /\ job.pc = "idle"
  /\ menu' = "gone" /\ FW_PATH' = None
  /\ UNCHANGED <<disk, job, builds>>

Again ==
  /\ menu = "gone" /\ job.pc = "idle"
  /\ menu' = "prompt"
  /\ UNCHANGED <<disk, FW_PATH, job, builds>>

--------------------------------------------------------------------------------
(* build_kvm_firmware.py *)

Goto(pc)   == job' = [job EXCEPT !.pc = pc] /\ UNCHANGED <<menu, FW_PATH, builds>>
Fail       == Goto("failed") /\ UNCHANGED disk

\* Mutant: the input is not verified again.
CheckTrusting ==
  /\ job.pc = "start"
  /\ IF job.skipped \/ fl[job.stock] = None THEN Fail
     ELSE IF job.feats = {} THEN Goto("done") /\ UNCHANGED disk
     ELSE /\ job' = [job EXCEPT !.pc = "unpack", !.base = fl[job.stock]]
          /\ UNCHANGED <<disk, menu, FW_PATH, builds>>

\* Lines 121-171: the empty word is an unrecognized argument; an input that does
\* not verify is refused; without features there is nothing to do.
Check ==
  /\ job.pc = "start"
  /\ IF job.skipped \/ ~Accepted(job.stock) THEN Fail
     ELSE IF job.feats = {} THEN Goto("done") /\ UNCHANGED disk
     ELSE /\ job' = [job EXCEPT !.pc = "unpack", !.base = fl[job.stock]]
          /\ UNCHANGED <<disk, menu, FW_PATH, builds>>

Unpack ==
  /\ job.pc = "unpack"
  /\ job' = [job EXCEPT !.pc = "ptmx", !.tree = Unpacked(fl[job.stock])]
  /\ UNCHANGED <<disk, menu, FW_PATH, builds>>

EnsureDevptmx ==
  /\ job.pc = "ptmx"
  /\ job' = [job EXCEPT !.pc = "modem", !.tree = Devptmx(@)]
  /\ UNCHANGED <<disk, menu, FW_PATH, builds>>

After == [modem |-> "avsp", avsp |-> "java", java |-> "enh", enh |-> "gg", gg |-> "pack"]

\* Lines 183-205, in this order.  A feature that raises ends the build; openssl
\* and the JDK that java-certs needs may be missing or fail.
ApplyFeature ==
  /\ job.pc \in Applying
  /\ IF job.pc \notin job.feats THEN Goto(After[job.pc]) /\ UNCHANGED disk
     ELSE \/ /\ Refuses(job.pc, job.tree) \/ (job.pc = "java" /\ "tool" \in Trouble)
             /\ Fail
          \/ /\ ~Refuses(job.pc, job.tree)
             /\ job' = [job EXCEPT !.tree = Applied(job.pc, @, job.id), !.pc = After[@]]
             /\ UNCHANGED <<disk, menu, FW_PATH, builds>>

\* cmd_pack, up to the image in memory.
Pack ==
  /\ job.pc = "pack"
  /\ job' = [job EXCEPT !.pc = "open", !.image = Packed(job.tree, fl[job.stock])]
  /\ UNCHANGED <<disk, menu, FW_PATH, builds>>

\* open(out, 'wb') empties the file before anything is written to it.
WriteFile ==
  \/ /\ job.pc = "open"
     /\ fl' = [fl EXCEPT ![job.out] = [job.image EXCEPT !.lost = "body"]]
     /\ Goto("body") /\ UNCHANGED md5
  \/ /\ job.pc = "body"
     /\ fl' = [fl EXCEPT ![job.out] = [job.image EXCEPT !.lost = "tail"]]
     /\ Goto("tail") /\ UNCHANGED md5
  \/ /\ job.pc = "tail"
     /\ fl' = [fl EXCEPT ![job.out] = job.image]
     /\ Goto("truncate") /\ UNCHANGED md5

\* ... and the same for the sidecar, of the image in memory.
WriteSidecar ==
  \/ /\ job.pc = "truncate"
     /\ md5' = [md5 EXCEPT ![job.out] = Torn]
     /\ Goto("sidecar") /\ UNCHANGED fl
  \/ /\ job.pc = "sidecar"
     /\ md5' = [md5 EXCEPT ![job.out] = job.image]
     /\ Goto("check") /\ UNCHANGED fl

\* Of the temporary tree or of the release directory.
DiskFull ==
  "full" \in Trouble /\ job.pc \in {"unpack", "ptmx"} \cup Applying \cup Writing /\ Fail

\* Lines 211-218.
CheckOutput ==
  /\ job.pc = "check"
  /\ Goto(IF Accepted(job.out) THEN "done" ELSE "failed")
  /\ UNCHANGED disk

\* Ctrl-C, or worse: the build and the menu above it are gone, the files stay.
Interrupt ==
  /\ "interrupt" \in Trouble
  /\ job.pc \notin {"idle", "done", "failed"}
  /\ job' = NoJob
  /\ menu' = "gone" /\ FW_PATH' = None
  /\ UNCHANGED <<disk, builds>>

BuildStep ==
  \/ Check \/ Unpack \/ EnsureDevptmx \/ ApplyFeature \/ Pack
  \/ WriteFile \/ WriteSidecar \/ DiskFull \/ CheckOutput

Next ==
  \/ \E n \in Names : Open(n)
  \/ Choose \/ Command \/ Report \/ Leave \/ Again
  \/ BuildStep \/ Interrupt

Spec == Init /\ [][Next]_vars

--------------------------------------------------------------------------------
\* What a feature adds to a file of the rootfs.
AddedBy(f, p, base, id) ==
  CASE f = "modem" /\ p = "auto_run" -> {"modem"}
    [] f = "modem" /\ p = "inittab"  -> {"ttyS1"}
    [] f = "avsp"  /\ p = "auto_run" -> {"hook"}
    [] f = "java"  /\ p = "jar"      -> {"patched"}
    [] f = "java"  /\ p = "certs"    -> {"fresh"}
    [] f = "enh"   /\ p = "login" /\ base["login"] \cap Ids = {} -> {id}
    [] OTHER -> {}

\* What the rootfs should hold after a build: all that was in it before, the
\* edits of the chosen features, the device node, and nothing else.
Wanted(feats, base, id) ==
  [p \in DOMAIN base \cup {"ptmx"} \cup (IF "gg" \in feats THEN {"helper"} ELSE {}) |->
     (IF p \in DOMAIN base THEN base[p] ELSE {})
       \cup UNION {AddedBy(f, p, base, id) : f \in feats}]

Succeeded == job.pc = "done" /\ job.feats # {}

\* A build that reports success has written a file that verifies, has lost
\* nothing the input had, and holds exactly the features of the input and the
\* chosen ones -- device nodes and new files, which exist in the manifest only
\* or need an entry there, included -- however the files came to be what they
\* were, and also when the output replaces the input.
DoneDelivers ==
  Succeeded =>
    /\ Accepted(job.out)
    /\ fl[job.out].lost = job.base.lost
    /\ fl[job.out].root = Wanted(job.feats, job.base.root, job.id)

\* From the check to the last read of the input, it is a file that verifies: the
\* menu may still have a firmware open that an earlier build has since broken.
NeverBuildsOnBroken ==
  job.pc \in {"unpack", "ptmx", "pack"} \cup Applying => Accepted(job.stock)

\* The sidecar is what tells a file that was cut short from a whole one: a file
\* becomes an accepted image without its tail only where no sidecar lay beside it,
\* or where the input or the sidecar was of such an image already -- whatever was
\* interrupted, and in whatever order builds replaced each other's files.
Truncated(n) == Accepted(n) /\ fl[n].lost = "tail"
SidecarProtects ==
  [][\A n \in Names : ~Truncated(n) /\ Truncated(n)' =>
       \/ md5[n] = None
       \/ job.base # None /\ job.base.lost = "tail"
       \/ md5[n] \notin {None, Torn} /\ md5[n].lost = "tail"]_vars

--------------------------------------------------------------------------------
\* runme.sh:243: "No IP given -- skipping java-certs."  The rest is then built,
\* or there is "nothing to build" (291).
SkippedIsSkipped == job.pc = "failed" => ~job.skipped
================================================================================
