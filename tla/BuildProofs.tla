------------------------------ MODULE BuildProofs ------------------------------
(****************************************************************************)
(* Proofs about Build, for any build ids, any names of files, any features  *)
(* asked for, any number of builds and any trouble they run into.           *)
(****************************************************************************)
EXTENDS Build, TLAPS

\* The rootfs that any mixture of features makes of a stock one: nothing of it is
\* ever lost, and what the features add is empty there or a device node.
Core  == Paths \ {"ptmx", "helper"}
Roots ==
  {root \in UNION {[paths -> SUBSET Edits] : paths \in SUBSET Paths} :
     /\ Core \subseteq DOMAIN root
     /\ \A p \in DOMAIN root \ Core : root[p] = {}}
Firmwares == [root : Roots, lost : {"nothing", "tail", "body"}]
Trees ==
  {tree \in [manifest : SUBSET Paths,
             file : UNION {[paths -> SUBSET Edits] : paths \in SUBSET Paths}] :
     DOMAIN tree.file = tree.manifest \ Special}

JobState ==
  [pc : Stages, menu : BOOLEAN, stock : Names \cup {None}, out : Names \cup {None},
   feats : SUBSET Features, skipped : BOOLEAN, id : Ids \cup {None},
   base : Firmwares \cup {None}, tree : Trees, image : Firmwares \cup {None}]

Types ==
  /\ fl \in [Names -> Firmwares \cup {None}]
  /\ md5 \in [Names -> Firmwares \cup {None, Torn}]
  /\ menu \in {"prompt", "gone"} /\ FW_PATH \in Names \cup {None}
  /\ job \in JobState /\ builds \in 0..MaxBuilds

--------------------------------------------------------------------------------
(* The operators *)

LEMMA Distinct ==
  /\ None \notin Firmwares /\ Torn \notin Firmwares /\ None # Torn /\ None \notin Names
  /\ Firmwares \subseteq Images(Paths, Edits)
BY NoneAssumption, NamesAssumption DEF Firmwares, Images, Roots

LEMMA FirmwareIsImage == \A image \in Firmwares : IsImage(image)
BY DEF Firmwares, Roots, IsImage

\* The file that a root is, and a root that a file is.
LEMMA RootAt ==
  ASSUME NEW root \in Roots
  PROVE  /\ DOMAIN root \subseteq Paths /\ Core \subseteq DOMAIN root
         /\ root = [p \in DOMAIN root |-> root[p]]
         /\ \A p \in DOMAIN root : root[p] \subseteq Edits
         /\ \A p \in DOMAIN root \ Core : root[p] = {}
BY DEF Roots

LEMMA RootIf ==
  ASSUME NEW paths \in SUBSET Paths, Core \subseteq paths, NEW root \in [paths -> SUBSET Edits],
         \A p \in paths \ Core : root[p] = {}
  PROVE  root \in Roots
BY DEF Roots

LEMMA Added ==
  ASSUME NEW f \in Features, NEW p, NEW base, NEW id \in Ids
  PROVE  /\ AddedBy(f, p, base, id) \subseteq Edits
         /\ p \notin Core => AddedBy(f, p, base, id) = {}
<1>1. \/ AddedBy(f, p, base, id) = {}
      \/ /\ p \in {"auto_run", "inittab", "jar", "certs", "login"}
         /\ AddedBy(f, p, base, id) \in {{"modem"}, {"ttyS1"}, {"hook"}, {"patched"}, {"fresh"}, {id}}
  BY DEF AddedBy, Features
<1> QED
  BY <1>1 DEF Edits, Core, Paths

LEMMA AddedMore ==
  ASSUME NEW done, NEW f, NEW p, NEW base, NEW id
  PROVE  UNION {AddedBy(g, p, base, id) : g \in done \cup {f}}
           = (UNION {AddedBy(g, p, base, id) : g \in done}) \cup AddedBy(f, p, base, id)
<1> DEFINE more == {AddedBy(g, p, base, id) : g \in done \cup {f}}
           some == {AddedBy(g, p, base, id) : g \in done}
           last == AddedBy(f, p, base, id)
<1>1. more = some \cup {last}
  OBVIOUS
<1> HIDE DEF more, some, last
<1>2. UNION more = (UNION some) \cup last
  BY <1>1
<1> QED
  BY <1>2 DEF more, some, last

\* What is wanted is a rootfs again ...
LEMMA WantedIsRoot ==
  ASSUME NEW root \in Roots, NEW id \in Ids, NEW feats \in SUBSET Features
  PROVE  Wanted(feats, root, id) \in Roots
<1> DEFINE paths == DOMAIN root \cup {"ptmx"} \cup (IF "gg" \in feats THEN {"helper"} ELSE {})
           File(p) == (IF p \in DOMAIN root THEN root[p] ELSE {})
                        \cup UNION {AddedBy(f, p, root, id) : f \in feats}
<1>1. paths \subseteq Paths /\ Core \subseteq paths
  BY RootAt DEF Paths
<1>2. ASSUME NEW p \in paths
      PROVE  /\ File(p) \subseteq Edits
             /\ p \notin Core => File(p) = {}
  <2>1. (IF p \in DOMAIN root THEN root[p] ELSE {}) \subseteq Edits
    BY RootAt
  <2>2. p \notin Core => (IF p \in DOMAIN root THEN root[p] ELSE {}) = {}
    BY RootAt
  <2>3. /\ UNION {AddedBy(f, p, root, id) : f \in feats} \subseteq Edits
        /\ p \notin Core => UNION {AddedBy(f, p, root, id) : f \in feats} = {}
    BY Added
  <2> QED
    BY <2>1, <2>2, <2>3
<1>3. Wanted(feats, root, id) = [p \in paths |-> File(p)]
  BY DEF Wanted
<1>4. Wanted(feats, root, id) \in [paths -> SUBSET Edits]
  <2> HIDE DEF File, paths
  <2> QED
    BY <1>2, <1>3
<1>5. \A p \in paths \ Core : Wanted(feats, root, id)[p] = {}
  <2> HIDE DEF File, paths
  <2> QED
    BY <1>2, <1>3
<1> HIDE DEF paths, File
<1> QED
  BY <1>1, <1>4, <1>5, RootIf


\* ... and each feature adds to it what is its own.
Extended(new, old, f, root, id) ==
  /\ DOMAIN new = DOMAIN old \cup (IF f = "gg" THEN {"helper"} ELSE {})
  /\ \A p \in DOMAIN new :
       new[p] = (IF p \in DOMAIN old THEN old[p] ELSE {}) \cup AddedBy(f, p, root, id)

LEMMA WantedMore ==
  ASSUME NEW root \in Roots, NEW id \in Ids, NEW done \in SUBSET Features, NEW f \in Features
  PROVE  Extended(Wanted(done \cup {f}, root, id), Wanted(done, root, id), f, root, id)
<1> DEFINE old == Wanted(done, root, id)
           new == Wanted(done \cup {f}, root, id)
           Paths1(feats) == DOMAIN root \cup {"ptmx"} \cup (IF "gg" \in feats THEN {"helper"} ELSE {})
           Was(p) == IF p \in DOMAIN root THEN root[p] ELSE {}
           Sum(feats, p) == UNION {AddedBy(g, p, root, id) : g \in feats}
<1>1. /\ old = [p \in Paths1(done) |-> Was(p) \cup Sum(done, p)]
      /\ new = [p \in Paths1(done \cup {f}) |-> Was(p) \cup Sum(done \cup {f}, p)]
  BY DEF Wanted
<1>2. \A p : Sum(done \cup {f}, p) = Sum(done, p) \cup AddedBy(f, p, root, id)
  BY AddedMore
<1>3. ASSUME NEW p \in DOMAIN new, p \notin DOMAIN old
      PROVE  Was(p) \cup Sum(done, p) = {}
  <2>1. p = "helper" /\ p \notin DOMAIN root
    BY <1>1, <1>3
  <2>2. p \notin Core
    BY <2>1 DEF Core
  <2> QED
    BY <2>1, <2>2, Added
<1>4. DOMAIN new = DOMAIN old \cup (IF f = "gg" THEN {"helper"} ELSE {})
  <2> HIDE DEF Was, Sum
  <2> QED
    BY <1>1
<1>5. ASSUME NEW p \in DOMAIN new
      PROVE  new[p] = (IF p \in DOMAIN old THEN old[p] ELSE {}) \cup AddedBy(f, p, root, id)
  <2>1. new[p] = (Was(p) \cup Sum(done, p)) \cup AddedBy(f, p, root, id)
    <3> HIDE DEF Was, Sum, Paths1
    <3> QED
      BY <1>1, <1>2
  <2>2. p \in DOMAIN old => old[p] = Was(p) \cup Sum(done, p)
    <3> HIDE DEF Was, Sum, Paths1
    <3> QED
      BY <1>1
  <2> HIDE DEF new, old, Was, Sum
  <2> QED
    BY <1>3, <2>1, <2>2
<1> HIDE DEF new, old
<1>6. Extended(new, old, f, root, id)
  BY <1>4, <1>5 DEF Extended
<1> QED
  BY <1>6 DEF new, old

\* The rootfs that a tree packs to.
Packs(tree) == [p \in tree.manifest |-> IF p \in Special THEN {} ELSE tree.file[p]]

LEMMA TreeIf ==
  ASSUME NEW manifest \in SUBSET Paths, NEW file \in [manifest \ Special -> SUBSET Edits]
  PROVE  [manifest |-> manifest, file |-> file] \in Trees
<1>1. manifest \ Special \in SUBSET Paths
  OBVIOUS
<1>2. file \in UNION {[paths -> SUBSET Edits] : paths \in SUBSET Paths}
  BY <1>1
<1>3. [manifest |-> manifest, file |-> file].file = file
  OBVIOUS
<1> QED
  BY <1>2, <1>3 DEF Trees

LEMMA TreeAt ==
  ASSUME NEW tree \in Trees
  PROVE  /\ tree = [manifest |-> tree.manifest, file |-> tree.file]
         /\ tree.manifest \in SUBSET Paths /\ tree.file \in [tree.manifest \ Special -> SUBSET Edits]
BY DEF Trees

Edited(new, tree, p, edits) ==
  /\ new \in Trees /\ new.manifest = tree.manifest
  /\ \A q \in tree.manifest :
       Packs(new)[q] = IF q = p THEN Packs(tree)[q] \cup edits ELSE Packs(tree)[q]

LEMMA EditPacks ==
  ASSUME NEW tree \in Trees, NEW p \in tree.manifest \ Special, NEW edits \in SUBSET Edits
  PROVE  Edited(Edit(tree, p, edits), tree, p, edits)
<1> DEFINE new  == Edit(tree, p, edits)
           file == [tree.file EXCEPT ![p] = @ \cup edits]
<1>1. new = [manifest |-> tree.manifest, file |-> file]
  <2>1. tree \in [manifest : SUBSET Paths,
                  file : UNION {[paths -> SUBSET Edits] : paths \in SUBSET Paths}]
    BY DEF Trees
  <2>2. new = [tree EXCEPT !.file = file]
    BY <2>1 DEF Edit
  <2> HIDE DEF file, new
  <2> QED
    BY <2>1, <2>2
<1>2. file \in [tree.manifest \ Special -> SUBSET Edits]
  BY TreeAt
<1>3. \A q \in tree.manifest \ Special :
        file[q] = IF q = p THEN tree.file[q] \cup edits ELSE tree.file[q]
  BY TreeAt
<1>4. new \in Trees /\ new.manifest = tree.manifest /\ new.file = file
  <2> HIDE DEF file, new
  <2> QED
    BY <1>1, <1>2, TreeAt, TreeIf
<1> HIDE DEF new, file
<1>5. ASSUME NEW q \in tree.manifest
      PROVE  Packs(new)[q] = IF q = p THEN Packs(tree)[q] \cup edits ELSE Packs(tree)[q]
  BY <1>3, <1>4 DEF Packs
<1>6. Edited(new, tree, p, edits)
  BY <1>4, <1>5 DEF Edited
<1> QED
  BY <1>6 DEF new


\* An edit of one file adds to the rootfs what the feature is to add.
LEMMA OneEdit ==
  ASSUME NEW tree \in Trees, NEW root \in Roots, NEW id \in Ids, NEW done \in SUBSET Features,
         NEW f \in Features, f # "gg", NEW new \in Trees, new.manifest = tree.manifest,
         Packs(tree) = Wanted(done, root, id),
         \A p \in tree.manifest : Packs(new)[p] = Packs(tree)[p] \cup AddedBy(f, p, root, id)
  PROVE  Packs(new) = Wanted(done \cup {f}, root, id)
<1> DEFINE old  == Wanted(done, root, id)
           want == Wanted(done \cup {f}, root, id)
<1>1. want = [p \in DOMAIN want |-> want[p]]
  <2>1. done \cup {f} \in SUBSET Features
    OBVIOUS
  <2>2. want \in Roots
    BY <2>1, WantedIsRoot
  <2> HIDE DEF want
  <2> QED
    BY <2>2, RootAt
<1>2. /\ DOMAIN want = DOMAIN old
      /\ \A p \in DOMAIN want : want[p] = old[p] \cup AddedBy(f, p, root, id)
  <2>1. Extended(want, old, f, root, id)
    BY WantedMore
  <2> HIDE DEF old, want
  <2>2. DOMAIN want = DOMAIN old
    BY <2>1 DEF Extended
  <2> QED
    BY <2>1, <2>2 DEF Extended
<1>3. Packs(tree) = old /\ DOMAIN Packs(tree) = tree.manifest
      /\ Packs(new) = [p \in tree.manifest |-> Packs(new)[p]]
  BY DEF Packs
<1> HIDE DEF old, want
<1>4. \A p \in tree.manifest : Packs(new)[p] = want[p]
  BY <1>2, <1>3
<1>5. want = [p \in tree.manifest |-> want[p]]
  BY <1>1, <1>2, <1>3
<1>6. Packs(new) = want
  BY <1>3, <1>4, <1>5
<1> QED
  BY <1>6 DEF want

LEMMA AppliedPacks ==
  ASSUME NEW tree \in Trees, NEW root \in Roots, NEW id \in Ids, NEW done \in SUBSET Features,
         NEW f \in Features \ done, Packs(tree) = Wanted(done, root, id)
  PROVE  /\ Applied(f, tree, id) \in Trees
         /\ Packs(Applied(f, tree, id)) = Wanted(done \cup {f}, root, id)
<1>1. Core \subseteq tree.manifest /\ Core \cap Special = {}
  <2>1. DOMAIN Packs(tree) = tree.manifest
    BY DEF Packs
  <2> QED
    BY <2>1, WantedIsRoot, RootAt DEF Core, Special
<1>2. /\ "auto_run" \in tree.manifest \ Special /\ "inittab" \in tree.manifest \ Special
      /\ "jar" \in tree.manifest \ Special /\ "certs" \in tree.manifest \ Special
      /\ "login" \in tree.manifest \ Special
  BY <1>1 DEF Core, Paths
<1>3. /\ {"modem"} \in SUBSET Edits /\ {"ttyS1"} \in SUBSET Edits /\ {"hook"} \in SUBSET Edits
      /\ {"patched"} \in SUBSET Edits /\ {"fresh"} \in SUBSET Edits /\ {id} \in SUBSET Edits
  BY DEF Edits
<1>4. CASE f = "modem"
  <2> DEFINE one == Edit(tree, "auto_run", {"modem"})
             two == Edit(one, "inittab", {"ttyS1"})
  <2>1. Edited(one, tree, "auto_run", {"modem"})
    BY <1>2, <1>3, EditPacks
  <2> HIDE DEF one
  <2>2. Edited(two, one, "inittab", {"ttyS1"})
    <3>1. one \in Trees /\ "inittab" \in one.manifest \ Special
      BY <1>2, <2>1 DEF Edited
    <3> QED
      BY <1>3, <3>1, EditPacks
  <2>3. Applied(f, tree, id) = two
    BY <1>4 DEF Applied, ModemConsole, one
  <2> HIDE DEF two
  <2>4. \A q \in tree.manifest : Packs(two)[q] = Packs(tree)[q] \cup AddedBy(f, q, root, id)
    BY <1>4, <2>1, <2>2 DEF AddedBy, Edited
  <2>5. two \in Trees /\ two.manifest = tree.manifest
    BY <2>1, <2>2 DEF Edited
  <2>6. f \in Features /\ f # "gg"
    BY <1>4
  <2> QED
    BY <2>3, <2>4, <2>5, <2>6, OneEdit
<1>5. CASE f = "avsp"
  <2> DEFINE one == Edit(tree, "auto_run", {"hook"})
  <2>1. Edited(one, tree, "auto_run", {"hook"})
    BY <1>2, <1>3, EditPacks
  <2>2. Applied(f, tree, id) = one
    BY <1>5 DEF Applied, AvspOnboardHook
  <2> HIDE DEF one
  <2>3. \A q \in tree.manifest : Packs(one)[q] = Packs(tree)[q] \cup AddedBy(f, q, root, id)
    BY <1>5, <2>1 DEF AddedBy, Edited
  <2> QED
    BY <1>5, <2>1, <2>2, <2>3, OneEdit DEF Edited
<1>6. CASE f = "java"
  <2> DEFINE one == Edit(tree, "certs", {"fresh"})
             two == Edit(one, "jar", {"patched"})
  <2>1. Edited(one, tree, "certs", {"fresh"})
    BY <1>2, <1>3, EditPacks
  <2> HIDE DEF one
  <2>2. Edited(two, one, "jar", {"patched"})
    <3>1. one \in Trees /\ "jar" \in one.manifest \ Special
      BY <1>2, <2>1 DEF Edited
    <3> QED
      BY <1>3, <3>1, EditPacks
  <2>3. Applied(f, tree, id) = two
    BY <1>6 DEF Applied, JavaCerts, one
  <2> HIDE DEF two
  <2>4. \A q \in tree.manifest : Packs(two)[q] = Packs(tree)[q] \cup AddedBy(f, q, root, id)
    BY <1>6, <2>1, <2>2 DEF AddedBy, Edited
  <2>5. two \in Trees /\ two.manifest = tree.manifest
    BY <2>1, <2>2 DEF Edited
  <2>6. f \in Features /\ f # "gg"
    BY <1>6
  <2> QED
    BY <2>3, <2>4, <2>5, <2>6, OneEdit
<1>7. CASE f = "enh"
  <2> DEFINE one == Edit(tree, "login", {id})
  <2>1. Edited(one, tree, "login", {id})
    BY <1>2, <1>3, EditPacks
  <2>2. tree.file["login"] = root["login"]
    <3>1. tree.file["login"] = Packs(tree)["login"]
      BY <1>2 DEF Packs
    <3>2. "login" \in DOMAIN root
      BY RootAt DEF Core, Paths
    <3>3. \A g \in done : AddedBy(g, "login", root, id) = {}
      BY <1>7 DEF AddedBy
    <3>4. UNION {AddedBy(g, "login", root, id) : g \in done} = {}
      BY <3>3
    <3>5. Wanted(done, root, id)["login"] = root["login"]
      BY <3>2, <3>4 DEF Wanted
    <3> QED
      BY <3>1, <3>5
  <2>3. Applied(f, tree, id) = IF root["login"] \cap Ids # {} THEN tree ELSE one
    BY <1>7, <2>2 DEF Applied, EnhancedBuild, Marked
  <2> HIDE DEF one
  <2>4. CASE root["login"] \cap Ids # {}
    <3>1. \A q \in tree.manifest : Packs(tree)[q] = Packs(tree)[q] \cup AddedBy(f, q, root, id)
      BY <1>7, <2>4 DEF AddedBy
    <3>2. f \in Features /\ f # "gg"
      BY <1>7
    <3> QED
      BY <2>3, <2>4, <3>1, <3>2, OneEdit
  <2>5. CASE root["login"] \cap Ids = {}
    <3>1. \A q \in tree.manifest : Packs(one)[q] = Packs(tree)[q] \cup AddedBy(f, q, root, id)
      BY <1>7, <2>1, <2>5 DEF AddedBy, Edited
    <3>2. one \in Trees /\ one.manifest = tree.manifest
      BY <2>1 DEF Edited
    <3>3. f \in Features /\ f # "gg"
      BY <1>7
    <3> QED
      BY <2>3, <2>5, <3>1, <3>2, <3>3, OneEdit
  <2> QED
    BY <2>4, <2>5
<1>8. CASE f = "gg"
  <2> DEFINE new  == GetAvspBundle(tree)
             old  == Wanted(done, root, id)
             want == Wanted(done \cup {f}, root, id)
             manifest == tree.manifest \cup {"helper"}
             file == [p \in DOMAIN tree.file \cup {"helper"} |->
                        IF p = "helper" THEN {} ELSE tree.file[p]]
  <2>1. new = [manifest |-> manifest, file |-> file]
    BY DEF GetAvspBundle
  <2>2. manifest \in SUBSET Paths /\ file \in [manifest \ Special -> SUBSET Edits]
    BY TreeAt DEF Paths, Special
  <2>3. new \in Trees /\ new.manifest = manifest /\ new.file = file
    <3> HIDE DEF manifest, file, new
    <3> QED
      BY <2>1, <2>2, TreeIf
  <2>4. want = [p \in DOMAIN want |-> want[p]] /\ old \in Roots
    BY WantedIsRoot, RootAt
  <2>5. /\ DOMAIN want = DOMAIN old \cup {"helper"}
        /\ \A p \in DOMAIN want : want[p] = IF p \in DOMAIN old THEN old[p] ELSE {}
    <3>1. \A p : AddedBy(f, p, root, id) = {}
      BY <1>8 DEF AddedBy
    <3>2. Extended(want, old, f, root, id)
      BY WantedMore
    <3> HIDE DEF old, want
    <3> QED
      BY <1>8, <3>1, <3>2 DEF Extended
  <2>6. "helper" \in DOMAIN old => old["helper"] = {}
    BY <2>4, RootAt DEF Core
  <2>7. DOMAIN old = tree.manifest
    BY DEF Packs
  <2>8. \A p \in manifest : Packs(new)[p] = IF p \in DOMAIN old THEN old[p] ELSE {}
    <3>1. \A p \in tree.manifest : old[p] = IF p \in Special THEN {} ELSE tree.file[p]
      BY DEF Packs
    <3>2. DOMAIN tree.file = tree.manifest \ Special /\ "helper" \notin Special
      BY TreeAt DEF Special
    <3>3. \A p \in manifest : Packs(new)[p] = IF p \in Special THEN {} ELSE file[p]
      BY <2>3 DEF Packs
    <3> HIDE DEF new, old, want
    <3> QED
      BY <2>6, <2>7, <3>1, <3>2, <3>3
  <2>9. Packs(new) = [p \in manifest |-> Packs(new)[p]]
    BY <2>3 DEF Packs
  <2>10. Applied(f, tree, id) = new
    BY <1>8 DEF Applied
  <2>11. Packs(new) = want
    <3> HIDE DEF new, old, want, file
    <3> QED
      BY <2>4, <2>5, <2>7, <2>8, <2>9
  <2> QED
    BY <2>3, <2>10, <2>11
<1> QED
  BY <1>4, <1>5, <1>6, <1>7, <1>8 DEF Features

--------------------------------------------------------------------------------
(* The invariant *)

Reading == {"unpack", "ptmx", "pack"} \cup Applying
Written == {"open", "body", "tail", "truncate", "sidecar", "check"}

\* The features that have had their turn before a step.
Passed ==
  [modem |-> {}, avsp |-> {"modem"}, java |-> {"modem", "avsp"},
   enh |-> {"modem", "avsp", "java"}, gg |-> {"modem", "avsp", "java", "enh"},
   pack |-> Features]

Requested == job.pc # "idle" => job.id \in Ids /\ {job.stock, job.out} \subseteq Names

\* What the job remembers of its input is what the input still is: its own output
\* is written only after the last read.
InputStands ==
  /\ job.pc \in Reading \cup Written => job.feats # {} /\ job.base \in Firmwares
  /\ job.pc \in Reading => Accepted(job.stock) /\ job.base = fl[job.stock]

\* The tree holds what was asked for as far as the build has come.
TreeFollows ==
  /\ job.pc = "ptmx" => job.tree = Unpacked(job.base)
  /\ job.pc \in Applying \cup {"pack"} =>
       Packs(job.tree) = Wanted(job.feats \cap Passed[job.pc], job.base.root, job.id)

\* So does the image, and then the file.
ImageFollows ==
  /\ job.pc \in Written =>
       job.image = [root |-> Wanted(job.feats, job.base.root, job.id), lost |-> job.base.lost]
  /\ job.pc \in {"truncate", "sidecar", "check"} => fl[job.out] = job.image

BuildInv ==
  Types /\ Requested /\ InputStands /\ TreeFollows /\ ImageFollows /\ DoneDelivers


LEMMA NoJobTyped == NoJob \in JobState
<1>1. NoTree \in Trees
  <2>1. {} \in SUBSET Paths /\ [p \in {} |-> {}] \in [{} \ Special -> SUBSET Edits]
    OBVIOUS
  <2> QED
    BY <2>1, TreeIf DEF NoTree
<1> QED
  BY <1>1 DEF NoJob, JobState, Stages

\* The stock images.
LEMMA StockIsRoot == ASSUME NEW layout \in Layouts PROVE StockRoot(layout) \in Roots
<1>1. layout \in [auto_run : SUBSET {"avogetty"}, login : SUBSET {"version"}]
  BY LayoutsAssumption
<1>2. layout.auto_run \subseteq Edits /\ layout.login \subseteq Edits
      /\ DOMAIN layout = {"auto_run", "login"}
  BY <1>1 DEF Edits
<1>3. \A p \in Core : (IF p \in DOMAIN layout THEN layout[p] ELSE {}) \in SUBSET Edits
  BY <1>2
<1>4. StockRoot(layout) \in [Core -> SUBSET Edits]
  BY <1>3 DEF StockRoot, Core
<1>5. Core \in SUBSET Paths
  BY DEF Core
<1> QED
  BY <1>4, <1>5, RootIf

LEMMA Starts == Init => BuildInv
<1> SUFFICES ASSUME Init PROVE BuildInv
  OBVIOUS
<1>1. fl \in [Names -> Firmwares \cup {None}]
  <2>1. PICK layout \in Layouts :
          fl = [n \in Names |-> IF n = Stock
                                THEN [root |-> StockRoot(layout), lost |-> "nothing"]
                                ELSE None]
    BY DEF Init
  <2>2. [root |-> StockRoot(layout), lost |-> "nothing"] \in Firmwares
    BY StockIsRoot DEF Firmwares
  <2> QED
    BY <2>1, <2>2
<1>2. md5 \in [Names -> Firmwares \cup {None, Torn}]
  BY <1>1 DEF Init
<1>3. Types
  BY <1>1, <1>2, NoJobTyped, BuildsAssumption DEF Init, Types
<1>4. job.pc = "idle"
  BY DEF Init, NoJob
<1> QED
  BY <1>3, <1>4 DEF BuildInv, Requested, InputStands, TreeFollows, ImageFollows, DoneDelivers,
     Succeeded, Reading, Written, Applying

--------------------------------------------------------------------------------
(* The operators over a whole tree *)

LEMMA UnpackedIsTree == ASSUME NEW image \in Firmwares PROVE Unpacked(image) \in Trees
<1>1. image.root \in Roots
  BY DEF Firmwares
<1>2. DOMAIN image.root \in SUBSET Paths
      /\ [p \in DOMAIN image.root \ Special |-> image.root[p]]
           \in [DOMAIN image.root \ Special -> SUBSET Edits]
  BY <1>1, RootAt
<1> QED
  BY <1>2, TreeIf DEF Unpacked

\* What is unpacked and has its device node is what a build without features wants.
LEMMA DevptmxPacks ==
  ASSUME NEW image \in Firmwares, NEW id \in Ids
  PROVE  /\ Devptmx(Unpacked(image)) \in Trees
         /\ Packs(Devptmx(Unpacked(image))) = Wanted({}, image.root, id)
<1> DEFINE root == image.root
           file == [p \in DOMAIN root \ Special |-> root[p]]
           paths == DOMAIN root \cup {"ptmx"}
           tree == [manifest |-> paths, file |-> file]
<1>1. root \in Roots
  BY DEF Firmwares
<1>2. Devptmx(Unpacked(image)) = tree
  <2>1. Unpacked(image) = [manifest |-> DOMAIN root, file |-> file]
    BY DEF Unpacked
  <2> HIDE DEF root, file
  <2> QED
    BY <2>1 DEF Devptmx
<1>3. paths \in SUBSET Paths /\ paths \ Special = DOMAIN root \ Special
      /\ file \in [DOMAIN root \ Special -> SUBSET Edits]
  BY <1>1, RootAt DEF Special, Paths
<1>4. tree \in Trees
  <2> HIDE DEF paths, file, root
  <2> QED
    BY <1>3, TreeIf
<1>5. Packs(tree) = [p \in paths |-> IF p \in Special THEN {} ELSE file[p]]
  BY DEF Packs
<1>6. Wanted({}, root, id) = [p \in paths |-> IF p \in DOMAIN root THEN root[p] ELSE {}]
  <2>1. \A p : UNION {AddedBy(f, p, root, id) : f \in {}} = {}
    OBVIOUS
  <2>2. \A p : (IF p \in DOMAIN root THEN root[p] ELSE {})
                 \cup UNION {AddedBy(f, p, root, id) : f \in {}}
               = (IF p \in DOMAIN root THEN root[p] ELSE {})
    BY <2>1
  <2>3. DOMAIN root \cup {"ptmx"} \cup (IF "gg" \in {} THEN {"helper"} ELSE {}) = paths
    OBVIOUS
  <2> HIDE DEF root, paths
  <2> QED
    BY <2>2, <2>3 DEF Wanted
<1>7. \A p \in paths : (IF p \in Special THEN {} ELSE file[p])
                         = (IF p \in DOMAIN root THEN root[p] ELSE {})
  <2>1. "ptmx" \in DOMAIN root => root["ptmx"] = {}
    BY <1>1, RootAt DEF Core
  <2> QED
    BY <2>1 DEF Special
<1>8. Packs(tree) = Wanted({}, root, id)
  <2> HIDE DEF root, paths, file, tree
  <2> QED
    BY <1>5, <1>6, <1>7
<1> QED
  BY <1>2, <1>4, <1>8

LEMMA Stepwise ==
  ASSUME NEW f \in Applying
  PROVE  /\ After[f] \in Applying \cup {"pack"} /\ f \in Features
         /\ f \notin Passed[f]
         /\ Features \cap Passed[After[f]] = (Features \cap Passed[f]) \cup {f}
BY DEF Applying, After, Passed, Features

--------------------------------------------------------------------------------
(* The steps *)

\* A job that is not at work claims nothing of the files.
LEMMA AtRest ==
  ASSUME BuildInv, job' \in JobState, UNCHANGED disk, menu' \in {"prompt", "gone"},
         FW_PATH' \in Names \cup {None}, builds' \in 0..MaxBuilds,
         job'.pc \in {"idle", "start", "failed"}, Requested'
  PROVE  BuildInv'
<1>1. Types'
  BY DEF BuildInv, Types, disk
<1>2. job'.pc \notin Reading \cup Written \cup Applying \cup {"done", "pack", "ptmx"}
      /\ job'.pc \notin {"truncate", "sidecar", "check"}
  BY DEF Reading, Written, Applying
<1> QED
  BY <1>1, <1>2 DEF BuildInv, InputStands, TreeFollows, ImageFollows, DoneDelivers, Succeeded

LEMMA FailKeeps == BuildInv /\ job.pc # "idle" /\ Fail => BuildInv'
<1> SUFFICES ASSUME BuildInv, job.pc # "idle", Fail PROVE BuildInv'
  OBVIOUS
<1>1. job' \in JobState /\ job'.pc = "failed"
  BY DEF Fail, Goto, BuildInv, Types, JobState, Stages
<1>2. Requested'
  BY DEF Fail, Goto, BuildInv, Types, JobState, Requested
<1> QED
  BY <1>1, <1>2, AtRest DEF BuildInv, Types, Fail, Goto

\* The menu: whatever is asked for, the job has not begun.
LEMMA MenuKeeps ==
  BuildInv /\ (\E n \in Names : Open(n)) => BuildInv'
<1> SUFFICES ASSUME BuildInv, NEW n \in Names, Open(n) PROVE BuildInv'
  OBVIOUS
<1>1. job.pc = "idle" /\ UNCHANGED <<disk, menu, job, builds>> /\ FW_PATH' \in Names \cup {None}
  BY DEF Open
<1> QED
  BY <1>1, AtRest DEF BuildInv, Types, Requested

LEMMA LeaveKeeps == BuildInv /\ (Leave \/ Again) => BuildInv'
<1> SUFFICES ASSUME BuildInv, Leave \/ Again PROVE BuildInv'
  OBVIOUS
<1>1. job.pc = "idle" /\ UNCHANGED <<disk, job, builds>> /\ FW_PATH' \in Names \cup {None}
      /\ menu' \in {"prompt", "gone"}
  BY DEF Leave, Again, BuildInv, Types
<1> QED
  BY <1>1, AtRest DEF BuildInv, Types, Requested

LEMMA EndKeeps == BuildInv /\ (Report \/ Interrupt) => BuildInv'
<1> SUFFICES ASSUME BuildInv, Report \/ Interrupt PROVE BuildInv'
  OBVIOUS
<1>1. job' = NoJob /\ UNCHANGED <<disk, builds>> /\ FW_PATH' \in Names \cup {None}
      /\ menu' \in {"prompt", "gone"}
  BY DEF Report, Interrupt, BuildInv, Types
<1>2. job'.pc = "idle"
  BY <1>1 DEF NoJob
<1> QED
  BY <1>1, <1>2, NoJobTyped, AtRest DEF BuildInv, Types, Requested

LEMMA StartKeeps ==
  ASSUME BuildInv,
         NEW request \in [menu : BOOLEAN, stock : Names, out : Names, feats : SUBSET Features,
                          skipped : BOOLEAN, id : Ids],
         Start(request)
  PROVE  BuildInv'
<1>1. /\ job' \in JobState /\ job'.pc = "start"
      /\ job'.id \in Ids /\ job'.stock \in Names /\ job'.out \in Names
  BY NoJobTyped DEF Start, JobState, Stages
<1>2. builds' \in 0..MaxBuilds
  BY BuildsAssumption DEF Start, BuildInv, Types
<1> QED
  BY <1>1, <1>2, AtRest DEF BuildInv, Types, Requested, Start

LEMMA RequestKeeps == BuildInv /\ (Choose \/ Command) => BuildInv'
<1> SUFFICES ASSUME BuildInv, Choose \/ Command PROVE BuildInv'
  OBVIOUS
<1> DEFINE Requests == [menu : BOOLEAN, stock : Names, out : Names, feats : SUBSET Features,
                        skipped : BOOLEAN, id : Ids]
<1>1. CASE Choose
  <2>1. PICK feats \in Selections, skipped \in BOOLEAN, out \in Names, id \in Ids :
          Start([menu |-> TRUE, stock |-> FW_PATH, out |-> out, feats |-> feats,
                 skipped |-> skipped, id |-> id])
    BY <1>1 DEF Choose
  <2>2. [menu |-> TRUE, stock |-> FW_PATH, out |-> out, feats |-> feats,
         skipped |-> skipped, id |-> id] \in Requests
    BY <1>1, SelectionsAssumption DEF Choose, BuildInv, Types
  <2> QED
    BY <2>1, <2>2, StartKeeps
<1>2. CASE Command
  <2>1. PICK n \in Names, out \in Names, feats \in Selections, id \in Ids :
          Start([menu |-> FALSE, stock |-> n, out |-> out, feats |-> feats,
                 skipped |-> FALSE, id |-> id])
    BY <1>2 DEF Command
  <2>2. [menu |-> FALSE, stock |-> n, out |-> out, feats |-> feats,
         skipped |-> FALSE, id |-> id] \in Requests
    BY SelectionsAssumption
  <2> QED
    BY <2>1, <2>2, StartKeeps
<1> QED
  BY <1>1, <1>2


LEMMA CheckKeeps == BuildInv /\ Check => BuildInv'
<1> SUFFICES ASSUME BuildInv, Check PROVE BuildInv'
  OBVIOUS
<1>1. job \in JobState /\ job.pc = "start" /\ job.id \in Ids /\ job.stock \in Names /\ job.out \in Names
  BY DEF Check, BuildInv, Types, Requested
<1>2. CASE Fail
  BY <1>1, <1>2, FailKeeps
<1>3. CASE job.feats = {} /\ Goto("done") /\ UNCHANGED disk
  <2>1. /\ job' \in JobState /\ job'.pc = "done" /\ job'.feats = {}
        /\ job'.id = job.id /\ job'.stock = job.stock /\ job'.out = job.out
    BY <1>1, <1>3 DEF Goto, JobState, Stages
  <2>2. Types' /\ Requested'
    BY <1>1, <1>3, <2>1 DEF BuildInv, Types, Requested, Goto, disk
  <2>3. job'.pc \notin Reading \cup Written \cup Applying \cup {"pack", "ptmx"}
        /\ job'.pc \notin {"truncate", "sidecar", "check"}
    BY <2>1 DEF Reading, Written, Applying
  <2> QED
    BY <2>1, <2>2, <2>3 DEF BuildInv, InputStands, TreeFollows, ImageFollows, DoneDelivers, Succeeded
<1>4. CASE /\ Accepted(job.stock) /\ job.feats # {}
           /\ job' = [job EXCEPT !.pc = "unpack", !.base = fl[job.stock]]
           /\ UNCHANGED <<disk, menu, FW_PATH, builds>>
  <2>1. fl[job.stock] \in Firmwares
    BY <1>1, <1>4 DEF Accepted, Verifies, BuildInv, Types
  <2>2. /\ job' \in JobState /\ job'.pc = "unpack" /\ job'.feats = job.feats
        /\ job'.base = fl[job.stock]
        /\ job'.id = job.id /\ job'.stock = job.stock /\ job'.out = job.out
    BY <1>1, <1>4, <2>1 DEF JobState, Stages
  <2>3. Types' /\ Requested'
    BY <1>1, <1>4, <2>2 DEF BuildInv, Types, Requested, disk
  <2>4. InputStands'
    BY <1>4, <2>1, <2>2 DEF InputStands, Accepted, disk
  <2>5. job'.pc \notin Written \cup Applying \cup {"pack", "ptmx", "done"}
        /\ job'.pc \notin {"truncate", "sidecar", "check"}
    BY <2>2 DEF Written, Applying
  <2> QED
    BY <2>2, <2>3, <2>4, <2>5 DEF BuildInv, TreeFollows, ImageFollows, DoneDelivers, Succeeded
<1> QED
  BY <1>2, <1>3, <1>4 DEF Check

\* A step from one reading stage to another that only changes the tree.
LEMMA TreeStep ==
  ASSUME BuildInv, job.pc \in Reading, NEW pc \in Reading \ {"unpack"}, NEW tree \in Trees,
         job' = [job EXCEPT !.pc = pc, !.tree = tree],
         UNCHANGED <<disk, menu, FW_PATH, builds>>,
         pc = "ptmx" => tree = Unpacked(job.base),
         pc # "ptmx" => Packs(tree) = Wanted(job.feats \cap Passed[pc], job.base.root, job.id)
  PROVE  BuildInv'
<1>1. job \in JobState /\ job.pc # "idle"
  BY DEF BuildInv, Types, Reading, Applying
<1>2. /\ job' \in JobState /\ job'.pc = pc /\ job'.tree = tree
      /\ job'.feats = job.feats /\ job'.base = job.base
      /\ job'.id = job.id /\ job'.stock = job.stock /\ job'.out = job.out
  BY <1>1 DEF JobState, Reading, Applying, Stages
<1>3. Types' /\ Requested'
  BY <1>1, <1>2 DEF BuildInv, Types, Requested, disk
<1>4. InputStands'
  BY <1>2 DEF BuildInv, InputStands, Accepted, disk
<1>5. TreeFollows'
  BY <1>2 DEF TreeFollows, Applying
<1>6. job'.pc \notin Written \cup {"truncate", "sidecar", "check", "done"}
  BY <1>2 DEF Written, Reading, Applying
<1> QED
  BY <1>3, <1>4, <1>5, <1>6 DEF BuildInv, ImageFollows, DoneDelivers, Succeeded

LEMMA ReadingAt ==
  ASSUME BuildInv, job.pc \in Reading
  PROVE  /\ job \in JobState /\ job.tree \in Trees /\ job.id \in Ids
         /\ job.base \in Firmwares /\ job.base.root \in Roots
         /\ job.feats \in SUBSET Features /\ job.base = fl[job.stock]
BY DEF BuildInv, Types, JobState, Requested, InputStands, Reading, Applying, Firmwares

LEMMA UnpackKeeps == BuildInv /\ Unpack => BuildInv'
<1> SUFFICES ASSUME BuildInv, Unpack PROVE BuildInv'
  OBVIOUS
<1>1. job.pc \in Reading /\ "ptmx" \in Reading \ {"unpack"}
  BY DEF Unpack, Reading
<1>2. Unpacked(job.base) \in Trees
  BY <1>1, ReadingAt, UnpackedIsTree
<1>3. job' = [job EXCEPT !.pc = "ptmx", !.tree = Unpacked(job.base)]
  BY <1>1, ReadingAt DEF Unpack
<1> QED
  BY <1>1, <1>2, <1>3, TreeStep DEF Unpack

LEMMA DevptmxKeeps == BuildInv /\ EnsureDevptmx => BuildInv'
<1> SUFFICES ASSUME BuildInv, EnsureDevptmx PROVE BuildInv'
  OBVIOUS
<1>1. job.pc \in Reading /\ "modem" \in Reading \ {"unpack"} /\ job.pc = "ptmx"
  BY DEF EnsureDevptmx, Reading, Applying
<1> DEFINE tree == Devptmx(job.tree)
<1>2. tree = Devptmx(Unpacked(job.base))
  BY <1>1 DEF BuildInv, TreeFollows
<1>3. tree \in Trees /\ Packs(tree) = Wanted({}, job.base.root, job.id)
  BY <1>1, <1>2, ReadingAt, DevptmxPacks
<1>4. job.feats \cap Passed["modem"] = {}
  BY DEF Passed
<1>5. job' = [job EXCEPT !.pc = "modem", !.tree = tree]
  BY <1>1, ReadingAt DEF EnsureDevptmx, JobState
<1> HIDE DEF tree
<1> QED
  BY <1>1, <1>3, <1>4, <1>5, TreeStep DEF EnsureDevptmx

LEMMA FeatureKeeps == BuildInv /\ ApplyFeature => BuildInv'
<1> SUFFICES ASSUME BuildInv, ApplyFeature PROVE BuildInv'
  OBVIOUS
<1> DEFINE f    == job.pc
           next == After[f]
           done == job.feats \cap Passed[f]
<1>1. f \in Applying /\ f \in Reading /\ f # "idle"
  BY DEF ApplyFeature, Reading, Applying
<1>2. /\ next \in Reading \ {"unpack"} /\ next # "ptmx"
      /\ f \in Features \ done /\ done \in SUBSET Features
      /\ Features \cap Passed[next] = (Features \cap Passed[f]) \cup {f}
  <2>1. next \in Applying \cup {"pack"}
    BY <1>1, Stepwise
  <2> QED
    BY <1>1, <2>1, Stepwise, ReadingAt DEF Reading, Applying
<1>3. Packs(job.tree) = Wanted(done, job.base.root, job.id)
  BY <1>1 DEF BuildInv, TreeFollows
<1>4. CASE Fail
  BY <1>1, <1>4, FailKeeps
<1>5. CASE f \notin job.feats /\ Goto(next) /\ UNCHANGED disk
  <2>1. job.feats \cap Passed[next] = done
    BY <1>1, <1>2, <1>5, ReadingAt
  <2>2. job' = [job EXCEPT !.pc = next, !.tree = job.tree]
    BY <1>1, <1>5, ReadingAt DEF Goto, JobState
  <2> HIDE DEF f, next, done
  <2>3. job.pc \in Reading /\ job.tree \in Trees
    BY <1>1, ReadingAt DEF f
  <2> QED
    BY <1>2, <1>3, <1>5, <2>1, <2>2, <2>3, TreeStep DEF Goto
<1>6. CASE /\ f \in job.feats
           /\ job' = [job EXCEPT !.tree = Applied(job.pc, @, job.id), !.pc = After[@]]
           /\ UNCHANGED <<disk, menu, FW_PATH, builds>>
  <2> DEFINE tree == Applied(f, job.tree, job.id)
  <2>1. job.feats \cap Passed[next] = done \cup {f}
    BY <1>1, <1>2, <1>6, ReadingAt
  <2>2. tree \in Trees /\ Packs(tree) = Wanted(done \cup {f}, job.base.root, job.id)
    <3>1. job.tree \in Trees /\ job.base.root \in Roots /\ job.id \in Ids
      BY <1>1, ReadingAt
    <3> DEFINE old  == job.tree
               root == job.base.root
               id   == job.id
    <3>2. /\ old \in Trees /\ root \in Roots /\ id \in Ids /\ done \in SUBSET Features
          /\ f \in Features \ done /\ Packs(old) = Wanted(done, root, id)
      BY <1>2, <1>3, <3>1
    <3> HIDE DEF f, done, old, root, id
    <3>3. Applied(f, old, id) \in Trees /\ Packs(Applied(f, old, id)) = Wanted(done \cup {f}, root, id)
      BY <3>2, AppliedPacks
    <3> QED
      BY <3>3 DEF old, root, id
  <2>3. job' = [job EXCEPT !.pc = next, !.tree = tree]
    BY <1>1, <1>6, ReadingAt DEF JobState
  <2> HIDE DEF f, next, done, tree
  <2>4. job.pc \in Reading
    BY <1>1 DEF f
  <2> QED
    BY <1>2, <1>6, <2>1, <2>2, <2>3, <2>4, TreeStep
<1> QED
  BY <1>4, <1>5, <1>6 DEF ApplyFeature


LEMMA PackKeeps == BuildInv /\ Pack => BuildInv'
<1> SUFFICES ASSUME BuildInv, Pack PROVE BuildInv'
  OBVIOUS
<1> DEFINE image == [root |-> Wanted(job.feats, job.base.root, job.id), lost |-> job.base.lost]
<1>1. job.pc = "pack" /\ job.pc \in Reading /\ job.pc # "idle"
  BY DEF Pack, Reading
<1>2. image \in Firmwares
  <2>1. Wanted(job.feats, job.base.root, job.id) \in Roots
    BY <1>1, ReadingAt, WantedIsRoot
  <2> QED
    BY <1>1, <2>1, ReadingAt DEF Firmwares
<1>3. Packed(job.tree, fl[job.stock]) = image
  <2>1. job.feats \cap Passed["pack"] = job.feats
    BY <1>1, ReadingAt DEF Passed
  <2>2. Packs(job.tree) = Wanted(job.feats, job.base.root, job.id)
    BY <1>1, <2>1 DEF BuildInv, TreeFollows
  <2>3. fl[job.stock] = job.base
    BY <1>1, ReadingAt
  <2> QED
    BY <2>2, <2>3 DEF Packed, Packs
<1>4. job' = [job EXCEPT !.pc = "open", !.image = image]
  BY <1>3 DEF Pack
<1> HIDE DEF image
<1>5. /\ job' \in JobState /\ job'.pc = "open" /\ job'.image = image
      /\ job'.feats = job.feats /\ job'.base = job.base
      /\ job'.id = job.id /\ job'.stock = job.stock /\ job'.out = job.out
  BY <1>1, <1>2, <1>4, ReadingAt DEF JobState, Stages, Writing
<1>6. Types' /\ Requested'
  BY <1>1, <1>5 DEF BuildInv, Types, Requested, Pack, disk
<1>7. job'.pc \notin Reading \cup Applying \cup {"pack", "ptmx", "done", "truncate", "sidecar", "check"}
      /\ job'.pc \in Written
  BY <1>5 DEF Reading, Written, Applying
<1>8. InputStands' /\ TreeFollows'
  BY <1>1, <1>5, <1>7 DEF BuildInv, InputStands, TreeFollows
<1>9. ImageFollows'
  BY <1>5, <1>7 DEF ImageFollows, image
<1> QED
  BY <1>6, <1>7, <1>8, <1>9 DEF BuildInv, DoneDelivers, Succeeded

LEMMA WrittenAt ==
  ASSUME BuildInv, job.pc \in Written
  PROVE  /\ job \in JobState /\ job.pc # "idle" /\ job.out \in Names
         /\ job.base \in Firmwares /\ job.image \in Firmwares /\ job.feats # {}
         /\ job.image.lost = job.base.lost
         /\ job.image.root = Wanted(job.feats, job.base.root, job.id)
         /\ job.image = [root |-> job.image.root, lost |-> job.image.lost]
<1>1. job \in JobState /\ job.pc # "idle" /\ job.out \in Names /\ job.id \in Ids
      /\ job.base \in Firmwares /\ job.base.root \in Roots /\ job.feats # {}
      /\ job.feats \in SUBSET Features
  BY DEF BuildInv, Types, JobState, Requested, InputStands, Written, Firmwares
<1> DEFINE root == Wanted(job.feats, job.base.root, job.id)
<1>2. root \in Roots
  BY <1>1, WantedIsRoot
<1>3. job.image = [root |-> root, lost |-> job.base.lost]
  BY DEF BuildInv, ImageFollows
<1> HIDE DEF root
<1>4. job.image \in Firmwares /\ job.image.root = root /\ job.image.lost = job.base.lost
  BY <1>1, <1>2, <1>3 DEF Firmwares
<1> QED
  BY <1>1, <1>3, <1>4 DEF root

\* A step of the writing: the file and its sidecar may change, the job only goes on.
LEMMA WriteStep ==
  ASSUME BuildInv, job.pc \in Written, NEW pc \in Written, Goto(pc),
         fl' \in [Names -> Firmwares \cup {None}],
         md5' \in [Names -> Firmwares \cup {None, Torn}],
         pc \in {"truncate", "sidecar", "check"} => fl'[job.out] = job.image
  PROVE  BuildInv'
<1>1. /\ job' \in JobState /\ job'.pc = pc /\ job'.image = job.image
      /\ job'.feats = job.feats /\ job'.base = job.base
      /\ job'.id = job.id /\ job'.stock = job.stock /\ job'.out = job.out
  BY WrittenAt DEF Goto, JobState, Written, Stages, Writing
<1>2. Types' /\ Requested'
  BY <1>1, WrittenAt DEF BuildInv, Types, Requested, Goto
<1>3. pc \notin Reading \cup Applying \cup {"pack", "ptmx", "done"}
  BY DEF Written, Reading, Applying
<1>4. InputStands' /\ TreeFollows'
  BY <1>1, <1>3 DEF BuildInv, InputStands, TreeFollows
<1>5. ImageFollows'
  BY <1>1 DEF BuildInv, ImageFollows
<1> QED
  BY <1>1, <1>2, <1>3, <1>4, <1>5 DEF BuildInv, DoneDelivers, Succeeded

\* The file changes at the name of the output only, and says itself what it lacks.
LEMMA FileWritten ==
  ASSUME BuildInv, WriteFile
  PROVE  \E lost \in {"body", "tail", job.image.lost}, pc \in {"body", "tail", "truncate"} :
           /\ fl' = [fl EXCEPT ![job.out] = [job.image EXCEPT !.lost = lost]]
           /\ [job.image EXCEPT !.lost = lost] \in Firmwares
           /\ Goto(pc) /\ UNCHANGED md5
           /\ lost \in {"body", "tail"} \/ [job.image EXCEPT !.lost = lost] = job.image
           /\ pc = "truncate" => [job.image EXCEPT !.lost = lost] = job.image
<1>1. job.pc \in Written
  BY DEF WriteFile, Written
<1>2. \A lost \in {"body", "tail", job.image.lost} : [job.image EXCEPT !.lost = lost] \in Firmwares
  BY <1>1, WrittenAt DEF Firmwares
<1>3. [job.image EXCEPT !.lost = job.image.lost] = job.image
  BY <1>1, WrittenAt
<1>4. CASE fl' = [fl EXCEPT ![job.out] = [job.image EXCEPT !.lost = "body"]]
           /\ Goto("body") /\ UNCHANGED md5
  BY <1>2, <1>4
<1>5. CASE fl' = [fl EXCEPT ![job.out] = [job.image EXCEPT !.lost = "tail"]]
           /\ Goto("tail") /\ UNCHANGED md5
  BY <1>2, <1>5
<1>6. CASE fl' = [fl EXCEPT ![job.out] = job.image] /\ Goto("truncate") /\ UNCHANGED md5
  BY <1>2, <1>3, <1>6
<1> QED
  BY <1>4, <1>5, <1>6 DEF WriteFile

LEMMA FileKeeps == BuildInv /\ WriteFile => BuildInv'
<1> SUFFICES ASSUME BuildInv, WriteFile PROVE BuildInv'
  OBVIOUS
<1>1. job.pc \in Written
  BY DEF WriteFile, Written
<1>2. PICK lost \in {"body", "tail", job.image.lost}, pc \in {"body", "tail", "truncate"} :
           /\ fl' = [fl EXCEPT ![job.out] = [job.image EXCEPT !.lost = lost]]
           /\ [job.image EXCEPT !.lost = lost] \in Firmwares
           /\ Goto(pc) /\ UNCHANGED md5
           /\ pc = "truncate" => [job.image EXCEPT !.lost = lost] = job.image
  BY FileWritten
<1> DEFINE image == [job.image EXCEPT !.lost = lost]
<1> HIDE DEF image
<1>3. /\ fl' = [fl EXCEPT ![job.out] = image] /\ image \in Firmwares
      /\ pc = "truncate" => image = job.image
  BY <1>2 DEF image
<1>4. fl' \in [Names -> Firmwares \cup {None}] /\ fl'[job.out] = image
      /\ md5' \in [Names -> Firmwares \cup {None, Torn}]
  BY <1>1, <1>2, <1>3, WrittenAt DEF BuildInv, Types
<1>5. pc \in Written /\ pc \notin {"sidecar", "check"}
  BY DEF Written
<1> QED
  BY <1>1, <1>2, <1>3, <1>4, <1>5, WriteStep

LEMMA SidecarKeeps == BuildInv /\ WriteSidecar => BuildInv'
<1> SUFFICES ASSUME BuildInv, WriteSidecar PROVE BuildInv'
  OBVIOUS
<1>1. job.pc \in Written /\ job.pc \in {"truncate", "sidecar"}
  BY DEF WriteSidecar, Written
<1>2. PICK sidecar \in {Torn, job.image}, pc \in {"sidecar", "check"} :
        md5' = [md5 EXCEPT ![job.out] = sidecar] /\ Goto(pc) /\ UNCHANGED fl
  BY DEF WriteSidecar
<1>3. fl' \in [Names -> Firmwares \cup {None}] /\ fl'[job.out] = job.image
      /\ md5' \in [Names -> Firmwares \cup {None, Torn}]
  BY <1>1, <1>2, WrittenAt DEF BuildInv, Types, ImageFollows
<1>4. pc \in Written
  BY DEF Written
<1> QED
  BY <1>1, <1>2, <1>3, <1>4, WriteStep

\* What is verified at the end is the file that was built.
LEMMA OutputKeeps == BuildInv /\ CheckOutput => BuildInv'
<1> SUFFICES ASSUME BuildInv, CheckOutput PROVE BuildInv'
  OBVIOUS
<1>1. job.pc = "check" /\ job.pc \in Written
  BY DEF CheckOutput, Written
<1>2. CASE Fail
  BY <1>1, <1>2, FailKeeps
<1>3. CASE Accepted(job.out) /\ Goto("done") /\ UNCHANGED disk
  <2>1. /\ job' \in JobState /\ job'.pc = "done"
        /\ job'.feats = job.feats /\ job'.base = job.base
        /\ job'.id = job.id /\ job'.stock = job.stock /\ job'.out = job.out
    BY <1>1, <1>3, WrittenAt DEF Goto, JobState, Stages
  <2>2. Types' /\ Requested'
    BY <1>1, <1>3, <2>1, WrittenAt DEF BuildInv, Types, Requested, Goto, disk
  <2>3. job'.pc \notin Reading \cup Written \cup Applying \cup {"pack", "ptmx"}
        /\ job'.pc \notin {"truncate", "sidecar", "check"}
    BY <2>1 DEF Reading, Written, Applying
  <2>4. fl[job.out] = job.image
    BY <1>1 DEF BuildInv, ImageFollows
  <2>5. DoneDelivers'
    BY <1>1, <1>3, <2>1, <2>4, WrittenAt DEF DoneDelivers, Succeeded, Accepted, disk
  <2> QED
    BY <2>2, <2>3, <2>5 DEF BuildInv, InputStands, TreeFollows, ImageFollows
<1> QED
  BY <1>2, <1>3 DEF CheckOutput, Fail

LEMMA StepKeeps == BuildInv /\ [Next]_vars => BuildInv'
<1> SUFFICES ASSUME BuildInv, [Next]_vars PROVE BuildInv'
  OBVIOUS
<1>1. CASE UNCHANGED vars
  BY <1>1 DEF vars, disk, BuildInv, Types, Requested, InputStands, TreeFollows, ImageFollows,
     DoneDelivers, Succeeded, Accepted
<1>2. CASE BuildStep
  <2>1. DiskFull => Fail /\ job.pc # "idle"
    BY DEF DiskFull, Applying, Writing
  <2> QED
    BY <1>2, <2>1, CheckKeeps, UnpackKeeps, DevptmxKeeps, FeatureKeeps, PackKeeps, FileKeeps,
       SidecarKeeps, FailKeeps, OutputKeeps DEF BuildStep
<1> QED
  BY <1>1, <1>2, MenuKeeps, LeaveKeeps, EndKeeps, RequestKeeps DEF Next

LEMMA Invariant == Spec => []BuildInv
BY Starts, StepKeeps, PTL DEF Spec


--------------------------------------------------------------------------------
(* The theorems *)

\* The state of a build keeps its types, whatever is asked for and goes wrong:
\* the rootfs in every file, sidecar, tree and image is one that fits in a .fl file.
THEOREM TypeCorrect == Spec => []TypeOK
<1>1. BuildInv => TypeOK
  <2> SUFFICES ASSUME BuildInv PROVE TypeOK
    OBVIOUS
  <2>1. /\ DOMAIN fl = Names /\ DOMAIN md5 = Names
        /\ \A n \in Names : /\ fl[n] = None \/ IsImage(fl[n])
                            /\ md5[n] \in {None, Torn} \/ IsImage(md5[n])
    BY FirmwareIsImage DEF BuildInv, Types
  <2>2. job \in JobState
    BY DEF BuildInv, Types
  <2>3. /\ job.tree.manifest \subseteq Paths
        /\ job.tree.file \in [job.tree.manifest \ Special -> SUBSET Edits]
    BY <2>2, TreeAt DEF JobState
  <2>4. \A image \in {job.base, job.image} : image = None \/ IsImage(image)
    BY <2>2, FirmwareIsImage DEF JobState
  <2>5. /\ job.pc \in Stages
        /\ {job.stock, job.out} \subseteq Names \cup {None} /\ job.feats \subseteq Features
    BY <2>2 DEF JobState
  <2> QED
    BY <2>1, <2>3, <2>4, <2>5 DEF TypeOK, BuildInv, Types
<1> QED
  BY <1>1, Invariant, PTL

\* build_kvm_firmware.py:121-218: a build that reports success has written an image
\* that verifies, with everything the input held and exactly the chosen features,
\* for every name, every layout of the stock image and every history of builds.
THEOREM DeliversWhatWasAsked == Spec => []DoneDelivers
<1>1. BuildInv => DoneDelivers
  BY DEF BuildInv
<1> QED
  BY <1>1, Invariant, PTL

\* build_kvm_firmware.py:147-207: as long as a build reads its input, the input
\* verifies, the menu's idea of it notwithstanding.
THEOREM ReadsWhatVerifies == Spec => []NeverBuildsOnBroken
<1>1. BuildInv => NeverBuildsOnBroken
  BY DEF BuildInv, InputStands, NeverBuildsOnBroken, Reading
<1> QED
  BY <1>1, Invariant, PTL

\* What is on its way into a file is let through only by a sidecar that is of the
\* same; a sidecar of the image in memory lets through what the input already was.
LEMMA FileStaysProtected ==
  ASSUME BuildInv, WriteFile, NEW n \in Names, ~Truncated(n), Truncated(n)'
  PROVE  \/ md5[n] = None
         \/ job.base # None /\ job.base.lost = "tail"
         \/ md5[n] \notin {None, Torn} /\ md5[n].lost = "tail"
<1>1. job.pc \in Written
  BY DEF WriteFile, Written
<1>2. PICK lost \in {"body", "tail", job.image.lost} :
           /\ fl' = [fl EXCEPT ![job.out] = [job.image EXCEPT !.lost = lost]]
           /\ [job.image EXCEPT !.lost = lost] \in Firmwares
           /\ UNCHANGED md5
           /\ lost \in {"body", "tail"} \/ [job.image EXCEPT !.lost = lost] = job.image
  BY FileWritten
<1> DEFINE image == [job.image EXCEPT !.lost = lost]
<1> HIDE DEF image
<1>3. fl' = [fl EXCEPT ![job.out] = image] /\ image \in Firmwares
  BY <1>2 DEF image
<1>4. fl \in [Names -> Firmwares \cup {None}]
  BY DEF BuildInv, Types
<1>5. n = job.out /\ fl'[n] = image
  <2>1. n # job.out => fl'[n] = fl[n]
    BY <1>3, <1>4
  <2>2. n = job.out => fl'[n] = image
    BY <1>3, <1>4
  <2> QED
    BY <1>2, <2>1, <2>2 DEF Truncated, Accepted, Verifies
<1>6. md5[n] \in {None, image} /\ image.lost = "tail"
  BY <1>2, <1>5 DEF Truncated, Accepted, Verifies
<1> QED
  BY <1>3, <1>6, Distinct

LEMMA SidecarStaysProtected ==
  ASSUME BuildInv, WriteSidecar, NEW n \in Names, ~Truncated(n), Truncated(n)'
  PROVE  job.base # None /\ job.base.lost = "tail"
<1>1. job.pc \in Written /\ job.pc \in {"truncate", "sidecar"}
  BY DEF WriteSidecar, Written
<1>2. PICK sidecar \in {Torn, job.image} :
        md5' = [md5 EXCEPT ![job.out] = sidecar] /\ UNCHANGED fl
  BY DEF WriteSidecar
<1>3. n = job.out
  <2>1. n # job.out => md5'[n] = md5[n]
    BY <1>2 DEF BuildInv, Types
  <2> QED
    BY <1>2, <2>1 DEF Truncated, Accepted, Verifies
<1>4. fl[n] = job.image
  BY <1>1, <1>3 DEF BuildInv, ImageFollows
<1>5. job.image.lost = "tail"
  BY <1>2, <1>4 DEF Truncated
<1> QED
  BY <1>1, <1>5, WrittenAt, Distinct

\* avocent_fl_tool.py:247-290: a write of a file or of its sidecar that is cut short
\* leaves no image without its tail that a sidecar lets through, whatever the builds
\* before it left and whatever file it replaces.
THEOREM SidecarGuards == Spec => SidecarProtects
<1>1. ASSUME BuildInv, [Next]_vars
      PROVE  [\A n \in Names : ~Truncated(n) /\ Truncated(n)' =>
                \/ md5[n] = None
                \/ job.base # None /\ job.base.lost = "tail"
                \/ md5[n] \notin {None, Torn} /\ md5[n].lost = "tail"]_vars
  <2>1. CASE WriteFile
    BY <1>1, <2>1, FileStaysProtected
  <2>2. CASE WriteSidecar
    BY <1>1, <2>2, SidecarStaysProtected
  <2>3. CASE ~WriteFile /\ ~WriteSidecar
    <3>1. BuildStep => UNCHANGED disk
      BY <2>3 DEF BuildStep, Check, Unpack, EnsureDevptmx, ApplyFeature, Pack, DiskFull,
         CheckOutput, Fail, Goto
    <3>2. ~BuildStep => UNCHANGED disk
      BY <1>1 DEF Next, vars, Open, Choose, Command, Start, Report, Leave, Again, Interrupt
    <3> QED
      BY <3>1, <3>2 DEF Truncated, Accepted, disk
  <2> QED
    BY <2>1, <2>2, <2>3
<1> QED
  BY <1>1, Invariant, PTL DEF Spec, SidecarProtects
================================================================================
