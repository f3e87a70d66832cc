-------------------------------- MODULE Firmware -------------------------------
(****************************************************************************)
(* avocent_fl_tool.py and the features: what verify, unpack and pack do to  *)
(* a .fl image, and what each feature does to the unpacked tree.            *)
(*                                                                          *)
(* An image is its rootfs -- the files that some feature edits, each as the *)
(* set of its edits -- and how much of it a writer that was cut short has   *)
(* lost.  The bytes of the boot region, the kernel and the tail are copied  *)
(* through and are not modelled; checksums are what is computed over them.  *)
(****************************************************************************)
EXTENDS Naturals, FiniteSets

CONSTANTS
  Ids,     \* build ids somebody asks for
  Layouts, \* what stock auto_run and login.html may hold: records of edit sets
  None,    \* no file, no image
  Torn     \* a sidecar that was truncated and not written

ASSUME IdsAssumption ==
  Ids \cap {"avogetty", "modem", "hook", "ttyS1", "version", "patched", "fresh"} = {}
ASSUME LayoutsAssumption ==
  Layouts \subseteq [auto_run : SUBSET {"avogetty"}, login : SUBSET {"version"}]

Features == {"modem", "avsp", "java", "enh", "gg"}
Paths    == {"auto_run", "inittab", "login", "jar", "certs", "ptmx", "helper"}
Special  == {"ptmx"}      \* device nodes: in MANIFEST.json, never on disk
Edits    == Ids \cup {"avogetty", "modem", "hook", "ttyS1", "version", "patched", "fresh"}

IsImage(image) ==
  /\ DOMAIN image = {"root", "lost"}
  /\ DOMAIN image.root \subseteq Paths
  /\ \A p \in DOMAIN image.root : image.root[p] \subseteq Edits
  /\ image.lost \in {"nothing", "tail", "body"}

\* The same as a set, which is too large to enumerate.
Images(paths, edits) ==
  [root : UNION {[domain -> SUBSET edits] : domain \in SUBSET paths},
   lost : {"nothing", "tail", "body"}]

ASSUME NoneAssumption ==
  None # Torn /\ \A mark \in {None, Torn} : mark \notin Images(Paths, Edits)

StockRoot(layout) ==
  [p \in Paths \ {"ptmx", "helper"} |->
     IF p \in DOMAIN layout THEN layout[p] ELSE {}]

--------------------------------------------------------------------------------
(* avocent_fl_tool.py *)

\* Mutant: the .md5 beside the image is not looked at.
VerifiesWithoutSidecar(image, sidecar) == image # None /\ image.lost # "body"

\* cmd_verify: the lengths and checksums of the rootfs and the kernel, and the
\* sidecar if there is one.  Of the tail only that the kernel ends within the
\* file (line 232).
Verifies(image, sidecar) ==
  /\ image # None /\ image.lost # "body"
  /\ sidecar \in {None, image}

\* cmd_unpack: every entry goes into MANIFEST.json, all but the device nodes to
\* the disk as well.
Unpacked(image) ==
  [manifest |-> DOMAIN image.root,
   file     |-> [p \in DOMAIN image.root \ Special |-> image.root[p]]]

\* Mutant: the tree is taken from the disk instead of the manifest.
PackedFromDisk(tree, orig) ==
  [root |-> [p \in DOMAIN tree.file |-> tree.file[p]], lost |-> orig.lost]

\* cmd_pack: the tree that MANIFEST.json describes, and everything else from the
\* original, which is read again.
Packed(tree, orig) ==
  [root |-> [p \in tree.manifest |-> IF p \in Special THEN {} ELSE tree.file[p]],
   lost |-> orig.lost]

--------------------------------------------------------------------------------
(* The features *)

Edit(tree, p, edits) == [tree EXCEPT !.file[p] = @ \cup edits]

\* Mutant: the node is made on the disk, too.
DevptmxOnDisk(tree) ==
  [manifest |-> tree.manifest \cup {"ptmx"},
   file |-> [p \in DOMAIN tree.file \cup {"ptmx"} |->
               IF p \in DOMAIN tree.file THEN tree.file[p] ELSE {}]]

\* ensure_devptmx: a manifest entry is all a device node needs.
Devptmx(tree) == [tree EXCEPT !.manifest = @ \cup {"ptmx"}]

\* When a feature refuses the tree it finds: an auto_run without the getty, a
\* login page with neither version token nor marker, a class file without the
\* seven cipher names.
Refuses(f, tree) ==
  \/ f = "modem" /\ "avogetty" \notin tree.file["auto_run"]
  \/ f = "java" /\ "patched" \in tree.file["jar"]
  \/ f = "enh" /\ tree.file["login"] = {}

\* modem_console, avsp_onboard_hook: an edit that is there already stays as it is.
ModemConsole(tree) == Edit(Edit(tree, "auto_run", {"modem"}), "inittab", {"ttyS1"})
AvspOnboardHook(tree) == Edit(tree, "auto_run", {"hook"})

\* java_certs: certificates first, then the jars.
JavaCerts(tree) == Edit(Edit(tree, "certs", {"fresh"}), "jar", {"patched"})

\* enhanced_build: a page that is marked keeps the id it was marked with.
Marked(tree) == tree.file["login"] \cap Ids # {}
EnhancedBuild(tree, id) == IF Marked(tree) THEN tree ELSE Edit(tree, "login", {id})

\* get_avsp_bundle: new files, on the disk and in the manifest.
GetAvspBundle(tree) ==
  [manifest |-> tree.manifest \cup {"helper"},
   file |-> [p \in DOMAIN tree.file \cup {"helper"} |->
               IF p = "helper" THEN {} ELSE tree.file[p]]]

Applied(f, tree, id) ==
  CASE f = "modem" -> ModemConsole(tree)
    [] f = "avsp"  -> AvspOnboardHook(tree)
    [] f = "java"  -> JavaCerts(tree)
    [] f = "enh"   -> EnhancedBuild(tree, id)
    [] f = "gg"    -> GetAvspBundle(tree)
================================================================================
