------------------------------- MODULE Appliance -------------------------------
(****************************************************************************)
(* The state that the on-device scripts share: the files of /tmp and of     *)
(* /mnt/jffs, the flash region at mtd1+0x900000, the staged self-update and *)
(* its two markers, and one program counter per running script.             *)
(*                                                                          *)
(* A file is abstracted to the build its bytes come from.  The flash region *)
(* is a sequence of erase blocks, because the tools that rewrite it are not *)
(* atomic and a power cut may fall between two blocks.                      *)
(****************************************************************************)
EXTENDS Naturals, FiniteSets

CONSTANTS
  Builds,        \* the builds of the companion bundle that exist
  NBlocks,       \* erase blocks a bundle envelope covers
  Watchdogs,     \* identities available to watchdog.sh processes (a bound)
  TftpHost,      \* was watchdog.sh started with its 6th argument?
  KernelMatches, \* does /proc/version equal EXPECTED_VERSION?
  Checked,       \* TRUE: startup.sh (hand-made); FALSE: startup.sh.template
  FirstFlash,    \* what the region may hold when the appliance is first seen
  Activity       \* what operators and the environment may do in this instance

None    == "none"      \* no such file, no build
Bad     == "bad"       \* a truncated or garbled file, or flash block
Blank   == "blank"     \* an erased flash block: all 0xFF
Foreign == "foreign"   \* bytes that are not ours in the flash region

Activities == {"update", "restage", "crash", "power", "vanish", "copyfail",
               "fetchfail", "toolfail", "patchfail", "install", "uninstall"}

ASSUME BuildsAssumption ==
  /\ Builds # {}
  /\ Builds \cap {None, Bad, Blank, Foreign} = {}
ASSUME BlocksAssumption == NBlocks \in Nat \ {0}
ASSUME WatchdogsAssumption == {"install", "uninstall"} \cap Watchdogs = {}
ASSUME SwitchesAssumption ==
  /\ TftpHost \in BOOLEAN /\ KernelMatches \in BOOLEAN /\ Checked \in BOOLEAN
ASSUME FirstFlashAssumption == FirstFlash \subseteq Builds \cup {Blank, Foreign}
ASSUME ActivityAssumption == Activity \subseteq Activities

VARIABLES
  flash,      \* block -> Cell
  job,        \* process -> the mtd tool it is running
  tmp,        \* file of /tmp -> Copy (RAM: lost with the power)
  jffs,       \* file of /mnt/jffs -> "none", "bad" or "ok" (persistent)
  kpatched,   \* are the kernel patches in place since the last boot?
  wd,         \* watchdog -> [pc, fails, run]
  stage,      \* /tmp/update_staging: [dir, env, ext]
  ready,      \* does /tmp/update_ready exist?
  confirmed,  \* does /tmp/update_apply_confirmed exist?
  stager,     \* the forked /update-do child: [pc, build]
  inst,       \* install.sh: [pc, build]
  uninst,     \* uninstall.sh: its pc
  power,      \* "boot" until the auto_run hook has run, then "up"
  approved,   \* history: builds an operator has put or let onto the appliance
  torn        \* history: was a flash rewrite cut short by the power, or did it end
              \* in FAIL after its check, with none completed since?

flashVars  == <<flash, job>>
filesVars  == <<tmp, jffs, kpatched>>
updateVars == <<stage, ready, confirmed, stager>>
shellVars  == <<inst, uninst, power>>
history    == <<approved, torn>>
vars == <<flashVars, filesVars, wd, updateVars, shellVars, history>>

--------------------------------------------------------------------------------
Blocks == 1..NBlocks
Cell   == Builds \cup {Bad, Blank, Foreign}
Copy   == Builds \cup {None, Bad}

\* Mutant: the tools are added to the tar after the scripts.
BundleOrderToolsLast == <<"client", "patched", "wdog", "writer", "kmem">>

\* The order in which deploy_bundle.py adds the files to the tar, hence the
\* order in which a truncated bundle yields them.  The last one, conshell_ppc,
\* is read by no script and has no place in tmp; a tar may be cut inside it.
BundleOrder == <<"client", "kmem", "patched", "wdog", "writer">>
BundleFiles == {BundleOrder[i] : i \in 1..5}
Updatable   == {"client", "kmem", "patched"}
Files       == BundleFiles \cup {"tar"}

NoStage   == [dir |-> FALSE, env |-> None, ext |-> None]
IdleJob   == [op |-> "idle", k |-> 1, src |-> None]
NoScript  == [pc |-> "idle", build |-> None]
Off       == [pc |-> "off", fails |-> 0, run |-> None]

Processes == Watchdogs \cup {"install", "uninstall"}

Running(w)  == wd[w].pc \in {"login", "serve"}  \* an avsp_client_ppc process
Alive(w)    == wd[w].pc \notin {"off", "stopped"}
Writing(p)  == job[p].op \in {"erase", "write"}
Finished(p) == job[p].op \in {"pass", "fail"}
Whole(v)    == \A b \in Blocks : flash[b] = v
Usable(f)   == tmp[f] \in Builds

JobState      == [op : {"idle", "erase", "write", "pass", "fail"},
                  k : 1..(NBlocks + 1), src : Copy]
WatchdogState == [pc : {"off", "top", "cp_client", "cp_kmem", "cp_patched", "write",
                        "flash", "clean", "ensure", "run", "login", "serve",
                        "sleep", "stopped"},
                  fails : 0..3, run : Copy]
StagerState   == [pc : {"idle", "fetch", "fetching", "verify", "extract",
                        "selftest", "touch"}, build : Copy]
InstallState  == [pc : {"idle", "reader", "reader_get", "writer", "startup",
                        "startup_get", "write", "flash", "launch", "done"},
                  build : Copy]

FlashTypeOK    == flash \in [Blocks -> Cell] /\ job \in [Processes -> JobState]
FilesTypeOK    ==
  /\ tmp \in [Files -> Copy]
  /\ jffs \in [{"reader", "startup"} -> {"none", "bad", "ok"}]
  /\ kpatched \in BOOLEAN
WatchdogTypeOK == wd \in [Watchdogs -> WatchdogState]
UpdateTypeOK   ==
  /\ stage \in [dir : BOOLEAN, env : Copy, ext : Copy]
  /\ ready \in BOOLEAN /\ confirmed \in BOOLEAN
  /\ stager \in StagerState
ShellTypeOK    ==
  /\ inst \in InstallState
  /\ uninst \in {"idle", "kill", "erase", "flash", "done"}
  /\ power \in {"boot", "up"}
HistoryTypeOK  == approved \subseteq Builds /\ torn \in BOOLEAN

TypeOK ==
  /\ FlashTypeOK /\ FilesTypeOK /\ WatchdogTypeOK
  /\ UpdateTypeOK /\ ShellTypeOK /\ HistoryTypeOK

Init ==
  \E c \in FirstFlash :
    /\ flash = [b \in Blocks |-> c]
    /\ jffs = [f \in {"reader", "startup"} |->
                 IF c \in Builds THEN "ok" ELSE "none"]
    /\ approved = Builds \cap {c}
    /\ job = [p \in Processes |-> IdleJob]
    /\ tmp = [f \in Files |-> None]
    /\ kpatched = FALSE
    /\ wd = [w \in Watchdogs |-> Off]
    /\ stage = NoStage /\ ready = FALSE /\ confirmed = FALSE
    /\ stager = NoScript
    /\ inst = NoScript /\ uninst = "idle"
    /\ power = "boot"
    /\ torn = FALSE
================================================================================
