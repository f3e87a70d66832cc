------------------------------- MODULE Installer -------------------------------
(****************************************************************************)
(* startup.sh (both forms), the boot hook that runs it, install.sh and      *)
(* uninstall.sh, one action per step of a script whose effect another       *)
(* process or a power cut can come between.                                 *)
(****************************************************************************)
EXTENDS SelfUpdate

--------------------------------------------------------------------------------
(* startup.sh *)

\* What `tar -xf /tmp/flash_bundle.tar -C /tmp` makes of /tmp when it is full of
\* `tar`: every file; for a truncated tar the files before the cut, of the build
\* the first block still holds, and a garbled one at the cut.  A first block that
\* is garbled itself yields a part of the first file at best.
Extracted(tar, cut) ==
  LET source == IF tar \in Builds THEN tar ELSE flash[1]
      i(f)   == CHOOSE n \in 1..5 : BundleOrder[n] = f
  IN  [f \in Files |-> CASE f = "tar" -> tar
                         [] f # "tar" /\ source \in Builds /\ i(f) < cut -> source
                         [] f # "tar" /\ source \in Builds /\ i(f) = cut -> Bad
                         [] f = BundleOrder[1] /\ source = Bad /\ cut = 1 -> Bad
                         [] OTHER -> tmp[f]]

\* The points where extraction can stop: after everything for a whole bundle,
\* in any member, conshell_ppc (6) included, for a truncated one, before anything
\* when there is no tar.
Cuts(tar) == IF tar \in Builds THEN {6} ELSE IF tar = Bad THEN 1..6 ELSE {0}

\* The script as run by the boot hook or by install.sh: read, extract, and hand
\* over to a new watchdog.  startup.sh checks each step, the template does not;
\* without /tmp/watchdog.sh the last line starts nothing.
Startup ==
  \E cut \in Cuts(TarAfterRead) :
    LET after   == Extracted(TarAfterRead, cut)
        aborted == Checked /\ (jffs["reader"] # "ok" \/ TarAfterRead = None)
        started == /\ ~aborted
                   /\ Checked => after["client"] # None /\ after["kmem"] # None
                   /\ after["wdog"] \in Builds
    IN  /\ tmp' = IF aborted THEN tmp ELSE after
        /\ IF started
           THEN \E w \in {x \in Watchdogs : ~Alive(x)} :
                  wd' = [wd EXCEPT ![w] = [Off EXCEPT !.pc = "top"]]
           ELSE UNCHANGED wd

--------------------------------------------------------------------------------
(* Boot and power *)

\* The auto_run hook: five seconds after boot, run startup.sh if it is there.
BootHook ==
  /\ power = "boot"
  /\ power' = "up"
  /\ IF jffs["startup"] = "ok" THEN Startup ELSE UNCHANGED <<tmp, wd>>
  /\ UNCHANGED <<flashVars, jffs, kpatched, updateVars, inst, uninst, history>>

\* Power lost or the appliance rebooted, at any instant: /tmp, the processes and
\* the kernel patches are gone; flash and /mnt/jffs are what they were.
PowerCut ==
  /\ "power" \in Activity
  /\ tmp' = [f \in Files |-> None]
  /\ kpatched' = FALSE
  /\ wd' = [w \in Watchdogs |-> Off]
  /\ stage' = NoStage /\ ready' = FALSE /\ confirmed' = FALSE
  /\ stager' = NoScript /\ inst' = NoScript /\ uninst' = "idle"
  /\ power' = "boot"
  /\ job' = [p \in Processes |-> IdleJob]
  /\ torn' = (torn \/ \E p \in Processes : Writing(p))
  /\ UNCHANGED <<flash, jffs, approved>>

\* Files of /tmp have been seen to vanish without a reboot (watchdog.sh:23-28).
Vanish ==
  /\ "vanish" \in Activity
  /\ \E f \in BundleFiles :
       tmp[f] # None /\ tmp' = [tmp EXCEPT ![f] = None]
  /\ UNCHANGED <<flashVars, jffs, kpatched, wd, updateVars, shellVars, history>>

--------------------------------------------------------------------------------
(* install.sh *)

InstallOutcome == {TRUE} \cup (IF "fetchfail" \in Activity THEN {FALSE} ELSE {})

\* Lines 52-65: refuse while `ps` shows an avsp_client_ppc (the daemon or the
\* child it forked).  A watchdog between two sessions does not show.  That an
\* identity is left for the watchdog it will start is a bound of the model; so
\* is that an operator runs one script at a time, from one shell.
InstallCheck(v) ==
  /\ "install" \in Activity
  /\ power = "up" /\ inst.pc \in {"idle", "done"} /\ uninst \in {"idle", "done"}
  /\ \A w \in Watchdogs : ~Running(w)
  /\ stager.pc = "idle"
  /\ \E w \in Watchdogs : ~Alive(w)
  /\ inst' = [pc |-> "reader", build |-> v]
  /\ uninst' = "idle"
  /\ approved' = approved \cup {v}
  /\ UNCHANGED <<flashVars, filesVars, wd, updateVars, power, torn>>

\* Lines 72 and 80, in two steps: tftp truncates the file of /mnt/jffs it is about to replace.
JffsGet   == [reader |-> "reader", startup |-> "startup"]
JffsBusy  == [reader |-> "reader_get", startup |-> "startup_get"]
JffsAfter == [reader |-> "writer", startup |-> "write"]

InstallTruncates(f) ==
  /\ inst.pc = JffsGet[f]
  /\ jffs' = [jffs EXCEPT ![f] = "bad"]
  /\ inst' = [inst EXCEPT !.pc = JffsBusy[f]]
  /\ UNCHANGED <<flashVars, tmp, kpatched, wd, updateVars, uninst, power, history>>

\* Mutant: the size test of fetch() is gone, the script goes on without the file.
InstallFetchedUnchecked(f) ==
  /\ inst.pc = JffsBusy[f]
  /\ \E ok \in InstallOutcome : jffs' = [jffs EXCEPT ![f] = IF ok THEN "ok" ELSE "none"]
  /\ inst' = [inst EXCEPT !.pc = JffsAfter[f]]
  /\ UNCHANGED <<flashVars, tmp, kpatched, wd, updateVars, uninst, power, history>>

\* Mutant: fetch() tries again until it succeeds.
InstallFetchedRetrying(f) ==
  /\ inst.pc = JffsBusy[f]
  /\ \E ok \in InstallOutcome :
       /\ jffs' = [jffs EXCEPT ![f] = IF ok THEN "ok" ELSE "none"]
       /\ inst' = [inst EXCEPT !.pc = IF ok THEN JffsAfter[f] ELSE JffsGet[f]]
  /\ UNCHANGED <<flashVars, tmp, kpatched, wd, updateVars, uninst, power, history>>

\* ... and leaves no file when it fails, which aborts the script (lines 31-35).
InstallFetched(f) ==
  /\ inst.pc = JffsBusy[f]
  /\ \E ok \in InstallOutcome :
       /\ jffs' = [jffs EXCEPT ![f] = IF ok THEN "ok" ELSE "none"]
       /\ inst' = IF ok THEN [inst EXCEPT !.pc = JffsAfter[f]] ELSE NoScript
  /\ UNCHANGED <<flashVars, tmp, kpatched, wd, updateVars, uninst, power, history>>

\* Lines 75-77.
InstallWriter ==
  /\ inst.pc = "writer"
  /\ \E ok \in InstallOutcome :
       /\ tmp' = [tmp EXCEPT !["writer"] = IF ok THEN inst.build ELSE None]
       /\ inst' = IF ok THEN [inst EXCEPT !.pc = "startup"] ELSE NoScript
  /\ UNCHANGED <<flashVars, jffs, kpatched, wd, updateVars, uninst, power, history>>

\* Lines 83-84.
InstallWrites ==
  /\ inst.pc = "write"
  /\ \E ok \in InstallOutcome :
       /\ job' = IF ~ok THEN job
                 ELSE [job EXCEPT !["install"] =
                         IF Usable("writer") THEN EraseWrite(inst.build)
                         ELSE [IdleJob EXCEPT !.op = "fail"]]
       /\ inst' = IF ok THEN [inst EXCEPT !.pc = "flash"] ELSE NoScript
  /\ UNCHANGED <<flash, filesVars, wd, updateVars, uninst, power, history>>

\* The tool has ended; what it reported is not looked at.
InstallWritten ==
  /\ inst.pc = "flash" /\ Finished("install")
  /\ job' = [job EXCEPT !["install"] = IdleJob]
  /\ inst' = [inst EXCEPT !.pc = "launch"]
  /\ UNCHANGED <<flash, filesVars, wd, updateVars, uninst, power, history>>

\* Lines 87-91: start it now, and say that it is installed for good.
InstallLaunches ==
  /\ inst.pc = "launch"
  /\ inst' = [inst EXCEPT !.pc = "done"]
  /\ IF jffs["startup"] = "ok" THEN Startup ELSE UNCHANGED <<tmp, wd>>
  /\ UNCHANGED <<flashVars, jffs, kpatched, updateVars, uninst, power, history>>

InstallStep ==
  \/ \E f \in {"reader", "startup"} : InstallTruncates(f) \/ InstallFetched(f)
  \/ InstallWriter
  \/ InstallWrites
  \/ InstallWritten
  \/ InstallLaunches

--------------------------------------------------------------------------------
(* uninstall.sh *)

\* Lines 26-32: refuses without mtd_erase_only_ppc, which is not in the bundle
\* and which the operator is told to fetch.
UninstallStart ==
  /\ "uninstall" \in Activity
  /\ power = "up" /\ inst.pc \in {"idle", "done"} /\ uninst \in {"idle", "done"}
  /\ uninst' = "kill" /\ inst' = NoScript
  /\ UNCHANGED <<flashVars, filesVars, wd, updateVars, power, history>>

\* Line 35: every avsp_client_ppc that `ps` shows gets a kill -9; no watchdog does.
UninstallKills ==
  /\ uninst = "kill"
  /\ uninst' = "erase"
  /\ \E q \in [Watchdogs -> Quick] :
       wd' = [w \in Watchdogs |-> IF Running(w) THEN SessionOver(wd[w], q[w])
                                  ELSE wd[w]]
  /\ stager' = NoScript
  /\ UNCHANGED <<flashVars, filesVars, stage, ready, confirmed, inst, power, history>>

\* Line 38.
UninstallErases ==
  /\ uninst = "erase"
  /\ uninst' = "flash"
  /\ job' = [job EXCEPT !["uninstall"] = EraseOnly]
  /\ UNCHANGED <<flash, filesVars, wd, updateVars, inst, power, history>>

\* Mutant: the message is printed while the tool is still at work.
UninstallDoneEarly ==
  /\ uninst = "flash"
  /\ uninst' = "done"
  /\ UNCHANGED <<flashVars, filesVars, wd, updateVars, inst, power, history>>

\* Lines 39-41: "the reserved region is blank again".
UninstallDone ==
  /\ uninst = "flash" /\ Finished("uninstall")
  /\ uninst' = "done"
  /\ job' = [job EXCEPT !["uninstall"] = IdleJob]
  /\ UNCHANGED <<flash, filesVars, wd, updateVars, inst, power, history>>

UninstallStep == UninstallKills \/ UninstallErases \/ UninstallDone
================================================================================
