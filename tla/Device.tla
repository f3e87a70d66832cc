-------------------------------- MODULE Device ---------------------------------
(****************************************************************************)
(* The whole appliance: the watchdogs, the daemon and its staging child,    *)
(* the flash tools, the boot hook, install.sh, uninstall.sh, the operator   *)
(* and the power, interleaved step by step.                                 *)
(****************************************************************************)
EXTENDS Installer

ScriptStep ==   \* what goes on by itself, as long as there is power
  \/ \E w \in Watchdogs : WatchdogStep(w) \/ Listen(w)
  \/ \E p \in Processes : FlashStep(p)
  \/ StagerStep
  \/ InstallStep
  \/ UninstallStep
  \/ BootHook

OperatorStep == \* what somebody, or the environment, may or may not do
  \/ \E w \in Watchdogs : \/ SessionEnds(w)
                          \/ \E v \in Builds : UpdateDo(w, v)
                          \/ UpdateApply(w)
                          \/ UpdateDiscard(w)
  \/ \E v \in Builds : InstallCheck(v)
  \/ UninstallStart
  \/ Vanish
  \/ PowerCut

Next == ScriptStep \/ OperatorStep

Spec == Init /\ [][Next]_vars

\* A running script, tool or hook is scheduled by the kernel and goes on.  No
\* fairness for the operator, nor for the end of a session: it may last forever.
Fairness ==
  /\ \A w \in Watchdogs : WF_vars(WatchdogStep(w)) /\ WF_vars(Listen(w))
  /\ \A p \in Processes : WF_vars(FlashStep(p))
  /\ WF_vars(StagerStep)
  /\ WF_vars(InstallStep)
  /\ WF_vars(UninstallStep)
  /\ WF_vars(BootHook)

FairSpec == Spec /\ Fairness

--------------------------------------------------------------------------------
(* Safety *)

\* watchdog.sh:44-52: a build reaches the live files or the flash only if it was
\* there from the start or an operator installed or applied that very build.
\* However the daemon dies, a staged update alone never gets there.
OnlyApproved ==
  /\ \A f \in BundleFiles : tmp[f] \in approved \cup {None, Bad}
  /\ \A b \in Blocks : flash[b] \in approved \cup {Bad, Blank, Foreign}

\* What runs is what the next boot would start: apart from a rewrite that was cut
\* short by the power or that the tool itself reported as FAIL, the build of a
\* running daemon is the one that fills the flash.
RunsWhatBoots ==
  \A w \in Watchdogs : Running(w) /\ ~torn => Whole(wd[w].run)

\* ensure_patched.sh: no client ever runs on a kernel that was not patched since
\* it booted -- not even from a truncated bundle, because the order of the tar
\* puts the scripts after kmem_patch.
PatchedSessions ==
  \A w \in Watchdogs : Running(w) => kpatched

\* watchdog.sh:35-39: what the watchdog copies over the live files and writes to
\* flash has passed every check of the staging child, or is nothing at all (the
\* marker can outlive the directory when a discard overtakes the child).
AppliesVerified ==
  \A w \in Watchdogs :
    wd[w].pc \in DOMAIN CopyTarget \cup {"write"} =>
      stage.env # Bad /\ stage.ext = stage.env

\* "It never stacks two daemons" (MANUAL.TXT:349, 470).
NeverStacked == \A w, x \in Watchdogs : Running(w) /\ Running(x) => w = x

\* What "done" means (install.sh.template:89-91 says that the installation
\* survives reboots): unless the region held foreign bytes, or a rewrite was cut
\* short or ended in FAIL, the flash holds the bundle that was served and the two
\* boot files are in place -- no fetch that failed on the way has gone unnoticed.
DoneMeansInstalled ==
  inst.pc = "done" /\ flash[1] # Foreign /\ ~torn =>
    /\ jffs["reader"] = "ok" /\ jffs["startup"] = "ok"
    /\ Whole(inst.build)

\* uninstall.sh:39: done means that the reserved region is blank again, whatever
\* was in it and however an earlier rewrite ended, unless this erase reported FAIL.
UninstallBlanks == uninst = "done" /\ ~torn => AllBlank

--------------------------------------------------------------------------------
(* Liveness *)

\* An applied update is dealt with -- unless the circuit breaker has stopped the
\* supervisor first (a click within 10 s of the third start counts as a failure).
ApplyIsCompleted ==
  (ready /\ confirmed) ~> (~confirmed \/ \A w \in Watchdogs : ~Alive(w))

\* A session that ended is followed by another one, or by the breaker, or the
\* power goes.
Respawns ==
  \A w \in Watchdogs : (wd[w].pc = "sleep") ~> (Running(w) \/ ~Alive(w))

\* install.sh comes to an end, whatever fails in it.
InstallEnds == (inst.pc # "idle") ~> (inst.pc \in {"idle", "done"})

\* Once the power is stable, an appliance that boots with a whole bundle and its
\* boot files in place gets a daemon -- unless an earlier cut, in the middle of a
\* rewrite, made it boot again without them.
BootReady ==
  /\ power = "boot" /\ KernelMatches
  /\ jffs["reader"] = "ok" /\ jffs["startup"] = "ok"
  /\ \E v \in Builds : Whole(v)
BootServes ==
  <>[][~PowerCut]_vars =>
    (BootReady ~> (\/ \E w \in Watchdogs : Running(w)
                   \/ power = "boot" /\ ~BootReady))
================================================================================
