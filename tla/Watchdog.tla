------------------------------- MODULE Watchdog --------------------------------
(****************************************************************************)
(* watchdog.sh and ensure_patched.sh: the supervisor loop, the installation *)
(* of a staged self-update at the top of an iteration, the re-fetching of   *)
(* vanished files, the kernel patching and the circuit breaker.             *)
(*                                                                          *)
(* The length of a session is abstracted to "quick" (ELAPSED < 10) or not;  *)
(* module Breaker has the clock.                                            *)
(****************************************************************************)
EXTENDS FlashTools

\* Mutant: a staged update is applied without the second marker.
TopUngated(w) ==
  /\ wd[w].pc = "top"
  /\ wd' = [wd EXCEPT ![w].pc = IF ready THEN "cp_client" ELSE "ensure"]
  /\ UNCHANGED <<flashVars, filesVars, updateVars, shellVars, history>>

\* Mutant: a staged update holds the relaunch up until it is confirmed.
TopBlocking(w) ==
  /\ wd[w].pc = "top"
  /\ ready => confirmed
  /\ wd' = [wd EXCEPT ![w].pc = IF ready THEN "cp_client" ELSE "ensure"]
  /\ UNCHANGED <<flashVars, filesVars, updateVars, shellVars, history>>

\* Lines 54-58: both markers are needed, otherwise nothing is touched.
Top(w) ==
  /\ wd[w].pc = "top"
  /\ wd' = [wd EXCEPT ![w].pc =
              IF ready /\ confirmed THEN "cp_client" ELSE "ensure"]
  /\ UNCHANGED <<flashVars, filesVars, updateVars, shellVars, history>>

CopyTarget == [cp_client |-> "client", cp_kmem |-> "kmem", cp_patched |-> "patched"]
AfterCopy  == [cp_client |-> "cp_kmem", cp_kmem |-> "cp_patched", cp_patched |-> "write"]

\* Lines 60-62, one cp each; no status is looked at.  A missing source leaves the
\* live file alone.  A cp that fails leaves it alone, too, where it cannot open it
\* (text file busy), and otherwise cut off: it is emptied before it is filled, and
\* /tmp may be full.
CopyStaged(w) ==
  /\ wd[w].pc \in DOMAIN CopyTarget
  /\ LET f == CopyTarget[wd[w].pc]
     IN  \E c \in IF stage.ext = None THEN {tmp[f]}
                  ELSE {stage.ext} \cup
                       (IF "copyfail" \in Activity THEN {tmp[f], Bad} ELSE {}) :
           tmp' = [tmp EXCEPT ![f] = c]
  /\ wd' = [wd EXCEPT ![w].pc = AfterCopy[@]]
  /\ UNCHANGED <<flashVars, jffs, kpatched, updateVars, shellVars, history>>

\* Mutant: the bundle unpacked at boot is written back instead of the staged one.
WriteStagedOldBundle(w) ==
  /\ wd[w].pc = "write"
  /\ job' = [job EXCEPT ![w] = EraseWrite(tmp["tar"])]
  /\ wd' = [wd EXCEPT ![w].pc = "flash"]
  /\ UNCHANGED <<flash, filesVars, updateVars, shellVars, history>>

\* Lines 63-64: the staged envelope is handed to mtd_erase_write_ppc.
WriteStaged(w) ==
  /\ wd[w].pc = "write"
  /\ job' = [job EXCEPT ![w] = IF Usable("writer") THEN EraseWrite(stage.env)
                               ELSE [IdleJob EXCEPT !.op = "fail"]]
  /\ wd' = [wd EXCEPT ![w].pc = "flash"]
  /\ UNCHANGED <<flash, filesVars, updateVars, shellVars, history>>

\* Mutant: the markers stay for another try when the tool reports FAIL.
RemoveMarkersOnPass(w) ==
  /\ wd[w].pc = "flash" /\ Finished(w)
  /\ job' = [job EXCEPT ![w] = IdleJob]
  /\ ready' = (ready /\ job[w].op = "fail")
  /\ confirmed' = (confirmed /\ job[w].op = "fail")
  /\ wd' = [wd EXCEPT ![w].pc = "clean"]
  /\ UNCHANGED <<flash, filesVars, stage, stager, shellVars, history>>

\* Line 65: both markers go, whatever the tool reported.
RemoveMarkers(w) ==
  /\ wd[w].pc = "flash" /\ Finished(w)
  /\ job' = [job EXCEPT ![w] = IdleJob]
  /\ ready' = FALSE /\ confirmed' = FALSE
  /\ wd' = [wd EXCEPT ![w].pc = "clean"]
  /\ UNCHANGED <<flash, filesVars, stage, stager, shellVars, history>>

\* Line 70.
RemoveStaging(w) ==
  /\ wd[w].pc = "clean"
  /\ stage' = NoStage
  /\ wd' = [wd EXCEPT ![w].pc = "ensure"]
  /\ UNCHANGED <<flashVars, filesVars, ready, confirmed, stager, shellVars, history>>

\* Lines 97-101 and ensure_file (74-86): a missing file is fetched again, if
\* there is a server to fetch it from; a failed tftp leaves no file.  The server
\* serves one build, which its operator thereby approves.
EnsureFiles(w) ==
  /\ wd[w].pc = "ensure"
  /\ \E v \in Builds, got \in SUBSET {f \in Updatable : TftpHost /\ tmp[f] = None} :
       /\ "fetchfail" \notin Activity =>
            got = {f \in Updatable : TftpHost /\ tmp[f] = None}
       /\ tmp' = [f \in Files |-> IF f \in got THEN v ELSE tmp[f]]
       /\ approved' = IF got = {} THEN approved ELSE approved \cup {v}
  /\ wd' = [wd EXCEPT ![w].pc = "run"]
  /\ UNCHANGED <<flashVars, jffs, kpatched, updateVars, shellVars, torn>>

\* Mutant: the breaker trips one failure late.
SessionOverLate(state, quick) ==
  LET fails == IF quick THEN state.fails + 1 ELSE 0
  IN  [pc |-> IF fails > 3 THEN "stopped" ELSE "sleep",
       fails |-> fails, run |-> None]

\* Lines 111-122: the session of w is over and was quick or not.
SessionOver(state, quick) ==
  LET fails == IF quick THEN state.fails + 1 ELSE 0
  IN  [pc |-> IF fails >= 3 THEN "stopped" ELSE "sleep",
       fails |-> fails, run |-> None]


\* Line 105 and ensure_patched.sh: refuse another kernel, refuse without
\* kmem_patch, patch, and exec the client.  A garbled kmem_patch is executable but
\* patches nothing, a good one may fail ("patchfail": no access to /dev/kmem), and
\* no status is looked at.
Launch(w) ==
  /\ wd[w].pc = "run"
  /\ LET patching == Usable("patched") /\ KernelMatches /\ tmp["kmem"] # None
     IN  /\ \E works \in {TRUE} \cup (IF "patchfail" \in Activity THEN {FALSE} ELSE {}) :
              kpatched' = (kpatched \/ (patching /\ Usable("kmem") /\ works))
         /\ wd' = [wd EXCEPT ![w] =
              IF patching /\ Usable("client")
              THEN [@ EXCEPT !.pc = "login", !.run = tmp["client"]]
              ELSE SessionOver(@, TRUE)]
  /\ UNCHANGED <<flashVars, tmp, jffs, updateVars, shellVars, history>>

\* Lines 118 and 121: the sleep before the next iteration.
Wake(w) ==
  /\ wd[w].pc = "sleep"
  /\ wd' = [wd EXCEPT ![w].pc = "top"]
  /\ UNCHANGED <<flashVars, filesVars, updateVars, shellVars, history>>

WatchdogStep(w) ==
  \/ Top(w)
  \/ CopyStaged(w)
  \/ WriteStaged(w)
  \/ RemoveMarkers(w)
  \/ RemoveStaging(w)
  \/ EnsureFiles(w)
  \/ Launch(w)
  \/ Wake(w)
================================================================================
