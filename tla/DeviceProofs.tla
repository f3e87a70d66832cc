------------------------------ MODULE DeviceProofs -----------------------------
(****************************************************************************)
(* Proofs about Device, for every set of builds, every number of erase      *)
(* blocks and of watchdogs.  Types and foreign bytes first, whatever        *)
(* operators and environment do; then the update of one supervisor, from    *)
(* the staging directory to every place its bytes are copied to; then what  *)
(* needs to know who is at work on the flash and since when: the tools one  *)
(* at a time, install.sh, uninstall.sh, and what the sessions run on.  Most *)
(* of it holds as long as certain things do not go on together; those       *)
(* hypotheses are formulas about CONSTANTS.                                 *)
(****************************************************************************)
EXTENDS Device, TLAPS

\* The breaker stops the loop before the count can reach three.
BelowTrip == \A w \in Watchdogs : wd[w].fails = 3 => wd[w].pc = "stopped"

\* A tool that refuses foreign bytes is at work only where there are none.
NoneOverForeign ==
  \A p \in Processes \ {"uninstall"} : Writing(p) => flash[1] # Foreign

\* Nothing is programmed without a source.
HasSource == \A p \in Processes : job[p].op = "write" => job[p].src # None

IInv == TypeOK /\ BelowTrip /\ NoneOverForeign /\ HasSource

--------------------------------------------------------------------------------
LEMMA Sorts ==
  /\ Bad \in Copy /\ None \in Copy /\ Builds \subseteq Copy
  /\ Foreign \notin Copy /\ Blank \notin Copy
  /\ Blank \in Cell /\ Copy \ {None} \subseteq Cell
  /\ 1 \in Blocks
BY BuildsAssumption, BlocksAssumption DEF Copy, Cell, Bad, None, Foreign, Blank, Blocks

LEMMA Initially == Init => IInv
<1> SUFFICES ASSUME Init PROVE IInv
  OBVIOUS
<1>1. PICK c \in FirstFlash : Init!(c)
  BY DEF Init
<1>2. FlashTypeOK
  BY <1>1, FirstFlashAssumption, BlocksAssumption DEF FlashTypeOK, JobState, IdleJob, Copy, Cell
<1>3. FilesTypeOK
  BY <1>1 DEF FilesTypeOK, Copy
<1>4. WatchdogTypeOK /\ BelowTrip
  BY <1>1 DEF WatchdogTypeOK, WatchdogState, Off, Copy, BelowTrip
<1>5. UpdateTypeOK
  BY <1>1 DEF UpdateTypeOK, NoStage, StagerState, NoScript, Copy
<1>6. ShellTypeOK /\ HistoryTypeOK
  BY <1>1 DEF ShellTypeOK, HistoryTypeOK, InstallState, NoScript, Copy
<1>7. NoneOverForeign /\ HasSource
  BY <1>1 DEF NoneOverForeign, HasSource, Writing, IdleJob
<1> QED
  BY <1>2, <1>3, <1>4, <1>5, <1>6, <1>7 DEF IInv, TypeOK

\* What leaves the variables of a group alone leaves its part of IInv alone.
LEMMA Still ==
  /\ FlashTypeOK /\ NoneOverForeign /\ HasSource /\ UNCHANGED flashVars
       => FlashTypeOK' /\ NoneOverForeign' /\ HasSource'
  /\ FilesTypeOK /\ UNCHANGED filesVars => FilesTypeOK'
  /\ WatchdogTypeOK /\ BelowTrip /\ UNCHANGED wd => WatchdogTypeOK' /\ BelowTrip'
  /\ UpdateTypeOK /\ UNCHANGED updateVars => UpdateTypeOK'
  /\ ShellTypeOK /\ UNCHANGED shellVars => ShellTypeOK'
  /\ HistoryTypeOK /\ UNCHANGED history => HistoryTypeOK'
BY DEF FlashTypeOK, NoneOverForeign, HasSource, Writing, flashVars, FilesTypeOK, filesVars,
       WatchdogTypeOK, BelowTrip, UpdateTypeOK, updateVars, ShellTypeOK, shellVars,
       HistoryTypeOK, history

--------------------------------------------------------------------------------
(* The flash tools *)

\* What is left of the job of a tool that ends where it is.
LEMMA GivesUpJob ==
  ASSUME FlashTypeOK, NEW p \in Processes, GivesUp(p)
  PROVE  /\ job'[p] \in JobState /\ job'[p].op = "fail" /\ job'[p].src = job[p].src
         /\ \A q \in Processes : q # p => job'[q] = job[q]
         /\ job' \in [Processes -> JobState]
<1>1. job \in [Processes -> JobState] /\ job[p] \in JobState
  BY DEF FlashTypeOK
<1> DEFINE failed == [job EXCEPT ![p].op = "fail"]
<1>2. job' = [failed EXCEPT ![p].k = 1]
  BY Zenon DEF GivesUp
<1>3. failed \in [Processes -> JobState]
  BY <1>1 DEF JobState
<1>4. /\ failed[p].op = "fail" /\ failed[p].src = job[p].src
      /\ \A q \in Processes : q # p => failed[q] = job[q]
  BY <1>1 DEF JobState
<1> HIDE DEF failed
<1>5. 1 \in 1..(NBlocks + 1)
  BY BlocksAssumption
<1> QED
  BY <1>2, <1>3, <1>4, <1>5 DEF JobState

LEMMA ToolJobs ==
  ASSUME FlashTypeOK, NEW p \in Processes, FlashStep(p)
  PROVE  \A q \in Processes : job'[q].src = job[q].src /\ (q # p => job'[q] = job[q])
<1>1. job \in [Processes -> JobState]
  BY DEF FlashTypeOK
<1>2. CASE EraseBlock(p) \/ WriteBlock(p)
  BY <1>1, <1>2 DEF EraseBlock, WriteBlock, JobState
<1>3. CASE EraseChecked(p)
  BY <1>1, <1>3 DEF EraseChecked, JobState
<1>4. CASE WriteChecked(p)
  BY <1>1, <1>4 DEF WriteChecked, JobState
<1>5. CASE GivesUp(p)
  BY <1>5, GivesUpJob
<1> QED
  BY <1>2, <1>3, <1>4, <1>5 DEF FlashStep

LEMMA FlashKeeps ==
  ASSUME IInv, NEW p \in Processes, FlashStep(p)
  PROVE  IInv'
<1> USE DEF IInv, TypeOK
<1>1. FilesTypeOK' /\ WatchdogTypeOK' /\ BelowTrip' /\ UpdateTypeOK' /\ ShellTypeOK'
  BY Still DEF FlashStep
<1>2. HistoryTypeOK'
  BY DEF FlashStep, EraseBlock, EraseChecked, WriteBlock, WriteChecked, GivesUp,
         HistoryTypeOK, AllBlank, Whole
<1>3. /\ job[p] \in JobState /\ 1 \in Blocks
      /\ NBlocks \in Nat /\ Blocks = 1..NBlocks
  BY Sorts, BlocksAssumption DEF FlashTypeOK, Blocks
<1>4. CASE EraseBlock(p)
  <2> DEFINE next == [job[p] EXCEPT !.k = @ + 1]
  <2>3. PICK c \in {Blank, flash[job[p].k]} : flash' = [flash EXCEPT ![job[p].k] = c]
    BY <1>4 DEF EraseBlock, Attempt
  <2>4. job' = [job EXCEPT ![p] = next] /\ job[p].k \in Blocks /\ job[p].op = "erase"
    BY <1>4 DEF EraseBlock
  <2>5. c \in Cell
    BY <2>4, Sorts DEF FlashTypeOK
  <2>6. next \in JobState /\ next.op = "erase"
    BY <1>3, <2>4 DEF JobState
  <2> HIDE DEF next
  <2>1. FlashTypeOK'
    BY <2>3, <2>4, <2>5, <2>6 DEF FlashTypeOK
  <2>2. NoneOverForeign' /\ HasSource'
    BY <1>3, <2>3, <2>4, <2>6 DEF FlashTypeOK, NoneOverForeign, HasSource, Writing, Blank, Foreign
  <2> QED
    BY <1>1, <1>2, <2>1, <2>2
<1>5. CASE EraseChecked(p)
  <2>1. FlashTypeOK'
    BY <1>3, <1>5 DEF EraseChecked, FlashTypeOK, JobState
  <2>2. NoneOverForeign' /\ HasSource'
    BY <1>3, <1>5 DEF EraseChecked, FlashTypeOK, JobState, NoneOverForeign, HasSource, Writing
  <2> QED
    BY <1>1, <1>2, <2>1, <2>2
<1>6. CASE WriteBlock(p)
  <2> DEFINE next == [job[p] EXCEPT !.k = @ + 1]
  <2>3. PICK c \in {job[p].src, Bad} : flash' = [flash EXCEPT ![job[p].k] = c]
    BY <1>6 DEF WriteBlock, Attempt
  <2>4. /\ job' = [job EXCEPT ![p] = next] /\ job[p].k \in Blocks /\ job[p].op = "write"
        /\ job[p].src # None
    BY <1>6 DEF WriteBlock, HasSource
  <2>5. c \in Cell /\ c # Foreign
    BY <1>3, <2>4, Sorts DEF JobState, Cell
  <2>6. next \in JobState /\ next.op = "write" /\ next.src = job[p].src
    BY <1>3, <2>4 DEF JobState
  <2> HIDE DEF next
  <2>1. FlashTypeOK'
    BY <2>3, <2>4, <2>5, <2>6 DEF FlashTypeOK
  <2>2. NoneOverForeign' /\ HasSource'
    BY <1>3, <2>3, <2>4, <2>5, <2>6 DEF FlashTypeOK, NoneOverForeign, HasSource, Writing
  <2> QED
    BY <1>1, <1>2, <2>1, <2>2
<1>7. CASE WriteChecked(p)
  <2>1. FlashTypeOK'
    BY <1>3, <1>7 DEF WriteChecked, FlashTypeOK, JobState
  <2>2. NoneOverForeign' /\ HasSource'
    BY <1>3, <1>7 DEF WriteChecked, FlashTypeOK, JobState, NoneOverForeign, HasSource, Writing
  <2> QED
    BY <1>1, <1>2, <2>1, <2>2
<1>8. CASE GivesUp(p)
  <2>1. FlashTypeOK'
    BY <1>8, GivesUpJob DEF GivesUp, FlashTypeOK
  <2>2. NoneOverForeign' /\ HasSource'
    BY <1>8, GivesUpJob DEF GivesUp, NoneOverForeign, HasSource, Writing
  <2> QED
    BY <1>1, <1>2, <2>1, <2>2
<1> QED
  BY <1>4, <1>5, <1>6, <1>7, <1>8 DEF FlashStep

--------------------------------------------------------------------------------
(* The watchdog *)

\* The tool called with a source that may be missing.
LEMMA EraseWriteSafe ==
  ASSUME IInv, NEW src \in Copy
  PROVE  /\ EraseWrite(src) \in JobState
         /\ EraseWrite(src).op # "write"
         /\ EraseWrite(src).op = "erase" => flash[1] # Foreign
<1>1. 1 \in 1..(NBlocks + 1) /\ 1 \in Blocks
  BY BlocksAssumption DEF Blocks
<1>2. Ours \/ AllBlank => flash[1] # Foreign
  BY <1>1 DEF Ours, AllBlank, Whole, Blank, Foreign
<1> QED
  BY <1>1, <1>2 DEF EraseWrite, JobState

LEMMA IdleSafe ==
  \A o \in {"idle", "erase", "pass", "fail"} : [IdleJob EXCEPT !.op = o] \in JobState
BY BlocksAssumption, Sorts DEF IdleJob, JobState

\* A process that is given such a job leaves the flash part of IInv true.
LEMMA NewJob ==
  ASSUME IInv, NEW p \in Processes, NEW j \in JobState, j.op # "write",
         j.op = "erase" /\ p # "uninstall" => flash[1] # Foreign,
         job' = [job EXCEPT ![p] = j], UNCHANGED flash
  PROVE  FlashTypeOK' /\ NoneOverForeign' /\ HasSource'
BY DEF IInv, TypeOK, FlashTypeOK, NoneOverForeign, HasSource, Writing

LEMMA OverIsTyped ==
  ASSUME NEW state \in WatchdogState, NEW quick \in BOOLEAN,
         state.fails = 3 => state.pc = "stopped", state.pc # "stopped"
  PROVE  /\ SessionOver(state, quick) \in WatchdogState
         /\ SessionOver(state, quick).fails = 3
              => SessionOver(state, quick).pc = "stopped"
BY Sorts DEF SessionOver, WatchdogState
\* Moving the pc of one watchdog that has not tripped.
LEMMA Moved ==
  ASSUME IInv, NEW w \in Watchdogs, wd[w].pc # "stopped",
         NEW state \in WatchdogState, state.fails = 3 => state.pc = "stopped",
         wd' = [wd EXCEPT ![w] = state]
  PROVE  WatchdogTypeOK' /\ BelowTrip'
BY DEF IInv, TypeOK, WatchdogTypeOK, BelowTrip

LEMMA WatchdogKeeps ==
  ASSUME IInv, NEW w \in Watchdogs, WatchdogStep(w)
  PROVE  IInv'
<1> USE DEF IInv, TypeOK
<1> DEFINE To(pc) == [wd[w] EXCEPT !.pc = pc]
<1>1. /\ wd[w] \in WatchdogState
      /\ wd[w].fails = 3 => wd[w].pc = "stopped"
      /\ w \in Processes /\ w # "uninstall"
  BY WatchdogsAssumption DEF WatchdogTypeOK, BelowTrip, Processes
<1>2. ASSUME NEW pc \in {"top", "cp_client", "cp_kmem", "cp_patched", "write", "flash",
                         "clean", "ensure", "run"}, wd[w].pc # "stopped",
             wd' = [wd EXCEPT ![w] = To(pc)]
      PROVE  WatchdogTypeOK' /\ BelowTrip'
  <2>1. To(pc) \in WatchdogState /\ To(pc).fails # 3
    BY <1>1, <1>2 DEF WatchdogState
  <2> QED
    BY <1>2, <2>1, Moved
<1>3. CASE Top(w)
  <2>1. WatchdogTypeOK' /\ BelowTrip'
    <3>1. CASE ready /\ confirmed
      BY <1>2, <1>3, <3>1 DEF Top
    <3>2. CASE ~(ready /\ confirmed)
      BY <1>2, <1>3, <3>2 DEF Top
    <3> QED
      BY <3>1, <3>2
  <2> QED
    BY <1>3, <2>1, Still DEF Top
<1>4. CASE CopyStaged(w)
  <2>1. WatchdogTypeOK' /\ BelowTrip'
    <3>1. wd' = [wd EXCEPT ![w] = To(AfterCopy[wd[w].pc])]
      BY <1>4 DEF CopyStaged
    <3>2. /\ AfterCopy[wd[w].pc] \in {"cp_kmem", "cp_patched", "write"}
          /\ wd[w].pc # "stopped"
      BY <1>4 DEF CopyStaged, CopyTarget, AfterCopy
    <3> QED
      BY <1>2, <3>1, <3>2
  <2>2. FilesTypeOK'
    <3>1. CopyTarget[wd[w].pc] \in Files
      BY <1>4 DEF CopyStaged, CopyTarget, Files, BundleFiles, BundleOrder
    <3>2. \E c \in {stage.ext, tmp[CopyTarget[wd[w].pc]], Bad} :
            tmp' = [tmp EXCEPT ![CopyTarget[wd[w].pc]] = c]
      BY <1>4 DEF CopyStaged
    <3> QED
      BY <1>4, <3>1, <3>2, Sorts DEF CopyStaged, FilesTypeOK, UpdateTypeOK
  <2> QED
    BY <1>4, <2>1, <2>2, Still DEF CopyStaged
<1>5. CASE WriteStaged(w)
  <2>1. WatchdogTypeOK' /\ BelowTrip'
    BY <1>2, <1>5 DEF WriteStaged
  <2>2. stage.env \in Copy
    BY DEF UpdateTypeOK
  <2> DEFINE new == IF Usable("writer") THEN EraseWrite(stage.env)
                    ELSE [IdleJob EXCEPT !.op = "fail"]
  <2>3. /\ new \in JobState /\ new.op # "write"
        /\ new.op = "erase" => flash[1] # Foreign
    <3>1. [IdleJob EXCEPT !.op = "fail"].op = "fail"
      BY DEF IdleJob
    <3> QED
      BY <2>2, <3>1, EraseWriteSafe, IdleSafe
  <2>4. job' = [job EXCEPT ![w] = new] /\ UNCHANGED flash
    BY <1>5 DEF WriteStaged
  <2>5. FlashTypeOK' /\ NoneOverForeign' /\ HasSource'
    <3> HIDE DEF new, IInv
    <3> QED
      BY <1>1, <2>3, <2>4, NewJob
  <2> QED
    BY <1>5, <2>1, <2>5, Still DEF WriteStaged
<1>6. CASE RemoveMarkers(w)
  <2>1. WatchdogTypeOK' /\ BelowTrip'
    BY <1>2, <1>6 DEF RemoveMarkers
  <2>2. FlashTypeOK' /\ NoneOverForeign' /\ HasSource'
    BY <1>6, IdleSafe, BlocksAssumption, Sorts
       DEF RemoveMarkers, FlashTypeOK, NoneOverForeign, HasSource, Writing, IdleJob, JobState
  <2>3. UpdateTypeOK'
    BY <1>6 DEF RemoveMarkers, UpdateTypeOK
  <2> QED
    BY <1>6, <2>1, <2>2, <2>3, Still DEF RemoveMarkers
<1>7. CASE RemoveStaging(w)
  <2>1. WatchdogTypeOK' /\ BelowTrip'
    BY <1>2, <1>7 DEF RemoveStaging
  <2>2. UpdateTypeOK'
    BY <1>7, Sorts DEF RemoveStaging, UpdateTypeOK, NoStage
  <2> QED
    BY <1>7, <2>1, <2>2, Still DEF RemoveStaging
<1>8. CASE EnsureFiles(w)
  <2>1. WatchdogTypeOK' /\ BelowTrip'
    BY <1>2, <1>8 DEF EnsureFiles
  <2>2. FilesTypeOK' /\ HistoryTypeOK'
    BY <1>8, Sorts DEF EnsureFiles, FilesTypeOK, HistoryTypeOK
  <2> QED
    BY <1>8, <2>1, <2>2, Still DEF EnsureFiles
<1>9. CASE Launch(w)
  <2>1. FilesTypeOK'
    BY <1>9 DEF Launch, FilesTypeOK, Usable
  <2> DEFINE over == SessionOver(wd[w], TRUE)
             login == [wd[w] EXCEPT !.pc = "login", !.run = tmp["client"]]
  <2>2. /\ over \in WatchdogState
        /\ over.fails = 3 => over.pc = "stopped"
        /\ wd[w].pc # "stopped"
    BY <1>1, <1>9, OverIsTyped DEF Launch
  <2>3. login \in WatchdogState /\ login.fails # 3
    <3>1. tmp["client"] \in Copy
      BY DEF FilesTypeOK, Files, BundleFiles, BundleOrder
    <3> QED
      BY <1>1, <1>9, <3>1 DEF Launch, WatchdogState
  <2>4. wd' \in {[wd EXCEPT ![w] = over], [wd EXCEPT ![w] = login]}
    BY <1>9 DEF Launch
  <2>5. WatchdogTypeOK' /\ BelowTrip'
    <3> HIDE DEF over, login, IInv, TypeOK
    <3>1. CASE wd' = [wd EXCEPT ![w] = over]
      BY <2>2, <3>1, Moved
    <3>2. CASE wd' = [wd EXCEPT ![w] = login]
      BY <2>2, <2>3, <3>2, Moved
    <3> QED
      BY <2>4, <3>1, <3>2
  <2> QED
    BY <1>9, <2>1, <2>5, Still DEF Launch
<1>10. CASE Wake(w)
  <2>1. WatchdogTypeOK' /\ BelowTrip'
    BY <1>2, <1>10 DEF Wake
  <2> QED
    BY <1>10, <2>1, Still DEF Wake
<1> QED
  BY <1>3, <1>4, <1>5, <1>6, <1>7, <1>8, <1>9, <1>10 DEF WatchdogStep
--------------------------------------------------------------------------------
(* The daemon and its staging child *)

LEMMA ListenKeeps ==
  ASSUME IInv, NEW w \in Watchdogs, Listen(w)
  PROVE  IInv'
<1> USE DEF IInv, TypeOK
<1>1. wd[w] \in WatchdogState /\ wd[w].fails # 3 /\ wd[w].pc # "stopped"
  BY DEF Listen, WatchdogTypeOK, BelowTrip
<1>2. UpdateTypeOK'
  <2>1. NoStage \in [dir : BOOLEAN, env : Copy, ext : Copy]
    BY Sorts DEF NoStage
  <2>2. stage' \in {stage, NoStage} /\ UNCHANGED <<ready, confirmed, stager>>
    BY DEF Listen
  <2> QED
    BY <2>1, <2>2 DEF UpdateTypeOK
<1>3. CASE wd' = [wd EXCEPT ![w].pc = "serve"]
  <2> DEFINE serving == [wd[w] EXCEPT !.pc = "serve"]
  <2>1. serving \in WatchdogState /\ serving.fails # 3 /\ wd' = [wd EXCEPT ![w] = serving]
    BY <1>1, <1>3 DEF WatchdogState
  <2>2. WatchdogTypeOK' /\ BelowTrip'
    <3> HIDE DEF serving, IInv, TypeOK
    <3> QED
      BY <1>1, <2>1, Moved
  <2> QED
    BY <1>2, <2>2, Still DEF Listen
<1>4. CASE \E q \in Quick : wd' = [wd EXCEPT ![w] = SessionOver(wd[w], q)]
  <2>1. WatchdogTypeOK' /\ BelowTrip'
    <3> HIDE DEF IInv, TypeOK
    <3> QED
      BY <1>1, <1>4, OverIsTyped, Moved DEF Quick
  <2> QED
    BY <1>2, <2>1, Still DEF Listen
<1> QED
  BY <1>3, <1>4 DEF Listen

LEMMA SessionEndsKeeps ==
  ASSUME IInv, NEW w \in Watchdogs, NEW q \in Quick, Running(w),
         wd' = [wd EXCEPT ![w] = SessionOver(wd[w], q)]
  PROVE  WatchdogTypeOK' /\ BelowTrip'
<1>1. wd[w] \in WatchdogState /\ wd[w].fails # 3 /\ wd[w].pc # "stopped"
  BY DEF IInv, TypeOK, Running, WatchdogTypeOK, BelowTrip
<1> QED
  BY <1>1, OverIsTyped, Moved DEF Quick

LEMMA DaemonKeeps ==
  ASSUME IInv, NEW w \in Watchdogs,
         \/ SessionEnds(w) \/ UpdateApply(w) \/ UpdateDiscard(w)
         \/ \E v \in Builds : UpdateDo(w, v)
  PROVE  IInv'
<1>1. CASE SessionEnds(w)
  <2>1. WatchdogTypeOK' /\ BelowTrip'
    BY <1>1, SessionEndsKeeps DEF SessionEnds
  <2> QED
    BY <1>1, <2>1, Still DEF SessionEnds, IInv, TypeOK
<1>2. CASE UpdateApply(w)
  <2>1. WatchdogTypeOK' /\ BelowTrip'
    BY <1>2, SessionEndsKeeps DEF UpdateApply, Running
  <2>2. UpdateTypeOK' /\ HistoryTypeOK'
    BY <1>2 DEF UpdateApply, IInv, TypeOK, UpdateTypeOK, HistoryTypeOK
  <2> QED
    BY <1>2, <2>1, <2>2, Still DEF UpdateApply, IInv, TypeOK
<1>3. CASE UpdateDiscard(w)
  <2>1. UpdateTypeOK'
    BY <1>3, Sorts DEF UpdateDiscard, IInv, TypeOK, UpdateTypeOK, NoStage
  <2> QED
    BY <1>3, <2>1, Still DEF UpdateDiscard, IInv, TypeOK
<1>4. CASE \E v \in Builds : UpdateDo(w, v)
  <2>1. UpdateTypeOK'
    BY <1>4, Sorts DEF UpdateDo, IInv, TypeOK, UpdateTypeOK, StagerState
  <2> QED
    BY <1>4, <2>1, Still DEF UpdateDo, IInv, TypeOK
<1> QED
  BY <1>1, <1>2, <1>3, <1>4

LEMMA StagerKeeps ==
  ASSUME IInv, StagerStep
  PROVE  IInv'
<1>1. UpdateTypeOK
  BY DEF IInv, TypeOK
<1>2. NoScript \in StagerState
  BY Sorts DEF NoScript, StagerState
<1>3. stage \in [dir : BOOLEAN, env : Copy, ext : Copy] /\ stager \in StagerState
  BY <1>1 DEF UpdateTypeOK
<1>4. ASSUME NEW from, NEW to \in {"fetching", "verify", "extract", "selftest", "touch"},
             NEW staging \in [dir : BOOLEAN, env : Copy, ext : Copy],
             StagerAt(from, to, staging)
      PROVE  UpdateTypeOK' \/ confirmed' # confirmed
  BY <1>1, <1>3, <1>4 DEF StagerAt, UpdateTypeOK, StagerState
<1>5. UpdateTypeOK' \/ confirmed' # confirmed
  <2>1. CASE StagerFetches
    BY <1>3, <1>4, <2>1, Sorts DEF StagerFetches
  <2>2. CASE StagerFetched
    BY <1>3, <1>4, <2>2 DEF StagerFetched, StagerState
  <2>3. CASE StagerVerified
    BY <1>3, <1>4, <2>3, Sorts DEF StagerVerified
  <2>4. CASE StagerExtracts
    BY <1>3, <1>4, <2>4 DEF StagerExtracts, StagerState
  <2>5. CASE StagerTested
    BY <1>3, <1>4, <2>5 DEF StagerTested
  <2>6. CASE StagerTouches
    BY <1>1, <1>2, <2>6 DEF StagerTouches, UpdateTypeOK
  <2>7. CASE StagerFails
    <3>1. stage' \in [dir : BOOLEAN, env : Copy, ext : Copy]
      BY <1>3, <2>7, Sorts DEF StagerFails
    <3> QED
      BY <1>1, <1>2, <2>7, <3>1 DEF StagerFails, UpdateTypeOK
  <2> QED
    BY <2>1, <2>2, <2>3, <2>4, <2>5, <2>6, <2>7 DEF StagerStep
<1> QED
  BY <1>5, Still DEF StagerStep, IInv, TypeOK
--------------------------------------------------------------------------------
(* Booting, installing, un-installing *)

LEMMA TarIsCopy ==
  ASSUME IInv
  PROVE  TarAfterRead \in Copy
<1>1. tmp["tar"] \in Copy
  BY DEF IInv, TypeOK, FilesTypeOK, Files
<1>2. ASSUME NEW v \in Builds, Whole(v)
      PROVE  flash[1] \in Copy
  BY <1>2, Sorts DEF Whole
<1> QED
  BY <1>1, <1>2, Sorts DEF TarAfterRead

LEMMA ExtractedIsTyped ==
  ASSUME IInv, NEW tar \in Copy, NEW cut
  PROVE  Extracted(tar, cut) \in [Files -> Copy]
<1> DEFINE source == IF tar \in Builds THEN tar ELSE flash[1]
           i(f)   == CHOOSE n \in 1..5 : BundleOrder[n] = f
           File(f) == CASE f = "tar" -> tar
                        [] f # "tar" /\ source \in Builds /\ i(f) < cut -> source
                        [] f # "tar" /\ source \in Builds /\ i(f) = cut -> Bad
                        [] f = BundleOrder[1] /\ source = Bad /\ cut = 1 -> Bad
                        [] OTHER -> tmp[f]
<1>1. ASSUME NEW f \in Files
      PROVE  File(f) \in Copy
  <2>1. tmp[f] \in Copy
    BY DEF IInv, TypeOK, FilesTypeOK
  <2> HIDE DEF i, source
  <2> QED
    BY <2>1, Sorts
<1>2. Extracted(tar, cut) = [f \in Files |-> File(f)]
  BY DEF Extracted
<1> HIDE DEF File
<1> QED
  BY <1>1, <1>2

LEMMA StartupKeeps ==
  ASSUME IInv, Startup, UNCHANGED <<jffs, kpatched>>
  PROVE  FilesTypeOK' /\ WatchdogTypeOK' /\ BelowTrip'
<1>1. PICK cut \in Cuts(TarAfterRead) : Startup!(cut)
  BY DEF Startup
<1>2. FilesTypeOK'
  <2>1. tmp' \in {tmp, Extracted(TarAfterRead, cut)}
    BY <1>1
  <2> QED
    BY <2>1, TarIsCopy, ExtractedIsTyped DEF IInv, TypeOK, FilesTypeOK
<1>3. WatchdogTypeOK' /\ BelowTrip'
  <2> DEFINE new == [Off EXCEPT !.pc = "top"]
  <2>1. new \in WatchdogState /\ new.fails # 3
    BY Sorts DEF Off, WatchdogState
  <2>2. CASE UNCHANGED wd
    BY <2>2, Still DEF IInv, TypeOK
  <2>3. CASE \E w \in Watchdogs : wd' = [wd EXCEPT ![w] = new]
    <3> HIDE DEF new
    <3> QED
      BY <2>1, <2>3 DEF IInv, TypeOK, WatchdogTypeOK, BelowTrip
  <2> QED
    BY <1>1, <2>2, <2>3
<1> QED
  BY <1>2, <1>3

LEMMA BootHookKeeps ==
  ASSUME IInv, BootHook
  PROVE  IInv'
<1>1. FilesTypeOK' /\ WatchdogTypeOK' /\ BelowTrip'
  <2>1. CASE Startup
    BY <2>1, StartupKeeps DEF BootHook
  <2>2. CASE UNCHANGED <<tmp, wd>>
    BY <2>2, Still DEF BootHook, IInv, TypeOK, filesVars
  <2> QED
    BY <2>1, <2>2 DEF BootHook
<1>2. ShellTypeOK'
  BY DEF BootHook, IInv, TypeOK, ShellTypeOK
<1> QED
  BY <1>1, <1>2, Still DEF BootHook, IInv, TypeOK

LEMMA PowerCutKeeps ==
  ASSUME IInv, PowerCut
  PROVE  IInv'
<1> USE DEF PowerCut
<1>1. FlashTypeOK' /\ NoneOverForeign' /\ HasSource'
  <2>1. IdleJob \in JobState /\ IdleJob.op = "idle"
    BY BlocksAssumption, Sorts DEF IdleJob, JobState
  <2>2. job' \in [Processes -> JobState] /\ \A p \in Processes : job'[p].op = "idle"
    BY <2>1
  <2> QED
    BY <2>2 DEF IInv, TypeOK, FlashTypeOK, NoneOverForeign, HasSource, Writing
<1>2. FilesTypeOK'
  BY Sorts DEF IInv, TypeOK, FilesTypeOK
<1>3. WatchdogTypeOK' /\ BelowTrip'
  BY Sorts DEF Off, WatchdogTypeOK, WatchdogState, BelowTrip
<1>4. UpdateTypeOK' /\ ShellTypeOK'
  BY Sorts DEF NoStage, NoScript, UpdateTypeOK, ShellTypeOK, StagerState, InstallState
<1>5. HistoryTypeOK'
  BY DEF IInv, TypeOK, HistoryTypeOK
<1> QED
  BY <1>1, <1>2, <1>3, <1>4, <1>5 DEF IInv, TypeOK

LEMMA VanishKeeps ==
  ASSUME IInv, Vanish
  PROVE  IInv'
<1>1. FilesTypeOK'
  BY Sorts DEF Vanish, IInv, TypeOK, FilesTypeOK
<1> QED
  BY <1>1, Still DEF Vanish, IInv, TypeOK

LEMMA InstallCheckKeeps ==
  ASSUME IInv, NEW v \in Builds, InstallCheck(v)
  PROVE  IInv'
<1>1. ShellTypeOK' /\ HistoryTypeOK'
  BY Sorts DEF InstallCheck, IInv, TypeOK, ShellTypeOK, HistoryTypeOK, InstallState
<1> QED
  BY <1>1, Still DEF InstallCheck, IInv, TypeOK

LEMMA UninstallStartKeeps ==
  ASSUME IInv, UninstallStart
  PROVE  IInv'
<1>1. ShellTypeOK'
  BY Sorts DEF UninstallStart, IInv, TypeOK, ShellTypeOK, InstallState, NoScript
<1> QED
  BY <1>1, Still DEF UninstallStart, IInv, TypeOK
LEMMA InstallKeeps ==
  ASSUME IInv, InstallStep
  PROVE  IInv'
<1>1. /\ inst \in InstallState /\ NoScript \in InstallState
      /\ uninst \in {"idle", "kill", "erase", "flash", "done"}
      /\ power \in {"boot", "up"}
  BY Sorts DEF IInv, TypeOK, ShellTypeOK, InstallState, NoScript
<1>2. "install" \in Processes
  BY DEF Processes
<1>3. ASSUME NEW f \in {"reader", "startup"}, InstallTruncates(f)
      PROVE  IInv'
  <2>1. FilesTypeOK' /\ ShellTypeOK'
    BY <1>1, <1>3
       DEF InstallTruncates, JffsBusy, IInv, TypeOK, FilesTypeOK, ShellTypeOK, InstallState
  <2> QED
    BY <1>3, <2>1, Still DEF InstallTruncates, IInv, TypeOK
<1>4. ASSUME NEW f \in {"reader", "startup"}, InstallFetched(f)
      PROVE  IInv'
  <2>1. FilesTypeOK'
    BY <1>4 DEF InstallFetched, IInv, TypeOK, FilesTypeOK
  <2>2. inst' \in {NoScript, [inst EXCEPT !.pc = JffsAfter[f]]}
    BY <1>4 DEF InstallFetched
  <2>3. ShellTypeOK'
    BY <1>1, <1>4, <2>2 DEF InstallFetched, JffsAfter, ShellTypeOK, InstallState
  <2> QED
    BY <1>4, <2>1, <2>3, Still DEF InstallFetched, IInv, TypeOK
<1>5. CASE InstallWriter
  <2>1. tmp' \in {[tmp EXCEPT !["writer"] = inst.build], [tmp EXCEPT !["writer"] = None]}
    BY <1>5 DEF InstallWriter
  <2>2. FilesTypeOK'
    BY <1>1, <1>5, <2>1, Sorts
       DEF InstallWriter, IInv, TypeOK, FilesTypeOK, InstallState
  <2>3. inst' \in {NoScript, [inst EXCEPT !.pc = "startup"]}
    BY <1>5 DEF InstallWriter
  <2>4. ShellTypeOK'
    BY <1>1, <1>5, <2>3 DEF InstallWriter, ShellTypeOK, InstallState
  <2> QED
    BY <1>5, <2>2, <2>4, Still DEF InstallWriter, IInv, TypeOK
<1>6. CASE InstallWrites
  <2> DEFINE new == IF Usable("writer") THEN EraseWrite(inst.build)
                    ELSE [IdleJob EXCEPT !.op = "fail"]
  <2>1. inst.build \in Copy
    BY <1>1 DEF InstallState
  <2>2. /\ new \in JobState /\ new.op # "write"
        /\ new.op = "erase" => flash[1] # Foreign
    <3>1. [IdleJob EXCEPT !.op = "fail"].op = "fail"
      BY DEF IdleJob
    <3> QED
      BY <2>1, <3>1, EraseWriteSafe, IdleSafe
  <2>3. UNCHANGED flash /\ job' \in {job, [job EXCEPT !["install"] = new]}
    BY <1>6 DEF InstallWrites
  <2>4. FlashTypeOK' /\ NoneOverForeign' /\ HasSource'
    <3> HIDE DEF new
    <3>1. CASE UNCHANGED job
      BY <2>3, <3>1, Still DEF IInv, TypeOK, flashVars
    <3>2. CASE job' = [job EXCEPT !["install"] = new]
      BY <1>2, <2>2, <2>3, <3>2, NewJob
    <3> QED
      BY <2>3, <3>1, <3>2
  <2>5. inst' \in {NoScript, [inst EXCEPT !.pc = "flash"]}
    BY <1>6 DEF InstallWrites
  <2>6. ShellTypeOK'
    BY <1>1, <1>6, <2>5 DEF InstallWrites, ShellTypeOK, InstallState
  <2> QED
    BY <1>6, <2>4, <2>6, Still DEF InstallWrites, IInv, TypeOK
<1>7. CASE InstallWritten
  <2>1. FlashTypeOK' /\ NoneOverForeign' /\ HasSource'
    <3>1. IdleJob \in JobState /\ IdleJob.op = "idle"
      BY BlocksAssumption, Sorts DEF IdleJob, JobState
    <3> QED
      BY <1>2, <1>7, <3>1, NewJob DEF InstallWritten
  <2>2. ShellTypeOK'
    BY <1>1, <1>7 DEF InstallWritten, ShellTypeOK, InstallState
  <2> QED
    BY <1>7, <2>1, <2>2, Still DEF InstallWritten, IInv, TypeOK
<1>8. CASE InstallLaunches
  <2>1. FilesTypeOK' /\ WatchdogTypeOK' /\ BelowTrip'
    <3>1. CASE Startup
      BY <1>8, <3>1, StartupKeeps DEF InstallLaunches
    <3>2. CASE UNCHANGED <<tmp, wd>>
      BY <1>8, <3>2, Still DEF InstallLaunches, IInv, TypeOK, filesVars
    <3> QED
      BY <1>8, <3>1, <3>2 DEF InstallLaunches
  <2>2. ShellTypeOK'
    BY <1>1, <1>8 DEF InstallLaunches, ShellTypeOK, InstallState
  <2> QED
    BY <1>8, <2>1, <2>2, Still DEF InstallLaunches, IInv, TypeOK
<1> QED
  BY <1>3, <1>4, <1>5, <1>6, <1>7, <1>8 DEF InstallStep

LEMMA UninstallKeeps ==
  ASSUME IInv, UninstallStep
  PROVE  IInv'
<1>1. CASE UninstallKills
  <2>1. PICK q \in [Watchdogs -> Quick] :
          wd' = [w \in Watchdogs |-> IF Running(w) THEN SessionOver(wd[w], q[w]) ELSE wd[w]]
    BY <1>1 DEF UninstallKills
  <2>2. ASSUME NEW w \in Watchdogs
        PROVE  wd'[w] \in WatchdogState /\ (wd'[w].fails = 3 => wd'[w].pc = "stopped")
    <3>1. wd[w] \in WatchdogState /\ (wd[w].fails = 3 => wd[w].pc = "stopped")
      BY DEF IInv, TypeOK, WatchdogTypeOK, BelowTrip
    <3>2. CASE Running(w)
      BY <2>1, <3>1, <3>2, OverIsTyped DEF Running, Quick
    <3>3. CASE ~Running(w)
      BY <2>1, <3>1, <3>3
    <3> QED
      BY <3>2, <3>3
  <2>3. WatchdogTypeOK' /\ BelowTrip'
    BY <2>1, <2>2 DEF WatchdogTypeOK, BelowTrip
  <2>4. UpdateTypeOK' /\ ShellTypeOK'
    BY <1>1, Sorts
       DEF UninstallKills, IInv, TypeOK, UpdateTypeOK, ShellTypeOK, StagerState, NoScript
  <2> QED
    BY <1>1, <2>3, <2>4, Still DEF UninstallKills, IInv, TypeOK
<1>2. CASE UninstallErases
  <2>1. /\ "uninstall" \in Processes
        /\ EraseOnly \in JobState /\ EraseOnly.op # "write"
    BY BlocksAssumption, Sorts DEF Processes, EraseOnly, JobState
  <2>2. FlashTypeOK' /\ NoneOverForeign' /\ HasSource'
    BY <1>2, <2>1, NewJob DEF UninstallErases
  <2>3. ShellTypeOK'
    BY <1>2 DEF UninstallErases, IInv, TypeOK, ShellTypeOK
  <2> QED
    BY <1>2, <2>2, <2>3, Still DEF UninstallErases, IInv, TypeOK
<1>3. CASE UninstallDone
  <2>1. /\ "uninstall" \in Processes
        /\ IdleJob \in JobState /\ IdleJob.op = "idle"
    BY BlocksAssumption, Sorts DEF Processes, IdleJob, JobState
  <2>2. FlashTypeOK' /\ NoneOverForeign' /\ HasSource'
    BY <1>3, <2>1, NewJob DEF UninstallDone
  <2>3. ShellTypeOK'
    BY <1>3 DEF UninstallDone, IInv, TypeOK, ShellTypeOK
  <2> QED
    BY <1>3, <2>2, <2>3, Still DEF UninstallDone, IInv, TypeOK
<1> QED
  BY <1>1, <1>2, <1>3 DEF UninstallStep

--------------------------------------------------------------------------------
LEMMA Inductive ==
  ASSUME IInv, [Next]_vars
  PROVE  IInv'
<1>1. CASE ScriptStep
  BY <1>1, WatchdogKeeps, ListenKeeps, FlashKeeps, StagerKeeps, InstallKeeps,
     UninstallKeeps, BootHookKeeps DEF ScriptStep
<1>2. CASE OperatorStep
  BY <1>2, DaemonKeeps, InstallCheckKeeps, UninstallStartKeeps, VanishKeeps,
     PowerCutKeeps DEF OperatorStep
<1>3. CASE UNCHANGED vars
  BY <1>3, Still DEF vars, IInv, TypeOK
<1> QED
  BY <1>1, <1>2, <1>3 DEF Next

\* Every variable of the appliance keeps its type; the count of the breaker never
\* passes three, and no flash block is ever programmed from a missing file.
THEOREM TypeCorrect == Spec => []TypeOK
<1>1. IInv => TypeOK
  BY DEF IInv
<1> QED
  BY <1>1, Initially, Inductive, PTL DEF Spec

\* Bytes that are not ours are erased by uninstall.sh only: no step of anything
\* else changes a region that starts with them.
ForeignKept == [][flash[1] = Foreign /\ ~Writing("uninstall") => flash' = flash]_vars

\* Whatever runs beside what, and however often it is cut short: bytes in the
\* region that are not ours are erased by uninstall.sh only.
THEOREM ForeignIsKept == Spec => ForeignKept
<1>1. ASSUME IInv, [Next]_vars
      PROVE  [flash[1] = Foreign /\ ~Writing("uninstall") => flash' = flash]_vars
  <2>1. ASSUME NEW p \in Processes, FlashStep(p), flash[1] = Foreign,
               ~Writing("uninstall")
        PROVE  flash' = flash
    <3>1. ~Writing(p)
      BY <1>1, <2>1 DEF IInv, NoneOverForeign
    <3> QED
      BY <2>1, <3>1 DEF FlashStep, EraseBlock, EraseChecked, WriteBlock, WriteChecked, GivesUp,
         Writing
  <2>2. CASE ScriptStep
    <3>1. (\E p \in Processes : FlashStep(p)) \/ UNCHANGED flash
      BY <2>2 DEF ScriptStep, WatchdogStep, Top, CopyStaged, WriteStaged, RemoveMarkers,
         RemoveStaging, EnsureFiles, Launch, Wake, Listen, StagerStep, InstallStep,
         InstallTruncates, InstallFetched, InstallWriter, InstallWrites, InstallWritten,
         InstallLaunches, UninstallStep, UninstallKills, UninstallErases, UninstallDone,
         BootHook, flashVars
    <3> QED
      BY <2>1, <3>1
  <2>3. CASE OperatorStep
    BY <2>3 DEF OperatorStep, SessionEnds, UpdateDo, UpdateApply, UpdateDiscard,
       InstallCheck, UninstallStart, Vanish, PowerCut, flashVars
  <2>4. CASE UNCHANGED vars
    BY <2>4 DEF vars
  <2> QED
    BY <1>1, <2>2, <2>3, <2>4 DEF Next
<1> QED
  BY <1>1, Initially, Inductive, PTL DEF Spec, ForeignKept

--------------------------------------------------------------------------------
(* One supervisor *)

\* One supervisor at a time: two can overtake each other's markers.
OneWatchdog == \A w, x \in Watchdogs : w = x

--------------------------------------------------------------------------------
(* What the steps do to the watchdogs *)

\* Only watchdog w moves, to this pc.
MovesTo(w, pc) ==
  /\ wd'[w].pc = pc
  /\ \A x \in Watchdogs : x # w => wd'[x] = wd[x]

\* The session of watchdog w is over.
Ends(w) == MovesTo(w, "sleep") \/ MovesTo(w, "stopped")

\* Nothing but a boot, an installation or a cut of the power starts or ends a watchdog
\* process, and nothing else moves more than one.
LEMMA WatchdogMoves ==
  ASSUME TypeOK, NEW w \in Watchdogs
  PROVE  /\ Top(w) => MovesTo(w, IF ready /\ confirmed THEN "cp_client" ELSE "ensure")
         /\ CopyStaged(w) => MovesTo(w, AfterCopy[wd[w].pc])
         /\ WriteStaged(w) => MovesTo(w, "flash")
         /\ RemoveMarkers(w) => MovesTo(w, "clean")
         /\ RemoveStaging(w) => MovesTo(w, "ensure")
         /\ EnsureFiles(w) => MovesTo(w, "run")
         /\ Launch(w) => MovesTo(w, "login") \/ Ends(w)
         /\ Wake(w) => MovesTo(w, "top")
         /\ Listen(w) => MovesTo(w, "serve") \/ Ends(w)
         /\ SessionEnds(w) \/ UpdateApply(w) => Ends(w)
<1>1. ASSUME NEW pc, wd' = [wd EXCEPT ![w].pc = pc]
      PROVE  MovesTo(w, pc)
  BY <1>1 DEF TypeOK, WatchdogTypeOK, WatchdogState, MovesTo
<1>2. ASSUME NEW q, wd' = [wd EXCEPT ![w] = SessionOver(wd[w], q)]
      PROVE  Ends(w)
  BY <1>2 DEF TypeOK, WatchdogTypeOK, SessionOver, MovesTo, Ends
<1>3. Top(w) => MovesTo(w, IF ready /\ confirmed THEN "cp_client" ELSE "ensure")
  BY <1>1 DEF Top
<1>4. CopyStaged(w) => MovesTo(w, AfterCopy[wd[w].pc])
  BY <1>1 DEF CopyStaged
<1>5. /\ WriteStaged(w) => MovesTo(w, "flash")
      /\ RemoveMarkers(w) => MovesTo(w, "clean")
      /\ RemoveStaging(w) => MovesTo(w, "ensure")
  BY <1>1 DEF WriteStaged, RemoveMarkers, RemoveStaging
<1>6. /\ EnsureFiles(w) => MovesTo(w, "run")
      /\ Wake(w) => MovesTo(w, "top")
  BY <1>1 DEF EnsureFiles, Wake
<1>7. Launch(w) => MovesTo(w, "login") \/ Ends(w)
  <2> DEFINE login == [wd[w] EXCEPT !.pc = "login", !.run = tmp["client"]]
  <2>1. login.pc = "login"
    BY DEF TypeOK, WatchdogTypeOK, WatchdogState
  <2>2. Launch(w) => \/ wd' = [wd EXCEPT ![w] = login]
                     \/ wd' = [wd EXCEPT ![w] = SessionOver(wd[w], TRUE)]
    BY DEF Launch
  <2>3. wd' = [wd EXCEPT ![w] = login] => MovesTo(w, "login")
    <3> HIDE DEF login
    <3> QED
      BY <2>1 DEF TypeOK, WatchdogTypeOK, MovesTo
  <2> QED
    BY <1>2, <2>2, <2>3
<1>8. /\ Listen(w) => MovesTo(w, "serve") \/ Ends(w)
      /\ SessionEnds(w) \/ UpdateApply(w) => Ends(w)
  BY <1>1, <1>2 DEF Listen, SessionEnds, UpdateApply
<1> QED
  BY <1>3, <1>4, <1>5, <1>6, <1>7, <1>8

LEMMA StartupMoves ==
  ASSUME TypeOK, Startup
  PROVE  \/ UNCHANGED wd
         \/ \E w \in Watchdogs : /\ ~Alive(w) /\ MovesTo(w, "top")
<1>1. ASSUME NEW w \in Watchdogs, wd' = [wd EXCEPT ![w] = [Off EXCEPT !.pc = "top"]]
      PROVE  MovesTo(w, "top")
  BY <1>1 DEF TypeOK, WatchdogTypeOK, Off, MovesTo
<1> QED
  BY <1>1 DEF Startup

--------------------------------------------------------------------------------
(* The staging of an update *)

\* One supervisor, and nobody stages anew over an update that is marked ready.
OneUpdate == OneWatchdog /\ "restage" \notin Activity

Applying(w) == wd[w].pc \in {"cp_client", "cp_kmem", "cp_patched", "write"}

\* Nothing is staged, or a bundle and the files that were unpacked from it.
Verified == stage.env # Bad /\ stage.ext = stage.env

\* What the staging child has established at each point -- while a discard or a
\* new daemon may have removed the directory under it -- and what the markers say.
StagedInv ==
  /\ ~stage.dir => stage = NoStage
  /\ stager.pc # "idle" => stager.build \in Builds
  /\ stager.pc \in {"extract", "selftest"} /\ stage.dir => stage.env = stager.build
  /\ stager.pc = "touch" => Verified
  /\ ready => stager.pc = "idle" /\ Verified
  /\ confirmed => ready
  /\ \A w \in Watchdogs : Applying(w) => ready /\ confirmed

LEMMA NoStageVerified == NoStage.env = None /\ NoStage.ext = None /\ ~NoStage.dir /\ None # Bad
BY DEF NoStage, None, Bad

\* A step that leaves the staging alone, and starts to apply nothing that is not
\* confirmed.
LEMMA StagingAlone ==
  ASSUME StagedInv, UNCHANGED updateVars,
         \A w \in Watchdogs : Applying(w)' => Applying(w) \/ (ready /\ confirmed)
  PROVE  StagedInv'
BY DEF StagedInv, Verified, updateVars

LEMMA MoveApplies ==
  ASSUME NEW w \in Watchdogs, NEW pc, MovesTo(w, pc),
         pc \notin {"cp_client", "cp_kmem", "cp_patched", "write"}
  PROVE  \A x \in Watchdogs : Applying(x)' => Applying(x) /\ x # w
BY DEF MovesTo, Applying

LEMMA EndApplies ==
  ASSUME NEW w \in Watchdogs, Ends(w)
  PROVE  \A x \in Watchdogs : Applying(x)' => Applying(x) /\ x # w
BY MoveApplies DEF Ends

LEMMA StagedByWatchdog ==
  ASSUME TypeOK, OneUpdate, StagedInv, NEW w \in Watchdogs, WatchdogStep(w)
  PROVE  StagedInv'
<1>1. CASE Top(w)
  <2>1. \A x \in Watchdogs : Applying(x)' => Applying(x) \/ (ready /\ confirmed)
    BY <1>1, WatchdogMoves DEF MovesTo, Applying
  <2> QED
    BY <1>1, <2>1, StagingAlone DEF Top
<1>2. CASE CopyStaged(w)
  <2>1. Applying(w)
    BY <1>2 DEF CopyStaged, CopyTarget, Applying
  <2>2. ready /\ confirmed
    BY <2>1 DEF StagedInv
  <2> QED
    BY <1>2, <2>2, StagingAlone DEF CopyStaged
<1>3. CASE WriteStaged(w) \/ EnsureFiles(w) \/ Wake(w)
  <2>1. \A x \in Watchdogs : Applying(x)' => Applying(x)
    BY <1>3, WatchdogMoves, MoveApplies
  <2> QED
    BY <1>3, <2>1, StagingAlone DEF WriteStaged, EnsureFiles, Wake
<1>4. CASE Launch(w)
  <2>1. \A x \in Watchdogs : Applying(x)' => Applying(x)
    BY <1>4, WatchdogMoves, MoveApplies, EndApplies
  <2> QED
    BY <1>4, <2>1, StagingAlone DEF Launch
<1>5. CASE RemoveMarkers(w)
  <2>1. \A x \in Watchdogs : ~Applying(x)'
    BY <1>5, WatchdogMoves, MoveApplies DEF OneUpdate, OneWatchdog
  <2> QED
    BY <1>5, <2>1 DEF RemoveMarkers, StagedInv, Verified
<1>6. CASE RemoveStaging(w)
  <2>1. \A x \in Watchdogs : Applying(x)' => Applying(x)
    BY <1>6, WatchdogMoves, MoveApplies
  <2> QED
    BY <1>6, <2>1, NoStageVerified DEF RemoveStaging, StagedInv, Verified
<1> QED
  BY <1>1, <1>2, <1>3, <1>4, <1>5, <1>6 DEF WatchdogStep

LEMMA StagedByDaemon ==
  ASSUME TypeOK, OneUpdate, StagedInv, NEW w \in Watchdogs,
         \/ Listen(w) \/ SessionEnds(w) \/ UpdateApply(w) \/ UpdateDiscard(w)
         \/ \E v \in Builds : UpdateDo(w, v)
  PROVE  StagedInv'
<1>1. CASE Listen(w)
  <2>1. \A x \in Watchdogs : Applying(x)' => Applying(x)
    BY <1>1, WatchdogMoves, MoveApplies, EndApplies
  <2>2. (stage' = stage \/ (~ready /\ stage' = NoStage)) /\ UNCHANGED <<ready, confirmed, stager>>
    BY <1>1 DEF Listen
  <2> QED
    BY <2>1, <2>2, NoStageVerified DEF StagedInv, Verified
<1>2. CASE SessionEnds(w)
  <2>1. \A x \in Watchdogs : Applying(x)' => Applying(x)
    BY <1>2, WatchdogMoves, EndApplies
  <2> QED
    BY <1>2, <2>1, StagingAlone DEF SessionEnds
<1>3. CASE UpdateApply(w)
  <2>1. \A x \in Watchdogs : Applying(x)' => Applying(x)
    BY <1>3, WatchdogMoves, EndApplies
  <2> QED
    BY <1>3, <2>1 DEF UpdateApply, StagedInv, Verified
<1>4. CASE UpdateDiscard(w)
  <2>1. \A x \in Watchdogs : ~Applying(x)'
    BY <1>4 DEF UpdateDiscard, OneUpdate, OneWatchdog, Applying
  <2> QED
    BY <1>4, <2>1, NoStageVerified DEF UpdateDiscard, StagedInv, Verified
<1>5. CASE \E v \in Builds : UpdateDo(w, v)
  <2>1. ~ready /\ ready' = ready /\ confirmed' = confirmed /\ wd' = wd
    BY <1>5 DEF UpdateDo, OneUpdate
  <2>2. stage'.dir /\ stager'.pc = "fetch" /\ stager'.build \in Builds
    BY <1>5 DEF UpdateDo
  <2> QED
    BY <2>1, <2>2 DEF StagedInv, Applying
<1> QED
  BY <1>1, <1>2, <1>3, <1>4, <1>5

LEMMA StagedByStager ==
  ASSUME TypeOK, StagedInv, StagerStep
  PROVE  StagedInv'
<1>1. /\ UNCHANGED <<wd, confirmed>>
      /\ stage.dir \in BOOLEAN /\ stager \in StagerState
      /\ stage = [dir |-> stage.dir, env |-> stage.env, ext |-> stage.ext]
      /\ NoScript.pc = "idle" /\ Bad \notin Builds
  BY BuildsAssumption DEF StagerStep, TypeOK, UpdateTypeOK, NoScript
<1>2. (\A w \in Watchdogs : Applying(w) => ready /\ confirmed)
        => \A w \in Watchdogs : Applying(w)' => ready /\ confirmed'
  BY <1>1 DEF Applying
<1>3. ASSUME NEW from \in {"fetch", "fetching", "verify", "extract", "selftest"},
             NEW to \in {"fetching", "verify", "extract", "selftest", "touch"},
             NEW staging, StagerAt(from, to, staging), staging.dir,
             to \in {"extract", "selftest"} => staging.env = stager.build,
             to = "touch" => staging.env # Bad /\ staging.ext = staging.env
      PROVE  StagedInv'
  <2>1. stager'.pc = to /\ stager'.build = stager.build
    BY <1>1, <1>3 DEF StagerAt, StagerState
  <2>2. stager.pc = from /\ stage' = staging /\ ready' = ready
    BY <1>3 DEF StagerAt
  <2> QED
    BY <1>1, <1>2, <1>3, <2>1, <2>2 DEF StagedInv, Verified
<1>4. CASE StagerFetches
  BY <1>1, <1>3, <1>4 DEF StagerFetches, StagerAt
<1>5. CASE StagerFetched
  BY <1>1, <1>3, <1>5 DEF StagerFetched, StagerAt
<1>6. CASE StagerVerified
  <2>1. stage.env = stager.build /\ stage.dir /\ StagerAt("verify", "extract", [stage EXCEPT !.ext = Bad])
    BY <1>6 DEF StagerVerified, StagerAt
  <2>2. [stage EXCEPT !.ext = Bad].dir /\ [stage EXCEPT !.ext = Bad].env = stage.env
    BY <1>1, <2>1
  <2> QED
    BY <1>3, <2>1, <2>2
<1>7. CASE StagerExtracts
  <2>1. stage.dir /\ StagerAt("extract", "selftest", [stage EXCEPT !.ext = stager.build])
    BY <1>7 DEF StagerExtracts, StagerAt
  <2>2. stage.env = stager.build
    BY <2>1 DEF StagedInv, StagerAt
  <2>3. /\ [stage EXCEPT !.ext = stager.build].dir
        /\ [stage EXCEPT !.ext = stager.build].env = stage.env
    BY <1>1, <2>1
  <2> QED
    BY <1>3, <2>1, <2>2, <2>3
<1>8. CASE StagerTested
  <2>1. stage.dir /\ stage.ext = stager.build /\ StagerAt("selftest", "touch", stage)
    BY <1>8 DEF StagerTested, StagerAt
  <2>2. stage.env = stager.build /\ stager.build \in Builds
    BY <2>1 DEF StagedInv, StagerAt
  <2> QED
    BY <1>1, <1>3, <2>1, <2>2
<1>9. CASE StagerTouches
  BY <1>1, <1>2, <1>9 DEF StagerTouches, StagedInv, Verified
<1>10. CASE StagerFails
  <2>1. stager'.pc = "idle" /\ ready' = ready
    BY <1>1, <1>10 DEF StagerFails
  <2>2. stage' = stage \/ (stage.dir /\ stager.pc = "fetching" /\ stage' = [stage EXCEPT !.env = None])
    BY <1>10 DEF StagerFails
  <2>3. [stage EXCEPT !.env = None].dir = stage.dir
    BY <1>1
  <2> QED
    BY <1>1, <1>2, <2>1, <2>2, <2>3 DEF StagedInv, Verified
<1> QED
  BY <1>4, <1>5, <1>6, <1>7, <1>8, <1>9, <1>10 DEF StagerStep

LEMMA StartupApplies ==
  ASSUME TypeOK, Startup \/ UNCHANGED <<tmp, wd>>
  PROVE  \A w \in Watchdogs : Applying(w)' => Applying(w)
BY StartupMoves, MoveApplies DEF Applying

LEMMA StagedInductive ==
  ASSUME TypeOK, OneUpdate, StagedInv, [Next]_vars
  PROVE  StagedInv'
<1>1. CASE \E w \in Watchdogs : WatchdogStep(w) \/ Listen(w)
  BY <1>1, StagedByWatchdog, StagedByDaemon
<1>2. CASE \E p \in Processes : FlashStep(p)
  BY <1>2, StagingAlone DEF FlashStep, Applying
<1>3. CASE StagerStep
  BY <1>3, StagedByStager
<1>4. CASE InstallStep \/ BootHook
  <2>1. UNCHANGED updateVars /\ (Startup \/ UNCHANGED wd)
    BY <1>4 DEF InstallStep, BootHook, InstallTruncates, InstallFetched, InstallWriter,
       InstallWrites, InstallWritten, InstallLaunches
  <2>2. \A w \in Watchdogs : Applying(w)' => Applying(w)
    BY <2>1, StartupMoves, MoveApplies DEF Applying
  <2> QED
    BY <2>1, <2>2, StagingAlone
<1>5. CASE UninstallKills
  <2>1. /\ UNCHANGED <<stage, ready, confirmed>>
        /\ stager'.pc = "idle"
    BY <1>5 DEF UninstallKills, NoScript
  <2>2. \A w \in Watchdogs : Applying(w)' => Applying(w)
    BY <1>5 DEF UninstallKills, SessionOver, Applying
  <2> QED
    BY <2>1, <2>2 DEF StagedInv, Verified
<1>6. CASE UninstallErases \/ UninstallDone
  BY <1>6, StagingAlone DEF UninstallErases, UninstallDone, Applying
<1>7. CASE \E w \in Watchdogs : \/ SessionEnds(w) \/ UpdateApply(w) \/ UpdateDiscard(w)
                               \/ \E v \in Builds : UpdateDo(w, v)
  BY <1>7, StagedByDaemon
<1>8. CASE (\E v \in Builds : InstallCheck(v)) \/ UninstallStart \/ Vanish
  BY <1>8, StagingAlone DEF InstallCheck, UninstallStart, Vanish, Applying
<1>9. CASE PowerCut
  <2>1. /\ stage' = NoStage /\ ready' = FALSE /\ confirmed' = FALSE
        /\ stager'.pc = "idle" /\ \A w \in Watchdogs : ~Applying(w)'
    BY <1>9 DEF PowerCut, NoScript, Off, Applying
  <2> QED
    BY <2>1 DEF StagedInv
<1>10. CASE UNCHANGED vars
  BY <1>10, StagingAlone DEF vars, Applying
<1> QED
  BY <1>1, <1>2, <1>3, <1>4, <1>5, <1>6, <1>7, <1>8, <1>9, <1>10
     DEF Next, ScriptStep, OperatorStep, UninstallStep

LEMMA StagedInitially == Init => StagedInv
<1> SUFFICES ASSUME Init PROVE StagedInv
  OBVIOUS
<1>1. /\ stage = NoStage /\ ~ready /\ ~confirmed /\ stager.pc = "idle"
      /\ \A w \in Watchdogs : ~Applying(w)
  BY DEF Init, NoScript, Off, Applying
<1> QED
  BY <1>1 DEF StagedInv

LEMMA StagedAlways == OneUpdate /\ Spec => []StagedInv
<1>1. IInv => TypeOK
  BY DEF IInv
<1>2. TypeOK /\ OneUpdate /\ StagedInv /\ [Next]_vars => StagedInv'
  BY StagedInductive
<1>3. OneUpdate /\ Spec => []TypeOK /\ []StagedInv
  <2> SUFFICES ASSUME OneUpdate PROVE Spec => []TypeOK /\ []StagedInv
    OBVIOUS
  <2> QED
    BY <1>1, <1>2, Initially, Inductive, StagedInitially, PTL DEF Spec
<1> QED
  BY <1>3, PTL

\* With one supervisor, and unless somebody stages over an update that is marked
\* ready: whatever is discarded, killed, restarted or cut off between the checks of
\* the staging child, the second marker and the copies, the watchdog only copies
\* and writes what has passed every check, or nothing.
THEOREM OnlyVerifiedIsApplied == OneUpdate /\ Spec => []AppliesVerified
<1>1. StagedInv => AppliesVerified
  BY DEF StagedInv, AppliesVerified, CopyTarget, Applying, Verified
<1> QED
  BY <1>1, StagedAlways, PTL

--------------------------------------------------------------------------------
(* Where the bytes come from *)

ApprovedStage   == confirmed => stage.env \in approved \cup {None} /\ stage.ext \in approved \cup {None}
ApprovedFiles   == \A f \in Files : tmp[f] \in approved \cup {None, Bad}
ApprovedFlash   == \A b \in Blocks : flash[b] \in approved \cup {Bad, Blank, Foreign}
ApprovedJobs    == \A p \in Processes : Writing(p) => job[p].src \in approved \cup {None}
ApprovedInstall == inst.pc # "idle" => inst.build \in approved

\* Every place a build can be copied from holds approved bytes only.
ApprovedInv == ApprovedStage /\ ApprovedFiles /\ ApprovedFlash /\ ApprovedJobs /\ ApprovedInstall

\* Approval is never taken back, so a step need only look at what it changes.
LEMMA ApprovedAlone ==
  ASSUME ApprovedInv, approved \subseteq approved'
  PROVE  /\ UNCHANGED <<stage, confirmed>> \/ ~confirmed' => ApprovedStage'
         /\ UNCHANGED tmp => ApprovedFiles'
         /\ UNCHANGED flash => ApprovedFlash'
         /\ UNCHANGED job => ApprovedJobs'
         /\ UNCHANGED inst => ApprovedInstall'
BY DEF ApprovedInv, ApprovedStage, ApprovedFiles, ApprovedFlash, ApprovedJobs, Writing, ApprovedInstall

LEMMA EraseWriteSource ==
  \A src : EraseWrite(src).src = src /\ EraseWrite(src).op # "write"
BY DEF EraseWrite

LEMMA NewJobApproved ==
  ASSUME TypeOK, ApprovedInv, approved \subseteq approved', NEW p \in Processes, NEW j,
         j.op \notin {"erase", "write"} \/ j.src \in approved' \cup {None},
         job' = [job EXCEPT ![p] = j]
  PROVE  ApprovedJobs'
BY DEF TypeOK, FlashTypeOK, ApprovedInv, ApprovedJobs, Writing

LEMMA ApprovedByWatchdog ==
  ASSUME TypeOK, StagedInv, ApprovedInv, NEW w \in Watchdogs, WatchdogStep(w)
  PROVE  ApprovedInv'
<1> USE DEF ApprovedInv
<1>1. w \in Processes /\ IdleJob.op = "idle"
  BY DEF Processes, IdleJob
<1>2. CASE Top(w) \/ Launch(w) \/ Wake(w)
  <2>1. UNCHANGED <<approved, stage, confirmed, tmp, flash, job, inst>>
    BY <1>2 DEF Top, Launch, Wake, flashVars, filesVars, updateVars, shellVars, history
  <2> QED
    BY <2>1, ApprovedAlone
<1>3. CASE CopyStaged(w)
  <2>1. UNCHANGED <<approved, stage, confirmed, flash, job, inst>>
    BY <1>3 DEF CopyStaged, flashVars, updateVars, shellVars, history
  <2>2. stage.ext \in approved \cup {None}
    <3>1. Applying(w)
      BY <1>3 DEF CopyStaged, CopyTarget, Applying
    <3> QED
      BY <3>1 DEF StagedInv, ApprovedStage
  <2>3. \E f : \E c \in {stage.ext, tmp[f], Bad} : tmp' = [tmp EXCEPT ![f] = c]
    BY <1>3 DEF CopyStaged
  <2>4. ApprovedFiles'
    BY <2>1, <2>2, <2>3 DEF ApprovedFiles, TypeOK, FilesTypeOK
  <2> QED
    BY <2>1, <2>4, ApprovedAlone
<1>4. CASE WriteStaged(w)
  <2>1. UNCHANGED <<approved, stage, confirmed, tmp, flash, inst>>
    BY <1>4 DEF WriteStaged, filesVars, updateVars, shellVars, history
  <2>2. stage.env \in approved \cup {None}
    BY <1>4 DEF WriteStaged, StagedInv, Applying, ApprovedStage
  <2> DEFINE j == IF Usable("writer") THEN EraseWrite(stage.env) ELSE [IdleJob EXCEPT !.op = "fail"]
  <2>3. j.op \notin {"erase", "write"} \/ j.src \in approved' \cup {None}
    <3>1. [IdleJob EXCEPT !.op = "fail"].op = "fail"
      BY DEF IdleJob
    <3> QED
      BY <2>1, <2>2, <3>1, EraseWriteSource
  <2>4. job' = [job EXCEPT ![w] = j]
    BY <1>4 DEF WriteStaged
  <2>5. ApprovedJobs'
    <3> HIDE DEF j, ApprovedInv
    <3> QED
      BY <1>1, <2>1, <2>3, <2>4, NewJobApproved
  <2> QED
    BY <2>1, <2>5, ApprovedAlone
<1>5. CASE RemoveMarkers(w)
  <2>1. UNCHANGED <<approved, tmp, flash, inst>> /\ ~confirmed' /\ job' = [job EXCEPT ![w] = IdleJob]
    BY <1>5 DEF RemoveMarkers, filesVars, shellVars, history
  <2>2. ApprovedJobs'
    <3> HIDE DEF ApprovedInv
    <3> QED
      BY <1>1, <2>1, NewJobApproved
  <2> QED
    BY <2>1, <2>2, ApprovedAlone
<1>6. CASE RemoveStaging(w)
  <2>1. UNCHANGED <<approved, tmp, flash, job, inst>> /\ stage' = NoStage
    BY <1>6 DEF RemoveStaging, flashVars, filesVars, shellVars, history
  <2> QED
    BY <2>1, ApprovedAlone, NoStageVerified DEF ApprovedStage
<1>7. CASE EnsureFiles(w)
  <2>1. /\ UNCHANGED <<stage, confirmed, flash, job, inst>>
        /\ approved \subseteq approved'
        /\ ApprovedFiles'
    BY <1>7 DEF EnsureFiles, flashVars, updateVars, shellVars, ApprovedFiles
  <2> QED
    BY <2>1, ApprovedAlone
<1> QED
  BY <1>2, <1>3, <1>4, <1>5, <1>6, <1>7 DEF WatchdogStep

LEMMA ApprovedByDaemon ==
  ASSUME TypeOK, StagedInv, ApprovedInv, NEW w \in Watchdogs,
         \/ Listen(w) \/ SessionEnds(w) \/ UpdateApply(w) \/ UpdateDiscard(w)
         \/ OneUpdate /\ \E v \in Builds : UpdateDo(w, v)
  PROVE  ApprovedInv'
<1> USE DEF ApprovedInv
<1>1. UNCHANGED <<tmp, flash, job, inst>> /\ approved \subseteq approved'
  BY DEF Listen, SessionEnds, UpdateApply, UpdateDiscard, UpdateDo, flashVars, filesVars,
         shellVars, history
<1>2. ApprovedStage'
  <2>1. CASE Listen(w) \/ SessionEnds(w)
    <3>1. UNCHANGED <<confirmed, approved>> /\ stage' \in {stage, NoStage}
      BY <2>1 DEF Listen, SessionEnds, updateVars, history
    <3> QED
      BY <3>1, NoStageVerified DEF ApprovedStage
  <2>2. CASE UpdateApply(w)
    <3>1. /\ ready /\ stage' = stage
          /\ approved' = approved \cup (Builds \cap {stage.env, stage.ext})
      BY <2>2 DEF UpdateApply
    <3>2. stage.env \in Builds \cup {None} /\ stage.ext = stage.env
      BY <3>1 DEF StagedInv, Verified, TypeOK, UpdateTypeOK, Copy
    <3> QED
      BY <3>1, <3>2 DEF ApprovedStage
  <2>3. CASE UpdateDiscard(w)
    BY <1>1, <2>3, ApprovedAlone DEF UpdateDiscard
  <2>4. CASE OneUpdate /\ \E v \in Builds : UpdateDo(w, v)
    <3>1. ~confirmed /\ confirmed' = confirmed
      BY <2>4 DEF UpdateDo, OneUpdate, StagedInv
    <3> QED
      BY <1>1, <3>1, ApprovedAlone
  <2> QED
    BY <2>1, <2>2, <2>3, <2>4
<1> QED
  BY <1>1, <1>2, ApprovedAlone

LEMMA ApprovedByTools ==
  ASSUME IInv, ApprovedInv, NEW p \in Processes, FlashStep(p)
  PROVE  ApprovedInv'
<1> USE DEF ApprovedInv
<1>1. /\ UNCHANGED <<approved, stage, confirmed, tmp, inst>>
      /\ job \in [Processes -> JobState] /\ flash \in [Blocks -> Cell]
  BY DEF FlashStep, filesVars, updateVars, shellVars, IInv, TypeOK, FlashTypeOK
<1>2. Writing(p) /\ job[p].src \in approved \cup {None}
  BY DEF FlashStep, EraseBlock, EraseChecked, WriteBlock, WriteChecked, GivesUp, Writing,
         ApprovedJobs
<1>3. ApprovedJobs'
  <2>1. \A q \in Processes : job'[q].src = job[q].src /\ (q # p => job'[q] = job[q])
    BY ToolJobs DEF IInv, TypeOK
  <2> QED
    BY <1>1, <1>2, <2>1 DEF ApprovedJobs, Writing
<1>4. ApprovedFlash'
  <2>1. CASE EraseBlock(p)
    <3>1. \A b \in Blocks : flash'[b] \in {flash[b], Blank}
      BY <1>1, <2>1 DEF EraseBlock, Attempt
    <3> QED
      BY <1>1, <3>1 DEF ApprovedFlash
  <2>2. CASE WriteBlock(p)
    <3>1. job[p].src \in approved
      BY <1>2, <2>2 DEF WriteBlock, IInv, HasSource
    <3>2. \A b \in Blocks : flash'[b] \in {flash[b], job[p].src, Bad}
      BY <1>1, <2>2 DEF WriteBlock, Attempt
    <3> QED
      BY <1>1, <3>1, <3>2 DEF ApprovedFlash
  <2>3. CASE EraseChecked(p) \/ WriteChecked(p) \/ GivesUp(p)
    BY <1>1, <2>3, ApprovedAlone DEF EraseChecked, WriteChecked, GivesUp
  <2> QED
    BY <2>1, <2>2, <2>3 DEF FlashStep
<1> QED
  BY <1>1, <1>3, <1>4, ApprovedAlone

\* What startup.sh unpacks is what the flash holds, or was read from it before.
LEMMA ApprovedByStartup ==
  ASSUME TypeOK, ApprovedInv, Startup, UNCHANGED approved
  PROVE  ApprovedFiles'
<1>1. PICK cut \in Cuts(TarAfterRead) : Startup!(cut)
  BY DEF Startup
<1>2. 1 \in Blocks /\ "tar" \in Files
  BY Sorts DEF Files
<1>3. /\ tmp["tar"] \in approved \cup {None, Bad}
      /\ flash[1] \in approved \cup {Bad, Blank, Foreign}
      /\ approved \subseteq Builds /\ Builds \cap {None, Bad, Blank, Foreign} = {}
  BY <1>2, BuildsAssumption DEF ApprovedInv, ApprovedFiles, ApprovedFlash, TypeOK, HistoryTypeOK
<1>4. TarAfterRead \in approved \cup {None, Bad}
  <2>1. ASSUME NEW v \in Builds, Whole(v)
        PROVE  flash[1] = v
    BY <1>2, <2>1 DEF Whole
  <2> QED
    BY <1>3, <2>1 DEF TarAfterRead
<1>5. \A f \in Files : Extracted(TarAfterRead, cut)[f] \in approved \cup {None, Bad}
  <2> DEFINE tar == TarAfterRead
             source == IF tar \in Builds THEN tar ELSE flash[1]
             i(f)   == CHOOSE n \in 1..5 : BundleOrder[n] = f
             File(f) == CASE f = "tar" -> tar
                          [] f # "tar" /\ source \in Builds /\ i(f) < cut -> source
                          [] f # "tar" /\ source \in Builds /\ i(f) = cut -> Bad
                          [] f = BundleOrder[1] /\ source = Bad /\ cut = 1 -> Bad
                          [] OTHER -> tmp[f]
  <2>1. Extracted(tar, cut) = [f \in Files |-> File(f)]
    BY DEF Extracted
  <2>2. source \in Builds => source \in approved
    BY <1>3, <1>4
  <2>3. ASSUME NEW f \in Files
        PROVE  File(f) \in approved \cup {None, Bad}
    <3>1. tmp[f] \in approved \cup {None, Bad}
      BY DEF ApprovedInv, ApprovedFiles
    <3> HIDE DEF i, source, tar
    <3> QED
      BY <1>4, <2>2, <3>1 DEF tar
  <2> HIDE DEF File
  <2> QED
    BY <2>1, <2>3
<1>6. tmp' \in {tmp, Extracted(TarAfterRead, cut)}
  BY <1>1
<1> QED
  BY <1>5, <1>6 DEF ApprovedInv, ApprovedFiles

LEMMA ApprovedByInstall ==
  ASSUME TypeOK, ApprovedInv, InstallStep \/ BootHook
  PROVE  ApprovedInv'
<1> USE DEF ApprovedInv
<1>1. /\ UNCHANGED <<approved, stage, confirmed, flash>>
      /\ "install" \in Processes
  BY DEF InstallStep, BootHook, InstallTruncates, InstallFetched, InstallWriter, InstallWrites,
         InstallWritten, InstallLaunches, flashVars, filesVars, updateVars, history, Processes
<1>2. ApprovedInstall'
  <2>1. inst' = inst \/ inst'.pc = "idle" \/ (inst.pc # "idle" /\ inst'.build = inst.build)
    BY DEF InstallStep, BootHook, InstallTruncates, InstallFetched, InstallWriter, InstallWrites,
           InstallWritten, InstallLaunches, NoScript, JffsGet, JffsBusy, TypeOK, ShellTypeOK, InstallState
  <2> QED
    BY <1>1, <2>1 DEF ApprovedInstall
<1>3. ApprovedJobs'
  <2>1. CASE UNCHANGED job
    BY <1>1, <2>1, ApprovedAlone
  <2>2. CASE InstallWrites
    <3> DEFINE j == IF Usable("writer") THEN EraseWrite(inst.build) ELSE [IdleJob EXCEPT !.op = "fail"]
    <3>1. j.op \notin {"erase", "write"} \/ j.src \in approved' \cup {None}
      <4>1. [IdleJob EXCEPT !.op = "fail"].op = "fail" /\ inst.build \in approved
        BY <2>2 DEF InstallWrites, IdleJob, ApprovedInstall
      <4> QED
        BY <1>1, <4>1, EraseWriteSource
    <3>2. job' = job \/ job' = [job EXCEPT !["install"] = j]
      BY <2>2 DEF InstallWrites
    <3> HIDE DEF j, ApprovedInv
    <3> QED
      BY <1>1, <3>1, <3>2, <2>1, NewJobApproved
  <2>3. CASE InstallWritten
    <3>1. job' = [job EXCEPT !["install"] = IdleJob] /\ IdleJob.op = "idle"
      BY <2>3 DEF InstallWritten, IdleJob
    <3> HIDE DEF ApprovedInv
    <3> QED
      BY <1>1, <3>1, NewJobApproved
  <2> QED
    BY <2>1, <2>2, <2>3 DEF InstallStep, BootHook, InstallTruncates, InstallFetched,
       InstallWriter, InstallLaunches, flashVars
<1>4. ApprovedFiles'
  <2>1. CASE UNCHANGED tmp
    BY <1>1, <2>1, ApprovedAlone
  <2>2. CASE Startup
    BY <1>1, <2>2, ApprovedByStartup
  <2>3. CASE InstallWriter
    <3>1. inst.build \in approved
      BY <2>3 DEF InstallWriter, ApprovedInstall
    <3>2. \E v \in {inst.build, None} : tmp' = [tmp EXCEPT !["writer"] = v]
      BY <2>3 DEF InstallWriter
    <3> QED
      BY <1>1, <3>1, <3>2 DEF ApprovedFiles, TypeOK, FilesTypeOK
  <2> QED
    BY <2>1, <2>2, <2>3 DEF InstallStep, BootHook, InstallTruncates, InstallFetched,
       InstallWrites, InstallWritten, InstallLaunches, filesVars
<1> QED
  BY <1>1, <1>2, <1>3, <1>4, ApprovedAlone

LEMMA ApprovedByOthers ==
  ASSUME TypeOK, StagedInv, ApprovedInv,
         StagerStep \/ UninstallStep \/ (\E v \in Builds : InstallCheck(v))
           \/ UninstallStart \/ Vanish \/ PowerCut \/ UNCHANGED vars
  PROVE  ApprovedInv'
<1> USE DEF ApprovedInv
<1>1. approved \subseteq approved' /\ UNCHANGED flash
  BY DEF StagerStep, UninstallStep, UninstallKills, UninstallErases, UninstallDone, InstallCheck,
         UninstallStart, Vanish, PowerCut, vars, flashVars, history
<1>2. ApprovedStage'
  <2>1. CASE StagerStep
    <3>1. stager.pc # "idle" /\ confirmed' = confirmed
      BY <2>1 DEF StagerStep, StagerFetches, StagerFetched, StagerVerified, StagerExtracts,
         StagerTested, StagerTouches, StagerFails, StagerAt
    <3> QED
      BY <1>1, <3>1, ApprovedAlone DEF StagedInv
  <2>2. CASE UNCHANGED <<stage, confirmed>>
    BY <1>1, <2>2, ApprovedAlone
  <2>3. CASE PowerCut
    BY <1>1, <2>3, ApprovedAlone DEF PowerCut
  <2> QED
    BY <2>1, <2>2, <2>3 DEF UninstallStep, UninstallKills, UninstallErases, UninstallDone,
       InstallCheck, UninstallStart, Vanish, vars, updateVars
<1>3. ApprovedFiles'
  <2>1. CASE UNCHANGED tmp
    BY <1>1, <2>1, ApprovedAlone
  <2>2. CASE Vanish
    BY <1>1, <2>2 DEF Vanish, ApprovedFiles, TypeOK, FilesTypeOK
  <2>3. CASE PowerCut
    BY <1>1, <2>3 DEF PowerCut, ApprovedFiles
  <2> QED
    BY <2>1, <2>2, <2>3 DEF StagerStep, UninstallStep, UninstallKills, UninstallErases,
       UninstallDone, InstallCheck, UninstallStart, vars, filesVars
<1>4. ApprovedJobs'
  <2>1. CASE UNCHANGED job
    BY <1>1, <2>1, ApprovedAlone
  <2>2. CASE UninstallErases \/ UninstallDone
    <3>1. /\ EraseOnly.src = None /\ IdleJob.op = "idle" /\ "uninstall" \in Processes
          /\ \E j \in {EraseOnly, IdleJob} : job' = [job EXCEPT !["uninstall"] = j]
      BY <2>2 DEF UninstallErases, UninstallDone, EraseOnly, IdleJob, Processes
    <3> HIDE DEF ApprovedInv
    <3> QED
      BY <1>1, <3>1, NewJobApproved
  <2>3. CASE PowerCut
    BY <2>3 DEF PowerCut, ApprovedJobs, Writing, IdleJob
  <2> QED
    BY <2>1, <2>2, <2>3 DEF StagerStep, UninstallStep, UninstallKills, InstallCheck,
       UninstallStart, Vanish, vars, flashVars
<1>5. ApprovedInstall'
  <2>1. CASE UNCHANGED inst
    BY <1>1, <2>1, ApprovedAlone
  <2>2. CASE \E v \in Builds : InstallCheck(v)
    BY <2>2 DEF InstallCheck, ApprovedInstall
  <2>3. CASE UninstallStart \/ PowerCut
    BY <2>3 DEF UninstallStart, PowerCut, ApprovedInstall, NoScript
  <2> QED
    BY <2>1, <2>2, <2>3 DEF StagerStep, UninstallStep, UninstallKills, UninstallErases,
       UninstallDone, Vanish, vars, shellVars
<1> QED
  BY <1>1, <1>2, <1>3, <1>4, <1>5, ApprovedAlone

LEMMA ApprovedInductive ==
  ASSUME IInv, OneUpdate, StagedInv, ApprovedInv, [Next]_vars
  PROVE  ApprovedInv'
<1>1. TypeOK
  BY DEF IInv
<1>2. CASE ScriptStep
  BY <1>1, <1>2, ApprovedByWatchdog, ApprovedByDaemon, ApprovedByTools, ApprovedByInstall,
     ApprovedByOthers DEF ScriptStep
<1>3. CASE OperatorStep
  BY <1>1, <1>3, ApprovedByDaemon, ApprovedByOthers DEF OperatorStep
<1> QED
  BY <1>1, <1>2, <1>3, ApprovedByOthers DEF Next

LEMMA ApprovedInitially == Init => ApprovedInv
<1> SUFFICES ASSUME Init PROVE ApprovedInv
  OBVIOUS
<1>1. PICK c \in FirstFlash : Init!(c)
  BY DEF Init
<1>2. ApprovedFlash
  BY <1>1, FirstFlashAssumption DEF ApprovedFlash
<1>3. ApprovedStage /\ ApprovedFiles /\ ApprovedJobs /\ ApprovedInstall
  BY <1>1 DEF ApprovedStage, ApprovedFiles, ApprovedJobs, ApprovedInstall, Writing, IdleJob, NoScript
<1> QED
  BY <1>2, <1>3 DEF ApprovedInv

LEMMA ApprovedAlways == OneUpdate /\ Spec => []ApprovedInv
<1>1. IInv /\ OneUpdate /\ StagedInv /\ ApprovedInv /\ [Next]_vars => ApprovedInv'
  BY ApprovedInductive
<1>2. OneUpdate /\ Spec => []ApprovedInv
  <2> SUFFICES ASSUME OneUpdate PROVE Spec => []ApprovedInv
    OBVIOUS
  <2> QED
    BY <1>1, Initially, Inductive, StagedAlways, ApprovedInitially, PTL DEF Spec
<1> QED
  BY <1>2

\* With one supervisor, and unless somebody stages over an update that is marked
\* ready: no file of /tmp that a script runs and no block of the flash ever holds bytes of a
\* build that was not there from the start and that no operator installed or applied.
THEOREM OnlyApprovedRuns == OneUpdate /\ Spec => []OnlyApproved
<1>1. ApprovedInv => OnlyApproved
  BY DEF ApprovedInv, ApprovedFiles, ApprovedFlash, OnlyApproved, Files
<1> QED
  BY <1>1, ApprovedAlways, PTL

--------------------------------------------------------------------------------
(* Who is at work on the flash *)

Busy(p) == job[p].op # "idle"

\* A tool belongs to a script that waits for it.
Owners ==
  /\ \A w \in Watchdogs : Busy(w) => wd[w].pc = "flash"
  /\ Busy("install") <=> inst.pc = "flash"
  /\ Busy("uninstall") <=> uninst = "flash"

\* What the scripts hand to the tools.
Sources ==
  /\ Writing("install") => job["install"].src = inst.build
  /\ job["uninstall"].src = None

\* The operator has one shell, and uses it only once the appliance has booted.
OneScript ==
  /\ uninst # "idle" => inst.pc = "idle" /\ "uninstall" \in Activity
  /\ inst.pc # "idle" => inst.build \in Builds /\ "install" \in Activity
  /\ inst.pc # "idle" \/ uninst # "idle" => power = "up"
  /\ OneWatchdog /\ inst.pc \notin {"idle", "done"} => \A w \in Watchdogs : ~Alive(w)

\* Before the hook has run there is nothing but what survived in flash.
AtBoot ==
  power = "boot" =>
    /\ \A w \in Watchdogs : ~Alive(w)
    /\ \A f \in Files : tmp[f] = None
    /\ stager.pc = "idle" /\ ~ready

\* install.sh does not get past a fetch that failed.
BootFiles ==
  /\ inst.pc \in {"writer", "startup", "startup_get", "write", "flash", "launch", "done"}
       => jffs["reader"] = "ok"
  /\ inst.pc \in {"write", "flash", "launch", "done"} => jffs["startup"] = "ok"
  /\ "vanish" \notin Activity /\ inst.pc \in {"startup", "startup_get", "write"}
       => Usable("writer")

\* kmem_patch does its work, and install.sh does not lose the tool it has fetched nor
\* does that tool report FAIL for a rewrite it has begun.
PatchesFirst ==
  /\ "patchfail" \notin Activity
  /\ "install" \in Activity => {"vanish", "toolfail"} \cap Activity = {}

\* Either nobody updates, or no client has run since the boot -- and it takes one to
\* start an update.
Calm == "update" \notin Activity \/ (PatchesFirst /\ ~kpatched)

NoUpdateUnderWay ==
  Calm =>
    /\ ~ready /\ stager.pc = "idle"
    /\ \A w \in Watchdogs :
         wd[w].pc \notin {"cp_client", "cp_kmem", "cp_patched", "write", "flash", "clean"}

\* When no two tools can be at work at once.
Lone == Calm \/ (OneWatchdog /\ "uninstall" \notin Activity)

\* What a tool that works alone has made of the region so far, if none ever fails,
\* and what it has made of it, fail or not, when it reports PASS.
Shape(p) ==
  /\ "toolfail" \notin Activity =>
       /\ job[p].op = "erase" => \A b \in Blocks : b < job[p].k => flash[b] = Blank
       /\ job[p].op = "write" =>
            \A b \in Blocks : flash[b] = IF b < job[p].k THEN job[p].src ELSE Blank
  /\ job[p].op = "pass" => Whole(IF job[p].src = None THEN Blank ELSE job[p].src)
Shapes == Lone => \A p \in Processes : Shape(p)

\* The last tool at work has reported FAIL for what it had begun.
Spoilt == torn /\ "toolfail" \in Activity

\* What mtd_erase_write refuses to touch.
Refused == ~Ours /\ ~AllBlank

\* install.sh rewrites the region, or its tool has refused to or spoilt it.
Rewritten ==
  Lone /\ "vanish" \notin Activity =>
    /\ job["install"].op = "fail" => Refused \/ Spoilt
    /\ inst.pc = "flash" => job["install"].src = inst.build
    /\ inst.pc = "launch" => Refused \/ Spoilt \/ Whole(inst.build)
    /\ "update" \notin Activity /\ inst.pc = "done" => Refused \/ Spoilt \/ Whole(inst.build)

Erased ==
  Lone => /\ job["uninstall"].op = "fail" => Spoilt
          /\ "update" \notin Activity /\ uninst = "done" => AllBlank \/ Spoilt

\* As long as the kernel is not patched nothing runs, and a bundle cut in kmem_patch
\* has no supervisor in it that would run without.
NotYetPatched ==
  PatchesFirst /\ ~kpatched =>
    /\ \A w \in Watchdogs : ~Running(w)
    /\ tmp["kmem"] = Bad => tmp["wdog"] \notin Builds /\ \A w \in Watchdogs : ~Alive(w)

WorkInv ==
  /\ Owners /\ Sources /\ OneScript /\ AtBoot /\ BootFiles /\ NoUpdateUnderWay
  /\ Shapes /\ Rewritten /\ Erased /\ NotYetPatched

--------------------------------------------------------------------------------
(* Facts about one state *)

LEMMA Kinds ==
  /\ \A w \in Watchdogs : w \in Processes /\ w # "install" /\ w # "uninstall"
  /\ "install" \in Processes /\ "uninstall" \in Processes
  /\ \A p \in Processes : p \in Watchdogs \/ p = "install" \/ p = "uninstall"
  /\ NBlocks \in Nat /\ NBlocks > 0 /\ Blocks = 1..NBlocks /\ 1 \in Blocks
  /\ IdleJob.op = "idle" /\ IdleJob.k = 1 /\ IdleJob.src = None
  /\ [IdleJob EXCEPT !.op = "fail"].op = "fail"
  /\ [IdleJob EXCEPT !.op = "fail"].src = None
  /\ NoScript.pc = "idle"
BY WatchdogsAssumption, BlocksAssumption DEF Processes, Blocks, IdleJob, NoScript

\* Where the hypothesis says so, two tools are never at work at once.
LEMMA OneTool ==
  ASSUME Owners, OneScript, NoUpdateUnderWay, Lone,
         NEW p \in Processes, NEW q \in Processes, Busy(p), Busy(q)
  PROVE  p = q
<1>1. CASE Calm
  <2>1. \A w \in Watchdogs : ~Busy(w)
    BY <1>1 DEF Owners, NoUpdateUnderWay
  <2>2. ~(Busy("install") /\ Busy("uninstall"))
    BY DEF Owners, OneScript
  <2> QED
    BY <2>1, <2>2, Kinds
<1>2. CASE OneWatchdog /\ "uninstall" \notin Activity
  <2>1. ~Busy("uninstall")
    BY <1>2 DEF Owners, OneScript
  <2>2. ASSUME NEW w \in Watchdogs, Busy(w), Busy("install")
        PROVE  FALSE
    BY <1>2, <2>2 DEF Owners, OneScript, Alive
  <2> QED
    BY <1>2, <2>1, <2>2, Kinds DEF OneWatchdog
<1> QED
  BY <1>1, <1>2 DEF Lone

\* The hypotheses are about the time since the boot: they cannot come true later.
LEMMA Calming ==
  ASSUME kpatched => kpatched'
  PROVE  (Calm' => Calm) /\ (Lone' => Lone)
BY DEF Calm, Lone

--------------------------------------------------------------------------------
(* What a group of steps leaves alone *)

DaemonStep(w) ==
  \/ WatchdogStep(w) \/ Listen(w) \/ SessionEnds(w) \/ UpdateApply(w) \/ UpdateDiscard(w)
  \/ \E v \in Builds : UpdateDo(w, v)

\* A step of one supervisor or of its daemon.
LEMMA DaemonFrame ==
  ASSUME TypeOK, NEW w \in Watchdogs, DaemonStep(w)
  PROVE  /\ UNCHANGED <<flash, jffs, inst, uninst, power, torn>>
         /\ \A x \in Watchdogs : x # w => wd'[x] = wd[x]
         /\ Alive(w)
         /\ \A p \in Processes : p # w => job'[p] = job[p]
         /\ \A f \in {"tar", "wdog", "writer"} : tmp'[f] = tmp[f]
         /\ kpatched => kpatched'
         /\ Running(w)' => Launch(w) \/ Running(w)
<1>1. UNCHANGED <<flash, jffs, inst, uninst, power, torn>>
  BY DEF DaemonStep, WatchdogStep, Top, CopyStaged, WriteStaged, RemoveMarkers, RemoveStaging,
         EnsureFiles, Launch, Wake, Listen, SessionEnds, UpdateApply, UpdateDiscard, UpdateDo,
         flashVars, filesVars, shellVars, history
<1>6. kpatched => kpatched'
  <2>1. UNCHANGED kpatched \/ Launch(w)
    BY DEF DaemonStep, WatchdogStep, Top, CopyStaged, WriteStaged, RemoveMarkers, RemoveStaging,
           EnsureFiles, Wake, Listen, SessionEnds, UpdateApply, UpdateDiscard, UpdateDo, filesVars
  <2> QED
    BY <2>1 DEF Launch
<1>2. Alive(w)
  BY DEF DaemonStep, WatchdogStep, Top, CopyStaged, CopyTarget, WriteStaged, RemoveMarkers,
         RemoveStaging, EnsureFiles, Launch, Wake, Listen, SessionEnds, UpdateApply,
         UpdateDiscard, UpdateDo, Alive, Running
<1>3. \A p \in Processes : p # w => job'[p] = job[p]
  BY DEF DaemonStep, WatchdogStep, Top, CopyStaged, WriteStaged, RemoveMarkers, RemoveStaging,
         EnsureFiles, Launch, Wake, Listen, SessionEnds, UpdateApply, UpdateDiscard, UpdateDo,
         flashVars, TypeOK, FlashTypeOK
<1>4. \A f \in {"tar", "wdog", "writer"} : tmp'[f] = tmp[f]
  <2>1. UNCHANGED tmp \/ CopyStaged(w) \/ EnsureFiles(w)
    BY DEF DaemonStep, WatchdogStep, Top, WriteStaged, RemoveMarkers, RemoveStaging, Launch, Wake,
           Listen, SessionEnds, UpdateApply, UpdateDiscard, UpdateDo, filesVars
  <2>2. \A f \in {"tar", "wdog", "writer"} : f \in Files /\ f \notin Updatable
    BY DEF Files, BundleFiles, BundleOrder, Updatable
  <2>3. CASE CopyStaged(w)
    BY <2>2, <2>3 DEF CopyStaged, CopyTarget, TypeOK, FilesTypeOK
  <2>4. CASE EnsureFiles(w)
    BY <2>2, <2>4 DEF EnsureFiles
  <2> QED
    BY <2>1, <2>3, <2>4
<1>5. /\ \A x \in Watchdogs : x # w => wd'[x] = wd[x]
      /\ Running(w)' => Launch(w) \/ Running(w)
  <2>1. CASE WatchdogStep(w) /\ ~Launch(w)
    <3>1. \E pc \in {"cp_client", "cp_kmem", "cp_patched", "write", "flash", "clean", "ensure",
                     "run", "top"} : MovesTo(w, pc)
      <4>1. CopyStaged(w) => AfterCopy[wd[w].pc] \in {"cp_kmem", "cp_patched", "write"}
        BY DEF CopyStaged, CopyTarget, AfterCopy
      <4> QED
        BY <2>1, <4>1, WatchdogMoves DEF WatchdogStep
    <3> QED
      BY <3>1 DEF MovesTo, Running
  <2>2. CASE Launch(w) \/ Listen(w) \/ SessionEnds(w) \/ UpdateApply(w)
    <3>1. Listen(w) => Running(w)
      BY DEF Listen, Running
    <3> QED
      BY <2>2, <3>1, WatchdogMoves DEF MovesTo, Ends, Running
  <2>3. CASE UNCHANGED wd
    BY <2>3 DEF Running
  <2> QED
    BY <2>1, <2>2, <2>3 DEF DaemonStep, UpdateDiscard, UpdateDo
<1> QED
  BY <1>1, <1>2, <1>3, <1>4, <1>5, <1>6

\* What its own tool is at, before and after.
LEMMA DaemonJob ==
  ASSUME TypeOK, Owners, NEW w \in Watchdogs, DaemonStep(w)
  PROVE  \/ ~Busy(w)' /\ (wd[w].pc = "flash" => RemoveMarkers(w))
         \/ /\ WriteStaged(w) /\ wd'[w].pc = "flash"
            /\ job'[w].op \in {"erase", "fail"} /\ job'[w].k = 1
<1> w \in Processes
  BY Kinds
<1>1. CASE RemoveMarkers(w)
  BY <1>1, Kinds DEF RemoveMarkers, Busy, TypeOK, FlashTypeOK
<1>2. CASE WriteStaged(w)
  <2>1. job'[w] = IF Usable("writer") THEN EraseWrite(stage.env) ELSE [IdleJob EXCEPT !.op = "fail"]
    BY <1>2 DEF WriteStaged, TypeOK, FlashTypeOK
  <2>2. job'[w].op \in {"erase", "fail"} /\ job'[w].k = 1
    BY <2>1 DEF EraseWrite, IdleJob
  <2> QED
    BY <1>2, <2>2, WatchdogMoves DEF MovesTo
<1>3. CASE ~RemoveMarkers(w) /\ ~WriteStaged(w)
  <2>1. UNCHANGED job /\ wd[w].pc # "flash"
    BY <1>3 DEF DaemonStep, WatchdogStep, Top, CopyStaged, CopyTarget, RemoveStaging,
           EnsureFiles, Launch, Wake, Listen, SessionEnds, UpdateApply, UpdateDiscard, UpdateDo,
           flashVars, Running
  <2> QED
    BY <2>1 DEF Owners, Busy
<1> QED
  BY <1>1, <1>2, <1>3

--------------------------------------------------------------------------------
(* The supervisor and its daemon *)

LEMMA DaemonKeepsShapes ==
  ASSUME TypeOK, WorkInv, NEW w \in Watchdogs, DaemonStep(w)
  PROVE  Shapes' /\ Rewritten' /\ Erased'
<1>1. /\ UNCHANGED <<flash, inst, uninst, torn>> /\ (Lone' => Lone)
      /\ \A p \in Processes : p # w => job'[p] = job[p]
  BY DaemonFrame, Calming
<1>2. Shapes'
  <2>1. ~Busy(w)' \/ job'[w].op = "fail" \/ (job'[w].op = "erase" /\ job'[w].k = 1)
    BY DaemonJob DEF WorkInv
  <2>2. Shape(w)'
    BY <2>1, Kinds DEF Shape, Busy
  <2>3. ASSUME NEW p \in Processes, p # w, Shape(p)
        PROVE  Shape(p)'
    BY <1>1, <2>3 DEF Shape, Whole
  <2> QED
    BY <1>1, <2>2, <2>3 DEF Shapes, WorkInv
<1>3. Rewritten' /\ Erased'
  BY <1>1, Kinds DEF Rewritten, Erased, Spoilt, Refused, Ours, AllBlank, Whole, WorkInv
<1> QED
  BY <1>2, <1>3

LEMMA DaemonKeepsCalm ==
  ASSUME TypeOK, WorkInv, NEW w \in Watchdogs, DaemonStep(w)
  PROVE  NoUpdateUnderWay'
<1> SUFFICES ASSUME Calm'
             PROVE  /\ ~ready' /\ stager'.pc = "idle"
                    /\ \A x \in Watchdogs :
                         wd'[x].pc \notin {"cp_client", "cp_kmem", "cp_patched", "write", "flash", "clean"}
  BY DEF NoUpdateUnderWay
<1>1. /\ Calm /\ ~ready /\ stager.pc = "idle"
      /\ \A x \in Watchdogs :
           wd[x].pc \notin {"cp_client", "cp_kmem", "cp_patched", "write", "flash", "clean"}
      /\ \A x \in Watchdogs : x # w => wd'[x] = wd[x]
  BY DaemonFrame, Calming DEF WorkInv, NoUpdateUnderWay
<1>2. ~\E v \in Builds : UpdateDo(w, v)
  BY <1>1 DEF UpdateDo, Calm, WorkInv, NotYetPatched, Running
<1>3. ~UpdateApply(w)
  BY <1>1 DEF UpdateApply
<1>4. ~CopyStaged(w) /\ ~WriteStaged(w) /\ ~RemoveMarkers(w) /\ ~RemoveStaging(w)
  BY <1>1 DEF CopyStaged, CopyTarget, WriteStaged, RemoveMarkers, RemoveStaging
<1>5. ~ready' /\ stager' = stager
  <2>1. UNCHANGED <<ready, stager>> \/ UpdateDiscard(w)
    BY <1>2, <1>3, <1>4 DEF DaemonStep, WatchdogStep, Top, EnsureFiles, Launch, Wake, Listen,
       SessionEnds, updateVars
  <2> QED
    BY <1>1, <2>1 DEF UpdateDiscard
<1>6. wd'[w] = wd[w] \/ wd'[w].pc \in {"ensure", "run", "login", "sleep", "stopped", "top", "serve"}
  BY <1>1, <1>2, <1>3, <1>4, WatchdogMoves
     DEF DaemonStep, WatchdogStep, UpdateDiscard, MovesTo, Ends
<1> QED
  BY <1>1, <1>5, <1>6

LEMMA DaemonKeepsUnpatched ==
  ASSUME TypeOK, WorkInv, NEW w \in Watchdogs, DaemonStep(w)
  PROVE  NotYetPatched'
<1> SUFFICES ASSUME PatchesFirst, ~kpatched'
             PROVE  /\ \A x \in Watchdogs : ~Running(x)'
                    /\ tmp'["kmem"] = Bad => tmp'["wdog"] \notin Builds /\ \A x \in Watchdogs : ~Alive(x)'
  BY DEF NotYetPatched
<1>1. /\ ~kpatched
      /\ \A x \in Watchdogs : x # w => wd'[x] = wd[x]
      /\ Alive(w)
      /\ Running(w)' => Launch(w) \/ Running(w)
  BY DaemonFrame
<1>2. /\ \A x \in Watchdogs : ~Running(x)
      /\ tmp["kmem"] # Bad /\ tmp["kmem"] \in Copy
      /\ wd[w].pc \notin {"cp_client", "cp_kmem", "cp_patched"}
  BY <1>1 DEF WorkInv, NotYetPatched, NoUpdateUnderWay, Calm, TypeOK, FilesTypeOK, Files,
     BundleFiles, BundleOrder
<1>3. ~(Launch(w) /\ Running(w)')
  <2> SUFFICES ASSUME Launch(w), Running(w)' PROVE FALSE
    OBVIOUS
  <2> DEFINE patching == Usable("patched") /\ KernelMatches /\ tmp["kmem"] # None
  <2>1. patching
    <3>1. ASSUME wd' = [wd EXCEPT ![w] = SessionOver(wd[w], TRUE)]
          PROVE  FALSE
      BY <3>1 DEF Running, SessionOver, TypeOK, WatchdogTypeOK
    <3> QED
      BY <3>1 DEF Launch
  <2>2. Usable("kmem")
    BY <1>2, <2>1 DEF Usable, Copy
  <2>3. \E works \in {TRUE} \cup (IF "patchfail" \in Activity THEN {FALSE} ELSE {}) :
          kpatched' = (kpatched \/ (patching /\ Usable("kmem") /\ works))
    BY DEF Launch
  <2> HIDE DEF patching
  <2> QED
    BY <2>1, <2>2, <2>3 DEF PatchesFirst
<1>4. tmp'["kmem"] # Bad
  <2>1. ~CopyStaged(w)
    BY <1>2 DEF CopyStaged, CopyTarget
  <2>2. ASSUME EnsureFiles(w)
        PROVE  tmp'["kmem"] \in Builds \cup {tmp["kmem"]}
    BY <2>2 DEF EnsureFiles, Files, BundleFiles, BundleOrder
  <2>3. UNCHANGED tmp \/ EnsureFiles(w)
    BY <2>1 DEF DaemonStep, WatchdogStep, Top, WriteStaged, RemoveMarkers, RemoveStaging, Launch,
       Wake, Listen, SessionEnds, UpdateApply, UpdateDiscard, UpdateDo, filesVars
  <2> QED
    BY <1>2, <2>2, <2>3, BuildsAssumption
<1> QED
  BY <1>1, <1>2, <1>3, <1>4 DEF Running

LEMMA DaemonKeepsWork ==
  ASSUME TypeOK, WorkInv, NEW w \in Watchdogs, DaemonStep(w)
  PROVE  WorkInv'
<1>1. /\ UNCHANGED <<jffs, inst, uninst, power>>
      /\ \A x \in Watchdogs : x # w => wd'[x] = wd[x]
      /\ Alive(w)
      /\ \A p \in Processes : p # w => job'[p] = job[p]
      /\ tmp'["writer"] = tmp["writer"]
  BY DaemonFrame
<1>2. Owners'
  <2>1. Busy(w)' => wd'[w].pc = "flash"
    BY DaemonJob DEF WorkInv
  <2>2. ASSUME NEW x \in Watchdogs, x # w, Busy(x)'
        PROVE  wd'[x].pc = "flash"
    BY <1>1, <2>2, Kinds DEF WorkInv, Owners, Busy
  <2>3. Busy("install")' = Busy("install") /\ Busy("uninstall")' = Busy("uninstall")
    BY <1>1, Kinds DEF Busy
  <2> QED
    BY <1>1, <2>1, <2>2, <2>3 DEF WorkInv, Owners
<1>3. Sources'
  BY <1>1, Kinds DEF WorkInv, Sources, Writing
<1>4. OneScript' /\ AtBoot' /\ BootFiles'
  BY <1>1 DEF WorkInv, OneScript, AtBoot, BootFiles, Usable
<1> QED
  BY <1>2, <1>3, <1>4, DaemonKeepsShapes, DaemonKeepsCalm, DaemonKeepsUnpatched DEF WorkInv

--------------------------------------------------------------------------------
(* The tools *)

LEMMA ToolFrame ==
  ASSUME TypeOK, NEW p \in Processes, FlashStep(p)
  PROVE  /\ UNCHANGED <<tmp, jffs, kpatched, wd, stage, ready, confirmed, stager, inst, uninst, power>>
         /\ \A q \in Processes : job'[q].src = job[q].src /\ (q # p => job'[q] = job[q])
         /\ Writing(p) /\ Busy(p)'
<1>1. UNCHANGED <<tmp, jffs, kpatched, wd, stage, ready, confirmed, stager, inst, uninst, power>>
  BY DEF FlashStep, filesVars, updateVars, shellVars
<1>2. \A q \in Processes : job'[q].src = job[q].src /\ (q # p => job'[q] = job[q])
  BY ToolJobs DEF TypeOK
<1>3. Writing(p)
  BY DEF FlashStep, EraseBlock, EraseChecked, WriteBlock, WriteChecked, GivesUp, Writing
<1>4. Busy(p)'
  <2>1. job[p] \in JobState
    BY DEF TypeOK, FlashTypeOK
  <2>2. CASE EraseBlock(p) \/ WriteBlock(p)
    BY <2>1, <2>2 DEF EraseBlock, WriteBlock, Busy, JobState, TypeOK, FlashTypeOK
  <2>3. CASE EraseChecked(p)
    BY <2>1, <2>3 DEF EraseChecked, Busy, JobState, TypeOK, FlashTypeOK
  <2>4. CASE WriteChecked(p)
    BY <2>1, <2>4 DEF WriteChecked, Busy, JobState, TypeOK, FlashTypeOK
  <2>5. CASE GivesUp(p)
    BY <2>1, <2>5 DEF GivesUp, Busy, JobState, TypeOK, FlashTypeOK
  <2> QED
    BY <2>2, <2>3, <2>4, <2>5 DEF FlashStep
<1> QED
  BY <1>1, <1>2, <1>3, <1>4

\* A tool that works alone finds at its checks what it wrote, or "toolfail" has come
\* between; and where it reports FAIL the region counts as torn.
LEMMA ToolShape ==
  ASSUME IInv, NEW p \in Processes, FlashStep(p), Shape(p)
  PROVE  Shape(p)' /\ (job'[p].op = "fail" => Spoilt')
<1>1. /\ job[p] \in JobState /\ job \in [Processes -> JobState]
      /\ flash \in [Blocks -> Cell]
      /\ job[p].k \in Nat /\ job[p].k >= 1 /\ job[p].k =< NBlocks + 1
  BY Kinds DEF IInv, TypeOK, FlashTypeOK, JobState
<1>2. job[p].k \notin Blocks => \A b \in Blocks : b < job[p].k
  BY <1>1, Kinds
<1>3. CASE EraseBlock(p)
  <2>1. job'[p].op = "erase" /\ job'[p].k = job[p].k + 1
    BY <1>1, <1>3 DEF EraseBlock, JobState
  <2>2. ASSUME "toolfail" \notin Activity
        PROVE  \A b \in Blocks : b < job[p].k + 1 => flash'[b] = Blank
    <3>1. flash' = [flash EXCEPT ![job[p].k] = Blank]
      BY <1>3, <2>2 DEF EraseBlock, Attempt
    <3> QED
      BY <1>1, <1>3, <2>2, <3>1, Kinds DEF EraseBlock, Shape
  <2> QED
    BY <2>1, <2>2 DEF Shape
<1>4. CASE EraseChecked(p)
  <2>1. "toolfail" \notin Activity => AllBlank
    BY <1>2, <1>4 DEF EraseChecked, Shape, AllBlank, Whole
  <2>2. /\ job'[p].op = IF ~AllBlank THEN "fail" ELSE IF job[p].src = None THEN "pass" ELSE "write"
        /\ job'[p].k = 1 /\ job'[p].src = job[p].src /\ flash' = flash
        /\ ~AllBlank => torn'
    BY <1>1, <1>4 DEF EraseChecked, JobState
  <2>3. CASE AllBlank
    BY <2>2, <2>3, Kinds DEF Shape, AllBlank, Whole
  <2>4. CASE ~AllBlank
    BY <2>1, <2>2, <2>4 DEF Shape, Spoilt
  <2> QED
    BY <2>3, <2>4
<1>5. CASE WriteBlock(p)
  <2>1. job'[p].op = "write" /\ job'[p].k = job[p].k + 1 /\ job'[p].src = job[p].src
    BY <1>1, <1>5 DEF WriteBlock, JobState
  <2>2. ASSUME "toolfail" \notin Activity
        PROVE  \A b \in Blocks : flash'[b] = IF b < job[p].k + 1 THEN job[p].src ELSE Blank
    <3>1. flash' = [flash EXCEPT ![job[p].k] = job[p].src]
      BY <1>1, <1>5, <2>2 DEF WriteBlock, Attempt, Shape
    <3> QED
      BY <1>1, <1>5, <2>2, <3>1, Kinds DEF WriteBlock, Shape
  <2> QED
    BY <2>1, <2>2 DEF Shape
<1>6. CASE WriteChecked(p)
  <2>1. job[p].src # None /\ ("toolfail" \notin Activity => Whole(job[p].src))
    BY <1>2, <1>6 DEF WriteChecked, Shape, Whole, IInv, HasSource
  <2>2. /\ job'[p].op = IF Whole(job[p].src) THEN "pass" ELSE "fail"
        /\ job'[p].src = job[p].src /\ flash' = flash
        /\ torn' = ~Whole(job[p].src)
    BY <1>1, <1>6 DEF WriteChecked, JobState
  <2>3. CASE Whole(job[p].src)
    BY <2>1, <2>2, <2>3 DEF Shape, Whole
  <2>4. CASE ~Whole(job[p].src)
    BY <2>1, <2>2, <2>4 DEF Shape, Spoilt
  <2> QED
    BY <2>3, <2>4
<1>7. CASE GivesUp(p)
  <2>1. job'[p].op = "fail" /\ torn' /\ "toolfail" \in Activity
    BY <1>1, <1>7 DEF GivesUp, JobState
  <2> QED
    BY <2>1 DEF Shape, Spoilt
<1> QED
  BY <1>3, <1>4, <1>5, <1>6, <1>7 DEF FlashStep

LEMMA ToolKeepsWork ==
  ASSUME IInv, WorkInv, NEW p \in Processes, FlashStep(p)
  PROVE  WorkInv'
<1>1. TypeOK
  BY DEF IInv
<1>2. /\ UNCHANGED <<tmp, jffs, kpatched, wd, stage, ready, confirmed, stager, inst, uninst, power>>
      /\ \A q \in Processes : job'[q].src = job[q].src /\ (q # p => job'[q] = job[q])
      /\ Writing(p) /\ Busy(p) /\ Busy(p)'
  BY <1>1, ToolFrame DEF Writing, Busy
<1>3. \A q \in Processes : Busy(q)' = Busy(q)
  BY <1>2 DEF Busy
<1>4. Owners' /\ Sources' /\ OneScript' /\ AtBoot' /\ BootFiles' /\ NoUpdateUnderWay' /\ NotYetPatched'
  <2>1. Owners'
    BY <1>2, <1>3, Kinds DEF WorkInv, Owners
  <2>2. Sources'
    <3>1. Writing("install")' => Writing("install")
      BY <1>2, Kinds DEF Writing
    <3> QED
      BY <1>2, <3>1, Kinds DEF WorkInv, Sources
  <2>3. OneScript' /\ AtBoot' /\ BootFiles'
    BY <1>2 DEF WorkInv, OneScript, AtBoot, BootFiles, Alive, Usable
  <2>4. NoUpdateUnderWay' /\ NotYetPatched'
    BY <1>2 DEF WorkInv, NoUpdateUnderWay, NotYetPatched, Calm, Running, Alive
  <2> QED
    BY <2>1, <2>2, <2>3, <2>4
<1>5. Lone' => Lone
  BY <1>2, Calming
<1>6. ASSUME Lone
      PROVE  \A q \in Processes : q # p => ~Busy(q)
  BY <1>2, <1>6, OneTool DEF WorkInv
<1>7. ASSUME Lone
      PROVE  Shape(p)' /\ (job'[p].op = "fail" => Spoilt')
  BY <1>7, ToolShape DEF WorkInv, Shapes
<1>8. Shapes'
  <2>1. ASSUME Lone, NEW q \in Processes, q # p
        PROVE  Shape(q)'
    BY <1>3, <1>6, <2>1 DEF Shape, Busy
  <2> QED
    BY <1>5, <1>7, <2>1 DEF Shapes
<1>9. Rewritten'
  <2> SUFFICES ASSUME Lone, "vanish" \notin Activity
               PROVE  /\ job'["install"].op = "fail" => Refused' \/ Spoilt'
                      /\ inst.pc = "flash" => job'["install"].src = inst.build
                      /\ inst.pc = "launch" => (Refused \/ Spoilt \/ Whole(inst.build))'
                      /\ "update" \notin Activity /\ inst.pc = "done" => (Refused \/ Spoilt \/ Whole(inst.build))'
    BY <1>2, <1>5 DEF Rewritten
  <2>1. job'["install"].op = "fail" => Spoilt'
    <3>1. CASE p = "install"
      BY <1>7, <3>1
    <3>2. CASE p # "install"
      BY <1>3, <1>6, <3>2, Kinds DEF Busy
    <3> QED
      BY <3>1, <3>2
  <2>2. inst.pc = "flash" => job'["install"].src = inst.build
    BY <1>2, Kinds DEF WorkInv, Rewritten
  <2>3. inst.pc # "launch" /\ (inst.pc = "done" => "update" \in Activity)
    <3>1. inst.pc # "flash" => ~Busy("install")
      BY DEF WorkInv, Owners
    <3>2. inst.pc # "idle" => ~Busy("uninstall")
      BY DEF WorkInv, Owners, OneScript
    <3>3. ASSUME NEW w \in Watchdogs, Busy(w)
          PROVE  inst.pc # "launch" /\ (inst.pc = "done" => "update" \in Activity)
      BY <3>3 DEF WorkInv, Owners, OneScript, NoUpdateUnderWay, Lone, Calm, Alive
    <3> QED
      BY <1>2, <3>1, <3>2, <3>3, Kinds
  <2> QED
    BY <2>1, <2>2, <2>3
<1>10. Erased'
  <2> SUFFICES ASSUME Lone
               PROVE  /\ job'["uninstall"].op = "fail" => Spoilt'
                      /\ "update" \notin Activity /\ uninst = "done" => AllBlank' \/ Spoilt'
    BY <1>2, <1>5 DEF Erased
  <2>1. job'["uninstall"].op = "fail" => Spoilt'
    <3>1. CASE p = "uninstall"
      BY <1>7, <3>1
    <3>2. CASE p # "uninstall"
      BY <1>3, <1>6, <3>2, Kinds DEF Busy
    <3> QED
      BY <3>1, <3>2
  <2>2. uninst = "done" => "update" \in Activity
    <3>1. uninst = "done" => ~Busy("uninstall") /\ ~Busy("install")
      BY DEF WorkInv, Owners, OneScript
    <3>2. ASSUME NEW w \in Watchdogs, Busy(w)
          PROVE  "update" \in Activity
      BY <3>2 DEF WorkInv, Owners, NoUpdateUnderWay, Calm
    <3> QED
      BY <1>2, <3>1, <3>2, Kinds
  <2> QED
    BY <2>1, <2>2
<1> QED
  BY <1>4, <1>8, <1>9, <1>10 DEF WorkInv

--------------------------------------------------------------------------------
(* The other steps *)

\* Which part of the invariant looks at what.
LEMMA WorkAlone ==
  ASSUME WorkInv
  PROVE  /\ UNCHANGED <<job, wd, inst, uninst>> => Owners'
         /\ UNCHANGED <<job, inst>> => Sources'
         /\ UNCHANGED <<inst, uninst, power, wd>> => OneScript'
         /\ UNCHANGED <<power, wd, tmp, stager, ready>> => AtBoot'
         /\ UNCHANGED <<inst, jffs, tmp>> => BootFiles'
         /\ UNCHANGED <<kpatched, ready, stager, wd>> => NoUpdateUnderWay'
         /\ UNCHANGED <<flash, job, kpatched>> => Shapes'
         /\ UNCHANGED <<flash, job, inst, kpatched, torn>> => Rewritten'
         /\ UNCHANGED <<flash, job, uninst, kpatched, torn>> => Erased'
         /\ UNCHANGED <<kpatched, wd, tmp>> => NotYetPatched'
<1> USE DEF WorkInv
<1>1. /\ UNCHANGED <<job, wd, inst, uninst>> => Owners'
      /\ UNCHANGED <<job, inst>> => Sources'
      /\ UNCHANGED <<inst, uninst, power, wd>> => OneScript'
      /\ UNCHANGED <<power, wd, tmp, stager, ready>> => AtBoot'
      /\ UNCHANGED <<inst, jffs, tmp>> => BootFiles'
  BY DEF Owners, Busy, Sources, Writing, OneScript, AtBoot, Alive, BootFiles, Usable
<1>2. UNCHANGED <<kpatched, ready, stager, wd>> => NoUpdateUnderWay'
  BY DEF NoUpdateUnderWay, Calm
<1>3. UNCHANGED <<flash, job, kpatched>> => Shapes'
  BY DEF Shapes, Shape, Lone, Calm, Whole
<1>4. UNCHANGED <<flash, job, inst, kpatched, torn>> => Rewritten'
  BY DEF Rewritten, Spoilt, Refused, Ours, AllBlank, Lone, Calm, Whole
<1>5. UNCHANGED <<flash, job, uninst, kpatched, torn>> => Erased'
  BY DEF Erased, Spoilt, AllBlank, Lone, Calm, Whole
<1>6. UNCHANGED <<kpatched, wd, tmp>> => NotYetPatched'
  BY DEF NotYetPatched, Running, Alive
<1> QED
  BY <1>1, <1>2, <1>3, <1>4, <1>5, <1>6

LEMMA StagerKeepsWork ==
  ASSUME WorkInv, StagerStep
  PROVE  WorkInv'
<1>1. UNCHANGED <<flash, job, tmp, jffs, kpatched, wd, inst, uninst, power, torn>>
  BY DEF StagerStep, flashVars, filesVars, shellVars, history
<1>2. stager.pc # "idle"
  BY DEF StagerStep, StagerFetches, StagerFetched, StagerVerified, StagerExtracts, StagerTested,
         StagerTouches, StagerFails, StagerAt
<1>3. AtBoot'
  BY <1>1, <1>2 DEF WorkInv, AtBoot
<1>4. NoUpdateUnderWay'
  BY <1>1, <1>2 DEF WorkInv, NoUpdateUnderWay, Calm
<1> QED
  BY <1>1, <1>3, <1>4, WorkAlone DEF WorkInv

LEMMA NewShape ==
  ASSUME TypeOK, Shapes, NEW p \in Processes, NEW j, j.op \notin {"write", "pass"},
         j.op = "erase" => j.k = 1, job' = [job EXCEPT ![p] = j], UNCHANGED <<flash, kpatched>>
  PROVE  Shapes'
<1>1. job'[p] = j /\ \A q \in Processes : q # p => job'[q] = job[q]
  BY DEF TypeOK, FlashTypeOK
<1>2. Shape(p)'
  BY <1>1, Kinds DEF Shape
<1>3. ASSUME NEW q \in Processes, q # p, Shape(q)
      PROVE  Shape(q)'
  BY <1>1, <1>3 DEF Shape, Whole
<1> QED
  BY <1>2, <1>3 DEF Shapes, Lone, Calm

\* Every step of install.sh but the last.
LEMMA InstallFetches ==
  ASSUME TypeOK, WorkInv,
         InstallWriter \/ \E f \in {"reader", "startup"} : InstallTruncates(f) \/ InstallFetched(f)
  PROVE  WorkInv'
<1>1. /\ UNCHANGED <<flash, job, kpatched, wd, stager, ready, uninst, power, torn>>
      /\ inst.pc \notin {"idle", "flash", "launch", "done"}
      /\ tmp["kmem"] = tmp'["kmem"] /\ tmp["wdog"] = tmp'["wdog"]
  <2>1. UNCHANGED <<flash, job, kpatched, wd, stager, ready, uninst, power, torn>>
    BY DEF InstallWriter, InstallTruncates, InstallFetched, flashVars, updateVars, history
  <2>2. inst.pc \notin {"idle", "flash", "launch", "done"}
    BY DEF InstallWriter, InstallTruncates, InstallFetched, JffsGet, JffsBusy
  <2>3. UNCHANGED tmp \/ \E v : tmp' = [tmp EXCEPT !["writer"] = v]
    BY DEF InstallWriter, InstallTruncates, InstallFetched
  <2>4. "kmem" \in Files /\ "wdog" \in Files
    BY DEF Files, BundleFiles, BundleOrder
  <2> QED
    BY <2>1, <2>2, <2>3, <2>4 DEF TypeOK, FilesTypeOK
<1>2. power = "up" /\ uninst = "idle"
  BY <1>1 DEF WorkInv, OneScript
<1>3. \/ inst'.pc = "idle"
      \/ /\ inst'.build = inst.build
         /\ \/ \E f \in {"reader", "startup"} :
                 /\ InstallTruncates(f) /\ inst.pc = JffsGet[f] /\ inst'.pc = JffsBusy[f]
            \/ \E f \in {"reader", "startup"} :
                 /\ InstallFetched(f) /\ inst.pc = JffsBusy[f] /\ inst'.pc = JffsAfter[f]
                 /\ jffs'[f] = "ok"
            \/ /\ InstallWriter /\ inst.pc = "writer" /\ inst'.pc = "startup"
               /\ tmp'["writer"] = inst.build
  <2>1. inst \in InstallState /\ NoScript.pc = "idle" /\ "writer" \in Files
    BY Kinds DEF TypeOK, ShellTypeOK, Files, BundleFiles, BundleOrder
  <2>2. ASSUME NEW f \in {"reader", "startup"}, InstallTruncates(f)
        PROVE  inst.pc = JffsGet[f] /\ inst'.pc = JffsBusy[f] /\ inst'.build = inst.build
    BY <2>1, <2>2 DEF InstallTruncates, InstallState
  <2>3. ASSUME NEW f \in {"reader", "startup"}, InstallFetched(f)
        PROVE  \/ inst'.pc = "idle"
               \/ /\ inst'.build = inst.build /\ inst.pc = JffsBusy[f] /\ inst'.pc = JffsAfter[f]
                  /\ jffs'[f] = "ok"
    BY <2>1, <2>3 DEF InstallFetched, InstallState, TypeOK, FilesTypeOK
  <2>4. ASSUME InstallWriter
        PROVE  \/ inst'.pc = "idle"
               \/ /\ inst'.build = inst.build /\ inst.pc = "writer" /\ inst'.pc = "startup"
                  /\ tmp'["writer"] = inst.build
    BY <2>1, <2>4 DEF InstallWriter, InstallState, TypeOK, FilesTypeOK
  <2> QED
    BY <2>2, <2>3, <2>4
<1>4. inst'.pc \notin {"flash", "launch", "done"}
  BY <1>3 DEF JffsBusy, JffsAfter
<1>5. ~Busy("install")
  BY <1>1 DEF WorkInv, Owners
<1>6. Owners' /\ Sources'
  BY <1>1, <1>4, <1>5, Kinds DEF WorkInv, Owners, Sources, Busy, Writing
<1>7. OneScript' /\ AtBoot'
  BY <1>1, <1>2, <1>3 DEF WorkInv, OneScript, AtBoot, Alive
<1>8. BootFiles'
  <2>1. CASE inst'.pc = "idle"
    BY <2>1 DEF BootFiles
  <2>2. ASSUME NEW f \in {"reader", "startup"},
               InstallTruncates(f), inst.pc = JffsGet[f], inst'.pc = JffsBusy[f]
        PROVE  BootFiles'
    <3>1. UNCHANGED tmp /\ jffs' = [jffs EXCEPT ![f] = "bad"]
      BY <2>2 DEF InstallTruncates
    <3> QED
      BY <2>2, <3>1 DEF JffsGet, JffsBusy, BootFiles, WorkInv, Usable, TypeOK, FilesTypeOK
  <2>3. ASSUME NEW f \in {"reader", "startup"}, jffs'[f] = "ok",
               InstallFetched(f), inst.pc = JffsBusy[f], inst'.pc = JffsAfter[f]
        PROVE  BootFiles'
    <3>1. UNCHANGED tmp /\ \E v : jffs' = [jffs EXCEPT ![f] = v]
      BY <2>3 DEF InstallFetched
    <3> QED
      BY <2>3, <3>1 DEF JffsBusy, JffsAfter, BootFiles, WorkInv, Usable, TypeOK, FilesTypeOK
  <2>4. CASE InstallWriter /\ inst.pc = "writer" /\ inst'.pc = "startup" /\ tmp'["writer"] = inst.build
    <3>1. inst.build \in Builds /\ jffs["reader"] = "ok" /\ jffs' = jffs
      BY <2>4 DEF InstallWriter, WorkInv, OneScript, BootFiles
    <3> QED
      BY <2>4, <3>1 DEF BootFiles, Usable
  <2> QED
    BY <1>3, <2>1, <2>2, <2>3, <2>4
<1>9. Rewritten'
  BY <1>1, <1>4, <1>5, Kinds DEF Rewritten, Busy
<1>10. NotYetPatched'
  BY <1>1 DEF WorkInv, NotYetPatched, Running, Alive
<1> QED
  BY <1>1, <1>6, <1>7, <1>8, <1>9, <1>10, WorkAlone DEF WorkInv

LEMMA InstallWritesKeepsWork ==
  ASSUME TypeOK, WorkInv, InstallWrites
  PROVE  WorkInv'
<1> DEFINE j == IF Usable("writer") THEN EraseWrite(inst.build) ELSE [IdleJob EXCEPT !.op = "fail"]
<1>1. /\ UNCHANGED <<flash, tmp, jffs, kpatched, wd, stager, ready, uninst, power, torn>>
      /\ inst.pc = "write" /\ inst.build \in Builds /\ power = "up" /\ uninst = "idle"
      /\ ~Busy("install")
  BY DEF InstallWrites, filesVars, updateVars, history, WorkInv, OneScript, Owners
<1>2. \/ inst'.pc = "idle" /\ UNCHANGED job
      \/ inst'.pc = "flash" /\ inst'.build = inst.build /\ job' = [job EXCEPT !["install"] = j]
  BY Kinds DEF InstallWrites, TypeOK, ShellTypeOK, InstallState
<1>3. inst.build # None
  BY <1>1, BuildsAssumption
<1>4. /\ j.op \in {"erase", "fail"} /\ (j.op = "erase" => j.k = 1 /\ j.src = inst.build)
      /\ "vanish" \notin Activity => j.src = inst.build /\ (j.op = "fail" => Refused)
  <2>1. "vanish" \notin Activity => Usable("writer")
    BY <1>1 DEF WorkInv, BootFiles
  <2> QED
    BY <1>3, <2>1, Kinds DEF EraseWrite, Refused
<1>5. OneScript' /\ AtBoot' /\ BootFiles' /\ Erased'
  <2>1. OneScript' /\ AtBoot'
    BY <1>1, <1>2 DEF WorkInv, OneScript, AtBoot, Alive
  <2>2. BootFiles'
    BY <1>1, <1>2 DEF WorkInv, BootFiles
  <2>3. job'["uninstall"] = job["uninstall"]
    BY <1>2, Kinds DEF TypeOK, FlashTypeOK
  <2>4. Erased'
    BY <1>1, <2>3 DEF WorkInv, Erased, Spoilt, AllBlank, Whole, Lone, Calm
  <2> QED
    BY <2>1, <2>2, <2>4
<1>6. CASE inst'.pc = "idle" /\ UNCHANGED job
  <2>1. Owners' /\ Sources' /\ Rewritten'
    BY <1>1, <1>6 DEF WorkInv, Owners, Sources, Rewritten, Busy, Writing
  <2> QED
    BY <1>1, <1>5, <1>6, <2>1, WorkAlone DEF WorkInv
<1>7. CASE inst'.pc = "flash" /\ inst'.build = inst.build /\ job' = [job EXCEPT !["install"] = j]
  <2>1. job'["install"] = j /\ \A p \in Processes : p # "install" => job'[p] = job[p]
    BY <1>7, Kinds DEF TypeOK, FlashTypeOK
  <2> HIDE DEF j
  <2>2. Owners' /\ Sources' /\ Rewritten'
    <3>1. Owners'
      BY <1>1, <1>4, <1>7, <2>1, Kinds DEF WorkInv, Owners, Busy
    <3>2. Sources'
      BY <1>4, <1>7, <2>1, Kinds DEF WorkInv, Sources, Writing
    <3>3. Rewritten'
      BY <1>1, <1>4, <1>7, <2>1 DEF Rewritten, Refused, Ours, AllBlank, Whole
    <3> QED
      BY <3>1, <3>2, <3>3
  <2>3. Shapes'
    <3>1. Shapes
      BY DEF WorkInv
    <3> QED
      BY <1>1, <1>4, <1>7, <3>1, NewShape, Kinds
  <2> QED
    BY <1>1, <1>5, <2>2, <2>3, WorkAlone DEF WorkInv
<1> QED
  BY <1>2, <1>6, <1>7

LEMMA InstallWrittenKeepsWork ==
  ASSUME TypeOK, WorkInv, InstallWritten
  PROVE  WorkInv'
<1>1. /\ UNCHANGED <<flash, tmp, jffs, kpatched, wd, stager, ready, uninst, power, torn>>
      /\ inst.pc = "flash" /\ inst.build \in Builds /\ power = "up" /\ uninst = "idle"
      /\ job["install"].op \in {"pass", "fail"}
      /\ job' = [job EXCEPT !["install"] = IdleJob]
  BY DEF InstallWritten, Finished, filesVars, updateVars, history, WorkInv, OneScript
<1>2. inst'.pc = "launch" /\ inst'.build = inst.build
  BY DEF InstallWritten, TypeOK, ShellTypeOK, InstallState
<1>3. job'["install"] = IdleJob /\ \A p \in Processes : p # "install" => job'[p] = job[p]
  BY <1>1, Kinds DEF TypeOK, FlashTypeOK
<1>4. Owners' /\ Sources'
  BY <1>1, <1>2, <1>3, Kinds DEF WorkInv, Owners, Sources, Busy, Writing
<1>5. OneScript' /\ AtBoot' /\ BootFiles' /\ Erased'
  <2>1. OneScript' /\ AtBoot'
    BY <1>1, <1>2 DEF WorkInv, OneScript, AtBoot, Alive
  <2>2. BootFiles'
    BY <1>1, <1>2 DEF WorkInv, BootFiles
  <2>3. Erased'
    BY <1>1, <1>3, Kinds DEF WorkInv, Erased, Spoilt, AllBlank, Whole, Lone, Calm
  <2> QED
    BY <2>1, <2>2, <2>3
<1>6. Shapes'
  <2>1. Shapes
    BY DEF WorkInv
  <2> QED
    BY <1>1, <2>1, NewShape, Kinds
<1>7. Rewritten'
  <2> SUFFICES ASSUME Lone, "vanish" \notin Activity
               PROVE  Refused \/ Spoilt \/ Whole(inst.build)
    BY <1>1, <1>2, <1>3, Kinds DEF Rewritten, Spoilt, Lone, Calm, Refused, Ours, AllBlank, Whole
  <2>1. job["install"].src = inst.build /\ (job["install"].op = "fail" => Refused \/ Spoilt)
    BY <1>1 DEF WorkInv, Rewritten
  <2>2. inst.build # None
    BY <1>1, BuildsAssumption
  <2>3. Shape("install")
    BY Kinds DEF WorkInv, Shapes
  <2> QED
    BY <1>1, <2>1, <2>2, <2>3 DEF Shape
<1> QED
  BY <1>1, <1>4, <1>5, <1>6, <1>7, WorkAlone DEF WorkInv

\* What startup.sh makes of a region that holds a whole bundle, or none, or of an
\* empty /tmp: the order of the tar puts the supervisor after kmem_patch.
LEMMA StartupUnpacks ==
  ASSUME TypeOK, Startup,
         tmp["kmem"] = Bad => tmp["wdog"] \notin Builds /\ \A w \in Watchdogs : ~Alive(w),
         \/ (\A f \in Files : tmp[f] = None) /\ \A w \in Watchdogs : ~Alive(w)
         \/ jffs["reader"] = "ok" /\ (~Ours \/ \E v \in Builds : Whole(v))
  PROVE  tmp'["kmem"] = Bad => tmp'["wdog"] \notin Builds /\ \A w \in Watchdogs : ~Alive(w)'
<1> DEFINE tar == TarAfterRead
           source == IF tar \in Builds THEN tar ELSE flash[1]
           i(f)   == CHOOSE n \in 1..5 : BundleOrder[n] = f
           File(cut, f) == CASE f = "tar" -> tar
                             [] f # "tar" /\ source \in Builds /\ i(f) < cut -> source
                             [] f # "tar" /\ source \in Builds /\ i(f) = cut -> Bad
                             [] f = BundleOrder[1] /\ source = Bad /\ cut = 1 -> Bad
                             [] OTHER -> tmp[f]
<1>1. PICK cut \in Cuts(tar) : Startup!(cut)
  BY DEF Startup
<1>2. /\ "kmem" \in Files /\ "wdog" \in Files /\ "kmem" # "tar" /\ "wdog" # "tar"
      /\ i("kmem") = 2 /\ i("wdog") = 4
      /\ Bad \notin Builds /\ None \notin Builds /\ None # Bad
  BY BuildsAssumption DEF Files, BundleFiles, BundleOrder, None, Bad
<1>3. Extracted(tar, cut) = [f \in Files |-> File(cut, f)]
  BY DEF Extracted
<1> DEFINE after == Extracted(tar, cut)
<1>4. /\ tmp' = tmp \/ tmp' = after
      /\ \/ UNCHANGED wd
         \/ after["wdog"] \in Builds /\ tmp' = after
  BY <1>1
<1>5. ASSUME UNCHANGED wd, NEW w \in Watchdogs, ~Alive(w)
      PROVE  ~Alive(w)'
  BY <1>5 DEF Alive
<1>6. ASSUME after["kmem"] = Bad
      PROVE  after["wdog"] \notin Builds /\ \A w \in Watchdogs : ~Alive(w)
  <2> HIDE DEF i, tar
  <2>1. File(cut, "kmem") = Bad
    BY <1>2, <1>3, <1>6
  <2>2. tar \in Copy
    <3>1. tmp["tar"] \in Copy
      BY DEF TypeOK, FilesTypeOK, Files
    <3>2. ASSUME NEW v \in Builds, Whole(v)
          PROVE  flash[1] \in Copy
      BY <3>2, Sorts DEF Whole
    <3> QED
      BY <3>1, <3>2, Sorts DEF tar, TarAfterRead
  <2>3. CASE File(cut, "kmem") = tmp["kmem"] /\ File(cut, "wdog") = tmp["wdog"]
    BY <1>2, <1>3, <2>1, <2>3
  <2>4. CASE source \notin Builds
    <3>1. File(cut, "kmem") = tmp["kmem"] /\ File(cut, "wdog") = tmp["wdog"]
      BY <1>2, <2>4 DEF BundleOrder
    <3> QED
      BY <2>3, <3>1
  <2>5. CASE tar \in Builds
    <3>1. cut = 6
      BY <1>1, <2>5 DEF Cuts, tar
    <3>2. File(cut, "kmem") = tar
      BY <1>2, <2>5, <3>1
    <3> QED
      BY <1>2, <2>1, <2>5, <3>2
  <2>6. CASE tar = None
    <3>1. cut = 0
      BY <1>1, <1>2, <2>6 DEF Cuts, tar
    <3>2. File(cut, "kmem") = tmp["kmem"] /\ File(cut, "wdog") = tmp["wdog"]
      BY <1>2, <3>1 DEF BundleOrder
    <3> QED
      BY <2>3, <3>2
  <2>7. CASE tar = Bad /\ source \in Builds
    <3>1. cut \in 1..6 /\ flash[1] \in Builds
      BY <1>1, <1>2, <2>7 DEF Cuts, tar
    <3>2. Ours
      BY <3>1, BuildsAssumption DEF Ours
    <3>3. ~(jffs["reader"] = "ok" /\ \E v \in Builds : Whole(v))
      BY <1>2, <2>7, <3>1, <3>2 DEF tar, TarAfterRead
    <3>4. (\A f \in Files : tmp[f] = None) /\ \A w \in Watchdogs : ~Alive(w)
      BY <3>2, <3>3
    <3>5. File(cut, "kmem") = Bad => cut = 2
      BY <1>2, <2>7, <3>1, <3>4
    <3>6. File(cut, "wdog") = None
      BY <1>2, <2>1, <2>7, <3>4, <3>5
    <3> QED
      BY <1>2, <1>3, <3>4, <3>6
  <2> QED
    BY <2>2, <2>4, <2>5, <2>6, <2>7 DEF Copy
<1> HIDE DEF after, tar
<1> QED
  BY <1>4, <1>5, <1>6

\* A run of startup.sh, from the hook or at the end of install.sh.
LEMMA StartupKeepsCalm ==
  ASSUME TypeOK, WorkInv, BootHook \/ InstallLaunches
  PROVE  NoUpdateUnderWay' /\ NotYetPatched' /\ Owners'
<1>1. /\ UNCHANGED <<flash, job, jffs, kpatched, stager, ready, uninst>>
      /\ Startup \/ UNCHANGED <<tmp, wd>>
  BY DEF BootHook, InstallLaunches, flashVars, updateVars
<1>2. inst.pc # "flash" /\ inst'.pc # "flash"
  BY DEF BootHook, InstallLaunches, TypeOK, ShellTypeOK, InstallState, WorkInv, OneScript
<1>3. \/ UNCHANGED wd
      \/ \E w \in Watchdogs : ~Alive(w) /\ MovesTo(w, "top")
  BY <1>1, StartupMoves
<1>4. NoUpdateUnderWay'
  BY <1>1, <1>3 DEF WorkInv, NoUpdateUnderWay, Calm, MovesTo
<1>5. Owners'
  <2>1. ASSUME NEW x \in Watchdogs, wd[x].pc = "flash"
        PROVE  wd'[x].pc = "flash"
    BY <1>3, <2>1 DEF MovesTo, Alive
  <2> QED
    BY <1>1, <1>2, <2>1 DEF WorkInv, Owners, Busy
<1>6. NotYetPatched'
  <2> SUFFICES ASSUME PatchesFirst, ~kpatched
               PROVE  /\ \A w \in Watchdogs : ~Running(w)'
                      /\ tmp'["kmem"] = Bad => tmp'["wdog"] \notin Builds /\ \A w \in Watchdogs : ~Alive(w)'
    BY <1>1 DEF NotYetPatched
  <2>1. /\ \A w \in Watchdogs : ~Running(w)
        /\ tmp["kmem"] = Bad => tmp["wdog"] \notin Builds /\ \A w \in Watchdogs : ~Alive(w)
    BY DEF WorkInv, NotYetPatched
  <2>2. \A w \in Watchdogs : ~Running(w)'
    BY <1>3, <2>1 DEF Running, MovesTo
  <2>3. CASE UNCHANGED <<tmp, wd>>
    BY <2>1, <2>2, <2>3 DEF Alive
  <2>4. CASE Startup /\ BootHook
    <3>1. (\A f \in Files : tmp[f] = None) /\ \A w \in Watchdogs : ~Alive(w)
      BY <2>4 DEF BootHook, WorkInv, AtBoot
    <3> QED
      BY <2>1, <2>2, <2>4, <3>1, StartupUnpacks
  <2>5. CASE Startup /\ InstallLaunches
    <3>1. inst.pc = "launch" /\ jffs["reader"] = "ok" /\ inst.build \in Builds
          /\ "install" \in Activity
      BY <2>5 DEF InstallLaunches, WorkInv, BootFiles, OneScript
    <3>2. Lone /\ "vanish" \notin Activity
      BY <3>1 DEF Lone, Calm, PatchesFirst
    <3>3. ~Ours \/ Whole(inst.build)
      BY <3>1, <3>2 DEF WorkInv, Rewritten, Refused, Spoilt, PatchesFirst
    <3> QED
      BY <2>1, <2>2, <2>5, <3>1, <3>3, StartupUnpacks
  <2> QED
    BY <1>1, <2>3, <2>4, <2>5
<1> QED
  BY <1>4, <1>5, <1>6

LEMMA LaunchKeepsWork ==
  ASSUME TypeOK, WorkInv, InstallLaunches
  PROVE  WorkInv'
<1>1. /\ UNCHANGED <<flash, job, jffs, kpatched, stager, ready, uninst, power, torn>>
      /\ inst.pc = "launch" /\ inst'.pc = "done" /\ inst'.build = inst.build
  BY DEF InstallLaunches, flashVars, updateVars, history, TypeOK, ShellTypeOK, InstallState
<1>2. power = "up" /\ uninst = "idle"
  BY <1>1 DEF WorkInv, OneScript
<1>3. OneScript' /\ AtBoot' /\ BootFiles' /\ Sources'
  BY <1>1, <1>2 DEF WorkInv, OneScript, AtBoot, BootFiles, Sources, Writing
<1>4. Rewritten'
  BY <1>1 DEF WorkInv, Rewritten, Spoilt, Refused, Ours, AllBlank, Whole, Lone, Calm
<1> QED
  BY <1>1, <1>3, <1>4, StartupKeepsCalm, WorkAlone DEF WorkInv

LEMMA BootHookKeepsWork ==
  ASSUME TypeOK, WorkInv, BootHook
  PROVE  WorkInv'
<1>1. /\ UNCHANGED <<flash, job, jffs, kpatched, stager, ready, inst, uninst, torn>>
      /\ power' = "up" /\ inst.pc = "idle"
  BY DEF BootHook, flashVars, updateVars, history, WorkInv, OneScript
<1>2. OneScript' /\ AtBoot' /\ BootFiles'
  BY <1>1 DEF WorkInv, OneScript, AtBoot, BootFiles
<1> QED
  BY <1>1, <1>2, StartupKeepsCalm, WorkAlone DEF WorkInv

LEMMA UninstallKeepsWork ==
  ASSUME TypeOK, WorkInv, UninstallStep
  PROVE  WorkInv'
<1>1. /\ UNCHANGED <<flash, tmp, jffs, kpatched, ready, inst, power, torn>>
      /\ inst.pc = "idle" /\ power = "up" /\ uninst # "idle" /\ uninst' # "idle"
      /\ "uninstall" \in Activity
  <2>1. /\ UNCHANGED <<flash, tmp, jffs, kpatched, ready, inst, power, torn>>
        /\ uninst # "idle" /\ uninst' # "idle"
    BY DEF UninstallStep, UninstallKills, UninstallErases, UninstallDone, filesVars, updateVars,
           flashVars, history
  <2> QED
    BY <2>1 DEF WorkInv, OneScript, TypeOK, ShellTypeOK
<1>2. ~Busy("install")
  BY <1>1 DEF WorkInv, Owners
<1>3. OneScript' /\ AtBoot' /\ BootFiles'
  BY <1>1 DEF WorkInv, OneScript, AtBoot, BootFiles
<1>4. CASE UninstallKills
  <2>1. UNCHANGED job /\ uninst = "kill" /\ uninst' = "erase" /\ stager'.pc = "idle"
    BY <1>4, Kinds DEF UninstallKills, flashVars
  <2>2. \A w \in Watchdogs : wd'[w] = wd[w] \/ (Running(w) /\ wd'[w].pc \in {"sleep", "stopped"})
    BY <1>4 DEF UninstallKills, SessionOver
  <2>3. Owners' /\ Erased'
    BY <1>1, <2>1, <2>2 DEF WorkInv, Owners, Busy, Running, Erased, Spoilt, Lone, Calm, AllBlank, Whole
  <2>4. NoUpdateUnderWay'
    BY <1>1, <2>1, <2>2 DEF WorkInv, NoUpdateUnderWay, Calm
  <2>5. NotYetPatched'
    BY <1>1, <2>2 DEF WorkInv, NotYetPatched, Running, Alive
  <2> QED
    BY <1>1, <1>3, <2>1, <2>3, <2>4, <2>5, WorkAlone DEF WorkInv
<1>5. CASE UninstallErases \/ UninstallDone
  <2>1. /\ UNCHANGED <<wd, stager>>
        /\ \/ uninst' = "flash" /\ job' = [job EXCEPT !["uninstall"] = EraseOnly]
           \/ uninst = "flash" /\ uninst' = "done" /\ Finished("uninstall")
              /\ job' = [job EXCEPT !["uninstall"] = IdleJob]
    BY <1>5 DEF UninstallErases, UninstallDone, updateVars
  <2>2. EraseOnly.op = "erase" /\ EraseOnly.k = 1 /\ EraseOnly.src = None
    BY DEF EraseOnly
  <2>3. /\ \A p \in Processes : p # "uninstall" => job'[p] = job[p]
        /\ job'["uninstall"] = IF uninst' = "flash" THEN EraseOnly ELSE IdleJob
        /\ uninst' \in {"flash", "done"}
    BY <2>1, Kinds DEF TypeOK, FlashTypeOK
  <2>4. Owners' /\ Sources'
    BY <1>1, <2>1, <2>2, <2>3, Kinds DEF WorkInv, Owners, Sources, Busy, Writing
  <2>5. Shapes'
    <3>1. Shapes
      BY DEF WorkInv
    <3> QED
      BY <1>1, <2>1, <2>2, <3>1, NewShape, Kinds
  <2>6. Rewritten'
    BY <1>1, <2>3, Kinds DEF WorkInv, Rewritten, Spoilt, Refused, Ours, AllBlank, Whole, Lone, Calm
  <2>7. Erased'
    <3>1. ASSUME Lone, uninst = "flash", Finished("uninstall")
          PROVE  AllBlank \/ Spoilt
      <4>1. Shape("uninstall") /\ job["uninstall"].src = None
        BY <3>1, Kinds DEF WorkInv, Shapes, Sources, Finished, Busy
      <4>2. job["uninstall"].op = "pass" \/ Spoilt
        BY <3>1 DEF WorkInv, Erased, Finished
      <4> QED
        BY <4>1, <4>2 DEF Shape, AllBlank
    <3> QED
      BY <1>1, <2>1, <2>2, <2>3, <3>1, Kinds DEF Erased, Spoilt, Lone, Calm, AllBlank, Whole
  <2> QED
    BY <1>1, <1>3, <2>1, <2>4, <2>5, <2>6, <2>7, WorkAlone DEF WorkInv
<1> QED
  BY <1>4, <1>5 DEF UninstallStep

LEMMA StartingKeepsWork ==
  ASSUME TypeOK, WorkInv, UninstallStart \/ \E v \in Builds : InstallCheck(v)
  PROVE  WorkInv'
<1>1. /\ UNCHANGED <<flash, job, tmp, jffs, kpatched, wd, stager, ready, power, torn>>
      /\ inst.pc \in {"idle", "done"} /\ uninst \in {"idle", "done"} /\ power = "up"
      /\ \/ inst'.pc = "idle" /\ uninst' = "kill" /\ "uninstall" \in Activity
         \/ /\ inst'.pc = "reader" /\ inst'.build \in Builds /\ uninst' = "idle"
            /\ "install" \in Activity
            /\ \E w \in Watchdogs : ~Alive(w)
  BY Kinds DEF UninstallStart, InstallCheck, flashVars, filesVars, updateVars, history
<1>2. ~Busy("install") /\ ~Busy("uninstall")
  BY <1>1 DEF WorkInv, Owners
<1>3. Owners' /\ Sources'
  BY <1>1, <1>2 DEF WorkInv, Owners, Sources, Busy, Writing
<1>4. OneScript'
  BY <1>1 DEF WorkInv, OneScript, OneWatchdog, Alive
<1>5. AtBoot' /\ BootFiles' /\ Rewritten' /\ Erased'
  BY <1>1, <1>2 DEF WorkInv, AtBoot, BootFiles, Rewritten, Erased, Busy, Lone, Calm
<1> QED
  BY <1>1, <1>3, <1>4, <1>5, WorkAlone DEF WorkInv

LEMMA VanishKeepsWork ==
  ASSUME TypeOK, WorkInv, Vanish
  PROVE  WorkInv'
<1>1. /\ UNCHANGED <<flash, job, jffs, kpatched, wd, stager, ready, inst, uninst, power, torn>>
      /\ "vanish" \in Activity
      /\ \E f \in BundleFiles : tmp' = [tmp EXCEPT ![f] = None]
  BY DEF Vanish, flashVars, updateVars, shellVars, history
<1>2. \A f \in Files : tmp'[f] \in {tmp[f], None}
  BY <1>1 DEF TypeOK, FilesTypeOK
<1>3. AtBoot' /\ BootFiles'
  BY <1>1, <1>2 DEF WorkInv, AtBoot, BootFiles, Alive
<1>4. NotYetPatched'
  <2>1. "kmem" \in Files /\ "wdog" \in Files /\ None \notin Builds /\ None # Bad
    BY BuildsAssumption DEF Files, BundleFiles, BundleOrder, None, Bad
  <2> QED
    BY <1>1, <1>2, <2>1 DEF WorkInv, NotYetPatched, Running, Alive
<1> QED
  BY <1>1, <1>3, <1>4, WorkAlone DEF WorkInv

\* What Init and a cut of the power have in common.
NothingRuns ==
  /\ \A p \in Processes : job[p] = IdleJob
  /\ \A w \in Watchdogs : wd[w] = Off
  /\ \A f \in Files : tmp[f] = None
  /\ stager = NoScript /\ ~ready /\ inst = NoScript /\ uninst = "idle"

LEMMA WorkFromNothing == NothingRuns => WorkInv
<1> SUFFICES ASSUME NothingRuns PROVE WorkInv
  OBVIOUS
<1> USE DEF NothingRuns
<1>1. \A p \in Processes : job[p].op = "idle" /\ job[p].src = None
  BY Kinds
<1>2. \A w \in Watchdogs : wd[w].pc = "off"
  BY DEF Off
<1>3. inst.pc = "idle" /\ stager.pc = "idle"
  BY Kinds
<1>4. tmp["kmem"] # Bad
  BY DEF Files, BundleFiles, BundleOrder, None, Bad
<1>5. Owners /\ Sources
  BY <1>1, <1>3, Kinds DEF Owners, Sources, Busy, Writing
<1>6. OneScript /\ AtBoot /\ BootFiles /\ NoUpdateUnderWay /\ NotYetPatched
  BY <1>2, <1>3, <1>4 DEF OneScript, AtBoot, BootFiles, NoUpdateUnderWay, NotYetPatched, Alive, Running
<1>7. Shapes /\ Rewritten /\ Erased
  BY <1>1, <1>3, Kinds DEF Shapes, Shape, Rewritten, Erased
<1> QED
  BY <1>5, <1>6, <1>7 DEF WorkInv

LEMMA WorkInitially == Init => WorkInv
BY WorkFromNothing DEF Init, NothingRuns

LEMMA WorkInductive ==
  ASSUME IInv, WorkInv, [Next]_vars
  PROVE  WorkInv'
<1>1. TypeOK
  BY DEF IInv
<1>2. CASE \E w \in Watchdogs : DaemonStep(w)
  BY <1>1, <1>2, DaemonKeepsWork
<1>3. CASE \E p \in Processes : FlashStep(p)
  BY <1>3, ToolKeepsWork
<1>4. CASE InstallStep
  BY <1>1, <1>4, InstallFetches, InstallWritesKeepsWork, InstallWrittenKeepsWork, LaunchKeepsWork
     DEF InstallStep
<1>5. CASE PowerCut
  <2>1. NothingRuns'
    BY <1>5 DEF PowerCut, NothingRuns
  <2> QED
    BY <2>1, WorkFromNothing, PTL
<1>6. CASE UNCHANGED vars
  BY <1>6, WorkAlone DEF vars, flashVars, filesVars, updateVars, shellVars, history, WorkInv
<1> QED
  BY <1>1, <1>2, <1>3, <1>4, <1>5, <1>6, StagerKeepsWork, UninstallKeepsWork, BootHookKeepsWork,
     StartingKeepsWork, VanishKeepsWork
     DEF Next, ScriptStep, OperatorStep, DaemonStep

LEMMA WorkAlways == Spec => []IInv /\ []WorkInv
BY Initially, Inductive, WorkInitially, WorkInductive, PTL DEF Spec

--------------------------------------------------------------------------------
(* What follows *)

\* No client ever runs on a kernel that was not patched since it booted, however many
\* supervisors there are and whatever else goes on -- unless kmem_patch itself fails,
\* or install.sh loses the tool it has just fetched to one of the vanishing files of
\* /tmp, or that tool reports FAIL for what it has begun: install.sh then unpacks the
\* torn bundle it meant to replace, over an older supervisor.
THEOREM SessionsArePatched == PatchesFirst /\ Spec => []PatchedSessions
<1>1. PatchesFirst /\ WorkInv => PatchedSessions
  BY DEF WorkInv, NotYetPatched, PatchedSessions
<1>2. PatchesFirst /\ Spec => []PatchedSessions
  <2> SUFFICES ASSUME PatchesFirst PROVE Spec => []PatchedSessions
    OBVIOUS
  <2> QED
    BY <1>1, WorkAlways, PTL
<1> QED
  BY <1>2

\* When uninstall.sh says that the reserved region is blank again, it is, if its tool
\* has not reported FAIL: nobody else writes to it before another installation --
\* unless a daemon it did not wait for is told to update.
THEOREM UninstalledIsBlank == "update" \notin Activity /\ Spec => []UninstallBlanks
<1>1. "update" \notin Activity /\ WorkInv => UninstallBlanks
  BY DEF WorkInv, Erased, Spoilt, Lone, Calm, UninstallBlanks
<1>2. "update" \notin Activity /\ Spec => []UninstallBlanks
  <2> SUFFICES ASSUME "update" \notin Activity PROVE Spec => []UninstallBlanks
    OBVIOUS
  <2> QED
    BY <1>1, WorkAlways, PTL
<1> QED
  BY <1>2

\* One tool at a time, for good: nobody updates, or nobody uninstalls and there is
\* one supervisor, with one update at a time.
OneRewriter == "update" \notin Activity \/ (OneUpdate /\ "uninstall" \notin Activity)

\* What is programmed is a build.
Programmable == \A p \in Processes : job[p].op = "write" => job[p].src \in Builds

LEMMA OneRewriterAlways == OneRewriter /\ Spec => []Lone /\ []Programmable
<1>1. OneRewriter => Lone
  BY DEF OneRewriter, Lone, Calm, OneUpdate
<1>2. IInv /\ ApprovedInv => Programmable
  BY DEF IInv, HasSource, TypeOK, HistoryTypeOK, ApprovedInv, ApprovedJobs, Writing, Programmable
<1>3. "update" \notin Activity /\ IInv /\ WorkInv => Programmable
  <2> SUFFICES ASSUME "update" \notin Activity, IInv, WorkInv, NEW p \in Processes, job[p].op = "write"
               PROVE  job[p].src \in Builds
    BY DEF Programmable
  <2>1. Busy(p) /\ Writing(p) /\ job[p].src # None
    BY DEF Busy, Writing, IInv, HasSource
  <2>2. p = "install"
    BY <2>1, Kinds DEF WorkInv, Owners, NoUpdateUnderWay, Calm, Sources
  <2> QED
    BY <2>1, <2>2 DEF WorkInv, Owners, Sources, OneScript
<1>4. OneRewriter /\ Spec => []Lone /\ []Programmable
  <2> SUFFICES ASSUME OneRewriter PROVE Spec => []Lone /\ []Programmable
    OBVIOUS
  <2>1. CASE "update" \notin Activity
    BY <1>1, <1>3, <2>1, WorkAlways, PTL
  <2>2. CASE OneUpdate
    BY <1>1, <1>2, <2>2, WorkAlways, ApprovedAlways, PTL
  <2> QED
    BY <2>1, <2>2 DEF OneRewriter
<1> QED
  BY <1>4

\* The scripts wait for their tools: only the tool itself ends a rewrite.
LEMMA WritersGoOn ==
  ASSUME TypeOK, WorkInv, (\E w \in Watchdogs : DaemonStep(w)) \/ InstallStep \/ UninstallStep,
         NEW p \in Processes, Writing(p)
  PROVE  Writing(p)'
<1>1. CASE \E w \in Watchdogs : DaemonStep(w)
  <2>1. PICK w \in Watchdogs : DaemonStep(w)
    BY <1>1
  <2>2. p # w => job'[p] = job[p]
    BY <2>1, DaemonFrame
  <2>3. UNCHANGED job \/ RemoveMarkers(w) \/ WriteStaged(w)
    BY <2>1 DEF DaemonStep, WatchdogStep, Top, CopyStaged, RemoveStaging, EnsureFiles, Launch, Wake,
       Listen, SessionEnds, UpdateApply, UpdateDiscard, UpdateDo, flashVars
  <2>4. RemoveMarkers(w) \/ WriteStaged(w) => ~Writing(w)
    BY DEF RemoveMarkers, Finished, WriteStaged, WorkInv, Owners, Busy, Writing
  <2> QED
    BY <2>2, <2>3, <2>4 DEF Writing
<1>2. CASE InstallStep
  <2>1. InstallWrites \/ InstallWritten => ~Writing("install")
    BY DEF InstallWrites, InstallWritten, Finished, WorkInv, Owners, Busy, Writing
  <2>2. \/ UNCHANGED job
        \/ ~Writing("install") /\ \E j : job' = [job EXCEPT !["install"] = j]
    BY <1>2, <2>1 DEF InstallStep, InstallTruncates, InstallFetched, InstallWriter, InstallWrites,
       InstallWritten, InstallLaunches, flashVars
  <2> QED
    BY <2>2 DEF Writing, TypeOK, FlashTypeOK
<1>3. CASE UninstallStep
  <2>1. UninstallErases \/ UninstallDone => ~Writing("uninstall")
    BY DEF UninstallErases, UninstallDone, Finished, WorkInv, Owners, Busy, Writing
  <2>2. \/ UNCHANGED job
        \/ ~Writing("uninstall") /\ \E j : job' = [job EXCEPT !["uninstall"] = j]
    BY <1>3, <2>1 DEF UninstallStep, UninstallKills, UninstallErases, UninstallDone, flashVars
  <2> QED
    BY <2>2 DEF Writing, TypeOK, FlashTypeOK
<1> QED
  BY <1>1, <1>2, <1>3

\* The region is no mixture, unless a rewrite is at work on it, or the last one was cut
\* short by the power or ended in FAIL.
WholeUnlessTorn ==
  torn \/ (\E p \in Processes : Writing(p)) \/ \E c \in Cell \ {Bad} : Whole(c)

\* A tool says PASS of what it has checked only, and every other step leaves the region
\* alone.
LEMMA WholeKept ==
  ASSUME IInv, WorkInv, Programmable, WholeUnlessTorn, [Next]_vars
  PROVE  WholeUnlessTorn'
<1>1. TypeOK
  BY DEF IInv
<1>2. ASSUME UNCHANGED <<flash, torn>>, \A p \in Processes : Writing(p) => Writing(p)'
      PROVE  WholeUnlessTorn'
  BY <1>2 DEF WholeUnlessTorn, Whole
<1>3. CASE \E p \in Processes : FlashStep(p)
  <2> SUFFICES ASSUME NEW p \in Processes, FlashStep(p)
               PROVE  WholeUnlessTorn'
    BY <1>3
  <2>1. job[p] \in JobState /\ job \in [Processes -> JobState]
    BY <1>1 DEF TypeOK, FlashTypeOK
  <2>2. CASE EraseBlock(p) \/ WriteBlock(p)
    <3>1. Writing(p)'
      BY <2>1, <2>2 DEF EraseBlock, WriteBlock, Writing, JobState
    <3> QED
      BY <3>1 DEF WholeUnlessTorn
  <2>3. CASE EraseChecked(p)
    <3>1. CASE ~AllBlank
      BY <2>3, <3>1 DEF EraseChecked, WholeUnlessTorn
    <3>2. CASE AllBlank
      <4>1. Whole(Blank)'
        BY <2>3, <3>2 DEF EraseChecked, AllBlank, Whole
      <4> QED
        BY <4>1, Kinds, BuildsAssumption DEF WholeUnlessTorn, Whole, Cell, Blank, Bad
    <3> QED
      BY <3>1, <3>2
  <2>4. CASE WriteChecked(p)
    <3>1. job[p].src \in Builds
      BY <2>4 DEF WriteChecked, Programmable
    <3>2. torn' \/ Whole(job[p].src)
      BY <2>4 DEF WriteChecked
    <3>3. UNCHANGED flash
      BY <2>4 DEF WriteChecked
    <3> QED
      BY <3>1, <3>2, <3>3, BuildsAssumption DEF WholeUnlessTorn, Whole, Cell, Bad
  <2>5. CASE GivesUp(p)
    BY <2>5 DEF GivesUp, WholeUnlessTorn
  <2> QED
    BY <2>2, <2>3, <2>4, <2>5 DEF FlashStep
<1>4. CASE \E w \in Watchdogs : DaemonStep(w)
  BY <1>1, <1>2, <1>4, DaemonFrame, WritersGoOn
<1>5. CASE InstallStep
  <2>1. UNCHANGED <<flash, torn>>
    BY <1>5 DEF InstallStep, InstallTruncates, InstallFetched, InstallWriter, InstallWrites,
       InstallWritten, InstallLaunches, flashVars, history
  <2> QED
    BY <1>1, <1>2, <1>5, <2>1, WritersGoOn
<1>6. CASE UninstallStep
  <2>1. UNCHANGED <<flash, torn>>
    BY <1>6 DEF UninstallStep, UninstallKills, UninstallErases, UninstallDone, flashVars, history
  <2> QED
    BY <1>1, <1>2, <1>6, <2>1, WritersGoOn
<1>7. CASE StagerStep \/ BootHook \/ (\E v \in Builds : InstallCheck(v)) \/ UninstallStart \/ Vanish
             \/ UNCHANGED vars
  <2>1. UNCHANGED <<flash, torn, job>>
    BY <1>7 DEF StagerStep, BootHook, InstallCheck, UninstallStart, Vanish, vars, flashVars, history
  <2> QED
    BY <1>2, <2>1 DEF Writing
<1>8. CASE PowerCut
  BY <1>8 DEF PowerCut, WholeUnlessTorn, Whole
<1> QED
  BY <1>3, <1>4, <1>5, <1>6, <1>7, <1>8 DEF Next, ScriptStep, OperatorStep, DaemonStep

LEMMA WholeInitially == Init => WholeUnlessTorn
<1> SUFFICES ASSUME Init PROVE WholeUnlessTorn
  OBVIOUS
<1>1. PICK c \in FirstFlash : Init!(c)
  BY DEF Init
<1>2. c \in Cell \ {Bad}
  BY FirstFlashAssumption, BuildsAssumption DEF Cell, Bad, Blank, Foreign
<1> QED
  BY <1>1, <1>2 DEF WholeUnlessTorn, Whole

LEMMA WholeAlways == OneRewriter /\ Spec => []WholeUnlessTorn
<1>1. IInv /\ WorkInv /\ Programmable /\ WholeUnlessTorn /\ [Next]_vars => WholeUnlessTorn'
  BY WholeKept
<1>2. OneRewriter /\ Spec => []WholeUnlessTorn
  <2> SUFFICES ASSUME OneRewriter PROVE Spec => []WholeUnlessTorn
    OBVIOUS
  <2> QED
    BY <1>1, WorkAlways, OneRewriterAlways, WholeInitially, PTL DEF Spec
<1> QED
  BY <1>2

\* "Installed for good" is true when install.sh says it: the region holds the bundle
\* that was served and both boot files are in place, unless the region held foreign
\* bytes or the last rewrite was cut short or ended in FAIL -- and as long as the tool
\* that was fetched does not vanish and nothing is updated afterwards.
THEOREM DoneIsInstalled ==
  {"update", "vanish"} \cap Activity = {} /\ Spec => []DoneMeansInstalled
<1>1. {"update", "vanish"} \cap Activity = {} /\ WorkInv /\ WholeUnlessTorn => DoneMeansInstalled
  <2> SUFFICES ASSUME "update" \notin Activity, "vanish" \notin Activity, WorkInv, WholeUnlessTorn,
                      inst.pc = "done", flash[1] # Foreign, ~torn
               PROVE  /\ jffs["reader"] = "ok" /\ jffs["startup"] = "ok"
                      /\ Whole(inst.build)
    BY DEF DoneMeansInstalled
  <2>1. jffs["reader"] = "ok" /\ jffs["startup"] = "ok"
    BY DEF WorkInv, BootFiles
  <2>2. Refused \/ Whole(inst.build)
    BY DEF WorkInv, Rewritten, Lone, Calm, Spoilt
  <2>3. \A p \in Processes : ~Writing(p)
    <3>1. ~Busy("install") /\ ~Busy("uninstall") /\ \A w \in Watchdogs : ~Busy(w)
      BY DEF WorkInv, Owners, OneScript, NoUpdateUnderWay, Calm
    <3> QED
      BY <3>1, Kinds DEF Busy, Writing
  <2>4. ~Refused
    <3>1. PICK c \in Cell : Whole(c)
      BY <2>3 DEF WholeUnlessTorn
    <3>2. flash[1] = c
      BY <3>1, Kinds DEF Whole
    <3> QED
      BY <3>1, <3>2 DEF Refused, Ours, AllBlank
  <2> QED
    BY <2>1, <2>2, <2>4
<1>2. {"update", "vanish"} \cap Activity = {} /\ Spec => []DoneMeansInstalled
  <2> SUFFICES ASSUME {"update", "vanish"} \cap Activity = {} PROVE Spec => []DoneMeansInstalled
    OBVIOUS
  <2>1. OneRewriter
    BY DEF OneRewriter
  <2> QED
    BY <1>1, <2>1, WorkAlways, WholeAlways, PTL
<1> QED
  BY <1>2

--------------------------------------------------------------------------------
(* What runs and what boots *)

\* The live files change only by an update or an installation: no copy fails and no
\* file vanishes.  What a torn bundle has left out may be fetched again.
NothingLost ==
  OneUpdate /\ {"uninstall", "vanish", "copyfail"} \cap Activity = {}

Fresh == tmp["client"] \in Builds /\ Whole(tmp["client"])

\* The client the supervisor would launch is the bundle that boots, but between the
\* first copy of an update and the end of the rewrite it announces.
RunsInv(w) ==
  /\ Running(w) => wd[w].run = tmp["client"]
  /\ ~torn /\ Alive(w) => Usable("writer")
  /\ ~torn /\ Alive(w) /\ wd[w].pc # "flash" => Ours
  /\ ~torn /\ Alive(w) /\ wd[w].pc \notin {"cp_kmem", "cp_patched", "write", "flash"} => Fresh
  /\ wd[w].pc \in {"cp_kmem", "cp_patched", "write"} =>
       IF stage.ext = None THEN ~torn => Fresh ELSE tmp["client"] = stage.ext
  /\ wd[w].pc = "flash" =>
       IF job[w].op = "fail" THEN ~torn => Fresh
       ELSE job[w].src \in Builds /\ tmp["client"] = job[w].src /\ Usable("writer")

\* What was unpacked was read from a region that has remained ours.
ReadFromOurs ==
  \/ torn
  \/ \E p \in Processes : Writing(p)
  \/ tmp["tar"] = None /\ tmp["wdog"] = None
  \/ Ours

BootsInv == ReadFromOurs /\ \A w \in Watchdogs : RunsInv(w)

LEMMA LostNothing ==
  ASSUME NothingLost
  PROVE  OneUpdate /\ OneRewriter /\ OneWatchdog
         /\ "uninstall" \notin Activity /\ "vanish" \notin Activity /\ "copyfail" \notin Activity
BY DEF NothingLost, OneRewriter, OneUpdate

\* What an untorn or a torn bundle leaves in a file of /tmp.
LEMMA ExtractedFile ==
  ASSUME NEW tar, NEW cut, NEW f \in Files
  PROVE  /\ f = "tar" => Extracted(tar, cut)[f] = tar
         /\ f \notin {"tar", "client"} /\ tar \notin Builds /\ flash[1] \notin Builds => Extracted(tar, cut)[f] = tmp[f]
         /\ tar \in Builds /\ cut = 6 => Extracted(tar, cut)[f] = tar
<1> DEFINE source == IF tar \in Builds THEN tar ELSE flash[1]
           i(g)   == CHOOSE n \in 1..5 : BundleOrder[n] = g
           File(g) == CASE g = "tar" -> tar
                        [] g # "tar" /\ source \in Builds /\ i(g) < cut -> source
                        [] g # "tar" /\ source \in Builds /\ i(g) = cut -> Bad
                        [] g = BundleOrder[1] /\ source = Bad /\ cut = 1 -> Bad
                        [] OTHER -> tmp[g]
<1>1. Extracted(tar, cut)[f] = File(f)
  BY DEF Extracted
<1>2. f # "tar" => i(f) \in 1..5
  <2>1. f # "tar" => \E n \in 1..5 : BundleOrder[n] = f
    BY DEF Files, BundleFiles
  <2> QED
    BY <2>1
<1> HIDE DEF i
<1>3. f = "tar" => File(f) = tar
  BY DEF BundleOrder
<1>4. f \notin {"tar", "client"} /\ tar \notin Builds /\ flash[1] \notin Builds => File(f) = tmp[f]
  BY DEF BundleOrder
<1>5. tar \in Builds /\ cut = 6 => File(f) = tar
  BY <1>2
<1> QED
  BY <1>1, <1>3, <1>4, <1>5

LEMMA BootsByStartup ==
  ASSUME IInv, WorkInv, WholeUnlessTorn, ReadFromOurs, Startup, UNCHANGED <<flash, job, torn>>,
         \A p \in Processes : ~Writing(p), \A w \in Watchdogs : ~Alive(w), OneWatchdog,
         (\A f \in Files : tmp[f] = None) \/ jffs["reader"] = "ok"
  PROVE  BootsInv'
<1> DEFINE tar == TarAfterRead
<1>1. PICK cut \in Cuts(tar) : Startup!(cut)
  BY DEF Startup
<1> DEFINE after == Extracted(tar, cut)
<1>2. /\ tmp' = tmp \/ tmp' = after
      /\ \/ UNCHANGED wd
         \/ /\ after["wdog"] \in Builds /\ tmp' = after
            /\ \E w \in Watchdogs : wd' = [wd EXCEPT ![w] = [Off EXCEPT !.pc = "top"]]
  BY <1>1
<1>3. /\ {"tar", "wdog", "client", "writer"} \subseteq Files
      /\ None \notin Builds /\ Bad \notin Builds /\ Blank \notin Builds /\ Foreign \notin Builds
  BY BuildsAssumption DEF Files, BundleFiles, BundleOrder
<1> SUFFICES ASSUME ~torn PROVE BootsInv'
  <2>1. ASSUME torn PROVE BootsInv'
    <3>1. torn'
      BY <2>1
    <3>2. \A w \in Watchdogs : wd'[w].pc \in {"off", "stopped", "top"}
      <4> HIDE DEF after
      <4> QED
        BY <1>2 DEF Alive, Off, IInv, TypeOK, WatchdogTypeOK
    <3> QED
      BY <3>1, <3>2 DEF BootsInv, ReadFromOurs, RunsInv, Running
  <2> QED
    BY <2>1
<1>4. tar # None => Ours
  BY DEF ReadFromOurs, TarAfterRead
<1>5. tar \in Builds => Ours /\ cut = 6
  BY <1>1, <1>3, <1>4 DEF Cuts
<1>6. flash[1] \in Builds => Ours
  BY <1>3 DEF Ours
<1>7. after["wdog"] # None => Ours
  <2> HIDE DEF tar
  <2>1. CASE tar \in Builds
    BY <1>5, <2>1
  <2>2. CASE flash[1] \in Builds
    BY <1>6, <2>2
  <2>3. CASE tar \notin Builds /\ flash[1] \notin Builds
    <3>1. after["wdog"] = tmp["wdog"]
      BY <1>3, <2>3, ExtractedFile
    <3> QED
      BY <3>1 DEF ReadFromOurs
  <2> QED
    BY <2>1, <2>2, <2>3
<1>8. after["tar"] = tar
  BY <1>3, ExtractedFile
<1>9. ReadFromOurs'
  <2> HIDE DEF after, tar
  <2> QED
    BY <1>2, <1>4, <1>7, <1>8 DEF ReadFromOurs, Ours
<1>10. CASE UNCHANGED wd
  <2>1. \A w \in Watchdogs : ~Alive(w)'
    BY <1>10 DEF Alive
  <2> QED
    BY <1>9, <2>1 DEF BootsInv, RunsInv, Alive, Running
<1>11. CASE /\ after["wdog"] \in Builds /\ tmp' = after
            /\ \E w \in Watchdogs : wd' = [wd EXCEPT ![w] = [Off EXCEPT !.pc = "top"]]
  <2>1. Ours
    BY <1>3, <1>7, <1>11
  <2>2. ~torn => \E v \in Builds : Whole(v) /\ tar = v
    <3> SUFFICES ASSUME ~torn PROVE \E v \in Builds : Whole(v) /\ tar = v
      OBVIOUS
    <3>1. PICK c \in Cell \ {Bad} : Whole(c)
      BY DEF WholeUnlessTorn
    <3>2. flash[1] = c
      BY <3>1, Kinds DEF Whole
    <3>3. c \in Builds
      BY <2>1, <3>1, <3>2 DEF Ours, Cell
    <3>4. jffs["reader"] = "ok"
      <4>1. ASSUME jffs["reader"] # "ok", \A f \in Files : tmp[f] = None
            PROVE  FALSE
        <5>1. tar = None
          BY <1>3, <4>1 DEF TarAfterRead
        <5>2. cut = 0
          <6> HIDE DEF tar
          <6> QED
            BY <1>1, <1>3, <5>1 DEF Cuts, tar, None, Bad
        <5>3. after["wdog"] = tmp["wdog"]
          <6> DEFINE i(g) == CHOOSE n \in 1..5 : BundleOrder[n] = g
          <6>1. i("wdog") = 4
            BY DEF BundleOrder
          <6> HIDE DEF i
          <6>2. Extracted(None, 0)["wdog"] =
                  CASE "wdog" = "tar" -> None
                    [] "wdog" # "tar" /\ flash[1] \in Builds /\ i("wdog") < 0 -> flash[1]
                    [] "wdog" # "tar" /\ flash[1] \in Builds /\ i("wdog") = 0 -> Bad
                    [] "wdog" = BundleOrder[1] /\ flash[1] = Bad /\ 0 = 1 -> Bad
                    [] OTHER -> tmp["wdog"]
            BY <1>3 DEF Extracted, i
          <6>3. Extracted(None, 0)["wdog"] = tmp["wdog"]
            BY <6>1, <6>2
          <6> QED
            BY <5>1, <5>2, <6>3
        <5> QED
          BY <1>3, <1>11, <4>1, <5>3
      <4> QED
        BY <4>1
    <3> QED
      BY <2>1, <3>1, <3>2, <3>3, <3>4 DEF TarAfterRead
  <2>3. ~torn => Fresh' /\ Usable("writer")'
    <3> SUFFICES ASSUME ~torn PROVE Fresh' /\ Usable("writer")'
      OBVIOUS
    <3>1. PICK v \in Builds : Whole(v) /\ tar = v
      BY <2>2
    <3>2. after["client"] = v /\ after["writer"] = v
      BY <1>3, <1>5, <3>1, ExtractedFile
    <3> HIDE DEF after, tar
    <3> QED
      BY <1>11, <3>1, <3>2 DEF Fresh, Usable, Whole
  <2>4. \A w \in Watchdogs : wd'[w].pc = "top"
    BY <1>11 DEF Off, OneWatchdog, IInv, TypeOK, WatchdogTypeOK
  <2>5. Ours'
    BY <2>1 DEF Ours
  <2> QED
    BY <1>9, <2>3, <2>4, <2>5 DEF BootsInv, RunsInv, Running
<1> QED
  BY <1>2, <1>10, <1>11


\* A step that changes neither what is in /tmp nor what is in flash, outside an
\* application of an update.
LEMMA RunsAlone ==
  ASSUME NEW w \in Watchdogs, RunsInv(w), UNCHANGED <<flash, torn>>, Alive(w),
         tmp'["writer"] = tmp["writer"], ~torn => tmp'["client"] = tmp["client"],
         {wd[w].pc, wd'[w].pc} \cap {"cp_kmem", "cp_patched", "write", "flash"} = {},
         Running(w)' => wd'[w].run = tmp'["client"]
  PROVE  RunsInv(w)'
<1>1. (~torn => (Fresh' <=> Fresh)) /\ (Ours' <=> Ours) /\ (Usable("writer")' <=> Usable("writer"))
  BY DEF Fresh, Whole, Ours, Usable
<1> QED
  BY <1>1 DEF RunsInv

LEMMA RunsByCopy ==
  ASSUME IInv, NothingLost, NEW w \in Watchdogs, RunsInv(w), CopyStaged(w)
  PROVE  RunsInv(w)'
<1>1. /\ UNCHANGED <<flash, torn, stage>> /\ wd[w].pc \in {"cp_client", "cp_kmem", "cp_patched"}
      /\ tmp' = [tmp EXCEPT ![CopyTarget[wd[w].pc]] =
                   IF stage.ext # None THEN stage.ext ELSE tmp[CopyTarget[wd[w].pc]]]
  BY LostNothing DEF CopyStaged, CopyTarget, flashVars, updateVars, history
<1>2. wd'[w].pc = AfterCopy[wd[w].pc]
  BY WatchdogMoves DEF IInv, MovesTo
<1>3. {"client", "kmem", "patched", "writer"} \subseteq Files /\ tmp \in [Files -> Copy]
  BY DEF IInv, TypeOK, FilesTypeOK, Files, BundleFiles, BundleOrder
<1>4. tmp'["writer"] = tmp["writer"]
  BY <1>1, <1>3 DEF CopyTarget
<1>5. tmp'["client"] = IF stage.ext # None /\ wd[w].pc = "cp_client" THEN stage.ext ELSE tmp["client"]
  BY <1>1, <1>3 DEF CopyTarget
<1>6. /\ wd'[w].pc \in {"cp_kmem", "cp_patched", "write"}
      /\ ~Running(w)' /\ Alive(w)
  BY <1>1, <1>2 DEF AfterCopy, Running, Alive
<1>7. ~torn => Ours' /\ Usable("writer")'
  BY <1>1, <1>4, <1>6 DEF RunsInv, Ours, Usable
<1>8. IF stage.ext = None THEN ~torn => Fresh' ELSE tmp'["client"] = stage.ext
  <2>1. wd[w].pc = "cp_client" => (~torn => Fresh)
    BY <1>6 DEF RunsInv
  <2>2. wd[w].pc # "cp_client" => IF stage.ext = None THEN ~torn => Fresh ELSE tmp["client"] = stage.ext
    BY <1>1 DEF RunsInv
  <2>3. tmp'["client"] = tmp["client"] => (Fresh' <=> Fresh)
    BY <1>1 DEF Fresh, Whole
  <2> QED
    BY <1>5, <2>1, <2>2, <2>3
<1> QED
  BY <1>1, <1>6, <1>7, <1>8 DEF RunsInv

LEMMA RunsByWrite ==
  ASSUME IInv, StagedInv, NEW w \in Watchdogs, RunsInv(w), WriteStaged(w)
  PROVE  RunsInv(w)'
<1>1. /\ UNCHANGED <<flash, tmp, torn, stage>> /\ wd[w].pc = "write" /\ Alive(w) /\ Applying(w)
      /\ job'[w] = IF Usable("writer") THEN EraseWrite(stage.env) ELSE [IdleJob EXCEPT !.op = "fail"]
  BY Kinds DEF WriteStaged, filesVars, updateVars, history, Alive, Applying, IInv, TypeOK, FlashTypeOK
<1>2. wd'[w].pc = "flash"
  BY WatchdogMoves DEF IInv, MovesTo
<1>3. stage.ext = stage.env /\ stage.env \in Builds \cup {None}
  BY <1>1 DEF StagedInv, Verified, IInv, TypeOK, UpdateTypeOK, Copy
<1>4. (Fresh' <=> Fresh) /\ (Usable("writer")' <=> Usable("writer"))
  BY <1>1 DEF Fresh, Whole, Usable
<1>5. CASE job'[w].op = "fail"
  <2>1. ~torn => stage.env = None
    BY <1>1, <1>5 DEF RunsInv, EraseWrite
  <2>2. ~torn => Fresh
    BY <1>1, <1>3, <2>1 DEF RunsInv
  <2> QED
    BY <1>1, <1>2, <1>4, <1>5, <2>2 DEF RunsInv, Running
<1>6. CASE job'[w].op # "fail"
  <2>1. Usable("writer") /\ job'[w].src = stage.env /\ stage.env # None
    BY <1>1, <1>6, Kinds DEF EraseWrite
  <2>2. tmp["client"] = stage.ext
    BY <1>1, <1>3, <2>1 DEF RunsInv
  <2> QED
    BY <1>1, <1>2, <1>3, <1>4, <1>6, <2>1, <2>2 DEF RunsInv, Running
<1> QED
  BY <1>5, <1>6

LEMMA RunsByMarkers ==
  ASSUME IInv, WorkInv, NothingLost, NEW w \in Watchdogs, RunsInv(w), RemoveMarkers(w)
  PROVE  RunsInv(w)'
<1>1. /\ UNCHANGED <<flash, tmp, torn>> /\ wd[w].pc = "flash" /\ job[w].op \in {"pass", "fail"}
  BY DEF RemoveMarkers, Finished, filesVars, history
<1>2. wd'[w].pc = "clean"
  BY WatchdogMoves DEF IInv, MovesTo
<1>3. ~torn => Fresh
  <2>1. Shape(w)
    BY Kinds, LostNothing DEF WorkInv, Shapes, Lone
  <2>2. CASE job[w].op = "pass"
    <3>1. job[w].src \in Builds /\ tmp["client"] = job[w].src
      BY <1>1, <2>2 DEF RunsInv
    <3>2. job[w].src # None
      BY <3>1, BuildsAssumption
    <3> QED
      BY <2>1, <2>2, <3>1, <3>2 DEF Shape, Fresh
  <2> QED
    BY <1>1, <2>2 DEF RunsInv
<1>4. Fresh => Ours
  BY Kinds, BuildsAssumption DEF Fresh, Whole, Ours
<1>5. (Fresh' <=> Fresh) /\ (Ours' <=> Ours) /\ (Usable("writer")' <=> Usable("writer"))
  BY <1>1 DEF Fresh, Whole, Ours, Usable
<1>6. ~torn => Usable("writer")
  BY <1>1 DEF RunsInv, Alive
<1> QED
  BY <1>1, <1>2, <1>3, <1>4, <1>5, <1>6 DEF RunsInv, Running

\* Every other step of the supervisor and its daemon.
LEMMA RunsByOthers ==
  ASSUME IInv, NothingLost, NEW w \in Watchdogs, RunsInv(w), DaemonStep(w),
         ~CopyStaged(w), ~WriteStaged(w), ~RemoveMarkers(w)
  PROVE  RunsInv(w)'
<1>1. TypeOK /\ Alive(w)
  BY DaemonFrame DEF IInv
<1>2. UNCHANGED <<flash, torn>>
  BY <1>1, DaemonFrame
<1>3. /\ tmp'["writer"] = tmp["writer"] /\ (~torn => tmp'["client"] = tmp["client"])
      /\ EnsureFiles(w) \/ UNCHANGED tmp
  <2>1. ASSUME EnsureFiles(w)
        PROVE  /\ tmp'["writer"] = tmp["writer"]
               /\ ~torn => tmp'["client"] = tmp["client"]
    <3>1. wd[w].pc = "ensure"
      BY <2>1 DEF EnsureFiles
    <3>2. ~torn => tmp["client"] \in Builds
      BY <1>1, <3>1 DEF RunsInv, Fresh
    <3>3. PICK v \in Builds, got \in SUBSET {f \in Updatable : TftpHost /\ tmp[f] = None} :
            tmp' = [f \in Files |-> IF f \in got THEN v ELSE tmp[f]]
      BY <2>1 DEF EnsureFiles
    <3>4. "writer" \notin got /\ (~torn => "client" \notin got)
      BY <3>2, <3>3, BuildsAssumption DEF Updatable
    <3>5. {"client", "writer"} \subseteq Files
      BY DEF Files, BundleFiles, BundleOrder
    <3> QED
      BY <3>3, <3>4, <3>5
  <2>2. EnsureFiles(w) \/ UNCHANGED tmp
    BY DEF DaemonStep, WatchdogStep, Top, RemoveStaging, Launch, Wake, Listen, SessionEnds,
       UpdateApply, UpdateDiscard, UpdateDo, filesVars
  <2> QED
    BY <2>1, <2>2
<1>4. wd[w].pc \notin {"cp_kmem", "cp_patched", "write", "flash"}
  BY DEF DaemonStep, WatchdogStep, Top, RemoveStaging, EnsureFiles, Launch, Wake, Listen,
         SessionEnds, UpdateApply, UpdateDiscard, UpdateDo, Running
<1>5. /\ wd'[w].pc \notin {"cp_kmem", "cp_patched", "write", "flash"}
      /\ Running(w)' => wd'[w].run = tmp'["client"]
  <2>1. CASE Top(w) \/ RemoveStaging(w) \/ EnsureFiles(w) \/ Wake(w) \/ SessionEnds(w) \/ UpdateApply(w)
    <3>1. \E pc \in {"cp_client", "ensure", "run", "top", "sleep", "stopped"} : MovesTo(w, pc)
      BY <1>1, <2>1, WatchdogMoves DEF Ends
    <3> QED
      BY <3>1 DEF MovesTo, Running
  <2>2. CASE UpdateDiscard(w) \/ \E v \in Builds : UpdateDo(w, v)
    <3>1. UNCHANGED tmp
      BY <2>2 DEF UpdateDiscard, UpdateDo, filesVars
    <3> QED
      BY <1>4, <2>2, <3>1 DEF UpdateDiscard, UpdateDo, RunsInv, Running
  <2>3. CASE Launch(w)
    <3> DEFINE login == [wd[w] EXCEPT !.pc = "login", !.run = tmp["client"]]
    <3>1. login.pc = "login" /\ login.run = tmp["client"]
      BY <1>1 DEF TypeOK, WatchdogTypeOK, WatchdogState
    <3>2. \/ wd' = [wd EXCEPT ![w] = login]
          \/ wd' = [wd EXCEPT ![w] = SessionOver(wd[w], TRUE)]
      BY <2>3 DEF Launch
    <3>3. SessionOver(wd[w], TRUE).pc \in {"sleep", "stopped"}
      BY DEF SessionOver
    <3>4. UNCHANGED tmp
      BY <2>3 DEF Launch, filesVars
    <3> HIDE DEF login
    <3> QED
      BY <1>1, <3>1, <3>2, <3>3, <3>4 DEF TypeOK, WatchdogTypeOK, Running
  <2>4. CASE Listen(w)
    <3>1. wd[w] \in WatchdogState /\ wd[w].run = tmp'["client"]
      BY <1>1, <2>4 DEF Listen, filesVars, RunsInv, Running, TypeOK, WatchdogTypeOK
    <3>2. \/ wd' = [wd EXCEPT ![w].pc = "serve"]
          \/ \E q \in Quick : wd' = [wd EXCEPT ![w] = SessionOver(wd[w], q)]
      BY <2>4 DEF Listen
    <3>3. \A q : SessionOver(wd[w], q).pc \in {"sleep", "stopped"}
      BY DEF SessionOver
    <3>4. CASE wd' = [wd EXCEPT ![w].pc = "serve"]
      BY <1>1, <3>1, <3>4 DEF TypeOK, WatchdogTypeOK, WatchdogState
    <3>5. CASE \E q \in Quick : wd' = [wd EXCEPT ![w] = SessionOver(wd[w], q)]
      BY <1>1, <3>3, <3>5 DEF TypeOK, WatchdogTypeOK, Running
    <3> QED
      BY <3>2, <3>4, <3>5
  <2> QED
    BY <2>1, <2>2, <2>3, <2>4 DEF DaemonStep, WatchdogStep
<1> QED
  BY <1>1, <1>2, <1>3, <1>4, <1>5, RunsAlone


LEMMA BootsByDaemon ==
  ASSUME IInv, WorkInv, StagedInv, NothingLost, BootsInv, NEW w \in Watchdogs, DaemonStep(w)
  PROVE  BootsInv'
<1>1. RunsInv(w)'
  BY RunsByCopy, RunsByWrite, RunsByMarkers, RunsByOthers DEF BootsInv
<1>2. ReadFromOurs'
  <2>1. /\ UNCHANGED <<flash, torn>> /\ tmp'["tar"] = tmp["tar"] /\ tmp'["wdog"] = tmp["wdog"]
        /\ \A p \in Processes : Writing(p) => Writing(p)'
    BY DaemonFrame, WritersGoOn DEF IInv
  <2> QED
    BY <2>1 DEF BootsInv, ReadFromOurs, Ours
<1> QED
  BY <1>1, <1>2, LostNothing DEF BootsInv, OneWatchdog

LEMMA BootsByTool ==
  ASSUME IInv, WorkInv, NothingLost, BootsInv, NEW p \in Processes, FlashStep(p)
  PROVE  BootsInv'
<1>1. /\ UNCHANGED <<tmp, wd, stage, inst>>
      /\ \A q \in Processes : job'[q].src = job[q].src /\ (q # p => job'[q] = job[q])
      /\ Writing(p) /\ Busy(p) /\ Busy(p)'
  <2>1. Writing(p) => Busy(p)
    BY DEF Writing, Busy
  <2> QED
    BY <2>1, ToolFrame DEF IInv
<1>2. Shape(p)' /\ (job'[p].op = "fail" => torn')
  BY ToolShape, LostNothing DEF WorkInv, Shapes, Lone, Spoilt
<1>3. p # "uninstall"
  BY <1>1, LostNothing DEF WorkInv, Owners, OneScript
<1>4. job[p].src \in Builds
  <2>1. CASE p \in Watchdogs
    BY <1>1, <2>1 DEF WorkInv, Owners, BootsInv, RunsInv, Writing
  <2>2. CASE p = "install"
    BY <1>1, <2>2 DEF WorkInv, Owners, Sources, OneScript
  <2> QED
    BY <1>3, <2>1, <2>2, Kinds
<1>5. ReadFromOurs'
  <2>1. CASE job'[p].op = "pass"
    <3>1. Whole(job[p].src)'
      BY <1>1, <1>2, <1>4, <2>1, BuildsAssumption DEF Shape
    <3>2. Ours'
      BY <1>1, <1>4, <3>1, Kinds, BuildsAssumption DEF Whole, Ours
    <3> QED
      BY <3>2 DEF ReadFromOurs
  <2>2. CASE job'[p].op = "fail"
    BY <1>2, <2>2 DEF ReadFromOurs
  <2>3. CASE job'[p].op \notin {"pass", "fail"}
    <3>1. Writing(p)'
      <4>1. job' \in [Processes -> JobState]
        BY Inductive DEF IInv, TypeOK, FlashTypeOK, Next, ScriptStep
      <4> QED
        BY <1>1, <2>3, <4>1 DEF Writing, Busy, JobState
    <3> QED
      BY <3>1 DEF ReadFromOurs
  <2> QED
    BY <2>1, <2>2, <2>3
<1>6. ASSUME NEW w \in Watchdogs
      PROVE  RunsInv(w)'
  <2>1. CASE p = w
    <3>1. wd[w].pc = "flash" /\ job[w].op # "fail"
      BY <1>1, <2>1 DEF WorkInv, Owners, Writing
    <3>2. tmp["client"] = job[w].src /\ Usable("writer")
      BY <3>1 DEF BootsInv, RunsInv
    <3> QED
      BY <1>1, <1>2, <1>4, <2>1, <3>1, <3>2 DEF RunsInv, Running, Usable
  <2>2. CASE p # w
    <3>1. p = "install"
      BY <1>3, <2>2, Kinds, LostNothing DEF OneWatchdog
    <3>2. ~Alive(w)
      BY <1>1, <3>1, LostNothing DEF WorkInv, Owners, OneScript
    <3> QED
      BY <1>1, <3>2 DEF RunsInv, Alive, Running
  <2> QED
    BY <2>1, <2>2
<1> QED
  BY <1>5, <1>6 DEF BootsInv

LEMMA BootsByStager ==
  ASSUME StagedInv, BootsInv, StagerStep
  PROVE  BootsInv'
<1>1. UNCHANGED <<flash, job, tmp, wd, torn>>
  BY DEF StagerStep, flashVars, filesVars, history
<1>2. stager.pc # "idle"
  BY DEF StagerStep, StagerFetches, StagerFetched, StagerVerified, StagerExtracts, StagerTested,
         StagerTouches, StagerFails, StagerAt
<1>3. \A w \in Watchdogs : ~Applying(w)
  BY <1>2 DEF StagedInv
<1> QED
  BY <1>1, <1>3 DEF BootsInv, ReadFromOurs, RunsInv, Running, Alive, Applying, Usable, Ours, Fresh, Whole, Writing

\* Where no supervisor is alive, only what was read and the region matter.
LEMMA BootsWithout ==
  ASSUME BootsInv, UNCHANGED <<flash, wd, torn>>, \A w \in Watchdogs : ~Alive(w),
         tmp'["tar"] = tmp["tar"], tmp'["wdog"] = tmp["wdog"],
         \A p \in Processes : Writing(p) => Writing(p)'
  PROVE  BootsInv'
<1>1. ReadFromOurs'
  BY DEF BootsInv, ReadFromOurs, Ours
<1>2. \A w \in Watchdogs : RunsInv(w)'
  BY DEF RunsInv, Alive, Running
<1> QED
  BY <1>1, <1>2 DEF BootsInv

LEMMA BootsByScripts ==
  ASSUME IInv, WorkInv, NothingLost, WholeUnlessTorn, BootsInv, InstallStep \/ BootHook
  PROVE  BootsInv'
<1>1. \A w \in Watchdogs : ~Alive(w)
  <2>1. InstallStep => inst.pc \notin {"idle", "done"}
    BY DEF InstallStep, InstallTruncates, InstallFetched, InstallWriter, InstallWrites,
           InstallWritten, InstallLaunches, JffsGet, JffsBusy
  <2>2. BootHook => power = "boot"
    BY DEF BootHook
  <2> QED
    BY <2>1, <2>2, LostNothing DEF WorkInv, OneScript, AtBoot
<1>2. UNCHANGED <<flash, torn>>
  BY DEF InstallStep, BootHook, InstallTruncates, InstallFetched, InstallWriter, InstallWrites,
         InstallWritten, InstallLaunches, flashVars, history
<1>3. \A p \in Processes : Writing(p) => Writing(p)'
  <2>1. CASE InstallStep
    BY <2>1, WritersGoOn DEF IInv
  <2>2. CASE BootHook
    BY <2>2 DEF BootHook, flashVars, Writing
  <2> QED
    BY <2>1, <2>2
<1>4. CASE Startup /\ (BootHook \/ InstallLaunches)
  <2>1. UNCHANGED job /\ uninst = "idle" /\ inst.pc # "flash"
    BY <1>4 DEF BootHook, InstallLaunches, flashVars, WorkInv, OneScript, TypeOK, ShellTypeOK, IInv
  <2>2. \A p \in Processes : ~Writing(p)
    <3>1. \A w \in Watchdogs : wd[w].pc # "flash"
      BY <1>1 DEF Alive
    <3> QED
      BY <2>1, <3>1, Kinds DEF WorkInv, Owners, Busy, Writing
  <2>3. (\A f \in Files : tmp[f] = None) \/ jffs["reader"] = "ok"
    BY <1>4 DEF BootHook, InstallLaunches, WorkInv, AtBoot, BootFiles
  <2> QED
    BY <1>1, <1>2, <1>4, <2>1, <2>2, <2>3, LostNothing, BootsByStartup DEF BootsInv
<1>5. CASE ~(Startup /\ (BootHook \/ InstallLaunches))
  <2>1. UNCHANGED wd /\ (UNCHANGED tmp \/ \E v : tmp' = [tmp EXCEPT !["writer"] = v])
    BY <1>5 DEF InstallStep, BootHook, InstallTruncates, InstallFetched, InstallWriter,
       InstallWrites, InstallWritten, InstallLaunches, filesVars
  <2>2. tmp'["tar"] = tmp["tar"] /\ tmp'["wdog"] = tmp["wdog"]
    BY <2>1 DEF IInv, TypeOK, FilesTypeOK, Files, BundleFiles, BundleOrder
  <2> QED
    BY <1>1, <1>2, <1>3, <2>1, <2>2, BootsWithout
<1> QED
  BY <1>4, <1>5

LEMMA BootsFromNothing == NothingRuns => BootsInv
<1> SUFFICES ASSUME NothingRuns PROVE BootsInv
  OBVIOUS
<1>1. tmp["tar"] = None /\ tmp["wdog"] = None
  BY DEF NothingRuns, Files, BundleFiles, BundleOrder
<1>2. \A w \in Watchdogs : wd[w].pc = "off"
  BY DEF NothingRuns, Off
<1> QED
  BY <1>1, <1>2 DEF BootsInv, ReadFromOurs, RunsInv, Running, Alive

LEMMA BootsInductive ==
  ASSUME IInv, WorkInv, StagedInv, WholeUnlessTorn, NothingLost, BootsInv, [Next]_vars
  PROVE  BootsInv'
<1>1. CASE \E w \in Watchdogs : DaemonStep(w)
  BY <1>1, BootsByDaemon
<1>2. CASE \E p \in Processes : FlashStep(p)
  BY <1>2, BootsByTool
<1>3. CASE StagerStep
  BY <1>3, BootsByStager
<1>4. CASE InstallStep \/ BootHook
  BY <1>4, BootsByScripts
<1>5. CASE PowerCut
  <2>1. NothingRuns'
    BY <1>5 DEF PowerCut, NothingRuns
  <2> QED
    BY <2>1, BootsFromNothing, PTL
<1>6. CASE (\E v \in Builds : InstallCheck(v)) \/ UNCHANGED vars
  <2>1. UNCHANGED <<flash, job, tmp, wd, stage, torn>>
    BY <1>6 DEF InstallCheck, vars, flashVars, filesVars, updateVars, history
  <2> QED
    BY <2>1 DEF BootsInv, ReadFromOurs, RunsInv, Running, Alive, Usable, Ours, Fresh, Whole, Writing
<1>7. ~UninstallStep /\ ~UninstallStart /\ ~Vanish
  <2>1. UninstallStep => uninst # "idle"
    BY DEF UninstallStep, UninstallKills, UninstallErases, UninstallDone
  <2> QED
    BY <2>1, LostNothing DEF UninstallStart, Vanish, WorkInv, OneScript
<1> QED
  BY <1>1, <1>2, <1>3, <1>4, <1>5, <1>6, <1>7 DEF Next, ScriptStep, OperatorStep, DaemonStep

\* With one supervisor, one update at a time, and no copy or file lost on the way, the
\* client that runs is the build the appliance would boot with, unless the last
\* rewrite was cut short by the power or ended in FAIL: neither a refused write, nor a
\* fetch that failed, nor a daemon that died at any point of an update makes a
\* difference, and a rewrite that passes after a torn one restores it.
THEOREM RunsIsWhatBoots == NothingLost /\ Spec => []RunsWhatBoots
<1>1. BootsInv => RunsWhatBoots
  <2> SUFFICES ASSUME BootsInv, NEW w \in Watchdogs, Running(w), ~torn
               PROVE  Whole(wd[w].run)
    BY DEF RunsWhatBoots
  <2>1. wd[w].run = tmp["client"] /\ Fresh
    BY DEF BootsInv, RunsInv, Running, Alive
  <2> QED
    BY <2>1 DEF Fresh
<1>2. NothingLost /\ Spec => []RunsWhatBoots
  <2> SUFFICES ASSUME NothingLost PROVE Spec => []RunsWhatBoots
    OBVIOUS
  <2>1. OneUpdate /\ OneRewriter
    BY LostNothing
  <2>2. Init => BootsInv
    BY BootsFromNothing DEF Init, NothingRuns
  <2>3. IInv /\ WorkInv /\ StagedInv /\ WholeUnlessTorn /\ BootsInv /\ [Next]_vars => BootsInv'
    BY BootsInductive
  <2> QED
    BY <1>1, <2>1, <2>2, <2>3, WorkAlways, StagedAlways, WholeAlways, PTL DEF Spec
<1> QED
  BY <1>2
================================================================================
