------------------------------ MODULE SelfUpdate -------------------------------
(****************************************************************************)
(* The companion daemon avsp_client_ppc as far as the scripts depend on it. *)
(* Its C source is not in this repository: the routes /update-do,           *)
(* /update-apply and /update-discard, the forked child that stages an       *)
(* update, and the clean-up at start are modelled from the commands the     *)
(* binary runs and from what watchdog.sh says of them (external).           *)
(****************************************************************************)
EXTENDS Watchdog

Quick == BOOLEAN   \* a session may end before or after ten seconds

\* The daemon has logged in and wants the WebSocket port.  Only one process can
\* listen on it; the loser ends.  The winner drops a staging directory that is
\* not marked ready.
Listen(w) ==
  /\ wd[w].pc = "login"
  /\ IF \E x \in Watchdogs : wd[x].pc = "serve"
     THEN /\ \E q \in Quick : wd' = [wd EXCEPT ![w] = SessionOver(@, q)]
          /\ UNCHANGED stage
     ELSE /\ wd' = [wd EXCEPT ![w].pc = "serve"]
          /\ stage' = IF ready THEN stage ELSE NoStage
  /\ UNCHANGED <<flashVars, filesVars, ready, confirmed, stager, shellVars, history>>

\* The daemon dies, is killed, or is restarted from the settings page.
SessionEnds(w) ==
  /\ "crash" \in Activity
  /\ Running(w)
  /\ \E q \in Quick : wd' = [wd EXCEPT ![w] = SessionOver(@, q)]
  /\ UNCHANGED <<flashVars, filesVars, updateVars, shellVars, history>>

\* /update-do: the old staging directory is replaced by an empty one and a child
\* is forked.  The markers are left as they are.  One child at a time is a bound;
\* doing it while an update is already marked ready is switched by "restage".
UpdateDo(w, v) ==
  /\ "update" \in Activity
  /\ wd[w].pc = "serve" /\ stager.pc = "idle"
  /\ ready => "restage" \in Activity
  /\ stage' = [dir |-> TRUE, env |-> None, ext |-> None]
  /\ stager' = [pc |-> "fetch", build |-> v]
  /\ UNCHANGED <<flashVars, filesVars, wd, ready, confirmed, shellVars, history>>

\* The child: fetch the envelope and its hash, compare, extract, run --selftest,
\* and only then touch /tmp/update_ready.  It outlives the daemon that forked it.
StagerAt(from, to, staging) ==
  /\ stager.pc = from
  /\ stage.dir /\ stage' = staging
  /\ stager' = [stager EXCEPT !.pc = to]
  /\ UNCHANGED ready

StagerFetches  == StagerAt("fetch", "fetching", [stage EXCEPT !.env = Bad])
StagerFetched  == StagerAt("fetching", "verify", [stage EXCEPT !.env = stager.build])
\* Mutant: the marker is touched before the bundle is unpacked and tested.
StagerVerifiedTouching == /\ stage.env = stager.build
                          /\ StagerAt("verify", "touch", [stage EXCEPT !.ext = Bad])
StagerVerified == /\ stage.env = stager.build
                  /\ StagerAt("verify", "extract", [stage EXCEPT !.ext = Bad])
StagerExtracts == StagerAt("extract", "selftest", [stage EXCEPT !.ext = stager.build])
StagerTested   == /\ stage.ext = stager.build
                  /\ StagerAt("selftest", "touch", stage)
StagerTouches  ==
  /\ stager.pc = "touch"
  /\ ready' = TRUE
  /\ stager' = NoScript
  /\ UNCHANGED stage

\* Any check that fails ends the child: a fetch that times out, a hash that does
\* not match, a directory that is gone.  What it staged so far stays.
StagerFails ==
  /\ \/ stager.pc \in {"fetch", "fetching", "verify"} /\ "fetchfail" \in Activity
     \/ stager.pc \notin {"idle", "touch"} /\ ~stage.dir
     \/ stager.pc = "verify" /\ stage.env # stager.build
     \/ stager.pc = "selftest" /\ stage.ext # stager.build
  /\ stage' = IF stager.pc = "fetching" /\ stage.dir
              THEN [stage EXCEPT !.env = None] ELSE stage
  /\ stager' = NoScript
  /\ UNCHANGED ready

StagerStep ==
  /\ \/ StagerFetches
     \/ StagerFetched
     \/ StagerVerified
     \/ StagerExtracts
     \/ StagerTested
     \/ StagerTouches
     \/ StagerFails
  /\ UNCHANGED <<flashVars, filesVars, wd, confirmed, shellVars, history>>

\* /update-apply: refused without the ready marker; otherwise the second marker
\* is set and the daemon exits so that the watchdog can install.
UpdateApply(w) ==
  /\ "update" \in Activity
  /\ wd[w].pc = "serve" /\ ready
  /\ confirmed' = TRUE
  /\ approved' = approved \cup (Builds \cap {stage.env, stage.ext})
  /\ \E q \in Quick : wd' = [wd EXCEPT ![w] = SessionOver(@, q)]
  /\ UNCHANGED <<flashVars, filesVars, stage, ready, stager, shellVars, torn>>

\* /update-discard.
UpdateDiscard(w) ==
  /\ "update" \in Activity
  /\ wd[w].pc = "serve"
  /\ stage' = NoStage /\ ready' = FALSE /\ confirmed' = FALSE
  /\ UNCHANGED <<flashVars, filesVars, wd, stager, shellVars, history>>
================================================================================
