-------------------------------- MODULE ServeKit -------------------------------
(****************************************************************************)
(* Option 3 of runme.sh and the first installation from what it serves:     *)
(* deploy_bundle.py writes the files of a kit one after the other into      *)
(* deploy_out, install.sh last; the menu then serves that directory with a  *)
(* background mini_tftpd.py; on the appliance get_avsp_bundle fetches       *)
(* install.sh, which fetches the rest from the port it was rendered with.   *)
(* The directory and the servers are shared by all of this, nothing is      *)
(* locked, and files are opened for writing (emptied) before they are       *)
(* written.                                                                 *)
(*                                                                          *)
(* A file is known by the deploy that wrote it, a number; what is done      *)
(* with it on the appliance is module Installer.  A download is module      *)
(* Tftp: it yields the file as it was when the request came.                *)
(****************************************************************************)
EXTENDS Integers, Sequences

CONSTANTS
  MaxDeploys, \* bound: deploys begun
  Ports,      \* TFTP ports the operator picks
  NoPort      \* nothing is seeded

ASSUME DeploysAssumption == MaxDeploys \in Nat
ASSUME PortsAssumption == Ports # {} /\ NoPort \notin Ports

VARIABLES
  kit,     \* deploy_out: the deploy each file is of, and its state
  begun,   \* how many deploys have begun
  port,    \* the port each deploy was given
  menu,    \* runme.sh, with deploy_bundle.py while it runs
  servers, \* the ports that a mini_tftpd.py listens on
  conf,    \* tftp_port in /etc and in /mnt/jffs/get_avsp_bundle.conf
  device   \* get_avsp_bundle and the install.sh it runs

vars == <<kit, begun, port, menu, servers, conf, device>>

\* Mutant: install.sh is rendered with startup.sh, before the tools are copied.
WrittenEarly ==
  <<"tar", "envelope", "sha256", "startup", "install", "reader", "writer", "server">>

\* build_envelope, render_startup_sh, the copies, render_install_sh.
Written ==
  <<"tar", "envelope", "sha256", "startup", "reader", "writer", "server", "install">>

KitFiles ==
  {"tar", "envelope", "sha256", "startup", "reader", "writer", "server", "install"}

\* What install.sh fetches, in its order.
Fetched == <<"reader", "writer", "startup", "envelope">>

\* Written in one piece when closed: while they are open, they are empty.
Small == {"sha256", "startup", "install"}

Init ==
  /\ kit = [f \in KitFiles |-> [deploy |-> 0, state |-> "none"]]
  /\ begun = 0 /\ port = <<>>
  /\ menu = [pc |-> "menu", file |-> 1, own |-> FALSE]
  /\ servers = {}
  /\ conf \in [etc : Ports, jffs : {NoPort}]
  /\ device = [pc |-> "idle", deploy |-> 0, got |-> <<>>]

deviceVars == <<conf, device>>
deployVars == <<kit, begun, port>>

--------------------------------------------------------------------------------
(* The operator's machine *)

StartMenu ==
  /\ menu.pc = "gone"
  /\ menu' = [menu EXCEPT !.pc = "menu"]
  /\ UNCHANGED <<deployVars, servers, deviceVars>>

\* The answers are given and deploy_bundle.py starts; a file missing from the
\* source directory ends it here, before anything is written.
BeginDeploy ==
  /\ menu.pc = "menu" /\ begun < MaxDeploys
  /\ begun' = begun + 1
  /\ \E p \in Ports : port' = Append(port, p)
  /\ menu' = [menu EXCEPT !.pc = "deploying", !.file = 1]
  /\ UNCHANGED <<kit, servers, deviceVars>>

\* open(..., "w") of the next file ...
OpenFile ==
  /\ menu.pc = "deploying"
  /\ LET f == Written[menu.file]
     IN  /\ kit[f] # [deploy |-> begun, state |-> "open"]
         /\ kit' = [kit EXCEPT ![f] = [deploy |-> begun, state |-> "open"]]
  /\ UNCHANGED <<begun, port, menu, servers, deviceVars>>

\* ... and the end of the write; after the last one, the question whether to serve.
CloseFile ==
  /\ menu.pc = "deploying"
  /\ LET f == Written[menu.file]
     IN  /\ kit[f] = [deploy |-> begun, state |-> "open"]
         /\ kit' = [kit EXCEPT ![f].state = "whole"]
         /\ menu' = IF menu.file = Len(Written)
                    THEN [menu EXCEPT !.pc = "ask"]
                    ELSE [menu EXCEPT !.file = @ + 1]
  /\ UNCHANGED <<begun, port, servers, deviceVars>>

\* Mutant: the exit status is not looked at.
AfterFailedDeployAsks == "ask"

AfterFailedDeploy == "menu"

\* deploy_bundle.py ends with an exception: no room, no permission.
DeployFails ==
  /\ menu.pc = "deploying"
  /\ menu' = [menu EXCEPT !.pc = AfterFailedDeploy]
  /\ UNCHANGED <<deployVars, servers, deviceVars>>

Decline ==
  /\ menu.pc = "ask"
  /\ menu' = [menu EXCEPT !.pc = "menu"]
  /\ UNCHANGED <<deployVars, servers, deviceVars>>

\* mini_tftpd.py is started in the background and binds its port, or ends at once:
\* always when a server of ours still has the port, and else for a cause outside
\* the model (another program, a privileged port).  The menu does not see which; it
\* waits for the job or runs mini_dhcpd.py.
Serve ==
  /\ menu.pc = "ask"
  /\ \E pc \in {"wait", "dhcp"},
        up \in IF port[begun] \in servers THEN {FALSE} ELSE BOOLEAN :
       /\ menu' = [menu EXCEPT !.pc = pc, !.own = up]
       /\ servers' = IF up THEN servers \cup {port[begun]} ELSE servers
  /\ UNCHANGED <<deployVars, deviceVars>>

\* `kill`: of its own server only.
Killed == IF menu.own THEN servers \ {port[begun]} ELSE servers

\* `wait` returns for a server that could not bind; mini_dhcpd.py ends, with Ctrl-C
\* or without: the server is killed and the menu goes on.
StopServing ==
  /\ \/ menu.pc = "wait" /\ ~menu.own
     \/ menu.pc = "dhcp"
  /\ servers' = Killed
  /\ menu' = [menu EXCEPT !.pc = "menu"]
  /\ UNCHANGED <<deployVars, deviceVars>>

\* Ctrl-C anywhere else ends runme.sh, and deploy_bundle.py with it.  The background
\* job of a script ignores the signal: the server of `wait` lives on.
CtrlC ==
  /\ menu.pc \notin {"gone", "dhcp"}
  /\ menu' = [menu EXCEPT !.pc = "gone"]
  /\ UNCHANGED <<deployVars, servers, deviceVars>>

\* Between two uses of the menu the operator may kill what still listens.
StopByHand ==
  /\ menu.pc = "gone" /\ servers # {}
  /\ servers' = {}
  /\ UNCHANGED <<deployVars, menu, deviceVars>>

--------------------------------------------------------------------------------
(* The appliance *)

\* The firmware is built again with another port, or the conf in jffs is edited.
Configure ==
  /\ device.pc = "idle"
  /\ \E p \in Ports : \/ conf' = [conf EXCEPT !.etc = p]
                      \/ conf.jffs # NoPort /\ conf' = [conf EXCEPT !.jffs = p]
  /\ UNCHANGED <<deployVars, menu, servers, device>>

\* The port that get_avsp_bundle asks: the one in jffs, if there is one.
Asked(c) == IF c.jffs = NoPort THEN c.etc ELSE c.jffs

\* get_avsp_bundle: seed the conf in jffs from /etc (which may fail), use the one
\* in jffs if there is one, fetch install.sh, and run it unless it is empty.
GetInstall ==
  /\ device.pc \in {"idle", "failed", "done"}
  /\ \E jffs \in IF conf.jffs = NoPort THEN {NoPort, conf.etc} ELSE {conf.jffs} :
       /\ conf' = [conf EXCEPT !.jffs = jffs]
       /\ device' =
            IF Asked(conf') \in servers /\ kit["install"].state = "whole"
            THEN [pc |-> "fetching", deploy |-> kit["install"].deploy, got |-> <<>>]
            ELSE [pc |-> "failed", deploy |-> 0, got |-> <<>>]
  /\ UNCHANGED <<deployVars, menu, servers>>

\* Does `[ -s ]` hold of what is served under this name?  A big file that is being
\* written may have its first blocks or none.
NotEmpty(f) ==
  CASE kit[f].state = "whole" -> {TRUE}
    [] kit[f].state = "open" /\ f \notin Small -> BOOLEAN
    [] OTHER -> {FALSE}

\* fetch() of install.sh: the next file, from the port install.sh was made for.
Fetch ==
  /\ device.pc = "fetching"
  /\ LET f == Fetched[Len(device.got) + 1]
     IN  \E some \in NotEmpty(f) :
           device' = IF some /\ port[device.deploy] \in servers
                     THEN [device EXCEPT !.got = Append(@, kit[f]),
                             !.pc = IF Len(device.got) + 1 = Len(Fetched) THEN "done"
                                   ELSE @]
                     ELSE [device EXCEPT !.pc = "failed"]
  /\ UNCHANGED <<deployVars, menu, servers, conf>>

--------------------------------------------------------------------------------
Next ==
  \/ StartMenu \/ BeginDeploy \/ OpenFile \/ CloseFile \/ DeployFails
  \/ Decline \/ Serve \/ StopServing \/ CtrlC \/ StopByHand
  \/ Configure \/ GetInstall \/ Fetch

Spec == Init /\ [][Next]_vars

--------------------------------------------------------------------------------
\* Nothing is locked, but install.sh is written last: an installation that ran the
\* install.sh of the newest deploy has got every other file whole, and of that same
\* deploy, so that startup.sh reads the flash where install.sh has written it.
\* Only a deploy that begins later, finished or not, can put it at variance.
NewestIsConsistent ==
  (device.pc = "done" /\ device.deploy = begun) =>
    \A i \in DOMAIN device.got :
      device.got[i] = [deploy |-> begun, state |-> "whole"]

\* The menu is at the step where the kit just written is served.
Serving == menu.pc \in {"wait", "dhcp"}

\* While the menu serves and a server, its own or one left over, has the port it
\* names, an appliance that asks that port is given the install.sh of this very
\* deploy, and no download of an installation made by it fails: the kit is all of
\* one deploy, whatever failed or was interrupted before.
ServedInstalls ==
  [][Serving /\ port[begun] \in servers =>
       /\ GetInstall /\ Asked(conf') = port[begun] =>
            device' = [pc |-> "fetching", deploy |-> begun, got |-> <<>>]
       /\ Fetch /\ device.deploy = begun => device'.pc # "failed"]_vars
================================================================================
