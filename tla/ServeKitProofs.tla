----------------------------- MODULE ServeKitProofs ----------------------------
(****************************************************************************)
(* Proofs about option 3 and installations from its kit, for any number of  *)
(* deploys and any ports.                                                   *)
(*                                                                          *)
(* Both properties rest on where a deploy stands: the files before          *)
(* menu.file are whole and of the deploy under way, those after it are of   *)
(* an earlier one (Progress).  As install.sh comes last, a whole one of the *)
(* newest deploy vouches for the rest (InstallVouches), and as nothing is   *)
(* written any more until the next deploy begins, for what an appliance     *)
(* fetches after it (FetchedIsOfIt).                                        *)
(****************************************************************************)
EXTENDS ServeKit, SequenceTheorems, TLAPS

States == {"none", "open", "whole"}
Versions == [deploy : 0..begun, state : States]

TypeOK ==
  /\ begun \in Nat
  /\ kit \in [KitFiles -> Versions]
  /\ port \in Seq(Ports) /\ Len(port) = begun
  /\ menu \in [pc : {"menu", "deploying", "ask", "wait", "dhcp", "gone"},
               file : 1..8, own : BOOLEAN]
  /\ servers \subseteq Ports
  /\ conf \in [etc : Ports, jffs : Ports \cup {NoPort}]
  /\ device \in [pc : {"idle", "fetching", "failed", "done"}, deploy : 0..begun,
                 got : Seq(Versions)]
  /\ device.pc = "fetching" => Len(device.got) < 4

Current == [deploy |-> begun, state |-> "whole"]

Progress ==
  menu.pc = "deploying" =>
    \A i \in 1..8 :
      /\ i < menu.file => kit[Written[i]] = Current
      /\ i >= menu.file => kit[Written[i]] # Current

InstallVouches ==
  kit["install"] = Current => \A f \in KitFiles : kit[f] = Current

FetchedIsOfIt ==
  (device.pc \in {"fetching", "done"} /\ device.deploy = begun) =>
    /\ kit["install"] = Current
    /\ \A i \in DOMAIN device.got : device.got[i] = Current

KitServed ==
  menu.pc \in {"ask", "wait", "dhcp"} => \A f \in KitFiles : kit[f] = Current

Begun == menu.pc \in {"deploying", "ask", "wait", "dhcp"} => begun # 0

IInv == TypeOK /\ Begun /\ Progress /\ InstallVouches /\ FetchedIsOfIt /\ KitServed

--------------------------------------------------------------------------------
(* The two orders *)

\* main of deploy_bundle.py writes every file of the kit once, install.sh last.
LEMMA WrittenOrder ==
  /\ Len(Written) = 8 /\ Written[8] = "install"
  /\ \A i \in 1..8 : Written[i] \in KitFiles
  /\ \A i, j \in 1..8 : Written[i] = Written[j] => i = j
  /\ \A f \in KitFiles : \E i \in 1..8 : Written[i] = f
<1>1. Len(Written) = 8 /\ Written[8] = "install"
  BY DEF Written
<1>2. \A i \in 1..8 : Written[i] \in KitFiles
  BY DEF Written, KitFiles
<1>3. \A i, j \in 1..8 : Written[i] = Written[j] => i = j
  BY DEF Written
<1>4. \A f \in KitFiles : \E i \in 1..8 : Written[i] = f
  <2>1. /\ Written[1] = "tar" /\ Written[2] = "envelope" /\ Written[3] = "sha256"
        /\ Written[4] = "startup" /\ Written[5] = "reader" /\ Written[6] = "writer"
        /\ Written[7] = "server" /\ Written[8] = "install"
    BY DEF Written
  <2> QED BY <2>1 DEF KitFiles
<1> QED BY <1>1, <1>2, <1>3, <1>4

\* install.sh fetches four files of the kit.
LEMMA FetchedOrder ==
  Len(Fetched) = 4 /\ \A i \in 1..4 : Fetched[i] \in KitFiles
BY DEF Fetched, KitFiles

LEMMA Initially == Init => IInv
<1> SUFFICES ASSUME Init PROVE IInv
  OBVIOUS
<1> USE PortsAssumption DEF Init
<1>1. TypeOK
  BY DEF TypeOK, Versions, States
<1>2. Progress
  BY DEF Progress
<1>3. "install" \in KitFiles
  BY DEF KitFiles
<1>4. InstallVouches
  BY <1>3 DEF InstallVouches, Current
<1>5. FetchedIsOfIt /\ KitServed
  BY DEF FetchedIsOfIt, KitServed
<1> QED BY <1>1, <1>2, <1>4, <1>5 DEF IInv, Begun

--------------------------------------------------------------------------------
(* The operator's machine *)

\* A deploy begins: every file of the kit, and what any appliance has fetched, is of
\* an earlier one.
LEMMA BeginDeployStep == ASSUME IInv, BeginDeploy PROVE IInv'
<1>1. /\ begun \in Nat /\ begun' = begun + 1
      /\ UNCHANGED <<kit, servers, conf, device>>
  BY DEF IInv, TypeOK, BeginDeploy, deviceVars
<1>2. PICK p \in Ports : port' = Append(port, p)
  BY DEF BeginDeploy
<1>3. /\ menu' \in [pc : {"menu", "deploying", "ask", "wait", "dhcp", "gone"},
                    file : 1..8, own : BOOLEAN]
      /\ menu'.pc = "deploying" /\ menu'.file = 1
  <2> DEFINE m == [menu EXCEPT !.pc = "deploying"]
  <2>1. /\ m \in [pc : {"menu", "deploying", "ask", "wait", "dhcp", "gone"},
                 file : 1..8, own : BOOLEAN]
        /\ m.pc = "deploying"
    BY DEF IInv, TypeOK
  <2>2. menu' = [m EXCEPT !.file = 1]
    BY Zenon DEF BeginDeploy
  <2> HIDE DEF m
  <2> QED BY <2>1, <2>2
<1>4. TypeOK'
  <2>1. Versions \subseteq Versions'
    BY <1>1 DEF Versions, States
  <2>2. kit' \in [KitFiles -> Versions']
    BY <1>1, <2>1 DEF IInv, TypeOK
  <2>3. port' \in Seq(Ports) /\ Len(port') = begun'
    BY <1>1, <1>2 DEF IInv, TypeOK
  <2>4. device.got \in Seq(Versions')
    BY <2>1, SeqMonotonic DEF IInv, TypeOK
  <2>5. device' \in [pc : {"idle", "fetching", "failed", "done"}, deploy : 0..begun',
                     got : Seq(Versions')]
    BY <1>1, <2>4 DEF IInv, TypeOK
  <2> QED BY <1>1, <1>3, <2>2, <2>3, <2>5 DEF IInv, TypeOK
<1>5. \A g \in KitFiles : kit'[g] # Current'
  BY <1>1 DEF IInv, TypeOK, Versions, Current
<1>6. Progress'
  BY <1>3, <1>5, WrittenOrder DEF Progress
<1>7. InstallVouches'
  BY <1>5 DEF InstallVouches, KitFiles
<1>8. FetchedIsOfIt'
  BY <1>1 DEF IInv, TypeOK, FetchedIsOfIt
<1>9. KitServed' /\ Begun'
  BY <1>1, <1>3 DEF KitServed, Begun
<1> QED BY <1>4, <1>6, <1>7, <1>8, <1>9 DEF IInv

\* While a deploy is under way its install.sh is not there yet.
LEMMA NotYet ==
  ASSUME IInv, menu.pc = "deploying"
  PROVE  kit["install"] # Current
<1>1. menu.file \in 1..8
  BY DEF IInv, TypeOK
<1> QED BY <1>1, WrittenOrder DEF IInv, Progress

LEMMA OpenFileStep == ASSUME IInv, OpenFile PROVE IInv'
<1> DEFINE f == Written[menu.file]
<1>1. /\ menu.pc = "deploying" /\ menu.file \in 1..8 /\ f \in KitFiles
      /\ kit' = [kit EXCEPT ![f] = [deploy |-> begun, state |-> "open"]]
      /\ UNCHANGED <<begun, port, menu, servers, conf, device>>
  BY WrittenOrder DEF IInv, TypeOK, OpenFile, deviceVars
<1> HIDE DEF f
<1>2. TypeOK'
  BY <1>1 DEF IInv, TypeOK, Versions, States
<1>3. Current' = Current /\ Versions' = Versions
  BY <1>1 DEF Current, Versions
<1>4. \A g \in KitFiles : kit'[g] = Current <=> g # f /\ kit[g] = Current
  BY <1>1 DEF IInv, TypeOK, Current
<1>5. Progress'
  BY <1>1, <1>3, <1>4, WrittenOrder DEF IInv, Progress, f
<1>6. kit["install"] # Current /\ "install" \in KitFiles
  BY <1>1, NotYet DEF KitFiles
<1>7. kit'["install"] # Current
  BY <1>4, <1>6
<1>8. InstallVouches'
  BY <1>3, <1>7 DEF InstallVouches
<1>9. FetchedIsOfIt'
  BY <1>1, <1>3, <1>6 DEF IInv, FetchedIsOfIt
<1>10. KitServed'
  BY <1>1 DEF KitServed
<1> QED BY <1>1, <1>2, <1>5, <1>8, <1>9, <1>10 DEF IInv, Begun

\* The last file completes the kit, and no other is install.sh.
LEMMA CloseFileStep == ASSUME IInv, CloseFile PROVE IInv'
<1> DEFINE f == Written[menu.file]
<1>1. /\ menu.pc = "deploying" /\ menu.file \in 1..8 /\ f \in KitFiles
      /\ kit[f] = [deploy |-> begun, state |-> "open"]
      /\ kit' = [kit EXCEPT ![f].state = "whole"]
      /\ menu' = IF menu.file = 8 THEN [menu EXCEPT !.pc = "ask"]
                 ELSE [menu EXCEPT !.file = @ + 1]
      /\ UNCHANGED <<begun, port, servers, conf, device>>
  BY WrittenOrder DEF IInv, TypeOK, CloseFile, deviceVars
<1> HIDE DEF f
<1>2. kit' = [kit EXCEPT ![f] = Current]
  <2>1. [kit[f] EXCEPT !.state = "whole"] = Current
    BY <1>1 DEF Current
  <2>2. kit' = [kit EXCEPT ![f] = [kit[f] EXCEPT !.state = "whole"]]
    BY <1>1
  <2> QED BY <2>1, <2>2
<1>3. Current' = Current /\ Versions' = Versions /\ Current \in Versions
  BY <1>1 DEF IInv, TypeOK, Current, Versions, States
<1>4. TypeOK'
  <2>1. kit' \in [KitFiles -> Versions']
    BY <1>1, <1>2, <1>3 DEF IInv, TypeOK
  <2>2. menu' \in [pc : {"menu", "deploying", "ask", "wait", "dhcp", "gone"},
                   file : 1..8, own : BOOLEAN]
    BY <1>1 DEF IInv, TypeOK
  <2> QED BY <1>1, <1>3, <2>1, <2>2 DEF IInv, TypeOK
<1>5. \A g \in KitFiles : kit'[g] = Current <=> (g = f \/ kit[g] = Current)
  BY <1>2 DEF IInv, TypeOK
<1>6. "install" \in KitFiles /\ kit["install"] # Current
  BY <1>1, NotYet DEF KitFiles
<1>7. FetchedIsOfIt'
  BY <1>1, <1>3, <1>6 DEF IInv, FetchedIsOfIt
<1>8. CASE menu.file = 8
  <2>1. menu'.pc = "ask"
    BY <1>1, <1>8 DEF IInv, TypeOK
  <2>2. \A g \in KitFiles : kit'[g] = Current
    BY <1>1, <1>5, <1>8, WrittenOrder DEF IInv, Progress, f
  <2> QED BY <1>1, <1>3, <1>4, <1>7, <2>1, <2>2
          DEF IInv, Begun, Progress, InstallVouches, KitServed
<1>9. CASE menu.file # 8
  <2>1. menu'.pc = "deploying" /\ menu'.file = menu.file + 1
    BY <1>1, <1>9 DEF IInv, TypeOK
  <2>2. Progress'
    BY <1>1, <1>3, <1>5, <2>1, WrittenOrder DEF IInv, Progress, f
  <2>3. f # "install"
    BY <1>1, <1>9, WrittenOrder DEF f
  <2>4. InstallVouches'
    BY <1>3, <1>5, <1>6, <2>3 DEF InstallVouches
  <2> QED BY <1>1, <1>4, <1>7, <2>1, <2>2, <2>4 DEF IInv, Begun, KitServed
<1> QED BY <1>8, <1>9

\* The steps that write no file and leave the appliance alone.
LEMMA MenuStep ==
  ASSUME IInv,
         \/ StartMenu \/ DeployFails \/ Decline \/ Serve \/ StopServing
         \/ CtrlC \/ StopByHand
  PROVE  IInv'
<1>1. UNCHANGED <<deployVars, deviceVars>>
  BY DEF StartMenu, DeployFails, Decline, Serve, StopServing, CtrlC, StopByHand
<1>2. /\ menu' \in [pc : {"menu", "deploying", "ask", "wait", "dhcp", "gone"},
                    file : 1..8, own : BOOLEAN]
      /\ menu'.pc # "deploying"
      /\ servers' \subseteq Ports
      /\ menu'.pc \in {"ask", "wait", "dhcp"} => menu.pc \in {"ask", "wait", "dhcp"}
  <2> USE DEF IInv, TypeOK, KitServed
  <2>1. CASE StartMenu
    BY <2>1 DEF StartMenu
  <2>2. CASE DeployFails
    BY <2>2 DEF DeployFails, AfterFailedDeploy
  <2>3. CASE Decline
    BY <2>3 DEF Decline
  <2>4. CASE Serve
    <3>1. menu.pc = "ask" /\ begun \in Nat /\ begun # 0
      BY <2>4 DEF Begun, Serve
    <3>2. port \in Seq(Ports) /\ begun \in 1..Len(port)
      BY <3>1
    <3>3. port[begun] \in Ports
      BY <3>2, ElementOfSeq
    <3>4. PICK pc \in {"wait", "dhcp"}, up \in BOOLEAN :
            /\ menu' = [menu EXCEPT !.pc = pc, !.own = up]
            /\ servers' = IF up THEN servers \cup {port[begun]} ELSE servers
      BY <2>4 DEF Serve
    <3>5. servers' \subseteq Ports
      BY <3>3, <3>4
    <3> DEFINE m == [menu EXCEPT !.pc = pc]
    <3>6. m \in [pc : {"menu", "deploying", "ask", "wait", "dhcp", "gone"},
                  file : 1..8, own : BOOLEAN] /\ m.pc = pc
      OBVIOUS
    <3>7. menu' = [m EXCEPT !.own = up]
      BY <3>4, Zenon
    <3>8. /\ menu' \in [pc : {"menu", "deploying", "ask", "wait", "dhcp", "gone"},
                         file : 1..8, own : BOOLEAN]
          /\ menu'.pc = pc
      <4> HIDE DEF m
      <4> QED BY <3>6, <3>7
    <3> QED BY <3>1, <3>5, <3>8
  <2>5. CASE StopServing
    BY <2>5 DEF StopServing, Killed
  <2>6. CASE CtrlC
    BY <2>6 DEF CtrlC
  <2>7. CASE StopByHand
    BY <2>7 DEF StopByHand
  <2> QED BY <2>1, <2>2, <2>3, <2>4, <2>5, <2>6, <2>7
<1> QED BY <1>1, <1>2 DEF IInv, TypeOK, Versions, Progress, InstallVouches,
          FetchedIsOfIt, KitServed, Begun, Current, deployVars, deviceVars

--------------------------------------------------------------------------------
(* The appliance *)

\* Steps of the appliance leave the parts about the menu alone.
LEMMA ApplianceOnly ==
  ASSUME IInv, UNCHANGED <<deployVars, menu, servers>>, FetchedIsOfIt',
         conf' \in [etc : Ports, jffs : Ports \cup {NoPort}],
         device' \in [pc : {"idle", "fetching", "failed", "done"}, deploy : 0..begun,
                      got : Seq(Versions)],
         device'.pc = "fetching" => Len(device'.got) < 4
  PROVE  IInv'
BY DEF IInv, TypeOK, Versions, Begun, Progress, InstallVouches, KitServed, Current,
       deployVars

LEMMA ConfigureStep == ASSUME IInv, Configure PROVE IInv'
<1>1. /\ UNCHANGED <<deployVars, menu, servers, device>>
      /\ conf' \in [etc : Ports, jffs : Ports \cup {NoPort}]
  BY DEF IInv, TypeOK, Configure
<1>2. FetchedIsOfIt'
  BY <1>1 DEF IInv, FetchedIsOfIt, Current, deployVars
<1> QED BY <1>1, <1>2, ApplianceOnly DEF IInv, TypeOK

\* install.sh of the newest deploy comes from a kit that is complete.
LEMMA GetInstallStep == ASSUME IInv, GetInstall PROVE IInv'
<1>1. PICK jffs \in IF conf.jffs = NoPort THEN {NoPort, conf.etc} ELSE {conf.jffs} :
        /\ conf' = [conf EXCEPT !.jffs = jffs]
        /\ \/ /\ kit["install"].state = "whole"
              /\ device' = [pc |-> "fetching", deploy |-> kit["install"].deploy,
                            got |-> <<>>]
           \/ device' = [pc |-> "failed", deploy |-> 0, got |-> <<>>]
  BY DEF GetInstall
<1>2. UNCHANGED <<deployVars, menu, servers>>
  BY DEF GetInstall
<1>3. conf' \in [etc : Ports, jffs : Ports \cup {NoPort}]
  BY <1>1 DEF IInv, TypeOK
<1>4. kit["install"] \in Versions
  BY DEF IInv, TypeOK, KitFiles
<1>5. /\ device' \in [pc : {"idle", "fetching", "failed", "done"}, deploy : 0..begun,
                      got : Seq(Versions)]
      /\ Len(device'.got) < 4
  <2>1. kit["install"].deploy \in 0..begun /\ 0 \in 0..begun
    BY <1>4 DEF Versions, IInv, TypeOK
  <2>2. <<>> \in Seq(Versions) /\ Len(<<>>) = 0
    OBVIOUS
  <2>3. CASE device' = [pc |-> "fetching", deploy |-> kit["install"].deploy,
                        got |-> <<>>]
    BY <2>1, <2>2, <2>3
  <2>4. CASE device' = [pc |-> "failed", deploy |-> 0, got |-> <<>>]
    BY <2>1, <2>2, <2>4
  <2> QED BY <1>1, <2>3, <2>4
<1>6. FetchedIsOfIt'
  BY <1>1, <1>2, <1>4 DEF FetchedIsOfIt, Current, Versions, deployVars
<1> QED BY <1>2, <1>3, <1>5, <1>6, ApplianceOnly

\* What install.sh fetches next is a file of the kit.
LEMMA FetchingNext ==
  ASSUME IInv, device.pc = "fetching"
  PROVE  /\ device.got \in Seq(Versions) /\ Len(device.got) \in 0..3
         /\ Fetched[Len(device.got) + 1] \in KitFiles
<1>1. device.got \in Seq(Versions) /\ Len(device.got) < 4
  BY DEF IInv, TypeOK
<1>2. Len(device.got) \in Nat
  BY <1>1, LenProperties
<1>3. \A n \in Nat : n < 4 => n \in 0..3
  OBVIOUS
<1>4. Len(device.got) \in 0..3
  BY <1>1, <1>2, <1>3
<1> QED BY <1>1, <1>4, FetchedOrder

LEMMA FetchStep == ASSUME IInv, Fetch PROVE IInv'
<1> DEFINE f == Fetched[Len(device.got) + 1]
<1>1. device.pc = "fetching" /\ f \in KitFiles /\ device.got \in Seq(Versions)
      /\ Len(device.got) \in 0..3
  <2>1. device.pc = "fetching"
    BY DEF Fetch
  <2> QED BY <2>1, FetchingNext
<1>2. UNCHANGED <<deployVars, menu, servers, conf>>
  BY DEF Fetch
<1> HIDE DEF f
<1>3. \/ device' = [device EXCEPT !.got = Append(@, kit[f]),
                      !.pc = IF Len(device.got) + 1 = 4 THEN "done" ELSE @]
      \/ device' = [device EXCEPT !.pc = "failed"]
  BY FetchedOrder DEF Fetch, f
<1>4. kit[f] \in Versions
  BY <1>1 DEF IInv, TypeOK
<1>5. Append(device.got, kit[f]) \in Seq(Versions)
      /\ Len(Append(device.got, kit[f])) = Len(device.got) + 1
  BY <1>1, <1>4
<1>6. /\ device' \in [pc : {"idle", "fetching", "failed", "done"}, deploy : 0..begun,
                      got : Seq(Versions)]
      /\ device'.pc = "fetching" => Len(device'.got) < 4
      /\ device'.deploy = device.deploy
  <2>1. device \in [pc : {"idle", "fetching", "failed", "done"}, deploy : 0..begun,
                    got : Seq(Versions)]
    BY DEF IInv, TypeOK
  <2>2. CASE device' = [device EXCEPT !.pc = "failed"]
    BY <2>1, <2>2
  <2>3. CASE device' = [device EXCEPT !.got = Append(@, kit[f]),
                          !.pc = IF Len(device.got) + 1 = 4 THEN "done" ELSE @]
    <3> DEFINE d == [device EXCEPT !.got = Append(device.got, kit[f])]
               end == IF Len(device.got) + 1 = 4 THEN "done" ELSE device.pc
    <3>1. /\ d \in [pc : {"idle", "fetching", "failed", "done"}, deploy : 0..begun,
                    got : Seq(Versions)]
          /\ d.got = Append(device.got, kit[f]) /\ d.deploy = device.deploy
      BY <1>5, <2>1
    <3>2. device' = [d EXCEPT !.pc = end]
      BY <2>3
    <3>3. /\ end \in {"fetching", "done"}
          /\ end = "fetching" => Len(device.got) + 1 < 4
      <4>1. \A n \in 0..3 : n + 1 = 4 \/ n + 1 < 4
        OBVIOUS
      <4>2. Len(device.got) + 1 = 4 \/ Len(device.got) + 1 < 4
        BY <1>1, <4>1
      <4>3. CASE Len(device.got) + 1 = 4
        BY <4>3
      <4>4. CASE Len(device.got) + 1 # 4
        BY <1>1, <4>2, <4>4
      <4> QED BY <4>3, <4>4
    <3> HIDE DEF d, end
    <3> QED BY <1>5, <3>1, <3>2, <3>3
  <2> QED BY <1>3, <2>2, <2>3
<1>7. FetchedIsOfIt'
  <2> SUFFICES ASSUME device'.pc \in {"fetching", "done"}, device.deploy = begun
               PROVE  /\ kit["install"] = Current
                      /\ \A i \in DOMAIN device'.got : device'.got[i] = Current
    BY <1>2, <1>6 DEF FetchedIsOfIt, Current, deployVars
  <2>1. /\ kit["install"] = Current
        /\ \A i \in DOMAIN device.got : device.got[i] = Current
    BY <1>1 DEF IInv, FetchedIsOfIt
  <2>2. kit[f] = Current
    BY <1>1, <2>1 DEF IInv, InstallVouches
  <2>3. device'.got = Append(device.got, kit[f])
    BY <1>3 DEF IInv, TypeOK
  <2> QED BY <1>1, <1>4, <2>1, <2>2, <2>3
<1>8. conf' \in [etc : Ports, jffs : Ports \cup {NoPort}]
  BY <1>2 DEF IInv, TypeOK
<1> QED BY <1>2, <1>6, <1>7, <1>8, ApplianceOnly

--------------------------------------------------------------------------------
LEMMA Step == ASSUME IInv, [Next]_vars PROVE IInv'
<1>1. CASE Next
  BY <1>1, BeginDeployStep, OpenFileStep, CloseFileStep, MenuStep, ConfigureStep,
     GetInstallStep, FetchStep DEF Next
<1>2. CASE UNCHANGED vars
  BY <1>2 DEF vars, IInv, TypeOK, Versions, Begun, Progress, InstallVouches,
     FetchedIsOfIt, KitServed, Current
<1> QED BY <1>1, <1>2

LEMMA Invariance == Spec => []IInv
<1>1. Init => IInv
  BY Initially
<1>2. IInv /\ [Next]_vars => IInv'
  BY Step
<1> QED BY <1>1, <1>2, PTL DEF Spec

\* Every variable keeps its type: no file is of a deploy that has not begun, ports
\* and deploys go together, and an appliance fetches at most four files.
THEOREM TypeCorrect == Spec => []TypeOK
<1>1. IInv => TypeOK
  BY DEF IInv
<1> QED BY <1>1, Invariance, PTL

\* An installation that ran the newest deploy's install.sh has got the other files
\* whole and of that deploy: render_install_sh comes last in main.
THEOREM NewestIsConsistentHolds == Spec => []NewestIsConsistent
<1>1. IInv => NewestIsConsistent
  BY DEF IInv, FetchedIsOfIt, NewestIsConsistent, Current
<1> QED BY <1>1, Invariance, PTL

\* While the menu serves and something listens on the port it names, installations
\* from there are of the newest deploy and find every file: a kit that is served is
\* complete.
THEOREM ServedInstallsHolds == Spec => ServedInstalls
<1> DEFINE OK ==
      Serving /\ port[begun] \in servers =>
        /\ GetInstall /\ Asked(conf') = port[begun] =>
             device' = [pc |-> "fetching", deploy |-> begun, got |-> <<>>]
        /\ Fetch /\ device.deploy = begun => device'.pc # "failed"
<1>1. IInv /\ [Next]_vars => [OK]_vars
  <2> SUFFICES ASSUME IInv, Serving, port[begun] \in servers
               PROVE  /\ GetInstall /\ Asked(conf') = port[begun] =>
                           device' = [pc |-> "fetching", deploy |-> begun, got |-> <<>>]
                      /\ Fetch /\ device.deploy = begun => device'.pc # "failed"
    OBVIOUS
  <2>1. \A f \in KitFiles : kit[f].deploy = begun /\ kit[f].state = "whole"
    BY DEF IInv, KitServed, Serving, Current
  <2>2. ASSUME GetInstall, Asked(conf') = port[begun]
        PROVE  device' = [pc |-> "fetching", deploy |-> begun, got |-> <<>>]
    <3>1. "install" \in KitFiles
      BY DEF KitFiles
    <3> QED BY <2>1, <2>2, <3>1 DEF GetInstall
  <2>3. ASSUME Fetch, device.deploy = begun
        PROVE  device'.pc # "failed"
    <3> DEFINE f == Fetched[Len(device.got) + 1]
    <3>1. device.pc = "fetching" /\ f \in KitFiles
      <4>1. device.pc = "fetching"
        BY <2>3 DEF Fetch
      <4> QED BY <4>1, FetchingNext
    <3>2. NotEmpty(f) = {TRUE}
      BY <2>1, <3>1 DEF NotEmpty
    <3>3. device' = [device EXCEPT !.got = Append(@, kit[f]),
                       !.pc = IF Len(device.got) + 1 = Len(Fetched) THEN "done" ELSE @]
      BY <2>3, <3>2 DEF Fetch
    <3>4. device'.pc \in {"done", "fetching"}
      BY <3>1, <3>3 DEF IInv, TypeOK
    <3> QED BY <3>4
  <2> QED BY <2>2, <2>3
<1>2. Spec => [][OK]_vars
  BY <1>1, Invariance, PTL DEF Spec
<1> QED BY <1>2 DEF ServedInstalls
================================================================================
