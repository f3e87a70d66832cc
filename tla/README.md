# A TLA+ model of the DSR2030 on-board KVM kit

The repository customizes the firmware of an Avocent DSR2030 KVM appliance and adds a
companion daemon to it. It has two halves: **PC tools** that rebuild a `.fl` firmware image
and serve files over TFTP and DHCP, and **shell scripts on the appliance** that install,
supervise, update and remove the daemon in a reserved flash region. This directory holds TLA+
modules of both, the TLC runs over them, and theorems that TLAPS checks.

## 1. The system

| Part | Source | State it keeps | Operations |
|---|---|---|---|
| Supervisor | `watchdog.sh`, `ensure_patched.sh` | files of `/tmp`, `FAILCOUNT`, two marker files | install a confirmed update, re-fetch vanished files, patch the kernel, launch, circuit breaker |
| Companion daemon | `avsp_client_ppc` (binary) | staging directory, `/tmp/update_ready`, `/tmp/update_apply_confirmed` | listen, stage an update in a forked child, apply, discard |
| Flash tools | `mtd_erase_write_ppc`, `mtd_erase_only_ppc`, `flash_bundle_read_ppc` (binaries) | the region `mtd1+0x900000` | check, erase, write, verify; read |
| Boot chain | `avsp_onboard_hook.py` (hook line), `startup.sh`, `startup.sh.template` | `/mnt/jffs`, `/tmp` | read the bundle, extract, start a watchdog |
| install.sh, uninstall.sh | `install.sh.template`, `uninstall.sh` | `/mnt/jffs`, flash | five checked fetches and one unchecked write; kill and erase |
| DHCP server | `mini_dhcpd.py` | `by_mac`, `used` (in memory) | DISCOVER, REQUEST; DECLINE and RELEASE are logged |
| TFTP server | `mini_tftpd.py` | the served files, one thread per request | downloads (`serve_rrq`), uploads (`serve_wrq`) |
| Bundle builder | `deploy_bundle.py` | files of the served directory | tar, AVCB envelope, rendered scripts, each rewritten in place |
| Firmware builder | `build_kvm_firmware.py`, `avocent_fl_tool.py` | `.fl` files and `.md5` sidecars | verify, unpack, features, pack, verify |
| cramfs | `cramfs_tool.py` | the image being written, the recursion | `serialize`, `parse` |
| Features | `features/*.py`, `patch_cipher_list.py` | the unpacked tree and `MANIFEST.json` | one `apply()` each |
| get_avsp_bundle | the script inside `get_avsp_bundle.py` | a conf file in `/etc`, a copy in `/mnt/jffs` | fetch `install.sh` and run it |
| Menu | `runme.sh` | `FW_PATH`, background servers | open, build, serve |

**How they interact.** `deploy_bundle.py` renders `install.sh` and packs the bundle into the
directory that `mini_tftpd.py` serves; `install.sh`, the watchdog and the daemon's staging
child fetch from it. Two processes on the appliance never talk to each other: they share
`/tmp`, `/mnt/jffs`, the flash region and `ps`. The daemon asks the watchdog to install an
update by two marker files and by exiting. On the PC, one build hands its result to the next
one only through the `.fl` file and its sidecar. The menu, its servers and the appliances that
install share the directory `deploy_out` and the UDP ports, and nothing is locked.

**What is hard.** Nothing on the appliance is atomic and almost no exit status is looked at
(the static binaries die of SIGILL even when they succeed). A power cut, a vanishing file, a
failed fetch, the death of the daemon or a second script can come between any two commands,
and between two erase blocks. UDP loses, duplicates, delays and reorders. The PC tools
overwrite their outputs in place and can be interrupted anywhere.

**What makes each part correct.**

* Supervisor and update: only a build that was verified and confirmed gets onto the appliance;
  what runs is what boots; no client on an unpatched kernel; sessions go on or the breaker
  stops them; an applied update is dealt with.
* Flash: a region is whole, blank or foreign unless the power failed in the middle of a rewrite
  or the tool reported FAIL; foreign bytes are erased by `uninstall.sh` only.
* Boot and install: `done` means installed; a whole bundle and its boot files give a daemon.
* DHCP: unique addresses, one lease per client for good, honoured offers, everybody served.
* TFTP: a successful download is one state of one file, complete and in order; threads end.
  An upload takes the pieces in order, each once, and is stored whole although the client is
  told of success before.
* Kit and menu: an appliance that installs from the newest deploy gets a kit of one deploy;
  what is served from the menu can be installed.
* cramfs: what fits the format reads back as it was written; nothing in the image overlaps.
* Builder: a successful build delivers the input plus exactly the chosen features; builds
  start from verified files; a sidecar tells a truncated image from a whole one.

`PROJECT.json` lists every component with its status and every hazard at its line.

## 2. The modules

```
Appliance <- FlashTools <- Watchdog <- SelfUpdate <- Installer <- Device <- MCDevice
                                                                  Device <- DeviceProofs
Breaker <- BreakerProofs          Dhcp <- DhcpProofs
FileTransfer (abstract) <= Tftp <- MCTftp, TftpProofs
FileTransfer (abstract) <= TftpWrite <- MCTftpWrite, TftpWriteProofs
ServeKit <- ServeKitProofs
Firmware <- Build <- MCBuild, BuildProofs      Cramfs <- MCCramfs, CramfsProofs
```
`A <- B`: B EXTENDS A. `A <= B`: B implements A through an INSTANCE ... WITH.

### The appliance

`Appliance` declares the shared state. A file is abstracted to the build its bytes come from,
or `None`/`Bad`; the flash region is a function from erase blocks to such values, so that a
rewrite can be cut short. Every script is a program counter.

| Model | Code |
|---|---|
| `FlashTools!EraseWrite`, `EraseBlock`, `EraseChecked`, `WriteBlock`, `WriteChecked` | the check, the erase loop, the post-erase check, the write loop and the verification of the tools, from what their callers and the manual say of them and from the messages they print (external) |
| `FlashTools!Attempt`, `GivesUp` | with the activity `toolfail`: a block that does not erase or is programmed in part, so that the check after it reports FAIL; a system call that fails, so that the tool ends in FAIL where it is |
| `FlashTools!TarAfterRead` | what `flash_bundle_read` leaves in `/tmp/flash_bundle.tar` |
| `Watchdog!Top` ... `RemoveStaging` | `apply_staged_update_if_ready`: markers, three `cp`, the flash tool, two removals, each interruptible |
| `Watchdog!EnsureFiles` | `ensure_file` and its three calls |
| `Watchdog!CopyStaged` | one `cp`; with `copyfail` the live file is left alone or cut off |
| `Watchdog!Launch` | `ensure_patched.sh` up to `exec`; with `patchfail` `kmem_patch` may do nothing |
| `Watchdog!SessionOver`, `Wake` | the circuit breaker (a session is "quick" or not) and the sleeps |
| `SelfUpdate!*` | the daemon's routes `/update-do`, `/update-apply`, `/update-discard`, its child, its port (external) |
| `Installer!Startup` | both forms of `startup.sh`; `Extracted`/`Cuts` say what a truncated tar yields, in the order of `BUNDLE_FILES`, `conshell_ppc` at its end included |
| `Installer!BootHook`, `PowerCut`, `Vanish` | the hook line of `auto_run`; the power; files that vanish (`watchdog.sh:23-31`) |
| `Installer!Install*`, `Uninstall*` | the numbered steps of the two scripts |

`Device` interleaves all of it and states the properties. `Activity` switches what operators
and the environment do in an instance.

`Breaker` is the circuit breaker with its clock: `/proc/uptime` has a fraction that
`${UPRAW%.*}` cuts off, so `ELAPSED` counts second boundaries and not seconds.

### The servers

`Dhcp` has the pool (`by_mac`, `used`, `Lease`), one action per message type (`ServeRelease`
for DECLINE and RELEASE, which are logged and nothing else), restarts, and clients taken from
the protocol (external: new transaction, INIT-REBOOT, renewing, releasing or declining, giving
up). The wire is the set of everything ever sent: any message may arrive late, again, or never.

`FileTransfer` is what a TFTP transfer promises its two ends: the pieces of one file, in order,
each once, and success only with the last. The scripts make less of it: `fetch` of `install.sh`
looks whether the file is empty, `ensure_file` of `watchdog.sh` at nothing; that is modelled
where they are (`Installer`, `Watchdog`, `ServeKit`). `Tftp` is `serve_rrq` (threads, block
numbers modulo `W`, five attempts, every way `recvfrom` can return), BusyBox's client, and an
operator who rewrites the file while it is served. `Tftp` implements `FileTransfer` (`Transfer`).

`TftpWrite` is `serve_wrq`, the same abstraction seen from the other end: the thread receives
what `FileTransfer` promises (`Upload`). `Accept`, `Receive` and `Timeout` are the request, a
block and five seconds of silence; `Open` and `Write` are the two steps of `open(path, "wb")`,
between which other uploads of the path come; `CtrlC` ends the daemon threads where they are.
Any packet makes a waiting thread wait on, which a stutter covers.

`ServeKit` is option 3 of the menu with `deploy_bundle.py` and the first installation.
`BeginDeploy`, `OpenFile`, `CloseFile` write the kit file by file in the order of `main`;
`DeployFails`, `CtrlC` interrupt it; `Serve`, `StopServing`, `Killed` are the background
`mini_tftpd.py`, which may fail to bind its port for whatever cause without the menu noticing,
and the foreground `mini_dhcpd.py`; `GetInstall` is the script that
`get_avsp_bundle` puts on the appliance, `Fetch` the `fetch` of the `install.sh` it gets.
A file of the kit is the number of the deploy that wrote it.

### The firmware builder

`Firmware` says what verify, unpack and pack keep, drop and check, and what each feature does
to the tree. The tree is the manifest and the files apart, because device nodes exist in
`MANIFEST.json` only and packing follows the manifest. An image also says what a writer that
was cut short has lost of it (`body` or `tail`). `Build` is `build_kvm_firmware.py` step by
step, options 1 and 2 of `runme.sh`, Ctrl-C, full disks and missing tools, over `.fl` files
and sidecars that builds overwrite for each other.

`Cramfs` is `cramfs_tool.py`. `Reserve`, `Fill` and `Leave` are the two loops of
`emit_dir_entries` and the return of `emit_dir`, with the recursion as a stack; `ReadRoot`,
`ReadEntry` and `ReturnFromDir` are `build`. The image maps an address to the cell that starts
there (a slot, a table of block ends, a block), so that alignment, offsets and the width of
each field are the code's own; only the bytes inside a cell are not there. A behaviour writes
one tree and reads it back.

## 3. The runs

| Run | States | Question |
|---|---|---|
| `Update` | 199,635 | staging, Apply, Discard, crashes, failed fetches, tools that report FAIL, a `kmem_patch` that fails, power cuts: `OnlyApproved`, `RunsWhatBoots`, `AppliesVerified`, `ApplyIsCompleted` |
| `SelfHeal` | 323,129 | vanishing files, re-fetching, failing copies, power cuts, updates staged over a ready one: `PatchedSessions`, `Respawns` |
| `Lifecycle` | 163,494 | `install.sh`, `uninstall.sh`, two supervisors and the boot chain on a blank, foreign or installed region, fetches that fail, power cuts: `PatchedSessions`, `DoneMeansInstalled`, `UninstallBlanks`, `InstallEnds`, `BootServes` |
| `Breaker` | 3,136 | `NoFourthStart`, `StopsOnlyOnQuick` at thirds of a second |
| `Dhcp` | 108,724 | lost, late and repeated messages, clients that release their address, one restart: `PoolConsistent`, `NoDuplicateAddress`, `OfferIsHonoured`, `Sticky`, `EveryClientServed` |
| `Tftp` | 43,040 | `Transfer` (refinement), `LockStep`, `CompleteIsTrue`, `ThreadsEnd` |
| `TftpWrite` | 271,520 | uploads that meet at one path, a request that comes twice: `Upload` (refinement), `StoredIsWhole`, `AckedIsStored` |
| `ServeKit` | 1,275,808 | deploys that fail or are interrupted, servers left behind or without a port, installations meanwhile: `NewestIsConsistent`, `ServedInstalls` |
| `Build` | 843,572 | three builds onto each other's files: `DoneDelivers`, `NeverBuildsOnBroken`, `SidecarProtects` |
| `Cramfs` | 10,804 | 625 trees written and read back: `RoundTrip`, `NoOverlap` |

Two further runs check one statement each of the documentation or of a message, and TLC
refutes it; `PROJECT.json` ("findings") quotes the line and says what happens:

| Run | Statement | What the code does |
|---|---|---|
| `Stacked` | install.sh never stacks two daemons | a watchdog between two sessions does not show in `ps` |
| `SkippedIsSkipped` | "skipping java-certs" | an empty argument makes the whole build fail |

Other statements that the code does not keep are visible in the models without a run of their
own; the properties above are stated with the condition that excludes them:

* `uninstall.sh:39` says "the reserved region is blank again"; the watchdog is not killed and
  may install a confirmed update meanwhile (`UninstallBlanks` is checked without updates).
* `watchdog.sh:44-45` says that `/tmp/update_ready` means fetched, verified and staged; a
  second `/update-do` empties the staging directory and leaves the marker of the first
  (`AppliesVerified` and `OnlyApproved` are checked without the activity `restage`).
* `avocent_fl_tool.py:232` reports "kernel_end + tail == file length" and tests
  `kernel_end <= length`: an image that lost its tail and has no sidecar passes
  (`SidecarProtects` has that condition).
* `runme.sh:411` and `:445` and `mini_tftpd.py:134` say that Ctrl-C stops the server. Without
  the DHCP server in the foreground it ends `runme.sh` in its `wait`; the background job of a
  script ignores the signal and goes on serving. A later start on that port fails; the server
  that was left serves the new kit just as well (`ServedInstalls` therefore asks for a listening
  server, not for the menu's own).
* `runme.sh:438` says "TFTP server running in background" right after starting it and looks at
  nothing. Where `mini_tftpd.py:132` cannot bind (another program has the port, or it is a
  privileged one), DHCP is started all the same, and appliances are sent to nothing: `Serve`
  has that outcome, and `menu.pc = "dhcp" => port[begun] \in servers` is false
  (`ServedInstalls` asks what happens while something listens).
* `mini_tftpd.py:105-107` acknowledges the last block of an upload before it opens the file:
  the client is told of success, and storing may still fail (`AckedIsStored`).
* A deploy that fails half-way leaves the `install.sh` of the deploy before beside newer files,
  so an appliance may write the bundle at one offset and read it at another
  (`NewestIsConsistent` speaks of the newest deploy's `install.sh`).
* `cramfs_tool.py:129-131` cuts values that do not fit without a word. In practice only names
  of 253 to 255 bytes can meet it (`RoundTrip` is about trees that fit; the run has others,
  one of which makes the reader recurse without end).
* `install.sh.template:89-91` says "done ... survives reboots" and line 84 never looks at what
  the flash tool reported: when it refuses foreign bytes nothing was written, and when it reports
  FAIL the region holds anything but what was installed (`DoneMeansInstalled` excludes both).
* `ensure_patched.sh:67` says "patches applied. Starting client..." and its comment (22-24) that
  the effect of each call is verified, "so skipping strict error-checking here is safe". Nothing
  is verified when the script runs: a `kmem_patch` that fails starts the client on an unpatched
  kernel (with the activity `patchfail` `PatchedSessions` is false; it is checked without).
* `install.sh` truncates `/mnt/jffs/startup.sh` and the reader before it fetches them: when that
  fails, the old installation does not boot any more. Nothing in the code says that it would.
* `startup.sh.template:9-11` says that the watchdog self-heals; line 33 passes no TFTP host, so
  it does not (`TftpHost = FALSE`). Only the hand-made `startup.sh` does (run `SelfHeal`).
* `MANUAL.TXT:417-418` says that Apply writes the build to flash, and `watchdog.sh:71` "update
  applied". When the flash tool reports FAIL (`watchdog.sh:64` does not look) the new build runs,
  both markers and the staged envelope are removed, and the region holds the old build, a mixture
  or nothing; when the tool itself is gone from `/tmp`, it holds the old one (`RunsWhatBoots` excludes a rewrite that did not
  pass, and is checked where files do not vanish).
* `watchdog.sh:15` says "within 10s"; whole-second reads can see 10 in a session of 9.3 s
  (`NoFourthStart` therefore speaks of nine seconds).
* `mini_dhcpd.py:22-24` says "safe to re-run"; a restart forgets leases that are in use
  (`NoDuplicateAddress` and `OfferIsHonoured` hold until the first restart).
* `runme.sh:323` says "Your original is untouched"; the output name may be the original's own
  (`DoneDelivers` covers that case, the message is wrong in it).

### Bounds, and why they are enough

* **Device runs.** Two builds: the properties only compare builds for equality, and two tell
  old from new and served from installed. `SelfHeal` has one, because its two properties
  compare none. Tools that report FAIL and a failing `kmem_patch` are in `Update` and not in
  `Lifecycle`, where `PatchedSessions` and `BootServes` are false with them (section 4 has the
  counterexample: `install.sh` replaces the files of an appliance that is starting by what a
  torn bundle holds). Two erase blocks: one is enough to be blank or whole, two to be a mixture.
  One watchdog, or two where a script may start another. What operators do is not bounded in
  number: the state is finite by itself.
* **Breaker.** A third of a second is the coarsest clock on which the two ends of an interval
  can be cut by different amounts and lie strictly inside a second; sessions are followed for
  11 s, one more than the limit. Longer ones behave like those.
* **Dhcp.** Two clients, two transactions of one of them (so that a late message of an earlier
  one exists) and one of the other, two addresses and one from elsewhere, one restart. The
  clients are alike, so it does not matter which one comes back. Two addresses for two
  clients: the last one is leased, and the pool is not exhausted. The safety properties are
  proved for all sizes, an exhausted pool included.
* **Tftp.** Blocks of two bytes; files of 0, 4 and 9 bytes: empty, an exact multiple, and five
  blocks so that numbers modulo 3 wrap. Two threads: a request and its duplicate. `Lifetime`
  (2 < W = 3) says that no packet is delayed by a whole turn of the block counter, 65,536
  blocks in the code; without such an assumption no protocol with a finite counter is safe.
* **Build.** Three builds over two names are the shortest history in which an incomplete image
  is made, is built from, and lands on a name with a sidecar. Selections of features are no
  feature, java-certs, two others, and all; each feature alone in the violation runs. Stock
  images with and without a sidecar, with and without what the features look for.

* **TftpWrite.** The same wire. Files of 7 and 4 bytes (four blocks, so that numbers wrap, and
  an exact multiple), a path that is empty or has 8 bytes, longer than either. Three threads:
  two clients and one request that comes twice. Where three uploads or more meet, what the path
  holds is a patchwork of several of them; `StoredIsWhole` speaks of any number, the run has
  two, the theorem all.
* **ServeKit.** Three deploys: one that is installed from, one that changes the kit under it,
  and one more that is compared with; two ports, one per server that is in the way.
* **Cramfs.** Widths of 2, 7 and 6 bits instead of 6, 24 and 26, and blocks of 64 bytes, so that
  every limit is met exactly and passed by one with three names and three levels: names of 12
  and 13 bytes, sizes of 127 and 128, images up to and past 256 bytes. A block may compress to
  more than it had.

Every property has a mutant of the code (operators commented `Mutant:`) that TLC refutes.

### Fairness, and what justifies it

* `Device`: weak fairness of every running script, tool and hook; they are processes that the
  kernel schedules and every command in them returns. None for the operator, nor for the end
  of a session (it may last for ever). `BootServes` assumes explicitly that power cuts stop.
* `Dhcp`: weak fairness of a client's next step, and of the delivery of each transaction's
  messages: a client repeats a message until it is answered. None for reboots, renewals,
  restarts or giving up.
* `Tftp`: weak fairness of a waiting thread only, which `settimeout(5)` gives it.
* `TftpWrite`: weak fairness of `Open` and `Write` only: a thread that has everything waits for
  nothing. A thread that waits for a block need not end, since every packet gives it five more
  seconds.
* `Build`, `Breaker`, `ServeKit` and `Cramfs` have safety properties only.

`CHECK_DEADLOCK FALSE` is set where the system may stop: a tripped breaker with nobody to
install again, a bounded number of transactions, transfers or builds that is used up.

## 4. The proofs

All theorems hold for every value of the constants that satisfies the named assumptions next
to them; they assume no bound of the runs.

* **DeviceProofs** (3,161 obligations). `TypeCorrect` and `ForeignIsKept`, whatever goes on.
  `TypeOK` is not inductive alone: the breaker adds one to a count of at most three, which
  needs that a count of three has stopped the watchdog (`BelowTrip`), and programming a block
  puts the source of the tool into it, which needs that nothing is programmed without a source
  (`HasSource`). `ForeignIsKept` needs `NoneOverForeign`: the tools look at the region once and
  then go on for many steps, so that the check must be carried along while others work on the
  region. No run checks `ForeignKept`: on a small instance it is little more than the check of
  the tool, for all of them it is not. One lemma per script; `Still` says that an untouched group of variables keeps its part.

  `OnlyVerifiedIsApplied` (`AppliesVerified`) and `OnlyApprovedRuns` (`OnlyApproved`), under
  `OneUpdate`: one supervisor, nothing staged over a ready update. `StagedInv` is what the
  staging child has established at each of its program counters and what the two markers then
  vouch for; it is phrased so that it survives a discard or a new daemon that removes the
  directory under the child. `ApprovedInv` lists every place a build can be copied from: the
  directory once it is confirmed, the files of `/tmp`, the flash, the sources of tools at
  work, and the build `install.sh` fetches.

  On top of it `WorkInv` says who is at work since when: a tool runs for a script that waits
  for it (`Owners`), the region has the shape its progress gives it (`Shapes`), a tool that
  failed in `install.sh` has refused foreign bytes or spoilt the region (`Rewritten`, `Spoilt`),
  the boot files are fetched
  before the rewrite (`BootFiles`), nothing runs before the hook (`AtBoot`), no client before
  the kernel is patched (`NotYetPatched`). From it follow `SessionsArePatched`,
  `UninstalledIsBlank` and, with what `ApprovedInv` says of the sources (`Programmable`), that
  the region is a mixture only while it is rewritten or after a rewrite that did not pass
  (`WholeUnlessTorn`), from which `DoneIsInstalled` is. `RunsIsWhatBoots` needs one more layer, `BootsInv`: the
  client that would be launched next is the bundle that boots, except between the first copy
  of an update and the end of the rewrite it announces, where the tool's source is the file
  already copied.
* **BreakerProofs.** `NoFourthStart` and `StopsOnlyOnQuick` for every clock resolution and
  every session length, from the invariant that relates boundaries crossed, the fractions at
  both ends and the true age.
* **DhcpProofs** (573 obligations). `PoolConsistent` (any number of restarts), and for a
  server that is not restarted `NoDuplicateAddress`, `OfferIsHonoured`, `Sticky`. The
  invariant ties every OFFER, ACK and NAK on the wire to the lease table: by_mac is one-to-one,
  and what was promised to a client is what it has.
* **TftpProofs** (about 750 obligations). `LockStep`, `CompleteIsTrue` and `Transfer`, the
  refinement: initial states map to initial states, every step to a step of `FileTransfer` or
  to a stutter. The invariant says which blocks and acknowledgements can be on the wire given
  where both ends are; the assumption `Lifetime < W` is what makes equal numbers equal blocks.
* **ServeKitProofs** (414 obligations). `NewestIsConsistent` and the action property
  `ServedInstalls`, for any number of deploys and any ports. The invariant says where a deploy stands: files before
  `menu.file` are whole and of the deploy under way, the others are not (`Progress`). As `install.sh` is the last one,
  a whole one of the newest deploy vouches for the rest (`InstallVouches`), and no file changes
  until the next deploy begins, so it vouches for what was fetched too (`FetchedIsOfIt`). A kit
  that is offered or served is complete (`KitServed`), whether or not a server came up for it.
* **BuildProofs** (894 obligations). `TypeCorrect`, `DeliversWhatWasAsked` (`DoneDelivers`),
  `ReadsWhatVerifies` (`NeverBuildsOnBroken`) and the action property `SidecarGuards`
  (`SidecarProtects`), for any names, build ids, selections and number of builds. The features
  are applied in the order of `main`; `TreeFollows` says that the tree before each of them
  packs to what was asked for as far as the build has come (`Passed`), and `ImageFollows` takes
  that through packing and the three writes. `InputStands` is why a build may replace its own
  input: the last read comes before the first write. The lemmas about `Firmware`'s operators
  say that unpacking and packing keep a rootfs (`TreeIf`, `WantedIsRoot`, ...), and that each
  feature adds to the tree exactly what `Wanted` says of it.
* **TftpWriteProofs** (1,067 obligations). `StoredWhole` (`StoredIsWhole`) and `UploadHolds`
  (`Upload`, the refinement of `FileTransfer`). As in `TftpProofs`, `Lifetime < W` makes equal
  numbers equal blocks (`SameBlock`); `GotInv` says that a thread has the pieces of its file
  and goes on with the last only, `DiskInv` what writes without a lock leave on the path: the
  upload written last lies whole on top, and every byte is some upload's byte of that place.
* **CramfsProofs** (3,186 obligations), for any trees, names, lengths and widths.
  * `NothingOverlaps` (`NoOverlap`). The cells emitted so far lie between the header and `pos`,
    none reaching into another (`Laid`), and the calls of `emit_dir` under way name entries of
    the tree (`Calls`).
  * `ReadsBack` (`RoundTrip`). The invariant `RoundInv` has two halves. While the image is
    written (`Serializing`), two functions that the program does not have say where the inode of
    each path is and where what it points to begins; every slot is where the names before it in
    its directory leave it (`Room`), and every path that is on no call's way has been written
    with all of its entries. A complete image is `Serialized`: every inode holds what
    `write_inode` was given, every file is `Stored`. While it is read (`Parsing`), what has
    been read is right, and a call of `build` that has come to some entry has read all entries
    before it and has as many bytes to go as the rest of them take (`Under`). `Fits` is used in
    one place, `InodeRead`: then every field reads back as it was written. At both ends, that no
    path is missing is an argument about the shortest one that is (`AllSerialized`, `ParsedAll`).
  * Where the blocks of a file end and the size of a directory are recursive functions
    (`Sums`). That they exist and grow is an induction over the data, done as "a set of
    counterexamples has a least number" (`Least`), since the library's induction theorems have an
    operator parameter and this form has not. `TreesAssumption` says what a tree is: every path
    but the root lies in a directory, and a directory holds no bytes of its own.
    `PowersAssumption` is arithmetic that the provers lack (2 to a number is a positive number).

TLC checked each invariant before it was proved, on the instance of the run. Theorems and runs
state the same properties, except for `ForeignKept` and the type correctness of some modules:
the run shows that the instance is not empty, the theorem that its
size does not matter. Attempts at proofs also changed what is stated: `StoredIsWhole` once
spoke of two layers, which three uploads of one path refute, and the conditions of the
`Device` properties were wider or narrower than the code's.

**Conditions of the Device properties.** A theorem names the activities it excludes; each is
there because TLC finds a counterexample without it:

| Theorem | Hypothesis | Without it |
|---|---|---|
| `OnlyVerifiedIsApplied`, `OnlyApprovedRuns` | `OneUpdate` | the marker of one update vouches for the directory of another; of two supervisors, one copies while the daemon of the other discards the update and stages the next |
| `SessionsArePatched` | `PatchesFirst`: no `patchfail`, and with `install` neither `vanish` nor `toolfail` | `kmem_patch` does nothing; `install.sh`, beside a supervisor in its first seconds, loses the flash tool it has just fetched into `/tmp` or the tool reports FAIL, runs `startup.sh` all the same, and unpacks a torn bundle over the files of the older supervisor |
| `UninstalledIsBlank` | no `update` | the watchdog was not killed and installs a confirmed update into the erased region |
| `DoneIsInstalled` | neither `update` nor `vanish` | the tool is gone and nobody checks, or an update rewrites the region at the same time or later |
| `RunsIsWhatBoots` | `NothingLost` | the copy of the client fails and the flash is rewritten all the same; the tool is gone; a file is fetched again from a newer bundle; the region is erased under a client that runs |

The hypotheses are formulas about CONSTANTS; each run that checks one of these
properties satisfies the hypothesis of its theorem.

**Only model-checked.** Every liveness property (`ApplyIsCompleted`, `Respawns`, `InstallEnds`,
`BootServes`, `EveryClientServed`, `ThreadsEnd`, `AckedIsStored`): fairness and ENABLED are out
of the prover's reach. The two violations are counterexamples of one instance each.

## 5. What is not modelled

* The inside of the binaries (video, AVSP, web UI, kernel words): no source. What scripts
  depend on is modelled as external.
* The pre-flight probe of `get_avsp_bundle.py` (it prints a verdict and changes nothing), the
  guess of the local address in `deploy_bundle.py`, and the text of the rendered scripts beyond
  the port and the deploy it is from.
* Downloads beside uploads of one file: a download reads the file once, when it begins, and may
  read it half-written; nothing in the code claims otherwise. `Tftp` has an operator who
  rewrites the file instead.
* Directories of the image: paths are flat, so a parent directory that a feature makes on the
  disk and not in `MANIFEST.json` (`get_avsp_bundle.py:162`, `java_certs.py:193-201`) is not told
  from one the stock image has, as the images of this appliance do. The substring tests of
  `modem_console.py` (`ttyS1`) and `avsp_onboard_hook.py` (`startup.sh`) are set membership: a
  stock file that mentions the word otherwise, for which the feature skips its edit, is not
  among `Layouts`. The exit of `build_kvm_firmware.py:165-167` without `--cert-ip` changes nothing.
* Keys, certificates, jars and class files: data. `java-certs` is modelled by its failures, its
  refusal of a patched class file and its two edits.
* Packet layouts, argument parsing and messages, except where a property is about them.
* `sync_from_release.sh`, `verify_ppcbin.sh`: straight-line maintainer scripts without state.
* Two PC tools at once on the same files: one build at a time.

## 6. Plan

Done: the appliance, the servers, the kit and its menu, the builder, cramfs (sections 2 and 3),
and a theorem for every safety property of a passing run (section 4).
What is left, in this order:

1. Action properties that follow from the invariants at hand: `by_mac` and `used` change
   together (`DhcpProofs`), files of the kit change only under a deploy (`ServeKitProofs`).
2. Weaker hypotheses where the code allows them: `RunsIsWhatBoots` with failing copies other
   than the client's.
3. `Build` with two builds at a time (the input is read three times), and its proofs with it.
