# A formal model of palm-lap

palm-lap turns a Linux host into a Bluetooth access point for Palm OS handhelds:
a D-Bus daemon gives every authorized Palm a `pppd`, commands open a pairing
window and edit the allowlist, an OBEX agent receives files, and a web
interface sends them. This directory models the parts of it that keep state, in
TLA+; TLC checks the models on small instances and TLAPS proves their safety
properties, and three refinements, for every value of the constants.

    tlc -workers 2 -config MCLapSessions.cfg MCLapSessions     # a run
    tlapm LapSessionsProofs.tla                                # a proof

`PROJECT.json` lists the components, the runs, for every property a mutation of
the model that breaks it, the source lines each definition stands for, the
hazards of the code, the disagreements found and the theorems.

## 1. Inventory

| Component | Source | State | Operations |
|---|---|---|---|
| LAP daemon: sessions | `src/palm-lapd.py`, `systemd/palm-lap.service` | the copy of `config.json` read by `main`; `connections`; the `pppd` children; the `quit` of the main loop | `NewConnection`, `RequestDisconnection`, `Release`, `_reap_children`, `shutdown`, `main` and its `finally`, the systemd restart |
| Pairing window | `src/palm-lap-pair.py`, `palm-lap-pairing-close.{timer,service}`, `pairing_state` and `enforce_closed_pairing` of the daemon | `pairing.json` and its temporary in `/run/palm-lap`; the flags and timeouts BlueZ keeps; the transient timer | `open`, `close`, `status`; the timer; the daemon's start and stop |
| Pairing agent | `PalmAgent` in `src/palm-lapd.py` | none of its own | the `Agent1` callbacks, each of which reads the window or the allowlist |
| Device allowlist | `src/palm-lap-device.py`, `load_config` | `config.json` and its temporary; BlueZ `Trusted`; the configuration in force | `add`, `remove`, `list`; check and restart of the daemon |
| Object Push inbox | `src/palm-obex-inbox.py`, the inbox part of `src/palm_web.py` | the files; a sidecar per transfer; `pending` | `AuthorizePush`, the two signal handlers and `finish`, `recover_interrupted`; list and delete of the web process |
| Bluetooth send jobs | `src/palm_web.py` (`jobs`) | `jobs` and `jobs.json`; the executor's queue; the helper process | `start_send`, `run_send_job`, `load_jobs`, `save_jobs` |
| PRC sender | `src/palm-send-prc.py` | the `state` of a transfer; signals waiting in the connection | `SendFile`, `GetAll`, the two handlers, the timer, `Cancel`, `RemoveSession` |
| Upload store | `src/palm_web.py` (`upload`, `delete`, `send`), `send_file` of `src/palm-web-admin.py` | the directory of `.prc`, `.pdb`; hidden temporaries; `staged` of each request | stage, validate, publish, clean up; delete; the reads of a send |
| Bluetooth recovery | `src/palm-bluetooth-recover.py`, its unit, the restarts of `src/palm-web-admin.py` | the driver binding; the two services; the seconds left | stop, unbind, bind, restore, the except clause; systemd's limit; `lap-restart`, `bluetooth-restart` |
| Web helper | `src/palm-web-admin.py` | none | one validated command per process |
| Discovery hints | `src/palm-lap-controller-compat.py`, `src/palm-obex-compat` | the controller's class | two `btmgmt` calls at boot |
| Network configuration, installation | `config/`, `scripts/` | static | run by other programs, or once by hand |

How they interact. BlueZ calls the daemon over D-Bus; the daemon runs `pppd` in
a process group of its own and sees it again through `poll`. The commands
`palm-lap-pair` and `palm-lap-device` talk to the daemon through a file each
(`pairing.json`, read at every agent callback; `config.json`, read at a start
only), so that `palm-lap-device` ends with a restart of the daemon. They may be
run by the shell of an administrator, by the web helper and, for a close, by a
systemd timer, all at once. The inbox agent, obexd and the web process share a
directory; obexd tells the agent by D-Bus signals what became of a transfer.
The web process runs `palm-web-admin send`, which runs `palm-send-prc`, which
follows the signals of obexd.

What is hard about them, and what makes each correct:

* **Daemon.** A Python signal handler runs between any two steps of a D-Bus
  callback; a child is forgotten, exits and is collected at three different
  moments; the daemon may die with children alive. Correct: no `pppd` is lost
  or doubled, each runs with the configured address, every exit stops them all,
  a shutdown completes.
* **Pairing window.** Four timers (the expiry in the file, two BlueZ timeouts,
  the systemd timer) and three writers, `btmgmt` that fails or never returns, a
  runtime directory that goes with the daemon. Correct: discovery is never
  unbounded, the window ends, bonded Palms can connect afterwards, an `open`
  that reports success has opened.
* **Allowlist.** Read, change, write without a lock and through one temporary
  name. Correct: the file is always one the daemon accepts, what a command
  reports is in force, a device is trusted before it is authorized.
* **Inbox.** A promise of a path before the file exists, sidecars read before
  the directory, agent restarts between any two events. Correct: only whole
  files are listed, all of them are, none is overwritten or lost.
* **Send jobs.** A record on disk, a table in memory, a queue in an executor
  and a process that may disagree after a failed save or a crash. Correct: one
  sender at a time, no job sent twice, a verdict that is true, an end for
  every job.
* **Upload store.** Request threads share a directory without a lock; a batch is
  staged, validated and published file by file and may fail at any of them; a
  send names a file long before it reads it. Correct: only files of faultless
  batches are ever visible or sent, an upload shows all of its files or none,
  nothing is left behind unaccounted.
* **Bluetooth recovery.** Commands that succeed, fail or expire, with a systemd
  job carried out or not in the last case, a limit on the whole, and other
  programs that restart the same services. Correct: the services come back,
  and the controller is not left without its driver.
* **PRC sender.** Signals that arrive while a blocking call runs are dispatched
  only later, some belong to the previous file. Correct: success is said of
  what arrived only, the sender ends.

## 2. Modules

| Module | Models | Composes with |
|---|---|---|
| `LapSessions` | the session manager of the daemon | the edits of `config.json` and systemd as its environment |
| `LapSessionsProofs` | theorems about it | |
| `PairingWindow` | `palm-lap-pair`, the close timer, the daemon's start, BlueZ's flags | |
| `PairingWindowProofs` | theorems about it | |
| `LapDevice` | `palm-lap-device` and the daemon's load of the file | |
| `LapDeviceProofs` | theorems about it | |
| `LapGateway` | commands, systemd and daemon together | `LapSessions` and `LapDevice`, whose actions it takes; implements both |
| `LapGatewayProofs` | theorems about it, and the two refinements | |
| `ObexInbox` | agent, obexd and web process over the inbox | |
| `ObexInboxProofs` | theorems about it | |
| `JobLedger` | the abstract specification of the send jobs | |
| `SendJobs` | the send jobs of the web process | implements `JobLedger` |
| `SendJobsProofs` | theorems about it, and the refinement | |
| `PrcSender` | the sender and its obexd | |
| `HelperProgramsProofs` | theorems about `PrcSender` and `BluetoothRecovery` | |
| `UploadStore` | uploads, deletions and a send over the store | |
| `UploadStoreProofs` | theorems about it | |
| `BluetoothRecovery` | the recovery under its unit, beside the restarts of the helper | |
| `MC*` | constants and symmetry for TLC | |

Operators with names ending in `Bug` (or `Long`, `None`, `Any`, `Unchecked`) are
not used by any specification: each is a plausible slip in the definition that
follows it, and the property it is listed with must fail when it takes that
definition's place.

### LapSessions

`connections` is the attribute of that name, `disk` and `config` are the file
and the daemon's copy, `proc` is the life of a child (`running`, `signalled`
after `killpg`, `zombie`, `done` after a `poll`), `sess` what it was started
with. `pc` names the points at which a signal handler finds table and children
in disagreement: `spawned` (after `Popen`, before the table is updated) and
`popped` (in `_stop`, after the pop and before the kill); `start`, `armed` and
`loop` are the stretches of `main` before `signal.signal`, before `loop.run`
and inside it. `NewConnection`, `RequestDisconnection`, `Release` and
`_reap_children` are actions of those names; `Signal` is `shutdown` at any of
those points; `Finally` is the `stop_all` on the way out. `AfterCleanup` is the
polling that `subprocess.Popen` does of children nobody holds any more.
`Interface` is the last octet of the address, on a subnet that may be wider.
A child that was told to stop stays alive until `PppdExit`, beside the one its
device may have got meanwhile, and `SessionsDistinct` counts both.
A `quit` before `loop.run` is forgotten, as in GLib. `Crash` ends the daemon
and, with systemd's control group, every child (`GroupGone`).

### PairingWindow

Each statement of `main` and `close_window` that touches something shared is an
action; the process is at the step `pc` names. `inode` follows a written file
through `replace` and `unlink`: a command that opened `pairing.tmp` writes into
whatever that file has become, from its start (`Over`), so that a shorter text
leaves the tail of a longer one that another command has written there: `Mixed`
is the PIN of such a file, which the daemon cannot parse. A PIN is represented
by the process that chose it. BlueZ's behaviour (`SetPairable`, `Arm`, `Elapse`, `DropScan`) is external
and taken from how the code relies on it. Time is counted in ticks of
`DURATION / D` seconds and a `Tick` may happen at any point, also in the middle
of a command. `Raises` ends a command at a D-Bus call that BlueZ refuses, or at
the restart of the timer; a stop of the timer that systemd refuses is not
modelled.

### LapDevice

The same treatment of `config.tmp` and `config.json`. `Torn` stands for the
contents of a file that was truncated and not written yet, `Mixed` for those of
one whose tail is of another command's text; the length of a text is left open,
so that `Over` allows both what was written and the mixture. `Die` is a command
interrupted or failing at any of its steps. `Restart(ps)` is the restart of the
daemon that serves the commands `ps` that wait for one (systemd merges restart
jobs; with `ps` empty it is one that somebody else asked for): the old daemon is
gone, `ExecStartPre` has judged the file, and `main` is yet to `Load` it. A
device is one key of the file: that `load_config` writes MACs in one case, and
takes an address without the details around it, is abstracted.

### LapGateway

`S` and `D` are instances of the two modules above over one `file`; a step is
one of the commands, one of the daemon, or one of systemd. What `LapDevice`
takes as the one step `Restart` is here `AskRestart` (the command waits in
`systemctl restart`), the daemon's own way down by `S!Signal` ... `S!Finally`
or by `S!Crash`, the exit of its children, `StartPre` (the control group is
empty, the file is checked, the commands return) and `Start` (`main` loads what
the file has become by then). `Disk` shows a torn or mixed file to the daemon as
one it refuses; `InDaemon` shows the commands the configuration in force. The property
`RestartIsOneStep` is `D!Spec`, the refinement. The composition implements
`S!Spec` as well: to the daemon, a command that publishes a file is an edit of
`config.json`, and the rest of it is a stutter.

### ObexInbox

A payload is the transfer that wrote it and whether it is whole; a sidecar is a
status and a stored name, where "failed" stands for the four final statuses
other than "complete". `AuthorizePush`, `Finish`, `Recover` and `Registered`
are the agent, whose writes of a sidecar may fail; `Answered`, `Open`,
`Receive`, `Abort` and `ObexDie` are obexd; `WebDelete`, `RemoveMetadata` and
`Deleted`, `ListRead` and `ListScan` are the steps of the web process's deletion
and listing. `serving` is whether the running obexd knows the agent: a new obexd
does not, until the agent is started again. `Hidden` is the code's rule: a name
that a sidecar other than "complete" claims, and no complete one. What the rule
must achieve is stated without it: `ReceivedVisible` starts from the payload
and from what the agent has finished with, not from the sidecars.

### SendJobs, JobLedger

`jobs` and `disk` are the table in memory and in `jobs.json`; `SaveJobs` is
every change of the table with its save, which fails or not. `at` follows
`run_send_job` through its `try` and `except`. `JobLedger` is what the web
interface promises: a ledger, one radio, and an `Interrupt` that a restart is.
`Ledger` is the refinement mapping: the ledger is the file on disk, not the
table in memory, because the file is what survives.

### UploadStore

A file is the item of a batch it was uploaded as: `<<request, index>>`; its
`fit` is whether the suffix and the header pass. `pc` and `at` follow `upload`
through its loops, `staged` is how much of the batch its `finally` knows of.
`Fold` is `casefold`: names that differ in case are one name within a batch and
two in the directory. `Save`, `Validate` and `Replace` may raise at any file.
`finally` removes one file after the other (`CleanUp`), whatever the request has
come to (`keep`, `refuse` or `break`), and may raise too; `Respond` is the
answer, or the exception that goes on. `Delete` and `Unlink` are the
check and the effect of a deletion; `Send`, `FileIsThere` and `ReadFile` are the
look of the request, of the helper and of the sender at the store. One send is
in hand at a time, which is what `SendJobs` shows. A request is served once; a
further one would be another member of `Request`.

### BluetoothRecovery

`Program` is the order of the commands of `main` and of its except clause. A
command returns, in success or not, within its timeout, or it expires, and then
the job it asked systemd for may have been carried out all the same
(`CommandExpires`). `left` counts the seconds of `TimeoutStartSec`, `Kill` ends
the recovery in any step that would outlast them; a command takes none of its
time or all but a second of it, the two ends that matter for the sum. systemd
counts `ExecStart` for itself, so the sleep of `ExecStartPre` has no part in it.
Beside it run `LapRestart` (of the helper or of `palm-lap-device`) and one
`bluetooth-restart` of the helper. `Job` is what `Requires=` and `PartOf=` make
of a start or a stop. The writes to `unbind` and `bind` take no time of their own.
A restart is one step; a stop job that systemd carries out
after a later start is not modelled.

### PrcSender

`queue` holds the signals that arrived and were not dispatched: handlers run
only inside `loop.run`. `leaving` is the main loop after `quit()`, in whose last
iteration another source may still be dispatched. obexd may complete, fail or
drop a transfer at any moment from `SendFile` on, and may die without a word.
`SendFileUnanswered` is the timeout of the call itself, on a transfer that obexd
has taken. `report()` asks for the size of the file at every status, also when
BlueZ has given it one: `stored` is whether the upload is still there
(`StoreEdit`, from the page), and without it `report()` raises. In a handler
(`Report`) the D-Bus binding drops that exception, and a final status with it;
after `GetAll` it ends the program.

## 3. Runs

| Run | Configuration | Instance | Distinct states |
|---|---|---|---|
| `sessions` | `MCLapSessions.cfg` | 2 devices, 2 children, addresses 2, 3 and 258, of which two end in one octet | 277,680 |
| `pairing` | `MCPairingWindow.cfg` | 2 administrators and the timer, 2 opens, `D` = 2 ticks | 542,471 |
| `pairing_exposed` | `MCPairingWindow_exposed.cfg` | as `pairing`, finds a violation | |
| `device` | `MCLapDevice.cfg` | 3 commands, 2 devices, symmetric | 635,738 |
| `gateway` | `MCLapGateway.cfg` | 2 commands, 2 devices, 1 child, symmetric | 1,033,969 |
| `inbox` | `MCObexInbox.cfg` | 2 transfers, one oversized, 2 names | 210,964 |
| `inbox_crash` | `MCObexInbox_crash.cfg` | finds a violation | |
| `jobs` | `MCSendJobs.cfg` | 3 jobs, any save may fail | 49,019 |
| `jobs_twice` | `MCSendJobs_twice.cfg` | finds a violation | |
| `sender` | `MCPrcSender.cfg` | 3 files | 122,300 |
| `store` | `MCUploadStore.cfg` | 2 uploads, 2 names, one of them in two cases, 11 kinds of batch, at most 2 files | 1,163,487 |
| `recovery` | `MCBluetoothRecovery.cfg` | the seconds of the unit and the program: 35, 15, 10 | 3,039 |

What each run shows is in its `about` line in `PROJECT.json`.

Why these bounds. Two children are the least with which one can be lost, or
doubled, while another is served; a device that reconnects uses the second while
the first still ends. Two overlapping `palm-lap-pair` commands and the timer are
the three writers there are; `D` = 2 puts the start of a command, its middle and
the expiry on different ticks; two opens are a window and its renewal. Three
`palm-lap-device` commands are needed for a command that reads what a second
wrote over the change of a third. Two transfers and two names give a retry
under the same name, and a second transfer while the first is followed; the
oversized one gives the rejection. A third transfer under a name whose second
file a recovery deleted, after the sidecar of the first could not be written,
is beyond the run and within the theorems about the inbox, which are for any
number of transfers. Three jobs are one with the worker, one in
its queue and one being posted. With three files signals of one transfer are
queued during the next and two transfers have ended before the third. Two
uploads are the least that publish the same names over each other; the batches
have a fault of each kind in the first place and in the last, one name twice, in
one case and in both, and one file too many. The addresses of the daemon are
those of a subnet wider than /24, where two may name one interface. One child is enough for the gateway: its question is whether
a session outlives the report of a command, and doubled sessions are the
question of `sessions`. The recovery is not scaled down: its seconds are the
ones of the code. `MaxOpens`
bounds the opens of the pairing model, `Pid` the children alive at once: an
object that was collected and is no longer held is reused. Nothing else is
bounded: restarts, crashes, edits, signals and deletions may happen any number
of times.

Symmetry is used in `device` and `gateway`, which check no liveness.
`CHECK_DEADLOCK FALSE` is set for the sender only, a program that ends; the
other systems can always take a step.

### History variables

These variables record what happened, and no action reads them; they state what
a property is conditional on, instead of a model that leaves the case out.

* `calm` (`PairingWindow`): at most one command or daemon start has been under
  way at any time and no command has failed or stalled. `IdleConnectable`,
  `OpenDelivers` and `WindowEnds` speak of calm behaviours; `DiscoveryTimed` and
  `ExposureEnds` of all.
* `alone` (`LapDevice`): no two commands have overlapped. `SuccessInForce` and
  `ReportReachesSessions` are about such behaviours, in which commands may still
  die at any step; `WholeIsValid` and `AuthorizedTrusted` are about all.
* `freed` and the `asked` of a listing (`ObexInbox`): the names an administrator
  has deleted or a recovery has emptied although their file was complete, and
  the transfers that had begun when the listing read the sidecars; the two
  exceptions of `ListedIsWhole`.
* `flawless` (`SendJobs`, `ObexInbox`): no write of `jobs.json`, or of a
  sidecar, has failed yet. `Serialized`, `KeepsLedger`, `Settles` and
  `TransferSettles`, and `ReceivedVisible`, are about that time; `CompleteIsSent`,
  `SentOnce` and `ListedIsWhole` are about all.
* `blind` (`PrcSender`): the answer of `SendFile`, or a final status that
  `report()` could not deal with, was lost. Two of the three causes that
  `MissedOnlyBlind` names.
* `shown` (`UploadStore`): the items that have been visible at some time.
* `raised`, `refused` (`BluetoothRecovery`): the step that raised first, and
  whether systemd failed to start one of the services since the recovery began:
  the model cannot promise a service that does not start.

### Fairness

* `LapSessions`: the code of `main` and of a callback runs on (weak); the main
  loop comes back to its timer and to the end of its iteration whatever else it
  dispatches (strong, for `Reap` and `LoopReturn`: GLib serves sources of equal
  priority in turn); a `pppd` that got SIGTERM ends. Nothing is assumed of
  BlueZ, of systemd, or of a `pppd` left alone.
* `PairingWindow`: commands run on, except in `btmgmt`, which may never return;
  systemd starts the close when the timer has elapsed (strong: a close that is
  still running delays it); a daemon that is down is started; time passes.
* `ObexInbox`: `Restart=always` starts the agent; it handles its signals,
  however often it dies (strong); obexd opens the file it was told to open. A
  transfer may go on for ever, nobody has to list or delete, obexd may die.
* `SendJobs`: `Restart=on-failure` starts the service; threads run (strong,
  because the service may die any number of times); a helper ends, since each
  of its waits has a timeout. No fairness for requests.
* `PrcSender`: the process runs on and its timer elapses; obexd, while it
  lives, brings a transfer to an end.
* `UploadStore`, `BluetoothRecovery` and `LapGateway` are checked for safety
  only: a request ends by itself, a recovery by systemd's limit, and the
  liveness of the daemon is in `sessions`.

## 4. Disagreements between the code and what it says

Each is the only property of a run that TLC reports as violated.

* `pairing_exposed`: a start of the daemon leaves the adapter alone when
  `pairing.json` is live, though the `open` that wrote it may have failed at
  `btmgmt` before it set a timeout. The pairability that BlueZ turned on when
  the agent was registered then has no end.
* `inbox_crash`: the receiver ends between the end of a transfer and the signal
  that says so; the restart takes a whole file for an interrupted one and
  deletes it. `NoneLost` says that this, and a deletion, are the only ways to
  lose one while sidecars can be written.
* `jobs_twice`: a failed save takes the worker out of the loop over the
  helper's output without an end to the helper; the next job starts a second.

Known limits that the models show and that have no run of their own:

* A signal between `signal.signal` and `loop.run` is lost (`palm-lapd.py:359`);
  `ShutdownCompletes` starts from a loop that runs.
* `_stop` forgets the child before it has ended, so a device that reconnects at
  once has an old `pppd` beside the new one, with the same address and interface
  name, although `docs/CHANGELOG.md:163` says "one pppd process per connected
  device". `SessionsDistinct` says that the old one was told to stop.
* On a subnet wider than /24 two addresses may share their last octet and with
  it the interface name (`palm-lapd.py:246`), and `load_config` accepts them.
  `SessionsDistinct` is checked, and proved, with such addresses: it says that
  nothing else brings two devices onto one interface.
* Of two overlapping `palm-lap-device` commands about different devices one may
  report success although the other has written the file back without its
  change (`palm-lap-device.py:35`); hence `alone` in `SuccessInForce`.
* `docs/CHANGELOG.md:150` says that the final "complete" "cannot be missed". It
  is missed, and a file the Palm has is called failed, in three ways: it is
  queued when the timer elapses, or comes before `Cancel`
  (`palm-send-prc.py:173`); obexd has taken the file and does not answer within
  the 60 seconds of `SendFile` (`:147`); or the upload was deleted while it was
  sent (`palm_web.py:532`), so that `report()` raises at its size
  (`palm-send-prc.py:98`). `MissedOnlyBlind` says that there is no fourth.
* A `close` stops the timer of a window opened meanwhile; the flags then end by
  their BlueZ timeouts and nothing turns page scan on again.
* Two overlapping opens share `pairing.tmp`: the one that succeeds may publish
  the PIN of the one that fails. An open that fails at `btmgmt` leaves its PIN
  on disk until it is next closed.
* A restart of the daemon removes a live window with the runtime directory.
* Between the read of the sidecars and the scan of the directory a transfer may
  begin, and its file is listed while it is received; the deletion of a name
  under which a transfer is being received has the same effect.
* A start whose save of the loaded job table fails drops the history in memory,
  and the next save writes that to the file (`palm_web.py:151`). A first update
  that fails drops its job, which stays "running" until the next start.
* A sidecar whose final write fails stays "receiving": its file, though whole,
  is not listed, and the next start of the agent deletes it; if its name was
  freed and used again, the file deleted is the other's (`palm-obex-inbox.py:106`).
  The other's sidecar then still says "complete", so that a third transfer that
  is given the name is listed while it is being received.
* After a death of obexd the agent follows transfers that are over and is not
  registered with the new obexd until it is restarted; `TransferSettles` holds
  while the agent is `serving`.
* A replace that fails in the middle of a batch leaves the files before it
  visible (`palm_web.py:500`). A save that fails, an unlink of the `finally` that
  raises, or a crash at any point leaves hidden temporaries that nothing
  removes; a crash between two unlinks of a refused batch leaves the later ones.
  `AllOrNone` and `TempsCleared` say what these can be.
* A job that waits sends what its name holds when its turn comes, which may be
  another upload than the one it was asked for (`palm_web.py:517`).
  `OnlyAccepted` says that it is a file of a faultless batch.
* A worker whose write to the helper's input fails (`palm_web.py:186`) leaves a
  helper without a request; `Spawn` takes this for a helper that was not
  started. `jobs_twice` shows a helper left behind by a failed save.
* A stop that expires, or the first start of the except clause that does, ends
  the recovery with the services as they are (`palm-bluetooth-recover.py:51`,
  `:61`); the end is called `abandoned` in the model. systemd's limit may end it
  at any later command with the same effect. A bind that is refused leaves a
  controller that no later recovery can repair, since `validate_platform` asks
  for the driver (`:24`).

## 5. Proofs

Every proof module EXTENDS what it is about; the two modules of
`HelperProgramsProofs` share no name, hence the prefixes of `RecoveryInit`,
`RecoverySpec` and their like. In each, `IInv` is the inductive invariant,
`InitInv` and `StepInv` are its two obligations, one step per action, and the
theorems follow from `Invariance == Spec => []IInv`.

* **LapSessionsProofs.** `TypeCorrect`, `NothingStray`, `OneSession`,
  `SessionsConfigured`, `SessionsAreDistinct`. The properties are not inductive
  alone: that no child is lost at the end needs to know where the callback in
  progress stands (`InFlight`: between `Popen` and the table, or between the pop
  and the kill, `cur` holds a child that the table does not), and that the table
  and `sess` agree on the device (`TableInv`), which is why a refused session is one of the same device. `SessionsAreDistinct` follows from three of
  these: every live child has the configured address (`SessionsConfigured`), two
  of one device are not both running (`OneSession`), and the addresses of two
  devices differ (`ValidConfig`, kept from the start of the daemon).
* **PairingWindowProofs.** `TypeCorrect` and `DiscoveryAlwaysTimed`: a process
  at the step that sets Discoverable must know that the timeout it set is in
  force; no action sets it back, which is the strengthening. `EndsConnectable`
  and `ReportedOpens`, the calm properties, follow from `CalmInv`: one actor at
  a time, each of whose steps finds what the earlier ones did (`OpenSoFar`,
  `CloseSoFar`), and `Restored`: as soon as page scan is off, or a countdown
  runs that will drop it, or a PIN is published, there is a timer, a command or
  a daemon start whose later steps repair it. That the flags outlast the PIN is
  the comparison of the countdowns with the age of the file in `OpenSoFar`.
* **LapDeviceProofs.** `TypeCorrect`, `ConfigValid`, `TrustedFirst`,
  `ReportedIsDone`. The contents of the file, of the temporary and of every
  command's copy must be valid and trusted all at once, because each may become
  the file at the next rename: `Good` of each of them is the invariant, with the
  exception of the one device that a command at its first step has not trusted
  yet. For what a command reports, `SoloInv` says of the one at work that its
  copy is the file but for its own entry, that the temporary it writes is its
  own, and that the file has its entry from the rename on; one that ended before
  keeps its entry, since no other command is about its device (`Unrivalled`).
* **LapGatewayProofs.** `RestartRefines`: every step of the composition is a
  step of `LapDevice` or a stutter. A daemon that dies or returns is a restart
  for nobody, the control group's end with the check of the file is the restart
  for those who asked, and a start of the daemon is the `Load`, because what
  `load_config` accepts of `Disk` is a whole and valid file. `SessionsRefined`:
  the composition implements `LapSessions` too, so that the safety proved of the
  daemon there, beside an administrator who edits the file, holds beside the
  commands (`FileEdited`). `ReportBinds`: no `pppd` contradicts a report. The
  report is made when the group is empty (`ReportedBefore`), and a `pppd`
  started later has the address of the configuration in force
  (`DaemonSessions`), which `SoloInv` ties to the report. `CommandInv` restates
  for the composition the part of the invariant of `LapDevice` that this needs,
  because the prover cannot cite a theorem about an instantiated module.
* **ObexInboxProofs.** `TypeCorrect`, `ListsWhole`, `ReceivedListed`,
  `FilesKept`. What a listing shows rests on the agreement of five things: the
  file under a name, the sidecars that claim it, the reservation, the path obexd
  was told and the signals not yet handled. `FileInv` says whose file is under a
  name that was not freed and that its sidecar does not call it failed;
  `DestInv` that nobody puts a file under a promised path and that a listing
  which knew the transfer hides it; `SignalInv` and `OrderInv` that a "complete"
  is true and comes before the removal of the transfer, so that the first signal
  handled decides rightly; `ReceivingInv` that until a write fails a sidecar
  "receiving" is the agent's own or an orphan's, which is why a recovery deletes
  nobody else's file. `FilesKept` is an action property from the same invariant.
* **HelperProgramsProofs**, the sender. `TypeCorrect`, `SuccessTold`,
  `OnlyBlindMissed`. A signal in the queue says what is true of its transfer
  (`SignalInv`), also of one that is over; while a file is followed, its
  completion has been seen, was lost with an exception of `report()`, or waits in
  the queue before its removal (`FollowInv`), so that otherwise the handler of the removal cannot come first.
* **HelperProgramsProofs**, the recovery. `RecoveryTyped`, `ServicesComeBack`,
  `ControllerComesBack`. `RestoredInv` adds to the promise the step before the
  last, `show`: the services are up from `start_lap` on, and neither what the
  helper and `palm-lap-device` restart beside it nor the except clause leaves
  one down. `ReboundInv` follows the driver through the two writes: until the
  `stop` the whole limit is left, so that at the `unbind` at least `Budget -
  StopTimeout` seconds are, and these must outlast the two seconds of sleep
  before the `bind`. Hence the hypothesis `Budget > StopTimeout + 1`. It is
  sharp: with 16, 15 and 10 seconds TLC finds systemd's limit between the two
  writes. The unit has 35, the program 15 and 10; `RunTimeout` does not matter.
  The other two theorems hold for any seconds.
* **UploadStoreProofs.** `TypeCorrect`, `VisibleIsAccepted`, `WholeBatch`,
  `NothingLeftBehind`. For each request: what the loops have established of the
  batch so far (`Progress`: the names staged are distinct in any case and their
  suffixes pass, and past validation the whole batch is `Accepted`), which of
  its files have been visible (`ShownInv`) and where its temporaries are
  (`TempsInv`), which follows the `finally` clause file by file.
* **SendJobsProofs.** `TypeCorrect`, `OneRadio`, `NoResend`,
  `CompleteMeansSent`, `Refinement` and `LedgerImplemented`. There are two
  invariants. `IInv` says that until a save fails the file, the table and the
  worker agree (`Linked`); from it come `OneRadio` and the refinement, whose
  step lemma maps each action to a ledger action or a stutter. After a failed
  save `OneSend` is false, as `jobs_twice` shows, and `disk` no longer follows
  `jobs`. `Fresh` holds whatever fails: a job that was never handed to a helper
  is in one of request, queue and worker, once, and has no verdict; from it come
  `NoResend` and `CompleteMeansSent`.

The assumptions on the constants are those the modules name, which TLC evaluates
in every run. Most say that `None`, `Torn` and `Mixed` are not values of the
kind they stand in for (`NoneAssumption`, `TornAssumption`): a file that holds
`None` could not be told from no file. `DurationAssumption`, `FilesAssumption`
and `BatchesAssumption` give numbers and batches their types;
`SecondsAssumption` says that the seconds of the recovery are positive;
`FoldAssumption` that `Fold` maps names to names. `ControllerComesBack` has a
hypothesis of its own, given above, which the deployed seconds satisfy. `LocalAssumption` says that the gateway has an address of its
own and that there is a device, without which a torn file could not be shown to
the daemon as one it refuses. None bounds the number of processes, devices,
transfers, files or requests.

Only model-checked, because they rest on fairness and so are out of the prover's
reach: `ShutdownCompletes`, `ExitedForgotten`, `WindowEnds`, `ExposureEnds`,
`TransferSettles`, `Settles`, `Terminates`. Every other property of a passing
run is stated by a theorem.

## 6. What is not modelled

* The pairing agent: each callback is one read of the window or the allowlist
  and changes nothing.
* The web helper's other actions check their input and run a command that is
  modelled. Its `status`, the discovery hints, the pages, the network
  configuration and the scripts keep no state that other code reads, or are the
  input of other programs.
* Inside the modelled parts: the SDP record, the `pppd` command line, the texts
  of logs and pages, the encoding of names; reservation and sidecar of
  `AuthorizePush` are one step, and its checks of sender and announced size are
  in the choice of `Transfer`; a power loss between `write_text` and the disk.

## 7. Plan

* The PIN of the pairing window under overlapping opens: which process's PIN is
  published by the one that replaces the file. No invariant ties the two, because
  any overlapping open may have written the shared temporary last; `OpenDelivers`
  covers the open that overlaps nothing.
