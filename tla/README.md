# nm-openvpn3: a TLA+ model of the NetworkManager plugin for OpenVPN 3

nm-openvpn3 lets NetworkManager (NM) drive OpenVPN 3 Linux. Its centre is
`nm-openvpn3-service`, a D-Bus service: NM calls `Connect` and `Disconnect` on
it, it imports a profile at openvpn3's configuration manager, starts a tunnel
at its session manager, and from then on watches the session and tells NM what
it became. Around it are the parts that make and change a connection: the
editor, import and export of `.ovpn` files, and the dialog that asks for
secrets. This directory holds a model of the service and of those parts, TLC
runs on small instances, and TLAPS proofs for every instance.

All paths below are relative to the repository root.

## 1. Inventory

| Part | Source | State it keeps | Operations | Hard behaviour |
|---|---|---|---|---|
| Method handlers | `nm-openvpn3-service/src/plugin.rs` | `SessionState` (paths, task handles), `state`, `quit_tx` | `Connect`, `ConnectInteractive`, `Disconnect`, `NeedSecrets`, `NewSecrets` | zbus runs each call on its own task: a handler may be suspended at any await while another one runs; openvpn3 calls fail, or succeed with the reply lost |
| Coordinator | `connect_coord.rs` | an async mutex, the `teardown` flag | `lock_connect`, `lock_disconnect`, `teardown_requested`, `clear_teardown` | flag set before the lock is taken, cleared under it |
| Session tasks | `plugin.rs` | per task: its locals; shared: `ip4_emitted`, `disconnect_requested`, `failure_emitted` | StatusChange listener, status poller, AttentionRequired listener, stats timer | four tasks race each other, the handlers that abort them, and the session |
| Status | `status.rs`, `state.rs` | none | `from_wire`, `to_nm_state`, `failure_reason` | unknown pairs |
| IP configuration | `ip4.rs`, `routes.rs` | none | collect address, gateway, DNS and routes; send `Config`, `Ip4Config` | device not there yet; byte order |
| Interactive authentication | `plugin.rs`, `secrets.rs` | `pending_slots` | `handle_attention`, `new_secrets` | a queue of openvpn3 input slots filled by one task and drained by another |
| openvpn3 client | `ovpn3-client/src/lib.rs`, `retry.rs` | none | typed proxies; `wait_ready`; retry while a service is being activated | retrying what already took effect |
| Profile builder | `build_profile.rs`, `cross_emitter_agreement.rs` | none | vpn.data to `.ovpn` text | must agree with the exporter, which is other code in another crate |
| Import and export | `nm-openvpn3-properties/src/import_export.rs` | none | `.ovpn` text to settings and back | the connection type is not in the file and is inferred; round trip |
| libnm glue | `nm-openvpn3-properties/src/{plugin,bridge,libnm,ffi}.rs` | `.ovpn` files, key files in `~/.cert/nm-openvpn3` | import from and export to a file, FFI conversion | file operations that fail or are cut short, beside other hosts and the service |
| Editor | `nm-openvpn3-editor/src/` | rows, the snapshot of vpn.data | load, edit, file chooser, Apply | the chooser answers late; Apply must not lose what the dialog does not show |
| Auth dialog | `nm-openvpn3-auth-dialog/src/main.rs` | none | read hints and settings from stdin, print which secrets to ask for | decides from vpn.data what the profile will need |
| Process | `nm-openvpn3-service/src/main.rs` | none | start, `select!` over signals and quit | exit in the middle of a handler |

How they interact. NM calls the handlers; they take the coordinator's lock,
call the openvpn3 client, store the two object paths in `SessionState`, and
spawn the session tasks. The tasks receive openvpn3's signals, poll its
properties, and send NM `StateChanged`, `Ip4Config`, `Failure` and
`SecretsRequired`. `Disconnect` aborts the tasks through their handles, removes
the session and, without `--persist`, ends the process. The other parts meet in
the connection's vpn.data: the editor reads and writes it, import makes it from
a file, export writes it to one, the dialog infers from it, and Connect builds
the profile from it, or reads the `.ovpn` file it pins.

What makes each part correct:

* handlers: nothing created at openvpn3 is ever lost track of; a Disconnect
  that returns has left nothing; NM is never left at Starting with nobody to
  end it; overlapping calls look to NM like calls made one at a time;
* tasks: one `Ip4Config` and one `Failure` per session; silence after the
  abort; every activation is decided and every dead session reported, although
  signals are missed and the status property lags;
* authentication: every prompt is answered once and by the session that asked;
* profiles: builder and exporter agree; import after export is the same tunnel;
* editor: Apply changes what the user changed and nothing else, and what it
  accepts can be connected;
* dialog: it asks for every secret the profile will need;
* files: a profile or key file is never used half-written and never another
  connection's; a call to openvpn3 is retried only if it had no effect.

## 2. Modules

| Module | Models | Used by |
|---|---|---|
| `TunnelService` | abstract: what a caller of Connect and Disconnect may rely on; each call takes effect at one instant | `Plugin` (refinement) |
| `Plugin` | `connect`, `do_connect`, `cleanup_session`, `disconnect`, the coordinator, the process exit, and the objects at openvpn3 | `MCPlugin`, `PluginProofs` |
| `Status` | wire pairs and their meaning for NM | `SessionTasks` |
| `SessionTasks` | the four tasks of a session, the three shared flags, the end of Connect and the whole of Disconnect as the tasks see them, and a session that changes under them | `MCSessionTasks`, `SessionTasksProofs` |
| `InputSlots` | `handle_attention`, `new_secrets`, the input queue at openvpn3, and Connect and Disconnect as far as they touch what those share | `MCInputSlots`, `InputSlotsProofs` |
| `VpnData` | the vpn.data dictionary and the connection types | the next five |
| `ProfileText` | the two emitters, `build_profile_string` and `from_nm_data`, and the overrides | `Editor`, `OvpnImport`, `ProfileProofs` |
| `OvpnImport` | `validate` and `as_nm_data` | `Settings`, `OvpnImportProofs` |
| `AuthDialog` | the auth dialog as a function of its input | `Settings` |
| `Editor` | the editor, row by row, with its file chooser | `Settings`, `EditorProofs` |
| `Settings` | composition: one connection in the hands of editor, import, export, dialog and service | `MCSettings`, `SettingsProofs` |
| `OvpnFiles` | the file operations of export and import, and an activation that reads the exported file and makes the two calls that are retried | `MCOvpnFiles`, `OvpnFilesProofs` |
| `PluginProofs`, `SessionTasksProofs`, `InputSlotsProofs`, `OvpnFilesProofs`, `ProfileProofs`, `EditorProofs`, `OvpnImportProofs`, `SettingsProofs` | theorems | |
| `MCPlugin`, `MCSessionTasks`, `MCInputSlots`, `MCSettings`, `MCOvpnFiles` | instances for TLC | the runs |

### Plugin

`pc[h]` is the await at which the handler of call `h` is suspended; an action
runs it to the next one. The locations follow the code:

    lock -> gate -> profile -> preimport -> import -> tunnel -> stash -> check1
         -> ready -> check2 -> connect -> arm -> ok                 (do_connect)
    cleanup -> disc1 -> disc2 -> rm -> err                     (cleanup_session)
    lock -> take -> disc1 -> disc2 -> rm -> stop -> ok              (disconnect)

`disc1` and `disc2` are the two attempts at `session.Disconnect`. Every call to
openvpn3 may succeed, fail without effect, or take effect and lose its reply.
Since a Connect imports at most one configuration and starts at most one
session, both objects carry the name of the call that created them. The
history variables `leakedSessions` and `leakedConfigs` record the objects the
code gives up on: the reply that named the object was lost, or both attempts to
remove it failed (the code logs this). They occur in no guard.

`TaskReport` lets the tasks of a session publish a state at any time until they
are aborted; which state and when is the subject of `SessionTasks`.

### SessionTasks

The module starts where `do_connect` has spawned the two listeners and
`session.Connect` is under way: the handler then arms the poller and the stats
timer, or fails. A task that publishes does so in several steps, and another
task, the handler or the backend may run between any two of them, so a value
read before an await may be stale when it is used. Counters keep the code's
order (increment, compare, reset), with the limits 100 and 6 as constants.

What is assumed of the environment:

* the session manager may fail to see its own copy of Connected, so the status
  property may not change, the signal may not come, or both (the reason given
  at `plugin.rs:843-851` for falling back to the device name). Other statuses
  reach the property;
* the session object may vanish at any time, and reads of a session that exists
  may fail (up to `MaxReadErrors` times in a run);
* `JoinHandle::abort` takes effect at the task's next await. The steps a task
  performs without awaiting anything are part of its action and so are finished
  before the abort. An emission a task has begun when it is aborted commutes
  with the abort: it ends before the reply of the next D-Bus call the handler
  makes;
* building a signal emitter on an existing connection does not fail.

The tick counter stops at Started, as in the code, where it is reset and no
longer compared.

### InputSlots

A process that outlives its sessions: Connects store one session after another,
each with an attention task, and NM makes NewSecrets calls that hold no lock.
`task[s]` and `call[n]` hold the locals of `handle_attention` and `new_secrets`
at their awaits. A slot is `[from, name]`: the code sees the coordinates, which
sessions reuse, and `from` says for the properties which session asked.
`Accepted` therefore matches a slot by name against the queue of the session it
is sent to; `Rejected` is an error reply, to an answer that was refused or to one
that got through and whose reply is lost. A list of slots is a set, since
openvpn3 chooses the order.

`announced` records the queued slots an attached task was told of, `excused`
those that were skipped (a failed Check or Fetch) or reported missing by
NewSecrets, `failed` the sessions a Failure was sent for. None occurs in a
guard.

NM calls NewSecrets only to answer a SecretsRequired; until it does, further
ones are one request. Teardown of a session that openvpn3 refuses to end is the
subject of `Plugin`; here such a session asks nothing more.

### VpnData, ProfileText, OvpnImport, AuthDialog

vpn.data is a partial function from keys to strings; an empty value counts as
unset, as in `arg_is_set`. What the code finds inside a string (a number, the
entries of `remote`, route lines, the type prefix of `verify-x509-name`) is
given by constants, so no string is taken apart. A directive is a sequence of
its name and arguments, a profile the remotes and routes in order and a set of
all others. Quoting is left out: `push_escaped` and `tokenize` are taken to be
inverse on a token.

The emitters are two translations, each from its own source file, that share
only the dictionary access. `Comparable` says where they may differ: the
exporter writes a number as it stands where the builder drops what is no
integer, and folds ca, cert and key into one `pkcs12` line only when all three
agree, the builder when cert and key do. The importer folds over the directives
in file order, the last one winning, then resolves a standalone
`key-direction`, joins remotes and routes, and infers the connection type.

`AuthDialog` reads the input line by line as `read_vpn_details` does and yields
the entries it would write, each with whether it is to be asked.

### Editor, Settings

A row stands for a key of vpn.data: `text` for entries, path rows and
drop-downs, `spin` for numbers (0 to the row's maximum), `switch`, and `typed`
for the password rows, which start blank. `initial` is the snapshot taken when
the editor opens and replayed by Apply; `touched` and `writer` are history. The
chooser of a path row may answer when its editor is gone (`pickerRow`): the row
is then gone too, or an orphan the host still holds, whose handler must not
emit on the freed editor. Showing and hiding rows has no effect on Apply, which
reads every row and blanks those the type does not use; it is left out.

`Settings` adds the `.ovpn` file: Export writes it (as one step), Import makes
the connection from it and pins it, anybody may move it away. A connection that
pins a readable file is connected and exported as that file, otherwise as built
and as emitted.

### OvpnFiles

A directory maps names to inodes, so whoever has an inode open keeps reading
it when its name is unlinked or replaced. An export goes `unlink -> create ->
write -> rename`, with `cleanup` after an error; an import goes `unlink ->
create -> write` for each inline blob and leaves out the blob that failed; a
host may be killed between any two steps. The activation opens and reads the
pinned file and then makes the calls `Import` and `NewTunnel` through
`with_activation_retry`. `made` counts the objects a call created: an error
raised before the method runs creates none, a lost reply may hide one.
`overlapped` and `shared` record the cases the code does not promise anything
for: two exports to one path at a time (they share the temporary name), two
imports under one id (the second replaces the files, by design).

## 3. Runs

| Run | Instance | What it shows |
|---|---|---|
| `plugin` | 2 Connects, 2 Disconnects, no `--persist` | nothing is lost (`SessionsAccounted`, `ConfigsAccounted`, `DisconnectLeavesNothing`), no task without its session (`TasksOwned`), nobody stuck at Starting (`NotStuckStarting`), a silent return has a Disconnect behind it (`SilentAbortHasOwner`), the handlers implement `TunnelService` (`CallsAreAtomic`), and `OnlyOpenVpn3Blocks`: a call returns, or the process exits, or the handler with the lock waits for an answer of openvpn3's, which need never come; the plugin's lock, queue and flags hold nobody up |
| `plugin_refuse` | 2 Connects, 1 Disconnect, `--persist` | finding 1 |
| `tasks_safety` | cap 3, error budget 2, 3 status changes, 1 failing read | `Ip4ConfigOnce`, `TaskFailureOnce`, `TeardownIsSilent`; `BlipTolerated`: a session that exists is given up only after as many failed reads as the budget |
| `tasks_liveness` | cap 3, error budget 2, 2 status changes, 1 failing read | `ActivationDecided`, `DeadSessionReported`, `TerminalEndsStopped`, `StoppedIsExplained`; `PollingEnds`: nothing goes on polling a dead session |
| `tasks_timeout`, `tasks_failure_twice` | cap 3, 3 status changes | findings 2, 3 |
| `slots_safety` | 2 sessions, 2 NewSecrets calls, 2 slots, 1 queued signal | `PromptsAccounted`: an announced prompt of the running session is with the task, NM or a NewSecrets call, or was reported; `SecretsNeedSession` |
| `slots_liveness` | 1 session, 1 NewSecrets call | `PromptSettled`: a prompt is answered, handed to NM or given up with a report |
| `slots_own` | 2 sessions, 1 NewSecrets call | finding 4 |
| `settings` | 485 connections (4 types, each item a part reads set to the values that matter), 5 user files, 2 edits | `EmittersAgree`: export describes what is connected; `ReimportKeepsTunnel`; `SavedProfileComplete`: what Apply accepts can connect; `UntouchedApplyKeepsTunnel`, `ApplyKeepsForeign`: Apply loses nothing; `OnlyUserEdits`: a late file chooser disturbs nobody; `DialogAsksEnough`: the first prompt asks for what the connected profile needs |
| `settings_bundle` | one user file with an inline PKCS#12 bundle | finding 5 |
| `files` | 3 exports to one path and an activation; 3 imports under 2 look-alike ids, one with 2 blobs | `NoTornProfile`, `NoTempLeft`, `OwnBlobs`, `CallAtMostOnce` |

Bounds, and why they are enough. Two Connects and two Disconnects are the
smallest instance in which one of each waits on the lock while one of each is
in its body and a stale teardown flag can meet a later Connect; the proofs
cover the rest. Without `--persist` a Disconnect only makes an exit possible, at
any later moment or never, so the run has the behaviours of a process that
stays as well, and handlers that are cut off. A cap of 3 ticks lets the session come up before, at and after
the last read; an error budget of 2 has a tolerated error and a fatal one; 3
status changes give a session that comes up, drops and ends, or that
comes up twice. The liveness run uses one terminal status for all, one device
name, and one failing read of an existing session (a vanished one fails every
read).

Two sessions let slots of one meet the other; two NewSecrets calls run beside
each other and the task; a user name (looked up in vpn.data) and a password
(vpn.secrets), with settings that have both, one or none, give slots that are
fed, left over and missing in one batch; one unread signal is enough for a
second AttentionRequired to arrive while the first is handled. `slots_safety`
uses symmetry in sessions and calls.

`settings` starts from one connection per type and shape, including an unknown
type, no type and none at all, and from each complete one with one item set to
each value that a part tells apart (absent, zero, negative, too large,
fractional, not canonical, not a number; known and unknown ids; addresses,
bundles, route lines of each kind). `MaxEdits` is 2: a change of type and one
more, or a chooser and a change behind its back; connections with an item set
from outside (`EditedOnce`) get one. Opening and closing editors, Apply, export
and import are not bounded. The profile's agreement is proved for all
dictionaries; the samples matter for the round trip and the dialog.

In `files`, three exports let a third come between two that overlap, and two
ids with one stem and a third import under one of them cover distinct, look-alike
and equal ids. Exports and imports share no file, so `Casts` lets the exports
and the activation, or the imports, take part, not both; the proofs allow all
together. Symmetry permutes the exports, and the two imports of equal files.

Deadlock is not checked: a service with nothing to do may wait forever, and an
export, an import and an activation end.

Fairness. In `Plugin`, a handler that can run does run: tokio schedules every
task that is ready. A handler that awaits an answer of openvpn3
(`AwaitsOpenVpn3`) is not assumed to get one: the client sets no time limit on
a call, `session_wait_ready` looks at its deadline only after an error reply,
and `plugin.rs:499-501` says that such a call can hang. So it is not claimed
that every call returns, but that openvpn3 is the only thing that can keep one
from returning. In `SessionTasks` the listener, the poller, the stats timer, a
prompt being handled, and a handler that has begun do run; in `InputSlots` the
attention tasks (not their subscription), NewSecrets calls and a Connect or
Disconnect that has begun. There the calls these steps await (property reads,
`ProvideInput`, the calls of a teardown) are taken to come back with a value or
an error: without a time limit in the code, a task whose read is never answered
reports nothing, and the liveness properties of these two modules are about
sessions and tunnels that hang or vanish, not about a bus that swallows a call.
Nothing is assumed of NM (it may never call Disconnect), of the tunnel (it may
never come up) or of signals.
`tasks_liveness` excludes a poller that cannot build its proxy, which does no
I/O.

## 4. Findings

1. `plugin_refuse`: a Connect that is refused because a session is live goes
   through the error arm of `connect()` and publishes Stopped and a Failure,
   while the first session stays up (`plugin.rs:1308`).
2. `tasks_timeout`: the cap is decided from the poller's own copy of
   `ip4_emitted`, which is one tick old; a session the listener has reported
   Started after the poller's last read is failed (`plugin.rs:807`).
3. `tasks_failure_twice`: `connect()` sends its Failure without the
   once-per-session guard the tasks use (`plugin.rs:1309`).
4. `slots_own`: `cleanup_session` does not clear `pending_slots`
   (`plugin.rs:680`), so slots left by a failed activation are answered, after
   the next Connect, to that Connect's session.
5. `settings_bundle`: an inline `<pkcs12>` is written to a file called
   `...-pkcs12.pem` (`bridge.rs:326`) and is not counted when the connection type
   is inferred (`import_export.rs:1063`), while the dialog, which says that a
   PKCS#12 bundle is always prompted for (`auth-dialog/src/main.rs:267`), knows
   one by its extension; so the imported connection is activated without its
   passphrase being asked for.

Further observations, made while modelling and not stated by a run:

* the loser of the race for `Ip4Config` publishes Started while the winner has
  yet to send it, or may still fail (`plugin.rs:273`);
* `new_secrets` asks the coordinator's flag, which the next Connect clears,
  instead of its own session (`plugin.rs:1440`; the audit calls it cosmetic);
* two exports to one path at a time share `.name.tmp`, and one can rename the
  other's half-written file onto the target;
* a blob that cannot be written completely leaves its partial file in the cert
  directory, and a failed re-import under the same id leaves the first
  connection's item without its file;
* inline `<tls-auth>` and `<secret>` blobs are stored under these names, which
  no emitter reads (`ta`, `static-key`);
* a call to openvpn3 that is never answered keeps the coordinator's lock, and
  with it every later Connect and Disconnect, until the process is ended;
* the clean-up of a failed export ignores the error of its `remove_file`
  (`bridge.rs:528`), so the temporary file, with its keys, may stay
  (`NoTempLeft` takes the unlink to succeed);
* the comment at `editor.rs:1611` says that an unknown connection type is shown
  as "tls"; `combo_row` appends it instead, its credential rows are hidden, and
  Apply removes ca, cert, key and user name;
* an Apply without a change removes a stored number that is zero and rewrites
  one that is out of range or not canonical (`UntouchedApplyKeepsTunnel` is
  about connections the rows can show);
* a `remote` of separators only passes the gate of Apply and yields a profile
  without a remote;
* not brought back by an import: `max-routes`, `mtu-disc`, the proxy retry, and
  route lines other than `route`; a `key` without `cert` comes back as another
  type;
* an import pins its file, so later changes of structured keys in the editor
  take effect only when the pin is cleared, and the dialog, which looks at
  vpn.data, can miss a secret that another pinned file needs;
* clearing a typed secret and applying again brings back the flags of the
  snapshot; a hint for the user name alone yields "no-secret";
* without a `connection-type` the dialog infers no secret at all
  (`auth-dialog/src/main.rs:359`), not even for a proxy or an encrypted key
  (`DialogAsksEnough` is about connections that have a type).

## 5. Proofs

`PluginProofs` proves, for any sets of calls, with or without `--persist` and
signals, every safety property of `plugin`. None is inductive: that a
session is accounted for depends on which handler holds the lock and what its
locals hold at each await. `IInv` strengthens them with

* `LockInv`: a handler is in its body exactly while it holds the lock;
* `PathInv`: both paths are stored together, for a Connect past its Stash, and
  are empty wherever the code believes so;
* `LocalInv`: what each local holds at each await;
* `TeardownInv`: the flag is set only while a Disconnect is queued or about to
  take the session, or when there is nothing to tear down;
* `StateInv`: NM sees an activation only while somebody can end it;

and the accounting invariants themselves. `SilentAbortHasOwner` and
`DisconnectLeavesNothing` are step properties that follow from `IInv`.
`AtomicCalls` shows that `Spec` implements `TunnelService!Spec`: the call's
result and the owned tunnel change in one step, all others are stutters.

`SessionTasksProofs` proves for every cap, error budget, set of statuses and
devices and for any bounds: the types with the counters below their limits
(`TasksTypeCorrect`), `OneIp4Config`, `OneTaskFailure`, `SilentTeardown`,
`BlipsAreTolerated`. The
invariant `TInv` adds that an emitter past its compare-exchange excludes the
other one and that the signal has not been sent (`Ip4Inv`), that the flag
records the Failure (`FailureInv`), and that after the abort every task is over
(`QuietInv`). `BlipInv` says that while the session exists the poller has
counted no more errors than reads have failed.

`InputSlotsProofs` proves, for any sets of sessions, slot names, calls and
settings, `SlotsTypeCorrect`, `NoPromptForgotten` and `SecretsOnlyWithSession`.
That a task may overwrite the pending slots (`TaskStash`) is right only because
it has drained the queue since: `FetchedInv` says that a task past its fetch
holds every announced slot, skipped it, or has another signal to read, which
rests on `QueuedInv` (what is announced is queued, for a task that attached).
`OwnerInv` says which session's task may run and where the handler is, so that
no other session's task touches the pending slots while a session is stored;
`ShapeInv` says what the locals hold between the awaits. Their conjunction with
the properties, `SInv`, is inductive.

`OvpnFilesProofs` proves, for any sets of exports, imports, files and ids that
the hash tells apart, every property of `files`. That the target is whole needs
to know what the temporary file holds at each step of the one export that
writes it, and that a target of no overlapping exports has at most one of them
running; that a key file is its import's own needs that equal names mean equal
ids and blobs, and that an import of another id never touches the name; that a
call takes effect once needs that a call still to be made has made nothing. `ExportInv`,
`ImportInv` and `ActivationInv` say so; with the properties they form `Inv`,
which `Invariance` shows to be inductive.

`ProfileProofs` proves `EmittersAlwaysAgree`: for every comparable dictionary
the two emitters produce the same remotes, routes and directives. There is no
invariant; the proof compares the parts (remotes, credentials, pairs, tunnel,
TLS, tail) one by one.

`EditorProofs` proves, for any samples of user input and any number of edits,
`EditorTypeCorrect`, `RowsAreTheUsers`, `AppliedConnects`, `EditorEmittersAgree`
and `ApplyIsCareful`. The inductive invariant `EInv` adds that a chooser's row
is current only while its editor is open (`RowOfOpenEditor`), without which a
late answer could fill a row of the next editor, and that what the snapshot
holds of foreign items is what the connection holds (`SnapshotFresh`), without
which Apply could bring back an old value; the flags of a secret the user typed
are excepted.

`OvpnImportProofs` proves `ReimportSameTunnel`: for every `Sound` dictionary
with complete credentials, of any size, the text that `from_nm_data` and `emit`
write, read by `as_nm_data`, yields a dictionary that `from_nm_data` turns into
the same remotes, the same `route` lines and the same directives (but for the
few that an import does not bring back, `NotImported`). The proof has three
parts. *What the file holds*: `emit` lists the profile's lines in some order,
each once, remotes and routes in their own (`EmitReads`, `ExportLines`). *What
the import makes of a list of lines*: `ReadIs` unfolds the fold over the
directives one by one, and by induction over the list every item of the result
comes from a line that says so and every line that says so has had its effect,
as no two lines of an export speak of one key (`Agrees`). *What a second export
makes of it*: the two dictionaries agree, item by item, on all an emitter reads
(`Reimported`), the connection type being the one `InferContype` finds.

`SettingsProofs` carries this to the composition. `SettingsInvariance` shows
`SInv` inductive: what the editor's `EInv` says about open editors and rows;
that the connection, the snapshot and every row hold strings the emitters can
write (`Sound`, `RowsReadable`); and that the file on disk, whoever wrote it, is
one the importer can read without leaving that set (`FileLegible`, with
`ImportedFills` for what an import with any lost blobs and any proxy auth file
yields). `SettingsTypeCorrect`, `ReimportAlwaysKeepsTunnel`,
`SettingsRowsAreTheUsers`, `SettingsAppliedConnects` and
`SettingsApplyIsCareful` follow. `UntouchedApplyIsHarmless` needs in addition
that the rows of an untouched editor show exactly the snapshot (`Settled`, part
of `UInv`): saving them gives back what was loaded, item by item (`SavedAgain`),
and so the same profile and the same overrides.

`DialogAlwaysAsksEnough` joins the dialog to the rest. *What the dialog reads*:
`DetailsRead` shows, by induction over the lines, that `read_vpn_details` gets
back from NM's input exactly the items of vpn.data, in whatever order NM lists
them and with the stray line of a value that has several; this uses that
vpn.data is finite and has no empty key. *What the profile may claim*:
`Claims` says that every line, or inline blob, that makes openvpn3 ask for a
secret has its counterpart in vpn.data (`auth-user-pass` a password type, a key
or bundle the `key` item with the path of its file, `http-proxy` a proxy
server). It holds for what the service builds (`BuiltClaims`), for what is
exported (`ExportClaims`), and for a file and the vpn.data an import makes of it
(`ImportClaims`); what is claimed is asked for (`ClaimsCover`). Three things
bound the claim, and the property states them. The dialog sees only vpn.data, so
a pinned file is to be the one the connection was imported from, with every
blob written (`ImportedWhole`): one that could not be written is dropped from
vpn.data and still in the file. The file is to be of one mode (`OneMode`), as
openvpn demands: an import of a file with two keys keeps one of them, and one
with `secret` infers a static-key connection whatever else it says; the exporter
is shown to write no others (`ExportModes`). And a bundle that does not look
like one (`HiddenBundle`) is not promised: that is finding 5.
*Over time*: the invariant `DInv`
carries the claims of the file (`FileSpeaks`), its mode, and the finiteness of
vpn.data and of the secrets through edits, exports, imports and the loss of the
file.

Facts about folds and about finite sets are proved by induction over a *set*:
the set of lengths (or of subsets) for which the fact holds contains the first
and is closed under the next, `NaturalsInduction` and `FiniteSetTheorems` doing
the rest. The recursive definitions of the community folds are unfolded once
per fold (`ReadIs`, `AddedIs`, `ListingCollects`).

The assumptions are those the modules state about their constants
(`CallsAssumption`, `FlagsAssumption`, `ReportsAssumption`,
`BoundsAssumption`, `SlotsAssumption`, `StringAssumption`, `TableAssumption`,
`FractionAssumption`, `EditorAssumption`, `SettingsAssumption`, and the
`ExportAssumption` and `ImportAssumption` of `OvpnFiles` and `OvpnImport`); TLC evaluates them in the
runs. Those of the profile modules say what the parsing tables return: entries
of strings, numbers that print as they parse, `"yes"` being none; a joined list
of remotes or routes is split into the parts it was joined from. That the hash
tells look-alike ids apart is an assumption about FNV-1a, not a fact.

Every invariant and every action property of the runs is stated by a theorem.
Only model-checked are the liveness properties: fairness and ENABLED are beyond
the prover.

## 6. Plan and scope

Done, in this order: `TunnelService`, `Plugin`; `Status`, `SessionTasks`;
`InputSlots`; `VpnData`, `ProfileText`, `OvpnImport`, `AuthDialog`, `Editor`,
`Settings`; `OvpnFiles` with the activation retry; the theorems of section 5.

Left:

1. `Ip4`: address conversion with byte order, DNS and route table, as operators
   with a reference definition;
2. the composition of `Plugin` and `SessionTasks` under one refinement, in place
   of `TaskReport`.

Not modelled, and why:

* the contents of `Config` and `Ip4Config` (`ip4.rs`, `routes.rs`): plan 1;
  when they are sent, and by whom, is in `SessionTasks`;
* quoting and tokenising (`push_escaped`, `tokenize`): a property of character
  strings, which TLC reaches only on a few samples and the prover not at all;
* the lookups of `connection.rs`, which keep no state;
* GObject registration, FFI declarations and the loading of the editor module:
  glue without protocol state of its own;
* what the editor draws, titles and translations, logging, argument parsing and
  start-up I/O, packaging.
