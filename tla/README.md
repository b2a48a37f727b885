# TLA+ models of the update server

This directory holds TLA+ modules that model the protocols of the update server,
TLC configurations that check them on small instances, and TLAPS proofs of the
central invariants for every instance. `PROJECT.json` lists the runs, the source
lines behind each definition, the mutants, the hazards and the theorems.

    tlc -workers 2 -config Rollouts_safety.cfg MCRollouts     # one run
    tlapm RolloutsProofs.tla                                  # one proof module

## The system

One Go process serves three things from one data directory: the device gateway
(mTLS, `server/gateway`), the REST API (`server/ui/api`) and the web UI
(`server/ui/web`), with four background daemons (`server/ui/daemons`). State is in
SQLite and in files. The database has one connection (`SetMaxOpenConns(1)`), so a
statement or transaction is atomic and they are totally ordered. Files have no
locks: handlers, the goroutines they start and the daemons touch them in any order.
No handler holds a lock between two accesses to storage.

| component | state | operations | hard part |
|---|---|---|---|
| rollout commit protocol (`handlers_rollouts.go`, `api_storage.go`, `daemons_rollouts.go`) | rollout files, `rollouts.journal`, `rollouts.journal..part`, `devices.update_name` | PUT rollout, commit goroutine, watchdog pass, rollover | crash or failed write between any two of journal line, file, UPDATE and commit flag; rename of an open file |
| update store (`api_storage.go`, `file_updates.go`) | `updates` rows, update directories | create, delete | row and directory are changed in two steps |
| tar unpacking (`file_tar.go`) | destination and temporary directories | empty, unpack, two renames | crash between the renames |
| configs upload (`file_configs.go`, `handlers_configs.go`) | the configs directory | replace all | as above, with a promise of a backup |
| config history (`file_configs.go`) | config files, `.journal` | save, read history, purge | content-addressed files shared by several journal lines; purge beside a save |
| device authentication and check-in (`middleware.go`, `storage/gateway`) | `devices`, `old_certs` | authenticate, create, rotate, check in, deny, GC | requests of one device work from their own copy of the row |
| device labels and deny list | `devices` | patch labels, delete, undeny | interplay with rollouts and deletion of updates |
| TUF metadata (`file_tuf.go`, `file_tuf_import.go`, `api_storage_tuf.go`, `daemons_tuf.go`) | keys, roots, default and per-update metadata | initialize, import, generate, refresh timestamps, serve | interrupted initialization, versions across updates, expiry, refresh beside upload and deletion |
| ostree probe (`storage/ostree`, `api_storage_update.go`) | none of its own | find hardware id, version and architecture of an image | widths of offsets depend on sizes |
| config delivery (`handlers_config.go` of the gateway) | none of its own | merge factory, group and device config, answer 304 | one-second timestamps, levels read one after the other |
| device files (`storage/gateway`, `file.go`) | event, apps-states, test and info files | append, replace, roll over, read | order by modification time, requests beside each other and beside a deletion |
| status of updates and rollouts (`api_storage_update.go`) | `rollouts.log` of an update | fold over events | order of lines, targets of other updates |
| log tailing (`handlers_rollouts.go`) | goroutines, channels | stream, keepalive, resume | client disconnects, filtered numbering |
| users, tokens, sessions, OAuth2 device flow (`storage/users`, `handlers_oauth2.go`) | tables | login, approve, poll, update, delete, GC | read-modify-write of rows, double redemption |
| authentication providers, rate limiter (`auth/`) | in-memory limiters, password data of users | allow, flag, sweep, change and reset password | sweep beside use, reset beside change |
| daemon lifecycle (`daemons.go`) | stop channels | start, shutdown | unbuffered sends |
| web UI, CLI | none of their own | read, edit and write back configs | lost updates |
| seed and server commands | none relevant | I/O | not modelled |

Interaction: the API's handlers and the watchdog share the rollout files and the
`devices` table; the gateway's check-ins change the tag that both the rollout's
UPDATE and the deletion trigger of updates look at; the API and the gateway save into
the same config directory of a device; both uploads go through `unpackTar`; an upload
generates the TUF metadata that the daemon refreshes and the gateway serves; what devices
report goes to the log of their update, over which the reports fold and which the event
streams follow.

## Modules

### Rollouts

`PUT /updates/{u}/rollouts/{r}` appends `tag|update|rollout` to the partial journal,
writes the rollout file, answers 202 and leaves `CommitRollout` to a goroutine.
The watchdog reads `rollouts.journal` on start and every five minutes, commits what
is not committed and, if the pass had no error and was not the first, renames the
partial journal over the journal.

`pc[q]` is where a request is: `check` (name), `open` and `append` (the journal; opening
and writing are separate because the file may be renamed in between, and `fd[q]`
says which name the open file has), `write` (rollout file), `apply` and `save`
(`CommitRollout` in the goroutine). A request's `committed` is the flag in its body, which
`rolloutPut` does not refuse and `CreateRollout` writes as it was sent. The watchdog's `wpc`, `wIdx`, `wFile`, `wEffect`,
`wSuccess`, `firstRun` are `processJournal`'s position, the rollout it has read and the
loop variables of `rolloutWatchdog`. Every write may fail (`...Fails` actions) and the
process may die anywhere (`Restart`), at most `MaxFaults` times. `DeleteUpdateRow` and
`RemoveUpdateDir` are `DeleteUpdate` with the trigger `prevent_delete_update_in_use`.
`CheckIn`, `PatchDeviceLabels`, `DeleteDevice` and `UndenyDevice` change what a rollout
selects and what the trigger sees; the lookup that finds the device active and the
UPDATE behind it are one step there.

`WatchdogWake` contains the timing assumption that the comment in `rolloutWatchdog`
states: when a pass starts, no request is still between opening a journal that was
renamed since and writing its rollout file. Without it a line could be appended
behind the watchdog's back.

An update that is deleted does not come back in this module; uploads are in
`UpdateStore`.

### ConfigHistory

One directory with content-addressed config files and `.journal`. A save is
`readHistory(1)` (journal, then file), `writeConfig` (file, then journal line; if
that fails, the file is deleted) and `purgeHistory` (listing, journal, deletions one
by one). `kind` tells the API's PUT, which stops if nothing changes, from a device's
PATCH, which merges (`Merge`) and always saves. A content stands for its own sha256
name. An append may fail after its line is in the file (`appendFile` returns what `Close`
says), and the deletion behind a failed append may fail as well. `cut`, `landed`
and `overlapped` are auxiliary: the files that `writeConfig` deleted after a failed append, the
requests whose append failed with their line in the journal, and that a save has begun while another
was running, after which the code does not keep the properties of the history (see below) but is
still the register. Removing a device's directory with the device is left out.

### DeviceAuth

`authDevice`, `checkinDevice`, the API's creation, deny and undeny, the GC of
`old_certs`, and the clock. A request reads the row once (`dev[q]`) and works from it.
`RotateCert` is one transaction, with the SQL trick by which a new certificate that
is already in `old_certs` makes the INSERT fail. Time counts minutes because `CheckIn`
skips the write within a minute. The tag stands for the four header values. `replaced`
is auxiliary: certificates that were current and no longer are. The event file that
`RotateCert` writes is not modelled. A crash needs no action: a request may stop
anywhere, and everything here is in the database.

### Unpack, Tarball, UpdateStore, ConfigUpload

`Unpack` is `unpackTar` with `replaceDest`, a temporary directory and a temporary file:
empty the destination (`RemoveAll` in two steps), unpack into the upload's own
directory, rename the destination to `backup`, rename `unpacked` to the destination,
clean up. Reading and checking the tarball is one step with the outcome given by
`Valid`. A directory is one of the uploaded contents, absent, empty, or partial.

`Tarball` computes that outcome for updates. `unpackEntries` folds `UnpackEntry` over the
entries: `AbsPathNoEscape`, the limiters of declared and of real sizes (every new path
costs a block, a name that is repeated costs its bytes again), directories, and the copy
into a file that is opened without being truncated, so that a shorter second version
keeps the tail of the first. `SaveUpload` then looks at the names of the entries and at
the tags in `targets.json`. An entry has a size and, for `targets.json`, sets of tags
instead of bytes.

`UpdateStore` extends both with `CreateUpdate` (uniqueness check, unpack, INSERT, log file)
and `DeleteUpdate` (row, then directory), beside each other; `crossed` is auxiliary and
notes where they were. `Answer` has 400 for what `onUnpackComplete` refuses and nothing else:
a tarball that does not unpack (a limit, a type, a path, a broken archive) is answered 500, as
`updateCreate` and its test have it. `ConfigUpload` extends `Unpack` with `PUT /configs`, which keeps the
temporary directory if the second rename fails. Uploads to one destination do not
overlap: `CreateUpdate`'s comment leaves that to the user.

### ConfigRegister, ConfigDelivery

`ConfigRegister` is what a config directory promises: a register that a request replaces
once, in one step, by a function of the value it found when it began. A request that fails may
have replaced it; nothing else does. Requests may overlap, so that a replacement may be by a
function of a value that was replaced since, and a request that finds the value unreadable
fails. `ConfigHistory` implements it (`ImplementsRegister`), the append of the journal line
being that step.

`ConfigDelivery` takes one such register per level (factory, group, device) with the second
of its save and follows a change to the device: `PUT`, the editors of the web UI and of
the command line client (read, edit, write back), the device's PATCH, group changes and
uploads of an archive on one side, and `configGet` on the other: the row, the three
levels one after the other, the merge with the key-wise sota override, and
`If-Modified-Since`. A failed save may delete the file of a level's current config (`gone`),
after which nothing of that level can be read, and a sota override may be one that does not parse as TOML
(`BadToml`): both make every poll fail until they are replaced (`Blocked`). `late` is
auxiliary and marks the changes that the code cannot
deliver: dated not after the answer the device has, or made behind a running poll.

### Scopes, Users, Login

`Scopes` has masks as sets of bits and their conversion to names and back, which fails on
the empty mask. `Users` has the four tables, their statements, and the handlers of the API,
the web pages and the providers in two or more steps: a request reads the user, works on
its copy and writes all columns back. Sessions, tokens and device codes expire at a time
and are collected later. `mixed`, `dup` and `emptied` are auxiliary and mark overlaps of
which the code says nothing.

`Login` is one user and one address in front of the local provider: both buckets and the
block of an entry, the two generations of the limiter's map with the swap that anybody's
traffic triggers, password age, history, complexity and reset. Every writer of the user
(change, reset, scopes) holds a copy of the row and writes all its columns. Times are kept as
what is left of them. `ref` is the entry had it never been forgotten and `owed` what is left of
the last block; `mixed` and `undone` mark a row that was written from an old copy, ever and since
the last reset.

### Ostree, Tuf

`Ostree` reads a repository byte by byte as `storage/ostree` does: refs, commits, directory
trees and file headers in the GVariant encoding. `Encode`, the inverse that ostree itself
would be, is marked external and turns a tree of directories and files into a repository, with
offsets as wide as each container's size asks for. Its checksums are the numbers of the nodes
in every byte, so that a tree has at most 255 of them (`IsTree`); a commit's fields are at most
`MaxBody` bytes long. `HashLen` is 32 in the code. `ImageAssumption` of `Tuf` says that the
images whose files the properties know were written so; the instance has damaged ones too.

`Tuf` is `auth-init`, `tuf-init` with and without an import as a list of file writes that
may stop anywhere and be repeated, `LoadTuf`, an upload that probes its image and
generates metadata or brings a `tuf` directory of its own (`Supplied`), deletion, the daemon
that re-signs timestamps, and a device that reports its tag (`CheckIn`) and is served the
default metadata or its update's. An upload, the removal of a directory and each refresh may
fail; a failed refresh leaves the pass going on. A hash is the file it refers to, a
signature the number of the `tuf-init` whose keys made it. A server that runs without TUF is
outside the module. `spoiled`, `crossed`, `reused`, `early`, `own` and `lapsing` are auxiliary
and mark the cases described below.

### StatusLog, DeviceEvents, LogTail

`StatusLog` has the status an event gives and the reports that fold over the lines of an
update's log, with a reference definition without the loop. `DeviceEvents` has the requests
of devices step by step (append an event, append its status to the log of the update
found at authentication, write a partial file, rename it, list, delete, truncate an artifact,
copy it), the rollover by modification time, the readers of the API, the deletion of devices
and updates, and crashes. A request reports the tag of its device (`Reports`), which the trigger
that guards the deletion of an update compares. `removed` is how far the deletion of a device
is: its row first, then its directory, which goes even if the statement for the row failed; a
denied device may be allowed back. An appended line is there as a whole or not at all, also if
the call that appended it is answered with an error. `mixed`, `late` and `void` are history. `LogTail` has, for each connection, the reader goroutine and the handler with their
unbuffered channel, the keepalive, and a client that comes back with `Last-Event-ID`. A line is
a status, one that does not parse (`garbled`), or one above the scanner's 64 KB (`long`), at
which every reader stops (`ReadStuck`).

## What the runs show

| run | result | bounds |
|---|---|---|
| `Rollouts_safety` | `TypeOK`, `JournalCovers`, `CommittedWasApplied`, `SoleAcceptedRecoverable` | one device, two tags, one group, two requests for one name, one of them sent as committed, two faults |
| `Rollouts_liveness` | `RolloutsConverge` under `FairSpec` | two names, one tag, two faults |
| `ConfigHistory_history` | `TypeOK`, `HistoryReadable`, `LatestLostByFailedSave`, `PurgeRemovesOrphans`, `ImplementsRegister` | six saves of three contents one at a time, or two PUTs and a PATCH in any overlap; limit 2, two faults |
| `DeviceAuth_rotation` | `TypeOK`, `CurrentNotRetired`, `RetiredRecorded` | one device, three certificates, four requests, two moments, one fault |
| `UpdateStore_content` | `TypeOK`, `RowHasContent`, `FailsOnlyByFault`, `UnpackedWithinLimits` | two names, four uploads, one DELETE, two faults; all tarballs of up to three of fifteen entries around the limits |
| `ConfigUpload_replace` | `UploadRepairs`, `AnsweredIsActive` | four uploads, three faults |
| `Users_accounts` | `TypeOK`, `DeletedStaysDeleted`, `ScopesWithinGrant`, `OneTokenPerCode`, `TokensListable` | an administrator and a user, two sessions, two tokens, one device code, four requests, two at a time, two moments |
| `Login_limits` | `LimiterRemembers`, `NoRepeat`, `ResetForcesChange`, `BlockEnds` | two requests at a time, a bad-authentication bucket of two with a token in three ticks, three passwords, a history of two; no last moment |
| `Tuf_metadata` | `FilesBelongTogether`, `DeviceTrusts`, `TargetsDescribeImage`, `SameVersionSameContent` | two updates, two uploads, two runs of `tuf-init`, three archives, two own `tuf` directories, seven contents, three days, one crash |
| `DeviceEvents_files` | `AnsweredKept`, `ReportsRight`, `FailsForAReason`, `DeletedStaysGone` | two devices, two updates, six pairs or triples of requests, one file kept, two faults or operator's requests |
| `LogTail_resume` | `TailExact`, `TailCatchesUp` | four lines of two devices, one garbled and one too long, two connections at a time, one break, one failing read |
| `ConfigDelivery_polls` | `UpToDate`, `Delivered` | nine requests in seven pairs, one group, three seconds, one other event |

All of them hold.

Why the bounds are enough. Two requests are enough for a race between requests, and
with the watchdog make three writers of one rollout file. Two faults allow a crash and a failure of the
recovery after it. The limit 2 with three contents lets a file be named by several of
the last lines, by an old line only, and by none. Three certificates let two rotations start from the same row.
Three faults of a configs upload allow a broken upload, a failed repair and one more.
The sizes of the tarballs' entries put every limit (item, disk, number, path) on both sides.
Two requests at a time with an administrator and a user give every pair of a reader and a
writer of one row; the times are 0 so that the boundary second of every expiry is met.
The small buckets make the limiter's block and its recovery happen within few ticks, and the
refill of three is the slowest with which a bucket is full before the sweep forgets it.
The images have directories just below, at and above 255 bytes, where the width of
an offset changes. One kept file makes every second update roll over. `InitFirst`,
`ImageAlone` and `TaggedFirst` in `MCTuf`, `Apart` in `MCLogin`, `FewOverlap` in `MCConfigHistory`
and `OneDevice` in `MCDeviceEvents` leave out combinations of independent parts; `FirstFirst` in
`MCConfigHistory` leaves out what differs only in the names of equal requests.
`DeviceAuth`, `ConfigHistory`, `UpdateStore`, `ConfigUpload`, `Users`, `Tuf`, `DeviceEvents` and `LogTail` have
finitely many requests and end when they are served, so those runs do not check for
deadlock; `Rollouts`, `Login` and `ConfigDelivery` do.

Fairness. `FairSpec` of `Rollouts` assumes that a handler or goroutine that has started keeps
running and that the watchdog does: Go's scheduler runs every runnable goroutine, and
the watchdog blocks only on a timer. Requests need not arrive. Faults are bounded, so
convergence is claimed for the time after the last one. `Login` assumes that time passes.
`LogTail` assumes the same of its goroutines, and a client that reconnects, as an
`EventSource` does. `ConfigDelivery` assumes that the device goes on polling.

## Seen on the way

Where code, comments and docs disagree, and what the properties had to except. Each
was met while a property was checked.

Rollouts and updates:

* two PUTs of one rollout name can both get 202 while the later file replaces the earlier;
  if the goroutine of the replaced one fails, its devices are never updated, although
  `handlers_rollouts.go:229` says "Background daemon should correct any database
  inconsistency";
* the trigger `prevent_delete_update_in_use` compares the device's current tag, so an update can be deleted
  while a device that has changed its tag is assigned to it; `api_storage.go:376` says it refuses
  "if any non-denied device is still assigned to the update";
* a PUT may send `"committed": true`: `rolloutPut` refuses only effective uuids. Such a rollout is on disk as
  committed before it was applied, and if its goroutine fails the watchdog does not correct it
  (both properties except it);
* re-creating an update while it is being deleted leaves a row without content;
* a tarball that breaks a limit or does not parse is answered 500, not 400;
* `_unpackTar` opens files without truncating them (see `Tarball`); every path that starts
  with `./` escapes the prefixes that `SaveUpload` looks for.

Configs:

* a failing journal append deletes a config file that the journal still names, if the
  content was saved before or the line reached the journal all the same
  (`LatestLostByFailedSave` has the exception), and a purge beside another save can delete the
  current config (`overlapped`). Once the current file is gone, every poll, PUT and PATCH of the
  level fails until an archive is uploaded;
* a PUT takes a sota override that is not TOML, on which every poll of the devices concerned
  is answered 500;
* a tarball without entries breaks the configs directory without a filesystem fault, which
  `handlers_configs.go:269` calls practically impossible;
* a broken configs upload tells the user that the upload directory holds a backup, but
  `_checkDestDir` has removed the active configs before; `configsUpload` looks for
  `*ErrConfigUploadBroken` with `errors.As` while `SaveUpload` returns the value type, so the 503
  answer is not reachable;
* a save in the second of the last answer, one stamped before it and appended after it, and
  an archive with old journal times are answered 304 until the next change (`late`);
* a PUT of a group or device config without files stores JSON `null`, on which the device's
  PATCH fails;
* `satcli configs set -g` of an unknown group fails on the GET although its help says the
  group is created; `satcli configs updates` without `-g` or `-d` is always refused although its
  help calls that the default; `len("tag") == 0` in `validateUpdatesArgs` is a typo.

Devices:

* a gateway request without `x-ats-tags` checks in with the tag it read, and so undoes
  the tag of a request that ran beside it;
* of two overlapping requests of one device a rollover with a stale listing may delete a file just
  renewed, and one of two rollovers answers 500 although its events are saved;
* a running request recreates the directory of a deleted device, or the log of a deleted
  update; so does, for the log, the next request of a device that was assigned the update when
  the change of its tag let it be deleted (`late`);
* `Device.Delete` removes the directory of a device even if the statement that denies it
  failed; a second upload of an artifact truncates the one that was answered before it copies;
* GET of a missing test answers 500 where the docs say 404; `updateSummary` of an unknown update
  dereferences nil;
* two targets of one version for one hardware id are picked by map order;
* an error event on a resumed stream carries a smaller id than the client has and sends it
  back (`back`); a reader goroutine that offers a line when the write to its client fails waits
  for ever (`handlers_rollouts.go:413`), although `:130` says it reads until the client disconnects;
* a line that does not parse, or that is above 64 KB where the gateway admits 100 KB, ends every stream
  of its log at that line.

Users and logins:

* a request that holds a copy of a user undoes a deletion or a change of scopes (`mixed`); a
  password change in a session older than the user's present scopes may leave a user without any, and
  a mask without scopes does not parse back, so that the list of users fails;
* a user who loses all approved scopes between approval and poll gets a token without
  scopes, after which the tokens cannot be listed (`emptied`); two polls at once may both get a
  token (`dup`); `CreateDeviceAuth` compares the code's expiry, not the token's, with
  `MaxTokenLifetimeDays`;
* Google logins use the local part of the address only, so equal local parts of two
  allowed domains share an account;
* a reset by an administrator adds nothing to the password history, and a change in progress
  undoes it, and so does a change of scopes that holds an older copy (`undone`);
* forgetting gives attempts back if the limits make a bucket refill more slowly than the sweep
  forgets (`SweepsRecovered`); nothing refuses such limits, and `ratelimiter_test.go` has some;
  `docs/auth.md` has two defaults for the request limit.

TUF:

* without the root key, which `docs/tuf.md:29` suggests to remove, the server does not start,
  and `tuf-init`, as it advises, overwrites `1.root.json`;
* an interrupted import counts as initialized, and an interrupted `InitTuf` leaves no default
  metadata (`spoiled`);
* an update that is uploaded while `tuf-init` runs links and is signed for the roots of that
  moment, and keeps them (`early`); `importTuf` does not verify the roots it imports;
* overlapping uploads, and an upload after a deletion, get the same version (`reused`); a
  refresh that crosses a deletion and re-upload writes the old timestamp over the new
  (`crossed`);
* comments in `api_storage_tuf.go` speak of `tufVer + 10` and of a version raised by the refresh,
  where the code adds 1 and keeps the version; the comment of `rootDirtreeHash` assumes commits
  below 256 bytes, the code does not;
* an update with its own `tuf` directory gets its timestamp re-signed with a key that its roots
  do not list (`own`), may repeat a version that is in use (`reused`) and may have expired before
  the daemon's first look at it; a refresh that fails is logged and the pass goes on (`lapsing`).

## What is proved

Eight modules hold theorems, for all values of the constants that satisfy the assumptions of
the module they extend: types of the constants, that null values are not ordinary ones, and
of `Tuf` that a refreshed timestamp outlives the daemon's look-ahead. Each has one inductive invariant
or a few in layers; every invariant was an invariant of a TLC run before it was proved. The
properties themselves are hardly ever inductive; what had to be added is listed here.

* `RolloutsProofs`. `TypeCorrect` needs that a watchdog in the middle of a commit is at a line
  of the journal. `NoRolloutLost` (`JournalCovers`) needs `JournalInv`: `OpenFiles` (a request
  between open and file write has either the partial journal open, or a renamed one while the
  watchdog waits, which is where the timing assumption of `WatchdogWake` enters), `LineWritten`
  (after the append the line is in that file) and `PartLines` (no lines without a partial
  journal). `CommitImpliesApplied` (`CommittedWasApplied`) needs `SaveAfterApply`: whoever is
  about to set the flag has applied the rollout. `AcceptedIsKept` (`SoleAcceptedRecoverable`)
  needs `SoleInv`: the file of a name that one request uses holds that request's rollout, so
  does what the watchdog has read, and the row of an update goes before its files. Both except
  what a client has sent as committed. `TailIsExact`
  (`TailExact` of `LogTail`) needs `TailInv`: every connection's line on its way has the offset
  at which the log has it (`AtItsPlace`), the lines a connection has sent follow each other
  (`InOrder`), and the client has every line of its stream up to its `Last-Event-ID`, in order
  and once (`HasAll`), for logs of any length, none of them from behind a line that no reader
  passes.
* `DeviceAuthProofs`. `AuthTypeCorrect`, `NoRetiredInUse`, `RetiredStaysRecorded`. `AuthInv`
  adds `RowRead` (a request past the lookup holds a row), `OwnCerts` (rows hold certificates of
  their own device, and only devices with a row have entries), `RotatesFrom` (a request that
  rotates starts from another certificate of its device, the current one or one replaced since)
  and `EntryOutlives` (an entry of `old_certs` expires no earlier than its certificate, so that
  the GC forgets nothing that is still valid).
* `ConfigHistoryProofs`. `ConfigTypeCorrect` and the refinement `DirectoryIsRegister` (`Spec =>
  Register!Spec`) without restriction; `HistoryStaysReadable`, `OnlyFailedSaveLosesLatest` and
  `PurgeIsComplete` until two saves overlap, after which they are false. `HistoryInv`
  adds `ReadsCurrent` (what a running save has read is still the current config), `FileWritten`
  (the file of a save past its write is there) and `PurgeExact` (a purge has seen every file,
  and what it has left to delete is exactly what the last lines do not name). In the refinement
  what a save has read is the value it found, the append of the journal line is the register's
  write, also where the append then fails, and failures and crashes are the register's failures
  of a set of requests (`RegisterStep`). The module extends
  `ConfigDelivery` too: `ChangesArrive` (`UpToDate`) follows from `DeliveryInv`: what a running
  poll has read is current or the change is on record (`PollInv`), and what the device has is
  the merge of the current configs or older than they are (`MergedInv`); `MergeIs` shows that
  the merge in the code's order is the reference `ToHave`.
* `UpdateStoreProofs`. `StoreTypeCorrect`, `KnownUpdatesHaveContent`, `UploadsFailByFault`.
  `StoreInv` says what the temporary directory and the destination hold at each place of an
  upload (`Prepared`, `Swapped`), that a name has one upload at work and no row while it
  unpacks, and that `crossed` records every DELETE beside an upload. The same lemmas about
  `unpackTar` give `ConfigsCanBeRepaired` (`UploadRepairs`) and `AnsweredConfigsAreActive`
  (`AnsweredIsActive`) for `ConfigUpload`, whatever the configs directory held first.
  `WalkStaysWithinLimits`, and with it `UploadsWithinLimits` (`UnpackedWithinLimits`), is about
  `unpackEntries` for every tarball and all limits. Its loop invariant is `WalkInv`: what is on
  the disk are the parents and the files of paths that stay below the destination, and what the
  limiters have been charged covers it (`Charged`), the declared sizes being no less than the
  real ones. Stating it needed the alternatives of `AbsPathNoEscape` to exclude each other,
  which they did not at first.
* `UsersProofs`. `UsersTypeCorrect`, `DeletionLasts`, `GrantsBound`, `CodeYieldsOneToken`,
  `TokensStayListable`. The invariant is about copies: what a request holds and will write back
  gives no more than the last grant, unless it is one (`CopiesWithinGrant`), none is of a
  deleted user (`NoCopyOfDeleted`), a poll holds what its approval gave (`ApprovalKept`) and is
  alone with its code (`OnePoll`), and every mask is one that scope names can express
  (`MasksClosed`), so that it parses back.
* `LoginProofs`. `ForgettingIsHarmless`: `Generations` says that an address has an entry in one
  generation at most, whose block is as if it had never been forgotten, and that one in the back
  map has recovered by as much as it has lain there (`Recovered`), so that for all limits a sweep
  drops no block that is not over; its bucket is full by then under `SweepsRecovered`, which is
  the hypothesis of the second half of the property. `PasswordsDiffer`: the password `d` changes
  ago is `d` from the end of the history, for any length (`Remembered`), and a change about to
  be written was checked against the history it extends (`Checked`). `ResetHolds` by
  `ChangeInv`. Both hold until a row is written from an old copy (`mixed`, `undone`), by whichever
  of the writers.
* `TufProofs`. `LifeInv` (an update is being uploaded, known or being deleted, and nothing runs
  while the server is down) carries `MetadataConsistent` (`FilesBelongTogether`), by what the
  daemon holds between read and write, and `TimestampsStayValid`, by a margin of more than the
  daemon's period for every update it has visited without failing (`lapsing` are the others). `DevicesCanTrust` (`DeviceTrusts`) also
  needs `DiskInv`: the files of an interrupted `tuf-init` are exactly the first `k` of its
  planned writes (`MidJob`), or all of a finished run's (`Settled`), as long as nothing
  `spoiled` them; `FitsInv` says that the updates link the last root, those that brought their
  `own` roots excepted. `OneContentPerVersion`
  (`SameVersionSameContent`) needs that versions increase along uploads (`VersionInv`) and that
  what a device has seen is still what its version stands for (`SeenInv`). The hypothesis
  `ArchivesSigned` of `DevicesCanTrust` is the one thing asked of the operator's archive, as
  `importTuf` does not verify it. `TargetsAreTruthful` (`TargetsDescribeImage`) is about every
  image that `Encode` can write. What is joined into a container stays in its place (`Placed`),
  its offsets read back as they were written at each of their widths (`WriteRead`, `FramedIs`),
  so `lookupGVArray` finds the entry of a name (`ArrayLookup`), `lookupDirtree` the file or the
  directory (`DirtreeLookup`) and `rootDirtreeHash` the root (`CommitRoot`). `StepDown` is the
  loop invariant of `ReadFile`: along a path it is at the directory of that path, or has failed
  where there is none. `FileIs` follows, then `ProbeIs`, what `probeOstree` finds, and
  `TruthInv` carries that through uploads, deletions and refreshes.
* `DeviceEventsProofs`. `DeletionIsFinal` and `FailuresHaveReasons`. `EventsInv` says that a
  device not marked by `mixed` has one request at a time and none once its deletion has begun
  (`AloneInv`), that what was deleted is gone and no running request holds it (`GoneInv`), that
  the partial file a request is to rename and the files it is to delete are there
  (`Unhindered`), and likewise the files that a reader has listed while nothing else happens
  (`ViewInv`). `ReportsAreRight`, and with it `ReportsStayRight` (`ReportsRight`), is about any
  log: `Says` tells what the loop of `lastKnownStates` knows of a device after `n` lines in terms
  of the last line that is its own, and the counts are the sizes of disjoint sets (`Counts`).
  `AnswersAreKept` (`AnsweredKept`) is carried by `DeviceInv`, which is about one device, its
  files and its requests: requests are ordered by their times (`OneByOne`), what was written is
  the last writer's (`Written`), the newest file shows what the last event left (`Shown`), and a
  file may be missing only if as many newer ones as are kept displaced it (`Held`, `RollsOver`).
  It is shown once for the four things that can happen to a device (a step of its request, a
  request that begins or ends, anything elsewhere), and each action is shown to be one of them.
  When a directory is removed, the requests before that are taken back: `KeptInv` has `DeviceInv`
  of the requests since (`Fresh`, without those in `void`).
  `PlacesInv` says where the statuses of a request are on the log. The property had been too
  strong in three cases that the instance did not reach: a displaced file that is begun again,
  a test that is created again, and an upload of an artifact that breaks off after an earlier
  one was answered.

Induction. The loops of the code are folds and recursive functions here. `LeastNumber` (a
nonempty set of numbers has a least one) carries the inductions over their turns: each proof
takes the least turn at which its loop invariant fails. That the recursive function exists is
proved in the same way, turn by turn (`TurnsExist`, `SumExists`, `IsFold`).

Only model-checked. `RolloutsConverge`, `BlockEnds`, `TailCatchesUp` and `Delivered` are
liveness and outside the prover.

## Plan

Worth adding to the models: two updates for one device in Rollouts, and the start and stop of
the daemons.

## Not modelled

`cmd/` (but for `tuf-init`) and `contrib/` are start-up code, key generation and test data. The pages of the web UI that only
show something and the subcommands of the CLI that send one request have no state. Signing
and verifying, password hashing, zlib and the exchange with external identity providers
are libraries or services; the models have their outcomes. `Shutdown` of the daemons sends
on unbuffered channels one daemon after the other and so waits for the passes in
progress; how long they take is I/O. The short-lived tokens for the registry and ostree
have no state on the server.
