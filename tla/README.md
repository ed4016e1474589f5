# Formal models of Brisart Identity Tools

TLA+ modules that model the parts of this repository that keep state, TLC
configurations that check them on small instances, and TLAPS proofs of what
matters most for every instance. Paths below are relative to the root of the
repository.

- [1. The system](#1-the-system)
- [2. The plan](#2-the-plan)
- [3. Modules and code](#3-modules-and-code)
- [4. What the runs check](#4-what-the-runs-check)
- [5. What is proved](#5-what-is-proved)
- [6. Where code and documentation disagree](#6-where-code-and-documentation-disagree)
- [7. What is not modelled](#7-what-is-not-modelled)

`tlc -config <run>.cfg <module>` repeats a run, `tlapm <module>.tla` a proof.

## 1. The system

Four applications (vault, biometrics, packages, hardware access) share a
cryptographic layer. Every one is used as a command line tool, where a command
is a process of its own, and through a GUI, whose tabs keep an unlocked object
for as long as they are open. All state that lasts is in JSON files. No file is
ever locked, so the unit of interleaving is one read or one write of a file,
and between a read and the write that rests on it lies slow work: a key
derivation takes more than a minute (`docs/BSR2_INTEGRATION.md`).

| Component | State | Operations | Hard behaviour | What makes it correct |
|---|---|---|---|---|
| Unlock throttle: `crypto/throttle.py`, `crypto/attempt_store.py` | failures, time of the last, end of the lockout; a field of the vault file or keyring file | check, record_failure, record_success, status | boundaries in time; growth without end; state read before a derivation and written after it | an attempt is refused exactly as long as failures call for; nobody is locked out for good; the counter counts |
| Keyring: `crypto/keyring.py` | two wrappers of one master key and a check value; the unlocked key in memory | create, unlock by passphrase or recovery code, lock, change_passphrase, rotate_recovery_code | the keyring in memory and the one on disk change at different times | both wrappers hold the same key; what opens it is what the last completed change made it |
| Vault: `vault/store/vault_service.py`, `vault_file.py`, `vault/records/record_model.py` | `vault.json`: keyring, records, throttle state; per session the keyring and key | create, unlock, lock, upsert, batch_upsert, upsert_file_bytes, get, delete, change_passphrase, rotate_recovery_code | whole-file read-modify-write by several sessions, faults between steps, in-memory changes that outlive a failed save | every record opens; a batch is atomic; the master key never changes |
| Vault audit log: `vault/reports/audit_log.py` | one file per event | record_event, list_entries | written after the change, in a separate step | never tells of what did not happen |
| Sealing: `crypto/envelope.py`, `crypto/context.py`, `vendor/` | none | seal, open | the context of a record is rebuilt from its stored fields when it is opened | a payload opens under its key and context only |
| Bulk file service: `vault/store/bulk_file_service.py` | records of the vault: chunks and a manifest | add, restore, delete, list bundles | several saves per bundle | a manifest's chunks exist, and restore to what was added |
| Biometrics: `biometrics/app.py`, `biometrics/identity/`, `biometrics/engine/` | `keyring.json`; one file per identity with templates and attachments | enroll, attach, attach-paths, extract, remove-attachment, delete, verify | whole-record read-modify-write; a keyring created twice; names that chunks are derived from; a video that is read twice; one modality of several failing | bundles can be restored; what was attached last is extracted; everything is sealed under the key of the file; a verdict is exactly what the captures and the identity's own templates say |
| Biometrics keyring access: `biometrics/identity/keyring_access.py` | wrappers and throttle state in `keyring.json` | create, unlock, lock | two reads before the derivation and a write after it, by processes that overlap; a clock that steps back | shown recovery codes keep working; attempts stay spaced; the owner gets another try |
| Packages: `packages/package.py`, `custody.py`, `audit.py`, `main.py` | a package file: recipients, sealed content, custody chain, audit log | create, add or remove recipient, open, transfer custody, verify | load, modify and save by several processes; a save that is not atomic; audit before save | a removed recipient stays removed; the chain of custody verifies |
| Integrity ledger: `common/integrity_ledger.py`, `tools/integrity_checkpoint.py` | a hash-chained list of digests of files | checkpoint, verify | digest before read, rewritten whole by processes without a lock | what can be read verifies; entries are in order; nothing flushed is lost |
| Atomic writes: `common/atomic_io.py` | a temporary file and the target | atomic_write_* | crash between any two of its steps | the target holds the old or the new content |
| Random generator: `crypto/rng.py` over `vendor/brisart_security_drbg.py`, `vendor/brisart_security_entropy.py` | a seeded generator with request and byte counts; the last sample of the operating system | get bytes, reseed, rebuild, destroy; sample | limits reached or a health check failing in the middle of a request; stuck entropy | no output past a limit or twice; a valid request is served; stuck entropy seals nothing |
| GUI: `gui/core/busy.py`, `gui/tabs/` | worker threads, boxes for their results, the busy window; the fields of each tab | run_in_background; the buttons and choices of the tabs | a result that arrives after the tab has changed; a poll before the result is there; failed work | every busy window ends; a tab shows the truth; what it confirmed is not lost |
| Hardware: `hardware/` | the open session of a reader, a scanner or a camera | connect, read or scan, disconnect | any call of the binding fails; devices, cards and fingers come and go between calls | a read is of one object, present during the call; a connection is whole or none |

How they interact: the vault and the biometrics application each embed a
keyring and throttle state in files of their own; both save through
`atomic_io` (with one exception, the biometrics tab of the GUI, which writes a
new keyring in place); the bulk file service is a client of the vault service;
GUI tabs call the same services from a background thread.

`PROJECT.json` lists every component with its status, and every hazard at the
line where it bites with the properties that would notice.

## 2. The plan

Done, in this order:

1. `AttemptLimiter`, the throttle as operators on its state.
2. `Vault`, which composes throttle, keyring, vault file, vault service and
   audit log; `VaultStore`, the abstract store it implements; the proofs in
   `VaultProofs` (types, keys, throttle, records).
3. `Identities`, the biometrics keyring and identity records, with
   `IdentitiesProofs`.
4. `Bundles`, the bulk file service as a client of the abstract store, which it
   is shown to implement a second time, one level up; `BundlesProofs`.
5. `Packages`, the package file under command line and GUI, with
   `PackagesProofs`.
6. `Ledger`, the integrity ledger over the steps of an atomic write, with
   `LedgerProofs`.
7. `Generator`, the limits and the rebuild of the random generator, the DRBG
   below and `encrypt` above it, with `GeneratorProofs`.
8. `KeyringAccess`, creation and unlocking of the biometrics keyring over
   `AttemptLimiter`, with `KeyringAccessProofs`, which begins with the theorems about
   the throttle alone.
9. `Desktop`, the tabs of the GUI over the background runner, with liveness.
10. `Devices`, the drivers of `hardware/` over the contract of their bindings.
11. `Recognition`, enrolment and verification by modality.
12. `InterfaceProofs`, the proofs about these three. They share no variable and no
    definition; `Devices` and `Desktop` name their specifications `DriverSpec` and
    `DesktopSpec`, so that one module can extend all three.

Abstract specifications: `VaultStore`, implemented by `Vault` (for one operation
at a time) and by `Bundles`, both proved.

Every safety and action property that a run checks is now a theorem. What is left
to TLC is liveness (section 5).

## 3. Modules and code

**AttemptLimiter.** Operators only, since the limiter object keeps nothing
between calls: `MayAttempt` is `check`, `RecordFailure`, `RecordSuccess` and
`RemainingWait` are the methods of the same name (`RemainingWait` is the longer
of the two figures of `status`). Time is whole seconds. The defaults of the code
(5 failures, 1 s, 300 s, 900 s, exponent 64) are CONSTANTS. `LimiterAssumption`
is what `__init__` refuses to be built without; `PowersAssumption` (powers of two
are naturals) is arithmetic that the provers do not have, and TLC evaluates it.

**Vault.** A session is one `VaultService` object. Its state is `ring` (the
keyring it loaded or changed), `masterKey` and `op`, the call it is in with the
local variables of that call. `file` is `vault.json`, `audit` what the audit
directory holds. Each call is split where the code touches the file or the clock:

| Call | Actions |
|---|---|
| `create` | `BeginCreate` (existence check), `FinishCreate` (after two derivations: write, session unlocked) |
| `unlock`, `unlock_with_recovery_code` | `BeginUnlock` (read, limiter), then `Unlocked` or `UnlockRefused`, which write back what was read with new throttle state |
| `upsert`, `batch_upsert`, `upsert_file_bytes` | `BeginUpsert` (read), `SealItem` per item, `Reload`, `Write`, `Audit` per event |
| `delete` | `BeginDelete`, `Reload`, `Write`, `Audit` |
| `change_passphrase`, `rotate_recovery_code` | `ChangePassphrase` or `RotateRecoveryCode` (keyring in memory), `Reload`, `Write` |
| `lock` | `Lock`, `Audit` |
| an exception anywhere | `Fail`: the call ends, what it changed in memory stays |
| end of the process anywhere | `Crash` |

Cryptography is a free algebra: `Wrapped` opens with the secret it was made
from; `Sealed` opens under its key, id, kind and label, as the contexts of
`crypto/context.py` bind them. Keys and codes drawn at random are never drawn
twice (`minted`). The variables `misses`, `lastMiss`, `current`, `suspect`, `lapsed`,
`commits` and `faults` are history: no action reads them except for the bounds.
`current` has the secret last made valid for each wrapper; `suspect` has, per session, the
wrappers its keyring in memory may have wrong: those it failed to save a change of, and
those that somebody else changed since (`KeyringSaved`, `Unsaved`); `lapsed` those of
them that were saved nevertheless.

**VaultStore.** What the vault promises: a map from ids to payloads that changes
by whole batches and single removals. `Vault` maps it to what `get` would
return.

**Identities.** A process is a command of `biometrics/app.py` or a biometrics
tab. It holds a key (`held`) and is in at most one command (`op`). A command on
the record is two steps: one loads the record and works on its copy (`Enroll`,
`AttachFile`, `AttachPaths`, `RemoveAttachment`), and `Save` replaces the file by
that copy; `Delete` unlinks it. Creating the keyring is atomic in the CLI
(`FinishKeyring`) and two steps in the GUI (`TruncateKeyring`, `FillKeyring`).
An attachment's name is its base with a suffix, so that the names which
`bulk_attachments.py` derives are the ordinary attachments they are in the
code. Contents are sequences of chunks; a manifest carries what its size and
SHA-256 are computed from. Callers are assumed not to attach files whose own
name ends like `.manifest` or `.chunk0`. A base may be the name of a file, of a bundle, or of
both; `latest` has what was last attached as either (`Attached`), and `Uppermost` is the one
that extraction prefers. `latest` and `overlapped` are history.

**Bundles.** The bulk file service sees the vault as `VaultStore`: `store` maps
record ids to what `get` and `get_file_bytes` open, and each call of the vault
service is one step. (`Vault` refines `VaultStore` for one operation at a
time; what overlapping saves lose there is lost here too.) `op` is the call a
session is in.

| Call | Actions |
|---|---|
| `upsert_large_bytes`, `upsert_paths` | `BeginAdd`, `SaveChunk` per chunk under a fresh id, `SaveManifest` under the given id or a fresh one |
| `restore_bytes`, `restore_paths` | `BeginRestore` (reads the manifest), `ReadChunk` per chunk, `FinishRestore` (size and hash agree) |
| `delete` of any record | `Delete` |
| an exception or the end of the process | `Fail` |

A content is a sequence of pieces; a manifest carries the content its size and
hash were computed from. Replacing and deleting bundles leaves their chunks in
the vault, as in the code. Callers are assumed to give an id only of a bundle
and to keep its label (`vault_relabel` shows what happens otherwise). `deleted` is
history. `Restored` is what `restore_bytes` returns of each id; it is
the refinement mapping to `BundleStore`, an instance of the same `VaultStore`.

**Packages.** A process is a command of `packages/main.py` or a packages tab
(`Tab`), which keeps the package it holds between operations (`held`). A command
computes the package it will save from what it has loaded (`Create`,
`AddRecipient`, `RemoveRecipient`, `Open`), writes the audit entry (`Audit`), and
saves in place: `Truncate` empties the file, `Fill` writes the text. If another
process has written since the truncation, its longer text may stick out
behind, so `Fill` may leave a file that does not parse. `SaveRefused`, `Fail` and
`Exit` are a file that cannot be opened, an exception, and the end of a process;
`DenyOpen` is an opening that is refused and audited; `Choose` is a tab that loads
a file. A key slot is the content key that its recipient's master key opens
from it. Recipients and key slots have the same ids at all times, so one
function stands for both. The custody chain is the sequence of its entries: each is
linked by `append` to all before it, so that a whole-file save can never mix
two chains. Of `verify_chain`, which everything loaded must pass, the check of the genesis entry is left
(`VerifyChain`). `log`, `overlapped`, `stale` and `mishaps` are history.

**Ledger.** A process (`run`) is one call of `integrity_checkpoint.py checkpoint`:
`Inspect` is the target's digest and size, `Load` reads the ledger, `Stamp` reads
the clock and appends the chained entry in memory, and the rest is
`atomic_write_text`: `WriteTemp`, `SyncTemp`, `Replace`, `FlushDirectory`, each of
which may fail as in the code (the last one silently). `Kill` ends a process and
`PowerFailure` all of them. `ledger` is what processes read; `onDisk` is what a
power failure may leave: a renamed file is one of them from its rename on, with its
text if the temporary file was fsynced and torn otherwise, and a flush of the
directory leaves only the present one. The hash of an entry is the sequence of all it
covers, which is what SHA-256 without collisions amounts to. Digest and size
are one value, read at once. `schedule` says whether checkpoints are kept from
overlapping, which the tool leaves to its operator; `secured` is history.

**Generator.** `Request` is `ManagedGenerator.generate` up to the call of the
DRBG, with the reseed that `Reseeds` calls for; `Enter`, `NextBlock`, `Refuse` and
`RepeatBlock` are `BrisartDRBG.generate` block by block, `Rebuild` and `Raise` the
wrapper's answer to a DRBG that fails for the first and for the second time,
`Return` the end, `Destroy` the other method. The DRBG destroys itself when a block equals
the one before; whether it does is a choice (`RepeatBlock`). A block is named by its seeding and
its place in it. `SealSalt` to `MixNonce` are the draws of `encrypt`: salt, then nonce, each mixed with a
sample of the operating system (`Draw`, `SampleRepeated`), which may be stuck.
`MaxSeedings` bounds the run only.

**KeyringAccess.** `BeginCreate` is the existence check, `CreateByCommand` the
atomic write of the CLI, `TruncateByDesktop` and `FillByDesktop` the write in place of
the GUI; if the path is replaced between the two, what is filled is no longer the file of the
path (`linked`). `Open` builds a `Keyring` from the file; `BeginUnlock` reads the file again for the throttle
and keeps that text (`raw`), which `UnlockFails` or `UnlockSucceeds` writes back with
the new throttle state; `Abandon` is a process that ends or gives up, `Release` the lock button.
`SetClock` is the wall clock, which may step back. `latest`, `minted`, `shown`, `failures`, `failedAt`
and `overlapped` are history.

**Devices.** One driver of one `kind`. `driver` are its fields, `binding` what the
operator's binding holds, `call` the method under way, which pauses between any
two calls of the binding. `ConnectFails`, `AttemptFails`, `ReadFails` and `ScanFails`
are the exceptions of the binding at each place; `Cut`, `Lift`, `Place`, `Plug` and
`Unplug` are the world. A reader names its session, a scanner opens a device, a
camera asks for its media service, a profile and a snapshot address
(`Discover`, `GetProfile`, `GetUri`). Only the contract of a binding is in the
repository, so its actions are as weak as the contract.

**Desktop.** One tab of one GUI process. `tasks` are the threads of
`run_in_background`: each has what its handler captured (`with`), how its work
ended (`end`) and the state of its poll (`poll`). A button or choice is an action that needs `Free`:
the busy window holds the grab of all input. Work does what it does to files when it ends; `Poll`
finds the queue empty, or closes the window and runs `on_success` or `on_error` on the
tab as it is then. Tabs share the runner and its window only, so a behaviour works on one
tab and keeps to it. That a grab keeps all input away is what the window system is trusted for.
A package file is missing, a package, damaged (its reading fails as `_load_state` expects,
which clears the state) or `Foreign`: reading it raises `UnicodeDecodeError` or `KeyError`, which
nobody catches, so that the state of the path before stays (`Loaded`). `Odd` are the paths where such
a file is at first; the program makes none. `PackageNotSaved` is a save that fails before or
after `open(..., "w")` has emptied the file. `confirmed` and `deleted` are history; a failed save
takes nothing out of `confirmed`.

**Recognition.** A command is a record (`op`): its sources by modality, the key it
unlocked, the record it loaded or builds. `BeginEnroll` and `BeginVerify` load; `Gate`,
`GateFails` are the reading of a video for motion, `EnrollModality` and
`VerifyModality` the reading for features, sealing a template or opening and comparing
one; `Refused` is any exception, `Save` and `Decide` the end. The command line takes
voice, fingerprint, video, the tab goes by the alphabet; the model allows any order. A
capture is whom it shows and how it moves. The surroundings write captures between any two
steps (`Film`), copy the file of one identity over that of another, put a sealed
template into another slot or record (`Transplant`), delete, and make a new keyring.
`asked`, `lenient`, `rewritten` and `probes` are history.

The definitions marked "Seeded fault" are variants of the code with a plausible
bug, used to see that the properties notice one. No specification uses them.

## 4. What the runs check

| Run | Shows |
|---|---|
| `vault_serial` | Two sessions, one operation at a time, one fault anywhere: the vault implements `VaultStore` (`AtomicStore`), records open and fingerprints are true (`RecordsReadable`), the audit log never tells of a change that did not take place (`AuditFaithful`); and both sessions being unlocked, with changes and rotations that fail, a secret in force gives way only as the code has it (`LastChangeHolds`) |
| `vault_keys` | One session, restarted at will, all key operations, with time: `TypeOK`, `KeyringsSound`, `FailuresCounted`, `ThrottleHonoured`, `NeverLockedForGood`, `VaultKeyStable` |
| `vault_relabel` | Finding: an update under another label makes a record unreadable |
| `identities` | Two processes, any interleaving: `BundlesRestorable`; and for histories without overlap `EverythingOpens`, and of each name what extraction returns of the files and bundles attached under it (`LatestExtracted`) |
| `packages` | A command line and a tab, any interleaving, one fault: `TypeOK`; a file that parses is a sound package (`FileSound`) whose chain is in the audit directory (`AuditCoversCustody`); and the chain is complete while nobody works on something stale (`CustodyComplete`) |
| `ledger` | Two checkpoint processes, apart or overlapping, with failures, kills and power failures at every step: whatever can be read passes verify_ledger (`AlwaysVerifies`), in order of time (`HistoryInOrder`) and without an entry that was reported as failed (`FailedAddsNothing`); and without overlap nothing that was flushed is lost (`SecuredStays`) |
| `bundles` | Two sessions, any interleaving of their calls, faults anywhere: a restore returns the content of the manifest it began with, even if the bundle is replaced meanwhile (`RestoresServed`); bundles behave as single records (`AtomicBundles`, a refinement of `VaultStore`) |
| `generator` | Requests of any length, repeated blocks and destruction at any time: `TypeOK`; the wrapper never lets the DRBG run into a limit (`AheadOfLimits`), fails a valid request only when freshly seeded generators fail (`ServedUnlessBroken`), never returns a block again (`OutputsFresh`, an action property); stuck entropy seals nothing (`StuckEntropySealsNothing`) |
| `keyring_access` | A command line and a GUI, any interleaving, ends anywhere, a clock that steps back: every key in use and every shown recovery code is that of the file unless creations overlapped (`ShownCodesOpen`), attempts that do not overlap wait for all failures before them (`AttemptsSpaced`, an action property), and the owner always gets another attempt (`OwnerGetsAnotherTry`) |
| `devices` | Reader, scanner and camera with failures at every call of the binding: ATR and UID, or the image, are of one object present during this call (`OneObjectPerRead`); a connection is whole or none and leaves nothing open (`ConnectedOrNot`, with the types) |
| `desktop` | One tab with the runner, failures and restarts: `TypeOK`; the tab shows the vault and the package it works on and says "locked" when it is (`TabsTellTheTruth`), what it confirmed stays, on disk or, after a save that emptied the file, in the tab (`NothingConfirmedIsLost`), every busy window goes away (`BusyEnds`, liveness) |
| `recognition` | One command at a time against captures, records and keyrings that change between its steps: `VerdictExact`, `StillsRefused`, `EnrolledWhole` |

`FailuresCounted`, `ThrottleHonoured`, `LastChangeHolds` and `AtomicStore` are checked with one
operation at a time. They are false with overlapping operations: two unlocks
under way count one failure, an unlock undoes a rotation that was saved during its
derivation, a stale write undoes a newer one. The repository says so
itself of the throttle (`docs/BSR2_INTEGRATION.md`, line 337) and is built for
one user; what must hold even then (records open, fingerprints are true, keys
stay) is what the theorems of section 5 state for any interleaving.

Bounds, and why they are enough:

- `Concurrency`: operations under way at once; 1 or 2. Two is where a stale
  write first meets a newer one.
- `MaxTime = 7` with `LockoutSeconds = 3`, `MaxAttempts = 2`, `MaxDelay = 2`: a
  lockout starts, ends and starts again, and the backoff reaches its ceiling.
- `MaxFaults`: calls that raise or processes that die in a call. One suffices
  for each single fault, also for a rotation that fails and the change that saves it;
  `vault_keys` allows two.
- `MaxMisses`: failed unlocks in a row.
- `MaxAudits = 2`: events of each kind and record. A creation, an unlock by the
  other session, and changes of a record before and after it.
- Two keys and two or three codes: a second creation or rotation is possible.
- Two JSON records, so that half a batch differs from a whole one and from nothing, and a
  file record with two contents, so that a fingerprint can go stale.
- Bundles of one and of two chunks, so that one can shrink and grow. In `identities`, a name of
  files and one of both files and bundles, so that each can come before the other. In
  `bundles`, six ids: two bundles with two chunks each, or one that is replaced.
- `MaxLength = 3` entries of a custody chain: created, added, then removed or opened. Two content keys, so that
  two creations can race. `MaxAudits = 2`: each event can be repeated after a
  fault or on both sides of an overlap. `MaxMishaps`: faults and refusals; one
  suffices for each single fault, and overlapping saves need none.
- `MaxEntries = 2`: a checkpoint begins while there are fewer than two entries, so that a
  ledger grows twice, and overlapping ones race from an empty and from a grown ledger; `MaxTime = 1` in `ledger`, since its clock
  is only compared. Faults are not bounded there.

- `generator`: limits of 5 requests and 12 bytes for the DRBG, 4 and 7 for the wrapper, 4
  for a request, blocks of 2 bytes: every limit is met from below, at and above by some
  length. `MaxSeedings = 8` is enough for reseeds, a rebuild and a failed rebuild.
- `keyring_access`: two keys, so that one creation can undo another;
  `MaxAttempts = 2`, `MaxFailures = 3`, lockout 3 in 5 clock times, so that a lockout
  is met again after a step back.
- `devices`: two devices that match and one that does not, two cards or fingers, one retry
  as in the code, up to 3 sessions so that a leaked one shows.
- `desktop`: two paths and two names of each kind: a choice can change to another and back;
  and a third path of packages where something else is (`Odd`).
- `recognition`: one process, two identities, keys and persons, two capture files with every
  content at the start, `MaxEvents = 2` later changes: one before a reading and one after,
  or one of the store and one of a capture.

Sessions are interchangeable, and so are processes, record ids, persons and keys
where the configurations say so; symmetry is used for invariants and step
properties only.

`CHECK_DEADLOCK FALSE` is set (except in `ledger` and `desktop`) because the models
may stop: users may stop using
the system, the clock, the codes and the events are bounded, and a menu leaves
operations out.

Fairness is assumed in `Desktop` only: `WF_vars(\E t \in tasks : Ends(t))`, a thread's
work ends with a result or an exception, which holds of key derivations and file
operations, whose loops are all bounded; and `WF_vars(\E t \in tasks : MainLoop(t))`,
the event loop of Tk runs what `after()` has scheduled. A user is not assumed to do
anything. Elsewhere nothing needs to happen: a process may end at any time. What
could block its owner for good, the throttle, is covered by the invariants
`NeverLockedForGood` and `OwnerGetsAnotherTry`.

## 5. What is proved

All theorems hold for any sets of sessions, secrets, records and processes and
any bounds. Their assumptions are the named ASSUMEs of the modules: bounds and
limits are numbers, marks like `None` (`Nothing` in `Devices`, `Nil` in `Desktop`) are no data, what callers submit has the
type of a request, and there are finitely many `VaultService` objects
(`IsFiniteSet(Session)`, which counting them and their audit entries needs).
Hypotheses of single theorems say what a user of the code has to see to, since
the files have no lock:

- `OneAtATime`: operations of sessions do not overlap (`Concurrency = 1`, or
  there is one session). Otherwise what one session writes back is older than what
  another has just written, and forgets its failures and records.
- `StableRequests`, which the finding `vault_relabel` shows to be necessary.

| Theorem | Statement |
|---|---|
| `KeyringAccessProofs!LongWaitSuffices`, `LockoutHolds`, `RemainingWaitExact` | The throttle as a function: waiting `LongestWait` is enough, the failure that reaches the limit bars every attempt until the lockout ends, and what `status` reports is exact |
| `VaultProofs!TypeCorrect` | `Spec => []TypeOK` |
| `VaultProofs!KeyringsStaySound` | `Spec => []KeyringsSound` |
| `VaultProofs!OwnerGetsBackIn` | `Spec => []NeverLockedForGood` |
| `VaultProofs!ExistingKeyStable` | `SpecExisting => VaultKeyStable` |
| `VaultProofs!StableRecordsReadable` | `StableRequests` and `SpecExisting` imply `[]RecordsReadable` |
| `VaultProofs!AuditStaysFaithful` | `Spec => []AuditFaithful`, any number of operations at once |
| `VaultProofs!EveryFailureCounted`, `EveryWaitKept` | `OneAtATime` and `Spec` imply `[]FailuresCounted` and the action property `ThrottleHonoured` |
| `VaultProofs!LastChangeStays` | `OneAtATime` and `Spec` imply `[]LastChangeHolds`, for any number of sessions and calls that raise |
| `VaultProofs!CreatedKeyStable`, `CreatedRecordsReadable` | `OneAtATime` and `Spec` imply `VaultKeyStable` and, with `StableRequests`, `[]RecordsReadable`, from the creation of the vault on |
| `VaultProofs!VaultIsAStore` | `OneAtATime`, `StableRequests` and `Spec` imply `AtomicStore`: `Vault` implements `VaultStore` |
| `IdentitiesProofs!IdentitiesTyped`, `BundlesStayRestorable` | `Spec => []TypeOK`, `Spec => []BundlesRestorable` |
| `IdentitiesProofs!SerialKeepsOneKey`, `SerialExtractsLatest` | `Spec => []EverythingOpens`, `[]LatestExtracted` |
| `BundlesProofs!BundlesTyped`, `RestoresAlwaysServed` | `Spec => []TypeOK`, `Spec => []RestoresServed` |
| `BundlesProofs!BundlesAtomic` | `Spec => AtomicBundles`: `Bundles` implements `VaultStore` |
| `PackagesProofs!PackagesTyped`, `FilesStaySound`, `AuditCovers`, `CustodyStaysComplete` | `Spec => []TypeOK`, `[]FileSound`, `[]AuditCoversCustody`, `[]CustodyComplete` |
| `LedgerProofs!LedgerTyped`, `LedgerVerifies`, `OrderKept`, `SecuredKept`, `FailedAdd` | `Spec => []TypeOK`, `[]AlwaysVerifies`, `[]HistoryInOrder`, `[]SecuredStays`, `[]FailedAddsNothing` |
| `GeneratorProofs!GeneratorTyped`, `NeverAtALimit`, `ValidRequestsServed`, `StuckEntropyNeverSeals` | `Spec => []TypeOK`, `[]AheadOfLimits`, `[]ServedUnlessBroken`, `[]StuckEntropySealsNothing` |
| `GeneratorProofs!NothingReturnedTwice` | `Spec => OutputsFresh`, an action property |
| `KeyringAccessProofs!OwnerNeverLockedOut`, `ShownCodesKept` | `Spec => []OwnerGetsAnotherTry`, `[]ShownCodesOpen` |
| `KeyringAccessProofs!AttemptsAreSpaced` | `Spec => AttemptsSpaced`, an action property |
| `InterfaceProofs!VerdictsExact`, `StillsNeverTaken`, `EnrolmentsWhole` | `Spec => []VerdictExact`, `[]StillsRefused`, `[]EnrolledWhole` of `Recognition` |
| `InterfaceProofs!OneObject`, `ConnectedAlways` | `DriverSpec => []OneObjectPerRead`, `[]ConnectedOrNot` |
| `InterfaceProofs!TabTyped`, `TabsTrue`, `ConfirmedKept` | `DesktopSpec => []TypeOK`, `[]TabsTellTheTruth`, `[]NothingConfirmedIsLost` |

*Types of the vault.* `TypeOK` is not inductive: the step after `Reload` writes
`op[s].snap` with a field replaced, which is a file only if there was one to
read. `CallsWellFormed` says, per program counter, which local variables a call
has set, and that its session still has the keyring and key it started with.
Since a step of one session must not disturb the calls of others, the lemma
`OthersKept` isolates what they rely on: their own variables, and that a file,
once there, is never removed.

*Keys.* `KeyringsSound` needs that a session's key is the key that its own
keyring's check value was made from, else re-wrapping would break it (`SoundInv`).
The throttle's invariant must hold of every state that may still be written
back, not only of the one in the file: `TimesInv` says that no lockout, on disk
or in flight, ends later than `LockoutSeconds` from now. `OneKeyInv` says that file,
sessions and calls all have one key; it is inductive only where no creation is
under way, hence `SpecExisting` (section 6 tells what overlapping creations do).
Lemmas `QuietCalls` and `QuietLosses` collapse the sixteen actions to the six
kinds of steps that matter to keys.

*Records.* `RecordsInv` says that every map of records on disk or in flight is a
map of records which some request, sealed under the vault's key, left behind.
`StableRequests` (callers keep one label, kind and way of storing per id) is
what the finding `vault_relabel` shows to be necessary.

*One operation at a time.* `SerialInv` says that at most one session is in a call
(`Alone`) and that what this call has read is what the file holds, be it
nothing (`Steady`): `OthersKept` has no more to do, since the others are idle.
`CountInv` (the throttle state of the file `Knows` how many failures there were, when
the last was, and until when they bar) is then preserved by each write, because the snapshot that is
written back is the present file; a crash between read and write leaves the file as it
was. A derivation begins in `BeginUnlock` only (`DerivingBegins`), so `ThrottleHonoured`
follows from `CountInv` and the guard. `LastInv` says that the keyring of the file has the secrets
of `current` but for `lapsed`, which is never both, and that of each session but for what is to be
doubted of it (`Doubted`): what it is suspect of, what has lapsed, and what the call it is in has
changed and not saved. `KeyedInv` and `KeptInv` are
`OneKeyInv` and `RecordsInv` from the moment there is a file; what is left to prove is
`FinishCreate`, which makes them true.

*The vault as a store.* `VaultStore` applies a batch in one step, in which each id gets the
payload of the last item that names it; `Vault` takes one step per item. `WorkInv` says that the items
still to be sealed, applied to the records in hand, give what the whole batch gives
applied to the file; `AppliedFirst` moves one item from the one side to the other. That there
is a last item is proved from the well-foundedness of the naturals (`HasLeast`,
`HasLast`). `StoreStep` then maps `Write` to a `Put` or a `Remove` and every other step to a
stutter; `ContentReads` says that the content of a vault all of whose records are readable
is their payloads.

*Audit of the vault.* What a session has still to record is a sequence in its call
(`Queue`). `PendingOf` splits the count of missing entries into those of one session and those
of the rest; `Recording` says that a step of a session takes as many off its queue as it writes
audit files, or adds as many as it commits, or loses them to a fault. `HeadOccurs`
counts the one that `Audit` writes. No exclusion is needed: nobody touches another's queue.

*Bundles of identities.* `Inv` says that every record, saved or in flight, is
`Sound`: each of its manifests lists its chunks in order, and each listed chunk is
there, with the piece the manifest was made from, under the manifest's key. That each
command takes a sound record to a sound one is proved per operation
(`AttachWholeSound`, `AttachBundleSound`, `RemovedSound`); the interesting case is the
attachment of a smaller bundle over a larger one, where chunks of both
versions share the record. `KeyInv` says that while nothing overlaps, one process is in a
command (`Sole`), whatever is held in memory is the key of the keyring's file, and the record
and the copy under way are sealed under it; a keyring is made only while there is none. `LatestInv` says that the record holds what was attached last, and a copy
under way differs from that by what its command was asked for. It says so of
files and of bundles apart (`Holds`), so that an attachment of the one kind leaves the other alone, and a
removal takes the manifest first; `ExtractedSound` says which of them extraction returns.

*Bundles of the vault.* `Inv` says that every id listed by a manifest, by a call
that adds or by one that restores was drawn for its piece and still holds it,
unless a user deleted it (`Listed`); that the id a bundle is to be replaced under
is nobody's chunk (`TargetInv`); and that no two bundles, saved or being added,
share a chunk (`DisjointInv`). Then a chunk being saved changes no bundle,
since its id is in no manifest, and a manifest being saved changes exactly its own:
each step maps to one of `VaultStore` or to a stutter.

*Packages.* `SoundInv` says of every copy of the package there is, in the file, in
a tab or about to be saved, what `FileSound` says of the file, so it does not
matter which copy wins. `MembersAppend` computes what one more entry does to the
recipients a chain accounts for. `AuditInv` counts: a copy's chain is covered by the audit
directory from the moment its last entry is audited, and without that entry
before; since audit files are never removed, covered copies stay covered.
`CustodyInv` says that while nothing is stale, the only command under way
extends the very chain that was last saved.

*Ledger.* `ChainInv` says of every ledger there is, in the file, on disk and in the
memory of a process, that it is a chain in order of time with no entry from the
future; that overlapping processes overwrite each other then does not matter.
`ExtendedGood` is the one computation: an entry stamped now extends such a chain.
That nothing is torn needs `RunInv`: what is renamed was fsynced. `ExclusiveInv` says
that a process that has loaded the ledger holds what was secured, because
nobody else secures anything before it ends. `FreshInv` is what makes a failed checkpoint
traceless: an entry is told apart by the entries it covers and its label, and no ledger on disk and no
other process has an entry of this process behind the ledger it has loaded, is about to extend, or has
extended in its own memory. It needs that an entry covers as many as lie before it (`DepthInv`), so that
an older entry is not mistaken for it.

*Generator.* Wrapper and DRBG count requests and bytes apart; the invariant is that a
living DRBG has counted exactly what the wrapper has (`CountersInv`), although either may
be replaced by the other's failures. With `GeneratorAssumption` (the limits of the
wrapper lie within those of the DRBG) what `Reseeds` lets through then fits. `CallInv` says how
far a request has got and what has gone wrong with it: a DRBG that is dead when a
request comes is rebuilt without a repeat of its own, so two repeats, or one after a
destruction, precede every failure. Stuck entropy needs that the sample remembered is the
salt's from its draw until the nonce's (`MixInv`). That nothing is returned twice needs that
the blocks of a request end where the counter of the DRBG stands (`OutputInv`), and that what
was returned before is of an earlier seeding or lies behind them (`BehindInv`).

*Keyring of the biometrics tools.* `TimesInv` is the vault's, with the latest time the clock
has shown in the place of now, since a failure may be recorded at an earlier one.
`KeysInv` follows a creation: without an overlapping one, one process
creates while there is nothing or fills what it has truncated, nobody holds a key, a code or a
`Keyring` before there is a keyring on file, and then everything read, in use, shown or
in flight is of its key. `AttemptsInv` rests on it (nobody derives while a keyring is being
created): while nothing overlaps, the file's throttle knows of all failures, and the
one derivation under way will write back the present file.

*Recognition.* A command is `Sound` at every step: a result of a verification is what the
capture it compared says of the template at hand (`Compared`), so the verdict, taken when no
result is missing, is exact; an enrolment has a template for each modality it is done with,
under the key and identity of its record, and no other (`Enrolled`), so what it saves is
`Whole`. Between the two readings of a video the file can change: `Gated` says that what the
gate saw is still there unless somebody wrote it since (`rewritten`). Nothing that happens to
the store disturbs a command, which works on the record it loaded; `CarriedOver` says so of the
steps that change neither results nor record. `StillsRefused` needs that a record put together
by hand is marked `lenient`, and `EnrolledWhole` that `asked` goes with it.

*Devices.* `Placed` says where a call of each kind of driver can be and which fields it has set
by then. `Opened` counts sessions: with a caller that connects only what is disconnected and a
binding that closes what it is told to, there is one while the driver is open and none
otherwise, at every step and not only between calls. `Watched` follows a reading:
what is on the device was seen by this call, and the card that the binding holds is the one
whose ATR was read or is gone, since a card that leaves cuts the connection (`Cut`); so a UID
can only be of the same card.

*Desktop.* `Alone` says that no two tasks are under way, which the grab of the busy window
gives. Then what a task captured is still what the tab shows when its result is handed over
(`OfVault`, `OfKeyring`, `OfIdentity`, `OfPackage`: one per tab and kind of work), and an
attachment is made to the identity as it was listed. `InMemory` says that the package a tab has
in memory is that of its path, unless something else was there, and has all that was confirmed for
it, so saving it loses nothing, and neither does a save that fails. `LoadedCurrent` says so of what
is loaded; a `Foreign` file leaves the old package, and nothing was ever confirmed for its path.
Fairness is not used.

Model-checked only: `BusyEnds`, since liveness is out of the prover's reach. So are induction over
data by the library's theorems, and whatever a RECURSIVE operator computes; no module declares one.

## 6. Where code and documentation disagree

1. `vault/README.md:152` offers to update a record by `upsert` with its id. When that
   upsert names another label or kind, the new envelope is bound to the new
   ones and the record keeps the old, so the record never opens again
   (`vault_relabel`).

Seen in the models, without a run of their own:

- `vault_file.py:44` refuses to overwrite an existing vault. The check (line 51) comes
  minutes before the write, and the write does not check again: of two overlapping
  creations the second replaces the first, whose recovery code is then worthless.
- `keyring.py:412` returns the new recovery code and invalidates the previous one.
  If the save of a rotation fails (`vault_service.py:402`), nobody gets the code, yet the keyring in memory has
  it, and a later `change_passphrase` puts it in force. And one by a session that was unlocked before
  a rotation saves its own keyring (`vault_service.py:396`), which makes the previous code valid again. Both happen
  in `vault_serial`; `LastChangeHolds` is what remains true.
- `packages/package.py:148`: a removed recipient's key no longer opens the
  package. A packages tab that loaded it before the removal saves the old
  recipients again with whatever it does next (`tab_packages.py:216`).
- `biometrics/app.py:338` speaks of the file "originally attached". A small file attached under
  the name of a bundle is shadowed by it (line 347), until `remove-attachment` has removed the
  bundle. `LatestExtracted` says which of them is returned.
- `tab_packages.py:93` means to clear the state when a file cannot be loaded. It does not catch the
  `UnicodeDecodeError` of a file that is not text nor the `KeyError` of custody records that lack a
  field; path and label are new by then, the package is still the old one, and the next change saves it
  over the file just chosen.
- `tab_packages.py:102` empties the package file before it writes. If the write fails, the package is in
  the tab only, which shows it as if nothing had happened; choosing another path or closing the
  window loses it.
- `packages/audit.py:24` says that an audit entry reflects a committed change, but
  `package.py` writes it before its caller saves, so that a refused save leaves an
  entry for a change that no file has.
- `tools/integrity_checkpoint.py:33` says that every failure of a subcommand is
  reported as a plain error. A failed write of the ledger raises `AtomicWriteError`,
  which neither `append_checkpoint` nor the tool catches, and ends in a traceback.
- `biometrics/features/liveness.py:39` speaks of no second file read. The code reads a video
  twice (`verification.py:81` and `:109`, `enrollment.py:79` and `:81`), so a file written
  in between is checked for one content and used with another (`rewritten` in `Recognition`).
- `tab_biometrics.py:128` titles a list "Attachments on the selected identity:". It is
  not refreshed when the selection changes.
- `tab_biometrics.py:397` hides every name that contains `.chunk`, where its comment (391-395) speaks of the
  chunks of bundles only.
- `IdentityStore.load` does not compare ids: `verify bob` on a file copied from that of alice
  verifies alice, and says so in the report. `VerdictExact` holds of the identity reported.
- A second `connect()` on a connected reader or scanner leaks the first session (`twice` in `Devices`), and
  `health_check` compares with the first listed name.

## 7. What is not modelled

- Cipher, key derivation, feature extraction, codecs, matching scores: arithmetic
  on bytes or floating point without control state. Whom a capture shows and whether it moves
  is an input of `Recognition`.
- Malformed files. Every file is one the programs wrote, except for the
  half-written keyring of the GUI (`Broken`), a half-written package
  (`Empty`, `Torn`), a ledger that was never flushed (`Torn`), the damaged and foreign
  files of `Desktop` and the records put together by hand in `Recognition`. `_normalize` of the throttle state
  matters only for others.
- Clocks that step back, except in `KeyringAccess`.
- Text: prompts, formats of recovery codes, strength rules, reports. `health_check`,
  `capture_image` and `last_error` of the drivers only read or report.
- The building and unpacking of zip archives.
- The ledger's reading commands (status, history, list-tracked), and file modes.
- The hardware manager, registry and placeholder drivers: a dictionary of constructors. Drivers
  have no bindings in this repository, so nothing is known of them but their contract.
- `hash_factor` and `verify_factor` of `crypto/factors.py`, which nothing calls.
- Two tabs at once: they share the runner, whose window keeps the other tab from being used,
  and files, whose interleavings are those of `Vault`, `Identities` and `Packages`.
- An exception that is no `Exception` (`SystemExit`) in a thread of the GUI, which
  `busy.py:65` does not catch: no task raises one.
