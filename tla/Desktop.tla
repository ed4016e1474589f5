------------------------------- MODULE Desktop -------------------------------
(***************************************************************************)
(* One process of the desktop program: the tabs of gui/tabs over the       *)
(* background runner of gui/core/busy.py.  A button's handler runs on the  *)
(* main thread.  What is slow runs on a thread of its own, from what the   *)
(* handler captured; a poll on the main thread, every 100 ms, hands the    *)
(* result to on_success or on_error, which work on the tab as it is then.  *)
(* All that keeps a tab from changing in between is that the window        *)
(* "Working..." grabs all input (BusyDialog).                              *)
(*                                                                         *)
(* Tabs share nothing but the runner and this window, so a behaviour works *)
(* on one of them.  What the services do with the files is modelled in     *)
(* Vault, Identities, KeyringAccess and Packages; here a file is whole,    *)
(* damaged or missing, an identity is the names of its attachments, and a  *)
(* package is where it was created and the changes made to it.             *)
(***************************************************************************)
EXTENDS Naturals

CONSTANTS
    Vaults,        \* paths of vault files
    DefaultVault,  \* vault_settings.VAULT_FILE
    Files,         \* paths of package files
    Odd,           \* those where something else is at first
    Things,        \* names of attachments, changes to a package
    Identity,      \* the identity that is worked on
    Missing,       \* no such file
    Damaged,       \* a file that cannot be read, as one cut short
    Foreign,       \* one whose reading raises what its reader does not catch
    Nil

File == {Missing, "whole", Damaged}
Package == [home : Files, done : SUBSET Things]
Service == [path : Vaults, open : BOOLEAN]

\* The special values are no paths, contents or collections, and distinct.
ASSUME DesktopAssumption ==
    /\ DefaultVault \in Vaults /\ Identity \notin Files
    /\ Nil \notin Vaults \cup Files
    /\ \A s \in Service \cup SUBSET Things : s # Nil
    /\ \A p \in Package : p \notin {Nil, Missing, Damaged, Foreign}
    /\ Missing # Damaged /\ "whole" \notin {Missing, Damaged}
    /\ Foreign \notin {Missing, Damaged}
    /\ Odd \subseteq Files

VARIABLES
    tab,           \* the tab that is worked on
    vault,         \* fields of VaultTab; rows: the vault they were listed from
    keyring,       \* BiometricsTab: its keyring and the status label
    package,       \* fields of PackagesTab
    disk,          \* vault files, keyring.json, the identity, package files
    tasks,         \* threads started, up to the call of on_success or on_error
    \* History, read by no action but for the bounds:
    confirmed,     \* <<where, thing>> the user was told of, and did not remove
                   \* (where: the identity, or the path the tab showed)
    deleted        \* the user deleted the identity, and enrolled it no more

desktopVars == <<tab, vault, keyring, package, disk, tasks, confirmed, deleted>>

-----------------------------------------------------------------------------
(* The runner *)

\* A button can be pressed: no busy window holds the grab.
Free == tasks = {}

\* run_in_background
Background(op, with) ==
    tasks' = tasks \cup {[op |-> op, with |-> with, end |-> "running",
                          poll |-> "waiting"]}
Becomes(t, now) == tasks' = (tasks \ {t}) \cup {now}

\* The work can be done: create_vault_file refuses an existing file, a vault
\* opens only if it can be read, and a locked service seals nothing.
Possible(t) ==
    /\ t.op = "create vault" => disk.vaults[t.with] = Missing
    /\ t.op = "unlock vault" => disk.vaults[t.with] = "whole"
    /\ t.op = "use vault" => t.with.open
    /\ t.op = "unlock keyring" => disk.keyring = "whole"

\* What the work leaves on disk.  A package is saved by on_success.
Done(t) ==
    CASE t.op = "create vault" -> [disk EXCEPT !.vaults[t.with] = "whole"]
      [] t.op = "create keyring" -> [disk EXCEPT !.keyring = "whole"]
      [] t.op = "enroll" -> [disk EXCEPT !.identity = {}]
      [] t.op = "attach" ->
            [disk EXCEPT !.identity = t.with.names \cup {t.with.name}]
      [] OTHER -> disk

\* A new keyring is written in place (tab_biometrics.py:185).
CutShort(t) ==
    IF t.op = "create keyring" THEN {[disk EXCEPT !.keyring = Damaged]} ELSE {}

StillDeleted(t) ==
    deleted' = (deleted /\ (t.op = "enroll" => disk'.identity = Nil))

Work(t) ==
    /\ t.end = "running" /\ Possible(t)
    /\ disk' = Done(t)
    /\ Becomes(t, [t EXCEPT !.end = "ok"])
    /\ StillDeleted(t)
    /\ UNCHANGED <<tab, vault, keyring, package, confirmed>>

\* It raises, before, while or after it changes the disk.
WorkFails(t) ==
    /\ t.end = "running"
    /\ disk' \in {disk} \cup CutShort(t)
                 \cup (IF Possible(t) THEN {Done(t)} ELSE {})
    /\ Becomes(t, [t EXCEPT !.end = "error"])
    /\ StillDeleted(t)
    /\ UNCHANGED <<tab, vault, keyring, package, confirmed>>

\* The 100 ms of after() are over.
Timer(t) ==
    /\ t.poll = "waiting"
    /\ Becomes(t, [t EXCEPT !.poll = "due"])
    /\ UNCHANGED <<tab, vault, keyring, package, disk, confirmed, deleted>>

\* Seeded fault: a poll that finds the queue empty is the last.
PollOnce(t) ==
    /\ t.poll = "due" /\ t.end = "running"
    /\ Becomes(t, [t EXCEPT !.poll = "never"])
    /\ UNCHANGED <<tab, vault, keyring, package, disk, confirmed, deleted>>

\* poll() finds the queue empty, and calls after() again.
Poll(t) ==
    /\ t.poll = "due" /\ t.end = "running"
    /\ Becomes(t, [t EXCEPT !.poll = "waiting"])
    /\ UNCHANGED <<tab, vault, keyring, package, disk, confirmed, deleted>>

\* poll() finds the result, closes the window and calls on_success or on_error.
Received(t, end) ==
    /\ t.poll = "due" /\ t.end = end
    /\ tasks' = tasks \ {t}

\* on_error, and the on_success that only shows a result.
JustShow(t) ==
    /\ Received(t, "error") \/ (t.op \in {"read identity", "demonstrate"} /\ Received(t, "ok"))
    /\ UNCHANGED <<tab, vault, keyring, package, disk, confirmed, deleted>>

-----------------------------------------------------------------------------
(* The vault tab *)

OnVault == tab = "vault" /\ UNCHANGED <<tab, keyring, package, confirmed, deleted>>

\* _refresh_list, _refresh_file_list for a tab with these fields: the vault of
\* the service or else of the path is listed; rows stay if it cannot be read.
Refreshed(v) ==
    LET listed == IF v.service # Nil THEN v.service.path ELSE v.path
    IN  [v EXCEPT !.rows =
           IF disk.vaults[listed] = "whole" THEN listed
           ELSE IF v.service = Nil /\ disk.vaults[listed] = Missing THEN Nil
           ELSE @]

\* Seeded fault: the service of the old vault stays.
ChooseVaultKeepingService(p) ==
    /\ OnVault /\ Free
    /\ vault' = Refreshed([vault EXCEPT !.path = p, !.label = "locked"])
    /\ UNCHANGED <<disk, tasks>>

\* _choose_path
ChooseVault(p) ==
    /\ OnVault /\ Free
    /\ vault' = Refreshed([vault EXCEPT !.path = p, !.service = Nil,
                                        !.label = "locked"])
    /\ UNCHANGED <<disk, tasks>>

\* _init_vault
InitVault ==
    /\ OnVault /\ Free /\ disk.vaults[vault.path] = Missing
    /\ Background("create vault", vault.path)
    /\ UNCHANGED <<vault, disk>>

\* _unlock
UnlockVault ==
    /\ OnVault /\ Free /\ disk.vaults[vault.path] # Missing
    /\ Background("unlock vault", vault.path)
    /\ UNCHANGED <<vault, disk>>

\* Their on_success: the service for the path that was captured.
VaultOpened(t) ==
    /\ OnVault /\ t.op \in {"create vault", "unlock vault"} /\ Received(t, "ok")
    /\ vault' = Refreshed([vault EXCEPT !.service = [path |-> t.with, open |-> TRUE],
                                        !.label = "unlocked"])
    /\ UNCHANGED disk

\* _lock keeps the service, which forgets its key.
LockVault ==
    /\ OnVault /\ Free
    /\ vault' = [vault EXCEPT !.label = "locked",
                   !.service = IF @ = Nil THEN Nil ELSE [@ EXCEPT !.open = FALSE]]
    /\ UNCHANGED <<disk, tasks>>

\* New Record, View, Encrypt Selected, Decrypt Selected: any service will do.
UseVault ==
    /\ OnVault /\ Free /\ vault.service # Nil
    /\ Background("use vault", vault.service)
    /\ UNCHANGED <<vault, disk>>

\* Of these only New Record lists the records again.
VaultUsed(t) ==
    /\ OnVault /\ t.op = "use vault" /\ Received(t, "ok")
    /\ vault' \in {vault, Refreshed(vault)}
    /\ UNCHANGED disk

\* Refresh; _delete_selected, which needs a service, locked or not, ends in it.
RefreshVault ==
    /\ OnVault /\ Free
    /\ vault' = Refreshed(vault)
    /\ UNCHANGED <<disk, tasks>>

-----------------------------------------------------------------------------
(* The biometrics tab *)

OnBiometrics == tab = "biometrics" /\ UNCHANGED <<tab, vault, package>>
Unlocked == keyring.state = "unlocked"

\* _ensure_keyring.  A file that cannot be parsed raises in the handler.
UnlockKeyring ==
    /\ OnBiometrics /\ Free /\ ~Unlocked /\ disk.keyring = "whole"
    /\ Background("unlock keyring", Nil)
    /\ UNCHANGED <<keyring, disk, confirmed, deleted>>

CreateKeyring ==
    /\ OnBiometrics /\ Free /\ ~Unlocked /\ disk.keyring = Missing
    /\ Background("create keyring", Nil)
    /\ UNCHANGED <<keyring, disk, confirmed, deleted>>

KeyringOpened(t) ==
    /\ OnBiometrics
    /\ t.op \in {"create keyring", "unlock keyring"} /\ Received(t, "ok")
    /\ keyring' = [state |-> "unlocked", label |-> "unlocked"]
    /\ UNCHANGED <<disk, confirmed, deleted>>

\* _lock
LockKeyring ==
    /\ OnBiometrics /\ Free
    /\ keyring' = [state |-> IF keyring.state = "none" THEN "none" ELSE "locked",
                   label |-> "locked"]
    /\ UNCHANGED <<disk, tasks, confirmed, deleted>>

\* _enroll captures the master key; the work saves the record.
Enroll ==
    /\ OnBiometrics /\ Free /\ Unlocked /\ disk.identity = Nil
    /\ Background("enroll", Nil)
    /\ UNCHANGED <<keyring, disk, confirmed, deleted>>

\* _attach_selected_paths captures the record, too; the work saves it whole.
Attach(name) ==
    /\ OnBiometrics /\ Free /\ Unlocked /\ disk.identity # Nil
    /\ Background("attach", [names |-> disk.identity, name |-> name])
    /\ UNCHANGED <<keyring, disk, confirmed, deleted>>

\* Their on_success: the user is told.
Saved(t) ==
    /\ OnBiometrics /\ t.op \in {"enroll", "attach"} /\ Received(t, "ok")
    /\ confirmed' = IF t.op = "attach"
                    THEN confirmed \cup {<<Identity, t.with.name>>} ELSE confirmed
    /\ UNCHANGED <<keyring, disk, deleted>>

\* _verify, _extract_selected_attachment
ReadIdentity ==
    /\ OnBiometrics /\ Free /\ Unlocked /\ disk.identity # Nil
    /\ Background("read identity", Nil)
    /\ UNCHANGED <<keyring, disk, confirmed, deleted>>

\* _remove_selected_attachment, on the main thread.  What this tab attaches is
\* a bundle, and the key is needed to tell its parts.
RemoveAttachment(name) ==
    /\ OnBiometrics /\ Free /\ Unlocked /\ disk.identity # Nil
    /\ name \in disk.identity
    /\ disk' = [disk EXCEPT !.identity = @ \ {name}]
    /\ confirmed' = confirmed \ {<<Identity, name>>}
    /\ UNCHANGED <<keyring, tasks, deleted>>

\* _delete_selected, on the main thread.
DeleteIdentity ==
    /\ OnBiometrics /\ Free /\ disk.identity # Nil
    /\ disk' = [disk EXCEPT !.identity = Nil]
    /\ confirmed' = {} /\ deleted' = TRUE
    /\ UNCHANGED <<keyring, tasks>>

-----------------------------------------------------------------------------
(* The packages tab *)

OnPackages == tab = "packages" /\ UNCHANGED <<tab, vault, keyring, deleted>>

\* Seeded fault: what is in the file is not looked at.
LoadedAsIs(f) == disk.packages[f]

\* The state after _load_state: that of a file that is there and passes
\* validate_package.  Neither UnicodeDecodeError (the file is not text) nor
\* KeyError (its custody chain is of records that lack a field) is caught, so
\* they leave state and tree as they were (tab_packages.py:93).
Loaded(f) ==
    CASE disk.packages[f] \in Package -> disk.packages[f]
      [] disk.packages[f] = Foreign -> package.state
      [] OTHER -> Nil

\* Seeded fault: no file that cannot be loaded clears the state.
ChooseKeepingState(f) ==
    /\ OnPackages /\ Free
    /\ package' = [path |-> f,
                   state |-> IF Loaded(f) = Nil THEN package.state ELSE Loaded(f)]
    /\ UNCHANGED <<disk, tasks, confirmed>>

\* _choose_path sets path and label before _load_state.
ChoosePackage(f) ==
    /\ OnPackages /\ Free
    /\ package' = [path |-> f, state |-> Loaded(f)]
    /\ UNCHANGED <<disk, tasks, confirmed>>

\* _create_package: the path it captures is not used again.
CreatePackage ==
    /\ OnPackages /\ Free /\ package.path # Nil
    /\ disk.packages[package.path] = Missing
    /\ Background("package", [home |-> package.path, done |-> {}])
    /\ UNCHANGED <<package, disk, confirmed>>

\* _add_recipient, _remove_recipient, _open_package, each a change.
ChangePackage(change) ==
    /\ OnPackages /\ Free /\ package.state # Nil
    /\ change \notin package.state.done
    /\ Background("package", [package.state EXCEPT !.done = @ \cup {change}])
    /\ UNCHANGED <<package, disk, confirmed>>

\* Their on_success: self.state, then _save_state to the path chosen now.
PackageSaved(t) ==
    /\ OnPackages /\ t.op = "package" /\ Received(t, "ok")
    /\ package' = [package EXCEPT !.state = t.with]
    /\ disk' = [disk EXCEPT !.packages[package.path] = t.with]
    /\ confirmed' = confirmed \cup {<<package.path, c>> : c \in t.with.done}

\* The file cannot be opened, or is truncated and not filled: the callback
\* raises once self.state is set, and tells the user nothing.
PackageNotSaved(t, truncated) ==
    /\ OnPackages /\ t.op = "package" /\ Received(t, "ok")
    /\ package' = [package EXCEPT !.state = t.with]
    /\ disk' = IF truncated THEN [disk EXCEPT !.packages[package.path] = Damaged]
               ELSE disk
    /\ UNCHANGED confirmed

-----------------------------------------------------------------------------

\* Make Samples and the demonstrations: work from nothing, shown at the end.
Demonstrate ==
    /\ tab \in {"biometrics", "packages"} /\ Free
    /\ Background("demonstrate", Nil)
    /\ UNCHANGED <<tab, vault, keyring, package, disk, confirmed, deleted>>

\* A new process, with nothing opened; VaultTab lists its default vault.
NewVaultTab(onDisk) ==
    [path |-> DefaultVault, service |-> Nil, label |-> "locked",
     rows |-> IF onDisk[DefaultVault] = "whole" THEN DefaultVault ELSE Nil]

\* The window is closed, which ends the process and its threads (daemon=True)
\* wherever they are, and opened again.
Restart ==
    /\ disk' \in {disk} \cup UNION {CutShort(t) : t \in {u \in tasks : u.end = "running"}}
    /\ vault' = NewVaultTab(disk'.vaults)
    /\ keyring' = [state |-> "none", label |-> "locked"]
    /\ package' = [path |-> Nil, state |-> Nil]
    /\ tasks' = {}
    /\ UNCHANGED <<tab, confirmed, deleted>>

DesktopInit ==
    /\ tab \in {"vault", "biometrics", "packages"}
    /\ \E files \in [Vaults -> IF tab = "vault" THEN File ELSE {Missing}] :
          /\ disk = [vaults |-> files, keyring |-> Missing, identity |-> Nil,
                     packages |-> [f \in Files |-> IF f \in Odd THEN Foreign
                                                    ELSE Missing]]
          /\ vault = NewVaultTab(files)
    /\ keyring = [state |-> "none", label |-> "locked"]
    /\ package = [path |-> Nil, state |-> Nil]
    /\ tasks = {} /\ confirmed = {} /\ deleted = FALSE

Handler ==
    \/ \E p \in Vaults : ChooseVault(p)
    \/ InitVault \/ UnlockVault \/ LockVault \/ UseVault \/ RefreshVault
    \/ UnlockKeyring \/ CreateKeyring \/ LockKeyring
    \/ Enroll \/ ReadIdentity \/ DeleteIdentity
    \/ \E n \in Things : Attach(n) \/ RemoveAttachment(n) \/ ChangePackage(n)
    \/ \E f \in Files : ChoosePackage(f)
    \/ CreatePackage \/ Demonstrate

Ends(t) == Work(t) \/ WorkFails(t)
Delivered(t) ==
    \/ JustShow(t) \/ VaultOpened(t) \/ VaultUsed(t) \/ KeyringOpened(t) \/ Saved(t)
    \/ PackageSaved(t) \/ \E truncated \in BOOLEAN : PackageNotSaved(t, truncated)
MainLoop(t) == Timer(t) \/ Poll(t) \/ Delivered(t)

DesktopNext ==
    \/ Handler \/ Restart
    \/ \E t \in tasks : Ends(t) \/ MainLoop(t)

\* Work ends, and the main loop runs what is due: prompts and viewers nest
\* loops of their own.
Fairness ==
    /\ WF_desktopVars(\E t \in tasks : Ends(t))
    /\ WF_desktopVars(\E t \in tasks : MainLoop(t))

DesktopSpec == DesktopInit /\ [][DesktopNext]_desktopVars /\ Fairness
-----------------------------------------------------------------------------
(* Properties *)

Operation ==
    [op : {"create vault", "unlock vault"}, with : Vaults]
      \cup [op : {"use vault"}, with : Service]
      \cup [op : {"create keyring", "unlock keyring", "enroll", "read identity",
                   "demonstrate"}, with : {Nil}]
      \cup [op : {"attach"}, with : [names : SUBSET Things, name : Things]]
      \cup [op : {"package"}, with : Package]

VaultFields == [path : Vaults, service : Service \cup {Nil},
                label : {"locked", "unlocked"}, rows : Vaults \cup {Nil}]
KeyringFields == [state : {"none", "locked", "unlocked"},
                  label : {"locked", "unlocked"}]
PackageFields == [path : Files \cup {Nil}, state : Package \cup {Nil}]
Disk == [vaults : [Vaults -> File], keyring : File,
         identity : (SUBSET Things) \cup {Nil},
         packages : [Files -> Package \cup {Missing, Damaged, Foreign}]]

TypeOK ==
    /\ tab \in {"vault", "biometrics", "packages"}
    /\ vault \in VaultFields /\ keyring \in KeyringFields
    /\ package \in PackageFields /\ disk \in Disk
    /\ \A t \in tasks :
          /\ [op |-> t.op, with |-> t.with] \in Operation
          /\ t.end \in {"running", "ok", "error"}
          /\ t.poll \in {"waiting", "due", "never"}
    /\ confirmed \subseteq (Files \cup {Identity}) \X Things
    /\ deleted \in BOOLEAN

\* A result is applied, long after the button was pressed, to whatever the tab
\* shows then: the service on_success installs and the rows a button works on
\* must be those of the vault that is displayed, the package in memory the one
\* created at the path that is displayed, and "locked" be said exactly when the
\* tab holds no key, and then no thread works with one either, but for one that
\* is unlocking (tab_vault.py:157-161, tab_biometrics.py:163-165).  The package
\* of the path chosen before stays when what is at the path is neither a package
\* nor a file that _load_state knows it cannot read.
TabsTellTheTruth ==
    /\ vault.service # Nil => vault.service.path = vault.path
                               /\ vault.rows = vault.path
    /\ vault.label = "unlocked" <=> (vault.service # Nil /\ vault.service.open)
    /\ keyring.label = "unlocked" <=> Unlocked
    /\ package.state # Nil /\ package.path \notin Odd
          => package.state.home = package.path
    /\ \A t \in tasks :
          /\ t.op = "use vault" /\ t.with.open => vault.label = "unlocked"
          /\ t.op \in {"enroll", "attach", "read identity"}
                => keyring.label = "unlocked"

\* Attachments and package changes start from what a handler captured and end
\* in a whole rewrite.  What the user was told was done stays done until he
\* removes it, an identity he deleted does not come back, and no package is
\* saved over that of another path, across restarts, changed choices and failed
\* work.  There are two exceptions.  A save that fails half way leaves nothing of
\* the file (tab_packages.py:102 opens it with "w"), and all of it then is in the
\* tab alone, until the tab gives it up.  And where something else was, the
\* package of the path chosen before may be saved over it (Loaded).
NothingConfirmedIsLost ==
    /\ \A c \in confirmed :
          IF c[1] = Identity
          THEN disk.identity # Nil /\ c[2] \in disk.identity
          ELSE \/ /\ disk.packages[c[1]] \in Package
                  /\ c[2] \in disk.packages[c[1]].done
               \/ /\ disk.packages[c[1]] = Damaged
                  /\ package.path = c[1] /\ package.state # Nil
                        => c[2] \in package.state.done
    /\ deleted => disk.identity = Nil
    /\ \A f \in Files \ Odd :
          disk.packages[f] \in Package => disk.packages[f].home = f

\* The busy window, which the user cannot close, goes away: whatever a thread
\* ends with is delivered, however often the poll came too early (busy.py:74).
BusyEnds == tasks # {} ~> Free
=============================================================================
