---------------------------- MODULE KeyringAccess ----------------------------
(***************************************************************************)
(* The keyring of the biometrics tools, data/keyring.json, used by         *)
(* overlapping processes: created by the first command that misses it      *)
(* (biometrics/app.py; gui/tabs/tab_biometrics.py writes it in place) and  *)
(* unlocked through biometrics/identity/keyring_access.py, which keeps the *)
(* throttle of AttemptLimiter in the same file.                            *)
(*                                                                         *)
(* An unlock reads the file twice: a Keyring is built from it before the   *)
(* passphrase is asked for, and the throttle is read after that; then      *)
(* follow some seventy seconds of derivation, and what was read the second *)
(* time is written back with the new throttle.  The clock may step back.   *)
(***************************************************************************)
EXTENDS AttemptLimiter, FiniteSets

CONSTANTS
    Commands,      \* processes of the command line
    Desktops,      \* GUI processes
    Keys,          \* master keys a keyring may be created with
    MaxClock,      \* bound: the latest time of the clock
    MaxFailures,   \* bound: failures on file, and in a row
    Missing,       \* keyring.json does not exist
    Broken,        \* keyring.json is truncated
    None

Process == Commands \cup Desktops

VARIABLES
    file,          \* keyring.json
    clock,         \* time.time()
    proc,          \* what each process is at
    held,          \* the master key a process works with
    \* History, read by no action but for the bounds:
    latest,        \* the latest time the clock has shown
    minted,        \* keys of all keyrings that were created
    shown,         \* keys whose recovery code was shown to the user
    failures,      \* failures reported since the last success or creation
    failedAt,      \* when the last of them was reported
    overlapped     \* which calls have overlapped another of their kind

vars == <<file, clock, proc, held, latest, minted, shown, failures, failedAt,
          overlapped>>

\* keyring.json: a recovery code opens its key and no other.
KeyringFile == [key : Keys, attempts : Attempts]
Exists == file # Missing
Readable == file \in KeyringFile

ASSUME NoneAssumption == None \notin Keys /\ {None, Missing, Broken} \cap KeyringFile = {}
ASSUME BoundsAssumption == MaxClock \in Nat /\ MaxFailures \in Nat

\* opened: what the Keyring object was built from; raw: what the throttle was
\* read from; linked: the file being filled is still that of the path.
Idle == [pc |-> "idle", opened |-> None, raw |-> None, key |-> None,
         linked |-> FALSE]
At(pc) == {p \in Process : proc[p].pc = pc}

Go(p, now) == proc' = [proc EXCEPT ![p] = now]
Hold(p, key) == held' = [held EXCEPT ![p] = key]

Init ==
    /\ file = Missing /\ clock = 0 /\ latest = 0
    /\ proc = [p \in Process |-> Idle] /\ held = [p \in Process |-> None]
    /\ minted = {} /\ shown = {} /\ failures = 0 /\ failedAt = 0
    /\ overlapped = {}

-----------------------------------------------------------------------------
(* The creation *)

\* Seeded fault: the keyring is created without a look for an existing one.
BeginCreateBlindly(p) ==
    /\ proc[p].pc = "idle" /\ held[p] = None
    /\ Go(p, [Idle EXCEPT !.pc = "creating"])
    /\ overlapped' = IF At("creating") \cup At("filling") = {} THEN overlapped
                     ELSE overlapped \cup {"create"}
    /\ UNCHANGED <<file, clock, held, latest, minted, shown, failures, failedAt>>

\* There is no keyring: ask for a new passphrase.
BeginCreate(p) ==
    /\ proc[p].pc = "idle" /\ held[p] = None
    /\ ~Exists
    /\ Go(p, [Idle EXCEPT !.pc = "creating"])
    /\ overlapped' = IF At("creating") \cup At("filling") = {} THEN overlapped
                     ELSE overlapped \cup {"create"}
    /\ UNCHANGED <<file, clock, held, latest, minted, shown, failures, failedAt>>

\* A keyring file that was replaced whole: a file still open is not it.
Replace(p, content) ==
    /\ file' = content
    /\ proc' = [q \in Process |->
                  IF q = p THEN Idle ELSE [proc[q] EXCEPT !.linked = FALSE]]

\* Keyring.create and the atomic write of the command line, which then prints
\* the recovery code.
CreateByCommand(p) ==
    /\ p \in Commands /\ proc[p].pc = "creating"
    /\ \E key \in Keys \ minted :
          /\ Replace(p, [key |-> key, attempts |-> NewAttempts])
          /\ minted' = minted \cup {key} /\ shown' = shown \cup {key}
          /\ Hold(p, key)
    /\ failures' = 0
    /\ UNCHANGED <<clock, latest, failedAt, overlapped>>

\* The GUI opens the file for writing, which truncates it ...
TruncateByDesktop(p) ==
    /\ p \in Desktops /\ proc[p].pc = "creating"
    /\ \E key \in Keys \ minted :
          /\ Go(p, [Idle EXCEPT !.pc = "filling", !.key = key, !.linked = TRUE])
          /\ minted' = minted \cup {key}
    /\ file' = Broken
    /\ UNCHANGED <<clock, held, latest, shown, failures, failedAt, overlapped>>

\* ... writes it, and shows the code.
FillByDesktop(p) ==
    /\ proc[p].pc = "filling"
    /\ file' = IF proc[p].linked
               THEN [key |-> proc[p].key, attempts |-> NewAttempts] ELSE file
    /\ failures' = IF proc[p].linked THEN 0 ELSE failures
    /\ Go(p, Idle) /\ Hold(p, proc[p].key)
    /\ shown' = shown \cup {proc[p].key}
    /\ UNCHANGED <<clock, latest, minted, failedAt, overlapped>>

-----------------------------------------------------------------------------
(* The unlock *)

\* Keyring(json.load(...)), before the prompt.  A broken file is an error.
Open(p) ==
    /\ proc[p].pc = "idle" /\ held[p] = None
    /\ Readable
    /\ Go(p, [Idle EXCEPT !.pc = "opened", !.opened = file])
    /\ UNCHANGED <<file, clock, held, latest, minted, shown, failures, failedAt,
                   overlapped>>

\* Seeded fault: the throttle is that of the first reading.
BeginUnlockFromMemory(p) ==
    /\ proc[p].pc = "opened" /\ Readable
    /\ MayAttempt(proc[p].opened.attempts, clock)
    /\ Go(p, [proc[p] EXCEPT !.pc = "deriving", !.raw = proc[p].opened])
    /\ overlapped' = IF At("deriving") = {} THEN overlapped
                     ELSE overlapped \cup {"attempt"}
    /\ UNCHANGED <<file, clock, held, latest, minted, shown, failures, failedAt>>

\* unlock_with_passphrase up to the derivation: _read_raw_state and
\* check_and_get_state.
BeginUnlock(p) ==
    /\ proc[p].pc = "opened" /\ Readable
    /\ MayAttempt(file.attempts, clock)
    /\ Go(p, [proc[p] EXCEPT !.pc = "deriving", !.raw = file])
    /\ overlapped' = IF At("deriving") = {} THEN overlapped
                     ELSE overlapped \cup {"attempt"}
    /\ UNCHANGED <<file, clock, held, latest, minted, shown, failures, failedAt>>

\* The passphrase is wrong.
UnlockFails(p) ==
    /\ proc[p].pc = "deriving"
    /\ Greatest(failures, proc[p].raw.attempts.failed) < MaxFailures
    /\ Replace(p, [proc[p].raw EXCEPT !.attempts = RecordFailure(@, clock)])
    /\ failures' = failures + 1 /\ failedAt' = clock
    /\ UNCHANGED <<clock, held, latest, minted, shown, overlapped>>

\* It is right, for the keyring of the first reading.
UnlockSucceeds(p) ==
    /\ proc[p].pc = "deriving"
    /\ Replace(p, [proc[p].raw EXCEPT !.attempts = RecordSuccess(@)])
    /\ Hold(p, proc[p].opened.key)
    /\ failures' = 0
    /\ UNCHANGED <<clock, latest, minted, shown, failedAt, overlapped>>

-----------------------------------------------------------------------------

\* A cancelled prompt, an attempt refused, a write that fails, or the end of
\* the process, at any point of a call.
Abandon(p) ==
    /\ proc[p].pc # "idle"
    /\ Go(p, Idle)
    /\ UNCHANGED <<file, clock, held, latest, minted, shown, failures, failedAt,
                   overlapped>>

\* The command ends, or the GUI locks its keyring or ends.
Release(p) ==
    /\ held[p] # None /\ proc[p].pc = "idle"
    /\ Hold(p, None)
    /\ UNCHANGED <<file, clock, proc, latest, minted, shown, failures, failedAt,
                   overlapped>>

\* The wall clock goes on, or is set back.
SetClock(t) ==
    /\ t = clock + 1 \/ t < clock
    /\ clock' = t /\ latest' = Greatest(latest, t)
    /\ UNCHANGED <<file, proc, held, minted, shown, failures, failedAt,
                   overlapped>>

Next ==
    \/ \E p \in Process :
          \/ BeginCreate(p) \/ CreateByCommand(p)
          \/ TruncateByDesktop(p) \/ FillByDesktop(p)
          \/ Open(p) \/ BeginUnlock(p) \/ UnlockFails(p) \/ UnlockSucceeds(p)
          \/ Abandon(p) \/ Release(p)
    \/ \E t \in 0..MaxClock : SetClock(t)

Spec == Init /\ [][Next]_vars

-----------------------------------------------------------------------------
(* Properties *)

\* The write-back of a file that was read long ago (keyring_access.py:112)
\* never brings back another keyring: unless two creations overlapped, every
\* recovery code a user was shown, "the only chance the operator has to see
\* it" (biometrics/app.py:70), and every key a process works with is that of
\* the file, however unlocks overlap and wherever a process ends.
ShownCodesOpen ==
    "create" \notin overlapped =>
        \A key \in shown \cup ({held[p] : p \in Process} \ {None}) :
            Readable /\ file.key = key

\* The throttle is the same for both interfaces and not to be got round by a
\* Keyring that was opened long before: a derivation begins only when the
\* whole wait for all failures reported since the last success is over, as
\* long as derivations do not overlap ("a check always reflects the most
\* recently persisted failure", keyring_access.py:64).
AttemptsSpaced ==
    [][overlapped' = {} =>
         \A p \in Process :
            proc[p].pc = "opened" /\ proc'[p].pc = "deriving" =>
                /\ clock >= failedAt + RequiredDelay(failures)
                      \/ RequiredDelay(failures) = 0
                /\ failures >= MaxAttempts => clock >= failedAt + LockoutSeconds
      ]_vars

\* A clock that steps back lengthens a wait, but no later than LongestWait
\* past the latest time it has shown the owner gets another attempt, whatever
\* was overlapped or lost.
OwnerGetsAnotherTry ==
    Readable => MayAttempt(file.attempts, latest + LongestWait)
=============================================================================
