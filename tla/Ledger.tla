-------------------------------- MODULE Ledger --------------------------------
(***************************************************************************)
(* The integrity ledger (common/integrity_ledger.py): a hash chain of      *)
(* checkpoints in one file, rewritten whole by every checkpoint through    *)
(* common/atomic_io.py, which is modelled step by step: temporary file,    *)
(* fsync, rename, fsync of the directory.  Checkpoints are processes begun *)
(* by hand or by a scheduler; any of them may be killed, and the power may *)
(* fail, between any two steps.                                            *)
(***************************************************************************)
EXTENDS Naturals, SequencesExt

CONSTANTS
    Process,        \* runs of tools/integrity_checkpoint.py, by their label
    Target,         \* files that are checkpointed
    Digest,         \* SHA-256 and size of what they may hold
    Missing,        \* no file
    Torn,           \* a ledger file that was never flushed: it does not parse
    MaxTime,        \* bound: clock
    MaxEntries      \* bound: entries a checkpoint begins from

ASSUME MissingAssumption == Missing \notin Digest
ASSUME BoundAssumption == MaxTime \in Nat /\ MaxEntries \in Nat

VARIABLES
    held,       \* what each target holds now
    now,        \* the clock, in seconds
    ledger,     \* the ledger file as every process sees it; << >> is also no file
    onDisk,     \* the ledgers a power failure may leave
    run,        \* the checkpoint each process is in
    schedule,   \* history: whether checkpoints are kept from overlapping
    secured     \* history: the ledger at the last flush of its directory

vars == <<held, now, ledger, onDisk, run, schedule, secured>>
-----------------------------------------------------------------------------
(* Hash chain.  SHA-256 has no collisions here: the hash of an entry is    *)
(* everything it covers, the bodies of the entry and of all before it.     *)

Body == [target : Target, digest : Digest, label : Process, at : 0..MaxTime]
Genesis == << >>
EntryHash(previous, body) == Append(previous, body)

Entry == [previous : Seq(Body), body : Body, hash : Seq(Body)]
NewEntry(previous, body) ==
    [previous |-> previous, body |-> body, hash |-> EntryHash(previous, body)]

ASSUME TornAssumption == Torn \notin Seq(Entry)

LastHash(entries) == IF entries = << >> THEN Genesis ELSE Last(entries).hash
Extended(entries, body) == Append(entries, NewEntry(LastHash(entries), body))

VerifyLedger(text) ==
    /\ text # Torn
    /\ \A i \in DOMAIN text :
        /\ text[i].previous = IF i = 1 THEN Genesis ELSE text[i - 1].hash
        /\ text[i].hash = EntryHash(text[i].previous, text[i].body)
-----------------------------------------------------------------------------
(* entries is the state in memory; temp, the temporary file that holds it. *)

NoBody == [target |-> Missing, digest |-> Missing]
Run == [pc : {"idle", "inspected", "loaded", "stamped", "written", "synced", "replaced"},
        seen : [target : Target, digest : Digest] \cup {NoBody},
        entries : Seq(Entry),
        temp : {"none", "dirty", "flushed"},
        outcome : {"none", "recorded", "failed"}]
NotRun == [pc |-> "idle", seen |-> NoBody, entries |-> << >>,
           temp |-> "none", outcome |-> "none"]

Init ==
    /\ held \in [Target -> Digest]
    /\ now = 0
    /\ ledger = << >>
    /\ onDisk = {<< >>}
    /\ run = [w \in Process |-> NotRun]
    /\ schedule \in {"exclusive", "overlapping"}
    /\ secured = << >>

\* The tool prints a result, or an error that ends it.
Fails(w) ==
    run' = [run EXCEPT ![w].pc = "idle", ![w].temp = "none", ![w].outcome = "failed"]

\* append_checkpoint begins with the target: is_file, digest and size.
Inspect(w, t) ==
    /\ run[w].pc = "idle"
    /\ schedule = "exclusive" => \A v \in Process : run[v].pc = "idle"
    /\ Len(ledger) < MaxEntries
    /\ \/ /\ held[t] # Missing
          /\ run' = [run EXCEPT ![w] = [NotRun EXCEPT
                        !.pc = "inspected",
                        !.seen = [target |-> t, digest |-> held[t]]]]
       \/ run' = [run EXCEPT ![w] = [NotRun EXCEPT !.outcome = "failed"]]
    /\ UNCHANGED <<held, now, ledger, onDisk, schedule, secured>>

\* Seeded fault: a ledger that cannot be read is taken for a new one.
LoadOrBeginAnew(w) ==
    /\ run[w].pc = "inspected"
    /\ \E text \in {ledger, << >>} :
          run' = [run EXCEPT ![w].pc = "loaded", ![w].entries = text]
    /\ UNCHANGED <<held, now, ledger, onDisk, schedule, secured>>

\* A ledger that does not parse, or cannot be read, ends the checkpoint.
Load(w) ==
    /\ run[w].pc = "inspected"
    /\ \/ /\ ledger # Torn
          /\ run' = [run EXCEPT ![w].pc = "loaded", ![w].entries = ledger]
       \/ Fails(w)
    /\ UNCHANGED <<held, now, ledger, onDisk, schedule, secured>>

Stamped(w) ==
    [target |-> run[w].seen.target, digest |-> run[w].seen.digest,
     label |-> w, at |-> now]

Stamp(w) ==
    /\ run[w].pc = "loaded"
    /\ run' = [run EXCEPT ![w].pc = "stamped",
                          ![w].entries = Extended(@, Stamped(w))]
    /\ UNCHANGED <<held, now, ledger, onDisk, schedule, secured>>

\* The temporary file is opened and written, then flushed and fsynced.  An
\* OSError on the way removes it.
WriteTemp(w) ==
    /\ run[w].pc = "stamped"
    /\ \/ run' = [run EXCEPT ![w].pc = "written", ![w].temp = "dirty"]
       \/ Fails(w)
    /\ UNCHANGED <<held, now, ledger, onDisk, schedule, secured>>

\* Seeded fault: the temporary file is closed but not fsynced.
CloseTemp(w) ==
    /\ run[w].pc = "written"
    /\ run' = [run EXCEPT ![w].pc = "synced"]
    /\ UNCHANGED <<held, now, ledger, onDisk, schedule, secured>>

SyncTemp(w) ==
    /\ run[w].pc = "written"
    /\ \/ run' = [run EXCEPT ![w].pc = "synced", ![w].temp = "flushed"]
       \/ Fails(w)
    /\ UNCHANGED <<held, now, ledger, onDisk, schedule, secured>>

\* Seeded fault: the new entry is moved onto what the ledger holds by now.
ReplaceRebased(w) ==
    /\ run[w].pc = "synced"
    /\ ledger' = Extended(ledger, Last(run[w].entries).body)
    /\ onDisk' = onDisk \cup {ledger'}
    /\ run' = [run EXCEPT ![w].pc = "replaced", ![w].temp = "none"]
    /\ UNCHANGED <<held, now, schedule, secured>>

\* os.replace: at once for every reader; on disk, when the directory is
\* written, and then with the bytes that reached the disk.
Replace(w) ==
    /\ run[w].pc = "synced"
    /\ \/ /\ ledger' = run[w].entries
          /\ onDisk' = onDisk \cup
                {IF run[w].temp = "flushed" THEN run[w].entries ELSE Torn}
          /\ run' = [run EXCEPT ![w].pc = "replaced", ![w].temp = "none"]
       \/ Fails(w) /\ UNCHANGED <<ledger, onDisk>>
    /\ UNCHANGED <<held, now, schedule, secured>>

\* Seeded fault: an error of the last flush is reported.
FlushOrFail(w) ==
    /\ run[w].pc = "replaced"
    /\ \/ /\ run' = [run EXCEPT ![w].pc = "idle", ![w].outcome = "recorded"]
          /\ onDisk' = {ledger} /\ secured' = ledger
       \/ Fails(w) /\ UNCHANGED <<onDisk, secured>>
    /\ UNCHANGED <<held, now, ledger, schedule>>

\* _flush_directory swallows its errors: the checkpoint has succeeded.
FlushDirectory(w) ==
    /\ run[w].pc = "replaced"
    /\ run' = [run EXCEPT ![w].pc = "idle", ![w].outcome = "recorded"]
    /\ \/ onDisk' = {ledger} /\ secured' = ledger
       \/ UNCHANGED <<onDisk, secured>>
    /\ UNCHANGED <<held, now, ledger, schedule>>
-----------------------------------------------------------------------------
(* What happens around the checkpoints.                                    *)

TargetChanges(t, d) ==
    /\ held' = [held EXCEPT ![t] = d]
    /\ UNCHANGED <<now, ledger, onDisk, run, schedule, secured>>

Tick ==
    /\ now < MaxTime
    /\ now' = now + 1
    /\ UNCHANGED <<held, ledger, onDisk, run, schedule, secured>>

\* The temporary file stays behind; its name is never drawn again.
Kill(w) ==
    /\ run[w].pc # "idle"
    /\ run' = [run EXCEPT ![w] = NotRun]
    /\ UNCHANGED <<held, now, ledger, onDisk, schedule, secured>>

PowerFailure ==
    /\ \E text \in onDisk : ledger' = text /\ onDisk' = {text}
    /\ run' = [w \in Process |-> IF run[w].pc = "idle" THEN run[w] ELSE NotRun]
    /\ UNCHANGED <<held, now, schedule, secured>>

Next ==
    \/ \E w \in Process : \/ \E t \in Target : Inspect(w, t)
                          \/ Load(w) \/ Stamp(w) \/ WriteTemp(w) \/ SyncTemp(w)
                          \/ Replace(w) \/ FlushDirectory(w) \/ Kill(w)
    \/ \E t \in Target, d \in Digest \cup {Missing} : TargetChanges(t, d)
    \/ Tick
    \/ PowerFailure

Spec == Init /\ [][Next]_vars
-----------------------------------------------------------------------------
TypeOK ==
    /\ held \in [Target -> Digest \cup {Missing}]
    /\ now \in 0..MaxTime
    /\ ledger \in Seq(Entry) \cup {Torn}
    /\ \A text \in onDisk : text \in Seq(Entry) \cup {Torn}
    /\ run \in [Process -> Run]
    /\ schedule \in {"exclusive", "overlapping"}
    /\ secured \in Seq(Entry)

\* What a reader finds in the ledger file, now or after a power failure.
Readable == onDisk \cup {ledger}

\* However checkpoints overlap, are killed or lose power, the ledger that a
\* reader finds parses and passes verify_ledger: no write leaves half a file
\* or a broken chain (integrity_ledger.py:89-92).
AlwaysVerifies == \A text \in Readable : VerifyLedger(text)

\* The entries of a ledger are in the order of their recorded_at, even those of
\* overlapping checkpoints, as a checkpoint reads the clock after the ledger.
HistoryInOrder ==
    \A text \in Readable \ {Torn} :
        \A i, j \in DOMAIN text : i < j => text[i].body.at <= text[j].body.at

\* A checkpoint that ended in an error is in no ledger, now or after a power
\* failure: once the rename is done, nothing that fails is reported.
FailedAddsNothing ==
    \A w \in Process : run[w].outcome = "failed" /\ run[w].entries # << >> =>
        \A text \in Readable \ {Torn} :
            \A i \in DOMAIN text : text[i] # Last(run[w].entries)

\* While checkpoints do not overlap, the ledger only grows: what it held when its
\* directory was last flushed stays at its beginning, through kills and power
\* failures.  (Overlapping checkpoints overwrite each other's entries.)
SecuredStays ==
    schedule = "exclusive" => \A text \in Readable : IsPrefix(secured, text)
=============================================================================
