-------------------------------- MODULE Vault --------------------------------
(***************************************************************************)
(* One vault file and the processes that work on it.  A session is one     *)
(* VaultService object: the Vault CLI builds one per command, the GUI one  *)
(* per unlocked tab.  Nothing locks the file, so an operation is the       *)
(* sequence of its reads and writes of vault.json, and the steps of        *)
(* different sessions interleave.  A slow key derivation (about 70 s)      *)
(* stands between the first read and the write of unlock() and create().   *)
(* A write is one step: see common/atomic_io.py.                           *)
(***************************************************************************)
EXTENDS AttemptLimiter, FiniteSets, Sequences

CONSTANTS
    Session,
    Passphrase, Code, Key,  \* secrets users choose; random ones of the code
    RecordId, Label, Kind, Payload,
    Request,                \* the [id, label, kind, payload, bytes] of callers
    Batch,                  \* the sequences of Request that callers submit
    None,                   \* Python's None: no file, no key, no record
    AuditDir,               \* whether an audit directory is configured
    Menu,                   \* the operations callers use; "fail": calls may raise
    Concurrency,            \* bound: operations under way at once
    MaxTime, MaxFaults, MaxMisses, MaxAudits
                            \* bounds: clock, faults, failed unlocks in a row,
                            \* events of a kind

Wrapper == {"passphrase", "recovery"}
Secret == Passphrase \cup Code

ASSUME ConstantsAssumption ==
    /\ IsFiniteSet(Session)
    /\ Passphrase \cap Code = {}
    /\ Request \subseteq [id : RecordId, label : Label, kind : Kind,
                          payload : Payload, bytes : BOOLEAN]
    /\ Batch \subseteq Seq(Request)
    /\ None \notin Key \cup Secret \cup Payload \cup RecordId
    /\ AuditDir \in BOOLEAN
    /\ MaxTime \in Nat /\ MaxFaults \in Nat
    /\ MaxMisses \in Nat /\ MaxAudits \in Nat

VARIABLES
    file,       \* vault.json, or None
    audit,      \* how many entries of each event the audit directory holds
    now,        \* time.time()
    ring,       \* VaultService._keyring._state per session, or None
    masterKey,  \* VaultService._master_key (= _keyring._master_key), or None
    op,         \* the call each session is in, with its local variables
    minted,     \* random codes and keys drawn so far (secrets never repeats)
    \* History of what callers were told, for the properties.
    misses,     \* failures reported since the last reported unlock
    lastMiss,   \* when the last one was reported
    current,    \* the secrets of the last completed create, change, rotation
    suspect,    \* wrappers of a session's keyring that it failed to change, or
                \* that another session has changed since it was read
    lapsed,     \* wrappers last written from the keyring of such a session
    commits,    \* how many events of each kind took place
    faults      \* crashes and failed writes

diskVars == <<file, audit>>
sessionVars == <<ring, masterKey, op>>
historyVars == <<misses, lastMiss, current, suspect, lapsed, commits, faults>>
vars == <<diskVars, sessionVars, historyVars, now, minted>>
-----------------------------------------------------------------------------
(* Data: keyrings, sealed records and the file that holds them.            *)

\* A wrapping key is derived from the normalized secret and a salt: two secrets
\* are one here if they normalize to the same.
Wrapped == [secret : Secret, key : Key]
Keyring == [wrap : [Wrapper -> Wrapped], check : Key]

Sealed == [key : Key, id : RecordId, kind : Kind, label : Label,
           payload : Payload]
Record == [label : Label, kind : Kind, env : Sealed,
           sha : Payload \cup {None}]
Records == [RecordId -> Record \cup {None}]
VaultFile == [ring : Keyring, records : Records, attempts : Attempts]

Event == [action : {"created", "updated", "deleted"}, id : RecordId]
         \cup [action : {"unlocked", "locked"}, id : {None}]

ASSUME NoneAssumption == None \notin VaultFile \cup Keyring \cup Record

NoRecords == [id \in RecordId |-> None]

NewRing(p, c, k) ==
    [wrap |-> [w \in Wrapper |-> [secret |-> IF w = "passphrase" THEN p ELSE c,
                                  key |-> k]],
     check |-> k]

\* Keyring._unwrap: the envelope authenticates and the key passes the check.
Unwraps(r, w, secret) ==
    /\ r.wrap[w].secret = secret
    /\ r.wrap[w].key = r.check

SealUnder(k, q) == [key |-> k, id |-> q.id, kind |-> q.kind,
                    label |-> q.label, payload |-> q.payload]

\* Seeded fault: the fingerprint of a file record is set only once.
StoreItemKeepingFingerprint(recs, k, q) ==
    LET old == recs[q.id]
    IN  [recs EXCEPT ![q.id] =
            [label |-> IF old = None THEN q.label ELSE old.label,
             kind  |-> IF old = None THEN q.kind ELSE old.kind,
             env   |-> SealUnder(k, q),
             sha   |-> IF old # None THEN old.sha
                       ELSE IF q.bytes THEN q.payload ELSE None]]

\* One item of upsert, batch_upsert or upsert_file_bytes.  The envelope is
\* bound to the label and kind of the request; a record that exists keeps its
\* own label and kind (replace_payload).
StoreItem(recs, k, q) ==
    LET old == recs[q.id]
    IN  [recs EXCEPT ![q.id] =
            [label |-> IF old = None THEN q.label ELSE old.label,
             kind  |-> IF old = None THEN q.kind ELSE old.kind,
             env   |-> SealUnder(k, q),
             sha   |-> IF q.bytes THEN q.payload
                       ELSE IF old = None THEN None ELSE old.sha]]

\* open_json / open_bytes under record_context(id, record.kind, record.label).
Opens(k, id, rec) ==
    /\ rec.env.key = k
    /\ <<rec.env.id, rec.env.kind, rec.env.label>> = <<id, rec.kind, rec.label>>
-----------------------------------------------------------------------------
(* The call a session is in.                                               *)

Call == [pc : {"idle", "creating", "deriving", "preparing", "writing", "auditing"},
         job : {"none", "create", "records"} \cup Wrapper,
         snap : VaultFile \cup {None}, work : Records, todo : Seq(Request),
         secret : Secret \cup {None}, events : Seq(Event)]

Idle == [pc |-> "idle", job |-> "none", snap |-> None, work |-> NoRecords,
         todo |-> << >>, secret |-> None, events |-> << >>]

\* What an operation may record.
MayRecord(name) ==
    CASE name \in {"create", "unlock"} -> {"unlocked"}
      [] name = "lock"   -> {"locked"}
      [] name = "upsert" -> {"created", "updated"}
      [] name = "delete" -> {"deleted"}
      [] OTHER           -> {}

\* Overlapping operations are bounded, and so are the audit entries.
Starts(s, name) ==
    /\ name \in Menu
    /\ op[s] = Idle
    /\ Cardinality({t \in Session : op[t] # Idle}) < Concurrency
    /\ \A e \in Event : e.action \in MayRecord(name) => commits[e] < MaxAudits

Occurrences(e, q) == Cardinality({i \in DOMAIN q : q[i] = e})

\* The file is written (or the lock dropped); what is left is to record the
\* events, when there is a directory for them.
Completed(s, events) ==
    /\ op' = [op EXCEPT ![s] =
                IF AuditDir /\ events # << >>
                THEN [Idle EXCEPT !.pc = "auditing", !.job = op[s].job,
                                  !.events = events] ELSE Idle]
    /\ commits' = [e \in Event |->
                IF AuditDir THEN commits[e] + Occurrences(e, events) ELSE 0]

VaultEvent(a) == <<[action |-> a, id |-> None]>>

Init ==
    /\ file = None
    /\ audit = [e \in Event |-> 0]
    /\ now = 0
    /\ ring = [s \in Session |-> None]
    /\ masterKey = [s \in Session |-> None]
    /\ op = [s \in Session |-> Idle]
    /\ minted = {}
    /\ misses = 0 /\ lastMiss = 0 /\ current = [w \in Wrapper |-> None]
    /\ suspect = [s \in Session |-> {}] /\ lapsed = {}
    /\ commits = [e \in Event |-> 0]
    /\ faults = 0
-----------------------------------------------------------------------------
(* VaultService.create -> vault_file.create_vault_file.                    *)

\* Seeded fault: no look at the path before the keyring is made.
BeginCreateBlindly(s) ==
    /\ Starts(s, "create")
    /\ op' = [op EXCEPT ![s] = [Idle EXCEPT !.pc = "creating", !.job = "create"]]
    /\ UNCHANGED <<diskVars, ring, masterKey, historyVars, now, minted>>

\* The only look at the path; two key derivations follow.
BeginCreate(s) ==
    /\ Starts(s, "create")
    /\ file = None
    /\ op' = [op EXCEPT ![s] = [Idle EXCEPT !.pc = "creating", !.job = "create"]]
    /\ UNCHANGED <<diskVars, ring, masterKey, historyVars, now, minted>>

FinishCreate(s) ==
    /\ op[s].pc = "creating"
    /\ \E p \in Passphrase, c \in Code \ minted, k \in Key \ minted :
        /\ file' = [ring |-> NewRing(p, c, k), records |-> NoRecords,
                    attempts |-> NewAttempts]
        /\ ring' = [ring EXCEPT ![s] = NewRing(p, c, k)]
        /\ masterKey' = [masterKey EXCEPT ![s] = k]
        /\ minted' = minted \cup {c, k}
        /\ current' = [w \in Wrapper |-> IF w = "passphrase" THEN p ELSE c]
    /\ suspect' = [t \in Session |-> IF t = s \/ ring[t] = None THEN {}
                                     ELSE Wrapper]
    /\ lapsed' = {}
    /\ Completed(s, VaultEvent("unlocked"))
    /\ UNCHANGED <<audit, now, misses, lastMiss, faults>>
-----------------------------------------------------------------------------
(* unlock() and unlock_with_recovery_code(): the state read here is the    *)
(* state written back when the derivation ends.                            *)

\* Seeded fault: the recovery code is tried without asking the limiter.
BeginUnlockUnlimited(s, w, x) ==
    /\ Starts(s, "unlock") /\ misses < MaxMisses
    /\ file # None
    /\ w = "recovery" \/ MayAttempt(file.attempts, now)
    /\ op' = [op EXCEPT ![s] = [Idle EXCEPT !.pc = "deriving", !.job = w,
                                          !.snap = file, !.secret = x]]
    /\ UNCHANGED <<diskVars, ring, masterKey, historyVars, now, minted>>

\* A refused attempt raises before any keyring is built and changes nothing.
BeginUnlock(s, w, x) ==
    /\ Starts(s, "unlock") /\ misses < MaxMisses
    /\ file # None
    /\ MayAttempt(file.attempts, now)
    /\ op' = [op EXCEPT ![s] = [Idle EXCEPT !.pc = "deriving", !.job = w,
                                          !.snap = file, !.secret = x]]
    /\ UNCHANGED <<diskVars, ring, masterKey, historyVars, now, minted>>

\* Seeded fault: a session that has a keyring unlocks that one.
UnlockedKeepingKeyring(s) ==
    LET read == op[s].snap
    IN  /\ op[s].pc = "deriving"
        /\ Unwraps(read.ring, op[s].job, op[s].secret)
        /\ file' = [read EXCEPT !.attempts = RecordSuccess(@)]
        /\ ring' = [ring EXCEPT ![s] = IF @ = None THEN read.ring ELSE @]
        /\ masterKey' = [masterKey EXCEPT ![s] = read.ring.wrap[op[s].job].key]
        /\ misses' = 0
        /\ suspect' = [suspect EXCEPT ![s] = {}]
        /\ Completed(s, VaultEvent("unlocked"))
        /\ UNCHANGED <<audit, now, minted, lastMiss, current, lapsed, faults>>

Unlocked(s) ==
    LET read == op[s].snap
    IN  /\ op[s].pc = "deriving"
        /\ Unwraps(read.ring, op[s].job, op[s].secret)
        /\ file' = [read EXCEPT !.attempts = RecordSuccess(@)]
        /\ ring' = [ring EXCEPT ![s] = read.ring]
        /\ masterKey' = [masterKey EXCEPT ![s] = read.ring.wrap[op[s].job].key]
        /\ misses' = 0
        /\ suspect' = [suspect EXCEPT ![s] = {}]
        /\ Completed(s, VaultEvent("unlocked"))
        /\ UNCHANGED <<audit, now, minted, lastMiss, current, lapsed, faults>>

\* Seeded fault: a failed recovery code is not written back.
UnlockRefusedUncounted(s) ==
    LET read == op[s].snap
    IN  /\ op[s].pc = "deriving"
        /\ ~Unwraps(read.ring, op[s].job, op[s].secret)
        /\ file' = IF op[s].job = "recovery" THEN file
                   ELSE [read EXCEPT !.attempts = RecordFailure(@, now)]
        /\ misses' = misses + 1 /\ lastMiss' = now
        /\ Completed(s, << >>)
        /\ UNCHANGED <<audit, ring, masterKey, now, minted, current, suspect, lapsed,
                       faults>>

\* The session keeps the keyring and key it may already hold.
UnlockRefused(s) ==
    LET read == op[s].snap
    IN  /\ op[s].pc = "deriving"
        /\ ~Unwraps(read.ring, op[s].job, op[s].secret)
        /\ file' = [read EXCEPT !.attempts = RecordFailure(@, now)]
        /\ misses' = misses + 1 /\ lastMiss' = now
        /\ Completed(s, << >>)
        /\ UNCHANGED <<audit, ring, masterKey, now, minted, current, suspect, lapsed,
                       faults>>

\* lock(): the keyring object stays, without its key.
Lock(s) ==
    /\ Starts(s, "lock")
    /\ masterKey' = [masterKey EXCEPT ![s] = None]
    /\ Completed(s, VaultEvent("locked"))
    /\ UNCHANGED <<diskVars, ring, now, minted, misses, lastMiss, current, suspect,
                   lapsed, faults>>
-----------------------------------------------------------------------------
(* Changes: a first read of the file (records) or of nothing (keyring), the *)
(* slow work, then save_records / save_keyring, which read the file again   *)
(* (Reload) and write it back with one section replaced (Write).            *)

\* Seeded fault: no _require_unlocked.
BeginUpsertLocked(s, batch) ==
    /\ Starts(s, "upsert")
    /\ file # None
    /\ op' = [op EXCEPT ![s] = [Idle EXCEPT !.pc = "preparing", !.job = "records",
                                          !.work = file.records, !.todo = batch]]
    /\ UNCHANGED <<diskVars, ring, masterKey, historyVars, now, minted>>

\* upsert, upsert_file_bytes and batch_upsert, as batches of one or more.  An
\* id the code draws itself is one that its callers do not have yet.
BeginUpsert(s, batch) ==
    /\ Starts(s, "upsert")
    /\ masterKey[s] # None /\ file # None
    /\ op' = [op EXCEPT ![s] = [Idle EXCEPT !.pc = "preparing", !.job = "records",
                                          !.work = file.records, !.todo = batch]]
    /\ UNCHANGED <<diskVars, ring, masterKey, historyVars, now, minted>>

\* Seeded fault: each item is saved as soon as it is sealed.
SealItemSavingEach(s) ==
    /\ op[s].pc = "preparing" /\ op[s].todo # << >>
    /\ LET q == Head(op[s].todo)
           recs == StoreItem(op[s].work, masterKey[s], q)
           event == [action |-> IF op[s].work[q.id] = None THEN "created"
                                ELSE "updated",
                     id |-> q.id]
       IN /\ file' = [file EXCEPT !.records = recs]
          /\ op' = [op EXCEPT ![s].work = recs, ![s].todo = Tail(@),
                              ![s].events = Append(@, event)]
    /\ UNCHANGED <<audit, ring, masterKey, historyVars, now, minted>>

SealItem(s) ==
    /\ op[s].pc = "preparing" /\ op[s].todo # << >>
    /\ LET q == Head(op[s].todo)
           event == [action |-> IF op[s].work[q.id] = None THEN "created"
                                ELSE "updated",
                     id |-> q.id]
       IN op' = [op EXCEPT ![s].work = StoreItem(@, masterKey[s], q),
                           ![s].todo = Tail(@),
                           ![s].events = Append(@, event)]
    /\ UNCHANGED <<diskVars, ring, masterKey, historyVars, now, minted>>

\* delete() needs no key and returns False when there is no such record.
BeginDelete(s, id) ==
    /\ Starts(s, "delete")
    /\ file # None /\ file.records[id] # None
    /\ op' = [op EXCEPT ![s] = [Idle EXCEPT !.pc = "preparing", !.job = "records",
                                  !.work = [file.records EXCEPT ![id] = None],
                                  !.events = <<[action |-> "deleted", id |-> id]>>]]
    /\ UNCHANGED <<diskVars, ring, masterKey, historyVars, now, minted>>

\* Seeded fault: the new wrapper is given a master key of its own.
RewrapFreshKey(s, w, x) ==
    /\ ring[s] # None /\ masterKey[s] # None /\ file # None
    /\ \E k \in Key \ {masterKey[s]} :
          ring' = [ring EXCEPT ![s].wrap[w] = [secret |-> x, key |-> k]]
    /\ op' = [op EXCEPT ![s] = [Idle EXCEPT !.pc = "preparing", !.job = w]]
    /\ UNCHANGED <<diskVars, masterKey, historyVars, now>>

\* change_passphrase and rotate_recovery_code put the new wrapper in the
\* keyring of the session first.
Rewrap(s, w, x) ==
    /\ ring[s] # None /\ masterKey[s] # None /\ file # None
    /\ ring' = [ring EXCEPT ![s].wrap[w] = [secret |-> x, key |-> masterKey[s]]]
    /\ op' = [op EXCEPT ![s] = [Idle EXCEPT !.pc = "preparing", !.job = w]]
    /\ UNCHANGED <<diskVars, masterKey, historyVars, now>>

ChangePassphrase(s, p) ==
    /\ Starts(s, "change")
    /\ Rewrap(s, "passphrase", p)
    /\ UNCHANGED minted

RotateRecoveryCode(s) ==
    /\ Starts(s, "rotate")
    /\ \E c \in Code \ minted : Rewrap(s, "recovery", c) /\ minted' = minted \cup {c}

Reload(s) ==
    /\ op[s].pc = "preparing" /\ op[s].todo = << >>
    /\ op' = [op EXCEPT ![s].pc = "writing", ![s].snap = file]
    /\ UNCHANGED <<diskVars, ring, masterKey, historyVars, now, minted>>

\* A session that has saved its keyring: the secret it changed is in force, the
\* keyrings of others are behind, and what it was suspect of is in the file.
KeyringSaved(s, w) ==
    /\ current' = [current EXCEPT ![w] = ring[s].wrap[w].secret]
    /\ suspect' = [t \in Session |-> IF t = s THEN suspect[t] \ {w}
                                     ELSE IF ring[t] = None THEN suspect[t]
                                     ELSE suspect[t] \cup {w}]
    /\ lapsed' = (lapsed \cup suspect[s]) \ {w}

Write(s) ==
    LET job == op[s].job
    IN  /\ op[s].pc = "writing"
        /\ IF job = "records"
           THEN /\ file' = [op[s].snap EXCEPT !.records = op[s].work]
                /\ UNCHANGED <<current, suspect, lapsed>>
           ELSE /\ file' = [op[s].snap EXCEPT !.ring = ring[s]]
                /\ KeyringSaved(s, job)
        /\ Completed(s, op[s].events)
        /\ UNCHANGED <<audit, ring, masterKey, now, minted, misses, lastMiss, faults>>

\* Seeded fault: a batch is audited as one change.
AuditFirstOnly(s) ==
    /\ op[s].pc = "auditing"
    /\ audit' = [audit EXCEPT ![Head(op[s].events)] = @ + 1]
    /\ op' = [op EXCEPT ![s] = Idle]
    /\ UNCHANGED <<file, ring, masterKey, historyVars, now, minted>>

\* One entry per event, after the write.
Audit(s) ==
    /\ op[s].pc = "auditing"
    /\ LET e == Head(op[s].events)
           rest == Tail(op[s].events)
       IN /\ audit' = [audit EXCEPT ![e] = @ + 1]
          /\ op' = [op EXCEPT ![s] = IF rest = << >> THEN Idle
                                     ELSE [@ EXCEPT !.events = rest]]
    /\ UNCHANGED <<file, ring, masterKey, historyVars, now, minted>>
-----------------------------------------------------------------------------
(* Faults and the environment.                                             *)

\* The wrapper that the call of a session is about to save.
Unsaved(s) ==
    IF op[s].pc \in {"preparing", "writing"} THEN Wrapper \cap {op[s].job} ELSE {}

\* A call raises before or instead of its next write: a bad batch item, a
\* failed seal, an AtomicWriteError.  What it changed in memory stays, except
\* that a create() that raises returns no VaultService.
Fail(s) ==
    /\ "fail" \in Menu
    /\ op[s] # Idle
    /\ faults < MaxFaults
    /\ op' = [op EXCEPT ![s] = Idle]
    /\ IF op[s].job = "create"
       THEN /\ ring' = [ring EXCEPT ![s] = None]
            /\ masterKey' = [masterKey EXCEPT ![s] = None]
       ELSE UNCHANGED <<ring, masterKey>>
    /\ suspect' = [suspect EXCEPT ![s] =
                      IF op[s].job = "create" THEN {} ELSE @ \cup Unsaved(s)]
    /\ faults' = faults + 1
    /\ UNCHANGED <<diskVars, now, minted, misses, lastMiss, current, lapsed, commits>>

\* The process dies in a call, or a session ends between calls.
Crash(s) ==
    /\ op[s] # Idle \/ ring[s] # None
    /\ op[s] # Idle => faults < MaxFaults
    /\ faults' = IF op[s] # Idle THEN faults + 1 ELSE faults
    /\ op' = [op EXCEPT ![s] = Idle]
    /\ ring' = [ring EXCEPT ![s] = None]
    /\ masterKey' = [masterKey EXCEPT ![s] = None]
    /\ suspect' = [suspect EXCEPT ![s] = {}]
    /\ UNCHANGED <<diskVars, now, minted, misses, lastMiss, current, lapsed, commits>>

Tick ==
    /\ now < MaxTime
    /\ now' = now + 1
    /\ UNCHANGED <<diskVars, sessionVars, historyVars, minted>>

Next ==
    \/ \E s \in Session :
        \/ BeginCreate(s) \/ FinishCreate(s)
        \/ \E x \in Passphrase : BeginUnlock(s, "passphrase", x)
        \/ \E x \in Code : BeginUnlock(s, "recovery", x)
        \/ Unlocked(s) \/ UnlockRefused(s) \/ Lock(s)
        \/ \E batch \in Batch : BeginUpsert(s, batch)
        \/ SealItem(s)
        \/ \E id \in RecordId : BeginDelete(s, id)
        \/ \E p \in Passphrase : ChangePassphrase(s, p)
        \/ RotateRecoveryCode(s)
        \/ Reload(s) \/ Write(s) \/ Audit(s)
        \/ Fail(s) \/ Crash(s)
    \/ Tick

Spec == Init /\ [][Next]_vars

\* A vault that was created earlier, before any session of this instance.
InitExisting ==
    /\ \E p \in Passphrase, c \in Code, k \in Key :
        /\ file = [ring |-> NewRing(p, c, k), records |-> NoRecords,
                   attempts |-> NewAttempts]
        /\ minted = {c, k}
        /\ current = [w \in Wrapper |-> IF w = "passphrase" THEN p ELSE c]
    /\ audit = [e \in Event |-> 0]
    /\ now = 0
    /\ ring = [s \in Session |-> None]
    /\ masterKey = [s \in Session |-> None]
    /\ op = [s \in Session |-> Idle]
    /\ misses = 0 /\ lastMiss = 0
    /\ suspect = [s \in Session |-> {}] /\ lapsed = {}
    /\ commits = [e \in Event |-> 0]
    /\ faults = 0

SpecExisting == InitExisting /\ [][Next]_vars
-----------------------------------------------------------------------------
(* Properties.                                                             *)

TypeOK ==
    /\ file \in VaultFile \cup {None}
    /\ audit \in [Event -> Nat]
    /\ now \in Nat
    /\ ring \in [Session -> Keyring \cup {None}]
    /\ masterKey \in [Session -> Key \cup {None}]
    /\ op \in [Session -> Call]
    /\ minted \subseteq Code \cup Key
    /\ misses \in Nat /\ lastMiss \in Nat
    /\ current \in [Wrapper -> Secret \cup {None}]
    /\ suspect \in [Session -> SUBSET Wrapper] /\ lapsed \subseteq Wrapper
    /\ commits \in [Event -> Nat]
    /\ faults \in Nat

\* Both wrappers of a keyring hold the key its check value was made from.
RingSound(r) == \A w \in Wrapper : r.wrap[w].key = r.check

\* In whatever order sessions read, re-wrap and write back, no keyring (on
\* disk, in a session or read and not yet written back) ends up with a wrapper
\* of another master key: what the check of Keyring._check_value is there to
\* find out never happens.
KeyringsSound ==
    /\ file # None => RingSound(file.ring)
    /\ \A s \in Session : /\ ring[s] # None => RingSound(ring[s])
                          /\ op[s].snap # None => RingSound(op[s].snap.ring)

\* No step puts another master key in an existing vault file: the records in
\* it, and the sessions that hold its key, keep belonging to it.
VaultKeyStable ==
    [][file # None => file'.ring.check = file.ring.check]_vars

\* get() succeeds on every record of the file in every session that holds a
\* key, and the readable fingerprint of a file record is that of its content.
RecordsReadable ==
    \A s \in Session, id \in RecordId :
        masterKey[s] # None /\ file # None /\ file.records[id] # None =>
            LET rec == file.records[id]
            IN  /\ Opens(masterKey[s], id, rec)
                /\ rec.sha # None => rec.sha = rec.env.payload

\* Callers that keep to one label, one kind and one way of storing per id.
StableRequests ==
    \A q, r \in Request :
        q.id = r.id => <<q.label, q.kind, q.bytes>> = <<r.label, r.kind, r.bytes>>

\* The counter in the file is the number of failures reported since the last
\* success, whichever credential they tried and whatever was saved, killed or
\* restarted in between.
FailuresCounted == file # None => file.attempts.failed = misses

\* No derivation starts before the wait that the reported failures call for.
ThrottleHonoured ==
    [][\A s \in Session :
        op[s].pc # "deriving" /\ op'[s].pc = "deriving" =>
            /\ misses >= MaxAttempts => now >= lastMiss + LockoutSeconds
            /\ now >= lastMiss + RequiredDelay(misses)]_vars

\* Whatever failures were recorded, a caller who waits long enough may try.
NeverLockedForGood ==
    file # None => MayAttempt(file.attempts, now + LongestWait)

\* change_passphrase and rotate_recovery_code change the keyring of the session
\* before they save all of it.  So a secret in force is replaced by a completed
\* change of it, but also by one of the other secret, made by a session that had
\* failed to change this one, whose caller has never seen the new one
\* (vault_service.py:402; keyring.py:412 says otherwise), or that was unlocked
\* before somebody else changed it (:396).  By nothing else: a failed change
\* alone, a lock and a new unlock, a crash, a failed or a late attempt, a save of
\* records.  And of the two secrets last made valid, one opens the file in any case.
LastChangeHolds ==
    file # None =>
        /\ \A w \in Wrapper \ lapsed : file.ring.wrap[w].secret = current[w]
        /\ \E w \in Wrapper : file.ring.wrap[w].secret = current[w]

Unwritten(e) ==
    UNION {{s} \X {i \in DOMAIN op[s].events : op[s].events[i] = e} :
            s \in {t \in Session : op[t].pc = "auditing"}}

\* The audit directory never tells of a change that did not happen, and only
\* a fault between the write and its entries makes it miss one.
AuditFaithful ==
    AuditDir => \A e \in Event :
        /\ audit[e] + Cardinality(Unwritten(e)) <= commits[e]
        /\ faults = 0 => audit[e] + Cardinality(Unwritten(e)) = commits[e]

\* The content of the file, as any session with its key reads it.
Content ==
    [id \in RecordId |->
        IF file = None THEN None
        ELSE LET rec == file.records[id]
             IN  IF rec = None THEN None
                 ELSE IF Opens(file.ring.check, id, rec) THEN rec.env.payload
                 ELSE "unreadable"]

Store == INSTANCE VaultStore WITH store <- Content, Absent <- None

\* With one operation at a time the vault is the abstract store, faults and
\* all: a batch is saved whole or not at all, and unlocking, locking,
\* re-wrapping and auditing leave every record as it was.
AtomicStore == Store!Spec
=============================================================================
