----------------------------- MODULE VaultProofs -----------------------------
(***************************************************************************)
(* What holds of Vault for any number of sessions, secrets and records and *)
(* any interleaving of their steps.  Inv is the inductive form of TypeOK:  *)
(* what a call under way may rely on when it takes its next step.  What    *)
(* one session read may be stale when it is written back, but it is never  *)
(* a mixture of two keyrings, and never ahead of the clock.  The second    *)
(* half is about one operation at a time (OneAtATime): nothing is stale    *)
(* then, the throttle counts every failure, and the vault implements       *)
(* VaultStore.                                                             *)
(***************************************************************************)
EXTENDS Vault, FiniteSetTheorems, TLAPS

-----------------------------------------------------------------------------
(* What is needed of the throttle, as KeyringAccessProofs has it for the   *)
(* other of its two users.                                                 *)

\* The backoff is a natural number of seconds under the ceiling, however many
\* failures were recorded (throttle.AttemptLimiter.required_delay).
LEMMA RequiredDelayBounded ==
    ASSUME NEW n \in Nat
    PROVE  RequiredDelay(n) \in Nat /\ RequiredDelay(n) <= MaxDelay
<1> DEFINE e == Least(n - 1, MaxBackoffExponent)
<1>1. CASE n < 1
      BY <1>1, LimiterAssumption DEF RequiredDelay
<1>2. CASE n >= 1
  <2>1. e \in 0..MaxBackoffExponent
        BY <1>2, LimiterAssumption DEF Least
  <2>2. BaseDelay * 2^e \in Nat
    <3>1. 2^e \in Nat
          BY <2>1, PowersAssumption
    <3> HIDE DEF e
    <3> QED BY <3>1, LimiterAssumption
  <2>3. RequiredDelay(n) = Least(BaseDelay * 2^e, MaxDelay)
        BY <1>2 DEF RequiredDelay
  <2> HIDE DEF e
  <2> QED BY <2>2, <2>3, LimiterAssumption DEF Least
<1> QED BY <1>1, <1>2

\* The three states the limiter hands out are well formed.
LEMMA AttemptsTyped ==
    /\ NewAttempts \in Attempts
    /\ \A st \in Attempts, at \in Nat : RecordFailure(st, at) \in Attempts
    /\ \A st \in Attempts : RecordSuccess(st) \in Attempts
BY LimiterAssumption DEF NewAttempts, Attempts, RecordFailure, RecordSuccess

\* A recorded state: nothing in it lies further ahead than one lockout.
Recorded(st, at) == st.last <= at /\ st.until <= at + LockoutSeconds

\* Time and the limiter's own operations keep a state recorded.
LEMMA RecordedKept ==
    ASSUME NEW st \in Attempts, NEW at \in Nat, Recorded(st, at)
    PROVE  /\ Recorded(RecordFailure(st, at), at)
           /\ Recorded(RecordSuccess(st), at)
           /\ \A t \in Nat : at <= t => Recorded(st, t)
BY LimiterAssumption
   DEF Attempts, Recorded, RecordFailure, RecordSuccess, NewAttempts

\* check() lets a caller through who has waited for the longer of the lockout
\* and the backoff ceiling: no history locks the owner out for good.
LEMMA LongWaitSuffices ==
    ASSUME NEW st \in Attempts, NEW at \in Nat, Recorded(st, at)
    PROVE  MayAttempt(st, at + LongestWait)
<1>1. RequiredDelay(st.failed) \in Nat /\ RequiredDelay(st.failed) <= MaxDelay
      BY RequiredDelayBounded DEF Attempts
<1>2. /\ LongestWait \in Nat
      /\ LockoutSeconds <= LongestWait /\ MaxDelay <= LongestWait
      BY LimiterAssumption DEF LongestWait, Greatest
<1> QED BY <1>1, <1>2, LimiterAssumption DEF Attempts, Recorded, MayAttempt

-----------------------------------------------------------------------------

\* The local variables a call has set by the time it reads them: c is the
\* call, f the file, r and k the keyring and the key of its session.
CallOK(c, f, r, k) ==
    /\ c.pc = "deriving" => c.snap \in VaultFile /\ c.job \in Wrapper
    /\ c.pc \in {"preparing", "writing"} =>
          /\ f \in VaultFile
          /\ c.job \in {"records"} \cup Wrapper
          /\ c.job \in Wrapper => r \in Keyring
          /\ c.todo # << >> => k \in Key
    /\ c.pc = "writing" => c.snap \in VaultFile
    /\ c.pc = "auditing" => c.events # << >>

CallsWellFormed == \A s \in Session : CallOK(op[s], file, ring[s], masterKey[s])

Inv == TypeOK /\ CallsWellFormed
-----------------------------------------------------------------------------
(* Data.                                                                   *)

\* A new keyring wraps one key under both secrets.
LEMMA NewRingTyped ==
    ASSUME NEW p \in Passphrase, NEW c \in Code, NEW k \in Key
    PROVE  NewRing(p, c, k) \in Keyring /\ RingSound(NewRing(p, c, k))
BY DEF NewRing, Keyring, Wrapped, Secret, Wrapper, RingSound

LEMMA NoRecordsTyped == NoRecords \in Records
BY DEF NoRecords, Records

LEMMA IdleTyped == Idle \in Call
BY NoRecordsTyped DEF Idle, Call, Wrapper

\* One item stored gives a records map again.
LEMMA StoreItemTyped ==
    ASSUME NEW recs \in Records, NEW k \in Key, NEW q \in Request
    PROVE  StoreItem(recs, k, q) \in Records
<1> DEFINE old == recs[q.id]
           new == [label |-> IF old = None THEN q.label ELSE old.label,
                   kind  |-> IF old = None THEN q.kind ELSE old.kind,
                   env   |-> SealUnder(k, q),
                   sha   |-> IF q.bytes THEN q.payload
                             ELSE IF old = None THEN None ELSE old.sha]
<1>1. q \in [id : RecordId, label : Label, kind : Kind, payload : Payload,
             bytes : BOOLEAN]
      BY ConstantsAssumption
<1>2. old \in Record \cup {None}
      BY <1>1 DEF Records
<1>3. SealUnder(k, q) \in Sealed
      BY <1>1 DEF SealUnder, Sealed
<1>4. new \in Record
      BY <1>1, <1>2, <1>3 DEF Record
<1>5. StoreItem(recs, k, q) = [recs EXCEPT ![q.id] = new]
      BY DEF StoreItem
<1> HIDE DEF new
<1> QED BY <1>1, <1>4, <1>5 DEF Records

\* A keyring re-wrapped is a keyring.
LEMMA RewrapTyped ==
    ASSUME NEW r \in Keyring, NEW w \in Wrapper, NEW x \in Secret, NEW k \in Key
    PROVE  [r EXCEPT !.wrap[w] = [secret |-> x, key |-> k]] \in Keyring
BY DEF Keyring, Wrapped

\* Occurrences counts.
LEMMA OccurrencesTyped ==
    ASSUME NEW q \in Seq(Event), NEW e
    PROVE  Occurrences(e, q) \in Nat
<1>1. IsFiniteSet(1..Len(q))
      BY FS_Interval
<1>2. {i \in DOMAIN q : q[i] = e} \subseteq 1..Len(q)
      OBVIOUS
<1> QED BY <1>1, <1>2, FS_Subset, FS_CardinalityType DEF Occurrences

\* What ends a call leaves the session idle or with its events to record.
LEMMA CompletedTyped ==
    ASSUME TypeOK, NEW s \in Session, NEW events \in Seq(Event),
           Completed(s, events)
    PROVE  /\ op' \in [Session -> Call]
           /\ commits' \in [Event -> Nat]
           /\ op'[s].pc \in {"idle", "auditing"}
           /\ op'[s].pc = "auditing" => op'[s].events # << >>
           /\ \A t \in Session \ {s} : op'[t] = op[t]
<1> DEFINE new == IF AuditDir /\ events # << >>
                  THEN [Idle EXCEPT !.pc = "auditing", !.job = op[s].job,
                                    !.events = events] ELSE Idle
<1>1. op' = [op EXCEPT ![s] = new]
      BY DEF Completed
<1>2. op[s] \in Call
      BY DEF TypeOK
<1>3. /\ new \in Call /\ new.pc \in {"idle", "auditing"}
      /\ new.pc = "auditing" => new.events # << >>
      BY <1>2, IdleTyped DEF Call, Idle
<1>4. commits' \in [Event -> Nat]
      BY OccurrencesTyped DEF Completed, TypeOK
<1> HIDE DEF new
<1> QED BY <1>1, <1>3, <1>4 DEF TypeOK
-----------------------------------------------------------------------------
(* The inductive step, one lemma per action.                               *)

\* A step of one session leaves the calls of the others well formed: they
\* keep their variables, and a file is never removed.
LEMMA OthersKept ==
    ASSUME Inv, NEW s \in Session,
           file' = file \/ file' \in VaultFile,
           \A t \in Session \ {s} : /\ op'[t] = op[t] /\ ring'[t] = ring[t]
                                    /\ masterKey'[t] = masterKey[t],
           CallOK(op'[s], file', ring'[s], masterKey'[s])
    PROVE  CallsWellFormed'
<1>1. ASSUME NEW t \in Session
      PROVE  CallOK(op'[t], file', ring'[t], masterKey'[t])
  <2>1. CASE t = s
        BY <2>1
  <2>2. CASE t # s
    <3>1. CallOK(op[t], file, ring[t], masterKey[t])
          BY DEF Inv, CallsWellFormed
    <3> QED BY <2>2, <3>1 DEF CallOK
  <2> QED BY <2>1, <2>2
<1> QED BY <1>1 DEF CallsWellFormed

\* A step that only moves a call on.
LEMMA CallMoved ==
    ASSUME Inv, NEW s \in Session, NEW c \in Call,
           op' = [op EXCEPT ![s] = c],
           CallOK(c, file, ring[s], masterKey[s]),
           UNCHANGED <<diskVars, ring, masterKey, historyVars, now>>,
           minted' \subseteq Code \cup Key
    PROVE  Inv'
<1>1. TypeOK'
      BY DEF Inv, TypeOK, diskVars, historyVars
<1>2. CallsWellFormed'
      BY OthersKept DEF Inv, TypeOK, diskVars
<1> QED BY <1>1, <1>2 DEF Inv

LEMMA BeginCreateInv ==
    ASSUME Inv, NEW s \in Session, BeginCreate(s)
    PROVE  Inv'
<1> DEFINE c == [Idle EXCEPT !.pc = "creating", !.job = "create"]
<1>1. c \in Call /\ CallOK(c, file, ring[s], masterKey[s])
      BY IdleTyped DEF Call, Idle, CallOK
<1>2. /\ op' = [op EXCEPT ![s] = c]
      /\ UNCHANGED <<diskVars, ring, masterKey, historyVars, now, minted>>
      BY DEF BeginCreate
<1> HIDE DEF c
<1> QED BY <1>1, <1>2, CallMoved DEF Inv, TypeOK

LEMMA BeginUnlockInv ==
    ASSUME Inv, NEW s \in Session, NEW w \in Wrapper, NEW x \in Secret,
           BeginUnlock(s, w, x)
    PROVE  Inv'
<1> DEFINE c == [Idle EXCEPT !.pc = "deriving", !.job = w, !.snap = file,
                             !.secret = x]
<1>1. file \in VaultFile
      BY DEF BeginUnlock, Inv, TypeOK
<1>2. c \in Call /\ CallOK(c, file, ring[s], masterKey[s])
      BY <1>1, IdleTyped DEF Call, Idle, CallOK
<1>3. /\ op' = [op EXCEPT ![s] = c]
      /\ UNCHANGED <<diskVars, ring, masterKey, historyVars, now, minted>>
      BY DEF BeginUnlock
<1> HIDE DEF c
<1> QED BY <1>2, <1>3, CallMoved DEF Inv, TypeOK

LEMMA BeginUpsertInv ==
    ASSUME Inv, NEW s \in Session, NEW batch \in Batch, BeginUpsert(s, batch)
    PROVE  Inv'
<1> DEFINE c == [Idle EXCEPT !.pc = "preparing", !.job = "records",
                             !.work = file.records, !.todo = batch]
<1>1. file \in VaultFile /\ masterKey[s] \in Key
      BY DEF BeginUpsert, Inv, TypeOK
<1>2. batch \in Seq(Request) /\ file.records \in Records
      BY <1>1, ConstantsAssumption DEF VaultFile
<1>3. c \in Call /\ CallOK(c, file, ring[s], masterKey[s])
      BY <1>1, <1>2, IdleTyped DEF Call, Idle, CallOK, Wrapper
<1>4. /\ op' = [op EXCEPT ![s] = c]
      /\ UNCHANGED <<diskVars, ring, masterKey, historyVars, now, minted>>
      BY DEF BeginUpsert
<1> HIDE DEF c
<1> QED BY <1>3, <1>4, CallMoved DEF Inv, TypeOK

LEMMA BeginDeleteInv ==
    ASSUME Inv, NEW s \in Session, NEW id \in RecordId, BeginDelete(s, id)
    PROVE  Inv'
<1> DEFINE recs == [file.records EXCEPT ![id] = None]
           events == <<[action |-> "deleted", id |-> id]>>
           c == [Idle EXCEPT !.pc = "preparing", !.job = "records",
                             !.work = recs, !.events = events]
<1>1. file \in VaultFile
      BY DEF BeginDelete, Inv, TypeOK
<1>2. recs \in Records
      BY <1>1 DEF VaultFile, Records
<1>3. events \in Seq(Event)
      BY DEF Event
<1> HIDE DEF recs, events
<1>4. c \in Call /\ CallOK(c, file, ring[s], masterKey[s])
      BY <1>1, <1>2, <1>3, IdleTyped DEF Call, Idle, CallOK, Wrapper
<1>5. /\ op' = [op EXCEPT ![s] = c]
      /\ UNCHANGED <<diskVars, ring, masterKey, historyVars, now, minted>>
      BY DEF BeginDelete, recs, events
<1> HIDE DEF c
<1> QED BY <1>4, <1>5, CallMoved DEF Inv, TypeOK

LEMMA SealItemInv ==
    ASSUME Inv, NEW s \in Session, SealItem(s)
    PROVE  Inv'
<1> DEFINE q == Head(op[s].todo)
           event == [action |-> IF op[s].work[q.id] = None THEN "created"
                                ELSE "updated",
                     id |-> q.id]
           recs == StoreItem(op[s].work, masterKey[s], q)
           rest == Tail(op[s].todo)
           events == Append(op[s].events, event)
           c == [op[s] EXCEPT !.work = recs, !.todo = rest, !.events = events]
<1>1. /\ op[s] \in Call /\ op[s].pc = "preparing" /\ op[s].todo # << >>
      /\ CallOK(op[s], file, ring[s], masterKey[s])
      BY DEF SealItem, Inv, TypeOK, CallsWellFormed
<1>2. q \in Request /\ rest \in Seq(Request)
      BY <1>1 DEF Call
<1>3. masterKey[s] \in Key
      BY <1>1 DEF CallOK
<1>4. recs \in Records
      BY <1>1, <1>2, <1>3, StoreItemTyped DEF Call
<1>5. events \in Seq(Event)
  <2>1. q.id \in RecordId
        BY <1>2, ConstantsAssumption
  <2>2. event \in Event
        BY <2>1 DEF Event
  <2> HIDE DEF event
  <2> QED BY <1>1, <2>2 DEF Call
<1>6. /\ op' = [op EXCEPT ![s] = c]
      /\ UNCHANGED <<diskVars, ring, masterKey, historyVars, now, minted>>
      BY <1>1 DEF SealItem, Inv, TypeOK, Call
<1> HIDE DEF recs, rest, events
<1>7. c \in Call /\ CallOK(c, file, ring[s], masterKey[s])
      BY <1>1, <1>3, <1>4, <1>2, <1>5 DEF Call, CallOK
<1> HIDE DEF c
<1> QED BY <1>6, <1>7, CallMoved DEF Inv, TypeOK

LEMMA ReloadInv ==
    ASSUME Inv, NEW s \in Session, Reload(s)
    PROVE  Inv'
<1> DEFINE c == [op[s] EXCEPT !.pc = "writing", !.snap = file]
<1>1. /\ op[s] \in Call /\ op[s].pc = "preparing" /\ op[s].todo = << >>
      /\ CallOK(op[s], file, ring[s], masterKey[s])
      BY DEF Reload, Inv, TypeOK, CallsWellFormed
<1>2. file \in VaultFile
      BY <1>1 DEF CallOK
<1>3. c \in Call /\ CallOK(c, file, ring[s], masterKey[s])
      BY <1>1, <1>2 DEF Call, CallOK
<1>4. /\ op' = [op EXCEPT ![s] = c]
      /\ UNCHANGED <<diskVars, ring, masterKey, historyVars, now, minted>>
      BY <1>1 DEF Reload, Inv, TypeOK, Call
<1> HIDE DEF c
<1> QED BY <1>3, <1>4, CallMoved DEF Inv, TypeOK

LEMMA RewrapInv ==
    ASSUME Inv, NEW s \in Session, NEW w \in Wrapper, NEW x \in Secret,
           Rewrap(s, w, x), minted' \subseteq Code \cup Key
    PROVE  Inv'
<1> DEFINE c == [Idle EXCEPT !.pc = "preparing", !.job = w]
           r == [ring[s] EXCEPT !.wrap[w] = [secret |-> x, key |-> masterKey[s]]]
<1>1. file \in VaultFile /\ ring[s] \in Keyring /\ masterKey[s] \in Key
      BY DEF Rewrap, Inv, TypeOK
<1>2. r \in Keyring
      BY <1>1, RewrapTyped
<1>3. /\ op' = [op EXCEPT ![s] = c]
      /\ ring' = [ring EXCEPT ![s] = r]
      /\ UNCHANGED <<diskVars, masterKey, historyVars, now>>
      BY DEF Rewrap
<1>4. c \in Call /\ CallOK(c, file, r, masterKey[s])
  <2> HIDE DEF r
  <2> QED BY <1>1, <1>2, IdleTyped DEF Call, Idle, CallOK
<1> HIDE DEF c, r
<1>5. TypeOK'
      BY <1>2, <1>3, <1>4 DEF Inv, TypeOK, diskVars, historyVars
<1>6. CallsWellFormed'
      BY <1>3, <1>4, OthersKept DEF Inv, TypeOK, diskVars
<1> QED BY <1>5, <1>6 DEF Inv

\* The file written, the keyring and key set, or neither, and the call ended.
LEMMA CallCompleted ==
    ASSUME Inv, NEW s \in Session, NEW events \in Seq(Event),
           Completed(s, events),
           file' = file \/ file' \in VaultFile,
           ring' \in [Session -> Keyring \cup {None}],
           masterKey' \in [Session -> Key \cup {None}],
           \A t \in Session \ {s} : ring'[t] = ring[t] /\ masterKey'[t] = masterKey[t],
           current' \in [Wrapper -> Secret \cup {None}],
           suspect' \in [Session -> SUBSET Wrapper], lapsed' \subseteq Wrapper,
           misses' \in Nat, lastMiss' \in Nat, minted' \subseteq Code \cup Key,
           UNCHANGED <<audit, now, faults>>
    PROVE  Inv'
<1>1. /\ op' \in [Session -> Call]
      /\ commits' \in [Event -> Nat]
      /\ op'[s].pc \in {"idle", "auditing"}
      /\ op'[s].pc = "auditing" => op'[s].events # << >>
      /\ \A t \in Session \ {s} : op'[t] = op[t]
      BY CompletedTyped DEF Inv
<1>2. TypeOK'
      BY <1>1 DEF Inv, TypeOK
<1>3. CallOK(op'[s], file', ring'[s], masterKey'[s])
      BY <1>1 DEF CallOK
<1>4. CallsWellFormed'
      BY <1>1, <1>3, OthersKept
<1> QED BY <1>2, <1>4 DEF Inv

LEMMA VaultEventTyped ==
    /\ VaultEvent("unlocked") \in Seq(Event)
    /\ VaultEvent("locked") \in Seq(Event)
    /\ << >> \in Seq(Event)
BY DEF VaultEvent, Event

LEMMA FinishCreateInv ==
    ASSUME Inv, NEW s \in Session, FinishCreate(s)
    PROVE  Inv'
<1>1. PICK p \in Passphrase, c \in Code \ minted, k \in Key \ minted :
        /\ file' = [ring |-> NewRing(p, c, k), records |-> NoRecords,
                    attempts |-> NewAttempts]
        /\ ring' = [ring EXCEPT ![s] = NewRing(p, c, k)]
        /\ masterKey' = [masterKey EXCEPT ![s] = k]
        /\ minted' = minted \cup {c, k}
        /\ current' = [w \in Wrapper |-> IF w = "passphrase" THEN p ELSE c]
      BY DEF FinishCreate
<1>2. NewRing(p, c, k) \in Keyring
      BY NewRingTyped
<1>3. file' \in VaultFile
      BY <1>1, <1>2, NoRecordsTyped, AttemptsTyped DEF VaultFile
<1>4. current' \in [Wrapper -> Secret \cup {None}]
      BY <1>1 DEF Secret
<1>5. Completed(s, VaultEvent("unlocked")) /\ UNCHANGED <<audit, now, misses, lastMiss, faults>>
      BY DEF FinishCreate
<1>6. suspect' \in [Session -> SUBSET Wrapper] /\ lapsed' \subseteq Wrapper
      BY DEF FinishCreate
<1> QED BY <1>1, <1>2, <1>3, <1>4, <1>5, <1>6, VaultEventTyped, CallCompleted
        DEF Inv, TypeOK

\* What an unlock under way has read.
LEMMA DerivingRead ==
    ASSUME Inv, NEW s \in Session, op[s].pc = "deriving"
    PROVE  /\ op[s].snap \in VaultFile /\ op[s].job \in Wrapper
           /\ op[s].snap.ring \in Keyring
           /\ op[s].snap.ring.wrap[op[s].job].key \in Key
           /\ op[s].snap.attempts \in Attempts
<1>1. op[s].snap \in VaultFile /\ op[s].job \in Wrapper
      BY DEF Inv, CallsWellFormed, CallOK
<1> QED BY <1>1 DEF VaultFile, Keyring, Wrapped

LEMMA UnlockedInv ==
    ASSUME Inv, NEW s \in Session, Unlocked(s)
    PROVE  Inv'
<1> DEFINE read == op[s].snap
<1>1. op[s].pc = "deriving"
      BY DEF Unlocked
<1>2. file' = [read EXCEPT !.attempts = RecordSuccess(@)]
      BY DEF Unlocked
<1>3. file' \in VaultFile
      BY <1>1, <1>2, DerivingRead, AttemptsTyped DEF VaultFile
<1>4. /\ ring' \in [Session -> Keyring \cup {None}]
      /\ masterKey' \in [Session -> Key \cup {None}]
      /\ \A t \in Session \ {s} : ring'[t] = ring[t] /\ masterKey'[t] = masterKey[t]
      BY <1>1, DerivingRead DEF Unlocked, Inv, TypeOK
<1>5. /\ Completed(s, VaultEvent("unlocked")) /\ misses' = 0
      /\ UNCHANGED <<audit, now, minted, lastMiss, current, lapsed, faults>>
      /\ suspect' = [suspect EXCEPT ![s] = {}]
      BY DEF Unlocked
<1> QED BY <1>3, <1>4, <1>5, VaultEventTyped, CallCompleted DEF Inv, TypeOK

LEMMA UnlockRefusedInv ==
    ASSUME Inv, NEW s \in Session, UnlockRefused(s)
    PROVE  Inv'
<1> DEFINE read == op[s].snap
<1>1. op[s].pc = "deriving"
      BY DEF UnlockRefused
<1>2. file' = [read EXCEPT !.attempts = RecordFailure(@, now)]
      BY DEF UnlockRefused
<1>3. RecordFailure(read.attempts, now) \in Attempts
      BY <1>1, DerivingRead, AttemptsTyped DEF Inv, TypeOK
<1>4. file' \in VaultFile
      BY <1>1, <1>2, <1>3, DerivingRead DEF VaultFile
<1>5. /\ Completed(s, << >>) /\ misses' = misses + 1 /\ lastMiss' = now
      /\ UNCHANGED <<audit, ring, masterKey, now, minted, current, suspect, lapsed, faults>>
      BY DEF UnlockRefused
<1>6. /\ misses' \in Nat /\ lastMiss' \in Nat /\ minted' \subseteq Code \cup Key
      /\ ring' \in [Session -> Keyring \cup {None}]
      /\ masterKey' \in [Session -> Key \cup {None}]
      /\ current' \in [Wrapper -> Secret \cup {None}]
      /\ suspect' \in [Session -> SUBSET Wrapper] /\ lapsed' \subseteq Wrapper
      BY <1>5 DEF Inv, TypeOK
<1> QED BY <1>4, <1>5, <1>6, VaultEventTyped, CallCompleted

LEMMA LockInv ==
    ASSUME Inv, NEW s \in Session, Lock(s)
    PROVE  Inv'
<1>1. /\ Completed(s, VaultEvent("locked"))
      /\ masterKey' = [masterKey EXCEPT ![s] = None]
      /\ UNCHANGED <<diskVars, ring, now, minted, misses, lastMiss, current, suspect,
                     lapsed, faults>>
      BY DEF Lock
<1> QED BY <1>1, VaultEventTyped, CallCompleted DEF Inv, TypeOK, diskVars

LEMMA WriteInv ==
    ASSUME Inv, NEW s \in Session, Write(s)
    PROVE  Inv'
<1>1. /\ op[s] \in Call /\ op[s].pc = "writing"
      /\ CallOK(op[s], file, ring[s], masterKey[s])
      BY DEF Write, Inv, TypeOK, CallsWellFormed
<1>2. /\ op[s].snap \in VaultFile
      /\ op[s].work \in Records /\ op[s].events \in Seq(Event)
      /\ op[s].job \in {"records"} \cup Wrapper
      /\ op[s].job \in Wrapper => ring[s] \in Keyring
      BY <1>1 DEF CallOK, Call
<1>3. file' \in VaultFile /\ current' \in [Wrapper -> Secret \cup {None}]
  <2>1. CASE op[s].job = "records"
        BY <1>2, <2>1 DEF Write, VaultFile, Inv, TypeOK
  <2>2. CASE op[s].job # "records"
    <3>1. ring[s] \in Keyring /\ op[s].job \in Wrapper
          BY <1>2, <2>2
    <3>2. ring[s].wrap[op[s].job].secret \in Secret
          BY <3>1 DEF Keyring, Wrapped
    <3> QED BY <1>2, <2>2, <3>1, <3>2 DEF Write, KeyringSaved, VaultFile, Inv, TypeOK
  <2> QED BY <2>1, <2>2
<1>4. /\ Completed(s, op[s].events)
      /\ UNCHANGED <<audit, ring, masterKey, now, minted, misses, lastMiss, faults>>
      BY DEF Write
<1>5. suspect' \in [Session -> SUBSET Wrapper] /\ lapsed' \subseteq Wrapper
  <2>1. /\ suspect \in [Session -> SUBSET Wrapper] /\ lapsed \subseteq Wrapper
        /\ current \in [Wrapper -> Secret \cup {None}]
        BY DEF Inv, TypeOK
  <2>2. CASE op[s].job = "records"
        BY <2>1, <2>2 DEF Write
  <2>3. CASE op[s].job # "records"
        BY <1>2, <2>1, <2>3 DEF Write, KeyringSaved
  <2> QED BY <2>2, <2>3
<1> QED BY <1>2, <1>3, <1>4, <1>5, CallCompleted DEF Inv, TypeOK

LEMMA AuditInv ==
    ASSUME Inv, NEW s \in Session, Audit(s)
    PROVE  Inv'
<1> DEFINE rest == Tail(op[s].events)
           c == IF rest = << >> THEN Idle ELSE [op[s] EXCEPT !.events = rest]
<1>1. /\ op[s] \in Call /\ op[s].pc = "auditing" /\ op[s].events # << >>
      BY DEF Audit, Inv, TypeOK, CallsWellFormed, CallOK
<1>2. rest \in Seq(Event)
      BY <1>1 DEF Call
<1>3. /\ audit' = [audit EXCEPT ![Head(op[s].events)] = @ + 1]
      /\ op' = [op EXCEPT ![s] = c]
      /\ UNCHANGED <<file, ring, masterKey, historyVars, now, minted>>
      BY <1>1 DEF Audit, Inv, TypeOK, Call
<1>4. c \in Call /\ CallOK(c, file, ring[s], masterKey[s])
  <2> HIDE DEF rest
  <2> QED BY <1>1, <1>2, IdleTyped DEF Call, CallOK, Idle
<1>5. audit' \in [Event -> Nat]
  <2>1. Head(op[s].events) \in Event
        BY <1>1 DEF Call
  <2> QED BY <1>3, <2>1 DEF Inv, TypeOK
<1> HIDE DEF c
<1>6. TypeOK'
      BY <1>3, <1>4, <1>5 DEF Inv, TypeOK, historyVars
<1>7. CallsWellFormed'
      BY <1>3, <1>4, OthersKept DEF Inv, TypeOK
<1> QED BY <1>6, <1>7 DEF Inv

\* A call that raises and a session that ends both leave an idle session.
LEMMA FaultInv ==
    ASSUME Inv, NEW s \in Session, Fail(s) \/ Crash(s)
    PROVE  Inv'
<1>1. /\ op' = [op EXCEPT ![s] = Idle]
      /\ ring' = ring \/ ring' = [ring EXCEPT ![s] = None]
      /\ masterKey' = masterKey \/ masterKey' = [masterKey EXCEPT ![s] = None]
      /\ faults' \in {faults, faults + 1}
      /\ UNCHANGED <<diskVars, now, minted, misses, lastMiss, current, lapsed, commits>>
      BY DEF Fail, Crash
<1>5. suspect' \in [Session -> SUBSET Wrapper]
      BY DEF Fail, Crash, Unsaved, Inv, TypeOK
<1>2. Idle \in Call /\ CallOK(Idle, file, ring'[s], masterKey'[s])
      BY IdleTyped DEF Idle, CallOK
<1>3. TypeOK'
  <2>1. /\ op' \in [Session -> Call] /\ faults' \in Nat
        /\ ring' \in [Session -> Keyring \cup {None}]
        /\ masterKey' \in [Session -> Key \cup {None}]
        BY <1>1, <1>2 DEF Inv, TypeOK
  <2> QED BY <1>1, <1>5, <2>1 DEF Inv, TypeOK, diskVars
<1>4. CallsWellFormed'
      BY <1>1, <1>2, OthersKept DEF Inv, TypeOK, diskVars
<1> QED BY <1>3, <1>4 DEF Inv

LEMMA TickInv ==
    ASSUME Inv, Tick
    PROVE  Inv'
BY DEF Tick, Inv, TypeOK, CallsWellFormed, diskVars, sessionVars, historyVars

LEMMA NextInv ==
    ASSUME Inv, [Next]_vars
    PROVE  Inv'
<1>1. ASSUME NEW s \in Session, NEW x \in Passphrase, BeginUnlock(s, "passphrase", x)
      PROVE  Inv'
      BY <1>1, BeginUnlockInv DEF Wrapper, Secret
<1>2. ASSUME NEW s \in Session, NEW x \in Code, BeginUnlock(s, "recovery", x)
      PROVE  Inv'
      BY <1>2, BeginUnlockInv DEF Wrapper, Secret
<1>3. ASSUME NEW s \in Session, NEW p \in Passphrase, ChangePassphrase(s, p)
      PROVE  Inv'
      BY <1>3, RewrapInv DEF ChangePassphrase, Wrapper, Secret, Inv, TypeOK
<1>4. ASSUME NEW s \in Session, RotateRecoveryCode(s)
      PROVE  Inv'
  <2>1. PICK c \in Code \ minted : Rewrap(s, "recovery", c) /\ minted' = minted \cup {c}
        BY <1>4 DEF RotateRecoveryCode
  <2> QED BY <2>1, RewrapInv DEF Wrapper, Secret, Inv, TypeOK
<1>5. CASE UNCHANGED vars
      BY <1>5 DEF vars, Inv, TypeOK, CallsWellFormed, diskVars, sessionVars, historyVars
<1> QED BY <1>1, <1>2, <1>3, <1>4, <1>5, BeginCreateInv, FinishCreateInv,
           UnlockedInv, UnlockRefusedInv, LockInv, BeginUpsertInv, SealItemInv,
           BeginDeleteInv, ReloadInv, WriteInv, AuditInv, FaultInv, TickInv
        DEF Next

LEMMA InitInv == Init => Inv
BY IdleTyped DEF Init, Inv, TypeOK, CallsWellFormed, CallOK, Idle

\* Every variable keeps its type and every call under way finds the variables
\* it needs: no interleaving of the steps of VaultService makes one read a
\* keyring, a key or a file that is not there.
THEOREM TypeCorrect == Spec => []TypeOK
<1>1. Inv => TypeOK
      BY DEF Inv
<1> QED BY <1>1, InitInv, NextInv, PTL DEF Spec

-----------------------------------------------------------------------------
(* Every step, reduced to what it does to keyrings, keys and files.        *)

\* A step that neither writes the file nor makes a keyring: sessions read the
\* file, lose a key or a keyring, or do something else.
QuietStep ==
    /\ file' = file /\ now' \in Nat /\ now <= now'
    /\ UNCHANGED <<misses, lastMiss, current>>
    /\ \A t \in Session :
          /\ op'[t].snap \in {None, op[t].snap, file}
          /\ ring'[t] \in {None, ring[t]}
          /\ masterKey'[t] \in {None, masterKey[t]}
          /\ masterKey'[t] # None => ring'[t] = ring[t]

\* The session gives up what it had read.
CallOver(s) == /\ op'[s].snap = None
               /\ \A t \in Session \ {s} : op'[t] = op[t]

LEMMA CompletedOver ==
    ASSUME Inv, NEW s \in Session, NEW events, Completed(s, events)
    PROVE  CallOver(s)
BY DEF Inv, TypeOK, Completed, CallOver, Idle

\* BeginCreate, BeginUnlock, BeginUpsert, BeginDelete, SealItem, Reload, Audit.
LEMMA QuietCalls ==
    ASSUME Inv, NEW s \in Session,
           \/ BeginCreate(s)
           \/ \E w \in Wrapper, x \in Secret : BeginUnlock(s, w, x)
           \/ \E batch \in Batch : BeginUpsert(s, batch)
           \/ \E id \in RecordId : BeginDelete(s, id)
           \/ SealItem(s) \/ Reload(s) \/ Audit(s)
    PROVE  QuietStep
<1>1. /\ file' = file /\ now' = now /\ ring' = ring /\ masterKey' = masterKey
      /\ UNCHANGED <<misses, lastMiss, current>>
      BY DEF BeginCreate, BeginUnlock, BeginUpsert, BeginDelete, SealItem,
             Reload, Audit, diskVars, historyVars
<1>2. op[s] \in Call /\ now \in Nat
      BY DEF Inv, TypeOK
<1>3. ASSUME NEW t \in Session
      PROVE  op'[t].snap \in {None, op[t].snap, file}
  <2>1. CASE t = s
    <3>0. op \in [Session -> Call]
          BY DEF Inv, TypeOK
    <3>1. CASE BeginCreate(s)
          BY <2>1, <3>0, <3>1 DEF BeginCreate, Idle
    <3>u. CASE \E w \in Wrapper, x \in Secret : BeginUnlock(s, w, x)
      <4>1. PICK w \in Wrapper, x \in Secret : BeginUnlock(s, w, x)
            BY <3>u
      <4> QED BY <2>1, <3>0, <4>1 DEF BeginUnlock, Idle
    <3>2. CASE \E batch \in Batch : BeginUpsert(s, batch)
      <4>1. PICK batch \in Batch : BeginUpsert(s, batch)
            BY <3>2
      <4> QED BY <2>1, <3>0, <4>1 DEF BeginUpsert, Idle
    <3>d. CASE \E id \in RecordId : BeginDelete(s, id)
      <4>1. PICK id \in RecordId : BeginDelete(s, id)
            BY <3>d
      <4> QED BY <2>1, <3>0, <4>1 DEF BeginDelete, Idle
    <3>3. CASE SealItem(s)
      <4>1. op \in [Session -> Call]
            BY DEF Inv, TypeOK
      <4> QED BY <1>2, <2>1, <3>3, <4>1 DEF SealItem, Call
    <3>4. CASE Reload(s)
      <4>1. op \in [Session -> Call]
            BY DEF Inv, TypeOK
      <4> QED BY <1>2, <2>1, <3>4, <4>1 DEF Reload, Call
    <3>5. CASE Audit(s)
          BY <1>2, <2>1, <3>5 DEF Audit, Inv, TypeOK, Call, Idle
    <3> QED BY <3>1, <3>u, <3>2, <3>d, <3>3, <3>4, <3>5
  <2>2. CASE t # s
        BY <2>2 DEF BeginCreate, BeginUnlock, BeginUpsert, BeginDelete,
           SealItem, Reload, Audit, Inv, TypeOK
  <2> QED BY <2>1, <2>2
<1> QED BY <1>1, <1>2, <1>3 DEF QuietStep

\* Lock, Fail, Crash.
LEMMA QuietLosses ==
    ASSUME Inv, NEW s \in Session, Lock(s) \/ Fail(s) \/ Crash(s)
    PROVE  QuietStep
<1>1. /\ file' = file /\ now' = now /\ now \in Nat
      /\ UNCHANGED <<misses, lastMiss, current>>
      BY DEF Lock, Fail, Crash, diskVars, Inv, TypeOK
<1>2. CallOver(s)
  <2>1. CASE Lock(s)
        BY <2>1, CompletedOver DEF Lock
  <2>2. CASE Fail(s) \/ Crash(s)
        BY <2>2 DEF Fail, Crash, CallOver, Idle, Inv, TypeOK
  <2> QED BY <2>1, <2>2
<1>3. ASSUME NEW t \in Session
      PROVE  /\ ring'[t] \in {None, ring[t]}
             /\ masterKey'[t] \in {None, masterKey[t]}
             /\ masterKey'[t] # None => ring'[t] = ring[t]
      BY DEF Lock, Fail, Crash, Inv, TypeOK
<1> QED BY <1>1, <1>2, <1>3 DEF QuietStep, CallOver

LEMMA StepKinds ==
    ASSUME Inv, [Next]_vars
    PROVE  \/ QuietStep
           \/ \E s \in Session :
                 \/ FinishCreate(s) \/ Unlocked(s) \/ UnlockRefused(s) \/ Write(s)
                 \/ \E w \in Wrapper, x \in Secret : Rewrap(s, w, x)
<1>1. ASSUME NEW s \in Session, NEW x \in Passphrase, BeginUnlock(s, "passphrase", x)
      PROVE  QuietStep
      BY <1>1, QuietCalls DEF Wrapper, Secret
<1>2. ASSUME NEW s \in Session, NEW x \in Code, BeginUnlock(s, "recovery", x)
      PROVE  QuietStep
      BY <1>2, QuietCalls DEF Wrapper, Secret
<1>3. ASSUME NEW s \in Session, NEW p \in Passphrase, ChangePassphrase(s, p)
      PROVE  \E w \in Wrapper, x \in Secret : Rewrap(s, w, x)
      BY <1>3 DEF ChangePassphrase, Wrapper, Secret
<1>4. ASSUME NEW s \in Session, RotateRecoveryCode(s)
      PROVE  \E w \in Wrapper, x \in Secret : Rewrap(s, w, x)
      BY <1>4 DEF RotateRecoveryCode, Wrapper, Secret
<1>5. CASE Tick
      BY <1>5 DEF Tick, QuietStep, Inv, TypeOK, diskVars, sessionVars, historyVars
<1>6. CASE UNCHANGED vars
      BY <1>6 DEF vars, QuietStep, Inv, TypeOK, diskVars, sessionVars, historyVars
<1> QED BY <1>1, <1>2, <1>3, <1>4, <1>5, <1>6, QuietCalls, QuietLosses DEF Next
-----------------------------------------------------------------------------
(* Keyrings.                                                               *)

\* KeyringsSound, and what makes it inductive: a session's key is the key its
\* own keyring was made from, so a re-wrapped keyring stays sound.
SoundInv ==
    /\ KeyringsSound
    /\ \A s \in Session :
          masterKey[s] # None => ring[s] # None /\ ring[s].check = masterKey[s]

LEMMA SoundStep ==
    ASSUME Inv, SoundInv, [Next]_vars
    PROVE  SoundInv'
<1>1. CASE QuietStep
      BY <1>1 DEF QuietStep, SoundInv, KeyringsSound
<1>2. ASSUME NEW s \in Session, FinishCreate(s)
      PROVE  SoundInv'
  <2>1. PICK p \in Passphrase, c \in Code \ minted, k \in Key \ minted :
          /\ file' = [ring |-> NewRing(p, c, k), records |-> NoRecords,
                      attempts |-> NewAttempts]
          /\ ring' = [ring EXCEPT ![s] = NewRing(p, c, k)]
          /\ masterKey' = [masterKey EXCEPT ![s] = k]
        BY <1>2 DEF FinishCreate
  <2>2. /\ RingSound(NewRing(p, c, k)) /\ NewRing(p, c, k) # None
        /\ NewRing(p, c, k).check = k
        BY NewRingTyped, NoneAssumption DEF NewRing
  <2>3. CallOver(s)
        BY <1>2, CompletedOver DEF FinishCreate
  <2> QED BY <2>1, <2>2, <2>3 DEF SoundInv, KeyringsSound, CallOver, Inv, TypeOK
<1>3. ASSUME NEW s \in Session, Unlocked(s)
      PROVE  SoundInv'
  <2> DEFINE r == op[s].snap.ring
             w == op[s].job
  <2>1. op[s].snap \in VaultFile /\ w \in Wrapper /\ r \in Keyring
        BY <1>3, DerivingRead DEF Unlocked
  <2>2. op[s].snap # None /\ r # None
        BY <2>1, NoneAssumption
  <2>3. RingSound(r) /\ r.wrap[w].key = r.check
        BY <2>1, <2>2 DEF SoundInv, KeyringsSound, RingSound
  <2>4. file'.ring = r
        BY <1>3, <2>1 DEF Unlocked, VaultFile
  <2>5. ring' = [ring EXCEPT ![s] = r] /\ masterKey' = [masterKey EXCEPT ![s] = r.check]
        BY <1>3, <2>3 DEF Unlocked
  <2>6. CallOver(s)
        BY <1>3, CompletedOver DEF Unlocked
  <2> HIDE DEF r
  <2> QED BY <2>2, <2>3, <2>4, <2>5, <2>6
          DEF SoundInv, KeyringsSound, CallOver, Inv, TypeOK
<1>4. ASSUME NEW s \in Session, UnlockRefused(s)
      PROVE  SoundInv'
  <2>1. op[s].snap \in VaultFile /\ op[s].snap # None
        BY <1>4, DerivingRead, NoneAssumption DEF UnlockRefused
  <2>2. file'.ring = op[s].snap.ring
        BY <1>4, <2>1 DEF UnlockRefused, VaultFile
  <2>3. CallOver(s) /\ UNCHANGED <<ring, masterKey>>
        BY <1>4, CompletedOver DEF UnlockRefused
  <2> QED BY <2>1, <2>2, <2>3 DEF SoundInv, KeyringsSound, CallOver
<1>5. ASSUME NEW s \in Session, Write(s)
      PROVE  SoundInv'
  <2>1. /\ op[s].snap \in VaultFile /\ op[s].snap # None
        /\ op[s].job # "records" => ring[s] \in Keyring /\ ring[s] # None
        BY <1>5, NoneAssumption DEF Write, Inv, CallsWellFormed, CallOK
  <2>2. file'.ring = IF op[s].job = "records" THEN op[s].snap.ring ELSE ring[s]
        BY <1>5, <2>1 DEF Write, VaultFile
  <2>3. CallOver(s) /\ UNCHANGED <<ring, masterKey>>
        BY <1>5, CompletedOver DEF Write
  <2> QED BY <2>1, <2>2, <2>3 DEF SoundInv, KeyringsSound, CallOver
<1>6. ASSUME NEW s \in Session, NEW w \in Wrapper, NEW x \in Secret, Rewrap(s, w, x)
      PROVE  SoundInv'
  <2> DEFINE r == [ring[s] EXCEPT !.wrap[w] = [secret |-> x, key |-> masterKey[s]]]
  <2>1. /\ ring[s] \in Keyring /\ RingSound(ring[s]) /\ ring[s].check = masterKey[s]
        /\ masterKey[s] \in Key
        BY <1>6 DEF Rewrap, SoundInv, KeyringsSound, Inv, TypeOK
  <2>2. r \in Keyring /\ r # None
        BY <2>1, RewrapTyped, NoneAssumption
  <2>3. RingSound(r) /\ r.check = masterKey[s]
        BY <2>1 DEF RingSound, Keyring, Wrapped
  <2>4. /\ ring' = [ring EXCEPT ![s] = r] /\ UNCHANGED <<file, masterKey>>
        /\ \A t \in Session : op'[t].snap \in {None, op[t].snap}
        BY <1>6 DEF Rewrap, diskVars, Inv, TypeOK, Idle
  <2> HIDE DEF r
  <2> QED BY <2>2, <2>3, <2>4 DEF SoundInv, KeyringsSound, Inv, TypeOK
<1> QED BY <1>1, <1>2, <1>3, <1>4, <1>5, <1>6, StepKinds

\* However sessions interleave, and even when two of them create the file at
\* once, every keyring keeps both its wrappers around one master key.
THEOREM KeyringsStaySound == Spec => []KeyringsSound
<1>1. Init => SoundInv
      BY DEF Init, SoundInv, KeyringsSound, Idle
<1>2. SoundInv => KeyringsSound
      BY DEF SoundInv
<1> QED BY <1>1, <1>2, SoundStep, InitInv, NextInv, PTL DEF Spec
-----------------------------------------------------------------------------
(* The throttle.                                                           *)

\* NeverLockedForGood, stated of every limiter state that may still be saved.
TimesInv ==
    /\ file # None => Recorded(file.attempts, now)
    /\ \A s \in Session :
          op[s].snap # None => Recorded(op[s].snap.attempts, now)

LEMMA TimesStep ==
    ASSUME Inv, TimesInv, [Next]_vars
    PROVE  TimesInv'
<1>0. now \in Nat
      BY DEF Inv, TypeOK
<1>1. CASE QuietStep
  <2>1. /\ file # None => Recorded(file.attempts, now')
        /\ \A t \in Session :
              op[t].snap # None => Recorded(op[t].snap.attempts, now')
    <3>1. file # None => file.attempts \in Attempts
          BY DEF Inv, TypeOK, VaultFile
    <3>2. \A t \in Session : op[t].snap # None => op[t].snap.attempts \in Attempts
          BY DEF Inv, TypeOK, Call, VaultFile
    <3> QED BY <1>0, <1>1, <3>1, <3>2, RecordedKept DEF QuietStep, TimesInv
  <2> QED BY <1>1, <2>1 DEF QuietStep, TimesInv
<1>2. ASSUME NEW s \in Session, FinishCreate(s)
      PROVE  TimesInv'
  <2>1. file'.attempts = NewAttempts /\ now' = now /\ CallOver(s)
        BY <1>2, CompletedOver DEF FinishCreate
  <2>2. Recorded(NewAttempts, now)
        BY <1>0, LimiterAssumption DEF Recorded, NewAttempts
  <2> QED BY <2>1, <2>2 DEF TimesInv, CallOver
<1>3. ASSUME NEW s \in Session, Unlocked(s) \/ UnlockRefused(s)
      PROVE  TimesInv'
  <2> DEFINE st == op[s].snap.attempts
  <2>1. op[s].snap \in VaultFile /\ op[s].snap # None /\ st \in Attempts
        BY <1>3, DerivingRead, NoneAssumption DEF Unlocked, UnlockRefused
  <2>2. Recorded(st, now)
        BY <2>1 DEF TimesInv
  <2>3. file'.attempts \in {RecordSuccess(st), RecordFailure(st, now)}
        BY <1>3, <2>1 DEF Unlocked, UnlockRefused, VaultFile
  <2>4. now' = now /\ CallOver(s)
        BY <1>3, CompletedOver DEF Unlocked, UnlockRefused
  <2> HIDE DEF st
  <2> QED BY <1>0, <2>1, <2>2, <2>3, <2>4, RecordedKept DEF TimesInv, CallOver
<1>4. ASSUME NEW s \in Session, Write(s)
      PROVE  TimesInv'
  <2>1. op[s].snap \in VaultFile /\ op[s].snap # None
        BY <1>4, NoneAssumption DEF Write, Inv, CallsWellFormed, CallOK
  <2>2. file'.attempts = op[s].snap.attempts
        BY <1>4, <2>1 DEF Write, VaultFile
  <2>3. now' = now /\ CallOver(s)
        BY <1>4, CompletedOver DEF Write
  <2> QED BY <2>1, <2>2, <2>3 DEF TimesInv, CallOver
<1>5. ASSUME NEW s \in Session, NEW w \in Wrapper, NEW x \in Secret, Rewrap(s, w, x)
      PROVE  TimesInv'
      BY <1>5 DEF Rewrap, TimesInv, diskVars, Inv, TypeOK, Idle
<1> QED BY <1>1, <1>2, <1>3, <1>4, <1>5, StepKinds

\* No history of failures, lost updates of the counter included, bars the
\* owner for longer than the longer of the lockout and the backoff ceiling.
THEOREM OwnerGetsBackIn == Spec => []NeverLockedForGood
<1>1. Init => TimesInv
      BY DEF Init, TimesInv, Idle
<1>2. Inv /\ TimesInv => NeverLockedForGood
  <2> SUFFICES ASSUME Inv, TimesInv, file # None
               PROVE  MayAttempt(file.attempts, now + LongestWait)
      BY DEF NeverLockedForGood
  <2>1. file.attempts \in Attempts /\ now \in Nat /\ Recorded(file.attempts, now)
        BY DEF Inv, TypeOK, VaultFile, TimesInv
  <2> QED BY <2>1, LongWaitSuffices
<1> QED BY <1>1, <1>2, TimesStep, InitInv, NextInv, PTL DEF Spec
-----------------------------------------------------------------------------
(* A vault that exists.                                                    *)

\* Everybody's keyring is of the one master key of the file.
OneKeyInv ==
    /\ file # None
    /\ \A s \in Session :
          /\ op[s].pc # "creating"
          /\ op[s].snap # None => op[s].snap.ring.check = file.ring.check
          /\ ring[s] # None => ring[s].check = file.ring.check

\* Only BeginCreate starts a creation, and only when there is no file.
LEMMA NoCreation ==
    ASSUME Inv, OneKeyInv, [Next]_vars
    PROVE  \A s \in Session : op'[s].pc # "creating"
<1> SUFFICES ASSUME NEW t \in Session PROVE op'[t].pc # "creating"
    OBVIOUS
<1>0. /\ op \in [Session -> Call] /\ op[t] \in Call /\ op[t].pc # "creating" 
      /\ file # None
      BY DEF Inv, TypeOK, OneKeyInv
<1>1. ASSUME NEW s \in Session, NEW events \in Seq(Event), Completed(s, events)
      PROVE  op'[t].pc # "creating"
      BY <1>0, <1>1, CompletedTyped DEF Inv
<1>2. ASSUME NEW s \in Session, NEW w \in Wrapper, NEW x \in Secret,
             BeginUnlock(s, w, x) \/ Rewrap(s, w, x)
      PROVE  op'[t].pc # "creating"
      BY <1>0, <1>2 DEF BeginUnlock, Rewrap, Idle
<1>3. ASSUME NEW s \in Session,
             \/ \E batch \in Batch : BeginUpsert(s, batch)
             \/ \E id \in RecordId : BeginDelete(s, id)
      PROVE  op'[t].pc # "creating"
      BY <1>0, <1>3 DEF BeginUpsert, BeginDelete, Idle
<1>4. ASSUME NEW s \in Session, SealItem(s)
      PROVE  op'[t].pc # "creating"
      BY <1>0, <1>4 DEF SealItem, Call
<1>5. ASSUME NEW s \in Session, Reload(s)
      PROVE  op'[t].pc # "creating"
      BY <1>0, <1>5 DEF Reload, Call
<1>6. ASSUME NEW s \in Session, Audit(s)
      PROVE  op'[t].pc # "creating"
      BY <1>0, <1>6 DEF Audit, Call, Idle
<1>7. ASSUME NEW s \in Session, Fail(s) \/ Crash(s)
      PROVE  op'[t].pc # "creating"
      BY <1>0, <1>7 DEF Fail, Crash, Idle
<1>8. ASSUME NEW s \in Session,
             FinishCreate(s) \/ Unlocked(s) \/ UnlockRefused(s) \/ Lock(s) \/ Write(s)
      PROVE  op'[t].pc # "creating"
  <2>1. op[s].events \in Seq(Event)
        BY DEF Inv, TypeOK, Call
  <2> QED BY <1>1, <1>8, <2>1, VaultEventTyped
          DEF FinishCreate, Unlocked, UnlockRefused, Lock, Write
<1>9. CASE Tick \/ UNCHANGED vars
      BY <1>0, <1>9 DEF Tick, vars, sessionVars
<1>10. ASSUME NEW s \in Session
       PROVE  ~BeginCreate(s)
       BY <1>0 DEF BeginCreate
<1>11. ASSUME NEW s \in Session,
              \/ \E x \in Passphrase : BeginUnlock(s, "passphrase", x)
              \/ \E x \in Code : BeginUnlock(s, "recovery", x)
       PROVE  op'[t].pc # "creating"
       BY <1>2, <1>11 DEF Wrapper, Secret
<1>12. ASSUME NEW s \in Session,
              (\E p \in Passphrase : ChangePassphrase(s, p)) \/ RotateRecoveryCode(s)
       PROVE  op'[t].pc # "creating"
       BY <1>2, <1>12 DEF ChangePassphrase, RotateRecoveryCode, Wrapper, Secret
<1> QED BY <1>3, <1>4, <1>5, <1>6, <1>7, <1>8, <1>9, <1>10, <1>11, <1>12 DEF Next

LEMMA OneKeyStep ==
    ASSUME Inv, OneKeyInv, [Next]_vars
    PROVE  OneKeyInv' /\ file'.ring.check = file.ring.check
<1> DEFINE k == file.ring.check
<1>0. \A s \in Session : op'[s].pc # "creating"
      BY NoCreation
<1>1. CASE QuietStep
      BY <1>0, <1>1 DEF QuietStep, OneKeyInv
<1>2. ASSUME NEW s \in Session PROVE ~FinishCreate(s)
      BY DEF OneKeyInv, FinishCreate
<1>3. ASSUME NEW s \in Session, Unlocked(s) \/ UnlockRefused(s) \/ Write(s)
      PROVE  OneKeyInv' /\ file'.ring.check = k
  <2>1. /\ op[s].snap \in VaultFile /\ op[s].snap # None /\ op[s].snap.ring # None
        /\ Write(s) /\ op[s].job # "records" => ring[s] \in Keyring /\ ring[s] # None
        BY <1>3, DerivingRead, NoneAssumption
           DEF Unlocked, UnlockRefused, Write, Inv, CallsWellFormed, CallOK, VaultFile
  <2>2. op[s].snap.ring.check = k /\ (ring[s] # None => ring[s].check = k)
        BY <2>1 DEF OneKeyInv
  <2>3. /\ file' \in VaultFile
        /\ file'.ring = op[s].snap.ring \/ (ring[s] # None /\ file'.ring = ring[s])
    <3>1. CASE Unlocked(s)
          BY <2>1, <3>1, AttemptsTyped DEF Unlocked, VaultFile
    <3>2. CASE UnlockRefused(s)
          BY <2>1, <3>2, AttemptsTyped DEF UnlockRefused, VaultFile, Inv, TypeOK
    <3>3. CASE Write(s)
      <4>1. op[s].work \in Records
            BY DEF Inv, TypeOK, Call
      <4> QED BY <2>1, <3>3, <4>1 DEF Write, VaultFile
    <3> QED BY <1>3, <3>1, <3>2, <3>3
  <2>4. file' # None /\ file'.ring.check = k
        BY <2>2, <2>3, NoneAssumption
  <2>5. CallOver(s)
        BY <1>3, CompletedOver DEF Unlocked, UnlockRefused, Write
  <2>6. ring' = ring \/ ring' = [ring EXCEPT ![s] = op[s].snap.ring]
        BY <1>3 DEF Unlocked, UnlockRefused, Write
  <2>7. \A t \in Session : ring'[t] # None => ring'[t].check = k
        BY <2>2, <2>6 DEF OneKeyInv, Inv, TypeOK
  <2>8. \A t \in Session : op'[t].snap # None => op'[t].snap.ring.check = k
        BY <2>5 DEF OneKeyInv, CallOver
  <2> QED BY <1>0, <2>4, <2>7, <2>8 DEF OneKeyInv
<1>4. ASSUME NEW s \in Session, NEW w \in Wrapper, NEW x \in Secret, Rewrap(s, w, x)
      PROVE  OneKeyInv' /\ file'.ring.check = k
  <2> DEFINE r == [ring[s] EXCEPT !.wrap[w] = [secret |-> x, key |-> masterKey[s]]]
  <2>1. ring[s] \in Keyring /\ ring[s] # None /\ ring[s].check = k
        BY <1>4 DEF Rewrap, Inv, TypeOK, OneKeyInv
  <2>2. r.check = k
        BY <2>1 DEF Keyring
  <2>3. /\ ring' = [ring EXCEPT ![s] = r] /\ file' = file
        /\ \A t \in Session : op'[t].snap \in {None, op[t].snap}
        BY <1>4 DEF Rewrap, diskVars, Inv, TypeOK, Idle
  <2> HIDE DEF r
  <2> QED BY <1>0, <2>2, <2>3 DEF OneKeyInv, Inv, TypeOK
<1> QED BY <1>1, <1>2, <1>3, <1>4, StepKinds

LEMMA ExistingInit == InitExisting => Inv /\ SoundInv /\ OneKeyInv
<1> SUFFICES ASSUME InitExisting PROVE Inv /\ SoundInv /\ OneKeyInv
    OBVIOUS
<1>1. PICK p \in Passphrase, c \in Code, k \in Key :
        /\ file = [ring |-> NewRing(p, c, k), records |-> NoRecords,
                   attempts |-> NewAttempts]
        /\ minted = {c, k}
        /\ current = [w \in Wrapper |-> IF w = "passphrase" THEN p ELSE c]
      BY DEF InitExisting
<1>2. file \in VaultFile /\ RingSound(file.ring) /\ file # None
  <2>1. file \in VaultFile /\ RingSound(file.ring)
        BY <1>1, NewRingTyped, NoRecordsTyped, AttemptsTyped DEF VaultFile
  <2> QED BY <2>1, NoneAssumption
<1>3. TypeOK
      BY <1>1, <1>2, IdleTyped DEF InitExisting, TypeOK, Secret
<1>4. CallsWellFormed
      BY DEF InitExisting, CallsWellFormed, CallOK, Idle
<1>5. SoundInv /\ OneKeyInv
      BY <1>2 DEF InitExisting, SoundInv, KeyringsSound, OneKeyInv, Idle
<1> QED BY <1>3, <1>4, <1>5 DEF Inv

\* Once a vault exists, no interleaving of sessions changes its master key.
THEOREM ExistingKeyStable == SpecExisting => VaultKeyStable
<1>1. Inv /\ OneKeyInv /\ [Next]_vars
      => [file # None => file'.ring.check = file.ring.check]_vars
      BY OneKeyStep
<1> QED BY <1>1, ExistingInit, NextInv, OneKeyStep, PTL
        DEF SpecExisting, VaultKeyStable

-----------------------------------------------------------------------------
(***************************************************************************)
(* The records of an existing vault stay readable under any interleaving   *)
(* of its sessions, as long as callers do not relabel: updates may be lost *)
(* (a stale map is written back whole), but what is in the file opens.     *)
(***************************************************************************)

\* A record that a request of this id, sealed under k, left behind.
GoodRecord(k, id, rec) ==
    \E q \in Request :
        /\ q.id = id
        /\ rec.label = q.label /\ rec.kind = q.kind
        /\ rec.env = SealUnder(k, q)
        /\ rec.sha = IF q.bytes THEN q.payload ELSE None

GoodRecords(k, recs) ==
    \A id \in RecordId : recs[id] # None => GoodRecord(k, id, recs[id])

\* Every records map that is saved or may still be saved.
RecordsInv ==
    /\ GoodRecords(file.ring.check, file.records)
    /\ \A s \in Session :
          /\ GoodRecords(file.ring.check, op[s].work)
          /\ op[s].snap # None => GoodRecords(file.ring.check, op[s].snap.records)

\* An item stored under the key of the vault keeps a good map good.
LEMMA StoreItemGood ==
    ASSUME StableRequests, NEW k \in Key, NEW recs \in Records,
           NEW q \in Request, GoodRecords(k, recs)
    PROVE  GoodRecords(k, StoreItem(recs, k, q))
<1> DEFINE new == StoreItem(recs, k, q)
           old == recs[q.id]
<1>1. q.id \in RecordId /\ q.bytes \in BOOLEAN
      BY ConstantsAssumption
<1>2. GoodRecord(k, q.id, new[q.id])
  <2>1. /\ new[q.id].label = IF old = None THEN q.label ELSE old.label
        /\ new[q.id].kind = IF old = None THEN q.kind ELSE old.kind
        /\ new[q.id].env = SealUnder(k, q)
        /\ new[q.id].sha = IF q.bytes THEN q.payload
                           ELSE IF old = None THEN None ELSE old.sha
        BY <1>1 DEF StoreItem, Records
  <2>2. CASE old = None
        BY <2>1, <2>2 DEF GoodRecord
  <2>3. CASE old # None
    <3>1. PICK q0 \in Request :
            /\ q0.id = q.id
            /\ old.label = q0.label /\ old.kind = q0.kind
            /\ old.sha = IF q0.bytes THEN q0.payload ELSE None
          BY <1>1, <2>3 DEF GoodRecords, GoodRecord
    <3>2. q0.label = q.label /\ q0.kind = q.kind /\ q0.bytes = q.bytes
          BY <3>1 DEF StableRequests
    <3> QED BY <2>1, <2>3, <3>1, <3>2 DEF GoodRecord
  <2> QED BY <2>2, <2>3
<1>3. \A id \in RecordId \ {q.id} : new[id] = recs[id]
      BY DEF StoreItem, Records
<1> QED BY <1>2, <1>3 DEF GoodRecords

\* Where the working map of a call comes from.
LEMMA WorkStep ==
    ASSUME StableRequests, Inv, SoundInv, OneKeyInv, RecordsInv, [Next]_vars,
           NEW t \in Session
    PROVE  GoodRecords(file.ring.check, op'[t].work)
<1> DEFINE k == file.ring.check
<1>0. /\ op \in [Session -> Call] /\ op[t] \in Call /\ GoodRecords(k, op[t].work)
      /\ file \in VaultFile /\ GoodRecords(k, file.records)
      BY DEF Inv, TypeOK, OneKeyInv, RecordsInv
<1>1. GoodRecords(k, NoRecords) /\ Idle.work = NoRecords
      BY DEF GoodRecords, NoRecords, Idle
<1>2. ASSUME NEW s \in Session, NEW events, Completed(s, events)
      PROVE  GoodRecords(k, op'[t].work)
      BY <1>0, <1>1, <1>2 DEF Completed, Idle
<1>3. ASSUME NEW s \in Session, NEW w \in Wrapper, NEW x \in Secret,
             BeginUnlock(s, w, x) \/ Rewrap(s, w, x)
      PROVE  GoodRecords(k, op'[t].work)
      BY <1>0, <1>1, <1>3 DEF BeginUnlock, Rewrap, Idle
<1>4. ASSUME NEW s \in Session, \E batch \in Batch : BeginUpsert(s, batch)
      PROVE  GoodRecords(k, op'[t].work)
      BY <1>0, <1>1, <1>4 DEF BeginUpsert, Idle
<1>5. ASSUME NEW s \in Session, \E id \in RecordId : BeginDelete(s, id)
      PROVE  GoodRecords(k, op'[t].work)
  <2>0. PICK id \in RecordId : BeginDelete(s, id)
        BY <1>5
  <2>1. GoodRecords(k, [file.records EXCEPT ![id] = None])
        BY <1>0 DEF GoodRecords, VaultFile, Records
  <2> QED BY <1>0, <1>1, <2>0, <2>1 DEF BeginDelete, Idle
<1>6. ASSUME NEW s \in Session, SealItem(s)
      PROVE  GoodRecords(k, op'[t].work)
  <2> DEFINE q == Head(op[s].todo)
  <2>1. /\ op[s] \in Call /\ op[s].todo # << >> /\ op[s].pc = "preparing"
        /\ CallOK(op[s], file, ring[s], masterKey[s])
        BY <1>6 DEF SealItem, Inv, TypeOK, CallsWellFormed
  <2>2. q \in Request /\ op[s].work \in Records /\ GoodRecords(k, op[s].work)
        BY <2>1 DEF Call, RecordsInv
  <2>3. masterKey[s] \in Key /\ masterKey[s] = k
    <3>1. masterKey[s] \in Key /\ masterKey[s] # None
          BY <2>1, ConstantsAssumption DEF CallOK
    <3> QED BY <3>1 DEF SoundInv, OneKeyInv
  <2>4. GoodRecords(k, StoreItem(op[s].work, masterKey[s], q))
        BY <2>2, <2>3, StoreItemGood
  <2>5. /\ t = s => op'[t].work = StoreItem(op[s].work, masterKey[s], q)
        /\ t # s => op'[t] = op[t]
        BY <1>0, <1>6, <2>1 DEF SealItem, Call
  <2> QED BY <1>0, <2>4, <2>5
<1>7. ASSUME NEW s \in Session, Reload(s) \/ Audit(s) \/ Fail(s) \/ Crash(s)
      PROVE  GoodRecords(k, op'[t].work)
  <2>1. op'[t].work \in {op[t].work, NoRecords}
    <3>1. CASE Reload(s)
          BY <1>0, <3>1 DEF Reload, Call
    <3>2. CASE Audit(s)
          BY <1>0, <1>1, <3>2 DEF Audit, Call
    <3>3. CASE Fail(s) \/ Crash(s)
          BY <1>0, <1>1, <3>3 DEF Fail, Crash
    <3> QED BY <1>7, <3>1, <3>2, <3>3
  <2> QED BY <1>0, <1>1, <2>1
<1>8. ASSUME NEW s \in Session,
             FinishCreate(s) \/ Unlocked(s) \/ UnlockRefused(s) \/ Lock(s) \/ Write(s)
      PROVE  GoodRecords(k, op'[t].work)
      BY <1>2, <1>8 DEF FinishCreate, Unlocked, UnlockRefused, Lock, Write
<1>9. CASE Tick \/ UNCHANGED vars
      BY <1>0, <1>9 DEF Tick, vars, sessionVars
<1>10. ASSUME NEW s \in Session
       PROVE  ~BeginCreate(s)
       BY DEF BeginCreate, OneKeyInv
<1>11. ASSUME NEW s \in Session,
              \/ \E x \in Passphrase : BeginUnlock(s, "passphrase", x)
              \/ \E x \in Code : BeginUnlock(s, "recovery", x)
       PROVE  GoodRecords(k, op'[t].work)
       BY <1>3, <1>11 DEF Wrapper, Secret
<1>12. ASSUME NEW s \in Session,
              (\E p \in Passphrase : ChangePassphrase(s, p)) \/ RotateRecoveryCode(s)
       PROVE  GoodRecords(k, op'[t].work)
       BY <1>3, <1>12 DEF ChangePassphrase, RotateRecoveryCode, Wrapper, Secret
<1> QED BY <1>4, <1>5, <1>6, <1>7, <1>8, <1>9, <1>10, <1>11, <1>12 DEF Next

LEMMA RecordsStep ==
    ASSUME StableRequests, Inv, SoundInv, OneKeyInv, RecordsInv, [Next]_vars
    PROVE  RecordsInv'
<1> DEFINE k == file.ring.check
<1>0. /\ file'.ring.check = k
      /\ \A t \in Session : GoodRecords(k, op'[t].work)
      BY OneKeyStep, WorkStep
<1>1. CASE QuietStep
      BY <1>0, <1>1 DEF QuietStep, RecordsInv
<1>2. ASSUME NEW s \in Session PROVE ~FinishCreate(s)
      BY DEF OneKeyInv, FinishCreate
<1>3. ASSUME NEW s \in Session, Unlocked(s) \/ UnlockRefused(s) \/ Write(s)
      PROVE  RecordsInv'
  <2>1. op[s].snap \in VaultFile /\ op[s].snap # None
        BY <1>3, DerivingRead, NoneAssumption
           DEF Unlocked, UnlockRefused, Write, Inv, CallsWellFormed, CallOK
  <2>2. file'.records \in {op[s].snap.records, op[s].work}
        BY <1>3, <2>1 DEF Unlocked, UnlockRefused, Write, VaultFile
  <2>3. GoodRecords(k, file'.records)
        BY <2>1, <2>2 DEF RecordsInv
  <2>4. CallOver(s)
        BY <1>3, CompletedOver DEF Unlocked, UnlockRefused, Write
  <2> QED BY <1>0, <2>3, <2>4 DEF RecordsInv, CallOver
<1>4. ASSUME NEW s \in Session, NEW w \in Wrapper, NEW x \in Secret, Rewrap(s, w, x)
      PROVE  RecordsInv'
  <2>1. file' = file /\ \A t \in Session : op'[t].snap \in {None, op[t].snap}
        BY <1>4 DEF Rewrap, diskVars, Inv, TypeOK, Idle
  <2> QED BY <1>0, <2>1 DEF RecordsInv
<1> QED BY <1>1, <1>2, <1>3, <1>4, StepKinds

LEMMA GoodReadable ==
    ASSUME Inv, SoundInv, OneKeyInv, RecordsInv
    PROVE  RecordsReadable
<1> SUFFICES ASSUME NEW s \in Session, NEW id \in RecordId,
                    masterKey[s] # None, file # None, file.records[id] # None
             PROVE  LET rec == file.records[id]
                    IN  /\ Opens(masterKey[s], id, rec)
                        /\ rec.sha # None => rec.sha = rec.env.payload
    BY DEF RecordsReadable
<1>1. masterKey[s] = file.ring.check
      BY DEF SoundInv, OneKeyInv
<1>2. GoodRecord(masterKey[s], id, file.records[id])
      BY <1>1 DEF RecordsInv, GoodRecords
<1> QED BY <1>2 DEF GoodRecord, Opens, SealUnder

\* With callers that do not relabel, every record of an existing vault opens
\* in every unlocked session, with the right fingerprint, however reads and
\* whole-file writes of any number of sessions, crashes and failures
\* interleave.
THEOREM StableRecordsReadable ==
    ASSUME StableRequests
    PROVE  SpecExisting => []RecordsReadable
<1>1. InitExisting => RecordsInv
  <2>1. InitExisting => /\ file.records = NoRecords
                        /\ \A s \in Session : op[s] = Idle
        BY DEF InitExisting
  <2> QED BY <2>1 DEF RecordsInv, GoodRecords, NoRecords, Idle
<1>2. Inv /\ SoundInv /\ OneKeyInv /\ RecordsInv /\ [Next]_vars
      => (Inv /\ SoundInv /\ OneKeyInv /\ RecordsInv)'
      BY NextInv, SoundStep, OneKeyStep, RecordsStep
<1>3. Inv /\ SoundInv /\ OneKeyInv /\ RecordsInv => RecordsReadable
      BY GoodReadable
<1> QED BY <1>1, <1>2, <1>3, ExistingInit, PTL DEF SpecExisting
-----------------------------------------------------------------------------
(***************************************************************************)
(* The audit directory, for any number of operations at once.  What a      *)
(* session has still to record is the list of its call, so the entries     *)
(* that are missing can be counted session by session.                     *)
(***************************************************************************)

Queue(c) == IF c.pc = "auditing" THEN c.events ELSE << >>

At(e, q) == {i \in DOMAIN q : q[i] = e}

\* Unwritten, of any calls.
Pending(calls, S, e) == UNION {{s} \X At(e, Queue(calls[s])) : s \in S}

LEMMA QueueTyped ==
    ASSUME NEW c \in Call
    PROVE  Queue(c) \in Seq(Event)
BY DEF Queue, Call

LEMMA AtFinite ==
    ASSUME NEW q \in Seq(Event), NEW e
    PROVE  /\ IsFiniteSet(At(e, q)) /\ Cardinality(At(e, q)) \in Nat
           /\ Occurrences(e, q) = Cardinality(At(e, q))
<1>1. IsFiniteSet(1..Len(q))
      BY FS_Interval
<1>2. At(e, q) \subseteq 1..Len(q)
      BY DEF At
<1> QED BY <1>1, <1>2, FS_Subset, FS_CardinalityType DEF Occurrences, At

LEMMA NoneOccurs ==
    ASSUME NEW e
    PROVE  Occurrences(e, << >>) = 0
<1>1. {i \in DOMAIN << >> : << >>[i] = e} = {}
      OBVIOUS
<1> QED BY <1>1, FS_EmptySet DEF Occurrences

\* The head of a list is one occurrence of itself.
LEMMA HeadOccurs ==
    ASSUME NEW q \in Seq(Event), q # << >>, NEW e
    PROVE  Occurrences(e, q) = Occurrences(e, Tail(q)) + (IF Head(q) = e THEN 1 ELSE 0)
<1> DEFINE S == At(e, Tail(q))
           T == At(e, q) \ {1}
           f == [i \in S |-> i + 1]
<1>1. /\ Tail(q) \in Seq(Event) /\ Len(Tail(q)) = Len(q) - 1 /\ Len(q) \in Nat \ {0}
      /\ \A i \in 1..Len(Tail(q)) : Tail(q)[i] = q[i + 1]
      OBVIOUS
<1>2. S = {i \in 1..(Len(q) - 1) : q[i + 1] = e}
      BY <1>1 DEF At
<1>3. T = {i \in 2..Len(q) : q[i] = e}
      BY <1>1 DEF At
<1> HIDE DEF S, T
<1>4. f \in Bijection(S, T)
  <2>1. f \in [S -> T]
        BY <1>1, <1>2, <1>3
  <2>2. \A a, b \in S : f[a] = f[b] => a = b
        BY <1>2
  <2>3. ASSUME NEW t \in T PROVE \E i \in S : f[i] = t
    <3>1. t - 1 \in S /\ f[t - 1] = t
          BY <1>1, <1>2, <1>3
    <3> QED BY <3>1
  <2> HIDE DEF f
  <2> QED BY <2>1, <2>2, <2>3 DEF Bijection, Injection, IsInjective, Surjection
<1>5. IsFiniteSet(S) /\ Cardinality(S) = Occurrences(e, Tail(q))
      BY <1>1, AtFinite DEF S
<1>6. Cardinality(T) = Cardinality(S)
      BY <1>4, <1>5, FS_Bijection DEF ExistsBijection
<1>7. Cardinality(T) = IF 1 \in At(e, q) THEN Occurrences(e, q) - 1 ELSE Occurrences(e, q)
  <2>1. IsFiniteSet(At(e, q)) /\ Occurrences(e, q) = Cardinality(At(e, q))
        BY AtFinite
  <2>2. Cardinality(At(e, q) \ {1}) = IF 1 \in At(e, q) THEN Cardinality(At(e, q)) - 1
                                                       ELSE Cardinality(At(e, q))
        BY <2>1, FS_RemoveElement
  <2> QED BY <2>1, <2>2 DEF T
<1>8. 1 \in At(e, q) <=> Head(q) = e
      BY <1>1 DEF At
<1>9. Occurrences(e, q) \in Nat /\ Occurrences(e, Tail(q)) \in Nat
      BY <1>1, OccurrencesTyped
<1> QED BY <1>5, <1>6, <1>7, <1>8, <1>9

\* What one session has to record counts apart from the others.
LEMMA PendingOf ==
    ASSUME NEW calls \in [Session -> Call], NEW s \in Session, NEW e
    PROVE  LET others == Pending(calls, Session \ {s}, e)
           IN  /\ Cardinality(others) \in Nat
               /\ Cardinality(Pending(calls, Session, e)) =
                    Cardinality(others) + Occurrences(e, Queue(calls[s]))
<1> DEFINE others == Pending(calls, Session \ {s}, e)
           mine == {s} \X At(e, Queue(calls[s]))
<1>1. \A t \in Session : /\ IsFiniteSet({t} \X At(e, Queue(calls[t])))
                         /\ Queue(calls[t]) \in Seq(Event)
  <2> TAKE t \in Session
  <2>1. Queue(calls[t]) \in Seq(Event)
        BY QueueTyped
  <2>2. IsFiniteSet(At(e, Queue(calls[t]))) /\ IsFiniteSet({t})
        BY <2>1, AtFinite, FS_Singleton
  <2> QED BY <2>1, <2>2, FS_Product
<1>2. IsFiniteSet(others)
  <2> DEFINE parts == {{t} \X At(e, Queue(calls[t])) : t \in Session \ {s}}
             f == [t \in Session \ {s} |-> {t} \X At(e, Queue(calls[t]))]
  <2>1. IsFiniteSet(Session \ {s})
        BY ConstantsAssumption, FS_RemoveElement
  <2>2. f \in Surjection(Session \ {s}, parts)
        BY DEF Surjection
  <2>3. IsFiniteSet(parts)
        BY <2>1, <2>2, FS_Surjection
  <2>4. \A p \in parts : IsFiniteSet(p)
        BY <1>1
  <2> HIDE DEF parts
  <2>5. IsFiniteSet(UNION parts)
        BY <2>3, <2>4, FS_UNION
  <2> QED BY <2>5 DEF parts, Pending
<1>3. IsFiniteSet(mine) /\ Cardinality(mine) = Occurrences(e, Queue(calls[s]))
  <2>1. /\ IsFiniteSet(At(e, Queue(calls[s])))
        /\ Cardinality(At(e, Queue(calls[s]))) = Occurrences(e, Queue(calls[s]))
        /\ Cardinality(At(e, Queue(calls[s]))) \in Nat
        BY <1>1, AtFinite
  <2>2. IsFiniteSet({s}) /\ Cardinality({s}) = 1
        BY FS_Singleton
  <2>3. Cardinality(mine) = Cardinality({s}) * Cardinality(At(e, Queue(calls[s])))
        BY <2>1, <2>2, FS_Product
  <2> QED BY <1>1, <2>1, <2>2, <2>3
<1>4. Pending(calls, Session, e) = others \cup mine
      BY DEF Pending
<1>5. others \cap mine = {}
      BY DEF Pending
<1> HIDE DEF others, mine
<1>6. Cardinality(Pending(calls, Session, e)) = Cardinality(others) + Cardinality(mine)
  <2>1. Cardinality(others \cup mine) =
          Cardinality(others) + Cardinality(mine) - Cardinality(others \cap mine)
        BY <1>2, <1>3, FS_Union
  <2>2. /\ Cardinality(others) \in Nat /\ Cardinality(mine) \in Nat
        /\ Cardinality(others \cap mine) = 0
        BY <1>2, <1>3, <1>5, FS_CardinalityType, FS_EmptySet
  <2> QED BY <1>4, <2>1, <2>2
<1> QED BY <1>2, <1>3, <1>6, FS_CardinalityType DEF others

LEMMA UnwrittenPending ==
    ASSUME NEW e
    PROVE  Unwritten(e) = Pending(op, Session, e)
BY DEF Unwritten, Pending, Queue, At

\* The count in a step of one session.
LEMMA UnwrittenStep ==
    ASSUME Inv, Inv', NEW s \in Session, NEW e \in Event,
           \A t \in Session \ {s} : op'[t] = op[t]
    PROVE  /\ Cardinality(Unwritten(e)) \in Nat
           /\ Cardinality(Unwritten(e)') =
                Cardinality(Unwritten(e)) - Occurrences(e, Queue(op[s]))
                                          + Occurrences(e, Queue(op'[s]))
           /\ Occurrences(e, Queue(op[s])) \in Nat
           /\ Occurrences(e, Queue(op'[s])) \in Nat
           /\ Occurrences(e, Queue(op[s])) <= Cardinality(Unwritten(e))
<1>1. op \in [Session -> Call] /\ op' \in [Session -> Call]
      BY DEF Inv, TypeOK
<1>2. Pending(op', Session \ {s}, e) = Pending(op, Session \ {s}, e)
      BY DEF Pending
<1>3. Unwritten(e)' = Pending(op', Session, e)
      BY DEF Unwritten, Pending, Queue, At
<1>4. /\ Occurrences(e, Queue(op[s])) \in Nat
      /\ Occurrences(e, Queue(op'[s])) \in Nat
      BY <1>1, QueueTyped, OccurrencesTyped
<1>5. /\ Cardinality(Pending(op, Session \ {s}, e)) \in Nat
      /\ Cardinality(Unwritten(e)) =
            Cardinality(Pending(op, Session \ {s}, e)) + Occurrences(e, Queue(op[s]))
      BY <1>1, PendingOf, UnwrittenPending
<1>6. Cardinality(Unwritten(e)') =
            Cardinality(Pending(op', Session \ {s}, e)) + Occurrences(e, Queue(op'[s]))
      BY <1>1, <1>3, PendingOf
<1> QED BY <1>2, <1>4, <1>5, <1>6

\* What a step of a session does to what it has to record.
Recording(s) ==
    /\ \A t \in Session \ {s} : op'[t] = op[t]
    /\ faults' >= faults
    /\ \A e \in Event :
          LET before == Occurrences(e, Queue(op[s]))
              after == Occurrences(e, Queue(op'[s]))
          IN  /\ after - before <= (commits'[e] - commits[e]) - (audit'[e] - audit[e])
              /\ faults' = 0 =>
                    after - before = (commits'[e] - commits[e]) - (audit'[e] - audit[e])

LEMMA RecordingFaithful ==
    ASSUME Inv, Inv', AuditFaithful, AuditDir, NEW s \in Session, Recording(s)
    PROVE  AuditFaithful'
<1> SUFFICES ASSUME NEW e \in Event
             PROVE  /\ audit'[e] + Cardinality(Unwritten(e)') <= commits'[e]
                    /\ faults' = 0 =>
                          audit'[e] + Cardinality(Unwritten(e)') = commits'[e]
    BY DEF AuditFaithful
<1> DEFINE before == Occurrences(e, Queue(op[s]))
           after == Occurrences(e, Queue(op'[s]))
           had == Cardinality(Unwritten(e))
           has == Cardinality(Unwritten(e)')
<1>1. /\ audit[e] \in Nat /\ audit'[e] \in Nat /\ commits[e] \in Nat
      /\ commits'[e] \in Nat /\ faults \in Nat /\ faults' \in Nat
      BY DEF Inv, TypeOK
<1>2. /\ had \in Nat /\ before \in Nat /\ after \in Nat /\ before <= had
      /\ has = had - before + after
      BY UnwrittenStep DEF Recording
<1>3. audit[e] + had <= commits[e] /\ (faults = 0 => audit[e] + had = commits[e])
      BY DEF AuditFaithful
<1>4. /\ faults' >= faults
      /\ after - before <= (commits'[e] - commits[e]) - (audit'[e] - audit[e])
      /\ faults' = 0 =>
            after - before = (commits'[e] - commits[e]) - (audit'[e] - audit[e])
      BY DEF Recording
<1> HIDE DEF before, after, had, has
<1>5. faults' = 0 => faults = 0
      BY <1>1, <1>4
<1>6. audit'[e] + has <= commits'[e]
      BY <1>1, <1>2, <1>3, <1>4
<1>7. faults' = 0 => audit'[e] + has = commits'[e]
  <2> SUFFICES ASSUME faults' = 0 PROVE audit'[e] + has = commits'[e]
      OBVIOUS
  <2>1. after - before = (commits'[e] - commits[e]) - (audit'[e] - audit[e])
        BY <1>4
  <2>2. audit[e] + had = commits[e]
        BY <1>3, <1>5
  <2> QED BY <1>1, <1>2, <2>1, <2>2
<1> QED BY <1>6, <1>7 DEF has

\* A call that ends has its events to record, and records none before.
LEMMA CompletedRecording ==
    ASSUME Inv, AuditDir, NEW s \in Session, NEW events \in Seq(Event),
           Completed(s, events), op[s].pc # "auditing",
           audit' = audit, faults' = faults
    PROVE  Recording(s)
<1>1. Queue(op[s]) = << >>
      BY DEF Queue
<1>2. Queue(op'[s]) = events /\ \A t \in Session \ {s} : op'[t] = op[t]
  <2>0. op \in [Session -> Call]
        BY DEF Inv, TypeOK
  <2>1. CASE events # << >>
    <3>1. op'[s] = [Idle EXCEPT !.pc = "auditing", !.job = op[s].job, !.events = events]
          BY <2>0, <2>1 DEF Completed
    <3> QED BY <2>0, <3>1 DEF Completed, Queue, Idle
  <2>2. CASE events = << >>
        BY <2>0, <2>2 DEF Completed, Queue, Idle
  <2> QED BY <2>1, <2>2
<1>3. \A e \in Event : commits'[e] = commits[e] + Occurrences(e, events)
      BY DEF Completed
<1>4. \A e \in Event : /\ commits[e] \in Nat /\ audit[e] \in Nat
                       /\ Occurrences(e, events) \in Nat
      BY OccurrencesTyped DEF Inv, TypeOK
<1>5. faults \in Nat
      BY DEF Inv, TypeOK
<1> QED BY <1>1, <1>2, <1>3, <1>4, <1>5, NoneOccurs DEF Recording

\* A step of a call that has nothing to record yet, or a fault.
LEMMA QuietRecording ==
    ASSUME Inv, Inv', NEW s \in Session,
           \A t \in Session \ {s} : op'[t] = op[t],
           op'[s].pc # "auditing",
           op[s].pc = "auditing" => faults' > 0,
           audit' = audit, commits' = commits, faults' >= faults
    PROVE  Recording(s)
<1>1. Queue(op'[s]) = << >>
      BY DEF Queue
<1>2. op[s].pc # "auditing" => Queue(op[s]) = << >>
      BY DEF Queue
<1>3. \A e \in Event : /\ commits[e] \in Nat /\ audit[e] \in Nat
                       /\ Occurrences(e, Queue(op[s])) \in Nat
      BY OccurrencesTyped, QueueTyped DEF Inv, TypeOK
<1>5. faults \in Nat /\ faults' \in Nat
      BY DEF Inv, TypeOK
<1> QED BY <1>1, <1>2, <1>3, <1>5, NoneOccurs DEF Recording

LEMMA AuditRecording ==
    ASSUME Inv, NEW s \in Session, Audit(s)
    PROVE  Recording(s)
<1> DEFINE q == op[s].events
           c == IF Tail(q) = << >> THEN Idle ELSE [op[s] EXCEPT !.events = Tail(q)]
<1>1. /\ op[s] \in Call /\ op[s].pc = "auditing" /\ q # << >> /\ q \in Seq(Event)
      BY DEF Audit, Inv, TypeOK, CallsWellFormed, CallOK, Call
<1>2. Head(q) \in Event /\ Tail(q) \in Seq(Event)
      BY <1>1
<1>3. /\ op' = [op EXCEPT ![s] = c] /\ op \in [Session -> Call]
      /\ commits' = commits /\ faults' = faults
      /\ audit' = [audit EXCEPT ![Head(q)] = @ + 1]
      BY <1>1 DEF Audit, historyVars, Inv, TypeOK
<1>4. Queue(op[s]) = q
      BY <1>1 DEF Queue
<1>5. Queue(c) = Tail(q)
  <2>1. CASE Tail(q) = << >>
        BY <2>1 DEF Queue, Idle
  <2>2. CASE Tail(q) # << >>
        BY <1>1, <2>2 DEF Queue, Call
  <2> QED BY <2>1, <2>2
<1> HIDE DEF c, q
<1>6. Queue(op'[s]) = Tail(q) /\ \A t \in Session \ {s} : op'[t] = op[t]
      BY <1>3, <1>5
<1>7. ASSUME NEW e \in Event
      PROVE  /\ commits[e] \in Nat /\ audit[e] \in Nat
             /\ Occurrences(e, q) \in Nat /\ Occurrences(e, Tail(q)) \in Nat
             /\ Occurrences(e, q) = Occurrences(e, Tail(q)) + (IF Head(q) = e THEN 1 ELSE 0)
             /\ audit'[e] = audit[e] + (IF Head(q) = e THEN 1 ELSE 0)
  <2>1. q \in Seq(Event) /\ q # << >>
        BY <1>1 DEF q
  <2>2. Occurrences(e, q) = Occurrences(e, Tail(q)) + (IF Head(q) = e THEN 1 ELSE 0)
        BY <2>1, HeadOccurs
  <2>3. Occurrences(e, q) \in Nat /\ Occurrences(e, Tail(q)) \in Nat
        BY <1>2, <2>1, OccurrencesTyped DEF q
  <2>4. audit \in [Event -> Nat] /\ commits \in [Event -> Nat]
        BY DEF Inv, TypeOK
  <2> QED BY <1>3, <2>2, <2>3, <2>4
<1>8. faults \in Nat
      BY DEF Inv, TypeOK
<1>9. ASSUME NEW e \in Event
      PROVE  Occurrences(e, Tail(q)) - Occurrences(e, q)
                = (commits'[e] - commits[e]) - (audit'[e] - audit[e])
      BY <1>3, <1>7
<1>10. faults' >= faults
      BY <1>3, <1>8
<1>11. ASSUME NEW e \in Event
      PROVE  LET before == Occurrences(e, Queue(op[s]))
                 after == Occurrences(e, Queue(op'[s]))
             IN  /\ after - before <= (commits'[e] - commits[e]) - (audit'[e] - audit[e])
                 /\ after - before = (commits'[e] - commits[e]) - (audit'[e] - audit[e])
  <2>1. Occurrences(e, Tail(q)) - Occurrences(e, q) \in Int
        BY <1>7
  <2> QED BY <1>4, <1>6, <1>9, <2>1
<1> QED BY <1>6, <1>10, <1>11 DEF Recording

LEMMA StepRecording ==
    ASSUME Inv, Inv', AuditDir, NEW s \in Session,
        \/ BeginCreate(s) \/ FinishCreate(s)
        \/ \E x \in Passphrase : BeginUnlock(s, "passphrase", x)
        \/ \E x \in Code : BeginUnlock(s, "recovery", x)
        \/ Unlocked(s) \/ UnlockRefused(s) \/ Lock(s)
        \/ \E batch \in Batch : BeginUpsert(s, batch)
        \/ SealItem(s)
        \/ \E id \in RecordId : BeginDelete(s, id)
        \/ \E p \in Passphrase : ChangePassphrase(s, p)
        \/ RotateRecoveryCode(s)
        \/ Reload(s) \/ Write(s) \/ Audit(s)
        \/ Fail(s) \/ Crash(s)
    PROVE  Recording(s)
<1>0. /\ op \in [Session -> Call] /\ op[s] \in Call /\ faults \in Nat
      /\ Idle.pc = "idle"
      BY DEF Inv, TypeOK, Idle
\* Calls that begin or go on with their work.
<1>1. ASSUME op'[s].pc # "auditing", op[s].pc # "auditing",
             \A t \in Session \ {s} : op'[t] = op[t],
             audit' = audit, UNCHANGED historyVars
      PROVE  Recording(s)
      BY <1>0, <1>1, QuietRecording DEF historyVars
<1>2. CASE BeginCreate(s)
  <2>1. op'[s].pc = "creating" /\ op[s].pc = "idle"
        BY <1>0, <1>2 DEF BeginCreate, Starts, Idle
  <2> QED BY <1>0, <1>1, <1>2, <2>1 DEF BeginCreate, diskVars
<1>3. ASSUME NEW w, NEW x, BeginUnlock(s, w, x)
      PROVE  Recording(s)
  <2>1. op'[s].pc = "deriving" /\ op[s].pc = "idle"
        BY <1>0, <1>3 DEF BeginUnlock, Starts, Idle
  <2> QED BY <1>0, <1>1, <1>3, <2>1 DEF BeginUnlock, diskVars
<1>4. ASSUME NEW batch, BeginUpsert(s, batch)
      PROVE  Recording(s)
  <2>1. op'[s].pc = "preparing" /\ op[s].pc = "idle"
        BY <1>0, <1>4 DEF BeginUpsert, Starts, Idle
  <2> QED BY <1>0, <1>1, <1>4, <2>1 DEF BeginUpsert, diskVars
<1>5. ASSUME NEW id, BeginDelete(s, id)
      PROVE  Recording(s)
  <2>1. op'[s].pc = "preparing" /\ op[s].pc = "idle"
        BY <1>0, <1>5 DEF BeginDelete, Starts, Idle
  <2> QED BY <1>0, <1>1, <1>5, <2>1 DEF BeginDelete, diskVars
<1>6. ASSUME NEW w, NEW x, NEW name, Starts(s, name), Rewrap(s, w, x)
      PROVE  Recording(s)
  <2>1. op'[s].pc = "preparing" /\ op[s].pc = "idle"
        BY <1>0, <1>6 DEF Rewrap, Starts, Idle
  <2> QED BY <1>0, <1>1, <1>6, <2>1 DEF Rewrap, diskVars
<1>7. CASE SealItem(s)
  <2>1. /\ op'[s].pc = "preparing" /\ op[s].pc = "preparing"
        /\ \A t \in Session \ {s} : op'[t] = op[t]
        BY <1>0, <1>7 DEF SealItem, Call
  <2>2. audit' = audit /\ UNCHANGED historyVars
        BY <1>7 DEF SealItem, diskVars
  <2> QED BY <1>1, <2>1, <2>2
<1>8. CASE Reload(s)
  <2>1. /\ op'[s].pc = "writing" /\ op[s].pc = "preparing"
        /\ \A t \in Session \ {s} : op'[t] = op[t]
        BY <1>0, <1>8 DEF Reload, Call
  <2>2. audit' = audit /\ UNCHANGED historyVars
        BY <1>8 DEF Reload, diskVars
  <2> QED BY <1>1, <2>1, <2>2
<1>9. CASE FinishCreate(s) \/ Unlocked(s) \/ UnlockRefused(s) \/ Lock(s) \/ Write(s)
  <2>1. op[s].pc # "auditing" /\ audit' = audit /\ faults' = faults
        BY <1>0, <1>9 DEF FinishCreate, Unlocked, UnlockRefused, Lock, Write, Starts,
           diskVars
  <2>2. \E events \in Seq(Event) : Completed(s, events)
        BY <1>0, <1>9, VaultEventTyped
           DEF FinishCreate, Unlocked, UnlockRefused, Lock, Write, Call
  <2> QED BY <2>1, <2>2, CompletedRecording
<1>10. CASE Fail(s) \/ Crash(s)
  <2>1. /\ op' = [op EXCEPT ![s] = Idle] /\ audit' = audit /\ commits' = commits
        /\ faults' \in {faults, faults + 1}
        /\ op[s] # Idle => faults' = faults + 1
        BY <1>10 DEF Fail, Crash, diskVars
  <2>2. op[s].pc = "auditing" => faults' > 0
        BY <1>0, <2>1
  <2> QED BY <1>0, <2>1, <2>2, QuietRecording
<1>11. CASE (\E p \in Passphrase : ChangePassphrase(s, p)) \/ RotateRecoveryCode(s)
       BY <1>6, <1>11 DEF ChangePassphrase, RotateRecoveryCode
<1> QED BY <1>2, <1>3, <1>4, <1>5, <1>7, <1>8, <1>9, <1>10, <1>11, AuditRecording

LEMMA AuditStep ==
    ASSUME Inv, Inv', AuditFaithful, [Next]_vars
    PROVE  AuditFaithful'
<1>1. CASE ~AuditDir
      BY <1>1 DEF AuditFaithful
<1>2. CASE AuditDir /\ (Tick \/ UNCHANGED vars)
  <2>1. audit' = audit /\ commits' = commits /\ faults' = faults /\ op' = op
        BY <1>2 DEF Tick, vars, diskVars, sessionVars, historyVars
  <2> QED BY <2>1 DEF AuditFaithful, Unwritten
<1>3. CASE AuditDir /\ ~Tick /\ ~UNCHANGED vars
  <2>1. \E s \in Session : Recording(s)
        BY <1>3, StepRecording DEF Next
  <2> QED BY <1>3, <2>1, RecordingFaithful
<1> QED BY <1>1, <1>2, <1>3

\* However operations of sessions overlap, the audit directory tells of nothing
\* that did not happen, and misses an event only after a fault.
THEOREM AuditStaysFaithful == Spec => []AuditFaithful
<1>1. Init => AuditFaithful
  <2> SUFFICES ASSUME Init, NEW e \in Event
               PROVE  Cardinality(Unwritten(e)) = 0
      BY DEF Init, AuditFaithful
  <2>1. Unwritten(e) = {}
        BY DEF Init, Unwritten, Idle
  <2> QED BY <2>1, FS_EmptySet
<1>2. Inv /\ Inv' /\ AuditFaithful /\ [Next]_vars => AuditFaithful'
      BY AuditStep
<1> QED BY <1>1, <1>2, InitInv, NextInv, PTL DEF Spec
-----------------------------------------------------------------------------
(***************************************************************************)
(* One operation at a time: what the lock-free file format asks of its     *)
(* users.  Then nothing that a call has read is stale when it is written   *)
(* back.                                                                   *)
(***************************************************************************)

OneSession == \A s, t \in Session : s = t

OneAtATime == Concurrency = 1 \/ OneSession

Alone == \A s, t \in Session : op[s] # Idle /\ op[t] # Idle => s = t

\* c is a call, f the file, r and k the keyring and the key of its session.
Steady(c, f, r, k) ==
    /\ c.pc = "creating" => f = None
    /\ c.pc \in {"deriving", "writing"} => c.snap = f
    /\ f = None => /\ r = None /\ k = None /\ c.snap = None
                   /\ c.pc \in {"idle", "creating", "auditing"}

SerialInv ==
    /\ Alone
    /\ \A s \in Session : Steady(op[s], file, ring[s], masterKey[s])

\* A step inside a call of session s.
Moves(s) ==
    \/ BeginCreate(s) \/ FinishCreate(s)
    \/ \E w \in Wrapper, x \in Secret : BeginUnlock(s, w, x)
    \/ Unlocked(s) \/ UnlockRefused(s) \/ Lock(s)
    \/ \E batch \in Batch : BeginUpsert(s, batch)
    \/ SealItem(s)
    \/ \E id \in RecordId : BeginDelete(s, id)
    \/ \E w \in Wrapper, x \in Secret, name \in {"change", "rotate"} :
          Starts(s, name) /\ Rewrap(s, w, x)
    \/ Reload(s) \/ Write(s) \/ Audit(s)
    \/ Fail(s) \/ (op[s] # Idle /\ Crash(s))

LEMMA NextMoves ==
    ASSUME [Next]_vars
    PROVE  \/ \E s \in Session : Moves(s) \/ (op[s] = Idle /\ Crash(s))
           \/ Tick \/ UNCHANGED vars
<1>1. ASSUME NEW s \in Session, NEW x \in Passphrase, BeginUnlock(s, "passphrase", x)
      PROVE  Moves(s)
      BY <1>1 DEF Moves, Wrapper, Secret
<1>2. ASSUME NEW s \in Session, NEW x \in Code, BeginUnlock(s, "recovery", x)
      PROVE  Moves(s)
      BY <1>2 DEF Moves, Wrapper, Secret
<1>3. ASSUME NEW s \in Session, NEW p \in Passphrase, ChangePassphrase(s, p)
      PROVE  Moves(s)
      BY <1>3 DEF Moves, ChangePassphrase, Wrapper, Secret
<1>4. ASSUME NEW s \in Session, RotateRecoveryCode(s)
      PROVE  Moves(s)
      BY <1>4 DEF Moves, RotateRecoveryCode, Wrapper, Secret
<1> QED BY <1>1, <1>2, <1>3, <1>4 DEF Next, Moves

\* A call begins only when every session is idle.
LEMMA StartsAlone ==
    ASSUME OneAtATime, NEW s \in Session, NEW name, Starts(s, name)
    PROVE  \A t \in Session : op[t] = Idle
<1>1. CASE OneSession
      BY <1>1 DEF Starts, OneSession
<1>2. CASE Concurrency = 1
  <2> DEFINE busy == {t \in Session : op[t] # Idle}
  <2>1. IsFiniteSet(busy)
        BY ConstantsAssumption, FS_Subset
  <2>2. Cardinality(busy) \in Nat /\ Cardinality(busy) < 1
        BY <1>2, <2>1, FS_CardinalityType DEF Starts
  <2>3. busy = {}
        BY <2>1, <2>2, FS_EmptySet
  <2> QED BY <2>3
<1> QED BY <1>1, <1>2 DEF OneAtATime

\* While s moves, the others are idle and stay so.
LEMMA MovesAlone ==
    ASSUME OneAtATime, Inv, Alone, NEW s \in Session, Moves(s)
    PROVE  \A t \in Session \ {s} : op[t] = Idle /\ op'[t] = Idle
<1>0. op \in [Session -> Call]
      BY DEF Inv, TypeOK
<1>1. \A t \in Session \ {s} : op'[t] = op[t]
      BY <1>0 DEF Moves, BeginCreate, FinishCreate, BeginUnlock, Unlocked, UnlockRefused,
         Lock, BeginUpsert, SealItem, BeginDelete, Rewrap, Reload, Write, Audit, Fail,
         Crash, Completed
<1>2. CASE op[s] # Idle
      BY <1>1, <1>2 DEF Alone
<1>3. CASE op[s] = Idle
  <2>1. \E name : Starts(s, name)
    <3>1. Idle.pc = "idle"
          BY DEF Idle
    <3> QED BY <1>3, <3>1 DEF Moves, BeginCreate, FinishCreate, BeginUnlock, Unlocked,
               UnlockRefused, Lock, BeginUpsert, SealItem, BeginDelete, Reload, Write,
               Audit, Fail
  <2> QED BY <1>1, <2>1, StartsAlone
<1> QED BY <1>2, <1>3

\* What a call has read is still there when it needs it.
LEMMA MovesSteady ==
    ASSUME Inv, SerialInv, NEW s \in Session, Moves(s)
    PROVE  /\ Steady(op'[s], file', ring'[s], masterKey'[s])
           /\ file' = None => file = None
<1> DEFINE S == Steady(op'[s], file', ring'[s], masterKey'[s])
<1>0. /\ op \in [Session -> Call] /\ op[s] \in Call
      /\ ring \in [Session -> Keyring \cup {None}]
      /\ masterKey \in [Session -> Key \cup {None}]
      /\ Steady(op[s], file, ring[s], masterKey[s])
      /\ CallOK(op[s], file, ring[s], masterKey[s])
      /\ Idle.pc = "idle" /\ Idle.snap = None
      BY DEF Inv, TypeOK, SerialInv, CallsWellFormed, Idle
<1>1. CASE BeginCreate(s)
  <2>1. /\ op'[s].pc = "creating" /\ op'[s].snap = None /\ file = None
        /\ UNCHANGED <<file, ring, masterKey>>
        BY <1>0, <1>1 DEF BeginCreate, diskVars, Idle
  <2> QED BY <1>0, <2>1 DEF Steady
\* A call that ends has written a file, or leaves the one there was.
<1>2. ASSUME NEW events \in Seq(Event), Completed(s, events),
             \/ file' # None
             \/ UNCHANGED <<file, ring>> /\ masterKey'[s] \in {None, masterKey[s]}
      PROVE  S
  <2>1. op'[s].pc \in {"idle", "auditing"} /\ op'[s].snap = None
        BY <1>2, CompletedTyped, CompletedOver DEF Inv, CallOver
  <2> QED BY <1>0, <1>2, <2>1 DEF Steady
<1>3. CASE FinishCreate(s)
  <2>1. file' # None
    <3>1. PICK p \in Passphrase, c \in Code \ minted, k \in Key \ minted :
            file' = [ring |-> NewRing(p, c, k), records |-> NoRecords,
                     attempts |-> NewAttempts]
          BY <1>3 DEF FinishCreate
    <3>2. file' \in VaultFile
          BY <3>1, NewRingTyped, NoRecordsTyped, AttemptsTyped DEF VaultFile
    <3> QED BY <3>2, NoneAssumption
  <2> QED BY <1>2, <1>3, <2>1, VaultEventTyped DEF FinishCreate
<1>4. CASE \E w \in Wrapper, x \in Secret : BeginUnlock(s, w, x)
  <2>1. /\ op'[s].pc = "deriving" /\ op'[s].snap = file /\ file # None
        /\ UNCHANGED <<file, ring, masterKey>>
        BY <1>0, <1>4 DEF BeginUnlock, diskVars, Idle
  <2> QED BY <1>0, <2>1 DEF Steady
<1>5. CASE Unlocked(s) \/ UnlockRefused(s) \/ Write(s)
  <2>1. /\ op[s].snap \in VaultFile
        /\ op[s].pc = "writing" /\ op[s].job # "records" => ring[s] \in Keyring
        /\ op[s].work \in Records /\ op[s].events \in Seq(Event)
        BY <1>0, <1>5 DEF Unlocked, UnlockRefused, Write, CallOK, Call
  <2>2. file' \in VaultFile
    <3>1. CASE Unlocked(s)
          BY <2>1, <3>1, AttemptsTyped DEF Unlocked, VaultFile
    <3>2. CASE UnlockRefused(s)
          BY <2>1, <3>2, AttemptsTyped DEF UnlockRefused, VaultFile, Inv, TypeOK
    <3>3. CASE Write(s)
          BY <2>1, <3>3 DEF Write, VaultFile
    <3> QED BY <1>5, <3>1, <3>2, <3>3
  <2>3. file' # None
        BY <2>2, NoneAssumption
  <2> QED BY <1>2, <1>5, <2>1, <2>3, VaultEventTyped DEF Unlocked, UnlockRefused, Write
<1>6. CASE Lock(s)
      BY <1>0, <1>2, <1>6, VaultEventTyped DEF Lock, diskVars
<1>7. CASE (\E batch \in Batch : BeginUpsert(s, batch)) \/ (\E id \in RecordId : BeginDelete(s, id))
  <2>1. /\ op'[s].pc = "preparing" /\ file # None /\ UNCHANGED <<file, ring, masterKey>>
    <3>1. CASE \E batch \in Batch : BeginUpsert(s, batch)
      <4>1. PICK batch \in Batch : BeginUpsert(s, batch)
            BY <3>1
      <4> QED BY <1>0, <4>1 DEF BeginUpsert, diskVars, Idle
    <3>2. CASE \E id \in RecordId : BeginDelete(s, id)
      <4>1. PICK id \in RecordId : BeginDelete(s, id)
            BY <3>2
      <4> QED BY <1>0, <4>1 DEF BeginDelete, diskVars, Idle
    <3> QED BY <1>7, <3>1, <3>2
  <2> QED BY <2>1 DEF Steady
<1>8. CASE SealItem(s)
  <2>1. /\ op'[s].pc = "preparing" /\ op[s].pc = "preparing"
        /\ UNCHANGED <<file, ring, masterKey>>
        BY <1>0, <1>8 DEF SealItem, diskVars, Call
  <2> QED BY <1>0, <2>1 DEF Steady
<1>9. CASE \E w \in Wrapper, x \in Secret : Rewrap(s, w, x)
  <2>1. /\ op'[s].pc = "preparing" /\ file # None /\ file' = file
        BY <1>0, <1>9 DEF Rewrap, diskVars, Idle
  <2> QED BY <2>1 DEF Steady
<1>10. CASE Reload(s)
  <2>1. /\ op'[s].pc = "writing" /\ op'[s].snap = file /\ op[s].pc = "preparing"
        /\ UNCHANGED <<file, ring, masterKey>>
        BY <1>0, <1>10 DEF Reload, diskVars, Call
  <2> QED BY <1>0, <2>1 DEF Steady
<1>11. CASE Audit(s)
  <2>1. /\ op'[s].pc \in {"idle", "auditing"} /\ op'[s].snap \in {None, op[s].snap}
        /\ UNCHANGED <<file, ring, masterKey>>
        BY <1>0, <1>11 DEF Audit, Call
  <2> QED BY <1>0, <2>1 DEF Steady
<1>12. CASE Fail(s) \/ Crash(s)
  <2>1. /\ op'[s] = Idle /\ file' = file
        /\ ring'[s] \in {None, ring[s]} /\ masterKey'[s] \in {None, masterKey[s]}
        BY <1>0, <1>12 DEF Fail, Crash, diskVars
  <2> QED BY <1>0, <2>1 DEF Steady
<1> QED BY <1>1, <1>3, <1>4, <1>5, <1>6, <1>7, <1>8, <1>9, <1>10, <1>11, <1>12
        DEF Moves

LEMMA SerialStep ==
    ASSUME OneAtATime, Inv, SerialInv, [Next]_vars
    PROVE  SerialInv'
<1>0. /\ op \in [Session -> Call] /\ Idle.pc = "idle" /\ Idle.snap = None
      /\ ring \in [Session -> Keyring \cup {None}]
      /\ masterKey \in [Session -> Key \cup {None}]
      BY DEF Inv, TypeOK, Idle
<1>1. ASSUME NEW s \in Session, Moves(s)
      PROVE  SerialInv'
  <2>1. \A t \in Session \ {s} : op[t] = Idle /\ op'[t] = Idle
        BY <1>1, MovesAlone DEF SerialInv
  <2>2. /\ Steady(op'[s], file', ring'[s], masterKey'[s])
        /\ file' = None => file = None
        BY <1>1, MovesSteady
  <2>3. \A t \in Session \ {s} : ring'[t] = ring[t] /\ masterKey'[t] = masterKey[t]
        BY <1>0, <1>1 DEF Moves, BeginCreate, FinishCreate, BeginUnlock, Unlocked,
           UnlockRefused, Lock, BeginUpsert, SealItem, BeginDelete, Rewrap, Reload,
           Write, Audit, Fail, Crash
  <2>4. \A t \in Session \ {s} : Steady(op'[t], file', ring'[t], masterKey'[t])
        BY <1>0, <2>1, <2>2, <2>3 DEF SerialInv, Steady
  <2> QED BY <2>1, <2>2, <2>4 DEF SerialInv, Alone
<1>2. ASSUME NEW s \in Session, op[s] = Idle, Crash(s)
      PROVE  SerialInv'
  <2>1. /\ op' = op /\ file' = file
        /\ \A t \in Session : /\ ring'[t] \in {None, ring[t]}
                              /\ masterKey'[t] \in {None, masterKey[t]}
        BY <1>0, <1>2 DEF Crash, diskVars
  <2> QED BY <2>1 DEF SerialInv, Alone, Steady
<1>3. CASE Tick \/ UNCHANGED vars
      BY <1>3 DEF Tick, vars, diskVars, sessionVars, SerialInv, Alone
<1> QED BY <1>1, <1>2, <1>3, NextMoves

LEMMA SerialInit == Init => SerialInv
BY DEF Init, SerialInv, Alone, Steady, Idle

-----------------------------------------------------------------------------
(* The throttle counts every failure.                                      *)

\* A state of the throttle that knows of all failures reported.
Knows(st) ==
    /\ st.failed = misses
    /\ misses > 0 => st.last = lastMiss
    /\ misses >= MaxAttempts => st.until = lastMiss + LockoutSeconds

CountInv ==
    /\ lastMiss <= now
    /\ file = None => misses = 0
    /\ file # None => Knows(file.attempts)

LEMMA CountStep ==
    ASSUME Inv, SerialInv, CountInv, [Next]_vars
    PROVE  CountInv'
<1>0. /\ now \in Nat /\ misses \in Nat /\ lastMiss \in Nat
      /\ MaxAttempts \in Nat \ {0}
      BY LimiterAssumption DEF Inv, TypeOK
<1>1. CASE QuietStep
      BY <1>0, <1>1 DEF QuietStep, CountInv, Knows
<1>2. ASSUME NEW s \in Session, FinishCreate(s)
      PROVE  CountInv'
  <2>1. file = None /\ misses = 0
        BY <1>2 DEF FinishCreate, SerialInv, Steady, CountInv
  <2>2. /\ file'.attempts = NewAttempts
        /\ misses' = 0 /\ lastMiss' = lastMiss /\ now' = now
        BY <1>2, <2>1 DEF FinishCreate
  <2> QED BY <1>0, <2>2 DEF CountInv, Knows, NewAttempts
<1>3. ASSUME NEW s \in Session, Unlocked(s)
      PROVE  CountInv'
  <2>1. op[s].snap \in VaultFile
        BY <1>3, DerivingRead DEF Unlocked
  <2>2. file'.attempts = NewAttempts /\ misses' = 0 /\ lastMiss' = lastMiss /\ now' = now
        BY <1>3, <2>1 DEF Unlocked, VaultFile, RecordSuccess
  <2> QED BY <1>0, <2>2 DEF CountInv, Knows, NewAttempts
<1>4. ASSUME NEW s \in Session, UnlockRefused(s)
      PROVE  CountInv'
  <2>1. op[s].snap \in VaultFile /\ op[s].snap = file
        BY <1>4, DerivingRead DEF UnlockRefused, SerialInv, Steady
  <2>2. Knows(file.attempts) /\ file.attempts \in Attempts
        BY <2>1, NoneAssumption DEF CountInv, VaultFile
  <2>3. /\ file'.attempts = RecordFailure(file.attempts, now)
        /\ misses' = misses + 1 /\ lastMiss' = now /\ now' = now
        BY <1>4, <2>1 DEF UnlockRefused, VaultFile
  <2>4. file'.attempts = [failed |-> misses + 1, last |-> now,
                          until  |-> IF misses + 1 >= MaxAttempts THEN now + LockoutSeconds
                                     ELSE file.attempts.until]
        BY <2>2, <2>3 DEF Knows, RecordFailure
  <2>5. Knows(file.attempts)'
        BY <1>0, <2>3, <2>4 DEF Knows
  <2>6. file' # None
        BY <1>4, <2>1, NoneAssumption, MovesSteady DEF Moves
  <2> QED BY <1>0, <2>3, <2>5, <2>6 DEF CountInv
<1>5. ASSUME NEW s \in Session, Write(s)
      PROVE  CountInv'
  <2>1. op[s].snap \in VaultFile /\ op[s].snap = file
        BY <1>5 DEF Write, SerialInv, Steady, Inv, CallsWellFormed, CallOK
  <2>2. /\ file'.attempts = file.attempts
        /\ misses' = misses /\ lastMiss' = lastMiss /\ now' = now
        BY <1>5, <2>1 DEF Write, VaultFile
  <2>3. file # None
        BY <2>1, NoneAssumption
  <2>4. file' # None
        BY <1>5, <2>3, MovesSteady DEF Moves
  <2> QED BY <2>2, <2>3, <2>4 DEF CountInv, Knows
<1>6. ASSUME NEW s \in Session, NEW w \in Wrapper, NEW x \in Secret, Rewrap(s, w, x)
      PROVE  CountInv'
      BY <1>6 DEF Rewrap, diskVars, historyVars, CountInv, Knows
<1> QED BY <1>1, <1>2, <1>3, <1>4, <1>5, <1>6, StepKinds

\* With one operation at a time no failure is forgotten and none is invented:
\* not by a save, a crash, a restart or the other credential.
THEOREM EveryFailureCounted ==
    ASSUME OneAtATime
    PROVE  Spec => []FailuresCounted
<1>1. Init => CountInv
      BY DEF Init, CountInv
<1>2. CountInv => FailuresCounted
      BY DEF CountInv, Knows, FailuresCounted
<1>3. Inv /\ SerialInv /\ CountInv /\ [Next]_vars => (Inv /\ SerialInv /\ CountInv)'
      BY NextInv, SerialStep, CountStep
<1> QED BY <1>1, <1>2, <1>3, InitInv, SerialInit, PTL DEF Spec

\* A session starts to derive in BeginUnlock only.
LEMMA DerivingBegins ==
    ASSUME Inv, [Next]_vars, NEW s \in Session,
           op[s].pc # "deriving", op'[s].pc = "deriving"
    PROVE  file # None /\ MayAttempt(file.attempts, now)
<1>0. /\ op \in [Session -> Call] /\ op[s] \in Call /\ Idle.pc = "idle"
      BY DEF Inv, TypeOK, Idle
<1>1. ASSUME NEW t \in Session, NEW events \in Seq(Event), Completed(t, events)
      PROVE  FALSE
      BY <1>0, <1>1, CompletedTyped DEF Inv
<1>2. ASSUME NEW t \in Session, BeginCreate(t)
      PROVE  FALSE
      BY <1>0, <1>2 DEF BeginCreate, Idle
<1>3. ASSUME NEW t \in Session,
             (\E batch \in Batch : BeginUpsert(t, batch))
             \/ (\E id \in RecordId : BeginDelete(t, id))
      PROVE  FALSE
  <2>1. CASE \E batch \in Batch : BeginUpsert(t, batch)
    <3>1. PICK batch \in Batch : BeginUpsert(t, batch)
          BY <2>1
    <3> QED BY <1>0, <3>1 DEF BeginUpsert, Idle
  <2>2. CASE \E id \in RecordId : BeginDelete(t, id)
    <3>1. PICK id \in RecordId : BeginDelete(t, id)
          BY <2>2
    <3> QED BY <1>0, <3>1 DEF BeginDelete, Idle
  <2> QED BY <1>3, <2>1, <2>2
<1>4. ASSUME NEW t \in Session, SealItem(t) \/ Reload(t)
      PROVE  FALSE
  <2>1. op[t] \in Call /\ op'[t].pc # "deriving" /\ \A u \in Session \ {t} : op'[u] = op[u]
    <3>1. CASE SealItem(t)
          BY <1>0, <3>1 DEF SealItem, Call
    <3>2. CASE Reload(t)
          BY <1>0, <3>2 DEF Reload, Call
    <3> QED BY <1>4, <3>1, <3>2
  <2> QED BY <1>0, <2>1
<1>5. ASSUME NEW t \in Session, NEW w, NEW x, Rewrap(t, w, x)
      PROVE  FALSE
      BY <1>0, <1>5 DEF Rewrap, Idle
<1>6. ASSUME NEW t \in Session, Audit(t)
      PROVE  FALSE
  <2>1. op[t] \in Call /\ op[t].pc = "auditing"
        BY <1>0, <1>6 DEF Audit
  <2> QED BY <1>0, <1>6, <2>1 DEF Audit, Call
<1>7. ASSUME NEW t \in Session, Fail(t) \/ Crash(t)
      PROVE  FALSE
      BY <1>0, <1>7 DEF Fail, Crash
<1>8. ASSUME NEW t \in Session,
             FinishCreate(t) \/ Unlocked(t) \/ UnlockRefused(t) \/ Lock(t) \/ Write(t)
      PROVE  FALSE
  <2>1. op[t].events \in Seq(Event)
        BY <1>0 DEF Call
  <2> QED BY <1>1, <1>8, <2>1, VaultEventTyped
          DEF FinishCreate, Unlocked, UnlockRefused, Lock, Write
<1>9. CASE Tick \/ UNCHANGED vars
      BY <1>9 DEF Tick, vars, sessionVars
<1>10. ASSUME NEW t \in Session, NEW w, NEW x, BeginUnlock(t, w, x)
       PROVE  file # None /\ MayAttempt(file.attempts, now)
       BY <1>10 DEF BeginUnlock
<1>11. ASSUME NEW t \in Session, Moves(t)
       PROVE  file # None /\ MayAttempt(file.attempts, now)
       BY <1>2, <1>3, <1>4, <1>5, <1>6, <1>7, <1>8, <1>10, <1>11 DEF Moves
<1> QED BY <1>7, <1>9, <1>11, NextMoves

\* ... so none starts before the wait that all of them together call for.
THEOREM EveryWaitKept ==
    ASSUME OneAtATime
    PROVE  Spec => ThrottleHonoured
<1> DEFINE Step ==
        \A s \in Session :
            op[s].pc # "deriving" /\ op'[s].pc = "deriving" =>
                /\ misses >= MaxAttempts => now >= lastMiss + LockoutSeconds
                /\ now >= lastMiss + RequiredDelay(misses)
<1>1. Init => CountInv
      BY DEF Init, CountInv
<1>2. Inv /\ CountInv /\ [Next]_vars => Step
  <2> SUFFICES ASSUME Inv, CountInv, [Next]_vars, NEW s \in Session,
                      op[s].pc # "deriving", op'[s].pc = "deriving"
               PROVE  /\ misses >= MaxAttempts => now >= lastMiss + LockoutSeconds
                      /\ now >= lastMiss + RequiredDelay(misses)
      OBVIOUS
  <2>1. file # None /\ MayAttempt(file.attempts, now) /\ Knows(file.attempts)
        BY DerivingBegins DEF CountInv
  <2>2. /\ file.attempts.until <= now
        /\ RequiredDelay(misses) > 0 => now - file.attempts.last >= RequiredDelay(misses)
        BY <2>1 DEF MayAttempt, Knows
  <2>3. /\ now \in Nat /\ misses \in Nat /\ lastMiss \in Nat /\ lastMiss <= now
        BY DEF Inv, TypeOK, CountInv
  <2>4. RequiredDelay(misses) \in Nat /\ RequiredDelay(0) = 0
        BY <2>3, RequiredDelayBounded DEF RequiredDelay
  <2>5. misses >= MaxAttempts => now >= lastMiss + LockoutSeconds
        BY <2>1, <2>2 DEF Knows
  <2>6. now >= lastMiss + RequiredDelay(misses)
    <3>1. CASE RequiredDelay(misses) = 0
          BY <2>3, <3>1
    <3>2. CASE RequiredDelay(misses) > 0
      <4>1. misses > 0
            BY <2>3, <2>4, <3>2
      <4>2. file.attempts.last = lastMiss
            BY <2>1, <4>1 DEF Knows
      <4> QED BY <2>2, <2>3, <2>4, <3>2, <4>2
    <3> QED BY <2>4, <3>1, <3>2
  <2> QED BY <2>5, <2>6
<1>3. Inv /\ SerialInv /\ CountInv /\ [Next]_vars => (Inv /\ SerialInv /\ CountInv)'
      BY NextInv, SerialStep, CountStep
<1> QED BY <1>1, <1>2, <1>3, InitInv, SerialInit, PTL DEF Spec, ThrottleHonoured
-----------------------------------------------------------------------------
(***************************************************************************)
(* What a session holds in memory is what was last saved, but for the      *)
(* wrapper it is replacing, those it failed to save, those that another    *)
(* session has saved since, and those that the file itself has lost to     *)
(* such a session.                                                         *)
(***************************************************************************)

Doubted(s) == suspect[s] \cup lapsed \cup Unsaved(s)

LastInv ==
    /\ lapsed # Wrapper
    /\ file # None =>
          \A w \in Wrapper \ lapsed : file.ring.wrap[w].secret = current[w]
    /\ \A s \in Session : ring[s] # None =>
          \A w \in Wrapper \ Doubted(s) : ring[s].wrap[w].secret = current[w]

\* A step after which every session holds what it held, and doubts what it doubted.
LEMMA LastKept ==
    ASSUME LastInv,
           UNCHANGED <<current, lapsed>>,
           file' # None => file # None /\ file'.ring = file.ring,
           \A t \in Session : /\ ring'[t] \in {None, ring[t]}
                              /\ ring'[t] # None => Doubted(t) \subseteq Doubted(t)'
    PROVE  LastInv'
BY DEF LastInv

LEMMA LastMove ==
    ASSUME OneAtATime, Inv, SerialInv, LastInv, NEW s \in Session, Moves(s)
    PROVE  LastInv'
<1>0. /\ op \in [Session -> Call] /\ op[s] \in Call
      /\ ring \in [Session -> Keyring \cup {None}]
      /\ current \in [Wrapper -> Secret \cup {None}]
      /\ suspect \in [Session -> SUBSET Wrapper] /\ lapsed \subseteq Wrapper
      /\ Idle.pc = "idle"
      BY DEF Inv, TypeOK, Idle
<1>1. \A t \in Session \ {s} : Unsaved(t) = {} /\ Unsaved(t)' = {}
      BY <1>0, MovesAlone DEF SerialInv, Unsaved
\* A call that changes no keyring, in memory or on disk, nor what is in force.
<1>2. ASSUME Unsaved(s) \subseteq Unsaved(s)',
             UNCHANGED <<file, ring, current, suspect, lapsed>>
      PROVE  LastInv'
      BY <1>1, <1>2, LastKept DEF Doubted
<1>3. CASE \/ BeginCreate(s)
           \/ \E w \in Wrapper, x \in Secret : BeginUnlock(s, w, x)
           \/ \E batch \in Batch : BeginUpsert(s, batch)
           \/ \E id \in RecordId : BeginDelete(s, id)
           \/ Audit(s) \/ Lock(s)
  <2>1. Unsaved(s) = {}
        BY <1>0, <1>3 DEF BeginCreate, BeginUnlock, BeginUpsert, BeginDelete, Audit, Lock,
           Starts, Unsaved
  <2>2. UNCHANGED <<file, ring, current, suspect, lapsed>>
        BY <1>3 DEF BeginCreate, BeginUnlock, BeginUpsert, BeginDelete, Audit, Lock,
           diskVars, historyVars
  <2> QED BY <1>2, <2>1, <2>2
<1>4. CASE SealItem(s) \/ Reload(s)
  <2>1. /\ op[s].pc = "preparing" /\ op'[s].pc \in {"preparing", "writing"}
        /\ op'[s].job = op[s].job
    <3>1. CASE SealItem(s)
          BY <1>0, <3>1 DEF SealItem, Call
    <3>2. CASE Reload(s)
          BY <1>0, <3>2 DEF Reload, Call
    <3> QED BY <1>4, <3>1, <3>2
  <2> QED BY <1>2, <1>4, <2>1 DEF SealItem, Reload, Unsaved, diskVars, historyVars
\* A call that ends is about to save nothing any more.
<1>5. ASSUME NEW events \in Seq(Event), Completed(s, events)
      PROVE  Unsaved(s)' = {}
      BY <1>5, CompletedTyped DEF Inv, Unsaved
<1>6. CASE FinishCreate(s)
  <2>1. PICK p \in Passphrase, c \in Code \ minted, k \in Key \ minted :
          /\ file' = [ring |-> NewRing(p, c, k), records |-> NoRecords,
                      attempts |-> NewAttempts]
          /\ ring' = [ring EXCEPT ![s] = NewRing(p, c, k)]
          /\ current' = [w \in Wrapper |-> IF w = "passphrase" THEN p ELSE c]
        BY <1>6 DEF FinishCreate
  <2>2. \A w \in Wrapper : NewRing(p, c, k).wrap[w].secret = current'[w]
        BY <2>1 DEF NewRing
  <2>3. /\ lapsed' = {} /\ lapsed' # Wrapper
        /\ \A t \in Session \ {s} : ring[t] # None => suspect'[t] = Wrapper
        BY <1>6 DEF FinishCreate, Wrapper
  <2> QED BY <1>0, <2>1, <2>2, <2>3 DEF LastInv, Doubted
<1>7. CASE Unlocked(s) \/ UnlockRefused(s)
  <2>1. op[s].snap \in VaultFile /\ op[s].snap = file
        BY <1>7, DerivingRead DEF Unlocked, UnlockRefused, SerialInv, Steady
  <2>2. /\ file # None /\ file'.ring = file.ring /\ UNCHANGED <<current, lapsed>>
        /\ \/ ring'[s] = file.ring
           \/ ring'[s] = ring[s] /\ suspect'[s] = suspect[s]
        /\ \A t \in Session \ {s} : ring'[t] = ring[t] /\ suspect'[t] = suspect[t]
        BY <1>0, <1>7, <2>1, NoneAssumption DEF Unlocked, UnlockRefused, VaultFile
  <2>3. Unsaved(s) = {}
        BY <1>7 DEF Unlocked, UnlockRefused, Unsaved
  <2> QED BY <1>0, <1>1, <2>2, <2>3 DEF LastInv, Doubted
<1>8. CASE Write(s)
  <2>1. /\ op[s].snap \in VaultFile /\ op[s].snap = file /\ file # None
        /\ op[s].pc = "writing"
        /\ op[s].job \in {"records"} \cup Wrapper
        /\ op[s].job \in Wrapper => ring[s] \in Keyring /\ ring[s] # None
        BY <1>8, NoneAssumption
           DEF Write, SerialInv, Steady, Inv, CallsWellFormed, CallOK
  <2>2. ring' = ring
        BY <1>8 DEF Write
  <2>3. CASE op[s].job = "records"
    <3>1. file'.ring = file.ring /\ UNCHANGED <<current, suspect, lapsed>>
          BY <1>8, <2>1, <2>3 DEF Write, VaultFile
    <3>2. Unsaved(s) = {}
          BY <2>1, <2>3 DEF Unsaved, Wrapper
    <3> QED BY <1>1, <2>1, <2>2, <3>1, <3>2, LastKept DEF Doubted
  <2>4. CASE op[s].job # "records"
    <3> DEFINE w == op[s].job
    <3>1. /\ w \in Wrapper /\ ring[s] # None /\ file'.ring = ring[s]
          /\ current' = [current EXCEPT ![w] = ring[s].wrap[w].secret]
          /\ lapsed' = (lapsed \cup suspect[s]) \ {w}
          /\ suspect'[s] = suspect[s] \ {w}
          /\ \A t \in Session \ {s} : ring[t] # None => suspect'[t] = suspect[t] \cup {w}
          BY <1>8, <2>1, <2>4 DEF Write, KeyringSaved, VaultFile
    <3>2. Unsaved(s) = {w}
          BY <2>1, <3>1 DEF Unsaved
    <3>3. lapsed' # Wrapper
          BY <3>1
    <3> HIDE DEF w
    <3>4. \A v \in Wrapper \ lapsed' : ring[s].wrap[v].secret = current'[v]
      <4>1. \A v \in Wrapper \ (suspect[s] \cup lapsed \cup {w}) :
               ring[s].wrap[v].secret = current[v]
            BY <2>1, <3>1, <3>2 DEF LastInv, Doubted
      <4> QED BY <1>0, <3>1, <4>1
    <3>5. \A t \in Session \ {s} : ring[t] # None =>
             \A v \in Wrapper \ Doubted(t)' : ring[t].wrap[v].secret = current'[v]
      <4>1. ASSUME NEW t \in Session \ {s}, ring[t] # None
            PROVE  Doubted(t) \cup {w} \subseteq Doubted(t)'
            BY <1>1, <3>1, <4>1 DEF Doubted
      <4> QED BY <1>0, <3>1, <4>1 DEF LastInv
    <3> QED BY <2>2, <3>1, <3>3, <3>4, <3>5 DEF LastInv, Doubted
  <2> QED BY <2>3, <2>4
<1>9. ASSUME NEW w \in Wrapper, NEW x \in Secret, NEW name, Starts(s, name),
             Rewrap(s, w, x)
      PROVE  LastInv'
  <2>1. /\ ring[s] \in Keyring /\ ring[s] # None
        /\ ring' = [ring EXCEPT ![s].wrap[w] = [secret |-> x, key |-> masterKey[s]]]
        /\ UNCHANGED <<file, current, suspect, lapsed>>
        BY <1>0, <1>9 DEF Rewrap, diskVars, historyVars
  <2>2. /\ \A v \in Wrapper \ {w} : ring'[s].wrap[v] = ring[s].wrap[v]
        /\ \A t \in Session \ {s} : ring'[t] = ring[t]
        BY <1>0, <2>1 DEF Keyring
  <2>3. Unsaved(s) = {}
        BY <1>0, <1>9 DEF Starts, Unsaved
  <2>4. Unsaved(s)' = {w}
        BY <1>0, <1>9 DEF Rewrap, Unsaved, Idle
  <2> QED BY <1>0, <1>1, <2>1, <2>2, <2>3, <2>4 DEF LastInv, Doubted
<1>10. CASE Fail(s) \/ Crash(s)
  <2>1. /\ file' = file /\ UNCHANGED <<current, lapsed>>
        /\ \A t \in Session : ring'[t] \in {None, ring[t]}
        /\ \A t \in Session \ {s} : suspect'[t] = suspect[t]
        /\ ring'[s] # None => suspect'[s] = suspect[s] \cup Unsaved(s)
        BY <1>0, <1>10 DEF Fail, Crash, diskVars
  <2> QED BY <1>1, <2>1, LastKept DEF Doubted
<1> QED BY <1>3, <1>4, <1>6, <1>7, <1>8, <1>9, <1>10 DEF Moves

\* With one operation at a time, the secret last put in force opens the file,
\* through any calls that raise, crashes, restarts and forgotten attempts, unless
\* the session that last saved its keyring had failed to change it or did not
\* know of it; and the other secret opens the file then.
THEOREM LastChangeStays ==
    ASSUME OneAtATime
    PROVE  Spec => []LastChangeHolds
<1>1. Init => LastInv
      BY DEF Init, LastInv, Wrapper
<1>2. Inv /\ LastInv => LastChangeHolds
      BY DEF LastInv, LastChangeHolds, Inv, TypeOK
<1>3. Inv /\ SerialInv /\ LastInv /\ [Next]_vars => (Inv /\ SerialInv /\ LastInv)'
  <2> SUFFICES ASSUME Inv, SerialInv, LastInv, [Next]_vars
               PROVE  (Inv /\ SerialInv /\ LastInv)'
      OBVIOUS
  <2>1. Inv' /\ SerialInv'
        BY NextInv, SerialStep
  <2>2. ASSUME NEW s \in Session, op[s] = Idle, Crash(s)
        PROVE  LastInv'
    <3>1. /\ file' = file /\ UNCHANGED <<op, current, lapsed>>
          /\ \A t \in Session : /\ ring'[t] \in {None, ring[t]}
                                /\ ring'[t] # None => suspect'[t] = suspect[t]
          BY <2>2 DEF Crash, diskVars, Inv, TypeOK
    <3> QED BY <3>1, LastKept DEF Doubted, Unsaved
  <2>3. ASSUME Tick \/ UNCHANGED vars
        PROVE  LastInv'
    <3>1. UNCHANGED <<op, ring, file, current, suspect, lapsed>>
          BY <2>3 DEF Tick, vars, diskVars, sessionVars, historyVars
    <3> QED BY <3>1, LastKept DEF Doubted, Unsaved
  <2>4. ASSUME NEW s \in Session, Moves(s)
        PROVE  LastInv'
        BY <2>4, LastMove
  <2>5. LastInv'
        BY <2>2, <2>3, <2>4, NextMoves
  <2> QED BY <2>1, <2>5
<1> QED BY <1>1, <1>2, <1>3, InitInv, SerialInit, PTL DEF Spec
-----------------------------------------------------------------------------
(***************************************************************************)
(* A vault from its creation on, with one operation at a time.             *)
(***************************************************************************)

KeyedInv == file # None => OneKeyInv

\* The file appears only in FinishCreate, and every session knows it then.
LEMMA KeyedStep ==
    ASSUME OneAtATime, Inv, SerialInv, KeyedInv, [Next]_vars
    PROVE  /\ KeyedInv'
           /\ file # None => file'.ring.check = file.ring.check
           /\ file = None => file' = None \/ \E s \in Session : FinishCreate(s)
<1>1. CASE file # None
      BY <1>1, OneKeyStep DEF KeyedInv
<1>2. ASSUME file = None, NEW s \in Session, FinishCreate(s)
      PROVE  KeyedInv'
  <2>1. PICK p \in Passphrase, c \in Code, k \in Key :
          /\ file' = [ring |-> NewRing(p, c, k), records |-> NoRecords,
                      attempts |-> NewAttempts]
          /\ ring' = [ring EXCEPT ![s] = NewRing(p, c, k)]
        BY <1>2 DEF FinishCreate
  <2>2. \A t \in Session \ {s} : op[t] = Idle /\ op'[t] = Idle
        BY <1>2, MovesAlone DEF SerialInv, Moves
  <2>3. /\ \A t \in Session \ {s} : ring'[t] = None /\ op'[t].snap = None
                                    /\ op'[t].pc # "creating"
        /\ ring'[s].check = file'.ring.check
        BY <1>2, <2>1, <2>2 DEF SerialInv, Steady, Inv, TypeOK, Idle
  <2>4. op'[s].snap = None /\ op'[s].pc # "creating"
        BY <1>2, VaultEventTyped, CompletedTyped, CompletedOver DEF FinishCreate, Inv, CallOver
  <2> QED BY <2>3, <2>4 DEF KeyedInv, OneKeyInv
<1>3. ASSUME file = None, NEW s \in Session,
             \/ Unlocked(s) \/ UnlockRefused(s) \/ Write(s)
             \/ \E w \in Wrapper, x \in Secret : Rewrap(s, w, x)
      PROVE  FALSE
      BY <1>3 DEF Unlocked, UnlockRefused, Write, Rewrap, SerialInv, Steady
<1>4. CASE file = None /\ QuietStep
      BY <1>4 DEF QuietStep, KeyedInv
<1> QED BY <1>1, <1>2, <1>3, <1>4, StepKinds

\* What goes on in a vault from its creation: one operation at a time.
VaultInv == Inv /\ SerialInv /\ KeyedInv

LEMMA VaultInvKept ==
    ASSUME OneAtATime
    PROVE  /\ Init => VaultInv
           /\ VaultInv /\ [Next]_vars => VaultInv'
<1>1. Init => VaultInv
  <2>1. Init => KeyedInv
        BY DEF Init, KeyedInv
  <2> QED BY <2>1, InitInv, SerialInit DEF VaultInv
<1>2. VaultInv /\ [Next]_vars => VaultInv'
      BY NextInv, SerialStep, KeyedStep DEF VaultInv
<1> QED BY <1>1, <1>2

\* A vault keeps the master key it was created with: two creations cannot
\* follow one upon the other.
THEOREM CreatedKeyStable ==
    ASSUME OneAtATime
    PROVE  Spec => VaultKeyStable
<1>1. VaultInv /\ [Next]_vars
      => [file # None => file'.ring.check = file.ring.check]_vars
      BY KeyedStep DEF VaultInv
<1> QED BY <1>1, VaultInvKept, PTL DEF Spec, VaultKeyStable

KeptInv == file # None => RecordsInv

LEMMA KeptStep ==
    ASSUME OneAtATime, StableRequests, VaultInv, SoundInv, KeptInv, [Next]_vars
    PROVE  KeptInv'
<1>1. CASE file # None
      BY <1>1, RecordsStep DEF KeptInv, VaultInv, KeyedInv
<1>2. ASSUME file = None, NEW s \in Session, FinishCreate(s)
      PROVE  KeptInv'
  <2>1. file'.records = NoRecords
        BY <1>2 DEF FinishCreate
  <2>2. \A t \in Session \ {s} : op'[t] = Idle
        BY <1>2, MovesAlone DEF VaultInv, SerialInv, Moves
  <2>3. op'[s].work = NoRecords /\ op'[s].snap = None
        BY <1>2 DEF FinishCreate, Completed, Idle, VaultInv, Inv, TypeOK
  <2>4. \A t \in Session : op'[t].work = NoRecords /\ op'[t].snap = None
        BY <2>2, <2>3 DEF Idle
  <2>5. \A k : GoodRecords(k, NoRecords)
        BY DEF GoodRecords, NoRecords
  <2> QED BY <2>1, <2>4, <2>5 DEF KeptInv, RecordsInv
<1>3. CASE file = None /\ file' = None
      BY <1>3 DEF KeptInv
<1> QED BY <1>1, <1>2, <1>3, KeyedStep DEF VaultInv

LEMMA StoreInvKept ==
    ASSUME OneAtATime, StableRequests
    PROVE  /\ Init => VaultInv /\ SoundInv /\ KeptInv
           /\ VaultInv /\ SoundInv /\ KeptInv /\ [Next]_vars
              => (VaultInv /\ SoundInv /\ KeptInv)'
<1>1. Init => SoundInv /\ KeptInv
      BY DEF Init, SoundInv, KeyringsSound, Idle, KeptInv
<1>2. VaultInv /\ SoundInv /\ KeptInv /\ [Next]_vars => SoundInv' /\ KeptInv'
      BY SoundStep, KeptStep DEF VaultInv
<1> QED BY <1>1, <1>2, VaultInvKept

\* ... and what its callers saved opens, from the creation on.
THEOREM CreatedRecordsReadable ==
    ASSUME OneAtATime, StableRequests
    PROVE  Spec => []RecordsReadable
<1>1. VaultInv /\ SoundInv /\ KeptInv => RecordsReadable
  <2>1. CASE file = None
        BY <2>1 DEF RecordsReadable
  <2>2. CASE file # None
        BY <2>2, GoodReadable DEF VaultInv, KeyedInv, KeptInv
  <2> QED BY <2>1, <2>2
<1> QED BY <1>1, StoreInvKept, PTL DEF Spec
-----------------------------------------------------------------------------
(* Batches.                                                                *)

\* A set of natural numbers has a least one ...
LEMMA HasLeast ==
  ASSUME NEW T, T \subseteq Nat, T # {}
  PROVE \E x \in T : \A y \in T : x <= y
<1>1. PICK x \in T : \A y \in T : ~(<<y, x>> \in OpToRel(<, Nat))
   BY NatLessThanWellFounded, WFMin
<1>2. \A y \in T : ~(<<y, x>> \in {ss \in Nat \X Nat : ss[1] < ss[2]})
   BY <1>1 DEF OpToRel
<1>3. ASSUME NEW y \in T PROVE x <= y
  <2>1. y \in Nat /\ x \in Nat
    OBVIOUS
  <2>2. ~(y < x)
    BY <1>2, <2>1
  <2> QED BY <2>1, <2>2
<1> QED BY <1>3

\* ... so a bounded one has a greatest.
LEMMA HasLast ==
  ASSUME NEW n \in Nat, NEW T, T \subseteq 1..n, T # {}
  PROVE \E x \in T : \A y \in T : y <= x
<1> DEFINE U == {n - x : x \in T}
<1>1. U \subseteq Nat
  <2>1. \A x \in T : n - x \in Nat
    OBVIOUS
  <2> QED BY <2>1
<1>0. U # {}
  OBVIOUS
<1>2. PICK u \in U : \A v \in U : u <= v
  BY <1>1, <1>0, HasLeast
<1>3. PICK x \in T : u = n - x
  OBVIOUS
<1>4. \A y \in T : n - y \in U
  OBVIOUS
<1>5. \A y \in T : n - x <= n - y
  BY <1>2, <1>3, <1>4
<1> QED BY <1>5

\* The content of a records map, none of it unreadable.
Reads(recs) ==
    [id \in RecordId |-> IF recs[id] = None THEN None ELSE recs[id].env.payload]

Latest(S) == CHOOSE i \in S : \A j \in S : j <= i

LEMMA LatestIs ==
    ASSUME NEW n \in Nat, NEW S, S \subseteq 1..n, NEW m \in S, \A j \in S : j <= m
    PROVE  Latest(S) = m
<1>1. \A i \in S : (\A j \in S : j <= i) => i = m
  <2> TAKE i \in S
  <2>1. i \in Nat /\ m \in Nat /\ i <= m
        OBVIOUS
  <2> QED BY <2>1
<1> QED BY <1>1 DEF Latest

AppliedTo(st, b) ==
    [id \in RecordId |->
        LET at == {i \in DOMAIN b : b[i].id = id}
        IN  IF at = {} THEN st[id] ELSE b[Latest(at)].payload]

LEMMA AppliedIs == \A st, b : Store!Applied(st, b) = AppliedTo(st, b)
BY DEF Store!Applied, AppliedTo, Latest

\* Items take effect one by one: the vault stores the first, the store of the
\* rest is to come.
LEMMA AppliedFirst ==
    ASSUME NEW st, NEW q \in Seq(Request), q # << >>
    PROVE  AppliedTo([id \in RecordId |-> IF id = Head(q).id THEN Head(q).payload
                                          ELSE st[id]], Tail(q))
           = AppliedTo(st, q)
<1> DEFINE new == [id \in RecordId |-> IF id = Head(q).id THEN Head(q).payload ELSE st[id]]
           at(id) == {i \in DOMAIN q : q[i].id = id}
           rest(id) == {i \in DOMAIN Tail(q) : Tail(q)[i].id = id}
<1>1. /\ DOMAIN q = 1..Len(q) /\ Len(q) \in Nat \ {0} /\ Head(q) = q[1]
      /\ DOMAIN Tail(q) = 1..(Len(q) - 1)
      /\ \A i \in 1..(Len(q) - 1) : Tail(q)[i] = q[i + 1]
      OBVIOUS
<1>2. ASSUME NEW id \in RecordId
      PROVE  (IF rest(id) = {} THEN new[id] ELSE Tail(q)[Latest(rest(id))].payload)
             = (IF at(id) = {} THEN st[id] ELSE q[Latest(at(id))].payload)
  <2>1. CASE rest(id) = {}
    <3>1. \A i \in at(id) : i = 1
      <4> TAKE i \in at(id)
      <4>1. i \in 1..Len(q) /\ q[i].id = id
            BY <1>1
      <4>2. SUFFICES ASSUME i # 1 PROVE FALSE
            OBVIOUS
      <4>3. i - 1 \in 1..(Len(q) - 1) /\ (i - 1) + 1 = i
            BY <1>1, <4>1, <4>2
      <4>4. Tail(q)[i - 1] = q[i]
            BY <1>1, <4>3
      <4>5. i - 1 \in rest(id)
            BY <1>1, <4>1, <4>3, <4>4
      <4> QED BY <2>1, <4>5
    <3>2. CASE Head(q).id = id
      <4>1. at(id) = {1}
            BY <1>1, <3>1, <3>2
      <4>2. Latest({1}) = 1
        <5>1. 1 \in Nat /\ {1} \subseteq 1..1 /\ \A j \in {1} : j <= 1
              OBVIOUS
        <5> QED BY <5>1, LatestIs
      <4> QED BY <1>1, <2>1, <3>2, <4>1, <4>2
    <3>3. CASE Head(q).id # id
      <4>1. at(id) = {}
            BY <1>1, <3>1, <3>3
      <4> QED BY <2>1, <3>3, <4>1
    <3> QED BY <3>2, <3>3
  <2>2. CASE rest(id) # {}
    <3>1. rest(id) \subseteq 1..(Len(q) - 1) /\ Len(q) - 1 \in Nat
          BY <1>1
    <3>2. PICK m \in rest(id) : \A j \in rest(id) : j <= m
          BY <2>2, <3>1, HasLast
    <3>3. Latest(rest(id)) = m
          BY <3>1, <3>2, LatestIs
    <3>4. m + 1 \in at(id) /\ Tail(q)[m] = q[m + 1] /\ m \in Nat
          BY <1>1, <3>1
    <3>5. ASSUME NEW j \in at(id) PROVE j <= m + 1
      <4>1. j \in 1..Len(q) /\ q[j].id = id
            BY <1>1
      <4>2. CASE j = 1
            BY <3>4, <4>2
      <4>3. CASE j # 1
        <5>1. j - 1 \in 1..(Len(q) - 1) /\ (j - 1) + 1 = j
              BY <1>1, <4>1, <4>3
        <5>2. j - 1 \in rest(id)
              BY <1>1, <4>1, <5>1
        <5>3. j - 1 <= m
              BY <3>2, <5>2
        <5> QED BY <3>4, <4>1, <5>3
      <4> QED BY <4>2, <4>3
    <3>6. at(id) \subseteq 1..Len(q) /\ Len(q) \in Nat
          BY <1>1
    <3>7. Latest(at(id)) = m + 1
          BY <3>4, <3>5, <3>6, LatestIs
    <3> QED BY <2>2, <3>3, <3>4, <3>7
  <2> QED BY <2>1, <2>2
<1>3. AppliedTo(new, Tail(q)) =
        [id \in RecordId |-> IF rest(id) = {} THEN new[id]
                             ELSE Tail(q)[Latest(rest(id))].payload]
      BY DEF AppliedTo
<1>4. AppliedTo(st, q) =
        [id \in RecordId |-> IF at(id) = {} THEN st[id] ELSE q[Latest(at(id))].payload]
      BY DEF AppliedTo
<1> HIDE DEF new, at, rest
<1>5. AppliedTo(new, Tail(q)) = AppliedTo(st, q)
      BY <1>2, <1>3, <1>4
<1> QED BY <1>5 DEF new

\* Nothing more to store.
LEMMA AppliedNone ==
    ASSUME NEW st, st = [id \in RecordId |-> st[id]]
    PROVE  AppliedTo(st, << >>) = st
<1>1. \A id : {i \in DOMAIN << >> : << >>[i].id = id} = {}
      OBVIOUS
<1> QED BY <1>1 DEF AppliedTo

LEMMA StoreItemReads ==
    ASSUME NEW recs \in Records, NEW k \in Key, NEW q \in Request
    PROVE  Reads(StoreItem(recs, k, q)) =
             [id \in RecordId |-> IF id = q.id THEN q.payload ELSE Reads(recs)[id]]
<1> DEFINE new == StoreItem(recs, k, q)
<1>1. q.id \in RecordId
      BY ConstantsAssumption
<1>2. new \in Records /\ new[q.id].env.payload = q.payload /\ new[q.id] # None
  <2>1. new \in Records
        BY StoreItemTyped
  <2>2. new[q.id].env = SealUnder(k, q)
        BY <1>1 DEF StoreItem, Records
  <2>3. new[q.id] \in Record
    <3>1. /\ q.label \in Label /\ q.kind \in Kind /\ q.payload \in Payload
          /\ recs[q.id] \in Record \cup {None}
          BY <1>1, ConstantsAssumption DEF Records
    <3>2. SealUnder(k, q) \in Sealed
          BY ConstantsAssumption DEF SealUnder, Sealed
    <3> QED BY <1>1, <3>1, <3>2 DEF StoreItem, Records, Record
  <2> QED BY <2>1, <2>2, <2>3, NoneAssumption DEF SealUnder
<1>3. \A id \in RecordId \ {q.id} : new[id] = recs[id]
      BY DEF StoreItem, Records
<1> HIDE DEF new
<1>4. \A id \in RecordId : Reads(new)[id] = IF id = q.id THEN q.payload ELSE Reads(recs)[id]
      BY <1>1, <1>2, <1>3 DEF Reads
<1> QED BY <1>4 DEF Reads, new

\* What a change under way will have made of the content when it is saved.
WorkInv ==
    \A s \in Session : op[s].pc \in {"preparing", "writing"} /\ op[s].job = "records" =>
        /\ op[s].pc = "writing" => op[s].todo = << >>
        /\ \/ \E b \in Batch : AppliedTo(Reads(op[s].work), op[s].todo)
                                 = AppliedTo(Reads(file.records), b)
           \/ /\ op[s].todo = << >>
              /\ \E id \in RecordId :
                    Reads(op[s].work) = [Reads(file.records) EXCEPT ![id] = None]

LEMMA WorkInvStep ==
    ASSUME OneAtATime, VaultInv, WorkInv, [Next]_vars
    PROVE  WorkInv'
<1>0. /\ op \in [Session -> Call] /\ Idle.pc = "idle" /\ Inv /\ Alone
      BY DEF VaultInv, Inv, TypeOK, SerialInv, Idle
<1> DEFINE Due(c, f) ==
        c.pc \in {"preparing", "writing"} /\ c.job = "records" =>
            /\ c.pc = "writing" => c.todo = << >>
            /\ \/ \E b \in Batch : AppliedTo(Reads(c.work), c.todo)
                                     = AppliedTo(Reads(f.records), b)
               \/ /\ c.todo = << >>
                  /\ \E id \in RecordId :
                        Reads(c.work) = [Reads(f.records) EXCEPT ![id] = None]
<1>1. ASSUME NEW s \in Session, Moves(s)
      PROVE  Due(op'[s], file')
  <2>0. op[s] \in Call /\ CallOK(op[s], file, ring[s], masterKey[s]) /\ Due(op[s], file)
        BY <1>0 DEF Inv, CallsWellFormed, WorkInv
  <2>1. ASSUME op'[s].pc \notin {"preparing", "writing"} \/ op'[s].job # "records"
        PROVE  Due(op'[s], file')
        BY <2>1
  <2>2. CASE \/ BeginCreate(s) \/ \E w \in Wrapper, x \in Secret : BeginUnlock(s, w, x)
             \/ Audit(s) \/ Fail(s) \/ Crash(s)
             \/ \E w \in Wrapper, x \in Secret : Rewrap(s, w, x)
    <3>1. op'[s].pc \notin {"preparing", "writing"} \/ op'[s].job # "records"
      <4>1. CASE BeginCreate(s) \/ \E w \in Wrapper, x \in Secret : BeginUnlock(s, w, x)
            BY <1>0, <4>1 DEF BeginCreate, BeginUnlock, Idle
      <4>2. CASE Audit(s) \/ Fail(s) \/ Crash(s)
        <5>1. op'[s].pc \in {"idle", "auditing"}
              BY <1>0, <2>0, <4>2 DEF Audit, Fail, Crash, Call
        <5> QED BY <5>1
      <4>3. CASE \E w \in Wrapper, x \in Secret : Rewrap(s, w, x)
            BY <1>0, <4>3 DEF Rewrap, Idle, Wrapper
      <4> QED BY <2>2, <4>1, <4>2, <4>3
    <3> QED BY <2>1, <3>1
  <2>3. CASE FinishCreate(s) \/ Unlocked(s) \/ UnlockRefused(s) \/ Lock(s) \/ Write(s)
    <3>1. \E events \in Seq(Event) : Completed(s, events)
          BY <2>0, <2>3, VaultEventTyped
             DEF FinishCreate, Unlocked, UnlockRefused, Lock, Write, Call
    <3>2. op'[s].pc \in {"idle", "auditing"}
          BY <1>0, <3>1, CompletedTyped DEF Inv
    <3> QED BY <2>1, <3>2
  <2>4. ASSUME NEW batch \in Batch, BeginUpsert(s, batch)
        PROVE  Due(op'[s], file')
    <3>1. /\ op'[s].pc = "preparing" /\ op'[s].work = file.records /\ op'[s].todo = batch
          /\ file' = file
          BY <1>0, <2>4 DEF BeginUpsert, Idle, diskVars
    <3> QED BY <3>1
  <2>5. ASSUME NEW id \in RecordId, BeginDelete(s, id)
        PROVE  Due(op'[s], file')
    <3>1. /\ op'[s].pc = "preparing" /\ op'[s].todo = << >> /\ file' = file
          /\ op'[s].work = [file.records EXCEPT ![id] = None]
          BY <1>0, <2>5 DEF BeginDelete, Idle, diskVars
    <3>2. file.records \in Records
          BY <1>0, <2>5 DEF BeginDelete, Inv, TypeOK, VaultFile
    <3>3. Reads(op'[s].work) = [Reads(file.records) EXCEPT ![id] = None]
          BY <3>1, <3>2 DEF Reads, Records
    <3> QED BY <3>1, <3>3
  <2>6. CASE SealItem(s)
    <3> DEFINE q == Head(op[s].todo)
               recs == StoreItem(op[s].work, masterKey[s], q)
    <3>1. /\ op[s].pc = "preparing" /\ op[s].todo # << >> /\ op[s].todo \in Seq(Request)
          /\ masterKey[s] \in Key /\ op[s].work \in Records /\ q \in Request
          BY <2>0, <2>6 DEF SealItem, CallOK, Call
    <3>2. /\ op'[s].pc = "preparing" /\ op'[s].job = op[s].job /\ op'[s].work = recs
          /\ op'[s].todo = Tail(op[s].todo) /\ file' = file
          BY <1>0, <2>0, <2>6 DEF SealItem, Call, diskVars
    <3>3. Reads(recs) = [id \in RecordId |-> IF id = q.id THEN q.payload
                                             ELSE Reads(op[s].work)[id]]
          BY <3>1, StoreItemReads
    <3>4. AppliedTo(Reads(recs), Tail(op[s].todo)) = AppliedTo(Reads(op[s].work), op[s].todo)
          BY <3>1, <3>3, AppliedFirst
    <3> HIDE DEF q, recs
    <3> QED BY <2>0, <3>1, <3>2, <3>4
  <2>7. CASE Reload(s)
    <3>1. /\ op[s].pc = "preparing" /\ op[s].todo = << >> /\ op'[s].todo = << >>
          /\ op'[s].job = op[s].job /\ op'[s].work = op[s].work /\ file' = file
          BY <1>0, <2>0, <2>7 DEF Reload, Call, diskVars
    <3> QED BY <2>0, <3>1
  <2> HIDE DEF Due
  <2> QED BY <1>1, <2>2, <2>3, <2>4, <2>5, <2>6, <2>7 DEF Moves
<1>2. ASSUME NEW s \in Session, Moves(s)
      PROVE  WorkInv'
  <2>1. \A t \in Session \ {s} : op'[t] = Idle
        BY <1>0, <1>2, MovesAlone
  <2>2. \A t \in Session : Due(op'[t], file')
        BY <1>0, <1>1, <1>2, <2>1
  <2> QED BY <2>2 DEF WorkInv
<1>3. ASSUME op' = op, file' = file
      PROVE  WorkInv'
      BY <1>3 DEF WorkInv
<1>4. ASSUME NEW s \in Session, op[s] = Idle, Crash(s)
      PROVE  op' = op /\ file' = file
      BY <1>0, <1>4 DEF Crash, diskVars
<1>5. CASE Tick \/ UNCHANGED vars
      BY <1>3, <1>5 DEF Tick, vars, sessionVars, diskVars
<1> QED BY <1>2, <1>3, <1>4, <1>5, NextMoves

\* With good records the content of the file is what its records map reads.
LEMMA ContentReads ==
    ASSUME file # None, RecordsInv
    PROVE  Content = Reads(file.records)
<1>1. ASSUME NEW id \in RecordId, file.records[id] # None
      PROVE  Opens(file.ring.check, id, file.records[id])
  <2>1. GoodRecord(file.ring.check, id, file.records[id])
        BY <1>1 DEF RecordsInv, GoodRecords
  <2> QED BY <2>1 DEF GoodRecord, Opens, SealUnder
<1> QED BY <1>1 DEF Content, Reads

\* The same of the state after a step.
LEMMA ContentReadsNext ==
    ASSUME file' # None, RecordsInv'
    PROVE  Content' = Reads(file'.records)
<1>1. ASSUME NEW id \in RecordId, file'.records[id] # None
      PROVE  Opens(file'.ring.check, id, file'.records[id])
  <2>1. GoodRecord(file'.ring.check, id, file'.records[id])
        BY <1>1 DEF RecordsInv, GoodRecords
  <2> QED BY <2>1 DEF GoodRecord, Opens, SealUnder
<1> QED BY <1>1 DEF Content, Reads

LEMMA ContentNone ==
    ASSUME file = None
    PROVE  Content = [id \in RecordId |-> None]
BY DEF Content
-----------------------------------------------------------------------------
(* The refinement.                                                         *)

StoreInv == VaultInv /\ SoundInv /\ KeptInv /\ WorkInv

LEMMA StoreInvInductive ==
    ASSUME OneAtATime, StableRequests
    PROVE  /\ Init => StoreInv
           /\ StoreInv /\ [Next]_vars => StoreInv'
<1>1. Init => WorkInv
      BY DEF Init, WorkInv, Idle
<1>2. StoreInv /\ [Next]_vars => WorkInv'
      BY WorkInvStep DEF StoreInv
<1> QED BY <1>1, <1>2, StoreInvKept DEF StoreInv

\* Every step of the vault is a Put, a Remove or nothing to its content.
LEMMA StoreStep ==
    ASSUME OneAtATime, StableRequests, StoreInv, StoreInv', [Next]_vars
    PROVE  Store!Next \/ UNCHANGED Content
<1>0. /\ Inv /\ SerialInv /\ (file # None => RecordsInv)
      /\ Inv' /\ (file' # None => RecordsInv')
      BY DEF StoreInv, VaultInv, KeptInv
<1>1. CASE file' = file
      BY <1>1 DEF Content
<1>2. ASSUME NEW s \in Session, FinishCreate(s)
      PROVE  UNCHANGED Content
  <2>1. file = None
        BY <1>0, <1>2 DEF FinishCreate, SerialInv, Steady
  <2>2. file'.records = NoRecords
        BY <1>2 DEF FinishCreate
  <2>3. Content' = [id \in RecordId |-> None]
        BY <2>2 DEF Content, NoRecords
  <2> QED BY <2>1, <2>3, ContentNone
<1>3. ASSUME NEW s \in Session, Unlocked(s) \/ UnlockRefused(s) \/ Write(s)
      PROVE  Store!Next \/ UNCHANGED Content
  <2>1. /\ op[s].snap \in VaultFile /\ op[s].snap = file /\ file # None
        /\ op[s] \in Call
        BY <1>0, <1>3, DerivingRead, NoneAssumption
           DEF Unlocked, UnlockRefused, Write, SerialInv, Steady, Inv, TypeOK,
               CallsWellFormed, CallOK
  <2>2. file' # None
        BY <1>0, <1>3, <2>1, MovesSteady DEF Moves
  <2>3. Content = Reads(file.records) /\ Content' = Reads(file'.records)
    <3>1. Content = Reads(file.records)
          BY <1>0, <2>1, ContentReads
    <3>2. Content' = Reads(file'.records)
          BY <1>0, <2>2, ContentReadsNext
    <3> QED BY <3>1, <3>2
  <2>4. CASE file'.records = file.records
        BY <2>3, <2>4
  <2>5. CASE Write(s) /\ op[s].job = "records"
    <3>1. file'.records = op[s].work
          BY <2>1, <2>5 DEF Write, VaultFile
    <3>2. /\ op[s].todo = << >>
          /\ \/ \E b \in Batch : AppliedTo(Reads(op[s].work), << >>)
                                 = AppliedTo(Content, b)
             \/ \E id \in RecordId : Reads(op[s].work) = [Content EXCEPT ![id] = None]
          BY <2>3, <2>5 DEF Write, StoreInv, WorkInv
    <3>3. AppliedTo(Reads(op[s].work), << >>) = Reads(op[s].work)
      <4> DEFINE r == Reads(op[s].work)
      <4>1. r = [id \in RecordId |-> r[id]]
            BY DEF Reads
      <4> HIDE DEF r
      <4>2. AppliedTo(r, << >>) = r
            BY <4>1, AppliedNone
      <4> QED BY <4>2 DEF r
    <3>4. CASE \E b \in Batch : AppliedTo(Reads(op[s].work), << >>) = AppliedTo(Content, b)
      <4>1. PICK b \in Batch : Content' = AppliedTo(Content, b)
            BY <2>3, <3>1, <3>3, <3>4
      <4>2. Content' = Store!Applied(Content, b)
            BY <4>1, AppliedIs
      <4> QED BY <4>2 DEF Store!Next, Store!Put
    <3>5. CASE \E id \in RecordId : Reads(op[s].work) = [Content EXCEPT ![id] = None]
      <4>1. PICK id \in RecordId : Content' = [Content EXCEPT ![id] = None]
            BY <2>3, <3>1, <3>5
      <4> QED BY <4>1 DEF Store!Next, Store!Remove
    <3> QED BY <3>2, <3>4, <3>5
  <2>6. CASE Unlocked(s) \/ UnlockRefused(s)
        BY <2>1, <2>4, <2>6 DEF Unlocked, UnlockRefused, VaultFile
  <2>7. CASE Write(s) /\ op[s].job # "records"
    <3>1. file'.records = file.records
          BY <2>1, <2>7 DEF Write, VaultFile
    <3> QED BY <2>4, <3>1
  <2> QED BY <1>3, <2>5, <2>6, <2>7
<1>4. ASSUME NEW s \in Session, NEW w \in Wrapper, NEW x \in Secret, Rewrap(s, w, x)
      PROVE  file' = file
      BY <1>4 DEF Rewrap, diskVars
<1>5. QuietStep => file' = file
      BY DEF QuietStep
<1> QED BY <1>0, <1>1, <1>2, <1>3, <1>4, <1>5, StepKinds

\* With one operation at a time, and callers that do not relabel, the vault is
\* the map that VaultStore describes: whatever fails or crashes, a batch is
\* saved whole or not at all, and nothing else touches a record.
THEOREM VaultIsAStore ==
    ASSUME OneAtATime, StableRequests
    PROVE  Spec => AtomicStore
<1>1. Init => Store!Init
  <2>1. Init => Content = [id \in RecordId |-> None]
        BY ContentNone DEF Init
  <2> QED BY <2>1 DEF Store!Init, Store!InitStore
<1>2. StoreInv /\ StoreInv' /\ [Next]_vars => [Store!Next]_Content
      BY StoreStep
<1> QED BY <1>1, <1>2, StoreInvInductive, PTL DEF Spec, AtomicStore, Store!Spec
=============================================================================
