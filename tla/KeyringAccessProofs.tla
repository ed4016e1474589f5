------------------------- MODULE KeyringAccessProofs -------------------------
(***************************************************************************)
(* The keyring of the biometrics tools for any number of commands, GUIs    *)
(* and keys, in any order of their steps, with a clock that steps back;    *)
(* and before it, the throttle that it shares with the vault.              *)
(***************************************************************************)
EXTENDS KeyringAccess, TLAPS

-----------------------------------------------------------------------------
(* The throttle, for every choice of its parameters *)

\* The backoff is a natural number of seconds under the ceiling, however many
\* failures were recorded (throttle.AttemptLimiter.required_delay).
LEMMA RequiredDelayBounded ==
    ASSUME NEW n \in Nat
    PROVE  RequiredDelay(n) \in Nat /\ RequiredDelay(n) <= MaxDelay
<1> DEFINE e == Least(n - 1, MaxBackoffExponent)
<1>1. CASE n < 1
      BY <1>1, LimiterAssumption DEF RequiredDelay
<1>2. CASE n >= 1
  <2>1. e \in 0..MaxBackoffExponent
        BY <1>2, LimiterAssumption DEF Least
  <2>2. BaseDelay * 2^e \in Nat
    <3>1. 2^e \in Nat
          BY <2>1, PowersAssumption
    <3> HIDE DEF e
    <3> QED BY <3>1, LimiterAssumption
  <2>3. RequiredDelay(n) = Least(BaseDelay * 2^e, MaxDelay)
        BY <1>2 DEF RequiredDelay
  <2> HIDE DEF e
  <2> QED BY <2>2, <2>3, LimiterAssumption DEF Least
<1> QED BY <1>1, <1>2

\* The three states the limiter hands out are well formed.
LEMMA AttemptsTyped ==
    /\ NewAttempts \in Attempts
    /\ \A st \in Attempts, now \in Nat : RecordFailure(st, now) \in Attempts
    /\ \A st \in Attempts : RecordSuccess(st) \in Attempts
BY LimiterAssumption DEF NewAttempts, Attempts, RecordFailure, RecordSuccess

\* A recorded state: nothing in it lies further ahead than one lockout.
Recorded(st, now) == st.last <= now /\ st.until <= now + LockoutSeconds

\* Time and the limiter's own operations keep a state recorded.
LEMMA RecordedKept ==
    ASSUME NEW st \in Attempts, NEW now \in Nat, Recorded(st, now)
    PROVE  /\ Recorded(RecordFailure(st, now), now)
           /\ Recorded(RecordSuccess(st), now)
           /\ \A t \in Nat : now <= t => Recorded(st, t)
BY LimiterAssumption
   DEF Attempts, Recorded, RecordFailure, RecordSuccess, NewAttempts

\* check() lets a caller through who has waited for the longer of the lockout
\* and the backoff ceiling: no history locks the owner out for good.
THEOREM LongWaitSuffices ==
    ASSUME NEW st \in Attempts, NEW now \in Nat, Recorded(st, now)
    PROVE  MayAttempt(st, now + LongestWait)
<1>1. RequiredDelay(st.failed) \in Nat /\ RequiredDelay(st.failed) <= MaxDelay
      BY RequiredDelayBounded DEF Attempts
<1>2. /\ LongestWait \in Nat
      /\ LockoutSeconds <= LongestWait /\ MaxDelay <= LongestWait
      BY LimiterAssumption DEF LongestWait, Greatest
<1> QED BY <1>1, <1>2, LimiterAssumption DEF Attempts, Recorded, MayAttempt

\* The failure that reaches the limit bars every attempt until the lockout
\* has elapsed, whatever the backoff is.
THEOREM LockoutHolds ==
    ASSUME NEW st \in Attempts, NEW now \in Nat, NEW t \in Nat,
           st.failed + 1 >= MaxAttempts, t < now + LockoutSeconds
    PROVE  ~MayAttempt(RecordFailure(st, now), t)
BY LimiterAssumption DEF Attempts, MayAttempt, RecordFailure

\* status() and check() agree: the remaining wait is zero exactly when an
\* attempt is let through, and waiting that long is enough.
THEOREM RemainingWaitExact ==
    ASSUME NEW st \in Attempts, NEW now \in Nat
    PROVE  /\ MayAttempt(st, now) <=> RemainingWait(st, now) = 0
           /\ MayAttempt(st, now + RemainingWait(st, now))
<1>1. RequiredDelay(st.failed) \in Nat
      BY RequiredDelayBounded DEF Attempts
<1> QED BY <1>1 DEF Attempts, MayAttempt, RemainingWait, Greatest

-----------------------------------------------------------------------------
(* The keyring *)

Call == [pc : {"idle", "creating", "filling", "opened", "deriving"},
         opened : KeyringFile \cup {None}, raw : KeyringFile \cup {None},
         key : Keys \cup {None}, linked : BOOLEAN]

\* What each step of a call reads is there, and the clock is not ahead of the
\* latest time it has shown.
Typed ==
    /\ file \in KeyringFile \cup {Missing, Broken}
    /\ clock \in Nat /\ latest \in Nat /\ clock <= latest
    /\ failures \in Nat /\ failedAt \in Nat
    /\ proc \in [Process -> Call]
    /\ \A p \in Process :
          /\ proc[p].pc \in {"opened", "deriving"} => proc[p].opened # None
          /\ proc[p].pc = "deriving" <=> proc[p].raw # None
          /\ proc[p].pc = "filling" => proc[p].key # None
    /\ held \in [Process -> Keys \cup {None}]
    /\ shown \subseteq Keys /\ minted \subseteq Keys

LEMMA IdleTyped == Idle \in Call /\ Idle.pc = "idle" /\ Idle.raw = None
  BY DEF Idle, Call

\* A call that replaces the file is over, and no other call moves.
LEMMA ReplaceTyped ==
  ASSUME Typed, NEW p \in Process, NEW content, Replace(p, content)
  PROVE  /\ proc' \in [Process -> Call]
         /\ \A q \in Process :
               /\ proc'[q].pc \in {"opened", "deriving"} => proc'[q].opened # None
               /\ proc'[q].pc = "deriving" <=> proc'[q].raw # None
               /\ proc'[q].pc = "filling" => proc'[q].key # None
  <1>1. ASSUME NEW q \in Process \ {p}
        PROVE  /\ proc'[q] \in Call /\ proc'[q].pc = proc[q].pc
               /\ proc'[q].opened = proc[q].opened /\ proc'[q].raw = proc[q].raw
               /\ proc'[q].key = proc[q].key
    <2>1. proc[q] \in Call
      BY DEF Typed
    <2>2. proc'[q] = [proc[q] EXCEPT !.linked = FALSE]
      BY DEF Replace
    <2>. QED
      BY <2>1, <2>2 DEF Call
  <1>2. proc'[p] = Idle
    BY DEF Replace
  <1>3. Idle \in Call /\ Idle.raw = None /\ Idle.pc = "idle"
    BY IdleTyped
  <1>4. proc' \in [Process -> Call]
    BY <1>1, <1>2, <1>3 DEF Replace
  <1>. QED
    BY <1>1, <1>2, <1>3, <1>4 DEF Typed

LEMMA TypedInductive == Typed /\ [Next]_vars => Typed'
  <1>. SUFFICES ASSUME Typed, [Next]_vars PROVE Typed'
    OBVIOUS
  <1>. USE BoundsAssumption, NoneAssumption DEF Typed, KeyringFile
  <1>1. ASSUME NEW p \in Process, BeginCreate(p) PROVE Typed'
    BY <1>1 DEF BeginCreate, Go, Idle, Call
  <1>2. ASSUME NEW p \in Process, CreateByCommand(p) PROVE Typed'
    <2>. PICK key \in Keys \ minted :
            /\ Replace(p, [key |-> key, attempts |-> NewAttempts])
            /\ minted' = minted \cup {key} /\ shown' = shown \cup {key}
            /\ Hold(p, key)
      BY <1>2 DEF CreateByCommand
    <2>1. file' \in KeyringFile
      BY AttemptsTyped DEF Replace
    <2>. QED
      BY <1>2, <2>1, ReplaceTyped DEF CreateByCommand, Hold
  <1>3. ASSUME NEW p \in Process, TruncateByDesktop(p) PROVE Typed'
    <2>. PICK key \in Keys \ minted :
            /\ Go(p, [Idle EXCEPT !.pc = "filling", !.key = key, !.linked = TRUE])
            /\ minted' = minted \cup {key}
      BY <1>3 DEF TruncateByDesktop
    <2>. DEFINE new == [Idle EXCEPT !.pc = "filling", !.key = key, !.linked = TRUE]
    <2>1. new \in Call /\ new.pc = "filling" /\ new.raw = None /\ new.key = key
      BY DEF Call, Idle
    <2>2. proc' = [proc EXCEPT ![p] = new]
      BY DEF Go
    <2>. HIDE DEF new
    <2>. QED
      BY <1>3, <2>1, <2>2 DEF TruncateByDesktop
  <1>4. ASSUME NEW p \in Process, FillByDesktop(p) PROVE Typed'
    BY <1>4, AttemptsTyped, IdleTyped DEF FillByDesktop, Go, Hold, Call, Idle
  <1>5. ASSUME NEW p \in Process, Open(p) PROVE Typed'
    BY <1>5 DEF Open, Readable, Go, Idle, Call
  <1>6. ASSUME NEW p \in Process, BeginUnlock(p) PROVE Typed'
    <2>1. proc[p].opened # None /\ file \in KeyringFile
      BY <1>6 DEF BeginUnlock, Readable
    <2>. DEFINE new == [proc[p] EXCEPT !.pc = "deriving", !.raw = file]
    <2>2. proc[p] \in Call
      OBVIOUS
    <2>3. /\ new \in Call /\ new.pc = "deriving" /\ new.raw = file
          /\ new.opened = proc[p].opened
      BY <2>1, <2>2 DEF Call
    <2>4. proc' = [proc EXCEPT ![p] = new]
      BY <1>6 DEF BeginUnlock, Go
    <2>. HIDE DEF new
    <2>. QED
      BY <1>6, <2>1, <2>3, <2>4 DEF BeginUnlock
  <1>7. ASSUME NEW p \in Process, UnlockFails(p) PROVE Typed'
    <2>1. proc[p].raw \in KeyringFile
      BY <1>7 DEF UnlockFails, Call
    <2>2. file' \in KeyringFile
      BY <1>7, <2>1, AttemptsTyped DEF UnlockFails, Replace
    <2>. QED
      BY <1>7, <2>2, ReplaceTyped DEF UnlockFails
  <1>8. ASSUME NEW p \in Process, UnlockSucceeds(p) PROVE Typed'
    <2>1. proc[p].raw \in KeyringFile /\ proc[p].opened \in KeyringFile
      BY <1>8 DEF UnlockSucceeds, Call
    <2>2. file' \in KeyringFile
      BY <1>8, <2>1, AttemptsTyped DEF UnlockSucceeds, Replace
    <2>. QED
      BY <1>8, <2>1, <2>2, ReplaceTyped DEF UnlockSucceeds, Hold
  <1>9. ASSUME NEW p \in Process, Abandon(p) \/ Release(p) PROVE Typed'
    BY <1>9, IdleTyped DEF Abandon, Release, Go, Hold, Idle
  <1>10. ASSUME NEW t \in 0..MaxClock, SetClock(t) PROVE Typed'
    BY <1>10 DEF SetClock, Greatest
  <1>11. CASE UNCHANGED vars
    BY <1>11 DEF vars
  <1>. QED
    BY <1>1, <1>2, <1>3, <1>4, <1>5, <1>6, <1>7, <1>8, <1>9, <1>10, <1>11 DEF Next

LEMMA AlwaysTyped == Spec => []Typed
  <1>1. Init => Typed
    BY IdleTyped DEF Init, Typed, Idle
  <1>. QED
    BY <1>1, TypedInductive, PTL DEF Spec

-----------------------------------------------------------------------------
(* The throttle *)

\* Nothing on file or in flight lies further ahead than one lockout from the
\* latest time of the clock.
TimesInv ==
    /\ Readable => Recorded(file.attempts, latest)
    /\ \A p \in Process :
          proc[p].raw # None => Recorded(proc[p].raw.attempts, latest)

\* A failure is recorded at the time of a clock that may have stepped back.
LEMMA FailureRecorded ==
  ASSUME NEW st \in Attempts, NEW now \in Nat, NEW late \in Nat, now <= late,
         Recorded(st, late)
  PROVE  Recorded(RecordFailure(st, now), late)
  BY LimiterAssumption DEF Attempts, Recorded, RecordFailure

LEMMA NewRecorded == \A now \in Nat : Recorded(NewAttempts, now)
  BY LimiterAssumption DEF Recorded, NewAttempts

LEMMA TimesInductive == Typed /\ TimesInv /\ [Next]_vars => TimesInv'
  <1>. SUFFICES ASSUME Typed, TimesInv, [Next]_vars PROVE TimesInv'
    OBVIOUS
  <1>. USE NoneAssumption DEF Typed, TimesInv, Readable
  <1>1. ASSUME NEW p \in Process, BeginCreate(p) \/ Open(p) \/ Abandon(p) \/ Release(p)
        PROVE  TimesInv'
    <2>1. /\ file' = file /\ latest' = latest
          /\ \A q \in Process : proc'[q].raw \in {None, proc[q].raw}
      <3>1. CASE BeginCreate(p) \/ Abandon(p) \/ Release(p)
        BY <3>1 DEF BeginCreate, Abandon, Release, Go, Idle
      <3>2. CASE Open(p)
        <4>. DEFINE new == [Idle EXCEPT !.pc = "opened", !.opened = file]
        <4>1. new.raw = None
          BY DEF Idle
        <4>. HIDE DEF new
        <4>2. proc' = [proc EXCEPT ![p] = new]
          BY <3>2 DEF Open, Go, new
        <4>. QED
          BY <3>2, <4>1, <4>2 DEF Open
      <3>. QED
        BY <1>1, <3>1, <3>2
    <2>. QED
      BY <2>1
  <1>2. ASSUME NEW p \in Process, CreateByCommand(p) PROVE TimesInv'
    BY <1>2, NewRecorded DEF CreateByCommand, Replace, Idle
  <1>3. ASSUME NEW p \in Process, TruncateByDesktop(p) PROVE TimesInv'
    BY <1>3 DEF TruncateByDesktop, Go, Idle
  <1>4. ASSUME NEW p \in Process, FillByDesktop(p) PROVE TimesInv'
    BY <1>4, NewRecorded DEF FillByDesktop, Go, Idle
  <1>5. ASSUME NEW p \in Process, BeginUnlock(p) PROVE TimesInv'
    BY <1>5 DEF BeginUnlock, Go
  <1>6. ASSUME NEW p \in Process, UnlockFails(p) PROVE TimesInv'
    <2>1. proc[p].raw \in KeyringFile /\ Recorded(proc[p].raw.attempts, latest)
      BY <1>6 DEF UnlockFails, Call
    <2>2. file'.attempts = RecordFailure(proc[p].raw.attempts, clock) /\ latest' = latest
      BY <1>6, <2>1 DEF UnlockFails, Replace, KeyringFile
    <2>3. Recorded(file'.attempts, latest)
      BY <2>1, <2>2, FailureRecorded DEF KeyringFile
    <2>. QED
      BY <1>6, <2>2, <2>3 DEF UnlockFails, Replace, Idle
  <1>7. ASSUME NEW p \in Process, UnlockSucceeds(p) PROVE TimesInv'
    <2>1. proc[p].raw \in KeyringFile
      BY <1>7 DEF UnlockSucceeds, Call
    <2>2. file'.attempts = NewAttempts /\ latest' = latest
      BY <1>7, <2>1 DEF UnlockSucceeds, Replace, KeyringFile, RecordSuccess
    <2>. QED
      BY <1>7, <2>2, NewRecorded DEF UnlockSucceeds, Replace, Idle
  <1>8. ASSUME NEW t \in 0..MaxClock, SetClock(t) PROVE TimesInv'
    <2>1. latest' \in Nat /\ latest <= latest' /\ file' = file /\ proc' = proc
      BY <1>8, BoundsAssumption DEF SetClock, Greatest
    <2>2. \A st \in Attempts : Recorded(st, latest) => Recorded(st, latest')
      BY <2>1, RecordedKept
    <2>3. file \in KeyringFile => file.attempts \in Attempts
      BY DEF KeyringFile
    <2>4. \A p \in Process : proc[p].raw # None => proc[p].raw.attempts \in Attempts
      BY DEF Call, KeyringFile
    <2>. QED
      BY <2>1, <2>2, <2>3, <2>4
  <1>9. CASE UNCHANGED vars
    BY <1>9 DEF vars
  <1>. QED
    BY <1>1, <1>2, <1>3, <1>4, <1>5, <1>6, <1>7, <1>8, <1>9 DEF Next

\* However unlocks overlap, whatever the clock does and wherever a process
\* ends, the owner gets another attempt.
THEOREM OwnerNeverLockedOut == Spec => []OwnerGetsAnotherTry
  <1>1. Init => TimesInv
    BY NoneAssumption DEF Init, TimesInv, Readable, Idle
  <1>2. Typed /\ TimesInv => OwnerGetsAnotherTry
    BY LongWaitSuffices DEF Typed, TimesInv, OwnerGetsAnotherTry, Readable, KeyringFile
  <1>. QED
    BY <1>1, <1>2, AlwaysTyped, TimesInductive, PTL DEF Spec

-----------------------------------------------------------------------------
(* Keys *)

Apart == "create" \notin overlapped
Creating == At("creating") \cup At("filling")

\* While creations do not overlap: one process creates while there is nothing
\* yet, or fills what it has truncated; nobody has a key, a code or a Keyring
\* before there is a keyring on file, and then everybody has that one.
KeysInv ==
    Apart =>
        /\ \A p, q \in Creating : p = q
        /\ \A p \in At("creating") : ~Exists
        /\ \A p \in At("filling") : ~Readable /\ proc[p].linked
        /\ ~Readable =>
              /\ shown = {}
              /\ \A p \in Process : held[p] = None /\ proc[p].opened = None
        /\ Readable =>
              /\ \A key \in shown : key = file.key
              /\ \A p \in Process :
                    /\ held[p] # None => held[p] = file.key
                    /\ proc[p].opened # None => proc[p].opened.key = file.key
                    /\ proc[p].raw # None => proc[p].raw.key = file.key

\* Where a keyring is on file nobody creates one.
LEMMA ReadableSettled ==
  ASSUME KeysInv, Apart, Readable
  PROVE  Creating = {}
  BY NoneAssumption DEF KeysInv, Readable, Exists, Creating

LEMMA KeysInductive == Typed /\ KeysInv /\ [Next]_vars => KeysInv'
  <1>. SUFFICES ASSUME Typed, KeysInv, [Next]_vars, Apart' PROVE KeysInv'
    BY DEF KeysInv
  <1>0. Apart
    BY DEF Apart, Next, vars, BeginCreate, CreateByCommand, TruncateByDesktop,
           FillByDesktop, Open, BeginUnlock, UnlockFails, UnlockSucceeds, Abandon,
           Release, SetClock
  <1>1. ASSUME NEW p \in Process, BeginCreate(p) PROVE KeysInv'
    <2>1. Creating = {} /\ ~Exists /\ ~Readable /\ file' = file
      BY <1>1, NoneAssumption
      DEF BeginCreate, Creating, Apart, Exists, Readable
    <2>. DEFINE new == [Idle EXCEPT !.pc = "creating"]
    <2>2. new.pc = "creating" /\ new.opened = None /\ new.raw = None
      BY DEF Idle
    <2>3. proc' = [proc EXCEPT ![p] = new]
      BY <1>1 DEF BeginCreate, Go
    <2>. HIDE DEF new
    <2>. QED
      BY <1>0, <1>1, <2>1, <2>2, <2>3
      DEF BeginCreate, KeysInv, Creating, At, Exists, Readable, Typed
  <1>2. ASSUME NEW p \in Process, CreateByCommand(p) PROVE KeysInv'
    <2>. PICK key \in Keys \ minted :
            /\ Replace(p, [key |-> key, attempts |-> NewAttempts])
            /\ shown' = shown \cup {key} /\ Hold(p, key)
      BY <1>2 DEF CreateByCommand
    <2>1. /\ file' \in KeyringFile /\ file'.key = key
      BY AttemptsTyped DEF Replace, KeyringFile
    <2>2. /\ proc[p].pc = "creating" /\ ~Exists /\ ~Readable
      BY <1>0, <1>2, NoneAssumption
      DEF CreateByCommand, KeysInv, At, Exists, Readable
    <2>3. \A q \in Process \ {p} :
             /\ proc[q].pc \notin {"creating", "filling"} /\ held[q] = None
             /\ proc[q].opened = None /\ proc[q].raw = None
      BY <1>0, <2>2 DEF KeysInv, At, Creating, Typed
    <2>4. \A q \in Process :
             /\ proc'[q].pc \notin {"creating", "filling"}
             /\ proc'[q].opened = None /\ proc'[q].raw = None
             /\ held'[q] \in {None, key}
      BY <2>3 DEF Replace, Hold, Idle, Typed, Call
    <2>5. shown' = {key}
      BY <1>0, <2>2 DEF KeysInv
    <2>. QED
      BY <2>1, <2>4, <2>5 DEF KeysInv, Creating, At, Readable
  <1>3. ASSUME NEW p \in Process, TruncateByDesktop(p) PROVE KeysInv'
    <2>. PICK key \in Keys \ minted :
            Go(p, [Idle EXCEPT !.pc = "filling", !.key = key, !.linked = TRUE])
      BY <1>3 DEF TruncateByDesktop
    <2>. DEFINE new == [Idle EXCEPT !.pc = "filling", !.key = key, !.linked = TRUE]
    <2>1. new.pc = "filling" /\ new.linked /\ new.opened = None /\ new.raw = None
      BY DEF Idle
    <2>2. proc' = [proc EXCEPT ![p] = new]
      BY DEF Go
    <2>. HIDE DEF new
    <2>3. /\ proc[p].pc = "creating" /\ ~Exists /\ ~Readable /\ ~Readable'
          /\ held' = held /\ shown' = shown
      BY <1>0, <1>3, NoneAssumption
      DEF TruncateByDesktop, KeysInv, At, Exists, Readable
    <2>4. \A q \in Process \ {p} : proc[q].pc \notin {"creating", "filling"}
      BY <1>0, <2>3 DEF KeysInv, At, Creating
    <2>. QED
      BY <1>0, <2>1, <2>2, <2>3, <2>4 DEF KeysInv, Creating, At, Typed
  <1>4. ASSUME NEW p \in Process, FillByDesktop(p) PROVE KeysInv'
    <2>1. proc[p].pc = "filling" /\ proc[p].linked /\ ~Readable /\ proc[p].key \in Keys
      BY <1>0, <1>4 DEF FillByDesktop, KeysInv, At, Typed, Call
    <2>2. file' \in KeyringFile /\ file'.key = proc[p].key
      BY <1>4, <2>1, AttemptsTyped DEF FillByDesktop, KeyringFile
    <2>3. \A q \in Process \ {p} :
             /\ proc[q].pc \notin {"creating", "filling"} /\ held[q] = None
             /\ proc[q].opened = None /\ proc[q].raw = None
      BY <1>0, <2>1 DEF KeysInv, At, Creating, Typed
    <2>4. \A q \in Process :
             /\ proc'[q].pc \notin {"creating", "filling"}
             /\ proc'[q].opened = None /\ proc'[q].raw = None
             /\ held'[q] \in {None, proc[p].key}
      BY <1>4, <2>3 DEF FillByDesktop, Go, Hold, Idle, Typed
    <2>5. shown' = {proc[p].key}
      BY <1>0, <1>4, <2>1 DEF FillByDesktop, KeysInv
    <2>. QED
      BY <2>2, <2>4, <2>5 DEF KeysInv, Creating, At, Readable
  <1>5. ASSUME NEW p \in Process, Open(p) \/ BeginUnlock(p) PROVE KeysInv'
    <2>1. Readable /\ Readable' /\ file' = file /\ held' = held /\ shown' = shown
      BY <1>5 DEF Open, BeginUnlock, Readable
    <2>2. \A q \in Process :
             /\ proc[q].pc \notin {"creating", "filling"}
             /\ proc[q].opened # None => proc[q].opened.key = file.key
             /\ proc[q].raw # None => proc[q].raw.key = file.key
      BY <1>0, <2>1, ReadableSettled DEF KeysInv, At, Creating
    <2>3. \A q \in Process \ {p} : proc'[q] = proc[q]
      BY <1>5 DEF Open, BeginUnlock, Go, Typed
    <2>4. /\ proc'[p].pc \in {"opened", "deriving"}
          /\ proc'[p].opened \in {proc[p].opened, file}
          /\ proc'[p].raw \in {None, file}
      <3>1. CASE Open(p)
        <4>1. proc'[p] = [Idle EXCEPT !.pc = "opened", !.opened = file]
          BY <3>1 DEF Open, Go, Typed
        <4>. QED
          BY <4>1 DEF Idle
      <3>2. CASE BeginUnlock(p)
        <4>1. /\ proc'[p] = [proc[p] EXCEPT !.pc = "deriving", !.raw = file]
              /\ proc[p] \in Call
          BY <3>2 DEF BeginUnlock, Go, Typed
        <4>. QED
          BY <4>1 DEF Call
      <3>. QED
        BY <1>5, <3>1, <3>2
    <2>. QED
      BY <1>0, <2>1, <2>2, <2>3, <2>4 DEF KeysInv, Creating, At
  <1>6. ASSUME NEW p \in Process, UnlockFails(p) \/ UnlockSucceeds(p) PROVE KeysInv'
    <2>1. /\ proc[p].pc = "deriving" /\ proc[p].raw \in KeyringFile
          /\ proc[p].opened \in KeyringFile
      BY <1>6 DEF UnlockFails, UnlockSucceeds, Typed, Call
    <2>2. Readable
      BY <1>0, <2>1, NoneAssumption DEF KeysInv
    <2>3. \A q \in Process :
             /\ proc[q].pc \notin {"creating", "filling"}
             /\ held[q] # None => held[q] = file.key
             /\ proc[q].opened # None => proc[q].opened.key = file.key
             /\ proc[q].raw # None => proc[q].raw.key = file.key
      BY <1>0, <2>2, ReadableSettled DEF KeysInv, At, Creating
    <2>4. /\ file' \in KeyringFile /\ file'.key = proc[p].raw.key
      BY <1>6, <2>1, AttemptsTyped DEF UnlockFails, UnlockSucceeds, Replace,
         KeyringFile, Typed
    <2>5. file'.key = file.key
      BY <2>1, <2>3, <2>4, NoneAssumption
    <2>6. \A q \in Process :
             /\ proc'[q].pc \notin {"creating", "filling"}
             /\ proc'[q].opened \in {None, proc[q].opened}
             /\ proc'[q].raw \in {None, proc[q].raw}
      <3>1. proc'[p] = Idle /\ \A q \in Process \ {p} :
               proc'[q] = [proc[q] EXCEPT !.linked = FALSE] /\ proc[q] \in Call
        BY <1>6 DEF UnlockFails, UnlockSucceeds, Replace, Typed
      <3>2. proc'[p].pc = "idle" /\ proc'[p].opened = None /\ proc'[p].raw = None
        BY <3>1 DEF Idle
      <3>3. \A q \in Process \ {p} : /\ proc'[q].pc = proc[q].pc
                                     /\ proc'[q].opened = proc[q].opened
                                     /\ proc'[q].raw = proc[q].raw
        BY <3>1 DEF Call
      <3>. QED
        BY <2>3, <3>2, <3>3
    <2>7. shown' = shown /\ \A q \in Process : held'[q] \in {held[q], proc[p].opened.key}
                                                \/ held'[q] = held[q]
      BY <1>6 DEF UnlockFails, UnlockSucceeds, Hold, Typed
    <2>8. proc[p].opened.key = file.key
      BY <2>1, <2>3, NoneAssumption
    <2>9. \A q \in Process : held'[q] # None => held'[q] = file'.key
      BY <2>3, <2>5, <2>7, <2>8
    <2>10. \A key \in shown' : key = file'.key
      BY <1>0, <2>2, <2>5, <2>7 DEF KeysInv
    <2>. QED
      BY <2>3, <2>4, <2>5, <2>6, <2>9, <2>10 DEF KeysInv, Creating, At, Readable
  <1>7. ASSUME NEW p \in Process, Abandon(p) \/ Release(p) PROVE KeysInv'
    <2>1. /\ file' = file /\ shown' = shown
          /\ \A q \in Process : /\ proc'[q] \in {proc[q], Idle}
                                /\ held'[q] \in {held[q], None}
      BY <1>7 DEF Abandon, Release, Go, Hold, Typed
    <2>2. Idle.pc = "idle" /\ Idle.opened = None /\ Idle.raw = None
      BY DEF Idle
    <2>. QED
      BY <1>0, <2>1, <2>2 DEF KeysInv, Creating, At, Readable, Exists
  <1>8. CASE \/ \E t \in 0..MaxClock : SetClock(t)
             \/ UNCHANGED vars
    BY <1>0, <1>8 DEF SetClock, vars, KeysInv, Creating, At, Readable, Exists
  <1>. QED
    BY <1>1, <1>2, <1>3, <1>4, <1>5, <1>6, <1>7, <1>8 DEF Next

LEMMA KeysKept == Spec => []KeysInv
  <1>1. Init => KeysInv
    BY NoneAssumption DEF Init, KeysInv, Creating, At, Exists, Readable, Idle
  <1>. QED
    BY <1>1, AlwaysTyped, KeysInductive, PTL DEF Spec

\* No write-back of an old file brings back another keyring: a shown recovery
\* code and a key in use are those of the file.
THEOREM ShownCodesKept == Spec => []ShownCodesOpen
  <1>1. KeysInv => ShownCodesOpen
    BY DEF KeysInv, Apart, ShownCodesOpen
  <1>. QED
    BY <1>1, KeysKept, PTL

-----------------------------------------------------------------------------
(* Attempts *)

Undisturbed == overlapped = {}

\* A state of the throttle that knows of all failures reported.
Knows(st) ==
    /\ st.failed = failures
    /\ failures > 0 => st.last = failedAt
    /\ failures >= MaxAttempts => st.until = failedAt + LockoutSeconds

\* While neither creations nor derivations overlap, the file knows of all
\* failures, and the one derivation under way is about the present file.
AttemptsInv ==
    Undisturbed =>
        /\ \A p, q \in At("deriving") : p = q
        /\ Readable => Knows(file.attempts)
        /\ \A p \in At("deriving") : proc[p].raw = file

LEMMA AttemptsInductive ==
  ASSUME Typed, Typed', KeysInv, AttemptsInv, [Next]_vars
  PROVE  AttemptsInv'
  <1>. SUFFICES ASSUME Undisturbed' PROVE AttemptsInv'
    BY DEF AttemptsInv
  <1>0. Undisturbed /\ Apart
    BY DEF Undisturbed, Apart, Next, vars, BeginCreate, CreateByCommand,
           TruncateByDesktop, FillByDesktop, Open, BeginUnlock, UnlockFails,
           UnlockSucceeds, Abandon, Release, SetClock
  \* A step after which no call derives that did not before, on the same file.
  <1>1. ASSUME file' = file, failures' = failures, failedAt' = failedAt,
               \A q \in Process : proc'[q].pc = "deriving" => proc'[q] = proc[q]
        PROVE  AttemptsInv'
    BY <1>0, <1>1 DEF AttemptsInv, At, Readable, Knows
  \* A step that replaces the file when no call, or just this one, derives.
  <1>2. ASSUME \/ file' \notin KeyringFile
               \/ failures' = 0 /\ file'.attempts = NewAttempts
               \/ Knows(file.attempts)'
        PROVE  (Readable => Knows(file.attempts))'
    <2>1. failures' = 0 /\ file'.attempts = NewAttempts => Knows(file.attempts)'
      BY LimiterAssumption DEF Knows, NewAttempts
    <2>. QED
      BY <1>2, <2>1 DEF Readable
  <1>3. ASSUME NEW p \in Process, BeginCreate(p) \/ Open(p) \/ Abandon(p) \/ Release(p)
        PROVE  AttemptsInv'
    <2>1. \A q \in Process : proc'[q].pc = "deriving" => proc'[q] = proc[q]
      <3>1. CASE BeginCreate(p)
        <4>1. proc' = [proc EXCEPT ![p] = [Idle EXCEPT !.pc = "creating"]]
          BY <3>1 DEF BeginCreate, Go
        <4>2. [Idle EXCEPT !.pc = "creating"].pc # "deriving"
          BY DEF Idle
        <4>. QED
          BY <4>1, <4>2 DEF Typed
      <3>2. CASE Open(p)
        <4>. DEFINE new == [Idle EXCEPT !.pc = "opened", !.opened = file]
        <4>1. new.pc # "deriving"
          BY DEF Idle
        <4>. HIDE DEF new
        <4>2. proc' = [proc EXCEPT ![p] = new]
          BY <3>2 DEF Open, Go, new
        <4>. QED
          BY <4>1, <4>2 DEF Typed
      <3>3. CASE Abandon(p) \/ Release(p)
        BY <3>3, IdleTyped DEF Abandon, Release, Go, Typed
      <3>. QED
        BY <1>3, <3>1, <3>2, <3>3
    <2>. QED
      BY <1>1, <1>3, <2>1 DEF BeginCreate, Open, Abandon, Release
  <1>4. ASSUME NEW p \in Process, proc[p].pc \in {"creating", "filling"}
        PROVE  \A q \in Process : proc[q].pc # "deriving"
    <2>1. ~Readable
      BY <1>0, <1>4, NoneAssumption DEF KeysInv, At, Readable, Exists
    <2>. QED
      BY <1>0, <2>1 DEF KeysInv, Typed
  <1>5. ASSUME NEW p \in Process, CreateByCommand(p) PROVE AttemptsInv'
    <2>1. file'.attempts = NewAttempts /\ failures' = 0
      BY <1>5 DEF CreateByCommand, Replace
    <2>2. \A q \in Process : proc'[q].pc # "deriving"
      <3>1. \A q \in Process \ {p} : proc'[q].pc = proc[q].pc
        BY <1>5 DEF CreateByCommand, Replace, Typed, Call
      <3>2. proc'[p] = Idle
        BY <1>5 DEF CreateByCommand, Replace
      <3>. QED
        BY <1>4, <1>5, <3>1, <3>2, IdleTyped DEF CreateByCommand
    <2>. QED
      BY <1>2, <2>1, <2>2 DEF AttemptsInv, At
  <1>6. ASSUME NEW p \in Process, TruncateByDesktop(p) PROVE AttemptsInv'
    <2>1. \A q \in Process : proc'[q].pc # "deriving"
      <3>. PICK key \in Keys : proc' = [proc EXCEPT ![p] =
                [Idle EXCEPT !.pc = "filling", !.key = key, !.linked = TRUE]]
        BY <1>6 DEF TruncateByDesktop, Go
      <3>1. [Idle EXCEPT !.pc = "filling", !.key = key, !.linked = TRUE].pc # "deriving"
        BY DEF Idle
      <3>2. proc[p].pc = "creating"
        BY <1>6 DEF TruncateByDesktop
      <3>3. \A q \in Process : proc[q].pc # "deriving"
        BY <1>4, <3>2
      <3>. QED
        BY <3>1, <3>3 DEF Typed
    <2>2. file' \notin KeyringFile
      BY <1>6, NoneAssumption DEF TruncateByDesktop
    <2>. QED
      BY <1>2, <2>1, <2>2 DEF AttemptsInv, At
  <1>7. ASSUME NEW p \in Process, FillByDesktop(p) PROVE AttemptsInv'
    <2>1. proc[p].pc = "filling" /\ proc[p].linked
      BY <1>0, <1>7 DEF FillByDesktop, KeysInv, At
    <2>2. file'.attempts = NewAttempts /\ failures' = 0
      BY <1>7, <2>1 DEF FillByDesktop
    <2>3. \A q \in Process : proc'[q].pc # "deriving"
      BY <1>4, <1>7, <2>1, IdleTyped DEF FillByDesktop, Go, Typed
    <2>. QED
      BY <1>2, <2>2, <2>3 DEF AttemptsInv, At
  <1>8. ASSUME NEW p \in Process, BeginUnlock(p) PROVE AttemptsInv'
    <2>1. \A q \in Process : proc[q].pc # "deriving"
      BY <1>0, <1>8 DEF BeginUnlock, Undisturbed, At
    <2>2. /\ file' = file /\ failures' = failures /\ failedAt' = failedAt
          /\ proc' = [proc EXCEPT ![p] = [proc[p] EXCEPT !.pc = "deriving", !.raw = file]]
          /\ proc[p] \in Call
      BY <1>8 DEF BeginUnlock, Go, Typed
    <2>3. proc'[p].raw = file /\ \A q \in Process \ {p} : proc'[q].pc # "deriving"
      BY <2>1, <2>2 DEF Call, Typed
    <2>. QED
      BY <1>0, <2>2, <2>3 DEF AttemptsInv, At, Readable, Knows
  <1>9. ASSUME NEW p \in Process, UnlockFails(p) \/ UnlockSucceeds(p) PROVE AttemptsInv'
    <2>1. /\ proc[p].pc = "deriving" /\ proc[p].raw = file /\ file \in KeyringFile
          /\ \A q \in Process \ {p} : proc[q].pc # "deriving"
      <3>1. proc[p].pc = "deriving"
        BY <1>9 DEF UnlockFails, UnlockSucceeds
      <3>2. proc[p].raw = file /\ \A q \in Process \ {p} : proc[q].pc # "deriving"
        BY <1>0, <3>1 DEF AttemptsInv, At
      <3>. QED
        BY <3>1, <3>2 DEF Typed, Call
    <2>2. Knows(file.attempts)
      BY <1>0, <2>1 DEF AttemptsInv, Readable
    <2>3. \A q \in Process : proc'[q].pc # "deriving"
      <3>1. \A q \in Process \ {p} : proc'[q].pc = proc[q].pc
        BY <1>9 DEF UnlockFails, UnlockSucceeds, Replace, Typed, Call
      <3>2. proc'[p] = Idle
        BY <1>9 DEF UnlockFails, UnlockSucceeds, Replace
      <3>. QED
        BY <2>1, <3>1, <3>2, IdleTyped
    <2>4. CASE UnlockFails(p)
      <3>1. /\ file'.attempts = RecordFailure(file.attempts, clock)
            /\ failures' = failures + 1 /\ failedAt' = clock
        BY <2>1, <2>4 DEF UnlockFails, Replace, KeyringFile
      <3>2. file'.attempts =
              [failed |-> failures + 1, last |-> clock,
               until  |-> IF failures + 1 >= MaxAttempts THEN clock + LockoutSeconds
                                                         ELSE file.attempts.until]
        BY <2>2, <3>1 DEF Knows, RecordFailure
      <3>3. Knows(file.attempts)'
        BY <3>1, <3>2 DEF Knows
      <3>. QED
        BY <1>2, <2>3, <3>3 DEF AttemptsInv, At
    <2>5. CASE UnlockSucceeds(p)
      <3>1. file'.attempts = NewAttempts /\ failures' = 0
        BY <2>1, <2>5 DEF UnlockSucceeds, Replace, KeyringFile, RecordSuccess
      <3>. QED
        BY <1>2, <2>3, <3>1 DEF AttemptsInv, At
    <2>. QED
      BY <1>9, <2>4, <2>5
  <1>10. CASE \/ \E t \in 0..MaxClock : SetClock(t)
              \/ UNCHANGED vars
    BY <1>1, <1>10 DEF SetClock, vars
  <1>. QED
    BY <1>3, <1>5, <1>6, <1>7, <1>8, <1>9, <1>10 DEF Next

\* A derivation that no other overlaps begins only after the wait that all
\* failures since the last success call for.
THEOREM AttemptsAreSpaced == Spec => AttemptsSpaced
  <1>. DEFINE Spaced ==
                /\ \/ clock >= failedAt + RequiredDelay(failures)
                   \/ RequiredDelay(failures) = 0
                /\ failures >= MaxAttempts => clock >= failedAt + LockoutSeconds
              Step ==
                overlapped' = {} =>
                  \A p \in Process :
                    proc[p].pc = "opened" /\ proc'[p].pc = "deriving" =>
                      /\ clock >= failedAt + RequiredDelay(failures)
                            \/ RequiredDelay(failures) = 0
                      /\ failures >= MaxAttempts => clock >= failedAt + LockoutSeconds
  <1>1. Init => AttemptsInv
    BY NoneAssumption DEF Init, AttemptsInv, At, Readable, Idle
  <1>2. Typed /\ AttemptsInv /\ [Next]_vars => Step
    <2>. SUFFICES ASSUME Typed, AttemptsInv, [Next]_vars, overlapped' = {},
                         NEW p \in Process,
                         proc[p].pc = "opened", proc'[p].pc = "deriving"
                  PROVE  Spaced
      OBVIOUS
    <2>1. BeginUnlock(p)
      <3>1. ASSUME NEW q \in Process,
                   \/ BeginCreate(q) \/ CreateByCommand(q) \/ TruncateByDesktop(q)
                   \/ FillByDesktop(q) \/ Open(q) \/ BeginUnlock(q) \/ UnlockFails(q)
                   \/ UnlockSucceeds(q) \/ Abandon(q) \/ Release(q)
            PROVE  q = p
        <4>. SUFFICES ASSUME q # p PROVE FALSE
          OBVIOUS
        <4>1. ASSUME NEW now, Go(q, now) PROVE FALSE
          BY <4>1 DEF Go, Typed
        <4>2. ASSUME NEW content, Replace(q, content) PROVE FALSE
          BY <4>2 DEF Replace, Typed, Call
        <4>3. CASE BeginCreate(q) \/ TruncateByDesktop(q) \/ Open(q) \/ Abandon(q)
          BY <4>1, <4>3 DEF BeginCreate, TruncateByDesktop, Open, Abandon
        <4>4. CASE BeginUnlock(q) \/ FillByDesktop(q) \/ Release(q)
          BY <4>1, <4>4 DEF BeginUnlock, FillByDesktop, Release
        <4>5. CASE CreateByCommand(q) \/ UnlockFails(q) \/ UnlockSucceeds(q)
          BY <4>2, <4>5 DEF CreateByCommand, UnlockFails, UnlockSucceeds
        <4>. QED
          BY <3>1, <4>3, <4>4, <4>5
      <3>2. ~(\/ BeginCreate(p) \/ CreateByCommand(p) \/ TruncateByDesktop(p)
              \/ FillByDesktop(p) \/ Open(p) \/ UnlockFails(p) \/ UnlockSucceeds(p))
        BY DEF BeginCreate, CreateByCommand, TruncateByDesktop, FillByDesktop,
               Open, UnlockFails, UnlockSucceeds
      <3>3. ~Abandon(p) /\ ~Release(p)
        BY IdleTyped DEF Abandon, Release, Go, Typed
      <3>4. \A t \in 0..MaxClock : ~SetClock(t)
        BY DEF SetClock
      <3>. QED
        BY <3>1, <3>2, <3>3, <3>4 DEF Next, vars
    <2>2. overlapped = {} /\ Readable /\ MayAttempt(file.attempts, clock)
      BY <2>1 DEF BeginUnlock
    <2>3. Knows(file.attempts) /\ file.attempts \in Attempts
      BY <2>2 DEF AttemptsInv, Undisturbed, Readable, KeyringFile
    <2>4. RequiredDelay(failures) \in Nat /\ RequiredDelay(0) = 0
      BY RequiredDelayBounded DEF Typed, RequiredDelay
    <2>5. /\ file.attempts.failed = failures
          /\ failures > 0 => file.attempts.last = failedAt
          /\ failures >= MaxAttempts => file.attempts.until = failedAt + LockoutSeconds
      BY <2>3 DEF Knows
    <2>6. /\ file.attempts.until <= clock
          /\ RequiredDelay(failures) > 0 =>
                clock - file.attempts.last >= RequiredDelay(failures)
      BY <2>2, <2>5 DEF MayAttempt
    <2>7. failures \in Nat /\ failedAt \in Nat /\ clock \in Nat
      BY DEF Typed
    <2>8. \/ clock >= failedAt + RequiredDelay(failures)
          \/ RequiredDelay(failures) = 0
      <3>1. CASE failures = 0
        BY <2>4, <3>1
      <3>2. CASE failures > 0
        BY <2>4, <2>5, <2>6, <2>7, <3>2
      <3>. QED
        BY <2>7, <3>1, <3>2
    <2>9. failures >= MaxAttempts => clock >= failedAt + LockoutSeconds
      BY <2>5, <2>6
    <2>. QED
      BY <2>8, <2>9
  <1>3. Typed /\ Typed' /\ KeysInv /\ AttemptsInv /\ [Next]_vars => AttemptsInv'
    BY AttemptsInductive
  <1>. QED
    BY <1>1, <1>2, <1>3, AlwaysTyped, KeysKept, PTL DEF Spec, AttemptsSpaced
=============================================================================
