----------------------------- MODULE LedgerProofs -----------------------------
(***************************************************************************)
(* Proofs about Ledger: types, that every ledger a reader can find passes  *)
(* verify_ledger, that its entries are in order of time, that what was     *)
(* flushed stays while checkpoints do not overlap, and that a checkpoint   *)
(* that ended in an error is in none of them.                              *)
(***************************************************************************)
EXTENDS Ledger, SequenceTheorems, TLAPS

\* The parts of the invariant, of one ledger.
Chained(s) ==
    \A i \in DOMAIN s :
        /\ s[i].previous = IF i = 1 THEN Genesis ELSE s[i - 1].hash
        /\ s[i].hash = EntryHash(s[i].previous, s[i].body)

InOrder(s) == \A i, j \in DOMAIN s : i < j => s[i].body.at <= s[j].body.at

\* Every entry of s was stamped no later than t.
Past(s, t) == \A i \in DOMAIN s : s[i].body.at <= t

\* A run after its place of inspection holds a target and a digest; one whose
\* temporary file is to be renamed has had it fsynced.
RunInv ==
    \A w \in Process :
        /\ run[w].pc \in {"inspected", "loaded", "stamped", "written", "synced"} =>
               run[w].seen # NoBody
        /\ run[w].pc = "synced" => run[w].temp = "flushed"

\* No ledger is torn, as none is renamed before it was fsynced.
WholeInv == ledger # Torn /\ Torn \notin onDisk

TInv == TypeOK /\ RunInv /\ WholeInv

Good(s, t) == s \in Seq(Entry) /\ Chained(s) /\ InOrder(s) /\ Past(s, t)

\* Every ledger there is, on disk, in the file or in a run's memory, is a chain
\* in order of time.
ChainInv ==
    /\ \A text \in Readable : Good(text, now)
    /\ \A w \in Process : Good(run[w].entries, now)

\* While checkpoints are kept apart, one that has loaded the ledger holds what
\* was secured, and nobody secures anything else before it ends.
Apart == \A v, w \in Process : run[v].pc # "idle" /\ run[w].pc # "idle" => v = w
ExclusiveInv ==
    schedule = "exclusive" =>
        /\ Apart
        /\ \A w \in Process : run[w].pc \in {"loaded", "stamped", "written", "synced"} =>
               IsPrefix(secured, run[w].entries)
        /\ \A text \in Readable : IsPrefix(secured, text)
-----------------------------------------------------------------------------
LEMMA Seen == ASSUME NEW t \in Target, NEW d \in Digest
              PROVE  [target |-> t, digest |-> d] # NoBody
BY MissingAssumption DEF NoBody

LEMMA NewEntryType ==
    ASSUME NEW h \in Seq(Body), NEW b \in Body
    PROVE  /\ NewEntry(h, b) \in Entry
           /\ NewEntry(h, b).previous = h
           /\ NewEntry(h, b).body = b
           /\ NewEntry(h, b).hash = EntryHash(h, b)
BY DEF NewEntry, Entry, EntryHash

LEMMA LastHashType == ASSUME NEW s \in Seq(Entry) PROVE LastHash(s) \in Seq(Body)
<1>1. CASE s = << >>
      BY <1>1 DEF LastHash, Genesis
<1>2. CASE s # << >>
      <2>1. Len(s) \in DOMAIN s
            BY <1>2
      <2>2. s[Len(s)] \in Entry
            BY <2>1
      <2> QED  BY <1>2, <2>2 DEF LastHash, Last, Entry
<1> QED  BY <1>1, <1>2

\* A chain extended by an entry is a chain, whatever the entry's body.
LEMMA ExtendedProps ==
    ASSUME NEW s \in Seq(Entry), NEW b \in Body
    PROVE  /\ Extended(s, b) \in Seq(Entry)
           /\ Extended(s, b) # << >>
           /\ Len(Extended(s, b)) = Len(s) + 1
           /\ Extended(s, b)[Len(s) + 1] = NewEntry(LastHash(s), b)
           /\ \A i \in 1..Len(s) : Extended(s, b)[i] = s[i]
<1>1. NewEntry(LastHash(s), b) \in Entry
      BY NewEntryType, LastHashType
<1> QED  BY <1>1, AppendProperties DEF Extended

LEMMA StampedType ==
    ASSUME TInv, NEW w \in Process, run[w].pc = "loaded"
    PROVE  /\ Stamped(w) \in Body
           /\ Stamped(w).at = now
<1>1. run[w].seen \in [target : Target, digest : Digest]
      BY DEF TInv, TypeOK, RunInv, Run
<1> QED  BY <1>1 DEF Stamped, Body, TInv, TypeOK
-----------------------------------------------------------------------------
\* What every step does to the ledger and to the disk.
LEMMA StepLedger ==
    ASSUME TInv, [Next]_vars
    PROVE  /\ \A text \in Readable' :
                  \/ text \in Readable
                  \/ \E w \in Process : run[w].pc = "synced" /\ text = run[w].entries
           /\ secured' \in {secured, ledger}
           /\ now' >= now /\ schedule' = schedule
<1> USE DEF Readable
<1>1. ASSUME NEW w \in Process, Replace(w)
      PROVE  \A text \in Readable' :
                  \/ text \in Readable
                  \/ \E v \in Process : run[v].pc = "synced" /\ text = run[v].entries
      BY <1>1 DEF Replace, TInv, RunInv
<1>2. ASSUME PowerFailure
      PROVE  Readable' \subseteq Readable
      BY <1>2 DEF PowerFailure
<1>3. ASSUME NEW w \in Process, FlushDirectory(w)
      PROVE  Readable' \subseteq Readable /\ secured' \in {secured, ledger}
      BY <1>3 DEF FlushDirectory
<1>4. now \in Nat
      BY BoundAssumption DEF TInv, TypeOK
<1>5. ASSUME \/ UNCHANGED vars
             \/ \E t \in Target, d \in Digest \cup {Missing} : TargetChanges(t, d)
             \/ Tick
             \/ \E w \in Process : \/ \E t \in Target : Inspect(w, t)
                                   \/ Load(w) \/ Stamp(w) \/ WriteTemp(w) \/ SyncTemp(w)
                                   \/ Kill(w)
      PROVE  /\ ledger' = ledger /\ onDisk' = onDisk /\ secured' = secured
             /\ now' >= now /\ schedule' = schedule
      <2>1. now >= now /\ now + 1 >= now
            BY <1>4
      <2>2. CASE Tick
            BY <2>1, <2>2 DEF Tick
      <2>3. CASE ~Tick
            BY <1>5, <2>1, <2>3 DEF vars, TargetChanges, Inspect, Load, Stamp, WriteTemp, SyncTemp, Kill
      <2> QED  BY <2>2, <2>3
<1>6. \A w \in Process : Replace(w) =>
          secured' = secured /\ now' = now /\ schedule' = schedule
      BY DEF Replace
<1>7. \A w \in Process : FlushDirectory(w) => now' = now /\ schedule' = schedule
      BY DEF FlushDirectory
<1>8. PowerFailure => secured' = secured /\ now' = now /\ schedule' = schedule
      BY DEF PowerFailure
<1>9. now >= now
      BY <1>4
<1>a. CASE \E w \in Process : Replace(w)
      BY <1>a, <1>1, <1>6, <1>9
<1>b. CASE \E w \in Process : FlushDirectory(w)
      BY <1>b, <1>3, <1>7, <1>9
<1>c. CASE PowerFailure
      BY <1>c, <1>2, <1>8, <1>9
<1> QED  BY <1>5, <1>a, <1>b, <1>c DEF Next

\* What every step does to a run.
LEMMA StepRun ==
    ASSUME TInv, [Next]_vars, NEW w \in Process
    PROVE  \/ run'[w] = run[w]
           \/ run'[w] = NotRun
           \/ run'[w] = [NotRun EXCEPT !.outcome = "failed"]
           \/ \E t \in Target :
                  /\ run[w].pc = "idle" /\ held[t] \in Digest
                  /\ run'[w] = [NotRun EXCEPT !.pc = "inspected",
                                  !.seen = [target |-> t, digest |-> held[t]]]
           \/ /\ run[w].pc = "inspected" /\ ledger # Torn
              /\ run'[w] = [run[w] EXCEPT !.pc = "loaded", !.entries = ledger]
           \/ /\ run[w].pc = "loaded"
              /\ run'[w] = [run[w] EXCEPT !.pc = "stamped",
                                !.entries = Extended(@, Stamped(w))]
           \/ run[w].pc = "stamped" /\ run'[w] = [run[w] EXCEPT !.pc = "written", !.temp = "dirty"]
           \/ run[w].pc = "written" /\ run'[w] = [run[w] EXCEPT !.pc = "synced", !.temp = "flushed"]
           \/ /\ run[w].pc = "synced"
              /\ run'[w] = [run[w] EXCEPT !.pc = "replaced", !.temp = "none"]
           \/ /\ run[w].pc = "replaced"
              /\ run'[w] = [run[w] EXCEPT !.pc = "idle", !.outcome = "recorded"]
           \/ /\ run[w].pc \in {"inspected", "stamped", "written", "synced"}
              /\ run'[w] = [run[w] EXCEPT !.pc = "idle", !.temp = "none", !.outcome = "failed"]
<1>t. run \in [Process -> Run] /\ held \in [Target -> Digest \cup {Missing}]
      BY DEF TInv, TypeOK
<1>1. ASSUME NEW v \in Process, NEW t \in Target, Inspect(v, t)
      PROVE  \/ run'[w] = run[w]
             \/ run'[w] = [NotRun EXCEPT !.outcome = "failed"]
             \/ /\ run[w].pc = "idle" /\ held[t] \in Digest
                /\ run'[w] = [NotRun EXCEPT !.pc = "inspected",
                                  !.seen = [target |-> t, digest |-> held[t]]]
      BY <1>t, <1>1 DEF Inspect
<1>2. ASSUME NEW v \in Process, Load(v)
      PROVE  \/ run'[w] = run[w]
             \/ /\ run[w].pc = "inspected" /\ ledger # Torn
                /\ run'[w] = [run[w] EXCEPT !.pc = "loaded", !.entries = ledger]
             \/ /\ run[w].pc = "inspected"
                /\ run'[w] = [run[w] EXCEPT !.pc = "idle", !.temp = "none", !.outcome = "failed"]
      BY <1>t, <1>2 DEF Load, Fails
<1>3. ASSUME NEW v \in Process, Stamp(v)
      PROVE  \/ run'[w] = run[w]
             \/ /\ run[w].pc = "loaded"
                /\ run'[w] = [run[w] EXCEPT !.pc = "stamped",
                                  !.entries = Extended(@, Stamped(w))]
      BY <1>t, <1>3 DEF Stamp
<1>4. ASSUME NEW v \in Process, WriteTemp(v) \/ SyncTemp(v) \/ Replace(v)
      PROVE  \/ run'[w] = run[w]
             \/ run[w].pc = "stamped" /\ run'[w] = [run[w] EXCEPT !.pc = "written", !.temp = "dirty"]
             \/ run[w].pc = "written" /\ run'[w] = [run[w] EXCEPT !.pc = "synced", !.temp = "flushed"]
             \/ /\ run[w].pc = "synced"
                /\ run'[w] = [run[w] EXCEPT !.pc = "replaced", !.temp = "none"]
             \/ /\ run[w].pc \in {"stamped", "written", "synced"}
                /\ run'[w] = [run[w] EXCEPT !.pc = "idle", !.temp = "none", !.outcome = "failed"]
      <2>1. CASE WriteTemp(v)
            BY <1>t, <2>1 DEF WriteTemp, Fails
      <2>2. CASE SyncTemp(v)
            BY <1>t, <2>2 DEF SyncTemp, Fails
      <2>3. CASE Replace(v)
            BY <1>t, <2>3 DEF Replace, Fails
      <2> QED  BY <1>4, <2>1, <2>2, <2>3
<1>5. ASSUME NEW v \in Process, FlushDirectory(v) \/ Kill(v)
      PROVE  \/ run'[w] = run[w]
             \/ run'[w] = NotRun
             \/ /\ run[w].pc = "replaced"
                /\ run'[w] = [run[w] EXCEPT !.pc = "idle", !.outcome = "recorded"]
      BY <1>t, <1>5 DEF FlushDirectory, Kill
<1>6. ASSUME PowerFailure
      PROVE  run'[w] \in {run[w], NotRun}
      BY <1>6 DEF PowerFailure
<1>7. ASSUME \/ UNCHANGED vars \/ Tick
             \/ \E t \in Target, d \in Digest \cup {Missing} : TargetChanges(t, d)
      PROVE  run'[w] = run[w]
      BY <1>7 DEF vars, Tick, TargetChanges
<1>a. CASE \E v \in Process, t \in Target : Inspect(v, t)
      BY <1>a, <1>1
<1>b. CASE \E v \in Process : Load(v)
      BY <1>b, <1>2
<1>c. CASE \E v \in Process : Stamp(v)
      BY <1>c, <1>3
<1>d. CASE \E v \in Process : WriteTemp(v) \/ SyncTemp(v) \/ Replace(v)
      BY <1>d, <1>4
<1>e. CASE \E v \in Process : FlushDirectory(v) \/ Kill(v)
      BY <1>e, <1>5
<1>f. CASE PowerFailure
      BY <1>f, <1>6
<1> QED  BY <1>7, <1>a, <1>b, <1>c, <1>d, <1>e, <1>f DEF Next

LEMMA RunIsFunction ==
    ASSUME TInv, [Next]_vars
    PROVE  run' = [w \in Process |-> run'[w]]
<1>1. run = [w \in Process |-> run[w]]
      BY DEF TInv, TypeOK
<1>2. ASSUME NEW v \in Process,
             \/ \E t \in Target : Inspect(v, t)
             \/ Load(v) \/ Stamp(v) \/ WriteTemp(v) \/ SyncTemp(v)
             \/ Replace(v) \/ FlushDirectory(v) \/ Kill(v)
      PROVE  \E r : run' = [run EXCEPT ![v] = r]
      BY <1>2 DEF Inspect, Load, Stamp, WriteTemp, SyncTemp, Replace, FlushDirectory, Kill, Fails
<1>3. ASSUME \/ UNCHANGED vars \/ Tick
             \/ \E t \in Target, d \in Digest \cup {Missing} : TargetChanges(t, d)
      PROVE  run' = run
      BY <1>3 DEF vars, Tick, TargetChanges
<1>4. CASE PowerFailure
      BY <1>4 DEF PowerFailure
<1>5. CASE \E v \in Process :
             \/ \E t \in Target : Inspect(v, t)
             \/ Load(v) \/ Stamp(v) \/ WriteTemp(v) \/ SyncTemp(v)
             \/ Replace(v) \/ FlushDirectory(v) \/ Kill(v)
      BY <1>1, <1>2, <1>5
<1> QED  BY <1>1, <1>3, <1>4, <1>5 DEF Next
-----------------------------------------------------------------------------
LEMMA InitTyped == Init => TInv
<1> SUFFICES ASSUME Init PROVE TInv
    OBVIOUS
<1>1. NotRun \in Run
      BY DEF NotRun, Run
<1>2. << >> \in Seq(Entry) /\ << >> # Torn
      <2>1. << >> \in Seq(Entry)
            OBVIOUS
      <2> QED  BY <2>1, TornAssumption
<1>3. TypeOK
      BY <1>1, <1>2, BoundAssumption DEF Init, TypeOK
<1>4. RunInv
      BY DEF Init, RunInv, NotRun
<1> QED  BY <1>2, <1>3, <1>4 DEF Init, TInv, WholeInv

LEMMA StepTyped == TInv /\ [Next]_vars => TInv'
<1> SUFFICES ASSUME TInv, [Next]_vars PROVE TInv'
    OBVIOUS
<1>1. /\ run \in [Process -> Run]
      /\ \A w \in Process : run[w].entries \in Seq(Entry)
      /\ ledger \in Seq(Entry) /\ onDisk \cup {ledger} \subseteq Seq(Entry)
      BY DEF TInv, TypeOK, WholeInv, Run
<1>2. Readable' \subseteq Seq(Entry) /\ secured' \in Seq(Entry)
      BY <1>1, StepLedger DEF Readable, TInv, TypeOK
<1>3. Torn \notin Readable'
      BY <1>2, TornAssumption
<1>4. ASSUME NEW w \in Process
      PROVE  /\ run'[w] \in Run
             /\ run'[w].pc \in {"inspected", "loaded", "stamped", "written", "synced"} =>
                    run'[w].seen # NoBody
             /\ run'[w].pc = "synced" => run'[w].temp = "flushed"
      <2>1. NotRun \in Run /\ run[w] \in Run
            BY <1>1 DEF NotRun, Run
      <2>2. ASSUME NEW t \in Target, held[t] \in Digest,
                   run'[w] = [NotRun EXCEPT !.pc = "inspected",
                                  !.seen = [target |-> t, digest |-> held[t]]]
            PROVE  /\ run'[w] \in Run /\ run'[w].pc = "inspected"
                   /\ run'[w].seen # NoBody
            <3> DEFINE seen == [target |-> t, digest |-> held[t]]
            <3>1. seen # NoBody
                  BY <2>2, Seen
            <3>2. seen \in [target : Target, digest : Digest]
                  BY <2>2
            <3> HIDE DEF seen
            <3>3. run'[w] = [pc |-> "inspected", seen |-> seen, entries |-> << >>,
                             temp |-> "none", outcome |-> "none"]
                  BY <2>2 DEF seen, NotRun
            <3> QED  BY <3>1, <3>2, <3>3 DEF Run
      <2>3. ASSUME run[w].pc = "loaded",
                   run'[w] = [run[w] EXCEPT !.pc = "stamped",
                                  !.entries = Extended(@, Stamped(w))]
            PROVE  /\ run'[w] \in Run /\ run'[w].pc = "stamped"
                   /\ run'[w].seen # NoBody
            <3>1. Extended(run[w].entries, Stamped(w)) \in Seq(Entry)
                  BY <1>1, <2>3, StampedType, ExtendedProps
            <3>2. run[w].seen # NoBody
                  BY <2>3 DEF TInv, RunInv
            <3> QED  BY <2>1, <2>3, <3>1, <3>2 DEF Run
      <2>4. ASSUME ledger # Torn, run[w].pc = "inspected",
                   run'[w] = [run[w] EXCEPT !.pc = "loaded", !.entries = ledger]
            PROVE  /\ run'[w] \in Run /\ run'[w].pc = "loaded"
                   /\ run'[w].seen # NoBody
            BY <1>1, <2>1, <2>4 DEF Run, TInv, RunInv
      <2>5. CASE run'[w] \in {run[w], NotRun, [NotRun EXCEPT !.outcome = "failed"]}
            BY <2>1, <2>5 DEF NotRun, Run, TInv, RunInv
      <2>6. CASE \/ run[w].pc = "stamped" /\ run'[w] = [run[w] EXCEPT !.pc = "written", !.temp = "dirty"]
                 \/ run[w].pc = "written" /\ run'[w] = [run[w] EXCEPT !.pc = "synced", !.temp = "flushed"]
            BY <2>1, <2>6 DEF Run, TInv, RunInv
      <2>7. CASE run'[w] = [run[w] EXCEPT !.pc = "replaced", !.temp = "none"]
            BY <2>1, <2>7 DEF Run
      <2>8. CASE run'[w] = [run[w] EXCEPT !.pc = "idle", !.outcome = "recorded"]
            BY <2>1, <2>8 DEF Run
      <2>9. CASE run'[w] = [run[w] EXCEPT !.pc = "idle", !.temp = "none", !.outcome = "failed"]
            BY <2>1, <2>9 DEF Run
      <2> QED  BY <2>2, <2>3, <2>4, <2>5, <2>6, <2>7, <2>8, <2>9, StepRun
<1>5. held' \in [Target -> Digest \cup {Missing}] /\ now' \in 0..MaxTime
      <2>1. CASE Tick
            BY <2>1, BoundAssumption DEF Tick, TInv, TypeOK
      <2>2. CASE ~Tick
            BY <2>2 DEF TInv, TypeOK, Next, vars, Inspect, Load, Stamp, WriteTemp,
               SyncTemp, Replace, FlushDirectory, Kill, TargetChanges, PowerFailure
      <2> QED  BY <2>1, <2>2
<1>6. run' \in [Process -> Run]
      BY <1>4, RunIsFunction
<1>7. TypeOK'
      BY <1>2, <1>5, <1>6, StepLedger DEF TypeOK, Readable, TInv
<1> QED  BY <1>3, <1>4, <1>7 DEF TInv, RunInv, WholeInv, Readable

\* Types of the ledger, of what is on disk and of every checkpoint under way.
THEOREM LedgerTyped == Spec => []TypeOK
<1>1. TInv => TypeOK
      BY DEF TInv
<1> QED  BY InitTyped, StepTyped, <1>1, PTL DEF Spec
-----------------------------------------------------------------------------
\* A chain extended with a body stamped now is a chain in order of time.
LEMMA ExtendedGood ==
    ASSUME NEW t \in Nat, NEW s, Good(s, t), NEW b \in Body, b.at = t
    PROVE  Good(Extended(s, b), t)
<1> DEFINE n == Len(s) + 1
           x == Extended(s, b)
<1>1. /\ s \in Seq(Entry) /\ DOMAIN s = 1..Len(s) /\ Len(s) \in Nat
      /\ DOMAIN x = 1..n /\ x \in Seq(Entry)
      /\ x[n] = NewEntry(LastHash(s), b)
      /\ \A i \in 1..Len(s) : x[i] = s[i]
      BY ExtendedProps DEF Good
<1>2. /\ x[n].previous = LastHash(s) /\ x[n].body = b
      /\ x[n].hash = EntryHash(x[n].previous, x[n].body)
      BY <1>1, NewEntryType, LastHashType
<1>3. \A i \in DOMAIN x : i = n \/ i \in 1..Len(s)
      BY <1>1
<1> HIDE DEF x
<1>4. Chained(x)
      <2>1. LastHash(s) = IF n = 1 THEN Genesis ELSE x[n - 1].hash
            <3>1. CASE s = << >>
                  BY <3>1 DEF LastHash
            <3>2. CASE s # << >>
                  <4>1. Len(s) # 0 /\ n # 1 /\ n - 1 = Len(s) /\ Len(s) \in 1..Len(s)
                        BY <1>1, <3>2
                  <4> QED  BY <1>1, <3>2, <4>1 DEF LastHash, Last
            <3> QED  BY <3>1, <3>2
      <2>2. ASSUME NEW i \in 1..Len(s)
            PROVE  /\ x[i].previous = IF i = 1 THEN Genesis ELSE x[i - 1].hash
                   /\ x[i].hash = EntryHash(x[i].previous, x[i].body)
            <3>1. i # 1 => i - 1 \in 1..Len(s)
                  BY <1>1
            <3> QED  BY <1>1, <3>1 DEF Good, Chained
      <2> QED  BY <1>2, <1>3, <2>1, <2>2 DEF Chained
<1>5. Past(x, t)
      BY <1>1, <1>2, <1>3 DEF Past, Good
<1>6. InOrder(x)
      <2> SUFFICES ASSUME NEW i \in DOMAIN x, NEW j \in DOMAIN x, i < j
                   PROVE  x[i].body.at <= x[j].body.at
          BY DEF InOrder
      <2>1. i \in 1..Len(s)
            BY <1>1
      <2>2. CASE j = n
            BY <1>1, <1>2, <2>1, <2>2 DEF Good, Past
      <2>3. CASE j \in 1..Len(s)
            BY <1>1, <2>1, <2>3 DEF Good, InOrder
      <2> QED  BY <1>3, <2>2, <2>3
<1> QED  BY <1>1, <1>4, <1>5, <1>6 DEF Good, x

\* Time only passes, so what was stamped in the past stays so.
LEMMA GoodLasts == ASSUME NEW t \in Nat, NEW u \in Nat, t <= u, NEW s, Good(s, t)
                   PROVE  Good(s, u)
<1>1. ASSUME NEW i \in DOMAIN s PROVE s[i].body.at \in Nat
      <2>1. s[i] \in Entry
            BY DEF Good
      <2> QED  BY <2>1, BoundAssumption DEF Entry, Body
<1>2. Past(s, u)
      BY <1>1 DEF Good, Past
<1> QED  BY <1>2 DEF Good

LEMMA StepChain == TInv /\ TInv' /\ ChainInv /\ [Next]_vars => ChainInv'
<1> SUFFICES ASSUME TInv, TInv', ChainInv, [Next]_vars PROVE ChainInv'
    OBVIOUS
<1>n. now <= now' /\ now \in Nat /\ now' \in Nat
      BY StepLedger, BoundAssumption DEF TInv, TypeOK
<1>1. \A text \in Readable' : Good(text, now)
      BY StepLedger DEF ChainInv
<1>2. ASSUME NEW w \in Process PROVE Good(run'[w].entries, now)
      <2>t. run[w] \in Run
            BY DEF TInv, TypeOK
      <2>1. \/ run'[w].entries \in {run[w].entries, << >>, ledger}
            \/ /\ run[w].pc = "loaded"
               /\ run'[w].entries = Extended(run[w].entries, Stamped(w))
            <3>1. CASE run'[w] \in {run[w], NotRun, [NotRun EXCEPT !.outcome = "failed"]}
                  BY <3>1 DEF NotRun
            <3>2. CASE \E t \in Target : run'[w] = [NotRun EXCEPT !.pc = "inspected",
                                  !.seen = [target |-> t, digest |-> held[t]]]
                  BY <3>2 DEF NotRun
            <3>3. CASE run'[w] = [run[w] EXCEPT !.pc = "loaded", !.entries = ledger]
                  BY <2>t, <3>3 DEF Run
            <3>4. CASE /\ run[w].pc = "loaded"
                       /\ run'[w] = [run[w] EXCEPT !.pc = "stamped",
                                         !.entries = Extended(@, Stamped(w))]
                  BY <2>t, <3>4 DEF Run
            <3>5. CASE \/ run'[w] = [run[w] EXCEPT !.pc = "written", !.temp = "dirty"]
                       \/ run'[w] = [run[w] EXCEPT !.pc = "synced", !.temp = "flushed"]
                       \/ run'[w] = [run[w] EXCEPT !.pc = "replaced", !.temp = "none"]
                       \/ run'[w] = [run[w] EXCEPT !.pc = "idle", !.outcome = "recorded"]
                       \/ run'[w] = [run[w] EXCEPT !.pc = "idle", !.temp = "none", !.outcome = "failed"]
                  BY <2>t, <3>5 DEF Run
            <3> QED  BY <3>1, <3>2, <3>3, <3>4, <3>5, StepRun
      <2>2. Good(<< >>, now)
            BY DEF Good, Chained, InOrder, Past
      <2>3. Good(ledger, now) /\ Good(run[w].entries, now)
            BY DEF ChainInv, Readable
      <2>4. run[w].pc = "loaded" => Good(Extended(run[w].entries, Stamped(w)), now)
            BY <1>n, <2>3, StampedType, ExtendedGood
      <2> QED  BY <2>1, <2>2, <2>3, <2>4
<1>3. \A text \in Readable' : Good(text, now')
      BY <1>1, <1>n, GoodLasts
<1>4. \A w \in Process : Good(run'[w].entries, now')
      BY <1>2, <1>n, GoodLasts
<1> QED  BY <1>3, <1>4 DEF ChainInv

LEMMA InitChain == Init => ChainInv
<1> SUFFICES ASSUME Init PROVE ChainInv
    OBVIOUS
<1>1. Good(<< >>, now)
      BY DEF Good, Chained, InOrder, Past
<1> QED  BY <1>1 DEF Init, ChainInv, Readable, NotRun

\* However checkpoints overlap, are killed or lose power, every ledger a reader
\* can find parses and passes verify_ledger.
THEOREM LedgerVerifies == Spec => []AlwaysVerifies
<1>1. TInv /\ ChainInv => AlwaysVerifies
      BY DEF TInv, WholeInv, ChainInv, Good, Chained, AlwaysVerifies, VerifyLedger, Readable
<1> QED  BY InitTyped, StepTyped, InitChain, StepChain, <1>1, PTL DEF Spec

\* The entries of every ledger a reader can find are in order of time.
THEOREM OrderKept == Spec => []HistoryInOrder
<1>1. ChainInv => HistoryInOrder
      BY DEF ChainInv, Good, InOrder, HistoryInOrder
<1> QED  BY InitTyped, StepTyped, InitChain, StepChain, <1>1, PTL DEF Spec
-----------------------------------------------------------------------------
LEMMA PrefixOfItself == ASSUME NEW s \in Seq(Entry) PROVE IsPrefix(s, s)
BY DEF IsPrefix

LEMMA PrefixExtended ==
    ASSUME NEW s \in Seq(Entry), NEW t \in Seq(Entry), NEW b \in Body, IsPrefix(s, t)
    PROVE  IsPrefix(s, Extended(t, b))
<1> DEFINE x == Extended(t, b)
<1>1. /\ x \in Seq(Entry) /\ Len(x) = Len(t) + 1
      /\ \A i \in 1..Len(t) : x[i] = t[i]
      BY ExtendedProps
<1> HIDE DEF x
<1>2. Len(s) \in Nat /\ Len(t) \in Nat /\ Len(s) <= Len(t)
      BY DEF IsPrefix
<1>3. SubSeq(t, 1, Len(s)) = SubSeq(x, 1, Len(s))
      BY <1>1, <1>2
<1> QED  BY <1>1, <1>2, <1>3 DEF IsPrefix, x

\* Who secures the ledger is at the end of a checkpoint, and leaves nothing else.
LEMMA StepSecured ==
    ASSUME TInv, [Next]_vars
    PROVE  \/ secured' = secured
           \/ /\ secured' = ledger /\ Readable' = {ledger}
              /\ \E w \in Process : /\ run[w].pc = "replaced" /\ run'[w].pc = "idle"
                                     /\ \A v \in Process \ {w} : run'[v] = run[v]
<1>1. ASSUME NEW w \in Process, FlushDirectory(w), secured' # secured
      PROVE  /\ secured' = ledger /\ Readable' = {ledger}
             /\ run[w].pc = "replaced" /\ run'[w].pc = "idle"
             /\ \A v \in Process \ {w} : run'[v] = run[v]
      BY <1>1 DEF FlushDirectory, Readable, TInv, TypeOK, Run
<1>2. ASSUME \A w \in Process : ~FlushDirectory(w)
      PROVE  secured' = secured
      BY <1>2 DEF Next, vars, Inspect, Load, Stamp, WriteTemp, SyncTemp, Replace, Kill,
         TargetChanges, Tick, PowerFailure
<1> QED  BY <1>1, <1>2

\* Only an inspection begins a checkpoint, and, when they are kept apart, only
\* with none under way.
LEMMA StepApart ==
    ASSUME TInv, [Next]_vars, schedule = "exclusive", Apart
    PROVE  Apart'
<1>t. run \in [Process -> Run]
      BY DEF TInv, TypeOK
<1>1. ASSUME NEW v \in Process, NEW t \in Target, Inspect(v, t)
      PROVE  Apart'
      <2>1. \A w \in Process : run[w].pc = "idle"
            BY <1>1 DEF Inspect
      <2>2. \A w \in Process \ {v} : run'[w] = run[w]
            BY <1>t, <1>1 DEF Inspect
      <2> QED  BY <2>1, <2>2 DEF Apart
<1>2. ASSUME ~\E v \in Process, t \in Target : Inspect(v, t)
      PROVE  \A w \in Process : run'[w].pc # "idle" => run[w].pc # "idle"
      <2>1. CASE \/ UNCHANGED vars \/ Tick
                 \/ \E t \in Target, d \in Digest \cup {Missing} : TargetChanges(t, d)
            BY <2>1 DEF vars, Tick, TargetChanges
      <2>2. CASE PowerFailure
            BY <2>2 DEF PowerFailure, NotRun
      <2>3. ASSUME NEW v \in Process,
                   \/ Load(v) \/ Stamp(v) \/ WriteTemp(v) \/ SyncTemp(v)
                   \/ Replace(v) \/ FlushDirectory(v) \/ Kill(v)
            PROVE  run[v].pc # "idle" /\ \A w \in Process \ {v} : run'[w] = run[w]
            BY <1>t, <2>3 DEF Load, Stamp, WriteTemp, SyncTemp, Replace, FlushDirectory,
               Kill, Fails
      <2> QED  BY <1>2, <2>1, <2>2, <2>3 DEF Next
<1> QED  BY <1>1, <1>2 DEF Apart

LEMMA StepExclusive == TInv /\ TInv' /\ ExclusiveInv /\ [Next]_vars => ExclusiveInv'
<1> SUFFICES ASSUME TInv, TInv', ExclusiveInv, [Next]_vars, schedule' = "exclusive"
             PROVE  /\ Apart'
                    /\ \A w \in Process :
                          run'[w].pc \in {"loaded", "stamped", "written", "synced"} =>
                              IsPrefix(secured', run'[w].entries)
                    /\ \A text \in Readable' : IsPrefix(secured', text)
    BY DEF ExclusiveInv
<1>1. schedule = "exclusive"
      BY StepLedger
<1>2. Apart'
      BY <1>1, StepApart DEF ExclusiveInv
<1>3. /\ ledger \in Seq(Entry) /\ secured \in Seq(Entry)
      /\ \A w \in Process : run[w] \in Run
      BY DEF TInv, TypeOK, WholeInv
<1>4. CASE secured' # secured
      <2>1. PICK w \in Process : /\ run[w].pc = "replaced" /\ run'[w].pc = "idle"
                                 /\ \A v \in Process \ {w} : run'[v] = run[v]
            BY <1>4, StepSecured
      <2>2. \A v \in Process : run'[v].pc = "idle"
            BY <1>1, <2>1 DEF ExclusiveInv, Apart
      <2>3. secured' = ledger /\ Readable' = {ledger}
            BY <1>4, StepSecured
      <2>4. IsPrefix(ledger, ledger)
            BY <1>3, PrefixOfItself
      <2> QED  BY <1>2, <2>2, <2>3, <2>4
<1>5. CASE secured' = secured
      <2>1. \A text \in Readable' : IsPrefix(secured, text)
            BY <1>1, StepLedger DEF ExclusiveInv
      <2>2. ASSUME NEW w \in Process,
                   run'[w].pc \in {"loaded", "stamped", "written", "synced"}
            PROVE  IsPrefix(secured, run'[w].entries)
            <3>1. CASE run[w].pc = "inspected"
                       /\ run'[w] = [run[w] EXCEPT !.pc = "loaded", !.entries = ledger]
                  BY <1>1, <1>3, <3>1 DEF ExclusiveInv, Readable, Run
            <3>2. CASE run[w].pc = "loaded"
                       /\ run'[w] = [run[w] EXCEPT !.pc = "stamped",
                                        !.entries = Extended(@, Stamped(w))]
                  <4>1. run'[w].entries = Extended(run[w].entries, Stamped(w))
                        BY <1>3, <3>2 DEF Run
                  <4>2. IsPrefix(secured, run[w].entries) /\ run[w].entries \in Seq(Entry)
                        BY <1>1, <1>3, <3>2 DEF ExclusiveInv, Run
                  <4> QED  BY <1>3, <3>2, <4>1, <4>2, StampedType, PrefixExtended
            <3>3. CASE \/ run'[w] = run[w]
                       \/ run[w].pc = "stamped" /\ run'[w] = [run[w] EXCEPT !.pc = "written", !.temp = "dirty"]
                       \/ run[w].pc = "written" /\ run'[w] = [run[w] EXCEPT !.pc = "synced", !.temp = "flushed"]
                  BY <1>1, <1>3, <2>2, <3>3 DEF ExclusiveInv, Run
            <3>4. CASE run'[w] \in {NotRun, [NotRun EXCEPT !.outcome = "failed"]}
                  BY <2>2, <3>4 DEF NotRun
            <3>6. ~\E t \in Target : run'[w] = [NotRun EXCEPT !.pc = "inspected",
                                      !.seen = [target |-> t, digest |-> held[t]]]
                  BY <2>2 DEF NotRun
            <3>5. CASE \/ run'[w] = [run[w] EXCEPT !.pc = "replaced", !.temp = "none"]
                       \/ run'[w] = [run[w] EXCEPT !.pc = "idle", !.outcome = "recorded"]
                       \/ run'[w] = [run[w] EXCEPT !.pc = "idle", !.temp = "none", !.outcome = "failed"]
                  BY <1>3, <2>2, <3>5 DEF Run
            <3> QED  BY <3>1, <3>2, <3>3, <3>4, <3>5, <3>6, StepRun
      <2> QED  BY <1>2, <1>5, <2>1, <2>2
<1> QED  BY <1>4, <1>5

\* While checkpoints do not overlap, whatever the ledger held when its directory
\* was flushed stays at its beginning, through kills and power failures.
THEOREM SecuredKept == Spec => []SecuredStays
<1>1. Init => ExclusiveInv
      <2> SUFFICES ASSUME Init PROVE ExclusiveInv
          OBVIOUS
      <2>0. << >> \in Seq(Entry)
            OBVIOUS
      <2>1. IsPrefix(<< >>, << >>)
            BY <2>0, PrefixOfItself
      <2> QED  BY <2>1 DEF Init, ExclusiveInv, Apart, Readable, NotRun
<1>2. ExclusiveInv => SecuredStays
      BY DEF ExclusiveInv, SecuredStays
<1> QED  BY InitTyped, StepTyped, StepExclusive, <1>1, <1>2, PTL DEF Spec
-----------------------------------------------------------------------------
(***************************************************************************)
(* An entry that was stamped and not renamed is in no other ledger.  Two   *)
(* entries are equal only when they follow the same history and bear the   *)
(* same label, so what has to be ruled out is that a run stamps once more  *)
(* behind a history it has stamped behind before.                          *)
(***************************************************************************)

\* The places of a checkpoint whose entries may still become the ledger.
Live == {"loaded", "stamped", "written", "synced"}

\* s holds an entry of w that follows the history h.
Holds(s, h, w) ==
    \E i \in DOMAIN s : s[i].previous = h /\ s[i].body.label = w

\* No ledger but the one in the memory of w holds such an entry.
Unused(h, w) ==
    /\ \A text \in Readable : ~Holds(text, h, w)
    /\ \A v \in Process \ {w} : run[v].pc \in Live => ~Holds(run[v].entries, h, w)

\* The entry w has stamped is not, or not yet, renamed.
Wrote(w) == \/ run[w].pc \in {"stamped", "written", "synced"}
            \/ run[w].outcome = "failed" /\ run[w].entries # << >>

\* An entry covers as many bodies as there are entries before it.
Deep(s) == \A i \in DOMAIN s : Len(s[i].previous) = i - 1

DepthInv ==
    /\ \A text \in Readable : Deep(text)
    /\ \A w \in Process : Deep(run[w].entries)

PlaceInv ==
    \A w \in Process :
        /\ run[w].pc = "inspected" => run[w].entries = << >>
        /\ run[w].outcome # "none" => run[w].pc = "idle"
        /\ Wrote(w) => /\ run[w].entries # << >>
                       /\ Last(run[w].entries).body.label = w

\* Nobody has yet an entry of w behind the ledger as it is, behind the ledger
\* that w has loaded, or where w has put its own.
FreshInv ==
    \A w \in Process :
        /\ Unused(LastHash(ledger), w)
        /\ run[w].pc = "loaded" => Unused(LastHash(run[w].entries), w)
        /\ Wrote(w) => Unused(Last(run[w].entries).previous, w)
-----------------------------------------------------------------------------
\* The last entry of a ledger that was extended.
LEMMA ExtendedLast ==
    ASSUME NEW s \in Seq(Entry), NEW b \in Body
    PROVE  /\ Last(Extended(s, b)).previous = LastHash(s)
           /\ Last(Extended(s, b)).body = b
<1>1. Last(Extended(s, b)) = NewEntry(LastHash(s), b)
      BY ExtendedProps DEF Last
<1> QED  BY <1>1, NewEntryType, LastHashType

\* The history behind a ledger is as long as the ledger.
LEMMA LastHashDepth ==
    ASSUME NEW s \in Seq(Entry), Chained(s), Deep(s)
    PROVE  Len(LastHash(s)) = Len(s)
<1>1. CASE s = << >>
      BY <1>1 DEF LastHash, Genesis
<1>2. CASE s # << >>
      <2> DEFINE n == Len(s)
                 e == s[n]
      <2>1. n \in DOMAIN s /\ n \in Nat
            BY <1>2
      <2>2. e \in Entry
            BY <2>1
      <2>3. e.hash = Append(e.previous, e.body) /\ Len(e.previous) = n - 1
            BY <2>1 DEF Chained, EntryHash, Deep
      <2>4. e.previous \in Seq(Body)
            BY <2>2 DEF Entry
      <2>5. Len(Append(e.previous, e.body)) = Len(e.previous) + 1
            BY <2>4, <2>2 DEF Entry
      <2>6. LastHash(s) = e.hash
            BY <1>2 DEF LastHash, Last
      <2> HIDE DEF e
      <2> QED  BY <2>1, <2>3, <2>5, <2>6
<1> QED  BY <1>1, <1>2

LEMMA ExtendedDeep ==
    ASSUME NEW s \in Seq(Entry), Chained(s), Deep(s), NEW b \in Body
    PROVE  Deep(Extended(s, b))
<1> DEFINE x == Extended(s, b)
<1>1. /\ x \in Seq(Entry) /\ Len(x) = Len(s) + 1 /\ Len(s) \in Nat
      /\ x[Len(s) + 1].previous = LastHash(s)
      /\ \A i \in 1..Len(s) : x[i] = s[i]
      BY ExtendedProps, NewEntryType, LastHashType
<1>2. Len(LastHash(s)) = Len(s)
      BY LastHashDepth
<1>3. \A i \in DOMAIN x : i = Len(s) + 1 \/ i \in 1..Len(s)
      BY <1>1
<1> HIDE DEF x
<1>4. ASSUME NEW i \in DOMAIN x PROVE Len(x[i].previous) = i - 1
      <2>1. CASE i \in 1..Len(s)
            BY <1>1, <2>1 DEF Deep
      <2>2. CASE i = Len(s) + 1
            BY <1>1, <1>2, <2>2
      <2> QED  BY <1>3, <2>1, <2>2
<1> QED  BY <1>4 DEF Deep, x

\* An entry of v adds none of w.
LEMMA ExtendedHolds ==
    ASSUME NEW s \in Seq(Entry), NEW b \in Body, NEW h, NEW w,
           b.label # w, ~Holds(s, h, w)
    PROVE  ~Holds(Extended(s, b), h, w)
<1> DEFINE x == Extended(s, b)
<1>1. /\ x \in Seq(Entry) /\ Len(x) = Len(s) + 1 /\ Len(s) \in Nat
      /\ x[Len(s) + 1].body = b
      /\ \A i \in 1..Len(s) : x[i] = s[i]
      BY ExtendedProps, NewEntryType, LastHashType
<1>2. \A i \in DOMAIN x : i = Len(s) + 1 \/ i \in 1..Len(s)
      BY <1>1
<1> HIDE DEF x
<1> QED  BY <1>1, <1>2 DEF Holds, x

\* Nothing follows the end of a chain within that chain.
LEMMA NothingBehind ==
    ASSUME NEW s \in Seq(Entry), Chained(s), Deep(s), NEW w
    PROVE  ~Holds(s, LastHash(s), w)
<1> SUFFICES ASSUME NEW i \in DOMAIN s, s[i].previous = LastHash(s) PROVE FALSE
    BY DEF Holds
<1>1. i - 1 = Len(s)
      BY LastHashDepth DEF Deep
<1> QED  BY <1>1

\* The hash of an entry tells the history and the body it covers.
LEMMA EntryHashOne ==
    ASSUME NEW p \in Seq(Body), NEW q \in Seq(Body), NEW a \in Body, NEW b \in Body,
           EntryHash(p, a) = EntryHash(q, b)
    PROVE  p = q /\ a = b
<1> DEFINE x == Append(p, a)
           y == Append(q, b)
<1>1. /\ Len(x) = Len(p) + 1 /\ Len(p) \in Nat /\ x[Len(p) + 1] = a
      /\ \A k \in 1..Len(p) : x[k] = p[k]
      BY AppendProperties
<1>2. /\ Len(y) = Len(q) + 1 /\ Len(q) \in Nat /\ y[Len(q) + 1] = b
      /\ \A k \in 1..Len(q) : y[k] = q[k]
      BY AppendProperties
<1>3. x = y
      BY DEF EntryHash
<1> HIDE DEF x, y
<1>4. Len(p) = Len(q) /\ a = b
      BY <1>1, <1>2, <1>3
<1>5. \A k \in 1..Len(p) : p[k] = q[k]
      BY <1>1, <1>2, <1>3, <1>4
<1>6. p = q
      BY <1>4, <1>5, SeqEqual
<1> QED  BY <1>4, <1>6

\* So entries of equal hash are equal in what they cover.
LEMMA EqualHashes ==
    ASSUME NEW e \in Entry, NEW f \in Entry, e.hash = f.hash,
           e.hash = EntryHash(e.previous, e.body),
           f.hash = EntryHash(f.previous, f.body)
    PROVE  f.previous = e.previous /\ f.body = e.body
<1>1. /\ e.previous \in Seq(Body) /\ e.body \in Body
      /\ f.previous \in Seq(Body) /\ f.body \in Body
      BY DEF Entry
<1>2. EntryHash(f.previous, f.body) = EntryHash(e.previous, e.body)
      OBVIOUS
<1>3. \A p, q \in Seq(Body), a, b \in Body :
          EntryHash(p, a) = EntryHash(q, b) => p = q /\ a = b
      BY EntryHashOne
<1> QED  BY ONLY <1>1, <1>2, <1>3

\* A chain with an entry behind e holds e.
LEMMA BehindAnEntry ==
    ASSUME NEW s \in Seq(Entry), Chained(s), NEW e \in Entry,
           e.hash = EntryHash(e.previous, e.body),
           NEW w, Holds(s, e.hash, w)
    PROVE  Holds(s, e.previous, e.body.label)
<1>1. PICK i \in DOMAIN s : s[i].previous = e.hash
      BY DEF Holds
<1>2. e.previous \in Seq(Body) /\ e.body \in Body
      BY DEF Entry
<1>3. e.hash # << >>
      BY <1>2 DEF EntryHash
<1>4. i # 1
      BY <1>1, <1>3 DEF Chained, Genesis
<1> DEFINE j == i - 1
           f == s[j]
<1>5. j \in DOMAIN s
      BY <1>4
<1>6. f \in Entry
      BY <1>5
<1>7. f.hash = e.hash /\ f.hash = EntryHash(f.previous, f.body)
      BY <1>1, <1>4, <1>5 DEF Chained
<1>9. f.previous = e.previous /\ f.body = e.body
      BY <1>6, <1>7, EqualHashes
<1> QED  BY <1>5, <1>9 DEF Holds
-----------------------------------------------------------------------------
(* Steps.                                                                  *)

\* What a step does to the ledgers there are: nothing new, a renamed one, or,
\* after a power failure, one of those on disk and no checkpoint under way.
LEMMA StepReadable ==
    ASSUME TInv, [Next]_vars
    PROVE  \/ /\ ledger' = ledger /\ Readable' \subseteq Readable
              /\ \A w \in Process : ~(run[w].pc = "synced" /\ run'[w].pc = "replaced")
           \/ \E w \in Process :
                 /\ run[w].pc = "synced" /\ run'[w].pc = "replaced"
                 /\ \A v \in Process \ {w} : run'[v] = run[v]
                 /\ ledger' = run[w].entries /\ Readable' \subseteq Readable \cup {ledger'}
           \/ /\ ledger' \in Readable /\ Readable' = {ledger'}
              /\ \A w \in Process : run'[w].pc = "idle"
<1> DEFINE Same == /\ ledger' = ledger /\ Readable' \subseteq Readable
                   /\ \A w \in Process : ~(run[w].pc = "synced" /\ run'[w].pc = "replaced")
<1>t. run \in [Process -> Run]
      BY DEF TInv, TypeOK
<1>0. ASSUME NEW w \in Process,
             \A v \in Process \ {w} : run'[v] = run[v],
             run[w].pc # "synced" \/ run'[w].pc # "replaced"
      PROVE  \A v \in Process : ~(run[v].pc = "synced" /\ run'[v].pc = "replaced")
      BY <1>0
<1>1. ASSUME NEW w \in Process, Replace(w)
      PROVE  \/ Same
             \/ /\ run[w].pc = "synced" /\ run'[w].pc = "replaced"
                /\ \A v \in Process \ {w} : run'[v] = run[v]
                /\ ledger' = run[w].entries /\ Readable' \subseteq Readable \cup {ledger'}
      <2>1. CASE Fails(w) /\ UNCHANGED <<ledger, onDisk>>
            BY <1>t, <1>0, <2>1 DEF Fails, Readable
      <2>2. CASE /\ ledger' = run[w].entries
                 /\ onDisk' = onDisk \cup
                      {IF run[w].temp = "flushed" THEN run[w].entries ELSE Torn}
                 /\ run' = [run EXCEPT ![w].pc = "replaced", ![w].temp = "none"]
            <3>1. run[w].pc = "synced" /\ run[w].temp = "flushed"
                  BY <1>1 DEF Replace, TInv, RunInv
            <3> QED  BY <1>t, <2>2, <3>1 DEF Readable, Run
      <2> QED  BY <1>1, <2>1, <2>2 DEF Replace
<1>2. CASE PowerFailure
      BY <1>2 DEF PowerFailure, NotRun, Readable
<1>3. ASSUME NEW w \in Process, FlushDirectory(w)
      PROVE  Same
      <2>1. run[w].pc # "synced" /\ \A v \in Process \ {w} : run'[v] = run[v]
            BY <1>t, <1>3 DEF FlushDirectory
      <2> QED  BY <1>0, <1>3, <2>1 DEF FlushDirectory, Readable
<1>4. CASE \/ UNCHANGED vars \/ Tick
           \/ \E t \in Target, d \in Digest \cup {Missing} : TargetChanges(t, d)
      BY <1>4 DEF vars, Tick, TargetChanges, Readable
<1>5. ASSUME NEW w \in Process,
             \/ \E t \in Target : Inspect(w, t)
             \/ Load(w) \/ Stamp(w) \/ WriteTemp(w) \/ SyncTemp(w) \/ Kill(w)
      PROVE  Same
      <2>1. ledger' = ledger /\ Readable' = Readable
            BY <1>5 DEF Inspect, Load, Stamp, WriteTemp, SyncTemp, Kill, Readable
      <2>2. /\ \A v \in Process \ {w} : run'[v] = run[v]
            /\ run'[w].pc # "replaced"
            <3>1. CASE \E t \in Target : Inspect(w, t)
                  BY <1>t, <3>1 DEF Inspect, NotRun
            <3>2. CASE Load(w) \/ Stamp(w) \/ WriteTemp(w) \/ SyncTemp(w) \/ Kill(w)
                  BY <1>t, <3>2 DEF Load, Stamp, WriteTemp, SyncTemp, Kill, Fails, NotRun, Run
            <3> QED  BY <1>5, <3>1, <3>2
      <2> QED  BY <1>0, <2>1, <2>2
<1>6. CASE \E w \in Process : Replace(w)
      BY <1>1, <1>6
<1>7. CASE \E w \in Process : FlushDirectory(w)
      BY <1>3, <1>7
<1>8. CASE \E w \in Process :
             \/ \E t \in Target : Inspect(w, t)
             \/ Load(w) \/ Stamp(w) \/ WriteTemp(w) \/ SyncTemp(w) \/ Kill(w)
      BY <1>5, <1>8
<1> QED  BY <1>2, <1>4, <1>6, <1>7, <1>8 DEF Next

\* What a step does to the entries of a run and to its place.
LEMMA StepEntries ==
    ASSUME TInv, [Next]_vars, NEW w \in Process
    PROVE  \/ run'[w].entries = << >> /\ run'[w].pc \notin Live
           \/ run'[w].entries = run[w].entries /\ (run'[w].pc \in Live => run[w].pc \in Live)
           \/ run[w].pc = "inspected" /\ run'[w].pc = "loaded" /\ run'[w].entries = ledger
           \/ /\ run[w].pc = "loaded" /\ run'[w].pc = "stamped"
              /\ run'[w].entries = Extended(run[w].entries, Stamped(w))
<1>t. run[w] \in Run
      BY DEF TInv, TypeOK
<1>1. CASE run'[w] = run[w]
      BY <1>1
<1>2. CASE run'[w] \in {NotRun, [NotRun EXCEPT !.outcome = "failed"]}
      BY <1>2 DEF NotRun, Live
<1>6. CASE \E t \in Target : run'[w] = [NotRun EXCEPT !.pc = "inspected",
                      !.seen = [target |-> t, digest |-> held[t]]]
      BY <1>6 DEF NotRun, Live
<1>3. CASE /\ run[w].pc = "inspected"
           /\ run'[w] = [run[w] EXCEPT !.pc = "loaded", !.entries = ledger]
      BY <1>t, <1>3 DEF Run
<1>4. CASE /\ run[w].pc = "loaded"
           /\ run'[w] = [run[w] EXCEPT !.pc = "stamped",
                             !.entries = Extended(@, Stamped(w))]
      BY <1>t, <1>4 DEF Run
<1>5. CASE \/ run[w].pc = "stamped" /\ run'[w] = [run[w] EXCEPT !.pc = "written", !.temp = "dirty"]
           \/ run[w].pc = "written" /\ run'[w] = [run[w] EXCEPT !.pc = "synced", !.temp = "flushed"]
           \/ run'[w] = [run[w] EXCEPT !.pc = "replaced", !.temp = "none"]
           \/ run'[w] = [run[w] EXCEPT !.pc = "idle", !.outcome = "recorded"]
           \/ run'[w] = [run[w] EXCEPT !.pc = "idle", !.temp = "none", !.outcome = "failed"]
      <2>1. /\ run'[w].entries = run[w].entries
            /\ \/ run[w].pc \in {"stamped", "written"}
               \/ run'[w].pc \in {"replaced", "idle"}
            BY <1>t, <1>5 DEF Run
      <2> QED  BY <2>1 DEF Live
<1> QED  BY <1>1, <1>2, <1>3, <1>4, <1>5, <1>6, StepRun

LEMMA StepDepth == TInv /\ ChainInv /\ DepthInv /\ [Next]_vars => DepthInv'
<1> SUFFICES ASSUME TInv, ChainInv, DepthInv, [Next]_vars PROVE DepthInv'
    OBVIOUS
<1>1. \A text \in Readable' : Deep(text)
      BY StepLedger DEF DepthInv
<1>2. ASSUME NEW w \in Process PROVE Deep(run'[w].entries)
      <2>1. Deep(<< >>)
            BY DEF Deep
      <2>2. Deep(ledger) /\ Deep(run[w].entries)
            BY DEF DepthInv, Readable
      <2>3. run[w].pc = "loaded" => Deep(Extended(run[w].entries, Stamped(w)))
            BY <2>2, StampedType, ExtendedDeep DEF ChainInv, Good
      <2> QED  BY <2>1, <2>2, <2>3, StepEntries
<1> QED  BY <1>1, <1>2 DEF DepthInv

LEMMA StepPlace == TInv /\ PlaceInv /\ [Next]_vars => PlaceInv'
<1> SUFFICES ASSUME TInv, PlaceInv, [Next]_vars, NEW w \in Process
             PROVE  /\ run'[w].pc = "inspected" => run'[w].entries = << >>
                    /\ run'[w].outcome # "none" => run'[w].pc = "idle"
                    /\ Wrote(w)' => /\ run'[w].entries # << >>
                                    /\ Last(run'[w].entries).body.label = w
    BY DEF PlaceInv
<1>t. run[w] \in Run
      BY DEF TInv, TypeOK
<1>0. /\ run[w].pc = "inspected" => run[w].entries = << >>
      /\ run[w].outcome # "none" => run[w].pc = "idle"
      /\ Wrote(w) => /\ run[w].entries # << >>
                     /\ Last(run[w].entries).body.label = w
      BY DEF PlaceInv
<1>1. CASE run'[w] \in {run[w], NotRun, [NotRun EXCEPT !.outcome = "failed"]}
      BY <1>0, <1>1 DEF NotRun, Wrote
<1>2. CASE \E t \in Target : run'[w] = [NotRun EXCEPT !.pc = "inspected",
                      !.seen = [target |-> t, digest |-> held[t]]]
      BY <1>2 DEF NotRun, Wrote
<1>3. CASE /\ run[w].pc = "inspected"
           /\ run'[w] = [run[w] EXCEPT !.pc = "loaded", !.entries = ledger]
      BY <1>t, <1>0, <1>3 DEF Run, Wrote
<1>4. CASE /\ run[w].pc = "loaded"
           /\ run'[w] = [run[w] EXCEPT !.pc = "stamped",
                             !.entries = Extended(@, Stamped(w))]
      <2>1. run[w].entries \in Seq(Entry)
            BY <1>t DEF Run
      <2>2. /\ Extended(run[w].entries, Stamped(w)) # << >>
            /\ Last(Extended(run[w].entries, Stamped(w))).body = Stamped(w)
            /\ Stamped(w).label = w
            BY <1>4, <2>1, StampedType, ExtendedProps, ExtendedLast DEF Stamped
      <2> QED  BY <1>t, <1>0, <1>4, <2>2 DEF Run
<1>5. CASE \/ run[w].pc = "stamped" /\ run'[w] = [run[w] EXCEPT !.pc = "written", !.temp = "dirty"]
           \/ run[w].pc = "written" /\ run'[w] = [run[w] EXCEPT !.pc = "synced", !.temp = "flushed"]
           \/ run[w].pc = "synced" /\ run'[w] = [run[w] EXCEPT !.pc = "replaced", !.temp = "none"]
           \/ run'[w] = [run[w] EXCEPT !.pc = "idle", !.outcome = "recorded"]
           \/ /\ run[w].pc \in {"inspected", "stamped", "written", "synced"}
              /\ run'[w] = [run[w] EXCEPT !.pc = "idle", !.temp = "none", !.outcome = "failed"]
      BY <1>t, <1>0, <1>5 DEF Run, Wrote
<1> QED  BY <1>1, <1>2, <1>3, <1>4, <1>5, StepRun

\* What is in no ledger but that of w comes into no other by a step that does
\* not rename the ledger of w.
StillUnused(h, w) ==
    /\ \A text \in Readable' : ~Holds(text, h, w)
    /\ \A v \in Process \ {w} : run'[v].pc \in Live => ~Holds(run'[v].entries, h, w)

LEMMA UnusedStep ==
    ASSUME TInv, PlaceInv, [Next]_vars, NEW w \in Process, NEW h, Unused(h, w),
           ~(run[w].pc = "synced" /\ run'[w].pc = "replaced")
    PROVE  StillUnused(h, w)
<1>1. ASSUME NEW text \in Readable' PROVE ~Holds(text, h, w)
      <2>1. CASE text \in Readable
            BY <2>1 DEF Unused
      <2>2. CASE text \notin Readable
            <3>1. PICK v \in Process :
                      run[v].pc = "synced" /\ run'[v].pc = "replaced" /\ text = run[v].entries
                  BY <2>2, StepReadable
            <3> QED  BY <3>1 DEF Unused, Live
      <2> QED  BY <2>1, <2>2
<1>2. ASSUME NEW v \in Process \ {w}, run'[v].pc \in Live
      PROVE  ~Holds(run'[v].entries, h, w)
      <2>1. ~Holds(<< >>, h, w) /\ ~Holds(ledger, h, w)
            BY DEF Holds, Unused, Readable
      <2>2. CASE run[v].pc \in Live
            <3>1. ~Holds(run[v].entries, h, w) /\ run[v].entries \in Seq(Entry)
                  BY <2>2 DEF Unused, TInv, TypeOK, Run
            <3>2. run[v].pc = "loaded" =>
                      ~Holds(Extended(run[v].entries, Stamped(v)), h, w)
                  BY <3>1, StampedType, ExtendedHolds DEF Stamped
            <3> QED  BY <2>1, <3>1, <3>2, StepEntries
      <2> QED  BY <1>2, <2>1, <2>2, StepEntries DEF Live
<1> QED  BY <1>1, <1>2 DEF StillUnused

\* The ledger w renames is one nobody has gone on from.
LEMMA RenamedUnused ==
    ASSUME TInv, ChainInv, DepthInv, PlaceInv, FreshInv,
           NEW w \in Process, run[w].pc = "synced",
           NEW u, NEW s, Holds(s, LastHash(run[w].entries), u)
    PROVE  /\ s \notin Readable \cup {run[w].entries}
           /\ \A v \in Process \ {w} : run[v].pc \in Live => s # run[v].entries
<1> DEFINE x == run[w].entries
           e == Last(x)
<1>1. x \in Seq(Entry) /\ Chained(x) /\ Deep(x)
      BY DEF ChainInv, Good, DepthInv
<1>2. x # << >> /\ e.body.label = w /\ Unused(e.previous, w)
      BY DEF PlaceInv, FreshInv, Wrote
<1>3. Len(x) \in DOMAIN x /\ e = x[Len(x)]
      BY <1>1, <1>2 DEF Last
<1>4. e \in Entry /\ e.hash = EntryHash(e.previous, e.body) /\ LastHash(x) = e.hash
      BY <1>1, <1>2, <1>3 DEF Chained, LastHash
<1> HIDE DEF e, x
<1>5. s # x
      BY <1>1, NothingBehind DEF x
<1>6. ASSUME s \in Seq(Entry), Chained(s)
      PROVE  Holds(s, e.previous, w)
      BY <1>2, <1>4, <1>6, BehindAnEntry DEF x
<1>7. s \notin Readable
      BY <1>2, <1>6 DEF Unused, ChainInv, Good
<1>8. ASSUME NEW v \in Process \ {w}, run[v].pc \in Live, s = run[v].entries
      PROVE  FALSE
      BY <1>2, <1>6, <1>8 DEF Unused, ChainInv, Good
<1> QED  BY <1>5, <1>7, <1>8 DEF x

LEMMA StepFresh ==
    TInv /\ ChainInv /\ DepthInv /\ PlaceInv /\ FreshInv /\ [Next]_vars => FreshInv'
<1> SUFFICES ASSUME TInv, ChainInv, DepthInv, PlaceInv, FreshInv, [Next]_vars,
                    NEW w \in Process
             PROVE  /\ StillUnused(LastHash(ledger'), w)
                    /\ run'[w].pc = "loaded" => StillUnused(LastHash(run'[w].entries), w)
                    /\ Wrote(w)' => StillUnused(Last(run'[w].entries).previous, w)
    BY DEF FreshInv, Unused, StillUnused
<1>t. run[w] \in Run
      BY DEF TInv, TypeOK
<1>1. StillUnused(LastHash(ledger'), w)
      <2>1. CASE /\ ledger' = ledger /\ Readable' \subseteq Readable
                 /\ \A v \in Process : ~(run[v].pc = "synced" /\ run'[v].pc = "replaced")
            BY <2>1, UnusedStep DEF FreshInv
      <2>2. ASSUME NEW v \in Process, run[v].pc = "synced", run'[v].pc = "replaced",
                   \A u \in Process \ {v} : run'[u] = run[u],
                   ledger' = run[v].entries, Readable' \subseteq Readable \cup {ledger'}
            PROVE  StillUnused(LastHash(ledger'), w)
            <3>1. \A text \in Readable' : ~Holds(text, LastHash(ledger'), w)
                  BY <2>2, RenamedUnused
            <3>2. \A u \in Process \ {w} : run'[u].pc \in Live =>
                      ~Holds(run'[u].entries, LastHash(ledger'), w)
                  <4>1. "replaced" \notin Live
                        BY DEF Live
                  <4> QED  BY <2>2, <4>1, RenamedUnused
            <3> QED  BY <3>1, <3>2 DEF StillUnused
      <2>3. CASE /\ ledger' \in Readable /\ Readable' = {ledger'}
                 /\ \A v \in Process : run'[v].pc = "idle"
            <3>1. ~Holds(ledger', LastHash(ledger'), w)
                  BY <2>3, NothingBehind DEF ChainInv, Good, DepthInv
            <3> QED  BY <2>3, <3>1 DEF StillUnused, Live
      <2> QED  BY <2>1, <2>2, <2>3, StepReadable
<1>0. /\ Unused(LastHash(ledger), w)
      /\ run[w].pc = "loaded" => Unused(LastHash(run[w].entries), w)
      /\ Wrote(w) => Unused(Last(run[w].entries).previous, w)
      /\ run[w].pc = "inspected" => run[w].entries = << >>
      /\ run[w].outcome # "none" => run[w].pc = "idle"
      BY DEF FreshInv, PlaceInv
<1> SUFFICES /\ run'[w].pc = "loaded" => StillUnused(LastHash(run'[w].entries), w)
             /\ Wrote(w)' => StillUnused(Last(run'[w].entries).previous, w)
    BY <1>1
<1>2. ASSUME run'[w].pc \in {"inspected", "loaded", "stamped", "written", "synced", "idle"}
      PROVE  \A h : Unused(h, w) => StillUnused(h, w)
      BY <1>2, UnusedStep
<1>3. CASE run'[w] = run[w]
      <2>1. run'[w].pc = run[w].pc /\ Wrote(w)' = Wrote(w)
            BY <1>3 DEF Wrote
      <2>2. run[w].pc = "loaded" \/ Wrote(w) => \A h : Unused(h, w) => StillUnused(h, w)
            BY <1>0, <1>2, <2>1 DEF Wrote
      <2> QED  BY <1>0, <1>3, <2>1, <2>2
<1>4. CASE run'[w] \in {NotRun, [NotRun EXCEPT !.outcome = "failed"]}
      BY <1>4 DEF NotRun, Wrote
<1>b. CASE \E t \in Target : run'[w] = [NotRun EXCEPT !.pc = "inspected",
                      !.seen = [target |-> t, digest |-> held[t]]]
      BY <1>b DEF NotRun, Wrote
<1>5. CASE /\ run[w].pc = "inspected"
           /\ run'[w] = [run[w] EXCEPT !.pc = "loaded", !.entries = ledger]
      <2>1. /\ run'[w].pc = "loaded" /\ run'[w].entries = ledger
            /\ run'[w].outcome = "none"
            BY <1>t, <1>0, <1>5 DEF Run
      <2> QED  BY <1>0, <1>2, <2>1 DEF Wrote
<1>6. CASE /\ run[w].pc = "loaded"
           /\ run'[w] = [run[w] EXCEPT !.pc = "stamped",
                             !.entries = Extended(@, Stamped(w))]
      <2>1. run'[w].pc = "stamped" /\ run'[w].entries = Extended(run[w].entries, Stamped(w))
            BY <1>t, <1>6 DEF Run
      <2>2. Last(Extended(run[w].entries, Stamped(w))).previous = LastHash(run[w].entries)
            BY <1>t, <1>6, StampedType, ExtendedLast DEF Run
      <2> QED  BY <1>0, <1>2, <1>6, <2>1, <2>2
<1>7. CASE \/ run[w].pc = "stamped" /\ run'[w] = [run[w] EXCEPT !.pc = "written", !.temp = "dirty"]
           \/ run[w].pc = "written" /\ run'[w] = [run[w] EXCEPT !.pc = "synced", !.temp = "flushed"]
      <2>1. run'[w].pc \in {"written", "synced"} /\ run'[w].entries = run[w].entries
            BY <1>t, <1>7 DEF Run
      <2>2. Wrote(w)
            BY <1>7 DEF Wrote
      <2> QED  BY <1>0, <1>2, <2>1, <2>2
<1>8. CASE /\ run[w].pc \in {"inspected", "stamped", "written", "synced"}
           /\ run'[w] = [run[w] EXCEPT !.pc = "idle", !.temp = "none", !.outcome = "failed"]
      <2>1. run'[w].pc = "idle" /\ run'[w].entries = run[w].entries
            BY <1>t, <1>8 DEF Run
      <2>2. Wrote(w) \/ run[w].entries = << >>
            BY <1>0, <1>8 DEF Wrote
      <2> QED  BY <1>0, <1>2, <2>1, <2>2 DEF Wrote
<1>9. CASE \/ run[w].pc = "synced" /\ run'[w] = [run[w] EXCEPT !.pc = "replaced", !.temp = "none"]
           \/ run[w].pc = "replaced" /\ run'[w] = [run[w] EXCEPT !.pc = "idle", !.outcome = "recorded"]
      <2>1. /\ run'[w].pc \in {"replaced", "idle"}
            /\ run'[w].outcome # "failed"
            BY <1>t, <1>0, <1>9 DEF Run
      <2> QED  BY <2>1 DEF Wrote
<1> QED  BY <1>3, <1>4, <1>5, <1>6, <1>7, <1>8, <1>9, <1>b, StepRun

LEMMA InitFresh == Init => DepthInv /\ PlaceInv /\ FreshInv
BY DEF Init, NotRun, Readable, DepthInv, Deep, PlaceInv, Wrote, FreshInv, Unused,
       Holds, Live

\* A checkpoint that ended in an error is in no ledger a reader can find, now or
\* after a power failure, however checkpoints overlap and are killed.
THEOREM FailedAdd == Spec => []FailedAddsNothing
<1>1. PlaceInv /\ FreshInv => FailedAddsNothing
      <2> SUFFICES ASSUME PlaceInv, FreshInv, NEW w \in Process,
                          run[w].outcome = "failed", run[w].entries # << >>,
                          NEW text \in Readable \ {Torn}, NEW i \in DOMAIN text,
                          text[i] = Last(run[w].entries)
                   PROVE  FALSE
          BY DEF FailedAddsNothing
      <2>1. Last(run[w].entries).body.label = w /\ Unused(Last(run[w].entries).previous, w)
            BY DEF PlaceInv, FreshInv, Wrote
      <2> QED  BY <2>1 DEF Unused, Holds
<1> QED  BY InitTyped, StepTyped, InitChain, StepChain, InitFresh, StepDepth, StepPlace,
            StepFresh, <1>1, PTL DEF Spec
=============================================================================
