--------------------------- MODULE InterfaceProofs ---------------------------
(***************************************************************************)
(* Where the program meets its users and their devices: enrolling and      *)
(* verifying (Recognition), the drivers (Devices) and the tabs (Desktop),  *)
(* for any number of processes, identities, devices, vaults and packages,  *)
(* and any order of their steps and of what happens around them.  The      *)
(* three share no state; each part below is about one of them, and has an  *)
(* inductive invariant of its own: Inv, DriverInv and DesktopInv.          *)
(***************************************************************************)
EXTENDS Recognition, Devices, Desktop, TLAPS

-----------------------------------------------------------------------------
(* Recognition *)

\* The commands that can be under way.
Run == UNION {Commands(s) : s \in Requests}

Typed ==
    /\ files \in [Path -> Sample \cup {Unreadable}]
    /\ store \in [Id -> Record \cup {None}]
    /\ key \in Key
    /\ op \in [Process -> Run \cup {None}]

\* A result that a comparison gave, or an enrolment's template, fits.
Fits(o, m) ==
    LET t == o.record.templates[m]
    IN  /\ o.probes[m] # None /\ t # None
        /\ t.key = o.key /\ t.id = o.record.id /\ t.modality = m
        /\ <<t.vector.shows, o.probes[m].shows>> \in Alike

\* What was filmed when the gate let it through is there until it is rewritten.
Gated(o) ==
    o.gated => /\ "video" \in DOMAIN o.sources /\ o.results["video"] = None
               /\ ~o.rewritten => Source(o, "video") \in Sample /\ Moves(Source(o, "video"))

\* Each result of a verification is what the capture it compared says, and the
\* verdict is taken when there are all of them.
Compared(o) ==
    /\ \A m \in DOMAIN o.sources :
          IF o.results[m] = None THEN o.probes[m] = None
          ELSE o.results[m] <=> Fits(o, m)
    /\ o.verdict # None =>
          /\ Todo(o) = {}
          /\ o.verdict <=> IF o.anyMatch THEN \E m \in DOMAIN o.sources : Fits(o, m)
                           ELSE \A m \in DOMAIN o.sources : Fits(o, m)
    /\ ~o.lenient /\ ~o.rewritten =>
          \A m \in DOMAIN o.sources \cap {"video"} : o.probes[m] = None \/ Moves(o.probes[m])

\* A record's video moves, unless a still one was allowed.
StillFree(r) ==
    ~r.lenient /\ r.templates["video"] # None => Moves(r.templates["video"].vector)

\* An enrolment has a template for each modality that it is done with, and no
\* other: it began with none.
Enrolled(o) ==
    /\ o.verdict = None /\ \A m \in DOMAIN o.sources : o.probes[m] = None
    /\ o.record.binding = BindDevice(o.key) /\ o.record.asked = DOMAIN o.sources
    /\ o.lenient => o.record.lenient
    /\ \A m \in Modality :
          IF m \in DOMAIN o.sources /\ o.results[m] # None
          THEN /\ o.record.templates[m] # None
               /\ Opens(o.key, o.record.id, m, o.record.templates[m])
          ELSE o.record.templates[m] = None
    /\ StillFree(o.record)

\* What a command can count on when it takes its next step.
Sound(o) == /\ Gated(o)
            /\ o.kind = "verify" => Compared(o)
            /\ o.kind = "enroll" => Enrolled(o)

\* EnrolledWhole of one record.
Whole(r) ==
    r.asked # {} =>
        \E k \in Key :
            /\ VerifyDevice(k, r.binding)
            /\ \A m \in Modality :
                  IF m \in r.asked
                  THEN r.templates[m] # None /\ Opens(k, r.id, m, r.templates[m])
                  ELSE r.templates[m] = None

Inv ==
    /\ Typed
    /\ \A p \in Process : \A o \in {op[p]} \ {None} : Sound(o)
    /\ \A i \in Id : store[i] # None => StillFree(store[i]) /\ Whole(store[i])

-----------------------------------------------------------------------------
(* What the fields of commands and records are *)

LEMMA RunFields ==
  ASSUME NEW o \in Run
  PROVE  /\ o.sources \in Requests /\ o \in Commands(o.sources) /\ o # None
         /\ DOMAIN o.sources \subseteq Modality
         /\ \A m \in DOMAIN o.sources : o.sources[m] \in Path
         /\ o.kind \in {"enroll", "verify"} /\ o.key \in Key /\ o.record \in Record
         /\ o.lenient \in BOOLEAN /\ o.anyMatch \in BOOLEAN /\ o.gated \in BOOLEAN
         /\ o.rewritten \in BOOLEAN /\ o.verdict \in BOOLEAN \cup {None}
         /\ o.results \in [DOMAIN o.sources -> BOOLEAN \cup {None}]
         /\ o.probes \in [DOMAIN o.sources -> Sample \cup {None}]
  <1>1. PICK s \in Requests : o \in Commands(s)
    BY DEF Run
  <1>2. /\ o.sources = s /\ o.kind \in {"enroll", "verify"} /\ o.key \in Key
        /\ o.record \in Record
        /\ o.lenient \in BOOLEAN /\ o.anyMatch \in BOOLEAN /\ o.gated \in BOOLEAN
        /\ o.rewritten \in BOOLEAN /\ o.verdict \in BOOLEAN \cup {None}
        /\ o.results \in [DOMAIN s -> BOOLEAN \cup {None}]
        /\ o.probes \in [DOMAIN s -> Sample \cup {None}]
    BY <1>1 DEF Commands
  <1>. QED
    BY <1>1, <1>2, RequestsAssumption, NoneAssumption

LEMMA RecordFields ==
  ASSUME NEW r \in Record
  PROVE  /\ r.id \in Id /\ r.binding \in {BindDevice(k) : k \in Key}
         /\ r.templates \in [Modality -> Template \cup {None}]
         /\ r.asked \subseteq Modality /\ r.lenient \in BOOLEAN /\ r # None
  BY NoneAssumption DEF Record

LEMMA TemplateFields ==
  ASSUME NEW t \in Template
  PROVE  /\ t.key \in Key /\ t.id \in Id /\ t.modality \in Modality /\ t.vector \in Sample
         /\ t # None
  BY NoneAssumption DEF Template

LEMMA Sealing ==
  ASSUME NEW k \in Key, NEW i \in Id, NEW m \in Modality, NEW c \in Sample
  PROVE  LET t == Seal(k, i, m, c)
         IN  /\ t \in Template /\ t.key = k /\ t.id = i /\ t.modality = m /\ t.vector = c
             /\ Opens(k, i, m, t)
  BY DEF Seal, Opens, Template

\* What no step of a command changes.
SameCommand(n, o) ==
    /\ n.kind = o.kind /\ n.sources = o.sources /\ n.lenient = o.lenient
    /\ n.anyMatch = o.anyMatch /\ n.key = o.key
CommandFields == {"kind", "sources", "lenient", "anyMatch", "key", "record", "gated",
           "rewritten", "results", "probes", "verdict"}

LEMMA RunDomain ==
  ASSUME NEW o \in Run
  PROVE  DOMAIN o = CommandFields
  BY RunFields DEF Commands, CommandFields

LEMMA GateSet ==
  ASSUME NEW o \in Run
  PROVE  LET n == [o EXCEPT !.gated = TRUE]
         IN  /\ n \in Run /\ SameCommand(n, o) /\ n.gated
             /\ n.record = o.record /\ n.rewritten = o.rewritten
             /\ n.results = o.results /\ n.probes = o.probes /\ n.verdict = o.verdict
  <1>. DEFINE n == [o EXCEPT !.gated = TRUE]
  <1>1. o.sources \in Requests /\ o \in Commands(o.sources)
    BY RunFields
  <1>2. n \in Commands(o.sources)
    BY <1>1 DEF Commands
  <1>3. n \in Run
    BY <1>1, <1>2 DEF Run
  <1>. QED
    BY <1>3, RunDomain DEF CommandFields, SameCommand

LEMMA RewrittenSet ==
  ASSUME NEW o \in Run
  PROVE  LET n == [o EXCEPT !.rewritten = TRUE]
         IN  /\ n \in Run /\ SameCommand(n, o) /\ n.rewritten
             /\ n.record = o.record /\ n.gated = o.gated
             /\ n.results = o.results /\ n.probes = o.probes /\ n.verdict = o.verdict
  <1>. DEFINE n == [o EXCEPT !.rewritten = TRUE]
  <1>1. o.sources \in Requests /\ o \in Commands(o.sources)
    BY RunFields
  <1>2. n \in Commands(o.sources)
    BY <1>1 DEF Commands
  <1>3. n \in Run
    BY <1>1, <1>2 DEF Run
  <1>. QED
    BY <1>3, RunDomain DEF CommandFields, SameCommand

LEMMA VerdictSet ==
  ASSUME NEW o \in Run, NEW v \in BOOLEAN
  PROVE  LET n == [o EXCEPT !.verdict = v]
         IN  /\ n \in Run /\ SameCommand(n, o) /\ n.verdict = v
             /\ n.record = o.record /\ n.gated = o.gated /\ n.rewritten = o.rewritten
             /\ n.results = o.results /\ n.probes = o.probes
  <1>. DEFINE n == [o EXCEPT !.verdict = v]
  <1>1. o.sources \in Requests /\ o \in Commands(o.sources)
    BY RunFields
  <1>2. n \in Commands(o.sources)
    BY <1>1 DEF Commands
  <1>3. n \in Run
    BY <1>1, <1>2 DEF Run
  <1>. QED
    BY <1>3, RunDomain DEF CommandFields, SameCommand

LEMMA ResultSet ==
  ASSUME NEW o \in Run, NEW m \in DOMAIN o.sources, NEW b \in BOOLEAN
  PROVE  LET n == [o EXCEPT !.results[m] = b]
         IN  /\ n \in Run /\ SameCommand(n, o)
             /\ n.results = [o.results EXCEPT ![m] = b]
             /\ n.record = o.record /\ n.gated = o.gated /\ n.rewritten = o.rewritten
             /\ n.probes = o.probes /\ n.verdict = o.verdict
  <1>. DEFINE res == [o.results EXCEPT ![m] = b]
              n == [o EXCEPT !.results = res]
  <1>1. o.sources \in Requests /\ o \in Commands(o.sources)
    BY RunFields
  <1>2. res \in [DOMAIN o.sources -> BOOLEAN \cup {None}]
    BY RunFields
  <1>3. [o EXCEPT !.results[m] = b] = n
    OBVIOUS
  <1>. HIDE DEF res
  <1>4. n \in Commands(o.sources)
    BY <1>1, <1>2 DEF Commands
  <1>5. n \in Run
    BY <1>1, <1>4 DEF Run
  <1>6. /\ SameCommand(n, o) /\ n.results = res
        /\ n.record = o.record /\ n.gated = o.gated /\ n.rewritten = o.rewritten
        /\ n.probes = o.probes /\ n.verdict = o.verdict
    BY RunDomain DEF CommandFields, SameCommand
  <1>. QED
    BY <1>3, <1>5, <1>6 DEF res

LEMMA TemplateSet ==
  ASSUME NEW o \in Run, NEW m \in DOMAIN o.sources, NEW t \in Template
  PROVE  LET w == WithTemplate(o.record, m, t)
             r == [w EXCEPT !.lenient = @ \/ o.rewritten]
         IN  /\ r \in Record /\ r.id = o.record.id /\ r.binding = o.record.binding
             /\ r.templates = [o.record.templates EXCEPT ![m] = t]
             /\ r.asked = o.record.asked
             /\ r.lenient = (o.record.lenient \/ o.rewritten)
  <1>. DEFINE ts == [o.record.templates EXCEPT ![m] = t]
              l == o.record.lenient \/ o.rewritten
              r == [o.record EXCEPT !.templates = ts, !.lenient = l]
  <1>1. o.record \in Record /\ m \in Modality /\ o.rewritten \in BOOLEAN
    BY RunFields
  <1>2. ts \in [Modality -> Template \cup {None}] /\ l \in BOOLEAN
    BY <1>1, RecordFields
  <1>3. [WithTemplate(o.record, m, t) EXCEPT !.lenient = @ \/ o.rewritten] = r
    BY <1>1 DEF Record, WithTemplate
  <1>. HIDE DEF ts, l
  <1>4. /\ r \in Record /\ r.id = o.record.id /\ r.binding = o.record.binding
        /\ r.templates = ts /\ r.asked = o.record.asked /\ r.lenient = l
    BY <1>1, <1>2 DEF Record
  <1>. QED
    BY <1>3, <1>4 DEF ts, l

LEMMA EnrolmentSet ==
  ASSUME NEW o \in Run, NEW m \in DOMAIN o.sources, Source(o, m) \in Sample
  PROVE  LET n == EnrolledWith(o, m)
             t == Seal(o.key, o.record.id, m, Source(o, m))
         IN  /\ n \in Run /\ SameCommand(n, o) /\ ~n.gated
             /\ n.results = [o.results EXCEPT ![m] = TRUE]
             /\ n.probes = o.probes /\ n.rewritten = o.rewritten /\ n.verdict = o.verdict
             /\ n.record.id = o.record.id /\ n.record.binding = o.record.binding
             /\ n.record.templates = [o.record.templates EXCEPT ![m] = t]
             /\ n.record.asked = o.record.asked
             /\ n.record.lenient = (o.record.lenient \/ o.rewritten)
  <1>. DEFINE t == Seal(o.key, o.record.id, m, Source(o, m))
              r == [WithTemplate(o.record, m, t) EXCEPT !.lenient = @ \/ o.rewritten]
              res == [o.results EXCEPT ![m] = TRUE]
              n == [o EXCEPT !.record = r, !.results = res, !.gated = FALSE]
  <1>1. o.sources \in Requests /\ o \in Commands(o.sources) /\ m \in Modality
        /\ o.key \in Key /\ o.record.id \in Id
    BY RunFields, RecordFields
  <1>2. t \in Template
    BY <1>1, Sealing
  <1>3. EnrolledWith(o, m) = n
    BY RunDomain DEF EnrolledWith, CommandFields
  <1>. HIDE DEF t
  <1>4. /\ r \in Record /\ r.id = o.record.id /\ r.binding = o.record.binding
        /\ r.templates = [o.record.templates EXCEPT ![m] = t]
        /\ r.asked = o.record.asked
        /\ r.lenient = (o.record.lenient \/ o.rewritten)
    BY <1>2, TemplateSet
  <1>5. res \in [DOMAIN o.sources -> BOOLEAN \cup {None}]
    BY RunFields
  <1>. HIDE DEF r, res
  <1>6. n \in Commands(o.sources)
    BY <1>1, <1>4, <1>5 DEF Commands
  <1>7. n \in Run
    BY <1>1, <1>6 DEF Run
  <1>8. /\ SameCommand(n, o) /\ n.results = res /\ n.record = r /\ ~n.gated
        /\ n.probes = o.probes /\ n.rewritten = o.rewritten /\ n.verdict = o.verdict
    BY RunDomain DEF CommandFields, SameCommand
  <1>. HIDE DEF n
  <1>. QED
    BY <1>3, <1>4, <1>7, <1>8 DEF t, res

-----------------------------------------------------------------------------
(* The steps *)

LEMMA SoundKept ==
  ASSUME files' = files, NEW o, Sound(o)
  PROVE  Sound(o)'
  BY DEF Sound, Gated, Compared, Enrolled, Fits, Source, Todo, StillFree, Opens, Moves

\* One process takes a step, and the store keeps what it has but for one record.
LEMMA Stepped ==
  ASSUME Inv, NEW p \in Process, NEW o \in Run \cup {None}, Steps(p, o),
         o # None => Sound(o),
         \/ UNCHANGED store
         \/ \E i \in Id, r \in Record :
               store' = [store EXCEPT ![i] = r] /\ StillFree(r) /\ Whole(r)
  PROVE  Inv'
  <1>1. /\ op \in [Process -> Run \cup {None}] /\ op' = [op EXCEPT ![p] = o]
        /\ UNCHANGED <<files, key, events>>
    BY DEF Inv, Typed, Steps
  <1>2. /\ store \in [Id -> Record \cup {None}] /\ store' \in [Id -> Record \cup {None}]
        /\ \A i \in Id : store'[i] # None => StillFree(store'[i]) /\ Whole(store'[i])
    BY DEF Inv, Typed
  <1>3. Typed'
    BY <1>1, <1>2 DEF Inv, Typed
  <1>4. ASSUME NEW q \in Process, NEW c \in {op'[q]} \ {None} PROVE Sound(c)'
    <2>1. Sound(c)
      BY <1>1, <1>4 DEF Inv
    <2>. QED
      BY <1>1, <2>1, SoundKept
  <1>5. \A i \in Id : (store[i] # None => StillFree(store[i]) /\ Whole(store[i]))'
    BY <1>2 DEF StillFree, Whole, Moves, Opens, VerifyDevice
  <1>. QED
    BY <1>3, <1>4, <1>5 DEF Inv

\* A command under way.
LEMMA UnderWay ==
  ASSUME Inv, NEW p \in Process, op[p] # None
  PROVE  op[p] \in Run /\ Sound(op[p])
  BY DEF Inv, Typed

LEMMA DueInSources ==
  ASSUME NEW o \in Run, Sound(o), NEW m \in Due(o)
  PROVE  m \in DOMAIN o.sources /\ o.results[m] = None /\ m \in Modality
  BY RunFields DEF Due, Todo, Sound, Gated

LEMMA NewSound ==
  ASSUME NEW s \in Requests, NEW l \in BOOLEAN, NEW a \in BOOLEAN, NEW r \in Record,
         NEW does \in {"enroll", "verify"}, Typed,
         does = "enroll" => \E i \in Id : r = NewRecord(i, key, DOMAIN s, l)
  PROVE  Command(does, s, l, a, r) \in Run /\ Sound(Command(does, s, l, a, r))
  <1>. DEFINE o == Command(does, s, l, a, r)
  <1>1. /\ o \in Commands(s) /\ o.kind = does /\ o.sources = s /\ o.lenient = l
        /\ o.key = key /\ o.record = r
        /\ ~o.gated /\ o.verdict = None
        /\ \A m \in DOMAIN s : o.results[m] = None /\ o.probes[m] = None
    BY DEF Command, Commands, Typed
  <1>2. o \in Run
    BY <1>1 DEF Run
  <1>. HIDE DEF o
  <1>3. does = "verify" => Compared(o)
    BY <1>1 DEF Compared
  <1>4. does = "enroll" => Enrolled(o)
    <2>. SUFFICES ASSUME does = "enroll" PROVE Enrolled(o)
      OBVIOUS
    <2>1. PICK i \in Id : r = NewRecord(i, key, DOMAIN s, l)
      OBVIOUS
    <2>2. /\ r.binding = BindDevice(key) /\ r.asked = DOMAIN s /\ r.lenient = l
          /\ \A m \in Modality : r.templates[m] = None
      BY <2>1 DEF NewRecord
    <2>3. "video" \in Modality
      BY DEF Modality
    <2>. QED
      BY <1>1, <2>2, <2>3 DEF Enrolled, StillFree
  <1>5. Sound(o)
    BY <1>1, <1>3, <1>4 DEF Sound, Gated
  <1>. QED
    BY <1>2, <1>5 DEF o

LEMMA BeginKept ==
  ASSUME Inv, NEW p \in Process, Begin(p)
  PROVE  Inv'
  <1>1. PICK i \in Id, s \in Requests, l \in BOOLEAN :
           \/ BeginEnroll(p, i, s, l)
           \/ \E a \in BOOLEAN : BeginVerify(p, i, s, l, a)
    BY DEF Begin
  <1>2. CASE BeginEnroll(p, i, s, l)
    <2>. DEFINE r == NewRecord(i, key, DOMAIN s, l)
                o == Command("enroll", s, l, FALSE, r)
    <2>1. r \in Record
      <3>1. DOMAIN s \subseteq Modality /\ key \in Key
        BY RequestsAssumption DEF Inv, Typed
      <3>. QED
        BY <3>1 DEF NewRecord, Record
    <2>2. \E j \in Id : r = NewRecord(j, key, DOMAIN s, l)
      OBVIOUS
    <2>3. op' = [op EXCEPT ![p] = o] /\ UNCHANGED <<files, store, key, events>>
      BY <1>2 DEF BeginEnroll, Starts
    <2>. HIDE DEF r
    <2>4. o \in Run /\ Sound(o)
      BY <2>1, <2>2, NewSound DEF Inv
    <2>. HIDE DEF o
    <2>. QED
      BY <2>3, <2>4, Stepped DEF Steps
  <1>3. ASSUME NEW a \in BOOLEAN, BeginVerify(p, i, s, l, a) PROVE Inv'
    <2>. DEFINE o == Command("verify", s, l, a, store[i])
    <2>1. store[i] \in Record
      BY <1>3 DEF BeginVerify, Inv, Typed
    <2>2. op' = [op EXCEPT ![p] = o] /\ UNCHANGED <<files, store, key, events>>
      BY <1>3 DEF BeginVerify, Starts
    <2>3. o \in Run /\ Sound(o)
      BY <2>1, NewSound DEF Inv
    <2>. HIDE DEF o
    <2>. QED
      BY <2>2, <2>3, Stepped DEF Steps
  <1>. QED
    BY <1>1, <1>2, <1>3

LEMMA CarriedOver ==
  ASSUME NEW o, NEW n, SameCommand(n, o), n.record = o.record,
         (n.rewritten = o.rewritten) \/ n.rewritten, n.results = o.results,
         n.probes = o.probes, n.verdict = o.verdict
  PROVE  /\ Compared(o) => Compared(n)
         /\ Enrolled(o) => Enrolled(n)
  <1>1. \A m : Fits(n, m) <=> Fits(o, m)
    BY DEF Fits, SameCommand
  <1>2. Todo(n) = Todo(o) /\ n.sources = o.sources
    BY DEF Todo, SameCommand
  <1>3. Compared(o) => Compared(n)
    BY <1>1, <1>2 DEF Compared, SameCommand
  <1>4. Enrolled(o) => Enrolled(n)
    BY DEF Enrolled, SameCommand
  <1>. QED
    BY <1>3, <1>4

LEMMA GateKept ==
  ASSUME Inv, NEW p \in Process, NEW m \in Modality, Gate(p, m)
  PROVE  Inv'
  <1>. DEFINE o == op[p]
              n == [o EXCEPT !.gated = TRUE]
  <1>1. /\ m \in Due(o) /\ m = "video" /\ ~o.gated
        /\ Source(o, m) # Unreadable /\ Live(Source(o, m))
        /\ Steps(p, n) /\ UNCHANGED store
    BY DEF Gate, Gating
  <1>2. o # None
    BY <1>1 DEF Due
  <1>3. o \in Run /\ Sound(o)
    BY <1>2, UnderWay
  <1>. HIDE DEF o
  <1>4. /\ n \in Run /\ SameCommand(n, o) /\ n.gated
        /\ n.record = o.record /\ n.rewritten = o.rewritten
        /\ n.results = o.results /\ n.probes = o.probes /\ n.verdict = o.verdict
    BY <1>3, GateSet
  <1>. HIDE DEF n
  <1>5. m \in DOMAIN o.sources /\ o.results[m] = None
    BY <1>1, <1>3, DueInSources
  <1>6. Source(o, m) \in Sample
    BY <1>1, <1>3, <1>5, RunFields DEF Inv, Typed, Source
  <1>7. Sound(n)
    <2>1. Source(n, m) = Source(o, m) /\ Todo(n) = Todo(o)
      BY <1>4 DEF Source, Todo, SameCommand
    <2>2. Gated(n)
      BY <1>1, <1>4, <1>5, <1>6, <2>1 DEF Gated, Live, Moves, SameCommand
    <2>3. (Compared(o) => Compared(n)) /\ (Enrolled(o) => Enrolled(n))
      BY <1>4, CarriedOver
    <2>. QED
      BY <1>3, <1>4, <2>2, <2>3 DEF Sound, SameCommand
  <1>. QED
    BY <1>1, <1>4, <1>7, Stepped

\* A comparison, or the gate, decides one modality.
LEMMA Decided ==
  ASSUME NEW o \in Run, Compared(o), NEW m \in DOMAIN o.sources, o.results[m] = None,
         NEW n \in Run, SameCommand(n, o), n.record = o.record, n.rewritten = o.rewritten,
         n.verdict = o.verdict, NEW c \in Sample \cup {None},
         n.probes = [o.probes EXCEPT ![m] = c], n.results[m] \in BOOLEAN,
         \A k \in DOMAIN o.sources \ {m} : n.results[k] = o.results[k],
         n.results[m] <=> Fits(n, m),
         m = "video" /\ ~o.lenient /\ ~o.rewritten => c = None \/ Moves(c)
  PROVE  Compared(n)
  <1>1. /\ o.results \in [DOMAIN o.sources -> BOOLEAN \cup {None}]
        /\ o.probes \in [DOMAIN o.sources -> Sample \cup {None}]
    BY RunFields
  <1>2. o.verdict = None
    BY DEF Compared, Todo
  <1>3. ASSUME NEW k \in DOMAIN n.sources
        PROVE  IF n.results[k] = None THEN n.probes[k] = None
               ELSE n.results[k] <=> Fits(n, k)
    <2>1. CASE k = m
      BY <1>1, <2>1, NoneAssumption
    <2>2. CASE k # m
      <3>1. /\ k \in DOMAIN o.sources
            /\ n.results[k] = o.results[k] /\ n.probes[k] = o.probes[k]
        BY <1>1, <1>3, <2>2 DEF SameCommand
      <3>2. Fits(n, k) <=> Fits(o, k)
        BY <3>1 DEF Fits, SameCommand
      <3>. QED
        BY <3>1, <3>2 DEF Compared
    <2>. QED
      BY <2>1, <2>2
  <1>4. ASSUME ~n.lenient, ~n.rewritten, NEW k \in DOMAIN n.sources \cap {"video"}
        PROVE  n.probes[k] = None \/ Moves(n.probes[k])
    <2>1. k \in DOMAIN o.sources \cap {"video"} /\ ~o.lenient /\ ~o.rewritten
      BY <1>4 DEF SameCommand
    <2>2. CASE k = m
      BY <1>1, <2>1, <2>2
    <2>3. CASE k # m
      BY <1>1, <2>1, <2>3 DEF Compared
    <2>. QED
      BY <2>2, <2>3
  <1>. QED
    BY <1>2, <1>3, <1>4 DEF Compared

LEMMA GateFailsKept ==
  ASSUME Inv, NEW p \in Process, NEW m \in Modality, GateFails(p, m)
  PROVE  Inv'
  <1>. DEFINE o == op[p]
              n == [o EXCEPT !.results[m] = FALSE]
  <1>1. /\ m \in Due(o) /\ m = "video" /\ ~o.gated /\ o.kind = "verify"
        /\ Steps(p, n) /\ UNCHANGED store
    BY DEF GateFails, Gating
  <1>2. o # None
    BY <1>1 DEF Due
  <1>3. o \in Run /\ Sound(o)
    BY <1>2, UnderWay
  <1>. HIDE DEF o
  <1>4. m \in DOMAIN o.sources /\ o.results[m] = None
    BY <1>1, <1>3, DueInSources
  <1>5. /\ n \in Run /\ SameCommand(n, o)
        /\ n.results = [o.results EXCEPT ![m] = FALSE]
        /\ n.record = o.record /\ n.gated = o.gated /\ n.rewritten = o.rewritten
        /\ n.probes = o.probes /\ n.verdict = o.verdict
    BY <1>3, <1>4, ResultSet
  <1>. HIDE DEF n
  <1>6. Compared(o)
    BY <1>1, <1>3 DEF Sound
  <1>7. o.probes[m] = None
    BY <1>4, <1>6 DEF Compared
  <1>8. n.probes = [o.probes EXCEPT ![m] = None]
    BY <1>3, <1>4, <1>5, <1>7, RunFields
  <1>9. /\ ~Fits(n, m) /\ n.results[m] = FALSE
        /\ \A k \in DOMAIN o.sources \ {m} : n.results[k] = o.results[k]
    BY <1>3, <1>4, <1>5, <1>7, RunFields DEF Fits
  <1>10. Compared(n)
    BY <1>3, <1>4, <1>5, <1>6, <1>8, <1>9, Decided
  <1>11. Sound(n)
    BY <1>1, <1>5, <1>10 DEF Sound, Gated, SameCommand
  <1>. QED
    BY <1>1, <1>5, <1>11, Stepped

\* The reading that features are taken from follows the gate.
LEMMA GateFirst ==
  ASSUME Inv, NEW o \in Run, Sound(o), Extracting(o, "video"), ~o.lenient, ~o.rewritten
  PROVE  Moves(Source(o, "video"))
  BY DEF Extracting, Gating, Sound, Gated

LEMMA VerifyKept ==
  ASSUME Inv, NEW p \in Process, NEW m \in Modality, VerifyModality(p, m)
  PROVE  Inv'
  <1>. DEFINE o == op[p]
              t == o.record.templates[m]
  <1>1. /\ Extracting(o, m) /\ o.kind = "verify" /\ Source(o, m) # Unreadable
        /\ Opens(o.key, o.record.id, m, t) /\ UNCHANGED store
        /\ Steps(p, [o EXCEPT
               !.results[m] = <<t.vector.shows, Source(o, m).shows>> \in Alike,
               !.probes[m] = Source(o, m), !.gated = FALSE])
    BY DEF VerifyModality
  <1>2. o # None
    BY <1>1 DEF Extracting, Due
  <1>3. o \in Run /\ Sound(o)
    BY <1>2, UnderWay
  <1>. HIDE DEF o
  <1>4. m \in DOMAIN o.sources /\ o.results[m] = None
    BY <1>1, <1>3, DueInSources DEF Extracting
  <1>5. Source(o, m) \in Sample
    BY <1>1, <1>3, <1>4, RunFields DEF Inv, Typed, Source
  <1>6. t # None /\ t \in Template
    BY <1>1, <1>3, RunFields, RecordFields DEF Extracting, Has
  <1>7. t.key = o.key /\ t.id = o.record.id /\ t.modality = m
    BY <1>1 DEF Opens, Seal
  <1>8. m = "video" /\ ~o.lenient /\ ~o.rewritten => Moves(Source(o, m))
    BY <1>1, <1>3, GateFirst
  <1>. DEFINE c == Source(o, m)
              res == [o.results EXCEPT ![m] = <<t.vector.shows, c.shows>> \in Alike]
              pro == [o.probes EXCEPT ![m] = c]
              n == [o EXCEPT !.results = res, !.probes = pro, !.gated = FALSE]
  <1>9. Steps(p, n)
    BY <1>1, <1>3, RunDomain DEF CommandFields
  <1>10. /\ res \in [DOMAIN o.sources -> BOOLEAN \cup {None}]
         /\ pro \in [DOMAIN o.sources -> Sample \cup {None}] /\ pro[m] = c
         /\ res[m] \in BOOLEAN /\ (res[m] <=> <<t.vector.shows, c.shows>> \in Alike)
         /\ \A k \in DOMAIN o.sources \ {m} : res[k] = o.results[k]
    <2>1. /\ o.results \in [DOMAIN o.sources -> BOOLEAN \cup {None}]
          /\ o.probes \in [DOMAIN o.sources -> Sample \cup {None}]
      BY <1>3, RunFields
    <2>2. (<<t.vector.shows, c.shows>> \in Alike) \in BOOLEAN
      OBVIOUS
    <2>3. res \in [DOMAIN o.sources -> BOOLEAN \cup {None}]
      BY ONLY <1>4, <2>1, <2>2
    <2>4. res[m] = (<<t.vector.shows, c.shows>> \in Alike)
      BY ONLY <1>4, <2>1
    <2>5. res[m] \in BOOLEAN /\ (res[m] <=> <<t.vector.shows, c.shows>> \in Alike)
      BY ONLY <2>2, <2>4
    <2>6. pro \in [DOMAIN o.sources -> Sample \cup {None}] /\ pro[m] = c
      BY ONLY <1>4, <1>5, <2>1
    <2>7. \A k \in DOMAIN o.sources \ {m} : res[k] = o.results[k]
      BY ONLY <1>4, <2>1
    <2>. QED
      BY ONLY <2>3, <2>5, <2>6, <2>7
  <1>. HIDE DEF res, pro
  <1>11. /\ n \in Run /\ SameCommand(n, o) /\ ~n.gated /\ n.results = res /\ n.probes = pro
         /\ n.record = o.record /\ n.rewritten = o.rewritten /\ n.verdict = o.verdict
    <2>1. o.sources \in Requests /\ o \in Commands(o.sources)
      BY <1>3, RunFields
    <2>2. n \in Commands(o.sources)
      BY <1>10, <2>1 DEF Commands
    <2>3. n \in Run
      BY <2>1, <2>2 DEF Run
    <2>. QED
      BY <1>3, <2>3, RunDomain DEF CommandFields, SameCommand
  <1>. HIDE DEF n
  <1>12. n.results[m] <=> Fits(n, m)
    BY <1>5, <1>6, <1>7, <1>10, <1>11, NoneAssumption DEF Fits, SameCommand
  <1>13. Compared(o)
    BY <1>1, <1>3 DEF Sound
  <1>14. Compared(n)
    <2>1. n.probes = [o.probes EXCEPT ![m] = c]
      BY <1>11 DEF pro
    <2>2. \A k \in DOMAIN o.sources \ {m} : n.results[k] = o.results[k]
      BY <1>10, <1>11
    <2>. QED
      BY <1>3, <1>4, <1>5, <1>8, <1>10, <1>11, <1>12, <1>13, <2>1, <2>2, Decided
  <1>15. Sound(n)
    BY <1>1, <1>11, <1>14 DEF Sound, Gated, SameCommand
  <1>. QED
    BY <1>1, <1>9, <1>11, <1>15, Stepped

LEMMA EnrollKept ==
  ASSUME Inv, NEW p \in Process, NEW m \in Modality, EnrollModality(p, m)
  PROVE  Inv'
  <1>. DEFINE o == op[p]
              c == Source(o, m)
              t == Seal(o.key, o.record.id, m, c)
              n == EnrolledWith(o, m)
  <1>1. /\ Extracting(o, m) /\ o.kind = "enroll" /\ c # Unreadable
        /\ Steps(p, n) /\ UNCHANGED store
    BY DEF EnrollModality
  <1>2. o # None
    BY <1>1 DEF Extracting, Due
  <1>3. o \in Run /\ Sound(o)
    BY <1>2, UnderWay
  <1>. HIDE DEF o
  <1>4. m \in DOMAIN o.sources /\ o.results[m] = None
    BY <1>1, <1>3, DueInSources DEF Extracting
  <1>5. c \in Sample
    BY <1>1, <1>3, <1>4, RunFields DEF Inv, Typed, Source
  <1>6. /\ n \in Run /\ SameCommand(n, o) /\ ~n.gated
        /\ n.results = [o.results EXCEPT ![m] = TRUE]
        /\ n.probes = o.probes /\ n.rewritten = o.rewritten /\ n.verdict = o.verdict
        /\ n.record.id = o.record.id /\ n.record.binding = o.record.binding
        /\ n.record.templates = [o.record.templates EXCEPT ![m] = t]
        /\ n.record.asked = o.record.asked
        /\ n.record.lenient = (o.record.lenient \/ o.rewritten)
    BY <1>3, <1>4, <1>5, EnrolmentSet
  <1>7. t # None /\ t.vector = c /\ Opens(o.key, o.record.id, m, t)
    BY <1>3, <1>5, RunFields, RecordFields, Sealing, TemplateFields
  <1>8. m = "video" /\ ~o.lenient /\ ~o.rewritten => Moves(c)
    BY <1>1, <1>3, GateFirst
  <1>9. Enrolled(o)
    BY <1>1, <1>3 DEF Sound
  <1>10. /\ o.record.templates \in [Modality -> Template \cup {None}]
         /\ o.results \in [DOMAIN o.sources -> BOOLEAN \cup {None}]
         /\ o.record.lenient \in BOOLEAN /\ o.rewritten \in BOOLEAN
         /\ DOMAIN o.sources \subseteq Modality
    BY <1>3, RunFields, RecordFields
  <1>. HIDE DEF n, c, t
  <1>11. ASSUME NEW k \in Modality
         PROVE  IF k \in DOMAIN n.sources /\ n.results[k] # None
                THEN /\ n.record.templates[k] # None
                     /\ Opens(n.key, n.record.id, k, n.record.templates[k])
                ELSE n.record.templates[k] = None
    <2>1. CASE k = m
      <3>1. n.record.templates[m] = t
        BY <1>6, <1>10, <2>1
      <3>2. n.results[m] # None
        BY <1>4, <1>6, <1>10, NoneAssumption
      <3>3. n.sources = o.sources /\ n.key = o.key /\ n.record.id = o.record.id
        BY <1>6 DEF SameCommand
      <3>. QED
        BY <1>4, <1>7, <2>1, <3>1, <3>2, <3>3
    <2>2. CASE k # m
      <3>1. n.record.templates[k] = o.record.templates[k]
        BY <1>6, <1>10, <2>2
      <3>2. k \in DOMAIN o.sources => n.results[k] = o.results[k]
        BY <1>6, <1>10, <2>2
      <3>3. n.sources = o.sources /\ n.key = o.key /\ n.record.id = o.record.id
        BY <1>6 DEF SameCommand
      <3>. QED
        BY <1>9, <3>1, <3>2, <3>3 DEF Enrolled
    <2>. QED
      BY <2>1, <2>2
  <1>12. StillFree(n.record)
    <2>. SUFFICES ASSUME ~n.record.lenient, n.record.templates["video"] # None
                  PROVE  Moves(n.record.templates["video"].vector)
      BY DEF StillFree
    <2>1. ~o.record.lenient /\ ~o.rewritten /\ ~o.lenient /\ "video" \in Modality
      BY <1>6, <1>9 DEF Enrolled, Modality
    <2>2. CASE m = "video"
      BY <1>6, <1>7, <1>8, <1>10, <2>1, <2>2
    <2>3. CASE m # "video"
      BY <1>6, <1>9, <1>10, <2>1, <2>3 DEF Enrolled, StillFree
    <2>. QED
      BY <2>2, <2>3
  <1>13. Enrolled(n)
    <2>1. /\ n.verdict = None /\ \A k \in DOMAIN n.sources : n.probes[k] = None
          /\ n.record.binding = BindDevice(n.key) /\ n.record.asked = DOMAIN n.sources
          /\ n.lenient => n.record.lenient
      <3>1. n.sources = o.sources /\ n.key = o.key /\ n.lenient = o.lenient
        BY <1>6 DEF SameCommand
      <3>2. o.record.lenient => n.record.lenient
        BY <1>6
      <3>. QED
        BY <1>6, <1>9, <3>1, <3>2 DEF Enrolled
    <2>. QED
      BY <1>11, <1>12, <2>1 DEF Enrolled
  <1>14. Sound(n)
    BY <1>1, <1>6, <1>13 DEF Sound, Gated, SameCommand
  <1>. QED
    BY <1>1, <1>6, <1>14, Stepped

LEMMA SaveKept ==
  ASSUME Inv, NEW p \in Process, Save(p)
  PROVE  Inv'
  <1>. DEFINE o == op[p]
  <1>1. /\ o # None /\ o.kind = "enroll" /\ Todo(o) = {}
        /\ store' = [store EXCEPT ![o.record.id] = o.record] /\ Steps(p, None)
    BY DEF Save
  <1>2. o \in Run /\ Sound(o)
    BY <1>1, UnderWay
  <1>. HIDE DEF o
  <1>3. Enrolled(o)
    BY <1>1, <1>2 DEF Sound
  <1>4. o.record \in Record /\ o.record.id \in Id /\ o.key \in Key
    BY <1>2, RunFields, RecordFields
  <1>5. \A m \in DOMAIN o.sources : o.results[m] # None
    BY <1>1 DEF Todo
  <1>6. VerifyDevice(o.key, o.record.binding)
    BY <1>3 DEF Enrolled, VerifyDevice, BindDevice, Verifies, Bind
  <1>7. Whole(o.record)
    BY <1>3, <1>4, <1>5, <1>6 DEF Enrolled, Whole
  <1>8. StillFree(o.record)
    BY <1>3 DEF Enrolled
  <1>. QED
    BY <1>1, <1>4, <1>7, <1>8, Stepped

LEMMA DecideKept ==
  ASSUME Inv, NEW p \in Process, Decide(p)
  PROVE  Inv'
  <1>. DEFINE o == op[p]
              v == IF o.anyMatch THEN \E m \in DOMAIN o.results : o.results[m]
                   ELSE \A m \in DOMAIN o.results : o.results[m]
              n == [o EXCEPT !.verdict = v]
  <1>1. /\ o # None /\ o.kind = "verify" /\ Todo(o) = {} /\ o.verdict = None
        /\ Steps(p, n) /\ UNCHANGED store
    BY DEF Decide
  <1>2. o \in Run /\ Sound(o)
    BY <1>1, UnderWay
  <1>. HIDE DEF o
  <1>3. Compared(o)
    BY <1>1, <1>2 DEF Sound
  <1>4. \A m \in DOMAIN o.sources : o.results[m] \in BOOLEAN /\ (o.results[m] <=> Fits(o, m))
    <2>. TAKE m \in DOMAIN o.sources
    <2>1. o.results[m] # None
      BY <1>1 DEF Todo
    <2>. QED
      BY <1>2, <1>3, <2>1, RunFields DEF Compared
  <1>5. DOMAIN o.results = DOMAIN o.sources
    BY <1>2, RunFields
  <1>6. v \in BOOLEAN
    OBVIOUS
  <1>7. v <=> IF o.anyMatch THEN \E m \in DOMAIN o.sources : Fits(o, m)
              ELSE \A m \in DOMAIN o.sources : Fits(o, m)
    BY <1>4, <1>5
  <1>. HIDE DEF v
  <1>8. /\ n \in Run /\ SameCommand(n, o) /\ n.verdict = v
        /\ n.record = o.record /\ n.gated = o.gated /\ n.rewritten = o.rewritten
        /\ n.results = o.results /\ n.probes = o.probes
    BY <1>2, <1>6, VerdictSet
  <1>. HIDE DEF n
  <1>9. /\ Todo(n) = Todo(o) /\ \A m : Fits(n, m) <=> Fits(o, m)
        /\ Source(n, "video") = Source(o, "video")
    BY <1>8 DEF Todo, Fits, Source, SameCommand
  <1>10. Compared(n)
    BY <1>1, <1>3, <1>7, <1>8, <1>9 DEF Compared, SameCommand
  <1>11. Gated(n)
    BY <1>2, <1>8, <1>9 DEF Sound, Gated, SameCommand
  <1>12. Sound(n)
    BY <1>1, <1>8, <1>10, <1>11 DEF Sound, SameCommand
  <1>. QED
    BY <1>1, <1>8, <1>12, Stepped

LEMMA EndKept ==
  ASSUME Inv, NEW p \in Process, End(p) \/ \E m \in Modality : Refused(p, m)
  PROVE  Inv'
  <1>1. Steps(p, None) /\ UNCHANGED store
    BY DEF End, Refused
  <1>. QED
    BY <1>1, Stepped

-----------------------------------------------------------------------------
(* The surroundings *)

\* The store changes, and no command does.
LEMMA Edited ==
  ASSUME Inv, UNCHANGED <<files, op>>, key' \in Key,
         store' \in [Id -> Record \cup {None}],
         \A i \in Id : store'[i] # None => StillFree(store'[i]) /\ Whole(store'[i])
  PROVE  Inv'
  <1>1. Typed'
    BY DEF Inv, Typed
  <1>2. ASSUME NEW q \in Process, NEW c \in {op'[q]} \ {None} PROVE Sound(c)'
    <2>1. Sound(c)
      BY <1>2 DEF Inv
    <2>. QED
      BY <2>1, SoundKept
  <1>3. \A i \in Id : (store[i] # None => StillFree(store[i]) /\ Whole(store[i]))'
    BY DEF StillFree, Whole, Moves, Opens, VerifyDevice
  <1>. QED
    BY <1>1, <1>2, <1>3 DEF Inv

LEMMA StoreKept ==
  ASSUME Inv,
         \/ \E i \in Id : Delete(i)
         \/ \E i, j \in Id : Copy(i, j)
         \/ \E k \in Key : NewKeyring(k)
  PROVE  Inv'
  <1>1. /\ store \in [Id -> Record \cup {None}] /\ key \in Key
        /\ \A i \in Id : store[i] # None => StillFree(store[i]) /\ Whole(store[i])
    BY DEF Inv, Typed
  <1>2. /\ UNCHANGED <<files, op>> /\ key' \in Key
        /\ \/ store' = store
           \/ \E i \in Id : store' = [store EXCEPT ![i] = None]
           \/ \E i, j \in Id : store' = [store EXCEPT ![j] = store[i]]
    BY <1>1 DEF Delete, Copy, NewKeyring, Edit
  <1>3. store' \in [Id -> Record \cup {None}]
    BY <1>1, <1>2
  <1>4. \A i \in Id : store'[i] # None => StillFree(store'[i]) /\ Whole(store'[i])
    BY <1>1, <1>2
  <1>. QED
    BY <1>2, <1>3, <1>4, Edited

LEMMA TransplantKept ==
  ASSUME Inv, NEW i \in Id, NEW j \in Id, NEW m \in Modality, NEW n \in Modality,
         Transplant(i, m, j, n)
  PROVE  Inv'
  <1>1. /\ store \in [Id -> Record \cup {None}] /\ key \in Key
        /\ \A h \in Id : store[h] # None => StillFree(store[h]) /\ Whole(store[h])
    BY DEF Inv, Typed
  <1>2. /\ store[i] \in Record /\ store[j] \in Record /\ store[i].templates[m] # None
        /\ UNCHANGED <<files, op, key>>
    BY <1>1 DEF Transplant, Edit
  <1>. DEFINE t == store[i].templates[m]
              ts == [store[j].templates EXCEPT ![n] = t]
              r == [store[j] EXCEPT !.templates = ts, !.asked = {}, !.lenient = TRUE]
  <1>3. t \in Template
    BY <1>2, RecordFields
  <1>4. store' = [store EXCEPT ![j] = r]
    BY <1>1, <1>2 DEF Transplant, Record
  <1>. HIDE DEF t
  <1>5. ts \in [Modality -> Template \cup {None}]
    BY <1>2, <1>3, RecordFields
  <1>. HIDE DEF ts
  <1>6. r \in Record /\ r.asked = {} /\ r.lenient
    BY <1>2, <1>5 DEF Record
  <1>. HIDE DEF r
  <1>7. StillFree(r) /\ Whole(r)
    BY <1>6 DEF StillFree, Whole
  <1>8. /\ store' \in [Id -> Record \cup {None}]
        /\ \A h \in Id : store'[h] # None => StillFree(store'[h]) /\ Whole(store'[h])
    BY <1>1, <1>4, <1>6, <1>7
  <1>. QED
    BY <1>1, <1>2, <1>8, Edited

LEMMA FilmKept ==
  ASSUME Inv, NEW f \in Path, NEW c \in Captures[f] \cup {Unreadable}, Film(f, c)
  PROVE  Inv'
  <1>1. /\ files \in [Path -> Sample \cup {Unreadable}]
        /\ store \in [Id -> Record \cup {None}] /\ key \in Key
        /\ op \in [Process -> Run \cup {None}]
        /\ files' = [files EXCEPT ![f] = c] /\ UNCHANGED <<store, key>>
        /\ op' = [p \in Process |->
                     IF op[p] # None /\ op[p].gated /\ op[p].sources["video"] = f
                     THEN [op[p] EXCEPT !.rewritten = TRUE] ELSE op[p]]
    BY DEF Inv, Typed, Film
  <1>2. c \in Sample \cup {Unreadable}
    BY CapturesAssumption
  <1>3. ASSUME NEW p \in Process, op[p] # None
        PROVE  op'[p] \in Run /\ \A n \in {op'[p]} : Sound(n)'
    <2>. DEFINE o == op[p]
    <2>1. o \in Run /\ Sound(o)
      BY <1>3, UnderWay
    <2>2. op'[p] = IF o.gated /\ o.sources["video"] = f
                   THEN [o EXCEPT !.rewritten = TRUE] ELSE o
      BY <1>1, <1>3
    <2>. HIDE DEF o
    <2>3. ASSUME o.gated /\ o.sources["video"] = f, NEW n \in {op'[p]}
          PROVE  n \in Run /\ Sound(n)'
      <3>0. n = [o EXCEPT !.rewritten = TRUE]
        BY <2>2, <2>3
      <3>1. /\ n \in Run /\ SameCommand(n, o) /\ n.rewritten
            /\ n.record = o.record /\ n.gated = o.gated
            /\ n.results = o.results /\ n.probes = o.probes /\ n.verdict = o.verdict
        BY ONLY <2>1, <3>0, RewrittenSet
      <3>2. Gated(n)'
        BY <2>1, <3>1 DEF Sound, Gated, SameCommand
      <3>3. Compared(o) => Compared(n)'
        <4>1. \A m : Fits(n, m)' <=> Fits(o, m)
          BY <3>1 DEF Fits, SameCommand
        <4>2. Todo(n)' = Todo(o)
          BY <3>1 DEF Todo, SameCommand
        <4>. QED
          BY <3>1, <4>1, <4>2 DEF Compared, SameCommand
      <3>4. Enrolled(o) => Enrolled(n)'
        BY <3>1 DEF Enrolled, SameCommand, StillFree, Opens, Moves
      <3>. QED
        BY <2>1, <3>1, <3>2, <3>3, <3>4 DEF Sound, SameCommand
    <2>4. ASSUME ~(o.gated /\ o.sources["video"] = f), NEW n \in {op'[p]}
          PROVE  n \in Run /\ Sound(n)'
      <3>2. n = o
        BY <2>2, <2>4
      <3>3. Gated(n)'
        <4>. SUFFICES ASSUME n.gated PROVE Gated(n)'
          BY DEF Gated
        <4>1. "video" \in DOMAIN n.sources /\ n.sources["video"] \in Path
              /\ n.sources["video"] # f
          BY <2>1, <2>4, <3>2, RunFields DEF Sound, Gated
        <4>2. Source(n, "video")' = Source(n, "video")
          BY <1>1, <4>1 DEF Source
        <4>. QED
          BY <2>1, <3>2, <4>2 DEF Sound, Gated, Moves
      <3>4. Compared(n) => Compared(n)'
        BY DEF Compared, Fits, Todo, Moves
      <3>5. Enrolled(n) => Enrolled(n)'
        BY DEF Enrolled, StillFree, Opens, Moves
      <3>. QED
        BY <2>1, <3>2, <3>3, <3>4, <3>5 DEF Sound
    <2>. QED
      BY <2>3, <2>4
  <1>4. \A p \in Process : op[p] = None => op'[p] = None
    BY <1>1
  <1>5. op' \in [Process -> Run \cup {None}]
    BY <1>1, <1>3, <1>4
  <1>6. Typed'
    BY <1>1, <1>2, <1>5 DEF Typed
  <1>7. \A i \in Id : (store[i] # None => StillFree(store[i]) /\ Whole(store[i]))'
    BY <1>1 DEF Inv, StillFree, Whole, Moves, Opens, VerifyDevice
  <1>8. ASSUME NEW p \in Process, NEW n \in {op'[p]} \ {None} PROVE Sound(n)'
    BY <1>3, <1>4, <1>8
  <1>. QED
    BY <1>6, <1>7, <1>8 DEF Inv

-----------------------------------------------------------------------------

LEMMA InitInv == Init => Inv
  <1>. SUFFICES ASSUME Init PROVE Inv
    OBVIOUS
  <1>1. files \in [Path -> Sample \cup {Unreadable}]
    BY CapturesAssumption DEF Init
  <1>2. Typed
    BY <1>1 DEF Init, Typed
  <1>. QED
    BY <1>2 DEF Init, Inv

LEMMA NextInv == Inv /\ [Next]_vars => Inv'
  <1>. SUFFICES ASSUME Inv, [Next]_vars PROVE Inv'
    OBVIOUS
  <1>1. ASSUME NEW p \in Process, Begin(p) \/ Save(p) \/ Decide(p) \/ End(p) PROVE Inv'
    BY <1>1, BeginKept, SaveKept, DecideKept, EndKept
  <1>2. ASSUME NEW p \in Process, NEW m \in Modality,
               \/ Gate(p, m) \/ GateFails(p, m) \/ EnrollModality(p, m)
               \/ VerifyModality(p, m) \/ Refused(p, m)
        PROVE  Inv'
    BY <1>2, GateKept, GateFailsKept, EnrollKept, VerifyKept, EndKept
  <1>3. CASE \/ \E i \in Id : Delete(i)
             \/ \E i, j \in Id : Copy(i, j)
             \/ \E k \in Key : NewKeyring(k)
    BY <1>3, StoreKept
  <1>4. ASSUME NEW i \in Id, NEW j \in Id, NEW m \in Modality, NEW n \in Modality,
               Transplant(i, m, j, n)
        PROVE  Inv'
    BY <1>4, TransplantKept
  <1>5. ASSUME NEW f \in Path, NEW c \in Captures[f] \cup {Unreadable}, Film(f, c)
        PROVE  Inv'
    BY <1>5, FilmKept
  <1>6. CASE UNCHANGED vars
    BY <1>6, Edited DEF vars, Inv, Typed
  <1>. QED
    BY <1>1, <1>2, <1>3, <1>4, <1>5, <1>6 DEF Next

LEMMA AlwaysInv == Spec => []Inv
  BY InitInv, NextInv, PTL DEF Spec

\* What a user is told of an identity is what captures and enrolment say, for
\* any number of commands and identities, whatever becomes of keyring, store
\* and captures meanwhile (verification.verify_modality, biometrics/app.py).
THEOREM VerdictsExact == Spec => []VerdictExact
  <1>1. Inv => VerdictExact
    <2>. SUFFICES ASSUME Inv, NEW p \in Process, op[p] # None, op[p].verdict # None
                  PROVE  LET o == op[p]
                             Suits(m) == \E t \in {o.record.templates[m]} :
                                /\ o.probes[m] # None /\ t # None
                                /\ t.key = o.key /\ t.id = o.record.id /\ t.modality = m
                                /\ <<t.vector.shows, o.probes[m].shows>> \in Alike
                         IN  o.verdict <=> IF o.anyMatch
                                           THEN \E m \in DOMAIN o.sources : Suits(m)
                                           ELSE \A m \in DOMAIN o.sources : Suits(m)
      BY DEF VerdictExact
    <2>. DEFINE o == op[p]
                Suits(m) == \E t \in {o.record.templates[m]} :
                   /\ o.probes[m] # None /\ t # None
                   /\ t.key = o.key /\ t.id = o.record.id /\ t.modality = m
                   /\ <<t.vector.shows, o.probes[m].shows>> \in Alike
                one == \E m \in DOMAIN o.sources : Suits(m)
                all == \A m \in DOMAIN o.sources : Suits(m)
    <2>1. o \in Run /\ Sound(o) /\ o.verdict # None
      BY UnderWay
    <2>. SUFFICES o.verdict <=> IF o.anyMatch THEN one ELSE all
      OBVIOUS
    <2>. HIDE DEF o
    <2>2. Compared(o)
      BY <2>1, RunFields DEF Sound, Enrolled
    <2>3. \A m : Suits(m) <=> Fits(o, m)
      BY DEF Fits
    <2>. HIDE DEF Suits
    <2>4. /\ one <=> \E m \in DOMAIN o.sources : Fits(o, m)
          /\ all <=> \A m \in DOMAIN o.sources : Fits(o, m)
      BY <2>3
    <2>. HIDE DEF one, all
    <2>. QED
      BY <2>1, <2>2, <2>4 DEF Compared
  <1>. QED
    BY <1>1, AlwaysInv, PTL

\* A still clip neither becomes a template nor is compared, unless the user
\* allows it or the file is written after the gate (liveness.assess_liveness).
THEOREM StillsNeverTaken == Spec => []StillsRefused
  <1>1. Inv => StillsRefused
    <2>. SUFFICES ASSUME Inv PROVE StillsRefused
      OBVIOUS
    <2>1. \A i \in Id :
             store[i] # None /\ ~store[i].lenient /\ store[i].templates["video"] # None
                => Moves(store[i].templates["video"].vector)
      BY DEF Inv, StillFree
    <2>2. ASSUME NEW p \in Process, op[p] # None, ~op[p].lenient, ~op[p].rewritten,
                 NEW m \in DOMAIN op[p].sources \cap {"video"}
          PROVE  op[p].probes[m] = None \/ Moves(op[p].probes[m])
      <3>1. op[p] \in Run /\ Sound(op[p])
        BY <2>2, UnderWay
      <3>2. CASE op[p].kind = "verify"
        BY <2>2, <3>1, <3>2 DEF Sound, Compared
      <3>3. CASE op[p].kind = "enroll"
        BY <2>2, <3>1, <3>3 DEF Sound, Enrolled
      <3>. QED
        BY <3>1, <3>2, <3>3, RunFields
    <2>. QED
      BY <2>1, <2>2 DEF StillsRefused
  <1>. QED
    BY <1>1, AlwaysInv, PTL

\* A stored enrolment has the templates it was asked for and no other, sealed
\* under one key and its own identity, and its device binding is of that key
\* (enrollment.enroll_modality; the save at the end of the command).
THEOREM EnrolmentsWhole == Spec => []EnrolledWhole
  <1>1. Inv => EnrolledWhole
    BY DEF Inv, Whole, EnrolledWhole
  <1>. QED
    BY <1>1, AlwaysInv, PTL

-----------------------------------------------------------------------------
(* Devices *)

\* Where a call of each kind of driver can be, and what it then has.
Placed ==
    /\ kind = "camera" => /\ call.pc \in {"rest", "profile", "uri"}
                          /\ ~driver.open /\ driver.name = Nothing
    /\ kind # "camera" => /\ call.pc \notin {"profile", "uri"}
                          /\ driver.media = Nothing /\ driver.snapshot = Nothing
    /\ call.pc \in {"list", "open"} => driver.open
    /\ call.pc = "open" => kind = "scanner" /\ call.found # Nothing
    /\ call.pc \in {"link", "atr", "transmit"} => kind = "reader" /\ driver.name # Nothing
    /\ call.pc = "capture" => kind = "scanner" /\ driver.name # Nothing
    /\ driver.name # Nothing => driver.open
    /\ call.pc \notin {"list", "open"} => (driver.open => driver.name # Nothing)

\* The session and the device that the binding has open are the driver's.
Opened ==
    /\ driver.open => binding.sessions >= 1
    /\ ~twice /\ ~unreleased => binding.sessions = IF driver.open THEN 1 ELSE 0
    /\ kind = "scanner" /\ call.pc \in {"rest", "capture"} /\ driver.name # Nothing
          => binding.device = driver.name
    /\ call.pc = "rest" => driver.snapshot = driver.media

Reading == call.pc \in {"link", "atr", "transmit", "capture"}

\* What a reading has seen so far was on the device while it lasted: the card
\* that the binding holds is the one whose ATR was read, or is gone.
Watched ==
    /\ Reading => OnDevice \in witnessed \cup {Nothing}
    /\ call.pc \in {"atr", "transmit"} => binding.card \in witnessed \cup {Nothing}
    /\ call.pc = "transmit" => binding.card \in {call.atr, Nothing}
    /\ OneObjectPerRead

DriverInv == DriverTypeOK /\ Placed /\ Opened /\ Watched

LEMMA DriverParts ==
  ASSUME DriverTypeOK
  PROVE  /\ driver.open \in BOOLEAN /\ driver.name \in Names \cup {Nothing}
         /\ driver.media \in Addresses \cup {Nothing}
         /\ driver.snapshot \in Addresses \cup {Nothing}
         /\ call.pc \in Stage /\ call.found \in Names \cup {Nothing}
         /\ call.attempt \in 0..RetryCount /\ call.atr \in Objects \cup {Nothing}
         /\ binding.sessions \in Nat /\ binding.device \in Names \cup {Nothing}
         /\ binding.card \in Objects \cup {Nothing}
         /\ OnDevice \in Objects \cup {Nothing}
  <1>1. /\ driver.open \in BOOLEAN /\ driver.name \in Names \cup {Nothing}
        /\ driver.media \in Addresses \cup {Nothing}
        /\ driver.snapshot \in Addresses \cup {Nothing}
    BY DEF DriverTypeOK, Fields
  <1>2. /\ call.pc \in Stage /\ call.found \in Names \cup {Nothing}
        /\ call.attempt \in 0..RetryCount /\ call.atr \in Objects \cup {Nothing}
    BY DEF DriverTypeOK, Calls
  <1>3. /\ binding.sessions \in Nat /\ binding.device \in Names \cup {Nothing}
        /\ binding.card \in Objects \cup {Nothing}
    BY DEF DriverTypeOK, Bindings
  <1>4. OnDevice \in Objects \cup {Nothing}
    BY DEF DriverTypeOK, OnDevice
  <1>. QED
    BY <1>1, <1>2, <1>3, <1>4

LEMMA RestTyped ==
  /\ Rest \in Calls /\ Rest.pc = "rest" /\ Disconnected \in Fields
  /\ ~Disconnected.open /\ Disconnected.name = Nothing
  /\ Disconnected.media = Nothing /\ Disconnected.snapshot = Nothing
  <1>1. Rest \in Calls /\ Rest.pc = "rest"
    BY DriverAssumption DEF Rest, Calls, Stage
  <1>. QED
    BY <1>1 DEF Disconnected, Fields

LEMMA GoneTo ==
  ASSUME call \in Calls, NEW pc \in Stage, Goto(pc)
  PROVE  /\ call' \in Calls /\ call'.pc = pc
         /\ call'.found = call.found /\ call'.atr = call.atr
  BY DEF Calls, Goto

LEMMA FoundNow ==
  ASSUME call \in Calls, NEW n \in Names,
         call' = [call EXCEPT !.pc = "open", !.found = n]
  PROVE  call' \in Calls /\ call'.pc = "open" /\ call'.found = n
  <1>. "open" \in Stage
    BY DEF Stage
  <1>. QED
    BY DEF Calls

LEMMA AtrNow ==
  ASSUME call \in Calls, NEW o \in Objects,
         call' = [call EXCEPT !.pc = "transmit", !.atr = o]
  PROVE  call' \in Calls /\ call'.pc = "transmit" /\ call'.atr = o
  <1>. "transmit" \in Stage
    BY DEF Stage
  <1>. QED
    BY DEF Calls

\* An attempt that fails begins anew or is the last.
LEMMA AttemptOver ==
  ASSUME call \in Calls, NEW first \in Stage, AttemptFails(first)
  PROVE  call' \in Calls /\ call'.pc \in {first, "rest"}
  <1>1. CASE call.attempt < RetryCount
    <2>1. call.attempt + 1 \in 0..RetryCount
      BY <1>1, DriverAssumption DEF Calls
    <2>2. call' = [call EXCEPT !.pc = first, !.attempt = @ + 1]
      BY <1>1 DEF AttemptFails
    <2>. QED
      BY <2>1, <2>2 DEF Calls
  <1>2. CASE ~(call.attempt < RetryCount)
    BY <1>2, RestTyped DEF AttemptFails
  <1>. QED
    BY <1>1, <1>2

SameMedia == driver'.media = driver.media /\ driver'.snapshot = driver.snapshot

LEMMA NameSet ==
  ASSUME driver \in Fields, NEW n \in Names, driver' = [driver EXCEPT !.name = n]
  PROVE  /\ driver' \in Fields /\ driver'.open = driver.open /\ driver'.name = n
         /\ SameMedia
  BY DEF Fields, SameMedia

LEMMA OpenSet ==
  ASSUME driver \in Fields, driver' = [driver EXCEPT !.open = TRUE]
  PROVE  /\ driver' \in Fields /\ driver'.open /\ driver'.name = driver.name
         /\ SameMedia
  BY DEF Fields, SameMedia

LEMMA MediaSet ==
  ASSUME driver \in Fields, NEW a \in Addresses, driver' = [driver EXCEPT !.media = a]
  PROVE  driver' \in Fields /\ driver'.open = driver.open /\ driver'.name = driver.name
  BY DEF Fields

LEMMA SnapshotSet ==
  ASSUME driver \in Fields, driver' = [driver EXCEPT !.snapshot = driver.media]
  PROVE  /\ driver' \in Fields /\ driver'.open = driver.open /\ driver'.name = driver.name
         /\ driver'.snapshot = driver'.media
  BY DEF Fields

LEMMA SessionAdded ==
  ASSUME binding \in Bindings, binding' = [binding EXCEPT !.sessions = @ + 1]
  PROVE  binding' \in Bindings /\ binding'.sessions = binding.sessions + 1
  BY DEF Bindings

LEMMA DeviceSet ==
  ASSUME binding \in Bindings, NEW n \in Names, binding' = [binding EXCEPT !.device = n]
  PROVE  /\ binding' \in Bindings /\ binding'.sessions = binding.sessions
         /\ binding'.device = n
  BY DEF Bindings

LEMMA CardSet ==
  ASSUME binding \in Bindings, NEW o \in Objects \cup {Nothing},
         binding' = [binding EXCEPT !.card = o]
  PROVE  /\ binding' \in Bindings /\ binding'.sessions = binding.sessions
         /\ binding'.device = binding.device /\ binding'.card = o
  BY DEF Bindings

LEMMA DriverInitInv == DriverInit => DriverInv
  <1>. SUFFICES ASSUME DriverInit PROVE DriverInv
    OBVIOUS
  <1>1. DriverTypeOK
    <2>1. binding \in Bindings /\ driver \in Fields /\ call \in Calls
      BY RestTyped DEF DriverInit, Bindings
    <2>. QED
      BY <2>1 DEF DriverInit, DriverTypeOK
  <1>2. binding.sessions = 0 /\ binding.card = Nothing
    BY DEF DriverInit
  <1>3. Placed /\ Opened /\ Watched
    BY <1>2, RestTyped
       DEF DriverInit, Placed, Opened, Watched, Reading, OneObjectPerRead
  <1>. QED
    BY <1>1, <1>3 DEF DriverInv

LEMMA TeardownKeeps ==
  ASSUME DriverInv, kind # "camera", call.pc \in {"rest", "list", "open"}, Teardown,
         UNCHANGED <<kind, world, returned, witnessed, twice>>
  PROVE  DriverInv'
  <1>0. DriverTypeOK /\ driver' = Disconnected /\ call' = Rest
    BY DEF DriverInv, Teardown
  <1>1. \E closes, releases \in BOOLEAN :
          /\ binding' \in Bindings
          /\ binding'.sessions = IF driver.open /\ releases THEN binding.sessions - 1
                                 ELSE binding.sessions
          /\ unreleased' = (unreleased \/ (driver.open /\ ~releases))
    <2>1. PICK closes \in BOOLEAN, releases \in BOOLEAN :
          /\ binding' =
               [sessions |-> IF driver.open /\ releases THEN binding.sessions - 1
                             ELSE binding.sessions,
                device |-> IF closes THEN Nothing ELSE binding.device,
                card |-> IF closes THEN Nothing ELSE binding.card]
          /\ unreleased' = (unreleased \/ (driver.open /\ ~releases))
      BY DEF Teardown
    <2>2. (IF driver.open /\ releases THEN binding.sessions - 1
           ELSE binding.sessions) \in Nat
      BY <1>0, DriverParts DEF DriverInv, Opened
    <2>3. binding' \in Bindings
      BY <1>0, <2>1, <2>2, DriverParts DEF Bindings
    <2>. QED
      BY <2>1, <2>3
  <1>2. DriverTypeOK'
    BY <1>0, <1>1, RestTyped DEF DriverTypeOK, world
  <1>3. Placed'
    BY <1>0, RestTyped DEF DriverInv, Placed
  <1>4. Opened'
    BY <1>0, <1>1, DriverParts, RestTyped DEF DriverInv, Opened, DriverTypeOK
  <1>5. Watched'
    BY <1>0, RestTyped DEF DriverInv, Watched, Reading, OneObjectPerRead
  <1>. QED
    BY <1>2, <1>3, <1>4, <1>5 DEF DriverInv

LEMMA DriverNextInv == DriverInv /\ [DriverNext]_driverVars => DriverInv'
  <1>. SUFFICES ASSUME DriverInv, [DriverNext]_driverVars PROVE DriverInv'
    OBVIOUS
  <1>. USE DriverAssumption
  <1>0. DriverTypeOK /\ Placed /\ Opened /\ Watched
    BY DEF DriverInv
  <1>1. CASE Connect
    <2>1. /\ call' \in Calls /\ call'.pc = "list"
          /\ driver' \in Fields /\ driver'.open /\ driver'.name = driver.name
          /\ SameMedia
          /\ binding' \in Bindings /\ binding'.sessions = binding.sessions + 1
      BY <1>0, <1>1, GoneTo, OpenSet, SessionAdded DEF DriverTypeOK, Connect, Stage
    <2>2. /\ kind # "camera" /\ call.pc = "rest" /\ twice' = (twice \/ driver.open)
          /\ UNCHANGED <<kind, attached, present, address, returned, witnessed, unreleased>>
      BY <1>1 DEF Connect, world
    <2>3. DriverTypeOK'
      BY <1>0, <2>1, <2>2 DEF DriverTypeOK
    <2>4. Placed'
      BY <1>0, <2>1, <2>2 DEF Placed, SameMedia
    <2>5. Opened'
      BY <1>0, <2>1, <2>2, DriverParts DEF Opened, SameMedia, DriverTypeOK
    <2>6. Watched'
      BY <1>0, <2>1, <2>2 DEF Watched, Reading, OneObjectPerRead
    <2>. QED
      BY <2>3, <2>4, <2>5, <2>6 DEF DriverInv
  <1>2. CASE FindName
    <2>1. /\ UNCHANGED <<kind, binding, attached, present, address, returned, witnessed,
                         twice, unreleased>>
          /\ call.pc = "list"
      BY <1>2 DEF FindName, world, history
    <2>2. PICK n \in Names :
             \/ /\ kind = "reader"
                /\ driver' = [driver EXCEPT !.name = n]
                /\ call' = Rest
             \/ /\ kind = "scanner"
                /\ call' = [call EXCEPT !.pc = "open", !.found = n]
                /\ UNCHANGED driver
      BY <1>0, <1>2 DEF FindName, DriverTypeOK
    <2>3. CASE kind = "reader"
      <3>1. /\ call' \in Calls /\ call'.pc = "rest"
            /\ driver' \in Fields /\ driver'.open = driver.open /\ driver'.name = n
            /\ SameMedia
        BY <1>0, <2>2, <2>3, RestTyped, NameSet DEF DriverTypeOK
      <3>2. DriverTypeOK'
        BY <1>0, <2>1, <3>1 DEF DriverTypeOK
      <3>3. Placed' /\ Opened'
        BY <1>0, <2>1, <2>3, <3>1 DEF Placed, Opened, SameMedia
      <3>4. Watched'
        BY <1>0, <2>1, <3>1 DEF Watched, Reading, OneObjectPerRead
      <3>. QED
        BY <3>2, <3>3, <3>4 DEF DriverInv
    <2>4. CASE kind = "scanner"
      <3>1. /\ call' \in Calls /\ call'.pc = "open" /\ call'.found = n
            /\ driver' = driver
        BY <1>0, <2>2, <2>4, FoundNow DEF DriverTypeOK
      <3>2. DriverTypeOK'
        BY <1>0, <2>1, <3>1 DEF DriverTypeOK
      <3>3. Placed' /\ Opened'
        BY <1>0, <2>1, <2>4, <3>1 DEF Placed, Opened
      <3>4. Watched'
        BY <1>0, <2>1, <3>1 DEF Watched, Reading, OneObjectPerRead
      <3>. QED
        BY <3>2, <3>3, <3>4 DEF DriverInv
    <2>. QED
      BY <2>2, <2>3, <2>4
  <1>3. CASE OpenDevice
    <2>1. /\ UNCHANGED <<kind, attached, present, address, returned, witnessed, twice,
                         unreleased>>
          /\ call.pc = "open" /\ call.found \in Names
      BY <1>0, <1>3 DEF OpenDevice, DriverTypeOK, world, history
    <2>2. /\ call' \in Calls /\ call'.pc = "rest"
          /\ driver' \in Fields /\ driver'.open = driver.open /\ driver'.name = call.found
          /\ SameMedia
          /\ binding' \in Bindings /\ binding'.sessions = binding.sessions
          /\ binding'.device = call.found
      BY <1>0, <1>3, <2>1, RestTyped, NameSet, DeviceSet DEF DriverTypeOK, OpenDevice
    <2>3. DriverTypeOK'
      BY <1>0, <2>1, <2>2 DEF DriverTypeOK
    <2>4. Placed' /\ Opened'
      BY <1>0, <2>1, <2>2 DEF Placed, Opened, SameMedia
    <2>5. Watched'
      BY <1>0, <2>1, <2>2 DEF Watched, Reading, OneObjectPerRead
    <2>. QED
      BY <2>3, <2>4, <2>5 DEF DriverInv
  <1>4. CASE ConnectFails \/ Disconnect
    BY <1>4, TeardownKeeps DEF ConnectFails, Disconnect
  <1>5. CASE ReadCard \/ Scan
    <2>1. /\ UNCHANGED <<kind, driver, binding, attached, present, address, twice,
                         unreleased>>
          /\ call.pc = "rest" /\ driver.name # Nothing /\ OnDevice' = OnDevice
          /\ returned' = Nothing /\ witnessed' = {OnDevice} \ {Nothing}
      BY <1>5 DEF ReadCard, Scan, OnDevice, world
    <2>2. /\ call' \in Calls
          /\ \/ kind = "reader" /\ call'.pc = "link"
             \/ kind = "scanner" /\ call'.pc = "capture"
      BY <1>0, <1>5, GoneTo DEF ReadCard, Scan, DriverTypeOK, Stage
    <2>3. DriverTypeOK'
      BY <1>0, <2>1, <2>2, DriverParts DEF DriverTypeOK
    <2>4. Placed' /\ Opened'
      BY <1>0, <2>1, <2>2 DEF Placed, Opened
    <2>5. Watched'
      BY <2>1, <2>2 DEF Watched, Reading, OneObjectPerRead
    <2>. QED
      BY <2>3, <2>4, <2>5 DEF DriverInv
  <1>6. CASE Link
    <2>1. /\ UNCHANGED <<kind, driver, attached, present, address, returned, witnessed,
                         twice, unreleased>>
          /\ call.pc = "link" /\ OnDevice' = OnDevice /\ OnDevice \in Objects
      BY <1>0, <1>6, DriverParts DEF Link, OnDevice, world, history
    <2>2. /\ call' \in Calls /\ call'.pc = "atr"
          /\ binding' \in Bindings /\ binding'.sessions = binding.sessions
          /\ binding'.device = binding.device /\ binding'.card = OnDevice
      BY <1>0, <1>6, <2>1, GoneTo, CardSet DEF Link, DriverTypeOK, Stage
    <2>3. DriverTypeOK'
      BY <1>0, <2>1, <2>2 DEF DriverTypeOK
    <2>4. Placed' /\ Opened'
      BY <1>0, <2>1, <2>2 DEF Placed, Opened
    <2>5. Watched'
      BY <1>0, <2>1, <2>2 DEF Watched, Reading, OneObjectPerRead
    <2>. QED
      BY <2>3, <2>4, <2>5 DEF DriverInv
  <1>7. CASE GetAtr
    <2>1. /\ UNCHANGED <<kind, driver, binding, attached, present, address, returned,
                         witnessed, twice, unreleased>>
          /\ call.pc = "atr" /\ OnDevice' = OnDevice /\ binding.card \in Objects
      BY <1>0, <1>7, DriverParts DEF GetAtr, OnDevice, world, history
    <2>2. call' \in Calls /\ call'.pc = "transmit" /\ call'.atr = binding.card
      BY <1>0, <1>7, <2>1, AtrNow DEF GetAtr, DriverTypeOK
    <2>3. DriverTypeOK'
      BY <1>0, <2>1, <2>2 DEF DriverTypeOK
    <2>4. Placed' /\ Opened'
      BY <1>0, <2>1, <2>2 DEF Placed, Opened
    <2>5. Watched'
      BY <1>0, <2>1, <2>2 DEF Watched, Reading, OneObjectPerRead
    <2>. QED
      BY <2>3, <2>4, <2>5 DEF DriverInv
  \* What is returned was on the device.
  <1>8. CASE Transmit \/ Capture
    <2>1. /\ UNCHANGED <<kind, driver, binding, attached, present, address, witnessed,
                         twice, unreleased>>
          /\ call.pc \in {"transmit", "capture"} /\ call' = Rest
      BY <1>8 DEF Transmit, Capture, world
    <2>2. \E o \in Objects : returned' = [atr |-> o, uid |-> o] /\ o \in witnessed
      <3>1. CASE Transmit
        BY <1>0, <3>1, DriverParts DEF Transmit, Watched
      <3>2. CASE Capture
        BY <1>0, <3>2, DriverParts DEF Capture, Watched, Reading
      <3>. QED
        BY <1>8, <3>1, <3>2
    <2>3. DriverTypeOK'
      BY <1>0, <2>1, <2>2, RestTyped DEF DriverTypeOK
    <2>4. Placed' /\ Opened'
      BY <1>0, <2>1, RestTyped DEF Placed, Opened
    <2>5. Watched'
      BY <2>1, <2>2, RestTyped DEF Watched, Reading, OneObjectPerRead
    <2>. QED
      BY <2>3, <2>4, <2>5 DEF DriverInv
  <1>9. CASE ReadFails \/ ScanFails
    <2>1. /\ UNCHANGED <<kind, driver, binding, attached, present, address, returned,
                         witnessed, twice, unreleased>>
          /\ OnDevice' = OnDevice /\ Reading
      BY <1>9 DEF ReadFails, ScanFails, OnDevice, Reading, world, history
    <2>2. /\ call' \in Calls
          /\ \/ call'.pc = "rest"
             \/ call'.pc = "link" /\ call.pc \in {"link", "atr", "transmit"}
             \/ call'.pc = "capture" /\ call.pc = "capture"
      BY <1>0, <1>9, AttemptOver DEF ReadFails, ScanFails, DriverTypeOK, Stage
    <2>3. DriverTypeOK'
      BY <1>0, <2>1, <2>2 DEF DriverTypeOK
    <2>4. Placed' /\ Opened'
      BY <1>0, <2>1, <2>2 DEF Placed, Opened, Reading
    <2>5. Watched'
      BY <1>0, <2>1, <2>2 DEF Watched, Reading, OneObjectPerRead
    <2>. QED
      BY <2>3, <2>4, <2>5 DEF DriverInv
  <1>10. CASE Discover \/ GetProfile \/ GetUri \/ CameraCleared
    <2>1. /\ UNCHANGED <<kind, binding, attached, present, address, returned, witnessed,
                         twice, unreleased>>
          /\ kind = "camera"
      BY <1>0, <1>10, DriverParts DEF Discover, GetProfile, GetUri, CameraCleared, Placed, Stage,
                         world, history, DriverTypeOK
    <2>2. /\ call' \in Calls /\ driver' \in Fields
          /\ ~driver'.open /\ driver'.name = Nothing
          /\ \/ call'.pc \in {"profile", "uri"}
             \/ call'.pc = "rest" /\ driver'.snapshot = driver'.media
      <3>1. CASE Discover
        BY <1>0, <2>1, <3>1, GoneTo, MediaSet DEF Discover, DriverTypeOK, Placed, Stage
      <3>2. CASE GetProfile
        BY <1>0, <2>1, <3>2, GoneTo DEF GetProfile, DriverTypeOK, Placed, Stage
      <3>3. CASE GetUri
        BY <1>0, <2>1, <3>3, RestTyped, SnapshotSet DEF GetUri, DriverTypeOK, Placed
      <3>4. CASE CameraCleared
        BY <3>4, RestTyped DEF CameraCleared
      <3>. QED
        BY <1>10, <3>1, <3>2, <3>3, <3>4
    <2>3. DriverTypeOK'
      BY <1>0, <2>1, <2>2 DEF DriverTypeOK
    <2>4. Placed'
      BY <1>0, <2>1, <2>2 DEF Placed
    <2>5. Opened'
      BY <1>0, <2>1, <2>2 DEF Placed, Opened
    <2>6. Watched'
      BY <1>0, <2>1, <2>2 DEF Watched, Reading, OneObjectPerRead
    <2>. QED
      BY <2>3, <2>4, <2>5, <2>6 DEF DriverInv
  <1>11. CASE Reconfigure
    <2>1. /\ UNCHANGED <<kind, driver, call, binding, attached, present, returned,
                         witnessed, twice, unreleased>>
          /\ address' \in Addresses /\ OnDevice' = OnDevice
      BY <1>11 DEF Reconfigure, OnDevice, history
    <2>. QED
      BY <1>0, <2>1 DEF DriverInv, DriverTypeOK, Placed, Opened, Watched, Reading, OneObjectPerRead
  <1>12. ASSUME NEW n \in Names, Lift(n) \/ Unplug(n) PROVE DriverInv'
    <2>1. /\ UNCHANGED <<kind, driver, call, address, returned, witnessed, twice, unreleased>>
          /\ attached' \subseteq Names /\ present' \in [Names -> Objects \cup {Nothing}]
          /\ OnDevice' \in {OnDevice, Nothing}
      BY <1>0, <1>12 DEF DriverTypeOK, Lift, Unplug, OnDevice, history
    <2>2. /\ binding' \in Bindings /\ binding'.sessions = binding.sessions
          /\ binding'.device = binding.device /\ binding'.card \in {binding.card, Nothing}
      <3>1. PICK o \in {binding.card, Nothing} : binding' = [binding EXCEPT !.card = o]
        BY <1>12 DEF Lift, Unplug, Cut
      <3>. QED
        BY <1>0, <3>1, CardSet, DriverParts DEF DriverTypeOK
    <2>3. DriverTypeOK'
      BY <1>0, <2>1, <2>2 DEF DriverTypeOK
    <2>4. Placed' /\ Opened'
      BY <1>0, <2>1, <2>2 DEF Placed, Opened
    <2>5. Watched'
      BY <1>0, <2>1, <2>2 DEF Watched, Reading, OneObjectPerRead
    <2>. QED
      BY <2>3, <2>4, <2>5 DEF DriverInv
  <1>13. ASSUME NEW n \in Names, Plug(n) \/ \E o \in Objects : Place(n, o) PROVE DriverInv'
    <2>1. /\ UNCHANGED <<kind, driver, call, binding, address, returned, twice, unreleased>>
          /\ witnessed \subseteq witnessed' /\ witnessed' \subseteq Objects
          /\ attached' \subseteq Names /\ present' \in [Names -> Objects \cup {Nothing}]
          /\ OnDevice' \in {OnDevice} \cup witnessed' \cup {Nothing}
      BY <1>0, <1>13 DEF DriverTypeOK, Plug, Place, OnDevice
    <2>2. DriverTypeOK'
      BY <1>0, <2>1 DEF DriverTypeOK
    <2>3. Placed' /\ Opened'
      BY <1>0, <2>1 DEF Placed, Opened
    <2>4. Watched'
      BY <1>0, <2>1 DEF Watched, Reading, OneObjectPerRead
    <2>. QED
      BY <2>2, <2>3, <2>4 DEF DriverInv
  <1>14. CASE UNCHANGED driverVars
    <2>1. /\ UNCHANGED <<kind, driver, call, binding, attached, present, address, returned,
                         witnessed, twice, unreleased>>
          /\ OnDevice' = OnDevice
      BY <1>14 DEF driverVars, world, history, OnDevice
    <2>. QED
      BY <1>0, <2>1 DEF DriverInv, DriverTypeOK, Placed, Opened, Watched, Reading, OneObjectPerRead
  <1>. QED
    BY <1>1, <1>2, <1>3, <1>4, <1>5, <1>6, <1>7, <1>8, <1>9, <1>10, <1>11, <1>12, <1>13, <1>14
       DEF DriverNext

\* A reading never mixes two cards, and never returns one that was not there
\* during the call, for any number of retries, cards and readers
\* (PCSCReader.read_card, FingerprintScanner.scan).
THEOREM OneObject == DriverSpec => []OneObjectPerRead
  <1>1. DriverInv => OneObjectPerRead
    BY DEF DriverInv, Watched
  <1>. QED
    BY <1>1, DriverInitInv, DriverNextInv, PTL DEF DriverSpec

\* Between calls a driver is connected with all that goes with it or not at
\* all, and the sessions it opened are closed (connect() and disconnect() of
\* the three drivers).
THEOREM ConnectedAlways == DriverSpec => []ConnectedOrNot
  <1>1. DriverInv => ConnectedOrNot
    <2>. SUFFICES ASSUME DriverInv PROVE ConnectedOrNot
      OBVIOUS
    <2>1. DriverTypeOK /\ Placed /\ Opened
      BY DEF DriverInv
    <2>. QED
      BY <2>1, DriverParts DEF Placed, Opened, ConnectedOrNot
  <1>. QED
    BY <1>1, DriverInitInv, DriverNextInv, PTL DEF DriverSpec

-----------------------------------------------------------------------------
(* Desktop *)

\* The fields of a tab and what is on disk.
Fielded ==
    /\ tab \in {"vault", "biometrics", "packages"}
    /\ vault \in VaultFields /\ keyring \in KeyringFields
    /\ package \in PackageFields /\ disk \in Disk
    /\ \A f \in Files : disk.packages[f] = Foreign => f \in Odd
    /\ confirmed \subseteq (Files \cup {Identity}) \X Things
    /\ deleted \in BOOLEAN

\* What the tab shows is what it has.
Shown ==
    /\ vault.service # Nil => vault.service.path = vault.path
                               /\ vault.rows = vault.path
    /\ vault.label = "unlocked" <=> (vault.service # Nil /\ vault.service.open)
    /\ keyring.label = "unlocked" <=> Unlocked

\* A package in memory belongs to the path that is chosen, unless something
\* else was there, and has all that was confirmed for that path.
Current(p) ==
    /\ package.path # Nil
    /\ package.path \notin Odd => p.home = package.path
    /\ \A c \in confirmed : c[1] = package.path => c[2] \in p.done
InMemory == package.state # Nil => Current(package.state)

\* What a task captured is what the tab still shows.
OfVault(t) ==
    \/ /\ t.op \in {"create vault", "unlock vault"} /\ t.with = vault.path
       /\ t.end = "ok" => disk.vaults[t.with] = "whole"
    \/ t.op = "use vault" /\ vault.service # Nil /\ t.with = vault.service
OfKeyring(t) ==
    /\ t.with = Nil
    /\ \/ t.op \in {"create keyring", "unlock keyring", "demonstrate"}
       \/ t.op = "read identity" /\ Unlocked
       \/ t.op = "enroll" /\ Unlocked /\ (t.end = "running" => disk.identity = Nil)
OfIdentity(t) ==
    /\ t.op = "attach" /\ Unlocked
    /\ t.with \in [names : SUBSET Things, name : Things]
    /\ disk.identity # Nil
    /\ t.end = "running" => disk.identity = t.with.names
    /\ t.end = "ok" => disk.identity = t.with.names \cup {t.with.name}
OfPackage(t) == t.op = "package" /\ t.with \in Package /\ Current(t.with)

\* A task under way, as run_in_background made it and its thread left it.
Task(t) ==
    /\ t = [op |-> t.op, with |-> t.with, end |-> t.end, poll |-> t.poll]
    /\ t.end \in {"running", "ok", "error"} /\ t.poll \in {"waiting", "due"}
DesktopSound(t) == Task(t) /\ (OfVault(t) \/ OfKeyring(t) \/ OfIdentity(t) \/ OfPackage(t))

\* No two tasks are under way: no handler runs while one is.
Alone == \A t, u \in tasks : t = u

DesktopInv ==
    /\ Fielded /\ Shown /\ InMemory /\ NothingConfirmedIsLost
    /\ Alone /\ \A t \in tasks : DesktopSound(t)

UnchangedState == UNCHANGED <<tab, vault, keyring, package, disk, confirmed, deleted>>

LEMMA DesktopParts ==
  ASSUME Fielded
  PROVE  /\ vault.path \in Vaults /\ vault.service \in Service \cup {Nil}
         /\ vault.label \in {"locked", "unlocked"} /\ vault.rows \in Vaults \cup {Nil}
         /\ keyring.state \in {"none", "locked", "unlocked"}
         /\ package.path \in Files \cup {Nil} /\ package.state \in Package \cup {Nil}
         /\ disk.vaults \in [Vaults -> File] /\ disk.keyring \in File
         /\ disk.identity \in (SUBSET Things) \cup {Nil}
         /\ disk.packages \in [Files -> Package \cup {Missing, Damaged, Foreign}]
  <1>1. /\ vault.path \in Vaults /\ vault.service \in Service \cup {Nil}
        /\ vault.label \in {"locked", "unlocked"} /\ vault.rows \in Vaults \cup {Nil}
    BY DEF Fielded, VaultFields
  <1>2. /\ keyring.state \in {"none", "locked", "unlocked"}
        /\ package.path \in Files \cup {Nil} /\ package.state \in Package \cup {Nil}
    BY DEF Fielded, KeyringFields, PackageFields
  <1>3. /\ disk.vaults \in [Vaults -> File] /\ disk.keyring \in File
        /\ disk.identity \in (SUBSET Things) \cup {Nil}
        /\ disk.packages \in [Files -> Package \cup {Missing, Damaged, Foreign}]
    BY DEF Fielded, Disk
  <1>. QED
    BY <1>1, <1>2, <1>3

LEMMA ServiceTyped ==
  ASSUME NEW s \in Service
  PROVE  s.path \in Vaults /\ s.open \in BOOLEAN /\ s # Nil
  BY DesktopAssumption DEF Service

LEMMA PackageTyped ==
  ASSUME NEW p \in Package
  PROVE  p.home \in Files /\ p.done \subseteq Things /\ p \notin {Nil, Missing, Damaged, Foreign}
  BY DesktopAssumption DEF Package

\* Nothing that a task depends on has changed.
LEMMA DesktopSoundKept ==
  ASSUME UNCHANGED <<vault, keyring, package, disk, confirmed>>, NEW t, DesktopSound(t)
  PROVE  DesktopSound(t)'
  BY DEF DesktopSound, Task, OfVault, OfKeyring, OfIdentity, OfPackage, Current, Unlocked

LEMMA StateKept ==
  ASSUME Fielded, Shown, InMemory, NothingConfirmedIsLost, UnchangedState
  PROVE  Fielded' /\ Shown' /\ InMemory' /\ NothingConfirmedIsLost'
  BY DEF UnchangedState, Fielded, Shown, InMemory, NothingConfirmedIsLost, Current, Unlocked

LEMMA Started ==
  ASSUME DesktopInv, Free, NEW work, NEW with, Background(work, with), UnchangedState,
         LET t == [op |-> work, with |-> with, end |-> "running", poll |-> "waiting"]
         IN  OfVault(t) \/ OfKeyring(t) \/ OfIdentity(t) \/ OfPackage(t)
  PROVE  DesktopInv'
  <1>. DEFINE t == [op |-> work, with |-> with, end |-> "running", poll |-> "waiting"]
  <1>1. tasks' = {t}
    BY DEF Free, Background
  <1>2. Task(t)
    BY DEF Task
  <1>3. DesktopSound(t)
    BY <1>2 DEF DesktopSound
  <1>. HIDE DEF t
  <1>4. DesktopSound(t)'
    BY <1>3, DesktopSoundKept DEF UnchangedState
  <1>. QED
    BY <1>1, <1>4, StateKept DEF DesktopInv, Alone

\* A handler that starts nothing.
LEMMA Handled ==
  ASSUME Free, UNCHANGED tasks,
         Fielded' /\ Shown' /\ InMemory' /\ NothingConfirmedIsLost'
  PROVE  DesktopInv'
  BY DEF Free, DesktopInv, Alone

LEMMA Refreshing ==
  ASSUME NEW v \in VaultFields, disk.vaults \in [Vaults -> File]
  PROVE  LET r == Refreshed(v)
         IN  /\ r \in VaultFields
             /\ r.path = v.path /\ r.service = v.service /\ r.label = v.label
             /\ v.service # Nil => r.rows \in {v.rows, v.service.path}
             /\ v.service # Nil /\ disk.vaults[v.service.path] = "whole"
                   => r.rows = v.service.path
  <1>. DEFINE listed == IF v.service # Nil THEN v.service.path ELSE v.path
              rows == IF disk.vaults[listed] = "whole" THEN listed
                      ELSE IF v.service = Nil /\ disk.vaults[listed] = Missing
                           THEN Nil ELSE v.rows
  <1>1. Refreshed(v) = [v EXCEPT !.rows = rows]
    BY DEF Refreshed
  <1>2. listed \in Vaults /\ rows \in Vaults \cup {Nil}
    BY ServiceTyped DEF VaultFields
  <1>3. /\ v.service # Nil => rows \in {v.rows, v.service.path}
        /\ v.service # Nil /\ disk.vaults[v.service.path] = "whole"
              => rows = v.service.path
    OBVIOUS
  <1>. HIDE DEF rows, listed
  <1>. QED
    BY <1>1, <1>2, <1>3 DEF VaultFields

\* The vault tab changes, and nothing else.
LEMMA VaultTabKept ==
  ASSUME DesktopInv, vault' \in VaultFields,
         UNCHANGED <<tab, keyring, package, disk, confirmed, deleted>>,
         vault'.service # Nil => /\ vault'.service.path = vault'.path
                                  /\ vault'.rows = vault'.path,
         vault'.label = "unlocked" <=> (vault'.service # Nil /\ vault'.service.open)
  PROVE  Fielded' /\ Shown' /\ InMemory' /\ NothingConfirmedIsLost'
  BY DEF DesktopInv, Fielded, Shown, InMemory, Current, NothingConfirmedIsLost, Unlocked

-----------------------------------------------------------------------------
(* The vault tab *)

LEMMA VaultHandlers ==
  ASSUME DesktopInv,
         \/ \E p \in Vaults : ChooseVault(p)
         \/ InitVault \/ UnlockVault \/ LockVault \/ UseVault \/ RefreshVault
  PROVE  DesktopInv'
  <1>0. Fielded /\ Shown /\ Free
    BY DEF DesktopInv, ChooseVault, InitVault, UnlockVault, LockVault, UseVault, RefreshVault
  <1>1. ASSUME NEW p \in Vaults, ChooseVault(p) PROVE DesktopInv'
    <2>. DEFINE v == [vault EXCEPT !.path = p, !.service = Nil, !.label = "locked"]
    <2>1. v \in VaultFields /\ v.service = Nil /\ v.label = "locked"
      BY <1>0 DEF Fielded, VaultFields
    <2>2. vault' = Refreshed(v)
      BY <1>1 DEF ChooseVault
    <2>. HIDE DEF v
    <2>3. vault' \in VaultFields /\ vault'.service = Nil /\ vault'.label = "locked"
      BY <1>0, <2>1, <2>2, Refreshing, DesktopParts
    <2>. QED
      BY <1>0, <1>1, <2>3, VaultTabKept, Handled DEF ChooseVault, OnVault
  <1>2. CASE InitVault \/ UnlockVault
    <2>1. PICK work \in {"create vault", "unlock vault"} : Background(work, vault.path)
      BY <1>2 DEF InitVault, UnlockVault
    <2>2. OfVault([op |-> work, with |-> vault.path, end |-> "running", poll |-> "waiting"])
      BY DEF OfVault
    <2>3. UnchangedState
      BY <1>2 DEF InitVault, UnlockVault, OnVault, UnchangedState
    <2>. QED
      BY <1>0, <2>1, <2>2, <2>3, Started
  <1>3. CASE UseVault
    <2>1. Background("use vault", vault.service) /\ vault.service # Nil
      BY <1>3 DEF UseVault
    <2>2. OfVault([op |-> "use vault", with |-> vault.service, end |-> "running",
                   poll |-> "waiting"])
      BY <2>1 DEF OfVault
    <2>3. UnchangedState
      BY <1>3 DEF UseVault, OnVault, UnchangedState
    <2>. QED
      BY <1>0, <2>1, <2>2, <2>3, Started
  <1>4. CASE LockVault
    <2>. DEFINE s == IF vault.service = Nil THEN Nil ELSE [vault.service EXCEPT !.open = FALSE]
    <2>1. vault' = [vault EXCEPT !.label = "locked", !.service = s]
      BY <1>4 DEF LockVault
    <2>2. /\ s \in Service \cup {Nil}
          /\ s # Nil => vault.service # Nil /\ ~s.open /\ s.path = vault.service.path
      <3>1. CASE vault.service = Nil
        BY <3>1
      <3>2. CASE vault.service # Nil
        <4>1. vault.service \in Service
          BY <1>0, <3>2, DesktopParts
        <4>. QED
          BY <3>2, <4>1 DEF Service
      <3>. QED
        BY <3>1, <3>2
    <2>. HIDE DEF s
    <2>3. /\ vault' \in VaultFields /\ vault'.label = "locked" /\ vault'.service = s
          /\ vault'.path = vault.path /\ vault'.rows = vault.rows
      BY <1>0, <2>1, <2>2 DEF Fielded, VaultFields
    <2>. QED
      BY <1>0, <1>4, <2>2, <2>3, VaultTabKept, Handled DEF LockVault, OnVault, Shown
  <1>5. CASE RefreshVault
    <2>1. vault' = Refreshed(vault) /\ vault \in VaultFields
      BY <1>0, <1>5 DEF RefreshVault, Fielded
    <2>2. /\ vault' \in VaultFields /\ vault'.label = vault.label
          /\ vault'.service = vault.service /\ vault'.path = vault.path
          /\ vault.service # Nil => vault'.rows = vault.path
      BY <1>0, <2>1, Refreshing, DesktopParts DEF Shown
    <2>. QED
      BY <1>0, <1>5, <2>2, VaultTabKept, Handled DEF RefreshVault, OnVault, Shown
  <1>. QED
    BY <1>1, <1>2, <1>3, <1>4, <1>5

\* The one task there is is over.
LEMMA Over ==
  ASSUME Alone, NEW t \in tasks, NEW end, Received(t, end)
  PROVE  tasks' = {}
  BY DEF Alone, Received

LEMMA Finished ==
  ASSUME tasks' = {}, Fielded' /\ Shown' /\ InMemory' /\ NothingConfirmedIsLost'
  PROVE  DesktopInv'
  BY DEF DesktopInv, Alone

LEMMA VaultDelivered ==
  ASSUME DesktopInv, NEW t \in tasks, VaultOpened(t) \/ VaultUsed(t)
  PROVE  DesktopInv'
  <1>0. Fielded /\ Shown /\ DesktopSound(t) /\ t.end = "ok" /\ tasks' = {}
    BY Over DEF DesktopInv, VaultOpened, VaultUsed, Received
  <1>1. CASE VaultOpened(t)
    <2>. DEFINE s == [path |-> t.with, open |-> TRUE]
                v == [vault EXCEPT !.service = s, !.label = "unlocked"]
    <2>1. t.with = vault.path /\ disk.vaults[t.with] = "whole"
      BY <1>0, <1>1 DEF VaultOpened, DesktopSound, OfVault, OfKeyring, OfIdentity, OfPackage
    <2>2. s \in Service /\ s.path = vault.path /\ s.open
      BY <1>0, <2>1, DesktopParts DEF Service
    <2>3. s # Nil
      BY <2>2, ServiceTyped
    <2>4. vault' = Refreshed(v)
      BY <1>1 DEF VaultOpened
    <2>. HIDE DEF s
    <2>5. /\ v \in VaultFields /\ v.path = vault.path /\ v.service = s
          /\ v.label = "unlocked"
      BY <1>0, <2>2 DEF Fielded, VaultFields
    <2>. HIDE DEF v
    <2>6. /\ vault' \in VaultFields /\ vault'.path = vault.path /\ vault'.service = s
          /\ vault'.label = "unlocked" /\ vault'.rows = vault.path
      BY <1>0, <2>1, <2>2, <2>3, <2>4, <2>5, Refreshing, DesktopParts
    <2>. QED
      BY <1>0, <1>1, <2>2, <2>3, <2>6, VaultTabKept, Finished DEF VaultOpened, OnVault
  <1>2. CASE VaultUsed(t)
    <2>1. vault' \in {vault, Refreshed(vault)} /\ vault \in VaultFields
      BY <1>0, <1>2 DEF VaultUsed, Fielded
    <2>2. /\ vault' \in VaultFields /\ vault'.label = vault.label
          /\ vault'.service = vault.service /\ vault'.path = vault.path
          /\ vault.service # Nil => vault'.rows = vault.path
      BY <1>0, <2>1, Refreshing, DesktopParts DEF Shown
    <2>. QED
      BY <1>0, <1>2, <2>2, VaultTabKept, Finished DEF VaultUsed, OnVault, Shown
  <1>. QED
    BY <1>1, <1>2

-----------------------------------------------------------------------------
(* The biometrics tab *)

LEMMA KeyringHandlers ==
  ASSUME DesktopInv,
         \/ UnlockKeyring \/ CreateKeyring \/ LockKeyring \/ ReadIdentity
         \/ Enroll \/ Demonstrate \/ \E n \in Things : Attach(n)
  PROVE  DesktopInv'
  <1>0. Fielded /\ Shown /\ InMemory /\ NothingConfirmedIsLost /\ Free
    BY DEF DesktopInv, UnlockKeyring, CreateKeyring, LockKeyring, ReadIdentity, Enroll, Attach,
           Demonstrate
  <1>1. CASE UnlockKeyring \/ CreateKeyring \/ ReadIdentity \/ Enroll \/ Demonstrate
    <2>1. PICK work : /\ Background(work, Nil)
                    /\ \/ work \in {"create keyring", "unlock keyring", "demonstrate"}
                       \/ work = "read identity" /\ Unlocked
                       \/ work = "enroll" /\ Unlocked /\ disk.identity = Nil
      BY <1>1 DEF UnlockKeyring, CreateKeyring, ReadIdentity, Enroll, Demonstrate
    <2>2. OfKeyring([op |-> work, with |-> Nil, end |-> "running", poll |-> "waiting"])
      BY <2>1 DEF OfKeyring
    <2>3. UnchangedState
      BY <1>1 DEF UnlockKeyring, CreateKeyring, ReadIdentity, Enroll, Demonstrate,
                  OnBiometrics, UnchangedState
    <2>. QED
      BY <1>0, <2>1, <2>2, <2>3, Started
  <1>2. ASSUME NEW n \in Things, Attach(n) PROVE DesktopInv'
    <2>. DEFINE w == [names |-> disk.identity, name |-> n]
    <2>1. Background("attach", w) /\ Unlocked /\ disk.identity # Nil
      BY <1>2 DEF Attach
    <2>2. w \in [names : SUBSET Things, name : Things] /\ w.names = disk.identity
      BY <1>0, <2>1, DesktopParts
    <2>. HIDE DEF w
    <2>3. OfIdentity([op |-> "attach", with |-> w, end |-> "running", poll |-> "waiting"])
      BY <2>1, <2>2 DEF OfIdentity
    <2>4. UnchangedState
      BY <1>2 DEF Attach, OnBiometrics, UnchangedState
    <2>. QED
      BY <1>0, <2>1, <2>3, <2>4, Started
  <1>3. CASE LockKeyring
    <2>1. /\ keyring' \in KeyringFields /\ keyring'.label = "locked"
          /\ keyring'.state # "unlocked"
          /\ UNCHANGED <<tab, vault, package, disk, tasks, confirmed, deleted>>
      BY <1>0, <1>3, DesktopParts DEF LockKeyring, OnBiometrics, KeyringFields
    <2>2. Fielded' /\ Shown' /\ InMemory' /\ NothingConfirmedIsLost'
      BY <1>0, <2>1 DEF Fielded, Shown, InMemory, Current, NothingConfirmedIsLost, Unlocked
    <2>. QED
      BY <1>0, <2>1, <2>2, Handled
  <1>. QED
    BY <1>1, <1>2, <1>3

\* The identity on disk is another, and nothing else is.
LEMMA IdentitySet ==
  ASSUME disk \in Disk, NEW names \in (SUBSET Things) \cup {Nil},
         disk' = [disk EXCEPT !.identity = names]
  PROVE  /\ disk' \in Disk /\ disk'.identity = names
         /\ disk'.vaults = disk.vaults /\ disk'.packages = disk.packages
  BY DEF Disk

LEMMA IdentityHandlers ==
  ASSUME DesktopInv, DeleteIdentity \/ \E n \in Things : RemoveAttachment(n)
  PROVE  DesktopInv'
  <1>0. Fielded /\ Shown /\ InMemory /\ NothingConfirmedIsLost /\ Free /\ disk \in Disk
    BY DEF DesktopInv, Fielded, DeleteIdentity, RemoveAttachment
  <1>1. CASE DeleteIdentity
    <2>1. /\ disk' \in Disk /\ disk'.identity = Nil
          /\ disk'.packages = disk.packages
          /\ UNCHANGED <<tab, vault, keyring, package, tasks>>
          /\ confirmed' = {} /\ deleted' = TRUE
      BY <1>0, <1>1, IdentitySet DEF DeleteIdentity, OnBiometrics
    <2>2. Fielded' /\ Shown' /\ InMemory'
      BY <1>0, <2>1 DEF Fielded, Shown, InMemory, Current, Unlocked
    <2>3. NothingConfirmedIsLost'
      BY <1>0, <2>1 DEF NothingConfirmedIsLost
    <2>. QED
      BY <1>0, <2>1, <2>2, <2>3, Handled
  <1>2. ASSUME NEW n \in Things, RemoveAttachment(n) PROVE DesktopInv'
    <2>1. disk.identity # Nil /\ disk.identity \in SUBSET Things
          /\ disk' = [disk EXCEPT !.identity = disk.identity \ {n}]
      BY <1>0, <1>2, DesktopParts DEF RemoveAttachment
    <2>2. disk.identity \ {n} \in SUBSET Things /\ disk.identity \ {n} # Nil
      BY <2>1, DesktopAssumption
    <2>3. /\ disk' \in Disk /\ disk'.identity = disk.identity \ {n}
          /\ disk'.packages = disk.packages
          /\ UNCHANGED <<tab, vault, keyring, package, tasks, deleted>>
          /\ confirmed' = confirmed \ {<<Identity, n>>}
      BY <1>0, <1>2, <2>1, <2>2, IdentitySet DEF RemoveAttachment, OnBiometrics
    <2>4. Fielded' /\ Shown' /\ InMemory'
      BY <1>0, <2>3 DEF Fielded, Shown, InMemory, Current, Unlocked
    <2>5. NothingConfirmedIsLost'
      <3>1. ASSUME NEW c \in confirmed', c[1] = Identity
            PROVE  disk'.identity # Nil /\ c[2] \in disk'.identity
        <4>1. c \in confirmed /\ c[2] \in disk.identity
          BY <1>0, <2>3, <3>1 DEF NothingConfirmedIsLost
        <4>2. c = <<c[1], c[2]>>
          BY <1>0, <4>1 DEF Fielded
        <4>3. c[2] # n
          BY <2>3, <3>1, <4>2
        <4>. QED
          BY <2>2, <2>3, <4>1, <4>3
      <3>2. ~deleted
        BY <1>0, <2>1 DEF NothingConfirmedIsLost
      <3>. QED
        BY <1>0, <2>3, <3>1, <3>2 DEF NothingConfirmedIsLost
    <2>. QED
      BY <1>0, <2>3, <2>4, <2>5, Handled
  <1>. QED
    BY <1>1, <1>2

LEMMA BiometricsDelivered ==
  ASSUME DesktopInv, NEW t \in tasks, KeyringOpened(t) \/ Saved(t)
  PROVE  DesktopInv'
  <1>0. /\ Fielded /\ Shown /\ InMemory /\ NothingConfirmedIsLost /\ DesktopSound(t)
        /\ t.end = "ok" /\ tasks' = {}
    BY Over DEF DesktopInv, KeyringOpened, Saved, Received
  <1>1. CASE KeyringOpened(t)
    <2>1. /\ keyring' \in KeyringFields /\ keyring'.label = "unlocked"
          /\ keyring'.state = "unlocked"
          /\ UNCHANGED <<tab, vault, package, disk, confirmed, deleted>>
      BY <1>1 DEF KeyringOpened, OnBiometrics, KeyringFields
    <2>2. Fielded' /\ Shown' /\ InMemory' /\ NothingConfirmedIsLost'
      BY <1>0, <2>1 DEF Fielded, Shown, InMemory, Current, NothingConfirmedIsLost, Unlocked
    <2>. QED
      BY <1>0, <2>2, Finished
  <1>2. CASE Saved(t)
    <2>1. UNCHANGED <<tab, vault, keyring, package, disk, deleted>>
      BY <1>2 DEF Saved, OnBiometrics
    <2>2. CASE t.op = "enroll"
      <3>1. confirmed' = confirmed
        BY <1>2, <2>2 DEF Saved
      <3>. QED
        BY <1>0, <2>1, <3>1, StateKept, Finished DEF UnchangedState
    <2>3. CASE t.op = "attach"
      <3>1. OfIdentity(t)
        BY <1>0, <2>3 DEF DesktopSound, OfVault, OfKeyring, OfPackage
      <3>2. /\ disk.identity # Nil /\ t.with.name \in disk.identity
            /\ t.with.name \in Things
        BY <1>0, <3>1 DEF OfIdentity
      <3>3. confirmed' = confirmed \cup {<<Identity, t.with.name>>}
        BY <1>2, <2>3 DEF Saved
      <3>4. Fielded' /\ Shown'
        BY <1>0, <2>1, <3>2, <3>3 DEF Fielded, Shown, Unlocked
      <3>5. InMemory'
        <4>1. package.state # Nil => package.path # Identity
          BY <1>0, DesktopParts, DesktopAssumption DEF InMemory, Current
        <4>. QED
          BY <1>0, <2>1, <3>3, <4>1, DesktopAssumption DEF InMemory, Current
      <3>6. NothingConfirmedIsLost'
        BY <1>0, <2>1, <3>2, <3>3 DEF NothingConfirmedIsLost
      <3>. QED
        BY <1>0, <3>4, <3>5, <3>6, Finished
    <2>. QED
      BY <1>2, <2>2, <2>3 DEF Saved
  <1>. QED
    BY <1>1, <1>2

-----------------------------------------------------------------------------
(* The packages tab *)

\* What is confirmed for a package that can be loaded is in it.
LEMMA LoadedCurrent ==
  ASSUME Fielded, NothingConfirmedIsLost, NEW f \in Files, disk.packages[f] \in Package,
         NEW c \in confirmed, c[1] = f
  PROVE  c[2] \in disk.packages[f].done
  BY DesktopAssumption DEF NothingConfirmedIsLost

LEMMA PackageHandlers ==
  ASSUME DesktopInv,
         \/ \E f \in Files : ChoosePackage(f)
         \/ CreatePackage \/ \E n \in Things : ChangePackage(n)
  PROVE  DesktopInv'
  <1>0. Fielded /\ Shown /\ InMemory /\ NothingConfirmedIsLost /\ Free
    BY DEF DesktopInv, ChoosePackage, CreatePackage, ChangePackage
  <1>1. ASSUME NEW f \in Files, ChoosePackage(f) PROVE DesktopInv'
    <2>1. /\ package' = [path |-> f, state |-> Loaded(f)]
          /\ UNCHANGED <<tab, vault, keyring, disk, tasks, confirmed, deleted>>
      BY <1>1 DEF ChoosePackage, OnPackages
    <2>2. Loaded(f) \in Package \cup {Nil}
      BY <1>0, DesktopParts DEF Loaded
    <2>3. Fielded' /\ Shown'
      BY <1>0, <2>1, <2>2 DEF Fielded, PackageFields, Shown, Unlocked
    <2>4. f # Nil /\ f # Identity /\ Damaged \notin Package /\ Foreign \notin Package
      BY DesktopAssumption
    <2>5. ASSUME Loaded(f) # Nil
          PROVE  /\ f \notin Odd => Loaded(f).home = f
                 /\ \A c \in confirmed : c[1] = f => c[2] \in Loaded(f).done
                 /\ disk.packages[f] # Damaged
      <3>1. CASE disk.packages[f] \in Package
        <4>1. Loaded(f) = disk.packages[f]
          BY <2>4, <3>1 DEF Loaded
        <4>2. \A c \in confirmed : c[1] = f => c[2] \in disk.packages[f].done
          BY <1>0, <3>1, LoadedCurrent
        <4>. QED
          BY <1>0, <2>4, <3>1, <4>1, <4>2 DEF NothingConfirmedIsLost
      <3>2. CASE disk.packages[f] = Foreign
        <4>1. f \in Odd
          BY <1>0, <3>2 DEF Fielded
        <4>2. \A c \in confirmed : c[1] # f
          BY <1>0, <2>4, <3>2, DesktopAssumption DEF NothingConfirmedIsLost
        <4>. QED
          BY <3>2, <4>1, <4>2, DesktopAssumption
      <3>. QED
        BY <2>5, <3>1, <3>2 DEF Loaded
    <2>6. package'.path = f /\ package'.state = Loaded(f)
      BY <2>1
    <2>7. NothingConfirmedIsLost'
      BY <1>0, <2>1, <2>5, <2>6 DEF NothingConfirmedIsLost
    <2>8. InMemory'
      BY <2>1, <2>4, <2>5, <2>6 DEF InMemory, Current
    <2>. QED
      BY <1>0, <2>1, <2>3, <2>7, <2>8, Handled
  <1>2. CASE CreatePackage
    <2>. DEFINE w == [home |-> package.path, done |-> {}]
    <2>1. /\ Background("package", w) /\ package.path \in Files
          /\ disk.packages[package.path] = Missing
      BY <1>0, <1>2, DesktopParts DEF CreatePackage
    <2>2. w \in Package /\ w.home = package.path
      BY <2>1 DEF Package
    <2>3. /\ package.path # Nil /\ package.path # Identity
          /\ Missing \notin Package /\ Missing # Damaged
      BY <2>1, DesktopAssumption
    <2>. HIDE DEF w
    <2>4. \A c \in confirmed : c[1] # package.path
      BY <1>0, <2>1, <2>3 DEF NothingConfirmedIsLost
    <2>5. OfPackage([op |-> "package", with |-> w, end |-> "running", poll |-> "waiting"])
      BY <2>2, <2>3, <2>4 DEF OfPackage, Current
    <2>6. UnchangedState
      BY <1>2 DEF CreatePackage, OnPackages, UnchangedState
    <2>. QED
      BY <1>0, <2>1, <2>5, <2>6, Started
  <1>3. ASSUME NEW n \in Things, ChangePackage(n) PROVE DesktopInv'
    <2>. DEFINE w == [package.state EXCEPT !.done = @ \cup {n}]
    <2>1. Background("package", w) /\ package.state \in Package /\ Current(package.state)
      BY <1>0, <1>3, DesktopParts DEF ChangePackage, InMemory
    <2>2. /\ w \in Package /\ w.home = package.state.home
          /\ w.done = package.state.done \cup {n}
      BY <2>1 DEF Package
    <2>. HIDE DEF w
    <2>3. OfPackage([op |-> "package", with |-> w, end |-> "running", poll |-> "waiting"])
      BY <2>1, <2>2 DEF OfPackage, Current
    <2>4. UnchangedState
      BY <1>3 DEF ChangePackage, OnPackages, UnchangedState
    <2>. QED
      BY <1>0, <2>1, <2>3, <2>4, Started
  <1>. QED
    BY <1>1, <1>2, <1>3

LEMMA PackageSet ==
  ASSUME disk \in Disk, NEW f \in Files, NEW p \in Package \cup {Missing, Damaged, Foreign},
         disk' = [disk EXCEPT !.packages[f] = p]
  PROVE  /\ disk' \in Disk /\ disk'.identity = disk.identity
         /\ disk'.packages = [disk.packages EXCEPT ![f] = p]
  BY DEF Disk

\* The callback keeps the package in memory, and perhaps on disk.
LEMMA PackageDelivered ==
  ASSUME DesktopInv, NEW t \in tasks,
         PackageSaved(t) \/ \E truncated \in BOOLEAN : PackageNotSaved(t, truncated)
  PROVE  DesktopInv'
  <1>0. /\ Fielded /\ Shown /\ NothingConfirmedIsLost /\ tasks' = {} /\ disk \in Disk
        /\ t.with \in Package /\ Current(t.with)
    <2>1. DesktopSound(t) /\ t.op = "package" /\ tasks' = {}
      BY Over DEF DesktopInv, PackageSaved, PackageNotSaved
    <2>. QED
      BY <2>1 DEF DesktopInv, Fielded, DesktopSound, OfVault, OfKeyring, OfIdentity, OfPackage
  <1>. DEFINE f == package.path
  <1>1. f \in Files /\ f # Identity /\ (f \notin Odd => t.with.home = f)
    BY <1>0, DesktopParts, DesktopAssumption DEF Current
  <1>2. /\ package' \in PackageFields /\ package'.path = f /\ package'.state = t.with
        /\ UNCHANGED <<tab, vault, keyring, deleted>>
    <2>1. package' = [package EXCEPT !.state = t.with]
          /\ UNCHANGED <<tab, vault, keyring, deleted>>
      BY DEF PackageSaved, PackageNotSaved, OnPackages
    <2>. QED
      BY <1>0, <2>1 DEF Fielded, PackageFields
  <1>3. CASE PackageSaved(t)
    <2>1. /\ disk' \in Disk /\ disk'.identity = disk.identity
          /\ disk'.packages = [disk.packages EXCEPT ![f] = t.with]
      BY <1>0, <1>1, <1>3, PackageSet DEF PackageSaved
    <2>2. /\ disk.packages \in [Files -> Package \cup {Missing, Damaged, Foreign}]
          /\ disk'.packages[f] = t.with /\ t.with # Foreign
          /\ \A g \in Files \ {f} : disk'.packages[g] = disk.packages[g]
      BY <1>0, <1>1, <2>1, DesktopParts, PackageTyped
    <2>3. /\ confirmed' = confirmed \cup {<<f, c>> : c \in t.with.done}
          /\ t.with.done \subseteq Things
      BY <1>0, <1>1, <1>3, PackageTyped DEF PackageSaved
    <2>4. Fielded' /\ Shown'
      BY <1>0, <1>1, <1>2, <2>1, <2>2, <2>3 DEF Fielded, Shown, Unlocked
    <2>5. InMemory'
      BY <1>0, <1>2, <2>3 DEF InMemory, Current
    <2>6. \A c \in confirmed' :
             IF c[1] = Identity
             THEN disk'.identity # Nil /\ c[2] \in disk'.identity
             ELSE \/ /\ disk'.packages[c[1]] \in Package
                     /\ c[2] \in disk'.packages[c[1]].done
                  \/ /\ disk'.packages[c[1]] = Damaged
                     /\ f = c[1] => c[2] \in t.with.done
      <3>. TAKE c \in confirmed'
      <3>1. CASE c[1] = f
        BY <1>0, <1>1, <2>2, <2>3, <3>1 DEF Current
      <3>2. CASE c[1] # f
        <4>1. c \in confirmed /\ c[1] \in Files \cup {Identity}
          BY <1>0, <2>3, <3>2 DEF Fielded
        <4>. QED
          BY <1>0, <2>1, <2>2, <3>2, <4>1 DEF NothingConfirmedIsLost
      <3>. QED
        BY <3>1, <3>2
    <2>7. \A g \in Files \ Odd : disk'.packages[g] \in Package => disk'.packages[g].home = g
      BY <1>0, <1>1, <2>2 DEF NothingConfirmedIsLost
    <2>8. NothingConfirmedIsLost'
      BY <1>0, <1>2, <2>1, <2>6, <2>7 DEF NothingConfirmedIsLost
    <2>. QED
      BY <1>0, <2>4, <2>5, <2>8, Finished
  <1>4. CASE PackageNotSaved(t, TRUE)
    <2>1. /\ disk' \in Disk /\ disk'.identity = disk.identity
          /\ disk'.packages = [disk.packages EXCEPT ![f] = Damaged]
          /\ confirmed' = confirmed
      BY <1>0, <1>1, <1>4, PackageSet DEF PackageNotSaved
    <2>2. /\ disk.packages \in [Files -> Package \cup {Missing, Damaged, Foreign}]
          /\ disk'.packages[f] = Damaged /\ Damaged \notin Package /\ Damaged # Foreign
          /\ \A g \in Files \ {f} : disk'.packages[g] = disk.packages[g]
      BY <1>0, <1>1, <2>1, DesktopParts, DesktopAssumption
    <2>3. Fielded' /\ Shown'
      BY <1>0, <1>2, <2>1, <2>2 DEF Fielded, Shown, Unlocked
    <2>4. InMemory'
      BY <1>0, <1>2, <2>1 DEF InMemory, Current
    <2>5. \A c \in confirmed' :
             IF c[1] = Identity
             THEN disk'.identity # Nil /\ c[2] \in disk'.identity
             ELSE \/ /\ disk'.packages[c[1]] \in Package
                     /\ c[2] \in disk'.packages[c[1]].done
                  \/ /\ disk'.packages[c[1]] = Damaged
                     /\ f = c[1] => c[2] \in t.with.done
      <3>. TAKE c \in confirmed'
      <3>1. c \in confirmed /\ c[1] \in Files \cup {Identity}
        BY <1>0, <2>1 DEF Fielded
      <3>2. CASE c[1] = f
        BY <1>0, <1>1, <2>2, <3>1, <3>2 DEF Current
      <3>3. CASE c[1] # f
        BY <1>0, <2>1, <2>2, <3>1, <3>3 DEF NothingConfirmedIsLost
      <3>. QED
        BY <3>2, <3>3
    <2>6. \A g \in Files \ Odd : disk'.packages[g] \in Package => disk'.packages[g].home = g
      BY <1>0, <1>1, <2>2 DEF NothingConfirmedIsLost
    <2>7. NothingConfirmedIsLost'
      BY <1>0, <1>2, <2>1, <2>5, <2>6 DEF NothingConfirmedIsLost
    <2>. QED
      BY <1>0, <2>3, <2>4, <2>7, Finished
  <1>5. CASE PackageNotSaved(t, FALSE)
    <2>1. UNCHANGED <<disk, confirmed>>
      BY <1>5 DEF PackageNotSaved
    <2>2. Fielded' /\ Shown' /\ InMemory' /\ NothingConfirmedIsLost'
      BY <1>0, <1>2, <2>1
         DEF Fielded, Shown, InMemory, Current, NothingConfirmedIsLost, Unlocked
    <2>. QED
      BY <1>0, <2>2, Finished
  <1>. QED
    BY <1>3, <1>4, <1>5

-----------------------------------------------------------------------------
(* The runner *)

LEMMA BecomesOnly ==
  ASSUME Alone, NEW t \in tasks, NEW now, Becomes(t, now)
  PROVE  tasks' = {now}
  BY DEF Alone, Becomes

LEMMA Retimed ==
  ASSUME DesktopInv, NEW t \in tasks, Timer(t) \/ Poll(t)
  PROVE  DesktopInv'
  <1>1. PICK poll \in {"waiting", "due"} :
            Becomes(t, [t EXCEPT !.poll = poll]) /\ UnchangedState
    BY DEF Timer, Poll, UnchangedState
  <1>. DEFINE now == [t EXCEPT !.poll = poll]
  <1>2. tasks' = {now}
    BY <1>1, BecomesOnly DEF DesktopInv
  <1>3. Task(t) /\ DesktopSound(t)
    BY DEF DesktopInv, DesktopSound
  <1>4. Task(now) /\ now.op = t.op /\ now.with = t.with /\ now.end = t.end
    BY <1>3 DEF Task
  <1>. HIDE DEF now
  <1>5. DesktopSound(now)
    BY <1>3, <1>4 DEF DesktopSound, OfVault, OfKeyring, OfIdentity, OfPackage
  <1>6. DesktopSound(now)'
    BY <1>1, <1>5, DesktopSoundKept DEF UnchangedState
  <1>. QED
    BY <1>1, <1>2, <1>6, StateKept DEF DesktopInv, Alone

LEMMA Shows ==
  ASSUME DesktopInv, NEW t \in tasks, JustShow(t)
  PROVE  DesktopInv'
  <1>1. tasks' = {} /\ UnchangedState
    BY Over DEF DesktopInv, JustShow, UnchangedState
  <1>. QED
    BY <1>1, StateKept, Finished DEF DesktopInv

\* What a task can do to the disk.
LEMMA VaultMade ==
  ASSUME Fielded, NEW d \in {disk, [disk EXCEPT !.vaults[vault.path] = "whole"]}
  PROVE  /\ d \in Disk /\ d.identity = disk.identity /\ d.packages = disk.packages
         /\ d = [disk EXCEPT !.vaults[vault.path] = "whole"]
               => d.vaults[vault.path] = "whole"
  <1>1. disk \in Disk /\ vault.path \in Vaults /\ "whole" \in File
    BY DesktopParts DEF Fielded, File
  <1>. DEFINE vs == [disk.vaults EXCEPT ![vault.path] = "whole"]
  <1>2. vs \in [Vaults -> File] /\ vs[vault.path] = "whole"
    BY <1>1, DesktopParts
  <1>3. [disk EXCEPT !.vaults[vault.path] = "whole"] = [disk EXCEPT !.vaults = vs]
    OBVIOUS
  <1>. HIDE DEF vs
  <1>. QED
    BY <1>1, <1>2, <1>3 DEF Disk

LEMMA WorkOnKeyring ==
  ASSUME Fielded, NEW t, t.op = "create keyring", NEW d \in {Done(t)} \cup CutShort(t)
  PROVE  /\ d \in Disk /\ d.vaults = disk.vaults
         /\ d.identity = disk.identity /\ d.packages = disk.packages
  <1>1. PICK k \in File : d = [disk EXCEPT !.keyring = k]
    BY DEF Done, CutShort, File
  <1>. QED
    BY <1>1 DEF Fielded, Disk

LEMMA WorkOnIdentity ==
  ASSUME Fielded, NEW t, NEW names \in SUBSET Things, Done(t) = [disk EXCEPT !.identity = names]
  PROVE  /\ Done(t) \in Disk /\ Done(t).vaults = disk.vaults
         /\ Done(t).identity = names /\ names # Nil /\ Done(t).packages = disk.packages
  BY DesktopAssumption DEF Fielded, Disk

\* The disk after a task, given what the identity on it was and is.
LEMMA DiskWorkedOn ==
  ASSUME Fielded, Shown, InMemory, NothingConfirmedIsLost,
         UNCHANGED <<tab, vault, keyring, package, confirmed>>,
         disk' \in Disk, disk'.packages = disk.packages, deleted' \in BOOLEAN,
         \/ disk'.identity = disk.identity /\ (deleted' => deleted)
         \/ disk.identity = Nil /\ disk'.identity # Nil /\ ~deleted'
         \/ /\ disk.identity # Nil /\ disk'.identity # Nil
            /\ disk.identity \subseteq disk'.identity /\ (deleted' => deleted)
  PROVE  Fielded' /\ Shown' /\ InMemory' /\ NothingConfirmedIsLost'
  <1>1. Fielded' /\ Shown' /\ InMemory'
    BY DEF Fielded, Shown, InMemory, Current, Unlocked
  <1>2. NothingConfirmedIsLost'
    BY DEF NothingConfirmedIsLost
  <1>. QED
    BY <1>1, <1>2

LEMMA Worked ==
  ASSUME DesktopInv, NEW t \in tasks, Work(t) \/ WorkFails(t)
  PROVE  DesktopInv'
  <1>0. /\ Fielded /\ Shown /\ InMemory /\ NothingConfirmedIsLost /\ Alone
        /\ Task(t) /\ DesktopSound(t) /\ t.end = "running"
        /\ UNCHANGED <<tab, vault, keyring, package, confirmed>>
        /\ deleted' = (deleted /\ (t.op = "enroll" => disk'.identity = Nil))
    BY DEF DesktopInv, DesktopSound, Work, WorkFails, StillDeleted
  <1>1. PICK end \in {"ok", "error"} :
           /\ Becomes(t, [t EXCEPT !.end = end])
           /\ end = "ok" => disk' = Done(t) /\ Possible(t)
           /\ disk' \in {disk} \cup CutShort(t) \/ (disk' = Done(t) /\ Possible(t))
    BY DEF Work, WorkFails
  <1>. DEFINE now == [t EXCEPT !.end = end]
  <1>2. tasks' = {now}
    BY <1>0, <1>1, BecomesOnly
  <1>3. Task(now) /\ now.op = t.op /\ now.with = t.with /\ now.end = end
    BY <1>0 DEF Task
  <1>. HIDE DEF now
  <1>4. SUFFICES DesktopSound(now)' /\ Fielded' /\ Shown' /\ InMemory' /\ NothingConfirmedIsLost'
    BY <1>2 DEF DesktopInv, Alone
  <1>5. disk \in Disk /\ deleted' \in BOOLEAN /\ (deleted' => deleted)
    BY <1>0 DEF Fielded
  <1>6. CASE t.op \in {"create vault", "unlock vault"}
    <2>1. t.with = vault.path
      BY <1>0, <1>6 DEF DesktopSound, OfVault, OfKeyring, OfIdentity, OfPackage
    <2>2. CutShort(t) = {}
      BY <1>6 DEF CutShort
    <2>3. /\ disk' \in {disk, [disk EXCEPT !.vaults[vault.path] = "whole"]}
          /\ end = "ok" => \/ disk' = [disk EXCEPT !.vaults[vault.path] = "whole"]
                           \/ disk' = disk /\ disk.vaults[vault.path] = "whole"
      <3>1. CASE t.op = "create vault"
        <4>1. Done(t) = [disk EXCEPT !.vaults[vault.path] = "whole"]
          BY <2>1, <3>1 DEF Done
        <4>. QED
          BY <1>1, <2>2, <4>1
      <3>2. CASE t.op = "unlock vault"
        <4>1. Done(t) = disk /\ (Possible(t) => disk.vaults[vault.path] = "whole")
          BY <2>1, <3>2 DEF Done, Possible
        <4>. QED
          BY <1>1, <2>2, <4>1
      <3>. QED
        BY <1>6, <3>1, <3>2
    <2>5. /\ disk' \in Disk /\ disk'.identity = disk.identity
          /\ disk'.packages = disk.packages
          /\ end = "ok" => disk'.vaults[vault.path] = "whole"
      BY <1>0, <2>3, VaultMade
    <2>4. DesktopSound(now)'
      BY <1>0, <1>3, <1>6, <2>1, <2>5 DEF DesktopSound, Task, OfVault
    <2>. QED
      BY <1>0, <1>5, <2>4, <2>5, DiskWorkedOn
  <1>7. CASE t.op = "create keyring"
    <2>1. t.with = Nil
      BY <1>0, <1>7 DEF DesktopSound, OfVault, OfKeyring, OfIdentity, OfPackage
    <2>2. /\ disk' \in Disk /\ disk'.identity = disk.identity
          /\ disk'.packages = disk.packages
      BY <1>0, <1>1, <1>5, <1>7, WorkOnKeyring
    <2>3. DesktopSound(now)'
      BY <1>3, <1>7, <2>1 DEF DesktopSound, Task, OfKeyring
    <2>. QED
      BY <1>0, <1>5, <2>2, <2>3, DiskWorkedOn
  <1>8. CASE t.op = "enroll"
    <2>1. /\ t.with = Nil /\ Unlocked /\ disk.identity = Nil
      BY <1>0, <1>8 DEF DesktopSound, OfVault, OfKeyring, OfIdentity, OfPackage
    <2>2. CutShort(t) = {} /\ Done(t) = [disk EXCEPT !.identity = {}]
      BY <1>8 DEF CutShort, Done
    <2>3. /\ Done(t) \in Disk /\ Done(t).identity # Nil /\ Done(t).packages = disk.packages
      BY <1>0, <2>2, WorkOnIdentity
    <2>4. DesktopSound(now)'
      BY <1>0, <1>1, <1>3, <1>8, <2>1 DEF DesktopSound, Task, OfKeyring, Unlocked
    <2>5. CASE disk' = disk
      BY <1>0, <1>5, <2>4, <2>5, DiskWorkedOn
    <2>6. CASE disk' = Done(t)
      BY <1>0, <1>5, <1>8, <2>1, <2>3, <2>4, <2>6, DiskWorkedOn
    <2>. QED
      BY <1>1, <2>2, <2>5, <2>6
  <1>9. CASE t.op = "attach"
    <2>1. OfIdentity(t) /\ CutShort(t) = {}
      BY <1>0, <1>9 DEF DesktopSound, OfVault, OfKeyring, OfPackage, CutShort
    <2>. DEFINE more == t.with.names \cup {t.with.name}
    <2>2. /\ more \in SUBSET Things /\ disk.identity = t.with.names /\ disk.identity # Nil
          /\ Done(t) = [disk EXCEPT !.identity = more]
      BY <1>0, <1>9, <2>1 DEF OfIdentity, Done
    <2>3. disk.identity \subseteq more
      BY <2>2
    <2>. HIDE DEF more
    <2>4. /\ Done(t) \in Disk /\ Done(t).identity = more /\ more # Nil
          /\ Done(t).packages = disk.packages
      BY <1>0, <2>2, WorkOnIdentity
    <2>5. DesktopSound(now)'
      BY <1>0, <1>1, <1>3, <2>1, <2>2, <2>4 DEF DesktopSound, Task, OfIdentity, Unlocked, more
    <2>6. CASE disk' = disk
      BY <1>0, <1>5, <2>5, <2>6, DiskWorkedOn
    <2>7. CASE disk' = Done(t)
      BY <1>0, <1>5, <2>2, <2>3, <2>4, <2>5, <2>7, DiskWorkedOn
    <2>. QED
      BY <1>1, <2>1, <2>6, <2>7
  <1>10. CASE t.op \in {"use vault", "unlock keyring", "demonstrate", "read identity", "package"}
    <2>0. Done(t) = disk /\ CutShort(t) = {}
      BY <1>10 DEF Done, CutShort
    <2>1. disk' = disk
      BY <1>1, <2>0
    <2>2. DesktopSound(now)
      BY <1>0, <1>3, <1>10 DEF DesktopSound, Task, OfVault, OfKeyring, OfIdentity, OfPackage
    <2>3. DesktopSound(now)'
      BY <1>0, <2>1, <2>2, DesktopSoundKept
    <2>. QED
      BY <1>0, <1>5, <2>1, <2>3, DiskWorkedOn
  <1>. QED
    BY <1>0, <1>6, <1>7, <1>8, <1>9, <1>10 DEF DesktopSound, OfVault, OfKeyring, OfIdentity, OfPackage

-----------------------------------------------------------------------------
(* The process *)

LEMMA NewTab ==
  ASSUME NEW onDisk \in [Vaults -> File]
  PROVE  LET v == [path |-> DefaultVault, service |-> Nil, label |-> "locked",
                   rows |-> IF onDisk[DefaultVault] = "whole" THEN DefaultVault ELSE Nil]
         IN  v \in VaultFields /\ v.service = Nil /\ v.label = "locked"
  BY DesktopAssumption DEF VaultFields

LEMMA Restarted ==
  ASSUME DesktopInv, Restart
  PROVE  DesktopInv'
  <1>0. /\ Fielded /\ Shown /\ InMemory /\ NothingConfirmedIsLost /\ disk \in Disk
        /\ tasks' = {} /\ UNCHANGED <<tab, confirmed, deleted>>
        /\ keyring' = [state |-> "none", label |-> "locked"]
        /\ package' = [path |-> Nil, state |-> Nil]
    BY DEF DesktopInv, Fielded, Restart
  <1>1. /\ disk' \in Disk /\ disk'.identity = disk.identity
        /\ disk'.packages = disk.packages
    <2>1. CASE disk' = disk
      BY <1>0, <2>1
    <2>2. ASSUME NEW t \in tasks, disk' \in CutShort(t)
          PROVE  /\ disk' \in Disk /\ disk'.identity = disk.identity
                 /\ disk'.packages = disk.packages
      <3>1. t.op = "create keyring"
        BY <2>2 DEF CutShort
      <3>. QED
        BY <1>0, <2>2, <3>1, WorkOnKeyring
    <2>. QED
      BY <2>1, <2>2 DEF Restart
  <1>2. vault' \in VaultFields /\ vault'.service = Nil /\ vault'.label = "locked"
    <2>1. disk'.vaults \in [Vaults -> File]
      BY <1>1 DEF Disk
    <2>. QED
      BY <2>1, NewTab DEF Restart, NewVaultTab
  <1>3. keyring' \in KeyringFields /\ package' \in PackageFields
    BY <1>0 DEF KeyringFields, PackageFields
  <1>4. Fielded' /\ Shown' /\ InMemory'
    BY <1>0, <1>1, <1>2, <1>3 DEF Fielded, Shown, InMemory, Unlocked
  <1>5. NothingConfirmedIsLost'
    BY <1>0, <1>1 DEF NothingConfirmedIsLost
  <1>. QED
    BY <1>0, <1>4, <1>5, Finished

LEMMA DesktopInitInv == DesktopInit => DesktopInv
  <1>. SUFFICES ASSUME DesktopInit PROVE DesktopInv
    OBVIOUS
  <1>1. PICK onDisk \in [Vaults -> File] :
           /\ disk = [vaults |-> onDisk, keyring |-> Missing, identity |-> Nil,
                      packages |-> [f \in Files |-> IF f \in Odd THEN Foreign ELSE Missing]]
           /\ vault = NewVaultTab(onDisk)
    BY DEF DesktopInit, File
  <1>2. vault \in VaultFields /\ vault.service = Nil /\ vault.label = "locked"
    BY <1>1, NewTab DEF NewVaultTab
  <1>3. /\ disk \in Disk
        /\ disk.packages = [f \in Files |-> IF f \in Odd THEN Foreign ELSE Missing]
    <2>1. Missing \in File
      BY DEF File
    <2>. QED
      BY <1>1, <2>1 DEF Disk
  <1>4. keyring \in KeyringFields /\ package \in PackageFields
    BY DEF DesktopInit, KeyringFields, PackageFields
  <1>5. Missing \notin Package /\ Foreign \notin Package /\ Foreign # Missing
    BY DesktopAssumption
  <1>6. Fielded /\ Shown /\ InMemory
    BY <1>2, <1>3, <1>4, <1>5 DEF DesktopInit, Fielded, Shown, InMemory, Unlocked
  <1>7. NothingConfirmedIsLost
    BY <1>3, <1>5 DEF DesktopInit, NothingConfirmedIsLost
  <1>. QED
    BY <1>6, <1>7 DEF DesktopInit, DesktopInv, Alone

LEMMA DesktopNextInv == DesktopInv /\ [DesktopNext]_desktopVars => DesktopInv'
  <1>. SUFFICES ASSUME DesktopInv, [DesktopNext]_desktopVars PROVE DesktopInv'
    OBVIOUS
  <1>1. CASE Handler
    BY <1>1, VaultHandlers, KeyringHandlers, IdentityHandlers, PackageHandlers DEF Handler
  <1>2. CASE Restart
    BY <1>2, Restarted
  <1>3. ASSUME NEW t \in tasks, Ends(t) \/ MainLoop(t) PROVE DesktopInv'
    BY <1>3, Worked, Retimed, Shows, VaultDelivered, BiometricsDelivered, PackageDelivered
       DEF Ends, MainLoop, Delivered
  <1>4. CASE UNCHANGED desktopVars
    <2>1. UnchangedState /\ tasks' = tasks
          /\ UNCHANGED <<vault, keyring, package, disk, confirmed>>
      BY <1>4 DEF desktopVars, UnchangedState
    <2>2. \A t \in tasks : DesktopSound(t)'
      BY <2>1, DesktopSoundKept DEF DesktopInv
    <2>. QED
      BY <2>1, <2>2, StateKept DEF DesktopInv, Alone
  <1>. QED
    BY <1>1, <1>2, <1>3, <1>4 DEF DesktopNext

LEMMA DesktopAlways == DesktopSpec => []DesktopInv
  BY DesktopInitInv, DesktopNextInv, PTL DEF DesktopSpec

\* A tab shows what it has, for any number of vaults and of package files: the
\* vault whose service and rows it holds, whether a key is held, and the package
\* of the path, but where something else was (tab_vault.py:157-161,
\* tab_biometrics.py:163-165, tab_packages.py:83-97).
THEOREM TabsTrue == DesktopSpec => []TabsTellTheTruth
  <1>1. DesktopInv => TabsTellTheTruth
    <2>. SUFFICES ASSUME DesktopInv PROVE TabsTellTheTruth
      OBVIOUS
    <2>1. Shown /\ InMemory /\ \A t \in tasks : DesktopSound(t)
      BY DEF DesktopInv
    <2>2. ASSUME NEW t \in tasks
          PROVE  /\ t.op = "use vault" /\ t.with.open => vault.label = "unlocked"
                 /\ t.op \in {"enroll", "attach", "read identity"}
                       => keyring.label = "unlocked"
      BY <2>1 DEF Shown, DesktopSound, OfVault, OfKeyring, OfIdentity, OfPackage
    <2>. QED
      BY <2>1, <2>2 DEF TabsTellTheTruth, Shown, InMemory, Current
  <1>. QED
    BY <1>1, DesktopAlways, PTL

\* What a user was told is saved is on disk until he removes it, or in the tab
\* while a save that failed half way has left nothing of its file; what he
\* deleted stays deleted; and no package is saved over that of another path, but
\* where something else was.  For any number of files, attachments and changes
\* (tab_biometrics.py:251, tab_packages.py:83-105).
THEOREM ConfirmedKept == DesktopSpec => []NothingConfirmedIsLost
  <1>1. DesktopInv => NothingConfirmedIsLost
    BY DEF DesktopInv
  <1>. QED
    BY <1>1, DesktopAlways, PTL

\* The tab, the files and every task hold what they are for: a task is one that
\* a handler starts, with what it captured, and what a tab has in memory is
\* never a file that could not be read.
THEOREM TabTyped == DesktopSpec => []TypeOK
  <1>1. DesktopInv => TypeOK
    <2>. SUFFICES ASSUME DesktopInv PROVE TypeOK
      OBVIOUS
    <2>1. Fielded
      BY DEF DesktopInv
    <2>2. ASSUME NEW t \in tasks PROVE [op |-> t.op, with |-> t.with] \in Operation
      <3>1. DesktopSound(t)
        BY DEF DesktopInv
      <3>2. CASE OfVault(t)
        <4>1. \/ t.op \in {"create vault", "unlock vault"} /\ t.with \in Vaults
              \/ t.op = "use vault" /\ t.with \in Service
          BY <2>1, <3>2, DesktopParts DEF OfVault
        <4>. QED
          BY <4>1 DEF Operation
      <3>3. CASE OfKeyring(t)
        <4>1. /\ t.with = Nil
              /\ t.op \in {"create keyring", "unlock keyring", "enroll", "read identity",
                           "demonstrate"}
          BY <3>3 DEF OfKeyring
        <4>. QED
          BY <4>1 DEF Operation
      <3>4. CASE OfIdentity(t)
        <4>1. t.op = "attach" /\ t.with \in [names : SUBSET Things, name : Things]
          BY <3>4 DEF OfIdentity
        <4>. QED
          BY <4>1 DEF Operation
      <3>5. CASE OfPackage(t)
        <4>1. t.op = "package" /\ t.with \in Package
          BY <3>5 DEF OfPackage
        <4>. QED
          BY <4>1 DEF Operation
      <3>. QED
        BY <3>1, <3>2, <3>3, <3>4, <3>5 DEF DesktopSound
    <2>3. \A t \in tasks : t.end \in {"running", "ok", "error"}
                           /\ t.poll \in {"waiting", "due", "never"}
      BY DEF DesktopInv, DesktopSound, Task
    <2>. QED
      BY <2>1, <2>2, <2>3 DEF Fielded, TypeOK
  <1>. QED
    BY <1>1, DesktopAlways, PTL
=============================================================================
