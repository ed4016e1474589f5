----------------------------- MODULE Recognition -----------------------------
(***************************************************************************)
(* Enrolling and verifying identities by voice, fingerprint and video:     *)
(* biometrics/app.py and the biometrics tab over engine/enrollment.py,     *)
(* engine/verification.py, features/liveness.py and crypto/factors.py.     *)
(*                                                                         *)
(* A command unlocks the keyring, reads one capture file per modality and  *)
(* seals a template or compares with one.  A video is first checked for    *)
(* motion, unless the user allows a static clip.  Meanwhile captures are   *)
(* made anew, identities deleted and enrolled, and files of the store      *)
(* restored, copied or put together by hand.                               *)
(***************************************************************************)
EXTENDS Naturals, Sequences

CONSTANTS
    Process,       \* command lines and tabs
    Id,            \* identities; each has a file of the store
    Key,           \* master keys
    Person,        \* what features tell apart
    Alike,         \* the pairs of them that score above a threshold
    Path,          \* capture files
    Captures,      \* what may come to be in each, and what its features keep
    Requests,      \* the sources users name: functions from modalities to paths
    MaxEvents,     \* bound: captures, events of the store, new keyrings
    None,
    Unreadable     \* the content of a file that is no capture, or of none

Modality == {"voice", "fingerprint", "video"}
Sample == [shows : Person, motion : {"moving", "still", "single frame"}]

ASSUME AlikeAssumption == Alike \subseteq Person \X Person
ASSUME RequestsAssumption ==
    \A s \in Requests :
        DOMAIN s # {} /\ DOMAIN s \subseteq Modality /\ \A m \in DOMAIN s : s[m] \in Path
ASSUME CapturesAssumption == Captures \in [Path -> SUBSET Sample]
ASSUME BoundAssumption == MaxEvents \in Nat

VARIABLES
    files,     \* what is in each capture file
    store,     \* the record in the file of each identity, or None
    key,       \* the master key of keyring.json
    op,        \* the command of each process, or None
    events     \* such events so far

vars == <<files, store, key, op, events>>

-----------------------------------------------------------------------------
(* Factors and templates *)

\* The digest is keyed and covers name and value, each framed.
Bind(k, name, value) == [name |-> name, mac |-> <<k, name, value>>]
Verifies(k, name, value, bound) == bound.name = name /\ bound.mac = <<k, name, value>>

\* What does not change about the machine while the model runs.
Fingerprint == "this machine"
BindDevice(k) == Bind(k, "device_binding", Fingerprint)
VerifyDevice(k, bound) == Verifies(k, "device_binding", Fingerprint, bound)

\* An envelope names what it was sealed under.
Seal(k, i, m, c) == [key |-> k, id |-> i, modality |-> m, vector |-> c]

\* A template opens under the key and the context it was sealed with.
Opens(k, i, m, t) == t = Seal(k, i, m, t.vector)

\* Seeded fault: a clip without a pair of frames is taken for a live one.
LiveUnlessStill(c) == c.motion # "still"

\* assess_liveness: motion energy reaches the threshold; a single frame has none.
Live(c) == c.motion = "moving"

\* asked and lenient are history: the modalities of the enrolment, and whether
\* a static clip was allowed or written between two readings.
NewRecord(i, k, asked, lenient) ==
    [id |-> i, binding |-> BindDevice(k), templates |-> [m \in Modality |-> None],
     asked |-> asked, lenient |-> lenient]

Template == [key : Key, id : Id, modality : Modality, vector : Sample]
Record == [id : Id, binding : {BindDevice(k) : k \in Key},
           templates : [Modality -> Template \cup {None}],
           asked : SUBSET Modality, lenient : BOOLEAN]

-----------------------------------------------------------------------------
(* Commands *)

\* The commands with these sources.
Commands(s) ==
    [kind : {"enroll", "verify"}, sources : {s}, lenient : BOOLEAN, anyMatch : BOOLEAN,
     key : Key, record : Record, gated : BOOLEAN, rewritten : BOOLEAN,
     results : [DOMAIN s -> BOOLEAN \cup {None}],
     probes : [DOMAIN s -> Sample \cup {None}], verdict : BOOLEAN \cup {None}]

ASSUME NoneAssumption ==
    /\ None \notin BOOLEAN /\ None \notin Sample /\ None \notin Template
    /\ None \notin Record /\ \A s \in Requests : None \notin Commands(s)

Todo(o) == {m \in DOMAIN o.sources : o.results[m] = None}

\* Command line and tab take the modalities in orders of their own; here, in any.
Due(o) == IF o = None THEN {} ELSE IF o.gated THEN {"video"} ELSE Todo(o)
Source(o, m) == files[o.sources[m]]

\* probes is history: the captures that were compared.
Command(kind, s, lenient, anyMatch, r) ==
    [kind |-> kind, sources |-> s, lenient |-> lenient, anyMatch |-> anyMatch,
     key |-> key, record |-> r, gated |-> FALSE, rewritten |-> FALSE,
     results |-> [m \in DOMAIN s |-> None], probes |-> [m \in DOMAIN s |-> None],
     verdict |-> None]

Starts(p, o) == op[p] = None /\ op' = [op EXCEPT ![p] = o]
Steps(p, o) == op' = [op EXCEPT ![p] = o] /\ UNCHANGED <<files, key, events>>

BeginEnroll(p, i, s, lenient) ==
    /\ store[i] = None
    /\ Starts(p, Command("enroll", s, lenient, FALSE,
                         NewRecord(i, key, DOMAIN s, lenient)))
    /\ UNCHANGED <<files, store, key, events>>

BeginVerify(p, i, s, lenient, anyMatch) ==
    /\ store[i] # None
    /\ Starts(p, Command("verify", s, lenient, anyMatch, store[i]))
    /\ UNCHANGED <<files, store, key, events>>

\* The template a comparison needs is there.
Has(o, m) == o.kind = "verify" => o.record.templates[m] # None

\* The reading of a video that is only about motion.
Gating(o, m) ==
    m \in Due(o) /\ m = "video" /\ ~o.lenient /\ ~o.gated /\ Has(o, m)

Gate(p, m) ==
    LET o == op[p]
    IN  /\ Gating(o, m) /\ Source(o, m) # Unreadable /\ Live(Source(o, m))
        /\ Steps(p, [o EXCEPT !.gated = TRUE]) /\ UNCHANGED store

\* Seeded fault: a video that fails the gate is left out of the verdict.
GateSkips(p, m) ==
    LET o == op[p]
    IN  /\ Gating(o, m) /\ o.kind = "verify"
        /\ Source(o, m) # Unreadable /\ ~Live(Source(o, m))
        /\ Steps(p, [o EXCEPT !.results["video"] = TRUE]) /\ UNCHANGED store

\* verify_modality returns before the template is opened.
GateFails(p, m) ==
    LET o == op[p]
    IN  /\ Gating(o, m) /\ o.kind = "verify"
        /\ Source(o, m) # Unreadable /\ ~Live(Source(o, m))
        /\ Steps(p, [o EXCEPT !.results["video"] = FALSE]) /\ UNCHANGED store

\* The reading that features are extracted from.
Extracting(o, m) == m \in Due(o) /\ ~Gating(o, m) /\ Has(o, m)

\* set_template
WithTemplate(r, m, t) == [r EXCEPT !.templates[m] = t]

EnrolledWith(o, m) ==
    LET t == Seal(o.key, o.record.id, m, Source(o, m))
        r == WithTemplate(o.record, m, t)
    IN  [o EXCEPT !.record = [r EXCEPT !.lenient = @ \/ o.rewritten],
                  !.results[m] = TRUE, !.gated = FALSE]

\* Seeded fault: the record is saved with each template.
EnrollSavingEach(p, m) ==
    LET o == op[p]
    IN  /\ Extracting(o, m) /\ o.kind = "enroll" /\ Source(o, m) # Unreadable
        /\ Steps(p, EnrolledWith(o, m))
        /\ store' = [store EXCEPT ![o.record.id] = EnrolledWith(o, m).record]

EnrollModality(p, m) ==
    LET o == op[p]
    IN  /\ Extracting(o, m) /\ o.kind = "enroll" /\ Source(o, m) # Unreadable
        /\ Steps(p, EnrolledWith(o, m)) /\ UNCHANGED store

VerifyModality(p, m) ==
    LET o == op[p]
        t == o.record.templates[m]
    IN  /\ Extracting(o, m) /\ o.kind = "verify"
        /\ Opens(o.key, o.record.id, m, t) /\ Source(o, m) # Unreadable
        /\ Steps(p, [o EXCEPT
               !.results[m] = <<t.vector.shows, Source(o, m).shows>> \in Alike,
               !.probes[m] = Source(o, m), !.gated = FALSE])
        /\ UNCHANGED store

\* EnrollmentError, VerificationError: nothing is saved or said.
Refused(p, m) ==
    LET o == op[p]
    IN  /\ m \in Due(o)
        /\ \/ ~Has(o, m)
           \/ Source(o, m) = Unreadable
           \/ /\ Gating(o, m) /\ o.kind = "enroll"
              /\ Source(o, m) # Unreadable /\ ~Live(Source(o, m))
           \/ /\ o.kind = "verify" /\ Extracting(o, m)
              /\ ~Opens(o.key, o.record.id, m, o.record.templates[m])
        /\ Steps(p, None) /\ UNCHANGED store

Save(p) ==
    LET o == op[p]
    IN  /\ o # None /\ o.kind = "enroll" /\ Todo(o) = {}
        /\ store' = [store EXCEPT ![o.record.id] = o.record]
        /\ Steps(p, None)

Decide(p) ==
    LET o == op[p]
    IN  /\ o # None /\ o.kind = "verify" /\ Todo(o) = {} /\ o.verdict = None
        /\ Steps(p, [o EXCEPT !.verdict =
               IF o.anyMatch THEN \E m \in DOMAIN o.results : o.results[m]
               ELSE \A m \in DOMAIN o.results : o.results[m]])
        /\ UNCHANGED store

\* A verdict is reported, or a process ends wherever it is.
End(p) == op[p] # None /\ Steps(p, None) /\ UNCHANGED store

Delete(i) ==
    /\ store[i] # None
    /\ store' = [store EXCEPT ![i] = None]
    /\ UNCHANGED <<files, key, op, events>>

-----------------------------------------------------------------------------
(* The surroundings *)

Event == events < MaxEvents /\ events' = events + 1

\* A capture file is written, perhaps between the two readings of a command.
Film(f, c) ==
    /\ Event
    /\ files' = [files EXCEPT ![f] = c]
    /\ op' = [p \in Process |->
                 IF op[p] # None /\ op[p].gated /\ op[p].sources["video"] = f
                 THEN [op[p] EXCEPT !.rewritten = TRUE] ELSE op[p]]
    /\ UNCHANGED <<store, key>>

Edit == Event /\ UNCHANGED <<files, op>>

\* The file of one identity is copied over that of another.
Copy(i, j) == Edit /\ store' = [store EXCEPT ![j] = store[i]] /\ UNCHANGED key

\* A sealed template is put in another slot or record; asked goes with it.
Transplant(i, m, j, n) ==
    /\ store[i] # None /\ store[j] # None /\ store[i].templates[m] # None
    /\ Edit
    /\ store' = [store EXCEPT ![j].templates[n] = store[i].templates[m],
                              ![j].asked = {}, ![j].lenient = TRUE]
    /\ UNCHANGED key

\* keyring.json is removed and made anew by the next command.
NewKeyring(k) == k # key /\ Edit /\ key' = k /\ UNCHANGED store

Init ==
    /\ files \in [Path -> UNION {Captures[f] : f \in Path} \cup {Unreadable}]
    /\ \A f \in Path : files[f] \in Captures[f] \cup {Unreadable}
    /\ store = [i \in Id |-> None]
    /\ key \in Key
    /\ op = [p \in Process |-> None]
    /\ events = 0

Begin(p) ==
    \E i \in Id, s \in Requests, lenient \in BOOLEAN :
        \/ BeginEnroll(p, i, s, lenient)
        \/ \E anyMatch \in BOOLEAN : BeginVerify(p, i, s, lenient, anyMatch)

Next ==
    \/ \E p \in Process :
          \/ Begin(p) \/ Save(p) \/ Decide(p) \/ End(p)
          \/ \E m \in Modality :
                \/ Gate(p, m) \/ GateFails(p, m) \/ EnrollModality(p, m)
                \/ VerifyModality(p, m) \/ Refused(p, m)
    \/ \E i \in Id : Delete(i)
    \/ \E f \in Path : \E c \in Captures[f] \cup {Unreadable} : Film(f, c)
    \/ \E i, j \in Id : Copy(i, j) \/ \E m, n \in Modality : Transplant(i, m, j, n)
    \/ \E k \in Key : NewKeyring(k)

Spec == Init /\ [][Next]_vars
-----------------------------------------------------------------------------
(* Properties *)

\* What a user is told about an identity is exactly what the captures say: each
\* modality he named (or one, if any will do) shows somebody like the one who
\* was enrolled for that very identity and modality under this keyring, and a
\* modality that fails on the way is not forgotten, whatever happened to files
\* and store (verification.py:161-164).
VerdictExact ==
    \A p \in Process :
        LET o == op[p]
            Fits(m) == \E t \in {o.record.templates[m]} :
                /\ o.probes[m] # None /\ t # None
                /\ t.key = o.key /\ t.id = o.record.id /\ t.modality = m
                /\ <<t.vector.shows, o.probes[m].shows>> \in Alike
        IN  o # None /\ o.verdict # None =>
                (o.verdict <=> IF o.anyMatch THEN \E m \in DOMAIN o.sources : Fits(m)
                               ELSE \A m \in DOMAIN o.sources : Fits(m))

Moves(c) == c.motion = "moving"

\* A clip without motion neither becomes a template nor matches one unless the
\* user allows it or the file is written between the two readings
\* (liveness.py:43-48).
StillsRefused ==
    /\ \A i \in Id :
          store[i] # None /\ ~store[i].lenient /\ store[i].templates["video"] # None
              => Moves(store[i].templates["video"].vector)
    /\ \A p \in Process :
          op[p] # None /\ ~op[p].lenient /\ ~op[p].rewritten =>
              \A m \in DOMAIN op[p].sources \cap {"video"} :
                  op[p].probes[m] = None \/ Moves(op[p].probes[m])

\* An enrolment is stored as a whole or not at all: whatever fails on the way
\* and whoever else enrols, a record has a template for each modality that one
\* command named, and these and the device binding are sealed under one key and
\* the record's own identity, so that one unlocking opens them all.
EnrolledWhole ==
    \A i \in Id :
        store[i] # None /\ store[i].asked # {} =>
            \E k \in Key :
                /\ VerifyDevice(k, store[i].binding)
                /\ \A m \in Modality :
                      IF m \in store[i].asked
                      THEN store[i].templates[m] # None
                           /\ Opens(k, store[i].id, m, store[i].templates[m])
                      ELSE store[i].templates[m] = None
=============================================================================
