---------------------------- MODULE PackagesProofs ----------------------------
(***************************************************************************)
(* Proofs about Packages: types, that every file is a sound package, that  *)
(* the audit directory covers the custody chain, and that the chain is     *)
(* complete as long as nobody works on something stale.                    *)
(***************************************************************************)
EXTENDS Packages, SequenceTheorems, FiniteSetTheorems, TLAPS

Busy(p) == op[p] # Idle

OpInv == \A p \in Process : Busy(p) =>
    /\ op[p].pc # "idle"
    /\ op[p].state \in Package
    /\ op[p].state.chain # << >>

TInv == TypeOK /\ OpInv
-----------------------------------------------------------------------------
LEMMA Marks ==
    /\ \A g \in Package : Parses(g)
    /\ \A g \in Package \cup {None} : Usable(g) => g \in Package
    /\ \A g \in Package \cup {Absent, Empty, Torn} : Usable(g) => g \in Package
    /\ \A k \in Key : k # None
BY MarksAssumption DEF Usable, Parses

LEMMA EntryTypes == \A a \in Action, p \in Person : Entry(a, p) \in Event
BY DEF Entry, Event

LEMMA LoggedFields ==
    ASSUME NEW g \in Package, NEW a \in Action, NEW p \in Person
    PROVE  /\ Logged(g, a, p) \in Package
           /\ Logged(g, a, p).key = g.key
           /\ Logged(g, a, p).slots = g.slots
           /\ Logged(g, a, p).chain = Append(g.chain, Entry(a, p))
<1>1. g.chain \in Seq(Event) /\ Entry(a, p) \in Event
      BY EntryTypes DEF Package
<1>2. Append(g.chain, Entry(a, p)) \in Seq(Event)
      BY <1>1
<1>3. Logged(g, a, p) = [key |-> g.key, slots |-> g.slots, chain |-> Append(g.chain, Entry(a, p))]
      <2>1. \A x : [g EXCEPT !.chain = x] = [key |-> g.key, slots |-> g.slots, chain |-> x]
            BY DEF Package
      <2> QED  BY <2>1 DEF Logged
<1> QED  BY <1>2, <1>3 DEF Package

\* An entry more leaves the genesis entry where it is.
LEMMA ChainGrows ==
    ASSUME NEW c \in Seq(Event), NEW e \in Event, VerifyChain(c)
    PROVE  VerifyChain(Append(c, e))
<1>1. Len(c) \in Nat \ {0} /\ Append(c, e)[1] = c[1]
      BY DEF VerifyChain
<1> QED  BY <1>1 DEF VerifyChain

\* What one more entry says about the recipients.
LEMMA MembersAppend ==
    ASSUME NEW c \in Seq(Event), NEW a \in Action, NEW p \in Person
    PROVE  Members(Append(c, Entry(a, p))) =
               IF a \in {"created", "recipient_added"} THEN Members(c) \cup {p}
               ELSE IF a = "recipient_removed" THEN Members(c) \ {p}
               ELSE Members(c)
<1> DEFINE e == Entry(a, p)
           d == Append(c, e)
           n == Len(c) + 1
           In(s, q, i) == s[i] \in {Entry("created", q), Entry("recipient_added", q)}
           Out(s, q, i) == s[i] = Entry("recipient_removed", q)
<1>1. /\ DOMAIN c = 1..Len(c) /\ DOMAIN d = 1..n /\ Len(c) \in Nat
      /\ d[n] = e /\ \A i \in 1..Len(c) : d[i] = c[i]
      BY EntryTypes
<1>2. ASSUME NEW q \in Person
      PROVE  q \in Members(d) <=>
                 \/ In(d, q, n)
                 \/ q \in Members(c) /\ ~Out(d, q, n)
      <2>1. CASE In(d, q, n)
            <3>1. n \in DOMAIN d /\ \A j \in DOMAIN d : ~(j > n)
                  BY <1>1
            <3>2. q \in Members(d)
                  BY <2>1, <3>1 DEF Members
            <3> QED  BY <2>1, <3>2
      <2>2. ASSUME ~In(d, q, n), q \in Members(d)
            PROVE  q \in Members(c) /\ ~Out(d, q, n)
            <3>1. PICK i \in DOMAIN d : In(d, q, i) /\ \A j \in DOMAIN d : j > i => ~Out(d, q, j)
                  BY <2>2 DEF Members
            <3>2. i \in 1..Len(c) /\ n > i
                  BY <1>1, <2>2, <3>1
            <3>3. In(c, q, i) /\ \A j \in DOMAIN c : j > i => ~Out(c, q, j)
                  <4>1. In(c, q, i)
                        BY <1>1, <3>1, <3>2
                  <4>2. ASSUME NEW j \in DOMAIN c, j > i
                        PROVE  ~Out(c, q, j)
                        <5>1. j \in DOMAIN d /\ d[j] = c[j]
                              BY <1>1
                        <5> QED  BY <3>1, <4>2, <5>1
                  <4> QED  BY <4>1, <4>2
            <3>4. ~Out(d, q, n)
                  BY <1>1, <3>1, <3>2
            <3>5. i \in DOMAIN c
                  BY <1>1, <3>2
            <3> QED  BY <3>3, <3>4, <3>5 DEF Members
      <2>3. ASSUME q \in Members(c), ~Out(d, q, n)
            PROVE  q \in Members(d)
            <3>1. PICK i \in DOMAIN c : In(c, q, i) /\ \A j \in DOMAIN c : j > i => ~Out(c, q, j)
                  BY <2>3 DEF Members
            <3>2. i \in DOMAIN d /\ In(d, q, i)
                  BY <1>1, <3>1
            <3>3. \A j \in DOMAIN d : j > i => ~Out(d, q, j)
                  <4>1. ASSUME NEW j \in DOMAIN d, j > i
                        PROVE  ~Out(d, q, j)
                        <5>1. CASE j = n
                              BY <2>3, <5>1
                        <5>2. CASE j # n
                              BY <1>1, <3>1, <4>1, <5>2
                        <5> QED  BY <5>1, <5>2
                  <4> QED  BY <4>1
            <3> QED  BY <3>2, <3>3 DEF Members
      <2> QED  BY <2>1, <2>2, <2>3
<1>3. \A q \in Person :
          /\ In(d, q, n) <=> q = p /\ a \in {"created", "recipient_added"}
          /\ Out(d, q, n) <=> q = p /\ a = "recipient_removed"
      BY <1>1 DEF Entry
<1>4. Members(c) \subseteq Person /\ Members(d) \subseteq Person
      BY DEF Members
<1> HIDE DEF In, Out, d, n
<1> QED  BY <1>2, <1>3, <1>4 DEF d, e

LEMMA OccurrencesAppend ==
    ASSUME NEW c \in Seq(Event), NEW e \in Event, NEW f \in Event
    PROVE  /\ Occurrences(f, c) \in Nat
           /\ Occurrences(f, Append(c, e)) = Occurrences(f, c) + IF e = f THEN 1 ELSE 0
<1> DEFINE S == {i \in DOMAIN c : c[i] = f}
           T == {i \in DOMAIN Append(c, e) : Append(c, e)[i] = f}
<1>1. DOMAIN c = 1..Len(c) /\ Len(c) \in Nat
      OBVIOUS
<1>2. IsFiniteSet(S) /\ Cardinality(S) \in Nat
      <2>1. IsFiniteSet(1..Len(c))
            BY <1>1, FS_Interval
      <2>2. S \in SUBSET (1..Len(c))
            BY <1>1
      <2>3. IsFiniteSet(S)
            BY <2>1, <2>2, FS_Subset
      <2> QED  BY <2>3, FS_CardinalityType
<1>3. T = IF e = f THEN S \cup {Len(c) + 1} ELSE S
      <2>1. /\ DOMAIN Append(c, e) = 1..(Len(c) + 1)
            /\ Append(c, e)[Len(c) + 1] = e
            /\ \A i \in 1..Len(c) : Append(c, e)[i] = c[i]
            OBVIOUS
      <2> QED  BY <1>1, <2>1
<1>4. Len(c) + 1 \notin S
      BY <1>1
<1>5. Cardinality(S \cup {Len(c) + 1}) = Cardinality(S) + 1
      BY <1>2, <1>4, FS_AddElement
<1>6. Occurrences(f, c) = Cardinality(S) /\ Occurrences(f, Append(c, e)) = Cardinality(T)
      BY DEF Occurrences
<1>7. CASE e = f
      BY <1>2, <1>3, <1>5, <1>6, <1>7
<1>8. CASE e # f
      <2>1. T = S
            BY <1>3, <1>8
      <2>2. Occurrences(f, Append(c, e)) = Occurrences(f, c)
            BY <1>6, <2>1
      <2>3. Occurrences(f, c) \in Nat
            BY <1>2, <1>6
      <2> HIDE DEF S, T
      <2> QED  BY <1>8, <2>2, <2>3
<1> QED  BY <1>7, <1>8

LEMMA OccurrencesInNone ==
    ASSUME NEW f
    PROVE  Occurrences(f, << >>) = 0
<1>1. {i \in DOMAIN << >> : << >>[i] = f} = {}
      OBVIOUS
<1> QED  BY <1>1, FS_EmptySet DEF Occurrences
-----------------------------------------------------------------------------
\* The four commands that change a package: what they make of what they load.
Makes(p, g, e) ==
    \/ /\ Usable(Loaded(p))
       /\ g.chain = Append(Loaded(p).chain, e)
       /\ Sound(Loaded(p)) => Sound(g)
    \/ /\ file = Absent
       /\ g.chain = <<e>>
       /\ Sound(g)

Command(p) ==
    \/ \E who \in Person : Create(p, who) \/ Open(p, who)
    \/ \E who, by \in Person : AddRecipient(p, who, by) \/ RemoveRecipient(p, who, by)

LEMMA Commands ==
    ASSUME TypeOK, NEW p \in Process, Command(p)
    PROVE  \E g \in Package, e \in Event :
               /\ Start(p, g) /\ minted' \subseteq Key
               /\ g.chain # << >>
               /\ Makes(p, g, e)
<1> DEFINE Goal == \E g \in Package, e \in Event :
               /\ Start(p, g) /\ minted' \subseteq Key
               /\ g.chain # << >>
               /\ Makes(p, g, e)
           l == Loaded(p)
<1>1. minted \subseteq Key /\ (Usable(l) => l \in Package)
      BY Marks DEF TypeOK, Loaded
<1>2. ASSUME NEW who \in Person, Create(p, who)
      PROVE  Goal
      <2>1. PICK k \in Key : Start(p, NewPackage(k, who)) /\ minted' = minted \cup {k}
            BY <1>2 DEF Create
      <2> DEFINE g == NewPackage(k, who)
                 e == Entry("created", who)
      <2>2. e \in Event
            BY EntryTypes DEF Action
      <2>3. g \in Package /\ g.chain = <<e>> /\ g.key = k
            /\ \A q \in Person : g.slots[q] = IF q = who THEN k ELSE None
            <3>1. <<e>> \in Seq(Event)
                  BY <2>2
            <3> QED  BY <3>1 DEF NewPackage, NewChain, Package
      <2>4. Recipients(g) = {who}
            BY <2>3, Marks DEF Recipients
      <2>5. Members(g.chain) = {who}
            <3>1. Members(<< >>) = {}
                  BY DEF Members
            <3>2. <<e>> = Append(<< >>, e) /\ << >> \in Seq(Event)
                  BY <2>2
            <3>3. Members(Append(<< >>, e)) = Members(<< >>) \cup {who}
                  BY <3>2, MembersAppend, Zenon DEF Action
            <3> QED  BY <2>3, <3>1, <3>2, <3>3
      <2>6. Sound(g)
            <3>1. VerifyChain(g.chain)
                  BY <2>3 DEF VerifyChain, Entry
            <3> QED  BY <2>3, <2>4, <2>5, <3>1 DEF Sound
      <2>7. file = Absent
            BY <1>2 DEF Create
      <2>8. minted' \subseteq Key /\ g.chain # << >>
            BY <1>1, <2>1, <2>3
      <2> HIDE DEF g, e
      <2> QED  BY <2>1, <2>2, <2>3, <2>6, <2>7, <2>8 DEF Makes, g
<1>3. ASSUME NEW who \in Person, Open(p, who)
      PROVE  Goal
      <2> DEFINE e == Entry("opened", who)
                 g == Logged(l, "opened", who)
      <2>1. l \in Package /\ Usable(l) /\ Start(p, g) /\ minted' = minted
            BY <1>1, <1>3 DEF Open
      <2>2. g \in Package /\ g.key = l.key /\ g.slots = l.slots /\ g.chain = Append(l.chain, e)
            BY <2>1, LoggedFields DEF Action
      <2>3. e \in Event /\ l.chain \in Seq(Event)
            BY <2>1, EntryTypes DEF Action, Package
      <2>4. Members(g.chain) = Members(l.chain)
            <3>1. "opened" \in Action
                  BY DEF Action
            <3>2. Members(Append(l.chain, e)) = Members(l.chain)
                  BY <2>3, <3>1, MembersAppend
            <3> QED  BY <2>2, <3>2
      <2>5. Sound(l) => Sound(g)
            <3>1. VerifyChain(l.chain) => VerifyChain(g.chain)
                  BY <2>2, <2>3, ChainGrows
            <3> QED  BY <2>2, <2>4, <3>1 DEF Sound, Recipients
      <2>6. g.chain # << >>
            BY <2>2, <2>3
      <2> HIDE DEF g, e, l
      <2> QED  BY <1>1, <2>1, <2>2, <2>3, <2>5, <2>6 DEF Makes, l
<1>4. ASSUME NEW who \in Person, NEW by \in Person, AddRecipient(p, who, by)
      PROVE  Goal
      <2> DEFINE e == Entry("recipient_added", who)
                 h == Logged(l, "recipient_added", who)
                 g == Added(l, who, by)
      <2>1. /\ l \in Package /\ Usable(l) /\ Start(p, g) /\ minted' = minted
            /\ by \in Recipients(l)
            BY <1>1, <1>4 DEF AddRecipient
      <2>2. h \in Package /\ h.key = l.key /\ h.slots = l.slots /\ h.chain = Append(l.chain, e)
            BY <2>1, LoggedFields DEF Action
      <2>3. e \in Event /\ l.chain \in Seq(Event)
            BY <2>1, EntryTypes DEF Action, Package
      <2>4. /\ g \in Package /\ g.key = l.key /\ g.chain = h.chain
            /\ g.slots = [l.slots EXCEPT ![who] = l.slots[by]]
            BY <2>1, <2>2 DEF Added, ContentKey, Package
      <2>5. Members(g.chain) = Members(l.chain) \cup {who}
            <3>1. "recipient_added" \in Action
                  BY DEF Action
            <3>2. Members(Append(l.chain, e)) = Members(l.chain) \cup {who}
                  BY <2>3, <3>1, MembersAppend, Zenon
            <3> QED  BY <2>2, <2>4, <3>2
      <2>6. Sound(l) => Sound(g)
            <3>1. l.slots \in [Person -> Key \cup {None}] /\ l.slots[by] # None
                  BY <2>1 DEF Package, Recipients
            <3>2. Recipients(g) = Recipients(l) \cup {who}
                  BY <2>4, <3>1 DEF Recipients
            <3>3. VerifyChain(l.chain) => VerifyChain(g.chain)
                  BY <2>2, <2>3, <2>4, ChainGrows
            <3> QED  BY <2>1, <2>4, <2>5, <3>1, <3>2, <3>3 DEF Sound, Recipients
      <2>7. g.chain # << >>
            BY <2>2, <2>3, <2>4
      <2>8. g.chain = Append(l.chain, e)
            BY <2>2, <2>4
      <2> HIDE DEF g, e, l
      <2> QED  BY <1>1, <2>1, <2>3, <2>4, <2>6, <2>7, <2>8 DEF Makes, l
<1>5. ASSUME NEW who \in Person, NEW by \in Person, RemoveRecipient(p, who, by)
      PROVE  Goal
      <2> DEFINE e == Entry("recipient_removed", who)
                 h == Logged(l, "recipient_removed", who)
                 g == Removed(l, who)
      <2>1. /\ l \in Package /\ Usable(l) /\ Start(p, g) /\ minted' = minted
            /\ who \in Recipients(l) /\ Recipients(l) # {who}
            BY <1>1, <1>5 DEF RemoveRecipient
      <2>2. h \in Package /\ h.key = l.key /\ h.slots = l.slots /\ h.chain = Append(l.chain, e)
            BY <2>1, LoggedFields DEF Action
      <2>3. e \in Event /\ l.chain \in Seq(Event)
            BY <2>1, EntryTypes DEF Action, Package
      <2>4. /\ g \in Package /\ g.key = l.key /\ g.chain = h.chain
            /\ g.slots = [l.slots EXCEPT ![who] = None]
            BY <2>1, <2>2 DEF Removed, Package
      <2>5. Members(g.chain) = Members(l.chain) \ {who}
            <3>1. "recipient_removed" \in Action
                  BY DEF Action
            <3>2. Members(Append(l.chain, e)) = Members(l.chain) \ {who}
                  BY <2>3, <3>1, MembersAppend, SMT
            <3> QED  BY <2>2, <2>4, <3>2
      <2>6. Sound(l) => Sound(g)
            <3>1. l.slots \in [Person -> Key \cup {None}]
                  BY <2>1 DEF Package
            <3>2. Recipients(g) = Recipients(l) \ {who}
                  BY <2>4, <3>1 DEF Recipients
            <3>3. VerifyChain(l.chain) => VerifyChain(g.chain)
                  BY <2>2, <2>3, <2>4, ChainGrows
            <3> QED  BY <2>1, <2>4, <2>5, <3>1, <3>2, <3>3 DEF Sound, Recipients
      <2>7. g.chain # << >>
            BY <2>2, <2>3, <2>4
      <2>8. g.chain = Append(l.chain, e)
            BY <2>2, <2>4
      <2> HIDE DEF g, e, l
      <2> QED  BY <1>1, <2>1, <2>3, <2>4, <2>6, <2>7, <2>8 DEF Makes, l
<1> QED  BY <1>2, <1>3, <1>4, <1>5 DEF Command
-----------------------------------------------------------------------------
(* Types.                                                                  *)

LEMMA ChangeType ==
    ASSUME TInv, NEW p \in Process, Busy(p)
    PROVE  /\ Change(p) \in Event
           /\ op[p].state \in Package
           /\ \E c \in Seq(Event) : op[p].state.chain = Append(c, Change(p))
<1> DEFINE s == op[p].state.chain
<1>1. s \in Seq(Event) /\ s # << >> /\ op[p].state \in Package
      BY DEF TInv, OpInv, Package
<1>2. Len(s) \in Nat \ {0} /\ s[Len(s)] \in Event
      BY <1>1
<1>3. Change(p) = s[Len(s)]
      BY DEF Change
<1>4. PICK c \in Seq(Event), e \in Event : s = Append(c, e)
      <2>1. s = Append(SubSeq(s, 1, Len(s) - 1), s[Len(s)])
            BY <1>1, <1>2
      <2>2. SubSeq(s, 1, Len(s) - 1) \in Seq(Event)
            BY <1>1, <1>2, SubSeqProperties
      <2> QED  BY <1>2, <2>1, <2>2
<1>5. e = s[Len(s)]
      BY <1>4
<1> QED  BY <1>1, <1>2, <1>3, <1>4, <1>5

\* Every step is a command that begins, or does to the package in hand one of
\* the things that end it.
Ends(p) == Audit(p) \/ Truncate(p) \/ Fill(p) \/ SaveRefused(p) \/ Fail(p) \/ Exit(p)

LEMMA Steps ==
    ASSUME Next
    PROVE  \E p \in Process :
               Command(p) \/ Choose(p) \/ Ends(p) \/ \E who \in Person : DenyOpen(p, who)
BY DEF Next, Command, Ends

LEMMA InitTyped == Init => TInv
<1>1. << >> \in Seq(Event)
      OBVIOUS
<1>2. Init => TypeOK
      <2> SUFFICES ASSUME Init PROVE TypeOK
          OBVIOUS
      <2>1. Idle \in Op /\ op \in [Process -> Op]
            BY DEF Init, Idle, Op
      <2>2. audit \in [Event -> 0..MaxAudits] /\ mishaps \in 0..MaxMishaps
            BY BoundAssumption DEF Init
      <2> QED  BY <1>1, <2>1, <2>2 DEF Init, TypeOK
<1>3. Init => OpInv
      BY DEF Init, OpInv, Busy
<1> QED  BY <1>2, <1>3 DEF TInv

LEMMA StepTyped == TInv /\ [Next]_vars => TInv'
<1> SUFFICES ASSUME TInv, [Next]_vars PROVE TInv'
    OBVIOUS
<1> USE DEF history
<1>t. TypeOK /\ OpInv
      BY DEF TInv
<1>1. CASE UNCHANGED vars
      BY <1>t, <1>1 DEF TInv, TypeOK, OpInv, Busy, vars
<1>2. ASSUME NEW p \in Process, Command(p)
      PROVE  TInv'
      <2>1. PICK g \in Package, e \in Event :
                Start(p, g) /\ minted' \subseteq Key /\ g.chain # << >>
            BY <1>t, <1>2, Commands
      <2>2. TypeOK'
            <3>1. op' \in [Process -> Op]
                  BY <1>t, <2>1 DEF Start, TypeOK, Op
            <3>2. overlapped' \in BOOLEAN /\ stale' \in BOOLEAN
                  BY <1>t, <2>1 DEF Start, TypeOK
            <3> QED  BY <1>t, <2>1, <3>1, <3>2 DEF Start, TypeOK
      <2>3. OpInv'
            BY <1>t, <2>1 DEF Start, TypeOK, OpInv, Busy
      <2> QED  BY <2>2, <2>3 DEF TInv
<1>3. ASSUME NEW p \in Process, Choose(p)
      PROVE  TInv'
      BY <1>t, <1>3, Marks DEF Choose, TInv, TypeOK, OpInv, Busy
<1>4. ASSUME NEW p \in Process, NEW who \in Person, DenyOpen(p, who)
      PROVE  TInv'
      <2>1. audit' \in [Event -> 0..MaxAudits]
            BY <1>t, <1>4, EntryTypes, BoundAssumption DEF DenyOpen, TypeOK, Action
      <2>2. mishaps' \in 0..MaxMishaps
            BY <1>t, <1>4, BoundAssumption DEF DenyOpen, Mishap, TypeOK
      <2> QED  BY <1>t, <1>4, <2>1, <2>2 DEF DenyOpen, TInv, TypeOK, OpInv, Busy
<1>5. ASSUME NEW p \in Process, Ends(p)
      PROVE  TInv'
      <2>1. CASE Audit(p)
            <3>1. Busy(p) /\ op[p] \in Op
                  BY <1>t, <2>1 DEF Audit, Busy, Idle, TypeOK
            <3>2. audit' \in [Event -> 0..MaxAudits]
                  <4>1. Change(p) \in Event
                        BY <1>t, <3>1, ChangeType DEF TInv
                  <4> QED  BY <1>t, <2>1, <4>1, BoundAssumption DEF Audit, TypeOK
            <3>3. op' \in [Process -> Op]
                  BY <1>t, <2>1, <3>1 DEF Audit, TypeOK, Op
            <3>4. OpInv'
                  BY <1>t, <2>1, <3>1 DEF Audit, TypeOK, OpInv, Busy, Op
            <3> QED  BY <1>t, <2>1, <3>2, <3>3, <3>4 DEF Audit, TInv, TypeOK
      <2>2. CASE Truncate(p)
            <3>1. Busy(p) /\ op[p] \in Op
                  BY <1>t, <2>2 DEF Truncate, Busy, Idle, TypeOK
            <3>2. held' \in [Process -> Package \cup {None}]
                  BY <1>t, <2>2, <3>1 DEF Truncate, Kept, TypeOK, Op
            <3>3. op' \in [Process -> Op]
                  BY <1>t, <2>2, <3>1 DEF Truncate, TypeOK, Op
            <3>4. OpInv'
                  BY <1>t, <2>2, <3>1 DEF Truncate, TypeOK, OpInv, Busy, Op
            <3> QED  BY <1>t, <2>2, <3>2, <3>3, <3>4 DEF Truncate, TInv, TypeOK
      <2>3. ASSUME op' = [op EXCEPT ![p] = Idle]
            PROVE  op' \in [Process -> Op] /\ OpInv'
            BY <1>t, <2>3 DEF TypeOK, OpInv, Busy, Op, Idle
      <2>4. CASE Fill(p)
            <3>1. Busy(p)
                  BY <2>4 DEF Fill, Busy, Idle
            <3>2. Change(p) \in Event /\ op[p].state \in Package
                  BY <1>t, <3>1, ChangeType DEF TInv
            <3>3. log' \in Seq(Event)
                  BY <1>t, <2>4, <3>2 DEF Fill, TypeOK
            <3>4. file' \in Package \cup {Torn}
                  BY <2>4, <3>2 DEF Fill
            <3> QED  BY <1>t, <2>3, <2>4, <3>3, <3>4 DEF Fill, TInv, TypeOK
      <2>m. ASSUME Mishap
            PROVE  mishaps' \in 0..MaxMishaps
            BY <1>t, <2>m, BoundAssumption DEF Mishap, TypeOK
      <2>5. CASE SaveRefused(p)
            <3>1. op[p] \in Op
                  BY <1>t DEF TypeOK
            <3>2. held' \in [Process -> Package \cup {None}]
                  BY <1>t, <2>5, <3>1 DEF SaveRefused, Kept, TypeOK, Op
            <3> QED  BY <1>t, <2>3, <2>5, <2>m, <3>2 DEF SaveRefused, TInv, TypeOK
      <2>6. CASE Fail(p)
            <3>1. file' \in Package \cup {Absent, Empty, Torn}
                  BY <1>t, <2>6 DEF Fail, HalfWritten, TypeOK
            <3> QED  BY <1>t, <2>3, <2>6, <2>m, <3>1 DEF Fail, TInv, TypeOK
      <2>7. CASE Exit(p)
            <3>1. file' \in Package \cup {Absent, Empty, Torn}
                  BY <1>t, <2>7 DEF Exit, HalfWritten, TypeOK
            <3>2. held' \in [Process -> Package \cup {None}]
                  BY <1>t, <2>7 DEF Exit, TypeOK
            <3> QED  BY <1>t, <2>3, <2>7, <2>m, <3>1, <3>2 DEF Exit, TInv, TypeOK
      <2> QED  BY <1>5, <2>1, <2>2, <2>4, <2>5, <2>6, <2>7 DEF Ends
<1> QED  BY <1>1, <1>2, <1>3, <1>4, <1>5, Steps

\* The types of the file, of what tabs hold and of what commands will save,
\* the bounds of the model, and that a command always has a package to save.
THEOREM PackagesTyped == Spec => []TypeOK
<1>1. Spec => []TInv
      BY InitTyped, StepTyped, PTL DEF Spec
<1>2. TInv => TypeOK
      BY DEF TInv
<1> QED  BY <1>1, <1>2, PTL
-----------------------------------------------------------------------------
(* Soundness.  Every package there is - in the file, in a tab or about to   *)
(* be saved - is sound, so it does not matter which of them is saved last.  *)

SoundInv ==
    /\ FileSound
    /\ \A p \in Process :
          /\ held[p] # None => Sound(held[p])
          /\ Busy(p) => Sound(op[p].state)

\* The end of a command keeps the package in hand or drops it.
LEMMA EndsOp ==
    ASSUME TypeOK, NEW p \in Process, Ends(p), NEW q \in Process, Busy(q)'
    PROVE  Busy(q) /\ op'[q].state = op[q].state
<1>0. op \in [Process -> Op]
      BY DEF TypeOK
<1>1. CASE op' = [op EXCEPT ![p] = Idle]
      BY <1>0, <1>1 DEF Busy
<1>2. CASE Audit(p) \/ Truncate(p)
      <2>1. op[p].pc # "idle" /\ \E x : op' = [op EXCEPT ![p].pc = x]
            BY <1>2 DEF Audit, Truncate
      <2>2. Busy(p)
            BY <2>1 DEF Busy, Idle
      <2>3. op'[q].state = op[q].state /\ (q # p => op'[q] = op[q])
            BY <1>0, <2>1 DEF Op
      <2> QED  BY <2>2, <2>3 DEF Busy
<1> QED  BY <1>1, <1>2 DEF Ends, Fill, SaveRefused, Fail, Exit

LEMMA StepSound == TInv /\ SoundInv /\ [Next]_vars => SoundInv'
<1> SUFFICES ASSUME TInv, SoundInv, [Next]_vars PROVE SoundInv'
    OBVIOUS
<1> USE DEF history
<1>t. TypeOK /\ OpInv
      BY DEF TInv
<1>1. CASE UNCHANGED vars
      BY <1>1 DEF SoundInv, FileSound, Busy, vars
<1>2. ASSUME NEW p \in Process, Command(p)
      PROVE  SoundInv'
      <2>1. PICK g \in Package, e \in Event : Start(p, g) /\ Makes(p, g, e)
            BY <1>t, <1>2, Commands
      <2>2. Usable(Loaded(p)) => Sound(Loaded(p))
            BY DEF SoundInv, FileSound, Loaded, Usable, Parses
      <2>3. Sound(g)
            BY <2>1, <2>2 DEF Makes
      <2> QED  BY <1>t, <2>1, <2>3 DEF Start, SoundInv, FileSound, Busy, TypeOK
<1>3. ASSUME NEW p \in Process, Choose(p)
      PROVE  SoundInv'
      <2>1. Usable(file) => Sound(file)
            BY DEF SoundInv, FileSound, Usable
      <2> QED  BY <1>t, <1>3, <2>1 DEF Choose, SoundInv, FileSound, Busy, TypeOK
<1>4. ASSUME NEW p \in Process, NEW who \in Person, DenyOpen(p, who)
      PROVE  SoundInv'
      BY <1>4 DEF DenyOpen, SoundInv, FileSound, Busy
<1>5. ASSUME NEW p \in Process, Ends(p)
      PROVE  SoundInv'
      <2>1. Busy(p) => Sound(op[p].state)
            BY DEF SoundInv
      <2>2. ASSUME NEW q \in Process, Busy(q)'
            PROVE  Busy(q) /\ op'[q].state = op[q].state
            BY <1>t, <1>5, <2>2, EndsOp
      <2>3. ~Busy(p) => file' = file
            BY <1>5 DEF Ends, Audit, Truncate, Fill, SaveRefused, Fail, Exit, HalfWritten, Busy, Idle
      <2>4. Busy(p) => file' \in {file, op[p].state, Empty, Torn}
            BY <1>5 DEF Ends, Audit, Truncate, Fill, SaveRefused, Fail, Exit, HalfWritten
      <2>5. ASSUME NEW q \in Process
            PROVE  held'[q] \in {held[q], None} \/ (q = p /\ Busy(p) /\ held'[q] = op[p].state)
            BY <1>t, <1>5
            DEF Ends, Audit, Truncate, Fill, SaveRefused, Fail, Exit, Kept, Busy, TypeOK, Idle
      <2>6. FileSound'
            BY <2>1, <2>3, <2>4 DEF SoundInv, FileSound, Parses
      <2>7. ASSUME NEW q \in Process
            PROVE  /\ (held[q] # None)' => Sound(held'[q])
                   /\ Busy(q)' => Sound(op'[q].state)
            BY <2>1, <2>2, <2>5 DEF SoundInv
      <2> QED  BY <2>6, <2>7 DEF SoundInv
<1> QED  BY <1>1, <1>2, <1>3, <1>4, <1>5, Steps

\* Under any interleaving of any number of commands and tabs, and failures
\* anywhere, a package file that parses has a recipient, gives all of them the
\* key of its payload, and its custody chain accounts for exactly them.
THEOREM FilesStaySound == Spec => []FileSound
<1>1. Init => SoundInv
      BY DEF Init, SoundInv, FileSound, Busy, Parses
<1>2. SoundInv => FileSound
      BY DEF SoundInv
<1> QED  BY InitTyped, StepTyped, StepSound, <1>1, <1>2, PTL DEF Spec
-----------------------------------------------------------------------------
(* Audit.  What a command adds to the chain is audited before it is saved.  *)

Covered(a, chain) == \A e \in Event : Occurrences(e, chain) <= a[e]

AuditInv ==
    /\ AuditCoversCustody
    /\ \A p \in Process :
          /\ held[p] # None => Covered(audit, held[p].chain)
          /\ op[p].pc = "working" =>
                \E c \in Seq(Event) :
                    op[p].state.chain = Append(c, Change(p)) /\ Covered(audit, c)
          /\ op[p].pc \in {"saving", "writing"} => Covered(audit, op[p].state.chain)

LEMMA CoveredGrows ==
    ASSUME TypeOK, TypeOK', NEW c \in Seq(Event), Covered(audit, c),
           \A e \in Event : audit[e] <= audit'[e]
    PROVE  Covered(audit', c)
<1> SUFFICES ASSUME NEW e \in Event PROVE Occurrences(e, c) <= audit'[e]
    BY DEF Covered
<1>1. Occurrences(e, c) \in Nat
      BY OccurrencesAppend
<1>2. audit[e] \in 0..MaxAudits /\ audit'[e] \in 0..MaxAudits
      BY DEF TypeOK
<1>3. Occurrences(e, c) <= audit[e] /\ audit[e] <= audit'[e]
      BY DEF Covered
<1> QED  BY <1>1, <1>2, <1>3, BoundAssumption

LEMMA AuditGrows ==
    ASSUME TInv, [Next]_vars, NEW e \in Event
    PROVE  audit[e] <= audit'[e]
<1> USE DEF history
<1>1. audit \in [Event -> 0..MaxAudits] /\ MaxAudits \in Nat
      BY BoundAssumption DEF TInv, TypeOK
<1>2. ASSUME NEW f, audit' = [audit EXCEPT ![f] = @ + 1]
      PROVE  audit[e] <= audit'[e]
      BY <1>1, <1>2
<1>3. ASSUME audit' = audit
      PROVE  audit[e] <= audit'[e]
      BY <1>1, <1>3
<1>4. ASSUME NEW p \in Process, Command(p)
      PROVE  audit' = audit
      BY <1>4 DEF Command, Create, Open, AddRecipient, RemoveRecipient, Start
<1>5. ASSUME NEW p \in Process, Ends(p) \/ Choose(p)
      PROVE  audit' = audit \/ audit' = [audit EXCEPT ![Change(p)] = @ + 1]
      BY <1>5 DEF Ends, Audit, Truncate, Fill, SaveRefused, Fail, Exit, Choose
<1>6. ASSUME NEW p \in Process, NEW who \in Person, DenyOpen(p, who)
      PROVE  audit' = [audit EXCEPT ![Entry("open_denied", who)] = @ + 1]
      BY <1>6 DEF DenyOpen
<1>7. UNCHANGED vars => audit' = audit
      BY DEF vars
<1> QED  BY <1>2, <1>3, <1>4, <1>5, <1>6, <1>7, Steps

LEMMA StepAudit == TInv /\ TInv' /\ AuditInv /\ [Next]_vars => AuditInv'
<1> SUFFICES ASSUME TInv, TInv', AuditInv, [Next]_vars PROVE AuditInv'
    OBVIOUS
<1> USE DEF history
<1>t. TypeOK /\ OpInv /\ TypeOK'
      BY DEF TInv
<1>g. \A c \in Seq(Event) : Covered(audit, c) => Covered(audit', c)
      BY <1>t, AuditGrows, CoveredGrows
<1>p. \A g \in Package : g.chain \in Seq(Event)
      BY DEF Package
<1>f. Usable(file) => file \in Package /\ Covered(audit, file.chain) /\ Covered(audit', file.chain)
      BY <1>t, <1>g, <1>p, Marks DEF TypeOK, AuditInv, AuditCoversCustody, Covered
<1>h. \A q \in Process : held[q] # None =>
          held[q] \in Package /\ Covered(audit, held[q].chain) /\ Covered(audit', held[q].chain)
      BY <1>t, <1>g, <1>p DEF TypeOK, AuditInv
<1>w. ASSUME NEW q \in Process, op[q].pc = "working", op'[q] = op[q]
      PROVE  (\E c \in Seq(Event) :
                  op[q].state.chain = Append(c, Change(q)) /\ Covered(audit, c))'
      <2>1. PICK c \in Seq(Event) : op[q].state.chain = Append(c, Change(q)) /\ Covered(audit, c)
            BY <1>w DEF AuditInv
      <2>2. Covered(audit', c)
            BY <1>g, <2>1
      <2>3. Change(q)' = Change(q)
            BY <1>w DEF Change
      <2> QED  BY <1>w, <2>1, <2>2, <2>3
<1>s. ASSUME NEW q \in Process, op[q].pc \in {"saving", "writing"}
      PROVE  op[q].state \in Package /\ Covered(audit', op[q].state.chain)
      <2>1. op[q].state \in Package
            BY <1>t, <1>s DEF OpInv, Busy, Idle
      <2> QED  BY <1>g, <1>p, <1>s, <2>1 DEF AuditInv
\* What the invariant says of a call that the step does not touch.
<1>o. ASSUME NEW q \in Process, op'[q] = op[q]
      PROVE  /\ (op[q].pc = "working")' =>
                   (\E c \in Seq(Event) :
                       op[q].state.chain = Append(c, Change(q)) /\ Covered(audit, c))'
             /\ (op[q].pc \in {"saving", "writing"})' => Covered(audit, op[q].state.chain)'
      BY <1>o, <1>w, <1>s
<1>c. AuditCoversCustody' <=> (Usable(file)' => Covered(audit, file.chain)')
      BY DEF AuditCoversCustody, Covered
<1>1. CASE UNCHANGED vars
      BY <1>1, <1>o, <1>f, <1>h, <1>c DEF AuditInv, vars
<1>2. ASSUME NEW p \in Process, Command(p)
      PROVE  AuditInv'
      <2>1. PICK g \in Package, e \in Event : Start(p, g) /\ Makes(p, g, e)
            BY <1>t, <1>2, Commands
      <2>2. /\ file' = file /\ held' = held
            /\ op' = [op EXCEPT ![p] = [pc |-> "working", state |-> g]]
            BY <2>1 DEF Start
      <2>3. op'[p] = [pc |-> "working", state |-> g] /\ \A q \in Process \ {p} : op'[q] = op[q]
            BY <1>t, <2>2 DEF TypeOK
      <2>4. \E c \in Seq(Event) : g.chain = Append(c, e) /\ Covered(audit', c)
            <3>1. CASE Usable(Loaded(p)) /\ g.chain = Append(Loaded(p).chain, e)
                  <4>1. Loaded(p).chain \in Seq(Event) /\ Covered(audit', Loaded(p).chain)
                        BY <1>f, <1>h, <1>p, <3>1 DEF Loaded, Usable, Parses
                  <4> QED  BY <3>1, <4>1
            <3>2. CASE g.chain = <<e>>
                  <4>1. <<e>> = Append(<< >>, e) /\ << >> \in Seq(Event)
                        OBVIOUS
                  <4>2. Covered(audit', << >>)
                        <5>1. \A f \in Event : audit'[f] \in 0..MaxAudits
                              BY <1>t DEF TypeOK
                        <5> QED  BY <5>1, OccurrencesInNone, BoundAssumption DEF Covered
                  <4> QED  BY <3>2, <4>1, <4>2
            <3> QED  BY <2>1, <3>1, <3>2 DEF Makes
      <2>5. Change(p)' = e
            <3>1. PICK c \in Seq(Event) : g.chain = Append(c, e)
                  BY <2>4
            <3>2. g.chain[Len(g.chain)] = e
                  BY <3>1
            <3> QED  BY <2>3, <3>2 DEF Change
      <2>6. ASSUME NEW q \in Process
            PROVE  /\ (op[q].pc = "working")' =>
                         (\E c \in Seq(Event) :
                             op[q].state.chain = Append(c, Change(q)) /\ Covered(audit, c))'
                   /\ (op[q].pc \in {"saving", "writing"})' => Covered(audit, op[q].state.chain)'
            BY <1>o, <2>3, <2>4, <2>5
      <2> QED  BY <1>f, <1>h, <1>c, <2>2, <2>6 DEF AuditInv
<1>3. ASSUME NEW p \in Process, Choose(p)
      PROVE  AuditInv'
      <2>1. op' = op /\ file' = file
            BY <1>3 DEF Choose
      <2>2. \A q \in Process : held'[q] \in {held[q], None} \/ (Usable(file) /\ held'[q] = file)
            BY <1>t, <1>3 DEF Choose, TypeOK
      <2> QED  BY <1>f, <1>h, <1>o, <1>c, <2>1, <2>2 DEF AuditInv
<1>4. ASSUME NEW p \in Process, NEW who \in Person, DenyOpen(p, who)
      PROVE  AuditInv'
      <2>1. op' = op /\ file' = file /\ held' = held
            BY <1>4 DEF DenyOpen
      <2> QED  BY <1>f, <1>h, <1>o, <1>c, <2>1 DEF AuditInv
<1>5. ASSUME NEW p \in Process, Ends(p)
      PROVE  AuditInv'
      <2>1. CASE Audit(p)
            <3>1. /\ file' = file /\ held' = held
                  /\ op'[p] = [op[p] EXCEPT !.pc = "saving"]
                  /\ \A q \in Process \ {p} : op'[q] = op[q]
                  BY <1>t, <2>1 DEF Audit, TypeOK
            <3>2. op'[p].pc = "saving" /\ op'[p].state = op[p].state
                  BY <1>t, <3>1 DEF TypeOK, Op
            <3>3. Covered(audit', op[p].state.chain)
                  <4>1. PICK c \in Seq(Event) : op[p].state.chain = Append(c, Change(p)) /\ Covered(audit, c)
                        BY <2>1 DEF Audit, AuditInv
                  <4>2. Change(p) \in Event
                        BY <1>t, <2>1, ChangeType DEF TInv, Audit, Busy, Idle
                  <4>3. ASSUME NEW f \in Event
                        PROVE  Occurrences(f, Append(c, Change(p))) <= audit'[f]
                        <5>1. /\ Occurrences(f, c) \in Nat
                              /\ Occurrences(f, Append(c, Change(p))) =
                                    Occurrences(f, c) + IF Change(p) = f THEN 1 ELSE 0
                              BY <4>2, OccurrencesAppend
                        <5>2. audit[f] \in Nat /\ Occurrences(f, c) <= audit[f]
                              BY <1>t, <4>1, BoundAssumption DEF Covered, TypeOK
                        <5>3. audit'[f] = audit[f] + IF Change(p) = f THEN 1 ELSE 0
                              BY <1>t, <2>1, <4>2, <5>2 DEF Audit, TypeOK
                        <5> HIDE DEF Change
                        <5> QED  BY <5>1, <5>2, <5>3
                  <4> QED  BY <3>2, <4>1, <4>3 DEF Covered
            <3>4. ASSUME NEW q \in Process
                  PROVE  /\ (op[q].pc = "working")' =>
                               (\E c \in Seq(Event) :
                                   op[q].state.chain = Append(c, Change(q)) /\ Covered(audit, c))'
                         /\ (op[q].pc \in {"saving", "writing"})' => Covered(audit, op[q].state.chain)'
                  <4>1. CASE q = p
                        BY <3>2, <3>3, <4>1
                  <4>2. CASE q # p
                        BY <1>o, <3>1, <4>2
                  <4> QED  BY <4>1, <4>2
            <3> QED  BY <1>f, <1>h, <1>c, <3>1, <3>4 DEF AuditInv
      <2>2. CASE Truncate(p)
            <3>1. /\ file' = Empty
                  /\ op'[p] = [op[p] EXCEPT !.pc = "writing"]
                  /\ \A q \in Process \ {p} : op'[q] = op[q]
                  BY <1>t, <2>2 DEF Truncate, TypeOK
            <3>2. op'[p].pc = "writing" /\ op'[p].state = op[p].state /\ op[p].pc = "saving"
                  BY <1>t, <2>2, <3>1 DEF TypeOK, Op, Truncate
            <3>3. Covered(audit', op[p].state.chain)
                  BY <1>s, <3>2
            <3>4. ASSUME NEW q \in Process
                  PROVE  /\ (op[q].pc = "working")' =>
                               (\E c \in Seq(Event) :
                                   op[q].state.chain = Append(c, Change(q)) /\ Covered(audit, c))'
                         /\ (op[q].pc \in {"saving", "writing"})' => Covered(audit, op[q].state.chain)'
                         /\ (held[q] # None)' => Covered(audit, held[q].chain)'
                  <4>1. held'[q] = held[q] \/ (q = p /\ held'[q] = op[p].state)
                        BY <1>t, <2>2 DEF Truncate, Kept, TypeOK
                  <4>2. CASE q = p
                        BY <1>h, <3>2, <3>3, <4>1, <4>2
                  <4>3. CASE q # p
                        BY <1>h, <1>o, <3>1, <4>1, <4>3
                  <4> QED  BY <4>2, <4>3
            <3> QED  BY <1>c, <3>1, <3>4 DEF AuditInv, Usable, Parses
      <2>3. CASE Fill(p) \/ SaveRefused(p) \/ Fail(p) \/ Exit(p)
            <3>1. op' = [op EXCEPT ![p] = Idle]
                  BY <2>3 DEF Fill, SaveRefused, Fail, Exit
            <3>2. \/ file' \in {file, Torn}
                  \/ op[p].pc = "writing" /\ file' = op[p].state
                  BY <2>3 DEF Fill, SaveRefused, Fail, Exit, HalfWritten
            <3>3. ASSUME NEW q \in Process
                  PROVE  \/ held'[q] \in {held[q], None}
                         \/ q = p /\ op[p].pc = "saving" /\ held'[q] = op[p].state
                  BY <1>t, <2>3 DEF Fill, SaveRefused, Fail, Exit, Kept, TypeOK
            <3>4. ASSUME NEW q \in Process
                  PROVE  op'[q] = op[q] \/ op'[q].pc = "idle"
                  BY <1>t, <3>1 DEF TypeOK, Idle
            <3>5. Usable(file)' => Covered(audit, file.chain)'
                  BY <1>f, <1>s, <3>2 DEF Usable, Parses
            <3>6. ASSUME NEW q \in Process
                  PROVE  (held[q] # None)' => Covered(audit, held[q].chain)'
                  BY <1>h, <1>s, <3>3
            <3>7. ASSUME NEW q \in Process
                  PROVE  /\ (op[q].pc = "working")' =>
                               (\E c \in Seq(Event) :
                                   op[q].state.chain = Append(c, Change(q)) /\ Covered(audit, c))'
                         /\ (op[q].pc \in {"saving", "writing"})' => Covered(audit, op[q].state.chain)'
                  BY <1>o, <3>4
            <3> QED  BY <1>c, <3>5, <3>6, <3>7 DEF AuditInv
      <2> QED  BY <1>5, <2>1, <2>2, <2>3 DEF Ends
<1> QED  BY <1>1, <1>2, <1>3, <1>4, <1>5, Steps

\* Whatever is lost or saved twice, the audit directory has at least as many
\* entries of each event as the custody chain in the file.
THEOREM AuditCovers == Spec => []AuditCoversCustody
<1>1. Init => AuditInv
      BY DEF Init, AuditInv, AuditCoversCustody, Usable, Parses, Idle
<1>2. AuditInv => AuditCoversCustody
      BY DEF AuditInv
<1> QED  BY InitTyped, StepTyped, StepAudit, <1>1, <1>2, PTL DEF Spec
-----------------------------------------------------------------------------
(* Custody.  While nothing is stale, one command at a time extends the very *)
(* chain that was last saved.                                               *)

OneAtATime ==
    \A p \in Process : Busy(p) =>
        /\ \E e \in Event : op[p].state.chain = Append(log, e)
        /\ \A q \in Process : Busy(q) => q = p

CustodyInv ==
    /\ file = Absent => log = << >>
    /\ overlapped => stale
    /\ CustodyComplete
    /\ ~stale => OneAtATime

LEMMA StepCustody == TInv /\ CustodyInv /\ [Next]_vars => CustodyInv'
<1> SUFFICES ASSUME TInv, CustodyInv, [Next]_vars PROVE CustodyInv'
    OBVIOUS
<1> USE DEF history
<1>t. TypeOK /\ OpInv
      BY DEF TInv
<1>1. CASE UNCHANGED vars
      BY <1>1 DEF CustodyInv, CustodyComplete, OneAtATime, Busy, vars
<1>2. ASSUME NEW p \in Process, Command(p)
      PROVE  CustodyInv'
      <2>1. PICK g \in Package, e \in Event : Start(p, g) /\ Makes(p, g, e)
            BY <1>t, <1>2, Commands
      <2>2. file' = file /\ log' = log /\ (stale => stale') /\ (overlapped' => stale')
            BY <2>1 DEF Start
      <2>3. ASSUME ~stale'
            PROVE  OneAtATime'
            <3>1. /\ ~stale
                  /\ \A q \in Process : ~Busy(q)
                  /\ Usable(Loaded(p)) => Loaded(p) = file
                  BY <2>1, <2>3 DEF Start, Busy
            <3>2. g.chain = Append(log, e)
                  <4>1. CASE Usable(Loaded(p)) /\ g.chain = Append(Loaded(p).chain, e)
                        BY <3>1, <4>1 DEF CustodyInv, CustodyComplete
                  <4>2. CASE file = Absent /\ g.chain = <<e>>
                        <5>1. log = << >>
                              BY <4>2 DEF CustodyInv
                        <5> QED  BY <4>2, <5>1
                  <4> QED  BY <2>1, <4>1, <4>2 DEF Makes
            <3>3. op'[p].state = g /\ \A q \in Process : q # p => ~Busy(q)'
                  BY <1>t, <2>1, <3>1 DEF Start, Busy, TypeOK
            <3> QED  BY <2>2, <3>2, <3>3 DEF OneAtATime
      <2> QED  BY <2>2, <2>3 DEF CustodyInv, CustodyComplete
<1>3. ASSUME NEW p \in Process, Choose(p)
      PROVE  CustodyInv'
      BY <1>3 DEF Choose, CustodyInv, CustodyComplete, OneAtATime, Busy
<1>4. ASSUME NEW p \in Process, NEW who \in Person, DenyOpen(p, who)
      PROVE  CustodyInv'
      BY <1>4 DEF DenyOpen, CustodyInv, CustodyComplete, OneAtATime, Busy
<1>5. ASSUME NEW p \in Process, Ends(p)
      PROVE  CustodyInv'
      <2>1. overlapped' = overlapped /\ stale' = stale
            BY <1>5 DEF Ends, Audit, Truncate, Fill, SaveRefused, Fail, Exit
      <2>2. \A q \in Process : Busy(q)' => Busy(q) /\ op'[q].state = op[q].state
            BY <1>t, <1>5, EndsOp
      <2>3. CASE Fill(p)
            <3>1. Busy(p)
                  BY <2>3 DEF Fill, Busy, Idle
            <3>2. op[p].state \in Package /\ Change(p) \in Event
                  BY <1>t, <3>1, ChangeType DEF TInv
            <3>3. file' \in {op[p].state, Torn} /\ log' = Append(log, Change(p))
                  BY <2>3 DEF Fill
            <3>4. file' # Absent
                  BY <3>2, <3>3, MarksAssumption
            <3>5. ASSUME ~stale
                  PROVE  op[p].state.chain = log' /\ OneAtATime'
                  <4>1. PICK e \in Event : op[p].state.chain = Append(log, e)
                        BY <3>1, <3>5 DEF CustodyInv, OneAtATime
                  <4>2. log \in Seq(Event)
                        BY <1>t DEF TypeOK
                  <4>3. Change(p) = e
                        BY <4>1, <4>2 DEF Change
                  <4>4. \A q \in Process : ~Busy(q)'
                        <5>1. \A q \in Process : Busy(q) => q = p
                              BY <3>1, <3>5 DEF CustodyInv, OneAtATime
                        <5>2. ~Busy(p)'
                              BY <1>t, <2>3 DEF Fill, Busy, TypeOK
                        <5> QED  BY <2>2, <5>1, <5>2
                  <4> QED  BY <3>3, <4>1, <4>3, <4>4 DEF OneAtATime
            <3> QED  BY <2>1, <3>3, <3>4, <3>5 DEF CustodyInv, CustodyComplete, Usable, Parses
      <2>4. CASE ~Fill(p)
            <3>1. log' = log /\ file' \in {file, Empty, Torn}
                  BY <1>5, <2>4 DEF Ends, Audit, Truncate, SaveRefused, Fail, Exit, HalfWritten
            <3>2. OneAtATime => OneAtATime'
                  BY <2>2, <3>1 DEF OneAtATime
            <3>3. Absent # Empty /\ Absent # Torn
                  BY MarksAssumption
            <3> QED  BY <2>1, <3>1, <3>2, <3>3 DEF CustodyInv, CustodyComplete, Usable, Parses
      <2> QED  BY <2>3, <2>4
<1> QED  BY <1>1, <1>2, <1>3, <1>4, <1>5, Steps

\* If no command began while another was under way or from something other
\* than the file, the custody chain is the complete history of the file.
THEOREM CustodyStaysComplete == Spec => []CustodyComplete
<1>1. Init => CustodyInv
      BY DEF Init, CustodyInv, CustodyComplete, OneAtATime, Busy, Usable, Parses
<1>2. CustodyInv => CustodyComplete
      BY DEF CustodyInv
<1> QED  BY InitTyped, StepTyped, StepCustody, <1>1, <1>2, PTL DEF Spec
=============================================================================
