--------------------------- MODULE GeneratorProofs ---------------------------
(***************************************************************************)
(* Proofs about Generator, for any limits that fit GeneratorAssumption.    *)
(***************************************************************************)
EXTENDS Generator, SequenceTheorems, TLAPS

USE GeneratorAssumption, NoneAssumption

LEMMA FreshTyped == ASSUME NEW n \in Nat PROVE Fresh(n) \in Drbg
  BY DEF Fresh, Drbg

LEMMA ZeroedTyped == ASSUME NEW d \in Drbg PROVE Zeroed(d) \in Drbg
  BY DEF Zeroed, Drbg

LEMMA BlockTyped ==
  ASSUME NEW d \in Drbg, NEW n \in Nat, NEW b \in Block
  PROVE  [d EXCEPT !.counter = n, !.previous = b] \in Drbg
  BY DEF Drbg

LEMMA CountedTyped ==
  ASSUME NEW d \in Drbg, NEW n \in Nat, NEW m \in Nat
  PROVE  [d EXCEPT !.requests = n, !.bytes = m] \in Drbg
  BY DEF Drbg

LEMMA EnteredTyped ==
  ASSUME NEW length \in Nat, NEW r \in BOOLEAN PROVE Entered(r, length) \in Call
  BY DEF Entered, Call

LEMMA IdleTyped == Idle \in Call
  BY DEF Idle, Call

LEMMA NotSealingTyped ==
  /\ NotSealing \in [pc : Steps, sample : Samples \cup {None}]
  /\ NotSealing.pc = "idle"
  BY DEF NotSealing, Steps

\* Request and Rebuild, whoever makes them, keep the types of the generator.
LEMMA RequestTyped ==
  ASSUME TypeOK, NEW length \in Nat, Request(length)
  PROVE  /\ drbg' \in Drbg /\ managed' \in Counters /\ call' \in Call
         /\ previous' = previous /\ envelope' = envelope
         /\ seedings' \in Nat /\ repeats' \in Nat /\ returned' \in Seq(Block)
         /\ raised' \in [length : Nat, dead : BOOLEAN, failed : BOOLEAN]
  <1>1. call' \in Call
    BY EnteredTyped DEF Request
  <1>2. drbg' \in Drbg /\ managed' \in Counters /\ seedings' \in Nat
    BY FreshTyped DEF Request, TypeOK, NoneCounted, Counters
  <1>3. (drbg.destroyed /\ ~Reseeds(length)) \in BOOLEAN
    BY DEF TypeOK, Drbg, Reseeds
  <1>. QED
    BY <1>1, <1>2, <1>3 DEF Request, TypeOK

LEMMA RebuildTyped ==
  ASSUME TypeOK, Rebuild
  PROVE  /\ drbg' \in Drbg /\ managed' \in Counters /\ call' \in Call
         /\ seedings' \in Nat /\ raised' = raised /\ sealing' = sealing
  <1>1. seedings \in Nat /\ seedings + 1 \in Nat
    BY DEF TypeOK
  <1>2. call.length \in Nat
    BY DEF TypeOK, Call
  <1>3. NoneCounted \in Counters
    BY DEF NoneCounted, Counters
  <1>4. Fresh(seedings + 1) \in Drbg /\ Entered(TRUE, call.length) \in Call
    BY <1>1, <1>2, FreshTyped, EnteredTyped
  <1>. QED
    BY <1>1, <1>3, <1>4 DEF Rebuild

LEMMA RaiseTyped ==
  ASSUME TypeOK, Raise
  PROVE  /\ call' \in Call /\ managed' \in Counters /\ seedings' \in Nat
         /\ raised' \in [length : Nat, dead : BOOLEAN, failed : BOOLEAN]
         /\ sealing' \in [pc : Steps, sample : Samples \cup {None}]
  <1>1. raised' \in [length : Nat, dead : BOOLEAN, failed : BOOLEAN]
    BY DEF Raise, TypeOK
  <1>2. sealing' = NotSealing
    BY DEF Raise
  <1>. QED
    BY <1>1, <1>2, IdleTyped, NotSealingTyped DEF Raise, TypeOK

\* What MixNonce relies on: the sample of the salt is still the previous one.
MixInv ==
    sealing.pc = "mixNonce" =>
        sealing.sample \in Samples /\ previous = sealing.sample

Typed == TypeOK /\ MixInv

LEMMA TypedInductive == Typed /\ [Next]_vars => Typed'
  <1>. SUFFICES ASSUME TypeOK, MixInv, [Next]_vars PROVE Typed'
    BY DEF Typed
  <1>. USE DEF Typed, MixInv
  <1>1. ASSUME NEW length \in Lengths, Generate(length) PROVE Typed'
    BY <1>1, RequestTyped DEF Generate, TypeOK
  <1>2. CASE Enter
    BY <1>2 DEF Enter, TypeOK, Call
  <1>3. CASE Refuse
    <2>1. CASE Rebuild
      BY <1>3, <2>1, RebuildTyped DEF Refuse, TypeOK
    <2>2. CASE Raise /\ UNCHANGED drbg
      <3>1. /\ sealing' = NotSealing
            /\ UNCHANGED <<drbg, repeats, returned, previous, envelope>>
        BY <1>3, <2>2 DEF Refuse, Raise
      <3>. QED
        BY <2>2, <3>1, RaiseTyped, NotSealingTyped DEF TypeOK
    <2>. QED
      BY <1>3, <2>1, <2>2 DEF Refuse
  <1>4. CASE NextBlock
    <2>. DEFINE block == [seeding |-> drbg.seeding, place |-> drbg.counter]
    <2>1. block \in Block
      BY DEF TypeOK, Drbg, Block
    <2>. DEFINE output == Append(call.output, block)
    <2>2. call' \in Call
      <3>1. call \in Call /\ output \in Seq(Block)
        BY <2>1 DEF TypeOK, Call
      <3>2. call' = [call EXCEPT !.output = output]
        BY <1>4 DEF NextBlock
      <3>. HIDE DEF output
      <3>. QED
        BY <3>1, <3>2 DEF Call
    <2>3. drbg' \in Drbg
      <3>1. drbg' = [drbg EXCEPT !.counter = drbg.counter + 1, !.previous = block]
        BY <1>4 DEF NextBlock
      <3>2. drbg \in Drbg /\ drbg.counter + 1 \in Nat
        BY DEF TypeOK, Drbg
      <3>. HIDE DEF block
      <3>. QED
        BY <2>1, <3>1, <3>2, BlockTyped
    <2>. QED
      BY <1>4, <2>2, <2>3 DEF NextBlock, TypeOK
  <1>5. CASE RepeatBlock
    <2>0. repeats' \in Nat
      BY <1>5 DEF RepeatBlock, TypeOK
    <2>1. CASE Rebuild
      BY <1>5, <2>0, <2>1, RebuildTyped DEF RepeatBlock, TypeOK
    <2>2. CASE Raise /\ drbg' = Zeroed(drbg)
      <3>1. /\ sealing' = NotSealing
            /\ UNCHANGED <<returned, previous, envelope>>
        BY <1>5, <2>2 DEF RepeatBlock, Raise
      <3>2. drbg' \in Drbg
        BY <2>2, ZeroedTyped DEF TypeOK
      <3>. QED
        BY <2>0, <2>2, <3>1, <3>2, RaiseTyped, NotSealingTyped DEF TypeOK
    <2>. QED
      BY <1>5, <2>1, <2>2 DEF RepeatBlock
  <1>6. CASE Return
    <2>1. drbg' \in Drbg /\ managed' \in Counters
      <3>1. call.length \in Nat /\ drbg \in Drbg /\ managed \in Counters
        BY DEF TypeOK, Call
      <3>2. drbg' = [drbg EXCEPT !.requests = drbg.requests + 1,
                                 !.bytes = drbg.bytes + call.length]
        BY <1>6 DEF Return
      <3>3. managed' = [requests |-> managed.requests + 1,
                        bytes |-> managed.bytes + call.length]
        BY <1>6 DEF Return
      <3>4. drbg' \in Drbg
        <4>1. drbg.requests + 1 \in Nat /\ drbg.bytes + call.length \in Nat
          BY <3>1 DEF Drbg
        <4>. QED
          BY <3>1, <3>2, <4>1, CountedTyped
      <3>. QED
        BY <3>1, <3>3, <3>4 DEF Counters
    <2>2. returned' \in Seq(Block) /\ call' \in Call
      BY <1>6, IdleTyped DEF Return, TypeOK, Call
    <2>3. /\ sealing' \in [pc : Steps, sample : Samples \cup {None}]
          /\ sealing'.pc = "mixNonce" => sealing' = sealing
      BY <1>6 DEF Return, TypeOK, Steps
    <2>. QED
      BY <1>6, <2>1, <2>2, <2>3 DEF Return, TypeOK
  <1>7. CASE Destroy
    BY <1>7, ZeroedTyped DEF Destroy, TypeOK
  <1>8. CASE SealSalt
    BY <1>8, RequestTyped DEF SealSalt, TypeOK, Steps
  <1>9. CASE SealNonce
    BY <1>9, RequestTyped DEF SealNonce, TypeOK, Steps
  <1>10. CASE SealRefused \/ SampleRepeated
    <2>1. /\ sealing' = NotSealing /\ UNCHANGED <<generator, envelope>>
          /\ previous' \in {previous, None}
      BY <1>10 DEF SealRefused, SampleRepeated
    <2>. QED
      BY <2>1, NotSealingTyped DEF TypeOK, generator
  <1>11. ASSUME NEW sample \in Samples, MixSalt(sample) PROVE Typed'
    BY <1>11 DEF MixSalt, Draw, TypeOK, Steps, generator
  <1>12. ASSUME NEW sample \in Samples, MixNonce(sample) PROVE Typed'
    BY <1>12 DEF MixNonce, Draw, TypeOK, Steps, NotSealing, generator
  <1>13. CASE UNCHANGED vars
    BY <1>13 DEF vars, generator, TypeOK
  <1>. QED
    BY <1>1, <1>2, <1>3, <1>4, <1>5, <1>6, <1>7, <1>8, <1>9, <1>10, <1>11,
       <1>12, <1>13 DEF Next

LEMMA AlwaysTyped == Spec => []Typed
  <1>1. Init => Typed
    BY FreshTyped, IdleTyped
    DEF Init, Typed, TypeOK, MixInv, NoneCounted, Counters, NotSealing, Steps
  <1>. QED
    BY <1>1, TypedInductive, PTL DEF Spec

\* The types of the generator, of the request and the encrypt under way.
THEOREM GeneratorTyped == Spec => []TypeOK
  <1>1. Typed => TypeOK
    BY DEF Typed
  <1>. QED
    BY <1>1, AlwaysTyped, PTL

\* Salt and nonce of an envelope were mixed with different samples.
THEOREM StuckEntropyNeverSeals == Spec => []StuckEntropySealsNothing
  <1>. DEFINE Inv == StuckEntropySealsNothing
  <1>1. Init => Inv
    BY DEF Init, StuckEntropySealsNothing
  <1>2. Typed /\ Inv /\ [Next]_vars => Inv'
    <2>. SUFFICES ASSUME Typed, Inv, [Next]_vars PROVE Inv'
      OBVIOUS
    <2>1. ASSUME NEW sample \in Samples, MixNonce(sample) PROVE Inv'
      BY <2>1 DEF MixNonce, Typed, MixInv, StuckEntropySealsNothing
    <2>2. CASE envelope' = envelope
      BY <2>2 DEF StuckEntropySealsNothing
    <2>3. (\E sample \in Samples : MixNonce(sample)) \/ envelope' = envelope
      BY DEF Next, vars, Generate, Enter, Refuse, NextBlock, RepeatBlock,
             Return, Destroy, SealSalt, SealNonce, SealRefused, SampleRepeated,
             MixSalt, Request
    <2>. QED
      BY <2>1, <2>2, <2>3
  <1>. QED
    BY <1>1, <1>2, AlwaysTyped, PTL DEF Spec

-----------------------------------------------------------------------------
(* Limits *)

\* Both count the same requests and bytes since the last seeding.
CountersInv ==
    ~drbg.destroyed => /\ drbg.requests = managed.requests
                       /\ drbg.bytes = managed.bytes

\* How far the request under way has got, and what has gone wrong with it.
CallInv ==
    /\ call.pc # "idle" => ~raised.failed /\ call.length = raised.length
    /\ call.pc = "entered" /\ ~call.retry =>
        /\ repeats = 0
        /\ raised.dead = drbg.destroyed
        /\ Valid(call.length) /\ ~drbg.destroyed => Accepts(drbg, call.length)
    /\ call.pc = "entered" /\ call.retry =>
        /\ Valid(call.length) => /\ Accepts(drbg, call.length)
                                 /\ repeats = IF raised.dead THEN 0 ELSE 1
    /\ call.pc = "blocks" =>
        /\ ~drbg.destroyed /\ Valid(call.length)
        /\ repeats = IF call.retry /\ ~raised.dead THEN 1 ELSE 0
        /\ ~call.retry => ~raised.dead

\* A DRBG that was just seeded has room for every valid request.
LEMMA FreshAccepts ==
  ASSUME NEW n \in Nat, NEW length \in Nat, Valid(length)
  PROVE  Accepts(Fresh(n), length)
  BY DEF Valid, Accepts, Fresh

\* And so has any that the wrapper decides not to reseed.
LEMMA CountersAccept ==
  ASSUME TypeOK, CountersInv, ~drbg.destroyed, NEW length \in Nat,
         Valid(length), ~Reseeds(length)
  PROVE  Accepts(drbg, length)
  BY DEF TypeOK, CountersInv, Valid, Reseeds, Accepts, Drbg, Counters

LimitsInv == CountersInv /\ CallInv /\ ServedUnlessBroken

LEMMA RequestLimits ==
  ASSUME TypeOK, LimitsInv, NEW length \in Nat, Request(length)
  PROVE  LimitsInv'
  <1>1. /\ call' = Entered(FALSE, length) /\ repeats' = 0
        /\ raised' = [length |-> length,
                      dead |-> drbg.destroyed /\ ~Reseeds(length),
                      failed |-> FALSE]
    BY DEF Request
  <1>2. CASE Reseeds(length)
    <2>1. drbg' = Fresh(seedings + 1) /\ managed' = NoneCounted
      BY <1>2 DEF Request
    <2>2. Valid(length) => Accepts(drbg', length)
      BY <2>1, FreshAccepts DEF TypeOK
    <2>3. drbg'.destroyed = FALSE /\ drbg'.requests = 0 /\ drbg'.bytes = 0
      BY <2>1 DEF Fresh
    <2>4. raised'.dead = FALSE /\ raised'.failed = FALSE /\ raised'.length = length
      BY <1>1, <1>2
    <2>5. /\ call'.pc = "entered" /\ ~call'.retry /\ call'.length = length
          /\ managed'.requests = 0 /\ managed'.bytes = 0
      BY <1>1, <2>1 DEF Entered, NoneCounted
    <2>. QED
      BY <1>1, <2>2, <2>3, <2>4, <2>5
      DEF LimitsInv, CountersInv, CallInv, ServedUnlessBroken, Entered, NoneCounted
  <1>3. CASE ~Reseeds(length)
    <2>1. drbg' = drbg /\ managed' = managed
      BY <1>3 DEF Request
    <2>2. Valid(length) /\ ~drbg.destroyed => Accepts(drbg, length)
      BY <1>3, CountersAccept DEF LimitsInv
    <2>3. drbg.destroyed \in BOOLEAN
      BY DEF TypeOK, Drbg
    <2>. QED
      BY <1>1, <1>3, <2>1, <2>2, <2>3
      DEF LimitsInv, CountersInv, CallInv, ServedUnlessBroken, Entered
  <1>. QED
    BY <1>2, <1>3

LEMMA RebuildLimits ==
  ASSUME TypeOK, Rebuild, LimitsInv, call.pc # "idle",
         Valid(call.length) => repeats' = IF raised.dead THEN 0 ELSE 1
  PROVE  LimitsInv'
  <1>1. /\ call' = Entered(TRUE, call.length) /\ raised' = raised
        /\ drbg' = Fresh(seedings + 1) /\ managed' = NoneCounted
    BY DEF Rebuild
  <1>2. Valid(call.length) => Accepts(drbg', call.length)
    BY <1>1, FreshAccepts DEF TypeOK, Call
  <1>3. ~drbg'.destroyed /\ drbg'.requests = 0 /\ drbg'.bytes = 0
    BY <1>1 DEF Fresh
  <1>. QED
    BY <1>1, <1>2, <1>3
    DEF LimitsInv, CountersInv, CallInv, ServedUnlessBroken, Entered, NoneCounted

LEMMA LimitsInductive == TypeOK /\ LimitsInv /\ [Next]_vars => LimitsInv'
  <1>. SUFFICES ASSUME TypeOK, LimitsInv, [Next]_vars PROVE LimitsInv'
    OBVIOUS
  <1>1. ASSUME NEW length \in Lengths, Generate(length) PROVE LimitsInv'
    BY <1>1, RequestLimits DEF Generate
  <1>2. CASE Enter
    BY <1>2 DEF Enter, TypeOK, Call, LimitsInv, CountersInv, CallInv,
                ServedUnlessBroken, Accepts, Valid
  <1>3. CASE Refuse
    <2>1. CASE ~call.retry /\ Rebuild
      <3>1. Valid(call.length) => repeats' = IF raised.dead THEN 0 ELSE 1
        BY <1>3, <2>1 DEF Refuse, LimitsInv, CallInv
      <3>. QED
        BY <1>3, <2>1, <3>1, RebuildLimits DEF Refuse
    <2>2. CASE call.retry /\ Raise /\ UNCHANGED drbg
      <3>1. ~Valid(call.length)
        BY <1>3, <2>2 DEF Refuse, LimitsInv, CallInv
      <3>. QED
        BY <1>3, <2>2, <3>1
        DEF Refuse, Raise, Idle, TypeOK, LimitsInv, CountersInv, CallInv,
            ServedUnlessBroken, Valid
    <2>. QED
      BY <1>3, <2>1, <2>2 DEF Refuse
  <1>4. CASE NextBlock
    BY <1>4 DEF NextBlock, TypeOK, Call, Drbg, LimitsInv, CountersInv, CallInv,
                ServedUnlessBroken, Valid
  <1>5. CASE RepeatBlock
    <2>1. CASE ~call.retry /\ Rebuild
      <3>1. Valid(call.length) => repeats' = IF raised.dead THEN 0 ELSE 1
        BY <1>5, <2>1 DEF RepeatBlock, LimitsInv, CallInv, TypeOK
      <3>. QED
        BY <1>5, <2>1, <3>1, RebuildLimits DEF RepeatBlock
    <2>2. CASE call.retry /\ Raise /\ drbg' = Zeroed(drbg)
      <3>1. repeats' = IF raised.dead THEN 1 ELSE 2
        BY <1>5, <2>2 DEF RepeatBlock, LimitsInv, CallInv, TypeOK
      <3>2. drbg'.destroyed
        BY <2>2 DEF Zeroed, TypeOK, Drbg
      <3>. QED
        BY <1>5, <2>2, <3>1, <3>2
        DEF RepeatBlock, Raise, Idle, TypeOK, LimitsInv, CountersInv, CallInv,
            ServedUnlessBroken
    <2>. QED
      BY <1>5, <2>1, <2>2 DEF RepeatBlock
  <1>6. CASE Return
    BY <1>6 DEF Return, Idle, TypeOK, Call, Drbg, Counters, LimitsInv,
                CountersInv, CallInv, ServedUnlessBroken
  <1>7. CASE Destroy
    BY <1>7 DEF Destroy, Zeroed, TypeOK, Drbg, LimitsInv, CountersInv, CallInv,
                ServedUnlessBroken
  <1>8. CASE SealSalt \/ SealNonce
    BY <1>8, RequestLimits DEF SealSalt, SealNonce
  <1>9. CASE UNCHANGED generator
    BY <1>9 DEF generator, LimitsInv, CountersInv, CallInv, ServedUnlessBroken
  <1>. QED
    BY <1>1, <1>2, <1>3, <1>4, <1>5, <1>6, <1>7, <1>8, <1>9
    DEF Next, vars, SealRefused, SampleRepeated, MixSalt, MixNonce

LEMMA LimitsKept == Spec => []LimitsInv
  <1>1. Init => LimitsInv
    BY DEF Init, LimitsInv, CountersInv, CallInv, ServedUnlessBroken, Fresh,
           NoneCounted, Idle
  <1>2. Typed => TypeOK
    BY DEF Typed
  <1>. QED
    BY <1>1, <1>2, LimitsInductive, AlwaysTyped, PTL DEF Spec

\* Whatever the limits, the wrapper reseeds before a request could meet one.
THEOREM NeverAtALimit == Spec => []AheadOfLimits
  <1>1. TypeOK /\ LimitsInv => AheadOfLimits
    BY CountersAccept DEF AheadOfLimits, LimitsInv
  <1>2. Typed => TypeOK
    BY DEF Typed
  <1>. QED
    BY <1>1, <1>2, AlwaysTyped, LimitsKept, PTL

\* A valid request fails only if DRBGs repeated blocks.
THEOREM ValidRequestsServed == Spec => []ServedUnlessBroken
  <1>1. LimitsInv => ServedUnlessBroken
    BY DEF LimitsInv
  <1>. QED
    BY <1>1, LimitsKept, PTL

-----------------------------------------------------------------------------
(* Outputs *)

\* The i-th block of the request under way.
Placed(i) == [seeding |-> seedings, place |-> drbg.counter - Len(call.output) + (i - 1)]

\* The output of the request under way is what the present seeding gave last.
OutputInv ==
    /\ drbg.seeding = seedings
    /\ call.pc # "blocks" => call.output = <<>>
    /\ Len(call.output) <= drbg.counter
    /\ \A i \in 1..Len(call.output) : call.output[i] = Placed(i)

\* What was returned last lies before it, or comes from an earlier seeding.
BehindInv ==
    returned # <<>> =>
        LET last == returned[Len(returned)]
        IN  /\ last.seeding <= seedings
            /\ last.seeding = seedings /\ ~drbg.destroyed =>
                  last.place < drbg.counter - Len(call.output)

\* A DRBG that was just seeded, and no output yet.
LEMMA SeededFresh ==
  ASSUME TypeOK, BehindInv, drbg' = Fresh(seedings + 1), seedings' = seedings + 1,
         call'.output = <<>>, call'.pc # "blocks", returned' = returned
  PROVE  OutputInv' /\ BehindInv'
  <1>1. /\ drbg'.seeding = seedings' /\ drbg'.counter = 0
        /\ Len(call'.output) = 0 /\ seedings \in Nat
    BY DEF Fresh, TypeOK
  <1>2. returned # <<>> => returned[Len(returned)] \in Block
    BY DEF TypeOK
  <1>. QED
    BY <1>1, <1>2 DEF OutputInv, BehindInv, Block

LEMMA OutputInductive ==
  ASSUME TypeOK, TypeOK', LimitsInv, OutputInv, BehindInv, [Next]_vars
  PROVE  OutputInv' /\ BehindInv'
  <1>1. ASSUME NEW length \in Nat, Request(length) PROVE OutputInv' /\ BehindInv'
    <2>1. call' = Entered(FALSE, length) /\ returned' = returned
      BY <1>1 DEF Request
    <2>2. CASE Reseeds(length)
      BY <1>1, <2>1, <2>2, SeededFresh DEF Request, Entered
    <2>3. CASE ~Reseeds(length)
      BY <1>1, <2>1, <2>3 DEF Request, Entered, OutputInv, BehindInv, TypeOK, Drbg, Placed
    <2>. QED
      BY <2>2, <2>3
  <1>2. CASE Enter
    BY <1>2 DEF Enter, OutputInv, BehindInv, TypeOK, Call, Placed
  <1>3. ASSUME Rebuild, returned' = returned PROVE OutputInv' /\ BehindInv'
    BY <1>3, SeededFresh DEF Rebuild, Entered
  <1>4. CASE Refuse /\ Raise /\ UNCHANGED drbg
    BY <1>4 DEF Refuse, Raise, Idle, OutputInv, BehindInv, TypeOK, Drbg, Placed
  <1>5. CASE RepeatBlock /\ Raise /\ drbg' = Zeroed(drbg)
    BY <1>5 DEF RepeatBlock, Raise, Zeroed, Idle, OutputInv, BehindInv, TypeOK, Drbg
  <1>6. CASE NextBlock
    <2>. DEFINE block == [seeding |-> drbg.seeding, place |-> drbg.counter]
    <2>1. /\ call' = [call EXCEPT !.output = Append(@, block)]
          /\ drbg' = [drbg EXCEPT !.counter = @ + 1, !.previous = block]
          /\ seedings' = seedings /\ returned' = returned
      BY <1>6 DEF NextBlock
    <2>2. /\ call'.output = Append(call.output, block) /\ call'.pc = "blocks"
          /\ drbg'.counter = drbg.counter + 1 /\ drbg'.seeding = seedings'
          /\ drbg'.destroyed = drbg.destroyed
          /\ drbg.counter \in Nat /\ call.output \in Seq(Block) /\ block \in Block
      BY <1>6, <2>1 DEF NextBlock, TypeOK, Call, Drbg, OutputInv, Block
    <2>3. Len(call'.output) = Len(call.output) + 1
      BY <2>2
    <2>4. drbg'.counter = drbg.counter + 1 /\ drbg.counter \in Nat
      BY <2>2
    <2>5. ASSUME NEW i \in 1..Len(call'.output) PROVE call'.output[i] = Placed(i)'
      <3>1. CASE i <= Len(call.output)
        BY <2>1, <2>2, <2>3, <3>1 DEF OutputInv, Placed
      <3>2. CASE i = Len(call.output) + 1
        <4>1. call'.output[i] = block
          BY <2>2, <3>2
        <4>2. /\ seedings' = seedings /\ drbg.seeding = seedings
              /\ Len(call.output) \in Nat
          BY <2>1, <2>2 DEF OutputInv
        <4>3. drbg'.counter - Len(call'.output) + (i - 1) = drbg.counter
          BY <2>3, <2>4, <3>2, <4>2
        <4>. QED
          BY <4>1, <4>2, <4>3 DEF Placed
      <3>. QED
        BY <2>2, <2>3, <3>1, <3>2
    <2>6. Len(call.output) \in Nat
      BY <2>2
    <2>7. OutputInv'
      BY <1>6, <2>2, <2>3, <2>5, <2>6 DEF OutputInv
    <2>8. drbg'.counter - Len(call'.output) = drbg.counter - Len(call.output)
      BY <2>3, <2>6, <2>4
    <2>9. BehindInv'
      BY <2>1, <2>2, <2>8 DEF BehindInv
    <2>. QED
      BY <2>7, <2>9
  <1>7. CASE Return
    <2>1. /\ call' = Idle /\ returned' = call.output /\ seedings' = seedings
          /\ drbg' = [drbg EXCEPT !.requests = @ + 1, !.bytes = @ + call.length]
      BY <1>7 DEF Return
    <2>2. /\ drbg'.counter = drbg.counter /\ drbg'.seeding = seedings
          /\ drbg.counter \in Nat /\ call.output \in Seq(Block)
      BY <2>1 DEF TypeOK, Call, Drbg, OutputInv
    <2>3. call'.output = <<>> /\ Len(call'.output) = 0
      BY <2>1 DEF Idle
    <2>4. returned' # <<>> =>
             returned'[Len(returned')] = [seeding |-> seedings, place |-> drbg.counter - 1]
      <3>1. Len(call.output) \in Nat
        BY <2>2
      <3>2. CASE call.output # <<>>
        <4>1. Len(call.output) \in 1..Len(call.output)
          BY <2>2, <3>1, <3>2
        <4>2. call.output[Len(call.output)] = Placed(Len(call.output))
          BY <4>1 DEF OutputInv
        <4>3. drbg.counter - Len(call.output) + (Len(call.output) - 1) = drbg.counter - 1
          BY <2>2, <3>1
        <4>. QED
          BY <2>1, <4>2, <4>3 DEF Placed
      <3>. QED
        BY <2>1, <3>2
    <2>5. OutputInv'
      BY <2>1, <2>2, <2>3 DEF OutputInv
    <2>6. BehindInv'
      <3>1. seedings \in Nat /\ drbg.counter - 1 < drbg.counter - 0
        BY <2>2 DEF TypeOK
      <3>. DEFINE last == returned'[Len(returned')]
      <3>2. returned' # <<>> =>
               last.seeding = seedings /\ last.place = drbg.counter - 1
        BY <2>4
      <3>. HIDE DEF last
      <3>3. returned' # <<>> =>
               /\ last.seeding <= seedings'
               /\ last.place < drbg'.counter - Len(call'.output)
        BY <2>1, <2>2, <2>3, <3>1, <3>2
      <3>. QED
        BY <3>3 DEF BehindInv, last
    <2>. QED
      BY <2>5, <2>6
  <1>8. CASE Destroy
    <2>1. /\ call' = call /\ seedings' = seedings /\ returned' = returned
          /\ drbg' = Zeroed(drbg) /\ call.pc = "idle"
      BY <1>8 DEF Destroy
    <2>2. /\ drbg'.counter = 0 /\ drbg'.destroyed /\ drbg'.seeding = drbg.seeding
          /\ call.output = <<>> /\ Len(call.output) = 0
      BY <2>1 DEF Zeroed, TypeOK, Drbg, OutputInv
    <2>. QED
      BY <2>1, <2>2 DEF OutputInv, BehindInv
  <1>9. CASE UNCHANGED generator
    BY <1>9 DEF generator, OutputInv, BehindInv, Placed
  <1>. QED
    BY <1>1, <1>2, <1>3, <1>4, <1>5, <1>6, <1>7, <1>8, <1>9, GeneratorAssumption
    DEF Next, vars, Generate, Refuse, RepeatBlock, SealSalt, SealNonce,
        SealRefused, SampleRepeated, MixSalt, MixNonce

\* A request returns a stretch of one seeding that nobody was given before.
THEOREM NothingReturnedTwice == Spec => OutputsFresh
  <1>. DEFINE Inv == TypeOK /\ LimitsInv /\ OutputInv /\ BehindInv
              Step == returned' # returned =>
                 /\ \A i \in 2..Len(returned') :
                      /\ returned'[i].seeding = returned'[1].seeding
                      /\ returned'[i].place = returned'[1].place + (i - 1)
                 /\ returned # <<>> => After(returned'[1], returned[Len(returned)])
  <1>1. Init => OutputInv /\ BehindInv
    BY DEF Init, Fresh, Idle, OutputInv, BehindInv
  <1>2. Inv /\ [Next]_vars => Step
    <2>. SUFFICES ASSUME Inv, [Next]_vars, returned' # returned PROVE Step
      OBVIOUS
    <2>1. Return
      BY DEF Next, vars, generator, Generate, Request, Enter, Refuse, NextBlock,
             RepeatBlock, Destroy, SealSalt, SealNonce, SealRefused,
             SampleRepeated, MixSalt, MixNonce
    <2>2. /\ returned' = call.output /\ call.output \in Seq(Block)
          /\ call.length > 0 /\ Enough(call.output, call.length)
          /\ ~drbg.destroyed /\ drbg.counter \in Nat
      BY <2>1 DEF Return, TypeOK, Call, Drbg, LimitsInv, CallInv, Valid
    <2>3. Len(call.output) \in Nat \ {0}
      <3>1. Len(call.output) \in Nat
        BY <2>2
      <3>2. Len(call.output) # 0
        BY <2>2, GeneratorAssumption DEF Enough, TypeOK, Call
      <3>. QED
        BY <3>1, <3>2
    <2>4. \A i \in 1..Len(returned') : returned'[i] = Placed(i)
      BY <2>2 DEF OutputInv
    <2>5. returned'[1] = [seeding |-> seedings,
                          place |-> drbg.counter - Len(call.output)]
      BY <2>2, <2>3, <2>4 DEF Placed
    <2>6. ASSUME NEW i \in 2..Len(returned')
          PROVE  /\ returned'[i].seeding = returned'[1].seeding
                 /\ returned'[i].place = returned'[1].place + (i - 1)
      <3>1. i \in 1..Len(returned') /\ i \in Int
        BY <2>2, <2>3
      <3>2. returned'[i] = Placed(i)
        BY <2>4, <3>1
      <3>3. Len(call.output) \in Int /\ drbg.counter \in Int
        BY <2>2, <2>3
      <3>. QED
        BY <2>5, <3>1, <3>2, <3>3 DEF Placed
    <2>7. returned # <<>> => After(returned'[1], returned[Len(returned)])
      <3>1. returned # <<>> => returned[Len(returned)] \in Block
        BY DEF TypeOK
      <3>. QED
        BY <2>2, <2>5, <3>1 DEF BehindInv, After, Block, TypeOK
    <2>. QED
      BY <2>6, <2>7
  <1>3. Typed => TypeOK
    BY DEF Typed
  <1>4. TypeOK /\ TypeOK' /\ LimitsInv /\ OutputInv /\ BehindInv /\ [Next]_vars
           => OutputInv' /\ BehindInv'
    BY OutputInductive
  <1>. QED
    BY <1>1, <1>2, <1>3, <1>4, AlwaysTyped, LimitsKept, PTL DEF Spec, OutputsFresh
=============================================================================
