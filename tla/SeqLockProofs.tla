--------------------------- MODULE SeqLockProofs ----------------------------
(* Theorems about SeqLock, for every payload shape, every set of readers,  *)
(* every even counter width and every retry bound.                         *)
EXTENDS SeqLock, TLAPS

USE ModulusAssumption

\* The counter n stores after it was s.
Ahead(s, n) == IF s + n < SeqModulus THEN s + n ELSE (s + n) - SeqModulus

\* The writer's local `seq` determines the shared counter: only the writer
\* stores it, even when writers die and restart.
WriterInv ==
  /\ wpc = "loaded" => sequence = wseq
  /\ wpc = "copying" => sequence = Succ(wseq)

\* A reader that is still in the loop has retries to spare and has not
\* returned true.
RetryInv ==
  \A r \in Readers :
    rpc[r] # "idle" => retries[r] < MaxRetries /\ ~ok[r] /\ ~sound[r]

\* The counter tells whether a write is under way, unless a writer died
\* inside one, and the words already copied are those of the payload.
ChannelInv ==
  ~broken =>
    /\ wpc # "copying" => ~IsOdd(sequence) /\ data = committed
    /\ wpc = "copying" => /\ IsOdd(sequence)
                          /\ \A w \in Words \ wleft : data[w] = payload[w]

\* A copying reader started from an even counter, and the counter has moved
\* on by the stores made since.
AttemptInv ==
  \A r \in Readers : rpc[r] = "copying" =>
    /\ ~IsOdd(s1[r])
    /\ age[r] < SeqModulus => sequence = Ahead(s1[r], age[r])

\* While no store has been made, what was copied is the finished write.
CopyInv ==
  \A r \in Readers : ~broken /\ rpc[r] = "copying" /\ age[r] = 0 =>
    \A w \in Words \ rleft[r] : dest[r][w] = committed[w]

IInv == TypeOK /\ RetryInv /\ WriterInv /\ ChannelInv /\ AttemptInv /\ CopyInv

-----------------------------------------------------------------------------
(* uint32_t arithmetic *)

\* Adding one to the counter stays within its width and flips the parity,
\* also when it wraps.
LEMMA SuccParity ==
  ASSUME NEW s \in Sequences32
  PROVE  Succ(s) \in Sequences32 /\ (IsOdd(Succ(s)) <=> ~IsOdd(s))
<1>1. CASE s = SeqModulus - 1
  BY <1>1 DEF Succ, IsOdd, Sequences32
<1>2. CASE s # SeqModulus - 1
  BY <1>2 DEF Succ, IsOdd, Sequences32
<1> QED BY <1>1, <1>2

\* One more store is one step further ahead, as long as the counter has not
\* gone all the way round.
LEMMA AheadSucc ==
  ASSUME NEW s \in Sequences32, NEW n \in Nat, n + 1 < SeqModulus
  PROVE  Succ(Ahead(s, n)) = Ahead(s, n + 1)
BY DEF Succ, Ahead, Sequences32

\* A counter that comes back to the same value within one lap has not moved.
LEMMA AheadSame ==
  ASSUME NEW s \in Sequences32, NEW n \in Nat, n < SeqModulus, Ahead(s, n) = s
  PROVE  n = 0
BY DEF Ahead, Sequences32
-----------------------------------------------------------------------------
(* The inductive invariant *)

LEMMA InitInv == Init => IInv
<1> SUFFICES ASSUME Init PROVE IInv
  OBVIOUS
<1>1. TypeOK
  <2>1. 0 \in 0 .. MaxRetries /\ 0 \in Sequences32 /\ 0 \in 0 .. SeqModulus
    BY MaxRetriesAssumption DEF Sequences32
  <2>2. InitPayload \in Payloads
    BY ZeroAssumption DEF InitPayload, Payloads
  <2> QED BY <2>1, <2>2 DEF Init, TypeOK
<1>2. RetryInv /\ WriterInv /\ ChannelInv
  BY MaxRetriesAssumption DEF RetryInv, Init, WriterInv, ChannelInv, IsOdd
<1>3. AttemptInv /\ CopyInv
  BY DEF Init, AttemptInv, CopyInv
<1> QED BY <1>1, <1>2, <1>3 DEF IInv

LEMMA TypeStep == TypeOK /\ RetryInv /\ [CrashNext]_vars => (TypeOK /\ RetryInv)'
<1> SUFFICES ASSUME TypeOK, RetryInv, [CrashNext]_vars
             PROVE  (TypeOK /\ RetryInv)'
  OBVIOUS
<1> USE DEF TypeOK, RetryInv, channel, writer, readers, history
<1>1. ASSUME NEW p \in Payloads, WriteCall(p) PROVE (TypeOK /\ RetryInv)'
  BY <1>1 DEF WriteCall
<1>2. CASE StoreOdd
  BY <1>2, SuccParity DEF StoreOdd, StoreSequence
<1>3. ASSUME NEW w \in Words, WriteWord(w) PROVE (TypeOK /\ RetryInv)'
  BY <1>3 DEF WriteWord, Payloads
<1>4. CASE StoreEven
  BY <1>4, SuccParity DEF StoreEven, StoreSequence
<1>5. ASSUME NEW r \in Readers, ReadCall(r) PROVE (TypeOK /\ RetryInv)'
  BY <1>5, MaxRetriesAssumption DEF ReadCall
<1>6. ASSUME NEW r \in Readers, SpinOnOdd(r) PROVE (TypeOK /\ RetryInv)'
  BY <1>6 DEF SpinOnOdd, LoadS1
<1>7. ASSUME NEW r \in Readers, BeginCopy(r) PROVE (TypeOK /\ RetryInv)'
  BY <1>7 DEF BeginCopy, LoadS1
<1>8. ASSUME NEW r \in Readers, NEW w \in Words, ReadWord(r, w) PROVE (TypeOK /\ RetryInv)'
  BY <1>8 DEF ReadWord, Payloads
<1>9. ASSUME NEW r \in Readers, LoadS2(r) PROVE (TypeOK /\ RetryInv)'
  BY <1>9, MaxRetriesAssumption DEF LoadS2
<1>10. CASE WriterDies
  BY <1>10 DEF WriterDies
<1>11. CASE WriterRestarts
  BY <1>11 DEF WriterRestarts
<1>12. CASE UNCHANGED vars
  BY <1>12 DEF vars
<1> QED
  BY <1>1, <1>2, <1>3, <1>4, <1>5, <1>6, <1>7, <1>8, <1>9, <1>10, <1>11, <1>12
     DEF CrashNext, Next, WriterStep, ReaderStep

LEMMA InvStep == IInv /\ [CrashNext]_vars => IInv'
<1> SUFFICES ASSUME IInv, [CrashNext]_vars PROVE IInv'
  OBVIOUS
<1> DEFINE Rest == WriterInv /\ ChannelInv /\ AttemptInv /\ CopyInv
<1>0. (TypeOK /\ RetryInv)'
  BY TypeStep DEF IInv
<1> USE DEF IInv, channel, writer, readers, history
<1>1. ASSUME NEW p \in Payloads, WriteCall(p) PROVE Rest'
  BY <1>1 DEF WriteCall, WriterInv, ChannelInv, AttemptInv, CopyInv
<1>2. ASSUME StoreOdd PROVE Rest'
  <2>1. sequence' = Succ(sequence) /\ sequence \in Sequences32
    BY <1>2 DEF StoreOdd, StoreSequence, WriterInv, TypeOK
  <2>2. WriterInv'
    BY <1>2 DEF StoreOdd, StoreSequence, WriterInv
  <2>3. ChannelInv'
    BY <1>2, <2>1, SuccParity DEF StoreOdd, ChannelInv
  <2>4. AttemptInv'
    <3> SUFFICES ASSUME NEW r \in Readers, rpc'[r] = "copying"
                 PROVE  /\ ~IsOdd(s1'[r])
                        /\ age'[r] < SeqModulus => sequence' = Ahead(s1'[r], age'[r])
      BY DEF AttemptInv
    <3>1. rpc[r] = "copying" /\ s1'[r] = s1[r]
          /\ age'[r] = (IF age[r] < SeqModulus THEN age[r] + 1 ELSE age[r])
      BY <1>2 DEF StoreOdd, StoreSequence
    <3>2. s1[r] \in Sequences32 /\ age[r] \in Nat
      BY DEF TypeOK
    <3> QED BY <2>1, <3>1, <3>2, AheadSucc DEF AttemptInv
  <2>5. CopyInv'
    BY <1>2 DEF StoreOdd, StoreSequence, CopyInv, TypeOK
  <2> QED BY <2>2, <2>3, <2>4, <2>5
<1>3. ASSUME NEW w \in Words, WriteWord(w) PROVE Rest'
  <2>1. ChannelInv'
    BY <1>3 DEF WriteWord, ChannelInv, TypeOK, Payloads
  <2>2. WriterInv' /\ AttemptInv' /\ CopyInv'
    BY <1>3 DEF WriteWord, WriterInv, AttemptInv, CopyInv
  <2> QED BY <2>1, <2>2
<1>4. ASSUME StoreEven PROVE Rest'
  <2>1. sequence' = Succ(sequence) /\ sequence \in Sequences32
    BY <1>4 DEF StoreEven, StoreSequence, WriterInv, TypeOK
  <2>2. WriterInv'
    BY <1>4 DEF StoreEven, WriterInv
  <2>3. ChannelInv'
    <3>1. ~broken => data = payload
      BY <1>4 DEF StoreEven, ChannelInv, TypeOK, Payloads
    <3> QED BY <1>4, <2>1, <3>1, SuccParity DEF StoreEven, ChannelInv
  <2>4. AttemptInv'
    <3> SUFFICES ASSUME NEW r \in Readers, rpc'[r] = "copying"
                 PROVE  /\ ~IsOdd(s1'[r])
                        /\ age'[r] < SeqModulus => sequence' = Ahead(s1'[r], age'[r])
      BY DEF AttemptInv
    <3>1. rpc[r] = "copying" /\ s1'[r] = s1[r]
          /\ age'[r] = (IF age[r] < SeqModulus THEN age[r] + 1 ELSE age[r])
      BY <1>4 DEF StoreEven, StoreSequence
    <3>2. s1[r] \in Sequences32 /\ age[r] \in Nat
      BY DEF TypeOK
    <3> QED BY <2>1, <3>1, <3>2, AheadSucc DEF AttemptInv
  <2>5. CopyInv'
    BY <1>4 DEF StoreEven, StoreSequence, CopyInv, TypeOK
  <2> QED BY <2>2, <2>3, <2>4, <2>5
<1>5. ASSUME NEW r \in Readers, ReadCall(r) PROVE Rest'
  BY <1>5 DEF ReadCall, WriterInv, ChannelInv, AttemptInv, CopyInv, TypeOK
<1>6. ASSUME NEW r \in Readers, SpinOnOdd(r) PROVE Rest'
  BY <1>6 DEF SpinOnOdd, LoadS1, WriterInv, ChannelInv, AttemptInv, CopyInv,
              TypeOK
<1>7. ASSUME NEW r \in Readers, BeginCopy(r) PROVE Rest'
  <2>1. WriterInv' /\ ChannelInv'
    BY <1>7 DEF BeginCopy, LoadS1, WriterInv, ChannelInv
  <2>2. AttemptInv'
    BY <1>7 DEF BeginCopy, LoadS1, AttemptInv, TypeOK, Ahead, Sequences32
  <2>3. CopyInv'
    BY <1>7 DEF BeginCopy, LoadS1, CopyInv, TypeOK
  <2> QED BY <2>1, <2>2, <2>3
<1>8. ASSUME NEW r \in Readers, NEW w \in Words, ReadWord(r, w) PROVE Rest'
  <2>1. WriterInv' /\ ChannelInv' /\ AttemptInv'
    BY <1>8 DEF ReadWord, WriterInv, ChannelInv, AttemptInv
  <2>2. ~broken /\ age[r] = 0 => data = committed
    <3>1. rpc[r] = "copying" /\ s1[r] \in Sequences32
      BY <1>8 DEF ReadWord, TypeOK
    <3>2. Ahead(s1[r], 0) = s1[r]
      BY <3>1 DEF Ahead, Sequences32
    <3> QED BY <3>1, <3>2 DEF AttemptInv, ChannelInv
  <2>3. CopyInv'
    BY <1>8, <2>2 DEF ReadWord, CopyInv, TypeOK, Payloads
  <2> QED BY <2>1, <2>3
<1>9. ASSUME NEW r \in Readers, LoadS2(r) PROVE Rest'
  BY <1>9 DEF LoadS2, WriterInv, ChannelInv, AttemptInv, CopyInv, TypeOK
<1>10. ASSUME WriterDies PROVE Rest'
  BY <1>10 DEF WriterDies, WriterInv, ChannelInv, AttemptInv, CopyInv
<1>11. ASSUME WriterRestarts PROVE Rest'
  BY <1>11 DEF WriterRestarts, WriterInv, ChannelInv, AttemptInv, CopyInv
<1>12. ASSUME UNCHANGED vars PROVE Rest'
  BY <1>12 DEF vars, WriterInv, ChannelInv, AttemptInv, CopyInv
<1>13. Rest'
  BY <1>1, <1>2, <1>3, <1>4, <1>5, <1>6, <1>7, <1>8, <1>9, <1>10, <1>11, <1>12
     DEF CrashNext, Next, WriterStep, ReaderStep
<1> QED BY <1>0, <1>13

THEOREM CrashInvariant == CrashSpec => []IInv
<1>1. Init => IInv
  BY InitInv
<1>2. IInv /\ [CrashNext]_vars => IInv'
  BY InvStep
<1> QED BY <1>1, <1>2, PTL DEF CrashSpec
-----------------------------------------------------------------------------
(* What the invariant gives *)

\* Every variable keeps its type, with writers dying and restarting anywhere.
THEOREM TypeCorrect == CrashSpec => []TypeOK
<1>1. IInv => TypeOK
  BY DEF IInv
<1> QED BY <1>1, CrashInvariant, PTL

\* duck_shm.hpp 38-47: an even counter means a whole payload, unless a writer
\* died inside write().
THEOREM EvenIsComplete == CrashSpec => []EvenMeansCompleteUnbroken
<1>1. IInv => EvenMeansCompleteUnbroken
  BY DEF IInv, ChannelInv, EvenMeansCompleteUnbroken, EvenMeansComplete
<1> QED BY <1>1, CrashInvariant, PTL

\* The copy that a second load of an unchanged counter closes is the payload
\* of the last finished write.
LEMMA SameCounterSamePayload ==
  ASSUME IInv, ~broken, NEW r \in Readers, rpc[r] = "copying", rleft[r] = {},
         s1[r] = sequence, age[r] < SeqModulus
  PROVE  dest[r] = committed
<1>1. s1[r] \in Sequences32 /\ age[r] \in Nat
  BY DEF IInv, TypeOK
<1>2. age[r] = 0
  BY <1>1, AheadSame DEF IInv, AttemptInv
<1>3. \A w \in Words : dest[r][w] = committed[w]
  BY <1>2 DEF IInv, CopyInv
<1>4. dest[r] \in [Words -> Vals] /\ committed \in [Words -> Vals]
  BY DEF IInv, TypeOK, Payloads
<1> QED BY <1>3, <1>4

\* Of all the reader's steps only the second load leaves read().
LEMMA OnlyLoadS2Returns ==
  ASSUME TypeOK, [CrashNext]_vars, NEW r \in Readers,
         rpc[r] = "copying", rpc'[r] = "idle"
  PROVE  LoadS2(r)
<1> USE DEF TypeOK, channel, writer, readers, history
<1>1. ASSUME NEW q \in Readers, ReaderStep(q) PROVE LoadS2(r)
  <2>1. CASE ReadCall(q)
    BY <2>1 DEF ReadCall
  <2>2. CASE SpinOnOdd(q) \/ BeginCopy(q)
    BY <2>2 DEF SpinOnOdd, BeginCopy, LoadS1
  <2>3. CASE \E w \in Words : ReadWord(q, w)
    BY <2>3 DEF ReadWord
  <2>4. CASE LoadS2(q)
    BY <2>4 DEF LoadS2
  <2> QED BY <1>1, <2>1, <2>2, <2>3, <2>4 DEF ReaderStep
<1>2. CASE WriterStep
  BY <1>2 DEF WriterStep, WriteCall, StoreOdd, WriteWord, StoreEven
<1>3. CASE WriterDies \/ WriterRestarts \/ UNCHANGED vars
  BY <1>3 DEF WriterDies, WriterRestarts, vars
<1> QED BY <1>1, <1>2, <1>3 DEF CrashNext, Next

\* duck_shm.hpp 49-68: a read that returns true hands over exactly the last
\* finished write, for every payload size, reader set and interleaving.
THEOREM ReadsAreAtomic == CrashSpec => AtomicRead
<1>1. IInv /\ [CrashNext]_vars =>
        [\A r \in Readers :
           ReadReturns(r, TRUE) /\ Undisturbed(r) => dest[r] = committed]_vars
  <2> SUFFICES ASSUME IInv, [CrashNext]_vars, NEW r \in Readers,
                      ReadReturns(r, TRUE), Undisturbed(r)
               PROVE  dest[r] = committed
    OBVIOUS
  <2>1. LoadS2(r)
    BY OnlyLoadS2Returns DEF IInv, ReadReturns
  <2>2. rleft[r] = {} /\ s1[r] = sequence
    BY <2>1 DEF LoadS2, ReadReturns, IInv, TypeOK
  <2> QED BY <2>2, SameCounterSamePayload DEF ReadReturns, Undisturbed
<1> QED BY <1>1, CrashInvariant, PTL DEF CrashSpec, AtomicRead
-----------------------------------------------------------------------------
(* The channel implements the register *)

\* Every step of the channel is a step of the register or changes nothing in
\* it: the even store is Write, the second load of an undisturbed attempt is
\* EndRead, and the one of a disturbed or exhausted attempt is GiveUp.
LEMMA RegisterStep == IInv /\ [CrashNext]_vars => [Reg!Next]_(Reg!vars)
<1> SUFFICES ASSUME IInv, [CrashNext]_vars PROVE [Reg!Next]_(Reg!vars)
  OBVIOUS
<1> DEFINE Same == /\ committed' = committed
                   /\ \A r \in Readers : /\ rpc'[r] = "idle" <=> rpc[r] = "idle"
                                         /\ sound'[r] = sound[r]
                                         /\ sound[r] => dest'[r] = dest[r]
<1> USE DEF channel, writer, readers, history
<1>a. TypeOK /\ RetryInv
  BY DEF IInv
<1>0. Same => UNCHANGED Reg!vars
  BY DEF Reg!vars
<1>1. ASSUME NEW p \in Payloads, WriteCall(p) PROVE Same
  BY <1>1 DEF WriteCall
<1>2. ASSUME StoreOdd PROVE Same
  BY <1>2 DEF StoreOdd
<1>3. ASSUME NEW w \in Words, WriteWord(w) PROVE Same
  BY <1>3 DEF WriteWord
<1>4. ASSUME StoreEven PROVE Reg!Next
  <2>1. Reg!Write(payload) /\ payload \in Payloads
    BY <1>4, <1>a DEF StoreEven, Reg!Write, TypeOK
  <2> QED BY <2>1 DEF Reg!Next
<1>5. ASSUME NEW r \in Readers, ReadCall(r) PROVE Reg!Next
  <2>1. Reg!BeginRead(r)
    BY <1>5, <1>a DEF ReadCall, Reg!BeginRead, TypeOK
  <2> QED BY <2>1 DEF Reg!Next
<1>6. ASSUME NEW r \in Readers, SpinOnOdd(r) \/ BeginCopy(r) PROVE Same
  BY <1>6, <1>a DEF SpinOnOdd, BeginCopy, LoadS1, TypeOK
<1>7. ASSUME NEW r \in Readers, NEW w \in Words, ReadWord(r, w) PROVE Same
  BY <1>7, <1>a DEF ReadWord, TypeOK, RetryInv
<1>8. ASSUME NEW r \in Readers, LoadS2(r) PROVE Reg!Next \/ Same
  <2>1. ASSUME s1[r] = sequence, Undisturbed(r) PROVE Reg!Next
    <3>1. dest[r] = committed
      BY <1>8, <2>1, SameCounterSamePayload DEF LoadS2, Undisturbed
    <3>2. Reg!EndRead(r)
      BY <1>8, <1>a, <2>1, <3>1 DEF LoadS2, Reg!EndRead, TypeOK
    <3> QED BY <3>2 DEF Reg!Next
  <2>2. ASSUME s1[r] # sequence, retries[r] + 1 < MaxRetries PROVE Same
    BY <1>8, <1>a, <2>2 DEF LoadS2, TypeOK, RetryInv
  <2>3. ASSUME ~(s1[r] = sequence /\ Undisturbed(r)),
               ~(s1[r] # sequence /\ retries[r] + 1 < MaxRetries)
        PROVE  Reg!Next
    <3>1. Reg!GiveUp(r)
      BY <1>8, <1>a, <2>3 DEF LoadS2, Reg!GiveUp, TypeOK, RetryInv
    <3> QED BY <3>1 DEF Reg!Next
  <2> QED BY <2>1, <2>2, <2>3
<1>9. ASSUME WriterDies PROVE Same
  BY <1>9 DEF WriterDies
<1>10. ASSUME WriterRestarts PROVE Same
  BY <1>10 DEF WriterRestarts
<1>11. ASSUME UNCHANGED vars PROVE Same
  BY <1>11 DEF vars
<1> QED
  BY <1>0, <1>1, <1>2, <1>3, <1>4, <1>5, <1>6, <1>7, <1>8, <1>9, <1>10, <1>11
     DEF CrashNext, Next, WriterStep, ReaderStep

\* duck_shm.hpp 34-69: finished writes and undisturbed successful reads make
\* up an atomic register, whatever writers die and restart.
THEOREM ChannelIsRegister == CrashSpec => ImplementsRegister
<1>1. Init => Reg!Init
  BY DEF Init, Reg!Init
<1>2. IInv /\ [CrashNext]_vars => [Reg!Next]_(Reg!vars)
  BY RegisterStep
<1> QED BY <1>1, <1>2, CrashInvariant, PTL
        DEF CrashSpec, ImplementsRegister, Reg!Spec
=============================================================================
