------------------------------ MODULE SeqLock -------------------------------
(***************************************************************************)
(* SeqLockChannel<T> of include/duck_shm.hpp, at the granularity of its    *)
(* memory accesses.  One writer process and several reader processes share *)
(* the sequence counter and the words of the payload.  A payload           *)
(* assignment (`data = payload`, `dest = data`) is a memory copy: its      *)
(* words move one at a time and in any order, which is every outcome the   *)
(* race on the plain `data` member can have between the fences.  The       *)
(* fences order the copy after the odd store and before the even store in  *)
(* the writer, and between the two loads in the reader.                    *)
(*                                                                         *)
(* `committed`, `age`, `broken` and `sound` are history variables: no step *)
(* of the code depends on them.                                            *)
(***************************************************************************)
EXTENDS Naturals

CONSTANTS Words,        \* the separately copied words of T
          Vals,         \* the values of a word
          Zero,         \* the value of every word of a value-initialised T
          Readers,      \* the processes that call read()
          SeqModulus,   \* 2^32 in the code: the sequence is a uint32_t
          MaxRetries,   \* MAX_RETRIES: 10 in the code
          NoPayload     \* what a read that gave up hands over

ASSUME WordsAssumption      == Words # {}
ASSUME ZeroAssumption       == Zero \in Vals
ASSUME ModulusAssumption    == /\ SeqModulus \in Nat /\ SeqModulus > 2
                               /\ SeqModulus % 2 = 0
ASSUME MaxRetriesAssumption == MaxRetries \in Nat \ {0}

VARIABLES
  sequence, data,             \* the channel, in shared memory
  wpc, wseq, payload, wleft,  \* the writer: its position in write(), `seq`,
                              \* the argument, and the words not copied yet
  rpc, s1, dest, rleft, retries, ok,
                              \* per reader: position in read(), its locals,
                              \* the words not copied yet, the value returned
  committed,                  \* history: payload of the last finished write
  age,                        \* history: stores to `sequence` since a copying
                              \* reader loaded s1, counted up to SeqModulus
  broken,                     \* history: a writer died inside write()
  sound                       \* history: a reader's last read returned true,
                              \* undisturbed by a death or a wrapped counter

channel == <<sequence, data>>
writer  == <<wpc, wseq, payload, wleft>>
readers == <<rpc, s1, dest, rleft, retries, ok>>
history == <<committed, age, broken, sound>>
vars    == <<channel, writer, readers, history>>

Payloads    == [Words -> Vals]
InitPayload == [w \in Words |-> Zero]
Sequences32 == 0 .. SeqModulus - 1

TypeOK ==
  /\ sequence \in Sequences32 /\ data \in Payloads
  /\ wpc \in {"idle", "loaded", "copying", "dead"}
  /\ wseq \in Sequences32 /\ payload \in Payloads /\ wleft \in SUBSET Words
  /\ rpc \in [Readers -> {"idle", "load", "copying"}]
  /\ s1 \in [Readers -> Sequences32]
  /\ dest \in [Readers -> Payloads]
  /\ rleft \in [Readers -> SUBSET Words]
  /\ retries \in [Readers -> 0 .. MaxRetries]
  /\ ok \in [Readers -> BOOLEAN]
  /\ committed \in Payloads
  /\ age \in [Readers -> 0 .. SeqModulus]
  /\ broken \in BOOLEAN
  /\ sound \in [Readers -> BOOLEAN]

Init ==
  /\ sequence = 0 /\ data = InitPayload
  /\ wpc = "idle" /\ wseq = 0 /\ payload = InitPayload /\ wleft = {}
  /\ rpc = [r \in Readers |-> "idle"]
  /\ s1 = [r \in Readers |-> 0]
  /\ dest = [r \in Readers |-> InitPayload]
  /\ rleft = [r \in Readers |-> {}]
  /\ retries = [r \in Readers |-> 0]
  /\ ok = [r \in Readers |-> FALSE]
  /\ committed = InitPayload
  /\ age = [r \in Readers |-> 0]
  /\ broken = FALSE
  /\ sound = [r \in Readers |-> FALSE]

\* (A definition named X_... is a faulty variant of X, for the mutation runs.)
Succ_NoWrap(s) == s + 1

\* uint32_t addition of one, and the test `s & 1`
Succ(s)  == IF s = SeqModulus - 1 THEN 0 ELSE s + 1
IsOdd(s) == s % 2 = 1

-----------------------------------------------------------------------------
(* write(): one action per shared access                                   *)

\* A store to `sequence` ages every reader's s1.
StoreSequence(s) ==
  /\ sequence' = s
  /\ age' = [r \in Readers |->
               IF rpc[r] = "copying" /\ age[r] < SeqModulus THEN age[r] + 1
                                                            ELSE age[r]]

WriteCall(p) ==                       \* enter write(p), load the sequence
  /\ wpc = "idle"
  /\ wpc' = "loaded"
  /\ wseq' = sequence
  /\ payload' = p
  /\ UNCHANGED <<channel, wleft, readers, history>>

StoreOdd_Skipped ==
  /\ wpc = "loaded"
  /\ wpc' = "copying" /\ wleft' = Words
  /\ UNCHANGED <<channel, wseq, payload, readers, history>>

StoreOdd ==                           \* "write in progress"
  /\ wpc = "loaded"
  /\ StoreSequence(Succ(wseq))
  /\ wpc' = "copying"
  /\ wleft' = Words
  /\ UNCHANGED <<data, wseq, payload, readers, committed, broken, sound>>

WriteWord(w) ==
  /\ wpc = "copying" /\ w \in wleft
  /\ data' = [data EXCEPT ![w] = payload[w]]
  /\ wleft' = wleft \ {w}
  /\ UNCHANGED <<sequence, wpc, wseq, payload, readers, history>>

StoreEven_OffByOne ==
  /\ wpc = "copying" /\ wleft = {}
  /\ StoreSequence(Succ(wseq))
  /\ wpc' = "idle" /\ committed' = payload
  /\ UNCHANGED <<data, wseq, payload, wleft, readers, broken, sound>>

StoreEven_Early ==
  /\ wpc = "copying"
  /\ StoreSequence(Succ(Succ(wseq)))
  /\ wpc' = "idle" /\ committed' = payload
  /\ UNCHANGED <<data, wseq, payload, wleft, readers, broken, sound>>

StoreEven ==                          \* "write complete"
  /\ wpc = "copying" /\ wleft = {}
  /\ StoreSequence(Succ(Succ(wseq)))
  /\ wpc' = "idle"
  /\ committed' = payload
  /\ UNCHANGED <<data, wseq, payload, wleft, readers, broken, sound>>

WriterStep == (\E p \in Payloads : WriteCall(p)) \/ StoreOdd
              \/ (\E w \in Words : WriteWord(w)) \/ StoreEven
-----------------------------------------------------------------------------
(* read(): one action per shared access                                    *)

ReadCall(r) ==
  /\ rpc[r] = "idle"
  /\ rpc' = [rpc EXCEPT ![r] = "load"]
  /\ retries' = [retries EXCEPT ![r] = 0]
  /\ ok' = [ok EXCEPT ![r] = FALSE]
  /\ sound' = [sound EXCEPT ![r] = FALSE]
  /\ UNCHANGED <<channel, writer, s1, dest, rleft, committed, age, broken>>

LoadS1(r) ==
  /\ rpc[r] = "load"
  /\ s1' = [s1 EXCEPT ![r] = sequence]
  /\ age' = [age EXCEPT ![r] = 0]
  /\ UNCHANGED <<channel, writer, dest, retries, ok, committed, broken, sound>>

\* `continue` evaluates the loop condition, which an odd s1 makes true: the
\* reader tries again and the attempt is not counted.
SpinOnOdd(r) == LoadS1(r) /\ IsOdd(sequence) /\ UNCHANGED <<rpc, rleft>>

BeginCopy_OddAccepted(r) ==
  /\ LoadS1(r)
  /\ rpc' = [rpc EXCEPT ![r] = "copying"]
  /\ rleft' = [rleft EXCEPT ![r] = Words]

BeginCopy(r) ==
  /\ LoadS1(r)
  /\ ~IsOdd(sequence)
  /\ rpc' = [rpc EXCEPT ![r] = "copying"]
  /\ rleft' = [rleft EXCEPT ![r] = Words]

ReadWord(r, w) ==
  /\ rpc[r] = "copying" /\ w \in rleft[r]
  /\ dest' = [dest EXCEPT ![r][w] = data[w]]
  /\ rleft' = [rleft EXCEPT ![r] = @ \ {w}]
  /\ UNCHANGED <<channel, writer, rpc, s1, retries, ok, history>>

\* The environment assumption of every sequence lock, on one attempt: no
\* writer died inside write(), and fewer than SeqModulus stores fell into the
\* attempt (2^31 writes in the code).
Undisturbed(r) == ~broken /\ age[r] < SeqModulus

LoadS2_Unchecked(r) ==
  /\ rpc[r] = "copying" /\ rleft[r] = {}
  /\ retries' = [retries EXCEPT ![r] = @ + 1]
  /\ rpc' = [rpc EXCEPT ![r] = "idle"]
  /\ ok' = [ok EXCEPT ![r] = TRUE]
  /\ sound' = [sound EXCEPT ![r] = Undisturbed(r)]
  /\ age' = [age EXCEPT ![r] = 0]
  /\ UNCHANGED <<channel, writer, s1, dest, rleft, committed, broken>>

\* The second load of the sequence, the loop condition and the return value.
LoadS2(r) ==
  /\ rpc[r] = "copying" /\ rleft[r] = {}
  /\ LET tries == retries[r] + 1
         same  == s1[r] = sequence
     IN /\ retries' = [retries EXCEPT ![r] = tries]
        /\ rpc' = [rpc EXCEPT ![r] = IF ~same /\ tries < MaxRetries
                                     THEN "load" ELSE "idle"]
        /\ ok' = [ok EXCEPT ![r] = same]
        /\ sound' = [sound EXCEPT ![r] = same /\ Undisturbed(r)]
  /\ age' = [age EXCEPT ![r] = 0]
  /\ UNCHANGED <<channel, writer, s1, dest, rleft, committed, broken>>

ReaderStep(r) == ReadCall(r) \/ SpinOnOdd(r) \/ BeginCopy(r)
                 \/ (\E w \in Words : ReadWord(r, w)) \/ LoadS2(r)
-----------------------------------------------------------------------------
Next == WriterStep \/ \E r \in Readers : ReaderStep(r)

Spec == Init /\ [][Next]_vars
-----------------------------------------------------------------------------
(* The life of the writer process: bt_bridge may be killed anywhere, and a *)
(* new process that maps the same segment finds the counter as it is.      *)

WriterDies ==
  /\ wpc # "dead"
  /\ wpc' = "dead"
  /\ broken' = (broken \/ wpc = "copying")
  /\ UNCHANGED <<channel, wseq, payload, wleft, readers, committed, age, sound>>

WriterRestarts ==
  /\ wpc = "dead"
  /\ wpc' = "idle"
  /\ wleft' = {}
  /\ UNCHANGED <<channel, wseq, payload, readers, history>>

CrashNext == Next \/ WriterDies \/ WriterRestarts

CrashSpec == Init /\ [][CrashNext]_vars
-----------------------------------------------------------------------------
(* Scheduling.  A live writer leaves write() and a reader takes its steps; *)
(* between two writes the writer sleeps for what is left of its period (20 *)
(* or 50 ms) with the counter even, so a reader that keeps loading meets   *)
(* an even counter again and again.  Nobody is obliged to call write().    *)

Fairness ==
  /\ WF_vars(StoreOdd \/ (\E w \in Words : WriteWord(w)) \/ StoreEven)
  /\ \A r \in Readers : /\ WF_vars((\E w \in Words : ReadWord(r, w)) \/ LoadS2(r))
                        /\ SF_vars(BeginCopy(r))

FairSpec == CrashSpec /\ Fairness
-----------------------------------------------------------------------------
(* Properties                                                              *)

ReadReturns(r, result) ==
  rpc[r] = "copying" /\ rpc'[r] = "idle" /\ ok'[r] = result

\* A read that returns true hands over exactly the payload of the last
\* finished write at that moment, never a mix of two payloads (duck_shm.hpp
\* 49-68), as long as no writer died inside write() and the counter did not
\* run all the way round during the attempt.
AtomicRead ==
  [][\A r \in Readers :
       ReadReturns(r, TRUE) /\ Undisturbed(r) => dest[r] = committed]_vars

\* An even counter means that the shared payload is whole: this is what a
\* process attaching later, or a reader, relies on ("Even: write complete",
\* duck_shm.hpp 46).
EvenMeansComplete == ~IsOdd(sequence) => data = committed

\* The same for every history in which no writer died inside write().
EvenMeansCompleteUnbroken == ~broken => EvenMeansComplete

\* While no writer dies inside write(), a read in progress returns
\* ("Non-blocking", duck_shm.hpp 32, whose condition this is).
ReadTerminates ==
  []~broken => \A r \in Readers : rpc[r] # "idle" ~> rpc[r] = "idle"

\* The channel implements the register of module Register: finished writes
\* and undisturbed successful reads are atomic, whatever processes die.
Reg == INSTANCE Register WITH
         value     <- committed,
         reading   <- {r \in Readers : rpc[r] # "idle"},
         outcome   <- [r \in Readers |-> IF sound[r] THEN dest[r] ELSE NoPayload]

ImplementsRegister == Reg!Spec
=============================================================================
