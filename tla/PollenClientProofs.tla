------------------------ MODULE PollenClientProofs -------------------------
(* Theorems about PollenClient, for every set of callers and every number  *)
(* of calls and connections.                                               *)
EXTENDS PollenClient, TLAPS

USE BoundsAssumption

\* A reader inside recv is on a socket.
BlockedInv == \A r \in Conns : rpc[r] = "blocked" => rsock[r] \in Conns

\* An id is drawn once, belongs to one caller, and is open while it has one.
CallInv ==
  /\ \A c \in Callers : call[c] <= msgId
  /\ \A c, d \in Callers : call[c] = call[d] /\ call[c] # None => c = d
  /\ \A c \in Callers : call[c] # None => outcome[call[c]] = "open"
  /\ \A i \in Calls : i > msgId => outcome[i] = "open"
  /\ \A c \in Callers :
       /\ pc[c] \in {"branch", "wait", "woken", "late", "sync"} => call[c] # None
       /\ pc[c] \in {"idle", "raised"} => call[c] = None

InFlight(i, k) == i \in requests[k] \/ i \in replies[k]
Nowhere(i)     == i \notin pending /\ \A k \in Conns : ~InFlight(i, k) /\ i \notin buffer[k]

\* An id is in one place: on its way on one connection, in the chunk of one
\* reader, or stored; nowhere before it is sent, and nowhere once it was
\* answered.
PlaceInv ==
  /\ \A i \in Calls, k \in Conns :
       InFlight(i, k) => /\ i <= msgId /\ i \notin pending
                         /\ ~(i \in requests[k] /\ i \in replies[k])
                         /\ \A r \in Conns : i \notin buffer[r]
  /\ \A i \in Calls, k, l \in Conns : InFlight(i, k) /\ InFlight(i, l) => k = l
  /\ \A i \in Calls, r \in Conns : i \in buffer[r] => i <= msgId /\ i \notin pending
  /\ \A i \in Calls, r, q \in Conns : i \in buffer[r] /\ i \in buffer[q] => r = q
  /\ \A c \in Callers :
       pc[c] \in {"check", "lock", "sending"} /\ call[c] # None => Nowhere(call[c])
  /\ \A i \in Calls : outcome[i] = "answer" => Nowhere(i)

\* Only what the server carried out is answered.
ExecInv ==
  /\ \A k \in Conns : replies[k] \subseteq executed /\ buffer[k] \subseteq executed
  /\ pending \subseteq executed
  /\ \A i \in executed : i <= msgId

\* An event is reachable until its caller is woken, and it is set by the reply
\* or by close().
WakeInv ==
  /\ \A c \in Callers :
       pc[c] \in {"check", "lock", "sending", "branch", "wait"} /\ call[c] # None =>
         call[c] \in registered \union signalled
  /\ \A c \in Callers : pc[c] = "woken" => call[c] \in signalled
  /\ \A i \in signalled : i \in cleared \/ (i \in registered /\ i \in pending)

\* The inductive invariant.
IInv == TypeOK /\ BlockedInv /\ CallInv /\ PlaceInv /\ ExecInv /\ WakeInv
-----------------------------------------------------------------------------
LEMMA InitInv == Init => IInv
<1> SUFFICES ASSUME Init PROVE IInv
  OBVIOUS
<1> USE DEF Init, None
<1>1. TypeOK
  <2>1. 0 \in 0 .. MaxCalls /\ {} \in SUBSET Calls
    OBVIOUS
  <2>2. "idle" \in Positions /\ "open" \in Outcomes
    BY DEF Positions, Outcomes
  <2> QED BY <2>1, <2>2 DEF TypeOK
<1>2. \A i \in Calls, k \in Conns : ~InFlight(i, k) /\ i \notin buffer[k]
  BY DEF InFlight
<1>3. \A i \in Calls : outcome[i] = "open"
  OBVIOUS
<1>4. \A c \in Callers : pc[c] = "idle" /\ call[c] = 0
  OBVIOUS
<1>5. \A r \in Conns : rpc[r] = "new" /\ replies[r] = {} /\ buffer[r] = {}
  OBVIOUS
<1> QED
  BY <1>1, <1>2, <1>3, <1>4, <1>5
     DEF IInv, BlockedInv, CallInv, PlaceInv, Nowhere, ExecInv, WakeInv

\* What a caller that leaves a call with `result` changes.
Left(c, to, result) ==
  /\ pc' \in [Callers -> Positions] /\ call' \in [Callers -> 0 .. MaxCalls]
  /\ next' \in [Callers -> {"return", "open"}] /\ outcome' \in [Calls -> Outcomes]
  /\ pc'[c] = to /\ call'[c] = None
  /\ \A d \in Callers \ {c} : pc'[d] = pc[d] /\ call'[d] = call[d]
  /\ \A i \in Calls : outcome'[i] = IF i = call[c] THEN result ELSE outcome[i]

LEMMA LeaveMoves ==
  ASSUME TypeOK, NEW c \in Callers, NEW to \in {"idle", "raised"},
         NEW result \in {"answer", "nothing"}, Leave(c, to, result)
  PROVE  Left(c, to, result)
BY DEF Leave, Left, TypeOK, None, Calls, Positions, Outcomes

\* Leaving a call keeps ids with their callers.
LEMMA LeftCall ==
  ASSUME TypeOK, CallInv, NEW c \in Callers, NEW to \in {"idle", "raised"},
         NEW result, Left(c, to, result), msgId' = msgId
  PROVE  CallInv'
<1>1. call'[c] = 0 /\ \A d \in Callers \ {c} : call'[d] = call[d]
  BY DEF Left, None
<1>2. ASSUME NEW d \in Callers PROVE call[d] \in 0 .. MaxCalls /\ call[d] <= msgId
  BY DEF TypeOK, CallInv
<1>3. msgId \in Nat
  BY DEF TypeOK
<1>4. (\A d \in Callers : call[d] <= msgId)'
  BY <1>1, <1>2, <1>3
<1>5. (\A d, e \in Callers : call[d] = call[e] /\ call[d] # None => d = e)'
  BY <1>1 DEF CallInv, None
<1>6. (\A d \in Callers : call[d] # None => outcome[call[d]] = "open")'
  <2> SUFFICES ASSUME NEW d \in Callers, call'[d] # None PROVE outcome'[call'[d]] = "open"
    OBVIOUS
  <2>1. d # c /\ call'[d] = call[d] /\ call[d] # 0
    BY <1>1 DEF None
  <2>2. call[d] \in Calls /\ call[d] # call[c]
    BY <1>2, <2>1 DEF Calls, CallInv, None
  <2> QED BY <2>1, <2>2 DEF Left, CallInv, None
<1>7. (\A i \in Calls : i > msgId => outcome[i] = "open")'
  <2> SUFFICES ASSUME NEW i \in Calls, i > msgId PROVE outcome'[i] = "open"
    OBVIOUS
  <2>1. i # call[c]
    BY <1>2, <1>3 DEF Calls
  <2> QED BY <2>1 DEF Left, CallInv
<1>8. (\A d \in Callers :
       /\ pc[d] \in {"branch", "wait", "woken", "late", "sync"} => call[d] # None
       /\ pc[d] \in {"idle", "raised"} => call[d] = None)'
  BY DEF Left, CallInv
<1> QED BY <1>4, <1>5, <1>6, <1>7, <1>8 DEF CallInv

\* Leaving a call keeps ids where they are.
LEMMA LeftPlace ==
  ASSUME TypeOK, CallInv, PlaceInv, NEW c \in Callers, NEW to \in {"idle", "raised"},
         NEW result, Left(c, to, result), msgId' = msgId,
         pending' \subseteq pending,
         \A k \in Conns : /\ requests'[k] \subseteq requests[k]
                          /\ replies'[k] \subseteq replies[k]
                          /\ buffer'[k] \subseteq buffer[k],
         result = "answer" => \A i \in {call[c]} : Nowhere(i)'
  PROVE  PlaceInv'
<1>1. \A i \in Calls, k \in Conns : InFlight(i, k)' => InFlight(i, k)
  BY DEF InFlight
<1>2. (\A i \in Calls, k \in Conns :
       InFlight(i, k) => /\ i <= msgId /\ i \notin pending
                         /\ ~(i \in requests[k] /\ i \in replies[k])
                         /\ \A r \in Conns : i \notin buffer[r])'
  BY <1>1 DEF PlaceInv
<1>3. (\A i \in Calls, k, l \in Conns : InFlight(i, k) /\ InFlight(i, l) => k = l)'
  BY <1>1 DEF PlaceInv
<1>4. (/\ \A i \in Calls, r \in Conns : i \in buffer[r] => i <= msgId /\ i \notin pending
       /\ \A i \in Calls, r, q \in Conns : i \in buffer[r] /\ i \in buffer[q] => r = q)'
  BY DEF PlaceInv
<1>5. \A i \in Calls : Nowhere(i) => Nowhere(i)'
  BY <1>1 DEF Nowhere
<1>6. (\A d \in Callers :
       pc[d] \in {"check", "lock", "sending"} /\ call[d] # None => Nowhere(call[d]))'
  <2> SUFFICES ASSUME NEW d \in Callers, pc'[d] \in {"check", "lock", "sending"},
                      call'[d] # None
               PROVE  Nowhere(call[d])'
    OBVIOUS
  <2>1. pc'[d] = pc[d] /\ call'[d] = call[d]
    BY DEF Left
  <2>2. call[d] \in Calls
    BY <2>1 DEF TypeOK, None, Calls
  <2>3. Nowhere(call[d])
    BY <2>1 DEF PlaceInv
  <2> QED BY <2>1, <2>2, <2>3, <1>1 DEF Nowhere
<1>7. (\A i \in Calls : outcome[i] = "answer" => Nowhere(i))'
  <2> SUFFICES ASSUME NEW i \in Calls, outcome'[i] = "answer" PROVE Nowhere(i)'
    OBVIOUS
  <2>1. CASE i = call[c]
    BY <2>1 DEF Left, Nowhere
  <2>2. CASE i # call[c]
    BY <2>2, <1>5 DEF Left, PlaceInv
  <2> QED BY <2>1, <2>2
<1> QED BY <1>2, <1>3, <1>4, <1>6, <1>7 DEF PlaceInv

\* One step per action.  The part of the invariant about places and events is
\* split where the action moves an id; a step that leaves a call cites Left.
LEMMA InvStep == IInv /\ [Next]_vars => IInv'
<1> SUFFICES ASSUME IInv, [Next]_vars PROVE IInv'
  OBVIOUS
<1> USE DEF IInv, BlockedInv, InFlight, Nowhere,
            client, tables, callers, readers, network, None, Calls, Conns,
            Positions, Outcomes
<1>1. ASSUME NEW c \in Callers, Request(c) PROVE IInv'
  <2>1. (TypeOK /\ BlockedInv)'
    BY <1>1 DEF Request, TypeOK
  <2>2. (CallInv)'
    BY <1>1 DEF Request, TypeOK, CallInv
  <2>3. (PlaceInv)'
    BY <1>1 DEF Request, TypeOK, CallInv, PlaceInv, ExecInv
  <2>4. (ExecInv /\ WakeInv)'
    BY <1>1 DEF Request, TypeOK, CallInv, PlaceInv, ExecInv, WakeInv
  <2> QED BY <2>1, <2>2, <2>3, <2>4
<1>2. ASSUME NEW c \in Callers, Notify(c) PROVE IInv'
  <2>1. (TypeOK /\ BlockedInv)'
    BY <1>2 DEF Notify, Goto, TypeOK
  <2>2. (CallInv /\ PlaceInv /\ ExecInv /\ WakeInv)'
    BY <1>2 DEF Notify, Goto, TypeOK, CallInv, PlaceInv, ExecInv, WakeInv
  <2> QED BY <2>1, <2>2
<1>3. ASSUME NEW c \in Callers, Check(c) PROVE IInv'
  <2>1. CASE sock = None
    <3>0. Left(c, "idle", "nothing")
      BY <1>3, <2>1, LeaveMoves DEF Check, Return
    <3>1. (TypeOK /\ BlockedInv)'
      <4>1. registered' = registered \ {call[c]} /\ UNCHANGED <<sock, running, reader,
              msgId, sendLock, signalled, pending, rpc, rsock, buffer, link, requests,
              replies, executed, cleared>>
        BY <1>3, <2>1 DEF Check
      <4> QED BY <3>0, <4>1 DEF Left, TypeOK
    <3>2. (CallInv)'
      BY <1>3, <2>1, <3>0, LeftCall DEF Check
    <3>3. (PlaceInv)'
      BY <1>3, <2>1, <3>0, LeftPlace DEF Check
    <3>4. (ExecInv /\ WakeInv)'
      <4>1. registered' = registered \ {call[c]} /\ UNCHANGED <<msgId, signalled,
              pending, replies, buffer, executed, cleared>>
        BY <1>3, <2>1 DEF Check
      <4>2. call[c] \notin pending
        BY <1>3 DEF Check, TypeOK, PlaceInv
      <4>3. \A d \in Callers \ {c} : call[d] # None => call[d] # call[c]
        BY DEF CallInv
      <4>4. (\A d \in Callers :
              pc[d] \in {"check", "lock", "sending", "branch", "wait"} /\ call[d] # None =>
                call[d] \in registered \union signalled)'
        BY <3>0, <4>1, <4>3 DEF Left, WakeInv
      <4>5. (\A d \in Callers : pc[d] = "woken" => call[d] \in signalled)'
        BY <3>0, <4>1 DEF Left, WakeInv
      <4>6. (\A i \in signalled : i \in cleared \/ (i \in registered /\ i \in pending))'
        BY <4>1, <4>2 DEF WakeInv
      <4>7. ExecInv'
        BY <4>1 DEF ExecInv
      <4> QED BY <4>4, <4>5, <4>6, <4>7 DEF WakeInv
    <3> QED BY <3>1, <3>2, <3>3, <3>4
  <2>2. CASE sock # None
    <3>1. (TypeOK /\ BlockedInv)'
      BY <1>3, <2>2 DEF Check, Goto, TypeOK
    <3>2. (CallInv)'
      BY <1>3, <2>2 DEF Check, Goto, TypeOK, CallInv
    <3>3. (PlaceInv)'
      BY <1>3, <2>2 DEF Check, Goto, TypeOK, CallInv, PlaceInv, ExecInv
    <3>4. (ExecInv /\ WakeInv)'
      BY <1>3, <2>2 DEF Check, Goto, TypeOK, CallInv, PlaceInv, ExecInv, WakeInv
    <3> QED BY <3>1, <3>2, <3>3, <3>4
  <2> QED BY <2>1, <2>2
<1>4. ASSUME NEW c \in Callers, Lock(c) PROVE IInv'
  <2>1. (TypeOK /\ BlockedInv)'
    BY <1>4 DEF Lock, Goto, TypeOK
  <2>2. (CallInv /\ PlaceInv /\ ExecInv /\ WakeInv)'
    BY <1>4 DEF Lock, Goto, TypeOK, CallInv, PlaceInv, ExecInv, WakeInv
  <2> QED BY <2>1, <2>2
<1>5. ASSUME NEW c \in Callers, SendRaises(c) PROVE IInv'
  <2>0. Left(c, "raised", "nothing")
    BY <1>5, LeaveMoves DEF SendRaises, Raise
  <2>1. (TypeOK /\ BlockedInv)'
    BY <1>5, <2>0 DEF SendRaises, Left, TypeOK
  <2>2. (CallInv)'
    BY <1>5, <2>0, LeftCall DEF SendRaises
  <2>3. (PlaceInv)'
    BY <1>5, <2>0, LeftPlace DEF SendRaises
  <2>4. (ExecInv /\ WakeInv)'
    BY <1>5, <2>0 DEF SendRaises, Left, TypeOK, CallInv, PlaceInv, ExecInv, WakeInv
  <2> QED BY <2>1, <2>2, <2>3, <2>4
<1>6. ASSUME NEW c \in Callers, SendSucceeds(c) PROVE IInv'
  <2>1. CASE call[c] = None
    <3>0. Left(c, "idle", "nothing")
      BY <1>6, <2>1, LeaveMoves DEF SendSucceeds, Return
    <3>1. (TypeOK /\ BlockedInv)'
      BY <1>6, <2>1, <3>0 DEF SendSucceeds, Left, TypeOK
    <3>2. (CallInv)'
      BY <1>6, <2>1, <3>0, LeftCall DEF SendSucceeds
    <3>3. (PlaceInv)'
      BY <1>6, <2>1, <3>0, LeftPlace DEF SendSucceeds
    <3>4. (ExecInv /\ WakeInv)'
      BY <1>6, <2>1, <3>0 DEF SendSucceeds, Left, TypeOK, CallInv, PlaceInv, ExecInv, WakeInv
    <3> QED BY <3>1, <3>2, <3>3, <3>4
  <2>2. CASE call[c] # None
    <3>0. call[c] \in Calls /\ sock \in Conns
      BY <1>6, <2>2 DEF SendSucceeds, TypeOK
    <3>1. (TypeOK /\ BlockedInv)'
      <4>1. requests' \in [Conns -> SUBSET Calls]
        BY <1>6, <2>2, <3>0 DEF SendSucceeds, TypeOK
      <4>2. pc' \in [Callers -> Positions] /\ sendLock' = None /\ UNCHANGED <<call, next,
              sock, running, reader, msgId, registered, signalled, pending, rpc, rsock,
              buffer, link, replies, executed, outcome, cleared>>
        BY <1>6, <2>2 DEF SendSucceeds, Goto, TypeOK
      <4> QED BY <4>1, <4>2 DEF TypeOK
    <3>2. (CallInv)'
      BY <1>6, <2>2 DEF SendSucceeds, Goto, TypeOK, CallInv
    <3>3. (PlaceInv)'
      <4>1. pc' = [pc EXCEPT ![c] = "branch"] /\ UNCHANGED <<call, msgId, pending,
              replies, buffer, outcome>>
        BY <1>6, <2>2 DEF SendSucceeds, Goto
      <4>2. \A i \in Calls, k \in Conns :
              i \in requests'[k] => i \in requests[k] \/ (i = call[c] /\ k = sock)
        BY <1>6, <2>2, <3>0 DEF SendSucceeds, TypeOK
      <4>3. Nowhere(call[c])
        BY <1>6, <2>2, <3>0 DEF SendSucceeds, PlaceInv
      <4>4. call[c] <= msgId /\ outcome[call[c]] = "open"
        BY <2>2 DEF CallInv
      <4>5. \A d \in Callers : pc'[d] \in {"check", "lock", "sending"} =>
              pc[d] = pc'[d] /\ (call[d] # None => call[d] # call[c] /\ call[d] \in Calls)
        BY <4>1, <1>6 DEF CallInv, TypeOK
      <4>6. \A i \in Calls, k \in Conns :
              InFlight(i, k)' => InFlight(i, k) \/ (i = call[c] /\ k = sock)
        BY <4>1, <4>2
      <4>7. (\A i \in Calls, k \in Conns :
              InFlight(i, k) => /\ i <= msgId /\ i \notin pending
                                /\ ~(i \in requests[k] /\ i \in replies[k])
                                /\ \A r \in Conns : i \notin buffer[r])'
        BY <4>1, <4>2, <4>3, <4>4 DEF PlaceInv
      <4>8. (\A i \in Calls, k, l \in Conns : InFlight(i, k) /\ InFlight(i, l) => k = l)'
        BY <4>6, <4>3 DEF PlaceInv
      <4>9. (\A d \in Callers :
              pc[d] \in {"check", "lock", "sending"} /\ call[d] # None => Nowhere(call[d]))'
        BY <4>1, <4>5, <4>6 DEF PlaceInv
      <4>10. (\A i \in Calls : outcome[i] = "answer" => Nowhere(i))'
        BY <4>1, <4>4, <4>6 DEF PlaceInv
      <4> QED BY <4>1, <4>7, <4>8, <4>9, <4>10 DEF PlaceInv
    <3>4. (ExecInv /\ WakeInv)'
      BY <1>6, <2>2 DEF SendSucceeds, Goto, TypeOK, CallInv, PlaceInv, ExecInv, WakeInv
    <3> QED BY <3>1, <3>2, <3>3, <3>4
  <2> QED BY <2>1, <2>2
<1>7. ASSUME NEW c \in Callers, SendFails(c) PROVE IInv'
  <2>1. (TypeOK /\ BlockedInv)'
    BY <1>7 DEF SendFails, Goto, TypeOK
  <2>2. (CallInv /\ PlaceInv /\ ExecInv /\ WakeInv)'
    BY <1>7 DEF SendFails, Goto, TypeOK, CallInv, PlaceInv, ExecInv, WakeInv
  <2> QED BY <2>1, <2>2
<1>8. ASSUME NEW c \in Callers, Branch(c) PROVE IInv'
  <2>1. (TypeOK /\ BlockedInv)'
    BY <1>8 DEF Branch, Goto, TypeOK
  <2>2. (CallInv /\ PlaceInv /\ ExecInv /\ WakeInv)'
    BY <1>8 DEF Branch, Goto, TypeOK, CallInv, PlaceInv, ExecInv, WakeInv
  <2> QED BY <2>1, <2>2
<1>9. ASSUME NEW c \in Callers, Woken(c) PROVE IInv'
  <2>1. (TypeOK /\ BlockedInv)'
    BY <1>9 DEF Woken, Goto, TypeOK
  <2>2. (CallInv /\ PlaceInv /\ ExecInv /\ WakeInv)'
    BY <1>9 DEF Woken, Goto, TypeOK, CallInv, PlaceInv, ExecInv, WakeInv
  <2> QED BY <2>1, <2>2
<1>10. ASSUME NEW c \in Callers, TimesOut(c) PROVE IInv'
  <2>1. (TypeOK /\ BlockedInv)'
    BY <1>10 DEF TimesOut, Goto, TypeOK
  <2>2. (CallInv /\ PlaceInv /\ ExecInv /\ WakeInv)'
    BY <1>10 DEF TimesOut, Goto, TypeOK, CallInv, PlaceInv, ExecInv, WakeInv
  <2> QED BY <2>1, <2>2
<1>11. ASSUME NEW c \in Callers, Finish(c) PROVE IInv'
  <2>0. Left(c, "idle", IF pc[c] = "woken" /\ call[c] \in pending THEN "answer" ELSE "nothing")
    BY <1>11, LeaveMoves DEF Finish, Return
  <2>1. (TypeOK /\ BlockedInv)'
    BY <1>11, <2>0 DEF Finish, Left, TypeOK
  <2>2. (CallInv)'
    BY <1>11, <2>0, LeftCall DEF Finish
  <2>3. (PlaceInv)'
    <3>1. /\ pending' \subseteq pending /\ call[c] \in Calls
          /\ UNCHANGED <<msgId, requests, replies, buffer>>
      BY <1>11 DEF Finish, CallInv, TypeOK
    <3>2. pc[c] = "woken" /\ call[c] \in pending =>
            \A i \in {call[c]} : Nowhere(i)'
      BY <1>11, <3>1 DEF Finish, PlaceInv
    <3> QED BY <2>0, <3>1, <3>2, LeftPlace
  <2>4. (ExecInv /\ WakeInv)'
    <3>1. /\ registered' = registered \ {call[c]} /\ signalled' = signalled \ {call[c]}
          /\ cleared' = cleared \ {call[c]} /\ pending \ {call[c]} \subseteq pending'
          /\ pending' \subseteq pending /\ UNCHANGED <<msgId, replies, buffer, executed>>
      BY <1>11 DEF Finish
    <3>2. \A d \in Callers \ {c} : call[d] # None => call[d] # call[c]
      BY DEF CallInv
    <3>3. (\A d \in Callers :
            pc[d] \in {"check", "lock", "sending", "branch", "wait"} /\ call[d] # None =>
              call[d] \in registered \union signalled)'
      BY <2>0, <3>1, <3>2 DEF Left, WakeInv
    <3>4. (\A d \in Callers : pc[d] = "woken" => call[d] \in signalled)'
      BY <2>0, <3>1, <3>2 DEF Left, WakeInv, CallInv
    <3>5. (\A i \in signalled : i \in cleared \/ (i \in registered /\ i \in pending))'
      BY <3>1 DEF WakeInv
    <3>6. ExecInv'
      BY <3>1 DEF ExecInv
    <3> QED BY <3>3, <3>4, <3>5, <3>6 DEF WakeInv
  <2> QED BY <2>1, <2>2, <2>3, <2>4
<1>12. ASSUME NEW c \in Callers, NEW S \in SUBSET Calls, SyncAnswer(c, S) PROVE IInv'
  <2>0. PICK result \in {"answer", "nothing"} :
           Left(c, "idle", result) /\ (result = "answer" => S = {call[c]})
    BY <1>12, LeaveMoves DEF SyncAnswer, Return
  <2>1. (TypeOK /\ BlockedInv)'
    BY <1>12, <2>0 DEF SyncAnswer, Left, TypeOK
  <2>2. (CallInv)'
    BY <1>12, <2>0, LeftCall DEF SyncAnswer
  <2>3. (PlaceInv)'
    <3>1. /\ sock \in Conns /\ S \subseteq replies[sock]
          /\ UNCHANGED <<msgId, pending, requests, buffer>>
      BY <1>12 DEF SyncAnswer, TypeOK
    <3>2. \A k \in Conns : replies'[k] = IF k = sock THEN replies[k] \ S ELSE replies[k]
      BY <1>12 DEF SyncAnswer, TypeOK
    <3>3. ASSUME result = "answer" PROVE \A i \in {call[c]} : Nowhere(i)'
      <4>1. call[c] \in S /\ call[c] \in Calls /\ call[c] \in replies[sock]
        BY <2>0, <3>1, <3>3
      <4>2. call[c] \notin pending /\ call[c] \notin requests[sock]
            /\ \A k \in Conns : call[c] \notin buffer[k]
        BY <3>1, <4>1 DEF PlaceInv
      <4>3. ASSUME NEW k \in Conns, InFlight(call[c], k) PROVE k = sock
        <5>1. InFlight(call[c], sock)
          BY <4>1
        <5>2. \A i \in Calls, m, n \in Conns : InFlight(i, m) /\ InFlight(i, n) => m = n
          BY DEF PlaceInv
        <5> HIDE DEF InFlight
        <5> QED BY <3>1, <4>1, <4>3, <5>1, <5>2
      <4>4. \A k \in Conns : call[c] \notin requests'[k] /\ call[c] \notin replies'[k]
        BY <3>1, <3>2, <4>1, <4>2, <4>3
      <4>5. call[c] \notin pending' /\ \A k \in Conns : call[c] \notin buffer'[k]
        BY <3>1, <4>2
      <4> QED BY <4>4, <4>5
    <3> QED BY <2>0, <3>1, <3>2, <3>3, LeftPlace
  <2>4. (ExecInv /\ WakeInv)'
    <3>1. /\ \A k \in Conns : replies'[k] \subseteq replies[k]
          /\ UNCHANGED <<msgId, registered, signalled, pending, buffer, executed, cleared>>
      BY <1>12 DEF SyncAnswer, TypeOK
    <3> QED BY <2>0, <3>1 DEF Left, ExecInv, WakeInv
  <2> QED BY <2>1, <2>2, <2>3, <2>4
<1>13. ASSUME NEW c \in Callers, SyncFails(c) PROVE IInv'
  <2>0. PICK to \in {"idle", "raised"} : Left(c, to, "nothing")
    BY <1>13, LeaveMoves DEF SyncFails, Return, Raise
  <2>1. (TypeOK /\ BlockedInv)'
    BY <1>13, <2>0 DEF SyncFails, Left, TypeOK
  <2>2. (CallInv)'
    BY <1>13, <2>0, LeftCall DEF SyncFails
  <2>3. (PlaceInv)'
    BY <1>13, <2>0, LeftPlace DEF SyncFails
  <2>4. (ExecInv /\ WakeInv)'
    BY <1>13, <2>0 DEF SyncFails, Left, TypeOK, CallInv, PlaceInv, ExecInv, WakeInv
  <2> QED BY <2>1, <2>2, <2>3, <2>4
<1>14. ASSUME NEW c \in Callers, CallClose(c) PROVE IInv'
  <2>1. (TypeOK /\ BlockedInv)'
    BY <1>14 DEF CallClose, Goto, TypeOK
  <2>2. (CallInv /\ PlaceInv /\ ExecInv /\ WakeInv)'
    BY <1>14 DEF CallClose, Goto, TypeOK, CallInv, PlaceInv, ExecInv, WakeInv
  <2> QED BY <2>1, <2>2
<1>15. ASSUME NEW c \in Callers, CallConnect(c) PROVE IInv'
  <2>1. (TypeOK /\ BlockedInv)'
    BY <1>15 DEF CallConnect, TypeOK
  <2>2. (CallInv /\ PlaceInv /\ ExecInv /\ WakeInv)'
    BY <1>15 DEF CallConnect, TypeOK, CallInv, PlaceInv, ExecInv, WakeInv
  <2> QED BY <2>1, <2>2
<1>16. ASSUME NEW c \in Callers, BeginClose(c) PROVE IInv'
  <2>1. (TypeOK /\ BlockedInv)'
    BY <1>16 DEF BeginClose, Goto, TypeOK
  <2>2. (CallInv /\ PlaceInv /\ ExecInv /\ WakeInv)'
    BY <1>16 DEF BeginClose, Goto, TypeOK, CallInv, PlaceInv, ExecInv, WakeInv
  <2> QED BY <2>1, <2>2
<1>17. ASSUME NEW c \in Callers, ShutRaises(c) PROVE IInv'
  <2>0. Left(c, "raised", "nothing")
    BY <1>17, LeaveMoves DEF ShutRaises, Raise
  <2>1. (TypeOK /\ BlockedInv)'
    BY <1>17, <2>0 DEF ShutRaises, Left, TypeOK
  <2>2. (CallInv)'
    BY <1>17, <2>0, LeftCall DEF ShutRaises
  <2>3. (PlaceInv)'
    BY <1>17, <2>0, LeftPlace DEF ShutRaises
  <2>4. (ExecInv /\ WakeInv)'
    BY <1>17, <2>0 DEF ShutRaises, Left, TypeOK, CallInv, PlaceInv, ExecInv, WakeInv
  <2> QED BY <2>1, <2>2, <2>3, <2>4
<1>18. ASSUME NEW c \in Callers, Shut(c) PROVE IInv'
  <2>1. (TypeOK /\ BlockedInv)'
    BY <1>18 DEF Shut, Goto, TypeOK
  <2>2. (CallInv /\ PlaceInv /\ ExecInv /\ WakeInv)'
    BY <1>18 DEF Shut, Goto, TypeOK, CallInv, PlaceInv, ExecInv, WakeInv
  <2> QED BY <2>1, <2>2
<1>19. ASSUME NEW c \in Callers, Join(c) PROVE IInv'
  <2>1. (TypeOK /\ BlockedInv)'
    BY <1>19 DEF Join, Goto, TypeOK
  <2>2. (CallInv /\ PlaceInv /\ ExecInv /\ WakeInv)'
    BY <1>19 DEF Join, Goto, TypeOK, CallInv, PlaceInv, ExecInv, WakeInv
  <2> QED BY <2>1, <2>2
<1>20. ASSUME NEW c \in Callers, Joined(c) PROVE IInv'
  <2>1. (TypeOK /\ BlockedInv)'
    BY <1>20 DEF Joined, Goto, TypeOK
  <2>2. (CallInv /\ PlaceInv /\ ExecInv /\ WakeInv)'
    BY <1>20 DEF Joined, Goto, TypeOK, CallInv, PlaceInv, ExecInv, WakeInv
  <2> QED BY <2>1, <2>2
<1>21. ASSUME NEW c \in Callers, Clear(c) PROVE IInv'
  <2>1. CASE next[c] # "open"
    <3>0. Left(c, "idle", "nothing")
      BY <1>21, <2>1, LeaveMoves DEF Clear, Return
    <3>1. (TypeOK /\ BlockedInv)'
      BY <1>21, <2>1, <3>0 DEF Clear, Left, TypeOK
    <3>2. (CallInv)'
      BY <1>21, <2>1, <3>0, LeftCall DEF Clear
    <3>3. (PlaceInv)'
      BY <1>21, <2>1, <3>0, LeftPlace DEF Clear
    <3>4. (ExecInv /\ WakeInv)'
      BY <1>21, <2>1, <3>0 DEF Clear, Left, TypeOK, CallInv, PlaceInv, ExecInv, WakeInv
    <3> QED BY <3>1, <3>2, <3>3, <3>4
  <2>2. CASE next[c] = "open"
    <3>1. (TypeOK /\ BlockedInv)'
      BY <1>21, <2>2 DEF Clear, Goto, TypeOK
    <3>2. (CallInv)'
      BY <1>21, <2>2 DEF Clear, Goto, TypeOK, CallInv
    <3>3. (PlaceInv)'
      <4>1. pc' = [pc EXCEPT ![c] = "open"] /\ pending' = {} /\ UNCHANGED <<call, msgId,
              requests, replies, buffer, outcome>>
        BY <1>21, <2>2 DEF Clear, Goto
      <4>2. \A d \in Callers : pc'[d] \in {"check", "lock", "sending"} => pc[d] = pc'[d]
        BY <4>1 DEF TypeOK
      <4> QED BY <4>1, <4>2 DEF PlaceInv
    <3>4. (ExecInv /\ WakeInv)'
      BY <1>21, <2>2 DEF Clear, Goto, TypeOK, CallInv, PlaceInv, ExecInv, WakeInv
    <3> QED BY <3>1, <3>2, <3>3, <3>4
  <2> QED BY <2>1, <2>2
<1>22. ASSUME NEW c \in Callers, OpenFails(c) PROVE IInv'
  <2>0. Left(c, "idle", "nothing")
    BY <1>22, LeaveMoves DEF OpenFails, Return
  <2>1. (TypeOK /\ BlockedInv)'
    BY <1>22, <2>0 DEF OpenFails, Left, TypeOK
  <2>2. (CallInv)'
    BY <1>22, <2>0, LeftCall DEF OpenFails
  <2>3. (PlaceInv)'
    BY <1>22, <2>0, LeftPlace DEF OpenFails
  <2>4. (ExecInv /\ WakeInv)'
    BY <1>22, <2>0 DEF OpenFails, Left, TypeOK, CallInv, PlaceInv, ExecInv, WakeInv
  <2> QED BY <2>1, <2>2, <2>3, <2>4
<1>23. ASSUME NEW c \in Callers, Open(c) PROVE IInv'
  <2>1. (TypeOK /\ BlockedInv)'
    BY <1>23 DEF Open, Goto, TypeOK
  <2>2. (CallInv /\ PlaceInv /\ ExecInv /\ WakeInv)'
    BY <1>23 DEF Open, Goto, TypeOK, CallInv, PlaceInv, ExecInv, WakeInv
  <2> QED BY <2>1, <2>2
<1>24. ASSUME NEW c \in Callers, Start(c) PROVE IInv'
  <2>0. Left(c, "idle", "nothing")
    BY <1>24, LeaveMoves DEF Start, Return
  <2>1. (TypeOK /\ BlockedInv)'
    BY <1>24, <2>0, SMTT(30) DEF Start, Left, TypeOK
  <2>2. (CallInv)'
    BY <1>24, <2>0, LeftCall DEF Start
  <2>3. (PlaceInv)'
    BY <1>24, <2>0, LeftPlace DEF Start
  <2>4. (ExecInv /\ WakeInv)'
    BY <1>24, <2>0, ZenonT(30) DEF Start, Left, TypeOK, CallInv, PlaceInv, ExecInv, WakeInv
  <2> QED BY <2>1, <2>2, <2>3, <2>4
<1>25. ASSUME NEW r \in Conns, Loop(r) PROVE IInv'
  <2>1. (TypeOK /\ BlockedInv)'
    BY <1>25 DEF Loop, RGoto, TypeOK
  <2>2. (CallInv /\ PlaceInv /\ ExecInv /\ WakeInv)'
    BY <1>25 DEF Loop, RGoto, TypeOK, CallInv, PlaceInv, ExecInv, WakeInv
  <2> QED BY <2>1, <2>2
<1>26. ASSUME NEW r \in Conns, Recv(r) PROVE IInv'
  <2>1. (TypeOK /\ BlockedInv)'
    BY <1>26 DEF Recv, TypeOK
  <2>2. (CallInv /\ PlaceInv /\ ExecInv /\ WakeInv)'
    BY <1>26 DEF Recv, TypeOK, CallInv, PlaceInv, ExecInv, WakeInv
  <2> QED BY <2>1, <2>2
<1>27. ASSUME NEW r \in Conns, NEW i \in Calls, Deliver(r, i) PROVE IInv'
  <2>1. (TypeOK /\ BlockedInv)'
    BY <1>27 DEF Deliver, RGoto, TypeOK
  <2>2. (CallInv)'
    BY <1>27 DEF Deliver, RGoto, TypeOK, CallInv
  <2>3. (PlaceInv)'
    BY <1>27 DEF Deliver, RGoto, TypeOK, CallInv, PlaceInv, ExecInv
  <2>4. (ExecInv /\ WakeInv)'
    BY <1>27 DEF Deliver, RGoto, TypeOK, CallInv, PlaceInv, ExecInv, WakeInv
  <2> QED BY <2>1, <2>2, <2>3, <2>4
<1>28. ASSUME NEW r \in Conns, Telemetry(r) PROVE IInv'
  <2>1. (TypeOK /\ BlockedInv)'
    <3>1. PICK to \in {"top", "callback"} : RGoto(r, to)
      BY <1>28 DEF Telemetry
    <3> QED BY <1>28, <3>1 DEF Telemetry, RGoto, TypeOK
  <2>2. (CallInv)'
    BY <1>28 DEF Telemetry, RGoto, TypeOK, CallInv
  <2>3. (PlaceInv)'
    BY <1>28 DEF Telemetry, RGoto, TypeOK, CallInv, PlaceInv, ExecInv
  <2>4. (ExecInv /\ WakeInv)'
    BY <1>28 DEF Telemetry, RGoto, TypeOK, CallInv, PlaceInv, ExecInv, WakeInv
  <2> QED BY <2>1, <2>2, <2>3, <2>4
<1>29. ASSUME NEW r \in Conns, StreamEnds(r) PROVE IInv'
  <2>1. (TypeOK /\ BlockedInv)'
    BY <1>29 DEF StreamEnds, RGoto, TypeOK
  <2>2. (CallInv /\ PlaceInv /\ ExecInv /\ WakeInv)'
    BY <1>29 DEF StreamEnds, RGoto, TypeOK, CallInv, PlaceInv, ExecInv, WakeInv
  <2> QED BY <2>1, <2>2
<1>30. ASSUME NEW r \in Conns, Exit(r) PROVE IInv'
  <2>1. (TypeOK /\ BlockedInv)'
    BY <1>30 DEF Exit, RGoto, TypeOK
  <2>2. (CallInv /\ PlaceInv /\ ExecInv /\ WakeInv)'
    BY <1>30 DEF Exit, RGoto, TypeOK, CallInv, PlaceInv, ExecInv, WakeInv
  <2> QED BY <2>1, <2>2
<1>31. ASSUME NEW k \in Conns, NEW i \in Calls, Answer(k, i) PROVE IInv'
  <2>1. (TypeOK /\ BlockedInv)'
    BY <1>31 DEF Answer, TypeOK
  <2>2. (CallInv)'
    BY <1>31 DEF Answer, TypeOK, CallInv
  <2>3. (PlaceInv)'
    BY <1>31, SMTT(30) DEF Answer, TypeOK, CallInv, PlaceInv, ExecInv
  <2>4. (ExecInv /\ WakeInv)'
    BY <1>31 DEF Answer, TypeOK, CallInv, PlaceInv, ExecInv, WakeInv
  <2> QED BY <2>1, <2>2, <2>3, <2>4
<1>32. ASSUME NEW k \in Conns, ServerCloses(k) PROVE IInv'
  <2>1. (TypeOK /\ BlockedInv)'
    BY <1>32 DEF ServerCloses, TypeOK
  <2>2. (CallInv /\ PlaceInv /\ ExecInv /\ WakeInv)'
    BY <1>32 DEF ServerCloses, TypeOK, CallInv, PlaceInv, ExecInv, WakeInv
  <2> QED BY <2>1, <2>2
<1>33. ASSUME NEW r \in Conns, NEW S \in SUBSET Calls, Chunk(r, S) PROVE IInv'
  <2>1. (TypeOK /\ BlockedInv)'
    BY <1>33 DEF Chunk, RGoto, TypeOK
  <2>2. (CallInv)'
    BY <1>33 DEF Chunk, RGoto, TypeOK, CallInv
  <2>3. (PlaceInv)'
    BY <1>33 DEF Chunk, RGoto, TypeOK, CallInv, PlaceInv, ExecInv
  <2>4. (ExecInv /\ WakeInv)'
    <3>1. /\ rsock[r] \in Conns /\ S \subseteq replies[rsock[r]]
          /\ replies' = [replies EXCEPT ![rsock[r]] = @ \ S]
          /\ buffer' = [buffer EXCEPT ![r] = S]
          /\ UNCHANGED <<msgId, registered, signalled, pending, pc, call, executed, cleared>>
      BY <1>33 DEF Chunk
    <3>2. \A k \in Conns :
            replies'[k] \subseteq replies[k] /\ buffer'[k] \subseteq buffer[k] \union S
      BY <3>1 DEF TypeOK
    <3>3. S \subseteq executed
      BY <3>1 DEF ExecInv
    <3>4. ExecInv'
      BY <3>1, <3>2, <3>3 DEF ExecInv
    <3> QED BY <3>1, <3>4 DEF WakeInv
  <2> QED BY <2>1, <2>2, <2>3, <2>4
<1>34. ASSUME NEW c \in Callers, JoinRaises(c) PROVE IInv'
  <2>0. Left(c, "raised", "nothing")
    BY <1>34, LeaveMoves DEF JoinRaises, Raise
  <2>1. (TypeOK /\ BlockedInv)'
    BY <1>34, <2>0 DEF JoinRaises, Left, TypeOK
  <2>2. (CallInv)'
    BY <1>34, <2>0, LeftCall DEF JoinRaises
  <2>3. (PlaceInv)'
    BY <1>34, <2>0, LeftPlace DEF JoinRaises
  <2>4. (ExecInv /\ WakeInv)'
    BY <1>34, <2>0 DEF JoinRaises, Left, TypeOK, CallInv, PlaceInv, ExecInv, WakeInv
  <2> QED BY <2>1, <2>2, <2>3, <2>4
<1>35. CASE UNCHANGED vars
  BY <1>35 DEF vars, TypeOK, CallInv, PlaceInv, ExecInv, WakeInv
<1> QED
  BY <1>1, <1>2, <1>3, <1>4, <1>5, <1>6, <1>7, <1>8, <1>9, <1>10, <1>11, <1>12,
     <1>13, <1>14, <1>15, <1>16, <1>17, <1>18, <1>19, <1>20, <1>21, <1>22, <1>23, <1>24,
     <1>25, <1>26, <1>27, <1>28, <1>29, <1>30, <1>31, <1>32, <1>33, <1>34, <1>35
     DEF Next, CallerStep, SendStep, WaitStep, CloseStep, OpenStep, ReaderStep

LEMMA Invariance == Spec => []IInv
BY InitInv, InvStep, PTL DEF Spec

\* The tables, the callers and the network keep their types; in particular
\* every id in a table was drawn by send_request.
THEOREM TypeCorrect == Spec => []TypeOK
BY Invariance, PTL DEF IInv

\* close(), from any thread and at any moment of a call, leaves no caller
\* waiting on an event that nobody will set (lines 109-113).
THEOREM NoWaiterIsForgotten == Spec => []WaitersAreReachable
<1>1. IInv => WaitersAreReachable
  BY DEF IInv, CallInv, WakeInv, WaitersAreReachable
<1> QED BY <1>1, Invariance, PTL

\* A caller woken by its reply finds it in pending_responses.
THEOREM ReplyIsThere == Spec => []WokenMeansAnswered
<1>1. IInv => WokenMeansAnswered
  BY DEF IInv, WakeInv, WokenMeansAnswered
<1> QED BY <1>1, Invariance, PTL

\* No answered call leaves its reply in pending_responses.
THEOREM NoAnswerIsKept == Spec => []AnswersAreTaken
<1>1. IInv => AnswersAreTaken
  BY DEF IInv, PlaceInv, Nowhere, AnswersAreTaken
<1> QED BY <1>1, Invariance, PTL

-----------------------------------------------------------------------------
(* PollenClient implements Rpc.                                            *)

\* Leaving a call is the return of the call, and a stutter for a
\* notification.
LEMMA LeaveReturns ==
  ASSUME IInv, NEW c \in Callers, NEW to, NEW result \in {"answer", "nothing"},
         Leave(c, to, result), UNCHANGED <<msgId, executed>>,
         result = "answer" => call[c] \in executed
  PROVE  [Promise!Next]_(Promise!vars)
<1>1. CASE call[c] = None
  BY <1>1 DEF Leave, Promise!vars
<1>2. CASE call[c] # None
  <2>1. call[c] \in Calls /\ call[c] \in 1 .. msgId /\ outcome[call[c]] = "open"
    BY <1>2 DEF IInv, TypeOK, CallInv, Calls, None
  <2>2. outcome' = [outcome EXCEPT ![call[c]] = result]
    BY <1>2 DEF Leave
  <2>3. Promise!Return(call[c], result)
    BY <2>1, <2>2 DEF Promise!Return
  <2> QED BY <2>1, <2>3 DEF Promise!Next
<1> QED BY <1>1, <1>2

LEMMA RpcInit == Init => Promise!Init
BY DEF Init, Promise!Init

LEMMA RpcStep == IInv /\ [Next]_vars => [Promise!Next]_(Promise!vars)
<1> SUFFICES ASSUME IInv, [Next]_vars PROVE [Promise!Next]_(Promise!vars)
  OBVIOUS
<1> USE DEF client, tables, callers, readers, network
<1>1. ASSUME NEW c \in Callers, Request(c) PROVE [Promise!Next]_(Promise!vars)
  <2>1. msgId + 1 \in Calls /\ msgId + 1 \notin 1 .. msgId
    BY <1>1 DEF Request, IInv, TypeOK, Calls
  <2>2. 1 .. msgId' = (1 .. msgId) \union {msgId + 1}
    BY <1>1 DEF Request, IInv, TypeOK
  <2>3. Promise!Ask(msgId + 1)
    BY <1>1, <2>1, <2>2 DEF Request, Promise!Ask
  <2> QED BY <2>1, <2>3 DEF Promise!Next
<1>2. ASSUME NEW k \in Conns, NEW i \in Calls, Answer(k, i)
      PROVE  [Promise!Next]_(Promise!vars)
  <2>1. i \in 1 .. msgId /\ i \in requests[k]
    BY <1>2 DEF Answer, IInv, PlaceInv, InFlight, Calls, TypeOK
  <2>2. CASE i \in executed
    BY <1>2, <2>2 DEF Answer, Promise!vars, IInv, TypeOK
  <2>3. CASE i \notin executed
    <3>1. Promise!Execute(i)
      BY <1>2, <2>1, <2>3 DEF Answer, Promise!Execute
    <3> QED BY <3>1 DEF Promise!Next
  <2> QED BY <2>2, <2>3
<1>3. ASSUME NEW c \in Callers, Finish(c) PROVE [Promise!Next]_(Promise!vars)
  <2> DEFINE result == IF pc[c] = "woken" /\ call[c] \in pending THEN "answer" ELSE "nothing"
  <2>1. Leave(c, "idle", result) /\ UNCHANGED <<msgId, executed>>
    BY <1>3 DEF Finish, Return
  <2>2. result = "answer" => call[c] \in executed
    BY DEF IInv, ExecInv
  <2> HIDE DEF result
  <2>3. result \in {"answer", "nothing"}
    BY DEF result
  <2> QED BY <2>1, <2>2, <2>3, LeaveReturns
<1>4. ASSUME NEW c \in Callers, NEW S \in SUBSET Calls, SyncAnswer(c, S)
      PROVE  [Promise!Next]_(Promise!vars)
  <2>1. PICK result \in {"answer", "nothing"} :
          Leave(c, "idle", result) /\ (result = "answer" => S = {call[c]})
    BY <1>4 DEF SyncAnswer, Return
  <2>2. UNCHANGED <<msgId, executed>> /\ S \subseteq executed
    BY <1>4 DEF SyncAnswer, IInv, ExecInv, TypeOK
  <2> QED BY <2>1, <2>2, LeaveReturns
<1>5. ASSUME NEW c \in Callers,
             \/ Check(c) \/ SendRaises(c) \/ SendSucceeds(c) \/ SyncFails(c)
             \/ ShutRaises(c) \/ JoinRaises(c) \/ Clear(c) \/ OpenFails(c) \/ Start(c)
      PROVE  [Promise!Next]_(Promise!vars)
  <2>1. UNCHANGED <<msgId, executed>>
    BY <1>5 DEF Check, SendRaises, SendSucceeds, SyncFails, ShutRaises, JoinRaises,
           Clear, OpenFails, Start
  <2>2. outcome' = outcome \/ \E to \in {"idle", "raised"} : Leave(c, to, "nothing")
    BY <1>5 DEF Check, SendRaises, SendSucceeds, SyncFails, ShutRaises, JoinRaises,
                Clear, OpenFails, Start, Return, Raise
  <2>3. CASE outcome' = outcome
    BY <2>1, <2>3 DEF Promise!vars
  <2>4. ASSUME NEW to, Leave(c, to, "nothing") PROVE [Promise!Next]_(Promise!vars)
    BY <2>1, <2>4, LeaveReturns
  <2> QED BY <2>2, <2>3, <2>4
<1>6. ASSUME NEW c \in Callers,
             \/ Notify(c) \/ Lock(c) \/ SendFails(c) \/ Branch(c) \/ Woken(c) \/ TimesOut(c)
             \/ CallClose(c) \/ CallConnect(c) \/ BeginClose(c) \/ Shut(c) \/ Join(c)
             \/ Joined(c) \/ Open(c)
      PROVE  UNCHANGED <<msgId, executed, outcome>>
  BY <1>6 DEF Notify, Lock, SendFails, Branch, Woken, TimesOut, CallClose, CallConnect,
              BeginClose, Shut, Join, Joined, Open
<1>7. ASSUME NEW r \in Conns, ReaderStep(r) PROVE UNCHANGED <<msgId, executed, outcome>>
  BY <1>7 DEF ReaderStep, Loop, Recv, StreamEnds, Exit, Telemetry, Chunk, Deliver
<1>8. ASSUME NEW k \in Conns, ServerCloses(k) PROVE UNCHANGED <<msgId, executed, outcome>>
  BY <1>8 DEF ServerCloses
<1>9. UNCHANGED <<msgId, executed, outcome>> => UNCHANGED Promise!vars
  BY DEF Promise!vars
<1>10. UNCHANGED vars => UNCHANGED <<msgId, executed, outcome>>
  BY DEF vars
<1> QED
  BY <1>1, <1>2, <1>3, <1>4, <1>5, <1>6, <1>7, <1>8, <1>9, <1>10
     DEF Next, CallerStep, SendStep, WaitStep, CloseStep, OpenStep

\* Whatever the order of requests, replies, timeouts, close() and reconnection,
\* send_request returns once per call: with the reply the server sent to that
\* very call, or with nothing.
THEOREM ClientIsRpc == Spec => ImplementsRpc
BY RpcInit, RpcStep, Invariance, PTL DEF Spec, ImplementsRpc, Promise!Spec
=============================================================================
