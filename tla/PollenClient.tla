---------------------------- MODULE PollenClient ----------------------------
(***************************************************************************)
(* PollenRobotdClient (microduck_brain/pollen_bridge.py): threads that     *)
(* call a JSON-RPC server over one socket, the reader thread of each       *)
(* connection, close() and connect() from any moment of a call, and the    *)
(* server.  Steps are the accesses to the client's attributes: `self.sock` *)
(* is tested in one step and used in a later one, as in the code, and a    *)
(* use that finds None raises an AttributeError no handler catches.        *)
(*                                                                         *)
(* A message is a whole line, an answer is its id, and a chunk that recv   *)
(* returns is a set of them.  One hold of pending_lock is one step.  The   *)
(* state callback makes no calls (the controller's does not) and may take  *)
(* as long as it likes.                                                    *)
(***************************************************************************)
EXTENDS Naturals

CONSTANTS Callers,    \* threads that use the client
          Owner,      \* the one of them that connects
          MaxCalls,   \* bound on msg_id
          MaxConns    \* bound on the connections made

ASSUME CallersAssumption == Owner \in Callers
ASSUME BoundsAssumption  == MaxCalls \in Nat /\ MaxConns \in Nat

None  == 0
Calls == 1 .. MaxCalls
Conns == 1 .. MaxConns

VARIABLES
  sock, running, reader,           \* self.sock, _running, _reader_thread: a
                                   \* connection and its thread have one number
  msgId, sendLock,                 \* msg_id, the holder of send_lock
  registered, signalled, pending,  \* ids: keys of response_events, events that
                                   \* are set, keys of pending_responses
  pc, call, next,                  \* callers: position, id (None: notification),
                                   \* what follows close()
  rpc, rsock, buffer,              \* readers: position, the socket recv is on,
                                   \* the answers of the chunk not yet handled
  link, requests, replies,         \* per connection: its state, and the ids on
                                   \* their way to and from the server
  executed, outcome, cleared       \* history: calls the server carried out,
                                   \* what calls returned, ids close() cleared

client  == <<sock, running, reader>>
tables  == <<registered, signalled, pending>>
callers == <<pc, call, next>>
readers == <<rpc, rsock, buffer>>
network == <<link, requests, replies, executed>>
vars    == <<client, msgId, sendLock, tables, callers, readers, network,
             outcome, cleared>>

Positions == {"idle", "check", "lock", "sending", "branch", "wait", "woken",
              "late", "sync", "close", "shut", "drop", "join", "joining",
              "clear", "open", "start", "raised"}
Outcomes  == {"open", "answer", "nothing"}

TypeOK ==
  /\ sock \in Conns \union {None} /\ running \in BOOLEAN
  /\ reader \in Conns \union {None}
  /\ msgId \in 0 .. MaxCalls /\ sendLock \in Callers \union {None}
  /\ registered \in SUBSET Calls /\ signalled \in SUBSET Calls
  /\ pending \in SUBSET Calls
  /\ pc \in [Callers -> Positions]
  /\ call \in [Callers -> 0 .. MaxCalls]
  /\ next \in [Callers -> {"return", "open"}]
  /\ rpc \in [Conns -> {"new", "top", "recv", "blocked", "callback", "exit", "dead"}]
  /\ rsock \in [Conns -> Conns \union {None}] /\ buffer \in [Conns -> SUBSET Calls]
  /\ link \in [Conns -> {"new", "up", "down", "shut"}]
  /\ requests \in [Conns -> SUBSET Calls] /\ replies \in [Conns -> SUBSET Calls]
  /\ executed \in SUBSET Calls /\ cleared \in SUBSET Calls
  /\ outcome \in [Calls -> Outcomes]

Init ==
  /\ sock = None /\ running = FALSE /\ reader = None
  /\ msgId = 0 /\ sendLock = None
  /\ registered = {} /\ signalled = {} /\ pending = {}
  /\ pc = [c \in Callers |-> "idle"] /\ call = [c \in Callers |-> None]
  /\ next = [c \in Callers |-> "return"]
  /\ rpc = [k \in Conns |-> "new"] /\ rsock = [k \in Conns |-> None]
  /\ buffer = [k \in Conns |-> {}] /\ link = [k \in Conns |-> "new"]
  /\ requests = [k \in Conns |-> {}] /\ replies = [k \in Conns |-> {}]
  /\ executed = {} /\ cleared = {} /\ outcome = [i \in Calls |-> "open"]

Goto(c, to) == pc' = [pc EXCEPT ![c] = to] /\ UNCHANGED <<call, next>>

\* A call, or the exception that ends it, hands back `result`.
Leave(c, to, result) ==
  /\ pc' = [pc EXCEPT ![c] = to]
  /\ call' = [call EXCEPT ![c] = None]
  /\ next' = [next EXCEPT ![c] = "return"]
  /\ outcome' = IF call[c] = None THEN outcome
                                  ELSE [outcome EXCEPT ![call[c]] = result]

Return(c, result) == Leave(c, "idle", result)
Raise(c)          == Leave(c, "raised", "nothing")

\* (A definition named X_... is a faulty variant of X, for the mutation runs.)
-----------------------------------------------------------------------------
(* send_request and send_notification                                      *)

\* The id is drawn under send_lock and the event is registered.
Request(c) ==
  /\ pc[c] = "idle" /\ sendLock = None /\ msgId < MaxCalls
  /\ msgId' = msgId + 1
  /\ registered' = registered \union {msgId + 1}
  /\ pc' = [pc EXCEPT ![c] = "check"] /\ call' = [call EXCEPT ![c] = msgId + 1]
  /\ UNCHANGED <<client, sendLock, signalled, pending, next, readers, network,
                 outcome, cleared>>

Notify(c) ==
  /\ pc[c] = "idle" /\ Goto(c, "check")
  /\ UNCHANGED <<client, msgId, sendLock, tables, readers, network, outcome, cleared>>

\* `if self.sock is None`: the caller pops its event and returns nothing.
Check(c) ==
  /\ pc[c] = "check"
  /\ IF sock = None
       THEN Return(c, "nothing") /\ registered' = registered \ {call[c]}
       ELSE Goto(c, "lock") /\ UNCHANGED <<registered, outcome>>
  /\ UNCHANGED <<client, msgId, sendLock, signalled, pending, readers, network, cleared>>

Lock(c) ==
  /\ pc[c] = "lock" /\ sendLock = None
  /\ sendLock' = c /\ Goto(c, "sending")
  /\ UNCHANGED <<client, msgId, tables, readers, network, outcome, cleared>>

\* `self.sock.sendall(data)`
SendRaises(c) ==
  /\ pc[c] = "sending" /\ sock = None
  /\ sendLock' = None /\ Raise(c)
  /\ UNCHANGED <<client, msgId, tables, readers, network, cleared>>

\* A send to a server that is gone may go unnoticed or fail.
SendSucceeds(c) ==
  /\ pc[c] = "sending" /\ sock # None /\ link[sock] \in {"up", "down"}
  /\ sendLock' = None
  /\ IF call[c] = None
       THEN Return(c, "nothing") /\ UNCHANGED requests
       ELSE /\ Goto(c, "branch")
            /\ requests' = [requests EXCEPT ![sock] =
                             IF link[sock] = "up" THEN @ \union {call[c]} ELSE @]
            /\ UNCHANGED outcome
  /\ UNCHANGED <<client, msgId, tables, readers, link, replies, executed, cleared>>

\* OSError: the lock is released and the caller closes the connection.
SendFails(c) ==
  /\ pc[c] = "sending" /\ sock # None /\ link[sock] \in {"down", "shut"}
  /\ sendLock' = None /\ Goto(c, "close")
  /\ UNCHANGED <<client, msgId, tables, readers, network, outcome, cleared>>

Branch(c) ==
  /\ pc[c] = "branch"
  /\ Goto(c, IF ~running \/ reader = None THEN "sync" ELSE "wait")
  /\ UNCHANGED <<client, msgId, sendLock, tables, readers, network, outcome, cleared>>

\* event.wait(timeout)
Woken(c) ==
  /\ pc[c] = "wait" /\ call[c] \in signalled /\ Goto(c, "woken")
  /\ UNCHANGED <<client, msgId, sendLock, tables, readers, network, outcome, cleared>>

TimesOut_NoTimeout(c) == FALSE

TimesOut(c) ==
  /\ pc[c] = "wait" /\ call[c] \notin signalled /\ Goto(c, "late")
  /\ UNCHANGED <<client, msgId, sendLock, tables, readers, network, outcome, cleared>>

Finish_KeepsReply(c) ==
  /\ pc[c] \in {"woken", "late"}
  /\ registered' = registered \ {call[c]} /\ signalled' = signalled \ {call[c]}
  /\ cleared' = cleared \ {call[c]} /\ UNCHANGED pending
  /\ Return(c, IF pc[c] = "woken" /\ call[c] \in pending THEN "answer" ELSE "nothing")
  /\ UNCHANGED <<client, msgId, sendLock, readers, network>>

\* Only a caller that was woken looks for its reply, and removes it.  (The
\* event object goes out of scope.)
Finish(c) ==
  /\ pc[c] \in {"woken", "late"}
  /\ registered' = registered \ {call[c]} /\ signalled' = signalled \ {call[c]}
  /\ cleared' = cleared \ {call[c]}
  /\ pending' = IF pc[c] = "woken" THEN pending \ {call[c]} ELSE pending
  /\ Return(c, IF pc[c] = "woken" /\ call[c] \in pending THEN "answer" ELSE "nothing")
  /\ UNCHANGED <<client, msgId, sendLock, readers, network>>

SyncAnswer_AnyId(c, S) ==
  /\ pc[c] = "sync" /\ sock # None /\ S # {} /\ S \subseteq replies[sock]
  /\ replies' = [replies EXCEPT ![sock] = @ \ S]
  /\ Return(c, "answer")
  /\ UNCHANGED <<client, msgId, sendLock, tables, readers, link, requests,
                 executed, cleared>>

\* _sync_recv takes what has come, whoever it is for, and can use only its own
\* answer when that is all; response_events keeps its entry.
SyncAnswer(c, S) ==
  /\ pc[c] = "sync" /\ sock # None /\ S # {} /\ S \subseteq replies[sock]
  /\ replies' = [replies EXCEPT ![sock] = @ \ S]
  /\ \/ S = {call[c]} /\ Return(c, "answer")
     \/ Return(c, "nothing")
  /\ UNCHANGED <<client, msgId, sendLock, tables, readers, link, requests,
                 executed, cleared>>

\* No socket, only telemetry, the end of the stream, or a timeout; and
\* the socket may disappear between the test and the call.
SyncFails(c) ==
  /\ pc[c] = "sync"
  /\ Return(c, "nothing") \/ (sock = None /\ Raise(c))
  /\ UNCHANGED <<client, msgId, sendLock, tables, readers, network, cleared>>
-----------------------------------------------------------------------------
(* close() and connect()                                                   *)

CallClose(c) ==
  /\ pc[c] = "idle" /\ sock # None /\ Goto(c, "close")
  /\ UNCHANGED <<client, msgId, sendLock, tables, readers, network, outcome, cleared>>

CallConnect(c) ==
  /\ c = Owner /\ pc[c] = "idle" /\ \E k \in Conns : link[k] = "new"
  /\ pc' = [pc EXCEPT ![c] = "close"] /\ next' = [next EXCEPT ![c] = "open"]
  /\ UNCHANGED <<client, msgId, sendLock, tables, call, readers, network,
                 outcome, cleared>>

BeginClose(c) ==
  /\ pc[c] = "close"
  /\ running' = FALSE
  /\ Goto(c, IF sock = None THEN "join" ELSE "shut")
  /\ UNCHANGED <<sock, reader, msgId, sendLock, tables, readers, network,
                 outcome, cleared>>

\* Two threads that close at once: the second finds None.
ShutRaises(c) ==
  /\ pc[c] \in {"shut", "drop"} /\ sock = None /\ Raise(c)
  /\ UNCHANGED <<client, msgId, sendLock, tables, readers, network, cleared>>

\* `self.sock.shutdown`, then `self.sock.close` and `self.sock = None`.
Shut(c) ==
  /\ pc[c] \in {"shut", "drop"} /\ sock # None
  /\ link' = [link EXCEPT ![sock] = "shut"]
  /\ requests' = [requests EXCEPT ![sock] = {}]
  /\ replies' = [replies EXCEPT ![sock] = {}]
  /\ IF pc[c] = "shut" THEN Goto(c, "drop") /\ UNCHANGED sock
                      ELSE Goto(c, "join") /\ sock' = None
  /\ UNCHANGED <<running, reader, msgId, sendLock, tables, readers, executed,
                 outcome, cleared>>

Join(c) ==
  /\ pc[c] = "join"
  /\ Goto(c, IF reader # None /\ rpc[reader] # "dead" THEN "joining" ELSE "clear")
  /\ UNCHANGED <<client, msgId, sendLock, tables, readers, network, outcome, cleared>>

\* `self._reader_thread.join` after another close() has forgotten the thread.
JoinRaises(c) ==
  /\ pc[c] = "joining" /\ reader = None /\ Raise(c)
  /\ UNCHANGED <<client, msgId, sendLock, tables, readers, network, cleared>>

\* join(timeout=0.5): a reader lives that long if it is inside the callback or
\* another connect() has set _running again.
Joined(c) ==
  /\ pc[c] = "joining"
  /\ reader # None => running \/ rpc[reader] \in {"dead", "callback"}
  /\ reader' = None /\ Goto(c, "clear")
  /\ UNCHANGED <<sock, running, msgId, sendLock, tables, readers, network,
                 outcome, cleared>>

Clear_Silent(c) ==
  /\ pc[c] = "clear"
  /\ registered' = {} /\ pending' = {} /\ cleared' = cleared \union registered
  /\ IF next[c] = "open" THEN Goto(c, "open") /\ UNCHANGED outcome
                         ELSE Return(c, "nothing")
  /\ UNCHANGED <<client, msgId, sendLock, signalled, readers, network>>

\* Every waiting caller is woken, and both tables are emptied.
Clear(c) ==
  /\ pc[c] = "clear"
  /\ signalled' = signalled \union registered
  /\ registered' = {} /\ pending' = {} /\ cleared' = cleared \union registered
  /\ IF next[c] = "open" THEN Goto(c, "open") /\ UNCHANGED outcome
                         ELSE Return(c, "nothing")
  /\ UNCHANGED <<client, msgId, sendLock, readers, network>>

OpenFails(c) ==
  /\ pc[c] = "open"
  /\ sock' = None /\ running' = FALSE /\ Return(c, "nothing")
  /\ UNCHANGED <<reader, msgId, sendLock, tables, readers, network, cleared>>

Open(c) ==
  /\ pc[c] = "open"
  /\ \E k \in Conns : /\ link[k] = "new" /\ (k > 1 => link[k - 1] # "new")
                      /\ link' = [link EXCEPT ![k] = "up"] /\ sock' = k
  /\ Goto(c, "start")
  /\ UNCHANGED <<running, reader, msgId, sendLock, tables, readers, requests,
                 replies, executed, outcome, cleared>>

Start(c) ==
  /\ pc[c] = "start"
  /\ \E k \in Conns : /\ link[k] # "new" /\ rpc[k] = "new"
                      /\ reader' = k /\ rpc' = [rpc EXCEPT ![k] = "top"]
  /\ running' = TRUE /\ Return(c, "nothing")
  /\ UNCHANGED <<sock, msgId, sendLock, tables, rsock, buffer, network, cleared>>
-----------------------------------------------------------------------------
(* _reader_loop                                                            *)

RGoto(r, to) == rpc' = [rpc EXCEPT ![r] = to] /\ rsock' = [rsock EXCEPT ![r] = None]

Loop(r) ==
  /\ rpc[r] = "top" /\ buffer[r] = {}
  /\ RGoto(r, IF running /\ sock # None THEN "recv" ELSE "exit")
  /\ UNCHANGED <<client, msgId, sendLock, tables, callers, buffer, network,
                 outcome, cleared>>

\* `self.sock.recv` reads self.sock again, and raises if it is None by now.
Recv(r) ==
  /\ rpc[r] = "recv"
  /\ rpc' = [rpc EXCEPT ![r] = IF sock = None THEN "dead" ELSE "blocked"]
  /\ rsock' = [rsock EXCEPT ![r] = sock]
  /\ UNCHANGED <<client, msgId, sendLock, tables, callers, buffer, network,
                 outcome, cleared>>

\* recv returns.
Chunk(r, S) ==
  /\ rpc[r] = "blocked" /\ S # {} /\ S \subseteq replies[rsock[r]]
  /\ replies' = [replies EXCEPT ![rsock[r]] = @ \ S]
  /\ buffer' = [buffer EXCEPT ![r] = S] /\ RGoto(r, "top")
  /\ UNCHANGED <<client, msgId, sendLock, tables, callers, link, requests,
                 executed, outcome, cleared>>

Deliver_WakesAll(r, i) ==
  /\ rpc[r] = "top" /\ i \in buffer[r]
  /\ buffer' = [buffer EXCEPT ![r] = @ \ {i}]
  /\ pending' = pending \union {i} /\ signalled' = signalled \union registered
  /\ UNCHANGED <<client, msgId, sendLock, registered, callers, rpc, rsock,
                 network, outcome, cleared>>

Deliver_NextId(r, i) ==
  /\ rpc[r] = "top" /\ i \in buffer[r]
  /\ buffer' = [buffer EXCEPT ![r] = @ \ {i}]
  /\ pending' = pending \union {i + 1}
  /\ signalled' = signalled \union ({i + 1} \cap registered)
  /\ UNCHANGED <<client, msgId, sendLock, registered, callers, rpc, rsock,
                 network, outcome, cleared>>

\* A reply is stored whether or not its caller still waits.
Deliver(r, i) ==
  /\ rpc[r] = "top" /\ i \in buffer[r]
  /\ buffer' = [buffer EXCEPT ![r] = @ \ {i}]
  /\ pending' = pending \union {i}
  /\ signalled' = signalled \union ({i} \cap registered)
  /\ UNCHANGED <<client, msgId, sendLock, registered, callers, rpc, rsock,
                 network, outcome, cleared>>

\* A state message alone, or in a chunk with answers; the callback.
Telemetry(r) ==
  /\ \/ rpc[r] = "blocked" /\ link[rsock[r]] = "up" /\ RGoto(r, "callback")
     \/ rpc[r] = "top" /\ buffer[r] # {} /\ RGoto(r, "callback")
     \/ rpc[r] = "callback" /\ RGoto(r, "top")
  /\ UNCHANGED <<client, msgId, sendLock, tables, callers, buffer, network,
                 outcome, cleared>>

\* End of stream, a closed socket, or the timeout _sync_recv put on it.
StreamEnds(r) ==
  /\ rpc[r] = "blocked"
  /\ \/ link[rsock[r]] = "shut"
     \/ link[rsock[r]] = "down" /\ replies[rsock[r]] = {}
     \/ \E c \in Callers : pc[c] = "sync" /\ sock = rsock[r]
  /\ RGoto(r, "exit")
  /\ UNCHANGED <<client, msgId, sendLock, tables, callers, buffer, network,
                 outcome, cleared>>

Exit(r) ==
  /\ rpc[r] = "exit" /\ RGoto(r, "dead") /\ running' = FALSE
  /\ UNCHANGED <<sock, reader, msgId, sendLock, tables, callers, buffer, network,
                 outcome, cleared>>
-----------------------------------------------------------------------------
(* The server carries out requests and answers them, and may go away.      *)

Answer(k, i) ==
  /\ i \in requests[k] /\ link[k] = "up"
  /\ requests' = [requests EXCEPT ![k] = @ \ {i}]
  /\ replies' = [replies EXCEPT ![k] = @ \union {i}]
  /\ executed' = executed \union {i}
  /\ UNCHANGED <<client, msgId, sendLock, tables, callers, readers, link, outcome, cleared>>

ServerCloses(k) ==
  /\ link[k] = "up" /\ link' = [link EXCEPT ![k] = "down"]
  /\ requests' = [requests EXCEPT ![k] = {}]
  /\ UNCHANGED <<client, msgId, sendLock, tables, callers, readers, replies,
                 executed, outcome, cleared>>
-----------------------------------------------------------------------------
SendStep(c)  == \/ Check(c) \/ Lock(c)
                \/ SendRaises(c) \/ SendSucceeds(c) \/ SendFails(c)
WaitStep(c)  == \/ Branch(c) \/ Woken(c) \/ TimesOut(c) \/ Finish(c)
                \/ SyncFails(c) \/ \E S \in SUBSET Calls : SyncAnswer(c, S)
CloseStep(c) == \/ BeginClose(c) \/ ShutRaises(c) \/ Shut(c) \/ Join(c)
                \/ JoinRaises(c) \/ Joined(c) \/ Clear(c)
OpenStep(c)  == OpenFails(c) \/ Open(c) \/ Start(c)

CallerStep(c) == SendStep(c) \/ WaitStep(c) \/ CloseStep(c) \/ OpenStep(c)

ReaderStep(r) == \/ Loop(r) \/ Recv(r) \/ StreamEnds(r) \/ Exit(r) \/ Telemetry(r)
                 \/ \E S \in SUBSET Calls : Chunk(r, S)
                 \/ \E i \in Calls : Deliver(r, i)

Next == \/ \E c \in Callers : \/ Request(c) \/ Notify(c)
                              \/ CallClose(c) \/ CallConnect(c)
                              \/ CallerStep(c)
        \/ \E r \in Conns : ReaderStep(r)
        \/ \E k \in Conns : ServerCloses(k) \/ \E i \in Calls : Answer(k, i)

Spec == Init /\ [][Next]_vars

\* Threads that are not blocked run.  SF: send_lock is held for one send, which
\* a server that drains its socket lets through, and join returns after 0.5 s.
Fairness == /\ \A c \in Callers : SF_vars(CallerStep(c))
            /\ \A r \in Conns :
                 WF_vars(\/ Loop(r) \/ Recv(r) \/ StreamEnds(r) \/ Exit(r)
                         \/ \E i \in Calls : Deliver(r, i))

FairSpec == Spec /\ Fairness
-----------------------------------------------------------------------------
(* Properties *)

\* send_request keeps the promise of module Rpc: one return, with the answer
\* the server gave to that very call or with nothing, through late replies,
\* timeouts, the synchronous fallback, close() and reconnection.
Promise == INSTANCE Rpc WITH asked <- 1 .. msgId

ImplementsRpc == Promise!Spec

\* Whoever waits can be woken: close() never forgets a waiting caller's event
\* without setting it (lines 109-113), so that nobody sleeps out a timeout on a
\* connection that is closed.
WaitersAreReachable ==
  \A c \in Callers : pc[c] = "wait" => call[c] \in registered \union signalled

\* A caller that its reply woke up, with no close() in between, returns it.
WokenMeansAnswered ==
  \A c \in Callers : pc[c] = "woken" => call[c] \in pending \union cleared

\* A call that was answered leaves no reply behind in pending_responses.
AnswersAreTaken == \A i \in Calls : outcome[i] = "answer" => i \notin pending

\* Every call comes back: it cannot wait for itself, for the lock or for a
\* reader for ever.
CallsReturn ==
  [](\A c \in Callers : pc[c] # "idle" => <>(pc[c] \in {"idle", "raised"}))

\* "Closes socket connection and stops receiver thread." (line 91): when
\* close() returns, no reader of an earlier connection is left.
CloseStopsReader ==
  \A c \in Callers : pc[c] = "open" => \A r \in Conns : rpc[r] \in {"new", "dead"}
=============================================================================
