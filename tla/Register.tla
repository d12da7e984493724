------------------------------ MODULE Register ------------------------------
(***************************************************************************)
(* What SeqLockChannel<T> promises its users: one register that a single   *)
(* writer overwrites and any number of readers sample.  A read that        *)
(* reports success hands over the value the register held at one instant   *)
(* of the read; a read may also give up and hand over nothing.             *)
(***************************************************************************)
CONSTANTS Readers,      \* processes that call read()
          Payloads,     \* the values T ranges over
          InitPayload,  \* T{}: what the channel holds before the first write
          NoPayload     \* a read that gave up, or is still running

VARIABLES value,        \* the contents of the register
          reading,      \* the readers inside read()
          outcome       \* what each reader's last finished read handed over

vars == <<value, reading, outcome>>

Init == /\ value = InitPayload
        /\ reading = {}
        /\ outcome = [r \in Readers |-> NoPayload]

Write(p) == value' = p /\ UNCHANGED <<reading, outcome>>

BeginRead(r) == /\ r \notin reading
                /\ reading' = reading \union {r}
                /\ outcome' = [outcome EXCEPT ![r] = NoPayload]
                /\ UNCHANGED value

EndRead(r) == /\ r \in reading
              /\ reading' = reading \ {r}
              /\ outcome' = [outcome EXCEPT ![r] = value]
              /\ UNCHANGED value

GiveUp(r) == /\ r \in reading
             /\ reading' = reading \ {r}
             /\ UNCHANGED <<value, outcome>>

Next == \/ \E p \in Payloads : Write(p)
        \/ \E r \in Readers : BeginRead(r) \/ EndRead(r) \/ GiveUp(r)

Spec == Init /\ [][Next]_vars
=============================================================================
