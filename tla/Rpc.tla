-------------------------------- MODULE Rpc ---------------------------------
(***************************************************************************)
(* What PollenRobotdClient.send_request promises its callers: a call       *)
(* returns once, either with the answer the server gave to that very call, *)
(* or with nothing.  The server may have carried out a call that returned  *)
(* nothing, and may carry it out later.                                    *)
(***************************************************************************)
CONSTANT Calls

VARIABLES asked,      \* the calls made so far
          executed,   \* the calls the server has carried out
          outcome     \* what each call returned: "open", "answer", "nothing"

vars == <<asked, executed, outcome>>

Init == asked = {} /\ executed = {} /\ outcome = [i \in Calls |-> "open"]

Ask(i) == /\ i \notin asked
          /\ asked' = asked \union {i}
          /\ UNCHANGED <<executed, outcome>>

Execute(i) == /\ i \in asked \ executed
              /\ executed' = executed \union {i}
              /\ UNCHANGED <<asked, outcome>>

Return(i, result) == /\ i \in asked /\ outcome[i] = "open"
                     /\ outcome' = [outcome EXCEPT ![i] = result]
                     /\ UNCHANGED <<asked, executed>>

Next == \E i \in Calls : \/ Ask(i)
                         \/ Execute(i)
                         \/ i \in executed /\ Return(i, "answer")
                         \/ Return(i, "nothing")

Spec == Init /\ [][Next]_vars
=============================================================================
