----------------------------- MODULE TreeProofs -----------------------------
(* The behaviour trees, node by node: what each node of the trees is, what *)
(* a tick and an abort of each leaf change, and what that makes of a tick  *)
(* and of a preemption of each mission.  The order is that of the levels:  *)
(* leaves, the timed mission, the routine of library nodes, the fetch      *)
(* mission, and the theorems about the programs that hold a tree.          *)
EXTENDS SensorProofs

-----------------------------------------------------------------------------
(* The nodes, written out *)

\* The nodes of the four trees.
LEMMA NodesAre ==
  Nodes = {"FetchMission", "SearchOrExpress", "SearchBall", "ExpressFailure", "HeadTilt",
           "HeadShake", "WalkAndScan", "ApproachTarget", "AmbientScan", "PickupBall", "Celebrate",
           "FetchSequence", "Search", "Approach", "Pickup",
           "Routine", "Avoid", "GraspShow", "Grasp", "Sway", "Bow", "Chirp", "Follow"}
BY DEF Nodes, Trees, FetchTree, TimedTree, RoutineTree

\* The tree of run_mujoco_sim.py.
LEMMA TimedNodes ==
  /\ Trees["FetchSequence"].kind = "sequence" /\ Kids("FetchSequence") = <<"Search", "Approach", "Pickup">>
  /\ Trees["Search"].kind = "turn" /\ Trees["Search"].ticks[1] = 50
  /\ Trees["Approach"].kind = "walk" /\ Trees["Approach"].ticks[1] = 75
  /\ Trees["Pickup"].kind = "pick" /\ Trees["Pickup"].ticks[1] = 40
BY DEF Trees, FetchTree, TimedTree, RoutineTree, Node, Kids

\* The tree of run_simulation.py.
LEMMA FetchNodes ==
  /\ Trees["FetchMission"].kind = "sequence"
  /\ Kids("FetchMission") = <<"SearchOrExpress", "WalkAndScan", "PickupBall", "Celebrate">>
  /\ Trees["SearchOrExpress"].kind = "selector"
  /\ Kids("SearchOrExpress") = <<"SearchBall", "ExpressFailure">>
  /\ Trees["SearchBall"].kind = "search"
  /\ Trees["ExpressFailure"].kind = "failure" /\ Kids("ExpressFailure") = <<"HeadTilt", "HeadShake">>
  /\ Trees["HeadTilt"].kind = "expression" /\ Trees["HeadTilt"].ticks[1] = 5
  /\ Trees["HeadTilt"].tag = "HEAD_TILT"
  /\ Trees["HeadShake"].kind = "expression" /\ Trees["HeadShake"].ticks[1] = 12
  /\ Trees["HeadShake"].tag = "HEAD_SHAKE"
  /\ Trees["WalkAndScan"].kind = "parallel"
  /\ Kids("WalkAndScan") = <<"ApproachTarget", "AmbientScan">>
  /\ Trees["ApproachTarget"].kind = "approach"
  /\ Trees["AmbientScan"].kind = "ambient"
  /\ Trees["PickupBall"].kind = "pickup"
  /\ Trees["Celebrate"].kind = "expression" /\ Trees["Celebrate"].ticks[1] = 3
  /\ Trees["Celebrate"].tag = "HAPPY_WIGGLE"
BY ZenonT(30) DEF Trees, FetchTree, TimedTree, RoutineTree, Node, Kids

\* The trees of the routine and of the follower.
LEMMA RoutineNodes ==
  /\ Trees["Routine"].kind = "sequence" /\ Kids("Routine") = <<"Avoid", "GraspShow">>
  /\ Trees["Avoid"].kind = "avoid" /\ Trees["Avoid"].ticks = <<2, 3, 2>>
  /\ Trees["GraspShow"].kind = "parallel"
  /\ Kids("GraspShow") = <<"Grasp", "Sway", "Bow", "Chirp">>
  /\ Trees["Grasp"].kind = "grasp" /\ Trees["Grasp"].ticks = <<2, 2, 3>>
  /\ Trees["Sway"].kind = "ambient"
  /\ Trees["Bow"].kind = "mocap" /\ Trees["Bow"].ticks = <<5, 2>>
  /\ Trees["Chirp"].kind = "voice" /\ Trees["Chirp"].tag = "chirp"
  /\ Trees["Follow"].kind = "track"
BY DEF Trees, FetchTree, TimedTree, RoutineTree, Node, Kids

\* The tags that the proofs name are tags of nodes.
LEMMA TagsAre == {"HEAD_TILT", "HEAD_SHAKE", "HAPPY_WIGGLE", "chirp"} \subseteq {Trees[n].tag : n \in Nodes}
BY NodesAre, FetchNodes, RoutineNodes

-----------------------------------------------------------------------------
(* The tree of run_mujoco_sim.py *)

\* What holds between two rounds of the sequence: found, reached and held
\* follow each other, and the walk is over once the ball is reached.
TimedRound(t) ==
  /\ t \in TreeStates
  /\ t.velocity \in {"zero", "turn", "walk"} /\ t.status \in {"RUNNING", "SUCCESS"}
  /\ t.at["FetchSequence"] \in 0 .. 3
  /\ t.status = "RUNNING" => t.at["FetchSequence"] # 3
  /\ t.at["FetchSequence"] >= 1 => "ball_visible" \in t.board
  /\ t.at["FetchSequence"] >= 2 => "ball_close" \in t.board
  /\ "ball_close" \in t.board => "ball_visible" \in t.board /\ t.steps["Approach"] >= 74
  /\ "ball_held" \in t.board => "ball_close" \in t.board

\* What the velocity means
TimedVelocity(t) ==
  /\ t.velocity = "turn" => "ball_visible" \notin t.board
  /\ t.velocity = "walk" => "ball_visible" \in t.board /\ "ball_close" \notin t.board
  /\ "ball_close" \in t.board => t.velocity = "zero"

TimedInv(t) ==
  /\ TimedRound(t) /\ TimedVelocity(t)
  /\ t.at["FetchSequence"] # 3
  /\ t.status = "SUCCESS" => t.velocity = "zero"

\* While the sequence goes on to its next child the velocity is the last
\* child's; from the second child on it is zero.
TimedBetween(t) ==
  /\ TimedRound(t)
  /\ t.status = "RUNNING" => TimedVelocity(t)
  /\ t.at["FetchSequence"] >= 2 => t.velocity = "zero"

\* What a tick of each child of the timed sequence is.
LEMMA TimedChildren ==
  ASSUME NEW t \in TreeStates, NEW w
  PROVE  /\ TickHigher("Search", t, w) = TurnTick("Search", t)
         /\ TickHigher("Approach", t, w) = WalkTick("Approach", t)
         /\ TickHigher("Pickup", t, w) = PickTick("Pickup", t)
BY TimedNodes DEF TickHigher, TickNode, LeafTick

\* The fields of a tree
LEMMA TreeFields ==
  ASSUME NEW t \in TreeStates
  PROVE  /\ t.at \in [Nodes -> 0 .. 4] /\ t.steps \in [Nodes -> Nat] /\ t.failures \in 0 .. 3
         /\ t.board \in SUBSET {"ball_visible", "ball_close", "ball_held"}
         /\ t.velocity \in Velocities /\ t.head \in {"zero", "scan"}
         /\ t.beak \in {"shut", "open", "weld"} /\ t.clip \in Nat
         /\ t.did \in SUBSET {Trees[n].tag : n \in Nodes} /\ t.status \in Statuses
BY DEF TreeStates

\* One turn of a control node's loop: after the child's verdict it moves on,
\* waits or starts again.
LEMMA GoOnIs ==
  ASSUME NEW r \in TreeStates, NEW n \in Nodes, NEW on \in {"SUCCESS", "FAILURE"}, r.at[n] < 4
  PROVE  /\ GoOn(n, on, r) \in TreeStates
         /\ GoOn(n, on, r).steps = r.steps /\ GoOn(n, on, r).board = r.board
         /\ GoOn(n, on, r).velocity = r.velocity /\ GoOn(n, on, r).head = r.head
         /\ GoOn(n, on, r).beak = r.beak /\ GoOn(n, on, r).clip = r.clip
         /\ GoOn(n, on, r).did = r.did /\ GoOn(n, on, r).status = r.status
         /\ GoOn(n, on, r).failures = r.failures
         /\ GoOn(n, on, r).at = CASE r.status \in {"RUNNING", "RAISED"} -> r.at
                                  [] r.status = on -> [r.at EXCEPT ![n] = @ + 1]
                                  [] OTHER -> [r.at EXCEPT ![n] = 0]
<1>1. \A k \in 0 .. 4 :
        /\ [r EXCEPT !.at[n] = k] \in TreeStates
        /\ [r EXCEPT !.at[n] = k].steps = r.steps /\ [r EXCEPT !.at[n] = k].board = r.board
        /\ [r EXCEPT !.at[n] = k].velocity = r.velocity /\ [r EXCEPT !.at[n] = k].head = r.head
        /\ [r EXCEPT !.at[n] = k].beak = r.beak /\ [r EXCEPT !.at[n] = k].clip = r.clip
        /\ [r EXCEPT !.at[n] = k].did = r.did /\ [r EXCEPT !.at[n] = k].status = r.status
        /\ [r EXCEPT !.at[n] = k].failures = r.failures
        /\ [r EXCEPT !.at[n] = k].at = [r.at EXCEPT ![n] = k]
  BY DEF TreeStates
<1>2. r.at[n] + 1 \in 0 .. 4 /\ 0 \in 0 .. 4
  BY TreeFields
<1>3. CASE r.status \in {"RUNNING", "RAISED"}
  BY <1>3 DEF GoOn
<1>4. CASE r.status = on
  <2>1. GoOn(n, on, r) = [r EXCEPT !.at[n] = r.at[n] + 1]
    BY <1>4, TreeFields DEF GoOn, TreeStates
  <2>2. [r.at EXCEPT ![n] = @ + 1] = [r.at EXCEPT ![n] = r.at[n] + 1]
    BY TreeFields
  <2>3. r.status \notin {"RUNNING", "RAISED"}
    BY <1>4
  <2> QED BY <1>1, <1>2, <1>4, <2>1, <2>2, <2>3
<1>5. CASE r.status \notin {"RUNNING", "RAISED"} /\ r.status # on
  <2>1. GoOn(n, on, r) = [r EXCEPT !.at[n] = 0]
    BY <1>5 DEF GoOn
  <2> QED BY <1>1, <1>2, <1>5, <2>1
<1> QED BY <1>3, <1>4, <1>5

\* A tick of the search by turning.
LEMMA TurnTickIs ==
  ASSUME NEW t \in TreeStates, NEW n \in Nodes, Clock(n, t) \in Nat
  PROVE  /\ TurnTick(n, t) \in TreeStates
         /\ TurnTick(n, t).at = t.at
         /\ TurnTick(n, t).steps = [t.steps EXCEPT ![n] = Clock(n, t)]
         /\ TurnTick(n, t).board =
              IF Elapsed(n, t) THEN t.board \union {"ball_visible"} ELSE t.board
         /\ TurnTick(n, t).velocity = IF "ball_visible" \in t.board THEN "zero" ELSE "turn"
         /\ TurnTick(n, t).status =
              IF "ball_visible" \in t.board \/ Elapsed(n, t) THEN "SUCCESS" ELSE "RUNNING"
<1> DEFINE r == [t EXCEPT !.steps[n] = Clock(n, t)]
<1>1. r \in TreeStates /\ r.steps = [t.steps EXCEPT ![n] = Clock(n, t)]
      /\ r.at = t.at /\ r.board = t.board
  BY DEF TreeStates
<1>2. TurnTick(n, t) =
        CASE "ball_visible" \in t.board -> [r EXCEPT !.velocity = "zero", !.status = "SUCCESS"]
        [] "ball_visible" \notin t.board /\ Elapsed(n, t) ->
             [r EXCEPT !.velocity = "turn", !.head = "scan", !.status = "SUCCESS",
                       !.board = @ \union {"ball_visible"}]
        [] OTHER -> [r EXCEPT !.velocity = "turn", !.head = "scan", !.status = "RUNNING"]
  BY DEF TurnTick
<1> HIDE DEF r
<1>3. CASE "ball_visible" \in t.board
  <2>1. t.board \union {"ball_visible"} = t.board
    BY <1>3
  <2>2. TurnTick(n, t) = [r EXCEPT !.velocity = "zero", !.status = "SUCCESS"]
    BY <1>2, <1>3
  <2>3. /\ TurnTick(n, t) \in TreeStates
        /\ TurnTick(n, t).at = r.at /\ TurnTick(n, t).steps = r.steps
        /\ TurnTick(n, t).board = r.board /\ TurnTick(n, t).velocity = "zero"
        /\ TurnTick(n, t).status = "SUCCESS"
    BY <1>1, <2>2 DEF TreeStates, Velocities, Statuses
  <2> QED BY <1>1, <1>3, <2>1, <2>3
<1>4. CASE "ball_visible" \notin t.board /\ Elapsed(n, t)
  <2>1. r.board \union {"ball_visible"} \in SUBSET {"ball_visible", "ball_close", "ball_held"}
    BY <1>1, TreeFields
  <2>2. TurnTick(n, t) = [r EXCEPT !.velocity = "turn", !.head = "scan", !.status = "SUCCESS",
                       !.board = r.board \union {"ball_visible"}]
    BY <1>1, <1>2, <1>4 DEF TreeStates
  <2>3. /\ TurnTick(n, t) \in TreeStates
        /\ TurnTick(n, t).at = r.at /\ TurnTick(n, t).steps = r.steps
        /\ TurnTick(n, t).board = r.board \union {"ball_visible"}
        /\ TurnTick(n, t).velocity = "turn" /\ TurnTick(n, t).status = "SUCCESS"
    BY <1>1, <2>1, <2>2, ZenonT(30) DEF TreeStates, Velocities, Statuses
  <2> QED BY <1>1, <1>4, <2>3
<1>5. CASE "ball_visible" \notin t.board /\ ~Elapsed(n, t)
  <2>2. TurnTick(n, t) = [r EXCEPT !.velocity = "turn", !.head = "scan", !.status = "RUNNING"]
    BY <1>2, <1>5
  <2>3. /\ TurnTick(n, t) \in TreeStates
        /\ TurnTick(n, t).at = r.at /\ TurnTick(n, t).steps = r.steps
        /\ TurnTick(n, t).board = r.board /\ TurnTick(n, t).velocity = "turn"
        /\ TurnTick(n, t).status = "RUNNING"
    BY <1>1, <2>2, ZenonT(30) DEF TreeStates, Velocities, Statuses
  <2> QED BY <1>1, <1>5, <2>3
<1> QED BY <1>3, <1>4, <1>5

\* A tick of the timed approach.
LEMMA WalkTickIs ==
  ASSUME NEW t \in TreeStates, NEW n \in Nodes, Clock(n, t) \in Nat
  PROVE  /\ WalkTick(n, t) \in TreeStates
         /\ WalkTick(n, t).at = t.at
         /\ WalkTick(n, t).steps = [t.steps EXCEPT ![n] = Clock(n, t)]
         /\ WalkTick(n, t).board = IF Elapsed(n, t) THEN t.board \union {"ball_close"} ELSE t.board
         /\ WalkTick(n, t).velocity = IF Elapsed(n, t) THEN "zero" ELSE "walk"
         /\ WalkTick(n, t).status = IF Elapsed(n, t) THEN "SUCCESS" ELSE "RUNNING"
<1> DEFINE r == [t EXCEPT !.steps[n] = Clock(n, t)]
<1>1. r \in TreeStates /\ r.steps = [t.steps EXCEPT ![n] = Clock(n, t)]
      /\ r.at = t.at /\ r.board = t.board
  BY DEF TreeStates
<1>2. CASE Elapsed(n, t)
  <2> DEFINE board == t.board \union {"ball_close"}
  <2>1. board \in SUBSET {"ball_visible", "ball_close", "ball_held"}
    BY TreeFields
  <2>2. WalkTick(n, t) = [r EXCEPT !.velocity = "zero", !.status = "SUCCESS", !.board = board]
    BY <1>1, <1>2 DEF WalkTick, TreeStates
  <2> HIDE DEF r, board
  <2>3. /\ WalkTick(n, t) \in TreeStates
        /\ WalkTick(n, t).at = r.at /\ WalkTick(n, t).steps = r.steps
        /\ WalkTick(n, t).board = board /\ WalkTick(n, t).velocity = "zero"
        /\ WalkTick(n, t).status = "SUCCESS"
    BY <1>1, <2>1, <2>2, ZenonT(30) DEF TreeStates, Velocities, Statuses
  <2> QED BY <1>1, <1>2, <2>3 DEF board
<1>3. CASE ~Elapsed(n, t)
  <2>2. WalkTick(n, t) = [r EXCEPT !.velocity = "walk", !.head = "zero", !.status = "RUNNING"]
    BY <1>1, <1>3 DEF WalkTick, TreeStates
  <2> HIDE DEF r
  <2>3. /\ WalkTick(n, t) \in TreeStates
        /\ WalkTick(n, t).at = r.at /\ WalkTick(n, t).steps = r.steps
        /\ WalkTick(n, t).board = r.board /\ WalkTick(n, t).velocity = "walk"
        /\ WalkTick(n, t).status = "RUNNING"
    BY <1>1, <2>2, ZenonT(30) DEF TreeStates, Velocities, Statuses
  <2> QED BY <1>1, <1>3, <2>3
<1> QED BY <1>2, <1>3

\* A tick of the timed pickup.
LEMMA PickTickIs ==
  ASSUME NEW t \in TreeStates, NEW n \in Nodes, Clock(n, t) \in Nat
  PROVE  /\ PickTick(n, t) \in TreeStates
         /\ PickTick(n, t).at = t.at
         /\ PickTick(n, t).steps = [t.steps EXCEPT ![n] = Clock(n, t)]
         /\ PickTick(n, t).board = IF Elapsed(n, t) THEN t.board \union {"ball_held"} ELSE t.board
         /\ PickTick(n, t).velocity = "zero"
         /\ PickTick(n, t).status = IF Elapsed(n, t) THEN "SUCCESS" ELSE "RUNNING"
<1> DEFINE r == [t EXCEPT !.steps[n] = Clock(n, t), !.velocity = "zero", !.head = "zero"]
<1>1. r \in TreeStates /\ r.steps = [t.steps EXCEPT ![n] = Clock(n, t)]
      /\ r.at = t.at /\ r.board = t.board /\ r.velocity = "zero"
  BY DEF TreeStates, Velocities
<1>2. PickTick(n, t) = IF Elapsed(n, t) THEN [r EXCEPT !.board = @ \union {"ball_held"}, !.status = "SUCCESS"]
                       ELSE [r EXCEPT !.status = "RUNNING"]
  BY DEF PickTick, Return
<1> HIDE DEF r
<1>3. CASE Elapsed(n, t)
  <2> DEFINE board == r.board \union {"ball_held"}
  <2>1. board \in SUBSET {"ball_visible", "ball_close", "ball_held"}
    BY <1>1, TreeFields
  <2>2. PickTick(n, t) = [r EXCEPT !.board = board, !.status = "SUCCESS"]
    BY <1>1, <1>2, <1>3 DEF TreeStates
  <2> HIDE DEF board
  <2>3. /\ PickTick(n, t) \in TreeStates
        /\ PickTick(n, t).at = r.at /\ PickTick(n, t).steps = r.steps
        /\ PickTick(n, t).board = board /\ PickTick(n, t).velocity = "zero"
        /\ PickTick(n, t).status = "SUCCESS"
    BY <1>1, <2>1, <2>2, ZenonT(30) DEF TreeStates, Statuses
  <2> QED BY <1>1, <1>3, <2>3 DEF board
<1>4. CASE ~Elapsed(n, t)
  <2>1. /\ PickTick(n, t) \in TreeStates
        /\ PickTick(n, t).at = r.at /\ PickTick(n, t).steps = r.steps
        /\ PickTick(n, t).board = r.board /\ PickTick(n, t).velocity = "zero"
        /\ PickTick(n, t).status = "RUNNING"
    BY <1>1, <1>2, <1>4 DEF TreeStates, Statuses
  <2> QED BY <1>1, <1>4, <2>1
<1> QED BY <1>3, <1>4

\* A round of the sequence: the velocity is always a new child's, and from
\* the second child on it is zero.
LEMMA TimedAdvance ==
  ASSUME NEW t, NEW w, TimedBetween(t)
  PROVE  /\ TimedBetween(Advance(TickHigher, "FetchSequence", "SUCCESS", t, w))
         /\ \/ Advance(TickHigher, "FetchSequence", "SUCCESS", t, w).status = "RUNNING"
            \/ Advance(TickHigher, "FetchSequence", "SUCCESS", t, w).at["FetchSequence"] = 3
            \/ /\ t.status = "SUCCESS"
               /\ Advance(TickHigher, "FetchSequence", "SUCCESS", t, w).at["FetchSequence"]
                    = t.at["FetchSequence"] + 1
<1> DEFINE r == Advance(TickHigher, "FetchSequence", "SUCCESS", t, w)
<1>0. t \in TreeStates /\ "FetchSequence" \in Nodes /\ "Search" \in Nodes /\ "Approach" \in Nodes
      /\ "Pickup" \in Nodes
  BY NodesAre DEF TimedBetween, TimedRound
<1>c. /\ Clock("Search", t) \in Nat /\ Clock("Approach", t) \in Nat /\ Clock("Pickup", t) \in Nat
      /\ t.steps["Approach"] >= 74 => Elapsed("Approach", t)
      /\ Elapsed("Approach", t) => Clock("Approach", t) = 75
  BY <1>0, TreeFields, TimedNodes DEF Clock, Elapsed
<1>1. CASE t.status # "SUCCESS" \/ t.at["FetchSequence"] = 3
  <2>1. r = t
    BY <1>1, TimedNodes DEF Advance
  <2> QED BY <1>1, <2>1 DEF TimedBetween, TimedRound
<1>2. CASE t.status = "SUCCESS" /\ t.at["FetchSequence"] = 0
  <2> DEFINE c == TurnTick("Search", t)
  <2>1. r = GoOn("FetchSequence", "SUCCESS", c)
    BY <1>0, <1>2, TimedNodes, TimedChildren DEF Advance
  <2>2. /\ c \in TreeStates /\ c.at = t.at
        /\ c.steps = [t.steps EXCEPT !["Search"] = Clock("Search", t)]
        /\ c.board = IF Elapsed("Search", t) THEN t.board \union {"ball_visible"} ELSE t.board
        /\ c.velocity = IF "ball_visible" \in t.board THEN "zero" ELSE "turn"
        /\ c.status = IF "ball_visible" \in t.board \/ Elapsed("Search", t) THEN "SUCCESS" ELSE "RUNNING"
    BY <1>0, <1>c, TurnTickIs
  <2> HIDE DEF c, r
  <2>3. /\ r \in TreeStates /\ r.steps = c.steps /\ r.board = c.board
        /\ r.velocity = c.velocity /\ r.status = c.status
        /\ r.at["FetchSequence"] = IF c.status = "RUNNING" THEN 0 ELSE 1
    <3>1. c.at["FetchSequence"] = 0 /\ c.at["FetchSequence"] < 4
      BY <1>2, <2>2
    <3>2. /\ r \in TreeStates /\ r.steps = c.steps /\ r.board = c.board
          /\ r.velocity = c.velocity /\ r.status = c.status
          /\ r.at = CASE c.status \in {"RUNNING", "RAISED"} -> c.at
                     [] c.status = "SUCCESS" -> [c.at EXCEPT !["FetchSequence"] = @ + 1]
                     [] OTHER -> [c.at EXCEPT !["FetchSequence"] = 0]
      BY <1>0, <2>1, <2>2, <3>1, GoOnIs
    <3>3. CASE c.status = "RUNNING"
      BY <3>1, <3>2, <3>3
    <3>4. CASE c.status = "SUCCESS"
      <4>1. r.at = [c.at EXCEPT !["FetchSequence"] = c.at["FetchSequence"] + 1]
        BY <2>2, <3>2, <3>4, TreeFields
      <4> QED BY <1>0, <2>2, <3>1, <3>2, <3>4, <4>1, TreeFields
    <3> QED BY <2>2, <3>3, <3>4
  <2>4. c.steps["Approach"] = t.steps["Approach"]
    BY <1>0, <2>2, TreeFields
  <2> HIDE DEF Elapsed
  <2>5. TimedBetween(r)
    BY <1>0, <1>2, <2>2, <2>3, <2>4 DEF TimedBetween, TimedRound, TimedVelocity
  <2>6. r.status = "RUNNING" \/ r.at["FetchSequence"] = t.at["FetchSequence"] + 1
    BY <1>0, <1>2, <2>2, <2>3, <2>4 DEF TimedBetween, TimedRound
  <2> QED BY <1>2, <2>5, <2>6 DEF r
<1>3. CASE t.status = "SUCCESS" /\ t.at["FetchSequence"] = 1
  <2> DEFINE c == WalkTick("Approach", t)
  <2>1. r = GoOn("FetchSequence", "SUCCESS", c)
    BY <1>0, <1>3, TimedNodes, TimedChildren DEF Advance
  <2>2. /\ c \in TreeStates /\ c.at = t.at
        /\ c.steps = [t.steps EXCEPT !["Approach"] = Clock("Approach", t)]
        /\ c.board = IF Elapsed("Approach", t) THEN t.board \union {"ball_close"} ELSE t.board
        /\ c.velocity = IF Elapsed("Approach", t) THEN "zero" ELSE "walk"
        /\ c.status = IF Elapsed("Approach", t) THEN "SUCCESS" ELSE "RUNNING"
    BY <1>0, <1>c, WalkTickIs
  <2> HIDE DEF c, r
  <2>3. /\ r \in TreeStates /\ r.steps = c.steps /\ r.board = c.board
        /\ r.velocity = c.velocity /\ r.status = c.status
        /\ r.at["FetchSequence"] = IF c.status = "RUNNING" THEN 1 ELSE 2
    <3>1. c.at["FetchSequence"] = 1 /\ c.at["FetchSequence"] < 4
      BY <1>3, <2>2
    <3>2. /\ r \in TreeStates /\ r.steps = c.steps /\ r.board = c.board
          /\ r.velocity = c.velocity /\ r.status = c.status
          /\ r.at = CASE c.status \in {"RUNNING", "RAISED"} -> c.at
                     [] c.status = "SUCCESS" -> [c.at EXCEPT !["FetchSequence"] = @ + 1]
                     [] OTHER -> [c.at EXCEPT !["FetchSequence"] = 0]
      BY <1>0, <2>1, <2>2, <3>1, GoOnIs, SMTT(30)
    <3>3. CASE c.status = "RUNNING"
      BY <3>1, <3>2, <3>3
    <3>4. CASE c.status = "SUCCESS"
      <4>1. r.at = [c.at EXCEPT !["FetchSequence"] = c.at["FetchSequence"] + 1]
        BY <2>2, <3>2, <3>4, TreeFields
      <4> QED BY <1>0, <2>2, <3>1, <3>2, <3>4, <4>1, TreeFields
    <3> QED BY <2>2, <3>3, <3>4
  <2>4. c.steps["Approach"] = Clock("Approach", t)
    BY <1>0, <2>2, TreeFields
  <2>5. TimedBetween(r)
    BY <1>0, <1>c, <1>3, <2>2, <2>3, <2>4 DEF TimedBetween, TimedRound, TimedVelocity
  <2>6. r.status = "RUNNING" \/ r.at["FetchSequence"] = t.at["FetchSequence"] + 1
    BY <1>0, <1>c, <1>3, <2>2, <2>3, <2>4 DEF TimedBetween, TimedRound
  <2> QED BY <1>3, <2>5, <2>6 DEF r
<1>4. CASE t.status = "SUCCESS" /\ t.at["FetchSequence"] = 2
  <2> DEFINE c == PickTick("Pickup", t)
  <2>1. r = GoOn("FetchSequence", "SUCCESS", c)
    BY <1>0, <1>4, TimedNodes, TimedChildren DEF Advance
  <2>2. /\ c \in TreeStates /\ c.at = t.at
        /\ c.steps = [t.steps EXCEPT !["Pickup"] = Clock("Pickup", t)]
        /\ c.board = IF Elapsed("Pickup", t) THEN t.board \union {"ball_held"} ELSE t.board
        /\ c.velocity = "zero"
        /\ c.status = IF Elapsed("Pickup", t) THEN "SUCCESS" ELSE "RUNNING"
    BY <1>0, <1>c, PickTickIs, ZenonT(30)
  <2> HIDE DEF c, r
  <2>3. /\ r \in TreeStates /\ r.steps = c.steps /\ r.board = c.board
        /\ r.velocity = c.velocity /\ r.status = c.status
        /\ r.at["FetchSequence"] = IF c.status = "RUNNING" THEN 2 ELSE 3
    <3>1. c.at["FetchSequence"] = 2 /\ c.at["FetchSequence"] < 4
      BY <1>4, <2>2
    <3>2. /\ r \in TreeStates /\ r.steps = c.steps /\ r.board = c.board
          /\ r.velocity = c.velocity /\ r.status = c.status
          /\ r.at = CASE c.status \in {"RUNNING", "RAISED"} -> c.at
                     [] c.status = "SUCCESS" -> [c.at EXCEPT !["FetchSequence"] = @ + 1]
                     [] OTHER -> [c.at EXCEPT !["FetchSequence"] = 0]
      BY <1>0, <2>1, <2>2, <3>1, GoOnIs, SMTT(30)
    <3>3. CASE c.status = "RUNNING"
      BY <3>1, <3>2, <3>3
    <3>4. CASE c.status = "SUCCESS"
      <4>1. r.at = [c.at EXCEPT !["FetchSequence"] = c.at["FetchSequence"] + 1]
        BY <2>2, <3>2, <3>4, TreeFields
      <4> QED BY <1>0, <2>2, <3>1, <3>2, <3>4, <4>1, TreeFields
    <3> QED BY <2>2, <3>3, <3>4
  <2>4. c.steps["Approach"] = t.steps["Approach"]
    BY <1>0, <2>2, TreeFields
  <2>5. TimedBetween(r)
    BY <1>0, <1>4, <2>2, <2>3, <2>4 DEF TimedBetween, TimedRound, TimedVelocity
  <2>6. r.status = "RUNNING" \/ r.at["FetchSequence"] = t.at["FetchSequence"] + 1
    BY <1>0, <1>4, <2>2, <2>3, <2>4 DEF TimedBetween, TimedRound
  <2> QED BY <1>4, <2>5, <2>6 DEF r
<1> QED BY <1>1, <1>2, <1>3, <1>4 DEF TimedBetween, TimedRound

\* A tick of the whole tree
LEMMA TimedTick ==
  ASSUME NEW t, TimedInv(t), NEW w
  PROVE  TimedInv(TickRoot("FetchSequence", t, w))
<1> DEFINE n == "FetchSequence"
           t0 == Return([t EXCEPT !.did = {}], "SUCCESS")
           r1 == Advance(TickHigher, "FetchSequence", "SUCCESS", t0, w)
           r2 == Advance(TickHigher, "FetchSequence", "SUCCESS", r1, w)
           r3 == Advance(TickHigher, "FetchSequence", "SUCCESS", r2, w)
           r4 == Advance(TickHigher, "FetchSequence", "SUCCESS", r3, w)
<1>1. TickRoot("FetchSequence", t, w) = IF r4.status = "SUCCESS" THEN [r4 EXCEPT !.at["FetchSequence"] = 0] ELSE r4
  BY TimedNodes DEF TickRoot, Tick, TickNode, CompositeTick
<1>2. TimedBetween(t0)
  <2>1. /\ t0 \in TreeStates /\ t0.at = t.at /\ t0.steps = t.steps /\ t0.board = t.board
        /\ t0.velocity = t.velocity /\ t0.status = "SUCCESS"
    BY DEF TimedInv, TimedRound, TreeStates, Return, Statuses
  <2> HIDE DEF t0
  <2> QED BY <2>1 DEF TimedInv, TimedRound, TimedVelocity, TimedBetween
<1> HIDE DEF t0
<1>3. TimedBetween(r1) /\ (r1.status = "RUNNING" \/ r1.at[n] >= 1)
  BY <1>2, TimedAdvance DEF TimedBetween, TimedRound
<1> HIDE DEF r1
<1>4. TimedBetween(r2) /\ (r2.status = "RUNNING" \/ r2.at[n] >= 2)
  BY <1>3, TimedAdvance DEF TimedBetween, TimedRound
<1> HIDE DEF r2
<1>5. TimedBetween(r3) /\ (r3.status = "RUNNING" \/ r3.at[n] = 3)
  BY <1>4, TimedAdvance DEF TimedBetween, TimedRound
<1> HIDE DEF r3
<1>6. TimedBetween(r4) /\ (r4.status = "RUNNING" \/ r4.at[n] = 3)
  BY <1>5, TimedAdvance DEF TimedBetween, TimedRound
<1> HIDE DEF r4
<1>7. CASE r4.status = "RUNNING"
  BY <1>1, <1>6, <1>7 DEF TimedBetween, TimedRound, TimedInv
<1>8. CASE r4.status = "SUCCESS"
  <2> DEFINE r == [r4 EXCEPT !.at["FetchSequence"] = 0]
  <2>1. /\ r \in TreeStates /\ r.at["FetchSequence"] = 0 /\ r.steps = r4.steps
        /\ r.board = r4.board /\ r.velocity = r4.velocity /\ r.status = "SUCCESS"
    BY <1>6, <1>8, NodesAre DEF TimedBetween, TimedRound, TreeStates
  <2>2. TickRoot("FetchSequence", t, w) = r
    BY <1>1, <1>8
  <2> HIDE DEF r
  <2> QED BY <1>6, <1>8, <2>1, <2>2 DEF TimedBetween, TimedRound, TimedVelocity, TimedInv
<1> QED BY <1>6, <1>7, <1>8 DEF TimedBetween, TimedRound

-----------------------------------------------------------------------------
(* The leaves of the library *)

\* A node has changed its own phase and count only, and what the callbacks
\* drive.
Kept(t, r, n) ==
  /\ r \in TreeStates
  /\ \A m \in Nodes \ {n} : r.at[m] = t.at[m] /\ r.steps[m] = t.steps[m]
  /\ r.failures = t.failures

\* The tick of a leaf, as one assignment
Leaf(t, n, p, k, v, h, b, c, d, s) ==
  [t EXCEPT !.at[n] = p, !.steps[n] = k, !.velocity = v, !.head = h, !.beak = b,
            !.clip = c, !.did = d, !.status = s]

\* The values it assigns, as sets to cite by name
Spots == 0 .. 4
Counts == Nat
TagSets == SUBSET {Trees[n].tag : n \in Nodes}
Beaks == {"shut", "open", "weld"}
Heads == {"zero", "scan"}

\* A leaf's assignment, field by field
LEMMA LeafIs ==
  ASSUME NEW t \in TreeStates, NEW n \in Nodes, NEW p \in Spots, NEW k \in Counts,
         NEW v \in Velocities, NEW h \in Heads, NEW b \in Beaks, NEW c \in Counts,
         NEW d \in TagSets, NEW s \in Statuses
  PROVE  LET r == Leaf(t, n, p, k, v, h, b, c, d, s)
         IN  /\ Kept(t, r, n)
             /\ r.at[n] = p /\ r.steps[n] = k
             /\ r.velocity = v /\ r.head = h /\ r.clip = c /\ r.did = d /\ r.status = s
<1>1. Leaf(t, n, p, k, v, h, b, c, d, s) \in TreeStates
  BY DEF Leaf, TreeStates, TagSets, Beaks, Heads, Counts, Spots
<1> QED BY <1>1 DEF Kept, Leaf, TreeStates

\* The fields of a tree, in those sets
LEMMA LeafFields ==
  ASSUME NEW t \in TreeStates, NEW n \in Nodes
  PROVE  /\ t.at[n] \in Spots /\ t.steps[n] \in Counts /\ t.velocity \in Velocities
         /\ t.head \in Heads /\ t.beak \in Beaks /\ t.clip \in Counts /\ t.did \in TagSets
         /\ t.status \in Statuses /\ t.steps[n] \in Nat /\ t.at[n] \in 0 .. 4 /\ t.clip \in Nat
         /\ 0 \in Spots /\ 0 \in Counts
         /\ {"RUNNING", "SUCCESS", "FAILURE"} \subseteq Statuses
BY TreeFields DEF Spots, Counts, TagSets, Beaks, Heads, Statuses

\* Counting a node's ticks
LEMMA CountIs ==
  ASSUME NEW t \in TreeStates, NEW n \in Nodes, NEW limit \in Nat
  PROVE  LET r == Count(n, t, limit)
         IN  /\ Kept(t, r, n) /\ r.at[n] = t.at[n]
             /\ r.velocity = t.velocity /\ r.head = t.head /\ r.clip = t.clip /\ r.did = t.did
             /\ IF t.steps[n] + 1 >= limit THEN r.status = "SUCCESS" /\ r.steps[n] = 0
                ELSE r.status = "RUNNING" /\ r.steps[n] = t.steps[n] + 1
<1>1. t.steps[n] \in Nat /\ t.steps[n] + 1 \in Counts
  BY TreeFields DEF Counts
<1>2. CASE t.steps[n] + 1 >= limit
  <2>1. Count(n, t, limit) =
          Leaf(t, n, t.at[n], 0, t.velocity, t.head, t.beak, t.clip, t.did, "SUCCESS")
    BY <1>2, ZenonT(30) DEF Count, Leaf, TreeStates
  <2> QED BY <1>2, <2>1, LeafIs, LeafFields
<1>3. CASE ~(t.steps[n] + 1 >= limit)
  <2>1. Count(n, t, limit) = Leaf(t, n, t.at[n], t.steps[n] + 1, t.velocity, t.head, t.beak,
                                  t.clip, t.did, "RUNNING")
    BY <1>3, ZenonT(30) DEF Count, Leaf, TreeStates
  <2> QED BY <1>1, <1>3, <2>1, LeafIs, LeafFields
<1> QED BY <1>2, <1>3

\* A gesture: it begins in its first tick only, and only in a calm world.
LEMMA ExpressionIs ==
  ASSUME NEW t \in TreeStates, NEW n \in Nodes, NEW w, Trees[n].ticks[1] \in Nat
  PROVE  LET r == ExpressionTick(n, t, w)
         IN  /\ Kept(t, r, n) /\ r.at[n] = t.at[n]
             /\ r.velocity = t.velocity /\ r.head = t.head /\ r.clip = t.clip
             /\ \/ r.status = "SUCCESS" /\ r.steps[n] = 0
                \/ r.status = "RUNNING" /\ r.steps[n] > 0
             /\ \/ r.did = t.did
                \/ Calm(w) /\ t.steps[n] = 0 /\ r.did = t.did \union {Trees[n].tag}
<1>1. CASE ~Calm(w)
  <2>1. ExpressionTick(n, t, w) =
          Leaf(t, n, t.at[n], 0, t.velocity, t.head, t.beak, t.clip, t.did, "SUCCESS")
    BY <1>1, ZenonT(30) DEF ExpressionTick, Leaf, TreeStates
  <2> QED BY <2>1, LeafIs, LeafFields, SMTT(30)
<1>2. CASE Calm(w)
  <2> DEFINE d == IF t.steps[n] = 0 THEN t.did \union {Trees[n].tag} ELSE t.did
             u == Leaf(t, n, t.at[n], t.steps[n], t.velocity, t.head, t.beak, t.clip, d, t.status)
  <2>1. ExpressionTick(n, t, w) = Count(n, u, Trees[n].ticks[1])
    <3>1. (IF t.steps[n] = 0 THEN [t EXCEPT !.did = @ \union {Trees[n].tag}] ELSE t) = u
      BY ZenonT(30) DEF Leaf, TreeStates
    <3> HIDE DEF u
    <3> QED BY <1>2, <3>1 DEF ExpressionTick
  <2>2. d \in TagSets
    <3>1. t.did \in TagSets /\ Trees[n].tag \in {Trees[m].tag : m \in Nodes}
      BY LeafFields
    <3> QED BY <3>1 DEF TagSets
  <2>3. d = t.did \/ (Calm(w) /\ t.steps[n] = 0 /\ d = t.did \union {Trees[n].tag})
    BY <1>2
  <2> HIDE DEF d
  <2>4. /\ Kept(t, u, n) /\ u.at[n] = t.at[n] /\ u.steps[n] = t.steps[n]
        /\ u.velocity = t.velocity /\ u.head = t.head /\ u.clip = t.clip /\ u.did = d
    <3>1. /\ t.at[n] \in Spots /\ t.steps[n] \in Counts /\ t.velocity \in Velocities
          /\ t.head \in Heads /\ t.beak \in Beaks /\ t.clip \in Counts /\ t.status \in Statuses
      BY LeafFields
    <3> QED BY <2>2, <3>1, LeafIs
  <2> HIDE DEF u
  <2> DEFINE r == Count(n, u, Trees[n].ticks[1])
  <2>5. /\ Kept(u, r, n) /\ r.at[n] = u.at[n]
        /\ r.velocity = u.velocity /\ r.head = u.head /\ r.clip = u.clip /\ r.did = u.did
        /\ \/ r.status = "SUCCESS" /\ r.steps[n] = 0
           \/ r.status = "RUNNING" /\ r.steps[n] = u.steps[n] + 1
    <3>1. u \in TreeStates
      BY <2>4 DEF Kept
    <3>2. LET c == Count(n, u, Trees[n].ticks[1])
          IN  /\ Kept(u, c, n) /\ c.at[n] = u.at[n]
              /\ c.velocity = u.velocity /\ c.head = u.head /\ c.clip = u.clip /\ c.did = u.did
              /\ IF u.steps[n] + 1 >= Trees[n].ticks[1] THEN c.status = "SUCCESS" /\ c.steps[n] = 0
                 ELSE c.status = "RUNNING" /\ c.steps[n] = u.steps[n] + 1
      BY <3>1, CountIs, ZenonT(30)
    <3> QED BY <3>2
  <2> HIDE DEF r
  <2>6. Kept(t, r, n)
    BY <2>4, <2>5 DEF Kept
  <2>7. t.steps[n] + 1 > 0
    BY TreeFields
  <2> QED BY <2>1, <2>3, <2>4, <2>5, <2>6, <2>7 DEF r
<1> QED BY <1>1, <1>2

\* Body language moves the head in a calm world and levels it in any other.
LEMMA AmbientIs ==
  ASSUME NEW t \in TreeStates, NEW n \in Nodes, NEW w
  PROVE  LET r == AmbientTick(n, t, w)
         IN  /\ Kept(t, r, n) /\ r.at[n] = t.at[n]
             /\ r.velocity = t.velocity /\ r.clip = t.clip /\ r.did = t.did
             /\ r.status = "RUNNING" /\ (~Calm(w) => r.head = "zero")
<1>1. CASE Calm(w)
  <2>1. AmbientTick(n, t, w) =
          Leaf(t, n, t.at[n], 1, t.velocity, "scan", t.beak, t.clip, t.did, "RUNNING")
    BY <1>1, ZenonT(30) DEF AmbientTick, Leaf, TreeStates
  <2>2. "scan" \in Heads /\ 1 \in Counts
    BY DEF Heads, Counts
  <2> QED BY <1>1, <2>1, <2>2, LeafIs, LeafFields
<1>2. CASE ~Calm(w)
  <2>1. AmbientTick(n, t, w) =
          Leaf(t, n, t.at[n], t.steps[n], t.velocity, "zero", t.beak, t.clip, t.did, "RUNNING")
    BY <1>2, ZenonT(30) DEF AmbientTick, Leaf, TreeStates
  <2>2. "zero" \in Heads
    BY DEF Heads
  <2> QED BY <2>1, <2>2, LeafIs, LeafFields
<1> QED BY <1>1, <1>2

\* The timed phases of a node
LEMMA PhaseIs ==
  ASSUME NEW t \in TreeStates, NEW n \in Nodes, t.at[n] \in 1 .. 3,
         Trees[n].ticks[t.at[n]] \in Nat
  PROVE  LET r == Phase(n, t, 3)
         IN  /\ Kept(t, r, n)
             /\ r.velocity = t.velocity /\ r.head = t.head /\ r.clip = t.clip /\ r.did = t.did
             /\ \/ r.status = "SUCCESS" /\ r.at[n] = 0 /\ r.steps[n] = 0
                \/ r.status = "RUNNING" /\ r.at[n] \in 1 .. 3
<1> DEFINE u == Count(n, t, Trees[n].ticks[t.at[n]])
<1>1. /\ Kept(t, u, n) /\ u.at[n] = t.at[n]
      /\ u.velocity = t.velocity /\ u.head = t.head /\ u.clip = t.clip /\ u.did = t.did
      /\ \/ u.status = "SUCCESS" /\ u.steps[n] = 0
         \/ u.status = "RUNNING"
  BY CountIs
<1>2. Phase(n, t, 3) =
        IF u.status = "RUNNING" THEN u
        ELSE IF t.at[n] = 3 THEN [u EXCEPT !.at[n] = 0]
        ELSE [u EXCEPT !.at[n] = @ + 1, !.status = "RUNNING"]
  BY DEF Phase
<1> HIDE DEF u
<1>3. u \in TreeStates
  BY <1>1 DEF Kept
<1>4. CASE u.status = "RUNNING"
  BY <1>1, <1>2, <1>4
<1>5. CASE u.status = "SUCCESS" /\ t.at[n] = 3
  <2>1. Phase(n, t, 3) =
          Leaf(u, n, 0, u.steps[n], u.velocity, u.head, u.beak, u.clip, u.did, u.status)
    <3>1. Phase(n, t, 3) = [u EXCEPT !.at[n] = 0]
      BY <1>2, <1>5
    <3>2. [u EXCEPT !.at[n] = 0] =
            Leaf(u, n, 0, u.steps[n], u.velocity, u.head, u.beak, u.clip, u.did, u.status)
      BY <1>3, ZenonT(30) DEF Leaf, TreeStates
    <3> QED BY <3>1, <3>2
  <2>2. /\ Kept(u, Phase(n, t, 3), n)
        /\ Phase(n, t, 3).at[n] = 0 /\ Phase(n, t, 3).steps[n] = u.steps[n]
        /\ Phase(n, t, 3).velocity = u.velocity /\ Phase(n, t, 3).head = u.head
        /\ Phase(n, t, 3).clip = u.clip /\ Phase(n, t, 3).did = u.did
        /\ Phase(n, t, 3).status = u.status
    BY <1>3, <2>1, LeafIs, LeafFields
  <2> QED BY <1>1, <1>5, <2>2 DEF Kept
<1>6. CASE u.status = "SUCCESS" /\ t.at[n] # 3
  <2>1. Phase(n, t, 3) =
          Leaf(u, n, u.at[n] + 1, u.steps[n], u.velocity, u.head, u.beak, u.clip, u.did, "RUNNING")
    <3>1. Phase(n, t, 3) = [u EXCEPT !.at[n] = @ + 1, !.status = "RUNNING"]
      BY <1>2, <1>6
    <3>2. [u EXCEPT !.at[n] = @ + 1, !.status = "RUNNING"] =
            Leaf(u, n, u.at[n] + 1, u.steps[n], u.velocity, u.head, u.beak, u.clip, u.did, "RUNNING")
      BY <1>3, ZenonT(30) DEF Leaf, TreeStates
    <3> QED BY <3>1, <3>2
  <2>2. u.at[n] + 1 \in Spots /\ u.at[n] + 1 \in 1 .. 3
    BY <1>1, <1>6 DEF Spots
  <2>3. /\ Kept(u, Phase(n, t, 3), n)
        /\ Phase(n, t, 3).at[n] = u.at[n] + 1
        /\ Phase(n, t, 3).velocity = u.velocity /\ Phase(n, t, 3).head = u.head
        /\ Phase(n, t, 3).clip = u.clip /\ Phase(n, t, 3).did = u.did
        /\ Phase(n, t, 3).status = "RUNNING"
    <3> DEFINE q == u.at[n] + 1
    <3>1. q \in Spots /\ Phase(n, t, 3) = Leaf(u, n, q, u.steps[n], u.velocity, u.head, u.beak, u.clip,
                                               u.did, "RUNNING")
      BY <2>1, <2>2
    <3> HIDE DEF q
    <3>2. /\ u.steps[n] \in Counts /\ u.velocity \in Velocities /\ u.head \in Heads
          /\ u.beak \in Beaks /\ u.clip \in Counts /\ u.did \in TagSets /\ "RUNNING" \in Statuses
      BY <1>3, LeafFields
    <3>3. /\ Kept(u, Phase(n, t, 3), n)
          /\ Phase(n, t, 3).at[n] = q
          /\ Phase(n, t, 3).velocity = u.velocity /\ Phase(n, t, 3).head = u.head
          /\ Phase(n, t, 3).clip = u.clip /\ Phase(n, t, 3).did = u.did
          /\ Phase(n, t, 3).status = "RUNNING"
      BY <1>3, <3>1, <3>2, LeafIs
    <3> QED BY <3>3 DEF q
  <2> QED BY <1>1, <1>6, <2>2, <2>3 DEF Kept
<1> QED BY <1>1, <1>4, <1>5, <1>6

\* The grasp drives the beak only.
LEMMA GraspIs ==
  ASSUME NEW t \in TreeStates, t.at["Grasp"] \in 0 .. 3
  PROVE  LET r == GraspTick("Grasp", t)
         IN  /\ Kept(t, r, "Grasp")
             /\ r.velocity = t.velocity /\ r.head = t.head /\ r.clip = t.clip /\ r.did = t.did
             /\ \/ r.status = "SUCCESS" /\ r.at["Grasp"] = 0 /\ r.steps["Grasp"] = 0
                \/ r.status = "RUNNING" /\ r.at["Grasp"] \in 1 .. 3
<1> DEFINE q == IF t.at["Grasp"] = 0 THEN 1 ELSE t.at["Grasp"]
           b == <<"open", "weld", t.beak>>[q]
           u == Leaf(t, "Grasp", q, t.steps["Grasp"], t.velocity, t.head, b, t.clip, t.did, t.status)
           r == Phase("Grasp", u, 3)
<1>0. "Grasp" \in Nodes /\ q \in 1 .. 3 /\ b \in Beaks /\ q \in Spots
  <2>1. "Grasp" \in Nodes /\ q \in 1 .. 3 /\ q \in Spots
    BY NodesAre DEF Spots
  <2>2. t.beak \in Beaks
    BY <2>1, LeafFields
  <2> HIDE DEF q
  <2> QED BY <2>1, <2>2 DEF Beaks
<1>1. GraspTick("Grasp", t) = r
  <2>1. GraspTick("Grasp", t) = Phase("Grasp", [t EXCEPT !.at["Grasp"] = q, !.beak = b], 3)
    BY DEF GraspTick, TreeStates
  <2> HIDE DEF q, b
  <2>2. [t EXCEPT !.at["Grasp"] = q, !.beak = b] = u
    BY <1>0 DEF Leaf, TreeStates
  <2> QED BY <2>1, <2>2
<1>2. Trees["Grasp"].ticks[q] \in Nat
  <2>1. Trees["Grasp"].ticks = <<2, 2, 3>>
    BY RoutineNodes
  <2> HIDE DEF q
  <2> QED BY <1>0, <2>1
<1> HIDE DEF q, b
<1>3. /\ Kept(t, u, "Grasp") /\ u.at["Grasp"] = q
      /\ u.velocity = t.velocity /\ u.head = t.head /\ u.clip = t.clip /\ u.did = t.did
  BY <1>0, LeafIs, LeafFields
<1> HIDE DEF u
<1>4. u \in TreeStates /\ u.at["Grasp"] \in 1 .. 3 /\ Trees["Grasp"].ticks[u.at["Grasp"]] \in Nat
  BY <1>0, <1>2, <1>3 DEF Kept
<1>5. /\ Kept(u, r, "Grasp")
      /\ r.velocity = u.velocity /\ r.head = u.head /\ r.clip = u.clip /\ r.did = u.did
      /\ \/ r.status = "SUCCESS" /\ r.at["Grasp"] = 0 /\ r.steps["Grasp"] = 0
         \/ r.status = "RUNNING" /\ r.at["Grasp"] \in 1 .. 3
  BY <1>0, <1>4, PhaseIs
<1> HIDE DEF r
<1> QED BY <1>1, <1>3, <1>5 DEF Kept

\* A detour ends with the robot standing, and none begins on a free way.
LEMMA AvoidIs ==
  ASSUME NEW t \in TreeStates, NEW w, t.at["Avoid"] \in 0 .. 3,
         t.at["Avoid"] = 0 => t.steps["Avoid"] = 0 /\ t.velocity = "zero"
  PROVE  LET r == AvoidTick("Avoid", t, w)
         IN  /\ Kept(t, r, "Avoid")
             /\ r.head = t.head /\ r.clip = t.clip /\ r.did = t.did
             /\ \/ /\ r.status = "SUCCESS" /\ r.at["Avoid"] = 0 /\ r.steps["Avoid"] = 0
                   /\ r.velocity = "zero"
                \/ r.status = "RUNNING" /\ r.at["Avoid"] \in 1 .. 3
<1>0. "Avoid" \in Nodes /\ "zero" \in Velocities
  BY NodesAre DEF Velocities
<1>1. CASE t.at["Avoid"] = 0 /\ ~Get(w, "obstacle_detected", FALSE)
  <2>1. AvoidTick("Avoid", t, w) = Return(t, "SUCCESS")
    BY <1>1 DEF AvoidTick
  <2>2. Return(t, "SUCCESS") = Leaf(t, "Avoid", t.at["Avoid"], t.steps["Avoid"], t.velocity, t.head,
                                    t.beak, t.clip, t.did, "SUCCESS")
    BY <1>0, ZenonT(30) DEF Return, Leaf, TreeStates
  <2>3. LET r == Return(t, "SUCCESS")
        IN  /\ Kept(t, r, "Avoid") /\ r.at["Avoid"] = t.at["Avoid"]
            /\ r.steps["Avoid"] = t.steps["Avoid"] /\ r.velocity = t.velocity
            /\ r.head = t.head /\ r.clip = t.clip /\ r.did = t.did /\ r.status = "SUCCESS"
    <3>1. /\ t.at["Avoid"] \in Spots /\ t.steps["Avoid"] \in Counts /\ t.velocity \in Velocities
          /\ t.head \in Heads /\ t.beak \in Beaks /\ t.clip \in Counts /\ t.did \in TagSets
          /\ "SUCCESS" \in Statuses
      BY <1>0, LeafFields DEF Statuses
    <3> QED BY <1>0, <2>2, <3>1, LeafIs
  <2> QED BY <1>1, <2>1, <2>3
<1>2. CASE ~(t.at["Avoid"] = 0 /\ ~Get(w, "obstacle_detected", FALSE))
  <2> DEFINE q == IF t.at["Avoid"] = 0 THEN 1 ELSE t.at["Avoid"]
             v == <<"turn", "bypass", "realign">>[q]
             u == Leaf(t, "Avoid", q, t.steps["Avoid"], v, t.head, t.beak, t.clip, t.did, t.status)
             r == Phase("Avoid", u, 3)
  <2>0. q \in 1 .. 3 /\ q \in Spots /\ v \in Velocities
    <3>1. q \in 1 .. 3 /\ q \in Spots
      BY DEF Spots
    <3> HIDE DEF q
    <3> QED BY <3>1 DEF Velocities
  <2>1. AvoidTick("Avoid", t, w) = IF r.status = "SUCCESS" THEN [r EXCEPT !.velocity = "zero"] ELSE r
    <3>1. LET x == Phase("Avoid", [t EXCEPT !.at["Avoid"] = q, !.velocity = v], 3)
          IN  AvoidTick("Avoid", t, w) = IF x.status = "SUCCESS" THEN [x EXCEPT !.velocity = "zero"] ELSE x
      BY <1>2 DEF AvoidTick
    <3> HIDE DEF q, v
    <3>2. [t EXCEPT !.at["Avoid"] = q, !.velocity = v] = u
      BY <1>0, <2>0, ZenonT(30) DEF Leaf, TreeStates
    <3> QED BY <3>1, <3>2
  <2>2. Trees["Avoid"].ticks[q] \in Nat
    <3>1. Trees["Avoid"].ticks = <<2, 3, 2>>
      BY RoutineNodes
    <3> HIDE DEF q
    <3> QED BY <2>0, <3>1
  <2> HIDE DEF q, v
  <2>3. /\ Kept(t, u, "Avoid") /\ u.at["Avoid"] = q
        /\ u.head = t.head /\ u.clip = t.clip /\ u.did = t.did
    BY <1>0, <2>0, LeafIs, LeafFields
  <2> HIDE DEF u
  <2>4. u \in TreeStates /\ u.at["Avoid"] \in 1 .. 3 /\ Trees["Avoid"].ticks[u.at["Avoid"]] \in Nat
    BY <2>0, <2>2, <2>3 DEF Kept
  <2>5. /\ Kept(u, r, "Avoid")
        /\ r.head = u.head /\ r.clip = u.clip /\ r.did = u.did
        /\ \/ r.status = "SUCCESS" /\ r.at["Avoid"] = 0 /\ r.steps["Avoid"] = 0
           \/ r.status = "RUNNING" /\ r.at["Avoid"] \in 1 .. 3
    BY <1>0, <2>4, PhaseIs
  <2> HIDE DEF r
  <2>6. r \in TreeStates
    BY <2>5 DEF Kept
  <2>7. CASE r.status = "RUNNING"
    <3>1. AvoidTick("Avoid", t, w) = r
      BY <2>1, <2>7
    <3> QED BY <2>3, <2>5, <2>7, <3>1 DEF Kept
  <2>8. CASE r.status = "SUCCESS"
    <3> DEFINE x == Leaf(r, "Avoid", r.at["Avoid"], r.steps["Avoid"], "zero", r.head, r.beak, r.clip,
                         r.did, r.status)
    <3>1. AvoidTick("Avoid", t, w) = x
      <4>1. [r EXCEPT !.velocity = "zero"] = x
        BY <2>6, ZenonT(30) DEF Leaf, TreeStates
      <4> QED BY <2>1, <2>8, <4>1
    <3>2. /\ Kept(r, x, "Avoid") /\ x.at["Avoid"] = r.at["Avoid"] /\ x.steps["Avoid"] = r.steps["Avoid"]
          /\ x.velocity = "zero" /\ x.head = r.head /\ x.clip = r.clip /\ x.did = r.did
          /\ x.status = r.status
      BY <1>0, <2>6, LeafIs, LeafFields, SMTT(30)
    <3> HIDE DEF x
    <3> QED BY <2>3, <2>5, <2>8, <3>1, <3>2 DEF Kept
  <2> QED BY <2>5, <2>7, <2>8
<1> QED BY <1>1, <1>2

\* The bow: where its clip is, and the weight that is in the joints.  A clip
\* that was cut short leaves its frame behind.
BowFits(t) ==
  /\ t.at["Bow"] \in 0 .. 1 /\ t.steps["Bow"] \in 0 .. 5
  /\ t.at["Bow"] = 1 => t.steps["Bow"] \in 1 .. 4 /\ t.clip = ClipWeight(t.steps["Bow"] - 1, 5, 2)
  /\ t.at["Bow"] = 0 /\ t.steps["Bow"] = 0 => t.clip = 0
  /\ t.at["Bow"] = 0 /\ t.steps["Bow"] = 5 => t.clip = 2

\* One frame of the bow
LEMMA BowIs ==
  ASSUME NEW t \in TreeStates, NEW w, BowFits(t)
  PROVE  LET r == MocapTick("Bow", t, w)
         IN  /\ Kept(t, r, "Bow") /\ BowFits(r)
             /\ r.velocity = t.velocity /\ r.head = t.head /\ r.did = t.did
             /\ r.status \in {"RUNNING", "SUCCESS"}
             /\ \/ t.at["Bow"] = 0 /\ t.steps["Bow"] \in 1 .. 4
                \/ r.clip - t.clip \in -2 .. 2
<1>0. "Bow" \in Nodes
  BY NodesAre
<1>c. /\ t.at["Bow"] \in Spots /\ t.steps["Bow"] \in Counts /\ t.velocity \in Velocities
      /\ t.head \in Heads /\ t.beak \in Beaks /\ t.clip \in Counts /\ t.did \in TagSets
      /\ "RUNNING" \in Statuses /\ "SUCCESS" \in Statuses /\ t.clip \in Nat
  BY <1>0, LeafFields
<1>1. CASE Get(w, "stability", "HIGH") = "LOW"
  <2> DEFINE r == MocapTick("Bow", t, w)
  <2>1. r = Return(t, "RUNNING")
    BY <1>1 DEF MocapTick
  <2>2. Return(t, "RUNNING") = Leaf(t, "Bow", t.at["Bow"], t.steps["Bow"], t.velocity, t.head, t.beak,
                                    t.clip, t.did, "RUNNING")
    BY <1>0 DEF Return, Leaf, TreeStates
  <2>3. /\ Kept(t, r, "Bow") /\ r.at["Bow"] = t.at["Bow"] /\ r.steps["Bow"] = t.steps["Bow"]
        /\ r.velocity = t.velocity /\ r.head = t.head /\ r.did = t.did /\ r.clip = t.clip
        /\ r.status = "RUNNING"
    BY <1>0, <1>c, <2>1, <2>2, LeafIs
  <2> HIDE DEF r
  <2>4. BowFits(r)
    BY <2>3 DEF BowFits
  <2>5. r.clip - t.clip \in -2 .. 2
    BY <1>c, <2>3
  <2> QED BY <2>3, <2>4, <2>5 DEF r
<1>2. CASE Get(w, "stability", "HIGH") # "LOW"
  <2> DEFINE f == IF t.at["Bow"] = 0 THEN 0 ELSE t.steps["Bow"]
             p == IF f + 1 >= 5 THEN 0 ELSE 1
             k == f + 1
             c == ClipWeight(f, 5, 2)
             s == IF f + 1 >= 5 THEN "SUCCESS" ELSE "RUNNING"
             r == MocapTick("Bow", t, w)
  <2>1. r = [t EXCEPT !.clip = c, !.steps["Bow"] = k, !.at["Bow"] = p, !.status = s]
    <3>1. Trees["Bow"].ticks[1] = 5 /\ Trees["Bow"].ticks[2] = 2
      BY RoutineNodes
    <3> QED BY <1>2, <3>1 DEF MocapTick
  <2>2. f \in 0 .. 4 /\ (f # 0 => t.at["Bow"] = 1 /\ f = t.steps["Bow"])
    BY DEF BowFits
  <2>3. c = CASE f = 0 -> 0 [] f = 1 -> 2 [] f = 2 -> 4 [] f = 3 -> 4 [] OTHER -> 2
    BY <2>2 DEF ClipWeight
  <2>4. c \in Nat /\ c \in Counts /\ p \in Spots /\ k \in Counts /\ s \in Statuses
    BY <2>2, <2>3 DEF Counts, Spots, Statuses
  <2>5. \/ t.at["Bow"] = 0 /\ t.steps["Bow"] \in 1 .. 4
        \/ c - t.clip \in -2 .. 2
    <3>1. CASE t.at["Bow"] = 0
      BY <1>c, <2>3, <3>1 DEF BowFits
    <3>2. CASE t.at["Bow"] = 1
      <4>1. t.steps["Bow"] \in 1 .. 4 /\ t.clip = ClipWeight(t.steps["Bow"] - 1, 5, 2)
            /\ f = t.steps["Bow"]
        BY <3>2 DEF BowFits
      <4>2. t.clip = CASE f = 1 -> 0 [] f = 2 -> 2 [] f = 3 -> 4 [] OTHER -> 4
        BY <4>1 DEF ClipWeight
      <4> HIDE DEF f, c
      <4> QED BY <2>3, <4>1, <4>2
    <3> QED BY <3>1, <3>2 DEF BowFits
  <2>6. /\ p = 1 => k \in 1 .. 4 /\ c = ClipWeight(k - 1, 5, 2)
        /\ p = 0 => k = 5 /\ c = 2
        /\ p \in 0 .. 1 /\ k \in 0 .. 5
    <3>1. k - 1 = f
      BY <2>2
    <3> QED BY <2>2, <2>3, <3>1
  <2>s. s \in {"RUNNING", "SUCCESS"}
    OBVIOUS
  <2> HIDE DEF f, p, k, c, s
  <2>7. [t EXCEPT !.clip = c, !.steps["Bow"] = k, !.at["Bow"] = p, !.status = s]
          = Leaf(t, "Bow", p, k, t.velocity, t.head, t.beak, c, t.did, s)
    BY <1>0 DEF Leaf, TreeStates
  <2>8. /\ Kept(t, r, "Bow") /\ r.at["Bow"] = p /\ r.steps["Bow"] = k
        /\ r.velocity = t.velocity /\ r.head = t.head /\ r.did = t.did /\ r.clip = c
        /\ r.status = s
    BY <1>0, <1>c, <2>1, <2>4, <2>7, LeafIs
  <2> HIDE DEF r
  <2>9. BowFits(r)
    BY <2>6, <2>8 DEF BowFits
  <2> QED BY <2>s, <2>5, <2>8, <2>9 DEF r
<1> QED BY <1>1, <1>2

\* The voice speaks in the first tick after an abort.
LEMMA ChirpIs ==
  ASSUME NEW t \in TreeStates, t.at["Chirp"] \in 0 .. 1
  PROVE  LET r == VoiceTick("Chirp", t)
         IN  /\ Kept(t, r, "Chirp") /\ r.at["Chirp"] = 1 /\ r.steps["Chirp"] = t.steps["Chirp"]
             /\ r.velocity = t.velocity /\ r.head = t.head /\ r.clip = t.clip
             /\ r.status = "SUCCESS"
             /\ r.did = t.did \/ (t.at["Chirp"] = 0 /\ r.did = t.did \union {"chirp"})
<1> DEFINE d == IF t.at["Chirp"] = 0 THEN t.did \union {"chirp"} ELSE t.did
           r == VoiceTick("Chirp", t)
<1>0. "Chirp" \in Nodes /\ Trees["Chirp"].tag = "chirp"
  BY NodesAre, RoutineNodes
<1>c. /\ t.steps["Chirp"] \in Counts /\ t.velocity \in Velocities
      /\ t.head \in Heads /\ t.beak \in Beaks /\ t.clip \in Counts /\ t.did \in TagSets
      /\ "SUCCESS" \in Statuses /\ 1 \in Spots
  BY <1>0, LeafFields DEF Spots
<1>1. d \in TagSets
  <2>1. "chirp" \in {Trees[n].tag : n \in Nodes}
    BY <1>0
  <2> QED BY <1>c, <2>1 DEF TagSets
<1>2. r = [t EXCEPT !.did = d, !.at["Chirp"] = 1, !.status = "SUCCESS"]
  BY <1>0 DEF VoiceTick, TreeStates
<1>3. d = t.did \/ (t.at["Chirp"] = 0 /\ d = t.did \union {"chirp"})
  OBVIOUS
<1> HIDE DEF d
<1>4. [t EXCEPT !.did = d, !.at["Chirp"] = 1, !.status = "SUCCESS"]
        = Leaf(t, "Chirp", 1, t.steps["Chirp"], t.velocity, t.head, t.beak, t.clip, d, "SUCCESS")
  BY <1>0, ZenonT(30) DEF Leaf, TreeStates
<1>5. /\ Kept(t, r, "Chirp") /\ r.at["Chirp"] = 1 /\ r.steps["Chirp"] = t.steps["Chirp"]
      /\ r.velocity = t.velocity /\ r.head = t.head /\ r.clip = t.clip
      /\ r.status = "SUCCESS" /\ r.did = d
  BY <1>0, <1>c, <1>1, <1>2, <1>4, LeafIs
<1> QED BY <1>3, <1>5

\* What abort() does to each kind of leaf
LEMMA AbortsAre ==
  ASSUME NEW t \in TreeStates, NEW n \in Nodes
  PROVE  /\ LET r == AbortAvoid(n, t)
            IN  /\ Kept(t, r, n) /\ r.at[n] = 0 /\ r.steps[n] = 0 /\ r.velocity = "zero"
                /\ r.head = t.head /\ r.clip = t.clip /\ r.did = t.did /\ r.status = t.status
         /\ LET r == AbortGrasp(n, t)
            IN  /\ Kept(t, r, n) /\ r.at[n] = 0 /\ r.steps[n] = 0 /\ r.velocity = t.velocity
                /\ r.head = t.head /\ r.clip = t.clip /\ r.did = t.did /\ r.status = t.status
         /\ LET r == AbortAmbient(n, t)
            IN  /\ Kept(t, r, n) /\ r.at[n] = t.at[n] /\ r.steps[n] = 0 /\ r.velocity = t.velocity
                /\ r.head = "zero" /\ r.clip = t.clip /\ r.did = t.did /\ r.status = t.status
         /\ LET r == AbortMocap(n, t)
            IN  /\ Kept(t, r, n) /\ r.at[n] = 0 /\ r.steps[n] = t.steps[n] /\ r.velocity = t.velocity
                /\ r.head = t.head /\ r.clip = t.clip /\ r.did = t.did /\ r.status = t.status
         /\ LET r == AbortVoice(n, t)
            IN  /\ Kept(t, r, n) /\ r.at[n] = 0 /\ r.steps[n] = t.steps[n] /\ r.velocity = t.velocity
                /\ r.head = t.head /\ r.clip = t.clip /\ r.did = t.did /\ r.status = t.status
         /\ LET r == AbortExpression(n, t)
            IN  /\ Kept(t, r, n) /\ r.at[n] = t.at[n] /\ r.steps[n] = 0 /\ r.velocity = t.velocity
                /\ r.head = t.head /\ r.clip = t.clip /\ r.did = t.did /\ r.status = t.status
<1>c. /\ t.at[n] \in Spots /\ t.steps[n] \in Counts /\ t.velocity \in Velocities
      /\ t.head \in Heads /\ t.beak \in Beaks /\ t.clip \in Counts /\ t.did \in TagSets
      /\ t.status \in Statuses /\ "zero" \in Heads /\ "zero" \in Velocities
      /\ 0 \in Spots /\ 0 \in Counts
  BY LeafFields DEF Heads, Velocities
<1>1. AbortAvoid(n, t) = Leaf(t, n, 0, 0, "zero", t.head, t.beak, t.clip, t.did, t.status)
  BY DEF AbortAvoid, Leaf, TreeStates
<1>2. AbortGrasp(n, t) = Leaf(t, n, 0, 0, t.velocity, t.head, t.beak, t.clip, t.did, t.status)
  BY DEF AbortGrasp, Leaf, TreeStates
<1>3. AbortAmbient(n, t) = Leaf(t, n, t.at[n], 0, t.velocity, "zero", t.beak, t.clip, t.did, t.status)
  BY DEF AbortAmbient, Leaf, TreeStates
<1>4. AbortMocap(n, t) = Leaf(t, n, 0, t.steps[n], t.velocity, t.head, t.beak, t.clip, t.did, t.status)
  BY DEF AbortMocap, Leaf, TreeStates
<1>5. AbortVoice(n, t) = Leaf(t, n, 0, t.steps[n], t.velocity, t.head, t.beak, t.clip, t.did, t.status)
  BY DEF AbortVoice, Leaf, TreeStates
<1>6. AbortExpression(n, t) = Leaf(t, n, t.at[n], 0, t.velocity, t.head, t.beak, t.clip, t.did, t.status)
  BY DEF AbortExpression, Leaf, TreeStates
<1>7. LET r == AbortAvoid(n, t)
      IN  /\ Kept(t, r, n) /\ r.at[n] = 0 /\ r.steps[n] = 0 /\ r.velocity = "zero"
          /\ r.head = t.head /\ r.clip = t.clip /\ r.did = t.did /\ r.status = t.status
  BY <1>c, <1>1, LeafIs
<1>8. LET r == AbortGrasp(n, t)
      IN  /\ Kept(t, r, n) /\ r.at[n] = 0 /\ r.steps[n] = 0 /\ r.velocity = t.velocity
          /\ r.head = t.head /\ r.clip = t.clip /\ r.did = t.did /\ r.status = t.status
  BY <1>c, <1>2, LeafIs, SMTT(30)
<1>9. LET r == AbortAmbient(n, t)
      IN  /\ Kept(t, r, n) /\ r.at[n] = t.at[n] /\ r.steps[n] = 0 /\ r.velocity = t.velocity
          /\ r.head = "zero" /\ r.clip = t.clip /\ r.did = t.did /\ r.status = t.status
  BY <1>c, <1>3, LeafIs
<1>10. LET r == AbortMocap(n, t)
       IN  /\ Kept(t, r, n) /\ r.at[n] = 0 /\ r.steps[n] = t.steps[n] /\ r.velocity = t.velocity
           /\ r.head = t.head /\ r.clip = t.clip /\ r.did = t.did /\ r.status = t.status
  BY <1>c, <1>4, LeafIs
<1>11. LET r == AbortVoice(n, t)
       IN  /\ Kept(t, r, n) /\ r.at[n] = 0 /\ r.steps[n] = t.steps[n] /\ r.velocity = t.velocity
           /\ r.head = t.head /\ r.clip = t.clip /\ r.did = t.did /\ r.status = t.status
  BY <1>c, <1>5, LeafIs
<1>12. LET r == AbortExpression(n, t)
       IN  /\ Kept(t, r, n) /\ r.at[n] = t.at[n] /\ r.steps[n] = 0 /\ r.velocity = t.velocity
           /\ r.head = t.head /\ r.clip = t.clip /\ r.did = t.did /\ r.status = t.status
  BY <1>c, <1>6, LeafIs
<1> QED BY <1>7, <1>8, <1>9, <1>10, <1>11, <1>12, Zenon

\* Aborting and ticking a leaf
LEMMA LeavesAre ==
  ASSUME NEW t, NEW n, Trees[n].kind \notin {"sequence", "selector", "parallel", "failure"}
  PROVE  /\ AbortAbove(n, t) = AbortSelf(n, t) /\ AbortHigher(n, t) = AbortSelf(n, t)
         /\ Abort(n, t) = AbortSelf(n, t)
         /\ \A w : TickAbove(n, t, w) = LeafTick(n, t, w) /\ TickHigher(n, t, w) = LeafTick(n, t, w)
<1>1. AbortedKids(n, t) = <<>>
  BY DEF AbortedKids
<1>2. /\ AbortAll(AbortSelf, <<>>, t) = t /\ AbortAll(AbortAbove, <<>>, t) = t
      /\ AbortAll(AbortHigher, <<>>, t) = t
  BY DEF AbortAll, AbortNext
<1>3. AbortAbove(n, t) = AbortSelf(n, t) /\ AbortHigher(n, t) = AbortSelf(n, t)
      /\ Abort(n, t) = AbortSelf(n, t)
  BY <1>1, <1>2 DEF AbortAbove, AbortHigher, Abort, AbortNode
<1>4. \A w : TickAbove(n, t, w) = LeafTick(n, t, w) /\ TickHigher(n, t, w) = LeafTick(n, t, w)
  BY DEF TickAbove, TickHigher, TickNode
<1> QED BY <1>3, <1>4

\* A control node's loop, field by field
LEMMA TurnIs ==
  ASSUME NEW r \in TreeStates, NEW n \in Nodes, NEW on \in {"SUCCESS", "FAILURE"}, r.at[n] < 4
  PROVE  LET g == GoOn(n, on, r)
         IN  /\ Kept(r, g, n) /\ g.steps[n] = r.steps[n]
             /\ g.velocity = r.velocity /\ g.head = r.head /\ g.clip = r.clip /\ g.did = r.did
             /\ g.status = r.status
             /\ r.status \in {"RUNNING", "RAISED"} => g.at[n] = r.at[n]
             /\ r.status = on => g.at[n] = r.at[n] + 1
             /\ (r.status \notin {"RUNNING", "RAISED"} /\ r.status # on) => g.at[n] = 0
<1> DEFINE g == GoOn(n, on, r)
<1>1. /\ g \in TreeStates /\ g.steps = r.steps
      /\ g.velocity = r.velocity /\ g.head = r.head /\ g.clip = r.clip
      /\ g.did = r.did /\ g.status = r.status /\ g.failures = r.failures
      /\ g.at = CASE r.status \in {"RUNNING", "RAISED"} -> r.at
                  [] r.status = on -> [r.at EXCEPT ![n] = @ + 1]
                  [] OTHER -> [r.at EXCEPT ![n] = 0]
  BY GoOnIs
<1> HIDE DEF g
<1>2. r.at \in [Nodes -> 0 .. 4]
  BY TreeFields
<1>3. CASE r.status \in {"RUNNING", "RAISED"}
  BY <1>1, <1>2, <1>3 DEF g, Kept
<1>4. CASE r.status = on
  <2>1. g.at = [r.at EXCEPT ![n] = @ + 1] /\ r.status \notin {"RUNNING", "RAISED"}
    BY <1>1, <1>4
  <2> QED BY <1>1, <1>2, <1>4, <2>1 DEF g, Kept
<1>5. CASE r.status \notin {"RUNNING", "RAISED"} /\ r.status # on
  BY <1>1, <1>2, <1>5 DEF g, Kept
<1> QED BY <1>3, <1>4, <1>5

-----------------------------------------------------------------------------
(* The routine of library nodes                                            *)

\* The state of a tree that runs the routine, whatever it is doing
RoutineCore(t) ==
  /\ t \in TreeStates
  /\ \A n \in Nodes \ {"Routine", "Avoid", "Grasp", "Sway", "Bow", "Chirp"} :
       t.at[n] = 0 /\ t.steps[n] = 0
  /\ t.at["Sway"] = 0 /\ t.steps["Routine"] = 0 /\ t.steps["Chirp"] = 0
  /\ t.at["Avoid"] \in 0 .. 3 /\ t.at["Grasp"] \in 0 .. 3 /\ t.at["Chirp"] \in 0 .. 1
  /\ t.at["Avoid"] = 0 => t.steps["Avoid"] = 0 /\ t.velocity = "zero"
  /\ t.at["Grasp"] = 0 => t.steps["Grasp"] = 0
  /\ BowFits(t) /\ t.did \subseteq {"chirp"}

\* The show has not begun or is over.
ShowIdle(t) ==
  /\ t.at["Grasp"] = 0 /\ t.steps["Sway"] = 0 /\ t.at["Bow"] = 0 /\ t.at["Chirp"] = 0
  /\ t.head = "zero"

\* The show is going on.
ShowPlays(t) == t.at["Grasp"] \in 1 .. 3 /\ t.at["Chirp"] = 1

\* What a tick from state s may leave behind
Performed(s, t) ==
  /\ "chirp" \in t.did => s.at["Grasp"] = 0
  /\ \/ s.at["Bow"] = 0 /\ s.steps["Bow"] \in 1 .. 4
     \/ t.clip - s.clip \in -2 .. 2

\* The children of the show in turn
LEMMA ShowOrder ==
  ASSUME NEW t, NEW w
  PROVE  LET r1 == GraspTick("Grasp", t)
             r2 == AmbientTick("Sway", r1, w)
             r3 == MocapTick("Bow", r2, w)
             r4 == VoiceTick("Chirp", r3)
         IN  (/\ r1.status \in {"RUNNING", "SUCCESS"} /\ r2.status # "RAISED"
              /\ r3.status # "RAISED" /\ r4.status # "RAISED")
               => TickHigher("GraspShow", t, w) =
                    IF r1.status = "RUNNING" THEN Return(r4, "RUNNING")
                    ELSE Return(AbortVoice("Chirp", AbortMocap("Bow", AbortAmbient("Sway", r4))),
                                "SUCCESS")
<1> DEFINE r1 == GraspTick("Grasp", t)
           r2 == AmbientTick("Sway", r1, w)
           r3 == MocapTick("Bow", r2, w)
           r4 == VoiceTick("Chirp", r3)
           kids == <<"Grasp", "Sway", "Bow", "Chirp">>
<1> SUFFICES ASSUME r1.status \in {"RUNNING", "SUCCESS"}, r2.status # "RAISED",
                    r3.status # "RAISED", r4.status # "RAISED"
             PROVE  TickHigher("GraspShow", t, w) =
                      IF r1.status = "RUNNING" THEN Return(r4, "RUNNING")
                      ELSE Return(AbortVoice("Chirp", AbortMocap("Bow", AbortAmbient("Sway", r4))),
                                  "SUCCESS")
  OBVIOUS
<1>1. \A u : /\ TickAbove("Grasp", u, w) = GraspTick("Grasp", u)
             /\ TickAbove("Sway", u, w) = AmbientTick("Sway", u, w)
             /\ TickAbove("Bow", u, w) = MocapTick("Bow", u, w)
             /\ TickAbove("Chirp", u, w) = VoiceTick("Chirp", u)
  <2>1. \A u : /\ LeafTick("Grasp", u, w) = GraspTick("Grasp", u)
               /\ LeafTick("Sway", u, w) = AmbientTick("Sway", u, w)
               /\ LeafTick("Bow", u, w) = MocapTick("Bow", u, w)
               /\ LeafTick("Chirp", u, w) = VoiceTick("Chirp", u)
    BY RoutineNodes DEF LeafTick
  <2>2. \A u, n : n \in {"Grasp", "Sway", "Bow", "Chirp"} => TickAbove(n, u, w) = LeafTick(n, u, w)
    BY RoutineNodes, LeavesAre
  <2> QED BY <2>1, <2>2
<1>2. \A u : /\ Abort("Sway", u) = AbortAmbient("Sway", u)
             /\ Abort("Bow", u) = AbortMocap("Bow", u)
             /\ Abort("Chirp", u) = AbortVoice("Chirp", u)
  BY RoutineNodes, LeavesAre DEF AbortSelf
<1>3. TickHigher("GraspShow", t, w) = ParallelTick(TickAbove, "GraspShow", t, w)
  BY RoutineNodes DEF TickHigher, TickNode
<1>4. Kids("GraspShow") = kids /\ Len(kids) = 4
  BY RoutineNodes
<1>5. r1 = TickAbove(kids[1], t, w)
  BY <1>1
<1> HIDE DEF r1
<1>6. r2 = TickNext(TickAbove, kids, 2, r1, w)
  BY <1>1 DEF TickNext
<1> HIDE DEF r2
<1>7. r3 = TickNext(TickAbove, kids, 3, r2, w)
  BY <1>1 DEF TickNext
<1> HIDE DEF r3
<1>8. r4 = TickNext(TickAbove, kids, 4, r3, w)
  BY <1>1 DEF TickNext
<1> HIDE DEF r4
<1>9. TickHigher("GraspShow", t, w) = ParallelEnd("GraspShow", r1.status, r4)
  BY <1>3, <1>4, <1>5, <1>6, <1>7, <1>8 DEF ParallelTick
<1>10. CASE r1.status = "RUNNING"
  BY <1>9, <1>10 DEF ParallelEnd
<1>11. CASE r1.status = "SUCCESS"
  <2> DEFINE rest == Tail(Kids("GraspShow"))
  <2>1. Len(rest) = 3 /\ rest[1] = "Sway" /\ rest[2] = "Bow" /\ rest[3] = "Chirp"
    BY <1>4
  <2>2. TickHigher("GraspShow", t, w) = Return(AbortAll(Abort, rest, r4), "SUCCESS")
    BY <1>9, <1>11 DEF ParallelEnd
  <2> HIDE DEF rest
  <2>3. AbortAll(Abort, rest, r4) = AbortVoice("Chirp", AbortMocap("Bow", AbortAmbient("Sway", r4)))
    BY <1>2, <2>1 DEF AbortAll, AbortNext
  <2> QED BY <1>11, <2>2, <2>3
<1> QED BY <1>10, <1>11

\* Only the status changes.
LEMMA ReturnIs ==
  ASSUME NEW t \in TreeStates, NEW s \in Statuses
  PROVE  LET r == Return(t, s)
         IN  /\ r \in TreeStates /\ r.at = t.at /\ r.steps = t.steps /\ r.failures = t.failures
             /\ r.velocity = t.velocity /\ r.head = t.head /\ r.clip = t.clip /\ r.did = t.did
             /\ r.status = s
BY DEF Return, TreeStates

\* A tick of the show: it ends with the grasp and is then idle again.
LEMMA ShowTick ==
  ASSUME NEW t, NEW w, RoutineCore(t), t.at["Avoid"] = 0, ShowIdle(t) \/ ShowPlays(t)
  PROVE  LET r == TickHigher("GraspShow", t, w)
         IN  /\ RoutineCore(r) /\ r.at["Routine"] = t.at["Routine"] /\ r.at["Avoid"] = 0
             /\ \/ r.status = "RUNNING" /\ ShowPlays(r) /\ (~Calm(w) => r.head = "zero")
                \/ r.status = "SUCCESS" /\ ShowIdle(r)
             /\ t.did = {} => Performed(t, r)
<1> DEFINE r1 == GraspTick("Grasp", t)
           r2 == AmbientTick("Sway", r1, w)
           r3 == MocapTick("Bow", r2, w)
           r4 == VoiceTick("Chirp", r3)
           r == TickHigher("GraspShow", t, w)
<1>n. {"Routine", "Avoid", "Grasp", "Sway", "Bow", "Chirp"} \subseteq Nodes
  BY NodesAre
<1>s. {"RUNNING", "SUCCESS"} \subseteq Statuses
  BY DEF Statuses
<1>1. /\ Kept(t, r1, "Grasp")
      /\ r1.velocity = t.velocity /\ r1.head = t.head /\ r1.clip = t.clip /\ r1.did = t.did
      /\ \/ r1.status = "SUCCESS" /\ r1.at["Grasp"] = 0 /\ r1.steps["Grasp"] = 0
         \/ r1.status = "RUNNING" /\ r1.at["Grasp"] \in 1 .. 3
  BY GraspIs DEF RoutineCore
<1>o. (/\ r1.status \in {"RUNNING", "SUCCESS"} /\ r2.status # "RAISED"
       /\ r3.status # "RAISED" /\ r4.status # "RAISED")
        => r = IF r1.status = "RUNNING" THEN Return(r4, "RUNNING")
               ELSE Return(AbortVoice("Chirp", AbortMocap("Bow", AbortAmbient("Sway", r4))),
                           "SUCCESS")
  BY ShowOrder
<1> HIDE DEF r, r1
<1>2. /\ Kept(r1, r2, "Sway") /\ r2.at["Sway"] = r1.at["Sway"]
      /\ r2.velocity = r1.velocity /\ r2.clip = r1.clip /\ r2.did = r1.did
      /\ r2.status = "RUNNING" /\ (~Calm(w) => r2.head = "zero")
  BY <1>n, <1>1, AmbientIs DEF Kept
<1> HIDE DEF r2
<1>b. r2 \in TreeStates /\ BowFits(r2)
  BY <1>n, <1>1, <1>2 DEF Kept, RoutineCore, BowFits
<1>3. /\ Kept(r2, r3, "Bow") /\ BowFits(r3)
      /\ r3.velocity = r2.velocity /\ r3.head = r2.head /\ r3.did = r2.did
      /\ r3.status \in {"RUNNING", "SUCCESS"}
      /\ \/ r2.at["Bow"] = 0 /\ r2.steps["Bow"] \in 1 .. 4
         \/ r3.clip - r2.clip \in -2 .. 2
  BY <1>b, BowIs
<1> HIDE DEF r3
<1>c. r3 \in TreeStates /\ r3.at["Chirp"] = t.at["Chirp"] /\ r3.at["Chirp"] \in 0 .. 1
  BY <1>n, <1>1, <1>2, <1>3 DEF Kept, RoutineCore
<1>4. /\ Kept(r3, r4, "Chirp") /\ r4.at["Chirp"] = 1 /\ r4.steps["Chirp"] = r3.steps["Chirp"]
      /\ r4.velocity = r3.velocity /\ r4.head = r3.head /\ r4.clip = r3.clip
      /\ r4.status = "SUCCESS"
      /\ r4.did = r3.did \/ (r3.at["Chirp"] = 0 /\ r4.did = r3.did \union {"chirp"})
  BY <1>c, ChirpIs
<1> HIDE DEF r4
<1>5. r = IF r1.status = "RUNNING" THEN Return(r4, "RUNNING")
          ELSE Return(AbortVoice("Chirp", AbortMocap("Bow", AbortAmbient("Sway", r4))), "SUCCESS")
  BY <1>o, <1>1, <1>2, <1>3, <1>4
<1>6. /\ r4 \in TreeStates /\ BowFits(r4)
      /\ \A n \in Nodes \ {"Grasp", "Sway", "Bow", "Chirp"} :
           r4.at[n] = t.at[n] /\ r4.steps[n] = t.steps[n]
      /\ r4.at["Sway"] = 0 /\ r4.steps["Chirp"] = 0 /\ r4.at["Chirp"] = 1
      /\ r4.at["Grasp"] = r1.at["Grasp"] /\ r4.steps["Grasp"] = r1.steps["Grasp"]
      /\ r4.velocity = t.velocity /\ (~Calm(w) => r4.head = "zero")
      /\ r4.did \subseteq {"chirp"}
      /\ "chirp" \in r4.did => "chirp" \in t.did \/ t.at["Grasp"] = 0
      /\ \/ t.at["Bow"] = 0 /\ t.steps["Bow"] \in 1 .. 4
         \/ r4.clip - t.clip \in -2 .. 2
  <2>1. /\ r4 \in TreeStates
        /\ \A n \in Nodes \ {"Grasp", "Sway", "Bow", "Chirp"} :
             r4.at[n] = t.at[n] /\ r4.steps[n] = t.steps[n]
        /\ r4.at["Sway"] = 0 /\ r4.steps["Chirp"] = 0 /\ r4.at["Chirp"] = 1
        /\ r4.at["Grasp"] = r1.at["Grasp"] /\ r4.steps["Grasp"] = r1.steps["Grasp"]
    BY <1>n, <1>1, <1>2, <1>3, <1>4 DEF Kept, RoutineCore
  <2>2. BowFits(r4)
    BY <1>n, <1>3, <1>4 DEF Kept, BowFits
  <2>3. r4.velocity = t.velocity /\ (~Calm(w) => r4.head = "zero")
    BY <1>1, <1>2, <1>3, <1>4
  <2>4. /\ r4.did \subseteq {"chirp"}
        /\ "chirp" \in r4.did => "chirp" \in t.did \/ t.at["Grasp"] = 0
    <3>1. t.did \subseteq {"chirp"} /\ r3.did = t.did
      BY <1>1, <1>2, <1>3 DEF RoutineCore
    <3>2. t.at["Chirp"] = 0 => t.at["Grasp"] = 0
      BY DEF ShowIdle, ShowPlays
    <3> QED BY <1>c, <1>4, <3>1, <3>2
  <2>5. \/ t.at["Bow"] = 0 /\ t.steps["Bow"] \in 1 .. 4
        \/ r4.clip - t.clip \in -2 .. 2
    <3>1. r2.at["Bow"] = t.at["Bow"] /\ r2.steps["Bow"] = t.steps["Bow"] /\ r2.clip = t.clip
      BY <1>n, <1>1, <1>2 DEF Kept
    <3> QED BY <1>3, <1>4, <3>1
  <2> QED BY <2>1, <2>2, <2>3, <2>4, <2>5
<1>7. CASE r1.status = "RUNNING"
  <2>1. /\ r \in TreeStates /\ r.at = r4.at /\ r.steps = r4.steps
        /\ r.velocity = r4.velocity /\ r.head = r4.head /\ r.clip = r4.clip /\ r.did = r4.did
        /\ r.status = "RUNNING"
    BY <1>s, <1>5, <1>6, <1>7, ReturnIs
  <2>2. RoutineCore(r)
    <3>1. BowFits(r)
      BY <1>6, <2>1 DEF BowFits
    <3> QED BY <1>n, <1>1, <1>6, <1>7, <2>1, <3>1 DEF RoutineCore
  <2>3. ShowPlays(r) /\ (~Calm(w) => r.head = "zero")
    BY <1>1, <1>6, <1>7, <2>1 DEF ShowPlays
  <2>4. t.did = {} => Performed(t, r)
    BY <1>6, <2>1 DEF Performed
  <2>5. r.at["Routine"] = t.at["Routine"] /\ r.at["Avoid"] = 0
    BY <1>n, <1>6, <2>1
  <2> QED BY <2>1, <2>2, <2>3, <2>4, <2>5 DEF r
<1>8. CASE r1.status = "SUCCESS"
  <2> DEFINE u1 == AbortAmbient("Sway", r4)
             u2 == AbortMocap("Bow", u1)
             u3 == AbortVoice("Chirp", u2)
  <2>0. r = Return(u3, "SUCCESS")
    BY <1>5, <1>8
  <2>1. /\ Kept(r4, u1, "Sway") /\ u1.at["Sway"] = r4.at["Sway"] /\ u1.steps["Sway"] = 0
        /\ u1.velocity = r4.velocity /\ u1.head = "zero" /\ u1.clip = r4.clip /\ u1.did = r4.did
    BY <1>n, <1>6, AbortsAre
  <2> HIDE DEF u1
  <2>2. /\ Kept(u1, u2, "Bow") /\ u2.at["Bow"] = 0 /\ u2.steps["Bow"] = u1.steps["Bow"]
        /\ u2.velocity = u1.velocity /\ u2.head = u1.head /\ u2.clip = u1.clip /\ u2.did = u1.did
    <3>1. u1 \in TreeStates /\ "Bow" \in Nodes
      BY <1>n, <2>1 DEF Kept
    <3> QED BY <3>1, AbortsAre, ZenonT(30)
  <2> HIDE DEF u2
  <2>3. /\ Kept(u2, u3, "Chirp") /\ u3.at["Chirp"] = 0 /\ u3.steps["Chirp"] = u2.steps["Chirp"]
        /\ u3.velocity = u2.velocity /\ u3.head = u2.head /\ u3.clip = u2.clip /\ u3.did = u2.did
    BY <1>n, <2>2, AbortsAre DEF Kept
  <2> HIDE DEF u3
  <2>4. /\ u3 \in TreeStates
        /\ \A n \in Nodes \ {"Sway", "Bow", "Chirp"} :
             u3.at[n] = r4.at[n] /\ u3.steps[n] = r4.steps[n]
        /\ u3.at["Sway"] = 0 /\ u3.steps["Sway"] = 0
        /\ u3.at["Bow"] = 0 /\ u3.steps["Bow"] = r4.steps["Bow"]
        /\ u3.at["Chirp"] = 0 /\ u3.steps["Chirp"] = 0
        /\ u3.velocity = r4.velocity /\ u3.head = "zero" /\ u3.clip = r4.clip /\ u3.did = r4.did
    BY <1>n, <1>6, <2>1, <2>2, <2>3 DEF Kept
  <2>5. /\ r \in TreeStates /\ r.at = u3.at /\ r.steps = u3.steps
        /\ r.velocity = u3.velocity /\ r.head = u3.head /\ r.clip = u3.clip /\ r.did = u3.did
        /\ r.status = "SUCCESS"
    BY <1>s, <2>0, <2>4, ReturnIs
  <2>6. BowFits(r)
    <3>1. r.at["Bow"] = 0 /\ r.steps["Bow"] = r4.steps["Bow"] /\ r.clip = r4.clip
      BY <2>4, <2>5
    <3>2. r4.at["Bow"] = 1 => r4.steps["Bow"] \in 1 .. 4
      BY <1>6 DEF BowFits
    <3>3. /\ r4.at["Bow"] \in 0 .. 1 /\ r4.steps["Bow"] \in 0 .. 5
          /\ r4.at["Bow"] = 0 /\ r4.steps["Bow"] = 0 => r4.clip = 0
          /\ r4.at["Bow"] = 0 /\ r4.steps["Bow"] = 5 => r4.clip = 2
      BY <1>6 DEF BowFits
    <3>4. r.steps["Bow"] \in {0, 5} => r4.at["Bow"] = 0
      BY <3>1, <3>2, <3>3
    <3> QED BY <3>1, <3>3, <3>4 DEF BowFits
  <2>7. RoutineCore(r)
    BY <1>n, <1>1, <1>6, <1>8, <2>4, <2>5, <2>6 DEF RoutineCore
  <2>8. ShowIdle(r)
    BY <1>n, <1>1, <1>6, <1>8, <2>4, <2>5 DEF ShowIdle
  <2>9. t.did = {} => Performed(t, r)
    BY <1>6, <2>4, <2>5 DEF Performed
  <2>10. r.at["Routine"] = t.at["Routine"] /\ r.at["Avoid"] = 0
    BY <1>n, <1>6, <2>4, <2>5
  <2> QED BY <2>5, <2>7, <2>8, <2>9, <2>10 DEF r
<1> QED BY <1>1, <1>7, <1>8

\* The routine between two ticks: it avoids an obstacle, or it shows.
RoutineInv(t) ==
  /\ RoutineCore(t) /\ t.status \in {"RUNNING", "SUCCESS"}
  /\ \/ t.at["Routine"] = 0 /\ ShowIdle(t)
     \/ t.at["Routine"] = 1 /\ t.at["Avoid"] = 0 /\ ShowPlays(t)
  /\ t.status = "SUCCESS" => t.at["Routine"] = 0 /\ t.at["Avoid"] = 0

\* And between two rounds of a tick that began in state s
RoutineRound(s, t, w) ==
  /\ RoutineCore(t) /\ t.status \in {"RUNNING", "SUCCESS"} /\ t.at["Routine"] \in 0 .. 2
  /\ t.at["Routine"] = 0 => ShowIdle(t)
  /\ t.at["Routine"] = 1 => ShowPlays(t) \/ (t.status = "SUCCESS" /\ ShowIdle(t))
  /\ t.at["Routine"] = 2 => t.status = "SUCCESS" /\ ShowIdle(t)
  /\ t.at["Routine"] # 0 => t.at["Avoid"] = 0
  /\ (t.status = "RUNNING" /\ ~Calm(w)) => t.head = "zero"
  /\ (t.at["Routine"] # 2 /\ t.status = "SUCCESS") =>
       /\ t.at["Grasp"] = s.at["Grasp"] /\ t.at["Bow"] = s.at["Bow"]
       /\ t.steps["Bow"] = s.steps["Bow"] /\ t.clip = s.clip /\ t.did = {}
  /\ Performed(s, t)

\* A round of the routine
LEMMA RoutineAdvance ==
  ASSUME NEW s, NEW t, NEW w, RoutineRound(s, t, w)
  PROVE  LET r == Advance(TickHigher, "Routine", "SUCCESS", t, w)
         IN  /\ RoutineRound(s, r, w)
             /\ \/ r.status = "RUNNING" \/ r.at["Routine"] = 2
                \/ t.status = "SUCCESS" /\ r.at["Routine"] = t.at["Routine"] + 1
<1> DEFINE r == Advance(TickHigher, "Routine", "SUCCESS", t, w)
<1>n. {"Routine", "Avoid", "Grasp", "Sway", "Bow", "Chirp"} \subseteq Nodes
  BY NodesAre
<1>k. /\ Kids("Routine") = <<"Avoid", "GraspShow">> /\ Len(Kids("Routine")) = 2
      /\ Kids("Routine")[1] = "Avoid" /\ Kids("Routine")[2] = "GraspShow"
  BY RoutineNodes
<1>t. t \in TreeStates /\ t.clip \in Nat
  BY TreeFields DEF RoutineRound, RoutineCore
<1>1. CASE t.status # "SUCCESS" \/ t.at["Routine"] = 2
  <2>1. r = t
    BY <1>1, <1>k DEF Advance
  <2>2. t.status = "RUNNING" \/ t.at["Routine"] = 2
    BY <1>1 DEF RoutineRound
  <2> QED BY <2>1, <2>2
<1>2. CASE t.status = "SUCCESS" /\ t.at["Routine"] = 0
  <2> DEFINE c == AvoidTick("Avoid", t, w)
  <2>1. r = GoOn("Routine", "SUCCESS", c)
    <3>1. TickHigher("Avoid", t, w) = c
      BY RoutineNodes, LeavesAre DEF LeafTick
    <3>2. r = GoOn("Routine", "SUCCESS", TickHigher("Avoid", t, w))
      BY <1>k, <1>2 DEF Advance
    <3> QED BY <3>1, <3>2
  <2>2. /\ Kept(t, c, "Avoid")
        /\ c.head = t.head /\ c.clip = t.clip /\ c.did = t.did
        /\ \/ /\ c.status = "SUCCESS" /\ c.at["Avoid"] = 0 /\ c.steps["Avoid"] = 0
              /\ c.velocity = "zero"
           \/ c.status = "RUNNING" /\ c.at["Avoid"] \in 1 .. 3
    BY <1>t, AvoidIs DEF RoutineRound, RoutineCore
  <2> HIDE DEF c, r
  <2>3. c \in TreeStates /\ c.at["Routine"] = 0
    BY <1>n, <1>2, <2>2 DEF Kept
  <2>4. /\ Kept(c, r, "Routine") /\ r.steps["Routine"] = c.steps["Routine"]
        /\ r.velocity = c.velocity /\ r.head = c.head /\ r.clip = c.clip /\ r.did = c.did
        /\ r.status = c.status
        /\ c.status = "RUNNING" => r.at["Routine"] = 0
        /\ c.status = "SUCCESS" => r.at["Routine"] = 1
    BY <1>n, <2>1, <2>3, TurnIs
  <2>5. BowFits(r)
    BY <1>n, <2>2, <2>4 DEF Kept, BowFits, RoutineRound, RoutineCore
  <2>6. RoutineCore(r)
    BY <1>n, <2>2, <2>4, <2>5 DEF Kept, RoutineRound, RoutineCore
  <2>7. ShowIdle(r)
    BY <1>n, <1>2, <2>2, <2>4 DEF Kept, RoutineRound, ShowIdle
  <2>8. Performed(s, r)
    BY <1>2, <2>2, <2>4 DEF Performed, RoutineRound
  <2>9. /\ r.at["Grasp"] = s.at["Grasp"] /\ r.at["Bow"] = s.at["Bow"]
        /\ r.steps["Bow"] = s.steps["Bow"] /\ r.clip = s.clip /\ r.did = {}
    BY <1>n, <1>2, <2>2, <2>4 DEF Kept, RoutineRound
  <2>10. r.head = "zero"
    BY <2>7 DEF ShowIdle
  <2>11. r.at["Routine"] # 0 => r.at["Avoid"] = 0
    BY <1>n, <2>2, <2>4 DEF Kept
  <2>12. RoutineRound(s, r, w)
    BY <2>2, <2>4, <2>6, <2>7, <2>8, <2>9, <2>10, <2>11 DEF RoutineRound
  <2>13. r.status = "RUNNING" \/ r.at["Routine"] = t.at["Routine"] + 1
    BY <1>2, <2>2, <2>4
  <2> QED BY <1>2, <2>12, <2>13 DEF r
<1>3. CASE t.status = "SUCCESS" /\ t.at["Routine"] = 1
  <2> DEFINE c == TickHigher("GraspShow", t, w)
  <2>1. r = GoOn("Routine", "SUCCESS", c)
    BY <1>k, <1>3 DEF Advance
  <2>2. /\ RoutineCore(c) /\ c.at["Routine"] = t.at["Routine"] /\ c.at["Avoid"] = 0
        /\ \/ c.status = "RUNNING" /\ ShowPlays(c) /\ (~Calm(w) => c.head = "zero")
           \/ c.status = "SUCCESS" /\ ShowIdle(c)
        /\ Performed(t, c)
    <3>1. RoutineCore(t) /\ t.at["Avoid"] = 0 /\ (ShowIdle(t) \/ ShowPlays(t)) /\ t.did = {}
      BY <1>3 DEF RoutineRound
    <3> QED BY <3>1, ShowTick
  <2> HIDE DEF c, r
  <2>3. c \in TreeStates /\ c.at["Routine"] = 1
    BY <1>3, <2>2 DEF RoutineCore
  <2>4. /\ Kept(c, r, "Routine") /\ r.steps["Routine"] = c.steps["Routine"]
        /\ r.velocity = c.velocity /\ r.head = c.head /\ r.clip = c.clip /\ r.did = c.did
        /\ r.status = c.status
        /\ c.status = "RUNNING" => r.at["Routine"] = 1
        /\ c.status = "SUCCESS" => r.at["Routine"] = 2
    BY <1>n, <2>1, <2>3, TurnIs
  <2>5. BowFits(r)
    BY <1>n, <2>2, <2>4 DEF Kept, BowFits, RoutineCore
  <2>6. RoutineCore(r)
    BY <1>n, <2>2, <2>4, <2>5 DEF Kept, RoutineCore
  <2>7. (ShowIdle(c) => ShowIdle(r)) /\ (ShowPlays(c) => ShowPlays(r)) /\ r.at["Avoid"] = 0
    BY <1>n, <2>2, <2>4 DEF Kept, ShowIdle, ShowPlays
  <2>8. Performed(s, r)
    <3>1. /\ t.at["Grasp"] = s.at["Grasp"] /\ t.at["Bow"] = s.at["Bow"]
          /\ t.steps["Bow"] = s.steps["Bow"] /\ t.clip = s.clip
      BY <1>3 DEF RoutineRound
    <3> QED BY <2>2, <2>4, <3>1 DEF Performed
  <2>9. RoutineRound(s, r, w)
    BY <2>2, <2>4, <2>6, <2>7, <2>8 DEF RoutineRound
  <2>10. r.status = "RUNNING" \/ r.at["Routine"] = 2
    BY <2>2, <2>4
  <2> QED BY <2>9, <2>10 DEF r
<1> QED BY <1>1, <1>2, <1>3 DEF RoutineRound

\* The first three assignments of a tick, and the last one of a control node
LEMMA TickStart ==
  ASSUME NEW t \in TreeStates
  PROVE  LET r == Return([t EXCEPT !.did = {}], "SUCCESS")
         IN  /\ r \in TreeStates /\ r.at = t.at /\ r.steps = t.steps /\ r.failures = t.failures
             /\ r.velocity = t.velocity /\ r.head = t.head /\ r.clip = t.clip /\ r.did = {}
             /\ r.status = "SUCCESS"
BY DEF Return, TreeStates, Statuses

\* A control node is set back to its first child.
LEMMA Rewound ==
  ASSUME NEW t \in TreeStates, NEW n \in Nodes
  PROVE  LET r == [t EXCEPT !.at[n] = 0]
         IN  /\ Kept(t, r, n) /\ r.at[n] = 0 /\ r.steps[n] = t.steps[n]
             /\ r.velocity = t.velocity /\ r.head = t.head /\ r.clip = t.clip /\ r.did = t.did
             /\ r.status = t.status
BY DEF Kept, TreeStates

\* A tick of the routine
LEMMA RoutineRuns ==
  ASSUME NEW t, NEW w, RoutineInv(t)
  PROVE  LET r == TickRoot("Routine", t, w)
         IN  RoutineInv(r) /\ Performed(t, r) /\ (~Calm(w) => r.head = "zero")
<1> DEFINE t0 == Return([t EXCEPT !.did = {}], "SUCCESS")
           r1 == Advance(TickHigher, "Routine", "SUCCESS", t0, w)
           r2 == Advance(TickHigher, "Routine", "SUCCESS", r1, w)
           r3 == Advance(TickHigher, "Routine", "SUCCESS", r2, w)
           r4 == Advance(TickHigher, "Routine", "SUCCESS", r3, w)
           r == TickRoot("Routine", t, w)
<1>n. {"Routine", "Avoid", "Grasp", "Sway", "Bow", "Chirp"} \subseteq Nodes
  BY NodesAre
<1>1. r = IF r4.status = "SUCCESS" THEN [r4 EXCEPT !.at["Routine"] = 0] ELSE r4
  BY RoutineNodes DEF TickRoot, Tick, TickNode, CompositeTick
<1>2. RoutineRound(t, t0, w) /\ t0.at["Routine"] \in 0 .. 1 /\ t0.status = "SUCCESS"
  <2>1. /\ t0 \in TreeStates /\ t0.at = t.at /\ t0.steps = t.steps /\ t0.failures = t.failures
        /\ t0.velocity = t.velocity /\ t0.head = t.head /\ t0.clip = t.clip /\ t0.did = {}
        /\ t0.status = "SUCCESS"
    BY TickStart DEF RoutineInv, RoutineCore
  <2> HIDE DEF t0
  <2>2. BowFits(t0) /\ t.clip \in Nat
    BY <2>1, TreeFields DEF RoutineInv, RoutineCore, BowFits
  <2>3. RoutineCore(t0)
    BY <2>1, <2>2 DEF RoutineInv, RoutineCore
  <2>4. (ShowIdle(t) => ShowIdle(t0)) /\ (ShowPlays(t) => ShowPlays(t0))
    BY <2>1 DEF ShowIdle, ShowPlays
  <2>5. Performed(t, t0)
    BY <2>1, <2>2 DEF Performed
  <2> QED BY <2>1, <2>3, <2>4, <2>5 DEF RoutineInv, RoutineRound
<1> HIDE DEF t0
<1>3. RoutineRound(t, r1, w) /\ (r1.status = "RUNNING" \/ r1.at["Routine"] >= 1)
  <2>1. /\ RoutineRound(t, r1, w)
        /\ \/ r1.status = "RUNNING" \/ r1.at["Routine"] = 2
           \/ t0.status = "SUCCESS" /\ r1.at["Routine"] = t0.at["Routine"] + 1
    BY <1>2, RoutineAdvance
  <2> HIDE DEF r1
  <2> QED BY <1>2, <2>1 DEF RoutineRound
<1> HIDE DEF r1
<1>4. RoutineRound(t, r2, w) /\ (r2.status = "RUNNING" \/ r2.at["Routine"] = 2)
  <2>1. /\ RoutineRound(t, r2, w)
        /\ \/ r2.status = "RUNNING" \/ r2.at["Routine"] = 2
           \/ r1.status = "SUCCESS" /\ r2.at["Routine"] = r1.at["Routine"] + 1
    BY <1>3, RoutineAdvance
  <2> HIDE DEF r2
  <2> QED BY <1>3, <2>1 DEF RoutineRound
<1> HIDE DEF r2
<1>5. RoutineRound(t, r3, w) /\ (r3.status = "RUNNING" \/ r3.at["Routine"] = 2)
  <2>1. /\ RoutineRound(t, r3, w)
        /\ \/ r3.status = "RUNNING" \/ r3.at["Routine"] = 2
           \/ r2.status = "SUCCESS" /\ r3.at["Routine"] = r2.at["Routine"] + 1
    BY <1>4, RoutineAdvance
  <2> HIDE DEF r3
  <2> QED BY <1>4, <2>1 DEF RoutineRound
<1> HIDE DEF r3
<1>6. RoutineRound(t, r4, w) /\ (r4.status = "RUNNING" \/ r4.at["Routine"] = 2)
  <2>1. /\ RoutineRound(t, r4, w)
        /\ \/ r4.status = "RUNNING" \/ r4.at["Routine"] = 2
           \/ r3.status = "SUCCESS" /\ r4.at["Routine"] = r3.at["Routine"] + 1
    BY <1>5, RoutineAdvance
  <2> HIDE DEF r4
  <2> QED BY <1>5, <2>1 DEF RoutineRound
<1> HIDE DEF r4, r
<1>7. CASE r4.status = "RUNNING"
  <2>1. r = r4
    BY <1>1, <1>7
  <2>2. RoutineInv(r)
    BY <1>6, <1>7, <2>1 DEF RoutineRound, RoutineInv
  <2> QED BY <1>6, <1>7, <2>1, <2>2 DEF RoutineRound, r
<1>8. CASE r4.status = "SUCCESS"
  <2>1. r = [r4 EXCEPT !.at["Routine"] = 0]
    BY <1>1, <1>8
  <2>2. r4 \in TreeStates /\ RoutineCore(r4) /\ ShowIdle(r4) /\ Performed(t, r4)
        /\ r4.at["Avoid"] = 0
    BY <1>6, <1>8 DEF RoutineRound, RoutineCore
  <2>3. /\ Kept(r4, r, "Routine") /\ r.at["Routine"] = 0 /\ r.steps["Routine"] = r4.steps["Routine"]
        /\ r.velocity = r4.velocity /\ r.head = r4.head /\ r.clip = r4.clip /\ r.did = r4.did
        /\ r.status = r4.status
    BY <1>n, <2>1, <2>2, Rewound
  <2>4. BowFits(r)
    BY <1>n, <2>2, <2>3 DEF Kept, BowFits, RoutineCore
  <2>5. RoutineCore(r)
    BY <1>n, <2>2, <2>3, <2>4 DEF Kept, RoutineCore
  <2>6. ShowIdle(r) /\ r.at["Avoid"] = 0
    BY <1>n, <2>2, <2>3 DEF Kept, ShowIdle
  <2>7. RoutineInv(r)
    BY <1>8, <2>3, <2>5, <2>6 DEF RoutineInv
  <2>8. Performed(t, r) /\ r.head = "zero"
    BY <2>2, <2>3, <2>6 DEF Performed, ShowIdle
  <2> QED BY <2>7, <2>8 DEF r
<1> QED BY <1>6, <1>7, <1>8 DEF RoutineRound

\* Preempting the routine
LEMMA RoutineAborts ==
  ASSUME NEW t, RoutineInv(t)
  PROVE  LET r == Abort("Routine", [t EXCEPT !.did = {}])
         IN  /\ RoutineInv(r) /\ Performed(t, r)
             /\ r.at["Routine"] = 0 /\ r.at["Avoid"] = 0 /\ r.head = "zero" /\ r.did = {}
<1> DEFINE t0 == [t EXCEPT !.did = {}]
           r == Abort("Routine", t0)
<1>n. {"Routine", "Avoid", "Grasp", "Sway", "Bow", "Chirp"} \subseteq Nodes
  BY NodesAre
<1>1. /\ t0 \in TreeStates /\ t0.at = t.at /\ t0.steps = t.steps
      /\ t0.velocity = t.velocity /\ t0.head = t.head /\ t0.clip = t.clip /\ t0.did = {}
      /\ t0.status = t.status
  BY DEF RoutineInv, RoutineCore, TreeStates
<1> HIDE DEF t0
<1>b. BowFits(t0) /\ t.clip \in Nat
  BY <1>1, TreeFields DEF RoutineInv, RoutineCore, BowFits
<1>c. RoutineCore(t0)
  BY <1>1, <1>b DEF RoutineInv, RoutineCore
<1>2. r = AbortComposite("Routine", AbortAll(AbortHigher, AbortedKids("Routine", t0), t0))
  BY RoutineNodes DEF Abort, AbortNode, AbortSelf
<1>3. AbortedKids("Routine", t0) =
        SubSeq(<<"Avoid", "GraspShow">>, t0.at["Routine"] + 1, t0.at["Routine"] + 1)
  BY RoutineNodes DEF AbortedKids
<1>4. \E u : /\ r = AbortComposite("Routine", u) /\ RoutineCore(u) /\ u.at["Avoid"] = 0 /\ ShowIdle(u)
             /\ u.clip = t.clip /\ u.did = {} /\ u.status = t.status
  <2>1. CASE t.at["Routine"] = 0
    <3> DEFINE u == AbortAvoid("Avoid", t0)
    <3>1. r = AbortComposite("Routine", u)
      <4> DEFINE kids == AbortedKids("Routine", t0)
      <4>1. Len(kids) = 1 /\ kids[1] = "Avoid"
        BY <1>1, <1>3, <2>1
      <4>2. AbortHigher("Avoid", t0) = u
        BY RoutineNodes, LeavesAre DEF AbortSelf
      <4> HIDE DEF kids
      <4>3. AbortAll(AbortHigher, kids, t0) = AbortHigher("Avoid", t0)
        BY <4>1 DEF AbortAll, AbortNext
      <4> QED BY <1>2, <4>2, <4>3 DEF kids
    <3>2. /\ Kept(t0, u, "Avoid") /\ u.at["Avoid"] = 0 /\ u.steps["Avoid"] = 0 /\ u.velocity = "zero"
          /\ u.head = t0.head /\ u.clip = t0.clip /\ u.did = t0.did /\ u.status = t0.status
      BY <1>n, <1>1, AbortsAre
    <3> HIDE DEF u, r
    <3>3. BowFits(u)
      BY <1>n, <1>b, <3>2 DEF Kept, BowFits
    <3>4. RoutineCore(u)
      BY <1>n, <1>c, <3>2, <3>3 DEF Kept, RoutineCore
    <3>5. ShowIdle(u)
      <4>1. ShowIdle(t)
        BY <2>1 DEF RoutineInv
      <4> QED BY <1>n, <1>1, <3>2, <4>1 DEF Kept, ShowIdle
    <3> QED BY <1>1, <3>1, <3>2, <3>4, <3>5
  <2>2. CASE t.at["Routine"] = 1
    <3> DEFINE u0 == AbortGrasp("Grasp", t0)
               u1 == AbortAmbient("Sway", u0)
               u2 == AbortMocap("Bow", u1)
               u3 == AbortVoice("Chirp", u2)
    <3>1. r = AbortComposite("Routine", u3)
      <4> DEFINE kids == AbortedKids("Routine", t0)
      <4>1. Len(kids) = 1 /\ kids[1] = "GraspShow"
        BY <1>1, <1>3, <2>2
      <4>2. AbortHigher("GraspShow", t0) = u3
        <5>1. AbortedKids("GraspShow", t0) = <<"Grasp", "Sway", "Bow", "Chirp">>
          BY RoutineNodes DEF AbortedKids
        <5>2. AbortHigher("GraspShow", t0)
                = AbortAll(AbortAbove, <<"Grasp", "Sway", "Bow", "Chirp">>, t0)
          BY <5>1, RoutineNodes DEF AbortHigher, AbortNode, AbortSelf
        <5>3. \A x : /\ AbortAbove("Grasp", x) = AbortGrasp("Grasp", x)
                     /\ AbortAbove("Sway", x) = AbortAmbient("Sway", x)
                     /\ AbortAbove("Bow", x) = AbortMocap("Bow", x)
                     /\ AbortAbove("Chirp", x) = AbortVoice("Chirp", x)
          BY RoutineNodes, LeavesAre DEF AbortSelf
        <5> QED BY <5>2, <5>3 DEF AbortAll, AbortNext
      <4> HIDE DEF kids
      <4>3. AbortAll(AbortHigher, kids, t0) = AbortHigher("GraspShow", t0)
        BY <4>1 DEF AbortAll, AbortNext
      <4> QED BY <1>2, <4>2, <4>3 DEF kids
    <3> HIDE DEF r
    <3>2. /\ Kept(t0, u0, "Grasp") /\ u0.at["Grasp"] = 0 /\ u0.steps["Grasp"] = 0
          /\ u0.velocity = t0.velocity /\ u0.head = t0.head /\ u0.clip = t0.clip
          /\ u0.did = t0.did /\ u0.status = t0.status
      BY <1>n, <1>1, AbortsAre
    <3> HIDE DEF u0
    <3>3. /\ Kept(u0, u1, "Sway") /\ u1.at["Sway"] = u0.at["Sway"] /\ u1.steps["Sway"] = 0
          /\ u1.velocity = u0.velocity /\ u1.head = "zero" /\ u1.clip = u0.clip
          /\ u1.did = u0.did /\ u1.status = u0.status
      BY <1>n, <3>2, AbortsAre DEF Kept
    <3> HIDE DEF u1
    <3>4. /\ Kept(u1, u2, "Bow") /\ u2.at["Bow"] = 0 /\ u2.steps["Bow"] = u1.steps["Bow"]
          /\ u2.velocity = u1.velocity /\ u2.head = u1.head /\ u2.clip = u1.clip
          /\ u2.did = u1.did /\ u2.status = u1.status
      <4>1. u1 \in TreeStates /\ "Bow" \in Nodes
        BY <1>n, <3>3 DEF Kept
      <4> QED BY <4>1, AbortsAre, SMTT(30)
    <3> HIDE DEF u2
    <3>5. /\ Kept(u2, u3, "Chirp") /\ u3.at["Chirp"] = 0 /\ u3.steps["Chirp"] = u2.steps["Chirp"]
          /\ u3.velocity = u2.velocity /\ u3.head = u2.head /\ u3.clip = u2.clip
          /\ u3.did = u2.did /\ u3.status = u2.status
      BY <1>n, <3>4, AbortsAre DEF Kept
    <3> HIDE DEF u3
    <3>6. /\ u3 \in TreeStates
          /\ \A n \in Nodes \ {"Grasp", "Sway", "Bow", "Chirp"} :
               u3.at[n] = t0.at[n] /\ u3.steps[n] = t0.steps[n]
          /\ u3.at["Grasp"] = 0 /\ u3.steps["Grasp"] = 0
          /\ u3.at["Sway"] = t0.at["Sway"] /\ u3.steps["Sway"] = 0
          /\ u3.at["Bow"] = 0 /\ u3.steps["Bow"] = t0.steps["Bow"]
          /\ u3.at["Chirp"] = 0 /\ u3.steps["Chirp"] = t0.steps["Chirp"]
          /\ u3.velocity = t0.velocity /\ u3.head = "zero" /\ u3.clip = t0.clip
          /\ u3.did = t0.did /\ u3.status = t0.status
      BY <1>n, <3>2, <3>3, <3>4, <3>5 DEF Kept
    <3>7. BowFits(u3)
      <4>1. t0.at["Bow"] = 1 => t0.steps["Bow"] \in 1 .. 4
        BY <1>b DEF BowFits
      <4>2. /\ t0.at["Bow"] \in 0 .. 1 /\ t0.steps["Bow"] \in 0 .. 5
            /\ t0.at["Bow"] = 0 /\ t0.steps["Bow"] = 0 => t0.clip = 0
            /\ t0.at["Bow"] = 0 /\ t0.steps["Bow"] = 5 => t0.clip = 2
        BY <1>b DEF BowFits
      <4>3. t0.steps["Bow"] \in {0, 5} => t0.at["Bow"] = 0
        BY <4>1, <4>2
      <4> QED BY <3>6, <4>2, <4>3 DEF BowFits
    <3>8. RoutineCore(u3)
      BY <1>n, <1>c, <3>6, <3>7 DEF RoutineCore
    <3>9. ShowIdle(u3) /\ u3.at["Avoid"] = 0
      BY <1>n, <1>1, <2>2, <3>6 DEF ShowIdle, RoutineInv
    <3> QED BY <1>1, <3>1, <3>6, <3>8, <3>9
  <2> QED BY <2>1, <2>2 DEF RoutineInv
<1>5. PICK u : /\ r = AbortComposite("Routine", u) /\ RoutineCore(u) /\ u.at["Avoid"] = 0
               /\ ShowIdle(u) /\ u.clip = t.clip /\ u.did = {} /\ u.status = t.status
  BY <1>4
<1>6. /\ Kept(u, r, "Routine") /\ r.at["Routine"] = 0 /\ r.steps["Routine"] = u.steps["Routine"]
      /\ r.velocity = u.velocity /\ r.head = u.head /\ r.clip = u.clip /\ r.did = u.did
      /\ r.status = u.status
  <2> HIDE DEF r
  <2>1. u \in TreeStates
    BY <1>5 DEF RoutineCore
  <2>2. r = [u EXCEPT !.at["Routine"] = 0]
    BY <1>5 DEF AbortComposite
  <2> QED BY <1>n, <2>1, <2>2, Rewound
<1> HIDE DEF r
<1>7. BowFits(r)
  BY <1>n, <1>5, <1>6 DEF Kept, BowFits, RoutineCore
<1>8. RoutineCore(r)
  BY <1>n, <1>5, <1>6, <1>7 DEF Kept, RoutineCore
<1>9. ShowIdle(r) /\ r.at["Avoid"] = 0
  BY <1>n, <1>5, <1>6 DEF Kept, ShowIdle
<1>10. RoutineInv(r)
  BY <1>5, <1>6, <1>8, <1>9 DEF RoutineInv
<1>11. Performed(t, r)
  BY <1>b, <1>5, <1>6 DEF Performed
<1>12. r.head = "zero"
  BY <1>9 DEF ShowIdle
<1> QED BY <1>5, <1>6, <1>9, <1>10, <1>11, <1>12 DEF r, t0

-----------------------------------------------------------------------------
(* The tree of run_simulation.py *)

\* A tree that runs the fetch mission, whatever it is doing
DemoCore(t) ==
  /\ t \in TreeStates
  /\ \A n \in Nodes \ {"FetchMission", "SearchOrExpress"} : t.at[n] = 0
  /\ \A n \in Nodes \ {"HeadTilt", "HeadShake", "AmbientScan", "Celebrate"} : t.steps[n] = 0
  /\ t.velocity = "zero" /\ t.clip = 0
  /\ t.steps["HeadShake"] # 0 => t.failures = 3

\* The ball can be picked up in world w.
Pickable(w) == Get(w, "distance", 9900) <= 30 /\ Get(w, "ball_visible", FALSE)

\* What a tick in world w may have begun
Begun(t, w) == ("HAPPY_WIGGLE" \in t.did => Pickable(w)) /\ (~Calm(w) => t.did = {})

\* What a child leaves alone: the places of the sequence and of the selector,
\* the steps outside S, and the head
Apart(t, r, S) ==
  /\ DemoCore(r) /\ r.at = t.at
  /\ \A n \in Nodes \ S : r.steps[n] = t.steps[n]

\* The search looks at the flag of the dictionary.
LEMMA SearchIs ==
  ASSUME NEW t, NEW w, DemoCore(t)
  PROVE  LET r == SearchTick(t, w)
         IN  /\ t.steps["HeadShake"] = 0 => Apart(t, r, {})
             /\ r.head = t.head /\ r.did = t.did
             /\ r.status \in {"SUCCESS", "FAILURE"}
<1>t. t \in TreeStates
  BY DEF DemoCore
<1>1. CASE Get(w, "ball_visible", FALSE)
  <2> DEFINE r == [t EXCEPT !.failures = 0, !.status = "SUCCESS"]
  <2>1. SearchTick(t, w) = r
    BY <1>1 DEF SearchTick
  <2>2. /\ r \in TreeStates /\ r.at = t.at /\ r.steps = t.steps /\ r.failures = 0
        /\ r.velocity = t.velocity /\ r.head = t.head /\ r.clip = t.clip /\ r.did = t.did
        /\ r.status = "SUCCESS"
    <3>1. 0 \in 0 .. 3 /\ "SUCCESS" \in Statuses
      BY DEF Statuses
    <3>2. r \in TreeStates
      BY <1>t, <3>1 DEF TreeStates
    <3> QED BY <1>t, <3>2 DEF TreeStates
  <2> HIDE DEF r
  <2> QED BY <2>1, <2>2 DEF DemoCore, Apart
<1>2. CASE ~Get(w, "ball_visible", FALSE)
  <2> DEFINE r == Return(t, "FAILURE")
  <2>1. SearchTick(t, w) = r
    BY <1>2 DEF SearchTick
  <2>2. /\ r \in TreeStates /\ r.at = t.at /\ r.steps = t.steps /\ r.failures = t.failures
        /\ r.velocity = t.velocity /\ r.head = t.head /\ r.clip = t.clip /\ r.did = t.did
        /\ r.status = "FAILURE"
    BY <1>t, ReturnIs DEF Statuses
  <2> HIDE DEF r
  <2> QED BY <2>1, <2>2 DEF DemoCore, Apart
<1> QED BY <1>1, <1>2

\* The gestures that the mission makes
Gestures == {"HeadTilt", "HeadShake", "Celebrate"}

\* A gesture of the mission
LEMMA GestureIs ==
  ASSUME NEW t, NEW w, DemoCore(t), NEW n \in Gestures,
         n = "HeadShake" => t.failures = 3
  PROVE  LET r == ExpressionTick(n, t, w)
         IN  /\ Apart(t, r, {n}) /\ r.head = t.head
             /\ \/ r.status = "SUCCESS" /\ r.steps[n] = 0
                \/ r.status = "RUNNING" /\ r.steps[n] > 0
             /\ r.did = t.did \/ (Calm(w) /\ t.steps[n] = 0 /\ r.did = t.did \union {Trees[n].tag})
<1> DEFINE r == ExpressionTick(n, t, w)
<1>n. n \in Nodes /\ {"HeadTilt", "HeadShake", "Celebrate"} \subseteq Nodes
  BY NodesAre DEF Gestures
<1>1. Trees[n].ticks[1] \in Nat
  BY FetchNodes DEF Gestures
<1>2. /\ Kept(t, r, n) /\ r.at[n] = t.at[n]
      /\ r.velocity = t.velocity /\ r.head = t.head /\ r.clip = t.clip
      /\ \/ r.status = "SUCCESS" /\ r.steps[n] = 0
         \/ r.status = "RUNNING" /\ r.steps[n] > 0
      /\ \/ r.did = t.did
         \/ Calm(w) /\ t.steps[n] = 0 /\ r.did = t.did \union {Trees[n].tag}
  BY <1>n, <1>1, ExpressionIs DEF DemoCore
<1> HIDE DEF r
<1>3. r.at = t.at
  <2>1. r.at \in [Nodes -> 0 .. 4] /\ t.at \in [Nodes -> 0 .. 4]
    BY <1>2, TreeFields DEF Kept, DemoCore
  <2>2. \A m \in Nodes : r.at[m] = t.at[m]
    BY <1>2 DEF Kept
  <2> QED BY <2>1, <2>2
<1>4. DemoCore(r)
  BY <1>n, <1>2, <1>3 DEF Kept, DemoCore, Gestures
<1> QED BY <1>2, <1>3, <1>4 DEF Apart, Kept, r

\* The reaction to a failed search: every tick is counted.
LEMMA ReactionIs ==
  ASSUME NEW t, NEW w, DemoCore(t)
  PROVE  LET r == TickAbove("ExpressFailure", t, w)
         IN  /\ Apart(t, r, {"HeadTilt", "HeadShake"}) /\ r.head = t.head
             /\ \/ r.status = "SUCCESS" /\ r.steps["HeadShake"] = 0
                \/ r.status = "RUNNING"
             /\ r.did = t.did
                \/ (Calm(w) /\ r.did \subseteq t.did \union {"HEAD_TILT", "HEAD_SHAKE"})
<1> DEFINE u == CountFailure(t)
           g == Gesture("ExpressFailure", u)
           r == TickAbove("ExpressFailure", t, w)
<1>n. {"HeadTilt", "HeadShake"} \subseteq Nodes
  BY NodesAre
<1>1. r = LeafTick(g, u, w)
  BY FetchNodes DEF TickAbove, TickNode, FailureTick
<1>2. /\ u \in TreeStates /\ u.at = t.at /\ u.steps = t.steps
      /\ u.velocity = t.velocity /\ u.head = t.head /\ u.clip = t.clip /\ u.did = t.did
      /\ u.failures = IF t.failures < 3 THEN t.failures + 1 ELSE 3
  <2>1. t \in TreeStates /\ t.failures \in 0 .. 3
    BY TreeFields DEF DemoCore
  <2> DEFINE k == IF t.failures < 3 THEN t.failures + 1 ELSE 3
  <2>2. k \in 0 .. 3 /\ u = [t EXCEPT !.failures = k]
    BY <2>1 DEF CountFailure, TreeStates
  <2> HIDE DEF u, k
  <2>3. /\ u \in TreeStates /\ u.at = t.at /\ u.steps = t.steps
        /\ u.velocity = t.velocity /\ u.head = t.head /\ u.clip = t.clip /\ u.did = t.did
        /\ u.failures = k
    BY <2>1, <2>2 DEF TreeStates
  <2> QED BY <2>3 DEF k
<1> HIDE DEF u
<1>3. t.failures = 3 => u.failures = 3
  BY <1>2
<1>4. DemoCore(u)
  BY <1>2, <1>3 DEF DemoCore
<1>5. g = IF u.failures = 3 THEN "HeadShake" ELSE "HeadTilt"
  BY FetchNodes DEF Gesture
<1> HIDE DEF g, r
<1>6. LeafTick(g, u, w) = ExpressionTick(g, u, w) /\ Trees[g].tag \in {"HEAD_TILT", "HEAD_SHAKE"}
  BY <1>5, FetchNodes DEF LeafTick
<1>7. /\ Apart(u, r, {g}) /\ r.head = u.head
      /\ \/ r.status = "SUCCESS" /\ r.steps[g] = 0
         \/ r.status = "RUNNING" /\ r.steps[g] > 0
      /\ r.did = u.did \/ (Calm(w) /\ u.steps[g] = 0 /\ r.did = u.did \union {Trees[g].tag})
  <2>1. g \in Gestures /\ (g = "HeadShake" => u.failures = 3)
    BY <1>5 DEF Gestures
  <2>2. r = ExpressionTick(g, u, w)
    BY <1>1, <1>6
  <2> QED BY <1>4, <2>1, <2>2, GestureIs, SMTT(30)
<1>8. Apart(t, r, {"HeadTilt", "HeadShake"})
  BY <1>2, <1>5, <1>7 DEF Apart
<1>9. r.status = "SUCCESS" => r.steps["HeadShake"] = 0
  BY <1>n, <1>2, <1>4, <1>5, <1>7 DEF Apart, DemoCore
<1>10. r.did = t.did \/ (Calm(w) /\ r.did \subseteq t.did \union {"HEAD_TILT", "HEAD_SHAKE"})
  BY <1>2, <1>6, <1>7
<1> QED BY <1>2, <1>7, <1>8, <1>9, <1>10 DEF r

\* Walking and scanning: the scan ends with the walk.
LEMMA WalkScanIs ==
  ASSUME NEW t, NEW w, DemoCore(t)
  PROVE  LET r == TickHigher("WalkAndScan", t, w)
         IN  /\ Apart(t, r, {"AmbientScan"}) /\ r.did = t.did
             /\ \/ r.status = "RUNNING" /\ (~Calm(w) => r.head = "zero")
                \/ /\ r.status \in {"SUCCESS", "FAILURE"}
                   /\ r.steps["AmbientScan"] = 0 /\ r.head = "zero"
<1> DEFINE r1 == ApproachTick(t, w)
           r2 == AmbientTick("AmbientScan", r1, w)
           r == TickHigher("WalkAndScan", t, w)
           kids == <<"ApproachTarget", "AmbientScan">>
<1>n. {"ApproachTarget", "AmbientScan", "HeadShake"} \subseteq Nodes
  BY NodesAre
<1>s. {"RUNNING", "SUCCESS", "FAILURE"} \subseteq Statuses
  BY DEF Statuses
<1>1. \E s \in {"RUNNING", "SUCCESS", "FAILURE"} : r1 = Return(t, s)
  BY DEF ApproachTick
<1>2. PICK s \in {"RUNNING", "SUCCESS", "FAILURE"} : r1 = Return(t, s)
  BY <1>1
<1>4. /\ r1 \in TreeStates /\ r1.at = t.at /\ r1.steps = t.steps /\ r1.failures = t.failures
      /\ r1.velocity = t.velocity /\ r1.head = t.head /\ r1.clip = t.clip /\ r1.did = t.did
      /\ r1.status = s
  <2> HIDE DEF r1
  <2>1. t \in TreeStates /\ s \in Statuses
    BY <1>s DEF DemoCore
  <2> QED BY <1>2, <2>1, ReturnIs
<1>3. r = ParallelEnd("WalkAndScan", s, r2)
  <2>1. TickAbove("ApproachTarget", t, w) = r1
    <3> HIDE DEF r1
    <3>1. TickAbove("ApproachTarget", t, w) = LeafTick("ApproachTarget", t, w)
      BY FetchNodes, LeavesAre
    <3>2. LeafTick("ApproachTarget", t, w) = r1
      BY FetchNodes DEF LeafTick, r1
    <3> QED BY <3>1, <3>2
  <2>2. TickAbove("AmbientScan", r1, w) = r2
    <3> HIDE DEF r1
    <3>1. TickAbove("AmbientScan", r1, w) = LeafTick("AmbientScan", r1, w)
      BY FetchNodes, LeavesAre
    <3>2. LeafTick("AmbientScan", r1, w) = r2
      BY FetchNodes DEF LeafTick
    <3> QED BY <3>1, <3>2
  <2>3. r = ParallelTick(TickAbove, "WalkAndScan", t, w)
    BY FetchNodes DEF TickHigher, TickNode
  <2>4. Kids("WalkAndScan") = kids /\ Len(kids) = 2
    BY FetchNodes
  <2>5. r1.status = s
    BY <1>4
  <2> HIDE DEF r1, r2, r
  <2>6. TickNext(TickAbove, kids, 2, r1, w) = r2
    BY <2>2, <2>5 DEF TickNext
  <2>7. TickNext(TickAbove, kids, 3, r2, w) = r2 /\ TickNext(TickAbove, kids, 4, r2, w) = r2
    BY <2>4 DEF TickNext
  <2>8. TickAbove(kids[1], t, w) = r1
    BY <2>1
  <2> QED BY <2>3, <2>4, <2>5, <2>6, <2>7, <2>8 DEF ParallelTick
<1> HIDE DEF r1, r
<1>5. /\ Kept(r1, r2, "AmbientScan") /\ r2.at["AmbientScan"] = r1.at["AmbientScan"]
      /\ r2.velocity = r1.velocity /\ r2.clip = r1.clip /\ r2.did = r1.did
      /\ r2.status = "RUNNING" /\ (~Calm(w) => r2.head = "zero")
  BY <1>n, <1>4, AmbientIs
<1> HIDE DEF r2
<1>6. CASE s = "RUNNING"
  <2>1. r = Return(r2, "RUNNING")
    BY <1>3, <1>5, <1>6 DEF ParallelEnd
  <2>2. /\ r \in TreeStates /\ r.at = r2.at /\ r.steps = r2.steps /\ r.failures = r2.failures
        /\ r.velocity = r2.velocity /\ r.head = r2.head /\ r.clip = r2.clip /\ r.did = r2.did
        /\ r.status = "RUNNING"
    BY <1>s, <1>5, <2>1, ReturnIs DEF Kept
  <2>3. r.at = t.at
    <3>1. r.at \in [Nodes -> 0 .. 4] /\ t.at \in [Nodes -> 0 .. 4]
      BY <2>2, TreeFields DEF DemoCore
    <3>2. \A m \in Nodes : r.at[m] = t.at[m]
      BY <1>4, <1>5, <2>2 DEF Kept
    <3> QED BY <3>1, <3>2
  <2>4. Apart(t, r, {"AmbientScan"})
    BY <1>n, <1>4, <1>5, <2>2, <2>3 DEF Apart, DemoCore, Kept
  <2> QED BY <1>4, <1>5, <2>2, <2>4 DEF r
<1>7. CASE s \in {"SUCCESS", "FAILURE"}
  <2> DEFINE u == AbortAmbient("AmbientScan", r2)
             rest == Tail(Kids("WalkAndScan"))
  <2>1. r = Return(u, s)
    <3>1. Len(rest) = 1 /\ rest[1] = "AmbientScan"
      BY FetchNodes, SMTT(30)
    <3>2. r = Return(AbortAll(Abort, rest, r2), s)
      BY <1>3, <1>5, <1>7 DEF ParallelEnd
    <3>3. Abort("AmbientScan", r2) = u
      BY FetchNodes, LeavesAre DEF AbortSelf
    <3> HIDE DEF rest, u
    <3>4. AbortAll(Abort, rest, r2) = u
      BY <3>1, <3>3 DEF AbortAll, AbortNext
    <3> QED BY <3>2, <3>4
  <2>2. /\ Kept(r2, u, "AmbientScan") /\ u.at["AmbientScan"] = r2.at["AmbientScan"]
        /\ u.steps["AmbientScan"] = 0
        /\ u.velocity = r2.velocity /\ u.head = "zero" /\ u.clip = r2.clip /\ u.did = r2.did
    <3>1. r2 \in TreeStates /\ "AmbientScan" \in Nodes
      BY <1>n, <1>5 DEF Kept
    <3> QED BY <3>1, AbortsAre, SMTT(30)
  <2> HIDE DEF u
  <2>3. /\ r \in TreeStates /\ r.at = u.at /\ r.steps = u.steps /\ r.failures = u.failures
        /\ r.velocity = u.velocity /\ r.head = u.head /\ r.clip = u.clip /\ r.did = u.did
        /\ r.status = s
    BY <1>s, <2>1, <2>2, ReturnIs DEF Kept
  <2>4. r.at = t.at
    <3>1. r.at \in [Nodes -> 0 .. 4] /\ t.at \in [Nodes -> 0 .. 4]
      BY <2>3, TreeFields DEF DemoCore
    <3>2. \A m \in Nodes : r.at[m] = t.at[m]
      BY <1>4, <1>5, <2>2, <2>3 DEF Kept
    <3> QED BY <3>1, <3>2
  <2>5. Apart(t, r, {"AmbientScan"})
    BY <1>n, <1>4, <1>5, <2>2, <2>3, <2>4 DEF Apart, DemoCore, Kept
  <2> QED BY <1>4, <1>5, <1>7, <2>2, <2>3, <2>5 DEF r
<1> QED BY <1>2, <1>6, <1>7

\* Between two rounds of the selector, in a tick of it that began in state s
SearchRound(s, t, w) ==
  /\ DemoCore(t) /\ t.status \in {"RUNNING", "SUCCESS", "FAILURE"}
  /\ t.at["FetchMission"] = s.at["FetchMission"] /\ t.at["SearchOrExpress"] \in 0 .. 1
  /\ \A n \in Nodes \ {"HeadTilt", "HeadShake"} : t.steps[n] = s.steps[n]
  /\ t.head = s.head
  /\ t.at["SearchOrExpress"] = 0 => t.steps["HeadShake"] = 0
  /\ t.status = "SUCCESS" => t.at["SearchOrExpress"] = 0
  /\ t.status = "RUNNING" => t.at["SearchOrExpress"] = 1
  /\ t.did = s.did \/ (Calm(w) /\ t.did \subseteq s.did \union {"HEAD_TILT", "HEAD_SHAKE"})

\* A round of the selector
LEMMA SearchAdvance ==
  ASSUME NEW s, NEW t, NEW w, SearchRound(s, t, w)
  PROVE  LET r == Advance(TickAbove, "SearchOrExpress", "FAILURE", t, w)
         IN  /\ SearchRound(s, r, w)
             /\ \/ r.status # "FAILURE"
                \/ t.at["SearchOrExpress"] = 0 /\ r.at["SearchOrExpress"] = 1
<1> DEFINE r == Advance(TickAbove, "SearchOrExpress", "FAILURE", t, w)
<1>n. {"FetchMission", "SearchOrExpress", "HeadTilt", "HeadShake"} \subseteq Nodes
  BY NodesAre
<1>k. /\ Len(Kids("SearchOrExpress")) = 2
      /\ Kids("SearchOrExpress")[1] = "SearchBall" /\ Kids("SearchOrExpress")[2] = "ExpressFailure"
  BY FetchNodes
<1>1. CASE t.status # "FAILURE"
  <2>1. r = t
    BY <1>1 DEF Advance
  <2> QED BY <1>1, <2>1
<1>2. CASE t.status = "FAILURE" /\ t.at["SearchOrExpress"] = 0
  <2> DEFINE c == SearchTick(t, w)
  <2>1. r = GoOn("SearchOrExpress", "FAILURE", c)
    <3>1. TickAbove("SearchBall", t, w) = LeafTick("SearchBall", t, w)
      BY FetchNodes, LeavesAre
    <3>2. LeafTick("SearchBall", t, w) = c
      BY FetchNodes DEF LeafTick
    <3>3. r = GoOn("SearchOrExpress", "FAILURE", TickAbove("SearchBall", t, w))
      BY <1>k, <1>2 DEF Advance
    <3> QED BY <3>1, <3>2, <3>3
  <2>2. /\ Apart(t, c, {}) /\ c.head = t.head /\ c.did = t.did
        /\ c.status \in {"SUCCESS", "FAILURE"}
    BY <1>2, SearchIs DEF SearchRound
  <2> HIDE DEF c, r
  <2>3. c \in TreeStates /\ c.at["SearchOrExpress"] = 0
    BY <1>2, <2>2 DEF Apart, DemoCore
  <2>4. /\ Kept(c, r, "SearchOrExpress") /\ r.steps["SearchOrExpress"] = c.steps["SearchOrExpress"]
        /\ r.velocity = c.velocity /\ r.head = c.head /\ r.clip = c.clip /\ r.did = c.did
        /\ r.status = c.status
        /\ c.status = "FAILURE" => r.at["SearchOrExpress"] = 1
        /\ c.status = "SUCCESS" => r.at["SearchOrExpress"] = 0
    BY <1>n, <2>1, <2>2, <2>3, TurnIs
  <2>5. DemoCore(r)
    BY <1>n, <2>2, <2>4 DEF Kept, Apart, DemoCore
  <2>6. /\ \A n \in Nodes : r.steps[n] = t.steps[n]
        /\ r.at["FetchMission"] = t.at["FetchMission"]
    BY <1>n, <2>2, <2>4 DEF Kept, Apart
  <2>7. SearchRound(s, r, w)
    BY <1>n, <1>2, <2>2, <2>4, <2>5, <2>6 DEF SearchRound
  <2> QED BY <1>2, <2>2, <2>4, <2>7 DEF r
<1>3. CASE t.status = "FAILURE" /\ t.at["SearchOrExpress"] = 1
  <2> DEFINE c == TickAbove("ExpressFailure", t, w)
  <2>1. r = GoOn("SearchOrExpress", "FAILURE", c)
    BY <1>k, <1>3 DEF Advance
  <2>2. /\ Apart(t, c, {"HeadTilt", "HeadShake"}) /\ c.head = t.head
        /\ \/ c.status = "SUCCESS" /\ c.steps["HeadShake"] = 0
           \/ c.status = "RUNNING"
        /\ c.did = t.did \/ (Calm(w) /\ c.did \subseteq t.did \union {"HEAD_TILT", "HEAD_SHAKE"})
    BY ReactionIs DEF SearchRound
  <2> HIDE DEF c, r
  <2>3. c \in TreeStates /\ c.at["SearchOrExpress"] = 1
    BY <1>3, <2>2 DEF Apart, DemoCore
  <2>4. /\ Kept(c, r, "SearchOrExpress") /\ r.steps["SearchOrExpress"] = c.steps["SearchOrExpress"]
        /\ r.velocity = c.velocity /\ r.head = c.head /\ r.clip = c.clip /\ r.did = c.did
        /\ r.status = c.status
        /\ c.status = "RUNNING" => r.at["SearchOrExpress"] = 1
        /\ c.status = "SUCCESS" => r.at["SearchOrExpress"] = 0
    BY <1>n, <2>1, <2>2, <2>3, TurnIs
  <2>5. DemoCore(r)
    BY <1>n, <2>2, <2>4 DEF Kept, Apart, DemoCore
  <2>6. /\ \A n \in Nodes \ {"HeadTilt", "HeadShake"} : r.steps[n] = t.steps[n]
        /\ r.at["FetchMission"] = t.at["FetchMission"] /\ r.steps["HeadShake"] = c.steps["HeadShake"]
    BY <1>n, <2>2, <2>4 DEF Kept, Apart
  <2>7. SearchRound(s, r, w)
    BY <1>n, <1>3, <2>2, <2>4, <2>5, <2>6 DEF SearchRound
  <2> QED BY <2>2, <2>4, <2>7 DEF r
<1> QED BY <1>1, <1>2, <1>3 DEF SearchRound

\* A tick of the selector never fails: a failed search is reacted to.
LEMMA SearchOrExpressIs ==
  ASSUME NEW t, NEW w, DemoCore(t), t.at["SearchOrExpress"] \in 0 .. 1,
         t.at["SearchOrExpress"] = 0 => t.steps["HeadShake"] = 0
  PROVE  LET r == TickHigher("SearchOrExpress", t, w)
         IN  SearchRound(t, r, w) /\ r.status # "FAILURE"
<1> DEFINE t0 == Return(t, "FAILURE")
           r1 == Advance(TickAbove, "SearchOrExpress", "FAILURE", t0, w)
           r2 == Advance(TickAbove, "SearchOrExpress", "FAILURE", r1, w)
           r3 == Advance(TickAbove, "SearchOrExpress", "FAILURE", r2, w)
           r4 == Advance(TickAbove, "SearchOrExpress", "FAILURE", r3, w)
           r == TickHigher("SearchOrExpress", t, w)
<1>1. r = IF r4.status = "FAILURE" THEN [r4 EXCEPT !.at["SearchOrExpress"] = 0] ELSE r4
  BY FetchNodes DEF TickHigher, TickNode, CompositeTick
<1>2. SearchRound(t, t0, w) /\ t0.at["SearchOrExpress"] \in 0 .. 1
  <2>1. /\ t0 \in TreeStates /\ t0.at = t.at /\ t0.steps = t.steps /\ t0.failures = t.failures
        /\ t0.velocity = t.velocity /\ t0.head = t.head /\ t0.clip = t.clip /\ t0.did = t.did
        /\ t0.status = "FAILURE"
    <3>1. t \in TreeStates /\ "FAILURE" \in Statuses
      BY DEF DemoCore, Statuses
    <3> QED BY <3>1, ReturnIs
  <2> HIDE DEF t0
  <2>2. DemoCore(t0)
    BY <2>1 DEF DemoCore
  <2> QED BY <2>1, <2>2 DEF SearchRound
<1> HIDE DEF t0
<1>3. SearchRound(t, r1, w) /\ (r1.status # "FAILURE" \/ r1.at["SearchOrExpress"] = 1)
  BY <1>2, SearchAdvance
<1> HIDE DEF r1
<1>4. SearchRound(t, r2, w) /\ r2.status # "FAILURE"
  <2>1. /\ SearchRound(t, r2, w)
        /\ \/ r2.status # "FAILURE"
           \/ r1.at["SearchOrExpress"] = 0 /\ r2.at["SearchOrExpress"] = 1
    BY <1>3, SearchAdvance
  <2>2. CASE r1.status # "FAILURE"
    <3>1. r2 = r1
      BY <2>2 DEF Advance
    <3> QED BY <1>3, <2>2, <3>1
  <2>3. CASE r1.at["SearchOrExpress"] = 1
    BY <2>1, <2>3
  <2> QED BY <1>3, <2>2, <2>3
<1> HIDE DEF r2
<1>5. r3 = r2
  BY <1>4 DEF Advance
<1>6. r4 = r3
  BY <1>4, <1>5 DEF Advance
<1>7. r = r2
  BY <1>1, <1>4, <1>5, <1>6
<1> QED BY <1>4, <1>7

\* Where the mission is, and what is at rest then
DemoPlace(t) ==
  /\ DemoCore(t) /\ t.status \in {"RUNNING", "SUCCESS", "FAILURE"}
  /\ t.at["FetchMission"] \in 0 .. 4 /\ t.at["SearchOrExpress"] \in 0 .. 1
  /\ t.at["SearchOrExpress"] = 0 => t.steps["HeadShake"] = 0
  /\ t.at["FetchMission"] # 0 => t.at["SearchOrExpress"] = 0
  /\ t.at["FetchMission"] # 1 => t.steps["AmbientScan"] = 0 /\ t.head = "zero"
  /\ t.at["FetchMission"] # 3 => t.steps["Celebrate"] = 0

\* The mission between two ticks: it searches, walks or celebrates.
DemoInv(t) ==
  /\ DemoPlace(t) /\ t.at["FetchMission"] \in {0, 1, 3}
  /\ t.at["FetchMission"] = 3 => t.steps["Celebrate"] > 0

\* And between two rounds of a tick in world w
DemoRound(t, w) ==
  /\ DemoPlace(t) /\ Begun(t, w)
  /\ t.status = "RUNNING" => t.at["FetchMission"] \in {0, 1, 3}
  /\ t.status = "FAILURE" => t.at["FetchMission"] = 0
  /\ t.at["FetchMission"] = 3 =>
       t.steps["Celebrate"] > 0 \/ (t.status = "SUCCESS" /\ Pickable(w))
  /\ (t.status # "SUCCESS" /\ ~Calm(w)) => t.head = "zero"

\* The pickup succeeds with the ball in reach and in sight.
LEMMA PickupIs ==
  ASSUME NEW t, NEW w, DemoCore(t)
  PROVE  LET r == TickHigher("PickupBall", t, w)
         IN  /\ Apart(t, r, {}) /\ r.head = t.head /\ r.did = t.did
             /\ r.status = IF Pickable(w) THEN "SUCCESS" ELSE "FAILURE"
<1> DEFINE s == IF Pickable(w) THEN "SUCCESS" ELSE "FAILURE"
           r == TickHigher("PickupBall", t, w)
<1>1. r = Return(t, s)
  <2>1. r = LeafTick("PickupBall", t, w)
    BY FetchNodes, LeavesAre
  <2>2. LeafTick("PickupBall", t, w) = PickupTick(t, w)
    BY FetchNodes DEF LeafTick
  <2>3. PickupTick(t, w) = Return(t, s)
    BY DEF PickupTick, Pickable
  <2> QED BY <2>1, <2>2, <2>3
<1>2. t \in TreeStates /\ s \in Statuses
  BY DEF DemoCore, Statuses
<1> HIDE DEF s, r
<1>3. /\ r \in TreeStates /\ r.at = t.at /\ r.steps = t.steps /\ r.failures = t.failures
      /\ r.velocity = t.velocity /\ r.head = t.head /\ r.clip = t.clip /\ r.did = t.did
      /\ r.status = s
  BY <1>1, <1>2, ReturnIs
<1>4. Apart(t, r, {})
  BY <1>3 DEF Apart, DemoCore
<1> QED BY <1>3, <1>4 DEF r, s

\* After a child, the sequence moves on, waits or starts again.
LEMMA DemoTurn ==
  ASSUME NEW c, DemoCore(c), c.status \in {"RUNNING", "SUCCESS", "FAILURE"},
         c.at["FetchMission"] \in 0 .. 3
  PROVE  LET r == GoOn("FetchMission", "SUCCESS", c)
         IN  /\ DemoCore(r) /\ r.steps = c.steps /\ r.head = c.head /\ r.did = c.did
             /\ r.status = c.status /\ r.at["SearchOrExpress"] = c.at["SearchOrExpress"]
             /\ r.at["FetchMission"] = CASE c.status = "RUNNING" -> c.at["FetchMission"]
                                         [] c.status = "SUCCESS" -> c.at["FetchMission"] + 1
                                         [] OTHER -> 0
<1> DEFINE r == GoOn("FetchMission", "SUCCESS", c)
<1>n. {"FetchMission", "SearchOrExpress"} \subseteq Nodes
  BY NodesAre
<1>1. c \in TreeStates /\ c.at["FetchMission"] < 4
  BY DEF DemoCore
<1>2. /\ Kept(c, r, "FetchMission") /\ r.steps["FetchMission"] = c.steps["FetchMission"]
      /\ r.velocity = c.velocity /\ r.head = c.head /\ r.clip = c.clip /\ r.did = c.did
      /\ r.status = c.status
      /\ c.status = "RUNNING" => r.at["FetchMission"] = c.at["FetchMission"]
      /\ c.status = "SUCCESS" => r.at["FetchMission"] = c.at["FetchMission"] + 1
      /\ c.status = "FAILURE" => r.at["FetchMission"] = 0
  BY <1>n, <1>1, TurnIs
<1> HIDE DEF r
<1>3. r.steps = c.steps
  <2>1. r.steps \in [Nodes -> Nat] /\ c.steps \in [Nodes -> Nat]
    BY <1>1, <1>2, TreeFields DEF Kept
  <2>2. \A m \in Nodes : r.steps[m] = c.steps[m]
    BY <1>2 DEF Kept
  <2> QED BY <2>1, <2>2
<1>4. DemoCore(r)
  BY <1>n, <1>2, <1>3 DEF Kept, DemoCore
<1>5. r.at["FetchMission"] = CASE c.status = "RUNNING" -> c.at["FetchMission"]
                               [] c.status = "SUCCESS" -> c.at["FetchMission"] + 1
                               [] OTHER -> 0
  BY <1>2
<1>6. r.at["SearchOrExpress"] = c.at["SearchOrExpress"]
  BY <1>n, <1>2 DEF Kept
<1> QED BY <1>2, <1>3, <1>4, <1>5, <1>6 DEF r

\* The celebration, for the pickup
LEMMA CelebrateIs ==
  ASSUME NEW t, NEW w, DemoCore(t)
  PROVE  LET r == ExpressionTick("Celebrate", t, w)
         IN  /\ Apart(t, r, {"Celebrate"}) /\ r.head = t.head
             /\ \/ r.status = "SUCCESS" /\ r.steps["Celebrate"] = 0
                \/ r.status = "RUNNING" /\ r.steps["Celebrate"] > 0
             /\ \/ r.did = t.did
                \/ Calm(w) /\ t.steps["Celebrate"] = 0 /\ r.did = t.did \union {"HAPPY_WIGGLE"}
<1>1. Trees["Celebrate"].tag = "HAPPY_WIGGLE" /\ "Celebrate" \in Gestures
  BY FetchNodes DEF Gestures
<1>2. ASSUME NEW g \in Gestures, g = "Celebrate", NEW r, r = ExpressionTick(g, t, w)
      PROVE  /\ Apart(t, r, {g}) /\ r.head = t.head
             /\ \/ r.status = "SUCCESS" /\ r.steps[g] = 0
                \/ r.status = "RUNNING" /\ r.steps[g] > 0
             /\ r.did = t.did \/ (Calm(w) /\ t.steps[g] = 0 /\ r.did = t.did \union {Trees[g].tag})
  <2>1. g = "HeadShake" => t.failures = 3
    BY <1>2
  <2> QED BY <1>2, <2>1, GestureIs
<1> QED BY <1>1, <1>2

\* A round of the mission
LEMMA DemoAdvance ==
  ASSUME NEW t, NEW w, DemoRound(t, w)
  PROVE  LET r == Advance(TickHigher, "FetchMission", "SUCCESS", t, w)
         IN  /\ DemoRound(r, w)
             /\ \/ r.status # "SUCCESS" \/ r.at["FetchMission"] = 4
                \/ t.status = "SUCCESS" /\ r.at["FetchMission"] = t.at["FetchMission"] + 1
<1> DEFINE r == Advance(TickHigher, "FetchMission", "SUCCESS", t, w)
<1>n. {"FetchMission", "SearchOrExpress", "HeadTilt", "HeadShake", "AmbientScan", "Celebrate"}
        \subseteq Nodes
  BY NodesAre
<1>k. /\ Len(Kids("FetchMission")) = 4
      /\ Kids("FetchMission")[1] = "SearchOrExpress" /\ Kids("FetchMission")[2] = "WalkAndScan"
      /\ Kids("FetchMission")[3] = "PickupBall" /\ Kids("FetchMission")[4] = "Celebrate"
  BY FetchNodes
<1>0. DemoCore(t) /\ DemoPlace(t) /\ Begun(t, w)
  BY DEF DemoRound, DemoPlace
<1>1. CASE t.status # "SUCCESS" \/ t.at["FetchMission"] = 4
  <2>1. r = t
    BY <1>1, <1>k DEF Advance
  <2> QED BY <1>1, <2>1
<1>2. CASE t.status = "SUCCESS" /\ t.at["FetchMission"] = 0
  <2> DEFINE c == TickHigher("SearchOrExpress", t, w)
  <2>1. r = GoOn("FetchMission", "SUCCESS", c)
    BY <1>k, <1>2 DEF Advance
  <2>2. SearchRound(t, c, w) /\ c.status # "FAILURE"
    BY <1>0, SearchOrExpressIs DEF DemoPlace
  <2> HIDE DEF c, r
  <2>3. /\ DemoCore(c) /\ c.status \in {"RUNNING", "SUCCESS"} /\ c.at["FetchMission"] = 0
        /\ c.steps["AmbientScan"] = 0 /\ c.steps["Celebrate"] = 0 /\ c.head = "zero"
        /\ c.at["SearchOrExpress"] \in 0 .. 1
        /\ c.at["SearchOrExpress"] = 0 => c.steps["HeadShake"] = 0
        /\ c.status = "SUCCESS" => c.at["SearchOrExpress"] = 0
        /\ c.did = t.did \/ (Calm(w) /\ c.did \subseteq t.did \union {"HEAD_TILT", "HEAD_SHAKE"})
    BY <1>n, <1>0, <1>2, <2>2 DEF SearchRound, DemoPlace
  <2>4. /\ DemoCore(r) /\ r.steps = c.steps /\ r.head = c.head /\ r.did = c.did
        /\ r.status = c.status /\ r.at["SearchOrExpress"] = c.at["SearchOrExpress"]
        /\ r.at["FetchMission"] = CASE c.status = "RUNNING" -> c.at["FetchMission"]
                                    [] c.status = "SUCCESS" -> c.at["FetchMission"] + 1
                                    [] OTHER -> 0
    BY <2>1, <2>3, DemoTurn
  <2>5. Begun(r, w)
    BY <1>0, <2>3, <2>4 DEF Begun
  <2>6. DemoPlace(r)
    BY <2>3, <2>4 DEF DemoPlace
  <2>7. DemoRound(r, w)
    BY <2>3, <2>4, <2>5, <2>6 DEF DemoRound
  <2> QED BY <1>2, <2>3, <2>4, <2>7 DEF r
<1>3. CASE t.status = "SUCCESS" /\ t.at["FetchMission"] = 1
  <2> DEFINE c == TickHigher("WalkAndScan", t, w)
  <2>1. r = GoOn("FetchMission", "SUCCESS", c)
    BY <1>k, <1>3 DEF Advance
  <2>2. /\ Apart(t, c, {"AmbientScan"}) /\ c.did = t.did
        /\ \/ c.status = "RUNNING" /\ (~Calm(w) => c.head = "zero")
           \/ /\ c.status \in {"SUCCESS", "FAILURE"}
              /\ c.steps["AmbientScan"] = 0 /\ c.head = "zero"
    BY <1>0, WalkScanIs
  <2> HIDE DEF c, r
  <2>3. /\ DemoCore(c) /\ c.at["FetchMission"] = 1 /\ c.at["SearchOrExpress"] = 0
        /\ c.steps["HeadShake"] = 0 /\ c.steps["Celebrate"] = 0
    BY <1>n, <1>0, <1>3, <2>2 DEF Apart, DemoPlace
  <2>4. /\ DemoCore(r) /\ r.steps = c.steps /\ r.head = c.head /\ r.did = c.did
        /\ r.status = c.status /\ r.at["SearchOrExpress"] = c.at["SearchOrExpress"]
        /\ r.at["FetchMission"] = CASE c.status = "RUNNING" -> c.at["FetchMission"]
                                    [] c.status = "SUCCESS" -> c.at["FetchMission"] + 1
                                    [] OTHER -> 0
    BY <2>1, <2>2, <2>3, DemoTurn
  <2>5. Begun(r, w)
    BY <1>0, <2>2, <2>4 DEF Begun
  <2>6. DemoPlace(r)
    BY <2>2, <2>3, <2>4 DEF DemoPlace
  <2>7. DemoRound(r, w)
    BY <2>2, <2>3, <2>4, <2>5, <2>6 DEF DemoRound
  <2> QED BY <1>3, <2>2, <2>3, <2>4, <2>7 DEF r
<1>4. CASE t.status = "SUCCESS" /\ t.at["FetchMission"] = 2
  <2> DEFINE c == TickHigher("PickupBall", t, w)
  <2>1. r = GoOn("FetchMission", "SUCCESS", c)
    BY <1>k, <1>4 DEF Advance
  <2>2. /\ Apart(t, c, {}) /\ c.head = t.head /\ c.did = t.did
        /\ c.status = IF Pickable(w) THEN "SUCCESS" ELSE "FAILURE"
    BY <1>0, PickupIs
  <2> HIDE DEF c, r
  <2>3. /\ DemoCore(c) /\ c.at["FetchMission"] = 2 /\ c.at["SearchOrExpress"] = 0
        /\ c.steps["HeadShake"] = 0 /\ c.steps["Celebrate"] = 0 /\ c.steps["AmbientScan"] = 0
        /\ c.head = "zero"
    BY <1>n, <1>0, <1>4, <2>2 DEF Apart, DemoPlace
  <2>4. /\ DemoCore(r) /\ r.steps = c.steps /\ r.head = c.head /\ r.did = c.did
        /\ r.status = c.status /\ r.at["SearchOrExpress"] = c.at["SearchOrExpress"]
        /\ r.at["FetchMission"] = CASE c.status = "RUNNING" -> c.at["FetchMission"]
                                    [] c.status = "SUCCESS" -> c.at["FetchMission"] + 1
                                    [] OTHER -> 0
    BY <2>1, <2>2, <2>3, DemoTurn
  <2>5. Begun(r, w)
    BY <1>0, <2>2, <2>4 DEF Begun
  <2>6. DemoPlace(r)
    BY <2>2, <2>3, <2>4 DEF DemoPlace
  <2>7. DemoRound(r, w)
    BY <2>2, <2>3, <2>4, <2>5, <2>6 DEF DemoRound
  <2> QED BY <1>4, <2>2, <2>3, <2>4, <2>7 DEF r
<1>5. CASE t.status = "SUCCESS" /\ t.at["FetchMission"] = 3
  <2> DEFINE c == ExpressionTick("Celebrate", t, w)
  <2>1. r = GoOn("FetchMission", "SUCCESS", c)
    <3>1. TickHigher("Celebrate", t, w) = LeafTick("Celebrate", t, w)
      BY FetchNodes, LeavesAre
    <3>2. LeafTick("Celebrate", t, w) = c
      BY FetchNodes DEF LeafTick
    <3>3. r = GoOn("FetchMission", "SUCCESS", TickHigher("Celebrate", t, w))
      BY <1>k, <1>5 DEF Advance
    <3> QED BY <3>1, <3>2, <3>3
  <2>2. /\ Apart(t, c, {"Celebrate"}) /\ c.head = t.head
        /\ \/ c.status = "SUCCESS" /\ c.steps["Celebrate"] = 0
           \/ c.status = "RUNNING" /\ c.steps["Celebrate"] > 0
        /\ \/ c.did = t.did
           \/ Calm(w) /\ t.steps["Celebrate"] = 0 /\ c.did = t.did \union {"HAPPY_WIGGLE"}
    BY <1>0, CelebrateIs
  <2> HIDE DEF c, r
  <2>3. /\ DemoCore(c) /\ c.at["FetchMission"] = 3 /\ c.at["SearchOrExpress"] = 0
        /\ c.steps["HeadShake"] = 0 /\ c.steps["AmbientScan"] = 0 /\ c.head = "zero"
    BY <1>n, <1>0, <1>5, <2>2 DEF Apart, DemoPlace
  <2>4. /\ DemoCore(r) /\ r.steps = c.steps /\ r.head = c.head /\ r.did = c.did
        /\ r.status = c.status /\ r.at["SearchOrExpress"] = c.at["SearchOrExpress"]
        /\ r.at["FetchMission"] = CASE c.status = "RUNNING" -> c.at["FetchMission"]
                                    [] c.status = "SUCCESS" -> c.at["FetchMission"] + 1
                                    [] OTHER -> 0
    BY <2>1, <2>2, <2>3, DemoTurn
  <2>5. t.steps["Celebrate"] = 0 => Pickable(w)
    BY <1>5 DEF DemoRound
  <2>6. Begun(r, w)
    BY <1>0, <2>2, <2>4, <2>5 DEF Begun
  <2>7. DemoPlace(r)
    BY <2>2, <2>3, <2>4 DEF DemoPlace
  <2>8. DemoRound(r, w)
    BY <2>2, <2>3, <2>4, <2>6, <2>7 DEF DemoRound
  <2> QED BY <1>5, <2>2, <2>3, <2>4, <2>8 DEF r
<1> QED BY <1>0, <1>1, <1>2, <1>3, <1>4, <1>5 DEF DemoPlace

\* A tick of the mission
LEMMA DemoRuns ==
  ASSUME NEW t, NEW w, DemoInv(t)
  PROVE  LET r == TickRoot("FetchMission", t, w)
         IN  DemoInv(r) /\ Begun(r, w) /\ (~Calm(w) => r.head = "zero")
<1> DEFINE t0 == Return([t EXCEPT !.did = {}], "SUCCESS")
           r1 == Advance(TickHigher, "FetchMission", "SUCCESS", t0, w)
           r2 == Advance(TickHigher, "FetchMission", "SUCCESS", r1, w)
           r3 == Advance(TickHigher, "FetchMission", "SUCCESS", r2, w)
           r4 == Advance(TickHigher, "FetchMission", "SUCCESS", r3, w)
           r == TickRoot("FetchMission", t, w)
<1>n. {"FetchMission", "SearchOrExpress"} \subseteq Nodes
  BY NodesAre
<1>1. r = IF r4.status = "SUCCESS" THEN [r4 EXCEPT !.at["FetchMission"] = 0] ELSE r4
  BY FetchNodes DEF TickRoot, Tick, TickNode, CompositeTick
<1>2. DemoRound(t0, w)
  <2>1. /\ t0 \in TreeStates /\ t0.at = t.at /\ t0.steps = t.steps /\ t0.failures = t.failures
        /\ t0.velocity = t.velocity /\ t0.head = t.head /\ t0.clip = t.clip /\ t0.did = {}
        /\ t0.status = "SUCCESS"
    BY TickStart DEF DemoInv, DemoPlace, DemoCore
  <2> HIDE DEF t0
  <2>2. DemoCore(t0)
    BY <2>1 DEF DemoInv, DemoPlace, DemoCore
  <2>3. DemoPlace(t0)
    BY <2>1, <2>2 DEF DemoInv, DemoPlace
  <2> QED BY <2>1, <2>3 DEF DemoInv, DemoRound, Begun
<1> HIDE DEF t0
<1>3. DemoRound(r1, w) /\ (r1.status # "SUCCESS" \/ r1.at["FetchMission"] >= 1)
  <2>1. /\ DemoRound(r1, w)
        /\ \/ r1.status # "SUCCESS" \/ r1.at["FetchMission"] = 4
           \/ t0.status = "SUCCESS" /\ r1.at["FetchMission"] = t0.at["FetchMission"] + 1
    BY <1>2, DemoAdvance
  <2> HIDE DEF r1
  <2> QED BY <1>2, <2>1 DEF DemoRound, DemoPlace
<1> HIDE DEF r1
<1>4. DemoRound(r2, w) /\ (r2.status # "SUCCESS" \/ r2.at["FetchMission"] >= 2)
  <2>1. /\ DemoRound(r2, w)
        /\ \/ r2.status # "SUCCESS" \/ r2.at["FetchMission"] = 4
           \/ r1.status = "SUCCESS" /\ r2.at["FetchMission"] = r1.at["FetchMission"] + 1
    BY <1>3, DemoAdvance
  <2> HIDE DEF r2
  <2> QED BY <1>3, <2>1 DEF DemoRound, DemoPlace
<1> HIDE DEF r2
<1>5. DemoRound(r3, w) /\ (r3.status # "SUCCESS" \/ r3.at["FetchMission"] >= 3)
  <2>1. /\ DemoRound(r3, w)
        /\ \/ r3.status # "SUCCESS" \/ r3.at["FetchMission"] = 4
           \/ r2.status = "SUCCESS" /\ r3.at["FetchMission"] = r2.at["FetchMission"] + 1
    BY <1>4, DemoAdvance
  <2> HIDE DEF r3
  <2> QED BY <1>4, <2>1 DEF DemoRound, DemoPlace
<1> HIDE DEF r3
<1>6. DemoRound(r4, w) /\ (r4.status # "SUCCESS" \/ r4.at["FetchMission"] = 4)
  <2>1. /\ DemoRound(r4, w)
        /\ \/ r4.status # "SUCCESS" \/ r4.at["FetchMission"] = 4
           \/ r3.status = "SUCCESS" /\ r4.at["FetchMission"] = r3.at["FetchMission"] + 1
    BY <1>5, DemoAdvance
  <2> HIDE DEF r4
  <2> QED BY <1>5, <2>1 DEF DemoRound, DemoPlace
<1> HIDE DEF r4, r
<1>7. CASE r4.status # "SUCCESS"
  <2>1. r = r4
    BY <1>1, <1>7
  <2>2. DemoInv(r)
    BY <1>6, <1>7, <2>1 DEF DemoRound, DemoPlace, DemoInv
  <2> QED BY <1>6, <1>7, <2>1, <2>2 DEF DemoRound, r
<1>8. CASE r4.status = "SUCCESS"
  <2>1. r = [r4 EXCEPT !.at["FetchMission"] = 0]
    BY <1>1, <1>8
  <2>2. r4 \in TreeStates /\ DemoCore(r4) /\ DemoPlace(r4) /\ Begun(r4, w)
        /\ r4.at["FetchMission"] = 4
    BY <1>6, <1>8 DEF DemoRound, DemoPlace, DemoCore
  <2>3. /\ Kept(r4, r, "FetchMission") /\ r.at["FetchMission"] = 0
        /\ r.steps["FetchMission"] = r4.steps["FetchMission"]
        /\ r.velocity = r4.velocity /\ r.head = r4.head /\ r.clip = r4.clip /\ r.did = r4.did
        /\ r.status = r4.status
    BY <1>n, <2>1, <2>2, Rewound
  <2>4. DemoCore(r) /\ (\A m \in Nodes : r.steps[m] = r4.steps[m])
    <3>1. \A m \in Nodes : r.steps[m] = r4.steps[m]
      BY <2>3 DEF Kept
    <3>2. {"HeadTilt", "HeadShake", "AmbientScan", "Celebrate"} \subseteq Nodes
      BY NodesAre
    <3>3. DemoCore(r)
      BY <1>n, <2>2, <2>3, <3>1, <3>2 DEF Kept, DemoCore
    <3> QED BY <3>1, <3>3
  <2>5. DemoPlace(r)
    <3>1. {"HeadShake", "AmbientScan", "Celebrate"} \subseteq Nodes
      BY NodesAre
    <3> QED BY <1>n, <1>8, <2>2, <2>3, <2>4, <3>1 DEF DemoPlace, Kept
  <2>6. DemoInv(r) /\ r.head = "zero"
    BY <2>2, <2>3, <2>5 DEF DemoInv, DemoPlace
  <2>7. Begun(r, w)
    BY <2>2, <2>3 DEF Begun
  <2> QED BY <2>6, <2>7 DEF r
<1> QED BY <1>7, <1>8

\* Aborting the search: the gestures of its failure branch start over.
LEMMA SearchAborts ==
  ASSUME NEW t, DemoCore(t), t.at["SearchOrExpress"] \in 0 .. 1,
         t.at["SearchOrExpress"] = 0 => t.steps["HeadShake"] = 0
  PROVE  LET r == AbortHigher("SearchOrExpress", t)
         IN  /\ DemoCore(r) /\ r.at["SearchOrExpress"] = 0 /\ r.at["FetchMission"] = t.at["FetchMission"]
             /\ r.steps["HeadShake"] = 0 /\ r.steps["AmbientScan"] = t.steps["AmbientScan"]
             /\ r.steps["Celebrate"] = t.steps["Celebrate"]
             /\ r.head = t.head /\ r.did = t.did /\ r.status = t.status
<1> DEFINE r == AbortHigher("SearchOrExpress", t)
           kids == AbortedKids("SearchOrExpress", t)
<1>n. {"FetchMission", "SearchOrExpress", "HeadTilt", "HeadShake", "AmbientScan", "Celebrate"} \subseteq Nodes
  BY NodesAre
<1>t. t \in TreeStates
  BY DEF DemoCore
<1>1. r = AbortComposite("SearchOrExpress", AbortAll(AbortAbove, kids, t))
  BY FetchNodes DEF AbortHigher, AbortNode, AbortSelf
<1>2. kids = SubSeq(<<"SearchBall", "ExpressFailure">>, t.at["SearchOrExpress"] + 1,
                    t.at["SearchOrExpress"] + 1)
  BY FetchNodes DEF AbortedKids
<1> HIDE DEF r, kids
<1>3. \E u : /\ r = AbortComposite("SearchOrExpress", u)
             /\ u \in TreeStates /\ u.at = t.at /\ u.failures = t.failures
             /\ \A n \in Nodes \ {"HeadTilt", "HeadShake"} : u.steps[n] = t.steps[n]
             /\ u.steps["HeadShake"] = 0 /\ u.velocity = t.velocity /\ u.head = t.head
             /\ u.clip = t.clip /\ u.did = t.did /\ u.status = t.status
  <2>1. CASE t.at["SearchOrExpress"] = 0
    <3>1. Len(kids) = 1 /\ kids[1] = "SearchBall"
      BY <1>2, <2>1
    <3>2. AbortAbove("SearchBall", t) = t
      BY FetchNodes, LeavesAre DEF AbortSelf
    <3>3. AbortAll(AbortAbove, kids, t) = AbortAbove("SearchBall", t)
      BY <3>1 DEF AbortAll, AbortNext
    <3> QED BY <1>t, <1>1, <2>1, <3>2, <3>3
  <2>2. CASE t.at["SearchOrExpress"] = 1
    <3> DEFINE u0 == AbortExpression("HeadTilt", t)
               u == AbortExpression("HeadShake", u0)
    <3>1. r = AbortComposite("SearchOrExpress", u)
      <4>1. Len(kids) = 1 /\ kids[1] = "ExpressFailure"
        BY <1>2, <2>2
      <4>2. AbortAbove("ExpressFailure", t) = u
        <5>1. AbortedKids("ExpressFailure", t) = <<"HeadTilt", "HeadShake">>
          BY FetchNodes DEF AbortedKids
        <5>2. AbortAbove("ExpressFailure", t) = AbortAll(AbortSelf, <<"HeadTilt", "HeadShake">>, t)
          BY <5>1, FetchNodes DEF AbortAbove, AbortNode, AbortSelf
        <5>3. \A x : /\ AbortSelf("HeadTilt", x) = AbortExpression("HeadTilt", x)
                     /\ AbortSelf("HeadShake", x) = AbortExpression("HeadShake", x)
          BY FetchNodes DEF AbortSelf
        <5> QED BY <5>2, <5>3 DEF AbortAll, AbortNext
      <4>3. AbortAll(AbortAbove, kids, t) = AbortAbove("ExpressFailure", t)
        BY <4>1 DEF AbortAll, AbortNext
      <4> QED BY <1>1, <4>2, <4>3
    <3>2. /\ Kept(t, u0, "HeadTilt") /\ u0.at["HeadTilt"] = t.at["HeadTilt"] /\ u0.steps["HeadTilt"] = 0
          /\ u0.velocity = t.velocity /\ u0.head = t.head /\ u0.clip = t.clip
          /\ u0.did = t.did /\ u0.status = t.status
      BY <1>n, <1>t, AbortsAre, SMTT(30)
    <3> HIDE DEF u0
    <3>3. /\ Kept(u0, u, "HeadShake") /\ u.at["HeadShake"] = u0.at["HeadShake"]
          /\ u.steps["HeadShake"] = 0
          /\ u.velocity = u0.velocity /\ u.head = u0.head /\ u.clip = u0.clip
          /\ u.did = u0.did /\ u.status = u0.status
      <4>1. u0 \in TreeStates /\ "HeadShake" \in Nodes
        BY <1>n, <3>2 DEF Kept
      <4> QED BY <4>1, AbortsAre, SMTT(30)
    <3> HIDE DEF u
    <3>4. u.at = t.at
      <4>1. u.at \in [Nodes -> 0 .. 4] /\ t.at \in [Nodes -> 0 .. 4]
        BY <1>t, <3>3, TreeFields DEF Kept
      <4>2. \A n \in Nodes : u.at[n] = t.at[n]
        BY <3>2, <3>3 DEF Kept
      <4> QED BY <4>1, <4>2
    <3> QED BY <3>1, <3>2, <3>3, <3>4 DEF Kept
  <2> QED BY <2>1, <2>2
<1>4. PICK u : /\ r = AbortComposite("SearchOrExpress", u)
               /\ u \in TreeStates /\ u.at = t.at /\ u.failures = t.failures
               /\ \A n \in Nodes \ {"HeadTilt", "HeadShake"} : u.steps[n] = t.steps[n]
               /\ u.steps["HeadShake"] = 0 /\ u.velocity = t.velocity /\ u.head = t.head
               /\ u.clip = t.clip /\ u.did = t.did /\ u.status = t.status
  BY <1>3
<1>5. /\ Kept(u, r, "SearchOrExpress") /\ r.at["SearchOrExpress"] = 0
      /\ r.steps["SearchOrExpress"] = u.steps["SearchOrExpress"]
      /\ r.velocity = u.velocity /\ r.head = u.head /\ r.clip = u.clip /\ r.did = u.did
      /\ r.status = u.status
  <2>1. r = [u EXCEPT !.at["SearchOrExpress"] = 0]
    BY <1>4 DEF AbortComposite
  <2>2. u \in TreeStates /\ "SearchOrExpress" \in Nodes
    BY <1>n, <1>4
  <2> QED BY <2>1, <2>2, Rewound
<1>6. DemoCore(r)
  BY <1>n, <1>4, <1>5 DEF Kept, DemoCore
<1> QED BY <1>n, <1>4, <1>5, <1>6 DEF Kept, r

\* Preempting the mission
LEMMA DemoAborts ==
  ASSUME NEW t, DemoInv(t)
  PROVE  LET r == Abort("FetchMission", [t EXCEPT !.did = {}])
         IN  /\ DemoInv(r) /\ r.at["FetchMission"] = 0 /\ r.at["SearchOrExpress"] = 0
             /\ r.head = "zero" /\ r.did = {}
<1> DEFINE t0 == [t EXCEPT !.did = {}]
           r == Abort("FetchMission", t0)
           kids == AbortedKids("FetchMission", t0)
<1>n. {"FetchMission", "SearchOrExpress", "HeadTilt", "HeadShake", "AmbientScan", "Celebrate"} \subseteq Nodes
  BY NodesAre
<1>1. /\ t0 \in TreeStates /\ t0.at = t.at /\ t0.steps = t.steps /\ t0.failures = t.failures
      /\ t0.velocity = t.velocity /\ t0.head = t.head /\ t0.clip = t.clip /\ t0.did = {}
      /\ t0.status = t.status
  BY DEF DemoInv, DemoPlace, DemoCore, TreeStates
<1> HIDE DEF t0
<1>2. DemoCore(t0)
  BY <1>1 DEF DemoInv, DemoPlace, DemoCore
<1>3. DemoPlace(t0) /\ t0.at["FetchMission"] \in {0, 1, 3}
  BY <1>1, <1>2 DEF DemoInv, DemoPlace
<1>4. r = AbortComposite("FetchMission", AbortAll(AbortHigher, kids, t0))
  BY FetchNodes DEF Abort, AbortNode, AbortSelf
<1>5. kids = SubSeq(<<"SearchOrExpress", "WalkAndScan", "PickupBall", "Celebrate">>,
                    t0.at["FetchMission"] + 1, t0.at["FetchMission"] + 1)
  BY FetchNodes DEF AbortedKids
<1> HIDE DEF r, kids
<1>6. \E u : /\ r = AbortComposite("FetchMission", u) /\ DemoCore(u) /\ u.at["SearchOrExpress"] = 0
             /\ u.steps["HeadShake"] = 0 /\ u.steps["AmbientScan"] = 0 /\ u.steps["Celebrate"] = 0
             /\ u.head = "zero" /\ u.did = {} /\ u.status = t0.status
  <2>1. CASE t0.at["FetchMission"] = 0
    <3> DEFINE u == AbortHigher("SearchOrExpress", t0)
    <3>1. Len(kids) = 1 /\ kids[1] = "SearchOrExpress"
      BY <1>5, <2>1
    <3>2. AbortAll(AbortHigher, kids, t0) = u
      BY <3>1 DEF AbortAll, AbortNext
    <3>3. /\ DemoCore(u) /\ u.at["SearchOrExpress"] = 0
          /\ u.steps["HeadShake"] = 0 /\ u.steps["AmbientScan"] = t0.steps["AmbientScan"]
          /\ u.steps["Celebrate"] = t0.steps["Celebrate"]
          /\ u.head = t0.head /\ u.did = t0.did /\ u.status = t0.status
      BY <1>3, SearchAborts DEF DemoPlace
    <3> HIDE DEF u
    <3> QED BY <1>1, <1>3, <1>4, <2>1, <3>2, <3>3 DEF DemoPlace
  <2>2. CASE t0.at["FetchMission"] = 1
    <3> DEFINE u == AbortAmbient("AmbientScan", t0)
    <3>1. Len(kids) = 1 /\ kids[1] = "WalkAndScan"
      BY <1>5, <2>2
    <3>2. AbortAll(AbortHigher, kids, t0) = AbortHigher("WalkAndScan", t0)
      BY <3>1 DEF AbortAll, AbortNext
    <3>3. AbortHigher("WalkAndScan", t0) = u
      <4>1. AbortedKids("WalkAndScan", t0) = <<"ApproachTarget", "AmbientScan">>
        BY FetchNodes DEF AbortedKids
      <4>2. AbortHigher("WalkAndScan", t0)
              = AbortAll(AbortAbove, <<"ApproachTarget", "AmbientScan">>, t0)
        BY <4>1, FetchNodes DEF AbortHigher, AbortNode, AbortSelf
      <4>3. \A x : /\ AbortAbove("ApproachTarget", x) = x
                   /\ AbortAbove("AmbientScan", x) = AbortAmbient("AmbientScan", x)
        BY FetchNodes, LeavesAre DEF AbortSelf
      <4> QED BY <4>2, <4>3 DEF AbortAll, AbortNext
    <3>4. /\ Kept(t0, u, "AmbientScan") /\ u.at["AmbientScan"] = t0.at["AmbientScan"]
          /\ u.steps["AmbientScan"] = 0 /\ u.velocity = t0.velocity /\ u.head = "zero"
          /\ u.clip = t0.clip /\ u.did = t0.did /\ u.status = t0.status
      BY <1>n, <1>1, AbortsAre, SMTT(30)
    <3> HIDE DEF u
    <3>5. DemoCore(u)
      BY <1>n, <1>2, <3>4 DEF Kept, DemoCore
    <3>6. /\ u.at["SearchOrExpress"] = 0 /\ u.steps["HeadShake"] = 0 /\ u.steps["Celebrate"] = 0
      BY <1>n, <1>3, <2>2, <3>4 DEF Kept, DemoPlace
    <3> QED BY <1>1, <1>4, <3>2, <3>3, <3>4, <3>5, <3>6
  <2>3. CASE t0.at["FetchMission"] = 3
    <3> DEFINE u == AbortExpression("Celebrate", t0)
    <3>1. Len(kids) = 1 /\ kids[1] = "Celebrate"
      BY <1>5, <2>3
    <3>2. AbortAll(AbortHigher, kids, t0) = AbortHigher("Celebrate", t0)
      BY <3>1 DEF AbortAll, AbortNext
    <3>3. AbortHigher("Celebrate", t0) = u
      BY FetchNodes, LeavesAre DEF AbortSelf
    <3>4. /\ Kept(t0, u, "Celebrate") /\ u.at["Celebrate"] = t0.at["Celebrate"]
          /\ u.steps["Celebrate"] = 0 /\ u.velocity = t0.velocity /\ u.head = t0.head
          /\ u.clip = t0.clip /\ u.did = t0.did /\ u.status = t0.status
      BY <1>n, <1>1, AbortsAre, SMTT(30)
    <3> HIDE DEF u
    <3>5. DemoCore(u)
      BY <1>n, <1>2, <3>4 DEF Kept, DemoCore
    <3>6. /\ u.at["SearchOrExpress"] = 0 /\ u.steps["HeadShake"] = 0
          /\ u.steps["AmbientScan"] = 0 /\ u.head = "zero"
      BY <1>n, <1>3, <2>3, <3>4 DEF Kept, DemoPlace
    <3> QED BY <1>1, <1>4, <3>2, <3>3, <3>4, <3>5, <3>6
  <2> QED BY <1>3, <2>1, <2>2, <2>3
<1>7. PICK u : /\ r = AbortComposite("FetchMission", u) /\ DemoCore(u) /\ u.at["SearchOrExpress"] = 0
               /\ u.steps["HeadShake"] = 0 /\ u.steps["AmbientScan"] = 0 /\ u.steps["Celebrate"] = 0
               /\ u.head = "zero" /\ u.did = {} /\ u.status = t0.status
  BY <1>6
<1>8. /\ Kept(u, r, "FetchMission") /\ r.at["FetchMission"] = 0
      /\ r.steps["FetchMission"] = u.steps["FetchMission"]
      /\ r.velocity = u.velocity /\ r.head = u.head /\ r.clip = u.clip /\ r.did = u.did
      /\ r.status = u.status
  <2>1. u \in TreeStates
    BY <1>7 DEF DemoCore
  <2>2. r = [u EXCEPT !.at["FetchMission"] = 0]
    BY <1>7 DEF AbortComposite
  <2> QED BY <1>n, <2>1, <2>2, Rewound
<1>9. DemoCore(r)
  BY <1>n, <1>7, <1>8 DEF Kept, DemoCore
<1>10. /\ r.at["SearchOrExpress"] = 0 /\ r.steps["HeadShake"] = 0 /\ r.steps["AmbientScan"] = 0
       /\ r.steps["Celebrate"] = 0
  BY <1>n, <1>7, <1>8 DEF Kept
<1>11. r.status \in {"RUNNING", "SUCCESS", "FAILURE"}
  BY <1>3, <1>7, <1>8 DEF DemoPlace
<1>12. DemoInv(r)
  BY <1>7, <1>8, <1>9, <1>10, <1>11 DEF DemoInv, DemoPlace
<1> QED BY <1>7, <1>8, <1>10, <1>12 DEF r, t0

-----------------------------------------------------------------------------
(* The programs that hold a tree *)

\* A tick of run_mujoco_sim.py begins no gesture and plays no clip.
LEMMA TimedAside ==
  ASSUME NEW t, TimedInv(t), NEW w
  PROVE  LET r == TickRoot("FetchSequence", t, w)
         IN  r.did = {} /\ r.clip = t.clip
<1> DEFINE t0 == Return([t EXCEPT !.did = {}], "SUCCESS")
           r1 == Advance(TickHigher, "FetchSequence", "SUCCESS", t0, w)
           r2 == Advance(TickHigher, "FetchSequence", "SUCCESS", r1, w)
           r3 == Advance(TickHigher, "FetchSequence", "SUCCESS", r2, w)
           r4 == Advance(TickHigher, "FetchSequence", "SUCCESS", r3, w)
           r == TickRoot("FetchSequence", t, w)
<1>1. r = IF r4.status = "SUCCESS" THEN [r4 EXCEPT !.at["FetchSequence"] = 0] ELSE r4
  BY TimedNodes DEF TickRoot, Tick, TickNode, CompositeTick
<1>2. TimedBetween(t0) /\ t0.did = {} /\ t0.clip = t.clip
  <2>1. /\ t0 \in TreeStates /\ t0.at = t.at /\ t0.steps = t.steps /\ t0.board = t.board
        /\ t0.velocity = t.velocity /\ t0.status = "SUCCESS" /\ t0.did = {} /\ t0.clip = t.clip
    BY DEF TimedInv, TimedRound, TreeStates, Return, Statuses
  <2> HIDE DEF t0
  <2> QED BY <2>1 DEF TimedInv, TimedRound, TimedVelocity, TimedBetween
<1> HIDE DEF t0
<1>3. ASSUME NEW x, TimedBetween(x)
      PROVE  LET y == Advance(TickHigher, "FetchSequence", "SUCCESS", x, w)
             IN  TimedBetween(y) /\ y.did = x.did /\ y.clip = x.clip
  <2> DEFINE y == Advance(TickHigher, "FetchSequence", "SUCCESS", x, w)
  <2>n. {"FetchSequence", "Search", "Approach", "Pickup"} \subseteq Nodes
    BY NodesAre
  <2>0. x \in TreeStates
    BY <1>3 DEF TimedBetween, TimedRound
  <2>c. Clock("Search", x) \in Nat /\ Clock("Approach", x) \in Nat /\ Clock("Pickup", x) \in Nat
    BY <2>n, <2>0, TreeFields, TimedNodes DEF Clock, Elapsed
  <2>1. TimedBetween(y)
    BY <1>3, TimedAdvance
  <2>2. CASE x.status # "SUCCESS" \/ x.at["FetchSequence"] = 3
    BY <2>1, <2>2, TimedNodes DEF Advance
  <2>3. CASE x.status = "SUCCESS" /\ x.at["FetchSequence"] \in 0 .. 2
    <3>1. PICK c : /\ y = GoOn("FetchSequence", "SUCCESS", c) /\ c \in TreeStates
                   /\ c.at = x.at /\ c.did = x.did /\ c.clip = x.clip
      <4>1. /\ TurnTick("Search", x) \in TreeStates /\ TurnTick("Search", x).at = x.at
            /\ TurnTick("Search", x).did = x.did /\ TurnTick("Search", x).clip = x.clip
        <5>1. TurnTick("Search", x) \in TreeStates /\ TurnTick("Search", x).at = x.at
          BY <2>n, <2>0, <2>c, TurnTickIs
        <5>2. TurnTick("Search", x).did = x.did /\ TurnTick("Search", x).clip = x.clip
          BY <2>0 DEF TurnTick, TreeStates
        <5> QED BY <5>1, <5>2
      <4>2. /\ WalkTick("Approach", x) \in TreeStates /\ WalkTick("Approach", x).at = x.at
            /\ WalkTick("Approach", x).did = x.did /\ WalkTick("Approach", x).clip = x.clip
        <5>1. WalkTick("Approach", x) \in TreeStates /\ WalkTick("Approach", x).at = x.at
          BY <2>n, <2>0, <2>c, WalkTickIs
        <5>2. WalkTick("Approach", x).did = x.did /\ WalkTick("Approach", x).clip = x.clip
          BY <2>0 DEF WalkTick, TreeStates
        <5> QED BY <5>1, <5>2
      <4>3. /\ PickTick("Pickup", x) \in TreeStates /\ PickTick("Pickup", x).at = x.at
            /\ PickTick("Pickup", x).did = x.did /\ PickTick("Pickup", x).clip = x.clip
        <5>1. PickTick("Pickup", x) \in TreeStates /\ PickTick("Pickup", x).at = x.at
          BY <2>n, <2>0, <2>c, PickTickIs
        <5>2. PickTick("Pickup", x).did = x.did /\ PickTick("Pickup", x).clip = x.clip
          BY <2>0 DEF PickTick, Return, TreeStates
        <5> QED BY <5>1, <5>2
      <4>4. \E k \in {"Search", "Approach", "Pickup"} :
              y = GoOn("FetchSequence", "SUCCESS", TickHigher(k, x, w))
        <5> DEFINE k == Kids("FetchSequence")[x.at["FetchSequence"] + 1]
        <5>0. Len(Kids("FetchSequence")) = 3
          BY TimedNodes
        <5>1. x.at["FetchSequence"] # 3
          BY <2>3
        <5>2. y = GoOn("FetchSequence", "SUCCESS", TickHigher(k, x, w))
          BY <2>3, <5>0, <5>1, Zenon DEF Advance
        <5>3. k \in {"Search", "Approach", "Pickup"}
          BY <2>3, TimedNodes
        <5> HIDE DEF k, y
        <5> QED BY <5>2, <5>3
      <4> QED BY <2>0, <4>1, <4>2, <4>3, <4>4, TimedChildren
    <3>2. c.at["FetchSequence"] < 4
      BY <2>3, <3>1
    <3> HIDE DEF y
    <3>3. y.did = c.did /\ y.clip = c.clip
      BY <2>n, <3>1, <3>2, GoOnIs
    <3> QED BY <2>1, <3>1, <3>3 DEF y
  <2>4. x.status # "SUCCESS" \/ x.at["FetchSequence"] \in 0 .. 3
    BY <1>3 DEF TimedBetween, TimedRound
  <2> QED BY <2>2, <2>3, <2>4
<1>4. TimedBetween(r1) /\ r1.did = {} /\ r1.clip = t.clip
  BY <1>2, <1>3
<1> HIDE DEF r1
<1>5. TimedBetween(r2) /\ r2.did = {} /\ r2.clip = t.clip
  BY <1>3, <1>4
<1> HIDE DEF r2
<1>6. TimedBetween(r3) /\ r3.did = {} /\ r3.clip = t.clip
  BY <1>3, <1>5
<1> HIDE DEF r3
<1>7. TimedBetween(r4) /\ r4.did = {} /\ r4.clip = t.clip
  BY <1>3, <1>6
<1> HIDE DEF r4, r
<1>8. r4 \in TreeStates
  BY <1>7 DEF TimedBetween, TimedRound
<1>9. r.did = r4.did /\ r.clip = r4.clip
  BY <1>1, <1>8 DEF TreeStates
<1> QED BY <1>7, <1>9 DEF r

\* A tick of the node that follows a target begins no gesture either.
LEMMA FollowIs ==
  ASSUME NEW t \in TreeStates, NEW w
  PROVE  LET r == TickRoot("Follow", t, w)
         IN  r \in TreeStates /\ r.did = {} /\ r.clip = t.clip
<1> DEFINE t0 == [t EXCEPT !.did = {}]
           r == TickRoot("Follow", t, w)
<1>1. r = TrackTick("Follow", t0, w)
  BY RoutineNodes DEF TickRoot, Tick, TickNode, LeafTick
<1>2. t0 \in TreeStates /\ t0.did = {} /\ t0.clip = t.clip
  BY DEF TreeStates
<1> HIDE DEF t0, r
<1>3. \A v \in Velocities, s \in Statuses :
        LET u == [t0 EXCEPT !.velocity = v, !.status = s]
        IN  u \in TreeStates /\ u.did = t0.did /\ u.clip = t0.clip
  BY <1>2 DEF TreeStates
<1>4. \A s \in Statuses :
        LET u == [t0 EXCEPT !.status = s]
        IN  u \in TreeStates /\ u.did = t0.did /\ u.clip = t0.clip
  BY <1>2 DEF TreeStates
<1>5. \/ \E v \in Velocities, s \in Statuses : r = [t0 EXCEPT !.velocity = v, !.status = s]
      \/ \E s \in Statuses : r = [t0 EXCEPT !.status = s]
  <2>1. {"zero", "spin"} \subseteq Velocities /\ {"RUNNING", "SUCCESS", "RAISED"} \subseteq Statuses
    BY DEF Velocities, Statuses
  <2>2. r \in {[t0 EXCEPT !.velocity = "spin", !.status = "RUNNING"],
               [t0 EXCEPT !.velocity = "zero", !.status = "SUCCESS"],
               [t0 EXCEPT !.status = "RAISED"]}
    BY <1>1 DEF TrackTick, Return
  <2> QED BY <2>1, <2>2, Zenon
<1> QED BY <1>2, <1>3, <1>4, <1>5 DEF r

\* What holds of the tree of each program; after a tick in an unstable stance
\* the head is level and at most the voice has spoken.
TreeInv ==
  /\ tree \in TreeStates
  /\ program = "demo" => DemoInv(tree)
  /\ program = "routine" => RoutineInv(tree)
  /\ program = "mujoco" => TimedInv(tree)
  /\ program \notin {"demo", "routine"} => tree.did = {} /\ tree.clip = 0
  /\ (program \in {"demo", "routine"} /\ ~Calm(world)) => tree.head = "zero" /\ tree.did \subseteq {"chirp"}

\* The program of a tree has no other action.
LEMMA TreeOwners ==
  ASSUME [Next]_vars
  PROVE  /\ program' = program
         /\ program = "demo" => DemoTick \/ Preempt \/ UNCHANGED vars
         /\ program = "routine" => RoutineTick \/ Preempt \/ UNCHANGED vars
         /\ program = "mujoco" => MuJoCoTick \/ UNCHANGED vars
         /\ program \notin {"demo", "routine", "mujoco"} => tree' = tree \/ ServoTick
<1>1. CASE TelemetryFrame \/ ImuVariance \/ DepthFrame \/ TrackFrame \/ SetTarget
  BY <1>1 DEF TelemetryFrame, ImuVariance, DepthFrame, TrackFrame, SetTarget
<1>2. CASE ServoTick
  BY <1>2 DEF ServoTick
<1>3. CASE DemoTick \/ RoutineTick
  BY <1>3 DEF DemoTick, RoutineTick, Beat
<1>4. CASE Preempt
  BY <1>4 DEF Preempt
<1>5. CASE PlannerTick \/ PlannerAbort \/ RigStep \/ RigInterrupted \/ RigHears
  BY <1>5 DEF PlannerTick, PlannerAbort, RigStep, RigInterrupted, RigHears
<1>6. CASE MuJoCoTick
  BY <1>6 DEF MuJoCoTick
<1>7. CASE EvalTick \/ EnvelopeTick \/ VideoTick \/ CollectRollouts \/ RolloutStep \/ Update \/ Command
  BY <1>7 DEF EvalTick, EnvelopeTick, VideoTick, CollectRollouts, RolloutStep, Update, Command
<1>8. CASE UNCHANGED vars
  BY <1>8 DEF vars
<1> QED BY <1>1, <1>2, <1>3, <1>4, <1>5, <1>6, <1>7, <1>8 DEF Next, BrainNext, SimulationNext

\* A new tree is at the beginning of each program.
LEMMA TreeInit == Init => TreeInv
<1> SUFFICES ASSUME Init PROVE TreeInv
  OBVIOUS
<1> DEFINE none == [n \in Nodes |-> 0]
<1>1. none \in [Nodes -> 0 .. 4] /\ none \in [Nodes -> Nat] /\ \A n \in Nodes : none[n] = 0
  OBVIOUS
<1> HIDE DEF none
<1>2. tree = [at |-> none, steps |-> none, failures |-> 0, board |-> {}, velocity |-> "zero",
              head |-> "zero", beak |-> "shut", clip |-> 0, did |-> {}, status |-> "RUNNING"]
  BY DEF Init, NewTree, none
<1>3. /\ tree \in TreeStates /\ tree.at = none /\ tree.steps = none /\ tree.failures = 0
      /\ tree.board = {} /\ tree.velocity = "zero" /\ tree.head = "zero" /\ tree.clip = 0
      /\ tree.did = {} /\ tree.status = "RUNNING"
  BY <1>1, <1>2 DEF TreeStates, Statuses, Velocities
<1>4. DemoInv(tree)
  BY <1>1, <1>3, NodesAre DEF DemoInv, DemoPlace, DemoCore
<1>5. RoutineInv(tree)
  BY <1>1, <1>3, NodesAre DEF RoutineInv, RoutineCore, ShowIdle, BowFits
<1>6. TimedInv(tree)
  BY <1>1, <1>3, NodesAre DEF TimedInv, TimedRound, TimedVelocity
<1> QED BY <1>3, <1>4, <1>5, <1>6 DEF TreeInv

\* A step of the program that runs the fetch mission
LEMMA DemoSteps ==
  ASSUME TreeInv, DemoTick
  PROVE  /\ DemoInv(tree') /\ Begun(tree', world')
         /\ ~Calm(world') => tree'.head = "zero" /\ tree'.did = {}
         /\ program = "demo" /\ program' = program /\ world' \in DemoWorlds
<1>1. /\ program = "demo" /\ program' = program /\ world' \in DemoWorlds
      /\ tree' = TickRoot("FetchMission", tree, world')
  BY DEF DemoTick, Root
<1>2. DemoInv(tree)
  BY <1>1 DEF TreeInv
<1>3. DemoInv(tree') /\ Begun(tree', world') /\ (~Calm(world') => tree'.head = "zero")
  BY <1>1, <1>2, DemoRuns
<1> QED BY <1>1, <1>3 DEF Begun

\* A step of the program that runs the routine
LEMMA RoutineSteps ==
  ASSUME TreeInv, RoutineTick
  PROVE  /\ RoutineInv(tree') /\ Performed(tree, tree')
         /\ ~Calm(world') => tree'.head = "zero"
         /\ program = "routine" /\ program' = program
<1>1. /\ program = "routine" /\ program' = program
      /\ tree' = TickRoot("Routine", tree, world')
  BY DEF RoutineTick, Root
<1>2. RoutineInv(tree)
  BY <1>1 DEF TreeInv
<1>3. RoutineInv(tree') /\ Performed(tree, tree') /\ (~Calm(world') => tree'.head = "zero")
  BY <1>1, <1>2, RoutineRuns
<1> QED BY <1>1, <1>3

\* A preemption of either
LEMMA PreemptSteps ==
  ASSUME TreeInv, Preempt
  PROVE  /\ program \in {"demo", "routine"} /\ program' = program /\ world' = world /\ past' = past
         /\ tree'.head = "zero" /\ tree'.did = {}
         /\ program = "demo" => /\ DemoInv(tree') /\ tree'.at["FetchMission"] = 0
                                /\ tree'.at["SearchOrExpress"] = 0
         /\ program = "routine" => /\ RoutineInv(tree') /\ tree'.at["Routine"] = 0
                                   /\ tree'.at["Avoid"] = 0 /\ Performed(tree, tree')
<1>1. /\ program \in {"demo", "routine"} /\ program' = program /\ world' = world /\ past' = past
      /\ tree' = Abort(Root, [tree EXCEPT !.did = {}])
  BY DEF Preempt
<1>2. CASE program = "demo"
  <2>1. DemoInv(tree) /\ tree' = Abort("FetchMission", [tree EXCEPT !.did = {}])
    BY <1>1, <1>2 DEF TreeInv, Root
  <2> QED BY <1>1, <1>2, <2>1, DemoAborts
<1>3. CASE program = "routine"
  <2>1. RoutineInv(tree) /\ tree' = Abort("Routine", [tree EXCEPT !.did = {}])
    BY <1>1, <1>3 DEF TreeInv, Root
  <2> QED BY <1>1, <1>3, <2>1, RoutineAborts
<1> QED BY <1>1, <1>2, <1>3

\* A tick of the other two trees
LEMMA OtherTicks ==
  ASSUME TreeInv, ServoTick \/ MuJoCoTick
  PROVE  /\ program' = program /\ tree' \in TreeStates /\ tree'.did = {} /\ tree'.clip = tree.clip
         /\ program = "mujoco" => TimedInv(tree')
<1>1. CASE ServoTick
  <2>1. program = "servo" /\ program' = program /\ tree' = TickRoot("Follow", tree, world')
    BY <1>1 DEF ServoTick, Root
  <2>2. tree \in TreeStates
    BY DEF TreeInv
  <2> QED BY <2>1, <2>2, FollowIs
<1>2. CASE MuJoCoTick
  <2>1. program = "mujoco" /\ program' = program /\ tree' = TickRoot("FetchSequence", tree, world')
    BY <1>2 DEF MuJoCoTick, Root
  <2>2. TimedInv(tree)
    BY <2>1 DEF TreeInv
  <2>3. TimedInv(tree') /\ tree'.did = {} /\ tree'.clip = tree.clip
    BY <2>1, <2>2, TimedTick, TimedAside
  <2> QED BY <2>1, <2>3 DEF TimedInv, TimedRound
<1> QED BY <1>1, <1>2

\* Every step keeps the trees.
LEMMA TreeStep == TreeInv /\ [Next]_vars => TreeInv'
<1> SUFFICES ASSUME TreeInv, [Next]_vars PROVE TreeInv'
  OBVIOUS
<1>1. CASE program = "demo"
  <2>1. CASE DemoTick
    <3>1. DemoInv(tree') /\ (~Calm(world') => tree'.head = "zero" /\ tree'.did = {}) /\ program' = "demo"
      BY <1>1, <2>1, DemoSteps
    <3>2. tree' \in TreeStates
      BY <3>1 DEF DemoInv, DemoPlace, DemoCore
    <3> QED BY <3>1, <3>2 DEF TreeInv
  <2>2. CASE Preempt
    <3>1. DemoInv(tree') /\ tree'.head = "zero" /\ tree'.did = {} /\ program' = "demo"
      BY <1>1, <2>2, PreemptSteps
    <3>2. tree' \in TreeStates
      BY <3>1 DEF DemoInv, DemoPlace, DemoCore
    <3> QED BY <3>1, <3>2 DEF TreeInv
  <2>3. CASE UNCHANGED vars
    BY <2>3 DEF vars, TreeInv
  <2> QED BY <1>1, <2>1, <2>2, <2>3, TreeOwners
<1>2. CASE program = "routine"
  <2>1. CASE RoutineTick
    <3>1. RoutineInv(tree') /\ (~Calm(world') => tree'.head = "zero") /\ program' = "routine"
      BY <1>2, <2>1, RoutineSteps
    <3>2. tree' \in TreeStates /\ tree'.did \subseteq {"chirp"}
      BY <3>1 DEF RoutineInv, RoutineCore
    <3> QED BY <3>1, <3>2 DEF TreeInv
  <2>2. CASE Preempt
    <3>1. RoutineInv(tree') /\ tree'.head = "zero" /\ tree'.did = {} /\ program' = "routine"
      BY <1>2, <2>2, PreemptSteps
    <3>2. tree' \in TreeStates
      BY <3>1 DEF RoutineInv, RoutineCore
    <3> QED BY <3>1, <3>2 DEF TreeInv
  <2>3. CASE UNCHANGED vars
    BY <2>3 DEF vars, TreeInv
  <2> QED BY <1>2, <2>1, <2>2, <2>3, TreeOwners
<1>3. CASE program \notin {"demo", "routine"}
  <2>1. program' = program
    BY TreeOwners
  <2>2. CASE ServoTick \/ MuJoCoTick
    BY <1>3, <2>1, <2>2, OtherTicks DEF TreeInv
  <2>3. CASE tree' = tree
    BY <1>3, <2>1, <2>3 DEF TreeInv
  <2>4. UNCHANGED vars => tree' = tree
    BY DEF vars
  <2> QED BY <1>3, <2>2, <2>3, <2>4, TreeOwners
<1> QED BY <1>1, <1>2, <1>3

\* What a control node lets a tick go on with
LEMMA ContinuedHas ==
  ASSUME NEW S, NEW n \in S
  PROVE  /\ n \in Continued(S)
         /\ Trees[n].kind \in {"sequence", "selector"} => Kids(n)[tree.at[n] + 1] \in Continued(S)
         /\ Trees[n].kind \notin {"sequence", "selector"} =>
              \A i \in DOMAIN Kids(n) : Kids(n)[i] \in Continued(S)
<1> DEFINE Below(m) == IF Trees[m].kind \in {"sequence", "selector"}
                       THEN {Kids(m)[tree.at[m] + 1]} ELSE KidsOf({m})
<1>1. Continued(S) = S \union UNION {Below(m) : m \in S}
  BY DEF Continued
<1>2. Below(n) \subseteq Continued(S)
  <2> HIDE DEF Below
  <2> QED BY <1>1
<1>3. \A i \in DOMAIN Kids(n) : Kids(n)[i] \in KidsOf({n})
  BY DEF KidsOf
<1> QED BY <1>1, <1>2, <1>3

\* The nodes a tick of the mission or of the routine may continue
LEMMA ActiveHas ==
  /\ /\ "FetchMission" \in Active("FetchMission")
     /\ tree.at["FetchMission"] = 0 => "SearchOrExpress" \in Active("FetchMission")
     /\ (tree.at["FetchMission"] = 0 /\ tree.at["SearchOrExpress"] = 1)
          => "HeadShake" \in Active("FetchMission")
     /\ tree.at["FetchMission"] = 1 => "AmbientScan" \in Active("FetchMission")
     /\ tree.at["FetchMission"] = 3 => "Celebrate" \in Active("FetchMission")
  /\ /\ "Routine" \in Active("Routine")
     /\ tree.at["Routine"] = 0 => "Avoid" \in Active("Routine")
     /\ tree.at["Routine"] = 1 => {"Grasp", "Sway", "Bow", "Chirp"} \subseteq Active("Routine")
<1> DEFINE R == {"FetchMission"}
           Q == {"Routine"}
<1>1. /\ R \subseteq Continued(R) /\ Q \subseteq Continued(Q)
      /\ Continued(R) \subseteq Continued(Continued(R))
      /\ Continued(Q) \subseteq Continued(Continued(Q))
      /\ Continued(Continued(R)) \subseteq Active("FetchMission")
      /\ Continued(Continued(Q)) \subseteq Active("Routine")
  BY ContinuedHas DEF Active
<1>2. ASSUME tree.at["FetchMission"] = 0
      PROVE  /\ "SearchOrExpress" \in Continued(R)
             /\ tree.at["SearchOrExpress"] = 1 => "HeadShake" \in Active("FetchMission")
  <2>1. "SearchOrExpress" \in Continued(R)
    <3>1. Kids("FetchMission")[tree.at["FetchMission"] + 1] = "SearchOrExpress"
      BY <1>2, FetchNodes
    <3>2. "FetchMission" \in R /\ Trees["FetchMission"].kind = "sequence"
      BY FetchNodes
    <3> QED BY <3>1, <3>2, ContinuedHas
  <2>2. ASSUME tree.at["SearchOrExpress"] = 1 PROVE "HeadShake" \in Active("FetchMission")
    <3>1. Kids("SearchOrExpress")[tree.at["SearchOrExpress"] + 1] = "ExpressFailure"
          /\ Trees["SearchOrExpress"].kind = "selector"
      BY <2>2, FetchNodes
    <3>2. "ExpressFailure" \in Continued(Continued(R))
      BY <2>1, <3>1, ContinuedHas
    <3>3. /\ Trees["ExpressFailure"].kind = "failure" /\ 2 \in DOMAIN Kids("ExpressFailure")
          /\ Kids("ExpressFailure")[2] = "HeadShake"
      BY FetchNodes
    <3> QED BY <3>2, <3>3, ContinuedHas DEF Active
  <2> QED BY <2>1, <2>2
<1>3. ASSUME tree.at["FetchMission"] = 1 PROVE "AmbientScan" \in Active("FetchMission")
  <2>1. Kids("FetchMission")[tree.at["FetchMission"] + 1] = "WalkAndScan"
    BY <1>3, FetchNodes
  <2>2. "FetchMission" \in R /\ Trees["FetchMission"].kind = "sequence"
    BY FetchNodes
  <2>3. "WalkAndScan" \in Continued(R)
    BY <2>1, <2>2, ContinuedHas
  <2>4. /\ Trees["WalkAndScan"].kind = "parallel" /\ 2 \in DOMAIN Kids("WalkAndScan")
        /\ Kids("WalkAndScan")[2] = "AmbientScan"
    BY FetchNodes
  <2>5. "AmbientScan" \in Continued(Continued(R))
    BY <2>3, <2>4, ContinuedHas
  <2> QED BY <1>1, <2>5
<1>4. ASSUME tree.at["FetchMission"] = 3 PROVE "Celebrate" \in Continued(R)
  <2>1. Kids("FetchMission")[tree.at["FetchMission"] + 1] = "Celebrate"
    BY <1>4, FetchNodes
  <2>2. "FetchMission" \in R /\ Trees["FetchMission"].kind = "sequence"
    BY FetchNodes
  <2> QED BY <2>1, <2>2, ContinuedHas
<1>5. ASSUME tree.at["Routine"] = 0 PROVE "Avoid" \in Continued(Q)
  <2>1. Kids("Routine")[tree.at["Routine"] + 1] = "Avoid"
    BY <1>5, RoutineNodes
  <2>2. "Routine" \in Q /\ Trees["Routine"].kind = "sequence"
    BY RoutineNodes
  <2> QED BY <2>1, <2>2, ContinuedHas
<1>6. ASSUME tree.at["Routine"] = 1
      PROVE  {"Grasp", "Sway", "Bow", "Chirp"} \subseteq Continued(Continued(Q))
  <2>1. Kids("Routine")[tree.at["Routine"] + 1] = "GraspShow"
    BY <1>6, RoutineNodes
  <2>2. "Routine" \in Q /\ Trees["Routine"].kind = "sequence"
    BY RoutineNodes
  <2>3. "GraspShow" \in Continued(Q)
    BY <2>1, <2>2, ContinuedHas
  <2>4. /\ Trees["GraspShow"].kind = "parallel" /\ {1, 2, 3, 4} \subseteq DOMAIN Kids("GraspShow")
        /\ Kids("GraspShow")[1] = "Grasp" /\ Kids("GraspShow")[2] = "Sway"
        /\ Kids("GraspShow")[3] = "Bow" /\ Kids("GraspShow")[4] = "Chirp"
    BY RoutineNodes
  <2>5. \A i \in DOMAIN Kids("GraspShow") : Kids("GraspShow")[i] \in Continued(Continued(Q))
    BY <2>3, <2>4, ContinuedHas
  <2> QED BY <2>4, <2>5
<1> HIDE DEF R, Q
<1>7. "FetchMission" \in R /\ "Routine" \in Q
  BY DEF R, Q
<1> QED BY <1>1, <1>2, <1>3, <1>4, <1>5, <1>6, <1>7

\* Nothing is left of an earlier activation in a node that is not active, in
\* whatever order ticks and preemptions come.
THEOREM IdleNodesStayFresh == Spec => []IdleNodesAreFresh
<1>1. TreeInv => IdleNodesAreFresh
  <2> SUFFICES ASSUME TreeInv, program \in {"demo", "routine"},
                      NEW n \in Nodes, n \notin Active(Root), n # "HeadTilt"
               PROVE  Fresh(tree, n)
    BY DEF IdleNodesAreFresh
  <2>1. CASE program = "demo"
    <3>1. DemoInv(tree) /\ n \notin Active("FetchMission")
      BY <2>1 DEF TreeInv, Root
    <3>2. n # "FetchMission" /\ tree.at[n] = 0
      <4>1. n # "FetchMission"
        BY <3>1, ActiveHas
      <4>2. n = "SearchOrExpress" => tree.at["SearchOrExpress"] = 0
        BY <3>1, ActiveHas DEF DemoInv, DemoPlace
      <4> QED BY <3>1, <4>1, <4>2 DEF DemoInv, DemoPlace, DemoCore
    <3>3. tree.steps[n] = 0
      <4>1. n \notin {"HeadShake", "AmbientScan", "Celebrate"} => tree.steps[n] = 0
        BY <3>1 DEF DemoInv, DemoPlace, DemoCore
      <4>2. n = "HeadShake" => tree.steps[n] = 0
        BY <3>1, ActiveHas DEF DemoInv, DemoPlace
      <4>3. n = "AmbientScan" => tree.steps[n] = 0
        BY <3>1, ActiveHas DEF DemoInv, DemoPlace
      <4>4. n = "Celebrate" => tree.steps[n] = 0
        BY <3>1, ActiveHas DEF DemoInv, DemoPlace
      <4> QED BY <4>1, <4>2, <4>3, <4>4
    <3> QED BY <3>2, <3>3 DEF Fresh
  <2>2. CASE program = "routine"
    <3>1. RoutineInv(tree) /\ n \notin Active("Routine")
      BY <2>2 DEF TreeInv, Root
    <3>2. n # "Routine" /\ RoutineCore(tree) /\ Trees["Bow"].kind = "mocap"
      BY <3>1, ActiveHas, RoutineNodes DEF RoutineInv
    <3>3. CASE tree.at["Routine"] = 0
      <4>1. ShowIdle(tree) /\ n # "Avoid"
        BY <3>1, <3>3, ActiveHas DEF RoutineInv
      <4> QED BY <3>2, <4>1 DEF Fresh, ShowIdle, RoutineCore
    <3>4. CASE tree.at["Routine"] = 1
      <4>1. tree.at["Avoid"] = 0 /\ n \notin {"Grasp", "Sway", "Bow", "Chirp"}
        BY <3>1, <3>4, ActiveHas DEF RoutineInv
      <4> QED BY <3>2, <4>1 DEF Fresh, RoutineCore
    <3> QED BY <3>1, <3>3, <3>4 DEF RoutineInv
  <2> QED BY <2>1, <2>2
<1> QED BY <1>1, TreeInit, TreeStep, PTL DEF Spec

\* After an abort every node is as it was built, and what the nodes drive is
\* at rest, wherever in the tree the preemption comes.
THEOREM AbortsAreClean == Spec => AbortIsClean
<1>1. TreeInv /\ [Next]_vars =>
        [Preempt => /\ \A n \in Nodes \ {"HeadTilt"} : Fresh(tree', n)
                    /\ tree'.velocity = "zero" /\ tree'.head = "zero"]_vars
  <2> SUFFICES ASSUME TreeInv, Preempt
               PROVE  /\ \A n \in Nodes \ {"HeadTilt"} : Fresh(tree', n)
                      /\ tree'.velocity = "zero" /\ tree'.head = "zero"
    OBVIOUS
  <2>1. CASE program = "demo"
    <3>1. /\ DemoInv(tree') /\ tree'.at["FetchMission"] = 0 /\ tree'.at["SearchOrExpress"] = 0
          /\ tree'.head = "zero"
      BY <2>1, PreemptSteps
    <3>2. /\ \A n \in Nodes : tree'.at[n] = 0
          /\ \A n \in Nodes \ {"HeadTilt"} : tree'.steps[n] = 0
      BY <3>1 DEF DemoInv, DemoPlace, DemoCore
    <3>3. tree'.velocity = "zero"
      BY <3>1 DEF DemoInv, DemoPlace, DemoCore
    <3> QED BY <3>1, <3>2, <3>3 DEF Fresh
  <2>2. CASE program = "routine"
    <3>1. /\ RoutineInv(tree') /\ tree'.at["Routine"] = 0 /\ tree'.at["Avoid"] = 0
          /\ tree'.head = "zero"
      BY <2>2, PreemptSteps
    <3>2. RoutineCore(tree') /\ ShowIdle(tree')
      BY <3>1 DEF RoutineInv
    <3>3. /\ \A n \in Nodes : tree'.at[n] = 0
          /\ \A n \in Nodes \ {"Bow"} : tree'.steps[n] = 0
          /\ tree'.velocity = "zero"
      BY <3>1, <3>2 DEF RoutineCore, ShowIdle
    <3>4. Trees["Bow"].kind = "mocap"
      BY RoutineNodes
    <3> QED BY <3>1, <3>3, <3>4 DEF Fresh
  <2> QED BY <2>1, <2>2, PreemptSteps
<1> QED BY <1>1, TreeInit, TreeStep, PTL DEF Spec, AbortIsClean

\* Balance comes first in every tree: after a tick in an unstable stance or on
\* rough ground the head is level and no gesture was begun.
THEOREM TheUnstableAreStill == Spec => []UnstableMeansStill
<1>1. TreeInv => UnstableMeansStill
  BY DEF TreeInv, UnstableMeansStill, Calm
<1> QED BY <1>1, TreeInit, TreeStep, PTL DEF Spec

\* The wiggle celebrates a ball that is there to be picked up in that tick.
THEOREM CelebratesAPickup == Spec => CelebratesOnlyAPickup
<1>1. TreeInv /\ [Next]_vars =>
        [("HAPPY_WIGGLE" \in tree'.did /\ past'.beat # past.beat)
           => world'.ball_visible /\ world'.distance <= 30]_vars
  <2> SUFFICES ASSUME TreeInv, [Next]_vars, "HAPPY_WIGGLE" \in tree'.did, past' # past
               PROVE  world'.ball_visible /\ world'.distance <= 30
    OBVIOUS
  <2>1. past' = past \/ ~(UNCHANGED vars)
    BY DEF vars
  <2>2. CASE program = "demo"
    <3>1. CASE DemoTick
      <4>1. Begun(tree', world') /\ world' \in DemoWorlds
        BY <3>1, DemoSteps
      <4>2. Pickable(world')
        BY <4>1 DEF Begun
      <4> DEFINE v == world'
      <4>3. "ball_visible" \in DOMAIN v /\ "distance" \in DOMAIN v
        <5>1. v \in DemoWorlds
          BY <4>1
        <5> HIDE DEF v
        <5>2. PICK visible \in BOOLEAN, distance \in {20, 28, 150}, b \in Balances :
                v = [ball_visible |-> visible, distance |-> distance,
                     stability |-> b[1], roughness |-> b[2]]
          BY <5>1 DEF DemoWorlds
        <5>3. DOMAIN v = {"ball_visible", "distance", "stability", "roughness"}
          BY <5>2
        <5> QED BY <5>3
      <4>4. Pickable(v)
        BY <4>2
      <4> HIDE DEF v
      <4>5. v.ball_visible /\ v.distance <= 30
        BY <4>3, <4>4 DEF Pickable, Get
      <4> QED BY <4>5 DEF v
    <3>2. CASE Preempt
      BY <3>2, PreemptSteps
    <3> QED BY <2>1, <2>2, <3>1, <3>2, TreeOwners
  <2>3. CASE program # "demo"
    <3>1. program' = program /\ TreeInv'
      BY TreeOwners, TreeStep
    <3>2. tree'.did \subseteq {"chirp"}
      BY <2>3, <3>1 DEF TreeInv, RoutineInv, RoutineCore
    <3> QED BY <3>2
  <2> QED BY <2>2, <2>3
<1> QED BY <1>1, TreeInit, TreeStep, PTL DEF Spec, CelebratesOnlyAPickup

\* The voice speaks once per grasp, in its first tick.
THEOREM TheVoiceSpeaksOnce == Spec => SpeaksOnce
<1>1. TreeInv /\ [Next]_vars =>
        [("chirp" \in tree'.did /\ past'.beat # past.beat) => tree.at["Grasp"] = 0]_vars
  <2> SUFFICES ASSUME TreeInv, [Next]_vars, "chirp" \in tree'.did, past' # past
               PROVE  tree.at["Grasp"] = 0
    OBVIOUS
  <2>1. past' = past \/ ~(UNCHANGED vars)
    BY DEF vars
  <2>2. CASE program = "demo"
    BY <2>2, NodesAre DEF TreeInv, DemoInv, DemoPlace, DemoCore
  <2>3. CASE program = "routine"
    <3>1. RoutineTick => Performed(tree, tree')
      BY RoutineSteps
    <3>2. Preempt => past' = past
      BY PreemptSteps
    <3> QED BY <2>1, <2>3, <3>1, <3>2, TreeOwners DEF Performed
  <2>4. CASE program \notin {"demo", "routine"}
    <3>1. program' = program /\ TreeInv'
      BY TreeOwners, TreeStep
    <3>2. tree'.did = {}
      BY <2>4, <3>1 DEF TreeInv
    <3> QED BY <3>2
  <2> QED BY <2>2, <2>3, <2>4
<1> QED BY <1>1, TreeInit, TreeStep, PTL DEF Spec, SpeaksOnce

\* The captured motion enters and leaves the joints by one blend step a tick;
\* only a clip begun again after an abort cut it short may jump.
THEOREM MotionsAreSmooth == Spec => MotionIsSmooth
<1>1. TreeInv /\ [Next]_vars =>
        [LET frames == Trees["Bow"].ticks[1]
             blend  == Trees["Bow"].ticks[2]
         IN  \/ tree.at["Bow"] = 0 /\ tree.steps["Bow"] \in 1 .. frames - 1
             \/ tree'.clip - tree.clip \in -blend .. blend]_vars
  <2> SUFFICES ASSUME TreeInv, [Next]_vars
               PROVE  \/ tree.at["Bow"] = 0 /\ tree.steps["Bow"] \in 1 .. 4
                      \/ tree'.clip - tree.clip \in -2 .. 2
    BY RoutineNodes
  <2>1. TreeInv'
    BY TreeStep
  <2>2. CASE tree'.clip = tree.clip /\ tree.clip \in Nat
    BY <2>2
  <2>3. tree.clip \in Nat /\ (UNCHANGED vars => tree' = tree)
    BY TreeFields DEF TreeInv, vars
  <2>4. CASE program = "demo"
    <3>1. program' = program
      BY TreeOwners
    <3>2. tree.clip = 0 /\ tree'.clip = 0
      BY <2>1, <2>4, <3>1 DEF TreeInv, DemoInv, DemoPlace, DemoCore
    <3> QED BY <2>2, <3>2
  <2>5. CASE program = "routine"
    <3>1. RoutineTick \/ Preempt => Performed(tree, tree')
      BY <2>5, RoutineSteps, PreemptSteps
    <3> QED BY <2>2, <2>3, <2>5, <3>1, TreeOwners DEF Performed
  <2>6. CASE program \notin {"demo", "routine"}
    <3>1. program' = program
      BY TreeOwners
    <3>2. tree.clip = 0 /\ tree'.clip = 0
      BY <2>1, <2>6, <3>1 DEF TreeInv
    <3> QED BY <2>2, <3>2
  <2> QED BY <2>4, <2>5, <2>6
<1> QED BY <1>1, TreeInit, TreeStep, PTL DEF Spec, MotionIsSmooth
=============================================================================
