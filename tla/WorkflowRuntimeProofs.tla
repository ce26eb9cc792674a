----------------------- MODULE WorkflowRuntimeProofs -----------------------
(***************************************************************************)
(* Proofs about WorkflowRuntime for every set of runs and processes, every *)
(* number of nodes, every retry limit and every bound on claims: the       *)
(* invariant, what follows from it, and the abstract modules that the      *)
(* runtime implements.                                                     *)
(***************************************************************************)
EXTENDS WorkflowRuntime, TLAPS

\* A node run is a pair of its run and its ordinal.
LEMMA NodeRunPair ==
    ASSUME NEW n \in NodeRuns
    PROVE  /\ n[1] \in Runs
           /\ n[2] \in Ordinals
           /\ n = <<n[1], n[2]>>
  BY DEF NodeRuns

\* A process outside RunOnce is a typed worker.
LEMMA OutsideType ==
    ASSUME NEW pc \in WorkerPC
    PROVE  Outside(pc) \in Worker /\ Outside(pc).pc = pc
  <1>1. PICK r \in Runs : TRUE
    BY RuntimeAssumption
  <1>2. <<r, 1>> \in NodeRuns
    BY RuntimeAssumption DEF NodeRuns, Ordinals
  <1>3. (CHOOSE n \in NodeRuns : TRUE) \in NodeRuns
    BY <1>2
  <1>4. QED
    BY <1>3, RuntimeAssumption DEF Outside, Worker, Outcomes

\* Init establishes the types.
LEMMA InitType == Init => TypeOK
  <1> SUFFICES ASSUME Init PROVE TypeOK
    OBVIOUS
  <1>1. run \in [Runs -> RunRow]
    BY RuntimeAssumption DEF Init, RunRow, RunStatus
  <1>2. node \in [NodeRuns -> NodeRow]
    BY RuntimeAssumption DEF Init, NewNode, NodeRow, NodeStatus
  <1>3. worker \in [Processes -> Worker]
    BY OutsideType DEF Init, WorkerPC
  <1>4. QED
    BY <1>1, <1>2, <1>3 DEF Init, TypeOK

-----------------------------------------------------------------------------
(* What the helpers of the actions return.                                 *)

\* SetRun writes the row of one run.
LEMMA SetRunEffect ==
    ASSUME run \in [Runs -> RunRow], NEW r \in Runs,
           NEW s \in RunStatus, NEW k \in 0..NodeCount, SetRun(r, s, k)
    PROVE  /\ run' \in [Runs -> RunRow]
           /\ run'[r].status = s
           /\ run'[r].current = k
           /\ \A q \in Runs : q # r => run'[q] = run[q]
  BY DEF SetRun, RunRow

\* Released changes status, owner and lease only.
LEMMA ReleasedRow ==
    ASSUME node \in [NodeRuns -> NodeRow], NEW n \in NodeRuns, NEW s \in NodeStatus
    PROVE  /\ Released(n, s) \in NodeRow
           /\ Released(n, s).status = s
           /\ Released(n, s).attempt = node[n].attempt
           /\ Released(n, s).owner = NoOwner
           /\ Released(n, s).lease = "none"
           /\ Released(n, s).retry = node[n].retry
           /\ Released(n, s).checkpoint = node[n].checkpoint
           /\ Released(n, s).output = node[n].output
           /\ Released(n, s).input = node[n].input
  BY DEF Released, NodeRow

\* No call is at another place, or carries another attempt, than before.
NoNewCalls ==
    /\ worker' \in [Processes -> Worker]
    /\ \A p \in Processes :
         Inside(p)' => /\ Inside(p)
                       /\ worker'[p].at = worker[p].at
                       /\ worker'[p].attempt = worker[p].attempt
                       /\ worker'[p].base = worker[p].base

\* A process that leaves its call enters none.
LEMMA LeaveEffect ==
    ASSUME worker \in [Processes -> Worker], NEW p \in Processes,
           PollAgain(p) \/ Exit(p)
    PROVE  NoNewCalls
  <1>1. PICK pc \in {"polling", "exited"} : worker' = [worker EXCEPT ![p] = Outside(pc)]
    BY DEF PollAgain, Exit
  <1>2. Outside(pc) \in Worker /\ Outside(pc).pc = pc
    BY OutsideType DEF WorkerPC
  <1>3. QED
    BY <1>1, <1>2 DEF NoNewCalls, Inside

-----------------------------------------------------------------------------
(* The frontier.                                                           *)

\* Whatever is neither pending nor succeeded is its run's current node.
LEMMA ActiveIsCurrent ==
    ASSUME TypeOK, LinearFrontier, RunAgreesWithNode, NEW n \in NodeRuns,
           node[n].status \notin {"pending", "succeeded"}
    PROVE  IsCurrent(n) /\ Agree(run[n[1]].status, node[n].status)
  <1>1. run[n[1]].current \in Nat /\ n[2] \in Nat
    BY NodeRunPair, RuntimeAssumption DEF TypeOK, RunRow, Ordinals
  <1>2. ~IsBefore(n)
    BY DEF LinearFrontier
  <1>3. ~IsBeyond(n)
    BY DEF LinearFrontier, Untouched
  <1>4. IsCurrent(n)
    BY <1>1, <1>2, <1>3 DEF IsBefore, IsBeyond, IsCurrent
  <1>5. QED
    BY <1>4 DEF RunAgreesWithNode

\* Rows change in place: no run changes, and a row that changes keeps either
\* all that the frontier depends on, or its bindings and a status that agrees
\* with its run's.
KeepPlace ==
    /\ run' = run
    /\ node' \in [NodeRuns -> NodeRow]
    /\ \A n \in NodeRuns :
         \/ /\ node'[n].status = node[n].status
            /\ node'[n].attempt = node[n].attempt
            /\ node'[n].output = node[n].output
            /\ node'[n].input = node[n].input
         \/ /\ node[n].status \notin {"pending", "succeeded"}
            /\ node'[n].status # "succeeded"
            /\ Agree(run[n[1]].status, node'[n].status)
            /\ node'[n].output = node[n].output
            /\ node'[n].input = node[n].input

\* A node that is not the last has a follower in the same run.
LEMMA FollowingInRun ==
    ASSUME NEW n \in NodeRuns, ~IsLast(n)
    PROVE  /\ Following(n) \in NodeRuns
           /\ Following(n)[1] = n[1]
           /\ Following(n)[2] = n[2] + 1
           /\ Following(n) # n
  BY NodeRunPair, RuntimeAssumption DEF Following, IsLast, NodeRuns, Ordinals

\* Rows that change in place keep the frontier and the bindings.
LEMMA KeepPlacePreserves ==
    ASSUME TypeOK, LinearFrontier, RunAgreesWithNode, OutputsOfWinner, KeepPlace
    PROVE  LinearFrontier' /\ RunAgreesWithNode' /\ OutputsOfWinner'
  <1>1. LinearFrontier'
    <2>1. ASSUME NEW n \in NodeRuns, IsBefore(n)'
          PROVE  node'[n].status = "succeeded"
      BY <2>1 DEF LinearFrontier, KeepPlace, IsBefore
    <2>2. ASSUME NEW n \in NodeRuns, IsBeyond(n)'
          PROVE  Untouched(n)'
      BY <2>2 DEF LinearFrontier, KeepPlace, IsBeyond, Untouched
    <2>3. QED
      BY <2>1, <2>2 DEF LinearFrontier, KeepPlace
  <1>2. RunAgreesWithNode'
    BY DEF RunAgreesWithNode, KeepPlace, IsCurrent
  <1>3. OutputsOfWinner'
    <2> SUFFICES ASSUME NEW n \in NodeRuns
                 PROVE  /\ node'[n].status = "succeeded" => node'[n].output = node'[n].attempt
                        /\ node'[n].output # 0 => node'[n].status = "succeeded"
                        /\ ~IsLast(n) => node'[Following(n)].input = node'[n].output
      BY DEF OutputsOfWinner
    <2>1. \A m \in NodeRuns : node'[m].output = node[m].output /\ node'[m].input = node[m].input
      BY DEF KeepPlace
    <2>2. ~IsLast(n) => node'[Following(n)].input = node'[n].output
      BY <2>1, FollowingInRun DEF OutputsOfWinner
    <2>3. QED
      BY <2>1, <2>2 DEF OutputsOfWinner, KeepPlace
  <1>4. QED
    BY <1>1, <1>2, <1>3

\* Row n, its run's current node or the first node of a queued run, moves to
\* status s and its run to status t.
Moves(n, s, t) ==
    /\ IsCurrent(n) \/ (run[n[1]].status = "queued" /\ n[2] = 1)
    /\ node[n].status # "succeeded" /\ s # "succeeded"
    /\ Agree(t, s)
    /\ run' \in [Runs -> RunRow]
    /\ run'[n[1]].status = t
    /\ run'[n[1]].current = n[2]
    /\ \A q \in Runs : q # n[1] => run'[q] = run[q]
    /\ node' \in [NodeRuns -> NodeRow]
    /\ node'[n].status = s
    /\ node'[n].output = node[n].output
    /\ node'[n].input = node[n].input
    /\ \A m \in NodeRuns : m # n => node'[m] = node[m]

\* A node run is determined by its run and its ordinal.
LEMMA SameRun ==
    ASSUME NEW m \in NodeRuns, NEW n \in NodeRuns, m[1] = n[1], m[2] = n[2]
    PROVE  m = n
  BY NodeRunPair

\* A move of the current node and its run keeps the frontier and the bindings.
LEMMA MovesPreserves ==
    ASSUME TypeOK, LinearFrontier, RunAgreesWithNode, OutputsOfWinner,
           NEW n \in NodeRuns, NEW s, NEW t, Moves(n, s, t)
    PROVE  LinearFrontier' /\ RunAgreesWithNode' /\ OutputsOfWinner'
  <1> DEFINE r == n[1]
  <1>1. /\ r \in Runs /\ n[2] \in 1..NodeCount /\ NodeCount \in Nat
        /\ run[r].current \in 0..NodeCount
    BY NodeRunPair, RuntimeAssumption DEF TypeOK, RunRow, Ordinals
  <1>2. t \notin {"queued", "succeeded"}
    BY DEF Moves, Agree
  <1>3. run[r].status # "succeeded"
    BY <1>1 DEF Moves, LinearFrontier, IsCurrent
  <1>4. \A m \in NodeRuns : m[1] = r /\ m # n => m[2] # n[2]
    BY SameRun
  <1>5. \A m \in NodeRuns : m[2] \in 1..NodeCount /\ m[1] \in Runs
    BY NodeRunPair DEF Ordinals
  <1>6. LinearFrontier'
    <2>1. \A q \in Runs : run'[q].current = 0 <=> run'[q].status \in {"queued", "succeeded"}
      BY <1>1, <1>2 DEF LinearFrontier, Moves
    <2>2. ASSUME NEW m \in NodeRuns, IsBefore(m)'
          PROVE  node'[m].status = "succeeded"
      <3>1. CASE m[1] # r
        BY <2>2, <3>1, <1>5 DEF Moves, IsBefore, LinearFrontier
      <3>2. CASE m[1] = r
        <4>1. m[2] < n[2]
          BY <2>2, <3>2, <1>2 DEF Moves, IsBefore
        <4>2. IsCurrent(n)
          BY <4>1, <1>1, <1>5 DEF Moves
        <4>3. IsBefore(m) /\ m # n
          BY <4>1, <4>2, <3>2, <1>1 DEF IsBefore, IsCurrent
        <4>4. QED
          BY <4>3 DEF Moves, LinearFrontier
      <3>3. QED
        BY <3>1, <3>2
    <2>3. ASSUME NEW m \in NodeRuns, IsBeyond(m)'
          PROVE  Untouched(m)'
      <3>1. CASE m[1] # r
        BY <2>3, <3>1, <1>5 DEF Moves, IsBeyond, LinearFrontier, Untouched
      <3>2. CASE m[1] = r
        <4>1. m[2] > n[2] /\ m # n
          BY <2>3, <3>2, <1>1 DEF Moves, IsBeyond
        <4>2. IsBeyond(m)
          BY <4>1, <3>2, <1>1, <1>3, <1>5 DEF IsBeyond, IsCurrent, LinearFrontier, Moves
        <4>3. QED
          BY <4>1, <4>2 DEF Moves, LinearFrontier, Untouched
      <3>3. QED
        BY <3>1, <3>2
    <2>4. QED
      BY <2>1, <2>2, <2>3 DEF LinearFrontier
  <1>7. RunAgreesWithNode'
    BY <1>4, <1>5 DEF RunAgreesWithNode, Moves, IsCurrent
  <1>8. OutputsOfWinner'
    <2>1. \A m \in NodeRuns : node'[m].output = node[m].output /\ node'[m].input = node[m].input
      BY DEF Moves
    <2>2. \A m \in NodeRuns : ~IsLast(m) => node'[Following(m)].input = node'[m].output
      BY <2>1, FollowingInRun DEF OutputsOfWinner
    <2>3. \A m \in NodeRuns : /\ node'[m].status = "succeeded" => node'[m].output = node'[m].attempt
                              /\ node'[m].output # 0 => node'[m].status = "succeeded"
      BY DEF Moves, OutputsOfWinner
    <2>4. QED
      BY <2>2, <2>3 DEF OutputsOfWinner
  <1>9. QED
    BY <1>6, <1>7, <1>8

-----------------------------------------------------------------------------
(* Advancing past a node.                                                  *)

\* Done binds the outputs and releases the node.
LEMMA DoneRow ==
    ASSUME node \in [NodeRuns -> NodeRow], NEW n \in NodeRuns, NEW a \in 0..MaxAttempt
    PROVE  /\ Done(n, a) \in NodeRow
           /\ Done(n, a).status = "succeeded"
           /\ Done(n, a).output = a
           /\ Done(n, a).attempt = node[n].attempt
           /\ Done(n, a).input = node[n].input
           /\ Done(n, a).lease = "none"
  <1>1. Released(n, "succeeded") \in NodeRow
    BY ReleasedRow DEF NodeStatus
  <1>2. QED
    BY <1>1, ReleasedRow DEF Done, NodeRow, NodeStatus

\* Fed changes the input bindings and the status only.
LEMMA FedRow ==
    ASSUME node \in [NodeRuns -> NodeRow], NEW n \in NodeRuns,
           NEW a \in 0..MaxAttempt, NEW s \in NodeStatus
    PROVE  /\ Fed(n, a, s) \in NodeRow
           /\ Fed(n, a, s).input = a
           /\ Fed(n, a, s).status = s
           /\ Fed(n, a, s).output = node[n].output
           /\ Fed(n, a, s).attempt = node[n].attempt
           /\ Fed(n, a, s).owner = node[n].owner
           /\ Fed(n, a, s).lease = node[n].lease
           /\ Fed(n, a, s).checkpoint = node[n].checkpoint
  BY DEF Fed, NodeRow

\* The rows AdvanceRun writes: the last node of a line, and any other node.
LEMMA AdvanceLast ==
    ASSUME TypeOK, NEW n \in NodeRuns, NEW a \in 0..MaxAttempt,
           AdvanceRun(n, a), IsLast(n)
    PROVE  /\ node' \in [NodeRuns -> NodeRow]
           /\ node'[n] = Done(n, a)
           /\ \A m \in NodeRuns : m # n => node'[m] = node[m]
           /\ run' \in [Runs -> RunRow]
           /\ run'[n[1]].status = "succeeded"
           /\ run'[n[1]].current = 0
           /\ \A q \in Runs : q # n[1] => run'[q] = run[q]
  <1>1. n[1] \in Runs
    BY NodeRunPair
  <1>2. node' = [node EXCEPT ![n] = Done(n, a)] /\ SetRun(n[1], "succeeded", 0)
    BY DEF AdvanceRun
  <1>3. Done(n, a) \in NodeRow
    BY DoneRow DEF TypeOK
  <1>4. QED
    BY <1>1, <1>2, <1>3, SetRunEffect, RuntimeAssumption DEF TypeOK, RunStatus

\* The rows AdvanceRun writes when another node follows.
LEMMA AdvanceInner ==
    ASSUME TypeOK, NEW n \in NodeRuns, NEW a \in 0..MaxAttempt,
           AdvanceRun(n, a), ~IsLast(n)
    PROVE  LET x == Following(n)
               pausing == run[n[1]].status = "pausing"
               s == IF node[x].status = "pending" /\ ~pausing
                    THEN "queued" ELSE node[x].status
           IN  /\ node' \in [NodeRuns -> NodeRow]
               /\ node'[n] = Done(n, a)
               /\ s \in NodeStatus
               /\ node'[x] = Fed(x, a, s)
               /\ \A m \in NodeRuns : m # n /\ m # x => node'[m] = node[m]
               /\ run' \in [Runs -> RunRow]
               /\ run'[n[1]].status = (IF pausing THEN "paused" ELSE "running")
               /\ run'[n[1]].current = n[2] + 1
               /\ \A q \in Runs : q # n[1] => run'[q] = run[q]
  <1> DEFINE x == Following(n)
             t == IF run[n[1]].status = "pausing" THEN "paused" ELSE "running"
             s == IF node[x].status = "pending" /\ ~(run[n[1]].status = "pausing")
                  THEN "queued" ELSE node[x].status
  <1>1. n[1] \in Runs /\ x \in NodeRuns /\ x # n /\ x[2] = n[2] + 1 /\ x[2] \in 0..NodeCount
    BY FollowingInRun, NodeRunPair, RuntimeAssumption DEF Ordinals
  <1>2. s \in NodeStatus /\ t \in RunStatus
    BY <1>1 DEF TypeOK, NodeRow, NodeStatus, RunStatus
  <1>3. node' = [node EXCEPT ![n] = Done(n, a), ![x] = Fed(x, a, s)] /\ SetRun(n[1], t, x[2])
    BY DEF AdvanceRun
  <1>4. Done(n, a) \in NodeRow /\ Fed(x, a, s) \in NodeRow
    BY <1>1, <1>2, DoneRow, FedRow DEF TypeOK
  <1>5. /\ run' \in [Runs -> RunRow] /\ run'[n[1]].status = t
        /\ run'[n[1]].current = n[2] + 1
        /\ \A q \in Runs : q # n[1] => run'[q] = run[q]
    BY <1>1, <1>2, <1>3, SetRunEffect DEF TypeOK
  <1> HIDE DEF x, s, t
  <1>6. /\ node' \in [NodeRuns -> NodeRow]
        /\ node'[n] = Done(n, a) /\ node'[x] = Fed(x, a, s)
        /\ \A m \in NodeRuns : m # n /\ m # x => node'[m] = node[m]
    BY <1>1, <1>3, <1>4 DEF TypeOK
  <1>7. QED
    BY <1>2, <1>5, <1>6 DEF x, s, t

\* Advancing past the current node keeps the frontier, the agreement of the
\* run with its (new) current node, and the bindings.
LEMMA AdvanceLastPreserves ==
    ASSUME TypeOK, LinearFrontier, RunAgreesWithNode, OutputsOfWinner,
           NEW n \in NodeRuns, IsCurrent(n), IsLast(n),
           run[n[1]].status # "succeeded",
           AdvanceRun(n, node[n].attempt)
    PROVE  LinearFrontier' /\ RunAgreesWithNode' /\ OutputsOfWinner'
  <1> DEFINE r == n[1]
  <1>1. /\ r \in Runs /\ n[2] \in 1..NodeCount /\ NodeCount \in Nat
        /\ run[r].current = n[2] /\ node[n].attempt \in 0..MaxAttempt
    BY NodeRunPair, RuntimeAssumption DEF TypeOK, NodeRow, Ordinals, IsCurrent
  <1>2. \A m \in NodeRuns : m[1] \in Runs /\ m[2] \in 1..NodeCount
    BY NodeRunPair DEF Ordinals
  <1>3. /\ node'[n].status = "succeeded"
        /\ node'[n].output = node[n].attempt
        /\ node'[n].attempt = node[n].attempt
        /\ node'[n].input = node[n].input
        /\ \A m \in NodeRuns : m # n => node'[m] = node[m]
        /\ run'[r].status = "succeeded" /\ run'[r].current = 0
        /\ \A q \in Runs : q # r => run'[q] = run[q]
    BY <1>1, AdvanceLast, DoneRow DEF TypeOK
  <1>4. LinearFrontier'
    <2>1. \A q \in Runs : run'[q].current = 0 <=> run'[q].status \in {"queued", "succeeded"}
      BY <1>3 DEF LinearFrontier
    <2>2. ASSUME NEW m \in NodeRuns, IsBefore(m)'
          PROVE  node'[m].status = "succeeded"
      <3>1. CASE m[1] # r
        BY <2>2, <3>1, <1>2, <1>3 DEF IsBefore, LinearFrontier
      <3>2. CASE m[1] = r /\ m # n
        <4>1. m[2] < n[2]
          BY <3>2, <1>1, <1>2, SameRun DEF IsLast
        <4>2. QED
          BY <4>1, <3>2, <1>1, <1>3 DEF LinearFrontier, IsBefore
      <3>3. CASE m = n
        BY <3>3, <1>3
      <3>4. QED
        BY <3>1, <3>2, <3>3
    <2>3. ASSUME NEW m \in NodeRuns, IsBeyond(m)'
          PROVE  Untouched(m)'
      <3>1. m[1] # r
        BY <2>3, <1>3 DEF IsBeyond
      <3>2. QED
        BY <3>1, <2>3, <1>2, <1>3 DEF LinearFrontier, IsBeyond, Untouched
    <2>4. QED
      BY <2>1, <2>2, <2>3 DEF LinearFrontier
  <1>5. RunAgreesWithNode'
    <2> SUFFICES ASSUME NEW m \in NodeRuns, IsCurrent(m)'
                 PROVE  Agree(run'[m[1]].status, node'[m].status)
      BY DEF RunAgreesWithNode
    <2>1. m[1] # r
      BY <1>2, <1>3 DEF IsCurrent
    <2>2. QED
      BY <2>1, <1>2, <1>3 DEF IsCurrent, RunAgreesWithNode
  <1>6. OutputsOfWinner'
    <2>1. \A m \in NodeRuns : ~IsLast(m) => m # n /\ node'[Following(m)].input = node[m].output
      BY <1>3, FollowingInRun DEF OutputsOfWinner
    <2>2. QED
      BY <2>1, <1>3 DEF OutputsOfWinner
  <1>7. QED
    BY <1>4, <1>5, <1>6

\* The same when another node follows: it was untouched, and is next.
LEMMA AdvanceInnerPreserves ==
    ASSUME TypeOK, LinearFrontier, RunAgreesWithNode, OutputsOfWinner,
           NEW n \in NodeRuns, IsCurrent(n), ~IsLast(n),
           run[n[1]].status # "succeeded",
           AdvanceRun(n, node[n].attempt)
    PROVE  /\ LinearFrontier' /\ RunAgreesWithNode' /\ OutputsOfWinner'
           /\ node[Following(n)].status = "pending"
  <1> DEFINE r == n[1]
             x == Following(n)
             t == IF run[r].status = "pausing" THEN "paused" ELSE "running"
             s == IF run[r].status = "pausing" THEN "pending" ELSE "queued"
  <1>1. /\ r \in Runs /\ n[2] \in 1..NodeCount /\ NodeCount \in Nat
        /\ run[r].current = n[2] /\ node[n].attempt \in 0..MaxAttempt
    BY NodeRunPair, RuntimeAssumption DEF TypeOK, NodeRow, Ordinals, IsCurrent
  <1>2. \A m \in NodeRuns : m[1] \in Runs /\ m[2] \in 1..NodeCount
    BY NodeRunPair DEF Ordinals
  <1>3. x \in NodeRuns /\ x[1] = r /\ x[2] = n[2] + 1 /\ x # n
    BY FollowingInRun
  <1>4. Untouched(x)
    BY <1>1, <1>3 DEF LinearFrontier, IsBeyond
  <1>5. node[x].status = "pending" /\ node[x].output = 0
    BY <1>4 DEF Untouched
  <1> HIDE DEF x
  <1>6. /\ node'[n].status = "succeeded"
        /\ node'[n].output = node[n].attempt
        /\ node'[n].attempt = node[n].attempt
        /\ node'[n].input = node[n].input
    BY <1>1, AdvanceInner, DoneRow DEF TypeOK
  <1>7. /\ node'[x].status = s
        /\ node'[x].output = 0
        /\ node'[x].input = node[n].attempt
    BY <1>1, <1>3, <1>5, AdvanceInner, FedRow DEF TypeOK, x
  <1>8. /\ \A m \in NodeRuns : m # n /\ m # x => node'[m] = node[m]
        /\ run'[r].status = t /\ run'[r].current = n[2] + 1
        /\ \A q \in Runs : q # r => run'[q] = run[q]
    BY <1>1, AdvanceInner DEF x
  <1> HIDE DEF r
  <1>9. LinearFrontier'
    <2>1. \A q \in Runs : run'[q].current = 0 <=> run'[q].status \in {"queued", "succeeded"}
      BY <1>1, <1>8 DEF LinearFrontier
    <2>2. ASSUME NEW m \in NodeRuns, IsBefore(m)'
          PROVE  node'[m].status = "succeeded"
      <3>1. CASE m[1] # r
        <4>1. IsBefore(m) /\ m # n /\ m # x
          BY <2>2, <3>1, <1>2, <1>3, <1>8 DEF IsBefore, r
        <4>2. QED
          BY <4>1, <1>8 DEF LinearFrontier
      <3>2. CASE m[1] = r /\ m # n
        <4>1. m[2] < n[2]
          BY <2>2, <3>2, <1>1, <1>2, <1>8, SameRun DEF IsBefore, r
        <4>2. IsBefore(m) /\ m # x
          BY <4>1, <3>2, <1>1, <1>2, <1>3 DEF IsBefore
        <4>3. QED
          BY <4>2, <3>2, <1>8 DEF LinearFrontier
      <3>3. CASE m = n
        BY <3>3, <1>6
      <3>4. QED
        BY <3>1, <3>2, <3>3
    <2>3. ASSUME NEW m \in NodeRuns, IsBeyond(m)'
          PROVE  Untouched(m)'
      <3>1. IsBeyond(m) /\ m # n /\ m # x
        <4>1. CASE m[1] # r
          BY <2>3, <4>1, <1>2, <1>3, <1>8 DEF IsBeyond, r
        <4>2. CASE m[1] = r
          <5>1. m[2] > n[2] + 1
            BY <2>3, <4>2, <1>8 DEF IsBeyond
          <5>2. run[r].status # "succeeded"
            BY DEF r
          <5>3. QED
            BY <5>1, <5>2, <4>2, <1>1, <1>2, <1>3 DEF IsBeyond
        <4>3. QED
          BY <4>1, <4>2
      <3>2. QED
        BY <3>1, <1>8 DEF LinearFrontier, Untouched
    <2>4. QED
      BY <2>1, <2>2, <2>3 DEF LinearFrontier
  <1>10. RunAgreesWithNode'
    <2> SUFFICES ASSUME NEW m \in NodeRuns, IsCurrent(m)'
                 PROVE  Agree(run'[m[1]].status, node'[m].status)
      BY DEF RunAgreesWithNode
    <2>1. CASE m[1] # r
      <3>1. IsCurrent(m) /\ m # n /\ m # x
        BY <2>1, <1>2, <1>3, <1>8 DEF IsCurrent, r
      <3>2. QED
        BY <3>1, <2>1, <1>2, <1>8 DEF RunAgreesWithNode
    <2>2. CASE m[1] = r
      <3>1. m = x
        BY <2>2, <1>3, <1>8, SameRun DEF IsCurrent
      <3>2. QED
        BY <3>1, <2>2, <1>7, <1>8 DEF Agree
    <2>3. QED
      BY <2>1, <2>2
  <1>11. OutputsOfWinner'
    <2> SUFFICES ASSUME NEW m \in NodeRuns
                 PROVE  /\ node'[m].status = "succeeded" => node'[m].output = node'[m].attempt
                        /\ node'[m].output # 0 => node'[m].status = "succeeded"
                        /\ ~IsLast(m) => node'[Following(m)].input = node'[m].output
      BY DEF OutputsOfWinner
    <2>1. /\ node'[m].status = "succeeded" => node'[m].output = node'[m].attempt
          /\ node'[m].output # 0 => node'[m].status = "succeeded"
      BY <1>6, <1>7, <1>8 DEF OutputsOfWinner
    <2>2. CASE IsLast(m)
      BY <2>1, <2>2
    <2>3. CASE ~IsLast(m) /\ m = n
      BY <2>1, <2>3, <1>6, <1>7 DEF x
    <2>4. CASE ~IsLast(m) /\ m # n
      <3>1. Following(m) \in NodeRuns /\ Following(m)[1] = m[1] /\ Following(m)[2] = m[2] + 1
        BY <2>4, FollowingInRun
      <3>2. Following(m) # x
        BY <2>4, <3>1, <1>1, <1>2, <1>3, SameRun DEF r
      <3>3. node'[Following(m)].input = node[Following(m)].input
        BY <3>1, <3>2, <1>6, <1>8
      <3>4. node'[m].output = node[m].output
        BY <2>4, <1>5, <1>7, <1>8
      <3>5. QED
        BY <2>1, <2>4, <3>3, <3>4 DEF OutputsOfWinner
    <2>5. QED
      BY <2>2, <2>3, <2>4
  <1>12. QED
    BY <1>5, <1>9, <1>10, <1>11 DEF x

-----------------------------------------------------------------------------
(* The fencing token.                                                      *)

\* No row is claimed: attempts and checkpoints stay, no row starts to run, and
\* no lease comes to life on a row that runs.
KeepFence ==
    \A n \in NodeRuns :
      /\ node'[n].attempt = node[n].attempt
      /\ node'[n].status = "running" =>
           /\ node[n].status = "running"
           /\ node'[n].owner = node[n].owner
           /\ node'[n].lease = "live" => node[n].lease = "live"
           /\ node'[n].checkpoint = node[n].checkpoint

\* As long as no call enters and no row is claimed, the token stays exclusive
\* and the checkpoint is the holder's.
LEMMA FencePreserved ==
    ASSUME TypeOK, ExclusiveToken, CheckpointLineage, NoNewCalls, KeepFence
    PROVE  ExclusiveToken' /\ CheckpointLineage'
  <1>1. \A p \in Processes : worker[p].at \in NodeRuns
    BY DEF TypeOK, Worker
  <1>2. ExclusiveToken'
    <2> SUFFICES ASSUME NEW p \in Processes, Inside(p)'
                 PROVE  /\ worker'[p].attempt \in 1..node'[worker'[p].at].attempt
                        /\ worker'[p].attempt = node'[worker'[p].at].attempt
                             /\ node'[worker'[p].at].status = "running"
                           => node'[worker'[p].at].owner = p
                        /\ \A q \in Processes \ {p} :
                             Inside(q)' /\ worker'[q].at = worker'[p].at
                               => worker'[q].attempt # worker'[p].attempt
      BY DEF ExclusiveToken
    <2>1. /\ Inside(p) /\ worker'[p].at = worker[p].at
          /\ worker'[p].attempt = worker[p].attempt
      BY DEF NoNewCalls
    <2>2. node'[worker[p].at].attempt = node[worker[p].at].attempt
      BY <1>1 DEF KeepFence
    <2>3. node'[worker[p].at].status = "running" =>
             /\ node[worker[p].at].status = "running"
             /\ node'[worker[p].at].owner = node[worker[p].at].owner
      BY <1>1 DEF KeepFence
    <2>4. \A q \in Processes \ {p} :
             Inside(q)' /\ worker'[q].at = worker'[p].at
               => worker'[q].attempt # worker'[p].attempt
      BY <2>1 DEF NoNewCalls, ExclusiveToken
    <2>5. /\ worker[p].attempt \in 1..node[worker[p].at].attempt
          /\ worker[p].attempt = node[worker[p].at].attempt
             /\ node[worker[p].at].status = "running" => node[worker[p].at].owner = p
      BY <2>1 DEF ExclusiveToken
    <2>6. worker'[p].attempt \in 1..node'[worker'[p].at].attempt
      BY <2>1, <2>2, <2>5
    <2>7. worker'[p].attempt = node'[worker'[p].at].attempt
          /\ node'[worker'[p].at].status = "running" => node'[worker'[p].at].owner = p
      BY <2>1, <2>2, <2>3, <2>5
    <2>8. QED
      BY <2>4, <2>6, <2>7
  <1>3. CheckpointLineage'
    <2> SUFFICES ASSUME NEW p \in Processes, Inside(p)', HoldsLease(p)'
                 PROVE  node'[worker'[p].at].checkpoint \in {worker'[p].base, worker'[p].attempt}
      BY DEF CheckpointLineage
    <2> DEFINE n == worker[p].at
    <2>1. /\ Inside(p) /\ worker'[p].at = n
          /\ worker'[p].attempt = worker[p].attempt /\ worker'[p].base = worker[p].base
      BY DEF NoNewCalls
    <2>2. /\ node'[n].status = "running" /\ node'[n].attempt = worker[p].attempt
          /\ node'[n].owner = p /\ node'[n].lease = "live"
      BY <2>1 DEF HoldsLease
    <2>3. /\ node[n].status = "running" /\ node[n].attempt = worker[p].attempt
          /\ node[n].owner = p /\ node[n].lease = "live"
          /\ node'[n].checkpoint = node[n].checkpoint
      BY <1>1, <2>2 DEF KeepFence
    <2>4. HoldsLease(p)
      BY <2>3 DEF HoldsLease
    <2>5. QED
      BY <2>1, <2>3, <2>4 DEF CheckpointLineage
  <1>4. QED
    BY <1>2, <1>3

\* What replacing one row leaves alone.
LEMMA SetRow ==
    ASSUME node \in [NodeRuns -> NodeRow], NEW n \in NodeRuns, NEW row \in NodeRow,
           node' = [node EXCEPT ![n] = row]
    PROVE  /\ node' \in [NodeRuns -> NodeRow]
           /\ node'[n] = row
           /\ \A m \in NodeRuns : m # n => node'[m] = node[m]
  OBVIOUS

\* The pending cancellations and manual completions are typed.
RestTyped ==
    /\ cancels' \subseteq Processes \X Runs
    /\ manual' \subseteq NodeRuns \X (0..MaxAttempt)

\* The steps that write the row of one node, and its run's, and claim nothing.
LEMMA MoveStep ==
    ASSUME IInv, NEW n \in NodeRuns, NEW row \in NodeRow, NEW t \in RunStatus,
           IsCurrent(n) \/ (run[n[1]].status = "queued" /\ n[2] = 1),
           node[n].status # "succeeded", row.status # "succeeded",
           row.attempt = node[n].attempt,
           row.output = node[n].output,
           row.input = node[n].input,
           row.status = "running" => row = node[n],
           Agree(t, row.status),
           node' = [node EXCEPT ![n] = row],
           SetRun(n[1], t, n[2]),
           NoNewCalls, RestTyped
    PROVE  IInv'
  <1>1. n[1] \in Runs /\ n[2] \in 0..NodeCount
    BY NodeRunPair, RuntimeAssumption DEF Ordinals
  <1>2. /\ node' \in [NodeRuns -> NodeRow]
        /\ node'[n] = row
        /\ \A m \in NodeRuns : m # n => node'[m] = node[m]
    BY SetRow DEF IInv, TypeOK
  <1>3. Moves(n, row.status, t)
    BY <1>1, <1>2, SetRunEffect DEF Moves, IInv, TypeOK
  <1>4. LinearFrontier' /\ RunAgreesWithNode' /\ OutputsOfWinner'
    BY <1>3, MovesPreserves DEF IInv
  <1>5. KeepFence
    BY <1>2 DEF KeepFence
  <1>6. ExclusiveToken' /\ CheckpointLineage'
    BY <1>5, FencePreserved DEF IInv
  <1>7. TypeOK'
    BY <1>3 DEF TypeOK, Moves, NoNewCalls, RestTyped
  <1>8. QED
    BY <1>4, <1>6, <1>7 DEF IInv

\* The steps that leave the runs alone and claim nothing.
LEMMA PlaceStep ==
    ASSUME IInv, KeepPlace, KeepFence, NoNewCalls, RestTyped
    PROVE  IInv'
  <1>1. LinearFrontier' /\ RunAgreesWithNode' /\ OutputsOfWinner'
    BY KeepPlacePreserves DEF IInv
  <1>2. ExclusiveToken' /\ CheckpointLineage'
    BY FencePreserved DEF IInv
  <1>3. TypeOK'
    BY DEF IInv, TypeOK, KeepPlace, NoNewCalls, RestTyped
  <1>4. QED
    BY <1>1, <1>2, <1>3 DEF IInv

\* The two steps that advance the run past a node.
LEMMA AdvanceStep ==
    ASSUME IInv, NEW n \in NodeRuns,
           node[n].status \in {"running", "awaiting_manual_completion"},
           AdvanceRun(n, node[n].attempt), NoNewCalls, RestTyped
    PROVE  IInv'
  <1>1. IsCurrent(n) /\ run[n[1]].status # "succeeded" /\ node[n].attempt \in 0..MaxAttempt
    BY ActiveIsCurrent DEF IInv, Agree, TypeOK, NodeRow
  <1>2. CASE IsLast(n)
    <2>1. LinearFrontier' /\ RunAgreesWithNode' /\ OutputsOfWinner'
      BY <1>1, <1>2, AdvanceLastPreserves DEF IInv
    <2>2. /\ node' \in [NodeRuns -> NodeRow] /\ run' \in [Runs -> RunRow]
          /\ node'[n] = Done(n, node[n].attempt)
          /\ \A m \in NodeRuns : m # n => node'[m] = node[m]
      BY <1>1, <1>2, AdvanceLast DEF IInv
    <2>3. KeepFence
      BY <1>1, <2>2, DoneRow DEF KeepFence, IInv, TypeOK
    <2>4. QED
      BY <2>1, <2>2, <2>3, FencePreserved DEF IInv, TypeOK, NoNewCalls, RestTyped
  <1>3. CASE ~IsLast(n)
    <2> DEFINE x == Following(n)
               s == IF run[n[1]].status = "pausing" THEN "pending" ELSE "queued"
    <2>1. /\ LinearFrontier' /\ RunAgreesWithNode' /\ OutputsOfWinner'
          /\ node[x].status = "pending"
      BY <1>1, <1>3, AdvanceInnerPreserves DEF IInv
    <2>2. x \in NodeRuns
      BY <1>3, FollowingInRun
    <2>3. /\ node' \in [NodeRuns -> NodeRow] /\ run' \in [Runs -> RunRow]
          /\ node'[n] = Done(n, node[n].attempt)
          /\ node'[x] = Fed(x, node[n].attempt, s)
          /\ s \in NodeStatus
          /\ \A m \in NodeRuns : m # n /\ m # x => node'[m] = node[m]
      BY <1>1, <1>3, <2>1, AdvanceInner DEF IInv
    <2>4. KeepFence
      <3>1. node'[n].status # "running" /\ node'[n].attempt = node[n].attempt
        BY <1>1, <2>3, DoneRow DEF IInv, TypeOK
      <3>2. node'[x].status # "running" /\ node'[x].attempt = node[x].attempt
        BY <1>1, <2>2, <2>3, FedRow DEF IInv, TypeOK
      <3>3. QED
        BY <2>3, <3>1, <3>2 DEF KeepFence
    <2>5. QED
      BY <2>1, <2>3, <2>4, FencePreserved DEF IInv, TypeOK, NoNewCalls, RestTyped
  <1>4. QED
    BY <1>2, <1>3

-----------------------------------------------------------------------------
(* One lemma per group of actions: each preserves IInv.                    *)

\* A step of the user or of time leaves the workers where they are.
LEMMA SameWorkers ==
    ASSUME TypeOK, worker' = worker
    PROVE  NoNewCalls
  BY DEF TypeOK, NoNewCalls, Inside

\* StartWorkflowRun: the first node, untouched so far, is queued.
LEMMA StartPreserves ==
    ASSUME IInv, NEW r \in Runs, StartWorkflowRun(r)
    PROVE  IInv'
  <1> DEFINE n == <<r, 1>>
             row == [node[n] EXCEPT !.status = "queued"]
  <1>1. n \in NodeRuns /\ n[1] = r /\ n[2] = 1
    BY RuntimeAssumption DEF NodeRuns, Ordinals
  <1>2. run[r].status = "queued" /\ run[r].current = 0
    BY DEF StartWorkflowRun, IInv, LinearFrontier
  <1>3. node[n].status = "pending"
    BY <1>1, <1>2 DEF IInv, LinearFrontier, IsBeyond, Untouched
  <1>4. node[n] \in NodeRow
    BY <1>1 DEF IInv, TypeOK
  <1>5. /\ row \in NodeRow /\ row.status = "queued"
        /\ row.attempt = node[n].attempt /\ row.output = node[n].output
        /\ row.input = node[n].input
    BY <1>4 DEF NodeRow, NodeStatus
  <1>6. node' = [node EXCEPT ![n] = row]
    BY <1>3 DEF StartWorkflowRun
  <1>7. SetRun(n[1], "running", n[2]) /\ NoNewCalls /\ RestTyped
    BY SameWorkers DEF StartWorkflowRun, IInv, TypeOK, RestTyped
  <1> HIDE DEF row, n
  <1>8. QED
    BY <1>1, <1>2, <1>3, <1>5, <1>6, <1>7, MoveStep DEF Agree, RunStatus

\* RequestWorkflowRunPause: the current node stays or is taken out of the queue.
LEMMA PausePreserves ==
    ASSUME IInv, NEW p \in Processes, NEW r \in Runs, RequestWorkflowRunPause(p, r)
    PROVE  IInv'
  <1> DEFINE n == CurrentNode(r)
  <1>1. /\ run[r].status = "running"
        /\ node[n].status \in {"running", "queued", "pending", "retry_wait"}
        /\ NoNewCalls /\ RestTyped
    BY SameWorkers DEF RequestWorkflowRunPause, IInv, TypeOK, RestTyped
  <1>2. run[r].current \in 1..NodeCount
    BY <1>1, RuntimeAssumption DEF IInv, LinearFrontier, TypeOK, RunRow
  <1>3. n \in NodeRuns /\ n[1] = r /\ n[2] = run[r].current /\ IsCurrent(n)
    BY <1>2 DEF CurrentNode, NodeRuns, Ordinals, IsCurrent
  <1>4. node[n] \in NodeRow
    BY <1>3 DEF IInv, TypeOK
  <1>5. CASE node[n].status = "running"
    <2>1. SetRun(n[1], "pausing", n[2]) /\ node' = node
      BY <1>3, <1>5 DEF RequestWorkflowRunPause
    <2>2. node' = [node EXCEPT ![n] = node[n]]
      BY <2>1, <1>3 DEF IInv, TypeOK
    <2> HIDE DEF n
    <2>3. QED
      BY <1>1, <1>3, <1>4, <1>5, <2>1, <2>2, MoveStep DEF Agree, RunStatus
  <1>6. CASE node[n].status # "running"
    <2> DEFINE row == [node[n] EXCEPT !.status = "pending", !.retry = "none"]
    <2>1. /\ row \in NodeRow /\ row.status = "pending"
          /\ row.attempt = node[n].attempt /\ row.output = node[n].output
          /\ row.input = node[n].input
      BY <1>4 DEF NodeRow, NodeStatus
    <2>2. node' = [node EXCEPT ![n].status = "pending", ![n].retry = "none"]
      BY <1>6 DEF RequestWorkflowRunPause
    <2>3. node' = [node EXCEPT ![n] = row]
      BY <2>2, <1>3, <1>4 DEF IInv, TypeOK, NodeRow
    <2>4. SetRun(n[1], "paused", n[2])
      BY <1>3, <1>6 DEF RequestWorkflowRunPause
    <2> HIDE DEF n, row
    <2>5. QED
      BY <1>1, <1>3, <2>1, <2>3, <2>4, MoveStep DEF Agree, RunStatus
  <1>7. QED
    BY <1>5, <1>6

\* ResumeWorkflowRun: the first pending node by ordinal is the current one.
LEMMA ResumePreserves ==
    ASSUME IInv, NEW r \in Runs, ResumeWorkflowRun(r)
    PROVE  IInv'
  <1>1. PICK i \in Ordinals :
          /\ node[<<r, i>>].status \in {"pending", "retry_wait"}
          /\ \A j \in 1..(i - 1) : node[<<r, j>>].status \notin {"pending", "retry_wait"}
          /\ node' = [node EXCEPT ![<<r, i>>].status = "queued", ![<<r, i>>].retry = "none"]
          /\ SetRun(r, "running", i)
    BY DEF ResumeWorkflowRun
  <1> DEFINE n == <<r, i>>
             row == [node[n] EXCEPT !.status = "queued", !.retry = "none"]
  <1>2. run[r].status = "paused" /\ NoNewCalls /\ RestTyped
    BY SameWorkers DEF ResumeWorkflowRun, IInv, TypeOK, RestTyped
  <1>3. n \in NodeRuns /\ n[1] = r /\ n[2] = i /\ i \in Nat
    BY RuntimeAssumption DEF NodeRuns, Ordinals
  <1>4. run[r].current \in 1..NodeCount
    BY <1>2, RuntimeAssumption DEF IInv, LinearFrontier, TypeOK, RunRow
  <1>5. node[<<r, run[r].current>>].status = "pending"
    <2>1. <<r, run[r].current>> \in NodeRuns
      BY <1>4 DEF NodeRuns, Ordinals
    <2>2. QED
      BY <2>1, <1>2 DEF IInv, RunAgreesWithNode, IsCurrent, Agree
  <1>6. i = run[r].current
    <2>1. ~(i < run[r].current)
      BY <1>1, <1>3 DEF IInv, LinearFrontier, IsBefore
    <2>2. ~(run[r].current < i)
      BY <1>1, <1>3, <1>4, <1>5, RuntimeAssumption DEF Ordinals
    <2>3. QED
      BY <2>1, <2>2, <1>3, <1>4, RuntimeAssumption
  <1>7. node[n] \in NodeRow
    BY <1>3 DEF IInv, TypeOK
  <1>8. /\ row \in NodeRow /\ row.status = "queued"
        /\ row.attempt = node[n].attempt /\ row.output = node[n].output
        /\ row.input = node[n].input
    BY <1>7 DEF NodeRow, NodeStatus
  <1>9. node' = [node EXCEPT ![n] = row]
    BY <1>1, <1>3, <1>7 DEF IInv, TypeOK, NodeRow
  <1>10. IsCurrent(n) /\ SetRun(n[1], "running", n[2]) /\ node[n].status # "succeeded"
    BY <1>1, <1>3, <1>6 DEF IsCurrent
  <1> HIDE DEF n, row
  <1>11. QED
    BY <1>2, <1>3, <1>8, <1>9, <1>10, MoveStep DEF Agree, RunStatus

\* RequeueFailedWorkflowNode: a failed node is the current one of its run.
LEMMA RequeuePreserves ==
    ASSUME IInv, NEW n \in NodeRuns, RequeueFailedWorkflowNode(n)
    PROVE  IInv'
  <1> DEFINE row == [node[n] EXCEPT !.status = "queued", !.retry = "none"]
  <1>1. node[n].status = "failed" /\ SetRun(n[1], "running", n[2]) /\ NoNewCalls /\ RestTyped
    BY SameWorkers DEF RequeueFailedWorkflowNode, IInv, TypeOK, RestTyped
  <1>2. IsCurrent(n) /\ node[n] \in NodeRow
    BY <1>1, ActiveIsCurrent DEF IInv, TypeOK
  <1>3. /\ row \in NodeRow /\ row.status = "queued"
        /\ row.attempt = node[n].attempt /\ row.output = node[n].output
        /\ row.input = node[n].input
    BY <1>2 DEF NodeRow, NodeStatus
  <1>4. node' = [node EXCEPT ![n] = row]
    BY <1>2 DEF RequeueFailedWorkflowNode, IInv, TypeOK, NodeRow
  <1> HIDE DEF row
  <1>5. QED
    BY <1>1, <1>2, <1>3, <1>4, MoveStep DEF Agree, RunStatus

\* The node of a worker that holds its lease is its run's current one.
LEMMA HolderIsCurrent ==
    ASSUME IInv, NEW p \in Processes, HoldsLease(p)
    PROVE  LET n == worker[p].at IN
           /\ n \in NodeRuns
           /\ IsCurrent(n)
           /\ n[1] \in Runs
           /\ n[2] = run[n[1]].current
           /\ node[n] \in NodeRow
           /\ node[n].status = "running"
           /\ node[n].attempt = worker[p].attempt
           /\ run[n[1]].status \in {"running", "pausing"}
  <1> DEFINE n == worker[p].at
  <1>1. n \in NodeRuns /\ node[n].status = "running" /\ node[n].attempt = worker[p].attempt
    BY DEF IInv, TypeOK, Worker, HoldsLease
  <1>2. IsCurrent(n) /\ Agree(run[n[1]].status, node[n].status)
    BY <1>1, ActiveIsCurrent DEF IInv
  <1>3. QED
    BY <1>1, <1>2, NodeRunPair DEF IInv, TypeOK, IsCurrent, Agree

\* The transactions by which the holder of the lease gives its node up.
LEMMA DecisionPreserves ==
    ASSUME IInv, NEW p \in Processes, HoldsLease(p),
           NEW s \in NodeStatus \ {"running", "succeeded"},
           NEW row \in NodeRow,
           row = Released(worker[p].at, s)
             \/ row = [Released(worker[p].at, s) EXCEPT !.retry = "waiting"],
           NEW t \in RunStatus, Agree(t, s),
           node' = [node EXCEPT ![worker[p].at] = row],
           SetRun(worker[p].at[1], t, worker[p].at[2]),
           PollAgain(p), UNCHANGED <<cancels, manual>>
    PROVE  IInv'
  <1> DEFINE n == worker[p].at
  <1>1. /\ n \in NodeRuns /\ IsCurrent(n) /\ node[n].status = "running"
    BY HolderIsCurrent
  <1>2. Released(n, s) \in NodeRow
    BY <1>1, ReleasedRow DEF IInv, TypeOK
  <1>3. /\ row.status = s /\ row.attempt = node[n].attempt
        /\ row.output = node[n].output /\ row.input = node[n].input
    BY <1>1, <1>2, ReleasedRow DEF IInv, TypeOK, NodeRow
  <1>4. NoNewCalls /\ RestTyped
    BY LeaveEffect DEF IInv, TypeOK, RestTyped
  <1> HIDE DEF n
  <1>5. node' = [node EXCEPT ![n] = row] /\ SetRun(n[1], t, n[2])
    BY DEF n
  <1>6. QED
    BY <1>1, <1>3, <1>4, <1>5, MoveStep

\* PauseWorkflowNode, from halting or after a cancellation.
LEMMA PauseNodePreserves ==
    ASSUME IInv, NEW p \in Processes, PauseWorkflowNode(p)
    PROVE  IInv'
  <1> DEFINE row == Released(worker[p].at, "pending")
  <1>1. HoldsLease(p)
    BY DEF PauseWorkflowNode
  <1>2. row \in NodeRow
    BY <1>1, HolderIsCurrent, ReleasedRow DEF IInv, TypeOK, NodeStatus
  <1>3. QED
    BY <1>1, <1>2, DecisionPreserves DEF PauseWorkflowNode, Agree, RunStatus, NodeStatus

\* AwaitWorkflowNodeManual, also from a pausing run.
LEMMA AwaitPreserves ==
    ASSUME IInv, NEW p \in Processes, AwaitWorkflowNodeManual(p)
    PROVE  IInv'
  <1> DEFINE row == Released(worker[p].at, "awaiting_manual_completion")
  <1>1. HoldsLease(p)
    BY DEF AwaitWorkflowNodeManual
  <1>2. row \in NodeRow
    BY <1>1, HolderIsCurrent, ReleasedRow DEF IInv, TypeOK, NodeStatus
  <1>3. QED
    BY <1>1, <1>2, DecisionPreserves DEF AwaitWorkflowNodeManual, Agree, RunStatus, NodeStatus

\* FailWorkflowNode keeps current_node_id, which is the failed node.
LEMMA FailPreserves ==
    ASSUME IInv, NEW p \in Processes, FailWorkflowNode(p)
    PROVE  IInv'
  <1> DEFINE n == worker[p].at
             row == Released(n, "failed")
  <1>1. HoldsLease(p)
    BY DEF FailWorkflowNode
  <1>2. row \in NodeRow /\ n[2] = run[n[1]].current
    BY <1>1, HolderIsCurrent, ReleasedRow DEF IInv, TypeOK, NodeStatus
  <1>3. SetRun(n[1], "failed", n[2])
    BY <1>2 DEF FailWorkflowNode
  <1>4. QED
    BY <1>1, <1>2, <1>3, DecisionPreserves DEF FailWorkflowNode, Agree, RunStatus, NodeStatus

\* RetryWorkflowNode, also from a pausing run.
LEMMA RetryPreserves ==
    ASSUME IInv, NEW p \in Processes, RetryWorkflowNode(p)
    PROVE  IInv'
  <1> DEFINE row == [Released(worker[p].at, "retry_wait") EXCEPT !.retry = "waiting"]
  <1>1. HoldsLease(p)
    BY DEF RetryWorkflowNode
  <1>2. row \in NodeRow
    BY <1>1, HolderIsCurrent, ReleasedRow DEF IInv, TypeOK, NodeStatus, NodeRow
  <1>3. QED
    BY <1>1, <1>2, DecisionPreserves DEF RetryWorkflowNode, Agree, RunStatus, NodeStatus

\* CompleteWorkflowNode by the holder of the lease.
LEMMA CompletePreserves ==
    ASSUME IInv, NEW p \in Processes, CompleteWorkflowNode(p)
    PROVE  IInv'
  <1> DEFINE n == worker[p].at
  <1>1. /\ n \in NodeRuns /\ node[n].status = "running"
        /\ AdvanceRun(n, node[n].attempt)
    BY HolderIsCurrent DEF CompleteWorkflowNode
  <1>2. NoNewCalls /\ RestTyped
    BY LeaveEffect DEF CompleteWorkflowNode, IInv, TypeOK, RestTyped
  <1> HIDE DEF n
  <1>3. QED
    BY <1>1, <1>2, AdvanceStep

\* CompleteWorkflowNodeManual of a node that still awaits.
LEMMA CompleteManualPreserves ==
    ASSUME IInv, NEW c \in manual, CompleteWorkflowNodeManual(c[1], c[2])
    PROVE  IInv'
  <1>1. /\ c[1] \in NodeRuns
        /\ node[c[1]].status = "awaiting_manual_completion"
        /\ AdvanceRun(c[1], node[c[1]].attempt)
    BY DEF CompleteWorkflowNodeManual, IInv, TypeOK
  <1>2. NoNewCalls /\ RestTyped
    BY SameWorkers DEF CompleteWorkflowNodeManual, IInv, TypeOK, RestTyped
  <1>3. QED
    BY <1>1, <1>2, AdvanceStep

\* The steps that change no row at all.
LEMMA RowsUnchanged ==
    ASSUME IInv, UNCHANGED <<run, node>>, NoNewCalls, RestTyped
    PROVE  IInv'
  <1>1. KeepPlace /\ KeepFence
    BY DEF KeepPlace, KeepFence, IInv, TypeOK
  <1>2. QED
    BY <1>1, PlaceStep

\* A claim hands out an attempt no other call carries, and the checkpoint.
LEMMA ClaimPreserves ==
    ASSUME IInv, NEW p \in Processes, NEW n \in NodeRuns, ClaimWorkflowNode(p, n)
    PROVE  IInv'
  <1> DEFINE row == [node[n] EXCEPT !.status = "running", !.attempt = @ + 1,
                       !.owner = p, !.lease = "live", !.retry = "none"]
             call == [pc |-> "claimed", at |-> n, attempt |-> node[n].attempt + 1,
                      base |-> node[n].checkpoint, cancelled |-> FALSE,
                      lost |-> FALSE, outcome |-> "none"]
  <1>1. /\ worker[p].pc = "polling"
        /\ node[n].status \in {"queued", "retry_wait", "running"}
        /\ run[n[1]].status \in {"running", "pausing"}
        /\ node[n].attempt < MaxAttempt
    BY DEF ClaimWorkflowNode, Claimable
  <1>2. /\ node[n] \in NodeRow
        /\ \A q \in Processes : worker[q] \in Worker /\ worker[q].at \in NodeRuns
    BY DEF IInv, TypeOK, Worker
  <1>3. /\ row \in NodeRow /\ row.status = "running" /\ row.attempt = node[n].attempt + 1
        /\ row.owner = p /\ row.checkpoint = node[n].checkpoint
        /\ row.output = node[n].output /\ row.input = node[n].input
        /\ node[n].attempt \in Nat
    <2>1. node[n].attempt \in Nat /\ node[n].attempt + 1 \in 0..MaxAttempt
      BY <1>1, <1>2, RuntimeAssumption DEF NodeRow
    <2>2. row = [node[n] EXCEPT !.status = "running", !.attempt = node[n].attempt + 1,
                    !.owner = p, !.lease = "live", !.retry = "none"]
      BY <1>2 DEF NodeRow
    <2> HIDE DEF row
    <2>3. QED
      BY <1>2, <2>1, <2>2 DEF NodeRow, NodeStatus
  <1>4. /\ call \in Worker /\ call.pc = "claimed" /\ call.at = n
        /\ call.attempt = node[n].attempt + 1 /\ call.base = node[n].checkpoint
    BY <1>1, <1>2, RuntimeAssumption DEF NodeRow, Worker, WorkerPC, Outcomes
  <1>5. node' = [node EXCEPT ![n] = row]
    BY <1>2 DEF ClaimWorkflowNode, IInv, TypeOK, NodeRow
  <1>6. worker' = [worker EXCEPT ![p] = call] /\ UNCHANGED <<run, cancels, manual>>
    BY DEF ClaimWorkflowNode
  <1> HIDE DEF row, call
  <1>7. /\ node' \in [NodeRuns -> NodeRow] /\ node'[n] = row
        /\ \A m \in NodeRuns : m # n => node'[m] = node[m]
    BY <1>3, <1>5 DEF IInv, TypeOK
  <1>8. /\ worker' \in [Processes -> Worker] /\ worker'[p] = call
        /\ \A q \in Processes : q # p => worker'[q] = worker[q]
    BY <1>4, <1>6 DEF IInv, TypeOK
  <1>9. TypeOK'
    BY <1>6, <1>7, <1>8 DEF IInv, TypeOK
  <1>10. LinearFrontier' /\ RunAgreesWithNode' /\ OutputsOfWinner'
    <2>1. Agree(run[n[1]].status, "running")
      BY <1>1 DEF Agree
    <2>2. KeepPlace
      BY <1>1, <1>3, <1>6, <1>7, <2>1 DEF KeepPlace
    <2>3. QED
      BY <2>2, KeepPlacePreserves DEF IInv
  <1>11. \A q \in Processes \ {p} : Inside(q)' => /\ Inside(q)
                                                  /\ worker'[q] = worker[q]
                                                  /\ worker[q].attempt \in 1..node[worker[q].at].attempt
    BY <1>8 DEF Inside, IInv, ExclusiveToken
  <1>12. \A m \in NodeRuns : m # n => node'[m] = node[m]
    BY <1>7
  <1>13. ExclusiveToken'
    <2>1. \A q \in Processes \ {p} : Inside(q)' /\ worker'[q].at = n => worker'[q].attempt # call.attempt
      BY <1>2, <1>3, <1>4, <1>11 DEF Worker
    <2> SUFFICES ASSUME NEW q \in Processes, Inside(q)'
                 PROVE  /\ worker'[q].attempt \in 1..node'[worker'[q].at].attempt
                        /\ worker'[q].attempt = node'[worker'[q].at].attempt
                             /\ node'[worker'[q].at].status = "running"
                           => node'[worker'[q].at].owner = q
                        /\ \A u \in Processes \ {q} :
                             Inside(u)' /\ worker'[u].at = worker'[q].at
                               => worker'[u].attempt # worker'[q].attempt
      BY DEF ExclusiveToken
    <2>2. CASE q = p
      <3>1. worker'[q].at = n /\ worker'[q].attempt = node[n].attempt + 1
        BY <2>2, <1>4, <1>8
      <3>2. node'[n].attempt = node[n].attempt + 1 /\ node'[n].owner = p
        BY <1>3, <1>7
      <3>3. QED
        BY <2>1, <2>2, <3>1, <3>2, <1>3, <1>4
    <2>3. CASE q # p
      <3>1. /\ Inside(q) /\ worker'[q] = worker[q]
            /\ worker[q].attempt \in 1..node[worker[q].at].attempt
        BY <2>3, <1>11
      <3>2. \A u \in Processes \ {q} :
              Inside(u)' /\ worker'[u].at = worker'[q].at
                => worker'[u].attempt # worker'[q].attempt
        <4> SUFFICES ASSUME NEW u \in Processes \ {q}, Inside(u)',
                            worker'[u].at = worker'[q].at
                     PROVE  worker'[u].attempt # worker'[q].attempt
          OBVIOUS
        <4>1. CASE u = p
          BY <4>1, <2>1, <2>3, <1>4, <1>8
        <4>2. CASE u # p
          BY <4>2, <3>1, <1>11 DEF IInv, ExclusiveToken
        <4>3. QED
          BY <4>1, <4>2
      <3>3. CASE worker[q].at = n
        <4>1. node'[n].attempt = node[n].attempt + 1
          BY <1>3, <1>7
        <4>2. QED
          BY <3>1, <3>2, <3>3, <4>1, <1>3
      <3>4. CASE worker[q].at # n
        <4>1. node'[worker[q].at] = node[worker[q].at]
          BY <3>4, <1>2, <1>12
        <4>2. worker[q].attempt = node[worker[q].at].attempt
                /\ node[worker[q].at].status = "running" => node[worker[q].at].owner = q
          BY <3>1 DEF IInv, ExclusiveToken
        <4>3. QED
          BY <3>1, <3>2, <4>1, <4>2
      <3>5. QED
        BY <3>3, <3>4
    <2>4. QED
      BY <2>2, <2>3
  <1>14. CheckpointLineage'
    <2> SUFFICES ASSUME NEW q \in Processes, Inside(q)', HoldsLease(q)'
                 PROVE  node'[worker'[q].at].checkpoint \in {worker'[q].base, worker'[q].attempt}
      BY DEF CheckpointLineage
    <2>1. CASE q = p
      BY <2>1, <1>3, <1>4, <1>7, <1>8
    <2>2. CASE q # p
      <3>1. Inside(q) /\ worker'[q] = worker[q]
        BY <2>2, <1>11
      <3>2. node'[worker[q].at].owner = q
        BY <3>1 DEF HoldsLease
      <3>3. worker[q].at # n
        BY <3>2, <2>2, <1>3, <1>7
      <3>4. node'[worker[q].at] = node[worker[q].at]
        BY <3>3, <1>2, <1>12
      <3>5. HoldsLease(q)
        BY <3>1, <3>4 DEF HoldsLease
      <3>6. QED
        BY <3>1, <3>4, <3>5 DEF IInv, CheckpointLineage
    <2>3. QED
      BY <2>1, <2>2
  <1>15. QED
    BY <1>9, <1>10, <1>13, <1>14 DEF IInv

\* SaveCheckpoint by the holder writes the holder's own attempt.
LEMMA CheckpointPreserves ==
    ASSUME IInv, NEW p \in Processes, SaveCheckpoint(p)
    PROVE  IInv'
  <1> DEFINE n == worker[p].at
             row == [node[n] EXCEPT !.checkpoint = worker[p].attempt]
  <1>1. /\ n \in NodeRuns /\ node[n] \in NodeRow /\ node[n].status = "running"
        /\ node[n].attempt = worker[p].attempt /\ HoldsLease(p)
        /\ worker[p].attempt \in 0..MaxAttempt /\ Inside(p)
    BY HolderIsCurrent DEF SaveCheckpoint, IInv, TypeOK, Worker, Inside
  <1>2. /\ row \in NodeRow /\ row.status = node[n].status /\ row.attempt = node[n].attempt
        /\ row.owner = node[n].owner /\ row.lease = node[n].lease
        /\ row.output = node[n].output /\ row.input = node[n].input
        /\ row.checkpoint = worker[p].attempt
    BY <1>1 DEF NodeRow
  <1>3. node' = [node EXCEPT ![n] = row] /\ UNCHANGED <<run, worker, cancels, manual>>
    BY <1>1 DEF SaveCheckpoint, IInv, TypeOK
  <1> HIDE DEF row, n
  <1>4. /\ node' \in [NodeRuns -> NodeRow] /\ node'[n] = row
        /\ \A m \in NodeRuns : m # n => node'[m] = node[m]
    BY <1>1, <1>2, <1>3 DEF IInv, TypeOK
  <1>5. TypeOK'
    BY <1>3, <1>4 DEF IInv, TypeOK
  <1>6. KeepPlace
    BY <1>2, <1>3, <1>4 DEF KeepPlace
  <1>7. LinearFrontier' /\ RunAgreesWithNode' /\ OutputsOfWinner'
    BY <1>6, KeepPlacePreserves DEF IInv
  <1>8. \A m \in NodeRuns : /\ node'[m].status = node[m].status
                            /\ node'[m].attempt = node[m].attempt
                            /\ node'[m].owner = node[m].owner
                            /\ node'[m].lease = node[m].lease
    BY <1>2, <1>4
  <1>9. \A q \in Processes : worker[q].at \in NodeRuns
    BY DEF IInv, TypeOK, Worker
  <1>10. ExclusiveToken'
    BY <1>3, <1>8, <1>9 DEF IInv, ExclusiveToken, Inside
  <1>11. CheckpointLineage'
    <2> SUFFICES ASSUME NEW q \in Processes, Inside(q)', HoldsLease(q)'
                 PROVE  node'[worker'[q].at].checkpoint \in {worker'[q].base, worker'[q].attempt}
      BY DEF CheckpointLineage
    <2>1. Inside(q) /\ HoldsLease(q) /\ worker'[q] = worker[q]
      BY <1>3, <1>8, <1>9 DEF Inside, HoldsLease
    <2>2. CASE worker[q].at = n
      <3>1. q = p
        BY <2>1, <2>2, <1>1 DEF HoldsLease, n
      <3>2. QED
        BY <3>1, <2>1, <2>2, <1>2, <1>4
    <2>3. CASE worker[q].at # n
      BY <2>1, <2>3, <1>4, <1>9 DEF IInv, CheckpointLineage
    <2>4. QED
      BY <2>2, <2>3
  <1>12. QED
    BY <1>5, <1>7, <1>10, <1>11 DEF IInv

-----------------------------------------------------------------------------
\* LeaseExpires and RetryBecomesDue change a column the frontier ignores.
LEMMA TimePreserves ==
    ASSUME IInv, NEW n \in NodeRuns, LeaseExpires(n) \/ RetryBecomesDue(n)
    PROVE  IInv'
  <1>1. UNCHANGED <<run, worker, cancels, manual>>
    BY DEF LeaseExpires, RetryBecomesDue
  <1>2. PICK row \in NodeRow :
          /\ node' = [node EXCEPT ![n] = row]
          /\ row.status = node[n].status /\ row.attempt = node[n].attempt
          /\ row.owner = node[n].owner /\ row.checkpoint = node[n].checkpoint
          /\ row.output = node[n].output /\ row.input = node[n].input
          /\ row.lease = "live" => node[n].lease = "live"
    <2>1. node[n] \in NodeRow
      BY DEF IInv, TypeOK
    <2>2. CASE LeaseExpires(n)
      <3> DEFINE row == [node[n] EXCEPT !.lease = "expired"]
      <3>1. node' = [node EXCEPT ![n] = row]
        BY <2>2 DEF LeaseExpires
      <3>2. /\ row \in NodeRow /\ row.status = node[n].status
            /\ row.attempt = node[n].attempt /\ row.owner = node[n].owner
            /\ row.checkpoint = node[n].checkpoint /\ row.output = node[n].output
            /\ row.input = node[n].input
            /\ row.lease = "live" => node[n].lease = "live"
        BY <2>1 DEF NodeRow
      <3> HIDE DEF row
      <3>3. QED
        BY <3>1, <3>2
    <2>3. CASE RetryBecomesDue(n)
      <3> DEFINE row == [node[n] EXCEPT !.retry = "due"]
      <3>1. node' = [node EXCEPT ![n] = row]
        BY <2>3 DEF RetryBecomesDue
      <3>2. /\ row \in NodeRow /\ row.status = node[n].status
            /\ row.attempt = node[n].attempt /\ row.owner = node[n].owner
            /\ row.checkpoint = node[n].checkpoint /\ row.output = node[n].output
            /\ row.input = node[n].input
            /\ row.lease = "live" => node[n].lease = "live"
        BY <2>1 DEF NodeRow
      <3> HIDE DEF row
      <3>3. QED
        BY <3>1, <3>2
    <2>4. QED
      BY <2>2, <2>3
  <1>3. KeepPlace /\ KeepFence
    BY <1>1, <1>2, SetRow DEF KeepPlace, KeepFence, IInv, TypeOK
  <1>4. NoNewCalls /\ RestTyped
    BY <1>1, SameWorkers DEF IInv, TypeOK, RestTyped
  <1>5. QED
    BY <1>3, <1>4, PlaceStep

\* Recovery puts expired rows back in the queue, in runs that may be claimed.
LEMMA StartWorkerPreserves ==
    ASSUME IInv, NEW p \in Processes, StartWorker(p)
    PROVE  IInv'
  <1>1. NoNewCalls /\ RestTyped /\ run' = run
    BY LeaveEffect DEF StartWorker, IInv, TypeOK, RestTyped
  <1>2. \A n \in NodeRuns :
          node'[n] = IF node[n].status = "running" /\ node[n].lease = "expired"
                     THEN Released(n, "queued") ELSE node[n]
    BY DEF StartWorker
  <1>3. \A n \in NodeRuns : Released(n, "queued") \in NodeRow
    BY ReleasedRow DEF IInv, TypeOK, NodeStatus
  <1>4. node' \in [NodeRuns -> NodeRow]
    BY <1>3 DEF StartWorker, IInv, TypeOK
  <1>5. ASSUME NEW n \in NodeRuns, node'[n] # node[n]
        PROVE  /\ node[n].status = "running"
               /\ node'[n] = Released(n, "queued")
               /\ Agree(run[n[1]].status, "queued")
    <2>1. node[n].status = "running" /\ node'[n] = Released(n, "queued")
      BY <1>2, <1>5
    <2>2. Agree(run[n[1]].status, "running")
      BY <2>1, ActiveIsCurrent DEF IInv
    <2>3. QED
      BY <2>1, <2>2 DEF Agree
  <1>6. \A n \in NodeRuns : /\ Released(n, "queued").status = "queued"
                            /\ Released(n, "queued").attempt = node[n].attempt
                            /\ Released(n, "queued").output = node[n].output
                            /\ Released(n, "queued").input = node[n].input
    BY ReleasedRow DEF IInv, TypeOK, NodeStatus
  <1>7. KeepPlace
    BY <1>1, <1>4, <1>5, <1>6 DEF KeepPlace
  <1>8. KeepFence
    <2> SUFFICES ASSUME NEW n \in NodeRuns
                 PROVE  /\ node'[n].attempt = node[n].attempt
                        /\ node'[n].status = "running" => node'[n] = node[n]
      BY DEF KeepFence
    <2>1. CASE node'[n] = node[n]
      BY <2>1
    <2>2. CASE node'[n] # node[n]
      BY <2>2, <1>5, <1>6
    <2>3. QED
      BY <2>1, <2>2
  <1>9. QED
    BY <1>1, <1>7, <1>8, PlaceStep

\* The steps that change only where a process stands, or a pending request.
LEMMA LocalStepPreserves ==
    ASSUME IInv, NEW p \in Processes,
           \/ \E r \in Runs : DeliverCancel(p, r)
           \/ ReadSnapshot(p) \/ BeginExecution(p) \/ RenewalError(p)
           \/ \E o \in Outcomes : ExecutorReturns(p, o)
    PROVE  IInv'
  <1>1. UNCHANGED <<run, node>> /\ RestTyped
    BY DEF DeliverCancel, ReadSnapshot, BeginExecution, RenewalError, ExecutorReturns,
           IInv, TypeOK, RestTyped
  <1>2. worker[p] \in Worker
    BY DEF IInv, TypeOK
  <1>3. PICK w \in Worker :
          /\ worker' = [worker EXCEPT ![p] = w]
          /\ w.at = worker[p].at /\ w.attempt = worker[p].attempt /\ w.base = worker[p].base
          /\ w.pc = worker[p].pc \/ Inside(p)
    <2>1. CASE \E r \in Runs : DeliverCancel(p, r)
      <3>1. PICK r \in Runs : DeliverCancel(p, r)
        BY <2>1
      <3> DEFINE w == [worker[p] EXCEPT !.cancelled = worker[p].cancelled \/ Active(p, r)]
      <3>2. worker' = [worker EXCEPT ![p] = w]
        BY <3>1 DEF DeliverCancel, IInv, TypeOK
      <3>3. (worker[p].cancelled \/ Active(p, r)) \in BOOLEAN
        OBVIOUS
      <3>4. /\ w \in Worker /\ w.at = worker[p].at /\ w.attempt = worker[p].attempt
            /\ w.base = worker[p].base /\ w.pc = worker[p].pc
        BY <1>2, <3>3 DEF Worker
      <3> HIDE DEF w
      <3>5. QED
        BY <3>2, <3>4
    <2>2. CASE ReadSnapshot(p)
      <3> DEFINE pc == IF run[worker[p].at[1]].status = "pausing" THEN "halting" ELSE "ready"
                 w == [worker[p] EXCEPT !.pc = pc]
      <3>1. worker' = [worker EXCEPT ![p] = w] /\ Inside(p) /\ pc \in WorkerPC
        BY <2>2 DEF ReadSnapshot, Inside, WorkerPC
      <3> HIDE DEF pc
      <3>2. QED
        BY <1>2, <3>1 DEF Worker
    <2>3. CASE BeginExecution(p)
      <3> DEFINE w == [worker[p] EXCEPT !.pc = "executing"]
      <3>1. worker' = [worker EXCEPT ![p] = w] /\ Inside(p)
        BY <2>3 DEF BeginExecution, Inside
      <3>2. QED
        BY <1>2, <3>1 DEF Worker, WorkerPC
    <2>4. CASE RenewalError(p)
      <3> DEFINE w == [worker[p] EXCEPT !.cancelled = TRUE, !.lost = TRUE]
      <3>1. worker' = [worker EXCEPT ![p] = w]
        BY <2>4, <1>2 DEF RenewalError, IInv, TypeOK, Worker
      <3>2. /\ w \in Worker /\ w.at = worker[p].at /\ w.attempt = worker[p].attempt
            /\ w.base = worker[p].base /\ w.pc = worker[p].pc
        BY <1>2 DEF Worker
      <3> HIDE DEF w
      <3>3. QED
        BY <3>1, <3>2
    <2>5. CASE \E o \in Outcomes : ExecutorReturns(p, o)
      <3>1. PICK o \in Outcomes : ExecutorReturns(p, o)
        BY <2>5
      <3> DEFINE w == [worker[p] EXCEPT !.pc = "returned", !.outcome = o]
      <3>2. worker' = [worker EXCEPT ![p] = w] /\ Inside(p)
        BY <3>1, <1>2 DEF ExecutorReturns, Inside, IInv, TypeOK, Worker
      <3>3. QED
        BY <1>2, <3>2 DEF Worker, WorkerPC
    <2>6. QED
      BY <2>1, <2>2, <2>3, <2>4, <2>5
  <1>4. NoNewCalls
    BY <1>3 DEF NoNewCalls, Inside, IInv, TypeOK
  <1>5. QED
    BY <1>1, <1>4, RowsUnchanged

\* The steps by which a process leaves its call without a transaction.
LEMMA StopPreserves ==
    ASSUME IInv, NEW p \in Processes, LeaseLost(p) \/ DatabaseFails(p) \/ Crash(p)
    PROVE  IInv'
  <1>1. UNCHANGED <<run, node>> /\ RestTyped
    BY DEF LeaseLost, DatabaseFails, Crash, IInv, TypeOK, RestTyped
  <1>2. NoNewCalls
    <2>1. CASE LeaseLost(p) \/ DatabaseFails(p)
      BY <2>1, LeaveEffect DEF LeaseLost, DatabaseFails, IInv, TypeOK
    <2>2. CASE Crash(p)
      <3>1. Outside("down") \in Worker /\ Outside("down").pc = "down"
        BY OutsideType DEF WorkerPC
      <3>2. QED
        BY <2>2, <3>1 DEF Crash, NoNewCalls, Inside, IInv, TypeOK
    <2>3. QED
      BY <2>1, <2>2
  <1>3. QED
    BY <1>1, <1>2, RowsUnchanged

\* A manual completion in flight touches no run and no node.
LEMMA ManualRequestPreserves ==
    ASSUME IInv,
           \/ \E n \in NodeRuns : CompleteManualResource(n)
           \/ \E c \in manual : ManualRequestEnds(c[1], c[2])
    PROVE  IInv'
  <1>1. UNCHANGED <<run, node, worker>> /\ RestTyped
    <2>1. \A n \in NodeRuns : node[n].attempt \in 0..MaxAttempt
      BY DEF IInv, TypeOK, NodeRow
    <2>2. manual \subseteq NodeRuns \X (0..MaxAttempt) /\ cancels \subseteq Processes \X Runs
      BY DEF IInv, TypeOK
    <2>3. CASE \E n \in NodeRuns : CompleteManualResource(n)
      <3>1. PICK n \in NodeRuns : CompleteManualResource(n)
        BY <2>3
      <3>2. <<n, node[n].attempt>> \in NodeRuns \X (0..MaxAttempt)
        BY <2>1
      <3>3. manual' = manual \cup {<<n, node[n].attempt>>}
              /\ UNCHANGED <<run, node, worker, cancels>>
        BY <3>1 DEF CompleteManualResource
      <3>4. QED
        BY <2>2, <3>2, <3>3 DEF RestTyped
    <2>4. CASE \E c \in manual : ManualRequestEnds(c[1], c[2])
      BY <2>2, <2>4 DEF ManualRequestEnds, RestTyped
    <2>5. QED
      BY <2>3, <2>4
  <1>2. QED
    BY <1>1, SameWorkers, RowsUnchanged DEF IInv

-----------------------------------------------------------------------------
\* IInv is inductive.
THEOREM IInvInductive == IInv /\ [Next]_vars => IInv'
  <1> SUFFICES ASSUME IInv, [Next]_vars PROVE IInv'
    OBVIOUS
  <1>1. CASE UserStep
    BY <1>1, StartPreserves, ResumePreserves, PausePreserves, RequeuePreserves,
       ManualRequestPreserves, CompleteManualPreserves DEF UserStep
  <1>2. ASSUME NEW p \in Processes, HandleNodeFailure(p, TRUE) \/ HandleNodeFailure(p, FALSE)
        PROVE  IInv'
    BY <1>2, RetryPreserves, AwaitPreserves, FailPreserves DEF HandleNodeFailure
  <1>3. ASSUME NEW p \in Processes, ProcessStep(p)
        PROVE  IInv'
    <2>1. CASE HaltClaimed(p)
      BY <2>1, PauseNodePreserves DEF HaltClaimed
    <2>2. CASE RejectClaimed(p)
      BY <2>2, AwaitPreserves, FailPreserves DEF RejectClaimed
    <2>3. CASE ApplyOutcome(p)
      BY <2>3, <1>2, PauseNodePreserves, CompletePreserves, AwaitPreserves DEF ApplyOutcome
    <2>4. QED
      BY <1>3, <2>1, <2>2, <2>3, LocalStepPreserves, StopPreserves DEF ProcessStep
  <1>4. ASSUME NEW p \in Processes, WorkerStep(p)
        PROVE  IInv'
    BY <1>3, <1>4, ClaimPreserves, CheckpointPreserves, LocalStepPreserves DEF WorkerStep, Claim, RenewFails
  <1>5. CASE TimeStep
    BY <1>5, TimePreserves DEF TimeStep
  <1>6. CASE FaultStep
    BY <1>6, StopPreserves, LocalStepPreserves DEF FaultStep
  <1>7. CASE UNCHANGED vars
    BY <1>7, SameWorkers, RowsUnchanged DEF vars, IInv, TypeOK, RestTyped
  <1>8. QED
    BY <1>1, <1>4, <1>5, <1>6, <1>7, StartWorkerPreserves DEF Next

\* A created run satisfies the invariant.
LEMMA InitIInv == Init => IInv
  <1> SUFFICES ASSUME Init PROVE IInv
    OBVIOUS
  <1>1. TypeOK
    BY InitType
  <1>2. \A n \in NodeRuns : n[1] \in Runs /\ n[2] \in Nat /\ n[2] > 0 /\ node[n] = NewNode
    BY NodeRunPair, RuntimeAssumption DEF Init, Ordinals
  <1>3. \A r \in Runs : run[r].status = "queued" /\ run[r].current = 0
    BY DEF Init
  <1>4. LinearFrontier /\ RunAgreesWithNode
    BY <1>2, <1>3 DEF LinearFrontier, RunAgreesWithNode, IsBefore, IsBeyond, IsCurrent,
                      Untouched, NewNode
  <1>5. OutputsOfWinner
    BY <1>2, FollowingInRun DEF OutputsOfWinner, NewNode
  <1>6. \A p \in Processes : ~Inside(p)
    BY OutsideType DEF Init, Inside, WorkerPC
  <1>7. QED
    BY <1>1, <1>4, <1>5, <1>6 DEF IInv, ExclusiveToken, CheckpointLineage

\* The inductive invariant holds of every behaviour.
THEOREM Invariance == Spec => []IInv
  <1>1. IInv /\ [Next]_vars => IInv'
    BY IInvInductive
  <1>2. QED
    BY <1>1, InitIInv, PTL DEF Spec

\* Every column holds a value of its type, whatever transactions interleave.
THEOREM TypeCorrect == Spec => []TypeOK
  <1>1. IInv => TypeOK
    BY DEF IInv
  <1>2. QED
    BY <1>1, Invariance, PTL

\* current_node_id always splits the line into succeeded and untouched nodes.
THEOREM FrontierHolds == Spec => []LinearFrontier
  <1>1. IInv => LinearFrontier
    BY DEF IInv
  <1>2. QED
    BY <1>1, Invariance, PTL

\* The status of a run and of its current node agree: no run is stranded.
THEOREM AgreementHolds == Spec => []RunAgreesWithNode
  <1>1. IInv => RunAgreesWithNode
    BY DEF IInv
  <1>2. QED
    BY <1>1, Invariance, PTL

\* No two RunOnce calls carry the same attempt of a node.
THEOREM TokenIsExclusive == Spec => []ExclusiveToken
  <1>1. IInv => ExclusiveToken
    BY DEF IInv
  <1>2. QED
    BY <1>1, Invariance, PTL

\* A node's outputs, and the next node's inputs, are the winning attempt's.
THEOREM OutputsAreTheWinners == Spec => []OutputsOfWinner
  <1>1. IInv => OutputsOfWinner
    BY DEF IInv
  <1>2. QED
    BY <1>1, Invariance, PTL

\* The holder of a lease never finds the late checkpoint of another attempt.
THEOREM CheckpointIsTheHolders == Spec => []CheckpointLineage
  <1>1. IInv => CheckpointLineage
    BY DEF IInv
  <1>2. QED
    BY <1>1, Invariance, PTL

-----------------------------------------------------------------------------
(* What one step can do to one row, and the action properties.             *)

HolderOf(n) ==
    \E p \in Processes : Inside(p) /\ worker[p].at = n /\ HoldsLease(p)

\* The row is decided by the holder of its lease.
Decided(n) ==
    /\ HolderOf(n)
    /\ \/ \E s \in {"pending", "awaiting_manual_completion", "failed"} :
            node'[n] = Released(n, s)
       \/ node'[n] = [Released(n, "retry_wait") EXCEPT !.retry = "waiting"]
       \/ node'[n] = Done(n, node[n].attempt)

\* The row is rewritten on behalf of the user; of a paused run, by Resume.
Requested(n) ==
    /\ node[n].status \in {"pending", "queued", "retry_wait", "failed"}
    /\ run[n[1]].status = "paused" => ResumeWorkflowRun(n[1])
    /\ \/ \E s \in {"pending", "queued"} :
            node'[n] = [node[n] EXCEPT !.status = s, !.retry = "none"]
       \/ node[n].status = "pending" /\ node'[n] = [node[n] EXCEPT !.status = "queued"]

\* The row follows one that was completed.
FedBy(n) ==
    /\ node[n].status = "pending" /\ run[n[1]].status # "paused"
    /\ \E a \in 0..MaxAttempt, s \in {"pending", "queued"} : node'[n] = Fed(n, a, s)

RowStep(n) ==
    \/ node'[n] = node[n]
    \/ node[n].lease = "live" /\ node'[n] = [node[n] EXCEPT !.lease = "expired"]
    \/ node[n].retry = "waiting" /\ node'[n] = [node[n] EXCEPT !.retry = "due"]
    \/ \E p \in Processes :
         /\ node[n].status \in {"queued", "retry_wait", "running"}
         /\ node'[n] = [node[n] EXCEPT !.status = "running", !.attempt = node[n].attempt + 1,
                           !.owner = p, !.lease = "live", !.retry = "none"]
    \/ HolderOf(n) /\ \E a \in 0..MaxAttempt : node'[n] = [node[n] EXCEPT !.checkpoint = a]
    \/ Decided(n)
    \/ node[n].status = "running" /\ node'[n] = Released(n, "queued")
    \/ /\ node[n].status = "awaiting_manual_completion"
       /\ node'[n] = Done(n, node[n].attempt)
    \/ Requested(n)
    \/ FedBy(n)

\* Advancing past n writes n and, if there is one, the following row.
LEMMA AdvanceRows ==
    ASSUME IInv, NEW n \in NodeRuns,
           node[n].status \in {"running", "awaiting_manual_completion"},
           AdvanceRun(n, node[n].attempt)
    PROVE  /\ node'[n] = Done(n, node[n].attempt)
           /\ \A m \in NodeRuns : m # n => node'[m] = node[m] \/ FedBy(m)
  <1>1. /\ IsCurrent(n) /\ node[n].attempt \in 0..MaxAttempt
        /\ run[n[1]].status \notin {"succeeded", "paused"}
    BY ActiveIsCurrent DEF IInv, Agree, TypeOK, NodeRow
  <1>2. CASE IsLast(n)
    BY <1>1, <1>2, AdvanceLast DEF IInv
  <1>3. CASE ~IsLast(n)
    <2> DEFINE x == Following(n)
    <2>1. node[x].status = "pending"
      BY <1>1, <1>3, AdvanceInnerPreserves DEF IInv
    <2>2. x[1] = n[1]
      BY <1>3, FollowingInRun
    <2>3. /\ node'[n] = Done(n, node[n].attempt)
          /\ \E s \in {"pending", "queued"} : node'[x] = Fed(x, node[n].attempt, s)
          /\ \A m \in NodeRuns : m # n /\ m # x => node'[m] = node[m]
      BY <1>1, <1>3, <2>1, AdvanceInner DEF IInv
    <2> HIDE DEF x
    <2>4. FedBy(x)
      BY <1>1, <2>1, <2>2, <2>3 DEF FedBy
    <2>5. QED
      BY <2>3, <2>4
  <1>4. QED
    BY <1>2, <1>3

\* Rows written by the user's requests.
LEMMA UserRows ==
    ASSUME IInv, UserStep, NEW n \in NodeRuns
    PROVE  RowStep(n)
  <1>1. node \in [NodeRuns -> NodeRow]
    BY DEF IInv, TypeOK
  <1>2. ASSUME NEW r \in Runs, StartWorkflowRun(r)
        PROVE  RowStep(n)
    <2>1. /\ run[r].status = "queued"
          /\ node' = [node EXCEPT ![<<r, 1>>].status = IF @ = "pending" THEN "queued" ELSE @]
      BY <1>2 DEF StartWorkflowRun
    <2>2. CASE n = <<r, 1>> /\ node[n].status = "pending"
      <3>1. node'[n] = [node[n] EXCEPT !.status = "queued"]
        BY <1>1, <2>1, <2>2
      <3>2. run[n[1]].status # "paused"
        BY <2>1, <2>2
      <3>3. QED
        BY <2>2, <3>1, <3>2 DEF RowStep, Requested
    <2>3. CASE n # <<r, 1>> \/ node[n].status # "pending"
      <3>1. node'[n] = node[n]
        BY <1>1, <2>1, <2>3 DEF NodeRow
      <3>2. QED
        BY <3>1 DEF RowStep
    <2>4. QED
      BY <2>2, <2>3
  <1>3. ASSUME NEW r \in Runs, ResumeWorkflowRun(r)
        PROVE  RowStep(n)
    <2>1. PICK i \in Ordinals :
            /\ node[<<r, i>>].status \in {"pending", "retry_wait"}
            /\ node' = [node EXCEPT ![<<r, i>>].status = "queued", ![<<r, i>>].retry = "none"]
      BY <1>3 DEF ResumeWorkflowRun
    <2>2. CASE n = <<r, i>>
      <3>1. node'[n] = [node[n] EXCEPT !.status = "queued", !.retry = "none"]
        BY <1>1, <2>1, <2>2 DEF NodeRow
      <3>2. ResumeWorkflowRun(n[1])
        BY <1>3, <2>2
      <3>3. QED
        BY <2>1, <2>2, <3>1, <3>2 DEF RowStep, Requested
    <2>3. CASE n # <<r, i>>
      BY <1>1, <2>1, <2>3 DEF RowStep
    <2>4. QED
      BY <2>2, <2>3
  <1>4. ASSUME NEW p \in Processes, NEW r \in Runs, RequestWorkflowRunPause(p, r)
        PROVE  RowStep(n)
    <2> DEFINE c == CurrentNode(r)
    <2>1. /\ run[r].status = "running"
          /\ \/ node' = node
             \/ /\ node[c].status \in {"queued", "pending", "retry_wait"}
                /\ node' = [node EXCEPT ![c].status = "pending", ![c].retry = "none"]
      BY <1>4 DEF RequestWorkflowRunPause
    <2>2. CASE n = c /\ node'[n] # node[n]
      <3>1. node'[n] = [node[n] EXCEPT !.status = "pending", !.retry = "none"]
        BY <1>1, <2>1, <2>2 DEF NodeRow
      <3>2. run[n[1]].status # "paused" /\ node[n].status \in {"queued", "pending", "retry_wait"}
        BY <2>1, <2>2 DEF CurrentNode
      <3>3. QED
        BY <3>1, <3>2 DEF RowStep, Requested
    <2>3. CASE n # c \/ node'[n] = node[n]
      BY <1>1, <2>1, <2>3 DEF RowStep
    <2>4. QED
      BY <2>2, <2>3
  <1>5. ASSUME NEW m \in NodeRuns, RequeueFailedWorkflowNode(m)
        PROVE  RowStep(n)
    <2>1. /\ node[m].status = "failed"
          /\ node' = [node EXCEPT ![m].status = "queued", ![m].retry = "none"]
      BY <1>5 DEF RequeueFailedWorkflowNode
    <2>2. CASE n = m
      <3>1. node'[n] = [node[n] EXCEPT !.status = "queued", !.retry = "none"]
        BY <1>1, <2>1, <2>2 DEF NodeRow
      <3>2. run[n[1]].status # "paused"
        BY <2>1, <2>2, ActiveIsCurrent DEF IInv, Agree
      <3>3. QED
        BY <2>1, <2>2, <3>1, <3>2 DEF RowStep, Requested
    <2>3. CASE n # m
      BY <1>1, <2>1, <2>3 DEF RowStep
    <2>4. QED
      BY <2>2, <2>3
  <1>6. ASSUME NEW c \in manual, CompleteWorkflowNodeManual(c[1], c[2])
        PROVE  RowStep(n)
    <2>1. /\ c[1] \in NodeRuns
          /\ node[c[1]].status = "awaiting_manual_completion"
          /\ AdvanceRun(c[1], node[c[1]].attempt)
      BY <1>6 DEF CompleteWorkflowNodeManual, IInv, TypeOK
    <2>2. /\ node'[c[1]] = Done(c[1], node[c[1]].attempt)
          /\ n # c[1] => node'[n] = node[n] \/ FedBy(n)
      BY <2>1, AdvanceRows
    <2>3. QED
      BY <2>1, <2>2 DEF RowStep
  <1>7. CASE UNCHANGED node
    BY <1>7 DEF RowStep
  <1>8. QED
    BY <1>2, <1>3, <1>4, <1>5, <1>6, <1>7 DEF UserStep, CompleteManualResource, ManualRequestEnds

\* Rows written by a transaction of a worker inside its call.
LEMMA DecisionRows ==
    ASSUME IInv, NEW p \in Processes, Inside(p),
           \/ PauseWorkflowNode(p) \/ AwaitWorkflowNodeManual(p)
           \/ FailWorkflowNode(p) \/ RetryWorkflowNode(p) \/ CompleteWorkflowNode(p),
           NEW n \in NodeRuns
    PROVE  RowStep(n)
  <1> DEFINE m == worker[p].at
  <1>1. HoldsLease(p)
    BY DEF PauseWorkflowNode, AwaitWorkflowNodeManual, FailWorkflowNode,
           RetryWorkflowNode, CompleteWorkflowNode
  <1>2. /\ m \in NodeRuns /\ node[m].status = "running" /\ node[m].attempt = worker[p].attempt
        /\ HolderOf(m)
    BY <1>1, HolderIsCurrent DEF HolderOf
  <1>3. node \in [NodeRuns -> NodeRow]
    BY DEF IInv, TypeOK
  <1>4. CASE CompleteWorkflowNode(p)
    <2>1. AdvanceRun(m, node[m].attempt)
      BY <1>2, <1>4 DEF CompleteWorkflowNode
    <2> HIDE DEF m
    <2>2. /\ node'[m] = Done(m, node[m].attempt)
          /\ n # m => node'[n] = node[n] \/ FedBy(n)
      BY <1>2, <2>1, AdvanceRows
    <2>3. QED
      BY <1>2, <2>2 DEF RowStep, Decided
  <1>5. CASE RetryWorkflowNode(p)
    <2>1. node' = [node EXCEPT ![m] = [Released(m, "retry_wait") EXCEPT !.retry = "waiting"]]
      BY <1>5 DEF RetryWorkflowNode
    <2> HIDE DEF m
    <2>2. QED
      BY <1>2, <1>3, <2>1 DEF RowStep, Decided
  <1>6. CASE ~(CompleteWorkflowNode(p) \/ RetryWorkflowNode(p))
    <2>1. PICK s \in {"pending", "awaiting_manual_completion", "failed"} :
            node' = [node EXCEPT ![m] = Released(m, s)]
      BY <1>6 DEF PauseWorkflowNode, AwaitWorkflowNodeManual, FailWorkflowNode
    <2> HIDE DEF m
    <2>2. QED
      BY <1>2, <1>3, <2>1 DEF RowStep, Decided
  <1>7. QED
    BY <1>4, <1>5, <1>6

\* Every step of the system does to every row one of the things of RowStep.
LEMMA AllRows ==
    ASSUME IInv, [Next]_vars, NEW n \in NodeRuns
    PROVE  RowStep(n)
  <1>1. node \in [NodeRuns -> NodeRow] /\ node[n] \in NodeRow
    BY DEF IInv, TypeOK
  <1>2. CASE UNCHANGED node
    BY <1>2 DEF RowStep
  <1>3. ASSUME NEW p \in Processes, ProcessStep(p)
        PROVE  RowStep(n)
    <2>1. CASE HaltClaimed(p) \/ RejectClaimed(p) \/ ApplyOutcome(p)
      <3>1. Inside(p)
        BY <2>1 DEF HaltClaimed, RejectClaimed, ApplyOutcome, Inside
      <3>2. \/ PauseWorkflowNode(p) \/ AwaitWorkflowNodeManual(p)
            \/ FailWorkflowNode(p) \/ RetryWorkflowNode(p) \/ CompleteWorkflowNode(p)
        BY <2>1 DEF HaltClaimed, RejectClaimed, ApplyOutcome, HandleNodeFailure
      <3>3. QED
        BY <3>1, <3>2, DecisionRows
    <2>2. CASE ~(HaltClaimed(p) \/ RejectClaimed(p) \/ ApplyOutcome(p))
      BY <1>2, <1>3, <2>2 DEF ProcessStep, ReadSnapshot, BeginExecution, ExecutorReturns, LeaseLost
    <2>3. QED
      BY <2>1, <2>2
  <1>4. ASSUME NEW p \in Processes, NEW m \in NodeRuns, ClaimWorkflowNode(p, m)
        PROVE  RowStep(n)
    <2>1. CASE n = m
      <3>1. node'[n] = [node[n] EXCEPT !.status = "running", !.attempt = node[n].attempt + 1,
                           !.owner = p, !.lease = "live", !.retry = "none"]
        BY <1>1, <1>4, <2>1 DEF ClaimWorkflowNode, NodeRow
      <3>2. node[n].status \in {"queued", "retry_wait", "running"}
        BY <1>4, <2>1 DEF ClaimWorkflowNode, Claimable
      <3>3. QED
        BY <3>1, <3>2 DEF RowStep
    <2>2. CASE n # m
      BY <1>1, <1>4, <2>2 DEF ClaimWorkflowNode, RowStep
    <2>3. QED
      BY <2>1, <2>2
  <1>5. ASSUME NEW p \in Processes, SaveCheckpoint(p)
        PROVE  RowStep(n)
    <2>1. /\ HoldsLease(p) /\ Inside(p) /\ worker[p].attempt \in 0..MaxAttempt
          /\ node' = [node EXCEPT ![worker[p].at].checkpoint = worker[p].attempt]
      BY <1>5 DEF SaveCheckpoint, Inside, IInv, TypeOK, Worker
    <2>2. CASE n = worker[p].at
      <3>1. node'[n] = [node[n] EXCEPT !.checkpoint = worker[p].attempt]
        BY <1>1, <2>1, <2>2
      <3>2. HolderOf(n)
        BY <2>1, <2>2 DEF HolderOf
      <3>3. QED
        BY <2>1, <3>1, <3>2 DEF RowStep
    <2>3. CASE n # worker[p].at
      BY <1>1, <2>1, <2>3 DEF RowStep
    <2>4. QED
      BY <2>2, <2>3
  <1>6. ASSUME NEW m \in NodeRuns, LeaseExpires(m) \/ RetryBecomesDue(m)
        PROVE  RowStep(n)
    BY <1>1, <1>6 DEF LeaseExpires, RetryBecomesDue, RowStep
  <1>7. ASSUME NEW p \in Processes, StartWorker(p)
        PROVE  RowStep(n)
    BY <1>7 DEF StartWorker, RowStep
  <1>8. CASE UserStep
    BY <1>8, UserRows
  <1>9. CASE \E p \in Processes : RenewFails(p) \/ \E r \in Runs : DeliverCancel(p, r)
    BY <1>2, <1>9 DEF RenewFails, RenewalError, DeliverCancel
  <1>10. CASE FaultStep \/ UNCHANGED vars
    BY <1>2, <1>10 DEF FaultStep, DatabaseFails, RenewalError, Crash, vars
  <1>11. QED
    BY <1>3, <1>4, <1>5, <1>6, <1>7, <1>8, <1>9, <1>10
       DEF Next, WorkerStep, Claim, TimeStep

\* What RowStep leaves in the columns of a row.
LEMMA RowStepColumns ==
    ASSUME IInv, NEW n \in NodeRuns, RowStep(n), LeaseFitsStatus
    PROVE  /\ node'[n].lease # "none" <=> node'[n].status = "running"
           /\ node'[n].owner # NoOwner <=> node'[n].status = "running"
           /\ node'[n].retry # "none" <=> node'[n].status = "retry_wait"
  <1>1. node[n] \in NodeRow /\ node[n].attempt \in 0..MaxAttempt
    BY DEF IInv, TypeOK, NodeRow
  <1>2. /\ node[n].lease # "none" <=> node[n].status = "running"
        /\ node[n].owner # NoOwner <=> node[n].status = "running"
        /\ node[n].retry # "none" <=> node[n].status = "retry_wait"
    BY DEF LeaseFitsStatus
  <1>3. CASE Decided(n)
    <2>1. node[n].status = "running"
      BY <1>3 DEF Decided, HolderOf, HoldsLease
    <2>2. QED
      BY <1>1, <1>2, <1>3, <2>1 DEF Decided, Released, Done, NodeRow
  <1>4. CASE Requested(n)
    BY <1>1, <1>2, <1>4 DEF Requested, NodeRow
  <1>5. CASE FedBy(n)
    BY <1>1, <1>2, <1>5 DEF FedBy, Fed, NodeRow
  <1>6. CASE HolderOf(n) /\ \E a \in 0..MaxAttempt : node'[n] = [node[n] EXCEPT !.checkpoint = a]
    BY <1>1, <1>2, <1>6 DEF NodeRow
  <1>7. CASE \E p \in Processes :
               node'[n] = [node[n] EXCEPT !.status = "running", !.attempt = node[n].attempt + 1,
                             !.owner = p, !.lease = "live", !.retry = "none"]
    BY <1>1, <1>7, RuntimeAssumption DEF NodeRow
  <1>8. CASE node[n].status = "running" /\ node'[n] = Released(n, "queued")
    BY <1>1, <1>2, <1>8 DEF Released, NodeRow
  <1>9. CASE /\ node[n].status = "awaiting_manual_completion"
             /\ node'[n] = Done(n, node[n].attempt)
    BY <1>1, <1>2, <1>9 DEF Done, Released, NodeRow
  <1>10. CASE \/ node[n].lease = "live" /\ node'[n] = [node[n] EXCEPT !.lease = "expired"]
              \/ node[n].retry = "waiting" /\ node'[n] = [node[n] EXCEPT !.retry = "due"]
    BY <1>1, <1>2, <1>10 DEF NodeRow
  <1>11. CASE node'[n] = node[n]
    BY <1>2, <1>11
  <1>12. QED
    BY <1>3, <1>4, <1>5, <1>6, <1>7, <1>8, <1>9, <1>10, <1>11 DEF RowStep

\* No status inherits the lease, the owner or the retry time of another.
THEOREM LeaseFits == Spec => []LeaseFitsStatus
  <1>1. Init => LeaseFitsStatus
    BY DEF Init, NewNode, LeaseFitsStatus
  <1>2. IInv /\ LeaseFitsStatus /\ [Next]_vars => LeaseFitsStatus'
    <2> SUFFICES ASSUME IInv, LeaseFitsStatus, [Next]_vars PROVE LeaseFitsStatus'
      OBVIOUS
    <2>1. \A n \in NodeRuns : RowStep(n)
      BY AllRows
    <2>2. QED
      BY <2>1, RowStepColumns DEF LeaseFitsStatus
  <1>3. QED
    BY <1>1, <1>2, Invariance, PTL DEF Spec

\* Only a live lease on the current attempt decides a running row.
THEOREM HolderDecides == Spec => OnlyHolderDecides
  <1> DEFINE A == \A n \in NodeRuns :
                    /\ node[n].status = "running"
                    /\ node'[n].status \notin {"running", "queued"}
                    => /\ node[n].lease = "live"
                       /\ \E p \in Processes :
                            /\ Inside(p)
                            /\ worker[p].at = n
                            /\ worker[p].attempt = node[n].attempt
  <1>1. IInv /\ [Next]_vars => A
    <2> SUFFICES ASSUME IInv, [Next]_vars, NEW n \in NodeRuns,
                        node[n].status = "running",
                        node'[n].status \notin {"running", "queued"}
                 PROVE  /\ node[n].lease = "live"
                        /\ \E p \in Processes :
                             /\ Inside(p)
                             /\ worker[p].at = n
                             /\ worker[p].attempt = node[n].attempt
      OBVIOUS
    <2>1. node[n] \in NodeRow
      BY DEF IInv, TypeOK
    <2>2. RowStep(n)
      BY AllRows
    <2>3. ~Requested(n) /\ ~FedBy(n)
      BY DEF Requested, FedBy
    <2>4. Released(n, "queued").status = "queued"
      BY ReleasedRow DEF IInv, TypeOK, NodeStatus
    <2>5. HolderOf(n) \/ Decided(n)
      BY <2>1, <2>2, <2>3, <2>4 DEF RowStep, NodeRow
    <2>6. HolderOf(n)
      BY <2>5 DEF Decided
    <2>7. QED
      BY <2>6 DEF HolderOf, HoldsLease
  <1>2. A => [A]_vars
    OBVIOUS
  <1>3. QED
    BY <1>1, Invariance, PTL DEF Spec, OnlyHolderDecides

\* A succeeded node keeps its row for ever.
THEOREM SuccessIsFinal == Spec => SucceededIsFinal
  <1> DEFINE A == \A n \in NodeRuns : node[n].status = "succeeded" => node'[n] = node[n]
  <1>1. IInv /\ LeaseFitsStatus /\ [Next]_vars => A
    <2> SUFFICES ASSUME IInv, LeaseFitsStatus, [Next]_vars, NEW n \in NodeRuns,
                        node[n].status = "succeeded"
                 PROVE  node'[n] = node[n]
      OBVIOUS
    <2>1. RowStep(n)
      BY AllRows
    <2>2. node[n].lease = "none" /\ node[n].retry = "none"
      BY DEF LeaseFitsStatus
    <2>3. ~HolderOf(n)
      BY DEF HolderOf, HoldsLease
    <2>4. QED
      BY <2>1, <2>2, <2>3 DEF RowStep, Decided, Requested, FedBy
  <1>2. QED
    BY <1>1, Invariance, LeaseFits, PTL DEF Spec, SucceededIsFinal

\* Everything but Resume leaves the row of a paused run alone.
LEMMA PausedRun ==
    ASSUME IInv, [Next]_vars, NEW r \in Runs, run[r].status = "paused"
    PROVE  run'[r] = run[r] \/ ResumeWorkflowRun(r)
  <1>1. run \in [Runs -> RunRow]
    BY DEF IInv, TypeOK
  <1>2. ASSUME NEW q \in Runs, NEW t, NEW k, SetRun(q, t, k), q # r
        PROVE  run'[r] = run[r]
    BY <1>1, <1>2 DEF SetRun
  <1>3. CASE UNCHANGED run
    BY <1>3
  <1>4. ASSUME NEW n \in NodeRuns, node[n].status \notin {"pending", "succeeded"}
        PROVE  n[1] \in Runs /\ n[1] # r
    BY <1>4, ActiveIsCurrent, NodeRunPair DEF IInv, Agree
  <1>5. ASSUME NEW n \in NodeRuns, node[n].status \notin {"pending", "succeeded"},
               NEW a, AdvanceRun(n, a)
        PROVE  run'[r] = run[r]
    <2>1. \E t, k : SetRun(n[1], t, k)
      BY <1>5 DEF AdvanceRun
    <2>2. QED
      BY <1>2, <1>4, <1>5, <2>1
  <1>6. ASSUME NEW p \in Processes,
               \/ PauseWorkflowNode(p) \/ AwaitWorkflowNodeManual(p)
               \/ FailWorkflowNode(p) \/ RetryWorkflowNode(p) \/ CompleteWorkflowNode(p)
        PROVE  run'[r] = run[r]
    <2> DEFINE m == worker[p].at
    <2>1. HoldsLease(p)
      BY <1>6 DEF PauseWorkflowNode, AwaitWorkflowNodeManual, FailWorkflowNode,
                  RetryWorkflowNode, CompleteWorkflowNode
    <2>2. m \in NodeRuns /\ node[m].status = "running"
      BY <2>1, HolderIsCurrent
    <2>3. (\E t, k : SetRun(m[1], t, k)) \/ AdvanceRun(m, worker[p].attempt)
      BY <1>6 DEF PauseWorkflowNode, AwaitWorkflowNodeManual, FailWorkflowNode,
                  RetryWorkflowNode, CompleteWorkflowNode
    <2> HIDE DEF m
    <2>4. QED
      BY <2>2, <2>3, <1>2, <1>4, <1>5
  <1>7. CASE UserStep
    <2>1. ASSUME NEW q \in Runs, StartWorkflowRun(q) \/ ResumeWorkflowRun(q)
          PROVE  run'[r] = run[r] \/ ResumeWorkflowRun(r)
      <3>1. q = r => ResumeWorkflowRun(r)
        BY <2>1 DEF StartWorkflowRun
      <3>2. \E t, k : SetRun(q, t, k)
        BY <2>1 DEF StartWorkflowRun, ResumeWorkflowRun
      <3>3. QED
        BY <3>1, <3>2, <1>2
    <2>2. ASSUME NEW p \in Processes, NEW q \in Runs, RequestWorkflowRunPause(p, q)
          PROVE  run'[r] = run[r]
      <3>1. q # r /\ \E t, k : SetRun(q, t, k)
        BY <2>2 DEF RequestWorkflowRunPause
      <3>2. QED
        BY <3>1, <1>2
    <2>3. ASSUME NEW n \in NodeRuns, RequeueFailedWorkflowNode(n)
          PROVE  run'[r] = run[r]
      <3>1. node[n].status = "failed" /\ SetRun(n[1], "running", n[2])
        BY <2>3 DEF RequeueFailedWorkflowNode
      <3>2. QED
        BY <3>1, <1>2, <1>4
    <2>4. ASSUME NEW c \in manual, CompleteWorkflowNodeManual(c[1], c[2])
          PROVE  run'[r] = run[r]
      <3>1. /\ c[1] \in NodeRuns /\ node[c[1]].status = "awaiting_manual_completion"
            /\ AdvanceRun(c[1], c[2])
        BY <2>4 DEF CompleteWorkflowNodeManual, IInv, TypeOK
      <3>2. QED
        BY <3>1, <1>5
    <2>5. QED
      BY <1>3, <1>7, <2>1, <2>2, <2>3, <2>4 DEF UserStep, CompleteManualResource, ManualRequestEnds
  <1>8. ASSUME NEW p \in Processes, ProcessStep(p)
        PROVE  run'[r] = run[r]
    BY <1>3, <1>6, <1>8 DEF ProcessStep, ReadSnapshot, HaltClaimed, RejectClaimed, BeginExecution,
                            ExecutorReturns, ApplyOutcome, HandleNodeFailure, LeaseLost
  <1>9. CASE \E p \in Processes : WorkerStep(p) \/ StartWorker(p)
    BY <1>3, <1>8, <1>9 DEF WorkerStep, Claim, ClaimWorkflowNode, SaveCheckpoint, RenewFails, RenewalError,
                            DeliverCancel, StartWorker
  <1>10. CASE TimeStep \/ FaultStep \/ UNCHANGED vars
    BY <1>3, <1>10 DEF TimeStep, LeaseExpires, RetryBecomesDue, FaultStep, DatabaseFails, RenewalError, Crash, vars
  <1>11. QED
    BY <1>7, <1>9, <1>10 DEF Next

\* Resume queues the current node of the run, and writes no other row.
LEMMA ResumeEffect ==
    ASSUME IInv, LeaseFitsStatus, NEW r \in Runs, ResumeWorkflowRun(r)
    PROVE  /\ run'[r] = [run[r] EXCEPT !.status = "running"]
           /\ \A i \in Ordinals :
                node'[<<r, i>>] = IF i = run[r].current
                                  THEN [node[<<r, i>>] EXCEPT !.status = "queued"]
                                  ELSE node[<<r, i>>]
  <1>1. PICK k \in Ordinals :
          /\ node[<<r, k>>].status \in {"pending", "retry_wait"}
          /\ \A j \in 1..(k - 1) : node[<<r, j>>].status \notin {"pending", "retry_wait"}
          /\ node' = [node EXCEPT ![<<r, k>>].status = "queued", ![<<r, k>>].retry = "none"]
          /\ SetRun(r, "running", k)
    BY DEF ResumeWorkflowRun
  <1>2. run[r].status = "paused" /\ run[r] \in RunRow
    BY DEF ResumeWorkflowRun, IInv, TypeOK
  <1>3. \A i \in Ordinals : <<r, i>> \in NodeRuns
    BY DEF NodeRuns
  <1>4. run[r].current \in Ordinals
    BY <1>2, RuntimeAssumption DEF IInv, LinearFrontier, RunRow, Ordinals
  <1>5. node[<<r, run[r].current>>].status = "pending"
    BY <1>2, <1>3, <1>4 DEF IInv, RunAgreesWithNode, IsCurrent, Agree
  <1>6. k = run[r].current
    <2>1. ~(k < run[r].current)
      BY <1>1, <1>3 DEF IInv, LinearFrontier, IsBefore
    <2>2. ~(run[r].current < k)
      BY <1>1, <1>4, <1>5, RuntimeAssumption DEF Ordinals
    <2>3. QED
      BY <2>1, <2>2, <1>4, RuntimeAssumption DEF Ordinals
  <1>7. run'[r] = [run[r] EXCEPT !.status = "running"]
    BY <1>1, <1>2, <1>6 DEF SetRun, RunRow, IInv, TypeOK
  <1>8. node[<<r, k>>] \in NodeRow /\ node[<<r, k>>].retry = "none"
    BY <1>3, <1>5, <1>6 DEF LeaseFitsStatus, IInv, TypeOK
  <1>9. node'[<<r, k>>] = [node[<<r, k>>] EXCEPT !.status = "queued"]
    BY <1>1, <1>3, <1>8 DEF NodeRow, IInv, TypeOK
  <1>10. \A i \in Ordinals : i # k => node'[<<r, i>>] = node[<<r, i>>]
    BY <1>1, <1>3 DEF IInv, TypeOK
  <1>11. QED
    BY <1>6, <1>7, <1>9, <1>10

\* A paused run waits for its user: nothing else writes a row of it.
THEOREM PauseHolds == Spec => PausedIsLeftAlone
  <1> DEFINE Left(r) == \/ /\ run'[r] = run[r]
                           /\ \A i \in Ordinals : node'[<<r, i>>] = node[<<r, i>>]
                        \/ /\ run'[r] = [run[r] EXCEPT !.status = "running"]
                           /\ \A i \in Ordinals :
                                node'[<<r, i>>] = IF i = run[r].current
                                                  THEN [node[<<r, i>>] EXCEPT !.status = "queued"]
                                                  ELSE node[<<r, i>>]
             A == \A r \in Runs : run[r].status = "paused" => Left(r)
  <1>1. IInv /\ LeaseFitsStatus /\ [Next]_vars => A
    <2> SUFFICES ASSUME IInv, LeaseFitsStatus, [Next]_vars, NEW r \in Runs,
                        run[r].status = "paused"
                 PROVE  Left(r)
      OBVIOUS
    <2>1. CASE ResumeWorkflowRun(r)
      BY <2>1, ResumeEffect
    <2>2. CASE ~ResumeWorkflowRun(r)
      <3>1. run'[r] = run[r]
        BY <2>2, PausedRun
      <3>2. ASSUME NEW i \in Ordinals
            PROVE  node'[<<r, i>>] = node[<<r, i>>]
        <4> DEFINE n == <<r, i>>
        <4>1. n \in NodeRuns /\ n[1] = r
          BY DEF NodeRuns
        <4> HIDE DEF n
        <4>2. node[n].status \in {"pending", "succeeded"}
          BY <4>1, ActiveIsCurrent DEF IInv, Agree
        <4>3. RowStep(n)
          BY <4>1, AllRows
        <4>4. node[n].lease = "none" /\ node[n].retry = "none"
          BY <4>1, <4>2 DEF LeaseFitsStatus
        <4>5. ~HolderOf(n) /\ ~Requested(n) /\ ~FedBy(n)
          BY <4>1, <4>2, <2>2 DEF HolderOf, HoldsLease, Requested, FedBy
        <4>6. node'[n] = node[n]
          BY <4>2, <4>3, <4>4, <4>5 DEF RowStep, Decided
        <4>7. QED
          BY <4>6 DEF n
      <3>3. QED
        BY <3>1, <3>2
    <2>3. QED
      BY <2>1, <2>2
  <1>2. QED
    BY <1>1, Invariance, LeaseFits, PTL DEF Spec, PausedIsLeftAlone

-----------------------------------------------------------------------------
(* WorkflowRuntime implements LinearRun and NodeFence: under the mappings  *)
(* of Promise and Fence every step of the runtime is a step of the         *)
(* abstract module or changes nothing its clients see.                     *)

\* A node that was ever decided was claimed before.
WasClaimed ==
    \A n \in NodeRuns :
      node[n].status \notin {"pending", "queued"} => node[n].attempt > 0

\* WasClaimed is kept by everything a step can do to a row.
LEMMA WasClaimedStep ==
    ASSUME IInv, WasClaimed, [Next]_vars
    PROVE  WasClaimed'
  <1> SUFFICES ASSUME NEW n \in NodeRuns, node'[n].status \notin {"pending", "queued"}
               PROVE  node'[n].attempt > 0
    BY DEF WasClaimed
  <1>1. node[n] \in NodeRow /\ node[n].attempt \in Nat
    BY RuntimeAssumption DEF IInv, TypeOK, NodeRow
  <1>2. RowStep(n)
    BY AllRows
  <1>3. ~Requested(n) /\ ~FedBy(n)
    BY <1>1 DEF Requested, FedBy, Fed, NodeRow
  <1>4. CASE Decided(n)
    <2>1. node[n].attempt > 0
      BY <1>4 DEF Decided, HolderOf, HoldsLease, WasClaimed
    <2>2. node'[n].attempt = node[n].attempt
      BY <1>1, <1>4 DEF Decided, Released, Done, NodeRow
    <2>3. QED
      BY <2>1, <2>2
  <1>5. CASE HolderOf(n) /\ \E a \in 0..MaxAttempt : node'[n] = [node[n] EXCEPT !.checkpoint = a]
    BY <1>1, <1>5 DEF HolderOf, HoldsLease, WasClaimed, NodeRow
  <1>6. CASE \E p \in Processes :
               node'[n] = [node[n] EXCEPT !.status = "running", !.attempt = node[n].attempt + 1,
                             !.owner = p, !.lease = "live", !.retry = "none"]
    BY <1>1, <1>6 DEF NodeRow
  <1>7. CASE node'[n] = Released(n, "queued")
    BY <1>1, <1>7 DEF Released, NodeRow
  <1>8. CASE /\ node[n].status = "awaiting_manual_completion"
             /\ node'[n] = Done(n, node[n].attempt)
    BY <1>1, <1>8 DEF Done, Released, WasClaimed, NodeRow
  <1>9. CASE \/ node'[n] = node[n]
             \/ node'[n] = [node[n] EXCEPT !.lease = "expired"]
             \/ node'[n] = [node[n] EXCEPT !.retry = "due"]
    BY <1>1, <1>9 DEF WasClaimed, NodeRow
  <1>10. QED
    BY <1>2, <1>3, <1>4, <1>5, <1>6, <1>7, <1>8, <1>9 DEF RowStep

\* Every node that has been decided carries an attempt from 1.
LEMMA ClaimedFirst == Spec => []WasClaimed
  <1>1. Init => WasClaimed
    BY DEF Init, NewNode, WasClaimed
  <1>2. IInv /\ WasClaimed /\ [Next]_vars => WasClaimed'
    BY WasClaimedStep
  <1>3. QED
    BY <1>1, <1>2, Invariance, PTL DEF Spec

-----------------------------------------------------------------------------
(* The mapped state.                                                       *)

phaseBar == [r \in Runs |-> PhaseOf[run[r].status]]
resultBar == [n \in NodeRuns |-> node[n].output]

Same == phaseBar' = phaseBar /\ resultBar' = resultBar

\* A step of the abstract line, or nothing.
AbstractStep == Promise!Next \/ Same

\* The phases between which a run may move without a result.
Allowed == {<<"created", "active">>, <<"active", "suspended">>, <<"suspended", "active">>,
            <<"active", "human">>, <<"active", "failed">>, <<"failed", "active">>,
            <<"active", "active">>}

\* The initial states map to the abstract initial state.
LEMMA InitMaps == Init => Promise!Init
  BY DEF Init, Promise!Init, Promise!Ordinals, PhaseOf, NewNode, NodeRuns, Ordinals

\* Steps that keep the outputs and change the status of one run.
LEMMA PhaseMaps ==
    ASSUME IInv, NEW r \in Runs, NEW t \in RunStatus, NEW k, SetRun(r, t, k),
           <<PhaseOf[run[r].status], PhaseOf[t]>> \in Allowed,
           \A n \in NodeRuns : node'[n].output = node[n].output
    PROVE  AbstractStep
  <1>1. run \in [Runs -> RunRow]
    BY DEF IInv, TypeOK
  <1>2. run'[r].status = t /\ \A q \in Runs : q # r => run'[q] = run[q]
    BY <1>1 DEF SetRun
  <1>3. phaseBar' = [phaseBar EXCEPT ![r] = PhaseOf[t]]
    BY <1>2 DEF phaseBar
  <1>4. resultBar' = resultBar
    BY DEF resultBar
  <1>5. phaseBar[r] = PhaseOf[run[r].status] /\ phaseBar \in [Runs -> {PhaseOf[run[q].status] : q \in Runs}]
    BY DEF phaseBar
  <1>6. CASE PhaseOf[run[r].status] = PhaseOf[t]
    <2>1. phaseBar' = phaseBar
      BY <1>3, <1>5, <1>6
    <2>2. QED
      BY <1>4, <2>1 DEF AbstractStep, Same
  <1>7. CASE PhaseOf[run[r].status] # PhaseOf[t]
    <2>1. \/ Promise!Begin(r) \/ Promise!Suspend(r) \/ Promise!Continue(r)
          \/ Promise!AskHuman(r) \/ Promise!GiveUp(r) \/ Promise!TryAgain(r)
      BY <1>3, <1>4, <1>5, <1>7
         DEF Allowed, phaseBar, resultBar, Promise!Begin, Promise!Suspend, Promise!Continue,
             Promise!AskHuman, Promise!GiveUp, Promise!TryAgain, Promise!Move
    <2>2. QED
      BY <2>1 DEF AbstractStep, Promise!Next
  <1>8. QED
    BY <1>6, <1>7

\* Steps that change no run and no output are invisible.
LEMMA Invisible ==
    ASSUME run' = run, \A n \in NodeRuns : node'[n].output = node[n].output
    PROVE  AbstractStep
  BY DEF AbstractStep, Same, phaseBar, resultBar

-----------------------------------------------------------------------------
(* A completion is the abstract Finish.                                    *)

\* Before a completion exactly the nodes before the current one have a result.
LEMMA ResultsBefore ==
    ASSUME IInv, WasClaimed, NEW n \in NodeRuns, IsCurrent(n),
           run[n[1]].status # "succeeded", node[n].status # "succeeded"
    PROVE  \A j \in Ordinals : resultBar[<<n[1], j>>] = 0 <=> j >= n[2]
  <1> SUFFICES ASSUME NEW j \in Ordinals
               PROVE  node[<<n[1], j>>].output = 0 <=> j >= n[2]
    BY NodeRunPair DEF resultBar, NodeRuns
  <1> DEFINE m == <<n[1], j>>
  <1>1. /\ m \in NodeRuns /\ m[1] = n[1] /\ m[2] = j /\ n[2] \in Nat /\ j \in Nat
        /\ run[n[1]].current = n[2]
    BY NodeRunPair, RuntimeAssumption DEF NodeRuns, Ordinals, IsCurrent
  <1> HIDE DEF m
  <1>2. CASE j < n[2]
    <2>1. node[m].status = "succeeded"
      BY <1>1, <1>2 DEF IInv, LinearFrontier, IsBefore
    <2>2. node[m].output = node[m].attempt /\ node[m].attempt > 0
      BY <1>1, <2>1 DEF IInv, OutputsOfWinner, WasClaimed
    <2>3. node[m].output # 0
      BY <2>2
    <2>4. QED
      BY <1>1, <1>2, <2>3 DEF m
  <1>3. CASE j > n[2]
    <2>1. Untouched(m)
      BY <1>1, <1>3 DEF IInv, LinearFrontier, IsBeyond
    <2>2. QED
      BY <1>1, <1>3, <2>1 DEF Untouched, m
  <1>4. CASE j = n[2]
    <2>1. m = n
      BY <1>1, <1>4, SameRun
    <2>2. node[m].output = 0
      BY <2>1 DEF IInv, OutputsOfWinner
    <2>3. QED
      BY <1>1, <1>4, <2>2 DEF m
  <1>5. QED
    BY <1>1, <1>2, <1>3, <1>4

\* A Finish is a step of the abstract line.
LEMMA FinishIsNext ==
    ASSUME NEW r \in Runs, NEW i \in Ordinals, NEW a \in 1..MaxAttempt, Promise!Finish(r, i, a)
    PROVE  AbstractStep
  <1>1. i \in Promise!Ordinals
    BY DEF Ordinals, Promise!Ordinals
  <1>2. Promise!Next
    BY <1>1 DEF Promise!Next
  <1>3. QED
    BY <1>2 DEF AbstractStep

\* AdvanceRun is Finish: of the last node, or of one that has a follower.
LEMMA AdvanceMaps ==
    ASSUME IInv, WasClaimed, NEW n \in NodeRuns,
           node[n].status \in {"running", "awaiting_manual_completion"},
           AdvanceRun(n, node[n].attempt)
    PROVE  AbstractStep
  <1> DEFINE r == n[1]
  <1>0. PICK a \in Nat : a = node[n].attempt
    BY RuntimeAssumption DEF IInv, TypeOK, NodeRow
  <1>1. /\ IsCurrent(n) /\ run[r].status \in {"running", "pausing", "awaiting_manual_completion"}
        /\ r \in Runs /\ n[2] \in Ordinals /\ n = <<r, n[2]>> /\ a \in 1..MaxAttempt
    <2>1. IsCurrent(n) /\ Agree(run[r].status, node[n].status)
      BY ActiveIsCurrent DEF IInv
    <2>2. a \in 0..MaxAttempt /\ a > 0
      BY <1>0 DEF IInv, TypeOK, NodeRow, WasClaimed
    <2>3. QED
      BY <2>1, <2>2, NodeRunPair, RuntimeAssumption DEF Agree
  <1>2. \A j \in Ordinals : resultBar[<<r, j>>] = 0 <=> j >= n[2]
    BY <1>1, ResultsBefore
  <1>3. phaseBar[r] \in {"active", "human"} /\ (run[r].status = "pausing" => phaseBar[r] = "active")
    BY <1>1 DEF phaseBar, PhaseOf
  <1>4. resultBar' = [resultBar EXCEPT ![n] = a]
    <2>1. node'[n].output = a
      BY <1>0, <1>1, AdvanceRows, DoneRow DEF IInv, TypeOK
    <2>2. ASSUME NEW m \in NodeRuns, m # n
          PROVE  node'[m].output = node[m].output
      <3>1. node[m] \in NodeRow
        BY DEF IInv, TypeOK
      <3>2. node'[m] = node[m] \/ FedBy(m)
        BY <2>2, AdvanceRows
      <3>3. QED
        BY <3>1, <3>2 DEF FedBy, Fed, NodeRow
    <2>3. QED
      BY <2>1, <2>2 DEF resultBar
  <1>5. CASE IsLast(n)
    <2>1. run'[r].status = "succeeded" /\ \A q \in Runs : q # r => run'[q] = run[q]
      BY <1>0, <1>1, <1>5, AdvanceLast DEF IInv
    <2>2. phaseBar' = [phaseBar EXCEPT ![r] = "done"]
      <3>1. phaseBar' = [phaseBar EXCEPT ![r] = PhaseOf["succeeded"]]
        BY <1>1, <2>1 DEF phaseBar
      <3>2. QED
        BY <3>1 DEF PhaseOf
    <2>3. Promise!Finish(r, n[2], a)
      <3>1. resultBar' = [resultBar EXCEPT ![<<r, n[2]>>] = a]
        BY <1>1, <1>4
      <3>2. n[2] = NodeCount
        BY <1>5 DEF IsLast
      <3> HIDE DEF r
      <3>3. QED
        BY <1>2, <1>3, <1>5, <2>2, <3>1, <3>2
           DEF Promise!Finish, Promise!Ordinals, Ordinals, phaseBar, resultBar
    <2>4. QED
      BY <1>1, <2>3, FinishIsNext
  <1>6. CASE ~IsLast(n)
    <2>1. /\ run'[r].status = (IF run[r].status = "pausing" THEN "paused" ELSE "running")
          /\ \A q \in Runs : q # r => run'[q] = run[q]
      BY <1>0, <1>1, <1>6, AdvanceInner DEF IInv
    <2>2. phaseBar' = [phaseBar EXCEPT ![r] =
                         IF run[r].status = "pausing" THEN "suspended" ELSE "active"]
      <3>1. phaseBar' = [phaseBar EXCEPT ![r] = PhaseOf[run'[r].status]]
        BY <1>1, <2>1 DEF phaseBar
      <3>2. PhaseOf[run'[r].status] = IF run[r].status = "pausing" THEN "suspended" ELSE "active"
        BY <2>1 DEF PhaseOf
      <3>3. QED
        BY <3>1, <3>2
    <2>3. n[2] < NodeCount
      BY <1>1, <1>6, RuntimeAssumption DEF IsLast, Ordinals
    <2>4. Promise!Finish(r, n[2], a)
      <3>1. resultBar' = [resultBar EXCEPT ![<<r, n[2]>>] = a]
        BY <1>1, <1>4
      <3>2. n[2] < NodeCount
        BY <2>3
      <3> HIDE DEF r
      <3>3. QED
        BY <1>2, <1>3, <2>2, <2>3, <3>1, <3>2
           DEF Promise!Finish, Promise!Ordinals, Ordinals, phaseBar, resultBar
    <2>5. QED
      BY <1>1, <2>4, FinishIsNext
  <1>7. QED
    BY <1>5, <1>6

-----------------------------------------------------------------------------
(* The other steps.                                                        *)

\* The user's requests move a run between phases.
LEMMA UserMaps ==
    ASSUME IInv, WasClaimed, UserStep
    PROVE  AbstractStep
  <1>1. node \in [NodeRuns -> NodeRow]
    BY DEF IInv, TypeOK
  <1>2. ASSUME NEW r \in Runs, StartWorkflowRun(r)
        PROVE  AbstractStep
    <2>1. \A n \in NodeRuns : node'[n].output = node[n].output
      BY <1>1, <1>2 DEF StartWorkflowRun, NodeRow
    <2>2. run[r].status = "queued" /\ SetRun(r, "running", 1)
      BY <1>2 DEF StartWorkflowRun
    <2>3. QED
      BY <2>1, <2>2, PhaseMaps DEF PhaseOf, Allowed, RunStatus
  <1>3. ASSUME NEW r \in Runs, ResumeWorkflowRun(r)
        PROVE  AbstractStep
    <2>1. PICK i \in Ordinals :
            /\ node' = [node EXCEPT ![<<r, i>>].status = "queued", ![<<r, i>>].retry = "none"]
            /\ run[r].status = "paused" /\ SetRun(r, "running", i)
      BY <1>3 DEF ResumeWorkflowRun
    <2>2. \A n \in NodeRuns : node'[n].output = node[n].output
      BY <1>1, <2>1 DEF NodeRow
    <2>3. <<PhaseOf[run[r].status], PhaseOf["running"]>> \in Allowed /\ "running" \in RunStatus
      BY <2>1 DEF PhaseOf, Allowed, RunStatus
    <2>4. QED
      BY <2>1, <2>2, <2>3, PhaseMaps
  <1>4. ASSUME NEW p \in Processes, NEW r \in Runs, RequestWorkflowRunPause(p, r)
        PROVE  AbstractStep
    <2> DEFINE c == CurrentNode(r)
    <2>1. PICK t \in {"pausing", "paused"} :
            /\ run[r].status = "running" /\ SetRun(r, t, run[r].current)
            /\ \/ node' = node
               \/ node' = [node EXCEPT ![c].status = "pending", ![c].retry = "none"]
      BY <1>4 DEF RequestWorkflowRunPause
    <2>2. \A n \in NodeRuns : node'[n].output = node[n].output
      BY <1>1, <2>1 DEF NodeRow
    <2>3. QED
      BY <2>1, <2>2, PhaseMaps DEF PhaseOf, Allowed, RunStatus
  <1>5. ASSUME NEW m \in NodeRuns, RequeueFailedWorkflowNode(m)
        PROVE  AbstractStep
    <2>1. /\ node[m].status = "failed" /\ SetRun(m[1], "running", m[2])
          /\ node' = [node EXCEPT ![m].status = "queued", ![m].retry = "none"]
      BY <1>5 DEF RequeueFailedWorkflowNode
    <2>2. \A n \in NodeRuns : node'[n].output = node[n].output
      BY <1>1, <2>1 DEF NodeRow
    <2>3. run[m[1]].status = "failed" /\ m[1] \in Runs
      BY <2>1, ActiveIsCurrent, NodeRunPair DEF IInv, Agree
    <2>4. <<PhaseOf[run[m[1]].status], PhaseOf["running"]>> \in Allowed /\ "running" \in RunStatus
      BY <2>3 DEF PhaseOf, Allowed, RunStatus
    <2>5. QED
      BY <2>1, <2>2, <2>3, <2>4, PhaseMaps
  <1>6. ASSUME NEW c \in manual, CompleteWorkflowNodeManual(c[1], c[2])
        PROVE  AbstractStep
    <2>1. /\ c[1] \in NodeRuns
          /\ node[c[1]].status = "awaiting_manual_completion"
          /\ AdvanceRun(c[1], node[c[1]].attempt)
      BY <1>6 DEF CompleteWorkflowNodeManual, IInv, TypeOK
    <2>2. QED
      BY <2>1, AdvanceMaps
  <1>7. CASE UNCHANGED <<run, node>>
    BY <1>7, Invisible
  <1>8. QED
    BY <1>2, <1>3, <1>4, <1>5, <1>6, <1>7 DEF UserStep, CompleteManualResource, ManualRequestEnds

\* The decisions of the lease holder end an active run, or leave it active.
LEMMA DecisionMaps ==
    ASSUME IInv, WasClaimed, NEW p \in Processes,
           \/ PauseWorkflowNode(p) \/ AwaitWorkflowNodeManual(p)
           \/ FailWorkflowNode(p) \/ RetryWorkflowNode(p) \/ CompleteWorkflowNode(p)
    PROVE  AbstractStep
  <1> DEFINE m == worker[p].at
  <1>1. HoldsLease(p)
    BY DEF PauseWorkflowNode, AwaitWorkflowNodeManual, FailWorkflowNode,
           RetryWorkflowNode, CompleteWorkflowNode
  <1>2. /\ m \in NodeRuns /\ node[m].status = "running" /\ node[m].attempt = worker[p].attempt
        /\ m[1] \in Runs /\ run[m[1]].status \in {"running", "pausing"} /\ node[m] \in NodeRow
    BY <1>1, HolderIsCurrent
  <1>3. node \in [NodeRuns -> NodeRow]
    BY DEF IInv, TypeOK
  <1>4. CASE CompleteWorkflowNode(p)
    <2>1. AdvanceRun(m, node[m].attempt)
      BY <1>2, <1>4 DEF CompleteWorkflowNode
    <2> HIDE DEF m
    <2>2. QED
      BY <1>2, <2>1, AdvanceMaps
  <1>5. CASE ~CompleteWorkflowNode(p)
    <2>1. PICK s \in {"pending", "awaiting_manual_completion", "failed", "retry_wait"} :
            \/ node' = [node EXCEPT ![m] = Released(m, s)]
            \/ node' = [node EXCEPT ![m] = [Released(m, s) EXCEPT !.retry = "waiting"]]
      BY <1>5 DEF PauseWorkflowNode, AwaitWorkflowNodeManual, FailWorkflowNode, RetryWorkflowNode
    <2>2. \E t \in {"paused", "awaiting_manual_completion", "failed", "running"} :
            \E k : SetRun(m[1], t, k)
      BY <1>5 DEF PauseWorkflowNode, AwaitWorkflowNodeManual, FailWorkflowNode, RetryWorkflowNode
    <2>3. PICK t \in {"paused", "awaiting_manual_completion", "failed", "running"} :
            \E k : SetRun(m[1], t, k)
      BY <2>2
    <2> HIDE DEF m
    <2>4. \A n \in NodeRuns : node'[n].output = node[n].output
      <3>1. Released(m, s) \in NodeRow /\ Released(m, s).output = node[m].output
        BY <1>2, <1>3, ReleasedRow DEF NodeStatus
      <3>2. [Released(m, s) EXCEPT !.retry = "waiting"].output = node[m].output
        BY <3>1 DEF NodeRow
      <3>3. QED
        BY <1>2, <1>3, <2>1, <3>1, <3>2
    <2>5. <<PhaseOf[run[m[1]].status], PhaseOf[t]>> \in Allowed /\ t \in RunStatus
      BY <1>2, <2>3 DEF PhaseOf, Allowed, RunStatus
    <2>6. QED
      BY <1>2, <2>3, <2>4, <2>5, PhaseMaps
  <1>6. QED
    BY <1>4, <1>5

\* Every step of the runtime is a step of the line, or invisible.
LEMMA StepMaps ==
    ASSUME IInv, WasClaimed, [Next]_vars
    PROVE  AbstractStep
  <1>1. node \in [NodeRuns -> NodeRow]
    BY DEF IInv, TypeOK
  <1>2. CASE UNCHANGED <<run, node>>
    BY <1>2, Invisible
  <1>3. ASSUME NEW p \in Processes, ProcessStep(p)
        PROVE  AbstractStep
    BY <1>2, <1>3, DecisionMaps
       DEF ProcessStep, ReadSnapshot, HaltClaimed, RejectClaimed, BeginExecution,
           ExecutorReturns, ApplyOutcome, HandleNodeFailure, LeaseLost
  <1>4. ASSUME NEW p \in Processes, NEW n \in NodeRuns, ClaimWorkflowNode(p, n)
        PROVE  AbstractStep
    BY <1>1, <1>4, Invisible DEF ClaimWorkflowNode, NodeRow
  <1>5. ASSUME NEW p \in Processes, SaveCheckpoint(p)
        PROVE  AbstractStep
    BY <1>1, <1>5, Invisible DEF SaveCheckpoint, NodeRow
  <1>6. CASE TimeStep
    BY <1>1, <1>6, Invisible DEF TimeStep, LeaseExpires, RetryBecomesDue, NodeRow
  <1>7. ASSUME NEW p \in Processes, StartWorker(p)
        PROVE  AbstractStep
    BY <1>1, <1>7, Invisible DEF StartWorker, Released, NodeRow
  <1>8. CASE UserStep
    BY <1>8, UserMaps
  <1>9. CASE FaultStep \/ UNCHANGED vars
    BY <1>2, <1>9 DEF FaultStep, DatabaseFails, RenewalError, Crash, vars
  <1>10. QED
    BY <1>2, <1>3, <1>4, <1>5, <1>6, <1>7, <1>8, <1>9
       DEF Next, WorkerStep, Claim, RenewFails, RenewalError, DeliverCancel

\* The runtime keeps the promise of the abstract line: one result per node, in
\* order, none while the run is suspended or failed.
THEOREM RuntimeImplementsLine == Spec => ImplementsLinearRun
  <1>1. IInv /\ WasClaimed /\ [Next]_vars => [Promise!Next]_(Promise!vars)
    BY StepMaps DEF AbstractStep, Same, phaseBar, resultBar, Promise!vars
  <1>2. QED
    BY <1>1, InitMaps, Invariance, ClaimedFirst, PTL DEF Spec, ImplementsLinearRun, Promise!Spec

-----------------------------------------------------------------------------
(* The fence of the data services.                                         *)

fenceBar == [n \in NodeRuns |-> [attempt |-> node[n].attempt, phase |-> FencePhase(n)]]

\* A step of the abstract fence, or nothing.
FenceStep == Fence!Next \/ fenceBar' = fenceBar

\* What the services see of n is what they saw before.
SameFence(n) ==
    /\ node'[n].attempt = node[n].attempt
    /\ FencePhase(n)' = FencePhase(n)

\* A step that the services see at no row is invisible.
LEMMA SameFenceMaps ==
    ASSUME \A n \in NodeRuns : SameFence(n)
    PROVE  FenceStep
  <1>1. \A n \in NodeRuns : fenceBar'[n] = fenceBar[n]
    BY DEF SameFence, fenceBar
  <1>2. fenceBar' = fenceBar
    BY <1>1 DEF fenceBar
  <1>3. QED
    BY <1>2 DEF FenceStep

\* A row that stops running without success loses its lease.
LEMMA LoseMaps ==
    ASSUME NEW m \in NodeRuns,
           \A n \in NodeRuns : n # m => SameFence(n),
           node'[m].attempt = node[m].attempt,
           FencePhase(m)' = "idle", FencePhase(m) # "final"
    PROVE  FenceStep
  <1>1. CASE FencePhase(m) = "idle"
    <2>1. \A n \in NodeRuns : SameFence(n)
      BY <1>1 DEF SameFence
    <2>2. QED
      BY <2>1, SameFenceMaps
  <1>2. CASE FencePhase(m) = "live"
    <2>1. fenceBar' = [fenceBar EXCEPT ![m].phase = "idle"]
      BY DEF SameFence, fenceBar
    <2>2. Fence!Lose(m)
      BY <1>2, <2>1 DEF Fence!Lose, fenceBar
    <2>3. QED
      BY <2>2 DEF FenceStep, Fence!Next
  <1>3. QED
    BY <1>1, <1>2 DEF FencePhase

\* A completed row is settled.
LEMMA SettleMaps ==
    ASSUME IInv, WasClaimed, NEW m \in NodeRuns,
           node[m].status \in {"running", "awaiting_manual_completion"},
           AdvanceRun(m, node[m].attempt)
    PROVE  FenceStep
  <1>1. node \in [NodeRuns -> NodeRow] /\ node[m].attempt \in 0..MaxAttempt /\ node[m].attempt > 0
    BY DEF IInv, TypeOK, NodeRow, WasClaimed
  <1>2. node'[m] = Done(m, node[m].attempt) /\ \A n \in NodeRuns : n # m => node'[n] = node[n] \/ FedBy(n)
    BY AdvanceRows
  <1>3. \A n \in NodeRuns : n # m => fenceBar'[n] = fenceBar[n]
    <2>1. ASSUME NEW n \in NodeRuns, FedBy(n)
          PROVE  SameFence(n)
      <3>1. PICK a \in 0..MaxAttempt, s \in {"pending", "queued"} :
              node[n].status = "pending" /\ node'[n] = Fed(n, a, s)
        BY <2>1 DEF FedBy
      <3>2. QED
        BY <1>1, <3>1 DEF Fed, NodeRow, SameFence, FencePhase
    <2>2. QED
      BY <1>2, <2>1 DEF SameFence, fenceBar, FencePhase
  <1>4. node'[m].status = "succeeded" /\ node'[m].attempt = node[m].attempt
    BY <1>1, <1>2, DoneRow
  <1>5. FencePhase(m)' = "final" /\ FencePhase(m) # "final"
    BY <1>4 DEF FencePhase
  <1>6. fenceBar' = [fenceBar EXCEPT ![m].phase = "final"]
    BY <1>3, <1>4, <1>5 DEF fenceBar
  <1>7. Fence!Settle(m)
    BY <1>1, <1>5, <1>6 DEF Fence!Settle, fenceBar
  <1>8. QED
    BY <1>7 DEF FenceStep, Fence!Next

\* A claimed row begins its next attempt.
LEMMA ClaimMaps ==
    ASSUME IInv, NEW p \in Processes, NEW m \in NodeRuns, ClaimWorkflowNode(p, m)
    PROVE  FenceStep
  <1>1. node \in [NodeRuns -> NodeRow]
    BY DEF IInv, TypeOK
  <1>2. /\ ~(node[m].status = "running" /\ node[m].lease = "live")
        /\ node[m].status # "succeeded" /\ node[m].attempt < MaxAttempt
    BY DEF ClaimWorkflowNode, Claimable
  <1>3. /\ node'[m] = [node[m] EXCEPT !.status = "running", !.attempt = node[m].attempt + 1,
                                     !.owner = p, !.lease = "live", !.retry = "none"]
        /\ \A n \in NodeRuns : n # m => node'[n] = node[n]
    BY <1>1 DEF ClaimWorkflowNode
  <1>4. /\ node'[m].status = "running" /\ node'[m].lease = "live"
        /\ node'[m].attempt = node[m].attempt + 1
    BY <1>1, <1>3 DEF NodeRow
  <1>5. FencePhase(m)' = "live" /\ FencePhase(m) = "idle"
    BY <1>2, <1>4 DEF FencePhase
  <1>6. fenceBar' = [fenceBar EXCEPT ![m].attempt = @ + 1, ![m].phase = "live"]
    <2>1. \A n \in NodeRuns : n # m => fenceBar'[n] = fenceBar[n]
      BY <1>3 DEF fenceBar, FencePhase
    <2>2. QED
      BY <1>4, <1>5, <2>1 DEF fenceBar
  <1>7. Fence!Claim(m)
    BY <1>2, <1>5, <1>6 DEF Fence!Claim, fenceBar
  <1>8. QED
    BY <1>7 DEF FenceStep, Fence!Next

\* A decision of the holder settles the row or loses its lease.
LEMMA DecisionFence ==
    ASSUME IInv, WasClaimed, NEW p \in Processes,
           \/ PauseWorkflowNode(p) \/ AwaitWorkflowNodeManual(p)
           \/ FailWorkflowNode(p) \/ RetryWorkflowNode(p) \/ CompleteWorkflowNode(p)
    PROVE  FenceStep
  <1> DEFINE m == worker[p].at
  <1>1. HoldsLease(p)
    BY DEF PauseWorkflowNode, AwaitWorkflowNodeManual, FailWorkflowNode,
           RetryWorkflowNode, CompleteWorkflowNode
  <1>2. /\ m \in NodeRuns /\ node[m].status = "running" /\ node[m].attempt = worker[p].attempt
        /\ node \in [NodeRuns -> NodeRow]
    BY <1>1, HolderIsCurrent DEF IInv, TypeOK
  <1>3. CASE CompleteWorkflowNode(p)
    <2>1. AdvanceRun(m, node[m].attempt)
      BY <1>2, <1>3 DEF CompleteWorkflowNode
    <2> HIDE DEF m
    <2>2. QED
      BY <1>2, <2>1, SettleMaps
  <1>4. CASE ~CompleteWorkflowNode(p)
    <2>1. PICK s \in {"pending", "awaiting_manual_completion", "failed", "retry_wait"} :
            \/ node' = [node EXCEPT ![m] = Released(m, s)]
            \/ node' = [node EXCEPT ![m] = [Released(m, s) EXCEPT !.retry = "waiting"]]
      BY <1>4 DEF PauseWorkflowNode, AwaitWorkflowNodeManual, FailWorkflowNode, RetryWorkflowNode
    <2> HIDE DEF m
    <2>2. \A n \in NodeRuns : n # m => node'[n] = node[n]
      BY <1>2, <2>1
    <2>3. node'[m].status = s /\ node'[m].attempt = node[m].attempt
      <3>1. /\ Released(m, s) \in NodeRow /\ Released(m, s).status = s
            /\ Released(m, s).attempt = node[m].attempt
        BY <1>2, ReleasedRow DEF NodeStatus
      <3>2. /\ [Released(m, s) EXCEPT !.retry = "waiting"].status = s
            /\ [Released(m, s) EXCEPT !.retry = "waiting"].attempt = node[m].attempt
        BY <3>1 DEF NodeRow
      <3>3. QED
        BY <1>2, <2>1, <3>1, <3>2
    <2>4. PICK q \in NodeRuns : q = m
      BY <1>2
    <2>5. \A n \in NodeRuns : n # q => SameFence(n)
      BY <2>2, <2>4 DEF SameFence, FencePhase
    <2>6. /\ FencePhase(q)' = "idle" /\ FencePhase(q) # "final"
          /\ node'[q].attempt = node[q].attempt
      BY <1>2, <2>3, <2>4 DEF FencePhase
    <2>7. QED
      BY <2>5, <2>6, LoseMaps
  <1>5. QED
    BY <1>3, <1>4

\* The user's requests do not touch a running row.
LEMMA UserFence ==
    ASSUME IInv, WasClaimed, UserStep
    PROVE  FenceStep
  <1>1. node \in [NodeRuns -> NodeRow]
    BY DEF IInv, TypeOK
  <1>2. ASSUME NEW m \in NodeRuns, NEW s \in {"pending", "queued"},
               node[m].status \in {"pending", "queued", "retry_wait", "failed"},
               \/ node' = [node EXCEPT ![m].status = s, ![m].retry = "none"]
               \/ node' = [node EXCEPT ![m].status = s]
        PROVE  FenceStep
    <2>1. PICK q : /\ node' = [node EXCEPT ![m] = q]
                   /\ q.status = s /\ q.attempt = node[m].attempt
      BY <1>1, <1>2 DEF NodeRow
    <2>2. /\ node'[m].status = s /\ node'[m].attempt = node[m].attempt
          /\ \A n \in NodeRuns : n # m => node'[n] = node[n]
      BY <1>1, <2>1
    <2>3. \A n \in NodeRuns : SameFence(n)
      BY <1>2, <2>1, <2>2 DEF SameFence, FencePhase
    <2>4. QED
      BY <2>3, SameFenceMaps
  <1>3. CASE UNCHANGED node
    BY <1>3, SameFenceMaps DEF SameFence, FencePhase
  <1>4. ASSUME NEW r \in Runs, StartWorkflowRun(r)
        PROVE  FenceStep
    <2>1. <<r, 1>> \in NodeRuns
      BY RuntimeAssumption DEF NodeRuns, Ordinals
    <2>2. CASE node[<<r, 1>>].status = "pending"
      <3>1. node' = [node EXCEPT ![<<r, 1>>].status = "queued"]
        BY <1>1, <1>4, <2>1, <2>2 DEF StartWorkflowRun
      <3>2. QED
        BY <1>2, <2>1, <2>2, <3>1
    <2>3. CASE node[<<r, 1>>].status # "pending"
      <3>1. \A n \in NodeRuns : node'[n] = node[n]
        BY <1>1, <1>4, <2>1, <2>3 DEF StartWorkflowRun, NodeRow
      <3>2. QED
        BY <3>1, SameFenceMaps DEF SameFence, FencePhase
    <2>4. QED
      BY <2>2, <2>3
  <1>5. ASSUME NEW r \in Runs, ResumeWorkflowRun(r)
        PROVE  FenceStep
    <2>1. PICK i \in Ordinals :
            /\ node[<<r, i>>].status \in {"pending", "retry_wait"}
            /\ node' = [node EXCEPT ![<<r, i>>].status = "queued", ![<<r, i>>].retry = "none"]
      BY <1>5 DEF ResumeWorkflowRun
    <2>2. <<r, i>> \in NodeRuns
      BY DEF NodeRuns
    <2>3. QED
      BY <1>2, <2>1, <2>2
  <1>6. ASSUME NEW p \in Processes, NEW r \in Runs, RequestWorkflowRunPause(p, r)
        PROVE  FenceStep
    <2>1. run[r].status = "running" /\ run \in [Runs -> RunRow]
      BY <1>6 DEF RequestWorkflowRunPause, IInv, TypeOK
    <2>2. CurrentNode(r) \in NodeRuns
      BY <2>1, RuntimeAssumption
         DEF CurrentNode, NodeRuns, Ordinals, IInv, LinearFrontier, RunRow
    <2>3. QED
      BY <1>2, <1>3, <1>6, <2>2 DEF RequestWorkflowRunPause
  <1>7. ASSUME NEW m \in NodeRuns, RequeueFailedWorkflowNode(m)
        PROVE  FenceStep
    BY <1>2, <1>7 DEF RequeueFailedWorkflowNode
  <1>8. ASSUME NEW c \in manual, CompleteWorkflowNodeManual(c[1], c[2])
        PROVE  FenceStep
    <2>1. /\ c[1] \in NodeRuns
          /\ node[c[1]].status = "awaiting_manual_completion"
          /\ AdvanceRun(c[1], node[c[1]].attempt)
      BY <1>8 DEF CompleteWorkflowNodeManual, IInv, TypeOK
    <2>2. QED
      BY <2>1, SettleMaps
  <1>9. QED
    BY <1>3, <1>4, <1>5, <1>6, <1>7, <1>8 DEF UserStep, CompleteManualResource, ManualRequestEnds

\* Every step of the runtime is a step of the fence, or invisible to it.
LEMMA FenceMaps ==
    ASSUME IInv, WasClaimed, [Next]_vars
    PROVE  FenceStep
  <1>1. node \in [NodeRuns -> NodeRow]
    BY DEF IInv, TypeOK
  <1>2. CASE UNCHANGED node
    BY <1>2, SameFenceMaps DEF SameFence, FencePhase
  <1>3. ASSUME NEW p \in Processes, ProcessStep(p)
        PROVE  FenceStep
    BY <1>2, <1>3, DecisionFence
       DEF ProcessStep, ReadSnapshot, HaltClaimed, RejectClaimed, BeginExecution,
           ExecutorReturns, ApplyOutcome, HandleNodeFailure, LeaseLost
  <1>4. ASSUME NEW p \in Processes, SaveCheckpoint(p)
        PROVE  FenceStep
    <2>1. \A n \in NodeRuns : SameFence(n)
      BY <1>1, <1>4 DEF SaveCheckpoint, NodeRow, SameFence, FencePhase
    <2>2. QED
      BY <2>1, SameFenceMaps
  <1>5. ASSUME NEW m \in NodeRuns, LeaseExpires(m)
        PROVE  FenceStep
    <2>1. /\ node'[m] = [node[m] EXCEPT !.lease = "expired"]
          /\ \A n \in NodeRuns : n # m => node'[n] = node[n]
      BY <1>1, <1>5 DEF LeaseExpires
    <2>2. /\ node'[m].lease = "expired" /\ node'[m].status = node[m].status
          /\ node'[m].attempt = node[m].attempt
      BY <1>1, <2>1 DEF NodeRow
    <2>3. \A n \in NodeRuns : n # m => SameFence(n)
      BY <2>1 DEF SameFence, FencePhase
    <2>4. CASE node[m].status = "succeeded"
      <3>1. SameFence(m)
        BY <2>2, <2>4 DEF SameFence, FencePhase
      <3>2. QED
        BY <2>3, <3>1, SameFenceMaps
    <2>5. CASE node[m].status # "succeeded"
      <3>1. FencePhase(m)' = "idle" /\ FencePhase(m) # "final"
        BY <2>2, <2>5 DEF FencePhase
      <3>2. QED
        BY <2>2, <2>3, <3>1, LoseMaps
    <2>6. QED
      BY <2>4, <2>5
  <1>6. ASSUME NEW m \in NodeRuns, RetryBecomesDue(m)
        PROVE  FenceStep
    <2>1. \A n \in NodeRuns : SameFence(n)
      BY <1>1, <1>6 DEF RetryBecomesDue, NodeRow, SameFence, FencePhase
    <2>2. QED
      BY <2>1, SameFenceMaps
  <1>7. ASSUME NEW p \in Processes, StartWorker(p)
        PROVE  FenceStep
    <2>1. ASSUME NEW n \in NodeRuns
          PROVE  SameFence(n)
      <3>1. /\ node[n] \in NodeRow
            /\ node'[n] = IF node[n].status = "running" /\ node[n].lease = "expired"
                          THEN Released(n, "queued") ELSE node[n]
        BY <1>1, <1>7 DEF StartWorker
      <3>2. CASE node'[n] = node[n]
        BY <3>2 DEF SameFence, FencePhase
      <3>3. CASE node[n].lease = "expired" /\ node'[n] = Released(n, "queued")
        <4>1. /\ node'[n].status = "queued" /\ node'[n].attempt = node[n].attempt
          BY <3>1, <3>3 DEF Released, NodeRow
        <4>2. node[n].status = "succeeded" => node'[n] = node[n]
          BY <3>1
        <4>3. QED
          BY <3>3, <4>1, <4>2 DEF SameFence, FencePhase
      <3>4. QED
        BY <3>1, <3>2, <3>3
    <2>2. QED
      BY <2>1, SameFenceMaps
  <1>8. CASE UserStep
    BY <1>8, UserFence
  <1>9. CASE FaultStep \/ UNCHANGED vars
    BY <1>2, <1>9 DEF FaultStep, DatabaseFails, RenewalError, Crash, vars
  <1>10. QED
    BY <1>2, <1>3, <1>4, <1>5, <1>6, <1>7, <1>8, <1>9, ClaimMaps
       DEF Next, WorkerStep, Claim, RenewFails, RenewalError, DeliverCancel, TimeStep

\* The initial rows map to an initial fence.
LEMMA FenceInitMaps == Init => Fence!Init
  BY DEF Init, Fence!Init, NewNode, FencePhase

\* The runtime is a fence for the services that write data on its behalf.
THEOREM RuntimeImplementsFence == Spec => ImplementsNodeFence
  <1>1. IInv /\ WasClaimed /\ [Next]_vars => [Fence!Next]_fenceBar
    BY FenceMaps DEF FenceStep
  <1>2. fenceBar = fenceBar
    OBVIOUS
  <1>3. QED
    BY <1>1, FenceInitMaps, Invariance, ClaimedFirst, PTL
       DEF Spec, ImplementsNodeFence, Fence!Spec, fenceBar

=============================================================================
