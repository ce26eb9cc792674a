----------------------- MODULE RetrievalSnapshotProofs -----------------------
(***************************************************************************)
(* Proofs about RetrievalSnapshot for every set of builders on one dataset *)
(* and any positions they are bound to: a snapshot that is active stays    *)
(* as it is and stays covered by both indexes, although attempts whose     *)
(* lease is over go on writing the indexes, and who is answered has an     *)
(* active snapshot of its model.                                           *)
(***************************************************************************)
EXTENDS RetrievalSnapshot, WellFoundedInduction, FiniteSetTheorems, TLAPS

Attempts == 1..MaxAttempt
Embedding == Models \cup {None}

-----------------------------------------------------------------------------
(* The inductive invariant.                                                *)

\* The row of a call that has opened it keeps the model the call resolved.
HasRow == {"opened", "indexing", "embedded", "indexed", "validating",
           "counted", "activated", "answered"}

CallsFitTheirRow ==
    \A n \in Builders, k \in Attempts : call[<<n, k>>].pc \in HasRow =>
        snap[n].status # "none" /\ snap[n].model = call[<<n, k>>].model

\* A page that was sent to the embedder has a model.
PagesAreEmbedded ==
    \A n \in Builders, k \in Attempts :
        call[<<n, k>>].pc \in {"embedded", "indexed"} => call[<<n, k>>].by \in Models

\* What was counted before the activation is still there.
CountedIsCovered ==
    \A n \in Builders :
        /\ snap[n].status = "active" => Covered(Boundary[n])
        /\ \A k \in Attempts :
             /\ call[<<n, k>>].pc = "counted" => Covered(Boundary[n])
             /\ call[<<n, k>>].pc \in {"activated", "answered"} => snap[n].status = "active"

IInv == TypeOK /\ CallsFitTheirRow /\ PagesAreEmbedded /\ CountedIsCovered

-----------------------------------------------------------------------------
(* Positions and pages.                                                    *)

\* A set of numbers up to a bound that is not empty has a greatest one.
LEMMA GreatestNumber ==
    ASSUME NEW bound \in Nat, NEW S \in SUBSET (0..bound), S # {}
    PROVE  \E p \in S : \A q \in S : q <= p
  <1> DEFINE Gap == {bound - p : p \in S}
             R == OpToRel(<, Nat)
  <1>1. Gap \subseteq Nat /\ Gap # {}
    <2>1. \A p \in S : p \in Nat /\ p <= bound
      OBVIOUS
    <2>2. \A p \in S : bound - p \in Nat
      BY <2>1
    <2>3. PICK p : p \in S
      OBVIOUS
    <2>4. bound - p \in Gap
      BY <2>3
    <2>5. QED
      BY <2>2, <2>4
  <1>2. IsWellFoundedOn(R, Nat)
    BY NatLessThanWellFounded
  <1>3. \A x, y \in Nat : <<y, x>> \in R <=> y < x
    BY DEF OpToRel
  <1> HIDE DEF R, Gap
  <1>4. PICK x \in Gap : \A y \in Gap : ~ (<<y, x>> \in R)
    BY <1>1, <1>2, WFMin
  <1>5. PICK p \in S : x = bound - p
    BY <1>4 DEF Gap
  <1>6. ASSUME NEW q \in S
        PROVE  q <= p
    <2>1. bound - q \in Gap /\ bound - q \in Nat /\ x \in Nat
      BY <1>1, <1>4 DEF Gap
    <2>2. ~ (bound - q < x)
      BY <1>3, <1>4, <2>1
    <2>3. QED
      BY <1>5, <2>2
  <1>7. QED
    BY <1>6

\* A build starts at a position.
LEMMA StartIsPosition ==
    ASSUME RetrievalAssumption, NEW through \in Nat
    PROVE  LatestActive(through) \in Nat
  <1> DEFINE sealed == {0} \cup {Boundary[m] : m \in {b \in Builders : snap[b].status = "active"
                                                             /\ Boundary[b] <= through}}
  <1>1. sealed \in SUBSET (0..through) /\ sealed # {} /\ \A p \in sealed : p \in Nat
    BY DEF RetrievalAssumption
  <1> HIDE DEF sealed
  <1>2. \E p \in sealed : \A q \in sealed : q <= p
    BY <1>1, GreatestNumber
  <1>3. LatestActive(through) = CHOOSE p \in sealed : \A q \in sealed : q <= p
    BY DEF LatestActive, sealed
  <1>4. LatestActive(through) \in sealed
    BY <1>2, <1>3, Zenon
  <1>5. QED
    BY <1>1, <1>4

\* A page is a finite set of items.
LEMMA PageOfItems ==
    ASSUME RetrievalAssumption, TypeOK, NEW n \in Builders, NEW k \in Attempts
    PROVE  Page(n, k) \subseteq Items /\ Cardinality(Page(n, k)) \in Nat
  <1>1. Boundary[n] \in Nat
    BY DEF RetrievalAssumption
  <1>2. Page(n, k) \in SUBSET (1..Boundary[n])
    BY DEF Page
  <1>3. IsFiniteSet(1..Boundary[n])
    BY <1>1, FS_Interval
  <1>4. IsFiniteSet(Page(n, k))
    BY <1>2, <1>3, FS_Subset
  <1>5. QED
    BY <1>2, <1>4, FS_CardinalityType DEF Items

\* The indexes only grow: no document is removed and no item loses its chunks.
IndexesGrow ==
    /\ lexical \subseteq lexical'
    /\ \A i \in Items : chunk[i] # None => chunk'[i] # None

\* What is covered stays covered.
LEMMA CoverageStays ==
    ASSUME RetrievalAssumption, NEW n \in Builders, IndexesGrow, Covered(Boundary[n])
    PROVE  Covered(Boundary[n])'
  BY DEF IndexesGrow, Covered, Items

-----------------------------------------------------------------------------
(* What the steps do.                                                      *)

\* One call is replaced.
LEMMA CallEffect ==
    ASSUME TypeOK, NEW n \in Builders, NEW k \in Attempts, NEW new \in Call,
           call' = [call EXCEPT ![<<n, k>>] = new]
    PROVE  /\ call' \in [Builders \X Attempts -> Call]
           /\ call'[<<n, k>>] = new
           /\ \A m \in Builders, j \in Attempts : m # n \/ j # k => call'[<<m, j>>] = call[<<m, j>>]
  <1>1. call \in [Builders \X Attempts -> Call]
    BY DEF TypeOK, Attempts
  <1>2. \A m \in Builders, j \in Attempts : m # n \/ j # k => <<m, j>> # <<n, k>>
    OBVIOUS
  <1>3. QED
    BY <1>1, <1>2

\* A call goes on.
LEMMA MoveEffect ==
    ASSUME TypeOK, NEW n \in Builders, NEW k \in Attempts, NEW pc \in CallPC, MoveTo(n, k, pc)
    PROVE  /\ call' \in [Builders \X Attempts -> Call]
           /\ call'[<<n, k>>].pc = pc
           /\ call'[<<n, k>>].model = call[<<n, k>>].model
           /\ call'[<<n, k>>].by = call[<<n, k>>].by
           /\ \A m \in Builders, j \in Attempts : m # n \/ j # k => call'[<<m, j>>] = call[<<m, j>>]
  <1>1. PICK new : new = [call[<<n, k>>] EXCEPT !.pc = pc]
    OBVIOUS
  <1>2. call[<<n, k>>] \in Call
    BY DEF TypeOK, Attempts
  <1>3. /\ new \in Call /\ new.pc = pc /\ new.model = call[<<n, k>>].model
        /\ new.by = call[<<n, k>>].by
    BY <1>1, <1>2 DEF Call
  <1>4. call' = [call EXCEPT ![<<n, k>>] = new]
    BY <1>1 DEF MoveTo
  <1>5. QED
    BY <1>3, <1>4, CallEffect

\* A step that leaves the rows alone, grows the indexes at most, and moves one
\* call to a point its row and its counts allow.
LEMMA RowsUntouched ==
    ASSUME RetrievalAssumption, IInv, NEW n \in Builders, NEW k \in Attempts,
           snap' = snap, IndexesGrow,
           \A m \in Builders, j \in Attempts : m # n \/ j # k => call'[<<m, j>>] = call[<<m, j>>],
           call'[<<n, k>>].pc \in HasRow =>
               snap[n].status # "none" /\ snap[n].model = call'[<<n, k>>].model,
           call'[<<n, k>>].pc \in {"embedded", "indexed"} => call'[<<n, k>>].by \in Models,
           call'[<<n, k>>].pc = "counted" => Covered(Boundary[n]),
           call'[<<n, k>>].pc \in {"activated", "answered"} => snap[n].status = "active"
    PROVE  CallsFitTheirRow' /\ PagesAreEmbedded' /\ CountedIsCovered' /\ KeepsSealedSnapshots
  <1>1. CallsFitTheirRow' /\ PagesAreEmbedded'
    BY DEF IInv, CallsFitTheirRow, PagesAreEmbedded
  <1>2. \A m \in Builders : Covered(Boundary[m]) => Covered(Boundary[m])'
    BY CoverageStays
  <1>3. CountedIsCovered'
    BY <1>2 DEF IInv, CountedIsCovered
  <1>4. \A m \in Builders : Covered(Boundary[m])' => Visible(m)' = 1..Boundary[m]
    BY DEF Covered, Visible
  <1>5. KeepsSealedSnapshots
    BY <1>3, <1>4 DEF CountedIsCovered, KeepsSealedSnapshots
  <1>6. QED
    BY <1>1, <1>3, <1>5

\* A step that replaces the row of one builder, which was not active, or
\* leaves an active one as it is.
LEMMA RowReplaced ==
    ASSUME RetrievalAssumption, IInv, NEW n \in Builders, NEW k \in Attempts, NEW new \in Snapshot,
           snap' = [snap EXCEPT ![n] = new], UNCHANGED <<lexical, chunk>>,
           snap[n].status = "active" => new = snap[n],
           snap[n].status # "none" => new.status # "none" /\ new.model = snap[n].model,
           new.status = "active" => Covered(Boundary[n]),
           \A m \in Builders, j \in Attempts : m # n \/ j # k => call'[<<m, j>>] = call[<<m, j>>],
           call'[<<n, k>>].pc \in HasRow =>
               new.status # "none" /\ new.model = call'[<<n, k>>].model,
           call'[<<n, k>>].pc \notin {"embedded", "indexed", "counted", "answered"},
           call'[<<n, k>>].pc = "activated" => new.status = "active"
    PROVE  CallsFitTheirRow' /\ PagesAreEmbedded' /\ CountedIsCovered' /\ KeepsSealedSnapshots
  <1>1. snap'[n] = new /\ \A m \in Builders : m # n => snap'[m] = snap[m]
    BY DEF IInv, TypeOK
  <1>2. CallsFitTheirRow'
    BY <1>1 DEF IInv, CallsFitTheirRow
  <1>3. PagesAreEmbedded'
    BY DEF IInv, PagesAreEmbedded
  <1>4. \A m \in Builders : Covered(Boundary[m]) => Covered(Boundary[m])'
    BY DEF Covered
  <1>5. CountedIsCovered'
    BY <1>1, <1>4 DEF IInv, CountedIsCovered
  <1>6. \A m \in Builders : Covered(Boundary[m])' => Visible(m)' = 1..Boundary[m]
    BY DEF Covered, Visible
  <1>7. KeepsSealedSnapshots
    BY <1>1, <1>5, <1>6 DEF CountedIsCovered, KeepsSealedSnapshots
  <1>8. QED
    BY <1>2, <1>3, <1>5, <1>7

-----------------------------------------------------------------------------
(* The environment.                                                        *)

\* Nobody has a call here: Lose, Settle and another configuration.
LEMMA OutsideStep ==
    ASSUME RetrievalAssumption, IInv, fence' \in [Builders -> Nodes!Fence], platform' \in Models,
           UNCHANGED <<lexical, chunk, snap, call>>
    PROVE  IInv' /\ KeepsSealedSnapshots
  <1>1. TypeOK'
    BY DEF IInv, TypeOK
  <1>2. CallsFitTheirRow' /\ PagesAreEmbedded' /\ CountedIsCovered'
    BY DEF IInv, CallsFitTheirRow, PagesAreEmbedded, CountedIsCovered, Covered
  <1>3. \A m \in Builders : Covered(Boundary[m])' => Visible(m)' = 1..Boundary[m]
    BY DEF Covered, Visible
  <1>4. QED
    BY <1>1, <1>2, <1>3 DEF IInv, KeepsSealedSnapshots, CountedIsCovered

\* A claim gives the node run its next attempt.
LEMMA FenceEffect ==
    ASSUME RetrievalAssumption, TypeOK, NEW n \in Builders
    PROVE  /\ Nodes!Claim(n) => /\ fence' \in [Builders -> Nodes!Fence]
                                /\ fence[n].attempt + 1 \in Attempts
           /\ Nodes!Lose(n) \/ Nodes!Settle(n) => fence' \in [Builders -> Nodes!Fence]
  <1>1. fence \in [Builders -> Nodes!Fence] /\ fence[n] \in Nodes!Fence /\ MaxAttempt \in Nat
    BY DEF TypeOK, RetrievalAssumption
  <1>2. ASSUME Nodes!Claim(n)
        PROVE  fence' \in [Builders -> Nodes!Fence] /\ fence[n].attempt + 1 \in Attempts
    <2>1. PICK new : new = [attempt |-> fence[n].attempt + 1, phase |-> "live"]
      OBVIOUS
    <2>2. new \in Nodes!Fence
      BY <1>1, <1>2, <2>1 DEF Nodes!Fence, Nodes!Claim
    <2>3. fence' = [fence EXCEPT ![n] = new]
      BY <1>1, <1>2, <2>1 DEF Nodes!Claim, Nodes!Fence
    <2>4. QED
      BY <1>1, <1>2, <2>2, <2>3 DEF Nodes!Claim, Nodes!Fence, Attempts
  <1>3. Nodes!Lose(n) \/ Nodes!Settle(n) => fence' \in [Builders -> Nodes!Fence]
    BY <1>1 DEF Nodes!Lose, Nodes!Settle, Nodes!Fence
  <1>4. QED
    BY <1>2, <1>3

\* A new attempt of a builder.
LEMMA ClaimStep ==
    ASSUME RetrievalAssumption, IInv, NEW n \in Builders, Claim(n)
    PROVE  IInv' /\ KeepsSealedSnapshots
  <1>1. PICK k : k = fence[n].attempt + 1
    OBVIOUS
  <1>2. /\ k \in Attempts /\ fence' \in [Builders -> Nodes!Fence] /\ MoveTo(n, k, "begun")
        /\ UNCHANGED <<platform, lexical, chunk, snap>> /\ "begun" \in CallPC
    BY <1>1, FenceEffect DEF IInv, Claim, CallPC
  <1>3. /\ call' \in [Builders \X Attempts -> Call] /\ call'[<<n, k>>].pc = "begun"
        /\ \A m \in Builders, j \in Attempts : m # n \/ j # k => call'[<<m, j>>] = call[<<m, j>>]
    BY <1>2, MoveEffect DEF IInv
  <1>4. TypeOK'
    BY <1>2, <1>3 DEF IInv, TypeOK, Attempts
  <1>5. CallsFitTheirRow' /\ PagesAreEmbedded' /\ CountedIsCovered' /\ KeepsSealedSnapshots
    BY <1>2, <1>3, RowsUntouched DEF HasRow, IndexesGrow
  <1>6. QED
    BY <1>4, <1>5 DEF IInv

-----------------------------------------------------------------------------
(* BuildSnapshot.                                                          *)

\* Steps that only move the call, or note what was read.
LEMMA ReadingStep ==
    ASSUME RetrievalAssumption, IInv, NEW n \in Builders, NEW k \in Attempts,
           Resolve(n, k) \/ Start(n, k) \/ Embed(n, k) \/ Count(n, k) \/ Answer(n, k)
    PROVE  IInv' /\ KeepsSealedSnapshots
  <1>1. UNCHANGED <<fence, platform, lexical, chunk, snap>> /\ IndexesGrow
    BY DEF Resolve, Start, Embed, Count, Answer, IndexesGrow
  <1>2. call[<<n, k>>] \in Call /\ platform \in Models
    BY DEF IInv, TypeOK, Attempts
  <1>3. CASE Resolve(n, k)
    <2>1. PICK new : new = [call[<<n, k>>] EXCEPT !.model = platform, !.pc = "resolved"]
      OBVIOUS
    <2>2. new \in Call /\ new.pc = "resolved"
      BY <1>2, <2>1 DEF Call, CallPC
    <2>3. call' = [call EXCEPT ![<<n, k>>] = new]
      BY <1>3, <2>1 DEF Resolve
    <2>4. /\ call' \in [Builders \X Attempts -> Call] /\ call'[<<n, k>>].pc = "resolved"
          /\ \A m \in Builders, j \in Attempts : m # n \/ j # k => call'[<<m, j>>] = call[<<m, j>>]
      BY <2>2, <2>3, CallEffect DEF IInv
    <2>5. TypeOK'
      BY <1>1, <2>4 DEF IInv, TypeOK, Attempts
    <2>6. CallsFitTheirRow' /\ PagesAreEmbedded' /\ CountedIsCovered' /\ KeepsSealedSnapshots
      BY <1>1, <2>4, RowsUntouched DEF HasRow
    <2>7. QED
      BY <2>5, <2>6 DEF IInv
  <1>4. CASE Start(n, k)
    <2>1. PICK from : from = IF Covered(LatestActive(Boundary[n])) THEN LatestActive(Boundary[n]) ELSE 0
      OBVIOUS
    <2>2. from \in Nat
      BY <2>1, StartIsPosition DEF RetrievalAssumption
    <2>3. PICK new : new = [call[<<n, k>>] EXCEPT !.processed = from, !.pc = "indexing"]
      OBVIOUS
    <2>4. new \in Call /\ new.pc = "indexing" /\ new.model = call[<<n, k>>].model
      BY <1>2, <2>2, <2>3 DEF Call, CallPC
    <2>5. call' = [call EXCEPT ![<<n, k>>] = new] /\ call[<<n, k>>].pc = "opened"
      BY <1>4, <2>1, <2>3 DEF Start, At
    <2>6. /\ call' \in [Builders \X Attempts -> Call] /\ call'[<<n, k>>] = new
          /\ \A m \in Builders, j \in Attempts : m # n \/ j # k => call'[<<m, j>>] = call[<<m, j>>]
      BY <2>4, <2>5, CallEffect DEF IInv
    <2>7. TypeOK'
      BY <1>1, <2>6 DEF IInv, TypeOK, Attempts
    <2>8. snap[n].status # "none" /\ snap[n].model = call[<<n, k>>].model
      BY <2>5 DEF IInv, CallsFitTheirRow, HasRow
    <2>9. CallsFitTheirRow' /\ PagesAreEmbedded' /\ CountedIsCovered' /\ KeepsSealedSnapshots
      BY <1>1, <2>4, <2>6, <2>8, RowsUntouched
    <2>10. QED
      BY <2>7, <2>9 DEF IInv
  <1>5. CASE Embed(n, k)
    <2>1. PICK new : new = [call[<<n, k>>] EXCEPT !.by = platform, !.pc = "embedded"]
      OBVIOUS
    <2>2. /\ new \in Call /\ new.pc = "embedded" /\ new.by = platform
          /\ new.model = call[<<n, k>>].model
      BY <1>2, <2>1 DEF Call, CallPC
    <2>3. call' = [call EXCEPT ![<<n, k>>] = new] /\ call[<<n, k>>].pc = "indexing"
      BY <1>5, <2>1 DEF Embed, At
    <2>4. /\ call' \in [Builders \X Attempts -> Call] /\ call'[<<n, k>>] = new
          /\ \A m \in Builders, j \in Attempts : m # n \/ j # k => call'[<<m, j>>] = call[<<m, j>>]
      BY <2>2, <2>3, CallEffect DEF IInv
    <2>5. TypeOK'
      BY <1>1, <2>4 DEF IInv, TypeOK, Attempts
    <2>6. snap[n].status # "none" /\ snap[n].model = call[<<n, k>>].model
      BY <2>3 DEF IInv, CallsFitTheirRow, HasRow
    <2>7. CallsFitTheirRow' /\ PagesAreEmbedded' /\ CountedIsCovered' /\ KeepsSealedSnapshots
      BY <1>1, <1>2, <2>2, <2>4, <2>6, RowsUntouched
    <2>8. QED
      BY <2>5, <2>7 DEF IInv
  <1>6. CASE Count(n, k) \/ Answer(n, k)
    <2>1. PICK pc \in {"counted", "answered"} :
            /\ MoveTo(n, k, pc)
            /\ pc = "counted" => call[<<n, k>>].pc = "validating" /\ Covered(Boundary[n])
            /\ pc = "answered" => call[<<n, k>>].pc = "activated"
      BY <1>6 DEF Count, Answer, At
    <2>2. /\ call' \in [Builders \X Attempts -> Call] /\ call'[<<n, k>>].pc = pc
          /\ call'[<<n, k>>].model = call[<<n, k>>].model
          /\ \A m \in Builders, j \in Attempts : m # n \/ j # k => call'[<<m, j>>] = call[<<m, j>>]
      BY <2>1, MoveEffect DEF IInv, CallPC
    <2>3. TypeOK'
      BY <1>1, <2>2 DEF IInv, TypeOK, Attempts
    <2>4. /\ snap[n].status # "none" /\ snap[n].model = call[<<n, k>>].model
          /\ pc = "answered" => snap[n].status = "active"
      BY <2>1 DEF IInv, CallsFitTheirRow, HasRow, CountedIsCovered
    <2>5. CallsFitTheirRow' /\ PagesAreEmbedded' /\ CountedIsCovered' /\ KeepsSealedSnapshots
      BY <1>1, <2>1, <2>2, <2>4, RowsUntouched
    <2>6. QED
      BY <2>3, <2>5 DEF IInv
  <1>7. QED
    BY <1>3, <1>4, <1>5, <1>6

\* Steps that write the indexes, which no fence guards.
LEMMA IndexStep ==
    ASSUME RetrievalAssumption, IInv, NEW n \in Builders, NEW k \in Attempts,
           BuildLexical(n, k) \/ UpsertChunks(n, k) \/ Error(n, k)
    PROVE  IInv' /\ KeepsSealedSnapshots
  <1>1. UNCHANGED <<fence, platform, snap>>
    BY DEF BuildLexical, UpsertChunks, Error
  <1>2. call[<<n, k>>] \in Call /\ Page(n, k) \subseteq Items /\ Cardinality(Page(n, k)) \in Nat
    BY PageOfItems DEF IInv, TypeOK, Attempts
  <1>3. CASE BuildLexical(n, k)
    <2>1. /\ call[<<n, k>>].pc = "embedded" /\ lexical' = lexical \cup Page(n, k)
          /\ chunk' = chunk /\ MoveTo(n, k, "indexed") /\ "indexed" \in CallPC
      BY <1>3 DEF BuildLexical, At, CallPC
    <2>2. /\ call' \in [Builders \X Attempts -> Call] /\ call'[<<n, k>>].pc = "indexed"
          /\ call'[<<n, k>>].model = call[<<n, k>>].model /\ call'[<<n, k>>].by = call[<<n, k>>].by
          /\ \A m \in Builders, j \in Attempts : m # n \/ j # k => call'[<<m, j>>] = call[<<m, j>>]
      BY <2>1, MoveEffect DEF IInv
    <2>3. TypeOK'
      BY <1>1, <1>2, <2>1, <2>2 DEF IInv, TypeOK, Attempts
    <2>4. /\ snap[n].status # "none" /\ snap[n].model = call[<<n, k>>].model
          /\ call[<<n, k>>].by \in Models
      BY <2>1 DEF IInv, CallsFitTheirRow, HasRow, PagesAreEmbedded
    <2>5. IndexesGrow
      BY <2>1 DEF IndexesGrow
    <2>6. CallsFitTheirRow' /\ PagesAreEmbedded' /\ CountedIsCovered' /\ KeepsSealedSnapshots
      BY <1>1, <2>2, <2>4, <2>5, RowsUntouched
    <2>7. QED
      BY <2>3, <2>6 DEF IInv
  <1>4. CASE UpsertChunks(n, k)
    <2>1. PICK by : by = call[<<n, k>>].by
      OBVIOUS
    <2>2. PICK done : done = call[<<n, k>>].processed + Cardinality(Page(n, k))
      OBVIOUS
    <2>3. PICK new : new = [call[<<n, k>>] EXCEPT !.pc = "indexing", !.by = None, !.processed = done]
      OBVIOUS
    <2>4. new \in Call /\ new.pc = "indexing" /\ new.model = call[<<n, k>>].model
      <3>1. done \in Nat
        BY <1>2, <2>2 DEF Call
      <3>2. QED
        BY <1>2, <2>3, <3>1 DEF Call, CallPC
    <2>5. /\ call[<<n, k>>].pc = "indexed" /\ lexical' = lexical
          /\ chunk' = [i \in Items |-> IF i \in Page(n, k) THEN by ELSE chunk[i]]
          /\ call' = [call EXCEPT ![<<n, k>>] = new]
      BY <1>4, <2>1, <2>2, <2>3 DEF UpsertChunks, At
    <2>6. /\ snap[n].status # "none" /\ snap[n].model = call[<<n, k>>].model
          /\ by \in Models /\ by # None
      BY <2>1, <2>5 DEF IInv, CallsFitTheirRow, HasRow, PagesAreEmbedded, RetrievalAssumption
    <2>7. /\ call' \in [Builders \X Attempts -> Call] /\ call'[<<n, k>>] = new
          /\ \A m \in Builders, j \in Attempts : m # n \/ j # k => call'[<<m, j>>] = call[<<m, j>>]
      BY <2>4, <2>5, CallEffect DEF IInv
    <2>8. TypeOK'
      BY <1>1, <2>5, <2>6, <2>7 DEF IInv, TypeOK, Attempts
    <2>9. IndexesGrow
      BY <2>5, <2>6 DEF IndexesGrow
    <2>10. CallsFitTheirRow' /\ PagesAreEmbedded' /\ CountedIsCovered' /\ KeepsSealedSnapshots
      BY <1>1, <2>4, <2>6, <2>7, <2>9, RowsUntouched
    <2>11. QED
      BY <2>8, <2>10 DEF IInv
  <1>5. CASE Error(n, k)
    <2>1. PICK part \in SUBSET Items : lexical' = lexical \cup part
      BY <1>2, <1>5 DEF Error
    <2>2. chunk' = chunk /\ MoveTo(n, k, "failing") /\ "failing" \in CallPC
      BY <1>5 DEF Error, CallPC
    <2>3. /\ call' \in [Builders \X Attempts -> Call] /\ call'[<<n, k>>].pc = "failing"
          /\ \A m \in Builders, j \in Attempts : m # n \/ j # k => call'[<<m, j>>] = call[<<m, j>>]
      BY <2>2, MoveEffect DEF IInv
    <2>4. TypeOK'
      BY <1>1, <2>1, <2>2, <2>3 DEF IInv, TypeOK, Attempts
    <2>5. IndexesGrow
      BY <2>1, <2>2 DEF IndexesGrow
    <2>6. CallsFitTheirRow' /\ PagesAreEmbedded' /\ CountedIsCovered' /\ KeepsSealedSnapshots
      BY <1>1, <2>3, <2>5, RowsUntouched DEF HasRow
    <2>7. QED
      BY <2>4, <2>6 DEF IInv
  <1>6. QED
    BY <1>3, <1>4, <1>5

\* Steps that write the row of the snapshot.
LEMMA RowStep ==
    ASSUME RetrievalAssumption, IInv, NEW n \in Builders, NEW k \in Attempts,
           GetOrCreate(n, k) \/ Validate(n, k) \/ Activate(n, k) \/ RecordFailure(n, k)
    PROVE  IInv' /\ KeepsSealedSnapshots
  <1>1. UNCHANGED <<fence, platform, lexical, chunk>> /\ IndexesGrow
    BY DEF GetOrCreate, Validate, Activate, RecordFailure, IndexesGrow
  <1>2. snap \in [Builders -> Snapshot] /\ snap[n] \in Snapshot /\ call[<<n, k>>] \in Call
    BY DEF IInv, TypeOK, Attempts
  <1>3. CASE GetOrCreate(n, k)
    <2>1. PICK pc \in {"opened", "answered"} :
            /\ MoveTo(n, k, pc)
            /\ pc = "opened" => /\ snap[n].status # "active"
                                /\ snap' = [snap EXCEPT ![n] =
                                     [attempt |-> k, model |-> call[<<n, k>>].model, status |-> "building"]]
            /\ pc = "answered" => snap[n].status = "active" /\ snap' = snap
      BY <1>3 DEF GetOrCreate
    <2>2. snap[n].status # "none" => snap[n].model = call[<<n, k>>].model
      BY <1>3 DEF GetOrCreate
    <2>3. /\ call' \in [Builders \X Attempts -> Call] /\ call'[<<n, k>>].pc = pc
          /\ call'[<<n, k>>].model = call[<<n, k>>].model
          /\ \A m \in Builders, j \in Attempts : m # n \/ j # k => call'[<<m, j>>] = call[<<m, j>>]
      <3>1. TypeOK /\ pc \in CallPC /\ MoveTo(n, k, pc)
        BY <2>1 DEF IInv, CallPC
      <3>2. QED
        BY <3>1, MoveEffect
    <2>4. CASE pc = "answered"
      <3>1. TypeOK'
        BY <1>1, <2>1, <2>3, <2>4 DEF IInv, TypeOK, Attempts
      <3>2. CallsFitTheirRow' /\ PagesAreEmbedded' /\ CountedIsCovered' /\ KeepsSealedSnapshots
        BY <1>1, <2>1, <2>2, <2>3, <2>4, RowsUntouched
      <3>3. QED
        BY <3>1, <3>2 DEF IInv
    <2>5. CASE pc = "opened"
      <3>1. PICK new : new = [attempt |-> k, model |-> call[<<n, k>>].model, status |-> "building"]
        OBVIOUS
      <3>2. /\ new \in Snapshot /\ new.status = "building" /\ new.model = call[<<n, k>>].model
        <4>1. k \in 0..MaxAttempt
          BY DEF Attempts, RetrievalAssumption
        <4>2. QED
          BY <1>2, <3>1, <4>1 DEF Snapshot, Call
      <3>3. snap' = [snap EXCEPT ![n] = new] /\ snap[n].status # "active"
        BY <2>1, <2>5, <3>1
      <3>4. TypeOK'
        BY <1>1, <2>3, <3>2, <3>3 DEF IInv, TypeOK, Attempts
      <3>5. CallsFitTheirRow' /\ PagesAreEmbedded' /\ CountedIsCovered' /\ KeepsSealedSnapshots
        BY <1>1, <2>2, <2>3, <2>5, <3>2, <3>3, RowReplaced
      <3>6. QED
        BY <3>4, <3>5 DEF IInv
    <2>6. QED
      BY <2>1, <2>4, <2>5
  <1>4. CASE RecordFailure(n, k) /\ ~ StatusWritable(n, k)
    <2>1. snap' = snap /\ MoveTo(n, k, "stopped") /\ "stopped" \in CallPC
      BY <1>4 DEF RecordFailure, CallPC
    <2>2. /\ call' \in [Builders \X Attempts -> Call] /\ call'[<<n, k>>].pc = "stopped"
          /\ \A m \in Builders, j \in Attempts : m # n \/ j # k => call'[<<m, j>>] = call[<<m, j>>]
      BY <2>1, MoveEffect DEF IInv
    <2>3. TypeOK'
      BY <1>1, <2>1, <2>2 DEF IInv, TypeOK, Attempts
    <2>4. CallsFitTheirRow' /\ PagesAreEmbedded' /\ CountedIsCovered' /\ KeepsSealedSnapshots
      BY <1>1, <2>1, <2>2, RowsUntouched DEF HasRow
    <2>5. QED
      BY <2>3, <2>4 DEF IInv
  <1>5. ASSUME NEW status \in {"validating", "active", "failed"},
               NEW pc \in {"validating", "activated", "stopped"},
               snap' = [snap EXCEPT ![n].status = status], MoveTo(n, k, pc),
               snap[n].status = "active" => status = "active",
               status = "active" => Covered(Boundary[n]),
               pc # "stopped" => call[<<n, k>>].pc \in HasRow,
               pc = "activated" => status = "active"
        PROVE  IInv' /\ KeepsSealedSnapshots
    <2>1. PICK new : new = [snap[n] EXCEPT !.status = status]
      OBVIOUS
    <2>2. /\ new \in Snapshot /\ new.status = status /\ new.model = snap[n].model
          /\ snap[n].status = "active" => new = snap[n]
      BY <1>2, <1>5, <2>1 DEF Snapshot
    <2>3. snap' = [snap EXCEPT ![n] = new]
      BY <1>5, <2>1
    <2>4. /\ call' \in [Builders \X Attempts -> Call] /\ call'[<<n, k>>].pc = pc
          /\ call'[<<n, k>>].model = call[<<n, k>>].model
          /\ \A m \in Builders, j \in Attempts : m # n \/ j # k => call'[<<m, j>>] = call[<<m, j>>]
      <3>1. TypeOK /\ pc \in CallPC /\ MoveTo(n, k, pc)
        BY <1>5 DEF IInv, CallPC
      <3>2. QED
        BY <3>1, MoveEffect
    <2>5. TypeOK'
      BY <1>1, <2>2, <2>3, <2>4 DEF IInv, TypeOK, Attempts
    <2>6. pc # "stopped" => snap[n].status # "none" /\ snap[n].model = call[<<n, k>>].model
      BY <1>5 DEF IInv, CallsFitTheirRow
    <2>7. pc = "stopped" => pc \notin HasRow
      BY DEF HasRow
    <2>8. CallsFitTheirRow' /\ PagesAreEmbedded' /\ CountedIsCovered' /\ KeepsSealedSnapshots
      <3>1. /\ status # "none" /\ (new.status = "active" => Covered(Boundary[n]))
            /\ call'[<<n, k>>].pc \notin {"embedded", "indexed", "counted", "answered"}
            /\ call'[<<n, k>>].pc = "activated" => new.status = "active"
        BY <1>5, <2>2, <2>4
      <3>2. call'[<<n, k>>].pc \in HasRow =>
              new.status # "none" /\ new.model = call'[<<n, k>>].model
        BY <2>2, <2>4, <2>6, <2>7, <3>1
      <3>3. \A m \in Builders, j \in Attempts :
              m # n \/ j # k => call'[<<m, j>>] = call[<<m, j>>]
        BY <2>4
      <3>4. QED
        BY <1>1, <2>2, <2>3, <3>1, <3>2, <3>3, RowReplaced
    <2>9. QED
      BY <2>5, <2>8 DEF IInv
  <1>6. CASE Validate(n, k)
    <2>1. /\ snap' = [snap EXCEPT ![n].status = "validating"] /\ MoveTo(n, k, "validating")
          /\ snap[n].status # "active" /\ call[<<n, k>>].pc \in HasRow
      BY <1>6 DEF Validate, StatusWritable, At, HasRow
    <2>2. QED
      BY <1>5, <2>1
  <1>7. CASE Activate(n, k)
    <2>1. /\ snap' = [snap EXCEPT ![n].status = "active"] /\ MoveTo(n, k, "activated")
          /\ call[<<n, k>>].pc = "counted" /\ call[<<n, k>>].pc \in HasRow
      BY <1>7 DEF Activate, At, HasRow
    <2>2. Covered(Boundary[n])
      BY <2>1 DEF IInv, CountedIsCovered
    <2>3. QED
      BY <1>5, <2>1, <2>2
  <1>8. CASE RecordFailure(n, k) /\ StatusWritable(n, k)
    <2>1. /\ snap' = [snap EXCEPT ![n].status = "failed"] /\ MoveTo(n, k, "stopped")
          /\ snap[n].status # "active"
      BY <1>8 DEF RecordFailure, StatusWritable
    <2>2. QED
      BY <1>5, <2>1
  <1>9. QED
    BY <1>3, <1>4, <1>6, <1>7, <1>8

-----------------------------------------------------------------------------
(* The theorems.                                                           *)

\* The invariant holds at first.
LEMMA InitInvariant ==
    ASSUME RetrievalAssumption, Init
    PROVE  IInv
  <1>1. TypeOK
    BY DEF RetrievalAssumption, Init, Nodes!Init, Nodes!Fence, TypeOK, Snapshot, Call, CallPC
  <1>2. CallsFitTheirRow /\ PagesAreEmbedded /\ CountedIsCovered
    BY DEF Init, CallsFitTheirRow, PagesAreEmbedded, CountedIsCovered, HasRow, Attempts
  <1>3. QED
    BY <1>1, <1>2 DEF IInv

\* Every step keeps the invariant and the snapshots that are sealed.
LEMMA InvariantStep ==
    ASSUME RetrievalAssumption, IInv, [Next]_vars
    PROVE  IInv' /\ KeepsSealedSnapshots
  <1>1. CASE Reconfigure \/ UNCHANGED vars
    <2>1. /\ fence' \in [Builders -> Nodes!Fence] /\ platform' \in Models
          /\ UNCHANGED <<lexical, chunk, snap, call>>
      BY <1>1 DEF Reconfigure, vars, IInv, TypeOK
    <2>2. QED
      BY <2>1, OutsideStep
  <1>2. ASSUME NEW n \in Builders, Claim(n)
        PROVE  IInv' /\ KeepsSealedSnapshots
    BY <1>2, ClaimStep
  <1>3. ASSUME NEW n \in Builders, Lose(n) \/ \E k \in Attempts : Settle(n, k)
        PROVE  IInv' /\ KeepsSealedSnapshots
    <2>1. /\ Nodes!Lose(n) \/ Nodes!Settle(n)
          /\ UNCHANGED <<platform, lexical, chunk, snap, call>>
      BY <1>3 DEF Lose, Settle
    <2>2. fence' \in [Builders -> Nodes!Fence] /\ platform' \in Models
      BY <2>1, FenceEffect DEF IInv, TypeOK
    <2>3. QED
      BY <2>1, <2>2, OutsideStep
  <1>4. ASSUME NEW n \in Builders, NEW k \in Attempts,
               \/ Resolve(n, k) \/ GetOrCreate(n, k) \/ Start(n, k)
               \/ Embed(n, k) \/ BuildLexical(n, k) \/ UpsertChunks(n, k)
               \/ Validate(n, k) \/ Count(n, k) \/ Activate(n, k) \/ Answer(n, k)
               \/ Error(n, k) \/ RecordFailure(n, k)
        PROVE  IInv' /\ KeepsSealedSnapshots
    BY <1>4, ReadingStep, IndexStep, RowStep
  <1>5. QED
    BY <1>1, <1>2, <1>3, <1>4 DEF Next, Attempts

\* Every interleaving of attempts, stale ones included, keeps the invariant.
THEOREM SnapshotInvariant ==
    ASSUME RetrievalAssumption
    PROVE  Spec => []IInv
  <1>1. Init => IInv
    BY InitInvariant
  <1>2. IInv /\ [Next]_vars => IInv'
    BY InvariantStep
  <1>3. QED
    BY <1>1, <1>2, PTL DEF Spec

\* Every variable keeps a value of its type.
THEOREM SnapshotTypeCorrect ==
    ASSUME RetrievalAssumption
    PROVE  Spec => []TypeOK
  <1>1. IInv => TypeOK
    BY DEF IInv
  <1>2. QED
    BY <1>1, SnapshotInvariant, PTL

\* A call that has its answer has counted an active row of its own model.
LEMMA AnsweredMeansActive ==
    ASSUME IInv
    PROVE  AnsweredIsActive
  BY DEF IInv, CallsFitTheirRow, CountedIsCovered, AnsweredIsActive, HasRow, At, Attempts

\* A node run that is told to be complete has an active snapshot of the model
\* it was begun with.
THEOREM AnsweredSnapshots ==
    ASSUME RetrievalAssumption
    PROVE  Spec => []AnsweredIsActive
  <1>1. IInv => AnsweredIsActive
    BY AnsweredMeansActive
  <1>2. QED
    BY <1>1, SnapshotInvariant, PTL

\* An active snapshot keeps its row, and every item up to its position is and
\* stays in both indexes.
THEOREM SealedStaySealed ==
    ASSUME RetrievalAssumption
    PROVE  Spec => SealedSnapshotsStaySealed
  <1>1. IInv /\ [Next]_vars => KeepsSealedSnapshots
    BY InvariantStep
  <1>2. QED
    BY <1>1, SnapshotInvariant, PTL DEF Spec, SealedSnapshotsStaySealed

=============================================================================
