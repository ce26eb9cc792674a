----------------------- MODULE DocumentExtractionProofs -----------------------
(***************************************************************************)
(* Proofs about DocumentExtraction for every finite set of files and any   *)
(* number of node runs that parse and extract them: when a node run has    *)
(* succeeded its set accounts for every file, each readable document has   *)
(* one unit although documents may be parsed again between two attempts,   *)
(* and no late transaction reaches what is bound.                          *)
(***************************************************************************)
EXTENDS DocumentExtraction, WellFoundedInduction, FiniteSetTheorems, TLAPS

Attempts == 1..MaxAttempt

-----------------------------------------------------------------------------
(* The inductive invariant.                                                *)

DocumentsAreParsed ==
    \A a \in Assets : doc[a].status = "succeeded" => doc[a].parse \in 1..MaxParses

\* An item succeeds for a document that can be read; a finalisation that has
\* checked its lease keeps the set to itself although the lease may end.
ParserOK(n) ==
    /\ \A a \in Assets : pset[n].item[a] = "succeeded" => doc[a].status = "succeeded"
    /\ \A k \in Attempts :
         /\ call[<<n, k>>].pc \in {"reading", "recording"} => call[<<n, k>>].todo # {}
         /\ call[<<n, k>>].pc = "recording" /\ call[<<n, k>>].outcome = "succeeded" =>
              doc[Current(n, k)].status = "succeeded"
         /\ call[<<n, k>>].pc = "locked" => pset[n].attempt = k /\ NothingPending(pset[n])
         /\ call[<<n, k>>].pc = "answered" /\ Nodes!Live(n, k) =>
              pset[n].attempt = k /\ NothingPending(pset[n])
    /\ fence[n].phase = "final" =>
         NothingPending(pset[n]) /\ \A k \in Attempts : call[<<n, k>>].pc # "locked"

\* The files of the set that an extractor is bound to, and units for them.
Readable(n) == {a \in Assets : pset[DocumentsOf[n]].item[a] = "succeeded"}

Covers(n, units) ==
    /\ \A u \in units : u[1] \in Readable(n)
    /\ \A a \in Readable(n) : \E u \in units : u[1] = a

\* An extractor only runs when its documents are bound.
SourceIsFinal(n) ==
    /\ fence[n].attempt > 0 => fence[DocumentsOf[n]].phase = "final"
    /\ \A k \in Attempts : call[<<n, k>>].pc # "none" => fence[n].attempt > 0
    /\ dset[n].attempt > 0 => fence[n].attempt > 0

\* Every plan has a unit for each readable document, and no other units.
PlansFit(n) ==
    \A k \in Attempts :
        /\ call[<<n, k>>].pc = "planned" =>
             /\ Covers(n, call[<<n, k>>].plan)
             /\ Cardinality(call[<<n, k>>].plan) = Cardinality(Readable(n))
        /\ call[<<n, k>>].pc \in {"looping", "extracting"} =>
             \A u \in call[<<n, k>>].plan : u[1] \in Readable(n)
        /\ call[<<n, k>>].pc = "extracting" => call[<<n, k>>].plan # {}

\* The set was planned for as many documents, and has a unit for each.
SetFits(n) ==
    /\ dset[n].attempt = 0 => Existing(dset[n]) = {}
    /\ dset[n].attempt > 0 =>
         Covers(n, Existing(dset[n])) /\ dset[n].count = Cardinality(Readable(n))
    /\ \A u \in Units : u \in dset[n].drafts <=> dset[n].unit[u] = "succeeded"

\* The live call works on units that have not succeeded, and ends the set.
LiveCallFits(n) ==
    /\ \A k \in Attempts : Nodes!Live(n, k) =>
         /\ call[<<n, k>>].pc \in {"looping", "extracting"} =>
              \A u \in call[<<n, k>>].plan : dset[n].unit[u] # "succeeded"
         /\ call[<<n, k>>].pc \in {"looping", "extracting", "answered"} => dset[n].attempt > 0
         /\ call[<<n, k>>].pc = "answered" => WholePlan(dset[n])
    /\ fence[n].phase = "final" => dset[n].attempt > 0 /\ WholePlan(dset[n])

ExtractorOK(n) == SourceIsFinal(n) /\ PlansFit(n) /\ SetFits(n) /\ LiveCallFits(n)

IInv ==
    /\ TypeOK
    /\ DocumentsAreParsed
    /\ \A n \in Parsers : ParserOK(n)
    /\ \A n \in Extractors : ExtractorOK(n)

-----------------------------------------------------------------------------
(* The first of the files and of the units.                                *)

\* A set of numbers that is not empty has a least one.
LEMMA LeastNumber ==
    ASSUME NEW S \in SUBSET Nat, S # {}
    PROVE  \E p \in S : \A q \in S : p <= q
  <1> DEFINE R == OpToRel(<, Nat)
  <1>1. IsWellFoundedOn(R, Nat)
    BY NatLessThanWellFounded
  <1>2. \A x, y \in Nat : <<y, x>> \in R <=> y < x
    BY DEF OpToRel
  <1> HIDE DEF R
  <1>3. PICK p \in S : \A q \in S : ~ (<<q, p>> \in R)
    BY <1>1, WFMin
  <1>4. ASSUME NEW q \in S
        PROVE  p <= q
    <2>1. p \in Nat /\ q \in Nat /\ ~ (q < p)
      BY <1>2, <1>3
    <2>2. QED
      BY <2>1
  <1>5. QED
    BY <1>4

\* The file that a call works on is one of those that it has to do.
LEMMA CurrentIsToDo ==
    ASSUME ExtractionAssumption, TypeOK, NEW n \in Producers, NEW k \in Attempts,
           call[<<n, k>>].todo # {}
    PROVE  Current(n, k) \in call[<<n, k>>].todo /\ Current(n, k) \in Assets
  <1>1. PICK todo : todo = call[<<n, k>>].todo
    OBVIOUS
  <1>2. todo \in SUBSET Assets /\ todo \in SUBSET Nat /\ todo # {}
    BY <1>1 DEF TypeOK, Call, Attempts, ExtractionAssumption
  <1>3. \E a \in todo : \A b \in todo : a <= b
    BY <1>2, LeastNumber
  <1>4. Current(n, k) = CHOOSE a \in todo : \A b \in todo : a <= b
    BY <1>1 DEF Current
  <1>5. Current(n, k) \in todo
    BY <1>3, <1>4, Zenon
  <1>6. QED
    BY <1>1, <1>2, <1>5

\* A unit is a file and a parse of it, and there are finitely many.
LEMMA UnitsOfFiles ==
    ASSUME ExtractionAssumption
    PROVE  /\ IsFiniteSet(Units)
           /\ \A u \in Units : u[1] \in Assets /\ u[1] \in Nat
  <1>1. IsFiniteSet(Assets) /\ IsFiniteSet(1..MaxParses) /\ Assets \subseteq Nat
    BY FS_Interval DEF ExtractionAssumption
  <1>2. \A u \in Units : u[1] \in Assets
    BY DEF Units
  <1>3. QED
    BY <1>1, <1>2, FS_Product DEF Units

\* The unit that a call works on is one of its plan.
LEMMA CurrentIsPlanned ==
    ASSUME ExtractionAssumption, TypeOK, NEW n \in Producers, NEW k \in Attempts,
           call[<<n, k>>].plan # {}
    PROVE  CurrentUnit(n, k) \in call[<<n, k>>].plan /\ CurrentUnit(n, k) \in Units
  <1>1. PICK plan : plan = call[<<n, k>>].plan
    OBVIOUS
  <1>2. plan \in SUBSET Units /\ plan # {} /\ \A u \in plan : u[1] \in Nat
    <2>1. plan \in SUBSET Units /\ plan # {}
      BY <1>1 DEF TypeOK, Call, Attempts
    <2>2. QED
      BY <2>1, UnitsOfFiles
  <1> DEFINE firsts == {u[1] : u \in plan}
  <1>3. firsts \in SUBSET Nat /\ firsts # {}
    BY <1>2
  <1>4. PICK p \in firsts : \A q \in firsts : p <= q
    BY <1>3, LeastNumber
  <1>5. PICK u \in plan : p = u[1]
    BY <1>4
  <1>6. \A v \in plan : v[1] \in firsts
    OBVIOUS
  <1>7. \E w \in plan : \A v \in plan : w[1] <= v[1]
    BY <1>4, <1>5, <1>6
  <1>8. CurrentUnit(n, k) = CHOOSE w \in plan : \A v \in plan : w[1] <= v[1]
    BY <1>1 DEF CurrentUnit
  <1> HIDE DEF firsts
  <1>9. CurrentUnit(n, k) \in plan
    BY <1>7, <1>8, Zenon
  <1>10. QED
    BY <1>1, <1>2, <1>9

\* A call that goes on with what it has to do works on the same file.
LEMMA CurrentStays ==
    ASSUME NEW n \in Producers, NEW k \in Attempts,
           call'[<<n, k>>].todo = call[<<n, k>>].todo
    PROVE  Current(n, k)' = Current(n, k)
  BY DEF Current

-----------------------------------------------------------------------------
(* What the steps of one node run leave alone.                             *)

\* A document that can be read is never lost again.
DocumentsStay == \A a \in Assets : doc[a].status = "succeeded" => doc'[a].status = "succeeded"

\* A step that is not about a parser leaves what is known of it.
LEMMA ParserUntouched ==
    ASSUME NEW n \in Parsers, ParserOK(n), pset'[n] = pset[n], fence'[n] = fence[n],
           \A k \in Attempts : call'[<<n, k>>] = call[<<n, k>>], DocumentsStay,
           ExtractionAssumption, TypeOK
    PROVE  ParserOK(n)'
  <1>1. \A k \in Attempts : Current(n, k)' = Current(n, k)
    BY CurrentStays DEF Producers
  <1>2. \A k \in Attempts : Nodes!Live(n, k)' <=> Nodes!Live(n, k)
    BY DEF Nodes!Live
  <1>3. ASSUME NEW k \in Attempts,
               call'[<<n, k>>].pc = "recording", call'[<<n, k>>].outcome = "succeeded"
        PROVE  doc'[Current(n, k)'].status = "succeeded"
    <2>1. /\ doc[Current(n, k)].status = "succeeded" /\ call[<<n, k>>].todo # {}
      BY <1>3 DEF ParserOK
    <2>2. Current(n, k) \in Assets
      BY <2>1, CurrentIsToDo DEF Producers
    <2>3. QED
      BY <1>1, <2>1, <2>2 DEF DocumentsStay
  <1>4. NothingPending(pset[n])' <=> NothingPending(pset[n])
    BY DEF NothingPending
  <1>5. QED
    BY <1>1, <1>2, <1>3, <1>4 DEF ParserOK, DocumentsStay

\* A step that is not about an extractor, nor about its input once bound,
\* leaves what is known of it.
LEMMA ExtractorUntouched ==
    ASSUME NEW n \in Extractors, ExtractorOK(n), dset'[n] = dset[n], fence'[n] = fence[n],
           \A k \in Attempts : call'[<<n, k>>] = call[<<n, k>>],
           fence[DocumentsOf[n]].phase = "final" =>
               fence'[DocumentsOf[n]].phase = "final" /\ pset'[DocumentsOf[n]] = pset[DocumentsOf[n]],
           ExtractionAssumption, TypeOK
    PROVE  ExtractorOK(n)'
  <1>1. SourceIsFinal(n)'
    BY DEF ExtractorOK, SourceIsFinal
  <1>2. LiveCallFits(n)'
    BY DEF ExtractorOK, LiveCallFits, Nodes!Live, WholePlan, Existing
  <1>3. CASE fence[DocumentsOf[n]].phase = "final"
    <2>1. Readable(n)' = Readable(n)
      BY <1>3 DEF Readable
    <2>2. PlansFit(n)' /\ SetFits(n)'
      BY <2>1 DEF ExtractorOK, PlansFit, SetFits, Covers, Existing
    <2>3. QED
      BY <1>1, <1>2, <2>2 DEF ExtractorOK
  <1>4. CASE fence[DocumentsOf[n]].phase # "final"
    <2>1. /\ ~ (dset[n].attempt > 0)
          /\ \A k \in Attempts : call[<<n, k>>].pc = "none"
      BY <1>4 DEF ExtractorOK, SourceIsFinal
    <2>2. PlansFit(n)'
      BY <2>1 DEF PlansFit
    <2>3. SetFits(n)'
      BY <2>1 DEF ExtractorOK, SetFits, Existing
    <2>4. QED
      BY <1>1, <1>2, <2>2, <2>3 DEF ExtractorOK
  <1>5. QED
    BY <1>3, <1>4

\* A step of a parser, and what is left to show of it.
LEMMA ParserFrame ==
    ASSUME ExtractionAssumption, IInv, NEW n \in Parsers, NEW k \in Attempts,
           UNCHANGED <<fence, dset>>, TypeOK', DocumentsAreParsed', DocumentsStay,
           \A m \in Parsers : m # n => pset'[m] = pset[m],
           \A m \in Producers, j \in Attempts : m # n \/ j # k => call'[<<m, j>>] = call[<<m, j>>],
           fence[n].phase = "final" => pset'[n] = pset[n],
           ParserOK(n)'
    PROVE  IInv' /\ KeepsBoundSets
  <1>1. \A m \in Parsers : fence[m].phase = "final" => pset'[m] = pset[m]
    OBVIOUS
  <1>2. ASSUME NEW m \in Parsers, m # n
        PROVE  ParserOK(m)'
    BY <1>2, ParserUntouched DEF IInv, Producers
  <1>3. ASSUME NEW m \in Extractors
        PROVE  ExtractorOK(m)'
    <2>1. m \in Producers /\ m # n /\ DocumentsOf[m] \in Parsers
      BY DEF Producers, ExtractionAssumption
    <2>2. QED
      BY <1>1, <2>1, ExtractorUntouched DEF IInv
  <1>4. IInv'
    BY <1>2, <1>3 DEF IInv
  <1>5. QED
    BY <1>1, <1>4 DEF KeepsBoundSets

\* A step of an extractor, and what is left to show of it.
LEMMA ExtractorFrame ==
    ASSUME ExtractionAssumption, IInv, NEW n \in Extractors, NEW k \in Attempts,
           UNCHANGED <<fence, doc, pset>>, TypeOK',
           \A m \in Extractors : m # n => dset'[m] = dset[m],
           \A m \in Producers, j \in Attempts : m # n \/ j # k => call'[<<m, j>>] = call[<<m, j>>],
           fence[n].phase = "final" => dset'[n] = dset[n],
           ExtractorOK(n)'
    PROVE  IInv' /\ KeepsBoundSets
  <1>1. ASSUME NEW m \in Parsers
        PROVE  ParserOK(m)'
    <2>1. m \in Producers /\ m # n /\ DocumentsStay
      BY DEF Producers, ExtractionAssumption, DocumentsStay
    <2>2. QED
      BY <2>1, ParserUntouched DEF IInv
  <1>2. ASSUME NEW m \in Extractors, m # n
        PROVE  ExtractorOK(m)'
    BY <1>2, ExtractorUntouched DEF IInv, Producers
  <1>3. DocumentsAreParsed'
    BY DEF IInv, DocumentsAreParsed
  <1>4. IInv'
    BY <1>1, <1>2, <1>3 DEF IInv
  <1>5. QED
    BY <1>4 DEF KeepsBoundSets

-----------------------------------------------------------------------------
(* What the steps do to a call.                                            *)

\* One call is replaced.
LEMMA CallEffect ==
    ASSUME TypeOK, NEW n \in Producers, NEW k \in Attempts, NEW new \in Call,
           call' = [call EXCEPT ![<<n, k>>] = new]
    PROVE  /\ call' \in [Producers \X Attempts -> Call]
           /\ call'[<<n, k>>] = new
           /\ \A m \in Producers, j \in Attempts : m # n \/ j # k => call'[<<m, j>>] = call[<<m, j>>]
  <1>1. call \in [Producers \X Attempts -> Call]
    BY DEF TypeOK, Attempts
  <1>2. \A m \in Producers, j \in Attempts : m # n \/ j # k => <<m, j>> # <<n, k>>
    OBVIOUS
  <1>3. QED
    BY <1>1, <1>2

\* A call goes on with what it has to do.
LEMMA MoveEffect ==
    ASSUME TypeOK, NEW n \in Producers, NEW k \in Attempts, NEW pc \in CallPC,
           MoveTo(n, k, pc)
    PROVE  /\ call' \in [Producers \X Attempts -> Call]
           /\ call'[<<n, k>>].pc = pc
           /\ call'[<<n, k>>].todo = call[<<n, k>>].todo
           /\ call'[<<n, k>>].plan = call[<<n, k>>].plan
           /\ \A m \in Producers, j \in Attempts : m # n \/ j # k => call'[<<m, j>>] = call[<<m, j>>]
  <1>1. PICK new : new = [call[<<n, k>>] EXCEPT !.pc = pc]
    OBVIOUS
  <1>2. call[<<n, k>>] \in Call
    BY DEF TypeOK, Attempts
  <1>3. /\ new \in Call /\ new.pc = pc /\ new.todo = call[<<n, k>>].todo
        /\ new.plan = call[<<n, k>>].plan
    BY <1>1, <1>2 DEF Call
  <1>4. call' = [call EXCEPT ![<<n, k>>] = new]
    BY <1>1 DEF MoveTo
  <1>5. /\ call' \in [Producers \X Attempts -> Call] /\ call'[<<n, k>>] = new
        /\ \A m \in Producers, j \in Attempts : m # n \/ j # k => call'[<<m, j>>] = call[<<m, j>>]
    BY <1>3, <1>4, CallEffect
  <1>6. QED
    BY <1>3, <1>5

\* One attempt is live at a time.
LEMMA OneLiveCall ==
    ASSUME NEW n \in Producers, NEW k \in Attempts, NEW j \in Attempts,
           Nodes!Live(n, k), Nodes!Live(n, j)
    PROVE  j = k
  BY DEF Nodes!Live

-----------------------------------------------------------------------------
(* source.parse.                                                           *)

\* An attempt takes the set over and keeps the items that succeeded.
LEMMA BeginParsedStep ==
    ASSUME ExtractionAssumption, IInv, NEW n \in Parsers, NEW k \in Attempts, BeginParsedSet(n, k)
    PROVE  IInv' /\ KeepsBoundSets
  <1> DEFINE kept == {a \in Assets : pset[n].item[a] = "succeeded"}
  <1>1. /\ n \in Producers /\ pset[n] \in ParsedSet /\ call[<<n, k>>] \in Call
        /\ k \in 0..MaxAttempt /\ kept \subseteq Assets
    BY DEF IInv, TypeOK, Producers, Attempts, ExtractionAssumption
  <1>2. PICK set : set = [attempt |-> k,
                          status |-> IF pset[n].attempt < k THEN "running" ELSE pset[n].status,
                          item |-> IF pset[n].attempt < k
                                   THEN [a \in Assets |-> IF a \in kept THEN "succeeded" ELSE "pending"]
                                   ELSE pset[n].item]
    OBVIOUS
  <1>3. /\ set \in ParsedSet /\ set.attempt = k
        /\ \A a \in Assets : set.item[a] = "succeeded" => pset[n].item[a] = "succeeded"
    BY <1>1, <1>2 DEF ParsedSet, SetStatus
  <1>4. PICK new : new = [call[<<n, k>>] EXCEPT !.pc = "looping", !.todo = Assets \ kept]
    OBVIOUS
  <1>5. new \in Call /\ new.pc = "looping"
    BY <1>1, <1>4 DEF Call, CallPC
  <1>6. /\ pset' = [pset EXCEPT ![n] = set] /\ call' = [call EXCEPT ![<<n, k>>] = new]
        /\ Nodes!Live(n, k) /\ call[<<n, k>>].pc = "begun"
        /\ \A j \in Attempts : call[<<n, j>>].pc # "locked"
        /\ UNCHANGED <<fence, doc, dset>>
    BY <1>2, <1>4 DEF BeginParsedSet, At, Locked, Attempts
  <1>7. /\ call' \in [Producers \X Attempts -> Call] /\ call'[<<n, k>>] = new
        /\ \A m \in Producers, j \in Attempts : m # n \/ j # k => call'[<<m, j>>] = call[<<m, j>>]
    BY <1>1, <1>5, <1>6, CallEffect DEF IInv
  <1>8. /\ pset'[n] = set /\ \A m \in Parsers : m # n => pset'[m] = pset[m]
        /\ pset' \in [Parsers -> ParsedSet]
    BY <1>3, <1>6 DEF IInv, TypeOK
  <1>9. TypeOK' /\ DocumentsAreParsed' /\ DocumentsStay
    BY <1>6, <1>7, <1>8 DEF IInv, TypeOK, Attempts, DocumentsAreParsed, DocumentsStay
  <1>10. fence[n].phase # "final" /\ \A j \in Attempts : Nodes!Live(n, j) => j = k
    BY <1>6 DEF Nodes!Live
  <1>11. ParserOK(n)'
    <2>1. \A a \in Assets : pset'[n].item[a] = "succeeded" => doc'[a].status = "succeeded"
      BY <1>3, <1>6, <1>8 DEF IInv, ParserOK
    <2>2. ASSUME NEW j \in Attempts, j # k
          PROVE  /\ call'[<<n, j>>].pc \in {"reading", "recording"} => call'[<<n, j>>].todo # {}
                 /\ call'[<<n, j>>].pc = "recording" /\ call'[<<n, j>>].outcome = "succeeded" =>
                      doc'[Current(n, j)'].status = "succeeded"
                 /\ call'[<<n, j>>].pc # "locked" /\ ~ Nodes!Live(n, j)'
      <3>1. call'[<<n, j>>] = call[<<n, j>>]
        BY <1>1, <1>7, <2>2
      <3>2. Current(n, j)' = Current(n, j)
        BY <1>1, <3>1, CurrentStays
      <3>3. QED
        BY <1>6, <1>10, <2>2, <3>1, <3>2 DEF IInv, ParserOK, Nodes!Live
    <2>3. QED
      BY <1>5, <1>6, <1>7, <1>10, <2>1, <2>2 DEF ParserOK
  <1>12. QED
    BY <1>6, <1>7, <1>8, <1>9, <1>10, <1>11, ParserFrame

\* What the other calls of a parser need when its set stays.
LEMMA OtherCallsOK ==
    ASSUME ExtractionAssumption, IInv, NEW n \in Parsers, NEW k \in Attempts, NEW j \in Attempts,
           j # k, UNCHANGED fence, DocumentsStay, call'[<<n, j>>] = call[<<n, j>>]
    PROVE  /\ call'[<<n, j>>].pc \in {"reading", "recording"} => call'[<<n, j>>].todo # {}
           /\ call'[<<n, j>>].pc = "recording" /\ call'[<<n, j>>].outcome = "succeeded" =>
                doc'[Current(n, j)'].status = "succeeded"
           /\ call'[<<n, j>>].pc = "locked" => pset[n].attempt = j /\ NothingPending(pset[n])
           /\ call'[<<n, j>>].pc = "answered" /\ Nodes!Live(n, j)' =>
                pset[n].attempt = j /\ NothingPending(pset[n])
  <1>1. Current(n, j)' = Current(n, j)
    BY CurrentStays DEF Producers
  <1>2. call[<<n, j>>].pc = "recording" /\ call[<<n, j>>].outcome = "succeeded" =>
          doc'[Current(n, j)].status = "succeeded"
    <2>1. call[<<n, j>>].pc = "recording" => Current(n, j) \in Assets
      BY CurrentIsToDo DEF IInv, ParserOK, Producers
    <2>2. QED
      BY <2>1 DEF IInv, ParserOK, DocumentsStay
  <1>3. QED
    BY <1>1, <1>2 DEF IInv, ParserOK, Nodes!Live

\* A step that leaves the set of the parser alone.
LEMMA ParserMoves ==
    ASSUME ExtractionAssumption, IInv, NEW n \in Parsers, NEW k \in Attempts,
           UNCHANGED <<fence, dset, pset>>, DocumentsAreParsed', DocumentsStay,
           doc' \in [Assets -> Document],
           call' \in [Producers \X Attempts -> Call],
           \A m \in Producers, j \in Attempts : m # n \/ j # k => call'[<<m, j>>] = call[<<m, j>>],
           call'[<<n, k>>].pc \in {"reading", "recording"} => call'[<<n, k>>].todo # {},
           call'[<<n, k>>].pc = "recording" /\ call'[<<n, k>>].outcome = "succeeded" =>
               doc'[Current(n, k)'].status = "succeeded",
           call'[<<n, k>>].pc = "locked" =>
               pset[n].attempt = k /\ NothingPending(pset[n]) /\ Nodes!Live(n, k),
           call'[<<n, k>>].pc # "answered"
    PROVE  IInv' /\ KeepsBoundSets
  <1>1. TypeOK'
    BY DEF IInv, TypeOK, Attempts
  <1>2. n \in Producers /\ fence' = fence /\ pset' = pset
    BY DEF Producers
  <1>3. ParserOK(n)'
    <2>1. \A a \in Assets : pset'[n].item[a] = "succeeded" => doc'[a].status = "succeeded"
      BY <1>2 DEF IInv, ParserOK, DocumentsStay
    <2>2. ASSUME NEW j \in Attempts, j # k
          PROVE  /\ call'[<<n, j>>] = call[<<n, j>>]
                 /\ call'[<<n, j>>].pc \in {"reading", "recording"} => call'[<<n, j>>].todo # {}
                 /\ call'[<<n, j>>].pc = "recording" /\ call'[<<n, j>>].outcome = "succeeded" =>
                      doc'[Current(n, j)'].status = "succeeded"
                 /\ call'[<<n, j>>].pc = "locked" => pset[n].attempt = j /\ NothingPending(pset[n])
                 /\ call'[<<n, j>>].pc = "answered" /\ Nodes!Live(n, j)' =>
                      pset[n].attempt = j /\ NothingPending(pset[n])
      <3>1. call'[<<n, j>>] = call[<<n, j>>]
        BY <1>2, <2>2
      <3>2. QED
        BY <1>2, <2>2, <3>1, OtherCallsOK
    <2>3. NothingPending(pset[n])' <=> NothingPending(pset[n])
      BY <1>2 DEF NothingPending
    <2>4. fence[n].phase = "final" =>
            NothingPending(pset[n]) /\ \A j \in Attempts : call'[<<n, j>>].pc # "locked"
      BY <2>2 DEF IInv, ParserOK, Nodes!Live
    <2>5. QED
      BY <1>2, <2>1, <2>2, <2>3, <2>4 DEF ParserOK
  <1>4. QED
    BY <1>1, <1>2, <1>3, ParserFrame

\* The cache is read.
LEMMA LookUpStep ==
    ASSUME ExtractionAssumption, IInv, NEW n \in Parsers, NEW k \in Attempts, LookUp(n, k)
    PROVE  IInv' /\ KeepsBoundSets
  <1>1. /\ n \in Producers /\ call[<<n, k>>] \in Call /\ call[<<n, k>>].todo # {}
        /\ UNCHANGED <<fence, doc, pset, dset>>
    BY DEF LookUp, IInv, TypeOK, Attempts, Producers
  <1>2. PICK cached \in BOOLEAN : cached = (doc[Current(n, k)].status = "succeeded")
    OBVIOUS
  <1>3. PICK new : new = [call[<<n, k>>] EXCEPT
                            !.pc = IF cached THEN "recording" ELSE "reading",
                            !.outcome = IF cached THEN "succeeded" ELSE "failed"]
    OBVIOUS
  <1>4. /\ new \in Call /\ new.todo = call[<<n, k>>].todo /\ new.pc \in {"recording", "reading"}
        /\ new.outcome = "succeeded" => cached
    BY <1>1, <1>3 DEF Call, CallPC
  <1>5. call' = [call EXCEPT ![<<n, k>>] = new]
    BY <1>2, <1>3 DEF LookUp
  <1>6. /\ call' \in [Producers \X Attempts -> Call] /\ call'[<<n, k>>] = new
        /\ \A m \in Producers, j \in Attempts : m # n \/ j # k => call'[<<m, j>>] = call[<<m, j>>]
    BY <1>1, <1>4, <1>5, CallEffect DEF IInv
  <1>7. Current(n, k)' = Current(n, k)
    BY <1>1, <1>4, <1>6, CurrentStays
  <1>8. DocumentsAreParsed' /\ DocumentsStay /\ doc' \in [Assets -> Document]
    BY <1>1 DEF IInv, DocumentsAreParsed, DocumentsStay, TypeOK
  <1>9. call'[<<n, k>>].pc = "recording" /\ call'[<<n, k>>].outcome = "succeeded" =>
          doc'[Current(n, k)'].status = "succeeded"
    BY <1>1, <1>2, <1>4, <1>6, <1>7
  <1>10. call'[<<n, k>>].todo # {} /\ call'[<<n, k>>].pc \notin {"locked", "answered"}
    BY <1>1, <1>4, <1>6
  <1>11. QED
    BY <1>1, <1>6, <1>8, <1>9, <1>10, ParserMoves

\* A file is parsed and saved, which no fence guards.
LEMMA ParseFileStep ==
    ASSUME ExtractionAssumption, IInv, NEW n \in Parsers, NEW k \in Attempts,
           NEW outcome \in {"succeeded", "failed"}, Parse(n, k, outcome)
    PROVE  IInv' /\ KeepsBoundSets
  <1>1. PICK a : a = Current(n, k)
    OBVIOUS
  <1>2. /\ call[<<n, k>>].pc = "reading"
        /\ outcome = "succeeded" => doc[a].parse < MaxParses
        /\ UNCHANGED <<fence, pset, dset>> /\ n \in Producers /\ call[<<n, k>>] \in Call
    BY <1>1 DEF Parse, At, IInv, TypeOK, Attempts, Producers
  <1>3. call[<<n, k>>].todo # {} /\ a \in Assets
    <2>1. call[<<n, k>>].todo # {}
      BY <1>2 DEF IInv, ParserOK
    <2>2. QED
      BY <1>1, <1>2, <2>1, CurrentIsToDo DEF IInv
  <1>4. PICK saved : saved = Saved(doc[a], outcome)
    OBVIOUS
  <1>5. /\ saved \in Document /\ saved.status \in {"succeeded", "failed"}
        /\ doc[a].status = "succeeded" => saved.status = "succeeded"
        /\ saved.status = "succeeded" => saved.parse \in 1..MaxParses
    <2>1. doc[a] \in Document /\ MaxParses \in Nat
          /\ (doc[a].status = "succeeded" => doc[a].parse \in 1..MaxParses)
      BY <1>3 DEF IInv, TypeOK, DocumentsAreParsed, ExtractionAssumption
    <2>2. CASE outcome = "succeeded"
      <3>1. saved = [status |-> "succeeded", parse |-> doc[a].parse + 1]
        BY <1>4, <2>2 DEF Saved
      <3>2. doc[a].parse + 1 \in 1..MaxParses
        BY <1>2, <2>1, <2>2 DEF Document
      <3>3. QED
        BY <3>1, <3>2 DEF Document
    <2>3. CASE outcome # "succeeded" /\ doc[a].status = "succeeded"
      BY <1>4, <2>1, <2>3 DEF Saved
    <2>4. CASE outcome # "succeeded" /\ doc[a].status # "succeeded"
      <3>1. saved = [doc[a] EXCEPT !.status = "failed"]
        BY <1>4, <2>4 DEF Saved
      <3>2. QED
        BY <2>1, <2>4, <3>1 DEF Document
    <2>5. QED
      BY <2>2, <2>3, <2>4
  <1>6. doc' = [doc EXCEPT ![a] = saved]
    BY <1>1, <1>4 DEF Parse
  <1>7. /\ doc' \in [Assets -> Document] /\ doc'[a] = saved
        /\ \A b \in Assets : b # a => doc'[b] = doc[b]
    BY <1>3, <1>5, <1>6 DEF IInv, TypeOK
  <1>8. PICK new : new = [call[<<n, k>>] EXCEPT !.pc = "recording", !.outcome = saved.status]
    OBVIOUS
  <1>9. /\ new \in Call /\ new.todo = call[<<n, k>>].todo /\ new.pc = "recording"
        /\ new.outcome = saved.status
    BY <1>2, <1>5, <1>8 DEF Call, CallPC
  <1>10. call' = [call EXCEPT ![<<n, k>>] = new]
    <2>1. call' = [call EXCEPT ![<<n, k>>].pc = "recording", ![<<n, k>>].outcome = saved.status]
      BY <1>1, <1>7 DEF Parse
    <2>2. QED
      BY <1>8, <2>1
  <1>11. /\ call' \in [Producers \X Attempts -> Call] /\ call'[<<n, k>>] = new
         /\ \A m \in Producers, j \in Attempts : m # n \/ j # k => call'[<<m, j>>] = call[<<m, j>>]
    BY <1>2, <1>9, <1>10, CallEffect DEF IInv
  <1>12. Current(n, k)' = a
    BY <1>1, <1>2, <1>9, <1>11, CurrentStays
  <1>13. DocumentsAreParsed' /\ DocumentsStay
    BY <1>3, <1>5, <1>7 DEF IInv, DocumentsAreParsed, DocumentsStay
  <1>14. /\ call'[<<n, k>>].pc = "recording" /\ call'[<<n, k>>].outcome = "succeeded" =>
              doc'[Current(n, k)'].status = "succeeded"
         /\ call'[<<n, k>>].todo # {} /\ call'[<<n, k>>].pc \notin {"locked", "answered"}
    BY <1>3, <1>7, <1>9, <1>11, <1>12
  <1>15. QED
    BY <1>2, <1>7, <1>11, <1>13, <1>14, ParserMoves

\* Finalisation locks the set and checks the lease, or is rolled back.
LEMMA LockStep ==
    ASSUME ExtractionAssumption, IInv, NEW n \in Parsers, NEW k \in Attempts,
           CheckLease(n, k) \/ RollBack(n, k)
    PROVE  IInv' /\ KeepsBoundSets
  <1>1. /\ UNCHANGED <<fence, doc, pset, dset>> /\ n \in Producers
        /\ DocumentsAreParsed' /\ DocumentsStay /\ doc' \in [Assets -> Document]
    BY DEF CheckLease, RollBack, Producers, IInv, TypeOK, DocumentsAreParsed, DocumentsStay
  <1>2. PICK pc \in {"locked", "none"} :
          /\ MoveTo(n, k, pc)
          /\ pc = "locked" => pset[n].attempt = k /\ NothingPending(pset[n]) /\ Nodes!Live(n, k)
    BY DEF CheckLease, RollBack, Recordable
  <1>3. pc \in CallPC
    BY DEF CallPC
  <1>4. /\ call' \in [Producers \X Attempts -> Call] /\ call'[<<n, k>>].pc = pc
        /\ \A m \in Producers, j \in Attempts : m # n \/ j # k => call'[<<m, j>>] = call[<<m, j>>]
    BY <1>1, <1>2, <1>3, MoveEffect DEF IInv
  <1>5. QED
    BY <1>1, <1>2, <1>4, ParserMoves

\* The outcome of a file is recorded in the set of the live attempt.
LEMMA RecordStep ==
    ASSUME ExtractionAssumption, IInv, NEW n \in Parsers, NEW k \in Attempts, RecordItem(n, k)
    PROVE  IInv' /\ KeepsBoundSets
  <1>1. PICK a : a = Current(n, k)
    OBVIOUS
  <1>2. /\ call[<<n, k>>].pc = "recording" /\ Nodes!Live(n, k) /\ pset[n].attempt = k
        /\ UNCHANGED <<fence, doc, dset>>
        /\ n \in Producers /\ call[<<n, k>>] \in Call /\ pset[n] \in ParsedSet
    BY DEF RecordItem, Recordable, At, IInv, TypeOK, Attempts, Producers
  <1>3. /\ a \in Assets
        /\ call[<<n, k>>].outcome = "succeeded" => doc[a].status = "succeeded"
    <2>1. call[<<n, k>>].todo # {}
      BY <1>2 DEF IInv, ParserOK
    <2>2. QED
      BY <1>1, <1>2, <2>1, CurrentIsToDo DEF IInv, ParserOK
  <1>4. PICK set : set = [pset[n] EXCEPT !.item[a] = call[<<n, k>>].outcome]
    OBVIOUS
  <1>5. /\ set \in ParsedSet /\ set.attempt = k
        /\ set.item[a] = call[<<n, k>>].outcome
        /\ \A b \in Assets : b # a => set.item[b] = pset[n].item[b]
    BY <1>2, <1>3, <1>4 DEF ParsedSet, Call
  <1>6. PICK new : new = [call[<<n, k>>] EXCEPT !.pc = "looping", !.todo = @ \ {a}]
    OBVIOUS
  <1>7. new \in Call /\ new.pc = "looping"
    BY <1>2, <1>6 DEF Call, CallPC
  <1>8. /\ pset' = [pset EXCEPT ![n] = set] /\ call' = [call EXCEPT ![<<n, k>>] = new]
    BY <1>1, <1>4, <1>6 DEF RecordItem
  <1>9. /\ call' \in [Producers \X Attempts -> Call] /\ call'[<<n, k>>] = new
        /\ \A m \in Producers, j \in Attempts : m # n \/ j # k => call'[<<m, j>>] = call[<<m, j>>]
    BY <1>2, <1>7, <1>8, CallEffect DEF IInv
  <1>10. /\ pset'[n] = set /\ \A m \in Parsers : m # n => pset'[m] = pset[m]
         /\ pset' \in [Parsers -> ParsedSet]
    BY <1>5, <1>8 DEF IInv, TypeOK
  <1>11. TypeOK' /\ DocumentsAreParsed' /\ DocumentsStay
    BY <1>2, <1>9, <1>10 DEF IInv, TypeOK, Attempts, DocumentsAreParsed, DocumentsStay
  <1>12. fence[n].phase # "final" /\ \A j \in Attempts : Nodes!Live(n, j) => j = k
    BY <1>2 DEF Nodes!Live
  <1>13. ParserOK(n)'
    <2>1. \A b \in Assets : pset'[n].item[b] = "succeeded" => doc'[b].status = "succeeded"
      BY <1>2, <1>3, <1>5, <1>10 DEF IInv, ParserOK
    <2>2. ASSUME NEW j \in Attempts, j # k
          PROVE  /\ call'[<<n, j>>].pc \in {"reading", "recording"} => call'[<<n, j>>].todo # {}
                 /\ call'[<<n, j>>].pc = "recording" /\ call'[<<n, j>>].outcome = "succeeded" =>
                      doc'[Current(n, j)'].status = "succeeded"
                 /\ call'[<<n, j>>].pc # "locked" /\ ~ Nodes!Live(n, j)'
      <3>1. call'[<<n, j>>] = call[<<n, j>>]
        BY <1>2, <1>9, <2>2
      <3>2. call'[<<n, j>>].pc # "locked"
        BY <1>2, <2>2, <3>1 DEF IInv, ParserOK
      <3>3. ~ Nodes!Live(n, j)'
        BY <1>2, <1>12, <2>2 DEF Nodes!Live
      <3>4. QED
        BY <1>2, <1>11, <2>2, <3>1, <3>2, <3>3, OtherCallsOK
    <2>3. QED
      BY <1>2, <1>7, <1>9, <1>12, <2>1, <2>2 DEF ParserOK
  <1>14. QED
    BY <1>2, <1>9, <1>10, <1>11, <1>12, <1>13, ParserFrame

\* Finalisation ends, whether or not the lease is over by now.
LEMMA FinishParsedStep ==
    ASSUME ExtractionAssumption, IInv, NEW n \in Parsers, NEW k \in Attempts, FinishParsedSet(n, k)
    PROVE  IInv' /\ KeepsBoundSets
  <1>1. PICK status : status = Summary({pset[n].item[a] : a \in Assets})
    OBVIOUS
  <1>2. PICK set : set = [pset[n] EXCEPT !.status = status]
    OBVIOUS
  <1>3. /\ call[<<n, k>>].pc = "locked" /\ MoveTo(n, k, "answered")
        /\ pset' = [pset EXCEPT ![n] = set]
        /\ UNCHANGED <<fence, doc, dset>> /\ n \in Producers /\ pset[n] \in ParsedSet
        /\ "answered" \in CallPC
    BY <1>1, <1>2 DEF FinishParsedSet, At, IInv, TypeOK, Producers, CallPC
  <1>4. set \in ParsedSet /\ set.attempt = pset[n].attempt /\ set.item = pset[n].item
    <2>1. status \in SetStatus
      BY <1>1 DEF Summary, SetStatus
    <2>2. QED
      BY <1>2, <1>3, <2>1 DEF ParsedSet
  <1>5. /\ call' \in [Producers \X Attempts -> Call] /\ call'[<<n, k>>].pc = "answered"
        /\ \A m \in Producers, j \in Attempts : m # n \/ j # k => call'[<<m, j>>] = call[<<m, j>>]
    BY <1>3, MoveEffect DEF IInv
  <1>6. /\ pset'[n] = set /\ \A m \in Parsers : m # n => pset'[m] = pset[m]
        /\ pset' \in [Parsers -> ParsedSet]
    BY <1>3, <1>4 DEF IInv, TypeOK
  <1>7. TypeOK' /\ DocumentsAreParsed' /\ DocumentsStay
    BY <1>3, <1>5, <1>6 DEF IInv, TypeOK, Attempts, DocumentsAreParsed, DocumentsStay
  <1>8. pset[n].attempt = k /\ NothingPending(pset[n]) /\ fence[n].phase # "final"
    BY <1>3 DEF IInv, ParserOK
  <1>9. NothingPending(pset'[n])
    BY <1>4, <1>6, <1>8 DEF NothingPending
  <1>10. ParserOK(n)'
    <2>1. \A b \in Assets : pset'[n].item[b] = "succeeded" => doc'[b].status = "succeeded"
      BY <1>3, <1>4, <1>6 DEF IInv, ParserOK
    <2>2. ASSUME NEW j \in Attempts, j # k
          PROVE  /\ call'[<<n, j>>].pc \in {"reading", "recording"} => call'[<<n, j>>].todo # {}
                 /\ call'[<<n, j>>].pc = "recording" /\ call'[<<n, j>>].outcome = "succeeded" =>
                      doc'[Current(n, j)'].status = "succeeded"
                 /\ call'[<<n, j>>].pc = "locked" => pset'[n].attempt = j
                 /\ call'[<<n, j>>].pc = "answered" /\ Nodes!Live(n, j)' => pset'[n].attempt = j
      <3>1. call'[<<n, j>>] = call[<<n, j>>]
        BY <1>3, <1>5, <2>2
      <3>2. QED
        BY <1>3, <1>4, <1>6, <1>7, <2>2, <3>1, OtherCallsOK
    <2>3. QED
      BY <1>3, <1>4, <1>5, <1>6, <1>8, <1>9, <2>1, <2>2 DEF ParserOK
  <1>11. QED
    BY <1>3, <1>5, <1>6, <1>7, <1>8, <1>10, ParserFrame

-----------------------------------------------------------------------------
(* document.extract.                                                       *)

\* A plan has one unit for each readable document, of the parse that is
\* current, so as many units as there are such documents.
LEMMA PlanIsWhole ==
    ASSUME ExtractionAssumption, IInv, NEW n \in Extractors,
           NEW plan, plan = {<<a, doc[a].parse>> : a \in Readable(n)}
    PROVE  plan \in SUBSET Units /\ Covers(n, plan) /\ Cardinality(plan) = Cardinality(Readable(n))
  <1>1. DocumentsOf[n] \in Parsers /\ Readable(n) \subseteq Assets /\ IsFiniteSet(Readable(n))
    BY FS_Subset DEF ExtractionAssumption, Readable
  <1>2. \A a \in Readable(n) : doc[a].parse \in 1..MaxParses
    BY <1>1 DEF IInv, ParserOK, DocumentsAreParsed, Readable
  <1>3. \A u \in plan : \E a \in Readable(n) : u = <<a, doc[a].parse>>
    OBVIOUS
  <1>4. \A a \in Readable(n) : <<a, doc[a].parse>> \in plan
    OBVIOUS
  <1>5. plan \in SUBSET Units
    BY <1>1, <1>2, <1>3 DEF Units
  <1>6. Covers(n, plan)
    <2>1. \A u \in plan : u[1] \in Readable(n)
      BY <1>3
    <2>2. ASSUME NEW a \in Readable(n)
          PROVE  \E u \in plan : u[1] = a
      <3>1. PICK u : u = <<a, doc[a].parse>>
        OBVIOUS
      <3>2. u \in plan /\ u[1] = a
        BY <1>4, <3>1
      <3>3. QED
        BY <3>2
    <2>3. QED
      BY <2>1, <2>2 DEF Covers
  <1>7. Cardinality(plan) = Cardinality(Readable(n))
    <2> DEFINE f == [a \in Readable(n) |-> <<a, doc[a].parse>>]
    <2>1. f \in [Readable(n) -> plan] /\ \A a, b \in Readable(n) : f[a] = f[b] => a = b
      BY <1>4
    <2>2. \A u \in plan : \E a \in Readable(n) : f[a] = u
      BY <1>3
    <2> HIDE DEF f
    <2>3. f \in Bijection(Readable(n), plan)
      BY <2>1, <2>2 DEF Bijection, Injection, IsInjective, Surjection
    <2>4. ExistsBijection(Readable(n), plan)
      BY <2>3 DEF ExistsBijection
    <2>5. QED
      BY <1>1, <2>4, FS_Bijection
  <1>8. QED
    BY <1>5, <1>6, <1>7

\* The plans of the other attempts stay as they are, and the new one fits.
LEMMA OtherPlansFit ==
    ASSUME NEW n \in Extractors, NEW k \in Attempts, PlansFit(n), Readable(n)' = Readable(n),
           \A j \in Attempts : j # k => call'[<<n, j>>] = call[<<n, j>>],
           call'[<<n, k>>].pc = "planned" =>
               /\ Covers(n, call'[<<n, k>>].plan)
               /\ Cardinality(call'[<<n, k>>].plan) = Cardinality(Readable(n)),
           call'[<<n, k>>].pc \in {"looping", "extracting"} =>
               \A u \in call'[<<n, k>>].plan : u[1] \in Readable(n),
           call'[<<n, k>>].pc = "extracting" => call'[<<n, k>>].plan # {}
    PROVE  PlansFit(n)'
  <1>1. ASSUME NEW j \in Attempts
        PROVE  /\ call'[<<n, j>>].pc = "planned" =>
                    /\ Covers(n, call'[<<n, j>>].plan)
                    /\ Cardinality(call'[<<n, j>>].plan) = Cardinality(Readable(n))
               /\ call'[<<n, j>>].pc \in {"looping", "extracting"} =>
                    \A u \in call'[<<n, j>>].plan : u[1] \in Readable(n)
               /\ call'[<<n, j>>].pc = "extracting" => call'[<<n, j>>].plan # {}
    <2>1. CASE j = k
      BY <2>1
    <2>2. CASE j # k
      BY <2>2 DEF PlansFit
    <2>3. QED
      BY <2>1, <2>2
  <1>2. ASSUME NEW j \in Attempts
        PROVE  Covers(n, call[<<n, j>>].plan)' <=> Covers(n, call'[<<n, j>>].plan)
    BY DEF Covers
  <1>3. QED
    BY <1>1, <1>2 DEF PlansFit

\* The units are planned from the documents as they are now.
LEMMA PlanStep ==
    ASSUME ExtractionAssumption, IInv, NEW n \in Extractors, NEW k \in Attempts, Plan(n, k)
    PROVE  IInv' /\ KeepsBoundSets
  <1>1. /\ call[<<n, k>>].pc = "begun" /\ UNCHANGED <<fence, doc, pset, dset>>
        /\ n \in Producers /\ call[<<n, k>>] \in Call
    BY DEF Plan, At, IInv, TypeOK, Attempts, Producers
  <1>2. PICK plan : plan = {<<a, doc[a].parse>> : a \in Readable(n)}
    OBVIOUS
  <1>3. plan \in SUBSET Units /\ Covers(n, plan) /\ Cardinality(plan) = Cardinality(Readable(n))
    BY <1>2, PlanIsWhole
  <1>4. PICK new : new = [call[<<n, k>>] EXCEPT !.pc = "planned", !.plan = plan]
    OBVIOUS
  <1>5. new \in Call /\ new.pc = "planned" /\ new.plan = plan
    BY <1>1, <1>3, <1>4 DEF Call, CallPC
  <1>6. call' = [call EXCEPT ![<<n, k>>] = new]
    <2>1. call' = [call EXCEPT ![<<n, k>>].pc = "planned", ![<<n, k>>].plan = plan]
      BY <1>2 DEF Plan, Readable
    <2>2. QED
      BY <1>4, <2>1
  <1>7. /\ call' \in [Producers \X Attempts -> Call] /\ call'[<<n, k>>] = new
        /\ \A m \in Producers, j \in Attempts : m # n \/ j # k => call'[<<m, j>>] = call[<<m, j>>]
    BY <1>1, <1>5, <1>6, CallEffect DEF IInv
  <1>8. \A j \in Attempts : j # k => call'[<<n, j>>] = call[<<n, j>>]
    BY <1>1, <1>7
  <1>9. TypeOK'
    BY <1>1, <1>7 DEF IInv, TypeOK, Attempts
  <1>10. Readable(n)' = Readable(n)
    BY <1>1 DEF Readable
  <1>11. ExtractorOK(n)'
    <2>1. SourceIsFinal(n)'
      BY <1>1, <1>7, <1>8 DEF IInv, ExtractorOK, SourceIsFinal
    <2>2. PlansFit(n)'
      <3>1. /\ Covers(n, call'[<<n, k>>].plan)
            /\ Cardinality(call'[<<n, k>>].plan) = Cardinality(Readable(n))
            /\ call'[<<n, k>>].pc = "planned"
        BY <1>3, <1>5, <1>7
      <3>2. QED
        BY <1>8, <1>10, <3>1, OtherPlansFit DEF IInv, ExtractorOK
    <2>3. SetFits(n)'
      BY <1>1, <1>10 DEF IInv, ExtractorOK, SetFits, Covers, Existing
    <2>4. LiveCallFits(n)'
      <3>1. /\ LiveCallFits(n) /\ fence' = fence /\ dset' = dset
            /\ WholePlan(dset[n])' <=> WholePlan(dset[n])
            /\ call'[<<n, k>>].pc = "planned"
        BY <1>1, <1>5, <1>7 DEF IInv, ExtractorOK, WholePlan, Existing
      <3>2. QED
        BY <1>8, <3>1 DEF LiveCallFits, Nodes!Live
    <2>5. QED
      BY <2>1, <2>2, <2>3, <2>4 DEF ExtractorOK
  <1>12. QED
    BY <1>1, <1>7, <1>9, <1>11, ExtractorFrame

\* A step of the live attempt that writes the set.
LEMMA DraftSetWritten ==
    ASSUME ExtractionAssumption, IInv, NEW n \in Extractors, NEW k \in Attempts,
           NEW set \in DraftSet, NEW new \in Call,
           UNCHANGED <<fence, doc, pset>>, Nodes!Live(n, k),
           dset' = [dset EXCEPT ![n] = set], call' = [call EXCEPT ![<<n, k>>] = new],
           call[<<n, k>>].pc # "none", new.pc \in {"looping", "extracting", "answered"},
           \A u \in new.plan : u[1] \in Readable(n) /\ set.unit[u] # "succeeded",
           new.pc = "extracting" => new.plan # {},
           new.pc = "answered" => WholePlan(set),
           set.attempt = k, Covers(n, Existing(set)), set.count = Cardinality(Readable(n)),
           \A u \in Units : u \in set.drafts <=> set.unit[u] = "succeeded"
    PROVE  IInv' /\ KeepsBoundSets
  <1>1. n \in Producers /\ k > 0
    BY DEF Producers, Attempts, ExtractionAssumption
  <1>2. /\ call' \in [Producers \X Attempts -> Call] /\ call'[<<n, k>>] = new
        /\ \A m \in Producers, j \in Attempts : m # n \/ j # k => call'[<<m, j>>] = call[<<m, j>>]
    BY <1>1, CallEffect DEF IInv
  <1>3. \A j \in Attempts : j # k => call'[<<n, j>>] = call[<<n, j>>]
    BY <1>1, <1>2
  <1>4. /\ dset'[n] = set /\ \A m \in Extractors : m # n => dset'[m] = dset[m]
        /\ dset' \in [Extractors -> DraftSet]
    BY DEF IInv, TypeOK
  <1>5. TypeOK'
    BY <1>2, <1>4 DEF IInv, TypeOK, Attempts
  <1>6. Readable(n)' = Readable(n) /\ fence' = fence
    BY DEF Readable
  <1>7. fence[n].phase # "final" /\ \A j \in Attempts : Nodes!Live(n, j)' => j = k
    BY <1>6 DEF Nodes!Live
  <1>8. SourceIsFinal(n)'
    BY <1>2, <1>3, <1>6 DEF IInv, ExtractorOK, SourceIsFinal
  <1>9. PlansFit(n)'
    <2>1. /\ call'[<<n, k>>].pc # "planned"
          /\ \A u \in call'[<<n, k>>].plan : u[1] \in Readable(n)
          /\ call'[<<n, k>>].pc = "extracting" => call'[<<n, k>>].plan # {}
      BY <1>2
    <2>2. QED
      BY <1>3, <1>6, <2>1, OtherPlansFit DEF IInv, ExtractorOK
  <1>10. SetFits(n)'
    BY <1>1, <1>4, <1>6 DEF SetFits, Covers, Existing
  <1>11. LiveCallFits(n)'
    <2>1. /\ call'[<<n, k>>].pc \in {"looping", "extracting"} =>
               \A u \in call'[<<n, k>>].plan : dset'[n].unit[u] # "succeeded"
          /\ dset'[n].attempt > 0
          /\ call'[<<n, k>>].pc = "answered" => WholePlan(dset'[n])
      BY <1>1, <1>2, <1>4
    <2>2. fence'[n].phase # "final"
      BY <1>6, <1>7
    <2>3. WholePlan(dset[n])' <=> WholePlan(dset'[n])
      BY DEF WholePlan, Existing
    <2>4. QED
      BY <1>7, <2>1, <2>2, <2>3 DEF LiveCallFits
  <1>12. ExtractorOK(n)'
    BY <1>8, <1>9, <1>10, <1>11 DEF ExtractorOK
  <1>13. QED
    BY <1>2, <1>4, <1>5, <1>7, <1>12, ExtractorFrame

\* A set that an attempt takes over keeps what succeeded and its units.
LEMMA TakenOver ==
    ASSUME NEW old \in DraftSet, NEW k \in Attempts, old.attempt <= k,
           NEW set, set = IF old.attempt < k THEN Reset(old, k) ELSE old,
           \A u \in Units : u \in old.drafts <=> old.unit[u] = "succeeded"
    PROVE  /\ set \in DraftSet /\ set.attempt = k
           /\ \A u \in Units : /\ set.unit[u] = "none" <=> old.unit[u] = "none"
                               /\ set.unit[u] = "succeeded" <=> old.unit[u] = "succeeded"
                               /\ u \in set.drafts <=> set.unit[u] = "succeeded"
  <1>1. k \in 0..MaxAttempt /\ old.attempt \in Nat /\ k \in Nat
    BY DEF Attempts, DraftSet
  <1>2. CASE old.attempt < k
    <2> DEFINE kept == {u \in Units : old.unit[u] = "succeeded"}
    <2>1. PICK unit : unit = [u \in Units |-> IF old.unit[u] = "none" \/ u \in kept
                                              THEN old.unit[u] ELSE "pending"]
      OBVIOUS
    <2>2. PICK drafts : drafts = old.drafts \cap kept
      OBVIOUS
    <2>3. set = [old EXCEPT !.attempt = k, !.status = "running", !.drafts = drafts, !.unit = unit]
      BY <1>2, <2>1, <2>2 DEF Reset
    <2>4. /\ unit \in [Units -> {"none", "pending", "running", "succeeded", "failed"}]
          /\ drafts \in SUBSET Units
      BY <2>1, <2>2 DEF DraftSet
    <2>5. /\ set \in DraftSet /\ set.attempt = k /\ set.unit = unit /\ set.drafts = drafts
      BY <1>1, <2>3, <2>4 DEF DraftSet, SetStatus
    <2>6. QED
      BY <2>1, <2>2, <2>5
  <1>3. CASE ~ (old.attempt < k)
    BY <1>1, <1>3
  <1>4. QED
    BY <1>2, <1>3

\* An attempt takes the set over, or creates it, with the units of its plan.
LEMMA BeginDraftStep ==
    ASSUME ExtractionAssumption, IInv, NEW n \in Extractors, NEW k \in Attempts, BeginDraftSet(n, k)
    PROVE  IInv' /\ KeepsBoundSets
  <1>1. PICK plan, old, set : /\ plan = call[<<n, k>>].plan /\ old = dset[n]
                              /\ set = IF old.attempt < k THEN Reset(old, k) ELSE old
    OBVIOUS
  <1>2. /\ call[<<n, k>>].pc = "planned" /\ Nodes!Live(n, k) /\ old.attempt <= k
        /\ UNCHANGED <<fence, doc, pset>>
        /\ n \in Producers /\ call[<<n, k>>] \in Call /\ old \in DraftSet /\ plan \in SUBSET Units
    BY <1>1 DEF BeginDraftSet, At, IInv, TypeOK, Producers, Attempts, Call
  <1>3. /\ Covers(n, plan) /\ Cardinality(plan) = Cardinality(Readable(n))
        /\ old.attempt = 0 => Existing(old) = {}
        /\ old.attempt > 0 => Covers(n, Existing(old))
        /\ \A u \in Units : u \in old.drafts <=> old.unit[u] = "succeeded"
    BY <1>1, <1>2 DEF IInv, ExtractorOK, PlansFit, SetFits
  <1>4. /\ set \in DraftSet /\ set.attempt = k
        /\ \A u \in Units : /\ set.unit[u] = "none" <=> old.unit[u] = "none"
                            /\ set.unit[u] = "succeeded" <=> old.unit[u] = "succeeded"
                            /\ u \in set.drafts <=> set.unit[u] = "succeeded"
    BY <1>1, <1>2, <1>3, TakenOver
  <1>5. PICK unit : unit = [u \in Units |-> IF u \in plan /\ set.unit[u] = "none"
                                            THEN "pending" ELSE set.unit[u]]
    OBVIOUS
  <1>6. PICK written : written = [set EXCEPT !.count = Cardinality(plan), !.unit = unit]
    OBVIOUS
  <1>7. Cardinality(plan) \in Nat
    BY <1>2, UnitsOfFiles, FS_Subset, FS_CardinalityType
  <1>8. unit \in [Units -> {"none", "pending", "running", "succeeded", "failed"}]
    BY <1>4, <1>5 DEF DraftSet
  <1>9. /\ written \in DraftSet /\ written.attempt = k /\ written.unit = unit
        /\ written.drafts = set.drafts /\ written.count = Cardinality(plan)
    BY <1>4, <1>6, <1>7, <1>8 DEF DraftSet
  <1>10. PICK rest : rest = {u \in plan : set.unit[u] # "succeeded"}
    OBVIOUS
  <1>11. PICK new : new = [call[<<n, k>>] EXCEPT !.pc = "looping", !.plan = rest]
    OBVIOUS
  <1>12. new \in Call /\ new.pc = "looping" /\ new.plan = rest
    BY <1>2, <1>10, <1>11 DEF Call, CallPC
  <1>13. dset' = [dset EXCEPT ![n] = written] /\ call' = [call EXCEPT ![<<n, k>>] = new]
    <2>1. call' = [call EXCEPT ![<<n, k>>].pc = "looping", ![<<n, k>>].plan = rest]
      BY <1>1, <1>10 DEF BeginDraftSet
    <2>2. call' = [call EXCEPT ![<<n, k>>] = new]
      BY <1>11, <2>1
    <2>3. dset' = [dset EXCEPT ![n] = written]
      BY <1>1, <1>5, <1>6 DEF BeginDraftSet
    <2>4. QED
      BY <2>2, <2>3
  <1>14. \A u \in Units : /\ u \in Existing(written) <=> u \in Existing(old) \/ u \in plan
                          /\ u \in written.drafts <=> written.unit[u] = "succeeded"
                          /\ written.unit[u] = "succeeded" <=> set.unit[u] = "succeeded"
    BY <1>4, <1>5, <1>9 DEF Existing
  <1>15. Covers(n, Existing(written))
    <2>1. \A u \in Existing(old) : u[1] \in Readable(n)
      BY <1>2, <1>3 DEF Covers, DraftSet
    <2>2. \A u \in Existing(written) : u \in Units
      BY DEF Existing
    <2>3. QED
      BY <1>2, <1>3, <1>14, <2>1, <2>2 DEF Covers
  <1>16. \A u \in new.plan : u[1] \in Readable(n) /\ written.unit[u] # "succeeded"
    BY <1>2, <1>3, <1>10, <1>12, <1>14 DEF Covers
  <1>17. QED
    BY <1>2, <1>3, <1>9, <1>12, <1>13, <1>14, <1>15, <1>16, DraftSetWritten

\* The live attempt starts or ends a unit of its plan.
LEMMA UnitStep ==
    ASSUME ExtractionAssumption, IInv, NEW n \in Extractors, NEW k \in Attempts,
           NEW outcome \in {"succeeded", "failed"}, StartUnit(n, k) \/ EndUnit(n, k, outcome)
    PROVE  IInv' /\ KeepsBoundSets
  <1>1. PICK u, old, one : u = CurrentUnit(n, k) /\ old = dset[n] /\ one = call[<<n, k>>]
    OBVIOUS
  <1>2. /\ one.pc \in {"looping", "extracting"} /\ Nodes!Live(n, k) /\ old.attempt = k
        /\ UNCHANGED <<fence, doc, pset>>
        /\ n \in Producers /\ one \in Call /\ old \in DraftSet /\ k > 0
    BY <1>1 DEF StartUnit, EndUnit, Writable, At, IInv, TypeOK, Producers, Attempts
  <1>3. /\ old.attempt > 0
        /\ Covers(n, Existing(old)) /\ old.count = Cardinality(Readable(n))
        /\ \A v \in Units : v \in old.drafts <=> old.unit[v] = "succeeded"
        /\ \A v \in one.plan : v[1] \in Readable(n) /\ old.unit[v] # "succeeded"
    BY <1>1, <1>2 DEF IInv, ExtractorOK, PlansFit, SetFits, LiveCallFits
  <1>4. u \in one.plan /\ u \in Units
    <2>1. one.plan # {}
      BY <1>1 DEF StartUnit, EndUnit, At, IInv, ExtractorOK, PlansFit
    <2>2. QED
      BY <1>1, <1>2, <2>1, CurrentIsPlanned DEF IInv
  <1>5. PICK set \in DraftSet, new \in Call :
          /\ dset' = [dset EXCEPT ![n] = set] /\ call' = [call EXCEPT ![<<n, k>>] = new]
          /\ set.attempt = k /\ set.count = old.count /\ set.unit[u] # "none"
          /\ \A v \in Units : v # u => set.unit[v] = old.unit[v]
          /\ \A v \in Units : v \in set.drafts <=>
                 v \in old.drafts \/ (v = u /\ set.unit[u] = "succeeded")
          /\ new.pc \in {"looping", "extracting"} /\ new.plan \subseteq one.plan
          /\ new.pc = "extracting" => new.plan # {}
          /\ u \in new.plan => set.unit[u] # "succeeded"
    <2>1. CASE StartUnit(n, k)
      <3>1. PICK set : set = [old EXCEPT !.unit[u] = "running"]
        OBVIOUS
      <3>2. PICK new : new = [one EXCEPT !.pc = "extracting"]
        OBVIOUS
      <3>3. /\ set \in DraftSet /\ set.attempt = k /\ set.count = old.count
            /\ set.drafts = old.drafts /\ set.unit[u] = "running"
            /\ \A v \in Units : v # u => set.unit[v] = old.unit[v]
        BY <1>2, <1>4, <3>1 DEF DraftSet
      <3>4. new \in Call /\ new.pc = "extracting" /\ new.plan = one.plan
        BY <1>2, <3>2 DEF Call, CallPC
      <3>5. dset' = [dset EXCEPT ![n] = set] /\ call' = [call EXCEPT ![<<n, k>>] = new]
        BY <1>1, <2>1, <3>1, <3>2 DEF StartUnit, MoveTo
      <3>6. QED
        BY <1>4, <3>3, <3>4, <3>5
    <2>2. CASE EndUnit(n, k, outcome)
      <3>1. PICK drafts : drafts = IF outcome = "succeeded" THEN old.drafts \cup {u} ELSE old.drafts
        OBVIOUS
      <3>2. drafts \in SUBSET Units
        BY <1>2, <1>4, <3>1 DEF DraftSet
      <3>3. PICK set : set = [old EXCEPT !.unit[u] = outcome, !.drafts = drafts]
        OBVIOUS
      <3>4. /\ set \in DraftSet /\ set.attempt = k /\ set.count = old.count
            /\ set.drafts = drafts /\ set.unit[u] = outcome
            /\ \A v \in Units : v # u => set.unit[v] = old.unit[v]
        BY <1>2, <1>4, <3>2, <3>3 DEF DraftSet
      <3>5. PICK new : new = [one EXCEPT !.pc = "looping", !.plan = one.plan \ {u}]
        OBVIOUS
      <3>6. new \in Call /\ new.pc = "looping" /\ new.plan = one.plan \ {u}
        BY <1>2, <3>5 DEF Call, CallPC
      <3>7. dset' = [dset EXCEPT ![n] = set]
        BY <1>1, <2>2, <3>1, <3>3 DEF EndUnit
      <3>8. call' = [call EXCEPT ![<<n, k>>] = new]
        BY <1>1, <2>2, <3>5 DEF EndUnit
      <3>9. QED
        BY <3>1, <3>4, <3>6, <3>7, <3>8
    <2>3. QED
      BY <2>1, <2>2
  <1>6. Covers(n, Existing(set))
    <2>1. \A v \in Existing(old) : v \in Units /\ old.unit[v] # "none"
      BY DEF Existing
    <2>2. \A v \in Units : v \in Existing(set) <=> v = u \/ v \in Existing(old)
      BY <1>4, <1>5 DEF Existing
    <2>3. \A v \in Existing(set) : v \in Units
      BY DEF Existing
    <2>4. QED
      BY <1>3, <1>4, <2>1, <2>2, <2>3 DEF Covers
  <1>7. \A v \in new.plan : v[1] \in Readable(n) /\ set.unit[v] # "succeeded"
    <2>1. new.plan \in SUBSET Units
      BY DEF Call
    <2>2. QED
      BY <1>3, <1>5, <2>1
  <1>8. \A v \in Units : v \in set.drafts <=> set.unit[v] = "succeeded"
    <2>1. u \notin old.drafts
      BY <1>3, <1>4
    <2>2. QED
      BY <1>3, <1>4, <1>5, <2>1
  <1>9. call[<<n, k>>].pc # "none" /\ new.pc \in {"looping", "extracting", "answered"}
    BY <1>1, <1>2, <1>5
  <1>10. new.pc # "answered"
    BY <1>5
  <1>11. QED
    BY <1>2, <1>3, <1>5, <1>6, <1>7, <1>8, <1>9, <1>10, DraftSetWritten

\* The set is ended when no unit is pending and all planned units exist.
LEMMA FinishDraftStep ==
    ASSUME ExtractionAssumption, IInv, NEW n \in Extractors, NEW k \in Attempts, FinishDraftSet(n, k)
    PROVE  IInv' /\ KeepsBoundSets
  <1>1. PICK old, one, status :
          /\ old = dset[n] /\ one = call[<<n, k>>]
          /\ status = IF Existing(old) = {} THEN "failed"
                      ELSE Summary({old.unit[u] : u \in Existing(old)})
    OBVIOUS
  <1>2. /\ one.pc = "looping" /\ one.plan = {} /\ Nodes!Live(n, k) /\ old.attempt = k
        /\ WholePlan(old) /\ UNCHANGED <<fence, doc, pset>>
        /\ n \in Producers /\ one \in Call /\ old \in DraftSet /\ k > 0
        /\ status \in SetStatus
    BY <1>1 DEF FinishDraftSet, Writable, At, IInv, TypeOK, Producers, Attempts, Summary, SetStatus
  <1>3. /\ Covers(n, Existing(old)) /\ old.count = Cardinality(Readable(n))
        /\ \A u \in Units : u \in old.drafts <=> old.unit[u] = "succeeded"
    BY <1>1, <1>2 DEF IInv, ExtractorOK, SetFits
  <1>4. PICK set : set = [old EXCEPT !.status = status]
    OBVIOUS
  <1>5. /\ set \in DraftSet /\ set.attempt = k /\ set.unit = old.unit
        /\ set.drafts = old.drafts /\ set.count = old.count
    BY <1>2, <1>4 DEF DraftSet
  <1>6. PICK new : new = [one EXCEPT !.pc = "answered"]
    OBVIOUS
  <1>7. new \in Call /\ new.pc = "answered" /\ new.plan = {}
    BY <1>2, <1>6 DEF Call, CallPC
  <1>8. dset' = [dset EXCEPT ![n] = set] /\ call' = [call EXCEPT ![<<n, k>>] = new]
    BY <1>1, <1>4, <1>6 DEF FinishDraftSet, MoveTo
  <1>9. Existing(set) = Existing(old)
    BY <1>5 DEF Existing
  <1>10. WholePlan(set)
    BY <1>2, <1>5, <1>9 DEF WholePlan
  <1>11. QED
    BY <1>1, <1>2, <1>3, <1>5, <1>7, <1>8, <1>9, <1>10, DraftSetWritten

-----------------------------------------------------------------------------
(* The node runs.                                                          *)

\* The fence of one node run moves on; what is left to show of that node run.
LEMMA FenceFrame ==
    ASSUME ExtractionAssumption, IInv, NEW n \in Producers,
           UNCHANGED <<doc, pset, dset>>, fence[n].phase # "final",
           fence' \in [Producers -> Nodes!Fence], call' \in [Producers \X Attempts -> Call],
           \A m \in Producers : m # n => fence'[m] = fence[m],
           \A m \in Producers, j \in Attempts : m # n => call'[<<m, j>>] = call[<<m, j>>],
           n \in Parsers => ParserOK(n)',
           n \in Extractors => ExtractorOK(n)'
    PROVE  IInv' /\ KeepsBoundSets
  <1>1. TypeOK' /\ DocumentsAreParsed' /\ DocumentsStay
    BY DEF IInv, TypeOK, Attempts, DocumentsAreParsed, DocumentsStay
  <1>2. ASSUME NEW m \in Parsers
        PROVE  ParserOK(m)'
    <2>1. m # n => ParserOK(m)'
      BY <1>1, ParserUntouched DEF IInv, Producers
    <2>2. QED
      BY <2>1
  <1>3. ASSUME NEW m \in Extractors
        PROVE  ExtractorOK(m)'
    <2>1. DocumentsOf[m] \in Producers /\ m \in Producers
      BY DEF Producers, ExtractionAssumption
    <2>2. fence[DocumentsOf[m]].phase = "final" => fence'[DocumentsOf[m]].phase = "final"
      BY <2>1
    <2>3. m # n => ExtractorOK(m)'
      BY <2>1, <2>2, ExtractorUntouched DEF IInv
    <2>4. QED
      BY <2>3
  <1>4. IInv'
    BY <1>1, <1>2, <1>3 DEF IInv
  <1>5. QED
    BY <1>4 DEF KeepsBoundSets

\* What the fence of a node run is after a claim, and after its end.
LEMMA FenceEffect ==
    ASSUME ExtractionAssumption, TypeOK, NEW n \in Producers
    PROVE  /\ Nodes!Claim(n) =>
                /\ fence[n].phase = "idle" /\ fence'[n].phase = "live"
                /\ fence[n].attempt + 1 \in Attempts /\ fence'[n].attempt = fence[n].attempt + 1
           /\ Nodes!Lose(n) \/ Nodes!Settle(n) =>
                /\ fence[n].phase # "final" /\ fence'[n].phase # "live"
                /\ fence'[n].attempt = fence[n].attempt
           /\ Nodes!Lose(n) => fence'[n].phase = "idle"
           /\ Nodes!Claim(n) \/ Nodes!Lose(n) \/ Nodes!Settle(n) =>
                /\ fence' \in [Producers -> Nodes!Fence]
                /\ \A m \in Producers : m # n => fence'[m] = fence[m]
  <1>1. fence \in [Producers -> Nodes!Fence] /\ fence[n] \in Nodes!Fence /\ MaxAttempt \in Nat
    BY DEF TypeOK, ExtractionAssumption
  <1>2. CASE Nodes!Claim(n)
    <2>1. PICK new : new = [attempt |-> fence[n].attempt + 1, phase |-> "live"]
      OBVIOUS
    <2>2. new \in Nodes!Fence
      BY <1>1, <1>2, <2>1 DEF Nodes!Fence, Nodes!Claim
    <2>3. fence' = [fence EXCEPT ![n] = new]
      BY <1>1, <1>2, <2>1 DEF Nodes!Claim, Nodes!Fence
    <2>4. fence[n].attempt + 1 \in Attempts /\ fence[n].phase = "idle"
      BY <1>1, <1>2 DEF Nodes!Claim, Nodes!Fence, Attempts
    <2>5. fence'[n] = new /\ \A m \in Producers : m # n => fence'[m] = fence[m]
      BY <1>1, <2>3
    <2>6. fence' \in [Producers -> Nodes!Fence]
      BY <1>1, <2>2, <2>3
    <2>7. QED
      BY <1>2, <2>1, <2>4, <2>5, <2>6 DEF Nodes!Lose, Nodes!Settle, Nodes!Claim
  <1>3. ASSUME NEW phase \in {"idle", "final"}, fence' = [fence EXCEPT ![n].phase = phase]
        PROVE  /\ fence'[n].phase = phase /\ fence'[n].attempt = fence[n].attempt
               /\ fence' \in [Producers -> Nodes!Fence]
               /\ \A m \in Producers : m # n => fence'[m] = fence[m]
    BY <1>1, <1>3 DEF Nodes!Fence
  <1>4. CASE Nodes!Lose(n)
    BY <1>3, <1>4 DEF Nodes!Lose, Nodes!Claim, Nodes!Settle
  <1>5. CASE Nodes!Settle(n)
    BY <1>3, <1>5 DEF Nodes!Lose, Nodes!Claim, Nodes!Settle
  <1>6. QED
    BY <1>2, <1>4, <1>5

\* A new attempt: no other is live, and an extractor finds its input bound.
LEMMA ClaimStep ==
    ASSUME ExtractionAssumption, IInv, NEW n \in Producers, Claim(n)
    PROVE  IInv' /\ KeepsBoundSets
  <1>1. PICK k : k = fence[n].attempt + 1
    OBVIOUS
  <1>2. /\ Nodes!Claim(n) /\ MoveTo(n, k, "begun") /\ UNCHANGED <<doc, pset, dset>>
        /\ n \in Extractors => fence[DocumentsOf[n]].phase = "final"
    BY <1>1 DEF Claim, MoveTo
  <1>3. /\ k \in Attempts /\ k > 0 /\ fence[n].phase = "idle"
        /\ fence'[n].phase = "live" /\ fence'[n].attempt = k
        /\ fence' \in [Producers -> Nodes!Fence]
        /\ \A m \in Producers : m # n => fence'[m] = fence[m]
    <2>1. k \in Attempts
      BY <1>1, <1>2, FenceEffect DEF IInv
    <2>2. QED
      BY <1>1, <1>2, <2>1, FenceEffect DEF IInv, Attempts
  <1>4. /\ call' \in [Producers \X Attempts -> Call] /\ call'[<<n, k>>].pc = "begun"
        /\ call'[<<n, k>>].todo = call[<<n, k>>].todo
        /\ \A m \in Producers, j \in Attempts : m # n \/ j # k => call'[<<m, j>>] = call[<<m, j>>]
    BY <1>2, <1>3, MoveEffect DEF IInv, CallPC
  <1>5. \A j \in Attempts : /\ j # k => call'[<<n, j>>] = call[<<n, j>>]
                            /\ Nodes!Live(n, j)' => j = k
    BY <1>3, <1>4 DEF Nodes!Live
  <1>6. ASSUME n \in Parsers
        PROVE  ParserOK(n)'
    <2>1. \A j \in Attempts : j # k => Current(n, j)' = Current(n, j)
      BY <1>5, CurrentStays
    <2>2. NothingPending(pset[n])' <=> NothingPending(pset[n])
      BY <1>2 DEF NothingPending
    <2>3. QED
      BY <1>2, <1>3, <1>4, <1>5, <1>6, <2>1, <2>2 DEF IInv, ParserOK
  <1>7. ASSUME n \in Extractors
        PROVE  ExtractorOK(n)'
    <2>1. DocumentsOf[n] \in Producers /\ DocumentsOf[n] # n
      BY <1>7 DEF Producers, ExtractionAssumption
    <2>2. Readable(n)' = Readable(n)
      BY <1>2 DEF Readable
    <2>3. SourceIsFinal(n)'
      BY <1>2, <1>3, <1>7, <2>1 DEF SourceIsFinal
    <2>4. PlansFit(n)'
      <3>1. PlansFit(n) /\ call'[<<n, k>>].pc \notin {"planned", "looping", "extracting"}
        BY <1>4, <1>7 DEF IInv, ExtractorOK
      <3>2. \A j \in Attempts : j # k => call'[<<n, j>>] = call[<<n, j>>]
        BY <1>5
      <3>3. k \in Attempts
        BY <1>3
      <3>4. QED
        BY <1>7, <2>2, <3>1, <3>2, <3>3, OtherPlansFit
    <2>5. SetFits(n)'
      BY <1>2, <1>7, <2>2 DEF IInv, ExtractorOK, SetFits, Covers, Existing
    <2>6. LiveCallFits(n)'
      BY <1>3, <1>4, <1>5 DEF LiveCallFits
    <2>7. QED
      BY <2>3, <2>4, <2>5, <2>6 DEF ExtractorOK
  <1>8. QED
    BY <1>2, <1>3, <1>4, <1>6, <1>7, FenceFrame

\* An attempt ends: its lease expires, or it has answered and the node run
\* succeeds with the set that this attempt has ended.
LEMMA EndStep ==
    ASSUME ExtractionAssumption, IInv, NEW n \in Producers,
           Lose(n) \/ \E k \in Attempts : Settle(n, k)
    PROVE  IInv' /\ KeepsBoundSets
  <1>1. /\ UNCHANGED <<doc, pset, dset, call>>
        /\ Nodes!Lose(n) \/ Nodes!Settle(n)
        /\ ~ Nodes!Lose(n) =>
             \E k \in Attempts : call[<<n, k>>].pc = "answered" /\ Nodes!Live(n, k)
    BY DEF Lose, Settle, At
  <1>2. /\ fence[n].phase # "final" /\ fence'[n].attempt = fence[n].attempt
        /\ fence'[n].phase # "live"
        /\ fence'[n].phase = "final" =>
             \E k \in Attempts : call[<<n, k>>].pc = "answered" /\ Nodes!Live(n, k)
        /\ fence' \in [Producers -> Nodes!Fence]
        /\ \A m \in Producers : m # n => fence'[m] = fence[m]
    BY <1>1, FenceEffect DEF IInv
  <1>3. call' \in [Producers \X Attempts -> Call]
    BY <1>1 DEF IInv, TypeOK, Attempts
  <1>4. \A j \in Attempts : ~ Nodes!Live(n, j)'
    BY <1>2 DEF Nodes!Live
  <1>5. ASSUME n \in Parsers
        PROVE  ParserOK(n)'
    <2>1. \A j \in Attempts : Current(n, j)' = Current(n, j)
      BY <1>1, CurrentStays
    <2>2. NothingPending(pset[n])' <=> NothingPending(pset[n])
      BY <1>1 DEF NothingPending
    <2>3. fence'[n].phase = "final" =>
            NothingPending(pset[n]) /\ \A j \in Attempts : call[<<n, j>>].pc # "locked"
      <3>1. SUFFICES ASSUME fence'[n].phase = "final"
                     PROVE  NothingPending(pset[n]) /\ \A j \in Attempts : call[<<n, j>>].pc # "locked"
        OBVIOUS
      <3>2. PICK k \in Attempts : call[<<n, k>>].pc = "answered" /\ Nodes!Live(n, k)
        BY <1>2, <3>1
      <3>3. pset[n].attempt = k /\ NothingPending(pset[n])
        BY <1>5, <3>2 DEF IInv, ParserOK
      <3>4. \A j \in Attempts : call[<<n, j>>].pc = "locked" => j = k
        BY <1>5, <3>3 DEF IInv, ParserOK
      <3>5. QED
        BY <3>2, <3>3, <3>4
    <2>4. QED
      BY <1>1, <1>4, <1>5, <2>1, <2>2, <2>3 DEF IInv, ParserOK
  <1>6. ASSUME n \in Extractors
        PROVE  ExtractorOK(n)'
    <2>1. DocumentsOf[n] \in Producers /\ DocumentsOf[n] # n
      BY <1>6 DEF Producers, ExtractionAssumption
    <2>2. Readable(n)' = Readable(n)
      BY <1>1 DEF Readable
    <2>3. SourceIsFinal(n)'
      BY <1>1, <1>2, <1>6, <2>1 DEF IInv, ExtractorOK, SourceIsFinal
    <2>4. PlansFit(n)'
      <3>1. ASSUME NEW k \in Attempts
            PROVE  Covers(n, call[<<n, k>>].plan)' <=> Covers(n, call[<<n, k>>].plan)
        BY <1>1, <2>2 DEF Covers
      <3>2. QED
        BY <1>1, <1>6, <2>2, <3>1 DEF IInv, ExtractorOK, PlansFit
    <2>5. SetFits(n)'
      BY <1>1, <1>6, <2>2 DEF IInv, ExtractorOK, SetFits, Covers, Existing
    <2>6. fence'[n].phase = "final" => dset[n].attempt > 0 /\ WholePlan(dset[n])
      BY <1>2, <1>6 DEF IInv, ExtractorOK, LiveCallFits
    <2>7. WholePlan(dset[n])' <=> WholePlan(dset[n])
      BY <1>1 DEF WholePlan, Existing
    <2>8. LiveCallFits(n)'
      BY <1>1, <1>4, <2>6, <2>7 DEF LiveCallFits
    <2>9. QED
      BY <2>3, <2>4, <2>5, <2>8 DEF ExtractorOK
  <1>7. QED
    BY <1>1, <1>2, <1>3, <1>5, <1>6, FenceFrame

-----------------------------------------------------------------------------
(* The theorems.                                                           *)

\* The invariant holds at first.
LEMMA InitInvariant ==
    ASSUME ExtractionAssumption, Init
    PROVE  IInv
  <1>1. TypeOK
    <2>1. 0 \in 0..MaxAttempt /\ 0 \in 0..MaxParses
      BY DEF ExtractionAssumption
    <2>2. QED
      BY <2>1 DEF Init, Nodes!Init, Nodes!Fence, TypeOK, Document, ParsedSet, SetStatus,
             DraftSet, Call, CallPC
  <1>2. DocumentsAreParsed
    BY DEF Init, DocumentsAreParsed
  <1>3. \A n \in Producers : /\ fence[n].phase = "idle"
                             /\ \A k \in Attempts : call[<<n, k>>].pc = "none"
    BY DEF Init, Nodes!Init, Attempts
  <1>4. ASSUME NEW n \in Parsers
        PROVE  ParserOK(n)
    BY <1>3 DEF Init, ParserOK, Producers
  <1>5. ASSUME NEW n \in Extractors
        PROVE  ExtractorOK(n)
    <2>1. /\ n \in Producers /\ DocumentsOf[n] \in Producers
          /\ dset[n].attempt = 0 /\ dset[n].drafts = {}
          /\ fence[n].attempt = 0
          /\ \A u \in Units : dset[n].unit[u] = "none"
      BY DEF Init, Nodes!Init, Producers, ExtractionAssumption
    <2>2. SourceIsFinal(n) /\ PlansFit(n) /\ LiveCallFits(n)
      BY <1>3, <2>1 DEF SourceIsFinal, PlansFit, LiveCallFits, Nodes!Live
    <2>3. SetFits(n)
      BY <2>1 DEF SetFits, Existing
    <2>4. QED
      BY <2>2, <2>3 DEF ExtractorOK
  <1>6. QED
    BY <1>1, <1>2, <1>4, <1>5 DEF IInv

\* Every step keeps the invariant and what is bound.
LEMMA InvariantStep ==
    ASSUME ExtractionAssumption, IInv, [Next]_vars
    PROVE  IInv' /\ KeepsBoundSets
  <1>1. CASE UNCHANGED vars
    <2>1. DocumentsStay /\ UNCHANGED <<fence, doc, pset, dset, call>>
      BY <1>1 DEF vars, DocumentsStay
    <2>2. TypeOK' /\ DocumentsAreParsed'
      BY <2>1 DEF IInv, TypeOK, DocumentsAreParsed
    <2>3. \A n \in Parsers : ParserOK(n)'
      BY <2>1, ParserUntouched DEF IInv
    <2>4. \A n \in Extractors : ExtractorOK(n)'
      BY <2>1, ExtractorUntouched DEF IInv
    <2>5. QED
      BY <2>1, <2>2, <2>3, <2>4 DEF IInv, KeepsBoundSets
  <1>2. ASSUME NEW n \in Producers, Claim(n)
        PROVE  IInv' /\ KeepsBoundSets
    BY <1>2, ClaimStep
  <1>3. ASSUME NEW n \in Producers, Lose(n) \/ \E k \in Attempts : Settle(n, k)
        PROVE  IInv' /\ KeepsBoundSets
    BY <1>3, EndStep
  <1>4. ASSUME NEW n \in Parsers, NEW k \in Attempts, ParseStep(n, k)
        PROVE  IInv' /\ KeepsBoundSets
    BY <1>4, BeginParsedStep, LookUpStep, ParseFileStep, LockStep, RecordStep, FinishParsedStep
       DEF ParseStep
  <1>5. ASSUME NEW n \in Extractors, NEW k \in Attempts, ExtractStep(n, k)
        PROVE  IInv' /\ KeepsBoundSets
    BY <1>5, PlanStep, BeginDraftStep, UnitStep, FinishDraftStep DEF ExtractStep
  <1>6. QED
    BY <1>1, <1>2, <1>3, <1>4, <1>5 DEF Next, Attempts

\* The units of a set that is ended are as many as there are readable
\* documents, and each has one: so none has two.
LEMMA OneUnitEach ==
    ASSUME ExtractionAssumption, NEW n \in Extractors, NEW units \in SUBSET Units,
           Covers(n, units), Cardinality(units) = Cardinality(Readable(n)), NEW a \in Assets
    PROVE  Cardinality({u \in units : u[1] = a}) = IF a \in Readable(n) THEN 1 ELSE 0
  <1>1. IsFiniteSet(units) /\ IsFiniteSet(Readable(n))
    BY UnitsOfFiles, FS_Subset DEF ExtractionAssumption, Readable
  <1> DEFINE f == [u \in units |-> u[1]]
             own == {u \in units : u[1] = a}
  <1>2. f \in Surjection(units, Readable(n))
    <2>1. f \in [units -> Readable(n)] /\ \A b \in Readable(n) : \E u \in units : f[u] = b
      BY DEF Covers
    <2> HIDE DEF f
    <2>2. QED
      BY <2>1 DEF Surjection
  <1>3. \A u, v \in units : u[1] = v[1] => u = v
    <2> HIDE DEF f
    <2>1. f \in Injection(units, Readable(n))
      BY <1>1, <1>2, FS_SurjSameCardinalityImpliesInj
    <2>2. \A u, v \in units : f[u] = f[v] => u = v
      BY <2>1 DEF Injection, IsInjective
    <2> USE DEF f
    <2>3. \A u \in units : f[u] = u[1]
      OBVIOUS
    <2> HIDE DEF f
    <2>4. QED
      BY <2>2, <2>3
  <1>4. CASE a \in Readable(n)
    <2>1. PICK u \in units : u[1] = a
      BY <1>4 DEF Covers
    <2>2. own = {u}
      BY <1>3, <2>1
    <2>3. QED
      BY <1>4, <2>2, FS_Singleton
  <1>5. CASE a \notin Readable(n)
    <2>1. own = {}
      BY <1>5 DEF Covers
    <2>2. QED
      BY <1>5, <2>1, FS_EmptySet
  <1>6. QED
    BY <1>4, <1>5

\* What the invariant says of a node run that has succeeded.
LEMMA FinishedIsWhole ==
    ASSUME ExtractionAssumption, IInv
    PROVE  FinishedSetsAreWhole
  <1>1. ASSUME NEW n \in Parsers, fence[n].phase = "final", NEW a \in Assets
        PROVE  /\ pset[n].item[a] # "pending"
               /\ pset[n].item[a] = "succeeded" => doc[a].status = "succeeded"
    BY <1>1 DEF IInv, ParserOK, NothingPending
  <1>2. ASSUME NEW n \in Extractors, fence[n].phase = "final"
        PROVE  /\ \A a \in Assets :
                    Cardinality({u \in Existing(dset[n]) : u[1] = a}) =
                        IF pset[DocumentsOf[n]].item[a] = "succeeded" THEN 1 ELSE 0
               /\ dset[n].drafts = {u \in Units : dset[n].unit[u] = "succeeded"}
    <2>1. /\ dset[n].attempt > 0 /\ WholePlan(dset[n])
          /\ Covers(n, Existing(dset[n])) /\ dset[n].count = Cardinality(Readable(n))
          /\ \A u \in Units : u \in dset[n].drafts <=> dset[n].unit[u] = "succeeded"
          /\ dset[n].drafts \subseteq Units
      BY <1>2 DEF IInv, TypeOK, DraftSet, ExtractorOK, LiveCallFits, SetFits
    <2>2. Existing(dset[n]) \in SUBSET Units
      BY DEF Existing
    <2>3. ASSUME NEW a \in Assets
          PROVE  Cardinality({u \in Existing(dset[n]) : u[1] = a}) =
                     IF pset[DocumentsOf[n]].item[a] = "succeeded" THEN 1 ELSE 0
      <3>1. a \in Readable(n) <=> pset[DocumentsOf[n]].item[a] = "succeeded"
        BY DEF Readable
      <3>2. Cardinality(Existing(dset[n])) = Cardinality(Readable(n))
        BY <2>1 DEF WholePlan
      <3>3. QED
        BY <2>1, <2>2, <3>1, <3>2, OneUnitEach
    <2>4. dset[n].drafts = {u \in Units : dset[n].unit[u] = "succeeded"}
      BY <2>1
    <2>5. QED
      BY <2>3, <2>4
  <1>3. QED
    BY <1>1, <1>2 DEF FinishedSetsAreWhole

\* Whatever attempts run beside each other, the invariant holds.
THEOREM ExtractionInvariant ==
    ASSUME ExtractionAssumption
    PROVE  Spec => []IInv
  <1>1. Init => IInv
    BY InitInvariant
  <1>2. IInv /\ [Next]_vars => IInv'
    BY InvariantStep
  <1>3. QED
    BY <1>1, <1>2, PTL DEF Spec

\* Every variable keeps a value of its type.
THEOREM ExtractionTypeCorrect ==
    ASSUME ExtractionAssumption
    PROVE  Spec => []TypeOK
  <1>1. IInv => TypeOK
    BY DEF IInv
  <1>2. QED
    BY <1>1, ExtractionInvariant, PTL

\* A node run that has succeeded accounts for every file: each item is a
\* readable document or a failure, and each readable document has one unit.
THEOREM FinishedSets ==
    ASSUME ExtractionAssumption
    PROVE  Spec => []FinishedSetsAreWhole
  <1>1. IInv => FinishedSetsAreWhole
    BY FinishedIsWhole
  <1>2. QED
    BY <1>1, ExtractionInvariant, PTL

\* What a succeeded node run has bound to the nodes after it never changes.
THEOREM BoundSetsFrozen ==
    ASSUME ExtractionAssumption
    PROVE  Spec => BoundSetsAreFrozen
  <1>1. IInv /\ [Next]_vars => KeepsBoundSets
    BY InvariantStep
  <1>2. QED
    BY <1>1, ExtractionInvariant, PTL DEF Spec, BoundSetsAreFrozen

=============================================================================
