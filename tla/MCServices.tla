----------------------------- MODULE MCServices -----------------------------
(***************************************************************************)
(* Services on small instances of each component, in one run of TLC.  What *)
(* is not a set of a few values is given here, the rest in the             *)
(* configuration.                                                          *)
(***************************************************************************)
EXTENDS Services, TLC

CONSTANTS m1, m2, r1, r2

-----------------------------------------------------------------------------
(* The instances *)

Declared(direction, name, type) == [direction |-> direction, name |-> name, type |-> type]

Declarations ==
    {Declared("input", "analysis", "analysis"), Declared("input", "analysis", "snapshot"),
     Declared("input", "records", "records"), Declared("input", "dataset", "dataset"),
     Declared("output", "approved", "analysis"), Declared("output", "approved", "artifact"),
     Declared("output", "validation", "validation")}

\* Two runs parse the same files, and the first one's documents are extracted.
ParsedBy == [n \in {"extract"} |-> "parse"]

Str(text) == [kind |-> "string", v |-> text]
Bool(b) == [kind |-> "boolean", v |-> b]
Num(numeral) == [kind |-> "number", v |-> numeral]
List(seq) == [items |-> seq]

\* A product has an identity, is on offer or not, and has a weight.
Field(type, item, required) ==
    [type |-> type, item |-> item, required |-> required, refused |-> {}]
ProductSchema ==
    [sku |-> Field("string", "", TRUE), on |-> Field("boolean", "", TRUE),
     kg |-> Field("number", "", FALSE), name |-> Field("string", "", FALSE),
     tags |-> Field("array", "string", FALSE)]
ProductRules ==
    << [field |-> "on", op |-> "boolean_alias", to |-> ("yes" :> Bool("true") @@ "no" :> Bool("false"))],
       [field |-> "kg", op |-> "unit_scale", to |-> ("2 kg" :> Num("2") @@ "-0 kg" :> Num("-0"))],
       [field |-> "tags", op |-> "split", to |-> ("a,b" :> List(<<Str("a"), Str("b")>>))],
       [field |-> "name", op |-> "concat", from |-> <<"sku", "kg">>, separator |-> "/"] >>
ProductChecks ==
    {[field |-> "kg", op |-> "range", severity |-> "error", refused |-> {Num("-1")}],
     [field |-> "tags", op |-> "required", severity |-> "warning"]}
Trimmed ==
    [t \in {"A1", " A1", "B2", "yes", "no", "perhaps", "2 kg", "-0 kg", "a,b"} |->
        IF t = " A1" THEN "A1" ELSE t]
Parsed == <<"number", "2">> :> Num("2")
Expanded == [n \in {"2", "-1", "-0", "100"} |-> n]
Stored == [Expanded EXCEPT !["-0"] = "0"] @@ ("1e2" :> "100")

Product(sku, on, kg) == [sku |-> Str(sku), on |-> on, kg |-> kg]
Good == "tags" :> Str("a,b") @@ Product("A1", Str("yes"), Str("2 kg"))
SameIdentity == Product(" A1", Bool("true"), Num("2"))
NotABoolean == Product("B2", Str("perhaps"), Num("2"))
Negative == Product("B2", Str("no"), Num("-1"))
Exponent == Product("B2", Str("no"), Num("1e2"))
NegativeZero == Product("B2", Str("no"), Str("-0 kg"))

Drafted == {<<Good, SameIdentity>>, <<Exponent, NotABoolean>>, <<Good, Negative>>,
            <<Good, NegativeZero>>}
Entered == {Product("B2", Bool("true"), Num("2"))}
Elsewhere == {[sku |-> Str("B2")]}

\* Two builders on one dataset, bound to different positions of it.
Positions == [n \in {"first", "second"} |-> IF n = "first" THEN 1 ELSE 2]

ItemChunks == {<<1, 1>>, <<1, 2>>, <<2, 1>>, <<3, 1>>}
FusionWeights == {<<1, 0>>, <<0, 1>>, <<1, 1>>, <<3, 1>>}

ASSUME ServicesAssumption

-----------------------------------------------------------------------------
(* Histories that are left out *)

\* The second run parses once, after the first one has ended or while it runs.
\* Either the first one's parsing is executed twice, or the second run parses
\* and the extraction may be executed twice.
FewParses ==
    /\ fence["other"].attempt <= 1 /\ fence["other"].phase \in {"idle", "live"}
    /\ fence["parse"].attempt + fence["extract"].attempt <= 3
    /\ fence["other"].attempt = 1 => fence["parse"].attempt = 1

\* One of the three steps is executed twice, or the gate is cancelled.
FewExecutions ==
    /\ fence["transform"].attempt + fence["validate"].attempt + fence["publish"].attempt <= 4
    /\ part5 = "cancelled" => fence["transform"].attempt = 1 /\ fence["validate"].attempt = 1

\* Two executions overlap: of both builders, or of one that is taken over.
OneTakeover ==
    /\ fence["first"].attempt <= 1
    /\ fence["second"].attempt <= 1 \/ fence["first"].attempt = 0
         \/ call[<<"first", 1>>].pc \in {"stopped", "answered"}

\* One order is enough for the texts when the reranker decides.
OneRerank ==
    LET strategy == part1.strategy
    IN  strategy.rerank => strategy.weights = <<1, 1>> /\ part1.lexical = <<1, 2, 3>>

Bounded ==
    /\ focus = "documents" => FewParses
    /\ focus = "records" => FewExecutions
    /\ focus = "snapshots" => OneTakeover
    /\ focus = "search" => OneRerank

Symmetry == UNION {Permutations(set) : set \in {{m1, m2}, {r1, r2}}}
=============================================================================
