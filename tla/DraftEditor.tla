---------------------------- MODULE DraftEditor ----------------------------
(***************************************************************************)
(* The document of a draft: a chain of nodes, their connections, the ports *)
(* of the workflow and the rules, and the commands that edit it.           *)
(*                                                                         *)
(* Each command computes a next document, which is refused when validation *)
(* in draft mode reports an error.  An incomplete chain, an unconnected    *)
(* input or output and a missing rule are warnings in that mode and errors *)
(* only on publication.  The revision and the acceptance cases, which      *)
(* every command touches, are in DraftPublication.  Names, labels and       *)
(* configurations are left out, and so are the decisions about the rules:  *)
(* no command adds one.                                                    *)
(***************************************************************************)
EXTENDS Integers, FiniteSets

CONSTANTS
    NodeIds,
    Kinds,      \* capabilities in use
    PortNames,  \* names of workflow ports
    Declarable, \* the port declarations clients send: direction, name and type
    Fields,     \* fields of a data contract
    None

VARIABLE doc

-----------------------------------------------------------------------------
(* Capabilities *)

Port(name, type) == [name |-> name, type |-> type]

Capability(in, out, sides) == [in |-> in, out |-> out, sides |-> sides]

\* BuiltinCatalog.  Delivery outputs are left out: no command connects one.
\* No port takes several connections and every input is required.
Builtin ==
  [kind \in {"parse", "extract", "transform", "validate", "review", "publish",
             "retrieval", "analyze", "approve", "render"} |->
    CASE kind = "parse" -> Capability(Port("assets", "assets"), Port("documents", "documents"), {})
      [] kind = "extract" -> Capability(Port("documents", "documents"), Port("drafts", "drafts"), {})
      [] kind = "transform" -> Capability(Port("drafts", "drafts"), Port("records", "records"), {})
      [] kind = "validate" -> Capability(Port("records", "records"), Port("validation", "validation"),
                                         {Port("dataset", "dataset")})
      [] kind = "review" -> Capability(Port("validation", "validation"), Port("approved", "approved"), {})
      [] kind = "publish" -> Capability(Port("approved", "approved"), Port("dataset", "boundary"), {})
      [] kind = "retrieval" -> Capability(Port("dataset", "boundary"), Port("snapshot", "snapshot"), {})
      [] kind = "analyze" -> Capability(Port("knowledge", "snapshot"), Port("analysis", "analysis"), {})
      [] kind = "approve" -> Capability(Port("analysis", "analysis"), Port("approved", "analysis"), {})
      [] kind = "render" -> Capability(Port("analysis", "analysis"), Port("artifact", "artifact"), {})]

In(kind) == Builtin[kind].in
Out(kind) == Builtin[kind].out
Sides(kind) == Builtin[kind].sides
InputPorts(kind) == {In(kind)} \cup Sides(kind)

Types == UNION {{p.type : p \in InputPorts(k) \cup {Out(k)}} : k \in Kinds}

EditorAssumption ==
    /\ Kinds \subseteq DOMAIN Builtin
    /\ \A p \in Declarable : p.name \in PortNames /\ p.type \in Types
    /\ None \notin Kinds \cup Types \cup NodeIds

-----------------------------------------------------------------------------
(* The document *)

\* Endpoints: a port of the workflow, or a port of a node.
Outer(port) == <<None, port>>
Inner(n, port) == <<n, port>>

Blank == [node |-> [n \in NodeIds |-> None], conns |-> {},
          in |-> [p \in PortNames |-> None], out |-> [p \in PortNames |-> None],
          contract |-> None, search |-> None]

NodesOf(d) == {n \in NodeIds : d.node[n] # None}

\* Connections between nodes; others begin or end at a port of the workflow.
Edges(d) == {c \in d.conns : c.from[1] # None /\ c.to[1] # None}

SourceType(d, e) ==
    IF e[1] = None THEN IF e[2] \in PortNames THEN d.in[e[2]] ELSE None
    ELSE IF d.node[e[1]] # None /\ Out(d.node[e[1]]).name = e[2] THEN Out(d.node[e[1]]).type
    ELSE None

TargetType(d, e) ==
    IF e[1] = None THEN IF e[2] \in PortNames THEN d.out[e[2]] ELSE None
    ELSE IF d.node[e[1]] = None THEN None
    ELSE LET ports == {p \in InputPorts(d.node[e[1]]) : p.name = e[2]}
         IN  IF ports = {} THEN None ELSE (CHOOSE p \in ports : TRUE).type

\* validateConnections: what is an error in draft mode.
ConnectionsValid(d) ==
    /\ \A c \in d.conns : SourceType(d, c.from) # None /\ SourceType(d, c.from) = TargetType(d, c.to)
    /\ \A c, e \in d.conns : c.to = e.to => c = e
    /\ \A c, e \in Edges(d) : c.from[1] = e.from[1] => c.to[1] = e.to[1]
    /\ \A c \in Edges(d) :
          /\ c.from[1] # c.to[1]
          /\ c.to[2] = In(d.node[c.to[1]]).name

\* validateRules: the rules name fields of the data contract only.
RulesValid(d) ==
    d.search # None => d.search \subseteq (IF d.contract = None THEN {} ELSE d.contract)

Valid(d) == ConnectionsValid(d) /\ RulesValid(d)

\* The command's result replaces the document unless validation refuses it.
Accept(d) == Valid(d) /\ doc' = d

-----------------------------------------------------------------------------
(* Commands on the chain *)

Link(from, to) == [from |-> from, to |-> to]

\* bindRequiredSideInputs, with the workflow input chosen for each port.
SideLinks(n, kind, bind) ==
    {Link(Outer(bind[p.name]), Inner(n, p.name)) : p \in Sides(kind)}

Bindings(kind) == [{p.name : p \in Sides(kind)} -> PortNames]

\* The workflow ports have the names of the capability's ports.
CreateFromBlank(n, kind, bind) ==
    LET in == In(kind)
        out == Out(kind)
    IN  /\ NodesOf(doc) = {}
        /\ doc.conns = {}
        /\ Accept([doc EXCEPT !.node[n] = kind,
             !.conns = {Link(Outer(in.name), Inner(n, in.name)), Link(Inner(n, out.name), Outer(out.name))}
                       \cup SideLinks(n, kind, bind)])

InsertBetween(c, n, kind, bind) ==
    /\ c \in Edges(doc)
    /\ doc.node[n] = None
    /\ SourceType(doc, c.from) = In(kind).type
    /\ Out(kind).type = TargetType(doc, c.to)
    /\ Accept([doc EXCEPT !.node[n] = kind,
         !.conns = (@ \ {c}) \cup {Link(c.from, Inner(n, In(kind).name)), Link(Inner(n, Out(kind).name), c.to)}
                   \cup SideLinks(n, kind, bind)])

\* A mutant of Bridge: the two ends are left unconnected.
NoBridge(before, after) == {}

Bridge(before, after) == {Link(before.from, after.to)}

\* A node that is followed by another one; the first one, too.
RemoveAndBridge(n) ==
    /\ Cardinality(NodesOf(doc)) > 1
    /\ doc.node[n] # None
    /\ ~ \E c \in doc.conns : c.from[1] = n /\ c.to[1] = None
    /\ \E before, after \in doc.conns :
          /\ before.to = Inner(n, In(doc.node[n]).name)
          /\ after.from = Inner(n, Out(doc.node[n]).name)
          /\ SourceType(doc, before.from) = TargetType(doc, after.to)
          /\ Accept([doc EXCEPT !.node[n] = None,
               !.conns = {c \in @ : c.from[1] # n /\ c.to[1] # n} \cup Bridge(before, after)])

\* Behind the last node: the workflow outputs move to the new node and take
\* its type.
AppendAfter(last, n, kind, bind) ==
    LET from == Inner(last, Out(doc.node[last]).name)
        moved == {c \in doc.conns : c.from = from /\ c.to[1] = None}
    IN  /\ doc.node[last] # None
        /\ doc.node[n] = None
        /\ Out(doc.node[last]).type = In(kind).type
        /\ ~ \E c \in Edges(doc) : c.from = from
        /\ moved # {}
        /\ Accept([doc EXCEPT !.node[n] = kind,
             !.out = [p \in PortNames |-> IF \E c \in moved : c.to = Outer(p) THEN Out(kind).type ELSE doc.out[p]],
             !.conns = (@ \ moved) \cup {Link(Inner(n, Out(kind).name), c.to) : c \in moved}
                       \cup {Link(from, Inner(n, In(kind).name))} \cup SideLinks(n, kind, bind)])

\* Before the first node: its workflow input moves to the new node and takes
\* its type.
PrependBefore(first, n, kind, bind) ==
    LET to == Inner(first, In(doc.node[first]).name)
    IN  /\ doc.node[first] # None
        /\ doc.node[n] = None
        /\ Out(kind).type = In(doc.node[first]).type
        /\ \E c \in doc.conns :
              /\ c.to = to
              /\ c.from[1] = None
              /\ Accept([doc EXCEPT !.node[n] = kind,
                   !.in[c.from[2]] = In(kind).type,
                   !.conns = (@ \ {c}) \cup {Link(c.from, Inner(n, In(kind).name)),
                                             Link(Inner(n, Out(kind).name), to)}
                             \cup SideLinks(n, kind, bind)])

\* The connections move to ports of the same type and role, side inputs as
\* the map says; two of them on one port are refused by the validation.
ReplaceNode(n, kind, map) ==
    LET old == doc.node[n]
        Moved(c) ==
            [from |-> IF c.from[1] = n THEN Inner(n, Out(kind).name) ELSE c.from,
             to |-> IF c.to[1] # n THEN c.to
                    ELSE IF c.to[2] = In(old).name THEN Inner(n, In(kind).name)
                    ELSE Inner(n, map[c.to[2]])]
        moved == {Moved(c) : c \in doc.conns}
    IN  /\ In(old).type = In(kind).type
        /\ Out(old).type = Out(kind).type
        /\ \A s \in Sides(old) : Port(map[s.name], s.type) \in Sides(kind)
        /\ \A p \in InputPorts(kind) : \E c \in moved : c.to = Inner(n, p.name)
        /\ Cardinality(moved) = Cardinality(doc.conns)
        /\ Accept([doc EXCEPT !.node[n] = kind, !.conns = moved])

BindSideInput(n, port, input) ==
    /\ doc.node[n] # None
    /\ \E s \in Sides(doc.node[n]) : s.name = port /\ SourceType(doc, Outer(input)) = s.type
    /\ Accept([doc EXCEPT
         !.conns = {c \in @ : c.to # Inner(n, port)} \cup {Link(Outer(input), Inner(n, port))}])

-----------------------------------------------------------------------------
(* Ports and rules *)

SetWorkflowPort(direction, name, type) ==
    Accept(IF direction = "input" THEN [doc EXCEPT !.in[name] = type]
           ELSE [doc EXCEPT !.out[name] = type])

SetDataContract(fields) == Accept([doc EXCEPT !.contract = fields])

SetSearchSpec(fields) == Accept([doc EXCEPT !.search = fields])

Init == doc = Blank

Next ==
    \/ \E n \in NodeIds, kind \in Kinds : \E bind \in Bindings(kind) :
          \/ CreateFromBlank(n, kind, bind)
          \/ \E c \in doc.conns : InsertBetween(c, n, kind, bind)
          \/ \E m \in NodeIds : AppendAfter(m, n, kind, bind) \/ PrependBefore(m, n, kind, bind)
    \/ \E n \in NodeIds : RemoveAndBridge(n)
    \/ \E n \in NodesOf(doc), kind \in Kinds :
          \E map \in [{s.name : s \in Sides(doc.node[n])} -> {s.name : s \in Sides(kind)}] :
              ReplaceNode(n, kind, map)
    \/ \E n \in NodeIds, input \in PortNames, port \in PortNames : BindSideInput(n, port, input)
    \/ \E p \in Declarable : SetWorkflowPort(p.direction, p.name, p.type)
    \/ \E fields \in SUBSET Fields : SetDataContract(fields) \/ SetSearchSpec(fields)

Spec == Init /\ [][Next]_doc

-----------------------------------------------------------------------------
(* Properties *)

Heads(d) == {n \in NodesOf(d) : ~ \E c \in Edges(d) : c.to[1] = n}

\* The nodes LinearOrder has visited after k steps from the only head.
Walk(d) ==
    LET walk[k \in 0..Cardinality(NodesOf(d))] ==
          IF k = 0 THEN Heads(d)
          ELSE walk[k - 1] \cup {c.to[1] : c \in {e \in Edges(d) : e.from[1] \in walk[k - 1]}}
    IN  walk[Cardinality(NodesOf(d))]

\* LinearOrder succeeds.
HasLinearOrder(d) ==
    /\ NodesOf(d) # {}
    /\ Cardinality(Edges(d)) = Cardinality(NodesOf(d)) - 1
    /\ Cardinality(Heads(d)) = 1
    /\ Walk(d) = NodesOf(d)

\* Whatever commands are accepted, in whatever order, a draft that has a node
\* is one chain over all its nodes from a workflow input to a workflow output
\* with every input of a node connected: a draft is never stuck half-edited,
\* although validation in draft mode reports all of this as warnings only.
EditsKeepTheChain ==
    NodesOf(doc) # {} =>
        /\ HasLinearOrder(doc)
        /\ \E c \in doc.conns : c.from[1] = None /\ c.to[1] \in Heads(doc)
        /\ \E c \in doc.conns :
              c.to[1] = None /\ ~ \E e \in Edges(doc) : e.from[1] = c.from[1]
        /\ \A n \in NodesOf(doc) : \A p \in InputPorts(doc.node[n]) :
              \E c \in doc.conns : c.to = Inner(n, p.name)

=============================================================================
