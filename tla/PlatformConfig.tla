--------------------------- MODULE PlatformConfig ---------------------------
(***************************************************************************)
(* The configurations of one external service (the language model, say) of *)
(* a workspace, of which at most one is in force; without one the file's   *)
(* configuration is.  Every call of the service asks which one is in force *)
(* (DynamicClient), so a switch takes effect at once.                      *)
(*                                                                         *)
(* Administrators' requests run in statements of READ COMMITTED            *)
(* transactions.  Activations take an advisory lock of their kind; updates *)
(* and deletions do not.  One unique index refuses a second active row,    *)
(* another one a second row of the same name.                              *)
(***************************************************************************)
EXTENDS Integers, FiniteSets

CONSTANTS
    Ids,          \* configurations that exist at some time
    ConfigNames,  \* names, as the index compares them
    Values,       \* settings, and secrets, that are valid
    None,         \* no value: a request without a secret, nobody
    Requests      \* administrators' requests

ConfigAssumption == IsFiniteSet(Ids) /\ None \notin Values \cup Ids \cup Requests

VARIABLES
    row,     \* platform_configs, committed
    holder,  \* the request that holds the advisory lock
    off,     \* rows that the holder's transaction has deactivated and locks
    request  \* what each request wants and how far it is

vars == <<row, holder, off, request>>

Configuration == [exists : BOOLEAN, active : BOOLEAN, name : ConfigNames \cup {None},
                  settings : Values \cup {None}, secret : Values \cup {None}]

Kinds == {"create", "create and activate", "update", "delete", "activate", "deactivate"}

\* name, settings, secret: what a creation or an update will write.  "taken":
\* refused by the index of the names; "refused": by that of the active rows.
Request == [kind : Kinds, id : Ids, name : ConfigNames, settings : Values, secret : Values \cup {None},
            pc : {"new", "checked", "locked", "deactivated", "answered", "failed", "taken",
                  "refused"}]

TypeOK ==
    /\ row \in [Ids -> Configuration] /\ holder \in Requests \cup {None}
    /\ off \subseteq Ids /\ request \in [Requests -> Request]

NoRow == [exists |-> FALSE, active |-> FALSE, name |-> None, settings |-> None, secret |-> None]
Row(active, name, settings, secret) ==
    [exists |-> TRUE, active |-> active, name |-> name, settings |-> settings, secret |-> secret]

\* Some configurations exist, of different names; one of them may be in force.
Init ==
    /\ row \in [Ids -> {NoRow} \cup
          {Row(active, n, v, w) : active \in BOOLEAN, n \in ConfigNames, v, w \in Values}]
    /\ \A i, j \in Ids :
          row[i].exists /\ row[j].exists /\ row[i].name = row[j].name => i = j
    /\ Cardinality({i \in Ids : row[i].active}) <= 1
    /\ holder = None
    /\ off = {}
    /\ \E i \in Ids, n \in ConfigNames, v \in Values :
          request = [r \in Requests |-> [kind |-> "create", id |-> i, name |-> n, settings |-> v,
                                         secret |-> None, pc |-> "new"]]

Active == {i \in Ids : row[i].active}

\* The configuration that Resolve decodes; None stands for the file's.
InForce == IF Active = {} THEN None ELSE CHOOSE i \in Active : TRUE

At(r, kinds, pc) == request[r].kind \in kinds /\ request[r].pc = pc
MoveTo(r, pc) == request' = [request EXCEPT ![r].pc = pc]

Switching == {"create and activate", "activate", "deactivate"}

\* The rows with the transaction's deactivations.
Deactivated == [i \in Ids |-> IF i \in off THEN [row[i] EXCEPT !.active = FALSE] ELSE row[i]]

-----------------------------------------------------------------------------
(* Service: what is checked before the transaction *)

\* A request arrives.  Update and Activate read the row, and Update keeps
\* the secret it read when none is entered; creating needs a secret.
Check(r, kind, i) ==
    /\ request[r].pc = "new"
    /\ kind \in {"update", "activate"} => row[i].exists
    /\ \E name \in ConfigNames, settings \in Values, secret \in Values \cup {None} :
          /\ kind \in {"create", "create and activate"} => secret # None
          /\ request' = [request EXCEPT ![r] =
               [kind |-> kind, id |-> i, name |-> name, settings |-> settings, pc |-> "checked",
                secret |-> IF kind = "update" /\ secret = None THEN row[i].secret ELSE secret]]
    /\ UNCHANGED <<row, holder, off>>

-----------------------------------------------------------------------------
(* Statements without the advisory lock; they wait for locked rows *)

Unlocked(i) == i \notin off

Created(r, active) == Row(active, request[r].name, request[r].settings, request[r].secret)

\* uq_platform_configs_name
NameTaken(r) ==
    \E i \in Ids \ {request[r].id} : row[i].exists /\ row[i].name = request[r].name

Create(r) ==
    LET i == request[r].id
    IN  /\ At(r, {"create"}, "checked")
        /\ ~ row[i].exists /\ ~ NameTaken(r)
        /\ row' = [row EXCEPT ![i] = Created(r, FALSE)]
        /\ MoveTo(r, "answered")
        /\ UNCHANGED <<holder, off>>

\* UpdatePlatformConfig: the whole row but for is_active.
Update(r) ==
    LET i == request[r].id
    IN  /\ At(r, {"update"}, "checked")
        /\ row[i].exists /\ Unlocked(i) /\ ~ NameTaken(r)
        /\ row' = [row EXCEPT ![i].name = request[r].name,
                              ![i].settings = request[r].settings,
                              ![i].secret = request[r].secret]
        /\ MoveTo(r, "answered")
        /\ UNCHANGED <<holder, off>>

Delete(r) ==
    LET i == request[r].id
    IN  /\ At(r, {"delete"}, "checked")
        /\ row[i].exists /\ Unlocked(i)
        /\ row' = [row EXCEPT ![i] = NoRow]
        /\ MoveTo(r, "answered")
        /\ UNCHANGED <<holder, off>>

-----------------------------------------------------------------------------
(* The switching transactions *)

\* Mutant: no advisory lock.
LockedByNobody(r) ==
    /\ At(r, Switching, "checked")
    /\ holder' = holder

\* lockPlatformConfigKind
Locks(r) ==
    /\ At(r, Switching, "checked")
    /\ holder = None
    /\ holder' = r

\* ActivatePlatformConfig counts the row under the lock.
Lock(r) ==
    /\ Locks(r)
    /\ request[r].kind = "activate" => row[request[r].id].exists
    /\ MoveTo(r, "locked")
    /\ UNCHANGED <<row, off>>

Deactivate(r) ==
    /\ At(r, Switching, "locked")
    /\ off' = off \cup Active
    /\ MoveTo(r, "deactivated")
    /\ UNCHANGED <<row, holder>>

Released(r) == holder' = IF holder = r THEN None ELSE holder

\* The last statement, with the commit: the row that was deleted after the
\* count is not activated, and nobody notices.
Commit(r) ==
    LET i == request[r].id
        rows == Deactivated
        switched == CASE request[r].kind = "create and activate" -> [rows EXCEPT ![i] = Created(r, TRUE)]
                      [] request[r].kind = "activate" -> [rows EXCEPT ![i].active = rows[i].exists]
                      [] request[r].kind = "deactivate" -> rows
        unique == Cardinality({j \in Ids : switched[j].active}) <= 1
    IN  /\ At(r, Switching, "deactivated")
        /\ request[r].kind = "create and activate" => ~ row[i].exists /\ ~ NameTaken(r)
        /\ row' = IF unique THEN switched ELSE row
        /\ MoveTo(r, IF unique THEN "answered" ELSE "refused")
        /\ off' = {}
        /\ Released(r)

RollBack(r, pc) ==
    /\ MoveTo(r, pc)
    /\ off' = IF At(r, Switching, "deactivated") THEN {} ELSE off
    /\ Released(r)
    /\ UNCHANGED row

\* The index of the names refuses the row that is inserted or updated.
Collide(r) ==
    LET i == request[r].id
    IN  /\ \/ At(r, {"create"}, "checked") /\ ~ row[i].exists
           \/ At(r, {"create and activate"}, "deactivated") /\ ~ row[i].exists
           \/ At(r, {"update"}, "checked") /\ row[i].exists /\ Unlocked(i)
        /\ NameTaken(r)
        /\ RollBack(r, "taken")

\* The connection or the process is lost.
Abort(r) ==
    /\ request[r].pc \in {"checked", "locked", "deactivated"}
    /\ RollBack(r, "failed")

Next == \E r \in Requests :
    \/ \E kind \in Kinds, i \in Ids : Check(r, kind, i)
    \/ Create(r) \/ Update(r) \/ Delete(r)
    \/ Lock(r) \/ Deactivate(r) \/ Commit(r) \/ Collide(r) \/ Abort(r)

Spec == Init /\ [][Next]_vars

-----------------------------------------------------------------------------
(* Properties *)

\* However requests overlap, the index of the active rows never has to refuse
\* a switch (a name that is taken may), and at most one configuration is in
\* force; what is in force is complete.
SwitchesAreSerial ==
    /\ \A r \in Requests : request[r].pc # "refused"
    /\ Cardinality(Active) <= 1
    /\ InForce # None => row[InForce].exists /\ row[InForce].secret # None
=============================================================================
