--------------------------- MODULE ServicesProofs ---------------------------
(***************************************************************************)
(* Proofs about Services, for any values of the components' constants.     *)
(*                                                                         *)
(* The steps of the components that have a module of proofs are proved     *)
(* there, and cited here of their instances.  The draft editor, the        *)
(* platform configurations and the extraction agent are proved here:       *)
(* whatever commands are accepted, a draft is one chain; however switches, *)
(* updates and deletions overlap, at most one configuration is in force    *)
(* and it is complete; and whatever calls a model makes, a unit's records  *)
(* are stored only when the agent has read and ended the unit.             *)
(***************************************************************************)
EXTENDS Services, FiniteSetTheorems, TLAPS

-----------------------------------------------------------------------------
(* The platform configurations: the inductive invariant.                   *)

\* At most one configuration is in force, committed.
OneActive == \A i, j \in Ids : row[i].active /\ row[j].active => i = j

\* A configuration that exists has its secret, and only such are in force.
RowsAreComplete ==
    \A i \in Ids : /\ row[i].active => row[i].exists
                   /\ row[i].exists => row[i].secret # None

\* What a request is going to write has a secret.
WritesAreComplete ==
    \A r \in Requests :
        request[r].pc \in {"checked", "locked", "deactivated"}
            /\ request[r].kind \in {"create", "create and activate", "update"}
        => request[r].secret # None

\* A switch under way holds the lock.
SwitchIsAlone ==
    \A r \in Requests :
        request[r].pc \in {"locked", "deactivated"} =>
            request[r].kind \in Platform!Switching /\ holder = r

\* From its first statement to its commit, a switch has a lock on every row
\* that is in force: none is put in force besides, and none is locked else.
SwitchCoversActive ==
    /\ \A r \in Requests : request[r].pc = "deactivated" => Platform!Active \subseteq off
    /\ (\A r \in Requests : request[r].pc # "deactivated") => off = {}

NoneRefused == \A r \in Requests : request[r].pc # "refused"

PlatformInv ==
    /\ Platform!TypeOK
    /\ OneActive /\ RowsAreComplete /\ WritesAreComplete
    /\ SwitchIsAlone /\ SwitchCoversActive /\ NoneRefused

-----------------------------------------------------------------------------
(* Sets with at most one element.                                          *)

\* The components' instances of FiniteSets are FiniteSets.
LEMMA SameFiniteSets ==
    ASSUME NEW S
    PROVE  /\ Platform!IsFiniteSet(S) <=> IsFiniteSet(S)
           /\ Platform!Cardinality(S) = Cardinality(S)
           /\ Agent!IsFiniteSet(S) <=> IsFiniteSet(S)
           /\ Agent!Cardinality(S) = Cardinality(S)
           /\ Editor!Cardinality(S) = Cardinality(S)
  <1>1. /\ Platform!IsFiniteSet(S) <=> IsFiniteSet(S)
        /\ Agent!IsFiniteSet(S) <=> IsFiniteSet(S)
    BY DEF Platform!IsFiniteSet, Agent!IsFiniteSet, IsFiniteSet
  <1>2. Platform!Cardinality(S) = Cardinality(S)
    BY DEF Platform!Cardinality, Cardinality
  <1>3. Agent!Cardinality(S) = Cardinality(S)
    BY DEF Agent!Cardinality, Cardinality
  <1>4. Editor!Cardinality(S) = Cardinality(S)
    BY DEF Editor!Cardinality, Cardinality
  <1>5. QED
    BY <1>1, <1>2, <1>3, <1>4

\* A finite set has at most one element exactly if its cardinality says so.
LEMMA AtMostOne ==
    ASSUME NEW S, IsFiniteSet(S)
    PROVE  Cardinality(S) <= 1 <=> \A a, b \in S : a = b
  <1>1. Cardinality(S) \in Nat
    BY FS_CardinalityType
  <1>2. CASE S = {}
    BY <1>2, FS_EmptySet
  <1>3. CASE S # {}
    <2>1. PICK a \in S : TRUE
      BY <1>3
    <2>2. ASSUME \A b, c \in S : b = c
          PROVE  Cardinality(S) <= 1
      <3>1. S = {a}
        BY <2>1, <2>2
      <3>2. QED
        BY <3>1, FS_Singleton
    <2>3. ASSUME Cardinality(S) <= 1
          PROVE  \A b, c \in S : b = c
      <3>1. Cardinality(S) # 0
        BY <1>3, FS_EmptySet
      <3>2. Cardinality(S) = 1
        BY <1>1, <2>3, <3>1
      <3>3. \E x : S = {x}
        BY <3>2, FS_Singleton
      <3>4. QED
        BY <3>3
    <2>4. QED
      BY <2>2, <2>3
  <1>4. QED
    BY <1>2, <1>3

-----------------------------------------------------------------------------
(* What the steps do to a request.                                         *)

\* A request goes on with what it wants.
LEMMA MoveEffect ==
    ASSUME Platform!TypeOK, NEW r \in Requests,
           NEW pc \in {"locked", "deactivated", "answered", "failed", "taken", "refused"},
           Platform!MoveTo(r, pc)
    PROVE  /\ request' \in [Requests -> Platform!Request]
           /\ request'[r].pc = pc /\ request'[r].kind = request[r].kind
           /\ request'[r].secret = request[r].secret
           /\ \A q \in Requests : q # r => request'[q] = request[q]
  <1>1. PICK new : new = [request[r] EXCEPT !.pc = pc]
    OBVIOUS
  <1>2. request \in [Requests -> Platform!Request] /\ request[r] \in Platform!Request
    BY DEF Platform!TypeOK
  <1>3. /\ new \in Platform!Request /\ new.pc = pc /\ new.kind = request[r].kind
        /\ new.secret = request[r].secret
    BY <1>1, <1>2 DEF Platform!Request
  <1>4. request' = [request EXCEPT ![r] = new]
    BY <1>1 DEF Platform!MoveTo
  <1>5. QED
    BY <1>2, <1>3, <1>4

\* One row is written.
LEMMA RowEffect ==
    ASSUME Platform!TypeOK, NEW i \in Ids, NEW new \in Platform!Configuration,
           row' = [row EXCEPT ![i] = new]
    PROVE  /\ row' \in [Ids -> Platform!Configuration] /\ row'[i] = new
           /\ \A j \in Ids : j # i => row'[j] = row[j]
  BY DEF Platform!TypeOK

\* A request of one statement is over, and has put nothing in force.
LEMMA WriteEnds ==
    ASSUME Platform!ConfigAssumption, PlatformInv, NEW r \in Requests, NEW i \in Ids,
           NEW new \in Platform!Configuration,
           row' = [row EXCEPT ![i] = new], UNCHANGED <<holder, off>>,
           request[r].pc = "checked", Platform!MoveTo(r, "answered"),
           new.active => row[i].active,
           new.active => new.exists, new.exists => new.secret # None
    PROVE  PlatformInv'
  <1>1. /\ request' \in [Requests -> Platform!Request] /\ request'[r].pc = "answered"
        /\ \A q \in Requests : q # r => request'[q] = request[q]
    BY MoveEffect DEF PlatformInv
  <1>2. /\ row' \in [Ids -> Platform!Configuration] /\ row'[i] = new
        /\ \A j \in Ids : j # i => row'[j] = row[j]
    BY RowEffect DEF PlatformInv
  <1>3. Platform!TypeOK'
    BY <1>1, <1>2 DEF PlatformInv, Platform!TypeOK
  <1>4. \A j \in Ids : row'[j].active => row[j].active
    BY <1>2
  <1>5. OneActive' /\ RowsAreComplete'
    BY <1>2, <1>4 DEF PlatformInv, OneActive, RowsAreComplete
  <1>6. WritesAreComplete' /\ SwitchIsAlone' /\ NoneRefused'
    BY <1>1 DEF PlatformInv, WritesAreComplete, SwitchIsAlone, NoneRefused
  <1>7. SwitchCoversActive'
    <2>1. \A q \in Requests : request'[q].pc = "deactivated" <=> request[q].pc = "deactivated"
      BY <1>1
    <2>2. QED
      BY <1>4, <2>1 DEF PlatformInv, SwitchCoversActive, Platform!Active
  <1>8. QED
    BY <1>3, <1>5, <1>6, <1>7 DEF PlatformInv

\* Creations, updates and deletions, which take no lock.
LEMMA WriteStep ==
    ASSUME Platform!ConfigAssumption, PlatformInv, NEW r \in Requests,
           Platform!Create(r) \/ Platform!Update(r) \/ Platform!Delete(r)
    PROVE  PlatformInv'
  <1>1. PICK i : i = request[r].id
    OBVIOUS
  <1>2. /\ i \in Ids /\ row[i] \in Platform!Configuration /\ request[r] \in Platform!Request
        /\ request[r].pc = "checked" /\ Platform!MoveTo(r, "answered")
        /\ UNCHANGED <<holder, off>>
    BY <1>1 DEF Platform!Create, Platform!Update, Platform!Delete, Platform!At, PlatformInv,
       Platform!TypeOK, Platform!Request
  <1>3. /\ request[r].settings \in Values \cup {None} /\ request[r].secret \in Values \cup {None}
        /\ request[r].name \in ConfigNames
    BY <1>2 DEF Platform!Request
  <1>4. CASE Platform!Create(r)
    <2>1. PICK new :
            new = Platform!Row(FALSE, request[r].name, request[r].settings, request[r].secret)
      OBVIOUS
    <2>2. /\ new \in Platform!Configuration /\ ~ new.active /\ new.secret = request[r].secret
      BY <1>3, <2>1 DEF Platform!Row, Platform!Configuration
    <2>3. row' = [row EXCEPT ![i] = new]
      BY <1>1, <1>4, <2>1 DEF Platform!Create, Platform!Created
    <2>4. request[r].secret # None
      BY <1>4 DEF Platform!Create, Platform!At, PlatformInv, WritesAreComplete
    <2>5. QED
      BY <1>2, <2>2, <2>3, <2>4, WriteEnds
  <1>5. CASE Platform!Update(r)
    <2>1. PICK new : new = [row[i] EXCEPT !.name = request[r].name,
                                          !.settings = request[r].settings,
                                          !.secret = request[r].secret]
      OBVIOUS
    <2>2. /\ new \in Platform!Configuration /\ new.active = row[i].active
               /\ new.exists = row[i].exists
          /\ new.secret = request[r].secret
      BY <1>2, <1>3, <2>1 DEF Platform!Configuration
    <2>3. row' = [row EXCEPT ![i] = new]
      BY <1>1, <1>5, <2>1 DEF Platform!Update
    <2>4. request[r].secret # None /\ row[i].exists
      BY <1>1, <1>5 DEF Platform!Update, Platform!At, PlatformInv, WritesAreComplete
    <2>5. QED
      BY <1>2, <2>2, <2>3, <2>4, WriteEnds
  <1>6. CASE Platform!Delete(r)
    <2>1. Platform!NoRow \in Platform!Configuration /\ ~ Platform!NoRow.active
            /\ ~ Platform!NoRow.exists
      BY DEF Platform!NoRow, Platform!Configuration
    <2>2. row' = [row EXCEPT ![i] = Platform!NoRow]
      BY <1>1, <1>6 DEF Platform!Delete
    <2>3. QED
      BY <1>2, <2>1, <2>2, WriteEnds
  <1>7. QED
    BY <1>4, <1>5, <1>6

\* A request arrives; an update keeps the secret of a row that has one.
LEMMA CheckStep ==
    ASSUME Platform!ConfigAssumption, PlatformInv, NEW r \in Requests,
           NEW kind \in Platform!Kinds, NEW i \in Ids,
           Platform!Check(r, kind, i)
    PROVE  PlatformInv'
  <1>1. /\ request[r].pc = "new" /\ UNCHANGED <<row, holder, off>>
        /\ kind = "update" => row[i].exists
        /\ request \in [Requests -> Platform!Request] /\ row[i] \in Platform!Configuration
    BY DEF Platform!Check, PlatformInv, Platform!TypeOK
  <1>2. PICK name \in ConfigNames, settings \in Values, secret \in Values \cup {None} :
          /\ kind \in {"create", "create and activate"} => secret # None
          /\ request' = [request EXCEPT ![r] =
               [kind |-> kind, id |-> i, name |-> name, settings |-> settings, pc |-> "checked",
                secret |-> IF kind = "update" /\ secret = None THEN row[i].secret ELSE secret]]
    BY DEF Platform!Check
  <1>3. PICK new :
          new = [kind |-> kind, id |-> i, name |-> name, settings |-> settings, pc |-> "checked",
                 secret |-> IF kind = "update" /\ secret = None THEN row[i].secret ELSE secret]
    OBVIOUS
  <1>4. new \in Platform!Request /\ new.pc = "checked" /\ new.kind = kind
    BY <1>1, <1>3 DEF Platform!Request, Platform!Configuration
  <1>5. kind \in {"create", "create and activate", "update"} => new.secret # None
    <2>1. kind = "update" => row[i].secret # None
      BY <1>1 DEF PlatformInv, RowsAreComplete
    <2>2. QED
      BY <1>2, <1>3, <2>1
  <1>6. /\ request' \in [Requests -> Platform!Request] /\ request'[r] = new
        /\ \A q \in Requests : q # r => request'[q] = request[q]
    BY <1>1, <1>2, <1>3, <1>4
  <1>7. Platform!TypeOK' /\ OneActive' /\ RowsAreComplete'
    BY <1>1, <1>6 DEF PlatformInv, Platform!TypeOK, OneActive, RowsAreComplete
  <1>8. WritesAreComplete' /\ SwitchIsAlone' /\ NoneRefused'
    BY <1>1, <1>4, <1>5, <1>6 DEF PlatformInv, WritesAreComplete, SwitchIsAlone, NoneRefused
  <1>9. SwitchCoversActive'
    BY <1>1, <1>4, <1>6 DEF PlatformInv, SwitchCoversActive, Platform!Active
  <1>10. QED
    BY <1>7, <1>8, <1>9 DEF PlatformInv

\* A switch takes the lock, and locks the rows that are in force.
LEMMA SwitchStep ==
    ASSUME Platform!ConfigAssumption, PlatformInv, NEW r \in Requests,
           Platform!Lock(r) \/ Platform!Deactivate(r)
    PROVE  PlatformInv'
  <1>1. PICK pc \in {"locked", "deactivated"} :
          /\ Platform!MoveTo(r, pc) /\ UNCHANGED row /\ holder' = r
          /\ request[r].kind \in Platform!Switching
          /\ pc = "locked" => holder = None /\ request[r].pc = "checked" /\ off' = off
          /\ pc = "deactivated" => holder = r /\ request[r].pc = "locked"
               /\ off' = off \cup Platform!Active
    BY DEF Platform!Lock, Platform!Locks, Platform!Deactivate, Platform!At, PlatformInv,
       SwitchIsAlone
  <1>2. /\ request' \in [Requests -> Platform!Request] /\ request'[r].pc = pc
        /\ request'[r].kind = request[r].kind /\ request'[r].secret = request[r].secret
        /\ \A q \in Requests : q # r => request'[q] = request[q]
    BY <1>1, MoveEffect DEF PlatformInv
  <1>3. \A q \in Requests : q # r => request[q].pc \notin {"locked", "deactivated"}
    BY <1>1 DEF PlatformInv, SwitchIsAlone, Platform!ConfigAssumption
  <1>4. Platform!Active \subseteq Ids /\ Platform!Active' = Platform!Active
    BY <1>1 DEF Platform!Active
  <1>5. Platform!TypeOK' /\ OneActive' /\ RowsAreComplete'
    BY <1>1, <1>2, <1>4 DEF PlatformInv, Platform!TypeOK, OneActive, RowsAreComplete
  <1>6. WritesAreComplete' /\ NoneRefused'
    BY <1>1, <1>2 DEF PlatformInv, WritesAreComplete, NoneRefused
  <1>7. SwitchIsAlone'
    BY <1>1, <1>2, <1>3 DEF SwitchIsAlone
  <1>8. SwitchCoversActive'
    <2>1. pc = "locked" => off' = {}
      BY <1>1, <1>3 DEF PlatformInv, SwitchCoversActive
    <2>2. pc = "deactivated" => Platform!Active \subseteq off'
      BY <1>1
    <2>3. \A q \in Requests : request'[q].pc = "deactivated" => q = r /\ pc = "deactivated"
      BY <1>2, <1>3
    <2>4. pc = "deactivated" => request'[r].pc = "deactivated"
      BY <1>2
    <2>5. QED
      BY <1>1, <1>4, <2>1, <2>2, <2>3, <2>4 DEF SwitchCoversActive
  <1>9. QED
    BY <1>5, <1>6, <1>7, <1>8 DEF PlatformInv

\* A request ends, and with it the transaction that it has perhaps begun.
LEMMA RequestEnds ==
    ASSUME Platform!ConfigAssumption, PlatformInv, NEW r \in Requests,
           NEW pc \in {"answered", "failed", "taken"},
           Platform!MoveTo(r, pc), Platform!Released(r),
           off' = IF request[r].pc = "deactivated" THEN {} ELSE off,
           row' \in [Ids -> Platform!Configuration], OneActive', RowsAreComplete',
           request[r].pc = "deactivated" \/ row' = row
    PROVE  PlatformInv'
  <1>1. /\ request' \in [Requests -> Platform!Request] /\ request'[r].pc = pc
        /\ \A q \in Requests : q # r => request'[q] = request[q]
    BY MoveEffect DEF PlatformInv
  <1>2. /\ holder' \in Requests \cup {None}
        /\ \A q \in Requests : q # r /\ holder = q => holder' = q
    BY DEF Platform!Released, PlatformInv, Platform!TypeOK
  <1>3. Platform!TypeOK'
    BY <1>1, <1>2 DEF PlatformInv, Platform!TypeOK
  <1>4. WritesAreComplete' /\ SwitchIsAlone' /\ NoneRefused'
    BY <1>1, <1>2 DEF PlatformInv, WritesAreComplete, SwitchIsAlone, NoneRefused
  <1>5. SwitchCoversActive'
    <2>1. CASE request[r].pc = "deactivated"
      <3>1. \A q \in Requests : q # r => request[q].pc # "deactivated"
        BY <2>1 DEF PlatformInv, SwitchIsAlone
      <3>2. off' = {} /\ \A q \in Requests : request'[q].pc # "deactivated"
        BY <1>1, <2>1, <3>1
      <3>3. QED
        BY <3>2 DEF SwitchCoversActive
    <2>2. CASE request[r].pc # "deactivated"
      <3>1. \A q \in Requests : request'[q].pc = "deactivated" <=> request[q].pc = "deactivated"
        BY <1>1, <2>2
      <3>2. Platform!Active' = Platform!Active /\ off' = off
        BY <2>2 DEF Platform!Active
      <3>3. QED
        BY <3>1, <3>2 DEF PlatformInv, SwitchCoversActive
    <2>3. QED
      BY <2>1, <2>2
  <1>6. QED
    BY <1>3, <1>4, <1>5 DEF PlatformInv

\* A transaction is rolled back: its name is taken, or the connection is lost.
LEMMA AbortStep ==
    ASSUME Platform!ConfigAssumption, PlatformInv, NEW r \in Requests,
           Platform!Abort(r) \/ Platform!Collide(r)
    PROVE  PlatformInv'
  <1>1. PICK pc \in {"failed", "taken"} :
        /\ Platform!MoveTo(r, pc) /\ Platform!Released(r) /\ row' = row
        /\ off' = IF request[r].pc = "deactivated" THEN {} ELSE off
    BY DEF Platform!Abort, Platform!Collide, Platform!RollBack, Platform!At, PlatformInv,
       SwitchIsAlone
  <1>2. row' \in [Ids -> Platform!Configuration] /\ OneActive' /\ RowsAreComplete'
    BY <1>1 DEF PlatformInv, Platform!TypeOK, OneActive, RowsAreComplete
  <1>3. QED
    BY <1>1, <1>2, RequestEnds

\* A switch commits, and the unique index has nothing to refuse.
LEMMA CommitStep ==
    ASSUME Platform!ConfigAssumption, PlatformInv, NEW r \in Requests, Platform!Commit(r)
    PROVE  PlatformInv'
  <1>1. PICK i, rows, switched :
          /\ i = request[r].id /\ rows = Platform!Deactivated
          /\ switched = CASE request[r].kind = "create and activate" ->
                               [rows EXCEPT ![i] = Platform!Created(r, TRUE)]
                          [] request[r].kind = "activate" ->
                               [rows EXCEPT ![i].active = rows[i].exists]
                          [] request[r].kind = "deactivate" -> rows
    OBVIOUS
  <1>2. /\ request[r].pc = "deactivated" /\ request[r].kind \in Platform!Switching
        /\ i \in Ids /\ request[r] \in Platform!Request /\ Platform!Active \subseteq off
        /\ row \in [Ids -> Platform!Configuration]
    BY <1>1 DEF Platform!Commit, Platform!At, PlatformInv, Platform!TypeOK, Platform!Request,
       SwitchCoversActive
  <1>3. /\ rows \in [Ids -> Platform!Configuration]
        /\ \A j \in Ids : /\ ~ rows[j].active
                          /\ rows[j].exists = row[j].exists /\ rows[j].secret = row[j].secret
    <2>1. \A j \in Ids : rows[j] = IF j \in off THEN [row[j] EXCEPT !.active = FALSE] ELSE row[j]
      BY <1>1 DEF Platform!Deactivated
    <2>2. rows = [j \in Ids |-> rows[j]]
      BY <1>1 DEF Platform!Deactivated
    <2>3. ASSUME NEW j \in Ids
          PROVE  /\ rows[j] \in Platform!Configuration /\ ~ rows[j].active
                 /\ rows[j].exists = row[j].exists /\ rows[j].secret = row[j].secret
      <3>1. row[j] \in Platform!Configuration /\ (row[j].active => j \in off)
        BY <1>2 DEF Platform!Active
      <3>2. CASE j \in off
        <4>1. rows[j] = [row[j] EXCEPT !.active = FALSE]
          BY <2>1, <3>2
        <4>2. QED
          BY <3>1, <4>1 DEF Platform!Configuration
      <3>3. CASE j \notin off
        BY <2>1, <3>1, <3>3
      <3>4. QED
        BY <3>2, <3>3
    <2>4. QED
      BY <2>2, <2>3
  <1>4. /\ switched \in [Ids -> Platform!Configuration]
        /\ \A j \in Ids : /\ switched[j].active => j = i
                          /\ switched[j].active => switched[j].exists
                          /\ switched[j].exists => switched[j].secret # None
    <2>1. \A j \in Ids : rows[j].exists => rows[j].secret # None
      BY <1>3 DEF PlatformInv, RowsAreComplete
    <2>2. CASE request[r].kind = "create and activate"
      <3>1. PICK new :
              new = Platform!Row(TRUE, request[r].name, request[r].settings, request[r].secret)
        OBVIOUS
      <3>2. request[r].secret # None
        BY <1>2, <2>2 DEF PlatformInv, WritesAreComplete
      <3>3. new \in Platform!Configuration /\ new.exists /\ new.secret # None
        BY <1>2, <3>1, <3>2 DEF Platform!Row, Platform!Configuration, Platform!Request
      <3>4. switched = [rows EXCEPT ![i] = new]
        BY <1>1, <2>2, <3>1 DEF Platform!Created
      <3>5. QED
        BY <1>2, <1>3, <2>1, <3>3, <3>4
    <2>3. CASE request[r].kind = "activate"
      <3>1. PICK new : new = [rows[i] EXCEPT !.active = rows[i].exists]
        OBVIOUS
      <3>2. /\ new \in Platform!Configuration /\ new.active = rows[i].exists
            /\ new.exists = rows[i].exists /\ new.secret = rows[i].secret
        BY <1>2, <1>3, <3>1 DEF Platform!Configuration
      <3>3. switched = [rows EXCEPT ![i] = new]
        BY <1>1, <2>3, <3>1
      <3>4. QED
        BY <1>2, <1>3, <2>1, <3>2, <3>3
    <2>4. CASE request[r].kind = "deactivate"
      <3>1. switched = rows
        BY <1>1, <2>4
      <3>2. QED
        BY <1>3, <2>1, <3>1
    <2>5. QED
      BY <1>2, <2>2, <2>3, <2>4 DEF Platform!Switching
  <1>5. Cardinality({j \in Ids : switched[j].active}) <= 1
    <2>1. IsFiniteSet({j \in Ids : switched[j].active})
      BY FS_Subset, SameFiniteSets DEF Platform!ConfigAssumption
    <2>2. QED
      BY <1>4, <2>1, AtMostOne
  <1>6. row' = switched /\ Platform!MoveTo(r, "answered") /\ off' = {} /\ Platform!Released(r)
    BY <1>1, <1>5, SameFiniteSets DEF Platform!Commit
  <1>7. row' \in [Ids -> Platform!Configuration] /\ OneActive' /\ RowsAreComplete'
    BY <1>4, <1>6 DEF OneActive, RowsAreComplete
  <1>8. QED
    BY <1>2, <1>6, <1>7, RequestEnds

-----------------------------------------------------------------------------
(* The theorems.                                                           *)

\* The invariant holds at first.
LEMMA PlatformInit ==
    ASSUME Platform!ConfigAssumption, Platform!Init
    PROVE  PlatformInv
  <1>1. \A i \in Ids : row[i] = Platform!NoRow
            \/ \E active \in BOOLEAN, n \in ConfigNames, v, w \in Values :
                  row[i] = Platform!Row(active, n, v, w)
    BY DEF Platform!Init
  <1>2. ASSUME NEW i \in Ids
        PROVE  /\ row[i] \in Platform!Configuration
               /\ row[i].active => row[i].exists
               /\ row[i].exists => row[i].secret # None
    <2>1. CASE row[i] = Platform!NoRow
      BY <2>1 DEF Platform!NoRow, Platform!Configuration
    <2>2. CASE row[i] # Platform!NoRow
      <3>1. PICK active \in BOOLEAN, n \in ConfigNames, v \in Values, w \in Values :
              row[i] = Platform!Row(active, n, v, w)
        BY <1>1, <2>2
      <3>2. QED
        BY <3>1 DEF Platform!Row, Platform!Configuration, Platform!ConfigAssumption
    <2>3. QED
      BY <2>1, <2>2
  <1>3. row \in [Ids -> Platform!Configuration] /\ RowsAreComplete
    <2>1. row = [i \in Ids |-> row[i]]
      BY DEF Platform!Init
    <2>2. row \in [Ids -> Platform!Configuration]
      BY <1>2, <2>1
    <2>3. RowsAreComplete
      BY <1>2 DEF RowsAreComplete
    <2>4. QED
      BY <2>2, <2>3
  <1>4. OneActive
    <2>1. IsFiniteSet({i \in Ids : row[i].active})
      BY FS_Subset, SameFiniteSets DEF Platform!ConfigAssumption
    <2>2. Cardinality({i \in Ids : row[i].active}) <= 1
      BY SameFiniteSets DEF Platform!Init
    <2>3. \A i, j \in {k \in Ids : row[k].active} : i = j
      BY <2>1, <2>2, AtMostOne
    <2>4. QED
      BY <2>3 DEF OneActive
  <1>5. request \in [Requests -> Platform!Request] /\ \A r \in Requests : request[r].pc = "new"
    BY DEF Platform!Init, Platform!Request, Platform!Kinds
  <1>6. QED
    BY <1>3, <1>4, <1>5 DEF Platform!Init, PlatformInv, Platform!TypeOK, WritesAreComplete,
       SwitchIsAlone,
       SwitchCoversActive, NoneRefused

\* Every statement of every request keeps the invariant.
LEMMA PlatformStep ==
    ASSUME Platform!ConfigAssumption, PlatformInv, Platform!Next
    PROVE  PlatformInv'
  <1>1. ASSUME NEW r \in Requests, NEW kind \in Platform!Kinds, NEW i \in Ids,
               Platform!Check(r, kind, i)
        PROVE  PlatformInv'
    BY <1>1, CheckStep
  <1>2. ASSUME NEW r \in Requests,
               \/ Platform!Create(r) \/ Platform!Update(r) \/ Platform!Delete(r)
               \/ Platform!Lock(r) \/ Platform!Deactivate(r)
               \/ Platform!Commit(r) \/ Platform!Collide(r) \/ Platform!Abort(r)
        PROVE  PlatformInv'
    BY <1>2, WriteStep, SwitchStep, CommitStep, AbortStep
  <1>3. QED
    BY <1>1, <1>2 DEF Platform!Next

\* The index refuses no switch, at most one configuration is in force, and it
\* is complete.
LEMMA PlatformIsSerial ==
    ASSUME Platform!ConfigAssumption, PlatformInv
    PROVE  Platform!TypeOK /\ Platform!SwitchesAreSerial
  <1>1. Platform!Cardinality(Platform!Active) <= 1
    <2>1. IsFiniteSet(Platform!Active)
      BY FS_Subset, SameFiniteSets DEF Platform!ConfigAssumption, Platform!Active
    <2>2. \A i, j \in Platform!Active : i = j
      BY DEF PlatformInv, OneActive, Platform!Active
    <2>3. QED
      BY <2>1, <2>2, AtMostOne, SameFiniteSets
  <1>2. Platform!InForce # None =>
            row[Platform!InForce].exists /\ row[Platform!InForce].secret # None
    <2>1. Platform!InForce # None => Platform!InForce \in Platform!Active
      BY DEF Platform!InForce
    <2>2. \A i \in Platform!Active : row[i].exists /\ row[i].secret # None
      BY DEF PlatformInv, RowsAreComplete, Platform!Active
    <2>3. QED
      BY <2>1, <2>2
  <1>3. QED
    BY <1>1, <1>2 DEF PlatformInv, NoneRefused, Platform!SwitchesAreSerial

-----------------------------------------------------------------------------
(* The extraction agent: the inductive invariant.                          *)

\* What every call leaves of the drafts: a validation in force is right, and
\* what has been ended has been read.
Trustworthy(s) ==
    /\ s \in Agent!Drafting
    /\ Agent!Cardinality(Agent!Drafted(s)) <= MaxRecords
    /\ s.validated => Agent!Sound(s)
    /\ s.finished => s.read = Segments

\* Calls are open while they are executed, and only a unit that is finished
\* ends the run.
EndIsExplicit ==
    /\ run.pc \in {"calling", "called"} =>
          saved.open > 0 /\ (run.terminate => saved.state.finished)
    /\ run.pc = "ended" => saved.state.finished

\* The row holds all usage that the checkpoint notes as accounted, and the
\* attempt under way has not been charged yet.
UsageIsCovered ==
    /\ saved.accounted <= saved.requests /\ saved.accounted <= unit.requests
    /\ unit.counted <= run.attempt
    /\ run.pc \notin {"idle", "failed"} => unit.counted < run.attempt
    /\ run.pc = "failed" => saved.requests <= unit.requests

\* Nothing happens to a unit that has succeeded.
StoredIsLast ==
    unit.status = "succeeded" =>
        /\ run.pc = "idle"
        /\ saved.state.finished
        /\ unit.drafts = saved.state.drafts
        /\ saved.requests <= unit.requests

AgentInv ==
    /\ Agent!TypeOK /\ Trustworthy(saved.state)
    /\ EndIsExplicit /\ UsageIsCovered /\ StoredIsLast

-----------------------------------------------------------------------------
(* What the agent's tools leave.                                           *)

\* The tools answer to good drafts with good drafts, forget nothing that was
\* read, and do not end the unit.
LEMMA ToolsKeepTrust ==
    ASSUME Agent!AgentAssumption, NEW s, Trustworthy(s), NEW t \in Agent!Changed(s)
    PROVE  Trustworthy(t) /\ t.finished = s.finished
  <1>1. /\ s \in Agent!Drafting /\ IsFiniteSet(Agent!Drafted(s))
        /\ Agent!Drafted(s) \subseteq Keys
        /\ MaxRecords \in Nat /\ Cardinality(Agent!Drafted(s)) \in Nat
        /\ Cardinality(Agent!Drafted(s)) <= MaxRecords
    <2>1. s \in Agent!Drafting /\ Agent!Drafted(s) \subseteq Keys
      BY DEF Trustworthy, Agent!Drafting, Agent!Drafted
    <2>2. IsFiniteSet(Agent!Drafted(s))
      BY <2>1, FS_Subset, SameFiniteSets DEF Agent!AgentAssumption
    <2>3. QED
      BY <2>1, <2>2, FS_CardinalityType, SameFiniteSets DEF Trustworthy, Agent!AgentAssumption
  <1>2. CASE t = s
    BY <1>2
  <1>3. CASE t = Agent!Validate(s)
    <2>1. /\ t \in Agent!Drafting
          /\ t.drafts = s.drafts /\ t.read = s.read /\ t.finished = s.finished
          /\ t.validated = Agent!Sound(s)
      BY <1>1, <1>3 DEF Agent!Validate, Agent!Drafting, Agent!Sound
    <2>2. QED
      BY <2>1 DEF Trustworthy, Agent!Sound, Agent!Drafted
  <1>4. ASSUME NEW b \in Segments, t = Agent!MarkRead(s, b)
        PROVE  Trustworthy(t) /\ t.finished = s.finished
    <2>1. /\ t \in Agent!Drafting
          /\ t.drafts = s.drafts /\ t.read = s.read \cup {b} /\ t.finished = s.finished
          /\ t.validated = (s.validated /\ b \in s.read)
      BY <1>1, <1>4 DEF Agent!MarkRead, Agent!Drafting
    <2>2. t.validated => t.read = s.read
      BY <2>1
    <2>3. s.finished => t.read = Segments
      BY <2>1 DEF Trustworthy
    <2>4. QED
      BY <2>1, <2>2, <2>3 DEF Trustworthy, Agent!Sound, Agent!Drafted
  <1>5. ASSUME NEW drafts \in UNION {[K -> Contents] : K \in SUBSET Keys},
               Agent!Cardinality(DOMAIN drafts) <= MaxRecords,
               t = [s EXCEPT !.drafts = drafts, !.validated = FALSE]
        PROVE  Trustworthy(t) /\ t.finished = s.finished
    <2>1. /\ t \in Agent!Drafting
          /\ t.drafts = drafts /\ t.read = s.read /\ t.finished = s.finished /\ ~ t.validated
      BY <1>1, <1>5 DEF Agent!Drafting
    <2>2. QED
      BY <1>5, <2>1 DEF Trustworthy, Agent!Drafted
  <1>6. ASSUME NEW k \in Keys, NEW c \in Contents, t = Agent!Upsert(s, k, c)
        PROVE  Trustworthy(t) /\ t.finished = s.finished
    <2>1. CASE ~ Agent!Room(s, k)
      BY <1>2, <1>6, <2>1 DEF Agent!Upsert
    <2>2. CASE Agent!Room(s, k)
      <3>1. PICK drafts : drafts = Agent!Put(s.drafts, k, c)
        OBVIOUS
      <3>2. t = [s EXCEPT !.drafts = drafts, !.validated = FALSE]
        BY <1>6, <2>2, <3>1 DEF Agent!Upsert
      <3>3. DOMAIN drafts = {k} \cup Agent!Drafted(s)
        BY <3>1 DEF Agent!Put, Agent!Drafted
      <3>4. drafts \in UNION {[K -> Contents] : K \in SUBSET Keys}
        BY <1>1, <3>1 DEF Agent!Put, Agent!Drafting, Agent!Drafted
      <3>5. Cardinality(DOMAIN drafts) <= MaxRecords
        <4>1. {k} \cup Agent!Drafted(s) = Agent!Drafted(s) \cup {k}
          OBVIOUS
        <4>2. CASE k \in Agent!Drafted(s)
          <5>1. {k} \cup Agent!Drafted(s) = Agent!Drafted(s)
            BY <4>2
          <5>2. QED
            BY <1>1, <3>3, <5>1
        <4>3. CASE k \notin Agent!Drafted(s)
          <5>1. Cardinality(Agent!Drafted(s) \cup {k}) = Cardinality(Agent!Drafted(s)) + 1
            BY <1>1, <4>3, FS_AddElement
          <5>2. Cardinality(Agent!Drafted(s)) < MaxRecords
            BY <2>2, <4>3, SameFiniteSets DEF Agent!Room
          <5>3. QED
            BY <1>1, <3>3, <4>1, <5>1, <5>2
        <4>4. QED
          BY <4>2, <4>3
      <3>6. QED
        BY <1>5, <3>2, <3>4, <3>5, SameFiniteSets
    <2>3. QED
      BY <2>1, <2>2
  <1>7. ASSUME NEW k \in Keys, t = Agent!Delete(s, k)
        PROVE  Trustworthy(t) /\ t.finished = s.finished
    <2>1. CASE k \notin Agent!Drafted(s)
      BY <1>2, <1>7, <2>1 DEF Agent!Delete
    <2>2. CASE k \in Agent!Drafted(s)
      <3>1. PICK drafts : drafts = Agent!Restrict(s.drafts, Agent!Drafted(s) \ {k})
        OBVIOUS
      <3>2. t = [s EXCEPT !.drafts = drafts, !.validated = FALSE]
        BY <1>7, <2>2, <3>1 DEF Agent!Delete
      <3>3. DOMAIN drafts = Agent!Drafted(s) \ {k}
        BY <3>1 DEF Agent!Restrict
      <3>4. drafts \in UNION {[K -> Contents] : K \in SUBSET Keys}
        BY <1>1, <3>1 DEF Agent!Restrict, Agent!Drafting, Agent!Drafted
      <3>5. Cardinality(DOMAIN drafts) <= MaxRecords
        <4>1. Cardinality(Agent!Drafted(s) \ {k}) <= Cardinality(Agent!Drafted(s))
                /\ Cardinality(Agent!Drafted(s) \ {k}) \in Nat
          BY <1>1, FS_Subset, FS_CardinalityType
        <4>2. QED
          BY <1>1, <3>3, <4>1
      <3>6. QED
        BY <1>5, <3>2, <3>4, <3>5, SameFiniteSets
    <2>3. QED
      BY <2>1, <2>2
  <1>8. QED
    BY <1>2, <1>3, <1>4, <1>6, <1>7 DEF Agent!Changed

-----------------------------------------------------------------------------
(* The steps of the agent.                                                 *)

\* The invariant holds at first.
LEMMA AgentInit ==
    ASSUME Agent!AgentAssumption, Agent!Init
    PROVE  AgentInv
  <1>1. /\ unit.status = "pending" /\ unit.requests = 0 /\ unit.counted = 0
        /\ unit.drafts = Agent!NoDrafts
        /\ saved.state.drafts = Agent!NoDrafts /\ saved.state.read = {}
        /\ ~ saved.state.validated /\ ~ saved.state.finished
        /\ saved.requests = 0 /\ saved.accounted = 0
        /\ run.pc = "idle" /\ run.attempt = 0
    BY DEF Agent!Init
  <1>2. Agent!NoDrafts \in UNION {[K -> Contents] : K \in SUBSET Keys}
    <2>1. Agent!NoDrafts \in [{} -> Contents] /\ {} \in SUBSET Keys
      BY DEF Agent!NoDrafts
    <2>2. QED
      BY <2>1
  <1>3. Agent!TypeOK
    BY <1>2 DEF Agent!Init, Agent!TypeOK, Agent!Row, Agent!Entry, Agent!Run, Agent!Drafting,
       Agent!AgentAssumption
  <1>4. Agent!Cardinality(Agent!Drafted(saved.state)) <= MaxRecords
    <2>1. Agent!Drafted(saved.state) = {}
      BY <1>1 DEF Agent!Drafted, Agent!NoDrafts
    <2>2. Cardinality({}) = 0 /\ MaxRecords \in Nat
      BY FS_EmptySet DEF Agent!AgentAssumption
    <2>3. QED
      BY <2>1, <2>2, SameFiniteSets
  <1>5. Trustworthy(saved.state)
    BY <1>1, <1>3, <1>4 DEF Trustworthy, Agent!TypeOK, Agent!Entry
  <1>6. QED
    BY <1>1, <1>3, <1>5 DEF AgentInv, EndIsExplicit, UsageIsCovered, StoredIsLast

\* An attempt begins or ends, and the row or its status follows.
LEMMA AttemptStep ==
    ASSUME Agent!AgentAssumption, AgentInv,
           \/ Agent!Start \/ Agent!Stop \/ Agent!OutOfTurns \/ Agent!Account
    PROVE  AgentInv'
  <1>1. /\ unit \in Agent!Row /\ saved \in Agent!Entry /\ run \in Agent!Run
        /\ MaxAttempt \in Nat /\ MaxIterations \in Nat
    BY DEF AgentInv, Agent!TypeOK, Agent!AgentAssumption
  <1>2. CASE Agent!Start
    <2>1. /\ run.pc = "idle" /\ run.attempt < MaxAttempt /\ unit.status # "succeeded"
          /\ saved' = saved
          /\ run' = [pc |-> IF saved.state.finished THEN "ended" ELSE "prompting",
                     attempt |-> run.attempt + 1, turns |-> 0, terminate |-> FALSE]
          /\ unit' = [unit EXCEPT !.status = "running"]
      BY <1>2 DEF Agent!Start
    <2>2. /\ unit' \in Agent!Row /\ unit'.status = "running" /\ unit'.requests = unit.requests
          /\ unit'.counted = unit.counted /\ unit'.counted \in Nat /\ run.attempt \in Nat
      BY <1>1, <2>1 DEF Agent!Row, Agent!Run
    <2>3. /\ run' \in Agent!Run /\ run'.attempt = run.attempt + 1
          /\ run'.pc \in {"ended", "prompting"} /\ (run'.pc = "ended" => saved.state.finished)
      BY <1>1, <2>1 DEF Agent!Run
    <2>4. QED
      BY <1>1, <2>1, <2>2, <2>3
      DEF AgentInv, Agent!TypeOK, EndIsExplicit, UsageIsCovered, StoredIsLast
  <1>3. CASE Agent!Stop \/ Agent!OutOfTurns
    <2>1. PICK pc \in {"idle", "failing"} :
            /\ run' = [run EXCEPT !.pc = pc] /\ unit' = unit /\ saved' = saved
            /\ run.pc # "idle" /\ (pc = "failing" => run.pc = "prompting")
      BY <1>3 DEF Agent!Stop, Agent!OutOfTurns
    <2>2. run' \in Agent!Run /\ run'.pc = pc /\ run'.attempt = run.attempt
      BY <1>1, <2>1 DEF Agent!Run
    <2>3. QED
      BY <1>1, <2>1, <2>2
      DEF AgentInv, Agent!TypeOK, EndIsExplicit, UsageIsCovered, StoredIsLast
  <1>4. CASE Agent!Account
    <2>1. /\ run.pc = "failed" /\ unit' = unit
          /\ saved' = [saved EXCEPT !.accounted = saved.requests]
          /\ run' = [run EXCEPT !.pc = "idle"]
      BY <1>4 DEF Agent!Account
    <2>2. /\ run' \in Agent!Run /\ run'.pc = "idle" /\ run'.attempt = run.attempt
          /\ saved' \in Agent!Entry /\ saved'.state = saved.state
          /\ saved'.requests = saved.requests /\ saved'.accounted = saved.requests
          /\ saved.requests \in Nat
      BY <1>1, <2>1 DEF Agent!Run, Agent!Entry
    <2>3. QED
      BY <1>1, <2>1, <2>2
      DEF AgentInv, Agent!TypeOK, EndIsExplicit, UsageIsCovered, StoredIsLast
  <1>5. QED
    BY <1>2, <1>3, <1>4

\* The conversation goes on, with a request or a result.
LEMMA ConversationStep ==
    ASSUME Agent!AgentAssumption, AgentInv,
           Agent!Prompt \/ Agent!PromptFails \/ Agent!AppendResult
    PROVE  AgentInv'
  <1>1. /\ unit \in Agent!Row /\ saved \in Agent!Entry /\ run \in Agent!Run
        /\ MaxCalls \in Nat /\ MaxIterations \in Nat
        /\ saved.requests \in Nat /\ saved.accounted \in Nat /\ unit.requests \in Nat
    BY DEF AgentInv, Agent!TypeOK, Agent!AgentAssumption, Agent!Entry, Agent!Row
  <1>2. ASSUME NEW open \in 0..MaxCalls,
               saved' = [saved EXCEPT !.requests = @ + 1, !.open = open]
        PROVE  /\ saved' \in Agent!Entry /\ saved'.state = saved.state
               /\ saved'.requests = saved.requests + 1 /\ saved'.accounted = saved.accounted
               /\ saved'.open = open /\ saved'.accounted <= saved'.requests
    <2>1. saved.requests + 1 \in Nat /\ saved.accounted <= saved.requests + 1
      BY <1>1 DEF AgentInv, UsageIsCovered
    <2>2. saved' = [saved EXCEPT !.requests = saved.requests + 1, !.open = open]
      BY <1>2
    <2>3. QED
      BY <1>1, <2>1, <2>2 DEF Agent!Entry
  <1>3. CASE Agent!Prompt
    <2>1. run.pc = "prompting" /\ run.turns < MaxIterations /\ unit' = unit
      BY <1>3 DEF Agent!Prompt
    <2>2. PICK executed \in 0..MaxCalls :
            /\ saved' = [saved EXCEPT !.requests = @ + 1, !.open = executed]
            /\ run' = [run EXCEPT !.turns = @ + 1, !.terminate = FALSE,
                                  !.pc = IF executed = 0 THEN "prompting" ELSE "calling"]
      <3>1. PICK calls \in 0..MaxCalls, cut \in BOOLEAN :
              LET executed == IF cut THEN 0 ELSE calls
              IN  /\ saved' = [saved EXCEPT !.requests = @ + 1, !.open = executed]
                  /\ run' = [run EXCEPT !.turns = @ + 1, !.terminate = FALSE,
                                        !.pc = IF executed = 0 THEN "prompting" ELSE "calling"]
        BY <1>3 DEF Agent!Prompt
      <3>2. PICK executed : executed = IF cut THEN 0 ELSE calls
        OBVIOUS
      <3>3. executed \in 0..MaxCalls
        BY <1>1, <3>2
      <3>4. QED
        BY <3>1, <3>2, <3>3
    <2>3. /\ saved' \in Agent!Entry /\ saved'.state = saved.state
          /\ saved'.requests = saved.requests + 1 /\ saved'.accounted = saved.accounted
          /\ saved'.open = executed /\ saved'.accounted <= saved'.requests
      BY <1>2, <2>2
    <2>4. /\ run' \in Agent!Run /\ run'.attempt = run.attempt /\ ~ run'.terminate
          /\ run'.pc \in {"prompting", "calling"} /\ (run'.pc = "calling" => executed # 0)
      <3>1. run.turns + 1 \in 0..MaxIterations
        BY <1>1, <2>1 DEF Agent!Run
      <3>2. PICK pc \in {"prompting", "calling"} :
              /\ pc = IF executed = 0 THEN "prompting" ELSE "calling"
              /\ pc = "calling" => executed # 0
        OBVIOUS
      <3>3. run' = [run EXCEPT !.turns = run.turns + 1, !.terminate = FALSE, !.pc = pc]
        BY <2>2, <3>2
      <3>4. QED
        BY <1>1, <3>1, <3>2, <3>3 DEF Agent!Run
    <2>5. QED
      BY <1>1, <2>1, <2>3, <2>4
      DEF AgentInv, Agent!TypeOK, EndIsExplicit, UsageIsCovered, StoredIsLast
  <1>4. CASE Agent!PromptFails
    <2>1. run.pc = "prompting" /\ unit' = unit /\ run' = [run EXCEPT !.pc = "failing"]
      BY <1>4 DEF Agent!PromptFails
    <2>2. /\ saved' \in Agent!Entry /\ saved'.state = saved.state
          /\ saved'.accounted = saved.accounted /\ saved'.accounted <= saved'.requests
      <3>1. CASE UNCHANGED saved
        BY <1>1, <3>1 DEF AgentInv, UsageIsCovered
      <3>2. ASSUME NEW calls \in 0..MaxCalls,
                   saved' = [saved EXCEPT !.requests = @ + 1, !.open = calls]
            PROVE  /\ saved' \in Agent!Entry /\ saved'.state = saved.state
                   /\ saved'.accounted = saved.accounted
                   /\ saved'.accounted <= saved'.requests
        BY <1>2, <3>2
      <3>3. QED
        BY <1>4, <3>1, <3>2 DEF Agent!PromptFails
    <2>3. run' \in Agent!Run /\ run'.pc = "failing" /\ run'.attempt = run.attempt
      BY <1>1, <2>1 DEF Agent!Run
    <2>4. QED
      BY <1>1, <2>1, <2>2, <2>3
      DEF AgentInv, Agent!TypeOK, EndIsExplicit, UsageIsCovered, StoredIsLast
  <1>5. CASE Agent!AppendResult
    <2>1. /\ run.pc = "called" /\ unit' = unit
          /\ saved' = [saved EXCEPT !.open = @ - 1]
          /\ run' = [run EXCEPT !.pc = IF saved.open > 1 THEN "calling"
                                       ELSE IF run.terminate THEN "ended" ELSE "prompting"]
          /\ saved.open > 0 /\ saved.open \in 0..MaxCalls
          /\ run.terminate => saved.state.finished
      BY <1>1, <1>5 DEF Agent!AppendResult, AgentInv, EndIsExplicit, Agent!Entry
    <2>2. /\ saved' \in Agent!Entry /\ saved'.state = saved.state
          /\ saved'.requests = saved.requests /\ saved'.accounted = saved.accounted
          /\ saved'.open = saved.open - 1
      BY <1>1, <2>1 DEF Agent!Entry
    <2>3. /\ run' \in Agent!Run /\ run'.attempt = run.attempt /\ run'.terminate = run.terminate
          /\ run'.pc \in {"calling", "ended", "prompting"}
          /\ run'.pc = "calling" => saved.open > 1
          /\ run'.pc = "ended" => run.terminate
      BY <1>1, <2>1 DEF Agent!Run
    <2>4. QED
      BY <1>1, <2>1, <2>2, <2>3
      DEF AgentInv, Agent!TypeOK, EndIsExplicit, UsageIsCovered, StoredIsLast
  <1>6. QED
    BY <1>3, <1>4, <1>5

\* A tool is executed; only the end of a sound and validated unit terminates.
LEMMA ToolStep ==
    ASSUME Agent!AgentAssumption, AgentInv, Agent!Execute
    PROVE  AgentInv'
  <1>1. /\ unit \in Agent!Row /\ saved \in Agent!Entry /\ run \in Agent!Run
        /\ Trustworthy(saved.state) /\ run.pc = "calling" /\ unit' = unit
    BY DEF AgentInv, Agent!TypeOK, Agent!Execute
  <1>2. PICK t, terminate :
          /\ terminate \in BOOLEAN
          /\ saved' = [saved EXCEPT !.state = t]
          /\ run' = [run EXCEPT !.pc = "called", !.terminate = terminate]
          /\ Trustworthy(t) /\ (saved.state.finished => t.finished)
          /\ terminate => run.terminate \/ t.finished
    <2> DEFINE Reached(t, terminate) ==
          /\ terminate \in BOOLEAN
          /\ saved' = [saved EXCEPT !.state = t]
          /\ run' = [run EXCEPT !.pc = "called", !.terminate = terminate]
          /\ Trustworthy(t) /\ (saved.state.finished => t.finished)
          /\ terminate => run.terminate \/ t.finished
    <2>1. ASSUME NEW t \in Agent!Changed(saved.state), saved' = [saved EXCEPT !.state = t],
                 run' = [run EXCEPT !.pc = "called"]
          PROVE  \E u, terminate : Reached(u, terminate)
      <3>1. Trustworthy(t) /\ t.finished = saved.state.finished
        BY <1>1, <2>1, ToolsKeepTrust
      <3>2. run' = [run EXCEPT !.pc = "called", !.terminate = run.terminate]
            /\ run.terminate \in BOOLEAN
        BY <1>1, <2>1 DEF Agent!Run
      <3>3. Reached(t, run.terminate)
        BY <2>1, <3>1, <3>2
      <3>4. QED
        BY <3>3
    <2>2. ASSUME Agent!Finishable(saved.state), saved' = [saved EXCEPT !.state.finished = TRUE],
                 run' = [run EXCEPT !.pc = "called", !.terminate = TRUE]
          PROVE  \E u, terminate : Reached(u, terminate)
      <3>1. PICK t : t = [saved.state EXCEPT !.finished = TRUE]
        OBVIOUS
      <3>2. /\ t \in Agent!Drafting /\ t.drafts = saved.state.drafts
            /\ t.read = saved.state.read /\ t.validated = saved.state.validated /\ t.finished
        BY <1>1, <3>1 DEF Trustworthy, Agent!Drafting
      <3>3. t.read = Segments
        BY <2>2, <3>2 DEF Agent!Finishable, Agent!Sound
      <3>4. Trustworthy(t)
        BY <1>1, <3>2, <3>3 DEF Trustworthy, Agent!Sound, Agent!Drafted
      <3>5. saved' = [saved EXCEPT !.state = t]
        BY <1>1, <2>2, <3>1 DEF Agent!Entry
      <3>6. Reached(t, TRUE)
        BY <2>2, <3>2, <3>4, <3>5
      <3>7. QED
        BY <3>6
    <2>3. QED
      BY <2>1, <2>2 DEF Agent!Execute
  <1>3. /\ saved' \in Agent!Entry /\ saved'.state = t /\ saved'.requests = saved.requests
        /\ saved'.accounted = saved.accounted /\ saved'.open = saved.open
    BY <1>1, <1>2 DEF Agent!Entry, Trustworthy
  <1>4. /\ run' \in Agent!Run /\ run'.pc = "called" /\ run'.attempt = run.attempt
        /\ run'.terminate = terminate
    BY <1>1, <1>2 DEF Agent!Run
  <1>5. EndIsExplicit'
    BY <1>1, <1>2, <1>3, <1>4 DEF AgentInv, EndIsExplicit
  <1>6. QED
    BY <1>1, <1>2, <1>3, <1>4, <1>5
    DEF AgentInv, Agent!TypeOK, UsageIsCovered, StoredIsLast

\* The row is charged with the attempt's usage, and stored or failed.
LEMMA RowStep ==
    ASSUME Agent!AgentAssumption, AgentInv, Agent!Complete \/ Agent!Fail
    PROVE  AgentInv'
  <1>1. /\ unit \in Agent!Row /\ saved \in Agent!Entry /\ run \in Agent!Run
        /\ Trustworthy(saved.state) /\ saved' = saved
        /\ saved.requests \in Nat /\ saved.accounted \in Nat /\ unit.requests \in Nat
        /\ unit.counted \in Nat /\ run.attempt \in 0..MaxAttempt /\ MaxAttempt \in Nat
    BY DEF AgentInv, Agent!TypeOK, Agent!Complete, Agent!Fail, Agent!Row, Agent!Entry,
       Agent!Run,
       Agent!AgentAssumption
  <1>2. /\ saved.accounted <= saved.requests /\ saved.accounted <= unit.requests
        /\ unit.counted < run.attempt
    BY DEF AgentInv, UsageIsCovered, Agent!Complete, Agent!Fail
  <1>3. PICK charged : charged = Agent!Charged(unit)
    OBVIOUS
  <1>4. /\ charged \in Agent!Row /\ charged.counted = run.attempt
        /\ charged.requests = unit.requests + saved.requests - saved.accounted
    <2>1. unit.requests + saved.requests - saved.accounted \in Nat
      BY <1>1, <1>2
    <2>2. charged = [unit EXCEPT !.requests = unit.requests + saved.requests - saved.accounted,
                                 !.counted = run.attempt]
      BY <1>1, <1>2, <1>3 DEF Agent!Charged
    <2>3. QED
      BY <1>1, <2>1, <2>2 DEF Agent!Row
  <1>5. saved.requests <= charged.requests /\ saved.accounted <= charged.requests
    BY <1>1, <1>2, <1>4
  <1>6. CASE Agent!Complete
    <2>1. /\ run.pc = "ended" /\ run' = [run EXCEPT !.pc = "idle"]
          /\ unit' = [charged EXCEPT !.status = "succeeded", !.drafts = saved.state.drafts]
          /\ saved.state.finished
      BY <1>3, <1>6 DEF Agent!Complete, AgentInv, EndIsExplicit
    <2>2. saved.state.drafts \in UNION {[K -> Contents] : K \in SUBSET Keys}
      BY <1>1 DEF Trustworthy, Agent!Drafting
    <2>3. /\ unit' \in Agent!Row /\ unit'.status = "succeeded"
          /\ unit'.drafts = saved.state.drafts
          /\ unit'.requests = charged.requests /\ unit'.counted = charged.counted
      BY <1>4, <2>1, <2>2 DEF Agent!Row
    <2>4. run' \in Agent!Run /\ run'.pc = "idle" /\ run'.attempt = run.attempt
      BY <1>1, <2>1 DEF Agent!Run
    <2>5. QED
      BY <1>1, <1>2, <1>4, <1>5, <2>1, <2>3, <2>4
      DEF AgentInv, Agent!TypeOK, EndIsExplicit, UsageIsCovered, StoredIsLast
  <1>7. CASE Agent!Fail
    <2>1. /\ run.pc = "failing" /\ run' = [run EXCEPT !.pc = "failed"]
          /\ unit' = [charged EXCEPT !.status = "failed"]
      BY <1>3, <1>7 DEF Agent!Fail
    <2>2. /\ unit' \in Agent!Row /\ unit'.status = "failed"
          /\ unit'.requests = charged.requests /\ unit'.counted = charged.counted
      BY <1>4, <2>1 DEF Agent!Row
    <2>3. run' \in Agent!Run /\ run'.pc = "failed" /\ run'.attempt = run.attempt
      BY <1>1, <2>1 DEF Agent!Run
    <2>4. QED
      BY <1>1, <1>2, <1>4, <1>5, <2>2, <2>3
      DEF AgentInv, Agent!TypeOK, EndIsExplicit, UsageIsCovered, StoredIsLast
  <1>8. QED
    BY <1>6, <1>7

\* Every step of the agent keeps the invariant.
LEMMA AgentStep ==
    ASSUME Agent!AgentAssumption, AgentInv, Agent!Next
    PROVE  AgentInv'
  BY AttemptStep, ConversationStep, ToolStep, RowStep DEF Agent!Next

\* The records of a unit that has succeeded are those the agent has ended.
LEMMA AgentStoresWhatItRead ==
    ASSUME AgentInv
    PROVE  Agent!TypeOK /\ Agent!StoredUnitsAreRead
  BY DEF AgentInv, StoredIsLast, Trustworthy, Agent!StoredUnitsAreRead, Agent!Drafted,
     Agent!TypeOK, Agent!Entry, Agent!Row

-----------------------------------------------------------------------------
(* The draft editor: positions along the chain.                            *)

Names == PortNames \cup UNION {{p.name : p \in Editor!InputPorts(k) \cup {Editor!Out(k)}} :
  k \in NodeKinds}
Ends == (NodeIds \cup {None}) \X Names
Links == [from : Ends, to : Ends]

IsDraft(d) ==
    /\ {"node", "conns", "in", "out", "contract", "search"} \subseteq DOMAIN d
    /\ d.node \in [NodeIds -> NodeKinds \cup {None}]
    /\ d.conns \subseteq Links

\* The nodes have the positions 1 to length, and the connections lead from
\* each to the next one, and from the last out of the workflow.
Chain(d, length, pos) ==
    /\ length \in Nat /\ pos \in [Editor!NodesOf(d) -> 1..length]
    /\ \A i \in 1..length : \E n \in Editor!NodesOf(d) : pos[n] = i
    /\ \A m, n \in Editor!NodesOf(d) : pos[m] = pos[n] => m = n
    /\ \A e \in Editor!Edges(d) : pos[e.to[1]] = pos[e.from[1]] + 1
    /\ \A n \in Editor!NodesOf(d) : pos[n] # 1 => \E e \in Editor!Edges(d) : e.to[1] = n
    /\ \E c \in d.conns : c.to[1] = None /\ c.from[1] \in Editor!NodesOf(d)
         /\ pos[c.from[1]] = length

\* Every input of a node is connected.
Fed(d) ==
    \A n \in Editor!NodesOf(d) : \A p \in Editor!InputPorts(d.node[n]) :
      \E c \in d.conns : c.to = Editor!Inner(n, p.name)

IsChain(d) == Fed(d) /\ (Editor!NodesOf(d) # {} => \E length, pos : Chain(d, length, pos))

EditorInv == IsDraft(part1) /\ Editor!Valid(part1) /\ IsChain(part1)

\* The inputs of a capability have different names, and it has its own types.
LEMMA Catalogue ==
    ASSUME Editor!EditorAssumption, NEW kind \in NodeKinds
    PROVE  /\ \A s \in Editor!Sides(kind) : s.name # Editor!In(kind).name
           /\ Editor!In(kind).name \in Names /\ Editor!Out(kind).name \in Names
           /\ \A s \in Editor!Sides(kind) : s.name \in Names
           /\ Editor!In(kind) \in Editor!InputPorts(kind)
  <1>1. kind \in DOMAIN Editor!Builtin
    BY DEF Editor!EditorAssumption
  <1>2. kind \in {"parse", "extract", "transform", "validate", "review", "publish",
                  "retrieval", "analyze", "approve", "render"}
    BY <1>1 DEF Editor!Builtin
  <1>3. kind # "validate" => Editor!Sides(kind) = {}
    BY <1>2 DEF Editor!Sides, Editor!Builtin, Editor!Capability
  <1>4. kind = "validate" =>
            Editor!In(kind).name = "records" /\ \A s \in Editor!Sides(kind) : s.name = "dataset"
    BY DEF Editor!In, Editor!Sides, Editor!Builtin, Editor!Capability, Editor!Port
  <1>5. \A p \in Editor!InputPorts(kind) \cup {Editor!Out(kind)} : p.name \in Names
    BY DEF Names
  <1>6. QED
    BY <1>3, <1>4, <1>5 DEF Editor!InputPorts

\* A connection has two ends; one at a node is at a port of the node.
LEMMA LinkFacts ==
    ASSUME Editor!EditorAssumption, NEW d, IsDraft(d), Editor!Valid(d), NEW c \in d.conns
    PROVE  /\ c \in Links /\ c = Editor!Link(c.from, c.to)
           /\ c.from = Editor!Inner(c.from[1], c.from[2]) /\ c.to = Editor!Inner(c.to[1], c.to[2])
           /\ c.from[1] # None =>
                 c.from[1] \in Editor!NodesOf(d)
                   /\ c.from = Editor!Inner(c.from[1], Editor!Out(d.node[c.from[1]]).name)
           /\ c.to[1] # None => c.to[1] \in Editor!NodesOf(d)
  <1>1. /\ c \in Links /\ c.from \in Ends /\ c.to \in Ends
        /\ Editor!SourceType(d, c.from) # None
             /\ Editor!SourceType(d, c.from) = Editor!TargetType(d, c.to)
    BY DEF IsDraft, Links, Editor!Valid, Editor!ConnectionsValid
  <1>2. c = Editor!Link(c.from, c.to)
    BY <1>1 DEF Links, Editor!Link
  <1>3. /\ c.from = Editor!Inner(c.from[1], c.from[2]) /\ c.to = Editor!Inner(c.to[1], c.to[2])
        /\ c.from[1] \in NodeIds \cup {None} /\ c.to[1] \in NodeIds \cup {None}
    BY <1>1 DEF Ends, Editor!Inner
  <1>4. c.from[1] # None =>
            d.node[c.from[1]] # None /\ Editor!Out(d.node[c.from[1]]).name = c.from[2]
    BY <1>1 DEF Editor!SourceType
  <1>5. c.to[1] # None => d.node[c.to[1]] # None
    BY <1>1 DEF Editor!TargetType
  <1>6. QED
    BY <1>1, <1>2, <1>3, <1>4, <1>5 DEF Editor!NodesOf

\* A connection between nodes is at the role input of its second node, where
\* there is no other one.
LEMMA EdgeFacts ==
    ASSUME Editor!EditorAssumption, NEW d, IsDraft(d), Editor!Valid(d), NEW e \in Editor!Edges(d)
    PROVE  /\ e \in d.conns /\ e.from[1] # None /\ e.to[1] # None
           /\ e.from[1] \in Editor!NodesOf(d) /\ e.to[1] \in Editor!NodesOf(d)
                /\ e.from[1] # e.to[1]
           /\ e.from = Editor!Inner(e.from[1], Editor!Out(d.node[e.from[1]]).name)
           /\ e.to = Editor!Inner(e.to[1], Editor!In(d.node[e.to[1]]).name)
           /\ \A c \in d.conns : c.to = e.to => c = e
  <1>1. e \in d.conns /\ e.from[1] # None /\ e.to[1] # None
    BY DEF Editor!Edges
  <1>2. e.from[1] # e.to[1] /\ e.to[2] = Editor!In(d.node[e.to[1]]).name
    BY DEF Editor!Valid, Editor!ConnectionsValid
  <1>3. \A c \in d.conns : c.to = e.to => c = e
    BY <1>1 DEF Editor!Valid, Editor!ConnectionsValid
  <1>4. QED
    BY <1>1, <1>2, <1>3, LinkFacts

\* The kind of a node is a capability.
LEMMA KindOfNode ==
    ASSUME NEW d, IsDraft(d), NEW n \in Editor!NodesOf(d)
    PROVE  n \in NodeIds /\ d.node[n] \in NodeKinds
  BY DEF IsDraft, Editor!NodesOf

\* A node is added.
Placed(d, n, kind, e) == d.node[n] = None /\ e.node = [d.node EXCEPT ![n] = kind]

\* Adding a node adds it to the draft's nodes and changes no other.
LEMMA NodeAdded ==
    ASSUME Editor!EditorAssumption, NEW d, IsDraft(d), NEW e, NEW n \in NodeIds,
           NEW kind \in NodeKinds,
           Placed(d, n, kind, e)
    PROVE  /\ Editor!NodesOf(e) = Editor!NodesOf(d) \cup {n} /\ e.node[n] = kind /\ n # None
           /\ n \notin Editor!NodesOf(d) /\ \A m \in Editor!NodesOf(d) : e.node[m] = d.node[m]
  <1>1. /\ d.node \in [NodeIds -> NodeKinds \cup {None}] /\ n # None /\ kind # None
        /\ d.node[n] = None /\ e.node = [d.node EXCEPT ![n] = kind]
    BY DEF IsDraft, Editor!EditorAssumption, Placed
  <1>2. e.node[n] = kind /\ \A m \in NodeIds \ {n} : e.node[m] = d.node[m]
    BY <1>1
  <1>3. QED
    BY <1>1, <1>2 DEF Editor!NodesOf

\* A connection that ends at the role input of a node.
AtRole(d, c) == c.to[1] # None /\ c.to = Editor!Inner(c.to[1], Editor!In(d.node[c.to[1]]).name)

\* It comes from the node before that one, which else is the first one.
LEMMA PositionOfTarget ==
    ASSUME Editor!EditorAssumption, NEW d, IsDraft(d), Editor!Valid(d), NEW length, NEW pos,
           Chain(d, length, pos), NEW c \in d.conns, AtRole(d, c)
    PROVE  /\ c.to[1] \in Editor!NodesOf(d) /\ pos[c.to[1]] \in 1..length
           /\ c.from[1] # None => c \in Editor!Edges(d) /\ c.from[1] \in Editor!NodesOf(d)
                                    /\ pos[c.to[1]] = pos[c.from[1]] + 1
           /\ c.from[1] = None => pos[c.to[1]] = 1
           /\ \A x \in Editor!Edges(d) : x.to[1] = c.to[1] => x = c
  <1>1. c.to[1] \in Editor!NodesOf(d) /\ pos[c.to[1]] \in 1..length
    BY LinkFacts DEF Chain, AtRole
  <1>2. c.from[1] # None => c \in Editor!Edges(d) /\ c.from[1] \in Editor!NodesOf(d)
                              /\ pos[c.to[1]] = pos[c.from[1]] + 1
    BY LinkFacts DEF Chain, Editor!Edges, AtRole
  <1>3. ASSUME NEW x \in Editor!Edges(d), x.to[1] = c.to[1] PROVE x = c
    <2>1. /\ x.to = Editor!Inner(x.to[1], Editor!In(d.node[x.to[1]]).name)
          /\ \A y \in d.conns : y.to = x.to => y = x
      BY EdgeFacts
    <2>2. x.to = c.to
      BY <1>3, <2>1 DEF AtRole
    <2>3. QED
      BY <2>1, <2>2
  <1>4. c.from[1] = None => pos[c.to[1]] = 1
    <2> SUFFICES ASSUME c.from[1] = None, pos[c.to[1]] # 1
                 PROVE  FALSE
      OBVIOUS
    <2>1. PICK x \in Editor!Edges(d) : x.to[1] = c.to[1]
      BY <1>1 DEF Chain
    <2>2. x = c
      BY <1>3, <2>1
    <2>3. QED
      BY <2>1, <2>2, EdgeFacts
  <1>5. QED
    BY <1>1, <1>2, <1>3, <1>4

\* The position of a node after another one took position b.
Behind(a, b) == IF a < b THEN a ELSE a + 1

\* Positions that make room for one more node.
LEMMA RoomFacts ==
    ASSUME NEW length \in Nat, NEW b \in 1..length
    PROVE  /\ length + 1 \in Nat /\ b \in 1..(length + 1)
           /\ \A a \in 1..length : Behind(a, b) \in 1..(length + 1) /\ Behind(a, b) # b
           /\ \A a, a2 \in 1..length : Behind(a, b) = Behind(a2, b) => a = a2
           /\ \A i \in 1..(length + 1) : i = b \/ \E a \in 1..length : Behind(a, b) = i
           /\ \A a, a2 \in 1..length : a2 = a + 1 /\ a2 # b => Behind(a2, b) = Behind(a, b) + 1
           /\ \A a \in 1..length : b = a + 1 => Behind(a, b) = a
           /\ Behind(b, b) = b + 1
           /\ \A a \in 1..length : a # b /\ Behind(a, b) # 1 => a # 1
           /\ Behind(length, b) = length + 1
  <1>1. ASSUME NEW i \in 1..(length + 1), i # b PROVE \E a \in 1..length : Behind(a, b) = i
    <2>1. CASE i < b
      <3>1. i \in 1..length /\ Behind(i, b) = i
        BY <2>1 DEF Behind
      <3>2. QED
        BY <3>1
    <2>2. CASE b < i
      <3>1. i - 1 \in 1..length /\ Behind(i - 1, b) = i
        BY <2>2 DEF Behind
      <3>2. QED
        BY <3>1
    <2>3. QED
      BY <1>1, <2>1, <2>2
  <1>2. QED
    BY <1>1 DEF Behind

\* The new node takes the connection, which goes on to where it led.
Spliced(d, c, n, kind, bind, e) ==
    /\ Placed(d, n, kind, e)
    /\ e.conns = (d.conns \ {c})
                   \cup {Editor!Link(c.from, Editor!Inner(n, Editor!In(kind).name)),
                     Editor!Link(Editor!Inner(n, Editor!Out(kind).name), c.to)}
                   \cup Editor!SideLinks(n, kind, bind)

\* A node that is put into a connection, between nodes or before the first
\* one, makes the chain longer.
LEMMA SpliceKeepsChain ==
    ASSUME Editor!EditorAssumption, NEW d, IsDraft(d), Editor!Valid(d), Fed(d), NEW length, NEW pos,
           Chain(d, length, pos), NEW c \in d.conns, AtRole(d, c),
           NEW n \in NodeIds, NEW kind \in NodeKinds, NEW bind,
           NEW e, IsDraft(e), Editor!Valid(e), Spliced(d, c, n, kind, bind, e)
    PROVE  IsChain(e)
  <1>0. PICK v : v = c.to[1]
    OBVIOUS
  <1>1. /\ v \in Editor!NodesOf(d) /\ pos[v] \in 1..length
        /\ c.from[1] # None => c \in Editor!Edges(d) /\ c.from[1] \in Editor!NodesOf(d)
                                 /\ pos[v] = pos[c.from[1]] + 1
        /\ c.from[1] = None => pos[v] = 1
        /\ \A x \in Editor!Edges(d) : x.to[1] = v => x = c
    BY <1>0, PositionOfTarget
  <1>2. /\ Editor!NodesOf(e) = Editor!NodesOf(d) \cup {n} /\ e.node[n] = kind /\ n # None
        /\ n \notin Editor!NodesOf(d) /\ \A m \in Editor!NodesOf(d) : e.node[m] = d.node[m]
    BY NodeAdded DEF Spliced
  <1>3. PICK before : before = Editor!Link(c.from, Editor!Inner(n, Editor!In(kind).name))
    OBVIOUS
  <1>4. PICK after : after = Editor!Link(Editor!Inner(n, Editor!Out(kind).name), c.to)
    OBVIOUS
  <1>5. /\ before \in e.conns /\ after \in e.conns /\ d.conns \ {c} \subseteq e.conns
        /\ before.from = c.from /\ before.to = Editor!Inner(n, Editor!In(kind).name)
             /\ before.to[1] = n
        /\ after.from[1] = n /\ after.to = c.to /\ after.to[1] = v
    BY <1>0, <1>3, <1>4 DEF Editor!Link, Editor!Inner, Spliced
  <1>6. \A x \in e.conns :
          (x \in d.conns /\ x # c) \/ x = before \/ x = after \/ x.from[1] = None
    <2>1. \A x \in Editor!SideLinks(n, kind, bind) : x.from[1] = None
      BY DEF Editor!SideLinks, Editor!Link, Editor!Outer
    <2>2. QED
      BY <1>3, <1>4, <2>1 DEF Spliced
  <1>7. Fed(e)
    <2> SUFFICES ASSUME NEW w \in Editor!NodesOf(e), NEW p \in Editor!InputPorts(e.node[w])
                 PROVE  \E x \in e.conns : x.to = Editor!Inner(w, p.name)
      BY DEF Fed
    <2>1. CASE w \in Editor!NodesOf(d)
      <3>1. PICK x \in d.conns : x.to = Editor!Inner(w, p.name)
        BY <1>2, <2>1 DEF Fed
      <3>2. QED
        BY <1>5, <3>1
    <2>2. CASE w = n
      <3>1. CASE p = Editor!In(kind)
        BY <1>5, <2>2, <3>1
      <3>2. CASE p \in Editor!Sides(kind)
        <4>1. Editor!Link(Editor!Outer(bind[p.name]), Editor!Inner(n, p.name)) \in e.conns
          BY <3>2 DEF Editor!SideLinks, Spliced
        <4>2. Editor!Link(Editor!Outer(bind[p.name]), Editor!Inner(n, p.name)).to
                = Editor!Inner(n, p.name)
          BY DEF Editor!Link
        <4>3. QED
          BY <2>2, <4>1, <4>2
      <3>3. QED
        BY <1>2, <2>2, <3>1, <3>2 DEF Editor!InputPorts
    <2>3. QED
      BY <1>2, <2>1, <2>2
  <1>8. PICK b : b = pos[v]
    OBVIOUS
  <1>9. /\ length \in Nat /\ \A w \in Editor!NodesOf(d) : pos[w] \in 1..length
        /\ \A i \in 1..length : \E m \in Editor!NodesOf(d) : pos[m] = i
        /\ \A m, w \in Editor!NodesOf(d) : pos[m] = pos[w] => m = w
    BY DEF Chain
  <1>10. b \in 1..length
    BY <1>1, <1>8
  <1>11. /\ length + 1 \in Nat /\ b \in 1..(length + 1)
         /\ \A a \in 1..length : Behind(a, b) \in 1..(length + 1) /\ Behind(a, b) # b
         /\ \A a, a2 \in 1..length : Behind(a, b) = Behind(a2, b) => a = a2
         /\ \A i \in 1..(length + 1) : i = b \/ \E a \in 1..length : Behind(a, b) = i
         /\ \A a, a2 \in 1..length : a2 = a + 1 /\ a2 # b => Behind(a2, b) = Behind(a, b) + 1
         /\ \A a \in 1..length : b = a + 1 => Behind(a, b) = a
         /\ Behind(b, b) = b + 1
         /\ \A a \in 1..length : a # b /\ Behind(a, b) # 1 => a # 1
         /\ Behind(length, b) = length + 1
    <2>1. length \in Nat
      BY <1>9
    <2>2. QED
      BY <1>10, <2>1, RoomFacts
  <1>12. PICK new : new = [w \in Editor!NodesOf(e) |-> IF w = n THEN b ELSE Behind(pos[w], b)]
    OBVIOUS
  <1>13. new[n] = b /\ \A w \in Editor!NodesOf(d) : new[w] = Behind(pos[w], b)
    BY <1>2, <1>12
  <1>14. Chain(e, length + 1, new)
    <2>1. new \in [Editor!NodesOf(e) -> 1..(length + 1)]
      <3>1. \A w \in Editor!NodesOf(e) : new[w] \in 1..(length + 1)
        BY <1>2, <1>9, <1>11, <1>13
      <3>2. QED
        BY <1>12, <3>1
    <2>2. \A i \in 1..(length + 1) : \E w \in Editor!NodesOf(e) : new[w] = i
      <3> SUFFICES ASSUME NEW i \in 1..(length + 1)
                   PROVE  \E w \in Editor!NodesOf(e) : new[w] = i
        OBVIOUS
      <3>1. CASE i = b
        BY <1>2, <1>13, <3>1
      <3>2. CASE i # b
        <4>1. PICK a \in 1..length : Behind(a, b) = i
          BY <1>11, <3>2
        <4>2. PICK w \in Editor!NodesOf(d) : pos[w] = a
          BY <1>9
        <4>3. QED
          BY <1>2, <1>13, <4>1, <4>2
      <3>3. QED
        BY <3>1, <3>2
    <2>3. \A m, w \in Editor!NodesOf(e) : new[m] = new[w] => m = w
      <3>1. \A w \in Editor!NodesOf(d) : new[w] # new[n]
        BY <1>9, <1>11, <1>13
      <3>2. \A m, w \in Editor!NodesOf(d) : new[m] = new[w] => m = w
        BY <1>9, <1>11, <1>13
      <3>3. QED
        BY <1>2, <3>1, <3>2
    <2>4. \A x \in Editor!Edges(e) : new[x.to[1]] = new[x.from[1]] + 1
      <3> SUFFICES ASSUME NEW x \in Editor!Edges(e)
                   PROVE  new[x.to[1]] = new[x.from[1]] + 1
        OBVIOUS
      <3>1. x \in e.conns /\ x.from[1] # None /\ x.to[1] # None
        BY DEF Editor!Edges
      <3>2. CASE x \in d.conns /\ x # c
        <4>1. x \in Editor!Edges(d) /\ x.to[1] # v
          BY <1>1, <3>1, <3>2 DEF Editor!Edges
        <4>2. PICK l, r : l = x.from[1] /\ r = x.to[1]
          OBVIOUS
        <4>3. l \in Editor!NodesOf(d) /\ r \in Editor!NodesOf(d) /\ r # v
          BY <4>1, <4>2, EdgeFacts
        <4>4. pos[r] = pos[l] + 1
          BY <4>1, <4>2 DEF Chain
        <4>5. pos[r] # b /\ pos[l] \in 1..length /\ pos[r] \in 1..length
          BY <1>1, <1>8, <1>9, <4>3
        <4>6. new[l] = Behind(pos[l], b) /\ new[r] = Behind(pos[r], b)
          BY <1>13, <4>3
        <4>7. Behind(pos[r], b) = Behind(pos[l], b) + 1
          BY <1>11, <4>4, <4>5
        <4>8. QED
          BY <4>2, <4>6, <4>7
      <3>3. CASE x = before
        <4>1. PICK l : l = c.from[1]
          OBVIOUS
        <4>2. l # None /\ x.from[1] = l /\ x.to[1] = n
          BY <1>5, <3>1, <3>3, <4>1
        <4>3. l \in Editor!NodesOf(d) /\ b = pos[l] + 1
          BY <1>1, <1>8, <4>1, <4>2
        <4>4. new[l] = pos[l]
          BY <1>9, <1>11, <1>13, <4>3
        <4>5. QED
          BY <1>13, <4>2, <4>3, <4>4
      <3>4. CASE x = after
        <4>1. x.from[1] = n /\ x.to[1] = v
          BY <1>5, <3>4
        <4>2. new[v] = Behind(b, b)
          BY <1>1, <1>8, <1>13
        <4>3. QED
          BY <1>11, <1>13, <4>1, <4>2
      <3>5. QED
        BY <1>6, <3>1, <3>2, <3>3, <3>4
    <2>5. \A w \in Editor!NodesOf(e) : new[w] # 1 => \E x \in Editor!Edges(e) : x.to[1] = w
      <3> SUFFICES ASSUME NEW w \in Editor!NodesOf(e), new[w] # 1
                   PROVE  \E x \in Editor!Edges(e) : x.to[1] = w
        OBVIOUS
      <3>1. CASE w = n
        <4>1. c.from[1] # None
          BY <1>1, <1>8, <1>13, <3>1
        <4>2. before \in Editor!Edges(e)
          BY <1>2, <1>5, <4>1 DEF Editor!Edges
        <4>3. QED
          BY <1>5, <3>1, <4>2
      <3>2. CASE w = v
        <4>1. after.to[1] = w /\ after \in Editor!Edges(e)
          BY <1>0, <1>2, <1>5, <3>2 DEF Editor!Edges, AtRole
        <4>2. QED
          BY <4>1
      <3>3. CASE w \in Editor!NodesOf(d) /\ w # v
        <4>1. pos[w] # b /\ pos[w] \in 1..length /\ new[w] = Behind(pos[w], b)
          BY <1>1, <1>8, <1>9, <1>13, <3>3
        <4>2. pos[w] # 1
          BY <1>11, <4>1
        <4>3. PICK x \in Editor!Edges(d) : x.to[1] = w
          BY <3>3, <4>2 DEF Chain
        <4>4. x # c
          BY <1>0, <3>3, <4>3
        <4>5. x \in Editor!Edges(e)
          BY <1>5, <4>4 DEF Editor!Edges
        <4>6. QED
          BY <4>3, <4>5
      <3>4. QED
        BY <1>2, <3>1, <3>2, <3>3
    <2>6. \E x \in e.conns : x.to[1] = None /\ x.from[1] \in Editor!NodesOf(e)
            /\ new[x.from[1]] = length + 1
      <3>1. PICK x \in d.conns : x.to[1] = None /\ x.from[1] \in Editor!NodesOf(d)
              /\ pos[x.from[1]] = length
        BY DEF Chain
      <3>2. x \in e.conns
        BY <1>5, <3>1 DEF AtRole
      <3>3. new[x.from[1]] = length + 1
        BY <1>11, <1>13, <3>1
      <3>4. QED
        BY <1>2, <3>1, <3>2, <3>3
    <2>7. QED
      BY <1>11, <2>1, <2>2, <2>3, <2>4, <2>5, <2>6 DEF Chain
  <1>15. QED
    BY <1>7, <1>14 DEF IsChain

\* The position of a node after the one at position b has gone.
Ahead(a, b) == IF a < b THEN a ELSE a - 1

\* Positions that close up.
LEMMA GapFacts ==
    ASSUME NEW length \in Nat, NEW b \in 1..length, b # length
    PROVE  /\ length - 1 \in Nat
           /\ \A a \in 1..length : a # b => Ahead(a, b) \in 1..(length - 1)
           /\ \A a, a2 \in 1..length : a # b /\ a2 # b /\ Ahead(a, b) = Ahead(a2, b) => a = a2
           /\ \A i \in 1..(length - 1) : \E a \in 1..length : a # b /\ Ahead(a, b) = i
           /\ \A a, a2 \in 1..length :
                 a # b /\ a2 # b /\ a2 = a + 1 => Ahead(a2, b) = Ahead(a, b) + 1
           /\ \A a, a2 \in 1..length :
                 a2 = b + 1 /\ b = a + 1 => Ahead(a2, b) = Ahead(a, b) + 1
           /\ \A a \in 1..length : a = b + 1 /\ b = 1 => Ahead(a, b) = 1
           /\ \A a \in 1..length : a # b /\ Ahead(a, b) # 1 => a # 1
           /\ Ahead(length, b) = length - 1
  <1>1. ASSUME NEW i \in 1..(length - 1)
        PROVE  \E a \in 1..length : a # b /\ Ahead(a, b) = i
    <2>1. CASE i < b
      <3>1. i \in 1..length /\ i # b /\ Ahead(i, b) = i
        BY <2>1 DEF Ahead
      <3>2. QED
        BY <3>1
    <2>2. CASE ~ (i < b)
      <3>1. i + 1 \in 1..length /\ i + 1 # b /\ Ahead(i + 1, b) = i
        BY <2>2 DEF Ahead
      <3>2. QED
        BY <3>1
    <2>3. QED
      BY <2>1, <2>2
  <1>2. QED
    BY <1>1 DEF Ahead

\* A node goes, and the connections before and behind it become one.
Bridged(d, n, before, after, e) ==
    /\ n \in Editor!NodesOf(d) /\ before \in d.conns /\ after \in d.conns
    /\ before.to = Editor!Inner(n, Editor!In(d.node[n]).name)
         /\ after.from = Editor!Inner(n, Editor!Out(d.node[n]).name)
    /\ ~ \E c \in d.conns : c.from[1] = n /\ c.to[1] = None
    /\ e.node = [d.node EXCEPT ![n] = None]
    /\ e.conns = {c \in d.conns : c.from[1] # n /\ c.to[1] # n}
         \cup {Editor!Link(before.from, after.to)}

\* A node that is removed leaves a chain that is one shorter.
LEMMA BridgeKeepsChain ==
    ASSUME Editor!EditorAssumption, NEW d, IsDraft(d), Editor!Valid(d), Fed(d), NEW length, NEW pos,
           Chain(d, length, pos), NEW n, NEW before, NEW after,
           NEW e, Bridged(d, n, before, after, e)
    PROVE  IsChain(e)
  <1>1. /\ n \in Editor!NodesOf(d) /\ before \in d.conns /\ after \in d.conns /\ n # None
        /\ before.to[1] = n /\ after.from[1] = n /\ after.to[1] # None /\ AtRole(d, before)
    <2>1. /\ n \in Editor!NodesOf(d) /\ before \in d.conns /\ after \in d.conns
          /\ before.to = Editor!Inner(n, Editor!In(d.node[n]).name)
               /\ after.from = Editor!Inner(n, Editor!Out(d.node[n]).name)
          /\ ~ \E c \in d.conns : c.from[1] = n /\ c.to[1] = None
      BY DEF Bridged
    <2>2. n # None
      BY <2>1, KindOfNode DEF Editor!EditorAssumption
    <2>3. before.to[1] = n /\ after.from[1] = n
      BY <2>1 DEF Editor!Inner
    <2>4. QED
      BY <2>1, <2>2, <2>3 DEF AtRole
  <1>2. /\ Editor!NodesOf(e) = Editor!NodesOf(d) \ {n}
             /\ \A m \in Editor!NodesOf(d) \ {n} : e.node[m] = d.node[m]
    <2>1. /\ d.node \in [NodeIds -> NodeKinds \cup {None}] /\ n \in NodeIds
          /\ e.node = [d.node EXCEPT ![n] = None]
      BY <1>1, KindOfNode DEF IsDraft, Bridged
    <2>2. e.node[n] = None /\ \A m \in NodeIds \ {n} : e.node[m] = d.node[m]
      BY <2>1
    <2>3. QED
      BY <2>1, <2>2 DEF Editor!NodesOf
  <1>3. PICK b : b = pos[n]
    OBVIOUS
  <1>4. /\ b \in 1..length
        /\ before.from[1] # None => before.from[1] \in Editor!NodesOf(d)
             /\ b = pos[before.from[1]] + 1
                                      /\ before \in Editor!Edges(d)
        /\ before.from[1] = None => b = 1
    BY <1>1, <1>3, PositionOfTarget
  <1>5. PICK w : w = after.to[1]
    OBVIOUS
  <1>6. /\ after \in Editor!Edges(d) /\ w \in Editor!NodesOf(d) /\ w # n /\ pos[w] = b + 1
             /\ w # None
        /\ \A x \in Editor!Edges(d) : x.from[1] = n => x.to[1] = w /\ x.to = after.to
    <2>1. after \in Editor!Edges(d)
      BY <1>1 DEF Editor!Edges
    <2>2. w \in Editor!NodesOf(d) /\ w # n /\ w # None
            /\ after.to = Editor!Inner(w, Editor!In(d.node[w]).name)
      BY <1>1, <1>5, <2>1, EdgeFacts
    <2>3. pos[w] = b + 1
      BY <1>1, <1>3, <1>5, <2>1 DEF Chain
    <2>4. ASSUME NEW x \in Editor!Edges(d), x.from[1] = n PROVE x.to[1] = w /\ x.to = after.to
      <3>1. x.to[1] = w
        BY <1>1, <1>5, <2>1, <2>4 DEF Editor!Valid, Editor!ConnectionsValid
      <3>2. x.to = Editor!Inner(x.to[1], Editor!In(d.node[x.to[1]]).name)
        BY EdgeFacts
      <3>3. QED
        BY <2>2, <3>1, <3>2
    <2>5. QED
      BY <2>1, <2>2, <2>3, <2>4
  <1>7. PICK bridge : bridge = Editor!Link(before.from, after.to)
    OBVIOUS
  <1>8. /\ bridge \in e.conns /\ bridge.from = before.from /\ bridge.to = after.to
             /\ bridge.to[1] = w
        /\ \A x \in d.conns : x.from[1] # n /\ x.to[1] # n => x \in e.conns
        /\ \A x \in e.conns : x = bridge \/ (x \in d.conns /\ x.from[1] # n /\ x.to[1] # n)
    BY <1>5, <1>7 DEF Editor!Link, Bridged
  <1>9. Fed(e)
    <2> SUFFICES ASSUME NEW m \in Editor!NodesOf(e), NEW p \in Editor!InputPorts(e.node[m])
                 PROVE  \E x \in e.conns : x.to = Editor!Inner(m, p.name)
      BY DEF Fed
    <2>1. m \in Editor!NodesOf(d) /\ m # n /\ p \in Editor!InputPorts(d.node[m])
      BY <1>2
    <2>2. PICK x \in d.conns : x.to = Editor!Inner(m, p.name)
      BY <2>1 DEF Fed
    <2>3. x.to[1] = m /\ m # None
      BY <2>1, <2>2, KindOfNode DEF Editor!Inner, Editor!EditorAssumption
    <2>4. CASE x.from[1] # n
      BY <1>8, <2>1, <2>2, <2>3, <2>4
    <2>5. CASE x.from[1] = n
      <3>1. x \in Editor!Edges(d)
        BY <1>1, <2>3, <2>5 DEF Editor!Edges
      <3>2. x.to = bridge.to
        BY <1>6, <1>8, <2>5, <3>1
      <3>3. QED
        BY <1>8, <2>2, <3>2
    <2>6. QED
      BY <2>4, <2>5
  <1>10. /\ length \in Nat /\ \A m \in Editor!NodesOf(d) : pos[m] \in 1..length
         /\ \A i \in 1..length : \E m \in Editor!NodesOf(d) : pos[m] = i
         /\ \A m, m2 \in Editor!NodesOf(d) : pos[m] = pos[m2] => m = m2
    BY DEF Chain
  <1>11. /\ length - 1 \in Nat
         /\ \A a \in 1..length : a # b => Ahead(a, b) \in 1..(length - 1)
         /\ \A a, a2 \in 1..length : a # b /\ a2 # b /\ Ahead(a, b) = Ahead(a2, b) => a = a2
         /\ \A i \in 1..(length - 1) : \E a \in 1..length : a # b /\ Ahead(a, b) = i
         /\ \A a, a2 \in 1..length :
               a # b /\ a2 # b /\ a2 = a + 1 => Ahead(a2, b) = Ahead(a, b) + 1
         /\ \A a, a2 \in 1..length :
               a2 = b + 1 /\ b = a + 1 => Ahead(a2, b) = Ahead(a, b) + 1
         /\ \A a \in 1..length : a = b + 1 /\ b = 1 => Ahead(a, b) = 1
         /\ \A a \in 1..length : a # b /\ Ahead(a, b) # 1 => a # 1
         /\ Ahead(length, b) = length - 1
    <2>1. length \in Nat /\ b # length
      <3>1. PICK a : a = pos[w]
        OBVIOUS
      <3>2. a \in 1..length /\ a = b + 1 /\ length \in Nat
        BY <1>6, <1>10, <3>1
      <3>3. QED
        BY <1>4, <3>2
    <2>2. QED
      BY <1>4, <2>1, GapFacts
  <1>12. PICK new : new = [m \in Editor!NodesOf(e) |-> Ahead(pos[m], b)]
    OBVIOUS
  <1>13. \A m \in Editor!NodesOf(e) : new[m] = Ahead(pos[m], b) /\ m \in Editor!NodesOf(d)
           /\ pos[m] # b
    BY <1>1, <1>2, <1>3, <1>10, <1>12
  <1>14. Chain(e, length - 1, new)
    <2>1. new \in [Editor!NodesOf(e) -> 1..(length - 1)]
      <3>1. \A m \in Editor!NodesOf(e) : new[m] \in 1..(length - 1)
        BY <1>10, <1>11, <1>13
      <3>2. QED
        BY <1>12, <3>1
    <2>2. \A i \in 1..(length - 1) : \E m \in Editor!NodesOf(e) : new[m] = i
      <3> SUFFICES ASSUME NEW i \in 1..(length - 1)
                   PROVE  \E m \in Editor!NodesOf(e) : new[m] = i
        OBVIOUS
      <3>1. PICK a \in 1..length : a # b /\ Ahead(a, b) = i
        BY <1>11
      <3>2. PICK m \in Editor!NodesOf(d) : pos[m] = a
        BY <1>10
      <3>3. m \in Editor!NodesOf(e)
        BY <1>2, <1>3, <3>1, <3>2
      <3>4. QED
        BY <1>13, <3>1, <3>2, <3>3
    <2>3. \A m, m2 \in Editor!NodesOf(e) : new[m] = new[m2] => m = m2
      BY <1>10, <1>11, <1>13
    <2>4. \A x \in Editor!Edges(e) : new[x.to[1]] = new[x.from[1]] + 1
      <3> SUFFICES ASSUME NEW x \in Editor!Edges(e)
                   PROVE  new[x.to[1]] = new[x.from[1]] + 1
        OBVIOUS
      <3>1. x \in e.conns /\ x.from[1] # None /\ x.to[1] # None
        BY DEF Editor!Edges
      <3>2. CASE x \in d.conns /\ x.from[1] # n /\ x.to[1] # n
        <4>1. x \in Editor!Edges(d)
          BY <3>1, <3>2 DEF Editor!Edges
        <4>2. PICK l, r : l = x.from[1] /\ r = x.to[1]
          OBVIOUS
        <4>3. l \in Editor!NodesOf(e) /\ r \in Editor!NodesOf(e)
          BY <1>2, <3>2, <4>1, <4>2, EdgeFacts
        <4>4. pos[r] = pos[l] + 1
          BY <4>1, <4>2 DEF Chain
        <4>5. pos[r] # b /\ pos[l] # b /\ pos[l] \in 1..length /\ pos[r] \in 1..length
          BY <1>10, <1>13, <4>3
        <4>6. new[l] = Ahead(pos[l], b) /\ new[r] = Ahead(pos[r], b)
          BY <1>13, <4>3
        <4>7. Ahead(pos[r], b) = Ahead(pos[l], b) + 1
          BY <1>11, <4>4, <4>5
        <4>8. QED
          BY <4>2, <4>6, <4>7
      <3>3. CASE x = bridge
        <4>1. PICK l : l = before.from[1]
          OBVIOUS
        <4>2. l # None /\ x.from[1] = l /\ x.to[1] = w
          BY <1>8, <3>1, <3>3, <4>1
        <4>3. l \in Editor!NodesOf(d) /\ b = pos[l] + 1 /\ l # n
          BY <1>1, <1>4, <4>1, <4>2, EdgeFacts
        <4>4. /\ l \in Editor!NodesOf(e) /\ w \in Editor!NodesOf(e)
              /\ pos[l] \in 1..length /\ pos[w] \in 1..length
          BY <1>2, <1>6, <1>10, <4>3
        <4>5. new[l] = Ahead(pos[l], b) /\ new[w] = Ahead(pos[w], b)
          BY <1>13, <4>4
        <4>6. Ahead(pos[w], b) = Ahead(pos[l], b) + 1
          BY <1>6, <1>11, <4>3, <4>4
        <4>7. QED
          BY <4>2, <4>5, <4>6
      <3>4. QED
        BY <1>8, <3>1, <3>2, <3>3
    <2>5. \A m \in Editor!NodesOf(e) : new[m] # 1 => \E x \in Editor!Edges(e) : x.to[1] = m
      <3> SUFFICES ASSUME NEW m \in Editor!NodesOf(e), new[m] # 1
                   PROVE  \E x \in Editor!Edges(e) : x.to[1] = m
        OBVIOUS
      <3>1. CASE m = w
        <4>1. before.from[1] # None
          <5>1. pos[m] \in 1..length /\ pos[m] = b + 1
            BY <1>6, <1>10, <3>1
          <5>2. b # 1
            BY <1>11, <1>13, <5>1
          <5>3. QED
            BY <1>4, <5>2
        <4>2. bridge \in Editor!Edges(e)
          BY <1>6, <1>8, <4>1 DEF Editor!Edges
        <4>3. QED
          BY <1>8, <3>1, <4>2
      <3>2. CASE m # w
        <4>1. m \in Editor!NodesOf(d) /\ pos[m] # b /\ pos[m] \in 1..length /\ Ahead(pos[m], b) # 1
          BY <1>10, <1>13
        <4>2. pos[m] # 1
          BY <1>11, <4>1
        <4>3. PICK x \in Editor!Edges(d) : x.to[1] = m
          BY <4>1, <4>2 DEF Chain
        <4>4. x.from[1] # n /\ x.to[1] # n
          BY <1>2, <1>6, <3>2, <4>3
        <4>5. x \in Editor!Edges(e)
          BY <1>8, <4>4 DEF Editor!Edges
        <4>6. QED
          BY <4>3, <4>5
      <3>3. QED
        BY <3>1, <3>2
    <2>6. \E x \in e.conns : x.to[1] = None /\ x.from[1] \in Editor!NodesOf(e)
            /\ new[x.from[1]] = length - 1
      <3>1. PICK x \in d.conns : x.to[1] = None /\ x.from[1] \in Editor!NodesOf(d)
              /\ pos[x.from[1]] = length
        BY DEF Chain
      <3>2. x.from[1] # n
        BY <3>1 DEF Bridged
      <3>3. x \in e.conns /\ x.from[1] \in Editor!NodesOf(e)
        BY <1>1, <1>2, <1>8, <3>1, <3>2
      <3>4. new[x.from[1]] = length - 1
        BY <1>11, <1>13, <3>1, <3>3
      <3>5. QED
        BY <3>1, <3>3, <3>4
    <2>7. QED
      BY <1>11, <2>1, <2>2, <2>3, <2>4, <2>5, <2>6 DEF Chain
  <1>15. QED
    BY <1>9, <1>14 DEF IsChain

\* The outputs of the workflow, and the connection from the last node, move
\* to a new node behind it.
Appended(d, last, n, kind, bind, moved, e) ==
    /\ Placed(d, n, kind, e)
    /\ last \in Editor!NodesOf(d)
    /\ moved = {c \in d.conns : c.from = Editor!Inner(last, Editor!Out(d.node[last]).name)
         /\ c.to[1] = None}
    /\ moved # {}
    /\ ~ \E c \in Editor!Edges(d) : c.from = Editor!Inner(last, Editor!Out(d.node[last]).name)
    /\ e.conns = (d.conns \ moved)
         \cup {Editor!Link(Editor!Inner(n, Editor!Out(kind).name), c.to) : c \in moved}
                   \cup {Editor!Link(Editor!Inner(last, Editor!Out(d.node[last]).name),
                     Editor!Inner(n, Editor!In(kind).name))}
                   \cup Editor!SideLinks(n, kind, bind)

\* A node that is put behind the last one makes the chain longer.
LEMMA AppendKeepsChain ==
    ASSUME Editor!EditorAssumption, NEW d, IsDraft(d), Editor!Valid(d), Fed(d), NEW length, NEW pos,
           Chain(d, length, pos), NEW last, NEW n \in NodeIds, NEW kind \in NodeKinds, NEW bind,
           NEW moved, NEW e, Appended(d, last, n, kind, bind, moved, e)
    PROVE  IsChain(e)
  <1>1. /\ Editor!NodesOf(e) = Editor!NodesOf(d) \cup {n} /\ e.node[n] = kind /\ n # None
        /\ n \notin Editor!NodesOf(d) /\ \A m \in Editor!NodesOf(d) : e.node[m] = d.node[m]
        /\ last \in Editor!NodesOf(d) /\ last # None
    <2>1. /\ Editor!NodesOf(e) = Editor!NodesOf(d) \cup {n} /\ e.node[n] = kind /\ n # None
          /\ n \notin Editor!NodesOf(d) /\ \A m \in Editor!NodesOf(d) : e.node[m] = d.node[m]
      <3>1. Placed(d, n, kind, e)
        BY DEF Appended
      <3>2. QED
        BY <3>1, NodeAdded
    <2>2. last \in Editor!NodesOf(d)
      BY DEF Appended
    <2>3. last # None
      BY <2>2, KindOfNode DEF Editor!EditorAssumption
    <2>4. QED
      BY <2>1, <2>2, <2>3
  <1>2. PICK from : from = Editor!Inner(last, Editor!Out(d.node[last]).name)
    OBVIOUS
  <1>3. PICK link : link = Editor!Link(from, Editor!Inner(n, Editor!In(kind).name))
    OBVIOUS
  <1>4. /\ link \in e.conns /\ link.from[1] = last
        /\ link.to = Editor!Inner(n, Editor!In(kind).name) /\ link.to[1] = n
        /\ \A x \in d.conns : x.to[1] # None => x \in e.conns
    BY <1>2, <1>3 DEF Editor!Link, Editor!Inner, Appended
  <1>5. \A x \in e.conns : x \in d.conns \/ x = link \/ x.from[1] = None \/ x.to[1] = None
    <2>1. \A x \in Editor!SideLinks(n, kind, bind) : x.from[1] = None
      BY DEF Editor!SideLinks, Editor!Link, Editor!Outer
    <2>2. \A c \in moved : Editor!Link(Editor!Inner(n, Editor!Out(kind).name), c.to).to[1] = None
      BY DEF Editor!Link, Appended
    <2>3. QED
      BY <1>2, <1>3, <2>1, <2>2 DEF Appended
  <1>6. PICK out \in e.conns : out.to[1] = None /\ out.from[1] = n
    <2>1. PICK c \in moved : c.to[1] = None
      BY DEF Appended
    <2>2. PICK out : out = Editor!Link(Editor!Inner(n, Editor!Out(kind).name), c.to)
      OBVIOUS
    <2>3. out \in e.conns
      BY <2>2 DEF Appended
    <2>4. out.to[1] = None /\ out.from[1] = n
      BY <2>1, <2>2 DEF Editor!Link, Editor!Inner
    <2>5. QED
      BY <2>3, <2>4
  <1>7. Fed(e)
    <2> SUFFICES ASSUME NEW w \in Editor!NodesOf(e), NEW p \in Editor!InputPorts(e.node[w])
                 PROVE  \E x \in e.conns : x.to = Editor!Inner(w, p.name)
      BY DEF Fed
    <2>1. CASE w \in Editor!NodesOf(d)
      <3>1. PICK x \in d.conns : x.to = Editor!Inner(w, p.name)
        BY <1>1, <2>1 DEF Fed
      <3>2. x.to[1] # None
        BY <2>1, <3>1, KindOfNode DEF Editor!Inner, Editor!EditorAssumption
      <3>3. QED
        BY <1>4, <3>1, <3>2
    <2>2. CASE w = n
      <3>1. CASE p = Editor!In(kind)
        BY <1>4, <2>2, <3>1
      <3>2. CASE p \in Editor!Sides(kind)
        <4>1. Editor!Link(Editor!Outer(bind[p.name]), Editor!Inner(n, p.name)) \in e.conns
          BY <3>2 DEF Editor!SideLinks, Appended
        <4>2. Editor!Link(Editor!Outer(bind[p.name]), Editor!Inner(n, p.name)).to
                = Editor!Inner(n, p.name)
          BY DEF Editor!Link
        <4>3. QED
          BY <2>2, <4>1, <4>2
      <3>3. QED
        BY <1>1, <2>2, <3>1, <3>2 DEF Editor!InputPorts
    <2>3. QED
      BY <1>1, <2>1, <2>2
  <1>8. /\ length \in Nat /\ \A w \in Editor!NodesOf(d) : pos[w] \in 1..length
        /\ \A i \in 1..length : \E m \in Editor!NodesOf(d) : pos[m] = i
        /\ \A m, w \in Editor!NodesOf(d) : pos[m] = pos[w] => m = w
    BY DEF Chain
  <1>9. pos[last] = length
    <2> SUFFICES ASSUME pos[last] # length
                 PROVE  FALSE
      OBVIOUS
    <2>1. PICK a : a = pos[last]
      OBVIOUS
    <2>2. a \in 1..length /\ a + 1 \in 1..length /\ a + 1 # 1
      <3>1. a \in 1..length /\ a # length
        BY <1>1, <1>8, <2>1
      <3>2. QED
        BY <1>8, <3>1
    <2>3. PICK m \in Editor!NodesOf(d) : pos[m] = a + 1
      BY <1>8, <2>2
    <2>4. PICK x \in Editor!Edges(d) : x.to[1] = m
      BY <2>2, <2>3 DEF Chain
    <2>5. PICK l : l = x.from[1]
      OBVIOUS
    <2>6. l \in Editor!NodesOf(d) /\ x.from = Editor!Inner(l, Editor!Out(d.node[l]).name)
      BY <2>5, EdgeFacts
    <2>7. pos[m] = pos[l] + 1
      BY <2>4, <2>5 DEF Chain
    <2>8. l = last
      <3>1. PICK i : i = pos[l]
        OBVIOUS
      <3>2. i \in 1..length /\ a + 1 = i + 1
        BY <1>8, <2>3, <2>6, <2>7, <3>1
      <3>3. i = a
        BY <1>8, <2>2, <3>2
      <3>4. QED
        BY <1>1, <1>8, <2>1, <2>6, <3>1, <3>3
    <2>9. QED
      BY <2>6, <2>8 DEF Appended
  <1>10. PICK new : new = [w \in Editor!NodesOf(e) |-> IF w = n THEN length + 1 ELSE pos[w]]
    OBVIOUS
  <1>11. new[n] = length + 1 /\ \A w \in Editor!NodesOf(d) : new[w] = pos[w]
    BY <1>1, <1>10
  <1>12. Chain(e, length + 1, new)
    <2>1. new \in [Editor!NodesOf(e) -> 1..(length + 1)]
      <3>1. length + 1 \in 1..(length + 1) /\ \A i \in 1..length : i \in 1..(length + 1)
        BY <1>8
      <3>2. \A w \in Editor!NodesOf(e) : new[w] \in 1..(length + 1)
        BY <1>1, <1>8, <1>11, <3>1
      <3>3. QED
        BY <1>10, <3>2
    <2>2. \A i \in 1..(length + 1) : \E w \in Editor!NodesOf(e) : new[w] = i
      <3>1. \A i \in 1..(length + 1) : i = length + 1 \/ i \in 1..length
        BY <1>8
      <3>2. QED
        BY <1>1, <1>8, <1>11, <3>1
    <2>3. \A m, w \in Editor!NodesOf(e) : new[m] = new[w] => m = w
      <3>1. length + 1 \notin 1..length
        BY <1>8
      <3>2. QED
        BY <1>1, <1>8, <1>11, <3>1
    <2>4. \A x \in Editor!Edges(e) : new[x.to[1]] = new[x.from[1]] + 1
      <3> SUFFICES ASSUME NEW x \in Editor!Edges(e)
                   PROVE  new[x.to[1]] = new[x.from[1]] + 1
        OBVIOUS
      <3>1. x \in e.conns /\ x.from[1] # None /\ x.to[1] # None
        BY DEF Editor!Edges
      <3>2. CASE x \in d.conns
        <4>1. x \in Editor!Edges(d)
          BY <3>1, <3>2 DEF Editor!Edges
        <4>2. x.from[1] \in Editor!NodesOf(d) /\ x.to[1] \in Editor!NodesOf(d)
          BY <4>1, EdgeFacts
        <4>3. pos[x.to[1]] = pos[x.from[1]] + 1
          BY <4>1 DEF Chain
        <4>4. QED
          BY <1>11, <4>2, <4>3
      <3>3. CASE x = link
        BY <1>1, <1>4, <1>9, <1>11, <3>3
      <3>4. QED
        BY <1>5, <3>1, <3>2, <3>3
    <2>5. \A w \in Editor!NodesOf(e) : new[w] # 1 => \E x \in Editor!Edges(e) : x.to[1] = w
      <3> SUFFICES ASSUME NEW w \in Editor!NodesOf(e), new[w] # 1
                   PROVE  \E x \in Editor!Edges(e) : x.to[1] = w
        OBVIOUS
      <3>1. CASE w = n
        <4>1. link \in Editor!Edges(e)
          BY <1>1, <1>4 DEF Editor!Edges
        <4>2. QED
          BY <1>4, <3>1, <4>1
      <3>2. CASE w \in Editor!NodesOf(d)
        <4>1. PICK x \in Editor!Edges(d) : x.to[1] = w
          BY <1>11, <3>2 DEF Chain
        <4>2. x \in Editor!Edges(e)
          BY <1>4 DEF Editor!Edges
        <4>3. QED
          BY <4>1, <4>2
      <3>3. QED
        BY <1>1, <3>1, <3>2
    <2>6. \E x \in e.conns : x.to[1] = None /\ x.from[1] \in Editor!NodesOf(e)
            /\ new[x.from[1]] = length + 1
      BY <1>1, <1>6, <1>11
    <2>7. length + 1 \in Nat
      BY <1>8
    <2>8. QED
      BY <2>1, <2>2, <2>3, <2>4, <2>5, <2>6, <2>7 DEF Chain
  <1>13. QED
    BY <1>7, <1>12 DEF IsChain

\* Documents with the same nodes, whose connections lead from and to the same
\* ones.
SameEnds(d, e) ==
    /\ Editor!NodesOf(e) = Editor!NodesOf(d)
    /\ \A x \in Editor!Edges(e) :
         \E c \in Editor!Edges(d) : x.from[1] = c.from[1] /\ x.to[1] = c.to[1]
    /\ \A c \in Editor!Edges(d) :
         \E x \in Editor!Edges(e) : x.from[1] = c.from[1] /\ x.to[1] = c.to[1]
    /\ \A c \in d.conns : c.to[1] = None =>
          \E x \in e.conns : x.to[1] = None /\ x.from[1] = c.from[1]

\* They have the same positions.
LEMMA SameEndsKeepChain ==
    ASSUME NEW d, NEW e, SameEnds(d, e), IsChain(d), Fed(e)
    PROVE  IsChain(e)
  <1>1. ASSUME NEW length, NEW pos, Chain(d, length, pos) PROVE Chain(e, length, pos)
    <2>1. \A x \in Editor!Edges(e) : pos[x.to[1]] = pos[x.from[1]] + 1
      BY <1>1 DEF Chain, SameEnds
    <2>2. \A n \in Editor!NodesOf(e) : pos[n] # 1 => \E x \in Editor!Edges(e) : x.to[1] = n
      BY <1>1 DEF Chain, SameEnds
    <2>3. \E x \in e.conns : x.to[1] = None /\ x.from[1] \in Editor!NodesOf(e)
            /\ pos[x.from[1]] = length
      BY <1>1 DEF Chain, SameEnds
    <2>4. QED
      BY <1>1, <2>1, <2>2, <2>3 DEF Chain, SameEnds
  <1>2. Editor!NodesOf(e) = Editor!NodesOf(d)
    BY DEF SameEnds
  <1>3. QED
    BY <1>1, <1>2 DEF IsChain

\* Connections of a command have two ends.
LEMMA LinksAreTyped ==
    ASSUME Editor!EditorAssumption, NEW n \in NodeIds, NEW kind \in NodeKinds,
           NEW bind \in Editor!Bindings(kind)
    PROVE  /\ Editor!SideLinks(n, kind, bind) \subseteq Links
           /\ Editor!Inner(n, Editor!In(kind).name) \in Ends
                /\ Editor!Inner(n, Editor!Out(kind).name) \in Ends
           /\ \A x, y \in Ends : Editor!Link(x, y) \in Links
  <1>1. \A x, y \in Ends : Editor!Link(x, y) \in Links
    BY DEF Editor!Link, Links
  <1>2. Editor!Inner(n, Editor!In(kind).name) \in Ends
          /\ Editor!Inner(n, Editor!Out(kind).name) \in Ends
    BY Catalogue DEF Editor!Inner, Ends
  <1>3. ASSUME NEW s \in Editor!Sides(kind)
        PROVE  Editor!Link(Editor!Outer(bind[s.name]), Editor!Inner(n, s.name)) \in Links
    <2>1. bind[s.name] \in PortNames /\ s.name \in Names
      BY Catalogue DEF Editor!Bindings
    <2>2. Editor!Outer(bind[s.name]) \in Ends /\ Editor!Inner(n, s.name) \in Ends
      BY <2>1 DEF Editor!Outer, Editor!Inner, Ends, Names
    <2>3. QED
      BY <1>1, <2>2
  <1>4. QED
    BY <1>1, <1>2, <1>3 DEF Editor!SideLinks

\* The first node.
LEMMA CreateFromBlankStep ==
    ASSUME Editor!EditorAssumption, IsDraft(part1), NEW n \in NodeIds, NEW kind \in NodeKinds,
           NEW bind \in Editor!Bindings(kind), Editor!CreateFromBlank(n, kind, bind)
    PROVE  IsDraft(part1') /\ IsChain(part1')
  <1>1. PICK e : e = part1'
    OBVIOUS
  <1>2. PICK start : start = Editor!Link(Editor!Outer(Editor!In(kind).name),
          Editor!Inner(n, Editor!In(kind).name))
    OBVIOUS
  <1>3. PICK end : end = Editor!Link(Editor!Inner(n, Editor!Out(kind).name),
          Editor!Outer(Editor!Out(kind).name))
    OBVIOUS
  <1>4. /\ Editor!NodesOf(part1) = {} /\ Placed(part1, n, kind, e) /\ DOMAIN e = DOMAIN part1
        /\ e.conns = {start, end} \cup Editor!SideLinks(n, kind, bind)
    <2>1. e = [part1 EXCEPT !.node[n] = kind,
            !.conns = {start, end} \cup Editor!SideLinks(n, kind, bind)]
      BY <1>1, <1>2, <1>3 DEF Editor!CreateFromBlank, Editor!Accept
    <2>2. Editor!NodesOf(part1) = {} /\ part1.node[n] = None
      BY DEF Editor!CreateFromBlank, Editor!NodesOf
    <2>3. QED
      BY <2>1, <2>2 DEF IsDraft, Placed
  <1>5. /\ Editor!NodesOf(e) = {n} /\ e.node[n] = kind /\ n # None
    BY <1>4, NodeAdded
  <1>6. IsDraft(e)
    <2>1. e.node \in [NodeIds -> NodeKinds \cup {None}]
      BY <1>4 DEF IsDraft, Placed
    <2>2. start \in Links /\ end \in Links
      <3>1. Editor!Outer(Editor!In(kind).name) \in Ends
              /\ Editor!Outer(Editor!Out(kind).name) \in Ends
        BY Catalogue DEF Editor!Outer, Ends
      <3>2. QED
        BY <1>2, <1>3, <3>1, LinksAreTyped
    <2>3. QED
      BY <1>4, <2>1, <2>2, LinksAreTyped DEF IsDraft
  <1>7. /\ start.from[1] = None /\ start.to = Editor!Inner(n, Editor!In(kind).name)
        /\ end.from[1] = n /\ end.to[1] = None
    BY <1>2, <1>3 DEF Editor!Link, Editor!Inner, Editor!Outer
  <1>8. Editor!Edges(e) = {}
    <2>1. \A x \in Editor!SideLinks(n, kind, bind) : x.from[1] = None
      BY DEF Editor!SideLinks, Editor!Link, Editor!Outer
    <2>2. QED
      BY <1>4, <1>7, <2>1 DEF Editor!Edges
  <1>9. Fed(e)
    <2> SUFFICES ASSUME NEW p \in Editor!InputPorts(kind)
                 PROVE  \E x \in e.conns : x.to = Editor!Inner(n, p.name)
      BY <1>5 DEF Fed
    <2>1. CASE p = Editor!In(kind)
      BY <1>4, <1>7, <2>1
    <2>2. CASE p \in Editor!Sides(kind)
      <3>1. Editor!Link(Editor!Outer(bind[p.name]), Editor!Inner(n, p.name)) \in e.conns
        BY <1>4, <2>2 DEF Editor!SideLinks
      <3>2. Editor!Link(Editor!Outer(bind[p.name]), Editor!Inner(n, p.name)).to
              = Editor!Inner(n, p.name)
        BY DEF Editor!Link
      <3>3. QED
        BY <3>1, <3>2
    <2>3. QED
      BY <2>1, <2>2 DEF Editor!InputPorts
  <1>10. PICK pos : pos = [m \in Editor!NodesOf(e) |-> 1]
    OBVIOUS
  <1>11. Chain(e, 1, pos)
    <2>1. /\ 1 \in Nat /\ pos \in [Editor!NodesOf(e) -> 1..1] /\ \A i \in 1..1 : i = 1
          /\ pos[n] = 1
      BY <1>5, <1>10
    <2>2. \E x \in e.conns : x.to[1] = None /\ x.from[1] \in Editor!NodesOf(e) /\ pos[x.from[1]] = 1
      BY <1>4, <1>5, <1>7, <2>1
    <2>3. QED
      BY <1>5, <1>8, <2>1, <2>2 DEF Chain
  <1>12. QED
    BY <1>1, <1>6, <1>9, <1>11 DEF IsChain

\* A node is put into a connection between two nodes.
LEMMA InsertBetweenStep ==
    ASSUME Editor!EditorAssumption, EditorInv, NEW c \in part1.conns, NEW n \in NodeIds,
           NEW kind \in NodeKinds,
           NEW bind \in Editor!Bindings(kind), Editor!InsertBetween(c, n, kind, bind)
    PROVE  IsDraft(part1') /\ IsChain(part1')
  <1>1. PICK e : e = part1'
    OBVIOUS
  <1>2. IsDraft(part1) /\ Editor!Valid(part1) /\ Fed(part1) /\ c \in Editor!Edges(part1)
          /\ Editor!Valid(e)
    BY <1>1 DEF EditorInv, IsChain, Editor!InsertBetween, Editor!Accept
  <1>3. Spliced(part1, c, n, kind, bind, e) /\ DOMAIN e = DOMAIN part1
    <2>1. PICK links : links = (part1.conns \ {c})
             \cup {Editor!Link(c.from, Editor!Inner(n, Editor!In(kind).name)),
               Editor!Link(Editor!Inner(n, Editor!Out(kind).name), c.to)}
             \cup Editor!SideLinks(n, kind, bind)
      OBVIOUS
    <2>2. e = [part1 EXCEPT !.node[n] = kind, !.conns = links] /\ part1.node[n] = None
      BY <1>1, <2>1 DEF Editor!InsertBetween, Editor!Accept
    <2>3. e.node = [part1.node EXCEPT ![n] = kind] /\ e.conns = links /\ DOMAIN e = DOMAIN part1
      BY <1>2, <2>2 DEF IsDraft
    <2>4. QED
      BY <2>1, <2>2, <2>3 DEF Spliced, Placed
  <1>4. AtRole(part1, c) /\ Editor!NodesOf(part1) # {} /\ c.from \in Ends /\ c.to \in Ends
    BY <1>2, EdgeFacts DEF AtRole, IsDraft, Links
  <1>5. IsDraft(e)
    <2>1. e.node \in [NodeIds -> NodeKinds \cup {None}]
      BY <1>2, <1>3 DEF IsDraft, Spliced, Placed
    <2>2. e.conns \subseteq Links
      BY <1>2, <1>3, <1>4, LinksAreTyped DEF IsDraft, Spliced
    <2>3. QED
      BY <1>2, <1>3, <2>1, <2>2 DEF IsDraft
  <1>6. PICK length, pos : Chain(part1, length, pos)
    BY <1>4 DEF EditorInv, IsChain
  <1>7. IsChain(e)
    BY <1>2, <1>3, <1>4, <1>5, <1>6, SpliceKeepsChain
  <1>8. QED
    BY <1>1, <1>5, <1>7

\* A node is put before the first one.
LEMMA PrependBeforeStep ==
    ASSUME Editor!EditorAssumption, EditorInv, NEW first \in NodeIds, NEW n \in NodeIds,
           NEW kind \in NodeKinds,
           NEW bind \in Editor!Bindings(kind), Editor!PrependBefore(first, n, kind, bind)
    PROVE  IsDraft(part1') /\ IsChain(part1')
  <1>1. PICK e : e = part1'
    OBVIOUS
  <1>2. PICK to : to = Editor!Inner(first, Editor!In(part1.node[first]).name)
    OBVIOUS
  <1>3. PICK c \in part1.conns :
          /\ c.to = to /\ c.from[1] = None /\ part1.node[first] # None /\ part1.node[n] = None
          /\ Editor!Accept([part1 EXCEPT !.node[n] = kind, !.in[c.from[2]] = Editor!In(kind).type,
                 !.conns = (@ \ {c}) \cup {Editor!Link(c.from,
                   Editor!Inner(n, Editor!In(kind).name)),
                                           Editor!Link(Editor!Inner(n, Editor!Out(kind).name), to)}
                           \cup Editor!SideLinks(n, kind, bind)])
    BY <1>2 DEF Editor!PrependBefore
  <1>4. IsDraft(part1) /\ Editor!Valid(part1) /\ Fed(part1) /\ Editor!Valid(e)
    BY <1>1, <1>3 DEF EditorInv, IsChain, Editor!Accept
  <1>5. Spliced(part1, c, n, kind, bind, e) /\ DOMAIN e = DOMAIN part1
    <2>1. PICK links : links = (part1.conns \ {c})
             \cup {Editor!Link(c.from, Editor!Inner(n, Editor!In(kind).name)),
               Editor!Link(Editor!Inner(n, Editor!Out(kind).name), to)}
             \cup Editor!SideLinks(n, kind, bind)
      OBVIOUS
    <2>2. e = [part1 EXCEPT !.node[n] = kind, !.in[c.from[2]] = Editor!In(kind).type,
            !.conns = links]
      BY <1>1, <1>3, <2>1 DEF Editor!Accept
    <2>3. e.node = [part1.node EXCEPT ![n] = kind] /\ e.conns = links /\ DOMAIN e = DOMAIN part1
      BY <1>4, <2>2 DEF IsDraft
    <2>4. QED
      BY <1>3, <2>1, <2>2, <2>3 DEF Spliced, Placed
  <1>6. AtRole(part1, c) /\ Editor!NodesOf(part1) # {} /\ c.from \in Ends /\ c.to \in Ends
    <2>1. c.to[1] = first /\ first # None
      BY <1>2, <1>3 DEF Editor!Inner, Editor!EditorAssumption
    <2>2. first \in Editor!NodesOf(part1)
      BY <1>3 DEF Editor!NodesOf
    <2>3. c.from \in Ends /\ c.to \in Ends
      BY <1>4 DEF IsDraft, Links
    <2>4. QED
      BY <1>2, <1>3, <2>1, <2>2, <2>3 DEF AtRole
  <1>7. IsDraft(e)
    <2>1. e.node \in [NodeIds -> NodeKinds \cup {None}]
      BY <1>4, <1>5 DEF IsDraft, Spliced, Placed
    <2>2. e.conns \subseteq Links
      BY <1>4, <1>5, <1>6, LinksAreTyped DEF IsDraft, Spliced
    <2>3. QED
      BY <1>4, <1>5, <2>1, <2>2 DEF IsDraft
  <1>8. PICK length, pos : Chain(part1, length, pos)
    BY <1>6 DEF EditorInv, IsChain
  <1>9. IsChain(e)
    BY <1>4, <1>5, <1>6, <1>7, <1>8, SpliceKeepsChain
  <1>10. QED
    BY <1>1, <1>7, <1>9

\* A node that is not the last one is removed.
LEMMA RemoveAndBridgeStep ==
    ASSUME Editor!EditorAssumption, EditorInv, NEW n \in NodeIds, Editor!RemoveAndBridge(n)
    PROVE  IsDraft(part1') /\ IsChain(part1')
  <1>1. PICK e : e = part1'
    OBVIOUS
  <1>2. PICK before, after \in part1.conns :
          /\ part1.node[n] # None /\ ~ \E c \in part1.conns : c.from[1] = n /\ c.to[1] = None
          /\ before.to = Editor!Inner(n, Editor!In(part1.node[n]).name)
          /\ after.from = Editor!Inner(n, Editor!Out(part1.node[n]).name)
          /\ Editor!Accept([part1 EXCEPT !.node[n] = None,
                 !.conns = {c \in @ : c.from[1] # n /\ c.to[1] # n}
                   \cup Editor!Bridge(before, after)])
    BY DEF Editor!RemoveAndBridge
  <1>3. IsDraft(part1) /\ Editor!Valid(part1) /\ Fed(part1) /\ n \in Editor!NodesOf(part1)
    BY <1>2 DEF EditorInv, IsChain, Editor!NodesOf
  <1>4. Bridged(part1, n, before, after, e) /\ DOMAIN e = DOMAIN part1
    <2>1. PICK links : links = {c \in part1.conns : c.from[1] # n /\ c.to[1] # n}
                                 \cup {Editor!Link(before.from, after.to)}
      OBVIOUS
    <2>2. e = [part1 EXCEPT !.node[n] = None, !.conns = links]
      BY <1>1, <1>2, <2>1 DEF Editor!Accept, Editor!Bridge
    <2>3. e.node = [part1.node EXCEPT ![n] = None] /\ e.conns = links /\ DOMAIN e = DOMAIN part1
      BY <1>3, <2>2 DEF IsDraft
    <2>4. QED
      BY <1>2, <1>3, <2>1, <2>3 DEF Bridged
  <1>5. IsDraft(e)
    <2>1. e.node \in [NodeIds -> NodeKinds \cup {None}]
      BY <1>3, <1>4 DEF IsDraft, Bridged
    <2>2. Editor!Link(before.from, after.to) \in Links
      BY <1>3 DEF IsDraft, Editor!Link, Links
    <2>3. e.conns \subseteq Links
      BY <1>3, <1>4, <2>2 DEF IsDraft, Bridged
    <2>4. QED
      BY <1>3, <1>4, <2>1, <2>3 DEF IsDraft
  <1>6. PICK length, pos : Chain(part1, length, pos)
    BY <1>3 DEF EditorInv, IsChain
  <1>7. IsChain(e)
    BY <1>3, <1>4, <1>6, BridgeKeepsChain
  <1>8. QED
    BY <1>1, <1>5, <1>7

\* A node is put behind the last one.
LEMMA AppendAfterStep ==
    ASSUME Editor!EditorAssumption, EditorInv, NEW last \in NodeIds, NEW n \in NodeIds,
           NEW kind \in NodeKinds,
           NEW bind \in Editor!Bindings(kind), Editor!AppendAfter(last, n, kind, bind)
    PROVE  IsDraft(part1') /\ IsChain(part1')
  <1>1. PICK e : e = part1'
    OBVIOUS
  <1>2. PICK from, moved : /\ from = Editor!Inner(last, Editor!Out(part1.node[last]).name)
                           /\ moved = {c \in part1.conns : c.from = from /\ c.to[1] = None}
    OBVIOUS
  <1>3. IsDraft(part1) /\ Editor!Valid(part1) /\ Fed(part1) /\ last \in Editor!NodesOf(part1)
    BY DEF EditorInv, IsChain, Editor!NodesOf, Editor!AppendAfter
  <1>4. Appended(part1, last, n, kind, bind, moved, e) /\ DOMAIN e = DOMAIN part1
    <2>1. PICK links : links = (part1.conns \ moved)
             \cup {Editor!Link(Editor!Inner(n, Editor!Out(kind).name), c.to) : c \in moved}
             \cup {Editor!Link(from, Editor!Inner(n, Editor!In(kind).name))}
               \cup Editor!SideLinks(n, kind, bind)
      OBVIOUS
    <2>2. PICK out : out = [p \in PortNames |->
             IF \E c \in moved : c.to = Editor!Outer(p) THEN Editor!Out(kind).type
               ELSE part1.out[p]]
      OBVIOUS
    <2>3. /\ e = [part1 EXCEPT !.node[n] = kind, !.out = out, !.conns = links]
          /\ part1.node[n] = None /\ moved # {} /\ ~ \E c \in Editor!Edges(part1) : c.from = from
      <3>1. part1.node[n] = None /\ moved # {} /\ ~ \E c \in Editor!Edges(part1) : c.from = from
        BY <1>2 DEF Editor!AppendAfter
      <3>2. Editor!Accept([part1 EXCEPT !.node[n] = kind, !.out = out, !.conns = links])
        BY <1>2, <2>1, <2>2 DEF Editor!AppendAfter
      <3>3. QED
        BY <1>1, <3>1, <3>2 DEF Editor!Accept
    <2>4. e.node = [part1.node EXCEPT ![n] = kind] /\ e.conns = links /\ DOMAIN e = DOMAIN part1
      BY <1>3, <2>3 DEF IsDraft
    <2>5. QED
      BY <1>2, <1>3, <2>1, <2>3, <2>4 DEF Appended, Placed
  <1>5. IsDraft(e)
    <2>1. e.node \in [NodeIds -> NodeKinds \cup {None}]
      BY <1>3, <1>4 DEF IsDraft, Appended, Placed
    <2>2. PICK links : links = {Editor!Link(Editor!Inner(n, Editor!Out(kind).name), c.to) :
            c \in moved}
                                 \cup {Editor!Link(from, Editor!Inner(n, Editor!In(kind).name))}
      OBVIOUS
    <2>3. links \subseteq Links
      <3>1. \A c \in moved : c.from \in Ends /\ c.to \in Ends
        BY <1>2, <1>3 DEF IsDraft, Links
      <3>2. \E c \in moved : c.from = from
        BY <1>2, <1>4 DEF Appended
      <3>3. from \in Ends
        BY <3>1, <3>2
      <3>4. QED
        BY <2>2, <3>1, <3>3, LinksAreTyped
    <2>4. e.conns = (part1.conns \ moved) \cup links \cup Editor!SideLinks(n, kind, bind)
      BY <1>2, <1>4, <2>2 DEF Appended
    <2>5. e.conns \subseteq Links
      BY <1>3, <2>3, <2>4, LinksAreTyped DEF IsDraft
    <2>6. QED
      BY <1>3, <1>4, <2>1, <2>5 DEF IsDraft
  <1>6. PICK length, pos : Chain(part1, length, pos)
    BY <1>3 DEF EditorInv, IsChain
  <1>7. IsChain(e)
    BY <1>3, <1>4, <1>6, AppendKeepsChain
  <1>8. QED
    BY <1>1, <1>5, <1>7

\* A node gets another capability, and its connections move to the ports of
\* that.
LEMMA ReplaceNodeStep ==
    ASSUME Editor!EditorAssumption, EditorInv, NEW n \in Editor!NodesOf(part1),
           NEW kind \in NodeKinds,
           NEW map \in [{s.name : s \in Editor!Sides(part1.node[n])}
           -> {s.name : s \in Editor!Sides(kind)}],
           Editor!ReplaceNode(n, kind, map)
    PROVE  IsDraft(part1') /\ IsChain(part1')
  <1> DEFINE Moved(c) ==
               [from |-> IF c.from[1] = n THEN Editor!Inner(n, Editor!Out(kind).name) ELSE c.from,
                to |-> IF c.to[1] # n THEN c.to
                       ELSE IF c.to[2] = Editor!In(part1.node[n]).name
                         THEN Editor!Inner(n, Editor!In(kind).name)
                       ELSE Editor!Inner(n, map[c.to[2]])]
  <1>1. PICK e : e = part1'
    OBVIOUS
  <1>2. PICK moved : moved = {Moved(c) : c \in part1.conns}
    OBVIOUS
  <1>3. /\ IsDraft(part1) /\ Editor!Valid(part1) /\ IsChain(part1) /\ Fed(part1)
        /\ n \in NodeIds /\ part1.node[n] \in NodeKinds
    BY KindOfNode DEF EditorInv, IsChain
  <1>4. /\ e.node = [part1.node EXCEPT ![n] = kind] /\ e.conns = moved /\ DOMAIN e = DOMAIN part1
        /\ \A p \in Editor!InputPorts(kind) : \E c \in moved : c.to = Editor!Inner(n, p.name)
    <2>1. /\ e = [part1 EXCEPT !.node[n] = kind, !.conns = moved]
          /\ \A p \in Editor!InputPorts(kind) : \E c \in moved : c.to = Editor!Inner(n, p.name)
      BY <1>1, <1>2 DEF Editor!ReplaceNode, Editor!Accept
    <2>2. QED
      BY <1>3, <2>1 DEF IsDraft
  <1>5. \A c \in part1.conns :
          /\ Moved(c).from[1] = c.from[1] /\ Moved(c).to[1] = c.to[1]
          /\ c.to[1] # n => Moved(c).to = c.to
    BY DEF Editor!Inner
  <1>6. e.node[n] = kind /\ kind # None /\ \A m \in NodeIds \ {n} : e.node[m] = part1.node[m]
    BY <1>3, <1>4 DEF IsDraft, Editor!EditorAssumption
  <1>7. Editor!NodesOf(e) = Editor!NodesOf(part1)
    BY <1>3, <1>6 DEF Editor!NodesOf
  <1>8. ASSUME NEW c \in part1.conns PROVE Moved(c) \in Links
    <2>1. /\ c.from \in Ends /\ c.to \in Ends /\ Editor!TargetType(part1, c.to) # None
      BY <1>3 DEF IsDraft, Links, Editor!Valid, Editor!ConnectionsValid
    <2>2. Editor!Inner(n, Editor!In(kind).name) \in Ends
            /\ Editor!Inner(n, Editor!Out(kind).name) \in Ends
      BY <1>3, Catalogue DEF Editor!Inner, Ends
    <2>3. ASSUME c.to[1] = n, c.to[2] # Editor!In(part1.node[n]).name
          PROVE  Editor!Inner(n, map[c.to[2]]) \in Ends
      <3>1. n # None
        BY <1>3 DEF Editor!EditorAssumption
      <3>2. \E p \in Editor!InputPorts(part1.node[n]) : p.name = c.to[2]
        BY <2>1, <2>3, <3>1 DEF Editor!TargetType
      <3>3. c.to[2] \in {s.name : s \in Editor!Sides(part1.node[n])}
        BY <2>3, <3>2 DEF Editor!InputPorts
      <3>4. map[c.to[2]] \in {s.name : s \in Editor!Sides(kind)}
        BY <3>3
      <3>5. map[c.to[2]] \in Names
        BY <3>4, Catalogue
      <3>6. QED
        BY <1>3, <3>5 DEF Editor!Inner, Ends
    <2>4. QED
      BY <2>1, <2>2, <2>3 DEF Links
  <1>9. IsDraft(e)
    <2>1. e.node \in [NodeIds -> NodeKinds \cup {None}]
      BY <1>3, <1>4 DEF IsDraft
    <2>2. e.conns \subseteq Links
      BY <1>2, <1>4, <1>8
    <2>3. QED
      BY <1>3, <1>4, <2>1, <2>2 DEF IsDraft
  <1>10. Fed(e)
    <2> SUFFICES ASSUME NEW m \in Editor!NodesOf(e), NEW p \in Editor!InputPorts(e.node[m])
                 PROVE  \E x \in e.conns : x.to = Editor!Inner(m, p.name)
      BY DEF Fed
    <2>1. CASE m = n
      BY <1>4, <1>6, <2>1
    <2>2. CASE m # n
      <3>1. PICK x \in part1.conns : x.to = Editor!Inner(m, p.name)
        BY <1>6, <1>7, <2>2, <1>3 DEF Fed, Editor!NodesOf
      <3>2. Moved(x) \in e.conns
        <4>1. Moved(x) \in moved
          BY <1>2
        <4>2. QED
          BY <1>4, <4>1
      <3>3. x.to[1] # n
        BY <2>2, <3>1 DEF Editor!Inner
      <3>4. Moved(x).to = Editor!Inner(m, p.name)
        BY <1>5, <3>1, <3>3
      <3>5. QED
        BY <3>2, <3>4
    <2>3. QED
      BY <2>1, <2>2
  <1>11. SameEnds(part1, e)
    <2> HIDE DEF Moved
    <2>1. \A x \in Editor!Edges(e) :
            \E c \in Editor!Edges(part1) : x.from[1] = c.from[1] /\ x.to[1] = c.to[1]
      BY <1>2, <1>4, <1>5 DEF Editor!Edges
    <2>2. \A c \in Editor!Edges(part1) :
            \E x \in Editor!Edges(e) : x.from[1] = c.from[1] /\ x.to[1] = c.to[1]
      <3> SUFFICES ASSUME NEW c \in Editor!Edges(part1)
                   PROVE  \E x \in Editor!Edges(e) : x.from[1] = c.from[1] /\ x.to[1] = c.to[1]
        OBVIOUS
      <3>1. c \in part1.conns /\ c.from[1] # None /\ c.to[1] # None
        BY DEF Editor!Edges
      <3>2. Moved(c) \in Editor!Edges(e)
        BY <1>2, <1>4, <1>5, <3>1 DEF Editor!Edges
      <3>3. QED
        BY <1>5, <3>1, <3>2
    <2>3. \A c \in part1.conns : c.to[1] = None =>
            \E x \in e.conns : x.to[1] = None /\ x.from[1] = c.from[1]
      BY <1>2, <1>4, <1>5
    <2>4. QED
      BY <1>7, <2>1, <2>2, <2>3 DEF SameEnds
  <1>12. IsChain(e)
    BY <1>3, <1>10, <1>11, SameEndsKeepChain
  <1>13. QED
    BY <1>1, <1>9, <1>12

\* A side input gets another workflow input.
LEMMA BindSideInputStep ==
    ASSUME Editor!EditorAssumption, EditorInv, NEW n \in NodeIds, NEW port \in PortNames,
           NEW input \in PortNames, Editor!BindSideInput(n, port, input)
    PROVE  IsDraft(part1') /\ IsChain(part1')
  <1>1. PICK e : e = part1'
    OBVIOUS
  <1>2. PICK link : link = Editor!Link(Editor!Outer(input), Editor!Inner(n, port))
    OBVIOUS
  <1>3. /\ IsDraft(part1) /\ Editor!Valid(part1) /\ IsChain(part1) /\ Fed(part1)
        /\ n \in Editor!NodesOf(part1) /\ part1.node[n] \in NodeKinds /\ n # None
        /\ \E s \in Editor!Sides(part1.node[n]) : s.name = port
    <2>1. n \in Editor!NodesOf(part1) /\ \E s \in Editor!Sides(part1.node[n]) : s.name = port
      BY DEF Editor!BindSideInput, Editor!NodesOf
    <2>2. IsDraft(part1) /\ Editor!Valid(part1) /\ IsChain(part1) /\ Fed(part1)
      BY DEF EditorInv, IsChain
    <2>3. part1.node[n] \in NodeKinds
      BY <2>1, <2>2, KindOfNode
    <2>4. QED
      BY <2>1, <2>2, <2>3 DEF Editor!EditorAssumption
  <1>4. /\ e.node = part1.node /\ DOMAIN e = DOMAIN part1
        /\ e.conns = {c \in part1.conns : c.to # Editor!Inner(n, port)} \cup {link}
    <2>1. e = [part1 EXCEPT !.conns = {c \in @ : c.to # Editor!Inner(n, port)} \cup {link}]
      BY <1>1, <1>2 DEF Editor!BindSideInput, Editor!Accept
    <2>2. QED
      BY <1>3, <2>1 DEF IsDraft
  <1>5. port # Editor!In(part1.node[n]).name /\ port \in Names
    BY <1>3, Catalogue
  <1>6. link.from[1] = None /\ link.to = Editor!Inner(n, port) /\ link.to[1] = n /\ link \in Links
    <2>1. Editor!Outer(input) \in Ends /\ Editor!Inner(n, port) \in Ends
      BY <1>5 DEF Editor!Outer, Editor!Inner, Ends, Names
    <2>2. QED
      BY <1>2, <2>1 DEF Editor!Link, Links, Editor!Outer, Editor!Inner
  <1>7. IsDraft(e)
    BY <1>3, <1>4, <1>6 DEF IsDraft
  <1>8. Editor!NodesOf(e) = Editor!NodesOf(part1)
    BY <1>4 DEF Editor!NodesOf
  <1>9. Fed(e)
    BY <1>3, <1>4, <1>6, <1>8 DEF Fed
  <1>10. SameEnds(part1, e)
    <2>1. Editor!Edges(e) = Editor!Edges(part1)
      <3>1. \A c \in Editor!Edges(part1) : c.to # Editor!Inner(n, port)
        <4> SUFFICES ASSUME NEW c \in Editor!Edges(part1), c.to = Editor!Inner(n, port)
                     PROVE  FALSE
          OBVIOUS
        <4>1. c.to = Editor!Inner(c.to[1], Editor!In(part1.node[c.to[1]]).name)
          BY <1>3, EdgeFacts
        <4>2. QED
          BY <1>5, <4>1 DEF Editor!Inner
      <3>2. QED
        BY <1>4, <1>6, <3>1 DEF Editor!Edges
    <2>2. \A c \in part1.conns : c.to[1] = None => c \in e.conns
      BY <1>3, <1>4 DEF Editor!Inner
    <2>3. QED
      BY <1>8, <2>1, <2>2 DEF SameEnds
  <1>11. QED
    BY <1>1, <1>3, <1>7, <1>9, <1>10, SameEndsKeepChain

\* Ports and rules are no part of the chain.
LEMMA PortsAndRulesStep ==
    ASSUME Editor!EditorAssumption, EditorInv,
           \/ \E p \in Declarable : Editor!SetWorkflowPort(p.direction, p.name, p.type)
           \/ \E fields \in SUBSET Fields :
                Editor!SetDataContract(fields) \/ Editor!SetSearchSpec(fields)
    PROVE  IsDraft(part1') /\ IsChain(part1')
  <1>1. PICK e : e = part1'
    OBVIOUS
  <1>2. e.node = part1.node /\ e.conns = part1.conns /\ DOMAIN e = DOMAIN part1
    BY <1>1 DEF EditorInv, IsDraft, Editor!SetWorkflowPort, Editor!SetDataContract,
      Editor!SetSearchSpec, Editor!Accept
  <1>3. IsDraft(e)
    BY <1>2 DEF EditorInv, IsDraft
  <1>4. Editor!NodesOf(e) = Editor!NodesOf(part1) /\ Editor!Edges(e) = Editor!Edges(part1)
    BY <1>2 DEF Editor!NodesOf, Editor!Edges
  <1>5. SameEnds(part1, e) /\ Fed(e) /\ IsChain(part1)
    BY <1>2, <1>4 DEF SameEnds, Fed, EditorInv, IsChain
  <1>6. QED
    BY <1>1, <1>3, <1>5, SameEndsKeepChain

\* Every command keeps the chain.
LEMMA EditorStep ==
    ASSUME Editor!EditorAssumption, EditorInv, [Editor!Next]_part1
    PROVE  EditorInv'
  <1>1. CASE part1' = part1
    BY <1>1 DEF EditorInv
  <1>2. ASSUME NEW n \in NodeIds, NEW kind \in NodeKinds, NEW bind \in Editor!Bindings(kind),
               \/ Editor!CreateFromBlank(n, kind, bind)
               \/ \E c \in part1.conns : Editor!InsertBetween(c, n, kind, bind)
               \/ \E m \in NodeIds : Editor!AppendAfter(m, n, kind, bind)
                    \/ Editor!PrependBefore(m, n, kind, bind)
        PROVE  EditorInv'
    <2>1. CASE Editor!CreateFromBlank(n, kind, bind)
      BY <2>1, CreateFromBlankStep DEF EditorInv, Editor!CreateFromBlank, Editor!Accept
    <2>2. ASSUME NEW c \in part1.conns, Editor!InsertBetween(c, n, kind, bind) PROVE EditorInv'
      BY <2>2, InsertBetweenStep DEF EditorInv, Editor!InsertBetween, Editor!Accept
    <2>3. ASSUME NEW m \in NodeIds, Editor!AppendAfter(m, n, kind, bind) PROVE EditorInv'
      BY <2>3, AppendAfterStep DEF EditorInv, Editor!AppendAfter, Editor!Accept
    <2>4. ASSUME NEW m \in NodeIds, Editor!PrependBefore(m, n, kind, bind) PROVE EditorInv'
      BY <2>4, PrependBeforeStep DEF EditorInv, Editor!PrependBefore, Editor!Accept
    <2>5. QED
      BY <1>2, <2>1, <2>2, <2>3, <2>4
  <1>3. ASSUME NEW n \in NodeIds, Editor!RemoveAndBridge(n) PROVE EditorInv'
    BY <1>3, RemoveAndBridgeStep DEF EditorInv, Editor!RemoveAndBridge, Editor!Accept
  <1>4. ASSUME NEW n \in Editor!NodesOf(part1), NEW kind \in NodeKinds,
               NEW map \in [{s.name : s \in Editor!Sides(part1.node[n])}
               -> {s.name : s \in Editor!Sides(kind)}],
               Editor!ReplaceNode(n, kind, map)
        PROVE  EditorInv'
    BY <1>4, ReplaceNodeStep DEF EditorInv, Editor!ReplaceNode, Editor!Accept
  <1>5. ASSUME NEW n \in NodeIds, NEW input \in PortNames, NEW port \in PortNames,
               Editor!BindSideInput(n, port, input)
        PROVE  EditorInv'
    BY <1>5, BindSideInputStep DEF EditorInv, Editor!BindSideInput, Editor!Accept
  <1>6. ASSUME \/ \E p \in Declarable : Editor!SetWorkflowPort(p.direction, p.name, p.type)
               \/ \E fields \in SUBSET Fields :
                    Editor!SetDataContract(fields) \/ Editor!SetSearchSpec(fields)
        PROVE  EditorInv'
    <2>1. Editor!Valid(part1')
      BY <1>6 DEF Editor!SetWorkflowPort, Editor!SetDataContract, Editor!SetSearchSpec,
        Editor!Accept
    <2>2. QED
      BY <1>6, <2>1, PortsAndRulesStep DEF EditorInv
  <1>7. QED
    BY <1>1, <1>2, <1>3, <1>4, <1>5, <1>6 DEF Editor!Next

\* A draft begins without nodes.
LEMMA EditorInit == ASSUME Editor!EditorAssumption, Editor!Init PROVE EditorInv
  <1>1. /\ Editor!NodesOf(part1) = {} /\ part1.conns = {} /\ part1.search = None /\ IsDraft(part1)
    BY DEF Editor!Init, Editor!Blank, Editor!NodesOf, IsDraft
  <1>2. Editor!Valid(part1)
    BY <1>1 DEF Editor!Valid, Editor!ConnectionsValid, Editor!RulesValid, Editor!Edges
  <1>3. QED
    BY <1>1, <1>2 DEF EditorInv, IsChain, Fed

\* The first node of a chain is its only one that no connection from a node
\* leads to, its nodes are as many as its length, and the connections between
\* them one less.
LEMMA ChainIsCounted ==
    ASSUME Editor!EditorAssumption, NEW d, IsDraft(d), Editor!Valid(d), Editor!NodesOf(d) # {},
           NEW length, NEW pos,
           Chain(d, length, pos)
    PROVE  /\ length \in Nat \ {0}
           /\ IsFiniteSet(Editor!NodesOf(d)) /\ Cardinality(Editor!NodesOf(d)) = length
           /\ \E first \in Editor!NodesOf(d) : Editor!Heads(d) = {first} /\ pos[first] = 1
           /\ IsFiniteSet(Editor!Edges(d)) /\ Cardinality(Editor!Edges(d)) = length - 1
  <1>1. /\ length \in Nat /\ pos \in [Editor!NodesOf(d) -> 1..length]
        /\ \A n \in Editor!NodesOf(d) : pos[n] \in 1..length
        /\ \A i \in 1..length : \E n \in Editor!NodesOf(d) : pos[n] = i
        /\ \A m, n \in Editor!NodesOf(d) : pos[m] = pos[n] => m = n
    BY DEF Chain
  <1>2. length \in Nat \ {0} /\ 1 \in 1..length
    <2>1. PICK n : n \in Editor!NodesOf(d)
      OBVIOUS
    <2>2. PICK i : i = pos[n]
      OBVIOUS
    <2>3. i \in 1..length
      BY <1>1, <2>1, <2>2
    <2>4. QED
      BY <1>1, <2>3
  <1>3. IsFiniteSet(Editor!NodesOf(d)) /\ Cardinality(Editor!NodesOf(d)) = length
    <2>1. pos \in Injection(Editor!NodesOf(d), 1..length)
            /\ pos \in Surjection(Editor!NodesOf(d), 1..length)
      BY <1>1 DEF Injection, IsInjective, Surjection
    <2>2. IsFiniteSet(1..length) /\ Cardinality(1..length) = length
      BY <1>2, FS_Interval
    <2>3. QED
      BY <2>1, <2>2, FS_Injection
  <1>4. PICK first \in Editor!NodesOf(d) : pos[first] = 1
    BY <1>1, <1>2
  <1>5. ASSUME NEW e \in Editor!Edges(d) PROVE e.to[1] \in Editor!NodesOf(d) \ {first}
    <2>1. PICK l, r : l = e.from[1] /\ r = e.to[1]
      OBVIOUS
    <2>2. l \in Editor!NodesOf(d) /\ r \in Editor!NodesOf(d)
      BY <2>1, EdgeFacts
    <2>3. pos[r] = pos[l] + 1
      BY <2>1 DEF Chain
    <2>4. PICK i : i = pos[l]
      OBVIOUS
    <2>5. i \in 1..length /\ i + 1 # 1
      BY <1>1, <2>2, <2>4
    <2>6. QED
      BY <1>4, <2>1, <2>2, <2>3, <2>4, <2>5
  <1>6. ASSUME NEW n \in Editor!NodesOf(d), n # first PROVE \E e \in Editor!Edges(d) : e.to[1] = n
    <2>1. pos[n] # 1
      BY <1>1, <1>4, <1>6
    <2>2. QED
      BY <2>1 DEF Chain
  <1>7. Editor!Heads(d) = {first}
    BY <1>5, <1>6 DEF Editor!Heads
  <1>8. IsFiniteSet(Editor!Edges(d)) /\ Cardinality(Editor!Edges(d)) = length - 1
    <2>1. PICK f : f = [e \in Editor!Edges(d) |-> e.to[1]]
      OBVIOUS
    <2>2. PICK rest : rest = Editor!NodesOf(d) \ {first}
      OBVIOUS
    <2>3. f \in [Editor!Edges(d) -> rest]
      BY <1>5, <2>1, <2>2
    <2>4. \A x, y \in Editor!Edges(d) : f[x] = f[y] => x = y
      <3> SUFFICES ASSUME NEW x \in Editor!Edges(d), NEW y \in Editor!Edges(d), x.to[1] = y.to[1]
                   PROVE  x = y
        BY <2>1
      <3>1. /\ x.to = Editor!Inner(x.to[1], Editor!In(d.node[x.to[1]]).name)
            /\ y.to = Editor!Inner(y.to[1], Editor!In(d.node[y.to[1]]).name)
            /\ x \in d.conns /\ \A c \in d.conns : c.to = y.to => c = y
        BY EdgeFacts
      <3>2. QED
        BY <3>1
    <2>5. \A n \in rest : \E e \in Editor!Edges(d) : f[e] = n
      BY <1>6, <2>1, <2>2
    <2>6. f \in Injection(Editor!Edges(d), rest) /\ f \in Surjection(Editor!Edges(d), rest)
      BY <2>3, <2>4, <2>5 DEF Injection, IsInjective, Surjection
    <2>7. IsFiniteSet(rest) /\ Cardinality(rest) = length - 1
      BY <1>3, <2>2, FS_RemoveElement
    <2>8. QED
      BY <2>6, <2>7, FS_Injection
  <1>9. QED
    BY <1>2, <1>3, <1>4, <1>7, <1>8

\* The rule of the walk from node to node.
WalkRule(d, f) ==
    f = [k \in 0..Cardinality(Editor!NodesOf(d)) |->
          IF k = 0 THEN Editor!Heads(d)
          ELSE f[k - 1] \cup {c.to[1] : c \in {e \in Editor!Edges(d) : e.from[1] \in f[k - 1]}}]

\* The nodes at the positions to i.
UpTo(d, pos, i) == {n \in Editor!NodesOf(d) : pos[n] <= i}

\* A walk that has come to a position goes on to the next one.
LEMMA WalkGoesOn ==
    ASSUME Editor!EditorAssumption, NEW d, IsDraft(d), Editor!Valid(d), NEW length, NEW pos,
           Chain(d, length, pos), NEW i \in Nat \ {0}
    PROVE  UpTo(d, pos, i + 1) =
             UpTo(d, pos, i) \cup {c.to[1] :
               c \in {e \in Editor!Edges(d) : e.from[1] \in UpTo(d, pos, i)}}
  <1>1. /\ length \in Nat /\ \A n \in Editor!NodesOf(d) : pos[n] \in 1..length
    BY DEF Chain
  <1>2. ASSUME NEW n \in UpTo(d, pos, i + 1), n \notin UpTo(d, pos, i)
        PROVE  \E e \in Editor!Edges(d) : e.to[1] = n /\ e.from[1] \in UpTo(d, pos, i)
    <2>1. n \in Editor!NodesOf(d) /\ pos[n] <= i + 1 /\ ~ (pos[n] <= i)
      BY <1>2 DEF UpTo
    <2>2. PICK a : a = pos[n]
      OBVIOUS
    <2>3. a \in 1..length /\ a = i + 1 /\ a # 1
      BY <1>1, <2>1, <2>2
    <2>4. PICK e \in Editor!Edges(d) : e.to[1] = n
      BY <2>1, <2>2, <2>3 DEF Chain
    <2>5. PICK l : l = e.from[1]
      OBVIOUS
    <2>6. l \in Editor!NodesOf(d) /\ pos[n] = pos[l] + 1
      BY <2>4, <2>5, EdgeFacts DEF Chain
    <2>7. PICK b : b = pos[l]
      OBVIOUS
    <2>8. b \in 1..length /\ a = b + 1
      BY <1>1, <2>2, <2>6, <2>7
    <2>9. b <= i
      BY <1>1, <2>3, <2>8
    <2>10. QED
      BY <2>4, <2>5, <2>6, <2>7, <2>9 DEF UpTo
  <1>3. ASSUME NEW e \in Editor!Edges(d), e.from[1] \in UpTo(d, pos, i)
        PROVE  e.to[1] \in UpTo(d, pos, i + 1)
    <2>1. PICK l, r : l = e.from[1] /\ r = e.to[1]
      OBVIOUS
    <2>2. l \in Editor!NodesOf(d) /\ r \in Editor!NodesOf(d) /\ pos[r] = pos[l] + 1
      BY <2>1, EdgeFacts DEF Chain
    <2>3. PICK b : b = pos[l]
      OBVIOUS
    <2>4. b \in 1..length /\ b <= i
      BY <1>1, <1>3, <2>1, <2>2, <2>3 DEF UpTo
    <2>5. b + 1 <= i + 1
      BY <1>1, <2>4
    <2>6. QED
      BY <2>1, <2>2, <2>3, <2>5 DEF UpTo
  <1>4. ASSUME NEW n \in UpTo(d, pos, i) PROVE n \in UpTo(d, pos, i + 1)
    <2>1. PICK a : a = pos[n]
      OBVIOUS
    <2>2. n \in Editor!NodesOf(d) /\ a \in 1..length /\ a <= i
      BY <1>1, <1>4, <2>1 DEF UpTo
    <2>3. a <= i + 1
      BY <1>1, <2>2
    <2>4. QED
      BY <2>1, <2>2, <2>3 DEF UpTo
  <1>5. QED
    BY <1>2, <1>3, <1>4

\* The walk obeys its rule.
LEMMA WalkIsChosen ==
    ASSUME NEW d
    PROVE  Editor!Walk(d) = (CHOOSE f : WalkRule(d, f))[Cardinality(Editor!NodesOf(d))]
  BY SameFiniteSets DEF Editor!Walk, WalkRule

\* A set of numbers that is not empty has a least one.
LEMMA LeastNumber ==
    ASSUME NEW S \in SUBSET Nat, S # {}
    PROVE  \E p \in S : \A q \in S : p <= q
  <1> DEFINE R == OpToRel(<, Nat)
  <1>1. IsWellFoundedOn(R, Nat)
    BY NatLessThanWellFounded
  <1>2. \A x, y \in Nat : <<y, x>> \in R <=> y < x
    BY DEF OpToRel
  <1> HIDE DEF R
  <1>3. PICK p \in S : \A q \in S : ~ (<<q, p>> \in R)
    BY <1>1, WFMin
  <1>4. ASSUME NEW q \in S
        PROVE  p <= q
    <2>1. p \in Nat /\ q \in Nat /\ ~ (q < p)
      BY <1>2, <1>3
    <2>2. QED
      BY <2>1
  <1>5. QED
    BY <1>4

\* The walk over a chain visits all its nodes.
LEMMA WalkVisitsAll ==
    ASSUME Editor!EditorAssumption, NEW d, IsDraft(d), Editor!Valid(d), Editor!NodesOf(d) # {},
           NEW length, NEW pos,
           Chain(d, length, pos)
    PROVE  Editor!Walk(d) = Editor!NodesOf(d)
  <1>1. length \in Nat \ {0} /\ Cardinality(Editor!NodesOf(d)) = length
    BY ChainIsCounted
  <1>2. Editor!Heads(d) = UpTo(d, pos, 1)
    <2>1. PICK first \in Editor!NodesOf(d) : Editor!Heads(d) = {first} /\ pos[first] = 1
      BY ChainIsCounted
    <2>2. ASSUME NEW n \in Editor!NodesOf(d), pos[n] <= 1 PROVE n = first
      <3>1. PICK a : a = pos[n]
        OBVIOUS
      <3>2. a \in 1..length /\ a <= 1
        BY <2>2, <3>1 DEF Chain
      <3>3. a = 1
        BY <1>1, <3>2
      <3>4. QED
        BY <2>1, <3>1, <3>3 DEF Chain
    <2>3. first \in UpTo(d, pos, 1)
      BY <2>1 DEF UpTo
    <2>4. QED
      BY <2>1, <2>2, <2>3 DEF UpTo
  <1> DEFINE After(S) == S \cup {c.to[1] : c \in {e \in Editor!Edges(d) : e.from[1] \in S}}
  <1>3. \A i \in Nat \ {0} : UpTo(d, pos, i + 1) = After(UpTo(d, pos, i))
    BY WalkGoesOn
  <1>4. \A f : WalkRule(d, f) <=>
                 f = [k \in 0..length |-> IF k = 0 THEN Editor!Heads(d) ELSE After(f[k - 1])]
    BY <1>1 DEF WalkRule
  <1> HIDE DEF After
  <1>5. \E f : WalkRule(d, f)
    <2>1. PICK f : f = [k \in 0..length |-> UpTo(d, pos, k + 1)]
      OBVIOUS
    <2>2. \A k \in 0..length : f[k] = IF k = 0 THEN Editor!Heads(d) ELSE After(f[k - 1])
      <3> SUFFICES ASSUME NEW k \in 0..length
                   PROVE  f[k] = IF k = 0 THEN Editor!Heads(d) ELSE After(f[k - 1])
        OBVIOUS
      <3>1. CASE k = 0
        BY <1>2, <2>1, <3>1
      <3>2. CASE k # 0
        <4>1. k \in Nat \ {0} /\ k - 1 \in 0..length /\ (k - 1) + 1 = k
          BY <1>1, <3>2
        <4>2. f[k] = UpTo(d, pos, k + 1) /\ f[k - 1] = UpTo(d, pos, k)
          BY <2>1, <4>1
        <4>3. QED
          BY <1>3, <3>2, <4>1, <4>2
      <3>3. QED
        BY <3>1, <3>2
    <2>3. f = [k \in 0..length |-> IF k = 0 THEN Editor!Heads(d) ELSE After(f[k - 1])]
      BY <2>1, <2>2
    <2>4. QED
      BY <1>4, <2>3
  <1>6. ASSUME NEW f, WalkRule(d, f) PROVE f[length] = Editor!NodesOf(d)
    <2>1. \A k \in 0..length : f[k] = IF k = 0 THEN Editor!Heads(d) ELSE After(f[k - 1])
      BY <1>4, <1>6
    <2>2. PICK bad : bad = {k \in 0..length : f[k] # UpTo(d, pos, k + 1)}
      OBVIOUS
    <2>3. bad = {}
      <3> SUFFICES ASSUME bad # {}
                   PROVE  FALSE
        OBVIOUS
      <3>1. bad \in SUBSET Nat
        BY <1>1, <2>2
      <3>2. PICK k \in bad : \A q \in bad : k <= q
        BY <3>1, LeastNumber
      <3>3. k \in 0..length /\ f[k] # UpTo(d, pos, k + 1)
        BY <2>2
      <3>4. CASE k = 0
        BY <1>2, <2>1, <3>3, <3>4
      <3>5. CASE k # 0
        <4>1. k \in Nat \ {0} /\ k - 1 \in 0..length /\ (k - 1) + 1 = k /\ ~ (k <= k - 1)
          BY <1>1, <3>3, <3>5
        <4>2. f[k - 1] = UpTo(d, pos, k)
          BY <2>2, <3>2, <4>1
        <4>3. QED
          BY <1>3, <2>1, <3>3, <3>5, <4>1, <4>2
      <3>6. QED
        BY <3>4, <3>5
    <2>4. f[length] = UpTo(d, pos, length + 1)
      BY <1>1, <2>2, <2>3
    <2>5. \A n \in Editor!NodesOf(d) : pos[n] <= length + 1
      <3>1. \A i \in 1..length : i <= length + 1
        BY <1>1
      <3>2. QED
        BY <3>1 DEF Chain
    <2>6. QED
      BY <2>4, <2>5 DEF UpTo
  <1>7. WalkRule(d, CHOOSE f : WalkRule(d, f))
    BY <1>5, Zenon
  <1>8. QED
    BY <1>1, <1>6, <1>7, WalkIsChosen

\* A draft that has a node has a linear order, an input and an output.
LEMMA ChainIsLinear ==
    ASSUME Editor!EditorAssumption, EditorInv
    PROVE  Editor!EditsKeepTheChain
  <1> SUFFICES ASSUME Editor!NodesOf(part1) # {}
               PROVE  /\ Editor!HasLinearOrder(part1)
                      /\ \E c \in part1.conns : c.from[1] = None /\ c.to[1] \in Editor!Heads(part1)
                      /\ \E c \in part1.conns :
                            c.to[1] = None /\ ~ \E e \in Editor!Edges(part1) : e.from[1] = c.from[1]
                      /\ \A n \in Editor!NodesOf(part1) :
                           \A p \in Editor!InputPorts(part1.node[n]) :
                            \E c \in part1.conns : c.to = Editor!Inner(n, p.name)
    BY DEF Editor!EditsKeepTheChain
  <1>1. IsDraft(part1) /\ Editor!Valid(part1) /\ Fed(part1)
    BY DEF EditorInv, IsChain
  <1>2. PICK length, pos : Chain(part1, length, pos)
    BY DEF EditorInv, IsChain
  <1>3. /\ length \in Nat \ {0}
        /\ IsFiniteSet(Editor!NodesOf(part1)) /\ Cardinality(Editor!NodesOf(part1)) = length
        /\ \E first \in Editor!NodesOf(part1) : Editor!Heads(part1) = {first} /\ pos[first] = 1
        /\ IsFiniteSet(Editor!Edges(part1)) /\ Cardinality(Editor!Edges(part1)) = length - 1
    BY <1>1, <1>2, ChainIsCounted
  <1>4. PICK first \in Editor!NodesOf(part1) : Editor!Heads(part1) = {first} /\ pos[first] = 1
    BY <1>3
  <1>5. Editor!HasLinearOrder(part1)
    <2>1. Editor!Walk(part1) = Editor!NodesOf(part1)
      BY <1>1, <1>2, WalkVisitsAll
    <2>2. Cardinality(Editor!Heads(part1)) = 1
      BY <1>4, FS_Singleton
    <2>3. QED
      BY <1>3, <2>1, <2>2, SameFiniteSets DEF Editor!HasLinearOrder
  <1>6. \E c \in part1.conns : c.from[1] = None /\ c.to[1] \in Editor!Heads(part1)
    <2>1. part1.node[first] \in NodeKinds /\ first # None
      BY <1>1, KindOfNode DEF Editor!EditorAssumption
    <2>2. Editor!In(part1.node[first]) \in Editor!InputPorts(part1.node[first])
      BY DEF Editor!InputPorts
    <2>3. PICK c \in part1.conns : c.to = Editor!Inner(first, Editor!In(part1.node[first]).name)
      BY <1>1, <2>2 DEF Fed
    <2>4. c.to[1] = first
      BY <2>3 DEF Editor!Inner
    <2>5. c.from[1] = None
      BY <1>4, <2>1, <2>4 DEF Editor!Heads, Editor!Edges
    <2>6. QED
      BY <1>4, <2>4, <2>5
  <1>7. \E c \in part1.conns : c.to[1] = None
          /\ ~ \E e \in Editor!Edges(part1) : e.from[1] = c.from[1]
    <2>1. PICK c \in part1.conns :
            c.to[1] = None /\ c.from[1] \in Editor!NodesOf(part1) /\ pos[c.from[1]] = length
      BY <1>2 DEF Chain
    <2>2. ASSUME NEW e \in Editor!Edges(part1), e.from[1] = c.from[1] PROVE FALSE
      <3>1. PICK r : r = e.to[1]
        OBVIOUS
      <3>2. r \in Editor!NodesOf(part1) /\ pos[r] = length + 1
        BY <1>1, <1>2, <2>1, <2>2, <3>1, EdgeFacts DEF Chain
      <3>3. pos[r] \in 1..length
        BY <1>2, <3>2 DEF Chain
      <3>4. QED
        BY <1>3, <3>2, <3>3
    <2>3. QED
      BY <2>1, <2>2
  <1>8. QED
    BY <1>1, <1>5, <1>6, <1>7 DEF Fed

-----------------------------------------------------------------------------
(* The services together.                                                  *)

\* The component in focus keeps its invariant.  The other variables have no
\* values that mean anything.
ServicesInv ==
    /\ focus = "documents" => Documents!IInv
    /\ focus = "records" => Records!IInv
    /\ focus = "snapshots" => Snapshots!IInv
    /\ focus = "delivery" => Delivery!IInv
    /\ focus = "agent" => AgentInv
    /\ focus = "platform" => PlatformInv
    /\ focus = "editor" => EditorInv

\* What no step of the component in focus may change.
KeepsWhatIsBound ==
    /\ focus = "documents" => Documents!KeepsBoundSets
    /\ focus = "records" => Records!KeepsReviewedData
    /\ focus = "snapshots" => Snapshots!KeepsSealedSnapshots
    /\ focus = "delivery" => Delivery!KeepsDelivered

\* Each component begins with its invariant.
LEMMA ServicesInit ==
    ASSUME ServicesAssumption, Init
    PROVE  ServicesInv
  <1>1. focus = "documents" => Documents!IInv
    BY Documents!InitInvariant DEF Init, ServicesAssumption
  <1>2. focus = "records" => Records!IInv
    BY Records!InitHolds DEF Init, ServicesAssumption
  <1>3. focus = "snapshots" => Snapshots!IInv
    BY Snapshots!InitInvariant DEF Init, ServicesAssumption
  <1>4. focus = "delivery" => Delivery!IInv
    BY Delivery!InitInvariant DEF Init, ServicesAssumption
  <1>5. focus = "agent" => AgentInv
    BY AgentInit DEF Init, ServicesAssumption
  <1>6. focus = "platform" => PlatformInv
    BY PlatformInit DEF Init, ServicesAssumption
  <1>7. focus = "editor" => EditorInv
    BY EditorInit DEF Init, ServicesAssumption
  <1>8. QED
    BY <1>1, <1>2, <1>3, <1>4, <1>5, <1>6, <1>7 DEF ServicesInv

\* Each component's own step keeps its invariant and what is bound.
LEMMA ServicesStep ==
    ASSUME ServicesAssumption, ServicesInv, [Next]_vars
    PROVE  ServicesInv' /\ KeepsWhatIsBound
  <1>1. focus' = focus
    BY DEF Next, vars
  <1>2. ASSUME focus = "documents"
        PROVE  Documents!IInv' /\ Documents!KeepsBoundSets
    <2>1. [Documents!Next]_(Documents!vars)
      BY <1>2 DEF Next, vars, Documents!vars
    <2>2. Documents!ExtractionAssumption /\ Documents!IInv
      BY <1>2 DEF ServicesAssumption, ServicesInv
    <2>3. QED
      BY <2>1, <2>2, Documents!InvariantStep
  <1>3. ASSUME focus = "records"
        PROVE  Records!IInv' /\ Records!KeepsReviewedData
    <2>1. [Records!Next]_(Records!vars)
      BY <1>3 DEF Next, vars, Records!vars
    <2>2. Records!ReviewAssumption /\ Records!IInv
      BY <1>3 DEF ServicesAssumption, ServicesInv
    <2>3. QED
      BY <2>1, <2>2, Records!NextHolds, Records!NextKeepsReviewed
  <1>4. ASSUME focus = "snapshots"
        PROVE  Snapshots!IInv' /\ Snapshots!KeepsSealedSnapshots
    <2>1. [Snapshots!Next]_(Snapshots!vars)
      BY <1>4 DEF Next, vars, Snapshots!vars
    <2>2. Snapshots!RetrievalAssumption /\ Snapshots!IInv
      BY <1>4 DEF ServicesAssumption, ServicesInv
    <2>3. QED
      BY <2>1, <2>2, Snapshots!InvariantStep
  <1>5. ASSUME focus = "delivery"
        PROVE  Delivery!IInv' /\ Delivery!KeepsDelivered
    <2>1. [Delivery!Next]_(Delivery!vars)
      BY <1>5 DEF Next, vars, Delivery!vars
    <2>2. Delivery!DeliveryAssumption /\ Delivery!IInv
      BY <1>5 DEF ServicesAssumption, ServicesInv
    <2>3. QED
      BY <2>1, <2>2, Delivery!InvariantStep
  <1>6. ASSUME focus = "agent"
        PROVE  AgentInv'
    <2>1. Agent!AgentAssumption /\ AgentInv
      BY <1>6 DEF ServicesAssumption, ServicesInv
    <2>2. CASE Agent!Next
      BY <2>1, <2>2, AgentStep
    <2>3. CASE UNCHANGED agentVars
      BY <2>1, <2>3 DEF agentVars, AgentInv, Agent!TypeOK, EndIsExplicit, UsageIsCovered,
         StoredIsLast
    <2>4. QED
      BY <1>6, <2>2, <2>3 DEF Next, vars, agentVars
  <1>7. ASSUME focus = "platform"
        PROVE  PlatformInv'
    <2>1. Platform!ConfigAssumption /\ PlatformInv
      BY <1>7 DEF ServicesAssumption, ServicesInv
    <2>2. CASE Platform!Next
      BY <2>1, <2>2, PlatformStep
    <2>3. CASE UNCHANGED <<row, holder, off, request>>
      BY <2>1, <2>3 DEF PlatformInv, Platform!TypeOK, OneActive, RowsAreComplete,
         WritesAreComplete,
         SwitchIsAlone, SwitchCoversActive, NoneRefused, Platform!Active
    <2>4. QED
      BY <1>7, <2>2, <2>3 DEF Next, vars
  <1>8. ASSUME focus = "editor"
        PROVE  EditorInv'
    <2>1. [Editor!Next]_part1
      BY <1>8 DEF Next, vars
    <2>2. Editor!EditorAssumption /\ EditorInv
      BY <1>8 DEF ServicesAssumption, ServicesInv
    <2>3. QED
      BY <2>1, <2>2, EditorStep
  <1>9. QED
    BY <1>1, <1>2, <1>3, <1>4, <1>5, <1>6, <1>7, <1>8 DEF ServicesInv, KeepsWhatIsBound

-----------------------------------------------------------------------------
(* The theorems, for any values of all the components' constants.          *)

\* Each component keeps its inductive invariant.
THEOREM ServicesInvariant ==
    ASSUME ServicesAssumption
    PROVE  Spec => []ServicesInv
  <1>1. Init => ServicesInv
    BY ServicesInit
  <1>2. ServicesInv /\ [Next]_vars => ServicesInv'
    BY ServicesStep
  <1>3. QED
    BY <1>1, <1>2, PTL DEF Spec

\* The sets of documents and of drafts of a succeeded node run are complete,
\* however attempts and runs overlap.
THEOREM FinishedSetsWhole ==
    ASSUME ServicesAssumption
    PROVE  Spec => []FinishedSetsAreWhole
  <1>1. ServicesInv => FinishedSetsAreWhole
    BY Documents!FinishedIsWhole
    DEF ServicesInv, ServicesAssumption, FinishedSetsAreWhole, Documents!IInv
  <1>2. QED
    BY <1>1, ServicesInvariant, PTL

\* What a validation has saved is what another attempt of it computes.
THEOREM SavedResultsAreComputedAgain ==
    ASSUME ServicesAssumption
    PROVE  Spec => []SavedResultsAreReproducible
  <1>1. ServicesInv => SavedResultsAreReproducible
    BY DEF ServicesInv, SavedResultsAreReproducible, Records!IInv, Records!ValidationsAgree
  <1>2. QED
    BY <1>1, ServicesInvariant, PTL

\* A record with an error is published only with fields a reviewer entered.
THEOREM UnsoundIsNotPublished ==
    ASSUME ServicesAssumption
    PROVE  Spec => []UnsoundNeverPublished
  <1>1. ServicesInv => UnsoundNeverPublished
    BY Records!UnsoundStays DEF ServicesInv, ServicesAssumption, UnsoundNeverPublished
  <1>2. QED
    BY <1>1, ServicesInvariant, PTL

\* Whoever is told that a gate, a snapshot, an analysis or an artifact is
\* complete finds stored what it asked for.
THEOREM AnswersAreKept ==
    ASSUME ServicesAssumption
    PROVE  Spec => []AnswersAgree
  <1>1. ASSUME ServicesInv
        PROVE  AnswersAgree
    <2>1. focus = "records" => Records!AnswersAgree
      BY <1>1 DEF ServicesInv, Records!IInv, Records!GateIsConcluded
    <2>2. focus = "snapshots" => Snapshots!TypeOK /\ Snapshots!AnsweredIsActive
      BY <1>1, Snapshots!AnsweredMeansActive DEF ServicesInv, Snapshots!IInv
    <2>3. focus = "delivery" =>
              Delivery!TypeOK /\ Delivery!AnswersAgree /\ Delivery!SubmissionIsKept
      BY <1>1 DEF ServicesInv, Delivery!IInv
    <2>4. QED
      BY <2>1, <2>2, <2>3 DEF AnswersAgree
  <1>2. QED
    BY <1>1, ServicesInvariant, PTL

\* A unit's records are stored only when the agent has read and ended it, for
\* any unit, any drafts and any number of calls in a message.
THEOREM StoredUnitsWereRead ==
    ASSUME ServicesAssumption
    PROVE  Spec => []StoredUnitsAreRead
  <1>1. ServicesInv => StoredUnitsAreRead
    BY AgentStoresWhatItRead DEF ServicesInv, StoredUnitsAreRead
  <1>2. QED
    BY <1>1, ServicesInvariant, PTL

\* At most one configuration of a capability is in force and it is complete,
\* and no switch is refused, for any configurations and any number of
\* requests.
THEOREM SwitchesSerial ==
    ASSUME ServicesAssumption
    PROVE  Spec => []SwitchesAreSerial
  <1>1. ServicesInv => SwitchesAreSerial
    BY PlatformIsSerial DEF ServicesInv, ServicesAssumption, SwitchesAreSerial
  <1>2. QED
    BY <1>1, ServicesInvariant, PTL

\* Whatever commands are accepted, in whatever order, a draft that has a node
\* is one chain from a workflow input to a workflow output with every input
\* of a node connected, for any capabilities in use, nodes and ports.
THEOREM EditsKeepTheChainWhole ==
    ASSUME ServicesAssumption
    PROVE  Spec => []EditsKeepTheChain
  <1>1. ServicesInv => EditsKeepTheChain
    BY ChainIsLinear DEF ServicesInv, ServicesAssumption, EditsKeepTheChain
  <1>2. QED
    BY <1>1, ServicesInvariant, PTL

\* No later attempt, report, person or node changes what has been handed on.
THEOREM BoundResourcesFrozen ==
    ASSUME ServicesAssumption
    PROVE  Spec => BoundResourcesAreFrozen
  <1>1. ServicesInv /\ [Next]_vars => KeepsWhatIsBound
    BY ServicesStep
  <1>2. KeepsWhatIsBound =>
            [/\ focus = "documents" => Documents!KeepsBoundSets
             /\ focus = "records" => Records!KeepsReviewedData
             /\ focus = "snapshots" => Snapshots!KeepsSealedSnapshots
             /\ focus = "delivery" => Delivery!KeepsDelivered]_vars
    BY DEF KeepsWhatIsBound
  <1>3. QED
    BY <1>1, <1>2, ServicesInvariant, PTL DEF Spec, BoundResourcesAreFrozen

=============================================================================
