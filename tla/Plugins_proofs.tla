--------------------------- MODULE Plugins_proofs ---------------------------
(* Theorems of Plugins, for every set of tenants and of calls, and every number *)
(* of versions.                                                                 *)
EXTENDS Plugins, WellFoundedInduction, TLAPS

\* An install is rolled back once the call has found it.
Rolls(q) == q.op = "drop" /\ q.pc # "find"
\* A call that is about to change the tenant's schema, its history or its rows.
Works(q) == q.pc \in {"up", "record", "insert"}
\* The part of a rollback in which an install may be listed that is incomplete.
Unmaking(q) == Rolls(q) /\ q.pc \in {"down", "unrecord", "delete"}

Fetched == {1..k : k \in 0..shipped}

\* What the program counter says of a call's arguments and locals, q.
Shape(q) ==
    /\ q.migrations \in Fetched /\ q.pending \subseteq q.migrations
    /\ q.pc = "idle" => q.op = "none"
    /\ q.pc \in {"exists", "insert"} => q.op \in {"install", "installAll"}
    /\ q.pc \in {"next", "list"} => q.op \in {"installAll", "reconcile"}
    /\ q.pc = "fetch" => q.op \in {"install", "installAll", "reconcile", "drop"}
    /\ q.pc = "applied" => q.op \in {"install", "installAll", "reconcile", "drop"}
    /\ q.pc \in {"up", "record"} => q.op \in {"install", "installAll", "reconcile"} /\ q.pending # {}
    /\ q.pc \in {"down", "unrecord"} => q.op = "drop" /\ q.pending # {}
    /\ q.pc \in {"find", "delete"} => q.op \in {"uninstall", "drop"}
    /\ q.pc \notin {"up", "record", "down", "unrecord"} => q.pending = {}
    /\ q.tenant = None => q.pc \in {"idle", "fetch", "list", "next"}
    /\ q.pc = "fetch" /\ q.tenant = None => q.op = "reconcile"
    /\ q.pc = "fetch" /\ q.op = "reconcile" => q.tenant = None
    /\ q.pc \in {"idle", "list", "next"} => q.tenant = None
    /\ Rolls(q) /\ q.pc # "find" => q.row \in InstallRow /\ q.row.tenant = q.tenant
    /\ q.pc = "delete" => q.row # None

\* Calls work for tenants that asked.
Owned(q) ==
    /\ q.rest \subseteq asked
    /\ q.tenant # None /\ (q.op \in {"install", "installAll", "reconcile"} \/ Rolls(q)) => q.tenant \in asked

\* How the schema of a call's tenant stands to the versions it is going through.
Work(q) ==
    /\ Works(q) => q.migrations \ q.pending \subseteq schema[q.tenant]
    /\ q.pc = "record" => Up(q.pending) \in schema[q.tenant]
    /\ Rolls(q) => RowsOf(q.tenant) \subseteq {q.row}
    /\ Rolls(q) /\ q.pc = "applied" => schema[q.tenant] \subseteq q.migrations
    /\ q.pc = "down" => schema[q.tenant] = q.pending
    /\ q.pc = "unrecord" => schema[q.tenant] = q.pending \ {Down(q.pending)}

\* While no rollback unmakes it, an install that is listed is complete.
RowsComplete ==
    \A i \in installs :
       \/ i.tenant \in torn
       \/ \E c \in Call : Unmaking(call[c]) /\ call[c].tenant = i.tenant
       \/ i.migrations \subseteq schema[i.tenant]

PluginsInv ==
    /\ PluginsTypeOK
    /\ HistoryTruthful /\ VersionsInOrder /\ RowsComplete /\ OthersUntouched
    /\ \A t \in Tenant : schema[t] \subseteq 1..shipped
    /\ Crossed \subseteq torn
    /\ \A c \in Call : /\ Shape(call[c]) /\ Owned(call[c])
                       /\ call[c].tenant \in torn \/ Work(call[c])

----------------------------------------------------------------------------
(* Up and Down *)

LEMMA LeastExists ==
    ASSUME NEW S, S \subseteq Nat, S # {}
    PROVE  \E v \in S : \A w \in S : v <= w
<1> DEFINE R == OpToRel(<, Nat)
<1>1. PICK v \in S : \A w \in S : ~(<<w, v>> \in R)
  BY NatLessThanWellFounded, WFMin
<1>2. \A w \in S : ~(w < v)
  BY <1>1 DEF OpToRel
<1>3. QED
  BY <1>2

LEMMA UpIsLeast ==
    ASSUME NEW S, S \subseteq Version, S # {}
    PROVE  Up(S) \in S /\ \A w \in S : Up(S) <= w
<1>1. S \subseteq Nat
  BY BoundAssumption DEF Version
<1>2. QED
  BY <1>1, LeastExists DEF Up

LEMMA DownIsGreatest ==
    ASSUME NEW S, S \subseteq Version, S # {}
    PROVE  Down(S) \in S /\ \A w \in S : w <= Down(S)
<1> DEFINE D == {d \in Nat : \E v \in S : d + v = Latest}
<1>1. S \subseteq Nat /\ Latest \in Nat /\ \A v \in S : v <= Latest
  BY BoundAssumption DEF Version
<1>2. D # {}
  <2>1. PICK v \in S : TRUE
    OBVIOUS
  <2>2. Latest - v \in Nat /\ (Latest - v) + v = Latest
    BY <1>1
  <2>3. QED
    BY <2>1, <2>2
<1>3. PICK d \in D : \A e \in D : d <= e
  BY <1>2, LeastExists
<1>4. PICK v \in S : d + v = Latest
  BY <1>3
<1>5. ASSUME NEW w \in S
      PROVE  w <= v
  <2>1. Latest - w \in Nat /\ (Latest - w) + w = Latest
    BY <1>1
  <2>2. d <= Latest - w
    BY <1>3, <2>1
  <2>3. QED
    BY <1>1, <1>4, <2>2
<1>6. QED
  BY <1>4, <1>5 DEF Down

----------------------------------------------------------------------------
(* Idle calls and calls that go on with the next tenant *)

LEMMA IdleFine == PluginsTypeOK => Idle \in Process /\ Shape(Idle) /\ Work(Idle)
<1> SUFFICES ASSUME PluginsTypeOK PROVE Idle \in Process /\ Shape(Idle) /\ Work(Idle)
  OBVIOUS
<1>1. Idle \in Process
  BY DEF Idle, Process
<1>2. {} \in Fetched
  <2>1. 0 \in 0..shipped /\ 1..0 = {}
    BY DEF PluginsTypeOK
  <2>2. QED
    BY <2>1 DEF Fetched
<1>3. Shape(Idle)
  BY <1>2 DEF Idle, Shape, Rolls
<1>4. Work(Idle)
  BY DEF Idle, Work, Works, Rolls
<1>5. QED
  BY <1>1, <1>3, <1>4

LEMMA PluginsInitInv == PluginsInit => PluginsInv
<1> SUFFICES ASSUME PluginsInit PROVE PluginsInv
  OBVIOUS
<1>1. Idle \in Process
  BY DEF Idle, Process
<1>2. PluginsTypeOK
  BY <1>1 DEF PluginsInit, PluginsTypeOK
<1>3. \A c \in Call : call[c] = Idle
  BY DEF PluginsInit
<1>4. HistoryTruthful /\ VersionsInOrder /\ RowsComplete /\ OthersUntouched
  BY DEF PluginsInit, HistoryTruthful, VersionsInOrder, RowsComplete, OthersUntouched, RowsOf
<1>5. \A t \in Tenant : schema[t] \subseteq 1..shipped
  BY DEF PluginsInit
<1>6. Crossed \subseteq torn
  BY <1>3 DEF Crossed, Rolling, Rollback, Idle
<1>7. Owned(Idle)
  BY DEF Owned, Idle, Rolls
<1>8. QED
  BY <1>2, <1>3, <1>4, <1>5, <1>6, <1>7, IdleFine DEF PluginsInv

LEMMA NextTenantFine ==
    ASSUME PluginsInv, NEW c \in Call, NextTenant(c)
    PROVE  \E q \in Process :
              /\ call' = [call EXCEPT ![c] = q]
              /\ Shape(q) /\ Work(q) /\ q.tenant = None /\ q.rest \subseteq asked
<1>1. PluginsTypeOK /\ call \in [Call -> Process] /\ call[c] \in Process /\ Shape(call[c]) /\ Owned(call[c])
  BY DEF PluginsInv, PluginsTypeOK
<1>2. CASE Bulk(c)
  <2> DEFINE q == [call[c] EXCEPT !.pc = "next", !.tenant = None, !.pending = {}]
  <2>1. q \in Process /\ call' = [call EXCEPT ![c] = q]
    BY <1>1, <1>2 DEF Process, NextTenant
  <2>2. /\ q.pc = "next" /\ q.tenant = None /\ q.pending = {} /\ q.op = call[c].op
        /\ q.migrations = call[c].migrations /\ q.rest = call[c].rest
    BY <1>1 DEF Process
  <2>3. Shape(q)
    BY <1>1, <1>2, <2>2 DEF Shape, Bulk, Rolls
  <2>4. Work(q) /\ q.rest \subseteq asked
    BY <1>1, <1>2, <2>2 DEF Work, Works, Rolls, Bulk, Owned
  <2>5. QED
    BY <2>1, <2>2, <2>3, <2>4
<1>3. CASE ~Bulk(c)
  <2>1. call' = [call EXCEPT ![c] = Idle]
    BY <1>3 DEF NextTenant
  <2>2. Idle.tenant = None /\ Idle.rest = {}
    BY DEF Idle
  <2>3. QED
    BY <1>1, <2>1, <2>2, IdleFine
<1>4. QED
  BY <1>2, <1>3

LEMMA ReturnsFine ==
    ASSUME PluginsInv, NEW c \in Call, CallReturns(c)
    PROVE  \E q \in Process :
              /\ call' = [call EXCEPT ![c] = q]
              /\ Shape(q) /\ Work(q) /\ q.tenant = None /\ q.rest \subseteq asked
<1>1. PluginsTypeOK
  BY DEF PluginsInv
<1>2. Idle.tenant = None /\ Idle.rest = {}
  BY DEF Idle
<1>3. QED
  BY <1>1, <1>2, IdleFine DEF CallReturns

\* Where a call goes with these versions left.
LEMMA ProceedFine ==
    ASSUME PluginsInv, NEW c \in Call, call[c].pc \in {"applied", "record", "down", "unrecord"},
           NEW left \in SUBSET call[c].migrations, Proceed(c, left)
    PROVE  \E q \in Process :
              /\ call' = [call EXCEPT ![c] = q] /\ Shape(q)
              /\ q.op = call[c].op /\ q.rest = call[c].rest /\ q.row = call[c].row
              /\ q.migrations = call[c].migrations /\ q.pending = left
              /\ call[c].op = "drop" => /\ q.tenant = call[c].tenant
                                        /\ q.pc = IF left = {} THEN "delete" ELSE "down"
              /\ call[c].op # "drop" =>
                    \/ q.pc = "up" /\ left # {} /\ q.tenant = call[c].tenant
                    \/ q.pc = "insert" /\ left = {} /\ q.tenant = call[c].tenant
                    \/ q.pc = "next" /\ left = {} /\ q.tenant = None
<1> DEFINE pc == Turn(c, left)
           q == [call[c] EXCEPT !.pc = pc, !.pending = left,
                                !.tenant = IF pc = "next" THEN None ELSE @]
<1>1. call \in [Call -> Process] /\ call[c] \in Process /\ Shape(call[c])
  BY DEF PluginsInv, PluginsTypeOK
<1>2. /\ call[c].op = "drop" => pc = IF left = {} THEN "delete" ELSE "down"
      /\ call[c].op # "drop" => \/ pc = "up" /\ left # {}
                                \/ pc = "insert" /\ left = {} /\ call[c].op # "reconcile"
                                \/ pc = "next" /\ left = {} /\ call[c].op = "reconcile"
  <2>1. CASE call[c].op = "drop"
    BY <2>1 DEF Turn, Rollback
  <2>2. CASE call[c].op # "drop" /\ left # {}
    BY <2>2 DEF Turn, Rollback
  <2>3. CASE call[c].op # "drop" /\ left = {}
    BY <2>3 DEF Turn, Rollback
  <2>4. QED
    BY <2>1, <2>2, <2>3
<1>3. pc \in {"delete", "down", "up", "insert", "next"}
  BY <1>2
<1>4. q \in Process /\ call' = [call EXCEPT ![c] = q]
  <2>1. call' = [call EXCEPT ![c] = q]
    BY DEF Proceed
  <2>2. left \subseteq Version
    BY <1>1 DEF Process
  <2>3. q \in Process
    BY <1>1, <1>3, <2>2 DEF Process
  <2>4. QED
    BY <2>1, <2>3
<1>5. /\ q.pc = pc /\ q.op = call[c].op /\ q.rest = call[c].rest /\ q.row = call[c].row
      /\ q.migrations = call[c].migrations /\ q.pending = left
      /\ q.tenant = IF pc = "next" THEN None ELSE call[c].tenant
  BY <1>1 DEF Process
<1>6. /\ call[c].tenant # None /\ call[c].op \in {"install", "installAll", "reconcile", "drop"}
      /\ call[c].op = "drop" => call[c].row \in InstallRow /\ call[c].row.tenant = call[c].tenant
  BY <1>1 DEF Shape, Rolls
<1> HIDE DEF pc, q
<1>7. Shape(q)
  BY <1>1, <1>2, <1>5, <1>6, AbsentAssumption DEF Shape, Rolls
<1>8. QED
  BY <1>2, <1>4, <1>5, <1>7

----------------------------------------------------------------------------
(* A step of one call *)

\* What PluginsNext adds to the steps.
Tears == torn' = torn \cup Crossed' \cup UNION {Interrupted(c) : c \in Call}

LEMMA TearsFine ==
    ASSUME PluginsInv, Tears
    PROVE  /\ torn \subseteq torn' /\ Crossed' \subseteq torn' /\ torn' \subseteq Tenant
           /\ \A c \in Call : Interrupted(c) \subseteq torn'
<1>1. torn \subseteq torn' /\ Crossed' \subseteq torn' /\ \A c \in Call : Interrupted(c) \subseteq torn'
  BY DEF Tears
<1>2. Crossed' \subseteq Tenant /\ torn \subseteq Tenant
  BY DEF Crossed, PluginsInv, PluginsTypeOK
<1>3. ASSUME NEW c \in Call
      PROVE  Interrupted(c) \subseteq Tenant
  <2>1. call[c].tenant \in Tenant \cup {None} /\ Shape(call[c])
    BY DEF PluginsInv, PluginsTypeOK, Process
  <2>2. call[c].pc \in {"record", "unrecord", "down", "delete"} => call[c].tenant \in Tenant
    BY <2>1 DEF Shape
  <2>3. QED
    BY <2>2 DEF Interrupted, CallAt
<1>4. QED
  BY <1>1, <1>2, <1>3 DEF Tears

\* Where nothing is torn, a rollback has the tenant to itself.
LEMMA Alone ==
    ASSUME PluginsInv, NEW c \in Call, NEW d \in Call, c # d,
           call[c].tenant = call[d].tenant, call[c].tenant \in Tenant \ torn, Rolls(call[c])
    PROVE  ~Rolls(call[d]) /\ ~Works(call[d])
BY DEF PluginsInv, Crossed, Rolling, Rollback, CallAt, Busy, Rolls, Works

LEMMA AloneNext ==
    ASSUME Crossed' \subseteq torn', NEW c \in Call, NEW d \in Call, c # d,
           call'[c].tenant = call'[d].tenant, call'[c].tenant \in Tenant \ torn', Rolls(call'[c])
    PROVE  ~Rolls(call'[d]) /\ ~Works(call'[d])
BY DEF Crossed, Rolling, Rollback, CallAt, Busy, Rolls, Works

\* The others' work goes on: a rollback has the tenant to itself, and a call that
\* works beside others only adds to the schema.
LEMMA OthersWork ==
    ASSUME PluginsInv, NEW c \in Call, NEW d \in Call, c # d, call'[d] = call[d], torn \subseteq torn',
           \A t \in Tenant \ {call[c].tenant} : schema'[t] = schema[t],
           \A i \in installs' \ installs : i.tenant = call[c].tenant,
           call[c].tenant \in Tenant \ torn' =>
              \/ Rolls(call[c])
              \/ Works(call[c]) /\ schema[call[c].tenant] \subseteq schema'[call[c].tenant]
              \/ schema'[call[c].tenant] = schema[call[c].tenant] /\ installs' \subseteq installs
    PROVE  call'[d].tenant \in torn' \/ Work(call[d])'
<1> SUFFICES ASSUME call[d].tenant \notin torn' PROVE Work(call[d])'
  OBVIOUS
<1> DEFINE q == call[d]
           t == call[d].tenant
<1>1. Shape(q) /\ Work(q) /\ t \in Tenant \cup {None} /\ q \in Process
  BY DEF PluginsInv, PluginsTypeOK, Process
<1>2. q.pc \in {"down", "unrecord"} => Rolls(q)
  BY <1>1 DEF Shape, Rolls
<1>3. Works(q) \/ Rolls(q) => t \in Tenant
  BY <1>1 DEF Shape, Works, Rolls
<1>4. CASE ~Works(q) /\ ~Rolls(q)
  BY <1>2, <1>4 DEF Work, Works
<1>5. CASE t \in Tenant /\ t # call[c].tenant
  <2>1. schema'[t] = schema[t] /\ \A i \in installs' : i.tenant = t => i \in installs
    BY <1>5
  <2>2. QED
    BY <1>1, <2>1 DEF Work, RowsOf
<1>6. CASE t \in Tenant /\ t = call[c].tenant
  <2>1. CASE Rolls(call[c])
    BY <1>2, <1>6, <2>1, Alone DEF Work, Works
  <2>2. CASE Works(call[c]) /\ schema[t] \subseteq schema'[t]
    <3>1. ~Rolls(q)
      BY <1>6, <2>2, Alone
    <3>2. QED
      BY <1>1, <1>2, <2>2, <3>1 DEF Work
  <2>3. CASE schema'[t] = schema[t] /\ installs' \subseteq installs
    BY <1>1, <2>3 DEF Work, RowsOf
  <2>4. QED
    BY <1>6, <2>1, <2>2, <2>3
<1>7. QED
  BY <1>3, <1>4, <1>5, <1>6

\* What is left to show of a step of one call, c.
LEMMA CallSteps ==
    ASSUME PluginsInv, Tears, NEW c \in Call, NEW q \in Process, call' = [call EXCEPT ![c] = q],
           UNCHANGED <<shipped, asked>>, Shape(q), q.rest \subseteq asked,
           q.tenant # None /\ (q.op \in {"install", "installAll", "reconcile"} \/ Rolls(q)) => q.tenant \in asked,
           call'[c].tenant \in torn' \/ Work(call[c])',
           \A t \in Tenant \ {call[c].tenant} : schema'[t] = schema[t],
           \A i \in installs' \ installs : i.tenant = call[c].tenant,
           call[c].tenant \in Tenant \ torn' =>
              \/ Rolls(call[c])
              \/ Works(call[c]) /\ schema[call[c].tenant] \subseteq schema'[call[c].tenant]
              \/ schema'[call[c].tenant] = schema[call[c].tenant] /\ installs' \subseteq installs,
           PluginsTypeOK', HistoryTruthful', VersionsInOrder', RowsComplete', OthersUntouched',
           \A t \in Tenant : schema'[t] \subseteq 1..shipped
    PROVE  PluginsInv'
<1>1. torn \subseteq torn' /\ Crossed' \subseteq torn'
  BY TearsFine
<1>2. call'[c] = q /\ \A d \in Call \ {c} : call'[d] = call[d]
  BY DEF PluginsInv, PluginsTypeOK
<1>3. ASSUME NEW d \in Call
      PROVE  (Shape(call[d]) /\ Owned(call[d]) /\ (call[d].tenant \in torn \/ Work(call[d])))'
  <2>1. CASE d = c
    BY <1>2, <2>1 DEF Shape, Owned, Fetched, Rolls
  <2>2. CASE d # c
    <3>1. call'[d] = call[d] /\ Shape(call[d]) /\ Owned(call[d])
      BY <1>2, <2>2 DEF PluginsInv
    <3>2. Shape(call[d])' /\ Owned(call[d])'
      BY <3>1 DEF Shape, Owned, Fetched, Rolls
    <3>3. call'[d].tenant \in torn' \/ Work(call[d])'
      BY <1>1, <2>2, <3>1, OthersWork
    <3>4. QED
      BY <3>2, <3>3
  <2>3. QED
    BY <2>1, <2>2
<1>4. QED
  BY <1>1, <1>3 DEF PluginsInv

\* A history stays true over the step of a call that was not about to record, or
\* that tears its tenant.
LEMMA HistoryStays ==
    ASSUME PluginsInv, NEW c \in Call, torn \subseteq torn', UNCHANGED <<applied, schema>>,
           \A d \in Call \ {c} : call'[d] = call[d],
           call[c].pc \in {"record", "unrecord"} => call[c].tenant \in torn'
    PROVE  HistoryTruthful'
<1> SUFFICES ASSUME NEW t \in Tenant \ torn', NEW v \in Version
             PROVE  /\ v \in schema'[t] \ applied'[t] =>
                          \E d \in Call : call'[d].pc = "record" /\ call'[d].tenant = t /\ Up(call'[d].pending) = v
                    /\ v \in applied'[t] \ schema'[t] =>
                          \E d \in Call : call'[d].pc = "unrecord" /\ call'[d].tenant = t /\ Down(call'[d].pending) = v
  BY DEF HistoryTruthful, CallAt, Up, Down
<1>1. t \notin torn
  OBVIOUS
<1>2. ASSUME v \in schema[t] \ applied[t]
      PROVE  \E d \in Call : call'[d].pc = "record" /\ call'[d].tenant = t /\ Up(call'[d].pending) = v
  <2>1. PICK d \in Call : call[d].pc = "record" /\ call[d].tenant = t /\ Up(call[d].pending) = v
    BY <1>1, <1>2 DEF PluginsInv, HistoryTruthful, CallAt
  <2>2. d # c
    BY <2>1
  <2>3. QED
    BY <2>1, <2>2
<1>3. ASSUME v \in applied[t] \ schema[t]
      PROVE  \E d \in Call : call'[d].pc = "unrecord" /\ call'[d].tenant = t /\ Down(call'[d].pending) = v
  <2>1. PICK d \in Call : call[d].pc = "unrecord" /\ call[d].tenant = t /\ Down(call[d].pending) = v
    BY <1>1, <1>3 DEF PluginsInv, HistoryTruthful, CallAt
  <2>2. d # c
    BY <2>1
  <2>3. QED
    BY <2>1, <2>2
<1>4. QED
  BY <1>2, <1>3

\* A step that changes no table.
LEMMA CallMoves ==
    ASSUME PluginsInv, Tears, NEW c \in Call, NEW q \in Process, call' = [call EXCEPT ![c] = q],
           UNCHANGED <<tables, shipped>>, asked \subseteq asked', asked' \subseteq Tenant,
           Shape(q), q.rest \subseteq asked',
           q.tenant # None /\ (q.op \in {"install", "installAll", "reconcile"} \/ Rolls(q)) => q.tenant \in asked',
           q.tenant \in torn' \/ Work(q),
           call[c].pc \in {"record", "unrecord"} \/ Unmaking(call[c]) => call[c].tenant \in torn'
    PROVE  PluginsInv'
<1>1. torn \subseteq torn' /\ Crossed' \subseteq torn' /\ torn' \subseteq Tenant
  BY TearsFine
<1>2. PluginsTypeOK /\ call'[c] = q /\ \A d \in Call \ {c} : call'[d] = call[d]
  BY DEF PluginsInv, PluginsTypeOK
<1>3. UNCHANGED <<installs, applied, schema>>
  BY DEF tables
<1>4. PluginsTypeOK'
  BY <1>1, <1>2, <1>3 DEF PluginsTypeOK
<1>5. HistoryTruthful'
  BY <1>1, <1>2, <1>3, HistoryStays
<1>6. VersionsInOrder'
  BY <1>1, <1>3 DEF PluginsInv, VersionsInOrder
<1>7. RowsComplete'
  <2> SUFFICES ASSUME NEW i \in installs, i.tenant \notin torn',
                      ~\E d \in Call : Unmaking(call'[d]) /\ call'[d].tenant = i.tenant
               PROVE  i.migrations \subseteq schema[i.tenant]
    BY <1>3 DEF RowsComplete, Unmaking, Rolls
  <2>1. ASSUME NEW d \in Call, Unmaking(call[d]), call[d].tenant = i.tenant
        PROVE  FALSE
    BY <1>2, <2>1
  <2>2. QED
    BY <1>1, <2>1 DEF PluginsInv, RowsComplete
<1>8. OthersUntouched'
  BY <1>3 DEF PluginsInv, OthersUntouched, RowsOf
<1>9. ASSUME NEW d \in Call
      PROVE  (Shape(call[d]) /\ Owned(call[d]) /\ (call[d].tenant \in torn \/ Work(call[d])))'
  <2>1. CASE d = c
    BY <1>2, <1>3, <2>1 DEF Shape, Owned, Fetched, Rolls, Work, Works, RowsOf
  <2>2. CASE d # c
    <3>1. /\ call'[d] = call[d] /\ Shape(call[d]) /\ Owned(call[d])
          /\ call[d].tenant \in torn \/ Work(call[d])
      BY <1>2, <2>2 DEF PluginsInv
    <3>2. Shape(call[d])' /\ Owned(call[d])'
      BY <3>1 DEF Shape, Owned, Fetched, Rolls
    <3>3. call'[d].tenant \in torn' \/ Work(call[d])'
      BY <1>1, <1>3, <3>1 DEF Work, Works, Rolls, RowsOf
    <3>4. QED
      BY <3>2, <3>3
  <2>3. QED
    BY <2>1, <2>2
<1>10. QED
  BY <1>1, <1>3, <1>4, <1>5, <1>6, <1>7, <1>8, <1>9 DEF PluginsInv

----------------------------------------------------------------------------
(* The steps that change no table *)

\* A call that is through with its tenant, or ends.
LEMMA LeavesInv ==
    ASSUME PluginsInv, Tears, NEW c \in Call, NextTenant(c) \/ CallReturns(c),
           UNCHANGED <<tables, shipped, asked>>,
           call[c].pc \in {"record", "unrecord"} \/ Unmaking(call[c]) => call[c].tenant \in torn'
    PROVE  PluginsInv'
<1>1. PICK q \in Process : /\ call' = [call EXCEPT ![c] = q]
                           /\ Shape(q) /\ Work(q) /\ q.tenant = None /\ q.rest \subseteq asked
  BY NextTenantFine, ReturnsFine
<1>2. asked \subseteq Tenant
  BY DEF PluginsInv, PluginsTypeOK
<1>3. QED
  BY <1>1, <1>2, CallMoves

LEMMA BeginsInv ==
    ASSUME PluginsInv, Tears, NEW c \in Call, NEW q \in Process, BeginCall(c, q),
           asked \subseteq asked', asked' \subseteq Tenant,
           Shape(q), Work(q), q.rest \subseteq asked',
           q.tenant # None /\ (q.op \in {"install", "installAll", "reconcile"} \/ Rolls(q)) => q.tenant \in asked'
    PROVE  PluginsInv'
<1>1. call[c].pc = "idle"
  BY DEF BeginCall, CallAt
<1>2. ~Unmaking(call[c]) /\ call[c].pc \notin {"record", "unrecord"}
  BY <1>1 DEF Unmaking
<1>3. QED
  BY <1>2, CallMoves DEF BeginCall

LEMMA BeginInv ==
    ASSUME PluginsInv, Tears, NEW c \in Call, Begins(c)
    PROVE  PluginsInv'
<1>1. PluginsTypeOK /\ asked \subseteq Tenant
  BY DEF PluginsInv, PluginsTypeOK
<1>2. Idle \in Process /\ Shape(Idle)
  BY <1>1, IdleFine
<1>3. /\ Idle.pending = {} /\ Idle.migrations = {} /\ Idle.rest = {} /\ Idle.row = None
      /\ Idle.op = "none" /\ Idle.tenant = None
  BY DEF Idle
<1>4. {} \in Fetched
  BY <1>2, <1>3 DEF Shape
<1>5. ASSUME NEW t \in Tenant, BeginInstall(c, t)
      PROVE  PluginsInv'
  <2> DEFINE q == [Idle EXCEPT !.pc = "exists", !.op = "install", !.tenant = t]
  <2>1. /\ q \in Process /\ q.pc = "exists" /\ q.op = "install" /\ q.tenant = t
        /\ q.pending = {} /\ q.migrations = {} /\ q.rest = {}
    BY <1>2, <1>3 DEF Process, Op
  <2>2. Shape(q) /\ Work(q)
    BY <1>4, <2>1, AbsentAssumption DEF Shape, Work, Works, Rolls
  <2>3. BeginCall(c, q) /\ asked' = asked \cup {t}
    BY <1>5 DEF BeginInstall
  <2> HIDE DEF q
  <2>4. QED
    BY <1>1, <2>1, <2>2, <2>3, BeginsInv
<1>6. ASSUME NEW active \in SUBSET Tenant, BeginInstallAll(c, active)
      PROVE  PluginsInv'
  <2> DEFINE q == [Idle EXCEPT !.pc = "next", !.op = "installAll", !.rest = active]
  <2>1. /\ q \in Process /\ q.pc = "next" /\ q.op = "installAll" /\ q.tenant = None
        /\ q.pending = {} /\ q.migrations = {} /\ q.rest = active
    BY <1>2, <1>3 DEF Process, Op
  <2>2. Shape(q) /\ Work(q)
    BY <1>4, <2>1 DEF Shape, Work, Works, Rolls
  <2>3. BeginCall(c, q) /\ asked' = asked \cup active
    BY <1>6 DEF BeginInstallAll
  <2> HIDE DEF q
  <2>4. QED
    BY <1>1, <2>1, <2>2, <2>3, BeginsInv
<1>7. ASSUME BeginReconcileAll(c)
      PROVE  PluginsInv'
  <2> DEFINE q == [Idle EXCEPT !.pc = "fetch", !.op = "reconcile"]
  <2>1. /\ q \in Process /\ q.pc = "fetch" /\ q.op = "reconcile" /\ q.tenant = None
        /\ q.pending = {} /\ q.migrations = {} /\ q.rest = {}
    BY <1>2, <1>3 DEF Process, Op
  <2>2. Shape(q) /\ Work(q)
    BY <1>4, <2>1 DEF Shape, Work, Works, Rolls
  <2>3. BeginCall(c, q) /\ asked' = asked
    BY <1>7 DEF BeginReconcileAll
  <2> HIDE DEF q
  <2>4. QED
    BY <1>1, <2>1, <2>2, <2>3, BeginsInv
<1>8. ASSUME NEW t \in Tenant, NEW op \in {"uninstall", "drop"}, BeginUninstall(c, t, op)
      PROVE  PluginsInv'
  <2> DEFINE q == [Idle EXCEPT !.pc = "find", !.op = op, !.tenant = t]
  <2>1. /\ q \in Process /\ q.pc = "find" /\ q.op = op /\ q.tenant = t
        /\ q.pending = {} /\ q.migrations = {} /\ q.rest = {}
    BY <1>2, <1>3 DEF Process, Op
  <2>2. Shape(q) /\ Work(q)
    BY <1>4, <2>1, AbsentAssumption DEF Shape, Work, Works, Rolls
  <2>3. BeginCall(c, q) /\ asked' = asked
    BY <1>8 DEF BeginUninstall
  <2> HIDE DEF q
  <2>4. QED
    BY <1>1, <2>1, <2>2, <2>3, BeginsInv DEF Rolls
<1>9. QED
  BY <1>5, <1>6, <1>7, <1>8 DEF Begins

LEMMA VisitInv ==
    ASSUME PluginsInv, Tears, NEW c \in Call, NEW t \in Tenant, Visit(c, t)
    PROVE  PluginsInv'
<1>1. /\ call \in [Call -> Process] /\ call[c] \in Process /\ Shape(call[c]) /\ Owned(call[c])
      /\ call[c].pc = "next" /\ t \in call[c].rest /\ asked \subseteq Tenant
  BY DEF PluginsInv, PluginsTypeOK, Visit, CallAt
<1>2. ~Unmaking(call[c]) /\ t \in asked
  BY <1>1 DEF Unmaking, Owned
<1>3. call[c].op \in {"installAll", "reconcile"} /\ call[c].pending = {} /\ call[c].tenant = None
  BY <1>1 DEF Shape
<1>4. CASE call[c].op = "installAll" /\ Installed(t)
  <2> DEFINE q == [call[c] EXCEPT !.rest = @ \ {t}]
  <2>1. /\ q \in Process /\ q.pc = "next" /\ q.op = call[c].op /\ q.tenant = None
        /\ q.pending = {} /\ q.migrations = call[c].migrations /\ q.rest = call[c].rest \ {t}
    BY <1>1, <1>3 DEF Process
  <2>2. call' = [call EXCEPT ![c] = q]
    BY <1>4 DEF Visit
  <2> HIDE DEF q
  <2>3. Shape(q) /\ Work(q)
    BY <1>1, <1>3, <2>1 DEF Shape, Work, Works, Rolls
  <2>4. QED
    BY <1>1, <1>2, <2>1, <2>2, <2>3, CallMoves DEF Visit, Owned
<1>5. CASE ~(call[c].op = "installAll" /\ Installed(t))
  <2> DEFINE q == [call[c] EXCEPT !.rest = @ \ {t}, !.tenant = t,
                              !.pc = IF call[c].op = "installAll" THEN "exists" ELSE "applied"]
  <2>1. /\ q \in Process /\ q.pc = (IF call[c].op = "installAll" THEN "exists" ELSE "applied")
        /\ q.op = call[c].op /\ q.tenant = t
        /\ q.pending = {} /\ q.migrations = call[c].migrations /\ q.rest = call[c].rest \ {t}
    BY <1>1, <1>3 DEF Process
  <2>2. call' = [call EXCEPT ![c] = q]
    BY <1>5 DEF Visit
  <2> HIDE DEF q
  <2>3. Shape(q) /\ Work(q)
    BY <1>1, <1>3, <2>1, AbsentAssumption DEF Shape, Work, Works, Rolls
  <2>4. QED
    BY <1>1, <1>2, <2>1, <2>2, <2>3, CallMoves DEF Visit, Owned
<1>6. QED
  BY <1>4, <1>5
LEMMA FinishInv ==
    ASSUME PluginsInv, Tears, NEW c \in Call, Finish(c)
    PROVE  PluginsInv'
BY LeavesInv DEF Finish, CallAt, Unmaking

LEMMA ListInstallsInv ==
    ASSUME PluginsInv, Tears, NEW c \in Call, ListInstalls(c)
    PROVE  PluginsInv'
<1> DEFINE q == [call[c] EXCEPT !.pc = "next", !.rest = Listed]
<1>1. /\ call \in [Call -> Process] /\ call[c] \in Process /\ Shape(call[c]) /\ Owned(call[c])
      /\ call[c].pc = "list" /\ asked \subseteq Tenant /\ installs \subseteq InstallRow
  BY DEF PluginsInv, PluginsTypeOK, ListInstalls, CallAt
<1>2. Listed \subseteq asked
  <2> SUFFICES ASSUME NEW i \in installs PROVE i.tenant \in asked
    BY DEF Listed
  <2>1. i.tenant \in Tenant /\ i \in RowsOf(i.tenant)
    BY <1>1 DEF InstallRow, RowsOf
  <2>2. QED
    BY <2>1 DEF PluginsInv, OthersUntouched
<1>3. ~Unmaking(call[c]) /\ call[c].op \in {"installAll", "reconcile"}
      /\ call[c].pending = {} /\ call[c].tenant = None
  BY <1>1 DEF Shape, Unmaking
<1>4. /\ q \in Process /\ q.pc = "next" /\ q.op = call[c].op /\ q.tenant = None
      /\ q.pending = {} /\ q.migrations = call[c].migrations /\ q.rest = Listed
  BY <1>1, <1>2, <1>3 DEF Process
<1>5. call' = [call EXCEPT ![c] = q]
  BY DEF ListInstalls
<1> HIDE DEF q
<1>6. Shape(q) /\ Work(q)
  BY <1>1, <1>3, <1>4 DEF Shape, Work, Works, Rolls
<1>7. QED
  BY <1>1, <1>2, <1>3, <1>4, <1>5, <1>6, CallMoves DEF ListInstalls

LEMMA CheckInstalledInv ==
    ASSUME PluginsInv, Tears, NEW c \in Call, CheckInstalled(c)
    PROVE  PluginsInv'
<1> DEFINE q == [call[c] EXCEPT !.pc = "fetch"]
<1>1. /\ call \in [Call -> Process] /\ call[c] \in Process /\ Shape(call[c]) /\ Owned(call[c])
      /\ call[c].pc = "exists" /\ asked \subseteq Tenant
  BY DEF PluginsInv, PluginsTypeOK, CheckInstalled, CallAt
<1>2. ~Unmaking(call[c]) /\ call[c].op \in {"install", "installAll"} /\ call[c].pending = {} /\ call[c].tenant # None
  BY <1>1 DEF Shape, Unmaking
<1>3. CASE NextTenant(c)
  BY <1>1, <1>2, <1>3, LeavesInv DEF CheckInstalled
<1>4. CASE CallGoes(c, "fetch")
  <2>1. /\ q \in Process /\ q.pc = "fetch" /\ q.op = call[c].op /\ q.tenant = call[c].tenant
        /\ q.pending = {} /\ q.migrations = call[c].migrations /\ q.rest = call[c].rest
    BY <1>1, <1>2 DEF Process
  <2>2. call' = [call EXCEPT ![c] = q]
    BY <1>4 DEF CallGoes
  <2> HIDE DEF q
  <2>3. Shape(q) /\ Work(q)
    BY <1>1, <1>2, <2>1 DEF Shape, Work, Works, Rolls
  <2>4. QED
    BY <1>1, <1>2, <2>1, <2>2, <2>3, CallMoves DEF CheckInstalled, Owned
<1>5. QED
  BY <1>3, <1>4 DEF CheckInstalled

LEMMA FetchMigrationsInv ==
    ASSUME PluginsInv, Tears, NEW c \in Call, FetchMigrations(c)
    PROVE  PluginsInv'
<1> DEFINE pc == AfterFetch(call[c].op, 1..shipped)
           q == [call[c] EXCEPT !.pc = pc, !.migrations = 1..shipped]
<1>1. /\ call \in [Call -> Process] /\ call[c] \in Process /\ Shape(call[c]) /\ Owned(call[c])
      /\ call[c].pc = "fetch" /\ asked \subseteq Tenant /\ shipped \in 0..Latest
      /\ call[c].tenant \in torn \/ Work(call[c])
  BY DEF PluginsInv, PluginsTypeOK, FetchMigrations, CallAt
<1>2. /\ ~Unmaking(call[c]) /\ call[c].op \in {"install", "installAll", "reconcile", "drop"}
      /\ call[c].pending = {} /\ (call[c].tenant = None <=> call[c].op = "reconcile")
  BY <1>1 DEF Shape, Unmaking
<1>3. /\ call[c].op = "reconcile" => pc \in {"idle", "list"}
      /\ call[c].op = "drop" => pc = "applied"
      /\ call[c].op \in {"install", "installAll"} => pc = "applied" \/ (pc = "insert" /\ 1..shipped = {})
  <2>1. CASE call[c].op = "reconcile"
    BY <2>1 DEF AfterFetch
  <2>2. CASE call[c].op = "drop"
    BY <2>2 DEF AfterFetch
  <2>3. CASE call[c].op \in {"install", "installAll"}
    BY <2>3 DEF AfterFetch
  <2>4. QED
    BY <1>2, <2>1, <2>2, <2>3
<1>4. 1..shipped \in Fetched /\ 1..shipped \subseteq Version
  BY <1>1, BoundAssumption DEF Fetched, Version
<1>5. torn \subseteq torn' /\ torn \subseteq Tenant
  BY TearsFine DEF PluginsInv, PluginsTypeOK
<1>6. CASE pc = "idle"
  <2>1. CallReturns(c)
    BY <1>6 DEF FetchMigrations, CallReturns
  <2>2. QED
    BY <1>1, <1>2, <2>1, LeavesInv DEF FetchMigrations
<1>7. CASE pc # "idle"
  <2>1. /\ q \in Process /\ q.pc = pc /\ q.op = call[c].op /\ q.tenant = call[c].tenant /\ q.row = call[c].row
        /\ q.pending = {} /\ q.migrations = 1..shipped /\ q.rest = call[c].rest
    BY <1>1, <1>2, <1>3, <1>4, <1>7 DEF Process
  <2>2. call' = [call EXCEPT ![c] = q]
    BY <1>7 DEF FetchMigrations
  <2> HIDE DEF pc, q
  <2>3. Shape(q)
    BY <1>1, <1>2, <1>3, <1>4, <1>7, <2>1 DEF Shape, Rolls
  <2>4. q.tenant \in torn' \/ Work(q)
    <3>1. CASE call[c].op # "drop"
      BY <1>2, <1>3, <1>7, <2>1, <3>1 DEF Work, Works, Rolls
    <3>2. CASE call[c].op = "drop"
      <4>1. q.tenant \in Tenant
        BY <1>1, <1>2, <2>1, <3>2 DEF Process
      <4>2. schema[q.tenant] \subseteq 1..shipped
        BY <4>1 DEF PluginsInv
      <4>3. QED
        BY <1>1, <1>3, <1>5, <2>1, <3>2, <4>2 DEF Work, Works, Rolls
    <3>3. QED
      BY <3>1, <3>2
  <2>5. QED
    BY <1>1, <1>2, <2>1, <2>2, <2>3, <2>4, CallMoves DEF FetchMigrations, Owned, Rolls
<1>8. QED
  BY <1>6, <1>7
\* What the history says is true where nothing is torn and no rollback runs, and
\* a rollback that has just read it finds the whole schema in it.
LEMMA ReadAppliedInv ==
    ASSUME PluginsInv, Tears, NEW c \in Call, ReadApplied(c)
    PROVE  PluginsInv'
<1> DEFINE t == call[c].tenant
<1>1. /\ call \in [Call -> Process] /\ call[c] \in Process /\ Shape(call[c]) /\ Owned(call[c])
      /\ call[c].pc = "applied" /\ asked \subseteq Tenant /\ torn \subseteq Tenant
      /\ t \in torn \/ Work(call[c])
      /\ schema \in [Tenant -> SUBSET Version] /\ applied \in [Tenant -> SUBSET Version]
  BY DEF PluginsInv, PluginsTypeOK, ReadApplied, CallAt
<1>2. /\ ~Unmaking(call[c]) /\ call[c].op \in {"install", "installAll", "reconcile", "drop"}
      /\ t \in Tenant
  BY <1>1 DEF Shape, Unmaking, Process
<1>3. torn \subseteq torn' /\ Crossed' \subseteq torn'
  BY TearsFine
<1>4. PICK history \in {applied[t], {}} : Proceed(c, Pending(c, history))
  BY DEF ReadApplied
<1> DEFINE left == Pending(c, history)
<1>5. left \in SUBSET call[c].migrations
  BY DEF Pending
<1>6. PICK q \in Process :
              /\ call' = [call EXCEPT ![c] = q] /\ Shape(q)
              /\ q.op = call[c].op /\ q.rest = call[c].rest /\ q.row = call[c].row
              /\ q.migrations = call[c].migrations /\ q.pending = left
              /\ call[c].op = "drop" => /\ q.tenant = call[c].tenant
                                        /\ q.pc = IF left = {} THEN "delete" ELSE "down"
              /\ call[c].op # "drop" =>
                    \/ q.pc = "up" /\ left # {} /\ q.tenant = call[c].tenant
                    \/ q.pc = "insert" /\ left = {} /\ q.tenant = call[c].tenant
                    \/ q.pc = "next" /\ left = {} /\ q.tenant = None
  BY <1>1, <1>4, <1>5, ProceedFine
<1>7. ASSUME NEW v \in Version, v \in applied[t] \ schema[t], t \notin torn
      PROVE  \E d \in Call \ {c} : call[d].pc = "unrecord" /\ call[d].tenant = t /\ Rolls(call[d])
  <2>1. PICK d \in Call : call[d].pc = "unrecord" /\ call[d].tenant = t
    BY <1>2, <1>7 DEF PluginsInv, HistoryTruthful, CallAt
  <2>2. Shape(call[d]) /\ d # c
    BY <1>1, <2>1 DEF PluginsInv
  <2>3. QED
    BY <2>1, <2>2 DEF Shape, Rolls
<1>8. q.tenant \in torn' \/ Work(q)
  <2> SUFFICES ASSUME q.tenant \notin torn' PROVE Work(q)
    OBVIOUS
  <2>1. CASE call[c].op = "drop"
    <3>1. t \notin torn /\ Work(call[c]) /\ Rolls(call[c])
      BY <1>1, <1>3, <1>6, <2>1 DEF Rolls
    <3>2. RowsOf(t) \subseteq {q.row} /\ schema[t] \subseteq call[c].migrations
      BY <1>1, <1>6, <3>1 DEF Work
    <3>3. applied[t] = schema[t]
      <4>1. ASSUME NEW v \in Version, v \in schema[t] \ applied[t]
            PROVE  FALSE
        <5>1. PICK d \in Call : call[d].pc = "record" /\ call[d].tenant = t
          BY <1>2, <3>1, <4>1 DEF PluginsInv, HistoryTruthful, CallAt
        <5>2. d # c /\ Works(call[d])
          BY <1>1, <5>1 DEF Works
        <5>3. QED
          BY <1>2, <3>1, <5>1, <5>2, Alone
      <4>2. ASSUME NEW v \in Version, v \in applied[t] \ schema[t]
            PROVE  FALSE
        <5>1. PICK d \in Call \ {c} : call[d].tenant = t /\ Rolls(call[d])
          BY <1>7, <3>1, <4>2
        <5>2. QED
          BY <1>2, <3>1, <5>1, Alone
      <4>3. QED
        BY <1>1, <1>2, <4>1, <4>2
    <3>4. q.pc = "down" => schema[t] = left
      BY <1>6, <2>1, <3>2, <3>3 DEF Pending, Rollback
    <3>5. QED
      BY <1>6, <2>1, <3>2, <3>4 DEF Work, Works
  <2>2. CASE call[c].op # "drop" /\ Works(q)
    <3>1. q.tenant = t /\ t \notin torn
      BY <1>3, <1>6, <2>2 DEF Works
    <3>2. applied[t] \subseteq schema[t]
      <4>1. ASSUME NEW v \in Version, v \in applied[t] \ schema[t]
            PROVE  FALSE
        <5>1. PICK d \in Call \ {c} : call[d].tenant = t /\ Rolls(call[d])
          BY <1>7, <3>1, <4>1
        <5>2. call'[d] = call[d] /\ call'[c] = q
          BY <1>1, <1>6
        <5>3. QED
          BY <1>2, <1>3, <2>2, <3>1, <5>1, <5>2, AloneNext
      <4>2. QED
        BY <1>1, <1>2, <4>1
    <3>3. call[c].migrations \ left \subseteq schema[t]
      BY <2>2, <3>2 DEF Pending, Rollback
    <3>4. QED
      BY <1>6, <2>2, <3>1, <3>3 DEF Work, Rolls
  <2>3. CASE call[c].op # "drop" /\ ~Works(q)
    BY <1>6, <2>3 DEF Work, Works, Rolls
  <2>4. QED
    BY <2>1, <2>2, <2>3
<1>9. QED
  BY <1>1, <1>2, <1>6, <1>8, CallMoves DEF ReadApplied, Owned, Rolls

LEMMA UpFailsInv ==
    ASSUME PluginsInv, Tears, NEW c \in Call, UpFails(c)
    PROVE  PluginsInv'
BY LeavesInv DEF UpFails, AfterFailure, CallAt, Unmaking

\* Skipping tears the tenant, so that nothing is promised of it any more.
LEMMA SkipDownInv ==
    ASSUME PluginsInv, Tears, NEW c \in Call, SkipDown(c)
    PROVE  PluginsInv'
<1>1. /\ Shape(call[c]) /\ Owned(call[c]) /\ call[c].pc = "down" /\ asked \subseteq Tenant
  BY DEF PluginsInv, PluginsTypeOK, SkipDown, CallAt
<1>2. call[c].tenant \in torn'
  <2>1. Interrupted(c) = {call[c].tenant}
    BY <1>1 DEF Interrupted, CallAt
  <2>2. QED
    BY <2>1, TearsFine
<1>3. call[c].op = "drop"
  BY <1>1 DEF Shape
<1> DEFINE left == call[c].pending \ {Down(call[c].pending)}
<1>4. left \in SUBSET call[c].migrations /\ Proceed(c, left)
  BY <1>1 DEF Shape, SkipDown
<1>5. PICK q \in Process :
              /\ call' = [call EXCEPT ![c] = q] /\ Shape(q)
              /\ q.op = call[c].op /\ q.rest = call[c].rest
              /\ q.tenant = call[c].tenant
  BY <1>1, <1>3, <1>4, ProceedFine
<1>6. QED
  BY <1>1, <1>2, <1>3, <1>5, CallMoves DEF SkipDown, Owned, Rolls

LEMMA FindInstallInv ==
    ASSUME PluginsInv, Tears, NEW c \in Call, FindInstall(c)
    PROVE  PluginsInv'
<1> DEFINE t == call[c].tenant
<1>1. /\ call \in [Call -> Process] /\ call[c] \in Process /\ Shape(call[c]) /\ Owned(call[c])
      /\ call[c].pc = "find" /\ asked \subseteq Tenant /\ installs \subseteq InstallRow
  BY DEF PluginsInv, PluginsTypeOK, FindInstall, CallAt
<1>2. ~Unmaking(call[c]) /\ call[c].op \in {"uninstall", "drop"} /\ call[c].pending = {} /\ t \in Tenant
  BY <1>1 DEF Shape, Unmaking, Process
<1>3. ASSUME NEW row \in RowsOf(t), RowsOf(t) = {row},
             call' = [call EXCEPT ![c].row = row, ![c].pc = IF Rollback(c) THEN "fetch" ELSE "delete"]
      PROVE  PluginsInv'
  <2> DEFINE q == [call[c] EXCEPT !.row = row, !.pc = IF Rollback(c) THEN "fetch" ELSE "delete"]
  <2>1. row \in InstallRow /\ row.tenant = t /\ row # None
    BY <1>1, AbsentAssumption DEF RowsOf
  <2>2. /\ q \in Process /\ q.op = call[c].op /\ q.tenant = t /\ q.row = row
        /\ q.pc = (IF call[c].op = "drop" THEN "fetch" ELSE "delete")
        /\ q.pending = {} /\ q.migrations = call[c].migrations /\ q.rest = call[c].rest
    BY <1>1, <1>2, <2>1 DEF Process, Rollback
  <2>3. call' = [call EXCEPT ![c] = q]
    BY <1>3
  <2>4. t \in asked
    BY <1>2 DEF PluginsInv, OthersUntouched
  <2> HIDE DEF q
  <2>5. Shape(q)
    BY <1>1, <1>2, <2>1, <2>2, AbsentAssumption DEF Shape, Rolls
  <2>6. Work(q)
    BY <1>2, <1>3, <2>2 DEF Work, Works, Rolls
  <2>7. QED
    BY <1>1, <1>2, <2>2, <2>3, <2>4, <2>5, <2>6, CallMoves DEF FindInstall, Owned
<1>4. CASE CallReturns(c)
  BY <1>1, <1>2, <1>4, LeavesInv DEF FindInstall
<1>5. QED
  BY <1>3, <1>4 DEF FindInstall

LEMMA StepFailsInv ==
    ASSUME PluginsInv, Tears, NEW c \in Call, StepFails(c)
    PROVE  PluginsInv'
<1>1. call[c].pc \in {"exists", "fetch", "up", "insert"}
  BY DEF StepFails, CallAt
<1>2. NextTenant(c) \/ CallReturns(c)
  BY DEF StepFails, AfterFailure
<1>3. QED
  BY <1>1, <1>2, LeavesInv DEF StepFails, Unmaking

LEMMA AbandonInv ==
    ASSUME PluginsInv, Tears, NEW c \in Call, Abandon(c)
    PROVE  PluginsInv'
<1>1. ASSUME call[c].pc \in {"record", "unrecord"} \/ Unmaking(call[c])
      PROVE  call[c].tenant \in torn'
  <2>1. Interrupted(c) = {call[c].tenant}
    BY <1>1 DEF Interrupted, CallAt, Unmaking, Rolls, Rollback
  <2>2. QED
    BY <2>1, TearsFine
<1>2. QED
  BY <1>1, LeavesInv DEF Abandon
----------------------------------------------------------------------------
(* The steps that write *)

\* Versions a call goes through are versions that were shipped.
LEMMA PendingFine ==
    ASSUME PluginsInv, NEW c \in Call
    PROVE  /\ call[c].pending \subseteq call[c].migrations
           /\ call[c].migrations \subseteq Version /\ call[c].migrations \subseteq 1..shipped
           /\ \A v \in call[c].migrations : 1..v \subseteq call[c].migrations
<1>1. Shape(call[c]) /\ shipped \in 0..Latest
  BY DEF PluginsInv, PluginsTypeOK
<1>2. PICK k \in 0..shipped : call[c].migrations = 1..k
  BY <1>1 DEF Shape, Fetched
<1>3. QED
  BY <1>1, <1>2, BoundAssumption DEF Shape, Version

\* A history that was true stays so, where the new schema and the new history
\* differ by one version on which the call has just moved.
LEMMA HistoryKept ==
    ASSUME PluginsInv, NEW c \in Call, NEW t \in Tenant, torn \subseteq torn', NEW u \in Version,
           \A d \in Call \ {c} : call'[d] = call[d], call[c].tenant = t,
           \A other \in Tenant \ {t} : schema'[other] = schema[other] /\ applied'[other] = applied[other],
           \A v \in Version \ {u} : (v \in schema'[t] <=> v \in schema[t]) /\ (v \in applied'[t] <=> v \in applied[t]),
           call[c].pc = "record" => Up(call[c].pending) = u,
           call[c].pc = "unrecord" => Down(call[c].pending) = u,
           u \in schema'[t] \ applied'[t] /\ t \notin torn' =>
              call'[c].pc = "record" /\ call'[c].tenant = t /\ Up(call'[c].pending) = u,
           u \in applied'[t] \ schema'[t] /\ t \notin torn' =>
              call'[c].pc = "unrecord" /\ call'[c].tenant = t /\ Down(call'[c].pending) = u
    PROVE  HistoryTruthful'
<1> SUFFICES ASSUME NEW s \in Tenant \ torn', NEW v \in Version
             PROVE  /\ v \in schema'[s] \ applied'[s] =>
                          \E d \in Call : call'[d].pc = "record" /\ call'[d].tenant = s /\ Up(call'[d].pending) = v
                    /\ v \in applied'[s] \ schema'[s] =>
                          \E d \in Call : call'[d].pc = "unrecord" /\ call'[d].tenant = s /\ Down(call'[d].pending) = v
  BY DEF HistoryTruthful, CallAt, Up, Down
<1>1. CASE s = t /\ v = u
  BY <1>1
<1>2. CASE s # t \/ v # u
  <2>1. /\ v \in schema'[s] <=> v \in schema[s]
        /\ v \in applied'[s] <=> v \in applied[s]
    BY <1>2
  <2>2. s \notin torn
    OBVIOUS
  <2>3. ASSUME v \in schema[s] \ applied[s]
        PROVE  \E d \in Call : call'[d].pc = "record" /\ call'[d].tenant = s /\ Up(call'[d].pending) = v
    <3>1. PICK d \in Call : call[d].pc = "record" /\ call[d].tenant = s /\ Up(call[d].pending) = v
      BY <2>2, <2>3 DEF PluginsInv, HistoryTruthful, CallAt
    <3>2. d # c
      BY <1>2, <3>1
    <3>3. QED
      BY <3>1, <3>2
  <2>4. ASSUME v \in applied[s] \ schema[s]
        PROVE  \E d \in Call : call'[d].pc = "unrecord" /\ call'[d].tenant = s /\ Down(call'[d].pending) = v
    <3>1. PICK d \in Call : call[d].pc = "unrecord" /\ call[d].tenant = s /\ Down(call[d].pending) = v
      BY <2>2, <2>4 DEF PluginsInv, HistoryTruthful, CallAt
    <3>2. d # c
      BY <1>2, <3>1
    <3>3. QED
      BY <3>1, <3>2
  <2>5. QED
    BY <2>1, <2>3, <2>4
<1>3. QED
  BY <1>1, <1>2

LEMMA RunUpInv ==
    ASSUME PluginsInv, Tears, NEW c \in Call, RunUp(c)
    PROVE  PluginsInv'
<1> DEFINE t == call[c].tenant
           v == Up(call[c].pending)
           q == [call[c] EXCEPT !.pc = "record"]
<1>1. /\ call \in [Call -> Process] /\ call[c] \in Process /\ Shape(call[c]) /\ Owned(call[c])
      /\ call[c].pc = "up" /\ PluginsTypeOK
      /\ t \in torn \/ Work(call[c])
      /\ schema' = [schema EXCEPT ![t] = @ \cup {v}] /\ call' = [call EXCEPT ![c] = q]
      /\ UNCHANGED <<installs, applied, shipped, asked>>
  BY DEF PluginsInv, PluginsTypeOK, RunUp, CallAt, CallGoes
<1>2. /\ call[c].op \in {"install", "installAll", "reconcile"} /\ call[c].pending # {}
      /\ t \in Tenant /\ t \in asked
  BY <1>1 DEF Shape, Process, Owned
<1>3. torn \subseteq torn' /\ torn' \subseteq Tenant
  BY TearsFine
<1>4. v \in call[c].pending /\ v \in call[c].migrations /\ v \in Version /\ \A w \in call[c].pending : v <= w
  BY <1>2, PendingFine, UpIsLeast
<1>5. schema'[t] = schema[t] \cup {v} /\ \A s \in Tenant \ {t} : schema'[s] = schema[s]
  BY <1>1, <1>2 DEF PluginsTypeOK
<1>6. /\ q \in Process /\ q.pc = "record" /\ q.op = call[c].op /\ q.tenant = t /\ q.row = call[c].row
      /\ q.pending = call[c].pending /\ q.migrations = call[c].migrations /\ q.rest = call[c].rest
  BY <1>1 DEF Process
<1>7. call'[c] = q /\ (\A d \in Call \ {c} : call'[d] = call[d]) /\ v = Up(call[c].pending)
  BY <1>1
<1> HIDE DEF q, v
<1>8. Shape(q)
  BY <1>1, <1>2, <1>6, AbsentAssumption DEF Shape, Rolls
<1>9. t \notin torn' => call[c].migrations \ call[c].pending \subseteq schema[t]
  BY <1>1, <1>3 DEF Work, Works
<1>10. call'[c].tenant \in torn' \/ Work(call[c])'
  BY <1>2, <1>5, <1>6, <1>7, <1>9 DEF Work, Works, Rolls
<1>11. PluginsTypeOK'
  BY <1>1, <1>3, <1>4, <1>6 DEF PluginsTypeOK
<1>12. HistoryTruthful'
  BY <1>1, <1>2, <1>3, <1>4, <1>5, <1>6, <1>7, HistoryKept
<1>13. VersionsInOrder'
  <2> SUFFICES ASSUME NEW s \in Tenant \ torn', NEW w \in schema'[s] PROVE 1..w \subseteq schema'[s]
    BY DEF VersionsInOrder
  <2>1. CASE w \in schema[s]
    BY <1>3, <1>5, <2>1 DEF PluginsInv, VersionsInOrder
  <2>2. CASE w \notin schema[s]
    <3>1. s = t /\ w = v
      BY <1>5, <2>2
    <3>2. ASSUME NEW x \in 1..v
          PROVE  x \in schema'[t]
      <4>1. x \in call[c].migrations /\ x \in Nat /\ v \in Nat /\ x <= v
        BY <1>4, PendingFine, BoundAssumption DEF Version
      <4>2. CASE x \in call[c].pending
        BY <1>4, <1>5, <4>1, <4>2
      <4>3. CASE x \notin call[c].pending
        BY <1>5, <1>9, <3>1, <4>1, <4>3
      <4>4. QED
        BY <4>2, <4>3
    <3>3. QED
      BY <3>1, <3>2
  <2>3. QED
    BY <2>1, <2>2
<1>14. RowsComplete'
  <2> SUFFICES ASSUME NEW i \in installs, i.tenant \notin torn',
                      ~\E d \in Call : Unmaking(call'[d]) /\ call'[d].tenant = i.tenant
               PROVE  i.migrations \subseteq schema'[i.tenant]
    BY <1>1 DEF RowsComplete, Unmaking, Rolls
  <2>1. ASSUME NEW d \in Call, Unmaking(call[d]), call[d].tenant = i.tenant
        PROVE  FALSE
    BY <1>1, <1>7, <2>1 DEF Unmaking
  <2>2. i.migrations \subseteq schema[i.tenant] /\ i.tenant \in Tenant
    BY <1>1, <1>3, <2>1 DEF PluginsInv, RowsComplete, PluginsTypeOK, InstallRow
  <2>3. QED
    BY <1>5, <2>2
<1>15. OthersUntouched'
  BY <1>1, <1>2, <1>5 DEF PluginsInv, OthersUntouched, RowsOf
<1>16. \A s \in Tenant : schema'[s] \subseteq 1..shipped
  BY <1>4, <1>5, PendingFine DEF PluginsInv
<1>17. Works(call[c]) /\ schema[t] \subseteq schema'[t]
  BY <1>1, <1>5 DEF Works
<1>18. QED
  BY <1>1, <1>2, <1>5, <1>6, <1>8, <1>10, <1>11, <1>12, <1>13, <1>14, <1>15, <1>16, <1>17, CallSteps DEF Owned

LEMMA RecordAppliedInv ==
    ASSUME PluginsInv, Tears, NEW c \in Call, RecordApplied(c)
    PROVE  PluginsInv'
<1> DEFINE t == call[c].tenant
           v == Up(call[c].pending)
           left == call[c].pending \ {v}
<1>1. /\ call \in [Call -> Process] /\ call[c] \in Process /\ Shape(call[c]) /\ Owned(call[c])
      /\ call[c].pc = "record" /\ PluginsTypeOK
      /\ t \in torn \/ Work(call[c])
      /\ applied' = [applied EXCEPT ![t] = @ \cup {v}] /\ Proceed(c, left)
      /\ UNCHANGED <<installs, schema, shipped, asked>>
  BY DEF PluginsInv, PluginsTypeOK, RecordApplied, CallAt
<1>2. /\ call[c].op \in {"install", "installAll", "reconcile"} /\ call[c].pending # {}
      /\ t \in Tenant /\ t \in asked
  BY <1>1 DEF Shape, Process, Owned
<1>3. torn \subseteq torn' /\ torn' \subseteq Tenant
  BY TearsFine
<1>4. v \in call[c].pending /\ v \in Version
  BY <1>2, PendingFine, UpIsLeast
<1>5. applied'[t] = applied[t] \cup {v} /\ \A s \in Tenant \ {t} : applied'[s] = applied[s]
  BY <1>1, <1>2 DEF PluginsTypeOK
<1>6. left \in SUBSET call[c].migrations
  BY PendingFine
<1>7. PICK q \in Process :
              /\ call' = [call EXCEPT ![c] = q] /\ Shape(q)
              /\ q.op = call[c].op /\ q.rest = call[c].rest
              /\ q.migrations = call[c].migrations /\ q.pending = left
              /\ call[c].op # "drop" =>
                    \/ q.pc = "up" /\ left # {} /\ q.tenant = call[c].tenant
                    \/ q.pc = "insert" /\ left = {} /\ q.tenant = call[c].tenant
                    \/ q.pc = "next" /\ left = {} /\ q.tenant = None
  <2>1. call[c].pc \in {"applied", "record", "down", "unrecord"} /\ Proceed(c, left)
    BY <1>1
  <2> HIDE DEF left
  <2>2. QED
    BY <1>6, <2>1, ProceedFine
<1>8. call'[c] = q /\ \A d \in Call \ {c} : call'[d] = call[d]
  BY <1>1, <1>7
<1>9. t \notin torn' => v \in schema[t] /\ call[c].migrations \ call[c].pending \subseteq schema[t]
  BY <1>1, <1>3 DEF Work, Works
<1>10. call'[c].tenant \in torn' \/ Work(call[c])'
  <2>1. CASE q.pc = "next"
    BY <1>2, <1>7, <1>8, <2>1 DEF Work, Works, Rolls
  <2>2. CASE q.pc # "next"
    BY <1>1, <1>2, <1>7, <1>8, <1>9, <2>2 DEF Work, Works, Rolls
  <2>3. QED
    BY <2>1, <2>2
<1>11. PluginsTypeOK'
  BY <1>1, <1>3, <1>4, <1>7 DEF PluginsTypeOK
<1>12. HistoryTruthful'
  BY <1>1, <1>2, <1>3, <1>4, <1>5, <1>8, <1>9, HistoryKept
<1>13. VersionsInOrder'
  BY <1>1, <1>3 DEF PluginsInv, VersionsInOrder
<1>14. RowsComplete'
  <2> SUFFICES ASSUME NEW i \in installs, i.tenant \notin torn',
                      ~\E d \in Call : Unmaking(call'[d]) /\ call'[d].tenant = i.tenant
               PROVE  i.migrations \subseteq schema[i.tenant]
    BY <1>1 DEF RowsComplete, Unmaking, Rolls
  <2>1. ASSUME NEW d \in Call, Unmaking(call[d]), call[d].tenant = i.tenant
        PROVE  FALSE
    BY <1>1, <1>8, <2>1 DEF Unmaking
  <2>2. QED
    BY <1>3, <2>1 DEF PluginsInv, RowsComplete
<1>15. OthersUntouched'
  BY <1>1, <1>2, <1>5 DEF PluginsInv, OthersUntouched, RowsOf
<1>16. \A s \in Tenant : schema'[s] \subseteq 1..shipped
  BY <1>1 DEF PluginsInv
<1>17. QED
  BY <1>1, <1>2, <1>7, <1>10, <1>11, <1>12, <1>13, <1>14, <1>15, <1>16, CallSteps DEF Owned

\* The newest version of the schema goes, so that the rest is still in order.
LEMMA RunDownInv ==
    ASSUME PluginsInv, Tears, NEW c \in Call, RunDown(c)
    PROVE  PluginsInv'
<1> DEFINE t == call[c].tenant
           v == Down(call[c].pending)
           q == [call[c] EXCEPT !.pc = "unrecord"]
<1>1. /\ call \in [Call -> Process] /\ call[c] \in Process /\ Shape(call[c]) /\ Owned(call[c])
      /\ call[c].pc = "down" /\ PluginsTypeOK
      /\ t \in torn \/ Work(call[c])
      /\ schema' = [schema EXCEPT ![t] = @ \ {v}] /\ call' = [call EXCEPT ![c] = q]
      /\ UNCHANGED <<installs, applied, shipped, asked>>
  BY DEF PluginsInv, PluginsTypeOK, RunDown, CallAt, CallGoes
<1>2. call[c].op = "drop" /\ call[c].pending # {} /\ t \in Tenant /\ Rolls(call[c]) /\ t \in asked
  BY <1>1 DEF Shape, Process, Owned, Rolls
<1>3. torn \subseteq torn' /\ torn' \subseteq Tenant
  BY TearsFine
<1>4. v \in call[c].pending /\ v \in Version /\ \A w \in call[c].pending : w <= v
  BY <1>2, PendingFine, DownIsGreatest
<1>5. schema'[t] = schema[t] \ {v} /\ \A s \in Tenant \ {t} : schema'[s] = schema[s]
  BY <1>1, <1>2 DEF PluginsTypeOK
<1>6. /\ q \in Process /\ q.pc = "unrecord" /\ q.op = call[c].op /\ q.tenant = t /\ q.row = call[c].row
      /\ q.pending = call[c].pending /\ q.migrations = call[c].migrations /\ q.rest = call[c].rest
  BY <1>1 DEF Process
<1>7. call'[c] = q /\ (\A d \in Call \ {c} : call'[d] = call[d]) /\ v = Down(call[c].pending)
  BY <1>1
<1> HIDE DEF q, v
<1>8. Shape(q)
  BY <1>1, <1>2, <1>6, AbsentAssumption DEF Shape, Rolls
<1>9. t \notin torn' => schema[t] = call[c].pending /\ RowsOf(t) \subseteq {call[c].row}
  BY <1>1, <1>2, <1>3 DEF Work
<1>10. call'[c].tenant \in torn' \/ Work(call[c])'
  BY <1>1, <1>5, <1>6, <1>7, <1>9 DEF Work, Works, RowsOf
<1>11. PluginsTypeOK'
  BY <1>1, <1>2, <1>3, <1>6 DEF PluginsTypeOK
<1>12. HistoryTruthful'
  BY <1>1, <1>2, <1>3, <1>4, <1>5, <1>6, <1>7, HistoryKept
<1>13. VersionsInOrder'
  <2> SUFFICES ASSUME NEW s \in Tenant \ torn', NEW w \in schema'[s] PROVE 1..w \subseteq schema'[s]
    BY DEF VersionsInOrder
  <2>1. 1..w \subseteq schema[s] /\ w \in schema[s]
    BY <1>3, <1>5 DEF PluginsInv, VersionsInOrder
  <2>2. ASSUME s = t
        PROVE  v \notin 1..w
    <3>1. w <= v /\ w # v /\ w \in Nat /\ v \in Nat
      BY <1>4, <1>5, <1>9, <2>1, <2>2, PendingFine, BoundAssumption DEF Version
    <3>2. QED
      BY <3>1
  <2>3. QED
    BY <1>5, <2>1, <2>2
<1>14. RowsComplete'
  <2> SUFFICES ASSUME NEW i \in installs, i.tenant \notin torn',
                      ~\E d \in Call : Unmaking(call'[d]) /\ call'[d].tenant = i.tenant
               PROVE  i.migrations \subseteq schema'[i.tenant]
    BY <1>1 DEF RowsComplete, Unmaking, Rolls
  <2>1. Unmaking(q)
    BY <1>2, <1>6 DEF Unmaking, Rolls
  <2>2. i.tenant # t
    BY <1>6, <1>7, <2>1
  <2>3. ASSUME NEW d \in Call, Unmaking(call[d]), call[d].tenant = i.tenant
        PROVE  FALSE
    BY <1>7, <2>2, <2>3
  <2>4. i.migrations \subseteq schema[i.tenant] /\ i.tenant \in Tenant
    BY <1>1, <1>3, <2>3 DEF PluginsInv, RowsComplete, PluginsTypeOK, InstallRow
  <2>5. QED
    BY <1>5, <2>2, <2>4
<1>15. OthersUntouched'
  BY <1>1, <1>2, <1>5 DEF PluginsInv, OthersUntouched, RowsOf
<1>16. \A s \in Tenant : schema'[s] \subseteq 1..shipped
  BY <1>5 DEF PluginsInv
<1>17. QED
  BY <1>1, <1>2, <1>5, <1>6, <1>8, <1>10, <1>11, <1>12, <1>13, <1>14, <1>15, <1>16, CallSteps DEF Owned

LEMMA RecordRolledBackInv ==
    ASSUME PluginsInv, Tears, NEW c \in Call, RecordRolledBack(c)
    PROVE  PluginsInv'
<1> DEFINE t == call[c].tenant
           v == Down(call[c].pending)
           left == call[c].pending \ {v}
<1>1. /\ call \in [Call -> Process] /\ call[c] \in Process /\ Shape(call[c]) /\ Owned(call[c])
      /\ call[c].pc = "unrecord" /\ PluginsTypeOK
      /\ t \in torn \/ Work(call[c])
      /\ applied' = [applied EXCEPT ![t] = @ \ {v}] /\ Proceed(c, left)
      /\ UNCHANGED <<installs, schema, shipped, asked>>
  BY DEF PluginsInv, PluginsTypeOK, RecordRolledBack, RolledBack, CallAt
<1>2. call[c].op = "drop" /\ call[c].pending # {} /\ t \in Tenant /\ Rolls(call[c]) /\ t \in asked
  BY <1>1 DEF Shape, Process, Owned, Rolls
<1>3. torn \subseteq torn' /\ torn' \subseteq Tenant
  BY TearsFine
<1>4. v \in call[c].pending /\ v \in Version
  BY <1>2, PendingFine, DownIsGreatest
<1>5. applied'[t] = applied[t] \ {v} /\ \A s \in Tenant \ {t} : applied'[s] = applied[s]
  BY <1>1, <1>2 DEF PluginsTypeOK
<1>6. left \in SUBSET call[c].migrations
  BY PendingFine
<1>7. PICK q \in Process :
              /\ call' = [call EXCEPT ![c] = q] /\ Shape(q)
              /\ q.op = call[c].op /\ q.rest = call[c].rest /\ q.row = call[c].row
              /\ q.pending = left /\ q.tenant = call[c].tenant
              /\ q.pc = IF left = {} THEN "delete" ELSE "down"
  BY <1>1, <1>2, <1>6, ProceedFine
<1>8. call'[c] = q /\ \A d \in Call \ {c} : call'[d] = call[d]
  BY <1>1, <1>7
<1>9. t \notin torn' => schema[t] = left /\ RowsOf(t) \subseteq {call[c].row}
  BY <1>1, <1>2, <1>3 DEF Work
<1>10. call'[c].tenant \in torn' \/ Work(call[c])'
  BY <1>1, <1>7, <1>8, <1>9 DEF Work, Works, RowsOf
<1>11. PluginsTypeOK'
  BY <1>1, <1>2, <1>3, <1>7 DEF PluginsTypeOK
<1>12. HistoryTruthful'
  BY <1>1, <1>2, <1>3, <1>4, <1>5, <1>8, <1>9, HistoryKept
<1>13. VersionsInOrder'
  BY <1>1, <1>3 DEF PluginsInv, VersionsInOrder
<1>14. RowsComplete'
  <2> SUFFICES ASSUME NEW i \in installs, i.tenant \notin torn',
                      ~\E d \in Call : Unmaking(call'[d]) /\ call'[d].tenant = i.tenant
               PROVE  i.migrations \subseteq schema[i.tenant]
    BY <1>1 DEF RowsComplete, Unmaking, Rolls
  <2>1. Unmaking(q)
    BY <1>2, <1>7 DEF Unmaking, Rolls
  <2>2. ASSUME NEW d \in Call, Unmaking(call[d]), call[d].tenant = i.tenant
        PROVE  FALSE
    BY <1>7, <1>8, <2>1, <2>2
  <2>3. QED
    BY <1>3, <2>2 DEF PluginsInv, RowsComplete
<1>15. OthersUntouched'
  BY <1>1, <1>2, <1>5 DEF PluginsInv, OthersUntouched, RowsOf
<1>16. \A s \in Tenant : schema'[s] \subseteq 1..shipped
  BY <1>1 DEF PluginsInv
<1>17. QED
  BY <1>1, <1>2, <1>7, <1>10, <1>11, <1>12, <1>13, <1>14, <1>15, <1>16, CallSteps DEF Owned

LEMMA RecordInstallInv ==
    ASSUME PluginsInv, Tears, NEW c \in Call, RecordInstall(c)
    PROVE  PluginsInv'
<1> DEFINE t == call[c].tenant
           n == CHOOSE m \in FreshIds(t) : TRUE
           row == [tenant |-> t, id |-> n, migrations |-> call[c].migrations]
<1>1. /\ call \in [Call -> Process] /\ call[c] \in Process /\ Shape(call[c]) /\ Owned(call[c])
      /\ call[c].pc = "insert" /\ PluginsTypeOK
      /\ t \in torn \/ Work(call[c])
      /\ FreshIds(t) # {} /\ installs' = installs \cup {row} /\ NextTenant(c)
      /\ UNCHANGED <<applied, schema, shipped, asked>>
  BY DEF PluginsInv, PluginsTypeOK, RecordInstall, CallAt
<1>2. call[c].op \in {"install", "installAll"} /\ call[c].pending = {} /\ t \in Tenant /\ t \in asked
  BY <1>1 DEF Shape, Process, Owned
<1>3. torn \subseteq torn' /\ torn' \subseteq Tenant
  BY TearsFine
<1>4. n \in FreshIds(t)
  BY <1>1
<1> HIDE DEF n
<1>5. n \in RowId /\ \A i \in installs : i.tenant = t => i.id # n
  BY <1>4 DEF FreshIds
<1>6. row \in InstallRow /\ row.tenant = t /\ row.id = n /\ row.migrations = call[c].migrations
  BY <1>2, <1>5, PendingFine DEF InstallRow
<1> HIDE DEF row
<1>7. PICK q \in Process : /\ call' = [call EXCEPT ![c] = q]
                           /\ Shape(q) /\ Work(q) /\ q.tenant = None /\ q.rest \subseteq asked
  BY <1>1, NextTenantFine
<1>8. call'[c] = q /\ \A d \in Call \ {c} : call'[d] = call[d]
  BY <1>1, <1>7
<1>9. call'[c].tenant \in torn' \/ Work(call[c])'
  BY <1>7, <1>8 DEF Shape, Work, Works, Rolls
<1>10. PluginsTypeOK'
  <2>1. \A i, j \in installs' : i.tenant = j.tenant /\ i.id = j.id => i = j
    BY <1>1, <1>5, <1>6 DEF PluginsTypeOK
  <2>2. installs' \subseteq InstallRow
    BY <1>1, <1>6 DEF PluginsTypeOK
  <2>3. QED
    BY <1>1, <1>3, <1>7, <2>1, <2>2 DEF PluginsTypeOK
<1>11. HistoryTruthful'
  BY <1>1, <1>3, <1>8, HistoryStays
<1>12. VersionsInOrder'
  BY <1>1, <1>3 DEF PluginsInv, VersionsInOrder
<1>13. RowsComplete'
  <2> SUFFICES ASSUME NEW i \in installs', i.tenant \notin torn',
                      ~\E d \in Call : Unmaking(call'[d]) /\ call'[d].tenant = i.tenant
               PROVE  i.migrations \subseteq schema[i.tenant]
    BY <1>1 DEF RowsComplete, Unmaking, Rolls
  <2>1. CASE i = row
    BY <1>1, <1>2, <1>3, <1>6, <2>1 DEF Work, Works
  <2>2. CASE i \in installs
    <3>1. ASSUME NEW d \in Call, Unmaking(call[d]), call[d].tenant = i.tenant
          PROVE  FALSE
      BY <1>1, <1>8, <3>1 DEF Unmaking
    <3>2. QED
      BY <1>3, <2>2, <3>1 DEF PluginsInv, RowsComplete
  <2>3. QED
    BY <1>1, <2>1, <2>2
<1>14. OthersUntouched'
  BY <1>1, <1>2, <1>6 DEF PluginsInv, OthersUntouched, RowsOf
<1>15. \A s \in Tenant : schema'[s] \subseteq 1..shipped
  BY <1>1 DEF PluginsInv
<1>16. Works(call[c]) /\ schema' = schema /\ \A i \in installs' \ installs : i.tenant = t
  BY <1>1, <1>6 DEF Works
<1>17. QED
  BY <1>1, <1>7, <1>9, <1>10, <1>11, <1>12, <1>13, <1>14, <1>15, <1>16, CallSteps

\* A rollback that deletes the row it found leaves the tenant without any.
LEMMA DeleteInstallInv ==
    ASSUME PluginsInv, Tears, NEW c \in Call, DeleteInstall(c)
    PROVE  PluginsInv'
<1> DEFINE t == call[c].tenant
<1>1. /\ call \in [Call -> Process] /\ call[c] \in Process /\ Shape(call[c]) /\ Owned(call[c])
      /\ call[c].pc = "delete" /\ PluginsTypeOK
      /\ t \in torn \/ Work(call[c])
      /\ installs' = installs \ {call[c].row} /\ CallReturns(c)
      /\ UNCHANGED <<applied, schema, shipped, asked>>
  BY DEF PluginsInv, PluginsTypeOK, DeleteInstall, CallAt
<1>2. torn \subseteq torn' /\ torn' \subseteq Tenant
  BY TearsFine
<1>3. PICK q \in Process : /\ call' = [call EXCEPT ![c] = q]
                           /\ Shape(q) /\ Work(q) /\ q.tenant = None /\ q.rest \subseteq asked
  BY <1>1, ReturnsFine
<1>4. call'[c] = q /\ \A d \in Call \ {c} : call'[d] = call[d]
  BY <1>1, <1>3
<1>5. call'[c].tenant \in torn' \/ Work(call[c])'
  BY <1>3, <1>4 DEF Shape, Work, Works, Rolls
<1>6. PluginsTypeOK'
  BY <1>1, <1>2, <1>3 DEF PluginsTypeOK
<1>7. HistoryTruthful'
  BY <1>1, <1>2, <1>4, HistoryStays
<1>8. VersionsInOrder'
  BY <1>1, <1>2 DEF PluginsInv, VersionsInOrder
<1>9. RowsComplete'
  <2> SUFFICES ASSUME NEW i \in installs', i.tenant \notin torn',
                      ~\E d \in Call : Unmaking(call'[d]) /\ call'[d].tenant = i.tenant
               PROVE  i.migrations \subseteq schema[i.tenant]
    BY <1>1 DEF RowsComplete, Unmaking, Rolls
  <2>1. ASSUME NEW d \in Call, Unmaking(call[d]), call[d].tenant = i.tenant
        PROVE  FALSE
    <3>1. d = c
      BY <1>4, <2>1
    <3>2. RowsOf(t) \subseteq {call[c].row}
      BY <1>1, <1>2, <2>1, <3>1 DEF Work, Unmaking
    <3>3. QED
      BY <1>1, <2>1, <3>1, <3>2 DEF RowsOf
  <2>2. QED
    BY <1>1, <1>2, <2>1 DEF PluginsInv, RowsComplete
<1>10. OthersUntouched'
  BY <1>1 DEF PluginsInv, OthersUntouched, RowsOf
<1>11. \A s \in Tenant : schema'[s] \subseteq 1..shipped
  BY <1>1 DEF PluginsInv
<1>12. QED
  BY <1>1, <1>3, <1>5, <1>6, <1>7, <1>8, <1>9, <1>10, <1>11, CallSteps

LEMMA ShipInv ==
    ASSUME PluginsInv, Tears, Ship
    PROVE  PluginsInv'
<1>1. /\ shipped' = shipped + 1 /\ shipped' \in 0..Latest /\ shipped \in 0..Latest
      /\ UNCHANGED <<installs, applied, schema, call, asked>>
  BY BoundAssumption DEF PluginsInv, PluginsTypeOK, Ship, tables
<1>2. torn \subseteq torn' /\ Crossed' \subseteq torn' /\ torn' \subseteq Tenant
  BY TearsFine
<1>3. PluginsTypeOK'
  BY <1>1, <1>2 DEF PluginsInv, PluginsTypeOK
<1>4. HistoryTruthful' /\ VersionsInOrder' /\ RowsComplete' /\ OthersUntouched'
  BY <1>1, <1>2 DEF PluginsInv, HistoryTruthful, VersionsInOrder, RowsComplete, OthersUntouched,
                    RowsOf, CallAt, Up, Down, Unmaking, Rolls
<1>5. 1..shipped \subseteq 1..shipped' /\ Fetched \subseteq Fetched'
  <2>1. 0..shipped \subseteq 0..shipped' /\ 1..shipped \subseteq 1..shipped'
    BY <1>1
  <2>2. QED
    BY <2>1 DEF Fetched
<1>6. ASSUME NEW d \in Call
      PROVE  (Shape(call[d]) /\ Owned(call[d]) /\ (call[d].tenant \in torn \/ Work(call[d])))'
  <2>1. Shape(call[d]) /\ Owned(call[d]) /\ (call[d].tenant \in torn \/ Work(call[d]))
    BY DEF PluginsInv
  <2>2. Shape(call[d])'
    BY <1>1, <1>5, <2>1 DEF Shape, Rolls
  <2>3. QED
    BY <1>1, <1>2, <2>1, <2>2 DEF Owned, Work, Works, Rolls, RowsOf
<1>7. QED
  BY <1>1, <1>2, <1>3, <1>4, <1>5, <1>6 DEF PluginsInv

LEMMA PluginsNextInv == PluginsInv /\ [PluginsNext]_pluginVars => PluginsInv'
<1> SUFFICES ASSUME PluginsInv, [PluginsNext]_pluginVars PROVE PluginsInv'
  OBVIOUS
<1>1. ASSUME Tears, Ship PROVE PluginsInv'
  BY <1>1, ShipInv
<1>2. ASSUME Tears, NEW c \in Call, Begins(c) \/ StepFails(c) \/ Abandon(c) PROVE PluginsInv'
  BY <1>2, BeginInv, StepFailsInv, AbandonInv
<1>3. ASSUME Tears, NEW c \in Call,
             (\E t \in Tenant : Visit(c, t)) \/ Finish(c) \/ ListInstalls(c) \/ CheckInstalled(c) \/ FetchMigrations(c)
      PROVE  PluginsInv'
  BY <1>3, VisitInv, FinishInv, ListInstallsInv, CheckInstalledInv, FetchMigrationsInv
<1>4. ASSUME Tears, NEW c \in Call,
             RecordInstall(c) \/ ReadApplied(c) \/ RunUp(c) \/ RecordApplied(c) \/ UpFails(c)
      PROVE  PluginsInv'
  BY <1>4, RecordInstallInv, ReadAppliedInv, RunUpInv, RecordAppliedInv, UpFailsInv
<1>5. ASSUME Tears, NEW c \in Call,
             RunDown(c) \/ RecordRolledBack(c) \/ SkipDown(c) \/ FindInstall(c) \/ DeleteInstall(c)
      PROVE  PluginsInv'
  BY <1>5, RunDownInv, RecordRolledBackInv, SkipDownInv, FindInstallInv, DeleteInstallInv
<1>6. CASE UNCHANGED pluginVars
  <2>1. UNCHANGED <<installs, applied, schema, shipped, call, asked, torn>>
    BY <1>6 DEF pluginVars, tables
  <2>2. PluginsTypeOK' /\ Crossed' = Crossed
    BY <2>1 DEF PluginsInv, PluginsTypeOK, Crossed, Rolling, Rollback, Busy, CallAt
  <2>3. HistoryTruthful' /\ VersionsInOrder' /\ RowsComplete' /\ OthersUntouched'
    BY <2>1 DEF PluginsInv, HistoryTruthful, VersionsInOrder, RowsComplete, OthersUntouched,
                RowsOf, CallAt, Up, Down, Unmaking, Rolls
  <2>4. ASSUME NEW d \in Call
        PROVE  (Shape(call[d]) /\ Owned(call[d]) /\ (call[d].tenant \in torn \/ Work(call[d])))'
    BY <2>1 DEF PluginsInv, Shape, Fetched, Owned, Work, Works, Rolls, RowsOf
  <2>5. QED
    BY <2>1, <2>2, <2>3, <2>4 DEF PluginsInv
<1>7. CASE PluginsNext
  <2>1. Tears
    BY <1>7 DEF PluginsNext, Tears
  <2>2. CASE Ship
    BY <1>1, <2>1, <2>2
  <2>3. ASSUME NEW c \in Call, Begins(c) \/ Step(c) \/ StepFails(c) \/ Abandon(c)
        PROVE  PluginsInv'
    BY <1>2, <1>3, <1>4, <1>5, <2>1, <2>3 DEF Step
  <2>4. QED
    BY <1>7, <2>2, <2>3 DEF PluginsNext
<1>8. QED
  BY <1>6, <1>7

----------------------------------------------------------------------------
\* However calls overlap, fail and are abandoned, schema, history, rows and what
\* each call has before it stay in the relation PluginsInv states.
THEOREM InvariantHolds == PluginsSpec => []PluginsInv
BY PluginsInitInv, PluginsNextInv, PTL DEF PluginsSpec

\* The migration history says what is in the schema, and the schema holds the
\* versions up to one of them, wherever no rollback was cut short or met another call.
THEOREM MigrationsHold == PluginsSpec => []MigrationsSound
<1>1. PluginsInv => MigrationsSound
  BY DEF PluginsInv, MigrationsSound
<1>2. QED
  BY <1>1, InvariantHolds, PTL

\* Only tenants that asked have anything of the plugin, and where an install is
\* listed and no rollback is at work its migrations have all run.
THEOREM InstallsHold == PluginsSpec => []InstallsSound
<1>1. PluginsInv => InstallsSound
  <2> SUFFICES ASSUME PluginsInv, NEW i \in installs, i.tenant \notin torn,
                      ~\E c \in Call : Rolling(c, i.tenant)
               PROVE  i.migrations \subseteq schema[i.tenant]
    BY DEF PluginsInv, InstallsSound, InstallsComplete
  <2>1. ASSUME NEW c \in Call, Unmaking(call[c]), call[c].tenant = i.tenant
        PROVE  FALSE
    BY <2>1 DEF Unmaking, Rolls, Rolling, Rollback, CallAt
  <2>2. QED
    BY <2>1 DEF PluginsInv, RowsComplete
<1>2. QED
  BY <1>1, InvariantHolds, PTL
=============================================================================
