------------------------- MODULE Registration_proofs -------------------------
(* Theorems of Registration, for every set of sagas, slugs and addresses. *)
EXTENDS Registration, TLAPS

\* Where a saga stands once the step has succeeded and nothing has failed yet.
AfterSchema == {"migrate", "profile", "plugins", "history", "install", "activate", "done"}
AfterMember == AfterSchema \cup {"schema"}
AfterUser == AfterMember \cup {"member"}
AfterBranch == AfterUser \cup {"user", "newUser"}
AfterTenant == AfterBranch \cup {"branch"}
Advancing == AfterTenant \cup {"new", "slug", "tenant"}

\* What the program counter says of a saga's locals, q: the steps to undo are those
\* behind it, and the account among them is its own.
Local(s, q) ==
    /\ q.pc \in Advancing =>
          /\ "tenant" \in q.undo <=> q.pc \in AfterTenant
          /\ "branch" \in q.undo <=> q.pc \in AfterBranch
          /\ "member" \in q.undo <=> q.pc \in AfterMember
          /\ "schema" \in q.undo <=> q.pc \in AfterSchema
          /\ "user" \in q.undo => q.pc \in AfterUser
    /\ q.undo # {} => "tenant" \in q.undo
    /\ q.pc = "failed" => q.undo = {}
    /\ q.pc # "new" => q.email \in Email
    /\ q.pc \in {"tenant"} \cup AfterTenant => q.slug \in Slug
    /\ q.pc \in AfterUser \/ "member" \in q.undo \/ "user" \in q.undo => q.account \in Account
    /\ "user" \in q.undo => q.account[2] = s

\* A step to undo has its row, and where nothing was skipped a row is a step to
\* undo, but for what the plugin recorded and the tenant it then keeps.
Rows(s, q) ==
    /\ "tenant" \in q.undo => tenants[s] # None
    /\ "branch" \in q.undo => s \in branches
    /\ "member" \in q.undo => <<s, q.account>> \in members
    /\ "schema" \in q.undo => schemas[q.slug] # None
    /\ tenants[s] # None => tenants[s].slug = q.slug /\ (tenants[s].status = "active" <=> q.pc = "done")
    /\ \A a \in Account : <<s, a>> \in members => a = q.account
    /\ s \in skipped => q.pc \in {"undo", "failed", "stopped"}
    /\ s \in history => q.pc \in {"install", "activate", "done", "undo", "failed", "stopped"}
    /\ q.pc = "install" \/ s \in installs => s \in history
    /\ s \notin skipped =>
          /\ "tenant" \notin q.undo /\ s \notin history => tenants[s] = None
          /\ "branch" \notin q.undo => s \notin branches
          /\ "member" \notin q.undo => \A a \in Account : <<s, a>> \notin members

\* What the schema of a tenant holds at each stage of its saga: nothing of others,
\* as long as every compensation went through.
Holds(s, q) ==
    /\ q.pc \in AfterSchema \ {"migrate", "profile"} => q.account \in schemas[q.slug].profiles
    /\ skipped = {} =>
          /\ tenants[s] # None /\ "schema" \notin q.undo => schemas[q.slug] = None
          /\ q.pc \in {"migrate", "profile"} => schemas[q.slug].profiles = {}
          /\ q.pc \in {"migrate", "profile", "plugins"} => ~schemas[q.slug].plugin
          /\ q.pc \in AfterSchema \ {"migrate", "profile"} => schemas[q.slug].profiles = {q.account}
          /\ q.pc \in {"activate", "done"} => (schemas[q.slug].plugin => s \in history)

\* Slugs are unique, memberships refer to accounts that exist, and a schema is
\* under a slug that is taken as long as every compensation went through.
Keys ==
    /\ \A s, t \in Saga : tenants[s] # None /\ tenants[t] # None /\ tenants[s].slug = tenants[t].slug => s = t
    /\ \A t \in Saga \cup {Elsewhere}, a \in Account : <<t, a>> \in members => a \in users
    /\ skipped = {} => \A slug \in Slug : schemas[slug] # None => Taken(slug)

Inv ==
    /\ TypeOK /\ Keys
    /\ \A s \in Saga : Local(s, proc[s]) /\ Rows(s, proc[s]) /\ Holds(s, proc[s])

LEMMA InitInv == Init => Inv
<1> SUFFICES ASSUME Init PROVE Inv
  OBVIOUS
<1>1. 1 \in 1..Len(Candidate)
  BY CandidateAssumption
<1>2. TypeOK
  BY <1>1 DEF Init, TypeOK, Process, Account
<1>3. Keys
  BY DEF Init, Keys
<1>4. ASSUME NEW s \in Saga
      PROVE  Local(s, proc[s]) /\ Rows(s, proc[s]) /\ Holds(s, proc[s])
  <2>1. proc[s].pc = "new" /\ proc[s].undo = {} /\ tenants[s] = None /\ s \notin branches \cup history \cup installs
    BY ElsewhereAssumption DEF Init
  <2>2. members = {} /\ skipped = {}
    BY DEF Init
  <2>3. Local(s, proc[s])
    BY <2>1 DEF Local, AfterTenant, AfterBranch, AfterUser, AfterMember, AfterSchema
  <2>4. Rows(s, proc[s])
    BY <2>1, <2>2 DEF Rows
  <2>5. Holds(s, proc[s])
    BY <2>1 DEF Holds, AfterSchema
  <2>6. QED
    BY <2>3, <2>4, <2>5
<1>5. QED
  BY <1>2, <1>3, <1>4 DEF Inv

----------------------------------------------------------------------------
\* What a step of another saga leaves of s.
Same(s) ==
    /\ proc'[s] = proc[s] /\ tenants'[s] = tenants[s]
    /\ s \in branches' <=> s \in branches
    /\ s \in history' <=> s \in history
    /\ s \in installs' <=> s \in installs
    /\ s \in skipped' <=> s \in skipped
    /\ \A a \in Account : <<s, a>> \in members' <=> <<s, a>> \in members
    /\ tenants[s] # None => schemas'[proc[s].slug] = schemas[proc[s].slug]

LEMMA OthersKeep ==
    ASSUME Inv, NEW s \in Saga, Same(s), skipped \subseteq skipped'
    PROVE  Local(s, proc[s])' /\ Rows(s, proc[s])' /\ Holds(s, proc[s])'
<1> DEFINE q == proc[s]
<1>1. Local(s, q) /\ Rows(s, q) /\ Holds(s, q) /\ proc'[s] = q /\ q \in Process
  BY DEF Inv, Same, TypeOK
<1>2. "schema" \in q.undo => tenants[s] # None
  BY <1>1 DEF Local, Rows
<1>3. q.pc \in AfterSchema => tenants[s] # None
  BY <1>1 DEF Local, Rows, Advancing, AfterTenant, AfterBranch, AfterUser, AfterMember, AfterSchema
<1>4. Local(s, proc[s])'
  BY <1>1 DEF Local
<1>5. "member" \in q.undo => q.account \in Account
  BY <1>1 DEF Local
<1>6. Rows(s, proc[s])'
  BY <1>1, <1>2, <1>5 DEF Rows, Same
<1>7. Holds(s, proc[s])'
  <2>1. tenants'[s] = tenants[s] /\ (s \in history' <=> s \in history) /\ (skipped' = {} => skipped = {})
    BY DEF Same
  <2>2. tenants[s] # None => schemas'[q.slug] = schemas[q.slug]
    BY DEF Same
  <2>3. q.pc \in AfterSchema => schemas'[q.slug] = schemas[q.slug]
    BY <1>3, <2>2
  <2>4. QED
    BY <1>1, <2>1, <2>2, <2>3 DEF Holds, AfterSchema
<1>8. QED
  BY <1>4, <1>6, <1>7

\* A step that moves one saga and changes no table.
LEMMA SagaMoves ==
    ASSUME Inv, NEW x \in Saga, NEW q \in Process, proc' = [proc EXCEPT ![x] = q],
           UNCHANGED <<tables, skipped>>, Local(x, q), Rows(x, q), Holds(x, q)
    PROVE  Inv'
<1>1. UNCHANGED <<tenants, branches, users, members, schemas, history, installs>> /\ proc \in [Saga -> Process]
  BY DEF tables, Inv, TypeOK
<1>2. TypeOK'
  BY <1>1 DEF Inv, TypeOK
<1>3. Keys'
  BY <1>1 DEF Inv, Keys, Taken
<1>4. ASSUME NEW s \in Saga
      PROVE  Local(s, proc[s])' /\ Rows(s, proc[s])' /\ Holds(s, proc[s])'
  <2>1. CASE s = x
    <3>1. proc'[s] = q
      BY <1>1, <2>1
    <3>2. QED
      BY <1>1, <2>1, <3>1 DEF Local, Rows, Holds
  <2>2. CASE s # x
    <3>1. Same(s)
      BY <1>1, <2>2 DEF Same
    <3>2. QED
      BY <3>1, OthersKeep
  <2>3. QED
    BY <2>1, <2>2
<1>5. QED
  BY <1>2, <1>3, <1>4 DEF Inv

LEMMA RegisterInv ==
    ASSUME Inv, NEW x \in Saga, NEW slug \in Slug \cup {None}, NEW email \in Email, Register(x, slug, email)
    PROVE  Inv'
<1> DEFINE q == [proc[x] EXCEPT !.pc = AfterRequest(slug), !.slug = slug, !.email = email]
<1>1. proc[x].pc = "new" /\ proc[x] \in Process /\ proc \in [Saga -> Process]
  BY DEF Inv, TypeOK, Register, At
<1>2. q \in Process /\ proc' = [proc EXCEPT ![x] = q]
  BY <1>1 DEF Process, Register, AfterRequest, Forward
<1>3. /\ q.pc = AfterRequest(slug) /\ q.slug = slug /\ q.email = email
      /\ q.undo = proc[x].undo /\ q.account = proc[x].account
  BY <1>1 DEF Process
<1>4. Local(x, proc[x]) /\ Rows(x, proc[x])
  BY DEF Inv
<1>5. proc[x].undo = {}
  BY <1>1, <1>4 DEF Local, Advancing, AfterTenant, AfterBranch, AfterUser, AfterMember, AfterSchema
<1>6. Local(x, q)
  BY <1>3, <1>5 DEF Local, Advancing, AfterTenant, AfterBranch, AfterUser, AfterMember, AfterSchema, AfterRequest
<1>7. x \notin skipped /\ x \notin history /\ tenants[x] = None /\ proc[x].pc # "install"
  BY <1>1, <1>4, <1>5 DEF Rows
<1>8. Rows(x, q)
  BY <1>1, <1>3, <1>4, <1>5, <1>7 DEF Rows, AfterRequest
<1>9. Holds(x, q)
  BY <1>3, <1>7 DEF Holds, AfterRequest, AfterSchema
<1>10. QED
  BY <1>2, <1>6, <1>8, <1>9, SagaMoves DEF Register

LEMMA ResolveSlugInv ==
    ASSUME Inv, NEW x \in Saga, ResolveSlug(x)
    PROVE  Inv'
<1> DEFINE slug == Candidate[proc[x].next]
<1>1. proc[x].pc = "slug" /\ proc[x] \in Process /\ proc \in [Saga -> Process]
  BY DEF Inv, TypeOK, ResolveSlug, At
<1>2. Local(x, proc[x]) /\ Rows(x, proc[x])
  BY DEF Inv
<1>3. proc[x].undo = {}
  BY <1>1, <1>2 DEF Local, Advancing, AfterTenant, AfterBranch, AfterUser, AfterMember, AfterSchema
<1>4. x \notin skipped /\ x \notin history /\ tenants[x] = None
  BY <1>1, <1>2, <1>3 DEF Rows
<1>5. CASE ~Taken(slug) /\ proc' = [proc EXCEPT ![x].pc = "tenant", ![x].slug = slug]
  <2> DEFINE q == [proc[x] EXCEPT !.pc = "tenant", !.slug = slug]
  <2>1. slug \in Slug
    BY <1>1, CandidateAssumption DEF Process
  <2>2. q \in Process /\ proc' = [proc EXCEPT ![x] = q]
    BY <1>1, <1>5, <2>1 DEF Process, Forward
  <2>3. /\ q.pc = "tenant" /\ q.slug = slug /\ q.email = proc[x].email
        /\ q.undo = proc[x].undo /\ q.account = proc[x].account
    BY <1>1 DEF Process
  <2>4. Local(x, q)
    BY <1>1, <1>2, <1>3, <2>1, <2>3 DEF Local, Advancing, AfterTenant, AfterBranch, AfterUser, AfterMember, AfterSchema
  <2>5. Rows(x, q) /\ Holds(x, q)
    BY <1>1, <1>2, <1>3, <1>4, <2>3 DEF Rows, Holds, AfterSchema
  <2>6. QED
    BY <2>2, <2>4, <2>5, SagaMoves DEF ResolveSlug
<1>6. CASE proc[x].next < Len(Candidate) /\ proc' = [proc EXCEPT ![x].next = @ + 1]
  <2> DEFINE q == [proc[x] EXCEPT !.next = @ + 1]
  <2>1. proc[x].next + 1 \in 1..Len(Candidate)
    BY <1>1, <1>6, CandidateAssumption DEF Process
  <2>2. q \in Process /\ proc' = [proc EXCEPT ![x] = q]
    BY <1>1, <1>6, <2>1 DEF Process
  <2>3. /\ q.pc = "slug" /\ q.slug = proc[x].slug /\ q.email = proc[x].email
        /\ q.undo = proc[x].undo /\ q.account = proc[x].account
    BY <1>1 DEF Process
  <2>4. Local(x, q) /\ Rows(x, q)
    BY <1>1, <1>2, <2>3 DEF Local, Rows
  <2>5. Holds(x, q)
    BY <1>4, <2>3 DEF Holds, AfterSchema
  <2>6. QED
    BY <2>2, <2>4, <2>5, SagaMoves DEF ResolveSlug
<1>7. QED
  BY <1>5, <1>6 DEF ResolveSlug
\* Failing or stopping keeps what the saga has made and where it wrote it down.
LEMMA LeavesInv ==
    ASSUME Inv, NEW x \in Saga, NEW pc \in {"undo", "stopped"}, proc[x].pc \notin Ended \cup {"new"},
           Goto(x, pc), UNCHANGED <<tables, skipped>>
    PROVE  Inv'
<1> DEFINE q == [proc[x] EXCEPT !.pc = pc]
<1>1. proc[x] \in Process /\ proc \in [Saga -> Process]
  BY DEF Inv, TypeOK
<1>2. q \in Process /\ proc' = [proc EXCEPT ![x] = q]
  BY <1>1 DEF Process, Goto, Ended
<1>3. /\ q.pc = pc /\ q.slug = proc[x].slug /\ q.email = proc[x].email
      /\ q.undo = proc[x].undo /\ q.account = proc[x].account
  BY <1>1 DEF Process
<1>4. Local(x, proc[x]) /\ Rows(x, proc[x]) /\ Holds(x, proc[x])
  BY DEF Inv
<1>5. Local(x, q)
  BY <1>3, <1>4 DEF Local, Advancing, AfterTenant, AfterBranch, AfterUser, AfterMember, AfterSchema, Ended
<1>6. Rows(x, q)
  BY <1>3, <1>4 DEF Rows, Ended
<1>7. Holds(x, q)
  BY <1>3, <1>4 DEF Holds, AfterSchema
<1>8. QED
  BY <1>2, <1>5, <1>6, <1>7, SagaMoves

LEMMA FailInv ==
    ASSUME Inv, NEW x \in Saga, Fail(x)
    PROVE  Inv'
<1>1. proc[x].pc \notin Ended \cup {"new"}
  BY DEF Fail, Forward, Ended
<1>2. QED
  BY <1>1, LeavesInv DEF Fail

LEMMA StopInv ==
    ASSUME Inv, NEW x \in Saga, Stop(x)
    PROVE  Inv'
BY LeavesInv DEF Stop

LEMMA CompensatedInv ==
    ASSUME Inv, NEW x \in Saga, Compensated(x)
    PROVE  Inv'
<1> DEFINE q == [proc[x] EXCEPT !.pc = "failed"]
<1>1. proc[x].pc = "undo" /\ proc[x].undo = {} /\ proc[x] \in Process /\ proc \in [Saga -> Process]
  BY DEF Inv, TypeOK, Compensated, At
<1>2. q \in Process /\ proc' = [proc EXCEPT ![x] = q]
  BY <1>1 DEF Process, Compensated, Goto, Ended
<1>3. /\ q.pc = "failed" /\ q.slug = proc[x].slug /\ q.email = proc[x].email
      /\ q.undo = {} /\ q.account = proc[x].account
  BY <1>1 DEF Process
<1>4. Local(x, proc[x]) /\ Rows(x, proc[x]) /\ Holds(x, proc[x])
  BY DEF Inv
<1>5. Local(x, q)
  BY <1>1, <1>3, <1>4 DEF Local, Advancing, AfterTenant, AfterBranch, AfterUser, AfterMember, AfterSchema
<1>6. Rows(x, q)
  BY <1>1, <1>3, <1>4 DEF Rows
<1>7. Holds(x, q)
  BY <1>1, <1>3, <1>4 DEF Holds, AfterSchema
<1>8. QED
  BY <1>2, <1>5, <1>6, <1>7, SagaMoves DEF Compensated

LEMMA ResolveUserInv ==
    ASSUME Inv, NEW x \in Saga, ResolveUser(x)
    PROVE  Inv'
<1>1. proc[x].pc = "user" /\ proc[x] \in Process /\ proc \in [Saga -> Process] /\ users \subseteq Account
  BY DEF Inv, TypeOK, ResolveUser, At
<1>2. Local(x, proc[x]) /\ Rows(x, proc[x]) /\ Holds(x, proc[x])
  BY DEF Inv
<1>3. /\ "tenant" \in proc[x].undo /\ "branch" \in proc[x].undo /\ "user" \notin proc[x].undo
      /\ "member" \notin proc[x].undo /\ "schema" \notin proc[x].undo
  BY <1>1, <1>2 DEF Local, Advancing, AfterTenant, AfterBranch, AfterUser, AfterMember, AfterSchema
<1>4. \A a \in Account : <<x, a>> \notin members
  BY <1>1, <1>2, <1>3 DEF Rows
<1>5. ASSUME NEW u \in AccountOf(proc[x].email), AfterFound(x, u)
      PROVE  Inv'
  <2> DEFINE q == [proc[x] EXCEPT !.pc = "member", !.account = u]
  <2>1. u \in Account
    BY <1>1 DEF AccountOf
  <2>2. q \in Process /\ proc' = [proc EXCEPT ![x] = q]
    BY <1>1, <1>5, <2>1 DEF Process, Forward, AfterFound
  <2>3. /\ q.pc = "member" /\ q.slug = proc[x].slug /\ q.email = proc[x].email
        /\ q.undo = proc[x].undo /\ q.account = u
    BY <1>1 DEF Process
  <2>4. Local(x, q)
    BY <1>1, <1>2, <1>3, <2>1, <2>3 DEF Local, Advancing, AfterTenant, AfterBranch, AfterUser, AfterMember, AfterSchema
  <2>5. Rows(x, q)
    BY <1>1, <1>2, <1>3, <1>4, <2>3 DEF Rows
  <2>6. Holds(x, q)
    BY <1>1, <1>2, <1>3, <2>3 DEF Holds, AfterSchema
  <2>7. QED
    BY <2>2, <2>4, <2>5, <2>6, SagaMoves DEF ResolveUser
<1>6. CASE Goto(x, "newUser")
  <2> DEFINE q == [proc[x] EXCEPT !.pc = "newUser"]
  <2>1. q \in Process /\ proc' = [proc EXCEPT ![x] = q]
    BY <1>1, <1>6 DEF Process, Forward, Goto
  <2>2. /\ q.pc = "newUser" /\ q.slug = proc[x].slug /\ q.email = proc[x].email
        /\ q.undo = proc[x].undo /\ q.account = proc[x].account
    BY <1>1 DEF Process
  <2>3. Local(x, q)
    BY <1>1, <1>2, <1>3, <2>2 DEF Local, Advancing, AfterTenant, AfterBranch, AfterUser, AfterMember, AfterSchema
  <2>4. Rows(x, q)
    BY <1>1, <1>2, <1>3, <2>2 DEF Rows
  <2>5. Holds(x, q)
    BY <1>1, <1>2, <1>3, <2>2 DEF Holds, AfterSchema
  <2>6. QED
    BY <2>1, <2>3, <2>4, <2>5, SagaMoves DEF ResolveUser
<1>7. QED
  BY <1>5, <1>6 DEF ResolveUser

LEMMA SkipPluginInv ==
    ASSUME Inv, NEW x \in Saga, SkipPlugin(x)
    PROVE  Inv'
<1> DEFINE q == [proc[x] EXCEPT !.pc = "activate"]
<1>1. proc[x].pc = "plugins" /\ proc[x] \in Process /\ proc \in [Saga -> Process]
  BY DEF Inv, TypeOK, SkipPlugin, At
<1>2. q \in Process /\ proc' = [proc EXCEPT ![x] = q]
  BY <1>1 DEF Process, SkipPlugin, Goto, Forward
<1>3. /\ q.pc = "activate" /\ q.slug = proc[x].slug /\ q.email = proc[x].email
      /\ q.undo = proc[x].undo /\ q.account = proc[x].account
  BY <1>1 DEF Process
<1>4. Local(x, proc[x]) /\ Rows(x, proc[x]) /\ Holds(x, proc[x])
  BY DEF Inv
<1>5. Local(x, q)
  BY <1>1, <1>3, <1>4 DEF Local, Advancing, AfterTenant, AfterBranch, AfterUser, AfterMember, AfterSchema
<1>6. Rows(x, q)
  BY <1>1, <1>3, <1>4 DEF Rows
<1>7. Holds(x, q)
  BY <1>1, <1>3, <1>4 DEF Holds, AfterSchema
<1>8. QED
  BY <1>2, <1>5, <1>6, <1>7, SagaMoves DEF SkipPlugin
----------------------------------------------------------------------------
\* A step of one saga that changes tables, and nothing of the others.
LEMMA SagaChanges ==
    ASSUME Inv, NEW x \in Saga, TypeOK', Keys', skipped \subseteq skipped',
           \A s \in Saga \ {x} : Same(s),
           Local(x, proc[x])', Rows(x, proc[x])', Holds(x, proc[x])'
    PROVE  Inv'
<1>1. ASSUME NEW s \in Saga
      PROVE  Local(s, proc[s])' /\ Rows(s, proc[s])' /\ Holds(s, proc[s])'
  <2>1. CASE s = x
    BY <2>1
  <2>2. CASE s # x
    BY <2>2, OthersKeep
  <2>3. QED
    BY <2>1, <2>2
<1>2. QED
  BY <1>1 DEF Inv

\* Two rows are under two slugs.
LEMMA OwnSlug ==
    ASSUME Inv, NEW x \in Saga, NEW s \in Saga, s # x, tenants[x] # None, tenants[s] # None
    PROVE  proc[s].slug # proc[x].slug /\ proc[x].slug \in Slug
<1>1. /\ tenants[x].slug = proc[x].slug /\ tenants[s].slug = proc[s].slug
  BY DEF Inv, Rows
<1>2. tenants[x] \in TenantRow
  BY DEF Inv, TypeOK
<1>3. tenants[x].slug # tenants[s].slug
  BY DEF Inv, Keys
<1>4. QED
  BY <1>1, <1>2, <1>3 DEF TenantRow

LEMMA CreateTenantInv ==
    ASSUME Inv, NEW x \in Saga, CreateTenant(x)
    PROVE  Inv'
<1> DEFINE slug == proc[x].slug
           row == [slug |-> slug, status |-> "provisioning"]
<1>1. /\ proc[x].pc = "tenant" /\ proc[x] \in Process /\ proc \in [Saga -> Process]
      /\ ~Taken(slug) /\ tenants' = [tenants EXCEPT ![x] = row]
      /\ proc' = [proc EXCEPT ![x].pc = "branch", ![x].undo = @ \cup {"tenant"}]
      /\ UNCHANGED <<branches, users, members, schemas, history, installs, skipped>>
  BY DEF Inv, TypeOK, CreateTenant, At, Done
<1>2. Local(x, proc[x]) /\ Rows(x, proc[x]) /\ TypeOK /\ Keys
  BY DEF Inv
<1>3. slug \in Slug /\ proc[x].undo = {}
  BY <1>1, <1>2 DEF Local, Advancing, AfterTenant, AfterBranch, AfterUser, AfterMember, AfterSchema
<1>4. tenants[x] = None /\ x \notin skipped /\ x \notin history
  BY <1>1, <1>2, <1>3 DEF Rows
<1>5. row \in TenantRow /\ row # None /\ row.slug = slug /\ row.status = "provisioning"
  BY <1>3, AbsentAssumption DEF TenantRow
<1>6. /\ proc'[x].pc = "branch" /\ proc'[x].slug = slug /\ proc'[x].email = proc[x].email
      /\ proc'[x].undo = {"tenant"} /\ proc'[x].account = proc[x].account /\ proc'[x] \in Process
  BY <1>1, <1>3 DEF Process, Forward, Undoable, Rank
<1>7. tenants'[x] = row /\ \A s \in Saga \ {x} : tenants'[s] = tenants[s] /\ proc'[s] = proc[s]
  BY <1>1, <1>2 DEF TypeOK
<1>8. TypeOK'
  BY <1>1, <1>2, <1>5, <1>6 DEF TypeOK
<1>9. Keys'
  <2>1. ASSUME NEW s \in Saga, NEW t \in Saga, tenants'[s] # None, tenants'[t] # None,
               tenants'[s].slug = tenants'[t].slug
        PROVE  s = t
    <3>1. \A r \in Saga \ {x} : tenants[r] # None => tenants[r].slug # slug
      BY <1>1 DEF Taken
    <3>2. QED
      BY <1>2, <1>5, <1>7, <2>1, <3>1 DEF Keys
  <2>2. ASSUME NEW sl \in Slug, Taken(sl)
        PROVE  Taken(sl)'
    BY <1>4, <1>7, <2>2 DEF Taken
  <2>3. QED
    BY <1>1, <1>2, <2>1, <2>2 DEF Keys
<1>10. \A s \in Saga \ {x} : Same(s)
  BY <1>1, <1>7 DEF Same
<1>11. Local(x, proc[x])'
  BY <1>1, <1>2, <1>3, <1>6 DEF Local, Advancing, AfterTenant, AfterBranch, AfterUser, AfterMember, AfterSchema
<1>12. Rows(x, proc[x])'
  BY <1>1, <1>2, <1>3, <1>4, <1>5, <1>6, <1>7 DEF Rows
<1>13. Holds(x, proc[x])'
  BY <1>1, <1>2, <1>3, <1>6 DEF Holds, AfterSchema, Keys
<1>14. QED
  BY <1>1, <1>8, <1>9, <1>10, <1>11, <1>12, <1>13, SagaChanges

LEMMA CreateBranchInv ==
    ASSUME Inv, NEW x \in Saga, CreateBranch(x)
    PROVE  Inv'
<1>1. /\ proc[x].pc = "branch" /\ proc[x] \in Process /\ proc \in [Saga -> Process]
      /\ branches' = branches \cup {x}
      /\ proc' = [proc EXCEPT ![x].pc = "user", ![x].undo = @ \cup {"branch"}]
      /\ UNCHANGED <<tenants, users, members, schemas, history, installs, skipped>>
  BY DEF Inv, TypeOK, CreateBranch, At, Done
<1>2. Local(x, proc[x]) /\ Rows(x, proc[x]) /\ Holds(x, proc[x]) /\ TypeOK /\ Keys
  BY DEF Inv
<1>3. "tenant" \in proc[x].undo /\ proc[x].undo \cap {"branch", "user", "member", "schema"} = {}
  BY <1>1, <1>2 DEF Local, Advancing, AfterTenant, AfterBranch, AfterUser, AfterMember, AfterSchema
<1>4. /\ proc'[x].pc = "user" /\ proc'[x].slug = proc[x].slug /\ proc'[x].email = proc[x].email
      /\ proc'[x].undo = proc[x].undo \cup {"branch"} /\ proc'[x].account = proc[x].account /\ proc'[x] \in Process
  BY <1>1 DEF Process, Forward, Undoable, Rank
<1>5. \A s \in Saga \ {x} : proc'[s] = proc[s]
  BY <1>1
<1>6. TypeOK'
  BY <1>1, <1>2, <1>4 DEF TypeOK
<1>7. Keys'
  BY <1>1, <1>2 DEF Keys, Taken
<1>8. \A s \in Saga \ {x} : Same(s)
  BY <1>1, <1>5 DEF Same
<1>9. Local(x, proc[x])'
  BY <1>1, <1>2, <1>3, <1>4 DEF Local, Advancing, AfterTenant, AfterBranch, AfterUser, AfterMember, AfterSchema
<1>10. Rows(x, proc[x])'
  BY <1>1, <1>2, <1>3, <1>4 DEF Rows
<1>11. Holds(x, proc[x])'
  BY <1>1, <1>2, <1>3, <1>4 DEF Holds, AfterSchema
<1>12. QED
  BY <1>1, <1>6, <1>7, <1>8, <1>9, <1>10, <1>11, SagaChanges
LEMMA CreateUserInv ==
    ASSUME Inv, NEW x \in Saga, CreateUser(x)
    PROVE  Inv'
<1> DEFINE u == <<proc[x].email, x>>
<1>1. /\ proc[x].pc = "newUser" /\ proc[x] \in Process /\ proc \in [Saga -> Process]
      /\ users' = users \cup {u}
      /\ proc' = [proc EXCEPT ![x].pc = "member", ![x].account = u, ![x].undo = @ \cup {"user"}]
      /\ UNCHANGED <<tenants, branches, members, schemas, history, installs, skipped>>
  BY DEF Inv, TypeOK, CreateUser, At
<1>2. Local(x, proc[x]) /\ Rows(x, proc[x]) /\ Holds(x, proc[x]) /\ TypeOK /\ Keys
  BY DEF Inv
<1>3. /\ {"tenant", "branch"} \subseteq proc[x].undo
      /\ proc[x].undo \cap {"user", "member", "schema"} = {} /\ proc[x].email \in Email
  BY <1>1, <1>2 DEF Local, Advancing, AfterTenant, AfterBranch, AfterUser, AfterMember, AfterSchema
<1>4. u \in Account /\ u[2] = x
  BY <1>3 DEF Account
<1>5. /\ proc'[x].pc = "member" /\ proc'[x].slug = proc[x].slug /\ proc'[x].email = proc[x].email
      /\ proc'[x].undo = proc[x].undo \cup {"user"} /\ proc'[x].account = u /\ proc'[x] \in Process
  BY <1>1, <1>4 DEF Process, Forward, Undoable, Rank
<1>6. \A s \in Saga \ {x} : proc'[s] = proc[s]
  BY <1>1
<1>7. TypeOK'
  BY <1>1, <1>2, <1>4, <1>5 DEF TypeOK
<1>8. Keys'
  BY <1>1, <1>2 DEF Keys, Taken
<1>9. \A s \in Saga \ {x} : Same(s)
  BY <1>1, <1>6 DEF Same
<1>10. Local(x, proc[x])'
  BY <1>1, <1>2, <1>3, <1>4, <1>5 DEF Local, Advancing, AfterTenant, AfterBranch, AfterUser, AfterMember, AfterSchema
<1>11. \A a \in Account : <<x, a>> \notin members
  BY <1>1, <1>2, <1>3 DEF Rows
<1>12. Rows(x, proc[x])'
  BY <1>1, <1>2, <1>3, <1>5, <1>11 DEF Rows
<1>13. Holds(x, proc[x])'
  BY <1>1, <1>2, <1>3, <1>5 DEF Holds, AfterSchema
<1>14. QED
  BY <1>1, <1>7, <1>8, <1>9, <1>10, <1>12, <1>13, SagaChanges

LEMMA CreateMembershipInv ==
    ASSUME Inv, NEW x \in Saga, CreateMembership(x)
    PROVE  Inv'
<1> DEFINE u == proc[x].account
<1>1. /\ proc[x].pc = "member" /\ proc[x] \in Process /\ proc \in [Saga -> Process]
      /\ u \in users /\ members' = members \cup {<<x, u>>}
      /\ proc' = [proc EXCEPT ![x].pc = "schema", ![x].undo = @ \cup {"member"}]
      /\ UNCHANGED <<tenants, branches, users, schemas, history, installs, skipped>>
  BY DEF Inv, TypeOK, CreateMembership, At, Done
<1>2. Local(x, proc[x]) /\ Rows(x, proc[x]) /\ Holds(x, proc[x]) /\ TypeOK /\ Keys
  BY DEF Inv
<1>3. /\ {"tenant", "branch"} \subseteq proc[x].undo
      /\ proc[x].undo \cap {"member", "schema"} = {} /\ u \in Account
  BY <1>1, <1>2 DEF Local, Advancing, AfterTenant, AfterBranch, AfterUser, AfterMember, AfterSchema
<1>4. /\ proc'[x].pc = "schema" /\ proc'[x].slug = proc[x].slug /\ proc'[x].email = proc[x].email
      /\ proc'[x].undo = proc[x].undo \cup {"member"} /\ proc'[x].account = u /\ proc'[x] \in Process
  BY <1>1 DEF Process, Forward, Undoable, Rank
<1>5. \A s \in Saga \ {x} : proc'[s] = proc[s]
  BY <1>1
<1>6. TypeOK'
  BY <1>1, <1>2, <1>3, <1>4 DEF TypeOK
<1>7. Keys'
  BY <1>1, <1>2 DEF Keys, Taken
<1>8. \A s \in Saga \ {x} : Same(s)
  BY <1>1, <1>5 DEF Same
<1>9. Local(x, proc[x])'
  BY <1>1, <1>2, <1>3, <1>4 DEF Local, Advancing, AfterTenant, AfterBranch, AfterUser, AfterMember, AfterSchema
<1>10. Rows(x, proc[x])'
  BY <1>1, <1>2, <1>3, <1>4 DEF Rows
<1>11. Holds(x, proc[x])'
  BY <1>1, <1>2, <1>3, <1>4 DEF Holds, AfterSchema
<1>12. QED
  BY <1>1, <1>6, <1>7, <1>8, <1>9, <1>10, <1>11, SagaChanges

----------------------------------------------------------------------------
\* A saga that has its row and changes its schema alone touches nobody else's.
LEMMA OthersSchemas ==
    ASSUME Inv, NEW x \in Saga, tenants[x] # None,
           \A s \in Saga \ {x} : proc'[s] = proc[s],
           \A slug \in Slug \ {proc[x].slug} : schemas'[slug] = schemas[slug],
           UNCHANGED <<tenants, branches, users, members, installs, skipped>>,
           \A s \in Saga \ {x} : s \in history' <=> s \in history
    PROVE  \A s \in Saga \ {x} : Same(s)
<1> SUFFICES ASSUME NEW s \in Saga \ {x} PROVE Same(s)
  OBVIOUS
<1>1. ASSUME tenants[s] # None
      PROVE  schemas'[proc[s].slug] = schemas[proc[s].slug]
  <2>1. proc[s].slug # proc[x].slug /\ proc[s].slug \in Slug
    BY <1>1, OwnSlug
  <2>2. QED
    BY <2>1
<1>2. QED
  BY <1>1 DEF Same

LEMMA CreateSchemaInv ==
    ASSUME Inv, NEW x \in Saga, CreateSchema(x)
    PROVE  Inv'
<1> DEFINE slug == proc[x].slug
<1>1. /\ proc[x].pc = "schema" /\ proc[x] \in Process /\ proc \in [Saga -> Process]
      /\ schemas' = [schemas EXCEPT ![slug] = IF @ = None THEN EmptySchema ELSE @]
      /\ proc' = [proc EXCEPT ![x].pc = "migrate", ![x].undo = @ \cup {"schema"}]
      /\ UNCHANGED <<tenants, branches, users, members, history, installs, skipped>>
  BY DEF Inv, TypeOK, CreateSchema, SchemaCreated, At, Done
<1>2. Local(x, proc[x]) /\ Rows(x, proc[x]) /\ Holds(x, proc[x]) /\ TypeOK /\ Keys
  BY DEF Inv
<1>3. /\ {"tenant", "branch", "member"} \subseteq proc[x].undo
      /\ "schema" \notin proc[x].undo /\ slug \in Slug
  BY <1>1, <1>2 DEF Local, Advancing, AfterTenant, AfterBranch, AfterUser, AfterMember, AfterSchema
<1>4. tenants[x] # None /\ tenants[x].slug = slug
  BY <1>2, <1>3 DEF Rows
<1>5. EmptySchema \in Schema /\ EmptySchema # None /\ EmptySchema.profiles = {} /\ ~EmptySchema.plugin
  <2>1. EmptySchema \in Schema
    BY DEF EmptySchema, Schema
  <2>2. EmptySchema.profiles = {} /\ ~EmptySchema.plugin
    BY DEF EmptySchema
  <2>3. QED
    BY <2>1, <2>2, AbsentAssumption
<1>6. /\ schemas'[slug] \in Schema /\ schemas'[slug] # None
      /\ schemas[slug] = None => schemas'[slug] = EmptySchema
      /\ \A other \in Slug \ {slug} : schemas'[other] = schemas[other]
  BY <1>1, <1>2, <1>3, <1>5, AbsentAssumption DEF TypeOK
<1>7. /\ proc'[x].pc = "migrate" /\ proc'[x].slug = proc[x].slug /\ proc'[x].email = proc[x].email
      /\ proc'[x].undo = proc[x].undo \cup {"schema"} /\ proc'[x].account = proc[x].account /\ proc'[x] \in Process
  BY <1>1 DEF Process, Forward, Undoable, Rank
<1>8. \A s \in Saga \ {x} : proc'[s] = proc[s]
  BY <1>1
<1>9. TypeOK'
  BY <1>1, <1>2, <1>6, <1>7 DEF TypeOK
<1>10. Keys'
  <2>1. Taken(slug)
    BY <1>4 DEF Taken
  <2>2. QED
    BY <1>1, <1>2, <1>6, <2>1 DEF Keys, Taken
<1>11. \A s \in Saga \ {x} : Same(s)
  BY <1>1, <1>4, <1>6, <1>8, OthersSchemas
<1>12. Local(x, proc[x])'
  BY <1>1, <1>2, <1>3, <1>7 DEF Local, Advancing, AfterTenant, AfterBranch, AfterUser, AfterMember, AfterSchema
<1>13. Rows(x, proc[x])'
  BY <1>1, <1>2, <1>3, <1>6, <1>7 DEF Rows
<1>14. Holds(x, proc[x])'
  BY <1>1, <1>2, <1>3, <1>4, <1>5, <1>6, <1>7 DEF Holds, AfterSchema
<1>15. QED
  BY <1>1, <1>9, <1>10, <1>11, <1>12, <1>13, <1>14, SagaChanges
LEMMA MigrateTenantSchemaInv ==
    ASSUME Inv, NEW x \in Saga, MigrateTenantSchema(x)
    PROVE  Inv'
<1> DEFINE slug == proc[x].slug
<1>1. /\ proc[x].pc = "migrate" /\ proc[x] \in Process /\ proc \in [Saga -> Process]
      /\ schemas[slug] # None
      /\ schemas' = [schemas EXCEPT ![slug].table = TRUE]
      /\ proc' = [proc EXCEPT ![x].pc = "profile"]
      /\ UNCHANGED <<tenants, branches, users, members, history, installs, skipped>>
  BY DEF Inv, TypeOK, MigrateTenantSchema, At, Goto
<1>2. Local(x, proc[x]) /\ Rows(x, proc[x]) /\ Holds(x, proc[x]) /\ TypeOK /\ Keys
  BY DEF Inv
<1>3. {"tenant", "branch", "member", "schema"} \subseteq proc[x].undo /\ slug \in Slug /\ proc[x].account \in Account
  BY <1>1, <1>2 DEF Local, Advancing, AfterTenant, AfterBranch, AfterUser, AfterMember, AfterSchema
<1>4. tenants[x] # None /\ tenants[x].slug = slug
  BY <1>2, <1>3 DEF Rows
<1>5. schemas[slug] \in Schema
  BY <1>1, <1>2, <1>3 DEF TypeOK
<1>6. /\ schemas'[slug] = [schemas[slug] EXCEPT !.table = TRUE]
      /\ \A other \in Slug \ {slug} : schemas'[other] = schemas[other]
  BY <1>1, <1>2, <1>3 DEF TypeOK
<1>7. schemas'[slug] \in Schema /\ schemas'[slug] # None
  BY <1>3, <1>5, <1>6, AbsentAssumption DEF Schema
<1>8. schemas'[slug].profiles = schemas[slug].profiles /\ (schemas'[slug].plugin <=> schemas[slug].plugin)
  BY <1>5, <1>6 DEF Schema
<1>9. /\ proc'[x].pc = "profile" /\ proc'[x].slug = slug /\ proc'[x].email = proc[x].email
      /\ proc'[x].undo = proc[x].undo /\ proc'[x].account = proc[x].account /\ proc'[x] \in Process
  BY <1>1 DEF Process, Forward
<1>10. \A s \in Saga \ {x} : proc'[s] = proc[s]
  BY <1>1
<1>11. TypeOK'
  <2>1. schemas' \in [Slug -> Schema \cup {None}]
    BY <1>1, <1>2, <1>6, <1>7 DEF TypeOK
  <2>2. QED
    BY <1>1, <1>2, <1>9, <2>1 DEF TypeOK
<1>12. Keys'
  <2>1. Taken(slug)
    BY <1>4 DEF Taken
  <2>2. QED
    BY <1>1, <1>2, <1>6, <2>1 DEF Keys, Taken
<1>13. \A s \in Saga \ {x} : Same(s)
  BY <1>1, <1>4, <1>6, <1>10, OthersSchemas
<1>14. Local(x, proc[x])'
  BY <1>1, <1>2, <1>3, <1>9 DEF Local, Advancing, AfterTenant, AfterBranch, AfterUser, AfterMember, AfterSchema
<1>15. Rows(x, proc[x])'
  BY <1>1, <1>2, <1>3, <1>7, <1>9 DEF Rows
<1>16. Holds(x, proc[x])'
  BY <1>1, <1>2, <1>3, <1>4, <1>8, <1>9 DEF Holds, AfterSchema
<1>17. QED
  BY <1>1, <1>11, <1>12, <1>13, <1>14, <1>15, <1>16, SagaChanges

LEMMA CreateOwnerProfileInv ==
    ASSUME Inv, NEW x \in Saga, CreateOwnerProfile(x)
    PROVE  Inv'
<1> DEFINE slug == proc[x].slug
<1>1. /\ proc[x].pc = "profile" /\ proc[x] \in Process /\ proc \in [Saga -> Process]
      /\ schemas[slug] # None
      /\ schemas' = [schemas EXCEPT ![slug].profiles = @ \cup {proc[x].account}]
      /\ proc' = [proc EXCEPT ![x].pc = "plugins"]
      /\ UNCHANGED <<tenants, branches, users, members, history, installs, skipped>>
  BY DEF Inv, TypeOK, CreateOwnerProfile, At, Goto
<1>2. Local(x, proc[x]) /\ Rows(x, proc[x]) /\ Holds(x, proc[x]) /\ TypeOK /\ Keys
  BY DEF Inv
<1>3. {"tenant", "branch", "member", "schema"} \subseteq proc[x].undo /\ slug \in Slug /\ proc[x].account \in Account
  BY <1>1, <1>2 DEF Local, Advancing, AfterTenant, AfterBranch, AfterUser, AfterMember, AfterSchema
<1>4. tenants[x] # None /\ tenants[x].slug = slug
  BY <1>2, <1>3 DEF Rows
<1>5. schemas[slug] \in Schema
  BY <1>1, <1>2, <1>3 DEF TypeOK
<1>6. /\ schemas'[slug] = [schemas[slug] EXCEPT !.profiles = @ \cup {proc[x].account}]
      /\ \A other \in Slug \ {slug} : schemas'[other] = schemas[other]
  BY <1>1, <1>2, <1>3 DEF TypeOK
<1>7. schemas'[slug] \in Schema /\ schemas'[slug] # None
  BY <1>3, <1>5, <1>6, AbsentAssumption DEF Schema
<1>8. schemas'[slug].profiles = schemas[slug].profiles \cup {proc[x].account} /\ (schemas'[slug].plugin <=> schemas[slug].plugin)
  BY <1>5, <1>6 DEF Schema
<1>9. /\ proc'[x].pc = "plugins" /\ proc'[x].slug = slug /\ proc'[x].email = proc[x].email
      /\ proc'[x].undo = proc[x].undo /\ proc'[x].account = proc[x].account /\ proc'[x] \in Process
  BY <1>1 DEF Process, Forward
<1>10. \A s \in Saga \ {x} : proc'[s] = proc[s]
  BY <1>1
<1>11. TypeOK'
  <2>1. schemas' \in [Slug -> Schema \cup {None}]
    BY <1>1, <1>2, <1>6, <1>7 DEF TypeOK
  <2>2. QED
    BY <1>1, <1>2, <1>9, <2>1 DEF TypeOK
<1>12. Keys'
  <2>1. Taken(slug)
    BY <1>4 DEF Taken
  <2>2. QED
    BY <1>1, <1>2, <1>6, <2>1 DEF Keys, Taken
<1>13. \A s \in Saga \ {x} : Same(s)
  BY <1>1, <1>4, <1>6, <1>10, OthersSchemas
<1>14. Local(x, proc[x])'
  BY <1>1, <1>2, <1>3, <1>9 DEF Local, Advancing, AfterTenant, AfterBranch, AfterUser, AfterMember, AfterSchema
<1>15. Rows(x, proc[x])'
  BY <1>1, <1>2, <1>3, <1>7, <1>9 DEF Rows
<1>16. Holds(x, proc[x])'
  BY <1>1, <1>2, <1>3, <1>4, <1>8, <1>9 DEF Holds, AfterSchema
<1>17. QED
  BY <1>1, <1>11, <1>12, <1>13, <1>14, <1>15, <1>16, SagaChanges

LEMMA MigratePluginInv ==
    ASSUME Inv, NEW x \in Saga, MigratePlugin(x)
    PROVE  Inv'
<1> DEFINE slug == proc[x].slug
<1>1. /\ proc[x].pc = "plugins" /\ proc[x] \in Process /\ proc \in [Saga -> Process]
      /\ schemas[slug] # None
      /\ schemas' = [schemas EXCEPT ![slug].plugin = TRUE]
      /\ proc' = [proc EXCEPT ![x].pc = "history"]
      /\ UNCHANGED <<tenants, branches, users, members, history, installs, skipped>>
  BY DEF Inv, TypeOK, MigratePlugin, At, Goto
<1>2. Local(x, proc[x]) /\ Rows(x, proc[x]) /\ Holds(x, proc[x]) /\ TypeOK /\ Keys
  BY DEF Inv
<1>3. {"tenant", "branch", "member", "schema"} \subseteq proc[x].undo /\ slug \in Slug /\ proc[x].account \in Account
  BY <1>1, <1>2 DEF Local, Advancing, AfterTenant, AfterBranch, AfterUser, AfterMember, AfterSchema
<1>4. tenants[x] # None /\ tenants[x].slug = slug
  BY <1>2, <1>3 DEF Rows
<1>5. schemas[slug] \in Schema
  BY <1>1, <1>2, <1>3 DEF TypeOK
<1>6. /\ schemas'[slug] = [schemas[slug] EXCEPT !.plugin = TRUE]
      /\ \A other \in Slug \ {slug} : schemas'[other] = schemas[other]
  BY <1>1, <1>2, <1>3 DEF TypeOK
<1>7. schemas'[slug] \in Schema /\ schemas'[slug] # None
  BY <1>3, <1>5, <1>6, AbsentAssumption DEF Schema
<1>8. schemas'[slug].profiles = schemas[slug].profiles
  BY <1>5, <1>6 DEF Schema
<1>9. /\ proc'[x].pc = "history" /\ proc'[x].slug = slug /\ proc'[x].email = proc[x].email
      /\ proc'[x].undo = proc[x].undo /\ proc'[x].account = proc[x].account /\ proc'[x] \in Process
  BY <1>1 DEF Process, Forward
<1>10. \A s \in Saga \ {x} : proc'[s] = proc[s]
  BY <1>1
<1>11. TypeOK'
  <2>1. schemas' \in [Slug -> Schema \cup {None}]
    BY <1>1, <1>2, <1>6, <1>7 DEF TypeOK
  <2>2. QED
    BY <1>1, <1>2, <1>9, <2>1 DEF TypeOK
<1>12. Keys'
  <2>1. Taken(slug)
    BY <1>4 DEF Taken
  <2>2. QED
    BY <1>1, <1>2, <1>6, <2>1 DEF Keys, Taken
<1>13. \A s \in Saga \ {x} : Same(s)
  BY <1>1, <1>4, <1>6, <1>10, OthersSchemas
<1>14. Local(x, proc[x])'
  BY <1>1, <1>2, <1>3, <1>9 DEF Local, Advancing, AfterTenant, AfterBranch, AfterUser, AfterMember, AfterSchema
<1>15. Rows(x, proc[x])'
  BY <1>1, <1>2, <1>3, <1>7, <1>9 DEF Rows
<1>16. Holds(x, proc[x])'
  BY <1>1, <1>2, <1>3, <1>4, <1>8, <1>9 DEF Holds, AfterSchema
<1>17. QED
  BY <1>1, <1>11, <1>12, <1>13, <1>14, <1>15, <1>16, SagaChanges

LEMMA RecordMigrationInv ==
    ASSUME Inv, NEW x \in Saga, RecordMigration(x)
    PROVE  Inv'
<1>1. /\ proc[x].pc = "history" /\ proc[x] \in Process /\ proc \in [Saga -> Process]
      /\ history' = history \cup {x}
      /\ proc' = [proc EXCEPT ![x].pc = "install"]
      /\ UNCHANGED <<tenants, branches, users, members, schemas, installs, skipped>>
  BY DEF Inv, TypeOK, RecordMigration, At, Goto
<1>2. Local(x, proc[x]) /\ Rows(x, proc[x]) /\ Holds(x, proc[x]) /\ TypeOK /\ Keys
  BY DEF Inv
<1>3. {"tenant", "branch", "member", "schema"} \subseteq proc[x].undo /\ proc[x].account \in Account
  BY <1>1, <1>2 DEF Local, Advancing, AfterTenant, AfterBranch, AfterUser, AfterMember, AfterSchema
<1>4. /\ proc'[x].pc = "install" /\ proc'[x].slug = proc[x].slug /\ proc'[x].email = proc[x].email
      /\ proc'[x].undo = proc[x].undo /\ proc'[x].account = proc[x].account /\ proc'[x] \in Process
  BY <1>1 DEF Process, Forward, Ended
<1>5. \A s \in Saga \ {x} : proc'[s] = proc[s]
  BY <1>1
<1>6. TypeOK'
  BY <1>1, <1>2, <1>4 DEF TypeOK
<1>7. Keys'
  BY <1>1, <1>2 DEF Keys, Taken
<1>8. \A s \in Saga \ {x} : Same(s)
  BY <1>1, <1>5 DEF Same
<1>9. Local(x, proc[x])'
  BY <1>1, <1>2, <1>3, <1>4 DEF Local, Advancing, AfterTenant, AfterBranch, AfterUser, AfterMember, AfterSchema
<1>10. Rows(x, proc[x])'
  BY <1>1, <1>2, <1>3, <1>4 DEF Rows
<1>11. Holds(x, proc[x])'
  BY <1>1, <1>2, <1>3, <1>4 DEF Holds, AfterSchema
<1>12. QED
  BY <1>1, <1>6, <1>7, <1>8, <1>9, <1>10, <1>11, SagaChanges

LEMMA RecordInstallInv ==
    ASSUME Inv, NEW x \in Saga, RecordInstall(x)
    PROVE  Inv'
<1>1. /\ proc[x].pc = "install" /\ proc[x] \in Process /\ proc \in [Saga -> Process]
      /\ installs' \in {installs, installs \cup {x}}
      /\ proc' = [proc EXCEPT ![x].pc = "activate"]
      /\ UNCHANGED <<tenants, branches, users, members, schemas, history, skipped>>
  BY DEF Inv, TypeOK, RecordInstall, At, Goto
<1>2. Local(x, proc[x]) /\ Rows(x, proc[x]) /\ Holds(x, proc[x]) /\ TypeOK /\ Keys
  BY DEF Inv
<1>3. {"tenant", "branch", "member", "schema"} \subseteq proc[x].undo /\ proc[x].account \in Account
  BY <1>1, <1>2 DEF Local, Advancing, AfterTenant, AfterBranch, AfterUser, AfterMember, AfterSchema
<1>4. /\ proc'[x].pc = "activate" /\ proc'[x].slug = proc[x].slug /\ proc'[x].email = proc[x].email
      /\ proc'[x].undo = proc[x].undo /\ proc'[x].account = proc[x].account /\ proc'[x] \in Process
  BY <1>1 DEF Process, Forward, Ended
<1>5. \A s \in Saga \ {x} : proc'[s] = proc[s]
  BY <1>1
<1>6. TypeOK'
  BY <1>1, <1>2, <1>4 DEF TypeOK
<1>7. Keys'
  BY <1>1, <1>2 DEF Keys, Taken
<1>8. \A s \in Saga \ {x} : Same(s)
  BY <1>1, <1>5 DEF Same
<1>9. Local(x, proc[x])'
  BY <1>1, <1>2, <1>3, <1>4 DEF Local, Advancing, AfterTenant, AfterBranch, AfterUser, AfterMember, AfterSchema
<1>10. Rows(x, proc[x])'
  BY <1>1, <1>2, <1>3, <1>4 DEF Rows
<1>11. Holds(x, proc[x])'
  <2>1. x \in history
    BY <1>1, <1>2 DEF Rows
  <2>2. QED
    BY <1>1, <1>2, <1>3, <1>4, <2>1 DEF Holds, AfterSchema
<1>12. QED
  BY <1>1, <1>6, <1>7, <1>8, <1>9, <1>10, <1>11, SagaChanges

LEMMA ActivateInv ==
    ASSUME Inv, NEW x \in Saga, Activate(x)
    PROVE  Inv'
<1>1. /\ proc[x].pc = "activate" /\ proc[x] \in Process /\ proc \in [Saga -> Process]
      /\ tenants' = [tenants EXCEPT ![x].status = "active"]
      /\ proc' = [proc EXCEPT ![x].pc = "done"]
      /\ UNCHANGED <<branches, users, members, schemas, history, installs, skipped>>
  BY DEF Inv, TypeOK, Activate, At, Goto
<1>2. Local(x, proc[x]) /\ Rows(x, proc[x]) /\ Holds(x, proc[x]) /\ TypeOK /\ Keys
  BY DEF Inv
<1>3. {"tenant", "branch", "member", "schema"} \subseteq proc[x].undo /\ proc[x].account \in Account
  BY <1>1, <1>2 DEF Local, Advancing, AfterTenant, AfterBranch, AfterUser, AfterMember, AfterSchema
<1>4. /\ proc'[x].pc = "done" /\ proc'[x].slug = proc[x].slug /\ proc'[x].email = proc[x].email
      /\ proc'[x].undo = proc[x].undo /\ proc'[x].account = proc[x].account /\ proc'[x] \in Process
  BY <1>1 DEF Process, Forward, Ended
<1>5. \A s \in Saga \ {x} : proc'[s] = proc[s]
  BY <1>1
<1>6. tenants[x] # None /\ tenants[x] \in TenantRow
  BY <1>2, <1>3 DEF Rows, TypeOK
<1>7. /\ tenants'[x] \in TenantRow /\ tenants'[x] # None
      /\ tenants'[x].slug = tenants[x].slug /\ tenants'[x].status = "active"
      /\ \A s \in Saga \ {x} : tenants'[s] = tenants[s]
  BY <1>1, <1>2, <1>6, AbsentAssumption DEF TypeOK, TenantRow
<1>8. TypeOK'
  BY <1>1, <1>2, <1>4, <1>7 DEF TypeOK
<1>9. Keys'
  <2>1. \A s \in Saga : /\ tenants'[s] # None <=> tenants[s] # None
                        /\ tenants[s] # None => tenants'[s].slug = tenants[s].slug
    BY <1>6, <1>7
  <2>2. QED
    BY <1>1, <1>2, <2>1 DEF Keys, Taken
<1>10. \A s \in Saga \ {x} : Same(s)
  BY <1>1, <1>5, <1>7 DEF Same
<1>11. Local(x, proc[x])'
  BY <1>1, <1>2, <1>3, <1>4 DEF Local, Advancing, AfterTenant, AfterBranch, AfterUser, AfterMember, AfterSchema
<1>12. Rows(x, proc[x])'
  BY <1>1, <1>2, <1>3, <1>4, <1>7 DEF Rows
<1>13. Holds(x, proc[x])'
  BY <1>1, <1>2, <1>3, <1>4 DEF Holds, AfterSchema
<1>14. QED
  BY <1>1, <1>8, <1>9, <1>10, <1>11, <1>12, <1>13, SagaChanges

----------------------------------------------------------------------------
\* A compensation takes the newest step off the list; the tenant's is the last.
LEMMA UndoStep ==
    ASSUME Inv, NEW x \in Saga, NEW step \in Undoable, Undoes(x, step)
    PROVE  /\ proc[x] \in Process /\ proc'[x] \in Process /\ proc' \in [Saga -> Process]
           /\ proc[x].pc = "undo" /\ step \in proc[x].undo /\ tenants[x] # None
           /\ proc'[x].pc = "undo" /\ proc'[x].slug = proc[x].slug /\ proc'[x].email = proc[x].email
           /\ proc'[x].account = proc[x].account /\ proc'[x].undo = proc[x].undo \ {step}
           /\ step = "tenant" => proc[x].undo = {"tenant"}
           /\ \A s \in Saga \ {x} : proc'[s] = proc[s]
           /\ Local(x, proc[x])'
<1>1. /\ proc[x] \in Process /\ proc \in [Saga -> Process] /\ proc[x].pc = "undo"
      /\ step \in proc[x].undo /\ \A other \in proc[x].undo : Rank[other] <= Rank[step]
      /\ proc' = [proc EXCEPT ![x].undo = @ \ {step}]
  BY DEF Inv, TypeOK, Undoes, At, NextUndo
<1>2. Local(x, proc[x]) /\ Rows(x, proc[x])
  BY DEF Inv
<1>3. "tenant" \in proc[x].undo /\ tenants[x] # None
  BY <1>1, <1>2 DEF Local, Rows
<1>4. ASSUME step = "tenant"
      PROVE  proc[x].undo = {"tenant"}
  <2>1. \A other \in Undoable : other # "tenant" => Rank[other] > 1
    BY DEF Undoable, Rank
  <2>2. Rank["tenant"] = 1 /\ \A other \in Undoable : Rank[other] \in Nat
    BY DEF Undoable, Rank
  <2>3. proc[x].undo \subseteq Undoable
    BY <1>1 DEF Process
  <2>4. QED
    BY <1>1, <1>3, <1>4, <2>1, <2>2, <2>3
<1>5. /\ proc'[x].pc = "undo" /\ proc'[x].slug = proc[x].slug /\ proc'[x].email = proc[x].email
      /\ proc'[x].account = proc[x].account /\ proc'[x].undo = proc[x].undo \ {step} /\ proc'[x] \in Process
  BY <1>1 DEF Process
<1>6. proc' \in [Saga -> Process] /\ \A s \in Saga \ {x} : proc'[s] = proc[s]
  BY <1>1, <1>5
<1>7. Local(x, proc[x])'
  BY <1>1, <1>2, <1>3, <1>4, <1>5 DEF Local, Advancing, AfterTenant, AfterBranch, AfterUser, AfterMember, AfterSchema
<1>8. QED
  BY <1>1, <1>3, <1>4, <1>5, <1>6, <1>7

LEMMA UndoSchemaInv ==
    ASSUME Inv, NEW x \in Saga, UndoSchema(x)
    PROVE  Inv'
<1> DEFINE slug == proc[x].slug
<1>1. /\ Undoes(x, "schema") /\ schemas' = [schemas EXCEPT ![slug] = None]
      /\ UNCHANGED <<tenants, branches, users, members, history, installs, skipped>>
  BY DEF UndoSchema
<1>2. "schema" \in Undoable
  BY DEF Undoable, Rank
<1>3. /\ proc' \in [Saga -> Process] /\ tenants[x] # None /\ proc[x].pc = "undo"
      /\ proc'[x].pc = "undo" /\ proc'[x].slug = slug
      /\ proc'[x].account = proc[x].account /\ proc'[x].undo = proc[x].undo \ {"schema"}
      /\ \A s \in Saga \ {x} : proc'[s] = proc[s]
      /\ Local(x, proc[x])'
  BY <1>1, <1>2, UndoStep
<1>4. Rows(x, proc[x]) /\ Holds(x, proc[x]) /\ TypeOK /\ Keys
  BY DEF Inv
<1>5. slug \in Slug
  BY <1>3, <1>4 DEF Rows, TypeOK, TenantRow
<1>6. schemas'[slug] = None /\ \A other \in Slug \ {slug} : schemas'[other] = schemas[other]
  BY <1>1, <1>4, <1>5 DEF TypeOK
<1>7. TypeOK'
  BY <1>1, <1>3, <1>4, <1>5 DEF TypeOK
<1>8. Keys'
  BY <1>1, <1>4, <1>6 DEF Keys, Taken
<1>9. \A s \in Saga \ {x} : Same(s)
  BY <1>1, <1>3, <1>6, OthersSchemas
<1>10. Rows(x, proc[x])'
  BY <1>1, <1>3, <1>4 DEF Rows
<1>11. Holds(x, proc[x])'
  BY <1>1, <1>3, <1>6 DEF Holds, AfterSchema
<1>12. QED
  BY <1>1, <1>3, <1>7, <1>8, <1>9, <1>10, <1>11, SagaChanges

LEMMA UndoMembershipInv ==
    ASSUME Inv, NEW x \in Saga, UndoMembership(x)
    PROVE  Inv'
<1>1. /\ Undoes(x, "member") /\ members' = members \ {<<x, proc[x].account>>}
      /\ UNCHANGED <<tenants, branches, users, schemas, history, installs, skipped>>
  BY DEF UndoMembership
<1>2. "member" \in Undoable
  BY DEF Undoable, Rank
<1>3. /\ proc' \in [Saga -> Process] /\ proc[x].pc = "undo"
      /\ proc'[x].pc = "undo" /\ proc'[x].slug = proc[x].slug
      /\ proc'[x].account = proc[x].account /\ proc'[x].undo = proc[x].undo \ {"member"}
      /\ \A s \in Saga \ {x} : proc'[s] = proc[s]
      /\ Local(x, proc[x])'
  BY <1>1, <1>2, UndoStep
<1>4. Rows(x, proc[x]) /\ Holds(x, proc[x]) /\ TypeOK /\ Keys
  BY DEF Inv
<1>5. TypeOK'
  BY <1>1, <1>3, <1>4 DEF TypeOK
<1>6. Keys'
  BY <1>1, <1>4 DEF Keys, Taken
<1>7. \A s \in Saga \ {x} : Same(s)
  BY <1>1, <1>3 DEF Same
<1>8. \A a \in Account : <<x, a>> \notin members'
  BY <1>1, <1>4 DEF Rows
<1>9. Rows(x, proc[x])'
  BY <1>1, <1>3, <1>4, <1>8 DEF Rows
<1>10. Holds(x, proc[x])'
  BY <1>1, <1>3, <1>4 DEF Holds, AfterSchema
<1>11. QED
  BY <1>1, <1>3, <1>5, <1>6, <1>7, <1>9, <1>10, SagaChanges

LEMMA UndoUserInv ==
    ASSUME Inv, NEW x \in Saga, UndoUser(x)
    PROVE  Inv'
<1>1. /\ Undoes(x, "user")
      /\ users' = IF \E m \in members : m[2] = proc[x].account THEN users
                  ELSE users \ {proc[x].account}
      /\ UNCHANGED <<tenants, branches, members, schemas, history, installs, skipped>>
  BY DEF UndoUser
<1>2. "user" \in Undoable
  BY DEF Undoable, Rank
<1>3. /\ proc' \in [Saga -> Process] /\ proc[x].pc = "undo"
      /\ proc'[x].pc = "undo" /\ proc'[x].slug = proc[x].slug
      /\ proc'[x].account = proc[x].account /\ proc'[x].undo = proc[x].undo \ {"user"}
      /\ \A s \in Saga \ {x} : proc'[s] = proc[s]
      /\ Local(x, proc[x])'
  BY <1>1, <1>2, UndoStep
<1>4. Rows(x, proc[x]) /\ Holds(x, proc[x]) /\ TypeOK /\ Keys
  BY DEF Inv
<1>5. TypeOK'
  BY <1>1, <1>3, <1>4 DEF TypeOK
<1>6. Keys'
  <2>1. ASSUME NEW t \in Saga \cup {Elsewhere}, NEW a \in Account, <<t, a>> \in members
        PROVE  a \in users'
    <3>1. a \in users
      BY <1>4, <2>1 DEF Keys
    <3>2. <<t, a>>[2] = a
      OBVIOUS
    <3>3. QED
      BY <1>1, <2>1, <3>1, <3>2
  <2>2. QED
    BY <1>1, <1>4, <2>1 DEF Keys, Taken
<1>7. \A s \in Saga \ {x} : Same(s)
  BY <1>1, <1>3 DEF Same
<1>8. Rows(x, proc[x])'
  BY <1>1, <1>3, <1>4 DEF Rows
<1>9. Holds(x, proc[x])'
  BY <1>1, <1>3, <1>4 DEF Holds, AfterSchema
<1>10. QED
  BY <1>1, <1>3, <1>5, <1>6, <1>7, <1>8, <1>9, SagaChanges

LEMMA UndoBranchInv ==
    ASSUME Inv, NEW x \in Saga, UndoBranch(x)
    PROVE  Inv'
<1>1. /\ Undoes(x, "branch") /\ branches' = branches \ {x}
      /\ UNCHANGED <<tenants, users, members, schemas, history, installs, skipped>>
  BY DEF UndoBranch
<1>2. "branch" \in Undoable
  BY DEF Undoable, Rank
<1>3. /\ proc' \in [Saga -> Process] /\ proc[x].pc = "undo"
      /\ proc'[x].pc = "undo" /\ proc'[x].slug = proc[x].slug
      /\ proc'[x].account = proc[x].account /\ proc'[x].undo = proc[x].undo \ {"branch"}
      /\ \A s \in Saga \ {x} : proc'[s] = proc[s]
      /\ Local(x, proc[x])'
  BY <1>1, <1>2, UndoStep
<1>4. Rows(x, proc[x]) /\ Holds(x, proc[x]) /\ TypeOK /\ Keys
  BY DEF Inv
<1>5. TypeOK'
  BY <1>1, <1>3, <1>4 DEF TypeOK
<1>6. Keys'
  BY <1>1, <1>4 DEF Keys, Taken
<1>7. \A s \in Saga \ {x} : Same(s)
  BY <1>1, <1>3 DEF Same
<1>8. Rows(x, proc[x])'
  BY <1>1, <1>3, <1>4 DEF Rows
<1>9. Holds(x, proc[x])'
  BY <1>1, <1>3, <1>4 DEF Holds, AfterSchema
<1>10. QED
  BY <1>1, <1>3, <1>5, <1>6, <1>7, <1>8, <1>9, SagaChanges

\* By then the branch and the membership are gone, unless a compensation failed,
\* so that nothing but a plugin's record can keep the row.
LEMMA UndoTenantInv ==
    ASSUME Inv, NEW x \in Saga, UndoTenant(x)
    PROVE  Inv'
<1>1. /\ Undoes(x, "tenant")
      /\ tenants' = IF Referenced(x) THEN tenants ELSE [tenants EXCEPT ![x] = None]
      /\ UNCHANGED <<branches, users, members, schemas, history, installs, skipped>>
  BY DEF UndoTenant
<1>2. "tenant" \in Undoable
  BY DEF Undoable, Rank
<1>3. /\ proc' \in [Saga -> Process] /\ proc[x].pc = "undo" /\ proc[x].undo = {"tenant"} /\ tenants[x] # None
      /\ proc'[x].pc = "undo" /\ proc'[x].slug = proc[x].slug
      /\ proc'[x].account = proc[x].account /\ proc'[x].undo = {}
      /\ \A s \in Saga \ {x} : proc'[s] = proc[s]
      /\ Local(x, proc[x])'
  BY <1>1, <1>2, UndoStep
<1>4. Rows(x, proc[x]) /\ Holds(x, proc[x]) /\ TypeOK /\ Keys
  BY DEF Inv
<1>5. /\ tenants'[x] \in {tenants[x], None} /\ \A s \in Saga \ {x} : tenants'[s] = tenants[s]
      /\ ~Referenced(x) => tenants'[x] = None
  BY <1>1, <1>4 DEF TypeOK
<1>6. x \notin skipped /\ x \notin history => ~Referenced(x)
  <2>1. ASSUME x \notin skipped, x \notin history
        PROVE  x \notin branches /\ x \notin installs /\ \A a \in Account : <<x, a>> \notin members
    BY <1>3, <1>4, <2>1 DEF Rows
  <2>2. ASSUME NEW m \in members, m[1] = x
        PROVE  \E a \in Account : <<x, a>> \in members
    BY <1>4, <2>2 DEF TypeOK
  <2>3. QED
    BY <2>1, <2>2 DEF Referenced
<1>7. TypeOK'
  BY <1>1, <1>3, <1>4 DEF TypeOK
<1>8. Keys'
  <2>1. ASSUME skipped = {}, NEW slug \in Slug, schemas[slug] # None
        PROVE  Taken(slug)'
    <3>1. PICK t \in Saga : tenants[t] # None /\ tenants[t].slug = slug
      BY <1>4, <2>1 DEF Keys, Taken
    <3>2. t # x
      BY <1>3, <1>4, <2>1, <3>1 DEF Rows, Holds
    <3>3. QED
      BY <1>5, <3>1, <3>2 DEF Taken
  <2>2. \A s \in Saga : tenants'[s] \in {tenants[s], None}
    BY <1>5
  <2>3. QED
    BY <1>1, <1>4, <2>1, <2>2 DEF Keys
<1>9. \A s \in Saga \ {x} : Same(s)
  BY <1>1, <1>3, <1>5 DEF Same
<1>10. Rows(x, proc[x])'
  BY <1>1, <1>3, <1>4, <1>5, <1>6 DEF Rows
<1>11. Holds(x, proc[x])'
  BY <1>1, <1>3, <1>4, <1>5 DEF Holds, AfterSchema
<1>12. QED
  BY <1>1, <1>3, <1>7, <1>8, <1>9, <1>10, <1>11, SagaChanges

LEMMA UndoFailsInv ==
    ASSUME Inv, NEW x \in Saga, UndoFails(x)
    PROVE  Inv'
<1>1. PICK step \in Undoable : Undoes(x, step)
  BY DEF UndoFails
<1>2. /\ skipped' = skipped \cup {x}
      /\ UNCHANGED <<tenants, branches, users, members, schemas, history, installs>>
  BY DEF UndoFails, tables
<1>3. /\ proc' \in [Saga -> Process] /\ proc[x].pc = "undo"
      /\ proc'[x].pc = "undo" /\ proc'[x].slug = proc[x].slug
      /\ proc'[x].account = proc[x].account /\ proc'[x].undo = proc[x].undo \ {step}
      /\ \A s \in Saga \ {x} : proc'[s] = proc[s]
      /\ Local(x, proc[x])'
  BY <1>1, UndoStep
<1>4. Rows(x, proc[x]) /\ TypeOK /\ Keys
  BY DEF Inv
<1>5. TypeOK'
  BY <1>2, <1>3, <1>4 DEF TypeOK
<1>6. skipped' # {}
  BY <1>2
<1>7. Keys'
  BY <1>2, <1>4, <1>6 DEF Keys
<1>8. \A s \in Saga \ {x} : Same(s)
  BY <1>2, <1>3 DEF Same
<1>9. Rows(x, proc[x])'
  BY <1>2, <1>3, <1>4 DEF Rows
<1>10. Holds(x, proc[x])'
  BY <1>3, <1>6 DEF Holds, AfterSchema
<1>11. QED
  BY <1>2, <1>3, <1>5, <1>7, <1>8, <1>9, <1>10, SagaChanges
LEMMA AdmitElsewhereInv ==
    ASSUME Inv, NEW email \in Email, AdmitElsewhere(email)
    PROVE  Inv'
<1>1. PICK u \in Account : users' \in {users, users \cup {u}} /\ u \in users' /\ members' = members \cup {<<Elsewhere, u>>}
  <2>1. CASE \E u \in AccountOf(email) : members' = members \cup {<<Elsewhere, u>>} /\ UNCHANGED users
    <3>1. PICK u \in AccountOf(email) : members' = members \cup {<<Elsewhere, u>>} /\ UNCHANGED users
      BY <2>1
    <3>2. u \in users /\ u \in Account
      BY DEF AccountOf, Inv, TypeOK
    <3>3. QED
      BY <3>1, <3>2
  <2>2. CASE /\ users' = users \cup {<<email, Elsewhere>>}
             /\ members' = members \cup {<<Elsewhere, <<email, Elsewhere>>>>}
    BY <2>2 DEF Account
  <2>3. QED
    BY <2>1, <2>2 DEF AdmitElsewhere
<1>2. UNCHANGED <<tenants, branches, schemas, history, installs, proc, skipped>>
  BY DEF AdmitElsewhere
<1>3. TypeOK /\ Keys
  BY DEF Inv
<1>4. TypeOK'
  BY <1>1, <1>2, <1>3 DEF TypeOK
<1>5. Keys'
  BY <1>1, <1>2, <1>3 DEF Keys, Taken
<1>6. ASSUME NEW s \in Saga
      PROVE  Local(s, proc[s])' /\ Rows(s, proc[s])' /\ Holds(s, proc[s])'
  <2>1. s # Elsewhere
    BY ElsewhereAssumption
  <2>2. Same(s)
    BY <1>1, <1>2, <2>1 DEF Same
  <2>3. QED
    BY <1>2, <2>2, OthersKeep
<1>7. QED
  BY <1>4, <1>5, <1>6 DEF Inv

LEMMA StutterInv ==
    ASSUME Inv, UNCHANGED vars
    PROVE  Inv'
<1>1. UNCHANGED <<tenants, branches, users, members, schemas, history, installs, proc, skipped>>
  BY DEF vars, tables
<1>2. TypeOK' /\ Keys'
  BY <1>1 DEF Inv, TypeOK, Keys, Taken
<1>3. ASSUME NEW s \in Saga
      PROVE  Local(s, proc[s])' /\ Rows(s, proc[s])' /\ Holds(s, proc[s])'
  BY <1>1 DEF Inv, Local, Rows, Holds
<1>4. QED
  BY <1>2, <1>3 DEF Inv

LEMMA NextInv == Inv /\ [Next]_vars => Inv'
<1> SUFFICES ASSUME Inv, [Next]_vars PROVE Inv'
  OBVIOUS
<1>1. ASSUME NEW s \in Saga, NEW slug \in Slug \cup {None}, NEW email \in Email, Register(s, slug, email)
      PROVE  Inv'
  BY <1>1, RegisterInv
<1>2. ASSUME NEW s \in Saga, ResolveSlug(s) \/ CreateTenant(s) \/ CreateBranch(s) PROVE Inv'
  BY <1>2, ResolveSlugInv, CreateTenantInv, CreateBranchInv
<1>3. ASSUME NEW s \in Saga, ResolveUser(s) \/ CreateUser(s) \/ CreateMembership(s) PROVE Inv'
  BY <1>3, ResolveUserInv, CreateUserInv, CreateMembershipInv
<1>4. ASSUME NEW s \in Saga, CreateSchema(s) \/ MigrateTenantSchema(s) \/ CreateOwnerProfile(s) PROVE Inv'
  BY <1>4, CreateSchemaInv, MigrateTenantSchemaInv, CreateOwnerProfileInv
<1>5. ASSUME NEW s \in Saga, SkipPlugin(s) \/ MigratePlugin(s) \/ RecordMigration(s) \/ RecordInstall(s) PROVE Inv'
  BY <1>5, SkipPluginInv, MigratePluginInv, RecordMigrationInv, RecordInstallInv
<1>6. ASSUME NEW s \in Saga, Activate(s) \/ Fail(s) \/ Stop(s) \/ UndoFails(s) \/ Compensated(s) PROVE Inv'
  BY <1>6, ActivateInv, FailInv, StopInv, UndoFailsInv, CompensatedInv
<1>7. ASSUME NEW s \in Saga,
             UndoSchema(s) \/ UndoMembership(s) \/ UndoUser(s) \/ UndoBranch(s) \/ UndoTenant(s)
      PROVE  Inv'
  BY <1>7, UndoSchemaInv, UndoMembershipInv, UndoUserInv, UndoBranchInv, UndoTenantInv
<1>8. ASSUME NEW email \in Email, AdmitElsewhere(email) PROVE Inv'
  BY <1>8, AdmitElsewhereInv
<1>9. CASE UNCHANGED vars
  BY <1>9, StutterInv
<1>10. QED
  BY <1>1, <1>2, <1>3, <1>4, <1>5, <1>6, <1>7, <1>8, <1>9 DEF Next, Step

----------------------------------------------------------------------------
\* However the sagas interleave, fail, stop and leave things behind, the counters,
\* the lists to undo and the tables stay in the relation Inv states.
THEOREM InvariantHolds == Spec => []Inv
BY InitInv, NextInv, PTL DEF Spec

\* Every table, slug and program counter keeps its type.
THEOREM Typed == Spec => []TypeOK
<1>1. Inv => TypeOK
  BY DEF Inv
<1>2. QED
  BY <1>1, InvariantHolds, PTL

\* A tenant Register activated has its branch, its owner's live account, its
\* schema and the owner's profile in it, whatever other sagas undo.
THEOREM Complete == Spec => []ActiveIsComplete
<1>1. Inv => ActiveIsComplete
  <2> SUFFICES ASSUME Inv, NEW s \in Saga, tenants[s] # None, tenants[s].status = "active"
               PROVE  /\ s \in branches
                      /\ \E u \in users : <<s, u>> \in members
                      /\ schemas[tenants[s].slug] # None
                      /\ proc[s].account \in schemas[tenants[s].slug].profiles
    BY DEF ActiveIsComplete
  <2>1. Local(s, proc[s]) /\ Rows(s, proc[s]) /\ Holds(s, proc[s]) /\ Keys
    BY DEF Inv
  <2>2. proc[s].pc = "done" /\ tenants[s].slug = proc[s].slug
    BY <2>1 DEF Rows
  <2>3. {"branch", "member", "schema"} \subseteq proc[s].undo /\ proc[s].account \in Account
    BY <2>1, <2>2 DEF Local, Advancing, AfterTenant, AfterBranch, AfterUser, AfterMember, AfterSchema
  <2>4. s \in branches /\ <<s, proc[s].account>> \in members /\ schemas[proc[s].slug] # None
    BY <2>1, <2>3 DEF Rows
  <2>5. proc[s].account \in users
    BY <2>1, <2>3, <2>4 DEF Keys
  <2>6. proc[s].account \in schemas[proc[s].slug].profiles
    BY <2>1, <2>2 DEF Holds, AfterSchema
  <2>7. QED
    BY <2>2, <2>4, <2>5, <2>6
<1>2. QED
  BY <1>1, InvariantHolds, PTL

\* As long as every compensation went through, an active tenant's schema holds its
\* owner's profile alone and no plugin tables but its own.
THEOREM Dedicated == Spec => []SchemaIsDedicated
<1>1. Inv => SchemaIsDedicated
  <2> SUFFICES ASSUME Inv, NEW s \in Saga, tenants[s] # None, tenants[s].status = "active", skipped = {}
               PROVE  /\ schemas[tenants[s].slug].profiles = {proc[s].account}
                      /\ schemas[tenants[s].slug].plugin => s \in history
    BY DEF SchemaIsDedicated
  <2>1. Rows(s, proc[s]) /\ Holds(s, proc[s])
    BY DEF Inv
  <2>2. proc[s].pc = "done" /\ tenants[s].slug = proc[s].slug
    BY <2>1 DEF Rows
  <2>3. QED
    BY <2>1, <2>2 DEF Holds, AfterSchema
<1>2. QED
  BY <1>1, InvariantHolds, PTL

\* A saga whose compensations all went through has left nothing, unless a plugin
\* recorded a migration, and no schema outlives the row that holds its slug.
THEOREM RollsBack == Spec => []RolledBackWithoutPlugin
<1>1. Inv => RolledBackWithoutPlugin
  <2> SUFFICES ASSUME Inv PROVE RolledBackWithoutPlugin
    OBVIOUS
  <2>1. ASSUME NEW s \in Saga, proc[s].pc = "failed", s \notin skipped, s \notin history
        PROVE  RowsGone(s)
    <3>1. Local(s, proc[s]) /\ Rows(s, proc[s]) /\ TypeOK
      BY DEF Inv
    <3>2. proc[s].undo = {}
      BY <2>1, <3>1 DEF Local
    <3>3. tenants[s] = None /\ s \notin branches \cup installs /\ \A a \in Account : <<s, a>> \notin members
      BY <2>1, <3>1, <3>2 DEF Rows
    <3>4. ASSUME NEW m \in members, m[1] = s
          PROVE  \E a \in Account : <<s, a>> \in members
      BY <3>1, <3>4 DEF TypeOK
    <3>5. QED
      BY <2>1, <3>3, <3>4 DEF RowsGone
  <2>2. skipped = {} => \A slug \in Slug : schemas[slug] # None => Taken(slug)
    BY DEF Inv, Keys
  <2>3. QED
    BY <2>1, <2>2 DEF RolledBackWithoutPlugin, At
<1>2. QED
  BY <1>1, InvariantHolds, PTL

\* Only the compensation of the saga that created an account deletes it.
THEOREM OwnAccounts == Spec => OnlyOwnAccountDeleted
<1>1. ASSUME Inv, [Next]_vars
      PROVE  [\A u \in users \ users' : u[2] \in Saga /\ At(u[2], "undo")]_vars
  <2> SUFFICES ASSUME Next, NEW u \in users, u \notin users'
               PROVE  u[2] \in Saga /\ At(u[2], "undo")
    BY <1>1
  <2>1. ASSUME NEW s \in Saga, UndoUser(s)
        PROVE  u[2] \in Saga /\ At(u[2], "undo")
    <3>1. u = proc[s].account /\ proc[s].pc = "undo" /\ "user" \in proc[s].undo
      BY <2>1 DEF UndoUser, Undoes, At, NextUndo
    <3>2. Local(s, proc[s])
      BY <1>1 DEF Inv
    <3>3. u[2] = s
      BY <3>1, <3>2 DEF Local
    <3>4. QED
      BY <3>1, <3>3 DEF At
  <2>2. ASSUME NEW s \in Saga, Step(s) \/ Stop(s), ~UndoUser(s)
        PROVE  users \subseteq users'
    BY <2>2 DEF Step, Stop, ResolveSlug, CreateTenant, CreateBranch, ResolveUser, CreateUser,
                CreateMembership, CreateSchema, MigrateTenantSchema, CreateOwnerProfile, SkipPlugin,
                MigratePlugin, RecordMigration, RecordInstall, Activate, Fail, UndoSchema,
                UndoMembership, UndoBranch, UndoTenant, UndoFails, Compensated, tables
  <2>3. ASSUME NEW s \in Saga, NEW slug \in Slug \cup {None}, NEW email \in Email, Register(s, slug, email)
        PROVE  users \subseteq users'
    BY <2>3 DEF Register, tables
  <2>4. ASSUME NEW email \in Email, AdmitElsewhere(email)
        PROVE  users \subseteq users'
    BY <2>4 DEF AdmitElsewhere
  <2>5. QED
    BY <2>1, <2>2, <2>3, <2>4 DEF Next
<1>2. QED
  BY <1>1, InvariantHolds, PTL DEF Spec, OnlyOwnAccountDeleted
=============================================================================
