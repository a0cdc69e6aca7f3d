---------------------------- MODULE Shared_proofs ----------------------------
(* Theorems of the parts MCShared runs: Accounts and GoogleKeys, which decide   *)
(* who signs in, Store and Slugs; for every set of users, passwords, callers,   *)
(* keys, tokens, words and names, any lifetimes and any number of statements.   *)
EXTENDS Accounts, GoogleKeys, Store, Slugs, FiniteSetTheorems, SequenceTheorems, TLAPS

(***************************************************************************)
(* Accounts.                                                               *)
(***************************************************************************)
Calls ==
    [at : {"idle", "bySub", "byEmail", "bind", "credential", "prove", "check", "write", "find",
           "flag", "sync", "done"},
     op : {"google", "login", "change", "reset", "grant", "revoke", "boot", Nobody},
     user : Account \cup {Nobody}, value : Sub \cup Password \cup {Nobody},
     seen : Sub \cup Password \cup {Nobody}, shop : Shop \cup {Nobody},
     todo : SUBSET Account, owner : Account \cup {Nobody}, accepted : BOOLEAN]

\* What the stage of a call says of its arguments and locals.
Shape(q) ==
    /\ q.at \in {"bySub", "byEmail", "bind"} => q.op = "google" /\ q.value \in Sub
    /\ q.at \in {"byEmail", "bind"} => q.owner = Nobody
    /\ q.at = "bind" => q.seen = Nobody
    /\ q.at = "credential" => q.op = "login"
    /\ q.at = "prove" => q.op = "change"
    /\ q.at = "check" => q.op = "reset"
    /\ q.at = "write" => q.op \in {"change", "reset"}
    /\ q.at = "sync" => q.op = "boot"
    /\ q.at \in {"prove", "check", "write"} => q.value \in Password
    /\ q.at \in {"find", "flag"} => q.op \in {"grant", "revoke"}
    /\ q.at \notin {"idle", "sync", "done"} => q.user \in Account
    /\ q.at = "done" /\ q.op = "google" /\ q.accepted /\ q.owner # Nobody => q.user = q.owner

\* What a call q, which holds h, knows of the tables: its account is there, a
\* subject once bound stays some subject, and what its user has, or what it was
\* let through on, is held.
Knows(q, h) ==
    /\ q.at \in {"bind", "prove", "write", "flag"} => q.user \in registered
    /\ q.at \in {"bySub", "byEmail"} /\ q.seen # Nobody => googleSub[q.user] # Nobody
    /\ q.at = "bySub" /\ q.owner # Nobody => googleSub[q.owner] = q.value
    /\ q.at \notin {"idle", "done"} => HeldBy(q.user) \subseteq h
    /\ q.at = "write" \/ (q.at = "done" /\ q.accepted) =>
          /\ q.op = "change" => q.seen \in h
          /\ q.op = "reset" => q.shop \in h
    /\ q.at = "done" /\ q.accepted /\ q.op = "login" => q.value \in h

\* The domains of the tables; only a registered user has a subject.
TablesInv ==
    /\ registered \subseteq Account /\ admins \subseteq registered
    /\ googleSub \in [Account -> Sub \cup {Nobody}]
    /\ \A u \in Account : googleSub[u] # Nobody => u \in registered
    /\ \A u, v \in Account : googleSub[u] = googleSub[v] /\ googleSub[u] # Nobody => u = v
    /\ password \in [Account -> Password] /\ staff \in [Account -> SUBSET Shop]

CallsInv ==
    /\ request \in [Caller -> Calls]
    /\ held \in [Caller -> SUBSET (Password \cup Shop)]
    /\ \A c \in Caller : Shape(request[c]) /\ Knows(request[c], held[c])

\* Nobody who was revoked for good is an admin, or about to become one.
RevokedInv ==
    /\ revoked \subseteq Account
    /\ \A u \in revoked : u \notin admins /\ ~Granting(u)

BoundsInv == callsMade \in 0..MaxCalls /\ cuts \in 0..MaxCuts /\ otherWrites \in 0..MaxOther

AccountsInv == TablesInv /\ CallsInv /\ RevokedInv /\ BoundsInv

\* Whose flag a call q may still set.
Grants(q, u) ==
    \/ q.op = "grant" /\ q.user = u /\ q.at \in {"find", "flag"}
    \/ q.at = "sync" /\ u \in q.todo

LEMMA GrantingBy == \A u : Granting(u) <=> \E c \in Caller : Grants(request[c], u)
BY DEF Granting, Grants, Is, Doing

LEMMA FreeCall ==
    /\ Free \in Calls /\ Shape(Free) /\ Free.at = "idle"
    /\ \A h : Knows(Free, h)
    /\ \A u : ~Grants(Free, u)
BY DEF Free, Calls, Shape, Knows, Grants

LEMMA AccountsInitInv == AccountsInit => AccountsInv
<1> SUFFICES ASSUME AccountsInit PROVE AccountsInv
  OBVIOUS
<1>1. TablesInv /\ BoundsInv
  BY AccountsAssumption DEF AccountsInit, TablesInv, BoundsInv
<1>2. CallsInv
  BY FreeCall DEF AccountsInit, CallsInv
<1>3. RevokedInv
  BY DEF AccountsInit, RevokedInv
<1>4. QED
  BY <1>1, <1>2, <1>3 DEF AccountsInv

\* What is held of a user is a set of passwords and shops.
LEMMA HeldType ==
    ASSUME TablesInv, NEW u
    PROVE  HeldBy(u) \in SUBSET (Password \cup Shop)
BY DEF TablesInv, HeldBy

----------------------------------------------------------------------------
\* The call of c becomes q and may hold more; the tables its knowledge is about stay.
LEMMA CallMoves ==
    ASSUME AccountsInv, NEW c \in Caller, NEW q \in Calls, Shape(q), Goto(c, q),
           NEW h \in SUBSET (Password \cup Shop), Knows(q, h), held' = [held EXCEPT ![c] = h],
           UNCHANGED <<registered, googleSub, password, staff>>
    PROVE  CallsInv'
<1>1. request' = [request EXCEPT ![c] = q]
  BY DEF Goto
<1>2. request \in [Caller -> Calls] /\ held \in [Caller -> SUBSET (Password \cup Shop)]
  BY DEF AccountsInv, CallsInv
<1>3. request' \in [Caller -> Calls] /\ held' \in [Caller -> SUBSET (Password \cup Shop)]
  BY <1>1, <1>2
<1>4. ASSUME NEW d \in Caller
      PROVE  Shape(request'[d]) /\ Knows(request'[d], held'[d])
  BY <1>1, <1>2 DEF AccountsInv, CallsInv
<1>5. ASSUME NEW d \in Caller
      PROVE  Shape(request[d])' /\ Knows(request[d], held[d])'
  BY <1>4 DEF Shape, Knows, HeldBy
<1>6. QED
  BY <1>3, <1>5 DEF CallsInv

\* A call that comes to set no more flags than before it revokes nobody's revocation.
LEMMA GrantsNoMore ==
    ASSUME AccountsInv, NEW c \in Caller, NEW q \in Calls, Goto(c, q),
           \A u \in revoked' : Grants(q, u) => Granting(u),
           revoked' \subseteq revoked, admins' \subseteq admins
    PROVE  RevokedInv'
<1>1. request' = [request EXCEPT ![c] = q] /\ request \in [Caller -> Calls]
  BY DEF Goto, AccountsInv, CallsInv
<1>2. ASSUME NEW u \in revoked', NEW d \in Caller, Grants(request'[d], u)
      PROVE  FALSE
  BY <1>1, <1>2, GrantingBy DEF AccountsInv, RevokedInv
<1>3. \A u \in revoked' : ~Granting(u)'
  BY <1>2 DEF Granting, Grants, Is, Doing
<1>4. QED
  BY <1>3 DEF AccountsInv, RevokedInv

----------------------------------------------------------------------------
LEMMA CallBegins ==
    ASSUME AccountsInv, NEW c \in Caller, NEW q \in Calls, Shape(q), Begin(c, q),
           q.at \notin {"idle", "byEmail", "bind", "write", "flag", "done"},
           q.at = "prove" => q.user \in registered,
           q.at = "bySub" => /\ q.seen # Nobody => googleSub[q.user] # Nobody
                             /\ q.owner # Nobody => googleSub[q.owner] = q.value,
           revoked' \subseteq revoked, \A u \in revoked' : ~Grants(q, u)
    PROVE  AccountsInv'
<1>1. /\ Goto(c, q) /\ UNCHANGED <<users, cuts, otherWrites>>
      /\ callsMade < MaxCalls /\ callsMade' = callsMade + 1
      /\ held' = [held EXCEPT ![c] = HeldBy(q.user)]
  BY DEF Begin
<1>2. HeldBy(q.user) \in SUBSET (Password \cup Shop)
  BY HeldType DEF AccountsInv
<1>3. Knows(q, HeldBy(q.user))
  BY DEF Knows
<1>4. CallsInv'
  BY <1>1, <1>2, <1>3, CallMoves DEF users
<1>5. RevokedInv'
  BY <1>1, GrantsNoMore DEF users
<1>6. TablesInv' /\ BoundsInv'
  BY <1>1, AccountsAssumption DEF AccountsInv, TablesInv, BoundsInv, users
<1>7. QED
  BY <1>4, <1>5, <1>6 DEF AccountsInv

\* A subject that somebody has belongs to that user, and to nobody else.
LEMMA SubjectsBelong ==
    ASSUME TablesInv, NEW s \in Sub
    PROVE  /\ BelongsTo(s) # Nobody =>
                 BelongsTo(s) \in registered /\ googleSub[BelongsTo(s)] = s
           /\ \A u \in registered : googleSub[u] = s => BelongsTo(s) = u
<1>1. CASE OwnerOf(s) = {}
  BY <1>1 DEF BelongsTo, OwnerOf
<1>2. CASE OwnerOf(s) # {}
  <2>1. BelongsTo(s) \in OwnerOf(s)
    BY <1>2 DEF BelongsTo
  <2>2. s # Nobody
    BY AccountsAssumption
  <2>3. QED
    BY <2>1, <2>2 DEF OwnerOf, TablesInv
<1>3. QED
  BY <1>1, <1>2

LEMMA BeginsInv ==
    ASSUME AccountsInv, NEW c \in Caller,
           \/ Boot(c)
           \/ \E u \in Account :
                \/ \E s \in Sub : LoginWithGoogle(c, u, s)
                \/ \E p \in Password : Login(c, u, p) \/ \E q \in Password \ {p} : ChangeOwnPassword(c, u, p, q)
                \/ \E t \in Shop, p \in Password : SetMemberPassword(c, t, u, p)
                \/ GrantPlatformAdmin(c, u) \/ RevokePlatformAdmin(c, u)
    PROVE  AccountsInv'
<1>1. CASE Boot(c)
  <2> DEFINE q == [Free EXCEPT !.at = "sync", !.op = "boot", !.todo = ParsePlatformAdminEmails]
  <2>1. q \in Calls /\ Shape(q)
    BY AccountsAssumption DEF Free, Calls, Shape, ParsePlatformAdminEmails
  <2>2. \A u \in revoked' : ~Grants(q, u)
    BY <1>1 DEF Boot, Free, Grants
  <2>3. Begin(c, q) /\ q.at = "sync" /\ revoked' \subseteq revoked
    BY <1>1 DEF Boot, Free
  <2>4. QED
    BY <2>1, <2>2, <2>3, CallBegins
<1>2. ASSUME NEW u \in Account, NEW s \in Sub, LoginWithGoogle(c, u, s)
      PROVE  AccountsInv'
  <2> DEFINE q == [Free EXCEPT !.at = "bySub", !.op = "google", !.user = u, !.value = s,
                               !.owner = BelongsTo(s), !.seen = googleSub[u]]
  <2>1. /\ BelongsTo(s) \in Account \cup {Nobody} /\ googleSub[u] \in Sub \cup {Nobody}
        /\ BelongsTo(s) # Nobody => googleSub[BelongsTo(s)] = s
    BY SubjectsBelong DEF AccountsInv, TablesInv
  <2>2. q \in Calls /\ Shape(q)
    BY <2>1 DEF Free, Calls, Shape
  <2>3. Begin(c, q) /\ UNCHANGED revoked
    BY <1>2 DEF LoginWithGoogle
  <2>4. \A v : ~Grants(q, v)
    BY DEF Free, Grants
  <2>5. q.at = "bySub" /\ q.seen = googleSub[q.user] /\ (q.owner # Nobody => googleSub[q.owner] = q.value)
    BY <2>1 DEF Free
  <2>6. QED
    BY <2>2, <2>3, <2>4, <2>5, CallBegins
<1>3. ASSUME NEW u \in Account, NEW p \in Password, Login(c, u, p)
      PROVE  AccountsInv'
  <2> DEFINE q == [Free EXCEPT !.at = "credential", !.op = "login", !.user = u, !.value = p]
  <2>1. q \in Calls /\ Shape(q) /\ q.at = "credential" /\ \A v : ~Grants(q, v)
    BY DEF Free, Calls, Shape, Grants
  <2>2. QED
    BY <1>3, <2>1, CallBegins DEF Login
<1>4. ASSUME NEW u \in Account, NEW p \in Password, NEW r \in Password, ChangeOwnPassword(c, u, p, r)
      PROVE  AccountsInv'
  <2> DEFINE q == [Free EXCEPT !.at = "prove", !.op = "change", !.user = u, !.seen = p, !.value = r]
  <2>1. q \in Calls /\ Shape(q) /\ q.at = "prove" /\ q.user = u /\ \A v : ~Grants(q, v)
    BY DEF Free, Calls, Shape, Grants
  <2>2. QED
    BY <1>4, <2>1, CallBegins DEF ChangeOwnPassword
<1>5. ASSUME NEW u \in Account, NEW t \in Shop, NEW p \in Password, SetMemberPassword(c, t, u, p)
      PROVE  AccountsInv'
  <2> DEFINE q == [Free EXCEPT !.at = "check", !.op = "reset", !.user = u, !.shop = t, !.value = p]
  <2>1. q \in Calls /\ Shape(q) /\ q.at = "check" /\ \A v : ~Grants(q, v)
    BY DEF Free, Calls, Shape, Grants
  <2>2. QED
    BY <1>5, <2>1, CallBegins DEF SetMemberPassword
<1>6. ASSUME NEW u \in Account, GrantPlatformAdmin(c, u)
      PROVE  AccountsInv'
  <2> DEFINE q == [Free EXCEPT !.at = "find", !.op = "grant", !.user = u]
  <2>1. q \in Calls /\ Shape(q) /\ q.at = "find" /\ \A v : Grants(q, v) => v = u
    BY DEF Free, Calls, Shape, Grants
  <2>2. QED
    BY <1>6, <2>1, CallBegins DEF GrantPlatformAdmin
<1>7. ASSUME NEW u \in Account, RevokePlatformAdmin(c, u)
      PROVE  AccountsInv'
  <2> DEFINE q == [Free EXCEPT !.at = "find", !.op = "revoke", !.user = u]
  <2>1. q \in Calls /\ Shape(q) /\ q.at = "find" /\ \A v : ~Grants(q, v)
    BY DEF Free, Calls, Shape, Grants
  <2>2. QED
    BY <1>7, <2>1, CallBegins DEF RevokePlatformAdmin
<1>8. QED
  BY <1>1, <1>2, <1>3, <1>4, <1>5, <1>6, <1>7

----------------------------------------------------------------------------
\* What becomes of a call that moves on, and of one that ends.
LEMMA CallMovesOn ==
    ASSUME NEW q \in Calls, NEW at \in {"byEmail", "bind", "write", "flag"}
    PROVE  LET to == [q EXCEPT !.at = at] IN
           /\ to \in Calls /\ to.at = at /\ to.op = q.op /\ to.user = q.user /\ to.value = q.value
           /\ to.seen = q.seen /\ to.shop = q.shop /\ to.owner = q.owner
BY DEF Calls

LEMMA CallEnds ==
    ASSUME NEW q \in Calls, NEW accepted \in BOOLEAN
    PROVE  LET to == [q EXCEPT !.at = "done", !.accepted = accepted] IN
           /\ to \in Calls /\ to.at = "done" /\ to.op = q.op /\ to.user = q.user /\ to.value = q.value
           /\ to.seen = q.seen /\ to.shop = q.shop /\ to.owner = q.owner /\ to.accepted = accepted
<1> DEFINE to == [q EXCEPT !.at = "done", !.accepted = accepted]
<1>1. to \in Calls
  BY DEF Calls
<1>2. /\ to.at = "done" /\ to.op = q.op /\ to.user = q.user /\ to.value = q.value
      /\ to.seen = q.seen /\ to.shop = q.shop /\ to.owner = q.owner
  BY DEF Calls
<1>3. to.accepted = accepted
  BY DEF Calls
<1>4. QED
  BY <1>1, <1>2, <1>3

LEMMA CallEndsFor ==
    ASSUME NEW q \in Calls, NEW u \in Account, NEW accepted \in BOOLEAN
    PROVE  LET to == [q EXCEPT !.at = "done", !.user = u, !.accepted = accepted] IN
           /\ to \in Calls /\ to.at = "done" /\ to.op = q.op /\ to.user = u /\ to.value = q.value
           /\ to.seen = q.seen /\ to.shop = q.shop /\ to.owner = q.owner /\ to.accepted = accepted
<1> DEFINE to == [q EXCEPT !.at = "done", !.user = u, !.accepted = accepted]
<1>1. to \in Calls
  BY DEF Calls
<1>2. /\ to.at = "done" /\ to.op = q.op /\ to.user = u /\ to.value = q.value
      /\ to.seen = q.seen /\ to.shop = q.shop /\ to.owner = q.owner
  BY DEF Calls
<1>3. to.accepted = accepted
  BY DEF Calls
<1>4. QED
  BY <1>1, <1>2, <1>3

\* A step of c that changes no row: its call becomes q, which grants no more.
LEMMA CallReads ==
    ASSUME AccountsInv, NEW c \in Caller, NEW q \in Calls, Shape(q), Knows(q, held[c]), Goto(c, q),
           \A u : Grants(q, u) => Grants(request[c], u),
           UNCHANGED <<users, revoked, held, callsMade, otherWrites>>, cuts' \in 0..MaxCuts
    PROVE  AccountsInv'
<1>1. /\ held[c] \in SUBSET (Password \cup Shop)
      /\ held' = [held EXCEPT ![c] = held[c]]
  BY DEF AccountsInv, CallsInv
<1>2. CallsInv'
  BY <1>1, CallMoves DEF users
<1>3. RevokedInv'
  BY GrantingBy, GrantsNoMore DEF users
<1>4. TablesInv' /\ BoundsInv'
  BY DEF AccountsInv, TablesInv, BoundsInv, users
<1>5. QED
  BY <1>2, <1>3, <1>4 DEF AccountsInv

LEMMA ReadsInv ==
    ASSUME AccountsInv, NEW c \in Caller,
           \/ FindBySub(c) \/ FindByEmail(c) \/ CheckCredential(c) \/ ProveCurrent(c)
           \/ CheckStaff(c) \/ FindAccount(c) \/ Synced(c) \/ Fails(c)
    PROVE  AccountsInv'
<1> DEFINE q == request[c]
<1>1. /\ q \in Calls /\ Shape(q) /\ Knows(q, held[c]) /\ cuts \in 0..MaxCuts
      /\ TablesInv
  BY DEF AccountsInv, CallsInv, BoundsInv
<1>2. ASSUME NEW to \in Calls, Shape(to), Knows(to, held[c]), Goto(c, to), to.op = q.op,
             to.at = "done" \/ (to.user = q.user /\ to.at # "sync" /\ (to.at \in {"find", "flag"} => q.at = "find")),
             UNCHANGED users, UNCHANGED <<revoked, held, callsMade, otherWrites>>, cuts' \in 0..MaxCuts
      PROVE  AccountsInv'
  BY <1>2, CallReads DEF Grants
<1>3. ASSUME NEW accepted \in BOOLEAN, Done(c, accepted), q.at # "idle",
             accepted => q.op \notin {"google", "login", "change", "reset"},
             UNCHANGED <<users, revoked, held, callsMade, otherWrites>>, cuts' \in 0..MaxCuts
      PROVE  AccountsInv'
  <2> DEFINE to == [q EXCEPT !.at = "done", !.accepted = accepted]
  <2>1. to \in Calls /\ Goto(c, to) /\ to.op = q.op /\ to.at = "done" /\ to.accepted = accepted
    BY <1>1, <1>3, CallEnds DEF Done
  <2>2. Shape(to) /\ Knows(to, held[c])
    <3> HIDE DEF to
    <3>1. QED
      BY <1>3, <2>1 DEF Shape, Knows
  <2>3. QED
    BY <1>2, <1>3, <2>1, <2>2
<1>4. CASE FindBySub(c)
  <2> DEFINE u == BelongsTo(q.value)
  <2>1. /\ q.at = "bySub" /\ q.op = "google" /\ q.value \in Sub
        /\ UNCHANGED <<users, revoked, held, callsMade, otherWrites, cuts>>
    BY <1>1, <1>4 DEF FindBySub, Doing, Shape, Quietly, counters
  <2>2. q.owner # Nobody => u = q.owner
    BY <1>1, <2>1, SubjectsBelong, AccountsAssumption DEF Knows, TablesInv, Calls
  <2>3. CASE u # Nobody
    <3> DEFINE to == [q EXCEPT !.at = "done", !.user = u, !.accepted = TRUE]
    <3>1. Goto(c, to) /\ u \in Account
      BY <1>1, <1>4, <2>1, <2>3, SubjectsBelong DEF FindBySub, TablesInv
    <3>2. to \in Calls /\ Shape(to) /\ Knows(to, held[c]) /\ to.op = q.op /\ to.at = "done"
      <4>1. /\ to \in Calls /\ to.at = "done" /\ to.op = q.op /\ to.user = u /\ to.value = q.value
            /\ to.seen = q.seen /\ to.shop = q.shop /\ to.owner = q.owner /\ to.accepted = TRUE
        BY <1>1, <3>1, CallEndsFor
      <4> HIDE DEF to
      <4>2. QED
        BY <1>1, <2>1, <2>2, <3>1, <4>1 DEF Shape, Knows
    <3>3. QED
      BY <1>1, <1>2, <2>1, <3>1, <3>2
  <2>4. CASE u = Nobody
    <3> DEFINE to == [q EXCEPT !.at = "byEmail"]
    <3>1. Goto(c, to)
      BY <1>4, <2>4 DEF FindBySub, Move
    <3>2. to \in Calls /\ Shape(to) /\ Knows(to, held[c]) /\ to.op = q.op /\ to.at = "byEmail" /\ to.user = q.user
      <4>1. /\ to \in Calls /\ to.at = "byEmail" /\ to.op = q.op /\ to.user = q.user /\ to.value = q.value
            /\ to.seen = q.seen /\ to.shop = q.shop /\ to.owner = q.owner
        BY <1>1, CallMovesOn
      <4> HIDE DEF to
      <4>2. QED
        BY <1>1, <2>1, <2>2, <2>4, <4>1 DEF Shape, Knows
    <3>3. QED
      BY <1>1, <1>2, <2>1, <3>1, <3>2
  <2>5. QED
    BY <2>3, <2>4
<1>5. CASE FindByEmail(c)
  <2>1. /\ q.at = "byEmail" /\ q.op = "google" /\ q.user \in Account /\ q.owner = Nobody
        /\ UNCHANGED <<users, revoked, held, callsMade, otherWrites, cuts>>
    BY <1>1, <1>5 DEF FindByEmail, Doing, Shape, Quietly, counters
  <2>2. CASE q.user \notin registered
    BY <1>1, <1>3, <1>5, <2>1, <2>2 DEF FindByEmail
  <2>3. CASE q.user \in registered /\ googleSub[q.user] = Nobody
    <3> DEFINE to == [q EXCEPT !.at = "bind"]
    <3>1. Goto(c, to)
      BY <1>5, <2>3 DEF FindByEmail, Move
    <3>2. to \in Calls /\ Shape(to) /\ Knows(to, held[c]) /\ to.op = q.op /\ to.at = "bind" /\ to.user = q.user
      <4>1. /\ to \in Calls /\ to.at = "bind" /\ to.op = q.op /\ to.user = q.user /\ to.value = q.value
            /\ to.seen = q.seen /\ to.shop = q.shop /\ to.owner = q.owner
        BY <1>1, CallMovesOn
      <4> HIDE DEF to
      <4>2. QED
        BY <1>1, <2>1, <2>3, <4>1 DEF Shape, Knows
    <3>3. QED
      BY <1>1, <1>2, <2>1, <3>1, <3>2
  <2>4. CASE q.user \in registered /\ googleSub[q.user] # Nobody
    <3> DEFINE to == [q EXCEPT !.at = "done", !.accepted = TRUE]
    <3>1. Goto(c, to)
      BY <1>5, <2>4 DEF FindByEmail, Done
    <3>2. to \in Calls /\ Shape(to) /\ Knows(to, held[c]) /\ to.op = q.op /\ to.at = "done"
      <4>1. /\ to \in Calls /\ to.at = "done" /\ to.op = q.op /\ to.user = q.user /\ to.value = q.value
            /\ to.seen = q.seen /\ to.shop = q.shop /\ to.owner = q.owner /\ to.accepted = TRUE
        BY <1>1, CallEnds
      <4> HIDE DEF to
      <4>2. QED
        BY <1>1, <2>1, <4>1 DEF Shape, Knows
    <3>3. QED
      BY <1>1, <1>2, <2>1, <3>1, <3>2
  <2>5. QED
    BY <2>2, <2>3, <2>4
<1>6. CASE CheckCredential(c)
  <2> DEFINE ok == q.user \in registered /\ password[q.user] = q.value
             to == [q EXCEPT !.at = "done", !.accepted = ok]
  <2>1. /\ q.at = "credential" /\ q.op = "login" /\ Goto(c, to)
        /\ UNCHANGED <<users, revoked, held, callsMade, otherWrites, cuts>>
    BY <1>1, <1>6 DEF CheckCredential, Doing, Done, Shape, Quietly, counters
  <2>2. ok => q.value \in held[c]
    BY <1>1, <2>1 DEF Knows, HeldBy
  <2>3. to \in Calls /\ Shape(to) /\ Knows(to, held[c]) /\ to.op = q.op /\ to.at = "done"
    <3>1. /\ to \in Calls /\ to.at = "done" /\ to.op = q.op /\ to.user = q.user /\ to.value = q.value
          /\ to.seen = q.seen /\ to.shop = q.shop /\ to.owner = q.owner /\ to.accepted = ok
      <4>1. ok \in BOOLEAN
        OBVIOUS
      <4> HIDE DEF ok
      <4>2. QED
        BY <1>1, <4>1, CallEnds
    <3> HIDE DEF to
    <3>2. QED
      BY <1>1, <2>1, <2>2, <3>1 DEF Shape, Knows
  <2>4. QED
    BY <1>1, <1>2, <2>1, <2>3
<1>7. CASE ProveCurrent(c)
  <2> DEFINE to == [q EXCEPT !.at = "write"]
  <2>1. /\ q.at = "prove" /\ q.op = "change" /\ q.user \in registered
        /\ UNCHANGED <<users, revoked, held, callsMade, otherWrites, cuts>>
    BY <1>1, <1>7 DEF ProveCurrent, Doing, Shape, Knows, Quietly, counters
  <2>2. CASE password[q.user] = q.seen
    <3>1. Goto(c, to) /\ q.seen \in held[c]
      BY <1>1, <1>7, <2>1, <2>2 DEF ProveCurrent, Move, Knows, HeldBy
    <3>2. to \in Calls /\ Shape(to) /\ Knows(to, held[c]) /\ to.op = q.op /\ to.at = "write" /\ to.user = q.user
      <4>1. /\ to \in Calls /\ to.at = "write" /\ to.op = q.op /\ to.user = q.user /\ to.value = q.value
            /\ to.seen = q.seen /\ to.shop = q.shop /\ to.owner = q.owner
        BY <1>1, CallMovesOn
      <4> HIDE DEF to
      <4>2. QED
        BY <1>1, <2>1, <3>1, <4>1 DEF Shape, Knows
    <3>3. QED
      BY <1>1, <1>2, <2>1, <3>1, <3>2
  <2>3. CASE password[q.user] # q.seen
    BY <1>1, <1>3, <1>7, <2>1, <2>3 DEF ProveCurrent
  <2>4. QED
    BY <2>2, <2>3
<1>8. CASE CheckStaff(c)
  <2> DEFINE to == [q EXCEPT !.at = "write"]
             ok == q.user \in registered /\ q.shop \in staff[q.user]
  <2>1. /\ q.at = "check" /\ q.op = "reset"
        /\ UNCHANGED <<users, revoked, held, callsMade, otherWrites, cuts>>
    BY <1>1, <1>8 DEF CheckStaff, Doing, Shape, Quietly, counters
  <2>2. CASE ok
    <3>1. Goto(c, to) /\ q.shop \in held[c]
      BY <1>1, <1>8, <2>1, <2>2 DEF CheckStaff, Move, Knows, HeldBy
    <3>2. to \in Calls /\ Shape(to) /\ Knows(to, held[c]) /\ to.op = q.op /\ to.at = "write" /\ to.user = q.user
      <4>1. /\ to \in Calls /\ to.at = "write" /\ to.op = q.op /\ to.user = q.user /\ to.value = q.value
            /\ to.seen = q.seen /\ to.shop = q.shop /\ to.owner = q.owner
        BY <1>1, CallMovesOn
      <4> HIDE DEF to
      <4>2. QED
        BY <1>1, <2>1, <2>2, <3>1, <4>1 DEF Shape, Knows
    <3>3. QED
      BY <1>1, <1>2, <2>1, <3>1, <3>2
  <2>3. CASE ~ok
    BY <1>1, <1>3, <1>8, <2>1, <2>3 DEF CheckStaff
  <2>4. QED
    BY <2>2, <2>3
<1>9. CASE FindAccount(c)
  <2> DEFINE to == [q EXCEPT !.at = "flag"]
  <2>1. /\ q.at = "find" /\ q.op \in {"grant", "revoke"} /\ q.user \in Account
        /\ UNCHANGED <<users, revoked, held, callsMade, otherWrites, cuts>>
    BY <1>1, <1>9 DEF FindAccount, Doing, Shape, Quietly, counters
  <2>2. CASE q.user \in registered
    <3>1. Goto(c, to)
      BY <1>9, <2>2 DEF FindAccount, Move
    <3>2. to \in Calls /\ Shape(to) /\ Knows(to, held[c]) /\ to.op = q.op /\ to.at = "flag" /\ to.user = q.user
      <4>1. /\ to \in Calls /\ to.at = "flag" /\ to.op = q.op /\ to.user = q.user /\ to.value = q.value
            /\ to.seen = q.seen /\ to.shop = q.shop /\ to.owner = q.owner
        BY <1>1, CallMovesOn
      <4> HIDE DEF to
      <4>2. QED
        BY <1>1, <2>1, <2>2, <4>1 DEF Shape, Knows
    <3>3. QED
      BY <1>1, <1>2, <2>1, <3>1, <3>2
  <2>3. CASE q.user \notin registered
    BY <1>1, <1>3, <1>9, <2>1, <2>3 DEF FindAccount
  <2>4. QED
    BY <2>2, <2>3
<1>10. CASE Synced(c)
  <2> DEFINE to == [q EXCEPT !.at = "done", !.accepted = TRUE]
  <2>1. /\ q.at = "sync" /\ Goto(c, to)
        /\ UNCHANGED <<users, revoked, held, callsMade, otherWrites, cuts>>
    BY <1>10 DEF Synced, Doing, Done, Quietly, counters
  <2>2. to \in Calls /\ Shape(to) /\ Knows(to, held[c]) /\ to.op = q.op /\ to.at = "done"
    <3>1. to \in Calls /\ to.at = "done" /\ to.op = q.op
      BY <1>1, CallEnds
    <3>2. q.op = "boot"
      BY <1>1, <2>1 DEF Shape
    <3> HIDE DEF to
    <3>3. QED
      BY <3>1, <3>2 DEF Shape, Knows
  <2>3. QED
    BY <1>1, <1>2, <2>1, <2>2
<1>11. CASE Fails(c)
  <2>1. PICK accepted \in BOOLEAN : accepted = (q.at = "bind")
    OBVIOUS
  <2>2. /\ q.at \notin {"idle", "done"} /\ Done(c, accepted)
        /\ UNCHANGED <<users, revoked, held, callsMade, otherWrites>> /\ cuts' \in 0..MaxCuts
    BY <1>1, <1>11, <2>1, AccountsAssumption DEF Fails, Doing
  <2>3. CASE q.at = "bind"
    <3> DEFINE to == [q EXCEPT !.at = "done", !.accepted = TRUE]
    <3>1. Goto(c, to)
      BY <2>1, <2>2, <2>3 DEF Done
    <3>2. to \in Calls /\ Shape(to) /\ Knows(to, held[c]) /\ to.op = q.op /\ to.at = "done"
      <4>1. /\ to \in Calls /\ to.at = "done" /\ to.op = q.op /\ to.user = q.user /\ to.value = q.value
            /\ to.seen = q.seen /\ to.shop = q.shop /\ to.owner = q.owner /\ to.accepted = TRUE
        BY <1>1, CallEnds
      <4> HIDE DEF to
      <4>2. QED
        BY <1>1, <2>3, <4>1 DEF Shape, Knows
    <3>3. QED
      BY <1>2, <2>2, <3>1, <3>2
  <2>4. CASE q.at # "bind"
    BY <1>3, <2>1, <2>2, <2>4
  <2>5. QED
    BY <2>3, <2>4
<1>12. QED
  BY <1>4, <1>5, <1>6, <1>7, <1>8, <1>9, <1>10, <1>11

----------------------------------------------------------------------------
LEMMA FlagsInv ==
    ASSUME AccountsInv, NEW c \in Caller, SetFlag(c) \/ SyncOne(c)
    PROVE  AccountsInv'
<1> DEFINE q == request[c]
<1>1. /\ q \in Calls /\ Shape(q) /\ Knows(q, held[c]) /\ TablesInv
      /\ held[c] \in SUBSET (Password \cup Shop) /\ held = [held EXCEPT ![c] = held[c]]
  BY DEF AccountsInv, CallsInv
<1>2. CASE SetFlag(c)
  <2> DEFINE to == [q EXCEPT !.at = "done", !.accepted = TRUE]
             u == q.user
  <2>1. /\ q.at = "flag" /\ q.op \in {"grant", "revoke"} /\ u \in registered /\ u \in Account
        /\ Goto(c, to) /\ UNCHANGED <<registered, googleSub, password, staff, held, counters>>
    BY <1>1, <1>2 DEF SetFlag, Doing, Done, Shape, Knows
  <2>2. to \in Calls /\ Shape(to) /\ Knows(to, held[c]) /\ \A v : ~Grants(to, v)
    <3>1. to \in Calls /\ to.at = "done" /\ to.op = q.op
      BY <1>1, CallEnds
    <3> HIDE DEF to
    <3>2. QED
      BY <2>1, <3>1 DEF Shape, Knows, Grants
  <2>3. CallsInv'
    BY <1>1, <2>1, <2>2, CallMoves
  <2>4. request' = [request EXCEPT ![c] = to] /\ request \in [Caller -> Calls]
    BY <2>1 DEF Goto, AccountsInv, CallsInv
  <2>5. ASSUME NEW v, Granting(v)'
        PROVE  Granting(v)
    <3>1. PICK d \in Caller : Grants(request'[d], v)
      BY <2>5 DEF Granting, Grants, Is, Doing
    <3>2. d # c /\ request'[d] = request[d]
      BY <2>2, <2>4, <3>1
    <3>3. QED
      BY <3>1, <3>2, GrantingBy
  <2>6. CASE q.op = "grant"
    <3>1. admins' = admins \cup {u} /\ revoked' = revoked
      BY <1>2, <2>6 DEF SetFlag, Is
    <3>2. Granting(u)
      BY <2>1, <2>6, GrantingBy DEF Grants
    <3>3. RevokedInv'
      BY <2>5, <3>1, <3>2 DEF AccountsInv, RevokedInv
    <3>4. QED
      BY <1>1, <2>1, <2>3, <3>1, <3>3 DEF AccountsInv, TablesInv, BoundsInv, counters
  <2>7. CASE q.op = "revoke"
    <3>1. admins' = admins \ {u} /\ revoked' = IF Granting(u) THEN revoked ELSE revoked \cup {u}
      BY <1>2, <2>1, <2>7 DEF SetFlag, Is
    <3>2. RevokedInv'
      BY <2>1, <2>5, <3>1 DEF AccountsInv, RevokedInv
    <3>3. QED
      BY <1>1, <2>1, <2>3, <3>1, <3>2 DEF AccountsInv, TablesInv, BoundsInv, counters
  <2>8. QED
    BY <2>1, <2>6, <2>7
<1>3. CASE SyncOne(c)
  <2>1. PICK u \in q.todo : /\ admins' = admins \cup ({u} \cap registered)
                            /\ Goto(c, [q EXCEPT !.todo = @ \ {u}])
    BY <1>3 DEF SyncOne
  <2> DEFINE to == [q EXCEPT !.todo = @ \ {u}]
  <2>2. /\ q.at = "sync" /\ u \in Account
        /\ UNCHANGED <<registered, googleSub, password, staff, revoked, held, counters>>
    BY <1>1, <1>3 DEF SyncOne, Doing, Quietly, Calls
  <2>3. to \in Calls /\ Shape(to) /\ Knows(to, held[c])
    BY <1>1, <2>2 DEF Calls, Shape, Knows
  <2>4. CallsInv'
    BY <1>1, <2>1, <2>2, <2>3, CallMoves
  <2>5. request' = [request EXCEPT ![c] = to] /\ request \in [Caller -> Calls]
    BY <2>1 DEF Goto, AccountsInv, CallsInv
  <2>6. ASSUME NEW v, Granting(v)'
        PROVE  Granting(v)
    <3>1. PICK d \in Caller : Grants(request'[d], v)
      BY <2>6 DEF Granting, Grants, Is, Doing
    <3>2. Grants(to, v) => Grants(q, v)
      BY <1>1 DEF Grants, Calls
    <3>3. QED
      BY <2>5, <3>1, <3>2, GrantingBy
  <2>7. Granting(u)
    BY <2>2, GrantingBy DEF Grants
  <2>8. RevokedInv'
    BY <2>1, <2>2, <2>6, <2>7 DEF AccountsInv, RevokedInv
  <2>9. QED
    BY <1>1, <2>1, <2>2, <2>4, <2>8 DEF AccountsInv, TablesInv, BoundsInv, counters
<1>4. QED
  BY <1>2, <1>3

LEMMA WriteHashInv ==
    ASSUME AccountsInv, NEW c \in Caller, writePasswordHash(c)
    PROVE  AccountsInv'
<1> DEFINE q == request[c]
           u == q.user
           to == [q EXCEPT !.at = "done", !.accepted = TRUE]
<1>1. /\ request \in [Caller -> Calls] /\ held \in [Caller -> SUBSET (Password \cup Shop)]
      /\ Shape(q) /\ Knows(q, held[c]) /\ TablesInv
  BY DEF AccountsInv, CallsInv
<1>2. /\ q.at = "write" /\ u \in Account /\ q.value \in Password /\ q.op \in {"change", "reset"}
      /\ request' = [request EXCEPT ![c] = to]
      /\ password' = [password EXCEPT ![u] = q.value]
      /\ held' = [d \in Caller |-> IF request[d].user = u THEN held[d] \cup {password'[u]} ELSE held[d]]
      /\ UNCHANGED <<registered, googleSub, staff, admins, revoked, counters>>
  BY <1>1 DEF writePasswordHash, Doing, Done, Goto, Shape
<1>3. TablesInv' /\ BoundsInv'
  BY <1>1, <1>2 DEF AccountsInv, TablesInv, BoundsInv, counters
<1>4. password'[u] = q.value /\ \A v : v # u => (v \in registered => password'[v] = password[v])
  BY <1>1, <1>2 DEF TablesInv
<1>5. request' \in [Caller -> Calls] /\ held' \in [Caller -> SUBSET (Password \cup Shop)]
  <2>1. to \in Calls
    BY <1>1, CallEnds
  <2>2. \A d \in Caller : held[d] \cup {password'[u]} \in SUBSET (Password \cup Shop)
    BY <1>1, <1>2, <1>4
  <2>3. QED
    BY <1>1, <1>2, <2>1, <2>2
<1>6. ASSUME NEW d \in Caller
      PROVE  Shape(request[d])' /\ Knows(request[d], held[d])'
  <2>1. request'[d] \in {request[d], to} /\ (request'[d] = request[d] \/ d = c)
    BY <1>1, <1>2
  <2>2. Shape(request[d]) /\ Knows(request[d], held[d]) /\ held[d] \subseteq held'[d] /\ request[d] \in Calls
    BY <1>1, <1>2 DEF AccountsInv, CallsInv
  <2>3. CASE d = c
    <3>1. request'[d] = to /\ to.at = "done" /\ to.op = q.op /\ to.seen = q.seen /\ to.shop = q.shop
      BY <1>1, <1>2, <2>3, CallEnds
    <3>2. QED
      BY <1>2, <2>2, <2>3, <3>1 DEF Shape, Knows
  <2>4. CASE request'[d] = request[d]
    <3>1. HeldBy(request[d].user) \subseteq held[d] => HeldBy(request[d].user)' \subseteq held'[d]
      BY <1>2, <1>4, <2>4 DEF HeldBy
    <3>2. QED
      BY <1>2, <2>2, <2>4, <3>1 DEF Shape, Knows
  <2>5. QED
    BY <2>1, <2>3, <2>4
<1>7. CallsInv'
  BY <1>5, <1>6 DEF CallsInv
<1>8. RevokedInv'
  <2>1. \A v : ~Grants(to, v)
    BY <1>1, <1>2 DEF Calls, Grants
  <2>2. to \in Calls
    BY <1>1, CallEnds
  <2>3. QED
    BY <1>2, <2>1, <2>2, GrantsNoMore DEF Goto
<1>9. QED
  BY <1>3, <1>7, <1>8 DEF AccountsInv

LEMMA BindInv ==
    ASSUME AccountsInv, NEW c \in Caller, BindSub(c)
    PROVE  AccountsInv'
<1> DEFINE q == request[c]
           u == q.user
           to == [q EXCEPT !.at = "done", !.accepted = TRUE]
           Lost(d) == request[d].owner # Nobody /\ googleSub'[request[d].owner] # googleSub[request[d].owner]
<1>1. /\ request \in [Caller -> Calls] /\ held \in [Caller -> SUBSET (Password \cup Shop)]
      /\ Shape(q) /\ Knows(q, held[c]) /\ TablesInv
  BY DEF AccountsInv, CallsInv
<1>2. /\ q.at = "bind" /\ u \in registered /\ q.value \in Sub /\ q.owner = Nobody /\ q.op = "google"
      /\ request' = [d \in Caller |-> IF d = c THEN to
                     ELSE IF Lost(d) THEN [request[d] EXCEPT !.owner = Nobody] ELSE request[d]]
      /\ IF OwnerOf(q.value) \subseteq {u} THEN googleSub' = [googleSub EXCEPT ![u] = q.value]
         ELSE UNCHANGED googleSub
      /\ UNCHANGED <<registered, password, staff, admins, revoked, held, counters>>
  BY <1>1 DEF BindSub, Doing, Shape, Knows, Quietly
<1>3. /\ googleSub' \in [Account -> Sub \cup {Nobody}]
      /\ \A v \in Account : googleSub[v] # Nobody => googleSub'[v] # Nobody
      /\ \A v \in Account : googleSub'[v] # Nobody => v \in registered
  BY <1>1, <1>2, AccountsAssumption DEF TablesInv
<1>4. \A v, w \in Account : googleSub'[v] = googleSub'[w] /\ googleSub'[v] # Nobody => v = w
  <2>1. CASE OwnerOf(q.value) \subseteq {u}
    <3>1. \A v \in Account : googleSub[v] = q.value => v = u
      BY <1>1, <1>2, <2>1, AccountsAssumption DEF TablesInv, OwnerOf
    <3>2. QED
      BY <1>1, <1>2, <2>1, <3>1 DEF TablesInv
  <2>2. CASE ~(OwnerOf(q.value) \subseteq {u})
    BY <1>1, <1>2, <2>2 DEF TablesInv
  <2>3. QED
    BY <2>1, <2>2
<1>5. TablesInv' /\ BoundsInv'
  BY <1>1, <1>2, <1>3, <1>4 DEF AccountsInv, TablesInv, BoundsInv, counters
<1>6. request' \in [Caller -> Calls]
  <2>1. ASSUME NEW p \in Calls
        PROVE  [p EXCEPT !.owner = Nobody] \in Calls
    BY DEF Calls
  <2>2. to \in Calls
    BY <1>1, CallEnds
  <2>3. QED
    BY <1>1, <1>2, <2>1, <2>2
<1>7. ASSUME NEW d \in Caller
      PROVE  Shape(request[d])' /\ Knows(request[d], held[d])'
  <2>1. Shape(request[d]) /\ Knows(request[d], held[d]) /\ request[d] \in Calls
    BY <1>1 DEF AccountsInv, CallsInv
  <2>2. CASE d = c
    <3>1. request'[d] = to /\ to.at = "done" /\ to.op = "google" /\ to.owner = Nobody
      BY <1>1, <1>2, <2>2, CallEnds
    <3>2. QED
      BY <3>1 DEF Shape, Knows
  <2>3. CASE d # c /\ Lost(d)
    <3>1. request'[d] = [request[d] EXCEPT !.owner = Nobody]
      BY <1>2, <2>3
    <3> DEFINE p == [request[d] EXCEPT !.owner = Nobody]
    <3>2. Shape(p) /\ Knows(p, held[d])
      BY <2>1 DEF Shape, Knows, Calls
    <3>3. p.at \in {"bySub", "byEmail"} => p.user \in Account
      BY <3>2 DEF Shape
    <3>4. Knows(request[d], held[d])'
      BY <1>2, <1>3, <3>1, <3>2, <3>3, <2>1 DEF Knows, HeldBy, Calls
    <3>5. QED
      BY <3>1, <3>2, <3>4 DEF Shape
  <2>4. CASE d # c /\ ~Lost(d)
    <3>1. request'[d] = request[d]
      BY <1>2, <2>4
    <3>2. request[d].at \in {"bySub", "byEmail"} => request[d].user \in Account
      BY <2>1 DEF Shape
    <3>3. Knows(request[d], held[d])'
      BY <1>2, <1>3, <2>1, <2>4, <3>1, <3>2 DEF Knows, HeldBy
    <3>4. QED
      BY <2>1, <3>1, <3>3 DEF Shape
  <2>5. QED
    BY <2>2, <2>3, <2>4
<1>8. CallsInv'
  BY <1>1, <1>2, <1>6, <1>7 DEF CallsInv
<1>9. RevokedInv'
  <2>1. ASSUME NEW v, Granting(v)'
        PROVE  Granting(v)
    <3>1. PICK d \in Caller : Grants(request'[d], v)
      BY <2>1 DEF Granting, Grants, Is, Doing
    <3>2. Grants(request'[d], v) => Grants(request[d], v)
      BY <1>1, <1>2 DEF Calls, Grants
    <3>3. QED
      BY <3>1, <3>2, GrantingBy
  <2>2. QED
    BY <1>2, <2>1 DEF AccountsInv, RevokedInv
<1>10. QED
  BY <1>5, <1>8, <1>9 DEF AccountsInv

LEMMA AnswerInv ==
    ASSUME AccountsInv, NEW c \in Caller, Answer(c)
    PROVE  AccountsInv'
<1>1. Goto(c, Free) /\ held' = [held EXCEPT ![c] = {}] /\ UNCHANGED <<users, revoked, counters>>
  BY DEF Answer
<1>2. CallsInv'
  BY <1>1, FreeCall, CallMoves DEF users
<1>3. RevokedInv'
  BY <1>1, FreeCall, GrantsNoMore DEF users
<1>4. QED
  BY <1>1, <1>2, <1>3 DEF AccountsInv, TablesInv, BoundsInv, users, counters

LEMMA ElsewhereInv ==
    ASSUME AccountsInv, NEW u \in Account, Register(u) \/ \E t \in Shop : JoinOrLeave(u, t)
    PROVE  AccountsInv'
<1>1. /\ UNCHANGED <<googleSub, password, admins, request, revoked, callsMade, cuts>>
      /\ held' = [c \in Caller |-> IF request[c].user = Nobody THEN held[c]
                                   ELSE held[c] \cup HeldBy(request[c].user)']
      /\ otherWrites < MaxOther /\ otherWrites' = otherWrites + 1
      /\ registered \subseteq registered' /\ registered' \subseteq Account
  BY DEF Register, JoinOrLeave, Elsewhere, AccountsInv, TablesInv
<1>2. staff' \in [Account -> SUBSET Shop]
  BY DEF Register, JoinOrLeave, AccountsInv, TablesInv
<1>3. TablesInv' /\ BoundsInv'
  BY <1>1, <1>2, AccountsAssumption DEF AccountsInv, TablesInv, BoundsInv
<1>4. \A v : HeldBy(v)' \in SUBSET (Password \cup Shop)
  BY <1>3 DEF TablesInv, HeldBy
<1>5. held' \in [Caller -> SUBSET (Password \cup Shop)]
  BY <1>1, <1>4 DEF AccountsInv, CallsInv
<1>6. ASSUME NEW c \in Caller
      PROVE  Shape(request[c])' /\ Knows(request[c], held[c])'
  <2>1. Shape(request[c]) /\ Knows(request[c], held[c]) /\ held[c] \subseteq held'[c] /\ request'[c] = request[c]
    BY <1>1 DEF AccountsInv, CallsInv
  <2>2. HeldBy(request[c].user)' \subseteq held'[c]
    BY <1>1, <1>3, AccountsAssumption DEF HeldBy, TablesInv
  <2>3. Knows(request[c], held[c])'
    BY <1>1, <2>1, <2>2 DEF Knows
  <2>4. QED
    BY <2>1, <2>3 DEF Shape
<1>7. CallsInv'
  BY <1>1, <1>5, <1>6 DEF AccountsInv, CallsInv
<1>8. RevokedInv'
  BY <1>1 DEF AccountsInv, RevokedInv, Granting, Is, Doing
<1>9. QED
  BY <1>3, <1>7, <1>8 DEF AccountsInv

LEMMA AccountsNextInv == AccountsInv /\ [AccountsNext]_accountVars => AccountsInv'
<1> SUFFICES ASSUME AccountsInv, [AccountsNext]_accountVars PROVE AccountsInv'
  OBVIOUS
<1>1. CASE UNCHANGED accountVars
  BY <1>1 DEF accountVars, users, counters, AccountsInv, TablesInv, CallsInv, Shape, Knows, HeldBy,
              RevokedInv, Granting, Is, Doing, BoundsInv
<1>2. CASE AccountsNext
  BY <1>2, BeginsInv, ReadsInv, FlagsInv, WriteHashInv, BindInv, AnswerInv, ElsewhereInv
     DEF AccountsNext, AccountStep
<1>3. QED
  BY <1>1, <1>2

THEOREM AccountsInvariantHolds == AccountsSpec => []AccountsInv
BY AccountsInitInv, AccountsNextInv, PTL DEF AccountsSpec

----------------------------------------------------------------------------
\* The users table stays in its domain, a subject resolves to the user who had
\* it when the login began (login.go: FindBySub comes first), a login or change
\* is let through only on a password, a reset only on a membership, of its time,
\* and a revoke holds against every grant and boot that ended before it.
THEOREM CredentialsHold == AccountsSpec => []CredentialsSound
<1>1. AccountsInv => CredentialsSound
  <2> SUFFICES ASSUME AccountsInv PROVE CredentialsSound
    OBVIOUS
  <2>1. AccountsTypeOK
    BY DEF AccountsInv, TablesInv, CallsInv, RevokedInv, BoundsInv, AccountsTypeOK, Calls
  <2>2. SubDecides
    BY DEF AccountsInv, CallsInv, Shape, SubDecides, Is
  <2>3. CredentialsProven
    BY DEF AccountsInv, CallsInv, Knows, CredentialsProven, Is
  <2>4. RevokeHolds
    BY DEF AccountsInv, RevokedInv, RevokeHolds
  <2>5. QED
    BY <2>1, <2>2, <2>3, <2>4 DEF CredentialsSound
<1>2. QED
  BY <1>1, AccountsInvariantHolds, PTL

\* Nothing but a login's bind writes a subject.
LEMMA OnlyBindWrites ==
    ASSUME AccountsNext, ~\E c \in Caller : BindSub(c)
    PROVE  UNCHANGED googleSub
<1>1. ASSUME NEW c \in Caller, NEW q, Begin(c, q)
      PROVE  UNCHANGED googleSub
  BY <1>1 DEF Begin, users
<1>2. ASSUME NEW c \in Caller, AccountStep(c)
      PROVE  UNCHANGED googleSub
  BY <1>2 DEF AccountStep, users, FindBySub, FindByEmail, CheckCredential, ProveCurrent, CheckStaff,
              writePasswordHash, FindAccount, SetFlag, SyncOne, Synced
<1>3. ASSUME NEW c \in Caller, Fails(c) \/ Answer(c)
      PROVE  UNCHANGED googleSub
  BY <1>3 DEF Fails, Answer, users
<1>4. ASSUME NEW u \in Account, Register(u) \/ \E t \in Shop : JoinOrLeave(u, t)
      PROVE  UNCHANGED googleSub
  BY <1>4 DEF Register, JoinOrLeave, Elsewhere
<1>5. CASE \E c \in Caller, u \in Account :
              \/ \E s \in Sub : LoginWithGoogle(c, u, s)
              \/ \E p \in Password : Login(c, u, p) \/ \E q \in Password \ {p} : ChangeOwnPassword(c, u, p, q)
              \/ \E t \in Shop, p \in Password : SetMemberPassword(c, t, u, p)
              \/ GrantPlatformAdmin(c, u) \/ RevokePlatformAdmin(c, u)
  BY <1>1, <1>5 DEF LoginWithGoogle, Login, ChangeOwnPassword, SetMemberPassword, GrantPlatformAdmin,
                    RevokePlatformAdmin
<1>6. CASE \E c \in Caller : Boot(c)
  BY <1>1, <1>6 DEF Boot
<1>7. QED
  BY <1>2, <1>3, <1>4, <1>5, <1>6 DEF AccountsNext

\* A bound subject is replaced only by a login that had seen the account without
\* one when it began (login.go: the guard of the bind is read before it).
THEOREM SubjectsKept == AccountsSpec => SubKept
<1> DEFINE Kept == \A u \in Account : googleSub[u] # Nobody /\ googleSub'[u] # googleSub[u] =>
                      \E c \in Caller :
                          /\ Doing(c, "bind") /\ request'[c].at = "done"
                          /\ request[c].user = u /\ request[c].seen = Nobody
<1>1. AccountsInv /\ [AccountsNext]_accountVars => [Kept]_accountVars
  <2> SUFFICES ASSUME AccountsInv, AccountsNext, NEW u \in Account, googleSub'[u] # googleSub[u]
               PROVE  \E c \in Caller :
                          /\ Doing(c, "bind") /\ request'[c].at = "done"
                          /\ request[c].user = u /\ request[c].seen = Nobody
    OBVIOUS
  <2>1. PICK c \in Caller : BindSub(c)
    BY OnlyBindWrites
  <2>2. /\ Doing(c, "bind") /\ request'[c] = [request[c] EXCEPT !.at = "done", !.accepted = TRUE]
        /\ googleSub' = [googleSub EXCEPT ![request[c].user] = request[c].value] \/ UNCHANGED googleSub
    BY <2>1 DEF BindSub
  <2>3. Shape(request[c]) /\ request[c] \in Calls /\ googleSub \in [Account -> Sub \cup {Nobody}]
    BY DEF AccountsInv, CallsInv, TablesInv
  <2>4. request[c].seen = Nobody /\ request'[c].at = "done" /\ request[c].user = u
    BY <2>2, <2>3 DEF Shape, Doing, Calls
  <2>5. QED
    BY <2>2, <2>4
<1>2. QED
  BY <1>1, AccountsInvariantHolds, PTL DEF AccountsSpec, SubKept

(***************************************************************************)
(* GoogleKeys.                                                             *)
(***************************************************************************)
Verifies ==
    [pc : {"idle", "lookup", "fetch", "install", "again", "accepted", "unknown", "rejected"},
     token : IdToken \cup {NoToken}, had : BOOLEAN, answer : SUBSET Kid, since : Nat,
     fell : BOOLEAN]

DomainsInv ==
    /\ clock \in Start..(Start + MaxClock)
    /\ published \subseteq Kid /\ keys \subseteq Kid
    /\ lastIn \in [Kid -> Nat] /\ lastOut \in [Kid -> Nat]
    /\ fetchedAt \in {Never} \cup Start..clock
    /\ verify \in [Verifier -> Verifies]
    /\ rotations \in 0..MaxRotations /\ fetchFaults \in 0..MaxFetchFaults

\* The history is up to date: a key is published, or not, until now.
HistoryInv ==
    \A k \in Kid :
        /\ lastIn[k] <= clock /\ lastOut[k] <= clock
        /\ IF k \in published THEN lastIn[k] = clock ELSE lastOut[k] = clock

\* The cache is no older than its date says by more than one fetch: a key in it
\* was still published, and one not in it unpublished, that long before.
CacheInv ==
    \A k \in Kid : fetchedAt <= (IF k \in keys THEN lastIn[k] ELSE lastOut[k]) + Timeout

\* A call past its lookup is within its time; its answer is of that time, what it
\* installed is no older, and it decided on a key that old or that new.
Sound(q) ==
    /\ q.pc # "idle" => q.token \in IdToken
    /\ q.pc \in {"fetch", "install", "again"} => q.since <= clock /\ clock <= q.since + Timeout
    /\ q.pc = "install" =>
          \A k \in Kid : q.since <= (IF k \in q.answer THEN lastIn[k] ELSE lastOut[k])
    /\ q.pc = "again" => q.since <= fetchedAt
    /\ q.pc = "accepted" /\ ~q.fell => clock < lastIn[q.token.kid] + Ttl + Timeout
    /\ q.pc = "unknown" => q.since <= lastOut[q.token.kid] + Timeout

KeysInv == DomainsInv /\ HistoryInv /\ CacheInv /\ \A v \in Verifier : Sound(verify[v])

LEMMA QuietCall == Quiet \in Verifies /\ Quiet.pc = "idle" /\ Sound(Quiet)
BY DEF Quiet, Verifies, Sound, Never

LEMMA KeysInitInv == KeysInit => KeysInv
<1> SUFFICES ASSUME KeysInit PROVE KeysInv
  OBVIOUS
<1>1. Start \in Nat /\ Never \in Nat
  BY KeysAssumption DEF Start, Never
<1>2. DomainsInv
  BY <1>1, QuietCall, KeysAssumption DEF KeysInit, DomainsInv
<1>3. HistoryInv /\ CacheInv
  BY <1>1, KeysAssumption DEF KeysInit, HistoryInv, CacheInv, Never
<1>4. QED
  BY <1>2, <1>3, QuietCall DEF KeysInit, KeysInv

----------------------------------------------------------------------------
\* A step of v that leaves the cache alone.
LEMMA VerifyMoves ==
    ASSUME KeysInv, NEW v \in Verifier, NEW q \in Verifies, Sound(q), Continue(v, q),
           UNCHANGED <<keys, fetchedAt>>, fetchFaults' \in 0..MaxFetchFaults, OwnStep
    PROVE  KeysInv'
<1>1. verify' = [verify EXCEPT ![v] = q] /\ UNCHANGED <<clock, published, lastIn, lastOut, rotations>>
  BY DEF Continue, OwnStep, google
<1>2. DomainsInv'
  BY <1>1 DEF KeysInv, DomainsInv
<1>3. HistoryInv' /\ CacheInv'
  BY <1>1 DEF KeysInv, HistoryInv, CacheInv
<1>4. ASSUME NEW w \in Verifier
      PROVE  Sound(verify[w])'
  <2>1. Sound(verify'[w])
    BY <1>1 DEF KeysInv, DomainsInv
  <2>2. QED
    BY <1>1, <2>1 DEF Sound
<1>5. QED
  BY <1>2, <1>3, <1>4 DEF KeysInv

\* The decision on a key that is found: sound if the key is recent enough.
LEMMA DecidedSound ==
    ASSUME NEW q \in Verifies, q.token \in IdToken,
           q.fell \/ clock < lastIn[q.token.kid] + Ttl + Timeout
    PROVE  Decided(q) \in Verifies /\ Sound(Decided(q))
<1>1. CASE q.token.claimsGood
  BY <1>1 DEF Decided, Verifies, Sound
<1>2. CASE ~q.token.claimsGood
  BY <1>2 DEF Decided, Verifies, Sound
<1>3. QED
  BY <1>1, <1>2

LEMMA LookupInv ==
    ASSUME KeysInv, NEW v \in Verifier, Lookup(v)
    PROVE  KeysInv'
<1> DEFINE q == verify[v]
           k == q.token.kid
<1>1. /\ q \in Verifies /\ q.pc = "lookup" /\ q.token \in IdToken /\ k \in Kid
      /\ DomainsInv /\ HistoryInv /\ CacheInv
      /\ UNCHANGED <<keys, fetchedAt, fetchFaults>> /\ OwnStep
  BY KeysAssumption DEF Lookup, At, KeysInv, DomainsInv, Sound
<1>2. CASE k \in keys /\ FreshCache
  <2>1. Continue(v, Decided(q))
    BY <1>2 DEF Lookup
  <2>2. fetchedAt <= lastIn[k] + Timeout /\ clock - fetchedAt < Ttl
    BY <1>1, <1>2 DEF CacheInv, FreshCache
  <2>3. clock < lastIn[k] + Ttl + Timeout
    BY <1>1, <2>2, KeysAssumption DEF DomainsInv, Never, Start
  <2>4. QED
    BY <1>1, <2>1, <2>3, DecidedSound, VerifyMoves DEF DomainsInv
<1>3. CASE ~(k \in keys /\ FreshCache)
  <2> DEFINE to == [q EXCEPT !.pc = "fetch", !.had = k \in keys, !.since = clock]
  <2>2. Continue(v, to)
    BY <1>3 DEF Lookup
  <2>3. clock \in Nat /\ Timeout \in Nat
    BY <1>1, KeysAssumption DEF DomainsInv, Start
  <2>4. to \in Verifies
    <3>1. ASSUME NEW had \in BOOLEAN
          PROVE  [q EXCEPT !.pc = "fetch", !.had = had, !.since = clock] \in Verifies
      BY <1>1, <2>3 DEF Verifies
    <3>2. (k \in keys) \in BOOLEAN
      OBVIOUS
    <3>3. QED
      BY <3>1, <3>2, Zenon
  <2>5. Sound(to)
    BY <1>1, <2>3 DEF Sound, Verifies
  <2>6. QED
    BY <1>1, <2>2, <2>4, <2>5, VerifyMoves DEF DomainsInv
<1>4. QED
  BY <1>2, <1>3

LEMMA FetchInv ==
    ASSUME KeysInv, NEW v \in Verifier, Fetch(v) \/ FetchFails(v)
    PROVE  KeysInv'
<1> DEFINE q == verify[v]
<1>1. /\ q \in Verifies /\ q.pc = "fetch" /\ q.token \in IdToken /\ Sound(q)
      /\ DomainsInv /\ HistoryInv
      /\ UNCHANGED <<keys, fetchedAt>> /\ OwnStep
  BY DEF Fetch, FetchFails, At, KeysInv, DomainsInv, Sound
<1>2. CASE Fetch(v)
  <2> DEFINE to == [q EXCEPT !.pc = "install", !.answer = published]
  <2>1. Continue(v, to) /\ UNCHANGED fetchFaults
    BY <1>2 DEF Fetch
  <2>2. to \in Verifies
    BY <1>1 DEF Verifies, DomainsInv
  <2>3. to.pc = "install" /\ to.answer = published /\ to.since = q.since /\ to.token = q.token
    BY <1>1 DEF Verifies
  <2>4. \A k \in Kid : to.since <= (IF k \in to.answer THEN lastIn[k] ELSE lastOut[k])
    BY <1>1, <2>3 DEF Sound, HistoryInv
  <2>5. Sound(to)
    BY <1>1, <2>3, <2>4 DEF Sound
  <2>6. QED
    BY <1>1, <2>1, <2>2, <2>5, VerifyMoves DEF DomainsInv
<1>3. CASE FetchFails(v)
  <2>1. fetchFaults' \in 0..MaxFetchFaults
    BY <1>1, <1>3, KeysAssumption DEF FetchFails, DomainsInv
  <2>2. CASE q.had
    <3> DEFINE to == [Decided(q) EXCEPT !.fell = TRUE]
    <3>1. Continue(v, to)
      BY <1>3, <2>2 DEF FetchFails
    <3>2. to \in Verifies /\ to.fell = TRUE /\ to.pc \in {"accepted", "rejected"} /\ to.token = q.token
      BY <1>1 DEF Decided, Verifies
    <3>3. Sound(to)
      BY <1>1, <3>2 DEF Sound
    <3>4. QED
      BY <1>1, <2>1, <3>1, <3>2, <3>3, VerifyMoves
  <2>3. CASE ~q.had
    <3> DEFINE to == [q EXCEPT !.pc = "rejected"]
    <3>1. Continue(v, to)
      BY <1>3, <2>3 DEF FetchFails
    <3>2. to \in Verifies /\ Sound(to)
      BY <1>1 DEF Sound, Verifies
    <3>3. QED
      BY <1>1, <2>1, <3>1, <3>2, VerifyMoves
  <2>4. QED
    BY <2>2, <2>3
<1>4. QED
  BY <1>2, <1>3

\* The answer replaces the cache: it is of the fetch's time, whoever fetched since.
LEMMA InstallInv ==
    ASSUME KeysInv, NEW v \in Verifier, Install(v)
    PROVE  KeysInv'
<1> DEFINE q == verify[v]
           to == [q EXCEPT !.pc = "again"]
<1>1. /\ q \in Verifies /\ q.pc = "install" /\ Sound(q) /\ DomainsInv /\ HistoryInv
      /\ keys' = q.answer /\ fetchedAt' = clock /\ verify' = [verify EXCEPT ![v] = to]
      /\ UNCHANGED <<clock, published, lastIn, lastOut, rotations, fetchFaults>>
  BY DEF Install, At, Continue, OwnStep, google, KeysInv, DomainsInv
<1>2. clock \in Nat /\ clock >= Start /\ Timeout \in Nat /\ fetchedAt \in Nat /\ fetchedAt <= clock
  BY <1>1, KeysAssumption DEF DomainsInv, Start, Never
<1>3. to \in Verifies /\ to.pc = "again" /\ to.since = q.since /\ to.token = q.token
  BY <1>1 DEF Verifies
<1>4. DomainsInv'
  <2>1. keys' \subseteq Kid /\ fetchedAt' \in Start..clock'
    BY <1>1, <1>2, KeysAssumption DEF Verifies, DomainsInv, Start
  <2>2. QED
    BY <1>1, <1>3, <2>1 DEF DomainsInv
<1>5. HistoryInv'
  BY <1>1 DEF HistoryInv
<1>6. CacheInv'
  <2>1. \A k \in Kid : q.since <= (IF k \in q.answer THEN lastIn[k] ELSE lastOut[k])
    BY <1>1 DEF Sound
  <2>2. clock <= q.since + Timeout /\ q.since \in Nat
    BY <1>1 DEF Sound, Verifies
  <2>3. QED
    BY <1>1, <1>2, <2>1, <2>2 DEF CacheInv, DomainsInv
<1>7. ASSUME NEW w \in Verifier
      PROVE  Sound(verify[w])'
  <2>1. Sound(verify[w]) /\ verify[w] \in Verifies
    BY <1>1 DEF KeysInv, DomainsInv
  <2>2. CASE w = v
    <3>1. verify'[w] = to
      BY <1>1, <2>2 DEF DomainsInv
    <3>2. QED
      BY <1>1, <1>3, <3>1 DEF Sound
  <2>3. CASE w # v
    <3>1. verify'[w] = verify[w]
      BY <1>1, <2>3 DEF DomainsInv
    <3>2. QED
      BY <1>1, <1>2, <2>1, <3>1 DEF Sound, Verifies
  <2>4. QED
    BY <2>2, <2>3
<1>8. QED
  BY <1>4, <1>5, <1>6, <1>7 DEF KeysInv

LEMMA LookAgainInv ==
    ASSUME KeysInv, NEW v \in Verifier, LookAgain(v)
    PROVE  KeysInv'
<1> DEFINE q == verify[v]
           k == q.token.kid
<1>1. /\ q \in Verifies /\ q.pc = "again" /\ q.token \in IdToken /\ k \in Kid /\ Sound(q)
      /\ DomainsInv /\ CacheInv /\ fetchFaults \in 0..MaxFetchFaults
      /\ UNCHANGED <<keys, fetchedAt, fetchFaults>> /\ OwnStep
  BY KeysAssumption DEF LookAgain, At, KeysInv, DomainsInv, Sound
<1>2. /\ q.since <= fetchedAt /\ clock <= q.since + Timeout
      /\ q.since \in Nat /\ fetchedAt \in Nat /\ clock \in Nat /\ Timeout \in Nat /\ Ttl \in Nat
      /\ Timeout < Ttl /\ lastIn[k] \in Nat /\ lastOut[k] \in Nat
  BY <1>1, KeysAssumption DEF Sound, Verifies, DomainsInv, Start, Never
<1>3. CASE k \in keys
  <2>1. Continue(v, Decided(q)) /\ fetchedAt <= lastIn[k] + Timeout
    BY <1>1, <1>3 DEF LookAgain, CacheInv
  <2>2. clock < lastIn[k] + Ttl + Timeout
    BY <1>2, <2>1
  <2>3. QED
    BY <1>1, <2>1, <2>2, DecidedSound, VerifyMoves
<1>4. CASE k \notin keys
  <2> DEFINE to == [q EXCEPT !.pc = "unknown"]
  <2>1. Continue(v, to) /\ fetchedAt <= lastOut[k] + Timeout
    BY <1>1, <1>4 DEF LookAgain, CacheInv
  <2>2. to \in Verifies /\ to.pc = "unknown" /\ to.token = q.token /\ to.since = q.since
    BY <1>1 DEF Verifies
  <2>3. Sound(to)
    BY <1>1, <1>2, <2>1, <2>2 DEF Sound
  <2>4. QED
    BY <1>1, <2>1, <2>2, <2>3, VerifyMoves
<1>5. QED
  BY <1>3, <1>4

LEMMA EdgesInv ==
    ASSUME KeysInv, NEW v \in Verifier, Return(v) \/ \E t \in IdToken : Verify(v, t)
    PROVE  KeysInv'
<1>1. fetchFaults \in 0..MaxFetchFaults /\ clock \in Nat
  BY KeysAssumption DEF KeysInv, DomainsInv, Start
<1>2. CASE Return(v)
  BY <1>1, <1>2, QuietCall, VerifyMoves DEF Return
<1>3. ASSUME NEW t \in IdToken, Verify(v, t)
      PROVE  KeysInv'
  <2> DEFINE to == [Quiet EXCEPT !.pc = "lookup", !.token = t, !.since = clock]
  <2>1. to \in Verifies /\ Sound(to)
    BY <1>1 DEF Quiet, Verifies, Sound
  <2>2. QED
    BY <1>1, <1>3, <2>1, VerifyMoves DEF Verify
<1>4. QED
  BY <1>2, <1>3

\* While history grows and time stands still, calls stay sound.
LEMMA RotateInv ==
    ASSUME KeysInv, NEW k \in Kid, Rotate(k)
    PROVE  KeysInv'
<1>1. DomainsInv /\ HistoryInv /\ CacheInv /\ clock \in Nat /\ Timeout \in Nat /\ Ttl \in Nat /\ fetchedAt \in Nat
  BY KeysAssumption DEF KeysInv, DomainsInv, Start, Never
<1>2. /\ lastIn' \in [Kid -> Nat] /\ lastOut' \in [Kid -> Nat] /\ published' \subseteq Kid
      /\ rotations' \in 0..MaxRotations
      /\ UNCHANGED <<clock, keys, fetchedAt, verify, fetchFaults>>
  BY <1>1, KeysAssumption DEF Rotate, DomainsInv
<1>3. \A j \in Kid : lastIn[j] <= lastIn'[j] /\ lastOut[j] <= lastOut'[j]
  BY <1>1 DEF Rotate, DomainsInv, HistoryInv
<1>4. DomainsInv'
  BY <1>1, <1>2 DEF DomainsInv
<1>5. HistoryInv'
  BY <1>1 DEF Rotate, DomainsInv, HistoryInv
<1>6. CacheInv'
  BY <1>1, <1>2, <1>3 DEF CacheInv, DomainsInv
<1>7. ASSUME NEW w \in Verifier
      PROVE  Sound(verify[w])'
  <2>1. Sound(verify[w]) /\ verify[w] \in Verifies /\ verify'[w] = verify[w]
    BY <1>1, <1>2 DEF KeysInv, DomainsInv
  <2>2. verify[w].token \in IdToken => verify[w].token.kid \in Kid
    BY KeysAssumption
  <2>3. QED
    BY <1>1, <1>2, <1>3, <2>1, <2>2 DEF Sound, Verifies, DomainsInv
<1>8. QED
  BY <1>4, <1>5, <1>6, <1>7 DEF KeysInv

\* Time passes only while no call is decided, and every fetch has time left.
LEMMA TickInv ==
    ASSUME KeysInv, Tick
    PROVE  KeysInv'
<1>1. DomainsInv /\ HistoryInv /\ CacheInv /\ clock \in Nat /\ Timeout \in Nat /\ Ttl \in Nat /\ fetchedAt \in Nat
  BY KeysAssumption DEF KeysInv, DomainsInv, Start, Never
<1>2. /\ clock' = clock + 1 /\ clock < Start + MaxClock
      /\ lastIn' = [k \in Kid |-> IF k \in published THEN clock' ELSE lastIn[k]]
      /\ lastOut' = [k \in Kid |-> IF k \in published THEN lastOut[k] ELSE clock']
      /\ UNCHANGED <<published, keys, fetchedAt, verify, rotations, fetchFaults>>
  BY DEF Tick
<1>3. \A j \in Kid : lastIn[j] <= lastIn'[j] /\ lastOut[j] <= lastOut'[j]
  BY <1>1, <1>2 DEF DomainsInv, HistoryInv
<1>4. DomainsInv'
  BY <1>1, <1>2, KeysAssumption DEF DomainsInv, Start, Never
<1>5. HistoryInv'
  BY <1>1, <1>2 DEF DomainsInv, HistoryInv
<1>6. lastIn' \in [Kid -> Nat] /\ lastOut' \in [Kid -> Nat]
  BY <1>4 DEF DomainsInv
<1>7. CacheInv'
  BY <1>1, <1>2, <1>3, <1>6 DEF CacheInv, DomainsInv
<1>8. ASSUME NEW w \in Verifier
      PROVE  Sound(verify[w])'
  <2>1. Sound(verify[w]) /\ verify[w] \in Verifies /\ verify'[w] = verify[w]
    BY <1>1, <1>2 DEF KeysInv, DomainsInv
  <2>2. /\ verify[w].pc \in {"fetch", "install", "again"} => clock - verify[w].since < Timeout
        /\ verify[w].pc \in {"idle", "fetch", "install", "again"}
    BY DEF Tick
  <2>3. QED
    BY <1>1, <1>2, <1>3, <1>6, <2>1, <2>2 DEF Sound, Verifies, DomainsInv
<1>9. QED
  BY <1>4, <1>5, <1>7, <1>8 DEF KeysInv

LEMMA KeysNextInv == KeysInv /\ [KeysNext]_keysVars => KeysInv'
<1> SUFFICES ASSUME KeysInv, [KeysNext]_keysVars PROVE KeysInv'
  OBVIOUS
<1>1. CASE UNCHANGED keysVars
  BY <1>1 DEF keysVars, KeysInv, DomainsInv, HistoryInv, CacheInv, Sound
<1>2. CASE KeysNext
  BY <1>2, LookupInv, FetchInv, InstallInv, LookAgainInv, EdgesInv, RotateInv, TickInv
     DEF KeysNext, VerifyStep
<1>3. QED
  BY <1>1, <1>2

THEOREM KeysInvariantHolds == KeysSpec => []KeysInv
BY KeysInitInv, KeysNextInv, PTL DEF KeysSpec

----------------------------------------------------------------------------
\* A token is accepted on a key Google published within the cache's lifetime and
\* one fetch, and a key in use since one fetch before the call is never unknown,
\* in whatever order the fetches of any number of calls end (google.go: refresh
\* replaces the whole cache).
THEOREM KeysHold == KeysSpec => []KeysSound
<1>1. KeysInv => KeysSound
  <2> SUFFICES ASSUME KeysInv PROVE KeysSound
    OBVIOUS
  <2>1. KeysTypeOK
    BY DEF KeysInv, DomainsInv, HistoryInv, KeysTypeOK, Verifies
  <2>2. ASSUME NEW v \in Verifier, verify[v].pc # "idle"
        PROVE  /\ Sound(verify[v]) /\ verify[v].token.kid \in Kid /\ verify[v].since \in Nat
               /\ clock \in Nat /\ Ttl \in Nat /\ Timeout \in Nat
               /\ lastIn[verify[v].token.kid] \in Nat /\ lastOut[verify[v].token.kid] \in Nat
    BY <2>2, KeysAssumption DEF KeysInv, DomainsInv, Verifies, Sound, Start
  <2>3. AcceptedKeysRecent
    BY <2>2 DEF AcceptedKeysRecent, At, Sound
  <2>4. PublishedKeysKnown
    BY <2>2 DEF PublishedKeysKnown, At, Sound
  <2>5. QED
    BY <2>1, <2>3, <2>4 DEF KeysSound
<1>2. QED
  BY <1>1, KeysInvariantHolds, PTL

(***************************************************************************)
(* Store.                                                                  *)
(***************************************************************************)
\* The columns no builder has a setter for.
Immutable(t) ==
    {"id"} \cup (({"slug", "schema_name", "created_at"} \cap Columns[t])
                    \ (IF t \in {"branches", "roles"} THEN {"slug"} ELSE {}))

TokenKeys == {"token_hash", "user_id", "tenant_id"}

\* Rows of table t, NULL in whatever column.
RowsOf(t) == [Columns[t] -> Value \cup {Null}]

StoreInv ==
    /\ DOMAIN rows = Table /\ rows = [t \in Table |-> rows[t]]
    /\ \A t \in Table : rows[t] \subseteq RowsOf(t)
    /\ \A t \in Table : Accepts(rows, t)
    /\ \A r \in rows["device_tokens"] : NotEmpty(r, TokenKeys)
    /\ load = [of |-> load.of, nodes |-> load.nodes, todo |-> load.todo, edges |-> load.edges]
    /\ load = NoLoad \/ load.of \in Table
    /\ writes \in 0..MaxWrites

LEMMA Tables ==
    /\ Table = {"branches", "device_tokens", "plugin_installs", "plugin_migration_histories",
                "roles", "role_permissions", "tenants", "tenant_users", "users", "user_profiles"}
    /\ \A t \in Table : "id" \in Columns[t] /\ "id" \notin Nullable(t)
    /\ \A t \in Table : {"id"} \in Unique(t)
<1>1. Table = {"branches", "device_tokens", "plugin_installs", "plugin_migration_histories",
               "roles", "role_permissions", "tenants", "tenant_users", "users", "user_profiles"}
  BY DEF Table, Columns
<1>2. \A t \in Table : "id" \in Columns[t]
  BY <1>1 DEF Columns, BranchColumns, DeviceTokenColumns, PluginInstallColumns,
     PluginMigrationHistoryColumns, RoleColumns, RolePermissionColumns, TenantColumns,
     TenantUserColumns, UserColumns, UserProfileColumns
<1>3. \A t \in Table : "id" \notin Nullable(t)
  BY DEF Nullable
<1>4. \A t \in Table : {"id"} \in Unique(t)
  BY DEF Unique
<1>5. QED
  BY <1>1, <1>2, <1>3, <1>4

LEMMA OptionalColumns ==
    ASSUME NEW t \in Table, NEW c \in Columns[t]
    PROVE  c \in Nullable(t) <=> <<t, c>> \in Optional
BY Tables DEF Nullable, Optional

LEMMA TypeFromInv == StoreInv => StoreTypeOK
<1> SUFFICES ASSUME StoreInv PROVE StoreTypeOK
  OBVIOUS
<1>1. ASSUME NEW t \in Table, NEW r \in rows[t]
      PROVE  /\ DOMAIN r = Columns[t]
             /\ \A c \in Columns[t] : r[c] \in Value \/ (r[c] = Null /\ <<t, c>> \in Optional)
  <2>1. r \in RowsOf(t) /\ \A c \in Columns[t] \ Nullable(t) : r[c] # Null
    BY <1>1 DEF StoreInv, Accepts
  <2>2. QED
    BY <2>1, OptionalColumns DEF RowsOf
<1>2. QED
  BY <1>1 DEF StoreInv, StoreTypeOK

LEMMA WholeFromInv == StoreInv => TokensWhole
<1> SUFFICES ASSUME StoreInv PROVE TokensWhole
  OBVIOUS
<1>1. /\ "device_tokens" \in Table /\ "tenant_users" \in Table
      /\ Columns["device_tokens"] = DeviceTokenColumns /\ Columns["tenant_users"] = TenantUserColumns
  BY Tables DEF Columns
<1>2. /\ Accepts(rows, "device_tokens") /\ Accepts(rows, "tenant_users")
      /\ rows["device_tokens"] \subseteq RowsOf("device_tokens")
  BY <1>1 DEF StoreInv
<1>3. ASSUME NEW r \in rows["device_tokens"], NEW c \in TokenKeys
      PROVE  r[c] \in Word
  <2>1. c \in DeviceTokenColumns \ Nullable("device_tokens")
    BY DEF TokenKeys, DeviceTokenColumns, Nullable
  <2>2. r[c] # Null /\ r[c] # Empty /\ r[c] \in Value \cup {Null}
    BY <1>1, <1>2, <2>1 DEF Accepts, StoreInv, NotEmpty, RowsOf
  <2>3. QED
    BY <2>2 DEF Value
<1>4. {"token_hash"} \in Unique("device_tokens") /\ {"user_id", "tenant_id"} \in Unique("tenant_users")
  BY DEF Unique
<1>5. ASSUME NEW r \in rows["device_tokens"], NEW s \in rows["device_tokens"], r["token_hash"] = s["token_hash"]
      PROVE  r = s
  <2>1. r["token_hash"] # Null
    BY <1>3, StoreAssumption DEF TokenKeys
  <2>2. Same(r, s, {"token_hash"})
    BY <1>5, <2>1 DEF Same
  <2>3. QED
    BY <1>2, <1>4, <2>2 DEF Accepts
<1>6. ASSUME NEW r \in rows["tenant_users"], NEW s \in rows["tenant_users"],
             r["user_id"] = s["user_id"], r["tenant_id"] = s["tenant_id"]
      PROVE  r = s
  <2>1. {"user_id", "tenant_id"} \subseteq TenantUserColumns \ Nullable("tenant_users")
    BY DEF TenantUserColumns, Nullable
  <2>2. r["user_id"] # Null /\ r["tenant_id"] # Null
    BY <1>1, <1>2, <2>1 DEF Accepts
  <2>3. Same(r, s, {"user_id", "tenant_id"})
    BY <1>6, <2>2 DEF Same
  <2>4. QED
    BY <1>2, <1>4, <2>3 DEF Accepts
<1>7. QED
  BY <1>3, <1>5, <1>6 DEF TokensWhole, TokenKeys

LEMMA StoreStarts == StoreInit => StoreInv
<1> SUFFICES ASSUME StoreInit PROVE StoreInv
  OBVIOUS
<1>1. \A t \in Table : rows[t] = {Row(t, First)}
  BY DEF StoreInit
<1>2. \A t \in Table : Row(t, First) \in RowsOf(t) /\ \A c \in Columns[t] : Row(t, First)[c] = First
  BY StoreAssumption DEF Row, RowsOf, Value
<1>3. ASSUME NEW t \in Table PROVE Accepts(rows, t)
  <2>1. ASSUME NEW fk \in ForeignKeys, NEW r \in rows[fk.of]
        PROVE  \E p \in rows[fk.to] : p["id"] = r[fk.column]
    <3>1. fk.of \in Table /\ fk.to \in Table /\ fk.column \in Columns[fk.of]
      BY Tables DEF ForeignKeys, Columns, BranchColumns, PluginInstallColumns, RolePermissionColumns, TenantUserColumns
    <3>2. r[fk.column] = First /\ Row(fk.to, First)["id"] = First
      BY <1>1, <1>2, <3>1, <2>1, Tables
    <3>3. QED
      BY <1>1, <3>1, <3>2
  <2>2. \A r \in rows[t], c \in Columns[t] : r[c] # Null
    BY <1>1, <1>2, StoreAssumption
  <2>3. \A r, s \in rows[t] : r = s
    BY <1>1
  <2>4. QED
    BY <2>1, <2>2, <2>3 DEF Accepts
<1>4. \A r \in rows["device_tokens"] : NotEmpty(r, TokenKeys)
  <2>1. "device_tokens" \in Table /\ TokenKeys \subseteq Columns["device_tokens"]
    BY Tables DEF Columns, DeviceTokenColumns, TokenKeys
  <2>2. QED
    BY <1>1, <1>2, <2>1, StoreAssumption DEF NotEmpty
<1>5. QED
  BY <1>1, <1>2, <1>3, <1>4, StoreAssumption DEF StoreInit, StoreInv, NoLoad

----------------------------------------------------------------------------
\* Statements that write.

LEMMA SendKeeps ==
    ASSUME StoreInv, NEW t \in Table, NEW new \in SUBSET RowsOf(t), Send(t, new),
           t = "device_tokens" => \A r \in new : NotEmpty(r, TokenKeys)
    PROVE  StoreInv'
<1>1. /\ rows' = [rows EXCEPT ![t] = new] /\ Accepts(rows', t) /\ load' = load
      /\ writes < MaxWrites /\ writes' = writes + 1
  BY DEF Send
<1>2. rows'[t] = new /\ \A u \in Table \ {t} : rows'[u] = rows[u]
  BY <1>1 DEF StoreInv
<1>3. DOMAIN rows' = Table /\ rows' = [u \in Table |-> rows'[u]]
  BY <1>1 DEF StoreInv
<1>4. \A u \in Table : rows'[u] \subseteq RowsOf(u)
  BY <1>2 DEF StoreInv
<1>5. ASSUME NEW u \in Table \ {t} PROVE Accepts(rows', u)
  <2>1. Accepts(rows, u) /\ rows'[u] = rows[u]
    BY <1>2 DEF StoreInv
  <2>2. ASSUME NEW fk \in ForeignKeys, u \in {fk.of, fk.to}, NEW r \in rows'[fk.of]
        PROVE  r[fk.column] = Null \/ \E p \in rows'[fk.to] : p["id"] = r[fk.column]
    <3>1. CASE t \in {fk.of, fk.to}
      BY <1>1, <2>2, <3>1 DEF Accepts
    <3>2. CASE t \notin {fk.of, fk.to}
      <4>1. fk.of \in Table /\ fk.to \in Table
        BY Tables DEF ForeignKeys
      <4>2. rows'[fk.of] = rows[fk.of] /\ rows'[fk.to] = rows[fk.to]
        BY <1>2, <3>2, <4>1
      <4>3. QED
        BY <2>1, <2>2, <4>2 DEF Accepts
    <3>3. QED
      BY <3>1, <3>2
  <2>3. QED
    BY <2>1, <2>2 DEF Accepts
<1>6. \A r \in rows'["device_tokens"] : NotEmpty(r, TokenKeys)
  BY <1>2, Tables DEF StoreInv
<1>7. writes' \in 0..MaxWrites
  BY <1>1, StoreAssumption DEF StoreInv
<1>8. \A u \in Table : Accepts(rows', u)
  BY <1>1, <1>5
<1>9. QED
  BY <1>1, <1>3, <1>4, <1>6, <1>7, <1>8 DEF StoreInv, Accepts, Same

\* Rows are told apart by their ids.
LEMMA IdThere ==
    ASSUME StoreInv, NEW t \in Table, NEW r \in rows[t]
    PROVE  Accepts(rows, t) /\ {"id"} \in Unique(t) /\ r["id"] # Null
<1>1. Accepts(rows, t)
  BY DEF StoreInv
<1>2. "id" \in Columns[t] \ Nullable(t) /\ {"id"} \in Unique(t)
  BY Tables
<1>3. \A q \in rows[t], c \in Columns[t] \ Nullable(t) : q[c] # Null
  BY <1>1 DEF Accepts
<1>4. QED
  BY <1>1, <1>2, <1>3

LEMMA SameId ==
    ASSUME StoreInv, NEW t \in Table, NEW r \in rows[t], NEW s \in rows[t], r["id"] = s["id"]
    PROVE  r = s
<1>1. Same(r, s, {"id"})
  BY IdThere DEF Same
<1>2. \A q, u \in rows[t], key \in Unique(t) : Same(q, u, key) => q = u
  BY IdThere DEF Accepts
<1>3. QED
  BY <1>1, <1>2, Tables

\* The immutable columns of a row that keeps its id are as they were.
Unmoved(t, new) ==
    \A r \in rows[t], s \in new : r["id"] = s["id"] => \A c \in Immutable(t) : r[c] = s[c]

LEMMA UnmovedKept ==
    ASSUME StoreInv, NEW t \in Table, NEW new, Send(t, new), Unmoved(t, new)
    PROVE  ImmutableKept
<1>1. rows' = [rows EXCEPT ![t] = new]
  BY DEF Send
<1>2. rows'[t] = new /\ \A u \in Table \ {t} : rows'[u] = rows[u]
  BY <1>1 DEF StoreInv
<1>3. ASSUME NEW u \in Table, NEW r \in rows[u], NEW s \in rows'[u], r["id"] = s["id"],
             NEW c \in {"slug", "schema_name", "created_at"} \cap Columns[u]
      PROVE  r[c] = s[c] \/ (u \in {"branches", "roles"} /\ c = "slug")
  <2>1. CASE u = t
    BY <1>2, <1>3, <2>1 DEF Unmoved, Immutable
  <2>2. CASE u # t
    BY <1>2, <1>3, <2>2, SameId
  <2>3. QED
    BY <2>1, <2>2
<1>4. QED
  BY <1>3 DEF ImmutableKept

\* A statement that writes is sound.
Written == StoreInv' /\ ImmutableKept /\ load' = load

LEMMA SendSound ==
    ASSUME StoreInv, NEW t \in Table, NEW new \in SUBSET RowsOf(t), Send(t, new), Unmoved(t, new),
           t = "device_tokens" => \A r \in new : NotEmpty(r, TokenKeys)
    PROVE  Written
BY SendKeeps, UnmovedKept DEF Written, Send

LEMMA CreateSound ==
    ASSUME StoreInv, NEW t \in Table, NEW defaults, NEW required, NEW notEmpty,
           Create(t, defaults, required, notEmpty),
           \A c \in DOMAIN defaults : defaults[c] \in Value,
           t = "device_tokens" => TokenKeys \subseteq notEmpty
    PROVE  Written
<1>1. PICK w \in Word, d \in Columns[t], v \in Value \cup {Null} :
        LET row == [c \in Columns[t] |->
                       IF c # d THEN w
                       ELSE IF v # Null THEN v
                       ELSE IF c \in DOMAIN defaults THEN defaults[c] ELSE Null]
        IN  /\ NotEmpty(row, notEmpty)
            /\ \A r \in rows[t] : r["id"] # row["id"]
            /\ Send(t, rows[t] \cup {row})
  BY DEF Create
<1> DEFINE row == [c \in Columns[t] |->
                       IF c # d THEN w
                       ELSE IF v # Null THEN v
                       ELSE IF c \in DOMAIN defaults THEN defaults[c] ELSE Null]
           new == rows[t] \cup {row}
<1>2. row \in RowsOf(t)
  BY DEF RowsOf, Value
<1>3. NotEmpty(row, notEmpty) /\ (\A r \in rows[t] : r["id"] # row["id"]) /\ Send(t, new)
  BY <1>1
<1> HIDE DEF row
<1>4. new \in SUBSET RowsOf(t)
  BY <1>2 DEF StoreInv
<1>5. Unmoved(t, new)
  BY <1>3, SameId DEF Unmoved
<1>6. t = "device_tokens" => \A r \in new : NotEmpty(r, TokenKeys)
  BY <1>3 DEF StoreInv, NotEmpty
<1>7. QED
  BY <1>3, <1>4, <1>5, <1>6, SendSound

LEMMA ChangeSound ==
    ASSUME StoreInv, NEW t \in Table, NEW hit \in SUBSET rows[t], NEW m, NEW notEmpty,
           Change(t, hit, m, notEmpty), m.set \subseteq Columns[t] \ Immutable(t),
           t = "device_tokens" => TokenKeys \subseteq notEmpty
    PROVE  Written
<1>1. PICK c \in m.set, v \in Value \cup {Null} :
         /\ v = Empty => c \notin notEmpty
         /\ Send(t, (rows[t] \ hit) \cup {[r EXCEPT ![c] = v] : r \in hit})
  BY DEF Change
<1> DEFINE new == (rows[t] \ hit) \cup {[r EXCEPT ![c] = v] : r \in hit}
<1>2. rows[t] \subseteq RowsOf(t) /\ c \in Columns[t] \ Immutable(t) /\ c # "id"
  BY DEF StoreInv, Immutable
<1>3. new \in SUBSET RowsOf(t)
  BY <1>2 DEF RowsOf
<1>4. Unmoved(t, new)
  <2> SUFFICES ASSUME NEW r \in rows[t], NEW s \in new, r["id"] = s["id"], NEW d \in Immutable(t)
               PROVE  r[d] = s[d]
    BY DEF Unmoved
  <2>1. CASE s \in rows[t]
    BY <2>1, SameId
  <2>2. CASE s \notin rows[t]
    <3>1. PICK q \in hit : s = [q EXCEPT ![c] = v]
      BY <2>2
    <3>2. s["id"] = q["id"] /\ s[d] = q[d]
      BY <1>2, <3>1 DEF RowsOf
    <3>3. r = q
      BY <3>2, SameId
    <3>4. QED
      BY <3>2, <3>3
  <2>3. QED
    BY <2>1, <2>2
<1>5. ASSUME t = "device_tokens", NEW s \in new PROVE NotEmpty(s, TokenKeys)
  <2>1. CASE s \in rows[t]
    BY <1>5, <2>1 DEF StoreInv
  <2>2. CASE s \notin rows[t]
    <3>1. PICK q \in hit : s = [q EXCEPT ![c] = v]
      BY <2>2
    <3>2. NotEmpty(q, TokenKeys) /\ (v = Empty => c \notin TokenKeys) /\ q \in RowsOf(t)
      BY <1>1, <1>2, <1>5 DEF StoreInv
    <3>3. QED
      BY <1>2, <3>1, <3>2 DEF NotEmpty, RowsOf
  <2>3. QED
    BY <2>1, <2>2
<1>6. QED
  BY <1>1, <1>3, <1>4, <1>5, SendSound

LEMMA UpdateSound ==
    ASSUME StoreInv, NEW t \in Table, NEW m, NEW notEmpty,
           Update(t, m, notEmpty) \/ UpdateOne(t, m, notEmpty),
           m.set \subseteq Columns[t] \ Immutable(t),
           t = "device_tokens" => TokenKeys \subseteq notEmpty
    PROVE  Written
<1>1. \E hit \in SUBSET rows[t] : Change(t, hit, m, notEmpty)
  BY DEF Update, UpdateOne
<1>2. QED
  BY <1>1, ChangeSound

LEMMA DeleteSound ==
    ASSUME StoreInv, NEW t \in Table, Delete(t)
    PROVE  Written
<1>1. PICK hit \in SUBSET rows[t] : Send(t, rows[t] \ hit)
  BY DEF Delete
<1> DEFINE new == rows[t] \ hit
<1>2. new \in SUBSET RowsOf(t) /\ (t = "device_tokens" => \A r \in new : NotEmpty(r, TokenKeys))
  BY DEF StoreInv
<1>3. Unmoved(t, new)
  BY SameId DEF Unmoved
<1>4. QED
  BY <1>1, <1>2, <1>3, SendSound
----------------------------------------------------------------------------
\* What every step keeps, and shows of itself.
SoundStep == StoreInv' /\ SoundStatement

LEMMA WrittenSound == Written => SoundStep
<1>1. StoreInv' => StoreTypeOK' /\ TokensWhole'
  BY TypeFromInv, WholeFromInv, PTL
<1>2. QED
  BY <1>1 DEF Written, SoundStep, SoundStatement, ParentsLoaded

\* Queries: the tables are as they were.
Read == rows' = rows /\ writes' = writes

LEMMA ReadKeeps ==
    ASSUME StoreInv, Read, load' = NoLoad \/ load'.of \in Table,
           load' = [of |-> load'.of, nodes |-> load'.nodes, todo |-> load'.todo, edges |-> load'.edges]
    PROVE  StoreInv'
BY DEF StoreInv, Read, Accepts, Same, NotEmpty

LEMMA SelectSound ==
    ASSUME StoreInv, NEW t \in Table, NEW names, Select(t, names)
    PROVE  SoundStep
<1>1. load.todo = <<>> /\ Read
  BY DEF Select, NoLoad, Read
<1>2. /\ load'.of \in Table
      /\ load' = [of |-> load'.of, nodes |-> load'.nodes, todo |-> load'.todo, edges |-> load'.edges]
  <2>1. PICK wanted \in SUBSET {names[i] : i \in DOMAIN names} \ {{}} :
          load' = [of |-> t, nodes |-> rows[t],
                   todo |-> SelectSeq(names, LAMBDA e : e \in wanted), edges |-> {}]
    BY DEF Select
  <2>2. QED
    BY <2>1
<1>3. QED
  BY <1>1, <1>2, ReadKeeps DEF SoundStep, SoundStatement, ParentsLoaded, Read

LEMMA LoadedKeeps ==
    ASSUME StoreInv, NEW t \in Table, NEW e, NEW pairs, Loaded(t, e, pairs)
    PROVE  /\ StoreInv' /\ Read /\ load.of = t /\ Head(load.todo) = e
           /\ \A q \in pairs : <<e, q[1], q[2]>> \in load'.edges
<1>1. /\ Read /\ load.of = t /\ Head(load.todo) = e
      /\ load' = [load EXCEPT !.todo = Tail(@), !.edges = @ \cup {<<e, q[1], q[2]>> : q \in pairs}]
  BY DEF Loaded, Read
<1> DEFINE more == {<<e, q[1], q[2]>> : q \in pairs}
<1>2. load' = [of |-> load.of, nodes |-> load.nodes, todo |-> Tail(load.todo),
               edges |-> load.edges \cup more]
  <2> HIDE DEF more
  <2>1. load' = [load EXCEPT !.todo = Tail(@), !.edges = @ \cup more]
    BY <1>1 DEF more
  <2>2. load = [of |-> load.of, nodes |-> load.nodes, todo |-> load.todo, edges |-> load.edges]
    BY DEF StoreInv
  <2>3. QED
    BY <2>1, <2>2
<1>3. StoreInv'
  <2> HIDE DEF more
  <2>1. QED
    BY <1>1, <1>2, ReadKeeps
<1>4. \A q \in pairs : <<e, q[1], q[2]>> \in more
  OBVIOUS
<1>5. load'.edges = load.edges \cup more
  <2> HIDE DEF more
  <2>1. QED
    BY <1>2
<1>6. QED
  BY <1>1, <1>3, <1>4, <1>5

\* A row that still is what was read names a parent that is there.
LEMMA LoadParentSound ==
    ASSUME StoreInv, NEW t \in Table, NEW e, NEW column, NEW parents \in Table,
           LoadParent(t, e, column, parents), column \in Columns[t] \ Nullable(t),
           [of |-> t, column |-> column, to |-> parents] \in ForeignKeys
    PROVE  SoundStep
<1> DEFINE pairs == {q \in load.nodes \X rows[parents] : q[1][column] = q[2]["id"]}
<1>1. Loaded(t, e, pairs)
  BY DEF LoadParent
<1>2. /\ StoreInv' /\ Read /\ load.of = t /\ Head(load.todo) = e
      /\ \A q \in pairs : <<e, q[1], q[2]>> \in load'.edges
  <2> HIDE DEF pairs
  <2>1. QED
    BY <1>1, LoadedKeeps
<1>3. ASSUME NEW n \in load.nodes \cap rows[t]
      PROVE  \E p \in load'.edges : p[1] = e /\ p[2] = n
  <2>1. Accepts(rows, t)
    BY DEF StoreInv
  <2>2. n[column] # Null
    BY <2>1 DEF Accepts
  <2>3. PICK parent \in rows[parents] : parent["id"] = n[column]
    BY <2>1, <2>2 DEF Accepts
  <2>4. <<n, parent>> \in pairs
    BY <2>3
  <2>5. <<e, n, parent>> \in load'.edges
    <3> HIDE DEF pairs
    <3>1. QED
      BY <1>2, <2>4
  <2>6. QED
    BY <2>5
<1>4. QED
  BY <1>2, <1>3 DEF SoundStep, SoundStatement, ParentsLoaded, Read

LEMMA LoadChildrenSound ==
    ASSUME StoreInv, NEW t \in Table, NEW e, NEW children, NEW column,
           LoadChildren(t, e, children, column), e \notin {"tenant", "user", "role"}
    PROVE  SoundStep
<1> DEFINE pairs == {q \in load.nodes \X rows[children] : q[2][column] = q[1]["id"]}
<1>1. Loaded(t, e, pairs)
  BY DEF LoadChildren
<1>2. StoreInv' /\ Read /\ Head(load.todo) = e
  <2> HIDE DEF pairs
  <2>1. QED
    BY <1>1, LoadedKeeps
<1>3. QED
  BY <1>2 DEF SoundStep, SoundStatement, ParentsLoaded, Read
----------------------------------------------------------------------------
\* The clients, one for each table.

LEMMA BranchSound == ASSUME StoreInv, BranchClient PROVE SoundStep
<1> DEFINE t == "branches"
           m == Without(BranchMutation, {"id", "created_at"})
<1>1. t \in Table /\ Columns[t] = BranchColumns
  BY Tables DEF Columns
<1>2. m.set \subseteq Columns[t] \ Immutable(t)
  BY <1>1 DEF Without, BranchMutation, BranchColumns, Immutable
<1>3. CASE BranchCreate
  BY <1>1, <1>3, CreateSound, WrittenSound, StoreAssumption DEF BranchCreate, Value, TokenKeys
<1>4. CASE BranchUpdate \/ BranchUpdateOne
  BY <1>1, <1>2, <1>4, UpdateSound, WrittenSound DEF BranchUpdate, BranchUpdateOne, TokenKeys
<1>5. CASE BranchDelete
  BY <1>1, <1>5, DeleteSound, WrittenSound DEF BranchDelete
<1>6. CASE BranchQuery
  <2>1. CASE Select("branches", <<"tenant">>)
    BY <1>1, <2>1, SelectSound
  <2>2. CASE LoadParent("branches", "tenant", "tenant_id", "tenants")
    <3>1. "tenants" \in Table /\ "tenant_id" \in Columns[t] \ Nullable(t)
      BY <1>1, Tables DEF BranchColumns, Nullable
    <3>2. [of |-> t, column |-> "tenant_id", to |-> "tenants"] \in ForeignKeys
      BY DEF ForeignKeys
    <3>3. QED
      BY <1>1, <2>2, <3>1, <3>2, LoadParentSound
  <2>3. QED
    BY <1>6, <2>1, <2>2 DEF BranchQuery
<1>7. QED
  BY <1>3, <1>4, <1>5, <1>6 DEF BranchClient

LEMMA DeviceTokenSound == ASSUME StoreInv, DeviceTokenClient PROVE SoundStep
<1> DEFINE t == "device_tokens"
           m == Without(DeviceTokenMutation, {"id", "created_at"})
<1>1. t \in Table /\ Columns[t] = DeviceTokenColumns
  BY Tables DEF Columns
<1>2. m.set \subseteq Columns[t] \ Immutable(t)
  BY <1>1 DEF Without, DeviceTokenMutation, DeviceTokenColumns, Immutable
<1>3. CASE DeviceTokenCreate
  BY <1>1, <1>3, CreateSound, WrittenSound, StoreAssumption DEF DeviceTokenCreate, Value, TokenKeys
<1>4. CASE DeviceTokenUpdate \/ DeviceTokenUpdateOne
  BY <1>1, <1>2, <1>4, UpdateSound, WrittenSound DEF DeviceTokenUpdate, DeviceTokenUpdateOne, TokenKeys
<1>5. CASE DeviceTokenDelete
  BY <1>1, <1>5, DeleteSound, WrittenSound DEF DeviceTokenDelete
<1>6. QED
  BY <1>3, <1>4, <1>5 DEF DeviceTokenClient

LEMMA PluginInstallSound == ASSUME StoreInv, PluginInstallClient PROVE SoundStep
<1> DEFINE t == "plugin_installs"
           m == Without(PluginInstallMutation, {"id"})
<1>1. t \in Table /\ Columns[t] = PluginInstallColumns
  BY Tables DEF Columns
<1>2. m.set \subseteq Columns[t] \ Immutable(t)
  BY <1>1 DEF Without, PluginInstallMutation, PluginInstallColumns, Immutable
<1>3. CASE PluginInstallCreate
  BY <1>1, <1>3, CreateSound, WrittenSound, StoreAssumption DEF PluginInstallCreate, Value, TokenKeys
<1>4. CASE PluginInstallUpdate \/ PluginInstallUpdateOne
  BY <1>1, <1>2, <1>4, UpdateSound, WrittenSound DEF PluginInstallUpdate, PluginInstallUpdateOne, TokenKeys
<1>5. CASE PluginInstallDelete
  BY <1>1, <1>5, DeleteSound, WrittenSound DEF PluginInstallDelete
<1>6. CASE PluginInstallQuery
  <2>1. CASE Select("plugin_installs", <<"tenant">>)
    BY <1>1, <2>1, SelectSound
  <2>2. CASE LoadParent("plugin_installs", "tenant", "tenant_id", "tenants")
    <3>1. "tenants" \in Table /\ "tenant_id" \in Columns[t] \ Nullable(t)
      BY <1>1, Tables DEF PluginInstallColumns, Nullable
    <3>2. [of |-> t, column |-> "tenant_id", to |-> "tenants"] \in ForeignKeys
      BY DEF ForeignKeys
    <3>3. QED
      BY <1>1, <2>2, <3>1, <3>2, LoadParentSound
  <2>3. QED
    BY <1>6, <2>1, <2>2 DEF PluginInstallQuery
<1>7. QED
  BY <1>3, <1>4, <1>5, <1>6 DEF PluginInstallClient

LEMMA PluginMigrationHistorySound == ASSUME StoreInv, PluginMigrationHistoryClient PROVE SoundStep
<1> DEFINE t == "plugin_migration_histories"
           m == Without(PluginMigrationHistoryMutation, {"id"})
<1>1. t \in Table /\ Columns[t] = PluginMigrationHistoryColumns
  BY Tables DEF Columns
<1>2. m.set \subseteq Columns[t] \ Immutable(t)
  BY <1>1 DEF Without, PluginMigrationHistoryMutation, PluginMigrationHistoryColumns, Immutable
<1>3. CASE PluginMigrationHistoryCreate
  BY <1>1, <1>3, CreateSound, WrittenSound, StoreAssumption DEF PluginMigrationHistoryCreate, Value, TokenKeys
<1>4. CASE PluginMigrationHistoryUpdate \/ PluginMigrationHistoryUpdateOne
  BY <1>1, <1>2, <1>4, UpdateSound, WrittenSound DEF PluginMigrationHistoryUpdate, PluginMigrationHistoryUpdateOne, TokenKeys
<1>5. CASE PluginMigrationHistoryDelete
  BY <1>1, <1>5, DeleteSound, WrittenSound DEF PluginMigrationHistoryDelete
<1>6. QED
  BY <1>3, <1>4, <1>5 DEF PluginMigrationHistoryClient

LEMMA RoleSound == ASSUME StoreInv, RoleClient PROVE SoundStep
<1> DEFINE t == "roles"
           m == Without(RoleMutation, {"id", "created_at"})
<1>1. t \in Table /\ Columns[t] = RoleColumns
  BY Tables DEF Columns
<1>2. m.set \subseteq Columns[t] \ Immutable(t)
  BY <1>1 DEF Without, RoleMutation, RoleColumns, Immutable
<1>3. CASE RoleCreate
  BY <1>1, <1>3, CreateSound, WrittenSound, StoreAssumption DEF RoleCreate, Value, TokenKeys
<1>4. CASE RoleUpdate \/ RoleUpdateOne
  BY <1>1, <1>2, <1>4, UpdateSound, WrittenSound DEF RoleUpdate, RoleUpdateOne, TokenKeys
<1>5. CASE RoleDelete
  BY <1>1, <1>5, DeleteSound, WrittenSound DEF RoleDelete
<1>6. CASE RoleQuery
  <2>1. CASE Select("roles", <<"permissions">>)
    BY <1>1, <2>1, SelectSound
  <2>2. CASE LoadChildren("roles", "permissions", "role_permissions", "role_id")
    BY <1>1, <2>2, LoadChildrenSound
  <2>3. QED
    BY <1>6, <2>1, <2>2 DEF RoleQuery
<1>7. QED
  BY <1>3, <1>4, <1>5, <1>6 DEF RoleClient

LEMMA RolePermissionSound == ASSUME StoreInv, RolePermissionClient PROVE SoundStep
<1> DEFINE t == "role_permissions"
           m == Without(RolePermissionMutation, {"id"})
<1>1. t \in Table /\ Columns[t] = RolePermissionColumns
  BY Tables DEF Columns
<1>2. m.set \subseteq Columns[t] \ Immutable(t)
  BY <1>1 DEF Without, RolePermissionMutation, RolePermissionColumns, Immutable
<1>3. CASE RolePermissionCreate
  BY <1>1, <1>3, CreateSound, WrittenSound, StoreAssumption DEF RolePermissionCreate, Value, TokenKeys
<1>4. CASE RolePermissionUpdate \/ RolePermissionUpdateOne
  BY <1>1, <1>2, <1>4, UpdateSound, WrittenSound DEF RolePermissionUpdate, RolePermissionUpdateOne, TokenKeys
<1>5. CASE RolePermissionDelete
  BY <1>1, <1>5, DeleteSound, WrittenSound DEF RolePermissionDelete
<1>6. CASE RolePermissionQuery
  <2>1. CASE Select("role_permissions", <<"role">>)
    BY <1>1, <2>1, SelectSound
  <2>2. CASE LoadParent("role_permissions", "role", "role_id", "roles")
    <3>1. "roles" \in Table /\ "role_id" \in Columns[t] \ Nullable(t)
      BY <1>1, Tables DEF RolePermissionColumns, Nullable
    <3>2. [of |-> t, column |-> "role_id", to |-> "roles"] \in ForeignKeys
      BY DEF ForeignKeys
    <3>3. QED
      BY <1>1, <2>2, <3>1, <3>2, LoadParentSound
  <2>3. QED
    BY <1>6, <2>1, <2>2 DEF RolePermissionQuery
<1>7. QED
  BY <1>3, <1>4, <1>5, <1>6 DEF RolePermissionClient

LEMMA TenantSound == ASSUME StoreInv, TenantClient PROVE SoundStep
<1> DEFINE t == "tenants"
           m == Without(TenantMutation, {"id", "slug", "schema_name"})
<1>1. t \in Table /\ Columns[t] = TenantColumns
  BY Tables DEF Columns
<1>2. m.set \subseteq Columns[t] \ Immutable(t)
  BY <1>1 DEF Without, TenantMutation, TenantColumns, Immutable
<1>3. CASE TenantCreate
  BY <1>1, <1>3, CreateSound, WrittenSound, StoreAssumption DEF TenantCreate, Value, TokenKeys
<1>4. CASE TenantUpdate \/ TenantUpdateOne
  BY <1>1, <1>2, <1>4, UpdateSound, WrittenSound DEF TenantUpdate, TenantUpdateOne, TokenKeys
<1>5. CASE TenantDelete
  BY <1>1, <1>5, DeleteSound, WrittenSound DEF TenantDelete
<1>6. CASE TenantQuery
  <2>1. CASE Select("tenants", <<"tenant_users", "plugin_installs", "branches">>)
    BY <1>1, <2>1, SelectSound
  <2>2. CASE LoadChildren("tenants", "tenant_users", "tenant_users", "tenant_id")
    BY <1>1, <2>2, LoadChildrenSound
  <2>3. CASE LoadChildren("tenants", "plugin_installs", "plugin_installs", "tenant_id")
    BY <1>1, <2>3, LoadChildrenSound
  <2>4. CASE LoadChildren("tenants", "branches", "branches", "tenant_id")
    BY <1>1, <2>4, LoadChildrenSound
  <2>5. QED
    BY <1>6, <2>1, <2>2, <2>3, <2>4 DEF TenantQuery
<1>7. QED
  BY <1>3, <1>4, <1>5, <1>6 DEF TenantClient

LEMMA TenantUserSound == ASSUME StoreInv, TenantUserClient PROVE SoundStep
<1> DEFINE t == "tenant_users"
           m == Without(TenantUserMutation, {"id", "created_at"})
<1>1. t \in Table /\ Columns[t] = TenantUserColumns
  BY Tables DEF Columns
<1>2. m.set \subseteq Columns[t] \ Immutable(t)
  BY <1>1 DEF Without, TenantUserMutation, TenantUserColumns, Immutable
<1>3. CASE TenantUserCreate
  BY <1>1, <1>3, CreateSound, WrittenSound, StoreAssumption DEF TenantUserCreate, Value, TokenKeys
<1>4. CASE TenantUserUpdate \/ TenantUserUpdateOne
  BY <1>1, <1>2, <1>4, UpdateSound, WrittenSound DEF TenantUserUpdate, TenantUserUpdateOne, TokenKeys
<1>5. CASE TenantUserDelete
  BY <1>1, <1>5, DeleteSound, WrittenSound DEF TenantUserDelete
<1>6. CASE TenantUserQuery
  <2>1. CASE Select("tenant_users", <<"user", "tenant">>)
    BY <1>1, <2>1, SelectSound
  <2>2. CASE LoadParent("tenant_users", "user", "user_id", "users")
    <3>1. "users" \in Table /\ "user_id" \in Columns[t] \ Nullable(t)
      BY <1>1, Tables DEF TenantUserColumns, Nullable
    <3>2. [of |-> t, column |-> "user_id", to |-> "users"] \in ForeignKeys
      BY DEF ForeignKeys
    <3>3. QED
      BY <1>1, <2>2, <3>1, <3>2, LoadParentSound
  <2>3. CASE LoadParent("tenant_users", "tenant", "tenant_id", "tenants")
    <3>1. "tenants" \in Table /\ "tenant_id" \in Columns[t] \ Nullable(t)
      BY <1>1, Tables DEF TenantUserColumns, Nullable
    <3>2. [of |-> t, column |-> "tenant_id", to |-> "tenants"] \in ForeignKeys
      BY DEF ForeignKeys
    <3>3. QED
      BY <1>1, <2>3, <3>1, <3>2, LoadParentSound
  <2>4. QED
    BY <1>6, <2>1, <2>2, <2>3 DEF TenantUserQuery
<1>7. QED
  BY <1>3, <1>4, <1>5, <1>6 DEF TenantUserClient

LEMMA UserSound == ASSUME StoreInv, UserClient PROVE SoundStep
<1> DEFINE t == "users"
           m == Without(UserMutation, {"id", "created_at"})
<1>1. t \in Table /\ Columns[t] = UserColumns
  BY Tables DEF Columns
<1>2. m.set \subseteq Columns[t] \ Immutable(t)
  BY <1>1 DEF Without, UserMutation, UserColumns, Immutable
<1>3. CASE UserCreate
  BY <1>1, <1>3, CreateSound, WrittenSound, StoreAssumption DEF UserCreate, Value, TokenKeys
<1>4. CASE UserUpdate \/ UserUpdateOne
  BY <1>1, <1>2, <1>4, UpdateSound, WrittenSound DEF UserUpdate, UserUpdateOne, TokenKeys
<1>5. CASE UserDelete
  BY <1>1, <1>5, DeleteSound, WrittenSound DEF UserDelete
<1>6. CASE UserQuery
  <2>1. CASE Select("users", <<"tenant_users">>)
    BY <1>1, <2>1, SelectSound
  <2>2. CASE LoadChildren("users", "tenant_users", "tenant_users", "user_id")
    BY <1>1, <2>2, LoadChildrenSound
  <2>3. QED
    BY <1>6, <2>1, <2>2 DEF UserQuery
<1>7. QED
  BY <1>3, <1>4, <1>5, <1>6 DEF UserClient

LEMMA UserProfileSound == ASSUME StoreInv, UserProfileClient PROVE SoundStep
<1> DEFINE t == "user_profiles"
           m == Without(UserProfileMutation, {"id", "created_at"})
<1>1. t \in Table /\ Columns[t] = UserProfileColumns
  BY Tables DEF Columns
<1>2. m.set \subseteq Columns[t] \ Immutable(t)
  BY <1>1 DEF Without, UserProfileMutation, UserProfileColumns, Immutable
<1>3. CASE UserProfileCreate
  BY <1>1, <1>3, CreateSound, WrittenSound, StoreAssumption DEF UserProfileCreate, Value, TokenKeys
<1>4. CASE UserProfileUpdate \/ UserProfileUpdateOne
  BY <1>1, <1>2, <1>4, UpdateSound, WrittenSound DEF UserProfileUpdate, UserProfileUpdateOne, TokenKeys
<1>5. CASE UserProfileDelete
  BY <1>1, <1>5, DeleteSound, WrittenSound DEF UserProfileDelete
<1>6. QED
  BY <1>3, <1>4, <1>5 DEF UserProfileClient

----------------------------------------------------------------------------
LEMMA StoreStep == StoreInv /\ [StoreNext]_storeVars => StoreInv' /\ [SoundStatement]_storeVars
<1> SUFFICES ASSUME StoreInv, [StoreNext]_storeVars
             PROVE  StoreInv' /\ [SoundStatement]_storeVars
  OBVIOUS
<1>1. CASE Used
  <2>1. Read /\ load' = NoLoad /\ load.todo = <<>>
    BY <1>1 DEF Used, Read
  <2>2. StoreInv'
    BY <2>1, ReadKeeps DEF NoLoad
  <2>3. QED
    BY <2>1, <2>2 DEF SoundStatement, ParentsLoaded, Read
<1>2. CASE StoreNext /\ ~Used
  BY <1>2, BranchSound, DeviceTokenSound, PluginInstallSound, PluginMigrationHistorySound, RoleSound,
     RolePermissionSound, TenantSound, TenantUserSound, UserSound, UserProfileSound
     DEF StoreNext, SoundStep
<1>3. CASE UNCHANGED storeVars
  BY <1>3 DEF storeVars, StoreInv, Accepts, Same, NotEmpty
<1>4. QED
  BY <1>1, <1>2, <1>3

LEMMA StoreInvHolds == StoreSpec => []StoreInv
<1>1. StoreInit => StoreInv
  BY StoreStarts
<1>2. StoreInv /\ [StoreNext]_storeVars => StoreInv'
  BY StoreStep
<1>3. QED
  BY <1>1, <1>2, PTL DEF StoreSpec

(***************************************************************************)
(* Every row has its columns and NULL only where the schema allows it, and *)
(* a device token always has a hash, a user and a tenant, no two the same  *)
(* hash: whatever statements the generated client sends, in any order.     *)
(***************************************************************************)
THEOREM StoreTypeHolds == StoreSpec => [](StoreTypeOK /\ TokensWhole)
<1>1. StoreInv => StoreTypeOK /\ TokensWhole
  BY TypeFromInv, WholeFromInv
<1>2. QED
  BY <1>1, StoreInvHolds, PTL

(***************************************************************************)
(* No statement of the generated client leaves a row short of its schema,  *)
(* changes a slug, a schema name or the time a row was made, or loads an   *)
(* edge without the parent a row that is still there names (the edges of   *)
(* TenantUserQuery, BranchQuery, PluginInstallQuery, RolePermissionQuery). *)
(***************************************************************************)
THEOREM StatementsHold == StoreSpec => StatementsSound
<1>1. StoreInv /\ [StoreNext]_storeVars => [SoundStatement]_storeVars
  BY StoreStep
<1>2. QED
  BY <1>1, StoreInvHolds, PTL DEF StoreSpec, StatementsSound

(***************************************************************************)
(* Slugs.                                                                  *)
(***************************************************************************)
\* How many numbers of S are not above i.
Rank(S, i) == Cardinality({j \in S : j <= i})

LEMMA RankRises ==
    ASSUME NEW S \in SUBSET Nat, IsFiniteSet(S), NEW i \in S
    PROVE  /\ Rank(S, i) \in 1..Cardinality(S)
           /\ \A j \in S : j < i => Rank(S, j) < Rank(S, i)
<1> DEFINE Upto(j) == {l \in S : l <= j}
<1>1. \A j \in S : IsFiniteSet(Upto(j)) /\ Cardinality(Upto(j)) <= Cardinality(S)
  BY FS_Subset
<1>2. Cardinality(S) \in Nat /\ \A j \in S : Cardinality(Upto(j)) \in Nat
  BY <1>1, FS_CardinalityType
<1>3. Cardinality(Upto(i)) # 0
  <2>1. i \in Upto(i)
    OBVIOUS
  <2>2. QED
    BY <1>1, <2>1, FS_EmptySet
<1>4. ASSUME NEW j \in S, j < i PROVE Cardinality(Upto(j)) < Cardinality(Upto(i))
  <2>a. i \in Nat /\ j \in Nat /\ j < i /\ \A l \in S : l \in Nat
    BY <1>4
  <2>b. \A l \in S : l <= j => l <= i
    BY <2>a
  <2>c. i <= i /\ ~(i <= j)
    BY <2>a
  <2>1. /\ Upto(j) \subseteq Upto(i)
        /\ i \in Upto(i) /\ i \notin Upto(j)
    BY <2>b, <2>c
  <2>2. Cardinality(Upto(j)) <= Cardinality(Upto(i)) /\ Cardinality(Upto(j)) # Cardinality(Upto(i))
    <3> HIDE DEF Upto
    <3>1. QED
      BY <1>1, <2>1, FS_Subset
  <2>3. QED
    BY <1>2, <2>2
<1>5. QED
  BY <1>1, <1>2, <1>3, <1>4 DEF Rank

LEMMA RankHits ==
    ASSUME NEW S \in SUBSET Nat, IsFiniteSet(S), NEW k \in 1..Cardinality(S)
    PROVE  \E i \in S : Rank(S, i) = k
<1> DEFINE n == Cardinality(S)
           rank == [i \in S |-> Rank(S, i)]
<1>1. n \in Nat
  BY FS_CardinalityType
<1>2. rank \in [S -> 1..n]
  BY RankRises
<1>3. \A i, j \in S : rank[i] = rank[j] => i = j
  BY RankRises
<1>4. rank \in Injection(S, 1..n)
  BY <1>2, <1>3 DEF Injection, IsInjective
<1>5. IsFiniteSet(1..n) /\ Cardinality(1..n) = n
  BY <1>1, FS_Interval
<1>6. rank \in Surjection(S, 1..n)
  BY <1>4, <1>5, FS_Injection
<1>7. QED
  BY <1>6 DEF Surjection

LEMMA InOrderIs ==
    ASSUME NEW S \in SUBSET Nat, IsFiniteSet(S)
    PROVE  /\ Len(InOrder(S)) = Cardinality(S) /\ DOMAIN InOrder(S) = 1..Cardinality(S)
           /\ \A k \in 1..Cardinality(S) : InOrder(S)[k] \in S /\ Rank(S, InOrder(S)[k]) = k
           /\ \A i \in S : InOrder(S)[Rank(S, i)] = i
<1>1. Cardinality(S) \in Nat
  BY FS_CardinalityType
<1>2. InOrder(S) = [k \in 1..Cardinality(S) |-> CHOOSE i \in S : Rank(S, i) = k]
  BY DEF InOrder, Rank
<1>3. \A k \in 1..Cardinality(S) : InOrder(S)[k] \in S /\ Rank(S, InOrder(S)[k]) = k
  BY <1>2, RankHits
<1>4. \A i, j \in S : Rank(S, i) = Rank(S, j) => i = j
  BY RankRises
<1>5. \A i \in S : Rank(S, i) \in 1..Cardinality(S)
  BY RankRises
<1>6. InOrder(S) \in Seq(S)
  BY <1>1, <1>2, <1>3
<1>7. QED
  BY <1>1, <1>2, <1>3, <1>4, <1>5

----------------------------------------------------------------------------
\* Characters.

LEMMA Chars ==
    /\ Letters \subseteq SlugChars /\ Underscore \in SlugChars /\ Underscore \notin Letters /\ "0" \in SlugChars
    /\ Underscore \notin Digits /\ "0" \in Digits
    /\ "A" \notin SlugChars /\ Digits \subseteq SlugChars /\ SlugChars \subseteq Character
BY DEF Character, SlugChars, Letters, Digits, Underscore

\* Some character of s is a letter.
HasLetter(s) == \E i \in 1..Len(s) : s[i] \in Letters

\* The indices Collapse keeps.
KeptOf(s) == {i \in 1..Len(s) : s[i] \in SlugChars \/ i = 1 \/ s[i - 1] \in SlugChars}

LEMMA CollapseIs ==
    ASSUME NEW s \in Seq(Character)
    PROVE  LET kept == InOrder(KeptOf(s))
           IN  /\ Collapse(s) = [k \in 1..Len(kept) |-> IF s[kept[k]] \notin SlugChars THEN Underscore ELSE s[kept[k]]]
               /\ KeptOf(s) \in SUBSET Nat /\ IsFiniteSet(KeptOf(s)) /\ Len(kept) = Cardinality(KeptOf(s))
               /\ Cardinality(KeptOf(s)) \in Nat
<1>1. Len(s) \in Nat /\ KeptOf(s) \subseteq 1..Len(s)
  BY DEF KeptOf
<1>2. KeptOf(s) \in SUBSET Nat /\ IsFiniteSet(KeptOf(s))
  <2>1. IsFiniteSet(1..Len(s))
    BY <1>1, FS_Interval
  <2>2. QED
    BY <1>1, <2>1, FS_Subset
<1>3. {i \in 1..Len(s) : ~(s[i] \notin SlugChars) \/ i = 1 \/ ~(s[i - 1] \notin SlugChars)} = KeptOf(s)
  BY DEF KeptOf
<1>4. QED
  BY <1>2, <1>3, InOrderIs, FS_CardinalityType DEF Collapse

LEMMA CollapseSound ==
    ASSUME NEW s \in Seq(Character)
    PROVE  /\ Collapse(s) \in Seq(SlugChars)
           /\ HasLetter(Collapse(s)) <=> HasLetter(s)
<1> DEFINE S == KeptOf(s)
           n == Cardinality(S)
           kept == InOrder(S)
           c == Collapse(s)
<1>1. /\ c = [k \in 1..n |-> IF s[kept[k]] \notin SlugChars THEN Underscore ELSE s[kept[k]]]
      /\ S \in SUBSET Nat /\ IsFiniteSet(S) /\ n \in Nat
  BY CollapseIs
<1>2. /\ \A k \in 1..n : kept[k] \in S
      /\ \A i \in S : Rank(S, i) \in 1..n /\ kept[Rank(S, i)] = i
  BY <1>1, InOrderIs, RankRises
<1>3. S \subseteq 1..Len(s) /\ \A i \in 1..Len(s) : s[i] \in SlugChars => i \in S
  BY DEF KeptOf
<1> HIDE DEF S, kept, n
<1>4. \A k \in 1..n : c[k] = IF s[kept[k]] \notin SlugChars THEN Underscore ELSE s[kept[k]]
  BY <1>1
<1>5. c \in Seq(SlugChars) /\ Len(c) = n
  <2>1. \A k \in 1..n : c[k] \in SlugChars
    BY <1>4, Chars
  <2>2. c = [k \in 1..n |-> c[k]]
    BY <1>1
  <2>3. n \in Nat
    BY <1>1
  <2> HIDE DEF c
  <2>4. QED
    BY <2>1, <2>2, <2>3
<1>6. ASSUME HasLetter(c) PROVE HasLetter(s)
  <2>1. PICK k \in 1..n : c[k] \in Letters
    BY <1>5, <1>6 DEF HasLetter
  <2>2. s[kept[k]] \in Letters /\ kept[k] \in 1..Len(s)
    BY <1>2, <1>3, <1>4, <2>1, Chars
  <2>3. QED
    BY <2>2 DEF HasLetter
<1>7. ASSUME HasLetter(s) PROVE HasLetter(c)
  <2>1. PICK i \in 1..Len(s) : s[i] \in Letters
    BY <1>7 DEF HasLetter
  <2>2. i \in S /\ Rank(S, i) \in 1..n /\ kept[Rank(S, i)] = i
    BY <1>2, <1>3, <2>1, Chars
  <2>3. c[Rank(S, i)] \in Letters
    BY <1>4, <2>1, <2>2, Chars
  <2>4. QED
    BY <1>5, <2>2, <2>3 DEF HasLetter
<1>8. QED
  BY <1>5, <1>6, <1>7

LEMMA SlugIsString == Seq(SlugChars) \subseteq Seq(Character)
BY Chars, SeqMonotonic

LEMMA CollapseNothing ==
    ASSUME NEW s \in Seq(SlugChars)
    PROVE  Collapse(s) = s
<1> DEFINE n == Len(s)
<1>1. n \in Nat /\ (\A i \in 1..n : s[i] \in SlugChars) /\ s = [i \in 1..n |-> s[i]]
  OBVIOUS
<1>2. KeptOf(s) = 1..n
  BY <1>1 DEF KeptOf
<1>3. s \in Seq(Character)
  BY SlugIsString
<1> HIDE DEF n
<1>4. Cardinality(1..n) = n /\ IsFiniteSet(1..n) /\ 1..n \in SUBSET Nat
  BY <1>1, FS_Interval
<1>5. \A i \in 1..n : Rank(1..n, i) = i
  <2> SUFFICES ASSUME NEW i \in 1..n PROVE Rank(1..n, i) = i
    OBVIOUS
  <2>1. {j \in 1..n : j <= i} = 1..i
    BY <1>1
  <2>2. Cardinality(1..i) = i
    BY <1>1, FS_Interval
  <2>3. QED
    BY <2>1, <2>2 DEF Rank
<1>6. \A k \in 1..n : InOrder(1..n)[k] = k
  BY <1>4, <1>5, InOrderIs
<1>7. /\ Collapse(s) = [k \in 1..Len(InOrder(1..n)) |->
                           IF s[InOrder(1..n)[k]] \notin SlugChars THEN Underscore ELSE s[InOrder(1..n)[k]]]
      /\ Len(InOrder(1..n)) = n
  BY <1>2, <1>3, <1>4, CollapseIs
<1>8. Collapse(s) = [k \in 1..n |-> s[k]]
  BY <1>1, <1>6, <1>7
<1>9. QED
  BY <1>1, <1>8
----------------------------------------------------------------------------
\* From, Trim, CutTo and Pad.

LEMMA LeastThere ==
    ASSUME NEW S \in SUBSET Nat, S # {}
    PROVE  LET least == CHOOSE i \in S : \A j \in S : i <= j
           IN  least \in S /\ \A j \in S : least <= j
<1> DEFINE R == OpToRel(<, Nat)
<1>1. PICK v \in S : \A w \in S : ~(<<w, v>> \in R)
  BY NatLessThanWellFounded, WFMin
<1>2. \A w \in S : ~(w < v)
  BY <1>1 DEF OpToRel
<1>3. \E i \in S : \A j \in S : i <= j
  BY <1>2
<1>4. QED
  BY <1>3

LEMMA FromIs ==
    ASSUME NEW A, NEW s \in Seq(A), NEW set
    PROVE  \/ From(s, set) = <<>> /\ \A i \in 1..Len(s) : s[i] \notin set
           \/ \E m \in 1..Len(s) :
                 /\ s[m] \in set /\ \A i \in 1..(m - 1) : s[i] \notin set
                 /\ From(s, set) = SubSeq(s, m, Len(s))
<1> DEFINE at == {i \in 1..Len(s) : s[i] \in set}
           least == CHOOSE i \in at : \A j \in at : i <= j
<1>1. CASE at = {}
  BY <1>1 DEF From
<1>2. CASE at # {}
  <2>1. least \in at /\ \A j \in at : least <= j
    <3>1. at \in SUBSET Nat
      OBVIOUS
    <3> HIDE DEF at
    <3>2. QED
      BY <1>2, <3>1, LeastThere
  <2>2. From(s, set) = SubSeq(s, least, Len(s))
    BY <1>2 DEF From
  <2> HIDE DEF least
  <2>3. least \in 1..Len(s) /\ s[least] \in set
    BY <2>1
  <2>4. \A i \in 1..(least - 1) : s[i] \notin set
    <3> SUFFICES ASSUME NEW i \in 1..(least - 1), s[i] \in set PROVE FALSE
      OBVIOUS
    <3>1. i \in 1..Len(s) /\ ~(least <= i)
      BY <2>3
    <3>2. i \in at
      BY <3>1
    <3>3. QED
      BY <2>1, <3>1, <3>2
  <2>5. QED
    BY <2>2, <2>3, <2>4
<1>3. QED
  BY <1>1, <1>2

\* t is s without its beginning up to the first character in set.
Begins(A, s, set, t) ==
    /\ t \in Seq(A) /\ Len(t) <= Len(s)
    /\ t = <<>> => \A i \in 1..Len(s) : s[i] \notin set
    /\ t # <<>> => t[1] \in set /\ t[Len(t)] = s[Len(s)] /\ s # <<>>
    /\ s # <<>> /\ s[1] \in set => t = s
    /\ Letters \subseteq set => (HasLetter(t) <=> HasLetter(s))

LEMMA FromSound ==
    ASSUME NEW A, NEW s \in Seq(A), NEW set
    PROVE  Begins(A, s, set, From(s, set))
<1> DEFINE t == From(s, set)
<1>0. Len(s) \in Nat
  OBVIOUS
<1>1. ASSUME t = <<>>, \A i \in 1..Len(s) : s[i] \notin set
      PROVE  Begins(A, s, set, t)
  <2>1. t \in Seq(A) /\ Len(t) = 0
    BY <1>1
  <2>2. s # <<>> => 1 \in 1..Len(s)
    OBVIOUS
  <2>3. ~(s # <<>> /\ s[1] \in set)
    BY <1>1, <2>2
  <2>4. Letters \subseteq set => ~HasLetter(t) /\ ~HasLetter(s)
    BY <1>1, <2>1 DEF HasLetter
  <2> HIDE DEF t
  <2>5. QED
    BY <1>0, <1>1, <2>1, <2>3, <2>4 DEF Begins
<1>2. ASSUME NEW m \in 1..Len(s), s[m] \in set, \A i \in 1..(m - 1) : s[i] \notin set,
             t = SubSeq(s, m, Len(s))
      PROVE  Begins(A, s, set, t)
  <2>1. t \in Seq(A) /\ Len(t) = Len(s) - m + 1 /\ \A i \in 1..(Len(s) - m + 1) : t[i] = s[m + i - 1]
    <3>1. \A i \in m..Len(s) : s[i] \in A
      BY <1>0
    <3>2. QED
      BY <1>0, <1>2, <3>1, SubSeqProperties
  <2> HIDE DEF t
  <2>2. 1 \in 1..(Len(s) - m + 1) /\ Len(t) \in 1..(Len(s) - m + 1) /\ m + 1 - 1 = m
        /\ m + Len(t) - 1 = Len(s)
    BY <1>0, <2>1
  <2>3. t[1] = s[m] /\ t[Len(t)] = s[Len(s)]
    BY <2>1, <2>2
  <2>4. t # <<>> /\ s # <<>>
    BY <2>1, <2>2
  <2>5. s[1] \in set => t = s
    <3>1. ASSUME s[1] \in set PROVE m = 1
      BY <1>0, <1>2, <3>1
    <3>2. m = 1 => t = s
      BY <1>2, SubSeqFull
    <3>3. QED
      BY <3>1, <3>2
  <2>6. ASSUME HasLetter(t) PROVE HasLetter(s)
    <3>1. PICK i \in 1..Len(t) : t[i] \in Letters
      BY <2>6 DEF HasLetter
    <3>2. m + i - 1 \in 1..Len(s) /\ s[m + i - 1] \in Letters
      BY <1>0, <2>1, <3>1
    <3>3. QED
      BY <3>2 DEF HasLetter
  <2>7. ASSUME Letters \subseteq set, HasLetter(s) PROVE HasLetter(t)
    <3>1. PICK i \in 1..Len(s) : s[i] \in Letters
      BY <2>7 DEF HasLetter
    <3>2. i >= m
      BY <1>0, <1>2, <2>7, <3>1
    <3>3. i - m + 1 \in 1..(Len(s) - m + 1) /\ m + (i - m + 1) - 1 = i
      BY <1>0, <3>1, <3>2
    <3>4. t[i - m + 1] \in Letters
      BY <2>1, <3>1, <3>3
    <3>5. QED
      BY <2>1, <3>3, <3>4 DEF HasLetter
  <2>8. QED
    BY <1>0, <1>2, <2>1, <2>3, <2>4, <2>5, <2>6, <2>7 DEF Begins
<1>3. QED
  BY <1>1, <1>2, FromIs
\* r is s without the underscores at its ends.
Trimmed(s, r) ==
    /\ r \in Seq(SlugChars) /\ Len(r) <= Len(s)
    /\ r # <<>> => r[1] # Underscore /\ r[Len(r)] # Underscore
    /\ s # <<>> /\ s[1] # Underscore => r # <<>> /\ r[1] = s[1] /\ (s[Len(s)] # Underscore => r = s)
    /\ HasLetter(r) <=> HasLetter(s)

LEMMA TrimSound ==
    ASSUME NEW s \in Seq(SlugChars)
    PROVE  Trimmed(s, Trim(s))
<1> DEFINE set == SlugChars \ {Underscore}
           t == From(s, set)
           ends == {i \in 0..Len(t) : \A j \in (i + 1)..Len(t) : t[j] = Underscore}
           e == CHOOSE i \in ends : \A j \in ends : i <= j
           r == SubSeq(t, 1, e)
<1>1. Trim(s) = r
  BY DEF Trim
<1>2. Begins(SlugChars, s, set, t) /\ Letters \subseteq set
  BY FromSound, Chars
<1> HIDE DEF set, t
<1>3. t \in Seq(SlugChars) /\ Len(t) \in Nat /\ Len(t) <= Len(s) /\ Len(s) \in Nat
  BY <1>2 DEF Begins
<1>4. e \in ends /\ \A j \in ends : e <= j
  <2>1. ends \in SUBSET Nat /\ Len(t) \in ends
    BY <1>3
  <2> HIDE DEF ends
  <2>2. QED
    BY <2>1, LeastThere
<1> HIDE DEF e
<1>5. e \in 0..Len(t) /\ \A j \in (e + 1)..Len(t) : t[j] = Underscore
  BY <1>4
<1>6. r \in Seq(SlugChars) /\ Len(r) = e /\ \A i \in 1..e : r[i] = t[i]
  <2>1. \A i \in 1..e : t[i] \in SlugChars
    BY <1>3, <1>5
  <2>2. e \in Int /\ 1 \in Int
    BY <1>3, <1>5
  <2>3. /\ r \in Seq(SlugChars) /\ Len(r) = IF 1 <= e THEN e - 1 + 1 ELSE 0
        /\ \A i \in 1..(e - 1 + 1) : r[i] = t[1 + i - 1]
    BY <2>1, <2>2, SubSeqProperties
  <2> HIDE DEF r
  <2>4. QED
    BY <1>3, <1>5, <2>3
<1> HIDE DEF r
<1>7. e > 0 => t[e] # Underscore
  <2> SUFFICES ASSUME e > 0, t[e] = Underscore PROVE FALSE
    OBVIOUS
  <2>1. e - 1 \in 0..Len(t) /\ ~(e <= e - 1)
    BY <1>3, <1>5
  <2>2. \A j \in ((e - 1) + 1)..Len(t) : t[j] = Underscore
    BY <1>3, <1>5
  <2>3. e - 1 \in ends
    BY <2>1, <2>2
  <2>4. QED
    BY <1>4, <2>1, <2>3
<1>8. t # <<>> => t[1] # Underscore /\ t[1] \in SlugChars /\ e > 0 /\ t[Len(t)] = s[Len(s)] /\ s # <<>>
  <2> SUFFICES ASSUME t # <<>> PROVE t[1] # Underscore /\ t[1] \in SlugChars /\ e > 0 /\ t[Len(t)] = s[Len(s)] /\ s # <<>>
    OBVIOUS
  <2>1. t[1] # Underscore /\ t[1] \in SlugChars /\ t[Len(t)] = s[Len(s)] /\ s # <<>>
    BY <1>2 DEF Begins, set
  <2>2. 1 \in 1..Len(t)
    BY <1>3
  <2>3. QED
    BY <1>3, <1>5, <2>1, <2>2
<1>9. t = <<>> => e = 0 /\ r = <<>>
  BY <1>3, <1>5, <1>6
<1>10. r # <<>> => t # <<>> /\ r[1] = t[1] /\ r[1] # Underscore /\ r[Len(r)] # Underscore
  BY <1>3, <1>5, <1>6, <1>7, <1>8, <1>9
<1>11. s # <<>> /\ s[1] # Underscore => r # <<>> /\ r[1] = s[1] /\ (s[Len(s)] # Underscore => r = s)
  <2> SUFFICES ASSUME s # <<>>, s[1] # Underscore PROVE r # <<>> /\ r[1] = s[1] /\ (s[Len(s)] # Underscore => r = s)
    OBVIOUS
  <2>1. 1 \in 1..Len(s) /\ s[1] \in set
    BY DEF set
  <2>2. t = s
    BY <1>2, <2>1 DEF Begins
  <2>3. r # <<>> /\ r[1] = s[1]
    BY <1>3, <1>5, <1>6, <1>8, <2>2
  <2>4. s[Len(s)] # Underscore => e = Len(s)
    BY <1>3, <1>5, <2>2
  <2>5. e = Len(s) => r = s
    BY <2>2, SubSeqFull DEF r
  <2>6. QED
    BY <2>3, <2>4, <2>5
<1>12. HasLetter(r) <=> HasLetter(t)
  <2>1. ASSUME HasLetter(t) PROVE HasLetter(r)
    <3>1. PICK i \in 1..Len(t) : t[i] \in Letters
      BY <2>1 DEF HasLetter
    <3>2. t[i] # Underscore
      BY <3>1, Chars
    <3>3. i \in 1..e
      BY <1>3, <1>5, <3>2
    <3>4. QED
      BY <1>6, <3>1, <3>3 DEF HasLetter
  <2>2. ASSUME HasLetter(r) PROVE HasLetter(t)
    <3>1. PICK i \in 1..Len(r) : r[i] \in Letters
      BY <2>2 DEF HasLetter
    <3>2. i \in 1..Len(t) /\ r[i] = t[i]
      BY <1>3, <1>5, <1>6
    <3>3. QED
      BY <3>1, <3>2 DEF HasLetter
  <2>3. QED
    BY <2>1, <2>2
<1>13. HasLetter(t) <=> HasLetter(s)
  BY <1>2 DEF Begins
<1>14. QED
  BY <1>1, <1>3, <1>5, <1>6, <1>10, <1>11, <1>12, <1>13 DEF Trimmed

LEMMA CutToSound ==
    ASSUME NEW s \in Seq(SlugChars), NEW n \in Nat \ {0}, s # <<>>, s[1] # Underscore, s[Len(s)] # Underscore
    PROVE  LET r == CutTo(s, n)
           IN  /\ r \in Seq(SlugChars) /\ r # <<>> /\ r[1] = s[1] /\ r[Len(r)] # Underscore /\ Len(r) <= n
               /\ Len(s) <= n => r = s
<1>1. CASE Len(s) <= n
  BY <1>1 DEF CutTo
<1>2. CASE Len(s) > n
  <2> DEFINE c == SubSeq(s, 1, n)
  <2>1. c \in Seq(SlugChars) /\ Len(c) = n /\ c[1] = s[1] /\ c # <<>>
    <3>1. \A i \in 1..n : s[i] \in SlugChars
      BY <1>2
    <3>2. /\ c \in Seq(SlugChars) /\ Len(c) = IF 1 <= n THEN n - 1 + 1 ELSE 0
          /\ \A i \in 1..(n - 1 + 1) : c[i] = s[1 + i - 1]
      BY <3>1, SubSeqProperties
    <3> HIDE DEF c
    <3>3. QED
      BY <3>2
  <2>2. CutTo(s, n) = Trim(c)
    BY <1>2 DEF CutTo
  <2> HIDE DEF c
  <2>3. Trimmed(c, Trim(c))
    BY <2>1, TrimSound
  <2>4. Trim(c) # <<>> /\ Trim(c)[1] = c[1]
    BY <2>1, <2>3 DEF Trimmed
  <2>5. QED
    BY <1>2, <2>1, <2>2, <2>3, <2>4 DEF Trimmed
<1>3. QED
  BY <1>1, <1>2

LEMMA PadSound ==
    ASSUME NEW s \in Seq(SlugChars), s # <<>>, s[Len(s)] # Underscore
    PROVE  LET r == Pad(s)
           IN  /\ r \in Seq(SlugChars) /\ Len(r) = (IF Len(s) < 3 THEN 3 ELSE Len(s))
               /\ r[1] = s[1] /\ r[Len(r)] # Underscore
               /\ Len(s) >= 3 => r = s
<1> DEFINE n == IF Len(s) < 3 THEN 3 - Len(s) ELSE 0
           z == [i \in 1..n |-> "0"]
<1>1. Len(s) \in Nat /\ Len(s) >= 1 /\ n \in Nat /\ (Len(s) >= 3 => n = 0) /\ (Len(s) < 3 => n = 3 - Len(s))
  OBVIOUS
<1> HIDE DEF n
<1>2. z \in Seq(SlugChars) /\ Len(z) = n /\ \A i \in 1..n : z[i] = "0"
  BY <1>1, Chars
<1>3. Pad(s) = s \o z
  BY DEF Pad, n
<1> HIDE DEF z
<1>4. /\ s \o z \in Seq(SlugChars) /\ Len(s \o z) = Len(s) + n
      /\ \A i \in 1..(Len(s) + n) : (s \o z)[i] = IF i <= Len(s) THEN s[i] ELSE z[i - Len(s)]
  BY <1>2, ConcatProperties
<1>5. (s \o z)[1] = s[1]
  BY <1>1, <1>4
<1>6. (s \o z)[Len(s) + n] # Underscore
  <2>1. CASE n = 0
    BY <1>1, <1>4, <2>1
  <2>2. CASE n # 0
    <3>1. (s \o z)[Len(s) + n] = z[n]
      BY <1>1, <1>4, <2>2
    <3>2. z[n] = "0"
      BY <1>1, <1>2, <2>2
    <3>3. QED
      BY <3>1, <3>2, Chars
  <2>3. QED
    BY <2>1, <2>2
<1>7. n = 0 => s \o z = s
  BY <1>2, ConcatEmptySeq
<1>8. QED
  BY <1>1, <1>3, <1>4, <1>5, <1>6, <1>7
----------------------------------------------------------------------------
\* GenerateSlugBase.

Lowered(m) == [i \in DOMAIN m |-> Lower(m[i])]

LEMMA LoweredSound ==
    ASSUME NEW m \in Seq(Character)
    PROVE  /\ Lowered(m) \in Seq(Character)
           /\ HasLetter(Lowered(m)) <=> {m[i] : i \in DOMAIN m} \cap {"a", "A"} # {}
<1>1. DOMAIN m = 1..Len(m) /\ Len(m) \in Nat /\ \A i \in 1..Len(m) : m[i] \in Character
  OBVIOUS
<1>2. \A c \in Character : Lower(c) \in Character /\ (Lower(c) \in Letters <=> c \in {"a", "A"})
  BY DEF Lower, Character, SlugChars, Letters, Digits, Underscore
<1>3. Lowered(m) \in Seq(Character) /\ Len(Lowered(m)) = Len(m)
      /\ \A i \in 1..Len(m) : Lowered(m)[i] = Lower(m[i])
  BY <1>1, <1>2 DEF Lowered
<1>4. HasLetter(Lowered(m)) <=> \E i \in 1..Len(m) : m[i] \in {"a", "A"}
  BY <1>1, <1>2, <1>3 DEF HasLetter
<1>5. QED
  BY <1>1, <1>3, <1>4

LEMMA LoweredNothing ==
    ASSUME NEW m \in Seq(SlugChars)
    PROVE  Lowered(m) = m
<1>1. \A c \in SlugChars : Lower(c) = c
  BY Chars DEF Lower
<1>2. m = [i \in DOMAIN m |-> m[i]] /\ \A i \in DOMAIN m : m[i] \in SlugChars
  OBVIOUS
<1>3. Lowered(m) = [i \in DOMAIN m |-> m[i]]
  BY <1>1, <1>2 DEF Lowered
<1>4. QED
  BY <1>2, <1>3

\* A valid slug that does not end in an underscore.
Good(b) ==
    /\ b \in Seq(SlugChars) /\ Len(b) \in 3..MaxSlug
    /\ b[1] \in Letters /\ b[Len(b)] # Underscore

LEMMA GoodIsValid ==
    ASSUME NEW b \in Seq(Character)
    PROVE  ValidateSlug(b) /\ b[Len(b)] # Underscore <=> Good(b)
<1>1. DOMAIN b = 1..Len(b) /\ Len(b) \in Nat
  OBVIOUS
<1>2. (\A i \in 1..Len(b) : b[i] \in SlugChars) <=> b \in Seq(SlugChars)
  OBVIOUS
<1>3. QED
  BY <1>1, <1>2 DEF ValidateSlug, Good

LEMMA BaseOfGood ==
    ASSUME NEW b, Good(b)
    PROVE  GenerateSlugBase(b) = b
<1>1. b \in Seq(SlugChars) /\ b # <<>> /\ b[1] \in Letters /\ b[1] # Underscore /\ b[Len(b)] # Underscore
      /\ Len(b) >= 3 /\ Len(b) <= MaxSlug /\ MaxSlug \in Nat \ {0}
  BY Chars, SlugsAssumption DEF Good
<1>2. Trim(Collapse(Lowered(b))) = b
  <2>1. Collapse(Lowered(b)) = b
    BY <1>1, LoweredNothing, CollapseNothing
  <2>2. Trimmed(b, Trim(b))
    BY <1>1, TrimSound
  <2>3. QED
    BY <1>1, <2>1, <2>2 DEF Trimmed
<1>3. From(b, Letters) = b
  <2>1. Begins(SlugChars, b, Letters, From(b, Letters))
    BY <1>1, FromSound
  <2>2. QED
    BY <1>1, <2>1 DEF Begins
<1>4. CutTo(b, MaxSlug) = b
  BY <1>1, CutToSound
<1>5. Pad(b) = b
  BY <1>1, PadSound
<1>6. QED
  BY <1>1, <1>2, <1>3, <1>4, <1>5 DEF GenerateSlugBase, Lowered

LEMMA BaseSound ==
    ASSUME NEW m \in Seq(Character)
    PROVE  LET b == GenerateSlugBase(m)
           IN  /\ b = <<>> <=> {m[i] : i \in DOMAIN m} \cap {"a", "A"} = {}
               /\ b # <<>> => Good(b)
<1> DEFINE c == Collapse(Lowered(m))
           t == Trim(c)
           s == From(t, Letters)
           b == GenerateSlugBase(m)
<1>1. b = IF s = <<>> THEN <<>> ELSE Pad(CutTo(s, MaxSlug))
  BY DEF GenerateSlugBase, Lowered
<1>2. /\ c \in Seq(SlugChars)
      /\ HasLetter(c) <=> {m[i] : i \in DOMAIN m} \cap {"a", "A"} # {}
  BY LoweredSound, CollapseSound
<1> HIDE DEF c, b
<1>3. Trimmed(c, t)
  BY <1>2, TrimSound
<1> HIDE DEF t
<1>4. Begins(SlugChars, t, Letters, s)
  BY <1>3, FromSound DEF Trimmed
<1> HIDE DEF s
<1>5. HasLetter(s) <=> HasLetter(c)
  BY <1>3, <1>4 DEF Trimmed, Begins
<1>6. s \in Seq(SlugChars) /\ (s = <<>> <=> ~HasLetter(s))
  <2>1. s \in Seq(SlugChars)
    BY <1>4 DEF Begins
  <2>2. s # <<>> => 1 \in 1..Len(s) /\ s[1] \in Letters
    BY <1>4, <2>1 DEF Begins
  <2>3. s = <<>> => ~HasLetter(s)
    BY DEF HasLetter
  <2>4. QED
    BY <2>1, <2>2, <2>3 DEF HasLetter
<1>7. CASE s = <<>>
  BY <1>1, <1>2, <1>5, <1>6, <1>7 DEF b
<1>8. CASE s # <<>>
  <2> DEFINE k == CutTo(s, MaxSlug)
  <2>1. s[1] \in Letters /\ s[1] # Underscore /\ s[Len(s)] # Underscore
    BY <1>3, <1>4, <1>8, Chars DEF Begins, Trimmed
  <2>2. MaxSlug \in Nat \ {0} /\ MaxSlug >= 6
    BY SlugsAssumption
  <2>3. k \in Seq(SlugChars) /\ k # <<>> /\ k[1] = s[1] /\ k[Len(k)] # Underscore /\ Len(k) <= MaxSlug
    BY <1>6, <1>8, <2>1, <2>2, CutToSound
  <2> HIDE DEF k
  <2>4. /\ Pad(k) \in Seq(SlugChars) /\ Len(Pad(k)) = (IF Len(k) < 3 THEN 3 ELSE Len(k))
        /\ Pad(k)[1] = k[1] /\ Pad(k)[Len(Pad(k))] # Underscore
    BY <2>3, PadSound
  <2>5. b = Pad(k)
    BY <1>1, <1>8 DEF k
  <2>6. Len(Pad(k)) \in 3..MaxSlug
    BY <2>2, <2>3, <2>4
  <2>7. Good(b)
    BY <2>1, <2>3, <2>4, <2>5, <2>6 DEF Good
  <2>8. b # <<>>
    BY <2>4, <2>5, <2>6
  <2>9. QED
    BY <1>2, <1>5, <1>6, <1>8, <2>7, <2>8 DEF b
<1>9. QED
  BY <1>7, <1>8
----------------------------------------------------------------------------
\* Candidates.

Digit(i) == <<"1", "2", "3", "4", "5", "6", "7", "8", "9">>[i]

LEMMA DigitsDiffer ==
    /\ \A i \in 1..9 : Digit(i) \in Digits /\ Digit(i) \in SlugChars
    /\ \A i, j \in 1..9 : Digit(i) = Digit(j) => i = j
<1>1. \A i \in 1..9 : i = 1 \/ i = 2 \/ i = 3 \/ i = 4 \/ i = 5 \/ i = 6 \/ i = 7 \/ i = 8 \/ i = 9
  OBVIOUS
<1>2. /\ Digit(1) = "1" /\ Digit(2) = "2" /\ Digit(3) = "3" /\ Digit(4) = "4" /\ Digit(5) = "5"
      /\ Digit(6) = "6" /\ Digit(7) = "7" /\ Digit(8) = "8" /\ Digit(9) = "9"
  BY DEF Digit
<1>3. \A i \in 1..9 : Digit(i) \in Digits
  BY <1>1, <1>2 DEF Digits
<1>4. \A i, j \in 1..9 : Digit(i) = Digit(j) => i = j
  BY <1>1, <1>2
<1>5. QED
  BY <1>3, <1>4, Chars

LEMMA CandidateSound ==
    ASSUME NEW b, Good(b), NEW i \in 2..9
    PROVE  LET c == Candidate(b, i)
           IN  c \in Seq(SlugChars) /\ ValidateSlug(c) /\ c[Len(c)] = Digit(i)
<1> DEFINE n == MaxSlug - 2
           k == CutTo(b, n)
           x == <<Underscore, Digit(i)>>
<1>1. n \in Nat \ {0} /\ n + 2 = MaxSlug /\ Digit(i) \in SlugChars /\ i # 1
  BY SlugsAssumption, DigitsDiffer
<1>2. x \in Seq(SlugChars) /\ Len(x) = 2 /\ x[2] = Digit(i)
  BY <1>1, Chars
<1>3. Candidate(b, i) = k \o x
  <2>1. Suffix(i) = x
    BY DEF Suffix, Digit
  <2>2. Len(Suffix(i)) = 2
    BY <1>2, <2>1
  <2>3. QED
    BY <1>1, <2>1, <2>2 DEF Candidate
<1> HIDE DEF x, n
<1>4. k \in Seq(SlugChars) /\ k # <<>> /\ k[1] = b[1] /\ Len(k) <= n
  <2>1. b \in Seq(SlugChars) /\ b # <<>> /\ b[1] # Underscore /\ b[Len(b)] # Underscore
    BY Chars DEF Good
  <2>2. QED
    BY <1>1, <2>1, CutToSound
<1> HIDE DEF k
<1>5. /\ k \o x \in Seq(SlugChars) /\ Len(k \o x) = Len(k) + Len(x)
      /\ \A j \in 1..(Len(k) + Len(x)) : (k \o x)[j] = IF j <= Len(k) THEN k[j] ELSE x[j - Len(k)]
  BY <1>2, <1>4, ConcatProperties
<1>6. Len(k) \in Nat /\ Len(k) >= 1
  BY <1>4
<1>7. (k \o x)[1] = b[1] /\ (k \o x)[Len(k) + 2] = Digit(i)
  BY <1>2, <1>4, <1>5, <1>6
<1>8. Len(k \o x) \in 3..MaxSlug /\ Len(k \o x) = Len(k) + 2
  BY <1>1, <1>2, <1>4, <1>5, <1>6, SlugsAssumption
<1>9. (k \o x)[1] \in Letters
  BY <1>7 DEF Good
<1>10. \A j \in DOMAIN (k \o x) : (k \o x)[j] \in SlugChars
  BY <1>5
<1>11. QED
  BY <1>3, <1>5, <1>7, <1>8, <1>9, <1>10 DEF ValidateSlug

\* With so many slugs taken, the loop has come no further.
LEMMA TriesFew ==
    ASSUME NEW b, Good(b), NEW T, IsFiniteSet(T), Cardinality(T) <= 7, NEW a \in Nat,
           \A j \in 1..(a - 1) : Candidate(b, j) \in T
    PROVE  a <= Cardinality(T) + (IF Repeats(b) THEN 2 ELSE 1)
<1> DEFINE m == IF a - 1 <= 9 THEN a - 1 ELSE 9
<1>0. Cardinality(T) \in Nat
  BY FS_CardinalityType
<1>1. \A i, j \in 2..9 : Candidate(b, i) = Candidate(b, j) => i = j
  <2> SUFFICES ASSUME NEW i \in 2..9, NEW j \in 2..9, Candidate(b, i) = Candidate(b, j)
               PROVE  i = j
    OBVIOUS
  <2>1. Candidate(b, i)[Len(Candidate(b, i))] = Digit(i) /\ Candidate(b, j)[Len(Candidate(b, j))] = Digit(j)
    BY CandidateSound
  <2>2. Digit(i) = Digit(j) /\ i \in 1..9 /\ j \in 1..9
    BY <2>1
  <2>3. QED
    BY <2>2, DigitsDiffer
<1>2. \A j \in 1..m : Candidate(b, j) \in T
  OBVIOUS
<1>3. m \in Int /\ m <= 9 /\ m <= a - 1 /\ (m <= 8 => m = a - 1)
  OBVIOUS
<1> HIDE DEF m
<1>4. m - 1 <= Cardinality(T)
  <2> DEFINE f == [j \in 2..m |-> Candidate(b, j)]
  <2>1. f \in [2..m -> T]
    BY <1>2, <1>3
  <2>2. \A i, j \in 2..m : f[i] = f[j] => i = j
    BY <1>1, <1>3
  <2>3. f \in Injection(2..m, T)
    <3> DEFINE S == 2..m
    <3>1. f \in [S -> T] /\ DOMAIN f = S /\ \A i, j \in S : f[i] = f[j] => i = j
      BY <2>1, <2>2
    <3> HIDE DEF f, S
    <3>2. f \in Injection(S, T)
      BY <3>1 DEF Injection, IsInjective
    <3>3. QED
      BY <3>2 DEF S
  <2> HIDE DEF f
  <2>4. Cardinality(2..m) <= Cardinality(T)
    BY <2>3, FS_Injection
  <2>5. Cardinality(2..m) = IF 2 > m THEN 0 ELSE m - 2 + 1
    BY <1>3, FS_Interval
  <2>6. QED
    BY <1>0, <1>3, <2>4, <2>5
<1>5. m = a - 1
  BY <1>0, <1>3, <1>4
<1>6. CASE Repeats(b)
  BY <1>0, <1>4, <1>5, <1>6
<1>7. CASE ~Repeats(b)
  <2> DEFINE f == [j \in 1..m |-> Candidate(b, j)]
  <2>1. f \in [1..m -> T]
    BY <1>2
  <2>2. \A i \in 2..9 : Candidate(b, i) # Candidate(b, 1)
    BY <1>7 DEF Repeats, Candidate
  <2>3. \A i, j \in 1..m : f[i] = f[j] => i = j
    <3> SUFFICES ASSUME NEW i \in 1..m, NEW j \in 1..m, Candidate(b, i) = Candidate(b, j)
                 PROVE  i = j
      OBVIOUS
    <3>1. (i = 1 \/ i \in 2..9) /\ (j = 1 \/ j \in 2..9)
      BY <1>3
    <3>2. QED
      BY <1>1, <2>2, <3>1
  <2>4. f \in Injection(1..m, T)
    <3> DEFINE S == 1..m
    <3>1. f \in [S -> T] /\ DOMAIN f = S /\ \A i, j \in S : f[i] = f[j] => i = j
      BY <2>1, <2>3
    <3> HIDE DEF f, S
    <3>2. f \in Injection(S, T)
      BY <3>1 DEF Injection, IsInjective
    <3>3. QED
      BY <3>2 DEF S
  <2> HIDE DEF f
  <2>5. Cardinality(1..m) <= Cardinality(T)
    BY <2>4, FS_Injection
  <2>6. Cardinality(1..m) = IF 1 > m THEN 0 ELSE m - 1 + 1
    BY <1>3, FS_Interval
  <2>7. QED
    BY <1>0, <1>3, <1>5, <1>7, <2>5, <2>6
<1>8. QED
  BY <1>6, <1>7

----------------------------------------------------------------------------
\* The search.

SlugsInv ==
    /\ name \in Name /\ attempt \in Nat
    /\ IsFiniteSet(slugsTaken) /\ Cardinality(slugsTaken) <= MaxTaken
    /\ IF attempt > 0 THEN base # <<>> ELSE base = <<>>
    /\ attempt > 0 \/ slugDone => base = GenerateSlugBase(name)
    /\ \A j \in 1..(attempt - 1) : Candidate(base, j) \in slugsTaken
    /\ slugDone /\ base # <<>> => ValidateSlug(suggestion)

LEMMA SlugsFromInv == SlugsInv => SlugsSound
<1> SUFFICES ASSUME SlugsInv PROVE SlugsSound
  OBVIOUS
<1>1. name \in Seq(Character)
  BY SlugsAssumption DEF SlugsInv
<1>2. base # <<>> => Good(base)
  BY <1>1, BaseSound DEF SlugsInv
<1>3. BasesValid
  <2> SUFFICES ASSUME attempt = 1 \/ slugDone
               PROVE  /\ base = <<>> <=> {name[i] : i \in DOMAIN name} \cap {"a", "A"} = {}
                      /\ base # <<>> => ValidateSlug(base) /\ GenerateSlugBase(base) = base
                      /\ ValidateSlug(name) /\ name[Len(name)] # Underscore => base = name
    BY DEF BasesValid
  <2>1. base = GenerateSlugBase(name)
    BY DEF SlugsInv
  <2>2. base = <<>> <=> {name[i] : i \in DOMAIN name} \cap {"a", "A"} = {}
    BY <1>1, <2>1, BaseSound
  <2>3. base # <<>> => base \in Seq(Character)
    <3>1. Seq(SlugChars) \subseteq Seq(Character)
      BY SlugIsString
    <3>2. QED
      BY <1>2, <3>1 DEF Good
  <2>4. base # <<>> => ValidateSlug(base) /\ GenerateSlugBase(base) = base
    BY <1>2, <2>3, GoodIsValid, BaseOfGood
  <2>5. ValidateSlug(name) /\ name[Len(name)] # Underscore => base = name
    BY <1>1, <2>1, GoodIsValid, BaseOfGood
  <2>6. QED
    BY <2>2, <2>4, <2>5
<1>4. TriesBounded
  <2>1. CASE attempt = 0
    <3>1. Cardinality(slugsTaken) \in Nat
      BY FS_CardinalityType DEF SlugsInv
    <3>2. QED
      BY <2>1, <3>1 DEF SlugsInv, TriesBounded
  <2>2. CASE attempt > 0
    <3>1. Cardinality(slugsTaken) <= 7
      <4>1. Cardinality(slugsTaken) \in Nat
        BY FS_CardinalityType DEF SlugsInv
      <4>2. QED
        BY <4>1, SlugsAssumption DEF SlugsInv
    <3>2. attempt <= Cardinality(slugsTaken) + (IF Repeats(base) THEN 2 ELSE 1)
      BY <1>2, <2>2, <3>1, TriesFew DEF SlugsInv
    <3>3. QED
      BY <3>2 DEF SlugsInv, TriesBounded
  <2>3. QED
    BY <2>1, <2>2 DEF SlugsInv
<1>5. QED
  BY <1>3, <1>4 DEF SlugsSound

LEMMA SlugsStep == SlugsInv /\ [SlugsNext]_slugVars => SlugsInv'
<1> SUFFICES ASSUME SlugsInv, [SlugsNext]_slugVars PROVE SlugsInv'
  OBVIOUS
<1>1. CASE Generate
  <2>1. /\ attempt = 0 /\ ~slugDone /\ base' = GenerateSlugBase(name)
        /\ IF base' = <<>> THEN slugDone' = TRUE /\ attempt' = 0 ELSE attempt' = 1 /\ ~slugDone'
        /\ UNCHANGED <<name, slugsTaken, suggestion>>
    BY <1>1 DEF Generate
  <2>2. \A j \in 1..(attempt' - 1) : FALSE
    BY <2>1
  <2>3. QED
    BY <2>1, <2>2 DEF SlugsInv
<1>2. CASE Try
  <2>1. /\ attempt > 0 /\ ~slugDone /\ UNCHANGED <<name, slugsTaken, base>>
        /\ LET c == Candidate(base, attempt)
           IN  IF ValidateSlug(c) /\ c \notin slugsTaken
               THEN suggestion' = c /\ slugDone' = TRUE /\ UNCHANGED attempt
               ELSE attempt' = attempt + 1 /\ UNCHANGED <<suggestion, slugDone>>
    BY <1>2 DEF Try
  <2> DEFINE c == Candidate(base, attempt)
  <2>2. ValidateSlug(c)
    <3>1. name \in Seq(Character) /\ base = GenerateSlugBase(name) /\ base # <<>>
      BY <2>1, SlugsAssumption DEF SlugsInv
    <3>2. Good(base)
      BY <3>1, BaseSound
    <3>3. CASE attempt = 1
      <4>1. base \in Seq(Character)
        <5>1. Seq(SlugChars) \subseteq Seq(Character)
          BY SlugIsString
        <5>2. QED
          BY <3>2, <5>1 DEF Good
      <4>2. QED
        BY <3>2, <3>3, <4>1, GoodIsValid DEF Candidate
    <3>4. CASE attempt # 1
      <4>1. attempt <= Cardinality(slugsTaken) + 2 /\ Cardinality(slugsTaken) \in Nat
        BY SlugsFromInv, FS_CardinalityType DEF SlugsInv, SlugsSound, TriesBounded
      <4>2. attempt \in 2..9
        BY <2>1, <3>4, <4>1, SlugsAssumption DEF SlugsInv
      <4>3. QED
        BY <3>2, <4>2, CandidateSound
    <3>5. QED
      BY <3>3, <3>4
  <2> HIDE DEF c
  <2>3. CASE c \notin slugsTaken
    <3>1. suggestion' = c /\ slugDone' = TRUE /\ attempt' = attempt
      BY <2>1, <2>2, <2>3 DEF c
    <3>2. QED
      BY <2>1, <2>2, <3>1 DEF SlugsInv
  <2>4. CASE c \in slugsTaken
    <3>1. attempt' = attempt + 1 /\ UNCHANGED <<suggestion, slugDone>>
      BY <2>1, <2>4 DEF c
    <3>2. \A j \in 1..attempt : Candidate(base, j) \in slugsTaken
      <4>1. \A j \in 1..attempt : j = attempt \/ j \in 1..(attempt - 1)
        BY DEF SlugsInv
      <4>2. QED
        BY <2>4, <4>1 DEF SlugsInv, c
    <3>3. attempt' - 1 = attempt /\ attempt' \in Nat /\ attempt' > 0
      BY <2>1, <3>1 DEF SlugsInv
    <3>4. QED
      BY <2>1, <3>1, <3>2, <3>3 DEF SlugsInv
  <2>5. QED
    BY <2>3, <2>4
<1>3. CASE TakeOne
  <2>1. PICK x : slugsTaken' = slugsTaken \cup {x}
    BY <1>3 DEF TakeOne
  <2>2. Cardinality(slugsTaken) < MaxTaken /\ UNCHANGED <<name, base, attempt, suggestion, slugDone>>
    BY <1>3 DEF TakeOne
  <2>3. /\ IsFiniteSet(slugsTaken') /\ Cardinality(slugsTaken) \in Nat
        /\ Cardinality(slugsTaken') = IF x \in slugsTaken THEN Cardinality(slugsTaken) ELSE Cardinality(slugsTaken) + 1
    BY <2>1, FS_AddElement, FS_CardinalityType DEF SlugsInv
  <2>4. Cardinality(slugsTaken') <= MaxTaken
    BY <2>2, <2>3, SlugsAssumption
  <2>5. QED
    BY <2>1, <2>2, <2>3, <2>4 DEF SlugsInv
<1>4. CASE UNCHANGED slugVars
  BY <1>4 DEF slugVars, SlugsInv
<1>5. QED
  BY <1>1, <1>2, <1>3, <1>4 DEF SlugsNext

(***************************************************************************)
(* slug.go: for every name, a slug base is valid, its own base, and empty  *)
(* only for a name without letters; and however others register meanwhile, *)
(* the search tries well-formed candidates only, at most one of them twice *)
(* (a long base that is its own candidate), so it makes at most one or two *)
(* turns more than slugs are taken.                                        *)
(***************************************************************************)
THEOREM SlugsHold == SlugsSpec => []SlugsSound
<1>1. SlugsInit => SlugsInv
  <2> SUFFICES ASSUME SlugsInit PROVE SlugsInv
    OBVIOUS
  <2>1. \A j \in 1..(attempt - 1) : FALSE
    BY DEF SlugsInit
  <2>2. IsFiniteSet(slugsTaken) /\ Cardinality(slugsTaken) <= MaxTaken
    BY FS_EmptySet, SlugsAssumption DEF SlugsInit
  <2>3. QED
    BY <2>1, <2>2 DEF SlugsInit, SlugsInv
<1>2. SlugsInv /\ [SlugsNext]_slugVars => SlugsInv'
  BY SlugsStep
<1>3. QED
  BY <1>1, <1>2, SlugsFromInv, PTL DEF SlugsSpec
==============================================================================
