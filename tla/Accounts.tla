------------------------------ MODULE Accounts ------------------------------
(***************************************************************************)
(* The users table under the requests that change or prove an account:     *)
(* Login and LoginWithGoogle (internal/auth/login.go) up to the tenant     *)
(* choice that DeviceTokens.tla takes over, password.go,                   *)
(* platform_admin.go at every boot and platform_admins_manage.go. Each     *)
(* call is a goroutine and each of its steps one statement; an e-mail      *)
(* address stands for the user who has it.                                 *)
(***************************************************************************)
EXTENDS Naturals, FiniteSets

CONSTANTS
    Account, LowerCase,   \* users, and those whose address has no capitals
    Shop, Sub, Password,  \* tenants, Google subjects, passwords that are long enough
    Configured,           \* PLATFORM_ADMIN_EMAILS
    FirstPassword, FirstStaff,    \* passwords and memberships at the start
    Caller,               \* concurrent calls
    Nobody,
    MaxCalls, MaxCuts, MaxOther   \* bounds: calls, statements that fail, other writes

ASSUME AccountsAssumption ==
    /\ LowerCase \subseteq Account /\ Configured \subseteq Account
    /\ FirstPassword \in Password /\ FirstStaff \in [Account -> SUBSET Shop]
    /\ Nobody \notin Account \cup Sub \cup Password \cup Shop
    /\ MaxCalls \in Nat /\ MaxCuts \in Nat /\ MaxOther \in Nat

VARIABLES
    registered,       \* the users there are
    googleSub, password, staff,   \* per user: google_sub, password, tenants with a membership
    admins,           \* is_platform_admin
    request,          \* the calls
    revoked,          \* history: users whose last flag write was a revoke that
                      \* no grant and no boot overlapped or followed
    held,             \* history: the passwords and the shops its user had during the call
    callsMade, cuts, otherWrites

users == <<registered, googleSub, password, staff, admins>>
counters == <<callsMade, cuts, otherWrites>>
accountVars == <<users, request, revoked, held, counters>>

\* at: idle, bySub, byEmail, bind, credential, prove, write, check, reset, find,
\* flag, sync, done. user is the row the call works on. History: owner is whom the
\* subject belonged to when the call began, unless it was replaced since; seen is
\* the subject the account had then, or the password a change was given as current.
Free == [at |-> "idle", op |-> Nobody, user |-> Nobody, value |-> Nobody, seen |-> Nobody,
         shop |-> Nobody, todo |-> {}, owner |-> Nobody, accepted |-> FALSE]

AccountsInit ==
    /\ registered \in SUBSET Account \ {{}}
    /\ googleSub = [u \in Account |-> Nobody]
    /\ password = [u \in Account |-> FirstPassword]
    /\ staff = FirstStaff
    /\ admins \in {{}, registered}
    /\ request = [c \in Caller |-> Free]
    /\ revoked = {}
    /\ held = [c \in Caller |-> {}]
    /\ callsMade = 0 /\ cuts = 0 /\ otherWrites = 0

Doing(c, at) == request[c].at = at
Is(c, op) == request[c].op = op
Goto(c, rec) == request' = [request EXCEPT ![c] = rec]
Done(c, accepted) == Goto(c, [request[c] EXCEPT !.at = "done", !.accepted = accepted])
Move(c, at) == Goto(c, [request[c] EXCEPT !.at = at])

\* A subject belongs to at most one user: google_sub is unique.
OwnerOf(s) == {u \in registered : googleSub[u] = s}
BelongsTo(s) == IF OwnerOf(s) = {} THEN Nobody ELSE CHOOSE u \in OwnerOf(s) : TRUE

\* Whose flag a running grant or boot may still set.
Granting(u) ==
    \E c \in Caller :
        \/ Is(c, "grant") /\ request[c].user = u /\ request[c].at \in {"find", "flag"}
        \/ Doing(c, "sync") /\ u \in request[c].todo

----------------------------------------------------------------------------
\* Calls begin.

HeldBy(u) == IF u \in registered THEN {password[u]} \cup staff[u] ELSE {}

Begin(c, rec) ==
    /\ Doing(c, "idle") /\ callsMade < MaxCalls
    /\ callsMade' = callsMade + 1
    /\ Goto(c, rec)
    /\ held' = [held EXCEPT ![c] = HeldBy(rec.user)]
    /\ UNCHANGED <<users, cuts, otherWrites>>

\* The verified claims: a subject and an address.
LoginWithGoogle(c, u, s) ==
    /\ Begin(c, [Free EXCEPT !.at = "bySub", !.op = "google", !.user = u, !.value = s,
                             !.owner = BelongsTo(s), !.seen = googleSub[u]])
    /\ UNCHANGED revoked

Login(c, u, p) ==
    /\ Begin(c, [Free EXCEPT !.at = "credential", !.op = "login", !.user = u, !.value = p])
    /\ UNCHANGED revoked

ChangeOwnPassword(c, u, current, next) ==
    /\ u \in registered
    /\ Begin(c, [Free EXCEPT !.at = "prove", !.op = "change", !.user = u, !.seen = current, !.value = next])
    /\ UNCHANGED revoked

SetMemberPassword(c, t, u, next) ==
    /\ Begin(c, [Free EXCEPT !.at = "check", !.op = "reset", !.user = u, !.shop = t, !.value = next])
    /\ UNCHANGED revoked

GrantPlatformAdmin(c, u) ==
    /\ Begin(c, [Free EXCEPT !.at = "find", !.op = "grant", !.user = u])
    /\ revoked' = revoked \ {u}

RevokePlatformAdmin(c, u) ==
    /\ Begin(c, [Free EXCEPT !.at = "find", !.op = "revoke", !.user = u])
    /\ UNCHANGED revoked

\* The configured addresses are lowered, the stored ones are not.
ParsePlatformAdminEmails == Configured \cap LowerCase

\* Every boot grants again.
Boot(c) ==
    /\ Begin(c, [Free EXCEPT !.at = "sync", !.op = "boot", !.todo = ParsePlatformAdminEmails])
    /\ revoked' = revoked \ ParsePlatformAdminEmails

----------------------------------------------------------------------------
\* Steps.

Quietly == UNCHANGED <<revoked, held, counters>>

\* Slip: the account is matched by its address first.
FindBySub_AddressFirst(c) ==
    /\ Doing(c, "bySub")
    /\ Move(c, "byEmail")
    /\ UNCHANGED users /\ Quietly

\* LoginWithGoogle: the subject decides.
FindBySub(c) ==
    /\ Doing(c, "bySub")
    /\ LET u == BelongsTo(request[c].value)
       IN  IF u # Nobody
           THEN Goto(c, [request[c] EXCEPT !.at = "done", !.user = u, !.accepted = TRUE])
           ELSE Move(c, "byEmail")
    /\ UNCHANGED users /\ Quietly

\* Slip: a bound account is bound again.
FindByEmail_Rebind(c) ==
    /\ Doing(c, "byEmail")
    /\ LET u == request[c].user
       IN  IF u \notin registered THEN Done(c, FALSE)
           ELSE Goto(c, [request[c] EXCEPT !.at = "bind"])
    /\ UNCHANGED users /\ Quietly

\* Then the address: an account bound to another subject is let in, and left
\* as it is.
FindByEmail(c) ==
    /\ Doing(c, "byEmail")
    /\ LET u == request[c].user
       IN  IF u \notin registered THEN Done(c, FALSE)
           ELSE IF googleSub[u] = Nobody THEN Move(c, "bind")
           ELSE Done(c, TRUE)
    /\ UNCHANGED users /\ Quietly

\* The unique index may refuse; the login goes on.
BindSub(c) ==
    /\ Doing(c, "bind")
    /\ IF OwnerOf(request[c].value) \subseteq {request[c].user}
       THEN googleSub' = [googleSub EXCEPT ![request[c].user] = request[c].value]
       ELSE UNCHANGED googleSub
    /\ request' = [d \in Caller |->
          IF d = c THEN [request[c] EXCEPT !.at = "done", !.accepted = TRUE]
          ELSE IF request[d].owner # Nobody /\ googleSub'[request[d].owner] # googleSub[request[d].owner]
          THEN [request[d] EXCEPT !.owner = Nobody] ELSE request[d]]
    /\ UNCHANGED <<registered, password, staff, admins>> /\ Quietly

CheckCredential(c) ==
    /\ Doing(c, "credential")
    /\ Done(c, request[c].user \in registered /\ password[request[c].user] = request[c].value)
    /\ UNCHANGED users /\ Quietly

ProveCurrent(c) ==
    /\ Doing(c, "prove")
    /\ IF password[request[c].user] = request[c].seen THEN Move(c, "write") ELSE Done(c, FALSE)
    /\ UNCHANGED users /\ Quietly

CheckStaff(c) ==
    /\ Doing(c, "check")
    /\ IF request[c].user \in registered /\ request[c].shop \in staff[request[c].user]
       THEN Move(c, "write") ELSE Done(c, FALSE)
    /\ UNCHANGED users /\ Quietly

writePasswordHash(c) ==
    LET u == request[c].user
    IN  /\ Doing(c, "write")
        /\ password' = [password EXCEPT ![u] = request[c].value]
        /\ held' = [d \in Caller |-> IF request[d].user = u THEN held[d] \cup {password'[u]} ELSE held[d]]
        /\ Done(c, TRUE)
        /\ UNCHANGED <<registered, googleSub, staff, admins, revoked, counters>>

FindAccount(c) ==
    /\ Doing(c, "find")
    /\ IF request[c].user \in registered THEN Move(c, "flag") ELSE Done(c, FALSE)
    /\ UNCHANGED users /\ Quietly

SetFlag(c) ==
    /\ Doing(c, "flag")
    /\ LET u == request[c].user
       IN  IF Is(c, "grant") THEN admins' = admins \cup {u} /\ UNCHANGED revoked
           ELSE /\ admins' = admins \ {u}
                /\ revoked' = IF Granting(u) THEN revoked ELSE revoked \cup {u}
    /\ Done(c, TRUE)
    /\ UNCHANGED <<registered, googleSub, password, staff, held, counters>>

\* SyncPlatformAdminsFromEnv, in the order of a map: one update per address.
SyncOne(c) ==
    /\ Doing(c, "sync")
    /\ \E u \in request[c].todo :
          /\ admins' = admins \cup ({u} \cap registered)
          /\ Goto(c, [request[c] EXCEPT !.todo = @ \ {u}])
    /\ UNCHANGED <<registered, googleSub, password, staff>> /\ Quietly

Synced(c) ==
    /\ Doing(c, "sync") /\ request[c].todo = {}
    /\ Done(c, TRUE)
    /\ UNCHANGED users /\ Quietly

\* A statement fails: the login goes on without its bind, any other call is
\* refused, and a boot dies.
Fails(c) ==
    /\ request[c].at \notin {"idle", "done"} /\ cuts < MaxCuts
    /\ cuts' = cuts + 1
    /\ Done(c, Doing(c, "bind"))
    /\ UNCHANGED <<users, revoked, held, callsMade, otherWrites>>

Answer(c) ==
    /\ Doing(c, "done")
    /\ Goto(c, Free)
    /\ held' = [held EXCEPT ![c] = {}]
    /\ UNCHANGED <<users, revoked, counters>>

----------------------------------------------------------------------------
\* Registration, AddMember and RemoveMember, each its one write to this state.

Elsewhere ==
    /\ otherWrites < MaxOther
    /\ otherWrites' = otherWrites + 1
    /\ UNCHANGED <<googleSub, password, admins, request, revoked, callsMade, cuts>>
    /\ held' = [c \in Caller |-> IF request[c].user = Nobody THEN held[c]
                                 ELSE held[c] \cup HeldBy(request[c].user)']

Register(u) ==
    /\ u \notin registered
    /\ registered' = registered \cup {u}
    /\ UNCHANGED staff
    /\ Elsewhere

JoinOrLeave(u, t) ==
    /\ u \in registered
    /\ staff' = [staff EXCEPT ![u] = IF t \in @ THEN @ \ {t} ELSE @ \cup {t}]
    /\ UNCHANGED registered
    /\ Elsewhere

AccountStep(c) ==
    \/ FindBySub(c) \/ FindByEmail(c) \/ BindSub(c) \/ CheckCredential(c) \/ ProveCurrent(c)
    \/ CheckStaff(c) \/ writePasswordHash(c) \/ FindAccount(c) \/ SetFlag(c)
    \/ SyncOne(c) \/ Synced(c)

AccountsNext ==
    \/ \E c \in Caller, u \in Account :
          \/ \E s \in Sub : LoginWithGoogle(c, u, s)
          \/ \E p \in Password : Login(c, u, p) \/ \E q \in Password \ {p} : ChangeOwnPassword(c, u, p, q)
          \/ \E t \in Shop, p \in Password : SetMemberPassword(c, t, u, p)
          \/ GrantPlatformAdmin(c, u) \/ RevokePlatformAdmin(c, u)
    \/ \E c \in Caller : Boot(c) \/ AccountStep(c) \/ Fails(c) \/ Answer(c)
    \/ \E u \in Account : Register(u) \/ \E t \in Shop : JoinOrLeave(u, t)

AccountsSpec == AccountsInit /\ [][AccountsNext]_accountVars

----------------------------------------------------------------------------
\* Properties.

\* Every variable stays in its domain, and no subject is two users'.
AccountsTypeOK ==
    /\ registered \subseteq Account /\ admins \subseteq registered
    /\ googleSub \in [Account -> Sub \cup {Nobody}]
    /\ \A u, v \in Account : googleSub[u] = googleSub[v] /\ googleSub[u] # Nobody => u = v
    /\ password \in [Account -> Password] /\ staff \in [Account -> SUBSET Shop]
    /\ \A c \in Caller : request[c].todo \subseteq Account /\ held[c] \subseteq Password \cup Shop
    /\ revoked \subseteq Account
    /\ callsMade \in 0..MaxCalls /\ cuts \in 0..MaxCuts /\ otherWrites \in 0..MaxOther

(***************************************************************************)
(* login.go:103-111: "future logins resolve directly by sub". A login with *)
(* a subject that was bound when it began signs that user in, whatever     *)
(* address the token names, unless the subject was replaced meanwhile.     *)
(***************************************************************************)
SubDecides ==
    \A c \in Caller :
        /\ Is(c, "google") /\ request[c].at = "done" /\ request[c].accepted
        /\ request[c].owner # Nobody
        => request[c].user = request[c].owner

(***************************************************************************)
(* login.go:139-140: "guard against overwriting". A bound subject is       *)
(* replaced only by a login that began before the account was bound: the   *)
(* guard is read before the write and not part of it.                      *)
(***************************************************************************)
SubKept ==
    [][\A u \in Account : googleSub[u] # Nobody /\ googleSub'[u] # googleSub[u] =>
          \E c \in Caller :
              /\ Doing(c, "bind") /\ request'[c].at = "done"
              /\ request[c].user = u /\ request[c].seen = Nobody]_accountVars

(***************************************************************************)
(* password.go: a password login and a password change are let through on  *)
(* a password that was the user's during the call, and an owner's reset    *)
(* only for somebody who was on the owner's staff during it. A reset may   *)
(* fall between a change's proof and its write, and is then overwritten.   *)
(***************************************************************************)
CredentialsProven ==
    \A c \in Caller : request[c].at = "done" /\ request[c].accepted =>
        /\ Is(c, "login") => request[c].value \in held[c]
        /\ Is(c, "change") => request[c].seen \in held[c]
        /\ Is(c, "reset") => request[c].shop \in held[c]

(***************************************************************************)
(* platform_admin.go:34: "It only ever adds the flag", at boot, and        *)
(* revoking is a write. A revoke holds until a grant, or a boot whose list *)
(* has the user, runs beside it or after it: every boot grants again.      *)
(***************************************************************************)
RevokeHolds == revoked \cap admins = {}

\* The tables stay in their domains, nobody gets in on what was not theirs, and
\* nobody stays a platform admin for want of a write.
CredentialsSound == AccountsTypeOK /\ SubDecides /\ CredentialsProven /\ RevokeHolds
=============================================================================
