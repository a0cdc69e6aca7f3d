----------------------------- MODULE Profiles -----------------------------
(***************************************************************************)
(* Accounts, memberships and profiles of one tenant, with the PINs that    *)
(* unlock a shared device: AddMember in internal/auth/branch.go;           *)
(* RemoveMember, SetMemberStatus, SetMemberPin, SetOwnPin, ResolvePin,     *)
(* PinAvailable, UpdateOwnProfile and writePinHash in                      *)
(* internal/auth/member_manage.go. Tokens and the last-manager guard are   *)
(* in DeviceTokens and Members: here a removal or suspension may be        *)
(* refused. Handlers interleave statement by statement.                    *)
(***************************************************************************)
EXTENDS Naturals

CONSTANTS
    User,      \* people, each with one email address
    Founder,   \* registered the tenant
    Pin,
    MaxJoins,  \* bound: memberships ever created
    Request,   \* slots: how many handlers are in flight at once
    MayFail,   \* statements fail and requests are cancelled
    Nil

ASSUME FounderAssumption == Founder \in User
ASSUME BoundAssumption == MaxJoins \in Nat
ASSUME MayFailAssumption == MayFail \in BOOLEAN

Membership == [join : 1..MaxJoins, status : {"active", "suspended"}]
Profile == [pin : Pin \cup {Nil}]

ASSUME NilAssumption == Nil \notin User \cup Pin \cup Nat \cup Membership \cup Profile

VARIABLES
    account,   \* people with a row in users
    member,    \* tenant_users: user -> row; join stands for its id and creation time
    joins,     \* memberships created so far
    profile,   \* user_profiles in the tenant's schema: user -> row
    req,       \* the handlers in flight
    misled,    \* history: has another handler written since this one began, or a read failed unnoticed
    leftover   \* history: profiles that nobody is going to delete

profileTables == <<account, member, joins, profile>>
profileVars == <<profileTables, req, misled, leftover>>

Op == {"add", "remove", "suspend", "reactivate", "pin", "resolve", "edit"}

\* created: AddMember created the account; left: the members whose PIN is still
\* to be compared.
Handler ==
    [pc : {"idle", "account", "newAccount", "exists", "create", "newProfile", "lookup", "write",
           "cleanup", "isMember", "members", "compare", "pin", "hasProfile", "editNew"},
     op : Op \cup {"none"},
     user : User \cup {Nil},
     pin : Pin \cup {Nil},
     created : BOOLEAN,
     join : Nat \cup {Nil},
     left : SUBSET User]

Idle == [pc |-> "idle", op |-> "none", user |-> Nil, pin |-> Nil, created |-> FALSE,
         join |-> Nil, left |-> {}]

ProfilesTypeOK ==
    /\ account \subseteq User
    /\ member \in [User -> Membership \cup {Nil}]
    /\ joins \in 0..MaxJoins
    /\ profile \in [User -> Profile \cup {Nil}]
    /\ req \in [Request -> Handler]
    /\ \A r \in Request : req[r].op = "pin" => req[r].user \notin req[r].left
    /\ misled \in [Request -> BOOLEAN]
    /\ leftover \subseteq User

\* Other people may have an account from another tenant.
ProfilesInit ==
    /\ \E others \in SUBSET User : account = others \cup {Founder}
    /\ MaxJoins > 0 /\ joins = 1
    /\ member = [u \in User |-> IF u = Founder THEN [join |-> 1, status |-> "active"] ELSE Nil]
    /\ profile = [u \in User |-> IF u = Founder THEN [pin |-> Nil] ELSE Nil]
    /\ req = [r \in Request |-> Idle]
    /\ misled = [r \in Request |-> FALSE]
    /\ leftover = {}

Active(u) == member[u] # Nil /\ member[u].status # "suspended"
HasPin(u, pin) == profile[u] # Nil /\ profile[u].pin = pin

Handling(r, pc) == req[r].pc = pc
HandlerGoes(r, pc) == req' = [req EXCEPT ![r].pc = pc]
Return(r) == req' = [req EXCEPT ![r] = Idle]
Begin(r, handler) == Handling(r, "idle") /\ req' = [req EXCEPT ![r] = handler] /\ UNCHANGED profileTables

BeginAddMember(r, u) == Begin(r, [Idle EXCEPT !.pc = "account", !.op = "add", !.user = u])

BeginMemberOp(r, op, u) == Begin(r, [Idle EXCEPT !.pc = "lookup", !.op = op, !.user = u])

\* The owner sets it for a member, or a member, whom the gateway let through,
\* for himself. A pin of Nil clears it.
BeginSetPin(r, u, pin) ==
    \E own \in BOOLEAN :
       /\ own => Active(u)
       /\ Begin(r, [Idle EXCEPT !.op = "pin", !.user = u, !.pin = pin,
                      !.pc = IF ~own THEN "isMember" ELSE IF pin = Nil THEN "pin" ELSE "members"])

BeginResolvePin(r, pin) == Begin(r, [Idle EXCEPT !.pc = "members", !.op = "resolve", !.pin = pin])

BeginUpdateOwnProfile(r, u) ==
    Active(u) /\ Begin(r, [Idle EXCEPT !.pc = "hasProfile", !.op = "edit", !.user = u])

----------------------------------------------------------------------------
(* AddMember *)

FindAccount(r) ==
    /\ Handling(r, "account")
    /\ HandlerGoes(r, IF req[r].user \in account THEN "exists" ELSE "newAccount")
    /\ UNCHANGED profileTables

\* Another handler, here or in another tenant, may have created it since; the
\* unique index on the email then refuses.
CreateAccount(r) ==
    /\ Handling(r, "newAccount")
    /\ \/ /\ req[r].user \notin account
          /\ account' = account \cup {req[r].user}
          /\ req' = [req EXCEPT ![r].pc = "exists", ![r].created = TRUE]
       \/ req[r].user \in account /\ Return(r) /\ UNCHANGED account
    /\ UNCHANGED <<member, joins, profile>>

CheckNotMember(r) ==
    /\ Handling(r, "exists")
    /\ IF member[req[r].user] = Nil THEN HandlerGoes(r, "create") ELSE Return(r)
    /\ UNCHANGED profileTables

\* Only a new account gets a profile.
AfterJoin(r) == IF req[r].created THEN HandlerGoes(r, "newProfile") ELSE Return(r)

CreateMember(r) ==
    LET u == req[r].user IN
    /\ Handling(r, "create")
    /\ member[u] = Nil
    /\ joins < MaxJoins
    /\ joins' = joins + 1
    /\ member' = [member EXCEPT ![u] = [join |-> joins + 1, status |-> "active"]]
    /\ AfterJoin(r)
    /\ UNCHANGED <<account, profile>>

DuplicateMembership(r) ==
    /\ Handling(r, "create")
    /\ member[req[r].user] # Nil
    /\ Return(r)
    /\ UNCHANGED profileTables

\* The insert of AddMember or UpdateOwnProfile, which finds its key taken if
\* another handler was faster.
CreateProfile(r) ==
    /\ req[r].pc \in {"newProfile", "editNew"}
    /\ profile' = [profile EXCEPT ![req[r].user] = IF @ = Nil THEN [pin |-> Nil] ELSE @]
    /\ Return(r)
    /\ UNCHANGED <<account, member, joins>>

----------------------------------------------------------------------------
(* RemoveMember and SetMemberStatus *)

Lookup(r) ==
    LET m == member[req[r].user] IN
    /\ Handling(r, "lookup")
    /\ m # Nil
    /\ req[r].op # "remove" => m.status = (IF req[r].op = "suspend" THEN "active" ELSE "suspended")
    /\ req' = [req EXCEPT ![r].pc = "write", ![r].join = m.join]
    /\ UNCHANGED profileTables

\* No such member, nothing to change, or refused by the last-manager guard.
LookupReturns(r) ==
    /\ Handling(r, "lookup")
    /\ req[r].op = "reactivate" => Active(req[r].user) \/ member[req[r].user] = Nil
    /\ Return(r)
    /\ UNCHANGED profileTables

RowHeld(r) == member[req[r].user] # Nil /\ member[req[r].user].join = req[r].join

\* Slip: the profile stays.
AfterRemoval_Kept(r) == Return(r)

AfterRemoval(r) == HandlerGoes(r, "cleanup")

RemoveMember(r) ==
    /\ Handling(r, "write")
    /\ req[r].op = "remove"
    /\ RowHeld(r)
    /\ member' = [member EXCEPT ![req[r].user] = Nil]
    /\ AfterRemoval(r)
    /\ UNCHANGED <<account, joins, profile>>

SetStatus(r) ==
    /\ Handling(r, "write")
    /\ req[r].op # "remove"
    /\ RowHeld(r)
    /\ member' = [member EXCEPT ![req[r].user] =
                    [join |-> req[r].join,
                     status |-> IF req[r].op = "suspend" THEN "suspended" ELSE "active"]]
    /\ Return(r)
    /\ UNCHANGED <<account, joins, profile>>

WriteMisses(r) ==
    /\ Handling(r, "write")
    /\ ~RowHeld(r)
    /\ Return(r)
    /\ UNCHANGED profileTables

\* By user id, whoever is a member by now.
DeleteProfile(r) ==
    /\ Handling(r, "cleanup")
    /\ profile' = [profile EXCEPT ![req[r].user] = Nil]
    /\ Return(r)
    /\ UNCHANGED <<account, member, joins>>

----------------------------------------------------------------------------
(* PINs *)

\* Slip: only a member's own choice is guarded.
CheckMember_Unguarded(r) ==
    /\ Handling(r, "isMember")
    /\ IF member[req[r].user] # Nil THEN HandlerGoes(r, "pin") ELSE Return(r)
    /\ UNCHANGED profileTables

\* A suspended member is one too.
CheckMember(r) ==
    /\ Handling(r, "isMember")
    /\ \/ member[req[r].user] # Nil /\ HandlerGoes(r, IF req[r].pin = Nil THEN "pin" ELSE "members")
       \/ member[req[r].user] = Nil /\ Return(r)
    /\ UNCHANGED profileTables

\* Whose PINs are compared: of PinAvailable all active members but the one it is
\* for, of ResolvePin all of them.
Compared(r) == {u \in User : Active(u) /\ (req[r].op = "pin" => u # req[r].user)}

LoadMembers(r) ==
    /\ Handling(r, "members")
    /\ req' = [req EXCEPT ![r].pc = "compare", ![r].left = Compared(r)]
    /\ UNCHANGED profileTables

\* ResolvePin goes through the memberships it loaded by their age.
Turn(r, u) ==
    /\ u \in req[r].left
    /\ req[r].op = "resolve" =>
         \A v \in req[r].left : (member[u] # Nil /\ member[v] # Nil) => member[u].join <= member[v].join

CompareDiffers(r, u) ==
    /\ Handling(r, "compare")
    /\ Turn(r, u)
    /\ ~HasPin(u, req[r].pin)
    /\ req' = [req EXCEPT ![r].left = @ \ {u}]
    /\ UNCHANGED profileTables

\* A profile that cannot be read is passed over like one without a PIN.
Unread(r, u) ==
    /\ MayFail
    /\ Handling(r, "compare")
    /\ Turn(r, u)
    /\ req' = [req EXCEPT ![r].left = @ \ {u}]
    /\ UNCHANGED profileTables

\* The PIN is taken, or ResolvePin answers u.
CompareMatches(r, u) ==
    /\ Handling(r, "compare")
    /\ Turn(r, u)
    /\ HasPin(u, req[r].pin)
    /\ Return(r)
    /\ UNCHANGED profileTables

\* The PIN is free, or ResolvePin knows nobody.
NoMatch(r) ==
    /\ Handling(r, "compare")
    /\ req[r].left = {}
    /\ IF req[r].op = "pin" THEN HandlerGoes(r, "pin") ELSE Return(r)
    /\ UNCHANGED profileTables

\* Without a profile row the update is an error.
WritePin(r) ==
    LET u == req[r].user IN
    /\ Handling(r, "pin")
    /\ profile' = [profile EXCEPT ![u] = IF profile[u] = Nil THEN Nil ELSE [pin |-> req[r].pin]]
    /\ Return(r)
    /\ UNCHANGED <<account, member, joins>>

CheckProfile(r) ==
    /\ Handling(r, "hasProfile")
    /\ IF profile[req[r].user] = Nil THEN HandlerGoes(r, "editNew") ELSE Return(r)
    /\ UNCHANGED profileTables

\* A failed statement, a cancelled request or a crash. The error of the clean-up
\* is dropped by the code and ends the handler the same way.
Abandon(r) ==
    /\ MayFail
    /\ ~Handling(r, "idle")
    /\ Return(r)
    /\ UNCHANGED profileTables

----------------------------------------------------------------------------

Begins(r) ==
    \/ \E u \in User : BeginAddMember(r, u)
    \/ \E op \in {"remove", "suspend", "reactivate"}, u \in User : BeginMemberOp(r, op, u)
    \/ \E u \in User, pin \in Pin \cup {Nil} : BeginSetPin(r, u, pin)
    \/ \E pin \in Pin : BeginResolvePin(r, pin)
    \/ \E u \in User : BeginUpdateOwnProfile(r, u)

HandlerStep(r) ==
    \/ FindAccount(r) \/ CreateAccount(r) \/ CheckNotMember(r)
    \/ CreateMember(r) \/ DuplicateMembership(r) \/ CreateProfile(r)
    \/ Lookup(r) \/ LookupReturns(r) \/ RemoveMember(r) \/ SetStatus(r) \/ WriteMisses(r) \/ DeleteProfile(r)
    \/ CheckMember(r) \/ LoadMembers(r) \/ NoMatch(r) \/ WritePin(r) \/ CheckProfile(r)
    \/ \E u \in User : CompareDiffers(r, u) \/ Unread(r, u) \/ CompareMatches(r, u)

\* The clean-up did not happen, or a handler that was overtaken wrote a profile.
Leaves(r) ==
    IF (Handling(r, "cleanup") /\ Abandon(r)) \/ (CreateProfile(r) /\ misled[r]) THEN {req[r].user} ELSE {}

ProfilesNext ==
    /\ \E r \in Request : Begins(r) \/ HandlerStep(r) \/ Abandon(r)
    /\ misled' = [r \in Request |->
                    /\ req'[r].pc # "idle"
                    /\ \/ misled[r]
                       \/ profileTables' # profileTables /\ req'[r] = req[r]
                       \/ \E u \in User : HasPin(u, req[r].pin) /\ Unread(r, u)]
    /\ leftover' = {u \in leftover \cup UNION {Leaves(r) : r \in Request} : profile'[u] # Nil}

ProfilesSpec == ProfilesInit /\ [][ProfilesNext]_profileVars

----------------------------------------------------------------------------
(* Properties *)

Clash(u, v) == u # v /\ Active(u) /\ Active(v) /\ \E pin \in Pin : HasPin(u, pin) /\ HasPin(v, pin)

\* writePinHash hard-guards uniqueness. Two active members come to share a PIN
\* only if a suspended one is reactivated whose PIN was taken meanwhile, if
\* someone rejoins whose profile was left over, or by a write whose handler
\* was overtaken or could not read a profile.
NoNewClash ==
    \A u, v \in User : (~Clash(u, v) /\ Clash(u, v)') =>
       \E r \in Request :
          \/ SetStatus(r) /\ req[r].op = "reactivate"
          \/ CreateMember(r) /\ profile[req[r].user] # Nil
          \/ WritePin(r) /\ misled[r]

\* RemoveMember deletes the personal data of a member, and with it the PIN, so
\* that none is there when the person is admitted again: a profile outlives its
\* membership only while a handler is about to delete it, or when the deletion
\* failed or another handler wrote the profile in between.
ProfilesOfMembers ==
    \A u \in User : (profile[u] # Nil /\ member[u] = Nil) =>
       u \in leftover \/ \E r \in Request : Handling(r, "cleanup") /\ req[r].user = u

\* ResolvePin answers an active member with this PIN, the one who joined first if
\* there are two, and refuses only if there is none, unless a write came in
\* between or a profile could not be read.
ResolvesFirst ==
    \A r \in Request : (req[r].op = "resolve" /\ ~misled[r]) =>
       /\ \A u \in User : CompareMatches(r, u) =>
             Active(u) /\ \A v \in User : (Active(v) /\ HasPin(v, req[r].pin)) =>
                                             member[u].join <= member[v].join
       /\ NoMatch(r) => ~\E u \in User : Active(u) /\ HasPin(u, req[r].pin)

\* No step makes a PIN ambiguous for a reason other than these, and none
\* resolves one to the wrong member.
PinsSound == [][NoNewClash /\ ResolvesFirst]_profileVars
=============================================================================
