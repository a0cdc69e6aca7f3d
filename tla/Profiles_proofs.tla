--------------------------- MODULE Profiles_proofs ---------------------------
(* Theorems of Profiles, for every set of people, PINs and handlers in      *)
(* flight, and of MCFaults, where registrations stand beside it.            *)
EXTENDS MCFaults, Registration_proofs

\* What a handler has read is still so, unless it was overtaken: the person whose
\* profile it is about to write is a member; the members it has still to compare
\* are active, and whoever holds the PIN is among them; nobody holds the PIN it
\* found free.
HandlerInv(r) ==
    /\ req[r].pc = "idle" => req[r] = Idle
    /\ req[r].pc \notin {"idle", "members", "compare"} => req[r].user \in User
    /\ req[r].pc \in {"members", "compare"} => req[r].op \in {"pin", "resolve"}
    /\ req[r].op = "resolve" => req[r].pc \in {"members", "compare"}
    /\ req[r].op = "pin" => req[r].user \in User
    /\ req[r].pc \in {"isMember", "pin"} => req[r].op = "pin"
    /\ req[r].pc \in {"lookup", "write"} => req[r].op \in {"remove", "suspend", "reactivate"}
    /\ ~misled[r] =>
          /\ req[r].pc \in {"newProfile", "hasProfile", "editNew"} => member[req[r].user] # Nil
          /\ req[r].pc = "compare" =>
                /\ \A v \in req[r].left : Active(v)
                /\ \A v \in User : Active(v) /\ HasPin(v, req[r].pin) =>
                      v \in req[r].left \/ (req[r].op = "pin" /\ v = req[r].user)
          /\ req[r].pc = "pin" /\ req[r].pin # Nil =>
                \A v \in User : Active(v) /\ HasPin(v, req[r].pin) => v = req[r].user

ProfilesInv ==
    /\ ProfilesTypeOK
    /\ \A r \in Request : HandlerInv(r)
    /\ ProfilesOfMembers

----------------------------------------------------------------------------
\* A handler that is not overtaken by its own step nor by another's has seen no
\* write since its last read, and has not passed over the PIN it looks for.
LEMMA MisledIsTyped == ASSUME ProfilesNext PROVE misled' \in [Request -> BOOLEAN]
BY DEF ProfilesNext

LEMMA Unmisled ==
    ASSUME ProfilesTypeOK, ProfilesNext, NEW r \in Request, ~misled'[r], req'[r].pc # "idle"
    PROVE  /\ ~misled[r]
           /\ req'[r] = req[r] => UNCHANGED profileTables
           /\ \A u \in User : Unread(r, u) => ~HasPin(u, req[r].pin)
<1>1. misled'[r] = (/\ req'[r].pc # "idle"
                    /\ \/ misled[r]
                       \/ profileTables' # profileTables /\ req'[r] = req[r]
                       \/ \E u \in User : HasPin(u, req[r].pin) /\ Unread(r, u))
  BY DEF ProfilesNext
<1>2. QED
  BY <1>1, Zenon

LEMMA OtherHandlersKeep ==
    ASSUME ProfilesInv, ProfilesNext, NEW r \in Request, req'[r] = req[r]
    PROVE  HandlerInv(r)'
<1>1. ProfilesTypeOK /\ HandlerInv(r)
  BY DEF ProfilesInv
<1>2. CASE req[r].pc = "idle"
  <2>1. req'[r] = Idle
    BY <1>1, <1>2 DEF HandlerInv
  <2>2. QED
    BY <2>1 DEF HandlerInv, Idle
<1>3. CASE misled'[r]
  BY <1>1, <1>3 DEF HandlerInv
<1>4. CASE ~misled'[r] /\ req[r].pc # "idle"
  <2>1. ~misled[r] /\ UNCHANGED profileTables
    BY <1>1, <1>4, Unmisled
  <2>2. UNCHANGED <<member, profile>>
    BY <2>1 DEF profileTables
  <2>3. QED
    BY <1>1, <2>1, <2>2 DEF HandlerInv, Active, HasPin
<1>5. QED
  BY <1>2, <1>3, <1>4

----------------------------------------------------------------------------
\* One handler's step: it moves nobody else, and leaves its own facts in place.
TablesTyped ==
    /\ account \subseteq User
    /\ member \in [User -> Membership \cup {Nil}]
    /\ joins \in 0..MaxJoins
    /\ profile \in [User -> Profile \cup {Nil}]

Handled(s) ==
    /\ TablesTyped'
    /\ \E h \in Handler : req' = [req EXCEPT ![s] = h] /\ (h.op = "pin" => h.user \notin h.left)
    /\ HandlerInv(s)'

LEMMA IdleIsIdle ==
    /\ Idle \in Handler /\ Idle.pc = "idle" /\ Idle.op = "none" /\ Idle.user = Nil /\ Idle.pin = Nil
    /\ Idle.left = {} /\ Idle.join = Nil
BY DEF Idle, Handler

LEMMA ReturnHandles ==
    ASSUME ProfilesInv, NEW s \in Request, Return(s), TablesTyped' PROVE Handled(s)
<1>1. PICK h : h = Idle
  OBVIOUS
<1>2. h \in Handler /\ h.pc = "idle" /\ h.op = "none"
  BY <1>1, IdleIsIdle
<1>3. req' = [req EXCEPT ![s] = h] /\ req'[s] = h
  BY <1>1 DEF Return, ProfilesInv, ProfilesTypeOK
<1>4. HandlerInv(s)'
  BY <1>1, <1>2, <1>3 DEF HandlerInv
<1>5. QED
  BY <1>2, <1>3, <1>4 DEF Handled

\* A handler that goes on to read or write something.
LEMMA GoesOn ==
    ASSUME ProfilesInv, NEW s \in Request, NEW pc, HandlerGoes(s, pc),
           pc \in {"exists", "newAccount", "create", "newProfile", "write", "cleanup", "members", "pin",
                   "hasProfile", "editNew"}
    PROVE  \E h \in Handler :
              /\ req' = [req EXCEPT ![s] = h] /\ req'[s] = h /\ h = [req[s] EXCEPT !.pc = pc]
              /\ h.pc = pc /\ h.op = req[s].op /\ h.user = req[s].user /\ h.pin = req[s].pin
              /\ h.left = req[s].left /\ h.join = req[s].join
              /\ h.op = "pin" => h.user \notin h.left
<1>1. req[s] \in Handler /\ req \in [Request -> Handler] /\ (req[s].op = "pin" => req[s].user \notin req[s].left)
  BY DEF ProfilesInv, ProfilesTypeOK
<1>2. PICK h : h = [req[s] EXCEPT !.pc = pc]
  OBVIOUS
<1>3. /\ h.pc = pc /\ h.op = req[s].op /\ h.user = req[s].user /\ h.pin = req[s].pin
      /\ h.left = req[s].left /\ h.join = req[s].join /\ h \in Handler
  BY <1>1, <1>2 DEF Handler
<1>4. req' = [req EXCEPT ![s] = h] /\ req'[s] = h
  BY <1>1, <1>2 DEF HandlerGoes
<1>5. QED
  BY <1>1, <1>2, <1>3, <1>4

LEMMA TablesStay == ASSUME ProfilesInv, UNCHANGED profileTables PROVE TablesTyped'
BY DEF ProfilesInv, ProfilesTypeOK, TablesTyped, profileTables

LEMMA BeginHandles ==
    ASSUME ProfilesInv, ProfilesNext, NEW s \in Request, Begins(s) PROVE Handled(s)
<1>1. TablesTyped' /\ UNCHANGED <<member, profile>>
  BY TablesStay DEF Begins, BeginAddMember, BeginMemberOp, BeginSetPin, BeginResolvePin,
     BeginUpdateOwnProfile, Begin, profileTables
<1>2. req \in [Request -> Handler] /\ Nil \notin Pin
  BY NilAssumption DEF ProfilesInv, ProfilesTypeOK
<1>3. ASSUME NEW h \in Handler, Begin(s, h), h.left = {},
             h.pc \in {"account", "lookup", "isMember", "pin", "members", "hasProfile"},
             h.pc # "members" => h.user \in User,
             h.pc = "members" => h.op \in {"pin", "resolve"},
             h.op = "resolve" => h.pc = "members",
             h.op = "pin" => h.user \in User,
             h.pc \in {"isMember", "pin"} => h.op = "pin",
             h.pc = "lookup" => h.op \in {"remove", "suspend", "reactivate"},
             h.pc = "pin" => h.pin = Nil,
             h.pc = "hasProfile" => Active(h.user)
      PROVE  Handled(s)
  <2>1. req' = [req EXCEPT ![s] = h] /\ req'[s] = h
    BY <1>2, <1>3 DEF Begin
  <2>2. HandlerInv(s)'
    BY <1>1, <1>3, <2>1 DEF HandlerInv, Active
  <2>3. QED
    BY <1>1, <1>3, <2>1, <2>2 DEF Handled
<1>4. ASSUME NEW u \in User, BeginAddMember(s, u) PROVE Handled(s)
  <2>1. PICK h : h = [Idle EXCEPT !.pc = "account", !.op = "add", !.user = u]
    OBVIOUS
  <2>2. h \in Handler /\ h.pc = "account" /\ h.op = "add" /\ h.user = u /\ h.left = {}
    BY <2>1 DEF Idle, Handler, Op
  <2>3. QED
    BY <1>3, <1>4, <2>1, <2>2 DEF BeginAddMember
<1>5. ASSUME NEW op \in {"remove", "suspend", "reactivate"}, NEW u \in User, BeginMemberOp(s, op, u)
      PROVE  Handled(s)
  <2>1. PICK h : h = [Idle EXCEPT !.pc = "lookup", !.op = op, !.user = u]
    OBVIOUS
  <2>2. h \in Handler /\ h.pc = "lookup" /\ h.op = op /\ h.user = u /\ h.left = {}
    BY <2>1 DEF Idle, Handler, Op
  <2>3. QED
    BY <1>3, <1>5, <2>1, <2>2 DEF BeginMemberOp
<1>6. ASSUME NEW u \in User, NEW pin \in Pin \cup {Nil}, BeginSetPin(s, u, pin) PROVE Handled(s)
  <2>1. PICK pc \in {"isMember", "pin", "members"} :
           /\ Begin(s, [Idle EXCEPT !.op = "pin", !.user = u, !.pin = pin, !.pc = pc])
           /\ pc = "pin" => pin = Nil
    BY <1>6 DEF BeginSetPin
  <2>2. PICK h : h = [Idle EXCEPT !.op = "pin", !.user = u, !.pin = pin, !.pc = pc]
    OBVIOUS
  <2>3. h \in Handler /\ h.pc = pc /\ h.op = "pin" /\ h.user = u /\ h.left = {} /\ h.pin = pin
    BY <2>2 DEF Idle, Handler, Op
  <2>4. QED
    BY <1>3, <2>1, <2>2, <2>3
<1>7. ASSUME NEW pin \in Pin, BeginResolvePin(s, pin) PROVE Handled(s)
  <2>1. PICK h : h = [Idle EXCEPT !.pc = "members", !.op = "resolve", !.pin = pin]
    OBVIOUS
  <2>2. h \in Handler /\ h.pc = "members" /\ h.op = "resolve" /\ h.left = {}
    BY <2>1 DEF Idle, Handler, Op
  <2>3. QED
    BY <1>3, <1>7, <2>1, <2>2 DEF BeginResolvePin
<1>8. ASSUME NEW u \in User, BeginUpdateOwnProfile(s, u) PROVE Handled(s)
  <2>1. PICK h : h = [Idle EXCEPT !.pc = "hasProfile", !.op = "edit", !.user = u]
    OBVIOUS
  <2>2. h \in Handler /\ h.pc = "hasProfile" /\ h.op = "edit" /\ h.user = u /\ h.left = {}
    BY <2>1 DEF Idle, Handler, Op
  <2>3. QED
    BY <1>3, <1>8, <2>1, <2>2 DEF BeginUpdateOwnProfile
<1>9. QED
  BY <1>4, <1>5, <1>6, <1>7, <1>8 DEF Begins

\* Where nothing that was read is relied upon yet.
LEMMA PlainHandles ==
    ASSUME ProfilesInv, NEW s \in Request, TablesTyped', NEW pc, HandlerGoes(s, pc),
           \/ /\ pc \in {"exists", "newAccount", "create", "cleanup"}
              /\ req[s].pc \notin {"idle", "members", "compare"}
           \/ pc = "members" /\ req[s].op = "pin"
    PROVE  Handled(s)
<1>1. PICK h \in Handler :
         /\ req' = [req EXCEPT ![s] = h] /\ req'[s] = h /\ h.pc = pc
         /\ h.op = req[s].op /\ h.user = req[s].user /\ (h.op = "pin" => h.user \notin h.left)
  BY GoesOn
<1>2. HandlerInv(s)
  BY DEF ProfilesInv
<1>3. HandlerInv(s)'
  BY <1>1, <1>2 DEF HandlerInv
<1>4. QED
  BY <1>1, <1>3 DEF Handled

LEMMA FindAccountHandles ==
    ASSUME ProfilesInv, NEW s \in Request, FindAccount(s) PROVE Handled(s)
BY TablesStay, PlainHandles DEF FindAccount, Handling

LEMMA CreateAccountHandles ==
    ASSUME ProfilesInv, NEW s \in Request, CreateAccount(s) PROVE Handled(s)
<1>1. HandlerInv(s) /\ ProfilesTypeOK /\ req[s].user \in User /\ req[s].op # "resolve"
  BY DEF ProfilesInv, HandlerInv, CreateAccount, Handling
<1>2. TablesTyped'
  BY <1>1 DEF TablesTyped, ProfilesTypeOK, CreateAccount
<1>3. CASE req' = [req EXCEPT ![s].pc = "exists", ![s].created = TRUE]
  <2>1. PICK h : h = [req[s] EXCEPT !.pc = "exists", !.created = TRUE]
    OBVIOUS
  <2>2. req[s] \in Handler /\ req \in [Request -> Handler]
        /\ (req[s].op = "pin" => req[s].user \notin req[s].left)
    BY <1>1 DEF ProfilesTypeOK
  <2>3. h \in Handler /\ h.pc = "exists" /\ h.op = req[s].op /\ h.user = req[s].user /\ h.left = req[s].left
    BY <2>1, <2>2 DEF Handler
  <2>4. req' = [req EXCEPT ![s] = h] /\ req'[s] = h
    BY <1>3, <2>1, <2>2
  <2>5. HandlerInv(s)'
    BY <1>1, <2>3, <2>4 DEF HandlerInv
  <2>6. QED
    BY <1>2, <2>2, <2>3, <2>4, <2>5 DEF Handled
<1>4. CASE Return(s)
  BY <1>2, <1>4, ReturnHandles
<1>5. QED
  BY <1>3, <1>4 DEF CreateAccount

LEMMA CheckNotMemberHandles ==
    ASSUME ProfilesInv, NEW s \in Request, CheckNotMember(s) PROVE Handled(s)
BY TablesStay, PlainHandles, ReturnHandles DEF CheckNotMember, Handling

LEMMA JoinTyped ==
    ASSUME ProfilesInv, NEW s \in Request, CreateMember(s)
    PROVE  TablesTyped' /\ req[s].user \in User /\ member'[req[s].user] # Nil
<1>1. HandlerInv(s) /\ ProfilesTypeOK /\ req[s].user \in User
  BY DEF ProfilesInv, HandlerInv, CreateMember, Handling
<1>2. joins + 1 \in 1..MaxJoins
  BY <1>1, BoundAssumption DEF CreateMember, ProfilesTypeOK
<1>3. [join |-> joins + 1, status |-> "active"] \in Membership
  BY <1>2 DEF Membership
<1>4. PICK m : m = [join |-> joins + 1, status |-> "active"]
  OBVIOUS
<1>5. m \in Membership /\ m # Nil /\ member' = [member EXCEPT ![req[s].user] = m]
  BY <1>3, <1>4, NilAssumption DEF CreateMember
<1>6. TablesTyped'
  BY <1>1, <1>2, <1>5 DEF TablesTyped, ProfilesTypeOK, CreateMember
<1>7. QED
  BY <1>1, <1>5, <1>6 DEF ProfilesTypeOK

LEMMA CreateMemberHandles ==
    ASSUME ProfilesInv, NEW s \in Request, CreateMember(s) PROVE Handled(s)
<1>1. TablesTyped' /\ req[s].user \in User /\ member'[req[s].user] # Nil
  BY JoinTyped
<1>2. HandlerInv(s)
  BY DEF ProfilesInv
<1>3. CASE Return(s)
  BY <1>1, <1>3, ReturnHandles
<1>4. CASE HandlerGoes(s, "newProfile")
  <2>1. PICK h \in Handler :
           /\ req' = [req EXCEPT ![s] = h] /\ req'[s] = h /\ h.pc = "newProfile"
           /\ h.op = req[s].op /\ h.user = req[s].user /\ (h.op = "pin" => h.user \notin h.left)
    BY <1>4, GoesOn
  <2>2. req[s].op # "resolve"
    BY <1>2 DEF HandlerInv, CreateMember, Handling
  <2>3. HandlerInv(s)'
    BY <1>1, <1>2, <2>1, <2>2 DEF HandlerInv
  <2>4. QED
    BY <1>1, <2>1, <2>3 DEF Handled
<1>5. QED
  BY <1>3, <1>4 DEF CreateMember, AfterJoin

LEMMA DuplicateMembershipHandles ==
    ASSUME ProfilesInv, NEW s \in Request, DuplicateMembership(s) PROVE Handled(s)
BY TablesStay, ReturnHandles DEF DuplicateMembership

\* What a write of a profile leaves: one of Profile, or none.
LEMMA ProfileTyped ==
    ASSUME ProfilesInv, NEW u \in User, NEW p \in Profile \cup {Nil}, UNCHANGED <<account, member, joins>>,
           profile' = [profile EXCEPT ![u] = p]
    PROVE  TablesTyped'
BY DEF ProfilesInv, ProfilesTypeOK, TablesTyped

LEMMA CreateProfileHandles ==
    ASSUME ProfilesInv, NEW s \in Request, CreateProfile(s)
    PROVE  /\ Handled(s) /\ req[s].user \in User
           /\ \E p \in Profile : /\ profile' = [profile EXCEPT ![req[s].user] = p]
                                 /\ profile[req[s].user] # Nil => p = profile[req[s].user]
                                 /\ profile[req[s].user] = Nil => p.pin = Nil
<1>1. req[s].user \in User /\ profile \in [User -> Profile \cup {Nil}]
  BY DEF ProfilesInv, ProfilesTypeOK, HandlerInv, CreateProfile
<1>2. [pin |-> Nil] \in Profile
  BY DEF Profile
<1>3. PICK p : p = IF profile[req[s].user] = Nil THEN [pin |-> Nil] ELSE profile[req[s].user]
  OBVIOUS
<1>4. /\ p \in Profile /\ (profile[req[s].user] # Nil => p = profile[req[s].user])
      /\ profile[req[s].user] = Nil => p.pin = Nil
  BY <1>1, <1>2, <1>3
<1>5. profile' = [profile EXCEPT ![req[s].user] = p]
  BY <1>1, <1>3 DEF CreateProfile
<1>6. TablesTyped'
  BY <1>1, <1>4, <1>5, ProfileTyped DEF CreateProfile
<1>7. Handled(s)
  BY <1>6, ReturnHandles DEF CreateProfile
<1>8. QED
  BY <1>1, <1>4, <1>5, <1>7

LEMMA LookupHandles ==
    ASSUME ProfilesInv, NEW s \in Request, Lookup(s) PROVE Handled(s)
<1>1. /\ HandlerInv(s) /\ ProfilesTypeOK /\ req[s].user \in User /\ req[s].op # "resolve"
      /\ req[s].pc = "lookup"
  BY DEF ProfilesInv, HandlerInv, Lookup, Handling
<1>2. TablesTyped'
  BY TablesStay DEF Lookup
<1>3. PICK j : j = member[req[s].user].join
  OBVIOUS
<1>4. j \in Nat
  BY <1>1, <1>3, BoundAssumption DEF Lookup, ProfilesTypeOK, Membership
<1>5. PICK h : h = [req[s] EXCEPT !.pc = "write", !.join = j]
  OBVIOUS
<1>6. /\ req[s] \in Handler /\ req \in [Request -> Handler]
      /\ req[s].op = "pin" => req[s].user \notin req[s].left
  BY <1>1 DEF ProfilesTypeOK
<1>7. h \in Handler /\ h.pc = "write" /\ h.op = req[s].op /\ h.user = req[s].user /\ h.left = req[s].left
  BY <1>4, <1>5, <1>6 DEF Handler
<1>8. req' = [req EXCEPT ![s] = h] /\ req'[s] = h
  BY <1>3, <1>5, <1>6 DEF Lookup
<1>9. HandlerInv(s)'
  BY <1>1, <1>7, <1>8 DEF HandlerInv
<1>10. QED
  BY <1>2, <1>6, <1>7, <1>8, <1>9 DEF Handled

LEMMA LookupReturnsHandles ==
    ASSUME ProfilesInv, NEW s \in Request, LookupReturns(s) PROVE Handled(s)
BY TablesStay, ReturnHandles DEF LookupReturns

LEMMA RemoveMemberHandles ==
    ASSUME ProfilesInv, NEW s \in Request, RemoveMember(s) PROVE Handled(s)
<1>1. TablesTyped'
  BY DEF ProfilesInv, ProfilesTypeOK, TablesTyped, RemoveMember
<1>2. QED
  BY <1>1, PlainHandles DEF RemoveMember, AfterRemoval, Handling

\* The row that is written is the one that was read, with its new status.
LEMMA StatusTyped ==
    ASSUME ProfilesInv, NEW s \in Request, SetStatus(s)
    PROVE  /\ TablesTyped' /\ req[s].user \in User /\ member[req[s].user] # Nil
           /\ \E m \in Membership :
                 /\ member' = [member EXCEPT ![req[s].user] = m]
                 /\ m.status = IF req[s].op = "suspend" THEN "suspended" ELSE "active"
<1>1. HandlerInv(s) /\ ProfilesTypeOK /\ req[s].user \in User
  BY DEF ProfilesInv, HandlerInv, SetStatus, Handling
<1>2. member[req[s].user] \in Membership /\ member[req[s].user].join = req[s].join
  BY <1>1 DEF SetStatus, RowHeld, ProfilesTypeOK
<1>3. req[s].join \in 1..MaxJoins
  BY <1>2 DEF Membership
<1>4. PICK status : status = IF req[s].op = "suspend" THEN "suspended" ELSE "active"
  OBVIOUS
<1>5. PICK m : m = [join |-> req[s].join, status |-> status]
  OBVIOUS
<1>6. status \in {"active", "suspended"}
  BY <1>4
<1>7. m \in Membership /\ m.status = status
  BY <1>3, <1>5, <1>6 DEF Membership
<1>8. member' = [member EXCEPT ![req[s].user] = m]
  BY <1>4, <1>5 DEF SetStatus
<1>9. TablesTyped'
  BY <1>1, <1>7, <1>8 DEF TablesTyped, ProfilesTypeOK, SetStatus
<1>10. QED
  BY <1>1, <1>4, <1>7, <1>8, <1>9 DEF SetStatus, RowHeld

LEMMA SetStatusHandles ==
    ASSUME ProfilesInv, NEW s \in Request, SetStatus(s) PROVE Handled(s)
BY StatusTyped, ReturnHandles DEF SetStatus

LEMMA WriteMissesHandles ==
    ASSUME ProfilesInv, NEW s \in Request, WriteMisses(s) PROVE Handled(s)
BY TablesStay, ReturnHandles DEF WriteMisses

LEMMA DeleteProfileHandles ==
    ASSUME ProfilesInv, NEW s \in Request, DeleteProfile(s) PROVE Handled(s)
<1>1. TablesTyped'
  BY DEF ProfilesInv, ProfilesTypeOK, TablesTyped, DeleteProfile
<1>2. QED
  BY <1>1, ReturnHandles DEF DeleteProfile

LEMMA CheckMemberHandles ==
    ASSUME ProfilesInv, NEW s \in Request, CheckMember(s) PROVE Handled(s)
<1>1. TablesTyped'
  BY TablesStay DEF CheckMember
<1>2. HandlerInv(s) /\ req[s].pc = "isMember" /\ req[s].op = "pin"
  BY DEF ProfilesInv, HandlerInv, CheckMember, Handling
<1>3. CASE Return(s)
  BY <1>1, <1>3, ReturnHandles
<1>4. CASE HandlerGoes(s, "members")
  BY <1>1, <1>2, <1>4, PlainHandles
<1>5. CASE HandlerGoes(s, "pin") /\ req[s].pin = Nil
  <2>1. PICK h \in Handler :
           /\ req' = [req EXCEPT ![s] = h] /\ req'[s] = h /\ h.pc = "pin" /\ h.pin = req[s].pin
           /\ h.op = req[s].op /\ h.user = req[s].user /\ (h.op = "pin" => h.user \notin h.left)
    BY <1>5, GoesOn
  <2>2. HandlerInv(s)'
    BY <1>2, <1>5, <2>1 DEF HandlerInv
  <2>3. QED
    BY <1>1, <2>1, <2>2 DEF Handled
<1>6. QED
  BY <1>3, <1>4, <1>5 DEF CheckMember

LEMMA LoadMembersHandles ==
    ASSUME ProfilesInv, NEW s \in Request, LoadMembers(s) PROVE Handled(s)
<1>1. TablesTyped' /\ UNCHANGED <<member, profile>>
  BY TablesStay DEF LoadMembers, profileTables
<1>2. /\ HandlerInv(s) /\ req[s].pc = "members" /\ req[s] \in Handler /\ req \in [Request -> Handler]
      /\ req[s].op \in {"pin", "resolve"}
  BY DEF ProfilesInv, ProfilesTypeOK, HandlerInv, LoadMembers, Handling
<1>3. PICK left : left = Compared(s)
  OBVIOUS
<1>4. /\ left \subseteq User /\ \A v \in left : Active(v)
      /\ \A v \in User : Active(v) => v \in left \/ (req[s].op = "pin" /\ v = req[s].user)
      /\ req[s].op = "pin" => req[s].user \notin left
  BY <1>3 DEF Compared
<1>5. PICK h : h = [req[s] EXCEPT !.pc = "compare", !.left = left]
  OBVIOUS
<1>6. /\ h \in Handler /\ h.pc = "compare" /\ h.op = req[s].op /\ h.user = req[s].user
      /\ h.left = left /\ h.pin = req[s].pin
  BY <1>2, <1>4, <1>5 DEF Handler
<1>7. req' = [req EXCEPT ![s] = h] /\ req'[s] = h
  BY <1>2, <1>3, <1>5 DEF LoadMembers
<1>8. HandlerInv(s)'
  BY <1>1, <1>2, <1>4, <1>6, <1>7 DEF HandlerInv, Active, HasPin
<1>9. QED
  BY <1>1, <1>4, <1>6, <1>7, <1>8 DEF Handled

\* u is passed over; unless misled, because it does not hold the PIN.
LEMMA PassHandles ==
    ASSUME ProfilesInv, ProfilesNext, NEW s \in Request, NEW u \in User,
           CompareDiffers(s, u) \/ Unread(s, u)
    PROVE  Handled(s)
<1>1. TablesTyped' /\ UNCHANGED <<member, profile>>
  BY TablesStay DEF CompareDiffers, Unread, profileTables
<1>2. /\ HandlerInv(s) /\ req[s].pc = "compare" /\ req[s] \in Handler /\ req \in [Request -> Handler]
      /\ req[s].op \in {"pin", "resolve"} /\ ProfilesTypeOK
      /\ req[s].op = "pin" => req[s].user \notin req[s].left
  BY DEF ProfilesInv, ProfilesTypeOK, HandlerInv, CompareDiffers, Unread, Handling
<1>3. PICK h : h = [req[s] EXCEPT !.left = req[s].left \ {u}]
  OBVIOUS
<1>4. /\ h \in Handler /\ h.pc = "compare" /\ h.op = req[s].op /\ h.user = req[s].user
      /\ h.left = req[s].left \ {u} /\ h.pin = req[s].pin
  BY <1>2, <1>3 DEF Handler
<1>5. req' = [req EXCEPT ![s] = h] /\ req'[s] = h
  BY <1>2, <1>3 DEF CompareDiffers, Unread
<1>6. ~misled'[s] => ~misled[s] /\ ~HasPin(u, req[s].pin)
  <2>1. SUFFICES ASSUME ~misled'[s] PROVE ~misled[s] /\ ~HasPin(u, req[s].pin)
    OBVIOUS
  <2>2. req'[s].pc # "idle"
    BY <1>4, <1>5
  <2>3. ~misled[s] /\ (Unread(s, u) => ~HasPin(u, req[s].pin))
    BY <1>2, <2>1, <2>2, Unmisled
  <2>4. QED
    BY <2>3 DEF CompareDiffers
<1>7. HandlerInv(s)'
  <2>1. CASE misled'[s]
    BY <1>2, <1>4, <1>5, <2>1 DEF HandlerInv
  <2>2. CASE ~misled'[s]
    <3>1. ~misled[s] /\ ~HasPin(u, req[s].pin)
      BY <1>6, <2>2
    <3>2. /\ \A v \in h.left : Active(v)
          /\ \A v \in User : Active(v) /\ HasPin(v, h.pin) =>
                v \in h.left \/ (h.op = "pin" /\ v = h.user)
      BY <1>2, <1>4, <3>1 DEF HandlerInv
    <3>3. QED
      BY <1>1, <1>2, <1>4, <1>5, <3>2 DEF HandlerInv, Active, HasPin
  <2>3. QED
    BY <2>1, <2>2
<1>8. QED
  BY <1>1, <1>2, <1>4, <1>5, <1>7 DEF Handled

LEMMA CompareMatchesHandles ==
    ASSUME ProfilesInv, NEW s \in Request, NEW u \in User, CompareMatches(s, u) PROVE Handled(s)
BY TablesStay, ReturnHandles DEF CompareMatches

LEMMA NoMatchHandles ==
    ASSUME ProfilesInv, ProfilesNext, NEW s \in Request, NoMatch(s) PROVE Handled(s)
<1>1. TablesTyped' /\ UNCHANGED <<member, profile>>
  BY TablesStay DEF NoMatch, profileTables
<1>2. HandlerInv(s) /\ req[s].pc = "compare" /\ req[s].left = {} /\ ProfilesTypeOK
  BY DEF ProfilesInv, NoMatch, Handling
<1>3. CASE Return(s)
  BY <1>1, <1>3, ReturnHandles
<1>4. CASE HandlerGoes(s, "pin") /\ req[s].op = "pin"
  <2>1. PICK h \in Handler :
           /\ req' = [req EXCEPT ![s] = h] /\ req'[s] = h /\ h.pc = "pin" /\ h.pin = req[s].pin
           /\ h.op = req[s].op /\ h.user = req[s].user /\ (h.op = "pin" => h.user \notin h.left)
    BY <1>4, GoesOn
  <2>2. ~misled'[s] => ~misled[s]
    BY <1>2, <2>1, Unmisled
  <2>3. HandlerInv(s)'
    BY <1>1, <1>2, <1>4, <2>1, <2>2 DEF HandlerInv, Active, HasPin
  <2>4. QED
    BY <1>1, <2>1, <2>3 DEF Handled
<1>5. QED
  BY <1>3, <1>4 DEF NoMatch

LEMMA WritePinHandles ==
    ASSUME ProfilesInv, NEW s \in Request, WritePin(s)
    PROVE  /\ Handled(s) /\ req[s].user \in User
           /\ \E p \in Profile \cup {Nil} :
                 /\ profile' = [profile EXCEPT ![req[s].user] = p]
                 /\ IF profile[req[s].user] = Nil THEN p = Nil ELSE p \in Profile /\ p.pin = req[s].pin
<1>1. /\ req[s].user \in User /\ profile \in [User -> Profile \cup {Nil}] /\ req[s].pin \in Pin \cup {Nil}
  BY DEF ProfilesInv, ProfilesTypeOK, HandlerInv, WritePin, Handling, Handler
<1>2. [pin |-> req[s].pin] \in Profile
  BY <1>1 DEF Profile
<1>3. PICK p : p = IF profile[req[s].user] = Nil THEN Nil ELSE [pin |-> req[s].pin]
  OBVIOUS
<1>4. p \in Profile \cup {Nil}
      /\ IF profile[req[s].user] = Nil THEN p = Nil ELSE p \in Profile /\ p.pin = req[s].pin
  BY <1>2, <1>3
<1>5. profile' = [profile EXCEPT ![req[s].user] = p]
  BY <1>1, <1>3 DEF WritePin
<1>6. TablesTyped'
  BY <1>1, <1>4, <1>5, ProfileTyped DEF WritePin
<1>7. Handled(s)
  BY <1>6, ReturnHandles DEF WritePin
<1>8. QED
  BY <1>1, <1>4, <1>5, <1>7

LEMMA CheckProfileHandles ==
    ASSUME ProfilesInv, ProfilesNext, NEW s \in Request, CheckProfile(s) PROVE Handled(s)
<1>1. TablesTyped' /\ UNCHANGED <<member, profile>>
  BY TablesStay DEF CheckProfile, profileTables
<1>2. HandlerInv(s) /\ req[s].pc = "hasProfile" /\ ProfilesTypeOK
  BY DEF ProfilesInv, CheckProfile, Handling
<1>3. CASE Return(s)
  BY <1>1, <1>3, ReturnHandles
<1>4. CASE HandlerGoes(s, "editNew")
  <2>1. PICK h \in Handler :
           /\ req' = [req EXCEPT ![s] = h] /\ req'[s] = h /\ h.pc = "editNew"
           /\ h.op = req[s].op /\ h.user = req[s].user /\ (h.op = "pin" => h.user \notin h.left)
    BY <1>4, GoesOn
  <2>2. ~misled'[s] => ~misled[s]
    BY <1>2, <2>1, Unmisled
  <2>3. HandlerInv(s)'
    BY <1>1, <1>2, <2>1, <2>2 DEF HandlerInv
  <2>4. QED
    BY <1>1, <2>1, <2>3 DEF Handled
<1>5. QED
  BY <1>3, <1>4 DEF CheckProfile

LEMMA AbandonHandles ==
    ASSUME ProfilesInv, NEW s \in Request, Abandon(s) PROVE Handled(s)
BY TablesStay, ReturnHandles DEF Abandon

LEMMA StepHandles ==
    ASSUME ProfilesInv, ProfilesNext, NEW s \in Request, Begins(s) \/ HandlerStep(s) \/ Abandon(s)
    PROVE  Handled(s)
<1>1. CASE Begins(s)
  BY <1>1, BeginHandles
<1>2. CASE FindAccount(s) \/ CreateAccount(s) \/ CheckNotMember(s) \/ CreateMember(s)
           \/ DuplicateMembership(s) \/ CreateProfile(s)
  BY <1>2, FindAccountHandles, CreateAccountHandles, CheckNotMemberHandles, CreateMemberHandles,
     DuplicateMembershipHandles, CreateProfileHandles
<1>3. CASE Lookup(s) \/ LookupReturns(s) \/ RemoveMember(s) \/ SetStatus(s) \/ WriteMisses(s)
           \/ DeleteProfile(s)
  BY <1>3, LookupHandles, LookupReturnsHandles, RemoveMemberHandles, SetStatusHandles,
     WriteMissesHandles, DeleteProfileHandles
<1>4. CASE CheckMember(s) \/ LoadMembers(s) \/ NoMatch(s) \/ WritePin(s) \/ CheckProfile(s)
  BY <1>4, CheckMemberHandles, LoadMembersHandles, NoMatchHandles, WritePinHandles, CheckProfileHandles
<1>5. ASSUME NEW u \in User, CompareDiffers(s, u) \/ Unread(s, u) \/ CompareMatches(s, u)
      PROVE  Handled(s)
  BY <1>5, PassHandles, CompareMatchesHandles
<1>6. CASE Abandon(s)
  BY <1>6, AbandonHandles
<1>7. QED
  BY <1>1, <1>2, <1>3, <1>4, <1>5, <1>6 DEF HandlerStep

----------------------------------------------------------------------------
\* The steps that write a membership or a profile.
Writes(s) ==
    CreateMember(s) \/ CreateProfile(s) \/ RemoveMember(s) \/ SetStatus(s) \/ DeleteProfile(s) \/ WritePin(s)

Steps(s) == Begins(s) \/ HandlerStep(s) \/ Abandon(s)

LEMMA OnlyTheseWrite ==
    ASSUME NEW s \in Request, Steps(s) PROVE UNCHANGED <<member, profile>> \/ Writes(s)
<1>1. CASE Begins(s)
  BY <1>1 DEF Begins, BeginAddMember, BeginMemberOp, BeginSetPin, BeginResolvePin,
     BeginUpdateOwnProfile, Begin, profileTables
<1>2. CASE FindAccount(s) \/ CreateAccount(s) \/ CheckNotMember(s) \/ DuplicateMembership(s)
  BY <1>2 DEF FindAccount, CreateAccount, CheckNotMember, DuplicateMembership, profileTables
<1>3. CASE Lookup(s) \/ LookupReturns(s) \/ WriteMisses(s) \/ Abandon(s)
  BY <1>3 DEF Lookup, LookupReturns, WriteMisses, Abandon, profileTables
<1>4. CASE CheckMember(s) \/ LoadMembers(s) \/ NoMatch(s) \/ CheckProfile(s)
  BY <1>4 DEF CheckMember, LoadMembers, NoMatch, CheckProfile, profileTables
<1>5. ASSUME NEW u \in User, CompareDiffers(s, u) \/ Unread(s, u) \/ CompareMatches(s, u)
      PROVE  UNCHANGED <<member, profile>>
  BY <1>5 DEF CompareDiffers, Unread, CompareMatches, profileTables
<1>6. QED
  BY <1>1, <1>2, <1>3, <1>4, <1>5 DEF Steps, HandlerStep, Writes

\* Only the clean-up itself, or its failure, leaves the clean-up.
LEMMA CleanupEnds ==
    ASSUME NEW s \in Request, Steps(s), Handling(s, "cleanup") PROVE DeleteProfile(s) \/ Abandon(s)
<1>1. req[s].pc = "cleanup"
  BY DEF Handling
<1>2. ~Begins(s)
  BY <1>1 DEF Begins, BeginAddMember, BeginMemberOp, BeginSetPin, BeginResolvePin,
     BeginUpdateOwnProfile, Begin, Handling
<1>3. ~(FindAccount(s) \/ CreateAccount(s) \/ CheckNotMember(s) \/ CreateMember(s)
        \/ DuplicateMembership(s) \/ CreateProfile(s))
  BY <1>1 DEF FindAccount, CreateAccount, CheckNotMember, CreateMember, DuplicateMembership,
     CreateProfile, Handling
<1>4. ~(Lookup(s) \/ LookupReturns(s) \/ RemoveMember(s) \/ SetStatus(s) \/ WriteMisses(s))
  BY <1>1 DEF Lookup, LookupReturns, RemoveMember, SetStatus, WriteMisses, Handling
<1>5. ~(CheckMember(s) \/ LoadMembers(s) \/ NoMatch(s) \/ WritePin(s) \/ CheckProfile(s))
  BY <1>1 DEF CheckMember, LoadMembers, NoMatch, WritePin, CheckProfile, Handling
<1>6. ~\E u \in User : CompareDiffers(s, u) \/ Unread(s, u) \/ CompareMatches(s, u)
  BY <1>1 DEF CompareDiffers, Unread, CompareMatches, Handling
<1>7. QED
  BY <1>2, <1>3, <1>4, <1>5, <1>6 DEF Steps, HandlerStep

LEMMA LeftoverKept ==
    ASSUME ProfilesInv, ProfilesNext, NEW u, profile'[u] # Nil,
           u \in leftover \/ \E r \in Request : u \in Leaves(r)
    PROVE  u \in leftover'
BY DEF ProfilesNext

LEMMA LeavesTyped == ASSUME ProfilesInv, NEW r \in Request PROVE Leaves(r) \subseteq User
<1>1. CASE Handling(r, "cleanup") \/ CreateProfile(r)
  <2>1. req[r].user \in User
    BY <1>1 DEF ProfilesInv, HandlerInv, Handling, CreateProfile
  <2>2. QED
    BY <2>1 DEF Leaves
<1>2. CASE ~(Handling(r, "cleanup") \/ CreateProfile(r))
  BY <1>2 DEF Leaves
<1>3. QED
  BY <1>1, <1>2

\* A profile that appears is of the handler's person, who is a member unless the
\* handler was overtaken.
LEMMA NoProfileAppears ==
    ASSUME ProfilesInv, NEW s \in Request, Steps(s), NEW u \in User,
           profile[u] = Nil, profile'[u] # Nil
    PROVE  CreateProfile(s) /\ u = req[s].user /\ UNCHANGED member
<1>1. profile \in [User -> Profile \cup {Nil}]
  BY DEF ProfilesInv, ProfilesTypeOK
<1>2. CASE UNCHANGED <<member, profile>> \/ CreateMember(s) \/ RemoveMember(s) \/ SetStatus(s)
  BY <1>2 DEF CreateMember, RemoveMember, SetStatus
<1>3. CASE DeleteProfile(s)
  BY <1>1, <1>3 DEF DeleteProfile
<1>4. CASE WritePin(s)
  <2>1. /\ req[s].user \in User
        /\ \E p \in Profile \cup {Nil} :
              /\ profile' = [profile EXCEPT ![req[s].user] = p]
              /\ profile[req[s].user] = Nil => p = Nil
    BY <1>4, WritePinHandles
  <2>2. QED
    BY <1>1, <2>1
<1>5. CASE CreateProfile(s)
  <2>1. /\ req[s].user \in User /\ UNCHANGED member
        /\ \E p \in Profile : profile' = [profile EXCEPT ![req[s].user] = p]
    BY <1>5, CreateProfileHandles DEF CreateProfile
  <2>2. QED
    BY <1>1, <1>5, <2>1
<1>6. QED
  BY <1>2, <1>3, <1>4, <1>5, OnlyTheseWrite DEF Writes

LEMMA NoMemberVanishes ==
    ASSUME ProfilesInv, NEW s \in Request, Steps(s), NEW u \in User,
           member[u] # Nil, member'[u] = Nil
    PROVE  RemoveMember(s) /\ u = req[s].user
<1>1. member \in [User -> Membership \cup {Nil}] /\ Nil \notin Membership
  BY NilAssumption DEF ProfilesInv, ProfilesTypeOK
<1>2. CASE UNCHANGED <<member, profile>> \/ CreateProfile(s) \/ DeleteProfile(s) \/ WritePin(s)
  BY <1>2 DEF CreateProfile, DeleteProfile, WritePin
<1>3. CASE CreateMember(s)
  BY <1>1, <1>3 DEF CreateMember
<1>4. CASE SetStatus(s)
  <2>1. req[s].user \in User /\ \E m \in Membership : member' = [member EXCEPT ![req[s].user] = m]
    BY <1>4, StatusTyped
  <2>2. QED
    BY <1>1, <2>1
<1>5. CASE RemoveMember(s)
  BY <1>1, <1>5 DEF RemoveMember
<1>6. QED
  BY <1>2, <1>3, <1>4, <1>5, OnlyTheseWrite DEF Writes

LEMMA ProfilesStayMembers ==
    ASSUME ProfilesInv, ProfilesNext, NEW s \in Request, Steps(s)
    PROVE  ProfilesOfMembers'
<1>1. PICK h \in Handler : req' = [req EXCEPT ![s] = h]
  BY StepHandles DEF Handled, Steps
<1>2. /\ req \in [Request -> Handler] /\ ProfilesOfMembers /\ HandlerInv(s)
  BY DEF ProfilesInv, ProfilesTypeOK
<1>3. SUFFICES ASSUME NEW u \in User, profile'[u] # Nil, member'[u] = Nil
               PROVE  u \in leftover' \/ \E r \in Request : Handling(r, "cleanup")' /\ req'[r].user = u
  BY DEF ProfilesOfMembers
<1>4. CASE profile[u] = Nil
  <2>1. CreateProfile(s) /\ u = req[s].user /\ UNCHANGED member
    BY <1>3, <1>4, NoProfileAppears
  <2>2. misled[s]
    BY <1>2, <1>3, <2>1 DEF HandlerInv, CreateProfile
  <2>3. u \in Leaves(s)
    BY <2>1, <2>2 DEF Leaves
  <2>4. QED
    BY <1>3, <2>3, LeftoverKept
<1>5. CASE member[u] # Nil
  <2>1. RemoveMember(s) /\ u = req[s].user
    BY <1>3, <1>5, NoMemberVanishes
  <2>2. HandlerGoes(s, "cleanup")
    BY <2>1 DEF RemoveMember, AfterRemoval
  <2>3. req'[s].pc = "cleanup" /\ req'[s].user = u
    BY <2>1, <2>2, GoesOn
  <2>4. QED
    BY <2>3 DEF Handling
<1>6. CASE profile[u] # Nil /\ member[u] = Nil
  <2>1. CASE u \in leftover
    BY <1>3, <2>1, LeftoverKept
  <2>2. ASSUME NEW r \in Request, Handling(r, "cleanup"), req[r].user = u
        PROVE  u \in leftover' \/ \E q \in Request : Handling(q, "cleanup")' /\ req'[q].user = u
    <3>1. CASE r # s
      <4>1. req'[r] = req[r]
        BY <1>1, <1>2, <3>1
      <4>2. QED
        BY <2>2, <4>1 DEF Handling
    <3>2. CASE r = s
      <4>1. DeleteProfile(r) \/ Abandon(r)
        BY <2>2, <3>2, CleanupEnds
      <4>2. CASE DeleteProfile(r)
        BY <1>2, <1>3, <2>2, <4>2 DEF DeleteProfile, ProfilesInv, ProfilesTypeOK
      <4>3. CASE Abandon(r)
        <5>1. u \in Leaves(r)
          BY <2>2, <4>3 DEF Leaves
        <5>2. QED
          BY <1>3, <5>1, LeftoverKept
      <4>4. QED
        BY <4>1, <4>2, <4>3
    <3>3. QED
      BY <3>1, <3>2
  <2>3. QED
    BY <1>2, <1>6, <2>1, <2>2 DEF ProfilesOfMembers
<1>7. QED
  BY <1>4, <1>5, <1>6

----------------------------------------------------------------------------
LEMMA ProfilesStart == ASSUME ProfilesInit PROVE ProfilesInv
<1>1. ProfilesTypeOK
  <2>1. 1 \in 1..MaxJoins /\ joins \in 0..MaxJoins
    BY BoundAssumption DEF ProfilesInit
  <2>2. [join |-> 1, status |-> "active"] \in Membership /\ [pin |-> Nil] \in Profile
    BY <2>1 DEF Membership, Profile
  <2>3. member \in [User -> Membership \cup {Nil}] /\ profile \in [User -> Profile \cup {Nil}]
    BY <2>2 DEF ProfilesInit
  <2>4. req \in [Request -> Handler] /\ \A r \in Request : req[r].op = "none"
    BY IdleIsIdle DEF ProfilesInit
  <2>5. account \subseteq User /\ misled \in [Request -> BOOLEAN] /\ leftover \subseteq User
    BY FounderAssumption DEF ProfilesInit
  <2>6. QED
    BY <2>1, <2>3, <2>4, <2>5 DEF ProfilesTypeOK
<1>2. ASSUME NEW r \in Request PROVE HandlerInv(r)
  <2>1. PICK h : h = Idle
    OBVIOUS
  <2>2. req[r] = h
    BY <2>1 DEF ProfilesInit
  <2>3. QED
    BY <2>1, <2>2, IdleIsIdle DEF HandlerInv
<1>3. ProfilesOfMembers
  <2>1. [join |-> 1, status |-> "active"] \in Membership
    BY BoundAssumption DEF Membership, ProfilesInit
  <2>2. QED
    BY <2>1, FounderAssumption, NilAssumption DEF ProfilesInit, ProfilesOfMembers
<1>4. QED
  BY <1>1, <1>2, <1>3 DEF ProfilesInv

LEMMA StepKeeps ==
    ASSUME ProfilesInv, ProfilesNext, NEW s \in Request, Steps(s) PROVE ProfilesInv'
<1>1. Handled(s)
  BY StepHandles DEF Steps
<1>2. PICK h \in Handler : req' = [req EXCEPT ![s] = h] /\ (h.op = "pin" => h.user \notin h.left)
  BY <1>1 DEF Handled
<1>3. ProfilesTypeOK
  BY DEF ProfilesInv
<1>4. /\ req' \in [Request -> Handler] /\ req'[s] = h
      /\ \A r \in Request : r # s => req'[r] = req[r]
  BY <1>2, <1>3 DEF ProfilesTypeOK
<1>5. leftover' \subseteq User
  <2>1. leftover \subseteq User /\ \A r \in Request : Leaves(r) \subseteq User
    BY <1>3, LeavesTyped DEF ProfilesTypeOK
  <2>2. leftover' \subseteq leftover \cup UNION {Leaves(r) : r \in Request}
    BY DEF ProfilesNext
  <2>3. QED
    BY <2>1, <2>2
<1>6. \A r \in Request : req'[r].op = "pin" => req'[r].user \notin req'[r].left
  BY <1>2, <1>3, <1>4 DEF ProfilesTypeOK
<1>7. ProfilesTypeOK'
  BY <1>1, <1>4, <1>5, <1>6, MisledIsTyped DEF Handled, TablesTyped, ProfilesTypeOK
<1>8. ASSUME NEW r \in Request PROVE HandlerInv(r)'
  <2>1. CASE r = s
    BY <1>1, <2>1 DEF Handled
  <2>2. CASE r # s
    BY <1>4, <2>2, OtherHandlersKeep
  <2>3. QED
    BY <2>1, <2>2
<1>9. QED
  BY <1>7, <1>8, ProfilesStayMembers DEF ProfilesInv

(***************************************************************************)
(* What a handler has read holds until another overtakes it, which is what *)
(* makes the two properties below inductive.                               *)
(***************************************************************************)
THEOREM ProfilesInvariantHolds == ProfilesSpec => []ProfilesInv
<1>1. ProfilesInit => ProfilesInv
  BY ProfilesStart
<1>2. ProfilesInv /\ [ProfilesNext]_profileVars => ProfilesInv'
  <2>1. ASSUME ProfilesInv, ProfilesNext PROVE ProfilesInv'
    BY <2>1, StepKeeps DEF ProfilesNext, Steps
  <2>2. ASSUME ProfilesInv, UNCHANGED profileVars PROVE ProfilesInv'
    <3>1. UNCHANGED <<account, member, joins, profile, req, misled, leftover>>
      BY <2>2 DEF profileVars, profileTables
    <3>2. ProfilesTypeOK' /\ ProfilesOfMembers'
      BY <2>2, <3>1 DEF ProfilesInv, ProfilesTypeOK, ProfilesOfMembers, Handling
    <3>3. \A r \in Request : HandlerInv(r)'
      BY <2>2, <3>1 DEF ProfilesInv, HandlerInv, Active, HasPin
    <3>4. QED
      BY <3>2, <3>3 DEF ProfilesInv
  <2>3. QED
    BY <2>1, <2>2
<1>3. QED
  BY <1>1, <1>2, PTL DEF ProfilesSpec

\* Every variable of the memberships, profiles and handlers stays in its domain.
THEOREM ProfilesTyped == ProfilesSpec => []ProfilesTypeOK
BY ProfilesInvariantHolds, PTL DEF ProfilesInv

(***************************************************************************)
(* RemoveMember: a profile outlives its membership only while its deletion *)
(* is due, or after the deletion failed or was overtaken.                  *)
(***************************************************************************)
THEOREM ProfilesFollowMembers == ProfilesSpec => []ProfilesOfMembers
BY ProfilesInvariantHolds, PTL DEF ProfilesInv

----------------------------------------------------------------------------
\* PINs.

LEMMA ClashesArise ==
    ASSUME ProfilesInv, NEW s \in Request, Steps(s), NEW u \in User, NEW v \in User,
           ~Clash(u, v), Clash(u, v)'
    PROVE  \/ SetStatus(s) /\ req[s].op = "reactivate"
           \/ CreateMember(s) /\ profile[req[s].user] # Nil
           \/ WritePin(s) /\ misled[s]
<1>1. /\ u # v /\ Active(u)' /\ Active(v)'
      /\ \E pin \in Pin : HasPin(u, pin)' /\ HasPin(v, pin)'
  BY DEF Clash
<1>2. PICK pin \in Pin : HasPin(u, pin)' /\ HasPin(v, pin)'
  BY <1>1
<1>3. /\ ~(Active(u) /\ Active(v) /\ HasPin(u, pin) /\ HasPin(v, pin))
      /\ member \in [User -> Membership \cup {Nil}] /\ profile \in [User -> Profile \cup {Nil}]
      /\ Nil \notin Pin /\ HandlerInv(s)
  BY <1>1, NilAssumption DEF Clash, ProfilesInv, ProfilesTypeOK
<1>4. CASE UNCHANGED <<member, profile>>
  BY <1>1, <1>2, <1>3, <1>4 DEF Active, HasPin
<1>5. CASE CreateMember(s)
  BY <1>1, <1>2, <1>3, <1>5 DEF CreateMember, Active, HasPin
<1>6. CASE CreateProfile(s)
  <2>1. PICK p \in Profile : /\ profile' = [profile EXCEPT ![req[s].user] = p]
                             /\ profile[req[s].user] # Nil => p = profile[req[s].user]
                             /\ profile[req[s].user] = Nil => p.pin = Nil
    BY <1>6, CreateProfileHandles
  <2>2. UNCHANGED member
    BY <1>6 DEF CreateProfile
  <2>3. \A x \in {u, v} : HasPin(x, pin)
    BY <1>2, <1>3, <2>1 DEF HasPin
  <2>4. QED
    BY <1>1, <1>3, <2>2, <2>3 DEF Active
<1>7. CASE RemoveMember(s)
  BY <1>1, <1>2, <1>3, <1>7 DEF RemoveMember, Active, HasPin
<1>8. CASE SetStatus(s)
  <2>1. CASE req[s].op = "reactivate"
    BY <1>8, <2>1
  <2>2. CASE req[s].op # "reactivate"
    <3>1. req[s].op = "suspend"
      BY <1>3, <1>8, <2>2 DEF HandlerInv, SetStatus, Handling
    <3>2. PICK m \in Membership : member' = [member EXCEPT ![req[s].user] = m] /\ m.status = "suspended"
      BY <1>8, <3>1, StatusTyped
    <3>3. UNCHANGED profile
      BY <1>8 DEF SetStatus
    <3>4. \A x \in {u, v} : Active(x)
      BY <1>1, <1>3, <3>2 DEF Active
    <3>5. QED
      BY <1>2, <1>3, <3>3, <3>4 DEF HasPin
  <2>3. QED
    BY <2>1, <2>2
<1>9. CASE DeleteProfile(s)
  BY <1>1, <1>2, <1>3, <1>9 DEF DeleteProfile, Active, HasPin
<1>10. CASE WritePin(s)
  <2>1. CASE misled[s]
    BY <1>10, <2>1
  <2>2. CASE ~misled[s]
    <3>1. PICK p \in Profile \cup {Nil} :
             /\ profile' = [profile EXCEPT ![req[s].user] = p]
             /\ IF profile[req[s].user] = Nil THEN p = Nil ELSE p \in Profile /\ p.pin = req[s].pin
      BY <1>10, WritePinHandles
    <3>2. UNCHANGED member
      BY <1>10 DEF WritePin
    <3>3. Active(u) /\ Active(v)
      BY <1>1, <3>2 DEF Active
    <3>4. \A x \in {u, v} : HasPin(x, pin) \/ (x = req[s].user /\ pin = req[s].pin)
      BY <1>2, <1>3, <3>1 DEF HasPin
    <3>5. pin = req[s].pin => \A x \in {u, v} : HasPin(x, pin) => x = req[s].user
      BY <1>3, <1>10, <2>2, <3>3 DEF HandlerInv, WritePin, Handling
    <3>6. QED
      BY <1>1, <1>3, <3>3, <3>4, <3>5
  <2>3. QED
    BY <2>1, <2>2
<1>11. QED
  BY <1>4, <1>5, <1>6, <1>7, <1>8, <1>9, <1>10, OnlyTheseWrite DEF Writes

LEMMA FirstIsResolved ==
    ASSUME ProfilesInv, NEW r \in Request, req[r].op = "resolve", ~misled[r]
    PROVE  /\ \A u \in User : CompareMatches(r, u) =>
                 Active(u) /\ \A v \in User : (Active(v) /\ HasPin(v, req[r].pin)) =>
                                                 member[u].join <= member[v].join
           /\ NoMatch(r) => ~\E u \in User : Active(u) /\ HasPin(u, req[r].pin)
<1>1. HandlerInv(r)
  BY DEF ProfilesInv
<1>2. req[r].pc = "compare" =>
         /\ \A v \in req[r].left : Active(v)
         /\ \A v \in User : Active(v) /\ HasPin(v, req[r].pin) => v \in req[r].left
  BY <1>1 DEF HandlerInv
<1>3. ASSUME NEW u \in User, CompareMatches(r, u)
      PROVE  Active(u) /\ \A v \in User : (Active(v) /\ HasPin(v, req[r].pin)) =>
                                             member[u].join <= member[v].join
  <2>1. req[r].pc = "compare" /\ u \in req[r].left
    BY <1>3 DEF CompareMatches, Handling, Turn
  <2>2. \A v \in req[r].left :
           (member[u] # Nil /\ member[v] # Nil) => member[u].join <= member[v].join
    BY <1>3 DEF CompareMatches, Turn
  <2>3. Active(u)
    BY <1>2, <2>1
  <2>4. ASSUME NEW v \in User, Active(v), HasPin(v, req[r].pin)
        PROVE  member[u].join <= member[v].join
    BY <1>2, <2>1, <2>2, <2>3, <2>4 DEF Active
  <2>5. QED
    BY <2>3, <2>4
<1>4. NoMatch(r) => ~\E u \in User : Active(u) /\ HasPin(u, req[r].pin)
  BY <1>2 DEF NoMatch, Handling
<1>5. QED
  BY <1>3, <1>4

(***************************************************************************)
(* writePinHash and ResolvePin: a PIN becomes ambiguous only by a          *)
(* reactivation, by someone who rejoins with an old profile, or by a       *)
(* handler that was overtaken; and the first who joined is resolved.       *)
(***************************************************************************)
THEOREM PinsHold == ProfilesSpec => PinsSound
<1>1. ASSUME ProfilesInv, ProfilesNext PROVE NoNewClash /\ ResolvesFirst
  <2>1. PICK s \in Request : Steps(s)
    BY <1>1 DEF ProfilesNext, Steps
  <2>2. NoNewClash
    BY <1>1, <2>1, ClashesArise DEF NoNewClash
  <2>3. ResolvesFirst
    BY <1>1, FirstIsResolved DEF ResolvesFirst
  <2>4. QED
    BY <2>2, <2>3
<1>2. ProfilesInv /\ [ProfilesNext]_profileVars => [NoNewClash /\ ResolvesFirst]_profileVars
  BY <1>1
<1>3. QED
  BY <1>2, ProfilesInvariantHolds, PTL DEF ProfilesSpec, PinsSound

-----------------------------------------------------------------------------
\* Registrations and profiles side by side.

\* A behaviour of the two parts that stand in one specification is a behaviour of
\* each of them.
LEMMA EachPartAlone == FaultsSpec => Spec /\ ProfilesSpec
<1>1. FaultsInit => Init /\ ProfilesInit
  BY DEF FaultsInit
<1>2. [FaultsNext]_faultVars => [Next]_vars /\ [ProfilesNext]_profileVars
  <2>1. FaultsNext => [Next]_vars /\ [ProfilesNext]_profileVars
    BY Zenon DEF FaultsNext
  <2>2. UNCHANGED faultVars => UNCHANGED vars /\ UNCHANGED profileVars
    BY DEF faultVars
  <2>3. QED
    BY <2>1, <2>2
<1>3. QED
  BY <1>1, <1>2, PTL DEF FaultsSpec, Spec, ProfilesSpec

(***************************************************************************)
(* Register, and the handlers of members and their profiles, whichever of  *)
(* their statements fail: the tables stay well-typed, an active tenant is  *)
(* complete with a schema of its own, what was rolled back is gone, and    *)
(* profiles belong to members.                                             *)
(***************************************************************************)
THEOREM FaultsContained ==
    FaultsSpec => [](/\ TypesOK
                     /\ ActiveIsComplete /\ SchemaIsDedicated /\ RolledBackWithoutPlugin
                     /\ ProfilesOfMembers)
BY EachPartAlone, Typed, Complete, Dedicated, RollsBack, ProfilesTyped, ProfilesFollowMembers, PTL
   DEF TypesOK
=============================================================================
