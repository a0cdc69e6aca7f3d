------------------------------ MODULE Runtime ------------------------------
(***************************************************************************)
(* How processes of the service stay registered with Core: Run, register,  *)
(* heartbeat, reregister and deregister in internal/plugin/plugin.go. Core *)
(* is external: one entry per plugin name, kept in memory, evicted by the  *)
(* next registration of the name. A restarted or redeployed service is     *)
(* another process, which may overlap the old one. A process has a         *)
(* goroutine that registers and then sends heartbeats (pc), and one that   *)
(* waits for the context and deregisters (stop).                           *)
(***************************************************************************)
EXTENDS Naturals, FiniteSets

CONSTANTS
    Process,
    Id,        \* plugin ids, each with its token; enough of them to be fresh
    MaxFaults, \* bound: requests or answers lost, processes killed, stops of Core
    None

ASSUME FaultsAssumption == MaxFaults \in Nat
\* Core draws ids at random: one is always left that neither Core nor a process holds.
ASSUME FreshAssumption ==
    /\ IsFiniteSet(Process)
    /\ IsFiniteSet(Id) => Cardinality(Id) > 5 * Cardinality(Process) + 1
ASSUME AbsentAssumption == None \notin Id \cup [proc : Process, id : Id]

VARIABLES
    coreUp,
    entry,     \* Core's registry
    pc,
    stop,
    id,        \* p.pluginID
    token,     \* p.pluginToken, named by the id it was issued with
    reply,     \* Core's answer to the registration, on its way or being stored
    cred,      \* the id and token the deregistration was sent with
    missed,
    cancelled, \* the context is done: a signal, or Serve failed
    serving,   \* processes whose server accepts requests
    stray,     \* a registration request the process gave up on and Core may still get
    faults,
    unsure,    \* history: Core may hold a registration the process has no answer to
    excused    \* history: the process ended while unsure, was killed, or was not heard

core == <<coreUp, entry>>
history == <<unsure, excused>>
vars == <<core, pc, stop, id, token, reply, cred, missed, cancelled, serving, stray, faults, history>>

NoCred == [id |-> None, token |-> None]

TypeOK ==
    /\ coreUp \in BOOLEAN
    /\ entry \in [proc : Process, id : Id] \cup {None}
    /\ pc \in [Process -> {"off", "register", "sent", "answered", "stored", "beat", "done"}]
    /\ stop \in [Process -> {"none", "waiting", "deregister", "shutdown", "closed"}]
    /\ {id, token, reply} \subseteq [Process -> Id \cup {None}]
    /\ cred \in [Process -> [id : Id \cup {None}, token : Id \cup {None}]]
    /\ missed \in [Process -> 0..2]
    /\ serving \subseteq Process
    /\ {cancelled, stray, unsure, excused} \subseteq [Process -> BOOLEAN]
    /\ faults \in 0..MaxFaults

Init ==
    /\ coreUp \in BOOLEAN
    /\ entry = None
    /\ pc = [p \in Process |-> "off"]
    /\ stop = [p \in Process |-> "none"]
    /\ id = [p \in Process |-> None]
    /\ token = id /\ reply = id
    /\ cred = [p \in Process |-> NoCred]
    /\ missed = [p \in Process |-> 0]
    /\ cancelled = [p \in Process |-> FALSE]
    /\ stray = cancelled /\ unsure = cancelled /\ excused = cancelled
    /\ serving = {}
    /\ faults = 0

At(p, at) == pc[p] = at
Goto(p, to) == pc' = [pc EXCEPT ![p] = to]
Set(flag, p) == [flag EXCEPT ![p] = TRUE]
Fault == faults < MaxFaults /\ faults' = faults + 1

Fresh ==
    CHOOSE n \in Id :
       /\ entry # None => n # entry.id
       /\ \A p \in Process : n \notin {id[p], token[p], reply[p], cred[p].id, cred[p].token}

\* Core accepts a registration of p, evicting the entry of its name.
Evict(p) == coreUp /\ entry' = [proc |-> p, id |-> Fresh] /\ UNCHANGED coreUp

Recognizes(i, t) == entry # None /\ entry.id = i /\ entry.id = t

\* Has the first registration succeeded, and with it both goroutines started?
Started(p) == stop[p] # "none"

\* The server listens before the process registers.
Start(p) ==
    /\ At(p, "off")
    /\ Goto(p, "register")
    /\ serving' = serving \cup {p}
    /\ UNCHANGED <<core, stop, id, token, reply, cred, missed, cancelled, stray, faults, history>>

Cancel(p) ==
    /\ pc[p] \notin {"off", "done"}
    /\ ~cancelled[p]
    /\ cancelled' = Set(cancelled, p)
    /\ UNCHANGED <<core, pc, stop, id, token, reply, cred, missed, serving, stray, faults, history>>

----------------------------------------------------------------------------
(* register *)

\* Slip: registering again uses a context of its own, like deregister does.
MaySend_Always(p) == TRUE

\* Requests of the register and heartbeat loops carry the context.
MaySend(p) == ~cancelled[p]

SendRegister(p) ==
    /\ At(p, "register")
    /\ MaySend(p)
    /\ Goto(p, "sent")
    /\ unsure' = Set(unsure, p)
    /\ UNCHANGED <<core, stop, id, token, reply, cred, missed, cancelled, serving, stray, faults, excused>>

ServeRegister(p) ==
    /\ At(p, "sent")
    /\ Evict(p)
    /\ reply' = [reply EXCEPT ![p] = Fresh]
    /\ Goto(p, "answered")
    /\ UNCHANGED <<stop, id, token, cred, missed, cancelled, serving, stray, faults, history>>

\* No answer, or not 200: after a pause, again. A lost request may reach Core late.
RegisterFails(p) ==
    /\ pc[p] \in {"sent", "answered"}
    /\ IF coreUp THEN Fault ELSE UNCHANGED faults
    /\ Goto(p, "register")
    /\ reply' = [reply EXCEPT ![p] = None]
    /\ stray' \in {stray} \cup (IF coreUp /\ At(p, "sent") THEN {Set(stray, p)} ELSE {})
    /\ UNCHANGED <<core, stop, id, token, cred, missed, cancelled, serving, history>>

ServeStray(p) ==
    /\ stray[p]
    /\ Evict(p)
    /\ stray' = [stray EXCEPT ![p] = FALSE]
    /\ UNCHANGED <<pc, stop, id, token, reply, cred, missed, cancelled, serving, faults, history>>

\* register returns an error: the heartbeat goroutine goes on or, without one,
\* Run closes the server and returns.
GiveUp(p, next) ==
    /\ Goto(p, IF Started(p) THEN next ELSE "done")
    /\ reply' = [reply EXCEPT ![p] = None]
    /\ IF Started(p) THEN UNCHANGED <<serving, stop, excused>>
       ELSE /\ serving' = serving \ {p}
            /\ stop' = [stop EXCEPT ![p] = "closed"]
            /\ excused' = [excused EXCEPT ![p] = @ \/ unsure[p]]

\* An answer that does not decode is not retried.
AnswerGarbled(p) ==
    /\ At(p, "answered")
    /\ Fault
    /\ GiveUp(p, "beat")
    /\ missed' = [missed EXCEPT ![p] = 0]
    /\ UNCHANGED <<core, id, token, cred, cancelled, stray, unsure>>

\* The context cuts the request off or ends the pause; the heartbeat loop sees
\* the context next.
RegisterCancelled(p) ==
    /\ pc[p] \in {"register", "sent", "answered"}
    /\ cancelled[p]
    /\ GiveUp(p, "done")
    /\ stray' \in {stray} \cup (IF coreUp /\ At(p, "sent") THEN {Set(stray, p)} ELSE {})
    /\ UNCHANGED <<core, id, token, cred, missed, cancelled, faults, unsure>>

\* The two fields are written without a lock, while deregister may read them.
StoreId(p) ==
    /\ At(p, "answered")
    /\ id' = [id EXCEPT ![p] = reply[p]]
    /\ Goto(p, "stored")
    /\ UNCHANGED <<core, stop, token, reply, cred, missed, cancelled, serving, stray, faults, history>>

StoreToken(p) ==
    /\ At(p, "stored")
    /\ token' = [token EXCEPT ![p] = reply[p]]
    /\ reply' = [reply EXCEPT ![p] = None]
    /\ missed' = [missed EXCEPT ![p] = 0]
    /\ Goto(p, "beat")
    /\ stop' = [stop EXCEPT ![p] = IF Started(p) THEN @ ELSE "waiting"]
    /\ unsure' = [unsure EXCEPT ![p] = stray[p] \/ (entry # None /\ entry.proc = p /\ entry.id # reply[p])]
    /\ UNCHANGED <<core, id, cred, cancelled, serving, stray, faults, excused>>

----------------------------------------------------------------------------
(* heartbeat *)

Beats(p) == At(p, "beat") /\ MaySend(p)

HeartbeatOk(p) ==
    /\ Beats(p)
    /\ coreUp /\ Recognizes(id[p], token[p])
    /\ missed' = [missed EXCEPT ![p] = 0]
    /\ UNCHANGED <<core, pc, stop, id, token, reply, cred, cancelled, serving, stray, faults, history>>

\* Slip: a refused heartbeat counts as an answer.
AfterRefusal_Alive(p) == "beat"

AfterRefusal(p) == "register"

\* 404 or 401: Core does not know this id, or not with this token.
HeartbeatRefused(p) ==
    /\ Beats(p)
    /\ coreUp /\ ~Recognizes(id[p], token[p])
    /\ Goto(p, AfterRefusal(p))
    /\ missed' = [missed EXCEPT ![p] = 0]
    /\ UNCHANGED <<core, stop, id, token, reply, cred, cancelled, serving, stray, faults, history>>

TooMany(n) == n >= 3

HeartbeatMissed(p) ==
    LET again == TooMany(missed[p] + 1) IN
    /\ Beats(p)
    /\ IF coreUp THEN Fault ELSE UNCHANGED faults
    /\ missed' = [missed EXCEPT ![p] = IF again THEN 0 ELSE @ + 1]
    /\ IF again THEN Goto(p, "register") ELSE UNCHANGED pc
    /\ UNCHANGED <<core, stop, id, token, reply, cred, cancelled, serving, stray, history>>

HeartbeatStops(p) ==
    /\ At(p, "beat")
    /\ cancelled[p]
    /\ Goto(p, "done")
    /\ missed' = [missed EXCEPT ![p] = 0]
    /\ UNCHANGED <<core, stop, id, token, reply, cred, cancelled, serving, stray, faults, history>>

----------------------------------------------------------------------------
(* deregister and shutdown *)

SendDeregister(p) ==
    /\ stop[p] = "waiting"
    /\ cancelled[p]
    /\ cred' = [cred EXCEPT ![p] = [id |-> id[p], token |-> token[p]]]
    /\ stop' = [stop EXCEPT ![p] = "deregister"]
    /\ excused' = [excused EXCEPT ![p] = @ \/ unsure[p]]
    /\ UNCHANGED <<core, pc, id, token, reply, missed, cancelled, serving, stray, faults, unsure>>

Deregistered(p) ==
    /\ stop' = [stop EXCEPT ![p] = "shutdown"]
    /\ cred' = [cred EXCEPT ![p] = NoCred]

ServeDeregister(p) ==
    /\ stop[p] = "deregister"
    /\ coreUp
    /\ entry' = IF Recognizes(cred[p].id, cred[p].token) THEN None ELSE entry
    /\ Deregistered(p)
    /\ UNCHANGED <<coreUp, pc, id, token, reply, missed, cancelled, serving, stray, faults, history>>

\* Sent once, and given up after 5 s.
DeregisterFails(p) ==
    /\ stop[p] = "deregister"
    /\ IF coreUp THEN Fault /\ excused' = Set(excused, p) ELSE UNCHANGED <<faults, excused>>
    /\ Deregistered(p)
    /\ UNCHANGED <<core, pc, id, token, reply, missed, cancelled, serving, stray, unsure>>

Shutdown(p) ==
    /\ stop[p] = "shutdown"
    /\ serving' = serving \ {p}
    /\ stop' = [stop EXCEPT ![p] = "closed"]
    /\ UNCHANGED <<core, pc, id, token, reply, cred, missed, cancelled, stray, faults, history>>

----------------------------------------------------------------------------
(* The environment *)

Kill(p) ==
    /\ pc[p] # "off" /\ p \in serving
    /\ Fault
    /\ Goto(p, "done")
    /\ stop' = [stop EXCEPT ![p] = "closed"]
    /\ serving' = serving \ {p}
    /\ reply' = [reply EXCEPT ![p] = None]
    /\ cred' = [cred EXCEPT ![p] = NoCred]
    /\ missed' = [missed EXCEPT ![p] = 0]
    /\ stray' = [stray EXCEPT ![p] = @ \/ (coreUp /\ At(p, "sent"))]
    /\ excused' = Set(excused, p)
    /\ UNCHANGED <<core, id, token, cancelled, unsure>>

\* Its registry is in memory.
CoreStops ==
    /\ coreUp
    /\ Fault
    /\ coreUp' = FALSE
    /\ entry' = None
    /\ stray' = [p \in Process |-> FALSE]
    /\ UNCHANGED <<pc, stop, id, token, reply, cred, missed, cancelled, serving, history>>

CoreStarts ==
    /\ ~coreUp
    /\ coreUp' = TRUE
    /\ UNCHANGED <<entry, pc, stop, id, token, reply, cred, missed, cancelled, serving, stray, faults, history>>

----------------------------------------------------------------------------

\* What a process does by itself.
Runs(p) ==
    \/ SendRegister(p) \/ ServeRegister(p) \/ RegisterCancelled(p) \/ StoreId(p) \/ StoreToken(p)
    \/ HeartbeatOk(p) \/ HeartbeatRefused(p) \/ HeartbeatStops(p)

Stops(p) == SendDeregister(p) \/ ServeDeregister(p) \/ DeregisterFails(p) \/ Shutdown(p)

Fails(p) == RegisterFails(p) \/ AnswerGarbled(p) \/ HeartbeatMissed(p) \/ ServeStray(p) \/ Kill(p)

Next ==
    \/ \E p \in Process : Start(p) \/ Cancel(p) \/ Runs(p) \/ Stops(p) \/ Fails(p)
    \/ CoreStops
    \/ CoreStarts

Spec == Init /\ [][Next]_vars

\* Goroutines are scheduled, and a request to a Core that is up is answered.
FairSpec == Spec /\ \A p \in Process : WF_vars(Runs(p)) /\ WF_vars(Stops(p))

----------------------------------------------------------------------------
(* Properties *)

\* The requests Core routes go to a process that serves them: Run deregisters
\* before it shuts its server down, and nothing registers it again. What is left
\* over are the registrations a process could not know of when it ended.
RoutesServed == entry # None => entry.proc \in serving \/ excused[entry.proc]

\* Processes and Core stay in their domains, and routes lead to servers that serve.
RoutesSound == TypeOK /\ RoutesServed

Registered(p) == At(p, "beat") /\ Recognizes(id[p], token[p])

\* The comment of heartbeat: the plugin self-heals without a restart. Once Core
\* stays up and p is the only process left, p is registered and stays so,
\* whatever was lost, restarted, or registered by others before.
SelfHeals ==
    \A p \in Process :
       <>[](coreUp /\ p \in serving /\ ~cancelled[p] /\ serving \subseteq {p})
          => <>[]Registered(p)
=============================================================================
