----------------------------- MODULE GoogleKeys -----------------------------
(***************************************************************************)
(* Verification of Google ID tokens (internal/auth/google.go): a set of    *)
(* signing keys cached for a while and replaced as a whole by whichever    *)
(* fetch ends last, read and refreshed by many logins at once, while       *)
(* Google publishes and retires keys. Time is counted in ticks; a fetch    *)
(* ends within Timeout ticks, as its HTTP client sees to.                  *)
(***************************************************************************)
EXTENDS Naturals, FiniteSets

CONSTANTS
    Verifier,         \* concurrent calls of Verify
    Kid, IdToken,     \* key ids; tokens, records [kid, claimsGood]
    Ttl, Timeout,     \* in ticks
    NoToken,
    MaxClock, MaxRotations, MaxFetchFaults   \* bounds

ASSUME KeysAssumption ==
    /\ IdToken \subseteq [kid : Kid, claimsGood : BOOLEAN]
    /\ NoToken \notin IdToken
    /\ Ttl \in Nat /\ Timeout \in Nat /\ Timeout < Ttl   \* five seconds, and an hour
    /\ MaxClock \in Nat /\ MaxRotations \in Nat /\ MaxFetchFaults \in Nat

VARIABLES
    clock,
    published,        \* Google: the keys at its endpoint
    lastIn, lastOut,  \* history: when each key was last published, last not
    keys, fetchedAt,  \* the verifier's cache; fetchedAt is Never before the first fetch
    verify,           \* the calls
    rotations, fetchFaults

keysVars == <<clock, published, lastIn, lastOut, keys, fetchedAt, verify, rotations, fetchFaults>>
google == <<published, lastIn, lastOut, rotations>>

\* Clock times start above it, so that a cache never filled is stale.
Never == 0
Start == Ttl + Timeout + 1

\* pc: idle, lookup, fetch, install, again, accepted, unknown, rejected.
Quiet == [pc |-> "idle", token |-> NoToken, had |-> FALSE, answer |-> {}, since |-> Never,
          fell |-> FALSE]

KeysInit ==
    /\ clock = Start
    /\ published \in SUBSET Kid \ {{}}
    /\ lastIn = [k \in Kid |-> IF k \in published THEN Start ELSE Never]
    /\ lastOut = [k \in Kid |-> IF k \in published THEN Never ELSE Start]
    /\ keys = {}
    /\ fetchedAt = Never
    /\ verify = [v \in Verifier |-> Quiet]
    /\ rotations = 0
    /\ fetchFaults = 0

FreshCache == clock - fetchedAt < Ttl

At(v, pc) == verify[v].pc = pc
Continue(v, rec) == verify' = [verify EXCEPT ![v] = rec]
OwnStep == UNCHANGED <<clock, google>>

\* The key is found, so the signature holds; issuer, audience, email, sub and
\* email_verified are looked at after it.
Decided(c) == [c EXCEPT !.pc = IF c.token.claimsGood THEN "accepted" ELSE "rejected"]

Verify(v, token) ==
    /\ At(v, "idle")
    /\ Continue(v, [Quiet EXCEPT !.pc = "lookup", !.token = token, !.since = clock])
    /\ UNCHANGED <<keys, fetchedAt, fetchFaults>> /\ OwnStep

\* Slip: a fresh cache is never refreshed for a key it lacks.
Lookup_Final(v) ==
    /\ At(v, "lookup")
    /\ LET had == verify[v].token.kid \in keys
       IN  Continue(v, IF had /\ FreshCache THEN Decided(verify[v])
                   ELSE [verify[v] EXCEPT !.pc = IF FreshCache THEN "unknown" ELSE "fetch",
                                          !.had = had, !.since = clock])
    /\ UNCHANGED <<keys, fetchedAt, fetchFaults>> /\ OwnStep

\* keyForKid, under the read lock.
Lookup(v) ==
    /\ At(v, "lookup")
    /\ LET had == verify[v].token.kid \in keys
       IN  Continue(v, IF had /\ FreshCache THEN Decided(verify[v])
                   ELSE [verify[v] EXCEPT !.pc = "fetch", !.had = had, !.since = clock])
    /\ UNCHANGED <<keys, fetchedAt, fetchFaults>> /\ OwnStep

\* The endpoint answers with the keys of this moment.
Fetch(v) ==
    /\ At(v, "fetch")
    /\ published # {}
    /\ Continue(v, [verify[v] EXCEPT !.pc = "install", !.answer = published])
    /\ UNCHANGED <<keys, fetchedAt, fetchFaults>> /\ OwnStep

\* No answer in time, another status, or no usable key in it.
FetchFails(v) ==
    /\ At(v, "fetch")
    /\ published = {} \/ fetchFaults < MaxFetchFaults
    /\ fetchFaults' = IF published = {} THEN fetchFaults ELSE fetchFaults + 1
    /\ Continue(v, IF verify[v].had THEN [Decided(verify[v]) EXCEPT !.fell = TRUE]
               ELSE [verify[v] EXCEPT !.pc = "rejected"])
    /\ UNCHANGED <<keys, fetchedAt>> /\ OwnStep

\* refresh, under the write lock: the whole set, dated now.
Install(v) ==
    /\ At(v, "install")
    /\ keys' = verify[v].answer
    /\ fetchedAt' = clock
    /\ Continue(v, [verify[v] EXCEPT !.pc = "again"])
    /\ UNCHANGED fetchFaults /\ OwnStep

LookAgain(v) ==
    /\ At(v, "again")
    /\ Continue(v, IF verify[v].token.kid \in keys THEN Decided(verify[v])
               ELSE [verify[v] EXCEPT !.pc = "unknown"])
    /\ UNCHANGED <<keys, fetchedAt, fetchFaults>> /\ OwnStep

Return(v) ==
    /\ verify[v].pc \in {"accepted", "unknown", "rejected"}
    /\ Continue(v, Quiet)
    /\ UNCHANGED <<keys, fetchedAt, fetchFaults>> /\ OwnStep

\* A call that has left the lookup is done within Timeout of it.
Tick ==
    /\ clock < Start + MaxClock
    /\ \A v \in Verifier :
          /\ verify[v].pc \in {"fetch", "install", "again"} => clock - verify[v].since < Timeout
          /\ verify[v].pc \in {"idle", "fetch", "install", "again"}
    /\ clock' = clock + 1
    /\ lastIn' = [k \in Kid |-> IF k \in published THEN clock' ELSE lastIn[k]]
    /\ lastOut' = [k \in Kid |-> IF k \in published THEN lastOut[k] ELSE clock']
    /\ UNCHANGED <<published, keys, fetchedAt, verify, rotations, fetchFaults>>

\* Google publishes or retires a key.
Rotate(k) ==
    /\ rotations < MaxRotations
    /\ rotations' = rotations + 1
    /\ IF k \in published
       THEN published' = published \ {k} /\ lastOut' = [lastOut EXCEPT ![k] = clock] /\ UNCHANGED lastIn
       ELSE published' = published \cup {k} /\ lastIn' = [lastIn EXCEPT ![k] = clock] /\ UNCHANGED lastOut
    /\ UNCHANGED <<clock, keys, fetchedAt, verify, fetchFaults>>

VerifyStep(v) ==
    Lookup(v) \/ Fetch(v) \/ FetchFails(v) \/ Install(v) \/ LookAgain(v) \/ Return(v)

KeysNext ==
    \/ \E v \in Verifier : VerifyStep(v) \/ \E t \in IdToken : Verify(v, t)
    \/ Tick
    \/ \E k \in Kid : Rotate(k)

KeysSpec == KeysInit /\ [][KeysNext]_keysVars

----------------------------------------------------------------------------
\* Properties.

\* Every variable stays in its domain.
KeysTypeOK ==
    /\ clock \in Start..(Start + MaxClock)
    /\ published \subseteq Kid /\ keys \subseteq Kid
    /\ fetchedAt \in {Never} \cup Start..clock
    /\ \A v \in Verifier : verify[v].token \in IdToken \cup {NoToken} /\ verify[v].answer \subseteq Kid
    /\ \A k \in Kid : lastIn[k] <= clock /\ lastOut[k] <= clock
    /\ rotations \in 0..MaxRotations /\ fetchFaults \in 0..MaxFetchFaults

(***************************************************************************)
(* A token is accepted only with a key that Google published within the    *)
(* lifetime of the cache and one fetch, however the fetches overtake each  *)
(* other: unless the call's own fetch failed and it fell back on the key   *)
(* it held (google.go:186-191).                                            *)
(***************************************************************************)
AcceptedKeysRecent ==
    \A v \in Verifier :
        At(v, "accepted") /\ ~verify[v].fell => clock - lastIn[verify[v].token.kid] < Ttl + Timeout

(***************************************************************************)
(* google.go:173-175: an unknown key is a hard failure only after a fetch. *)
(* A key that Google has published since one fetch before the call began   *)
(* is never called unknown, though another call's older answer may have    *)
(* replaced the one this call fetched (google.go:210).                     *)
(***************************************************************************)
PublishedKeysKnown ==
    \A v \in Verifier :
        At(v, "unknown") => verify[v].since - lastOut[verify[v].token.kid] <= Timeout

\* The cache stays in its domain, accepts no key too old, and refuses none in use.
KeysSound == KeysTypeOK /\ AcceptedKeysRecent /\ PublishedKeysKnown
=============================================================================
