------------------------------ MODULE MCShared ------------------------------
(***************************************************************************)
(* Five parts that share no variable: accounts, signing keys, slugs,       *)
(* plugins and the generated client. A behaviour runs one of them, which   *)
(* its first state chooses, and the state of the others stays as it is.    *)
(***************************************************************************)
EXTENDS Accounts, GoogleKeys, Slugs, Plugins, Store, TLC

CONSTANTS u1, u2, t1, sub1, sub2, pA, pB, c1, c2, v1, v2, k1, k2

TwoUsers == {u1, u2}
OneUser == {u1}
OneShop == {t1}
TwoSubs == {sub1, sub2}
TwoPasswords == {pA, pB}
StaffAtFirst == [u \in TwoUsers |-> IF u = u1 THEN OneShop ELSE {}]
TwoCallers == {c1, c2}

TwoVerifiers == {v1, v2}
TwoKeys == {k1, k2}
Tokens == {[kid |-> k1, claimsGood |-> TRUE], [kid |-> k2, claimsGood |-> TRUE],
           [kid |-> k2, claimsGood |-> FALSE]}

\* All short names, longer ones for the cut at MaxSlug, and two that end like one
\* of the candidates made from them.
Names ==
    UNION {[1..n -> {"a", "A", "1", "_", " "}] : n \in 0..3}
    \cup {<<"a", "a", "a", "_", "2">>, <<"a", "a", "a", "a", "_", "3">>}
    \cup {s \o t : s \in {<<"a", "a", "a", "1">>, <<" ", "1", "a", "_", "A">>},
                   t \in [1..4 -> {"a", "_"}]}

TwoWords == {"x", "y"}

\* Callers are alike.
SharedSymmetry == Permutations(TwoCallers)

VARIABLE focus
sharedVars == <<accountVars, keysVars, slugVars, pluginVars, storeVars, focus>>

\* One initial state of each part, where nothing runs.
AccountsRest ==
    /\ registered = {u1} /\ admins = {} /\ revoked = {} /\ password = [u \in Account |-> pA]
    /\ staff = StaffAtFirst /\ googleSub = [u \in Account |-> Nobody]
    /\ request = [c \in Caller |-> Free] /\ held = [c \in Caller |-> {}]
    /\ callsMade = 0 /\ cuts = 0 /\ otherWrites = 0

KeysRest == published = {k1} /\ KeysInit
SlugsRest == name = <<>> /\ SlugsInit
PluginsRest == shipped = 0 /\ PluginsInit
StoreRest == rows = [t \in Table |-> {}] /\ load = NoLoad /\ writes = 0

SharedInit ==
    \/ focus = "accounts" /\ AccountsInit /\ KeysRest /\ SlugsRest /\ PluginsRest /\ StoreRest
    \/ focus = "keys" /\ AccountsRest /\ KeysInit /\ SlugsRest /\ PluginsRest /\ StoreRest
    \/ focus = "slugs" /\ AccountsRest /\ KeysRest /\ SlugsInit /\ PluginsRest /\ StoreRest
    \/ focus = "plugins" /\ AccountsRest /\ KeysRest /\ SlugsRest /\ PluginsInit /\ StoreRest
    \/ focus = "store" /\ AccountsRest /\ KeysRest /\ SlugsRest /\ PluginsRest /\ StoreInit

SharedNext ==
    /\ \/ focus = "accounts" /\ AccountsNext /\ UNCHANGED <<keysVars, slugVars, pluginVars, storeVars>>
       \/ focus = "keys" /\ KeysNext /\ UNCHANGED <<accountVars, slugVars, pluginVars, storeVars>>
       \/ focus = "slugs" /\ SlugsNext /\ UNCHANGED <<accountVars, keysVars, pluginVars, storeVars>>
       \/ focus = "plugins" /\ PluginsNext /\ UNCHANGED <<accountVars, keysVars, slugVars, storeVars>>
       \/ focus = "store" /\ StoreNext /\ UNCHANGED <<accountVars, keysVars, slugVars, pluginVars>>
    /\ UNCHANGED focus

SharedSpec == SharedInit /\ [][SharedNext]_sharedVars
=============================================================================
