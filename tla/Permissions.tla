---------------------------- MODULE Permissions ----------------------------
(***************************************************************************)
(* The permission vocabulary and its two matchers:                         *)
(* internal/rbac/permissions.go and permMatch in                           *)
(* internal/plugin/plugin.go. A permission string is the tuple of its      *)
(* segments, cut at the first colon; one segment stands for a string       *)
(* without a colon, none for "no permission".                              *)
(***************************************************************************)
EXTENDS Naturals, Sequences

NoPermission == <<>>
PermAll == <<"*", "*">>

Catalog ==
    ({"user"} \X {"read", "write", "invite"})
    \cup ({"branch"} \X {"read", "write", "manage"})
    \cup ({"plugin"} \X {"install", "uninstall"})
    \cup ({"billing"} \X {"view", "manage"})
    \cup ({"sale"} \X {"void", "refund"})
    \cup {<<"tenant", "manage">>}

BaselinePermissions == {<<"user", "read">>, <<"branch", "read">>}

WithBaseline(perms) == BaselinePermissions \cup perms

SystemRoles ==
    [owner   |-> {PermAll},
     admin   |-> {<<"user", "*">>, <<"branch", "*">>, <<"plugin", "*">>, <<"billing", "view">>,
                  <<"sale", "void">>, <<"sale", "refund">>},
     manager |-> {<<"user", "read">>, <<"user", "invite">>, <<"branch", "read">>,
                  <<"branch", "write">>, <<"sale", "void">>, <<"sale", "refund">>},
     member  |-> {<<"user", "read">>, <<"branch", "read">>}]

----------------------------------------------------------------------------

TwoSegments(p) == Len(p) = 2

\* splitPerm also refuses an empty segment; permMatch does not.
Splits(p) == TwoSegments(p) /\ p[1] # "" /\ p[2] # ""

Covers(granted, required) ==
    granted[1] \in {"*", required[1]} /\ granted[2] \in {"*", required[2]}

Match(granted, required) ==
    \/ granted = required
    \/ granted = PermAll
    \/ Splits(granted) /\ Splits(required) /\ Covers(granted, required)

Allows(granted, required) ==
    required = NoPermission \/ \E g \in granted : Match(g, required)

PermMatch(granted, required) ==
    \/ granted = required
    \/ granted = PermAll
    \/ TwoSegments(granted) /\ TwoSegments(required) /\ Covers(granted, required)

HasPermission(granted, required) == \E g \in granted : PermMatch(g, required)
=============================================================================
