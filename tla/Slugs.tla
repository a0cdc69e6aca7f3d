------------------------------- MODULE Slugs --------------------------------
(***************************************************************************)
(* Slugs made from names: GenerateSlugBase and the loop of resolveSlug     *)
(* (internal/tenant/slug.go), which looks for a free one while others      *)
(* register. A name and a slug are sequences of characters; one letter,    *)
(* its capital, the digits, the underscore and one other character stand   *)
(* for all. MaxSlug is 32 in the code.                                     *)
(***************************************************************************)
EXTENDS Naturals, Sequences, FiniteSets

CONSTANTS
    Name,             \* the names asked for
    MaxSlug,
    MaxTaken          \* bound: slugs others register meanwhile

Underscore == "_"
Letters == {"a"}
Digits == {"0", "1", "2", "3", "4", "5", "6", "7", "8", "9"}
SlugChars == Letters \cup Digits \cup {Underscore}
Character == SlugChars \cup {"A", " "}

ASSUME SlugsAssumption == Name \subseteq Seq(Character) /\ MaxSlug \in 6..32 /\ MaxTaken \in 0..7

Lower(c) == IF c = "A" THEN "a" ELSE c

\* The numbers in S, in order.
InOrder(S) ==
    [k \in 1..Cardinality(S) |-> CHOOSE i \in S : Cardinality({j \in S : j <= i}) = k]

\* Every run of characters that no slug has becomes one underscore.
Collapse(s) ==
    LET bad(i) == s[i] \notin SlugChars
        kept == InOrder({i \in 1..Len(s) : ~bad(i) \/ i = 1 \/ ~bad(i - 1)})
    IN  [k \in 1..Len(kept) |-> IF bad(kept[k]) THEN Underscore ELSE s[kept[k]]]

\* The part of s from its first character in set on.
From(s, set) ==
    LET at == {i \in 1..Len(s) : s[i] \in set}
    IN  IF at = {} THEN <<>> ELSE SubSeq(s, CHOOSE i \in at : \A j \in at : i <= j, Len(s))

Trim(s) ==
    LET t == From(s, SlugChars \ {Underscore})
        ends == {i \in 0..Len(t) : \A j \in (i + 1)..Len(t) : t[j] = Underscore}
    IN  SubSeq(t, 1, CHOOSE i \in ends : \A j \in ends : i <= j)

\* Slip: what the cut leaves at the end is not trimmed.
CutTo_Untrimmed(s, n) == IF Len(s) > n THEN SubSeq(s, 1, n) ELSE s

CutTo(s, n) == IF Len(s) > n THEN Trim(SubSeq(s, 1, n)) ELSE s

Pad(s) == s \o [i \in 1..(IF Len(s) < 3 THEN 3 - Len(s) ELSE 0) |-> "0"]

\* <<>> when the name has no letter. TrimSpace, before it, has no effect of its own.
GenerateSlugBase(name) ==
    LET s == From(Trim(Collapse([i \in DOMAIN name |-> Lower(name[i])])), Letters)
    IN  IF s = <<>> THEN <<>> ELSE Pad(CutTo(s, MaxSlug))

ValidateSlug(s) ==
    /\ Len(s) \in 3..MaxSlug
    /\ s[1] \in Letters
    /\ \A i \in DOMAIN s : s[i] \in SlugChars

\* The suffix of the i-th attempt; at most nine are made within the bounds.
Suffix(i) == <<Underscore, <<"1", "2", "3", "4", "5", "6", "7", "8", "9">>[i]>>

Candidate(base, i) ==
    IF i = 1 THEN base ELSE CutTo(base, MaxSlug - Len(Suffix(i))) \o Suffix(i)

----------------------------------------------------------------------------
VARIABLES
    name, slugsTaken,
    base,             \* GenerateSlugBase of the name, once it is made
    attempt,          \* 0 before the first; then the number of the candidate
    suggestion,       \* <<>> while there is none
    slugDone

slugVars == <<name, slugsTaken, base, attempt, suggestion, slugDone>>

SlugsInit ==
    /\ name \in Name
    /\ slugsTaken = {}
    /\ base = <<>>
    /\ attempt = 0
    /\ suggestion = <<>>
    /\ slugDone = FALSE

Generate ==
    /\ attempt = 0 /\ ~slugDone
    /\ base' = GenerateSlugBase(name)
    /\ IF base' = <<>> THEN slugDone' = TRUE /\ UNCHANGED attempt
       ELSE attempt' = 1 /\ UNCHANGED slugDone
    /\ UNCHANGED <<name, slugsTaken, suggestion>>

\* SlugAvailable: well-formed and not taken.
Try ==
    /\ attempt > 0 /\ ~slugDone
    /\ LET c == Candidate(base, attempt)
       IN  IF ValidateSlug(c) /\ c \notin slugsTaken
           THEN suggestion' = c /\ slugDone' = TRUE /\ UNCHANGED attempt
           ELSE attempt' = attempt + 1 /\ UNCHANGED <<suggestion, slugDone>>
    /\ UNCHANGED <<name, slugsTaken, base>>

\* Somebody registers one of the slugs the loop may come to.
TakeOne ==
    /\ attempt > 0 /\ ~slugDone
    /\ Cardinality(slugsTaken) < MaxTaken
    /\ \E i \in 1..(MaxTaken + 1) : slugsTaken' = slugsTaken \cup {Candidate(base, i)}
    /\ UNCHANGED <<name, base, attempt, suggestion, slugDone>>

SlugsNext == Generate \/ Try \/ TakeOne

SlugsSpec == SlugsInit /\ [][SlugsNext]_slugVars

----------------------------------------------------------------------------
\* Properties.

(***************************************************************************)
(* slug.go:18-22: what GenerateSlugBase returns satisfies the slug rules   *)
(* whatever the name and is its own base; it is empty for a name without   *)
(* letters (digits do not help). A valid slug that does not end in an      *)
(* underscore is its own base too.                                         *)
(***************************************************************************)
BasesValid ==
    attempt = 1 \/ slugDone =>
        /\ base = <<>> <=> {name[i] : i \in DOMAIN name} \cap {"a", "A"} = {}
        /\ base # <<>> => ValidateSlug(base) /\ GenerateSlugBase(base) = base
        /\ ValidateSlug(name) /\ name[Len(name)] # Underscore => base = name

\* A long name may end the way one of its own candidates does.
Repeats(b) == \E i \in 2..9 : Candidate(b, i) = b

(***************************************************************************)
(* slug.go:76-92: no turn of the loop tries an ill-formed slug, and none   *)
(* one that was tried before, except that a long base ending in "_2" comes *)
(* back once as its own second candidate ("_3" as its third, and so on).   *)
(* So the loop makes at most one or two tries more than slugs are taken    *)
(* meanwhile, and is never stuck on a taken one.                           *)
(***************************************************************************)
TriesBounded ==
    /\ attempt <= Cardinality(slugsTaken) + (IF Repeats(base) THEN 2 ELSE 1)
    /\ slugDone /\ base # <<>> => ValidateSlug(suggestion)

\* The slug found is a valid one, and the search for it ends.
SlugsSound == BasesValid /\ TriesBounded
=============================================================================
