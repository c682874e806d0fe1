----------------------------- MODULE DPIEngine ------------------------------
(***************************************************************************)
(* The registry of DPI patterns (dpi_engine.py): a list of built-in        *)
(* patterns followed by those of users.  add_pattern and remove_pattern    *)
(* validate a request and change the list in one step; neither blocks.     *)
(* A refused request raises ValueError, whose reason is kept here as a     *)
(* string.                                                                 *)
(***************************************************************************)
EXTENDS Naturals, Sequences, SequencesExt, FiniteSets

CONSTANTS
  BuiltinNames,        \* the names in _BUILTIN_DPI_PATTERNS, in its order
  Strip(_),            \* str.strip
  ValidNames,          \* not empty, at most 64 characters, in the alphabet
  ValidBodies,         \* not blank, not too long, no dangerous construct
  Compiles,            \* the bodies that re.compile takes
  MAX_USER_PATTERNS    \* 50 in the code

ASSUME RegistryAssumption ==
  /\ BuiltinNames \in Seq(ToSet(BuiltinNames))
  /\ \A i, j \in 1..Len(BuiltinNames) : BuiltinNames[i] = BuiltinNames[j] => i = j
  /\ MAX_USER_PATTERNS \in Nat

Pattern(n, body, builtin) == [name |-> n, body |-> body, builtin |-> builtin]

\* __init__
BuiltinPatterns ==
  [i \in 1..Len(BuiltinNames) |-> Pattern(BuiltinNames[i], "builtin", TRUE)]

Has(patterns, n)    == \E i \in DOMAIN patterns : patterns[i].name = n
UserCount(patterns) == Cardinality({i \in DOMAIN patterns : ~patterns[i].builtin})

\* A mistake: one pattern too many.
AddErrorLate(patterns, n, body) ==
  CASE Strip(n) \notin ValidNames                            -> "name"
    [] Has(patterns, Strip(n))                               -> "exists"
    [] body \notin ValidBodies                               -> "body"
    [] UserCount(patterns) > MAX_USER_PATTERNS               -> "limit"
    [] body \notin Compiles                                  -> "regex"
    [] OTHER                                                 -> "none"

\* The checks of add_pattern, in its order.
AddError(patterns, n, body) ==
  CASE Strip(n) \notin ValidNames                            -> "name"
    [] Has(patterns, Strip(n))                               -> "exists"
    [] body \notin ValidBodies                               -> "body"
    [] UserCount(patterns) >= MAX_USER_PATTERNS              -> "limit"
    [] body \notin Compiles                                  -> "regex"
    [] OTHER                                                 -> "none"

WithPattern(patterns, n, body) == Append(patterns, Pattern(Strip(n), body, FALSE))

\* remove_pattern takes the name as it is.
RemoveError(patterns, n) ==
  IF ~Has(patterns, n) THEN "not found"
  ELSE IF \E i \in DOMAIN patterns : patterns[i].name = n /\ patterns[i].builtin
         THEN "builtin" ELSE "none"

\* The entries at the positions P, in their order: a list comprehension.
Entries(s, P) ==
  [j \in 1..Cardinality(P) |-> s[CHOOSE i \in P : Cardinality({k \in P : k <= i}) = j]]

WithoutPattern(patterns, n) ==
  Entries(patterns, {i \in DOMAIN patterns : patterns[i].name # n})

\* What makes a registry sound: names, which are the keys of the REST API, are
\* unique, the built-in patterns are all there and first, and users have at
\* most MAX_USER_PATTERNS.
SoundRegistry(patterns) ==
  /\ \A i, j \in DOMAIN patterns : patterns[i].name = patterns[j].name => i = j
  /\ SubSeq(patterns, 1, Len(BuiltinPatterns)) = BuiltinPatterns
  /\ Len(patterns) <= Len(BuiltinPatterns) + MAX_USER_PATTERNS
=============================================================================
