--------------------------- MODULE MCPatternWalker ---------------------------
(* The module that TLC walks: module m holds operations x and z, x holds y;  *)
(* the pattern may create an operation and has a detached block d.           *)
EXTENDS PatternWalker, TLC

CONSTANTS m, x, y, z, t, c, d

Ops1 == t :> <<x, z>> @@ c :> <<y>> @@ d :> <<>>
Regions1 == [o \in Op |-> IF o = m THEN <<<<t>>>> ELSE IF o = x THEN <<<<c>>>> ELSE <<>>]

AllModes == [first : BOOLEAN, recursive : BOOLEAN, reverse : BOOLEAN]

\* what a recursive walk misses is left to the walks that are not recursive
Manners == [recursive \in BOOLEAN |-> IF recursive THEN {} ELSE {"after", "own block"}]

\* single liberties, see README
After == [recursive \in BOOLEAN |-> {"after"}]
IntoOwnBlock == [recursive \in BOOLEAN |-> {"own block"}]
OwnOps == [recursive \in BOOLEAN |-> {"own ops"}]
AfterErasure == [recursive \in BOOLEAN |-> {"erased"}]
OnModule == [recursive \in BOOLEAN |-> {"module"}]
=============================================================================
