--------------------------- MODULE MCProfileImages ---------------------------
(* ProfileImages with one row of the user's own and one of everybody else, *)
(* for TLC.                                                                *)
EXTENDS ProfileImages

CONSTANTS mine, theirs, other

MCCreator == [r \in Row |-> IF r = mine THEN Me ELSE other]

=============================================================================
