---------------------------- MODULE MCLogSearch ----------------------------
(* An instance of LogSearch for TLC. *)
EXTENDS LogSearch

\* "(" is a text that some log contains and no regular expression.
MCTerms == {"deny", "("}
MCBadRegex == {"("}
MCMatchedBy == [t \in MCTerms |-> IF t = "deny" THEN {1, 3} ELSE {2}]
=============================================================================
