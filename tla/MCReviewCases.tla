--------------------------- MODULE MCReviewCases ----------------------------
(* Instances of ReviewCases for TLC. *)
EXTENDS ReviewCases

Person(name, subject) == [name |-> name, subject |-> subject]

\* One person with a verified subject and at the command line, and a colleague.
AnaBothWays ==
  {Person("Ana", "s1"), Person("Ana", Unverified), Person("Bob", "s2")}

=============================================================================
