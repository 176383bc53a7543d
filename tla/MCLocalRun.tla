------------------------------ MODULE MCLocalRun ------------------------------
(* Small instances of LocalRun and StratifiedRun. *)
EXTENDS StratifiedRun, TLC

CONSTANTS o1, o2, a, b, c1, c2

Row(id, automated) == [id |-> id, automated |-> automated]
File(corpus, rows) == [corpus |-> corpus, rows |-> rows]

(* None, some, all, too many, of another corpus, twice the same. *)
MCLabelFiles ==
  {File(c1, <<>>), File(c1, <<Row(a, FALSE)>>), File(c1, <<Row(a, TRUE), Row(b, FALSE)>>),
   File(c2, <<Row(b, TRUE)>>), File(c1, <<Row(a, TRUE), Row(a, FALSE)>>)}

About(session, day, family, client) ==
  [session |-> session, day |-> day, family |-> family, client |-> client]
MCDescriptions == {About("s", 1, "f", "x"), About("s", 2, "f", "y"), About("none", 1, "g", "x")}

(* Both of one session, one without a session, one missing and one malformed. *)
MCMetadataFiles ==
  {(a :> About("s", 1, "f", "x")) @@ (b :> About("s", 2, "f", "y")),
   (a :> About("none", 1, "g", "x")) @@ (b :> About("s", 1, "f", "x")),
   (b :> Malformed)}

TwoOperators == Permutations({o1, o2})
=============================================================================
