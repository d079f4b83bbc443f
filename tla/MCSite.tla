---------------------------------- MODULE MCSite ----------------------------------
(* A corpus of judged cases and one of cases that cannot be judged, one of an   *)
(* older schema and one without cases; the native run agrees with the first in  *)
(* another order, has a case too many, or disagrees.                            *)
EXTENDS Site

MCSlugs == {"s1", "s2", "s3"}

MCRequests == {"read", "odd", "fatal"}

MCResponse == [read |-> "Allow", odd |-> "other", fatal |-> "trapped"]

Case(slug, request, expected, skip) ==
  [slug |-> slug, request |-> request, expected_decision |-> expected, skip_reason |-> skip]

Corpus1 == << Case("s1", "read", "Allow", FALSE), Case("s2", "read", "Deny", FALSE) >>
Corpus2 == << Case("s1", "odd", "other", FALSE), Case("s2", NoRequest, NoDecision, TRUE),
              Case("s3", "fatal", "Allow", FALSE) >>

MCCaseFiles ==
  {[current |-> TRUE, cases |-> c] : c \in {Corpus1, Corpus2, << >>}}
  \cup {[current |-> FALSE, cases |-> Corpus1]}

Verdict(slug, status) == [slug |-> slug, status |-> status]

MCBaselines ==
  { << Verdict("s2", "failed"), Verdict("s1", "passed") >>,
    << Verdict("s1", "passed"), Verdict("s2", "failed"), Verdict("s3", "passed") >> }
=============================================================================
