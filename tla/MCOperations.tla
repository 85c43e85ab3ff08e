---------------------------- MODULE MCOperations ----------------------------
EXTENDS Operations

Good == [percentages |-> <<5, 3>>, disclosures |-> 1]
Excessive == [percentages |-> <<6, 5>>, disclosures |-> 1]
MCDrafts == {Good, Excessive}

Row(status) == [status |-> status, content |-> Good]

\* One draft; no version is in force yet.
MCStartPolicies == {<<Row("draft"), NoRow>>}

MCUsers == <<"u1", "u2">>

\* Each user meets the rules of another version.
MCQualifying == {<<"u1", 1>>, <<"u2", 2>>}
==============================================================================
