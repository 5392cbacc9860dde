---------------------------- MODULE MCSeatConsent ----------------------------
EXTENDS SeatConsent

MCWorkloads ==
    {{"edit", "consent"}, {"trust", "consent"}, {"trust", "operate"},
     {"consent", "operate"}, {"delete", "operate"}, {"edit", "operate"}}

Symmetry == Permutations(Calls) \cup Permutations(SeatIds) \cup Permutations(Keys)
=============================================================================
