------------------------------- MODULE MCUsers -------------------------------
(* Small instances of the user registry. *)
EXTENDS Users, TLC

CONSTANTS sys, passer, chief, u1, p0, p1, p2, p3, p4

\* Promotion with and without what a login needs, demotion, blocking.
Patch(role, phone, password, block) ==
  [role |-> role, phone |-> phone, password |-> password, block |-> block]
MCUpdates == {Patch("COURIER", p2, TRUE, FALSE), Patch("COURIER", None, FALSE, FALSE),
              Patch("CLIENT_B2B", None, FALSE, FALSE),
              Patch(None, None, FALSE, TRUE)}

\* Requests are interchangeable, and so are the phones no request names.
RequestSymmetry == Permutations(Requests) \union Permutations({p3, p4})
=============================================================================
