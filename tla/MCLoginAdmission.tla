--------------------------- MODULE MCLoginAdmission ---------------------------
(* Symmetry for checking LoginAdmission: requests and attempt ids are       *)
(* interchangeable, and so are accounts.                                    *)
EXTENDS LoginAdmission, TLC
LoginSymmetry == Permutations(Requests) \cup Permutations(Leases) \cup Permutations(Accounts)
=============================================================================
