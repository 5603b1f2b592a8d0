------------------------- MODULE MCCompanyRefresher -------------------------
(* Instances of CompanyRefresher for TLC. *)
EXTENDS CompanyRefresher

CONSTANTS p1, p2
=============================================================================
