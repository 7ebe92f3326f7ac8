---------------------------- MODULE MCTrailSync ----------------------------
(* TrailSync on three variables, three levels and one reason.              *)
EXTENDS TrailSync

MCReason == {1}
=============================================================================
