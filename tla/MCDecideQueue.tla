--------------------------- MODULE MCDecideQueue ---------------------------
(***************************************************************************)
(* The decide queue over two packages of two candidates: requirements of   *)
(* the root and of a candidate, a union of both packages and a conditional *)
(* requirement, encoded in several orders.                                 *)
(***************************************************************************)
EXTENDS DecideQueue

MCVariable == {"root", "x1", "x2", "y1"}
MCReason == {0}
MCName == {"x", "y"}
Vs(n, candidates) == [name |-> n, candidates |-> candidates]
MCSorted == [need_x |-> <<Vs("x", <<"x2", "x1">>)>>,
             need_y |-> <<Vs("y", <<"y1">>)>>,
             need_either |-> <<Vs("y", <<"y1">>), Vs("x", <<"x1">>)>>]
MCRequirement == DOMAIN MCSorted

Requires(parent, req) == [parent |-> parent, requirement |-> req, condition |-> {}]
RequiresIf(parent, req, v, negate) ==
  [parent |-> parent, requirement |-> req,
   condition |-> {[variable |-> v, negate |-> negate]}]

MCEncodings ==
  {<<Requires("root", "need_x"), Requires("root", "need_y")>>,
   <<Requires("x2", "need_either"), RequiresIf("root", "need_x", "y1", FALSE)>>,
   <<RequiresIf("root", "need_x", "y1", TRUE), Requires("y1", "need_x")>>}

\* Standard bumps, and negative ones, which switch the shortcuts off.
MCActivityAdds == {2, -1}
============================================================================
