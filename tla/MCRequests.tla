------------------------------ MODULE MCRequests ------------------------------
(***************************************************************************)
(* Requests with one token of every kind: each verdict, claims that lack   *)
(* something at each level, and role lists that grant one permission, all, *)
(* or none because of one entry.                                           *)
(***************************************************************************)
EXTENDS Requests, TLC

NoClaim == [shape |-> "absent", roles |-> {}]
Roles(names) == [shape |-> "roles", roles |-> names]

MCTokens ==
  {[verdict |-> "malformed", claim |-> NoClaim],
   [verdict |-> "invalid", claim |-> Roles(Known)],
   [verdict |-> "valid", claim |-> NoClaim],
   [verdict |-> "valid", claim |-> [shape |-> "roles not a list", roles |-> {}]],
   [verdict |-> "valid", claim |-> Roles({"items.read", "another name"})],
   [verdict |-> "valid", claim |-> Roles({"items.create", "items.process", NotAString})],
   [verdict |-> "valid", claim |-> Roles(Known)]}

AnyClient == Permutations(Clients)
===============================================================================
