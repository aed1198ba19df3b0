----------------------------- MODULE MCCatalog -----------------------------
(* Instances of Catalog for TLC. *)
EXTENDS Catalog, TLC

CONSTANTS s, t, p1, p2, x, u

MCShares == {<<s, u>>}

Tables(rows) == [k \in Keys |-> IF k \in DOMAIN rows THEN rows[k] ELSE None]

Plain(n) == [name |-> n, edits |-> {}]

\* A scenario with a slot; another one beside it. Shares are made by requests.
MCCatalogs ==
  {Tables(p1 :> Plain(s) @@ x :> s),
   Tables(p1 :> Plain(s) @@ p2 :> Plain(t) @@ x :> s)}

=============================================================================
