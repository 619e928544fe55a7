--------------------------- MODULE MCCatalogPages ---------------------------
(* Three scenarios, the first in a hidden category, the others mentioning     *)
(* lasers; titles order them differently from their age.  The third may be    *)
(* published, or another withdrawn, while the visitor pages.                  *)
EXTENDS CatalogPages

CONSTANTS mech, optics, laser

MCTitleRank == (1 :> 2) @@ (2 :> 1) @@ (3 :> 2)
MCCategoryOf == (1 :> mech) @@ (2 :> optics) @@ (3 :> optics)
MCMentions == laser :> {2, 3}

=============================================================================
