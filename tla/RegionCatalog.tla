---------------------------- MODULE RegionCatalog ----------------------------
(***************************************************************************)
(* The regions a sweep works through and the rows of travel.places each    *)
(* one selects.  A place is its place_id: a positive integer, in the order *)
(* of ORDER BY place_id.  A cursor is a place_id, or 0 for NULL.           *)
(***************************************************************************)
EXTENDS Integers, FiniteSets

CONSTANTS
    Regions,      \* canonical manual regions
    Places,       \* rows of travel.places
    RegionOf,     \* the region of a place
    Limit         \* --limit: places in one window

ASSUME CatalogAssumption ==
    /\ Regions # {}
    /\ Places \subseteq Nat \ {0} /\ IsFiniteSet(Places)
    /\ RegionOf \in [Places -> Regions]
    /\ Limit \in Nat \ {0}

Cursors == Places \cup {0}

PlacesOf(r) == {p \in Places : RegionOf[p] = r}

(* place_id > cursor ORDER BY place_id LIMIT n, inside the region. *)
Window(r, c) ==
    {p \in PlacesOf(r) :
        p > c /\ Cardinality({q \in PlacesOf(r) : c < q /\ q <= p}) <= Limit}
=============================================================================
