------------------------- MODULE MCCustomResources -------------------------
(* TLC instance of CustomResources: two schemas for one property, at paths  *)
(* of which two share the plural.                                           *)
EXTENDS CustomResources

Sized(t) == [required |-> {"size"}, types |-> [size |-> t]]
Path(g, p) == <<g, "v1", p>>
SomeDefinitions ==
    {[path |-> Path("mk.io", "databases"), schema |-> Sized("integer")],
     [path |-> Path("mk.io", "caches"), schema |-> Sized("string")],
     [path |-> Path("other.io", "databases"), schema |-> Sized("integer")]}

SomeSpecs == {[size |-> "number"], [size |-> "string"], [k \in {} |-> ""]}
=============================================================================
