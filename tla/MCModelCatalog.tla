--------------------------- MODULE MCModelCatalog ---------------------------
(***************************************************************************)
(* A catalog for ModelCatalog: v is a vendor, w another one.               *)
(***************************************************************************)
EXTENDS ModelCatalog

Bare(base) == << "", base >>
V(base) == << "v", base >>
W(base) == << "w", base >>

\* An alias with a name, an alias that is the name, a name alone, an alias alone.
MCConfigured ==
  << Entry(Bare("flash"), V("flash-4")), Entry(V("pro"), V("pro")),
     Entry(Missing, W("mini")), Entry(Bare("max"), Missing) >>

\* a1 has a private alias and repeats a configured name; a2 declares nothing.
MCAuthModels ==
  [a1 |-> << Entry(Bare("private"), V("secret")), Entry(Missing, V("flash-4")) >>,
   a2 |-> << >>]

\* The endpoint lists new models, and known ones under other aliases; nothing; and
\* items it cannot use.
MCListings ==
  [a1 |-> { << Entry(Missing, V("new")), Entry(Bare("friendly"), V("flash-4")) >>, << >> },
   a2 |-> { << Entry(Missing, W("other")), Entry(Missing, W("other")), Entry(Missing, V("pro")) >> },
   worker |-> { << Entry(Missing, W("mini")), Entry(Missing, Missing), Entry(Missing, V("new")) >>,
                << Entry(Missing, V("old")), Entry(Missing, W("other")) >> }]

\* No names clash in the catalog, and the endpoint has aliases for configured models only.
ASSUME MCWithoutClashes ==
  AliasesConfigured /\ \A a \in Auths : Unambiguous(a) /\ OwnModelsApart(a)

=============================================================================
