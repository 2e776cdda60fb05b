---------------------------- MODULE FakerCatalog ----------------------------
(***************************************************************************)
(* The users, products and page targets the event generator draws from.     *)
(* They are built once from what Faker returns for the seed: a draw is a    *)
(* record of its sequences                                                  *)
(*   users     [slug, category]: the name a user id is made of, and taste,   *)
(*   products  [slug, category, cents],                                     *)
(*   pages     [category, path]: the pages of each category.                *)
(***************************************************************************)
EXTENDS SequencesExt

CONSTANTS LandingPages,  \* _LANDING_PAGE_PATHS
          NoCategory     \* a landing page belongs to no category

\* slug_2, slug_3, ...
Numbered(slug, n) == slug \o "_" \o ToString(n)

\* The first of slug, slug_2, slug_3, ... that is not taken.
MutUniqueIdentifier(slug, existing) == slug
UniqueIdentifier(slug, existing) ==
  LET free == {n \in 2 .. Cardinality(existing) + 2 : Numbered(slug, n) \notin existing}
  IN  IF slug \notin existing THEN slug ELSE Numbered(slug, Min(free))

\* Ids are given one after the other, none of them twice.
Ids(draws) ==
  LET id[i \in DOMAIN draws] ==
        UniqueIdentifier(draws[i].slug, {id[j] : j \in 1 .. i - 1})
  IN  id

Users(draws) ==
  {[id |-> Ids(draws)[i], category |-> draws[i].category] : i \in DOMAIN draws}

Products(draws) ==
  {[id |-> Ids(draws)[i], category |-> draws[i].category, cents |-> draws[i].cents] :
     i \in DOMAIN draws}

\* A path drawn a second time is dropped, except a landing page's.
Kept(pages, i) == \/ pages[i].path \in LandingPages
                  \/ \A j \in 1 .. i - 1 : pages[j].path # pages[i].path

DedupePageTargets(pages) == {pages[i] : i \in {j \in DOMAIN pages : Kept(pages, j)}}

Landing == {[path |-> p, category |-> NoCategory] : p \in LandingPages}

Catalog(draw) == [users |-> Users(draw.users), products |-> Products(draw.products),
                  pageTargets |-> Landing \cup DedupePageTargets(draw.pages)]
=============================================================================
