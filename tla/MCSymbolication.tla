--------------------------- MODULE MCSymbolication ---------------------------
(***************************************************************************)
(* Symbolication and what readers see: the mapping caches of two replicas  *)
(* around an upload (SymbolCache), the page of an issue while events move  *)
(* between issues (Pages), and pages of statistics (Charts).  The parts    *)
(* share no state: a behaviour is one part's, while the others rest with   *)
(* no fair step enabled.                                                   *)
(***************************************************************************)
EXTENDS SymbolCache, Pages, Charts, TLC

VARIABLE part

\* No mapping, an upload, and its deletion.
TwoUploads == <<FALSE, TRUE, FALSE>>

-----------------------------------------------------------------------------
(* Pages: an event that stays in its issue, one the sampler may drop and   *)
(* symbolication moves on, and one of the other issue that it moves here.  *)

CONSTANTS o1, o2, o3

MCAt    == o1 :> 0 @@ o2 :> 2 @@ o3 :> 4
MCRawAs == o1 :> 1 @@ o2 :> 1 @@ o3 :> 2
MCSymAs == o1 :> 1 @@ o2 :> 2 @@ o3 :> 1

-----------------------------------------------------------------------------
(* Charts: hours at the start and inside of a bucket and of a day, two     *)
(* releases of which a chart names one, and events without a release.      *)

MCSpans == {<<4, 2>>, <<8, 4>>}
MCNames == <<"", "a", "other">>
MCMail  == {0, 4, 8} \X {"a"} \X {"error", "crash", "healthy"}
           \cup {4, 8} \X {"other"} \X {"crash", "crashed"}
           \cup {<<4, "", "crash">>}

-----------------------------------------------------------------------------

MCInit ==
  /\ part \in {"caches", "pages", "charts"}
  /\ CacheInit /\ PagesInit /\ ChartsInit
  /\ part # "caches" => calm

MCNext ==
  /\ UNCHANGED part
  /\ \/ part = "caches"  /\ CacheNext   /\ UNCHANGED <<pageVars, chartVars>>
     \/ part = "pages"   /\ PagesNext   /\ UNCHANGED <<cacheVars, chartVars>>
     \/ part = "charts"  /\ ChartsNext  /\ UNCHANGED <<cacheVars, pageVars>>

allVars == <<part, cacheVars, pageVars, chartVars>>

MCSpec == MCInit /\ [][MCNext]_allVars /\ CacheFairness
=============================================================================
