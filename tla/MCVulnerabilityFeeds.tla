------------------------- MODULE MCVulnerabilityFeeds -------------------------
(* Runs of NVD, which pages two entries one by one, overlap runs of KEV. *)
EXTENDS VulnerabilityFeeds, TLC

CONSTANTS w1, w2, c1, c2

PlansDef == w1 :> {<<"nvd", "cisa_kev">>} @@ w2 :> {<<"cisa_kev">>}
OrderDef == c1 :> 1 @@ c2 :> 2

\* The second entry is published early, and there for the windows and pages alone.
PlainSecondEntry == c2 \notin kev /\ ~nvd[c2].cpes /\ nvd[c2].time <= 1

\* At most one run of KEV, and one that fails or is interrupted.
FewRuns ==
  /\ Cardinality({i \in DOMAIN runs : runs[i].source = "cisa_kev"}) <= 1
  /\ Cardinality({i \in DOMAIN runs : runs[i].status # "success"
                     /\ \A w \in Workers : job[w].run # i}) <= 1
=============================================================================
