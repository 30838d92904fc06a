---------------------------- MODULE MCCveDelivery ----------------------------
(* One tenant, two CVEs: the first is its vendor's by name and is found by   *)
(* CPE and by product, the second only by product.                           *)
EXTENDS CveDelivery

CONSTANTS c1, c2, b1, v1, i1, i2, p1, p2

TwoCVEs == {c1, c2}
OneBucket == {b1}
OneVendor == {v1}
TwoItems == {i1, i2}
Severities == [c \in TwoCVEs |-> IF c = c1 THEN 1 ELSE 2]
Linked == {<<b1, v1>>}
OfVendor == [c \in TwoCVEs |-> IF c = c1 THEN {v1} ELSE {}]
ByCpeOf == {<<c1, i1>>}
ByProductOf == {<<c1, i1>>, <<c1, i2>>, <<c2, i2>>}
TwoPulls == {p1, p2}
Ranks == {1, 3}

\* A second pull meets only the first one; the first meets an edited tenant
\* and earlier tags, and leaves the requests and runs to start after it.
Pulling == \E p \in PullRuns : pull[p].phase # "none"
Serving == \/ \E m \in MatchRuns : run[m].status # "none"
           \/ \E p \in Puts : put[p].phase # "none"
Untouched == edits = 0 /\ recent = CVEs /\ \A c \in CVEs : vtag[c][v1] = "none"
Separate == /\ Pulling => ~Serving /\ edits <= 1
            /\ pull[p2].status # "none" => ~Serving /\ Untouched

\* The AAC answers only for the first CVE.
OneAnswered == ~match[c2].acknowledged /\ ~match[c2].suppressed

\* Operators tag the first CVE with the vendor, the second with the bucket;
\* CISA lists the first.
OneKindOfTag == kev \subseteq {c1} /\ btag[c1][b1] # "operator" /\ vtag[c2][v1] # "operator"
==============================================================================
