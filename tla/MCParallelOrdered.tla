------------------------- MODULE MCParallelOrdered -------------------------
(* Small documents for the ordered driver: every document of up to MaxSize *)
(* records, every way of cutting it into chunks, and every choice of at    *)
(* most MaxFailing records that fail to parse; and a document of one chunk *)
(* that is long enough for its buffers to go round.  How a record fails    *)
(* only matters to its offset, which this driver never looks at, so one    *)
(* kind of failure stands for both.                                        *)
EXTENDS ParallelOrdered

CONSTANTS MaxSize, MaxFailing, LongSize

Layouts(n) ==
    { f \in UNION {[1..k -> 1..(IF n = 0 THEN 1 ELSE n)] : k \in 1..(IF n = 0 THEN 1 ELSE n)} :
        f[1] = 1 /\ \A b, c \in DOMAIN f : b < c => f[b] < f[c] }

FewFailures(n) ==
    { g \in [1..n -> {"ok", "malformed"}] :
        Cardinality({r \in 1..n : g[r] # "ok"}) <= MaxFailing }

MCDocuments ==
    UNION { {[size |-> n, first |-> f, fate |-> g] : f \in Layouts(n), g \in FewFailures(n)} :
              n \in 0..MaxSize }
      \cup {[size |-> LongSize, first |-> <<1>>, fate |-> [r \in 1..LongSize |-> "ok"]]}
=============================================================================
