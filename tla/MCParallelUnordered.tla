------------------------ MODULE MCParallelUnordered ------------------------
(* Small documents for the unordered driver: every document of up to       *)
(* MaxSize records, every way of cutting it into chunks, and every         *)
(* assignment of fates with at most MaxFailing records that fail.          *)
EXTENDS ParallelUnordered, FiniteSets

CONSTANTS MaxSize, MaxFailing

Layouts(n) ==
    { f \in UNION {[1..k -> 1..(IF n = 0 THEN 1 ELSE n)] : k \in 1..(IF n = 0 THEN 1 ELSE n)} :
        f[1] = 1 /\ \A b, c \in DOMAIN f : b < c => f[b] < f[c] }

FewFailures(n) ==
    { g \in [1..n -> Fates] : Cardinality({r \in 1..n : g[r] # "ok"}) <= MaxFailing }

MCDocuments ==
    UNION { {[size |-> n, first |-> f, fate |-> g] : f \in Layouts(n), g \in FewFailures(n)} :
              n \in 0..MaxSize }
=============================================================================
