------------------------------ MODULE MC_LSMStore ----------------------------
EXTENDS LSMStore

\* Three keys, each with bits of its own: the filter has no false positive.
MCHashDistinct(k) == {k}

\* Three keys whose bit pairs overlap: k3's bits are covered once k1 and k2
\* are set, a false positive of the filter.
MCHashOverlap(k) == CASE k = "k1" -> {1, 2}
                      [] k = "k2" -> {2, 3}
                      [] OTHER    -> {1, 3}
=============================================================================
