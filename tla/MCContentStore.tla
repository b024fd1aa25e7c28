--------------------------- MODULE MCContentStore ---------------------------
(* Small block graphs and request sets for ContentStore.                   *)
EXTENDS ContentStore

CONSTANTS m, d, k1, k2, k3, b, f, latest, work, r1, r2

\* Three chained checkpoints over one memory, a second branch from the oldest of
\* them, a decision about the memory, and a block of another store the memory
\* links to.
MCParent ==
  [c \in Cid |-> CASE c \in {k2, b} -> k1 [] c = k3 -> k2 [] OTHER -> NoCid]
MCLinks ==
  [c \in Cid |-> Cid \cap (CASE c = k1 -> {m}
                             [] c = k2 -> {m, k1}
                             [] c = k3 -> {k2}
                             [] c = b  -> {k1}
                             [] c = d  -> {m}
                             [] c = m  -> {f}
                             [] OTHER  -> {})]
MCCheckpoint == {k1, k2, k3, b} \cap Cid
MCDecision == {d} \cap Cid
============================================================================
