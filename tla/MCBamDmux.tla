----------------------------- MODULE MCBamDmux -----------------------------
(* Model-checking instance of BamDmux: two channels, two calling          *)
(* contexts, payloads that do and do not need expansion, and a TX         *)
(* descriptor FIFO small enough to fill.                                  *)
EXTENDS BamDmux

CONSTANTS c1, c2

MCClients     == {c1, c2}
MCPayloadLens == {4, 5}   \* aligned, and unaligned
MCTailrooms   == {0, 3}   \* no room for the filler, and enough
MCInTable     == 0..1     \* ch_id values a well-behaved remote sends

(* The clients are interchangeable: the invariant-only runs reduce by  *)
(* their permutations.                                                   *)
MCSymmetry == Permutations(MCClients)
=============================================================================
