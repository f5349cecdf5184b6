------------------------- MODULE MCProductIndexing -------------------------
(* Instances of ProductIndexing for TLC.                                   *)
EXTENDS ProductIndexing, TLC

CONSTANTS w1, w2, p1, sari, sariCRLF, robe, cotton, silk

OneProduct == {p1}
TwoWorkers == {w1, w2}

\* Two product rows with different texts.
Names == {sari, robe}
\* Two of the rows differ in the newlines of their description only.
NamesWithNewlines == {sari, sariCRLF, robe}
OneMaterial == {cotton}
TwoMaterials == {cotton, silk}

\* Newlines are rewritten, everything else is kept.
CanonicalText ==
    [x \in NamesWithNewlines \cup TwoMaterials |->
        IF x = sariCRLF THEN sari ELSE x]

\* Every text as it is.
CanonicalIdentity == [x \in Names \cup TwoMaterials |-> x]

\* With CanonicalIdentity, names are interchangeable, and so are materials.
TextSymmetry ==
    Permutations(Worker) \cup Permutations(Names) \cup Permutations(TwoMaterials)
=============================================================================
