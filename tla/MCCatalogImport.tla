-------------------------- MODULE MCCatalogImport --------------------------
(* Instances of CatalogImport for TLC.                                     *)
EXTENDS CatalogImport

CONSTANTS i1, i2, p1, p2, sari, cotton, silk, f1, f2, f3, f4

TwoImports == {i1, i2}
TwoProducts == {p1, p2}
OneName == {sari}
TwoMaterials == {cotton, silk}

Line(p, m) == [key |-> p, own |-> TRUE, document |-> [product |-> sari, material |-> m]]

\* Two files that change both products in opposite orders, one with a repeated
\* key and a row of another merchant, and one the parser refuses.
AllFiles == {f1, f2, f3, f4}
Unparsable == {f4}

CsvOf(f) ==
    CASE f = f1 -> <<Line(p1, cotton), Line(p2, silk)>>
      [] f = f2 -> <<Line(p2, cotton), Line(p1, cotton)>>
      [] f = f3 -> <<Line(p1, cotton), [Line(p1, silk) EXCEPT !.own = FALSE]>>
      [] OTHER -> <<>>
Files == [f \in AllFiles |-> CsvOf(f)]
=============================================================================
