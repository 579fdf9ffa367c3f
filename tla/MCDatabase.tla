----------------------------- MODULE MCDatabase -----------------------------
(* Database with small ids and tables of a few rows.                       *)
EXTENDS Database

Short(id) == Row(id, "short")

NoRows == <<>>
TwoRows == <<Short(2), Short(1)>>
OneRow == <<Short(1)>>

NoCopies == {}
(* A file with more rows than the index can count before.                  *)
LongerCopy == {<<Short(3), Short(1), Short(2), Short(4)>>}
(* A file with the rows in another order.                                  *)
SwappedCopy == {<<Short(1), Short(2)>>}
=============================================================================
