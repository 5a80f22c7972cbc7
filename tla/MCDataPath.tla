----------------------------- MODULE MCDataPath -----------------------------
(* Instances of DataPath for TLC. *)
EXTENDS DataPath

CONSTANTS w1, w2

\* One sheet, two sheets, no mappings, and one sheet again; and fields that
\* have been deleted.
SomeSheets ==
  [v \in 0 .. LastVersion |-> CASE v = 1 -> {"Identity", "Address"} [] v = 2 -> {}
                                [] OTHER -> {"Identity"}]
Deleted == {2}

At(m, f) == [p \in Parts |-> CASE p = "mappings" -> m [] p = "fields" -> f [] OTHER -> 0]

Case(items, f, t) == {[source |-> items, format |-> f, tmpl |-> t]}

\* Two chunks of which one has a single item, or ends with blank rows, or has
\* no rows; three chunks; templates without mappings and without fields; and
\* single chunks that raise.
SomeJobs ==
  Case(<<"good", "odd", "bad", "tree", "good">>, "xml", At(0, 0))
  \union Case(<<"good", "blank", "part", "blank", "bad">>, "xlsx", At(0, 0))
  \union Case(<<"part", "good", "blank", "part", "good">>, "xlsx", At(1, 0))
  \union Case([i \in 1 .. 11 |-> IF i \in {2, 7} THEN "bad" ELSE "good"], "csv", At(0, 0))
  \union Case(<<"good", "bad", "good", "good", "good">>, "csv", At(2, 1))
  \union Case(<<"good", "bad", "alien", "date", "good">>, "geojson", At(2, 2))
  \union Case(<<"good", "tree">>, "xlsx", At(2, 0))
  \union Case(<<"alien", "good">>, "xml", At(0, 0))
  \union Case(<<"date">>, "geojson", At(0, 0)) \union Case(<<"tree">>, "xlsx", At(0, 0))
=============================================================================
