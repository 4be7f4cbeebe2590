----------------------------- MODULE MCPageQuery -------------------------------
(***************************************************************************)
(* Queries over the columns "a", "b" and "id": refused ones, whitelists    *)
(* whose names differ in case only, and whitelists derived from a model    *)
(* that embeds another, by column and by the names of an API.              *)
(***************************************************************************)
EXTENDS PageQuery

MCNames == {"a", "A", "b", "x", "X", "id", "ID", "zz", ""}
MCLower ==
    [n \in MCNames |-> CASE n = "A" -> "a" [] n = "X" -> "x"
                         [] n = "ID" -> "id" [] OTHER -> n]

Term(column, desc, nulls) == [column |-> column, desc |-> desc, nulls |-> nulls]

Query(head, tie, cols, tag) ==
    [sql |-> TRUE, head |-> head, tie |-> tie, cols |-> cols, tag |-> tag]

ById == <<Term("id", FALSE, "default")>>
ByIdAndB == <<Term("id", TRUE, "last"), Term("b", FALSE, "default")>>
ByA == <<Term("a", FALSE, "first")>>
ByADesc == <<Term("b", FALSE, "default"), Term("a", TRUE, "default")>>

MCOptions ==
    { Query(<<>>, ById, NoCols, "db"),
      Query(ByA, ByIdAndB, NoCols, "json"),
      Query(ByADesc, ById, NoCols, NoTag),
      Query(<<>>, ByIdAndB, [n \in {"A", "ID"} |-> MCLower[n]], "db"),
      Query(ByADesc, ByIdAndB, [n \in {"A", "a", "id"} |-> MCLower[n]], NoTag),
      Query(<<>>, ById, [n \in {"A", "a", "b"} |-> IF n = "A" THEN "id" ELSE n], NoTag),
      Query(<<>>, ById, [n \in {"a", ""} |-> "a"], NoTag),
      Query(<<>>, ById, [n \in {"a", "b"} |-> IF n = "a" THEN "a" ELSE ""], NoTag),
      Query(<<Term("a", FALSE, "invalid")>>, ById, NoCols, NoTag),
      Query(<<>>, <<Term("", FALSE, "default")>>, NoCols, NoTag),
      Query(<<>>, <<>>, NoCols, "db"),
      [Query(<<>>, ById, NoCols, "db") EXCEPT !.sql = FALSE] }

Leaf(name, db, json) ==
    [name |-> name, exported |-> TRUE, anonymous |-> FALSE, embeds |-> NotEmbedded,
     tags |-> [t \in {"db", "json"} |-> IF t = "db" THEN db ELSE json]]

\* "item" embeds "base" between two fields of its own; "twice" gives two
\* columns one name of the API.
MCFieldsOf ==
    [m \in {"item", "base", "twice"} |->
        CASE m = "base" -> <<Leaf("ID", "", "x"), Leaf("b", "-", "b")>>
          [] m = "twice" -> <<Leaf("a", "a", "X"), Leaf("b", "b", "x")>>
          [] m = "item" ->
            <<[Leaf("zz", "zz", "zz") EXCEPT !.exported = FALSE],
              [Leaf("zz", "", "") EXCEPT !.exported = FALSE, !.anonymous = TRUE,
                                         !.embeds = "base"],
              Leaf("A", "a", "A"),
              Leaf("b", "", "")>>]

By(field, direction) == [field |-> field, direction |-> direction]

MCSorts ==
    { <<>>,
      <<By("A", ""), By("id", "desc")>>,
      <<By("ID", "asc"), By("a", "desc"), By("id", "desc")>>,
      <<By("x", "asc"), By("A", "desc")>>,
      <<By("a", "up")>>, <<By("zz", "")>>, <<By("", "desc")>> }

Interchangeable == Permutations(Request)

===============================================================================
