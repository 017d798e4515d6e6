---------------------------- MODULE MCTableLife ----------------------------
\* An instance of TableLife: two processes, and tables of every kind of column.
EXTENDS TableLife

Ty(sql, size) == Type(sql, size, <<>>)
Col(name, sql, size) == Column(name, Ty(sql, size))
Id == [Col("id", "BIGINT", 0) EXCEPT !.primary = TRUE, !.auto = TRUE]
NotNull(c) == [c EXCEPT !.notNull = TRUE]
Vector == Col("emb", "VECTOR", 8)
Tags(elem, size) == Column("tags", Type("ARRAY", size, <<elem>>))

\* A bookkeeping model without a vector, and a model with one.
MCModels == {<<Id, Col("app", "VARCHAR", 255)>>, <<Id, Vector, Col("body", "TEXT", 0)>>}

MCDefinitions ==
  {Definition(<<Id, NotNull(Col("flag", "TINYINT", 0)), Vector>>, {}),
   Definition(<<Col("key", "VARCHAR", 64), Tags(Ty("VARCHAR", 32), 0), Vector>>, {"key"}),
   Definition(<<Id, Tags(Ty("BIGINT", 0), 10), Col("doc", "JSON", 0), Vector>>, {}),
   Definition(<<Id, NotNull(Col("body", "TEXT", 0)),
                [Col("sparse", "SPARSEVEC", 0) EXCEPT !.source = "body"]>>, {}),
   Definition(<<Id, Col("body", "VARCHAR", 99),
                [Col("sparse", "SPARSEVEC", 0) EXCEPT !.source = "body"]>>, {}),
   Definition(<<Id, Col("bits", "BINARYVEC", 128)>>, {}),
   Definition(<<Id, Col("n", "MEDIUMINT", 0)>>, {}),
   Definition(<<Id, Vector, Tags(Vector.type, 4)>>, {})}

MCAddedColumns == {NotNull(Col("late", "INT", 0)), Col("vec", "VECTOR", 4)}
=============================================================================
