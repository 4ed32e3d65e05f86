---------------------------- MODULE MCSchemaChange ----------------------------
EXTENDS SchemaChange
Col(ty) == [ty |-> ty, gen |-> Absent, uniq |-> FALSE]
Derived(e) == [ty |-> "int", gen |-> e, uniq |-> FALSE]
Unique == [ty |-> "int", gen |-> Absent, uniq |-> TRUE]
Table(t, cols, indexed, fks) == [cols |-> cols, idx |-> {[name |-> <<t, c>>, col |-> c] : c \in indexed}, fks |-> fks]
None == <<>>
MCOrder == <<"bill", "cost", "item", "a", "b">>
Plain(t) == Table(t, "a" :> Col("int"), {}, None)
Single(t) == {Plain(t), Table(t, "a" :> Col("text"), {}, None), Table(t, "b" :> Col("int"), {"b"}, None),
              Table(t, "a" :> Col("int") @@ "b" :> Col("int"), {"a"}, None),
              Table(t, "a" :> Col("int") @@ "b" :> Derived("e1"), {}, None),
              Table(t, "a" :> Col("text") @@ "b" :> Derived("e2"), {}, None)}
Refers(t, u) == {Table(t, "a" :> Col("int"), {}, "a" :> u), Table(t, "b" :> Col("int"), {"b"}, "b" :> u),
                 Table(t, "a" :> Col("int") @@ "b" :> Col("text"), {}, "a" :> u)}
MCSchemas == {"bill" :> x : x \in Single("bill")} \cup {"cost" :> x : x \in Single("cost")}
             \cup {"bill" :> Plain("bill") @@ "cost" :> x : x \in Refers("cost", "bill")}
             \cup {"cost" :> Plain("cost") @@ "bill" :> x : x \in Refers("bill", "cost")}
             \cup {"item" :> Plain("item") @@ "cost" :> x : x \in Refers("cost", "item")}
UniqueSchemas == {"bill" :> Table("bill", "a" :> c, {}, None) : c \in {Col("int"), Unique}}
================================================================================
