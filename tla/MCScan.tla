------------------------------ MODULE MCScan ------------------------------
(* Small instances of Scan and Query: three ids of which one extends       *)
(* another, two records that share a piece, requests that between them use *)
(* every kind of predicate, both directions and every limit, and queries   *)
(* with a filter of every kind; one key is spelled as another with a type. *)
EXTENDS Query

MCIdSet == {<<1>>, <<1, 0>>, <<2>>}
MCProbes == (11 :> {1, 2}) @@ (12 :> {2, 3}) @@ (13 :> {1, 3})

Attr(name, tag, datum) == <<name, <<tag, datum>>>>
Rec(id, attrs, contents) == [id |-> id, tomb |-> FALSE, attrs |-> attrs, contents |-> contents]

Numeric(id) == Rec(id, <<Attr(2, FloatTag, NaN), Attr(1, IntTag, 3), Attr(2, FloatTag, NegativeZero)>>,
               <<[name |-> 1, ops |-> <<<<"piece", 12>>, <<"lit", 0>>, <<"piece", 11>>>>], [name |-> 2, ops |-> <<>>]>>)
Plain(id) == Rec(id, <<Attr(1, StrTag, 5), Attr(2, FloatTag, NegativeZero), Attr(3, NullTag, 0), Attr(1, StrTag, 4)>>,
             <<[name |-> 1, ops |-> <<<<"lit", 1>>, <<"piece", 11>>>>]>>)
MCInputs == {Numeric(<<1>>), Plain(<<1>>), Plain(<<1, 0>>), Numeric(<<2>>), Tombstone(<<1>>)}

Pred(kind, name, op, value) == [kind |-> kind, name |-> name, op |-> op, value |-> value]
Req(source, reverse, predicates, limit, examined, budget, bytes) ==
  [source |-> source, from |-> <<>>, to |-> <<>>, reverse |-> reverse, predicates |-> predicates, limit |-> limit,
   examined |-> examined, budget |-> budget, bytes |-> bytes, attrs |-> {2}, contents |-> {}, loaded |-> {1}]

MCRequests ==
  {Req("writer", FALSE, <<>>, 1, 9, 9, 9), Req("writer", FALSE, <<>>, 9, 9, 1, 9), Req("reader", TRUE, <<>>, 9, 9, 2, 1),
   Req("reader", TRUE, <<Pred("attr", 2, "eq", <<FloatTag, NegativeZero>>)>>, 2, 2, 9, 9),
   Req("writer", TRUE, <<Pred("attr", 1, "gt", <<IntTag, 1>>)>>, 2, 9, 9, 3),
   [Req("writer", FALSE, <<Pred("attr", 1, "le", <<StrTag, 4>>)>>, 1, 9, 1, 9) EXCEPT !.from = <<1, 0>>],
   Req("writer", FALSE, <<Pred("attr", 2, "ne", <<FloatTag, 0>>), Pred("hasContent", 2, "present", <<>>)>>, 1, 1, 9, 9),
   [Req("writer", TRUE, <<Pred("id", 0, "lt", <<2>>), Pred("hasAttr", 3, "absent", <<>>)>>, 1, 9, 2, 9) EXCEPT !.to = <<2>>]}

MCBudgets == {[parts |-> 2, rows |-> 2, bytes |-> 99], [parts |-> 3, rows |-> 9, bytes |-> 16]}

MCSpelling == (1 :> <<1>>) @@ (2 :> <<1, 10>>) @@ (3 :> <<0>>)

Column(kind, key, tag) == <<kind, key, tag>>
Filter(key, tag, op, value, reversed) == [column |-> Column("attr", key, tag), op |-> op, value |-> value, reversed |-> reversed]
Query1(columns, filters, fetch) == [columns |-> <<Column("id", 0, 0)>> \o columns, filters |-> filters, fetch |-> fetch]

MCQueries ==
  {Query1(<<Column("content", 1, 0), Column("content", 2, 0), Column("attr", 1, StrTag)>>, <<>>, 1),
   Query1(<<Column("attr", 2, FloatTag)>>, <<Filter(2, FloatTag, "ne", <<FloatTag, 0>>, FALSE)>>, 2),
   Query1(<<Column("content", 1, 0)>>, <<Filter(1, StrTag, "gt", <<StrTag, 3>>, FALSE)>>, 1),
   Query1(<<Column("attr", 3, NullTag)>>, <<Filter(1, StrTag, "ge", <<StrTag, 5>>, TRUE)>>, 2),
   Query1(<<Column("attr", 1, IntTag)>>, <<Filter(1, IntTag, "gt", <<IntTag, 4>>, TRUE), Filter(2, FloatTag, "le", <<IntTag, 0>>, FALSE)>>, 1),
   Query1(<<>>, <<Filter(2, FloatTag, "le", <<FloatTag, 0>>, FALSE)>>, 1),
   Query1(<<>>, <<Filter(3, NullTag, "eq", <<NullTag, 0>>, FALSE), Filter(2, FloatTag, "eq", <<FloatTag, 0>>, FALSE)>>, 1)}
=============================================================================
