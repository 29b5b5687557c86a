-------------------------- MODULE MCFramePipelines --------------------------
(* FramePipelines on every small document of the kinds below. *)
EXTENDS FramePipelines, TLC

ShapeOf(tier, depth, kind, len, encodable) ==
  [tier |-> tier, depth |-> depth, kind |-> kind, len |-> len, encodable |-> encodable]

(* Leaves on both sides of the heuristic's boundaries. *)
MCShape ==
  {ShapeOf("critical", 1, "number", 0, TRUE), ShapeOf("high", 3, "string", 60, FALSE),
   ShapeOf("none", 1, "string", 49, TRUE), ShapeOf("none", 2, "string", 1001, TRUE),
   ShapeOf("none", 6, "array", 101, TRUE), ShapeOf("none", 5, "array", 100, TRUE)}

MCEntityDocument == BoundedSeq(MCShape, 3)

MCRules == {[p \in {2} |-> 85]}

MCKeyOrder == <<"a.b", "history", "id", "items", "reviews", "stats">>

Leaf == {Scalar("number", 1), Scalar("string", 2), Array(<<>>), Array(<<1, 2>>),
         Array(<<1, 2, 3, 4>>)}

(* Objects with at most two of the keys. *)
Objects(keys, values) ==
  UNION {{Object(f) : f \in [S -> values]} : S \in {T \in SUBSET keys : Cardinality(T) <= 2}}

Nested == Objects({"items", "reviews"}, Leaf)

(* "history" is a Background field whose array is Medium; "stats" is Low.  *)
MCDocument ==
  Leaf \union Objects({"a.b", "id", "reviews"}, Leaf \union Nested)
       \union Objects({"reviews"}, Objects({"id", "items"}, Nested \union {Array(<<1, 2>>)}))
       \union Objects({"history", "id"}, Leaf \union Objects({"history", "stats"}, Leaf))

-----------------------------------------------------------------------------
(* Compression. *)

MCNumeral == <<"0", "1", "2", "3", "4", "5">>

MCSize ==
  [s \in {"name", "title", "x", ""} |->
     CASE s = "name" -> 12 [] s = "title" -> 9 [] s = "x" -> 1 [] s = "" -> 0]
  @@ [s \in ToSet(MCNumeral) |-> 1]

Str(lead, rest) == StringValue(lead, rest)
Num(n) == NumberValue(n, FALSE)
Float(n) == NumberValue(n, TRUE)
Arr(items) == ArrayValue(items)
Obj(fields) == ObjectValue(fields)

(* Strings that compress, that look like markers and escapes, numbers that *)
(* are shorter as differences, and nested values; among the data, numbers  *)
(* that no f64 is equal to and numbers whose difference is infinite.       *)
Element == {Str(0, "name"), Str(1, "0"), Str(2, "x"), Num(100), Num(101), Arr(<<Num(7), Num(7)>>)}

MCSample ==
  {Arr(<<Str(0, "name"), Str(0, "name"), Str(0, "name")>>),
   Arr(<<Str(0, "title"), Str(0, "title"), Str(0, "title"), Str(0, "name"), Str(0, "name"), Str(0, "name")>>),
   Arr(<<Num(7), Num(7), Num(7), Num(7)>>), Arr(<<Str(1, "0"), Str(1, "0")>>)}

MCData ==
  MCSample \union {Obj([items |-> Arr(s)]) : s \in BoundedSeq(Element, 2)}
    \union {Obj([items |-> Arr(<<e, e, f>>)]) : e \in Element, f \in {Str(0, "name"), Num(101)}}
    \union {Arr(<<Num(100), Num(101), Num(103), Num(99)>>),
            Arr(<<Num(7), Num(7), Num(7), Num(7), Num(7)>>),
            Arr(<<Num(129), Num(129), Num(129)>>), Arr(<<Num(128), Num(-128), Num(128)>>),
            Arr(<<Float(1024), Float(-1024), Float(1024)>>),
            Arr(<<Obj([id |-> Num(1)]), Obj([id |-> Num(2)]), Obj([id |-> Num(2)])>>),
            Arr(<<Obj([rle_value |-> Num(1), rle_count |-> Num(2)]), Num(1)>>),
            Obj([id |-> Str(0, "title"), items |-> Arr(<<Arr(<<Num(100), Num(101), Num(102)>>)>>)])}

MCInitialStrategy ==
  {[skeleton |-> s, content |-> NoStrategy] :
     s \in {Strategy("Delta", <<>>, [p \in {<<"items">>} |-> 90]),
            Strategy("Delta", <<>>, [p \in {<<"items">>} |-> 2048]),
            Strategy("RunLength", <<>>, <<>>),
            Strategy("Hybrid", <<[lead |-> 0, rest |-> "name"], [lead |-> 1, rest |-> "0"]>>,
                                 <<>>),
            NoStrategy}}

=============================================================================
