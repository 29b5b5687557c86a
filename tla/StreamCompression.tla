-------------------------- MODULE StreamCompression --------------------------
(***************************************************************************)
(* The schema compression of crates/pjs-core/src/compression/mod.rs and    *)
(* stream/compression_integration.rs: a StreamingCompressor that may be    *)
(* optimised for other data between two frames, and a                      *)
(* StreamingDecompressor.  The decompressor's dictionary and bases are     *)
(* never read: a frame is decoded by what travels with it.                 *)
(*                                                                         *)
(* A JSON value has one shape for every kind.  A string is the number of   *)
(* sentinels it starts with and the rest; a number its value, and whether  *)
(* it is an f64, whose precision and range are parameters.  Unless keys    *)
(* contain dots, every path of a document is different, no path collects   *)
(* the values delta analysis asks for, and analysis never selects Delta or *)
(* Hybrid; with_strategies does.                                           *)
(***************************************************************************)
EXTENDS Integers, Sequences, FiniteSets, FiniteSetsExt, SequencesExt

CONSTANTS
  Data,                     \* frame contents
  Sample,                   \* data a compressor is optimised for
  InitialStrategy,          \* pairs given to with_strategies
  Size,                     \* body of a string -> its length
  Numeral,                  \* decimal numerals of 0, 1, 2...
  min_string_length, min_frequency_count, min_net_savings,   \* CompressionConfig
  run_length_threshold, min_numeric_sequence_size,
  MaxIndex,                 \* u16::MAX
  MAX_RLE_COUNT, MAX_DELTA_ARRAY_SIZE, MAX_DECOMPRESSED_SIZE,
  MaxExact,                 \* integers up to it are exact as f64: 2^53
  MaxFloat                  \* f64::MAX; what is larger stands for infinity

(* With a higher min_frequency_count a run of two loses an element. *)
ASSUME CompressionAssumption ==
  /\ MaxIndex \in Nat /\ Len(Numeral) > MaxIndex
  /\ min_frequency_count = 1
  /\ MaxExact \in Nat \ {0} /\ MaxFloat >= MaxExact

VARIABLES
  strategy,    \* [skeleton, content]: of the two compressors
  wire,        \* the frame sent last, or NoFrame
  received     \* what decompress_frame returned for it, or NoFrame

compressionVars == <<strategy, wire, received>>

-----------------------------------------------------------------------------
(* JSON values. *)

Value(kind, string, number, items, fields) ==
  [kind |-> kind, string |-> string, number |-> number, items |-> items, fields |-> fields]

NoString == [lead |-> 0, rest |-> ""]
NoNumber == [value |-> 0, float |-> FALSE]

StringValue(lead, rest) == Value("string", [lead |-> lead, rest |-> rest], NoNumber, <<>>, <<>>)
NumberValue(n, float) == Value("number", NoString, [value |-> n, float |-> float], <<>>, <<>>)
ArrayValue(items) == Value("array", NoString, NoNumber, items, <<>>)
ObjectValue(fields) == Value("object", NoString, NoNumber, <<>>, fields)
NullValue == Value("null", NoString, NoNumber, <<>>, <<>>)
Error == Value("error", NoString, NoNumber, <<>>, <<>>)

Has(v, keys) == v.kind = "object" /\ keys \subseteq DOMAIN v.fields

(* The values an array or an object holds, and v with their images. *)
Children(v) == ToSet(v.items) \union {v.fields[key] : key \in DOMAIN v.fields}

MapChildren(v, image) ==
  [v EXCEPT !.items = [i \in DOMAIN @ |-> image[@[i]]],
            !.fields = [key \in DOMAIN @ |-> image[@[key]]]]

RECURSIVE Parts(_)
Parts(v) ==
  LET keys == SetToSeq(DOMAIN v.fields)
  IN  <<v>> \o FlattenSeq([i \in DOMAIN v.items |-> Parts(v.items[i])])
            \o FlattenSeq([k \in DOMAIN keys |-> Parts(v.fields[keys[k]])])

-----------------------------------------------------------------------------
(* Analysis. *)

Length(string) == string.lead + Size[string.rest]

(* string_repetitions, with the parts of a document in any order. *)
Repetitions(parts, string) ==
  Cardinality({i \in DOMAIN parts : parts[i].kind = "string" /\ parts[i].string = string})

(* Strings that occur more often get smaller indices; a tie is broken by   *)
(* the strings themselves, for which any fixed order stands.               *)
Candidates(parts) ==
  LET strings == {parts[i].string : i \in {j \in DOMAIN parts : parts[j].kind = "string"}}
      kept == {s \in strings : /\ Repetitions(parts, s) > min_frequency_count
                               /\ Length(s) > min_string_length}
  IN  SortSeq(SetToSeq(kept), LAMBDA s, t :
                Repetitions(parts, s) * Length(s) > Repetitions(parts, t) * Length(t))

(* The entries that pay off, in the order of their indices, and the bytes  *)
(* they save.                                                              *)
build_dictionary(parts) ==
  LET Add(acc, s) ==
        LET index == Len(acc.entries)
            gain == Repetitions(parts, s) * (Length(s) - (1 + Size[Numeral[index + 1]]))
            cost == Length(s) + 3
        IN  IF index < MaxIndex /\ gain > cost
            THEN [entries |-> Append(acc.entries, s), net |-> acc.net + gain - cost]
            ELSE acc
      all == FoldLeft(Add, [entries |-> <<>>, net |-> 0], Candidates(parts))
  IN  IF all.entries = <<>> THEN all ELSE [all EXCEPT !.net = @ - 10]

(* frequency * (count - 1) / count of each pattern of an array: how often  *)
(* a primitive value is repeated, and the first object's set of keys.      *)
ArrayScore(v) ==
  LET items == v.items
      primitives == {items[i] : i \in {j \in DOMAIN items : items[j].kind \in {"string", "number"}}}
      Repeats(test) == Max({0, Cardinality(test) - 1})
  IN  IF v.kind # "array" \/ Len(items) <= 2 THEN 0
      ELSE MapThenSumSet(LAMBDA p : Repeats({i \in DOMAIN items : items[i] = p}), primitives)
           + IF items[1].kind # "object" THEN 0
             ELSE Repeats({i \in DOMAIN items : /\ items[i].kind = "object"
                                                /\ DOMAIN items[i].fields = DOMAIN items[1].fields})

Strategy(kind, entries, bases) ==
  [kind |-> kind, dictionary |-> entries, bases |-> bases]

NoStrategy == Strategy("None", <<>>, <<>>)

analyze_and_optimize(data) ==
  LET parts == Parts(data)
      built == build_dictionary(parts)
  IN  IF built.entries # <<>> /\ built.net >= min_net_savings
      THEN Strategy("Dictionary", built.entries, <<>>)
      ELSE IF MapThenSumSet(LAMBDA i : ArrayScore(parts[i]), DOMAIN parts) >= run_length_threshold
      THEN Strategy("RunLength", <<>>, <<>>)
      ELSE NoStrategy

-----------------------------------------------------------------------------
(* The compressor. *)

Marker(s, dictionary) ==
  StringValue(1, Numeral[CHOOSE i \in DOMAIN dictionary : dictionary[i] = s])

SubstituteString_NoEscape(s, dictionary) ==  \* mutant: a leading sentinel is not escaped
  IF s \in ToSet(dictionary) THEN Marker(s, dictionary) ELSE StringValue(s.lead, s.rest)

(* A string with a leading sentinel is escaped by one more. *)
SubstituteString(s, dictionary) ==
  IF s \in ToSet(dictionary) THEN Marker(s, dictionary)
  ELSE StringValue(IF s.lead > 0 THEN s.lead + 1 ELSE 0, s.rest)

RECURSIVE substitute_dictionary_strings(_, _)
substitute_dictionary_strings(v, dictionary) ==
  IF v.kind = "string" THEN SubstituteString(v.string, dictionary)
  ELSE MapChildren(v, [x \in Children(v) |-> substitute_dictionary_strings(x, dictionary)])

(* Maximal runs of equal elements. *)
Runs(items) ==
  FoldLeft(LAMBDA runs, x :
             IF runs # <<>> /\ Last(runs).value = x
             THEN [runs EXCEPT ![Len(runs)].count = @ + 1]
             ELSE Append(runs, [value |-> x, count |-> 1]),
           <<>>, items)

(* A long array is encoded without looking into its elements. *)
RECURSIVE apply_run_length_encoding(_)
apply_run_length_encoding(v) ==
  LET runs == Runs(v.items)
      Encode(run) == IF run.count > min_frequency_count
                     THEN ObjectValue([rle_value |-> run.value, rle_count |-> NumberValue(run.count, FALSE)])
                     ELSE run.value
  IN  IF v.kind = "array" /\ Len(v.items) > 2
      THEN ArrayValue([k \in DOMAIN runs |-> Encode(runs[k])])
      ELSE MapChildren(v, [x \in Children(v) |-> apply_run_length_encoding(x)])

-----------------------------------------------------------------------------
(* Floating point. *)

Abs(n) == IF n < 0 THEN -n ELSE n

Finite(x) == Abs(x) <= MaxFloat

(* The distance between floats of the size of n. *)
RECURSIVE Spacing(_)
Spacing(n) == IF Abs(n) <= MaxExact THEN 1 ELSE 2 * Spacing((Abs(n) + 1) \div 2)

(* as_f64, and the result of an f64 operation whose exact value is n: the  *)
(* nearest float, the even one of two that are equally near.               *)
F64(n) ==
  LET below == n \div Spacing(n)
      rest == 2 * (n % Spacing(n))
      up == rest > Spacing(n) \/ (rest = Spacing(n) /\ below % 2 = 1)
  IN  Spacing(n) * IF up THEN below + 1 ELSE below

(* JsonValue::from: there is no number for infinity. *)
FromF64(x) == IF Finite(x) THEN NumberValue(x, TRUE) ELSE NullValue

(* The length of a float as it is printed. *)
RECURSIVE Printed(_)
Printed(x) ==
  CASE x < 0           -> 1 + Printed(-x)
    [] ~Finite(x)      -> 3
    [] x < 10          -> 1
    [] OTHER           -> 1 + Printed(x \div 10)

TotalPrinted(numbers) == MapThenSumSet(LAMBDA i : Printed(numbers[i]), DOMAIN numbers)

(* Differences from one base, when they are shorter to print. *)
compress_numeric_array_with_delta(v, path, bases) ==
  LET numbers == [i \in DOMAIN v.items |-> F64(v.items[i].number.value)]
      base == IF path \in DOMAIN bases THEN bases[path] ELSE numbers[1]
      deltas == [i \in DOMAIN numbers |-> F64(numbers[i] - base)]
      header == ObjectValue([delta_base |-> NumberValue(base, TRUE), delta_type |-> StringValue(0, "x")])
  IN  IF TotalPrinted(deltas) < TotalPrinted(numbers)
      THEN ArrayValue(<<header>> \o [i \in DOMAIN deltas |-> FromF64(deltas[i])])
      ELSE v

RECURSIVE apply_delta(_, _, _)
apply_delta(v, path, bases) ==
  IF /\ v.kind = "array" /\ Len(v.items) > 2
     /\ Len(v.items) >= min_numeric_sequence_size
     /\ \A i \in DOMAIN v.items : v.items[i].kind = "number"
  THEN compress_numeric_array_with_delta(v, path, bases)
  ELSE [v EXCEPT
          !.items = [i \in DOMAIN @ |-> apply_delta(@[i], Append(path, Numeral[i]), bases)],
          !.fields = [key \in DOMAIN @ |-> apply_delta(@[key], Append(path, key), bases)]]

(* A base that is not finite has no JSON number for the metadata. *)
compress(v, s) ==
  CASE \E path \in DOMAIN s.bases : ~Finite(s.bases[path]) -> Error
    [] s.kind = "None"       -> v
    [] s.kind = "Dictionary" -> substitute_dictionary_strings(v, s.dictionary)
    [] s.kind = "Delta"      -> apply_delta(v, <<>>, s.bases)
    [] s.kind = "RunLength"  -> apply_run_length_encoding(v)
    [] s.kind = "Hybrid"     ->
         apply_delta(substitute_dictionary_strings(v, s.dictionary), <<>>, s.bases)

-----------------------------------------------------------------------------
(* The decompressor.  An Error anywhere is the error of the whole call. *)

decode_dictionary_string(s, dictionary) ==
  LET found == {dictionary[i] : i \in {j \in DOMAIN dictionary : Numeral[j] = s.rest}}
  IN  CASE s.lead = 0  -> StringValue(0, s.rest)
        [] s.lead > 1  -> StringValue(s.lead - 1, s.rest)
        [] found = {}  -> Error
        [] OTHER       -> LET string == CHOOSE f \in found : TRUE
                          IN  StringValue(string.lead, string.rest)

RECURSIVE decompress_dictionary(_, _)
decompress_dictionary(v, dictionary) ==
  IF v.kind = "string" THEN decode_dictionary_string(v.string, dictionary)
  ELSE MapChildren(v, [x \in Children(v) |-> decompress_dictionary(x, dictionary)])

decompress_delta_array(items) ==
  LET base == items[1].fields["delta_base"]
  IN  IF \/ Len(items) > MAX_DELTA_ARRAY_SIZE
         \/ base.kind # "number"
         \/ \E i \in 2..Len(items) : items[i].kind # "number"
      THEN Error
      ELSE ArrayValue([i \in 1..(Len(items) - 1) |->
                    FromF64(F64(F64(base.number.value) + F64(items[i + 1].number.value)))])

RECURSIVE decompress_delta(_)
decompress_delta(v) ==
  IF v.kind = "array" /\ v.items # <<>> /\ Has(v.items[1], {"delta_base", "delta_type"})
  THEN decompress_delta_array(v.items)
  ELSE MapChildren(v, [x \in Children(v) |-> decompress_delta(x)])

IsRun(v) == Has(v, {"rle_value", "rle_count"})

(* The elements an element of an encoded array stands for. *)
RECURSIVE decompress_run_length(_)
decompress_run_length(v) ==
  LET Count(x) == x.fields["rle_count"].number.value
      Expand(x) ==
        IF IsRun(x)
        THEN IF x.fields["rle_count"].kind # "number" \/ Count(x) > MAX_RLE_COUNT
             THEN <<Error>>
             ELSE [k \in 1..Count(x) |-> x.fields["rle_value"]]
        ELSE IF Has(x, {"rle_value"}) \/ Has(x, {"rle_count"}) THEN <<Error>>
        ELSE <<decompress_run_length(x)>>
      expanded == [i \in DOMAIN v.items |-> Expand(v.items[i])]
      inRuns == MapThenSumSet(LAMBDA i : Len(expanded[i]), {i \in DOMAIN v.items : IsRun(v.items[i])})
  IN  IF v.kind # "array" THEN MapChildren(v, [x \in Children(v) |-> decompress_run_length(x)])
      ELSE IF inRuns > MAX_DECOMPRESSED_SIZE THEN Error
      ELSE ArrayValue(FlattenSeq(expanded))

decompress_data(data, s) ==
  CASE s.kind = "None"       -> data
    [] s.kind = "Dictionary" -> decompress_dictionary(data, s.dictionary)
    [] s.kind = "Delta"      -> decompress_delta(data)
    [] s.kind = "RunLength"  -> decompress_run_length(data)
    [] s.kind = "Hybrid"     -> decompress_dictionary(decompress_delta(data), s.dictionary)

-----------------------------------------------------------------------------

NoFrame == [original |-> Error, data |-> Error, strategy |-> NoStrategy]

CompressionInit ==
  /\ strategy \in InitialStrategy
  /\ wire = NoFrame /\ received = NoFrame

(* Without samples the content compressor keeps its strategy.  A behaviour *)
(* ends with the receipt of its frame.                                     *)
optimize_for_data(skeleton, samples) ==
  /\ received = NoFrame
  /\ strategy' = [skeleton |-> analyze_and_optimize(skeleton),
                  content  |-> IF samples = <<>> THEN strategy.content
                               ELSE analyze_and_optimize(ArrayValue(samples))]
  /\ UNCHANGED <<wire, received>>

(* Critical and high-priority frames have a compressor of their own.  A    *)
(* compressor keeps nothing of a frame but its statistics, so that one     *)
(* frame stands for all of them.  A compressor that fails sends nothing.   *)
compress_frame(data, class) ==
  /\ wire = NoFrame
  /\ compress(data, strategy[class]) # Error
  /\ wire' = [original |-> data, data |-> compress(data, strategy[class]),
              strategy |-> strategy[class]]
  /\ UNCHANGED <<strategy, received>>

decompress_frame ==
  /\ wire # NoFrame /\ received = NoFrame
  /\ received' = [wire EXCEPT !.data = decompress_data(wire.data, wire.strategy)]
  /\ UNCHANGED <<strategy, wire>>

CompressionNext ==
  \/ \E skeleton \in Sample, samples \in {<<>>} \union {<<s, s>> : s \in Sample} :
       optimize_for_data(skeleton, samples)
  \/ \E data \in Data, class \in {"skeleton", "content"} : compress_frame(data, class)
  \/ decompress_frame

-----------------------------------------------------------------------------

Reserved == {"rle_value", "rle_count", "delta_base", "delta_type"}

(* Data that avoids the encodings' own keys and the decompressor's limits. *)
Representable(data) ==
  \A v \in ToSet(Parts(data)) :
    /\ DOMAIN v.fields \intersect Reserved = {}
    /\ Len(v.items) <= Min({MAX_RLE_COUNT, MAX_DECOMPRESSED_SIZE, MAX_DELTA_ARRAY_SIZE - 1})

(* Numbers whose differences, from each other and from the bases, are      *)
(* exact.  Only the strategies with deltas need this: they alone turn a    *)
(* number into an f64.                                                     *)
DeltaExact(data, s) ==
  LET bases == {s.bases[path] : path \in DOMAIN s.bases}
      numbers == {v.number.value : v \in ToSet(Parts(data))}
  IN  s.kind \in {"Delta", "Hybrid"} =>
        \A n \in numbers, m \in numbers \union bases :
          Abs(n) <= MaxExact /\ Abs(n - m) <= MaxExact

(* The same value, an integer having perhaps become a float. *)
RECURSIVE Same(_, _)
Same(v, w) ==
  /\ v.kind = w.kind /\ v.string = w.string /\ v.number.value = w.number.value
  /\ DOMAIN v.items = DOMAIN w.items /\ \A i \in DOMAIN v.items : Same(v.items[i], w.items[i])
  /\ DOMAIN v.fields = DOMAIN w.fields
  /\ \A key \in DOMAIN v.fields : Same(v.fields[key], w.fields[key])

(***************************************************************************)
(* Whatever data the compressors were optimised for, and although the      *)
(* strategy may have changed while the frame was on its way,               *)
(* decompress_frame returns the value given to compress_frame, also when   *)
(* its strings look like dictionary markers.  Where deltas are taken this  *)
(* is said of numbers within the precision of f64 only: beyond it they     *)
(* come back rounded, or not at all when a difference overflows.           *)
(***************************************************************************)
CompressionRoundTrips ==
  received # NoFrame
    /\ Representable(received.original) /\ DeltaExact(received.original, received.strategy)
  => Same(received.data, received.original)

=============================================================================
