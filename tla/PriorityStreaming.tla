------------------------- MODULE PriorityStreaming -------------------------
(***************************************************************************)
(* PriorityStreamer::analyze of crates/pjs-core/src/stream/priority.rs,    *)
(* which plans the frames of a document, and the JsonReconstructor of      *)
(* stream/reconstruction.rs, which rebuilds the document from them while   *)
(* they arrive.  Frames carry no sequence number: the order in which the   *)
(* plan sorts its patches is all that makes the result right.              *)
(*                                                                         *)
(* A JSON value is a record with one shape for every kind.  Scalars are    *)
(* numbered; elements of arrays are opaque, since neither side looks into  *)
(* them.  Keys stand for the classes of names that the code tells apart.   *)
(***************************************************************************)
EXTENDS Integers, Sequences, FiniteSets, SequencesExt

CONSTANTS
  Document,        \* the documents that are streamed
  KeyOrder,        \* keys, in the order in which a map is traversed
  max_patch_size,  \* StreamerConfig
  ChunkedAbove,    \* length above which an array is sent in chunks: 10
  LargeAbove,      \* length above which its chunks are Background: 50
  HugeAbove        \* length above which its field is Background: 100

ASSUME StreamerAssumption == max_patch_size \in Nat \ {0}

-----------------------------------------------------------------------------
(* JSON values. *)

Json(kind, scalar, items, fields) ==
  [kind |-> kind, scalar |-> scalar, items |-> items, fields |-> fields]

Null == Json("null", 0, <<>>, <<>>)
Scalar(kind, n) == Json(kind, n, <<>>, <<>>)
Array(items) == Json("array", 0, items, <<>>)
Object(fields) == Json("object", 0, <<>>, fields)

IsObject(json) == json.kind = "object"
IsArray(json) == json.kind = "array"

Keys(json) == SelectSeq(KeyOrder, LAMBDA key : key \in DOMAIN json.fields)

(* JsonPath cannot encode a key with `.`, `[` or `]`. *)
Encodable(key) == key # "a.b"

BACKGROUND == 10
LOW == 25
MEDIUM == 50
HIGH == 80
CRITICAL == 100

-----------------------------------------------------------------------------
(* The streamer. *)

RECURSIVE generate_skeleton(_)
generate_skeleton(json) ==
  CASE IsObject(json) ->
         Object([key \in DOMAIN json.fields |->
                   LET value == json.fields[key] IN
                   CASE value.kind \in {"array", "object"} -> generate_skeleton(value)
                     [] value.kind \in {"number", "bool"}  -> Scalar(value.kind, 0)
                     [] value.kind \in {"string", "null"}  -> Null])
    [] IsArray(json) -> Array(<<>>)
    [] OTHER -> Null

(* An array that a patch will fill is sent empty; one under a key without  *)
(* a path, which no patch reaches, is sent whole.                          *)
RECURSIVE skeletonize_arrays(_)
skeletonize_arrays(json) ==
  CASE IsObject(json) ->
         Object([key \in DOMAIN json.fields |->
                   IF Encodable(key) THEN skeletonize_arrays(json.fields[key])
                   ELSE json.fields[key]])
    [] IsArray(json) -> Array(<<>>)
    [] OTHER -> json

(* A string of more than 1000 bytes. *)
IsLongString(json) == json.kind = "string" /\ json.scalar = 2

calculate_field_priority(key, value) ==
  CASE key = "id"      -> CRITICAL
    [] key = "name"    -> HIGH
    [] key = "stats"   -> LOW
    [] key \in {"reviews", "history"} -> BACKGROUND
    [] OTHER -> CASE IsArray(value) /\ Len(value.items) > HugeAbove -> BACKGROUND
                  [] IsLongString(value) -> LOW
                  [] OTHER -> MEDIUM

calculate_array_priority(path, items) ==
  IF Len(items) > LargeAbove \/ (path # <<>> /\ Last(path) = "reviews")
  THEN BACKGROUND ELSE MEDIUM

SetPatch(path, value, priority) ==
  [op |-> "set", path |-> path, value |-> value, priority |-> priority]

AppendPatch(path, items, priority) ==
  [op |-> "append", path |-> path, value |-> Array(items), priority |-> priority]

(* slice::chunks. *)
Chunks(items, size) ==
  [k \in 1..((Len(items) + size - 1) \div size) |->
     SubSeq(items, (k - 1) * size + 1,
            IF k * size < Len(items) THEN k * size ELSE Len(items))]

AppendPatches_PerChunk(path, items) ==  \* mutant: each chunk ranks for itself
  LET parts == Chunks(items, max_patch_size)
  IN  [k \in DOMAIN parts |->
         AppendPatch(path, parts[k], calculate_array_priority(path, parts[k]))]

(* The chunks of an array share the priority of the whole array. *)
AppendPatches(path, items) ==
  LET parts == IF Len(items) > ChunkedAbove THEN Chunks(items, max_patch_size)
               ELSE IF items # <<>> THEN <<items>> ELSE <<>>
  IN  [k \in DOMAIN parts |->
         AppendPatch(path, parts[k], calculate_array_priority(path, items))]

Hoisted_Own(own, patches) == own  \* mutant: a Set keeps its own priority

(* A Set ranks at least as high as every Append below it, which it would   *)
(* otherwise undo.                                                         *)
Hoisted(own, patches) ==
  LET appends == {patches[i].priority : i \in {j \in DOMAIN patches : patches[j].op = "append"}}
      above == {own} \union appends
  IN  CHOOSE p \in above : \A q \in above : p >= q

(* The patches of a value, each Set before those of its children. *)
RECURSIVE extract_patches(_, _)
extract_patches(json, path) ==
  CASE IsObject(json) ->
         LET OfField(key) ==
               LET value == json.fields[key]
                   below == extract_patches(value, Append(path, key))
               IN  <<SetPatch(Append(path, key), skeletonize_arrays(value),
                              Hoisted(calculate_field_priority(key, value), below))>> \o below
             keys == SelectSeq(Keys(json), Encodable)
         IN  FlattenSeq([i \in DOMAIN keys |-> OfField(keys[i])])
    [] IsArray(json) -> AppendPatches(path, json.items)
    [] OTHER -> <<>>

(* sort_by_key is stable. *)
SortPatches(patches) ==
  LET Rank(i) == Cardinality({j \in DOMAIN patches :
                    \/ patches[j].priority > patches[i].priority
                    \/ patches[j].priority = patches[i].priority /\ j <= i})
      rank == [i \in DOMAIN patches |-> Rank(i)]
  IN  [r \in DOMAIN patches |-> patches[CHOOSE i \in DOMAIN patches : rank[i] = r]]

SkeletonFrame(data) == [type |-> "skeleton", data |-> data, patches |-> <<>>]
PatchFrame(patches) == [type |-> "patch", data |-> Null, patches |-> patches]
CompleteFrame == [type |-> "complete", data |-> Null, patches |-> <<>>]

(* A batch ends where the priority changes, and when it is full. *)
Batch(acc, patch) ==
  LET cut == acc.batch # <<>> /\ acc.batch[1].priority # patch.priority
      done == IF cut THEN Append(acc.frames, PatchFrame(acc.batch)) ELSE acc.frames
      batch == Append(IF cut THEN <<>> ELSE acc.batch, patch)
  IN  IF Len(batch) >= max_patch_size
      THEN [frames |-> Append(done, PatchFrame(batch)), batch |-> <<>>]
      ELSE [frames |-> done, batch |-> batch]

PatchBatches(patches) ==
  LET acc == FoldLeft(Batch, [frames |-> <<>>, batch |-> <<>>], patches)
  IN  IF acc.batch = <<>> THEN acc.frames ELSE Append(acc.frames, PatchFrame(acc.batch))

analyze(json) ==
  <<SkeletonFrame(generate_skeleton(json))>>
    \o PatchBatches(SortPatches(extract_patches(json, <<>>)))
    \o <<CompleteFrame>>

-----------------------------------------------------------------------------
(* The reconstructor. *)

(* get_parent_mut and get_mut_at_path find the path or report an error. *)
RECURSIVE HasPath(_, _)
HasPath(json, path) ==
  \/ path = <<>>
  \/ /\ IsObject(json)
     /\ Head(path) \in DOMAIN json.fields
     /\ HasPath(json.fields[Head(path)], Tail(path))

RECURSIVE At(_, _)
At(json, path) ==
  IF path = <<>> THEN json ELSE At(json.fields[Head(path)], Tail(path))

CanSet(json, path) ==
  path # <<>> => LET parent == Front(path)
                 IN  HasPath(json, parent) /\ IsObject(At(json, parent))

RECURSIVE set_at_path(_, _, _)
set_at_path(json, path, value) ==
  IF path = <<>> THEN value
  ELSE LET key == Head(path)
           below == IF Len(path) = 1 THEN value
                    ELSE set_at_path(json.fields[key], Tail(path), value)
       IN  Object([k \in DOMAIN json.fields \union {key} |->
                     IF k = key THEN below ELSE json.fields[k]])

CanAppend(json, path) == HasPath(json, path) /\ IsArray(At(json, path))

append_at_path(json, path, items) ==
  set_at_path(json, path, Array(At(json, path).items \o items))

(* Set and Append are the operations a plan contains. *)
CanApply(json, patch) ==
  IF patch.op = "set" THEN CanSet(json, patch.path) ELSE CanAppend(json, patch.path)

apply_patch(json, patch) ==
  IF patch.op = "set" THEN set_at_path(json, patch.path, patch.value)
  ELSE append_at_path(json, patch.path, patch.value.items)

NewReconstructor ==
  [current_state |-> Null, frame_queue |-> <<>>, is_complete |-> FALSE, failed |-> FALSE,
   patches_applied |-> 0]

(* One patch, unless an earlier one of the frame failed and ended the call. *)
ApplyOrFail(r, patch) ==
  IF r.failed THEN r
  ELSE IF CanApply(r.current_state, patch)
       THEN [r EXCEPT !.current_state = apply_patch(@, patch), !.patches_applied = @ + 1]
       ELSE [r EXCEPT !.failed = TRUE]

process_frame(r, frame) ==
  CASE frame.type = "skeleton" -> [r EXCEPT !.current_state = frame.data]
    [] frame.type = "patch"    -> FoldLeft(ApplyOrFail, r, frame.patches)
    [] frame.type = "complete" -> [r EXCEPT !.is_complete = TRUE]

Dequeue(r) == process_frame([r EXCEPT !.frame_queue = Tail(@)], Head(r.frame_queue))

-----------------------------------------------------------------------------

VARIABLES
  json,            \* the document being streamed
  plan,            \* StreamingPlan: the frames not yet sent
  client           \* the JsonReconstructor

streamVars == <<json, plan, client>>

StreamInit ==
  /\ json = Null
  /\ plan = <<>>
  /\ client = NewReconstructor

Idle == plan = <<>> /\ client = NewReconstructor

Analyze ==
  /\ Idle
  /\ \E doc \in Document : json' = doc /\ plan' = analyze(doc)
  /\ UNCHANGED client

(* StreamingPlan::next_frame, and add_frame at the client. *)
DeliverFrame ==
  /\ plan # <<>>
  /\ plan' = Tail(plan)
  /\ client' = [client EXCEPT !.frame_queue = Append(@, Head(plan))]
  /\ UNCHANGED json

(* A call of process_next_frame. *)
ProcessNextFrame ==
  /\ client.frame_queue # <<>> /\ ~client.failed
  /\ client' = Dequeue(client)
  /\ UNCHANGED <<json, plan>>

(* process_all_frames drains the queue and stops at the first error. *)
RECURSIVE Drain(_)
Drain(r) == IF r.frame_queue = <<>> \/ r.failed THEN r ELSE Drain(Dequeue(r))

ProcessAllFrames ==
  /\ Len(client.frame_queue) > 1 /\ ~client.failed
  /\ client' = Drain(client)
  /\ UNCHANGED <<json, plan>>

(* reset, before the next document. *)
Reset ==
  /\ client.is_complete /\ plan = <<>>
  /\ client' = NewReconstructor
  /\ json' = Null
  /\ UNCHANGED plan

StreamNext ==
  \/ Analyze
  \/ DeliverFrame
  \/ ProcessNextFrame
  \/ ProcessAllFrames
  \/ Reset

-----------------------------------------------------------------------------

(* What a plan can carry of a document: a field of the root whose key has  *)
(* no path stays a placeholder, and so does a root that is a scalar.       *)
Streamable(doc) ==
  CASE IsObject(doc) -> Object([key \in DOMAIN doc.fields |->
                                  IF Encodable(key) THEN doc.fields[key]
                                  ELSE generate_skeleton(doc).fields[key]])
    [] IsArray(doc)  -> doc
    [] OTHER         -> Null

(***************************************************************************)
(* Whatever the client queues or processes when, no patch of a plan fails, *)
(* and when the Complete frame has been processed the document is there,   *)
(* array elements in order: Sets, Appends and chunks are sorted by         *)
(* priority only, across nesting levels.                                   *)
(***************************************************************************)
ReconstructsDocument ==
  /\ ~client.failed
  /\ client.is_complete => client.current_state = Streamable(json)

(* The paths of the leaves that patches reach. *)
RECURSIVE LeafPaths(_)
LeafPaths(doc) ==
  IF IsObject(doc)
  THEN UNION {{<<key>> \o p : p \in LeafPaths(doc.fields[key])} :
                key \in {k \in DOMAIN doc.fields : Encodable(k)}}
  ELSE {<<>>}

(* How much of the leaf at path the client has seen. *)
Learned(r, path) ==
  IF ~HasPath(r.current_state, path) THEN 0
  ELSE LET leaf == At(r.current_state, path)
       IN  IF IsArray(leaf) THEN Len(leaf.items)
           ELSE IF leaf = At(json, path) THEN 1 ELSE 0

(***************************************************************************)
(* A client may render after every frame: what it has shown of a field is  *)
(* never taken back by a later frame, until it is reset.                   *)
(***************************************************************************)
NothingUnlearned ==
  [][json' = json =>
       \A path \in LeafPaths(json) : Learned(client', path) >= Learned(client, path)]_streamVars

=============================================================================
