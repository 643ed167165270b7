------------------------------- MODULE Streams -------------------------------
(***************************************************************************)
(* The streams and the messages.  Values are written one after another     *)
(* into a buffer that may be too short, what is in it arrives whole or cut *)
(* off, and is read as values of the same types.  A number is the sequence *)
(* of its bytes, since it is copied as it lies in memory, lowest first.    *)
(* A value has a type; a type knows how it is written and read.            *)
(***************************************************************************)
EXTENDS Integers, Sequences, SequencesExt

CONSTANTS
  BufSizes,   (* sizes of the buffer                                         *)
  Items,      (* what is written: records of a type and a value of it        *)
  Messages,   (* the messages: records of an id, a type and a value          *)
  ClassSize,  (* sizeof of the classes of the library, by kind               *)
  MaxValues   (* bound: values in a stream                                   *)

Classes == {"string", "list", "set", "map", "vector"}

(* Nothing writes a vector, and so none is inside of another value.        *)
RECURSIVE NoVector(_)
NoVector(type) ==
  CASE type.kind \in {"number", "string"} -> TRUE
    [] type.kind \in {"list", "set"}      -> NoVector(type.of)
    [] type.kind = "map"                  -> NoVector(type.key) /\ NoVector(type.of)
    [] type.kind = "struct"               ->
         \A i \in DOMAIN type.fields : NoVector(type.fields[i])
    [] OTHER                              -> FALSE

ASSUME StreamsAssumption ==
  /\ BufSizes \subseteq Nat /\ MaxValues \in Nat
  /\ ClassSize \in [Classes -> Nat]
  /\ \A item \in Items \cup Messages :
       NoVector(IF item.type.kind = "vector" THEN item.type.of ELSE item.type)

VARIABLES
  bufsize,   (* m_bufsize of the output                                      *)
  buf,       (* what has been written: m_wpos is its length                  *)
  written,   (* history: the items, and whether write returned true          *)
  input,     (* what the reader has got                                      *)
  reading,
  m_rpos,
  got        (* what the calls of read returned: ok, and the value           *)

output     == <<bufsize, buf, written>>
streamvars == <<output, input, reading, m_rpos, got>>

Number(width)    == [kind |-> "number", width |-> width]
StringType       == [kind |-> "string"]
ListOf(type)     == [kind |-> "list", of |-> type]
SetOf(type)      == [kind |-> "set", of |-> type]
MapOf(key, type) == [kind |-> "map", key |-> key, of |-> type]
VectorOf(type)   == [kind |-> "vector", of |-> type]
Struct(fields, size) == [kind |-> "struct", fields |-> fields, size |-> size]

Item == <<0>>
End  == <<1>>

SizeBytes  == 4
SizeType(n) == [i \in 1 .. SizeBytes |-> (n \div 256 ^ (i - 1)) % 256]
AsSize(bytes) == FoldRight(LAMBDA byte, n : byte + 256 * n, bytes, 0)

---------------------------------------------------------------------------
(* The calls of the raw write that write(value) makes.  Nothing writes a   *)
(* vector: this is the form its read expects of a peer.                    *)
RECURSIVE Parts(_, _)
Parts(type, value) ==
  LET Each(values, T) == FlattenSeq([i \in DOMAIN values |-> Parts(T, values[i])])
      Marked(values, T) ==
        FlattenSeq([i \in DOMAIN values |-> <<Item>> \o Parts(T, values[i])]) \o <<End>>
  IN
  CASE type.kind = "number" -> <<value>>
    [] type.kind = "string" -> <<SizeType(Len(value)), value>>
    [] type.kind = "list"   -> Marked(value, type.of)
    [] type.kind = "set"    -> Marked(SetToSeq(value), type.of)
    [] type.kind = "map"    ->
         LET keys == SetToSeq(DOMAIN value)
         IN  Marked([i \in DOMAIN keys |-> <<keys[i], value[keys[i]]>>],
                    Struct(<<type.key, type.of>>, 0))
    [] type.kind = "vector" -> <<SizeType(Len(value))>> \o Each(value, type.of)
    [] type.kind = "struct" ->
         FlattenSeq([i \in DOMAIN value |-> Parts(type.fields[i], value[i])])

(* ArrayOutputStream::write copies what fits; the first call that is short *)
(* is the last.                                                            *)
writeAll(bytes, type, value) ==
  LET all == bytes \o FlattenSeq(Parts(type, value))
  IN  IF Len(all) <= bufsize THEN [ok |-> TRUE, bytes |-> all]
      ELSE [ok |-> FALSE, bytes |-> SubSeq(all, 1, bufsize)]

Write(item) ==
  LET result == writeAll(buf, item.type, item.value)
  IN  /\ buf' = result.bytes
      /\ written' = Append(written, [type |-> item.type, value |-> item.value, ok |-> result.ok])

---------------------------------------------------------------------------
(* Reading: a result has the position reached, ok and a value.  A value is *)
(* read into an object, which holds something already or was just made.    *)
Fail(pos)       == [pos |-> pos, ok |-> FALSE, value |-> <<>>]
Done(pos, value) == [pos |-> pos, ok |-> TRUE, value |-> value]

size(pos) == Len(input) - pos

readNumber(pos, width) ==
  IF width > size(pos) THEN Fail(pos)
  ELSE Done(pos + width, SubSeq(input, pos + 1, pos + width))

(* sizeof.                                                                 *)
SizeOf(type) ==
  CASE type.kind = "number" -> type.width
    [] type.kind = "struct" -> type.size
    [] OTHER                -> ClassSize[type.kind]

RECURSIVE Made(_)
Made(type) ==
  CASE type.kind = "set"    -> {}
    [] type.kind = "struct" -> [i \in DOMAIN type.fields |-> Made(type.fields[i])]
    [] OTHER                -> <<>>

RECURSIVE readInto(_, _, _)
readAs(pos, type) == readInto(pos, type, Made(type))

(* The items up to an End marker, each an object of its own, behind those  *)
(* that are there.  A slip: the end of the stream will do.                 *)

RECURSIVE readItemsOpen(_, _, _)
readItemsOpen(pos, type, items) ==
  LET marker == readNumber(pos, 1)
      item   == readAs(pos + 1, type)
  IN  IF ~marker.ok \/ marker.value = End THEN Done(marker.pos, items)
      ELSE IF marker.value # Item \/ ~item.ok THEN Fail(marker.pos)
      ELSE readItemsOpen(item.pos, type, Append(items, item.value))

RECURSIVE readItems(_, _, _)
readItems(pos, type, items) ==
  LET marker == readNumber(pos, 1)
      item   == readAs(pos + 1, type)
  IN  IF ~marker.ok THEN Fail(pos)
      ELSE IF marker.value = End THEN Done(marker.pos, items)
      ELSE IF marker.value # Item \/ ~item.ok THEN Fail(marker.pos)
      ELSE readItems(item.pos, type, Append(items, item.value))

(* begin(itemsCount) and the Iterator: as many as there are, if they fit   *)
(* into what is left as they would into memory.  All are read into one     *)
(* m_value, and nothing clears it between them.                            *)
RECURSIVE Iterate(_, _, _, _)
Iterate(pos, type, left, items) ==
  IF left = 0 \/ size(pos) < SizeOf(type) THEN [pos |-> pos, value |-> items]
  ELSE LET m_value == IF items = <<>> THEN Made(type) ELSE Last(items)
           item    == readInto(pos, type, m_value)
       IN  IF item.ok THEN Iterate(item.pos, type, left - 1, Append(items, item.value))
           ELSE [pos |-> item.pos, value |-> items]

readCounted(pos, type) ==
  LET count == readNumber(pos, SizeBytes)
      n     == AsSize(count.value)
      items == IF size(count.pos) < n THEN [pos |-> count.pos, value |-> <<>>]
               ELSE Iterate(count.pos, type, n, <<>>)
  IN  IF count.ok /\ Len(items.value) = n THEN Done(items.pos, items.value)
      ELSE Fail(IF count.ok THEN items.pos ELSE pos)

RECURSIVE readFields(_, _, _, _)
readFields(pos, types, values, object) ==
  LET n == Len(values) + 1 IN
  IF n > Len(types) THEN Done(pos, values)
  ELSE LET field == readInto(pos, types[n], object[n])
       IN  IF field.ok THEN readFields(field.pos, types, Append(values, field.value), object)
           ELSE Fail(field.pos)

(* map.emplace and set.insert: the first of two equal keys stays.          *)
AsMap(pairs) ==
  [k \in {pairs[i][1] : i \in DOMAIN pairs} |->
     pairs[CHOOSE i \in DOMAIN pairs : pairs[i][1] = k /\ \A j \in 1 .. i - 1 : pairs[j][1] # k][2]]

(* Numbers, strings and vectors are replaced; to a list, a set or a map    *)
(* what is read is added.                                                  *)
readInto(pos, type, object) ==
  LET With(result, F(_)) == IF result.ok THEN [result EXCEPT !.value = F(@)] ELSE result
  IN
  CASE type.kind = "number" -> readNumber(pos, type.width)
    [] type.kind = "string" ->
         With(readCounted(pos, Number(1)), LAMBDA items : [i \in DOMAIN items |-> items[i][1]])
    [] type.kind = "vector" -> readCounted(pos, type.of)
    [] type.kind = "list"   -> readItems(pos, type.of, object)
    [] type.kind = "set"    ->
         With(readItems(pos, type.of, <<>>), LAMBDA items : object \cup ToSet(items))
    [] type.kind = "map"    ->
         With(readItems(pos, Struct(<<type.key, type.of>>, 0), <<>>),
              LAMBDA pairs : object @@ AsMap(pairs))
    [] type.kind = "struct" -> readFields(pos, type.fields, <<>>, object)

---------------------------------------------------------------------------
StreamsInit ==
  /\ bufsize \in BufSizes
  /\ buf = <<>> /\ written = <<>>
  /\ input = <<>> /\ reading = FALSE /\ m_rpos = 0 /\ got = <<>>

Writing == ~reading /\ \A i \in DOMAIN written : written[i].ok

WriteValue ==
  /\ Writing /\ Len(written) < MaxValues
  /\ \E item \in Items : Write(item)
  /\ UNCHANGED <<bufsize, input, reading, m_rpos, got>>

(* messages::create: a stream of its own, and no bytes if it is too short. *)
create ==
  /\ Writing /\ written = <<>>
  /\ \E msg \in Messages :
       LET fields == Struct(<<Number(SizeBytes), msg.type>>, 0)
           result == writeAll(<<>>, fields, <<msg.id, msg.value>>)
       IN  /\ buf' = IF result.ok THEN result.bytes ELSE <<>>
           /\ written' = <<[type |-> fields, value |-> <<msg.id, msg.value>>, ok |-> result.ok]>>
  /\ UNCHANGED <<bufsize, input, reading, m_rpos, got>>

flush ==
  /\ ~reading /\ written # <<>>
  /\ buf' = <<>> /\ written' = <<>>
  /\ UNCHANGED <<bufsize, input, reading, m_rpos, got>>

(* A reader gets the first n bytes.                                        *)
Deliver ==
  /\ ~reading /\ written # <<>>
  /\ \E n \in 0 .. Len(buf) : input' = SubSeq(buf, 1, n)
  /\ reading' = TRUE
  /\ UNCHANGED <<output, m_rpos, got>>

(* The values in the order in which they were written, each into a new     *)
(* object, up to the first that fails.                                     *)
ReadValue ==
  /\ reading /\ Len(got) < Len(written) /\ \A i \in DOMAIN got : got[i].ok
  /\ LET result == readAs(m_rpos, written[Len(got) + 1].type)
     IN  /\ m_rpos' = result.pos
         /\ got' = Append(got, [ok |-> result.ok, value |-> result.value])
  /\ UNCHANGED <<output, input, reading>>

(* reset(offset), to the beginning.                                        *)
Rewind ==
  /\ reading /\ got # <<>>
  /\ m_rpos' = 0 /\ got' = <<>>
  /\ UNCHANGED <<output, input, reading>>

StreamsNext == WriteValue \/ create \/ flush \/ Deliver \/ ReadValue \/ Rewind

---------------------------------------------------------------------------
(* The place where a value that was written ends.                          *)
EndOf(i) ==
  Len(FlattenSeq([k \in 1 .. i |-> FlattenSeq(Parts(written[k].type, written[k].value))]))

(* The last item of a vector takes fewer bytes than sizeof, and nothing    *)
(* follows it that would make up for them.                                 *)
Starved(i) ==
  /\ written[i].type.kind = "vector" /\ written[i].value # <<>>
  /\ LET type == written[i].type.of
         last == Len(FlattenSeq(Parts(type, written[i].value[Len(written[i].value)])))
     IN  Len(input) - EndOf(i) + last < SizeOf(type)

(* What an object holds once values have been read into it, one after      *)
(* another.                                                                *)
RECURSIVE Together(_, _)
Together(type, values) ==
  CASE type.kind = "list"   -> FlattenSeq(values)
    [] type.kind = "set"    -> UNION ToSet(values)
    [] type.kind = "map"    -> FoldLeft(LAMBDA map, value : map @@ value, <<>>, values)
    [] type.kind = "struct" ->
         [f \in DOMAIN type.fields |->
            Together(type.fields[f], [j \in DOMAIN values |-> values[j][f]])]
    [] OTHER                -> Last(values)

(* What a reader finds in place of a value: the value, but an item of a    *)
(* vector has those before it in it, if it is one that is added to.        *)
ReadBack(type, value) ==
  IF type.kind # "vector" THEN value
  ELSE [i \in DOMAIN value |-> Together(type.of, SubSeq(value, 1, i))]

(* What read returns is what was written, containers in containers         *)
(* included, for every value that arrived whole; one that the buffer had   *)
(* no room for, or that was cut off at any byte, is refused.  There are    *)
(* two exceptions, both of vectors: the containers in one pile up, and one *)
(* of short objects is refused at the end of the stream (InputStream.h     *)
(* 33-226, OutputStream.h 30-89, Messages.h 48-54).                        *)
RoundTrip ==
  /\ \A i \in DOMAIN written : written[i].ok <=> EndOf(i) <= bufsize
  /\ \A i \in DOMAIN got :
       /\ got[i].ok =>
            got[i].value = ReadBack(written[i].type, written[i].value) /\ EndOf(i) <= Len(input)
       /\ ~got[i].ok => EndOf(i) > Len(input) \/ Starved(i)
  /\ (got # <<>> /\ Last(got).ok) => m_rpos = EndOf(Len(got))
  /\ m_rpos <= Len(input)

=============================================================================
