--------------------------------- MODULE Wire ----------------------------------
(* A protobuf export of traces on its way in (otlp_protobuf.py), and the flat  *)
(* spans that are made of it, as of a JSON export (otlp.py).  A message is a   *)
(* sequence of fields, each with a tag, number and wire type; Schema says what *)
(* the decoders know of them.  The reader takes Base values to a byte of a     *)
(* varint (128), MaxBytes of them at most (10), Fixed bytes to a fixed64 (8),  *)
(* and keeps numbers below Limit (2^64).                                       *)
EXTENDS Naturals, Integers, Sequences, SequencesExt

CONSTANTS Base, MaxBytes, Fixed, Limit, Payload, Unknown

VARIABLES sent, wire, got

vars == <<sent, wire, got>>

Bad == [bad |-> TRUE]
VARINT == 0
FIXED64 == 1
LEN == 2
FIXED32 == 5

F(no, name, wt, of, many) == [no |-> no, name |-> name, wt |-> wt, of |-> of, many |-> many]

Schema ==
  [request |-> <<F(1, "resourceSpans", LEN, "resource_spans", TRUE)>>,
   resource_spans |-> <<F(1, "resource", LEN, "resource", FALSE), F(2, "scopeSpans", LEN, "scope_spans", TRUE)>>,
   resource |-> <<F(1, "attributes", LEN, "key_value", TRUE)>>,
   scope_spans |-> <<F(1, "scope", LEN, "scope", FALSE), F(2, "spans", LEN, "span", TRUE)>>,
   scope |-> <<F(1, "name", LEN, "bytes", FALSE), F(2, "version", LEN, "bytes", FALSE), F(3, "attributes", LEN, "key_value", TRUE)>>,
   span |-> <<F(1, "traceId", LEN, "bytes", FALSE), F(2, "spanId", LEN, "bytes", FALSE), F(4, "parentSpanId", LEN, "bytes", FALSE),
             F(5, "name", LEN, "bytes", FALSE), F(6, "kind", VARINT, "uint", FALSE), F(7, "startTimeUnixNano", FIXED64, "fixed", FALSE),
             F(8, "endTimeUnixNano", FIXED64, "fixed", FALSE), F(9, "attributes", LEN, "key_value", TRUE), F(15, "status", LEN, "status", FALSE)>>,
   status |-> <<F(2, "message", LEN, "bytes", FALSE), F(3, "code", VARINT, "uint", FALSE)>>,
   key_value |-> <<F(1, "key", LEN, "bytes", FALSE), F(2, "value", LEN, "any", FALSE)>>,
   any |-> <<F(1, "stringValue", LEN, "bytes", FALSE), F(2, "boolValue", VARINT, "bool", FALSE), F(3, "intValue", VARINT, "int", FALSE),
            F(4, "doubleValue", FIXED64, "fixed", FALSE), F(5, "arrayValue", LEN, "array", FALSE), F(6, "kvlistValue", LEN, "kvlist", FALSE),
            F(7, "bytesValue", LEN, "bytes", FALSE)>>,
   array |-> <<F(1, "values", LEN, "any", TRUE)>>,
   kvlist |-> <<F(1, "values", LEN, "key_value", TRUE)>>]

FieldsOf(type) == {Schema[type][i] : i \in DOMAIN Schema[type]}
Names(type) == {f.name : f \in FieldsOf(type)}
FieldOf(type, name) == CHOOSE f \in FieldsOf(type) : f.name = name

\* What a field is that never came.
RECURSIVE Default(_)
Default(type) ==
  CASE type \in {"uint", "fixed", "int"} -> 0
    [] type = "bool" -> FALSE
    [] type = "bytes" -> <<>>
    [] type = "any" -> <<"stringValue", <<>>>>
    [] OTHER -> [n \in Names(type) |-> IF FieldOf(type, n).many THEN <<>> ELSE Default(FieldOf(type, n).of)]

--------------------------------------------------------------------------------
(* Reading                                                                     *)

RECURSIVE Number(_, _)
Number(bytes, base) == IF bytes = <<>> THEN 0 ELSE (Head(bytes) % base) + base * Number(Tail(bytes), base)

\* The bytes of a varint that begins at p, the last without the mark.
ReadVarint(b, p) ==
  LET ends == {k \in p..Len(b) : b[k] < Base /\ \A j \in p..(k - 1) : b[j] >= Base}
  IN  IF ends = {} THEN Bad
      ELSE LET k == CHOOSE k \in ends : TRUE
           IN  IF k - p >= MaxBytes THEN Bad ELSE [n |-> Number(SubSeq(b, p, k), Base), next |-> k + 1]

Slice(b, p, length) ==
  IF p + length - 1 > Len(b) THEN Bad ELSE [bytes |-> SubSeq(b, p, p + length - 1), next |-> p + length]

\* A field is read and skipped alike, by its wire type.
ReadField(b, p) ==
  LET tag == ReadVarint(b, p)
      wt == tag.n % 8
      size == ReadVarint(b, tag.next)
      value == CASE wt = VARINT -> size
                 [] wt = FIXED64 -> Slice(b, tag.next, Fixed)
                 [] wt = LEN -> IF size = Bad THEN Bad ELSE Slice(b, size.next, size.n)
                 [] wt = FIXED32 -> Slice(b, tag.next, Fixed \div 2)
                 [] OTHER -> Bad
  IN  IF tag = Bad \/ tag.n \div 8 = 0 THEN Bad
      ELSE IF value = Bad THEN Bad ELSE [no |-> tag.n \div 8, wt |-> wt, value |-> value]

RECURSIVE ReadFields(_, _)
ReadFields(b, p) ==
  IF p > Len(b) THEN <<>>
  ELSE LET field == ReadField(b, p)
           rest == ReadFields(b, field.value.next)
       IN  IF field = Bad THEN <<Bad>> ELSE <<field>> \o rest

\* Two's complement.
ToSigned(n) == IF n % Limit >= Limit \div 2 THEN (n % Limit) - Limit ELSE n % Limit

Known(type, f) == {k \in FieldsOf(type) : k.no = f.no /\ k.wt = f.wt}
IsMessage(k) == k.of \notin {"uint", "bool", "int", "fixed", "bytes"}

\* Nothing is truncated, of another wire type, or too long, at any level.
RECURSIVE WellFormed(_, _)
WellFormed(type, b) ==
  LET fields == ReadFields(b, 1)
  IN  \A i \in DOMAIN fields :
        fields[i] # Bad /\ \A k \in Known(type, fields[i]) : IsMessage(k) => WellFormed(k.of, fields[i].value.bytes)

\* Fields that are not known are skipped; of one that is not repeated the last counts.
RECURSIVE Decode(_, _)
Decode(type, b) ==
  LET Value(k, f) == CASE k.of = "uint" -> f.value.n
                       [] k.of = "bool" -> f.value.n # 0
                       [] k.of = "int" -> ToSigned(f.value.n)
                       [] k.of = "fixed" -> Number(f.value.bytes, 2 * Base)
                       [] k.of = "bytes" -> f.value.bytes
                       [] OTHER -> Decode(k.of, f.value.bytes)
      Fields(k) == SelectSeq(ReadFields(b, 1), LAMBDA f : k.no = f.no /\ k.wt = f.wt)
      Of(k) == IF k.many THEN [i \in DOMAIN Fields(k) |-> Value(k, Fields(k)[i])]
               ELSE IF Fields(k) = <<>> THEN Default(k.of) ELSE Value(k, Last(Fields(k)))
      Set == SelectSeq(ReadFields(b, 1), LAMBDA f : Known(type, f) # {})
  IN  IF type # "any" THEN [n \in Names(type) |-> Of(FieldOf(type, n))]
      ELSE IF Set = <<>> THEN Default("any")
      ELSE LET k == CHOOSE k \in Known("any", Last(Set)) : TRUE IN <<k.name, Value(k, Last(Set))>>

--------------------------------------------------------------------------------
(* Writing                                                                     *)

RECURSIVE EncodeVarint(_)
EncodeVarint(n) == IF n < Base THEN <<n>> ELSE <<Base + (n % Base)>> \o EncodeVarint(n \div Base)

EncodeTag(f) == EncodeVarint(f.no * 8 + f.wt)
RECURSIVE EncodeFixed(_, _)
EncodeFixed(n, left) == IF left = 0 THEN <<>> ELSE <<n % (2 * Base)>> \o EncodeFixed(n \div (2 * Base), left - 1)
Lengthy(f, bytes) == EncodeTag(f) \o EncodeVarint(Len(bytes)) \o bytes

RECURSIVE Encode(_, _)
Encode(type, m) ==
  LET One(f, v) ==
        CASE f.of = "uint" -> EncodeTag(f) \o EncodeVarint(v)
          [] f.of = "bool" -> EncodeTag(f) \o <<IF v THEN 1 ELSE 0>>
          [] f.of = "int" -> EncodeTag(f) \o EncodeVarint(IF v < 0 THEN Limit + v ELSE v)
          [] f.of = "fixed" -> EncodeTag(f) \o EncodeFixed(v, Fixed)
          [] f.of = "bytes" -> Lengthy(f, v)
          [] OTHER -> Lengthy(f, Encode(f.of, v))
      Field(f) == IF f.many THEN FlattenSeq([i \in DOMAIN m[f.name] |-> One(f, m[f.name][i])]) ELSE One(f, m[f.name])
  IN  IF type = "any" THEN One(FieldOf("any", m[1]), m[2])
      ELSE FlattenSeq([i \in DOMAIN Schema[type] |-> Field(Schema[type][i])])

--------------------------------------------------------------------------------
(* Flat spans                                                                  *)

\* The value of an attribute; a list and a map are taken apart.
RECURSIVE OtlpValue(_)
OtlpValue(value) ==
  CASE value[1] = "arrayValue" -> <<"list", [i \in DOMAIN value[2].values |-> OtlpValue(value[2].values[i])]>>
    [] value[1] = "kvlistValue" ->
         <<"dict", [i \in DOMAIN value[2].values |-> <<value[2].values[i].key, OtlpValue(value[2].values[i].value)>>]>>
    [] OTHER -> value

\* The last value of a key, the span's before the scope's before the resource's.
Attribute(attributes, key) ==
  LET of == {i \in DOMAIN attributes : attributes[i].key = key}
  IN  IF of = {} THEN <<"none", 0>> ELSE OtlpValue(attributes[CHOOSE i \in of : \A j \in of : j <= i].value)

FlatSpan(resource, scope, span) ==
  LET attributes == resource.attributes \o scope.attributes \o span.attributes
      keys == {attributes[i].key : i \in DOMAIN attributes}
  IN  [trace |-> span.traceId, id |-> span.spanId, parent |-> span.parentSpanId,
       start |-> span.startTimeUnixNano, failed |-> span.status.code = 2,
       attributes |-> [key \in keys |-> Attribute(attributes, key)]]

ExtractSpans(request) ==
  FlattenSeq([i \in DOMAIN request.resourceSpans |->
    LET rs == request.resourceSpans[i]
    IN  FlattenSeq([j \in DOMAIN rs.scopeSpans |->
          [k \in DOMAIN rs.scopeSpans[j].spans |->
            FlatSpan(rs.resource, rs.scopeSpans[j].scope, rs.scopeSpans[j].spans[k])]])])

--------------------------------------------------------------------------------
(* An export, whole, cut off, or with a field of a later version               *)

Init == sent \in Payload /\ wire = Encode("request", sent) /\ got = [at |-> "wire"]

Cut == got.at = "wire" /\ got' = [at |-> "cut"] /\ (\E k \in 0..(Len(wire) - 1) : wire' = SubSeq(wire, 1, k)) /\ UNCHANGED sent
Extend == got.at = "wire" /\ got' = [at |-> "later"] /\ (\E field \in Unknown : wire' = field \o wire) /\ UNCHANGED sent
Receive == got.at \in {"wire", "cut", "later"} /\ got' = [at |-> "received", from |-> got.at,
             request |-> IF WellFormed("request", wire) THEN Decode("request", wire) ELSE Bad]
           /\ UNCHANGED <<sent, wire>>

Next == Cut \/ Extend \/ Receive

(* What is received whole is what was sent, to the last nested value and sign, *)
(* also from an exporter that knows more fields; an export that was cut off is *)
(* refused, or is the resources that came whole.  Its spans are those a JSON   *)
(* export of the same would give (docs of otlp_protobuf.py:32-34).             *)
WireIsRead ==
  got.at = "received" =>
    /\ got.from # "cut" => got.request = sent /\ ExtractSpans(got.request) = ExtractSpans(sent)
    /\ got.from = "cut" => got.request = Bad \/ IsStrictPrefix(got.request.resourceSpans, sent.resourceSpans)
================================================================================
