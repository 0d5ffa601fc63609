------------------------------ MODULE ProtoCodec ------------------------------
(***************************************************************************)
(* The two generated protobuf codecs of the repository and what travels    *)
(* between them.  Keepers and the ABCI application use the gogoproto code  *)
(* (x/*/types/*.pb.go), clients and the SDK's signing and reflection code  *)
(* use the pulsar code (api/**/*.pulsar.go); both read what the other      *)
(* wrote.  A message is built field by field, marshalled by one codec,     *)
(* possibly met on the way by what protobuf allows (fields unknown to this *)
(* version, another order, a second encoding appended), and unmarshalled   *)
(* by either codec.                                                        *)
(*                                                                         *)
(* A byte string is a sequence of atoms, so that its length is known; the  *)
(* bytes of a nested message are opaque, and merging two nested messages   *)
(* concatenates their bytes.  A pointer is the empty sequence (nil) or a   *)
(* sequence of one value.  An encoded message is a sequence of tokens: the *)
(* field number and wire type of the tag, the value, the bytes taken.      *)
(***************************************************************************)
EXTENDS Integers, Sequences, FiniteSets, SequencesExt

G == INSTANCE GogoTables
P == INSTANCE PulsarTables

CONSTANTS
  Types,      \* the messages to build
  MaxOps,     \* operations on the message before it is marshalled
  MaxEdits    \* changes to the bytes on their way

VARIABLES type, from, msg, ops, wire, edits, to, got, phase

vars == <<type, from, msg, ops, wire, edits, to, got, phase>>

Codecs == {"gogo", "pulsar"}

Code(c, t) == IF c = "gogo" THEN G!Gogo[t] ELSE P!Pulsar[t]

(* The kinds of the fields of the Go struct of message t. *)
KindOf(c, t) ==
  IF c = "gogo" THEN G!Gogo[t].fields
  ELSE LET R == P!Pulsar[t].reflect
       IN  [f \in {R[i][2] : i \in DOMAIN R} |->
              (CHOOSE r \in ToSet(R) : r[2] = f)[3]]

(* The zero time.Time, as a Timestamp. *)
ZeroTime == <<"t", "0">>

(* An sdk Int marshals to its decimal digits, a nil Int to "0". *)
ZeroInt == <<"0">>

Zero(k) ==
  CASE k = "num"  -> 0
    [] k = "bool" -> FALSE
    [] k = "int"  -> ZeroInt
    [] k = "time" -> ZeroTime
    [] OTHER      -> <<>>

(* Values a field of a kind takes.  Strings hold decimals, so that a field *)
(* which is an Int in one codec and a string in the other may take any.    *)
Values(k) ==
  CASE k = "num"           -> {0, 1, 200}
    [] k = "bool"          -> BOOLEAN
    [] k = "str"           -> {<<>>, <<"0">>, <<"7", "7">>}
    [] k = "sub"           -> {<<>>, <<"7">>}
    [] k = "int"           -> {ZeroInt, <<"7", "7">>}
    [] k = "time"          -> {ZeroTime, <<>>, <<"7">>}
    [] k = "ptr"           -> {<<>>, << <<>> >>, << <<"7">> >>}
    [] k = "intp"          -> {<<>>, <<ZeroInt>>, << <<"7", "7">> >>}
    [] k = "rep"           -> {<<>>, << <<>> >>, << <<"7">>, <<"0">> >>}
    [] k = "packed"        -> {<<>>, <<0>>, <<200, 1>>}

ZeroMsg(c, t) == [f \in DOMAIN KindOf(c, t) |-> Zero(KindOf(c, t)[f])]

(* Every field set, as a message filled in by a client would be. *)
FullMsg(c, t) ==
  [f \in DOMAIN KindOf(c, t) |->
     LET k == KindOf(c, t)[f]
     IN  CASE k = "num" -> 200 [] k = "bool" -> TRUE
           [] k \in {"str", "int"} -> <<"7", "7">>
           [] k \in {"sub", "time"} -> <<"7">> [] k = "ptr" -> << <<"7">> >>
           [] k = "intp" -> << <<"7", "7">> >> [] k = "rep" -> << <<"7">>, <<"0">> >>
           [] k = "packed" -> <<200, 1>>]

-----------------------------------------------------------------------------
(* Reflection: what Has, Clear and Mutable do to a field of kind k.        *)

Has(k, v) == v # Zero(k)

(* Clear assigns the zero value, in particular nil to a message field. *)
Clear(k) == Zero(k)

(* Mutable panics for a scalar; it allocates a nil message. A nil list     *)
(* becomes an empty one, which is the same sequence.                       *)
CanMutate(k) == k \in {"ptr", "rep", "packed"}
Mutable(k, v) == IF k = "ptr" /\ v = <<>> THEN << <<>> >> ELSE v

-----------------------------------------------------------------------------
(* Encoding.                                                               *)

(* The bytes of a varint: seven bits in each. *)
Sov(x) == IF x < 128 THEN 1 ELSE IF x < 16384 THEN 2 ELSE 3

SumSov(s) == FoldLeft(LAMBDA n, x : n + Sov(x), 0, s)

(* Mutant: a message that is present but empty is not written. *)
Emit_SkipsEmpty(k, v) ==
  CASE k = "num"                     -> IF v # 0 THEN <<v>> ELSE <<>>
    [] k = "bool"                    -> IF v THEN <<1>> ELSE <<>>
    [] k \in {"str", "packed"}       -> IF v # <<>> THEN <<v>> ELSE <<>>
    [] k \in {"ptr", "intp", "rep"}  -> SelectSeq(v, LAMBDA x : x # <<>>)
    [] k \in {"sub", "int", "time"}  -> <<v>>

(* The values a block of kind k writes for field value v. *)
Emit(k, v) ==
  CASE k = "num"                     -> IF v # 0 THEN <<v>> ELSE <<>>
    [] k = "bool"                    -> IF v THEN <<1>> ELSE <<>>
    [] k \in {"str", "packed"}       -> IF v # <<>> THEN <<v>> ELSE <<>>
    [] k \in {"ptr", "intp", "rep"}  -> v
    [] k \in {"sub", "int", "time"}  -> <<v>>

(* The bytes of one such value after the tag. *)
ContentLen(k, x) ==
  CASE k = "num"    -> Sov(x)
    [] k = "bool"   -> 1
    [] k = "packed" -> Sov(SumSov(x)) + SumSov(x)
    [] OTHER        -> Sov(Len(x)) + Len(x)

(* A tag is the varint of number * 8 + wire type. *)
TagValue(tag) ==
  IF Len(tag) = 1 THEN tag[1] ELSE tag[1] - 128 + 128 * tag[2]

Token(k, tag, x) ==
  [num |-> TagValue(tag) \div 8, wire |-> TagValue(tag) % 8, val |-> x,
   len |-> Len(tag) + ContentLen(k, x)]

BytesOf(toks) ==
  LET upto[n \in 0..Len(toks)] == IF n = 0 THEN 0 ELSE upto[n - 1] + toks[n].len
  IN  upto[Len(toks)]

Size(c, t, m, unknown) ==
  LET rows == Code(c, t).size
      block(r) == FoldLeft(LAMBDA k, x : k + r[3] + ContentLen(r[2], x), 0, Emit(r[2], m[r[1]]))
      counted[n \in 0..Len(rows)] ==
        IF n = 0 THEN BytesOf(unknown) ELSE counted[n - 1] + block(rows[n])
  IN  counted[Len(rows)]

(* The buffer is filled from its end: each block goes in front of what has *)
(* been written, and pulsar writes the unknown fields it kept first.       *)
Marshal(c, t, m, unknown) ==
  LET rows == Code(c, t).marshal
      block(r) == LET xs == Emit(r[2], m[r[1]])
                  IN  [i \in DOMAIN xs |-> Token(r[2], r[3], xs[i])]
      written[n \in 0..Len(rows)] ==
        IF n = 0 THEN unknown ELSE block(rows[n]) \o written[n - 1]
  IN  written[Len(rows)]

-----------------------------------------------------------------------------
(* Decoding.                                                               *)

(* Mutant: a pointer field is allocated afresh for every block. *)
Put_Reallocates(k, old, x) ==
  CASE k \in {"num", "str", "time"} -> x
    [] k = "bool"                   -> x # 0
    [] k = "sub"                    -> old \o x
    [] k = "ptr"                    -> <<x>>
    [] k = "int"                    -> IF x = <<>> THEN old ELSE x
    [] k = "intp"                   -> <<IF x = <<>> THEN ZeroInt ELSE x>>
    [] k \in {"rep", "num1"}        -> Append(old, x)
    [] k = "packed"                 -> old \o x

(* The field after a block with value x: scalars are replaced, messages    *)
(* merged, elements appended.  Int.Unmarshal leaves an Int alone when      *)
(* there are no digits; a pointer to an Int is allocated anew.             *)
Put(k, old, x) ==
  CASE k \in {"num", "str", "time"} -> x
    [] k = "bool"                   -> x # 0
    [] k = "sub"                    -> old \o x
    [] k = "ptr"                    -> <<(IF old = <<>> THEN <<>> ELSE old[1]) \o x>>
    [] k = "int"                    -> IF x = <<>> THEN old ELSE x
    [] k = "intp"                   -> <<IF x = <<>> THEN ZeroInt ELSE x>>
    [] k \in {"rep", "num1"}        -> Append(old, x)
    [] k = "packed"                 -> old \o x

(* Mutant: pulsar forgets the fields it does not know. *)
KeepUnknown_Never(c, acc, tok) == acc.unknown

(* Skipped bytes are appended to unknownFields by pulsar only. *)
KeepUnknown(c, acc, tok) ==
  IF c = "pulsar" THEN Append(acc.unknown, tok) ELSE acc.unknown

(* skip: a field is passed over with everything up to the end of its       *)
(* group; wire types 6 and 7 do not exist.                                 *)
SkipToken(c, acc, tok) ==
  IF tok.wire > 5 THEN [acc EXCEPT !.ok = FALSE]
  ELSE [acc EXCEPT !.depth = @ + (CASE tok.wire = 3 -> 1 [] tok.wire = 4 -> -1 [] OTHER -> 0),
                   !.unknown = KeepUnknown(c, acc, tok)]

(* One round of the loop, without an error so far: a tag and what follows. *)
ReadField(c, t, acc, tok) ==
  LET cases == {r \in ToSet(Code(c, t).unmarshal) : r[1] = tok.num}
      fit   == {r \in cases : r[2] = tok.wire}
  IN  IF acc.depth > 0 THEN SkipToken(c, acc, tok)
      ELSE IF tok.wire = 4 \/ tok.num <= 0 THEN [acc EXCEPT !.ok = FALSE]
      ELSE IF cases = {} THEN SkipToken(c, acc, tok)
      ELSE IF fit = {} THEN [acc EXCEPT !.ok = FALSE]
      ELSE LET r == CHOOSE r \in fit : TRUE
           IN  [acc EXCEPT !.msg[r[3]] = Put(r[4], @, tok.val)]

(* The loop ends at the first error.  It reads toks[i..j] by halves, the   *)
(* first half to its end before the second, which keeps the evaluation     *)
(* shallow.  A group that is not closed runs into the end of the input.    *)
Unmarshal(c, t, toks) ==
  LET RECURSIVE Read(_, _, _)
      Read(acc, i, j) ==
        IF ~acc.ok \/ i > j THEN acc
        ELSE IF i = j THEN ReadField(c, t, acc, toks[i])
        ELSE Read(Read(acc, i, (i + j) \div 2), (i + j) \div 2 + 1, j)
      end == Read([msg |-> ZeroMsg(c, t), unknown |-> <<>>, ok |-> TRUE, depth |-> 0],
                  1, Len(toks))
  IN  [end EXCEPT !.ok = @ /\ end.depth = 0]

-----------------------------------------------------------------------------
None == [msg |-> <<>>, unknown |-> <<>>, ok |-> FALSE, depth |-> 0]

Init ==
  /\ type \in Types
  /\ from \in Codecs
  /\ msg \in {ZeroMsg(from, type), FullMsg(from, type)}
  /\ ops = 0
  /\ wire = <<>>
  /\ edits = {}
  /\ to = "gogo"
  /\ got = None
  /\ phase = "build"

Build(f, v) ==
  /\ phase = "build" /\ ops < MaxOps
  /\ ops' = ops + 1
  /\ msg' = [msg EXCEPT ![f] = v]
  /\ UNCHANGED <<type, from, wire, edits, to, got, phase>>

(* A gogo struct is assigned to; a pulsar message goes through Set. *)
SetField == \E f \in DOMAIN msg : \E v \in Values(KindOf(from, type)[f]) : Build(f, v)

ClearField ==
  /\ from = "pulsar"
  /\ \E f \in DOMAIN msg : Build(f, Clear(KindOf(from, type)[f]))

MutableField ==
  /\ from = "pulsar"
  /\ \E f \in DOMAIN msg :
        /\ CanMutate(KindOf(from, type)[f])
        /\ Build(f, Mutable(KindOf(from, type)[f], msg[f]))

MarshalMsg ==
  /\ phase = "build"
  /\ phase' = "wire"
  /\ wire' = Marshal(from, type, msg, <<>>)
  /\ UNCHANGED <<type, from, msg, ops, edits, to, got>>

(* Fields a later version of the message might have, among them a group.   *)
Unknowns ==
  {<<[num |-> 1000, wire |-> w, val |-> <<"7">>, len |-> 4]>> : w \in {0, 1, 2, 5}}
    \cup {<<[num |-> 1000, wire |-> 3, val |-> <<>>, len |-> 2],
            [num |-> 1, wire |-> 2, val |-> <<"7">>, len |-> 3],
            [num |-> 1000, wire |-> 4, val |-> <<>>, len |-> 2]>>}

Edit(kind, toks) ==
  /\ phase = "wire" /\ Cardinality(edits) < MaxEdits /\ kind \notin edits
  /\ edits' = edits \cup {kind}
  /\ wire' = toks
  /\ UNCHANGED <<type, from, msg, ops, to, got, phase>>

NewerSender ==
  \E i \in {0, Len(wire) \div 2, Len(wire)}, u \in Unknowns :
     Edit("unknown", SubSeq(wire, 1, i) \o u \o SubSeq(wire, i + 1, Len(wire)))

(* Another sender may write the fields in another order. *)
OtherOrder ==
  \E i \in 1..(Len(wire) - 1) :
     /\ wire[i].num # wire[i + 1].num
     /\ Edit("order", [wire EXCEPT ![i] = wire[i + 1], ![i + 1] = wire[i]])

(* Appending an encoding asks for a merge. *)
Concatenate ==
  \E c \in Codecs : \E m \in {ZeroMsg(c, type), FullMsg(c, type)} :
     Edit("concat", wire \o Marshal(c, type, m, <<>>))

(* A number sent with the wire type of another kind of field. *)
WrongWireType ==
  \E i \in DOMAIN wire, w \in 0..7 :
     /\ w # wire[i].wire
     /\ Edit("wiretype", [wire EXCEPT ![i].wire = w, ![i].val = IF w = 0 THEN 1 ELSE <<>>])

UnmarshalMsg ==
  /\ phase = "wire"
  /\ phase' = "done"
  /\ to' \in Codecs
  /\ got' = Unmarshal(to', type, wire)
  /\ UNCHANGED <<type, from, msg, ops, wire, edits>>

(* The message has been read. *)
Terminated == phase = "done" /\ UNCHANGED vars

Next ==
  \/ SetField \/ ClearField \/ MutableField \/ MarshalMsg
  \/ NewerSender \/ OtherOrder \/ Concatenate \/ WrongWireType
  \/ UnmarshalMsg \/ Terminated

Spec == Init /\ [][Next]_vars

-----------------------------------------------------------------------------
(* The number a codec reads a field under. *)
NumberOf(c, t, f) == (CHOOSE r \in ToSet(Code(c, t).unmarshal) : r[3] = f)[1]

(* A gogo field g of kind k and a pulsar field p say the same: pulsar keeps *)
(* an Int as its digits and points to every message, and an unset message   *)
(* or number reads as the zero one.                                         *)
Same(k, g, p) ==
  CASE k = "sub"  -> g = IF p = <<>> THEN <<>> ELSE p[1]
    [] k = "time" -> g = IF p = <<>> THEN ZeroTime ELSE p[1]
    [] k = "int"  -> g = IF p = <<>> THEN ZeroInt ELSE p
    [] k = "intp" -> g = IF p = <<>> THEN <<>> ELSE <<p>>
    [] OTHER      -> g = p

SameMsg(g, p) ==
  \A f \in DOMAIN g : \E h \in DOMAIN p :
     /\ NumberOf("gogo", type, f) = NumberOf("pulsar", type, h)
     /\ Same(KindOf("gogo", type)[f], g[f], p[h])

(* Marshal allocates Size() bytes and writes backwards from the end, so a  *)
(* Size that is one byte off either leaves garbage before the message or   *)
(* runs below index 0: for every message of both codecs, whatever the      *)
(* fields hold and whatever pulsar kept as unknown, Size is exact.         *)
SizeExact ==
  /\ phase = "wire" /\ edits = {} => BytesOf(wire) = Size(from, type, msg, <<>>)
  /\ phase = "done" /\ got.ok =>
       BytesOf(Marshal(to, type, got.msg, got.unknown)) = Size(to, type, got.msg, got.unknown)

(* The encoding is canonical: fields come in ascending order of number and *)
(* a number repeats only for the elements of a repeated field, so equal    *)
(* messages have equal bytes, which signatures and app hashes rely on.     *)
Canonical ==
  phase = "wire" /\ edits = {} =>
    \A i, j \in DOMAIN wire :
       /\ i < j => wire[i].num <= wire[j].num
       /\ i # j /\ wire[i].num = wire[j].num =>
            \E f \in DOMAIN msg : /\ KindOf(from, type)[f] = "rep"
                                 /\ NumberOf(from, type, f) = wire[i].num

(* What one codec writes, either codec reads back: the same codec to the   *)
(* same message, the other to one that says the same in its own Go types;  *)
(* neither the order of the fields nor fields of a newer version disturb   *)
(* the ones that are known.                                                *)
RoundTrip ==
  phase = "done" /\ edits \subseteq {"order", "unknown"} =>
    /\ got.ok
    /\ from = to => got.msg = msg
    /\ from = "gogo" /\ to = "pulsar" => SameMsg(msg, got.msg)
    /\ from = "pulsar" /\ to = "gogo" => SameMsg(got.msg, msg)

(* A message that pulsar reads and writes again loses nothing: every token *)
(* comes back, the fields of a newer version included, and the canonical   *)
(* encoding comes back byte for byte, so a signature over it stays valid.  *)
RelayLossless ==
  phase = "done" /\ to = "pulsar" /\ edits \subseteq {"order", "unknown"} =>
    LET again == Marshal(to, type, got.msg, got.unknown)
    IN  /\ edits = {} => again = wire
        /\ Len(again) = Len(wire) /\ ToSet(again) = ToSet(wire)

(* The two decoders accept and refuse the same inputs and read the same    *)
(* contents from them, repeated, merged, unknown and ill-typed fields      *)
(* included.  A time.Time sent twice is left out: gogo replaces it where   *)
(* pulsar merges two Timestamps.                                           *)
DecodersAgree ==
  phase = "wire" =>
    LET g == Unmarshal("gogo", type, wire)
        p == Unmarshal("pulsar", type, wire)
        twice == \E i, j \in DOMAIN wire : i # j /\ wire[i].num = wire[j].num
        timed == "time" \in {KindOf("gogo", type)[f] : f \in DOMAIN g.msg}
    IN  ~(twice /\ timed) => /\ g.ok = p.ok
                             /\ g.ok => SameMsg(g.msg, p.msg)

(* The fields reflection reports as populated are the fields that the fast *)
(* path marshals: generic code that walks a message with Range (signing,   *)
(* JSON, field masks) sees what a peer will receive.                       *)
HasMatchesWire ==
  phase = "wire" /\ from = "pulsar" /\ edits = {} =>
    {wire[i].num : i \in DOMAIN wire}
      = {NumberOf(from, type, f) : f \in {f \in DOMAIN msg : Has(KindOf(from, type)[f], msg[f])}}
=============================================================================
