-------------------------------- MODULE Wire --------------------------------
(***************************************************************************)
(* The encoding of RPCs (go-libp2p-pubsub/pb/rpc.pb.go): for every type of *)
(* message its struct, MarshalTo, Size and Unmarshal.  A byte string is a  *)
(* sequence of 0 .. 255.  Bytes, varints of seven bits and tags are those  *)
(* of the code; the two widths of its integers are scaled down so that     *)
(* short strings reach their ends:                                         *)
(*   IntBits    int and uint64.  64 = 9*7 + 1: the tenth byte of a varint  *)
(*              holds one bit, the sign of an int, and an eleventh is an   *)
(*              error.  15 = 2*7 + 1 does the same with the third byte.    *)
(*   FieldBits  int32, for field numbers and enums: fewer bits than are    *)
(*              left of a tag, so that a number may wrap around.           *)
(* Strings and slices of bytes are both byte strings; Nil is the nil       *)
(* pointer or slice, which is not the empty one.  Unmarshal of each type   *)
(* is the same loop (Fields below) over the fields of that type.           *)
(*                                                                         *)
(* A loop is a recursive function: of what is left to do, or of the number *)
(* of its rounds, with a number of rounds that is enough as argument.      *)
(***************************************************************************)
EXTENDS Integers, Sequences, SequencesExt

CONSTANTS IntBits, FieldBits, Nil

pow2[n \in Nat] == IF n = 0 THEN 1 ELSE 2 * pow2[n - 1]

IntMod == pow2[IntBits]
FieldMod == pow2[FieldBits]

\* Four bits are enough for the numbers of the fields there are.
ASSUME WidthsAssumption == /\ IntBits \in Nat /\ IntBits % 7 = 1
                           /\ FieldBits \in 4 .. IntBits - 4
ASSUME NilAssumption == Nil \notin Seq(Nat) \cup Int \cup BOOLEAN

\* x as a signed integer, of mod different values.
Signed(x, mod) == LET r == x % mod IN IF 2 * r >= mod THEN r - mod ELSE r

(***************************************************************************)
(* The structs: as they are made, and the values their fields have.        *)
(***************************************************************************)
SubOpts == [Subscribe |-> Nil, Topicid |-> Nil, XXX_unrecognized |-> <<>>]
Message == [From |-> Nil, Data |-> Nil, Seqno |-> Nil, TopicIDs |-> <<>>, Signature |-> Nil,
            Key |-> Nil, XXX_unrecognized |-> <<>>]
ControlIHave == [TopicID |-> Nil, MessageIDs |-> <<>>, XXX_unrecognized |-> <<>>]
ControlIWant == [MessageIDs |-> <<>>, XXX_unrecognized |-> <<>>]
ControlGraft == [TopicID |-> Nil, XXX_unrecognized |-> <<>>]
ControlPrune == [TopicID |-> Nil, XXX_unrecognized |-> <<>>]
ControlMessage == [Ihave |-> <<>>, Iwant |-> <<>>, Graft |-> <<>>, Prune |-> <<>>,
                   XXX_unrecognized |-> <<>>]
RPC == [Subscriptions |-> <<>>, Publish |-> <<>>, Control |-> Nil, XXX_unrecognized |-> <<>>]
AuthOpts == [Mode |-> Nil, Keys |-> <<>>, XXX_unrecognized |-> <<>>]
EncOpts == [Mode |-> Nil, KeyHashes |-> <<>>, XXX_unrecognized |-> <<>>]
TopicDescriptor == [Name |-> Nil, Auth |-> Nil, Enc |-> Nil, XXX_unrecognized |-> <<>>]

Byte == 0 .. 255
Int32 == -(FieldMod \div 2) .. FieldMod \div 2 - 1
Text == Seq(Byte) \cup {Nil}
SubOptsValues == [Subscribe : BOOLEAN \cup {Nil}, Topicid : Text, XXX_unrecognized : Seq(Byte)]
MessageValues == [From : Text, Data : Text, Seqno : Text, TopicIDs : Seq(Seq(Byte)),
                  Signature : Text, Key : Text, XXX_unrecognized : Seq(Byte)]
IHaveValues == [TopicID : Text, MessageIDs : Seq(Seq(Byte)), XXX_unrecognized : Seq(Byte)]
IWantValues == [MessageIDs : Seq(Seq(Byte)), XXX_unrecognized : Seq(Byte)]
GraftValues == [TopicID : Text, XXX_unrecognized : Seq(Byte)]
PruneValues == [TopicID : Text, XXX_unrecognized : Seq(Byte)]
ControlValues == [Ihave : Seq(IHaveValues), Iwant : Seq(IWantValues), Graft : Seq(GraftValues),
                  Prune : Seq(PruneValues), XXX_unrecognized : Seq(Byte)]
RPCValues == [Subscriptions : Seq(SubOptsValues), Publish : Seq(MessageValues),
              Control : ControlValues \cup {Nil}, XXX_unrecognized : Seq(Byte)]
AuthValues == [Mode : Int32 \cup {Nil}, Keys : Seq(Seq(Byte)), XXX_unrecognized : Seq(Byte)]
EncValues == [Mode : Int32 \cup {Nil}, KeyHashes : Seq(Seq(Byte)), XXX_unrecognized : Seq(Byte)]
TopicDescriptorValues == [Name : Text, Auth : AuthValues \cup {Nil}, Enc : EncValues \cup {Nil},
                          XXX_unrecognized : Seq(Byte)]

(***************************************************************************)
(* Sizes.                                                                  *)
(***************************************************************************)
sov[x \in Nat] == IF x \div 128 = 0 THEN 1 ELSE 1 + sov[x \div 128]
\* bug: off by one at the length that takes two bytes
sovShort(x) == IF x <= 128 THEN 1 ELSE sov[x]
sovRpc(x) == sov[x]

\* What a part of l bytes takes, with its tag and its length; and parts of these
\* lengths.
PartSize(l) == 1 + l + sovRpc(l)
PartSizes(lens) ==
  LET upTo[n \in 0 .. Len(lens)] == IF n = 0 THEN 0 ELSE upTo[n - 1] + PartSize(lens[n])
  IN upTo[Len(lens)]

BytesSize(b) == IF b = Nil THEN 0 ELSE PartSize(Len(b))
Total(ms, Size(_)) == PartSizes([i \in DOMAIN ms |-> Size(ms[i])])
EnumSize(mode) == IF mode = Nil THEN 0 ELSE 1 + sovRpc(mode % IntMod)

SubOptsSize(m) == (IF m.Subscribe = Nil THEN 0 ELSE 2) + BytesSize(m.Topicid)
                  + Len(m.XXX_unrecognized)
MessageSize(m) == BytesSize(m.From) + BytesSize(m.Data) + BytesSize(m.Seqno)
                  + Total(m.TopicIDs, Len) + BytesSize(m.Signature) + BytesSize(m.Key)
                  + Len(m.XXX_unrecognized)
IHaveSize(m) == BytesSize(m.TopicID) + Total(m.MessageIDs, Len) + Len(m.XXX_unrecognized)
IWantSize(m) == Total(m.MessageIDs, Len) + Len(m.XXX_unrecognized)
GraftSize(m) == BytesSize(m.TopicID) + Len(m.XXX_unrecognized)
PruneSize(m) == BytesSize(m.TopicID) + Len(m.XXX_unrecognized)
ControlSize(m) == Total(m.Ihave, IHaveSize) + Total(m.Iwant, IWantSize)
                  + Total(m.Graft, GraftSize) + Total(m.Prune, PruneSize)
                  + Len(m.XXX_unrecognized)
OptionalSize(m, Size(_)) == IF m = Nil THEN 0 ELSE PartSize(Size(m))
RPCSize(m) == Total(m.Subscriptions, SubOptsSize) + Total(m.Publish, MessageSize)
              + OptionalSize(m.Control, ControlSize) + Len(m.XXX_unrecognized)
AuthSize(m) == EnumSize(m.Mode) + Total(m.Keys, Len) + Len(m.XXX_unrecognized)
EncSize(m) == EnumSize(m.Mode) + Total(m.KeyHashes, Len) + Len(m.XXX_unrecognized)
TopicDescriptorSize(m) == BytesSize(m.Name) + OptionalSize(m.Auth, AuthSize)
                          + OptionalSize(m.Enc, EncSize) + Len(m.XXX_unrecognized)

(***************************************************************************)
(* Marshalling.  The length before a nested message is its Size, computed  *)
(* apart from the bytes that follow.                                       *)
(***************************************************************************)
varint[v \in Nat] == IF v >= 128 THEN <<128 + (v % 128)>> \o varint[v \div 128] ELSE <<v>>
\* bug: the bits that come later are not masked
encodeUnmasked(v) == IF v >= 128 THEN <<128 + v>> \o varint[v \div 128] ELSE <<v>>
encodeVarintRpc(v) == varint[v]

Bytes(tag, b) == IF b = Nil THEN <<>> ELSE <<tag>> \o encodeVarintRpc(Len(b)) \o b
Strings(tag, bs) == FlattenSeq([i \in DOMAIN bs |-> Bytes(tag, bs[i])])
Nested(tag, m, Size(_), MarshalTo(_)) ==
  IF m = Nil THEN <<>> ELSE <<tag>> \o encodeVarintRpc(Size(m)) \o MarshalTo(m)
Repeated(tag, ms, Size(_), MarshalTo(_)) ==
  FlattenSeq([i \in DOMAIN ms |-> Nested(tag, ms[i], Size, MarshalTo)])
\* A negative mode is extended to 64 bits: uint64(*m.Mode).
Enum(tag, mode) == IF mode = Nil THEN <<>> ELSE <<tag>> \o encodeVarintRpc(mode % IntMod)

SubOptsMarshalTo(m) ==
  (IF m.Subscribe = Nil THEN <<>> ELSE <<8, IF m.Subscribe THEN 1 ELSE 0>>)
  \o Bytes(18, m.Topicid) \o m.XXX_unrecognized
\* bug: fields that are not known are dropped
MessageKnownOnly(m) ==
  Bytes(10, m.From) \o Bytes(18, m.Data) \o Bytes(26, m.Seqno) \o Strings(34, m.TopicIDs)
  \o Bytes(42, m.Signature) \o Bytes(50, m.Key)
MessageMarshalTo(m) ==
  Bytes(10, m.From) \o Bytes(18, m.Data) \o Bytes(26, m.Seqno) \o Strings(34, m.TopicIDs)
  \o Bytes(42, m.Signature) \o Bytes(50, m.Key) \o m.XXX_unrecognized
IHaveMarshalTo(m) == Bytes(10, m.TopicID) \o Strings(18, m.MessageIDs) \o m.XXX_unrecognized
IWantMarshalTo(m) == Strings(10, m.MessageIDs) \o m.XXX_unrecognized
GraftMarshalTo(m) == Bytes(10, m.TopicID) \o m.XXX_unrecognized
PruneMarshalTo(m) == Bytes(10, m.TopicID) \o m.XXX_unrecognized
ControlMarshalTo(m) ==
  Repeated(10, m.Ihave, IHaveSize, IHaveMarshalTo)
  \o Repeated(18, m.Iwant, IWantSize, IWantMarshalTo)
  \o Repeated(26, m.Graft, GraftSize, GraftMarshalTo)
  \o Repeated(34, m.Prune, PruneSize, PruneMarshalTo) \o m.XXX_unrecognized
RPCMarshalTo(m) ==
  Repeated(10, m.Subscriptions, SubOptsSize, SubOptsMarshalTo)
  \o Repeated(18, m.Publish, MessageSize, MessageMarshalTo)
  \o Nested(26, m.Control, ControlSize, ControlMarshalTo) \o m.XXX_unrecognized
AuthMarshalTo(m) == Enum(8, m.Mode) \o Strings(18, m.Keys) \o m.XXX_unrecognized
EncMarshalTo(m) == Enum(8, m.Mode) \o Strings(18, m.KeyHashes) \o m.XXX_unrecognized
TopicDescriptorMarshalTo(m) ==
  Bytes(10, m.Name) \o Nested(18, m.Auth, AuthSize, AuthMarshalTo)
  \o Nested(26, m.Enc, EncSize, EncMarshalTo) \o m.XXX_unrecognized

(***************************************************************************)
(* Unmarshalling.  Every step results in a value and the index it ends at, *)
(* or in an error.  "out of range" is a slice expression beyond its slice, *)
(* a panic in Go.                                                          *)
(***************************************************************************)
Ok(val, next) == [err |-> "none", val |-> val, next |-> next]
Failed(err) == [err |-> err, val |-> Nil, next |-> 0]

\* The number in bytes of seven bits each, the lowest first.
number[b \in Seq(Nat)] == IF b = <<>> THEN 0 ELSE (b[1] % 128) + 128 * number[Tail(b)]

\* The varint at index i (from 0) of d: it ends at the first byte below 128. Shifts
\* of IntBits or more are refused, bits beyond IntBits are shifted out.
MaxVarint == (IntBits + 6) \div 7
Varint(d, i) ==
  LET ends == {n \in 1 .. MaxVarint : i + n <= Len(d) /\ d[i + n] < 128}
      n == Min(ends)
  IN IF ends # {} THEN Ok(number[SubSeq(d, i + 1, i + n)] % IntMod, i + n)
     ELSE IF Len(d) < i + MaxVarint THEN Failed("EOF") ELSE Failed("overflow")

\* bug: the sum is not looked at again
PostIndexUnchecked(i, n, l) ==
  LET post == Signed(i + n, IntMod)
  IN IF n < 0 THEN Failed("length") ELSE IF post > l THEN Failed("EOF") ELSE Ok(Nil, post)
\* The index n bytes after i, in a string of l bytes; the sum may wrap around.
PostIndex(i, n, l) ==
  LET post == Signed(i + n, IntMod)
  IN IF n < 0 \/ post < 0 THEN Failed("length")
     ELSE IF post > l THEN Failed("EOF") ELSE Ok(Nil, post)

Slice(d, i, j) ==
  IF i <= j /\ j <= Len(d) THEN Ok(SubSeq(d, i + 1, j), j) ELSE Failed("out of range")

LengthDelimited(d, i) ==
  LET n == Varint(d, i)
      post == PostIndex(n.next, Signed(n.val, IntMod), Len(d))
  IN IF n.err # "none" THEN n
     ELSE IF post.err # "none" THEN post ELSE Slice(d, n.next, post.next)

\* What is left of a field at index i, after its tag, outside of groups: n is the
\* varint there.
SkipValue(wireType, i, n) ==
  LET length == Signed(n.val, IntMod)
      end == Signed(n.next + length, IntMod)
  IN CASE wireType = 0 -> n
       [] wireType = 1 -> Ok(Nil, i + 8)
       [] wireType = 2 -> IF n.err # "none" THEN n
                          ELSE IF length < 0 \/ end < 0 THEN Failed("length") ELSE Ok(Nil, end)
       [] wireType = 5 -> Ok(Nil, i + 4)
       [] OTHER -> Failed("wire type")

\* The length of the field that d starts with; its value is not used. A group ends
\* at its end tag. The calls for the fields of groups go on where they return, so
\* the depth of the groups that are open, in val, stands for their stack.
SkipField(r, tag, value) ==
  LET wireType == tag.val % 8
      depth == CASE wireType = 3 -> r.val + 1 [] wireType = 4 -> r.val - 1 [] OTHER -> r.val
  IN IF tag.err # "none" THEN tag
     ELSE IF wireType \in {3, 4} THEN Ok(depth, tag.next)
     ELSE IF value.err # "none" THEN value
     ELSE IF r.val > 0 /\ Signed(value.next, IntMod) < 0 THEN Failed("length")
     ELSE Ok(r.val, value.next)
SkipTag(d, r) ==
  LET tag == Varint(d, r.next)
  IN SkipField(r, tag, SkipValue(tag.val % 8, tag.next, Varint(d, tag.next)))
skipRpc(d) ==
  LET after[n \in Nat] ==
        IF n = 0 THEN SkipTag(d, Ok(0, 0))
        ELSE LET r == after[n - 1]
             IN IF r.err # "none" \/ r.val <= 0 THEN r ELSE SkipTag(d, r)
  IN IF d = <<>> THEN Failed("unreachable") ELSE after[Len(d)]

\* A field that is not known is kept as it came, with its tag.
Keep(m, d, preIndex, skippy) ==
  LET post == PostIndex(preIndex, skippy.next, Len(d))
      raw == Slice(d, preIndex, post.next)
  IN IF skippy.err # "none" THEN skippy
     ELSE IF post.err # "none" THEN post
     ELSE IF raw.err # "none" THEN raw
     ELSE Ok([m EXCEPT !.XXX_unrecognized = @ \o raw.val], post.next)
Unrecognized(m, d, preIndex) ==
  Keep(m, d, preIndex, skipRpc(SubSeq(d, preIndex + 1, Len(d))))

(***************************************************************************)
(* The fields of each type, by number: the cases of its Unmarshal.         *)
(***************************************************************************)
Field(kind, name) == [kind |-> kind, name |-> name]
FieldOf(kind, name, of) == [kind |-> kind, name |-> name, of |-> of]

SubOptsFields == <<Field("bool", "Subscribe"), Field("string", "Topicid")>>
MessageFields == <<Field("bytes", "From"), Field("bytes", "Data"), Field("bytes", "Seqno"),
                   Field("strings", "TopicIDs"), Field("bytes", "Signature"),
                   Field("bytes", "Key")>>
IHaveFields == <<Field("string", "TopicID"), Field("strings", "MessageIDs")>>
IWantFields == <<Field("strings", "MessageIDs")>>
GraftFields == <<Field("string", "TopicID")>>
PruneFields == <<Field("string", "TopicID")>>
ControlFields == <<FieldOf("messages", "Ihave", "IHave"), FieldOf("messages", "Iwant", "IWant"),
                   FieldOf("messages", "Graft", "Graft"), FieldOf("messages", "Prune", "Prune")>>
RPCFields == <<FieldOf("messages", "Subscriptions", "SubOpts"),
               FieldOf("messages", "Publish", "Message"),
               FieldOf("message", "Control", "Control")>>
AuthFields == <<Field("enum", "Mode"), Field("strings", "Keys")>>
EncFields == <<Field("enum", "Mode"), Field("strings", "KeyHashes")>>
TopicDescriptorFields == <<Field("string", "Name"), FieldOf("message", "Auth", "Auth"),
                           FieldOf("message", "Enc", "Enc")>>

Types == [SubOpts |-> [new |-> SubOpts, fields |-> SubOptsFields],
          Message |-> [new |-> Message, fields |-> MessageFields],
          IHave |-> [new |-> ControlIHave, fields |-> IHaveFields],
          IWant |-> [new |-> ControlIWant, fields |-> IWantFields],
          Graft |-> [new |-> ControlGraft, fields |-> GraftFields],
          Prune |-> [new |-> ControlPrune, fields |-> PruneFields],
          Control |-> [new |-> ControlMessage, fields |-> ControlFields],
          RPC |-> [new |-> RPC, fields |-> RPCFields],
          Auth |-> [new |-> AuthOpts, fields |-> AuthFields],
          Enc |-> [new |-> EncOpts, fields |-> EncFields],
          TopicDescriptor |-> [new |-> TopicDescriptor, fields |-> TopicDescriptorFields]]
Values == [SubOpts |-> SubOptsValues, Message |-> MessageValues, IHave |-> IHaveValues,
           IWant |-> IWantValues, Graft |-> GraftValues, Prune |-> PruneValues,
           Control |-> ControlValues, RPC |-> RPCValues, Auth |-> AuthValues, Enc |-> EncValues,
           TopicDescriptor |-> TopicDescriptorValues]
\* Nil is no struct, and no result of reading one.
Results(V) == [err : {"none", "EOF", "overflow", "length", "wire type", "tag", "out of range",
                      "unreachable", "too long"}, val : V \cup {Nil}, next : Nat]
ASSUME NoStructAssumption ==
  \A k \in DOMAIN Values: Nil \notin Values[k] \cup Results(Values[k])

\* bug: an empty field is read as one that is not there
AppendOnly(old, b) == IF old = Nil /\ b = <<>> THEN Nil ELSE b
\* append(old[:0], b...) stays nil when there is nothing to append to nil; a field
\* that was read is not nil.
Overwrite(old, b) ==
  LET appended == IF old = Nil /\ b = <<>> THEN Nil ELSE b
  IN IF appended = Nil THEN <<>> ELSE appended

\* The field f of m: a scalar replaces, a repeated field appends, and an optional
\* message goes on in the one that is there. The field is the varint v, or the bytes
\* of part, of which the message nested is read.
Into(f, m) == IF f.kind = "message" /\ m[f.name] # Nil THEN m[f.name] ELSE Types[f.of].new
Assign(f, wireType, m, v, part, nested) ==
  LET scalar == f.kind \in {"bool", "enum"}
      Set(val, next) == Ok([m EXCEPT ![f.name] = val], next)
  IN IF wireType # (IF scalar THEN 0 ELSE 2) THEN Failed("wire type")
     ELSE IF scalar /\ v.err # "none" THEN v
     ELSE IF ~scalar /\ part.err # "none" THEN part
     ELSE IF f.kind \in {"message", "messages"} /\ nested.err # "none" THEN nested
     ELSE CASE f.kind = "bool" -> Set(v.val # 0, v.next)
            [] f.kind = "enum" -> Set(Signed(v.val, FieldMod), v.next)
            [] f.kind = "bytes" -> Set(Overwrite(m[f.name], part.val), part.next)
            [] f.kind = "string" -> Set(part.val, part.next)
            [] f.kind = "strings" -> Set(Append(m[f.name], part.val), part.next)
            [] f.kind = "message" -> Set(nested.val, part.next)
            [] f.kind = "messages" -> Set(Append(m[f.name], nested.val), part.next)

\* The tag at index i, and the field of the type it is for.
fieldNum(tag) == Signed(tag.val \div 8, FieldMod)
FieldAt(kind, tag) == Types[kind].fields[fieldNum(tag)]
ReadField(kind, m, d, i, nested) ==
  LET tag == Varint(d, i)
      wireType == tag.val % 8
  IN IF tag.err # "none" THEN tag
     ELSE IF wireType = 4 \/ fieldNum(tag) <= 0 THEN Failed("tag")
     ELSE IF fieldNum(tag) \in DOMAIN Types[kind].fields
            THEN Assign(FieldAt(kind, tag), wireType, m, Varint(d, tag.next),
                        LengthDelimited(d, tag.next), nested)
            ELSE Unrecognized(m, d, i)

\* The loop of Unmarshal, with the Unmarshal of the messages in this one.
Fields(kind, m, d, UnmarshalNested(_, _, _)) ==
  LET Inner(r) == LET tag == Varint(d, r.next)
                      f == FieldAt(kind, tag)
                  IN UnmarshalNested(f.of, Into(f, r.val), LengthDelimited(d, tag.next).val)
      after[n \in Nat] ==
        IF n = 0 THEN Ok(m, 0)
        ELSE LET r == after[n - 1]
             IN IF r.err # "none" \/ r.next >= Len(d) THEN r
                ELSE ReadField(kind, r.val, d, r.next, Inner(r))
  IN after[Len(d)]

\* Messages without messages in them, those with messages of the first sort in them,
\* and any.
NoUnmarshal(kind, m, d) == Failed("wire type")
UnmarshalFlat(kind, m, d) == Fields(kind, m, d, NoUnmarshal)
UnmarshalOuter(kind, m, d) == Fields(kind, m, d, UnmarshalFlat)
Unmarshal(kind, m, d) == Fields(kind, m, d, UnmarshalOuter)

(***************************************************************************)
(* A whole message of a type.  The delimited writer takes the length of a  *)
(* frame from Size and a buffer of that length for MarshalTo.              *)
(***************************************************************************)
Size(kind, m) ==
  CASE kind = "SubOpts" -> SubOptsSize(m)   [] kind = "Message" -> MessageSize(m)
    [] kind = "IHave" -> IHaveSize(m)       [] kind = "IWant" -> IWantSize(m)
    [] kind = "Graft" -> GraftSize(m)       [] kind = "Prune" -> PruneSize(m)
    [] kind = "Control" -> ControlSize(m)   [] kind = "RPC" -> RPCSize(m)
    [] kind = "Auth" -> AuthSize(m)         [] kind = "Enc" -> EncSize(m)
    [] kind = "TopicDescriptor" -> TopicDescriptorSize(m)
MarshalTo(kind, m) ==
  CASE kind = "SubOpts" -> SubOptsMarshalTo(m)   [] kind = "Message" -> MessageMarshalTo(m)
    [] kind = "IHave" -> IHaveMarshalTo(m)       [] kind = "IWant" -> IWantMarshalTo(m)
    [] kind = "Graft" -> GraftMarshalTo(m)       [] kind = "Prune" -> PruneMarshalTo(m)
    [] kind = "Control" -> ControlMarshalTo(m)   [] kind = "RPC" -> RPCMarshalTo(m)
    [] kind = "Auth" -> AuthMarshalTo(m)         [] kind = "Enc" -> EncMarshalTo(m)
    [] kind = "TopicDescriptor" -> TopicDescriptorMarshalTo(m)

\* What is left of the buffer is zero; what is beyond it is lost.
Frame(kind, m) == [n \in 1 .. Size(kind, m) |->
                     IF n <= Len(MarshalTo(kind, m)) THEN MarshalTo(kind, m)[n] ELSE 0]
Decoded(kind, frame) == Unmarshal(kind, Types[kind].new, frame)

(***************************************************************************)
(* What a program may have in XXX_unrecognized: nothing but Unmarshal      *)
(* writes it, and that only fields which the type does not know.           *)
(***************************************************************************)
Unknown(kind, b) ==
  Decoded(kind, b) = Ok([Types[kind].new EXCEPT !.XXX_unrecognized = b], Len(b))
Kept(kind, m) == Unknown(kind, m.XXX_unrecognized)
AllKept(kind, ms) == \A i \in DOMAIN ms: Kept(kind, ms[i])
ControlKept(m) == /\ Kept("Control", m) /\ AllKept("IHave", m.Ihave) /\ AllKept("IWant", m.Iwant)
                  /\ AllKept("Graft", m.Graft) /\ AllKept("Prune", m.Prune)
RPCKept(m) == /\ Kept("RPC", m) /\ AllKept("SubOpts", m.Subscriptions)
              /\ AllKept("Message", m.Publish)
              /\ m.Control # Nil => ControlKept(m.Control)
TopicDescriptorKept(m) == /\ Kept("TopicDescriptor", m)
                          /\ m.Auth # Nil => Kept("Auth", m.Auth)
                          /\ m.Enc # Nil => Kept("Enc", m.Enc)
Genuine(kind, m) ==
  CASE kind = "Control" -> ControlKept(m)
    [] kind = "RPC" -> RPCKept(m)
    [] kind = "TopicDescriptor" -> TopicDescriptorKept(m)
    [] OTHER -> Kept(kind, m)
=============================================================================
