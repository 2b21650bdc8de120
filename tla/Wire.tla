-------------------------------- MODULE Wire --------------------------------
(***************************************************************************)
(* How a message becomes bytes and bytes a message again: the generated    *)
(* Marshal, Size and Unmarshal, driven by the tables of WireTables.        *)
(*                                                                         *)
(* A byte is a number of 0..255 and varints have seven bits to a byte, as  *)
(* in the code; only the machine word is narrower: WordBytes instead of 8  *)
(* bytes for 64 bit integers, IntBytes instead of 4 for 32 bit ones.  A    *)
(* string is its bytes, a missing message is <<>> and a present one <<m>>, *)
(* a map is its entries in the order in which the code ranges over it.  A  *)
(* oneof has at most one alternative <<v>>; one that holds a nil slice is  *)
(* written as none, so it is not told apart from none.                     *)
(***************************************************************************)
EXTENDS Integers, Sequences, SequencesExt, WireTables

CONSTANTS
    WordBytes, IntBytes,
    WireMessages     \* [type -> the messages of that type that are sent]

VARIABLES
    wireStep,        \* "value", "sent", "read"
    wireType, wireMsg,
    wireData,        \* the bytes that were sent
    wireCut,         \* how many of them arrived
    wireHidden,      \* number of a field the reader does not know, 0 for none
    wireGot          \* what Unmarshal made of them: <<message>>, or <<>> for an error

wireVars == <<wireStep, wireType, wireMsg, wireData, wireCut, wireHidden, wireGot>>

Word == 256 ^ WordBytes
Half == 256 ^ IntBytes
Oneofs == {"GValue"}

Signed(v, size) == IF v >= size \div 2 THEN v - size ELSE v

\* Mutant: 128 counts as one byte.
sovShort(x) == LET n[y \in Nat] == IF y <= 128 THEN 1 ELSE 1 + n[y \div 128] IN n[x]
sov(x) == LET n[y \in Nat] == IF y < 128 THEN 1 ELSE 1 + n[y \div 128] IN n[x]

encodeVarint[v \in Nat] ==
    IF v < 128 THEN <<v>> ELSE <<(v % 128) + 128>> \o encodeVarint[v \div 128]

encodeFixed64(v) == [i \in 1..WordBytes |-> (v \div 256 ^ (i - 1)) % 256]

Prefixed(bytes) == encodeVarint[Len(bytes)] \o bytes
Concat(f(_), s) == FlattenSeq([i \in DOMAIN s |-> f(s[i])])
Total(f(_), s) == FoldLeft(LAMBDA a, b : a + b, 0, [i \in DOMAIN s |-> f(s[i])])

(* The value of a field that is not on the wire. *)
ZeroOf(how) ==
    CASE how \in {"u64", "i64", "u32", "i32", "fixed"} -> 0
      [] how = "bool" -> FALSE
      [] OTHER -> <<>>
Zero(T) ==
    LET rows == UnmarshalTable[T]
    IN  [f \in {rows[i][2] : i \in DOMAIN rows} |->
           IF T \in Oneofs THEN <<>>
           ELSE ZeroOf((CHOOSE r \in Range(rows) : r[2] = f)[3])]

(* "if m.X != 0", "if m.X", "if len(m.X) > 0", "if m.X != nil". *)
Present(how, v) ==
    CASE how \in {"varint", "fixed"} -> v # 0
      [] how = "bool" -> v
      [] OTHER -> v # <<>>

-----------------------------------------------------------------------------
(* Size. *)
mapEntrySize(e) == 1 + Len(e[1]) + sov(Len(e[1])) + 1 + sov(e[2])
withLength(l) == 1 + l + sov(l)

RECURSIVE Size(_, _)

sizeField(row, v) ==
    CASE row[2] = "varint" -> 1 + sov(v % Word)
      [] row[2] = "bool" -> 2
      [] row[2] = "fixed" -> 1 + WordBytes
      [] row[2] = "bytes" -> withLength(Len(v))
      [] row[2] = "strings" -> Total(LAMBDA s : withLength(Len(s)), v)
      [] row[2] = "packedFixed" -> withLength(Len(v) * WordBytes)
      [] row[2] = "packedVarint" -> withLength(Total(LAMBDA e : sov(e), v))
      [] row[2] \in {"message", "messages"} -> Total(LAMBDA m : withLength(Size(row[3], m)), v)
      [] row[2] = "map" -> Total(LAMBDA e : withLength(mapEntrySize(e)), v)

Size(T, m) ==
    Total(LAMBDA row :
            IF T \in Oneofs THEN Total(LAMBDA v : sizeField(row, v), m[row[1]])
            ELSE IF Present(row[2], m[row[1]]) THEN sizeField(row, m[row[1]]) ELSE 0,
          SizeTable[T])

(* MarshalTo: the length in front of a message is the one Size announces. *)
RECURSIVE MarshalTo(_, _)

marshalField(row, v) ==
    LET tag == <<row[2]>>
    IN  CASE row[3] = "varint" -> tag \o encodeVarint[v % Word]
          [] row[3] = "bool" -> tag \o <<IF v THEN 1 ELSE 0>>
          [] row[3] = "fixed" -> tag \o encodeFixed64(v)
          [] row[3] = "bytes" -> tag \o Prefixed(v)
          [] row[3] = "strings" -> Concat(LAMBDA s : tag \o Prefixed(s), v)
          [] row[3] = "packedFixed" ->
               tag \o encodeVarint[Len(v) * WordBytes] \o Concat(encodeFixed64, v)
          [] row[3] = "packedVarint" -> tag \o Prefixed(Concat(LAMBDA e : encodeVarint[e], v))
          [] row[3] \in {"message", "messages"} ->
               Concat(LAMBDA m : tag \o encodeVarint[Size(row[4], m)] \o MarshalTo(row[4], m), v)
          [] row[3] = "map" ->
               Concat(LAMBDA e : tag \o encodeVarint[mapEntrySize(e)]
                                 \o <<10>> \o Prefixed(e[1]) \o <<16>> \o encodeVarint[e[2]], v)

MarshalTo(T, m) ==
    Concat(LAMBDA row :
             IF T \in Oneofs THEN Concat(LAMBDA v : marshalField(row, v), m[row[1]])
             ELSE IF Present(row[3], m[row[1]]) THEN marshalField(row, m[row[1]]) ELSE <<>>,
           MarshalTable[T])

-----------------------------------------------------------------------------
(* Unmarshal.  A read is [ok, v, next]: next is the index after it. *)
Bad == [ok |-> FALSE, v |-> 0, next |-> 0]
Read(v, next) == [ok |-> TRUE, v |-> v, next |-> next]
(* What the code does after a read, unless the read returned an error. *)
Then(r, f(_)) == IF r.ok THEN f(r) ELSE Bad

(* Seven bits at a time, until the shift reaches the size of the word. *)
MaxGroups == (8 * WordBytes + 6) \div 7
readVarint(data, i) ==
    LET from[k \in 0..MaxGroups] ==
          IF k = MaxGroups \/ i + k > Len(data) THEN Bad
          ELSE LET bits == ((data[i + k] % 128) * 128 ^ k) % Word
                   rest == from[k + 1]
               IN  IF data[i + k] < 128 THEN Read(bits, i + k + 1)
                   ELSE Then(rest, LAMBDA r : Read(bits + r.v, r.next))
    IN  from[0]

readFixed(data, i) ==
    IF i + WordBytes - 1 > Len(data) THEN Bad
    ELSE Read(Total(LAMBDA k : data[i + k - 1] * 256 ^ (k - 1), [k \in 1..WordBytes |-> k]),
              i + WordBytes)

(* A length and the bytes it announces; v is the index of the first of them,
   next the index after the last. *)
\* Mutant: a length beyond the data is cut to what there is.
readExtentClipped(data, i) ==
    Then(readVarint(data, i),
         LAMBDA len : LET post == len.next + Signed(len.v, Word)
                      IN  IF Signed(len.v, Word) < 0 THEN Bad
                          ELSE Read(len.next, IF post > Len(data) + 1 THEN Len(data) + 1 ELSE post))
readExtent(data, i) ==
    Then(readVarint(data, i),
         LAMBDA len : LET post == len.next + Signed(len.v, Word)
                      IN  IF Signed(len.v, Word) < 0 \/ post > Len(data) + 1 THEN Bad
                          ELSE Read(len.next, post))

readBytes(data, i) ==
    Then(readExtent(data, i), LAMBDA e : Read(SubSeq(data, e.v, e.next - 1), e.next))

Integer(how, v) ==
    CASE how \in {"u64", "packedU64"} -> v
      [] how = "i64" -> Signed(v, Word)
      [] how \in {"u32", "packedU32"} -> v % Half
      [] how = "i32" -> Signed(v % Half, Half)
      [] how = "bool" -> v # 0

readElement(how, data, i) ==
    IF how \in {"fixed", "packedFixed"} THEN readFixed(data, i)
    ELSE Then(readVarint(data, i), LAMBDA r : Read(Integer(how, r.v), r.next))

(* The elements up to `post`; the last may reach beyond it. *)
RECURSIVE readPacked(_, _, _, _, _)
readPacked(how, data, i, post, acc) ==
    IF i >= post THEN Read(acc, i)
    ELSE Then(readElement(how, data, i),
              LAMBDA r : readPacked(how, data, r.next, post, Append(acc, r.v)))

(* An entry of a map: a key, and a value unless the entry ends before it.  The
   numbers of the two fields are read and not looked at. *)
readEntry(data, i) ==
    Then(readExtent(data, i), LAMBDA e :
    Then(readVarint(data, e.v), LAMBDA keykey :
    Then(readBytes(data, keykey.next), LAMBDA key :
      IF key.next >= e.next THEN Read(<<key.v, 0>>, e.next)
      ELSE Then(readVarint(data, key.next), LAMBDA valuekey :
           Then(readVarint(data, valuekey.next), LAMBDA value :
             Read(<<key.v, value.v>>, e.next))))))
withEntry(map, e) == Append(SelectSeq(map, LAMBDA x : x[1] # e[1]), e)

(* skipX: the length of a field of any wire type, the caller checks that it is
   within the data. *)
RECURSIVE skip(_, _), skipGroup(_, _)
skip(data, i) ==
    Then(readVarint(data, i), LAMBDA wire :
      CASE wire.v % 8 = 0 -> readVarint(data, wire.next)
        [] wire.v % 8 = 1 -> Read(0, wire.next + WordBytes)
        [] wire.v % 8 = 2 ->
             Then(readVarint(data, wire.next), LAMBDA len :
               IF Signed(len.v, Word) < 0 THEN Bad ELSE Read(0, len.next + len.v))
        [] wire.v % 8 = 3 -> skipGroup(data, wire.next)
        [] wire.v % 8 = 4 -> Read(0, wire.next)
        [] wire.v % 8 = 5 -> Read(0, wire.next + IntBytes)
        [] OTHER -> Bad)
skipGroup(data, i) ==
    Then(readVarint(data, i), LAMBDA inner :
      IF inner.v % 8 = 4 THEN Read(0, inner.next)
      ELSE Then(skip(data, i), LAMBDA field : skipGroup(data, field.next)))

WireTypes(how) ==
    CASE how \in {"u64", "i64", "u32", "i32", "bool"} -> {0}
      [] how = "fixed" -> {1}
      [] how = "packedFixed" -> {1, 2}
      [] how \in {"packedU32", "packedU64"} -> {0, 2}
      [] OTHER -> {2}

RECURSIVE unmarshalFrom(_, _, _, _, _)

(* One field: v is the new value of the field in m. *)
unmarshalField(row, wireTypeRead, old, data, i) ==
    LET how == row[3]
        appended(r) == Read(Append(old, r.v), r.next)
    IN  IF wireTypeRead \notin WireTypes(how) THEN Bad
        ELSE CASE how \in {"u64", "i64", "u32", "i32", "bool", "fixed"} -> readElement(how, data, i)
               [] how = "bytes" -> readBytes(data, i)
               [] how = "strings" -> Then(readBytes(data, i), appended)
               [] how \in {"packedFixed", "packedU32", "packedU64"} ->
                    IF wireTypeRead # 2 THEN Then(readElement(how, data, i), appended)
                    ELSE Then(readExtent(data, i), LAMBDA e : readPacked(how, data, e.v, e.next, old))
               [] how \in {"message", "messages"} ->
                    Then(readBytes(data, i), LAMBDA bytes :
                    Then(unmarshalFrom(row[4], 0, IF how = "message" /\ old # <<>> THEN old[1] ELSE Zero(row[4]),
                                       bytes.v, 1), LAMBDA inner :
                      Read(IF how = "message" THEN <<inner.v>> ELSE Append(old, inner.v), bytes.next)))
               [] how = "map" ->
                    Then(readEntry(data, i), LAMBDA entry : Read(withEntry(old, entry.v), entry.next))

(* The loop of Unmarshal of type T into m, from index i on. *)
unmarshalFrom(T, hidden, m, data, i) ==
    IF i > Len(data) THEN IF i = Len(data) + 1 THEN Read(m, i) ELSE Bad
    ELSE Then(readVarint(data, i), LAMBDA wire :
      LET fieldNum == Signed((wire.v \div 8) % Half, Half)
          rows == {r \in Range(UnmarshalTable[T]) : r[1] = fieldNum /\ fieldNum # hidden}
      IN  IF wire.v % 8 = 4 \/ fieldNum <= 0 THEN Bad
          ELSE IF rows = {}
          THEN Then(skip(data, i), LAMBDA field :
                 IF field.next > Len(data) + 1 THEN Bad
                 ELSE unmarshalFrom(T, hidden, m, data, field.next))
          ELSE LET row == CHOOSE r \in rows : TRUE
                   old == IF T \in Oneofs THEN <<>> ELSE m[row[2]]
               IN  Then(unmarshalField(row, wire.v % 8, old, data, wire.next), LAMBDA field :
                     unmarshalFrom(T, hidden,
                                   IF T \in Oneofs THEN [Zero(T) EXCEPT ![row[2]] = <<field.v>>]
                                   ELSE [m EXCEPT ![row[2]] = field.v],
                                   data, field.next)))

Unmarshal(T, hidden, data) == unmarshalFrom(T, hidden, Zero(T), data, 1)

-----------------------------------------------------------------------------
Init ==
    /\ wireStep = "value"
    /\ \E T \in DOMAIN WireMessages : wireType = T /\ wireMsg \in WireMessages[T]
    /\ wireData = <<>> /\ wireCut = 0 /\ wireHidden = 0 /\ wireGot = <<>>

(* Marshal at the sender. *)
Marshal ==
    /\ wireStep = "value" /\ wireStep' = "sent"
    /\ wireData' = MarshalTo(wireType, wireMsg)
    /\ UNCHANGED <<wireType, wireMsg, wireCut, wireHidden, wireGot>>

(* Unmarshal at the receiver: of everything, of what arrived before the
   connection or the file broke off, or by a reader of another version. *)
Receive(cut, hidden) ==
    /\ wireStep = "sent" /\ wireStep' = "read"
    /\ wireCut' = cut /\ wireHidden' = hidden
    /\ LET r == Unmarshal(wireType, hidden, SubSeq(wireData, 1, cut))
       IN  wireGot' = IF r.ok THEN <<r.v>> ELSE <<>>
    /\ UNCHANGED <<wireType, wireMsg, wireData>>

Next ==
    \/ Marshal
    \/ \E cut \in 0..Len(wireData) : Receive(cut, 0)
    \/ \E i \in DOMAIN UnmarshalTable[wireType] :
          Receive(Len(wireData), UnmarshalTable[wireType][i][1])

-----------------------------------------------------------------------------
(* What a reader that does not know field `hidden` should see of m. *)
Without(T, m, hidden) ==
    [f \in DOMAIN m |->
       IF \E r \in Range(UnmarshalTable[T]) : r[1] = hidden /\ r[2] = f THEN Zero(T)[f] ELSE m[f]]

(* The buffer that Marshal allocates with Size is filled to the last byte, and
   Unmarshal of it gives the message back: zero values, negative integers,
   empty and long strings, messages in messages, oneofs and maps included.  A
   reader that lacks one of the fields skips it and gets all of the others. *)
WireRoundTrip ==
    /\ wireStep # "value" => Len(wireData) = Size(wireType, wireMsg)
    /\ wireStep = "read" /\ wireCut = Len(wireData) =>
          wireGot = <<Without(wireType, wireMsg, wireHidden)>>

(* Bytes that were cut off are refused, unless the cut is between two fields
   of the outermost message: what is accepted is then what was written before
   the cut, and nothing of a field is made up from a part of it. *)
CutIsNoticed ==
    wireStep = "read" /\ wireHidden = 0 /\ wireGot # <<>> =>
        MarshalTo(wireType, wireGot[1]) = SubSeq(wireData, 1, wireCut)
=============================================================================
