------------------------------ MODULE Utilities -------------------------------
(***************************************************************************)
(* The conversions and the random numbers that games rely on for           *)
(* consensus, as operators: base64, hex strings of hashes, numbers as      *)
(* bytes, amounts, compressed JSON, the checks on protocol buffers, and    *)
(* class Random.  A byte is a number, a string a sequence of characters; a *)
(* base64 character is its value, a hex digit too.                         *)
(***************************************************************************)
EXTENDS Integers, Sequences, SequencesExt, FiniteSets, FiniteSetsExt

CONSTANTS NumBytes,       \* bytes of a uint256
          COIN,           \* satoshi of a ROD
          MAX_ROD_AMOUNT, \* in satoshi
          PRECISION,      \* bits of the significand of a double
          WordSize,       \* number of values of the word that NextInt draws
          HashOf(_, _),   \* SHA-256 of a seed, <<>> at first, and what is hashed with it
          SeedByte(_, _)  \* byte of a seed at an index

VARIABLE sample     \* what the operators are tried on: <<what, value>>

\* Any number of satoshi up to the limit is a double.
ASSUME UtilitiesAssumption ==
    /\ {NumBytes, WordSize, COIN, MAX_ROD_AMOUNT, PRECISION} \subseteq Nat \ {0}
    /\ MAX_ROD_AMOUNT < 2^PRECISION /\ MAX_ROD_AMOUNT % COIN = 0

Failed == [result |-> "false"]
Aborted == [result |-> "abort"]
Ok(data) == [result |-> "true", data |-> data]

----------------------------------------------------------------------------
(* Base64.                                                                 *)

BYTE == 256
DIGIT == 64
PAD == 64               \* the character "="
INVALID == 65           \* any other character

\* Byte i of data, 0 after its end.
ByteAt(data, i) == IF i <= Len(data) THEN data[i] ELSE 0

\* EVP_EncodeBlock: four characters for three bytes, the last ones padded.
EncodeBase64(data) ==
    [i \in 1..(4 * ((Len(data) + 2) \div 3)) |->
        LET q == (i - 1) \div 4
            k == (i - 1) % 4
            v == (ByteAt(data, 3 * q + 1) * BYTE + ByteAt(data, 3 * q + 2)) * BYTE
                 + ByteAt(data, 3 * q + 3)
        IN  IF k > Len(data) - 3 * q THEN PAD
            ELSE (v \div DIGIT^(3 - k)) % DIGIT]

\* EVP_DecodeBlock, which takes padding for zeros.
DecodeBlock(encoded) ==
    [i \in 1..(3 * (Len(encoded) \div 4)) |->
        LET q == (i - 1) \div 3
            k == (i - 1) % 3
            c == [j \in 1..4 |-> encoded[4 * q + j] % DIGIT]
            v == ((c[1] * DIGIT + c[2]) * DIGIT + c[3]) * DIGIT + c[4]
        IN  (v \div BYTE^(2 - k)) % BYTE]

StripPadding(data, padding) ==
    IF data = <<>> THEN Ok(data)
    ELSE IF padding >= Len(data) THEN Aborted
    ELSE Ok(SubSeq(data, 1, Len(data) - padding))

DecodeBase64(encoded) ==
    LET pads == {i \in DOMAIN encoded : encoded[i] = PAD}
        atEnd == \A i \in pads, j \in DOMAIN encoded : j > i => j \in pads
    IN  IF Len(encoded) % 4 # 0 \/ ~atEnd \/ Cardinality(pads) >= 4
           \/ INVALID \in ToSet(encoded)
        THEN Failed
        ELSE StripPadding(DecodeBlock(encoded), Cardinality(pads))

----------------------------------------------------------------------------
(* Hex strings of uint256: digits 0..15, the upper-case ones 26..31.       *)

ToHex(bytes) ==
    [i \in 1..(2 * NumBytes) |->
        IF i % 2 = 1 THEN bytes[(i + 1) \div 2] \div 16 ELSE bytes[i \div 2] % 16]

ParseHexDigit(digit) ==
    IF digit \in 0..15 THEN digit ELSE IF digit \in 26..31 THEN digit - 16 ELSE -1

FromHex(hex) ==
    IF Len(hex) # 2 * NumBytes \/ \E i \in DOMAIN hex : ParseHexDigit(hex[i]) = -1
    THEN Failed
    ELSE Ok([i \in 1..NumBytes |-> 16 * ParseHexDigit(hex[2 * i - 1]) + ParseHexDigit(hex[2 * i])])

----------------------------------------------------------------------------
(* Numbers: heights before the undo data of LMDB, sequence numbers of ZMQ. *)

UNDO_HEIGHT_BYTES == 4

\* The most significant byte first; the CHECK is that nothing is left over.
EncodeUnsigned(num) ==
    [i \in 1..UNDO_HEIGHT_BYTES |-> (num \div BYTE^(UNDO_HEIGHT_BYTES - i)) % BYTE]

DecodeUnsigned(bytes) ==
    FoldLeft(LAMBDA num, i : num * BYTE + bytes[i], 0, [i \in 1..UNDO_HEIGHT_BYTES |-> i])

\* The value stored for undo data, and what ValueToString makes of it.
UndoValue(height, undo) == EncodeUnsigned(height) \o undo
ValueToString(value, stripBytes) ==
    IF Len(value) < stripBytes THEN Aborted ELSE Ok(SubSeq(value, stripBytes + 1, Len(value)))

\* The three parts of a ZMQ message; the sequence number has its least
\* significant byte first.
ReceiveMultiparts(parts) ==
    IF Len(parts) # 3 \/ Len(parts[Len(parts)]) # 4 THEN Aborted
    ELSE Ok([topic |-> parts[1], payload |-> parts[2],
             seq |-> FoldLeft(LAMBDA seq, i : seq * BYTE + parts[3][4 - i], 0, <<0, 1, 2, 3>>)])

----------------------------------------------------------------------------
(* Amounts, in doubles: the fraction num / den of a double has a power of  *)
(* two as den, and num has at most PRECISION bits.                         *)

\* The last bit of a double counts 2^-LastBit(num, den).  Numbers too small to
\* tell amounts apart keep fewer bits here; those from 2^PRECISION on, which no
\* amount is, keep more.
LastBit(num, den) == Max({0} \cup {e \in 1..2 * PRECISION : num * 2^e < 2^PRECISION * den})

\* The double nearest to num / den, of two of them the even one.
ToDouble(num, den) ==
    LET unit == 2^LastBit(IF num < 0 THEN -num ELSE num, den)
        down == (num * unit) \div den
        rest == 2 * ((num * unit) % den)
    IN  [num |-> IF rest > den \/ (rest = den /\ down % 2 = 1) THEN down + 1 ELSE down,
         den |-> unit]

\* Halves are rounded away from zero, for what is not negative.
LLRound(x) == (2 * x.num + x.den) \div (2 * x.den)

IsIntegerValue(val) == val.type \in {"int", "uint"}

\* isDouble holds for integers as well.  A value is a number of ROD.
ChiAmountFromJson(val) ==
    LET rod  == ToDouble(val.num, val.den)
        dval == ToDouble(rod.num * COIN, rod.den)
    IN  IF ~(IsIntegerValue(val) \/ val.type = "real") THEN Failed
        ELSE IF dval.num < 0 \/ dval.num > MAX_ROD_AMOUNT * dval.den THEN Failed
        ELSE IF LLRound(dval) \notin 0..MAX_ROD_AMOUNT THEN Aborted
        ELSE Ok(LLRound(dval))

\* The CHECK is that sat is not negative.
ChiAmountToJson(sat) ==
    LET rod == ToDouble(sat, COIN) IN [type |-> "real", num |-> rod.num, den |-> rod.den]

----------------------------------------------------------------------------
(* Protocol buffers.  A message has unknown fields of its own or not, may  *)
(* have the field that only a later version knows, and nested messages.    *)

RECURSIVE HasAnyUnknownFields(_)
HasAnyUnknownFields(msg) ==
    msg.unknown \/ \E i \in DOMAIN msg.nested : HasAnyUnknownFields(msg.nested[i])

\* The nested messages of a StateProof are initial_state and the transitions,
\* the only one of a transition that matters here is its new_state.
CheckProtoVersion(proof) ==
    /\ ~proof.nested[1].testing
    /\ \A i \in 2..Len(proof.nested) : ~proof.nested[i].nested[1].testing

CheckVersionedProto(proof) == ~HasAnyUnknownFields(proof) /\ CheckProtoVersion(proof)

\* ProtoBoardRules and ProtoBoardState on serialised data, which may fail to
\* parse and to be valid.
ParseState(data) ==
    IF data.parses /\ ~HasAnyUnknownFields(data.msg) /\ data.valid THEN Ok(data.value) ELSE Failed

BoardEquals(value, other) ==
    other.parses /\ ~HasAnyUnknownFields(other.msg) /\ other.value = value

\* apply is what the game makes of the parsed move: a result.
ApplyProtoMove(data, apply) ==
    IF data.parses /\ ~HasAnyUnknownFields(data.msg) THEN apply ELSE Failed

----------------------------------------------------------------------------
(* Compression.  A deflate stream is abstracted to what inflate tells      *)
(* apart: its format, its data and the number of bytes that follow it.     *)

CompressData(data) == [format |-> "raw", data |-> data, extra |-> 0]

UncompressData(input, maxOutputSize) ==
    IF input.format # "raw" \/ Len(input.data) > maxOutputSize THEN Failed
    ELSE IF input.extra # 0 THEN Aborted ELSE Ok(input.data)

\* A JSON value is its serialised form with its type and depth.
CompressJson(val) ==
    IF val.type \notin {"object", "array"} THEN Failed
    ELSE Ok([base64 |-> TRUE, stream |-> CompressData(val.text)])

\* parse is what the strict reader makes of a text: a value, or not valid.
UncompressJson(input, maxOutputSize, stackLimit, parse) ==
    IF ~input.base64 THEN Failed
    ELSE LET raw == UncompressData(input.stream, maxOutputSize)
         IN  IF raw.result # "true" THEN raw
             ELSE IF raw.data \notin DOMAIN parse \/ parse[raw.data].depth > stackLimit
                     \/ parse[raw.data].type \notin {"object", "array"}
             THEN Failed
             ELSE Ok(parse[raw.data])

----------------------------------------------------------------------------
(* Random.                                                                 *)

Seed(s) == [seed |-> s, nextIndex |-> 0]

\* Next<unsigned char>: the byte, and the generator after it.
NextByte(r) == SeedByte(r.seed, r.nextIndex)
AfterByte(r) ==
    IF r.nextIndex + 1 = NumBytes THEN Seed(HashOf(r.seed, <<>>)) ELSE [r EXCEPT !.nextIndex = @ + 1]

AfterBytes(r, n) == FoldLeft(LAMBDA g, i : AfterByte(g), r, [i \in 1..n |-> i])

\* Next<uint16_t>: CombineHalfInts of two bytes, the first one the higher.
NextPair(r) == NextByte(r) * BYTE + NextByte(AfterByte(r))

BranchOff(r, key) == Seed(HashOf(r.seed, <<r.nextIndex, key>>))

\* The number that NextInt makes of a word, -1 when it draws another one.
NextIntLimit(n) == ((WordSize - 1) \div n) * n


NextInt(x, n) == IF x < NextIntLimit(n) THEN x % n ELSE -1

ProbabilityRoll(roll, numer) == roll < numer

\* The first option up to which the weights exceed the roll.
SumUpTo(weights, i) == FoldLeft(+, 0, SubSeq(weights, 1, i))
SelectByWeight(weights, roll) ==
    CHOOSE i \in DOMAIN weights : /\ roll < SumUpTo(weights, i)
                                  /\ roll >= SumUpTo(weights, i - 1)

\* ShuffleN with roll i for position i.
Swapped(s, i, j) == [s EXCEPT ![i] = s[j], ![j] = s[i]]
Shuffle(s, rolls) == FoldLeft(LAMBDA t, i : Swapped(t, i, i + rolls[i]), s, [i \in DOMAIN rolls |-> i])

----------------------------------------------------------------------------
(* Properties of the operators on one sample.                              *)

\* What an encoder produces the decoder takes back, for data of every length
\* modulo three; a decoded string means the same when encoded again, hex
\* strings are exact, and what CompressJson encodes is read again if and only
\* if it fits the limits (DecodeBase64, FromHex, UncompressJson).
DecodesBack(data) ==
    /\ DecodeBase64(EncodeBase64(data)) = Ok(data)
    /\ Len(data) = NumBytes => FromHex(ToHex(data)) = Ok(data)
    /\ \A max \in 0..3, depth \in 1..2, limit \in 1..2 :
          LET val == [type |-> "object", text |-> data, depth |-> depth]
          IN  UncompressJson(CompressJson(val).data, max, limit, [t \in {data} |-> val])
              = IF Len(data) <= max /\ depth <= limit THEN Ok(val) ELSE Failed

\* What is accepted without being an encoder's output means one string.  One
\* kind of malformed input is not refused, as base64.hpp:20-22 has it, but
\* fails a CHECK (base64.cpp:99): a single block of which three characters are
\* padding; and no other does.
StrictlyDecoded(encoded) ==
    LET d == DecodeBase64(encoded)
    IN  /\ d.result = "true" => DecodeBase64(EncodeBase64(d.data)) = d
        /\ d.result = "abort" <=> /\ Len(encoded) = 4
                                  /\ encoded[1] < DIGIT
                                  /\ \A i \in 2..4 : encoded[i] = PAD

\* Only what the compressor makes of data that fits is decompressed.  The same
\* followed by other bytes is not refused, as compression.hpp:33-34 has it, but
\* fails a CHECK (compression.cpp:63); and nothing else does.
OnlyCompressedTaken(stream, max) ==
    LET u == UncompressData(stream, max)
        alone == [stream EXCEPT !.extra = 0]
    IN  /\ u.result = "true" => Len(u.data) <= max /\ stream = CompressData(u.data)
        /\ u.result = "abort" <=> stream # alone /\ UncompressData(alone, max).result = "true"
        /\ CompressData(stream.data) = stream /\ Len(stream.data) <= max => u = Ok(stream.data)

\* Random choices are unbiased: every result of NextInt comes from equally
\* many words, ProbabilityRoll succeeds for numer of denom rolls, each option
\* is selected by as many rolls as it has weight, and the rolls of a shuffle
\* and the orders it leads to correspond one to one.  The bytes are those of
\* the chain of hashes in order, and generators branched off at different
\* places differ.
RollsAreFair(n) ==
    /\ \A k \in 0..(n - 1) :
          /\ Cardinality({x \in 0..(WordSize - 1) : NextInt(x, n) = k}) = (WordSize - 1) \div n
          /\ Cardinality({roll \in 0..(n - 1) : ProbabilityRoll(roll, k)}) = k
    /\ \A w \in [1..3 -> 0..n] : SumUpTo(w, 3) > 0 =>
          \A i \in 1..3 : Cardinality({roll \in 0..(SumUpTo(w, 3) - 1) :
                                          SelectByWeight(w, roll) = i}) = w[i]
    /\ n <= 4 =>
          LET rolls == {r \in [1..n -> 0..(n - 1)] : \A i \in 1..n : r[i] <= n - i}
              start == [i \in 1..n |-> i]
          IN  Cardinality({Shuffle(start, r) : r \in rolls}) = Cardinality(rolls)
    /\ LET hashes[k \in Nat] == IF k = 0 THEN <<>> ELSE HashOf(hashes[k - 1], <<>>)
           byte(i) == SeedByte(hashes[i \div NumBytes], i % NumBytes)
       IN  /\ NextPair(AfterBytes(Seed(<<>>), n)) = byte(n) * BYTE + byte(n + 1)
           /\ \A i \in 0..(n - 1) : BranchOff(AfterBytes(Seed(<<>>), i), "k")
                                     # BranchOff(AfterBytes(Seed(<<>>), n), "k")

\* Numbers survive their conversion, and what is not one of them is refused:
\* the height of undo data up to 31 bits, and ZMQ sequence numbers.
NumbersKept(n, undo) ==
    /\ DecodeUnsigned(UndoValue(n, undo)) = n
    /\ ValueToString(UndoValue(n, undo), UNDO_HEIGHT_BYTES) = Ok(undo)
    /\ LET parts == <<<<1>>, undo, Reverse(EncodeUnsigned(n))>>
       IN  /\ ReceiveMultiparts(parts) = Ok([topic |-> <<1>>, payload |-> undo, seq |-> n])
           /\ ReceiveMultiparts(Append(parts, <<>>)) = Aborted
           /\ ReceiveMultiparts(Front(parts)) = Aborted

\* A number of satoshi is kept by ChiAmountToJson and ChiAmountFromJson if
\* doubles near that number of ROD are at most half a satoshi apart (that is
\* below 2^25 ROD), and is at most one satoshi off otherwise, the order of
\* amounts being kept; it is refused exactly above the limit.  Integers are
\* whole ROD; the limit itself is all that a smaller excess than a satoshi may
\* pass for, and negative amounts are refused.
AmountsKept(n) ==
    LET back(sat) == ChiAmountFromJson(ChiAmountToJson(sat))
        parsed(type, num, den) == ChiAmountFromJson([type |-> type, num |-> num, den |-> den])
        fine == 2 * COIN <= 2^LastBit(n, COIN)
    IN  /\ IF n > MAX_ROD_AMOUNT THEN back(n) = Failed
           ELSE /\ back(n).result = "true"
                /\ back(n).data \in IF fine THEN {n} ELSE n - 1..n + 1
                /\ n > 0 => back(n - 1).data <= back(n).data
        /\ parsed("int", n, 1) = IF n * COIN <= MAX_ROD_AMOUNT THEN Ok(n * COIN) ELSE Failed
        /\ parsed("int", -n - 1, 1) = Failed /\ parsed("real", -n - 1, 10 * COIN) = Failed
        /\ parsed("string", n, 1) = Failed
        /\ LET over == parsed("real", 10 * MAX_ROD_AMOUNT + n, 10 * COIN)
           IN  IF n >= 10 THEN over = Failed ELSE over \in {Ok(MAX_ROD_AMOUNT), Failed}

\* A state proof passes only if nothing in it, at any depth, could mean
\* something to another version: so nobody can add to a proof what changes its
\* hash or is understood by only some of the players.
NothingUnknownPasses(proof) ==
    CheckVersionedProto(proof) <=>
        LET parts == {proof.nested[i] : i \in DOMAIN proof.nested}
            states == {proof.nested[1]}
                      \cup {proof.nested[i].nested[1] : i \in 2..Len(proof.nested)}
        IN  /\ ~proof.unknown
            /\ \A m \in parts \cup states : ~m.unknown
            /\ \A m \in states : ~m.testing

\* A board state or move is taken for what it says, or not at all, and equal
\* states are those that parse to the same.
BoardsTaken(data, other) ==
    /\ ParseState(data).result = "true" => /\ BoardEquals(data.value, data)
                                            /\ ApplyProtoMove(data, Ok(1)) = Ok(1)
    /\ BoardEquals(data.value, other) /\ other.valid => ParseState(other) = Ok(data.value)

\* The above, for the sample at hand.
UtilitiesRight ==
    CASE sample[1] = "data"    -> DecodesBack(sample[2])
      [] sample[1] = "encoded" -> StrictlyDecoded(sample[2])
      [] sample[1] = "range"   -> RollsAreFair(sample[2])
      [] sample[1] = "stream"  -> OnlyCompressedTaken(sample[2], sample[3])
      [] sample[1] = "number"  -> NumbersKept(sample[2], <<7>>)
      [] sample[1] = "amount"  -> AmountsKept(sample[2])
      [] sample[1] = "proof"   -> NothingUnknownPasses(sample[2])
      [] sample[1] = "boards"  -> BoardsTaken(sample[2], sample[3])
      [] OTHER -> TRUE
=============================================================================
