------------------------------- MODULE Binary -------------------------------
(***************************************************************************)
(* binary_parse: how a value of each kind is written to a buffer and read  *)
(* back on the other side of a connection.  A byte carries Group bits of a *)
(* number and one bit that says whether more follow; in the code Group is  *)
(* 7 and the widths of int16_t, int32_t (int) and uint64_t are 16, 32 and  *)
(* 64.  The widths are constants so that every number of a width can be    *)
(* tried.                                                                  *)
(***************************************************************************)
EXTENDS Integers, Sequences, FiniteSets, SequencesExt

CONSTANTS
    Group,      \* payload bits of a byte
    Short, Word, Long, \* bits of int16_t, of int and int32_t, of int64_t
    Texts,      \* strings: sequences of bytes
    Lists,      \* vectors of uint64_t
    TextLists,  \* vectors of strings
    Maps,       \* maps from uint64_t to uint64_t
    FixedSize,  \* bytes of a fixed32 or fixed64
    Samples     \* the fixed-size values tried

ASSUME BinaryAssumption ==
    /\ Group \in Nat \ {0} /\ FixedSize \in Nat
    /\ 1 < Short /\ Short < Word /\ Word < Long
    /\ \A v \in Samples : Len(v) = FixedSize

More == 2^Group
Width == [short |-> Short, int |-> Word, long |-> Long]
Signed(w) == -(2^(w - 1))..(2^(w - 1) - 1)
Unsigned(w) == 0..(2^w - 1)

Values(kind) ==
    CASE kind = "uint" -> Unsigned(Long)
      [] kind = "uint32" -> Unsigned(Word)
      [] kind = "bool" -> BOOLEAN
      [] kind = "strings" -> TextLists
      [] kind = "string" -> Texts
      [] kind = "repeated" -> Lists
      [] kind = "map" -> Maps
      [] kind = "fixed" -> Samples
      [] OTHER -> Signed(Width[kind])

(* x in w bits, two's complement.                                          *)
Wrap(x, w) == ((x + 2^(w - 1)) % 2^w) - 2^(w - 1)

-----------------------------------------------------------------------------
(* to_datas of an unsigned integer: low bits first.                        *)
to_uint(n) ==
    LET varint[k \in Nat] ==
            IF k >= More THEN <<(k % More) + More>> \o varint[k \div More] ELSE <<k>>
    IN  varint[n]

(* Faulty: the sign is not folded in.                                      *)
zigzag_unsigned(v, w) == Wrap(2 * v, IF w < Word THEN Word ELSE w) % 2^Long

(* to_datas of a signed integer of w bits: (value << 1) ^ (value >> (w-1)) *)
(* is computed in int, or in the wider type, and then becomes a uint64_t.  *)
zigzag(v, w) ==
    LET shifted == Wrap(2 * v, IF w < Word THEN Word ELSE w)
    IN  (IF v < 0 THEN -shifted - 1 ELSE shifted) % 2^Long

Keys(f) == SetToSortSeq(DOMAIN f, <)

to_datas(kind, v) ==
    CASE kind \in {"uint", "uint32"} -> to_uint(v)
      [] kind = "bool" -> <<IF v THEN 1 ELSE 0>>
      [] kind = "string" -> to_uint(Len(v)) \o v
      [] kind = "strings" ->
            to_uint(Len(v)) \o FlattenSeq([i \in DOMAIN v |-> to_uint(Len(v[i])) \o v[i]])
      [] kind = "repeated" ->
            to_uint(Len(v)) \o FlattenSeq([i \in DOMAIN v |-> to_uint(v[i])])
      [] kind = "map" ->
            LET Entries(keys) == [i \in DOMAIN keys |-> to_uint(keys[i]) \o to_uint(v[keys[i]])]
            IN  to_uint(Cardinality(DOMAIN v)) \o FlattenSeq(Entries(Keys(v)))
      [] kind = "fixed" -> v
      [] OTHER -> to_uint(zigzag(v, Width[kind]))

-----------------------------------------------------------------------------
(* What a read returns: whether it threw out_of_range, the value, and the  *)
(* bytes it leaves.                                                        *)
Threw(rest) == [ok |-> FALSE, value |-> <<>>, rest |-> rest]
Got(v, rest) == [ok |-> TRUE, value |-> v, rest |-> rest]

(* The number the first n bytes of b stand for, and where it ends.         *)
Number(b, n) ==
    LET sum[i \in 0..n] ==
            IF i = 0 THEN 0 ELSE sum[i - 1] + (b[i] % More) * 2^(Group * (i - 1))
    IN  sum[n] % 2^Long
Ends(b) == {i \in DOMAIN b : b[i] < More}
End(b) == CHOOSE i \in Ends(b) : \A j \in Ends(b) : i <= j

(* The number in the first n bytes of b.                                   *)
First(b, n) == Got(Number(b, n), SubSeq(b, n + 1, Len(b)))

(* Faulty: a number cut short is taken for complete.                       *)
from_uint_lenient(b) == First(b, IF Ends(b) = {} THEN Len(b) ELSE End(b))

(* from_datas of an unsigned integer; it eats what it read when it throws. *)
from_uint(b) == IF Ends(b) = {} THEN Threw(<<>>) ELSE First(b, End(b))

(* (temp >> 1) ^ -(temp & 1) in 64 bits, cast to w bits.                   *)
unzigzag(t, w) ==
    Wrap(IF t % 2 = 1 THEN 2^Long - 1 - (t \div 2) ELSE t \div 2, w)

from_signed(b, w) ==
    LET Narrowed(n) == IF n.ok THEN Got(unzigzag(n.value, w), n.rest) ELSE n
    IN  Narrowed(from_uint(b))

(* A string that is cut short is filled up with zeros and does not throw.  *)
from_string(b) ==
    LET Text(n) ==
            IF ~n.ok THEN n
            ELSE Got([i \in 1..n.value |-> IF i <= Len(n.rest) THEN n.rest[i] ELSE 0],
                     SubSeq(n.rest, n.value + 1, Len(n.rest)))
    IN  Text(from_uint(b))

(* count items of a kind, one after the other.                             *)
from_item(kind, b) == IF kind = "string" THEN from_string(b) ELSE from_uint(b)

from_items(kind, b, count) ==
    LET Add(items, n) ==
            IF ~items.ok THEN items
            ELSE IF ~n.ok THEN Threw(n.rest)
            ELSE Got(Append(items.value, n.value), n.rest)
        step[i \in 0..count] ==
            IF i = 0 THEN Got(<<>>, b) ELSE Add(step[i - 1], from_item(kind, step[i - 1].rest))
    IN  step[count]

from_repeated(kind, b) ==
    LET Items(n) == IF n.ok THEN from_items(kind, n.rest, n.value) ELSE n
    IN  Items(from_uint(b))

(* The last of two entries with the same key stays: value[first] = second. *)
from_map(b) ==
    LET Pairs(all, count) ==
            LET Key(i) == all.value[2 * i - 1]
                Latest(k) == Max({i \in 1..count : Key(i) = k})
            IN  IF ~all.ok THEN all
                ELSE Got([k \in {Key(i) : i \in 1..count} |-> all.value[2 * Latest(k)]], all.rest)
        Entries(n) == IF n.ok THEN Pairs(from_items("uint", n.rest, 2 * n.value), n.value) ELSE n
    IN  Entries(from_uint(b))

(* A bool is read as a pod: a buffer that is too short is left alone.      *)
from_bool(b) == IF b = <<>> THEN Threw(b) ELSE Got(b[1] # 0, Tail(b))

(* A fixed value eats what there is before it throws.                      *)
from_fixed(b) ==
    IF Len(b) < FixedSize THEN Threw(<<>>)
    ELSE Got(SubSeq(b, 1, FixedSize), SubSeq(b, FixedSize + 1, Len(b)))

(* Sums in 32 bits, so modulo 2^32.                                        *)
from_uint32(b) ==
    LET Narrowed(n) == IF n.ok THEN Got(n.value % 2^Word, n.rest) ELSE n
    IN  Narrowed(from_uint(b))

from_datas(kind, b) ==
    CASE kind = "uint" -> from_uint(b)
      [] kind = "uint32" -> from_uint32(b)
      [] kind = "bool" -> from_bool(b)
      [] kind = "string" -> from_string(b)
      [] kind = "strings" -> from_repeated("string", b)
      [] kind = "repeated" -> from_repeated("uint", b)
      [] kind = "map" -> from_map(b)
      [] kind = "fixed" -> from_fixed(b)
      [] OTHER -> from_signed(b, Width[kind])

=============================================================================
