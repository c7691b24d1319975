------------------------------- MODULE TuyaTools ------------------------------
(***************************************************************************)
(* include/utilities/src/tuya_tools.c: strings, digits, sorting, bits and  *)
(* checksums.  The functions keep no state; one caller calls them with any *)
(* input of small sets, and the last call with its answer is kept.         *)
(*                                                                         *)
(* A character is its code; a string ends with 0.  Each loop is a function *)
(* of its counter.  The wrappers of strlen, strcpy and strcat are left     *)
(* out.                                                                    *)
(***************************************************************************)
EXTENDS Integers, SequencesExt
LOCAL INSTANCE Bitwise

CONSTANTS Chars,     \* codes strings and digit strings are made of
          Octets,    \* values of uint8_t in buffers
          MaxChars,  \* bound: characters of a string
          MaxLen,    \* bound: bytes of a buffer
          WordBits   \* width of uint32_t (32)

VARIABLES fn,    \* function called last, "none" before the first call
          arg,   \* its arguments
          ret    \* its answer

toolvars == <<fn, arg, ret>>

Word == 2^WordBits
Upto(S, n) == UNION {[1..k -> S] : k \in 0..n}
Strings == {Append(s, 0) : s \in Upto(Chars, MaxChars)}
Buffers == Upto(Octets, MaxLen)
Numbers == 0..(Word - 1)

-------------------------------------------------------------------------------
(* Strings *)

TOLOWER(c) == IF 65 <= c /\ c <= 90 THEN c + 32 ELSE c

(* s1 and s2 are different arrays; cnt characters were equal so far. *)
tuya_strncasecmp(s1, s2, n) ==
    LET From[cnt \in 0..(Len(s1) - 1)] ==
          LET result == TOLOWER(s1[cnt + 1]) - TOLOWER(s2[cnt + 1])
          IN  IF result # 0 THEN result
              ELSE IF cnt + 1 >= n THEN 0
              ELSE IF s1[cnt + 1] = 0 THEN -1
              ELSE IF s2[cnt + 1] = 0 THEN 1
              ELSE From[cnt + 1]
    IN  From[0]

tuya_strcmp(src, dst) ==
    LET From[k \in DOMAIN src] ==
          IF src[k] = dst[k] /\ dst[k] # 0 THEN From[k + 1] ELSE src[k] - dst[k]
        d == From[1]
    IN  IF d < 0 THEN -1 ELSE IF d > 0 THEN 1 ELSE 0

(* index counts from the end of the string. *)
tuya_find_char_with_reverse_idx(str, index, ch) ==
    LET len == Len(str) - 1
        Down[i \in -1..(len - 1)] ==
          IF i < 0 THEN -2 ELSE IF str[i + 1] = ch THEN i ELSE Down[i - 1]
    IN  IF index >= len THEN -1 ELSE Down[len - 1 - index]

-------------------------------------------------------------------------------
(* Digits *)

tuya_asc2hex(asccode) ==
    CASE asccode \in 48..57 -> asccode - 48
      [] asccode \in 97..102 -> asccode - 97 + 10
      [] asccode \in 65..70 -> asccode - 65 + 10
      [] OTHER -> 0

tuya_ascs2hex(ascs) ==
    [i \in 1..(Len(ascs) \div 2) |->
        16 * tuya_asc2hex(ascs[2 * i - 1]) + tuya_asc2hex(ascs[2 * i])]

tuya_hex2str(hex) ==
    LET Digit(d) == IF 48 + d > 57 THEN 48 + d + 7 ELSE 48 + d
    IN  Append([k \in 1..(2 * Len(hex)) |->
                   LET octet == hex[(k + 1) \div 2]
                   IN  Digit(IF k % 2 = 1 THEN octet \div 16 ELSE octet % 16)], 0)

(* The number, or -1 when the answer is FALSE and *number stays. *)
tuya_str2num(str) ==
    LET Value[i \in 0..Len(str)] ==
          IF i = 0 THEN 0 ELSE (Value[i - 1] * 10 + (str[i] - 48)) % Word
    IN  IF \A i \in DOMAIN str : str[i] \in 48..57 THEN Value[Len(str)] ELSE -1

(* The loop at index 0, where it reads the len digits of the array. *)
tuya_intArray2int(intArray) ==
    LET num[i \in 0..Len(intArray)] ==
          IF i = 0 THEN 0 ELSE (num[i - 1] * 10 + intArray[i]) % Word
    IN  IF Len(intArray) = 0 THEN Word - 1 ELSE num[Len(intArray)]

Swapped(b, i, j) == [b EXCEPT ![i] = b[j], ![j] = b[i]]

tuya_buff_reverse(buf) ==
    LET After[i \in 0..(Len(buf) \div 2)] ==
          IF i = 0 THEN buf ELSE Swapped(After[i - 1], i, Len(buf) + 1 - i)
    IN  After[Len(buf) \div 2]

tuya_data_reverse(src) == [i \in DOMAIN src |-> src[Len(src) + 1 - i]]

(* The digits stored in an array of len; none when they do not fit. *)
tuya_int2intArray(num, len) ==
    LET Count[tmp \in 0..num] == IF tmp < 10 THEN 1 ELSE 1 + Count[tmp \div 10]
        Digits[tmp \in 0..num] ==
          IF tmp = 0 THEN <<>> ELSE <<tmp % 10>> \o Digits[tmp \div 10]
    IN  IF len < Count[num] THEN <<>> ELSE tuya_buff_reverse(Digits[num])

-------------------------------------------------------------------------------
(* Sorting, bits and checksums *)

(* Round j compares neighbours up to len - j. *)
tuya_byte_sort(is_ascend, buf) ==
    LET OutOfOrder(x, y) == IF is_ascend THEN x > y ELSE x < y
        Round(b, j) ==
          LET Upward[i \in 0..(Len(b) - j)] ==
                IF i = 0 THEN b
                ELSE LET d == Upward[i - 1]
                     IN  IF OutOfOrder(d[i], d[i + 1]) THEN Swapped(d, i, i + 1) ELSE d
          IN  Upward[Len(b) - j]
        Rounds[j \in 0..Len(buf)] == IF j = 0 THEN buf ELSE Round(Rounds[j - 1], j)
    IN  Rounds[IF Len(buf) = 0 THEN 0 ELSE Len(buf) - 1]

tuya_bit1_count(num) ==
    LET count[n \in Numbers] == IF n = 0 THEN 0 ELSE 1 + count[n & (n - 1)]
    IN  count[num]

tuya_leading_zeros_count(num) ==
    LET count[temp \in Numbers] ==
          IF 2 * temp >= Word THEN 1 + count[(2 * temp) % Word] ELSE 0
    IN  count[Word - 1 - num]

tuya_check_sum8(buf) == FoldSeq(LAMBDA x, sum : (sum + x) % 2^8, 0, buf)
tuya_check_sum16(buf) == FoldSeq(LAMBDA x, sum : (sum + x) % 2^16, 0, buf)

-------------------------------------------------------------------------------
ToolsInit == fn = "none" /\ arg = <<>> /\ ret = 0

Call(f, a, r) == fn' = f /\ arg' = a /\ ret' = r

(* A comparison does not go past the ends of both strings; see AnyLength. *)
Compare(Limit(_, _)) ==
    \E s1, s2 \in Strings : \E n \in 1..Limit(s1, s2) :
        Call("strncasecmp", <<s1, s2, n>>, tuya_strncasecmp(s1, s2, n))

Shorter(s1, s2) == IF Len(s1) < Len(s2) THEN Len(s1) ELSE Len(s2)
AnyLength == Compare(LAMBDA s1, s2 : Shorter(s1, s2) + 1)

Text ==
    \/ Compare(Shorter)
    \/ \E s1, s2 \in Strings : Call("strcmp", <<s1, s2>>, tuya_strcmp(s1, s2))
    \/ \E s \in Strings, i \in 0..MaxChars, c \in Chars :
         Call("find", <<s, i, c>>, tuya_find_char_with_reverse_idx(s, i, c))
    \/ \E s \in Upto(Chars, MaxChars) : Call("str2num", <<s>>, tuya_str2num(s))

Data ==
    \/ \E b \in Buffers : Call("hex", <<b>>, tuya_ascs2hex(tuya_hex2str(b)))
    \/ \E b \in Buffers : Call("reverse", <<b>>, tuya_buff_reverse(b))
    \/ \E b \in Buffers, up \in BOOLEAN : Call("sort", <<up, b>>, tuya_byte_sort(up, b))
    \/ \E b \in Buffers :
         Call("sum", <<b>>, <<tuya_check_sum8(b), tuya_check_sum16(b)>>)
    \/ \E n \in Numbers, len \in 1..MaxLen :
         Call("digits", <<n, len>>, tuya_intArray2int(tuya_int2intArray(n, len)))
    \/ \E n \in Numbers :
         Call("bits", <<n>>, <<tuya_bit1_count(n), tuya_leading_zeros_count(n)>>)

(* The caller has used the answer. *)
Return == fn' = "none" /\ arg' = <<>> /\ ret' = 0

ToolsNext == IF fn = "none" THEN Text \/ Data ELSE Return

ToolsSpec == ToolsInit /\ [][ToolsNext]_toolvars

-------------------------------------------------------------------------------
(* Reference definitions and properties *)

(* How s compares with t where they first differ, up to their k-th item. *)
Order(s, t, k) ==
    LET D == {i \in 1..k : s[i] # t[i]}
    IN  IF D = {} THEN 0 ELSE IF s[Min(D)] < t[Min(D)] THEN -1 ELSE 1
Sign(x) == IF x < 0 THEN -1 ELSE IF x > 0 THEN 1 ELSE 0
Lower(s) == [i \in DOMAIN s |-> TOLOWER(s[i])]
Bit(n, i) == (n \div 2^i) % 2

StringsCompared ==
    /\ fn = "strncasecmp" => Sign(ret) = Order(Lower(arg[1]), Lower(arg[2]), arg[3])
    /\ fn = "strcmp" => ret = Order(arg[1], arg[2], Shorter(arg[1], arg[2]))
    /\ fn = "find" =>
         LET At == {i \in 1..(Len(arg[1]) - 1 - arg[2]) : arg[1][i] = arg[3]}
         IN  ret = IF arg[2] >= Len(arg[1]) - 1 THEN -1
                   ELSE IF At = {} THEN -2 ELSE Max(At) - 1

NumbersConverted ==
    /\ fn = "str2num" =>
         LET s == arg[1]
             Weighted(i) == (s[i] - 48) * 10^(Len(s) - i)
         IN  ret = IF \E i \in DOMAIN s : s[i] \notin 48..57 THEN -1
                   ELSE MapThenSumSet(Weighted, DOMAIN s) % Word
    /\ fn = "hex" => ret = arg[1]
    /\ fn = "digits" => ret \in {arg[1], Word - 1}
                        /\ (0 < arg[1] /\ arg[1] < 10^arg[2] => ret = arg[1])
    /\ fn = "bits" =>
         LET Ones == {i \in 0..(WordBits - 1) : Bit(arg[1], i) = 1}
         IN  ret = <<Cardinality(Ones),
                     IF Ones = {} THEN WordBits ELSE WordBits - 1 - Max(Ones)>>

BuffersRearranged ==
    /\ fn = "reverse" => ret = Reverse(arg[1]) /\ ret = tuya_data_reverse(arg[1])
    /\ fn = "sort" => LET up(x, y) == x < y
                          down(x, y) == x > y
                      IN  ret = IF arg[1] THEN SortSeq(arg[2], up) ELSE SortSeq(arg[2], down)
    /\ fn = "sum" =>
         LET total == MapThenSumSet(LAMBDA i : arg[1][i], DOMAIN arg[1])
         IN  ret = <<total % 2^8, total % 2^16>>

(* The functions agree with their reference definitions.  Comparisons do   *)
(* so up to and including the end of the shorter string.                   *)
ToolsMatchReference == StringsCompared /\ NumbersConverted /\ BuffersRearranged

(* tuya_strncasecmp answers 0 for equal strings, also for an n larger than *)
(* their length, as tuya_tools.h says.                                     *)
EqualIsZero ==
    fn = "strncasecmp" /\ Lower(arg[1]) = Lower(arg[2]) => ret = 0
===============================================================================
