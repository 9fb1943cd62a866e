-------------------------------- MODULE Text --------------------------------
(***************************************************************************)
(* The C library of the hypervisor: hypervisor/common/utils.c and memcpy() *)
(* of arch/aarch64/utils.S.  A string is an address in a small memory of   *)
(* character codes; a routine that writes is an operator from a memory to  *)
(* the memory it leaves, built from the stores of its loops in their       *)
(* order.                                                                  *)
(***************************************************************************)
EXTENDS Integers, Sequences
LOCAL INSTANCE SequencesExt
LOCAL INSTANCE FiniteSetsExt

CONSTANTS LAST,         \* the last address; it always holds a terminator
          ALPHABETS,    \* sets of character codes, 0 among them
          CHUNK,        \* bytes memcpy() moves at a time, 8 in the code
          ULONG,        \* 2^64 in the code
          NoMemory      \* before the memory is filled

ASSUME TextAssumption == /\ LAST \in Nat /\ CHUNK \in Nat \ {0}
                         /\ \A A \in ALPHABETS : A \subseteq 0 .. 127 /\ 0 \in A
                         /\ ULONG \in Nat /\ ULONG % 2 = 0

Addr == 0 .. LAST
\* Terminators follow, as far as the routines look.
Memory == 0 .. 2 * LAST + CHUNK

VARIABLE mem

-----------------------------------------------------------------------------
\* The iteration at which a loop of at most n iterations stops: n when Stop
\* holds in none.
FirstOf(n, Stop(_)) == Min({n} \cup {i \in 0 .. n - 1 : Stop(i)})

\* An unbounded loop, which ends at a terminator.
First(s, Stop(_)) == FirstOf(LAST - s + 1, Stop)

Upto(n) == [i \in 1 .. n |-> i - 1]

\* Stores, in the order of the offsets.
Copy(m, d, s, offsets) == FoldLeft(LAMBDA mm, i : [mm EXCEPT ![d + i] = mm[s + i]], m, offsets)
Fill(m, d, c, offsets) == FoldLeft(LAMBDA mm, i : [mm EXCEPT ![d + i] = c], m, offsets)

strlen(m, s) == First(s, LAMBDA i : m[s + i] = 0)
strnlen(m, s, n) == FirstOf(n, LAMBDA i : m[s + i] = 0)

strcpy(m, d, s) == Copy(m, d, s, Upto(strlen(m, s) + 1))
strncpy(m, d, s, n) ==
  LET k == strnlen(m, s, n)
  IN  Fill(Copy(m, d, s, Upto(k)), d + k, 0, Upto(n - k))

\* strncat() takes n characters whether or not the source ends before.
strncat(m, d, s, n) ==
  LET end == d + strlen(m, d)
  IN  Fill(Copy(m, end, s, Upto(n)), end + n, 0, Upto(1))
strcat(m, d, s) == strcpy(m, d + strlen(m, d), s)

memset(m, d, c, n) == Fill(m, d, c, Upto(n))

\* memcpy() moves whole chunks, past the end when n is no multiple of
\* them, and one when n is 0.
Chunks(n) == IF n = 0 THEN CHUNK ELSE ((n + CHUNK - 1) \div CHUNK) * CHUNK
memcpy(m, d, s, n) == Copy(m, d, s, Upto(Chunks(n)))

\* Mutant: the loop runs upwards although it starts at the last byte's addresses.
Backward_up(n) == Upto(n)
Backward(n) == Reverse(Upto(n))

memmove(m, d, s, n) ==
  IF s + n > d THEN Copy(m, d, s, Backward(n)) ELSE memcpy(m, d, s, n)

-----------------------------------------------------------------------------
isdigit(c) == c \in 48 .. 57
isspace(c) == c \in {32, 12, 10, 13, 9, 11}
toupper(c) == IF c \in 97 .. 122 THEN c - 32 ELSE c
tolower(c) == IF c \in 65 .. 90 THEN c + 32 ELSE c

strcmp(m, a, b) ==
  LET i == First(a, LAMBDA j : m[a + j] = 0 \/ m[a + j] # m[b + j]) IN m[a + i] - m[b + i]

strncmp(m, a, b, n) ==
  LET i == FirstOf(n, LAMBDA j : m[a + j] = 0 \/ m[a + j] # m[b + j])
  IN  IF i # n THEN m[a + i] - m[b + i] ELSE 0

memcmp(m, a, b, n) ==
  LET i == FirstOf(n, LAMBDA j : m[a + j] # m[b + j])
  IN  IF i = n THEN 0 ELSE m[a + i] - m[b + i]

strcasecmp(m, a, b) ==
  LET Lower(x) == tolower(m[x])
      i == First(a, LAMBDA j : Lower(a + j) = 0 \/ Lower(a + j) # Lower(b + j))
  IN  Lower(a + i) - Lower(b + i)

\* Mutant: characters that differ in case end the loop.
Ends_case(c, d) == c = 0 \/ d = 0 \/ c # d
Ends(c, d) == c = 0 \/ d = 0 \/ tolower(c) # tolower(d)

\* Both characters are lowered only after neither ends its string.
strncasecmp(m, a, b, n) ==
  LET i == FirstOf(n, LAMBDA j : Ends(m[a + j], m[b + j]))
      c == m[a + i]
      d == m[b + i]
  IN  IF i = n THEN 0 ELSE IF c = 0 \/ d = 0 THEN c - d ELSE tolower(c) - tolower(d)

NULL == -1
memchr(m, s, c, n) ==
  LET i == FirstOf(n, LAMBDA j : m[s + j] = c) IN IF i = n THEN NULL ELSE s + i
strchr(m, s, c) ==
  LET i == First(s, LAMBDA j : m[s + j] \in {0, c}) IN IF m[s + i] = 0 THEN NULL ELSE s + i

-----------------------------------------------------------------------------
LONG_MAX == ULONG \div 2 - 1

\* The digits from s on, most significant first, while they are below 10.
DigitsAt(m, s) == SubSeq([i \in 1 .. LAST - s + 1 |-> m[s + i - 1]], 1,
                         First(s, LAMBDA j : ~isdigit(m[s + j])))

\* One digit of strtol_deci(): "over" is any = -1, which ends the loop.
Over == -1
\* Mutant: the last digit is not compared with its limit.
TooBig_late(acc, limit, c) == acc > limit \div 10
TooBig(acc, limit, c) ==
  acc > limit \div 10 \/ (acc = limit \div 10 /\ c > limit % 10)

Accumulate(limit, acc, c) ==
  IF acc = Over \/ TooBig(acc, limit, c - 48) THEN Over ELSE (acc * 10) + (c - 48)

strtol_deci(m, str) ==
  LET s     == str + First(str, LAMBDA j : ~isspace(m[str + j]))
      neg   == m[s] = 45
      limit == IF neg THEN LONG_MAX + 1 ELSE LONG_MAX
      from  == IF m[s] \in {43, 45} THEN s + 1 ELSE s
      acc   == FoldLeft(LAMBDA a, c : Accumulate(limit, a, c), 0, DigitsAt(m, from))
      abs   == IF acc = Over THEN limit ELSE acc
  IN  IF neg THEN -abs ELSE abs

DigitOf(c) ==
  CASE c \in 48 .. 57  -> c - 48
    [] c \in 97 .. 122 -> c - 87
    [] c \in 65 .. 90  -> c - 55
    [] OTHER           -> ULONG

\* The loop of strtoul() at address s: a character that is no digit of the base
\* is passed before the loop ends, and a sum that wraps to less than it was ends
\* the call with *endptr as the caller left it.
UNSET == -1
\* Mutant: the prefix 0x is passed as one character.
Prefix_one == 1
Prefix == 2

ToUl(m, base) ==
  LET Sum[s \in Memory, result \in 0 .. ULONG - 1] ==
        LET digit == DigitOf(m[s])
            next  == ((result * base) + digit) % ULONG
        IN  CASE m[s] = 0       -> <<result, s>>
              [] m[s] # 0 /\ digit >= base -> <<result, s + 1>>
              [] m[s] # 0 /\ digit < base /\ next < result -> <<ULONG - 1, UNSET>>
              [] OTHER          -> Sum[s + 1, next]
  IN  Sum

strtoul(m, str, base) ==
  LET hex  == base \in {0, 16} /\ m[str] = 48 /\ m[str + 1] \in {88, 120}
      s    == IF hex THEN str + Prefix ELSE str
      from == IF m[s] \in {43, 45} THEN s + 1 ELSE s
      r    == ToUl(m, IF hex THEN 16 ELSE base)[from, 0]
  IN  IF r[2] = UNSET \/ m[s] # 45 THEN r ELSE <<(ULONG - r[1]) % ULONG, r[2]>>

-----------------------------------------------------------------------------
\* Every memory with a terminator at its end; the routines are functions of it.
TextInit == mem = NoMemory
TextNext ==
  /\ mem = NoMemory
  /\ \E A \in ALPHABETS : \E chars \in [0 .. LAST - 1 -> A] :
       mem' = [a \in Memory |-> IF a < LAST THEN chars[a] ELSE 0]

-----------------------------------------------------------------------------
Block(m, a, n) == [i \in 1 .. n |-> m[a + i - 1]]
Str(m, a) ==
  LET n == CHOOSE k \in 0 .. LAST - a : m[a + k] = 0 /\ \A j \in 0 .. k - 1 : m[a + j] # 0
  IN  Block(m, a, n)

\* Only the n bytes at d change, and they become `bytes`.
Writes(new, d, bytes) ==
  new = [a \in Memory |-> IF a \in d .. d + Len(bytes) - 1 THEN bytes[a - d + 1] ELSE mem[a]]

Apart(d, n, s, k) == d + n <= s \/ s + k <= d

Padded(seq, n) == [i \in 1 .. n |-> IF i <= Len(seq) THEN seq[i] ELSE 0]
NUL == <<0>>

(***************************************************************************)
(* Copying routines leave what the C standard promises, byte for byte, and *)
(* touch nothing else: string.h's contract, under its own preconditions    *)
(* (room at the destination, no overlap except for memmove()) and under    *)
(* three more that this code needs and its callers keep: memmove() not     *)
(* down onto an overlapping block, memcpy() of whole chunks, strncat() of  *)
(* no more than the source holds.                                          *)
(***************************************************************************)
CopiesAsC == mem # NoMemory => \A d, s \in Addr : \A n \in 0 .. LAST :
  LET str == Str(mem, s)
      end == d + Len(Str(mem, d))
      len == Len(str)
      fits == d + n <= LAST + 1 /\ s + n <= LAST + 1
  IN  /\ d + len <= LAST /\ Apart(d, len + 1, s, len + 1) =>
           Writes(strcpy(mem, d, s), d, str \o NUL)
      /\ end + len <= LAST /\ Apart(d, end + len + 1 - d, s, len + 1) =>
           Writes(strcat(mem, d, s), end, str \o NUL)
      /\ end + n <= LAST /\ n <= len /\ Apart(d, end + n + 1 - d, s, n) =>
           Writes(strncat(mem, d, s, n), end, Block(mem, s, n) \o NUL)
      /\ fits /\ Apart(d, n, s, n) => Writes(strncpy(mem, d, s, n), d, Padded(str, n))
      /\ fits /\ ~(d < s /\ s < d + n) /\ (s + n <= d => n > 0 /\ n % CHUNK = 0) =>
           Writes(memmove(mem, d, s, n), d, Block(mem, s, n))

Sign(x) == IF x < 0 THEN -1 ELSE IF x = 0 THEN 0 ELSE 1

\* The order of two sequences of codes: the first difference decides, then the length.
Order(p, q) ==
  LET D == {i \in 1 .. Len(p) : i > Len(q) \/ p[i] # q[i]}
  IN  IF D = {} THEN IF Len(p) = Len(q) THEN 0 ELSE -1
      ELSE LET i == Min(D) IN IF i > Len(q) THEN 1 ELSE Sign(p[i] - q[i])
Prefixed(p, n) == SubSeq(p, 1, IF Len(p) < n THEN Len(p) ELSE n)
Lowered(p) == [i \in 1 .. Len(p) |-> tolower(p[i])]

(***************************************************************************)
(* Comparing routines return the sign of the lexicographic order of what   *)
(* they are given: the shell finds a command, and the file system a name,  *)
(* only by their answer 0.                                                 *)
(***************************************************************************)
ComparesAsC == mem # NoMemory => \A a, b \in Addr :
  LET p == Str(mem, a)
      q == Str(mem, b)
  IN  /\ Sign(strcmp(mem, a, b)) = Order(p, q)
      /\ Sign(strcasecmp(mem, a, b)) = Order(Lowered(p), Lowered(q))
      /\ \A n \in 0 .. LAST :
           /\ Sign(strncmp(mem, a, b, n)) = Order(Prefixed(p, n), Prefixed(q, n))
           /\ Sign(strncasecmp(mem, a, b, n)) =
                Order(Lowered(Prefixed(p, n)), Lowered(Prefixed(q, n)))
           /\ a + n <= LAST + 1 /\ b + n <= LAST + 1 =>
                Sign(memcmp(mem, a, b, n)) = Order(Block(mem, a, n), Block(mem, b, n))

Value(digits, base) == FoldLeft(LAMBDA v, c : (v * base) + DigitOf(c), 0, digits)
Signed(p) == p # <<>> /\ p[1] \in {43, 45}
Unsigned(p) == IF Signed(p) THEN Tail(p) ELSE p
Negative(p) == Signed(p) /\ p[1] = 45
Within(lo, v, hi) == IF v < lo THEN lo ELSE IF v > hi THEN hi ELSE v

(***************************************************************************)
(* A decimal argument is its value, or the nearest number a long can hold: *)
(* the comment above strtol_deci()'s cutoff ("if we have accumulated a     *)
(* value > ..., or equal but the next digit is > 7 (or 8), the number is   *)
(* too big").  vmc finds its VM by it.                                     *)
(***************************************************************************)
DecimalsParsed == mem # NoMemory => \A a \in Addr :
  LET p == Str(mem, a)
      v == Value(Unsigned(p), 10)
  IN  (\A i \in 1 .. Len(Unsigned(p)) : isdigit(Unsigned(p)[i])) =>
        strtol_deci(mem, a) =
          Within(-(LONG_MAX + 1), IF Negative(p) THEN -v ELSE v, LONG_MAX)

HexDigit(c) == DigitOf(c) < 16
Bare(p) == IF Len(p) >= 2 /\ p[1] = 48 /\ p[2] \in {88, 120} THEN SubSeq(p, 3, Len(p)) ELSE p

(***************************************************************************)
(* What vmld makes of a hexadecimal argument.  A pure number that fits is  *)
(* read whole and as its value; and an argument whose *end is the          *)
(* terminator, which is all vmld looks at, has no character but the last   *)
(* that is not a hexadecimal digit (that last one the loop has passed).    *)
(***************************************************************************)
HexParsed == mem # NoMemory => \A a \in Addr :
  LET p == Str(mem, a)
      q == Unsigned(Bare(p))
      r == strtoul(mem, a, 16)
      v == Value(q, 16)
  IN  /\ (\A i \in 1 .. Len(q) : HexDigit(q[i])) /\ v < ULONG =>
           r = <<IF Negative(Bare(p)) THEN (ULONG - v) % ULONG ELSE v, a + Len(p)>>
      /\ r[2] # UNSET /\ mem[r[2]] = 0 =>
           \A i \in 1 .. Len(q) - 1 : HexDigit(q[i])

(***************************************************************************)
(* The library is what its callers take it for: the four parts above, for  *)
(* every content of a small memory, every address and every length.        *)
(***************************************************************************)
TextAsC == CopiesAsC /\ ComparesAsC /\ DecimalsParsed /\ HexParsed
=============================================================================
