------------------------------- MODULE Printf -------------------------------
(***************************************************************************)
(* The formatter of hypervisor/common/printf.c: every directive the build  *)
(* compiles (floating point is switched off), from the format string to    *)
(* the characters handed to the output function, and the output functions. *)
(*                                                                         *)
(* A character is a string of length one, NUL the empty one; an argument   *)
(* is a word of LONG_BITS bits, or the sequence of characters it points to.*)
(***************************************************************************)
EXTENDS Integers, Sequences
LOCAL INSTANCE SequencesExt
LOCAL INSTANCE FiniteSetsExt

CONSTANTS NTOA_BUFFER,                                  \* 32 in the code
          CHAR_BITS, SHORT_BITS, INT_BITS, LONG_BITS,   \* 8, 16, 32, 64
          PTR_DIGITS,                                   \* 16
          Directives,   \* the directives to format, records of the shape below
          Counts,       \* the sizes of the buffer
          NoDirective   \* before the call

ASSUME PrintfAssumption ==
  /\ {NTOA_BUFFER, CHAR_BITS, SHORT_BITS, INT_BITS, LONG_BITS, PTR_DIGITS} \subseteq Nat \ {0}
  /\ Counts \subseteq Nat

VARIABLES directive,    \* what the caller's format asks for: flags, width, ...
          count         \* the size of the caller's buffer

NULCHAR == ""
Flags == {"0", "-", "+", " ", "#"}
DigitChars == <<"0", "1", "2", "3", "4", "5", "6", "7", "8", "9">>
Letters(upper) == IF upper THEN <<"A", "B", "C", "D", "E", "F">>
                  ELSE <<"a", "b", "c", "d", "e", "f">>
DigitChar(d, upper) == IF d < 10 THEN DigitChars[d + 1] ELSE Letters(upper)[d - 9]
IsDigit(c) == c \in ToSet(DigitChars)

Lesser(i, j) == IF i < j THEN i ELSE j
Greater(i, j) == IF i < j THEN j ELSE i
Repeat(c, n) == [i \in 1 .. Greater(n, 0) |-> c]

-----------------------------------------------------------------------------
\* The output: the characters passed to out(), each at the next index.  What
\* _out_buffer() leaves in a buffer of maxlen, terminator included:
\* Mutant: the terminator goes to the index reached, inside the buffer or not.
Terminator_at(len, maxlen) == len
Terminator(len, maxlen) == IF len < maxlen THEN len ELSE maxlen - 1

_out_buffer(out, maxlen) ==
  LET cells == SubSeq(out, 1, Lesser(Len(out), maxlen))
      at    == Terminator(Len(out), maxlen)
  IN  IF maxlen = 0 THEN <<>>
      ELSE IF at < Len(cells) THEN [cells EXCEPT ![at + 1] = NULCHAR]
      ELSE Append(cells, NULCHAR)

\* _out_char() and _out_fct() hand every character but NUL on.
_out_char(out) == SelectSeq(out, LAMBDA c : c # NULCHAR)

-----------------------------------------------------------------------------
\* _out_rev(): the buffer from its end, between the blanks that reach the width.
_out_rev(buf, width, flags) ==
  LET blanks == Repeat(" ", width - Len(buf))
  IN  CASE "-" \in flags                     -> Reverse(buf) \o blanks
        [] "-" \notin flags /\ "0" \in flags -> Reverse(buf)
        [] OTHER                             -> blanks \o Reverse(buf)

Zeros(buf, n) == buf \o Repeat("0", Lesser(n, NTOA_BUFFER) - Len(buf))
Put(buf, c) == IF c # NULCHAR /\ Len(buf) < NTOA_BUFFER THEN Append(buf, c) ELSE buf

\* The prefix takes the place of zeros the padding has put there, one for the
\* 0 and one for the x; it does so by the length alone.
Shorten(buf, base) == SubSeq(buf, 1, Greater(Len(buf) - (IF base = 16 THEN 2 ELSE 1), 0))
Radix(base, flags) == CASE base = 16 -> IF "upper" \in flags THEN "X" ELSE "x"
                        [] base = 2  -> "b"
                        [] OTHER     -> NULCHAR
Hash(buf, base, prec, width, flags) ==
  LET room == "precision" \notin flags /\ Len(buf) \in {prec, width} \ {0}
  IN  IF "#" \notin flags THEN buf
      ELSE Put(Put(IF room THEN Shorten(buf, base) ELSE buf, Radix(base, flags)), "0")

SignChar(negative, flags) == CASE negative -> "-"
                           [] ~negative /\ "+" \in flags -> "+"
                           [] OTHER -> IF " " \in flags THEN " " ELSE NULCHAR

\* Mutant: the sign is not counted when zeros fill the width.
ZeroWidth_unsigned(width, negative, flags) == width
ZeroWidth(width, negative, flags) ==
  IF width > 0 /\ {"0", "-"} \cap flags = {"0"} /\ SignChar(negative, flags) # NULCHAR
    THEN width - 1 ELSE width

_ntoa_format(buf, negative, base, prec, width, flags) ==
  LET w == ZeroWidth(width, negative, flags)
      padded == IF "-" \in flags THEN buf
                ELSE Zeros(Zeros(buf, prec), IF "0" \in flags THEN w ELSE 0)
      hashed == Hash(padded, base, prec, w, flags)
  IN  _out_rev(Put(hashed, SignChar(negative, flags)), w, flags)

\* The digits, least significant first, as many as the buffer holds.
DigitCount(value, base) ==
  Min({n \in 1 .. NTOA_BUFFER : value < base ^ n} \cup {NTOA_BUFFER})
Backwards(value, base, upper) ==
  [i \in 1 .. DigitCount(value, base) |->
     DigitChar((value \div (base ^ (i - 1))) % base, upper)]

_ntoa_long(value, negative, base, prec, width, flags) ==
  _ntoa_format(IF "precision" \in flags /\ value = 0 THEN <<>>
               ELSE Backwards(value, base, "upper" \in flags),
               negative, base, prec, width, IF value = 0 THEN flags \ {"#"} ELSE flags)

-----------------------------------------------------------------------------
Truncated(v, bits) == v % (2 ^ bits)
AsSigned(v, bits) == LET t == Truncated(v, bits)
                     IN  IF t < 2 ^ (bits - 1) THEN t ELSE t - (2 ^ bits)

\* The integer a directive means by its argument; a char is unsigned here.
IntegerArg(v, signed, flags) ==
  LET As(bits) == IF signed THEN AsSigned(v, bits) ELSE Truncated(v, bits)
  IN  CASE {"long", "longlong"} \cap flags # {} -> As(LONG_BITS)
        [] "char" \in flags  -> Truncated(v, CHAR_BITS)
        [] "short" \in flags /\ "char" \notin flags -> As(SHORT_BITS)
        [] OTHER             -> As(INT_BITS)

Base(spec) == CASE spec \in {"x", "X"} -> 16 [] spec = "o" -> 8 [] spec = "b" -> 2
                [] OTHER -> 10
Abs(i) == IF i < 0 THEN -i ELSE i

IntegerFlags(spec, flags) ==
  (flags \cup (IF spec = "X" THEN {"upper"} ELSE {}))
    \ ((IF Base(spec) = 10 THEN {"#"} ELSE {})
         \cup (IF spec \in {"d", "i"} THEN {} ELSE {"+", " "})
         \cup (IF "precision" \in flags THEN {"0"} ELSE {}))

Integer(spec, arg, prec, width, flags) ==
  LET i == IntegerArg(arg, spec \in {"d", "i"}, flags)
  IN  _ntoa_long(Abs(i), i < 0, Base(spec), prec, width, IntegerFlags(spec, flags))

Character(arg, width, flags) ==
  IF "-" \in flags THEN <<arg>> \o Repeat(" ", width - 1) ELSE Repeat(" ", width - 1) \o <<arg>>

_strnlen_s(p, precision) == IF precision = 0 THEN Len(p) ELSE Lesser(Len(p), precision)
String(arg, prec, width, flags) ==
  LET bounded == "precision" \in flags
      l    == _strnlen_s(arg, prec)
      pad  == Repeat(" ", width - (IF bounded THEN Lesser(l, prec) ELSE l))
      text == IF bounded THEN SubSeq(arg, 1, Lesser(Len(arg), prec)) ELSE arg
  IN  IF "-" \in flags THEN text \o pad ELSE pad \o text

Pointer(arg, prec, flags) ==
  _ntoa_long(arg, FALSE, 16, prec, PTR_DIGITS, flags \cup {"0", "upper"})

-----------------------------------------------------------------------------
\* Reading the format: fmt[p] with the terminator behind the last character.
CharAt(fmt, p) == IF p > Len(fmt) THEN NULCHAR ELSE fmt[p]
EndOfRun(fmt, p, Set) == Min({q \in p .. Len(fmt) + 1 : CharAt(fmt, q) \notin Set})
RECURSIVE _atoi(_, _, _)
_atoi(fmt, p, i) ==
  IF IsDigit(CharAt(fmt, p))
    THEN _atoi(fmt, p + 1, (i * 10) + (CHOOSE d \in 0 .. 9 : DigitChars[d + 1] = fmt[p]))
    ELSE i

\* d: what has been read of the directive; d.p is the next character, d.args the
\* arguments that are left.
ReadFlags(fmt, p, args) ==
  LET q == EndOfRun(fmt, p, Flags)
  IN  [flags |-> {fmt[i] : i \in p .. q - 1}, width |-> 0, prec |-> 0, p |-> q, args |-> args]

ReadWidth(fmt, d) ==
  LET w == AsSigned(Head(d.args), INT_BITS)
  IN  IF CharAt(fmt, d.p) = "*"
        THEN [d EXCEPT !.flags = IF w < 0 THEN @ \cup {"-"} ELSE @, !.width = Abs(w),
                       !.p = @ + 1, !.args = Tail(@)]
        ELSE [d EXCEPT !.width = _atoi(fmt, d.p, 0), !.p = EndOfRun(fmt, d.p, ToSet(DigitChars))]

ReadPrecision(fmt, d) ==
  LET after == d.p + 1
  IN  IF CharAt(fmt, d.p) # "." THEN d
      ELSE IF CharAt(fmt, after) = "*"
        THEN [d EXCEPT !.flags = @ \cup {"precision"}, !.p = after + 1, !.args = Tail(@),
                       !.prec = Greater(AsSigned(Head(d.args), INT_BITS), 0)]
        ELSE [d EXCEPT !.flags = @ \cup {"precision"}, !.prec = _atoi(fmt, after, 0),
                       !.p = EndOfRun(fmt, after, ToSet(DigitChars))]

Twice(fmt, p) == CharAt(fmt, p + 1) = CharAt(fmt, p)
ReadLength(fmt, d) ==
  LET c == CharAt(fmt, d.p)
      one == IF c = "h" THEN "short" ELSE "long"
      two == IF c = "h" THEN "char" ELSE "longlong"
  IN  CASE c \in {"l", "h"} /\ Twice(fmt, d.p) ->
             [d EXCEPT !.flags = @ \cup {one, two}, !.p = @ + 2]
        [] c \in {"t", "j", "z"} \/ (c \in {"l", "h"} /\ ~Twice(fmt, d.p)) ->
             [d EXCEPT !.flags = @ \cup {one}, !.p = @ + 1]
        [] OTHER -> d

\* The characters of a directive whose specifier is spec; any other character
\* stands for itself, the terminator included.
Converted(spec, d) ==
  CASE spec \in {"d", "i", "u", "x", "X", "o", "b"} ->
         Integer(spec, Head(d.args), d.prec, d.width, d.flags)
    [] spec = "c" -> Character(Head(d.args), d.width, d.flags)
    [] spec = "s" -> String(Head(d.args), d.prec, d.width, d.flags)
    [] spec = "p" -> Pointer(Head(d.args), d.prec, d.flags)
    [] OTHER      -> <<spec>>
Takes(spec) == spec \in {"d", "i", "u", "x", "X", "o", "b", "c", "s", "p"}

\* The loop of _vsnprintf() from fmt[p] on, to the terminator.  Every format of
\* this program is a literal that ends behind its last directive; a format that
\* ends inside one, whose terminator the code would pass, is not modelled.
RECURSIVE Formatted(_, _, _, _)
Formatted(fmt, p, args, out) ==
  LET d == ReadLength(fmt, ReadPrecision(fmt, ReadWidth(fmt, ReadFlags(fmt, p + 1, args))))
      spec == CharAt(fmt, d.p)
      rest == IF Takes(spec) THEN Tail(d.args) ELSE d.args
  IN  IF p > Len(fmt) THEN out
      ELSE IF fmt[p] # "%" THEN Formatted(fmt, p + 1, args, Append(out, fmt[p]))
      ELSE Formatted(fmt, d.p + 1, rest, out \o Converted(spec, d))

_vsnprintf(fmt, args) == Formatted(fmt, 1, args, <<>>)

\* What the callers see: the buffer and the number of characters there would be.
snprintf(buflen, fmt, args) ==
  LET out == _vsnprintf(fmt, args)
  IN  [buf |-> _out_buffer(out, buflen), ret |-> Len(out)]
printf(fmt, args) == _out_char(_vsnprintf(fmt, args))

-----------------------------------------------------------------------------
\* The caller's format: a letter, the directive, a letter; and its arguments.
\* A negative width is one that `*` passes, a negative precision is none.
Number(n) == IF n = 0 THEN <<>> ELSE Reverse(Backwards(n, 10, FALSE))
Format(d) ==
  <<"a", "%">> \o SelectSeq(<<"0", "-", "+", " ", "#">>, LAMBDA f : f \in d.flags)
    \o (IF d.star THEN <<"*">> ELSE Number(d.width))
    \o (IF d.prec < 0 THEN <<>> ELSE <<".">> \o (IF d.star THEN <<"*">> ELSE Number(d.prec)))
    \o d.length \o <<d.spec, "z">>
Arguments(d) == (IF d.star THEN <<d.width % (2 ^ INT_BITS)>> ELSE <<>>)
                  \o (IF d.star /\ d.prec >= 0 THEN <<d.prec>> ELSE <<>>)
                  \o (IF Takes(d.spec) THEN <<d.arg>> ELSE <<>>)

PrintfInit == directive = NoDirective /\ count = 0
PrintfNext == /\ directive = NoDirective
              /\ directive' \in Directives /\ count' \in Counts

-----------------------------------------------------------------------------
\* What the C standard (7.21.6.1) makes of a directive.
Bits(d) == CASE d.length = <<>>         -> INT_BITS
             [] d.length = <<"h">>      -> SHORT_BITS
             [] d.length = <<"h", "h">> -> CHAR_BITS
             [] OTHER                   -> LONG_BITS
IsSigned(d) == d.spec \in {"d", "i"}
Meant(d) == IF IsSigned(d) THEN AsSigned(d.arg, Bits(d)) ELSE Truncated(d.arg, Bits(d))

LeftAligned(d) == "-" \in d.flags \/ d.width < 0
Plain(d) == LET v == Abs(Meant(d))
            IN  IF v = 0 /\ d.prec = 0 THEN <<>>
                ELSE Reverse([i \in 1 .. Min({n \in 1 .. LONG_BITS : v < Base(d.spec) ^ n}) |->
                        DigitChar((v \div (Base(d.spec) ^ (i - 1))) % Base(d.spec), d.spec = "X")])
WithPrecision(d) == Repeat("0", d.prec - Len(Plain(d))) \o Plain(d)
Marked(d) == "#" \in d.flags /\ Base(d.spec) # 10 /\ Meant(d) # 0
Mark(d) ==
  (IF ~IsSigned(d) THEN <<>>
   ELSE IF Meant(d) < 0 THEN <<"-">>
   ELSE IF "+" \in d.flags THEN <<"+">> ELSE IF " " \in d.flags THEN <<" ">> ELSE <<>>)
    \o (IF ~Marked(d) THEN <<>>
        ELSE IF d.spec # "o" THEN <<"0", d.spec>>
        ELSE IF d.prec > Len(Plain(d)) THEN <<>> ELSE <<"0">>)

Aligned(text, d) == LET blanks == Repeat(" ", Abs(d.width) - Len(text))
                    IN  IF LeftAligned(d) THEN text \o blanks ELSE blanks \o text

ZeroFilled(d) == "0" \in d.flags /\ ~LeftAligned(d) /\ d.prec < 0
StandardInteger(d) ==
  IF ZeroFilled(d)
    THEN Mark(d) \o Repeat("0", d.width - Len(Mark(d)) - Len(Plain(d))) \o Plain(d)
    ELSE Aligned(Mark(d) \o WithPrecision(d), d)

StandardText(d) ==
  Aligned(IF d.prec < 0 THEN d.arg ELSE SubSeq(d.arg, 1, Lesser(d.prec, Len(d.arg))), d)

Standard(d) == <<"a">> \o (CASE d.spec = "s" -> StandardText(d)
                             [] d.spec = "c" -> Aligned(<<d.arg>>, d)
                             [] d.spec = "%" -> <<"%">>
                             [] OTHER        -> StandardInteger(d)) \o <<"z">>

\* A prefix is right only when the width is not the number of digits, nor, when
\* zeros fill it, one more for x; b and a precision for o are one place off.
RoomForMark(d) == LET spare == d.width - Len(Plain(d))
                  IN  /\ d.prec < 0 => spare # 0
                      /\ ZeroFilled(d) /\ spare > 0 => d.spec = "o" \/ (d.spec # "b" /\ spare > 1)
                      /\ d.spec = "o" => d.prec <= Len(Plain(d))

\* Where this formatter promises less: everything must fit its buffer of digits,
\* a left-aligned number gets no zeros from its precision, and `hh` is unsigned.
Promised(d) ==
  \/ d.spec \in {"s", "c", "%"}
  \/ /\ Len(Mark(d)) + Greater(Len(WithPrecision(d)), IF ZeroFilled(d) THEN d.width ELSE 0)
          <= NTOA_BUFFER
     /\ LeftAligned(d) => d.prec <= Len(Plain(d))
     /\ ~(IsSigned(d) /\ Bits(d) = CHAR_BITS)
     /\ Marked(d) => RoomForMark(d)

(***************************************************************************)
(* A directive prints what the C standard says, whatever its flags, width, *)
(* precision, length and argument, within what Promised grants: flags are  *)
(* read, dropped and combined over several functions, and the zeros of a   *)
(* precision, a width and a prefix share one buffer.                       *)
(***************************************************************************)
FormatsAsC == directive # NoDirective /\ Promised(directive) =>
  printf(Format(directive), Arguments(directive)) = Standard(directive)

(***************************************************************************)
(* snprintf() writes nothing past the caller's buffer, always ends it with *)
(* NUL when there is room for one, keeps the beginning of what it would    *)
(* print, and returns that text's length.                                  *)
(***************************************************************************)
SnprintfBounded == directive # NoDirective =>
  LET r    == snprintf(count, Format(directive), Arguments(directive))
      text == printf(Format(directive), Arguments(directive))
  IN  /\ r.ret = Len(text)
      /\ r.buf = IF count = 0 THEN <<>>
                 ELSE Append(SubSeq(text, 1, Lesser(Len(text), count - 1)), NULCHAR)

(***************************************************************************)
(* The formatter prints what the C standard says, and snprintf() as much   *)
(* of it as the caller has room for.                                       *)
(***************************************************************************)
PrintsAsC == FormatsAsC /\ SnprintfBounded
=============================================================================
