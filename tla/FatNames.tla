------------------------------ MODULE FatNames ------------------------------
(***************************************************************************)
(* The names of fs/ff.c as ffconf.h configures them: short names in code    *)
(* page 932 (Shift JIS), where a character has one or two bytes and the     *)
(* second may be the code of another, of a separator among them.  A path is *)
(* the sequence of its bytes, one that ended yielding 0; a directory entry  *)
(* has BODY and EXT of them, padded with blanks.  FatFs.tla starts from the *)
(* list of segments that this module makes of a path.                      *)
(***************************************************************************)
EXTENDS Integers, Sequences
LOCAL INSTANCE SequencesExt

CONSTANTS BODY, EXT,   \* bytes of a name and of its extension: 8 and 3
          FF_VOLUMES,  \* drives
          Alphabets,   \* sets of bytes
          NoText       \* before there is a name

ASSUME FatNamesAssumption == /\ BODY \in Nat \ {0, 1} /\ EXT \in Nat \ {0}
                             /\ FF_VOLUMES \in 1 .. 10
                             /\ \A A \in Alphabets : A \subseteq 0 .. 255

VARIABLE text          \* bytes that are used as a path and as an entry

-----------------------------------------------------------------------------
DDEM == 229            \* 0xE5, the mark of a deleted entry
RDDEM == 5             \* what a name that begins with it has on the disk
BLANK == 32
POINT == 46
COLON == 58

dbc_1st(c) == c \in 129 .. 159 \cup 224 .. 252
dbc_2nd(c) == c \in 64 .. 126 \cup 128 .. 252
IsSep(c) == c \in {47, 92}
IsLower(c) == c \in 97 .. 122
\* "*+,:;<=>[]|"? and the delete character
Forbidden(c) == c \in {34, 42, 43, 44, 58, 59, 60, 61, 62, 63, 91, 93, 124, 127}
Upper(c) == IF IsLower(c) THEN c - 32 ELSE c

Byte(p, k) == IF k <= Len(p) THEN p[k] ELSE 0
RECURSIVE Past(_, _)
Past(p, k) == IF IsSep(Byte(p, k)) THEN Past(p, k + 1) ELSE k

\* The drive, -1 for one there is none of, and where the path goes on.
IsEnd(c) == c <= BLANK
get_ldnumber(p) ==
  LET colon == CHOOSE k \in 1 .. Len(p) + 1 :
                 /\ IsEnd(Byte(p, k)) \/ p[k] = COLON
                 /\ \A j \in 1 .. k - 1 : ~IsEnd(p[j]) /\ p[j] # COLON
      drive == Byte(p, 1) - 48
  IN  IF IsEnd(Byte(p, colon)) THEN <<0, 1>>
      ELSE IF colon = 2 /\ drive \in 0 .. 9 /\ drive < FF_VOLUMES THEN <<drive, 3>>
      ELSE <<-1, 1>>

-----------------------------------------------------------------------------
\* create_name(): the segment of p that begins at k, the first i bytes of which
\* are in fn already, in the field that ends after byte n.  The answer has the
\* name as an entry has it, whether it is the last and where the next begins.
NoName == [ok |-> FALSE, fn |-> <<>>, last |-> TRUE, next |-> 0]
Stored(fn) == [fn EXCEPT ![1] = IF @ = DDEM THEN RDDEM ELSE @]
Named(fn, i, next, last) ==
  IF i = 0 THEN NoName ELSE [ok |-> TRUE, fn |-> Stored(fn), last |-> last, next |-> next]

PairFits_over(i, n) == i < n
PairFits(i, n) == i < n - 1
RECURSIVE Segment(_, _, _, _, _)
Pair(p, k, fn, i, n) ==
  IF ~dbc_2nd(Byte(p, k + 1)) \/ ~PairFits(i, n) THEN NoName
  ELSE Segment(p, k + 2, [fn EXCEPT ![i + 1] = p[k], ![i + 2] = p[k + 1]], i + 2, n)
Segment(p, k, fn, i, n) ==
  LET c == Byte(p, k)
      next == Past(p, k + 1)
  IN  IF IsEnd(c) THEN Named(fn, i, k + 1, TRUE)
      ELSE IF IsSep(c) THEN Named(fn, i, next, IsEnd(Byte(p, next)))
      ELSE IF c = POINT /\ n = BODY THEN Segment(p, k + 1, fn, BODY, BODY + EXT)
      ELSE IF c = POINT \/ i >= n THEN NoName
      ELSE IF dbc_1st(c) THEN Pair(p, k, fn, i, n)
      ELSE IF Forbidden(c) THEN NoName
      ELSE Segment(p, k + 1, [fn EXCEPT ![i + 1] = Upper(c)], i + 1, n)
create_name(p, k) == Segment(p, k, [j \in 1 .. BODY + EXT |-> BLANK], 0, BODY)

\* follow_path(): the names it looks for one after the other.
RECURSIVE NamesFrom(_, _)
Following(p, s) ==
  IF ~s.ok THEN <<NoName>> ELSE IF s.last THEN <<s.fn>> ELSE <<s.fn>> \o NamesFrom(p, s.next)
NamesFrom(p, k) == Following(p, create_name(p, k))
Names(p, k) ==
  LET start == Past(p, k) IN IF Byte(p, start) < BLANK THEN <<>> ELSE NamesFrom(p, start)

\* get_fileinfo(): the name that f_readdir() shows.
Restored_not(c) == c
Restored(c) == IF c = RDDEM THEN DDEM ELSE c
Shown(e, j) ==
  IF e[j] = BLANK THEN <<>>
  ELSE (IF j = BODY + 1 THEN <<POINT>> ELSE <<>>) \o <<Restored(e[j])>>
get_fileinfo(e) == FlattenSeq([j \in 1 .. BODY + EXT |-> Shown(e, j)])

NamesInit == text = NoText
NamesNext == \E A \in Alphabets :
  text = NoText /\ text' \in [1 .. BODY + EXT -> A]

-----------------------------------------------------------------------------
\* Characters: a byte, or two that belong together.
RECURSIVE Chars(_)
Chars(p) ==
  IF p = <<>> THEN <<>>
  ELSE IF Len(p) > 1 /\ dbc_1st(p[1]) /\ dbc_2nd(p[2])
       THEN <<SubSeq(p, 1, 2)>> \o Chars(SubSeq(p, 3, Len(p)))
       ELSE <<SubSeq(p, 1, 1)>> \o Chars(Tail(p))
Legal(ch) ==
  Len(ch) = 2 \/ (~dbc_1st(ch[1]) /\ ~IsEnd(ch[1]) /\ ~IsSep(ch[1]) /\ ~Forbidden(ch[1])
                  /\ ch[1] # POINT)
Trimmed(f) == SelectSeq(f, LAMBDA c : c # BLANK)
Field(f) == /\ \A j \in 1 .. Len(f) - 1 : f[j] = BLANK => f[j + 1] = BLANK
            /\ \A j \in DOMAIN Chars(Trimmed(f)) :
                 Legal(Chars(Trimmed(f))[j]) /\ ~IsLower(Chars(Trimmed(f))[j][1])

\* An entry as a formatter writes it.
WellFormed(e) ==
  LET body == [SubSeq(e, 1, BODY) EXCEPT ![1] = IF @ = RDDEM THEN DDEM ELSE @]
  IN  /\ e[1] \notin {0, DDEM, BLANK}
      /\ Field(body) /\ Field(SubSeq(e, BODY + 1, BODY + EXT))

(***************************************************************************)
(* A file that `ls` shows is the file that vmld loads under the name shown: *)
(* create_name() makes of what get_fileinfo() wrote the bytes of the entry, *)
(* for names with double-byte characters whose second byte is a separator   *)
(* or a lower-case letter, and with the mark of a deleted entry in front.   *)
(***************************************************************************)
ShownNameOpens ==
  text # NoText /\ WellFormed(text) =>
    /\ create_name(get_fileinfo(text), 1).fn = text
    /\ create_name(get_fileinfo(text), 1).last

\* The path cut into segments at the separators that are characters of their
\* own, and a segment into body and extension at its only point.
Stops(chars) == {k \in DOMAIN chars : IsEnd(chars[k][1])}
UpTo(chars, K) ==
  IF K = {} THEN chars ELSE SubSeq(chars, 1, (CHOOSE k \in K : \A j \in K : k <= j) - 1)
RECURSIVE Pieces(_, _)
Pieces(chars, cuts) ==
  LET first == UpTo(chars, {k \in DOMAIN chars : chars[k] \in cuts})
  IN  IF Len(first) = Len(chars) THEN <<first>>
      ELSE <<first>> \o Pieces(SubSeq(chars, Len(first) + 2, Len(chars)), cuts)
Uppered(ch) == IF Len(ch) = 1 THEN <<Upper(ch[1])>> ELSE ch
InField(chars, width) ==
  LET bytes == FlattenSeq([k \in DOMAIN chars |-> Uppered(chars[k])])
  IN  IF Len(bytes) > width \/ \E k \in DOMAIN chars : ~Legal(chars[k]) THEN NoName
      ELSE bytes \o [j \in 1 .. width - Len(bytes) |-> BLANK]
EntryOf(seg) ==
  LET parts == Pieces(seg, {<<POINT>>})
      body == InField(parts[1], BODY)
      ext == InField(IF Len(parts) = 2 THEN parts[2] ELSE <<>>, EXT)
  IN  IF Len(parts) > 2 \/ NoName \in {body, ext} THEN NoName ELSE Stored(body \o ext)
UpToBad(names) ==
  LET bad == {k \in DOMAIN names : names[k] = NoName}
  IN  IF bad = {} THEN names ELSE Append(UpTo(names, bad), NoName)

\* A drive is one digit and a colon in front; any other colon makes it none.
Drive(path) ==
  IF <<COLON>> \notin Range(path) THEN 0
  ELSE IF path[1] \in {<<48 + d>> : d \in 0 .. FF_VOLUMES - 1} /\ path[2] = <<COLON>>
       THEN path[1][1] - 48 ELSE -1
Undriven(path) == IF <<COLON>> \in Range(path) THEN SubSeq(path, 3, Len(path)) ELSE path

(***************************************************************************)
(* The drive is that of the path's prefix, and the names that follow_path() *)
(* looks for are those between the separators, up to the first that is      *)
(* none, each as an entry of the disk has it; a separator at the end or     *)
(* doubled adds none.                                                      *)
(***************************************************************************)
PathParsed == text # NoText =>
  LET chars == Chars(text)
      path == UpTo(chars, Stops(chars))
      segs == SelectSeq(Pieces(Undriven(path), {<<47>>, <<92>>}), LAMBDA s : s # <<>>)
      drive == get_ldnumber(text)
  IN  /\ drive[1] = Drive(path)
      /\ drive[1] # -1 /\ segs # <<>> =>
           Names(text, drive[2]) = UpToBad([k \in DOMAIN segs |-> EntryOf(segs[k])])

\* A file is opened by the name `ls` shows for it, and a path means the names the
\* user wrote (create_name(), get_fileinfo(), get_ldnumber()).
NamesAgree == ShownNameOpens /\ PathParsed
=============================================================================
