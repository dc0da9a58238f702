--------------------------- MODULE CanonicalStrings ---------------------------
(***************************************************************************)
(* Strings at the canonical ABI: how a JavaScript string is stored into a  *)
(* guest's memory and read from it (cabi/strings.ts), and how the          *)
(* transcoders move one between two guests (intrinsics/transcode.ts) under *)
(* the adapter that calls them.  The module has no variables; the memory   *)
(* is passed.                                                              *)
(*                                                                         *)
(* A character is its class: "a" ASCII, "e" the rest of Latin-1, "y" up to *)
(* U+07FF, "z" the rest of the basic plane (U+FFFD is one), "w" beyond it, *)
(* and "s" a lone surrogate, which only a JavaScript string can hold.      *)
(*                                                                         *)
(* A memory is a sequence of blocks, one for each result of realloc, and a *)
(* pointer is the number of a block.  A block keeps the size and the       *)
(* alignment that were asked for, so a write past it shows.                *)
(*                                                                         *)
(* An operator named X_Y is X with the slip Y.                             *)
(***************************************************************************)
EXTENDS Integers, SequencesExt

Chars == {"a", "e", "y", "z", "w"}
Ascii == {"a"}
Latin1 == {"a", "e"}

(* Bytes.  An ASCII character and a unit of a Latin-1 character begin with *)
(* the same byte in every encoding.                                        *)
Junk == <<>>
Zero == <<"nul", "low", 1>>
Low(c, i) == <<c, "low", i>>
Unit(c, i) == <<Low(c, i), IF c \in Latin1 THEN Zero ELSE <<c, "high", i>> >>

Width8 == [a |-> 1, e |-> 2, y |-> 2, z |-> 3, w |-> 4]

InUtf8 == [c \in Chars |-> IF c \in Ascii THEN <<Low(c, 1)>>
                           ELSE [i \in 1..Width8[c] |-> <<c, "utf8", i>>]]
InUtf16 == [c \in Chars |-> IF c = "w" THEN Unit(c, 1) \o Unit(c, 2) ELSE Unit(c, 1)]
InLatin1 == [c \in Latin1 |-> <<Low(c, 1)>>]

Encoded(E, s) == FlattenSeq([i \in 1..Len(s) |-> E[s[i]]])

(* The fatal decoders: any byte that begins no character spoils the text.  *)
RECURSIVE Decoded(_, _)
Decoded(E, cells) ==
  IF Len(cells) = 0 THEN [ok |-> TRUE, v |-> <<>>]
  ELSE LET starts == {c \in DOMAIN E : IsPrefix(E[c], cells)}
           c == CHOOSE x \in starts : TRUE
           rest == Decoded(E, SubSeq(cells, Len(E[c]) + 1, Len(cells)))
       IN  IF starts = {} THEN [ok |-> FALSE, v |-> <<>>]
           ELSE [rest EXCEPT !.v = <<c>> \o @]

(* Latin-1: every byte is a character, NUL an ASCII one.  A byte that       *)
(* nobody has written spoils the text.                                     *)
DecodedLatin1(cells) ==
  [ok |-> \A i \in DOMAIN cells : cells[i] # Junk,
   v |-> [i \in DOMAIN cells |-> IF cells[i] \in {Low("a", 1), Zero} THEN "a" ELSE "e"]]

WellFormed(s) == [i \in 1..Len(s) |-> IF s[i] = "s" THEN "z" ELSE s[i]]

(* The length of a JavaScript string. *)
Length(s) == Len(Encoded(InUtf16, WellFormed(s))) \div 2

(* How many characters at the front of s are in S. *)
Leading(s, S) ==
  LET stops == {i \in 1..Len(s) : s[i] \notin S}
  IN  IF stops = {} THEN Len(s) ELSE Min(stops) - 1

-----------------------------------------------------------------------------
(* The memory. *)
Blank(n) == [i \in 1..n |-> Junk]
Block(a, n, cells) ==
  [size |-> n, align |-> a, sound |-> TRUE, cells |-> SubSeq(cells, 1, n)]

Allocated(m, a, n) == Append(m, Block(a, n, Blank(n)))
Reallocated(m, b, n) == Append(m, Block(m[b].align, n, m[b].cells \o Blank(n)))

Written(m, b, at, cells) ==
  LET old == m[b].cells \o Blank(at)
  IN  [m EXCEPT ![b].cells =
         SubSeq(old, 1, at) \o cells \o SubSeq(@, at + Len(cells) + 1, Len(@))]

(* The block in hand is the last one: it is begun, grown and written on.   *)
Into(m, at, cells) == Written(m, Len(m), at, cells)
Begun(m, a, n, cells) == Into(Allocated(m, a, n), 0, cells)
Grown(m, n) == Reallocated(m, Len(m), n)

(* What a store leaves: the memory, the pointer to the text and its count. *)
Stored(m, units) == [m |-> m, ptr |-> Len(m), units |-> units]

(* realloc to the bytes used, when fewer than were asked for. *)
Fitted(m, n, units) == Stored(IF m[Len(m)].size > n THEN Grown(m, n) ELSE m, units)

(* The first n bytes, written as Latin-1, become code units in place: from *)
(* the back, so that none is overwritten before it is read.                *)
Widened_Forward(cells, n) ==
  FoldLeft(LAMBDA d, j : [d EXCEPT ![2 * j - 1] = d[j], ![2 * j] = Zero],
           cells, [i \in 1..n |-> i])
Widened(cells, n) ==
  FoldLeft(LAMBDA d, j : [d EXCEPT ![2 * j - 1] = d[j], ![2 * j] = Zero],
           cells, [i \in 1..n |-> n + 1 - i])

WidenedBlock(m, n) == [m EXCEPT ![Len(m)].cells = Widened(@, n)]

-----------------------------------------------------------------------------
(* Lowering a JavaScript string. *)
StoreUtf16(m, s) ==
  Stored(Begun(m, 2, 2 * Length(s), Encoded(InUtf16, WellFormed(s))), Length(s))

(* ASCII is copied into a byte for each unit; the first other character    *)
(* asks for three bytes for each unit, and the rest is given back.         *)
Utf8Finished(begun, n, ascii, bytes) ==
  IF ascii = Len(bytes) THEN Stored(begun, n)
  ELSE Fitted(Into(Grown(begun, 3 * n), ascii, SubSeq(bytes, ascii + 1, Len(bytes))),
              Len(bytes), Len(bytes))
Utf8Begun(m, n, ascii, bytes) ==
  Utf8Finished(Begun(m, 1, n, SubSeq(bytes, 1, ascii)), n, ascii, bytes)
StoreUtf8(m, s) ==
  Utf8Begun(m, Length(s), Leading(s, Ascii), Encoded(InUtf8, WellFormed(s)))

(* The tag: the high bit of a pointer-sized count. *)
Tagged(store, tag) == [store EXCEPT !.units = @ + tag]

(* Latin-1 while it lasts; the first wider character makes it UTF-16. *)
FinishedWide(begun, narrow, units, tag) ==
  IF 2 * narrow = Len(units) THEN Stored(begun, narrow)
  ELSE Tagged(Fitted(Into(WidenedBlock(Grown(begun, Len(units)), narrow), 2 * narrow,
                          SubSeq(units, 2 * narrow + 1, Len(units))),
                     Len(units), Len(units) \div 2),
              tag)
BegunNarrow(m, wf, narrow, units, tag) ==
  FinishedWide(Begun(m, 2, Len(units) \div 2, Encoded(InLatin1, SubSeq(wf, 1, narrow))),
               narrow, units, tag)
StoreLatin1OrUtf16(m, s, tag) ==
  BegunNarrow(m, WellFormed(s), Leading(s, Latin1), Encoded(InUtf16, WellFormed(s)), tag)

StoreString(m, s, enc, tag) ==
  CASE enc = "utf8"         -> StoreUtf8(m, s)
    [] enc = "utf16"        -> StoreUtf16(m, s)
    [] enc = "latin1+utf16" -> StoreLatin1OrUtf16(m, s, tag)

(* What the count says the bytes are. *)
Form(enc, units, tag) ==
  CASE enc = "latin1+utf16" -> IF units >= tag THEN "utf16" ELSE "latin1"
    [] OTHER -> enc
Count(enc, units, tag) ==
  IF enc = "latin1+utf16" /\ units >= tag THEN units - tag ELSE units
Codec(form) == CASE form = "utf8" -> InUtf8 [] form = "utf16" -> InUtf16 [] OTHER -> InLatin1
UnitBytes(form) == IF form = "utf16" THEN 2 ELSE 1
UnitAlign(enc) == IF enc = "utf8" THEN 1 ELSE 2

(* A pointer or a count that leaves the memory traps, and so does text     *)
(* that does not decode.                                                   *)
DecodedText(cells, form) ==
  IF form = "latin1" THEN DecodedLatin1(cells) ELSE Decoded(Codec(form), cells)
LoadBytes(m, ptr, n, form) ==
  IF ptr \notin DOMAIN m THEN [ok |-> FALSE, v |-> <<>>]
  ELSE IF n > Len(m[ptr].cells) THEN [ok |-> FALSE, v |-> <<>>]
  ELSE DecodedText(SubSeq(m[ptr].cells, 1, n), form)
LoadString(m, ptr, units, enc, tag) ==
  LET form == Form(enc, units, tag)
  IN  LoadBytes(m, ptr, UnitBytes(form) * Count(enc, units, tag), form)

-----------------------------------------------------------------------------
(* The transcoders, and the adapter that allocates for them and calls them *)
(* again with what they did not read.  s is the source's text, n its count *)
(* of units.  Every transcoder of UTF-8 and of UTF-16 traps on text that   *)
(* is ill-formed, if only in the pass that reads it, and the adapter on a  *)
(* range that leaves the memory: what is not Source(...).ok is not moved.  *)

(* utf16-to-utf8 and latin1-to-utf8: as much as fits, of ASCII only in the *)
(* first pass.                                                             *)
MovedToUtf8(s, room, first) ==
  LET ok(k) == /\ Len(Encoded(InUtf8, SubSeq(s, 1, k))) <= room
               /\ first => \A i \in 1..k : s[i] \in Ascii
  IN  Max({k \in 0..Len(s) : ok(k)})

Fits(s, room) == Encoded(InUtf8, SubSeq(s, 1, MovedToUtf8(s, room, FALSE)))
Deflated(grown, k, bytes) ==
  Fitted(Into(grown, k, bytes), k + Len(bytes), k + Len(bytes))
DeflateRest(begun, s, k, room) ==
  IF k = Len(s) THEN Stored(begun, k)
  ELSE Deflated(Grown(begun, room), k, Fits(SubSeq(s, k + 1, Len(s)), room - k))
DeflateFrom(m, s, n, k, factor) ==
  DeflateRest(Begun(m, 1, n, Encoded(InUtf8, SubSeq(s, 1, k))), s, k, factor * n)
Deflate(m, s, n, factor) == DeflateFrom(m, s, n, MovedToUtf8(s, n, TRUE), factor)

(* utf8-to-utf16 and latin1-to-utf16: at most a unit for each byte. *)
Inflate(m, units, k, n) == Fitted(Begun(m, 2, 2 * n, SubSeq(units, 1, k)), k, k \div 2)
ToUtf16(m, s, n) ==
  LET units == Encoded(InUtf16, s) IN Inflate(m, units, Min({Len(units), 2 * n}), n)

(* utf8-to-latin1 and utf16-to-latin1: the Latin-1 front. *)
Latin1Front(s) == SubSeq(s, 1, Leading(s, Latin1))

(* utf8-to-compact-utf16 and utf16-to-compact-utf16: the k bytes that the  *)
(* front took are widened and the rest is written after them.              *)
Compacted(m, k, rest) == Into(WidenedBlock(m, k), 2 * k, Encoded(InUtf16, rest))

CompactRest(begun, s, k, n, tag) ==
  IF k = Len(s) THEN Fitted(begun, k, k)
  ELSE Tagged(Fitted(Compacted(Grown(begun, 2 * n), k, SubSeq(s, k + 1, Len(s))),
                     2 * Length(s), Length(s)),
              tag)
ToCompact(m, s, n, tag) ==
  CompactRest(Begun(m, 2, n, Encoded(InLatin1, Latin1Front(s))), s, Leading(s, Latin1), n, tag)

(* utf16-to-compact-probably-utf16: the units are copied, and when all are *)
(* Latin-1 their low bytes are gathered at the front.                      *)
Gathered(copied, n) == Into(copied, 0, [i \in 1..n |-> copied[Len(copied)].cells[2 * i - 1]])
ProbablyUtf16(m, s, n, tag) ==
  LET copied == Begun(m, 2, 2 * n, Encoded(InUtf16, s))
  IN  IF \A i \in 1..Len(s) : s[i] \in Latin1 THEN Fitted(Gathered(copied, n), n, n)
      ELSE Tagged(Stored(copied, n), tag)

(* The same encoding on both sides: validated and copied. *)
Copied(m, s, form, to, n) ==
  Stored(Begun(m, UnitAlign(to), UnitBytes(form) * n, Encoded(Codec(form), s)), n)

TranscodedText(m, s, n, from, form, to, tag) ==
  CASE to = form \/ (to = "latin1+utf16" /\ form = "latin1") -> Copied(m, s, form, to, n)
    [] to = "utf8" /\ form # "utf8"       -> Deflate(m, s, n, IF form = "utf16" THEN 3 ELSE 2)
    [] to = "utf16" /\ form # "utf16"     -> ToUtf16(m, s, n)
    [] to = "latin1+utf16" /\ from = "latin1+utf16" /\ form = "utf16"
                                          -> ProbablyUtf16(m, s, n, tag)
    [] to = "latin1+utf16" /\ form = from -> ToCompact(m, s, n, tag)
Source(m, ptr, units, from, tag) == LoadString(m, ptr, units, from, tag)
Transcoded(m, ptr, units, from, to, tag) ==
  TranscodedText(m, Source(m, ptr, units, from, tag).v, Count(from, units, tag),
                 from, Form(from, units, tag), to, tag)
=============================================================================
