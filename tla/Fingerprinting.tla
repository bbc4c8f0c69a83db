---------------------------- MODULE Fingerprinting ----------------------------
(***************************************************************************)
(* How a text becomes fingerprints (provenex/core/normalizer.py, hasher.py *)
(* and fingerprinter.py): the text is normalized, a Rabin-Karp hasher is   *)
(* primed with the first window and rolled over the rest one codepoint at  *)
(* a time, and every stride-th window is emitted.  A retrieved chunk is    *)
(* looked up by fingerprint_chunk(), which normalizes and hashes it whole. *)
(*                                                                         *)
(* A text is a sequence of characters, a few of Unicode's that the four    *)
(* normalization steps tell apart and that compose and fold among          *)
(* themselves.  SHA-256 of a text is the text.                             *)
(***************************************************************************)
EXTENDS Integers, SequencesExt

CONSTANTS
    Base, Mod,      \* _BASE and _MOD
    Alphabets,      \* bound: an input is written in one of these sets of characters
    MaxLength,      \* bound: length of the input
    MaxWindow,      \* bound: window_size
    MaxStride       \* bound: stride

(* Dot above U+0307, diaeresis U+0308 and perispomeni U+0342.               *)
Mark == {"mark", "dots", "peri"}

(* The s with a dot is U+1E61; the iota with diaeresis, with perispomeni    *)
(* and with both ("full") are U+03CA, U+1FD6 and U+1FD7.                    *)
Character == Mark \cup {"s", "s_mark", "sharp_s", "Q", "q", "iota", "iota_dots",
                        "iota_peri", "full", "zero_width", "space"}

ASSUME FingerprintingAssumption ==
    /\ {Base, Mod, MaxWindow, MaxStride} \subseteq Nat \ {0}
    /\ MaxLength \in Nat
    /\ Alphabets \subseteq SUBSET Character

(* The pairs that NFC composes, and what they become.                       *)
Pairs == {<<"s", "mark">>, <<"iota", "dots">>, <<"iota", "peri">>, <<"iota_dots", "peri">>}

Composite == [pair \in Pairs |->
    CASE pair = <<"s", "mark">> -> "s_mark"
      [] pair = <<"iota", "dots">> -> "iota_dots"
      [] pair = <<"iota", "peri">> -> "iota_peri"
      [] pair = <<"iota_dots", "peri">> -> "full"]

(* str.casefold() expands: sharp s to two letters, and an iota that bears a *)
(* perispomeni to the letter and its marks.                                 *)
Folding == [c \in Character |->
    CASE c = "Q" -> <<"q">>
      [] c = "sharp_s" -> <<"s", "s">>
      [] c = "iota_peri" -> <<"iota", "peri">>
      [] c = "full" -> <<"iota", "dots", "peri">>
      [] OTHER -> <<c>>]

Codepoint == [c \in Character |->
    CASE c = "space" -> 1 [] c = "Q" -> 2 [] c = "q" -> 3 [] c = "s" -> 4
      [] c = "sharp_s" -> 5 [] c = "mark" -> 6 [] c = "dots" -> 7 [] c = "peri" -> 8
      [] c = "iota" -> 9 [] c = "iota_dots" -> 10 [] c = "s_mark" -> 11
      [] c = "iota_peri" -> 12 [] c = "full" -> 13 [] c = "zero_width" -> 14]

NormalizationOptions ==
    [nfc : BOOLEAN, zeroWidth : BOOLEAN, caseFold : BOOLEAN, whitespace : BOOLEAN]

FingerprinterConfig == [window : 1..MaxWindow, stride : 1..MaxStride]

(* sha256 is injective: a fingerprint is the characters it is made of.      *)
WindowHash == [offset : Nat, length : Nat \ {0}, rolling : 0..(Mod - 1),
               fingerprint : Seq(Character)]

VARIABLES
    text,           \* the input, then norm.text
    options,        \* NormalizationOptions
    window, stride, \* FingerprinterConfig
    stage,          \* "raw", "normalized", "rolling", "done"
    position,       \* i: where the window of the hasher starts
    value,          \* of the RollingHasher
    windows         \* emitted: offset, length, rolling hash and fingerprint

hashVars == <<text, options, window, stride, stage, position, value, windows>>

-----------------------------------------------------------------------------
(* TextNormalizer.normalize().                                             *)

(* What a pass makes of the next character, after `out`.  NFC composes a    *)
(* mark with the character before it.  (It decomposes first, which for      *)
(* these characters it then undoes, and a mark that composes with nothing   *)
(* keeps those behind it from composing: the three are of one class.)       *)
(* Collapsing drops a space at the start and after a space.                 *)
Put(pass, out, c) ==
    CASE pass = "nfc" ->
           IF out # <<>> /\ <<Last(out), c>> \in Pairs
           THEN Append(Front(out), Composite[<<Last(out), c>>]) ELSE Append(out, c)
      [] pass = "zeroWidth" -> IF c = "zero_width" THEN out ELSE Append(out, c)
      [] pass = "caseFold" -> out \o Folding[c]
      [] pass = "whitespace" ->
           IF c = "space" /\ (out = <<>> \/ Last(out) = "space") THEN out ELSE Append(out, c)

Passed(pass, t) ==
    LET out[i \in 0..Len(t)] == IF i = 0 THEN <<>> ELSE Put(pass, out[i - 1], t[i])
    IN  out[Len(t)]

(* Collapsing ends with strip(): at most one space is left at the end.      *)
Pass(pass, t) ==
    LET out == Passed(pass, t)
    IN  IF pass = "whitespace" /\ out # <<>> /\ Last(out) = "space" THEN Front(out) ELSE out

(* A pass has the name of the option that enables it.                       *)
If(o, pass, t) == IF o[pass] THEN Pass(pass, t) ELSE t

NormalizeCollapsingFirst(t, o) ==
    If(o, "caseFold", If(o, "zeroWidth", If(o, "whitespace", If(o, "nfc", t))))

Normalize(t, o) ==
    If(o, "whitespace", If(o, "caseFold", If(o, "zeroWidth", If(o, "nfc", t))))

FingerprintChunkVerbatim(t) == t

FingerprintChunk(t) == Normalize(t, options)

HashInit ==
    /\ text \in UNION {[1..n -> A] : n \in 0..MaxLength, A \in Alphabets}
    /\ options \in NormalizationOptions
    /\ window = 1 /\ stride = 1
    /\ stage = "raw"
    /\ position = 0 /\ value = 0
    /\ windows = <<>>

(* fingerprint(), with the configuration of this Fingerprinter. *)
Begin(c) ==
    /\ stage = "raw"
    /\ text' = Normalize(text, options)
    /\ window' = c.window /\ stride' = c.stride
    /\ stage' = "normalized"
    /\ UNCHANGED <<options, position, value, windows>>

-----------------------------------------------------------------------------
(* RollingHasher.                                                          *)

HashOf(t) ==
    LET h[i \in 0..Len(t)] ==
            IF i = 0 THEN 0 ELSE (h[i - 1] * Base + Codepoint[t[i]]) % Mod
    IN  h[Len(t)]

TopPower(w) ==
    LET power[k \in 0..(w - 1)] == IF k = 0 THEN 1 ELSE Base * power[k - 1]
    IN  power[w - 1] % Mod

Rolled(h, w, out, in) ==
    (((h - Codepoint[out] * TopPower(w)) % Mod) * Base + Codepoint[in]) % Mod

Emit(offset, length, rolling) ==
    [offset |-> offset, length |-> length, rolling |-> rolling,
     fingerprint |-> SubSeq(text, offset + 1, offset + length)]

(* iter_window_hashes(): nothing for the empty text, one window for a text  *)
(* that is not longer than a window; else the hasher is primed.             *)
Prime ==
    /\ stage = "normalized"
    /\ LET length == IF Len(text) <= window THEN Len(text) ELSE window
           h == HashOf(SubSeq(text, 1, length))
       IN  /\ value' = h
           /\ windows' = IF text = <<>> THEN <<>> ELSE <<Emit(0, length, h)>>
    /\ stage' = IF Len(text) <= window THEN "done" ELSE "rolling"
    /\ UNCHANGED <<text, options, window, stride, position>>

(* One turn of the loop.  (The codepoint leaving is that at `position`,     *)
(* the one entering that at `position + window`, both counted from 0.)      *)
RollStoppingShort ==
    /\ stage = "rolling"
    /\ position' = position + 1
    /\ value' = Rolled(value, window, text[position + 1], text[position + window + 1])
    /\ windows' = IF position' % stride = 0 /\ position' < Len(text) - window
                  THEN Append(windows, Emit(position', window, value')) ELSE windows
    /\ stage' = IF position' = Len(text) - window THEN "done" ELSE "rolling"
    /\ UNCHANGED <<text, options, window, stride>>

Roll ==
    /\ stage = "rolling"
    /\ position' = position + 1
    /\ value' = Rolled(value, window, text[position + 1], text[position + window + 1])
    /\ windows' = IF position' % stride = 0
                  THEN Append(windows, Emit(position', window, value')) ELSE windows
    /\ stage' = IF position' = Len(text) - window THEN "done" ELSE "rolling"
    /\ UNCHANGED <<text, options, window, stride>>

HashNext ==
    \/ \E c \in FingerprinterConfig : Begin(c)
    \/ Prime
    \/ Roll

HashSpec == HashInit /\ [][HashNext]_hashVars

-----------------------------------------------------------------------------
(* Properties.                                                             *)

(* A zero-width character in front of a mark keeps NFC from composing the   *)
(* mark with what stands before it, and is stripped only afterwards.        *)
Split(t) == \E i \in 2..Len(t) : t[i - 1] = "zero_width" /\ t[i] \in Mark

(* Folding runs after NFC, and what it expands is not composed again.       *)
Expands(t) ==
    LET composed == Pass("nfc", t)
    IN  \E i \in 1..Len(composed) : Len(Folding[composed[i]]) > 1

(* These two apart, the normal form hides what it should hide: it is its    *)
(* own normal form, zero-width characters make no difference, and neither   *)
(* do the two spellings of a character with a mark.  (The latter two do not *)
(* mind a folding that expands.)                                            *)
NormalFormIsStable ==
    (stage = "raw" /\ ~ (options.nfc /\ options.zeroWidth /\ Split(text))) =>
        LET normal == Normalize(text, options)
        IN  /\ ~ (options.nfc /\ options.caseFold /\ Expands(text)) =>
                   Normalize(normal, options) = normal
            /\ options.zeroWidth => Normalize(Pass("zeroWidth", text), options) = normal
            /\ options.nfc => Normalize(Pass("nfc", text), options) = normal

(* The windows are those at the multiples of the stride, in order, none     *)
(* missing and none past the end; one covers a short text, and what follows *)
(* the last of them is shorter than a stride.  Rolling from window to       *)
(* window never drifts from hashing the window.                             *)
WindowsAreExact ==
    /\ windows \in Seq(WindowHash)
    /\ stage = "rolling" =>
           value = HashOf(SubSeq(text, position + 1, position + window))
    /\ stage = "done" =>
           /\ windows = [k \in 1..Len(windows) |->
                  LET length == IF Len(text) < window THEN Len(text) ELSE window
                      offset == (k - 1) * stride
                  IN  Emit(offset, length, HashOf(SubSeq(text, offset + 1, offset + length)))]
           /\ (text # <<>>) <=> (windows # <<>>)
           /\ text # <<>> => Len(text) - (Last(windows).offset + Last(windows).length) < stride

(* A window of a text that no enabled pass changes any more is found, when  *)
(* somebody retrieves it, exactly if no space is at its ends: a window that *)
(* starts or ends in one is indexed under a fingerprint no lookup computes, *)
(* all others are found.                                                    *)
WindowIsFound ==
    (/\ stage = "done" /\ options.whitespace
     /\ \A pass \in DOMAIN options : options[pass] => Pass(pass, text) = text) =>
        \A k \in DOMAIN windows :
            LET w == windows[k].fingerprint
            IN  FingerprintChunk(w) = w <=> (Head(w) # "space" /\ Last(w) # "space")
=============================================================================
