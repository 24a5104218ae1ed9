------------------------------ MODULE SlugStream ------------------------------
(***************************************************************************)
(* Reference definition of the slugs a hashed URL has.  A hash is a list    *)
(* of machine words; each word is a little-endian numeral in base           *)
(* `base' (the alphabet's length), and the numerals of the words, one       *)
(* after the other, form the URL's digit stream.  The slug of the n-th      *)
(* attempt is the n-th block of `len' digits.  GenerateSlug.tla shows that  *)
(* UrlShorteningConfig::generate_slug computes exactly this.                *)
(***************************************************************************)
EXTENDS Integers, Sequences

(* The base-`base' digits of w, least significant first; none for 0.        *)
Digits(base, w) ==
  LET d[v \in 0..w] == IF v = 0 THEN << >>
                       ELSE <<v % base>> \o d[v \div base]
  IN  d[w]

(* A word after the first is read at least once, so 0 counts as one digit.  *)
LaterDigits(base, w) == IF w = 0 THEN <<0>> ELSE Digits(base, w)

(* The digits of the words first..last of the array `words' (from 0).       *)
Stream(base, words, last) ==
  LET s[k \in 0..last] == IF k = 0 THEN Digits(base, words[0])
                          ELSE s[k - 1] \o LaterDigits(base, words[k])
  IN  s[last]

(* The n-th block of len digits exists, and what it is.                     *)
HasBlock(stream, len, n) == n * len <= Len(stream)
Block(stream, len, n) == SubSeq(stream, (n - 1) * len + 1, n * len)
=============================================================================
