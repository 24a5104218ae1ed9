----------------------------- MODULE GenerateSlug -----------------------------
(***************************************************************************)
(* UrlShorteningConfig::generate_slug of url_shortener/url_shortening.cc,   *)
(* one step per loop iteration.  The 256-bit HighwayHash of the long URL is *)
(* an input: any four words.  result[4] is the memory after the array: the  *)
(* code can read it, and what it holds is arbitrary, so it is an input too. *)
(***************************************************************************)
EXTENDS Integers, Sequences, SlugStream

CONSTANTS
  alphabet,     \* the file-static alphabet of url_shortening.cc
  alphabet_,    \* the configured alphabet (ReadOnlyAppConfig::alphabet)
  slug_length_, \* the configured length of a slug
  WordMax,      \* the largest machine word (2^64 - 1 in the code)
  MaxNthTry,    \* bound on the nth_try argument (do_shorten_url: 100)
  Junk          \* the character read past the end of the static alphabet

ASSUME GenerateSlugAssumption ==
  /\ Len(alphabet_) \in Nat \ {0, 1}   \* a base-1 numeral never ends
  /\ slug_length_ \in Nat \ {0}
  /\ WordMax \in Nat
  /\ MaxNthTry \in Nat

VARIABLES
  hash,         \* the words as hashed, kept to state what the result must be
  asked,        \* the nth_try argument as passed
  result,       \* the words, divided down while digits are taken
  result_idx,   \* the word being consumed
  nth_try,      \* blocks still to produce
  i,            \* characters of the current block already produced
  dst,          \* the current block
  pc            \* "while", "for", or the value returned: "true", "false"

vars == <<hash, asked, result, result_idx, nth_try, i, dst, pc>>

Word == 0..WordMax
HashWords == 4                  \* sizeof(result) / sizeof(result[0])
alphabet_len == Len(alphabet_)

(* alphabet[k] of the code: an unchecked index into the static alphabet.    *)
CharAt(k) == IF k < Len(alphabet) THEN alphabet[k + 1] ELSE Junk

Init ==
  /\ hash \in [0..HashWords -> Word]
  /\ asked \in 1..MaxNthTry
  /\ result = hash
  /\ result_idx = 0
  /\ nth_try = asked
  /\ i = 0
  /\ dst = << >>
  /\ pc = "while"

(* while (nth_try-- > 0): start the next block from an empty dst.           *)
NextBlock ==
  /\ pc = "while"
  /\ nth_try > 0
  /\ nth_try' = nth_try - 1
  /\ dst' = << >>
  /\ i' = 0
  /\ pc' = "for"
  /\ UNCHANGED <<hash, asked, result, result_idx>>

ReturnTrue ==
  /\ pc = "while"
  /\ nth_try = 0
  /\ pc' = "true"
  /\ UNCHANGED <<hash, asked, result, result_idx, nth_try, i, dst>>

BlockDone ==
  /\ pc = "for"
  /\ i = slug_length_
  /\ pc' = "while"
  /\ UNCHANGED <<hash, asked, result, result_idx, nth_try, i, dst>>

(* The word the next character comes from: the next one when the current    *)
(* one is used up.                                                          *)
IdxForNextChar == IF result[result_idx] = 0 THEN result_idx + 1 ELSE result_idx

(* The test `result_idx > 4' made before the read of result[result_idx].    *)
OutOfHashes == IdxForNextChar > HashWords

(* The character is taken without dividing the word down.                   *)
AppendCharKeepsWord ==
  /\ pc = "for" /\ i < slug_length_ /\ ~OutOfHashes
  /\ result_idx' = IdxForNextChar
  /\ dst' = Append(dst, CharAt(result[result_idx'] % alphabet_len))
  /\ i' = i + 1
  /\ UNCHANGED <<hash, asked, result, nth_try, pc>>

AppendChar ==
  /\ pc = "for"
  /\ i < slug_length_
  /\ ~OutOfHashes
  /\ result_idx' = IdxForNextChar
  /\ dst' = Append(dst, CharAt(result[result_idx'] % alphabet_len))
  /\ result' = [result EXCEPT ![result_idx'] = @ \div alphabet_len]
  /\ i' = i + 1
  /\ UNCHANGED <<hash, asked, nth_try, pc>>

ReturnFalse ==
  /\ pc = "for"
  /\ i < slug_length_
  /\ OutOfHashes
  /\ result_idx' = IdxForNextChar
  /\ pc' = "false"
  /\ UNCHANGED <<hash, asked, result, nth_try, i, dst>>

generate_slug == NextBlock \/ BlockDone \/ AppendChar \/ ReturnTrue \/ ReturnFalse

Returned == pc \in {"true", "false"}

(* The caller keeps the returned value: nothing more happens.               *)
Next == generate_slug \/ (Returned /\ UNCHANGED vars)

Spec == Init /\ [][Next]_vars

-----------------------------------------------------------------------------
TypeOK ==
  /\ result \in [0..HashWords -> Word]
  /\ result_idx \in 0..HashWords + 1
  /\ nth_try \in 0..MaxNthTry
  /\ i \in 0..slug_length_
  /\ Len(dst) <= slug_length_
  /\ pc \in {"while", "for", "true", "false"}

ReferenceStream == Stream(alphabet_len, hash, HashWords)

(* generate_slug returns the asked-for block of the URL's digit stream,     *)
(* spelled in the alphabet, and fails exactly when the stream is too short: *)
(* carrying result and result_idx from one retry to the next loses no       *)
(* digit, repeats none, and overlaps no two retries.  The stream includes   *)
(* the word past the hash, because the code reads it.                       *)
MatchesReference ==
  /\ pc = "true" =>
       /\ HasBlock(ReferenceStream, slug_length_, asked)
       /\ dst = [k \in 1..slug_length_ |->
                   CharAt(Block(ReferenceStream, slug_length_, asked)[k])]
  /\ pc = "false" => ~HasBlock(ReferenceStream, slug_length_, asked)
=============================================================================
