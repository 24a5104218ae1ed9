---------------------------- MODULE MC_ShortenUrl ----------------------------
(***************************************************************************)
(* Instances of ShortenUrl.tla whose candidates are computed by the         *)
(* reference of generate_slug (SlugStream.tla) from small hashes: base-3    *)
(* words below 9 and slugs of two or three digits.  With slugs of two, word *)
(* k of two digits d0 + 3 * d1 is the block k + 1.                          *)
(***************************************************************************)
EXTENDS ShortenUrl, SlugStream, TLC

CONSTANTS u1, u2, u3

(* The words found past the end of the hash.                                *)
JunkWords == {0, 8}

SlugAt(len, words, junk, n) ==
  LET stream == Stream(3, words @@ (4 :> junk), 4)
  IN  IF HasBlock(stream, len, n) THEN Block(stream, len, n) ELSE OutOfHashes

CandidatesOf(len, hashes) ==
  [u \in DOMAIN hashes |->
     [n \in 2..MaxTries |-> {SlugAt(len, hashes[u], j, n) : j \in JunkWords}]]

SlugsIn(candidates) ==
  UNION {UNION {candidates[u][n] : n \in 2..MaxTries} : u \in DOMAIN candidates}
    \ {OutOfHashes}

(* All three URLs have the same first candidate, and share later ones.      *)
CollidingHashes ==
  u1 :> (0 :> 4 @@ 1 :> 3 @@ 2 :> 4 @@ 3 :> 5) @@
  u2 :> (0 :> 4 @@ 1 :> 3 @@ 2 :> 5 @@ 3 :> 4) @@
  u3 :> (0 :> 7 @@ 1 :> 3 @@ 2 :> 4 @@ 3 :> 8)
Colliding3 == CandidatesOf(2, CollidingHashes)
CollidingSlugs == SlugsIn(Colliding3)

(* Hashes of mostly empty words and slugs of three characters: u1 and u3    *)
(* have the same slug or none at all, as the word past the hash has it; u2  *)
(* always has another.                                                      *)
SparseHashes ==
  u1 :> (0 :> 1 @@ 1 :> 0 @@ 2 :> 0 @@ 3 :> 0) @@
  u2 :> (0 :> 4 @@ 1 :> 3 @@ 2 :> 0 @@ 3 :> 0) @@
  u3 :> (0 :> 2 @@ 1 :> 0 @@ 2 :> 0 @@ 3 :> 0)
Sparse3 == CandidatesOf(3, SparseHashes)
SparseSlugs == SlugsIn(Sparse3)

Urls3 == {u1, u2, u3}

(* The instance of shorten_collisions meets the hypotheses of the theorems. *)
ASSUME CollidingInstance ==
  Candidates = Colliding3 => LastTryHarmless /\ Repeatable
=============================================================================
