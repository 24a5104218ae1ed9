-------------------------------- MODULE UrlMap --------------------------------
(***************************************************************************)
(* What a URL shortener promises, with no threads, retries or hashes in it: *)
(* a slug is bound to a URL at most once, a client is only ever told of a   *)
(* binding that is there, and a binding goes away only by a loss of storage *)
(* (and never at all when storage is not lost).  ShortenUrl.tla implements  *)
(* it with variables db and told.                                           *)
(***************************************************************************)
CONSTANTS
  Slugs,
  LongUrls,
  None,         \* no URL
  MayForget     \* whether the storage can lose bindings

VARIABLES
  map,          \* the bindings: Slugs -> LongUrls or None
  told          \* the pairs <<slug, url>> clients were told of

Init ==
  /\ map = [s \in Slugs |-> None]
  /\ told = {}

(* Bind a free slug.                                                        *)
Store(s, u) ==
  /\ map[s] = None
  /\ map' = [map EXCEPT ![s] = u]
  /\ UNCHANGED told

(* Tell a client that s leads to u.                                         *)
Tell(s, u) ==
  /\ map[s] = u
  /\ told' = told \cup {<<s, u>>}
  /\ UNCHANGED map

(* Lose the bindings of the slugs in S.                                     *)
Forget(S) ==
  /\ MayForget
  /\ map' = [s \in Slugs |-> IF s \in S THEN None ELSE map[s]]
  /\ UNCHANGED told

Next ==
  \/ \E s \in Slugs, u \in LongUrls : Store(s, u) \/ Tell(s, u)
  \/ \E S \in SUBSET Slugs : Forget(S)

Spec == Init /\ [][Next]_<<map, told>>
=============================================================================
