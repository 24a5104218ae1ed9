--------------------------- MODULE WebServerProofs ---------------------------
(***************************************************************************)
(* Proofs about WebServer.tla for any settings, front-end directory, paths  *)
(* and methods.                                                             *)
(***************************************************************************)
EXTENDS WebServer, SequenceTheorems, WellFoundedInduction, TLAPS

(* What paths are made of.  The provers know no string to be in STRING.     *)
Symbols == STRING \cup {"/", "index.html"}

(* A server has a configuration from the time it is loaded: the length of a *)
(* slug fits a byte.                                                        *)
ConfigInv ==
  phase \in {"loaded", "serving"} =>
    /\ config.slug_length \in 0..ByteModulus - 1
    /\ config.alphabet_len \in Nat

(* What the cache of front-end files holds are names.                       *)
CacheInv == frontend_dir_cache \subseteq Seq(Symbols) \ {<< >>}

(* Requests are only routed once main has set everything up.                *)
ServingInv == routed # Nothing => phase = "serving"

(* The root of static files is a path.                                      *)
RootInv == doc_root \in Seq(Seq(STRING))

RouterInv ==
  /\ ConfigInv
  /\ CacheInv
  /\ RootInv
  /\ ServingInv
  /\ SlugsCanBeMade
  /\ TrustsWhatIsListed
  /\ LinksLeadBack
  /\ EveryShorteningCounted
  /\ ServedBelowRoot
  /\ PagesServedAsThemselves

-----------------------------------------------------------------------------
(* A nonempty set of natural numbers has a least element, and Min is it.    *)
LEMMA LeastNatural ==
  ASSUME NEW I \in SUBSET Nat, I # {}
  PROVE  Min(I) \in I /\ \A j \in I : Min(I) <= j
  <1>1. \E x \in I : \A y \in I : ~ (<<y, x>> \in OpToRel(<, Nat))
    BY NatLessThanWellFounded, WFMin
  <1>2. PICK x \in I : \A y \in I : ~ (<<y, x>> \in OpToRel(<, Nat))
    BY <1>1
  <1>3. \A y \in I : ~ (y < x)
    BY <1>2, Zenon DEF OpToRel
  <1>4. \A y \in I : x <= y
    BY <1>3
  <1> QED BY <1>4 DEF Min

(* getPath leaves the URL up to its first question mark.                    *)
LEMMA PathOfUrl ==
  ASSUME NEW url \in Urls
  PROVE  /\ getPath(url) \in Seq(Symbols)
         /\ getPath(url) # << >>
         /\ \A k \in 1..Len(getPath(url)) : getPath(url)[k] # "?"
  <1> DEFINE I == {i \in 1..Len(url) : url[i] = "?"}
  <1>1. url \in Seq(Symbols) /\ url # << >> /\ url[1] # "?"
    <2>1. url \in Seq(STRING) /\ url # << >> /\ Head(url) # "?"
      BY WebServerAssumption
    <2>2. url \in Seq(Symbols)
      BY <2>1, SeqMonotonic DEF Symbols
    <2> QED BY <2>1, <2>2
  <1>2. Len(url) \in Nat \ {0}
    BY <1>1, EmptySeq
  <1>3. CASE I = {}
    <2>1. getPath(url) = url
      BY <1>3 DEF getPath, SelectInSeq
    <2> QED BY <2>1, <1>1, <1>3
  <1>4. CASE I # {}
    <2>1. I \in SUBSET Nat
      BY <1>2
    <2>2. Min(I) \in I /\ \A j \in I : Min(I) <= j
      BY <1>4, <2>1, LeastNatural
    <2> DEFINE k == Min(I)
    <2>3. k \in 2..Len(url)
      BY <1>1, <1>2, <2>2
    <2>4. getPath(url) = SubSeq(url, 1, k - 1)
      <3>1. SelectInSeq(url, LAMBDA t : t = "?") = k
        BY <1>4, Zenon DEF SelectInSeq
      <3>2. k # 0
        BY <1>2, <2>3
      <3> QED BY <3>1, <3>2, Zenon DEF getPath
    <2>5. \A i \in 1..k - 1 : url[i] \in Symbols /\ url[i] # "?"
      BY <1>1, <1>2, <2>2, <2>3
    <2> HIDE DEF k
    <2>6. /\ SubSeq(url, 1, k - 1) \in Seq(Symbols)
          /\ Len(SubSeq(url, 1, k - 1)) = k - 1
          /\ \A i \in 1..k - 1 : SubSeq(url, 1, k - 1)[i] = url[i]
      BY <2>3, <2>5, SubSeqProperties
    <2> QED BY <2>3, <2>4, <2>5, <2>6, EmptySeq
  <1> QED BY <1>3, <1>4

(* parse_out_request_str of a path without a query: all of it after the     *)
(* slash, if that is legal, or nothing.                                     *)
LEMMA ParsedIsWhole ==
  ASSUME NEW src \in Seq(Symbols), src # << >>,
         \A k \in 1..Len(src) : src[k] # "?"
  PROVE  LET whole == /\ Len(src) <= MaxRequestStrLen
                      /\ src[1] = "/"
                      /\ \A k \in 2..Len(src) : Legal(src[k])
         IN  parse_out_request_str(src) = IF whole THEN Tail(src) ELSE << >>
  <1> DEFINE I == {i \in 2..Len(src) : ~Legal(src[i])}
             e == SelectInSubSeq(src, 2, Len(src), LAMBDA t : ~Legal(t))
             fits == Len(src) <= MaxRequestStrLen /\ src[1] = "/"
             parsed == parse_out_request_str(src)
  <1>1. Len(src) \in Nat /\ I \in SUBSET Nat
    BY EmptySeq
  <1>2. e = IF I # {} THEN Min(I) ELSE 0
    BY Zenon DEF SelectInSubSeq
  <1>3. (Len(src) > MaxRequestStrLen \/ src[1] # "/") <=> ~fits
    BY <1>1, WebServerAssumption
  <1>4. CASE ~fits
    <2>1. parsed = << >>
      BY <1>3, <1>4, Zenon DEF parse_out_request_str
    <2> QED BY <1>4, <2>1, Zenon
  <1>5. CASE fits /\ I = {}
    <2>1. e = 0
      BY <1>2, <1>5, Zenon
    <2>2. parsed = Tail(src)
      BY <1>3, <1>5, <2>1, Zenon DEF parse_out_request_str
    <2>3. \A k \in 2..Len(src) : Legal(src[k])
      BY <1>5
    <2> QED BY <1>5, <2>2, <2>3, Zenon
  <1>6. CASE fits /\ I # {}
    <2>1. e \in I
      BY <1>1, <1>2, <1>6, LeastNatural
    <2>2. e # 0 /\ src[e] # "?"
      BY <1>1, <2>1
    <2>3. parsed = << >>
      BY <1>3, <1>6, <2>2, Zenon DEF parse_out_request_str
    <2>4. ~\A k \in 2..Len(src) : Legal(src[k])
      BY <1>6
    <2> QED BY <2>3, <2>4, Zenon
  <1> QED BY <1>4, <1>5, <1>6, Zenon

(* The third token of a path under a directory is a slash.                  *)
LEMMA SlashAfterDirectory ==
  ASSUME NEW path \in Seq(Symbols), NEW dir,
         IsPrefix(<<"/", dir, "/">>, path)
  PROVE  3 \in 2..Len(path) /\ path[3] = "/"
  <1> DEFINE pre == <<"/", dir, "/">>
  <1>1. Len(pre) = 3 /\ pre[3] = "/"
    OBVIOUS
  <1>2. Len(path) \in Nat /\ Len(path) >= 3 /\ SubSeq(pre, 1, 3) = SubSeq(path, 1, 3)
    BY <1>1 DEF IsPrefix
  <1>3. SubSeq(pre, 1, 3)[3] = pre[3]
    BY <1>1
  <1>4. SubSeq(path, 1, 3)[3] = path[3]
    <2>1. \A i \in 1..3 : path[i] \in Symbols
      BY <1>2
    <2>2. \A i \in 1..(3 - 1 + 1) : SubSeq(path, 1, 3)[i] = path[1 + i - 1]
      BY <2>1, SubSeqProperties
    <2> QED BY <2>2
  <1> QED BY <1>1, <1>2, <1>3, <1>4

(* A path that starts with a slash is that slash and its rest.              *)
LEMMA PathIsSlashAndTail ==
  ASSUME NEW path \in Seq(Symbols), path # << >>, path[1] = "/"
  PROVE  path = <<"/">> \o Tail(path)
  <1> DEFINE t == Tail(path)
             s == <<"/">>
  <1>1. Len(path) \in Nat \ {0}
    BY EmptySeq
  <1>2. /\ t \in Seq(Symbols)
        /\ Len(t) = Len(path) - 1
        /\ \A i \in 1..Len(t) : t[i] = path[i + 1]
    BY HeadTailProperties
  <1>3. s \in Seq(Symbols) /\ Len(s) = 1 /\ s[1] = "/"
    OBVIOUS
  <1>4. /\ s \o t \in Seq(Symbols)
        /\ Len(s \o t) = Len(s) + Len(t)
        /\ \A i \in 1..Len(s) + Len(t) : (s \o t)[i] = IF i <= Len(s) THEN s[i] ELSE t[i - Len(s)]
    BY <1>2, <1>3, ConcatProperties
  <1> HIDE DEF t, s
  <1>5. Len(s \o t) = Len(path)
    BY <1>1, <1>2, <1>3, <1>4
  <1>6. ASSUME NEW i \in 1..Len(path) PROVE path[i] = (s \o t)[i]
    <2>1. i \in 1..Len(s) + Len(t)
      BY <1>1, <1>2, <1>3
    <2>2. CASE i = 1
      BY <1>3, <1>4, <2>1, <2>2
    <2>3. CASE i # 1
      <3>1. (s \o t)[i] = t[i - 1]
        BY <1>1, <1>3, <1>4, <2>1, <2>3
      <3>2. t[i - 1] = path[(i - 1) + 1] /\ (i - 1) + 1 = i
        BY <1>1, <1>2, <2>3
      <3> QED BY <3>1, <3>2
    <2> QED BY <2>2, <2>3
  <1>7. path = s \o t
    BY <1>4, <1>5, <1>6, SeqEqual
  <1> QED BY <1>7 DEF s, t

-----------------------------------------------------------------------------
(* What getPath makes of a URL.                                             *)
IsPath(path) ==
  /\ path \in Seq(Symbols)
  /\ path # << >>
  /\ \A k \in 1..Len(path) : path[k] # "?"

(* The path of a slug parses as that slug, and it is not one of a directory.*)
LEMMA SlugPath ==
  ASSUME NEW path, IsPath(path), phase = "serving", ConfigInv, PathOfSlug(path)
  PROVE  /\ parse_out_request_str(path) = Tail(path)
         /\ Tail(path) # << >>
         /\ Last(path) # "/"
         /\ ~IsPrefix(StaticPrefix, path)
         /\ ~IsPrefix(<<"/", "api", "/">>, path)
  <1>1. path \in Seq(Symbols) /\ path # << >>
    BY DEF IsPath
  <1>2. /\ Len(path) \in Nat
        /\ Len(path) = config.slug_length + 1
        /\ config.slug_length \in 1..ByteModulus - 1
        /\ path[1] = "/"
    BY <1>1, AppConfigAssumption DEF ConfigInv, PathOfSlug
  <1>3. Len(path) \in 2..MaxRequestStrLen
    BY <1>2, AppConfigAssumption, WebServerAssumption
  <1>4. \A k \in 2..Len(path) : Legal(path[k]) /\ path[k] # "/"
    <2> TAKE k \in 2..Len(path)
    <2>1. PICK m \in 1..config.alphabet_len : path[k] = alphabet[m]
      BY DEF PathOfSlug
    <2>2. m \in 1..Len(alphabet)
      <3>1. Len(alphabet) \in Nat
        BY AlphabetAssumption, LenProperties
      <3>2. config.alphabet_len \in Nat /\ config.alphabet_len <= Len(alphabet)
        BY DEF ConfigInv, PathOfSlug
      <3> QED BY <3>1, <3>2
    <2> QED BY <2>1, <2>2, AlphabetAssumption DEF Legal
  <1>5. parse_out_request_str(path) = Tail(path)
    <2>1. \A k \in 1..Len(path) : path[k] # "?"
      BY DEF IsPath
    <2>2. Len(path) <= MaxRequestStrLen
      BY <1>3, WebServerAssumption
    <2>3. \A k \in 2..Len(path) : Legal(path[k])
      BY <1>4
    <2> QED BY <1>1, <1>2, <2>1, <2>2, <2>3, ParsedIsWhole
  <1>6. Tail(path) # << >>
    <2>1. Len(Tail(path)) = Len(path) - 1
      BY <1>1, HeadTailProperties
    <2> QED BY <1>2, <1>3, <2>1, EmptySeq
  <1>7. Last(path) # "/"
    BY <1>2, <1>3, <1>4 DEF Last
  <1>8. ASSUME NEW dir, IsPrefix(<<"/", dir, "/">>, path)
        PROVE  FALSE
    BY <1>1, <1>4, <1>8, SlashAfterDirectory
  <1>9. ~IsPrefix(StaticPrefix, path)
    BY <1>8, Zenon DEF StaticPrefix
  <1>10. ~IsPrefix(<<"/", "api", "/">>, path)
    BY <1>8, Zenon
  <1> QED BY <1>5, <1>6, <1>7, <1>9, <1>10

(* A path that parses is a slash and a legal slug.                          *)
LEMMA ParsedPath ==
  ASSUME NEW path, IsPath(path), parse_out_request_str(path) # << >>
  PROVE  /\ parse_out_request_str(path) = Tail(path)
         /\ is_ok_request_path(Tail(path))
         /\ path = <<"/">> \o Tail(path)
  <1>1. path \in Seq(Symbols) /\ path # << >> /\ Len(path) \in Nat \ {0}
    BY EmptySeq DEF IsPath
  <1>2. /\ parse_out_request_str(path) = Tail(path)
        /\ Len(path) <= MaxRequestStrLen
        /\ path[1] = "/"
        /\ \A k \in 2..Len(path) : Legal(path[k])
    <2>1. \A k \in 1..Len(path) : path[k] # "?"
      BY DEF IsPath
    <2> QED BY <1>1, <2>1, ParsedIsWhole
  <1>3. /\ Tail(path) \in Seq(Symbols)
        /\ Len(Tail(path)) = Len(path) - 1
        /\ \A i \in 1..Len(Tail(path)) : Tail(path)[i] = path[i + 1]
    BY <1>1, HeadTailProperties
  <1>4. is_ok_request_path(Tail(path))
    <2>1. Len(Tail(path)) <= MaxRequestStrLen
      BY <1>1, <1>2, <1>3, WebServerAssumption
    <2>2. ASSUME NEW k \in 1..Len(Tail(path)) PROVE Legal(Tail(path)[k])
      <3>1. k + 1 \in 2..Len(path)
        BY <1>1, <1>3
      <3> QED BY <1>2, <1>3, <3>1
    <2> QED BY <2>1, <2>2 DEF is_ok_request_path
  <1>5. path = <<"/">> \o Tail(path)
    BY <1>1, <1>2, PathIsSlashAndTail
  <1> QED BY <1>2, <1>4, <1>5

-----------------------------------------------------------------------------
(* Routing leaves the configuration alone, so a slug's path is one after it.*)
LEMMA SameSlugPaths ==
  ASSUME NEW path, config' = config, routed'.path = path, PathOfSlug(routed.path)'
  PROVE  PathOfSlug(path)
  BY DEF PathOfSlug

(* The router keeps LinksLeadBack: every path of a slug that is no file     *)
(* goes to the redirect handler, as no directory is spelled like it.        *)
LEMMA RoutesLinks ==
  ASSUME NEW method, NEW path, IsPath(path), phase = "serving", ConfigInv,
         onRequest(method, path)
  PROVE  LinksLeadBack'
  <1>1. CASE RouteFrontend(method, path)
    <2>1. /\ routed'.handler = "FrontendHandler" /\ routed'.path = path
          /\ routed'.page = lookup(path) /\ lookup(path) # NoPage /\ config' = config
      BY <1>1 DEF RouteFrontend, Makes
    <2>2. ASSUME PathOfSlug(path) PROVE lookup(path) = Tail(path)
      <3>1. Last(path) # "/"
        BY <2>2, SlugPath
      <3> QED BY <2>1, <3>1, Zenon DEF lookup
    <2>3. PathOfSlug(routed.path)' => PathOfSlug(path)
      BY <2>1, SameSlugPaths
    <2>4. routed'.handler # "UrlRedirectHandler"
      BY <2>1
    <2> QED BY <2>1, <2>2, <2>3, <2>4 DEF LinksLeadBack
  <1>2. CASE RouteStatic(method, path)
    <2>1. /\ routed'.handler = "StaticHandler" /\ routed'.path = path
          /\ IsPrefix(StaticPrefix, path) /\ config' = config
      BY <1>2 DEF RouteStatic, ToStatic, Makes
    <2>2. ~PathOfSlug(path)
      BY <2>1, SlugPath
    <2>3. ~PathOfSlug(routed.path)'
      BY <2>1, <2>2, SameSlugPaths
    <2>4. routed'.handler # "UrlRedirectHandler"
      BY <2>1
    <2> QED BY <2>1, <2>3, <2>4 DEF LinksLeadBack
  <1>3. CASE RouteMakeUrl(method, path)
    <2>1. /\ routed'.handler = "MakeUrlRequestHandler" /\ routed'.method # "GET"
      BY <1>3 DEF RouteMakeUrl, ToCreate, Makes
    <2> QED BY <2>1 DEF LinksLeadBack
  <1>4. CASE RouteRedirect(method, path)
    <2>1. /\ routed'.handler = "UrlRedirectHandler" /\ routed'.path = path
          /\ routed'.slug = parse_out_request_str(path)
          /\ parse_out_request_str(path) # << >>
      BY <1>4 DEF RouteRedirect, ToRedirect, Makes
    <2>2. /\ routed'.slug = Tail(path)
          /\ is_ok_request_path(routed'.slug)
          /\ path = <<"/">> \o routed'.slug
      BY <2>1, ParsedPath
    <2>3. is_ok_request_path(routed.slug)'
      BY <2>2 DEF is_ok_request_path, Legal
    <2> QED BY <2>1, <2>2, <2>3 DEF LinksLeadBack
  <1>5. CASE RouteNotFound(method, path)
    <2>1. /\ routed'.handler = "NotFoundHandler" /\ routed'.path = path
          /\ routed'.method = method /\ config' = config
      BY <1>5 DEF RouteNotFound, Makes
    <2>2. ~ (method = "GET" /\ PathOfSlug(path))
      <3> SUFFICES ASSUME method = "GET", PathOfSlug(path) PROVE FALSE
        OBVIOUS
      <3>1. ~IsPrefix(<<"/", "api", "/">>, path) /\ parse_out_request_str(path) # << >>
        BY SlugPath
      <3> QED BY <1>5, <3>1 DEF RouteNotFound, ToApi, ToRedirect
    <2>3. ~ (routed'.method = "GET" /\ PathOfSlug(routed.path)')
      BY <2>1, <2>2, SameSlugPaths
    <2>4. routed'.handler # "UrlRedirectHandler"
      BY <2>1
    <2> QED BY <2>3, <2>4 DEF LinksLeadBack
  <1> QED BY <1>1, <1>2, <1>3, <1>4, <1>5 DEF onRequest

(* The router keeps EveryShorteningCounted: what reaches the handler is a   *)
(* POST or a PUT.                                                           *)
LEMMA RoutesCounted ==
  ASSUME NEW method, NEW path, onRequest(method, path)
  PROVE  EveryShorteningCounted'
  <1>1. CASE RouteMakeUrl(method, path)
    <2>1. routed'.counted = Protected(method, path) /\ method \in {"POST", "PUT"}
      BY <1>1 DEF RouteMakeUrl, ToCreate, Makes
    <2>2. Protected(method, path)
      BY <2>1 DEF Protected
    <2> QED BY <2>1, <2>2 DEF EveryShorteningCounted
  <1>2. CASE ~RouteMakeUrl(method, path)
    <2>1. routed'.handler # "MakeUrlRequestHandler"
      <3>1. CASE RouteFrontend(method, path)
        BY <3>1 DEF RouteFrontend, Makes
      <3>2. CASE RouteStatic(method, path)
        BY <3>2 DEF RouteStatic, Makes
      <3>3. CASE RouteRedirect(method, path)
        BY <3>3 DEF RouteRedirect, Makes
      <3>4. CASE RouteNotFound(method, path)
        BY <3>4 DEF RouteNotFound, Makes
      <3> QED BY <1>2, <3>1, <3>2, <3>3, <3>4 DEF onRequest
    <2> QED BY <2>1 DEF EveryShorteningCounted
  <1> QED BY <1>1, <1>2

-----------------------------------------------------------------------------
LEMMA SlashIsASymbol == "/" \in Symbols /\ "index.html" \in Symbols
  BY DEF Symbols

(* A path that is a slash and a name ends like the name.                    *)
LEMMA SlashAndName ==
  ASSUME NEW page \in Seq(Symbols), page # << >>
  PROVE  /\ <<"/">> \o page \in Seq(Symbols)
         /\ (<<"/">> \o page)[1] = "/"
         /\ Last(<<"/">> \o page) = Last(page)
  <1> DEFINE s == <<"/">>
  <1>1. Len(page) \in Nat \ {0}
    BY EmptySeq
  <1>2. s \in Seq(Symbols) /\ Len(s) = 1 /\ s[1] = "/"
    BY SlashIsASymbol
  <1>3. /\ s \o page \in Seq(Symbols)
        /\ Len(s \o page) = Len(s) + Len(page)
        /\ \A i \in 1..Len(s) + Len(page) :
             (s \o page)[i] = IF i <= Len(s) THEN s[i] ELSE page[i - Len(s)]
    BY <1>2, ConcatProperties
  <1> HIDE DEF s
  <1>4. (s \o page)[1] = "/"
    BY <1>1, <1>2, <1>3
  <1>5. (s \o page)[Len(s \o page)] = page[Len(page)]
    <2>1. Len(s \o page) = Len(page) + 1 /\ Len(page) + 1 \in 1..Len(s) + Len(page)
      BY <1>1, <1>2, <1>3
    <2>2. (s \o page)[Len(page) + 1] = page[(Len(page) + 1) - Len(s)]
      BY <1>1, <1>2, <1>3, <2>1
    <2> QED BY <1>1, <1>2, <2>1, <2>2
  <1> QED BY <1>3, <1>4, <1>5 DEF Last, s

(* What follows the slash of a path is one sequence.                        *)
LEMMA SlashCancels ==
  ASSUME NEW s \in Seq(Symbols), NEW t \in Seq(Symbols), <<"/">> \o s = <<"/">> \o t
  PROVE  s = t
  <1> DEFINE a == <<"/">>
  <1>1. a \in Seq(Symbols)
    BY SlashIsASymbol
  <1>2. a \o s = a \o t
    OBVIOUS
  <1> HIDE DEF a
  <1> QED BY <1>1, <1>2, ConcatSimplifications, Zenon

(* The names of the front-end files a path stands for.                      *)
Names(path) ==
  {page \in frontend_dir_cache :
     \/ path = <<"/">> \o page /\ Last(page) # "/"
     \/ path \o <<"index.html">> = <<"/">> \o page /\ Last(path) = "/"}

(* lookup finds the one file that a path stands for.                        *)
LEMMA LookupFinds ==
  ASSUME NEW path, IsPath(path), CacheInv
  PROVE  Names(path) = IF lookup(path) = NoPage THEN {} ELSE {lookup(path)}
  <1> DEFINE t == Tail(path)
             ix == <<"index.html">>
             name == IF Last(path) = "/" THEN t \o ix ELSE t
  <1>1. /\ path \in Seq(Symbols) /\ path # << >> /\ Head(path) = path[1]
        /\ t \in Seq(Symbols) /\ ix \in Seq(Symbols)
    BY HeadTailProperties, SlashIsASymbol DEF IsPath
  <1>2. ASSUME NEW page \in frontend_dir_cache
        PROVE  page \in Names(path) <=> Head(path) = "/" /\ page = name
    <2>1. page \in Seq(Symbols) /\ page # << >>
      BY DEF CacheInv
    <2>2. /\ (<<"/">> \o page)[1] = "/"
          /\ Last(<<"/">> \o page) = Last(page)
      BY <2>1, SlashAndName
    <2>3. Head(path) = "/" => path = <<"/">> \o t
      BY <1>1, PathIsSlashAndTail
    <2>4. CASE Last(path) = "/"
      <3>1. page \in Names(path) <=> path \o ix = <<"/">> \o page
        BY <2>2, <2>4 DEF Names
      <3>2. (path \o ix)[1] = path[1]
        BY <1>1
      <3>3. Head(path) = "/" => path \o ix = <<"/">> \o (t \o ix)
        BY <1>1, <2>3, ConcatAssociative
      <3>4. t \o ix \in Seq(Symbols)
        BY <1>1, ConcatProperties
      <3>5. path \o ix = <<"/">> \o page => Head(path) = "/"
        BY <1>1, <2>2, <3>2
      <3>6. Head(path) = "/" /\ <<"/">> \o (t \o ix) = <<"/">> \o page => page = t \o ix
        BY <2>1, <3>4, SlashCancels
      <3> QED BY <2>4, <3>1, <3>3, <3>5, <3>6
    <2>5. CASE Last(path) # "/"
      <3>1. page \in Names(path) <=> path = <<"/">> \o page
        BY <2>2, <2>5 DEF Names
      <3>2. path = <<"/">> \o page => Head(path) = "/"
        BY <1>1, <2>2
      <3>3. <<"/">> \o t = <<"/">> \o page => page = t
        BY <1>1, <2>1, SlashCancels
      <3> QED BY <2>3, <2>5, <3>1, <3>2, <3>3
    <2> QED BY <2>4, <2>5
  <1>3. Names(path) \subseteq frontend_dir_cache
    BY DEF Names
  <1>4. lookup(path) = IF Head(path) = "/" /\ name \in frontend_dir_cache THEN name ELSE NoPage
    BY Zenon DEF lookup
  <1>5. NoPage \notin frontend_dir_cache
    BY DEF CacheInv, NoPage
  <1> HIDE DEF name
  <1> QED BY <1>2, <1>3, <1>4, <1>5

(* An index page is an HTML page.                                           *)
LEMMA HtmlType ==
  ASSUME NEW page, Last(page) = "index.html"
  PROVE  infer_mime_type(page) = "text/html"
  <1>1. \A m \in MimeTypes : m[1] = ".html" => m = <<".html", "text/html">>
    BY DEF MimeTypes
  <1>2. <<".html", "text/html">> \in MimeTypes
    BY DEF MimeTypes
  <1>3. (CHOOSE m \in MimeTypes : m[1] = ".html") = <<".html", "text/html">>
    BY <1>1, <1>2
  <1>4. Extension[Last(page)] = ".html"
    BY WebServerAssumption
  <1>5. <<".html", "text/html">>[2] = "text/html"
    OBVIOUS
  <1>6. \E m \in MimeTypes : m[1] = ".html"
    BY <1>2
  <1> QED BY <1>3, <1>4, <1>5, <1>6, Zenon DEF infer_mime_type

(* The name of an index page ends like that.                                *)
LEMMA LastOfIndex ==
  ASSUME NEW t \in Seq(Symbols)
  PROVE  Last(t \o <<"index.html">>) = "index.html"
  <1> DEFINE ix == <<"index.html">>
  <1>1. ix \in Seq(Symbols) /\ Len(ix) = 1 /\ ix[1] = "index.html" /\ Len(t) \in Nat
    BY SlashIsASymbol
  <1>2. /\ Len(t \o ix) = Len(t) + Len(ix)
        /\ \A i \in 1..Len(t) + Len(ix) :
             (t \o ix)[i] = IF i <= Len(t) THEN t[i] ELSE ix[i - Len(t)]
    BY <1>1, ConcatProperties
  <1> HIDE DEF ix
  <1>3. (t \o ix)[Len(t) + 1] = ix[(Len(t) + 1) - Len(t)] /\ (Len(t) + 1) - Len(t) = 1
    BY <1>1, <1>2
  <1> QED BY <1>1, <1>2, <1>3 DEF Last, ix

(* PagesServedAsThemselves after a step, with the names named.              *)
LEMMA PagesByNames ==
  ASSUME (routed'.handler = "FrontendHandler") = (Names(routed.path)' # {}),
         Names(routed.path)' # {} =>
           /\ Names(routed.path)' = {routed'.page}
           /\ routed'.type = infer_mime_type(routed.page)'
           /\ Last(routed'.path) = "/" => routed'.type = "text/html"
  PROVE  PagesServedAsThemselves'
  BY Zenon DEF PagesServedAsThemselves, Names, infer_mime_type

(* The router keeps PagesServedAsThemselves: lookup is asked first, finds   *)
(* the file a path stands for, and for a directory that is an index page.   *)
LEMMA RoutesPages ==
  ASSUME NEW method, NEW path, IsPath(path), CacheInv, onRequest(method, path)
  PROVE  PagesServedAsThemselves'
  <1>1. Names(path) = IF lookup(path) = NoPage THEN {} ELSE {lookup(path)}
    BY LookupFinds
  <1>2. routed'.path = path /\ frontend_dir_cache' = frontend_dir_cache
    <2>1. CASE RouteFrontend(method, path)
      BY <2>1 DEF RouteFrontend, Makes
    <2>2. CASE RouteStatic(method, path)
      BY <2>2 DEF RouteStatic, Makes
    <2>3. CASE RouteMakeUrl(method, path)
      BY <2>3 DEF RouteMakeUrl, Makes
    <2>4. CASE RouteRedirect(method, path)
      BY <2>4 DEF RouteRedirect, Makes
    <2>5. CASE RouteNotFound(method, path)
      BY <2>5 DEF RouteNotFound, Makes
    <2> QED BY <2>1, <2>2, <2>3, <2>4, <2>5 DEF onRequest
  <1>3. Names(routed.path)' = Names(path)
    BY <1>2 DEF Names
  <1>4. CASE RouteFrontend(method, path)
    <2>1. /\ routed'.handler = "FrontendHandler" /\ routed'.page = lookup(path)
          /\ routed'.type = infer_mime_type(lookup(path)) /\ lookup(path) # NoPage
      BY <1>4 DEF RouteFrontend, Makes
    <2>2. Names(path) = {routed'.page} /\ Names(path) # {}
      BY <1>1, <2>1
    <2>3. ASSUME Last(path) = "/" PROVE routed'.type = "text/html"
      <3>1. lookup(path) = Tail(path) \o <<"index.html">>
        BY <2>1, <2>3, Zenon DEF lookup
      <3>2. Last(Tail(path) \o <<"index.html">>) = "index.html"
        <4>1. Tail(path) \in Seq(Symbols)
          BY HeadTailProperties DEF IsPath
        <4> QED BY <4>1, SlashIsASymbol, LastOfIndex
      <3> QED BY <2>1, <3>1, <3>2, HtmlType
    <2>4. infer_mime_type(routed.page)' = infer_mime_type(lookup(path))
      BY <2>1 DEF infer_mime_type
    <2> QED BY <1>2, <1>3, <2>1, <2>2, <2>3, <2>4, PagesByNames
  <1>5. CASE ~RouteFrontend(method, path)
    <2>1. lookup(path) = NoPage /\ routed'.handler # "FrontendHandler"
      <3>1. CASE RouteStatic(method, path)
        BY <3>1 DEF RouteStatic, Makes
      <3>2. CASE RouteMakeUrl(method, path)
        BY <3>2 DEF RouteMakeUrl, Makes
      <3>3. CASE RouteRedirect(method, path)
        BY <3>3 DEF RouteRedirect, Makes
      <3>4. CASE RouteNotFound(method, path)
        BY <3>4 DEF RouteNotFound, Makes
      <3> QED BY <1>5, <3>1, <3>2, <3>3, <3>4 DEF onRequest
    <2>2. Names(routed.path)' = {}
      BY <1>1, <1>3, <2>1
    <2> QED BY <2>1, <2>2, PagesByNames
  <1> QED BY <1>4, <1>5

-----------------------------------------------------------------------------
(* The positions of the delimiter from i on.                                *)
Delims(csv, d, i) == {j \in i..Len(csv) : csv[j] = d}

(* What the loop of split_csv_string makes of the text from i on, when f is *)
(* what it makes of it from later positions on.                             *)
SplitBody(csv, d, f, i) ==
  IF Delims(csv, d, i) # {}
  THEN <<SubSeq(csv, i, Min(Delims(csv, d, i)) - 1)>> \o f[Min(Delims(csv, d, i)) + 1]
  ELSE IF i <= Len(csv) THEN <<SubSeq(csv, i, Len(csv))>> ELSE << >>

IsSplit(csv, d, f) == f = [i \in 1..Len(csv) + 1 |-> SplitBody(csv, d, f, i)]

LEMMA SplitChosen ==
  ASSUME NEW csv, NEW d
  PROVE  split_csv_string(csv, d) = (CHOOSE f : IsSplit(csv, d, f))[1]
  BY DEF split_csv_string, IsSplit, SplitBody, Delims

(* From i on, the first delimiter and what is before it.                        *)
LEMMA FirstDelim ==
  ASSUME NEW S, NEW csv \in Seq(S), NEW d, NEW i \in 1..Len(csv) + 1,
         Delims(csv, d, i) # {}
  PROVE  /\ Min(Delims(csv, d, i)) \in i..Len(csv)
         /\ csv[Min(Delims(csv, d, i))] = d
         /\ \A k \in i..Min(Delims(csv, d, i)) - 1 : csv[k] # d
  <1>1. Len(csv) \in Nat /\ i \in Nat
    BY LenProperties
  <1>2. Delims(csv, d, i) \in SUBSET Nat
    <2>1. i..Len(csv) \in SUBSET Nat
      BY <1>1
    <2> QED BY <2>1, Zenon DEF Delims
  <1>3. Min(Delims(csv, d, i)) \in Delims(csv, d, i) /\ \A j \in Delims(csv, d, i) : Min(Delims(csv, d, i)) <= j
    BY <1>2, LeastNatural
  <1> DEFINE m == Min(Delims(csv, d, i))
  <1>4. m \in Delims(csv, d, i) /\ \A j \in Delims(csv, d, i) : m <= j
    BY <1>3
  <1> HIDE DEF m
  <1>5. m \in i..Len(csv)
    BY <1>4, Zenon DEF Delims
  <1>6. csv[m] = d
    BY <1>4, Zenon DEF Delims
  <1>7. ASSUME NEW k \in i..m - 1, csv[k] = d PROVE FALSE
    <2>1. k \in i..Len(csv) /\ ~(m <= k)
      <3>1. m \in Nat /\ m <= Len(csv)
        BY <1>1, <1>5
      <3> QED BY <1>1, <3>1
    <2>2. k \in Delims(csv, d, i)
      BY <1>7, <2>1, Zenon DEF Delims
    <2> QED BY <1>4, <2>1, <2>2
  <1> QED BY <1>5, <1>6, <1>7 DEF m

(* The recursive definition of split_csv_string has a solution, built from  *)
(* the end of the text.                                                     *)
LEMMA SplitExists ==
  ASSUME NEW S, NEW csv \in Seq(S), NEW d
  PROVE  \E f : IsSplit(csv, d, f)
  <1> DEFINE N == Len(csv)
             Part(j) == \E f : f = [i \in N + 1 - j..N + 1 |-> SplitBody(csv, d, f, i)]
             I == {j \in 0..N : ~Part(j)}
  <1>1. N \in Nat
    BY LenProperties
  <1>2. ASSUME I # {} PROVE FALSE
    <2>1. I \in SUBSET Nat
      BY <1>1
    <2>2. PICK x \in I : \A y \in I : x <= y
      BY <1>2, <2>1, LeastNatural
    <2>3. ASSUME NEW g, x # 0 => g = [i \in N + 2 - x..N + 1 |-> SplitBody(csv, d, g, i)]
          PROVE  FALSE
      <3> DEFINE f == [i \in N + 1 - x..N + 1 |-> SplitBody(csv, d, g, i)]
      <3>1. ASSUME NEW i \in N + 1 - x..N + 1
            PROVE  SplitBody(csv, d, g, i) = SplitBody(csv, d, f, i)
        <4>1. x \in 0..N /\ i \in 1..N + 1
          BY <1>1, <2>2
        <4>2. CASE Delims(csv, d, i) # {}
          <5> DEFINE m == Min(Delims(csv, d, i))
          <5>1. m \in i..N
            BY <4>1, <4>2, FirstDelim
          <5> HIDE DEF m
          <5>2. x # 0 /\ m + 1 \in N + 2 - x..N + 1 /\ m + 1 \in N + 1 - x..N + 1
            BY <1>1, <3>1, <4>1, <5>1
          <5>3. g[m + 1] = SplitBody(csv, d, g, m + 1)
            BY <2>3, <5>2
          <5>4. f[m + 1] = SplitBody(csv, d, g, m + 1)
            BY <5>2
          <5> HIDE DEF f
          <5> QED BY <5>3, <5>4 DEF SplitBody, m
        <4>3. CASE Delims(csv, d, i) = {}
          BY <4>3 DEF SplitBody
        <4> QED BY <4>2, <4>3
      <3>2. f = [i \in N + 1 - x..N + 1 |-> SplitBody(csv, d, f, i)]
        BY <3>1
      <3> HIDE DEF f
      <3>3. Part(x)
        BY <3>2
      <3> QED BY <2>2, <3>3
    <2>4. CASE x = 0
      BY <2>3, <2>4
    <2>5. CASE x # 0
      <3>1. x - 1 \in 0..N /\ ~(x <= x - 1) /\ N + 1 - (x - 1) = N + 2 - x
        <4>1. x \in 0..N
          BY <2>2
        <4> HIDE DEF N, I
        <4> QED BY <1>1, <2>5, <4>1
      <3>2. Part(x - 1)
        BY <2>2, <3>1
      <3>3. PICK g : g = [i \in N + 2 - x..N + 1 |-> SplitBody(csv, d, g, i)]
        BY <3>1, <3>2
      <3> QED BY <2>3, <3>3
    <2> QED BY <2>4, <2>5
  <1>3. Part(N)
    BY <1>1, <1>2
  <1>4. N + 1 - N = 1
    BY <1>1
  <1> QED BY <1>3, <1>4 DEF IsSplit

(* The entries of a text are free of the delimiter.                         *)
LEMMA SplitParts ==
  ASSUME NEW S, NEW csv \in Seq(S), NEW d
  PROVE  split_csv_string(csv, d) \in Seq(Seq(S \ {d}))
  <1> DEFINE f == CHOOSE f : IsSplit(csv, d, f)
             N == Len(csv)
             P == Seq(Seq(S \ {d}))
             I == {j \in 0..N : f[N + 1 - j] \notin P}
  <1>1. IsSplit(csv, d, f) /\ split_csv_string(csv, d) = f[1]
    BY SplitExists, SplitChosen
  <1>2. N \in Nat
    BY LenProperties
  <1> HIDE DEF f, P
  <1>3. ASSUME NEW i \in 1..N + 1, NEW e \in i - 1..N, \A k \in i..e : csv[k] # d
        PROVE  SubSeq(csv, i, e) \in Seq(S \ {d})
    <2>1. i \in Int /\ e \in Int /\ \A k \in i..e : k \in 1..N
      BY <1>2
    <2>2. \A k \in i..e : csv[k] \in S \ {d}
      BY <1>3, <2>1, ElementOfSeq
    <2> QED BY <2>1, <2>2, SubSeqProperties
  <1>4. ASSUME NEW i \in 1..N + 1, \A l \in i + 1..N + 1 : f[l] \in P PROVE f[i] \in P
    <2>1. f[i] = SplitBody(csv, d, f, i)
      BY <1>1 DEF IsSplit
    <2>2. CASE Delims(csv, d, i) # {}
      <3> DEFINE m == Min(Delims(csv, d, i))
                 s == SubSeq(csv, i, m - 1)
      <3>1. m \in i..N /\ \A k \in i..m - 1 : csv[k] # d
        BY <2>2, FirstDelim
      <3>2. f[i] = <<s>> \o f[m + 1]
        BY <2>1, <2>2 DEF SplitBody
      <3> HIDE DEF m
      <3>3. m - 1 \in i - 1..N /\ m + 1 \in i + 1..N + 1
        BY <1>2, <3>1
      <3>4. s \in Seq(S \ {d}) /\ f[m + 1] \in P
        BY <1>3, <1>4, <3>1, <3>3
      <3> HIDE DEF s
      <3>5. <<s>> \in P
        BY <3>4 DEF P
      <3> QED BY <3>2, <3>4, <3>5, ConcatProperties DEF P
    <2>3. CASE Delims(csv, d, i) = {}
      <3>1. \A k \in i..N : csv[k] # d
        BY <2>3, Zenon DEF Delims
      <3>2. f[i] = IF i <= N THEN <<SubSeq(csv, i, N)>> ELSE << >>
        BY <2>1, <2>3, Zenon DEF SplitBody
      <3>3. N \in i - 1..N
        BY <1>2
      <3>4. SubSeq(csv, i, N) \in Seq(S \ {d})
        BY <1>3, <3>1, <3>3
      <3>5. <<SubSeq(csv, i, N)>> \in P /\ << >> \in P
        BY <3>4, EmptySeq DEF P
      <3> QED BY <3>2, <3>5
    <2> QED BY <2>2, <2>3
  <1>5. ASSUME I # {} PROVE FALSE
    <2>1. I \in SUBSET Nat
      BY <1>2
    <2>2. PICK x \in I : \A y \in I : x <= y
      BY <1>5, <2>1, LeastNatural
    <2>3. x \in 0..N /\ f[N + 1 - x] \notin P /\ N + 1 - x \in 1..N + 1
      BY <1>2, <2>2
    <2>4. ASSUME NEW l \in N + 1 - x + 1..N + 1 PROVE f[l] \in P
      <3>1. N + 1 - l \in 0..N /\ ~(x <= N + 1 - l) /\ N + 1 - (N + 1 - l) = l
        BY <1>2, <2>3
      <3> QED BY <2>2, <3>1
    <2> QED BY <1>4, <2>3, <2>4
  <1>6. N \in 0..N /\ N + 1 - N = 1
    BY <1>2
  <1>7. f[1] \in P
    BY <1>5, <1>6
  <1> QED BY <1>1, <1>7 DEF P

(* Entry k of the text from i on stands alone.                              *)
Alone(csv, d, i, k) ==
  /\ k = i \/ csv[k - 1] = d
  /\ k = Len(csv) \/ csv[k + 1] = d

(* A part of the text is one token.                                         *)
LEMMA OneToken ==
  ASSUME NEW S, NEW csv \in Seq(S), NEW i \in 1..Len(csv), NEW e \in i - 1..Len(csv), NEW n
  PROVE  /\ SubSeq(csv, i, e) \in Seq(S)
         /\ SubSeq(csv, i, e) = <<n>> <=> i = e /\ csv[i] = n
  <1>1. Len(csv) \in Nat /\ i \in Int /\ e \in Int
    BY LenProperties
  <1>2. \A k \in i..e : csv[k] \in S
    BY <1>1
  <1> DEFINE s == SubSeq(csv, i, e)
  <1>3. /\ s \in Seq(S)
        /\ Len(s) = IF i <= e THEN e - i + 1 ELSE 0
        /\ \A k \in 1..e - i + 1 : s[k] = csv[i + k - 1]
    BY <1>1, <1>2, SubSeqProperties
  <1> HIDE DEF s
  <1>4. ASSUME s = <<n>> PROVE i = e /\ csv[i] = n
    <2>1. s[1] = n
      BY <1>4
    <2>2. i = e
      <3>1. Len(s) = 1
        BY <1>4
      <3>2. Len(s) = IF i <= e THEN e - i + 1 ELSE 0
        BY <1>3
      <3>3. 1 = IF i <= e THEN e - i + 1 ELSE 0
        BY <3>1, <3>2, Zenon
      <3> QED BY <1>1, <3>3
    <2>3. s[1] = csv[i + 1 - 1] /\ i + 1 - 1 = i
      BY <1>1, <1>3, <2>2
    <2> QED BY <2>1, <2>2, <2>3
  <1>5. ASSUME i = e, csv[i] = n PROVE s = <<n>>
    <2>1. Len(s) = 1 /\ s[1] = n
      BY <1>1, <1>3, <1>5
    <2>2. n \in S
      BY <1>2, <1>5
    <2>3. <<n>> \in Seq(S) /\ Len(<<n>>) = 1 /\ <<n>>[1] = n
      BY <2>2
    <2>4. \A k \in 1..Len(s) : s[k] = <<n>>[k]
      BY <2>1, <2>3
    <2> QED BY <1>3, <2>1, <2>3, <2>4, SeqEqual
  <1>6. s \in Seq(S) /\ (s = <<n>> <=> i = e /\ csv[i] = n)
    BY <1>3, <1>4, <1>5
  <1> QED BY <1>6 DEF s

ListsFrom(csv, d, f, i) ==
  \A n \in Networks : (\E k \in DOMAIN f[i] : f[i][k] = <<n>>)
    <=> \E k \in i..Len(csv) : csv[k] = n /\ Alone(csv, d, i, k)

(* With f what split_csv_string makes of the text from every position on,   *)
(* the networks among f[i] are those that stand alone from i on.            *)
LEMMA SplitLists ==
  ASSUME NEW S, NEW csv \in Seq(S), NEW d, d \notin Networks,
         NEW f, IsSplit(csv, d, f)
  PROVE  \A i \in 1..Len(csv) + 1 : ListsFrom(csv, d, f, i)
  <1> DEFINE N == Len(csv)
             Lists(i) == \A n \in Networks : (\E k \in DOMAIN f[i] : f[i][k] = <<n>>)
                           <=> \E k \in i..N : csv[k] = n /\ Alone(csv, d, i, k)
             Good(i) == f[i] \in Seq(Seq(S)) /\ Lists(i)
             I == {j \in 0..N : ~Good(N + 1 - j)}
  <1>1. N \in Nat
    BY LenProperties
  <1>2. ASSUME NEW i \in 1..N + 1, \A l \in i + 1..N + 1 : Good(l)
        PROVE  Good(i)
    <2>1. f[i] = SplitBody(csv, d, f, i)
      BY <1>2 DEF IsSplit
    <2>2. CASE Delims(csv, d, i) = {} /\ i = N + 1
      <3>1. f[i] = << >>
        BY <1>1, <2>1, <2>2 DEF SplitBody
      <3>2. i..N = {}
        BY <1>1, <2>2
      <3> QED BY <3>1, <3>2
    <2>3. CASE Delims(csv, d, i) = {} /\ i # N + 1
      <3>1. i \in 1..N
        BY <1>1, <2>3
      <3>2. f[i] = <<SubSeq(csv, i, N)>>
        BY <1>1, <2>1, <2>3, <3>1 DEF SplitBody
      <3>3. \A k \in i..N : csv[k] # d
        BY <2>3, Zenon DEF Delims
      <3>4. N \in i - 1..N
        BY <1>1, <3>1
      <3>5. SubSeq(csv, i, N) \in Seq(S)
        BY <3>1, <3>4, OneToken
      <3>6. ASSUME NEW n \in Networks
            PROVE  (\E k \in DOMAIN f[i] : f[i][k] = <<n>>)
                     <=> \E k \in i..N : csv[k] = n /\ Alone(csv, d, i, k)
        <4>1. (\E k \in DOMAIN f[i] : f[i][k] = <<n>>) <=> SubSeq(csv, i, N) = <<n>>
          <5> DEFINE s == SubSeq(csv, i, N)
          <5> HIDE DEF s
          <5>1. f[i] = <<s>>
            BY <3>2 DEF s
          <5>2. (\E k \in DOMAIN f[i] : f[i][k] = <<n>>) <=> s = <<n>>
            BY <5>1
          <5> QED BY <5>2 DEF s
        <4>2. SubSeq(csv, i, N) = <<n>> <=> i = N /\ csv[i] = n
          <5>1. \A l \in 1..Len(csv) : \A e \in l - 1..Len(csv) :
                   SubSeq(csv, l, e) = <<n>> <=> l = e /\ csv[l] = n
            BY OneToken, SMTT(30)
          <5> QED BY <3>1, <3>4, <5>1, Zenon
        <4>3. ASSUME NEW k \in i..N, Alone(csv, d, i, k) PROVE k = i /\ k = N
          <5>1. ASSUME k # i PROVE FALSE
            <6>1. k - 1 \in i..N
              BY <1>1, <3>1, <5>1
            <6> QED BY <3>3, <4>3, <5>1, <6>1, Zenon DEF Alone
          <5>2. ASSUME k # N PROVE FALSE
            <6>1. k + 1 \in i..N
              BY <1>1, <3>1, <5>2
            <6> QED BY <3>3, <4>3, <5>2, <6>1, Zenon DEF Alone
          <5> QED BY <5>1, <5>2
        <4>4. ASSUME i = N PROVE i \in i..N /\ Alone(csv, d, i, i)
          BY <1>1, <4>4 DEF Alone
        <4> QED BY <4>1, <4>2, <4>3, <4>4, Zenon
      <3>7. f[i] \in Seq(Seq(S))
        BY <3>2, <3>5
      <3> QED BY <3>6, <3>7
    <2>4. CASE Delims(csv, d, i) # {}
      <3> DEFINE m == Min(Delims(csv, d, i))
                 s == SubSeq(csv, i, m - 1)
      <3>1. m \in i..N /\ csv[m] = d /\ \A k \in i..m - 1 : csv[k] # d
        BY <2>4, FirstDelim
      <3>2. f[i] = <<s>> \o f[m + 1]
        BY <2>1, <2>4 DEF SplitBody
      <3> HIDE DEF m
      <3>3. m \in i..N
        BY <3>1
      <3>4. /\ i \in 1..N /\ m - 1 \in i - 1..N /\ m + 1 \in i + 1..N + 1
            /\ m \in Nat /\ i \in Nat
        BY <1>1, <3>3
      <3>5. s \in Seq(S)
        BY <3>4, OneToken
      <3>6. f[m + 1] \in Seq(Seq(S)) /\ Lists(m + 1)
        BY <1>2, <3>4
      <3> DEFINE g == f[m + 1]
      <3>7. <<s>> \in Seq(Seq(S)) /\ Len(<<s>>) = 1 /\ <<s>>[1] = s
        BY <3>5
      <3>8. /\ f[i] \in Seq(Seq(S))
            /\ Len(f[i]) = 1 + Len(g)
            /\ \A k \in 1..1 + Len(g) : f[i][k] = IF k <= 1 THEN <<s>>[k] ELSE g[k - 1]
        <4> HIDE DEF s
        <4>1. /\ <<s>> \o g \in Seq(Seq(S))
              /\ Len(<<s>> \o g) = Len(<<s>>) + Len(g)
              /\ \A k \in 1..Len(<<s>>) + Len(g) :
                   (<<s>> \o g)[k] = IF k <= Len(<<s>>) THEN <<s>>[k] ELSE g[k - Len(<<s>>)]
          BY <3>6, <3>7, ConcatProperties
        <4> QED BY <3>2, <3>7, <4>1
      <3>9. ASSUME NEW n \in Networks
            PROVE  (\E k \in DOMAIN f[i] : f[i][k] = <<n>>)
                     <=> \E k \in i..N : csv[k] = n /\ Alone(csv, d, i, k)
        <4>1. (\E k \in DOMAIN f[i] : f[i][k] = <<n>>)
                <=> s = <<n>> \/ \E k \in DOMAIN g : g[k] = <<n>>
          <5> HIDE DEF s, g
          <5>1. Len(g) \in Nat /\ DOMAIN g = 1..Len(g) /\ DOMAIN f[i] = 1..1 + Len(g)
            BY <3>6, <3>8, LenProperties DEF g
          <5>2. f[i][1] = s /\ 1 \in DOMAIN f[i]
            BY <3>7, <3>8, <5>1
          <5>3. ASSUME NEW k \in DOMAIN g PROVE f[i][k + 1] = g[k] /\ k + 1 \in DOMAIN f[i]
            <6>1. k \in 1..Len(g) /\ k + 1 \in 1..1 + Len(g) /\ ~(k + 1 <= 1) /\ (k + 1) - 1 = k
              BY <5>1
            <6> QED BY <3>8, <5>1, <6>1
          <5>4. ASSUME NEW k \in DOMAIN f[i], k # 1 PROVE f[i][k] = g[k - 1] /\ k - 1 \in DOMAIN g
            <6>1. k \in 1..1 + Len(g) /\ k - 1 \in 1..Len(g) /\ ~(k <= 1)
              BY <5>1, <5>4
            <6> QED BY <3>8, <5>1, <6>1
          <5> DEFINE w == <<n>>
          <5> HIDE DEF w
          <5>5. ASSUME NEW k \in DOMAIN f[i], f[i][k] = w
                PROVE  s = w \/ \E j \in DOMAIN g : g[j] = w
            <6>1. CASE k = 1
              BY <5>2, <5>5, <6>1
            <6>2. CASE k # 1
              BY <5>4, <5>5, <6>2
            <6> QED BY <6>1, <6>2
          <5>6. ASSUME s = w PROVE \E k \in DOMAIN f[i] : f[i][k] = w
            BY <5>2, <5>6
          <5>7. ASSUME NEW j \in DOMAIN g, g[j] = w PROVE \E k \in DOMAIN f[i] : f[i][k] = w
            BY <5>3, <5>7
          <5>8. (\E k \in DOMAIN f[i] : f[i][k] = w)
                  <=> s = w \/ \E k \in DOMAIN g : g[k] = w
            BY <5>5, <5>6, <5>7
          <5> QED BY <5>8, Zenon DEF w
        <4>2. s = <<n>> <=> i = m - 1 /\ csv[i] = n
          <5> DEFINE e == m - 1
          <5>1. e \in i - 1..Len(csv) /\ i \in 1..Len(csv)
            BY <3>4
          <5> HIDE DEF e
          <5>2. \A l \in 1..Len(csv) : \A r \in l - 1..Len(csv) :
                   SubSeq(csv, l, r) = <<n>> <=> l = r /\ csv[l] = n
            BY OneToken, SMTT(30)
          <5>3. SubSeq(csv, i, e) = <<n>> <=> i = e /\ csv[i] = n
            BY <5>1, <5>2
          <5> QED BY <5>3, Zenon DEF e
        <4>3. (\E k \in DOMAIN g : g[k] = <<n>>)
                <=> \E k \in m + 1..N : csv[k] = n /\ Alone(csv, d, m + 1, k)
          BY <3>6
        <4>4. ASSUME i = m - 1 PROVE i \in i..N /\ Alone(csv, d, i, i)
          <5>1. i + 1 = m /\ i \in i..N
            BY <1>1, <3>4, <4>4
          <5> QED BY <3>1, <5>1 DEF Alone
        <4>5. ASSUME NEW k \in m + 1..N
              PROVE  k \in i..N /\ (Alone(csv, d, i, k) <=> Alone(csv, d, m + 1, k))
          <5>1. k \in i..N /\ k # i /\ (k = m + 1 => k - 1 = m)
            BY <1>1, <3>4
          <5> QED BY <3>1, <5>1, Zenon DEF Alone
        <4>6. ASSUME NEW k \in i..N, csv[k] = n, Alone(csv, d, i, k), k \notin m + 1..N
              PROVE  i = m - 1 /\ k = i
          <5>1. k # m
            BY <3>1, <4>6
          <5>2. k \in i..m - 1
            BY <1>1, <3>4, <4>6, <5>1
          <5>3. ASSUME k # i PROVE FALSE
            <6>1. k - 1 \in i..m - 1
              BY <3>4, <5>2, <5>3
            <6> QED BY <3>1, <4>6, <5>3, <6>1, Zenon DEF Alone
          <5>4. ASSUME k # m - 1 PROVE FALSE
            <6>1. k + 1 \in i..m - 1 /\ k # N
              BY <1>1, <3>3, <3>4, <5>2, <5>4
            <6> QED BY <3>1, <4>6, <6>1, Zenon DEF Alone
          <5> QED BY <5>3, <5>4
        <4> QED BY <4>1, <4>2, <4>3, <4>4, <4>5, <4>6, Zenon
      <3> QED BY <3>8, <3>9
    <2> QED BY <2>2, <2>3, <2>4
  <1>3. ASSUME I # {} PROVE FALSE
    <2> HIDE DEF Good
    <2>1. I \in SUBSET Nat
      BY <1>1
    <2>2. PICK x \in I : \A y \in I : x <= y
      BY <1>3, <2>1, LeastNatural
    <2>3. x \in 0..N /\ ~Good(N + 1 - x) /\ N + 1 - x \in 1..N + 1
      BY <1>1, <2>2
    <2>4. ASSUME NEW l \in N + 1 - x + 1..N + 1 PROVE Good(l)
      <3>1. N + 1 - l \in 0..N /\ ~(x <= N + 1 - l) /\ N + 1 - (N + 1 - l) = l
        BY <1>1, <2>3
      <3> QED BY <2>2, <3>1
    <2> QED BY <1>2, <2>3, <2>4
  <1>4. ASSUME NEW i \in 1..N + 1 PROVE Good(i)
    <2> HIDE DEF Good
    <2>1. N + 1 - i \in 0..N /\ N + 1 - (N + 1 - i) = i
      BY <1>1
    <2> QED BY <1>3, <2>1
  <1> QED BY <1>4, Zenon DEF ListsFrom

(* The networks split out of a setting and parsed are those it lists.       *)
LEMMA ParsedIsListed ==
  ASSUME NEW csv \in Seq(STRING)
  PROVE  Parsed(split_csv_string(csv, ",")) = Listed(csv)
  <1>1. ASSUME NEW d, d \notin Networks
        PROVE  Parsed(split_csv_string(csv, d))
                 = {n \in Networks : \E k \in 1..Len(csv) : csv[k] = n /\ Alone(csv, d, 1, k)}
    <2> DEFINE f == CHOOSE f : IsSplit(csv, d, f)
    <2>1. IsSplit(csv, d, f) /\ split_csv_string(csv, d) = f[1]
      BY SplitExists, SplitChosen
    <2> HIDE DEF f
    <2>2. 1 \in 1..Len(csv) + 1
      BY LenProperties
    <2>3. \A i \in 1..Len(csv) + 1 : ListsFrom(csv, d, f, i)
      BY <1>1, <2>1, SplitLists, Zenon
    <2>4. \A n \in Networks : (\E k \in DOMAIN f[1] : f[1][k] = <<n>>)
             <=> \E k \in 1..Len(csv) : csv[k] = n /\ Alone(csv, d, 1, k)
      BY <2>2, <2>3, Zenon DEF ListsFrom
    <2> QED BY <2>1, <2>4, Zenon DEF Parsed
  <1>2. Parsed(split_csv_string(csv, ","))
          = {n \in Networks : \E k \in 1..Len(csv) : csv[k] = n /\ Alone(csv, ",", 1, k)}
    BY <1>1, NetworksAssumption, Zenon
  <1>3. Listed(csv)
          = {n \in Networks : \E k \in 1..Len(csv) : csv[k] = n /\ Alone(csv, ",", 1, k)}
    BY Zenon DEF Listed, Alone
  <1> QED BY <1>2, <1>3, Zenon

-----------------------------------------------------------------------------
(* f is the way along the parts: f[k] is where the first k of them lead.    *)
IsWalk(parts, follow, f) ==
  f = [k \in 0..Len(parts) |->
         IF k = 0 THEN << >> ELSE Further(f[k - 1], parts[k], follow)]

LEMMA WalkChosen ==
  ASSUME NEW parts, NEW follow
  PROVE  Walk(parts, follow) = (CHOOSE f : IsWalk(parts, follow, f))[Len(parts)]
  BY Zenon DEF Walk, IsWalk

(* The recursive definition of Walk has a solution, built part by part.     *)
LEMMA WalkExists ==
  ASSUME NEW S, NEW parts \in Seq(S), NEW follow
  PROVE  \E f : IsWalk(parts, follow, f)
  <1> DEFINE N == Len(parts)
             Body(f, k) == IF k = 0 THEN << >> ELSE Further(f[k - 1], parts[k], follow)
             Part(n) == \E f : f = [k \in 0..n |-> Body(f, k)]
             I == {n \in 0..N : ~Part(n)}
  <1>1. N \in Nat
    BY LenProperties
  <1>2. ASSUME I # {} PROVE FALSE
    <2> HIDE DEF Part
    <2>1. I \in SUBSET Nat
      BY <1>1
    <2>2. PICK x \in I : \A y \in I : x <= y
      BY <1>2, <2>1, LeastNatural
    <2>3. x \in 0..N /\ ~Part(x)
      BY <2>2
    <2>4. ASSUME NEW g, x # 0 => g = [k \in 0..x - 1 |-> Body(g, k)] PROVE FALSE
      <3> DEFINE f == [k \in 0..x |-> Body(g, k)]
      <3>1. ASSUME NEW k \in 0..x PROVE Body(g, k) = Body(f, k)
        <4>1. CASE k = 0
          BY <4>1
        <4>2. CASE k # 0
          <5>1. k - 1 \in 0..x - 1 /\ k - 1 \in 0..x /\ x # 0
            BY <1>1, <2>3, <4>2
          <5> HIDE DEF Body
          <5>2. g[k - 1] = Body(g, k - 1)
            BY <2>4, <5>1
          <5>3. f[k - 1] = Body(g, k - 1)
            BY <5>1
          <5> HIDE DEF f
          <5> QED BY <4>2, <5>2, <5>3 DEF Body
        <4> QED BY <4>1, <4>2
      <3> HIDE DEF Body
      <3>2. f = [k \in 0..x |-> Body(f, k)]
        BY <3>1
      <3> HIDE DEF f
      <3>3. Part(x)
        BY <3>2 DEF Part
      <3> QED BY <2>3, <3>3
    <2>5. CASE x = 0
      BY <2>4, <2>5
    <2>6. CASE x # 0
      <3>1. x - 1 \in 0..N /\ ~(x <= x - 1)
        BY <1>1, <2>3, <2>6
      <3>2. Part(x - 1)
        BY <2>2, <3>1
      <3> HIDE DEF Body
      <3>3. PICK g : g = [k \in 0..x - 1 |-> Body(g, k)]
        BY <3>2 DEF Part
      <3> QED BY <2>4, <3>3
    <2> QED BY <2>5, <2>6
  <1>3. Part(N)
    <2> HIDE DEF Part
    <2> QED BY <1>1, <1>2
  <1> QED BY <1>3 DEF IsWalk

LEMMA FurtherType ==
  ASSUME NEW S, NEW at \in Seq(S), NEW c \in S, NEW follow
  PROVE  Further(at, c, follow) \in Seq(S)
  <1>1. Append(at, c) \in Seq(S)
    BY AppendProperties
  <1>2. ASSUME Len(at) > 1 PROVE Front(at) \in Seq(S)
    <2>1. Len(at) \in Nat
      BY LenProperties
    <2>2. \A i \in 1..Len(at) - 1 : i \in 1..Len(at)
      BY <2>1
    <2>3. \A i \in 1..Len(at) - 1 : at[i] \in S
      BY <2>2, ElementOfSeq
    <2>4. 1 \in Int /\ Len(at) - 1 \in Int
      BY <2>1
    <2> QED BY <2>3, <2>4, SubSeqProperties DEF Front
  <1> QED BY <1>1, <1>2, Zenon DEF Further

(* A walk, step by step.                                                    *)
LEMMA WalkSteps ==
  ASSUME NEW S, NEW parts \in Seq(S), NEW follow, NEW f, IsWalk(parts, follow, f)
  PROVE  /\ f[0] = << >>
         /\ \A k \in 1..Len(parts) : f[k] = Further(f[k - 1], parts[k], follow)
         /\ \A k \in 0..Len(parts) : f[k] \in Seq(S)
  <1> DEFINE N == Len(parts)
             I == {k \in 0..N : f[k] \notin Seq(S)}
  <1>1. N \in Nat /\ 0 \in 0..N /\ \A k \in 1..N : k \in 0..N /\ k # 0 /\ k - 1 \in 0..N
    BY LenProperties
  <1>2. \A k \in 0..N : f[k] = IF k = 0 THEN << >> ELSE Further(f[k - 1], parts[k], follow)
    BY Zenon DEF IsWalk
  <1>3. f[0] = << >>
    BY <1>1, <1>2, Zenon
  <1>4. \A k \in 1..N : f[k] = Further(f[k - 1], parts[k], follow)
    BY <1>1, <1>2, Zenon
  <1>5. ASSUME I # {} PROVE FALSE
    <2>1. I \in SUBSET Nat
      BY <1>1
    <2>2. PICK x \in I : \A y \in I : x <= y
      BY <1>5, <2>1, LeastNatural
    <2>3. x \in 0..N /\ f[x] \notin Seq(S)
      BY <2>2
    <2>4. x \in 1..N
      <3>1. << >> \in Seq(S)
        BY EmptySeq
      <3>2. x # 0
        BY <1>3, <2>3, <3>1, Zenon
      <3> QED BY <1>1, <2>3, <3>2
    <2>5. x - 1 \in 0..N /\ ~(x <= x - 1)
      BY <1>1, <2>4
    <2>6. f[x - 1] \in Seq(S) /\ parts[x] \in S
      BY <2>2, <2>4, <2>5, ElementOfSeq
    <2>7. Further(f[x - 1], parts[x], follow) \in Seq(S)
      BY <2>6, FurtherType
    <2> QED BY <1>4, <2>3, <2>4, <2>7
  <1> QED BY <1>3, <1>4, <1>5

(* Where a walk ends is made of its parts.                                  *)
LEMMA WalkType ==
  ASSUME NEW S, NEW parts \in Seq(S), NEW follow
  PROVE  Walk(parts, follow) \in Seq(S)
  <1> DEFINE f == CHOOSE f : IsWalk(parts, follow, f)
  <1>1. IsWalk(parts, follow, f) /\ Walk(parts, follow) = f[Len(parts)]
    BY WalkExists, WalkChosen
  <1> HIDE DEF f
  <1>2. \A k \in 0..Len(parts) : f[k] \in Seq(S)
    BY <1>1, WalkSteps
  <1>3. Len(parts) \in 0..Len(parts)
    BY LenProperties
  <1> QED BY <1>1, <1>2, <1>3

(* Two walks are at one as long as their parts are the same.                *)
LEMMA SameWalk ==
  ASSUME NEW S, NEW p \in Seq(S), NEW q \in Seq(S), NEW follow,
         NEW f, IsWalk(p, follow, f), NEW g, IsWalk(q, follow, g),
         NEW n \in Nat, n <= Len(p), n <= Len(q), \A k \in 1..n : p[k] = q[k]
  PROVE  f[n] = g[n]
  <1> DEFINE I == {k \in 0..n : f[k] # g[k]}
  <1>1. f[0] = << >> /\ \A k \in 1..Len(p) : f[k] = Further(f[k - 1], p[k], follow)
    BY WalkSteps
  <1>2. g[0] = << >> /\ \A k \in 1..Len(q) : g[k] = Further(g[k - 1], q[k], follow)
    BY WalkSteps
  <1>3. ASSUME I # {} PROVE FALSE
    <2>1. I \in SUBSET Nat
      OBVIOUS
    <2>2. PICK x \in I : \A y \in I : x <= y
      BY <1>3, <2>1, LeastNatural
    <2>3. x \in 0..n /\ f[x] # g[x]
      BY <2>2
    <2>4. x # 0
      BY <1>1, <1>2, <2>3
    <2>5. /\ x \in 1..n /\ x - 1 \in 0..n /\ ~(x <= x - 1)
          /\ x \in 1..Len(p) /\ x \in 1..Len(q)
      BY <2>3, <2>4, LenProperties
    <2>6. f[x - 1] = g[x - 1] /\ p[x] = q[x]
      BY <2>2, <2>5
    <2>7. f[x] = Further(f[x - 1], p[x], follow) /\ g[x] = Further(g[x - 1], q[x], follow)
      BY <1>1, <1>2, <2>5
    <2> QED BY <2>3, <2>6, <2>7, Zenon
  <1>4. n \in 0..n
    OBVIOUS
  <1> QED BY <1>3, <1>4

Begins(s, t) == Len(s) <= Len(t) /\ \A i \in 1..Len(s) : s[i] = t[i]

LEMMA BeginsIsPrefix ==
  ASSUME NEW S, NEW s \in Seq(S), NEW t \in Seq(S), Begins(s, t)
  PROVE  IsPrefix(s, t)
  <1> DEFINE n == Len(s)
             a == SubSeq(s, 1, n)
             b == SubSeq(t, 1, n)
  <1>1. n \in Nat /\ Len(t) \in Nat /\ n <= Len(t)
    BY LenProperties DEF Begins
  <1>2. \A i \in 1..n : i \in 1..Len(t) /\ 1 + i - 1 = i
    BY <1>1
  <1>3. \A i \in 1..n : s[i] \in S /\ t[i] \in S /\ s[i] = t[i]
    BY <1>2, ElementOfSeq DEF Begins
  <1> HIDE DEF n
  <1>4. /\ a \in Seq(S) /\ Len(a) = IF 1 <= n THEN n - 1 + 1 ELSE 0
        /\ \A i \in 1..n - 1 + 1 : a[i] = s[1 + i - 1]
    BY <1>1, <1>3, SubSeqProperties
  <1>5. /\ b \in Seq(S) /\ Len(b) = IF 1 <= n THEN n - 1 + 1 ELSE 0
        /\ \A i \in 1..n - 1 + 1 : b[i] = t[1 + i - 1]
    BY <1>1, <1>3, SubSeqProperties
  <1>6. n - 1 + 1 = n /\ (IF 1 <= n THEN n - 1 + 1 ELSE 0) = n
    BY <1>1
  <1> HIDE DEF a, b
  <1>7. Len(a) = n /\ Len(b) = n /\ \A i \in 1..n : a[i] = s[i] /\ b[i] = t[i]
    BY <1>2, <1>4, <1>5, <1>6
  <1>8. a = b
    BY <1>3, <1>4, <1>5, <1>7, SeqEqual
  <1> QED BY <1>1, <1>8, Zenon DEF IsPrefix, a, b, n

(* A part other than ".." leads nowhere or further down.                    *)
LEMMA FurtherGrows ==
  ASSUME NEW S, NEW s, NEW at \in Seq(S), NEW c \in S, NEW follow,
         Begins(s, at), Len(s) \in Nat, c # <<"..">>
  PROVE  Begins(s, Further(at, c, follow))
  <1>1. Further(at, c, follow) = at \/ Further(at, c, follow) = Append(at, c)
    BY Zenon DEF Further
  <1>2. Begins(s, Append(at, c))
    <2>1. Len(at) \in Nat /\ \A i \in 1..Len(s) : i \in 1..Len(at)
      BY LenProperties DEF Begins
    <2> DEFINE b == Append(at, c)
    <2>2. Len(b) = Len(at) + 1 /\ \A i \in 1..Len(at) : b[i] = at[i]
      BY AppendProperties
    <2> HIDE DEF b
    <2>3. Begins(s, b)
      BY <2>1, <2>2 DEF Begins
    <2> QED BY <2>3 DEF b
  <1> QED BY <1>1, <1>2

(* A walk that follows no ".." after its first m parts stays below where    *)
(* they lead.                                                               *)
LEMMA WalkStaysBelow ==
  ASSUME NEW S, NEW parts \in Seq(S), NEW follow, NEW f, IsWalk(parts, follow, f),
         NEW m \in 0..Len(parts), \A k \in m + 1..Len(parts) : parts[k] # <<"..">>
  PROVE  Begins(f[m], f[Len(parts)])
  <1> DEFINE N == Len(parts)
             I == {k \in m..N : ~Begins(f[m], f[k])}
  <1>1. N \in Nat /\ m \in Nat
    BY LenProperties
  <1>2. /\ \A k \in 1..N : f[k] = Further(f[k - 1], parts[k], follow)
        /\ \A k \in 0..N : f[k] \in Seq(S)
    BY WalkSteps
  <1>3. Len(f[m]) \in Nat
    BY <1>2, LenProperties
  <1>4. Begins(f[m], f[m])
    BY <1>3 DEF Begins
  <1>5. ASSUME I # {} PROVE FALSE
    <2>1. I \in SUBSET Nat
      BY <1>1
    <2>2. PICK x \in I : \A y \in I : x <= y
      BY <1>5, <2>1, LeastNatural
    <2>3. x \in m..N /\ ~Begins(f[m], f[x])
      BY <2>2
    <2>4. x # m
      BY <1>4, <2>3
    <2>5. /\ x \in m + 1..N /\ x \in 1..N /\ x - 1 \in m..N /\ x - 1 \in 0..N
          /\ ~(x <= x - 1)
      BY <1>1, <2>3, <2>4
    <2>6. Begins(f[m], f[x - 1]) /\ f[x - 1] \in Seq(S) /\ parts[x] \in S
      BY <1>2, <2>2, <2>5, ElementOfSeq
    <2>7. parts[x] # <<"..">>
      BY <2>5, Zenon
    <2>8. Begins(f[m], Further(f[x - 1], parts[x], follow))
      BY <1>3, <2>6, <2>7, FurtherGrows, Zenon
    <2> QED BY <1>2, <2>3, <2>5, <2>8
  <1>6. N \in m..N
    BY <1>1
  <1> QED BY <1>5, <1>6

-----------------------------------------------------------------------------
(* What paths are made of, and what a path without ".." is made of below    *)
(* the root.                                                                *)
PathParts == Seq(Symbols) \cup {RootDir, <<"cwd">>}
BelowParts == Seq((Symbols \ {".."}) \ {"/"})

LEMMA BelowIsBelow ==
  /\ << >> \in BelowParts
  /\ BelowParts \subseteq PathParts
  /\ \A c \in BelowParts : c # <<"..">> /\ c # RootDir
  <1>1. << >> \in BelowParts
    BY EmptySeq DEF BelowParts
  <1> DEFINE S == (Symbols \ {".."}) \ {"/"}
  <1>2. S \subseteq Symbols /\ ".." \notin S /\ "/" \notin S
    OBVIOUS
  <1> HIDE DEF S
  <1>3. ASSUME NEW c \in Seq(S) PROVE c \in Seq(Symbols)
    BY <1>2, SeqMonotonic
  <1>4. ASSUME NEW c \in Seq(S), NEW x, c = <<x>> PROVE x \in S
    <2>1. Len(<<x>>) = 1 /\ <<x>>[1] = x
      OBVIOUS
    <2>2. 1 \in 1..Len(c) /\ c[1] = x
      BY <1>4, <2>1
    <2> QED BY <2>2, ElementOfSeq
  <1>5. BelowParts = Seq(S)
    BY DEF BelowParts, S
  <1>6. \A c \in BelowParts : c # <<"..">> /\ c # RootDir
    BY <1>2, <1>4, <1>5, Zenon DEF RootDir
  <1> QED BY <1>1, <1>3, <1>5, <1>6 DEF PathParts

(* The components of a relative path without "..".                          *)
LEMMA ComponentsBelow ==
  ASSUME NEW p \in Seq(Symbols \ {".."})
  PROVE  Components(p) \in Seq(BelowParts)
  <1> DEFINE walk == Walk(split_csv_string(p, "/"), FALSE)
             rest == IF p = << >> \/ Last(p) = "/" THEN << << >> >> ELSE << >>
  <1>1. split_csv_string(p, "/") \in Seq(BelowParts)
    BY SplitParts, Zenon DEF BelowParts
  <1>2. walk \in Seq(BelowParts)
    BY <1>1, WalkType, Zenon
  <1>3. << << >> >> \in Seq(BelowParts) /\ << >> \in Seq(BelowParts)
    BY BelowIsBelow, EmptySeq
  <1>4. rest \in Seq(BelowParts)
    BY <1>3, Zenon
  <1>5. Components(p) = walk \o rest
    BY Zenon DEF Components
  <1> HIDE DEF walk, rest
  <1> QED BY <1>2, <1>4, <1>5, ConcatProperties

(* The root without the empty part of its last slash.                       *)
Base(root) == IF root # << >> /\ Last(root) = << >> THEN Front(root) ELSE root

LEMMA JoinedBelow ==
  ASSUME NEW root \in Seq(PathParts), NEW p \in Seq(Symbols \ {".."}), p # << >> => Head(p) # "/"
  PROVE  \E parts \in Seq(BelowParts) : Joined(root, p) = Base(root) \o parts
  <1>1. CASE p = << >> /\ root = << >>
    <2>1. Joined(root, p) = << >>
      BY <1>1, Zenon DEF Joined
    <2>2. Base(root) = << >>
      BY <1>1, Zenon DEF Base
    <2>3. << >> \in Seq(BelowParts) /\ << >> \o << >> = << >>
      BY EmptySeq, ConcatEmptySeq
    <2> QED BY <2>1, <2>2, <2>3, Zenon
  <1>2. CASE ~(p = << >> /\ root = << >>)
    <2>1. Joined(root, p) = Base(root) \o Components(p)
      BY <1>2, Zenon DEF Joined, Base
    <2> QED BY <2>1, ComponentsBelow, Zenon
  <1> QED BY <1>1, <1>2

LEMMA BaseOfRoot ==
  ASSUME NEW S, NEW root \in Seq(S)
  PROVE  /\ Base(root) \in Seq(S)
         /\ \A k \in 1..Len(Base(root)) : Base(root)[k] = root[k]
         /\ \/ Len(root) = Len(Base(root))
            \/ Len(root) = Len(Base(root)) + 1 /\ root[Len(root)] = << >>
  <1>1. Len(root) \in Nat
    BY LenProperties
  <1>2. CASE root # << >> /\ Last(root) = << >>
    <2> DEFINE n == Len(root) - 1
               b == SubSeq(root, 1, n)
    <2>1. Len(root) \in Nat \ {0}
      BY <1>2, EmptySeq
    <2>2. n \in Nat /\ Len(root) = n + 1 /\ \A k \in 1..n : k \in 1..Len(root)
      BY <2>1
    <2>3. \A k \in 1..n : root[k] \in S
      BY <2>2, ElementOfSeq
    <2>4. Base(root) = b
      BY <1>2, Zenon DEF Base, Front
    <2> HIDE DEF n
    <2>5. /\ b \in Seq(S) /\ Len(b) = IF 1 <= n THEN n - 1 + 1 ELSE 0
          /\ \A k \in 1..n - 1 + 1 : b[k] = root[1 + k - 1]
      BY <2>2, <2>3, SubSeqProperties
    <2> HIDE DEF b
    <2>6. Len(b) = n /\ \A k \in 1..n : b[k] = root[k]
      BY <2>2, <2>5
    <2>7. root[Len(root)] = << >>
      BY <1>2, Zenon DEF Last
    <2> QED BY <2>2, <2>4, <2>5, <2>6, <2>7
  <1>3. CASE ~(root # << >> /\ Last(root) = << >>)
    <2>1. Base(root) = root
      BY <1>3, Zenon DEF Base
    <2> QED BY <2>1
  <1> QED BY <1>2, <1>3

IsAbsolute(file) == file # << >> /\ Head(file) = RootDir

(* Parts below the root do not change where a path starts from.             *)
LEMMA SameStart ==
  ASSUME NEW root \in Seq(PathParts), NEW parts \in Seq(BelowParts)
  PROVE  /\ Base(root) \o parts \in Seq(PathParts)
         /\ IsAbsolute(Base(root) \o parts) <=> IsAbsolute(root)
  <1> DEFINE base == Base(root)
             file == base \o parts
  <1>1. /\ base \in Seq(PathParts)
        /\ \A k \in 1..Len(base) : base[k] = root[k]
        /\ \/ Len(root) = Len(base)
           \/ Len(root) = Len(base) + 1 /\ root[Len(root)] = << >>
    BY BaseOfRoot
  <1>2. parts \in Seq(PathParts)
    BY BelowIsBelow, SeqMonotonic
  <1> HIDE DEF base
  <1>3. /\ file \in Seq(PathParts)
        /\ Len(file) = Len(base) + Len(parts)
        /\ \A k \in 1..Len(base) + Len(parts) :
             file[k] = IF k <= Len(base) THEN base[k] ELSE parts[k - Len(base)]
    BY <1>1, <1>2, ConcatProperties
  <1> HIDE DEF file
  <1>4. Len(base) \in Nat /\ Len(parts) \in Nat /\ Len(root) \in Nat
    BY <1>1, LenProperties
  <1>5. ASSUME NEW s \in Seq(PathParts)
        PROVE  IsAbsolute(s) <=> Len(s) # 0 /\ s[1] = RootDir
    <2>1. s # << >> <=> Len(s) # 0
      BY EmptySeq
    <2>2. s # << >> => Head(s) = s[1]
      OBVIOUS
    <2> QED BY <2>1, <2>2, Zenon DEF IsAbsolute
  <1>6. IsAbsolute(file) <=> IsAbsolute(root)
    <2>1. CASE Len(base) # 0
      <3>1. 1 \in 1..Len(base) /\ 1 \in 1..Len(base) + Len(parts) /\ 1 <= Len(base)
        BY <1>4, <2>1
      <3>2. file[1] = root[1] /\ Len(file) # 0 /\ Len(root) # 0
        BY <1>1, <1>3, <1>4, <2>1, <3>1
      <3> QED BY <1>3, <1>5, <3>2, Zenon
    <2>2. CASE Len(base) = 0
      <3>1. ASSUME Len(file) # 0 PROVE file[1] # RootDir
        <4>1. 1 \in 1..Len(parts) /\ 1 \in 1..Len(base) + Len(parts) /\ ~(1 <= Len(base))
              /\ 1 - Len(base) = 1
          BY <1>3, <1>4, <2>2, <3>1
        <4>2. file[1] = parts[1] /\ parts[1] \in BelowParts
          BY <1>3, <4>1, ElementOfSeq
        <4> QED BY <4>2, BelowIsBelow
      <3>2. ASSUME Len(root) # 0 PROVE root[1] # RootDir
        <4>1. root[1] = << >>
          BY <1>1, <1>4, <2>2, <3>2
        <4> QED BY <4>1, BelowIsBelow
      <3> QED BY <1>3, <1>5, <3>1, <3>2, Zenon
    <2> QED BY <2>1, <2>2
  <1> QED BY <1>3, <1>6 DEF file, base

(* Wherever the root lies, and in whatever form it is written, what is      *)
(* joined to it without ".." resolves to something below it.                *)
LEMMA ResolvesBelow ==
  ASSUME NEW root \in Seq(PathParts), NEW parts \in Seq(BelowParts)
  PROVE  IsPrefix(Resolve(root), Resolve(Base(root) \o parts))
  <1> DEFINE base == Base(root)
             file == base \o parts
             pre == IF IsAbsolute(root) THEN << >> ELSE Cwd
             A == pre \o root
             B == pre \o file
  <1>1. /\ base \in Seq(PathParts)
        /\ \A k \in 1..Len(base) : base[k] = root[k]
        /\ \/ Len(root) = Len(base)
           \/ Len(root) = Len(base) + 1 /\ root[Len(root)] = << >>
    BY BaseOfRoot
  <1>2. parts \in Seq(PathParts)
    BY BelowIsBelow, SeqMonotonic
  <1>3. file \in Seq(PathParts) /\ (IsAbsolute(file) <=> IsAbsolute(root))
    BY SameStart
  <1>4. pre \in Seq(PathParts)
    <2>1. << >> \in Seq(PathParts)
      BY EmptySeq
    <2>2. RootDir \in PathParts /\ <<"cwd">> \in PathParts
      BY Zenon DEF PathParts
    <2>3. Cwd \in Seq(PathParts)
      <3> DEFINE c == <<"cwd">>
      <3>1. c \in PathParts /\ Cwd = <<RootDir, c>>
        BY <2>2 DEF Cwd
      <3> HIDE DEF c
      <3> QED BY <2>2, <3>1
    <2> QED BY <2>1, <2>3
  <1>5. Resolve(root) = Walk(A, TRUE)
    <2>1. IsAbsolute(root) => A = root
      BY ConcatEmptySeq
    <2> QED BY <2>1, Zenon DEF Resolve, IsAbsolute
  <1>6. Resolve(file) = Walk(B, TRUE)
    <2> HIDE DEF file
    <2>1. IsAbsolute(file) => B = file
      BY <1>3, ConcatEmptySeq
    <2> QED BY <1>3, <2>1, Zenon DEF Resolve, IsAbsolute
  <1> HIDE DEF base
  <1>7. /\ Len(file) = Len(base) + Len(parts)
        /\ \A k \in 1..Len(base) + Len(parts) :
             file[k] = IF k <= Len(base) THEN base[k] ELSE parts[k - Len(base)]
    BY <1>1, <1>2, ConcatProperties
  <1> HIDE DEF file, pre
  <1>8. /\ A \in Seq(PathParts) /\ Len(A) = Len(pre) + Len(root)
        /\ \A k \in 1..Len(pre) + Len(root) :
             A[k] = IF k <= Len(pre) THEN pre[k] ELSE root[k - Len(pre)]
    BY <1>4, ConcatProperties
  <1>9. /\ B \in Seq(PathParts) /\ Len(B) = Len(pre) + Len(file)
        /\ \A k \in 1..Len(pre) + Len(file) :
             B[k] = IF k <= Len(pre) THEN pre[k] ELSE file[k - Len(pre)]
    BY <1>3, <1>4, ConcatProperties
  <1> HIDE DEF A, B
  <1> DEFINE l == Len(pre)
             n == Len(base)
             m == l + n
  <1>10. l \in Nat /\ n \in Nat /\ Len(parts) \in Nat /\ Len(root) \in Nat /\ Len(root) >= n
    BY <1>1, <1>4, LenProperties
  <1>11. m \in Nat /\ m <= Len(A) /\ m <= Len(B) /\ Len(B) = m + Len(parts)
    BY <1>7, <1>8, <1>9, <1>10
  <1>12. ASSUME NEW k \in 1..m PROVE A[k] = B[k]
    <2>1. k \in 1..l + Len(root) /\ k \in 1..l + Len(file)
      BY <1>7, <1>10
    <2>2. CASE k <= l
      BY <1>8, <1>9, <2>1, <2>2
    <2>3. CASE ~(k <= l)
      <3>1. k - l \in 1..n /\ k - l \in 1..n + Len(parts) /\ k - l <= n
        BY <1>10, <2>3
      <3>2. A[k] = root[k - l] /\ B[k] = file[k - l]
        BY <1>8, <1>9, <2>1, <2>3
      <3>3. file[k - l] = base[k - l] /\ base[k - l] = root[k - l]
        BY <1>1, <1>7, <3>1
      <3> QED BY <3>2, <3>3
    <2> QED BY <2>2, <2>3
  <1>13. ASSUME NEW k \in m + 1..Len(B) PROVE B[k] # <<"..">>
    <2>1. /\ k \in 1..l + Len(file) /\ ~(k <= l)
          /\ k - l \in 1..n + Len(parts) /\ ~(k - l <= n)
          /\ (k - l) - n \in 1..Len(parts)
      BY <1>7, <1>10, <1>11
    <2>2. B[k] = file[k - l] /\ file[k - l] = parts[(k - l) - n]
      BY <1>7, <1>9, <2>1
    <2>3. B[k] \in BelowParts
      BY <2>1, <2>2, ElementOfSeq
    <2> QED BY <2>3, BelowIsBelow, Zenon
  <1>14. Len(A) = m \/ (Len(A) = m + 1 /\ A[m + 1] = << >>)
    <2>1. CASE Len(root) = n
      BY <1>8, <1>10, <2>1
    <2>2. CASE Len(root) = n + 1 /\ root[Len(root)] = << >>
      <3>1. Len(A) = m + 1 /\ m + 1 \in 1..l + Len(root) /\ ~(m + 1 <= l)
            /\ (m + 1) - l = Len(root)
        BY <1>8, <1>10, <2>2
      <3> QED BY <1>8, <2>2, <3>1
    <2> QED BY <1>1, <2>1, <2>2
  <1> HIDE DEF m
  <1> DEFINE yes == TRUE
  <1> DEFINE f == CHOOSE f : IsWalk(A, yes, f)
             g == CHOOSE g : IsWalk(B, yes, g)
  <1> HIDE DEF yes
  <1>15. IsWalk(A, yes, f) /\ Walk(A, yes) = f[Len(A)]
    BY <1>8, WalkExists, WalkChosen, Zenon
  <1>16. IsWalk(B, yes, g) /\ Walk(B, yes) = g[Len(B)]
    BY <1>9, WalkExists, WalkChosen, Zenon
  <1> HIDE DEF f, g
  <1>17. A \in Seq(PathParts) /\ B \in Seq(PathParts)
    BY <1>8, <1>9
  <1>18. f[m] = g[m]
    <2>1. m \in Nat /\ m <= Len(A) /\ m <= Len(B) /\ \A k \in 1..m : A[k] = B[k]
      BY <1>11, <1>12
    <2>2. IsWalk(A, yes, f) /\ IsWalk(B, yes, g)
      BY <1>15, <1>16
    <2> QED BY <1>17, <2>1, <2>2, SameWalk
  <1>19. f[Len(A)] = f[m]
    <2>1. CASE Len(A) = m + 1 /\ A[m + 1] = << >>
      <3>1. m + 1 \in 1..Len(A) /\ (m + 1) - 1 = m
        BY <1>11, <2>1
      <3>2. IsWalk(A, yes, f)
        BY <1>15
      <3>3. \A k \in 1..Len(A) : f[k] = Further(f[k - 1], A[k], yes)
        BY <1>17, <3>2, WalkSteps
      <3>4. f[m + 1] = Further(f[m], << >>, yes)
        BY <2>1, <3>1, <3>3
      <3>5. f[m + 1] = f[m]
        BY <3>4, Zenon DEF Further
      <3> QED BY <2>1, <3>5
    <2> QED BY <1>14, <2>1
  <1>20. Begins(g[m], g[Len(B)])
    <2>1. m \in 0..Len(B)
      BY <1>9, <1>11, LenProperties
    <2> QED BY <1>9, <1>13, <1>16, <2>1, WalkStaysBelow, Zenon
  <1>21. f[Len(A)] \in Seq(PathParts) /\ g[Len(B)] \in Seq(PathParts)
    BY <1>8, <1>9, <1>15, <1>16, WalkType
  <1>22. IsPrefix(f[Len(A)], g[Len(B)])
    BY <1>18, <1>19, <1>20, <1>21, BeginsIsPrefix
  <1> QED BY <1>5, <1>6, <1>15, <1>16, <1>22 DEF file, base, yes

(* What a path names after /static/, once it is validated.                  *)
LEMMA ValidatedTail ==
  ASSUME NEW path \in Seq(Symbols), IsPrefix(StaticPrefix, path),
         validate_static_file_request_path(path)
  PROVE  LET p == SubSeq(path, Len(StaticPrefix) + 1, Len(path))
         IN  p \in Seq(Symbols \ {".."}) /\ (p # << >> => Head(p) # "/")
  <1> DEFINE N == Len(path)
             p == SubSeq(path, 4, N)
             T == Symbols \ {".."}
  <1>1. N \in Nat
    BY LenProperties
  <1>2. Len(StaticPrefix) + 1 = 4
    BY DEF StaticPrefix
  <1>3. 3 \in 2..N /\ path[3] = "/"
    BY SlashAfterDirectory DEF StaticPrefix
  <1>4. /\ \A k \in 1..N : path[k] # ".."
        /\ \A k \in 2..N : ~(path[k - 1] = "/" /\ path[k] = "/")
    BY Zenon DEF validate_static_file_request_path, Contains
  <1>5. \A k \in 4..N : path[k] \in T
    <2>1. \A k \in 4..N : k \in 1..N
      BY <1>1
    <2>2. \A k \in 4..N : path[k] \in Symbols
      BY <2>1, ElementOfSeq
    <2> QED BY <1>4, <2>1, <2>2, Zenon
  <1> HIDE DEF T
  <1>6. /\ p \in Seq(T) /\ Len(p) = IF 4 <= N THEN N - 4 + 1 ELSE 0
        /\ \A i \in 1..N - 4 + 1 : p[i] = path[4 + i - 1]
    BY <1>1, <1>5, SubSeqProperties
  <1> HIDE DEF p
  <1>7. ASSUME p # << >> PROVE Head(p) # "/"
    <2>1. Len(p) \in Nat \ {0} /\ Head(p) = p[1]
      BY <1>6, <1>7, EmptySeq
    <2>2. 4 \in 2..N /\ 1 \in 1..N - 4 + 1 /\ 4 + 1 - 1 = 4 /\ 4 - 1 = 3
      BY <1>1, <1>6, <2>1
    <2>3. p[1] = path[4]
      BY <1>6, <2>2
    <2>4. ~(path[4 - 1] = "/" /\ path[4] = "/")
      BY <1>4, <2>2, Zenon
    <2>5. path[4] # "/"
      BY <1>3, <2>2, <2>4, Zenon
    <2> QED BY <2>1, <2>3, <2>5, Zenon
  <1>8. p \in Seq(T) /\ (p # << >> => Head(p) # "/")
    BY <1>6, <1>7
  <1> QED BY <1>2, <1>8, Zenon DEF p, T

(* The roots are paths.                                                     *)
LEMMA RootIsPath ==
  ASSUME RootInv
  PROVE  doc_root \in Seq(PathParts)
  <1>1. \A c \in Seq(STRING) : c \in Seq(Symbols)
    BY SeqMonotonic DEF Symbols
  <1>2. Seq(STRING) \subseteq PathParts
    BY <1>1, Zenon DEF PathParts
  <1> QED BY <1>2, SeqMonotonic DEF RootInv

(* The router keeps ServedBelowRoot.                                        *)
LEMMA RoutesStatic ==
  ASSUME RootInv, NEW method, NEW path, IsPath(path), onRequest(method, path)
  PROVE  ServedBelowRoot'
  <1>1. CASE RouteStatic(method, path)
    <2>1. /\ routed'.file = StaticFile(path) /\ doc_root' = doc_root
          /\ IsPrefix(StaticPrefix, path)
      BY <1>1 DEF RouteStatic, ToStatic, Makes
    <2>2. ASSUME StaticFile(path) # NoFile
          PROVE  IsPrefix(Resolve(doc_root), Resolve(StaticFile(path)))
      <3> DEFINE p == SubSeq(path, Len(StaticPrefix) + 1, Len(path))
      <3>1. StaticFile(path) = expected_file_path(path) /\ validate_static_file_request_path(path)
        BY <2>2, Zenon DEF StaticFile
      <3>2. p \in Seq(Symbols \ {".."}) /\ (p # << >> => Head(p) # "/")
        BY <2>1, <3>1, ValidatedTail DEF IsPath
      <3>3. StaticFile(path) = Joined(doc_root, p)
        BY <3>1, Zenon DEF expected_file_path
      <3> HIDE DEF p
      <3>4. PICK parts \in Seq(BelowParts) : Joined(doc_root, p) = Base(doc_root) \o parts
        BY <3>2, RootIsPath, JoinedBelow, Zenon
      <3> QED BY <3>3, <3>4, RootIsPath, ResolvesBelow, Zenon
    <2>3. /\ Resolve(doc_root)' = Resolve(doc_root)
          /\ Resolve(routed.file)' = Resolve(StaticFile(path))
      BY <2>1
    <2> QED BY <2>1, <2>2, <2>3, Zenon DEF ServedBelowRoot
  <1>2. CASE ~RouteStatic(method, path)
    <2>1. routed'.handler # "StaticHandler"
      <3>1. CASE RouteFrontend(method, path)
        BY <3>1 DEF RouteFrontend, Makes
      <3>2. CASE RouteMakeUrl(method, path)
        BY <3>2 DEF RouteMakeUrl, Makes
      <3>3. CASE RouteRedirect(method, path)
        BY <3>3 DEF RouteRedirect, Makes
      <3>4. CASE RouteNotFound(method, path)
        BY <3>4 DEF RouteNotFound, Makes
      <3> QED BY <1>2, <3>1, <3>2, <3>3, <3>4 DEF onRequest
    <2> QED BY <2>1 DEF ServedBelowRoot
  <1> QED BY <1>1, <1>2

-----------------------------------------------------------------------------
(* The byte the length of a slug is cut to is tested after it is cut.       *)
LEMMA SlugLengthTested ==
  ASSUME NEW env \in EnvSettings, EnvAccepted(env)
  PROVE  /\ slug_length_from_env(env.slug_length) \in 1..ByteModulus - 1
         /\ alphabet_len_from_env(env.alphabet_len) \in Nat
         /\ alphabet_len_from_env(env.alphabet_len) > 1
  <1> DEFINE set == env.slug_length
             n == IF set = Absent THEN DefaultSlugLength ELSE set % ByteModulus
  <1>1. set \in Int \cup {Absent} /\ env.alphabet_len \in Nat \cup {Absent}
    BY SettingsAssumption
  <1>2. n \in 0..ByteModulus - 1
    BY <1>1, AppConfigAssumption
  <1>3. slug_length_from_env(set) = IF n > 0 THEN n ELSE Absent
    BY DEF slug_length_from_env
  <1>4. slug_length_from_env(set) # Absent
    BY DEF EnvAccepted
  <1>5. Len(alphabet) \in Nat
    BY AlphabetAssumption, LenProperties
  <1> HIDE DEF n
  <1>6. slug_length_from_env(set) \in 1..ByteModulus - 1
    <2>1. n > 0 /\ slug_length_from_env(set) = n
      BY <1>3, <1>4, Zenon
    <2>2. n \in 1..ByteModulus - 1
      BY <1>2, <2>1, AppConfigAssumption
    <2> QED BY <2>1, <2>2
  <1> QED BY <1>1, <1>5, <1>6, AppConfigAssumption DEF alphabet_len_from_env

(* A step of main that leaves no configuration, or changes it while no      *)
(* request is at hand, has nothing to keep but the configuration.           *)
LEMMA NothingRouted ==
  ASSUME routed' = Nothing, ConfigInv', CacheInv', RootInv', SlugsCanBeMade', TrustsWhatIsListed'
  PROVE  RouterInv'
  BY DEF RouterInv, ServingInv, LinksLeadBack, EveryShorteningCounted, ServedBelowRoot,
     PagesServedAsThemselves

LEMMA RouterInvEnd ==
  ASSUME RouterInv, phase \in {"start", "loaded"}, End
  PROVE  RouterInv'
  <1>1. routed' = Nothing /\ phase' = "ended" /\ config' = Nothing
    BY DEF RouterInv, ServingInv, End
  <1>2. ConfigInv'
    BY <1>1 DEF ConfigInv
  <1>3. CacheInv' /\ RootInv'
    BY EmptySeq DEF RouterInv, CacheInv, RootInv, Nothing, End
  <1>4. SlugsCanBeMade' /\ TrustsWhatIsListed'
    BY <1>1 DEF SlugsCanBeMade, TrustsWhatIsListed
  <1> QED BY <1>1, <1>2, <1>3, <1>4, NothingRouted

LEMMA RouterInvLoaded ==
  ASSUME RouterInv, phase = "start", NEW from, NEW new, Loaded(from, new),
         new.slug_length \in 0..ByteModulus - 1, new.alphabet_len \in Nat,
         new.from = "env" => new.slug_length > 0 /\ new.alphabet_len > 1,
         new.from = "env" => /\ new.cf_cidrs = Listed(from.cloudflare)
                             /\ new.reverse_proxy_cidrs = Listed(from.reverse_proxies)
  PROVE  RouterInv'
  <1>1. routed' = Nothing /\ config' = new
    BY DEF RouterInv, ServingInv, Loaded
  <1>2. ConfigInv' /\ SlugsCanBeMade'
    BY <1>1 DEF ConfigInv, SlugsCanBeMade
  <1>3. CacheInv' /\ RootInv'
    <2>1. CacheInv'
      BY DEF RouterInv, CacheInv, Loaded
    <2>2. doc_root' \in StaticRoots \cup {Nothing}
      BY Zenon DEF Loaded
    <2>3. Nothing \in Seq(Seq(STRING)) /\ StaticRoots \subseteq Seq(Seq(STRING))
      BY EmptySeq, WebServerAssumption DEF Nothing
    <2> QED BY <2>1, <2>2, <2>3 DEF RootInv
  <1>4. TrustsWhatIsListed'
    <2>1. /\ settings'.cloudflare = from.cloudflare
          /\ settings'.reverse_proxies = from.reverse_proxies
      BY DEF Loaded
    <2>2. Listed(settings.cloudflare)' = Listed(from.cloudflare)
      BY <2>1
    <2>3. Listed(settings.reverse_proxies)' = Listed(from.reverse_proxies)
      BY <2>1
    <2> QED BY <1>1, <2>2, <2>3 DEF TrustsWhatIsListed
  <1> QED BY <1>1, <1>2, <1>3, <1>4, NothingRouted

LEMMA RouterInvInit == Init => RouterInv
  BY EmptySeq DEF Init, RouterInv, ConfigInv, CacheInv, RootInv, Nothing, ServingInv,
     SlugsCanBeMade, TrustsWhatIsListed, LinksLeadBack, EveryShorteningCounted,
     ServedBelowRoot, PagesServedAsThemselves

(* The steps of main and of the factories.                                  *)
LEMMA NextKinds ==
  Next => \/ phase = "start" /\ \E env \in EnvSettings : LoadEnv(env)
          \/ phase = "start" /\ \E yaml \in YamlSettings : LoadYaml(yaml)
          \/ phase \in {"start", "loaded"} /\ End
          \/ phase = "loaded" /\ \E dir \in FrontendDirs : build_frontend_dir_cache(dir)
          \/ Idle /\ \E method \in Methods, url \in Urls : onRequest(method, getPath(url))
          \/ requestComplete
          \/ UNCHANGED vars
  BY DEF Next, LoadEnvFails, LoadYamlFails, MissingConfigFile, OpenFails, BuildFails

LEMMA RouterInvNext == RouterInv /\ [Next]_vars => RouterInv'
  <1> SUFFICES ASSUME RouterInv, [Next]_vars PROVE RouterInv'
    OBVIOUS
  <1> USE DEF RouterInv
  <1>1. ASSUME phase = "start", NEW env \in EnvSettings, LoadEnv(env)
        PROVE  RouterInv'
    <2> DEFINE new == new_from_env(env)
    <2>1. /\ new.slug_length = slug_length_from_env(env.slug_length)
          /\ new.alphabet_len = alphabet_len_from_env(env.alphabet_len)
          /\ new.cf_cidrs = Parsed(split_csv_string(env.cloudflare, ","))
          /\ new.reverse_proxy_cidrs = Parsed(split_csv_string(env.reverse_proxies, ","))
      BY DEF new_from_env
    <2>2. EnvAccepted(env) /\ Loaded(env, new)
      BY <1>1 DEF LoadEnv
    <2>3. /\ new.slug_length \in 1..ByteModulus - 1
          /\ new.alphabet_len \in Nat /\ new.alphabet_len > 1
      BY <2>1, <2>2, SlugLengthTested
    <2>4. env.cloudflare \in Seq(STRING) /\ env.reverse_proxies \in Seq(STRING)
      BY <2>2, SettingsAssumption DEF EnvAccepted
    <2>5. /\ new.cf_cidrs = Listed(env.cloudflare)
          /\ new.reverse_proxy_cidrs = Listed(env.reverse_proxies)
      BY <2>1, <2>4, ParsedIsListed
    <2> HIDE DEF new
    <2>6. new.slug_length \in 0..ByteModulus - 1 /\ new.slug_length > 0
      BY <2>3, AppConfigAssumption
    <2> QED BY <1>1, <2>2, <2>3, <2>5, <2>6, RouterInvLoaded
  <1>2. ASSUME phase = "start", NEW yaml \in YamlSettings, LoadYaml(yaml)
        PROVE  RouterInv'
    <2> DEFINE new == new_from_yaml(yaml)
    <2>1. /\ new.slug_length = yaml.slug_length
          /\ new.alphabet_len = yaml.alphabet_len
          /\ new.from = "yaml"
      BY DEF new_from_yaml
    <2>2. Loaded(yaml, new)
      BY <1>2 DEF LoadYaml
    <2> HIDE DEF new
    <2> QED BY <1>2, <2>1, <2>2, SettingsAssumption, RouterInvLoaded
  <1>3. ASSUME phase \in {"start", "loaded"}, End PROVE RouterInv'
    BY <1>3, RouterInvEnd
  <1>4. ASSUME phase = "loaded", NEW dir \in FrontendDirs, build_frontend_dir_cache(dir)
        PROVE  RouterInv'
    <2>1. routed' = Nothing /\ config' = config /\ phase' = "serving"
      BY <1>4 DEF ServingInv, build_frontend_dir_cache
    <2>2. ConfigInv' /\ SlugsCanBeMade' /\ TrustsWhatIsListed'
      BY <1>4, <2>1 DEF ConfigInv, SlugsCanBeMade, TrustsWhatIsListed
    <2>3. CacheInv'
      <3>1. frontend_dir_cache' \subseteq Seq(STRING) \ {<< >>}
        BY <1>4, FrontendAssumption DEF build_frontend_dir_cache
      <3>2. \A page \in Seq(STRING) : page \in Seq(Symbols)
        BY SeqMonotonic DEF Symbols
      <3> QED BY <3>1, <3>2 DEF CacheInv
    <2>4. RootInv'
      BY <1>4 DEF RootInv, build_frontend_dir_cache
    <2> QED BY <2>1, <2>2, <2>3, <2>4, NothingRouted
  <1>5. ASSUME Idle, NEW method \in Methods, NEW url \in Urls,
               onRequest(method, getPath(url))
        PROVE  RouterInv'
    <2> DEFINE path == getPath(url)
    <2>1. IsPath(path)
      BY PathOfUrl DEF IsPath
    <2>2. UNCHANGED <<phase, config, doc_root, frontend_dir_cache>>
      BY <1>5 DEF onRequest, RouteFrontend, RouteStatic, RouteMakeUrl, RouteRedirect,
           RouteNotFound, Makes
    <2> HIDE DEF path
    <2>3. phase = "serving"
      BY <1>5 DEF Idle
    <2>4. /\ ConfigInv' /\ CacheInv' /\ RootInv' /\ ServingInv'
          /\ SlugsCanBeMade' /\ TrustsWhatIsListed'
      BY <2>2, <2>3 DEF ConfigInv, CacheInv, RootInv, ServingInv, SlugsCanBeMade,
         TrustsWhatIsListed
    <2>5. onRequest(method, path)
      BY <1>5 DEF path
    <2> QED BY <2>1, <2>3, <2>4, <2>5, RoutesLinks, RoutesCounted, RoutesPages, RoutesStatic
  <1>6. ASSUME requestComplete PROVE RouterInv'
    <2>1. /\ routed' = Nothing
          /\ UNCHANGED <<phase, settings, config, doc_root, frontend_dir_cache>>
      BY <1>6 DEF requestComplete
    <2>2. ConfigInv' /\ CacheInv' /\ RootInv' /\ SlugsCanBeMade'
      BY <2>1 DEF ConfigInv, CacheInv, RootInv, SlugsCanBeMade
    <2>3. TrustsWhatIsListed'
      BY <2>1 DEF TrustsWhatIsListed
    <2> QED BY <2>1, <2>2, <2>3, NothingRouted
  <1>7. ASSUME UNCHANGED vars PROVE RouterInv'
    <2> USE <1>7 DEF vars
    <2>1. ConfigInv' /\ CacheInv' /\ RootInv' /\ ServingInv' /\ SlugsCanBeMade'
      BY DEF ConfigInv, CacheInv, RootInv, ServingInv, SlugsCanBeMade
    <2>2. TrustsWhatIsListed'
      BY DEF TrustsWhatIsListed
    <2>3. LinksLeadBack'
      BY DEF LinksLeadBack, PathOfSlug
    <2>4. EveryShorteningCounted' /\ PagesServedAsThemselves'
      BY DEF EveryShorteningCounted, PagesServedAsThemselves
    <2>5. ServedBelowRoot'
      BY DEF ServedBelowRoot
    <2> QED BY <2>1, <2>2, <2>3, <2>4, <2>5
  <1> QED BY <1>1, <1>2, <1>3, <1>4, <1>5, <1>6, <1>7, NextKinds

-----------------------------------------------------------------------------
(* RouterInv holds whatever the server is configured with and asked for.    *)
THEOREM RouterInvariant == Spec => []RouterInv
  BY RouterInvInit, RouterInvNext, PTL DEF Spec

(* Configured by the environment, the server can make slugs: the length     *)
(* that is tested is the byte that is used.                                 *)
THEOREM SlugsAlwaysMade == Spec => []SlugsCanBeMade
  <1>1. RouterInv => SlugsCanBeMade
    BY DEF RouterInv
  <1> QED BY RouterInvariant, <1>1, PTL

(* The networks believed are those the environment lists, however many      *)
(* entries it has and however many of them are empty or do not parse.       *)
THEOREM ListedAreTrusted == Spec => []TrustsWhatIsListed
  <1>1. RouterInv => TrustsWhatIsListed
    BY DEF RouterInv
  <1> QED BY RouterInvariant, <1>1, PTL

(* A link that was given out leads back to its slug, whatever it spells,    *)
(* and nothing else is taken for one.                                       *)
THEOREM LinksAlwaysLeadBack == Spec => []LinksLeadBack
  <1>1. RouterInv => LinksLeadBack
    BY DEF RouterInv
  <1> QED BY RouterInvariant, <1>1, PTL

(* No request for a short URL gets around the rate limiter.                 *)
THEOREM ShorteningsAreCounted == Spec => []EveryShorteningCounted
  <1>1. RouterInv => EveryShorteningCounted
    BY DEF RouterInv
  <1> QED BY RouterInvariant, <1>1, PTL

(* What is served under /static/ lies below the root that is configured,    *)
(* whatever that is, whatever is asked for and however long the path.       *)
THEOREM StaticStaysBelowRoot == Spec => []ServedBelowRoot
  <1>1. RouterInv => ServedBelowRoot
    BY DEF RouterInv
  <1> QED BY RouterInvariant, <1>1, PTL

(* A path that stands for a front-end file gets that file with its type.    *)
THEOREM PagesAreServed == Spec => []PagesServedAsThemselves
  <1>1. RouterInv => PagesServedAsThemselves
    BY DEF RouterInv
  <1> QED BY RouterInvariant, <1>1, PTL

-----------------------------------------------------------------------------
LEMMA RecordsAreThings ==
  /\ \A env : new_from_env(env) # Nothing
  /\ \A yaml : new_from_yaml(yaml) # Nothing
  /\ \A a, b : [cloudflare |-> a, reverse_proxies |-> b] # Nothing
  <1>1. DOMAIN Nothing = {}
    BY EmptySeq DEF Nothing
  <1>2. \A env : "from" \in DOMAIN new_from_env(env)
    BY DEF new_from_env
  <1>3. \A yaml : "from" \in DOMAIN new_from_yaml(yaml)
    BY DEF new_from_yaml
  <1>4. \A a, b : "cloudflare" \in DOMAIN [cloudflare |-> a, reverse_proxies |-> b]
    OBVIOUS
  <1> HIDE DEF Nothing, new_from_env, new_from_yaml
  <1>5. \A yaml : new_from_yaml(yaml) # Nothing
    BY <1>1, <1>3, Zenon
  <1>6. \A env : new_from_env(env) # Nothing
    BY <1>1, <1>2, Zenon
  <1>7. \A a, b : [cloudflare |-> a, reverse_proxies |-> b] # Nothing
    BY <1>1, <1>4, Zenon
  <1> QED BY <1>5, <1>6, <1>7, Zenon

LEMMA TypeInit == Init => TypeOK
  BY DEF Init, TypeOK

LEMMA TypeLoaded ==
  ASSUME TypeOK, ServingInv, phase = "start", NEW from, NEW new, Loaded(from, new),
         new # Nothing,
         new.slug_length \in 0..ByteModulus - 1, new.alphabet_len \in Nat,
         new.cf_cidrs \subseteq Networks, new.reverse_proxy_cidrs \subseteq Networks
  PROVE  TypeOK'
  <1>1. /\ phase' = "loaded" /\ config' = new /\ routed' = routed
        /\ settings' = [cloudflare |-> from.cloudflare, reverse_proxies |-> from.reverse_proxies]
    BY DEF Loaded
  <1>2. settings' # Nothing
    BY <1>1, RecordsAreThings
  <1>3. doc_root' \in StaticRoots \cup {Nothing}
    BY Zenon DEF Loaded
  <1>4. routed' = Nothing
    BY <1>1 DEF ServingInv
  <1>5. new.cf_cidrs \cup new.reverse_proxy_cidrs \subseteq Networks
    OBVIOUS
  <1> QED BY <1>1, <1>2, <1>3, <1>4, <1>5 DEF TypeOK

LEMMA TypeEnd ==
  ASSUME TypeOK, ServingInv, phase \in {"start", "loaded"}, End
  PROVE  TypeOK'
  <1>1. /\ phase' = "ended" /\ settings' = Nothing /\ config' = Nothing /\ doc_root' = Nothing
        /\ routed' = Nothing
    BY DEF End, ServingInv
  <1> QED BY <1>1 DEF TypeOK

LEMMA TypeRequest ==
  ASSUME TypeOK, NEW method \in Methods, NEW path, onRequest(method, path)
  PROVE  TypeOK'
  <1> DEFINE Routed(h) == /\ routed'.handler = h /\ routed'.method = method
                          /\ routed'.counted = Protected(method, path)
                          /\ UNCHANGED <<phase, settings, config, doc_root>>
  <1>1. ASSUME NEW h, NEW slug, NEW page, NEW type, NEW file,
               Makes(h, method, path, slug, page, type, file)
        PROVE  Routed(h)
    BY <1>1 DEF Makes
  <1> HIDE DEF Routed
  <1>2. \E h \in Handlers : Routed(h)
    <2>1. CASE RouteFrontend(method, path)
      <3>1. Routed("FrontendHandler")
        BY <1>1, <2>1, Zenon DEF RouteFrontend
      <3> QED BY <3>1, Zenon DEF Handlers
    <2>2. CASE RouteStatic(method, path)
      <3>1. Routed("StaticHandler")
        BY <1>1, <2>2, Zenon DEF RouteStatic
      <3> QED BY <3>1, Zenon DEF Handlers
    <2>3. CASE RouteMakeUrl(method, path)
      <3>1. Routed("MakeUrlRequestHandler")
        BY <1>1, <2>3, Zenon DEF RouteMakeUrl
      <3> QED BY <3>1, Zenon DEF Handlers
    <2>4. CASE RouteRedirect(method, path)
      <3>1. Routed("UrlRedirectHandler")
        BY <1>1, <2>4, Zenon DEF RouteRedirect
      <3> QED BY <3>1, Zenon DEF Handlers
    <2>5. CASE RouteNotFound(method, path)
      <3>1. Routed("NotFoundHandler")
        BY <1>1, <2>5, Zenon DEF RouteNotFound
      <3> QED BY <3>1, Zenon DEF Handlers
    <2> QED BY <2>1, <2>2, <2>3, <2>4, <2>5 DEF onRequest
  <1>3. Protected(method, path) \in BOOLEAN
    BY Zenon DEF Protected
  <1>4. PICK h \in Handlers : Routed(h)
    BY <1>2
  <1>5. routed'.handler \in Handlers /\ routed'.method \in Methods /\ routed'.counted \in BOOLEAN
    BY <1>3, <1>4, Zenon DEF Routed
  <1>6. UNCHANGED <<phase, settings, config, doc_root>>
    BY <1>4 DEF Routed
  <1> QED BY <1>5, <1>6 DEF TypeOK

LEMMA TypeNext == TypeOK /\ ServingInv /\ [Next]_vars => TypeOK'
  <1> SUFFICES ASSUME TypeOK, ServingInv, [Next]_vars PROVE TypeOK'
    OBVIOUS
  <1>1. ASSUME phase = "start", NEW env \in EnvSettings, LoadEnv(env) PROVE TypeOK'
    <2> DEFINE new == new_from_env(env)
    <2>1. /\ new.slug_length = slug_length_from_env(env.slug_length)
          /\ new.alphabet_len = alphabet_len_from_env(env.alphabet_len)
          /\ new.cf_cidrs = Parsed(split_csv_string(env.cloudflare, ","))
          /\ new.reverse_proxy_cidrs = Parsed(split_csv_string(env.reverse_proxies, ","))
      BY DEF new_from_env
    <2>2. EnvAccepted(env) /\ Loaded(env, new)
      BY <1>1 DEF LoadEnv
    <2>3. new.slug_length \in 0..ByteModulus - 1 /\ new.alphabet_len \in Nat
      <3>1. new.slug_length \in 1..ByteModulus - 1 /\ new.alphabet_len \in Nat
        BY <2>1, <2>2, SlugLengthTested
      <3> HIDE DEF new
      <3> QED BY <3>1, AppConfigAssumption
    <2>4. new.cf_cidrs \subseteq Networks /\ new.reverse_proxy_cidrs \subseteq Networks
      BY <2>1, Zenon DEF Parsed
    <2>5. new # Nothing
      BY RecordsAreThings
    <2> HIDE DEF new
    <2> QED BY <1>1, <2>2, <2>3, <2>4, <2>5, TypeLoaded
  <1>2. ASSUME phase = "start", NEW yaml \in YamlSettings, LoadYaml(yaml) PROVE TypeOK'
    <2> DEFINE new == new_from_yaml(yaml)
    <2>1. /\ new.slug_length = yaml.slug_length
          /\ new.alphabet_len = yaml.alphabet_len
          /\ new.cf_cidrs = Parsed(yaml.cloudflare)
          /\ new.reverse_proxy_cidrs = Parsed(yaml.reverse_proxies)
      BY DEF new_from_yaml
    <2>2. Loaded(yaml, new)
      BY <1>2 DEF LoadYaml
    <2>3. new.slug_length \in 0..ByteModulus - 1 /\ new.alphabet_len \in Nat
      BY <2>1, SettingsAssumption
    <2>4. new.cf_cidrs \subseteq Networks /\ new.reverse_proxy_cidrs \subseteq Networks
      BY <2>1, Zenon DEF Parsed
    <2>5. new # Nothing
      BY RecordsAreThings
    <2> HIDE DEF new
    <2> QED BY <1>2, <2>2, <2>3, <2>4, <2>5, TypeLoaded
  <1>3. ASSUME phase \in {"start", "loaded"}, End PROVE TypeOK'
    BY <1>3, TypeEnd
  <1>4. ASSUME phase = "loaded", NEW dir \in FrontendDirs, build_frontend_dir_cache(dir)
        PROVE  TypeOK'
    <2>1. phase' = "serving" /\ settings' = Nothing /\ UNCHANGED <<config, doc_root, routed>>
      BY <1>4 DEF build_frontend_dir_cache
    <2> QED BY <1>4, <2>1 DEF TypeOK
  <1>5. ASSUME NEW method \in Methods, NEW url \in Urls, onRequest(method, getPath(url))
        PROVE  TypeOK'
    BY <1>5, TypeRequest
  <1>6. ASSUME requestComplete PROVE TypeOK'
    BY <1>6 DEF requestComplete, TypeOK
  <1>7. ASSUME UNCHANGED vars PROVE TypeOK'
    BY <1>7 DEF vars, TypeOK
  <1> QED BY <1>1, <1>2, <1>3, <1>4, <1>5, <1>6, <1>7, NextKinds

(* Type correctness of start-up and routing: a configuration from the time  *)
(* it is loaded to the end, with the length of slugs a byte and networks    *)
(* that parsed, a root among those configured, and a handler of the five.   *)
THEOREM TypeCorrect == Spec => []TypeOK
  <1>1. RouterInv => ServingInv
    BY DEF RouterInv
  <1> QED BY <1>1, TypeInit, TypeNext, RouterInvariant, PTL DEF Spec
=============================================================================
