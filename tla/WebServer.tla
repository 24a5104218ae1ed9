------------------------------ MODULE WebServer ------------------------------
(***************************************************************************)
(* main of url_shortener/web_server.cc up to the server's start, and the    *)
(* way of a request through the two factories: AntiAbuseProtection, which   *)
(* decides whether the access is counted (how is RateLimiter.tla), and      *)
(* MyRequestHandlerFactory, which makes its handler; with what the handlers *)
(* of front-end and static files then make of the path.                     *)
(*                                                                         *)
(* A path is a sequence of tokens: "/", "?", "..", a file name, or a        *)
(* character of the alphabet, for which a word of such characters that the  *)
(* router looks for (api, static...) may stand.                             *)
(***************************************************************************)
EXTENDS AppConfig

CONSTANTS
  EnvSettings, YamlSettings,  \* what the process may be started with
  FrontendDirs,      \* what the front-end directory may hold
  StaticRoots,       \* values of static_file_doc_root, as path components
  Methods, Urls,     \* what clients request
  Extension,         \* std::filesystem::path::extension of each token
  MaxRequestStrLen,  \* max_request_str_len: 1000
  MaxFilePathLen     \* max_file_path_length: 1000

ASSUME WebServerAssumption ==
  /\ MaxRequestStrLen \in Nat
  /\ ByteModulus <= MaxRequestStrLen   \* room for every slug and its slash
  /\ MaxFilePathLen \in Nat
  /\ StaticRoots \subseteq Seq(Seq(STRING))
  /\ Urls \subseteq Seq(STRING)
  /\ \A url \in Urls : url # << >> /\ Head(url) # "?"
  /\ DOMAIN Extension = (UNION {ToSet(url) : url \in Urls}) \cup {"index.html"}
  /\ Extension["index.html"] = ".html"

(* Neither the slash of a path nor the mark of a query is in the alphabet.  *)
ASSUME AlphabetAssumption ==
  /\ alphabet \in Seq(STRING)
  /\ \A k \in 1..Len(alphabet) : alphabet[k] \notin {"/", "?"}

(* Settings are texts; std::atoi and as<uint8_t> make numbers of some.      *)
ASSUME SettingsAssumption ==
  /\ \A env \in EnvSettings : /\ env.slug_length \in Int \cup {Absent}
                              /\ env.alphabet_len \in Nat \cup {Absent}
                              /\ env.cloudflare \in Seq(STRING) \cup {Absent}
                              /\ env.reverse_proxies \in Seq(STRING) \cup {Absent}
  /\ \A yaml \in YamlSettings : /\ yaml.slug_length \in 0..ByteModulus - 1
                                /\ yaml.alphabet_len \in Nat

(* A file has a name.                                                       *)
ASSUME FrontendAssumption ==
  \A dir \in FrontendDirs : dir.regular_files \subseteq Seq(STRING) \ {<< >>}

VARIABLES
  phase,               \* of main: "start", "loaded", "serving", "ended"
  settings,            \* what the configuration was loaded from, until serving
  config,              \* ro_app_state
  doc_root,            \* its static_file_doc_root as path components
  frontend_dir_cache,  \* the names of the files in it
  routed               \* the request at hand, and what becomes of it

vars == <<phase, settings, config, doc_root, frontend_dir_cache, routed>>

Nothing == << >>

Init ==
  /\ phase = "start"
  /\ settings = Nothing
  /\ config = Nothing
  /\ doc_root = Nothing
  /\ frontend_dir_cache = {}
  /\ routed = Nothing

End ==
  /\ phase' = "ended"
  /\ settings' = Nothing /\ config' = Nothing /\ doc_root' = Nothing
  /\ UNCHANGED <<frontend_dir_cache, routed>>

Loaded(from, new) ==
  /\ phase' = "loaded"
  /\ settings' = [cloudflare |-> from.cloudflare, reverse_proxies |-> from.reverse_proxies]
  /\ config' = new
  /\ doc_root' \in IF new.static_file_doc_root = Absent THEN {Nothing} ELSE StaticRoots
  /\ UNCHANGED <<frontend_dir_cache, routed>>

LoadEnv(env) == EnvAccepted(env) /\ Loaded(env, new_from_env(env))

LoadEnvFails(env) == ~EnvAccepted(env) /\ End

LoadYaml(yaml) == YamlAccepted(yaml) /\ Loaded(yaml, new_from_yaml(yaml))

LoadYamlFails(yaml) == ~YamlAccepted(yaml) /\ End

(* --config_file names no file, or later the database does not open: the    *)
(* path of it is only ever set by new_from_yaml.                            *)
MissingConfigFile == End
OpenFails == End

(* build_frontend_dir_cache: the iterator throws without a directory, and a *)
(* file that cannot be opened is read through a null pointer.               *)
BuildFails(dir) ==
  /\ config.frontend_doc_root = "missing" \/ dir.unreadable
  /\ End

build_frontend_dir_cache(dir) ==
  /\ config.frontend_doc_root = "exists" /\ ~dir.unreadable
  /\ phase' = "serving"
  /\ frontend_dir_cache' = dir.regular_files
  /\ settings' = Nothing
  /\ UNCHANGED <<config, doc_root, routed>>

-----------------------------------------------------------------------------
(* HTTPMessage::getPath: the URL up to its query.                           *)
getPath(url) ==
  LET k == SelectInSeq(url, LAMBDA t : t = "?")
  IN  IF k = 0 THEN url ELSE SubSeq(url, 1, k - 1)

(* Only POSTs are protected.                                                *)
ProtectedPostOnly(method, path) == method = "POST"

(* The routes AntiAbuseProtection::onRequest counts.                        *)
Protected(method, path) ==
  method \in {"POST", "PUT", "DELETE"} \/ IsPrefix(<<"/", "api", "/">>, path)

NoPage == << >>

(* The name FrontendHandler::lookup looks for; NoPage if it is not there.   *)
lookup(path) ==
  LET name == IF Last(path) = "/" THEN Tail(path) \o <<"index.html">> ELSE Tail(path)
  IN  IF Head(path) = "/" /\ name \in frontend_dir_cache THEN name ELSE NoPage

Legal(t) == \E k \in 1..Len(alphabet) : alphabet[k] = t

is_ok_request_path(src) ==
  Len(src) <= MaxRequestStrLen /\ \A k \in 1..Len(src) : Legal(src[k])

(* The path up to the first symbol that is not in the alphabet.             *)
parse_out_request_strStops(src) ==
  LET e == SelectInSubSeq(src, 2, Len(src), LAMBDA t : ~Legal(t))
  IN  CASE Len(src) > MaxRequestStrLen \/ src[1] # "/" -> << >>
        [] OTHER -> SubSeq(src, 2, IF e = 0 THEN Len(src) ELSE e - 1)

(* The path without its slash and without a query, if all its symbols are   *)
(* of the alphabet.                                                         *)
parse_out_request_str(src) ==
  LET e == SelectInSubSeq(src, 2, Len(src), LAMBDA t : ~Legal(t))
  IN  CASE Len(src) > MaxRequestStrLen \/ src[1] # "/" -> << >>
        [] Len(src) <= MaxRequestStrLen /\ src[1] = "/" /\ e # 0 ->
             IF src[e] = "?" THEN SubSeq(src, 2, e - 1) ELSE << >>
        [] OTHER -> Tail(src)

(* mime_type::infer_mime_type and mime_type::string; two of the extensions  *)
(* tested, "oga" and the second ".png", never match.                        *)
MimeTypes == {
  <<".html", "text/html">>, <<".htm", "text/html">>,
  <<".js", "text/javascript">>, <<".css", "text/css">>,
  <<".woff2", "font/woff2">>, <<".woff", "font/woff">>,
  <<".jpeg", "image/jpeg">>, <<".jpg", "image/jpeg">>,
  <<".png", "image/png">>, <<".svg", "image/svg+xml">>,
  <<".ico", "image/vnd.microsoft.icon">>, <<".txt", "text/plain">>,
  <<".md", "text/plain">>, <<".rst", "text/plain">>,
  <<".json", "application/json">>, <<".jsonld", "application/ld+json">>,
  <<".otf", "font/otf">>, <<".ogg", "application/ogg">>,
  <<".ogv", "video/ogg">>, <<".mp3", "audio/mpeg">>,
  <<".mpeg", "video/mpeg">>, <<".mp4", "video/mp4">>}

infer_mime_type(filename) ==
  LET ext == Extension[Last(filename)]
  IN  IF \E m \in MimeTypes : m[1] = ext
      THEN (CHOOSE m \in MimeTypes : m[1] = ext)[2] ELSE "application/octet-stream"

-----------------------------------------------------------------------------
(* std::filesystem::path: the components of a path, where one slash is as   *)
(* good as several and a last one leaves an empty component; and operator/, *)
(* where an absolute path takes the place of the root.                      *)
RootDir == <<"/">>

(* One part further: an empty one leads nowhere, and where ".." is          *)
(* followed, it leads back as far as the root.                              *)
Further(at, part, follow) ==
  IF part = << >> THEN at
  ELSE IF follow /\ part = <<"..">> THEN IF Len(at) > 1 THEN Front(at) ELSE at
  ELSE Append(at, part)

Walk(parts, follow) ==
  LET at[k \in 0..Len(parts)] ==
        IF k = 0 THEN << >> ELSE Further(at[k - 1], parts[k], follow)
  IN  at[Len(parts)]

Components(p) ==
  Walk(split_csv_string(p, "/"), FALSE)
    \o IF p = << >> \/ Last(p) = "/" THEN << << >> >> ELSE << >>

Joined(root, p) ==
  LET base == IF root # << >> /\ Last(root) = << >> THEN Front(root) ELSE root
  IN  CASE p # << >> /\ Head(p) = "/" -> <<RootDir>> \o Components(p)
        [] p = << >> /\ root = << >> -> << >>
        [] OTHER -> base \o Components(p)

(* Whether the path leads up is not tested.                                 *)
validate_static_file_request_pathDotDot(path) ==
  Len(path) < MaxFilePathLen /\ ~\E k \in 2..Len(path) : path[k - 1] = "/" /\ path[k] = "/"

validate_static_file_request_path(path) ==
  /\ Len(path) < MaxFilePathLen
  /\ ~\E k \in 2..Len(path) : path[k - 1] = "/" /\ path[k] = "/"
  /\ ~Contains(path, "..")

StaticPrefix == <<"/", "static", "/">>
expected_file_path(path) == Joined(doc_root, SubSeq(path, Len(StaticPrefix) + 1, Len(path)))

file_is_under_dir(file, dir) ==
  /\ Len(dir) <= Len(file)
  /\ \A k \in 1..Len(dir) : dir[k] = file[k] \/ dir[k] = << >>

NoFile == << << >> >>

(* The file StaticHandler::onRequest looks for in the cache and then opens; *)
(* NoFile for a 400.                                                        *)
StaticFile(path) ==
  IF /\ validate_static_file_request_path(path)
     /\ file_is_under_dir(expected_file_path(path), doc_root)
  THEN expected_file_path(path) ELSE NoFile

-----------------------------------------------------------------------------
Idle == phase = "serving" /\ routed = Nothing

(* A request that gets the handler: the two factories, and what the handler *)
(* is made with.                                                            *)
Makes(handler, method, path, slug, page, type, file) ==
  /\ routed' = [handler |-> handler, method |-> method, path |-> path,
                slug |-> slug, page |-> page, type |-> type, file |-> file,
                counted |-> Protected(method, path)]
  /\ UNCHANGED <<phase, settings, config, doc_root, frontend_dir_cache>>

(* The type is inferred from the path of the request.                       *)
RouteFrontendTypedByPath(method, path) ==
  /\ lookup(path) # NoPage
  /\ Makes("FrontendHandler", method, path, << >>, lookup(path), infer_mime_type(path), NoFile)

RouteFrontend(method, path) ==
  /\ lookup(path) # NoPage
  /\ Makes("FrontendHandler", method, path, << >>, lookup(path),
           infer_mime_type(lookup(path)), NoFile)

ToStatic(method, path) == IsPrefix(StaticPrefix, path) /\ method = "GET"

RouteStatic(method, path) ==
  /\ lookup(path) = NoPage
  /\ ToStatic(method, path)
  /\ Makes("StaticHandler", method, path, << >>, NoPage, "", StaticFile(path))

ToApi(method, path) == ~ToStatic(method, path) /\ IsPrefix(<<"/", "api", "/">>, path)
ToCreate(method, path) ==
  path = <<"/", "api", "/", "v1", "/", "create">> /\ method \in {"POST", "PUT"}

RouteMakeUrl(method, path) ==
  /\ lookup(path) = NoPage
  /\ ToApi(method, path) /\ ToCreate(method, path)
  /\ Makes("MakeUrlRequestHandler", method, path, << >>, NoPage, "", NoFile)

ToRedirect(method, path) == parse_out_request_str(path) # << >> /\ method = "GET"

RouteRedirect(method, path) ==
  /\ lookup(path) = NoPage
  /\ ~ToStatic(method, path) /\ ~ToApi(method, path)
  /\ ToRedirect(method, path)
  /\ Makes("UrlRedirectHandler", method, path, parse_out_request_str(path), NoPage, "", NoFile)

(* NotFoundHandler, under /api/ and elsewhere.                              *)
RouteNotFound(method, path) ==
  /\ lookup(path) = NoPage
  /\ ~ToStatic(method, path)
  /\ IF ToApi(method, path) THEN ~ToCreate(method, path) ELSE ~ToRedirect(method, path)
  /\ Makes("NotFoundHandler", method, path, << >>, NoPage, "", NoFile)

(* The request is over, one way or the other: `delete this'.  Handlers that *)
(* live side by side share nothing here.                                    *)
requestComplete ==
  /\ routed # Nothing
  /\ routed' = Nothing
  /\ UNCHANGED <<phase, settings, config, doc_root, frontend_dir_cache>>

onRequest(method, path) ==
  \/ RouteFrontend(method, path) \/ RouteStatic(method, path)
  \/ RouteMakeUrl(method, path) \/ RouteRedirect(method, path)
  \/ RouteNotFound(method, path)

Next ==
  \/ /\ phase = "start"
     /\ \/ \E env \in EnvSettings : LoadEnv(env) \/ LoadEnvFails(env)
        \/ \E yaml \in YamlSettings : LoadYaml(yaml) \/ LoadYamlFails(yaml)
        \/ MissingConfigFile
  \/ /\ phase = "loaded"
     /\ \/ OpenFails
        \/ \E dir \in FrontendDirs : BuildFails(dir) \/ build_frontend_dir_cache(dir)
  \/ Idle /\ \E method \in Methods, url \in Urls : onRequest(method, getPath(url))
  \/ requestComplete
  \/ phase = "ended" /\ UNCHANGED vars

Spec == Init /\ [][Next]_vars

-----------------------------------------------------------------------------
Handlers == {"FrontendHandler", "StaticHandler", "MakeUrlRequestHandler",
             "UrlRedirectHandler", "NotFoundHandler"}

TypeOK ==
  /\ phase \in {"start", "loaded", "serving", "ended"}
  /\ (config # Nothing) = (phase \in {"loaded", "serving"})
  /\ config # Nothing =>
       /\ config.slug_length \in 0..ByteModulus - 1 /\ config.alphabet_len \in Nat
       /\ config.cf_cidrs \cup config.reverse_proxy_cidrs \subseteq Networks
  /\ (settings # Nothing) = (phase = "loaded")
  /\ doc_root \in StaticRoots \cup {Nothing}
  /\ routed # Nothing =>
       /\ routed.handler \in Handlers
       /\ routed.method \in Methods
       /\ routed.counted \in BOOLEAN

(* A server configured by the environment has what generate_slug needs to   *)
(* end with a slug (GenerateSlugAssumption of GenerateSlug.tla), whatever   *)
(* number slug_length is set to: the value tested is the one that is used.  *)
SlugsCanBeMade ==
  config # Nothing /\ config.from = "env" =>
    config.slug_length > 0 /\ config.alphabet_len > 1

(* The networks that stand alone between two commas of a setting.           *)
Listed(csv) ==
  {csv[k] : k \in {k \in 1..Len(csv) :
     /\ csv[k] \in Networks
     /\ k = 1 \/ csv[k - 1] = ","
     /\ k = Len(csv) \/ csv[k + 1] = ","}}

(* The proxies whose headers are believed are exactly those the environment *)
(* lists: none is lost to an empty entry, a trailing comma or a neighbour   *)
(* that does not parse, and none is made up.                                *)
TrustsWhatIsListed ==
  phase = "loaded" /\ config.from = "env" =>
    /\ config.cf_cidrs = Listed(settings.cloudflare)
    /\ config.reverse_proxy_cidrs = Listed(settings.reverse_proxies)

(* The path is that of a slug generate_slug can make with this              *)
(* configuration.  (It takes the characters from the built-in alphabet.)    *)
PathOfSlug(path) ==
  /\ config.slug_length > 0 /\ config.alphabet_len <= Len(alphabet)
  /\ Len(path) = config.slug_length + 1
  /\ Head(path) = "/"
  /\ \A k \in 2..Len(path) : \E m \in 1..config.alphabet_len : path[k] = alphabet[m]

(* A link that was given out leads back to its slug: a GET of it gets the   *)
(* redirect handler with that slug whatever words it spells, and only a     *)
(* front-end file of that very name can hide it.  No other path is taken    *)
(* for a slug: what the redirect handler looks up is the whole path, and    *)
(* is_ok_request_path would accept it.                                      *)
LinksLeadBack ==
  routed # Nothing =>
    /\ routed.method = "GET" /\ PathOfSlug(routed.path) =>
         \/ routed.handler = "UrlRedirectHandler" /\ routed.slug = Tail(routed.path)
         \/ routed.handler = "FrontendHandler" /\ routed.page = Tail(routed.path)
    /\ routed.handler = "UrlRedirectHandler" =>
         /\ routed.slug # << >> /\ is_ok_request_path(routed.slug)
         /\ routed.path = <<"/">> \o routed.slug

(* No way of asking for a new short URL gets around the rate limiter: the   *)
(* two factories each test the method and the path, and where the second    *)
(* makes a MakeUrlRequestHandler the first has counted the access.          *)
EveryShorteningCounted ==
  routed # Nothing /\ routed.handler = "MakeUrlRequestHandler" => routed.counted

Cwd == << RootDir, <<"cwd">> >>

(* The directory or file a path leads to, its ".." followed.                *)
Resolve(file) ==
  Walk(IF file # << >> /\ Head(file) = RootDir THEN file ELSE Cwd \o file, TRUE)

(* A file that is served under /static/ lies below static_file_doc_root     *)
(* (symbolic links aside), in whatever form that is configured.             *)
ServedBelowRoot ==
  routed # Nothing /\ routed.handler = "StaticHandler" /\ routed.file # NoFile =>
    IsPrefix(Resolve(doc_root), Resolve(routed.file))

(* A path that names a front-end file, or a directory with an index page,   *)
(* is answered with that file and no other handler, whatever the method,    *)
(* and with the type of the file: an index page is never an octet stream.   *)
PagesServedAsThemselves ==
  routed # Nothing =>
    LET names == {page \in frontend_dir_cache :
          \/ routed.path = <<"/">> \o page /\ Last(page) # "/"
          \/ routed.path \o <<"index.html">> = <<"/">> \o page /\ Last(routed.path) = "/"}
    IN  /\ (routed.handler = "FrontendHandler") = (names # {})
        /\ names # {} => /\ names = {routed.page}
                         /\ routed.type = infer_mime_type(routed.page)
                         /\ Last(routed.path) = "/" => routed.type = "text/html"
=============================================================================
