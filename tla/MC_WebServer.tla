---------------------------- MODULE MC_WebServer ----------------------------
(***************************************************************************)
(* Settings are good ones with up to two of them changed; requests are the  *)
(* paths the router tells apart, followed by up to three tokens.            *)
(***************************************************************************)
EXTENDS WebServer

Builtin == <<"a", "api", "static">>

Lists == {<< >>, <<"n1">>, <<"n1", ",">>, <<",", "n1">>, <<"n1", ",", "n2">>,
          <<"n1", ",", "x", ",", "n2">>, <<"n1", ",", " ", "n2">>}

GoodEnv ==
  [key |-> "hex", static_file_doc_root |-> Absent, frontend_doc_root |-> "exists",
   ca_certs |-> Absent, captcha_key |-> "set", cloudflare |-> <<"n1">>,
   reverse_proxies |-> << >>, slug_length |-> Absent, alphabet_len |-> Absent]
EnvChoices ==
  [key |-> {Absent, "short", "no hex"}, static_file_doc_root |-> {"exists", "missing"},
   frontend_doc_root |-> {Absent, "missing"}, ca_certs |-> {"exists", "missing"},
   captcha_key |-> {Absent, "empty"}, cloudflare |-> Lists \cup {Absent},
   reverse_proxies |-> Lists \cup {Absent}, slug_length |-> {-1, 0, 1, 3, 4, 5},
   alphabet_len |-> {0, 1, 2, 4}]

GoodYaml ==
  [complete |-> TRUE, key |-> "hex", db_dir |-> "writable", slug_length |-> 2,
   alphabet_len |-> 3, static_file_doc_root |-> "exists", frontend_doc_root |-> "exists",
   cloudflare |-> <<<<"n1">>, <<"x">>>>, reverse_proxies |-> << >>]
YamlChoices ==
  [complete |-> {FALSE}, key |-> {"short", "no hex"}, db_dir |-> {"read-only", "missing"},
   slug_length |-> {0, 1}, alphabet_len |-> {0, 1, 2, 4}, static_file_doc_root |-> {"missing"},
   frontend_doc_root |-> {"missing"}, cloudflare |-> {<< >>},
   reverse_proxies |-> {<<<<"n2">>>>}]

Deviations(all, choices) ==
  all \cup UNION {UNION {{[s EXCEPT ![f] = v] : v \in choices[f]} : f \in DOMAIN choices}
                    : s \in all}
Envs == Deviations(Deviations({GoodEnv}, EnvChoices), EnvChoices)
Yamls == Deviations({GoodYaml}, YamlChoices)

Dirs == {[regular_files |-> {}, unreadable |-> FALSE],
         [regular_files |-> {<<"index.html">>}, unreadable |-> TRUE],
         [regular_files |-> {<<"index.html">>, <<"a">>, <<"static", "/", "index.html">>,
                             <<"a", "/", "app.js">>},
          unreadable |-> FALSE]}

Roots == {<<RootDir, <<"srv">>>>, <<RootDir, <<"srv">>, << >>>>, << <<"..">>, <<"srv">> >>}

Tokens == {"a", "api", "static", "/", "..", "?", "index.html"}
Tails == UNION {[1..n -> Tokens] : n \in 0..3}
Requested ==
  {<<"/">> \o t : t \in Tails}
    \cup {<<"/", "static", "/">> \o t : t \in Tails}
    \cup {<<"/", "api", "/", "v1", "/", "create">> \o t : t \in {<< >>, <<"/">>, <<"?", "a">>}}
    \cup {<<"a">>, <<"/", "a", "/", "app.js">>}

TokenExtension ==
  [t \in Tokens \cup {"v1", "create", "app.js"} |->
     CASE t = "index.html" -> ".html" [] t = "app.js" -> ".js" [] OTHER -> ""]
=============================================================================
