------------------------------ MODULE AppConfig ------------------------------
(***************************************************************************)
(* What ReadOnlyAppConfig::new_from_env and new_from_yaml of                *)
(* url_shortener/app_config.cc make of the settings.  A settings record has *)
(* what some step of the program looks at; ports, host names, the rate and  *)
(* its TTL, which are taken as they come, are left out.  A path, file or    *)
(* directory, is "missing" or "exists", or Absent if it is not set.         *)
(***************************************************************************)
EXTENDS Integers, SequencesExt

CONSTANTS
  Absent,            \* an environment variable that is not set
  Networks,          \* what folly::IPAddress::tryCreateNetwork can parse
  ByteModulus,       \* 2^8: slug_length is a uint8_t
  alphabet,          \* the built-in alphabet: default and, for slugs, the only one
  DefaultSlugLength  \* 7 in the code

ASSUME AppConfigAssumption ==
  /\ ByteModulus \in Nat \ {0}
  /\ DefaultSlugLength \in 1..ByteModulus - 1
  /\ Len(alphabet) > 1

(* No network is written with a comma.                                      *)
ASSUME NetworksAssumption == "," \notin Networks

(* A last entry of one character is lost.                                   *)
split_csv_stringCutsShort(csv, delim) ==
  LET Delims(i) == {j \in i..Len(csv) : csv[j] = delim}
      split[i \in 1..Len(csv) + 1] ==
        IF Delims(i) # {}
        THEN <<SubSeq(csv, i, Min(Delims(i)) - 1)>> \o split[Min(Delims(i)) + 1]
        ELSE IF i < Len(csv) THEN <<SubSeq(csv, i, Len(csv))>> ELSE << >>
  IN  split[1]

(* The loop of split_csv_string, from position i of the text on.            *)
split_csv_string(csv, delim) ==
  LET Delims(i) == {j \in i..Len(csv) : csv[j] = delim}
      split[i \in 1..Len(csv) + 1] ==
        IF Delims(i) # {}
        THEN <<SubSeq(csv, i, Min(Delims(i)) - 1)>> \o split[Min(Delims(i)) + 1]
        ELSE IF i <= Len(csv) THEN <<SubSeq(csv, i, Len(csv))>> ELSE << >>
  IN  split[1]

(* The entries tryCreateNetwork can parse; the others are logged.           *)
Parsed(entries) == {n \in Networks : \E k \in DOMAIN entries : entries[k] = <<n>>}

(* The test of the length comes before the value is cut to a byte.          *)
slug_length_from_envTestedFirst(setting) ==
  LET n == IF setting = Absent THEN DefaultSlugLength ELSE setting
  IN  IF n > 0 THEN n % ByteModulus ELSE Absent

(* slug_length as a byte; Absent if the CHECK of it fails.                  *)
slug_length_from_env(setting) ==
  LET n == IF setting = Absent THEN DefaultSlugLength ELSE setting % ByteModulus
  IN  IF n > 0 THEN n ELSE Absent

(* The length of the alphabet: that of the default when the setting is      *)
(* missing or shorter than two characters.                                  *)
alphabet_len_from_env(setting) ==
  IF setting # Absent /\ setting > 1 THEN setting ELSE Len(alphabet)

(* create_highwayhash_key wants 64 characters and std::stoull a digit in    *)
(* each quarter; else there is an exception, and nobody catches it.         *)
create_highwayhash_key(key) == key = "hex"

(* Every CHECK and exception of new_from_env, which all end the process (as *)
(* does the null pointer that becomes a std::string when the captcha key is *)
(* not set).                                                                *)
EnvAccepted(env) ==
  /\ env.key # Absent /\ create_highwayhash_key(env.key)
  /\ env.static_file_doc_root \in {Absent, "exists"}
  /\ env.frontend_doc_root = "exists"
  /\ env.ca_certs \in {Absent, "exists"}
  /\ env.captcha_key \notin {Absent, "empty"}
  /\ env.cloudflare # Absent /\ env.reverse_proxies # Absent
  /\ slug_length_from_env(env.slug_length) # Absent

new_from_env(env) ==
  [slug_length |-> slug_length_from_env(env.slug_length),
   alphabet_len |-> alphabet_len_from_env(env.alphabet_len),
   static_file_doc_root |-> env.static_file_doc_root,
   frontend_doc_root |-> env.frontend_doc_root,
   cf_cidrs |-> Parsed(split_csv_string(env.cloudflare, ",")),
   reverse_proxy_cidrs |-> Parsed(split_csv_string(env.reverse_proxies, ",")),
   from |-> "env"]

(* can_write_to_dir of the directory of urls_db_path.                       *)
can_write_to_dir(dir) == dir = "writable"

(* Every entry must be there and convert; of the values only the key and    *)
(* the directory of the database are looked at.                             *)
YamlAccepted(yaml) ==
  yaml.complete /\ can_write_to_dir(yaml.db_dir) /\ create_highwayhash_key(yaml.key)

(* as<uint8_t> and as<std::string> take a length of 0 as well; the networks *)
(* are lists, not comma-separated.                                          *)
new_from_yaml(yaml) ==
  [slug_length |-> yaml.slug_length,
   alphabet_len |-> yaml.alphabet_len,
   static_file_doc_root |-> yaml.static_file_doc_root,
   frontend_doc_root |-> yaml.frontend_doc_root,
   cf_cidrs |-> Parsed(yaml.cloudflare),
   reverse_proxy_cidrs |-> Parsed(yaml.reverse_proxies),
   from |-> "yaml"]
=============================================================================
