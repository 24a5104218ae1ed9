----------------------------- MODULE RateLimiter -----------------------------
(***************************************************************************)
(* IPAccessCountService and AntiAbuseProtection::onRequest of               *)
(* url_shortener/ddos_protection.cc, on the one IO thread of the default    *)
(* configuration (--threads=1).                                             *)
(*                                                                         *)
(* Times are ticks since time_last_recycled_, which is therefore 0 in every *)
(* state: the code only ever uses differences of times.  One call of        *)
(* onRequest happens within a tick.  A clock past the TTL stops: from there *)
(* on the next access recycles, however late it is.                         *)
(***************************************************************************)
EXTENDS Integers

CONSTANTS
  IPs,
  CloudflareIPs,     \* the IPs in ReadOnlyAppConfig::cf_cidrs
  ReverseProxyIPs,   \* and in reverse_proxy_cidrs
  Absent,            \* a header that is not there
  Unparsable,        \* a header that is not one IP address
  TTL,               \* ip_rate_limiter_seconds_ttl
  RateLimit,         \* rate_limit_per_minute
  SecondsPerMinute,  \* 60 in the code
  TicksPerSecond,
  CountModulus,      \* 2^32: the counters are uint32_t
  MaxStepBack,       \* how many ticks system_clock can be set back
  MaxSeen            \* bound on the accesses of one IP between two recycles

ASSUME RateLimiterAssumption ==
  /\ CloudflareIPs \subseteq IPs /\ ReverseProxyIPs \subseteq IPs
  /\ Absent \notin IPs /\ Unparsable \notin IPs
  /\ TTL \in Nat /\ RateLimit \in Nat /\ MaxStepBack \in Nat /\ MaxSeen \in Nat
  /\ SecondsPerMinute \in Nat \ {0} /\ TicksPerSecond \in Nat \ {0}
  /\ CountModulus \in Nat \ {0, 1}

VARIABLES
  now,               \* system_clock::now()
  time_last_added_,  \* -1 stands for time_point::min()
  ip_access_count_,  \* 0 for an IP that is not in the map
  seen,              \* accesses logged since the last recycle, uncut (history)
  late,              \* those admitted after the first second (history)
  verdict,           \* what the last access of an IP met (history)
  steady,            \* no StepBack since the last recycle (history)
  charged            \* <<peer, ip>>: an access of peer was logged for ip (history)

history == <<seen, late, verdict, steady, charged>>
vars == <<now, time_last_added_, ip_access_count_, history>>

Zero == [ip \in IPs |-> 0]

Init ==
  /\ now = 0
  /\ time_last_added_ = -1
  /\ ip_access_count_ = Zero
  /\ seen = Zero
  /\ late = Zero
  /\ verdict = [ip \in IPs |-> "none"]
  /\ steady = TRUE
  /\ charged = {}

Seconds(ticks) == ticks \div TicksPerSecond

over_seconds == Seconds(time_last_added_)

Minutes == IF over_seconds \div SecondsPerMinute > 0
           THEN over_seconds \div SecondsPerMinute ELSE 1

(* The started minute counts as a whole one.                                *)
hits_per_minuteRoundsUp(ip) ==
  IF time_last_added_ < 0 \/ ip_access_count_[ip] = 0 \/ over_seconds = 0 THEN 0
  ELSE ip_access_count_[ip] \div (Minutes + 1)

hits_per_minute(ip) ==
  IF time_last_added_ < 0 \/ ip_access_count_[ip] = 0 \/ over_seconds = 0 THEN 0
  ELSE ip_access_count_[ip] \div Minutes

(* The condition of check_recycle.                                          *)
Expired == Seconds(now) > TTL

(* The clear of the map is missing.                                         *)
recycleKeepsCounts ==
  /\ now' = 0
  /\ time_last_added_' = 0
  /\ UNCHANGED ip_access_count_
  /\ seen' = Zero
  /\ steady' = TRUE

(* recycle() with the histories of the window it ends.                      *)
recycle ==
  /\ now' = 0
  /\ time_last_added_' = 0
  /\ ip_access_count_' = Zero
  /\ seen' = Zero
  /\ steady' = TRUE

(* check_recycle is not called.                                             *)
log_accessNeverRecycles(ip) ==
  /\ seen[ip] < MaxSeen
  /\ time_last_added_' = now
  /\ ip_access_count_' = [ip_access_count_ EXCEPT ![ip] = (@ + 1) % CountModulus]
  /\ seen' = [seen EXCEPT ![ip] = @ + 1]
  /\ UNCHANGED <<now, steady>>

(* The counter is wider than 32 bits.                                       *)
log_accessUncut(ip) ==
  IF Expired THEN recycle
  ELSE /\ seen[ip] < MaxSeen
       /\ time_last_added_' = now
       /\ ip_access_count_' = [ip_access_count_ EXCEPT ![ip] = @ + 1]
       /\ seen' = [seen EXCEPT ![ip] = @ + 1]
       /\ UNCHANGED <<now, steady>>

(* log_access: the access is counted, and then forgotten with all others    *)
(* when the counts have become too old.                                     *)
log_access(ip) ==
  IF Expired THEN recycle
  ELSE /\ seen[ip] < MaxSeen
       /\ time_last_added_' = now
       /\ ip_access_count_' = [ip_access_count_ EXCEPT ![ip] = (@ + 1) % CountModulus]
       /\ seen' = [seen EXCEPT ![ip] = @ + 1]
       /\ UNCHANGED <<now, steady>>

can_trust_cf_connecting_ip(peer) == peer \in CloudflareIPs
can_trust_x_forwarded_for(peer) == peer \in ReverseProxyIPs

Headers == IPs \cup {Absent, Unparsable}

(* can_trust_x_forwarded_for is not asked.                                  *)
client_ipTrustsAnyProxy(peer, cf, xff) ==
  IF cf # Absent THEN IF can_trust_cf_connecting_ip(peer) THEN cf ELSE Unparsable
  ELSE IF xff # Absent THEN xff ELSE peer

(* The IP an access is counted for; Unparsable when there is none, because  *)
(* the peer may not send that header or because it holds no IP.             *)
client_ip(peer, cf, xff) ==
  CASE cf # Absent -> IF can_trust_cf_connecting_ip(peer) THEN cf ELSE Unparsable
    [] cf = Absent /\ xff # Absent ->
         IF can_trust_x_forwarded_for(peer) THEN xff ELSE Unparsable
    [] OTHER -> peer

(* AntiAbuseProtection::onRequest for a route it does not protect: a GET,   *)
(* say, outside /api/.                                                      *)
Unprotected == UNCHANGED vars

(* onRequest for a protected route and an access without a client IP: a 429 *)
(* and nothing is logged.                                                   *)
NotLogged(peer, cf, xff) ==
  /\ client_ip(peer, cf, xff) = Unparsable
  /\ UNCHANGED vars

Admit(ip) ==
  /\ verdict' = [verdict EXCEPT ![ip] = "admitted"]
  /\ late' = IF Expired THEN Zero
             ELSE [late EXCEPT ![ip] = IF over_seconds' > 0 THEN @ + 1 ELSE @]

Reject(ip) ==
  /\ verdict' = [verdict EXCEPT ![ip] = "rejected"]
  /\ UNCHANGED late

(* onRequest for a protected route: log the access, then judge it.          *)
onRequest(peer, ip) ==
  /\ log_access(ip)
  /\ charged' = charged \cup {<<peer, ip>>}
  /\ IF hits_per_minute(ip)' > RateLimit THEN Reject(ip) ELSE Admit(ip)

Tick ==
  /\ now' = IF Expired THEN now ELSE now + 1
  /\ UNCHANGED <<time_last_added_, ip_access_count_, seen, late, verdict, steady, charged>>

(* The clock is set back.                                                   *)
StepBack ==
  /\ MaxStepBack > 0
  /\ \E k \in 1..MaxStepBack : now' = now - k /\ now' >= -MaxStepBack
  /\ steady' = FALSE
  /\ UNCHANGED <<time_last_added_, ip_access_count_, seen, late, verdict, charged>>

Access(ip) ==
  \E peer \in IPs, cf, xff \in Headers :
    client_ip(peer, cf, xff) = ip /\ onRequest(peer, ip)

Next ==
  \/ \E ip \in IPs : Access(ip)
  \/ \E peer \in IPs, cf, xff \in Headers : NotLogged(peer, cf, xff)
  \/ Unprotected
  \/ Tick
  \/ StepBack

(* Time passes, and a client that was turned away tries again.              *)
Fairness == WF_vars(Tick) /\ \A ip \in IPs : WF_vars(Access(ip))

Spec == Init /\ [][Next]_vars
FairSpec == Spec /\ Fairness

-----------------------------------------------------------------------------
TypeOK ==
  /\ now \in -MaxStepBack..(TTL + 1) * TicksPerSecond
  /\ time_last_added_ \in Int
  /\ ip_access_count_ \in [IPs -> 0..CountModulus - 1]
  /\ seen \in [IPs -> 0..MaxSeen]
  /\ late \in [IPs -> Nat]
  /\ verdict \in [IPs -> {"none", "admitted", "rejected"}]
  /\ steady \in BOOLEAN
  /\ charged \in SUBSET (IPs \X IPs)

(* The first second after a recycle aside, an IP is admitted less than      *)
(* RateLimit + 1 times for every whole minute between the recycle and the   *)
(* last access (the first minute counts as whole), unless in that time the  *)
(* clock was set back or the counter wrapped.                               *)
AdmissionBound ==
  steady =>
    \A ip \in IPs :
      seen[ip] < CountModulus => late[ip] < (RateLimit + 1) * Minutes

(* No access counts for longer than the TTL: the counts are those of the    *)
(* accesses since the last recycle, and the last of these is at most TTL    *)
(* seconds after it.                                                        *)
CountsAreRecent ==
  /\ Seconds(time_last_added_) <= TTL
  /\ \A ip \in IPs : ip_access_count_[ip] = seen[ip] % CountModulus

(* A peer spends the budget of another IP only if it is a configured proxy. *)
NoForeignCharge ==
  \A c \in charged : c[1] = c[2] \/ c[1] \in CloudflareIPs \cup ReverseProxyIPs

(* An IP that was turned away and keeps trying is admitted again, once the  *)
(* clock is no longer set back: no count locks a client out for ever.       *)
RejectedRecovers ==
  <>[][~StepBack]_vars =>
    \A ip \in IPs : verdict[ip] = "rejected" ~> verdict[ip] = "admitted"
=============================================================================
