-------------------------- MODULE RateLimiterProofs --------------------------
(***************************************************************************)
(* Proofs about RateLimiter.tla for every limit, TTL, resolution of the     *)
(* clock and width of the counters.                                         *)
(***************************************************************************)
EXTENDS RateLimiter, TLAPS

-----------------------------------------------------------------------------
(* Arithmetic.                                                              *)

LEMMA ModUnique ==
  ASSUME NEW m \in Nat \ {0}, NEW q \in Nat, NEW k \in 0..m - 1,
         NEW x \in Nat, x = m * q + k
  PROVE  x % m = k
  <1>1. x \div m \in Nat /\ x % m \in 0..m - 1 /\ x = m * (x \div m) + (x % m)
    OBVIOUS
  <1>2. m * ((x \div m) - q) = k - (x % m)
    BY <1>1
  <1>3. (x \div m) - q = 0
    <2>1. ASSUME (x \div m) - q >= 1 PROVE FALSE
      <3>1. m * ((x \div m) - q) >= m
        BY <2>1, <1>1
      <3> QED BY <3>1, <1>2, <1>1
    <2>2. ASSUME (x \div m) - q <= -1 PROVE FALSE
      <3>1. m * ((x \div m) - q) <= -m
        BY <2>2, <1>1
      <3> QED BY <3>1, <1>2, <1>1
    <2> QED BY <2>1, <2>2, <1>1
  <1> QED BY <1>1, <1>2, <1>3

(* Counting up modulo m.                                                    *)
LEMMA ModSucc ==
  ASSUME NEW s \in Nat, NEW m \in Nat \ {0, 1}
  PROVE  ((s % m) + 1) % m = (s + 1) % m
  <1>1. PICK q \in Nat, k \in 0..m - 1 : s = m * q + k /\ k = s % m
    <2>1. /\ s % m \in 0..m - 1
          /\ s \div m \in Nat
          /\ s = m * (s \div m) + (s % m)
      OBVIOUS
    <2> QED BY <2>1
  <1>2. \A p \in Nat, j \in 0..m - 1, x \in Nat : x = m * p + j => x % m = j
    BY ModUnique
  <1>3. CASE k + 1 < m
    <2>1. k + 1 \in 0..m - 1 /\ s + 1 \in Nat /\ s + 1 = m * q + (k + 1)
      BY <1>1, <1>3
    <2>2. \A j \in 0..m - 1, x \in Nat : x = m * q + j => x % m = j
      BY <1>2
    <2>3. (s + 1) % m = k + 1
      BY <2>1, <2>2
    <2>4. (k + 1) % m = k + 1
      BY <1>1, <1>3
    <2> QED BY <1>1, <2>3, <2>4
  <1>4. CASE k + 1 = m
    <2>1. s + 1 = m * (q + 1) + 0 /\ q + 1 \in Nat /\ s + 1 \in Nat /\ 0 \in 0..m - 1
      BY <1>1, <1>4
    <2>2. \A x \in Nat : x = m * (q + 1) + 0 => x % m = 0
      BY <1>2, <2>1
    <2>3. (s + 1) % m = 0
      BY <2>1, <2>2
    <2>4. (k + 1) % m = 0
      BY <1>1, <1>4
    <2> QED BY <1>1, <2>3, <2>4
  <1> QED BY <1>1, <1>3, <1>4

LEMMA ModSmall ==
  ASSUME NEW s \in Nat, NEW m \in Nat \ {0, 1}
  PROVE  s % m \in 0..m - 1 /\ (s < m => s % m = s)
  OBVIOUS

LEMMA DivMonotone ==
  ASSUME NEW a \in Int, NEW b \in Int, a <= b, NEW m \in Nat \ {0}
  PROVE  a \div m <= b \div m
  OBVIOUS

LEMMA DivAbove ==
  ASSUME NEW a \in Int, NEW m \in Nat \ {0}, NEW t \in Nat
  PROVE  (a \div m > t) <=> (a >= (t + 1) * m)
  OBVIOUS

LEMMA DivInt ==
  ASSUME NEW a \in Int, NEW m \in Nat \ {0}
  PROVE  a \div m \in Int /\ (a >= 0 => a \div m >= 0)
  OBVIOUS

LEMMA DivNegative ==
  ASSUME NEW a \in Int, NEW m \in Nat \ {0}, a < 0
  PROVE  a \div m < 0
  OBVIOUS

(* A quotient of at most a bounds the dividend.                             *)
LEMMA DivBound ==
  ASSUME NEW a \in Nat, NEW m \in Nat \ {0}, NEW c \in Nat, c \div m <= a
  PROVE  c < (a + 1) * m
  OBVIOUS

LEMMA TimesPositive ==
  ASSUME NEW a \in Nat, NEW m \in Nat \ {0}
  PROVE  (a + 1) * m \in Nat /\ 0 < (a + 1) * m
  OBVIOUS

LEMMA TimesMonotone ==
  ASSUME NEW a \in Nat, NEW m \in Nat, NEW n \in Nat, m <= n
  PROVE  (a + 1) * m <= (a + 1) * n
  OBVIOUS

-----------------------------------------------------------------------------
(* Of the steps, only an access and the clock matter.                       *)
LEMMA Steps ==
  ASSUME [Next]_vars
  PROVE  \/ \E peer, ip \in IPs : onRequest(peer, ip)
         \/ Tick
         \/ StepBack
         \/ UNCHANGED vars
  BY DEF Next, Access, NotLogged, Unprotected

(* An access that recycles the counts is admitted.                          *)
LEMMA RecycleAdmits ==
  ASSUME NEW peer \in IPs, NEW ip \in IPs, onRequest(peer, ip), Expired
  PROVE  Admit(ip)
  <1>1. hits_per_minute(ip)' = 0
    BY DEF onRequest, log_access, recycle, hits_per_minute, Zero
  <1> QED BY <1>1, RateLimiterAssumption DEF onRequest

LEMMA TypeInit == Init => TypeOK
  <1>1. 0 \in -MaxStepBack..(TTL + 1) * TicksPerSecond
    BY RateLimiterAssumption
  <1> QED BY <1>1, RateLimiterAssumption DEF Init, TypeOK, Zero

LEMMA TypeNext == TypeOK /\ [Next]_vars => TypeOK'
  <1> SUFFICES ASSUME TypeOK, [Next]_vars PROVE TypeOK'
    OBVIOUS
  <1> USE RateLimiterAssumption
  <1>0. 0 \in -MaxStepBack..(TTL + 1) * TicksPerSecond
    OBVIOUS
  <1>1. ASSUME NEW peer \in IPs, NEW ip \in IPs, onRequest(peer, ip)
        PROVE  TypeOK'
    <2>1. /\ now' \in -MaxStepBack..(TTL + 1) * TicksPerSecond
          /\ time_last_added_' \in Int
          /\ seen' \in [IPs -> 0..MaxSeen]
      BY <1>0, <1>1 DEF onRequest, log_access, recycle, Zero, TypeOK
    <2>2. ip_access_count_' \in [IPs -> 0..CountModulus - 1]
      <3>1. (ip_access_count_[ip] + 1) % CountModulus \in 0..CountModulus - 1
        BY ModSmall DEF TypeOK
      <3> QED BY <1>1, <3>1 DEF onRequest, log_access, recycle, Zero, TypeOK
    <2>3. /\ late' \in [IPs -> Nat]
          /\ verdict' \in [IPs -> {"none", "admitted", "rejected"}]
      BY <1>1 DEF onRequest, Admit, Reject, Zero, TypeOK
    <2>4. charged' \in SUBSET (IPs \X IPs)
      BY <1>1 DEF onRequest, TypeOK
    <2>5. steady' \in BOOLEAN
      <3>1. steady' = TRUE \/ steady' = steady
        BY <1>1 DEF onRequest, log_access, recycle
      <3> QED BY <3>1 DEF TypeOK
    <2> QED BY <2>1, <2>2, <2>3, <2>4, <2>5 DEF TypeOK
  <1>2. CASE Tick
    <2>1. ~Expired => now + 1 <= (TTL + 1) * TicksPerSecond
      <3>1. now \in Int /\ (TTL + 1) * TicksPerSecond \in Int
        BY DEF TypeOK
      <3>2. Expired <=> now >= (TTL + 1) * TicksPerSecond
        BY <3>1, DivAbove DEF Expired, Seconds
      <3> QED BY <3>1, <3>2
    <2> QED BY <1>2, <2>1 DEF Tick, TypeOK
  <1>3. CASE StepBack
    <2>1. now' \in -MaxStepBack..(TTL + 1) * TicksPerSecond
      BY <1>3 DEF StepBack, TypeOK
    <2> QED BY <1>3, <2>1 DEF StepBack, TypeOK
  <1>4. CASE UNCHANGED vars
    BY <1>4 DEF vars, history, TypeOK
  <1> QED BY <1>1, <1>2, <1>3, <1>4, Steps

(* Every variable has its type: the clock's offset stays between the        *)
(* largest step back and one second past the TTL, every counter below 2^32. *)
THEOREM TypeCorrect == Spec => []TypeOK
  BY TypeInit, TypeNext, PTL DEF Spec

-----------------------------------------------------------------------------
LEMMA RecentNext ==
  ASSUME TypeOK, CountsAreRecent, [Next]_vars
  PROVE  CountsAreRecent'
  <1> USE RateLimiterAssumption
  <1>1. ASSUME NEW peer \in IPs, NEW ip \in IPs, onRequest(peer, ip), Expired
        PROVE  CountsAreRecent'
    <2>1. Seconds(0) <= TTL /\ 0 % CountModulus = 0
      BY DEF Seconds
    <2> QED BY <1>1, <2>1 DEF onRequest, log_access, recycle, Zero, CountsAreRecent, Seconds
  <1>2. ASSUME NEW peer \in IPs, NEW ip \in IPs, onRequest(peer, ip), ~Expired
        PROVE  CountsAreRecent'
    <2>1. Seconds(now) \in Int
      BY DivInt DEF Seconds, TypeOK
    <2>2. Seconds(time_last_added_') <= TTL
      BY <1>2, <2>1 DEF onRequest, log_access, Expired
    <2>3. ((seen[ip] % CountModulus) + 1) % CountModulus = (seen[ip] + 1) % CountModulus
      BY ModSucc DEF TypeOK
    <2>4. \A i \in IPs : ip_access_count_'[i] = seen'[i] % CountModulus
      BY <1>2, <2>3 DEF onRequest, log_access, CountsAreRecent, TypeOK
    <2> QED BY <2>2, <2>4 DEF CountsAreRecent, Seconds
  <1>3. CASE Tick \/ StepBack \/ UNCHANGED vars
    BY <1>3 DEF Tick, StepBack, vars, history, CountsAreRecent, Seconds
  <1> QED BY <1>1, <1>2, <1>3, Steps

(* The counts are exactly those of the accesses since the last recycle, and *)
(* none of them is more than the TTL after it, even when the clock is set   *)
(* back.                                                                    *)
THEOREM CountsStayRecent == Spec => []CountsAreRecent
  <1>1. Init => CountsAreRecent
    <2>1. Seconds(-1) <= TTL /\ 0 % CountModulus = 0
      BY RateLimiterAssumption DEF Seconds
    <2> QED BY <2>1 DEF Init, Zero, CountsAreRecent
  <1>2. TypeOK /\ CountsAreRecent /\ [Next]_vars => CountsAreRecent'
    BY RecentNext
  <1> QED BY <1>1, <1>2, TypeCorrect, PTL DEF Spec

(* No peer outside the configured proxies spends another IP's budget.       *)
THEOREM OnlyProxiesCharge == Spec => []NoForeignCharge
  <1>1. Init => NoForeignCharge
    BY DEF Init, NoForeignCharge
  <1>2. ASSUME NoForeignCharge, [Next]_vars PROVE NoForeignCharge'
    <2>1. ASSUME NEW ip \in IPs, Access(ip) PROVE NoForeignCharge'
      <3>1. PICK peer \in IPs, cf \in Headers, xff \in Headers :
               client_ip(peer, cf, xff) = ip /\ onRequest(peer, ip)
        BY <2>1 DEF Access
      <3>2. peer = ip \/ peer \in CloudflareIPs \cup ReverseProxyIPs
        BY <3>1, RateLimiterAssumption
           DEF client_ip, can_trust_cf_connecting_ip, can_trust_x_forwarded_for
      <3> QED BY <1>2, <3>1, <3>2 DEF onRequest, NoForeignCharge
    <2> QED
      BY <1>2, <2>1 DEF Next, NotLogged, Unprotected, Tick, StepBack, vars,
                        history, NoForeignCharge
  <1> QED BY <1>1, <1>2, PTL DEF Spec

-----------------------------------------------------------------------------
(* What makes AdmissionBound inductive: no more is admitted than was logged *)
(* in the window, and while the clock is not set back Minutes only grows.   *)
WindowInv ==
  /\ steady => time_last_added_ <= now
  /\ \A ip \in IPs : late[ip] <= seen[ip]

LEMMA WindowNext ==
  ASSUME TypeOK, WindowInv, [Next]_vars
  PROVE  WindowInv'
  <1> USE RateLimiterAssumption
  <1>1. ASSUME NEW peer \in IPs, NEW ip \in IPs, onRequest(peer, ip), Expired
        PROVE  WindowInv'
    <2>1. Admit(ip)
      BY <1>1, RecycleAdmits
    <2> QED BY <1>1, <2>1 DEF onRequest, log_access, recycle, Admit, Zero, WindowInv
  <1>2. ASSUME NEW peer \in IPs, NEW ip \in IPs, onRequest(peer, ip), ~Expired
        PROVE  WindowInv'
    <2>1. /\ time_last_added_' = now' /\ now' \in Int
          /\ seen' = [seen EXCEPT ![ip] = @ + 1]
      BY <1>2 DEF onRequest, log_access, TypeOK
    <2>2. \/ late' = late
          \/ late' = [late EXCEPT ![ip] = @ + 1]
      BY <1>2 DEF onRequest, Admit, Reject, TypeOK
    <2> QED BY <2>1, <2>2 DEF WindowInv, TypeOK
  <1>3. CASE Tick
    BY <1>3 DEF Tick, WindowInv, TypeOK
  <1>4. CASE StepBack
    BY <1>4 DEF StepBack, WindowInv, TypeOK
  <1>5. CASE UNCHANGED vars
    BY <1>5 DEF vars, history, WindowInv
  <1> QED BY <1>1, <1>2, <1>3, <1>4, <1>5, Steps

LEMMA MinutesType ==
  ASSUME time_last_added_ \in Int
  PROVE  over_seconds \in Int /\ Minutes \in Nat \ {0}
  <1>1. over_seconds \in Int
    BY DivInt, RateLimiterAssumption DEF over_seconds, Seconds
  <1>2. over_seconds \div SecondsPerMinute \in Int
    BY <1>1, DivInt, RateLimiterAssumption
  <1> QED BY <1>1, <1>2 DEF Minutes

LEMMA NextMinutesType ==
  ASSUME time_last_added_' \in Int
  PROVE  Minutes' \in Nat \ {0}
  <1>1. over_seconds' \in Int
    BY DivInt, RateLimiterAssumption DEF over_seconds, Seconds
  <1>2. over_seconds' \div SecondsPerMinute \in Int
    BY <1>1, DivInt, RateLimiterAssumption
  <1> QED BY <1>1, <1>2 DEF Minutes

(* Minutes does not shrink while the time of the last access grows.         *)
LEMMA MinutesMonotone ==
  ASSUME time_last_added_ \in Int, time_last_added_' \in Int,
         time_last_added_ <= time_last_added_'
  PROVE  Minutes' \in Nat \ {0} /\ Minutes <= Minutes'
  <1> DEFINE a == Seconds(time_last_added_)
             b == Seconds(time_last_added_')
  <1>1. a \in Int /\ b \in Int /\ a <= b
    BY DivInt, DivMonotone, RateLimiterAssumption DEF Seconds
  <1>2. /\ a \div SecondsPerMinute \in Int
        /\ b \div SecondsPerMinute \in Int
        /\ a \div SecondsPerMinute <= b \div SecondsPerMinute
    BY <1>1, DivInt, DivMonotone, RateLimiterAssumption
  <1>3. /\ Minutes = IF a \div SecondsPerMinute > 0 THEN a \div SecondsPerMinute ELSE 1
        /\ Minutes' = IF b \div SecondsPerMinute > 0 THEN b \div SecondsPerMinute ELSE 1
    BY DEF Minutes, over_seconds, Seconds
  <1> HIDE DEF a, b
  <1> QED BY <1>2, <1>3

LEMMA BoundNext ==
  ASSUME TypeOK, TypeOK', CountsAreRecent', WindowInv, WindowInv',
         AdmissionBound, [Next]_vars
  PROVE  AdmissionBound'
  <1> USE RateLimiterAssumption
  <1> SUFFICES ASSUME steady', NEW i \in IPs, seen'[i] < CountModulus
               PROVE  late'[i] < (RateLimit + 1) * Minutes'
    BY DEF AdmissionBound
  <1>0. late[i] \in Nat /\ seen[i] \in Nat /\ late'[i] \in Nat /\ Minutes \in Nat \ {0}
        /\ Minutes' \in Nat \ {0}
    <2>1. Minutes \in Nat \ {0}
      BY MinutesType DEF TypeOK
    <2>2. Minutes' \in Nat \ {0}
      BY NextMinutesType DEF TypeOK
    <2> QED BY <2>1, <2>2 DEF TypeOK
  <1>1. ASSUME NEW peer \in IPs, NEW ip \in IPs, onRequest(peer, ip), Expired
        PROVE  late'[i] < (RateLimit + 1) * Minutes'
    <2>1. late'[i] = 0
      BY <1>1, RecycleAdmits DEF Admit, Zero
    <2> QED BY <1>0, <2>1, TimesPositive
  <1>2. ASSUME NEW peer \in IPs, NEW ip \in IPs, onRequest(peer, ip), ~Expired
        PROVE  late'[i] < (RateLimit + 1) * Minutes'
    <2>0. steady
      BY <1>2 DEF onRequest, log_access
    <2>1. time_last_added_ \in Int /\ time_last_added_' \in Int
          /\ time_last_added_ <= time_last_added_'
      BY <1>2, <2>0 DEF onRequest, log_access, WindowInv, TypeOK
    <2> DEFINE A == (RateLimit + 1) * Minutes
               B == (RateLimit + 1) * Minutes'
    <2>2. A \in Nat /\ B \in Nat /\ A <= B
      BY <1>0, <2>1, MinutesMonotone, TimesMonotone, TimesPositive
    <2>3. CASE late'[i] = late[i]
      <3>1. seen[i] < CountModulus
        BY <1>2 DEF onRequest, log_access, TypeOK
      <3>2. late[i] < A
        BY <2>0, <3>1 DEF AdmissionBound
      <3> HIDE DEF A, B
      <3>3. late'[i] < B
        BY <1>0, <2>2, <2>3, <3>2
      <3> QED BY <3>3 DEF B
    <2>4. CASE late'[i] # late[i]
      <3>1. i = ip /\ over_seconds' > 0 /\ ~(hits_per_minute(i)' > RateLimit)
        BY <1>2, <2>4 DEF onRequest, Admit, Reject, TypeOK
      <3>2. ip_access_count_'[i] = seen'[i] /\ seen'[i] \in Nat /\ late'[i] <= seen'[i]
        BY ModSmall DEF CountsAreRecent, WindowInv, TypeOK
      <3>3. hits_per_minute(i)' = ip_access_count_'[i] \div Minutes'
            \/ ip_access_count_'[i] = 0
            \/ time_last_added_' < 0
            \/ over_seconds' = 0
        BY DEF hits_per_minute
      <3>4. ~(over_seconds' = 0) /\ ~(time_last_added_' < 0)
        <4>1. over_seconds' \in Int /\ (time_last_added_' < 0 => over_seconds' < 0)
          BY <2>1, DivNegative, DivInt DEF over_seconds, Seconds
        <4> QED BY <3>1, <4>1
      <3>5. CASE ip_access_count_'[i] = 0
        BY <1>0, <3>2, <3>5, TimesPositive
      <3>6. CASE hits_per_minute(i)' = ip_access_count_'[i] \div Minutes'
        <4>1. seen'[i] \div Minutes' \in Int /\ seen'[i] \div Minutes' <= RateLimit
          BY <1>0, <3>1, <3>2, <3>6, DivInt
        <4>2. seen'[i] < (RateLimit + 1) * Minutes'
          BY <1>0, <3>2, <4>1, DivBound
        <4> QED BY <1>0, <3>2, <4>2
      <3> QED BY <3>1, <3>3, <3>4, <3>5, <3>6
    <2> QED BY <2>3, <2>4
  <1>3. CASE Tick \/ StepBack \/ UNCHANGED vars
    <2>1. UNCHANGED <<late, seen, time_last_added_, steady>>
      BY <1>3 DEF Tick, StepBack, vars, history
    <2>2. Minutes' = Minutes
      BY <2>1 DEF Minutes, over_seconds, Seconds
    <2> QED BY <2>1, <2>2 DEF AdmissionBound
  <1> QED BY <1>1, <1>2, <1>3, Steps

(* After the first second of a window an IP is admitted less than           *)
(* RateLimit + 1 times per whole minute of it: for every limit, TTL and     *)
(* pattern of accesses, unless the clock is set back or the counter wraps.  *)
THEOREM AdmissionsAreBounded == Spec => []AdmissionBound
  <1>1. Init => WindowInv /\ AdmissionBound
    <2>1. ASSUME Init PROVE Minutes \in Nat \ {0}
      BY <2>1, MinutesType DEF Init
    <2>2. ASSUME Init PROVE 0 < (RateLimit + 1) * Minutes
      BY <2>1, <2>2, RateLimiterAssumption
    <2> QED BY <2>2 DEF Init, Zero, WindowInv, AdmissionBound
  <1>2. TypeOK /\ WindowInv /\ [Next]_vars => WindowInv'
    BY WindowNext
  <1>3. /\ TypeOK /\ TypeOK' /\ CountsAreRecent' /\ WindowInv /\ WindowInv'
        /\ AdmissionBound /\ [Next]_vars
        => AdmissionBound'
    BY BoundNext
  <1> QED BY <1>1, <1>2, <1>3, TypeCorrect, CountsStayRecent, PTL DEF Spec
=============================================================================
