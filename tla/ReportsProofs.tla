---------------------------- MODULE ReportsProofs ----------------------------
(***************************************************************************)
(* What start-up accepts can be served, and a report tells what was read:  *)
(* theorems about Reports, for any operator's entries, sites, /proc files  *)
(* and PEM files.                                                          *)
(*                                                                         *)
(* The operators that scan a path, a file or a list are recursive          *)
(* functions of a length.  What they compute is proved by induction, in    *)
(* the form of a set of numbers that contains 0 and every successor.       *)
(***************************************************************************)
EXTENDS Reports, FiniteSetTheorems, SequenceTheorems, WellFoundedInduction, TLAPS

(***************************************************************************)
(* Induction.                                                              *)
(***************************************************************************)
LEMMA Least ==
    ASSUME NEW T \in SUBSET Nat, T # {}
    PROVE  \E x \in T : \A y \in T : ~(y < x)
<1> DEFINE R == {rs \in Nat \X Nat : rs[1] < rs[2]}
<1>1. IsWellFoundedOn(R, Nat)
  BY NatLessThanWellFounded DEF OpToRel
<1>2. PICK x \in T : \A y \in T : ~(<<y, x>> \in R)
  <2> HIDE DEF R
  <2> QED
    BY <1>1, WFMin
<1> QED
  BY <1>2

LEMMA Induction ==
    ASSUME NEW S, 0 \in S, \A n \in Nat : n \in S => n + 1 \in S
    PROVE  \A n \in Nat : n \in S
<1> SUFFICES ASSUME Nat \ S # {} PROVE FALSE
  OBVIOUS
<1>1. PICK x \in Nat \ S : \A y \in Nat \ S : ~(y < x)
  BY Least
<1>2. x # 0 /\ x - 1 \in Nat
  BY <1>1
<1>3. x - 1 \in S
  BY <1>1, <1>2
<1> QED
  BY <1>1, <1>2, <1>3

\* A function that is defined from its value one below exists.
Unfolds(f, D, d, N, G) ==
  /\ f \in [0..N -> D]
  /\ f[0] = d
  /\ \A n \in 1..N : f[n] = G[<<n, f[n - 1]>>]

LEMMA Recursion ==
    ASSUME NEW D, NEW d \in D, NEW N \in Nat, NEW G \in [(1..N) \X D -> D]
    PROVE  \E f : Unfolds(f, D, d, N, G)
<1> DEFINE Good(m, f) == f[0] = d /\ \A n \in 1..m : f[n] = G[<<n, f[n - 1]>>]
           S == {m \in Nat : m <= N => \E f \in [0..m -> D] : Good(m, f)}
<1>1. 0 \in S
  <2>1. Good(0, [n \in 0..0 |-> d]) /\ [n \in 0..0 |-> d] \in [0..0 -> D]
    OBVIOUS
  <2> QED
    BY <2>1
<1>2. ASSUME NEW m \in Nat, m \in S PROVE m + 1 \in S
  <2> SUFFICES ASSUME m + 1 <= N PROVE \E f \in [0..(m + 1) -> D] : Good(m + 1, f)
    OBVIOUS
  <2>1. PICK f \in [0..m -> D] : Good(m, f)
    BY <1>2
  <2> DEFINE g == [n \in 0..(m + 1) |-> IF n = m + 1 THEN G[<<m + 1, f[m]>>] ELSE f[n]]
  <2>2. m + 1 \in 1..N /\ f[m] \in D /\ G[<<m + 1, f[m]>>] \in D
    BY <2>1
  <2>3. g \in [0..(m + 1) -> D] /\ g[0] = d
    BY <2>1, <2>2
  <2>4. ASSUME NEW n \in 1..(m + 1) PROVE g[n] = G[<<n, g[n - 1]>>]
    <3>1. CASE n = m + 1
      <4>1. n - 1 = m /\ m \in 0..m + 1 /\ m # m + 1 /\ n \in 0..m + 1
        BY <3>1
      <4>2. g[n] = G[<<m + 1, f[m]>>] /\ g[n - 1] = f[m]
        BY <3>1, <4>1
      <4> QED
        BY <3>1, <4>1, <4>2
    <3>2. CASE n # m + 1
      <4>1. n \in 1..m /\ n \in 0..m + 1 /\ n - 1 \in 0..m + 1 /\ n - 1 # m + 1
        BY <3>2
      <4> QED
        BY <4>1, <2>1, <3>2
    <3> QED
      BY <3>1, <3>2
  <2> QED
    BY <2>3, <2>4
<1> HIDE DEF S
<1>3. N \in S
  BY <1>1, <1>2, Induction
<1>4. PICK f \in [0..N -> D] : Good(N, f)
  BY <1>3 DEF S
<1>5. Unfolds(f, D, d, N, G)
  BY <1>4 DEF Unfolds
<1> QED
  BY <1>5

(***************************************************************************)
(* Paths.                                                                  *)
(***************************************************************************)
\* The nodes that dig passes on its way.
Node(v, path) ==
  CHOOSE node : node = [n \in 0..Len(path) |-> IF n = 0 THEN v ELSE At(node[n - 1], path[n])]

LEMMA NodeIs ==
    ASSUME NEW v, NEW path, Len(path) \in Nat
    PROVE  /\ Dig(v, path) = Node(v, path)[Len(path)]
           /\ Node(v, path)[0] = v
           /\ \A n \in 1..Len(path) : Node(v, path)[n] = At(Node(v, path)[n - 1], path[n])
<1> DEFINE N == Len(path)
           P(g) == g = [n \in 0..N |-> IF n = 0 THEN v ELSE At(g[n - 1], path[n])]
           Good(m, g) == g = [n \in 0..m |-> IF n = 0 THEN v ELSE At(g[n - 1], path[n])]
           S == {m \in Nat : \E g : Good(m, g)}
<1>1. Dig(v, path) = Node(v, path)[N]
  BY Zenon DEF Dig, Node
<1>2. 0 \in S
  <2>1. Good(0, [n \in 0..0 |-> v])
    OBVIOUS
  <2> QED
    BY <2>1
<1>3. ASSUME NEW m \in Nat, m \in S PROVE m + 1 \in S
  <2>1. PICK g : Good(m, g)
    BY <1>3
  <2> DEFINE h == [n \in 0..(m + 1) |-> IF n = m + 1 THEN At(g[m], path[m + 1]) ELSE g[n]]
  <2>2. ASSUME NEW n \in 0..(m + 1)
        PROVE  h[n] = IF n = 0 THEN v ELSE At(h[n - 1], path[n])
    <3>1. CASE n = m + 1
      <4>1. n # 0 /\ n - 1 = m /\ m \in 0..(m + 1) /\ m # m + 1
        BY <3>1
      <4>2. h[n] = At(g[m], path[m + 1]) /\ h[n - 1] = g[m]
        BY <3>1, <4>1
      <4> QED
        BY <3>1, <4>1, <4>2
    <3>2. CASE n # m + 1
      <4>1. n \in 0..m /\ (n # 0 => n - 1 \in 0..(m + 1) /\ n - 1 # m + 1)
        BY <3>2
      <4>2. h[n] = g[n] /\ (n # 0 => h[n - 1] = g[n - 1])
        BY <3>2, <4>1
      <4> QED
        BY <2>1, <4>1, <4>2
    <3> QED
      BY <3>1, <3>2
  <2>3. Good(m + 1, h)
    BY <2>2
  <2> HIDE DEF h, Good
  <2>4. \E q : Good(m + 1, q)
    BY <2>3
  <2> QED
    BY <2>4
<1> HIDE DEF S
<1>4. N \in S
  BY <1>2, <1>3, Induction
<1>5. \E g : P(g)
  BY <1>4 DEF S
<1> HIDE DEF P
<1>6. P(Node(v, path))
  BY <1>5, Zenon DEF Node, P
<1> USE DEF P
<1> HIDE DEF N
<1>7. N \in Nat
  BY DEF N
<1>8. ASSUME NEW n \in 1..N PROVE Node(v, path)[n] = At(Node(v, path)[n - 1], path[n])
  <2>1. n \in 0..N /\ n # 0
    BY <1>7
  <2> QED
    BY <1>6, <2>1
<1>9. Node(v, path)[0] = v
  <2>1. 0 \in 0..N
    BY <1>7
  <2> QED
    BY <1>6, <2>1
<1> QED
  BY <1>1, <1>8, <1>9 DEF N

\* Two paths that agree up to a length have the same nodes up to there.
LEMMA NodesAgree ==
    ASSUME NEW v, NEW p, NEW q, Len(p) \in Nat, Len(q) \in Nat, NEW m \in Nat,
           m <= Len(p), m <= Len(q), \A i \in 1..m : p[i] = q[i]
    PROVE  Node(v, p)[m] = Node(v, q)[m]
<1> DEFINE S == {n \in Nat : n <= m => Node(v, p)[n] = Node(v, q)[n]}
<1>1. 0 \in S
  BY NodeIs
<1>2. ASSUME NEW n \in Nat, n \in S PROVE n + 1 \in S
  <2> SUFFICES ASSUME n + 1 <= m PROVE Node(v, p)[n + 1] = Node(v, q)[n + 1]
    OBVIOUS
  <2>1. n + 1 \in 1..Len(p) /\ n + 1 \in 1..Len(q) /\ n + 1 \in 1..m /\ (n + 1) - 1 = n /\ n <= m
    OBVIOUS
  <2>2. Node(v, p)[n] = Node(v, q)[n]
    BY <1>2, <2>1
  <2>3. Node(v, p)[n + 1] = At(Node(v, p)[n], p[n + 1])
    BY <2>1, NodeIs
  <2>4. Node(v, q)[n + 1] = At(Node(v, q)[n], q[n + 1])
    BY <2>1, NodeIs
  <2> QED
    BY <2>1, <2>2, <2>3, <2>4
<1> HIDE DEF S
<1>3. m \in S
  BY <1>1, <1>2, Induction
<1> QED
  BY <1>3 DEF S

LEMMA DigNone ==
    ASSUME NEW v
    PROVE  Dig(v, <<>>) = v
<1>1. Len(<<>>) = 0
  OBVIOUS
<1> QED
  BY <1>1, NodeIs

LEMMA DigPrefix ==
    ASSUME NEW v, NEW S, NEW path \in Seq(S), NEW n \in 0..Len(path)
    PROVE  Dig(v, SubSeq(path, 1, n)) = Node(v, path)[n]
<1>1. Len(path) \in Nat /\ n \in Nat /\ n <= Len(path)
  OBVIOUS
<1> DEFINE q == SubSeq(path, 1, n)
<1>2. Len(q) = n /\ \A i \in 1..n : q[i] = path[i]
  BY <1>1
<1> HIDE DEF q
<1>3. Dig(v, q) = Node(v, q)[n]
  BY <1>1, <1>2, NodeIs
<1>4. Node(v, q)[n] = Node(v, path)[n]
  BY <1>1, <1>2, NodesAgree
<1> QED
  BY <1>3, <1>4 DEF q

LEMMA DigStep ==
    ASSUME NEW v, NEW S, NEW path \in Seq(S), NEW k
    PROVE  Dig(v, Append(path, k)) = At(Dig(v, path), k)
<1> DEFINE q == Append(path, k)
           N == Len(path)
<1>1. /\ N \in Nat /\ Len(q) = N + 1 /\ q[N + 1] = k
      /\ \A i \in 1..N : path[i] = q[i]
  OBVIOUS
<1> HIDE DEF q
<1>2. Dig(v, q) = Node(v, q)[N + 1] /\ N + 1 \in 1..Len(q) /\ (N + 1) - 1 = N
  BY <1>1, NodeIs
<1>3. Node(v, q)[N + 1] = At(Node(v, q)[N], k)
  BY <1>1, <1>2, NodeIs
<1>4. Node(v, path)[N] = Node(v, q)[N]
  BY <1>1, NodesAgree
<1>5. Dig(v, path) = Node(v, path)[N]
  BY <1>1, NodeIs
<1> QED
  BY <1>2, <1>3, <1>4, <1>5 DEF q

\* The paths of defaults.yaml have three keys at most.
LEMMA DigOne ==
    ASSUME NEW v, NEW a
    PROVE  Dig(v, <<a>>) = At(v, a)
<1> DEFINE S == {a}
           p == <<>>
<1>1. p \in Seq(S) /\ <<a>> = Append(p, a)
  OBVIOUS
<1>2. Dig(v, p) = v
  BY DigNone
<1> HIDE DEF S, p
<1>3. Dig(v, Append(p, a)) = At(Dig(v, p), a)
  BY <1>1, DigStep
<1> QED
  BY <1>1, <1>2, <1>3

LEMMA DigTwo ==
    ASSUME NEW v, NEW a, NEW b
    PROVE  Dig(v, <<a, b>>) = At(At(v, a), b)
<1> DEFINE S == {a, b}
           q == <<a>>
<1>1. q \in Seq(S) /\ <<a, b>> = Append(q, b)
  OBVIOUS
<1>2. Dig(v, q) = At(v, a)
  BY DigOne
<1> HIDE DEF S, q
<1>3. Dig(v, Append(q, b)) = At(Dig(v, q), b)
  BY <1>1, DigStep
<1> QED
  BY <1>1, <1>2, <1>3

LEMMA DigThree ==
    ASSUME NEW v, NEW a, NEW b, NEW c
    PROVE  Dig(v, <<a, b, c>>) = At(At(At(v, a), b), c)
<1> DEFINE S == {a, b}
           r == <<a, b>>
<1>1. r \in Seq(S) /\ <<a, b, c>> = Append(r, c)
  OBVIOUS
<1>2. Dig(v, r) = At(At(v, a), b)
  BY DigTwo
<1> HIDE DEF S, r
<1>3. Dig(v, Append(r, c)) = At(Dig(v, r), c)
  BY <1>1, DigStep
<1> QED
  BY <1>1, <1>2, <1>3

(***************************************************************************)
(* The defaults.                                                           *)
(***************************************************************************)
LEMMA WithKeysIs ==
    ASSUME NEW paths, NEW p
    PROVE  p \in WithKeys(paths) <=>
             \/ p \in paths
             \/ \E q \in paths : \E k \in Keys(Dig(Defaults, q)) : p = Append(q, k)
BY DEF WithKeys

LEMMA Short ==
    ASSUME NEW a, NEW b, NEW c
    PROVE  /\ Append(<<>>, a) = <<a>>
           /\ Append(<<a>>, b) = <<a, b>>
           /\ Append(<<a, b>>, c) = <<a, b, c>>
<1> DEFINE S == {a, b, c}
           p == <<>>
           q == <<a>>
           r == <<a, b>>
<1>1. p \in Seq(S) /\ q \in Seq(S) /\ r \in Seq(S)
  OBVIOUS
<1>2. q = Append(p, a) /\ r = Append(q, b) /\ <<a, b, c>> = Append(r, c)
  OBVIOUS
<1> QED
  BY <1>2

LEMMA KnownAre ==
    ASSUME NEW p
    PROVE  p \in Known <=>
             \/ p = <<>>
             \/ \E a \in Keys(Defaults) : p = <<a>>
             \/ \E a \in Keys(Defaults) : \E b \in Keys(At(Defaults, a)) : p = <<a, b>>
             \/ \E a \in Keys(Defaults) : \E b \in Keys(At(Defaults, a)) :
                  \E c \in Keys(At(At(Defaults, a), b)) : p = <<a, b, c>>
<1> DEFINE L1 == WithKeys({<<>>})
           L2 == WithKeys(L1)
           P0 == <<>>
           P1(a) == <<a>>
           P2(a, b) == <<a, b>>
           P3(a, b, c) == <<a, b, c>>
           In1(q) == \E a \in Keys(Defaults) : q = P1(a)
           In2(q) == \E a \in Keys(Defaults) : \E b \in Keys(At(Defaults, a)) : q = P2(a, b)
           In3(q) == \E a \in Keys(Defaults) : \E b \in Keys(At(Defaults, a)) :
                       \E c \in Keys(At(At(Defaults, a), b)) : q = P3(a, b, c)
           After(r, q) == \E k \in Keys(Dig(Defaults, r)) : q = Append(r, k)
<1>1. Dig(Defaults, P0) = Defaults /\ \A a : Append(P0, a) = P1(a)
  BY DigNone, Short
<1>2. \A a, b : Dig(Defaults, P1(a)) = At(Defaults, a) /\ Append(P1(a), b) = P2(a, b)
  BY DigOne, Short
<1>3. ASSUME NEW a, NEW b, NEW c
      PROVE  /\ Dig(Defaults, P2(a, b)) = At(At(Defaults, a), b)
             /\ Append(P2(a, b), c) = P3(a, b, c)
  <2>1. Dig(Defaults, P2(a, b)) = At(At(Defaults, a), b)
    BY DigTwo
  <2>2. Append(P2(a, b), c) = P3(a, b, c)
    BY Short
  <2> QED
    BY <2>1, <2>2
<1> HIDE DEF P0, P1, P2, P3
<1>a. ASSUME NEW q PROVE After(P0, q) <=> In1(q)
  BY <1>1
<1>b. ASSUME NEW q PROVE (\E a \in Keys(Defaults) : After(P1(a), q)) <=> In2(q)
  BY <1>2
<1>c. ASSUME NEW q
      PROVE  (\E a \in Keys(Defaults) : \E b \in Keys(At(Defaults, a)) : After(P2(a, b), q))
               <=> In3(q)
  <2>1. ASSUME NEW a, NEW b
        PROVE  After(P2(a, b), q) <=> \E c \in Keys(At(At(Defaults, a), b)) : q = P3(a, b, c)
    BY <1>3
  <2> HIDE DEF After
  <2> QED
    BY <2>1
<1>d. ASSUME NEW paths, NEW q
      PROVE  q \in WithKeys(paths) <=> q \in paths \/ \E r \in paths : After(r, q)
  BY WithKeysIs
<1> HIDE DEF In2, In3, After
<1>4. ASSUME NEW q PROVE q \in L1 <=> q = P0 \/ In1(q)
  <2>1. q \in L1 <=> q \in {P0} \/ \E r \in {P0} : After(r, q)
    BY <1>d DEF P0
  <2> HIDE DEF L1
  <2> QED
    BY <1>a, <2>1
<1>5. ASSUME NEW q PROVE q \in L2 <=> q = P0 \/ In1(q) \/ In2(q)
  <2> HIDE DEF L1
  <2>1. q \in L2 <=> q \in L1 \/ \E r \in L1 : After(r, q)
    BY <1>d
  <2>2. (\E r \in L1 : After(r, q)) <=> After(P0, q) \/ \E a \in Keys(Defaults) : After(P1(a), q)
    BY <1>4
  <2> QED
    BY <1>4, <1>a, <1>b, <2>1, <2>2
<1>6. p \in Known <=> p \in L2 \/ \E r \in L2 : After(r, p)
  <2>1. Known = WithKeys(L2)
    BY DEF Known
  <2> HIDE DEF L2
  <2> QED
    BY <1>d, <2>1
<1>7. (\E r \in L2 : After(r, p))
        <=> \/ After(P0, p)
            \/ \E a \in Keys(Defaults) : After(P1(a), p)
            \/ \E a \in Keys(Defaults) : \E b \in Keys(At(Defaults, a)) : After(P2(a, b), p)
  <2> HIDE DEF L2
  <2> QED
    BY <1>5 DEF In2
<1> HIDE DEF L1, L2
<1>8. p \in Known <=> p = P0 \/ In1(p) \/ In2(p) \/ In3(p)
  BY <1>5, <1>6, <1>7, <1>a, <1>b, <1>c
<1> QED
  BY <1>8 DEF P0, P1, P2, P3, In2, In3

LEMMA Kinds ==
    ASSUME NEW x
    PROVE  /\ Is("map", Map(x)) /\ Map(x).map = x
           /\ Is("str", Str(x)) /\ Is("int", Num(x))
           /\ Is("list", List(x)) /\ Is("float", Float(x))
           /\ ~Is("null", Map(x)) /\ ~Is("map", Null) /\ Is("null", Null)
           /\ ~Is("map", Str(x)) /\ ~Is("map", Num(x))
           /\ ~Is("map", List(x)) /\ ~Is("map", Float(x))
BY DEF Is, Map, Str, Num, List, Float, Null
LEMMA DefaultSections ==
    /\ Is("map", Defaults)
    /\ DOMAIN Defaults.map = {"mqtt", "topics", "report", "metrics", "knobs"}
    /\ At(Defaults, "mqtt") = MqttDefaults /\ At(Defaults, "topics") = TopicsDefaults
    /\ At(Defaults, "report") = ReportDefaults /\ At(Defaults, "metrics") = MetricsDefaults
    /\ At(Defaults, "knobs") = KnobsDefaults
BY Kinds DEF Defaults, At

LEMMA MqttKeys ==
    /\ Is("map", MqttDefaults)
    /\ DOMAIN MqttDefaults.map =
         {"host", "port", "client_id", "keepalive_secs", "username", "password",
          "password_file", "password_env", "qos", "retain", "clean_session",
          "reconnect_min_delay_secs", "reconnect_max_delay_secs",
          "recreate_client_after_secs", "publish_timeout_secs",
          "max_queued_messages", "tls"}
BY Kinds DEF MqttDefaults

LEMMA MqttValues ==
    /\ At(MqttDefaults, "host") = Str(<<"localhost">>)
    /\ At(MqttDefaults, "port") = Num(1)
    /\ At(MqttDefaults, "keepalive_secs") = Num(3)
    /\ At(MqttDefaults, "password") = Null
    /\ At(MqttDefaults, "password_file") = Null
    /\ At(MqttDefaults, "password_env") = Str(<<"VARIABLE">>)
    /\ At(MqttDefaults, "qos") = Num(0)
    /\ At(MqttDefaults, "retain") = No
    /\ At(MqttDefaults, "clean_session") = Yes
    /\ At(MqttDefaults, "reconnect_min_delay_secs") = Num(1)
    /\ At(MqttDefaults, "reconnect_max_delay_secs") = Num(2)
    /\ At(MqttDefaults, "recreate_client_after_secs") = Num(3)
    /\ At(MqttDefaults, "publish_timeout_secs") = Float("ok")
    /\ At(MqttDefaults, "max_queued_messages") = Num(2)
    /\ At(MqttDefaults, "tls") = TlsDefaults
BY Kinds DEF MqttDefaults, At

LEMMA TlsKeys ==
    /\ Is("map", TlsDefaults)
    /\ DOMAIN TlsDefaults.map =
         {"enabled", "ca_certs", "certfile", "keyfile", "insecure"}
BY Kinds DEF TlsDefaults

LEMMA TlsValues ==
    /\ At(TlsDefaults, "enabled") = No
    /\ At(TlsDefaults, "insecure") = No
BY Kinds DEF TlsDefaults, At

LEMMA TopicsKeys ==
    /\ Is("map", TopicsDefaults)
    /\ DOMAIN TopicsDefaults.map =
         {"prefix", "status", "json", "payload_online", "payload_offline",
          "status_retain"}
<1> DEFINE p == Str(<<"/", "{", "hostname", "}">>)
           s == OnPrefix(<<"status">>)
           j == OnPrefix(<<"json">>)
           on == Str(<<"online">>)
           off == Str(<<"offline">>)
<1>1. TopicsDefaults = Map([prefix |-> p, status |-> s, json |-> j, payload_online |-> on,
                             payload_offline |-> off, status_retain |-> Yes])
  BY Zenon DEF TopicsDefaults
<1> HIDE DEF p, s, j, on, off
<1> QED
  BY <1>1, Kinds

LEMMA TopicsValues ==
    /\ At(TopicsDefaults, "status_retain") = Yes
    /\ At(TopicsDefaults, "prefix") = Str(<<"/", "{", "hostname", "}">>)
    /\ At(TopicsDefaults, "status") = OnPrefix(<<"status">>)
    /\ At(TopicsDefaults, "json") = OnPrefix(<<"json">>)
    /\ At(TopicsDefaults, "payload_online") = Str(<<"online">>)
    /\ At(TopicsDefaults, "payload_offline") = Str(<<"offline">>)
<1> DEFINE p == Str(<<"/", "{", "hostname", "}">>)
           s == OnPrefix(<<"status">>)
           j == OnPrefix(<<"json">>)
           on == Str(<<"online">>)
           off == Str(<<"offline">>)
<1>1. TopicsDefaults = Map([prefix |-> p, status |-> s, json |-> j, payload_online |-> on,
                             payload_offline |-> off, status_retain |-> Yes])
  BY Zenon DEF TopicsDefaults
<1> HIDE DEF p, s, j, on, off
<1>2. /\ At(TopicsDefaults, "status_retain") = Yes
      /\ At(TopicsDefaults, "prefix") = p
      /\ At(TopicsDefaults, "status") = s
      /\ At(TopicsDefaults, "json") = j
      /\ At(TopicsDefaults, "payload_online") = on
      /\ At(TopicsDefaults, "payload_offline") = off
  BY <1>1, Kinds DEF At
<1> QED
  BY Zenon, <1>2 DEF p, s, j, on, off

LEMMA ReportKeys ==
    /\ Is("map", ReportDefaults)
    /\ DOMAIN ReportDefaults.map =
         {"interval_secs", "report_on_start", "publish_plain", "publish_json"}
BY Kinds DEF ReportDefaults

LEMMA ReportValues ==
    /\ At(ReportDefaults, "interval_secs") = Num(2)
    /\ At(ReportDefaults, "report_on_start") = Yes
    /\ At(ReportDefaults, "publish_plain") = Yes
    /\ At(ReportDefaults, "publish_json") = Yes
BY Kinds DEF ReportDefaults, At

LEMMA UptimeKeys ==
    /\ Is("map", UptimeDefaults)
    /\ DOMAIN UptimeDefaults.map =
         {"enabled", "topic"}
BY Kinds DEF UptimeDefaults

LEMMA UptimeValues ==
    /\ At(UptimeDefaults, "enabled") = Yes
    /\ At(UptimeDefaults, "topic") = OnPrefix(<<"uptime">>)
BY Kinds DEF UptimeDefaults, At

LEMMA MeminfoKeys ==
    /\ Is("map", MeminfoDefaults)
    /\ DOMAIN MeminfoDefaults.map =
         {"enabled", "topic", "fields"}
<1> DEFINE t == OnPrefix(<<"{", "name", "}">>)
           l == List(<<Str(<<"MemTotal">>), Str(<<"MemFree">>)>>)
<1>1. MeminfoDefaults = Map([enabled |-> Yes, topic |-> t, fields |-> l])
  BY Zenon DEF MeminfoDefaults
<1> HIDE DEF t, l
<1> QED
  BY <1>1, Kinds

LEMMA MeminfoValues ==
    /\ At(MeminfoDefaults, "enabled") = Yes
    /\ At(MeminfoDefaults, "topic") = OnPrefix(<<"{", "name", "}">>)
    /\ At(MeminfoDefaults, "fields") = List(<<Str(<<"MemTotal">>), Str(<<"MemFree">>)>>)
<1> DEFINE t == OnPrefix(<<"{", "name", "}">>)
           l == List(<<Str(<<"MemTotal">>), Str(<<"MemFree">>)>>)
<1>1. MeminfoDefaults = Map([enabled |-> Yes, topic |-> t, fields |-> l])
  BY Zenon DEF MeminfoDefaults
<1> HIDE DEF t, l
<1>2. /\ At(MeminfoDefaults, "enabled") = Yes
      /\ At(MeminfoDefaults, "topic") = t
      /\ At(MeminfoDefaults, "fields") = l
  BY <1>1, Kinds DEF At
<1> QED
  BY Zenon, <1>2 DEF t, l

LEMMA MetricsKeys ==
    /\ Is("map", MetricsDefaults)
    /\ DOMAIN MetricsDefaults.map =
         {"uptime_minutes", "meminfo"}
BY Kinds DEF MetricsDefaults

LEMMA MetricsValues ==
    /\ At(MetricsDefaults, "uptime_minutes") = UptimeDefaults
    /\ At(MetricsDefaults, "meminfo") = MeminfoDefaults
BY Kinds DEF MetricsDefaults, At

LEMMA Booleans ==
    /\ Is("bool", Yes) /\ Is("bool", No) /\ Yes # No
    /\ ~Is("map", Yes) /\ ~Is("map", No)
BY DEF Is, Yes, No, Bool

LEMMA KeyOf ==
    ASSUME NEW v, NEW k
    PROVE  Is("map", v) => (k \in Keys(v) <=> k \in DOMAIN v.map)
BY DEF Keys

\* The knobs and sections of one, two and three keys.
LEMMA SectionOne ==
    ASSUME NEW a \in Keys(Defaults), Is("map", At(Defaults, a))
    PROVE  <<a>> \in Sections
BY KnownAre, DigOne DEF Sections

LEMMA SectionTwo ==
    ASSUME NEW a \in Keys(Defaults), NEW b \in Keys(At(Defaults, a)),
           Is("map", At(At(Defaults, a), b))
    PROVE  <<a, b>> \in Sections
BY KnownAre, DigTwo DEF Sections

LEMMA KnobTwo ==
    ASSUME NEW a \in Keys(Defaults), NEW b \in Keys(At(Defaults, a)),
           ~Is("map", At(At(Defaults, a), b))
    PROVE  <<a, b>> \in Knobs
BY KnownAre, DigTwo DEF Sections, Knobs

LEMMA KnobThree ==
    ASSUME NEW a \in Keys(Defaults), NEW b \in Keys(At(Defaults, a)),
           NEW c \in Keys(At(At(Defaults, a), b)),
           ~Is("map", At(At(At(Defaults, a), b), c))
    PROVE  <<a, b, c>> \in Knobs
BY KnownAre, DigThree DEF Sections, Knobs

\* What the shape of a default asks for, kind by kind.
LEMMA NullShape ==
    ASSUME NEW v, NEW p, LeafShape(v, Null, p)
    PROVE  Is("null", v) \/ Textual(v)
BY DEF LeafShape, Null, Is

LEMMA BoolShape ==
    ASSUME NEW v, NEW p, NEW b, b \in {Yes, No}, LeafShape(v, b, p)
    PROVE  Is("bool", v)
BY DEF LeafShape, Yes, No, Bool, Is

LEMMA FloatShape ==
    ASSUME NEW v, NEW p, NEW class, LeafShape(v, Float(class), p)
    PROVE  Is("float", v) \/ Is("int", v)
BY DEF LeafShape, Float, Is

LEMMA IntShape ==
    ASSUME NEW v, NEW p, NEW n, LeafShape(v, Num(n), p)
    PROVE  Is("int", v) /\ v.int \in IntRange(p)
BY DEF LeafShape, Num, Is

LEMMA StrShape ==
    ASSUME NEW v, NEW p, NEW t, LeafShape(v, Str(t), p)
    PROVE  \/ Textual(v)
           \/ p = <<"mqtt", "password_env">> /\ Is("null", v)
BY DEF LeafShape, Str, Is

LEMMA ListShape ==
    ASSUME NEW v, NEW p, NEW l, LeafShape(v, List(l), p)
    PROVE  /\ Listed(v) /\ Len(v.list) # 0
           /\ \A i \in DOMAIN v.list : Textual(v.list[i])
BY DEF LeafShape, List, Is

LEMMA SectionShape ==
    ASSUME NEW data, Shape(data),
           NEW a \in Keys(Defaults), NEW k \in Keys(At(Defaults, a)),
           ~Is("map", At(At(Defaults, a), k))
    PROVE  LeafShape(Dig(data, <<a, k>>), At(At(Defaults, a), k), <<a, k>>)
BY KnobTwo, DigTwo DEF Shape

LEMMA InnerShape ==
    ASSUME NEW data, Shape(data),
           NEW a \in Keys(Defaults), NEW b \in Keys(At(Defaults, a)),
           NEW k \in Keys(At(At(Defaults, a), b)),
           ~Is("map", At(At(At(Defaults, a), b), k))
    PROVE  LeafShape(Dig(data, <<a, b, k>>), At(At(At(Defaults, a), b), k), <<a, b, k>>)
BY KnobThree, DigThree DEF Shape

LEMMA MqttShape ==
    ASSUME NEW data, Shape(data), NEW k \in DOMAIN MqttDefaults.map,
           ~Is("map", At(MqttDefaults, k))
    PROVE  LeafShape(Dig(data, <<"mqtt", k>>), At(MqttDefaults, k), <<"mqtt", k>>)
BY SectionShape, DefaultSections, MqttKeys, KeyOf

LEMMA TopicsShape ==
    ASSUME NEW data, Shape(data), NEW k \in DOMAIN TopicsDefaults.map,
           ~Is("map", At(TopicsDefaults, k))
    PROVE  LeafShape(Dig(data, <<"topics", k>>), At(TopicsDefaults, k), <<"topics", k>>)
BY SectionShape, DefaultSections, TopicsKeys, KeyOf

LEMMA ReportShape ==
    ASSUME NEW data, Shape(data), NEW k \in DOMAIN ReportDefaults.map,
           ~Is("map", At(ReportDefaults, k))
    PROVE  LeafShape(Dig(data, <<"report", k>>), At(ReportDefaults, k), <<"report", k>>)
BY SectionShape, DefaultSections, ReportKeys, KeyOf

LEMMA TlsShape ==
    ASSUME NEW data, Shape(data), NEW k \in DOMAIN TlsDefaults.map,
           ~Is("map", At(TlsDefaults, k))
    PROVE  LeafShape(Dig(data, <<"mqtt", "tls", k>>), At(TlsDefaults, k), <<"mqtt", "tls", k>>)
BY InnerShape, DefaultSections, MqttKeys, MqttValues, TlsKeys, KeyOf

LEMMA UptimeShape ==
    ASSUME NEW data, Shape(data), NEW k \in DOMAIN UptimeDefaults.map,
           ~Is("map", At(UptimeDefaults, k))
    PROVE  LeafShape(Dig(data, <<"metrics", "uptime_minutes", k>>), At(UptimeDefaults, k),
                     <<"metrics", "uptime_minutes", k>>)
BY InnerShape, DefaultSections, MetricsKeys, MetricsValues, UptimeKeys, KeyOf

LEMMA MeminfoShape ==
    ASSUME NEW data, Shape(data), NEW k \in DOMAIN MeminfoDefaults.map,
           ~Is("map", At(MeminfoDefaults, k))
    PROVE  LeafShape(Dig(data, <<"metrics", "meminfo", k>>), At(MeminfoDefaults, k),
                     <<"metrics", "meminfo", k>>)
BY InnerShape, DefaultSections, MetricsKeys, MetricsValues, MeminfoKeys, KeyOf

LEMMA MqttInts ==
    ASSUME NEW data, Shape(data),
           NEW k \in {"port", "keepalive_secs", "qos", "recreate_client_after_secs",
                      "reconnect_min_delay_secs", "reconnect_max_delay_secs",
                      "max_queued_messages"}
    PROVE  Is("int", Dig(data, <<"mqtt", k>>))
           /\ Dig(data, <<"mqtt", k>>).int \in IntRange(<<"mqtt", k>>)
<1>1. k \in DOMAIN MqttDefaults.map
  BY MqttKeys
<1>2. PICK n : At(MqttDefaults, k) = Num(n)
  BY MqttValues
<1> QED
  BY <1>1, <1>2, MqttShape, IntShape, Kinds

LEMMA MqttBools ==
    ASSUME NEW data, Shape(data), NEW k \in {"retain", "clean_session"}
    PROVE  Is("bool", Dig(data, <<"mqtt", k>>))
<1>1. k \in DOMAIN MqttDefaults.map
  BY MqttKeys
<1>2. At(MqttDefaults, k) \in {Yes, No}
  BY MqttValues
<1> QED
  BY <1>1, <1>2, MqttShape, BoolShape, Booleans

LEMMA MqttHost ==
    ASSUME NEW data, Shape(data)
    PROVE  Is("str", Dig(data, <<"mqtt", "host">>))
<1>1. "host" \in DOMAIN MqttDefaults.map /\ "host" # "password_env"
  BY MqttKeys
<1>2. LeafShape(Dig(data, <<"mqtt", "host">>), Str(<<"localhost">>), <<"mqtt", "host">>)
  BY <1>1, MqttShape, MqttValues, Kinds
<1>3. <<"mqtt", "host">> # <<"mqtt", "password_env">>
  BY <1>1
<1> QED
  BY <1>2, <1>3, StrShape DEF Textual

LEMMA MqttTimeout ==
    ASSUME NEW data, Shape(data)
    PROVE  ~NoTimeout(data)
<1>1. "publish_timeout_secs" \in DOMAIN MqttDefaults.map
  BY MqttKeys
<1> QED
  BY <1>1, MqttShape, MqttValues, FloatShape, Kinds DEF NoTimeout, Timeout

LEMMA TopicsKinds ==
    ASSUME NEW data, Shape(data)
    PROVE  /\ \A k \in {"payload_online", "payload_offline", "prefix"} :
                Textual(Dig(data, <<"topics", k>>))
           /\ Is("bool", Dig(data, <<"topics", "status_retain">>))
<1>1. ASSUME NEW k \in {"payload_online", "payload_offline", "prefix"}
      PROVE  Textual(Dig(data, <<"topics", k>>))
  <2>1. k \in DOMAIN TopicsDefaults.map /\ <<"topics", k>> # <<"mqtt", "password_env">>
    BY TopicsKeys
  <2>2. PICK t : At(TopicsDefaults, k) = Str(t)
    BY TopicsValues
  <2> QED
    BY <2>1, <2>2, TopicsShape, StrShape, Kinds
<1>2. "status_retain" \in DOMAIN TopicsDefaults.map
  BY TopicsKeys
<1>3. Is("bool", Dig(data, <<"topics", "status_retain">>))
  BY <1>2, TopicsShape, TopicsValues, BoolShape, Booleans
<1> QED
  BY <1>1, <1>3

LEMMA ReportKinds ==
    ASSUME NEW data, Shape(data)
    PROVE  /\ Is("int", Dig(data, <<"report", "interval_secs">>))
           /\ Dig(data, <<"report", "interval_secs">>).int
                \in IntRange(<<"report", "interval_secs">>)
           /\ \A k \in {"report_on_start", "publish_plain", "publish_json"} :
                Is("bool", Dig(data, <<"report", k>>))
<1>1. "interval_secs" \in DOMAIN ReportDefaults.map
  BY ReportKeys
<1>2. /\ Is("int", Dig(data, <<"report", "interval_secs">>))
      /\ Dig(data, <<"report", "interval_secs">>).int \in IntRange(<<"report", "interval_secs">>)
  BY <1>1, ReportShape, ReportValues, IntShape, Kinds
<1>3. ASSUME NEW k \in {"report_on_start", "publish_plain", "publish_json"}
      PROVE  Is("bool", Dig(data, <<"report", k>>))
  <2>1. k \in DOMAIN ReportDefaults.map /\ At(ReportDefaults, k) = Yes
    BY ReportKeys, ReportValues
  <2> QED
    BY <2>1, ReportShape, BoolShape, Booleans
<1> QED
  BY <1>2, <1>3

LEMMA TlsKinds ==
    ASSUME NEW data, Shape(data), NEW k \in {"enabled", "insecure"}
    PROVE  Is("bool", Dig(data, <<"mqtt", "tls", k>>))
<1>1. k \in DOMAIN TlsDefaults.map /\ At(TlsDefaults, k) = No
  BY TlsKeys, TlsValues
<1> QED
  BY <1>1, TlsShape, BoolShape, Booleans

LEMMA UptimeKinds ==
    ASSUME NEW data, Shape(data)
    PROVE  Is("bool", Dig(data, <<"metrics", "uptime_minutes", "enabled">>))
<1>1. "enabled" \in DOMAIN UptimeDefaults.map
  BY UptimeKeys
<1> QED
  BY <1>1, UptimeShape, UptimeValues, BoolShape, Booleans

LEMMA MeminfoKinds ==
    ASSUME NEW data, Shape(data)
    PROVE  /\ Is("bool", Dig(data, <<"metrics", "meminfo", "enabled">>))
           /\ Textual(Dig(data, <<"metrics", "meminfo", "topic">>))
           /\ Listed(Dig(data, <<"metrics", "meminfo", "fields">>))
           /\ Len(Dig(data, <<"metrics", "meminfo", "fields">>).list) # 0
           /\ \A i \in DOMAIN Dig(data, <<"metrics", "meminfo", "fields">>).list :
                Textual(Dig(data, <<"metrics", "meminfo", "fields">>).list[i])
<1>1. "enabled" \in DOMAIN MeminfoDefaults.map /\ "topic" \in DOMAIN MeminfoDefaults.map
      /\ "fields" \in DOMAIN MeminfoDefaults.map
  BY MeminfoKeys
<1>2. Is("bool", Dig(data, <<"metrics", "meminfo", "enabled">>))
  BY <1>1, MeminfoShape, MeminfoValues, BoolShape, Booleans
<1>3. <<"metrics", "meminfo", "topic">> # <<"mqtt", "password_env">>
  OBVIOUS
<1>4. PICK t : At(MeminfoDefaults, "topic") = Str(t)
  BY MeminfoValues DEF OnPrefix
<1>5. Textual(Dig(data, <<"metrics", "meminfo", "topic">>))
  BY <1>1, <1>3, <1>4, MeminfoShape, StrShape, Kinds
<1>6. PICK l : At(MeminfoDefaults, "fields") = List(l)
  BY MeminfoValues
<1> QED
  BY <1>1, <1>2, <1>5, <1>6, MeminfoShape, ListShape, Kinds

LEMMA UnwrappedTwo ==
    ASSUME NEW data, NEW kind, NEW a, NEW keys,
           \A k \in keys : Is(kind, Dig(data, <<a, k>>))
    PROVE  ~Panics(data, Unwrapped(kind, <<a>>, keys))
<1> SUFFICES ASSUME NEW k \in keys PROVE Is(kind, Dig(data, Append(<<a>>, k)))
  BY DEF Panics, Unwrapped
<1>1. Append(<<a>>, k) = <<a, k>>
  BY Short
<1> QED
  BY <1>1

LEMMA UnwrappedThree ==
    ASSUME NEW data, NEW kind, NEW a, NEW b, NEW keys,
           \A k \in keys : Is(kind, Dig(data, <<a, b, k>>))
    PROVE  ~Panics(data, Unwrapped(kind, <<a, b>>, keys))
<1> SUFFICES ASSUME NEW k \in keys PROVE Is(kind, Dig(data, Append(<<a, b>>, k)))
  BY DEF Panics, Unwrapped
<1>1. Append(<<a, b>>, k) = <<a, b, k>>
  BY Short
<1> QED
  BY <1>1

LEMMA PanicsUnion ==
    ASSUME NEW data, NEW S, NEW T, ~Panics(data, S), ~Panics(data, T)
    PROVE  ~Panics(data, S \cup T)
BY DEF Panics

\* Every knob that is unwrapped has its kind when the shape is right.
LEMMA NonePanics ==
    ASSUME NEW data, Shape(data)
    PROVE  ~Panics(data, ReporterUnwraps) /\ ~Panics(data, PublisherUnwraps)
<1>1. ~Panics(data, ReporterUnwraps)
  <2>1. ~Panics(data, Unwrapped("int", <<"report">>, {"interval_secs"}))
    BY ReportKinds, UnwrappedTwo
  <2>2. ~Panics(data, Unwrapped("bool", <<"report">>,
                                {"report_on_start", "publish_plain", "publish_json"}))
    BY ReportKinds, UnwrappedTwo
  <2>3. ~Panics(data, Unwrapped("bool", <<"metrics", "uptime_minutes">>, {"enabled"}))
    BY UptimeKinds, UnwrappedThree
  <2>4. ~Panics(data, Unwrapped("bool", <<"metrics", "meminfo">>, {"enabled"}))
    BY MeminfoKinds, UnwrappedThree
  <2>5. ~Panics(data, Unwrapped("list", <<"metrics", "meminfo">>, {"fields"}))
    BY MeminfoKinds, UnwrappedThree DEF Listed
  <2>6. ~Panics(data, Unwrapped("str", <<"metrics", "meminfo">>, {"topic"}))
    BY MeminfoKinds, UnwrappedThree DEF Textual
  <2> QED
    BY <2>1, <2>2, <2>3, <2>4, <2>5, <2>6 DEF ReporterUnwraps, Panics
<1>2. ~Panics(data, PublisherUnwraps)
  <2>1. ~Panics(data, Unwrapped("str", <<"mqtt">>, {"host"}))
    BY MqttHost, UnwrappedTwo
  <2>2. ~Panics(data, Unwrapped("int", <<"mqtt">>,
          {"port", "keepalive_secs", "qos", "recreate_client_after_secs",
           "reconnect_min_delay_secs", "reconnect_max_delay_secs", "max_queued_messages"}))
    BY MqttInts, UnwrappedTwo
  <2>3. ~Panics(data, Unwrapped("bool", <<"mqtt">>, {"clean_session", "retain"}))
    BY MqttBools, UnwrappedTwo
  <2>4. ~Panics(data, Unwrapped("bool", <<"mqtt", "tls">>, {"enabled", "insecure"}))
    BY TlsKinds, UnwrappedThree
  <2>5. ~Panics(data, Unwrapped("str", <<"topics">>, {"payload_online", "payload_offline"}))
    BY TopicsKinds, UnwrappedTwo DEF Textual
  <2>6. ~Panics(data, Unwrapped("bool", <<"topics">>, {"status_retain"}))
    BY TopicsKinds, UnwrappedTwo
  <2> QED
    BY <2>1, <2>2, <2>3, <2>4, <2>5, <2>6 DEF PublisherUnwraps, Panics
<1> QED
  BY <1>1, <1>2

(***************************************************************************)
(* What Load accepts.                                                      *)
(***************************************************************************)
Document(f, st) == IF st.config = "absent" THEN Null ELSE f
Merge(doc) == DeepMerge(IF Is("null", doc) THEN Map(<<>>) ELSE doc)

Formatted(data, hostname) ==
  FormatTemplate(Text(Dig(data, <<"topics", "prefix">>)),
                 [hostname |-> hostname, prefix |-> <<>>])
Prefix(data, hostname) == TrimSlashes(Formatted(data, hostname).text)
Under(data, hostname) == TopicsUnder(data, hostname, Prefix(data, hostname))
Source(data, st) == Resolve(At(data, "mqtt"), st)

Settled(data, hostname, st, unknown, warnings) ==
  [data |-> data, hostname |-> hostname, prefix |-> Prefix(data, hostname),
   status_topic |-> Under(data, hostname).status.text,
   json_topic |-> Under(data, hostname).json.text,
   uptime_topic |-> Under(data, hostname).uptime.text,
   password |-> Source(data, st).password, unknown |-> unknown, warnings |-> warnings]

Usual(data, st) ==
  Source(data, st).warnings \cup PasswordWarnings(data, Source(data, st).password)

LEMMA ResolvedIs ==
    ASSUME NEW data, NEW hostname, NEW st, Resolved(data, hostname, st) # Rejected
    PROVE  /\ Resolved(data, hostname, st) = Settled(data, hostname, st, {}, Usual(data, st))
           /\ Source(data, st) # Failed
           /\ \A t \in {"status", "json", "uptime"} : Ok(Under(data, hostname)[t])
           /\ Ok(Formatted(data, hostname))
BY Zenon DEF Resolved, Assembled, Settled, Usual, Source, Under, Prefix, Formatted, TopicsUnder

LEMMA SettledWith ==
    ASSUME NEW data, NEW hostname, NEW st, NEW unknown, NEW warnings, NEW x
    PROVE  LET c == Settled(data, hostname, st, unknown, warnings)
           IN  /\ [c EXCEPT !.unknown = x] = Settled(data, hostname, st, x, warnings)
               /\ [c EXCEPT !.warnings = x] = Settled(data, hostname, st, unknown, x)
<1> DEFINE p == Prefix(data, hostname)
           s == Under(data, hostname).status.text
           j == Under(data, hostname).json.text
           u == Under(data, hostname).uptime.text
           w == Source(data, st).password
           C(n, m) == [data |-> data, hostname |-> hostname, prefix |-> p, status_topic |-> s,
                       json_topic |-> j, uptime_topic |-> u, password |-> w,
                       unknown |-> n, warnings |-> m]
<1>1. \A n, m : Settled(data, hostname, st, n, m) = C(n, m)
  BY Zenon DEF Settled
<1> HIDE DEF p, s, j, u, w
<1>2. /\ [C(unknown, warnings) EXCEPT !.unknown = x] = C(x, warnings)
      /\ [C(unknown, warnings) EXCEPT !.warnings = x] = C(unknown, x)
  OBVIOUS
<1> HIDE DEF C
<1> QED
  BY <1>1, <1>2

LEMMA SettledIs ==
    ASSUME NEW data, NEW hostname, NEW st, NEW unknown, NEW warnings
    PROVE  LET c == Settled(data, hostname, st, unknown, warnings)
           IN  /\ c # Rejected
               /\ c.data = data /\ c.hostname = hostname /\ c.prefix = Prefix(data, hostname)
               /\ c.status_topic = Under(data, hostname).status.text
               /\ c.json_topic = Under(data, hostname).json.text
               /\ c.uptime_topic = Under(data, hostname).uptime.text
               /\ c.password = Source(data, st).password
               /\ c.unknown = unknown /\ c.warnings = warnings
<1>1. "data" \in DOMAIN Settled(data, hostname, st, unknown, warnings)
  BY DEF Settled
<1>2. ~("data" \in DOMAIN Rejected)
  BY DEF Rejected
<1>3. Settled(data, hostname, st, unknown, warnings) # Rejected
  BY <1>1, <1>2
<1> QED
  BY <1>3 DEF Settled

LEMMA CheckedIs ==
    ASSUME NEW data, NEW hostname, NEW st, NEW warnings, NEW unknown,
           Checked(Settled(data, hostname, st, {}, warnings), unknown) # Rejected
    PROVE  LET c == Settled(data, hostname, st, unknown, warnings)
           IN  /\ Checked(Settled(data, hostname, st, {}, warnings), unknown) = c
               /\ \A i \in DOMAIN MeminfoFields(c) : Ok(MeminfoTopic(c, MeminfoFields(c)[i]))
<1> DEFINE b == Settled(data, hostname, st, {}, warnings)
           c == Settled(data, hostname, st, unknown, warnings)
<1>1. [b EXCEPT !.unknown = unknown] = c
  BY SettledWith
<1>2. MeminfoFields(b) = MeminfoFields(c)
  BY SettledIs DEF MeminfoFields
<1>3. \A field : MeminfoTopic(b, field) = MeminfoTopic(c, field)
  BY SettledIs DEF MeminfoTopic
<1> HIDE DEF b, c
<1>4. Checked(b, unknown) # Rejected
  BY DEF b
<1>5. /\ Checked(b, unknown) = [b EXCEPT !.unknown = unknown]
      /\ \A i \in DOMAIN MeminfoFields(b) : Ok(MeminfoTopic(b, MeminfoFields(b)[i]))
  BY <1>4, Zenon DEF Checked, Rehearsed
<1>6. /\ Checked(b, unknown) = c
      /\ \A i \in DOMAIN MeminfoFields(c) : Ok(MeminfoTopic(c, MeminfoFields(c)[i]))
  BY <1>1, <1>2, <1>3, <1>5
<1> QED
  BY <1>6, Zenon DEF b, c

Told(data, st) ==
  Usual(data, st)
    \cup (IF st.config = "open" /\ "inline" \in Usual(data, st) THEN {"config mode"} ELSE {})
    \cup (IF st.config = "absent" THEN {"no file"} ELSE {})

LEMMA WarnedIs ==
    ASSUME NEW data, NEW hostname, NEW st, NEW unknown
    PROVE  Warned(Settled(data, hostname, st, unknown, Usual(data, st)), st)
             = Settled(data, hostname, st, unknown, Told(data, st))
<1> DEFINE u == Usual(data, st)
           b == Settled(data, hostname, st, unknown, u)
<1>1. ASSUME NEW w PROVE [b EXCEPT !.warnings = w] = Settled(data, hostname, st, unknown, w)
  <2>1. /\ [b EXCEPT !.unknown = w] = Settled(data, hostname, st, w, u)
        /\ [b EXCEPT !.warnings = w] = Settled(data, hostname, st, unknown, w)
    <3> HIDE DEF u
    <3> QED
      BY SettledWith
  <2> QED
    BY <2>1
<1>2. b # Rejected /\ b.warnings = u
  BY SettledIs
<1> HIDE DEF b
<1>3. Warned(b, st) = [b EXCEPT !.warnings =
          b.warnings \cup (IF st.config = "open" /\ "inline" \in b.warnings
                           THEN {"config mode"} ELSE {})
            \cup (IF st.config = "absent" THEN {"no file"} ELSE {})]
  BY <1>2, Zenon DEF Warned
<1>4. Warned(b, st) = Settled(data, hostname, st, unknown,
          u \cup (IF st.config = "open" /\ "inline" \in u THEN {"config mode"} ELSE {})
            \cup (IF st.config = "absent" THEN {"no file"} ELSE {}))
  BY <1>1, <1>2, <1>3, Zenon
<1> QED
  BY <1>4, Zenon DEF Told, b

\* A configuration is accepted only if its data is valid, its topics can be
\* formatted and sent, for every field too, and its password is found.
LEMMA LoadIs ==
    ASSUME NEW f, NEW hostname, NEW st, NEW explicit, Load(f, hostname, st, explicit) # Rejected
    PROVE  LET doc == Document(f, st)
               data == Merge(doc)
               c == Settled(data, hostname, st, Unknown(doc), Told(data, st))
           IN  /\ Load(f, hostname, st, explicit) = c
               /\ Is("map", doc) \/ Is("null", doc)
               /\ Valid(data)
               /\ Source(data, st) # Failed
               /\ Ok(Formatted(data, hostname))
               /\ \A t \in {"status", "json", "uptime"} : Ok(Under(data, hostname)[t])
               /\ \A i \in DOMAIN MeminfoFields(c) : Ok(MeminfoTopic(c, MeminfoFields(c)[i]))
<1> DEFINE doc == Document(f, st)
           data == Merge(doc)
           loaded == Load(f, hostname, st, explicit)
           yaml == FromYaml(doc, hostname, st)
           resolved == Resolved(data, hostname, st)
<1>1. loaded = Warned(yaml, st)
  BY Zenon DEF Load, Document
<1>2. yaml # Rejected
  BY <1>1 DEF Warned
<1>3. yaml = IF (Is("map", doc) \/ Is("null", doc)) /\ Valid(data)
             THEN Checked(resolved, Unknown(doc)) ELSE Rejected
  BY Zenon DEF FromYaml, Merge
<1>4. (Is("map", doc) \/ Is("null", doc)) /\ Valid(data) /\ yaml = Checked(resolved, Unknown(doc))
  BY <1>2, <1>3
<1>5. resolved # Rejected
  BY <1>2, <1>4 DEF Checked
<1>6. /\ resolved = Settled(data, hostname, st, {}, Usual(data, st))
      /\ Source(data, st) # Failed
      /\ \A t \in {"status", "json", "uptime"} : Ok(Under(data, hostname)[t])
      /\ Ok(Formatted(data, hostname))
  BY <1>5, ResolvedIs
<1> HIDE DEF doc, data, yaml, loaded, resolved
<1>7. LET c == Settled(data, hostname, st, Unknown(doc), Usual(data, st))
      IN  /\ yaml = c
          /\ \A i \in DOMAIN MeminfoFields(c) : Ok(MeminfoTopic(c, MeminfoFields(c)[i]))
  BY <1>2, <1>4, <1>6, CheckedIs
<1> DEFINE b == Settled(data, hostname, st, Unknown(doc), Usual(data, st))
           c == Settled(data, hostname, st, Unknown(doc), Told(data, st))
<1>8. loaded = c
  BY <1>1, <1>7, WarnedIs
<1>9. MeminfoFields(b) = MeminfoFields(c) /\ \A field : MeminfoTopic(b, field) = MeminfoTopic(c, field)
  BY SettledIs DEF MeminfoFields, MeminfoTopic
<1>10. \A i \in DOMAIN MeminfoFields(c) : Ok(MeminfoTopic(c, MeminfoFields(c)[i]))
  BY <1>7, <1>9
<1> HIDE DEF b, c
<1> QED
  BY <1>4, <1>6, <1>8, <1>10, Zenon DEF doc, data, loaded, c

(***************************************************************************)
(* format_template.                                                        *)
(***************************************************************************)
Scanning(T) == [rest : Seq(T), written : Seq(T)] \cup {Failed}

LEMMA MinIn ==
    ASSUME NEW I \in SUBSET Nat, I # {}
    PROVE  Min(I) \in I
<1>1. PICK x \in I : \A y \in I : ~(y < x)
  BY Least
<1>2. \A y \in I : x <= y
  BY <1>1
<1> QED
  BY <1>2 DEF Min

LEMMA SelectIn ==
    ASSUME NEW T, NEW seq \in Seq(T), NEW t
    PROVE  LET I == {i \in 1..Len(seq) : seq[i] = t}
           IN  (IF I # {} THEN Min(I) ELSE 0) \in 0..Len(seq)
<1> DEFINE I == {i \in 1..Len(seq) : seq[i] = t}
<1>1. Len(seq) \in Nat /\ I \in SUBSET (1..Len(seq))
  OBVIOUS
<1> HIDE DEF I
<1>2. I \in SUBSET Nat
  BY <1>1
<1>3. I # {} => Min(I) \in I
  BY <1>2, MinIn
<1>4. (IF I # {} THEN Min(I) ELSE 0) \in 0..Len(seq)
  <2>1. CASE I # {}
    <3>1. Min(I) \in 1..Len(seq)
      BY <1>1, <1>3, <2>1
    <3>2. Min(I) \in 0..Len(seq)
      BY <1>1, <3>1
    <3> QED
      BY <2>1, <3>2, Zenon
  <2>2. CASE ~(I # {})
    <3>1. 0 \in 0..Len(seq)
      BY <1>1
    <3> QED
      BY <2>2, <3>1, Zenon
  <2> QED
    BY <2>1, <2>2
<1> QED
  BY <1>4 DEF I

LEMMA ScanType ==
    ASSUME NEW T, NEW values, \A k \in DOMAIN values : values[k] \in Seq(T),
           NEW state \in Scanning(T)
    PROVE  Scan(state, values) \in Scanning(T)
<1> DEFINE rest == state.rest
           c == Head(rest)
           I == {i \in 1..Len(rest) : rest[i] = "}"}
           close == IF I # {} THEN Min(I) ELSE 0
           doubled == Len(rest) > 1 /\ rest[2] = c
           field == SubSeq(rest, 2, close - 1)
<1>1. CASE state = Failed \/ rest = <<>>
  BY <1>1, Zenon DEF Scan
<1>2. CASE state # Failed /\ rest # <<>>
  <2>1. rest \in Seq(T) /\ state.written \in Seq(T) /\ c \in T /\ Len(rest) \in Nat
    BY <1>2 DEF Scanning
  <2>2. close \in 0..Len(rest)
    <3> HIDE DEF rest
    <3> QED
      BY <2>1, SelectIn
  <2>3. Scan(state, values) =
          CASE c \in {"{", "}"} /\ doubled ->
                 [rest |-> SubSeq(rest, 3, Len(rest)), written |-> Append(state.written, c)]
            [] c = "{" /\ ~doubled ->
                 IF close = 0 \/ Len(field) # 1 \/ field[1] \notin DOMAIN values
                 THEN Failed
                 ELSE [rest |-> SubSeq(rest, close + 1, Len(rest)),
                       written |-> state.written \o values[field[1]]]
            [] c = "}" /\ ~doubled -> Failed
            [] OTHER -> [rest |-> Tail(rest), written |-> Append(state.written, c)]
    BY <1>2, Zenon DEF Scan, SelectInSeq, Emitted
  <2> HIDE DEF I, close, field, doubled, c, rest
  <2>4. ASSUME NEW r \in Seq(T), NEW w \in Seq(T) PROVE [rest |-> r, written |-> w] \in Scanning(T)
    BY DEF Scanning
  <2>5. /\ SubSeq(rest, 3, Len(rest)) \in Seq(T) /\ SubSeq(rest, close + 1, Len(rest)) \in Seq(T)
        /\ rest # <<>> => Tail(rest) \in Seq(T)
    BY <2>1, <2>2
  <2>6. Append(state.written, c) \in Seq(T)
    BY <2>1
  <2>7. ASSUME NEW w \in Seq(T) PROVE state.written \o w \in Seq(T)
    BY <2>1
  <2>8. Failed \in Scanning(T)
    BY DEF Scanning
  <2>9. rest # <<>>
    BY <1>2 DEF rest
  <2> QED
    BY <2>3, <2>4, <2>5, <2>6, <2>7, <2>8, <2>9
<1> QED
  BY <1>1, <1>2

\* The turns of the scanner.
Turns(T, template, values, h) ==
  /\ h \in [0..Len(template) -> Scanning(T)]
  /\ h[0] = [rest |-> template, written |-> <<>>]
  /\ \A n \in 1..Len(template) : h[n] = Scan(h[n - 1], values)
  /\ FormatTemplate(template, values) =
       IF h[Len(template)] = Failed THEN Failed ELSE [text |-> h[Len(template)].written]

LEMMA FormatSteps ==
    ASSUME NEW T, NEW values, \A k \in DOMAIN values : values[k] \in Seq(T),
           NEW template \in Seq(T)
    PROVE  \E h : Turns(T, template, values, h)
<1> DEFINE N == Len(template)
           D == Scanning(T)
           d == [rest |-> template, written |-> <<>>]
           P(g) == g = [n \in 0..N |-> IF n = 0 THEN d ELSE Scan(g[n - 1], values)]
           h == CHOOSE g : P(g)
           end == h[N]
<1>1. FormatTemplate(template, values) = IF end = Failed THEN Failed ELSE [text |-> end.written]
  BY Zenon DEF FormatTemplate
<1>2. N \in Nat /\ d \in D
  BY DEF Scanning
<1>3. \A state \in D : Scan(state, values) \in D
  BY ScanType
<1> HIDE DEF D, d, N
<1>4. \E g : P(g)
  <2> DEFINE G == [x \in (1..N) \X D |-> Scan(x[2], values)]
  <2>1. G \in [(1..N) \X D -> D]
    BY <1>3
  <2>2. \A n \in 1..N, state \in D : G[<<n, state>>] = Scan(state, values)
    OBVIOUS
  <2> HIDE DEF G
  <2>3. PICK f : Unfolds(f, D, d, N, G)
    BY <1>2, <2>1, Recursion
  <2>4. ASSUME NEW n \in 0..N PROVE f[n] = IF n = 0 THEN d ELSE Scan(f[n - 1], values)
    <3>1. CASE n = 0
      BY <2>3, <3>1 DEF Unfolds
    <3>2. CASE n # 0
      <4>1. n \in 1..N /\ n - 1 \in 0..N
        BY <1>2, <3>2
      <4> QED
        BY <2>2, <2>3, <3>2, <4>1 DEF Unfolds
    <3> QED
      BY <3>1, <3>2
  <2>5. P(f)
    BY <2>3, <2>4 DEF Unfolds
  <2> QED
    BY <2>5
<1> HIDE DEF P
<1>5. P(h)
  BY <1>4
<1> DEFINE S == {n \in Nat : n <= N => h[n] \in D}
<1> HIDE DEF h
<1>6. h[0] = d /\ \A n \in 1..N : h[n] = Scan(h[n - 1], values)
  BY <1>2, <1>5 DEF P
<1>7. \A n \in Nat : n \in S
  <2>1. 0 \in S
    BY <1>2, <1>6
  <2>2. ASSUME NEW n \in Nat, n \in S PROVE n + 1 \in S
    <3> SUFFICES ASSUME n + 1 <= N PROVE h[n + 1] \in D
      OBVIOUS
    <3>1. n + 1 \in 1..N /\ (n + 1) - 1 = n /\ h[n] \in D
      BY <1>2, <2>2
    <3>2. h[n + 1] = Scan(h[n], values)
      BY <1>6, <3>1
    <3> QED
      BY <1>3, <3>1, <3>2
  <2> HIDE DEF S
  <2> QED
    BY <2>1, <2>2, Induction
<1>8. \A n \in 0..N : h[n] \in D
  BY <1>2, <1>7
<1>9. h \in [0..N -> D]
  BY <1>5, <1>8 DEF P
<1> QED
  <2>1. Turns(T, template, values, h)
    BY <1>1, <1>6, <1>9 DEF D, d, N, Turns
  <2> QED
    BY <2>1

LEMMA FormatType ==
    ASSUME NEW T, NEW values, \A k \in DOMAIN values : values[k] \in Seq(T),
           NEW template \in Seq(T)
    PROVE  \/ FormatTemplate(template, values) = Failed
           \/ \E w \in Seq(T) : FormatTemplate(template, values) = [text |-> w]
<1> DEFINE N == Len(template)
<1>1. PICK h : Turns(T, template, values, h)
  BY FormatSteps
<1>2. N \in Nat /\ h \in [0..N -> Scanning(T)]
  BY <1>1 DEF Turns
<1>3. FormatTemplate(template, values) = IF h[N] = Failed THEN Failed ELSE [text |-> h[N].written]
  BY <1>1 DEF Turns
<1>4. h[N] \in Scanning(T)
  BY <1>2
<1> HIDE DEF N
<1> QED
  BY <1>3, <1>4 DEF Scanning

\* What is left of a prefix has no slash at its end.
LEMMA TrimIs ==
    ASSUME NEW T, NEW text \in Seq(T)
    PROVE  TrimSlashes(text) = <<>> \/ Last(TrimSlashes(text)) # "/"
<1> DEFINE N == Len(text)
           Q(n) == /\ n = 0 \/ text[n] # "/"
                   /\ \A i \in (n + 1)..N : text[i] = "/"
           n == CHOOSE n \in 0..N : Q(n)
           I == {m \in 0..N : \A i \in (m + 1)..N : text[i] = "/"}
<1>1. TrimSlashes(text) = SubSeq(text, 1, n)
  BY Zenon DEF TrimSlashes
<1>2. N \in Nat /\ N \in I /\ I \in SUBSET Nat
  OBVIOUS
<1>3. PICK m \in I : \A y \in I : ~(y < m)
  BY <1>2, Least
<1>4. m \in 0..N /\ Q(m)
  <2> SUFFICES ASSUME m # 0, text[m] = "/" PROVE FALSE
    BY <1>3
  <2>1. m - 1 \in I
    <3>1. m - 1 \in 0..N /\ m \in 1..N
      BY <1>2, <1>3
    <3>2. ASSUME NEW i \in ((m - 1) + 1)..N PROVE text[i] = "/"
      <4>1. i = m \/ i \in (m + 1)..N
        BY <1>2, <3>1
      <4> QED
        BY <1>3, <4>1
    <3> QED
      BY <3>1, <3>2
  <2>2. m \in Int /\ m - 1 < m
    BY <1>2, <1>3
  <2> HIDE DEF I
  <2> QED
    BY <1>3, <2>1, <2>2
<1> HIDE DEF Q
<1>5. n \in 0..N /\ Q(n)
  BY <1>4
<1> HIDE DEF n
<1>6. CASE n = 0
  BY <1>1, <1>6
<1>7. CASE n # 0
  <2>1. n \in 1..N
    BY <1>2, <1>5, <1>7
  <2>2. Len(SubSeq(text, 1, n)) = n /\ SubSeq(text, 1, n)[n] = text[n]
    BY <2>1
  <2>3. Last(TrimSlashes(text)) = text[n]
    BY <1>1, <2>2 DEF Last
  <2> QED
    BY <1>5, <1>7, <2>3 DEF Q
<1> QED
  BY <1>6, <1>7

(***************************************************************************)
(* What a report needs of a configuration, and keeps after start-up.       *)
(***************************************************************************)
Serves(c) ==
  /\ c # Rejected
  /\ c.prefix = <<>> \/ Last(c.prefix) # "/"
  /\ Publishable(c.json_topic) /\ Publishable(c.uptime_topic)
  /\ MeminfoFields(c) \in Seq(Seq(STRING)) /\ MeminfoFields(c) # <<>>
  /\ \A i \in DOMAIN MeminfoFields(c) : Ok(MeminfoTopic(c, MeminfoFields(c)[i]))

LEMMA FieldsType ==
    ASSUME NEW data, Shape(data), NEW c, c.data = data
    PROVE  MeminfoFields(c) \in Seq(Seq(STRING)) /\ MeminfoFields(c) # <<>>
<1> DEFINE v == Dig(data, <<"metrics", "meminfo", "fields">>)
<1>1. Listed(v) /\ Len(v.list) # 0 /\ \A i \in DOMAIN v.list : Textual(v.list[i])
  BY MeminfoKinds
<1>2. MeminfoFields(c) = Fields(v)
  BY DEF MeminfoFields
<1> HIDE DEF v
<1>3. Fields(v) = [i \in 1..Len(v.list) |-> Text(v.list[i])]
  BY <1>1 DEF Fields, Listed
<1>4. \A i \in 1..Len(v.list) : Text(v.list[i]) \in Seq(STRING)
  BY <1>1 DEF Listed, Textual, Text
<1> DEFINE N == Len(v.list)
<1>5. N \in Nat
  BY <1>1 DEF Listed
<1> HIDE DEF N
<1>6. [i \in 1..N |-> Text(v.list[i])] \in Seq(Seq(STRING))
  <2>1. \A i \in 1..N : Text(v.list[i]) \in Seq(STRING)
    BY <1>4 DEF N
  <2> QED
    BY <1>5, <2>1
<1>7. N # 0
  BY <1>1 DEF N
<1>8. [i \in 1..N |-> Text(v.list[i])] # <<>>
  BY <1>5, <1>7
<1> QED
  BY <1>2, <1>3, <1>6, <1>8 DEF N

LEMMA PrefixIs ==
    ASSUME NEW data, Shape(data), NEW hostname \in Seq(STRING), Ok(Formatted(data, hostname))
    PROVE  Prefix(data, hostname) = <<>> \/ Last(Prefix(data, hostname)) # "/"
<1> DEFINE v == Dig(data, <<"topics", "prefix">>)
           values == [hostname |-> hostname, prefix |-> <<>>]
<1>1. Textual(v)
  BY TopicsKinds
<1>2. Text(v) \in Seq(STRING)
  BY <1>1 DEF Textual, Text
<1>3. \A k \in DOMAIN values : values[k] \in Seq(STRING)
  <2>1. <<>> \in Seq(STRING)
    OBVIOUS
  <2>2. /\ DOMAIN values = {"hostname", "prefix"}
        /\ values["hostname"] = hostname /\ values["prefix"] = <<>>
    OBVIOUS
  <2> HIDE DEF values
  <2> QED
    BY <2>1, <2>2
<1>4. Formatted(data, hostname) = FormatTemplate(Text(v), values)
  BY Zenon DEF Formatted
<1> HIDE DEF v, values
<1>5. \/ Formatted(data, hostname) = Failed
      \/ \E w \in Seq(STRING) : Formatted(data, hostname) = [text |-> w]
  BY <1>2, <1>3, <1>4, FormatType
<1>6. Formatted(data, hostname) # Failed
  BY DEF Ok, Is, Failed
<1>7. Formatted(data, hostname).text \in Seq(STRING)
  BY <1>5, <1>6
<1> QED
  BY <1>7, TrimIs DEF Prefix

LEMMA TopicIs ==
    ASSUME NEW topic, Ok(Sendable(topic))
    PROVE  Publishable(Sendable(topic).text)
BY DEF Sendable, Ok, Is, Failed

LEMMA LoadServes ==
    ASSUME NEW f, NEW hostname \in Seq(STRING), NEW st, NEW explicit,
           Load(f, hostname, st, explicit) # Rejected
    PROVE  /\ Serves(Load(f, hostname, st, explicit))
           /\ Publishable(Load(f, hostname, st, explicit).status_topic)
<1> DEFINE doc == Document(f, st)
           data == Merge(doc)
           c == Settled(data, hostname, st, Unknown(doc), Told(data, st))
<1>1. /\ Load(f, hostname, st, explicit) = c
      /\ Valid(data)
      /\ Ok(Formatted(data, hostname))
      /\ \A t \in {"status", "json", "uptime"} : Ok(Under(data, hostname)[t])
      /\ \A i \in DOMAIN MeminfoFields(c) : Ok(MeminfoTopic(c, MeminfoFields(c)[i]))
  BY LoadIs
<1>2. Shape(data)
  BY <1>1 DEF Valid
<1>3. /\ c # Rejected
      /\ c.data = data /\ c.prefix = Prefix(data, hostname)
      /\ c.status_topic = Under(data, hostname).status.text
      /\ c.json_topic = Under(data, hostname).json.text
      /\ c.uptime_topic = Under(data, hostname).uptime.text
  <2> HIDE DEF data, doc
  <2> QED
    BY SettledIs
<1> HIDE DEF doc, data, c
<1>4. c.prefix = <<>> \/ Last(c.prefix) # "/"
  BY <1>1, <1>2, <1>3, PrefixIs
<1>5. \A t \in {"status", "json", "uptime"} : Publishable(Under(data, hostname)[t].text)
  BY <1>1, TopicIs DEF Under, TopicsUnder, Topic
<1>6. MeminfoFields(c) \in Seq(Seq(STRING)) /\ MeminfoFields(c) # <<>>
  BY <1>2, <1>3, FieldsType
<1> QED
  BY <1>1, <1>3, <1>4, <1>5, <1>6 DEF Serves

ServedData(data) ==
  Map([report |-> Map([k \in {"publish_plain", "publish_json"} |-> At(At(data, "report"), k)]),
       metrics |-> At(data, "metrics")])

LEMMA ServedDigs ==
    ASSUME NEW data
    PROVE  /\ \A k \in {"publish_plain", "publish_json"} :
                Dig(ServedData(data), <<"report", k>>) = Dig(data, <<"report", k>>)
           /\ \A a, b : Dig(ServedData(data), <<"metrics", a, b>>) = Dig(data, <<"metrics", a, b>>)
<1> DEFINE r == Map([k \in {"publish_plain", "publish_json"} |-> At(At(data, "report"), k)])
           m == At(data, "metrics")
<1>1. ServedData(data) = Map([report |-> r, metrics |-> m])
  BY Zenon DEF ServedData
<1>2. \A k \in {"publish_plain", "publish_json"} : At(r, k) = At(At(data, "report"), k)
  BY Kinds DEF At
<1> HIDE DEF r, m
<1>3. At(ServedData(data), "report") = r /\ At(ServedData(data), "metrics") = m
  BY <1>1, Kinds DEF At
<1>4. ASSUME NEW k \in {"publish_plain", "publish_json"}
      PROVE  Dig(ServedData(data), <<"report", k>>) = Dig(data, <<"report", k>>)
  BY <1>2, <1>3, DigTwo
<1>5. ASSUME NEW a, NEW b
      PROVE  Dig(ServedData(data), <<"metrics", a, b>>) = Dig(data, <<"metrics", a, b>>)
  BY <1>3, DigThree DEF m
<1> QED
  BY <1>4, <1>5

LEMMA ServedIs ==
    ASSUME NEW data, NEW hostname, NEW st, NEW unknown, NEW warnings,
           cfg = Settled(data, hostname, st, unknown, warnings)
    PROVE  /\ Served # Rejected
           /\ Served.data = ServedData(cfg.data) /\ Served.hostname = cfg.hostname
           /\ Served.prefix = cfg.prefix /\ Served.json_topic = cfg.json_topic
           /\ Served.uptime_topic = cfg.uptime_topic
<1> DEFINE p == Prefix(data, hostname)
           s == Under(data, hostname).status.text
           j == Under(data, hostname).json.text
           u == Under(data, hostname).uptime.text
           w == Source(data, st).password
           c == [data |-> data, hostname |-> hostname, prefix |-> p, status_topic |-> s,
                 json_topic |-> j, uptime_topic |-> u, password |-> w,
                 unknown |-> unknown, warnings |-> warnings]
           d == ServedData(cfg.data)
<1>1. cfg = c
  BY Zenon DEF Settled
<1>2. Served = [cfg EXCEPT !.data = d, !.status_topic = <<>>, !.password = "none",
                           !.warnings = {}, !.unknown = {}]
  BY Zenon DEF Served, ServedData
<1> HIDE DEF d, p, s, j, u, w
<1>3. DOMAIN Served = DOMAIN c
  BY <1>1, <1>2
<1>4. /\ Served.data = d /\ Served.hostname = cfg.hostname
      /\ Served.prefix = cfg.prefix /\ Served.json_topic = cfg.json_topic
      /\ Served.uptime_topic = cfg.uptime_topic
  BY <1>1, <1>2
<1>5. "data" \in DOMAIN Served /\ ~("data" \in DOMAIN Rejected)
  BY <1>3 DEF Rejected
<1> QED
  BY <1>4, <1>5 DEF d

LEMMA ServedServes ==
    ASSUME NEW data, NEW hostname, NEW st, NEW unknown, NEW warnings,
           cfg = Settled(data, hostname, st, unknown, warnings), Serves(cfg)
    PROVE  Serves(Served)
<1>1. /\ Served # Rejected
      /\ Served.data = ServedData(cfg.data) /\ Served.hostname = cfg.hostname
      /\ Served.prefix = cfg.prefix /\ Served.json_topic = cfg.json_topic
      /\ Served.uptime_topic = cfg.uptime_topic
  BY ServedIs
<1> DEFINE c == Served
<1> HIDE DEF c
<1>2. \A a, b : Dig(c.data, <<"metrics", a, b>>) = Dig(cfg.data, <<"metrics", a, b>>)
  <2>1. c.data = ServedData(cfg.data)
    BY <1>1 DEF c
  <2> DEFINE data_ == cfg.data
  <2>2. \A a, b : Dig(ServedData(data_), <<"metrics", a, b>>) = Dig(data_, <<"metrics", a, b>>)
    <3> HIDE DEF data_
    <3> QED
      BY ServedDigs
  <2> QED
    BY <2>1, <2>2
<1>3. MeminfoFields(c) = MeminfoFields(cfg)
  BY <1>2 DEF MeminfoFields
<1>4. \A field : MeminfoTopic(c, field) = MeminfoTopic(cfg, field)
  BY <1>1, <1>2 DEF MeminfoTopic, Topic, c
<1> QED
  BY <1>1, <1>3, <1>4 DEF Serves, c

(***************************************************************************)
(* parse_meminfo: the last line of a field counts.                         *)
(***************************************************************************)
Tables(K) == UNION {[S -> Int] : S \in SUBSET K}
LinesOf(K) == [key : K, colon : BOOLEAN, value : ProcWords]
Tells(line, k) == line.key = k /\ WellFormed(line)

LEMMA InsertType ==
    ASSUME NEW K, NEW table \in Tables(K), NEW line \in LinesOf(K)
    PROVE  /\ Insert(table, line) \in Tables(K)
           /\ WellFormed(line) =>
                /\ DOMAIN Insert(table, line) = DOMAIN table \cup {line.key}
                /\ Insert(table, line)[line.key] = line.value.num
                /\ \A k \in DOMAIN table \ {line.key} : Insert(table, line)[k] = table[k]
           /\ ~WellFormed(line) => Insert(table, line) = table
<1>1. PICK S \in SUBSET K : table \in [S -> Int]
  BY DEF Tables
<1>2. line.key \in K
  BY DEF LinesOf
<1>3. WellFormed(line) => line.value.num \in Int
  BY DEF LinesOf, ProcWords, WellFormed
<1>4. CASE WellFormed(line)
  <2> DEFINE k0 == line.key
             v == line.value.num
             f == [k \in S \cup {k0} |-> IF k = k0 THEN v ELSE table[k]]
  <2>1. Insert(table, line) = f
    BY <1>1, <1>4 DEF Insert
  <2>2. k0 \in K /\ v \in Int
    BY <1>2, <1>3, <1>4
  <2> HIDE DEF k0, v
  <2>3. f \in [S \cup {k0} -> Int] /\ S \cup {k0} \in SUBSET K
    BY <1>1, <2>2
  <2>4. f \in Tables(K)
    BY <2>3 DEF Tables
  <2>5. DOMAIN f = S \cup {k0} /\ f[k0] = v /\ \A k \in S \ {k0} : f[k] = table[k]
    OBVIOUS
  <2> HIDE DEF f
  <2> QED
    BY <1>1, <1>4, <2>1, <2>4, <2>5 DEF k0, v
<1>5. CASE ~WellFormed(line)
  BY <1>5 DEF Insert
<1> QED
  BY <1>4, <1>5

LEMMA ParsedIs ==
    ASSUME NEW K, NEW lines \in Seq(LinesOf(K))
    PROVE  /\ Parsed(lines) \in Tables(K)
           /\ \A k : k \in DOMAIN Parsed(lines) <=> \E i \in 1..Len(lines) : Tells(lines[i], k)
           /\ \A k, i : /\ i \in 1..Len(lines) /\ Tells(lines[i], k)
                        /\ \A j \in (i + 1)..Len(lines) : ~Tells(lines[j], k)
                        => Parsed(lines)[k] = lines[i].value.num
<1> DEFINE N == Len(lines)
           D == Tables(K)
           d == <<>>
           P(g) == g = [n \in 0..N |-> IF n = 0 THEN d ELSE Insert(g[n - 1], lines[n])]
           h == CHOOSE g : P(g)
           Good(n, t) ==
             /\ t \in D
             /\ \A k : k \in DOMAIN t <=> \E i \in 1..n : Tells(lines[i], k)
             /\ \A k, i : /\ i \in 1..n /\ Tells(lines[i], k)
                          /\ \A j \in (i + 1)..n : ~Tells(lines[j], k)
                          => t[k] = lines[i].value.num
<1>1. Parsed(lines) = h[N]
  BY Zenon DEF Parsed
<1>2. N \in Nat /\ d \in D /\ DOMAIN d = {} /\ \A n \in 1..N : lines[n] \in LinesOf(K)
  <2>1. d \in [{} -> Int] /\ DOMAIN d = {} /\ {} \in SUBSET K
    OBVIOUS
  <2> HIDE DEF d
  <2>2. d \in Tables(K)
    BY <2>1 DEF Tables
  <2>3. N \in Nat /\ \A n \in 1..N : lines[n] \in LinesOf(K)
    OBVIOUS
  <2> QED
    BY <2>1, <2>2, <2>3
<1>3. \A t \in D, n \in 1..N : Insert(t, lines[n]) \in D
  BY <1>2, InsertType
<1> HIDE DEF D, d, N
<1>4. \E g : P(g)
  <2> DEFINE G == [x \in (1..N) \X D |-> Insert(x[2], lines[x[1]])]
  <2>1. G \in [(1..N) \X D -> D]
    BY <1>3
  <2>2. \A n \in 1..N, t \in D : G[<<n, t>>] = Insert(t, lines[n])
    OBVIOUS
  <2> HIDE DEF G
  <2>3. PICK f : Unfolds(f, D, d, N, G)
    BY <1>2, <2>1, Recursion
  <2>4. ASSUME NEW n \in 0..N PROVE f[n] = IF n = 0 THEN d ELSE Insert(f[n - 1], lines[n])
    <3>1. CASE n = 0
      BY <2>3, <3>1 DEF Unfolds
    <3>2. CASE n # 0
      <4>1. n \in 1..N /\ n - 1 \in 0..N
        BY <1>2, <3>2
      <4> QED
        BY <2>2, <2>3, <3>2, <4>1 DEF Unfolds
    <3> QED
      BY <3>1, <3>2
  <2>5. P(f)
    BY <2>3, <2>4 DEF Unfolds
  <2> QED
    BY <2>5
<1> HIDE DEF P
<1>5. P(h)
  BY <1>4
<1> DEFINE S == {n \in Nat : n <= N => Good(n, h[n])}
<1> HIDE DEF h
<1>6. N \in S
  <2>1. 0 \in S
    <3>1. h[0] = d
      BY <1>2, <1>5 DEF P
    <3> QED
      BY <1>2, <3>1
  <2>2. ASSUME NEW n \in Nat, n \in S PROVE n + 1 \in S
    <3> SUFFICES ASSUME n + 1 <= N PROVE Good(n + 1, h[n + 1])
      OBVIOUS
    <3> DEFINE t == h[n]
               u == h[n + 1]
               line == lines[n + 1]
    <3>a. n + 1 \in 0..N /\ n + 1 \in 1..N /\ n + 1 # 0 /\ (n + 1) - 1 = n /\ n <= N
      BY <1>2
    <3>1. Good(n, t)
      <4> HIDE DEF Good
      <4> QED
        BY <2>2, <3>a
    <3>2. u = Insert(t, line)
      <4> HIDE DEF Good
      <4> QED
        BY <1>5, <3>a DEF P
    <3>3. line \in LinesOf(K)
      BY <1>2, <3>a
    <3> HIDE DEF u, t
    <3>4. t \in D /\ u \in D
      BY <1>3, <3>a, <3>1, <3>2
    <3>5. /\ WellFormed(line) =>
               /\ DOMAIN u = DOMAIN t \cup {line.key}
               /\ u[line.key] = line.value.num
               /\ \A k \in DOMAIN t \ {line.key} : u[k] = t[k]
          /\ ~WellFormed(line) => u = t
      <4>1. t \in Tables(K)
        BY <3>4 DEF D
      <4> HIDE DEF line
      <4>2. /\ WellFormed(line) =>
                 /\ DOMAIN Insert(t, line) = DOMAIN t \cup {line.key}
                 /\ Insert(t, line)[line.key] = line.value.num
                 /\ \A k \in DOMAIN t \ {line.key} : Insert(t, line)[k] = t[k]
            /\ ~WellFormed(line) => Insert(t, line) = t
        BY <3>3, <4>1, InsertType
      <4> QED
        BY <3>2, <4>2
    <3>6. \A k : k \in DOMAIN u <=> k \in DOMAIN t \/ Tells(line, k)
      BY <3>5 DEF Tells
    <3>7. ASSUME NEW k PROVE k \in DOMAIN u <=> \E i \in 1..(n + 1) : Tells(lines[i], k)
      <4>1. \A i \in 1..(n + 1) : i = n + 1 \/ i \in 1..n
        OBVIOUS
      <4>2. \A i \in 1..n : i \in 1..(n + 1)
        OBVIOUS
      <4>3. n + 1 \in 1..(n + 1)
        OBVIOUS
      <4> HIDE DEF D
      <4> QED
        BY <3>1, <3>6, <4>1, <4>2, <4>3
    <3>8. ASSUME NEW k, NEW i, i \in 1..(n + 1), Tells(lines[i], k),
                 \A j \in (i + 1)..(n + 1) : ~Tells(lines[j], k)
          PROVE  u[k] = lines[i].value.num
      <4>1. CASE i = n + 1
        BY <3>5, <3>8, <4>1 DEF Tells
      <4>2. CASE i # n + 1
        <5>1. i \in 1..n /\ n + 1 \in (i + 1)..(n + 1) /\ \A j \in (i + 1)..n : j \in (i + 1)..(n + 1)
          BY <3>8, <4>2
        <5>2. ~Tells(line, k) /\ \A j \in (i + 1)..n : ~Tells(lines[j], k)
          BY <3>8, <5>1
        <5>3. k \in DOMAIN t /\ t[k] = lines[i].value.num
          BY <3>1, <3>8, <5>1, <5>2
        <5> QED
          BY <3>5, <5>2, <5>3 DEF Tells
      <4> QED
        BY <4>1, <4>2
    <3> QED
      BY <3>4, <3>7, <3>8 DEF u
  <2> HIDE DEF S
  <2> QED
    BY <1>2, <2>1, <2>2, Induction
<1>7. Good(N, h[N])
  BY <1>2, <1>6
<1> HIDE DEF h
<1> QED
  BY <1>1, <1>7 DEF N, D

Taking(K) == [parsed : Tables(K), meminfo : Seq(K \X Int)]

LEMMA TakeType ==
    ASSUME NEW K, NEW acc \in Taking(K), NEW field \in K
    PROVE  /\ TakeField(acc, field) \in Taking(K)
           /\ field \in DOMAIN acc.parsed =>
                /\ DOMAIN TakeField(acc, field).parsed = DOMAIN acc.parsed \ {field}
                /\ \A k \in DOMAIN acc.parsed \ {field} :
                     TakeField(acc, field).parsed[k] = acc.parsed[k]
                /\ TakeField(acc, field).meminfo =
                     Append(acc.meminfo, <<field, acc.parsed[field]>>)
           /\ field \notin DOMAIN acc.parsed => TakeField(acc, field) = acc
<1>1. acc.parsed \in Tables(K) /\ acc.meminfo \in Seq(K \X Int)
  BY DEF Taking
<1>2. PICK S \in SUBSET K : acc.parsed \in [S -> Int]
  BY <1>1 DEF Tables
<1>3. CASE field \in DOMAIN acc.parsed
  <2> DEFINE t == acc.parsed
             f == [k \in S \ {field} |-> t[k]]
             m == Append(acc.meminfo, <<field, t[field]>>)
  <2>1. TakeField(acc, field) = [parsed |-> f, meminfo |-> m]
    BY <1>2, <1>3 DEF TakeField
  <2>2. t[field] \in Int
    BY <1>2, <1>3
  <2>3. f \in [S \ {field} -> Int] /\ S \ {field} \in SUBSET K
    BY <1>2
  <2>4. \A k \in S \ {field} : f[k] = t[k]
    OBVIOUS
  <2>5. m \in Seq(K \X Int)
    BY <1>1, <2>2
  <2> HIDE DEF f
  <2>6. f \in Tables(K)
    BY <2>3 DEF Tables
  <2>7. DOMAIN t = S /\ DOMAIN f = S \ {field}
    BY <1>2, <2>3
  <2>8. m = Append(acc.meminfo, <<field, acc.parsed[field]>>)
    OBVIOUS
  <2> HIDE DEF m
  <2>9. TakeField(acc, field) \in Taking(K)
    BY <2>1, <2>5, <2>6 DEF Taking
  <2> QED
    BY <1>3, <2>1, <2>4, <2>7, <2>8, <2>9
<1>4. CASE field \notin DOMAIN acc.parsed
  BY <1>4, Zenon DEF TakeField
<1> QED
  BY <1>3, <1>4

\* The pairs tell each of some fields of a table once.
Tell(m, P, found) ==
  /\ IsFiniteSet(found)
  /\ Len(m) = Cardinality(found)
  /\ \A i \in 1..Len(m) : \E f \in found : m[i] = <<f, P[f]>>
  /\ \A f \in found : \E i \in 1..Len(m) : m[i] = <<f, P[f]>>

\* What is told, and what is left, when some fields have been asked for.
Taken(K, P, asked, a) ==
  /\ a \in Taking(K)
  /\ DOMAIN a.parsed = DOMAIN P \ asked
  /\ \A k \in DOMAIN a.parsed : a.parsed[k] = P[k]
  /\ Tell(a.meminfo, P, asked \cap DOMAIN P)

LEMMA TakeStep ==
    ASSUME NEW K, NEW P \in Tables(K), NEW asked \in SUBSET K, NEW a, Taken(K, P, asked, a),
           NEW field \in K
    PROVE  Taken(K, P, asked \cup {field}, TakeField(a, field))
<1> USE DEF Taken, Tell
<1> DEFINE b == TakeField(a, field)
           found == (asked \cup {field}) \cap DOMAIN P
           before == asked \cap DOMAIN P
           m == a.meminfo
<1>1. b \in Taking(K)
  BY TakeType
<1>2. m \in Seq(K \X Int)
  BY DEF Taking
<1>3. CASE field \in DOMAIN a.parsed
  <2>1. /\ DOMAIN b.parsed = DOMAIN a.parsed \ {field}
        /\ \A k \in DOMAIN a.parsed \ {field} : b.parsed[k] = a.parsed[k]
        /\ b.meminfo = Append(m, <<field, a.parsed[field]>>)
    BY <1>3, TakeType
  <2>2. field \notin before /\ found = before \cup {field} /\ a.parsed[field] = P[field]
    BY <1>3
  <2>3. IsFiniteSet(found) /\ Cardinality(found) = Cardinality(before) + 1
    <3> HIDE DEF found, before
    <3>1. IsFiniteSet(before)
      BY DEF before
    <3> QED
      BY <2>2, <3>1, FS_AddElement
  <2> DEFINE pair == <<field, P[field]>>
             n == Append(m, pair)
  <2>4. b.meminfo = n /\ pair \in K \X Int
    <3>1. b.meminfo = n
      BY <2>1, <2>2
    <3>2. PICK S \in SUBSET K : P \in [S -> Int]
      BY DEF Tables
    <3>3. field \in S
      BY <1>3, <3>2
    <3> QED
      BY <3>1, <3>2, <3>3
  <2> HIDE DEF b, pair, found, before, m
  <2>5. /\ Len(n) = Len(m) + 1 /\ n[Len(m) + 1] = pair /\ Len(m) \in Nat
        /\ \A i \in 1..Len(m) : n[i] = m[i]
    BY <1>2, <2>4
  <2> HIDE DEF n
  <2>6. /\ Len(m) = Cardinality(before)
        /\ \A i \in 1..Len(m) : \E f \in before : m[i] = <<f, P[f]>>
        /\ \A f \in before : \E i \in 1..Len(m) : m[i] = <<f, P[f]>>
    BY DEF m, before
  <2>7. /\ Len(n) = Cardinality(found)
        /\ \A i \in 1..Len(n) : \E f \in found : n[i] = <<f, P[f]>>
        /\ \A f \in found : \E i \in 1..Len(n) : n[i] = <<f, P[f]>>
    <3>1. Len(n) = Cardinality(found)
      BY <2>3, <2>5, <2>6
    <3>2. ASSUME NEW i \in 1..Len(n) PROVE \E f \in found : n[i] = <<f, P[f]>>
      <4>1. CASE i = Len(m) + 1
        BY <2>2, <2>5, <4>1 DEF pair
      <4>2. CASE i # Len(m) + 1
        <5>1. i \in 1..Len(m)
          BY <2>5, <4>2
        <5> QED
          BY <2>2, <2>5, <2>6, <5>1
      <4> QED
        BY <4>1, <4>2
    <3>3. ASSUME NEW f \in found PROVE \E i \in 1..Len(n) : n[i] = <<f, P[f]>>
      <4>1. CASE f = field
        <5>1. Len(m) + 1 \in 1..Len(n)
          BY <2>5
        <5> QED
          BY <2>5, <4>1, <5>1 DEF pair
      <4>2. CASE f # field
        <5>1. PICK i \in 1..Len(m) : m[i] = <<f, P[f]>>
          BY <2>2, <2>6, <4>2
        <5>2. i \in 1..Len(n)
          BY <2>5
        <5> QED
          BY <2>5, <5>1, <5>2
      <4> QED
        BY <4>1, <4>2
    <3> QED
      BY <3>1, <3>2, <3>3
  <2>8. DOMAIN b.parsed = DOMAIN P \ (asked \cup {field}) /\ \A k \in DOMAIN b.parsed : b.parsed[k] = P[k]
    BY <2>1
  <2> QED
    BY <1>1, <2>3, <2>4, <2>7, <2>8 DEF b, found
<1>4. CASE field \notin DOMAIN a.parsed
  <2>1. b = a
    BY <1>4, TakeType
  <2>2. found = before
    BY <1>4
  <2>3. DOMAIN a.parsed = DOMAIN P \ (asked \cup {field})
    BY <1>4
  <2> HIDE DEF b, found, before
  <2>4. /\ IsFiniteSet(found)
        /\ Len(b.meminfo) = Cardinality(found)
        /\ \A i \in 1..Len(b.meminfo) : \E f \in found : b.meminfo[i] = <<f, P[f]>>
        /\ \A f \in found : \E i \in 1..Len(b.meminfo) : b.meminfo[i] = <<f, P[f]>>
    BY <2>1, <2>2 DEF before
  <2>5. DOMAIN b.parsed = DOMAIN P \ (asked \cup {field}) /\ \A k \in DOMAIN b.parsed : b.parsed[k] = P[k]
    BY <2>1, <2>3
  <2> QED
    BY <1>1, <2>4, <2>5 DEF b, found
<1> QED
  BY <1>3, <1>4

\* Each field that is asked for and that the kernel has is told once, with
\* its value, and nothing else is.
LEMMA ParseMeminfoIs ==
    ASSUME NEW K, NEW lines \in Seq(LinesOf(K)), NEW fields \in Seq(K)
    PROVE  LET P == Parsed(lines)
               r == ParseMeminfo(lines, fields)
               found == {fields[i] : i \in 1..Len(fields)} \cap DOMAIN P
           IN  r \in Seq(K \X Int) /\ Tell(r, P, found)
<1> DEFINE N == Len(fields)
           P == Parsed(lines)
           D == Taking(K)
           d == [parsed |-> P, meminfo |-> <<>>]
           Q(g) == g = [n \in 0..N |-> IF n = 0 THEN d ELSE TakeField(g[n - 1], fields[n])]
           h == CHOOSE g : Q(g)
           asked(n) == {fields[i] : i \in 1..n}
           Good(n, a) == Taken(K, P, asked(n), a)
<1>1. ParseMeminfo(lines, fields) = h[N].meminfo
  BY Zenon DEF ParseMeminfo
<1>2. N \in Nat /\ \A n \in 1..N : fields[n] \in K
  OBVIOUS
<1>3. P \in Tables(K)
  BY ParsedIs
<1> HIDE DEF N, P
<1>4. d \in D /\ Good(0, d)
  <2>1. d \in Taking(K) /\ d.parsed = P /\ d.meminfo = <<>> /\ Len(d.meminfo) = 0
    BY <1>3 DEF Taking
  <2>2. asked(0) = {}
    <3>1. \A i : i \notin 1..0
      OBVIOUS
    <3> QED
      BY <3>1
  <2>3. IsFiniteSet({}) /\ Cardinality({}) = 0
    BY FS_EmptySet
  <2>4. {} \cap DOMAIN P = {} /\ DOMAIN P \ {} = DOMAIN P /\ \A i : i \notin 1..0
    OBVIOUS
  <2> HIDE DEF d, asked
  <2>5. Taken(K, P, {}, d)
    BY <2>1, <2>3, <2>4 DEF Taken, Tell
  <2> QED
    BY <2>1, <2>2, <2>5
<1>5. \A a \in D, n \in 1..N : TakeField(a, fields[n]) \in D
  BY <1>2, TakeType
<1> HIDE DEF D, d, Good
<1>6. \E g : Q(g)
  <2> DEFINE G == [x \in (1..N) \X D |-> TakeField(x[2], fields[x[1]])]
  <2>1. G \in [(1..N) \X D -> D]
    BY <1>5
  <2>2. \A n \in 1..N, t \in D : G[<<n, t>>] = TakeField(t, fields[n])
    OBVIOUS
  <2> HIDE DEF G
  <2>3. PICK f : Unfolds(f, D, d, N, G)
    BY <1>2, <1>4, <2>1, Recursion
  <2>4. ASSUME NEW n \in 0..N PROVE f[n] = IF n = 0 THEN d ELSE TakeField(f[n - 1], fields[n])
    <3>1. CASE n = 0
      BY <2>3, <3>1 DEF Unfolds
    <3>2. CASE n # 0
      <4>1. n \in 1..N /\ n - 1 \in 0..N
        BY <1>2, <3>2
      <4> QED
        BY <2>2, <2>3, <3>2, <4>1 DEF Unfolds
    <3> QED
      BY <3>1, <3>2
  <2>5. Q(f)
    BY <2>3, <2>4 DEF Unfolds
  <2> QED
    BY <2>5
<1> HIDE DEF Q
<1>7. Q(h)
  BY <1>6
<1> DEFINE S == {n \in Nat : n <= N => Good(n, h[n])}
<1> HIDE DEF h
<1>8. N \in S
  <2>1. 0 \in S
    <3>1. h[0] = d
      BY <1>2, <1>7 DEF Q
    <3> QED
      BY <1>4, <3>1
  <2>2. ASSUME NEW n \in Nat, n \in S PROVE n + 1 \in S
    <3> SUFFICES ASSUME n + 1 <= N PROVE Good(n + 1, h[n + 1])
      OBVIOUS
    <3> DEFINE a == h[n]
               field == fields[n + 1]
               b == TakeField(a, field)
    <3>1. n + 1 \in 0..N /\ n + 1 \in 1..N /\ n + 1 # 0 /\ (n + 1) - 1 = n /\ n <= N
      BY <1>2
    <3>2. Good(n, a)
      BY <2>2, <3>1
    <3>3. h[n + 1] = b
      BY <1>7, <3>1 DEF Q
    <3>4. field \in K /\ asked(n) \in SUBSET K
      <4>1. \A i \in 1..n : i \in 1..N
        BY <1>2, <3>1
      <4> QED
        BY <1>2, <3>1, <4>1
    <3>5. asked(n + 1) = asked(n) \cup {field}
      <4>1. \A i : i \in 1..(n + 1) <=> i \in 1..n \/ i = n + 1
        OBVIOUS
      <4> QED
        BY <4>1
    <3> HIDE DEF a, field, asked
    <3>6. Taken(K, P, asked(n) \cup {field}, b)
      BY <1>3, <3>2, <3>4, TakeStep DEF Good
    <3> HIDE DEF b
    <3> QED
      BY <3>3, <3>5, <3>6 DEF Good
  <2> HIDE DEF S
  <2> QED
    BY <1>2, <2>1, <2>2, Induction
<1>9. Good(N, h[N])
  BY <1>2, <1>8
<1>10. h[N].meminfo \in Seq(K \X Int)
  BY <1>9 DEF Good, Taken, Taking
<1> HIDE DEF h
<1> QED
  BY <1>1, <1>9, <1>10, Zenon DEF Good, Taken, N, P

(***************************************************************************)
(* What a report reads.                                                    *)
(***************************************************************************)
LEMMA ProcIs ==
    ASSUME NEW proc \in Procs
    PROVE  /\ Readable(proc.uptime) => proc.uptime.text \in Seq(ProcWords)
           /\ Readable(proc.meminfo) => proc.meminfo.text \in Seq(LinesOf(Seq(STRING)))
BY ProcsAssumption DEF Readable, ProcLines, LinesOf

\* The pairs <<field, value>> that a read of meminfo tells.
LEMMA MemoryIs ==
    ASSUME NEW proc \in Procs, MeminfoFields(cfg) \in Seq(Seq(STRING))
    PROVE  LET m == Memory(Options, proc)
               P == Parsed(proc.meminfo.text)
           IN  /\ m \in Seq(Seq(STRING) \X Int)
               /\ Enabled("meminfo") /\ Readable(proc.meminfo) =>
                    Tell(m, P, ToSet(MeminfoFields(cfg)) \cap DOMAIN P)
               /\ ~(Enabled("meminfo") /\ Readable(proc.meminfo)) => m = <<>>
<1> DEFINE m == Memory(Options, proc)
           P == Parsed(proc.meminfo.text)
           fields == MeminfoFields(cfg)
           lines == proc.meminfo.text
           K == Seq(STRING)
<1>1. m = IF Enabled("meminfo") /\ Readable(proc.meminfo) THEN ParseMeminfo(lines, fields) ELSE <<>>
  BY Zenon DEF Memory, Options
<1> HIDE DEF m, fields
<1>2. CASE Enabled("meminfo") /\ Readable(proc.meminfo)
  <2>1. lines \in Seq(LinesOf(K)) /\ fields \in Seq(K)
    BY <1>2, ProcIs DEF fields
  <2> HIDE DEF lines, K
  <2>2. ToSet(fields) = {fields[i] : i \in 1..Len(fields)}
    BY <2>1 DEF ToSet
  <2>3. m = ParseMeminfo(lines, fields)
    BY <1>1, <1>2, Zenon
  <2>4. m \in Seq(K \X Int) /\ Tell(m, Parsed(lines), ToSet(fields) \cap DOMAIN Parsed(lines))
    BY <2>1, <2>2, <2>3, ParseMeminfoIs
  <2> QED
    BY <1>2, <2>4, Zenon DEF m, fields, lines, K
<1>3. CASE ~(Enabled("meminfo") /\ Readable(proc.meminfo))
  <2>1. m = <<>> /\ <<>> \in Seq(K \X Int)
    BY <1>1, <1>3
  <2> QED
    BY <1>3, <2>1, Zenon DEF m
<1> QED
  BY <1>2, <1>3

LEMMA SecondsIs ==
    ASSUME NEW proc \in Procs
    PROVE  \/ Seconds(Options, proc) = <<>>
           \/ \E n \in Int : Seconds(Options, proc) = <<n>>
<1> DEFINE words == proc.uptime.text
<1>1. \/ Seconds(Options, proc) = <<>>
      \/ Readable(proc.uptime) /\ Seconds(Options, proc) = ParseUptimeSeconds(words)
  BY Zenon DEF Seconds
<1>2. ASSUME Readable(proc.uptime), ParseUptimeSeconds(words) # <<>>
      PROVE  \E n \in Int : ParseUptimeSeconds(words) = <<n>>
  <2>1. words \in Seq(ProcWords)
    BY <1>2, ProcIs
  <2>2. /\ words # <<>> /\ "num" \in DOMAIN Head(words)
        /\ ParseUptimeSeconds(words) = <<Head(words).num>>
    BY <1>2 DEF ParseUptimeSeconds
  <2>3. Head(words) \in ProcWords
    BY <2>1, <2>2
  <2>4. Head(words).num \in Int
    BY <2>2, <2>3 DEF ProcWords
  <2> QED
    BY <2>2, <2>4
<1> QED
  BY <1>1, <1>2

LEMMA ConcatIs ==
    ASSUME NEW m \in Nat, NEW n \in Nat, NEW a, NEW b,
           a = [i \in 1..m |-> a[i]], b = [i \in 1..n |-> b[i]]
    PROVE  /\ Len(a \o b) = m + n /\ DOMAIN (a \o b) = 1..(m + n)
           /\ \A i \in 1..m : (a \o b)[i] = a[i]
           /\ \A i \in 1..n : (a \o b)[m + i] = b[i]
<1> DEFINE X == {a[i] : i \in 1..m} \cup {b[i] : i \in 1..n}
<1>1. \A i \in 1..m : a[i] \in X
  OBVIOUS
<1>2. \A i \in 1..n : b[i] \in X
  OBVIOUS
<1> HIDE DEF X
<1>3. a \in [1..m -> X] /\ b \in [1..n -> X]
  BY <1>1, <1>2
<1>4. a \in Seq(X) /\ b \in Seq(X) /\ Len(a) = m /\ Len(b) = n
  BY <1>3
<1> QED
  BY <1>4

Minuted(proc) == Collect(Options, proc).uptime_minutes

LEMMA MinutesIs ==
    ASSUME NEW proc \in Procs
    PROVE  /\ Seconds(Options, proc) = <<>> => Minuted(proc) = <<>>
           /\ \A n : Seconds(Options, proc) = <<n>> => Minuted(proc) = <<Minutes(n)>>
           /\ Len(Minuted(proc)) \in Nat /\ DOMAIN Minuted(proc) = 1..Len(Minuted(proc))
<1> DEFINE seconds == Seconds(Options, proc)
<1>1. Minuted(proc) = [i \in DOMAIN seconds |-> Minutes(seconds[i])]
  BY Zenon DEF Minuted, Collect
<1>2. seconds = <<>> \/ \E n : seconds = <<n>>
  BY SecondsIs
<1> HIDE DEF seconds
<1>3. seconds = <<>> => Minuted(proc) = <<>>
  BY <1>1
<1>4. ASSUME NEW n, seconds = <<n>> PROVE Minuted(proc) = <<Minutes(n)>>
  <2>1. DOMAIN seconds = 1..1 /\ seconds[1] = n
    BY <1>4
  <2>2. Minuted(proc) = [i \in 1..1 |-> Minutes(n)]
    BY <1>1, <2>1
  <2> QED
    BY <2>2
<1>5. Minuted(proc) = <<>> \/ \E x : Minuted(proc) = <<x>>
  BY <1>2, <1>3, <1>4
<1>6. Len(Minuted(proc)) \in Nat /\ DOMAIN Minuted(proc) = 1..Len(Minuted(proc))
  BY <1>5
<1> QED
  BY <1>3, <1>4, <1>6 DEF seconds

UptimeMessage(minutes) == [topic |-> [text |-> cfg.uptime_topic], payload |-> minutes]
MeminfoMessage(pair) == [topic |-> MeminfoTopic(cfg, pair[1]), payload |-> pair[2]]

\* The plain form has a message for the minutes and one for each pair.
LEMMA PlainIs ==
    ASSUME NEW proc \in Procs, MeminfoFields(cfg) \in Seq(Seq(STRING))
    PROVE  LET u == Minuted(proc)
               m == Memory(Options, proc)
               plain == PlainMessages(Collect(Options, proc))
           IN  /\ Len(u) \in Nat /\ Len(m) \in Nat
               /\ Len(plain) = Len(u) + Len(m) /\ DOMAIN plain = 1..(Len(u) + Len(m))
               /\ \A i \in 1..Len(u) : plain[i] = UptimeMessage(u[i])
               /\ \A i \in 1..Len(m) : plain[Len(u) + i] = MeminfoMessage(m[i])
<1> DEFINE u == Minuted(proc)
           m == Memory(Options, proc)
           plain == PlainMessages(Collect(Options, proc))
           a == [i \in DOMAIN u |-> UptimeMessage(u[i])]
           b == [i \in DOMAIN m |-> MeminfoMessage(m[i])]
           p == Len(u)
           q == Len(m)
<1>1. Collect(Options, proc).meminfo = m
  BY Zenon DEF Collect
<1>2. plain = (IF Enabled("uptime_minutes") THEN a ELSE <<>>) \o (IF Enabled("meminfo") THEN b ELSE <<>>)
  BY <1>1, Zenon DEF PlainMessages, UptimeMessage, MeminfoMessage, Minuted
<1>3. ~Enabled("uptime_minutes") => u = <<>>
  <2>1. Options.want_uptime = Enabled("uptime_minutes")
    BY Zenon DEF Options
  <2>2. ~Enabled("uptime_minutes") => Seconds(Options, proc) = <<>>
    BY <2>1, Zenon DEF Seconds
  <2> QED
    BY <2>2, MinutesIs
<1>4. ~Enabled("meminfo") => m = <<>>
  BY MemoryIs
<1>5. p \in Nat /\ DOMAIN u = 1..p
  BY MinutesIs
<1>6. q \in Nat /\ DOMAIN m = 1..q
  <2>1. m \in Seq(Seq(STRING) \X Int)
    BY MemoryIs
  <2> HIDE DEF m
  <2> QED
    BY <2>1
<1>7. ~Enabled("uptime_minutes") => a = <<>>
  BY <1>3
<1>8. ~Enabled("meminfo") => b = <<>>
  BY <1>4
<1>9. plain = a \o b
  BY <1>2, <1>7, <1>8, Zenon
<1>10. a = [i \in 1..p |-> UptimeMessage(u[i])] /\ b = [i \in 1..q |-> MeminfoMessage(m[i])]
  BY <1>5, <1>6, Zenon
<1> HIDE DEF u, m, plain, a, b, p, q
<1>11. a = [i \in 1..p |-> a[i]] /\ b = [i \in 1..q |-> b[i]]
  BY <1>10
<1>12. /\ Len(plain) = p + q /\ DOMAIN plain = 1..(p + q)
       /\ \A i \in 1..p : plain[i] = a[i]
       /\ \A i \in 1..q : plain[p + i] = b[i]
  BY <1>5, <1>6, <1>9, <1>11, ConcatIs
<1>13. /\ \A i \in 1..p : plain[i] = UptimeMessage(u[i])
       /\ \A i \in 1..q : plain[p + i] = MeminfoMessage(m[i])
  BY <1>10, <1>12
<1> QED
  BY <1>5, <1>6, <1>12, <1>13, Zenon DEF u, m, plain, p, q

(***************************************************************************)
(* The inductive invariant: an accepted configuration serves, and it is    *)
(* the one that the file loads to for as long as the file is known.        *)
(***************************************************************************)
Early == {"editing", "nameless", "rejected"}
Running ==
  {"loaded", "printed", "unprinted", "refused", "dry run", "serving", "reported once", "reported"}

Loaded == Load(file, site.hostname, site, site.explicit)

IInv ==
  /\ phase \in Early \cup Running
  /\ edits \in 0..MaxEdits
  /\ site.hostname \in Seq(STRING)
  /\ phase \in Early => cfg = Rejected
  /\ phase \in Running => Serves(cfg)
  /\ phase = "loaded" => cfg = Loaded

\* The invariant holds at the start and after every step.
LEMMA InitInv == Init => IInv
BY SitesAssumption, EditsAssumption DEF Init, IInv, Early, Running

\* A configuration that is accepted has valid data.
LEMMA LoadedIs ==
    ASSUME phase = "loaded", IInv
    PROVE  LET doc == Document(file, site)
               data == Merge(doc)
           IN  /\ cfg = Settled(data, site.hostname, site, Unknown(doc), Told(data, site))
               /\ cfg.data = data
               /\ Valid(data) /\ Shape(data)
               /\ Source(data, site) # Failed
               /\ Is("map", doc) \/ Is("null", doc)
<1> DEFINE doc == Document(file, site)
           data == Merge(doc)
           c == Settled(data, site.hostname, site, Unknown(doc), Told(data, site))
<1>1. cfg = Loaded /\ cfg # Rejected
  BY Zenon DEF IInv, Serves, Running
<1>2. /\ Loaded = c /\ Valid(data) /\ Source(data, site) # Failed
      /\ Is("map", doc) \/ Is("null", doc)
  BY <1>1, LoadIs DEF Loaded
<1>3. Shape(data)
  BY <1>2, Zenon DEF Valid
<1>4. c.data = data
  <2> HIDE DEF doc, data
  <2> QED
    BY SettledIs
<1> HIDE DEF doc, data, c
<1> QED
  BY <1>1, <1>2, <1>3, <1>4, Zenon DEF doc, data, c

\* No message of a report fails over its topic.
LEMMA TopicsOk ==
    ASSUME NEW proc \in Procs, Serves(cfg)
    PROVE  \A i \in DOMAIN MessagesFor(Collect(Options, proc)).plain :
             Ok(MessagesFor(Collect(Options, proc)).plain[i].topic)
<1> DEFINE u == Minuted(proc)
           m == Memory(Options, proc)
           plain == PlainMessages(Collect(Options, proc))
<1>1. MeminfoFields(cfg) \in Seq(Seq(STRING))
  BY DEF Serves
<1>2. /\ Len(u) \in Nat /\ Len(m) \in Nat
      /\ DOMAIN plain = 1..(Len(u) + Len(m))
      /\ \A i \in 1..Len(u) : plain[i] = UptimeMessage(u[i])
      /\ \A i \in 1..Len(m) : plain[Len(u) + i] = MeminfoMessage(m[i])
  BY <1>1, PlainIs, Zenon
<1>3. \A x : Ok(UptimeMessage(x).topic)
  BY DEF UptimeMessage, Ok, Is
<1>4. ASSUME NEW i \in 1..Len(m) PROVE Ok(MeminfoMessage(m[i]).topic)
  <2>1. Enabled("meminfo") /\ Readable(proc.meminfo)
    <3>1. m # <<>>
      <4> HIDE DEF m
      <4> QED
        OBVIOUS
    <3> QED
      BY <1>1, <3>1, MemoryIs, Zenon
  <2> DEFINE P == Parsed(proc.meminfo.text)
             F == ToSet(MeminfoFields(cfg)) \cap DOMAIN P
  <2>2. Tell(m, P, F)
    BY <1>1, <2>1, MemoryIs
  <2> HIDE DEF P, m
  <2>3. \E f \in F : m[i] = <<f, P[f]>>
    BY <2>2 DEF Tell
  <2>4. m[i][1] \in ToSet(MeminfoFields(cfg))
    BY <2>3
  <2>5. \E j \in DOMAIN MeminfoFields(cfg) : MeminfoFields(cfg)[j] = m[i][1]
    BY <2>4 DEF ToSet
  <2>6. Ok(MeminfoTopic(cfg, m[i][1]))
    BY <2>5 DEF Serves
  <2> QED
    BY <2>6 DEF MeminfoMessage
<1>5. ASSUME NEW i \in DOMAIN plain PROVE Ok(plain[i].topic)
  <2> HIDE DEF u, m, plain
  <2>1. i \in 1..Len(u) \/ (i - Len(u) \in 1..Len(m) /\ i = Len(u) + (i - Len(u)))
    BY <1>2
  <2> QED
    BY <2>1, <1>2, <1>3, <1>4
<1>6. MessagesFor(Collect(Options, proc)).plain = plain
      \/ MessagesFor(Collect(Options, proc)).plain = <<>>
  BY DEF MessagesFor
<1> HIDE DEF plain
<1> QED
  BY <1>5, <1>6

(* The steps.                                                              *)

LEMMA SetInv ==
    ASSUME IInv, NEW entry, NEW count \in 0..MaxEdits, Set(entry, count)
    PROVE  IInv'
BY DEF IInv, Set, Early, Running

LEMMA EditInv == IInv /\ Edit => IInv'
<1>1. ASSUME IInv, edits < MaxEdits, NEW entry, Set(entry, edits + 1) PROVE IInv'
  <2>1. edits + 1 \in 0..MaxEdits
    BY <1>1, EditsAssumption DEF IInv
  <2> QED
    BY <1>1, <2>1, SetInv
<1> QED
  BY <1>1 DEF Edit

LEMMA EditAloneInv == IInv /\ EditAlone => IInv'
<1>1. ASSUME IInv, NEW entry, Set(entry, MaxEdits) PROVE IInv'
  <2>1. MaxEdits \in 0..MaxEdits
    BY EditsAssumption
  <2> QED
    BY <1>1, <2>1, SetInv
<1> QED
  BY <1>1 DEF EditAlone

LEMMA LoadInv == IInv /\ LoadConfig => IInv'
<1> SUFFICES ASSUME IInv, LoadConfig PROVE IInv'
  OBVIOUS
<1>1. cfg' = Loaded /\ UNCHANGED <<file, edits, site>>
  BY DEF LoadConfig, Loaded
<1>2. Loaded' = Loaded
  BY <1>1 DEF Loaded
<1>3. Loaded # Rejected => Serves(Loaded)
  BY LoadServes DEF Loaded, IInv
<1>4. phase' = IF Loaded = Rejected THEN "rejected" ELSE "loaded"
  BY <1>1 DEF LoadConfig
<1>5. CASE Loaded = Rejected
  BY <1>1, <1>4, <1>5 DEF IInv, Early, Running
<1>6. CASE Loaded # Rejected
  BY <1>1, <1>2, <1>3, <1>4, <1>6 DEF IInv, Early, Running
<1> QED
  BY <1>5, <1>6

LEMMA NamelessInv == IInv /\ Nameless => IInv'
BY DEF IInv, Nameless, Step, Early, Running

LEMMA PrintInv == IInv /\ PrintConfig => IInv'
<1> SUFFICES ASSUME IInv, PrintConfig PROVE IInv'
  OBVIOUS
<1>1. /\ phase = "loaded" /\ phase' \in {"printed", "unprinted"}
      /\ UNCHANGED <<file, edits, site, cfg>>
  BY DEF PrintConfig, Step
<1> QED
  BY <1>1 DEF IInv, Early, Running

\* No accessor panics on an accepted configuration.
LEMMA ServeInv ==
    ASSUME IInv, NEW unwraps, unwraps \in {ReporterUnwraps, PublisherUnwraps,
                                          ReporterUnwraps \cup PublisherUnwraps},
           NEW mode, mode \in Running \ {"loaded"}, Serve(unwraps, mode)
    PROVE  IInv'
<1>1. phase = "loaded" /\ Serves(cfg)
  BY DEF Serve, Step, IInv, Running
<1> DEFINE doc == Document(file, site)
           data == Merge(doc)
<1>2. /\ cfg = Settled(data, site.hostname, site, Unknown(doc), Told(data, site))
      /\ cfg.data = data /\ Shape(data)
  BY <1>1, LoadedIs, Zenon
<1> HIDE DEF doc, data
<1>3. ~Panics(cfg.data, unwraps)
  <2>1. ~Panics(data, ReporterUnwraps) /\ ~Panics(data, PublisherUnwraps)
    BY <1>2, NonePanics
  <2>2. ~Panics(data, ReporterUnwraps \cup PublisherUnwraps)
    BY <2>1, PanicsUnion
  <2> QED
    BY <1>2, <2>1, <2>2, Zenon
<1>4. Serves(Served)
  BY <1>1, <1>2, ServedServes
<1>5. phase' = mode /\ cfg' = Served /\ edits' = 0 /\ site' = [hostname |-> site.hostname]
  BY <1>3 DEF Serve, Step
<1>6. phase' \in Early \cup Running /\ phase' \notin Early /\ phase' # "loaded"
  BY <1>5 DEF Early, Running
<1>7. edits' \in 0..MaxEdits /\ site'.hostname \in Seq(STRING)
  BY <1>5, EditsAssumption DEF IInv
<1>8. Serves(cfg')
  BY <1>4, <1>5, Zenon
<1> QED
  BY <1>6, <1>7, <1>8 DEF IInv

LEMMA DryRunInv == IInv /\ DryRun => IInv'
<1>1. "dry run" \in Running \ {"loaded"}
  BY DEF Running
<1> QED
  BY <1>1, ServeInv DEF DryRun

LEMMA StartInv == IInv /\ Start => IInv'
<1> SUFFICES ASSUME IInv, Start PROVE IInv'
  OBVIOUS
<1> DEFINE W == ReporterUnwraps \cup PublisherUnwraps
<1>1. "refused" \in Running \ {"loaded"} /\ "serving" \in Running \ {"loaded"}
  BY DEF Running
<1>2. ~NoTimeout(cfg.data)
  <2>1. phase = "loaded"
    BY DEF Start
  <2>2. Shape(cfg.data)
    BY <2>1, LoadedIs, Zenon
  <2> DEFINE d == cfg.data
  <2> HIDE DEF d
  <2>3. Shape(d)
    BY <2>2 DEF d
  <2>4. ~NoTimeout(d)
    BY <2>3, MqttTimeout
  <2> QED
    BY <2>4 DEF d
<1>3. CASE FilesRead # {} /\ Serve(PublisherUnwraps, "refused")
  BY <1>1, <1>3, ServeInv
<1>4. ASSUME NEW files,
             Serve(W, IF NoTimeout(cfg.data) THEN "panicked"
                      ELSE IF Unusable(files) \/ Timeout(cfg.data) = Float("huge")
                      THEN "refused" ELSE "serving")
      PROVE  IInv'
  <2>1. Serve(W, "refused") \/ Serve(W, "serving")
    BY <1>2, <1>4, Zenon
  <2> QED
    BY <1>1, <2>1, ServeInv
<1> QED
  BY <1>3, <1>4, Zenon DEF Start

LEMMA ReportInv == IInv /\ Report => IInv'
<1> SUFFICES ASSUME IInv, Report PROVE IInv'
  OBVIOUS
<1> DEFINE Fails(proc) ==
             \E i \in DOMAIN MessagesFor(Collect(Options, proc)).plain :
               ~Ok(MessagesFor(Collect(Options, proc)).plain[i].topic)
<1>1. PICK proc \in Procs :
        /\ \/ phase = "dry run" /\ phase' = IF Fails(proc) THEN "unreported" ELSE "reported once"
           \/ phase = "serving" /\ phase' = IF Fails(proc) THEN "unreported" ELSE "reported"
        /\ UNCHANGED <<file, edits, site, cfg>>
  BY Zenon DEF Report
<1>2. Serves(cfg)
  BY <1>1 DEF IInv, Running
<1>3. ~Fails(proc)
  BY <1>2, TopicsOk
<1>4. phase' \in {"reported once", "reported"} /\ UNCHANGED <<file, edits, site, cfg>>
  BY <1>1, <1>3
<1> QED
  BY <1>2, <1>4 DEF IInv, Early, Running

LEMMA WaitInv == IInv /\ Wait => IInv'
BY DEF IInv, Wait, Step, Early, Running

LEMMA NextInv == IInv /\ [Next]_vars => IInv'
<1>1. IInv /\ UNCHANGED vars => IInv'
  BY DEF IInv, vars, Loaded
<1> QED
  BY <1>1, EditInv, EditAloneInv, LoadInv, NamelessInv, PrintInv, DryRunInv, StartInv,
     ReportInv, WaitInv DEF Next

\* Every phase is one the program can be in, and the topics of an accepted
\* configuration are ones a broker takes (TypeOK of Reports).
LEMMA TypeFollows == IInv => TypeOK
<1> SUFFICES ASSUME IInv PROVE TypeOK
  OBVIOUS
<1>1. /\ phase \in {"editing", "nameless", "rejected", "loaded", "refused", "panicked",
                    "dry run", "serving", "reported once", "reported", "unreported",
                    "printed", "unprinted"}
      /\ edits \in 0..MaxEdits
      /\ (cfg = Rejected) <=> (phase \in {"editing", "nameless", "rejected"})
  BY DEF IInv, Early, Running, Serves
<1>2. cfg # Rejected => Serves(cfg)
  BY DEF IInv
<1>3. ASSUME phase = "loaded" PROVE Publishable(cfg.status_topic)
  <2>1. cfg = Loaded /\ Loaded # Rejected /\ site.hostname \in Seq(STRING)
    BY <1>3, Zenon DEF IInv, Serves, Running
  <2> QED
    BY <2>1, LoadServes DEF Loaded
<1> QED
  BY <1>1, <1>2, <1>3 DEF TypeOK, Serves

\* The ranges of the knobs that AcceptedServes is about.
LEMMA Ranges ==
    /\ IntRange(<<"mqtt", "reconnect_min_delay_secs">>) = 1..MaxInt
    /\ IntRange(<<"mqtt", "reconnect_max_delay_secs">>) = 1..MaxInt
    /\ IntRange(<<"report", "interval_secs">>) = 1..MaxInt
    /\ IntRange(<<"mqtt", "qos">>) = 0..2
BY DEF IntRange

\* What was accepted is in the ranges that the rest of the program assumes.
LEMMA ServesFollows == IInv => AcceptedServes
<1> SUFFICES ASSUME IInv PROVE AcceptedServes
  OBVIOUS
<1>1. phase \notin {"panicked", "unreported"}
  BY DEF IInv, Early, Running
<1>2. ASSUME phase = "loaded"
      PROVE  LET secs(section, knob) == Dig(cfg.data, <<section, knob>>).int
             IN  /\ 1 <= secs("mqtt", "reconnect_min_delay_secs")
                 /\ secs("mqtt", "reconnect_min_delay_secs")
                      <= secs("mqtt", "reconnect_max_delay_secs")
                 /\ 1 <= secs("report", "interval_secs")
                 /\ secs("mqtt", "qos") \in 0..2
  <2> DEFINE data == cfg.data
             low == Dig(data, <<"mqtt", "reconnect_min_delay_secs">>)
             high == Dig(data, <<"mqtt", "reconnect_max_delay_secs">>)
             every == Dig(data, <<"report", "interval_secs">>)
             qos == Dig(data, <<"mqtt", "qos">>)
  <2>1. Shape(data) /\ Valid(data)
    BY <1>2, LoadedIs, Zenon
  <2>2. Number(low) <= Number(high)
    BY <2>1, Zenon DEF Valid, DelaysOrdered
  <2> HIDE DEF data
  <2>3. Is("int", low) /\ low.int \in IntRange(<<"mqtt", "reconnect_min_delay_secs">>)
    BY <2>1, MqttInts
  <2>4. Is("int", high) /\ high.int \in IntRange(<<"mqtt", "reconnect_max_delay_secs">>)
    BY <2>1, MqttInts
  <2>5. Is("int", qos) /\ qos.int \in IntRange(<<"mqtt", "qos">>)
    BY <2>1, MqttInts
  <2>6. every.int \in IntRange(<<"report", "interval_secs">>)
    BY <2>1, ReportKinds
  <2> HIDE DEF low, high, every, qos
  <2>7. Number(low) = low.int /\ Number(high) = high.int
    BY <2>3, <2>4 DEF Number
  <2>8. 1 <= low.int /\ low.int <= high.int /\ 1 <= every.int /\ qos.int \in 0..2
    BY <2>2, <2>3, <2>4, <2>5, <2>6, <2>7, Ranges, MaxIntAssumption
  <2> QED
    BY <2>8 DEF low, high, every, qos, data
<1> QED
  BY <1>1, <1>2, Zenon DEF AcceptedServes

\* The secrets of the mqtt section are absent or texts.
LEMMA SecretKinds ==
    ASSUME NEW data, Shape(data), NEW k \in {"password", "password_file", "password_env"}
    PROVE  LET v == At(At(data, "mqtt"), k) IN Is("null", v) \/ Is("str", v)
<1> DEFINE v == At(At(data, "mqtt"), k)
<1>1. Dig(data, <<"mqtt", k>>) = v
  BY DigTwo
<1>2. k \in DOMAIN MqttDefaults.map
  BY MqttKeys
<1>3. CASE k \in {"password", "password_file"}
  <2>1. At(MqttDefaults, k) = Null
    BY <1>3, MqttValues
  <2>2. ~Is("map", At(MqttDefaults, k))
    BY <2>1, Kinds
  <2>3. LeafShape(v, Null, <<"mqtt", k>>)
    BY <1>1, <1>2, <2>1, <2>2, MqttShape
  <2> QED
    BY <2>3, NullShape DEF Textual
<1>4. CASE k = "password_env"
  <2>1. At(MqttDefaults, k) = Str(<<"VARIABLE">>)
    BY <1>4, MqttValues
  <2>2. ~Is("map", At(MqttDefaults, k))
    BY <2>1, Kinds
  <2>3. LeafShape(v, Str(<<"VARIABLE">>), <<"mqtt", k>>)
    BY <1>1, <1>2, <2>1, <2>2, MqttShape
  <2> QED
    BY <2>3, StrShape DEF Textual
<1> QED
  BY <1>3, <1>4

\* Where resolve finds the password, and what it says of a password file.
LEMMA SourceIs ==
    ASSUME NEW mqtt, NEW st, Resolve(mqtt, st) # Failed
    PROVE  LET s == Resolve(mqtt, st)
           IN  /\ s.password = "file" <=> Is("str", At(mqtt, "password_file"))
               /\ s.password \in {"file", "env", "inline", "none"}
               /\ s.password = "inline" =>
                    ~(Is("str", At(mqtt, "password_env")) /\ st.variable = "set")
               /\ s.password = "none" => ~Is("str", At(mqtt, "password"))
               /\ s.password = "inline" => "inline" \in s.warnings
               /\ s.password = "file" /\ st.secret = "open" => "secret mode" \in s.warnings
<1> DEFINE filename == At(mqtt, "password_file")
           env == At(mqtt, "password_env")
           inline == At(mqtt, "password")
           s == Resolve(mqtt, st)
<1>1. CASE Is("str", filename)
  <2> DEFINE told == IF st.secret = "open" THEN {"secret mode"} ELSE {}
  <2>1. s = Failed \/ s = [password |-> "file", warnings |-> told]
    BY <1>1 DEF Resolve
  <2> HIDE DEF s, filename, env, inline, told
  <2>2. s # Failed
    BY DEF s
  <2>3. s.password = "file" /\ s.warnings = told
    BY <2>1, <2>2
  <2>4. s.password = "file" /\ (st.secret = "open" => "secret mode" \in s.warnings)
    BY <2>3 DEF told
  <2> QED
    BY <1>1, <2>4 DEF s, filename, env, inline
<1>2. CASE ~Is("str", filename) /\ Is("str", env) /\ st.variable = "set"
  <2>1. s = [password |-> "env", warnings |-> {}]
    BY <1>2 DEF Resolve
  <2> QED
    BY <1>2, <2>1
<1>3. CASE ~Is("str", filename) /\ ~(Is("str", env) /\ st.variable = "set")
  <2>1. s = IF Is("str", inline)
            THEN [password |-> "inline", warnings |-> {"inline"}]
            ELSE [password |-> "none", warnings |-> {}]
    BY <1>3 DEF Resolve
  <2> QED
    BY <1>3, <2>1
<1> QED
  BY <1>1, <1>2, <1>3

\* The password in use is the one the knobs say, and its readers are warned of.
LEMMA SecretsFollow == IInv => SecretsGuarded
<1> SUFFICES ASSUME IInv, phase = "loaded" PROVE SecretsGuarded
  BY DEF SecretsGuarded
<1> DEFINE doc == Document(file, site)
           data == Merge(doc)
           mqtt == At(data, "mqtt")
           s == Resolve(mqtt, site)
           w == Told(data, site)
           off == Dig(data, <<"mqtt", "tls", "enabled">>) = No
<1>1. /\ cfg = Settled(data, site.hostname, site, Unknown(doc), w)
      /\ Shape(data) /\ Source(data, site) # Failed
  BY LoadedIs, Zenon
<1> HIDE DEF doc, data
<1>2. cfg.data = data /\ cfg.password = s.password /\ cfg.warnings = w
  BY <1>1, SettledIs DEF Source
<1>3. s # Failed
  BY <1>1 DEF Source
<1>4. w = Usual(data, site)
          \cup (IF site.config = "open" /\ "inline" \in Usual(data, site)
                THEN {"config mode"} ELSE {})
          \cup (IF site.config = "absent" THEN {"no file"} ELSE {})
  BY Zenon DEF Told
<1>5. Usual(data, site) = s.warnings \cup PasswordWarnings(data, s.password)
  BY Zenon DEF Usual, Source
<1>6. off /\ s.password # "none" => "clear text" \in PasswordWarnings(data, s.password)
  <2>1. At(Dig(data, <<"mqtt", "tls">>), "enabled") = Dig(data, <<"mqtt", "tls", "enabled">>)
    BY DigTwo, DigThree
  <2> DEFINE tls == Dig(data, <<"mqtt", "tls">>)
             user == Is("str", Dig(data, <<"mqtt", "username">>)) /\ s.password = "none"
             insecure == At(tls, "enabled") = Yes /\ At(tls, "insecure") = Yes
  <2>2. PasswordWarnings(data, s.password) =
          (IF user THEN {"no password"} ELSE {})
          \cup (IF insecure THEN {"insecure"} ELSE {})
          \cup (IF At(tls, "enabled") = No /\ s.password # "none" THEN {"clear text"} ELSE {})
    BY Zenon DEF PasswordWarnings
  <2> HIDE DEF user, insecure
  <2> QED
    BY <2>1, <2>2
<1>7. \A k \in {"password", "password_env"} : Is("null", At(mqtt, k)) \/ Is("str", At(mqtt, k))
  BY <1>1, SecretKinds
<1> HIDE DEF mqtt, s, w, off
<1>8. /\ s.password = "file" <=> Is("str", At(mqtt, "password_file"))
      /\ s.password = "inline" => site.variable # "set" \/ ~Is("str", At(mqtt, "password_env"))
      /\ s.password = "none" => ~Is("str", At(mqtt, "password"))
      /\ s.password = "inline" => "inline" \in s.warnings
      /\ s.password = "file" /\ site.secret = "open" => "secret mode" \in s.warnings
  BY <1>3, SourceIs DEF s
<1>9. /\ Is("str", At(mqtt, "password_file")) <=> cfg.password = "file"
      /\ cfg.password = "inline" => site.variable # "set" \/ Is("null", At(mqtt, "password_env"))
      /\ cfg.password = "none" => Is("null", At(mqtt, "password"))
  BY <1>2, <1>7, <1>8
<1>10. Readers \subseteq cfg.warnings
  <2>1. s.warnings \subseteq w /\ PasswordWarnings(data, s.password) \subseteq w
    BY <1>4, <1>5
  <2>2. site.config = "open" /\ "inline" \in s.warnings => "config mode" \in w
    BY <1>4, <1>5
  <2>3. Readers = (IF s.password = "file" /\ site.secret = "open" THEN {"secret mode"} ELSE {})
                  \cup (IF s.password = "inline" THEN {"inline"} ELSE {})
                  \cup (IF s.password = "inline" /\ site.config = "open"
                        THEN {"config mode"} ELSE {})
                  \cup (IF s.password # "none" /\ off THEN {"clear text"} ELSE {})
    BY <1>2, Zenon DEF Readers, off
  <2> QED
    BY <1>2, <1>6, <1>8, <2>1, <2>2, <2>3
<1>11. At(cfg.data, "mqtt") = mqtt
  BY <1>2 DEF mqtt
<1> QED
  BY <1>9, <1>10, <1>11 DEF SecretsGuarded

(***************************************************************************)
(* pem_blocks: what is taken is what lies in a block.                      *)
(***************************************************************************)
Marks == [mark : {"begin", "end", "text"}, kind : STRING]
Scanned(M) == [open : BOOLEAN, taken : Seq(M)]

\* One mark of a PEM file: taken when a block is open or opens.
LEMMA TakeIs ==
    ASSUME NEW M, NEW acc \in Scanned(M), NEW mark \in M, NEW kind
    PROVE  LET next == Take(acc, mark, kind)
           IN  /\ next \in Scanned(M)
               /\ acc.open \/ mark = Begin(kind) =>
                    (next.open <=> mark # End(kind)) /\ next.taken = Append(acc.taken, mark)
               /\ ~(acc.open \/ mark = Begin(kind)) => next = acc
<1> DEFINE on == mark # End(kind)
           next == Take(acc, mark, kind)
           t == Append(acc.taken, mark)
<1>1. on \in BOOLEAN
  BY Zenon
<1>2. t \in Seq(M)
  BY DEF Scanned
<1>3. CASE acc.open \/ mark = Begin(kind)
  <2>1. next = [open |-> on, taken |-> t]
    BY <1>3, Zenon DEF Take
  <2> HIDE DEF next, t
  <2>2. next \in Scanned(M)
    BY <1>1, <1>2, <2>1, Zenon DEF Scanned
  <2>3. next.open = on /\ next.taken = t
    BY <2>1, Zenon
  <2> QED
    BY <1>3, <2>2, <2>3, Zenon DEF next, t
<1>4. CASE ~(acc.open \/ mark = Begin(kind))
  BY <1>4, Zenon DEF Take
<1> QED
  BY <1>3, <1>4, Zenon

\* The marks of the first n that lie in a block, and whether one is open.
Upto(pem, kind, n) == Inside(pem, kind) \cap 1..n
Within(pem, kind, n) ==
  \E b \in 1..n : pem[b] = Begin(kind) /\ \A j \in b..n : pem[j] # End(kind)

\* The marks of the first n that lie in a block, one mark at a time.
LEMMA UptoIs ==
    ASSUME NEW M, NEW pem \in Seq(M), NEW kind
    PROVE  /\ Upto(pem, kind, 0) = {}
           /\ Inside(pem, kind) = Upto(pem, kind, Len(pem))
           /\ ~Within(pem, kind, 0)
<1>1. Inside(pem, kind) \subseteq 1..Len(pem)
  BY DEF Inside
<1>2. \A i : i \notin 1..0
  OBVIOUS
<1> QED
  BY <1>1, <1>2 DEF Upto, Within

LEMMA UptoFinite ==
    ASSUME NEW pem, NEW kind, NEW n \in Nat, NEW i \in Upto(pem, kind, n)
    PROVE  /\ i \in 1..n
           /\ Cardinality(Upto(pem, kind, i)) \in 1..Cardinality(Upto(pem, kind, n))
<1> DEFINE small == Upto(pem, kind, i)
           large == Upto(pem, kind, n)
<1>1. i \in 1..n /\ i \in small /\ small \subseteq large
  BY DEF Upto
<1>2. IsFiniteSet(1..n) /\ large \subseteq 1..n
  BY FS_Interval DEF Upto
<1> HIDE DEF small, large
<1>3. IsFiniteSet(large)
  BY <1>2, FS_Subset
<1>4. IsFiniteSet(small) /\ Cardinality(small) <= Cardinality(large)
  BY <1>1, <1>3, FS_Subset
<1>5. Cardinality(large) \in Nat /\ Cardinality(small) \in Nat /\ Cardinality(small) # 0
  BY <1>1, <1>3, <1>4, FS_CardinalityType, FS_EmptySet
<1> QED
  BY <1>1, <1>4, <1>5 DEF small, large

LEMMA UptoNext ==
    ASSUME NEW M, NEW pem \in Seq(M), NEW kind, NEW n \in Nat, n + 1 <= Len(pem)
    PROVE  LET in == Within(pem, kind, n) \/ pem[n + 1] = Begin(kind)
               before == Upto(pem, kind, n)
               after == Upto(pem, kind, n + 1)
           IN  /\ in => /\ after = before \cup {n + 1}
                        /\ Cardinality(after) = Cardinality(before) + 1
               /\ ~in => after = before
               /\ Within(pem, kind, n + 1) <=> in /\ pem[n + 1] # End(kind)
               /\ Cardinality(before) \in Nat
<1> DEFINE in == Within(pem, kind, n) \/ pem[n + 1] = Begin(kind)
           before == Upto(pem, kind, n)
           after == Upto(pem, kind, n + 1)
<1>1. n + 1 \in DOMAIN pem
  OBVIOUS
<1>2. n + 1 \in Inside(pem, kind) <=> in
  <2>1. ASSUME in PROVE n + 1 \in Inside(pem, kind)
    <3>1. CASE pem[n + 1] = Begin(kind)
      <4>1. n + 1 \in 1..(n + 1) /\ \A j : j \notin (n + 1)..((n + 1) - 1)
        OBVIOUS
      <4> QED
        BY <1>1, <3>1, <4>1 DEF Inside
    <3>2. CASE Within(pem, kind, n)
      <4>1. PICK b \in 1..n : pem[b] = Begin(kind) /\ \A j \in b..n : pem[j] # End(kind)
        BY <3>2 DEF Within
      <4>2. b \in 1..(n + 1) /\ (n + 1) - 1 = n
        OBVIOUS
      <4> QED
        BY <1>1, <4>1, <4>2 DEF Inside
    <3> QED
      BY <2>1, <3>1, <3>2
  <2>2. ASSUME n + 1 \in Inside(pem, kind) PROVE in
    <3>1. PICK b \in 1..(n + 1) : /\ pem[b] = Begin(kind)
                                  /\ \A j \in b..((n + 1) - 1) : pem[j] # End(kind)
      BY <2>2 DEF Inside
    <3>2. CASE b = n + 1
      BY <3>1, <3>2
    <3>3. CASE b # n + 1
      <4>1. b \in 1..n /\ (n + 1) - 1 = n
        BY <3>3
      <4> QED
        BY <3>1, <4>1 DEF Within
    <3> QED
      BY <3>2, <3>3
  <2> QED
    BY <2>1, <2>2
<1>3. Begin(kind) # End(kind)
  <2>1. Begin(kind).mark = "begin" /\ End(kind).mark = "end"
    BY DEF Begin, End
  <2> QED
    BY <2>1
<1>4. Within(pem, kind, n + 1) <=> in /\ pem[n + 1] # End(kind)
  <2>1. ASSUME Within(pem, kind, n + 1) PROVE in /\ pem[n + 1] # End(kind)
    <3>1. PICK b \in 1..(n + 1) : pem[b] = Begin(kind) /\ \A j \in b..(n + 1) : pem[j] # End(kind)
      BY <2>1 DEF Within
    <3>2. n + 1 \in b..(n + 1) /\ \A j \in b..n : j \in b..(n + 1)
      OBVIOUS
    <3>3. b = n + 1 \/ b \in 1..n
      OBVIOUS
    <3> QED
      BY <3>1, <3>2, <3>3 DEF Within
  <2>2. ASSUME in, pem[n + 1] # End(kind) PROVE Within(pem, kind, n + 1)
    <3>1. CASE pem[n + 1] = Begin(kind)
      <4>1. n + 1 \in 1..(n + 1) /\ \A j \in (n + 1)..(n + 1) : j = n + 1
        OBVIOUS
      <4> QED
        BY <1>3, <3>1, <4>1 DEF Within
    <3>2. CASE Within(pem, kind, n)
      <4>1. PICK b \in 1..n : pem[b] = Begin(kind) /\ \A j \in b..n : pem[j] # End(kind)
        BY <3>2 DEF Within
      <4>2. b \in 1..(n + 1) /\ \A j \in b..(n + 1) : j = n + 1 \/ j \in b..n
        OBVIOUS
      <4> QED
        BY <2>2, <4>1, <4>2 DEF Within
    <3> QED
      BY <2>2, <3>1, <3>2
  <2> QED
    BY <2>1, <2>2
<1>5. \A i : i \in 1..(n + 1) <=> i \in 1..n \/ i = n + 1
  OBVIOUS
<1>6. /\ in => after = before \cup {n + 1}
      /\ ~in => after = before
  BY <1>2, <1>5 DEF Upto
<1>7. IsFiniteSet(before) /\ n + 1 \notin before
  <2>1. IsFiniteSet(1..n) /\ before \subseteq 1..n /\ n + 1 \notin 1..n
    BY FS_Interval DEF Upto
  <2> HIDE DEF before
  <2> QED
    BY <2>1, FS_Subset
<1> HIDE DEF in, before, after
<1>8. /\ in => Cardinality(after) = Cardinality(before) + 1
      /\ Cardinality(before) \in Nat
  BY <1>6, <1>7, FS_AddElement, FS_CardinalityType
<1> QED
  BY <1>4, <1>6, <1>8 DEF in, before, after

\* What the loop has after the first n marks.
Cut(M, pem, kind, n, acc) ==
  /\ acc \in Scanned(M)
  /\ acc.open <=> Within(pem, kind, n)
  /\ Len(acc.taken) = Cardinality(Upto(pem, kind, n))
  /\ \A i \in Upto(pem, kind, n) : acc.taken[Cardinality(Upto(pem, kind, i))] = pem[i]

\* What was taken of n marks is what lies in a block among them, in its order.
LEMMA CutStep ==
    ASSUME NEW M, NEW pem \in Seq(M), NEW kind, NEW n \in Nat, n + 1 <= Len(pem),
           NEW acc, Cut(M, pem, kind, n, acc)
    PROVE  Cut(M, pem, kind, n + 1, Take(acc, pem[n + 1], kind))
<1> DEFINE mark == pem[n + 1]
           next == Take(acc, mark, kind)
           in == Within(pem, kind, n) \/ mark = Begin(kind)
           before == Upto(pem, kind, n)
           after == Upto(pem, kind, n + 1)
           rank(i) == Cardinality(Upto(pem, kind, i))
           t == acc.taken
<1>1. /\ acc \in Scanned(M) /\ (acc.open <=> Within(pem, kind, n))
      /\ Len(t) = Cardinality(before)
      /\ \A i \in before : t[rank(i)] = pem[i]
  BY DEF Cut
<1>2. mark \in M
  OBVIOUS
<1>3. /\ in => after = before \cup {n + 1} /\ Cardinality(after) = Cardinality(before) + 1
      /\ ~in => after = before
      /\ Within(pem, kind, n + 1) <=> in /\ mark # End(kind)
      /\ Cardinality(before) \in Nat
  BY UptoNext
<1> HIDE DEF mark
<1>4. /\ next \in Scanned(M)
      /\ acc.open \/ mark = Begin(kind) =>
           (next.open <=> mark # End(kind)) /\ next.taken = Append(t, mark)
      /\ ~(acc.open \/ mark = Begin(kind)) => next = acc
  BY <1>1, <1>2, TakeIs
<1>5. t \in Seq(M)
  BY <1>1 DEF Scanned
<1>6. \A i \in before : i \in 1..n /\ rank(i) \in 1..Cardinality(before)
  BY UptoFinite
<1>7. in <=> acc.open \/ mark = Begin(kind)
  BY <1>1, Zenon
<1> HIDE DEF next, in, before, after, t, rank
<1>8. CASE in
  <2>1. /\ next.taken = Append(t, mark) /\ (next.open <=> mark # End(kind))
        /\ after = before \cup {n + 1} /\ Cardinality(after) = Cardinality(before) + 1
    BY <1>3, <1>4, <1>7, <1>8
  <2>2. Len(next.taken) = Cardinality(after)
    BY <1>1, <1>2, <1>5, <2>1
  <2>3. rank(n + 1) = Cardinality(after)
    BY DEF rank, after
  <2>4. ASSUME NEW i \in after PROVE next.taken[rank(i)] = pem[i]
    <3>1. CASE i = n + 1
      <4>1. rank(i) = Len(t) + 1
        BY <1>1, <2>1, <2>3, <3>1
      <4> QED
        BY <1>2, <1>5, <2>1, <3>1, <4>1 DEF mark
    <3>2. CASE i # n + 1
      <4>1. i \in before
        BY <2>1, <3>2
      <4>2. rank(i) \in 1..Len(t) /\ t[rank(i)] = pem[i]
        BY <1>1, <1>6, <4>1
      <4> QED
        BY <1>2, <1>5, <2>1, <4>2
    <3> QED
      BY <3>1, <3>2
  <2>5. next.open <=> Within(pem, kind, n + 1)
    BY <1>3, <1>8, <2>1, Zenon
  <2> QED
    BY <1>4, <2>2, <2>4, <2>5, Zenon DEF Cut, next, after, rank, mark
<1>9. CASE ~in
  <2>1. next = acc /\ after = before /\ ~Within(pem, kind, n + 1) /\ ~acc.open
    BY <1>3, <1>4, <1>7, <1>9, Zenon
  <2>2. /\ Len(next.taken) = Cardinality(after)
        /\ \A i \in after : next.taken[rank(i)] = pem[i]
        /\ next.open <=> Within(pem, kind, n + 1)
    BY <1>1, <2>1, Zenon DEF t
  <2> QED
    BY <1>4, <2>2, Zenon DEF Cut, next, after, rank, mark
<1> QED
  BY <1>8, <1>9

\* The marks that pem_blocks takes are the ones inside, in their order.
LEMMA PemBlocksIs ==
    ASSUME NEW M, NEW pem \in Seq(M), NEW kind, PemBlocks(pem, kind) # Invalid
    PROVE  Holds(PemBlocks(pem, kind), pem, kind)
<1> DEFINE N == Len(pem)
           D == Scanned(M)
           d == [open |-> FALSE, taken |-> <<>>]
           Q(g) == g = [n \in 0..N |-> IF n = 0 THEN d ELSE Take(g[n - 1], pem[n], kind)]
           h == CHOOSE g : Q(g)
           Good(n, a) == Cut(M, pem, kind, n, a)
<1>1. PemBlocks(pem, kind) = IF h[N].open \/ h[N].taken = <<>> THEN Invalid ELSE h[N].taken
  BY Zenon DEF PemBlocks
<1>2. N \in Nat /\ \A n \in 1..N : pem[n] \in M
  OBVIOUS
<1> HIDE DEF N
<1>4. d \in D /\ Good(0, d)
  <2>1. d.open = FALSE /\ d.taken = <<>>
    BY Zenon
  <2>2. d \in Scanned(M)
    <3>1. <<>> \in Seq(M) /\ FALSE \in BOOLEAN
      OBVIOUS
    <3> QED
      BY <3>1, Zenon DEF Scanned
  <2>3. Upto(pem, kind, 0) = {} /\ ~Within(pem, kind, 0)
    BY UptoIs
  <2>4. Cardinality({}) = 0 /\ Len(<<>>) = 0
    BY FS_EmptySet
  <2>5. ~d.open
    BY <2>1, Zenon
  <2> HIDE DEF d
  <2>6. Len(d.taken) = Cardinality(Upto(pem, kind, 0)) /\ \A i : i \notin Upto(pem, kind, 0)
    BY <2>1, <2>3, <2>4
  <2> QED
    BY <2>2, <2>3, <2>5, <2>6, Zenon DEF Cut
<1>5. \A a \in D, n \in 1..N : Take(a, pem[n], kind) \in D
  BY <1>2, TakeIs
<1> HIDE DEF D, d, Good
<1>6. \E g : Q(g)
  <2> DEFINE G == [x \in (1..N) \X D |-> Take(x[2], pem[x[1]], kind)]
  <2>1. G \in [(1..N) \X D -> D]
    BY <1>5
  <2>2. \A n \in 1..N, t \in D : G[<<n, t>>] = Take(t, pem[n], kind)
    OBVIOUS
  <2> HIDE DEF G
  <2>3. PICK f : Unfolds(f, D, d, N, G)
    BY <1>2, <1>4, <2>1, Recursion
  <2>4. ASSUME NEW n \in 0..N PROVE f[n] = IF n = 0 THEN d ELSE Take(f[n - 1], pem[n], kind)
    <3>1. CASE n = 0
      BY <2>3, <3>1 DEF Unfolds
    <3>2. CASE n # 0
      <4>1. n \in 1..N /\ n - 1 \in 0..N
        BY <1>2, <3>2
      <4> QED
        BY <2>2, <2>3, <3>2, <4>1 DEF Unfolds
    <3> QED
      BY <3>1, <3>2
  <2>5. Q(f)
    BY <2>3, <2>4 DEF Unfolds
  <2> QED
    BY <2>5
<1> HIDE DEF Q
<1>7. Q(h)
  BY <1>6
<1> DEFINE S == {n \in Nat : n <= N => Good(n, h[n])}
<1> HIDE DEF h
<1>8. N \in S
  <2>1. 0 \in S
    <3>1. h[0] = d
      BY <1>2, <1>7 DEF Q
    <3> QED
      BY <1>4, <3>1
  <2>2. ASSUME NEW n \in Nat, n \in S PROVE n + 1 \in S
    <3> SUFFICES ASSUME n + 1 <= N PROVE Good(n + 1, h[n + 1])
      OBVIOUS
    <3> DEFINE a == h[n]
    <3>1. n + 1 \in 0..N /\ n + 1 # 0 /\ (n + 1) - 1 = n /\ n <= N
      BY <1>2
    <3>2. Good(n, a)
      BY <2>2, <3>1
    <3>3. h[n + 1] = Take(a, pem[n + 1], kind)
      BY <1>7, <3>1 DEF Q
    <3> HIDE DEF a
    <3>4. n + 1 <= Len(pem)
      BY DEF N
    <3> QED
      BY <3>2, <3>3, <3>4, CutStep DEF Good
  <2> HIDE DEF S
  <2> QED
    BY <1>2, <2>1, <2>2, Induction
<1>9. Good(N, h[N])
  BY <1>2, <1>8
<1> HIDE DEF h
<1>10. PemBlocks(pem, kind) = h[N].taken
  BY <1>1
<1>11. /\ Len(h[N].taken) = Cardinality(Upto(pem, kind, N))
       /\ \A i \in Upto(pem, kind, N) : h[N].taken[Cardinality(Upto(pem, kind, i))] = pem[i]
  BY <1>9 DEF Good, Cut
<1>12. Upto(pem, kind, N) = Inside(pem, kind)
  BY UptoIs DEF N
<1> QED
  BY <1>10, <1>11, <1>12, Zenon DEF Holds, Upto

\* The identity of a bundle of files is whole.
LEMMA IdentityIs ==
    ASSUME NEW M, NEW certfile \in Seq(M), NEW keyfile \in Seq(M),
           Identity(certfile, keyfile) # Invalid
    PROVE  /\ Holds(Identity(certfile, keyfile).chain, certfile, "CERTIFICATE")
           /\ Holds(Identity(certfile, keyfile).key, keyfile, "PRIVATE KEY")
<1> DEFINE chain == PemBlocks(certfile, "CERTIFICATE")
           key == PemBlocks(keyfile, "PRIVATE KEY")
<1>1. Identity(certfile, keyfile) = IF chain = Invalid \/ key = Invalid THEN Invalid
                                    ELSE [chain |-> chain, key |-> key]
  BY Zenon DEF Identity
<1> HIDE DEF chain, key
<1>2. /\ chain # Invalid /\ key # Invalid
      /\ Identity(certfile, keyfile).chain = chain /\ Identity(certfile, keyfile).key = key
  BY <1>1
<1>3. Holds(chain, certfile, "CERTIFICATE") /\ Holds(key, keyfile, "PRIVATE KEY")
  BY <1>2, PemBlocksIs DEF chain, key
<1> QED
  BY <1>2, <1>3

\* A step that does not come from the start of the service or from a wait
\* leads to another phase.
LEMMA IdentityFollows == IInv /\ IdentityWhole /\ [Next]_vars => IdentityWhole'
<1> SUFFICES ASSUME IdentityWhole, [Next]_vars, phase' = "serving", "identity" \in DOMAIN out'
             PROVE  /\ Holds(out'.identity.chain, out'.files.certfile, "CERTIFICATE")
                    /\ Holds(out'.identity.key, out'.files.keyfile, "PRIVATE KEY")
  BY DEF IdentityWhole
<1>1. out' # Nothing
  BY DEF Nothing
<1>2. CASE UNCHANGED vars
  BY <1>2, Zenon DEF vars, IdentityWhole
<1>3. CASE Edit \/ EditAlone
  BY <1>3 DEF Edit, EditAlone, Set
<1>4. CASE LoadConfig
  BY <1>4 DEF LoadConfig
<1>5. CASE Nameless \/ PrintConfig \/ DryRun
  BY <1>5 DEF Nameless, PrintConfig, DryRun, Serve, Step
<1>6. CASE Report
  <2>1. phase' \in {"unreported", "reported once", "reported"}
    BY <1>6 DEF Report
  <2> QED
    BY <2>1
<1>7. CASE Wait
  BY <1>1, <1>7 DEF Wait
<1>8. CASE Start
  <2>1. ~(FilesRead # {} /\ Serve(PublisherUnwraps, "refused"))
    BY DEF Serve, Step
  <2>2. PICK files \in [FilesRead -> Bundles] :
          /\ Serve(ReporterUnwraps \cup PublisherUnwraps,
                   IF NoTimeout(cfg.data) THEN "panicked"
                   ELSE IF Unusable(files) \/ Timeout(cfg.data) = Float("huge")
                   THEN "refused" ELSE "serving")
          /\ out' = IF Named("certfile") /\ ~Unusable(files)
                    THEN [files |-> [certfile |-> files["certfile"], keyfile |-> files[Keyfile]],
                          identity |-> Identity(files["certfile"], files[Keyfile])]
                    ELSE Nothing
    BY <1>8, <2>1, Zenon DEF Start
  <2> DEFINE certfile == files["certfile"]
             keyfile == files[Keyfile]
             identity == Identity(certfile, keyfile)
  <2>3. Named("certfile") /\ ~Unusable(files)
    BY <1>1, <2>2
  <2>4. identity # Invalid
    BY <2>3, Zenon DEF Unusable
  <2>5. "certfile" \in FilesRead /\ Keyfile \in FilesRead
    <3>1. "certfile" \in FilesRead
      BY <2>3 DEF FilesRead
    <3>2. CASE Named("keyfile")
      BY <2>3, <3>2 DEF FilesRead, Keyfile
    <3>3. CASE ~Named("keyfile")
      <4>1. Keyfile = "certfile"
        BY <3>3 DEF Keyfile
      <4> QED
        BY <3>1, <4>1
    <3> QED
      BY <3>1, <3>2, <3>3
  <2>6. certfile \in Seq(Marks) /\ keyfile \in Seq(Marks)
    <3>1. certfile \in Bundles /\ keyfile \in Bundles
      BY <2>5
    <3> QED
      BY <3>1, BundlesAssumption DEF Marks
  <2>7. /\ out'.files.certfile = certfile /\ out'.files.keyfile = keyfile
        /\ out'.identity = identity
    <3>1. out' = [files |-> [certfile |-> certfile, keyfile |-> keyfile], identity |-> identity]
      BY <2>2, <2>3, Zenon
    <3> HIDE DEF certfile, keyfile, identity
    <3> QED
      BY <3>1
  <2>8. Holds(identity.chain, certfile, "CERTIFICATE") /\ Holds(identity.key, keyfile, "PRIVATE KEY")
    <3> HIDE DEF certfile, keyfile
    <3> QED
      BY <2>4, <2>6, IdentityIs
  <2> QED
    BY <2>7, <2>8, Zenon
<1> QED
  BY <1>2, <1>3, <1>4, <1>5, <1>6, <1>7, <1>8 DEF Next

(***************************************************************************)
(* What a report should tell.                                              *)
(***************************************************************************)
LEMMA LastOf ==
    ASSUME NEW N \in Nat, NEW S \in SUBSET (1..N), S # {}
    PROVE  \E i \in S : \A j \in S : j <= i
<1> DEFINE T == {N - i : i \in S}
<1>1. T \in SUBSET Nat /\ T # {}
  <2>1. \A i \in S : i \in 1..N /\ N - i \in Nat
    OBVIOUS
  <2>2. PICK i : i \in S
    OBVIOUS
  <2>3. N - i \in T
    BY <2>2
  <2>4. \A x \in T : \E j \in S : x = N - j
    OBVIOUS
  <2> HIDE DEF T
  <2> QED
    BY <2>1, <2>3, <2>4
<1>2. PICK x \in T : \A y \in T : ~(y < x)
  <2> HIDE DEF T
  <2> QED
    BY <1>1, Least
<1>3. PICK i \in S : x = N - i
  OBVIOUS
<1>4. ASSUME NEW j \in S PROVE j <= i
  <2>1. N - j \in T
    OBVIOUS
  <2>2. ~(N - j < x)
    BY <1>2, <2>1
  <2>3. i \in 1..N /\ j \in 1..N
    OBVIOUS
  <2> HIDE DEF T
  <2> QED
    BY <1>3, <2>2, <2>3
<1> QED
  BY <1>4

\* What parse_meminfo keeps of a field is the number in the last line that has one.
LEMMA LastNumberIs ==
    ASSUME NEW K, NEW lines \in Seq(LinesOf(K)), NEW f
    PROVE  /\ f \in DOMAIN Parsed(lines) => LastNumber(lines, f) = <<Parsed(lines)[f]>>
           /\ f \notin DOMAIN Parsed(lines) => LastNumber(lines, f) = <<>>
<1> DEFINE P == Parsed(lines)
           has == {i \in DOMAIN lines : /\ lines[i].key = f /\ lines[i].colon
                                        /\ "num" \in DOMAIN lines[i].value}
           last == CHOOSE i \in has : \A j \in has : j <= i
<1>1. /\ f \in DOMAIN P <=> \E i \in 1..Len(lines) : Tells(lines[i], f)
      /\ \A i : /\ i \in 1..Len(lines) /\ Tells(lines[i], f)
                /\ \A j \in (i + 1)..Len(lines) : ~Tells(lines[j], f)
                => P[f] = lines[i].value.num
  BY ParsedIs
<1>2. Len(lines) \in Nat /\ DOMAIN lines = 1..Len(lines)
  OBVIOUS
<1>3. LastNumber(lines, f) = IF has = {} THEN <<>> ELSE <<lines[last].value.num>>
  BY Zenon DEF LastNumber
<1> HIDE DEF P
<1>4. \A i : i \in has <=> i \in 1..Len(lines) /\ Tells(lines[i], f)
  BY <1>2, Zenon DEF Tells, WellFormed
<1> HIDE DEF has
<1>5. f \in DOMAIN P <=> has # {}
  BY <1>1, <1>4
<1>6. ASSUME has # {} PROVE P[f] = lines[last].value.num
  <2>1. has \in SUBSET (1..Len(lines))
    BY <1>4
  <2>2. last \in has /\ \A j \in has : j <= last
    <3>1. \E i \in has : \A j \in has : j <= i
      BY <1>2, <1>6, <2>1, LastOf
    <3> QED
      BY <3>1
  <2> HIDE DEF last
  <2>3. last \in 1..Len(lines) /\ Tells(lines[last], f)
    BY <1>4, <2>2
  <2>4. ASSUME NEW j \in (last + 1)..Len(lines) PROVE ~Tells(lines[j], f)
    <3>1. j \in 1..Len(lines) /\ ~(j <= last)
      BY <1>2, <2>3
    <3> QED
      BY <1>4, <2>2, <3>1
  <2> QED
    BY <1>1, <2>3, <2>4
<1> HIDE DEF last
<1> QED
  BY <1>3, <1>5, <1>6 DEF P

\* The members of an appended sequence.
LEMMA AppendSet ==
    ASSUME NEW K, NEW s \in Seq(K), NEW x
    PROVE  ToSet(Append(s, x)) = ToSet(s) \cup {x}
<1>1. /\ DOMAIN Append(s, x) = 1..(Len(s) + 1) /\ DOMAIN s = 1..Len(s) /\ Len(s) \in Nat
      /\ Append(s, x)[Len(s) + 1] = x
      /\ \A i \in 1..Len(s) : Append(s, x)[i] = s[i]
  <2> DEFINE L == K \cup {x}
  <2>1. s \in Seq(L) /\ x \in L
    OBVIOUS
  <2> QED
    BY <2>1
<1>2. \A i : i \in 1..(Len(s) + 1) <=> i \in 1..Len(s) \/ i = Len(s) + 1
  BY <1>1
<1> DEFINE t == Append(s, x)
<1> HIDE DEF t
<1>3. ToSet(t) = ToSet(s) \cup {x}
  BY <1>1, <1>2 DEF ToSet, t
<1> QED
  BY <1>3 DEF t

\* The fields that are not found, in their order.
Unmet(fields, found) ==
  LET after[n \in 0..Len(fields)] ==
        IF n = 0 THEN <<>>
        ELSE IF fields[n] \in found THEN after[n - 1]
        ELSE Append(after[n - 1], fields[n])
  IN  after[Len(fields)]

\* The fields that a scan did not find.
LEMMA UnmetIs ==
    ASSUME NEW K, NEW fields \in Seq(K), NEW found
    PROVE  /\ Unmet(fields, found) \in Seq(K)
           /\ ToSet(Unmet(fields, found)) = ToSet(fields) \ found
<1> DEFINE N == Len(fields)
           D == Seq(K)
           d == <<>>
           Pass(t, n) == IF fields[n] \in found THEN t ELSE Append(t, fields[n])
           Q(g) == g = [n \in 0..N |-> IF n = 0 THEN <<>>
                                       ELSE IF fields[n] \in found THEN g[n - 1]
                                       ELSE Append(g[n - 1], fields[n])]
           h == CHOOSE g : Q(g)
           asked(n) == {fields[i] : i \in 1..n}
           Good(n, t) == t \in D /\ ToSet(t) = asked(n) \ found
<1>1. Unmet(fields, found) = h[N]
  BY Zenon DEF Unmet
<1>2. N \in Nat /\ (\A n \in 1..N : fields[n] \in K) /\ asked(N) = ToSet(fields)
  BY DEF ToSet
<1> HIDE DEF N
<1>3. d \in D /\ Good(0, d)
  <2>1. asked(0) = {} /\ ToSet(<<>>) = {}
    BY DEF ToSet
  <2> HIDE DEF asked
  <2> QED
    BY <2>1
<1>4. \A t \in D, n \in 1..N : Pass(t, n) \in D
  BY <1>2
<1>5. \E g : Q(g)
  <2> DEFINE G == [x \in (1..N) \X D |-> Pass(x[2], x[1])]
  <2> HIDE DEF D, d
  <2>1. G \in [(1..N) \X D -> D]
    <3> HIDE DEF Pass
    <3> QED
      BY <1>4
  <2>2. \A n \in 1..N, t \in D : G[<<n, t>>] = Pass(t, n)
    <3> HIDE DEF Pass
    <3> QED
      OBVIOUS
  <2> HIDE DEF G
  <2>3. PICK f : Unfolds(f, D, d, N, G)
    BY <1>2, <1>3, <2>1, Recursion
  <2>4. ASSUME NEW n \in 0..N
        PROVE  f[n] = IF n = 0 THEN <<>> ELSE IF fields[n] \in found THEN f[n - 1]
                      ELSE Append(f[n - 1], fields[n])
    <3>1. CASE n = 0
      BY <2>3, <3>1 DEF Unfolds, d
    <3>2. CASE n # 0
      <4>1. n \in 1..N /\ n - 1 \in 0..N
        BY <1>2, <3>2
      <4>2. f[n - 1] \in D
        BY <2>3, <4>1 DEF Unfolds
      <4> QED
        BY <2>2, <2>3, <3>2, <4>1, <4>2, Zenon DEF Unfolds
    <3> QED
      BY <3>1, <3>2
  <2>5. Q(f)
    BY <2>3, <2>4 DEF Unfolds
  <2> QED
    BY <2>5
<1> HIDE DEF Q
<1>6. Q(h)
  BY <1>5
<1> DEFINE S == {n \in Nat : n <= N => Good(n, h[n])}
<1> HIDE DEF h
<1>7. N \in S
  <2>1. 0 \in S
    <3>1. h[0] = d
      BY <1>2, <1>6 DEF Q
    <3> QED
      BY <1>3, <3>1
  <2>2. ASSUME NEW n \in Nat, n \in S PROVE n + 1 \in S
    <3> SUFFICES ASSUME n + 1 <= N PROVE Good(n + 1, h[n + 1])
      OBVIOUS
    <3> DEFINE t == h[n]
               u == h[n + 1]
               field == fields[n + 1]
    <3>1. n + 1 \in 0..N /\ n + 1 \in 1..N /\ n + 1 # 0 /\ (n + 1) - 1 = n /\ n <= N
      BY <1>2
    <3>2. t \in D /\ ToSet(t) = asked(n) \ found
      <4> HIDE DEF D, asked
      <4> QED
        BY <2>2, <3>1
    <3>3. u = IF field \in found THEN t ELSE Append(t, field)
      BY <1>6, <3>1 DEF Q
    <3>4. asked(n + 1) = asked(n) \cup {field} /\ field \in K
      <4>1. \A i : i \in 1..(n + 1) <=> i \in 1..n \/ i = n + 1
        OBVIOUS
      <4> QED
        BY <1>2, <3>1, <4>1
    <3> HIDE DEF t, u, field, asked
    <3>5. CASE field \in found
      BY <3>2, <3>3, <3>4, <3>5 DEF u
    <3>6. CASE field \notin found
      <4>1. u \in Seq(K)
        BY <3>2, <3>3, <3>4, <3>6
      <4>2. ToSet(u) = ToSet(t) \cup {field}
        BY <3>2, <3>3, <3>6, AppendSet
      <4> QED
        BY <3>2, <3>4, <3>6, <4>1, <4>2 DEF u
    <3> QED
      BY <3>5, <3>6
  <2> HIDE DEF S
  <2> QED
    BY <1>2, <2>1, <2>2, Induction
<1>8. h[N] \in D /\ ToSet(h[N]) = asked(N) \ found
  BY <1>2, <1>7
<1> HIDE DEF h, asked
<1> QED
  BY <1>1, <1>2, <1>8

LEMMA MinuteOf ==
    ASSUME NEW n \in Int
    PROVE  {m \in 0..MaxSeconds : n \in (60 * m)..(60 * m + 59) /\ n < MaxSeconds}
             = IF Fits(n) THEN {Minutes(n)} ELSE {}
<1> DEFINE T == {m \in 0..MaxSeconds : n \in (60 * m)..(60 * m + 59) /\ n < MaxSeconds}
<1>1. MaxSeconds \in Nat
  BY MaxSecondsAssumption
<1>2. ASSUME NEW m \in T PROVE Fits(n) /\ m = Minutes(n)
  BY <1>1 DEF Fits, Minutes
<1>3. ASSUME Fits(n) PROVE Minutes(n) \in T
  BY <1>1, <1>3 DEF Fits, Minutes
<1> HIDE DEF T
<1>4. T = IF Fits(n) THEN {Minutes(n)} ELSE {}
  BY <1>2, <1>3
<1> QED
  BY <1>4 DEF T

\* What the file of the uptime tells is what the report tells.
LEMMA MinutesTold ==
    ASSUME NEW proc \in Procs, out.proc = proc
    PROVE  /\ \/ Minuted(proc) = <<>> /\ TrueMinutes = {}
              \/ \E x : Minuted(proc) = <<x>> /\ TrueMinutes = {x}
           /\ Seconds(Options, proc) = <<>> <=> TrueMinutes = {}
<1> DEFINE words == proc.uptime.text
           seconds == Seconds(Options, proc)
           on == Enabled("uptime_minutes") /\ Readable(proc.uptime)
<1>1. seconds = IF on THEN ParseUptimeSeconds(words) ELSE <<>>
  BY Zenon DEF Seconds, Options
<1>2. TrueMinutes = IF on /\ words # <<>>
                    THEN {m \in 0..MaxSeconds : /\ "num" \in DOMAIN words[1]
                                                /\ words[1].num \in (60 * m)..(60 * m + 59)
                                                /\ words[1].num < MaxSeconds}
                    ELSE {}
  BY Zenon DEF TrueMinutes
<1>3. CASE on /\ words # <<>> /\ "num" \in DOMAIN words[1]
  <2> DEFINE n == words[1].num
  <2>1. words \in Seq(ProcWords)
    BY <1>3, ProcIs
  <2>2. Head(words) = words[1] /\ words[1] \in ProcWords
    BY <1>3, <2>1
  <2>3. n \in Int
    BY <1>3, <2>2 DEF ProcWords
  <2>4. seconds = IF Fits(n) THEN <<n>> ELSE <<>>
    <3>1. seconds = ParseUptimeSeconds(words)
      BY <1>1, <1>3
    <3>2. ParseUptimeSeconds(words) = IF Fits(n) THEN <<n>> ELSE <<>>
      BY <1>3, <2>2, Zenon DEF ParseUptimeSeconds
    <3> QED
      BY <3>1, <3>2
  <2>5. TrueMinutes = {m \in 0..MaxSeconds : n \in (60 * m)..(60 * m + 59) /\ n < MaxSeconds}
    <3>1. TrueMinutes = {m \in 0..MaxSeconds : /\ "num" \in DOMAIN words[1]
                                              /\ n \in (60 * m)..(60 * m + 59)
                                              /\ n < MaxSeconds}
      BY <1>2, <1>3, Zenon
    <3> QED
      BY <1>3, <3>1
  <2> HIDE DEF n, seconds, words
  <2>6. TrueMinutes = IF Fits(n) THEN {Minutes(n)} ELSE {}
    BY <2>3, <2>5, MinuteOf
  <2>7. CASE Fits(n)
    <3>1. Minuted(proc) = <<Minutes(n)>> /\ TrueMinutes = {Minutes(n)} /\ seconds # <<>>
      BY <2>4, <2>6, <2>7, MinutesIs DEF seconds
    <3> QED
      BY <3>1 DEF seconds
  <2>8. CASE ~Fits(n)
    <3>1. Minuted(proc) = <<>> /\ TrueMinutes = {} /\ seconds = <<>>
      BY <2>4, <2>6, <2>8, MinutesIs DEF seconds
    <3> QED
      BY <3>1 DEF seconds
  <2> QED
    BY <2>7, <2>8
<1>4. CASE ~(on /\ words # <<>> /\ "num" \in DOMAIN words[1])
  <2>1. seconds = <<>>
    <3>1. CASE ~on
      BY <1>1, <3>1
    <3>2. CASE on /\ words = <<>>
      BY <1>1, <3>2 DEF ParseUptimeSeconds
    <3>3. CASE on /\ words # <<>>
      <4>1. words \in Seq(ProcWords)
        BY <3>3, ProcIs
      <4>2. Head(words) = words[1]
        BY <3>3, <4>1
      <4>3. ParseUptimeSeconds(words) = <<>>
        BY <1>4, <3>3, <4>2, Zenon DEF ParseUptimeSeconds
      <4> QED
        BY <1>1, <3>3, <4>3
    <3> QED
      BY <3>1, <3>2, <3>3
  <2>2. TrueMinutes = {}
    <3>1. CASE on /\ words # <<>>
      <4>1. ~("num" \in DOMAIN words[1])
        BY <1>4, <3>1
      <4>2. TrueMinutes = {m \in 0..MaxSeconds : /\ "num" \in DOMAIN words[1]
                                                /\ words[1].num \in (60 * m)..(60 * m + 59)
                                                /\ words[1].num < MaxSeconds}
        BY <1>2, <3>1, Zenon
      <4> QED
        BY <4>1, <4>2, Zenon
    <3>2. CASE ~(on /\ words # <<>>)
      BY <1>2, <3>2, Zenon
    <3> QED
      BY <3>1, <3>2
  <2>3. Minuted(proc) = <<>>
    BY <2>1, MinutesIs
  <2> QED
    BY <2>1, <2>2, <2>3
<1> QED
  BY <1>3, <1>4

\* The fields asked for that the kernel has.
Found(proc) ==
  IF Enabled("meminfo") /\ Readable(proc.meminfo)
  THEN ToSet(MeminfoFields(cfg)) \cap DOMAIN Parsed(proc.meminfo.text) ELSE {}

\* The pairs of collect are the true values.
LEMMA MemoryTold ==
    ASSUME NEW proc \in Procs, MeminfoFields(cfg) \in Seq(Seq(STRING))
    PROVE  Tell(Memory(Options, proc), Parsed(proc.meminfo.text), Found(proc))
<1> DEFINE m == Memory(Options, proc)
           P == Parsed(proc.meminfo.text)
<1>1. CASE Enabled("meminfo") /\ Readable(proc.meminfo)
  <2>1. Found(proc) = ToSet(MeminfoFields(cfg)) \cap DOMAIN P
    BY <1>1, Zenon DEF Found
  <2>2. Tell(m, P, ToSet(MeminfoFields(cfg)) \cap DOMAIN P)
    BY <1>1, MemoryIs, Zenon
  <2> QED
    BY <2>1, <2>2, Zenon
<1>2. CASE ~(Enabled("meminfo") /\ Readable(proc.meminfo))
  <2>1. Found(proc) = {} /\ m = <<>>
    BY <1>2, MemoryIs, Zenon DEF Found
  <2> HIDE DEF m, P
  <2>2. IsFiniteSet({}) /\ Cardinality({}) = 0 /\ Len(m) = 0
    BY <2>1, FS_EmptySet
  <2>3. \A i : i \notin 1..0
    OBVIOUS
  <2>4. Tell(m, P, {})
    BY <2>2, <2>3 DEF Tell
  <2> QED
    BY <2>1, <2>4 DEF m, P
<1> QED
  BY <1>1, <1>2

Pairs(S, P) == {<<f, P[f]>> : f \in S}

LEMMA ValuesTold ==
    ASSUME NEW proc \in Procs, out.proc = proc
    PROVE  TrueValues = Pairs(Found(proc), Parsed(proc.meminfo.text))
<1> DEFINE lines == proc.meminfo.text
           P == Parsed(lines)
           asked == ToSet(MeminfoFields(cfg))
           on == Enabled("meminfo") /\ Readable(proc.meminfo)
           told == {f \in asked : LastNumber(lines, f) # <<>>}
<1>1. TrueValues = IF on THEN {<<f, LastNumber(lines, f)[1]>> : f \in told} ELSE {}
  BY Zenon DEF TrueValues
<1>2. CASE on
  <2>1. lines \in Seq(LinesOf(Seq(STRING)))
    BY <1>2, ProcIs
  <2>2. Found(proc) = asked \cap DOMAIN P
    BY <1>2, Zenon DEF Found
  <2> HIDE DEF asked, lines
  <2>3. /\ \A f : f \in DOMAIN P => LastNumber(lines, f) = <<P[f]>>
        /\ \A f : f \notin DOMAIN P => LastNumber(lines, f) = <<>>
    BY <2>1, LastNumberIs
  <2>4. told = asked \cap DOMAIN P
    BY <2>3
  <2>5. \A f \in told : LastNumber(lines, f)[1] = P[f]
    BY <2>3, <2>4
  <2> HIDE DEF told, P
  <2>6. {<<f, LastNumber(lines, f)[1]>> : f \in told} = {<<f, P[f]>> : f \in told}
    BY <2>5
  <2> QED
    BY <1>1, <1>2, <2>2, <2>4, <2>6, Zenon DEF P, lines, Pairs
<1>3. CASE ~on
  <2>1. TrueValues = {} /\ Found(proc) = {}
    BY <1>1, <1>3, Zenon DEF Found
  <2> QED
    BY <2>1 DEF Pairs
<1> QED
  BY <1>2, <1>3

\* As many values are told as fields are found.
LEMMA PairsCount ==
    ASSUME NEW S, NEW P, IsFiniteSet(S)
    PROVE  /\ Cardinality(Pairs(S, P)) = Cardinality(S)
           /\ \A f : f \in S <=> \E v \in Pairs(S, P) : f = v[1]
<1> USE DEF Pairs
<1> DEFINE T == Pairs(S, P)
           g == [f \in S |-> <<f, P[f]>>]
<1>1. g \in Bijection(S, T)
  BY DEF Bijection, Injection, Surjection, IsInjective
<1>2. ExistsBijection(S, T)
  BY <1>1 DEF ExistsBijection
<1>3. \A v \in T : \E f \in S : v = <<f, P[f]>>
  OBVIOUS
<1>4. \A f \in S : <<f, P[f]>> \in T /\ <<f, P[f]>>[1] = f
  OBVIOUS
<1> HIDE DEF T
<1>5. ASSUME NEW f PROVE f \in S <=> \E v \in T : f = v[1]
  <2>1. ASSUME f \in S PROVE \E v \in T : f = v[1]
    <3> DEFINE v == <<f, P[f]>>
    <3>1. v \in T /\ v[1] = f
      BY <1>4, <2>1
    <3> HIDE DEF v
    <3> QED
      BY <3>1
  <2>2. ASSUME NEW v \in T, f = v[1] PROVE f \in S
    <3>1. PICK e \in S : v = <<e, P[e]>>
      BY <1>3
    <3> QED
      BY <2>2, <3>1
  <2> QED
    BY <2>1, <2>2
<1>6. Cardinality(T) = Cardinality(S)
  BY <1>2, FS_Bijection
<1> QED
  BY <1>5, <1>6 DEF T

(***************************************************************************)
(* The two forms of a report.                                              *)
(***************************************************************************)
LEMMA AppendOnce ==
    ASSUME NEW L, NEW f \in Seq(L), NEW g \in Seq(L), NEW x \in L, Append(f, x) = Append(g, x)
    PROVE  f = g
<1>1. Len(f) + 1 = Len(g) + 1
  <2>1. Len(Append(f, x)) = Len(f) + 1 /\ Len(Append(g, x)) = Len(g) + 1
    OBVIOUS
  <2> QED
    BY <2>1
<1>2. Len(f) = Len(g)
  BY <1>1
<1>3. \A i \in 1..Len(f) : f[i] = g[i]
  <2>1. /\ \A i \in 1..Len(f) : Append(f, x)[i] = f[i]
        /\ \A i \in 1..Len(g) : Append(g, x)[i] = g[i]
    OBVIOUS
  <2> QED
    BY <1>2, <2>1
<1> QED
  BY <1>2, <1>3

\* Two fields of a report have two names.
LEMMA NameOnce ==
    ASSUME NEW f \in Seq(STRING), NEW g \in Seq(STRING), MeminfoTopicName(f) = MeminfoTopicName(g)
    PROVE  f = g
<1> DEFINE L == STRING \cup {"kb"}
<1>1. f \in Seq(L) /\ g \in Seq(L) /\ "kb" \in L
  OBVIOUS
<1>2. Append(f, "kb") = Append(g, "kb")
  BY Zenon DEF MeminfoTopicName
<1> HIDE DEF L
<1> QED
  BY <1>1, <1>2, AppendOnce

Entry(pair) ==
  [key |-> MeminfoTopicName(pair[1]), colon |-> TRUE, value |-> [num |-> pair[2]]]
Entries(m) == [i \in DOMAIN m |-> Entry(m[i])]

\* A pair as the entry of the JSON form.
LEMMA EntryIs ==
    ASSUME NEW K, NEW pair, MeminfoTopicName(pair[1]) \in K, pair[2] \in Int
    PROVE  /\ Entry(pair) \in LinesOf(K)
           /\ \A k : Tells(Entry(pair), k) <=> k = MeminfoTopicName(pair[1])
           /\ Entry(pair).value.num = pair[2]
<1> DEFINE name == MeminfoTopicName(pair[1])
           word == [num |-> pair[2]]
<1>1. word \in ProcWords /\ "num" \in DOMAIN word /\ word.num = pair[2]
  <2>1. word \in [num : Int]
    BY Zenon
  <2> QED
    BY <2>1, Zenon DEF ProcWords
<1>2. name \in K
  OBVIOUS
<1> DEFINE ends == TRUE
           e == Entry(pair)
<1>3. e = [key |-> name, colon |-> ends, value |-> word] /\ ends \in BOOLEAN /\ ends
  BY Zenon DEF Entry
<1> HIDE DEF name, word, ends, e
<1>4. e \in LinesOf(K)
  BY <1>1, <1>2, <1>3 DEF LinesOf
<1>5. e.key = name /\ e.colon /\ e.value = word
  <2>1. e.colon = ends /\ e.key = name /\ e.value = word
    BY <1>3
  <2> QED
    BY <1>3, <2>1, Zenon
<1>6. ASSUME NEW k PROVE Tells(e, k) <=> k = name
  BY <1>1, <1>5, Zenon DEF Tells, WellFormed
<1> QED
  BY <1>1, <1>4, <1>5, <1>6, Zenon DEF name, e

\* The JSON form has an entry for each field that is told, with its value.
LEMMA EntriesIs ==
    ASSUME NEW m \in Seq(Seq(STRING) \X Int), NEW P, NEW S \in SUBSET Seq(STRING), Tell(m, P, S)
    PROVE  /\ \A k : k \in DOMAIN Parsed(Entries(m)) <=> \E f \in S : k = MeminfoTopicName(f)
           /\ \A f \in S : Parsed(Entries(m))[MeminfoTopicName(f)] = P[f]
<1> DEFINE N == Len(m)
           name(i) == MeminfoTopicName(m[i][1])
           K == {name(i) : i \in 1..N}
           lines == Entries(m)
           T == Parsed(lines)
<1>1. N \in Nat /\ DOMAIN m = 1..N /\ \A i \in 1..N : m[i][1] \in Seq(STRING) /\ m[i][2] \in Int
  OBVIOUS
<1>2. /\ \A i \in 1..N : \E f \in S : m[i] = <<f, P[f]>>
      /\ \A f \in S : \E i \in 1..N : m[i] = <<f, P[f]>>
  BY DEF Tell
<1>3. ASSUME NEW i \in 1..N
      PROVE  /\ Entry(m[i]) \in LinesOf(K)
             /\ \A k : Tells(Entry(m[i]), k) <=> k = name(i)
             /\ Entry(m[i]).value.num = m[i][2]
  <2>1. name(i) \in K /\ m[i][2] \in Int
    BY <1>1
  <2> HIDE DEF K
  <2> QED
    BY <2>1, EntryIs
<1>4. lines = [i \in 1..N |-> Entry(m[i])]
  BY <1>1, Zenon DEF Entries
<1> HIDE DEF N, name, K, lines
<1>5. lines \in Seq(LinesOf(K)) /\ Len(lines) = N /\ \A i \in 1..N : lines[i] = Entry(m[i])
  <2> DEFINE L == LinesOf(K)
             e(i) == Entry(m[i])
  <2>1. \A i \in 1..N : e(i) \in L
    BY <1>3
  <2> HIDE DEF L, e
  <2>2. lines = [i \in 1..N |-> e(i)]
    BY <1>4 DEF e
  <2>3. lines \in Seq(L) /\ Len(lines) = N /\ \A i \in 1..N : lines[i] = e(i)
    BY <1>1, <2>1, <2>2
  <2> QED
    BY <2>3 DEF L, e
<1>a. /\ \A k : k \in DOMAIN T <=> \E i \in 1..Len(lines) : Tells(lines[i], k)
      /\ \A k, i : /\ i \in 1..Len(lines) /\ Tells(lines[i], k)
                   /\ \A j \in (i + 1)..Len(lines) : ~Tells(lines[j], k)
                   => T[k] = lines[i].value.num
  BY <1>5, ParsedIs, Zenon
<1> HIDE DEF T
<1>6. /\ \A k : k \in DOMAIN T <=> \E i \in 1..N : Tells(lines[i], k)
      /\ \A k, i : /\ i \in 1..N /\ Tells(lines[i], k)
                   /\ \A j \in (i + 1)..N : ~Tells(lines[j], k)
                   => T[k] = lines[i].value.num
  BY <1>5, <1>a, Zenon
<1>7. \A k : k \in DOMAIN T <=> \E i \in 1..N : k = name(i)
  <2>1. ASSUME NEW i \in 1..N, NEW k PROVE Tells(lines[i], k) <=> k = name(i)
    <3>1. lines[i] = Entry(m[i])
      BY <1>5
    <3>2. Tells(Entry(m[i]), k) <=> k = name(i)
      BY <1>3
    <3> QED
      BY <3>1, <3>2
  <2>2. ASSUME NEW k PROVE k \in DOMAIN T <=> \E i \in 1..N : k = name(i)
    <3>1. k \in DOMAIN T <=> \E i \in 1..N : Tells(lines[i], k)
      BY <1>6
    <3>2. \A i \in 1..N : Tells(lines[i], k) <=> k = name(i)
      BY <2>1
    <3> QED
      BY <3>1, <3>2
  <2> QED
    BY <2>2
<1>8. \A k : k \in DOMAIN T <=> \E f \in S : k = MeminfoTopicName(f)
  <2>1. ASSUME NEW k \in DOMAIN T PROVE \E f \in S : k = MeminfoTopicName(f)
    <3>1. PICK i \in 1..N : k = name(i)
      BY <1>7
    <3>2. PICK f \in S : m[i] = <<f, P[f]>>
      BY <1>2
    <3> QED
      BY <3>1, <3>2 DEF name
  <2>2. ASSUME NEW f \in S PROVE MeminfoTopicName(f) \in DOMAIN T
    <3>1. PICK i \in 1..N : m[i] = <<f, P[f]>>
      BY <1>2
    <3> QED
      BY <1>7, <3>1 DEF name
  <2> QED
    BY <2>1, <2>2
<1>9. ASSUME NEW f \in S PROVE T[MeminfoTopicName(f)] = P[f]
  <2> DEFINE k == MeminfoTopicName(f)
             I == {i \in 1..N : name(i) = k}
  <2>1. \A i \in I : m[i] = <<f, P[f]>>
    <3>1. ASSUME NEW i \in I PROVE m[i] = <<f, P[f]>>
      <4>1. PICK g \in S : m[i] = <<g, P[g]>>
        BY <1>2
      <4>2. MeminfoTopicName(g) = MeminfoTopicName(f)
        BY <4>1 DEF name
      <4>3. f \in Seq(STRING) /\ g \in Seq(STRING)
        OBVIOUS
      <4>4. g = f
        BY <4>2, <4>3, NameOnce
      <4> QED
        BY <4>1, <4>4
    <3> QED
      BY <3>1
  <2>2. I \in SUBSET (1..N) /\ I # {}
    <3>1. PICK i \in 1..N : m[i] = <<f, P[f]>>
      BY <1>2
    <3>2. i \in I
      BY <3>1 DEF name
    <3> QED
      BY <3>2
  <2> HIDE DEF k
  <2>3. \A i : i \in I <=> i \in 1..N /\ Tells(lines[i], k)
    <3>1. ASSUME NEW i \in 1..N PROVE Tells(lines[i], k) <=> k = name(i)
      <4>1. lines[i] = Entry(m[i])
        BY <1>5
      <4>2. Tells(Entry(m[i]), k) <=> k = name(i)
        BY <1>3
      <4> QED
        BY <4>1, <4>2
    <3> QED
      BY <3>1, Zenon
  <2> HIDE DEF I
  <2>4. PICK i \in I : \A j \in I : j <= i
    BY <1>1, <2>2, LastOf
  <2>5. i \in 1..N /\ Tells(lines[i], k)
    BY <2>3
  <2>6. ASSUME NEW j \in (i + 1)..N PROVE ~Tells(lines[j], k)
    <3>1. j \in 1..N /\ ~(j <= i)
      BY <1>1, <2>5
    <3> QED
      BY <2>3, <2>4, <3>1
  <2>7. T[k] = lines[i].value.num
    BY <1>6, <2>5, <2>6
  <2>8. lines[i].value.num = m[i][2]
    BY <1>3, <1>5, <2>5
  <2> QED
    BY <2>1, <2>7, <2>8 DEF k
<1> QED
  BY <1>8, <1>9 DEF T, lines

LEMMA ConcatSet ==
    ASSUME NEW K, NEW a \in Seq(K), NEW b \in Seq(K)
    PROVE  a \o b \in Seq(K) /\ ToSet(a \o b) = ToSet(a) \cup ToSet(b)
<1> DEFINE m == Len(a)
           n == Len(b)
           c == a \o b
<1>1. m \in Nat /\ n \in Nat /\ DOMAIN a = 1..m /\ DOMAIN b = 1..n
  OBVIOUS
<1>2. /\ c \in Seq(K) /\ DOMAIN c = 1..(m + n)
      /\ \A i \in 1..m : c[i] = a[i]
      /\ \A i \in 1..n : c[m + i] = b[i]
  OBVIOUS
<1> HIDE DEF m, n, c
<1>3. ASSUME NEW x \in ToSet(c) PROVE x \in ToSet(a) \cup ToSet(b)
  <2>1. PICK i \in 1..(m + n) : x = c[i]
    BY <1>2 DEF ToSet
  <2>2. i \in 1..m \/ (i - m \in 1..n /\ m + (i - m) = i)
    BY <1>1
  <2> QED
    BY <1>1, <1>2, <2>1, <2>2 DEF ToSet
<1>4. ASSUME NEW x \in ToSet(a) \cup ToSet(b) PROVE x \in ToSet(c)
  <2>1. CASE x \in ToSet(a)
    <3>1. PICK i \in 1..m : x = a[i]
      BY <1>1, <2>1 DEF ToSet
    <3>2. i \in 1..(m + n)
      BY <1>1
    <3> QED
      BY <1>2, <3>1, <3>2 DEF ToSet
  <2>2. CASE x \in ToSet(b)
    <3>1. PICK i \in 1..n : x = b[i]
      BY <1>1, <2>2 DEF ToSet
    <3>2. m + i \in 1..(m + n)
      BY <1>1
    <3> QED
      BY <1>2, <3>1, <3>2 DEF ToSet
  <2> QED
    BY <2>1, <2>2
<1>5. ToSet(c) = ToSet(a) \cup ToSet(b)
  BY <1>3, <1>4
<1> QED
  BY <1>2, <1>5 DEF c

\* The fields a report lists as missing are those without a value.
LEMMA MissingIs ==
    ASSUME NEW proc \in Procs, MeminfoFields(cfg) \in Seq(Seq(STRING))
    PROVE  /\ Missing(Options, proc) \in Seq(Seq(STRING))
           /\ ToSet(Missing(Options, proc)) = ToSet(MeminfoFields(cfg)) \ Found(proc)
<1> DEFINE m == Memory(Options, proc)
           P == Parsed(proc.meminfo.text)
           found == {m[i][1] : i \in DOMAIN m}
           fields == MeminfoFields(cfg)
<1>1. Missing(Options, proc) = Unmet(fields, found)
  <2>1. Options.fields = fields
    BY Zenon DEF Options
  <2>2. Missing(Options, proc) = Unmet(Options.fields, found)
    BY Zenon DEF Missing, Unmet
  <2> QED
    BY <2>1, <2>2, Zenon
<1>2. Tell(m, P, Found(proc)) /\ m \in Seq(Seq(STRING) \X Int)
  BY MemoryTold, MemoryIs, Zenon
<1> HIDE DEF m, P, fields
<1>3. DOMAIN m = 1..Len(m)
  BY <1>2
<1>4. found = Found(proc)
  <2>1. \A i \in DOMAIN m : m[i][1] \in Found(proc)
    BY <1>2, <1>3 DEF Tell
  <2>2. ASSUME NEW f \in Found(proc) PROVE f \in found
    <3>1. PICK i \in 1..Len(m) : m[i] = <<f, P[f]>>
      BY <1>2 DEF Tell
    <3> QED
      BY <1>3, <3>1
  <2> QED
    BY <2>1, <2>2
<1> HIDE DEF found
<1>5. fields \in Seq(Seq(STRING))
  BY DEF fields
<1>6. /\ Unmet(fields, found) \in Seq(Seq(STRING))
      /\ ToSet(Unmet(fields, found)) = ToSet(fields) \ found
  BY <1>5, UnmetIs
<1> QED
  BY <1>1, <1>4, <1>6 DEF fields

\* The problems of a report: the uptime's, meminfo's and the host name's.
LEMMA ProblemsAre ==
    ASSUME NEW proc \in Procs, MeminfoFields(cfg) \in Seq(Seq(STRING))
    PROVE  \A p : p \in ToSet(Collect(Options, proc).errors) <=>
             \/ /\ p = Problem("uptime", <<>>)
                /\ Enabled("uptime_minutes") /\ Seconds(Options, proc) = <<>>
             \/ /\ p = Problem("meminfo", IF Readable(proc.meminfo)
                                          THEN Missing(Options, proc) ELSE <<>>)
                /\ Enabled("meminfo")
                /\ ~Readable(proc.meminfo) \/ Missing(Options, proc) # <<>>
             \/ p = Problem("hostname", <<>>) /\ Hostname(Options, proc) = <<>>
<1> DEFINE upt == Problem("uptime", <<>>)
           mem == Problem("meminfo", IF Readable(proc.meminfo) THEN Missing(Options, proc)
                                     ELSE <<>>)
           host == Problem("hostname", <<>>)
           K == {upt, mem, host}
           x == Enabled("uptime_minutes") /\ Seconds(Options, proc) = <<>>
           y == Enabled("meminfo") /\ (~Readable(proc.meminfo) \/ Missing(Options, proc) # <<>>)
           z == Hostname(Options, proc) = <<>>
           a == UptimeProblems(Options, proc)
           b == MeminfoProblems(Options, proc)
           c == IF Hostname(Options, proc) = <<>> THEN <<host>> ELSE <<>>
           errors == Collect(Options, proc).errors
<1>1. a = IF x THEN <<upt>> ELSE <<>>
  BY Zenon DEF UptimeProblems, Options
<1>2. b = IF y THEN <<mem>> ELSE <<>>
  BY Zenon DEF MeminfoProblems, Options
<1>3. c = IF z THEN <<host>> ELSE <<>>
  BY Zenon
<1>4. errors = a \o b \o c
  <2> HIDE DEF a, b
  <2>1. errors = UptimeProblems(Options, proc) \o MeminfoProblems(Options, proc)
                 \o IF Hostname(Options, proc) = <<>>
                    THEN <<Problem("hostname", <<>>)>> ELSE <<>>
    BY DEF Collect
  <2> QED
    BY <2>1 DEF a, b
<1> HIDE DEF x, y, z, a, b, c, errors, upt, mem, host
<1>5. a \in Seq(K) /\ b \in Seq(K) /\ c \in Seq(K)
  <2>1. upt \in K /\ mem \in K /\ host \in K
    OBVIOUS
  <2> HIDE DEF K
  <2>2. <<>> \in Seq(K) /\ <<upt>> \in Seq(K) /\ <<mem>> \in Seq(K) /\ <<host>> \in Seq(K)
    BY <2>1
  <2> QED
    BY <1>1, <1>2, <1>3, <2>2, Zenon
<1>6. \A p : /\ p \in ToSet(a) <=> p = upt /\ x
             /\ p \in ToSet(b) <=> p = mem /\ y
             /\ p \in ToSet(c) <=> p = host /\ z
  <2>1. ToSet(<<>>) = {} /\ \A q : ToSet(<<q>>) = {q}
    BY DEF ToSet
  <2>2. ToSet(a) = IF x THEN {upt} ELSE {}
    BY <1>1, <2>1
  <2>3. ToSet(b) = IF y THEN {mem} ELSE {}
    BY <1>2, <2>1
  <2>4. ToSet(c) = IF z THEN {host} ELSE {}
    BY <1>3, <2>1
  <2> QED
    BY <2>2, <2>3, <2>4
<1> HIDE DEF K
<1>7. a \o b \in Seq(K) /\ ToSet(a \o b) = ToSet(a) \cup ToSet(b)
  BY <1>5, ConcatSet
<1>8. ToSet(errors) = ToSet(a \o b) \cup ToSet(c)
  <2> DEFINE ab == a \o b
  <2>1. errors = ab \o c /\ ab \in Seq(K)
    BY <1>4, <1>7
  <2> HIDE DEF ab
  <2>2. ToSet(ab \o c) = ToSet(ab) \cup ToSet(c)
    BY <1>5, <2>1, ConcatSet
  <2> QED
    BY <2>1, <2>2 DEF ab
<1>9. ASSUME NEW p
      PROVE  p \in ToSet(errors) <=> (p = upt /\ x) \/ (p = mem /\ y) \/ (p = host /\ z)
  BY <1>6, <1>7, <1>8
<1> QED
  BY <1>9, Zenon DEF x, y, z, upt, mem, host, errors

\* What a report leaves behind.
ReportOf(proc) ==
  [proc |-> proc, logged |-> Collect(Options, proc).errors,
   plain |-> MessagesFor(Collect(Options, proc)).plain,
   json |-> MessagesFor(Collect(Options, proc)).json]

\* The plain form tells what it should.
LEMMA PlainTold ==
    ASSUME NEW proc \in Procs, out.proc = proc, MeminfoFields(cfg) \in Seq(Seq(STRING))
    PROVE  LET plain == PlainMessages(Collect(Options, proc))
           IN  /\ Len(plain) = Cardinality(TrueMinutes) + Cardinality(TrueValues)
               /\ \A m \in TrueMinutes : plain[1] = UptimeMessage(m)
               /\ \A v \in TrueValues : MeminfoMessage(v) \in ToSet(plain)
<1> DEFINE u == Minuted(proc)
           m == Memory(Options, proc)
           P == Parsed(proc.meminfo.text)
           plain == PlainMessages(Collect(Options, proc))
<1>1. /\ Len(u) \in Nat /\ Len(m) \in Nat
      /\ Len(plain) = Len(u) + Len(m) /\ DOMAIN plain = 1..(Len(u) + Len(m))
      /\ \A i \in 1..Len(u) : plain[i] = UptimeMessage(u[i])
      /\ \A i \in 1..Len(m) : plain[Len(u) + i] = MeminfoMessage(m[i])
  BY PlainIs, Zenon
<1>2. \/ u = <<>> /\ TrueMinutes = {}
      \/ \E x : u = <<x>> /\ TrueMinutes = {x}
  BY MinutesTold, Zenon
<1>3. Tell(m, P, Found(proc)) /\ TrueValues = Pairs(Found(proc), P)
  BY MemoryTold, ValuesTold, Zenon
<1> HIDE DEF u, m, P, plain
<1>4. Len(u) = Cardinality(TrueMinutes) /\ \A x \in TrueMinutes : Len(u) = 1 /\ u[1] = x
  <2>1. Cardinality({}) = 0 /\ \A x : Cardinality({x}) = 1
    BY FS_EmptySet, FS_Singleton
  <2>2. CASE u = <<>> /\ TrueMinutes = {}
    BY <2>1, <2>2
  <2>3. ASSUME NEW x, u = <<x>>, TrueMinutes = {x}
        PROVE  Len(u) = Cardinality(TrueMinutes) /\ \A y \in TrueMinutes : Len(u) = 1 /\ u[1] = y
    <3>1. Len(u) = 1 /\ u[1] = x /\ Cardinality(TrueMinutes) = 1
      BY <2>1, <2>3
    <3> QED
      BY <2>3, <3>1
  <2> QED
    BY <1>2, <2>2, <2>3
<1>5. Len(m) = Cardinality(TrueValues)
  <2>1. IsFiniteSet(Found(proc)) /\ Len(m) = Cardinality(Found(proc))
    BY <1>3 DEF Tell
  <2>2. Cardinality(Pairs(Found(proc), P)) = Cardinality(Found(proc))
    BY <2>1, PairsCount
  <2> QED
    BY <1>3, <2>1, <2>2
<1>6. ASSUME NEW x \in TrueMinutes PROVE plain[1] = UptimeMessage(x)
  <2>1. 1 \in 1..Len(u) /\ u[1] = x
    BY <1>4
  <2> QED
    BY <1>1, <2>1
<1>7. ASSUME NEW v \in TrueValues PROVE MeminfoMessage(v) \in ToSet(plain)
  <2>1. PICK f \in Found(proc) : v = <<f, P[f]>>
    BY <1>3 DEF Pairs
  <2>2. PICK i \in 1..Len(m) : m[i] = <<f, P[f]>>
    BY <1>3 DEF Tell
  <2>3. Len(u) + i \in 1..(Len(u) + Len(m))
    BY <1>1
  <2>4. plain[Len(u) + i] = MeminfoMessage(v)
    BY <1>1, <2>1, <2>2
  <2> QED
    BY <1>1, <2>3, <2>4 DEF ToSet
<1> QED
  BY <1>1, <1>4, <1>5, <1>6, <1>7, Zenon DEF plain

\* The JSON form tells what it should.
LEMMA JsonTold ==
    ASSUME NEW proc \in Procs, out.proc = proc, MeminfoFields(cfg) \in Seq(Seq(STRING))
    PROVE  LET told == ToJsonDict(Collect(Options, proc))
           IN  /\ ToSet(told.uptime_minutes) = TrueMinutes
               /\ DOMAIN told.meminfo = {MeminfoTopicName(v[1]) : v \in TrueValues}
               /\ \A v \in TrueValues : told.meminfo[MeminfoTopicName(v[1])] = v[2]
               /\ told.errors = Collect(Options, proc).errors
<1> DEFINE snapshot == Collect(Options, proc)
           told == ToJsonDict(snapshot)
           u == Minuted(proc)
           m == Memory(Options, proc)
           P == Parsed(proc.meminfo.text)
           S == Found(proc)
<1>1. snapshot.meminfo = m /\ snapshot.uptime_minutes = u
  BY Zenon DEF Collect, Minuted
<1> HIDE DEF snapshot
<1>2. /\ told.uptime_minutes = snapshot.uptime_minutes /\ told.errors = snapshot.errors
      /\ told.meminfo = Parsed(Entries(snapshot.meminfo))
  BY Zenon DEF ToJsonDict, Entries, Entry
<1>3. \/ u = <<>> /\ TrueMinutes = {}
      \/ \E x : u = <<x>> /\ TrueMinutes = {x}
  BY MinutesTold, Zenon
<1>4. Tell(m, P, S) /\ TrueValues = Pairs(S, P) /\ m \in Seq(Seq(STRING) \X Int)
  BY MemoryTold, ValuesTold, MemoryIs, Zenon
<1>5. S \in SUBSET Seq(STRING)
  <2>1. ToSet(MeminfoFields(cfg)) \subseteq Seq(STRING)
    <3> DEFINE F == MeminfoFields(cfg)
               T == Seq(STRING)
    <3> HIDE DEF F, T
    <3>1. F \in Seq(T)
      BY DEF F, T
    <3>2. ToSet(F) \subseteq T
      BY <3>1 DEF ToSet
    <3> QED
      BY <3>2 DEF F, T
  <2> QED
    BY <2>1 DEF Found
<1> HIDE DEF told, u, m, P, S
<1>6. ToSet(u) = TrueMinutes
  BY <1>3 DEF ToSet
<1>7. /\ \A k : k \in DOMAIN Parsed(Entries(m)) <=> \E f \in S : k = MeminfoTopicName(f)
      /\ \A f \in S : Parsed(Entries(m))[MeminfoTopicName(f)] = P[f]
  BY <1>4, <1>5, EntriesIs
<1>8. told.meminfo = Parsed(Entries(m))
  BY <1>1, <1>2, Zenon
<1>9. \A v \in TrueValues : \E f \in S : v = <<f, P[f]>> /\ v[1] = f /\ v[2] = P[f]
  BY <1>4 DEF Pairs
<1>10. \A f \in S : <<f, P[f]>> \in TrueValues /\ <<f, P[f]>>[1] = f
  BY <1>4 DEF Pairs
<1>11. DOMAIN told.meminfo = {MeminfoTopicName(v[1]) : v \in TrueValues}
  <2>1. ASSUME NEW k, \E f \in S : k = MeminfoTopicName(f)
        PROVE  k \in {MeminfoTopicName(v[1]) : v \in TrueValues}
    <3>1. PICK f \in S : k = MeminfoTopicName(f)
      BY <2>1
    <3> DEFINE v == <<f, P[f]>>
    <3>2. v \in TrueValues /\ v[1] = f
      BY <1>10
    <3> HIDE DEF v
    <3> QED
      BY <3>1, <3>2
  <2>2. ASSUME NEW k \in {MeminfoTopicName(v[1]) : v \in TrueValues}
        PROVE  \E f \in S : k = MeminfoTopicName(f)
    <3>1. PICK v \in TrueValues : k = MeminfoTopicName(v[1])
      OBVIOUS
    <3>2. v[1] \in S
      BY <1>9
    <3> QED
      BY <3>1, <3>2
  <2>3. \A k : k \in DOMAIN told.meminfo <=> \E f \in S : k = MeminfoTopicName(f)
    BY <1>7, <1>8
  <2> HIDE DEF told
  <2> QED
    BY <2>1, <2>2, <2>3
<1>12. ASSUME NEW v \in TrueValues PROVE told.meminfo[MeminfoTopicName(v[1])] = v[2]
  <2>1. PICK f \in S : v[1] = f /\ v[2] = P[f]
    BY <1>9
  <2> QED
    BY <1>7, <1>8, <2>1
<1>13. ToSet(told.uptime_minutes) = TrueMinutes
  BY <1>1, <1>2, <1>6
<1> QED
  BY <1>2, <1>11, <1>12, <1>13, Zenon DEF told, snapshot

\* The problems are those of the two files.
LEMMA ProblemsTold ==
    ASSUME NEW proc \in Procs, out.proc = proc,
           MeminfoFields(cfg) \in Seq(Seq(STRING)), MeminfoFields(cfg) # <<>>
    PROVE  LET logged == Collect(Options, proc).errors
               untold == IF Enabled("meminfo")
                         THEN ToSet(MeminfoFields(cfg)) \ {v[1] : v \in TrueValues} ELSE {}
               listed == UNION {ToSet(p.missing) : p \in ToSet(logged)}
               troubled == {p.file : p \in ToSet(logged)}
           IN  /\ (Enabled("uptime_minutes") /\ TrueMinutes = {}) <=> "uptime" \in troubled
               /\ (untold # {}) <=> "meminfo" \in troubled
               /\ listed = IF Readable(proc.meminfo) THEN untold ELSE {}
<1> DEFINE logged == Collect(Options, proc).errors
           asked == ToSet(MeminfoFields(cfg))
           untold == IF Enabled("meminfo") THEN asked \ {v[1] : v \in TrueValues} ELSE {}
           listed == UNION {ToSet(p.missing) : p \in ToSet(logged)}
           troubled == {p.file : p \in ToSet(logged)}
           P == Parsed(proc.meminfo.text)
           missing == Missing(Options, proc)
           some == IF Readable(proc.meminfo) THEN missing ELSE <<>>
           x == Enabled("uptime_minutes") /\ Seconds(Options, proc) = <<>>
           y == Enabled("meminfo") /\ (~Readable(proc.meminfo) \/ missing # <<>>)
           z == Hostname(Options, proc) = <<>>
<1>1. \A p : p \in ToSet(logged) <=>
        \/ p = Problem("uptime", <<>>) /\ x
        \/ p = Problem("meminfo", some) /\ y
        \/ p = Problem("hostname", <<>>) /\ z
  BY ProblemsAre, Zenon
<1>2. x <=> Enabled("uptime_minutes") /\ TrueMinutes = {}
  BY MinutesTold, Zenon
<1>3. {v[1] : v \in TrueValues} = Found(proc)
  <2>1. IsFiniteSet(Found(proc))
    BY MemoryTold, Zenon DEF Tell
  <2>2. TrueValues = Pairs(Found(proc), P)
    BY ValuesTold, Zenon
  <2> HIDE DEF P
  <2>3. \A f : f \in Found(proc) <=> \E v \in Pairs(Found(proc), P) : f = v[1]
    BY <2>1, PairsCount
  <2>4. \A f : f \in Found(proc) <=> \E v \in TrueValues : f = v[1]
    BY <2>2, <2>3
  <2> QED
    BY <2>4
<1>4. missing \in Seq(Seq(STRING)) /\ ToSet(missing) = asked \ Found(proc)
  BY MissingIs
<1>5. untold = IF Enabled("meminfo") THEN ToSet(missing) ELSE {}
  BY <1>3, <1>4, Zenon
<1>6. missing = <<>> <=> ToSet(missing) = {}
  <2> HIDE DEF missing
  <2>1. missing # <<>> => 1 \in DOMAIN missing
    BY <1>4
  <2> QED
    BY <2>1 DEF ToSet
<1>7. ~Readable(proc.meminfo) => ToSet(missing) # {}
  <2> DEFINE F == MeminfoFields(cfg)
             T == Seq(STRING)
  <2> HIDE DEF F, T
  <2>1. F \in Seq(T) /\ F # <<>>
    BY DEF F, T
  <2>2. F[1] \in ToSet(F)
    BY <2>1 DEF ToSet
  <2>3. ~Readable(proc.meminfo) => Found(proc) = {}
    BY DEF Found
  <2> HIDE DEF missing
  <2> QED
    BY <1>4, <2>2, <2>3 DEF F
<1> HIDE DEF logged, asked, untold, P, missing, x, z
<1>8. y <=> untold # {}
  BY <1>5, <1>6, <1>7
<1> HIDE DEF y
<1>9. /\ Problem("uptime", <<>>).file = "uptime" /\ Problem("uptime", <<>>).missing = <<>>
      /\ Problem("meminfo", some).file = "meminfo" /\ Problem("meminfo", some).missing = some
      /\ Problem("hostname", <<>>).file = "hostname" /\ Problem("hostname", <<>>).missing = <<>>
  BY DEF Problem
<1> DEFINE a == Problem("uptime", <<>>)
           b == Problem("meminfo", some)
           c == Problem("hostname", <<>>)
<1> HIDE DEF some, a, b, c
<1>10. /\ a.file = "uptime" /\ a.missing = <<>>
       /\ b.file = "meminfo" /\ b.missing = some
       /\ c.file = "hostname" /\ c.missing = <<>>
  BY <1>9 DEF a, b, c
<1>11. \A p : p \in ToSet(logged) <=> (p = a /\ x) \/ (p = b /\ y) \/ (p = c /\ z)
  BY <1>1, Zenon DEF a, b, c
<1>12. "uptime" \in troubled <=> x
  BY <1>10, <1>11
<1>13. "meminfo" \in troubled <=> y
  BY <1>10, <1>11
<1>14. listed = IF y THEN ToSet(some) ELSE {}
  <2>1. ToSet(<<>>) = {}
    BY DEF ToSet
  <2>2. \A p \in ToSet(logged) : ToSet(p.missing) = {} \/ (y /\ ToSet(p.missing) = ToSet(some))
    BY <1>10, <1>11, <2>1
  <2>3. y => b \in ToSet(logged) /\ ToSet(b.missing) = ToSet(some)
    BY <1>10, <1>11
  <2>4. ASSUME NEW e \in listed PROVE y /\ e \in ToSet(some)
    <3>1. PICK p \in ToSet(logged) : e \in ToSet(p.missing)
      OBVIOUS
    <3> QED
      BY <2>2, <3>1
  <2>5. ASSUME y, NEW e \in ToSet(some) PROVE e \in listed
    BY <2>3, <2>5
  <2> HIDE DEF listed
  <2> QED
    BY <2>4, <2>5
<1>15. listed = IF Readable(proc.meminfo) THEN untold ELSE {}
  <2>1. ToSet(<<>>) = {}
    BY DEF ToSet
  <2>2. CASE Readable(proc.meminfo)
    <3>1. some = missing
      BY <2>2 DEF some
    <3>2. y => untold = ToSet(missing)
      BY <1>5, <1>8
    <3>3. ~y => untold = {}
      BY <1>8
    <3> QED
      BY <1>14, <2>2, <3>1, <3>2, <3>3, Zenon
  <2>3. CASE ~Readable(proc.meminfo)
    <3>1. some = <<>>
      BY <2>3 DEF some
    <3> QED
      BY <1>14, <2>1, <2>3, <3>1, Zenon
  <2> QED
    BY <2>2, <2>3
<1> HIDE DEF listed, troubled
<1> QED
  BY <1>2, <1>8, <1>12, <1>13, <1>15, Zenon DEF logged, untold, asked, listed, troubled, x, y

\* A report has been made from what one read found.
Reported == phase \in {"reported", "reported once"} => \E proc \in Procs : out = ReportOf(proc)

\* Every report is the one of an answer of /proc.
LEMMA ReportedStep == IInv /\ Reported /\ [Next]_vars => Reported'
<1> SUFFICES ASSUME IInv, Reported, [Next]_vars, phase' \in {"reported", "reported once"}
             PROVE  \E proc \in Procs : out' = ReportOf(proc)'
  BY DEF Reported
<1>1. CASE UNCHANGED vars
  <2>1. PICK proc \in Procs : out = ReportOf(proc)
    BY <1>1 DEF vars, Reported
  <2>2. cfg' = cfg /\ out' = out
    BY <1>1 DEF vars
  <2>3. ReportOf(proc)' = ReportOf(proc)
    BY <2>2, Zenon DEF ReportOf, MessagesFor, PlainMessages, Options, Enabled, Publishes
  <2> QED
    BY <2>1, <2>2, <2>3
<1>2. CASE Edit \/ EditAlone
  BY <1>2 DEF Edit, EditAlone, Set
<1>3. CASE LoadConfig
  BY <1>3 DEF LoadConfig
<1>4. CASE Nameless \/ PrintConfig \/ DryRun
  BY <1>4 DEF Nameless, PrintConfig, DryRun, Serve, Step
<1>5. CASE Wait
  BY <1>5 DEF Wait, Step
<1>6. CASE Start
  <2>1. phase' \in {"refused", "panicked", "serving"}
    BY <1>6 DEF Start, Serve, Step
  <2> QED
    BY <2>1
<1>7. CASE Report
  <2>1. PICK proc \in Procs :
          /\ out' = [proc |-> proc, logged |-> Collect(Options, proc).errors,
                     plain |-> MessagesFor(Collect(Options, proc)).plain,
                     json |-> MessagesFor(Collect(Options, proc)).json]
          /\ UNCHANGED <<file, edits, site, cfg>>
    BY <1>7, Zenon DEF Report
  <2>2. out' = ReportOf(proc) /\ cfg' = cfg
    BY <2>1, Zenon DEF ReportOf
  <2>3. ReportOf(proc)' = ReportOf(proc)
    BY <2>2, Zenon DEF ReportOf, MessagesFor, PlainMessages, Options, Enabled, Publishes
  <2> QED
    BY <2>2, <2>3
<1> QED
  BY <1>1, <1>2, <1>3, <1>4, <1>5, <1>6, <1>7 DEF Next

\* A report accounts for each metric.
LEMMA AccountedFollows == IInv /\ Reported => Accounted
<1> SUFFICES ASSUME IInv, Reported, phase \in {"reported", "reported once"} PROVE Accounted
  BY DEF Accounted
<1>1. PICK proc \in Procs : out = ReportOf(proc)
  BY DEF Reported
<1>2. MeminfoFields(cfg) \in Seq(Seq(STRING)) /\ MeminfoFields(cfg) # <<>>
  BY DEF IInv, Running, Serves
<1> DEFINE snapshot == Collect(Options, proc)
           messages == MessagesFor(snapshot)
           plain == PlainMessages(snapshot)
           told == ToJsonDict(snapshot)
           untold == IF Enabled("meminfo")
                     THEN ToSet(MeminfoFields(cfg)) \ {v[1] : v \in TrueValues} ELSE {}
           listed == UNION {ToSet(p.missing) : p \in ToSet(snapshot.errors)}
           troubled == {p.file : p \in ToSet(snapshot.errors)}
<1>3. /\ out.proc = proc /\ out.logged = snapshot.errors
      /\ out.plain = messages.plain /\ out.json = messages.json
  BY <1>1, Zenon DEF ReportOf
<1>4. /\ messages.plain = IF Publishes("publish_plain") THEN plain ELSE <<>>
      /\ messages.json = IF Publishes("publish_json")
                         THEN <<[topic |-> cfg.json_topic, payload |-> told]>> ELSE <<>>
  BY Zenon DEF MessagesFor
<1>5. /\ Len(plain) = Cardinality(TrueMinutes) + Cardinality(TrueValues)
      /\ \A m \in TrueMinutes : plain[1] = UptimeMessage(m)
      /\ \A v \in TrueValues : MeminfoMessage(v) \in ToSet(plain)
  BY <1>2, <1>3, PlainTold, Zenon
<1>6. /\ ToSet(told.uptime_minutes) = TrueMinutes
      /\ DOMAIN told.meminfo = {MeminfoTopicName(v[1]) : v \in TrueValues}
      /\ \A v \in TrueValues : told.meminfo[MeminfoTopicName(v[1])] = v[2]
      /\ told.errors = snapshot.errors
  BY <1>2, <1>3, JsonTold, Zenon
<1>7. /\ (Enabled("uptime_minutes") /\ TrueMinutes = {}) <=> "uptime" \in troubled
      /\ (untold # {}) <=> "meminfo" \in troubled
      /\ listed = IF Readable(proc.meminfo) THEN untold ELSE {}
  BY <1>2, <1>3, ProblemsTold, Zenon
<1>8. Publishes("publish_json") => out.json[1].payload = told
  <2> SUFFICES ASSUME Publishes("publish_json") PROVE out.json[1].payload = told
    OBVIOUS
  <2> DEFINE t == cfg.json_topic
             x == out.json
             e == [topic |-> t, payload |-> told]
  <2>1. x = <<e>>
    BY <1>3, <1>4, Zenon
  <2> HIDE DEF t, told, x
  <2>2. e.payload = told
    OBVIOUS
  <2> HIDE DEF e
  <2>3. x[1] = e
    BY <2>1
  <2> QED
    BY <2>2, <2>3, Zenon DEF x
<1>9. Publishes("publish_plain") =>
        /\ Len(out.plain) = Cardinality(TrueMinutes) + Cardinality(TrueValues)
        /\ \A m \in TrueMinutes : out.plain[1] = [topic |-> [text |-> cfg.uptime_topic],
                                                 payload |-> m]
        /\ \A v \in TrueValues : [topic |-> MeminfoTopic(cfg, v[1]), payload |-> v[2]]
                                   \in ToSet(out.plain)
  <2>1. Publishes("publish_plain") => out.plain = plain
    BY <1>3, <1>4, Zenon
  <2> HIDE DEF plain
  <2> QED
    BY <1>5, <2>1, Zenon DEF UptimeMessage, MeminfoMessage
<1>10. Publishes("publish_json") =>
         LET t == out.json[1].payload
         IN  /\ ToSet(t.uptime_minutes) = TrueMinutes
             /\ DOMAIN t.meminfo = {MeminfoTopicName(v[1]) : v \in TrueValues}
             /\ \A v \in TrueValues : t.meminfo[MeminfoTopicName(v[1])] = v[2]
             /\ t.errors = out.logged
  BY <1>3, <1>6, <1>8, Zenon
<1>11. /\ ~Publishes("publish_plain") => out.plain = <<>>
       /\ ~Publishes("publish_json") => out.json = <<>>
  BY <1>3, <1>4, Zenon
<1>12. LET l == UNION {ToSet(p.missing) : p \in ToSet(out.logged)}
           t == {p.file : p \in ToSet(out.logged)}
       IN  /\ (Enabled("uptime_minutes") /\ TrueMinutes = {}) <=> "uptime" \in t
           /\ (untold # {}) <=> "meminfo" \in t
           /\ l = IF Readable(out.proc.meminfo) THEN untold ELSE {}
  BY <1>3, <1>7, Zenon
<1> QED
  BY <1>9, <1>10, <1>11, <1>12, Zenon DEF Accounted

(***************************************************************************)
(* deep_merge.                                                             *)
(***************************************************************************)
LEMMA MergeInnerIs ==
    ASSUME NEW base, NEW o
    PROVE  /\ Is("map", base) /\ Is("map", o) =>
                /\ Is("map", MergeInner(base, o))
                /\ Keys(MergeInner(base, o)) = Keys(base) \cup Keys(o)
                /\ \A k : At(MergeInner(base, o), k) =
                            IF k \in Keys(o) THEN At(o, k) ELSE At(base, k)
           /\ ~(Is("map", base) /\ Is("map", o)) => MergeInner(base, o) = o
<1>1. ASSUME Is("map", base), Is("map", o)
      PROVE  /\ Is("map", MergeInner(base, o))
             /\ Keys(MergeInner(base, o)) = Keys(base) \cup Keys(o)
             /\ \A k : At(MergeInner(base, o), k) =
                         IF k \in Keys(o) THEN At(o, k) ELSE At(base, k)
  <2> DEFINE b == base.map
             c == o.map
             f == [k \in DOMAIN b \cup DOMAIN c |->
                     IF k \notin DOMAIN c THEN b[k] ELSE IF k \notin DOMAIN b THEN c[k] ELSE c[k]]
  <2>1. MergeInner(base, o) = Map(f)
    BY <1>1, Zenon DEF MergeInner, Merged, Overrides
  <2>2. Keys(base) = DOMAIN b /\ Keys(o) = DOMAIN c
    BY <1>1 DEF Keys
  <2>3. \A k : /\ k \in DOMAIN b => At(base, k) = b[k]
               /\ k \notin DOMAIN b => At(base, k) = Null
               /\ k \in DOMAIN c => At(o, k) = c[k]
    BY <1>1 DEF At
  <2> HIDE DEF b, c
  <2>4. DOMAIN f = DOMAIN b \cup DOMAIN c
    OBVIOUS
  <2>5. \A k \in DOMAIN f : f[k] = IF k \in DOMAIN c THEN c[k] ELSE b[k]
    OBVIOUS
  <2> HIDE DEF f
  <2>6. Is("map", Map(f)) /\ Map(f).map = f
    BY Kinds
  <2>7. /\ Keys(Map(f)) = DOMAIN f
        /\ \A k : /\ k \in DOMAIN f => At(Map(f), k) = f[k]
                  /\ k \notin DOMAIN f => At(Map(f), k) = Null
    BY <2>6, Zenon DEF Keys, At
  <2>8. ASSUME NEW k PROVE At(Map(f), k) = IF k \in Keys(o) THEN At(o, k) ELSE At(base, k)
    BY <2>2, <2>3, <2>4, <2>5, <2>7
  <2> QED
    BY <2>1, <2>2, <2>4, <2>6, <2>7, <2>8
<1>2. ASSUME ~(Is("map", base) /\ Is("map", o)) PROVE MergeInner(base, o) = o
  BY <1>2, Zenon DEF MergeInner, Merged, Overrides
<1> QED
  BY <1>1, <1>2, Zenon

LEMMA MergeSectionIs ==
    ASSUME NEW base, NEW o
    PROVE  /\ Is("map", base) /\ Is("map", o) =>
                /\ Is("map", MergeSection(base, o))
                /\ Keys(MergeSection(base, o)) = Keys(base) \cup Keys(o)
                /\ \A k : At(MergeSection(base, o), k) =
                            IF k \notin Keys(o) THEN At(base, k)
                            ELSE IF k \notin Keys(base) THEN At(o, k)
                            ELSE MergeInner(At(base, k), At(o, k))
           /\ ~(Is("map", base) /\ Is("map", o)) => MergeSection(base, o) = o
<1>1. ASSUME Is("map", base), Is("map", o)
      PROVE  /\ Is("map", MergeSection(base, o))
             /\ Keys(MergeSection(base, o)) = Keys(base) \cup Keys(o)
             /\ \A k : At(MergeSection(base, o), k) =
                         IF k \notin Keys(o) THEN At(base, k)
                         ELSE IF k \notin Keys(base) THEN At(o, k)
                         ELSE MergeInner(At(base, k), At(o, k))
  <2> DEFINE b == base.map
             c == o.map
             f == [k \in DOMAIN b \cup DOMAIN c |->
                     IF k \notin DOMAIN c THEN b[k] ELSE IF k \notin DOMAIN b THEN c[k]
                     ELSE MergeInner(b[k], c[k])]
  <2>1. MergeSection(base, o) = Map(f)
    BY <1>1, Zenon DEF MergeSection, Merged
  <2>2. Keys(base) = DOMAIN b /\ Keys(o) = DOMAIN c
    BY <1>1 DEF Keys
  <2>3. \A k : /\ k \in DOMAIN b => At(base, k) = b[k]
               /\ k \notin DOMAIN b => At(base, k) = Null
               /\ k \in DOMAIN c => At(o, k) = c[k]
    BY <1>1 DEF At
  <2> HIDE DEF b, c
  <2>4. DOMAIN f = DOMAIN b \cup DOMAIN c
    OBVIOUS
  <2>5. \A k \in DOMAIN f : f[k] = IF k \notin DOMAIN c THEN b[k]
                                   ELSE IF k \notin DOMAIN b THEN c[k]
                                   ELSE MergeInner(b[k], c[k])
    OBVIOUS
  <2> HIDE DEF f
  <2>6. Is("map", Map(f)) /\ Map(f).map = f
    BY Kinds
  <2>7. /\ Keys(Map(f)) = DOMAIN f
        /\ \A k : /\ k \in DOMAIN f => At(Map(f), k) = f[k]
                  /\ k \notin DOMAIN f => At(Map(f), k) = Null
    BY <2>6, Zenon DEF Keys, At
  <2>8. ASSUME NEW k
        PROVE  At(Map(f), k) = IF k \notin Keys(o) THEN At(base, k)
                               ELSE IF k \notin Keys(base) THEN At(o, k)
                               ELSE MergeInner(At(base, k), At(o, k))
    BY <2>2, <2>3, <2>4, <2>5, <2>7
  <2> QED
    BY <2>1, <2>2, <2>4, <2>6, <2>7, <2>8
<1>2. ASSUME ~(Is("map", base) /\ Is("map", o)) PROVE MergeSection(base, o) = o
  BY <1>2, Zenon DEF MergeSection, Merged, Overrides
<1> QED
  BY <1>1, <1>2, Zenon

LEMMA DeepMergeIs ==
    ASSUME NEW o, Is("map", o)
    PROVE  /\ Is("map", DeepMerge(o))
           /\ Keys(DeepMerge(o)) = Keys(Defaults) \cup Keys(o)
           /\ \A k : At(DeepMerge(o), k) =
                       IF k \notin Keys(o) THEN At(Defaults, k)
                       ELSE IF k \notin Keys(Defaults) THEN At(o, k)
                       ELSE MergeSection(At(Defaults, k), At(o, k))
<1> DEFINE b == Defaults.map
           c == o.map
           f == [k \in DOMAIN b \cup DOMAIN c |->
                   IF k \notin DOMAIN c THEN b[k] ELSE IF k \notin DOMAIN b THEN c[k]
                   ELSE MergeSection(b[k], c[k])]
<1>0. Is("map", Defaults)
  BY DefaultSections
<1>1. DeepMerge(o) = Map(f)
  BY <1>0, Zenon DEF DeepMerge, Merged
<1>2. Keys(Defaults) = DOMAIN b /\ Keys(o) = DOMAIN c
  BY <1>0 DEF Keys
<1>3. \A k : /\ k \in DOMAIN b => At(Defaults, k) = b[k]
             /\ k \notin DOMAIN b => At(Defaults, k) = Null
             /\ k \in DOMAIN c => At(o, k) = c[k]
  BY <1>0 DEF At
<1> HIDE DEF b, c
<1>4. DOMAIN f = DOMAIN b \cup DOMAIN c
  OBVIOUS
<1>5. \A k \in DOMAIN f : f[k] = IF k \notin DOMAIN c THEN b[k]
                                 ELSE IF k \notin DOMAIN b THEN c[k]
                                 ELSE MergeSection(b[k], c[k])
  OBVIOUS
<1> HIDE DEF f
<1>6. Is("map", Map(f)) /\ Map(f).map = f
  BY Kinds
<1>7. /\ Keys(Map(f)) = DOMAIN f
      /\ \A k : /\ k \in DOMAIN f => At(Map(f), k) = f[k]
                /\ k \notin DOMAIN f => At(Map(f), k) = Null
  BY <1>6, Zenon DEF Keys, At
<1>8. ASSUME NEW k
      PROVE  At(Map(f), k) = IF k \notin Keys(o) THEN At(Defaults, k)
                             ELSE IF k \notin Keys(Defaults) THEN At(o, k)
                             ELSE MergeSection(At(Defaults, k), At(o, k))
  BY <1>2, <1>3, <1>4, <1>5, <1>7
<1> QED
  BY <1>1, <1>2, <1>4, <1>6, <1>7, <1>8

(***************************************************************************)
(* Whether there is something at a path.                                   *)
(***************************************************************************)
LEMMA HasIs ==
    ASSUME NEW v, NEW S, NEW p \in Seq(S)
    PROVE  Has(v, p) <=> \A n \in 1..Len(p) : p[n] \in Keys(Node(v, p)[n - 1])
<1>1. DOMAIN p = 1..Len(p) /\ Len(p) \in Nat
  OBVIOUS
<1>2. ASSUME NEW n \in 1..Len(p) PROVE Dig(v, SubSeq(p, 1, n - 1)) = Node(v, p)[n - 1]
  <2>1. n - 1 \in 0..Len(p)
    BY <1>1
  <2> QED
    BY <2>1, DigPrefix
<1> QED
  BY <1>1, <1>2, Zenon DEF Has

LEMMA HasOne ==
    ASSUME NEW v, NEW a
    PROVE  Has(v, <<a>>) <=> a \in Keys(v)
<1> DEFINE p == <<a>>
           K == {a}
<1>1. p \in Seq(K) /\ Len(p) = 1 /\ p[1] = a
  OBVIOUS
<1> HIDE DEF p, K
<1>2. Node(v, p)[1 - 1] = v
  BY <1>1, NodeIs
<1>3. Has(v, p) <=> \A n \in 1..Len(p) : p[n] \in Keys(Node(v, p)[n - 1])
  BY <1>1, HasIs
<1>4. 1..Len(p) = {1}
  BY <1>1
<1> QED
  BY <1>1, <1>2, <1>3, <1>4 DEF p

LEMMA HasTwo ==
    ASSUME NEW v, NEW a, NEW b
    PROVE  Has(v, <<a, b>>) <=> a \in Keys(v) /\ b \in Keys(At(v, a))
<1> DEFINE p == <<a, b>>
           K == {a, b}
<1>1. p \in Seq(K) /\ Len(p) = 2 /\ p[1] = a /\ p[2] = b
  OBVIOUS
<1> HIDE DEF p, K
<1>2. Node(v, p)[0] = v /\ Node(v, p)[1] = At(Node(v, p)[1 - 1], p[1])
  BY <1>1, NodeIs
<1>3. Has(v, p) <=> \A n \in 1..Len(p) : p[n] \in Keys(Node(v, p)[n - 1])
  BY <1>1, HasIs
<1>4. 1..Len(p) = {1, 2}
  BY <1>1
<1> QED
  BY <1>1, <1>2, <1>3, <1>4 DEF p

LEMMA HasThree ==
    ASSUME NEW v, NEW a, NEW b, NEW c
    PROVE  Has(v, <<a, b, c>>) <=>
             a \in Keys(v) /\ b \in Keys(At(v, a)) /\ c \in Keys(At(At(v, a), b))
<1> DEFINE p == <<a, b, c>>
           K == {a, b, c}
<1>1. p \in Seq(K) /\ Len(p) = 3 /\ p[1] = a /\ p[2] = b /\ p[3] = c
  OBVIOUS
<1> HIDE DEF p, K
<1>2. /\ Node(v, p)[0] = v /\ Node(v, p)[1] = At(Node(v, p)[0], p[1])
      /\ Node(v, p)[2] = At(Node(v, p)[1], p[2])
  <2>1. Len(p) \in Nat /\ 1..Len(p) = 1..3
    BY <1>1
  <2>2. /\ Node(v, p)[0] = v
        /\ \A n \in 1..Len(p) : Node(v, p)[n] = At(Node(v, p)[n - 1], p[n])
    BY <2>1, NodeIs
  <2> QED
    BY <2>1, <2>2
<1>3. Has(v, p) <=> \A n \in 1..Len(p) : p[n] \in Keys(Node(v, p)[n - 1])
  BY <1>1, HasIs
<1>4. 1..Len(p) = {1, 2, 3}
  BY <1>1
<1> QED
  BY <1>1, <1>2, <1>3, <1>4 DEF p

(***************************************************************************)
(* The tree of defaults.yaml: five sections, three of them within others,  *)
(* and no section below those.                                             *)
(***************************************************************************)
LEMMA RestValues ==
    /\ At(MqttDefaults, "client_id") = Null
    /\ At(MqttDefaults, "username") = Null
    /\ At(TlsDefaults, "ca_certs") = Null
    /\ At(TlsDefaults, "certfile") = Null
    /\ At(TlsDefaults, "keyfile") = Null
BY Kinds DEF MqttDefaults, TlsDefaults, At

LEMMA KnobsAre ==
    /\ Is("map", KnobsDefaults)
    /\ DOMAIN KnobsDefaults.map = {"log_to_console", "log_level_debug"}
    /\ At(KnobsDefaults, "log_to_console") = No
    /\ At(KnobsDefaults, "log_level_debug") = No
BY Kinds DEF KnobsDefaults, At

\* Which entries are sections.
LEMMA TopSections ==
    ASSUME NEW a \in Keys(Defaults)
    PROVE  Is("map", At(Defaults, a))
BY DefaultSections, MqttKeys, TopicsKeys, ReportKeys, MetricsKeys, KnobsAre, KeyOf

LEMMA InnerSections ==
    ASSUME NEW a \in Keys(Defaults), NEW b \in Keys(At(Defaults, a)),
           Is("map", At(At(Defaults, a), b))
    PROVE  At(At(Defaults, a), b) \in {TlsDefaults, UptimeDefaults, MeminfoDefaults}
<1> DEFINE P(d) == \A k \in DOMAIN d.map :
                     Is("map", At(d, k)) => At(d, k) \in {TlsDefaults, UptimeDefaults, MeminfoDefaults}
<1>1. P(MqttDefaults)
  BY MqttKeys, MqttValues, RestValues, Kinds, Booleans
<1>2. P(TopicsDefaults)
  BY TopicsKeys, TopicsValues, Kinds, Booleans DEF OnPrefix
<1>3. P(ReportDefaults)
  BY ReportKeys, ReportValues, Kinds, Booleans
<1>4. P(MetricsDefaults)
  BY MetricsKeys, MetricsValues
<1>5. P(KnobsDefaults)
  BY KnobsAre, Booleans
<1> HIDE DEF P
<1>6. P(At(Defaults, a))
  BY <1>1, <1>2, <1>3, <1>4, <1>5, DefaultSections, KeyOf
<1>7. b \in DOMAIN At(Defaults, a).map
  BY TopSections, KeyOf
<1> QED
  BY <1>6, <1>7 DEF P

LEMMA NoneDeeper ==
    ASSUME NEW a \in Keys(Defaults), NEW b \in Keys(At(Defaults, a)),
           NEW c \in Keys(At(At(Defaults, a), b))
    PROVE  ~Is("map", At(At(At(Defaults, a), b), c))
<1> DEFINE P(d) == \A k \in DOMAIN d.map : ~Is("map", At(d, k))
<1>1. P(TlsDefaults)
  BY TlsKeys, TlsValues, RestValues, Kinds, Booleans
<1>2. P(UptimeDefaults)
  BY UptimeKeys, UptimeValues, Kinds, Booleans DEF OnPrefix
<1>3. P(MeminfoDefaults)
  BY MeminfoKeys, MeminfoValues, Kinds, Booleans DEF OnPrefix
<1> HIDE DEF P
<1>4. Is("map", At(At(Defaults, a), b)) /\ c \in DOMAIN At(At(Defaults, a), b).map
  BY DEF Keys
<1>5. At(At(Defaults, a), b) \in {TlsDefaults, UptimeDefaults, MeminfoDefaults}
  BY <1>4, InnerSections
<1>6. P(At(At(Defaults, a), b))
  BY <1>1, <1>2, <1>3, <1>5
<1> QED
  BY <1>4, <1>6 DEF P

\* The paths of the sections and those of the knobs.
LEMMA SectionsAre ==
    ASSUME NEW p
    PROVE  p \in Sections <=>
             \/ p = <<>>
             \/ \E a \in Keys(Defaults) : p = <<a>>
             \/ \E a \in Keys(Defaults) : \E b \in Keys(At(Defaults, a)) :
                  Is("map", At(At(Defaults, a), b)) /\ p = <<a, b>>
<1> DEFINE P0 == <<>>
           P1(a) == <<a>>
           P2(a, b) == <<a, b>>
           P3(a, b, c) == <<a, b, c>>
<1>1. Dig(Defaults, P0) = Defaults /\ \A a : Dig(Defaults, P1(a)) = At(Defaults, a)
  BY DigNone, DigOne
<1>2. \A a, b : Dig(Defaults, P2(a, b)) = At(At(Defaults, a), b)
  BY DigTwo
<1>3. ASSUME NEW a, NEW b, NEW c
      PROVE  Dig(Defaults, P3(a, b, c)) = At(At(At(Defaults, a), b), c)
  BY DigThree
<1>4. p \in Known <=>
        \/ p = P0
        \/ \E a \in Keys(Defaults) : p = P1(a)
        \/ \E a \in Keys(Defaults) : \E b \in Keys(At(Defaults, a)) : p = P2(a, b)
        \/ \E a \in Keys(Defaults) : \E b \in Keys(At(Defaults, a)) :
             \E c \in Keys(At(At(Defaults, a), b)) : p = P3(a, b, c)
  BY KnownAre
<1>5. p \in Sections <=> p \in Known /\ Is("map", Dig(Defaults, p))
  BY DEF Sections
<1> HIDE DEF P0, P1, P2, P3
<1>6. Is("map", Defaults)
  BY DefaultSections
<1> QED
  BY <1>1, <1>2, <1>3, <1>4, <1>5, <1>6, TopSections, NoneDeeper DEF P0, P1, P2

LEMMA KnobsIn ==
    ASSUME NEW p \in Knobs
    PROVE  \/ \E a \in Keys(Defaults) : \E b \in Keys(At(Defaults, a)) :
                ~Is("map", At(At(Defaults, a), b)) /\ p = <<a, b>>
           \/ \E a \in Keys(Defaults) : \E b \in Keys(At(Defaults, a)) :
                \E c \in Keys(At(At(Defaults, a), b)) :
                  Is("map", At(At(Defaults, a), b)) /\ p = <<a, b, c>>
<1> DEFINE P1(a) == <<a>>
           P2(a, b) == <<a, b>>
           P3(a, b, c) == <<a, b, c>>
<1>1. p \in Known /\ p \notin Sections
  BY DEF Knobs
<1>2. \/ p = <<>>
      \/ \E a \in Keys(Defaults) : p = P1(a)
      \/ \E a \in Keys(Defaults) : \E b \in Keys(At(Defaults, a)) : p = P2(a, b)
      \/ \E a \in Keys(Defaults) : \E b \in Keys(At(Defaults, a)) :
           \E c \in Keys(At(At(Defaults, a), b)) : p = P3(a, b, c)
  BY <1>1, KnownAre
<1>3. /\ p # <<>> /\ \A a \in Keys(Defaults) : p # P1(a)
      /\ \A a \in Keys(Defaults) : \A b \in Keys(At(Defaults, a)) :
           Is("map", At(At(Defaults, a), b)) => p # P2(a, b)
  BY <1>1, SectionsAre
<1> HIDE DEF P1, P2, P3
<1>4. \A d : Keys(d) # {} => Is("map", d)
  BY DEF Keys
<1> QED
  BY <1>2, <1>3, <1>4 DEF P2, P3

(***************************************************************************)
(* What a file's entries become in the merged data, key by key.            *)
(***************************************************************************)
LEMMA NoKeys ==
    ASSUME NEW v, NEW k, k \notin Keys(v)
    PROVE  At(v, k) = Null
BY DEF Keys, At

LEMMA NullIs == Keys(Null) = {} /\ \A k : At(Null, k) = Null
BY Kinds DEF Keys, At

\* A YAML value at the root of a file is of one kind.
OneKind(v) == ~(Is("map", v) /\ Is("null", v))

\* An empty document counts as an empty mapping.
LEMMA OverlayIs ==
    ASSUME NEW doc, OneKind(doc), Is("map", doc) \/ Is("null", doc)
    PROVE  LET o == IF Is("null", doc) THEN Map(<<>>) ELSE doc
           IN  /\ Is("map", o) /\ Keys(o) = Keys(doc)
               /\ \A k : At(o, k) = At(doc, k)
<1> DEFINE e == <<>>
           o == Map(e)
<1>1. CASE Is("null", doc)
  <2>1. ~Is("map", doc)
    BY <1>1 DEF OneKind
  <2>2. Keys(doc) = {} /\ \A k : At(doc, k) = Null
    BY <2>1 DEF Keys, At
  <2>3. DOMAIN e = {}
    OBVIOUS
  <2> HIDE DEF e
  <2>4. Is("map", o) /\ o.map = e
    BY Kinds
  <2> HIDE DEF o
  <2>5. Keys(o) = {} /\ \A k : At(o, k) = Null
    BY <2>3, <2>4 DEF Keys, At
  <2> QED
    BY <1>1, <2>2, <2>4, <2>5, Zenon DEF o, e
<1>2. CASE ~Is("null", doc)
  BY <1>2, Zenon
<1> QED
  BY <1>1, <1>2, Zenon

\* The three levels: of the document, of a section and of one within it.
TopEntries(data, doc) ==
  /\ Keys(data) = Keys(Defaults) \cup Keys(doc)
  /\ \A k : k \notin Keys(Defaults) => At(data, k) = At(doc, k)
SectionEntries(data, doc, a) ==
  /\ Keys(At(data, a)) = Keys(At(Defaults, a)) \cup Keys(At(doc, a))
  /\ \A k : k \notin Keys(At(doc, a)) => At(At(data, a), k) = At(At(Defaults, a), k)
  /\ \A k : k \in Keys(At(doc, a)) /\ ~Is("map", At(At(Defaults, a), k)) =>
              At(At(data, a), k) = At(At(doc, a), k)
InnerEntries(data, doc, a, b) ==
  /\ Keys(At(At(data, a), b)) =
       Keys(At(At(Defaults, a), b)) \cup Keys(At(At(doc, a), b))
  /\ \A k : At(At(At(data, a), b), k) =
              IF k \in Keys(At(At(doc, a), b)) THEN At(At(At(doc, a), b), k)
              ELSE At(At(At(Defaults, a), b), k)
\* An entry of the file under the name of a section is a mapping.
Mapped(doc, a) == a \in Keys(doc) => Is("map", At(doc, a))

\* validate_shape wants a mapping at every section.
LEMMA ShapedSections ==
    ASSUME NEW data, Shape(data), NEW a \in Keys(Defaults)
    PROVE  /\ Is("map", At(data, a))
           /\ \A b \in Keys(At(Defaults, a)) :
                Is("map", At(At(Defaults, a), b)) => Is("map", At(At(data, a), b))
<1>1. Is("map", At(data, a))
  <2>1. <<a>> \in Sections
    BY TopSections, SectionOne
  <2>2. Is("map", Dig(data, <<a>>))
    BY <2>1, Zenon DEF Shape
  <2> QED
    BY <2>2, DigOne
<1>2. ASSUME NEW b \in Keys(At(Defaults, a)), Is("map", At(At(Defaults, a), b))
      PROVE  Is("map", At(At(data, a), b))
  <2>1. <<a, b>> \in Sections
    BY <1>2, SectionTwo
  <2>2. Is("map", Dig(data, <<a, b>>))
    BY <2>1, Zenon DEF Shape
  <2> QED
    BY <2>2, DigTwo
<1> QED
  BY <1>1, <1>2

\* The merged document, and under validate_shape its sections, level by level.
LEMMA MergedOne ==
    ASSUME NEW doc, OneKind(doc), Is("map", doc) \/ Is("null", doc)
    PROVE  /\ TopEntries(Merge(doc), doc)
           /\ \A k \in Keys(Defaults) :
                At(Merge(doc), k) = IF k \in Keys(doc) THEN MergeSection(At(Defaults, k), At(doc, k))
                                    ELSE At(Defaults, k)
<1> DEFINE o == IF Is("null", doc) THEN Map(<<>>) ELSE doc
<1>1. Merge(doc) = DeepMerge(o)
  BY Zenon DEF Merge
<1>2. Is("map", o) /\ Keys(o) = Keys(doc) /\ \A k : At(o, k) = At(doc, k)
  BY OverlayIs, Zenon
<1> HIDE DEF o
<1>3. /\ Keys(DeepMerge(o)) = Keys(Defaults) \cup Keys(o)
      /\ \A k : At(DeepMerge(o), k) =
                  IF k \notin Keys(o) THEN At(Defaults, k)
                  ELSE IF k \notin Keys(Defaults) THEN At(o, k)
                  ELSE MergeSection(At(Defaults, k), At(o, k))
  BY <1>2, DeepMergeIs
<1>4. ASSUME NEW k, k \notin Keys(Defaults) PROVE At(DeepMerge(o), k) = At(doc, k)
  <2>1. CASE k \in Keys(o)
    BY <1>2, <1>3, <1>4, <2>1
  <2>2. CASE k \notin Keys(o)
    BY <1>2, <1>3, <1>4, <2>2, NoKeys
  <2> QED
    BY <2>1, <2>2
<1> QED
  BY <1>1, <1>2, <1>3, <1>4 DEF TopEntries

LEMMA MergedTwo ==
    ASSUME NEW doc, OneKind(doc), Is("map", doc) \/ Is("null", doc),
           Shape(Merge(doc)), NEW a \in Keys(Defaults)
    PROVE  /\ Mapped(doc, a)
           /\ SectionEntries(Merge(doc), doc, a)
           /\ \A b \in Keys(At(Defaults, a)) :
                b \in Keys(At(doc, a)) =>
                  At(At(Merge(doc), a), b) = MergeInner(At(At(Defaults, a), b), At(At(doc, a), b))
<1> DEFINE data == Merge(doc)
           d == At(Defaults, a)
           o == At(doc, a)
<1>1. Is("map", d) /\ Is("map", At(data, a))
  BY TopSections, ShapedSections
<1>2. At(data, a) = IF a \in Keys(doc) THEN MergeSection(d, o) ELSE d
  BY MergedOne, Zenon
<1> HIDE DEF data
<1>3. CASE a \notin Keys(doc)
  <2>1. o = Null /\ At(data, a) = d
    BY <1>2, <1>3, NoKeys
  <2>2. Keys(o) = {}
    BY <2>1, NullIs
  <2> HIDE DEF o, d
  <2> QED
    BY <1>3, <2>1, <2>2 DEF Mapped, SectionEntries, data, d, o
<1>4. CASE a \in Keys(doc)
  <2>1. At(data, a) = MergeSection(d, o)
    BY <1>2, <1>4
  <2>2. Is("map", o)
    BY <1>1, <2>1, MergeSectionIs
  <2> HIDE DEF d, o
  <2>3. /\ Keys(MergeSection(d, o)) = Keys(d) \cup Keys(o)
        /\ \A k : At(MergeSection(d, o), k) =
                    IF k \notin Keys(o) THEN At(d, k)
                    ELSE IF k \notin Keys(d) THEN At(o, k)
                    ELSE MergeInner(At(d, k), At(o, k))
    BY <1>1, <2>2, MergeSectionIs
  <2>4. ASSUME NEW k \in Keys(o), ~Is("map", At(d, k))
        PROVE  At(MergeSection(d, o), k) = At(o, k)
    BY <2>3, <2>4, MergeInnerIs
  <2> QED
    BY <2>1, <2>2, <2>3, <2>4 DEF Mapped, SectionEntries, data, d, o
<1> QED
  BY <1>3, <1>4

LEMMA MergedThree ==
    ASSUME NEW doc, OneKind(doc), Is("map", doc) \/ Is("null", doc),
           Shape(Merge(doc)), NEW a \in Keys(Defaults), NEW b \in Keys(At(Defaults, a)),
           Is("map", At(At(Defaults, a), b))
    PROVE  /\ Mapped(At(doc, a), b)
           /\ InnerEntries(Merge(doc), doc, a, b)
<1> DEFINE data == Merge(doc)
           d == At(At(Defaults, a), b)
           o == At(At(doc, a), b)
           w == At(At(data, a), b)
<1>1. Is("map", d) /\ Is("map", w)
  BY ShapedSections
<1>2. w = IF b \in Keys(At(doc, a)) THEN MergeInner(d, o) ELSE d
  BY MergedTwo DEF SectionEntries
<1> HIDE DEF data, w
<1>3. CASE b \notin Keys(At(doc, a))
  <2>1. o = Null /\ w = d
    BY <1>2, <1>3, NoKeys
  <2>2. Keys(o) = {}
    BY <2>1, NullIs
  <2> HIDE DEF o, d
  <2> QED
    BY <1>3, <2>1, <2>2 DEF Mapped, InnerEntries, data, d, o, w
<1>4. CASE b \in Keys(At(doc, a))
  <2>1. w = MergeInner(d, o)
    BY <1>2, <1>4
  <2>2. Is("map", o)
    BY <1>1, <2>1, MergeInnerIs
  <2> HIDE DEF d, o
  <2>3. /\ Keys(w) = Keys(d) \cup Keys(o)
        /\ \A k : At(w, k) = IF k \in Keys(o) THEN At(o, k) ELSE At(d, k)
    BY <1>1, <2>1, <2>2, MergeInnerIs
  <2> QED
    BY <2>2, <2>3 DEF Mapped, InnerEntries, data, d, o, w
<1> QED
  BY <1>3, <1>4

(***************************************************************************)
(* The knobs, and the entries that no default has.                         *)
(***************************************************************************)
Sound(doc) ==
  /\ OneKind(doc) /\ (Is("map", doc) \/ Is("null", doc))
  /\ Shape(Merge(doc))

\* A knob has the file's value, or its default.
LEMMA EachKnob ==
    ASSUME NEW doc, Sound(doc), NEW knob \in Knobs
    PROVE  Dig(Merge(doc), knob) = Dig(IF Has(doc, knob) THEN doc ELSE Defaults, knob)
<1> DEFINE data == Merge(doc)
<1>0. OneKind(doc) /\ (Is("map", doc) \/ Is("null", doc)) /\ Shape(data)
  BY DEF Sound
<1> HIDE DEF data
<1>1. ASSUME NEW a \in Keys(Defaults), NEW b \in Keys(At(Defaults, a)),
             ~Is("map", At(At(Defaults, a), b))
      PROVE  Dig(data, <<a, b>>) = Dig(IF Has(doc, <<a, b>>) THEN doc ELSE Defaults, <<a, b>>)
  <2>1. Has(doc, <<a, b>>) <=> b \in Keys(At(doc, a))
    <3>1. b \in Keys(At(doc, a)) => a \in Keys(doc)
      BY NoKeys, NullIs
    <3> QED
      BY <3>1, HasTwo
  <2>2. SectionEntries(data, doc, a)
    BY <1>0, MergedTwo DEF data
  <2>3. At(At(data, a), b) = IF b \in Keys(At(doc, a)) THEN At(At(doc, a), b)
                             ELSE At(At(Defaults, a), b)
    BY <1>1, <2>2 DEF SectionEntries
  <2>4. \A v : Dig(v, <<a, b>>) = At(At(v, a), b)
    BY DigTwo
  <2> QED
    BY <2>1, <2>3, <2>4, Zenon
<1>2. ASSUME NEW a \in Keys(Defaults), NEW b \in Keys(At(Defaults, a)),
             NEW c \in Keys(At(At(Defaults, a), b)), Is("map", At(At(Defaults, a), b))
      PROVE  Dig(data, <<a, b, c>>)
               = Dig(IF Has(doc, <<a, b, c>>) THEN doc ELSE Defaults, <<a, b, c>>)
  <2>1. Has(doc, <<a, b, c>>) <=> c \in Keys(At(At(doc, a), b))
    <3>1. b \in Keys(At(doc, a)) => a \in Keys(doc)
      BY NoKeys, NullIs
    <3>2. c \in Keys(At(At(doc, a), b)) => b \in Keys(At(doc, a))
      BY NoKeys, NullIs
    <3> QED
      BY <3>1, <3>2, HasThree
  <2>2. InnerEntries(data, doc, a, b)
    BY <1>0, <1>2, MergedThree DEF data
  <2>3. At(At(At(data, a), b), c) =
          IF c \in Keys(At(At(doc, a), b)) THEN At(At(At(doc, a), b), c)
          ELSE At(At(At(Defaults, a), b), c)
    BY <2>2 DEF InnerEntries
  <2>4. ASSUME NEW v PROVE Dig(v, <<a, b, c>>) = At(At(At(v, a), b), c)
    BY DigThree
  <2> QED
    BY <2>1, <2>3, <2>4, Zenon
<1>3. \/ \E a \in Keys(Defaults) : \E b \in Keys(At(Defaults, a)) :
           ~Is("map", At(At(Defaults, a), b)) /\ knob = <<a, b>>
      \/ \E a \in Keys(Defaults) : \E b \in Keys(At(Defaults, a)) :
           \E c \in Keys(At(At(Defaults, a), b)) :
             Is("map", At(At(Defaults, a), b)) /\ knob = <<a, b, c>>
  BY KnobsIn, Zenon
<1> QED
  BY <1>1, <1>2, <1>3, Zenon DEF data

\* The paths of the entries that no default has, by the depth of their section.
Odd(doc, q) ==
  \/ \E k \in Keys(doc) \ Keys(Defaults) : q = <<k>>
  \/ \E a \in Keys(Defaults) : \E k \in Keys(At(doc, a)) \ Keys(At(Defaults, a)) : q = <<a, k>>
  \/ \E a \in Keys(Defaults) : \E b \in Keys(At(Defaults, a)) :
       /\ Is("map", At(At(Defaults, a), b))
       /\ \E k \in Keys(At(At(doc, a), b)) \ Keys(At(At(Defaults, a), b)) : q = <<a, b, k>>

\* The same set as KnobsEffective writes it.
LEMMA OddIs ==
    ASSUME NEW doc, NEW q
    PROVE  (\E section \in Sections :
              \E k \in Keys(Dig(doc, section)) \ Keys(Dig(Defaults, section)) :
                q = Append(section, k))
           <=> Odd(doc, q)
<1> DEFINE P0 == <<>>
           P1(a) == <<a>>
           P2(a, b) == <<a, b>>
           P3(a, b, c) == <<a, b, c>>
           After(s) == \E k \in Keys(Dig(doc, s)) \ Keys(Dig(Defaults, s)) : q = Append(s, k)
<1>1. \A v, k : Dig(v, P0) = v /\ Append(P0, k) = P1(k)
  BY DigNone, Short
<1>2. \A v, a, k : Dig(v, P1(a)) = At(v, a) /\ Append(P1(a), k) = P2(a, k)
  BY DigOne, Short
<1>3. ASSUME NEW v, NEW a, NEW b PROVE Dig(v, P2(a, b)) = At(At(v, a), b)
  BY DigTwo
<1>x. ASSUME NEW a, NEW b, NEW k PROVE Append(P2(a, b), k) = P3(a, b, k)
  BY Short
<1>4. \A s : s \in Sections <=>
        \/ s = P0
        \/ \E a \in Keys(Defaults) : s = P1(a)
        \/ \E a \in Keys(Defaults) : \E b \in Keys(At(Defaults, a)) :
             Is("map", At(At(Defaults, a), b)) /\ s = P2(a, b)
  BY SectionsAre
<1> HIDE DEF P0, P1, P2, P3
<1>5. After(P0) <=> \E k \in Keys(doc) \ Keys(Defaults) : q = P1(k)
  BY <1>1
<1>6. ASSUME NEW a
      PROVE  After(P1(a)) <=> \E k \in Keys(At(doc, a)) \ Keys(At(Defaults, a)) : q = P2(a, k)
  BY <1>2
<1>7. ASSUME NEW a, NEW b
      PROVE  After(P2(a, b)) <=>
               \E k \in Keys(At(At(doc, a), b)) \ Keys(At(At(Defaults, a), b)) : q = P3(a, b, k)
  <2>1. Dig(doc, P2(a, b)) = At(At(doc, a), b) /\ Dig(Defaults, P2(a, b)) = At(At(Defaults, a), b)
    BY <1>3
  <2>2. \A k : Append(P2(a, b), k) = P3(a, b, k)
    BY <1>x
  <2> QED
    BY <2>1, <2>2, Zenon
<1> HIDE DEF After
<1>8. (\E s \in Sections : After(s)) <=>
        \/ After(P0)
        \/ \E a \in Keys(Defaults) : After(P1(a))
        \/ \E a \in Keys(Defaults) : \E b \in Keys(At(Defaults, a)) :
             Is("map", At(At(Defaults, a), b)) /\ After(P2(a, b))
  BY <1>4
<1>9. (\E s \in Sections : After(s)) <=> Odd(doc, q)
  <2> DEFINE X1(x) == \E k \in Keys(doc) \ Keys(Defaults) : q = <<k>>
             X2(a) == \E k \in Keys(At(doc, a)) \ Keys(At(Defaults, a)) : q = <<a, k>>
             X3(a, b) == \E k \in Keys(At(At(doc, a), b)) \ Keys(At(At(Defaults, a), b)) :
                           q = <<a, b, k>>
  <2>1. After(P0) <=> X1(0)
    BY <1>5, Zenon DEF P1
  <2>2. \A a : After(P1(a)) <=> X2(a)
    BY <1>6, Zenon DEF P2
  <2>3. \A a, b : After(P2(a, b)) <=> X3(a, b)
    BY <1>7, Zenon DEF P3
  <2>4. Odd(doc, q) <=>
          \/ X1(0)
          \/ \E a \in Keys(Defaults) : X2(a)
          \/ \E a \in Keys(Defaults) : \E b \in Keys(At(Defaults, a)) :
               Is("map", At(At(Defaults, a), b)) /\ X3(a, b)
    BY Zenon DEF Odd
  <2> HIDE DEF X1, X2, X3
  <2> QED
    BY <1>8, <2>1, <2>2, <2>3, <2>4
<1> QED
  BY <1>9, Zenon DEF After

\* An entry that no default has stays, with its value.
LEMMA OddKept ==
    ASSUME NEW doc, Sound(doc), NEW q, Odd(doc, q)
    PROVE  Has(Merge(doc), q) /\ Dig(Merge(doc), q) = Dig(doc, q)
<1> DEFINE data == Merge(doc)
<1>0. OneKind(doc) /\ (Is("map", doc) \/ Is("null", doc)) /\ Shape(data)
  BY DEF Sound
<1>e. TopEntries(data, doc)
  BY <1>0, MergedOne
<1>1. ASSUME NEW k \in Keys(doc) \ Keys(Defaults)
      PROVE  Has(data, <<k>>) /\ Dig(data, <<k>>) = Dig(doc, <<k>>)
  <2> HIDE DEF data
  <2>1. k \in Keys(data) /\ At(data, k) = At(doc, k)
    BY <1>e DEF TopEntries
  <2> QED
    BY <2>1, HasOne, DigOne
<1>2. ASSUME NEW a \in Keys(Defaults), NEW k \in Keys(At(doc, a)) \ Keys(At(Defaults, a))
      PROVE  Has(data, <<a, k>>) /\ Dig(data, <<a, k>>) = Dig(doc, <<a, k>>)
  <2>1. SectionEntries(data, doc, a)
    BY <1>0, MergedTwo
  <2> HIDE DEF data
  <2>2. a \in Keys(data) /\ k \in Keys(At(data, a))
    BY <1>e, <2>1 DEF TopEntries, SectionEntries
  <2>3. ~Is("map", At(At(Defaults, a), k))
    BY NoKeys, Kinds
  <2>4. At(At(data, a), k) = At(At(doc, a), k)
    BY <2>1, <2>3 DEF SectionEntries
  <2> QED
    BY <2>2, <2>4, HasTwo, DigTwo
<1>3. ASSUME NEW a \in Keys(Defaults), NEW b \in Keys(At(Defaults, a)),
             Is("map", At(At(Defaults, a), b)),
             NEW k \in Keys(At(At(doc, a), b)) \ Keys(At(At(Defaults, a), b))
      PROVE  Has(data, <<a, b, k>>) /\ Dig(data, <<a, b, k>>) = Dig(doc, <<a, b, k>>)
  <2>1. SectionEntries(data, doc, a) /\ InnerEntries(data, doc, a, b)
    BY <1>0, <1>3, MergedTwo, MergedThree
  <2> HIDE DEF data
  <2>2. /\ a \in Keys(data) /\ b \in Keys(At(data, a)) /\ k \in Keys(At(At(data, a), b))
        /\ At(At(At(data, a), b), k) = At(At(At(doc, a), b), k)
    BY <1>e, <2>1 DEF TopEntries, SectionEntries, InnerEntries
  <2>3. Has(data, <<a, b, k>>)
    BY <2>2, HasThree
  <2>4. Dig(data, <<a, b, k>>) = At(At(At(data, a), b), k)
        /\ Dig(doc, <<a, b, k>>) = At(At(At(doc, a), b), k)
    BY DigThree
  <2> QED
    BY <2>2, <2>3, <2>4
<1> QED
  BY <1>1, <1>2, <1>3, Zenon DEF Odd

(***************************************************************************)
(* The paths that deep_merge warns about.                                  *)
(***************************************************************************)
LEMMA StrangeInnerIs ==
    ASSUME NEW base, NEW o, NEW path, NEW q, Is("map", base)
    PROVE  q \in StrangeInner(base, o, path) <=>
             \E k \in Keys(o) \ Keys(base) : q = Append(path, k)
<1> DEFINE b == base.map
           c == o.map
           U == UNION {IF k \in DOMAIN b THEN {} ELSE {Append(path, k)} : k \in DOMAIN c}
<1>1. StrangeInner(base, o, path) = IF Is("map", o) THEN U ELSE {}
  BY Zenon DEF StrangeInner, Strange, NothingStrange
<1>2. Keys(base) = DOMAIN b /\ Keys(o) = IF Is("map", o) THEN DOMAIN c ELSE {}
  BY DEF Keys
<1> HIDE DEF b, c
<1>3. q \in U <=> \E k \in DOMAIN c \ DOMAIN b : q = Append(path, k)
  OBVIOUS
<1> HIDE DEF U
<1> QED
  BY <1>1, <1>2, <1>3

LEMMA StrangeSectionIs ==
    ASSUME NEW base, NEW o, NEW path, NEW q, Is("map", base)
    PROVE  q \in StrangeSection(base, o, path) <=>
             \/ \E k \in Keys(o) \ Keys(base) : q = Append(path, k)
             \/ \E k \in Keys(o) \cap Keys(base) :
                  q \in StrangeInner(At(base, k), At(o, k), Append(path, k))
<1> DEFINE b == base.map
           c == o.map
           U == UNION {IF k \in DOMAIN b THEN StrangeInner(b[k], c[k], Append(path, k))
                       ELSE {Append(path, k)} : k \in DOMAIN c}
<1>1. StrangeSection(base, o, path) = IF Is("map", o) THEN U ELSE {}
  BY Zenon DEF StrangeSection, Strange
<1>2. Keys(base) = DOMAIN b /\ Keys(o) = IF Is("map", o) THEN DOMAIN c ELSE {}
  BY DEF Keys
<1>3. /\ \A k \in DOMAIN b : At(base, k) = b[k]
      /\ Is("map", o) => \A k \in DOMAIN c : At(o, k) = c[k]
  BY DEF At
<1> HIDE DEF b, c
<1>4. q \in U <=> \/ \E k \in DOMAIN c \ DOMAIN b : q = Append(path, k)
                  \/ \E k \in DOMAIN c \cap DOMAIN b : q \in StrangeInner(b[k], c[k], Append(path, k))
  OBVIOUS
<1> HIDE DEF U
<1> QED
  BY <1>1, <1>2, <1>3, <1>4

LEMMA StrangeIs ==
    ASSUME NEW doc, NEW q
    PROVE  q \in Unknown(doc) <=>
             \/ \E k \in Keys(doc) \ Keys(Defaults) : q = Append(<<>>, k)
             \/ \E k \in Keys(doc) \cap Keys(Defaults) :
                  q \in StrangeSection(At(Defaults, k), At(doc, k), Append(<<>>, k))
<1> DEFINE b == Defaults.map
           c == doc.map
           path == <<>>
           U == UNION {IF k \in DOMAIN b THEN StrangeSection(b[k], c[k], Append(path, k))
                       ELSE {Append(path, k)} : k \in DOMAIN c}
<1>0. Is("map", Defaults)
  BY DefaultSections
<1>1. Unknown(doc) = IF Is("map", doc) THEN U ELSE {}
  BY <1>0, Zenon DEF Unknown, Strange
<1>2. Keys(Defaults) = DOMAIN b /\ Keys(doc) = IF Is("map", doc) THEN DOMAIN c ELSE {}
  BY <1>0 DEF Keys
<1>3. /\ \A k \in DOMAIN b : At(Defaults, k) = b[k]
      /\ Is("map", doc) => \A k \in DOMAIN c : At(doc, k) = c[k]
  BY <1>0 DEF At
<1> HIDE DEF b, c, path
<1>4. q \in U <=> \/ \E k \in DOMAIN c \ DOMAIN b : q = Append(path, k)
                  \/ \E k \in DOMAIN c \cap DOMAIN b : q \in StrangeSection(b[k], c[k], Append(path, k))
  OBVIOUS
<1> HIDE DEF U
<1>5. q \in Unknown(doc) <=>
             \/ \E k \in Keys(doc) \ Keys(Defaults) : q = Append(path, k)
             \/ \E k \in Keys(doc) \cap Keys(Defaults) :
                  q \in StrangeSection(At(Defaults, k), At(doc, k), Append(path, k))
  BY <1>1, <1>2, <1>3, <1>4
<1> QED
  BY <1>5 DEF path

\* deep_merge warns of the entries that no default has, and of no other.
LEMMA UnknownIs ==
    ASSUME NEW doc, NEW q
    PROVE  q \in Unknown(doc) <=> Odd(doc, q)
<1> DEFINE P1(a) == <<a>>
           P2(a, b) == <<a, b>>
           P3(a, b, c) == <<a, b, c>>
<1>1. ASSUME NEW a, NEW b, NEW c
      PROVE  /\ Append(<<>>, a) = P1(a) /\ Append(P1(a), b) = P2(a, b)
             /\ Append(P2(a, b), c) = P3(a, b, c)
  BY Short
<1> HIDE DEF P1, P2, P3
<1>2. \A a, k : k \notin Keys(a) => At(a, k) = Null
  BY NoKeys
<1>3. \A k : Keys(At(Null, k)) = {} /\ Keys(Null) = {}
  BY NullIs
<1>4. q \in Unknown(doc) <=>
        \/ \E k \in Keys(doc) \ Keys(Defaults) : q = P1(k)
        \/ \E a \in Keys(Defaults) : /\ a \in Keys(doc)
                                     /\ q \in StrangeSection(At(Defaults, a), At(doc, a), P1(a))
  <2>1. \A k : Append(<<>>, k) = P1(k)
    BY <1>1
  <2> QED
    BY <2>1, StrangeIs
<1>5. ASSUME NEW a \in Keys(Defaults)
      PROVE  q \in StrangeSection(At(Defaults, a), At(doc, a), P1(a)) <=>
               \/ \E k \in Keys(At(doc, a)) \ Keys(At(Defaults, a)) : q = P2(a, k)
               \/ \E b \in Keys(At(Defaults, a)) :
                    /\ b \in Keys(At(doc, a))
                    /\ q \in StrangeInner(At(At(Defaults, a), b), At(At(doc, a), b), P2(a, b))
  <2> DEFINE base == At(Defaults, a)
             o == At(doc, a)
             path == P1(a)
  <2>1. Is("map", base)
    BY TopSections
  <2>2. \A k : Append(path, k) = P2(a, k)
    BY <1>1
  <2> HIDE DEF base, o, path
  <2>3. q \in StrangeSection(base, o, path) <=>
             \/ \E k \in Keys(o) \ Keys(base) : q = Append(path, k)
             \/ \E k \in Keys(o) \cap Keys(base) :
                  q \in StrangeInner(At(base, k), At(o, k), Append(path, k))
    BY <2>1, StrangeSectionIs
  <2>4. q \in StrangeSection(base, o, path) <=>
             \/ \E k \in Keys(o) \ Keys(base) : q = P2(a, k)
             \/ \E k \in Keys(base) : /\ k \in Keys(o)
                                      /\ q \in StrangeInner(At(base, k), At(o, k), P2(a, k))
    BY <2>2, <2>3
  <2> QED
    BY <2>4 DEF base, o, path
<1>6. ASSUME NEW a \in Keys(Defaults), NEW b \in Keys(At(Defaults, a))
      PROVE  q \in StrangeInner(At(At(Defaults, a), b), At(At(doc, a), b), P2(a, b)) <=>
               /\ Is("map", At(At(Defaults, a), b))
               /\ \E k \in Keys(At(At(doc, a), b)) \ Keys(At(At(Defaults, a), b)) : q = P3(a, b, k)
  <2> DEFINE base == At(At(Defaults, a), b)
             o == At(At(doc, a), b)
             path == P2(a, b)
  <2>1. ASSUME NEW k PROVE Append(path, k) = P3(a, b, k)
    BY <1>1
  <2> HIDE DEF base, o, path
  <2>2. CASE Is("map", base)
    <3>1. q \in StrangeInner(base, o, path) <=>
             \E k \in Keys(o) \ Keys(base) : q = Append(path, k)
      BY <2>2, StrangeInnerIs
    <3> QED
      BY <2>1, <2>2, <3>1 DEF base, o, path
  <2>3. CASE ~Is("map", base)
    <3>1. q \notin StrangeInner(base, o, path)
      BY <2>3 DEF StrangeInner, Strange
    <3> QED
      BY <2>3, <3>1 DEF base, o, path
  <2> QED
    BY <2>2, <2>3
<1> DEFINE X1 == \E k \in Keys(doc) \ Keys(Defaults) : q = P1(k)
           X2(a) == \E k \in Keys(At(doc, a)) \ Keys(At(Defaults, a)) : q = P2(a, k)
           X3(a, b) == \E k \in Keys(At(At(doc, a), b)) \ Keys(At(At(Defaults, a), b)) :
                         q = P3(a, b, k)
<1>7. Odd(doc, q) <=>
        \/ X1
        \/ \E a \in Keys(Defaults) : X2(a)
        \/ \E a \in Keys(Defaults) : \E b \in Keys(At(Defaults, a)) :
             Is("map", At(At(Defaults, a), b)) /\ X3(a, b)
  BY Zenon DEF Odd, P1, P2, P3
<1>8. /\ \A a : X2(a) => a \in Keys(doc)
      /\ \A a, b : X3(a, b) => a \in Keys(doc) /\ b \in Keys(At(doc, a))
  BY <1>2, <1>3
<1>9. q \in Unknown(doc) <=>
        \/ X1
        \/ \E a \in Keys(Defaults) :
             /\ a \in Keys(doc)
             /\ \/ X2(a)
                \/ \E b \in Keys(At(Defaults, a)) :
                     /\ b \in Keys(At(doc, a))
                     /\ Is("map", At(At(Defaults, a), b)) /\ X3(a, b)
  BY <1>4, <1>5, <1>6
<1> HIDE DEF X1, X2, X3
<1> QED
  BY <1>7, <1>8, <1>9

(***************************************************************************)
(* The file, from the operator's entries to the loaded document.           *)
(***************************************************************************)
\* What an operator's entry makes of a file.
Above(v, path, n) == Dig(v, SubSeq(path, 1, (Len(path) - n + 1) - 1))
Grafted(v, path, n, x) ==
  LET key == path[Len(path) - n + 1]
  IN  [k \in Keys(Above(v, path, n)) \cup {key} |->
         IF k = key THEN x ELSE Above(v, path, n).map[k]]

LEMMA PutSteps ==
    ASSUME NEW v, NEW path, Len(path) \in Nat, NEW value
    PROVE  \E f : /\ Put(v, path, value) = f[Len(path)] /\ f[0] = value
                  /\ \A n \in 1..Len(path) : f[n] = Map(Grafted(v, path, n, f[n - 1]))
<1> DEFINE N == Len(path)
           G(n, x) == Map(Grafted(v, path, n, x))
           Good(m, g) == g = [n \in 0..m |-> IF n = 0 THEN value ELSE G(n, g[n - 1])]
           P(g) == g = [n \in 0..N |-> IF n = 0 THEN value ELSE G(n, g[n - 1])]
           f == CHOOSE g : P(g)
           S == {m \in Nat : \E g : Good(m, g)}
<1>1. Put(v, path, value) = f[N]
  BY Zenon DEF Put, Grafted, Above
<1>2. \A n, x : G(n, x) = Map(Grafted(v, path, n, x))
  OBVIOUS
<1> HIDE DEF G
<1>3. 0 \in S
  <2>1. Good(0, [n \in 0..0 |-> value])
    OBVIOUS
  <2> QED
    BY <2>1
<1>4. ASSUME NEW m \in Nat, m \in S PROVE m + 1 \in S
  <2>1. PICK g : Good(m, g)
    BY <1>4
  <2> DEFINE h == [n \in 0..(m + 1) |-> IF n = m + 1 THEN G(m + 1, g[m]) ELSE g[n]]
  <2>2. ASSUME NEW n \in 0..(m + 1)
        PROVE  h[n] = IF n = 0 THEN value ELSE G(n, h[n - 1])
    <3>1. CASE n = m + 1
      <4>1. n # 0 /\ n - 1 = m /\ m \in 0..(m + 1) /\ m # m + 1
        BY <3>1
      <4>2. h[n] = G(m + 1, g[m]) /\ h[n - 1] = g[m]
        BY <3>1, <4>1
      <4> QED
        BY <3>1, <4>1, <4>2
    <3>2. CASE n # m + 1
      <4>1. n \in 0..m /\ (n # 0 => n - 1 \in 0..(m + 1) /\ n - 1 # m + 1)
        BY <3>2
      <4>2. h[n] = g[n] /\ (n # 0 => h[n - 1] = g[n - 1])
        BY <3>2, <4>1
      <4> QED
        BY <2>1, <4>1, <4>2
    <3> QED
      BY <3>1, <3>2
  <2>3. Good(m + 1, h)
    BY <2>2
  <2> HIDE DEF h, Good
  <2>4. \E q : Good(m + 1, q)
    BY <2>3
  <2> QED
    BY <2>4
<1> HIDE DEF S
<1>5. N \in S
  BY <1>3, <1>4, Induction
<1>6. \E g : P(g)
  BY <1>5 DEF S
<1> HIDE DEF P
<1>7. P(f)
  BY <1>6, Zenon
<1> USE DEF P
<1> HIDE DEF f, N
<1>8. N \in Nat /\ N \in 0..N
  BY DEF N
<1>9. f[0] = value /\ \A n \in 1..N : f[n] = G(n, f[n - 1])
  BY <1>7, <1>8
<1> QED
  BY <1>1, <1>2, <1>9 DEF N

LEMMA PutIs ==
    ASSUME NEW v, NEW path, Len(path) \in Nat, NEW value
    PROVE  Put(v, path, value) = value \/ \E m : Put(v, path, value) = Map(m)
<1>1. PICK f : /\ Put(v, path, value) = f[Len(path)] /\ f[0] = value
               /\ \A n \in 1..Len(path) : f[n] = Map(Grafted(v, path, n, f[n - 1]))
  BY PutSteps
<1>2. CASE Len(path) = 0
  BY <1>1, <1>2
<1>3. CASE Len(path) # 0
  <2>1. Len(path) \in 1..Len(path)
    BY <1>3
  <2> QED
    BY <1>1, <2>1
<1> QED
  BY <1>2, <1>3

LEMMA PutKinds ==
    ASSUME NEW v, NEW entry \in Edits \cup LoneEdits
    PROVE  OneKind(Put(v, entry.path, entry.value))
<1>1. Len(entry.path) \in Nat
  BY ValuesAssumption
<1>2. OneKind(entry.value)
  <2>1. \E kind : DOMAIN entry.value = {kind}
    BY ValuesAssumption
  <2>2. "map" # "null"
    OBVIOUS
  <2> QED
    BY <2>1, <2>2 DEF OneKind, Is
<1>3. \A m : OneKind(Map(m))
  BY Kinds DEF OneKind
<1> QED
  BY <1>1, <1>2, <1>3, PutIs

\* The file of a process that has not loaded it yet, or serves nothing yet.
FileInv ==
  /\ OneKind(file)
  /\ phase \in {"editing", "loaded", "rejected"} /\ site.config \notin {"private", "open"} => file = Null

LEMMA NullKind == OneKind(Null)
BY Kinds DEF OneKind

LEMMA FileStep == FileInv /\ [Next]_vars => FileInv'
<1> SUFFICES ASSUME FileInv, [Next]_vars PROVE FileInv'
  OBVIOUS
<1>1. ASSUME NEW entry \in Edits \cup LoneEdits, NEW count, Set(entry, count) PROVE FileInv'
  <2>1. /\ file' = Put(file, entry.path, entry.value)
        /\ site.config \in {"private", "open"} /\ site' = site
    BY <1>1 DEF Set
  <2>2. OneKind(file')
    BY <2>1, PutKinds
  <2> QED
    BY <2>1, <2>2 DEF FileInv
<1>2. CASE Edit
  BY <1>1, <1>2 DEF Edit
<1>3. CASE EditAlone
  BY <1>1, <1>3 DEF EditAlone
<1>4. ASSUME NEW unwraps, NEW mode, mode \notin {"editing", "loaded", "rejected"}, Serve(unwraps, mode) PROVE FileInv'
  <2>1. file' = Null /\ phase' \notin {"editing", "loaded", "rejected"}
    BY <1>4 DEF Serve, Step
  <2> QED
    BY <2>1, NullKind DEF FileInv
<1>5. CASE LoadConfig
  BY <1>5 DEF LoadConfig, FileInv
<1>6. CASE Nameless \/ PrintConfig
  BY <1>6 DEF Nameless, PrintConfig, Step, FileInv
<1>7. CASE DryRun
  BY <1>4, <1>7 DEF DryRun
<1>8. CASE Start
  <2>1. \E unwraps : \E mode \in {"panicked", "refused", "serving"} : Serve(unwraps, mode)
    BY <1>8, Zenon DEF Start
  <2> QED
    BY <1>4, <2>1
<1>9. CASE Report
  <2>1. UNCHANGED <<file, site>> /\ phase' \in {"unreported", "reported once", "reported"}
    BY <1>9 DEF Report
  <2> QED
    BY <2>1 DEF FileInv
<1>10. CASE Wait
  BY <1>10 DEF Wait, Step, FileInv
<1>11. CASE UNCHANGED vars
  BY <1>11 DEF vars, FileInv
<1> QED
  BY <1>2, <1>3, <1>5, <1>6, <1>7, <1>8, <1>9, <1>10, <1>11 DEF Next

\* What is loaded has every knob of the file.
LEMMA KnobsFollow == IInv /\ FileInv => KnobsEffective
<1> SUFFICES ASSUME IInv, FileInv, phase = "loaded" PROVE KnobsEffective
  BY DEF KnobsEffective
<1> DEFINE doc == Document(file, site)
           data == Merge(doc)
           odd == UNION {{Append(section, k) :
                    k \in Keys(Dig(file, section)) \ Keys(Dig(Defaults, section))} :
                    section \in Sections}
<1>1. doc = file
  BY DEF Document, FileInv
<1>2. /\ cfg = Settled(data, site.hostname, site, Unknown(doc), Told(data, site))
      /\ cfg.data = data /\ Shape(data)
      /\ Is("map", doc) \/ Is("null", doc)
  BY LoadedIs, Zenon
<1> HIDE DEF doc
<1>3. Sound(doc)
  BY <1>1, <1>2 DEF Sound, FileInv
<1>4. cfg.unknown = Unknown(doc)
  <2> HIDE DEF data
  <2> QED
    BY <1>2, SettledIs
<1>5. \A q : q \in odd <=> Odd(file, q)
  <2>1. \A q : q \in odd <=>
          \E section \in Sections :
              \E k \in Keys(Dig(file, section)) \ Keys(Dig(Defaults, section)) :
                q = Append(section, k)
    OBVIOUS
  <2> HIDE DEF odd
  <2> QED
    BY <2>1, OddIs
<1> HIDE DEF odd
<1>6. \A knob \in Knobs :
        Dig(cfg.data, knob) = Dig(IF Has(file, knob) THEN file ELSE Defaults, knob)
  BY <1>1, <1>2, <1>3, EachKnob
<1>7. \A path \in odd : Has(cfg.data, path) /\ Dig(cfg.data, path) = Dig(file, path)
  BY <1>1, <1>2, <1>3, <1>5, OddKept
<1>8. cfg.unknown = odd
  BY <1>1, <1>4, <1>5, UnknownIs
<1> QED
  BY <1>6, <1>7, <1>8, Zenon DEF KnobsEffective, odd

(***************************************************************************)
(* The nodes of a tree, level by level.                                    *)
(***************************************************************************)
LEMMA LevelsAre ==
    ASSUME NEW v
    PROVE  /\ Levels(v)[0] = {v}
           /\ \A n \in 1..MaxDepth : Levels(v)[n] = UNION {Inner(x) : x \in Levels(v)[n - 1]}
<1> DEFINE N == MaxDepth
           G(X) == UNION {Inner(x) : x \in X}
           Good(m, g) == g = [n \in 0..m |-> IF n = 0 THEN {v} ELSE G(g[n - 1])]
           P(g) == g = [n \in 0..N |-> IF n = 0 THEN {v} ELSE G(g[n - 1])]
           S == {m \in Nat : \E g : Good(m, g)}
<1>1. Levels(v) = CHOOSE g : P(g)
  BY Zenon DEF Levels
<1>2. \A X : G(X) = UNION {Inner(x) : x \in X}
  OBVIOUS
<1> HIDE DEF G
<1>3. 0 \in S
  <2>1. Good(0, [n \in 0..0 |-> {v}])
    OBVIOUS
  <2> QED
    BY <2>1
<1>4. ASSUME NEW m \in Nat, m \in S PROVE m + 1 \in S
  <2>1. PICK g : Good(m, g)
    BY <1>4
  <2> DEFINE h == [n \in 0..(m + 1) |-> IF n = m + 1 THEN G(g[m]) ELSE g[n]]
  <2>2. ASSUME NEW n \in 0..(m + 1)
        PROVE  h[n] = IF n = 0 THEN {v} ELSE G(h[n - 1])
    <3>1. CASE n = m + 1
      <4>1. n # 0 /\ n - 1 = m /\ m \in 0..(m + 1) /\ m # m + 1
        BY <3>1
      <4>2. h[n] = G(g[m]) /\ h[n - 1] = g[m]
        BY <3>1, <4>1
      <4> QED
        BY <3>1, <4>1, <4>2
    <3>2. CASE n # m + 1
      <4>1. n \in 0..m /\ (n # 0 => n - 1 \in 0..(m + 1) /\ n - 1 # m + 1)
        BY <3>2
      <4>2. h[n] = g[n] /\ (n # 0 => h[n - 1] = g[n - 1])
        BY <3>2, <4>1
      <4> QED
        BY <2>1, <4>1, <4>2
    <3> QED
      BY <3>1, <3>2
  <2>3. Good(m + 1, h)
    BY <2>2
  <2> HIDE DEF h, Good
  <2>4. \E q : Good(m + 1, q)
    BY <2>3
  <2> QED
    BY <2>4
<1> HIDE DEF S
<1>5. N \in S
  BY <1>3, <1>4, Induction, DepthAssumption
<1>6. \E g : P(g)
  BY <1>5 DEF S
<1> HIDE DEF P
<1>7. P(Levels(v))
  BY <1>1, <1>6, Zenon
<1> USE DEF P
<1>8. N \in Nat
  BY DepthAssumption
<1> HIDE DEF N
<1>9. Levels(v)[0] = {v}
  BY <1>7, <1>8
<1>10. ASSUME NEW n \in 1..N PROVE Levels(v)[n] = G(Levels(v)[n - 1])
  BY <1>7, <1>8
<1> QED
  BY <1>2, <1>9, <1>10 DEF N

\* One level of a tree is the level above of the trees within.
LEMMA LevelsWithin ==
    ASSUME NEW v, NEW n \in 1..MaxDepth
    PROVE  Levels(v)[n] = UNION {Levels(c)[n - 1] : c \in Inner(v)}
<1> DEFINE W(m) == UNION {Levels(c)[m - 1] : c \in Inner(v)}
           S == {m \in Nat : m + 1 <= MaxDepth => Levels(v)[m + 1] = W(m + 1)}
<1>0. MaxDepth \in Nat
  BY DepthAssumption
<1>1. 0 \in S
  <2> SUFFICES ASSUME 1 <= MaxDepth PROVE Levels(v)[1] = W(1)
    OBVIOUS
  <2>1. Levels(v)[1] = UNION {Inner(x) : x \in Levels(v)[0]}
    <3>1. 1 \in 1..MaxDepth /\ 1 - 1 = 0
      BY <1>0
    <3> QED
      BY <3>1, LevelsAre
  <2>2. Levels(v)[1] = Inner(v)
    BY <2>1, LevelsAre
  <2>3. \A c : Levels(c)[1 - 1] = {c}
    BY LevelsAre
  <2> QED
    BY <2>2, <2>3
<1>2. ASSUME NEW m \in Nat, m \in S PROVE m + 1 \in S
  <2> SUFFICES ASSUME (m + 1) + 1 <= MaxDepth PROVE Levels(v)[(m + 1) + 1] = W((m + 1) + 1)
    OBVIOUS
  <2>1. (m + 1) + 1 \in 1..MaxDepth /\ ((m + 1) + 1) - 1 = m + 1 /\ m + 1 \in 1..MaxDepth
        /\ (m + 1) - 1 = m /\ m + 1 <= MaxDepth
    BY <1>0
  <2>2. Levels(v)[(m + 1) + 1] = UNION {Inner(x) : x \in Levels(v)[m + 1]}
    BY <2>1, LevelsAre
  <2>3. Levels(v)[m + 1] = UNION {Levels(c)[m] : c \in Inner(v)}
    BY <1>2, <2>1
  <2>4. \A c : Levels(c)[m + 1] = UNION {Inner(x) : x \in Levels(c)[m]}
    BY <2>1, LevelsAre
  <2>5. W((m + 1) + 1) = UNION {Levels(c)[m + 1] : c \in Inner(v)}
    BY <2>1
  <2> HIDE DEF W
  <2>6. ASSUME NEW y
        PROVE  y \in Levels(v)[(m + 1) + 1] <=> y \in W((m + 1) + 1)
    <3>1. y \in Levels(v)[(m + 1) + 1] <=> \E c \in Inner(v) : \E x \in Levels(c)[m] : y \in Inner(x)
      BY <2>2, <2>3
    <3>2. y \in W((m + 1) + 1) <=> \E c \in Inner(v) : y \in Levels(c)[m + 1]
      BY <2>5
    <3> QED
      BY <3>1, <3>2, <2>4
  <2> QED
    BY <2>6
<1> HIDE DEF S
<1>3. \A m \in Nat : m \in S
  BY <1>1, <1>2, Induction
<1>4. n - 1 \in Nat /\ (n - 1) + 1 = n /\ n <= MaxDepth
  BY <1>0
<1> QED
  BY <1>3, <1>4 DEF S

\* The trees within have one level less.
LEMMA ShallowIs ==
    ASSUME NEW v, NEW n \in 1..MaxDepth
    PROVE  Shallow(v, n) <=> \A c \in Inner(v) : Shallow(c, n - 1)
<1>1. Levels(v)[n] = UNION {Levels(c)[n - 1] : c \in Inner(v)}
  BY LevelsWithin
<1> QED
  BY <1>1 DEF Shallow

\* A tree of fewer levels has fewer than more.
LEMMA ShallowUp ==
    ASSUME NEW v, NEW n \in 0..MaxDepth, Shallow(v, n), NEW m \in n..MaxDepth
    PROVE  Shallow(v, m)
<1> DEFINE S == {k \in Nat : k <= m - n => Shallow(v, n + k)}
<1>0. MaxDepth \in Nat
  BY DepthAssumption
<1>1. 0 \in S
  <2>1. n + 0 = n
    BY <1>0
  <2> QED
    BY <2>1
<1>2. ASSUME NEW k \in Nat, k \in S PROVE k + 1 \in S
  <2> SUFFICES ASSUME k + 1 <= m - n PROVE Shallow(v, n + (k + 1))
    OBVIOUS
  <2>1. n + (k + 1) \in 1..MaxDepth /\ (n + (k + 1)) - 1 = n + k /\ k <= m - n
    BY <1>0
  <2>2. Levels(v)[n + k] = {}
    BY <1>2, <2>1 DEF Shallow
  <2>3. Levels(v)[n + (k + 1)] = UNION {Inner(x) : x \in Levels(v)[n + k]}
    BY <2>1, LevelsAre
  <2> QED
    BY <2>2, <2>3 DEF Shallow
<1> HIDE DEF S
<1>3. \A k \in Nat : k \in S
  BY <1>1, <1>2, Induction
<1>4. m - n \in Nat /\ n + (m - n) = m
  BY <1>0
<1> QED
  BY <1>3, <1>4 DEF S

\* Every tree has a root.
LEMMA NotShallow == ASSUME NEW v PROVE ~Shallow(v, 0)
BY LevelsAre DEF Shallow

\* A tree is its root and the trees within it.
LEMMA NodesAre ==
    ASSUME NEW v, Shallow(v, MaxDepth)
    PROVE  /\ Nodes(v) = {v} \cup UNION {Nodes(c) : c \in Inner(v)}
           /\ \A c \in Inner(v) : Shallow(c, MaxDepth) /\ Shallow(c, MaxDepth - 1)
<1>0. MaxDepth \in Nat /\ MaxDepth \in 1..MaxDepth /\ 0 \in 0..MaxDepth
      /\ MaxDepth - 1 \in 0..MaxDepth /\ MaxDepth \in (MaxDepth - 1)..MaxDepth
  BY DepthAssumption
<1>1. ASSUME NEW c \in Inner(v) PROVE Shallow(c, MaxDepth) /\ Shallow(c, MaxDepth - 1)
  <2>1. Shallow(c, MaxDepth - 1)
    BY <1>0, ShallowIs
  <2> QED
    BY <1>0, <2>1, ShallowUp
<1>2. \A x, w : x \in Nodes(w) <=> \E n \in 0..MaxDepth : x \in Levels(w)[n]
  BY DEF Nodes
<1>3. ASSUME NEW x \in Nodes(v) PROVE x = v \/ \E c \in Inner(v) : x \in Nodes(c)
  <2>1. PICK n \in 0..MaxDepth : x \in Levels(v)[n]
    BY <1>2
  <2>2. CASE n = 0
    BY <2>1, <2>2, LevelsAre
  <2>3. CASE n # 0
    <3>1. n \in 1..MaxDepth /\ n - 1 \in 0..MaxDepth
      BY <1>0, <2>3
    <3>2. PICK c \in Inner(v) : x \in Levels(c)[n - 1]
      BY <2>1, <3>1, LevelsWithin
    <3> QED
      BY <1>2, <3>1, <3>2
  <2> QED
    BY <2>2, <2>3
<1>4. v \in Nodes(v)
  BY <1>0, <1>2, LevelsAre
<1>5. ASSUME NEW c \in Inner(v), NEW x \in Nodes(c) PROVE x \in Nodes(v)
  <2>1. PICK n \in 0..MaxDepth : x \in Levels(c)[n]
    BY <1>2
  <2>2. n # MaxDepth
    BY <1>1, <2>1 DEF Shallow
  <2>3. n + 1 \in 1..MaxDepth /\ n + 1 \in 0..MaxDepth /\ (n + 1) - 1 = n
    BY <1>0, <2>2
  <2>4. x \in Levels(v)[n + 1]
    BY <2>1, <2>3, LevelsWithin
  <2> QED
    BY <1>2, <2>3, <2>4
<1>6. \A x : x \in Nodes(v) <=> (x = v \/ \E c \in Inner(v) : x \in Nodes(c))
  BY <1>3, <1>4, <1>5
<1> QED
  BY <1>1, <1>6

(***************************************************************************)
(* What is read of a file, and what is made of it.                         *)
(***************************************************************************)
\* A tree of fewer than n levels whose nulls are what YAML reads as null, without
\* the null key if clean.
Orderly(v, n, clean) ==
  /\ Shallow(v, n)
  /\ \A x \in Nodes(v) : /\ Is("null", x) => x = Null
                         /\ clean => NullKey \notin Keys(x)

LEMMA OrderlyNone == ASSUME NEW v, NEW clean PROVE ~Orderly(v, 0, clean)
BY NotShallow DEF Orderly

\* Orderly, node by node.
LEMMA OrderlyIs ==
    ASSUME NEW v, NEW n \in 1..MaxDepth, NEW clean
    PROVE  Orderly(v, n, clean) <=>
             /\ Is("null", v) => v = Null
             /\ clean => NullKey \notin Keys(v)
             /\ \A c \in Inner(v) : Orderly(c, n - 1, clean)
<1>0. /\ n \in 0..MaxDepth /\ MaxDepth \in n..MaxDepth /\ n - 1 \in 0..MaxDepth
      /\ MaxDepth \in (n - 1)..MaxDepth
  BY DepthAssumption
<1> DEFINE Fine(x) == (Is("null", x) => x = Null) /\ (clean => NullKey \notin Keys(x))
<1>1. \A w, m : Orderly(w, m, clean) <=> Shallow(w, m) /\ \A x \in Nodes(w) : Fine(x)
  BY DEF Orderly
<1> HIDE DEF Fine
<1>2. Shallow(v, n) <=> \A c \in Inner(v) : Shallow(c, n - 1)
  BY ShallowIs
<1>3. Shallow(v, n) => Nodes(v) = {v} \cup UNION {Nodes(c) : c \in Inner(v)}
  BY <1>0, ShallowUp, NodesAre
<1>4. Shallow(v, n) => ((\A x \in Nodes(v) : Fine(x))
                         <=> Fine(v) /\ \A c \in Inner(v) : \A x \in Nodes(c) : Fine(x))
  BY <1>3
<1>5. Orderly(v, n, clean) <=> Fine(v) /\ \A c \in Inner(v) : Orderly(c, n - 1, clean)
  BY <1>1, <1>2, <1>4
<1> QED
  BY <1>5 DEF Fine

\* Fewer levels, and a null key allowed.
LEMMA OrderlyUp ==
    ASSUME NEW v, NEW n \in 0..MaxDepth, NEW m \in n..MaxDepth, NEW clean, Orderly(v, n, clean)
    PROVE  Orderly(v, m, clean) /\ Orderly(v, m, FALSE)
BY ShallowUp DEF Orderly

\* A mapping of orderly trees.
LEMMA OrderlyMap ==
    ASSUME NEW f, NEW n \in 1..MaxDepth, NEW clean
    PROVE  Orderly(Map(f), n, clean) <=>
             /\ clean => NullKey \notin DOMAIN f
             /\ \A k \in DOMAIN f : Orderly(f[k], n - 1, clean)
<1>1. ~Is("null", Map(f)) /\ ~Is("list", Map(f)) /\ Is("map", Map(f)) /\ Map(f).map = f
  BY DEF Is, Map
<1>2. Keys(Map(f)) = DOMAIN f
  BY <1>1 DEF Keys
<1>3. Inner(Map(f)) = {f[k] : k \in DOMAIN f}
  BY <1>1, <1>2 DEF Inner
<1> HIDE DEF Map
<1> QED
  BY <1>1, <1>2, <1>3, OrderlyIs

LEMMA OrderlyLeaf ==
    ASSUME NEW v, ~Is("map", v), ~Is("list", v), Is("null", v) => v = Null
    PROVE  Orderly(v, 1, TRUE)
<1>1. Inner(v) = {} /\ Keys(v) = {}
  BY DEF Inner, Keys
<1>2. 1 \in 1..MaxDepth
  BY DepthAssumption
<1> QED
  BY <1>1, <1>2, OrderlyIs

\* Scalars, and the values of a default.
LEMMA OrderlyScalars ==
    ASSUME NEW x
    PROVE  /\ Orderly(Null, 1, TRUE) /\ Orderly(Bool(x), 1, TRUE) /\ Orderly(Num(x), 1, TRUE)
           /\ Orderly(Float(x), 1, TRUE) /\ Orderly(Str(x), 1, TRUE)
<1>1. ASSUME NEW v \in {Null, Bool(x), Num(x), Float(x), Str(x)}
      PROVE  ~Is("map", v) /\ ~Is("list", v) /\ (Is("null", v) => v = Null)
  BY DEF Is, Null, Bool, Num, Float, Str
<1> QED
  BY <1>1, OrderlyLeaf

\* What is at a key, or nothing.
LEMMA OrderlyAt ==
    ASSUME NEW v, NEW n \in 2..MaxDepth, NEW clean, Orderly(v, n, clean), NEW k
    PROVE  Orderly(At(v, k), n - 1, clean)
<1>1. CASE k \in Keys(v)
  <2>1. At(v, k) = v.map[k] /\ v.map[k] \in Inner(v)
    BY <1>1 DEF At, Keys, Inner
  <2>2. n \in 1..MaxDepth
    BY DepthAssumption
  <2> QED
    BY <2>1, <2>2, OrderlyIs
<1>2. CASE k \notin Keys(v)
  <2>1. At(v, k) = Null
    BY <1>2 DEF At, Keys
  <2>2. 1 \in 0..MaxDepth /\ n - 1 \in 1..MaxDepth
    BY DepthAssumption
  <2>3. Orderly(Null, 1, clean)
    BY OrderlyScalars DEF Orderly
  <2> QED
    BY <2>1, <2>2, <2>3, OrderlyUp
<1> QED
  BY <1>1, <1>2

\* deep_merge makes nothing that neither side has.
LEMMA OrderlyInner ==
    ASSUME NEW b, NEW o, NEW n \in 0..MaxDepth, NEW clean,
           Orderly(b, n, clean), Orderly(o, n, clean)
    PROVE  Orderly(MergeInner(b, o), n, clean)
<1>1. n \in 1..MaxDepth
  BY OrderlyNone, DepthAssumption
<1>2. CASE Is("map", b) /\ Is("map", o)
  <2> DEFINE f == [k \in DOMAIN b.map \cup DOMAIN o.map |->
                     IF k \notin DOMAIN o.map THEN b.map[k]
                     ELSE IF k \notin DOMAIN b.map THEN o.map[k] ELSE o.map[k]]
  <2>1. MergeInner(b, o) = Map(f)
    BY <1>2, Zenon DEF MergeInner, Merged, Overrides
  <2>2. /\ \A k \in DOMAIN b.map : Orderly(b.map[k], n - 1, clean)
        /\ \A k \in DOMAIN o.map : Orderly(o.map[k], n - 1, clean)
    BY <1>1, <1>2, OrderlyIs DEF Inner, Keys
  <2>3. clean => NullKey \notin DOMAIN b.map /\ NullKey \notin DOMAIN o.map
    BY <1>1, <1>2, OrderlyIs DEF Keys
  <2>4. DOMAIN f = DOMAIN b.map \cup DOMAIN o.map
    OBVIOUS
  <2>5. \A k \in DOMAIN f : Orderly(f[k], n - 1, clean)
    BY <2>2
  <2> HIDE DEF f
  <2> QED
    BY <1>1, <2>1, <2>3, <2>4, <2>5, OrderlyMap
<1>3. CASE ~(Is("map", b) /\ Is("map", o))
  BY <1>3, Zenon DEF MergeInner, Merged, Overrides
<1> QED
  BY <1>2, <1>3

LEMMA OrderlySection ==
    ASSUME NEW b, NEW o, NEW n \in 0..MaxDepth, NEW clean,
           Orderly(b, n, clean), Orderly(o, n, clean)
    PROVE  Orderly(MergeSection(b, o), n, clean)
<1>1. n \in 1..MaxDepth
  BY OrderlyNone, DepthAssumption
<1>2. CASE Is("map", b) /\ Is("map", o)
  <2> DEFINE f == [k \in DOMAIN b.map \cup DOMAIN o.map |->
                     IF k \notin DOMAIN o.map THEN b.map[k]
                     ELSE IF k \notin DOMAIN b.map THEN o.map[k]
                     ELSE MergeInner(b.map[k], o.map[k])]
  <2>1. MergeSection(b, o) = Map(f)
    BY <1>2, Zenon DEF MergeSection, Merged
  <2>2. /\ \A k \in DOMAIN b.map : Orderly(b.map[k], n - 1, clean)
        /\ \A k \in DOMAIN o.map : Orderly(o.map[k], n - 1, clean)
    BY <1>1, <1>2, OrderlyIs DEF Inner, Keys
  <2>3. clean => NullKey \notin DOMAIN b.map /\ NullKey \notin DOMAIN o.map
    BY <1>1, <1>2, OrderlyIs DEF Keys
  <2>4. DOMAIN f = DOMAIN b.map \cup DOMAIN o.map
    OBVIOUS
  <2>5. ASSUME NEW k \in DOMAIN f PROVE Orderly(f[k], n - 1, clean)
    <3>1. n - 1 \in 0..MaxDepth
      BY <1>1, DepthAssumption
    <3>2. k \in DOMAIN b.map /\ k \in DOMAIN o.map
            => Orderly(MergeInner(b.map[k], o.map[k]), n - 1, clean)
      BY <2>2, <3>1, OrderlyInner
    <3> QED
      BY <2>2, <3>2
  <2> HIDE DEF f
  <2> QED
    BY <1>1, <2>1, <2>3, <2>4, <2>5, OrderlyMap
<1>3. CASE ~(Is("map", b) /\ Is("map", o))
  BY <1>3, Zenon DEF MergeSection, Merged, Overrides
<1> QED
  BY <1>2, <1>3

LEMMA OrderlyTop ==
    ASSUME NEW o, NEW n \in 0..MaxDepth, NEW clean,
           Orderly(Defaults, n, clean), Orderly(o, n, clean)
    PROVE  Orderly(DeepMerge(o), n, clean)
<1> DEFINE b == Defaults
<1>1. n \in 1..MaxDepth
  BY OrderlyNone, DepthAssumption
<1> HIDE DEF b
<1>2. CASE Is("map", b) /\ Is("map", o)
  <2> DEFINE f == [k \in DOMAIN b.map \cup DOMAIN o.map |->
                     IF k \notin DOMAIN o.map THEN b.map[k]
                     ELSE IF k \notin DOMAIN b.map THEN o.map[k]
                     ELSE MergeSection(b.map[k], o.map[k])]
  <2>1. DeepMerge(o) = Map(f)
    BY <1>2, Zenon DEF DeepMerge, Merged, b
  <2>2. /\ \A k \in DOMAIN b.map : Orderly(b.map[k], n - 1, clean)
        /\ \A k \in DOMAIN o.map : Orderly(o.map[k], n - 1, clean)
    BY <1>1, <1>2, OrderlyIs DEF Inner, Keys, b
  <2>3. clean => NullKey \notin DOMAIN b.map /\ NullKey \notin DOMAIN o.map
    BY <1>1, <1>2, OrderlyIs DEF Keys, b
  <2>4. DOMAIN f = DOMAIN b.map \cup DOMAIN o.map
    OBVIOUS
  <2>5. ASSUME NEW k \in DOMAIN f PROVE Orderly(f[k], n - 1, clean)
    <3>1. n - 1 \in 0..MaxDepth
      BY <1>1, DepthAssumption
    <3>2. k \in DOMAIN b.map /\ k \in DOMAIN o.map
            => Orderly(MergeSection(b.map[k], o.map[k]), n - 1, clean)
      BY <2>2, <3>1, OrderlySection
    <3> QED
      BY <2>2, <3>2
  <2> HIDE DEF f
  <2> QED
    BY <1>1, <2>1, <2>3, <2>4, <2>5, OrderlyMap
<1>3. CASE ~(Is("map", b) /\ Is("map", o))
  BY <1>3, Zenon DEF DeepMerge, Merged, Overrides, b
<1> QED
  BY <1>2, <1>3

\* The defaults are orderly: five levels at most, and no null key.
LEMMA OrderlyBools == Orderly(Yes, 1, TRUE) /\ Orderly(No, 1, TRUE)
BY OrderlyScalars DEF Yes, No

LEMMA OrderlyTls == Orderly(TlsDefaults, 2, TRUE)
<1> DEFINE f == TlsDefaults.map
<1>1. TlsDefaults = Map(f) /\ NullKey \notin DOMAIN f
  BY DEF TlsDefaults, Map, NullKey
<1>2. \A k \in DOMAIN f : f[k] \in {Null, Yes, No}
  BY Kinds DEF TlsDefaults
<1> HIDE DEF f
<1>3. \A k \in DOMAIN f : Orderly(f[k], 1, TRUE)
  BY <1>2, OrderlyScalars, OrderlyBools
<1>4. 2 \in 1..MaxDepth /\ 2 - 1 = 1
  BY DepthAssumption
<1> QED
  BY <1>1, <1>3, <1>4, OrderlyMap

LEMMA OrderlyMqtt == Orderly(MqttDefaults, 3, TRUE)
<1> DEFINE f == MqttDefaults.map
<1>1. MqttDefaults = Map(f) /\ NullKey \notin DOMAIN f
  BY MqttKeys DEF MqttDefaults, Map, NullKey
<1>2. ASSUME NEW k \in DOMAIN f PROVE f[k] = At(MqttDefaults, k)
  BY MqttKeys DEF At
<1>3. DOMAIN f =
         {"host", "port", "client_id", "keepalive_secs", "username", "password",
          "password_file", "password_env", "qos", "retain", "clean_session",
          "reconnect_min_delay_secs", "reconnect_max_delay_secs",
          "recreate_client_after_secs", "publish_timeout_secs",
          "max_queued_messages", "tls"}
  BY MqttKeys
<1> HIDE DEF f
<1>4. ASSUME NEW k \in DOMAIN f, k # "tls" PROVE Orderly(At(MqttDefaults, k), 1, TRUE)
  BY <1>3, <1>4, MqttValues, RestValues, OrderlyScalars, OrderlyBools
<1>5. 3 \in 1..MaxDepth /\ 3 - 1 = 2 /\ 1 \in 0..MaxDepth /\ 2 \in 1..MaxDepth
  BY DepthAssumption
<1>6. ASSUME NEW k \in DOMAIN f PROVE Orderly(f[k], 2, TRUE)
  BY <1>2, <1>4, <1>5, MqttValues, OrderlyTls, OrderlyUp
<1> QED
  BY <1>1, <1>5, <1>6, OrderlyMap

LEMMA OrderlyTopics == Orderly(TopicsDefaults, 2, TRUE)
<1> DEFINE f == TopicsDefaults.map
<1>1. TopicsDefaults = Map(f) /\ NullKey \notin DOMAIN f
  BY TopicsKeys DEF TopicsDefaults, Map, NullKey
<1>2. ASSUME NEW k \in DOMAIN f PROVE f[k] = At(TopicsDefaults, k)
  BY TopicsKeys DEF At
<1>3. DOMAIN f = {"prefix", "status", "json", "payload_online", "payload_offline", "status_retain"}
  BY TopicsKeys
<1> HIDE DEF f
<1>4. ASSUME NEW k \in DOMAIN f PROVE Orderly(At(TopicsDefaults, k), 1, TRUE)
  <2>1. At(TopicsDefaults, k) = Yes \/ \E x : At(TopicsDefaults, k) = Str(x)
    BY <1>3, TopicsValues DEF OnPrefix
  <2> QED
    BY <2>1, OrderlyScalars, OrderlyBools
<1>5. 2 \in 1..MaxDepth /\ 2 - 1 = 1
  BY DepthAssumption
<1> QED
  BY <1>1, <1>2, <1>4, <1>5, OrderlyMap

LEMMA OrderlyReport == Orderly(ReportDefaults, 2, TRUE)
<1> DEFINE f == ReportDefaults.map
<1>1. ReportDefaults = Map(f) /\ NullKey \notin DOMAIN f
  BY ReportKeys DEF ReportDefaults, Map, NullKey
<1>2. ASSUME NEW k \in DOMAIN f PROVE f[k] = At(ReportDefaults, k)
  BY ReportKeys DEF At
<1>3. DOMAIN f = {"interval_secs", "report_on_start", "publish_plain", "publish_json"}
  BY ReportKeys
<1> HIDE DEF f
<1>4. ASSUME NEW k \in DOMAIN f PROVE Orderly(At(ReportDefaults, k), 1, TRUE)
  BY <1>3, ReportValues, OrderlyScalars, OrderlyBools
<1>5. 2 \in 1..MaxDepth /\ 2 - 1 = 1
  BY DepthAssumption
<1> QED
  BY <1>1, <1>2, <1>4, <1>5, OrderlyMap

LEMMA OrderlyKnobs == Orderly(KnobsDefaults, 2, TRUE)
<1> DEFINE f == KnobsDefaults.map
<1>1. KnobsDefaults = Map(f) /\ NullKey \notin DOMAIN f
  BY KnobsAre DEF KnobsDefaults, Map, NullKey
<1>2. \A k \in DOMAIN f : f[k] = No
  BY KnobsAre DEF At
<1> HIDE DEF f
<1>3. 2 \in 1..MaxDepth /\ 2 - 1 = 1
  BY DepthAssumption
<1> QED
  BY <1>1, <1>2, <1>3, OrderlyMap, OrderlyBools

LEMMA OrderlyUptime == Orderly(UptimeDefaults, 2, TRUE)
<1> DEFINE f == UptimeDefaults.map
<1>1. UptimeDefaults = Map(f) /\ NullKey \notin DOMAIN f
  BY UptimeKeys DEF UptimeDefaults, Map, NullKey
<1>2. \A k \in DOMAIN f : f[k] = Yes \/ \E x : f[k] = Str(x)
  BY UptimeKeys, UptimeValues DEF At, OnPrefix
<1> HIDE DEF f
<1>3. 2 \in 1..MaxDepth /\ 2 - 1 = 1
  BY DepthAssumption
<1>4. \A k \in DOMAIN f : Orderly(f[k], 1, TRUE)
  BY <1>2, OrderlyScalars, OrderlyBools
<1> QED
  BY <1>1, <1>3, <1>4, OrderlyMap

LEMMA OrderlyMeminfo == Orderly(MeminfoDefaults, 3, TRUE)
<1> DEFINE f == MeminfoDefaults.map
           s == Str(<<"MemTotal">>)
           t == Str(<<"MemFree">>)
<1>1. MeminfoDefaults = Map(f) /\ NullKey \notin DOMAIN f
  BY MeminfoKeys DEF MeminfoDefaults, Map, NullKey
<1>2. \A k \in DOMAIN f : f[k] = Yes \/ f[k] = List(<<s, t>>) \/ \E x : f[k] = Str(x)
  BY MeminfoKeys, MeminfoValues DEF At, OnPrefix
<1> HIDE DEF f
<1>3. /\ 3 \in 1..MaxDepth /\ 3 - 1 = 2 /\ 2 \in 1..MaxDepth /\ 2 - 1 = 1 /\ 2 \in 1..MaxDepth
      /\ 1 \in 0..MaxDepth
  BY DepthAssumption
<1>4. Orderly(s, 1, TRUE) /\ Orderly(t, 1, TRUE)
  BY OrderlyScalars
<1>5. Orderly(List(<<s, t>>), 2, TRUE)
  <2> HIDE DEF s, t
  <2>1. Keys(List(<<s, t>>)) = {} /\ ~Is("null", List(<<s, t>>))
    BY DEF Keys, Is, List
  <2>2. Inner(List(<<s, t>>)) \subseteq {s, t}
    <3>1. Is("list", List(<<s, t>>)) /\ List(<<s, t>>).list = <<s, t>>
      BY DEF Is, List
    <3>2. ToSet(<<s, t>>) = {s, t}
      BY DEF ToSet
    <3> QED
      BY <2>1, <3>1, <3>2 DEF Inner
  <2> QED
    BY <1>3, <1>4, <2>1, <2>2, OrderlyIs
<1> HIDE DEF s, t
<1>6. \A k \in DOMAIN f : Orderly(f[k], 1, TRUE) \/ Orderly(f[k], 2, TRUE)
  BY <1>2, <1>5, OrderlyScalars, OrderlyBools
<1>7. \A k \in DOMAIN f : Orderly(f[k], 2, TRUE)
  BY <1>3, <1>6, OrderlyUp
<1> QED
  BY <1>1, <1>3, <1>7, OrderlyMap

LEMMA OrderlyMetrics == Orderly(MetricsDefaults, 4, TRUE)
<1> DEFINE f == MetricsDefaults.map
<1>1. MetricsDefaults = Map(f) /\ NullKey \notin DOMAIN f
  BY MetricsKeys DEF MetricsDefaults, Map, NullKey
<1>2. \A k \in DOMAIN f : f[k] \in {UptimeDefaults, MeminfoDefaults}
  BY MetricsKeys, MetricsValues DEF At
<1> HIDE DEF f
<1>3. 4 \in 1..MaxDepth /\ 4 - 1 = 3 /\ 3 \in 2..MaxDepth /\ 2 \in 0..MaxDepth
  BY DepthAssumption
<1>4. \A k \in DOMAIN f : Orderly(f[k], 3, TRUE)
  BY <1>2, <1>3, OrderlyUptime, OrderlyMeminfo, OrderlyUp
<1> QED
  BY <1>1, <1>3, <1>4, OrderlyMap

\* All of defaults.yaml.
LEMMA OrderlyDefaults == Orderly(Defaults, 5, TRUE) /\ Orderly(Defaults, MaxDepth, TRUE)
<1> DEFINE f == Defaults.map
<1>1. Defaults = Map(f) /\ NullKey \notin DOMAIN f
  BY DefaultSections DEF Defaults, Map, NullKey
<1>2. \A k \in DOMAIN f : f[k] \in {MqttDefaults, TopicsDefaults, ReportDefaults,
                                   MetricsDefaults, KnobsDefaults}
  BY DefaultSections DEF At
<1> HIDE DEF f
<1>3. /\ 5 \in 1..MaxDepth /\ 5 - 1 = 4 /\ 4 \in 2..MaxDepth /\ 4 \in 3..MaxDepth
      /\ 2 \in 0..MaxDepth /\ 3 \in 0..MaxDepth /\ 5 \in 0..MaxDepth /\ MaxDepth \in 5..MaxDepth
  BY DepthAssumption
<1>4. /\ \A v : Orderly(v, 2, TRUE) => Orderly(v, 4, TRUE)
      /\ \A v : Orderly(v, 3, TRUE) => Orderly(v, 4, TRUE)
  BY <1>3, OrderlyUp
<1>6. \A k \in DOMAIN f : Orderly(f[k], 4, TRUE)
  BY <1>2, <1>4, OrderlyMqtt, OrderlyTopics, OrderlyReport, OrderlyMetrics, OrderlyKnobs, Zenon
<1>5. Orderly(Defaults, 5, TRUE)
  BY <1>1, <1>3, <1>6, OrderlyMap
<1> QED
  BY <1>3, <1>5, OrderlyUp

\* What is down a path.
LEMMA OrderlyDig ==
    ASSUME NEW v, Orderly(v, MaxDepth, FALSE), NEW S, NEW path \in Seq(S), Len(path) < MaxDepth,
           NEW n \in 0..Len(path)
    PROVE  Orderly(Dig(v, SubSeq(path, 1, n)), MaxDepth - n, FALSE)
<1> DEFINE N == Len(path)
           D(m) == Node(v, path)[m]
           B(m) == Orderly(D(m), MaxDepth - m, FALSE)
           T == {m \in Nat : m <= N => B(m)}
<1>0. N \in Nat /\ MaxDepth \in Nat /\ MaxDepth - 0 = MaxDepth /\ N < MaxDepth
  BY DepthAssumption
<1>a. D(0) = v /\ \A m \in 1..N : D(m) = At(D(m - 1), path[m])
  BY <1>0, NodeIs
<1>b. n \in Nat /\ n <= N
  BY <1>0
<1> HIDE DEF B, N, D
<1>1. 0 \in T
  BY <1>0, <1>a DEF B
<1>2. ASSUME NEW m \in Nat, m \in T PROVE m + 1 \in T
  <2> SUFFICES ASSUME m + 1 <= N PROVE B(m + 1)
    OBVIOUS
  <2>1. /\ m + 1 \in 1..N /\ (m + 1) - 1 = m /\ m <= N
        /\ MaxDepth - m \in 2..MaxDepth /\ (MaxDepth - m) - 1 = MaxDepth - (m + 1)
    BY <1>0
  <2>2. D(m + 1) = At(D(m), path[m + 1])
    BY <1>a, <2>1
  <2>3. Orderly(D(m), MaxDepth - m, FALSE)
    BY <1>2, <2>1 DEF B
  <2> QED
    BY <2>1, <2>2, <2>3, OrderlyAt DEF B
<1> HIDE DEF T
<1>3. \A m \in Nat : m \in T
  BY <1>1, <1>2, Induction
<1>4. Orderly(D(n), MaxDepth - n, FALSE)
  BY <1>b, <1>3 DEF T, B
<1> QED
  BY <1>4, DigPrefix DEF D, N

\* An operator's entry leaves a file as orderly as it was.
LEMMA OrderlyPut ==
    ASSUME NEW v, Orderly(v, MaxDepth, FALSE), NEW path \in Seq(STRING), NEW value,
           Len(path) <= MaxDepth, Orderly(value, MaxDepth - Len(path), FALSE)
    PROVE  Orderly(Put(v, path, value), MaxDepth, FALSE)
<1> DEFINE N == Len(path)
           M == MaxDepth - N
<1>1. /\ N \in Nat /\ N <= MaxDepth /\ Shallow(value, M)
  BY DEF Orderly
<1>2. Orderly(value, M, FALSE)
  OBVIOUS
<1>3. M \in Nat \ {0} /\ MaxDepth \in Nat /\ MaxDepth - N = M /\ N \in Nat
  BY <1>1, NotShallow, DepthAssumption
<1>4. PICK f : /\ Put(v, path, value) = f[N] /\ f[0] = value
               /\ \A n \in 1..N : f[n] = Map(Grafted(v, path, n, f[n - 1]))
  BY <1>1, PutSteps
<1> HIDE DEF N, M
<1> DEFINE B(n) == Orderly(f[n], M + n, FALSE)
           S == {n \in Nat : n <= N => B(n)}
<1> HIDE DEF B
<1>5. 0 \in S
  <2>1. M + 0 = M
    BY <1>3
  <2> QED
    BY <1>2, <1>4, <2>1 DEF B
<1>6. ASSUME NEW m \in Nat, m \in S PROVE m + 1 \in S
  <2> SUFFICES ASSUME m + 1 <= N PROVE B(m + 1)
    OBVIOUS
  <2> DEFINE n == m + 1
             i == N - n
             above == Above(v, path, n)
             g == Grafted(v, path, n, f[m])
  <2>1. /\ n \in 1..N /\ n - 1 = m /\ i \in 0..N /\ (N - n + 1) - 1 = i /\ M + n = MaxDepth - i
        /\ M + n \in 1..MaxDepth /\ (M + n) - 1 = M + m /\ N < MaxDepth
    BY <1>3
  <2>2. f[n] = Map(g) /\ Orderly(f[m], M + m, FALSE)
    <3>1. f[n] = Map(Grafted(v, path, n, f[n - 1])) /\ f[n - 1] = f[m]
      <4>1. f[n] = Map(Grafted(v, path, n, f[n - 1]))
        BY <1>4, <2>1, Zenon
      <4> QED
        BY <2>1, <4>1
    <3>2. B(m)
      <4>1. m <= N
        BY <1>3
      <4> HIDE DEF n, g, above
      <4> QED
        BY <1>6, <4>1
    <3> QED
      BY <3>1, <3>2 DEF B
  <2>3. above = Dig(v, SubSeq(path, 1, i))
    BY <2>1 DEF Above, N
  <2>4. Orderly(above, M + n, FALSE)
    BY <1>1, <2>1, <2>3, OrderlyDig DEF N
  <2>5. ASSUME NEW k \in Keys(above) PROVE Orderly(above.map[k], M + m, FALSE)
    <3>1. above.map[k] \in Inner(above)
      BY DEF Inner
    <3>2. \A c \in Inner(above) : Orderly(c, (M + n) - 1, FALSE)
      <4> HIDE DEF above, n
      <4> QED
        BY <2>1, <2>4, OrderlyIs
    <3> QED
      BY <2>1, <3>1, <3>2
  <2>6. \A k \in DOMAIN g : g[k] = f[m] \/ (k \in Keys(above) /\ g[k] = above.map[k])
    BY DEF Grafted
  <2> HIDE DEF g, above
  <2>7. \A k \in DOMAIN g : Orderly(g[k], M + m, FALSE)
    BY <2>2, <2>5, <2>6
  <2>8. Orderly(Map(g), M + n, FALSE)
    BY <2>1, <2>7, OrderlyMap
  <2> QED
    BY <2>2, <2>8 DEF B
<1> HIDE DEF S
<1>7. \A n \in Nat : n \in S
  BY <1>5, <1>6, Induction
<1>8. N \in Nat /\ N <= N /\ M + N = MaxDepth
  BY <1>3
<1>9. Orderly(f[N], M + N, FALSE)
  BY <1>7, <1>8 DEF S, B
<1> QED
  BY <1>4, <1>8, <1>9

(***************************************************************************)
(* redact_passwords.                                                       *)
(***************************************************************************)
\* What is below a node is below the root, and no deeper.
LEMMA NodesBelow ==
    ASSUME NEW v, Shallow(v, MaxDepth), NEW x \in Nodes(v)
    PROVE  Shallow(x, MaxDepth) /\ Inner(x) \subseteq Nodes(v)
<1> DEFINE S == {k \in Nat : k <= MaxDepth => \A y \in Levels(v)[k] : Shallow(y, MaxDepth - k)}
<1>0. MaxDepth \in Nat /\ MaxDepth - 0 = MaxDepth
  BY DepthAssumption
<1>1. 0 \in S
  BY <1>0, LevelsAre
<1>2. ASSUME NEW k \in Nat, k \in S PROVE k + 1 \in S
  <2> SUFFICES ASSUME k + 1 <= MaxDepth, NEW y \in Levels(v)[k + 1]
               PROVE  Shallow(y, MaxDepth - (k + 1))
    OBVIOUS
  <2>1. /\ k + 1 \in 1..MaxDepth /\ (k + 1) - 1 = k /\ k <= MaxDepth
        /\ MaxDepth - k \in 1..MaxDepth /\ (MaxDepth - k) - 1 = MaxDepth - (k + 1)
    BY <1>0
  <2>2. PICK z \in Levels(v)[k] : y \in Inner(z)
    BY <2>1, LevelsAre
  <2>3. Shallow(z, MaxDepth - k)
    BY <1>2, <2>1
  <2> QED
    BY <2>1, <2>2, <2>3, ShallowIs
<1> HIDE DEF S
<1>3. \A k \in Nat : k \in S
  BY <1>1, <1>2, Induction
<1>4. PICK k \in 0..MaxDepth : x \in Levels(v)[k]
  BY DEF Nodes
<1>5. k \in Nat /\ k <= MaxDepth /\ MaxDepth - k \in 0..MaxDepth /\ MaxDepth \in (MaxDepth - k)..MaxDepth
  BY <1>0
<1>6. Shallow(x, MaxDepth - k)
  BY <1>3, <1>4, <1>5 DEF S
<1>7. Shallow(x, MaxDepth)
  BY <1>5, <1>6, ShallowUp
<1>8. k # MaxDepth
  BY <1>4 DEF Shallow
<1>9. k + 1 \in 1..MaxDepth /\ k + 1 \in 0..MaxDepth /\ (k + 1) - 1 = k
  BY <1>0, <1>8
<1>10. Inner(x) \subseteq Levels(v)[k + 1]
  BY <1>4, <1>9, LevelsAre
<1> QED
  BY <1>7, <1>9, <1>10 DEF Nodes

\* One node of redact_passwords, the nodes below done.
RedactMap(x, done) ==
  Map([k \in DOMAIN x.map |-> IF Masks(k, x.map[k]) THEN Masked ELSE done[x.map[k]]])
RedactList(x, done) == List([i \in DOMAIN x.list |-> done[x.list[i]]])
ByKind(x, map, list) == CASE Is("map", x) -> map [] Is("list", x) -> list [] OTHER -> x
RedactNode(x, done) == ByKind(x, RedactMap(x, done), RedactList(x, done))

LEMMA ByKindIs ==
    ASSUME NEW x, NEW map, NEW list
    PROVE  /\ ~Is("map", x) /\ Is("list", x) => ByKind(x, map, list) = list
           /\ Is("map", x) /\ ~Is("list", x) => ByKind(x, map, list) = map
           /\ ~Is("map", x) /\ ~Is("list", x) => ByKind(x, map, list) = x
           /\ Is("map", x) /\ Is("list", x) => ByKind(x, map, list) \in {map, list}
<1>1. CASE Is("map", x) /\ Is("list", x)
  <2>1. ByKind(x, map, list) \in {map, list}
    BY <1>1, Zenon DEF ByKind
  <2> QED
    BY <1>1, <2>1
<1>2. CASE ~Is("map", x) \/ ~Is("list", x)
  BY <1>2 DEF ByKind
<1> QED
  BY <1>1, <1>2

\* It looks only at what is below.
LEMMA RedactBelow ==
    ASSUME NEW x, NEW f, NEW g, \A c \in Inner(x) : f[c] = g[c]
    PROVE  RedactNode(x, f) = RedactNode(x, g)
<1>1. ASSUME Is("map", x) PROVE RedactMap(x, f) = RedactMap(x, g)
  <2>1. \A k \in DOMAIN x.map : f[x.map[k]] = g[x.map[k]]
    BY <1>1 DEF Inner, Keys
  <2>2. [k \in DOMAIN x.map |-> IF Masks(k, x.map[k]) THEN Masked ELSE f[x.map[k]]]
        = [k \in DOMAIN x.map |-> IF Masks(k, x.map[k]) THEN Masked ELSE g[x.map[k]]]
    BY <2>1
  <2> QED
    BY <2>2, Zenon DEF RedactMap
<1>2. ASSUME Is("list", x) PROVE RedactList(x, f) = RedactList(x, g)
  <2>1. \A i \in DOMAIN x.list : f[x.list[i]] = g[x.list[i]]
    BY <1>2 DEF Inner, ToSet
  <2> QED
    BY <2>1 DEF RedactList
<1> QED
  BY <1>1, <1>2, ByKindIs DEF RedactNode

\* The recursion of redact_passwords is well defined on the nodes of a tree.
LEMMA RedactIs ==
    ASSUME NEW v, Shallow(v, MaxDepth)
    PROVE  \E r : Redact(v) = r[v] /\ \A x \in Nodes(v) : r[x] = RedactNode(x, r)
<1> DEFINE D(n) == {x \in Nodes(v) : Shallow(x, n)}
           Good(m, g) == g = [x \in D(m) |-> RedactNode(x, g)]
           P(g) == g = [x \in Nodes(v) |-> RedactNode(x, g)]
           r == CHOOSE g : P(g)
           S == {m \in Nat : m <= MaxDepth => \E g : Good(m, g)}
<1>0. MaxDepth \in Nat /\ v \in Nodes(v)
  BY DepthAssumption, NodesAre
<1>1. Redact(v) = r[v]
  BY Zenon DEF Redact, RedactNode, ByKind, RedactMap, RedactList
<1>2. 0 \in S
  <2>1. D(0) = {}
    BY NotShallow
  <2> DEFINE g == [x \in {} |-> x]
  <2>2. g = [x \in {} |-> RedactNode(x, g)]
    OBVIOUS
  <2>3. Good(0, g)
    BY <2>1, <2>2
  <2> HIDE DEF Good, g
  <2> QED
    BY <2>3
<1>3. ASSUME NEW m \in Nat, m \in S PROVE m + 1 \in S
  <2> SUFFICES ASSUME m + 1 <= MaxDepth PROVE \E g : Good(m + 1, g)
    <3> HIDE DEF Good
    <3> QED
      OBVIOUS
  <2>1. /\ m \in 0..MaxDepth /\ m + 1 \in m..MaxDepth /\ m + 1 \in 1..MaxDepth
        /\ (m + 1) - 1 = m /\ m <= MaxDepth
    BY <1>0
  <2>2. PICK g : Good(m, g)
    BY <1>3, <2>1
  <2> DEFINE h == [x \in D(m + 1) |-> RedactNode(x, g)]
  <2>3. D(m) \subseteq D(m + 1)
    BY <2>1, ShallowUp
  <2>4. \A x \in D(m + 1) : Inner(x) \subseteq D(m)
    BY <2>1, ShallowIs, NodesBelow
  <2> HIDE DEF D
  <2>5. \A c \in D(m) : h[c] = g[c]
    BY <2>2, <2>3, Zenon
  <2>6. \A x \in D(m + 1) : RedactNode(x, g) = RedactNode(x, h)
    <3> HIDE DEF h
    <3> QED
      BY <2>4, <2>5, RedactBelow
  <2>7. Good(m + 1, h)
    BY <2>6, Zenon
  <2> HIDE DEF Good, h
  <2>8. \E q : Good(m + 1, q)
    BY <2>7
  <2> QED
    BY <2>8
<1> HIDE DEF S
<1>4. MaxDepth \in S
  BY <1>0, <1>2, <1>3, Induction
<1>5. D(MaxDepth) = Nodes(v)
  BY NodesBelow
<1> HIDE DEF D
<1>6. \E g : P(g)
  <2>1. PICK g : Good(MaxDepth, g)
    BY <1>0, <1>4 DEF S
  <2>2. P(g)
    BY <1>5, <2>1
  <2> QED
    BY <2>2
<1> HIDE DEF P
<1>7. P(r)
  BY <1>6, Zenon
<1> HIDE DEF r
<1>8. \A x \in Nodes(v) : r[x] = RedactNode(x, r)
  BY <1>7, Zenon DEF P
<1> QED
  BY <1>1, <1>8

\* A tree of fewer than n levels with every password null or masked, without the
\* null key if clean.
Safe(v, n, clean) ==
  /\ Shallow(v, n)
  /\ \A x \in Nodes(v) : /\ "password" \in Keys(x) => x.map["password"] \in {Null, Masked}
                         /\ clean => NullKey \notin Keys(x)

\* Safe, node by node.
LEMMA SafeIs ==
    ASSUME NEW v, NEW n \in 1..MaxDepth, NEW clean
    PROVE  Safe(v, n, clean) <=>
             /\ "password" \in Keys(v) => v.map["password"] \in {Null, Masked}
             /\ clean => NullKey \notin Keys(v)
             /\ \A c \in Inner(v) : Safe(c, n - 1, clean)
<1>0. /\ n \in 0..MaxDepth /\ MaxDepth \in n..MaxDepth /\ n - 1 \in 0..MaxDepth
      /\ MaxDepth \in (n - 1)..MaxDepth
  BY DepthAssumption
<1> DEFINE Fine(x) == /\ "password" \in Keys(x) => x.map["password"] \in {Null, Masked}
                      /\ clean => NullKey \notin Keys(x)
<1>1. \A w, m : Safe(w, m, clean) <=> Shallow(w, m) /\ \A x \in Nodes(w) : Fine(x)
  BY Zenon DEF Safe
<1>a. Fine(v) <=> /\ "password" \in Keys(v) => v.map["password"] \in {Null, Masked}
                  /\ clean => NullKey \notin Keys(v)
  OBVIOUS
<1> HIDE DEF Fine
<1>2. Shallow(v, n) <=> \A c \in Inner(v) : Shallow(c, n - 1)
  BY ShallowIs
<1>3. Shallow(v, n) => Nodes(v) = {v} \cup UNION {Nodes(c) : c \in Inner(v)}
  BY <1>0, ShallowUp, NodesAre
<1>4. Shallow(v, n) => ((\A x \in Nodes(v) : Fine(x))
                         <=> Fine(v) /\ \A c \in Inner(v) : \A x \in Nodes(c) : Fine(x))
  BY <1>3
<1>5. Safe(v, n, clean) <=> Fine(v) /\ \A c \in Inner(v) : Safe(c, n - 1, clean)
  BY <1>1, <1>2, <1>4
<1> QED
  BY <1>5, <1>a

LEMMA SafeMasked == Safe(Masked, 1, TRUE)
<1>1. Inner(Masked) = {} /\ Keys(Masked) = {}
  BY DEF Inner, Keys, Masked, Str, Is
<1>2. 1 \in 1..MaxDepth
  BY DepthAssumption
<1> QED
  BY <1>1, <1>2, SafeIs

LEMMA SafeUp ==
    ASSUME NEW v, NEW n \in 0..MaxDepth, NEW m \in n..MaxDepth, NEW clean, Safe(v, n, TRUE)
    PROVE  Safe(v, m, clean)
BY ShallowUp DEF Safe

\* One node whose redacted children are safe.
LEMMA SafeNode ==
    ASSUME NEW x, NEW n \in 1..MaxDepth, NEW clean, Orderly(x, n, clean), NEW r,
           Null \in Inner(x) => r[Null] = Null,
           \A c \in Inner(x) : Safe(r[c], n - 1, clean)
    PROVE  Safe(RedactNode(x, r), n, clean)
<1>0. /\ \A c \in Inner(x) : Is("null", c) => c = Null
      /\ clean => NullKey \notin Keys(x)
  <2>1. \A c \in Inner(x) : Orderly(c, n - 1, clean)
    BY OrderlyIs
  <2>2. ASSUME NEW c \in Inner(x) PROVE Is("null", c) => c = Null
    <3>1. n - 1 \in 1..MaxDepth
      BY <2>1, OrderlyNone, DepthAssumption
    <3> QED
      BY <2>1, <3>1, OrderlyIs
  <2> QED
    BY <2>2, OrderlyIs
<1>1. ASSUME Is("map", x) PROVE Safe(RedactMap(x, r), n, clean)
  <2> DEFINE g == [k \in DOMAIN x.map |-> IF Masks(k, x.map[k]) THEN Masked ELSE r[x.map[k]]]
             y == RedactMap(x, r)
  <2>1. /\ Is("map", y) /\ ~Is("list", y) /\ y.map = g
    BY DEF Is, Map, RedactMap
  <2>2. /\ Keys(y) = DOMAIN x.map /\ DOMAIN x.map = Keys(x)
        /\ Inner(y) = {g[k] : k \in DOMAIN x.map}
    BY <1>1, <2>1 DEF Keys, Inner
  <2> HIDE DEF y
  <2>3. ASSUME NEW k \in DOMAIN x.map
        PROVE  Safe(g[k], n - 1, clean) /\ (k = "password" => g[k] \in {Null, Masked})
    <3>1. x.map[k] \in Inner(x)
      BY <1>1 DEF Inner, Keys
    <3>2. Safe(r[x.map[k]], n - 1, clean)
      BY <3>1
    <3>3. n - 1 # 0
      BY <3>2, NotShallow DEF Safe
    <3>4. 1 \in 0..MaxDepth /\ n - 1 \in 1..MaxDepth
      BY <3>3, DepthAssumption
    <3>5. Safe(Masked, n - 1, clean)
      BY <3>4, SafeMasked, SafeUp
    <3>6. CASE Masks(k, x.map[k])
      BY <3>5, <3>6
    <3>7. CASE ~Masks(k, x.map[k])
      <4>1. k = "password" => x.map[k] = Null
        BY <1>0, <3>1, <3>7 DEF Masks
      <4> QED
        BY <3>1, <3>2, <3>7, <4>1
    <3> QED
      BY <3>6, <3>7
  <2> HIDE DEF g
  <2>4. "password" \in Keys(y) => y.map["password"] \in {Null, Masked}
    BY <2>1, <2>2, <2>3
  <2>5. \A c \in Inner(y) : Safe(c, n - 1, clean)
    BY <2>2, <2>3
  <2>6. clean => NullKey \notin Keys(y)
    BY <1>0, <2>2
  <2>7. Safe(y, n, clean)
    BY <2>4, <2>5, <2>6, SafeIs
  <2> QED
    BY <2>7 DEF y
<1>2. ASSUME Is("list", x) PROVE Safe(RedactList(x, r), n, clean)
  <2> DEFINE g == [i \in DOMAIN x.list |-> r[x.list[i]]]
             y == RedactList(x, r)
  <2>1. Is("list", y) /\ ~Is("map", y) /\ y.list = g
    BY DEF Is, List, RedactList
  <2>2. Keys(y) = {} /\ Inner(y) = {g[i] : i \in DOMAIN x.list}
    BY <2>1 DEF Keys, Inner, ToSet
  <2>3. \A i \in DOMAIN x.list : x.list[i] \in Inner(x)
    BY <1>2 DEF Inner, ToSet
  <2>4. \A i \in DOMAIN x.list : Safe(g[i], n - 1, clean)
    BY <2>3
  <2> HIDE DEF y, g
  <2>5. Safe(y, n, clean)
    BY <2>2, <2>4, SafeIs
  <2> QED
    BY <2>5 DEF y
<1>3. ASSUME ~Is("map", x), ~Is("list", x) PROVE Safe(x, n, clean)
  <2>1. Inner(x) = {} /\ Keys(x) = {}
    BY <1>3 DEF Inner, Keys
  <2> QED
    BY <2>1, SafeIs
<1> QED
  BY <1>1, <1>2, <1>3, ByKindIs DEF RedactNode

\* Every password is masked, and no null key comes from nowhere.
LEMMA Redacted ==
    ASSUME NEW v, NEW clean, Orderly(v, MaxDepth, clean)
    PROVE  Safe(Redact(v), MaxDepth, clean)
<1>0. MaxDepth \in Nat /\ Shallow(v, MaxDepth) /\ v \in Nodes(v)
  BY DepthAssumption, NodesAre DEF Orderly
<1>1. PICK r : Redact(v) = r[v] /\ \A x \in Nodes(v) : r[x] = RedactNode(x, r)
  BY <1>0, RedactIs
<1>2. \A x \in Nodes(v) : Inner(x) \subseteq Nodes(v) /\ (Is("null", x) => x = Null)
  BY <1>0, NodesBelow DEF Orderly
<1>3. Null \in Nodes(v) => r[Null] = Null
  BY <1>1, ByKindIs DEF RedactNode, Null, Is
<1> DEFINE B(n) == \A x \in Nodes(v) : Orderly(x, n, clean) => Safe(r[x], n, clean)
           S == {n \in Nat : n <= MaxDepth => B(n)}
<1>4. 0 \in S
  BY OrderlyNone
<1>5. ASSUME NEW m \in Nat, m \in S PROVE m + 1 \in S
  <2> HIDE DEF B
  <2> SUFFICES ASSUME m + 1 <= MaxDepth PROVE B(m + 1)
    OBVIOUS
  <2>1. m + 1 \in 1..MaxDepth /\ (m + 1) - 1 = m /\ m <= MaxDepth
    BY <1>0
  <2>2. B(m)
    BY <1>5, <2>1
  <2>3. ASSUME NEW x \in Nodes(v), Orderly(x, m + 1, clean) PROVE Safe(r[x], m + 1, clean)
    <3>1. \A c \in Inner(x) : Orderly(c, m, clean)
      BY <2>1, <2>3, OrderlyIs
    <3>2. \A c \in Inner(x) : Safe(r[c], m, clean)
      BY <1>2, <2>2, <3>1 DEF B
    <3>3. Safe(RedactNode(x, r), m + 1, clean)
      BY <1>2, <1>3, <2>1, <2>3, <3>2, SafeNode
    <3> QED
      BY <1>1, <3>3
  <2> QED
    BY <2>3 DEF B
<1> HIDE DEF S
<1>6. MaxDepth \in S
  BY <1>0, <1>4, <1>5, Induction
<1>7. B(MaxDepth)
  BY <1>0, <1>6 DEF S
<1> QED
  BY <1>0, <1>1, <1>7

(***************************************************************************)
(* What is printed.                                                        *)
(***************************************************************************)
\* The file of any process is read whole, and its nulls are what YAML reads as null.
DocInv == Orderly(file, MaxDepth, FALSE)

LEMMA OrderlyEmpty == Orderly(Null, MaxDepth, FALSE) /\ Orderly(Map(<<>>), MaxDepth, TRUE)
<1>1. 1 \in 0..MaxDepth /\ MaxDepth \in 1..MaxDepth /\ MaxDepth \in Nat
  BY DepthAssumption
<1>2. Orderly(Null, MaxDepth, FALSE)
  BY <1>1, OrderlyScalars, OrderlyUp
<1>3. DOMAIN <<>> = {}
  OBVIOUS
<1> QED
  BY <1>1, <1>2, <1>3, OrderlyMap

\* The file stays orderly: what an operator sets is, and start-up empties it.
LEMMA DocStep == DocInv /\ [Next]_vars => DocInv'
<1> SUFFICES ASSUME DocInv, [Next]_vars PROVE DocInv'
  OBVIOUS
<1>1. ASSUME NEW entry \in Edits \cup LoneEdits, NEW count, Set(entry, count) PROVE DocInv'
  <2>1. file' = Put(file, entry.path, entry.value)
    BY <1>1 DEF Set
  <2>2. /\ entry.path \in Seq(STRING) /\ Len(entry.path) <= MaxDepth
        /\ Orderly(entry.value, MaxDepth - Len(entry.path), FALSE)
    BY ValuesAssumption DEF Orderly
  <2>3. Orderly(Put(file, entry.path, entry.value), MaxDepth, FALSE)
    BY <2>2, OrderlyPut DEF DocInv
  <2> QED
    BY <2>1, <2>3 DEF DocInv
<1>2. CASE Edit
  BY <1>1, <1>2 DEF Edit
<1>3. CASE EditAlone
  BY <1>1, <1>3 DEF EditAlone
<1>4. ASSUME NEW unwraps, NEW mode, Serve(unwraps, mode) PROVE DocInv'
  BY <1>4, OrderlyEmpty DEF Serve, DocInv
<1>5. CASE DryRun
  BY <1>4, <1>5 DEF DryRun
<1>6. CASE Start
  <2>1. \E unwraps, mode : Serve(unwraps, mode)
    BY <1>6, Zenon DEF Start
  <2> QED
    BY <1>4, <2>1
<1>7. CASE LoadConfig \/ Nameless \/ PrintConfig \/ Report \/ Wait \/ UNCHANGED vars
  <2>1. UNCHANGED file
    BY <1>7 DEF LoadConfig, Nameless, PrintConfig, Report, Wait, vars
  <2> QED
    BY <2>1 DEF DocInv
<1> QED
  BY <1>2, <1>3, <1>5, <1>6, <1>7 DEF Next

\* The merged data of a file has a null key only if the file has one.
LEMMA OrderlyMerge ==
    ASSUME NEW doc, NEW clean \in BOOLEAN, Orderly(doc, MaxDepth, clean)
    PROVE  Orderly(Merge(doc), MaxDepth, clean)
<1>1. MaxDepth \in 0..MaxDepth /\ MaxDepth \in MaxDepth..MaxDepth
  BY DepthAssumption
<1>2. Orderly(Defaults, MaxDepth, clean)
  BY <1>1, OrderlyDefaults, OrderlyUp
<1>3. Orderly(Map(<<>>), MaxDepth, clean)
  BY <1>1, OrderlyEmpty, OrderlyUp
<1>4. Orderly(IF Is("null", doc) THEN Map(<<>>) ELSE doc, MaxDepth, clean)
  BY <1>3
<1> QED
  BY <1>1, <1>2, <1>4, OrderlyTop DEF Merge

\* Only --print-config prints, and what it prints is safe.
LEMMA PrintStep ==
    IInv /\ FileInv /\ DocInv /\ PrintedSafely /\ [Next]_vars => PrintedSafely'
<1> SUFFICES ASSUME IInv, FileInv, DocInv, PrintedSafely, [Next]_vars PROVE PrintedSafely'
  OBVIOUS
<1>1. CASE PrintConfig
  <2> DEFINE doc == Document(file, site)
             shown == Redact(cfg.data)
  <2>1. /\ phase = "loaded" /\ file' = file /\ out' = [printed |-> shown]
        /\ phase' = IF HasNullKey(shown) THEN "unprinted" ELSE "printed"
    BY <1>1, Zenon DEF PrintConfig, Step
  <2>2. doc = file
    BY <2>1 DEF Document, FileInv
  <2>3. cfg.data = Merge(doc)
    BY <2>1, LoadedIs, Zenon
  <2>4. ASSUME NEW clean \in BOOLEAN, Orderly(file, MaxDepth, clean) PROVE Safe(shown, MaxDepth, clean)
    <3>1. Orderly(cfg.data, MaxDepth, clean)
      BY <2>2, <2>3, <2>4, OrderlyMerge
    <3> QED
      BY <3>1, Redacted
  <2>5. PasswordValues(shown) \subseteq {Null, Masked}
    <3>1. Safe(shown, MaxDepth, FALSE)
      BY <2>4 DEF DocInv
    <3> HIDE DEF shown
    <3> QED
      BY <3>1 DEF Safe, PasswordValues
  <2>6. ~HasNullKey(file) => ~HasNullKey(shown)
    <3>1. ~HasNullKey(file) => Orderly(file, MaxDepth, TRUE)
      BY DEF DocInv, Orderly, HasNullKey
    <3>2. ~HasNullKey(file) => Safe(shown, MaxDepth, TRUE)
      BY <2>4, <3>1
    <3> HIDE DEF shown
    <3> QED
      BY <3>2 DEF Safe, HasNullKey
  <2> HIDE DEF shown
  <2>7. out'.printed = shown
    BY <2>1
  <2> QED
    BY <2>1, <2>5, <2>6, <2>7 DEF PrintedSafely
<1>2. CASE UNCHANGED vars
  <2>1. UNCHANGED <<phase, file, out>>
    BY <1>2 DEF vars
  <2> QED
    BY <2>1 DEF PrintedSafely
<1>3. CASE ~PrintConfig /\ Next
  <2>1. phase' \notin {"printed", "unprinted"}
    <3>1. CASE Edit \/ EditAlone
      <4>1. phase' = phase /\ phase = "editing"
        BY <3>1 DEF Edit, EditAlone, Set
      <4> QED
        BY <4>1
    <3>2. CASE LoadConfig \/ Nameless \/ Report \/ Wait
      BY <3>2 DEF LoadConfig, Nameless, Report, Wait, Step
    <3>3. CASE DryRun \/ Start
      <4>1. \E unwraps : \E mode \in {"dry run", "panicked", "refused", "serving"} :
              Serve(unwraps, mode)
        BY <3>3, Zenon DEF Start, DryRun
      <4> QED
        BY <4>1 DEF Serve, Step
    <3> QED
      BY <1>3, <3>1, <3>2, <3>3 DEF Next
  <2> QED
    BY <2>1 DEF PrintedSafely
<1> QED
  BY <1>1, <1>2, <1>3

(***************************************************************************)
(* Texts, with a name put for a word.                                      *)
(*                                                                         *)
(* What start-up makes of a file is followed for two names of the host, the *)
(* site's and a stand-in that no template spells: turn by turn the scanner is *)
(* at the same place, and has written the same up to the name.             *)
(***************************************************************************)
\* What the empty sequence has and appending keeps, every sequence has.
LEMMA SeqInduction ==
    ASSUME NEW T, NEW S, <<>> \in S, \A s \in Seq(T), x \in T : s \in S => Append(s, x) \in S
    PROVE  \A s \in Seq(T) : s \in S
<1> DEFINE I == {n \in Nat : \A s \in Seq(T) : Len(s) = n => s \in S}
<1>1. 0 \in I
  <2>1. \A s \in Seq(T) : Len(s) = 0 => s = <<>>
    OBVIOUS
  <2> QED
    BY <2>1
<1>2. ASSUME NEW n \in Nat, n \in I PROVE n + 1 \in I
  <2> SUFFICES ASSUME NEW s \in Seq(T), Len(s) = n + 1 PROVE s \in S
    OBVIOUS
  <2>1. s # <<>>
    OBVIOUS
  <2>2. PICK t \in Seq(T), x \in T : s = Append(t, x)
    BY <2>1, SequenceEmptyOrAppend
  <2>3. Len(t) = n
    BY <2>2
  <2>4. t \in S
    BY <1>2, <2>3
  <2> QED
    BY <2>2, <2>4
<1> HIDE DEF I
<1>3. \A n \in Nat : n \in I
  BY <1>1, <1>2, Induction
<1>4. \A s \in Seq(T) : Len(s) \in Nat
  OBVIOUS
<1> QED
  BY <1>3, <1>4 DEF I

\* FlattenSeq puts the parts one after the other.
LEMMA FlattenIs ==
    ASSUME NEW T, NEW s \in Seq(Seq(T))
    PROVE  \E f \in [0..Len(s) -> Seq(T)] :
             /\ f[0] = <<>> /\ \A n \in 1..Len(s) : f[n] = f[n - 1] \o s[n]
             /\ FlattenSeq(s) = f[Len(s)]
<1> DEFINE N == Len(s)
           D == Seq(T)
           G == [x \in (1..N) \X D |-> x[2] \o s[x[1]]]
           P(g) == g = [i \in 1..N |-> IF i = 1 THEN s[i] ELSE g[i - 1] \o s[i]]
           h == CHOOSE g : P(g)
<1>1. N \in Nat /\ \A n \in 1..N : s[n] \in D
  OBVIOUS
<1>2. G \in [(1..N) \X D -> D] /\ \A n \in 1..N, t \in D : G[<<n, t>>] = t \o s[n]
  <2>1. \A n \in 1..N, t \in D : t \o s[n] \in D
    BY <1>1
  <2> HIDE DEF N, D
  <2> QED
    BY <2>1
<1>3. <<>> \in D
  OBVIOUS
<1> HIDE DEF G
<1>4. PICK f : Unfolds(f, D, <<>>, N, G)
  BY <1>1, <1>2, <1>3, Recursion
<1>5. /\ f \in [0..N -> D] /\ f[0] = <<>>
      /\ \A n \in 1..N : f[n] = f[n - 1] \o s[n]
  <2>1. f \in [0..N -> D] /\ f[0] = <<>> /\ \A n \in 1..N : f[n] = G[<<n, f[n - 1]>>]
    BY <1>4 DEF Unfolds
  <2>2. \A n \in 1..N : n - 1 \in 0..N
    BY <1>1
  <2>3. \A n \in 1..N : f[n - 1] \in D
    BY <2>1, <2>2
  <2> HIDE DEF D, N
  <2> QED
    BY <1>2, <2>1, <2>3
<1>6. CASE N = 0
  <2>1. FlattenSeq(s) = <<>>
    BY <1>6 DEF FlattenSeq
  <2> QED
    BY <1>5, <1>6, <2>1
<1>7. CASE N # 0
  <2>1. FlattenSeq(s) = h[N]
    BY <1>7, Zenon DEF FlattenSeq
  <2> DEFINE g == [i \in 1..N |-> f[i]]
  <2>2. ASSUME NEW i \in 1..N PROVE g[i] = IF i = 1 THEN s[i] ELSE g[i - 1] \o s[i]
    <3>1. CASE i = 1
      <4>1. f[1] = <<>> \o s[1]
        <5>1. 1 \in 1..N /\ 1 - 1 = 0
          BY <1>1, <1>7
        <5> QED
          BY <1>5, <5>1
      <4>2. <<>> \o s[1] = s[1]
        BY <1>1, <3>1
      <4> QED
        BY <3>1, <4>1, <4>2
    <3>2. CASE i # 1
      <4>1. i - 1 \in 1..N
        BY <1>1, <3>2
      <4> QED
        BY <1>5, <3>2, <4>1
    <3> QED
      BY <3>1, <3>2
  <2>3. P(g)
    BY <2>2
  <2> HIDE DEF P, g
  <2>4. P(h)
    BY <2>3
  <2> HIDE DEF h, N
  <2>5. \A i \in 1..N : h[i] = IF i = 1 THEN s[i] ELSE h[i - 1] \o s[i]
    BY <2>4 DEF P
  <2>6. \A i \in 1..N : f[i] = IF i = 1 THEN s[i] ELSE f[i - 1] \o s[i]
    <3>1. \A i \in 1..N : g[i] = f[i] /\ (i # 1 => g[i - 1] = f[i - 1])
      <4>1. \A i \in 1..N : i # 1 => i - 1 \in 1..N
        BY <1>1
      <4> QED
        BY <4>1 DEF g
    <3> QED
      BY <2>2, <3>1
  <2> DEFINE I == {n \in Nat : n + 1 <= N => h[n + 1] = f[n + 1]}
  <2>7. 0 \in I
    <3>1. 1 \in 1..N /\ 0 + 1 = 1
      BY <1>1, <1>7
    <3> QED
      BY <2>5, <2>6, <3>1
  <2>8. ASSUME NEW n \in Nat, n \in I PROVE n + 1 \in I
    <3> SUFFICES ASSUME (n + 1) + 1 <= N PROVE h[(n + 1) + 1] = f[(n + 1) + 1]
      OBVIOUS
    <3>1. /\ (n + 1) + 1 \in 1..N /\ ((n + 1) + 1) - 1 = n + 1 /\ (n + 1) + 1 # 1
          /\ n + 1 <= N
      BY <1>1
    <3>2. h[n + 1] = f[n + 1]
      BY <2>8, <3>1
    <3> QED
      BY <2>5, <2>6, <3>1, <3>2
  <2> HIDE DEF I
  <2>9. \A n \in Nat : n \in I
    BY <2>7, <2>8, Induction
  <2>10. N - 1 \in Nat /\ (N - 1) + 1 = N
    BY <1>1, <1>7
  <2>11. h[N] = f[N]
    <3>1. N - 1 \in I /\ (N - 1) + 1 <= N
      BY <1>1, <2>9, <2>10
    <3>2. h[(N - 1) + 1] = f[(N - 1) + 1]
      BY <3>1 DEF I
    <3> QED
      BY <2>10, <3>2
  <2> QED
    BY <1>5, <2>1, <2>11 DEF N
<1> QED
  BY <1>6, <1>7

LEMMA FlattenAppend ==
    ASSUME NEW T, NEW s \in Seq(Seq(T)), NEW x \in Seq(T)
    PROVE  /\ FlattenSeq(<<>>) = <<>> /\ FlattenSeq(s) \in Seq(T)
           /\ FlattenSeq(Append(s, x)) = FlattenSeq(s) \o x
<1> DEFINE N == Len(s)
           t == Append(s, x)
<1>1. N \in Nat /\ t \in Seq(Seq(T)) /\ Len(t) = N + 1 /\ t[N + 1] = x /\ \A n \in 1..N : t[n] = s[n]
  OBVIOUS
<1>2. PICK f \in [0..N -> Seq(T)] :
        /\ f[0] = <<>> /\ \A n \in 1..N : f[n] = f[n - 1] \o s[n]
        /\ FlattenSeq(s) = f[N]
  BY FlattenIs
<1> HIDE DEF t
<1>3. PICK g \in [0..(N + 1) -> Seq(T)] :
        /\ g[0] = <<>> /\ \A n \in 1..(N + 1) : g[n] = g[n - 1] \o t[n]
        /\ FlattenSeq(t) = g[N + 1]
  <2>1. \E g \in [0..Len(t) -> Seq(T)] :
          /\ g[0] = <<>> /\ \A n \in 1..Len(t) : g[n] = g[n - 1] \o t[n]
          /\ FlattenSeq(t) = g[Len(t)]
    BY <1>1, FlattenIs
  <2>2. Len(t) = N + 1
    BY <1>1
  <2> QED
    BY <2>1, <2>2, Zenon
<1> HIDE DEF N
<1> DEFINE I == {n \in Nat : n <= N => g[n] = f[n]}
<1>4. 0 \in I
  BY <1>2, <1>3
<1>5. ASSUME NEW n \in Nat, n \in I PROVE n + 1 \in I
  <2> SUFFICES ASSUME n + 1 <= N PROVE g[n + 1] = f[n + 1]
    OBVIOUS
  <2>1. n + 1 \in 1..N /\ n + 1 \in 1..(N + 1) /\ (n + 1) - 1 = n /\ n <= N
    BY <1>1
  <2>2. g[n] = f[n]
    BY <1>5, <2>1
  <2> QED
    BY <1>1, <1>2, <1>3, <2>1, <2>2
<1> HIDE DEF I
<1>6. \A n \in Nat : n \in I
  BY <1>4, <1>5, Induction
<1>7. g[N] = f[N]
  BY <1>1, <1>6 DEF I
<1>8. N + 1 \in 1..(N + 1) /\ (N + 1) - 1 = N /\ N \in 0..N
  BY <1>1
<1>9. g[N + 1] = f[N] \o x
  BY <1>1, <1>3, <1>7, <1>8
<1>10. FlattenSeq(<<>>) = <<>>
  BY DEF FlattenSeq
<1> QED
  BY <1>2, <1>3, <1>8, <1>9, <1>10 DEF t

LEMMA AppendIs ==
    ASSUME NEW T, NEW s \in Seq(T), NEW x \in T
    PROVE  /\ Append(s, x) \in Seq(T) /\ Len(Append(s, x)) = Len(s) + 1
           /\ Append(s, x)[Len(s) + 1] = x
           /\ \A i \in 1..Len(s) : Append(s, x)[i] = s[i]
OBVIOUS

LEMMA OneWord == ASSUME NEW T, NEW y \in T PROVE <<y>> \in Seq(T) /\ Len(<<y>>) = 1 /\ <<y>>[1] = y
OBVIOUS

\* WithName, for any name.
Word(name, x) == IF x = "anyhost" THEN name ELSE <<x>>
Renamed(name, s) == FlattenSeq([i \in DOMAIN s |-> Word(name, s[i])])

LEMMA RenamedIs ==
    ASSUME NEW T, NEW name \in Seq(T), NEW s \in Seq(T), NEW x \in T
    PROVE  /\ Renamed(name, <<>>) = <<>> /\ Renamed(name, s) \in Seq(T)
           /\ Renamed(name, Append(s, x)) = Renamed(name, s) \o Word(name, x)
<1> DEFINE E(t) == [i \in DOMAIN t |-> Word(name, t[i])]
<1>1. \A t : Renamed(name, t) = FlattenSeq(E(t))
  BY Zenon DEF Renamed
<1>2. ASSUME NEW y \in T PROVE Word(name, y) \in Seq(T)
  <2>1. <<y>> \in Seq(T)
    BY OneWord
  <2> QED
    BY <2>1 DEF Word
<1>3. E(<<>>) = <<>>
  OBVIOUS
<1> DEFINE N == Len(s)
<1>4. N \in Nat /\ DOMAIN s = 1..N /\ \A i \in 1..N : s[i] \in T
  BY LenProperties, ElementOfSeq
<1> HIDE DEF N
<1>5. /\ E(s) \in Seq(Seq(T)) /\ Len(E(s)) = N
      /\ \A i \in 1..N : E(s)[i] = Word(name, s[i])
  <2>1. E(s) = [i \in 1..N |-> Word(name, s[i])]
    BY <1>4
  <2>2. E(s) \in [1..N -> Seq(T)]
    BY <1>2, <1>4, <2>1
  <2> HIDE DEF E
  <2> QED
    BY <1>4, <2>1, <2>2
<1>6. Word(name, x) \in Seq(T)
  BY <1>2
<1>7. E(Append(s, x)) = Append(E(s), Word(name, x))
  <2> DEFINE t == Append(s, x)
             a == E(t)
             b == Append(E(s), Word(name, x))
  <2>1. /\ DOMAIN t = 1..(N + 1) /\ t[N + 1] = x /\ \A i \in 1..N : t[i] = s[i]
    <3>1. t \in Seq(T) /\ Len(t) = N + 1 /\ t[N + 1] = x /\ \A i \in 1..N : t[i] = s[i]
      <4>1. /\ Append(s, x) \in Seq(T) /\ Len(Append(s, x)) = Len(s) + 1
            /\ Append(s, x)[Len(s) + 1] = x
            /\ \A i \in 1..Len(s) : Append(s, x)[i] = s[i]
        OBVIOUS
      <4> QED
        BY <4>1 DEF N
    <3> HIDE DEF t
    <3> QED
      BY <3>1, LenProperties
  <2> HIDE DEF t
  <2>2. DOMAIN a = 1..(N + 1) /\ \A i \in 1..(N + 1) : a[i] = Word(name, t[i])
    BY <2>1
  <2>3. a = [i \in 1..(N + 1) |-> a[i]]
    BY <2>1
  <2> HIDE DEF E
  <2>4. b \in Seq(Seq(T)) /\ Len(b) = N + 1
        /\ b[N + 1] = Word(name, x) /\ \A i \in 1..N : b[i] = Word(name, s[i])
    <3> DEFINE e == E(s)
               w == Word(name, x)
    <3>1. e \in Seq(Seq(T)) /\ Len(e) = N /\ w \in Seq(T)
      BY <1>5, <1>6
    <3>2. \A i \in 1..N : e[i] = Word(name, s[i])
      BY <1>5
    <3> HIDE DEF e, w
    <3>3. /\ Append(e, w) \in Seq(Seq(T)) /\ Len(Append(e, w)) = N + 1
          /\ Append(e, w)[N + 1] = w /\ \A i \in 1..N : Append(e, w)[i] = e[i]
      BY <3>1, AppendProperties
    <3> QED
      BY <3>2, <3>3 DEF e, w
  <2>5. b = [i \in 1..(N + 1) |-> b[i]]
    <3> HIDE DEF b
    <3> QED
      BY <2>4, LenProperties
  <2> HIDE DEF a, b
  <2>6. ASSUME NEW i \in 1..(N + 1) PROVE a[i] = b[i]
    <3>1. i = N + 1 \/ i \in 1..N
      BY <1>4
    <3> QED
      BY <2>1, <2>2, <2>4, <3>1
  <2>7. a = b
    BY <2>3, <2>5, <2>6
  <2> QED
    BY <2>7 DEF a, b, t
<1> HIDE DEF E
<1>8. /\ FlattenSeq(<<>>) = <<>> /\ FlattenSeq(E(s)) \in Seq(T)
      /\ FlattenSeq(Append(E(s), Word(name, x))) = FlattenSeq(E(s)) \o Word(name, x)
  BY <1>5, <1>6, FlattenAppend
<1> QED
  BY <1>1, <1>3, <1>7, <1>8

LEMMA RenamedType ==
    ASSUME NEW T, NEW name \in Seq(T), NEW s \in Seq(T)
    PROVE  Renamed(name, <<>>) = <<>> /\ Renamed(name, s) \in Seq(T)
<1>1. Renamed(name, <<>>) = <<>> /\ <<>> \in Seq(T)
  BY DEF Renamed, FlattenSeq
<1>2. ASSUME s # <<>> PROVE Renamed(name, s) \in Seq(T)
  <2>1. PICK t \in Seq(T), x \in T : s = Append(t, x)
    BY <1>2, SequenceEmptyOrAppend
  <2> QED
    BY RenamedIs
<1> QED
  BY <1>1, <1>2

\* The parts of a text are renamed one by one.
LEMMA RenamedConcat ==
    ASSUME NEW T, NEW name \in Seq(T), NEW a \in Seq(T)
    PROVE  \A b \in Seq(T) : Renamed(name, a \o b) = Renamed(name, a) \o Renamed(name, b)
<1> DEFINE R(s) == Renamed(name, s)
           S == {b \in Seq(T) : R(a \o b) = R(a) \o R(b)}
<1>0. /\ R(<<>>) = <<>> /\ \A s \in Seq(T) : R(s) \in Seq(T)
      /\ \A s \in Seq(T), x \in T : R(Append(s, x)) = R(s) \o Word(name, x)
  <2>1. R(<<>>) = <<>> /\ \A s \in Seq(T) : R(s) \in Seq(T)
    BY RenamedType
  <2>3. ASSUME NEW s \in Seq(T), NEW x \in T PROVE R(Append(s, x)) = R(s) \o Word(name, x)
    BY RenamedIs
  <2> HIDE DEF R
  <2> QED
    BY <2>1, <2>3
<1>w. \A x \in T : Word(name, x) \in Seq(T)
  BY OneWord DEF Word
<1> HIDE DEF R
<1>1. <<>> \in S
  BY <1>0, ConcatEmptySeq
<1>2. ASSUME NEW b \in Seq(T), NEW x \in T, b \in S PROVE Append(b, x) \in S
  <2>1. a \o Append(b, x) = Append(a \o b, x) /\ a \o b \in Seq(T) /\ Append(b, x) \in Seq(T)
    OBVIOUS
  <2>2. R(a \o Append(b, x)) = (R(a) \o R(b)) \o Word(name, x)
    BY <1>0, <1>2, <2>1
  <2>3. (R(a) \o R(b)) \o Word(name, x) = R(a) \o (R(b) \o Word(name, x))
    <3> DEFINE ra == R(a)
               rb == R(b)
               w == Word(name, x)
    <3>1. ra \in Seq(T) /\ rb \in Seq(T) /\ w \in Seq(T)
      BY <1>0, <1>w
    <3> HIDE DEF ra, rb, w
    <3>2. (ra \o rb) \o w = ra \o (rb \o w)
      BY <3>1, ConcatAssociative
    <3> QED
      BY <3>2 DEF ra, rb, w
  <2> QED
    BY <1>0, <2>1, <2>2, <2>3
<1>3. \A b \in Seq(T) : b \in S
  <2> HIDE DEF S
  <2> QED
    BY <1>1, <1>2, SeqInduction
<1> QED
  BY <1>3 DEF R

\* Without the stand-in there is nothing to replace.
Free(s) == \A i \in DOMAIN s : s[i] # "anyhost"

LEMMA FreeAppend ==
    ASSUME NEW T, NEW s \in Seq(T), NEW x \in T
    PROVE  Free(Append(s, x)) <=> Free(s) /\ x # "anyhost"
<1>1. /\ DOMAIN s = 1..Len(s) /\ DOMAIN Append(s, x) = 1..(Len(s) + 1) /\ Len(s) \in Nat
      /\ Append(s, x)[Len(s) + 1] = x /\ \A i \in 1..Len(s) : Append(s, x)[i] = s[i]
  OBVIOUS
<1>2. \A i \in 1..(Len(s) + 1) : i = Len(s) + 1 \/ i \in 1..Len(s)
  BY <1>1
<1>3. Len(s) + 1 \in 1..(Len(s) + 1) /\ \A i \in 1..Len(s) : i \in 1..(Len(s) + 1)
  BY <1>1
<1> QED
  BY <1>1, <1>2, <1>3 DEF Free

LEMMA RenamedFree ==
    ASSUME NEW T, NEW name \in Seq(T)
    PROVE  \A s \in Seq(T) : Free(s) => Renamed(name, s) = s
<1> DEFINE S == {s \in Seq(T) : Free(s) => Renamed(name, s) = s}
<1>1. <<>> \in S
  BY DEF Renamed, FlattenSeq
<1>2. ASSUME NEW s \in Seq(T), NEW x \in T, s \in S PROVE Append(s, x) \in S
  <2>1. Append(s, x) \in Seq(T)
    OBVIOUS
  <2>2. ASSUME Free(Append(s, x)) PROVE Renamed(name, Append(s, x)) = Append(s, x)
    <3>1. Free(s) /\ x # "anyhost"
      BY <2>2, FreeAppend
    <3>2. Renamed(name, Append(s, x)) = Renamed(name, s) \o Word(name, x)
      BY RenamedIs
    <3>3. Renamed(name, s) = s /\ Word(name, x) = <<x>>
      BY <1>2, <3>1 DEF Word
    <3>4. Append(s, x) = s \o <<x>>
      BY AppendIsConcat
    <3> QED
      BY <3>2, <3>3, <3>4
  <2> QED
    BY <2>1, <2>2
<1> HIDE DEF S
<1>3. \A s \in Seq(T) : s \in S
  BY <1>1, <1>2, SeqInduction
<1> QED
  BY <1>3 DEF S

LEMMA ContainsConcat ==
    ASSUME NEW T, NEW a \in Seq(T), NEW b \in Seq(T), NEW e
    PROVE  Contains(a \o b, e) <=> Contains(a, e) \/ Contains(b, e)
<1> DEFINE c == a \o b
<1>1. /\ Len(a) \in Nat /\ Len(b) \in Nat /\ Len(c) = Len(a) + Len(b)
      /\ \A i \in 1..Len(a) : c[i] = a[i]
      /\ \A i \in 1..Len(b) : c[Len(a) + i] = b[i]
  OBVIOUS
<1> HIDE DEF c
<1>2. ASSUME NEW i \in 1..Len(c), c[i] = e PROVE Contains(a, e) \/ Contains(b, e)
  <2>1. i \in 1..Len(a) \/ (i - Len(a) \in 1..Len(b) /\ Len(a) + (i - Len(a)) = i)
    BY <1>1
  <2>2. ASSUME i - Len(a) \in 1..Len(b), Len(a) + (i - Len(a)) = i PROVE b[i - Len(a)] = e
    BY <1>1, <1>2, <2>2
  <2> QED
    BY <1>1, <1>2, <2>1, <2>2 DEF Contains
<1>3. ASSUME NEW i \in 1..Len(a), a[i] = e PROVE Contains(c, e)
  <2>1. i \in 1..Len(c) /\ c[i] = e
    BY <1>1, <1>3
  <2> QED
    BY <2>1 DEF Contains
<1>4. ASSUME NEW i \in 1..Len(b), b[i] = e PROVE Contains(c, e)
  <2>1. Len(a) + i \in 1..Len(c) /\ c[Len(a) + i] = e
    BY <1>1, <1>4
  <2> QED
    BY <2>1 DEF Contains
<1>5. Contains(c, e) <=> Contains(a, e) \/ Contains(b, e)
  BY <1>2, <1>3, <1>4 DEF Contains
<1> QED
  BY <1>5 DEF c

\* A name that is nameable makes no topic empty, wild or ending in a slash.
LEMMA RenamedPublishable ==
    ASSUME NEW T, NEW name \in Seq(T), Nameable(name)
    PROVE  \A s \in Seq(T) : Publishable(Renamed(name, s)) <=> Publishable(s)
<1> DEFINE R(s) == Renamed(name, s)
           S == {s \in Seq(T) : /\ R(s) \in Seq(T) /\ (R(s) = <<>> <=> s = <<>>)
                                /\ Contains(R(s), "+") <=> Contains(s, "+")}
<1>n. name # <<>> /\ ~Contains(name, "+")
  BY DEF Nameable, Publishable
<1>1. <<>> \in S
  BY DEF Renamed, FlattenSeq
<1>2. ASSUME NEW s \in Seq(T), NEW x \in T, s \in S PROVE Append(s, x) \in S
  <2>1. Append(s, x) \in Seq(T) /\ Append(s, x) # <<>> /\ Append(s, x) = s \o <<x>> /\ <<x>> \in Seq(T)
    BY AppendIsConcat
  <2>2. R(Append(s, x)) = R(s) \o Word(name, x) /\ R(s) \in Seq(T)
    BY RenamedIs
  <2>3. Word(name, x) \in Seq(T) /\ Word(name, x) # <<>>
    BY <1>n, <2>1, OneWord DEF Word
  <2>4. Contains(Word(name, x), "+") <=> Contains(<<x>>, "+")
    <3>1. Contains(<<x>>, "+") <=> x = "+"
      BY OneWord DEF Contains
    <3> QED
      BY <1>n, <3>1 DEF Word
  <2> HIDE DEF R
  <2>5. R(Append(s, x)) \in Seq(T) /\ R(Append(s, x)) # <<>>
    BY <2>2, <2>3
  <2>6. Contains(R(Append(s, x)), "+") <=> Contains(Append(s, x), "+")
    <3>1. Contains(s \o <<x>>, "+") <=> Contains(s, "+") \/ Contains(<<x>>, "+")
      BY <2>1, ContainsConcat
    <3>2. Contains(R(s) \o Word(name, x), "+")
            <=> Contains(R(s), "+") \/ Contains(Word(name, x), "+")
      <4> DEFINE r == R(s)
                 w == Word(name, x)
      <4>1. r \in Seq(T) /\ w \in Seq(T)
        BY <2>2, <2>3
      <4> HIDE DEF r, w
      <4>2. Contains(r \o w, "+") <=> Contains(r, "+") \/ Contains(w, "+")
        BY <4>1, ContainsConcat
      <4> QED
        BY <4>2 DEF r, w
    <3> QED
      BY <1>2, <2>1, <2>2, <2>4, <3>1, <3>2
  <2> QED
    BY <2>1, <2>5, <2>6
<1> HIDE DEF S
<1>3. \A s \in Seq(T) : s \in S
  BY <1>1, <1>2, SeqInduction
<1> QED
  BY <1>3 DEF S, Publishable

\* Where trimming ends.
LEMMA TrimBy ==
    ASSUME NEW T, NEW text \in Seq(T), NEW n \in 0..Len(text),
           n = 0 \/ text[n] # "/", \A i \in (n + 1)..Len(text) : text[i] = "/"
    PROVE  TrimSlashes(text) = SubSeq(text, 1, n)
<1> DEFINE N == Len(text)
           Q(k) == /\ k = 0 \/ text[k] # "/"
                   /\ \A i \in (k + 1)..N : text[i] = "/"
           m == CHOOSE k \in 0..N : Q(k)
<1>1. TrimSlashes(text) = SubSeq(text, 1, m)
  BY Zenon DEF TrimSlashes
<1>2. N \in Nat /\ n \in 0..N /\ Q(n)
  OBVIOUS
<1>3. m \in 0..N /\ Q(m)
  <2> HIDE DEF Q
  <2> QED
    BY <1>2
<1> HIDE DEF m, N
<1>4. ASSUME NEW i \in 0..N, NEW j \in 0..N, Q(i), Q(j), i < j PROVE FALSE
  <2>1. j \in (i + 1)..N /\ j # 0
    BY <1>2, <1>4
  <2> QED
    BY <1>4, <2>1
<1>5. ~(m < n) /\ ~(n < m)
  <2> HIDE DEF Q
  <2> QED
    BY <1>2, <1>3, <1>4
<1>6. m = n
  BY <1>2, <1>3, <1>5
<1> QED
  BY <1>1, <1>6

LEMMA TrimNone ==
    ASSUME NEW T, NEW text \in Seq(T), text # <<>>, Last(text) # "/"
    PROVE  TrimSlashes(text) = text
<1>1. /\ Len(text) \in Nat /\ Len(text) \in 0..Len(text) /\ Len(text) # 0
      /\ (Len(text) + 1)..Len(text) = {}
  OBVIOUS
<1>2. TrimSlashes(text) = SubSeq(text, 1, Len(text))
  BY <1>1, TrimBy DEF Last
<1> QED
  BY <1>2, SubSeqFull

LEMMA TrimExists ==
    ASSUME NEW T, NEW text \in Seq(T)
    PROVE  \E n \in 0..Len(text) : /\ n = 0 \/ text[n] # "/"
                                   /\ \A i \in (n + 1)..Len(text) : text[i] = "/"
                                   /\ TrimSlashes(text) = SubSeq(text, 1, n)
<1> DEFINE S == {s \in Seq(T) : \E n \in 0..Len(s) : /\ n = 0 \/ s[n] # "/"
                                                     /\ \A i \in (n + 1)..Len(s) : s[i] = "/"}
<1>1. <<>> \in S
  BY EmptySeq
<1>2. ASSUME NEW s \in Seq(T), NEW x \in T, s \in S PROVE Append(s, x) \in S
  <2> DEFINE t == Append(s, x)
             N == Len(s)
  <2>1. /\ t \in Seq(T) /\ Len(t) = N + 1 /\ t[N + 1] = x /\ \A i \in 1..N : t[i] = s[i]
        /\ N \in Nat
    OBVIOUS
  <2>2. PICK n \in 0..N : /\ n = 0 \/ s[n] # "/"
                          /\ \A i \in (n + 1)..N : s[i] = "/"
    BY <1>2
  <2> HIDE DEF t, N
  <2>3. CASE x = "/"
    <3>1. n \in 0..Len(t) /\ (n # 0 => n \in 1..N)
      BY <2>1
    <3>2. ASSUME NEW i \in (n + 1)..Len(t) PROVE t[i] = "/"
      <4>1. i = N + 1 \/ (i \in (n + 1)..N /\ i \in 1..N)
        BY <2>1
      <4> QED
        BY <2>1, <2>2, <2>3, <4>1
    <3>3. n = 0 \/ t[n] # "/"
      BY <2>1, <2>2, <3>1
    <3>4. t \in S
      BY <2>1, <3>1, <3>2, <3>3
    <3> QED
      BY <3>4 DEF t
  <2>4. CASE x # "/"
    <3>1. Len(t) \in 0..Len(t) /\ t[Len(t)] # "/" /\ (Len(t) + 1)..Len(t) = {}
      BY <2>1, <2>4
    <3>2. t \in S
      BY <2>1, <3>1
    <3> QED
      BY <3>2 DEF t
  <2> QED
    BY <2>3, <2>4
<1> HIDE DEF S
<1>3. \A s \in Seq(T) : s \in S
  BY <1>1, <1>2, SeqInduction
<1>4. PICK n \in 0..Len(text) : /\ n = 0 \/ text[n] # "/"
                                /\ \A i \in (n + 1)..Len(text) : text[i] = "/"
  BY <1>3 DEF S
<1> QED
  BY <1>4, TrimBy

LEMMA TrimSlash ==
    ASSUME NEW T, NEW s \in Seq(T), NEW x \in T, x = "/"
    PROVE  TrimSlashes(Append(s, x)) = TrimSlashes(s)
<1> DEFINE t == Append(s, x)
           N == Len(s)
<1>1. /\ t \in Seq(T) /\ Len(t) = N + 1 /\ t[N + 1] = x /\ \A i \in 1..N : t[i] = s[i]
      /\ N \in Nat
  OBVIOUS
<1>2. PICK n \in 0..N : /\ n = 0 \/ s[n] # "/"
                        /\ \A i \in (n + 1)..N : s[i] = "/"
                        /\ TrimSlashes(s) = SubSeq(s, 1, n)
  <2> HIDE DEF t
  <2> QED
    BY TrimExists
<1>3. SubSeq(t, 1, n) = SubSeq(s, 1, n)
  <2>1. n \in 0..N /\ N \in Nat
    BY <1>1
  <2> QED
    BY <1>1, <2>1
<1> HIDE DEF t, N
<1>4. n \in 0..Len(t) /\ (n # 0 => n \in 1..N)
  BY <1>1
<1>5. ASSUME NEW i \in (n + 1)..Len(t) PROVE t[i] = "/"
  <2>1. i = N + 1 \/ (i \in (n + 1)..N /\ i \in 1..N)
    BY <1>1
  <2> QED
    BY <1>1, <1>2, <2>1
<1>6. n = 0 \/ t[n] # "/"
  BY <1>1, <1>2, <1>4
<1>7. TrimSlashes(t) = SubSeq(t, 1, n)
  BY <1>1, <1>4, <1>5, <1>6, TrimBy
<1> QED
  BY <1>2, <1>3, <1>7 DEF t

\* Trimming slashes and naming the host commute.
LEMMA RenamedTrim ==
    ASSUME NEW T, NEW name \in Seq(T), Nameable(name)
    PROVE  \A s \in Seq(T) : TrimSlashes(Renamed(name, s)) = Renamed(name, TrimSlashes(s))
<1> DEFINE R(s) == Renamed(name, s)
           S == {s \in Seq(T) : R(s) \in Seq(T) /\ TrimSlashes(R(s)) = R(TrimSlashes(s))}
<1>1. <<>> \in S
  <2>1. R(<<>>) = <<>> /\ <<>> \in Seq(T)
    BY DEF Renamed, FlattenSeq
  <2>2. TrimSlashes(<<>>) = <<>>
    <3>1. PICK n \in 0..Len(<<>>) : TrimSlashes(<<>>) = SubSeq(<<>>, 1, n)
      BY <2>1, TrimExists
    <3>2. n = 0 /\ SubSeq(<<>>, 1, 0) = <<>>
      BY SubSeqEmpty
    <3> QED
      BY <3>1, <3>2
  <2> QED
    BY <2>1, <2>2
<1>2. ASSUME NEW s \in Seq(T), NEW x \in T, s \in S PROVE Append(s, x) \in S
  <2>1. Append(s, x) \in Seq(T) /\ Append(s, x) # <<>> /\ Last(Append(s, x)) = x
    BY DEF Last
  <2>2. R(Append(s, x)) = R(s) \o Word(name, x) /\ R(s) \in Seq(T)
    BY RenamedIs
  <2>3. name # <<>> /\ Last(name) # "/"
    BY DEF Nameable, Publishable
  <2>4. Word(name, x) \in Seq(T)
    BY OneWord DEF Word
  <2>5. R(Append(s, x)) \in Seq(T)
    BY <2>2, <2>4
  <2> HIDE DEF R
  <2>6. CASE x = "/"
    <3>1. R(Append(s, x)) = Append(R(s), x)
      BY <2>2, <2>6, AppendIsConcat DEF Word
    <3>2. TrimSlashes(Append(s, x)) = TrimSlashes(s)
      BY <2>6, TrimSlash
    <3>3. TrimSlashes(Append(R(s), x)) = TrimSlashes(R(s))
      BY <2>2, <2>6, TrimSlash
    <3> QED
      BY <1>2, <2>1, <2>5, <3>1, <3>2, <3>3
  <2>7. CASE x # "/"
    <3>1. TrimSlashes(Append(s, x)) = Append(s, x)
      BY <2>1, <2>7, TrimNone
    <3>2. Word(name, x) # <<>> /\ Last(Word(name, x)) # "/"
      BY <2>3, <2>7, OneWord DEF Word, Last
    <3>3. R(s) \o Word(name, x) # <<>> /\ Last(R(s) \o Word(name, x)) = Last(Word(name, x))
      <4> DEFINE r == R(s)
                 w == Word(name, x)
      <4>1. r \in Seq(T) /\ w \in Seq(T) /\ w # <<>>
        BY <2>2, <2>4, <3>2
      <4> HIDE DEF r, w
      <4>2. r \o w # <<>> /\ Last(r \o w) = Last(w)
        BY <4>1 DEF Last
      <4> QED
        BY <4>2 DEF r, w
    <3>4. TrimSlashes(R(Append(s, x))) = R(Append(s, x))
      BY <2>2, <2>5, <3>2, <3>3, TrimNone
    <3> QED
      BY <2>1, <2>5, <3>1, <3>4
  <2> QED
    BY <2>6, <2>7
<1> HIDE DEF S
<1>3. \A s \in Seq(T) : s \in S
  BY <1>1, <1>2, SeqInduction
<1> QED
  BY <1>3 DEF S

(***************************************************************************)
(* One template, for a name and for the stand-in.                          *)
(***************************************************************************)
\* Two scans of one template, for a name and for the stand-in.
Alike(T, name, a, b) ==
  \/ a = Failed /\ b = Failed
  \/ /\ a \in [rest : Seq(T), written : Seq(T)] /\ b \in [rest : Seq(T), written : Seq(T)]
     /\ a.rest = b.rest /\ Free(a.rest)
     /\ a.written = Renamed(name, b.written)

\* The values that the two put for the placeholders.
Counterparts(T, name, u, v) ==
  /\ DOMAIN u = DOMAIN v
  /\ \A k \in DOMAIN v : v[k] \in Seq(T) /\ u[k] = Renamed(name, v[k])

LEMMA FreeSub ==
    ASSUME NEW T, NEW s \in Seq(T), Free(s), NEW m \in 1..(Len(s) + 1)
    PROVE  Free(SubSeq(s, m, Len(s))) /\ SubSeq(s, m, Len(s)) \in Seq(T)
<1>1. /\ Len(s) \in Nat /\ DOMAIN s = 1..Len(s)
      /\ DOMAIN SubSeq(s, m, Len(s)) = 1..(Len(s) - m + 1)
      /\ \A i \in 1..(Len(s) - m + 1) : SubSeq(s, m, Len(s))[i] = s[m + i - 1]
      /\ \A i \in 1..(Len(s) - m + 1) : m + i - 1 \in 1..Len(s)
      /\ SubSeq(s, m, Len(s)) \in Seq(T)
  OBVIOUS
<1> QED
  BY <1>1 DEF Free

\* A turn of the scanner does not look at what it puts.
LEMMA ScanAlike ==
    ASSUME NEW T, NEW name \in Seq(T), NEW u, NEW v, Counterparts(T, name, u, v),
           NEW a, NEW b, Alike(T, name, a, b)
    PROVE  Alike(T, name, Scan(a, u), Scan(b, v))
<1> DEFINE rest == a.rest
           c == Head(rest)
           I == {i \in 1..Len(rest) : rest[i] = "}"}
           close == IF I # {} THEN Min(I) ELSE 0
           doubled == Len(rest) > 1 /\ rest[2] = c
           field == SubSeq(rest, 2, close - 1)
           bad(w) == close = 0 \/ Len(field) # 1 \/ field[1] \notin DOMAIN w
<1>1. CASE a = Failed /\ b = Failed
  BY <1>1, Zenon DEF Scan, Alike
<1>2. CASE a # Failed \/ b # Failed
  <2>0. /\ a \in [rest : Seq(T), written : Seq(T)] /\ b \in [rest : Seq(T), written : Seq(T)]
        /\ b.rest = rest /\ Free(rest) /\ a.written = Renamed(name, b.written)
        /\ a # Failed /\ b # Failed
    BY <1>2 DEF Alike, Failed
  <2>1. CASE rest = <<>>
    <3>1. Scan(a, u) = a /\ Scan(b, v) = b
      BY <2>0, <2>1, Zenon DEF Scan
    <3> QED
      BY <3>1
  <2>2. CASE rest # <<>>
    <3>1. /\ rest \in Seq(T) /\ a.written \in Seq(T) /\ b.written \in Seq(T) /\ c \in T
          /\ Len(rest) \in Nat \ {0} /\ c = rest[1]
      BY <2>0, <2>2
    <3>2. close \in 0..Len(rest)
      <4> HIDE DEF rest
      <4> QED
        BY <3>1, SelectIn
    <3>3. /\ Scan(a, u) =
               CASE c \in {"{", "}"} /\ doubled ->
                      [rest |-> SubSeq(rest, 3, Len(rest)), written |-> Append(a.written, c)]
                 [] c = "{" /\ ~doubled ->
                      IF bad(u) THEN Failed
                      ELSE [rest |-> SubSeq(rest, close + 1, Len(rest)),
                            written |-> a.written \o u[field[1]]]
                 [] c = "}" /\ ~doubled -> Failed
                 [] OTHER -> [rest |-> Tail(rest), written |-> Append(a.written, c)]
      BY <2>0, <2>2, Zenon DEF Scan, SelectInSeq, Emitted
    <3>4. /\ Scan(b, v) =
               CASE c \in {"{", "}"} /\ doubled ->
                      [rest |-> SubSeq(rest, 3, Len(rest)), written |-> Append(b.written, c)]
                 [] c = "{" /\ ~doubled ->
                      IF bad(v) THEN Failed
                      ELSE [rest |-> SubSeq(rest, close + 1, Len(rest)),
                            written |-> b.written \o v[field[1]]]
                 [] c = "}" /\ ~doubled -> Failed
                 [] OTHER -> [rest |-> Tail(rest), written |-> Append(b.written, c)]
      BY <2>0, <2>2, Zenon DEF Scan, SelectInSeq, Emitted
    <3>5. bad(u) <=> bad(v)
      BY DEF Counterparts
    <3>6. c # "anyhost"
      <4>1. 1 \in DOMAIN rest
        BY <3>1
      <4> QED
        BY <2>0, <3>1, <4>1 DEF Free
    <3> HIDE DEF I, doubled, c, rest
    <3>7. ASSUME NEW r \in Seq(T), Free(r), NEW w \in Seq(T), NEW x \in Seq(T), x = Renamed(name, w)
          PROVE  Alike(T, name, [rest |-> r, written |-> x], [rest |-> r, written |-> w])
      BY <3>7 DEF Alike
    <3>8. Alike(T, name, Failed, Failed)
      BY DEF Alike
    <3>9. /\ Append(a.written, c) \in Seq(T) /\ Append(b.written, c) \in Seq(T)
          /\ Append(a.written, c) = Renamed(name, Append(b.written, c))
      <4>1. Renamed(name, Append(b.written, c)) = Renamed(name, b.written) \o <<c>>
        BY <3>1, <3>6, RenamedIs DEF Word
      <4>2. Append(a.written, c) = a.written \o <<c>>
        BY <3>1, AppendIsConcat
      <4> QED
        BY <2>0, <3>1, <4>1, <4>2
    <3>10. /\ Tail(rest) = SubSeq(rest, 2, Len(rest))
           /\ 2 \in 1..(Len(rest) + 1) /\ close + 1 \in 1..(Len(rest) + 1)
           /\ doubled => 3 \in 1..(Len(rest) + 1)
      BY <2>2, <3>1, <3>2, TailIsSubSeq DEF doubled
    <3>11. \A m \in 1..(Len(rest) + 1) :
             Free(SubSeq(rest, m, Len(rest))) /\ SubSeq(rest, m, Len(rest)) \in Seq(T)
      BY <2>0, <3>1, FreeSub
    <3> HIDE DEF close, field
    <3>12. ASSUME ~bad(v)
           PROVE  Alike(T, name,
                    [rest |-> SubSeq(rest, close + 1, Len(rest)), written |-> a.written \o u[field[1]]],
                    [rest |-> SubSeq(rest, close + 1, Len(rest)), written |-> b.written \o v[field[1]]])
      <4> DEFINE k == field[1]
      <4>1. v[k] \in Seq(T) /\ u[k] = Renamed(name, v[k])
        BY <3>12 DEF Counterparts
      <4> HIDE DEF k
      <4>2. Renamed(name, b.written \o v[k]) = Renamed(name, b.written) \o Renamed(name, v[k])
        <5>1. \A w \in Seq(T) :
                Renamed(name, b.written \o w) = Renamed(name, b.written) \o Renamed(name, w)
          BY <3>1, RenamedConcat
        <5> QED
          BY <4>1, <5>1
      <4>3. u[k] \in Seq(T)
        BY <4>1, RenamedType
      <4>4. /\ b.written \o v[k] \in Seq(T) /\ a.written \o u[k] \in Seq(T)
            /\ a.written \o u[k] = Renamed(name, b.written \o v[k])
        BY <2>0, <3>1, <4>1, <4>2, <4>3
      <4> QED
        BY <3>7, <3>10, <3>11, <4>4 DEF k
    <3>13. CASE c \in {"{", "}"} /\ doubled
      <4>1. /\ Scan(a, u) = [rest |-> SubSeq(rest, 3, Len(rest)), written |-> Append(a.written, c)]
            /\ Scan(b, v) = [rest |-> SubSeq(rest, 3, Len(rest)), written |-> Append(b.written, c)]
        BY <3>3, <3>4, <3>13
      <4> QED
        BY <3>7, <3>9, <3>10, <3>11, <3>13, <4>1
    <3>14. CASE c = "{" /\ ~doubled
      <4>1. /\ Scan(a, u) = IF bad(u) THEN Failed
                            ELSE [rest |-> SubSeq(rest, close + 1, Len(rest)),
                                  written |-> a.written \o u[field[1]]]
            /\ Scan(b, v) = IF bad(v) THEN Failed
                            ELSE [rest |-> SubSeq(rest, close + 1, Len(rest)),
                                  written |-> b.written \o v[field[1]]]
        <5> HIDE DEF bad
        <5> QED
          BY <3>3, <3>4, <3>14
      <4> HIDE DEF bad
      <4> QED
        BY <3>5, <3>8, <3>12, <4>1
    <3>15. CASE c = "}" /\ ~doubled
      <4>1. Scan(a, u) = Failed /\ Scan(b, v) = Failed
        BY <3>3, <3>4, <3>15
      <4> QED
        BY <3>8, <4>1
    <3>16. CASE c \notin {"{", "}"}
      <4>1. /\ Scan(a, u) = [rest |-> Tail(rest), written |-> Append(a.written, c)]
            /\ Scan(b, v) = [rest |-> Tail(rest), written |-> Append(b.written, c)]
        BY <3>3, <3>4, <3>16
      <4> QED
        BY <3>7, <3>9, <3>10, <3>11, <4>1
    <3> QED
      BY <3>13, <3>14, <3>15, <3>16
  <2> QED
    BY <2>1, <2>2
<1> QED
  BY <1>1, <1>2

\* A formatted text, for a name and for the stand-in.
SameText(T, name, a, b) ==
  \/ a = Failed /\ b = Failed
  \/ \E w \in Seq(T) : b = [text |-> w] /\ a = [text |-> Renamed(name, w)]

LEMMA FormatAlike ==
    ASSUME NEW T, NEW name \in Seq(T), NEW u, NEW v, Counterparts(T, name, u, v),
           NEW template \in Seq(T), Free(template)
    PROVE  SameText(T, name, FormatTemplate(template, u), FormatTemplate(template, v))
<1> DEFINE N == Len(template)
           d == [rest |-> template, written |-> <<>>]
<1>1. /\ \A k \in DOMAIN u : u[k] \in Seq(T)
      /\ \A k \in DOMAIN v : v[k] \in Seq(T)
  BY RenamedType DEF Counterparts
<1>a. PICK g : Turns(T, template, u, g)
  BY <1>1, FormatSteps
<1>b. PICK h : Turns(T, template, v, h)
  BY <1>1, FormatSteps
<1>2. /\ g[0] = d /\ \A n \in 1..N : g[n] = Scan(g[n - 1], u)
      /\ FormatTemplate(template, u) = IF g[N] = Failed THEN Failed ELSE [text |-> g[N].written]
  BY <1>a DEF Turns
<1>3. /\ h[0] = d /\ \A n \in 1..N : h[n] = Scan(h[n - 1], v)
      /\ FormatTemplate(template, v) = IF h[N] = Failed THEN Failed ELSE [text |-> h[N].written]
  BY <1>b DEF Turns
<1>4. N \in Nat
  OBVIOUS
<1>5. Alike(T, name, d, d)
  <2>1. <<>> \in Seq(T)
    OBVIOUS
  <2>2. <<>> = Renamed(name, <<>>)
    BY <2>1, RenamedType
  <2> QED
    BY <2>1, <2>2 DEF Alike
<1> HIDE DEF d, N
<1> DEFINE B(n) == Alike(T, name, g[n], h[n])
           S == {n \in Nat : n <= N => B(n)}
<1>6. 0 \in S
  BY <1>2, <1>3, <1>5
<1>7. ASSUME NEW n \in Nat, n \in S PROVE n + 1 \in S
  <2> SUFFICES ASSUME n + 1 <= N PROVE B(n + 1)
    <3> HIDE DEF B
    <3> QED
      OBVIOUS
  <2>1. n + 1 \in 1..N /\ (n + 1) - 1 = n /\ n <= N
    BY <1>4
  <2>2. B(n)
    BY <1>7, <2>1
  <2>3. g[n + 1] = Scan(g[n], u) /\ h[n + 1] = Scan(h[n], v)
    BY <1>2, <1>3, <2>1
  <2>4. Alike(T, name, Scan(g[n], u), Scan(h[n], v))
    BY <2>2, ScanAlike
  <2> QED
    BY <2>3, <2>4
<1> HIDE DEF S
<1>8. \A n \in Nat : n \in S
  BY <1>6, <1>7, Induction
<1>9. Alike(T, name, g[N], h[N])
  BY <1>4, <1>8 DEF S
<1>10. (g[N] = Failed) <=> (h[N] = Failed)
  BY <1>9 DEF Alike, Failed
<1>11. CASE g[N] = Failed
  BY <1>2, <1>3, <1>10, <1>11 DEF SameText
<1>12. CASE g[N] # Failed
  <2>1. g[N].written = Renamed(name, h[N].written) /\ h[N].written \in Seq(T)
    BY <1>9, <1>12 DEF Alike
  <2> QED
    BY <1>2, <1>3, <1>10, <1>12, <2>1 DEF SameText
<1> QED
  BY <1>11, <1>12

\* The stand-in is the name's, and a text without it is its own.
LEMMA RenamedHost ==
    ASSUME NEW T, "anyhost" \in T, NEW name \in Seq(T)
    PROVE  Anyhost \in Seq(T) /\ Renamed(name, Anyhost) = name
<1>1. <<>> \in Seq(T) /\ Append(<<>>, "anyhost") = <<"anyhost">> /\ <<"anyhost">> \in Seq(T)
  OBVIOUS
<1>2. Renamed(name, <<>>) = <<>> /\ Renamed(name, Append(<<>>, "anyhost")) = Renamed(name, <<>>) \o Word(name, "anyhost")
  <2>1. \A s \in Seq(T), x \in T : /\ Renamed(name, <<>>) = <<>>
                                  /\ Renamed(name, Append(s, x)) = Renamed(name, s) \o Word(name, x)
    BY RenamedIs
  <2> QED
    BY <1>1, <2>1
<1>3. <<>> \o name = name
  OBVIOUS
<1> QED
  BY <1>1, <1>2, <1>3 DEF Anyhost, Word

LEMMA SameOk ==
    ASSUME NEW T, NEW name, NEW a, NEW b, SameText(T, name, a, b)
    PROVE  /\ Ok(a) <=> Ok(b)
           /\ Ok(b) => b.text \in Seq(T) /\ a.text = Renamed(name, b.text)
<1>1. ~Ok(Failed)
  BY DEF Ok, Is, Failed
<1>2. \A w : Ok([text |-> w]) /\ [text |-> w].text = w
  BY DEF Ok, Is
<1> QED
  BY <1>1, <1>2, Zenon DEF SameText

LEMMA SendAlike ==
    ASSUME NEW T, NEW name \in Seq(T), Nameable(name), NEW a, NEW b, SameText(T, name, a, b)
    PROVE  SameText(T, name, Sendable(a), Sendable(b))
<1>1. CASE Ok(b)
  <2>1. Ok(a) /\ b.text \in Seq(T) /\ a.text = Renamed(name, b.text)
    BY <1>1, SameOk
  <2>2. Publishable(a.text) <=> Publishable(b.text)
    BY <2>1, RenamedPublishable
  <2>3. CASE Publishable(b.text)
    <3>1. Sendable(a) = a /\ Sendable(b) = b
      BY <1>1, <2>1, <2>2, <2>3, Zenon DEF Sendable
    <3> QED
      BY <3>1
  <2>4. CASE ~Publishable(b.text)
    <3>1. Sendable(a) = Failed /\ Sendable(b) = Failed
      BY <2>2, <2>4, Zenon DEF Sendable
    <3> QED
      BY <3>1, Zenon DEF SameText
  <2> QED
    BY <2>3, <2>4
<1>2. CASE ~Ok(b)
  <2>1. ~Ok(a)
    BY <1>2, SameOk
  <2>2. Sendable(a) = Failed /\ Sendable(b) = Failed
    BY <1>2, <2>1, Zenon DEF Sendable
  <2> QED
    BY <2>2, Zenon DEF SameText
<1> QED
  BY <1>1, <1>2

LEMMA TopicAlike ==
    ASSUME NEW T, NEW name \in Seq(T), Nameable(name), NEW u, NEW v, Counterparts(T, name, u, v),
           NEW data, NEW path, Text(Dig(data, path)) \in Seq(T), Free(Text(Dig(data, path)))
    PROVE  SameText(T, name, Topic(data, path, u), Topic(data, path, v))
<1> DEFINE t == Text(Dig(data, path))
<1>1. SameText(T, name, FormatTemplate(t, u), FormatTemplate(t, v))
  <2> HIDE DEF t
  <2>1. t \in Seq(T) /\ Free(t)
    BY DEF t
  <2> QED
    BY <2>1, FormatAlike
<1>2. Topic(data, path, u) = Sendable(FormatTemplate(t, u)) /\ Topic(data, path, v) = Sendable(FormatTemplate(t, v))
  BY Zenon DEF Topic
<1> HIDE DEF t
<1> QED
  BY <1>1, <1>2, SendAlike

LEMMA PrefixAlike ==
    ASSUME NEW T, "anyhost" \in T, NEW name \in Seq(T), Nameable(name),
           NEW data, Text(Dig(data, <<"topics", "prefix">>)) \in Seq(T),
           Free(Text(Dig(data, <<"topics", "prefix">>)))
    PROVE  /\ Ok(Formatted(data, name)) <=> Ok(Formatted(data, Anyhost))
           /\ Ok(Formatted(data, Anyhost)) =>
                /\ Prefix(data, Anyhost) \in Seq(T)
                /\ Prefix(data, name) = Renamed(name, Prefix(data, Anyhost))
<1> DEFINE t == Text(Dig(data, <<"topics", "prefix">>))
           u == [hostname |-> name, prefix |-> <<>>]
           v == [hostname |-> Anyhost, prefix |-> <<>>]
<1>1. Counterparts(T, name, u, v)
  <2>1. <<>> \in Seq(T) /\ Renamed(name, <<>>) = <<>>
    <3>1. <<>> \in Seq(T)
      OBVIOUS
    <3> QED
      BY <3>1, RenamedType
  <2>2. Anyhost \in Seq(T) /\ Renamed(name, Anyhost) = name
    BY RenamedHost
  <2>3. /\ DOMAIN u = {"hostname", "prefix"} /\ DOMAIN v = {"hostname", "prefix"}
        /\ u["hostname"] = name /\ u["prefix"] = <<>>
        /\ v["hostname"] = Anyhost /\ v["prefix"] = <<>>
    OBVIOUS
  <2> HIDE DEF u, v
  <2> QED
    BY <2>1, <2>2, <2>3 DEF Counterparts
<1>2. Formatted(data, name) = FormatTemplate(t, u) /\ Formatted(data, Anyhost) = FormatTemplate(t, v)
  BY Zenon DEF Formatted
<1>3. t \in Seq(T) /\ Free(t)
  OBVIOUS
<1> HIDE DEF t, u, v
<1>4. SameText(T, name, Formatted(data, name), Formatted(data, Anyhost))
  BY <1>1, <1>2, <1>3, FormatAlike
<1>5. /\ Ok(Formatted(data, name)) <=> Ok(Formatted(data, Anyhost))
      /\ Ok(Formatted(data, Anyhost)) =>
           /\ Formatted(data, Anyhost).text \in Seq(T)
           /\ Formatted(data, name).text = Renamed(name, Formatted(data, Anyhost).text)
  BY <1>4, SameOk
<1> DEFINE w == Formatted(data, Anyhost).text
<1>6. ASSUME w \in Seq(T) PROVE TrimSlashes(w) \in Seq(T)
                                /\ TrimSlashes(Renamed(name, w)) = Renamed(name, TrimSlashes(w))
  <2> HIDE DEF w
  <2>1. TrimSlashes(w) \in Seq(T)
    <3>1. PICK n \in 0..Len(w) : TrimSlashes(w) = SubSeq(w, 1, n)
      BY <1>6, TrimExists
    <3> QED
      BY <1>6, <3>1
  <2> QED
    BY <1>6, <2>1, RenamedTrim
<1> QED
  BY <1>5, <1>6 DEF Prefix

(***************************************************************************)
(* One file, for a name and for the stand-in.                              *)
(***************************************************************************)
\* The topic of a field, and what start-up asks of every topic.
FieldTopic(data, hostname, field) ==
  Topic(data, <<"metrics", "meminfo", "topic">>,
        [hostname |-> hostname, prefix |-> Prefix(data, hostname), name |-> MeminfoTopicName(field)])
Asked(data) == Fields(Dig(data, <<"metrics", "meminfo", "fields">>))
Formats(data, hostname) ==
  /\ Ok(Formatted(data, hostname))
  /\ \A t \in {"status", "json", "uptime"} : Ok(Under(data, hostname)[t])
  /\ \A i \in DOMAIN Asked(data) : Ok(FieldTopic(data, hostname, Asked(data)[i]))

\* Templates and fields without the stand-in, of words in T.
Wording(T, data) ==
  /\ \A p \in Topics \cup {<<"topics", "prefix">>} :
       Text(Dig(data, p)) \in Seq(T) /\ Free(Text(Dig(data, p)))
  /\ \A i \in DOMAIN Asked(data) : Asked(data)[i] \in Seq(T) /\ Free(Asked(data)[i])

LEMMA UnderAlike ==
    ASSUME NEW T, "anyhost" \in T, NEW name \in Seq(T), Nameable(name),
           NEW data, Wording(T, data), Ok(Formatted(data, Anyhost))
    PROVE  \A t \in {"status", "json", "uptime"} :
             SameText(T, name, Under(data, name)[t], Under(data, Anyhost)[t])
<1> DEFINE p == Prefix(data, name)
           q == Prefix(data, Anyhost)
           u == [hostname |-> name, prefix |-> p]
           v == [hostname |-> Anyhost, prefix |-> q]
<1>1. q \in Seq(T) /\ p = Renamed(name, q)
  BY PrefixAlike DEF Wording
<1>2. Anyhost \in Seq(T) /\ Renamed(name, Anyhost) = name
  BY RenamedHost
<1>3. /\ Under(data, name) =
           [prefix |-> p, status |-> Topic(data, <<"topics", "status">>, u),
            json |-> Topic(data, <<"topics", "json">>, u),
            uptime |-> Topic(data, <<"metrics", "uptime_minutes", "topic">>, u)]
      /\ Under(data, Anyhost) =
           [prefix |-> q, status |-> Topic(data, <<"topics", "status">>, v),
            json |-> Topic(data, <<"topics", "json">>, v),
            uptime |-> Topic(data, <<"metrics", "uptime_minutes", "topic">>, v)]
  BY Zenon DEF Under, TopicsUnder
<1> HIDE DEF p, q
<1>4. Counterparts(T, name, u, v)
  <2>1. /\ DOMAIN u = {"hostname", "prefix"} /\ DOMAIN v = {"hostname", "prefix"}
        /\ u["hostname"] = name /\ u["prefix"] = p
        /\ v["hostname"] = Anyhost /\ v["prefix"] = q
    OBVIOUS
  <2> HIDE DEF u, v
  <2> QED
    BY <1>1, <1>2, <2>1 DEF Counterparts
<1> HIDE DEF u, v
<1>5. \A path \in Topics : SameText(T, name, Topic(data, path, u), Topic(data, path, v))
  BY <1>4, TopicAlike DEF Wording
<1>6. /\ <<"topics", "status">> \in Topics /\ <<"topics", "json">> \in Topics
      /\ <<"metrics", "uptime_minutes", "topic">> \in Topics
  BY DEF Topics
<1> QED
  BY <1>3, <1>5, <1>6

LEMMA FieldAlike ==
    ASSUME NEW T, "anyhost" \in T, "kb" \in T, NEW name \in Seq(T), Nameable(name),
           NEW data, Wording(T, data), Ok(Formatted(data, Anyhost)),
           NEW field \in Seq(T), Free(field)
    PROVE  SameText(T, name, FieldTopic(data, name, field), FieldTopic(data, Anyhost, field))
<1> DEFINE p == Prefix(data, name)
           q == Prefix(data, Anyhost)
           n == MeminfoTopicName(field)
           u == [hostname |-> name, prefix |-> p, name |-> n]
           v == [hostname |-> Anyhost, prefix |-> q, name |-> n]
           path == <<"metrics", "meminfo", "topic">>
<1>1. q \in Seq(T) /\ p = Renamed(name, q)
  BY PrefixAlike DEF Wording
<1>2. Anyhost \in Seq(T) /\ Renamed(name, Anyhost) = name
  BY RenamedHost
<1>3. n \in Seq(T) /\ n = Renamed(name, n)
  <2>1. n = Append(field, "kb") /\ n \in Seq(T)
    BY DEF MeminfoTopicName
  <2>2. Free(n)
    BY <2>1, FreeAppend
  <2> HIDE DEF n
  <2> QED
    BY <2>1, <2>2, RenamedFree
<1>4. /\ FieldTopic(data, name, field) = Topic(data, path, u)
      /\ FieldTopic(data, Anyhost, field) = Topic(data, path, v)
  BY Zenon DEF FieldTopic
<1> HIDE DEF p, q, n
<1>5. Counterparts(T, name, u, v)
  <2>1. /\ DOMAIN u = {"hostname", "prefix", "name"} /\ DOMAIN v = {"hostname", "prefix", "name"}
        /\ u["hostname"] = name /\ u["prefix"] = p /\ u["name"] = n
        /\ v["hostname"] = Anyhost /\ v["prefix"] = q /\ v["name"] = n
    OBVIOUS
  <2> HIDE DEF u, v
  <2> QED
    BY <1>1, <1>2, <1>3, <2>1 DEF Counterparts
<1> HIDE DEF u, v
<1>6. path \in Topics
  BY DEF Topics
<1>7. Text(Dig(data, path)) \in Seq(T) /\ Free(Text(Dig(data, path)))
  BY <1>6 DEF Wording
<1> HIDE DEF path
<1> QED
  BY <1>4, <1>5, <1>7, TopicAlike

\* What start-up asks of the topics does not depend on the name.
LEMMA FormatsAlike ==
    ASSUME NEW T, "anyhost" \in T, "kb" \in T, NEW name \in Seq(T), Nameable(name),
           NEW data, Wording(T, data)
    PROVE  Formats(data, name) <=> Formats(data, Anyhost)
<1>1. Ok(Formatted(data, name)) <=> Ok(Formatted(data, Anyhost))
  BY PrefixAlike DEF Wording
<1>2. CASE ~Ok(Formatted(data, Anyhost))
  BY <1>1, <1>2 DEF Formats
<1>3. CASE Ok(Formatted(data, Anyhost))
  <2>1. \A t \in {"status", "json", "uptime"} :
          Ok(Under(data, name)[t]) <=> Ok(Under(data, Anyhost)[t])
    BY <1>3, UnderAlike, SameOk
  <2>2. \A i \in DOMAIN Asked(data) :
          Ok(FieldTopic(data, name, Asked(data)[i])) <=> Ok(FieldTopic(data, Anyhost, Asked(data)[i]))
    BY <1>3, FieldAlike, SameOk DEF Wording
  <2> QED
    BY <1>1, <1>3, <2>1, <2>2 DEF Formats
<1> QED
  BY <1>2, <1>3

\* The templates and fields of valid data are texts.
LEMMA TopicTexts ==
    ASSUME NEW data, Shape(data), NEW p \in Topics \cup {<<"topics", "prefix">>}
    PROVE  Text(Dig(data, p)) \in Seq(STRING)
<1>1. ASSUME NEW k \in {"prefix", "status", "json"} PROVE Textual(Dig(data, <<"topics", k>>))
  <2>1. k \in DOMAIN TopicsDefaults.map /\ <<"topics", k>> # <<"mqtt", "password_env">>
    BY TopicsKeys
  <2>2. PICK t : At(TopicsDefaults, k) = Str(t)
    BY TopicsValues DEF OnPrefix
  <2> QED
    BY <2>1, <2>2, TopicsShape, StrShape, Kinds
<1>2. Textual(Dig(data, <<"metrics", "uptime_minutes", "topic">>))
  <2>1. "topic" \in DOMAIN UptimeDefaults.map
    BY UptimeKeys
  <2>2. PICK t : At(UptimeDefaults, "topic") = Str(t)
    BY UptimeValues DEF OnPrefix
  <2>3. <<"metrics", "uptime_minutes", "topic">> # <<"mqtt", "password_env">>
    OBVIOUS
  <2> QED
    BY <2>1, <2>2, <2>3, UptimeShape, StrShape, Kinds
<1>3. Textual(Dig(data, <<"metrics", "meminfo", "topic">>))
  BY MeminfoKinds
<1>4. Textual(Dig(data, p))
  BY <1>1, <1>2, <1>3, Zenon DEF Topics
<1> QED
  BY <1>4 DEF Textual, Text

LEMMA Worded ==
    ASSUME NEW data, Shape(data), "anyhost" \notin Spelled(data)
    PROVE  Wording(STRING, data)
<1>1. ASSUME NEW p \in Topics \cup {<<"topics", "prefix">>}
      PROVE  Text(Dig(data, p)) \in Seq(STRING) /\ Free(Text(Dig(data, p)))
  <2>1. Text(Dig(data, p)) \in Seq(STRING)
    BY TopicTexts
  <2>2. "anyhost" \notin ToSet(Text(Dig(data, p)))
    BY Zenon DEF Spelled
  <2> QED
    BY <2>1, <2>2, Zenon DEF ToSet, Free
<1>2. Asked(data) \in Seq(Seq(STRING))
  <2>1. MeminfoFields([data |-> data]) = Asked(data)
    BY DEF MeminfoFields, Asked
  <2>2. [data |-> data].data = data
    OBVIOUS
  <2> QED
    BY <2>1, <2>2, FieldsType
<1>3. ASSUME NEW i \in DOMAIN Asked(data) PROVE Asked(data)[i] \in Seq(STRING) /\ Free(Asked(data)[i])
  <2>1. Asked(data)[i] \in Seq(STRING)
    BY <1>2
  <2>2. Asked(data)[i] \in ToSet(Asked(data))
    BY Zenon DEF ToSet
  <2>3. "anyhost" \notin ToSet(Asked(data)[i])
    <3>1. \A f \in ToSet(Asked(data)) : "anyhost" \notin ToSet(f)
      <4> DEFINE S == ToSet(Asked(data))
                 K == Topics \cup {<<"topics", "prefix">>}
      <4>1. Spelled(data) = (UNION {ToSet(Text(Dig(data, p))) : p \in K}) \cup (UNION {ToSet(f) : f \in S})
        BY Zenon DEF Spelled, Asked
      <4> DEFINE F == {ToSet(f) : f \in S}
      <4>2. "anyhost" \notin UNION F
        BY <4>1
      <4>3. \A g \in S : ToSet(g) \in F
        OBVIOUS
      <4> HIDE DEF S, F
      <4>4. \A g \in S : "anyhost" \notin ToSet(g)
        BY <4>2, <4>3
      <4> QED
        BY <4>4 DEF S
    <3> QED
      BY <2>2, <3>1
  <2> QED
    BY <2>1, <2>3, Zenon DEF ToSet, Free
<1> QED
  BY <1>1, <1>3 DEF Wording

\* Whatever hostname is, the file must be there and its data valid.
Readies(f, st, explicit) ==
  /\ ~(st.config = "unreadable" \/ (st.config = "absent" /\ explicit))
  /\ Is("map", Document(f, st)) \/ Is("null", Document(f, st))
  /\ Valid(Merge(Document(f, st)))
  /\ Source(Merge(Document(f, st)), st) # Failed

LEMMA FormatsIs ==
    ASSUME NEW data, NEW hostname, NEW st, NEW unknown, NEW warnings
    PROVE  LET c == Settled(data, hostname, st, unknown, warnings)
           IN  /\ MeminfoFields(c) = Asked(data)
               /\ \A field : MeminfoTopic(c, field) = FieldTopic(data, hostname, field)
<1> DEFINE c == Settled(data, hostname, st, unknown, warnings)
<1>1. c.data = data /\ c.hostname = hostname /\ c.prefix = Prefix(data, hostname)
  BY SettledIs
<1> HIDE DEF c
<1>2. /\ MeminfoFields(c) = Asked(data)
      /\ \A field : MeminfoTopic(c, field) = FieldTopic(data, hostname, field)
  BY <1>1, Zenon DEF MeminfoFields, Asked, MeminfoTopic, FieldTopic
<1> QED
  BY <1>2, Zenon DEF c

\* A configuration is accepted exactly if it is ready and its topics format.
LEMMA LoadAccepts ==
    ASSUME NEW f, NEW hostname, NEW st, NEW explicit
    PROVE  Load(f, hostname, st, explicit) # Rejected
             <=> Readies(f, st, explicit) /\ Formats(Merge(Document(f, st)), hostname)
<1> DEFINE doc == Document(f, st)
           data == Merge(doc)
           loaded == Load(f, hostname, st, explicit)
           yaml == FromYaml(doc, hostname, st)
           resolved == Resolved(data, hostname, st)
           c == Settled(data, hostname, st, {}, Usual(data, st))
           d == Settled(data, hostname, st, Unknown(doc), Told(data, st))
<1>1. loaded = IF st.config = "unreadable" \/ (st.config = "absent" /\ explicit) THEN Rejected
               ELSE Warned(yaml, st)
  BY Zenon DEF Load, Document
<1>2. ASSUME loaded # Rejected PROVE Readies(f, st, explicit) /\ Formats(data, hostname)
  <2>1. /\ Is("map", doc) \/ Is("null", doc)
        /\ Valid(data)
        /\ Source(data, st) # Failed
        /\ Ok(Formatted(data, hostname))
        /\ \A t \in {"status", "json", "uptime"} : Ok(Under(data, hostname)[t])
        /\ \A i \in DOMAIN MeminfoFields(d) : Ok(MeminfoTopic(d, MeminfoFields(d)[i]))
    BY <1>2, LoadIs
  <2>2. /\ MeminfoFields(d) = Asked(data)
        /\ \A field : MeminfoTopic(d, field) = FieldTopic(data, hostname, field)
    <3> HIDE DEF data, doc
    <3> QED
      BY FormatsIs
  <2> QED
    BY <1>1, <1>2, <2>1, <2>2, Zenon DEF Readies, Formats
<1>3. ASSUME Readies(f, st, explicit), Formats(data, hostname) PROVE loaded # Rejected
  <2>1. /\ Ok(Formatted(data, hostname))
        /\ \A t \in {"status", "json", "uptime"} : Ok(Under(data, hostname)[t])
        /\ \A i \in DOMAIN Asked(data) : Ok(FieldTopic(data, hostname, Asked(data)[i]))
    BY <1>3, Zenon DEF Formats
  <2>2. /\ Source(data, st) # Failed /\ Valid(data)
        /\ Is("map", doc) \/ Is("null", doc)
    BY <1>3, Zenon DEF Readies
  <2>3. resolved = c
    BY <2>1, <2>2, Zenon
       DEF Resolved, Assembled, Settled, Usual, Source, Under, Prefix, Formatted, TopicsUnder
  <2>4. yaml = Checked(resolved, Unknown(doc))
    BY <2>2, Zenon DEF FromYaml, Merge
  <2>5. /\ MeminfoFields(c) = Asked(data) /\ c # Rejected
        /\ \A field : MeminfoTopic(c, field) = FieldTopic(data, hostname, field)
    <3> HIDE DEF data, doc
    <3> QED
      BY FormatsIs, SettledIs
  <2> HIDE DEF c, data, doc, resolved, yaml
  <2>6. Checked(c, Unknown(doc)) = [c EXCEPT !.unknown = Unknown(doc)]
    BY <2>1, <2>5, Zenon DEF Checked, Rehearsed
  <2>7. [c EXCEPT !.unknown = Unknown(doc)]
          = Settled(data, hostname, st, Unknown(doc), Usual(data, st))
    BY SettledWith DEF c
  <2>8. Warned(yaml, st) = Settled(data, hostname, st, Unknown(doc), Told(data, st))
    BY <2>3, <2>4, <2>6, <2>7, WarnedIs
  <2>9. Warned(yaml, st) # Rejected
    BY <2>8, SettledIs
  <2> QED
    BY <1>1, <1>3, <2>9, Zenon DEF Readies
<1> QED
  BY <1>2, <1>3, Zenon

\* A start that failed is one whose file is not accepted.
RejectedInv == phase = "rejected" => Loaded = Rejected

LEMMA RejectedStep == RejectedInv /\ [Next]_vars => RejectedInv'
<1> SUFFICES ASSUME RejectedInv, [Next]_vars PROVE RejectedInv'
  OBVIOUS
<1>1. CASE LoadConfig
  <2>1. /\ cfg' = Loaded /\ UNCHANGED <<file, site>>
        /\ phase' = IF cfg' = Rejected THEN "rejected" ELSE "loaded"
    BY <1>1 DEF LoadConfig, Loaded
  <2>2. Loaded' = Loaded
    BY <2>1 DEF Loaded
  <2> QED
    BY <2>1, <2>2 DEF RejectedInv
<1>2. CASE UNCHANGED vars
  <2>1. UNCHANGED <<phase, file, site>>
    BY <1>2 DEF vars
  <2>2. Loaded' = Loaded
    BY <2>1 DEF Loaded
  <2> QED
    BY <2>1, <2>2 DEF RejectedInv
<1>3. CASE ~LoadConfig /\ Next
  <2>1. CASE Edit \/ EditAlone
    <3>1. phase' = phase /\ phase = "editing"
      BY <2>1 DEF Edit, EditAlone, Set
    <3> QED
      BY <3>1 DEF RejectedInv
  <2>2. CASE Nameless \/ Report \/ Wait \/ PrintConfig
    <3>1. phase' # "rejected"
      BY <2>2 DEF Nameless, Report, Wait, PrintConfig, Step
    <3> QED
      BY <3>1 DEF RejectedInv
  <2>3. CASE DryRun \/ Start
    <3>1. \E unwraps : \E mode \in {"dry run", "panicked", "refused", "serving"} :
            Serve(unwraps, mode)
      BY <2>3, Zenon DEF Start, DryRun
    <3>2. phase' # "rejected"
      BY <3>1 DEF Serve, Step
    <3> QED
      BY <3>2 DEF RejectedInv
  <2> QED
    BY <1>3, <2>1, <2>2, <2>3 DEF Next
<1> QED
  BY <1>1, <1>2, <1>3

\* The strings, with two of them named: the provers know of no string that it
\* is in STRING.
Alphabet == STRING \cup {"anyhost", "kb"}

LEMMA SeqWidens == ASSUME NEW A, NEW B, A \subseteq B, NEW s \in Seq(A) PROVE s \in Seq(B)
OBVIOUS

LEMMA AlphabetIs ==
    /\ "anyhost" \in Alphabet /\ "kb" \in Alphabet
    /\ \A s \in Seq(STRING) : s \in Seq(Alphabet)
<1>1. STRING \subseteq Alphabet
  BY Zenon DEF Alphabet
<1>2. \A s \in Seq(STRING) : s \in Seq(Alphabet)
  BY <1>1, SeqWidens
<1> QED
  BY <1>2, Zenon DEF Alphabet

\* One file on one site, for the host's name and for the stand-in.
LEMMA LoadAlike ==
    ASSUME NEW f, NEW st, NEW explicit, NEW name \in Seq(STRING), Nameable(name),
           "anyhost" \notin Spelled(Merge(Document(f, st)))
    PROVE  LET c == Load(f, name, st, explicit)
               d == Load(f, Anyhost, st, explicit)
           IN  /\ (c = Rejected) <=> (d = Rejected)
               /\ c # Rejected =>
                    /\ c.prefix = Renamed(name, d.prefix)
                    /\ c.status_topic = Renamed(name, d.status_topic)
                    /\ c.json_topic = Renamed(name, d.json_topic)
                    /\ c.uptime_topic = Renamed(name, d.uptime_topic)
                    /\ \A field \in ToSet(MeminfoFields(c)) :
                         MeminfoTopic(c, field) = [text |-> Renamed(name, MeminfoTopic(d, field).text)]
<1> DEFINE doc == Document(f, st)
           data == Merge(doc)
           c == Load(f, name, st, explicit)
           d == Load(f, Anyhost, st, explicit)
<1>1. ASSUME Readies(f, st, explicit) PROVE Wording(Alphabet, data)
  <2>1. Shape(data)
    BY <1>1, Zenon DEF Readies, Valid
  <2> QED
    BY <2>1, Worded, AlphabetIs DEF Wording
<1>n. name \in Seq(Alphabet)
  BY AlphabetIs
<1>2. ASSUME Readies(f, st, explicit) PROVE Formats(data, name) <=> Formats(data, Anyhost)
  <2>1. Wording(Alphabet, data)
    BY <1>1, <1>2
  <2> HIDE DEF data, doc
  <2> QED
    BY <1>n, <2>1, AlphabetIs, FormatsAlike
<1>3. /\ c # Rejected <=> Readies(f, st, explicit) /\ Formats(data, name)
      /\ d # Rejected <=> Readies(f, st, explicit) /\ Formats(data, Anyhost)
  <2>1. \A hostname : Load(f, hostname, st, explicit) # Rejected
                        <=> Readies(f, st, explicit) /\ Formats(data, hostname)
    BY LoadAccepts
  <2> QED
    BY <2>1, Zenon
<1>4. (c = Rejected) <=> (d = Rejected)
  BY <1>2, <1>3
<1>5. ASSUME c # Rejected
      PROVE  /\ c.prefix = Renamed(name, d.prefix)
             /\ c.status_topic = Renamed(name, d.status_topic)
             /\ c.json_topic = Renamed(name, d.json_topic)
             /\ c.uptime_topic = Renamed(name, d.uptime_topic)
             /\ \A field \in ToSet(MeminfoFields(c)) :
                  MeminfoTopic(c, field) = [text |-> Renamed(name, MeminfoTopic(d, field).text)]
  <2>1. /\ c = Settled(data, name, st, Unknown(doc), Told(data, st))
        /\ d = Settled(data, Anyhost, st, Unknown(doc), Told(data, st))
    BY <1>4, <1>5, LoadIs
  <2>2. Wording(Alphabet, data) /\ Formats(data, Anyhost)
    BY <1>1, <1>2, <1>3, <1>5
  <2> HIDE DEF c, d, doc, data
  <2>3. /\ c.prefix = Prefix(data, name)
        /\ c.status_topic = Under(data, name).status.text
        /\ c.json_topic = Under(data, name).json.text
        /\ c.uptime_topic = Under(data, name).uptime.text
        /\ MeminfoFields(c) = Asked(data)
        /\ \A field : MeminfoTopic(c, field) = FieldTopic(data, name, field)
    BY <2>1, SettledIs, FormatsIs
  <2>4. /\ d.prefix = Prefix(data, Anyhost)
        /\ d.status_topic = Under(data, Anyhost).status.text
        /\ d.json_topic = Under(data, Anyhost).json.text
        /\ d.uptime_topic = Under(data, Anyhost).uptime.text
        /\ \A field : MeminfoTopic(d, field) = FieldTopic(data, Anyhost, field)
    BY <2>1, SettledIs, FormatsIs
  <2>5. Ok(Formatted(data, Anyhost))
    BY <2>2 DEF Formats
  <2>6. c.prefix = Renamed(name, d.prefix)
    BY <1>n, <2>2, <2>3, <2>4, <2>5, AlphabetIs, PrefixAlike DEF Wording
  <2>7. \A t \in {"status", "json", "uptime"} :
          Under(data, name)[t].text = Renamed(name, Under(data, Anyhost)[t].text)
    <3>1. \A t \in {"status", "json", "uptime"} :
            /\ SameText(Alphabet, name, Under(data, name)[t], Under(data, Anyhost)[t])
            /\ Ok(Under(data, Anyhost)[t])
      BY <1>n, <2>2, <2>5, AlphabetIs, UnderAlike DEF Formats
    <3> QED
      BY <3>1, SameOk
  <2>8. ASSUME NEW field \in ToSet(MeminfoFields(c))
        PROVE  MeminfoTopic(c, field) = [text |-> Renamed(name, MeminfoTopic(d, field).text)]
    <3>1. PICK i \in DOMAIN Asked(data) : field = Asked(data)[i]
      BY <2>3, <2>8 DEF ToSet
    <3>2. field \in Seq(Alphabet) /\ Free(field)
      BY <2>2, <3>1 DEF Wording
    <3>3. Ok(FieldTopic(data, Anyhost, field))
      BY <2>2, <3>1 DEF Formats
    <3>4. SameText(Alphabet, name, FieldTopic(data, name, field), FieldTopic(data, Anyhost, field))
      BY <1>n, <2>2, <2>5, <3>2, AlphabetIs, FieldAlike
    <3>5. \E w : /\ FieldTopic(data, Anyhost, field) = [text |-> w]
                 /\ FieldTopic(data, name, field) = [text |-> Renamed(name, w)]
      <4>1. FieldTopic(data, Anyhost, field) # Failed
        BY <3>3 DEF Ok, Is, Failed
      <4> QED
        BY <3>4, <4>1, Zenon DEF SameText
    <3>6. FieldTopic(data, name, field) = [text |-> Renamed(name, FieldTopic(data, Anyhost, field).text)]
      BY <3>5
    <3> QED
      BY <2>3, <2>4, <3>6
  <2> QED
    BY <2>3, <2>4, <2>6, <2>7, <2>8
<1> HIDE DEF c, d
<1> QED
  BY <1>4, <1>5, Zenon DEF c, d

LEMMA WithNameIs == ASSUME NEW t PROVE WithName(t) = Renamed(site.hostname, t)
BY Zenon DEF WithName, Renamed, Word

LEMMA LiteralFollows == IInv /\ FileInv /\ RejectedInv => LiteralValues
<1> DEFINE data == Merge(file)
           other == Load(file, Anyhost, site, site.explicit)
           name == site.hostname
<1> SUFFICES ASSUME IInv, FileInv, RejectedInv, phase \in {"loaded", "rejected"},
                    Nameable(name), "anyhost" \notin Spelled(data)
             PROVE  /\ (phase = "rejected") <=> (other = Rejected)
                    /\ phase = "loaded" =>
                         /\ cfg.prefix = WithName(other.prefix)
                         /\ cfg.status_topic = WithName(other.status_topic)
                         /\ cfg.json_topic = WithName(other.json_topic)
                         /\ cfg.uptime_topic = WithName(other.uptime_topic)
                         /\ \A field \in ToSet(MeminfoFields(cfg)) :
                              MeminfoTopic(cfg, field) = [text |-> WithName(MeminfoTopic(other, field).text)]
  BY Zenon DEF LiteralValues, Merge
<1>1. Document(file, site) = file
  BY DEF Document, FileInv
<1>2. name \in Seq(STRING)
  BY DEF IInv
<1>3. /\ (Loaded = Rejected) <=> (other = Rejected)
      /\ Loaded # Rejected =>
           /\ Loaded.prefix = Renamed(name, other.prefix)
           /\ Loaded.status_topic = Renamed(name, other.status_topic)
           /\ Loaded.json_topic = Renamed(name, other.json_topic)
           /\ Loaded.uptime_topic = Renamed(name, other.uptime_topic)
           /\ \A field \in ToSet(MeminfoFields(Loaded)) :
                MeminfoTopic(Loaded, field) = [text |-> Renamed(name, MeminfoTopic(other, field).text)]
  <2>1. "anyhost" \notin Spelled(Merge(Document(file, site)))
    BY <1>1
  <2>2. Loaded = Load(file, name, site, site.explicit)
    BY Zenon DEF Loaded
  <2> HIDE DEF name, data
  <2> QED
    BY <1>2, <2>1, <2>2, LoadAlike
<1> HIDE DEF other, data, name
<1>4. CASE phase = "rejected"
  BY <1>3, <1>4 DEF RejectedInv
<1>5. CASE phase = "loaded"
  <2>1. cfg = Loaded /\ cfg # Rejected
    BY <1>5, Zenon DEF IInv, Serves, Running
  <2>2. \A t : WithName(t) = Renamed(name, t)
    BY WithNameIs DEF name
  <2>3. other # Rejected /\ phase # "rejected"
    BY <1>3, <1>5, <2>1
  <2> QED
    BY <1>3, <2>1, <2>2, <2>3
<1> QED
  BY <1>4, <1>5

(***************************************************************************)
(* The theorems.                                                           *)
(***************************************************************************)
\* Every phase is one the program can be in, a configuration is there exactly
\* when it was accepted, and its topics are ones a broker takes (from_yaml).
THEOREM TypeCorrect == Spec => []TypeOK
<1>1. Spec => []IInv
  BY InitInv, NextInv, PTL DEF Spec
<1> QED
  BY <1>1, TypeFollows, PTL

\* What the checks at start-up let pass is served: no accessor panics on a knob,
\* no report fails over a topic, and delays and qos are in range (validate,
\* Reporter::new, Publisher::new).
THEOREM AlwaysServes == Spec => []AcceptedServes
<1>1. Spec => []IInv
  BY InitInv, NextInv, PTL DEF Spec
<1> QED
  BY <1>1, ServesFollows, PTL

\* A password file that is named is used, and whoever else can read the password
\* in use is warned of (secrets::resolve, load).
THEOREM SecretsKept == Spec => []SecretsGuarded
<1>1. Spec => []IInv
  BY InitInv, NextInv, PTL DEF Spec
<1> QED
  BY <1>1, SecretsFollow, PTL

\* Every knob of an accepted configuration has the file's value or its default,
\* and exactly the file's unknown keys are kept and warned of (deep_merge).
THEOREM KnobsKept == Spec => []KnobsEffective
<1>1. Init => IInv
  BY InitInv
<1>2. Init => FileInv
  BY NullKind DEF Init, FileInv
<1> QED
  BY <1>1, <1>2, NextInv, FileStep, KnobsFollow, PTL DEF Spec

\* The identity presented to a broker is the whole chain and every key block of
\* its files, in their order (tls::identity).
THEOREM WholeIdentity == Spec => []IdentityWhole
<1>1. Spec => []IInv
  BY InitInv, NextInv, PTL DEF Spec
<1>2. Init => IdentityWhole
  BY DEF Init, IdentityWhole
<1> QED
  BY <1>1, <1>2, IdentityFollows, PTL DEF Spec

\* Each metric of a report is told with the value of its file, the same in both
\* forms, or listed among the problems (collect_with_reader, messages_for).
THEOREM AllAccounted == Spec => []Accounted
<1>1. Spec => []IInv
  BY InitInv, NextInv, PTL DEF Spec
<1>2. Init => Reported
  BY DEF Init, Reported
<1>3. Spec => []Reported
  BY <1>1, <1>2, ReportedStep, PTL DEF Spec
<1> QED
  BY <1>1, <1>3, AccountedFollows, PTL

\* No password is printed, whatever its place in the tree, and only a key of the
\* file that JSON cannot name stops the printing (redact_passwords, main.rs:96).
THEOREM SafelyPrinted == Spec => []PrintedSafely
<1>1. Init => IInv
  BY InitInv
<1>2. Init => FileInv /\ DocInv /\ PrintedSafely
  BY NullKind, OrderlyEmpty DEF Init, FileInv, DocInv, PrintedSafely
<1> QED
  BY <1>1, <1>2, NextInv, FileStep, DocStep, PrintStep, PTL DEF Spec

\* What a placeholder stands for is never scanned: a file is accepted for one
\* name of the host if it is for another, and its topics are the same with the
\* one put for the other (format_template).
THEOREM LiteralKept == Spec => []LiteralValues
<1>1. Init => IInv /\ FileInv /\ RejectedInv
  BY InitInv, NullKind DEF Init, FileInv, RejectedInv
<1> QED
  BY <1>1, NextInv, FileStep, RejectedStep, LiteralFollows, PTL DEF Spec
=============================================================================
