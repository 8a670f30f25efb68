--------------------------- MODULE BfdTestProofs ---------------------------
(***************************************************************************)
(* What is proved of BfdTest, for any number of IPv6 addresses, any set of *)
(* routers and any topology between them.                                  *)
(***************************************************************************)
EXTENDS BfdTest, SequenceTheorems, TLAPS

-----------------------------------------------------------------------------
(* What the instructions of Test do to the link *)

Ends == {"head", "tail"}
Cuts == (SUBSET Ends) \ {{}}

Instructions ==
  [op : {"shut", "noshut"}, end : Ends]
    \cup [op : {"line"}, want : BOOLEAN]
    \cup [op : {"remove", "restore"}, addr : Addrs]
    \cup [op : {"verify"}, addr : Addrs, want : BOOLEAN]

\* A configuration of the link: what is shut, and what is taken off.
Configs == [shut : SUBSET Ends, removed : SUBSET Addrs]

Clear       == [shut |-> {}, removed |-> {}]
With(S)     == [shut |-> S, removed |-> {}]
Without(a)  == [shut |-> {}, removed |-> {a}]

ShutBy(S, x) ==
  IF x.op = "shut" THEN S \cup {x.end} ELSE IF x.op = "noshut" THEN S \ {x.end} ELSE S

RemovedBy(R, x) ==
  IF x.op = "remove" THEN R \cup {x.addr} ELSE IF x.op = "restore" THEN R \ {x.addr} ELSE R

After(c, x) == [shut |-> ShutBy(c.shut, x), removed |-> RemovedBy(c.removed, x)]

\* A check asks for what the configuration gives with healthy routers.
Asks(c, x) ==
  /\ x.op = "line" => (x.want <=> c.shut = {})
  /\ x.op = "verify" => (x.want <=> c.shut = {} /\ x.addr \notin c.removed)

\* c[k] is the configuration in which the instruction s[k] is reached.
Path(s, c) ==
  /\ s \in Seq(Instructions)
  /\ c \in [1..(Len(s) + 1) -> Configs]
  /\ \A k \in 1..Len(s) : c[k + 1] = After(c[k], s[k]) /\ Asks(c[k], s[k])

\* s takes the configuration a to b, each check asks for what it should, and Q are some
\* of the instructions with the configurations they meet.
Runs(s, a, b, Q) ==
  \E c : /\ Path(s, c)
         /\ c[1] = a /\ c[Len(s) + 1] = b
         /\ \A q \in Q : \E k \in 1..Len(s) : q = <<s[k], c[k]>>

LEMMA AfterType ==
  ASSUME NEW c \in Configs, NEW x \in Instructions
  PROVE  After(c, x) \in Configs
BY DEF Configs, Instructions, After, ShutBy, RemovedBy

\* One instruction.
LEMMA RunsOne ==
  ASSUME NEW x \in Instructions, NEW a \in Configs, Asks(a, x)
  PROVE  Runs(<<x>>, a, After(a, x), {<<x, a>>})
<1> DEFINE c == [k \in 1..2 |-> IF k = 1 THEN a ELSE After(a, x)]
<1>1. <<x>> \in Seq(Instructions) /\ Len(<<x>>) = 1 /\ <<x>>[1] = x
  OBVIOUS
<1>2. c \in [1..2 -> Configs] /\ c[1] = a /\ c[2] = After(a, x)
  BY AfterType
<1> HIDE DEF c
<1>3. Path(<<x>>, c)
  BY <1>1, <1>2 DEF Path
<1>4. c[1] = a /\ c[Len(<<x>>) + 1] = After(a, x)
  BY <1>1, <1>2
<1>5. \A q \in {<<x, a>>} : \E k \in 1..Len(<<x>>) : q = << <<x>>[k], c[k] >>
  BY <1>1, <1>2
<1> QED
  BY <1>3, <1>4, <1>5 DEF Runs

\* One sequence after another.
LEMMA RunsBoth ==
  ASSUME NEW s, NEW t, NEW a, NEW b, NEW e, NEW Q, NEW R,
         Runs(s, a, b, Q), Runs(t, b, e, R)
  PROVE  Runs(s \o t, a, e, Q \cup R)
<1>1. PICK c : /\ Path(s, c) /\ c[1] = a /\ c[Len(s) + 1] = b
               /\ \A q \in Q : \E k \in 1..Len(s) : q = <<s[k], c[k]>>
  BY DEF Runs
<1>2. PICK d : /\ Path(t, d) /\ d[1] = b /\ d[Len(t) + 1] = e
               /\ \A q \in R : \E k \in 1..Len(t) : q = <<t[k], d[k]>>
  BY DEF Runs
<1> DEFINE m == Len(s)
           n == Len(t)
           f == [k \in 1..(m + n + 1) |-> IF k <= m THEN c[k] ELSE d[k - m]]
<1>3. s \in Seq(Instructions) /\ t \in Seq(Instructions) /\ m \in Nat /\ n \in Nat
  BY <1>1, <1>2 DEF Path
<1>4. /\ s \o t \in Seq(Instructions) /\ Len(s \o t) = m + n
      /\ \A k \in 1..m : (s \o t)[k] = s[k]
      /\ \A k \in 1..n : (s \o t)[m + k] = t[k]
  BY <1>3
<1>5. /\ c \in [1..(m + 1) -> Configs] /\ d \in [1..(n + 1) -> Configs]
      /\ \A k \in 1..m : c[k + 1] = After(c[k], s[k]) /\ Asks(c[k], s[k])
      /\ \A k \in 1..n : d[k + 1] = After(d[k], t[k]) /\ Asks(d[k], t[k])
  BY <1>1, <1>2 DEF Path
<1> HIDE DEF m, n
<1>6. /\ \A k \in 1..m : f[k] = c[k]
      /\ \A k \in 1..(n + 1) : f[m + k] = d[k]
  BY <1>3
<1>7. f[m + 1] = c[m + 1]
  BY <1>1, <1>2, <1>3, <1>6 DEF m
<1>8. f \in [1..(m + n + 1) -> Configs]
  BY <1>3, <1>5
<1> HIDE DEF f
<1>9. \A k \in 1..m : /\ f[k] = c[k] /\ (s \o t)[k] = s[k] /\ f[k + 1] = c[k + 1]
                      /\ f[k + 1] = After(f[k], (s \o t)[k]) /\ Asks(f[k], (s \o t)[k])
  <2> SUFFICES ASSUME NEW k \in 1..m
               PROVE  f[k] = c[k] /\ (s \o t)[k] = s[k] /\ f[k + 1] = c[k + 1]
    BY <1>5
  <2>1. k + 1 \in 1..m \/ k = m
    BY <1>3
  <2> QED
    BY <1>3, <1>4, <1>6, <1>7, <2>1
<1>10. \A k \in 1..n : /\ f[m + k] = d[k] /\ (s \o t)[m + k] = t[k]
                       /\ f[m + k + 1] = After(f[m + k], (s \o t)[m + k])
                       /\ Asks(f[m + k], (s \o t)[m + k])
  <2> SUFFICES ASSUME NEW k \in 1..n
               PROVE  f[m + k] = d[k] /\ (s \o t)[m + k] = t[k] /\ f[m + k + 1] = d[k + 1]
    BY <1>5
  <2>1. k \in 1..(n + 1) /\ k + 1 \in 1..(n + 1)
    BY <1>3
  <2>2. m + k + 1 = m + (k + 1)
    BY <1>3
  <2>3. f[m + k] = d[k] /\ f[m + (k + 1)] = d[k + 1]
    BY <1>6, <2>1
  <2> QED
    BY <1>4, <2>2, <2>3
<1>11. \A k \in 1..(m + n) : k \in 1..m \/ (k - m \in 1..n /\ k = m + (k - m))
  BY <1>3
<1>12. Path(s \o t, f)
  <2>1. ASSUME NEW k \in 1..(m + n)
        PROVE  f[k + 1] = After(f[k], (s \o t)[k]) /\ Asks(f[k], (s \o t)[k])
    <3>1. CASE k \in 1..m
      BY <1>9, <3>1
    <3>2. CASE k - m \in 1..n /\ k = m + (k - m)
      BY <1>10, <3>2
    <3> QED
      BY <1>11, <3>1, <3>2
  <2> QED
    BY <1>4, <1>8, <2>1 DEF Path
<1>13. f[1] = a
  <2>1. CASE m = 0
    BY <1>1, <1>3, <1>7, <2>1
  <2>2. CASE m # 0
    BY <1>1, <1>3, <1>6, <2>2
  <2> QED
    BY <2>1, <2>2
<1>14. f[Len(s \o t) + 1] = e
  <2>1. n + 1 \in 1..(n + 1) /\ Len(s \o t) + 1 = m + (n + 1)
    BY <1>3, <1>4
  <2> QED
    BY <1>2, <1>6, <2>1 DEF n
<1>15. ASSUME NEW q \in Q \cup R
       PROVE  \E k \in 1..Len(s \o t) : q = <<(s \o t)[k], f[k]>>
  <2>1. CASE q \in Q
    <3>1. PICK k \in 1..m : q = <<s[k], c[k]>>
      BY <1>1, <2>1 DEF m
    <3>2. k \in 1..Len(s \o t)
      BY <1>3, <1>4
    <3> QED
      BY <1>9, <3>1, <3>2
  <2>2. CASE q \in R
    <3>1. PICK k \in 1..n : q = <<t[k], d[k]>>
      BY <1>2, <2>2 DEF n
    <3>2. m + k \in 1..Len(s \o t)
      BY <1>3, <1>4
    <3> QED
      BY <1>10, <3>1, <3>2
  <2> QED
    BY <2>1, <2>2
<1> QED
  BY <1>12, <1>13, <1>14, <1>15 DEF Runs

\* Instructions that change nothing.
LEMMA RunsStill ==
  ASSUME NEW s \in Seq(Instructions), NEW a \in Configs,
         \A k \in 1..Len(s) : After(a, s[k]) = a /\ Asks(a, s[k])
  PROVE  Runs(s, a, a, {<<s[k], a>> : k \in 1..Len(s)})
<1> DEFINE c == [k \in 1..(Len(s) + 1) |-> a]
<1>1. Len(s) \in Nat
  OBVIOUS
<1>2. c \in [1..(Len(s) + 1) -> Configs] /\ \A k \in 1..(Len(s) + 1) : c[k] = a
  OBVIOUS
<1>3. /\ 1 \in 1..(Len(s) + 1) /\ Len(s) + 1 \in 1..(Len(s) + 1)
      /\ \A k \in 1..Len(s) : k \in 1..(Len(s) + 1) /\ k + 1 \in 1..(Len(s) + 1)
  BY <1>1
<1> HIDE DEF c
<1>4. Path(s, c)
  BY <1>2, <1>3 DEF Path
<1>5. \A q \in {<<s[k], a>> : k \in 1..Len(s)} : \E k \in 1..Len(s) : q = <<s[k], c[k]>>
  BY <1>2, <1>3
<1> QED
  BY <1>2, <1>3, <1>4, <1>5 DEF Runs

\* Place k of m turns of n instructions: the turn and the place in it.
LEMMA Places ==
  ASSUME NEW m \in Nat, NEW n \in Nat \ {0}, NEW k \in 1..(m * n),
         NEW i, i = ((k - 1) \div n) + 1, NEW r, r = ((k - 1) % n) + 1
  PROVE  i \in 1..m /\ r \in 1..n /\ k = (i - 1) * n + r
<1> DEFINE q == (k - 1) \div n
           z == (k - 1) % n
<1>1. m * n \in Nat /\ k - 1 \in Nat /\ k \in Nat
  OBVIOUS
<1>2. q \in Int /\ z \in 0..(n - 1) /\ k - 1 = n * q + z
  BY <1>1
<1> HIDE DEF q, z
<1>3. ASSUME NEW a \in Int, NEW b \in Nat, b <= n - 1, n * a + b >= 0 PROVE a >= 0
  <2> SUFFICES ASSUME a <= -1 PROVE FALSE
    OBVIOUS
  <2>1. n * a <= -n
    OBVIOUS
  <2> QED
    BY <1>3, <2>1
<1>4. q >= 0
  BY <1>1, <1>2, <1>3
<1>5. q <= m - 1
  <2> SUFFICES ASSUME q >= m PROVE FALSE
    BY <1>2
  <2>1. n * q >= n * m
    BY <1>2
  <2> QED
    BY <1>1, <1>2, <2>1
<1>6. n * q = q * n /\ q * n \in Int
  BY <1>2
<1> QED
  BY <1>1, <1>2, <1>4, <1>5, <1>6 DEF q, z

\* The other way round.
LEMMA PlaceOf ==
  ASSUME NEW m \in Nat, NEW n \in Nat \ {0}, NEW i \in 1..m, NEW r \in 1..n,
         NEW k, k = (i - 1) * n + r
  PROVE  /\ k \in 1..(m * n)
         /\ ((k - 1) \div n) + 1 = i /\ ((k - 1) % n) + 1 = r
<1>1. (i - 1) * n \in Nat /\ m * n \in Nat
  OBVIOUS
<1>2. (i - 1) * n <= (m - 1) * n /\ (m - 1) * n = m * n - n
  OBVIOUS
<1>3. k \in 1..(m * n)
  BY <1>1, <1>2
<1>4. k - 1 = n * (i - 1) + (r - 1) /\ r - 1 \in 0..(n - 1)
  BY <1>1
<1>5. (k - 1) \div n = i - 1 /\ (k - 1) % n = r - 1
  <2> DEFINE q == (k - 1) \div n
             z == (k - 1) % n
  <2>1. q \in Int /\ z \in 0..(n - 1) /\ k - 1 = n * q + z
    BY <1>3
  <2> HIDE DEF q, z
  <2>2. n * (i - 1) + (r - 1) = n * q + z
    BY <1>4, <2>1
  <2>3. CASE q <= i - 2
    <3>1. n * q <= n * (i - 2) /\ n * (i - 2) = n * (i - 1) - n
      BY <2>1, <2>3
    <3>2. n * q \in Int /\ n * (i - 1) \in Int
      BY <2>1
    <3> QED
      BY <1>4, <2>1, <2>2, <3>1, <3>2
  <2>4. CASE q >= i
    <3>1. n * q >= n * i /\ n * i = n * (i - 1) + n
      BY <2>1, <2>4
    <3>2. n * q \in Int /\ n * (i - 1) \in Int
      BY <2>1
    <3> QED
      BY <1>4, <2>1, <2>2, <3>1, <3>2
  <2>5. CASE q = i - 1
    <3>1. n * q = n * (i - 1) /\ n * q \in Int
      BY <2>1, <2>5
    <3> QED
      BY <1>4, <2>1, <2>2, <2>5, <3>1 DEF q, z
  <2> QED
    BY <2>1, <2>3, <2>4, <2>5
<1> QED
  BY <1>3, <1>5

\* A loop whose turns take a configuration to itself.
LEMMA RunsEach ==
  ASSUME NEW n \in Nat \ {0}, NEW turn, NEW a \in Configs, NEW Q, NEW R,
         \A i \in 1..V6 : Len(turn[i]) = n /\ Runs(turn[i], a, a, Q[i]),
         \A q \in R : \E i \in 1..V6 : q \in Q[i]
  PROVE  Runs(Each(n, turn), a, a, R) /\ Len(Each(n, turn)) = V6 * n
<1> DEFINE IsPath(i, c) == /\ Path(turn[i], c)
                           /\ c[1] = a /\ c[n + 1] = a
                           /\ \A q \in Q[i] : \E k \in 1..n : q = <<turn[i][k], c[k]>>
           p == [i \in 1..V6 |-> CHOOSE c : IsPath(i, c)]
           l == V6 * n
           T(k) == ((k - 1) \div n) + 1
           P(k) == ((k - 1) % n) + 1
           s == Each(n, turn)
           f == [k \in 1..(l + 1) |-> IF k <= l THEN p[T(k)][P(k)] ELSE a]
<1>1. V6 \in Nat /\ l \in Nat /\ l = V6 * n
  BY BfdTestAssumption
<1>2. ASSUME NEW i \in 1..V6 PROVE IsPath(i, p[i])
  <2>1. \E c : IsPath(i, c)
    BY DEF Runs
  <2>2. p[i] = CHOOSE c : IsPath(i, c)
    OBVIOUS
  <2> HIDE DEF p
  <2> QED
    BY <2>1, <2>2
<1> HIDE DEF p
<1>3. ASSUME NEW i \in 1..V6
      PROVE  /\ turn[i] \in Seq(Instructions) /\ p[i] \in [1..(n + 1) -> Configs]
             /\ p[i][1] = a /\ p[i][n + 1] = a
             /\ \A k \in 1..n : /\ p[i][k + 1] = After(p[i][k], turn[i][k])
                                /\ Asks(p[i][k], turn[i][k])
             /\ \A q \in Q[i] : \E k \in 1..n : q = <<turn[i][k], p[i][k]>>
  BY <1>2 DEF Path
<1>4. ASSUME NEW i \in 1..V6, NEW k \in 1..n PROVE turn[i][k] \in Instructions
  <2>1. turn[i] \in Seq(Instructions) /\ Len(turn[i]) = n
    BY <1>3
  <2> QED
    BY <2>1
<1>5. ASSUME NEW k \in 1..l
      PROVE  T(k) \in 1..V6 /\ P(k) \in 1..n /\ k = (T(k) - 1) * n + P(k)
  BY <1>1, Places
<1>6. ASSUME NEW i \in 1..V6, NEW r \in 1..n, NEW k, k = (i - 1) * n + r
      PROVE  k \in 1..l /\ T(k) = i /\ P(k) = r
  BY <1>1, <1>6, PlaceOf
<1>7. /\ \A k \in 1..l : s[k] = turn[T(k)][P(k)] /\ f[k] = p[T(k)][P(k)]
      /\ f[l + 1] = a
  BY <1>1 DEF Each
<1>8. s = [k \in 1..l |-> turn[T(k)][P(k)]] /\ DOMAIN f = 1..(l + 1)
  BY DEF Each
<1> HIDE DEF T, P, l, f, s, IsPath
<1>9. s \in Seq(Instructions) /\ Len(s) = l
  <2>1. \A k \in 1..l : turn[T(k)][P(k)] \in Instructions
    BY <1>4, <1>5
  <2>2. s \in [1..l -> Instructions]
    BY <1>8, <2>1
  <2> QED
    BY <1>1, <2>2
<1>10. \A k \in 1..l : f[k] \in Configs
  <2>1. ASSUME NEW k \in 1..l PROVE p[T(k)][P(k)] \in Configs
    <3>1. T(k) \in 1..V6 /\ P(k) \in 1..(n + 1)
      BY <1>5
    <3> QED
      BY <1>3, <3>1
  <2> QED
    BY <1>7, <2>1
<1>11. ASSUME NEW k \in 1..(l + 1) PROVE f[k] \in Configs
  BY <1>1, <1>7, <1>10
<1>12. ASSUME NEW k \in 1..l PROVE f[k + 1] = p[T(k)][P(k) + 1]
  <2> DEFINE i == T(k)
             r == P(k)
  <2>1. i \in 1..V6 /\ r \in 1..n /\ k = (i - 1) * n + r
    BY <1>5
  <2> HIDE DEF i, r
  <2>2. CASE r < n
    <3>1. r + 1 \in 1..n /\ (i - 1) * n \in Int
      BY <1>1, <2>1, <2>2
    <3>2. k + 1 = (i - 1) * n + (r + 1)
      BY <2>1, <3>1
    <3>3. k + 1 \in 1..l /\ T(k + 1) = i /\ P(k + 1) = r + 1
      BY <1>6, <2>1, <3>1, <3>2
    <3> QED
      BY <1>7, <3>3 DEF i, r
  <2>3. CASE r = n /\ i < V6
    <3>1. i + 1 \in 1..V6 /\ 1 \in 1..n /\ (i - 1) * n + n = ((i + 1) - 1) * n
      BY <1>1, <2>1, <2>3
    <3>2. k + 1 = ((i + 1) - 1) * n + 1
      BY <1>1, <2>1, <2>3, <3>1
    <3>3. k + 1 \in 1..l /\ T(k + 1) = i + 1 /\ P(k + 1) = 1
      BY <1>6, <3>1, <3>2
    <3>4. f[k + 1] = p[i + 1][1]
      BY <1>7, <3>3
    <3>5. p[i + 1][1] = a
      BY <1>3, <3>1
    <3>6. p[i][r + 1] = a
      BY <1>3, <2>1, <2>3
    <3> QED
      BY <3>4, <3>5, <3>6 DEF i, r
  <2>4. CASE r = n /\ i = V6
    <3>1. (i - 1) * n + n = V6 * n
      BY <1>1, <2>1, <2>4
    <3>2. k = l
      BY <1>1, <2>1, <2>4, <3>1
    <3>3. f[k + 1] = a
      BY <1>7, <3>2
    <3>4. p[i][r + 1] = a
      BY <1>3, <2>1, <2>4
    <3> QED
      BY <3>3, <3>4 DEF i, r
  <2> QED
    BY <1>1, <2>1, <2>2, <2>3, <2>4
<1>13. ASSUME NEW k \in 1..l PROVE f[k + 1] = After(f[k], s[k]) /\ Asks(f[k], s[k])
  <2>1. T(k) \in 1..V6 /\ P(k) \in 1..n
    BY <1>5
  <2>2. f[k] = p[T(k)][P(k)] /\ s[k] = turn[T(k)][P(k)]
    BY <1>7
  <2> QED
    BY <1>3, <1>12, <2>1, <2>2
<1>14. Path(s, f)
  <2>1. f \in [1..(l + 1) -> Configs]
    <3>1. f = [k \in 1..(l + 1) |-> f[k]]
      BY <1>8 DEF f
    <3> QED
      BY <1>11, <3>1
  <2> QED
    BY <1>9, <1>13, <2>1 DEF Path
<1>15. f[1] = a
  <2>1. CASE l = 0
    BY <1>7, <2>1
  <2>2. CASE l # 0
    <3>1. V6 # 0
      BY <1>1, <2>2
    <3>2. 1 \in 1..V6 /\ 1 \in 1..n /\ 1 = (1 - 1) * n + 1
      BY <1>1, <3>1
    <3>3. 1 \in 1..l /\ T(1) = 1 /\ P(1) = 1
      BY <1>6, <3>2
    <3> QED
      BY <1>3, <1>7, <3>2, <3>3
  <2> QED
    BY <2>1, <2>2
<1>16. ASSUME NEW q \in R
       PROVE  \E k \in 1..Len(s) : q = <<s[k], f[k]>>
  <2>1. PICK i \in 1..V6 : q \in Q[i]
    OBVIOUS
  <2>2. PICK r \in 1..n : q = <<turn[i][r], p[i][r]>>
    BY <1>3, <2>1
  <2>3. PICK k \in 1..l : T(k) = i /\ P(k) = r
    BY <1>6
  <2> QED
    BY <1>7, <1>9, <2>2, <2>3
<1> QED
  BY <1>7, <1>9, <1>14, <1>15, <1>16 DEF Runs, s, l

LEMMA RunsFewer ==
  ASSUME NEW s, NEW a, NEW b, NEW Q, NEW R, Runs(s, a, b, Q), R \subseteq Q
  PROVE  Runs(s, a, b, R)
BY DEF Runs

-----------------------------------------------------------------------------
(* The steps of Test *)

LEMMA ConfigsAre ==
  /\ Clear \in Configs
  /\ \A S \in SUBSET Ends : With(S) \in Configs
  /\ \A a \in Addrs : Without(a) \in Configs
BY DEF Clear, With, Without, Configs

LEMMA InstructionsAre ==
  /\ \A e \in Ends : Shut(e) \in Instructions /\ NoShut(e) \in Instructions
  /\ IntsUp \in Instructions /\ IntsDown \in Instructions
  /\ \A a \in Addrs : NoAddress(a) \in Instructions /\ Address(a) \in Instructions
  /\ \A a \in Addrs, want \in BOOLEAN : Verify(a, want) \in Instructions
BY DEF Instructions, Shut, NoShut, IntsUp, IntsDown, NoAddress, Address, Verify

\* A check changes nothing.
LEMMA ChecksKeep ==
  ASSUME NEW c \in Configs, NEW x, x.op \in {"line", "verify"}
  PROVE  After(c, x) = c
BY DEF After, ShutBy, RemovedBy, Configs

LEMMA VerifyAllIs ==
  ASSUME NEW want \in BOOLEAN
  PROVE  /\ VerifyIpv6(want) \in Seq(Instructions) /\ Len(VerifyIpv6(want)) = V6
         /\ \A a \in 1..V6 : VerifyIpv6(want)[a] = Verify(a, want)
         /\ VerifyAll(want) \in Seq(Instructions) /\ Len(VerifyAll(want)) = V6 + 1
         /\ \A a \in 1..V6 : VerifyAll(want)[a] = Verify(a, want)
         /\ VerifyAll(want)[V6 + 1] = Verify(0, want)
<1>1. V6 \in Nat /\ 0 \in Addrs /\ \A a \in 1..V6 : a \in Addrs
  BY BfdTestAssumption DEF Addrs
<1>2. \A a \in 1..V6 : Verify(a, want) \in Instructions
  BY <1>1, InstructionsAre
<1>3. VerifyIpv6(want) \in [1..V6 -> Instructions]
  BY <1>2 DEF VerifyIpv6
<1>4. VerifyIpv6(want) \in Seq(Instructions) /\ Len(VerifyIpv6(want)) = V6
  BY <1>1, <1>3
<1>5. \A a \in 1..V6 : VerifyIpv6(want)[a] = Verify(a, want)
  BY DEF VerifyIpv6
<1>6. Verify(0, want) \in Instructions
  BY <1>1, InstructionsAre
<1>7. <<Verify(0, want)>> \in Seq(Instructions) /\ Len(<<Verify(0, want)>>) = 1
      /\ <<Verify(0, want)>>[1] = Verify(0, want)
  BY <1>6
<1> QED
  BY <1>1, <1>4, <1>5, <1>7 DEF VerifyAll

LEMMA AllRun ==
  ASSUME NEW want \in BOOLEAN, NEW c \in Configs,
         \A a \in Addrs : Asks(c, Verify(a, want))
  PROVE  Runs(VerifyAll(want), c, c, {<<Verify(a, want), c>> : a \in Addrs})
<1> DEFINE s == VerifyAll(want)
<1>1. V6 \in Nat /\ Addrs = 0..V6
  BY BfdTestAssumption DEF Addrs
<1>2. s \in Seq(Instructions) /\ Len(s) = V6 + 1
  BY VerifyAllIs
<1>3. \A k \in 1..Len(s) : \E a \in Addrs : s[k] = Verify(a, want)
  <2> SUFFICES ASSUME NEW k \in 1..Len(s) PROVE \E a \in Addrs : s[k] = Verify(a, want)
    OBVIOUS
  <2>1. CASE k = V6 + 1
    BY <1>1, <2>1, VerifyAllIs
  <2>2. CASE k \in 1..V6
    BY <1>1, <2>2, VerifyAllIs
  <2> QED
    BY <1>1, <1>2, <2>1, <2>2
<1>4. \A a \in Addrs : \E k \in 1..Len(s) : s[k] = Verify(a, want)
  <2> SUFFICES ASSUME NEW a \in Addrs PROVE \E k \in 1..Len(s) : s[k] = Verify(a, want)
    OBVIOUS
  <2>1. CASE a = 0
    <3>1. V6 + 1 \in 1..Len(s) /\ s[V6 + 1] = Verify(a, want)
      BY <1>1, <1>2, <2>1, VerifyAllIs
    <3> QED
      BY <3>1
  <2>2. CASE a \in 1..V6
    <3>1. a \in 1..Len(s)
      BY <1>1, <1>2, <2>2
    <3>2. s[a] = Verify(a, want)
      BY <2>2, VerifyAllIs
    <3> QED
      BY <3>1, <3>2
  <2> QED
    BY <1>1, <2>1, <2>2
<1> HIDE DEF s
<1>5. \A a \in Addrs : After(c, Verify(a, want)) = c
  BY ChecksKeep DEF Verify
<1>6. Runs(s, c, c, {<<s[k], c>> : k \in 1..Len(s)})
  <2>1. \A k \in 1..Len(s) : After(c, s[k]) = c /\ Asks(c, s[k])
    BY <1>3, <1>5
  <2> QED
    BY <1>2, <2>1, RunsStill
<1>7. {<<Verify(a, want), c>> : a \in Addrs} \subseteq {<<s[k], c>> : k \in 1..Len(s)}
  BY <1>4
<1>8. Runs(s, c, c, {<<Verify(a, want), c>> : a \in Addrs})
  BY <1>6, <1>7, RunsFewer
<1> QED
  BY <1>8 DEF s

\* Addresses 1 to V6 only.
LEMMA Ipv6Run ==
  ASSUME NEW want \in BOOLEAN, NEW c \in Configs,
         \A a \in 1..V6 : Asks(c, Verify(a, want))
  PROVE  Runs(VerifyIpv6(want), c, c, {<<Verify(a, want), c>> : a \in 1..V6})
<1> DEFINE s == VerifyIpv6(want)
<1>1. s \in Seq(Instructions) /\ Len(s) = V6 /\ \A a \in 1..V6 : s[a] = Verify(a, want)
  BY VerifyAllIs
<1> HIDE DEF s
<1>2. \A a \in 1..V6 : After(c, Verify(a, want)) = c
  BY ChecksKeep DEF Verify
<1>3. \A k \in 1..Len(s) : After(c, s[k]) = c /\ Asks(c, s[k])
  BY <1>1, <1>2
<1>4. Runs(s, c, c, {<<s[k], c>> : k \in 1..Len(s)})
  BY <1>1, <1>3, RunsStill
<1>5. {<<Verify(a, want), c>> : a \in 1..V6} \subseteq {<<s[k], c>> : k \in 1..Len(s)}
  BY <1>1
<1>6. Runs(s, c, c, {<<Verify(a, want), c>> : a \in 1..V6})
  BY <1>4, <1>5, RunsFewer
<1> QED
  BY <1>6 DEF s

\* The configurations that the test makes, and what the checks see there.
LEMMA AsksThere ==
  /\ Asks(Clear, IntsUp)
  /\ \A S \in Cuts : Asks(With(S), IntsDown)
  /\ \A a \in Addrs : Asks(Clear, Verify(a, TRUE))
  /\ \A a \in Addrs, S \in Cuts : Asks(With(S), Verify(a, FALSE))
  /\ \A a, b \in Addrs : Asks(Without(b), Verify(a, a # b))
<1> USE DEF Asks, Clear, With, Without
<1>1. Asks(Clear, IntsUp)
  BY DEF IntsUp
<1>2. \A S \in Cuts : Asks(With(S), IntsDown)
  BY DEF IntsDown, Cuts
<1>3. \A a \in Addrs : Asks(Clear, Verify(a, TRUE))
  BY DEF Verify
<1>4. \A a \in Addrs, S \in Cuts : Asks(With(S), Verify(a, FALSE))
  BY DEF Verify, Cuts
<1>5. ASSUME NEW a \in Addrs, NEW b \in Addrs PROVE Asks(Without(b), Verify(a, a # b))
  <2>1. CASE a = b
    <3>1. (a # b) = FALSE
      BY <2>1
    <3>2. Asks(Without(b), Verify(a, FALSE))
      BY <2>1 DEF Verify
    <3> QED
      BY <3>1, <3>2
  <2>2. CASE a # b
    <3>1. (a # b) = TRUE
      BY <2>2
    <3>2. Asks(Without(b), Verify(a, TRUE))
      BY <2>2 DEF Verify
    <3> QED
      BY <3>1, <3>2
  <2> QED
    BY <2>1, <2>2
<1> QED
  BY <1>1, <1>2, <1>3, <1>4, <1>5

LEMMA ChangesThere ==
  /\ \A e \in Ends, S \in SUBSET Ends : /\ After(With(S), Shut(e)) = With(S \cup {e})
                                      /\ After(With(S), NoShut(e)) = With(S \ {e})
                                      /\ Asks(With(S), Shut(e)) /\ Asks(With(S), NoShut(e))
  /\ \A a \in Addrs : /\ After(Clear, NoAddress(a)) = Without(a)
                      /\ After(Without(a), Address(a)) = Clear
                      /\ Asks(Clear, NoAddress(a)) /\ Asks(Without(a), Address(a))
  /\ With({}) = Clear
<1>1. \A e \in Ends, S \in SUBSET Ends :
        /\ After(With(S), Shut(e)) = With(S \cup {e})
        /\ After(With(S), NoShut(e)) = With(S \ {e})
        /\ Asks(With(S), Shut(e)) /\ Asks(With(S), NoShut(e))
  BY DEF After, ShutBy, RemovedBy, Asks, With, Shut, NoShut
<1>2. ASSUME NEW a \in Addrs
      PROVE  /\ After(Clear, NoAddress(a)) = Without(a)
             /\ After(Without(a), Address(a)) = Clear
             /\ Asks(Clear, NoAddress(a)) /\ Asks(Without(a), Address(a))
  <2>1. {} \cup {a} = {a} /\ {a} \ {a} = {}
    OBVIOUS
  <2> QED
    BY <2>1 DEF After, ShutBy, RemovedBy, Asks, Clear, Without, NoAddress, Address
<1> QED
  BY <1>1, <1>2 DEF With, Clear

LEMMA RunsTwo ==
  ASSUME NEW x \in Instructions, NEW y \in Instructions, NEW a \in Configs,
         Asks(a, x), Asks(After(a, x), y)
  PROVE  Runs(<<x, y>>, a, After(After(a, x), y), {<<x, a>>, <<y, After(a, x)>>})
<1>1. Runs(<<x>>, a, After(a, x), {<<x, a>>})
  BY RunsOne
<1>2. Runs(<<y>>, After(a, x), After(After(a, x), y), {<<y, After(a, x)>>})
  BY AfterType, RunsOne
<1>3. Runs(<<x>> \o <<y>>, a, After(After(a, x), y), {<<x, a>>} \cup {<<y, After(a, x)>>})
  BY <1>1, <1>2, RunsBoth
<1>4. <<x>> \o <<y>> = <<x, y>>
  <2>1. <<x>> \o <<y>> \in Seq(Instructions) /\ <<x, y>> \in Seq(Instructions)
    OBVIOUS
  <2>2. Len(<<x>> \o <<y>>) = 2 /\ Len(<<x, y>>) = 2
    OBVIOUS
  <2>3. /\ (<<x>> \o <<y>>)[1] = x /\ (<<x>> \o <<y>>)[2] = y
        /\ <<x, y>>[1] = x /\ <<x, y>>[2] = y
    OBVIOUS
  <2>4. \A i \in 1..2 : (<<x>> \o <<y>>)[i] = <<x, y>>[i]
    BY <2>3
  <2> QED
    BY <2>1, <2>2, <2>4, SeqEqual
<1>5. {<<x, a>>, <<y, After(a, x)>>} = {<<x, a>>} \cup {<<y, After(a, x)>>}
  OBVIOUS
<1> QED
  BY <1>3, <1>4, <1>5

LEMMA SetupRuns == Runs(<<IntsUp, IntsUp>>, Clear, Clear, {<<IntsUp, Clear>>})
<1>1. IntsUp \in Instructions /\ Clear \in Configs /\ Asks(Clear, IntsUp)
  BY InstructionsAre, ConfigsAre, AsksThere
<1>2. After(Clear, IntsUp) = Clear
  BY <1>1, ChecksKeep DEF IntsUp
<1>3. Runs(<<IntsUp, IntsUp>>, Clear, Clear, {<<IntsUp, Clear>>, <<IntsUp, Clear>>})
  BY <1>1, <1>2, RunsTwo
<1> QED
  BY <1>3, RunsFewer

LEMMA Step1Runs ==
  Runs(VerifyAll(TRUE), Clear, Clear, {<<Verify(a, TRUE), Clear>> : a \in Addrs})
BY ConfigsAre, AsksThere, AllRun

\* The tail's end is shut, and every session is down.
LEMMA Step2Runs ==
  Runs(Step2, Clear, With({"tail"}), {<<Verify(a, FALSE), With({"tail"})>> : a \in Addrs})
<1> DEFINE t == With({"tail"})
           V == {<<Verify(a, FALSE), t>> : a \in Addrs}
<1>1. {"tail"} \in Cuts /\ "tail" \in Ends
  BY DEF Ends, Cuts
<1>2. t \in Configs /\ Clear \in Configs /\ Asks(t, IntsDown)
      /\ \A a \in Addrs : Asks(t, Verify(a, FALSE))
  BY <1>1, ConfigsAre, AsksThere
<1>3. After(Clear, Shut("tail")) = t /\ Asks(Clear, Shut("tail"))
  <2>1. {} \cup {"tail"} = {"tail"} /\ {} \in SUBSET Ends
    OBVIOUS
  <2>2. After(With({}), Shut("tail")) = With({} \cup {"tail"}) /\ Asks(With({}), Shut("tail"))
    BY <1>1, <2>1, ChangesThere
  <2> QED
    BY <2>1, <2>2, ChangesThere
<1> HIDE DEF t
<1>4. After(t, IntsDown) = t
  BY <1>2, ChecksKeep DEF IntsDown
<1>5. Shut("tail") \in Instructions /\ IntsDown \in Instructions
  BY <1>1, InstructionsAre
<1>6. Runs(<<Shut("tail"), IntsDown>>, Clear, t, {<<Shut("tail"), Clear>>, <<IntsDown, t>>})
  BY <1>2, <1>3, <1>4, <1>5, RunsTwo
<1>7. Runs(VerifyAll(FALSE), t, t, V)
  BY <1>2, AllRun
<1> HIDE DEF V
<1>8. Runs(Step2, Clear, t, {<<Shut("tail"), Clear>>, <<IntsDown, t>>} \cup V)
  BY <1>6, <1>7, RunsBoth DEF Step2
<1>9. Runs(Step2, Clear, t, V)
  BY <1>8, RunsFewer
<1> QED
  BY <1>9 DEF t, V

LEMMA SixAre ==
  ASSUME NEW a \in Instructions, NEW b \in Instructions, NEW c \in Instructions,
         NEW d \in Instructions, NEW e \in Instructions, NEW f \in Instructions
  PROVE  <<a, b>> \o <<c, d>> \o <<e, f>> = <<a, b, c, d, e, f>>
<1> DEFINE s == <<a, b>> \o <<c, d>> \o <<e, f>>
           t == <<a, b, c, d, e, f>>
<1>1. s \in Seq(Instructions) /\ t \in Seq(Instructions)
  OBVIOUS
<1>2. Len(s) = 6 /\ Len(t) = 6
  OBVIOUS
<1>3. s[1] = a /\ s[2] = b /\ s[3] = c /\ s[4] = d /\ s[5] = e /\ s[6] = f
  OBVIOUS
<1>4. t[1] = a /\ t[2] = b /\ t[3] = c /\ t[4] = d /\ t[5] = e /\ t[6] = f
  OBVIOUS
<1> HIDE DEF s, t
<1>5. \A i \in 1..6 : s[i] = t[i]
  BY <1>3, <1>4
<1>6. s = t
  BY <1>1, <1>2, <1>5, SeqEqual
<1> QED
  BY <1>6 DEF s, t

\* The link is shut at both ends, then open again, and every session is up.
LEMMA Step3Runs ==
  Runs(Step3, With({"tail"}), Clear, {<<Verify(a, TRUE), Clear>> : a \in Addrs})
<1> DEFINE t == With({"tail"})
           b == With({"head", "tail"})
           h == With({"head"})
<1>1. /\ {"tail"} \in SUBSET Ends /\ {"head"} \in SUBSET Ends
      /\ {"head", "tail"} \in Cuts /\ {"head", "tail"} \in SUBSET Ends
      /\ "tail" \in Ends /\ "head" \in Ends
  BY DEF Ends, Cuts
<1>2. t \in Configs /\ b \in Configs /\ h \in Configs /\ Clear \in Configs
  BY <1>1, ConfigsAre
<1>3. /\ After(t, Shut("head")) = b /\ Asks(t, Shut("head"))
      /\ After(b, NoShut("tail")) = h /\ Asks(b, NoShut("tail"))
      /\ After(h, NoShut("head")) = Clear /\ Asks(h, NoShut("head"))
  <2>1. /\ {"tail"} \cup {"head"} = {"head", "tail"}
        /\ {"head", "tail"} \ {"tail"} = {"head"}
        /\ {"head"} \ {"head"} = {}
    OBVIOUS
  <2>2. /\ After(t, Shut("head")) = With({"tail"} \cup {"head"}) /\ Asks(t, Shut("head"))
        /\ After(b, NoShut("tail")) = With({"head", "tail"} \ {"tail"}) /\ Asks(b, NoShut("tail"))
        /\ After(h, NoShut("head")) = With({"head"} \ {"head"}) /\ Asks(h, NoShut("head"))
    BY <1>1, ChangesThere
  <2> QED
    BY <2>1, <2>2, ChangesThere
<1>4. Asks(b, IntsDown) /\ Asks(Clear, IntsUp)
  BY <1>1, AsksThere
<1> HIDE DEF t, b, h
<1>5. After(b, IntsDown) = b /\ After(Clear, IntsUp) = Clear
  BY <1>2, ChecksKeep DEF IntsDown, IntsUp
<1>6. /\ Shut("head") \in Instructions /\ NoShut("tail") \in Instructions
      /\ NoShut("head") \in Instructions
      /\ IntsUp \in Instructions /\ IntsDown \in Instructions
  BY <1>1, InstructionsAre
<1>7. Runs(<<Shut("head"), IntsDown>>, t, b, {<<Shut("head"), t>>, <<IntsDown, b>>})
  BY <1>2, <1>3, <1>4, <1>5, <1>6, RunsTwo
<1>8. Runs(<<NoShut("tail"), NoShut("head")>>, b, Clear,
           {<<NoShut("tail"), b>>, <<NoShut("head"), h>>})
  BY <1>2, <1>3, <1>6, RunsTwo
<1>9. /\ Runs(<<Shut("head"), IntsDown>>, t, b, {})
      /\ Runs(<<NoShut("tail"), NoShut("head")>>, b, Clear, {})
      /\ Runs(<<IntsUp, IntsUp>>, Clear, Clear, {})
      /\ {} \cup {} = {}
  BY <1>7, <1>8, SetupRuns, RunsFewer
<1>10. Runs(<<Shut("head"), IntsDown>> \o <<NoShut("tail"), NoShut("head")>>, t, Clear, {})
  BY <1>9, RunsBoth
<1>11. Runs(<<Shut("head"), IntsDown>> \o <<NoShut("tail"), NoShut("head")>>
              \o <<IntsUp, IntsUp>>, t, Clear, {})
  BY <1>9, <1>10, RunsBoth
<1>12. Runs(<<Shut("head"), IntsDown, NoShut("tail"), NoShut("head"), IntsUp, IntsUp>>,
            t, Clear, {})
  <2>1. <<Shut("head"), IntsDown>> \o <<NoShut("tail"), NoShut("head")>> \o <<IntsUp, IntsUp>>
          = <<Shut("head"), IntsDown, NoShut("tail"), NoShut("head"), IntsUp, IntsUp>>
    BY <1>6, SixAre
  <2> QED
    BY <1>11, <2>1
<1> DEFINE V == {<<Verify(a, TRUE), Clear>> : a \in Addrs}
<1> HIDE DEF V
<1>13. Runs(Step3, t, Clear, {} \cup V)
  BY <1>12, Step1Runs, RunsBoth DEF Step3, V
<1>14. Runs(Step3, t, Clear, V)
  BY <1>13, RunsFewer
<1> QED
  BY <1>14 DEF t, V

\* While the address a is removed its session alone is down.
LEMMA WithoutRuns ==
  ASSUME NEW a \in 1..V6
  PROVE  /\ Len(VerifyWithout(a)) = V6 * 2
         /\ Runs(VerifyWithout(a), Without(a), Without(a),
                 {<<Verify(x, TRUE), Without(a)>> : x \in Addrs \ {a}})
<1> DEFINE w == Without(a)
           turn == [j \in 1..V6 |-> <<Verify(j, a # j), Verify(0, TRUE)>>]
           Q == [j \in 1..V6 |-> {<<Verify(j, a # j), w>>, <<Verify(0, TRUE), w>>}]
<1>1. V6 \in Nat /\ a \in Addrs /\ 0 \in Addrs /\ a # 0 /\ 1..V6 \subseteq Addrs
      /\ \A x \in Addrs : x \in 1..V6 \/ x = 0
  BY BfdTestAssumption DEF Addrs
<1>2. w \in Configs
  BY <1>1, ConfigsAre
<1>3. /\ Asks(w, Verify(0, TRUE))
      /\ \A j \in 1..V6 : Asks(w, Verify(j, a # j))
  <2>1. \A j \in Addrs : Asks(w, Verify(j, j # a))
    BY <1>1, AsksThere
  <2>2. (0 # a) = TRUE
    BY <1>1
  <2>3. \A j \in Addrs : (a # j) = (j # a)
    OBVIOUS
  <2> QED
    BY <1>1, <2>1, <2>2, <2>3
<1> HIDE DEF w
<1>4. \A j \in 1..V6 : Len(turn[j]) = 2 /\ Runs(turn[j], w, w, Q[j])
  <2> SUFFICES ASSUME NEW j \in 1..V6 PROVE Len(turn[j]) = 2 /\ Runs(turn[j], w, w, Q[j])
    OBVIOUS
  <2>1. turn[j] = <<Verify(j, a # j), Verify(0, TRUE)>>
        /\ Q[j] = {<<Verify(j, a # j), w>>, <<Verify(0, TRUE), w>>}
    OBVIOUS
  <2> HIDE DEF turn, Q
  <2>2. Verify(j, a # j) \in Instructions /\ Verify(0, TRUE) \in Instructions
    <3>1. (a # j) \in BOOLEAN
      OBVIOUS
    <3> QED
      BY <1>1, <3>1, InstructionsAre
  <2>3. After(w, Verify(j, a # j)) = w /\ After(w, Verify(0, TRUE)) = w
    BY <1>2, ChecksKeep DEF Verify
  <2>4. Runs(<<Verify(j, a # j), Verify(0, TRUE)>>, w, w,
             {<<Verify(j, a # j), w>>, <<Verify(0, TRUE), w>>})
    BY <1>2, <1>3, <2>2, <2>3, RunsTwo
  <2> QED
    BY <2>1, <2>4
<1>5. VerifyWithout(a) = Each(2, turn)
  BY DEF VerifyWithout
<1> DEFINE R == {<<Verify(x, TRUE), w>> : x \in Addrs \ {a}}
<1>6. \A q \in R : \E i \in 1..V6 : q \in Q[i]
  <2> SUFFICES ASSUME NEW x \in Addrs \ {a}
               PROVE  \E i \in 1..V6 : <<Verify(x, TRUE), w>> \in Q[i]
    OBVIOUS
  <2>1. CASE x = 0
    BY <2>1
  <2>2. CASE x \in 1..V6
    <3>1. (a # x) = TRUE
      OBVIOUS
    <3>2. Q[x] = {<<Verify(x, a # x), w>>, <<Verify(0, TRUE), w>>}
      BY <2>2
    <3> HIDE DEF Q
    <3> QED
      BY <2>2, <3>1, <3>2
  <2> QED
    BY <1>1, <2>1, <2>2
<1> HIDE DEF turn, Q, R
<1>7. 2 \in Nat \ {0}
  OBVIOUS
<1>8. Runs(Each(2, turn), w, w, R) /\ Len(Each(2, turn)) = V6 * 2
  BY <1>2, <1>4, <1>6, <1>7, RunsEach
<1> QED
  BY <1>5, <1>8 DEF w, R

LEMMA RunsSeq ==
  ASSUME NEW s, NEW a, NEW b, NEW Q, Runs(s, a, b, Q)
  PROVE  s \in Seq(Instructions)
BY DEF Runs, Path

\* Each IPv6 address is taken off and put back, and every other session stays up.
LEMMA Step4Runs ==
  Runs(Step4, Clear, Clear,
       {<<Verify(p[1], TRUE), Without(p[2])>> : p \in {p \in Addrs \X (1..V6) : p[1] # p[2]}})
<1> DEFINE turn == [a \in 1..V6 |->
                      <<NoAddress(a)>> \o VerifyWithout(a) \o <<Address(a)>> \o VerifyAll(TRUE)]
           Q == [a \in 1..V6 |-> {<<Verify(x, TRUE), Without(a)>> : x \in Addrs \ {a}}]
           R == {<<Verify(p[1], TRUE), Without(p[2])>>
                   : p \in {p \in Addrs \X (1..V6) : p[1] # p[2]}}
           n == 3 * V6 + 3
<1>1. V6 \in Nat /\ n \in Nat \ {0} /\ 1..V6 \subseteq Addrs /\ Clear \in Configs
  BY BfdTestAssumption, ConfigsAre DEF Addrs
<1>2. ASSUME NEW a \in 1..V6 PROVE Len(turn[a]) = n /\ Runs(turn[a], Clear, Clear, Q[a])
  <2> DEFINE w == Without(a)
             q == {<<Verify(x, TRUE), w>> : x \in Addrs \ {a}}
             v == VerifyWithout(a)
             all == VerifyAll(TRUE)
  <2>1. turn[a] = <<NoAddress(a)>> \o v \o <<Address(a)>> \o all /\ Q[a] = q
    OBVIOUS
  <2>2. a \in Addrs /\ w \in Configs
    BY <1>1, ConfigsAre
  <2>3. /\ NoAddress(a) \in Instructions /\ Address(a) \in Instructions
        /\ After(Clear, NoAddress(a)) = w /\ Asks(Clear, NoAddress(a))
        /\ After(w, Address(a)) = Clear /\ Asks(w, Address(a))
    BY <2>2, InstructionsAre, ChangesThere
  <2>4. Runs(v, w, w, q) /\ Len(v) = V6 * 2
    BY WithoutRuns
  <2>5. Runs(all, Clear, Clear, {}) /\ Len(all) = V6 + 1
    BY Step1Runs, RunsFewer, VerifyAllIs
  <2> HIDE DEF turn, Q, w, q, v, all
  <2>6. Runs(<<NoAddress(a)>>, Clear, w, {<<NoAddress(a), Clear>>})
    BY <1>1, <2>3, RunsOne
  <2>7. Runs(<<Address(a)>>, w, Clear, {<<Address(a), w>>})
    BY <2>2, <2>3, RunsOne
  <2>8. Runs(<<NoAddress(a)>>, Clear, w, {}) /\ Runs(<<Address(a)>>, w, Clear, {})
    BY <2>6, <2>7, RunsFewer
  <2>9. Runs(<<NoAddress(a)>> \o v, Clear, w, {} \cup q)
    BY <2>4, <2>8, RunsBoth
  <2>10. Runs(<<NoAddress(a)>> \o v \o <<Address(a)>>, Clear, Clear, {} \cup q \cup {})
    BY <2>8, <2>9, RunsBoth
  <2>11. Runs(<<NoAddress(a)>> \o v \o <<Address(a)>> \o all, Clear, Clear,
              {} \cup q \cup {} \cup {})
    BY <2>5, <2>10, RunsBoth
  <2>12. Runs(<<NoAddress(a)>> \o v \o <<Address(a)>> \o all, Clear, Clear, q)
    BY <2>11, RunsFewer
  <2>13. v \in Seq(Instructions) /\ all \in Seq(Instructions)
    BY <2>4, <2>5, RunsSeq
  <2>14. <<NoAddress(a)>> \in Seq(Instructions) /\ <<Address(a)>> \in Seq(Instructions)
         /\ Len(<<NoAddress(a)>>) = 1 /\ Len(<<Address(a)>>) = 1
    BY <2>3
  <2>15. Len(<<NoAddress(a)>> \o v \o <<Address(a)>> \o all) = 1 + V6 * 2 + 1 + (V6 + 1)
    BY <2>4, <2>5, <2>13, <2>14
  <2> QED
    BY <1>1, <2>1, <2>12, <2>15
<1>3. Step4 = Each(n, turn)
  BY DEF Step4
<1>4. \A q \in R : \E a \in 1..V6 : q \in Q[a]
  <2> SUFFICES ASSUME NEW x \in Addrs, NEW a \in 1..V6, x # a
               PROVE  <<Verify(x, TRUE), Without(a)>> \in Q[a]
    OBVIOUS
  <2> QED
    OBVIOUS
<1> HIDE DEF turn, Q, R, n
<1>5. Runs(Each(n, turn), Clear, Clear, R)
  BY <1>1, <1>2, <1>4, RunsEach
<1> QED
  BY <1>3, <1>5 DEF R

\* The IPv4 address likewise.
LEMMA Step5Runs ==
  Runs(Step5, Clear, Clear,
       {<<Verify(a, TRUE), Without(0)>> : a \in 1..V6} \cup {<<Verify(a, TRUE), Clear>> : a \in Addrs})
<1> DEFINE w == Without(0)
           q == {<<Verify(a, TRUE), w>> : a \in 1..V6}
           r == {<<Verify(a, TRUE), Clear>> : a \in Addrs}
           v == VerifyIpv6(TRUE)
           all == VerifyAll(TRUE)
<1>1. V6 \in Nat /\ 0 \in Addrs /\ 1..V6 \subseteq Addrs /\ \A a \in 1..V6 : a # 0
  BY BfdTestAssumption DEF Addrs
<1>2. w \in Configs /\ Clear \in Configs
  BY <1>1, ConfigsAre
<1>3. /\ NoAddress(0) \in Instructions /\ Address(0) \in Instructions
      /\ Verify(0, FALSE) \in Instructions
      /\ After(Clear, NoAddress(0)) = w /\ Asks(Clear, NoAddress(0))
      /\ After(w, Address(0)) = Clear /\ Asks(w, Address(0))
  BY <1>1, InstructionsAre, ChangesThere
<1>4. \A a \in 1..V6 : Asks(w, Verify(a, TRUE))
  <2> SUFFICES ASSUME NEW a \in 1..V6 PROVE Asks(w, Verify(a, TRUE))
    OBVIOUS
  <2>1. (a # 0) = TRUE
    BY <1>1
  <2>2. Asks(w, Verify(a, a # 0))
    BY <1>1, AsksThere
  <2> QED
    BY <2>1, <2>2
<1>5. Asks(w, Verify(0, FALSE))
  <2>1. (0 # 0) = FALSE
    OBVIOUS
  <2>2. Asks(w, Verify(0, 0 # 0))
    BY <1>1, AsksThere
  <2> QED
    BY <2>1, <2>2
<1>6. Runs(v, w, w, q)
  BY <1>2, <1>4, Ipv6Run
<1>7. Runs(all, Clear, Clear, r)
  BY Step1Runs
<1>8. After(w, Verify(0, FALSE)) = w
  BY <1>2, ChecksKeep DEF Verify
<1> HIDE DEF w, q, r, v, all
<1>9. Runs(<<NoAddress(0)>>, Clear, w, {<<NoAddress(0), Clear>>})
  BY <1>2, <1>3, RunsOne
<1>10. Runs(<<Verify(0, FALSE), Address(0)>>, w, Clear,
            {<<Verify(0, FALSE), w>>, <<Address(0), w>>})
  BY <1>2, <1>3, <1>5, <1>8, RunsTwo
<1>11. Runs(<<NoAddress(0)>>, Clear, w, {}) /\ Runs(<<Verify(0, FALSE), Address(0)>>, w, Clear, {})
  BY <1>9, <1>10, RunsFewer
<1>12. Runs(<<NoAddress(0)>> \o v, Clear, w, {} \cup q)
  BY <1>6, <1>11, RunsBoth
<1>13. Runs(<<NoAddress(0)>> \o v \o <<Verify(0, FALSE), Address(0)>>, Clear, Clear,
            {} \cup q \cup {})
  BY <1>11, <1>12, RunsBoth
<1>14. Runs(<<NoAddress(0)>> \o v \o <<Verify(0, FALSE), Address(0)>> \o all, Clear, Clear,
            {} \cup q \cup {} \cup r)
  BY <1>7, <1>13, RunsBoth
<1>15. Runs(<<NoAddress(0)>> \o v \o <<Verify(0, FALSE), Address(0)>> \o all, Clear, Clear,
            q \cup r)
  BY <1>14, RunsFewer
<1> QED
  BY <1>15 DEF Step5, w, q, r, v, all

-----------------------------------------------------------------------------
(* The whole test *)

\* Test leaves the link as it was, each check asks for what healthy routers show, and:
\* - the line is looked at,
\* - every session is looked at while it should be up, and while the tail is shut,
\* - every session is looked at while any other address is removed.
Looks ==
  {<<IntsUp, Clear>>}
    \cup {<<Verify(a, TRUE), Clear>> : a \in Addrs}
    \cup {<<Verify(a, FALSE), With({"tail"})>> : a \in Addrs}
    \cup {<<Verify(p[1], TRUE), Without(p[2])>> : p \in {p \in Addrs \X Addrs : p[1] # p[2]}}

LEMMA TestRuns ==
  /\ Runs(Test, Clear, Clear, Looks)
  /\ \A a \in Addrs : \E k, m \in 1..Len(Test) :
       k < m /\ Test[k] = Verify(a, FALSE) /\ Test[m] = Verify(a, TRUE)
<1> DEFINE q1 == {<<Verify(a, TRUE), Clear>> : a \in Addrs}
           q2 == {<<Verify(a, FALSE), With({"tail"})>> : a \in Addrs}
           q4 == {<<Verify(p[1], TRUE), Without(p[2])>>
                    : p \in {p \in Addrs \X (1..V6) : p[1] # p[2]}}
           q5 == {<<Verify(a, TRUE), Without(0)>> : a \in 1..V6}
           i0 == <<IntsUp, IntsUp>>
           s1 == VerifyAll(TRUE)
           t4 == i0 \o s1 \o Step2 \o Step3 \o Step4
           t  == With({"tail"})
<1>1. /\ Runs(i0, Clear, Clear, {<<IntsUp, Clear>>})
      /\ Runs(s1, Clear, Clear, q1)
      /\ Runs(Step2, Clear, t, q2)
      /\ Runs(Step3, t, Clear, q1)
      /\ Runs(Step4, Clear, Clear, q4)
      /\ Runs(Step5, Clear, Clear, q5 \cup q1)
  BY SetupRuns, Step1Runs, Step2Runs, Step3Runs, Step4Runs, Step5Runs
<1>2. Test = t4 \o Step5
  BY DEF Test
<1>3. Looks \subseteq {<<IntsUp, Clear>>} \cup q1 \cup q2 \cup q1 \cup q4 \cup (q5 \cup q1)
  <2>1. \A a \in Addrs : a = 0 \/ a \in 1..V6
    BY BfdTestAssumption DEF Addrs
  <2>2. ASSUME NEW a \in Addrs, NEW b \in Addrs, a # b
        PROVE  <<Verify(a, TRUE), Without(b)>> \in q4 \cup q5
    <3>1. CASE b = 0
      BY <2>1, <2>2, <3>1
    <3>2. CASE b \in 1..V6
      <4>1. <<a, b>> \in {p \in Addrs \X (1..V6) : p[1] # p[2]}
        BY <2>2, <3>2
      <4>2. <<a, b>>[1] = a /\ <<a, b>>[2] = b
        OBVIOUS
      <4> QED
        BY <4>1, <4>2
    <3> QED
      BY <2>1, <3>1, <3>2
  <2> DEFINE q == {<<Verify(p[1], TRUE), Without(p[2])>>
                     : p \in {p \in Addrs \X Addrs : p[1] # p[2]}}
  <2>3. ASSUME NEW x \in q PROVE x \in q4 \cup q5
    <3>1. PICK p \in Addrs \X Addrs :
            p[1] # p[2] /\ x = <<Verify(p[1], TRUE), Without(p[2])>>
      OBVIOUS
    <3>2. p[1] \in Addrs /\ p[2] \in Addrs
      OBVIOUS
    <3> HIDE DEF q4, q5
    <3> QED
      BY <2>2, <3>1, <3>2
  <2> HIDE DEF q4, q5, q
  <2> QED
    BY <2>3 DEF Looks, q
<1> HIDE DEF q4, q5, i0, s1, t
<1>4. Runs(i0 \o s1, Clear, Clear, {<<IntsUp, Clear>>} \cup q1)
  BY <1>1, RunsBoth
<1>5. Runs(i0 \o s1 \o Step2, Clear, t, {<<IntsUp, Clear>>} \cup q1 \cup q2)
  BY <1>1, <1>4, RunsBoth
<1>6. Runs(i0 \o s1 \o Step2 \o Step3, Clear, Clear, {<<IntsUp, Clear>>} \cup q1 \cup q2 \cup q1)
  BY <1>1, <1>5, RunsBoth
<1>7. Runs(t4, Clear, Clear, {<<IntsUp, Clear>>} \cup q1 \cup q2 \cup q1 \cup q4)
  BY <1>1, <1>6, RunsBoth
<1>8. Runs(Test, Clear, Clear,
           {<<IntsUp, Clear>>} \cup q1 \cup q2 \cup q1 \cup q4 \cup (q5 \cup q1))
  BY <1>1, <1>2, <1>7, RunsBoth
<1>9. Runs(Test, Clear, Clear, Looks)
  BY <1>3, <1>8, RunsFewer
<1>10. ASSUME NEW a \in Addrs
       PROVE  \E k, m \in 1..Len(Test) :
                k < m /\ Test[k] = Verify(a, FALSE) /\ Test[m] = Verify(a, TRUE)
  <2>1. t4 \in Seq(Instructions) /\ Step5 \in Seq(Instructions)
    BY <1>1, <1>7, RunsSeq
  <2>2. PICK k \in 1..Len(t4) : t4[k] = Verify(a, FALSE)
    <3>1. Runs(t4, Clear, Clear, q2)
      BY <1>7, RunsFewer
    <3>2. <<Verify(a, FALSE), With({"tail"})>> \in q2
      OBVIOUS
    <3> HIDE DEF q2
    <3> QED
      BY <3>1, <3>2 DEF Runs
  <2>3. PICK m \in 1..Len(Step5) : Step5[m] = Verify(a, TRUE)
    <3>1. <<Verify(a, TRUE), Clear>> \in q5 \cup q1
      OBVIOUS
    <3> HIDE DEF q1
    <3> QED
      BY <1>1, <3>1 DEF Runs
  <2> HIDE DEF t4
  <2>4. /\ Test[k] = t4[k] /\ Test[Len(t4) + m] = Step5[m]
        /\ k \in 1..Len(Test) /\ Len(t4) + m \in 1..Len(Test) /\ k < Len(t4) + m
    BY <1>2, <2>1
  <2> QED
    BY <2>2, <2>3, <2>4
<1> QED
  BY <1>9, <1>10

IsPlan(c) ==
  /\ Path(Test, c)
  /\ c[1] = Clear /\ c[Len(Test) + 1] = Clear
  /\ \A q \in Looks : \E k \in 1..Len(Test) : q = <<Test[k], c[k]>>

\* Plan[k]: the configuration in which the test reaches its k-th instruction.
Plan == CHOOSE c : IsPlan(c)

LEMMA PlanIs == IsPlan(Plan)
<1>1. \E c : IsPlan(c)
  BY TestRuns DEF Runs, IsPlan
<1> QED
  BY <1>1 DEF Plan

LEMMA PlanSteps ==
  /\ Test \in Seq(Instructions) /\ Len(Test) \in Nat
  /\ \A k \in 1..(Len(Test) + 1) : Plan[k] \in Configs
  /\ \A k \in 1..Len(Test) : /\ Test[k] \in Instructions
                            /\ Plan[k + 1] = After(Plan[k], Test[k])
                            /\ Asks(Plan[k], Test[k])
  /\ Plan[1] = Clear /\ Plan[Len(Test) + 1] = Clear
<1>1. Path(Test, Plan) /\ Plan[1] = Clear /\ Plan[Len(Test) + 1] = Clear
  BY PlanIs DEF IsPlan
<1>2. Test \in Seq(Instructions) /\ Plan \in [1..(Len(Test) + 1) -> Configs]
  BY <1>1 DEF Path
<1>3. Len(Test) \in Nat /\ \A k \in 1..Len(Test) : Test[k] \in Instructions
  BY <1>2
<1> QED
  BY <1>1, <1>2, <1>3 DEF Path

-----------------------------------------------------------------------------
(* Types, and what has been changed so far *)

\* The link is configured as the plan of the test has it.
Planned ==
  /\ pc \in 1..(Len(Test) + 1)
  /\ shut = Plan[pc].shut
  /\ removed = Plan[pc].removed

Typed == TypeOK /\ Planned

LEMMA TargetType ==
  ASSUME TypeOK, NEW a \in Addrs
  PROVE  Target(a) \in BOOLEAN
<1>1. session[a] \in BOOLEAN
  BY DEF TypeOK
<1> QED
  BY <1>1 DEF Target, Configured

\* What holds of the instruction that the test is at.
LEMMA AtOne ==
  ASSUME Planned, NEW op, At(op)
  PROVE  /\ phase = "test" /\ pc \in 1..Len(Test) /\ pc + 1 \in 1..(Len(Test) + 1)
         /\ Test[pc].op = op /\ Test[pc] \in Instructions
         /\ Plan[pc] \in Configs
         /\ Plan[pc + 1] = After(Plan[pc], Test[pc])
         /\ Plan[pc + 1].shut = ShutBy(shut, Test[pc])
         /\ Plan[pc + 1].removed = RemovedBy(removed, Test[pc])
         /\ Asks(Plan[pc], Test[pc])
<1>1. pc \in 1..Len(Test) /\ phase = "test" /\ Test[pc].op = op
  BY PlanSteps DEF At, Planned
<1>2. pc + 1 \in 1..(Len(Test) + 1) /\ pc \in 1..(Len(Test) + 1)
  BY <1>1, PlanSteps
<1>3. Plan[pc + 1] = After(Plan[pc], Test[pc])
  BY <1>1, PlanSteps
<1>4. Plan[pc].shut = shut /\ Plan[pc].removed = removed
  BY DEF Planned
<1>5. Plan[pc + 1].shut = ShutBy(shut, Test[pc]) /\ Plan[pc + 1].removed = RemovedBy(removed, Test[pc])
  BY <1>3, <1>4 DEF After
<1> QED
  BY <1>1, <1>2, <1>3, <1>5, PlanSteps

\* After a check the plan stays at its configuration.
LEMMA CheckPlanned ==
  ASSUME Planned, UNCHANGED <<shut, removed>>,
         At("line") \/ At("verify") \/ UNCHANGED pc,
         pc' = pc + 1 \/ pc' = pc
  PROVE  Planned'
<1>1. CASE pc' = pc
  BY <1>1 DEF Planned
<1>2. CASE pc' = pc + 1 /\ (At("line") \/ At("verify"))
  <2>1. PICK op \in {"line", "verify"} : At(op)
    BY <1>2
  <2>2. After(Plan[pc], Test[pc]) = Plan[pc]
    BY <2>1, AtOne, ChecksKeep
  <2> QED
    BY <1>2, <2>1, <2>2, AtOne DEF Planned
<1> QED
  BY <1>1, <1>2 DEF Planned

LEMMA TypedInit == Init => Typed
<1> SUFFICES ASSUME Init PROVE Typed
  OBVIOUS
<1>1. Planned
  <2>1. shut = Clear.shut /\ removed = Clear.removed /\ pc = 1
    BY DEF Init, Clear
  <2> QED
    BY <2>1, PlanSteps DEF Planned
<1>2. links \subseteq SUBSET Routers
  <2>1. deviceList \subseteq Routers /\ links \subseteq kSubset(2, deviceList)
    BY DEF Init
  <2> QED
    BY <2>1 DEF kSubset
<1>3. session \in [Addrs -> BOOLEAN]
  BY DEF Init
<1>4. flaps \in 0..MaxFlaps /\ pc \in Nat /\ try \in 1..3
  <2>1. flaps = 0 /\ pc = 1 /\ try = 1
    BY DEF Init
  <2> QED
    BY <2>1, BfdTestAssumption
<1>5. /\ phase \in Phases /\ testResult \in {"pass", "fail"} /\ reported \in {"none", "pass", "fail"}
      /\ topology \in {"raw", "ours", "found"}
  <2>1. phase = "common_setup" /\ testResult = "pass" /\ reported = "none"
    BY DEF Init
  <2>2. topology = "raw" \/ topology = "found"
    BY DEF Init
  <2> QED
    BY <2>1, <2>2 DEF Phases
<1>7. /\ deviceList \subseteq Routers /\ shut \subseteq {"head", "tail"} /\ removed \subseteq Addrs
      /\ fault \in Faults
  <2>1. deviceList \in SUBSET Routers /\ shut = {} /\ removed = {} /\ fault \in Faults
    BY DEF Init
  <2> QED
    BY <2>1
<1>6. configure \in BOOLEAN /\ asked \in BOOLEAN /\ unconfigure \in BOOLEAN /\ calm \in BOOLEAN
  BY DEF Init
<1> QED
  BY <1>1, <1>2, <1>3, <1>4, <1>5, <1>6, <1>7 DEF Typed, TypeOK

\* The inputs keep their types, since nothing changes them.
LEMMA TypeOKNext ==
  ASSUME TypeOK, UNCHANGED input,
         phase' \in Phases, pc' \in Nat, try' \in 1..3,
         testResult' \in {"pass", "fail"}, reported' \in {"none", "pass", "fail"},
         unconfigure' \in BOOLEAN \/ UNCHANGED unconfigure,
         topology' \in {"raw", "ours", "found"},
         shut' \subseteq {"head", "tail"}, removed' \subseteq Addrs,
         session' \in [Addrs -> BOOLEAN], flaps' \in 0..MaxFlaps
  PROVE  TypeOK'
<1>1. /\ deviceList' = deviceList /\ links' = links /\ fault' = fault
      /\ configure' = configure /\ asked' = asked /\ calm' = calm
  BY DEF input
<1>2. deviceList' \subseteq Routers /\ links' \subseteq SUBSET Routers /\ fault' \in Faults
  BY <1>1 DEF TypeOK
<1>3. configure' \in BOOLEAN
  BY <1>1 DEF TypeOK
<1>4. asked' \in BOOLEAN
  BY <1>1 DEF TypeOK
<1>5. calm' \in BOOLEAN
  BY <1>1 DEF TypeOK
<1>6. unconfigure' \in BOOLEAN
  BY DEF TypeOK
<1> QED
  BY <1>2, <1>3, <1>4, <1>5, <1>6 DEF TypeOK

\* The script turns to its next section, or ends.
LEMMA TypedSections ==
  ASSUME Typed, \/ SetupFailsEarly \/ SetupRejects \/ ConfigureFails \/ Configure
                \/ TestEnds \/ Cleanup \/ CommonCleanup
  PROVE  Typed'
<1>1. UNCHANGED <<pc, try, input, router>>
  BY DEF SetupFailsEarly, SetupRejects, ConfigureFails, Configure, TestEnds, Cleanup, CommonCleanup,
         result
<1>2. Planned'
  BY <1>1 DEF Typed, Planned, router
<1>3. phase' \in Phases /\ testResult' \in {"pass", "fail"} /\ reported' \in {"none", "pass", "fail"}
  BY DEF Typed, TypeOK, Phases, SetupFailsEarly, SetupRejects, ConfigureFails, Configure, TestEnds,
         Cleanup, CommonCleanup, Goto, result
<1>4. topology' \in {"raw", "ours", "found"}
  BY DEF Typed, TypeOK, SetupFailsEarly, SetupRejects, ConfigureFails, Configure, TestEnds,
         Cleanup, CommonCleanup
<1>5. unconfigure' \in BOOLEAN
  BY DEF Typed, TypeOK, SetupFailsEarly, SetupRejects, ConfigureFails, Configure, TestEnds,
         Cleanup, CommonCleanup
<1> QED
  BY <1>1, <1>2, <1>3, <1>4, <1>5, TypeOKNext DEF Typed, TypeOK, router

LEMMA TypedNext == Typed /\ [Next]_vars => Typed'
<1> SUFFICES ASSUME Typed, [Next]_vars PROVE Typed'
  OBVIOUS
<1>1. CASE \/ SetupFailsEarly \/ SetupRejects \/ ConfigureFails \/ Configure
           \/ TestEnds \/ Cleanup \/ CommonCleanup
  BY <1>1, TypedSections
<1>2. CASE ChangeLink
  <2>1. PICK op \in {"shut", "noshut"} : At(op)
    BY <1>2 DEF ChangeLink
  <2>2. Test[pc].end \in Ends
    BY <2>1, AtOne DEF Typed, Instructions
  <2>3. pc' = pc + 1 /\ removed' = removed
        /\ shut' = IF Test[pc].op = "shut" THEN shut \cup {Test[pc].end} ELSE shut \ {Test[pc].end}
    BY <1>2 DEF ChangeLink
  <2>4. Planned'
    <3>1. shut' = ShutBy(shut, Test[pc]) /\ removed' = RemovedBy(removed, Test[pc])
      BY <2>1, <2>3, AtOne DEF Typed, ShutBy, RemovedBy
    <3>2. /\ pc + 1 \in 1..(Len(Test) + 1)
          /\ Plan[pc + 1].shut = ShutBy(shut, Test[pc])
          /\ Plan[pc + 1].removed = RemovedBy(removed, Test[pc])
      BY <2>1, AtOne DEF Typed
    <3> QED
      BY <2>3, <3>1, <3>2 DEF Planned
  <2>5. shut \subseteq Ends /\ removed \subseteq Addrs /\ pc \in Nat
    BY DEF Typed, TypeOK, Ends
  <2>6. shut' \subseteq Ends /\ pc' \in Nat /\ removed' \subseteq Addrs
    BY <2>2, <2>3, <2>5
  <2>7. UNCHANGED <<phase, try, result, input, unconfigure, topology, session, flaps>>
    BY <1>2 DEF ChangeLink
  <2> QED
    BY <2>4, <2>6, <2>7, TypeOKNext DEF Typed, TypeOK, Ends, result
<1>3. CASE ChangeAddress
  <2>1. PICK op \in {"remove", "restore"} : At(op)
    BY <1>3 DEF ChangeAddress
  <2>2. Test[pc].addr \in Addrs
    BY <2>1, AtOne DEF Typed, Instructions
  <2>3. pc' = pc + 1 /\ shut' = shut
        /\ removed' = IF Test[pc].op = "remove" THEN removed \cup {Test[pc].addr}
                                                ELSE removed \ {Test[pc].addr}
    BY <1>3 DEF ChangeAddress
  <2>4. Planned'
    <3>1. shut' = ShutBy(shut, Test[pc]) /\ removed' = RemovedBy(removed, Test[pc])
      BY <2>1, <2>3, AtOne DEF Typed, ShutBy, RemovedBy
    <3>2. /\ pc + 1 \in 1..(Len(Test) + 1)
          /\ Plan[pc + 1].shut = ShutBy(shut, Test[pc])
          /\ Plan[pc + 1].removed = RemovedBy(removed, Test[pc])
      BY <2>1, AtOne DEF Typed
    <3> QED
      BY <2>3, <3>1, <3>2 DEF Planned
  <2>5. shut \subseteq Ends /\ removed \subseteq Addrs /\ pc \in Nat
    BY DEF Typed, TypeOK, Ends
  <2>6. shut' \subseteq Ends /\ pc' \in Nat /\ removed' \subseteq Addrs
    BY <2>2, <2>3, <2>5
  <2>7. UNCHANGED <<phase, try, result, input, unconfigure, topology, session, flaps>>
    BY <1>3 DEF ChangeAddress
  <2> QED
    BY <2>4, <2>6, <2>7, TypeOKNext DEF Typed, TypeOK, Ends, result
<1>4. CASE CheckLine \/ Look
  <2>1. At("line") \/ At("verify")
    BY <1>4 DEF CheckLine, Look
  <2>2. UNCHANGED <<reported, input, unconfigure, topology, router>>
    BY <1>4 DEF CheckLine, Look
  <2>3. /\ pc' = pc + 1 \/ pc' = pc
        /\ phase' \in {phase, "cleanup"} /\ testResult' \in {testResult, "fail"}
    BY <1>4 DEF CheckLine, Look, Conclude, Goto
  <2>4. try' \in 1..3
    <3>1. try' = 1 \/ (try < 3 /\ try' = try + 1)
      BY <1>4 DEF CheckLine, Look, Conclude, LookAgain
    <3>2. try \in 1..3
      BY DEF Typed, TypeOK
    <3> QED
      BY <3>1, <3>2
  <2>5. Planned'
    BY <2>1, <2>2, <2>3, CheckPlanned DEF Typed, router
  <2>6. phase' \in Phases /\ testResult' \in {"pass", "fail"} /\ pc' \in Nat
    <3>1. phase \in Phases /\ testResult \in {"pass", "fail"} /\ pc \in Nat
      BY DEF Typed, TypeOK
    <3>2. pc' \in Nat
      BY <2>3, <3>1
    <3> QED
      BY <2>3, <3>1, <3>2 DEF Phases
  <2> QED
    BY <2>2, <2>4, <2>5, <2>6, TypeOKNext DEF Typed, TypeOK, router
<1>5. ASSUME NEW a \in Addrs, Settle(a) \/ Flap(a) PROVE Typed'
  <2>1. session' \in [Addrs -> BOOLEAN]
    <3>1. session \in [Addrs -> BOOLEAN] /\ Target(a) \in BOOLEAN
      BY TargetType DEF Typed, TypeOK
    <3>2. session' = [session EXCEPT ![a] = Target(a)] \/ session' = [session EXCEPT ![a] = FALSE]
      BY <1>5 DEF Settle, Flap
    <3> QED
      BY <3>1, <3>2
  <2>2. flaps' \in 0..MaxFlaps
    <3>1. flaps \in 0..MaxFlaps
      BY DEF Typed, TypeOK
    <3>2. flaps' = flaps \/ (flaps < MaxFlaps /\ flaps' = flaps + 1)
      BY <1>5 DEF Settle, Flap
    <3> QED
      BY <3>1, <3>2, BfdTestAssumption
  <2>3. UNCHANGED <<phase, pc, try, result, input, unconfigure, topology, shut, removed>>
    BY <1>5 DEF Settle, Flap
  <2>4. Planned'
    BY <2>3 DEF Typed, Planned
  <2> QED
    BY <2>1, <2>2, <2>3, <2>4, TypeOKNext DEF Typed, TypeOK, result
<1>6. CASE UNCHANGED vars
  <2>1. Planned'
    BY <1>6 DEF Typed, Planned, vars, router
  <2> QED
    BY <1>6, <2>1, TypeOKNext DEF Typed, TypeOK, vars, result, router
<1> QED
  BY <1>1, <1>2, <1>3, <1>4, <1>5, <1>6 DEF Next

\* The link is always as the sequence of instructions has left it: what is shut is what the
\* script has shut and not opened again, what is removed has not been put back.
THEOREM TypedAlways == Spec => []Typed
BY TypedInit, TypedNext, PTL DEF Spec

\* The type invariant of the script's variables and of the routers it reaches.
THEOREM TypeCorrect == Spec => []TypeOK
<1>1. Typed => TypeOK
  BY DEF Typed
<1> QED
  BY <1>1, TypedAlways, PTL

-----------------------------------------------------------------------------
(* How the test ends *)

\* The verdict is the one the test came to, and a test that passes has run to its end.
Ended ==
  /\ phase \in {"common_setup", "test"} => testResult = "pass" /\ reported = "none"
  /\ phase = "common_setup" => pc = 1
  /\ phase = "cleanup" => reported = "none"
  /\ reported # "none" => reported = testResult /\ phase \in {"common_cleanup", "over"}
  /\ testResult = "pass" /\ phase \notin {"common_setup", "test"} => pc = Len(Test) + 1

\* Whether the topology that the script has configured will be unconfigured.
Own ==
  /\ phase = "common_setup" => topology # "ours" /\ unconfigure = asked
  /\ topology = "ours" /\ phase # "over" => unconfigure = asked
  /\ topology = "ours" /\ phase = "over" => ~asked

\* The test has come to a verdict, not only failed to be set up.
Judged == phase = "cleanup" \/ reported # "none"

\* No check fails a healthy router.
Sound == calm /\ fault = Healthy /\ Judged => testResult = "pass"

\* The instruction k looks whether the session a is up, or down.
LooksFor(k, a, want) == Test[k] = Verify(a, want)

\* The check k does not see the fault, whatever was seen before.
Blind(k) ==
  /\ fault.kind = "line" => Test[k].op # "line"
  /\ fault.kind = "stuckUp" => ~LooksFor(k, fault.at, FALSE)
  /\ fault.kind = "stuckDown" => ~LooksFor(k, fault.at, TRUE)
  /\ fault.kind = "drags" => ~(LooksFor(k, fault.at, TRUE) /\ fault.by \in Plan[k].removed)

\* A session that is lost and has been seen down has not been seen up since.
Gone(k) ==
  fault.kind = "lost" /\ LooksFor(k, fault.at, FALSE) =>
    /\ ~session[fault.at]
    /\ \A m \in k..(pc - 1) : ~LooksFor(m, fault.at, TRUE)

\* No check that has passed is one that sees the fault.
Thorough == calm => \A k \in 1..(pc - 1) : Blind(k) /\ Gone(k)

Inv == Typed /\ Ended /\ Own /\ Sound /\ Thorough

LEMMA InitInv == Init => Inv
<1> SUFFICES ASSUME Init PROVE Inv
  OBVIOUS
<1>1. Typed
  BY TypedInit
<1>2. phase = "common_setup" /\ reported = "none" /\ testResult = "pass" /\ pc = 1 /\ unconfigure = asked
  BY DEF Init
<1>3. topology # "ours"
  BY DEF Init
<1>4. Ended /\ Own /\ Sound
  BY <1>2, <1>3 DEF Ended, Own, Sound, Judged
<1>5. 1..(pc - 1) = {}
  BY <1>2
<1> QED
  BY <1>1, <1>4, <1>5 DEF Inv, Thorough

-----------------------------------------------------------------------------
(* The invariants in a step *)

\* The sections before and after the test.
LEMMA SectionsKeep ==
  ASSUME Inv, \/ SetupFailsEarly \/ SetupRejects \/ ConfigureFails \/ Configure
              \/ TestEnds \/ Cleanup \/ CommonCleanup
  PROVE  Ended' /\ Sound'
<1>1. Len(Test) \in Nat /\ pc \in 1..(Len(Test) + 1)
  BY PlanSteps DEF Inv, Typed, Planned
<1>2. Ended /\ Sound
  BY DEF Inv
<1>3. UNCHANGED <<pc, input>>
  BY DEF SetupFailsEarly, SetupRejects, ConfigureFails, Configure, TestEnds, Cleanup, CommonCleanup
<1>4. calm' = calm /\ fault' = fault /\ pc' = pc
  BY <1>3 DEF input
<1>5. CASE SetupFailsEarly \/ SetupRejects \/ ConfigureFails
  <2>1. phase = "common_setup" /\ phase' = "common_cleanup" /\ testResult' = "fail" /\ reported' = reported
    BY <1>5 DEF SetupFailsEarly, SetupRejects, ConfigureFails, Goto
  <2> QED
    BY <1>2, <2>1 DEF Ended, Sound, Judged
<1>6. CASE Configure
  <2>1. phase = "common_setup" /\ phase' = "test" /\ testResult' = testResult /\ reported' = reported
    BY <1>6 DEF Configure, result
  <2> QED
    BY <1>2, <2>1 DEF Ended, Sound, Judged
<1>7. CASE TestEnds
  <2>1. /\ phase = "test" /\ phase' = "cleanup" /\ testResult' = testResult /\ reported' = reported
        /\ pc > Len(Test)
    BY <1>7 DEF TestEnds, result
  <2>2. pc' = Len(Test) + 1
    BY <1>1, <1>4, <2>1
  <2> QED
    BY <1>2, <2>1, <2>2 DEF Ended, Sound, Judged
<1>8. CASE Cleanup
  <2>1. /\ phase = "cleanup" /\ phase' = "common_cleanup" /\ testResult' = testResult
        /\ reported' = testResult
    BY <1>8 DEF Cleanup
  <2> QED
    BY <1>2, <1>4, <2>1 DEF Ended, Sound, Judged
<1>9. CASE CommonCleanup
  <2>1. /\ phase = "common_cleanup" /\ phase' = "over" /\ testResult' = testResult
        /\ reported' = reported
    BY <1>9 DEF CommonCleanup, result
  <2> QED
    BY <1>2, <1>4, <2>1 DEF Ended, Sound, Judged
<1> QED
  BY <1>5, <1>6, <1>7, <1>8, <1>9

LEMMA SectionsKeepOwn ==
  ASSUME Inv, \/ SetupFailsEarly \/ SetupRejects \/ ConfigureFails \/ Configure
              \/ TestEnds \/ Cleanup \/ CommonCleanup
  PROVE  Own'
<1>1. Own
  BY DEF Inv
<1>2. asked' = asked
  BY DEF SetupFailsEarly, SetupRejects, ConfigureFails, Configure, TestEnds, Cleanup, CommonCleanup,
         input
<1>3. CASE SetupFailsEarly \/ SetupRejects
  <2>1. phase = "common_setup" /\ phase' = "common_cleanup" /\ topology' = topology
    BY <1>3 DEF SetupFailsEarly, SetupRejects, Goto
  <2> QED
    BY <1>1, <2>1 DEF Own
<1>4. CASE ConfigureFails \/ Configure
  <2>1. phase = "common_setup" /\ phase' \in {"common_cleanup", "test"} /\ unconfigure' = unconfigure
    BY <1>4 DEF ConfigureFails, Configure, Goto
  <2> QED
    BY <1>1, <1>2, <2>1 DEF Own
<1>5. CASE TestEnds \/ Cleanup
  <2>1. /\ phase \in {"test", "cleanup"} /\ phase' \in {"cleanup", "common_cleanup"}
        /\ unconfigure' = unconfigure /\ topology' = topology
    BY <1>5 DEF TestEnds, Cleanup
  <2> QED
    BY <1>1, <1>2, <2>1 DEF Own
<1>6. CASE CommonCleanup
  <2>1. phase = "common_cleanup" /\ phase' = "over"
    BY <1>6 DEF CommonCleanup
  <2>2. topology' = "ours" => topology = "ours" /\ ~unconfigure
    BY <1>6 DEF CommonCleanup
  <2> QED
    BY <1>1, <1>2, <2>1, <2>2 DEF Own
<1> QED
  BY <1>3, <1>4, <1>5, <1>6

\* A check of sessions that have settled sees a session where it should be, and passes only then.
LEMMA LookSees ==
  ASSUME Inv, Look, calm
  PROVE  /\ Test[pc].addr \in Addrs
         /\ Test[pc].want \in BOOLEAN
         /\ session[Test[pc].addr] \in BOOLEAN
         /\ session[Test[pc].addr] = Target(Test[pc].addr)
         /\ pc' = pc + 1 => (Test[pc].want <=> session[Test[pc].addr])
         /\ pc' = pc /\ phase' # phase => ~(Test[pc].want <=> session[Test[pc].addr])
<1>1. At("verify") /\ Settled
  BY DEF Look
<1>2. Test[pc].addr \in Addrs
  BY <1>1, AtOne DEF Inv, Typed, Instructions
<1>3. Test[pc].want \in BOOLEAN
  BY <1>1, AtOne DEF Inv, Typed, Instructions
<1>4. session[Test[pc].addr] \in BOOLEAN
  BY <1>2 DEF Inv, Typed, TypeOK
<1>5. session[Test[pc].addr] = Target(Test[pc].addr)
  BY <1>1, <1>2 DEF Settled
<1>6. pc \in Nat
  BY DEF Inv, Typed, TypeOK
<1>7. pc + 1 # pc
  BY <1>6
<1>8. pc' = pc + 1 => (Test[pc].want <=> session[Test[pc].addr])
  BY <1>3, <1>4, <1>7 DEF Look, Conclude
<1>9. pc' = pc /\ phase' # phase => ~(Test[pc].want <=> session[Test[pc].addr])
  BY <1>3, <1>4, <1>7 DEF Look, Conclude
<1> QED
  BY <1>2, <1>3, <1>4, <1>5, <1>8, <1>9

\* A step of a check: on to the next instruction, another look, or to the section cleanup.
LEMMA CheckSteps ==
  ASSUME Inv, CheckLine \/ Look
  PROVE  /\ phase = "test" /\ UNCHANGED <<reported, input, unconfigure, topology, router>>
         /\ \/ phase' = phase /\ testResult' = testResult /\ pc' \in {pc, pc + 1}
            \/ phase' = "cleanup" /\ testResult' = "fail" /\ pc' = pc
BY DEF CheckLine, Look, At, Conclude, Goto

\* A healthy router fails no check.
LEMMA HealthyPasses ==
  ASSUME Inv, CheckLine \/ Look, calm, fault = Healthy
  PROVE  phase' = phase
<1>1. phase = "test" /\ (phase' = phase \/ (phase' = "cleanup" /\ pc' = pc))
  BY CheckSteps
<1>2. fault.kind = "none"
  BY DEF Healthy
<1>3. shut = Plan[pc].shut /\ removed = Plan[pc].removed
  BY DEF Inv, Typed, Planned
<1>4. CASE CheckLine
  <2>1. At("line") /\ Test[pc].op = "line"
    BY <1>4 DEF CheckLine, At
  <2>2. Asks(Plan[pc], Test[pc])
    BY <2>1, AtOne DEF Inv, Typed
  <2>3. Test[pc].want \in BOOLEAN
    BY <2>1, AtOne DEF Inv, Typed, Instructions
  <2>4. Test[pc].want = (shut = {})
    BY <1>3, <2>1, <2>2, <2>3 DEF Asks
  <2> QED
    BY <1>2, <1>4, <2>4 DEF CheckLine, Conclude
<1>5. CASE Look
  <2>1. At("verify") /\ Test[pc].op = "verify"
    BY <1>5 DEF Look, At
  <2>2. Asks(Plan[pc], Test[pc])
    BY <2>1, AtOne DEF Inv, Typed
  <2>3. Test[pc].want <=> Configured(Test[pc].addr)
    BY <1>3, <2>1, <2>2 DEF Asks, Configured
  <2>4. Target(Test[pc].addr) = Configured(Test[pc].addr)
    BY <1>2 DEF Target
  <2>5. Test[pc].want <=> session[Test[pc].addr]
    BY <1>5, <2>3, <2>4, LookSees
  <2> QED
    BY <1>1, <1>5, <2>5, LookSees
<1> QED
  BY <1>4, <1>5

\* The steps of the test itself, and those of the routers.
LEMMA TestKeeps ==
  ASSUME Inv, \/ ChangeLink \/ ChangeAddress \/ CheckLine \/ Look
              \/ \E a \in Addrs : Settle(a) \/ Flap(a)
              \/ UNCHANGED vars
  PROVE  Ended' /\ Own' /\ Sound'
<1>1. Ended /\ Own /\ Sound
  BY DEF Inv
<1>2. CASE CheckLine \/ Look
  <2>1. /\ phase = "test" /\ UNCHANGED <<reported, input, unconfigure, topology, router>>
        /\ \/ phase' = phase /\ testResult' = testResult
           \/ phase' = "cleanup" /\ testResult' = "fail"
    BY <1>2, CheckSteps
  <2>2. calm' = calm /\ fault' = fault /\ asked' = asked
    BY <2>1 DEF input
  <2>3. Ended' /\ Own'
    BY <1>1, <2>1, <2>2 DEF Ended, Own
  <2>4. Sound'
    <3>1. calm /\ fault = Healthy => phase' = "test"
      BY <1>2, <2>1, HealthyPasses
    <3> QED
      BY <1>1, <2>1, <2>2, <3>1 DEF Ended, Sound, Judged
  <2> QED
    BY <2>3, <2>4
<1>3. CASE ~(CheckLine \/ Look)
  <2>1. UNCHANGED <<phase, result, input, unconfigure, topology>> /\ (phase = "test" \/ pc' = pc)
    BY <1>3 DEF ChangeLink, ChangeAddress, At, Settle, Flap, vars
  <2>2. /\ calm' = calm /\ fault' = fault /\ asked' = asked
        /\ testResult' = testResult /\ reported' = reported /\ phase' = phase
        /\ unconfigure' = unconfigure /\ topology' = topology
    BY <2>1 DEF input, result
  <2>3. Ended'
    BY <1>1, <2>1, <2>2 DEF Ended
  <2>4. Own'
    BY <1>1, <2>2 DEF Own
  <2>5. Sound'
    BY <1>1, <2>2 DEF Sound, Judged
  <2> QED
    BY <2>3, <2>4, <2>5
<1> QED
  BY <1>2, <1>3

\* A check that is passed does not see the fault, and a change to the link is no check.
LEMMA PassedBlind ==
  ASSUME Inv, ChangeLink \/ ChangeAddress \/ CheckLine \/ Look, calm, pc' = pc + 1
  PROVE  Blind(pc)
<1>1. pc \in Nat /\ pc + 1 # pc /\ fault \in Faults
  BY DEF Inv, Typed, TypeOK
<1>2. \A a, want : LooksFor(pc, a, want) => /\ Test[pc].op = "verify" /\ Test[pc].addr = a
                                            /\ Test[pc].want = want
  BY DEF LooksFor, Verify
<1>3. CASE ChangeLink \/ ChangeAddress
  <2>1. Test[pc].op \in {"shut", "noshut", "remove", "restore"}
    BY <1>3 DEF ChangeLink, ChangeAddress, At
  <2>2. Test[pc].op # "line" /\ Test[pc].op # "verify"
    BY <2>1
  <2> QED
    BY <1>2, <2>2 DEF Blind
<1>4. CASE CheckLine
  <2>1. Test[pc].op = "line"
    BY <1>4 DEF CheckLine, At
  <2>2. Test[pc].op # "verify"
    BY <2>1
  <2>3. fault.kind # "line"
    BY <1>1, <1>4 DEF CheckLine, Conclude
  <2> QED
    BY <1>2, <2>2, <2>3 DEF Blind
<1>5. CASE Look
  <2>1. Test[pc].op = "verify"
    BY <1>5 DEF Look, At
  <2>2. Test[pc].op # "line"
    BY <2>1
  <2>3. Test[pc].want <=> Target(Test[pc].addr)
    BY <1>5, LookSees
  <2>4. removed = Plan[pc].removed
    BY DEF Inv, Typed, Planned
  <2>5. fault.kind = "stuckUp" => ~LooksFor(pc, fault.at, FALSE)
    <3>1. SUFFICES ASSUME fault.kind = "stuckUp", LooksFor(pc, fault.at, FALSE) PROVE FALSE
      OBVIOUS
    <3>2. Target(Test[pc].addr) = TRUE
      BY <1>2, <3>1 DEF Target
    <3> QED
      BY <1>2, <2>3, <3>1, <3>2
  <2>6. fault.kind = "stuckDown" => ~LooksFor(pc, fault.at, TRUE)
    <3>1. SUFFICES ASSUME fault.kind = "stuckDown", LooksFor(pc, fault.at, TRUE) PROVE FALSE
      OBVIOUS
    <3>2. Target(Test[pc].addr) = FALSE
      BY <1>2, <3>1 DEF Target
    <3> QED
      BY <1>2, <2>3, <3>1, <3>2
  <2>7. fault.kind = "drags" => ~(LooksFor(pc, fault.at, TRUE) /\ fault.by \in Plan[pc].removed)
    <3>1. SUFFICES ASSUME fault.kind = "drags", LooksFor(pc, fault.at, TRUE),
                          fault.by \in removed
                   PROVE FALSE
      BY <2>4
    <3>2. Target(Test[pc].addr) = (Configured(Test[pc].addr) /\ fault.by \notin removed)
      BY <1>2, <3>1 DEF Target
    <3> QED
      BY <1>2, <2>3, <3>1, <3>2
  <2> QED
    BY <2>2, <2>5, <2>6, <2>7 DEF Blind
<1> QED
  BY <1>3, <1>4, <1>5

\* A check that is passed keeps what is known of a lost session.
LEMMA PassedGone ==
  ASSUME Inv, ChangeLink \/ ChangeAddress \/ CheckLine \/ Look, calm, pc' = pc + 1,
         NEW k \in 1..pc, fault.kind = "lost", LooksFor(k, fault.at, FALSE),
         k # pc => Gone(k)
  PROVE  ~session[fault.at] /\ \A m \in k..pc : ~LooksFor(m, fault.at, TRUE)
<1>1. pc \in Nat /\ k \in Nat /\ k <= pc
  BY DEF Inv, Typed, TypeOK
<1>2. \A a, want : LooksFor(pc, a, want) => /\ Test[pc].op = "verify" /\ Test[pc].addr = a
                                            /\ Test[pc].want = want
  BY DEF LooksFor, Verify
<1>3. Test[pc].op = "verify" => Look
  <2>1. CASE ChangeLink \/ ChangeAddress
    <3>1. Test[pc].op \in {"shut", "noshut", "remove", "restore"}
      BY <2>1 DEF ChangeLink, ChangeAddress, At
    <3> QED
      BY <3>1
  <2>2. CASE CheckLine
    <3>1. Test[pc].op = "line"
      BY <2>2 DEF CheckLine, At
    <3> QED
      BY <3>1
  <2> QED
    BY <2>1, <2>2
<1>4. CASE k = pc
  <2>1. Test[pc].want = FALSE /\ Test[pc].addr = fault.at /\ Look
    BY <1>2, <1>3, <1>4
  <2>2. ~session[fault.at]
    BY <2>1, LookSees
  <2>3. ~LooksFor(pc, fault.at, TRUE)
    BY <1>2, <2>1
  <2>4. \A m \in k..pc : m = pc
    BY <1>1, <1>4
  <2> QED
    BY <2>2, <2>3, <2>4
<1>5. CASE k # pc
  <2>1. ~session[fault.at] /\ \A m \in k..(pc - 1) : ~LooksFor(m, fault.at, TRUE)
    BY <1>5 DEF Gone
  <2>2. ~LooksFor(pc, fault.at, TRUE)
    <3>1. SUFFICES ASSUME LooksFor(pc, fault.at, TRUE) PROVE FALSE
      OBVIOUS
    <3>2. Look /\ Test[pc].addr = fault.at /\ Test[pc].want = TRUE
      BY <1>2, <1>3, <3>1
    <3>3. session[fault.at]
      BY <3>2, LookSees
    <3> QED
      BY <2>1, <3>3
  <2>3. \A m \in k..pc : m = pc \/ m \in k..(pc - 1)
    BY <1>1
  <2> QED
    BY <2>1, <2>2, <2>3
<1> QED
  BY <1>4, <1>5

\* In a step to the next instruction the sessions stay as they are.
LEMMA ThoroughOn ==
  ASSUME Inv, ChangeLink \/ ChangeAddress \/ CheckLine \/ Look, pc' = pc + 1
  PROVE  Thorough'
<1>1. fault' = fault /\ calm' = calm /\ session' = session
  BY DEF ChangeLink, ChangeAddress, CheckLine, Look, input, router
<1>2. SUFFICES ASSUME calm, NEW k \in 1..pc PROVE Blind(k)' /\ Gone(k)'
  <2>1. (pc - 1)' = pc
    <3>1. pc \in Nat
      BY DEF Inv, Typed, TypeOK
    <3> QED
      BY <3>1
  <2> QED
    BY <1>1, <2>1 DEF Thorough
<1>3. k = pc \/ (Blind(k) /\ Gone(k))
  <2>1. k = pc \/ k \in 1..(pc - 1)
    BY DEF Inv, Typed, TypeOK
  <2> QED
    BY <1>2, <2>1 DEF Inv, Thorough
<1>4. Blind(k)
  BY <1>2, <1>3, PassedBlind
<1>5. Blind(k)'
  BY <1>1, <1>4 DEF Blind, LooksFor
<1>6. fault.kind = "lost" /\ LooksFor(k, fault.at, FALSE) =>
        ~session[fault.at] /\ \A m \in k..pc : ~LooksFor(m, fault.at, TRUE)
  BY <1>2, <1>3, PassedGone
<1>7. Gone(k)'
  <2>1. (pc - 1)' = pc
    <3>1. pc \in Nat
      BY DEF Inv, Typed, TypeOK
    <3> QED
      BY <3>1
  <2> QED
    BY <1>1, <1>6, <2>1 DEF Gone, LooksFor
<1> QED
  BY <1>5, <1>7

\* While the test stands still a lost session that is down stays down.
LEMMA ThoroughStill ==
  ASSUME Inv, [Next]_vars, pc' = pc
  PROVE  Thorough'
<1>1. fault' = fault /\ calm' = calm
  BY DEF Next, SetupFailsEarly, SetupRejects, ConfigureFails, Configure, ChangeLink, ChangeAddress,
         CheckLine, Look, TestEnds, Cleanup, CommonCleanup, Settle, Flap, vars, input
<1>2. \/ session' = session
      \/ \E a \in Addrs : Settle(a) \/ Flap(a)
  BY DEF Next, SetupFailsEarly, SetupRejects, ConfigureFails, Configure, ChangeLink, ChangeAddress,
         CheckLine, Look, TestEnds, Cleanup, CommonCleanup, vars, router
<1>3. ASSUME calm, fault.kind = "lost", ~session[fault.at], fault.at \in Addrs
      PROVE  ~session'[fault.at]
  <2>1. ASSUME NEW a \in Addrs, Settle(a) PROVE ~session'[fault.at]
    <3>1. session' = [session EXCEPT ![a] = Target(a)] /\ session \in [Addrs -> BOOLEAN]
      BY <2>1 DEF Settle, Inv, Typed, TypeOK
    <3>2. a = fault.at => Target(a) = FALSE
      BY <1>3 DEF Target
    <3> QED
      BY <1>3, <3>1, <3>2
  <2>2. \A a \in Addrs : ~Flap(a)
    BY <1>3 DEF Flap
  <2> QED
    BY <1>2, <1>3, <2>1, <2>2
<1>4. fault.kind = "lost" => fault.at \in Addrs
  BY DEF Inv, Typed, TypeOK, Faults, Healthy
<1>5. SUFFICES ASSUME calm, NEW k \in 1..(pc - 1) PROVE Blind(k)' /\ Gone(k)'
  BY <1>1 DEF Thorough
<1>6. Blind(k) /\ Gone(k)
  BY <1>5 DEF Inv, Thorough
<1>7. Blind(k)'
  BY <1>1, <1>6 DEF Blind, LooksFor
<1>8. Gone(k)'
  BY <1>1, <1>3, <1>4, <1>5, <1>6 DEF Gone, LooksFor
<1> QED
  BY <1>7, <1>8

LEMMA InvNext == Inv /\ [Next]_vars => Inv'
<1> SUFFICES ASSUME Inv, [Next]_vars PROVE Inv'
  OBVIOUS
<1>1. Typed'
  BY TypedNext DEF Inv
<1>2. Ended' /\ Own' /\ Sound'
  BY SectionsKeep, SectionsKeepOwn, TestKeeps DEF Next
<1>3. Thorough'
  <2>1. pc' = pc \/ (pc' = pc + 1 /\ (ChangeLink \/ ChangeAddress \/ CheckLine \/ Look))
    BY DEF Next, SetupFailsEarly, SetupRejects, ConfigureFails, Configure, ChangeLink, ChangeAddress,
           CheckLine, Look, Conclude, TestEnds, Cleanup, CommonCleanup, Settle, Flap, vars
  <2> QED
    BY <2>1, ThoroughOn, ThoroughStill
<1> QED
  BY <1>1, <1>2, <1>3 DEF Inv

\* The invariant that the three properties rest on.
THEOREM Invariance == Spec => []Inv
BY InitInv, InvNext, PTL DEF Spec

-----------------------------------------------------------------------------
(* What the script promises *)

\* PassRestores: whatever sessions do, a test that passes leaves the link as it was, since it
\* passes only at the end of Test, which leaves it so.
THEOREM RestoresAlways == Spec => []PassRestores
<1>1. Inv => PassRestores
  <2> SUFFICES ASSUME Inv, reported = "pass" PROVE shut = {} /\ removed = {}
    BY DEF PassRestores
  <2>1. pc = Len(Test) + 1
    <3>1. reported # "none"
      OBVIOUS
    <3>2. testResult = "pass" /\ phase \in {"common_cleanup", "over"}
      BY <3>1 DEF Inv, Ended
    <3> QED
      BY <3>2 DEF Inv, Ended
  <2>2. shut = Clear.shut /\ removed = Clear.removed
    BY <2>1, PlanSteps DEF Inv, Typed, Planned
  <2> QED
    BY <2>2 DEF Clear
<1> QED
  BY <1>1, Invariance, PTL

\* UnconfiguresItsOwn: a topology that the script configured is unconfigured if asked for,
\* however the sections before the cleanup went.
THEOREM UnconfiguresAlways == Spec => []UnconfiguresItsOwn
<1>1. Inv => UnconfiguresItsOwn
  BY DEF Inv, Own, UnconfiguresItsOwn
<1> QED
  BY <1>1, Invariance, PTL

\* Of every fault there is a check in Test that sees it.
LEMMA PassedIsHealthy ==
  ASSUME Inv, calm, pc = Len(Test) + 1
  PROVE  fault = Healthy
<1>1. Len(Test) \in Nat /\ pc - 1 = Len(Test) /\ fault \in Faults
  BY PlanSteps DEF Inv, Typed, TypeOK
<1>2. \A k \in 1..Len(Test) : Blind(k) /\ Gone(k)
  BY <1>1 DEF Inv, Thorough
<1>3. \A q \in Looks : \E k \in 1..Len(Test) : q = <<Test[k], Plan[k]>>
  BY PlanIs DEF IsPlan
<1>4. ASSUME fault.kind = "line" PROVE FALSE
  <2>1. <<IntsUp, Clear>> \in Looks
    BY DEF Looks
  <2>2. PICK k \in 1..Len(Test) : <<IntsUp, Clear>> = <<Test[k], Plan[k]>>
    BY <1>3, <2>1
  <2>3. Test[k].op = "line"
    BY <2>2 DEF IntsUp
  <2> QED
    BY <1>2, <1>4, <2>3 DEF Blind
<1>5. ASSUME fault.kind = "stuckUp", fault.at \in Addrs PROVE FALSE
  <2>1. <<Verify(fault.at, FALSE), With({"tail"})>> \in Looks
    BY <1>5 DEF Looks
  <2>2. PICK k \in 1..Len(Test) : <<Verify(fault.at, FALSE), With({"tail"})>> = <<Test[k], Plan[k]>>
    BY <1>3, <2>1
  <2> QED
    BY <1>2, <1>5, <2>2 DEF Blind, LooksFor
<1>6. ASSUME fault.kind = "stuckDown", fault.at \in Addrs PROVE FALSE
  <2>1. <<Verify(fault.at, TRUE), Clear>> \in Looks
    BY <1>6 DEF Looks
  <2>2. PICK k \in 1..Len(Test) : <<Verify(fault.at, TRUE), Clear>> = <<Test[k], Plan[k]>>
    BY <1>3, <2>1
  <2> QED
    BY <1>2, <1>6, <2>2 DEF Blind, LooksFor
<1>7. ASSUME fault.kind = "drags", fault.at \in Addrs, fault.by \in Addrs, fault.at # fault.by
      PROVE  FALSE
  <2> DEFINE p == <<fault.at, fault.by>>
  <2>1. p \in {x \in Addrs \X Addrs : x[1] # x[2]}
    BY <1>7
  <2>2. <<Verify(p[1], TRUE), Without(p[2])>> \in Looks
    BY <2>1 DEF Looks
  <2>3. PICK k \in 1..Len(Test) : <<Verify(p[1], TRUE), Without(p[2])>> = <<Test[k], Plan[k]>>
    BY <1>3, <2>2
  <2>4. Test[k] = Verify(fault.at, TRUE) /\ Plan[k] = Without(fault.by)
    BY <2>3
  <2>5. fault.by \in Plan[k].removed
    BY <2>4 DEF Without
  <2> QED
    BY <1>2, <1>7, <2>4, <2>5 DEF Blind, LooksFor
<1>8. ASSUME fault.kind = "lost", fault.at \in Addrs PROVE FALSE
  <2>1. PICK k \in 1..Len(Test), m \in 1..Len(Test) :
          k < m /\ Test[k] = Verify(fault.at, FALSE) /\ Test[m] = Verify(fault.at, TRUE)
    BY <1>8, TestRuns
  <2>2. m \in k..(pc - 1)
    BY <1>1, <2>1
  <2> QED
    BY <1>2, <1>8, <2>1, <2>2 DEF Gone, LooksFor
<1> QED
  BY <1>1, <1>4, <1>5, <1>6, <1>7, <1>8 DEF Faults

\* VerdictIsExact: for any number of addresses, a calm test passes the healthy routers
\* and no faulty ones.
THEOREM ExactVerdict == Spec => []VerdictIsExact
<1>1. Inv => VerdictIsExact
  <2> SUFFICES ASSUME Inv, reported # "none", calm
               PROVE  reported = "pass" <=> fault = Healthy
    BY DEF VerdictIsExact
  <2>1. reported = testResult /\ phase \in {"common_cleanup", "over"}
    BY DEF Inv, Ended
  <2>2. fault = Healthy => testResult = "pass"
    BY DEF Inv, Sound, Judged
  <2>3. testResult = "pass" => pc = Len(Test) + 1
    BY <2>1 DEF Inv, Ended
  <2> QED
    BY <2>1, <2>2, <2>3, PassedIsHealthy
<1> QED
  BY <1>1, Invariance, PTL

=============================================================================
