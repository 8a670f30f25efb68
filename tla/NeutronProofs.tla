--------------------------- MODULE NeutronProofs ---------------------------
(***************************************************************************)
(* Neutron for any number of networks, runs and faults.                    *)
(*                                                                         *)
(* The place of every command in its script is proved first (CreateIs,     *)
(* DeleteIs), then the types.  RefusedOnlyForVMs and LeavesOnlyNets are    *)
(* not inductive: they say what happens to one command, and that follows   *)
(* from everything the commands before it have made or taken away.  Fresh  *)
(* says what that is, loop by loop, and has one lemma for every command of *)
(* the two scripts.  Again says the same of a create_neutron.sh that is    *)
(* run over the topology of another; it begins where Fresh has come to the *)
(* end of the first, and CreateAgainKeepsFirst follows from it.            *)
(***************************************************************************)
EXTENDS Neutron, FiniteSetTheorems, TLAPS

-----------------------------------------------------------------------------
(* The scripts *)

CreateOps == {"net-create", "subnet-create", "router-create", "gateway-set",
              "interface-add", "boot", "floatingip-create", "associate"}
DeleteOps == {"disassociate", "floatingip-delete", "vm-delete", "interface-delete",
              "gateway-clear", "router-delete", "net-delete"}

Cmd(op, i) == [op |-> op, i |-> i]
Commands   == [op : CreateOps \cup DeleteOps, i : Nat]

\* What create_neutron.sh does as its k-th command.
CreateHas(c, k) ==
  \/ \E i \in 1..N : k = i /\ c = Cmd("net-create", i)
  \/ \E i \in 1..N : k = N + i /\ c = Cmd("subnet-create", i)
  \/ \E i \in 1..(N - 1) : k = 2 * N + i /\ c = Cmd("router-create", i)
  \/ \E i \in 1..(N - 1) : k = 3 * N - 1 + i /\ c = Cmd("gateway-set", i)
  \/ \E i \in 1..N : k = 4 * N - 2 + i /\ c = Cmd("interface-add", i)
  \/ \E i \in 1..N : k = 5 * N - 2 + i /\ c = Cmd("boot", i)
  \/ \E i \in 1..N : k = 6 * N - 3 + 2 * i /\ c = Cmd("floatingip-create", i)
  \/ \E i \in 1..N : k = 6 * N - 2 + 2 * i /\ c = Cmd("associate", i)

DeleteHas(c, k) ==
  \/ k = 1 /\ c = Cmd("disassociate", 0)
  \/ k = 2 /\ c = Cmd("floatingip-delete", 0)
  \/ \E i \in 1..N : k = 2 + i /\ c = Cmd("vm-delete", i)
  \/ \E i \in 1..N : k = N + 2 + i /\ c = Cmd("interface-delete", i)
  \/ \E i \in 1..(N - 1) : k = 2 * N + 2 + i /\ c = Cmd("gateway-clear", i)
  \/ \E i \in 1..(N - 1) : k = 3 * N + 1 + i /\ c = Cmd("router-delete", i)
  \/ \E i \in 1..N : k = 4 * N + i /\ c = Cmd("net-delete", i)

LEMMA ForIs ==
  ASSUME NEW n \in Nat, NEW op \in CreateOps \cup DeleteOps
  PROVE  /\ For(n, op) \in Seq(Commands) /\ Len(For(n, op)) = n
         /\ \A k \in 1..n : For(n, op)[k] = Cmd(op, k) /\ Cmd(op, k) \in Commands
<1>1. \A k \in 1..n : Cmd(op, k) \in Commands
  BY DEF Cmd, Commands
<1>2. For(n, op) = [k \in 1..n |-> Cmd(op, k)]
  BY DEF For, Cmd
<1> QED
  BY <1>1, <1>2

LEMMA ForBothIs ==
  ASSUME NEW n \in Nat, NEW a \in CreateOps \cup DeleteOps, NEW b \in CreateOps \cup DeleteOps
  PROVE  /\ ForBoth(n, a, b) \in Seq(Commands) /\ Len(ForBoth(n, a, b)) = 2 * n
         /\ \A k \in 1..(2 * n) : \E i \in 1..n :
              \/ k = 2 * i - 1 /\ ForBoth(n, a, b)[k] = Cmd(a, i)
              \/ k = 2 * i /\ ForBoth(n, a, b)[k] = Cmd(b, i)
<1> DEFINE F == [k \in 1..(2 * n) |-> Cmd(IF k % 2 = 1 THEN a ELSE b, (k + 1) \div 2)]
<1>1. ForBoth(n, a, b) = F
  BY DEF ForBoth, Cmd
<1>2. ASSUME NEW k \in 1..(2 * n)
      PROVE  \E i \in 1..n : \/ k = 2 * i - 1 /\ k % 2 = 1 /\ (k + 1) \div 2 = i
                             \/ k = 2 * i /\ k % 2 = 0 /\ (k + 1) \div 2 = i
  <2>1. (k + 1) \div 2 \in 1..n
    OBVIOUS
  <2>2. \/ k = 2 * ((k + 1) \div 2) - 1 /\ k % 2 = 1
        \/ k = 2 * ((k + 1) \div 2) /\ k % 2 = 0
    OBVIOUS
  <2> QED
    BY <2>1, <2>2
<1>3. ASSUME NEW k \in 1..(2 * n)
      PROVE  \E i \in 1..n : \/ k = 2 * i - 1 /\ F[k] = Cmd(a, i)
                             \/ k = 2 * i /\ F[k] = Cmd(b, i)
  BY <1>2
<1>4. \A k \in 1..(2 * n) : F[k] \in Commands
  BY <1>3 DEF Cmd, Commands
<1>5. 2 * n \in Nat
  OBVIOUS
<1> HIDE DEF F
<1>6. F \in Seq(Commands) /\ Len(F) = 2 * n
  <2>1. F = [k \in 1..(2 * n) |-> F[k]]
    BY DEF F
  <2> QED
    BY <1>4, <1>5, <2>1
<1> QED
  BY <1>1, <1>3, <1>6

\* A script of n commands goes on with another loop: G has what the k-th may be.
LEMMA GoesOn ==
  ASSUME NEW G, NEW p \in Seq(Commands), NEW q \in Seq(Commands), NEW n, NEW l,
         n = Len(p), l = Len(q),
         \A k \in 1..n : <<p[k], k>> \in G,
         \A k \in 1..l : <<q[k], n + k>> \in G
  PROVE  /\ p \o q \in Seq(Commands) /\ n + l = Len(p \o q)
         /\ \A k \in 1..(n + l) : <<(p \o q)[k], k>> \in G
<1>1. p \o q \in Seq(Commands) /\ Len(p \o q) = n + l /\ n \in Nat /\ l \in Nat
  OBVIOUS
<1>2. \A k \in 1..(n + l) : (p \o q)[k] = IF k <= n THEN p[k] ELSE q[k - n]
  OBVIOUS
<1>3. ASSUME NEW k \in 1..(n + l) PROVE <<(p \o q)[k], k>> \in G
  <2>1. CASE k <= n
    BY <1>1, <1>2, <2>1
  <2>2. CASE ~(k <= n)
    <3>1. k - n \in 1..l /\ n + (k - n) = k
      BY <1>1, <2>2
    <3> QED
      BY <1>2, <2>2, <3>1
  <2> QED
    BY <2>1, <2>2
<1> QED
  BY <1>1, <1>3

LEMMA CreateIs ==
  /\ Len(Create) = 8 * N - 2
  /\ \A k \in 1..Len(Create) : CreateHas(Create[k], k)
<1> USE NeutronAssumption
<1> DEFINE G == {x \in Commands \X Nat : CreateHas(x[1], x[2])}
           s1 == For(N, "net-create")
           s2 == For(N, "subnet-create")
           s3 == For(N - 1, "router-create")
           s4 == For(N - 1, "gateway-set")
           s5 == For(N, "interface-add")
           s6 == For(N, "boot")
           s7 == ForBoth(N, "floatingip-create", "associate")
           p1 == s1
           p2 == p1 \o s2
           p3 == p2 \o s3
           p4 == p3 \o s4
           p5 == p4 \o s5
           p6 == p5 \o s6
           p7 == p6 \o s7
           n1 == N
           n2 == n1 + N
           n3 == n2 + (N - 1)
           n4 == n3 + (N - 1)
           n5 == n4 + N
           n6 == n5 + N
           n7 == n6 + (2 * N)
<1>1. Create = p7
  BY DEF Create, Cmd
<1>2. N - 1 \in Nat /\ N \in Nat
  OBVIOUS
<1>3. /\ s1 \in Seq(Commands) /\ N = Len(s1)
      /\ \A k \in 1..N : s1[k] = Cmd("net-create", k) /\ Cmd("net-create", k) \in Commands
  BY <1>2, ForIs DEF CreateOps
<1>4. /\ s2 \in Seq(Commands) /\ N = Len(s2)
      /\ \A k \in 1..N : s2[k] = Cmd("subnet-create", k) /\ Cmd("subnet-create", k) \in Commands
  BY <1>2, ForIs DEF CreateOps
<1>5. /\ s3 \in Seq(Commands) /\ N - 1 = Len(s3)
      /\ \A k \in 1..(N - 1) :
              s3[k] = Cmd("router-create", k) /\ Cmd("router-create", k) \in Commands
  BY <1>2, ForIs DEF CreateOps
<1>6. /\ s4 \in Seq(Commands) /\ N - 1 = Len(s4)
      /\ \A k \in 1..(N - 1) : s4[k] = Cmd("gateway-set", k) /\ Cmd("gateway-set", k) \in Commands
  BY <1>2, ForIs DEF CreateOps
<1>7. /\ s5 \in Seq(Commands) /\ N = Len(s5)
      /\ \A k \in 1..N : s5[k] = Cmd("interface-add", k) /\ Cmd("interface-add", k) \in Commands
  BY <1>2, ForIs DEF CreateOps
<1>8. /\ s6 \in Seq(Commands) /\ N = Len(s6)
      /\ \A k \in 1..N : s6[k] = Cmd("boot", k) /\ Cmd("boot", k) \in Commands
  BY <1>2, ForIs DEF CreateOps
<1>9. /\ s7 \in Seq(Commands) /\ 2 * N = Len(s7)
      /\ \A k \in 1..(2 * N) : \E i \in 1..N :
           \/ k = 2 * i - 1 /\ s7[k] = Cmd("floatingip-create", i)
           \/ k = 2 * i /\ s7[k] = Cmd("associate", i)
  <2>1. "floatingip-create" \in CreateOps \cup DeleteOps /\ "associate" \in CreateOps \cup DeleteOps
    BY DEF CreateOps
  <2>2. \A n \in Nat : \A a, b \in CreateOps \cup DeleteOps :
          /\ ForBoth(n, a, b) \in Seq(Commands) /\ Len(ForBoth(n, a, b)) = 2 * n
          /\ \A k \in 1..(2 * n) : \E i \in 1..n :
               \/ k = 2 * i - 1 /\ ForBoth(n, a, b)[k] = Cmd(a, i)
               \/ k = 2 * i /\ ForBoth(n, a, b)[k] = Cmd(b, i)
    BY ForBothIs
  <2> QED
    BY <1>2, <2>1, <2>2
<1> HIDE DEF s1, s2, s3, s4, s5, s6, s7, p1, p2, p3, p4, p5, p6, p7
<1>10. \A c, k : k \in Nat /\ c \in Commands /\ CreateHas(c, k) => <<c, k>> \in G
  OBVIOUS
<1>11. \A c, k : <<c, k>> \in G => CreateHas(c, k)
  OBVIOUS
<1> HIDE DEF G
<1>12. ASSUME NEW k \in 1..N PROVE <<s1[k], k>> \in G
  <2>1. k = k /\ k \in Nat
    OBVIOUS
  <2>2. CreateHas(Cmd("net-create", k), k)
    BY DEF CreateHas
  <2> QED
    BY <1>3, <1>10, <2>1, <2>2
<1>13. ASSUME NEW k \in 1..N PROVE <<s2[k], n1 + k>> \in G
  <2>1. n1 + k = N + k /\ n1 + k \in Nat
    OBVIOUS
  <2>2. CreateHas(Cmd("subnet-create", k), N + k)
    BY DEF CreateHas
  <2> QED
    BY <1>4, <1>10, <2>1, <2>2
<1>14. ASSUME NEW k \in 1..(N - 1) PROVE <<s3[k], n2 + k>> \in G
  <2>1. n2 + k = 2 * N + k /\ n2 + k \in Nat
    OBVIOUS
  <2>2. CreateHas(Cmd("router-create", k), 2 * N + k)
    BY DEF CreateHas
  <2> QED
    BY <1>5, <1>10, <2>1, <2>2
<1>15. ASSUME NEW k \in 1..(N - 1) PROVE <<s4[k], n3 + k>> \in G
  <2>1. n3 + k = 3 * N - 1 + k /\ n3 + k \in Nat
    OBVIOUS
  <2>2. CreateHas(Cmd("gateway-set", k), 3 * N - 1 + k)
    BY DEF CreateHas
  <2> QED
    BY <1>6, <1>10, <2>1, <2>2
<1>16. ASSUME NEW k \in 1..N PROVE <<s5[k], n4 + k>> \in G
  <2>1. n4 + k = 4 * N - 2 + k /\ n4 + k \in Nat
    OBVIOUS
  <2>2. CreateHas(Cmd("interface-add", k), 4 * N - 2 + k)
    BY DEF CreateHas
  <2> QED
    BY <1>7, <1>10, <2>1, <2>2
<1>17. ASSUME NEW k \in 1..N PROVE <<s6[k], n5 + k>> \in G
  <2>1. n5 + k = 5 * N - 2 + k /\ n5 + k \in Nat
    OBVIOUS
  <2>2. CreateHas(Cmd("boot", k), 5 * N - 2 + k)
    BY DEF CreateHas
  <2> QED
    BY <1>8, <1>10, <2>1, <2>2
<1>18. ASSUME NEW k \in 1..(2 * N) PROVE <<s7[k], n6 + k>> \in G
  <2>1. PICK i \in 1..N : \/ k = 2 * i - 1 /\ s7[k] = Cmd("floatingip-create", i)
                          \/ k = 2 * i /\ s7[k] = Cmd("associate", i)
    BY <1>9
  <2>2. CASE k = 2 * i - 1 /\ s7[k] = Cmd("floatingip-create", i)
    <3>1. n6 + k = 6 * N - 3 + 2 * i /\ n6 + k \in Nat
      BY <2>2
    <3>2. CreateHas(Cmd("floatingip-create", i), 6 * N - 3 + 2 * i)
      BY DEF CreateHas
    <3>3. Cmd("floatingip-create", i) \in Commands
      BY DEF Cmd, Commands, CreateOps
    <3> QED
      BY <1>10, <2>2, <3>1, <3>2, <3>3
  <2>3. CASE k = 2 * i /\ s7[k] = Cmd("associate", i)
    <3>1. n6 + k = 6 * N - 2 + 2 * i /\ n6 + k \in Nat
      BY <2>3
    <3>2. CreateHas(Cmd("associate", i), 6 * N - 2 + 2 * i)
      BY DEF CreateHas
    <3>3. Cmd("associate", i) \in Commands
      BY DEF Cmd, Commands, CreateOps
    <3> QED
      BY <1>10, <2>3, <3>1, <3>2, <3>3
  <2> QED
    BY <2>1, <2>2, <2>3
<1> DEFINE l == 2 * N
<1>19. l = Len(s7) /\ (\A k \in 1..l : <<s7[k], n6 + k>> \in G) /\ n7 = n6 + l
  BY <1>9, <1>18
<1>20. s7 \in Seq(Commands)
  BY <1>9
<1> HIDE DEF l
<1> HIDE DEF n1, n2, n3, n4, n5, n6, n7
<1>21. p1 \in Seq(Commands) /\ n1 = Len(p1) /\ \A k \in 1..n1 : <<p1[k], k>> \in G
  BY <1>3, <1>12 DEF p1, n1
<1>22. p2 \in Seq(Commands) /\ n2 = Len(p2) /\ \A k \in 1..n2 : <<p2[k], k>> \in G
  BY <1>4, <1>13, <1>21, GoesOn DEF p2, n2
<1>23. p3 \in Seq(Commands) /\ n3 = Len(p3) /\ \A k \in 1..n3 : <<p3[k], k>> \in G
  BY <1>5, <1>14, <1>22, GoesOn DEF p3, n3
<1>24. p4 \in Seq(Commands) /\ n4 = Len(p4) /\ \A k \in 1..n4 : <<p4[k], k>> \in G
  BY <1>6, <1>15, <1>23, GoesOn DEF p4, n4
<1>25. p5 \in Seq(Commands) /\ n5 = Len(p5) /\ \A k \in 1..n5 : <<p5[k], k>> \in G
  BY <1>7, <1>16, <1>24, GoesOn DEF p5, n5
<1>26. p6 \in Seq(Commands) /\ n6 = Len(p6) /\ \A k \in 1..n6 : <<p6[k], k>> \in G
  BY <1>8, <1>17, <1>25, GoesOn DEF p6, n6
<1>27. p7 \in Seq(Commands) /\ n7 = Len(p7) /\ \A k \in 1..n7 : <<p7[k], k>> \in G
  BY <1>19, <1>20, <1>26, GoesOn DEF p7
<1>28. n7 = 8 * N - 2
  BY DEF n1, n2, n3, n4, n5, n6, n7
<1> QED
  BY <1>1, <1>11, <1>27, <1>28

LEMMA DeleteIs ==
  /\ Len(Delete) = 5 * N
  /\ \A k \in 1..Len(Delete) : DeleteHas(Delete[k], k)
<1> USE NeutronAssumption
<1> DEFINE G == {x \in Commands \X Nat : DeleteHas(x[1], x[2])}
           s1 == <<Cmd("disassociate", 0), Cmd("floatingip-delete", 0)>>
           s2 == For(N, "vm-delete")
           s3 == For(N, "interface-delete")
           s4 == For(N - 1, "gateway-clear")
           s5 == For(N - 1, "router-delete")
           s6 == For(N, "net-delete")
           p1 == s1
           p2 == p1 \o s2
           p3 == p2 \o s3
           p4 == p3 \o s4
           p5 == p4 \o s5
           p6 == p5 \o s6
           n1 == 2
           n2 == n1 + N
           n3 == n2 + N
           n4 == n3 + (N - 1)
           n5 == n4 + (N - 1)
           n6 == n5 + N
<1>1. Delete = p6
  BY DEF Delete, Cmd
<1>2. N - 1 \in Nat /\ N \in Nat
  OBVIOUS
<1>3. /\ s1 \in Seq(Commands) /\ 2 = Len(s1)
      /\ s1[1] = Cmd("disassociate", 0) /\ s1[2] = Cmd("floatingip-delete", 0)
      /\ Cmd("disassociate", 0) \in Commands /\ Cmd("floatingip-delete", 0) \in Commands
  BY DEF Cmd, Commands, DeleteOps
<1>4. /\ s2 \in Seq(Commands) /\ N = Len(s2)
      /\ \A k \in 1..N : s2[k] = Cmd("vm-delete", k) /\ Cmd("vm-delete", k) \in Commands
  BY <1>2, ForIs DEF DeleteOps
<1>5. /\ s3 \in Seq(Commands) /\ N = Len(s3)
      /\ \A k \in 1..N :
              s3[k] = Cmd("interface-delete", k) /\ Cmd("interface-delete", k) \in Commands
  BY <1>2, ForIs DEF DeleteOps
<1>6. /\ s4 \in Seq(Commands) /\ N - 1 = Len(s4)
      /\ \A k \in 1..(N - 1) :
              s4[k] = Cmd("gateway-clear", k) /\ Cmd("gateway-clear", k) \in Commands
  BY <1>2, ForIs DEF DeleteOps
<1>7. /\ s5 \in Seq(Commands) /\ N - 1 = Len(s5)
      /\ \A k \in 1..(N - 1) :
              s5[k] = Cmd("router-delete", k) /\ Cmd("router-delete", k) \in Commands
  BY <1>2, ForIs DEF DeleteOps
<1>8. /\ s6 \in Seq(Commands) /\ N = Len(s6)
      /\ \A k \in 1..N : s6[k] = Cmd("net-delete", k) /\ Cmd("net-delete", k) \in Commands
  BY <1>2, ForIs DEF DeleteOps
<1> HIDE DEF s1, s2, s3, s4, s5, s6, p1, p2, p3, p4, p5, p6
<1>9. \A c, k : k \in Nat /\ c \in Commands /\ DeleteHas(c, k) => <<c, k>> \in G
  OBVIOUS
<1>10. \A c, k : <<c, k>> \in G => DeleteHas(c, k)
  OBVIOUS
<1> HIDE DEF G
<1>11. ASSUME NEW k \in 1..2 PROVE <<s1[k], k>> \in G
  <2>1. DeleteHas(Cmd("disassociate", 0), 1) /\ DeleteHas(Cmd("floatingip-delete", 0), 2)
    BY DEF DeleteHas
  <2>2. k = 1 \/ k = 2
    OBVIOUS
  <2> QED
    BY <1>3, <1>9, <2>1, <2>2
<1>12. ASSUME NEW k \in 1..N PROVE <<s2[k], n1 + k>> \in G
  <2>1. n1 + k = 2 + k /\ n1 + k \in Nat
    OBVIOUS
  <2>2. DeleteHas(Cmd("vm-delete", k), 2 + k)
    BY DEF DeleteHas
  <2> QED
    BY <1>4, <1>9, <2>1, <2>2
<1>13. ASSUME NEW k \in 1..N PROVE <<s3[k], n2 + k>> \in G
  <2>1. n2 + k = N + 2 + k /\ n2 + k \in Nat
    OBVIOUS
  <2>2. DeleteHas(Cmd("interface-delete", k), N + 2 + k)
    BY DEF DeleteHas
  <2> QED
    BY <1>5, <1>9, <2>1, <2>2
<1>14. ASSUME NEW k \in 1..(N - 1) PROVE <<s4[k], n3 + k>> \in G
  <2>1. n3 + k = 2 * N + 2 + k /\ n3 + k \in Nat
    OBVIOUS
  <2>2. DeleteHas(Cmd("gateway-clear", k), 2 * N + 2 + k)
    BY DEF DeleteHas
  <2> QED
    BY <1>6, <1>9, <2>1, <2>2
<1>15. ASSUME NEW k \in 1..(N - 1) PROVE <<s5[k], n4 + k>> \in G
  <2>1. n4 + k = 3 * N + 1 + k /\ n4 + k \in Nat
    OBVIOUS
  <2>2. DeleteHas(Cmd("router-delete", k), 3 * N + 1 + k)
    BY DEF DeleteHas
  <2> QED
    BY <1>7, <1>9, <2>1, <2>2
<1>16. ASSUME NEW k \in 1..N PROVE <<s6[k], n5 + k>> \in G
  <2>1. n5 + k = 4 * N + k /\ n5 + k \in Nat
    OBVIOUS
  <2>2. DeleteHas(Cmd("net-delete", k), 4 * N + k)
    BY DEF DeleteHas
  <2> QED
    BY <1>8, <1>9, <2>1, <2>2
<1> HIDE DEF n1, n2, n3, n4, n5, n6
<1>17. p1 \in Seq(Commands) /\ n1 = Len(p1) /\ \A k \in 1..n1 : <<p1[k], k>> \in G
  BY <1>3, <1>11 DEF p1, n1
<1>18. p2 \in Seq(Commands) /\ n2 = Len(p2) /\ \A k \in 1..n2 : <<p2[k], k>> \in G
  BY <1>4, <1>12, <1>17, GoesOn DEF p2, n2
<1>19. p3 \in Seq(Commands) /\ n3 = Len(p3) /\ \A k \in 1..n3 : <<p3[k], k>> \in G
  BY <1>5, <1>13, <1>18, GoesOn DEF p3, n3
<1>20. p4 \in Seq(Commands) /\ n4 = Len(p4) /\ \A k \in 1..n4 : <<p4[k], k>> \in G
  BY <1>6, <1>14, <1>19, GoesOn DEF p4, n4
<1>21. p5 \in Seq(Commands) /\ n5 = Len(p5) /\ \A k \in 1..n5 : <<p5[k], k>> \in G
  BY <1>7, <1>15, <1>20, GoesOn DEF p5, n5
<1>22. p6 \in Seq(Commands) /\ n6 = Len(p6) /\ \A k \in 1..n6 : <<p6[k], k>> \in G
  BY <1>8, <1>16, <1>21, GoesOn DEF p6, n6
<1>23. n6 = 5 * N
  BY DEF n1, n2, n3, n4, n5, n6
<1> QED
  BY <1>1, <1>10, <1>22, <1>23

-----------------------------------------------------------------------------
(* Names *)

LEMMA UniqueIs ==
  ASSUME NEW S, NEW i, Unique(S, i)
  PROVE  The(S, i) \in S /\ The(S, i)[1] = i
<1>1. Named(S, i) # {}
  BY FS_EmptySet DEF Unique
<1>2. The(S, i) \in Named(S, i)
  BY <1>1 DEF The
<1> QED
  BY <1>2 DEF Named

LEMMA OnlyOne ==
  ASSUME NEW S, NEW i, NEW x \in S, x[1] = i, \A o \in S : o[1] = i => o = x
  PROVE  Unique(S, i) /\ The(S, i) = x
<1>1. Named(S, i) = {x}
  BY DEF Named
<1>2. Cardinality({x}) = 1
  BY FS_Singleton
<1> QED
  BY <1>1, <1>2 DEF Unique, The

-----------------------------------------------------------------------------
(* Types *)

Typed == TypeOK /\ (script = "create" => creates \in 1..MaxCreates)

LEMMA FieldTypes ==
  ASSUME cloud \in Cloud
  PROVE  /\ cloud.nets \subseteq Ids /\ cloud.subnets \subseteq Ids
         /\ cloud.routers \subseteq Ids \cup {External}
         /\ cloud.gateways \subseteq Ids \cup {External}
         /\ cloud.ifaces \subseteq Ids \X (Ids \cup {External})
         /\ cloud.vm \in [Ids -> VMStates] /\ cloud.on \in [Ids -> Ids \cup {NoVM}]
         /\ cloud.fips \subseteq [id : Ids, vm : Ids \cup {NoVM}]
BY DEF Cloud

LEMMA FieldUpdates ==
  ASSUME cloud \in Cloud
  PROVE  /\ \A x \in SUBSET Ids : [cloud EXCEPT !.nets = x] \in Cloud
         /\ \A x \in SUBSET Ids : [cloud EXCEPT !.subnets = x] \in Cloud
         /\ \A x \in SUBSET (Ids \cup {External}) : [cloud EXCEPT !.routers = x] \in Cloud
         /\ \A x \in SUBSET (Ids \cup {External}) : [cloud EXCEPT !.gateways = x] \in Cloud
         /\ \A x \in SUBSET (Ids \X (Ids \cup {External})) : [cloud EXCEPT !.ifaces = x] \in Cloud
         /\ \A x \in SUBSET [id : Ids, vm : Ids \cup {NoVM}] : [cloud EXCEPT !.fips = x] \in Cloud
         /\ \A o \in Ids, v \in VMStates : [cloud EXCEPT !.vm[o] = v] \in Cloud
BY DEF Cloud

LEMMA CommandIs ==
  ASSUME Typed, Running, NEW c, c = Script[pc]
  PROVE  /\ IF script = "create" THEN CreateHas(c, pc) ELSE DeleteHas(c, pc)
         /\ pc \in Nat /\ pc + 1 \in 1..(Len(Script) + 1)
<1>1. Len(Script) \in Nat
  BY CreateIs, DeleteIs, NeutronAssumption DEF Script
<1>2. pc \in 1..Len(Script)
  BY <1>1 DEF Typed, TypeOK, Running
<1> QED
  BY <1>1, <1>2, CreateIs, DeleteIs DEF Script

LEMMA CommandTypes ==
  ASSUME Typed, NEW c, IF script = "create" THEN CreateHas(c, pc) ELSE DeleteHas(c, pc),
         Accepted(c.op, c.i)
  PROVE  After(c.op, c.i) \in Cloud
<1> USE NeutronAssumption
<1>1. cloud \in Cloud
  BY DEF Typed, TypeOK
<1> DEFINE i == c.i
           new == <<i, creates>>
<1>2. ASSUME script = "create", i \in 1..N PROVE new \in Ids
  BY <1>2 DEF Typed, Ids
<1>3. CASE c.op = "net-create"
  <2>1. new \in Ids
    BY <1>2, <1>3 DEF CreateHas, DeleteHas, Cmd
  <2>2. cloud.nets \cup {new} \in SUBSET Ids
    BY <1>1, <2>1, FieldTypes
  <2> QED
    BY <1>1, <1>3, <2>2, FieldUpdates DEF After
<1>4. CASE c.op = "subnet-create"
  <2>1. Net(i) \in cloud.nets
    BY <1>4, UniqueIs DEF Accepted, Net
  <2>2. cloud.subnets \cup {Net(i)} \in SUBSET Ids
    BY <1>1, <2>1, FieldTypes
  <2> QED
    BY <1>1, <1>4, <2>2, FieldUpdates DEF After
<1>5. CASE c.op = "router-create"
  <2>1. new \in Ids
    BY <1>2, <1>5 DEF CreateHas, DeleteHas, Cmd
  <2>2. cloud.routers \cup {new} \in SUBSET (Ids \cup {External})
    BY <1>1, <2>1, FieldTypes
  <2> QED
    BY <1>1, <1>5, <2>2, FieldUpdates DEF After
<1>6. CASE c.op = "gateway-set"
  <2>1. Router(i) \in cloud.routers
    BY <1>6, UniqueIs DEF Accepted, Router
  <2>2. cloud.gateways \cup {Router(i)} \in SUBSET (Ids \cup {External})
    BY <1>1, <2>1, FieldTypes
  <2> QED
    BY <1>1, <1>6, <2>2, FieldUpdates DEF After
<1>7. CASE c.op = "interface-add"
  <2>1. The(cloud.subnets, i) \in cloud.subnets /\ Router(i) \in cloud.routers
    BY <1>7, UniqueIs DEF Accepted, Router
  <2>2. cloud.ifaces \cup {<<The(cloud.subnets, i), Router(i)>>}
          \in SUBSET (Ids \X (Ids \cup {External}))
    BY <1>1, <2>1, FieldTypes
  <2> QED
    BY <1>1, <1>7, <2>2, FieldUpdates DEF After
<1>8. CASE c.op = "boot"
  <2>1. new \in Ids
    BY <1>2, <1>8 DEF CreateHas, DeleteHas, Cmd
  <2>2. Net(i) \in cloud.nets
    BY <1>8, UniqueIs DEF Accepted, Net
  <2>3. Net(i) \in Ids
    BY <1>1, <2>2, FieldTypes
  <2>4. [cloud EXCEPT !.vm[new] = "build", !.on[new] = Net(i)] \in Cloud
    BY <1>1, <2>1, <2>3 DEF Cloud, VMStates
  <2> QED
    BY <1>8, <2>4 DEF After
<1>9. CASE c.op = "floatingip-create"
  <2>1. new \in Ids
    BY <1>2, <1>9 DEF CreateHas, DeleteHas, Cmd
  <2>2. cloud.fips \cup {[id |-> new, vm |-> NoVM]} \in SUBSET [id : Ids, vm : Ids \cup {NoVM}]
    BY <1>1, <2>1, FieldTypes
  <2> QED
    BY <1>1, <1>9, <2>2, FieldUpdates DEF After
<1>10. CASE c.op = "associate"
  <2>1. The(VMs, i) \in Ids
    BY <1>10, UniqueIs DEF Accepted, VMs
  <2>2. \A f \in cloud.fips : [f EXCEPT !.vm = The(VMs, i)] \in [id : Ids, vm : Ids \cup {NoVM}]
    BY <1>1, <2>1, FieldTypes
  <2>3. {IF f.id = new THEN [f EXCEPT !.vm = The(VMs, i)] ELSE f : f \in cloud.fips}
          \in SUBSET [id : Ids, vm : Ids \cup {NoVM}]
    BY <1>1, <2>2, FieldTypes
  <2> QED
    BY <1>1, <1>10, <2>3, FieldUpdates DEF After
<1>11. CASE c.op = "disassociate"
  <2>1. {Free(f) : f \in cloud.fips} \in SUBSET [id : Ids, vm : Ids \cup {NoVM}]
    BY <1>1, FieldTypes DEF Free
  <2> QED
    BY <1>1, <1>11, <2>1, FieldUpdates DEF After
<1>12. CASE c.op = "floatingip-delete"
  BY <1>1, <1>12, FieldUpdates DEF After
<1>13. CASE c.op = "vm-delete"
  <2>1. The(VMs, i) \in Ids /\ "deleting" \in VMStates
    BY <1>13, UniqueIs DEF Accepted, VMs, VMStates
  <2> QED
    BY <1>1, <1>13, <2>1, FieldUpdates DEF After
<1>14. CASE c.op = "interface-delete"
  <2>1. cloud.ifaces \ {<<The(cloud.subnets, i), Router(i)>>}
          \in SUBSET (Ids \X (Ids \cup {External}))
    BY <1>1, FieldTypes
  <2> QED
    BY <1>1, <1>14, <2>1, FieldUpdates DEF After
<1>15. CASE c.op = "gateway-clear"
  <2>1. cloud.gateways \ {Router(i)} \in SUBSET (Ids \cup {External})
    BY <1>1, FieldTypes
  <2> QED
    BY <1>1, <1>15, <2>1, FieldUpdates DEF After
<1>16. CASE c.op = "router-delete"
  <2>1. /\ cloud.routers \ {Router(i)} \in SUBSET (Ids \cup {External})
        /\ cloud.gateways \ {Router(i)} \in SUBSET (Ids \cup {External})
    BY <1>1, FieldTypes
  <2>2. \A x, y \in SUBSET (Ids \cup {External}) :
          [cloud EXCEPT !.routers = x, !.gateways = y] \in Cloud
    BY <1>1 DEF Cloud
  <2> QED
    BY <1>16, <2>1, <2>2 DEF After
<1>17. CASE c.op = "net-delete"
  <2>1. /\ cloud.nets \ {Net(i)} \in SUBSET Ids
        /\ cloud.subnets \ {Net(i)} \in SUBSET Ids
    BY <1>1, FieldTypes
  <2>2. \A x, y \in SUBSET Ids : [cloud EXCEPT !.nets = x, !.subnets = y] \in Cloud
    BY <1>1 DEF Cloud
  <2> QED
    BY <1>17, <2>1, <2>2 DEF After
<1> QED
  BY <1>3, <1>4, <1>5, <1>6, <1>7, <1>8, <1>9, <1>10, <1>11, <1>12, <1>13, <1>14, <1>15, <1>16,
     <1>17 DEF CreateHas, DeleteHas, Cmd

LEMMA ScriptLengths ==
  /\ Len(Create) \in Nat \ {0} /\ Len(Delete) \in Nat \ {0}
  /\ Len(Script) = IF script = "create" THEN 8 * N - 2 ELSE 5 * N
BY CreateIs, DeleteIs, NeutronAssumption DEF Script

\* nova's work on a VM.
LEMMA NovaTypes ==
  ASSUME Typed, NEW o \in Ids, Boots(o) \/ Errs(o) \/ Gone(o)
  PROVE  cloud' \in Cloud /\ UNCHANGED <<script, pc, creates, faults, fresh, again>>
<1>1. cloud \in Cloud
  BY DEF Typed, TypeOK
<1>2. CASE Boots(o) \/ Errs(o)
  BY <1>1, <1>2, FieldUpdates DEF Boots, Errs, VMStates
<1>3. CASE Gone(o)
  <2> DEFINE F == {IF f.vm = o THEN Free(f) ELSE f : f \in cloud.fips}
  <2>1. F \in SUBSET [id : Ids, vm : Ids \cup {NoVM}]
    BY <1>1, FieldTypes DEF Free
  <2>2. cloud' = [cloud EXCEPT !.vm[o] = "none", !.on[o] = NoVM, !.fips = F]
    BY <1>3 DEF Gone
  <2> HIDE DEF F
  <2>3. [cloud EXCEPT !.vm[o] = "none", !.on[o] = NoVM, !.fips = F] \in Cloud
    BY <1>1, <2>1 DEF Cloud, VMStates
  <2> QED
    BY <1>3, <2>2, <2>3 DEF Gone
<1> QED
  BY <1>2, <1>3

LEMMA FaultTypes ==
  ASSUME Typed, CommandFails
  PROVE  cloud' \in Cloud
<1>1. cloud \in Cloud
  BY DEF Typed, TypeOK
<1>2. CASE cloud' = cloud
  BY <1>1, <1>2
<1>3. ASSUME NEW kept \in SUBSET cloud.fips,
             cloud' = [cloud EXCEPT !.fips = kept \cup {Free(f) : f \in @ \ kept}]
      PROVE  cloud' \in Cloud
  <2>1. kept \cup {Free(f) : f \in cloud.fips \ kept} \in SUBSET [id : Ids, vm : Ids \cup {NoVM}]
    BY <1>1, FieldTypes DEF Free
  <2> QED
    BY <1>1, <1>3, <2>1, FieldUpdates
<1>4. ASSUME NEW kept \in SUBSET cloud.fips, cloud' = [cloud EXCEPT !.fips = kept]
      PROVE  cloud' \in Cloud
  <2>1. kept \in SUBSET [id : Ids, vm : Ids \cup {NoVM}]
    BY <1>1, <1>4, FieldTypes
  <2> QED
    BY <1>1, <1>4, <2>1, FieldUpdates
<1> QED
  BY <1>2, <1>3, <1>4 DEF CommandFails

\* For any number of networks, runs and faults: Typed always holds, so a script that runs
\* is at one of its commands, and create_neutron.sh only runs once it was started.
THEOREM TypedAlways == Spec => []Typed
<1> USE NeutronAssumption
<1>1. Init => Typed
  <2> SUFFICES ASSUME Init PROVE Typed
    OBVIOUS
  <2>1. Nothing \in Cloud
    BY DEF Nothing, Cloud, VMStates
  <2>2. pc \in 1..(Len(Script) + 1) /\ script = "delete"
    BY ScriptLengths DEF Init, Script
  <2>3. creates \in 0..MaxCreates /\ faults \in 0..MaxFaults
    BY DEF Init
  <2>4. fresh \in BOOLEAN /\ again \in BOOLEAN
    BY Zenon DEF Init
  <2> QED
    BY <2>1, <2>2, <2>3, <2>4 DEF Init, Typed, TypeOK
<1>2. Typed /\ [Next]_vars => Typed'
  <2> SUFFICES ASSUME Typed, [Next]_vars PROVE Typed'
    OBVIOUS
  <2>1. CASE RunCreate
    <3>1. /\ script' = "create" /\ pc' = 1 /\ creates' = creates + 1 /\ creates < MaxCreates
          /\ UNCHANGED <<cloud, faults>>
      BY <2>1 DEF RunCreate
    <3>2. fresh' \in BOOLEAN /\ again' \in BOOLEAN
      BY <2>1, Zenon DEF RunCreate
    <3>3. Len(Script)' \in Nat
      BY <3>1, ScriptLengths DEF Script
    <3> QED
      BY <3>1, <3>2, <3>3 DEF Typed, TypeOK
  <2>2. CASE RunDelete
    <3>1. script' = "delete" /\ pc' = 1 /\ UNCHANGED <<cloud, creates, faults>>
      BY <2>2 DEF RunDelete
    <3>2. fresh' \in BOOLEAN /\ again' \in BOOLEAN
      BY <2>2, Zenon DEF RunDelete
    <3>3. Len(Script)' \in Nat
      BY <3>1, ScriptLengths DEF Script
    <3> QED
      BY <3>1, <3>2, <3>3 DEF Typed, TypeOK
  <2>3. CASE Command
    <3>1. PICK c : c = Script[pc]
      OBVIOUS
    <3>2. /\ Running /\ pc' = pc + 1 /\ UNCHANGED <<script, creates, faults, fresh, again>>
          /\ cloud' = IF Accepted(c.op, c.i) THEN After(c.op, c.i) ELSE cloud
      BY <2>3, <3>1 DEF Command
    <3>3. pc + 1 \in 1..(Len(Script) + 1)
      BY <3>1, <3>2, CommandIs
    <3>4. cloud' \in Cloud
      BY <3>1, <3>2, CommandIs, CommandTypes DEF Typed, TypeOK
    <3>5. Script' = Script
      BY <3>2 DEF Script
    <3> QED
      BY <3>2, <3>3, <3>4, <3>5 DEF Typed, TypeOK
  <2>4. CASE CommandFails
    <3>1. /\ Running /\ pc' = pc + 1 /\ faults' = faults + 1 /\ faults < MaxFaults
          /\ fresh' = FALSE /\ again' = FALSE /\ UNCHANGED <<script, creates>>
      BY <2>4 DEF CommandFails
    <3>2. pc + 1 \in 1..(Len(Script) + 1)
      BY <3>1, CommandIs
    <3>3. Script' = Script
      BY <3>1 DEF Script
    <3>4. fresh' \in BOOLEAN /\ again' \in BOOLEAN
      BY <3>1, Zenon
    <3> QED
      BY <2>4, <3>1, <3>2, <3>3, <3>4, FaultTypes DEF Typed, TypeOK
  <2>5. CASE Interrupt
    <3>1. /\ pc' = Len(Script) + 1 /\ faults' = faults + 1 /\ faults < MaxFaults
          /\ fresh' = FALSE /\ again' = FALSE /\ UNCHANGED <<script, cloud, creates>>
      BY <2>5 DEF Interrupt
    <3>2. Script' = Script /\ Len(Script) \in Nat
      BY <3>1, ScriptLengths DEF Script
    <3>3. fresh' \in BOOLEAN /\ again' \in BOOLEAN
      BY <3>1, Zenon
    <3> QED
      BY <3>1, <3>2, <3>3 DEF Typed, TypeOK
  <2>6. ASSUME NEW o \in Ids, Boots(o) \/ Errs(o) \/ Gone(o)
        PROVE  Typed'
    <3>1. Script' = Script
      BY <2>6, NovaTypes DEF Script
    <3> QED
      BY <2>6, <3>1, NovaTypes DEF Typed, TypeOK
  <2>7. CASE UNCHANGED vars
    <3>1. Script' = Script
      BY <2>7 DEF vars, Script
    <3> QED
      BY <2>7, <3>1 DEF vars, Typed, TypeOK
  <2> QED
    BY <2>1, <2>2, <2>3, <2>4, <2>5, <2>6, <2>7 DEF Next
<1> QED
  BY <1>1, <1>2, PTL DEF Spec

\* For any number of networks, runs and faults: nothing that a command or nova changes
\* leaves Cloud, also when a name is not unique and the command is refused for it.
THEOREM TypeCorrect == Spec => []TypeOK
<1>1. Typed => TypeOK
  BY DEF Typed
<1> QED
  BY <1>1, TypedAlways, PTL

-----------------------------------------------------------------------------
(* From nothing and back: the inductive invariant *)

\* What the k-th run has made with the numbers in J.
Owns(J, k)     == {<<j, k>> : j \in J}
RouterOf(i, k) == IF i = N THEN External ELSE <<i, k>>
Links(J, k)    == {<< <<j, k>>, RouterOf(j, k)>> : j \in J}

\* The routers of c with the numbers in R, the gateways of G, the interfaces of F.
Routed(c, k, R, G, F) ==
  /\ c.routers = Owns(R, k) \cup {External}
  /\ c.gateways = Owns(G, k) \cup {External}
  /\ c.ifaces = Links(F, k)

Up == {"build", "active", "error"}

\* While create_neutron.sh runs: it has made the networks S, their subnets T, the routers R,
\* gateways G and interfaces F, the VMs V and the floating IPs P, of which those with a
\* number in A were offered to their VMs.
Standing(c, k, S, T, R, G, F, V, P, A) ==
  /\ c.nets = Owns(S, k)
  /\ c.subnets = Owns(T, k)
  /\ Routed(c, k, R, G, F)
  /\ \A o \in Ids : \/ o \in Owns(V, k) /\ c.vm[o] \in Up /\ c.on[o] = o
                    \/ o \notin Owns(V, k) /\ c.vm[o] = "none" /\ c.on[o] = NoVM
  /\ \A f \in c.fips : \E i \in P :
       f.id = <<i, k>> /\ (f.vm = NoVM \/ (i \in A /\ f.vm = f.id))
  /\ \A i \in P : \E f \in c.fips : f.id = <<i, k>>

\* While delete_neutron.sh runs: it has not come yet to the networks S, routers R,
\* gateways G, interfaces F and VMs V; no floating IP is used once off holds, and there is
\* none once gone does.
Falling(c, k, off, gone, V, F, G, R, S) ==
  /\ c.subnets = c.nets
  /\ Owns(S, k) \subseteq c.nets /\ c.nets \subseteq Owns(1..N, k)
  /\ Routed(c, k, R, G, F)
  /\ \A o \in Ids : \/ o \in Owns(V, k) /\ c.vm[o] \in Up /\ c.on[o] = o
                    \/ o \in Owns((1..N) \ V, k) /\ c.vm[o] = "deleting" /\ c.on[o] = o
                    \/ o \notin Owns(V, k) /\ c.vm[o] = "none" /\ c.on[o] = NoVM
  /\ \A f \in c.fips : \E i \in 1..N : f.id = <<i, k>> /\ (f.vm = NoVM \/ f.vm = f.id)
  /\ off => \A f \in c.fips : f.vm = NoVM
  /\ gone => c.fips = {}

\* The numbers a loop has done when the script is at its p-th command: the loop begins
\* behind the a-th and has one command, or two, for every number.
Before(p, a, n) == {j \in 1..n : a + j < p}
Twice(p, a, n)  == {j \in 1..n : a + 2 * j < p}
From(p, a, n)   == {j \in 1..n : a + j >= p}

Creating(c, p, k) ==
  Standing(c, k, Before(p, 0, N), Before(p, N, N), Before(p, 2 * N, N - 1),
           Before(p, 3 * N - 1, N - 1), Before(p, 4 * N - 2, N), Before(p, 5 * N - 2, N),
           Twice(p, 6 * N - 3, N), Twice(p, 6 * N - 2, N))

Deleting(c, p, k) ==
  Falling(c, k, p > 1, p > 2, From(p, 2, N), From(p, N + 2, N), From(p, 2 * N + 2, N - 1),
          From(p, 3 * N + 1, N - 1), From(p, 4 * N, N))

Fresh ==
  fresh => /\ creates \in 1..MaxCreates
           /\ IF script = "create" THEN Creating(cloud, pc, creates)
                                   ELSE Deleting(cloud, pc, creates)

LEMMA OwnsHas ==
  ASSUME NEW J, NEW k
  PROVE  /\ \A i : <<i, k>> \in Owns(J, k) <=> i \in J
         /\ \A i : <<i, k>> \notin Owns(J, k) <=> i \notin J
         /\ \A o \in Owns(J, k) : \E i \in J : o = <<i, k>>
BY DEF Owns

LEMMA OneMore ==
  ASSUME NEW i \in Nat \ {0}, NEW k
  PROVE  /\ Owns(1..(i - 1), k) \cup {<<i, k>>} = Owns(1..i, k)
         /\ Links(1..(i - 1), k) \cup {<< <<i, k>>, RouterOf(i, k)>>} = Links(1..i, k)
         /\ <<i, k>> \notin Owns(1..(i - 1), k)
<1>1. 1..i = 1..(i - 1) \cup {i} /\ i \notin 1..(i - 1)
  OBVIOUS
<1> HIDE <1>1
<1>2. Owns(1..(i - 1), k) \cup {<<i, k>>} = Owns(1..i, k)
  BY <1>1 DEF Owns
<1>3. Links(1..(i - 1), k) \cup {<< <<i, k>>, RouterOf(i, k)>>} = Links(1..i, k)
  BY <1>1 DEF Links
<1> QED
  BY <1>1, <1>2, <1>3, OwnsHas

LEMMA OneLess ==
  ASSUME NEW i \in Nat, NEW n \in Nat, i \in 1..n, NEW k
  PROVE  /\ Owns(i..n, k) \ {<<i, k>>} = Owns((i + 1)..n, k)
         /\ Links(i..n, k) \ {<< <<i, k>>, RouterOf(i, k)>>} = Links((i + 1)..n, k)
         /\ i \in i..n
<1>1. (i..n) \ {i} = (i + 1)..n /\ i \in i..n
  OBVIOUS
<1>2. Owns(i..n, k) \ {<<i, k>>} = Owns((i + 1)..n, k)
  BY <1>1 DEF Owns
<1>3. Links(i..n, k) \ {<< <<i, k>>, RouterOf(i, k)>>} = Links((i + 1)..n, k)
  BY <1>1 DEF Links
<1> QED
  BY <1>1, <1>2, <1>3

LEMMA UniqueOwn ==
  ASSUME NEW J, NEW k, NEW S, S \subseteq Owns(J, k), NEW i, <<i, k>> \in S
  PROVE  Unique(S, i) /\ The(S, i) = <<i, k>>
<1>1. \A o \in S : o[1] = i => o = <<i, k>>
  BY DEF Owns
<1> QED
  BY <1>1, OnlyOne

LEMMA UniqueAll ==
  ASSUME NEW k, NEW i \in 1..N
  PROVE  /\ Unique(Owns(1..N, k), i) /\ The(Owns(1..N, k), i) = <<i, k>>
         /\ <<i, k>> \in Owns(1..N, k)
<1>1. <<i, k>> \in Owns(1..N, k) /\ Owns(1..N, k) \subseteq Owns(1..N, k)
  BY OwnsHas
<1> QED
  BY <1>1, UniqueOwn

LEMMA UniqueRouter ==
  ASSUME NEW J, N \notin J, NEW k, NEW i \in J \cup {N}
  PROVE  /\ Unique(Owns(J, k) \cup {External}, i)
         /\ The(Owns(J, k) \cup {External}, i) = RouterOf(i, k)
         /\ RouterOf(i, k) \in Owns(J, k) \cup {External}
<1> DEFINE S == Owns(J, k) \cup {External}
<1>1. RouterOf(i, k) \in S /\ RouterOf(i, k)[1] = i
  BY DEF Owns, RouterOf, External
<1>2. \A o \in S : o[1] = i => o = RouterOf(i, k)
  BY DEF Owns, RouterOf, External
<1> HIDE DEF S
<1>3. Unique(S, i) /\ The(S, i) = RouterOf(i, k)
  BY <1>1, <1>2, OnlyOne
<1> QED
  BY <1>1, <1>3 DEF S

LEMMA NamesApart ==
  ASSUME NEW i \in 1..N, NEW k \in 1..MaxCreates
  PROVE  <<i, k>> \in Ids /\ <<i, k>> # NoVM /\ <<i, k>> # External
BY NeutronAssumption DEF Ids, NoVM, External

\* What a network is attached to.
LEMMA RoutersOfIs ==
  ASSUME NEW k, NEW R, NEW G, NEW F, Routed(cloud, k, R, G, F), NEW i
  PROVE  /\ i \notin F => RoutersOf(<<i, k>>) = {}
         /\ (i \in F /\ RouterOf(i, k) \in cloud.routers) => RoutersOf(<<i, k>>) = {RouterOf(i, k)}
<1>1. \A r : << <<i, k>>, r>> \in cloud.ifaces <=> i \in F /\ r = RouterOf(i, k)
  BY DEF Routed, Links
<1> QED
  BY <1>1 DEF RoutersOf

-----------------------------------------------------------------------------
(* The commands of create_neutron.sh, one by one *)

LEMMA MakesNet ==
  ASSUME NEW k \in 1..MaxCreates, creates = k, NEW i \in 1..N, cloud \in Cloud,
         Standing(cloud, k, 1..(i - 1), {}, {}, {}, {}, {}, {}, {})
  PROVE  /\ Accepted("net-create", i)
         /\ Standing(After("net-create", i), k, 1..i, {}, {}, {}, {}, {}, {}, {})
<1> DEFINE c == After("net-create", i)
<1>1. i \in Nat \ {0}
  BY NeutronAssumption
<1>2. Accepted("net-create", i)
  BY DEF Accepted
<1>3. /\ c.nets = cloud.nets \cup {<<i, k>>} /\ c.subnets = cloud.subnets
      /\ c.routers = cloud.routers /\ c.gateways = cloud.gateways /\ c.ifaces = cloud.ifaces
      /\ c.vm = cloud.vm /\ c.on = cloud.on /\ c.fips = cloud.fips
  BY DEF After, Cloud
<1>4. cloud.nets \cup {<<i, k>>} = Owns(1..i, k)
  <2>1. Owns(1..(i - 1), k) \cup {<<i, k>>} = Owns(1..i, k)
    BY <1>1, OneMore
  <2> QED
    BY <2>1 DEF Standing
<1> HIDE DEF c
<1>5. Standing(c, k, 1..i, {}, {}, {}, {}, {}, {}, {})
  BY <1>3, <1>4 DEF Standing, Routed
<1> QED
  BY <1>2, <1>5 DEF c

LEMMA MakesSubnet ==
  ASSUME NEW k \in 1..MaxCreates, creates = k, NEW i \in 1..N, cloud \in Cloud,
         Standing(cloud, k, 1..N, 1..(i - 1), {}, {}, {}, {}, {}, {})
  PROVE  /\ Accepted("subnet-create", i)
         /\ Standing(After("subnet-create", i), k, 1..N, 1..i, {}, {}, {}, {}, {}, {})
<1> DEFINE c == After("subnet-create", i)
<1>1. i \in Nat \ {0}
  BY NeutronAssumption
<1>2. Unique(cloud.nets, i) /\ Net(i) = <<i, k>>
  BY UniqueAll DEF Standing, Net
<1>3. Accepted("subnet-create", i)
  BY <1>1, <1>2, OneMore DEF Accepted, Standing
<1>4. /\ c.nets = cloud.nets /\ c.subnets = cloud.subnets \cup {<<i, k>>}
      /\ c.routers = cloud.routers /\ c.gateways = cloud.gateways /\ c.ifaces = cloud.ifaces
      /\ c.vm = cloud.vm /\ c.on = cloud.on /\ c.fips = cloud.fips
  BY <1>2 DEF After, Cloud
<1>5. cloud.subnets \cup {<<i, k>>} = Owns(1..i, k)
  <2>1. Owns(1..(i - 1), k) \cup {<<i, k>>} = Owns(1..i, k)
    BY <1>1, OneMore
  <2> QED
    BY <2>1 DEF Standing
<1> HIDE DEF c
<1>6. Standing(c, k, 1..N, 1..i, {}, {}, {}, {}, {}, {})
  BY <1>4, <1>5 DEF Standing, Routed
<1> QED
  BY <1>3, <1>6 DEF c

LEMMA MakesRouter ==
  ASSUME NEW k \in 1..MaxCreates, creates = k, NEW i \in 1..(N - 1), cloud \in Cloud,
         Standing(cloud, k, 1..N, 1..N, 1..(i - 1), {}, {}, {}, {}, {})
  PROVE  /\ Accepted("router-create", i)
         /\ Standing(After("router-create", i), k, 1..N, 1..N, 1..i, {}, {}, {}, {}, {})
<1> DEFINE c == After("router-create", i)
<1>1. i \in Nat \ {0}
  BY NeutronAssumption
<1>2. Accepted("router-create", i)
  BY DEF Accepted
<1>3. /\ c.nets = cloud.nets /\ c.subnets = cloud.subnets
      /\ c.routers = cloud.routers \cup {<<i, k>>} /\ c.gateways = cloud.gateways
      /\ c.ifaces = cloud.ifaces
      /\ c.vm = cloud.vm /\ c.on = cloud.on /\ c.fips = cloud.fips
  BY DEF After, Cloud
<1>4. Owns(1..(i - 1), k) \cup {<<i, k>>} = Owns(1..i, k)
  BY <1>1, OneMore
<1>5. cloud.routers \cup {<<i, k>>} = Owns(1..i, k) \cup {External}
  BY <1>4 DEF Standing, Routed
<1> HIDE DEF c
<1>6. Standing(c, k, 1..N, 1..N, 1..i, {}, {}, {}, {}, {})
  BY <1>3, <1>5 DEF Standing, Routed
<1> QED
  BY <1>2, <1>6 DEF c

LEMMA SetsGateway ==
  ASSUME NEW k \in 1..MaxCreates, creates = k, NEW i \in 1..(N - 1), cloud \in Cloud,
         Standing(cloud, k, 1..N, 1..N, 1..(N - 1), 1..(i - 1), {}, {}, {}, {})
  PROVE  /\ Accepted("gateway-set", i)
         /\ Standing(After("gateway-set", i), k, 1..N, 1..N, 1..(N - 1), 1..i, {}, {}, {}, {})
<1> DEFINE c == After("gateway-set", i)
<1>1. N \notin 1..(N - 1) /\ i # N /\ i \in Nat \ {0}
  BY NeutronAssumption
<1>2. Unique(cloud.routers, i) /\ Router(i) = <<i, k>>
  <2>1. i \in 1..(N - 1) \cup {N}
    OBVIOUS
  <2>2. /\ Unique(Owns(1..(N - 1), k) \cup {External}, i)
        /\ The(Owns(1..(N - 1), k) \cup {External}, i) = RouterOf(i, k)
    BY <1>1, <2>1, UniqueRouter
  <2> QED
    BY <1>1, <2>2 DEF Standing, Routed, Router, RouterOf
<1>3. Accepted("gateway-set", i)
  BY <1>2 DEF Accepted
<1>4. /\ c.nets = cloud.nets /\ c.subnets = cloud.subnets
      /\ c.routers = cloud.routers /\ c.gateways = cloud.gateways \cup {<<i, k>>}
      /\ c.ifaces = cloud.ifaces
      /\ c.vm = cloud.vm /\ c.on = cloud.on /\ c.fips = cloud.fips
  BY <1>2 DEF After, Cloud
<1>5. Owns(1..(i - 1), k) \cup {<<i, k>>} = Owns(1..i, k)
  BY <1>1, OneMore
<1>6. cloud.gateways \cup {<<i, k>>} = Owns(1..i, k) \cup {External}
  BY <1>5 DEF Standing, Routed
<1> HIDE DEF c
<1>7. Standing(c, k, 1..N, 1..N, 1..(N - 1), 1..i, {}, {}, {}, {})
  BY <1>4, <1>6 DEF Standing, Routed
<1> QED
  BY <1>3, <1>7 DEF c

LEMMA AddsInterface ==
  ASSUME NEW k \in 1..MaxCreates, creates = k, NEW i \in 1..N, cloud \in Cloud,
         Standing(cloud, k, 1..N, 1..N, 1..(N - 1), 1..(N - 1), 1..(i - 1), {}, {}, {})
  PROVE  /\ Accepted("interface-add", i)
         /\ Standing(After("interface-add", i), k,
                     1..N, 1..N, 1..(N - 1), 1..(N - 1), 1..i, {}, {}, {})
<1> DEFINE c == After("interface-add", i)
<1>1. N \notin 1..(N - 1) /\ i \in 1..(N - 1) \cup {N} /\ i \in Nat \ {0} /\ i \notin 1..(i - 1)
  BY NeutronAssumption
<1>2. Unique(cloud.routers, i) /\ Router(i) = RouterOf(i, k)
  <2>1. /\ Unique(Owns(1..(N - 1), k) \cup {External}, i)
        /\ The(Owns(1..(N - 1), k) \cup {External}, i) = RouterOf(i, k)
    BY <1>1, UniqueRouter
  <2> QED
    BY <2>1 DEF Standing, Routed, Router
<1>3. Unique(cloud.subnets, i) /\ The(cloud.subnets, i) = <<i, k>>
  BY UniqueAll DEF Standing
<1>4. RoutersOf(<<i, k>>) = {}
  BY <1>1, RoutersOfIs DEF Standing
<1>5. Accepted("interface-add", i)
  BY <1>2, <1>3, <1>4 DEF Accepted
<1>6. /\ c.nets = cloud.nets /\ c.subnets = cloud.subnets
      /\ c.routers = cloud.routers /\ c.gateways = cloud.gateways
      /\ c.ifaces = cloud.ifaces \cup {<< <<i, k>>, RouterOf(i, k)>>}
      /\ c.vm = cloud.vm /\ c.on = cloud.on /\ c.fips = cloud.fips
  BY <1>2, <1>3 DEF After, Cloud
<1>7. cloud.ifaces \cup {<< <<i, k>>, RouterOf(i, k)>>} = Links(1..i, k)
  BY <1>1, OneMore DEF Standing, Routed
<1> HIDE DEF c
<1>8. Standing(c, k, 1..N, 1..N, 1..(N - 1), 1..(N - 1), 1..i, {}, {}, {})
  BY <1>6, <1>7 DEF Standing, Routed
<1> QED
  BY <1>5, <1>8 DEF c

LEMMA BootsVM ==
  ASSUME NEW k \in 1..MaxCreates, creates = k, NEW i \in 1..N, cloud \in Cloud,
         Standing(cloud, k, 1..N, 1..N, 1..(N - 1), 1..(N - 1), 1..N, 1..(i - 1), {}, {})
  PROVE  /\ Accepted("boot", i)
         /\ Standing(After("boot", i), k,
                     1..N, 1..N, 1..(N - 1), 1..(N - 1), 1..N, 1..i, {}, {})
<1> DEFINE c == After("boot", i)
           me == <<i, k>>
<1>1. i \in Nat \ {0}
  BY NeutronAssumption
<1>2. Unique(cloud.nets, i) /\ Net(i) = me
  BY UniqueAll DEF Standing, Net
<1>3. Accepted("boot", i)
  BY <1>2, UniqueAll DEF Accepted, Standing
<1>4. /\ c.nets = cloud.nets /\ c.subnets = cloud.subnets
      /\ c.routers = cloud.routers /\ c.gateways = cloud.gateways /\ c.ifaces = cloud.ifaces
      /\ c.vm = [cloud.vm EXCEPT ![me] = "build"] /\ c.on = [cloud.on EXCEPT ![me] = me]
      /\ c.fips = cloud.fips
  BY <1>2 DEF After, Cloud
<1>5. Owns(1..i, k) = Owns(1..(i - 1), k) \cup {me}
  BY <1>1, OneMore
<1>6. cloud.vm \in [Ids -> VMStates] /\ cloud.on \in [Ids -> Ids \cup {NoVM}]
  BY FieldTypes
<1> HIDE DEF c, me
<1>7. \A o \in Ids : \/ o \in Owns(1..i, k) /\ c.vm[o] \in Up /\ c.on[o] = o
                     \/ o \notin Owns(1..i, k) /\ c.vm[o] = "none" /\ c.on[o] = NoVM
  <2> SUFFICES ASSUME NEW o \in Ids
               PROVE  \/ o \in Owns(1..i, k) /\ c.vm[o] \in Up /\ c.on[o] = o
                      \/ o \notin Owns(1..i, k) /\ c.vm[o] = "none" /\ c.on[o] = NoVM
    OBVIOUS
  <2>1. CASE o = me
    BY <1>4, <1>5, <1>6, <2>1 DEF Up
  <2>2. CASE o # me
    BY <1>4, <1>5, <1>6, <2>2 DEF Standing
  <2> QED
    BY <2>1, <2>2
<1>8. Standing(c, k, 1..N, 1..N, 1..(N - 1), 1..(N - 1), 1..N, 1..i, {}, {})
  BY <1>4, <1>7 DEF Standing, Routed
<1> QED
  BY <1>3, <1>8 DEF c

LEMMA MakesFip ==
  ASSUME NEW k \in 1..MaxCreates, creates = k, NEW i \in 1..N, cloud \in Cloud,
         Standing(cloud, k, 1..N, 1..N, 1..(N - 1), 1..(N - 1), 1..N, 1..N,
                  1..(i - 1), 1..(i - 1))
  PROVE  /\ Accepted("floatingip-create", i)
         /\ Standing(After("floatingip-create", i), k,
                     1..N, 1..N, 1..(N - 1), 1..(N - 1), 1..N, 1..N, 1..i, 1..(i - 1))
<1> DEFINE c == After("floatingip-create", i)
           new == [id |-> <<i, k>>, vm |-> NoVM]
<1>1. Accepted("floatingip-create", i)
  BY DEF Accepted
<1>2. /\ c.nets = cloud.nets /\ c.subnets = cloud.subnets
      /\ c.routers = cloud.routers /\ c.gateways = cloud.gateways /\ c.ifaces = cloud.ifaces
      /\ c.vm = cloud.vm /\ c.on = cloud.on /\ c.fips = cloud.fips \cup {new}
  BY DEF After, Cloud
<1>3. 1..i = 1..(i - 1) \cup {i}
  BY NeutronAssumption
<1>4. new.id = <<i, k>> /\ new.vm = NoVM
  OBVIOUS
<1> HIDE DEF c, new
<1>5. \A f \in c.fips : \E j \in 1..i :
        f.id = <<j, k>> /\ (f.vm = NoVM \/ (j \in 1..(i - 1) /\ f.vm = f.id))
  BY <1>2, <1>3, <1>4 DEF Standing
<1>6. \A j \in 1..i : \E f \in c.fips : f.id = <<j, k>>
  BY <1>2, <1>3, <1>4 DEF Standing
<1>7. Standing(c, k, 1..N, 1..N, 1..(N - 1), 1..(N - 1), 1..N, 1..N, 1..i, 1..(i - 1))
  BY <1>2, <1>5, <1>6 DEF Standing, Routed
<1> QED
  BY <1>1, <1>7 DEF c

\* A VM has a network of its own number, and what is named after i.
LEMMA StandingVMs ==
  ASSUME NEW k \in 1..MaxCreates, NEW S, NEW T, NEW R, NEW G, NEW F, NEW P, NEW A, NEW V,
         Standing(cloud, k, S, T, R, G, F, V, P, A), V \subseteq 1..N, NEW i \in V
  PROVE  Unique(VMs, i) /\ The(VMs, i) = <<i, k>> /\ cloud.on[<<i, k>>] = <<i, k>>
         /\ cloud.vm[<<i, k>>] \in Up
<1>1. VMs \subseteq Owns(V, k)
  BY DEF Standing, VMs
<1>2. <<i, k>> \in Ids /\ <<i, k>> \in Owns(V, k)
  BY NamesApart, OwnsHas
<1>3. cloud.on[<<i, k>>] = <<i, k>> /\ cloud.vm[<<i, k>>] \in Up
  BY <1>2 DEF Standing
<1>4. <<i, k>> \in VMs
  BY <1>2, <1>3 DEF VMs, Up
<1> QED
  BY <1>1, <1>3, <1>4, UniqueOwn

LEMMA Associates ==
  ASSUME NEW k \in 1..MaxCreates, creates = k, NEW i \in 1..N, cloud \in Cloud,
         Standing(cloud, k, 1..N, 1..N, 1..(N - 1), 1..(N - 1), 1..N, 1..N, 1..i, 1..(i - 1))
  PROVE  /\ Accepted("associate", i) \/ cloud.vm[<<i, k>>] \in {"build", "error"}
         /\ Standing(cloud, k, 1..N, 1..N, 1..(N - 1), 1..(N - 1), 1..N, 1..N, 1..i, 1..i)
         /\ Standing(After("associate", i), k,
                     1..N, 1..N, 1..(N - 1), 1..(N - 1), 1..N, 1..N, 1..i, 1..i)
<1> DEFINE c == After("associate", i)
           me == <<i, k>>
           F  == {IF f.id = me THEN [f EXCEPT !.vm = me] ELSE f : f \in cloud.fips}
<1>1. Unique(VMs, i) /\ The(VMs, i) = me /\ cloud.on[me] = me /\ cloud.vm[me] \in Up
  BY StandingVMs
<1>2. N \notin 1..(N - 1) /\ i \in 1..(N - 1) \cup {N} /\ i \in 1..i
  BY NeutronAssumption
<1>3. RouterOf(i, k) \in cloud.routers /\ RouterOf(i, k) \in cloud.gateways
  BY <1>2, UniqueRouter DEF Standing, Routed
<1>4. RoutersOf(me) \cap cloud.gateways # {}
  BY <1>3, RoutersOfIs DEF Standing
<1>5. \E f \in cloud.fips : f.id = me
  BY <1>2 DEF Standing
<1>6. \A f \in cloud.fips : f.vm # me
  <2> SUFFICES ASSUME NEW f \in cloud.fips, f.vm = me PROVE FALSE
    OBVIOUS
  <2>1. PICK j \in 1..i : f.id = <<j, k>> /\ (f.vm = NoVM \/ (j \in 1..(i - 1) /\ f.vm = f.id))
    BY DEF Standing
  <2>2. j \in 1..(i - 1) /\ <<i, k>> = <<j, k>>
    BY <2>1, NamesApart
  <2>3. i = j
    BY <2>2
  <2> QED
    BY <2>2, <2>3, NeutronAssumption
<1>7. Accepted("associate", i) \/ cloud.vm[me] \in {"build", "error"}
  <2>1. CASE cloud.vm[me] = "active"
    BY <1>1, <1>4, <1>5, <1>6, <2>1 DEF Accepted
  <2> QED
    BY <1>1, <2>1 DEF Up
<1>8. /\ c.nets = cloud.nets /\ c.subnets = cloud.subnets
      /\ c.routers = cloud.routers /\ c.gateways = cloud.gateways /\ c.ifaces = cloud.ifaces
      /\ c.vm = cloud.vm /\ c.on = cloud.on /\ c.fips = F
  BY <1>1 DEF After, Cloud
<1>9. cloud.fips \subseteq [id : Ids, vm : Ids \cup {NoVM}]
  BY FieldTypes
<1>10. 1..(i - 1) \subseteq 1..i
  BY NeutronAssumption
<1>11. \A f \in cloud.fips : \E j \in 1..i : f.id = <<j, k>> /\ (f.vm = NoVM \/ f.vm = f.id)
  BY DEF Standing
<1>12. \A f \in F : \E j \in 1..i : f.id = <<j, k>> /\ (f.vm = NoVM \/ (j \in 1..i /\ f.vm = f.id))
  BY <1>9, <1>11
<1>13. \A j \in 1..i : \E f \in F : f.id = <<j, k>>
  <2> SUFFICES ASSUME NEW j \in 1..i PROVE \E f \in F : f.id = <<j, k>>
    OBVIOUS
  <2>1. PICK g \in cloud.fips : g.id = <<j, k>>
    BY DEF Standing
  <2>2. (IF g.id = me THEN [g EXCEPT !.vm = me] ELSE g) \in F
    OBVIOUS
  <2>3. (IF g.id = me THEN [g EXCEPT !.vm = me] ELSE g).id = <<j, k>>
    BY <1>9, <2>1
  <2> QED
    BY <2>2, <2>3
<1> HIDE DEF c, F
<1>14. Standing(c, k, 1..N, 1..N, 1..(N - 1), 1..(N - 1), 1..N, 1..N, 1..i, 1..i)
  BY <1>8, <1>12, <1>13 DEF Standing, Routed
<1>15. Standing(cloud, k, 1..N, 1..N, 1..(N - 1), 1..(N - 1), 1..N, 1..N, 1..i, 1..i)
  BY <1>11 DEF Standing
<1> QED
  BY <1>7, <1>14, <1>15 DEF c

-----------------------------------------------------------------------------
(* The commands of delete_neutron.sh, one by one *)

LEMMA Disassociates ==
  ASSUME NEW k \in 1..MaxCreates, cloud \in Cloud, NEW i,
         Falling(cloud, k, FALSE, FALSE, 1..N, 1..N, 1..(N - 1), 1..(N - 1), 1..N)
  PROVE  /\ Accepted("disassociate", i)
         /\ Falling(After("disassociate", i), k,
                    TRUE, FALSE, 1..N, 1..N, 1..(N - 1), 1..(N - 1), 1..N)
<1> DEFINE c == After("disassociate", i)
<1>1. Accepted("disassociate", i)
  BY DEF Accepted
<1>2. /\ c.nets = cloud.nets /\ c.subnets = cloud.subnets
      /\ c.routers = cloud.routers /\ c.gateways = cloud.gateways /\ c.ifaces = cloud.ifaces
      /\ c.vm = cloud.vm /\ c.on = cloud.on /\ c.fips = {Free(f) : f \in cloud.fips}
  BY DEF After, Cloud
<1> HIDE DEF c
<1>3. \A f \in c.fips : (\E j \in 1..N : f.id = <<j, k>>) /\ f.vm = NoVM
  BY <1>2 DEF Falling, Free
<1>4. Falling(c, k, TRUE, FALSE, 1..N, 1..N, 1..(N - 1), 1..(N - 1), 1..N)
  BY <1>2, <1>3 DEF Falling, Routed
<1> QED
  BY <1>1, <1>4 DEF c

LEMMA DeletesFips ==
  ASSUME NEW k \in 1..MaxCreates, cloud \in Cloud, NEW i,
         Falling(cloud, k, TRUE, FALSE, 1..N, 1..N, 1..(N - 1), 1..(N - 1), 1..N)
  PROVE  /\ Accepted("floatingip-delete", i)
         /\ Falling(After("floatingip-delete", i), k,
                    TRUE, TRUE, 1..N, 1..N, 1..(N - 1), 1..(N - 1), 1..N)
<1> DEFINE c == After("floatingip-delete", i)
<1>1. Accepted("floatingip-delete", i)
  BY DEF Accepted
<1>2. /\ c.nets = cloud.nets /\ c.subnets = cloud.subnets
      /\ c.routers = cloud.routers /\ c.gateways = cloud.gateways /\ c.ifaces = cloud.ifaces
      /\ c.vm = cloud.vm /\ c.on = cloud.on /\ c.fips = {}
  BY DEF After, Cloud
<1> HIDE DEF c
<1>3. Falling(c, k, TRUE, TRUE, 1..N, 1..N, 1..(N - 1), 1..(N - 1), 1..N)
  BY <1>2 DEF Falling, Routed
<1> QED
  BY <1>1, <1>3 DEF c

LEMMA DeletesVM ==
  ASSUME NEW k \in 1..MaxCreates, NEW i \in 1..N, cloud \in Cloud,
         Falling(cloud, k, TRUE, TRUE, i..N, 1..N, 1..(N - 1), 1..(N - 1), 1..N)
  PROVE  /\ Accepted("vm-delete", i)
         /\ Falling(After("vm-delete", i), k,
                    TRUE, TRUE, (i + 1)..N, 1..N, 1..(N - 1), 1..(N - 1), 1..N)
<1> DEFINE c == After("vm-delete", i)
           me == <<i, k>>
<1>1. i..N \subseteq 1..N /\ i \in i..N /\ i..N = {i} \cup (i + 1)..N /\ i \notin (i + 1)..N
  BY NeutronAssumption
<1>2. VMs \subseteq Owns(1..N, k)
  BY <1>1 DEF Falling, VMs, Owns
<1>3. me \in Ids
  BY NamesApart
<1>4. me \in Owns(i..N, k) /\ cloud.vm[me] \in Up /\ cloud.on[me] = me
  <2>1. i \in i..N /\ i \notin (1..N) \ (i..N)
    BY <1>1
  <2>2. me \in Owns(i..N, k) /\ me \notin Owns((1..N) \ (i..N), k)
    BY <2>1, OwnsHas
  <2> HIDE DEF me
  <2>3. \A o \in Ids : \/ cloud.vm[o] \in Up /\ cloud.on[o] = o
                       \/ o \in Owns((1..N) \ (i..N), k)
                       \/ o \notin Owns(i..N, k)
    BY DEF Falling
  <2> QED
    BY <1>3, <2>2, <2>3
<1>5. me \in VMs
  BY <1>3, <1>4 DEF VMs, Up
<1>6. Unique(VMs, i) /\ The(VMs, i) = me
  BY <1>2, <1>5, UniqueOwn
<1>7. Accepted("vm-delete", i)
  BY <1>6 DEF Accepted
<1>8. /\ c.nets = cloud.nets /\ c.subnets = cloud.subnets
      /\ c.routers = cloud.routers /\ c.gateways = cloud.gateways /\ c.ifaces = cloud.ifaces
      /\ c.vm = [cloud.vm EXCEPT ![me] = "deleting"]
      /\ c.on = cloud.on /\ c.fips = cloud.fips
  BY <1>6 DEF After, Cloud
<1>9. cloud.vm \in [Ids -> VMStates] /\ cloud.on \in [Ids -> Ids \cup {NoVM}]
  BY FieldTypes
<1>10. /\ Owns(i..N, k) = {me} \cup Owns((i + 1)..N, k)
       /\ me \notin Owns((i + 1)..N, k)
       /\ Owns((1..N) \ ((i + 1)..N), k) = {me} \cup Owns((1..N) \ (i..N), k)
  <2>1. (1..N) \ ((i + 1)..N) = {i} \cup ((1..N) \ (i..N))
    BY <1>1
  <2> QED
    BY <1>1, <2>1 DEF Owns
<1> HIDE DEF c, me
<1>11. \A o \in Ids :
         \/ o \in Owns((i + 1)..N, k) /\ c.vm[o] \in Up /\ c.on[o] = o
         \/ o \in Owns((1..N) \ ((i + 1)..N), k) /\ c.vm[o] = "deleting" /\ c.on[o] = o
         \/ o \notin Owns((i + 1)..N, k) /\ c.vm[o] = "none" /\ c.on[o] = NoVM
  <2> SUFFICES ASSUME NEW o \in Ids
               PROVE  \/ o \in Owns((i + 1)..N, k) /\ c.vm[o] \in Up /\ c.on[o] = o
                      \/ /\ o \in Owns((1..N) \ ((i + 1)..N), k)
                         /\ c.vm[o] = "deleting" /\ c.on[o] = o
                      \/ o \notin Owns((i + 1)..N, k) /\ c.vm[o] = "none" /\ c.on[o] = NoVM
    OBVIOUS
  <2>1. CASE o = me
    BY <1>4, <1>8, <1>9, <1>10, <2>1
  <2>2. CASE o # me
    BY <1>8, <1>9, <1>10, <2>2 DEF Falling
  <2> QED
    BY <2>1, <2>2
<1>12. Falling(c, k, TRUE, TRUE, (i + 1)..N, 1..N, 1..(N - 1), 1..(N - 1), 1..N)
  BY <1>8, <1>11 DEF Falling, Routed
<1> QED
  BY <1>7, <1>12 DEF c

\* Every network is there while no network is deleted.
LEMMA AllNets ==
  ASSUME NEW k, NEW off, NEW gone, NEW V, NEW F, NEW G, NEW R,
         Falling(cloud, k, off, gone, V, F, G, R, 1..N)
  PROVE  cloud.nets = Owns(1..N, k) /\ cloud.subnets = Owns(1..N, k)
BY DEF Falling

LEMMA DeletesInterface ==
  ASSUME NEW k \in 1..MaxCreates, NEW i \in 1..N, cloud \in Cloud,
         Falling(cloud, k, TRUE, TRUE, {}, i..N, 1..(N - 1), 1..(N - 1), 1..N)
  PROVE  /\ Accepted("interface-delete", i)
         /\ Falling(After("interface-delete", i), k,
                    TRUE, TRUE, {}, (i + 1)..N, 1..(N - 1), 1..(N - 1), 1..N)
<1> DEFINE c == After("interface-delete", i)
<1>1. N \notin 1..(N - 1) /\ i \in 1..(N - 1) \cup {N} /\ i \in Nat /\ N \in Nat /\ i \in i..N
  BY NeutronAssumption
<1>2. Unique(cloud.routers, i) /\ Router(i) = RouterOf(i, k) /\ RouterOf(i, k) \in cloud.routers
  <2>1. /\ Unique(Owns(1..(N - 1), k) \cup {External}, i)
        /\ The(Owns(1..(N - 1), k) \cup {External}, i) = RouterOf(i, k)
        /\ RouterOf(i, k) \in Owns(1..(N - 1), k) \cup {External}
    BY <1>1, UniqueRouter
  <2> QED
    BY <2>1 DEF Falling, Routed, Router
<1>3. Unique(cloud.subnets, i) /\ The(cloud.subnets, i) = <<i, k>>
  <2>1. cloud.subnets = Owns(1..N, k)
    BY AllNets
  <2> QED
    BY <2>1, UniqueAll
<1>4. RoutersOf(<<i, k>>) = {RouterOf(i, k)}
  BY <1>1, <1>2, RoutersOfIs DEF Falling
<1>5. Accepted("interface-delete", i)
  BY <1>2, <1>3, <1>4 DEF Accepted, Falling, FipsOn
<1>6. /\ c.nets = cloud.nets /\ c.subnets = cloud.subnets
      /\ c.routers = cloud.routers /\ c.gateways = cloud.gateways
      /\ c.ifaces = cloud.ifaces \ {<< <<i, k>>, RouterOf(i, k)>>}
      /\ c.vm = cloud.vm /\ c.on = cloud.on /\ c.fips = cloud.fips
  BY <1>2, <1>3 DEF After, Cloud
<1>7. Links(i..N, k) \ {<< <<i, k>>, RouterOf(i, k)>>} = Links((i + 1)..N, k)
  BY <1>1, OneLess
<1>8. c.ifaces = Links((i + 1)..N, k)
  BY <1>6, <1>7 DEF Falling, Routed
<1> HIDE DEF c
<1>9. Falling(c, k, TRUE, TRUE, {}, (i + 1)..N, 1..(N - 1), 1..(N - 1), 1..N)
  BY <1>6, <1>8 DEF Falling, Routed
<1> QED
  BY <1>5, <1>9 DEF c

LEMMA ClearsGateway ==
  ASSUME NEW k \in 1..MaxCreates, NEW i \in 1..(N - 1), cloud \in Cloud,
         Falling(cloud, k, TRUE, TRUE, {}, {}, i..(N - 1), 1..(N - 1), 1..N)
  PROVE  /\ Accepted("gateway-clear", i)
         /\ Falling(After("gateway-clear", i), k,
                    TRUE, TRUE, {}, {}, (i + 1)..(N - 1), 1..(N - 1), 1..N)
<1> DEFINE c == After("gateway-clear", i)
<1>1. N \notin 1..(N - 1) /\ i \in 1..(N - 1) \cup {N} /\ i # N /\ i \in Nat /\ i \in 1..N
      /\ N - 1 \in Nat
  BY NeutronAssumption
<1>2. Unique(cloud.routers, i) /\ Router(i) = <<i, k>>
  <2>1. /\ Unique(Owns(1..(N - 1), k) \cup {External}, i)
        /\ The(Owns(1..(N - 1), k) \cup {External}, i) = RouterOf(i, k)
    BY <1>1, UniqueRouter
  <2> QED
    BY <1>1, <2>1 DEF Falling, Routed, Router, RouterOf
<1>3. Accepted("gateway-clear", i)
  BY <1>2 DEF Accepted, Falling, FipsOn
<1>4. /\ c.nets = cloud.nets /\ c.subnets = cloud.subnets
      /\ c.routers = cloud.routers /\ c.gateways = cloud.gateways \ {<<i, k>>}
      /\ c.ifaces = cloud.ifaces
      /\ c.vm = cloud.vm /\ c.on = cloud.on /\ c.fips = cloud.fips
  BY <1>2 DEF After, Cloud
<1>5. Owns(i..(N - 1), k) \ {<<i, k>>} = Owns((i + 1)..(N - 1), k)
  BY <1>1, OneLess
<1>6. <<i, k>> # External
  BY <1>1, NamesApart
<1>7. c.gateways = Owns((i + 1)..(N - 1), k) \cup {External}
  BY <1>4, <1>5, <1>6 DEF Falling, Routed
<1> HIDE DEF c
<1>8. Falling(c, k, TRUE, TRUE, {}, {}, (i + 1)..(N - 1), 1..(N - 1), 1..N)
  BY <1>4, <1>7 DEF Falling, Routed
<1> QED
  BY <1>3, <1>8 DEF c

LEMMA DeletesRouter ==
  ASSUME NEW k \in 1..MaxCreates, NEW i \in 1..(N - 1), cloud \in Cloud,
         Falling(cloud, k, TRUE, TRUE, {}, {}, {}, i..(N - 1), 1..N)
  PROVE  /\ Accepted("router-delete", i)
         /\ Falling(After("router-delete", i), k,
                    TRUE, TRUE, {}, {}, {}, (i + 1)..(N - 1), 1..N)
<1> DEFINE c == After("router-delete", i)
<1>1. N \notin i..(N - 1) /\ i \in i..(N - 1) \cup {N} /\ i # N /\ i \in Nat /\ i \in 1..N
      /\ N - 1 \in Nat
  BY NeutronAssumption
<1>2. Unique(cloud.routers, i) /\ Router(i) = <<i, k>>
  <2>1. /\ Unique(Owns(i..(N - 1), k) \cup {External}, i)
        /\ The(Owns(i..(N - 1), k) \cup {External}, i) = RouterOf(i, k)
    BY <1>1, UniqueRouter
  <2> QED
    BY <1>1, <2>1 DEF Falling, Routed, Router, RouterOf
<1>3. cloud.ifaces = {}
  BY DEF Falling, Routed, Links
<1>4. Accepted("router-delete", i)
  BY <1>2, <1>3 DEF Accepted, RoutersOf
<1>5. /\ c.nets = cloud.nets /\ c.subnets = cloud.subnets
      /\ c.routers = cloud.routers \ {<<i, k>>} /\ c.gateways = cloud.gateways \ {<<i, k>>}
      /\ c.ifaces = cloud.ifaces
      /\ c.vm = cloud.vm /\ c.on = cloud.on /\ c.fips = cloud.fips
  BY <1>2 DEF After, Cloud
<1>6. Owns(i..(N - 1), k) \ {<<i, k>>} = Owns((i + 1)..(N - 1), k)
  BY <1>1, OneLess
<1>7. <<i, k>> # External
  BY <1>1, NamesApart
<1>8. c.routers = Owns((i + 1)..(N - 1), k) \cup {External}
  BY <1>5, <1>6, <1>7 DEF Falling, Routed
<1>9. c.gateways = Owns({}, k) \cup {External}
  BY <1>5, <1>7 DEF Falling, Routed, Owns
<1> HIDE DEF c
<1>10. Falling(c, k, TRUE, TRUE, {}, {}, {}, (i + 1)..(N - 1), 1..N)
  BY <1>5, <1>8, <1>9 DEF Falling, Routed
<1> QED
  BY <1>4, <1>10 DEF c

LEMMA DeletesNet ==
  ASSUME NEW k \in 1..MaxCreates, NEW i \in 1..N, cloud \in Cloud,
         Falling(cloud, k, TRUE, TRUE, {}, {}, {}, {}, i..N)
  PROVE  /\ Accepted("net-delete", i) \/ cloud.vm[<<i, k>>] = "deleting"
         /\ Falling(cloud, k, TRUE, TRUE, {}, {}, {}, {}, (i + 1)..N)
         /\ Falling(After("net-delete", i), k, TRUE, TRUE, {}, {}, {}, {}, (i + 1)..N)
<1> DEFINE c == After("net-delete", i)
           me == <<i, k>>
<1>1. i \in Nat /\ N \in Nat /\ i \in i..N
  BY NeutronAssumption
<1>2. Owns(i..N, k) \ {me} = Owns((i + 1)..N, k)
  BY <1>1, OneLess
<1>3. me \in cloud.nets
  BY <1>1, OwnsHas DEF Falling
<1>4. Unique(cloud.nets, i) /\ Net(i) = me
  <2>1. cloud.nets \subseteq Owns(1..N, k)
    BY DEF Falling
  <2> QED
    BY <1>3, <2>1, UniqueOwn DEF Net
<1>5. RoutersOf(me) = {}
  BY DEF Falling, Routed, Links, RoutersOf
<1>6. ASSUME NEW o \in PortsOn(me) PROVE cloud.vm[me] = "deleting"
  <2>1. o \in Ids /\ cloud.vm[o] # "none" /\ cloud.on[o] = me
    BY <1>6 DEF PortsOn, VMs
  <2>2. o \notin Owns({}, k)
    BY OwnsHas
  <2>3. cloud.vm[o] = "deleting" /\ cloud.on[o] = o
    BY <2>1, <2>2 DEF Falling
  <2> QED
    BY <2>1, <2>3
<1>7. Accepted("net-delete", i) \/ cloud.vm[me] = "deleting"
  BY <1>4, <1>5, <1>6 DEF Accepted
<1>8. /\ c.nets = cloud.nets \ {me} /\ c.subnets = cloud.subnets \ {me}
      /\ c.routers = cloud.routers /\ c.gateways = cloud.gateways
      /\ c.ifaces = cloud.ifaces
      /\ c.vm = cloud.vm /\ c.on = cloud.on /\ c.fips = cloud.fips
  BY <1>4 DEF After, Cloud
<1> HIDE DEF c, me
<1>9. Owns((i + 1)..N, k) \subseteq c.nets /\ c.nets \subseteq Owns(1..N, k)
  BY <1>2, <1>8 DEF Falling
<1>10. Falling(c, k, TRUE, TRUE, {}, {}, {}, {}, (i + 1)..N)
  BY <1>8, <1>9 DEF Falling, Routed
<1>11. Falling(cloud, k, TRUE, TRUE, {}, {}, {}, {}, (i + 1)..N)
  BY <1>2 DEF Falling
<1> QED
  BY <1>7, <1>10, <1>11 DEF c, me

\* How far the loops of create_neutron.sh are before and after each command.
LEMMA NetPlace ==
  ASSUME NEW c, NEW k, NEW i \in 1..N, NEW p
  PROVE  /\ p = i => Creating(c, p, k) <=> Standing(c, k, 1..(i - 1), {}, {}, {}, {}, {}, {}, {})
         /\ p = i + 1 => Creating(c, p, k) <=> Standing(c, k, 1..i, {}, {}, {}, {}, {}, {}, {})
<1>1. i \in Nat \ {0} /\ i <= N /\ N \in Nat \ {0} /\ N - 1 \in Nat
  BY NeutronAssumption
<1>2. ASSUME p = i
      PROVE  /\ Before(p, 0, N) = 1..(i - 1) /\ Before(p, N, N) = {}
             /\ Before(p, 2 * N, N - 1) = {} /\ Before(p, 3 * N - 1, N - 1) = {}
             /\ Before(p, 4 * N - 2, N) = {} /\ Before(p, 5 * N - 2, N) = {}
             /\ Twice(p, 6 * N - 3, N) = {} /\ Twice(p, 6 * N - 2, N) = {}
  BY <1>1, <1>2 DEF Before, Twice
<1>3. ASSUME p = i + 1
      PROVE  /\ Before(p, 0, N) = 1..i /\ Before(p, N, N) = {} /\ Before(p, 2 * N, N - 1) = {}
             /\ Before(p, 3 * N - 1, N - 1) = {} /\ Before(p, 4 * N - 2, N) = {}
             /\ Before(p, 5 * N - 2, N) = {} /\ Twice(p, 6 * N - 3, N) = {}
             /\ Twice(p, 6 * N - 2, N) = {}
  BY <1>1, <1>3 DEF Before, Twice
<1> QED
  BY <1>2, <1>3 DEF Creating

LEMMA SubnetPlace ==
  ASSUME NEW c, NEW k, NEW i \in 1..N, NEW p
  PROVE  /\ p = N + i => Creating(c, p, k)
                <=> Standing(c, k, 1..N, 1..(i - 1), {}, {}, {}, {}, {}, {})
         /\ p = N + i + 1 => Creating(c, p, k) <=> Standing(c, k, 1..N, 1..i, {}, {}, {}, {}, {}, {})
<1>1. i \in Nat \ {0} /\ i <= N /\ N \in Nat \ {0} /\ N - 1 \in Nat
  BY NeutronAssumption
<1>2. ASSUME p = N + i
      PROVE  /\ Before(p, 0, N) = 1..N /\ Before(p, N, N) = 1..(i - 1)
             /\ Before(p, 2 * N, N - 1) = {} /\ Before(p, 3 * N - 1, N - 1) = {}
             /\ Before(p, 4 * N - 2, N) = {} /\ Before(p, 5 * N - 2, N) = {}
             /\ Twice(p, 6 * N - 3, N) = {} /\ Twice(p, 6 * N - 2, N) = {}
  BY <1>1, <1>2 DEF Before, Twice
<1>3. ASSUME p = N + i + 1
      PROVE  /\ Before(p, 0, N) = 1..N /\ Before(p, N, N) = 1..i /\ Before(p, 2 * N, N - 1) = {}
             /\ Before(p, 3 * N - 1, N - 1) = {} /\ Before(p, 4 * N - 2, N) = {}
             /\ Before(p, 5 * N - 2, N) = {} /\ Twice(p, 6 * N - 3, N) = {}
             /\ Twice(p, 6 * N - 2, N) = {}
  BY <1>1, <1>3 DEF Before, Twice
<1> QED
  BY <1>2, <1>3 DEF Creating

LEMMA RouterPlace ==
  ASSUME NEW c, NEW k, NEW i \in 1..(N - 1), NEW p
  PROVE  /\ p = 2 * N + i => Creating(c, p, k)
                <=> Standing(c, k, 1..N, 1..N, 1..(i - 1), {}, {}, {}, {}, {})
         /\ p = 2 * N + i + 1 => Creating(c, p, k)
                <=> Standing(c, k, 1..N, 1..N, 1..i, {}, {}, {}, {}, {})
<1>1. i \in Nat \ {0} /\ i <= N - 1 /\ N \in Nat \ {0} /\ N - 1 \in Nat
  BY NeutronAssumption
<1>2. ASSUME p = 2 * N + i
      PROVE  /\ Before(p, 0, N) = 1..N /\ Before(p, N, N) = 1..N
             /\ Before(p, 2 * N, N - 1) = 1..(i - 1) /\ Before(p, 3 * N - 1, N - 1) = {}
             /\ Before(p, 4 * N - 2, N) = {} /\ Before(p, 5 * N - 2, N) = {}
             /\ Twice(p, 6 * N - 3, N) = {} /\ Twice(p, 6 * N - 2, N) = {}
  BY <1>1, <1>2 DEF Before, Twice
<1>3. ASSUME p = 2 * N + i + 1
      PROVE  /\ Before(p, 0, N) = 1..N /\ Before(p, N, N) = 1..N
             /\ Before(p, 2 * N, N - 1) = 1..i /\ Before(p, 3 * N - 1, N - 1) = {}
             /\ Before(p, 4 * N - 2, N) = {} /\ Before(p, 5 * N - 2, N) = {}
             /\ Twice(p, 6 * N - 3, N) = {} /\ Twice(p, 6 * N - 2, N) = {}
  BY <1>1, <1>3 DEF Before, Twice
<1> QED
  BY <1>2, <1>3 DEF Creating

LEMMA GatewayPlace ==
  ASSUME NEW c, NEW k, NEW i \in 1..(N - 1), NEW p
  PROVE  /\ p = 3 * N - 1 + i => Creating(c, p, k)
                <=> Standing(c, k, 1..N, 1..N, 1..(N - 1), 1..(i - 1), {}, {}, {}, {})
         /\ p = 3 * N - 1 + i + 1 => Creating(c, p, k)
                <=> Standing(c, k, 1..N, 1..N, 1..(N - 1), 1..i, {}, {}, {}, {})
<1>1. i \in Nat \ {0} /\ i <= N - 1 /\ N \in Nat \ {0} /\ N - 1 \in Nat
  BY NeutronAssumption
<1>2. ASSUME p = 3 * N - 1 + i
      PROVE  /\ Before(p, 0, N) = 1..N /\ Before(p, N, N) = 1..N
             /\ Before(p, 2 * N, N - 1) = 1..(N - 1) /\ Before(p, 3 * N - 1, N - 1) = 1..(i - 1)
             /\ Before(p, 4 * N - 2, N) = {} /\ Before(p, 5 * N - 2, N) = {}
             /\ Twice(p, 6 * N - 3, N) = {} /\ Twice(p, 6 * N - 2, N) = {}
  BY <1>1, <1>2 DEF Before, Twice
<1>3. ASSUME p = 3 * N - 1 + i + 1
      PROVE  /\ Before(p, 0, N) = 1..N /\ Before(p, N, N) = 1..N
             /\ Before(p, 2 * N, N - 1) = 1..(N - 1) /\ Before(p, 3 * N - 1, N - 1) = 1..i
             /\ Before(p, 4 * N - 2, N) = {} /\ Before(p, 5 * N - 2, N) = {}
             /\ Twice(p, 6 * N - 3, N) = {} /\ Twice(p, 6 * N - 2, N) = {}
  BY <1>1, <1>3 DEF Before, Twice
<1> QED
  BY <1>2, <1>3 DEF Creating

LEMMA InterfacePlace ==
  ASSUME NEW c, NEW k, NEW i \in 1..N, NEW p
  PROVE  /\ p = 4 * N - 2 + i => Creating(c, p, k)
                <=> Standing(c, k, 1..N, 1..N, 1..(N - 1), 1..(N - 1), 1..(i - 1), {}, {}, {})
         /\ p = 4 * N - 2 + i + 1 => Creating(c, p, k)
                <=> Standing(c, k, 1..N, 1..N, 1..(N - 1), 1..(N - 1), 1..i, {}, {}, {})
<1>1. i \in Nat \ {0} /\ i <= N /\ N \in Nat \ {0} /\ N - 1 \in Nat
  BY NeutronAssumption
<1>2. ASSUME p = 4 * N - 2 + i
      PROVE  /\ Before(p, 0, N) = 1..N /\ Before(p, N, N) = 1..N
             /\ Before(p, 2 * N, N - 1) = 1..(N - 1) /\ Before(p, 3 * N - 1, N - 1) = 1..(N - 1)
             /\ Before(p, 4 * N - 2, N) = 1..(i - 1) /\ Before(p, 5 * N - 2, N) = {}
             /\ Twice(p, 6 * N - 3, N) = {} /\ Twice(p, 6 * N - 2, N) = {}
  BY <1>1, <1>2 DEF Before, Twice
<1>3. ASSUME p = 4 * N - 2 + i + 1
      PROVE  /\ Before(p, 0, N) = 1..N /\ Before(p, N, N) = 1..N
             /\ Before(p, 2 * N, N - 1) = 1..(N - 1) /\ Before(p, 3 * N - 1, N - 1) = 1..(N - 1)
             /\ Before(p, 4 * N - 2, N) = 1..i /\ Before(p, 5 * N - 2, N) = {}
             /\ Twice(p, 6 * N - 3, N) = {} /\ Twice(p, 6 * N - 2, N) = {}
  BY <1>1, <1>3 DEF Before, Twice
<1> QED
  BY <1>2, <1>3 DEF Creating

LEMMA BootPlace ==
  ASSUME NEW c, NEW k, NEW i \in 1..N, NEW p
  PROVE  /\ p = 5 * N - 2 + i => Creating(c, p, k)
                <=> Standing(c, k, 1..N, 1..N, 1..(N - 1), 1..(N - 1), 1..N, 1..(i - 1), {}, {})
         /\ p = 5 * N - 2 + i + 1 => Creating(c, p, k)
                <=> Standing(c, k, 1..N, 1..N, 1..(N - 1), 1..(N - 1), 1..N, 1..i, {}, {})
<1>1. i \in Nat \ {0} /\ i <= N /\ N \in Nat \ {0} /\ N - 1 \in Nat
  BY NeutronAssumption
<1>2. ASSUME p = 5 * N - 2 + i
      PROVE  /\ Before(p, 0, N) = 1..N /\ Before(p, N, N) = 1..N
             /\ Before(p, 2 * N, N - 1) = 1..(N - 1) /\ Before(p, 3 * N - 1, N - 1) = 1..(N - 1)
             /\ Before(p, 4 * N - 2, N) = 1..N /\ Before(p, 5 * N - 2, N) = 1..(i - 1)
             /\ Twice(p, 6 * N - 3, N) = {} /\ Twice(p, 6 * N - 2, N) = {}
  BY <1>1, <1>2 DEF Before, Twice
<1>3. ASSUME p = 5 * N - 2 + i + 1
      PROVE  /\ Before(p, 0, N) = 1..N /\ Before(p, N, N) = 1..N
             /\ Before(p, 2 * N, N - 1) = 1..(N - 1) /\ Before(p, 3 * N - 1, N - 1) = 1..(N - 1)
             /\ Before(p, 4 * N - 2, N) = 1..N /\ Before(p, 5 * N - 2, N) = 1..i
             /\ Twice(p, 6 * N - 3, N) = {} /\ Twice(p, 6 * N - 2, N) = {}
  BY <1>1, <1>3 DEF Before, Twice
<1> QED
  BY <1>2, <1>3 DEF Creating

LEMMA FipPlace ==
  ASSUME NEW c, NEW k, NEW i \in 1..N, NEW p
  PROVE  /\ p = 6 * N - 3 + 2 * i => Creating(c, p, k)
                <=> Standing(c, k, 1..N, 1..N, 1..(N - 1), 1..(N - 1), 1..N, 1..N,
                           1..(i - 1), 1..(i - 1))
         /\ p = 6 * N - 3 + 2 * i + 1 => Creating(c, p, k)
                <=> Standing(c, k, 1..N, 1..N, 1..(N - 1), 1..(N - 1), 1..N, 1..N, 1..i, 1..(i - 1))
<1>1. i \in Nat \ {0} /\ i <= N /\ N \in Nat \ {0} /\ N - 1 \in Nat
  BY NeutronAssumption
<1>2. ASSUME p = 6 * N - 3 + 2 * i
      PROVE  /\ Before(p, 0, N) = 1..N /\ Before(p, N, N) = 1..N
             /\ Before(p, 2 * N, N - 1) = 1..(N - 1) /\ Before(p, 3 * N - 1, N - 1) = 1..(N - 1)
             /\ Before(p, 4 * N - 2, N) = 1..N /\ Before(p, 5 * N - 2, N) = 1..N
             /\ Twice(p, 6 * N - 3, N) = 1..(i - 1) /\ Twice(p, 6 * N - 2, N) = 1..(i - 1)
  BY <1>1, <1>2 DEF Before, Twice
<1>3. ASSUME p = 6 * N - 3 + 2 * i + 1
      PROVE  /\ Before(p, 0, N) = 1..N /\ Before(p, N, N) = 1..N
             /\ Before(p, 2 * N, N - 1) = 1..(N - 1) /\ Before(p, 3 * N - 1, N - 1) = 1..(N - 1)
             /\ Before(p, 4 * N - 2, N) = 1..N /\ Before(p, 5 * N - 2, N) = 1..N
             /\ Twice(p, 6 * N - 3, N) = 1..i /\ Twice(p, 6 * N - 2, N) = 1..(i - 1)
  BY <1>1, <1>3 DEF Before, Twice
<1> QED
  BY <1>2, <1>3 DEF Creating

LEMMA AssociatePlace ==
  ASSUME NEW c, NEW k, NEW i \in 1..N, NEW p
  PROVE  /\ p = 6 * N - 2 + 2 * i => Creating(c, p, k)
                <=> Standing(c, k, 1..N, 1..N, 1..(N - 1), 1..(N - 1), 1..N, 1..N, 1..i, 1..(i - 1))
         /\ p = 6 * N - 2 + 2 * i + 1 => Creating(c, p, k)
                <=> Standing(c, k, 1..N, 1..N, 1..(N - 1), 1..(N - 1), 1..N, 1..N, 1..i, 1..i)
<1>1. i \in Nat \ {0} /\ i <= N /\ N \in Nat \ {0} /\ N - 1 \in Nat
  BY NeutronAssumption
<1>2. ASSUME p = 6 * N - 2 + 2 * i
      PROVE  /\ Before(p, 0, N) = 1..N /\ Before(p, N, N) = 1..N
             /\ Before(p, 2 * N, N - 1) = 1..(N - 1) /\ Before(p, 3 * N - 1, N - 1) = 1..(N - 1)
             /\ Before(p, 4 * N - 2, N) = 1..N /\ Before(p, 5 * N - 2, N) = 1..N
             /\ Twice(p, 6 * N - 3, N) = 1..i /\ Twice(p, 6 * N - 2, N) = 1..(i - 1)
  BY <1>1, <1>2 DEF Before, Twice
<1>3. ASSUME p = 6 * N - 2 + 2 * i + 1
      PROVE  /\ Before(p, 0, N) = 1..N /\ Before(p, N, N) = 1..N
             /\ Before(p, 2 * N, N - 1) = 1..(N - 1) /\ Before(p, 3 * N - 1, N - 1) = 1..(N - 1)
             /\ Before(p, 4 * N - 2, N) = 1..N /\ Before(p, 5 * N - 2, N) = 1..N
             /\ Twice(p, 6 * N - 3, N) = 1..i /\ Twice(p, 6 * N - 2, N) = 1..i
  BY <1>1, <1>3 DEF Before, Twice
<1> QED
  BY <1>2, <1>3 DEF Creating

\* What the loops of delete_neutron.sh have left before and after each command.
LEMMA DisassociatePlace ==
  ASSUME NEW c, NEW k, NEW p
  PROVE  /\ p = 1 => Deleting(c, p, k)
                <=> Falling(c, k, FALSE, FALSE, 1..N, 1..N, 1..(N - 1), 1..(N - 1), 1..N)
         /\ p = 2 => Deleting(c, p, k)
                <=> Falling(c, k, TRUE, FALSE, 1..N, 1..N, 1..(N - 1), 1..(N - 1), 1..N)
<1>1. N \in Nat \ {0} /\ N - 1 \in Nat
  BY NeutronAssumption
<1>2. ASSUME p = 1
      PROVE  /\ (p > 1) = FALSE /\ (p > 2) = FALSE /\ From(p, 2, N) = 1..N
             /\ From(p, N + 2, N) = 1..N /\ From(p, 2 * N + 2, N - 1) = 1..(N - 1)
             /\ From(p, 3 * N + 1, N - 1) = 1..(N - 1) /\ From(p, 4 * N, N) = 1..N
  BY <1>1, <1>2 DEF From
<1>3. ASSUME p = 2
      PROVE  /\ (p > 1) = TRUE /\ (p > 2) = FALSE /\ From(p, 2, N) = 1..N
             /\ From(p, N + 2, N) = 1..N /\ From(p, 2 * N + 2, N - 1) = 1..(N - 1)
             /\ From(p, 3 * N + 1, N - 1) = 1..(N - 1) /\ From(p, 4 * N, N) = 1..N
  BY <1>1, <1>3 DEF From
<1> QED
  BY <1>2, <1>3 DEF Deleting

LEMMA DeleteFipsPlace ==
  ASSUME NEW c, NEW k, NEW p
  PROVE  /\ p = 2 => Deleting(c, p, k)
                <=> Falling(c, k, TRUE, FALSE, 1..N, 1..N, 1..(N - 1), 1..(N - 1), 1..N)
         /\ p = 3 => Deleting(c, p, k)
                <=> Falling(c, k, TRUE, TRUE, 1..N, 1..N, 1..(N - 1), 1..(N - 1), 1..N)
<1>1. N \in Nat \ {0} /\ N - 1 \in Nat
  BY NeutronAssumption
<1>2. ASSUME p = 2
      PROVE  /\ (p > 1) = TRUE /\ (p > 2) = FALSE /\ From(p, 2, N) = 1..N
             /\ From(p, N + 2, N) = 1..N /\ From(p, 2 * N + 2, N - 1) = 1..(N - 1)
             /\ From(p, 3 * N + 1, N - 1) = 1..(N - 1) /\ From(p, 4 * N, N) = 1..N
  BY <1>1, <1>2 DEF From
<1>3. ASSUME p = 3
      PROVE  /\ (p > 1) = TRUE /\ (p > 2) = TRUE /\ From(p, 2, N) = 1..N
             /\ From(p, N + 2, N) = 1..N /\ From(p, 2 * N + 2, N - 1) = 1..(N - 1)
             /\ From(p, 3 * N + 1, N - 1) = 1..(N - 1) /\ From(p, 4 * N, N) = 1..N
  BY <1>1, <1>3 DEF From
<1> QED
  BY <1>2, <1>3 DEF Deleting

LEMMA DeleteVMPlace ==
  ASSUME NEW c, NEW k, NEW i \in 1..N, NEW p
  PROVE  /\ p = 2 + i => Deleting(c, p, k)
                <=> Falling(c, k, TRUE, TRUE, i..N, 1..N, 1..(N - 1), 1..(N - 1), 1..N)
         /\ p = 2 + i + 1 => Deleting(c, p, k)
                <=> Falling(c, k, TRUE, TRUE, (i + 1)..N, 1..N, 1..(N - 1), 1..(N - 1), 1..N)
<1>1. i \in Nat \ {0} /\ i <= N /\ N \in Nat \ {0} /\ N - 1 \in Nat
  BY NeutronAssumption
<1>2. ASSUME p = 2 + i
      PROVE  /\ (p > 1) = TRUE /\ (p > 2) = TRUE /\ From(p, 2, N) = i..N
             /\ From(p, N + 2, N) = 1..N /\ From(p, 2 * N + 2, N - 1) = 1..(N - 1)
             /\ From(p, 3 * N + 1, N - 1) = 1..(N - 1) /\ From(p, 4 * N, N) = 1..N
  BY <1>1, <1>2 DEF From
<1>3. ASSUME p = 2 + i + 1
      PROVE  /\ (p > 1) = TRUE /\ (p > 2) = TRUE /\ From(p, 2, N) = (i + 1)..N
             /\ From(p, N + 2, N) = 1..N /\ From(p, 2 * N + 2, N - 1) = 1..(N - 1)
             /\ From(p, 3 * N + 1, N - 1) = 1..(N - 1) /\ From(p, 4 * N, N) = 1..N
  BY <1>1, <1>3 DEF From
<1> QED
  BY <1>2, <1>3 DEF Deleting

LEMMA DeleteInterfacePlace ==
  ASSUME NEW c, NEW k, NEW i \in 1..N, NEW p
  PROVE  /\ p = N + 2 + i => Deleting(c, p, k)
                <=> Falling(c, k, TRUE, TRUE, {}, i..N, 1..(N - 1), 1..(N - 1), 1..N)
         /\ p = N + 2 + i + 1 => Deleting(c, p, k)
                <=> Falling(c, k, TRUE, TRUE, {}, (i + 1)..N, 1..(N - 1), 1..(N - 1), 1..N)
<1>1. i \in Nat \ {0} /\ i <= N /\ N \in Nat \ {0} /\ N - 1 \in Nat
  BY NeutronAssumption
<1>2. ASSUME p = N + 2 + i
      PROVE  /\ (p > 1) = TRUE /\ (p > 2) = TRUE /\ From(p, 2, N) = {}
             /\ From(p, N + 2, N) = i..N /\ From(p, 2 * N + 2, N - 1) = 1..(N - 1)
             /\ From(p, 3 * N + 1, N - 1) = 1..(N - 1) /\ From(p, 4 * N, N) = 1..N
  BY <1>1, <1>2 DEF From
<1>3. ASSUME p = N + 2 + i + 1
      PROVE  /\ (p > 1) = TRUE /\ (p > 2) = TRUE /\ From(p, 2, N) = {}
             /\ From(p, N + 2, N) = (i + 1)..N /\ From(p, 2 * N + 2, N - 1) = 1..(N - 1)
             /\ From(p, 3 * N + 1, N - 1) = 1..(N - 1) /\ From(p, 4 * N, N) = 1..N
  BY <1>1, <1>3 DEF From
<1> QED
  BY <1>2, <1>3 DEF Deleting

LEMMA ClearGatewayPlace ==
  ASSUME NEW c, NEW k, NEW i \in 1..(N - 1), NEW p
  PROVE  /\ p = 2 * N + 2 + i => Deleting(c, p, k)
                <=> Falling(c, k, TRUE, TRUE, {}, {}, i..(N - 1), 1..(N - 1), 1..N)
         /\ p = 2 * N + 2 + i + 1 => Deleting(c, p, k)
                <=> Falling(c, k, TRUE, TRUE, {}, {}, (i + 1)..(N - 1), 1..(N - 1), 1..N)
<1>1. i \in Nat \ {0} /\ i <= N - 1 /\ N \in Nat \ {0} /\ N - 1 \in Nat
  BY NeutronAssumption
<1>2. ASSUME p = 2 * N + 2 + i
      PROVE  /\ (p > 1) = TRUE /\ (p > 2) = TRUE /\ From(p, 2, N) = {} /\ From(p, N + 2, N) = {}
             /\ From(p, 2 * N + 2, N - 1) = i..(N - 1) /\ From(p, 3 * N + 1, N - 1) = 1..(N - 1)
             /\ From(p, 4 * N, N) = 1..N
  BY <1>1, <1>2 DEF From
<1>3. ASSUME p = 2 * N + 2 + i + 1
      PROVE  /\ (p > 1) = TRUE /\ (p > 2) = TRUE /\ From(p, 2, N) = {} /\ From(p, N + 2, N) = {}
             /\ From(p, 2 * N + 2, N - 1) = (i + 1)..(N - 1)
             /\ From(p, 3 * N + 1, N - 1) = 1..(N - 1) /\ From(p, 4 * N, N) = 1..N
  BY <1>1, <1>3 DEF From
<1> QED
  BY <1>2, <1>3 DEF Deleting

LEMMA DeleteRouterPlace ==
  ASSUME NEW c, NEW k, NEW i \in 1..(N - 1), NEW p
  PROVE  /\ p = 3 * N + 1 + i => Deleting(c, p, k)
                <=> Falling(c, k, TRUE, TRUE, {}, {}, {}, i..(N - 1), 1..N)
         /\ p = 3 * N + 1 + i + 1 => Deleting(c, p, k)
                <=> Falling(c, k, TRUE, TRUE, {}, {}, {}, (i + 1)..(N - 1), 1..N)
<1>1. i \in Nat \ {0} /\ i <= N - 1 /\ N \in Nat \ {0} /\ N - 1 \in Nat
  BY NeutronAssumption
<1>2. ASSUME p = 3 * N + 1 + i
      PROVE  /\ (p > 1) = TRUE /\ (p > 2) = TRUE /\ From(p, 2, N) = {} /\ From(p, N + 2, N) = {}
             /\ From(p, 2 * N + 2, N - 1) = {} /\ From(p, 3 * N + 1, N - 1) = i..(N - 1)
             /\ From(p, 4 * N, N) = 1..N
  BY <1>1, <1>2 DEF From
<1>3. ASSUME p = 3 * N + 1 + i + 1
      PROVE  /\ (p > 1) = TRUE /\ (p > 2) = TRUE /\ From(p, 2, N) = {} /\ From(p, N + 2, N) = {}
             /\ From(p, 2 * N + 2, N - 1) = {} /\ From(p, 3 * N + 1, N - 1) = (i + 1)..(N - 1)
             /\ From(p, 4 * N, N) = 1..N
  BY <1>1, <1>3 DEF From
<1> QED
  BY <1>2, <1>3 DEF Deleting

LEMMA DeleteNetPlace ==
  ASSUME NEW c, NEW k, NEW i \in 1..N, NEW p
  PROVE  /\ p = 4 * N + i => Deleting(c, p, k) <=> Falling(c, k, TRUE, TRUE, {}, {}, {}, {}, i..N)
         /\ p = 4 * N + i + 1 => Deleting(c, p, k)
                <=> Falling(c, k, TRUE, TRUE, {}, {}, {}, {}, (i + 1)..N)
<1>1. i \in Nat \ {0} /\ i <= N /\ N \in Nat \ {0} /\ N - 1 \in Nat
  BY NeutronAssumption
<1>2. ASSUME p = 4 * N + i
      PROVE  /\ (p > 1) = TRUE /\ (p > 2) = TRUE /\ From(p, 2, N) = {} /\ From(p, N + 2, N) = {}
             /\ From(p, 2 * N + 2, N - 1) = {} /\ From(p, 3 * N + 1, N - 1) = {}
             /\ From(p, 4 * N, N) = i..N
  BY <1>1, <1>2 DEF From
<1>3. ASSUME p = 4 * N + i + 1
      PROVE  /\ (p > 1) = TRUE /\ (p > 2) = TRUE /\ From(p, 2, N) = {} /\ From(p, N + 2, N) = {}
             /\ From(p, 2 * N + 2, N - 1) = {} /\ From(p, 3 * N + 1, N - 1) = {}
             /\ From(p, 4 * N, N) = (i + 1)..N
  BY <1>1, <1>3 DEF From
<1> QED
  BY <1>2, <1>3 DEF Deleting

LEMMA CreateCommand ==
  ASSUME NEW k \in 1..MaxCreates, creates = k, cloud \in Cloud, Creating(cloud, pc, k),
         NEW c, CreateHas(c, pc)
  PROVE  /\ \/ Accepted(c.op, c.i)
            \/ c.op = "associate" /\ cloud.vm[<<c.i, k>>] \in {"build", "error"}
         /\ Creating(IF Accepted(c.op, c.i) THEN After(c.op, c.i) ELSE cloud, pc + 1, k)
<1> DEFINE Goal == /\ \/ Accepted(c.op, c.i)
                      \/ c.op = "associate" /\ cloud.vm[<<c.i, k>>] \in {"build", "error"}
                   /\ Creating(IF Accepted(c.op, c.i) THEN After(c.op, c.i) ELSE cloud, pc + 1, k)
<1>1. ASSUME NEW i \in 1..N, pc = i, c = Cmd("net-create", i)
      PROVE  Goal
  <2>1. c.op = "net-create" /\ c.i = i
    BY <1>1 DEF Cmd
  <2> QED
    BY <1>1, <2>1, NetPlace, MakesNet
<1>2. ASSUME NEW i \in 1..N, pc = N + i, c = Cmd("subnet-create", i)
      PROVE  Goal
  <2>1. c.op = "subnet-create" /\ c.i = i
    BY <1>2 DEF Cmd
  <2> QED
    BY <1>2, <2>1, SubnetPlace, MakesSubnet
<1>3. ASSUME NEW i \in 1..(N - 1), pc = 2 * N + i, c = Cmd("router-create", i)
      PROVE  Goal
  <2>1. c.op = "router-create" /\ c.i = i
    BY <1>3 DEF Cmd
  <2> QED
    BY <1>3, <2>1, RouterPlace, MakesRouter
<1>4. ASSUME NEW i \in 1..(N - 1), pc = 3 * N - 1 + i, c = Cmd("gateway-set", i)
      PROVE  Goal
  <2>1. c.op = "gateway-set" /\ c.i = i
    BY <1>4 DEF Cmd
  <2> QED
    BY <1>4, <2>1, GatewayPlace, SetsGateway
<1>5. ASSUME NEW i \in 1..N, pc = 4 * N - 2 + i, c = Cmd("interface-add", i)
      PROVE  Goal
  <2>1. c.op = "interface-add" /\ c.i = i
    BY <1>5 DEF Cmd
  <2> QED
    BY <1>5, <2>1, InterfacePlace, AddsInterface
<1>6. ASSUME NEW i \in 1..N, pc = 5 * N - 2 + i, c = Cmd("boot", i)
      PROVE  Goal
  <2>1. c.op = "boot" /\ c.i = i
    BY <1>6 DEF Cmd
  <2> QED
    BY <1>6, <2>1, BootPlace, BootsVM
<1>7. ASSUME NEW i \in 1..N, pc = 6 * N - 3 + 2 * i, c = Cmd("floatingip-create", i)
      PROVE  Goal
  <2>1. c.op = "floatingip-create" /\ c.i = i
    BY <1>7 DEF Cmd
  <2> QED
    BY <1>7, <2>1, FipPlace, MakesFip
<1>8. ASSUME NEW i \in 1..N, pc = 6 * N - 2 + 2 * i, c = Cmd("associate", i)
      PROVE  Goal
  <2>1. c.op = "associate" /\ c.i = i
    BY <1>8 DEF Cmd
  <2>2. Standing(cloud, k, 1..N, 1..N, 1..(N - 1), 1..(N - 1), 1..N, 1..N, 1..i, 1..(i - 1))
    BY <1>8, AssociatePlace
  <2>3. /\ Accepted("associate", i) \/ cloud.vm[<<i, k>>] \in {"build", "error"}
        /\ Standing(cloud, k, 1..N, 1..N, 1..(N - 1), 1..(N - 1), 1..N, 1..N, 1..i, 1..i)
        /\ Standing(After("associate", i), k,
                    1..N, 1..N, 1..(N - 1), 1..(N - 1), 1..N, 1..N, 1..i, 1..i)
    BY <2>2, Associates
  <2>4. Creating(cloud, pc + 1, k) /\ Creating(After("associate", i), pc + 1, k)
    BY <1>8, <2>3, AssociatePlace
  <2> QED
    BY <2>1, <2>3, <2>4
<1> QED
  BY <1>1, <1>2, <1>3, <1>4, <1>5, <1>6, <1>7, <1>8 DEF CreateHas

LEMMA DeleteCommand ==
  ASSUME NEW k \in 1..MaxCreates, cloud \in Cloud, Deleting(cloud, pc, k),
         NEW c, DeleteHas(c, pc)
  PROVE  /\ \/ Accepted(c.op, c.i)
            \/ c.op = "net-delete" /\ cloud.vm[<<c.i, k>>] = "deleting"
         /\ Deleting(IF Accepted(c.op, c.i) THEN After(c.op, c.i) ELSE cloud, pc + 1, k)
<1> DEFINE Goal == /\ \/ Accepted(c.op, c.i)
                      \/ c.op = "net-delete" /\ cloud.vm[<<c.i, k>>] = "deleting"
                   /\ Deleting(IF Accepted(c.op, c.i) THEN After(c.op, c.i) ELSE cloud, pc + 1, k)
<1>1. ASSUME pc = 1, c = Cmd("disassociate", 0)
      PROVE  Goal
  <2>1. c.op = "disassociate" /\ c.i = 0
    BY <1>1 DEF Cmd
  <2>2. Falling(cloud, k, FALSE, FALSE, 1..N, 1..N, 1..(N - 1), 1..(N - 1), 1..N)
    BY <1>1, DisassociatePlace
  <2>3. /\ Accepted("disassociate", 0)
        /\ Falling(After("disassociate", 0), k,
                   TRUE, FALSE, 1..N, 1..N, 1..(N - 1), 1..(N - 1), 1..N)
    BY <2>2, Disassociates
  <2>4. Deleting(After("disassociate", 0), 2, k)
    BY <2>3, DisassociatePlace
  <2>5. pc + 1 = 2
    BY <1>1
  <2> QED
    BY <2>1, <2>3, <2>4, <2>5
<1>2. ASSUME pc = 2, c = Cmd("floatingip-delete", 0)
      PROVE  Goal
  <2>1. c.op = "floatingip-delete" /\ c.i = 0
    BY <1>2 DEF Cmd
  <2>2. Falling(cloud, k, TRUE, FALSE, 1..N, 1..N, 1..(N - 1), 1..(N - 1), 1..N)
    BY <1>2, DeleteFipsPlace
  <2>3. /\ Accepted("floatingip-delete", 0)
        /\ Falling(After("floatingip-delete", 0), k,
                   TRUE, TRUE, 1..N, 1..N, 1..(N - 1), 1..(N - 1), 1..N)
    BY <2>2, DeletesFips
  <2>4. Deleting(After("floatingip-delete", 0), 3, k)
    BY <2>3, DeleteFipsPlace
  <2>5. pc + 1 = 3
    BY <1>2
  <2> QED
    BY <2>1, <2>3, <2>4, <2>5
<1>3. ASSUME NEW i \in 1..N, pc = 2 + i, c = Cmd("vm-delete", i)
      PROVE  Goal
  <2>1. c.op = "vm-delete" /\ c.i = i
    BY <1>3 DEF Cmd
  <2>2. Falling(cloud, k, TRUE, TRUE, i..N, 1..N, 1..(N - 1), 1..(N - 1), 1..N)
    BY <1>3, DeleteVMPlace
  <2>3. /\ Accepted("vm-delete", i)
        /\ Falling(After("vm-delete", i), k,
                   TRUE, TRUE, (i + 1)..N, 1..N, 1..(N - 1), 1..(N - 1), 1..N)
    BY <2>2, DeletesVM
  <2>4. Deleting(After("vm-delete", i), 2 + i + 1, k)
    BY <2>3, DeleteVMPlace
  <2>5. pc + 1 = 2 + i + 1
    BY <1>3
  <2> QED
    BY <2>1, <2>3, <2>4, <2>5
<1>4. ASSUME NEW i \in 1..N, pc = N + 2 + i, c = Cmd("interface-delete", i)
      PROVE  Goal
  <2>1. c.op = "interface-delete" /\ c.i = i
    BY <1>4 DEF Cmd
  <2>2. Falling(cloud, k, TRUE, TRUE, {}, i..N, 1..(N - 1), 1..(N - 1), 1..N)
    BY <1>4, DeleteInterfacePlace
  <2>3. /\ Accepted("interface-delete", i)
        /\ Falling(After("interface-delete", i), k,
                   TRUE, TRUE, {}, (i + 1)..N, 1..(N - 1), 1..(N - 1), 1..N)
    BY <2>2, DeletesInterface
  <2>4. Deleting(After("interface-delete", i), N + 2 + i + 1, k)
    BY <2>3, DeleteInterfacePlace
  <2>5. pc + 1 = N + 2 + i + 1
    BY <1>4
  <2> QED
    BY <2>1, <2>3, <2>4, <2>5
<1>5. ASSUME NEW i \in 1..(N - 1), pc = 2 * N + 2 + i, c = Cmd("gateway-clear", i)
      PROVE  Goal
  <2>1. c.op = "gateway-clear" /\ c.i = i
    BY <1>5 DEF Cmd
  <2>2. Falling(cloud, k, TRUE, TRUE, {}, {}, i..(N - 1), 1..(N - 1), 1..N)
    BY <1>5, ClearGatewayPlace
  <2>3. /\ Accepted("gateway-clear", i)
        /\ Falling(After("gateway-clear", i), k,
                   TRUE, TRUE, {}, {}, (i + 1)..(N - 1), 1..(N - 1), 1..N)
    BY <2>2, ClearsGateway
  <2>4. Deleting(After("gateway-clear", i), 2 * N + 2 + i + 1, k)
    BY <2>3, ClearGatewayPlace
  <2>5. pc + 1 = 2 * N + 2 + i + 1
    BY <1>5
  <2> QED
    BY <2>1, <2>3, <2>4, <2>5
<1>6. ASSUME NEW i \in 1..(N - 1), pc = 3 * N + 1 + i, c = Cmd("router-delete", i)
      PROVE  Goal
  <2>1. c.op = "router-delete" /\ c.i = i
    BY <1>6 DEF Cmd
  <2>2. Falling(cloud, k, TRUE, TRUE, {}, {}, {}, i..(N - 1), 1..N)
    BY <1>6, DeleteRouterPlace
  <2>3. /\ Accepted("router-delete", i)
        /\ Falling(After("router-delete", i), k,
                   TRUE, TRUE, {}, {}, {}, (i + 1)..(N - 1), 1..N)
    BY <2>2, DeletesRouter
  <2>4. Deleting(After("router-delete", i), 3 * N + 1 + i + 1, k)
    BY <2>3, DeleteRouterPlace
  <2>5. pc + 1 = 3 * N + 1 + i + 1
    BY <1>6
  <2> QED
    BY <2>1, <2>3, <2>4, <2>5
<1>7. ASSUME NEW i \in 1..N, pc = 4 * N + i, c = Cmd("net-delete", i)
      PROVE  Goal
  <2>1. c.op = "net-delete" /\ c.i = i
    BY <1>7 DEF Cmd
  <2>2. Falling(cloud, k, TRUE, TRUE, {}, {}, {}, {}, i..N)
    BY <1>7, DeleteNetPlace
  <2>3. /\ Accepted("net-delete", i) \/ cloud.vm[<<i, k>>] = "deleting"
        /\ Falling(After("net-delete", i), k,
                   TRUE, TRUE, {}, {}, {}, {}, (i + 1)..N)
        /\ Falling(cloud, k, TRUE, TRUE, {}, {}, {}, {}, (i + 1)..N)
    BY <2>2, DeletesNet
  <2>4. Deleting(After("net-delete", i), 4 * N + i + 1, k) /\ Deleting(cloud, 4 * N + i + 1, k)
    BY <2>3, DeleteNetPlace
  <2>5. pc + 1 = 4 * N + i + 1
    BY <1>7
  <2> QED
    BY <2>1, <2>3, <2>4, <2>5
<1> QED
  BY <1>1, <1>2, <1>3, <1>4, <1>5, <1>6, <1>7 DEF DeleteHas

\* nova takes a VM further.
LEMMA NovaDoes ==
  ASSUME cloud \in Cloud, NEW o \in Ids, Boots(o) \/ Errs(o) \/ Gone(o)
  PROVE  /\ cloud'.nets = cloud.nets /\ cloud'.subnets = cloud.subnets
         /\ cloud'.routers = cloud.routers /\ cloud'.gateways = cloud.gateways
         /\ cloud'.ifaces = cloud.ifaces
         /\ \/ /\ cloud.vm[o] = "build" /\ cloud'.on = cloud.on /\ cloud'.fips = cloud.fips
               /\ \/ cloud'.vm = [cloud.vm EXCEPT ![o] = "active"]
                  \/ cloud'.vm = [cloud.vm EXCEPT ![o] = "error"]
            \/ /\ cloud.vm[o] = "deleting"
               /\ cloud'.vm = [cloud.vm EXCEPT ![o] = "none"]
               /\ cloud'.on = [cloud.on EXCEPT ![o] = NoVM]
               /\ cloud'.fips = {IF f.vm = o THEN Free(f) ELSE f : f \in cloud.fips}
BY DEF Boots, Errs, Gone, Cloud

LEMMA NovaWhileCreating ==
  ASSUME cloud \in Cloud, NEW o \in Ids, Boots(o) \/ Errs(o) \/ Gone(o),
         NEW k, NEW S, NEW T, NEW R, NEW G, NEW F, NEW V, NEW P, NEW A,
         Standing(cloud, k, S, T, R, G, F, V, P, A)
  PROVE  Standing(cloud', k, S, T, R, G, F, V, P, A)
<1>1. cloud.vm \in [Ids -> VMStates] /\ cloud.on \in [Ids -> Ids \cup {NoVM}]
  BY FieldTypes
<1>2. cloud.vm[o] # "deleting"
  BY DEF Standing, Up
<1>3. /\ cloud.vm[o] = "build" /\ cloud'.on = cloud.on /\ cloud'.fips = cloud.fips
      /\ \/ cloud'.vm = [cloud.vm EXCEPT ![o] = "active"]
         \/ cloud'.vm = [cloud.vm EXCEPT ![o] = "error"]
  BY <1>2, NovaDoes
<1>4. \A x \in Ids : \/ x \in Owns(V, k) /\ cloud'.vm[x] \in Up /\ cloud'.on[x] = x
                     \/ x \notin Owns(V, k) /\ cloud'.vm[x] = "none" /\ cloud'.on[x] = NoVM
  <2> SUFFICES ASSUME NEW x \in Ids
               PROVE  \/ x \in Owns(V, k) /\ cloud'.vm[x] \in Up /\ cloud'.on[x] = x
                      \/ x \notin Owns(V, k) /\ cloud'.vm[x] = "none" /\ cloud'.on[x] = NoVM
    OBVIOUS
  <2>1. CASE x = o
    BY <1>1, <1>3, <2>1 DEF Standing, Up
  <2>2. CASE x # o
    BY <1>1, <1>3, <2>2 DEF Standing
  <2> QED
    BY <2>1, <2>2
<1>5. /\ cloud'.nets = cloud.nets /\ cloud'.subnets = cloud.subnets
      /\ cloud'.routers = cloud.routers /\ cloud'.gateways = cloud.gateways
      /\ cloud'.ifaces = cloud.ifaces
  BY NovaDoes
<1> QED
  BY <1>3, <1>4, <1>5 DEF Standing, Routed

LEMMA NovaWhileDeleting ==
  ASSUME cloud \in Cloud, NEW o \in Ids, Boots(o) \/ Errs(o) \/ Gone(o),
         NEW k, NEW off, NEW gone, NEW V, NEW F, NEW G, NEW R, NEW S,
         Falling(cloud, k, off, gone, V, F, G, R, S)
  PROVE  Falling(cloud', k, off, gone, V, F, G, R, S)
<1>1. cloud.vm \in [Ids -> VMStates] /\ cloud.on \in [Ids -> Ids \cup {NoVM}]
      /\ cloud.fips \subseteq [id : Ids, vm : Ids \cup {NoVM}]
  BY FieldTypes
<1>2. \A x \in Ids : \/ x \in Owns(V, k) /\ cloud'.vm[x] \in Up /\ cloud'.on[x] = x
                     \/ /\ x \in Owns((1..N) \ V, k)
                        /\ cloud'.vm[x] = "deleting" /\ cloud'.on[x] = x
                     \/ x \notin Owns(V, k) /\ cloud'.vm[x] = "none" /\ cloud'.on[x] = NoVM
  <2> SUFFICES ASSUME NEW x \in Ids
               PROVE  \/ x \in Owns(V, k) /\ cloud'.vm[x] \in Up /\ cloud'.on[x] = x
                      \/ /\ x \in Owns((1..N) \ V, k)
                         /\ cloud'.vm[x] = "deleting" /\ cloud'.on[x] = x
                      \/ x \notin Owns(V, k) /\ cloud'.vm[x] = "none" /\ cloud'.on[x] = NoVM
    OBVIOUS
  <2>1. Owns((1..N) \ V, k) \cap Owns(V, k) = {}
    BY DEF Owns
  <2>2. CASE x = o /\ cloud.vm[o] = "build"
    BY <1>1, <2>2, NovaDoes DEF Falling, Up
  <2>3. CASE x = o /\ cloud.vm[o] = "deleting"
    <3>1. x \notin Owns(V, k)
      BY <2>1, <2>3 DEF Falling, Up
    <3>2. cloud'.vm[x] = "none" /\ cloud'.on[x] = NoVM
      BY <1>1, <2>3, NovaDoes
    <3> QED
      BY <3>1, <3>2
  <2>4. CASE x # o
    <3>1. cloud'.vm[x] = cloud.vm[x] /\ cloud'.on[x] = cloud.on[x]
      BY <1>1, <2>4, NovaDoes
    <3> QED
      BY <3>1 DEF Falling
  <2> QED
    BY <2>2, <2>3, <2>4, NovaDoes
<1>3. /\ \A f \in cloud'.fips : \E i \in 1..N : f.id = <<i, k>> /\ (f.vm = NoVM \/ f.vm = f.id)
      /\ off => \A f \in cloud'.fips : f.vm = NoVM
      /\ gone => cloud'.fips = {}
  <2>1. CASE cloud'.fips = cloud.fips
    BY <2>1 DEF Falling
  <2>2. CASE cloud'.fips = {IF f.vm = o THEN Free(f) ELSE f : f \in cloud.fips}
    BY <2>2 DEF Falling, Free
  <2> QED
    BY <2>1, <2>2, NovaDoes
<1> QED
  BY <1>2, <1>3, NovaDoes DEF Falling, Routed

\* create_neutron.sh begins with nothing there.
LEMMA FromNothing ==
  ASSUME NEW k
  PROVE  Creating(Nothing, 1, k)
<1>1. N \in Nat \ {0} /\ N - 1 \in Nat
  BY NeutronAssumption
<1>2. /\ Before(1, 0, N) = {} /\ Before(1, N, N) = {} /\ Before(1, 2 * N, N - 1) = {}
      /\ Before(1, 3 * N - 1, N - 1) = {} /\ Before(1, 4 * N - 2, N) = {}
      /\ Before(1, 5 * N - 2, N) = {} /\ Twice(1, 6 * N - 3, N) = {} /\ Twice(1, 6 * N - 2, N) = {}
  BY <1>1 DEF Before, Twice
<1>3. Standing(Nothing, k, {}, {}, {}, {}, {}, {}, {}, {})
  BY DEF Standing, Routed, Nothing, Owns, Links
<1> QED
  BY <1>2, <1>3 DEF Creating

\* What there is when create_neutron.sh is over.
LEMMA AllMade ==
  ASSUME NEW c, NEW k, NEW p \in Nat, p > 8 * N - 2, Creating(c, p, k)
  PROVE  Standing(c, k, 1..N, 1..N, 1..(N - 1), 1..(N - 1), 1..N, 1..N, 1..N, 1..N)
<1>1. N \in Nat \ {0} /\ N - 1 \in Nat
  BY NeutronAssumption
<1>2. /\ Before(p, 0, N) = 1..N /\ Before(p, N, N) = 1..N /\ Before(p, 2 * N, N - 1) = 1..(N - 1)
      /\ Before(p, 3 * N - 1, N - 1) = 1..(N - 1) /\ Before(p, 4 * N - 2, N) = 1..N
      /\ Before(p, 5 * N - 2, N) = 1..N /\ Twice(p, 6 * N - 3, N) = 1..N
      /\ Twice(p, 6 * N - 2, N) = 1..N
  BY <1>1 DEF Before, Twice
<1> QED
  BY <1>2 DEF Creating

\* delete_neutron.sh begins when create_neutron.sh is over.
LEMMA AllStands ==
  ASSUME NEW c, NEW k \in 1..MaxCreates, NEW p \in Nat, p > 8 * N - 2, Creating(c, p, k)
  PROVE  Deleting(c, 1, k)
<1>1. Standing(c, k, 1..N, 1..N, 1..(N - 1), 1..(N - 1), 1..N, 1..N, 1..N, 1..N)
  BY AllMade
<1>2. Falling(c, k, FALSE, FALSE, 1..N, 1..N, 1..(N - 1), 1..(N - 1), 1..N)
  BY <1>1 DEF Standing, Falling
<1> QED
  BY <1>2, DisassociatePlace

\* What is left when delete_neutron.sh is over.
LEMMA AllFallen ==
  ASSUME NEW c, NEW k, NEW p \in Nat, p > 5 * N, Deleting(c, p, k)
  PROVE  Falling(c, k, TRUE, TRUE, {}, {}, {}, {}, {})
<1>1. N \in Nat \ {0} /\ N - 1 \in Nat
  BY NeutronAssumption
<1>2. /\ (p > 1) = TRUE /\ (p > 2) = TRUE /\ From(p, 2, N) = {} /\ From(p, N + 2, N) = {}
      /\ From(p, 2 * N + 2, N - 1) = {} /\ From(p, 3 * N + 1, N - 1) = {} /\ From(p, 4 * N, N) = {}
  BY <1>1 DEF From
<1> QED
  BY <1>2 DEF Deleting

\* A cloud without its networks and VMs.
LEMMA WithoutNets ==
  ASSUME NEW c \in Cloud, NEW v, NEW w
  PROVE  [c EXCEPT !.nets = {}, !.subnets = {}, !.vm = v, !.on = w]
           = [nets |-> {}, subnets |-> {}, routers |-> c.routers, gateways |-> c.gateways,
              ifaces |-> c.ifaces, vm |-> v, on |-> w, fips |-> c.fips]
<1> DEFINE l == [c EXCEPT !.nets = {}, !.subnets = {}, !.vm = v, !.on = w]
           r == [nets |-> {}, subnets |-> {}, routers |-> c.routers, gateways |-> c.gateways,
              ifaces |-> c.ifaces, vm |-> v, on |-> w, fips |-> c.fips]
<1>1. l.nets = {} /\ l.subnets = {} /\ l.vm = v /\ l.on = w
  BY DEF Cloud
<1>2. l.routers = c.routers /\ l.gateways = c.gateways /\ l.ifaces = c.ifaces /\ l.fips = c.fips
  BY DEF Cloud
<1>3. l \in [nets : {l.nets}, subnets : {l.subnets}, routers : {l.routers}, gateways : {l.gateways},
             ifaces : {l.ifaces}, vm : {l.vm}, on : {l.on}, fips : {l.fips}]
  BY <1>1, <1>2 DEF Cloud
<1> SUFFICES l = r
  OBVIOUS
<1> HIDE DEF l
<1> QED
  BY <1>1, <1>2, <1>3

LEMMA FreshIs ==
  ASSUME Fresh, fresh
  PROVE  /\ creates \in 1..MaxCreates
         /\ script = "create" => Creating(cloud, pc, creates)
         /\ script # "create" => Deleting(cloud, pc, creates)
BY DEF Fresh

LEMMA FreshStep ==
  ASSUME Typed, Typed', Fresh, [Next]_vars
  PROVE  Fresh'
<1> SUFFICES ASSUME fresh'
             PROVE  /\ creates' \in 1..MaxCreates
                    /\ script' = "create" => Creating(cloud', pc', creates')
                    /\ script' # "create" => Deleting(cloud', pc', creates')
  BY DEF Fresh
<1>1. /\ cloud \in Cloud /\ pc \in 1..(Len(Script) + 1) /\ script \in {"create", "delete"}
      /\ Len(Script) = (IF script = "create" THEN 8 * N - 2 ELSE 5 * N)
  BY ScriptLengths DEF Typed, TypeOK
<1>2. CASE RunCreate
  <2>1. cloud = Nothing /\ script' = "create" /\ pc' = 1 /\ cloud' = cloud
    BY <1>2 DEF RunCreate
  <2>2. creates' \in 1..MaxCreates
    BY <2>1 DEF Typed
  <2> QED
    BY <2>1, <2>2, FromNothing
<1>3. CASE RunDelete
  <2>1. /\ fresh /\ script = "create" /\ ~Running
        /\ script' = "delete" /\ pc' = 1 /\ cloud' = cloud /\ creates' = creates
    BY <1>3 DEF RunDelete
  <2>2. pc \in Nat /\ pc > 8 * N - 2
    BY <1>1, <2>1, NeutronAssumption DEF Running
  <2>3. creates \in 1..MaxCreates /\ Creating(cloud, pc, creates)
    BY <2>1, FreshIs
  <2>4. Deleting(cloud, 1, creates)
    BY <2>2, <2>3, AllStands
  <2> QED
    BY <2>1, <2>3, <2>4
<1>4. CASE Command
  <2>1. PICK c : c = Script[pc]
    OBVIOUS
  <2>2. /\ Running /\ pc' = pc + 1 /\ UNCHANGED <<script, creates, fresh>>
        /\ cloud' = IF Accepted(c.op, c.i) THEN After(c.op, c.i) ELSE cloud
    BY <1>4, <2>1 DEF Command
  <2>3. creates \in 1..MaxCreates
    BY <2>2, FreshIs
  <2>4. CASE script = "create"
    <3>1. CreateHas(c, pc)
      BY <2>1, <2>2, <2>4, CommandIs
    <3>2. Creating(cloud, pc, creates)
      BY <2>2, <2>4, FreshIs
    <3>3. Creating(cloud', pc + 1, creates)
      BY <1>1, <2>2, <2>3, <3>1, <3>2, CreateCommand
    <3> QED
      BY <2>2, <2>3, <2>4, <3>3
  <2>5. CASE script # "create"
    <3>1. DeleteHas(c, pc)
      BY <2>1, <2>2, <2>5, CommandIs
    <3>2. Deleting(cloud, pc, creates)
      BY <2>2, <2>5, FreshIs
    <3>3. Deleting(cloud', pc + 1, creates)
      BY <1>1, <2>2, <2>3, <3>1, <3>2, DeleteCommand
    <3> QED
      BY <2>2, <2>3, <2>5, <3>3
  <2> QED
    BY <2>4, <2>5
<1>5. CASE CommandFails \/ Interrupt
  <2>1. fresh' = FALSE
    BY <1>5 DEF CommandFails, Interrupt
  <2> QED
    BY <2>1
<1>6. ASSUME NEW o \in Ids, Boots(o) \/ Errs(o) \/ Gone(o)
      PROVE  /\ creates' \in 1..MaxCreates
             /\ script' = "create" => Creating(cloud', pc', creates')
             /\ script' # "create" => Deleting(cloud', pc', creates')
  <2>1. UNCHANGED <<script, pc, creates, fresh>>
    BY <1>6 DEF Boots, Errs, Gone
  <2>2. creates \in 1..MaxCreates
    BY <2>1, FreshIs
  <2>3. ASSUME script = "create" PROVE Creating(cloud', pc, creates)
    <3>1. Creating(cloud, pc, creates)
      BY <2>1, <2>3, FreshIs
    <3> QED
      BY <1>1, <1>6, <3>1, NovaWhileCreating DEF Creating
  <2>4. ASSUME script # "create" PROVE Deleting(cloud', pc, creates)
    <3>1. Deleting(cloud, pc, creates)
      BY <2>1, <2>4, FreshIs
    <3> QED
      BY <1>1, <1>6, <3>1, NovaWhileDeleting DEF Deleting
  <2> QED
    BY <2>1, <2>2, <2>3, <2>4
<1>7. CASE UNCHANGED vars
  <2>1. UNCHANGED <<script, pc, cloud, creates, fresh>>
    BY <1>7 DEF vars
  <2> QED
    BY <2>1, FreshIs
<1> QED
  BY <1>2, <1>3, <1>4, <1>5, <1>6, <1>7 DEF Next

\* For any number of networks and of runs: in a run of create_neutron.sh from nothing and
\* the delete_neutron.sh after it, what there is follows from the command the script is at,
\* but for the pace of nova.
THEOREM FreshAlways == Spec => []Fresh
<1>1. Init => Fresh
  BY DEF Init, Fresh
<1>2. Typed /\ Typed' /\ Fresh /\ [Next]_vars => Fresh'
  BY FreshStep
<1> QED
  BY <1>1, <1>2, TypedAlways, PTL DEF Spec

\* For any number of networks: in such a pair of runs every command is carried out, except
\* that a VM that is not active gets no address and a VM that is not gone keeps its network
\* (create_neutron.sh:51-53, delete_neutron.sh:10-32).
THEOREM OnlyVMsAreInTheWay == Spec => []RefusedOnlyForVMs
<1>1. ASSUME Typed, Fresh PROVE RefusedOnlyForVMs
  <2> SUFFICES ASSUME fresh, Running, NEW c, c = Script[pc]
               PROVE  \/ Accepted(c.op, c.i)
                      \/ c.op = "associate" /\ cloud.vm[<<c.i, creates>>] \in {"build", "error"}
                      \/ c.op = "net-delete" /\ cloud.vm[<<c.i, creates>>] = "deleting"
    BY DEF RefusedOnlyForVMs
  <2>1. cloud \in Cloud
    BY <1>1 DEF Typed, TypeOK
  <2>2. creates \in 1..MaxCreates
    BY <1>1, FreshIs
  <2>3. CASE script = "create"
    <3>1. CreateHas(c, pc) /\ Creating(cloud, pc, creates)
      BY <1>1, <2>3, CommandIs, FreshIs
    <3> QED
      BY <2>1, <2>2, <3>1, CreateCommand
  <2>4. CASE script # "create"
    <3>1. DeleteHas(c, pc) /\ Deleting(cloud, pc, creates)
      BY <1>1, <2>4, CommandIs, FreshIs
    <3> QED
      BY <2>1, <2>2, <3>1, DeleteCommand
  <2> QED
    BY <2>3, <2>4
<1> QED
  BY <1>1, TypedAlways, FreshAlways, PTL

\* For any number of networks: behind the last command of delete_neutron.sh no floating IP,
\* interface, gateway or router of the pair of runs is left, and no VM that was not asked
\* to go (delete_neutron.sh:32).
THEOREM OnlyNetsStay == Spec => []LeavesOnlyNets
<1>1. ASSUME Typed, Fresh PROVE LeavesOnlyNets
  <2> SUFFICES ASSUME fresh, script = "delete", ~Running
               PROVE  /\ [cloud EXCEPT !.nets = {}, !.subnets = {},
                                       !.vm = Nothing.vm, !.on = Nothing.on] = Nothing
                      /\ \A o \in Ids : cloud.vm[o] \in {"none", "deleting"}
    BY DEF LeavesOnlyNets
  <2>1. cloud \in Cloud /\ pc \in Nat /\ pc > 5 * N
    <3>1. Len(Script) = 5 * N /\ pc \in 1..(Len(Script) + 1) /\ cloud \in Cloud
      BY <1>1, ScriptLengths DEF Typed, TypeOK
    <3> QED
      BY <3>1, NeutronAssumption DEF Running
  <2>2. Deleting(cloud, pc, creates)
    BY <1>1, FreshIs
  <2>3. Falling(cloud, creates, TRUE, TRUE, {}, {}, {}, {}, {})
    BY <2>1, <2>2, AllFallen
  <2>4. Owns({}, creates) = {} /\ Links({}, creates) = {}
    BY DEF Owns, Links
  <2>5. /\ cloud.routers = {External} /\ cloud.gateways = {External} /\ cloud.ifaces = {}
        /\ cloud.fips = {}
    BY <2>3, <2>4 DEF Falling, Routed
  <2>6. \A o \in Ids : cloud.vm[o] \in {"none", "deleting"}
    BY <2>3, <2>4 DEF Falling
  <2>7. [cloud EXCEPT !.nets = {}, !.subnets = {}, !.vm = Nothing.vm, !.on = Nothing.on] = Nothing
    <3> DEFINE left == [cloud EXCEPT !.nets = {}, !.subnets = {},
                                     !.vm = Nothing.vm, !.on = Nothing.on]
    <3>1. left = [nets |-> {}, subnets |-> {}, routers |-> cloud.routers,
                  gateways |-> cloud.gateways, ifaces |-> cloud.ifaces,
                  vm |-> Nothing.vm, on |-> Nothing.on, fips |-> cloud.fips]
      BY <2>1, WithoutNets
    <3>2. Nothing = [nets |-> {}, subnets |-> {}, routers |-> {External},
                     gateways |-> {External}, ifaces |-> {},
                     vm |-> Nothing.vm, on |-> Nothing.on, fips |-> {}]
      BY DEF Nothing
    <3> QED
      BY <2>5, <3>1, <3>2
  <2> QED
    BY <2>6, <2>7
<1> QED
  BY <1>1, TypedAlways, FreshAlways, PTL

-----------------------------------------------------------------------------
(* Created again: the inductive invariant *)

\* While the j-th run goes on over what the k-th has made: all of that is there, with the
\* networks and routers that the j-th run has added beside it.
Beside(c, p, k, j) ==
  /\ Owns(1..N, k) \subseteq c.nets
  /\ \A i \in 1..N : i < p => <<i, j>> \in c.nets
  /\ c.subnets = Owns(1..N, k)
  /\ Owns(1..(N - 1), k) \cup {External} \subseteq c.routers
  /\ \A i \in 1..(N - 1) : 2 * N + i < p => <<i, j>> \in c.routers
  /\ c.gateways = Owns(1..(N - 1), k) \cup {External}
  /\ c.ifaces = Links(1..N, k)
  /\ \A o \in Ids : \/ o \in Owns(1..N, k) /\ c.vm[o] \in Up /\ c.on[o] = o
                    \/ o \notin Owns(1..N, k) /\ c.vm[o] = "none" /\ c.on[o] = NoVM

Again ==
  again => /\ script = "create"
           /\ creates - 1 \in 1..MaxCreates
           /\ Beside(cloud, pc, creates - 1, creates)

\* A name that two objects have is found twice.
LEMMA Crowded ==
  ASSUME NEW S, S \subseteq Ids \cup {External}, NEW i, NEW x \in S, NEW y \in S,
         x # y, x[1] = i, y[1] = i
  PROVE  ~Unique(S, i)
<1>1. IsFiniteSet(1..N) /\ IsFiniteSet(1..MaxCreates)
  BY NeutronAssumption, FS_Interval
<1>2. IsFiniteSet(Ids)
  BY <1>1, FS_Product DEF Ids
<1>3. IsFiniteSet(Ids \cup {External})
  BY <1>2, FS_AddElement
<1>4. IsFiniteSet(Named(S, i))
  BY <1>3, FS_Subset DEF Named
<1>5. x \in Named(S, i) /\ y \in Named(S, i)
  BY DEF Named
<1> QED
  BY <1>4, <1>5, FS_Singleton DEF Unique

\* One command of the second run: it is refused, or adds something beside the first.
LEMMA BesideCommand ==
  ASSUME NEW j \in Nat, j - 1 \in 1..MaxCreates, creates = j, cloud \in Cloud, pc \in Nat,
         Beside(cloud, pc, j - 1, j), NEW c, CreateHas(c, pc)
  PROVE  Beside(IF Accepted(c.op, c.i) THEN After(c.op, c.i) ELSE cloud, pc + 1, j - 1, j)
<1> DEFINE k == j - 1
           Goal == Beside(IF Accepted(c.op, c.i) THEN After(c.op, c.i) ELSE cloud, pc + 1, k, j)
<1>1. N \in Nat \ {0} /\ k # j /\ k \in Nat
  BY NeutronAssumption
<1>2. /\ cloud.nets \subseteq Ids \cup {External}
      /\ cloud.routers \subseteq Ids \cup {External}
  BY FieldTypes
<1> HIDE DEF k
<1>3. Beside(cloud, pc, k, j)
  BY DEF k
<1>4. ASSUME NEW i \in 1..N, i < pc PROVE ~Unique(cloud.nets, i)
  <2>1. <<i, k>> \in cloud.nets /\ <<i, j>> \in cloud.nets /\ <<i, k>> # <<i, j>>
    BY <1>1, <1>3, <1>4, OwnsHas DEF Beside
  <2> QED
    BY <1>2, <2>1, Crowded
<1>5. ASSUME NEW i \in 1..N, pc = i, c = Cmd("net-create", i)
      PROVE  Goal
  <2>1. c.op = "net-create" /\ c.i = i
    BY <1>5 DEF Cmd
  <2>2. Accepted(c.op, c.i)
    BY <2>1 DEF Accepted
  <2>3. PICK d : d = After(c.op, c.i)
    OBVIOUS
  <2>4. /\ d.nets = cloud.nets \cup {<<i, j>>} /\ d.subnets = cloud.subnets
        /\ d.routers = cloud.routers /\ d.gateways = cloud.gateways /\ d.ifaces = cloud.ifaces
        /\ d.vm = cloud.vm /\ d.on = cloud.on
    BY <2>1, <2>3 DEF After, Cloud
  <2>5. \A n \in 1..N : n < pc + 1 => n < pc \/ n = i
    BY <1>1, <1>5
  <2>6. \A n \in 1..(N - 1) : ~(2 * N + n < pc + 1)
    BY <1>1, <1>5
  <2> HIDE <1>5
  <2>7. Beside(d, pc + 1, k, j)
    BY <1>3, <2>4, <2>5, <2>6 DEF Beside
  <2> QED
    BY <2>2, <2>3, <2>7
<1>6. ASSUME NEW i \in 1..(N - 1), pc = 2 * N + i, c = Cmd("router-create", i)
      PROVE  Goal
  <2>1. c.op = "router-create" /\ c.i = i
    BY <1>6 DEF Cmd
  <2>2. Accepted(c.op, c.i)
    BY <2>1 DEF Accepted
  <2>3. PICK d : d = After(c.op, c.i)
    OBVIOUS
  <2>4. /\ d.nets = cloud.nets /\ d.subnets = cloud.subnets
        /\ d.routers = cloud.routers \cup {<<i, j>>} /\ d.gateways = cloud.gateways
        /\ d.ifaces = cloud.ifaces /\ d.vm = cloud.vm /\ d.on = cloud.on
    BY <2>1, <2>3 DEF After, Cloud
  <2>5. \A n \in 1..N : n < pc + 1 => n < pc
    BY <1>1, <1>6
  <2>6. \A n \in 1..(N - 1) : 2 * N + n < pc + 1 => 2 * N + n < pc \/ n = i
    BY <1>1, <1>6
  <2> HIDE <1>6
  <2>7. Beside(d, pc + 1, k, j)
    BY <1>3, <2>4, <2>5, <2>6 DEF Beside
  <2> QED
    BY <2>2, <2>3, <2>7
<1>7. ASSUME pc > N, \A n \in 1..(N - 1) : pc # 2 * N + n, NEW d,
             d.nets = cloud.nets, d.subnets = cloud.subnets, d.routers = cloud.routers,
             d.gateways = cloud.gateways, d.ifaces = cloud.ifaces,
             d.vm = cloud.vm, d.on = cloud.on
      PROVE  Beside(d, pc + 1, k, j)
  <2>1. \A n \in 1..N : n < pc + 1 => n < pc
    BY <1>1, <1>7
  <2>2. \A n \in 1..(N - 1) : 2 * N + n < pc + 1 => 2 * N + n < pc
    BY <1>1, <1>7
  <2> QED
    BY <1>3, <1>7, <2>1, <2>2 DEF Beside
<1>8. ASSUME pc > N, \A n \in 1..(N - 1) : pc # 2 * N + n, ~Accepted(c.op, c.i)
      PROVE  Goal
  BY <1>7, <1>8
<1>9. ASSUME NEW i \in 1..N, pc = N + i, c = Cmd("subnet-create", i)
      PROVE  Goal
  <2>1. pc > N /\ i < pc /\ \A n \in 1..(N - 1) : pc # 2 * N + n
    BY <1>1, <1>9
  <2>2. ~Accepted(c.op, c.i)
    BY <1>4, <1>9, <2>1 DEF Accepted, Cmd
  <2> QED
    BY <1>8, <2>1, <2>2
<1>10. ASSUME NEW i \in 1..(N - 1), pc = 3 * N - 1 + i, c = Cmd("gateway-set", i)
       PROVE  Goal
  <2>1. pc > N /\ 2 * N + i < pc /\ \A n \in 1..(N - 1) : pc # 2 * N + n
    BY <1>1, <1>10
  <2>2. <<i, k>> \in cloud.routers /\ <<i, j>> \in cloud.routers /\ <<i, k>> # <<i, j>>
    BY <1>1, <1>3, <2>1, OwnsHas DEF Beside
  <2>3. ~Unique(cloud.routers, i)
    BY <1>2, <2>2, Crowded
  <2>4. ~Accepted(c.op, c.i)
    BY <1>10, <2>3 DEF Accepted, Cmd
  <2> QED
    BY <1>8, <2>1, <2>4
<1>11. ASSUME NEW i \in 1..N, pc = 4 * N - 2 + i, c = Cmd("interface-add", i)
       PROVE  Goal
  <2>1. pc > N /\ \A n \in 1..(N - 1) : pc # 2 * N + n
    BY <1>1, <1>11
  <2>2. The(cloud.subnets, i) = <<i, k>>
    BY <1>3, UniqueAll DEF Beside
  <2>3. << <<i, k>>, RouterOf(i, k)>> \in cloud.ifaces
    BY <1>3 DEF Beside, Links
  <2>4. RouterOf(i, k) \in cloud.routers
    <3>1. Owns(1..(N - 1), k) \subseteq cloud.routers /\ External \in cloud.routers
      BY <1>3 DEF Beside
    <3>2. i = N \/ i \in 1..(N - 1)
      BY <1>1
    <3>3. i \in 1..(N - 1) => <<i, k>> \in cloud.routers
      BY <3>1, OwnsHas
    <3> QED
      BY <3>1, <3>2, <3>3 DEF RouterOf
  <2>5. RoutersOf(<<i, k>>) # {}
    BY <2>3, <2>4 DEF RoutersOf
  <2>6. ~Accepted(c.op, c.i)
    BY <1>11, <2>2, <2>5 DEF Accepted, Cmd
  <2> QED
    BY <1>8, <2>1, <2>6
<1>12. ASSUME NEW i \in 1..N, pc = 5 * N - 2 + i, c = Cmd("boot", i)
       PROVE  Goal
  <2>1. pc > N /\ i < pc /\ \A n \in 1..(N - 1) : pc # 2 * N + n
    BY <1>1, <1>12
  <2>2. ~Accepted(c.op, c.i)
    BY <1>4, <1>12, <2>1 DEF Accepted, Cmd
  <2> QED
    BY <1>8, <2>1, <2>2
<1>13. ASSUME NEW i \in 1..N,
              \/ pc = 6 * N - 3 + 2 * i /\ c = Cmd("floatingip-create", i)
              \/ pc = 6 * N - 2 + 2 * i /\ c = Cmd("associate", i)
       PROVE  Goal
  <2>1. pc > N /\ \A n \in 1..(N - 1) : pc # 2 * N + n
    BY <1>1, <1>13
  <2>2. PICK d : d = After(c.op, c.i)
    OBVIOUS
  <2>3. /\ d.nets = cloud.nets /\ d.subnets = cloud.subnets
        /\ d.routers = cloud.routers /\ d.gateways = cloud.gateways
        /\ d.ifaces = cloud.ifaces /\ d.vm = cloud.vm /\ d.on = cloud.on
    <3>1. c.op \in {"floatingip-create", "associate"}
      BY <1>13 DEF Cmd
    <3>2. \E F : d = [cloud EXCEPT !.fips = F]
      BY <2>2, <3>1 DEF After
    <3> QED
      BY <3>2 DEF Cloud
  <2>4. Beside(d, pc + 1, k, j)
    BY <1>7, <2>1, <2>3
  <2> QED
    BY <1>8, <2>1, <2>2, <2>4
<1>14. Goal
  BY <1>5, <1>6, <1>9, <1>10, <1>11, <1>12, <1>13 DEF CreateHas
<1> QED
  BY <1>14 DEF k

LEMMA NovaBeside ==
  ASSUME cloud \in Cloud, NEW o \in Ids, Boots(o) \/ Errs(o) \/ Gone(o),
         NEW p, NEW k, NEW j, Beside(cloud, p, k, j)
  PROVE  Beside(cloud', p, k, j)
<1>1. cloud.vm \in [Ids -> VMStates]
  BY FieldTypes
<1>2. cloud.vm[o] # "deleting"
  BY DEF Beside, Up
<1>3. /\ cloud.vm[o] = "build" /\ cloud'.on = cloud.on
      /\ \/ cloud'.vm = [cloud.vm EXCEPT ![o] = "active"]
         \/ cloud'.vm = [cloud.vm EXCEPT ![o] = "error"]
  BY <1>2, NovaDoes
<1>4. \A x \in Ids : \/ cloud'.vm[x] = cloud.vm[x]
                     \/ x = o /\ cloud'.vm[x] \in Up
  BY <1>1, <1>3 DEF Up
<1>5. \A x \in Ids :
        \/ x \in Owns(1..N, k) /\ cloud'.vm[x] \in Up /\ cloud'.on[x] = x
        \/ x \notin Owns(1..N, k) /\ cloud'.vm[x] = "none" /\ cloud'.on[x] = NoVM
  BY <1>3, <1>4 DEF Beside
<1> QED
  BY <1>5, NovaDoes DEF Beside

LEMMA AgainStep ==
  ASSUME Typed, Typed', Fresh, Again, [Next]_vars
  PROVE  Again'
<1> SUFFICES ASSUME again'
             PROVE  /\ script' = "create"
                    /\ creates' - 1 \in 1..MaxCreates
                    /\ Beside(cloud', pc', creates' - 1, creates')
  BY DEF Again
<1>1. /\ cloud \in Cloud /\ pc \in 1..(Len(Script) + 1) /\ creates \in Nat
      /\ Len(Script) = (IF script = "create" THEN 8 * N - 2 ELSE 5 * N)
  BY ScriptLengths, NeutronAssumption DEF Typed, TypeOK
<1>2. CASE RunCreate
  <2>1. /\ fresh /\ script = "create" /\ ~Running
        /\ script' = "create" /\ pc' = 1 /\ cloud' = cloud /\ creates' = creates + 1
    BY <1>2 DEF RunCreate
  <2>2. pc \in Nat /\ pc > 8 * N - 2
    BY <1>1, <2>1, NeutronAssumption DEF Running
  <2>3. creates \in 1..MaxCreates /\ Creating(cloud, pc, creates)
    BY <2>1, FreshIs
  <2>4. Standing(cloud, creates, 1..N, 1..N, 1..(N - 1), 1..(N - 1), 1..N, 1..N, 1..N, 1..N)
    BY <2>2, <2>3, AllMade
  <2>5. /\ \A i \in 1..N : ~(i < 1)
        /\ \A i \in 1..(N - 1) : ~(2 * N + i < 1)
    BY NeutronAssumption
  <2>6. Beside(cloud, 1, creates, creates + 1)
    BY <2>4, <2>5 DEF Standing, Routed, Beside
  <2>7. creates' - 1 = creates
    BY <1>1, <2>1
  <2> QED
    BY <2>1, <2>3, <2>6, <2>7
<1>3. CASE RunDelete \/ CommandFails \/ Interrupt
  <2>1. again' = FALSE
    BY <1>3 DEF RunDelete, CommandFails, Interrupt
  <2> QED
    BY <2>1
<1>4. CASE Command
  <2>1. PICK c : c = Script[pc]
    OBVIOUS
  <2>2. /\ Running /\ pc' = pc + 1 /\ UNCHANGED <<script, creates, again>>
        /\ cloud' = IF Accepted(c.op, c.i) THEN After(c.op, c.i) ELSE cloud
    BY <1>4, <2>1 DEF Command
  <2>3. /\ script = "create" /\ creates - 1 \in 1..MaxCreates
        /\ Beside(cloud, pc, creates - 1, creates)
    BY <2>2 DEF Again
  <2>4. CreateHas(c, pc) /\ pc \in Nat
    BY <2>1, <2>2, <2>3, CommandIs
  <2>5. Beside(cloud', pc + 1, creates - 1, creates)
    BY <1>1, <2>2, <2>3, <2>4, BesideCommand
  <2> QED
    BY <2>2, <2>3, <2>5
<1>5. ASSUME NEW o \in Ids, Boots(o) \/ Errs(o) \/ Gone(o)
      PROVE  /\ script' = "create"
             /\ creates' - 1 \in 1..MaxCreates
             /\ Beside(cloud', pc', creates' - 1, creates')
  <2>1. UNCHANGED <<script, pc, creates, again>>
    BY <1>5 DEF Boots, Errs, Gone
  <2>2. /\ script = "create" /\ creates - 1 \in 1..MaxCreates
        /\ Beside(cloud, pc, creates - 1, creates)
    BY <2>1 DEF Again
  <2>3. Beside(cloud', pc, creates - 1, creates)
    BY <1>1, <1>5, <2>2, NovaBeside
  <2> QED
    BY <2>1, <2>2, <2>3
<1>6. CASE UNCHANGED vars
  <2>1. UNCHANGED <<script, pc, cloud, creates, again>>
    BY <1>6 DEF vars
  <2> QED
    BY <2>1 DEF Again
<1> QED
  BY <1>2, <1>3, <1>4, <1>5, <1>6 DEF Next

\* For any number of networks: a create_neutron.sh that is run over the topology of a
\* complete one leaves all of it as it was, command by command, also while nova is still
\* building its VMs (create_neutron.sh:11-45).
THEOREM FirstIsKept == Spec => []CreateAgainKeepsFirst
<1>1. Init => Again
  BY DEF Init, Again
<1>2. Typed /\ Typed' /\ Fresh /\ Again /\ [Next]_vars => Again'
  BY AgainStep
<1>3. ASSUME Typed, Again PROVE CreateAgainKeepsFirst
  <2> DEFINE first == {o \in Ids : o[2] = creates - 1}
  <2> SUFFICES ASSUME again
               PROVE  /\ first \subseteq cloud.nets /\ cloud.subnets = first
                      /\ cloud.gateways = {o \in first : o[1] # N} \cup {External}
                      /\ cloud.gateways \subseteq cloud.routers
                      /\ cloud.ifaces = {<<o, IF o[1] = N THEN External ELSE o>> : o \in first}
                      /\ VMs = first /\ \A o \in first : cloud.on[o] = o
    BY DEF CreateAgainKeepsFirst
  <2> DEFINE k == creates - 1
  <2>1. k \in 1..MaxCreates /\ Beside(cloud, pc, k, creates)
    BY <1>3 DEF Again
  <2> HIDE DEF k
  <2>2. first = Owns(1..N, k)
    BY <2>1 DEF Owns, Ids, k
  <2>3. {o \in Owns(1..N, k) : o[1] # N} = Owns(1..(N - 1), k)
    <3>1. \A i \in 1..N : i # N <=> i \in 1..(N - 1)
      BY NeutronAssumption
    <3>2. 1..(N - 1) \subseteq 1..N
      BY NeutronAssumption
    <3> QED
      BY <3>1, <3>2 DEF Owns
  <2>4. {<<o, IF o[1] = N THEN External ELSE o>> : o \in Owns(1..N, k)} = Links(1..N, k)
    BY DEF Owns, Links, RouterOf
  <2>5. VMs = Owns(1..N, k) /\ \A o \in Owns(1..N, k) : cloud.on[o] = o
    <3>1. Owns(1..N, k) \subseteq Ids
      BY <2>1 DEF Owns, Ids
    <3> QED
      BY <2>1, <3>1 DEF Beside, VMs, Up
  <2> HIDE DEF first
  <2> QED
    BY <2>1, <2>2, <2>3, <2>4, <2>5 DEF Beside
<1> QED
  BY <1>1, <1>2, <1>3, TypedAlways, FreshAlways, PTL DEF Spec
=============================================================================
