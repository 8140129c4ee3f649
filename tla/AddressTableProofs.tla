------------------------- MODULE AddressTableProofs -------------------------
(* Proofs about the address table, for every set of hostnames and ips and  *)
(* every configured duration.                                              *)
EXTENDS AddressTable, TLAPS, FiniteSetTheorems, WellFoundedInduction,
        SequenceTheorems

-----------------------------------------------------------------------------
(* Keeping some positions of a list, in their order.                       *)

\* A nonempty set of naturals has a least element.
LEMMA LeastNatural ==
  ASSUME NEW T, T \subseteq Nat, T # {}
  PROVE  \E m \in T : \A k \in T : m <= k
<1>1. PICK m \in T : \A k \in T : ~(<<k, m>> \in OpToRel(<, Nat))
  BY WFMin, NatLessThanWellFounded
<1>2. \A k \in T : ~(k < m)
  BY <1>1 DEF OpToRel
<1> QED
  BY <1>2

\* A listing of the positions below m extends to one that ends with m.
LEMMA OrderExtends ==
  ASSUME NEW m \in Nat \ {0}, NEW R \in SUBSET (1..(m - 1)),
         NEW g \in [1..Cardinality(R) -> R], Enumerates(g, R)
  PROVE  \E f \in [1..Cardinality(R \cup {m}) -> R \cup {m}] : Enumerates(f, R \cup {m})
<1>1. PICK c \in Nat : c = Cardinality(R) /\ Cardinality(R \cup {m}) = c + 1
  <2>1. IsFiniteSet(1..(m - 1))
    BY FS_Interval
  <2>2. IsFiniteSet(R)
    BY <2>1, FS_Subset
  <2>3. m \notin R
    OBVIOUS
  <2> QED
    BY <2>2, <2>3, FS_AddElement, FS_CardinalityType
<1> DEFINE f == [i \in 1..(c + 1) |-> IF i = c + 1 THEN m ELSE g[i]]
<1>2. g \in [1..c -> R]
  BY <1>1
<1>3. f \in [1..(c + 1) -> R \cup {m}]
  <2>1. \A i \in 1..(c + 1) : i # c + 1 => i \in 1..c
    OBVIOUS
  <2>2. \A i \in 1..c : g[i] \in R
    BY <1>2
  <2> QED
    BY <2>1, <2>2
<1>4. \A i \in 1..c : i \in 1..(c + 1) /\ f[i] = g[i] /\ g[i] \in 1..(m - 1)
  <2>1. \A i \in 1..c : i \in 1..(c + 1) /\ i # c + 1
    OBVIOUS
  <2>2. \A i \in 1..c : g[i] \in R
    BY <1>2
  <2> QED
    BY <2>1, <2>2
<1>5. f[c + 1] = m /\ c + 1 \in 1..(c + 1)
  OBVIOUS
<1> HIDE DEF f
<1>6. ASSUME NEW i \in 1..(c + 1), NEW j \in 1..(c + 1), i < j
      PROVE  f[i] < f[j]
  <2>1. i \in 1..c /\ f[i] = g[i] /\ g[i] \in 1..(m - 1)
    BY <1>4, <1>6
  <2>2. CASE j = c + 1
    BY <2>1, <2>2, <1>5
  <2>3. CASE j # c + 1
    <3>1. j \in 1..c /\ f[j] = g[j]
      BY <2>3, <1>4
    <3> QED
      BY <3>1, <2>1, <1>1, <1>6 DEF Enumerates
  <2> QED
    BY <2>2, <2>3
<1>7. ASSUME NEW k \in R \cup {m}
      PROVE  \E i \in 1..(c + 1) : f[i] = k
  <2>1. CASE k = m
    BY <2>1, <1>5
  <2>2. CASE k # m
    <3>1. PICK i \in 1..c : g[i] = k
      BY <2>2, <1>1 DEF Enumerates
    <3> QED
      BY <3>1, <1>4
  <2> QED
    BY <2>1, <2>2
<1>8. Enumerates(f, R \cup {m})
  BY <1>1, <1>6, <1>7 DEF Enumerates
<1> QED
  BY <1>1, <1>3, <1>8

\* Every set of positions can be listed in increasing order.
LEMMA OrderExists ==
  ASSUME NEW n \in Nat, NEW K \in SUBSET (1..n)
  PROVE  \E f \in [1..Cardinality(K) -> K] : Enumerates(f, K)
<1> DEFINE Listable(S) == \E f \in [1..Cardinality(S) -> S] : Enumerates(f, S)
           T == {m \in Nat : \E S \in SUBSET (1..m) : ~Listable(S)}
<1>1. Listable({})
  <2>1. Cardinality({}) = 0
    BY FS_EmptySet
  <2>2. [i \in 1..0 |-> i] \in [1..0 -> {}]
    OBVIOUS
  <2>3. Enumerates([i \in 1..0 |-> i], {})
    BY <2>1 DEF Enumerates
  <2> QED
    BY <2>1, <2>2, <2>3
<1>2. ASSUME NEW m \in Nat \ {0}, NEW S \in SUBSET (1..m), m \in S, Listable(S \ {m})
      PROVE  Listable(S)
  <2>1. S \ {m} \in SUBSET (1..(m - 1))
    OBVIOUS
  <2>2. S = (S \ {m}) \cup {m}
    BY <1>2
  <2>3. PICK g \in [1..Cardinality(S \ {m}) -> S \ {m}] : Enumerates(g, S \ {m})
    BY <1>2
  <2>4. Listable((S \ {m}) \cup {m})
    BY <2>1, <2>3, OrderExtends
  <2> QED
    BY <2>2, <2>4
<1> HIDE DEF Listable
<1>3. T = {}
  <2> SUFFICES ASSUME T # {} PROVE FALSE
    OBVIOUS
  <2>1. PICK m \in Nat : m \in T /\ \A k \in T : m <= k
    BY LeastNatural
  <2>2. PICK S \in SUBSET (1..m) : ~Listable(S)
    BY <2>1
  <2>3. m # 0
    <3>1. m = 0 => S = {}
      BY <2>1
    <3> QED
      BY <3>1, <2>2, <1>1
  <2>4. (m - 1) \in Nat /\ (m - 1) \notin T
    <3>1. (m - 1) \in Nat /\ ~(m <= m - 1)
      BY <2>3
    <3> HIDE DEF T
    <3> QED
      BY <3>1, <2>1
  <2>5. \A R \in SUBSET (1..(m - 1)) : Listable(R)
    BY <2>4
  <2>6. S \ {m} \in SUBSET (1..(m - 1))
    BY <2>3
  <2>7. m \notin S => S \ {m} = S
    OBVIOUS
  <2> QED
    BY <2>2, <2>3, <2>5, <2>6, <2>7, <1>2
<1>4. Listable(K)
  BY <1>3
<1> QED
  BY <1>4 DEF Listable

Elements(entries) == {entries[i] : i \in DOMAIN entries}

\* Keep picks exactly the entries at the given positions, and puts no entry
\* at two positions.
LEMMA KeepProperties ==
  ASSUME NEW S, NEW e \in Seq(S), NEW K \in SUBSET (DOMAIN e)
  PROVE  /\ Keep(e, K) \in Seq(S)
         /\ Elements(Keep(e, K)) = {e[k] : k \in K}
         /\ NoDuplicate(e) => NoDuplicate(Keep(e, K))
<1>1. K \in SUBSET (1..Len(e)) /\ Len(e) \in Nat /\ DOMAIN e = 1..Len(e)
  BY LenProperties
<1>2. PICK c \in Nat : c = Cardinality(K)
  <2>1. IsFiniteSet(1..Len(e))
    BY <1>1, FS_Interval
  <2>2. IsFiniteSet(K)
    BY <1>1, <2>1, FS_Subset
  <2> QED
    BY <2>2, FS_CardinalityType
<1>3. PICK f : f = InOrder(K)
  OBVIOUS
<1>4. f \in [1..c -> K] /\ Enumerates(f, K)
  BY <1>1, <1>2, <1>3, OrderExists DEF InOrder
<1>5. Keep(e, K) = [i \in 1..c |-> e[f[i]]]
  BY <1>2, <1>3 DEF Keep
<1>6. \A k \in K : e[k] \in S
  BY <1>1, ElementOfSeq
<1>7. \A i \in 1..c : f[i] \in K /\ f[i] \in DOMAIN e /\ f[i] \in Int
  BY <1>1, <1>4
<1>8. Keep(e, K) \in Seq(S)
  BY <1>5, <1>6, <1>7, IsASeq
<1>9. DOMAIN Keep(e, K) = 1..c /\ \A i \in 1..c : Keep(e, K)[i] = e[f[i]]
  BY <1>5
<1>10. \A k \in K : \E i \in 1..c : f[i] = k
  BY <1>2, <1>4 DEF Enumerates
<1>11. Elements(Keep(e, K)) = {e[k] : k \in K}
  <2>1. \A x : x \in Elements(Keep(e, K)) <=> \E i \in 1..c : x = e[f[i]]
    BY <1>9 DEF Elements
  <2>2. \A x : (\E i \in 1..c : x = e[f[i]]) <=> (\E k \in K : x = e[k])
    BY <1>7, <1>10
  <2> QED
    BY <2>1, <2>2
<1>12. ASSUME NEW i \in 1..c, NEW j \in 1..c, f[i] = f[j]
       PROVE  i = j
  <2>1. \A a, b \in 1..c : a < b => f[a] < f[b]
    BY <1>2, <1>4 DEF Enumerates
  <2>2. f[i] \in Int /\ ~(f[i] < f[j]) /\ ~(f[j] < f[i])
    BY <1>7, <1>12
  <2>3. ~(i < j) /\ ~(j < i)
    BY <2>1, <2>2
  <2> QED
    BY <2>3
<1>13. NoDuplicate(e) => NoDuplicate(Keep(e, K))
  BY <1>7, <1>9, <1>12 DEF NoDuplicate
<1> QED
  BY <1>8, <1>11, <1>13

-----------------------------------------------------------------------------
(* What the operations on one hostname's list do to its elements.          *)

\* In a list without duplicates indexOf finds the one match, or none.
LEMMA IndexOf ==
  ASSUME NEW e \in Seq(Entry), NoDuplicate(e), NEW ip
  PROVE  /\ indexOf(e, ip) # 0 => /\ indexOf(e, ip) \in DOMAIN e
                                  /\ e[indexOf(e, ip)].ip = ip
         /\ indexOf(e, ip) = 0 => \A i \in DOMAIN e : e[i].ip # ip
         /\ indexOf(e, ip) \in Nat
<1>1. DOMAIN e = 1..Len(e) /\ Len(e) \in Nat
  BY LenProperties
<1>2. CASE \E i \in DOMAIN e : e[i].ip = ip
  <2>1. PICK i \in DOMAIN e : e[i].ip = ip
    BY <1>2
  <2>2. \A j \in 1..(i - 1) : e[j].ip # ip
    <3> SUFFICES ASSUME NEW j \in 1..(i - 1), e[j].ip = ip PROVE FALSE
      OBVIOUS
    <3>1. j \in DOMAIN e /\ j # i
      BY <1>1
    <3> QED
      BY <3>1, <2>1 DEF NoDuplicate
  <2>3. /\ indexOf(e, ip) \in DOMAIN e
        /\ e[indexOf(e, ip)].ip = ip
    BY <2>1, <2>2 DEF indexOf
  <2> QED
    BY <2>3, <1>1
<1>3. CASE ~\E i \in DOMAIN e : e[i].ip = ip
  BY <1>3, <1>1 DEF indexOf
<1> QED
  BY <1>2, <1>3

\* Touch leaves exactly one entry for ip, of age zero, and the others alone.
LEMMA TouchProperties ==
  ASSUME NEW e \in Seq(Entry), NoDuplicate(e), NEW ip \in IPs
  PROVE  /\ Touch(e, ip) \in Seq(Entry)
         /\ NoDuplicate(Touch(e, ip))
         /\ Elements(Touch(e, ip))
              = {x \in Elements(e) : x.ip # ip} \cup {[ip |-> ip, age |-> 0]}
<1> DEFINE new == [ip |-> ip, age |-> 0]
<1>1. DOMAIN e = 1..Len(e) /\ Len(e) \in Nat
  BY LenProperties
<1>2. new \in Entry
  BY ConfigAssumption DEF Entry, Expired
<1>3. PICK k \in Nat : k = indexOf(e, ip)
  BY IndexOf
<1>4. CASE k = 0
  <2>1. \A i \in DOMAIN e : e[i].ip # ip
    BY <1>3, <1>4, IndexOf
  <2>2. Touch(e, ip) = Append(e, new)
    BY <1>3, <1>4 DEF Touch
  <2>3. /\ Append(e, new) \in Seq(Entry)
        /\ Len(Append(e, new)) = Len(e) + 1
        /\ \A i \in 1..Len(e) : Append(e, new)[i] = e[i]
        /\ Append(e, new)[Len(e) + 1] = new
    BY <1>2, AppendProperties
  <2>4. PICK t : t = Append(e, new)
    OBVIOUS
  <2>5. /\ t \in Seq(Entry)
        /\ DOMAIN t = 1..(Len(e) + 1)
        /\ \A i \in 1..Len(e) : t[i] = e[i]
        /\ t[Len(e) + 1] = new
    BY <2>3, <2>4, LenProperties
  <2>6. NoDuplicate(t)
    BY <2>1, <2>5, <1>1 DEF NoDuplicate
  <2>7. Elements(t) = {x \in Elements(e) : x.ip # ip} \cup {new}
    <3>1. \A i \in DOMAIN t : i = Len(e) + 1 \/ i \in DOMAIN e
      BY <2>5, <1>1
    <3>2. \A i \in DOMAIN e : i \in DOMAIN t
      BY <2>5, <1>1
    <3>3. Len(e) + 1 \in DOMAIN t
      BY <2>5, <1>1
    <3> HIDE DEF new
    <3> QED
      BY <2>1, <2>5, <1>1, <3>1, <3>2, <3>3 DEF Elements
  <2> QED
    BY <2>2, <2>4, <2>5, <2>6, <2>7
<1>5. CASE k # 0
  <2>1. k \in DOMAIN e /\ e[k].ip = ip
    BY <1>3, <1>5, IndexOf
  <2>2. \A i \in DOMAIN e : e[i] \in Entry
    BY <1>1, ElementOfSeq
  <2>3. [e[k] EXCEPT !.age = 0] = new
    BY <2>1, <2>2 DEF Entry
  <2>4. PICK t : t = [e EXCEPT ![k] = new]
    OBVIOUS
  <2>5. Touch(e, ip) = t
    <3>1. Touch(e, ip) = [e EXCEPT ![k] = [e[k] EXCEPT !.age = 0]]
      BY <1>3, <1>5 DEF Touch
    <3> QED
      BY <3>1, <2>3, <2>4
  <2>6. /\ t \in Seq(Entry)
        /\ DOMAIN t = DOMAIN e
        /\ t[k] = new
        /\ \A i \in DOMAIN e : i # k => t[i] = e[i]
    BY <2>1, <2>4, <1>1, <1>2, ExceptSeq
  <2>7. \A i \in DOMAIN e : t[i].ip = e[i].ip
    BY <2>1, <2>6
  <2>8. NoDuplicate(t)
    BY <2>6, <2>7 DEF NoDuplicate
  <2>9. \A i \in DOMAIN e : e[i].ip = ip => i = k
    BY <2>1 DEF NoDuplicate
  <2>10. Elements(t) = {x \in Elements(e) : x.ip # ip} \cup {new}
    <3> HIDE DEF new
    <3> QED
      BY <2>1, <2>6, <2>9 DEF Elements
  <2> QED
    BY <2>5, <2>6, <2>8, <2>10
<1> QED
  BY <1>4, <1>5

\* Without takes out exactly the entry for ip.
LEMMA WithoutProperties ==
  ASSUME NEW e \in Seq(Entry), NoDuplicate(e), NEW ip
  PROVE  /\ Without(e, ip) \in Seq(Entry)
         /\ NoDuplicate(Without(e, ip))
         /\ Elements(Without(e, ip)) = {x \in Elements(e) : x.ip # ip}
<1>1. DOMAIN e = 1..Len(e) /\ Len(e) \in Nat
  BY LenProperties
<1>2. PICK k \in Nat : k = indexOf(e, ip)
  BY IndexOf
<1>3. CASE k = 0
  <2>1. \A i \in DOMAIN e : e[i].ip # ip
    BY <1>2, <1>3, IndexOf
  <2>2. Without(e, ip) = e
    BY <1>2, <1>3 DEF Without
  <2> QED
    BY <2>1, <2>2 DEF Elements
<1>4. CASE k # 0
  <2>1. k \in DOMAIN e /\ e[k].ip = ip
    BY <1>2, <1>4, IndexOf
  <2>2. PICK n \in Nat : n = Len(e)
    BY <1>1
  <2>3. \A i \in 1..n : e[i] \in Entry
    BY <2>2, ElementOfSeq
  <2>4. PICK p : p = SubSeq(e, 1, k - 1)
    OBVIOUS
  <2>5. PICK q : q = SubSeq(e, k + 1, n)
    OBVIOUS
  <2>6. k \in 1..n
    BY <2>1, <2>2, <1>1
  <2>7. /\ p \in Seq(Entry) /\ Len(p) = k - 1
        /\ \A i \in 1..(k - 1) : p[i] = e[i]
    <3>1. \A i \in 1..(k - 1) : e[i] \in Entry
      BY <2>3, <2>6
    <3>2. /\ SubSeq(e, 1, k - 1) \in Seq(Entry)
          /\ Len(SubSeq(e, 1, k - 1)) = IF 1 <= k - 1 THEN (k - 1) - 1 + 1 ELSE 0
          /\ \A i \in 1..((k - 1) - 1 + 1) : SubSeq(e, 1, k - 1)[i] = e[1 + i - 1]
      BY <3>1, SubSeqProperties
    <3> QED
      BY <3>2, <2>4, <2>6
  <2>8. /\ q \in Seq(Entry) /\ Len(q) = n - k
        /\ \A i \in 1..(n - k) : q[i] = e[k + i]
    <3>1. \A i \in (k + 1)..n : e[i] \in Entry
      BY <2>3, <2>6
    <3>2. /\ SubSeq(e, k + 1, n) \in Seq(Entry)
          /\ Len(SubSeq(e, k + 1, n)) = IF k + 1 <= n THEN n - (k + 1) + 1 ELSE 0
          /\ \A i \in 1..(n - (k + 1) + 1) : SubSeq(e, k + 1, n)[i] = e[(k + 1) + i - 1]
      BY <3>1, SubSeqProperties
    <3> QED
      BY <3>2, <2>5, <2>6
  <2>9. PICK t : t = p \o q
    OBVIOUS
  <2>10. Without(e, ip) = t
    BY <1>2, <1>4, <2>2, <2>4, <2>5, <2>9 DEF Without
  <2>11. /\ t \in Seq(Entry) /\ DOMAIN t = 1..(n - 1)
         /\ \A i \in 1..(n - 1) : t[i] = IF i <= k - 1 THEN p[i] ELSE q[i - (k - 1)]
    <3>1. /\ t \in Seq(Entry) /\ Len(t) = Len(p) + Len(q)
          /\ \A i \in 1..(Len(p) + Len(q)) :
               t[i] = IF i <= Len(p) THEN p[i] ELSE q[i - Len(p)]
      BY <2>7, <2>8, <2>9, ConcatProperties
    <3>2. Len(p) + Len(q) = n - 1
      BY <2>6, <2>7, <2>8
    <3> QED
      BY <3>1, <3>2, <2>7, LenProperties
  <2>12. \A i \in 1..(n - 1) : t[i] = IF i < k THEN e[i] ELSE e[i + 1]
    <3> SUFFICES ASSUME NEW i \in 1..(n - 1)
                 PROVE  t[i] = IF i < k THEN e[i] ELSE e[i + 1]
      OBVIOUS
    <3>1. CASE i < k
      BY <3>1, <2>6, <2>7, <2>11
    <3>2. CASE ~(i < k)
      <4>1. i - (k - 1) \in 1..(n - k) /\ k + (i - (k - 1)) = i + 1 /\ ~(i <= k - 1)
        BY <3>2, <2>6
      <4> QED
        BY <4>1, <3>2, <2>8, <2>11
    <3> QED
      BY <3>1, <3>2
  <2>13. \A i \in DOMAIN e : e[i].ip = ip => i = k
    BY <2>1 DEF NoDuplicate
  <2>14. \A i, j \in 1..n : e[i].ip = e[j].ip => i = j
    BY <1>1, <2>2 DEF NoDuplicate
  <2>15. NoDuplicate(t)
    <3> SUFFICES ASSUME NEW i \in 1..(n - 1), NEW j \in 1..(n - 1), t[i].ip = t[j].ip
                 PROVE  i = j
      BY <2>11 DEF NoDuplicate
    <3>1. PICK i2 \in 1..n : i2 = (IF i < k THEN i ELSE i + 1) /\ t[i] = e[i2]
      BY <2>12
    <3>2. PICK j2 \in 1..n : j2 = (IF j < k THEN j ELSE j + 1) /\ t[j] = e[j2]
      BY <2>12
    <3>3. i2 = j2
      BY <3>1, <3>2, <2>14
    <3> QED
      BY <3>1, <3>2, <3>3
  <2>16. Elements(t) = {x \in Elements(e) : x.ip # ip}
    <3>1. ASSUME NEW i \in DOMAIN t
          PROVE  t[i] \in Elements(e) /\ t[i].ip # ip
      <4>1. PICK m \in 1..n : m # k /\ t[i] = e[m]
        BY <2>11, <2>12
      <4> QED
        BY <4>1, <2>13, <2>2, <1>1 DEF Elements
    <3>2. ASSUME NEW m \in DOMAIN e, e[m].ip # ip
          PROVE  \E i \in DOMAIN t : t[i] = e[m]
      <4>1. m \in 1..n /\ m # k
        BY <3>2, <2>1, <2>2, <1>1
      <4>2. CASE m < k
        BY <4>1, <4>2, <2>6, <2>11, <2>12
      <4>3. CASE m > k
        <5>1. m - 1 \in 1..(n - 1) /\ ~(m - 1 < k) /\ (m - 1) + 1 = m
          BY <4>1, <4>3, <2>6
        <5> QED
          BY <5>1, <2>11, <2>12
      <4> QED
        BY <4>1, <4>2, <4>3
    <3> QED
      BY <3>1, <3>2 DEF Elements
  <2> QED
    BY <2>10, <2>11, <2>15, <2>16
<1> QED
  BY <1>3, <1>4

\* Fresh drops exactly the stale entries.
LEMMA FreshProperties ==
  ASSUME NEW e \in Seq(Entry), NoDuplicate(e)
  PROVE  /\ Fresh(e) \in Seq(Entry)
         /\ NoDuplicate(Fresh(e))
         /\ Elements(Fresh(e)) = {x \in Elements(e) : ~IsStale(x)}
<1> DEFINE K == {i \in DOMAIN e : ~IsStale(e[i])}
<1>1. Fresh(e) = Keep(e, K)
  BY DEF Fresh
<1>2. K \in SUBSET (DOMAIN e)
  OBVIOUS
<1>3. {e[k] : k \in K} = {x \in Elements(e) : ~IsStale(x)}
  BY DEF Elements
<1> HIDE DEF K
<1> QED
  BY <1>1, <1>2, <1>3, KeepProperties

\* A clock step ages every entry of a list in place.
AgedList(e) == [i \in DOMAIN e |-> Aged(e[i])]

\* Ageing keeps a list well formed: the ips and their order stay, only ages
\* change.
LEMMA AgedProperties ==
  ASSUME NEW e \in Seq(Entry), NoDuplicate(e)
  PROVE  /\ AgedList(e) \in Seq(Entry)
         /\ NoDuplicate(AgedList(e))
         /\ Elements(AgedList(e)) = {Aged(x) : x \in Elements(e)}
         /\ \A i \in DOMAIN e : AgedList(e)[i].ip = e[i].ip
<1>1. DOMAIN e = 1..Len(e) /\ Len(e) \in Nat
  BY LenProperties
<1>2. \A i \in DOMAIN e : e[i] \in Entry
  BY <1>1, ElementOfSeq
<1>3. \A x \in Entry : Aged(x) \in Entry /\ Aged(x).ip = x.ip
  BY ConfigAssumption DEF Entry, Aged, Elapse, Expired
<1>4. AgedList(e) \in Seq(Entry)
  BY <1>1, <1>2, <1>3, IsASeq DEF AgedList
<1>5. DOMAIN AgedList(e) = DOMAIN e /\ \A i \in DOMAIN e : AgedList(e)[i] = Aged(e[i])
  BY DEF AgedList
<1>6. NoDuplicate(AgedList(e))
  BY <1>2, <1>3, <1>5 DEF NoDuplicate
<1>7. Elements(AgedList(e)) = {Aged(x) : x \in Elements(e)}
  BY <1>5 DEF Elements
<1> QED
  BY <1>2, <1>3, <1>4, <1>5, <1>6, <1>7

-----------------------------------------------------------------------------
(* The whole table: what is listed under each name, and how the four       *)
(* actions that change the table change it.                                *)

GoodList(e) == e \in Seq(Entry) /\ NoDuplicate(e)

\* A map in the code is a function here, and nothing but one.
IsMap(a) == a = [h \in DOMAIN a |-> a[h]]

GoodTable(a) ==
  /\ IsMap(a)
  /\ \A h \in DOMAIN a : h \in Fqdns(Hostname) /\ GoodList(a[h])

At(a, h) == IF h \in DOMAIN a THEN Elements(a[h]) ELSE {}

NewEntry(ip) == [ip |-> ip, age |-> 0]

\* The list of a hostname that has no key is well formed and empty.
LEMMA EmptyList == GoodList(<<>>) /\ Elements(<<>>) = {}
<1>1. <<>> \in Seq(Entry) /\ DOMAIN <<>> = {}
  OBVIOUS
<1> QED
  BY <1>1 DEF GoodList, NoDuplicate, Elements

\* Every spelling has its qualified form among the keys the table may hold.
LEMMA Qualified ==
  ASSUME NEW hostnames \in HostnameLists
  PROVE  Fqdns(hostnames) \subseteq Fqdns(Hostname)
BY DEF HostnameLists, Fqdns

\* Add keeps the table well formed; of each named hostname it replaces the
\* entry with that ip by a new one, and it touches no other hostname.
LEMMA AddChanges ==
  ASSUME NEW hostnames \in HostnameLists, NEW ip \in IPs,
         GoodTable(addresses), Add(hostnames, ip)
  PROVE  /\ GoodTable(addresses')
         /\ \A h : At(addresses', h) =
              IF h \in Fqdns(hostnames)
              THEN {x \in At(addresses, h) : x.ip # ip} \cup {NewEntry(ip)}
              ELSE At(addresses, h)
<1> DEFINE F == Fqdns(hostnames)
<1>1. F \subseteq Fqdns(Hostname)
  BY Qualified
<1> HIDE DEF F
<1>2. /\ DOMAIN addresses' = DOMAIN addresses \cup F
      /\ \A h \in DOMAIN addresses \cup F :
           addresses'[h] = IF h \in F THEN Touch(entriesForHostname(h), ip)
                           ELSE addresses[h]
  BY DEF Add, F
<1>2a. IsMap(addresses')
  BY DEF IsMap, Add
<1>3. ASSUME NEW h
      PROVE  GoodList(entriesForHostname(h)) /\ Elements(entriesForHostname(h)) = At(addresses, h)
  BY EmptyList DEF GoodTable, entriesForHostname, At
<1>4. ASSUME NEW h
      PROVE  /\ GoodList(Touch(entriesForHostname(h), ip))
             /\ Elements(Touch(entriesForHostname(h), ip))
                  = {x \in At(addresses, h) : x.ip # ip} \cup {NewEntry(ip)}
  BY <1>3, TouchProperties DEF GoodList, NewEntry
<1>5. GoodTable(addresses')
  BY <1>1, <1>2, <1>2a, <1>4 DEF GoodTable
<1>6. ASSUME NEW h
      PROVE  At(addresses', h) = IF h \in F
                                 THEN {x \in At(addresses, h) : x.ip # ip} \cup {NewEntry(ip)}
                                 ELSE At(addresses, h)
  <2>1. CASE h \in F
    BY <2>1, <1>2, <1>4 DEF At
  <2>2. CASE h \notin F
    BY <2>2, <1>2 DEF At
  <2> QED
    BY <2>1, <2>2
<1> QED
  BY <1>5, <1>6 DEF F

\* Remove keeps the table well formed; it takes the entry with that ip out of
\* each named hostname and touches nothing else, deleted keys included.
LEMMA RemoveChanges ==
  ASSUME NEW hostnames \in HostnameLists, NEW ip,
         GoodTable(addresses), Remove(hostnames, ip)
  PROVE  /\ GoodTable(addresses')
         /\ \A h : At(addresses', h) =
              IF h \in Fqdns(hostnames)
              THEN {x \in At(addresses, h) : x.ip # ip}
              ELSE At(addresses, h)
<1> DEFINE F == Fqdns(hostnames)
           deleted == {h \in F \cap DOMAIN addresses :
                         indexOf(addresses[h], ip) # 0 /\ Len(addresses[h]) = 1}
<1>1. /\ DOMAIN addresses' = DOMAIN addresses \ deleted
      /\ \A h \in DOMAIN addresses \ deleted :
           addresses'[h] = IF h \in F THEN Without(addresses[h], ip) ELSE addresses[h]
  BY DEF Remove
<1>1a. IsMap(addresses')
  BY DEF IsMap, Remove
<1>2. ASSUME NEW h \in DOMAIN addresses
      PROVE  /\ GoodList(Without(addresses[h], ip))
             /\ Elements(Without(addresses[h], ip)) = {x \in At(addresses, h) : x.ip # ip}
  BY WithoutProperties DEF GoodTable, GoodList, At
<1>3. ASSUME NEW h \in deleted
      PROVE  {x \in At(addresses, h) : x.ip # ip} = {}
  <2>1. GoodList(addresses[h]) /\ h \in DOMAIN addresses
    BY DEF GoodTable
  <2>2. PICK e : e = addresses[h]
    OBVIOUS
  <2>3. e \in Seq(Entry) /\ NoDuplicate(e) /\ Len(e) = 1 /\ indexOf(e, ip) # 0
    BY <2>1, <2>2 DEF GoodList
  <2>4. DOMAIN e = 1..1
    BY <2>3, LenProperties
  <2>5. indexOf(e, ip) \in DOMAIN e /\ e[indexOf(e, ip)].ip = ip
    BY <2>3, IndexOf
  <2>6. \A i \in DOMAIN e : e[i].ip = ip
    BY <2>4, <2>5
  <2> QED
    BY <2>1, <2>2, <2>6 DEF At, Elements
<1>4. deleted \subseteq F
  OBVIOUS
<1> HIDE DEF deleted, F
<1>5. GoodTable(addresses')
  BY <1>1, <1>1a, <1>2 DEF GoodTable
<1>6. ASSUME NEW h
      PROVE  At(addresses', h) = IF h \in F THEN {x \in At(addresses, h) : x.ip # ip}
                                 ELSE At(addresses, h)
  <2>1. CASE h \in deleted
    BY <2>1, <1>1, <1>3, <1>4 DEF At
  <2>2. CASE h \notin DOMAIN addresses
    BY <2>2, <1>1 DEF At
  <2>3. CASE h \in DOMAIN addresses \ deleted
    BY <2>3, <1>1, <1>2 DEF At
  <2> QED
    BY <2>1, <2>2, <2>3
<1> QED
  BY <1>5, <1>6 DEF F

\* Removing what is not an ip, such as the value of a missing field, changes
\* nothing: no entry has it.
LEMMA RemoveNothing ==
  ASSUME NEW hostnames, NEW ip, ip \notin IPs, GoodTable(addresses), Remove(hostnames, ip)
  PROVE  UNCHANGED tableVars
<1>1. ASSUME NEW h \in DOMAIN addresses
      PROVE  indexOf(addresses[h], ip) = 0
  <2>1. addresses[h] \in Seq(Entry) /\ NoDuplicate(addresses[h])
    BY DEF GoodTable, GoodList
  <2>2. \A i \in DOMAIN addresses[h] : addresses[h][i] \in Entry
    BY <2>1, LenProperties, ElementOfSeq
  <2>3. \A i \in DOMAIN addresses[h] : addresses[h][i].ip # ip
    BY <2>2 DEF Entry
  <2> QED
    BY <2>3 DEF indexOf
<1>2. \A h \in DOMAIN addresses : Without(addresses[h], ip) = addresses[h]
  BY <1>1 DEF Without
<1>3. addresses' = [h \in DOMAIN addresses |-> addresses[h]]
  BY <1>1, <1>2 DEF Remove
<1>4. addresses' = addresses
  BY <1>3 DEF GoodTable, IsMap
<1> QED
  BY <1>4 DEF Remove, prunerVars, tableVars

\* The write-locked pass keeps the table well formed and takes exactly the
\* entries that are stale now out of the candidates.
LEMMA PruneChanges ==
  ASSUME GoodTable(addresses), PruneStale
  PROVE  /\ GoodTable(addresses')
         /\ \A h : At(addresses', h) =
              IF h \in staleAddresses
              THEN {x \in At(addresses, h) : ~IsStale(x)}
              ELSE At(addresses, h)
<1>1. /\ DOMAIN addresses' = DOMAIN addresses
      /\ \A h \in DOMAIN addresses :
           addresses'[h] = IF h \in staleAddresses THEN Fresh(addresses[h])
                           ELSE addresses[h]
  BY DEF PruneStale
<1>1a. IsMap(addresses')
  BY DEF IsMap, PruneStale
<1>2. ASSUME NEW h \in DOMAIN addresses
      PROVE  /\ GoodList(Fresh(addresses[h]))
             /\ Elements(Fresh(addresses[h])) = {x \in At(addresses, h) : ~IsStale(x)}
  BY FreshProperties DEF GoodTable, GoodList, At
<1>3. GoodTable(addresses')
  BY <1>1, <1>1a, <1>2 DEF GoodTable
<1>4. ASSUME NEW h
      PROVE  At(addresses', h) = IF h \in staleAddresses
                                 THEN {x \in At(addresses, h) : ~IsStale(x)}
                                 ELSE At(addresses, h)
  <2>1. CASE h \in DOMAIN addresses
    BY <2>1, <1>1, <1>2 DEF At
  <2>2. CASE h \notin DOMAIN addresses
    BY <2>2, <1>1 DEF At
  <2> QED
    BY <2>1, <2>2
<1> QED
  BY <1>3, <1>4

\* A clock step keeps the table well formed and makes every entry older.
LEMMA TickChanges ==
  ASSUME GoodTable(addresses), TableTick
  PROVE  /\ GoodTable(addresses')
         /\ \A h : At(addresses', h) = {Aged(x) : x \in At(addresses, h)}
<1>1. /\ DOMAIN addresses' = DOMAIN addresses
      /\ \A h \in DOMAIN addresses : addresses'[h] = AgedList(addresses[h])
  BY DEF TableTick, AgedList
<1>1a. IsMap(addresses')
  BY DEF IsMap, TableTick
<1>2. ASSUME NEW h \in DOMAIN addresses
      PROVE  /\ GoodList(AgedList(addresses[h]))
             /\ Elements(AgedList(addresses[h])) = {Aged(x) : x \in At(addresses, h)}
  BY AgedProperties DEF GoodTable, GoodList, At
<1>3. GoodTable(addresses')
  BY <1>1, <1>1a, <1>2 DEF GoodTable
<1>4. ASSUME NEW h
      PROVE  At(addresses', h) = {Aged(x) : x \in At(addresses, h)}
  <2>1. CASE h \in DOMAIN addresses
    BY <2>1, <1>1, <1>2 DEF At
  <2>2. CASE h \notin DOMAIN addresses
    BY <2>2, <1>1 DEF At
  <2> QED
    BY <2>1, <2>2
<1> QED
  BY <1>3, <1>4

-----------------------------------------------------------------------------
(* The inductive invariant.  Every key is a qualified hostname with a list *)
(* of well-typed entries without duplicates: each list operation needs the *)
(* absence of duplicates to preserve it, since indexOf sees one match      *)
(* only, and SpellingsAgree needs the keys to be qualified.                *)

Tickers == [left: 1..PruningInterval, fired: BOOLEAN, stopped: BOOLEAN]

ControlOK ==
  /\ pausedPruning \in BOOLEAN
  /\ sinceResume \in 0..ResumePruningDelay
  /\ warm \in BOOLEAN
  /\ ticker \in Tickers
  /\ prunePc \in {"wait", "scan", "prune"}
  /\ staleAddresses \subseteq Fqdns(Hostname)
  /\ (prunePc = "prune") <=> (staleAddresses # {})

TableInv == GoodTable(addresses) /\ ControlOK

\* The clock and the goroutine keep the ticker's record and the resume timer
\* in range.
LEMMA TickerTypes ==
  ASSUME NEW t \in Tickers
  PROVE  /\ TickerElapse(t) \in Tickers
         /\ [t EXCEPT !.fired = FALSE] \in Tickers
<1>1. t.left \in 1..PruningInterval /\ t.fired \in BOOLEAN /\ t.stopped \in BOOLEAN
  BY DEF Tickers
<1>2. ASSUME NEW l \in 1..PruningInterval, NEW f \in BOOLEAN
      PROVE  [t EXCEPT !.left = l, !.fired = f] \in Tickers
  BY <1>2 DEF Tickers
<1>3. ASSUME NEW l \in 1..PruningInterval
      PROVE  [t EXCEPT !.left = l] \in Tickers
  BY <1>3 DEF Tickers
<1>4. [t EXCEPT !.fired = FALSE] \in Tickers
  BY DEF Tickers
<1>5. CASE t.stopped
  BY <1>5, <1>4 DEF TickerElapse
<1>6. CASE ~t.stopped /\ t.left = 1
  <2>1. TickerElapse(t) = [t EXCEPT !.left = PruningInterval, !.fired = TRUE]
    BY <1>6 DEF TickerElapse
  <2>2. PruningInterval \in 1..PruningInterval
    BY ConfigAssumption
  <2> QED
    BY <2>1, <2>2, <1>2, <1>4
<1>7. CASE ~t.stopped /\ t.left # 1
  <2>1. TickerElapse(t) = [t EXCEPT !.left = t.left - 1]
    BY <1>7 DEF TickerElapse
  <2>2. t.left - 1 \in 1..PruningInterval
    BY <1>1, <1>7, ConfigAssumption
  <2> QED
    BY <2>1, <2>2, <1>3, <1>4
<1> QED
  BY <1>1, <1>5, <1>6, <1>7

\* The new, empty table satisfies the inductive invariant.
LEMMA TableInitInv == TableInit => TableInv
<1> SUFFICES ASSUME TableInit PROVE TableInv
  OBVIOUS
<1>1. DOMAIN addresses = {} /\ IsMap(addresses)
  BY DEF TableInit, IsMap
<1>2. GoodTable(addresses)
  BY <1>1 DEF GoodTable
<1>3. ticker \in Tickers
  BY ConfigAssumption DEF TableInit, Tickers
<1>4. sinceResume \in 0..ResumePruningDelay
  BY ConfigAssumption DEF TableInit
<1>5. ControlOK
  BY <1>3, <1>4 DEF TableInit, ControlOK
<1> QED
  BY <1>2, <1>5 DEF TableInv

\* Every step keeps the invariant.
LEMMA TableNextInv == TableInv /\ [TableNext]_tableVars => TableInv'
<1> SUFFICES ASSUME TableInv, [TableNext]_tableVars PROVE TableInv'
  OBVIOUS
<1> USE DEF TableInv
<1>1. ASSUME NEW hostnames \in HostnameLists, NEW ip \in IPs, Add(hostnames, ip)
      PROVE  TableInv'
  <2>1. GoodTable(addresses')
    BY <1>1, AddChanges
  <2>2. ControlOK'
    BY <1>1 DEF Add, ControlOK, prunerVars
  <2> QED
    BY <2>1, <2>2
<1>2. ASSUME NEW hostnames \in HostnameLists, NEW ip \in IPs, Remove(hostnames, ip)
      PROVE  TableInv'
  <2>1. GoodTable(addresses')
    BY <1>2, RemoveChanges
  <2>2. ControlOK'
    BY <1>2 DEF Remove, ControlOK, prunerVars
  <2> QED
    BY <2>1, <2>2
<1>3. CASE SetWarm
  BY <1>3 DEF SetWarm, ControlOK, prunerVars
<1>4. CASE PausePruning
  BY <1>4 DEF PausePruning, ControlOK, prunerVars
<1>5. CASE ResumePruning
  <2>1. 0 \in 0..ResumePruningDelay
    BY ConfigAssumption
  <2> QED
    BY <1>5, <2>1 DEF ResumePruning, ControlOK, prunerVars
<1>6. CASE Shutdown
  BY <1>6 DEF Shutdown, ControlOK, Tickers, prunerVars, fieldVars
<1>7. CASE PruneCheck
  BY <1>7, TickerTypes DEF PruneCheck, ControlOK, fieldVars
<1>8. CASE FindStale
  <2>1. DOMAIN addresses \subseteq Fqdns(Hostname)
    BY DEF GoodTable
  <2> QED
    BY <1>8, <2>1 DEF FindStale, ControlOK, fieldVars
<1>9. CASE PruneStale
  <2>1. GoodTable(addresses')
    BY <1>9, PruneChanges
  <2>2. ControlOK'
    BY <1>9 DEF PruneStale, ControlOK
  <2> QED
    BY <2>1, <2>2
<1>10. CASE TableTick
  <2>1. GoodTable(addresses')
    BY <1>10, TickChanges
  <2>2. Elapse(sinceResume, ResumePruningDelay) \in 0..ResumePruningDelay
    BY ConfigAssumption DEF ControlOK, Elapse
  <2>3. TickerElapse(ticker) \in Tickers
    BY TickerTypes DEF ControlOK
  <2>4. ControlOK'
    BY <1>10, <2>2, <2>3 DEF TableTick, ControlOK, prunerVars
  <2> QED
    BY <2>1, <2>4
<1>11. CASE UNCHANGED tableVars
  BY <1>11 DEF tableVars, ControlOK
<1> QED
  BY <1>1, <1>2, <1>3, <1>4, <1>5, <1>6, <1>7, <1>8, <1>9, <1>10, <1>11 DEF TableNext

\* The inductive invariant holds throughout.
LEMMA TableInvariance == TableSpec => []TableInv
<1>1. TableInit => TableInv
  BY TableInitInv
<1>2. TableInv /\ [TableNext]_tableVars => TableInv'
  BY TableNextInv
<1> QED
  BY <1>1, <1>2, PTL DEF TableSpec

\* The invariant gives the table's types.
LEMMA TableInvTypes == TableInv => TableTypeOK
<1>1. Fqdns(Hostname) \subseteq Hostname
  BY DEF Fqdns, fqdn, Hostname
<1> QED
  BY <1>1 DEF TableInv, GoodTable, GoodList, ControlOK, Tickers, TableTypeOK

\* The table's fields, the lists and the pruning goroutine's state have
\* their types in every reachable state.
THEOREM TypeCorrect == TableSpec => []TableTypeOK
  BY TableInvTypes, TableInvariance, PTL

\* No hostname ever lists an ip twice, for any sets of hostnames and ips and
\* any interleaving of registrations, unregistrations and pruning.
THEOREM NoDuplicates == TableSpec => []UniqueIPs
<1>1. TableInv => UniqueIPs
  BY DEF TableInv, GoodTable, GoodList, UniqueIPs
<1> QED
  BY <1>1, TableInvariance, PTL

\* Lookup, under either spelling, and the listing of all routes always agree.
THEOREM LookupFindsAll == TableSpec => []SpellingsAgree
<1>1. ASSUME TableInv, NEW h \in DOMAIN addresses, NEW s \in Hostname, s.label = h.label
      PROVE  Lookup(s) = GetAllAddresses[h]
  <2>1. h \in Hostname /\ h.dot = TRUE
    BY <1>1 DEF TableInv, GoodTable, Fqdns, fqdn, isFqdn, Hostname
  <2>2. fqdn(s) = h
    BY <1>1, <2>1 DEF fqdn, isFqdn, Hostname
  <2> QED
    BY <2>2 DEF Lookup, GetAllAddresses, entriesForHostname
<1>2. TableInv => SpellingsAgree
  BY <1>1 DEF SpellingsAgree
<1> QED
  BY <1>2, TableInvariance, PTL

-----------------------------------------------------------------------------
(* What a step may do to the routes.                                       *)

\* What Listed and Stale say, in terms of the set of entries of a hostname.
LEMMA ListedAt ==
  ASSUME NEW h, NEW ip
  PROVE  /\ Listed(h, ip) <=> \E x \in At(addresses, h) : x.ip = ip
         /\ Listed(h, ip)' <=> \E x \in At(addresses', h) : x.ip = ip
         /\ Stale(h, ip) <=> \E x \in At(addresses, h) : x.ip = ip /\ IsStale(x)
BY DEF Listed, Stale, At, Elements

\* One step makes a route vanish only if it is stale or named by a Remove.
LEMMA StepKeepsFresh ==
  ASSUME TableInv, [TableNext]_tableVars, NEW h \in Hostname, NEW ip \in IPs,
         Listed(h, ip), ~Listed(h, ip)'
  PROVE  Stale(h, ip) \/ Unregisters(h, ip)
<1> USE DEF TableInv
<1>1. PICK x \in At(addresses, h) : x.ip = ip
  BY ListedAt
<1>2. ~\E y \in At(addresses', h) : y.ip = ip
  BY ListedAt
<1>3. addresses' # addresses
  BY <1>1, <1>2
<1>4. ASSUME NEW hostnames \in HostnameLists, NEW p \in IPs, Add(hostnames, p)
      PROVE  FALSE
  <2>1. NewEntry(p).ip = p
    BY DEF NewEntry
  <2>2. At(addresses', h) = IF h \in Fqdns(hostnames)
                            THEN {y \in At(addresses, h) : y.ip # p} \cup {NewEntry(p)}
                            ELSE At(addresses, h)
    BY <1>4, AddChanges
  <2> QED
    BY <2>1, <2>2, <1>1, <1>2
<1>5. ASSUME NEW hostnames \in HostnameLists, NEW p \in IPs, Remove(hostnames, p)
      PROVE  Unregisters(h, ip)
  <2>1. h \in Fqdns(hostnames) /\ p = ip
    BY <1>1, <1>2, <1>5, RemoveChanges
  <2> QED
    BY <2>1, <1>5 DEF Unregisters
<1>6. CASE PruneStale
  <2>1. IsStale(x)
    BY <1>1, <1>2, <1>6, PruneChanges
  <2> QED
    BY <2>1, <1>1, ListedAt
<1>7. CASE TableTick
  <2>1. Aged(x) \in At(addresses', h)
    BY <1>1, <1>7, TickChanges
  <2>2. x \in Entry
    <3>1. h \in DOMAIN addresses /\ \E i \in DOMAIN addresses[h] : x = addresses[h][i]
      BY <1>1 DEF At, Elements
    <3>2. addresses[h] \in Seq(Entry)
      BY <3>1 DEF GoodTable, GoodList
    <3> QED
      BY <3>1, <3>2, LenProperties
  <2>3. Aged(x).ip = ip
    BY <1>1, <2>2 DEF Aged, Entry
  <2> QED
    BY <1>2, <2>1, <2>3
<1>8. ~SetWarm /\ ~PausePruning /\ ~ResumePruning /\ ~Shutdown /\ ~PruneCheck /\ ~FindStale
  BY <1>3 DEF SetWarm, PausePruning, ResumePruning, Shutdown, PruneCheck, FindStale,
              fieldVars
<1>9. ~UNCHANGED tableVars
  BY <1>3 DEF tableVars
<1> QED
  BY <1>4, <1>5, <1>6, <1>7, <1>8, <1>9 DEF TableNext

\* No pass of the pruning goroutine, however it interleaves with the
\* registrations, ever takes out a route that is within the threshold.
THEOREM FreshSurvive == TableSpec => FreshRoutesSurvive
<1>1. TableInv /\ [TableNext]_tableVars =>
        [\A h \in Hostname, ip \in IPs :
           Listed(h, ip) /\ ~Listed(h, ip)' => Stale(h, ip) \/ Unregisters(h, ip)]_tableVars
  BY StepKeepsFresh
<1> QED
  BY <1>1, TableInvariance, PTL DEF TableSpec, FreshRoutesSurvive

-----------------------------------------------------------------------------
(* The table implements the abstract registry.                             *)

RouteAt(h, x) == [name |-> h, ip |-> x.ip, age |-> x.age]

RoutesOf(a) == UNION {{RouteAt(h, x) : x \in At(a, h)} : h \in Fqdns(Hostname)}

\* The refinement mapping in terms of what is listed under each name.
LEMMA RoutesAreOf ==
  /\ GoodTable(addresses)  => Routes = RoutesOf(addresses)
  /\ GoodTable(addresses') => Routes' = RoutesOf(addresses')
BY DEF Routes, RoutesOf, RouteAt, At, Elements, GoodTable

\* When a route belongs to a table.
LEMMA RouteIn ==
  ASSUME NEW a, NEW r
  PROVE  r \in RoutesOf(a) <=> \E h \in Fqdns(Hostname) : \E x \in At(a, h) : r = RouteAt(h, x)
BY DEF RoutesOf

\* Add registers its hostnames at the ip in the abstract registry.
LEMMA AddRegisters ==
  ASSUME GoodTable(addresses), NEW hostnames \in HostnameLists, NEW ip \in IPs,
         Add(hostnames, ip)
  PROVE  Registry!Register(Fqdns(hostnames), ip)
<1> DEFINE F == Fqdns(hostnames)
           N == Fqdns(Hostname)
           added == {[name |-> n, ip |-> ip, age |-> 0] : n \in F}
<1>1. F \subseteq N
  BY Qualified
<1>2. /\ Routes = RoutesOf(addresses)
      /\ Routes' = RoutesOf(addresses')
  BY AddChanges, RoutesAreOf
<1>3. \A h : At(addresses', h) =
               IF h \in F THEN {x \in At(addresses, h) : x.ip # ip} \cup {NewEntry(ip)}
               ELSE At(addresses, h)
  BY AddChanges
<1>4. \A h, x : RouteAt(h, x).name = h /\ RouteAt(h, x).ip = x.ip
  BY DEF RouteAt
<1>5. \A h : RouteAt(h, NewEntry(ip)) = [name |-> h, ip |-> ip, age |-> 0]
  BY DEF RouteAt, NewEntry
<1> HIDE DEF F, N
<1>6. ASSUME NEW r \in RoutesOf(addresses')
      PROVE  (r \in RoutesOf(addresses) /\ ~(r.name \in F /\ r.ip = ip)) \/ r \in added
  <2>0. PICK h \in N : \E x \in At(addresses', h) : r = RouteAt(h, x)
    BY <1>6, RouteIn DEF N
  <2>1. PICK x \in At(addresses', h) : r = RouteAt(h, x)
    BY <2>0
  <2>2. CASE x = NewEntry(ip) /\ h \in F
    BY <2>1, <2>2, <1>5
  <2>3. CASE ~(x = NewEntry(ip) /\ h \in F)
    <3>1. x \in At(addresses, h) /\ (h \in F => x.ip # ip)
      BY <2>1, <2>3, <1>3
    <3> QED
      BY <3>1, <2>1, <1>4, RouteIn DEF N
  <2> QED
    BY <2>2, <2>3
<1>7. ASSUME NEW r \in RoutesOf(addresses), ~(r.name \in F /\ r.ip = ip)
      PROVE  r \in RoutesOf(addresses')
  <2>0. PICK h \in N : \E x \in At(addresses, h) : r = RouteAt(h, x)
    BY <1>7, RouteIn DEF N
  <2>1. PICK x \in At(addresses, h) : r = RouteAt(h, x)
    BY <2>0
  <2>2. x \in At(addresses', h)
    BY <2>1, <1>3, <1>4, <1>7
  <2> QED
    BY <2>1, <2>2, RouteIn DEF N
<1>8. ASSUME NEW r \in added
      PROVE  r \in RoutesOf(addresses')
  <2>1. PICK h \in F : r = RouteAt(h, NewEntry(ip))
    BY <1>8, <1>5
  <2>2. h \in N /\ NewEntry(ip) \in At(addresses', h)
    BY <1>1, <1>3
  <2> QED
    BY <2>1, <2>2, RouteIn DEF N
<1>9. Routes' = (Routes \ {r \in Routes : r.name \in F /\ r.ip = ip}) \cup added
  <2> HIDE DEF added
  <2> QED
    BY <1>2, <1>6, <1>7, <1>8
<1> QED
  BY <1>9 DEF Registry!Register, Registry!Of, F

\* Remove unregisters its hostnames at the ip in the abstract registry.
LEMMA RemoveUnregisters ==
  ASSUME GoodTable(addresses), NEW hostnames \in HostnameLists, NEW ip \in IPs,
         Remove(hostnames, ip)
  PROVE  Registry!Unregister(Fqdns(hostnames), ip)
<1> DEFINE F == Fqdns(hostnames)
           N == Fqdns(Hostname)
<1>1. /\ Routes = RoutesOf(addresses)
      /\ Routes' = RoutesOf(addresses')
  BY RemoveChanges, RoutesAreOf
<1>2. \A h : At(addresses', h) =
               IF h \in F THEN {x \in At(addresses, h) : x.ip # ip} ELSE At(addresses, h)
  BY RemoveChanges
<1>3. \A h, x : RouteAt(h, x).name = h /\ RouteAt(h, x).ip = x.ip
  BY DEF RouteAt
<1> HIDE DEF F, N
<1>4. ASSUME NEW r \in RoutesOf(addresses')
      PROVE  r \in RoutesOf(addresses) /\ ~(r.name \in F /\ r.ip = ip)
  <2>0. PICK h \in N : \E x \in At(addresses', h) : r = RouteAt(h, x)
    BY <1>4, RouteIn DEF N
  <2>1. PICK x \in At(addresses', h) : r = RouteAt(h, x)
    BY <2>0
  <2>2. x \in At(addresses, h) /\ (h \in F => x.ip # ip)
    BY <2>1, <1>2
  <2> QED
    BY <2>1, <2>2, <1>3, RouteIn DEF N
<1>5. ASSUME NEW r \in RoutesOf(addresses), ~(r.name \in F /\ r.ip = ip)
      PROVE  r \in RoutesOf(addresses')
  <2>0. PICK h \in N : \E x \in At(addresses, h) : r = RouteAt(h, x)
    BY <1>5, RouteIn DEF N
  <2>1. PICK x \in At(addresses, h) : r = RouteAt(h, x)
    BY <2>0
  <2>2. x \in At(addresses', h)
    BY <2>1, <1>2, <1>3, <1>5
  <2> QED
    BY <2>1, <2>2, RouteIn DEF N
<1>6. Routes' = Routes \ {r \in Routes : r.name \in F /\ r.ip = ip}
  BY <1>1, <1>4, <1>5
<1> QED
  BY <1>6 DEF Registry!Unregister, Registry!Of, F

\* The write-locked pass expires a set of stale routes of the registry.
LEMMA PruneExpires ==
  ASSUME GoodTable(addresses), PruneStale
  PROVE  Registry!Expire
<1> DEFINE N == Fqdns(Hostname)
           gone == Routes \ Routes'
<1>1. /\ Routes = RoutesOf(addresses)
      /\ Routes' = RoutesOf(addresses')
  BY PruneChanges, RoutesAreOf
<1>2. \A h : At(addresses', h) =
               IF h \in staleAddresses THEN {x \in At(addresses, h) : ~IsStale(x)}
               ELSE At(addresses, h)
  BY PruneChanges
<1>3. Routes' \subseteq Routes
  BY <1>1, <1>2, RouteIn
<1>4. ASSUME NEW r \in Routes, r \notin Routes'
      PROVE  r.age > StalenessThreshold
  <2>0. PICK h \in N : \E x \in At(addresses, h) : r = RouteAt(h, x)
    BY <1>1, <1>4, RouteIn
  <2>1. PICK x \in At(addresses, h) : r = RouteAt(h, x)
    BY <2>0
  <2>2. x \notin At(addresses', h)
    BY <2>1, <1>1, <1>4, RouteIn
  <2>3. IsStale(x)
    BY <2>1, <2>2, <1>2
  <2> QED
    BY <2>1, <2>3 DEF IsStale, RouteAt
<1>5. gone \in SUBSET {r \in Routes : r.age > StalenessThreshold}
  BY <1>4
<1>6. Routes' = Routes \ gone
  BY <1>3
<1> QED
  BY <1>5, <1>6 DEF Registry!Expire

\* A clock step lets time pass in the registry.
LEMMA TickPasses ==
  ASSUME GoodTable(addresses), TableTick
  PROVE  Registry!TimePasses
<1> DEFINE N == Fqdns(Hostname)
           older(r) == [name |-> r.name, ip |-> r.ip, age |-> Registry!Older(r.age)]
<1>1. /\ Routes = RoutesOf(addresses)
      /\ Routes' = RoutesOf(addresses')
  BY TickChanges, RoutesAreOf
<1>2. \A h : At(addresses', h) = {Aged(x) : x \in At(addresses, h)}
  BY TickChanges
<1>3. ASSUME NEW h, NEW x \in At(addresses, h)
      PROVE  RouteAt(h, Aged(x)) = older(RouteAt(h, x))
  <2>1. h \in DOMAIN addresses /\ \E i \in DOMAIN addresses[h] : x = addresses[h][i]
    BY <1>3 DEF At, Elements
  <2>2. addresses[h] \in Seq(Entry)
    BY <2>1 DEF GoodTable, GoodList
  <2>3. x \in Entry
    BY <2>1, <2>2, LenProperties
  <2>4. x.age \in 0..(StalenessThreshold + 1)
    BY <2>3 DEF Entry, Expired
  <2>5. Aged(x).ip = x.ip /\ Aged(x).age = Registry!Older(x.age)
    BY <2>3, <2>4, ConfigAssumption DEF Aged, Entry, Elapse, Expired, Registry!Older
  <2> QED
    BY <2>5 DEF RouteAt
<1> HIDE DEF older, N
<1>4. ASSUME NEW r \in RoutesOf(addresses')
      PROVE  \E q \in RoutesOf(addresses) : r = older(q)
  <2>0. PICK h \in N : \E y \in At(addresses', h) : r = RouteAt(h, y)
    BY <1>4, RouteIn DEF N
  <2>1. PICK y \in At(addresses', h) : r = RouteAt(h, y)
    BY <2>0
  <2>2. PICK x \in At(addresses, h) : y = Aged(x)
    BY <2>1, <1>2
  <2>3. RouteAt(h, x) \in RoutesOf(addresses)
    BY <2>2, RouteIn DEF N
  <2> QED
    BY <2>1, <2>2, <2>3, <1>3
<1>5. ASSUME NEW q \in RoutesOf(addresses)
      PROVE  older(q) \in RoutesOf(addresses')
  <2>0. PICK h \in N : \E x \in At(addresses, h) : q = RouteAt(h, x)
    BY <1>5, RouteIn DEF N
  <2>1. PICK x \in At(addresses, h) : q = RouteAt(h, x)
    BY <2>0
  <2>2. Aged(x) \in At(addresses', h)
    BY <2>1, <1>2
  <2> QED
    BY <2>1, <2>2, <1>3, RouteIn DEF N
<1>6. Routes' = {older(r) : r \in Routes}
  BY <1>1, <1>4, <1>5
<1> QED
  BY <1>6 DEF Registry!TimePasses, older

\* The detailed table, with its lists, spellings, pauses and three-phase
\* pruning, implements the registry for every value of the constants.
THEOREM Refinement == TableSpec => RefinesRegistry
<1>1. TableInit => Registry!Init
  BY DEF TableInit, Registry!Init, Routes
<1>2. ASSUME TableInv, [TableNext]_tableVars
      PROVE  [Registry!Next]_Routes
  <2> USE DEF TableInv
  <2>1. ASSUME NEW hostnames \in HostnameLists, NEW ip \in IPs, Add(hostnames, ip)
        PROVE  Registry!Next
    BY <1>2, <2>1, AddRegisters, Qualified DEF Registry!Next
  <2>2. ASSUME NEW hostnames \in HostnameLists, NEW ip \in IPs, Remove(hostnames, ip)
        PROVE  Registry!Next
    BY <1>2, <2>2, RemoveUnregisters, Qualified DEF Registry!Next
  <2>3. CASE PruneStale
    BY <1>2, <2>3, PruneExpires DEF Registry!Next
  <2>4. CASE TableTick
    BY <1>2, <2>4, TickPasses DEF Registry!Next
  <2>5. CASE SetWarm \/ PausePruning \/ ResumePruning \/ Shutdown \/ PruneCheck
             \/ FindStale \/ UNCHANGED tableVars
    <3>1. addresses' = addresses
      BY <2>5 DEF SetWarm, PausePruning, ResumePruning, Shutdown, PruneCheck, FindStale,
                  fieldVars, tableVars
    <3> QED
      BY <3>1 DEF Routes
  <2> QED
    BY <1>2, <2>1, <2>2, <2>3, <2>4, <2>5 DEF TableNext
<1> QED
  BY <1>1, <1>2, TableInvariance, PTL DEF TableSpec, RefinesRegistry, Registry!Spec

=============================================================================
