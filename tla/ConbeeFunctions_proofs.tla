----------------------- MODULE ConbeeFunctions_proofs ------------------------
(***************************************************************************)
(* Proofs about FrameCodec and ConbeeFunctions, for every set of           *)
(* parameters and requests, all widths and any number of calls.            *)
(***************************************************************************)
EXTENDS ConbeeFunctions, SequenceTheorems, WellFoundedInduction, TLAPS

(* Induction over 0..n for a set in place of a predicate: the provers      *)
(* instantiate the well-foundedness of Nat, which ranges over sets, but    *)
(* no theorem that ranges over operators.                                  *)
LEMMA Smallest == \A T \in SUBSET Nat : T # {} => \E m \in T : \A k \in T : m <= k
  <1> DEFINE Less == OpToRel(<, Nat)
  <1>1. IsWellFoundedOn(Less, Nat)
    BY NatLessThanWellFounded
  <1>2. \A x, y \in Nat : x < y => <<x, y>> \in Less
    BY DEF OpToRel
  <1> HIDE DEF Less
  <1> SUFFICES ASSUME NEW T \in SUBSET Nat, T # {}
               PROVE  \E m \in T : \A k \in T : m <= k
    OBVIOUS
  <1>3. T \subseteq Nat
    OBVIOUS
  <1>4. PICK m \in T : \A k \in T : ~ (<<k, m>> \in Less)
    BY <1>1, <1>3, WFMin
  <1>5. \A k \in T : m <= k
    <2> SUFFICES ASSUME NEW k \in T PROVE m <= k
      OBVIOUS
    <2>1. k \in Nat /\ m \in Nat
      BY <1>3
    <2>2. ~(k < m)
      BY <1>2, <1>4, <2>1
    <2> QED
      BY <2>1, <2>2
  <1> QED
    BY <1>4, <1>5

LEMMA SetInduction ==
    ASSUME NEW n \in Nat, NEW S, 0 \in S, \A k \in 0..(n - 1) : k \in S => k + 1 \in S
    PROVE  \A k \in 0..n : k \in S
  <1> SUFFICES ASSUME {k \in 0..n : k \notin S} # {} PROVE FALSE
    OBVIOUS
  <1>1. PICK m \in {k \in 0..n : k \notin S} : \A k \in {k \in 0..n : k \notin S} : m <= k
    <2>1. {k \in 0..n : k \notin S} \in SUBSET Nat
      OBVIOUS
    <2> QED
      BY <2>1, Smallest
  <1>2. m # 0 /\ m - 1 \in 0..(n-1) /\ m - 1 + 1 = m /\ m - 1 \in 0..n /\ ~(m <= m - 1)
    OBVIOUS
  <1>3. m - 1 \in S
    BY <1>1, <1>2
  <1> QED
    BY <1>2, <1>3

(* The recursive function inside Total exists and is what its recursion    *)
(* says, for a sequence of bytes of any length.                            *)
UpTo(s) == CHOOSE f : f = [k \in 0..Len(s) |-> IF k = 0 THEN 0 ELSE f[k - 1] + s[k]]

LEMMA TotalIsUpTo == \A s : Total(s) = UpTo(s)[Len(s)]
  BY DEF Total, UpTo

LEMMA TotalSteps ==
    ASSUME NEW s \in Seq(Byte)
    PROVE  /\ Len(s) \in Nat
           /\ \A k \in 1..Len(s) : s[k] \in Byte
           /\ UpTo(s) \in [0..Len(s) -> Nat]
           /\ UpTo(s)[0] = 0
           /\ \A k \in 1..Len(s) : UpTo(s)[k] = UpTo(s)[k - 1] + s[k]
  <1> DEFINE n == Len(s)
             Adds(f, m) == /\ f \in [0..m -> Nat] /\ f[0] = 0
                           /\ \A k \in 1..m : f[k] = f[k - 1] + s[k]
             Reached == {m \in 0..n : \E f : Adds(f, m)}
  <1>0. n \in Nat /\ \A k \in 1..n : s[k] \in Byte /\ s[k] \in Nat
    <2>1. n \in Nat /\ \A k \in 1..n : s[k] \in Byte
      BY LenProperties, ElementOfSeq
    <2>2. Byte \subseteq Nat
      BY DEF Byte
    <2> HIDE DEF n
    <2> QED
      BY <2>1, <2>2
  <1>1. 0 \in Reached
    <2>1. Adds([k \in 0..0 |-> 0], 0)
      OBVIOUS
    <2> HIDE DEF Adds
    <2> QED
      BY <1>0, <2>1
  <1>2. \A m \in 0..(n - 1) : m \in Reached => m + 1 \in Reached
    <2> SUFFICES ASSUME NEW m \in 0..(n - 1), m \in Reached PROVE m + 1 \in Reached
      OBVIOUS
    <2>1. PICK f : Adds(f, m)
      OBVIOUS
    <2>2. PICK g : g = [k \in 0..(m + 1) |-> IF k = m + 1 THEN f[m] + s[m + 1] ELSE f[k]]
      OBVIOUS
    <2>3. m \in Nat /\ m + 1 \in 0..n /\ f[m] \in Nat /\ s[m + 1] \in Nat
      BY <1>0, <2>1
    <2>4. /\ g \in [0..(m + 1) -> Nat] /\ g[m + 1] = f[m] + s[m + 1]
          /\ \A k \in 0..m : g[k] = f[k]
      BY <2>1, <2>2, <2>3
    <2>5. Adds(g, m + 1)
      <3>1. g[0] = 0
        <4>1. 0 \in 0..m
          BY <2>3
        <4> QED
          BY <2>1, <2>4, <4>1
      <3>2. \A k \in 1..(m + 1) : g[k] = g[k - 1] + s[k]
        <4> SUFFICES ASSUME NEW k \in 1..(m + 1) PROVE g[k] = g[k - 1] + s[k]
          OBVIOUS
        <4>1. k - 1 \in 0..m
          BY <2>3
        <4>2. g[k - 1] = f[k - 1]
          BY <2>4, <4>1
        <4>3. CASE k = m + 1
          <5>1. k - 1 = m
            BY <2>3, <4>3
          <5> QED
            BY <2>4, <4>2, <4>3, <5>1
        <4>4. CASE k # m + 1
          <5>1. k \in 1..m /\ k \in 0..m
            BY <2>3, <4>4
          <5>2. f[k] = f[k - 1] + s[k]
            BY <2>1, <5>1
          <5> QED
            BY <2>4, <4>2, <5>1, <5>2
        <4> QED
          BY <4>3, <4>4
      <3>3. g \in [0..(m + 1) -> Nat]
        BY <2>4
      <3> QED
        BY <3>1, <3>2, <3>3
    <2> HIDE DEF Adds
    <2> QED
      BY <2>3, <2>5
  <1>3. \E f : Adds(f, n)
    <2>1. n \in 0..n
      BY <1>0
    <2> HIDE DEF Reached, n
    <2>2. n \in Reached
      BY <1>0, <1>1, <1>2, <2>1, SetInduction
    <2> QED
      BY <2>2 DEF Reached
  <1>4. PICK f : Adds(f, n)
    BY <1>3
  <1>5. f = [k \in 0..n |-> IF k = 0 THEN 0 ELSE f[k - 1] + s[k]]
    BY <1>0, <1>4
  <1>6. UpTo(s) = [k \in 0..Len(s) |-> IF k = 0 THEN 0 ELSE UpTo(s)[k - 1] + s[k]]
    BY <1>5 DEF UpTo
  <1>7. PICK u : u = UpTo(s)
    OBVIOUS
  <1>8. /\ DOMAIN u = 0..n /\ u[0] = 0
        /\ \A k \in 1..n : u[k] = u[k - 1] + s[k]
        /\ u = [k \in 0..n |-> u[k]]
    <2>1. u = [k \in 0..n |-> IF k = 0 THEN 0 ELSE u[k - 1] + s[k]]
      BY <1>6, <1>7
    <2> QED
      BY <1>0, <2>1
  <1>9. \A k \in 0..n : u[k] \in Nat
    <2> DEFINE T == {k \in 0..n : u[k] \in Nat}
    <2>1. 0 \in T
      BY <1>0, <1>8
    <2>2. \A k \in 0..(n - 1) : k \in T => k + 1 \in T
      <3> SUFFICES ASSUME NEW k \in 0..(n - 1), u[k] \in Nat PROVE k + 1 \in T
        OBVIOUS
      <3>1. PICK j \in 1..n : j = k + 1 /\ j - 1 = k
        BY <1>0
      <3> HIDE DEF n
      <3>2. u[j] = u[j - 1] + s[j] /\ s[j] \in Nat
        BY <1>0, <1>8
      <3>3. u[j] \in Nat
        BY <3>1, <3>2
      <3>4. j \in 0..n
        BY <1>0
      <3> QED
        BY <3>1, <3>3, <3>4
    <2>3. \A k \in 0..n : k \in T
      <3> HIDE DEF T
      <3> QED
        BY <1>0, <2>1, <2>2, SetInduction
    <2> QED
      BY <2>3
  <1> QED
    BY <1>0, <1>7, <1>8, <1>9

LEMMA Shifts ==
    /\ \A a, b, d \in Int : a + b = (a + d) + (b - d)
    /\ \A a, b, d, e \in Int : (a + (d - e)) + b = (a + b) + (d - e)
    /\ \A a, b, d, e \in Int : a = b + (d - e) => a - b = d - e
    /\ \A a \in Int : a + 0 = a /\ 0 + a = a
    /\ \A a \in 0..255 : a \in Nat /\ a \in Int /\ 0 + a >= a
    /\ \A a, b, d \in Nat : a >= d => a + b >= d
  OBVIOUS

LEMMA Bytes == \A x : x \in Byte <=> x \in Int /\ 0 <= x /\ x <= 255
  BY DEF Byte

(* A sum of bytes is at least the first of them, at most 255 for each.     *)
LEMMA TotalBounds ==
    ASSUME NEW s \in Seq(Byte)
    PROVE  /\ Total(s) \in Nat /\ Total(s) <= 255 * Len(s)
           /\ Len(s) > 0 => Total(s) >= s[1]
  <1>1. PICK u : u = UpTo(s)
    OBVIOUS
  <1>2. PICK n : n = Len(s)
    OBVIOUS
  <1>0. PICK x : x = s
    OBVIOUS
  <1>3. /\ n \in Nat /\ u \in [0..n -> Nat] /\ u[0] = 0
        /\ \A k \in 1..n : u[k] = u[k - 1] + x[k] /\ x[k] \in Nat /\ x[k] <= 255
    <2>1. \A k \in 1..n : x[k] \in Byte
      BY <1>0, <1>2
    <2>2. \A y \in Byte : y \in Nat /\ y <= 255
      BY Bytes
    <2> QED
      BY <1>0, <1>1, <1>2, <2>1, <2>2, TotalSteps
  <1> DEFINE T == {k \in 0..n : u[k] <= 255 * k /\ (k > 0 => u[k] >= x[1])}
  <1>4. 0 \in T
    BY <1>3
  <1>5. \A k \in 0..(n - 1) : k \in T => k + 1 \in T
    <2> SUFFICES ASSUME NEW k \in 0..(n - 1), k \in T PROVE k + 1 \in T
      OBVIOUS
    <2>1. PICK j \in 1..n : j = k + 1 /\ j - 1 = k
      BY <1>3
    <2>2. k \in Nat /\ u[k] \in Nat
      BY <1>3
    <2>3. u[k] <= 255 * k /\ (k > 0 => u[k] >= x[1])
      OBVIOUS
    <2> HIDE DEF T
    <2>4. u[j] = u[j - 1] + x[j] /\ x[j] \in Nat /\ x[j] <= 255
      BY <1>3
    <2>5. PICK b \in Nat : b = x[j] /\ b <= 255
      BY <2>4
    <2>6. PICK a \in Nat : a = u[k]
      BY <2>2
    <2>7. u[j] = a + b
      BY <2>1, <2>4, <2>5, <2>6
    <2>8. u[j] <= 255 * j
      <3>1. a <= 255 * k
        BY <2>3, <2>6
      <3>2. a + b <= 255 * j
        BY <2>1, <2>2, <2>5, <3>1
      <3> QED
        BY <2>7, <3>2
    <2>9. u[j] >= x[1]
      <3>1. CASE k = 0
        <4>1. j = 1 /\ a + b >= b
          BY <2>1, <2>5, <2>6, <3>1
        <4> QED
          BY <2>5, <2>7, <4>1
      <3>2. CASE k > 0
        <4>1. 1 \in 1..n
          BY <1>3
        <4>2. x[1] \in Nat
          BY <1>3, <4>1
        <4>3. PICK d \in Nat : d = x[1]
          BY <4>2
        <4>4. a >= d
          BY <2>3, <2>6, <3>2, <4>3
        <4>5. a + b >= d
          BY <4>4
        <4> QED
          BY <2>7, <4>3, <4>5
      <3> QED
        BY <2>2, <3>1, <3>2
    <2>10. j \in 0..n
      BY <1>3, <2>1
    <2> USE DEF T
    <2> QED
      BY <2>1, <2>8, <2>9, <2>10
  <1>6. n \in T
    <2>1. n \in 0..n
      BY <1>3
    <2> HIDE DEF T
    <2> QED
      BY <1>3, <1>4, <1>5, <2>1, SetInduction
  <1>7. u[n] = Total(s)
    BY <1>1, <1>2, TotalIsUpTo
  <1>8. u[n] \in Nat
    BY <1>3
  <1> QED
    BY <1>0, <1>2, <1>6, <1>7, <1>8

(* Two sequences that differ in one byte: so do their sums.                *)
LEMMA TotalChanged ==
    ASSUME NEW s \in Seq(Byte), NEW t \in Seq(Byte), Len(t) = Len(s),
           NEW j \in 1..Len(s), \A k \in 1..Len(s) : k # j => t[k] = s[k]
    PROVE  Total(t) - Total(s) = t[j] - s[j]
  <1>1. PICK u : u = UpTo(s)
    OBVIOUS
  <1>2. PICK v : v = UpTo(t)
    OBVIOUS
  <1>3. PICK n : n = Len(s)
    OBVIOUS
  <1>0. PICK x, y : x = s /\ y = t
    OBVIOUS
  <1>4. /\ n \in Nat /\ u \in [0..n -> Nat] /\ u[0] = 0
        /\ \A k \in 1..n : u[k] = u[k - 1] + x[k] /\ x[k] \in 0..255
    BY <1>0, <1>1, <1>3, TotalSteps DEF Byte
  <1>5. /\ v \in [0..n -> Nat] /\ v[0] = 0
        /\ \A k \in 1..n : v[k] = v[k - 1] + y[k] /\ y[k] \in 0..255
    BY <1>0, <1>2, <1>3, TotalSteps DEF Byte
  <1>6. /\ j \in 1..n /\ \A k \in 1..n : k # j => y[k] = x[k]
        /\ x[j] \in 0..255 /\ y[j] \in 0..255
    BY <1>0, <1>3, <1>4, <1>5
  <1> DEFINE T == {k \in 0..n : v[k] = u[k] + (IF k < j THEN 0 ELSE y[j] - x[j])}
  <1>7. 0 \in T
    BY <1>4, <1>5, <1>6
  <1>8. \A k \in 0..(n - 1) : k \in T => k + 1 \in T
    <2> SUFFICES ASSUME NEW k \in 0..(n - 1), k \in T PROVE k + 1 \in T
      OBVIOUS
    <2>1. /\ k \in Nat /\ k + 1 \in 0..n /\ k + 1 \in 1..n /\ k + 1 - 1 = k
          /\ u[k] \in Nat /\ v[k] \in Nat
          /\ v[k] = u[k] + (IF k < j THEN 0 ELSE y[j] - x[j])
      BY <1>4, <1>5
    <2> HIDE DEF T
    <2>2. /\ u[k + 1] = u[k + 1 - 1] + x[k + 1] /\ x[k + 1] \in 0..255
          /\ v[k + 1] = v[k + 1 - 1] + y[k + 1] /\ y[k + 1] \in 0..255
      <3>0. PICK i \in 1..n : i = k + 1
        BY <2>1
      <3>1. u[i] = u[i - 1] + x[i] /\ x[i] \in 0..255
        BY <1>4
      <3>2. v[i] = v[i - 1] + y[i] /\ y[i] \in 0..255
        BY <1>5
      <3> QED
        BY <3>0, <3>1, <3>2
    <2>3. u[k + 1] = u[k] + x[k + 1] /\ v[k + 1] = v[k] + y[k + 1]
      BY <2>1, <2>2
    <2>5. /\ u[k] \in Int /\ x[j] \in Int /\ y[j] \in Int /\ x[k + 1] \in Int
          /\ u[k + 1] \in Int
      <3>1. u[k] \in Int /\ u[k + 1] \in Int
        BY <1>4, <2>1
      <3> QED
        BY <1>6, <2>2, <3>1, Shifts
    <2>4. v[k + 1] = u[k + 1] + (IF k + 1 < j THEN 0 ELSE y[j] - x[j])
      <3>1. CASE k + 1 = j
        <4>1. x[k + 1] = x[j] /\ y[k + 1] = y[j] /\ k < j /\ ~(k + 1 < j)
          BY <1>6, <2>1, <3>1
        <4>2. v[k] = u[k]
          BY <2>1, <4>1
        <4>3. v[k + 1] = u[k] + y[j] /\ u[k + 1] = u[k] + x[j]
          BY <2>3, <4>1, <4>2
        <4>4. v[k + 1] = u[k + 1] + (y[j] - x[j])
          <5>1. u[k] + y[j] = (u[k] + x[j]) + (y[j] - x[j])
            BY <2>5, Shifts
          <5> QED
            BY <4>3, <5>1
        <4>5. ~(k + 1 < j)
          BY <4>1
        <4> QED
          BY <4>4, <4>5
      <3>2. CASE k + 1 # j
        <4>1. y[k + 1] = x[k + 1]
          BY <1>6, <2>1, <3>2
        <4>2. k < j <=> k + 1 < j
          BY <1>6, <2>1, <3>2
        <4>3. v[k + 1] = v[k] + x[k + 1] /\ x[k + 1] \in 0..255
          BY <2>2, <2>3, <4>1
        <4>4. CASE k < j
          <5>1. v[k] = u[k] /\ k + 1 < j
            BY <2>1, <4>2, <4>4
          <5>2. v[k + 1] = u[k + 1] + 0
            <6>1. v[k + 1] = u[k + 1] /\ u[k + 1] = u[k] + x[k + 1]
              BY <2>3, <4>3, <5>1
            <6> QED
              BY <2>5, <6>1, Shifts
          <5> QED
            BY <5>1, <5>2
        <4>5. CASE ~(k < j)
          <5>1. v[k] = u[k] + (y[j] - x[j]) /\ ~(k + 1 < j)
            BY <2>1, <4>2, <4>5
          <5>2. v[k + 1] = (u[k] + (y[j] - x[j])) + x[k + 1] /\ u[k + 1] = u[k] + x[k + 1]
            BY <2>3, <4>3, <5>1
          <5>3. v[k + 1] = u[k + 1] + (y[j] - x[j])
            BY <2>5, <5>2, Shifts
          <5> QED
            BY <5>1, <5>3
        <4> QED
          BY <4>4, <4>5
      <3> QED
        BY <3>1, <3>2
    <2> USE DEF T
    <2> QED
      BY <2>1, <2>4
  <1>9. n \in T
    <2>1. n \in 0..n
      BY <1>4
    <2> HIDE DEF T
    <2> QED
      BY <1>4, <1>7, <1>8, <2>1, SetInduction
  <1>10. u[n] = Total(s) /\ v[n] = Total(t)
    BY <1>1, <1>2, <1>3, TotalIsUpTo
  <1>11. u[n] \in Nat /\ v[n] \in Nat /\ ~(n < j)
    BY <1>4, <1>5, <1>6
  <1>12. v[n] = u[n] + (y[j] - x[j])
    BY <1>9, <1>11
  <1> HIDE DEF T
  <1>13. v[n] - u[n] = y[j] - x[j]
    <2>1. v[n] \in Int /\ u[n] \in Int
      BY <1>11
    <2>2. x[j] \in Int /\ y[j] \in Int
      BY <1>6, Shifts
    <2> QED
      BY <1>12, <2>1, <2>2, Shifts
  <1> QED
    BY <1>0, <1>10, <1>13

(* The sum without the last byte.                                          *)
LEMMA TotalButLast ==
    ASSUME NEW s \in Seq(Byte), NEW t \in Seq(Byte), Len(s) = Len(t) + 1,
           \A k \in 1..Len(t) : t[k] = s[k]
    PROVE  Total(s) = Total(t) + s[Len(s)]
  <1>1. PICK u : u = UpTo(s)
    OBVIOUS
  <1>2. PICK v : v = UpTo(t)
    OBVIOUS
  <1>3. PICK n : n = Len(t)
    OBVIOUS
  <1>4. n \in Nat /\ Len(s) = n + 1 /\ n + 1 \in Nat
    BY <1>3, TotalSteps
  <1>5. /\ u \in [0..(n + 1) -> Nat] /\ u[0] = 0
        /\ \A k \in 1..(n + 1) : u[k] = u[k - 1] + s[k]
    BY <1>1, <1>4, TotalSteps
  <1>6. /\ v \in [0..n -> Nat] /\ v[0] = 0
        /\ \A k \in 1..n : v[k] = v[k - 1] + t[k]
    BY <1>2, <1>3, TotalSteps
  <1> DEFINE T == {k \in 0..n : v[k] = u[k]}
  <1>7. 0 \in T
    BY <1>4, <1>5, <1>6
  <1>8. \A k \in 0..(n - 1) : k \in T => k + 1 \in T
    <2> SUFFICES ASSUME NEW k \in 0..(n - 1), k \in T PROVE k + 1 \in T
      OBVIOUS
    <2>1. /\ k \in Nat /\ k + 1 \in 0..n /\ k + 1 \in 1..n /\ k + 1 \in 1..(n + 1)
          /\ k + 1 - 1 = k /\ v[k] = u[k]
      BY <1>4
    <2>2. /\ u[k + 1] = u[k + 1 - 1] + s[k + 1]
          /\ v[k + 1] = v[k + 1 - 1] + t[k + 1] /\ t[k + 1] = s[k + 1]
      BY <1>3, <1>5, <1>6, <2>1
    <2>3. v[k + 1] = u[k + 1]
      BY <2>1, <2>2
    <2> QED
      BY <2>1, <2>3
  <1>9. n \in T
    <2>1. n \in 0..n
      BY <1>4
    <2> HIDE DEF T
    <2> QED
      BY <1>4, <1>7, <1>8, <2>1, SetInduction
  <1>10. u[n + 1] = Total(s) /\ v[n] = Total(t)
    BY <1>1, <1>2, <1>3, <1>4, TotalIsUpTo
  <1>11. u[n + 1] = u[n + 1 - 1] + s[n + 1] /\ n + 1 - 1 = n
    BY <1>4, <1>5
  <1> QED
    BY <1>4, <1>9, <1>10, <1>11

(* Sixteen bits in two bytes and back.  (Intervals with large bounds are   *)
(* written as inequalities, which the solver prefers.)                     *)
LEMMA TwoBytes ==
    ASSUME NEW n \in Nat, n < 65536
    PROVE  /\ LE16(n) \in Seq(Byte) /\ Len(LE16(n)) = 2
           /\ LE16(n)[1] = n % 256 /\ LE16(n)[2] = n \div 256
           /\ n % 256 \in Byte /\ n \div 256 \in Byte
           /\ FromLE16(n % 256, n \div 256) = n
  <1>1. /\ n % 65536 = n
        /\ n % 256 \in Int /\ 0 <= n % 256 /\ n % 256 <= 255
        /\ n \div 256 \in Int /\ 0 <= n \div 256 /\ n \div 256 <= 255
        /\ (n % 256) + 256 * (n \div 256) = n
    OBVIOUS
  <1>2. LE16(n) = <<n % 256, n \div 256>>
    BY <1>1 DEF LE16, U16
  <1>3. n % 256 \in Byte /\ n \div 256 \in Byte
    BY <1>1, Bytes
  <1>4. FromLE16(n % 256, n \div 256) = n
    BY <1>1 DEF FromLE16
  <1>5. LE16(n) \in Seq(Byte) /\ Len(LE16(n)) = 2
    BY <1>2, <1>3
  <1>6. LE16(n)[1] = n % 256 /\ LE16(n)[2] = n \div 256
    BY <1>2
  <1> QED
    BY <1>3, <1>4, <1>5, <1>6

LEMMA ChecksumType ==
    ASSUME NEW s \in Seq(Byte)
    PROVE  crc16(s) \in Nat /\ crc16(s) < 65536
  <1>1. PICK t \in Int : t = Total(s)
    BY TotalBounds
  <1>2. (65536 - (t % 65536)) % 65536 \in Nat /\ (65536 - (t % 65536)) % 65536 < 65536
    OBVIOUS
  <1> QED
    BY <1>1, <1>2 DEF crc16, U16

LEMMA ConcatBytes ==
    \A s, t \in Seq(Byte) :
        /\ s \o t \in Seq(Byte) /\ Len(s \o t) = Len(s) + Len(t)
        /\ \A k \in 1..(Len(s) + Len(t)) :
               (s \o t)[k] = IF k <= Len(s) THEN s[k] ELSE t[k - Len(s)]
  BY ConcatProperties

(* A packet is its bytes and two more, and its checksum is right.          *)
LEMMA PacketFacts ==
    ASSUME NEW b \in Seq(Byte)
    PROVE  /\ Packet(b) \in Seq(Byte) /\ Len(Packet(b)) = Len(b) + 2
           /\ \A k \in 1..Len(b) : Packet(b)[k] = b[k]
           /\ Packet(b)[Len(b) + 1] = crc16(b) % 256
           /\ Packet(b)[Len(b) + 2] = crc16(b) \div 256
           /\ SubSeq(Packet(b), 1, Len(b)) = b
           /\ WellChecked(Packet(b))
  <1>1. PICK sum : sum = LE16(crc16(b))
    OBVIOUS
  <1>2. /\ sum \in Seq(Byte) /\ Len(sum) = 2
        /\ sum[1] = crc16(b) % 256 /\ sum[2] = crc16(b) \div 256
        /\ FromLE16(crc16(b) % 256, crc16(b) \div 256) = crc16(b)
    <2>1. crc16(b) \in Nat /\ crc16(b) < 65536
      BY ChecksumType
    <2> QED
      BY <1>1, <2>1, TwoBytes
  <1>3. PICK s : s = b \o sum
    OBVIOUS
  <1>4. s = Packet(b)
    BY <1>1, <1>3 DEF Packet
  <1>5. Len(b) \in Nat
    BY LenProperties
  <1>6. /\ s \in Seq(Byte) /\ Len(s) = Len(b) + 2
        /\ \A k \in 1..(Len(b) + 2) : s[k] = IF k <= Len(b) THEN b[k] ELSE sum[k - Len(b)]
    <2>1. /\ b \o sum \in Seq(Byte) /\ Len(b \o sum) = Len(b) + Len(sum)
          /\ \A k \in 1..(Len(b) + Len(sum)) :
                 (b \o sum)[k] = IF k <= Len(b) THEN b[k] ELSE sum[k - Len(b)]
      <3>1. sum \in Seq(Byte)
        BY <1>2
      <3> QED
        BY <3>1, ConcatBytes
    <2> QED
      BY <1>2, <1>3, <2>1
  <1>7. \A k \in 1..Len(b) : s[k] = b[k]
    BY <1>5, <1>6
  <1>8. s[Len(b) + 1] = sum[1] /\ s[Len(b) + 2] = sum[2]
    <2>1. /\ Len(b) + 1 \in 1..(Len(b) + 2) /\ Len(b) + 2 \in 1..(Len(b) + 2)
          /\ ~(Len(b) + 1 <= Len(b)) /\ ~(Len(b) + 2 <= Len(b))
          /\ Len(b) + 1 - Len(b) = 1 /\ Len(b) + 2 - Len(b) = 2
      BY <1>5
    <2> QED
      BY <1>6, <2>1
  <1>9. SubSeq(s, 1, Len(b)) = b
    <2>1. \A k \in 1..Len(b) : s[k] \in Byte
      BY <1>7, ElementOfSeq
    <2>2. PICK r : r = SubSeq(s, 1, Len(b))
      OBVIOUS
    <2>3. /\ r \in Seq(Byte) /\ Len(r) = IF 1 <= Len(b) THEN Len(b) - 1 + 1 ELSE 0
          /\ \A k \in 1..(Len(b) - 1 + 1) : r[k] = s[1 + k - 1]
      BY <1>5, <2>1, <2>2, SubSeqProperties
    <2>4. Len(r) = Len(b)
      BY <1>5, <2>3
    <2>5. \A k \in 1..Len(b) : r[k] = b[k]
      <3> SUFFICES ASSUME NEW k \in 1..Len(b) PROVE r[k] = b[k]
        OBVIOUS
      <3>1. k \in 1..(Len(b) - 1 + 1) /\ 1 + k - 1 = k
        BY <1>5
      <3> QED
        BY <1>7, <2>3, <3>1
    <2>6. r = b
      BY <2>3, <2>4, <2>5, SeqEqual
    <2> QED
      BY <2>2, <2>6
  <1>10. WellChecked(s)
    <2>1. Len(s) - 2 = Len(b) /\ Len(s) - 1 = Len(b) + 1 /\ Len(s) = Len(b) + 2
      BY <1>5, <1>6
    <2> QED
      BY <1>2, <1>8, <1>9, <2>1 DEF WellChecked
  <1> QED
    BY <1>2, <1>4, <1>6, <1>7, <1>8, <1>9, <1>10

(* A part of a sequence of bytes.                                          *)
LEMMA Cut ==
    ASSUME NEW s \in Seq(Byte), NEW i \in Nat, NEW m \in Nat,
           0 < i, i <= m + 1, m <= Len(s)
    PROVE  /\ SubSeq(s, i, m) \in Seq(Byte)
           /\ Len(SubSeq(s, i, m)) = m - i + 1
           /\ \A k \in 1..(m - i + 1) : SubSeq(s, i, m)[k] = s[i + k - 1]
  <1>1. Len(s) \in Nat
    BY LenProperties
  <1>2. \A k \in i..m : s[k] \in Byte
    <2> SUFFICES ASSUME NEW k \in i..m PROVE s[k] \in Byte
      OBVIOUS
    <2>1. k \in 1..Len(s)
      BY <1>1
    <2> QED
      BY <2>1, ElementOfSeq
  <1>3. /\ SubSeq(s, i, m) \in Seq(Byte)
        /\ Len(SubSeq(s, i, m)) = IF i <= m THEN m - i + 1 ELSE 0
        /\ \A k \in 1..(m - i + 1) : SubSeq(s, i, m)[k] = s[i + k - 1]
    BY <1>2, SubSeqProperties
  <1>4. (IF i <= m THEN m - i + 1 ELSE 0) = m - i + 1
    OBVIOUS
  <1> QED
    BY <1>3, <1>4

IsFirst(m, s, d) ==
    d \in Seq(Byte) /\ Len(d) = m /\ \A k \in 1..m : d[k] = s[k]

LEMMA FirstBytes ==
    \A s \in Seq(Byte) : \A m \in Nat : m <= Len(s) => IsFirst(m, s, SubSeq(s, 1, m))
  <1> SUFFICES ASSUME NEW s \in Seq(Byte), NEW m \in Nat, m <= Len(s)
               PROVE  IsFirst(m, s, SubSeq(s, 1, m))
    OBVIOUS
  <1>1. PICK d : d = SubSeq(s, 1, m)
    OBVIOUS
  <1>2. /\ d \in Seq(Byte) /\ Len(d) = m - 1 + 1
        /\ \A k \in 1..(m - 1 + 1) : d[k] = s[1 + k - 1]
    <2>1. 1 \in Nat /\ 0 < 1 /\ 1 <= m + 1
      OBVIOUS
    <2> QED
      BY <1>1, <2>1, Cut
  <1>3. m - 1 + 1 = m /\ \A k \in 1..m : 1 + k - 1 = k
    OBVIOUS
  <1> QED
    BY <1>1, <1>2, <1>3 DEF IsFirst

(* Two sums that differ by less than 256 leave different checksums.        *)
LEMMA ChecksumsDiffer ==
    ASSUME NEW a \in Int, NEW b \in Int, a # b, -256 < b - a, b - a < 256
    PROVE  (65536 - (a % 65536)) % 65536 # (65536 - (b % 65536)) % 65536
  <1>1. \A r \in Nat : r < 65536 => (65536 - r) % 65536 = IF r = 0 THEN 0 ELSE 65536 - r
    OBVIOUS
  <1>2. PICK r \in Nat : r = a % 65536 /\ r < 65536
    OBVIOUS
  <1>3. PICK q \in Nat : q = b % 65536 /\ q < 65536
    OBVIOUS
  <1>4. PICK c \in Int : a = 65536 * c + r
    BY <1>2
  <1>5. PICK e \in Int : b = 65536 * e + q
    BY <1>3
  <1>6. r # q
    <2> SUFFICES ASSUME r = q PROVE FALSE
      OBVIOUS
    <2>1. PICK g \in Int : g = e - c
      OBVIOUS
    <2>2. b - a = 65536 * g
      BY <1>4, <1>5, <2>1
    <2>3. g = 0
      BY <2>2
    <2> QED
      BY <2>2, <2>3
  <1> QED
    BY <1>1, <1>2, <1>3, <1>6

(* One changed byte in a packet that checks out, in its bytes or in its    *)
(* checksum, and it does not check out any more.                           *)
THEOREM ChangeIsFound ==
    ASSUME NEW s \in Seq(Byte), NEW t \in Seq(Byte), Len(t) = Len(s), Len(s) >= 2,
           NEW j \in 1..Len(s), \A k \in 1..Len(s) : k # j => t[k] = s[k],
           t[j] # s[j], WellChecked(s)
    PROVE  ~WellChecked(t)
  <1> SUFFICES ASSUME WellChecked(t) PROVE FALSE
    OBVIOUS
  <1>1. PICK n : n = Len(s)
    OBVIOUS
  <1>2. PICK d, e : d = SubSeq(s, 1, n - 2) /\ e = SubSeq(t, 1, n - 2)
    OBVIOUS
  <1>3. n \in Nat /\ n >= 2 /\ n - 2 \in Nat /\ 1 <= n - 2 + 1 /\ n - 2 <= n
    BY <1>1, LenProperties
  <1>4. /\ d \in Seq(Byte) /\ Len(d) = n - 2
        /\ \A k \in 1..(n - 2) : d[k] = s[k]
    BY <1>1, <1>2, <1>3, FirstBytes DEF IsFirst
  <1>5. /\ e \in Seq(Byte) /\ Len(e) = n - 2
        /\ \A k \in 1..(n - 2) : e[k] = t[k]
    BY <1>1, <1>2, <1>3, FirstBytes DEF IsFirst
  <1>6. /\ crc16(d) = FromLE16(s[n - 1], s[n])
        /\ crc16(e) = FromLE16(t[n - 1], t[n])
    BY <1>1, <1>2 DEF WellChecked
  <1>7. \A k \in 1..n : s[k] \in Byte /\ t[k] \in Byte
    BY <1>1, ElementOfSeq
  <1>8. CASE j <= n - 2
    <2>1. j \in 1..(n - 2) /\ n - 1 \in 1..n /\ n \in 1..n /\ n - 1 # j /\ n # j
      BY <1>1, <1>3, <1>8
    <2>2. crc16(d) = crc16(e)
      BY <1>1, <1>6, <2>1
    <2>3. \A k \in 1..(n - 2) : k # j => e[k] = d[k]
      <3> SUFFICES ASSUME NEW k \in 1..(n - 2), k # j PROVE e[k] = d[k]
        OBVIOUS
      <3>1. k \in 1..n
        BY <1>3
      <3> QED
        BY <1>1, <1>4, <1>5, <3>1
    <2>4. Total(e) - Total(d) = e[j] - d[j]
      <3>1. /\ d \in Seq(Byte) /\ e \in Seq(Byte) /\ Len(e) = Len(d) /\ j \in 1..Len(d)
            /\ \A k \in 1..Len(d) : k # j => e[k] = d[k]
        BY <1>4, <1>5, <2>1, <2>3
      <3> QED
        BY <3>1, TotalChanged
    <2>5. e[j] = t[j] /\ d[j] = s[j] /\ t[j] \in Byte /\ s[j] \in Byte
      BY <1>1, <1>4, <1>5, <1>7, <2>1
    <2>6. Total(d) \in Int /\ Total(e) \in Int
      BY <1>4, <1>5, TotalBounds
    <2>7. /\ t[j] \in Int /\ 0 <= t[j] /\ t[j] <= 255
          /\ s[j] \in Int /\ 0 <= s[j] /\ s[j] <= 255
      BY <2>5, Bytes
    <2>8. crc16(d) # crc16(e)
      <3>1. Total(e) - Total(d) = t[j] - s[j]
        BY <2>4, <2>5
      <3>2. PICK a \in Int : a = Total(d)
        BY <2>6
      <3>3. PICK b \in Int : b = Total(e)
        BY <2>6
      <3>4. PICK x \in Int : x = t[j] /\ 0 <= x /\ x <= 255
        BY <2>7
      <3>5. PICK y \in Int : y = s[j] /\ 0 <= y /\ y <= 255
        BY <2>7
      <3>6. b - a = x - y /\ x # y
        BY <3>1, <3>2, <3>3, <3>4, <3>5
      <3>7. (65536 - (a % 65536)) % 65536 # (65536 - (b % 65536)) % 65536
        <4>1. a # b /\ -256 < b - a /\ b - a < 256
          BY <3>4, <3>5, <3>6
        <4> QED
          BY <4>1, ChecksumsDiffer
      <3> QED
        BY <3>2, <3>3, <3>7 DEF crc16, U16
    <2> QED
      BY <2>2, <2>8
  <1>9. CASE j > n - 2
    <2>1. j \in {n - 1, n} /\ n - 1 \in 1..n /\ n \in 1..n
      BY <1>1, <1>3, <1>9
    <2>2. d = e
      <3>1. \A k \in 1..(n - 2) : d[k] = e[k]
        <4> SUFFICES ASSUME NEW k \in 1..(n - 2) PROVE d[k] = e[k]
          OBVIOUS
        <4>1. k \in 1..n /\ k # j
          BY <1>3, <1>9
        <4> QED
          BY <1>1, <1>4, <1>5, <4>1
      <3> QED
        BY <1>4, <1>5, <3>1, SeqEqual
    <2>3. FromLE16(s[n - 1], s[n]) = FromLE16(t[n - 1], t[n])
      BY <1>6, <2>2
    <2>4. /\ s[n - 1] \in Int /\ 0 <= s[n - 1] /\ s[n - 1] <= 255 /\ s[n] \in Int
          /\ t[n - 1] \in Int /\ 0 <= t[n - 1] /\ t[n - 1] <= 255 /\ t[n] \in Int
      <3>1. s[n - 1] \in Byte /\ s[n] \in Byte /\ t[n - 1] \in Byte /\ t[n] \in Byte
        BY <1>7, <2>1
      <3>2. s[n - 1] \in Int /\ 0 <= s[n - 1] /\ s[n - 1] <= 255 /\ s[n] \in Int
        BY <3>1, Bytes
      <3>3. t[n - 1] \in Int /\ 0 <= t[n - 1] /\ t[n - 1] <= 255 /\ t[n] \in Int
        BY <3>1, Bytes
      <3> QED
        BY <3>2, <3>3
    <2>5. s[n - 1] + 256 * s[n] = t[n - 1] + 256 * t[n]
      BY <2>3 DEF FromLE16
    <2>6. s[n - 1] = t[n - 1] /\ s[n] = t[n]
      <3>1. PICK a \in Int : a = s[n - 1] /\ 0 <= a /\ a <= 255
        BY <2>4
      <3>2. PICK b \in Int : b = s[n]
        BY <2>4
      <3>3. PICK x \in Int : x = t[n - 1] /\ 0 <= x /\ x <= 255
        BY <2>4
      <3>4. PICK y \in Int : y = t[n]
        BY <2>4
      <3>5. a + 256 * b = x + 256 * y
        BY <2>5, <3>1, <3>2, <3>3, <3>4
      <3>6. a = x /\ b = y
        <4>1. PICK c \in Int : c = y - b
          OBVIOUS
        <4>2. a - x = 256 * c
          BY <3>5, <4>1
        <4>3. -256 < a - x /\ a - x < 256
          BY <3>1, <3>3
        <4>4. c = 0
          BY <4>2, <4>3
        <4> QED
          BY <4>1, <4>2, <4>4
      <3> QED
        BY <3>1, <3>2, <3>3, <3>4, <3>6
    <2> QED
      BY <2>1, <2>6
  <1> QED
    BY <1>1, <1>3, <1>8, <1>9

(* What is known of two sequences joined, and of a packet.                 *)
Joined(s, t, u) ==
    /\ u \in Seq(Byte) /\ Len(u) = Len(s) + Len(t)
    /\ \A k \in 1..Len(s) : u[k] = s[k]
    /\ \A k \in 1..Len(t) : u[Len(s) + k] = t[k]
Packed(b, w) ==
    /\ w \in Seq(Byte) /\ Len(w) = Len(b) + 2 /\ WellChecked(w)
    /\ \A k \in 1..Len(b) : w[k] = b[k]
    /\ w[Len(b) + 1] = crc16(b) % 256 /\ w[Len(b) + 2] = crc16(b) \div 256

InTwoBytes(n, z) ==
    /\ z \in Seq(Byte) /\ Len(z) = 2 /\ z[1] = n % 256 /\ z[2] = n \div 256
    /\ FromLE16(n % 256, n \div 256) = n

LEMMA TwoBytesOf == \A n \in Nat : n < 65536 => InTwoBytes(n, LE16(n))
  BY TwoBytes DEF InTwoBytes

LEMMA JoinBytes == \A s, t \in Seq(Byte) : Joined(s, t, s \o t)
  <1> SUFFICES ASSUME NEW s \in Seq(Byte), NEW t \in Seq(Byte)
               PROVE  Joined(s, t, s \o t)
    OBVIOUS
  <1>0. PICK u : u = s \o t
    OBVIOUS
  <1>1. PICK i \in Nat : i = Len(s)
    BY LenProperties
  <1>2. PICK j \in Nat : j = Len(t)
    BY LenProperties
  <1>3. /\ s \o t \in Seq(Byte) /\ Len(s \o t) = Len(s) + Len(t)
        /\ \A k \in 1..(Len(s) + Len(t)) :
               (s \o t)[k] = IF k <= Len(s) THEN s[k] ELSE t[k - Len(s)]
    BY ConcatProperties
  <1>4. /\ u \in Seq(Byte) /\ Len(u) = i + j
        /\ \A k \in 1..(i + j) : u[k] = IF k <= i THEN s[k] ELSE t[k - i]
    BY <1>0, <1>1, <1>2, <1>3
  <1>5. \A k \in 1..i : u[k] = s[k]
    <2> SUFFICES ASSUME NEW k \in 1..i PROVE u[k] = s[k]
      OBVIOUS
    <2>1. k \in 1..(i + j) /\ k <= i
      OBVIOUS
    <2> QED
      BY <1>4, <2>1
  <1>6. \A k \in 1..j : u[i + k] = t[k]
    <2> SUFFICES ASSUME NEW k \in 1..j PROVE u[i + k] = t[k]
      OBVIOUS
    <2>1. i + k \in 1..(i + j) /\ ~(i + k <= i) /\ i + k - i = k
      OBVIOUS
    <2> QED
      BY <1>4, <2>1
  <1>7. Joined(s, t, u)
    BY <1>1, <1>2, <1>4, <1>5, <1>6 DEF Joined
  <1> QED
    BY <1>0, <1>7

LEMMA PacketOf == \A b \in Seq(Byte) : Packed(b, Packet(b))
  BY PacketFacts DEF Packed

(* What conbee_read_frame makes of a packet that is not empty.             *)
FrameIn(s, m) == [command |-> s[1], sequence_number |-> s[2],
                  status |-> s[3], length |-> FromLE16(s[4], s[5]),
                  payload_length |-> m, payload |-> SubSeq(s, 6, 5 + m)]
Failed(result) == [result |-> result, frame |-> BlankFrame]
Taken(f) == [result |-> "frame", frame |-> f]

LEMMA ReadFrameFacts ==
    ASSUME NEW s \in Seq(Byte), Len(s) >= 1, Len(s) <= 1000
    PROVE  \/ /\ ReadFrame(s) = Failed("undefined") /\ Len(s) < 7
           \/ /\ ReadFrame(s) = Failed("wrong crc") /\ ~WellChecked(s)
           \/ \E m \in Nat :
                  /\ ReadFrame(s) = Taken(FrameIn(s, m)) /\ WellChecked(s)
                  /\ (Len(s) = 5 /\ m = 0) \/ (Len(s) >= 7 /\ m = Len(s) - 7)
  <1>1. PICK n : n = Len(s)
    OBVIOUS
  <1>2. n \in Nat /\ n >= 1 /\ n <= 1000
    BY <1>1, LenProperties
  <1>3. PICK m : m = PayloadLength(n)
    OBVIOUS
  <1>4. /\ n <= 5 => m = 0
        /\ n = 6 => m = 65535
        /\ n >= 7 => m = n - 7
    BY <1>2, <1>3 DEF PayloadLength, U16
  <1>5. ReadFrame(s) =
            IF n = 1 THEN Failed("undefined")
            ELSE IF ~WellChecked(s) THEN Failed("wrong crc")
            ELSE IF n < 5 \/ m > n THEN Failed("undefined")
            ELSE Taken(FrameIn(s, m))
    BY <1>1, <1>3 DEF ReadFrame, Failed, Taken, FrameIn
  <1>6. CASE n = 1
    BY <1>1, <1>2, <1>5, <1>6
  <1>7. CASE n # 1 /\ ~WellChecked(s)
    BY <1>1, <1>5, <1>7
  <1>8. CASE n # 1 /\ WellChecked(s) /\ (n < 5 \/ m > n)
    <2>1. n < 7
      BY <1>2, <1>4, <1>8
    <2>2. ReadFrame(s) = Failed("undefined")
      BY <1>5, <1>8
    <2> QED
      BY <1>1, <2>1, <2>2
  <1>9. CASE n # 1 /\ WellChecked(s) /\ ~(n < 5 \/ m > n)
    <2>1. m \in Nat /\ ((n = 5 /\ m = 0) \/ (n >= 7 /\ m = n - 7))
      BY <1>2, <1>4, <1>9
    <2>2. ReadFrame(s) = Taken(FrameIn(s, m))
      BY <1>5, <1>9
    <2> QED
      BY <1>1, <1>9, <2>1, <2>2
  <1> QED
    BY <1>6, <1>7, <1>8, <1>9

LEMMA FrameInFacts ==
    ASSUME NEW s \in Seq(Byte), NEW m \in Nat, 5 + m <= Len(s)
    PROVE  /\ FrameIn(s, m).command = s[1] /\ s[1] \in Byte
           /\ FrameIn(s, m).sequence_number = s[2] /\ s[2] \in Byte
           /\ FrameIn(s, m).status = s[3] /\ s[3] \in Byte
           /\ FrameIn(s, m).payload_length = m
           /\ FrameIn(s, m).payload \in Seq(Byte) /\ Len(FrameIn(s, m).payload) = m
           /\ \A k \in 1..m : FrameIn(s, m).payload[k] = s[k + 5]
  <1>1. PICK p : p = SubSeq(s, 6, 5 + m)
    OBVIOUS
  <1>2. /\ p \in Seq(Byte) /\ Len(p) = 5 + m - 6 + 1
        /\ \A k \in 1..(5 + m - 6 + 1) : p[k] = s[6 + k - 1]
    <2>1. 6 \in Nat /\ 5 + m \in Nat /\ 0 < 6 /\ 6 <= 5 + m + 1 /\ 5 + m <= Len(s)
      OBVIOUS
    <2> QED
      BY <1>1, <2>1, Cut
  <1>3. 5 + m - 6 + 1 = m /\ \A k \in 1..m : 6 + k - 1 = k + 5
    OBVIOUS
  <1>4. Len(p) = m /\ \A k \in 1..m : p[k] = s[k + 5]
    BY <1>2, <1>3
  <1>5. s[1] \in Byte /\ s[2] \in Byte /\ s[3] \in Byte
    <2>1. Len(s) \in Nat
      BY LenProperties
    <2>2. 1 \in 1..Len(s) /\ 2 \in 1..Len(s) /\ 3 \in 1..Len(s)
      BY <2>1
    <2> QED
      BY <2>2, ElementOfSeq
  <1>6. /\ FrameIn(s, m).command = s[1] /\ FrameIn(s, m).sequence_number = s[2]
        /\ FrameIn(s, m).status = s[3] /\ FrameIn(s, m).payload_length = m
        /\ FrameIn(s, m).payload = p
    BY <1>1 DEF FrameIn
  <1> QED
    BY <1>2, <1>4, <1>5, <1>6

InFrame(s, m, f) ==
    /\ f.command = s[1] /\ f.sequence_number = s[2] /\ f.status = s[3]
    /\ f.payload_length = m /\ f.payload \in Seq(Byte) /\ Len(f.payload) = m

LEMMA FrameInOf ==
    \A s \in Seq(Byte) : \A m \in Nat : 5 + m <= Len(s) => InFrame(s, m, FrameIn(s, m))
  BY FrameInFacts DEF InFrame

(* The answer of the stick with this command, sequence number and code.    *)
Whole(command, number, code, payload) ==
    Packet(<<command, number, code>> \o LE16(5 + Len(payload)) \o payload)

(* An answer of the stick, as ReadFrame takes it apart.                    *)
IsWhole(command, number, code, payload, w) ==
    /\ w \in Seq(Byte) /\ Len(w) = 7 + Len(payload)
    /\ w[1] = command /\ w[2] = number /\ w[3] = code
    /\ \A k \in 1..Len(payload) : w[k + 5] = payload[k]
    /\ WellChecked(w)
    /\ ReadFrame(w) = Taken(FrameIn(w, Len(payload)))
    /\ FrameIn(w, Len(payload)).payload = payload

LEMMA WholeFacts ==
    ASSUME NEW a \in Byte, NEW b \in Byte, NEW d \in Byte, NEW payload \in Seq(Byte),
           Len(payload) <= 500, NEW w, w = Whole(a, b, d, payload)
    PROVE  IsWhole(a, b, d, payload, w)
  <1>1. PICK l \in Nat : l = Len(payload)
    BY LenProperties
  <1>2. PICK x : x = <<a, b, d>>
    OBVIOUS
  <1>3. /\ x \in Seq(Byte) /\ Len(x) = 3 /\ x[1] = a /\ x[2] = b /\ x[3] = d
    BY <1>2
  <1>4. PICK y : y = LE16(5 + l)
    OBVIOUS
  <1>5. y \in Seq(Byte) /\ Len(y) = 2
    <2>1. 5 + l \in Nat /\ 5 + l < 65536
      BY <1>1
    <2> QED
      BY <1>4, <2>1, TwoBytes
  <1>6. PICK xy : xy = x \o y
    OBVIOUS
  <1>7. xy \in Seq(Byte) /\ Len(xy) = 5 /\ \A k \in 1..3 : xy[k] = x[k]
    <2>1. x \in Seq(Byte) /\ y \in Seq(Byte) /\ Len(x) = 3 /\ Len(y) = 2
      BY <1>3, <1>5
    <2>2. Joined(x, y, xy)
      <3>1. x \in Seq(Byte) /\ y \in Seq(Byte)
        BY <2>1
      <3> QED
        BY <1>6, <3>1, JoinBytes
    <2> QED
      BY <2>1, <2>2 DEF Joined
  <1>8. PICK body : body = xy \o payload
    OBVIOUS
  <1>9. /\ body \in Seq(Byte) /\ Len(body) = 5 + l
        /\ \A k \in 1..5 : body[k] = xy[k]
        /\ \A k \in 1..l : body[5 + k] = payload[k]
    <2>1. xy \in Seq(Byte) /\ Len(xy) = 5 /\ Len(payload) = l
      BY <1>1, <1>7
    <2>2. Joined(xy, payload, body)
      <3>1. xy \in Seq(Byte) /\ payload \in Seq(Byte)
        BY <2>1
      <3> QED
        BY <1>8, <3>1, JoinBytes
    <2> QED
      BY <2>1, <2>2 DEF Joined
  <1>10. w = Packet(body)
    BY <1>1, <1>2, <1>4, <1>6, <1>8 DEF Whole
  <1>11. /\ w \in Seq(Byte) /\ Len(w) = 5 + l + 2 /\ WellChecked(w)
         /\ \A k \in 1..(5 + l) : w[k] = body[k]
    <2>1. body \in Seq(Byte) /\ Len(body) = 5 + l
      BY <1>9
    <2>2. Packed(body, w)
      <3>1. body \in Seq(Byte)
        BY <2>1
      <3> QED
        BY <1>10, <3>1, PacketOf
    <2> QED
      BY <2>1, <2>2 DEF Packed
  <1>12. w[1] = a /\ w[2] = b /\ w[3] = d
    <2>1. \A k \in {1, 2, 3} : k \in 1..(5 + l) /\ k \in 1..5 /\ k \in 1..3
      BY <1>1
    <2>2. \A k \in {1, 2, 3} : w[k] = x[k]
      BY <1>7, <1>9, <1>11, <2>1
    <2> QED
      BY <1>3, <2>2
  <1>13. \A k \in 1..l : w[k + 5] = payload[k]
    <2> SUFFICES ASSUME NEW k \in 1..l PROVE w[k + 5] = payload[k]
      OBVIOUS
    <2>1. k + 5 \in 1..(5 + l) /\ k + 5 = 5 + k
      BY <1>1
    <2> QED
      BY <1>9, <1>11, <2>1
  <1>14. Len(w) = 7 + l /\ 5 + l <= Len(w)
    BY <1>1, <1>11
  <1>15. ReadFrame(w) = Taken(FrameIn(w, l))
    <2>1. Len(w) >= 1 /\ Len(w) <= 1000 /\ ~(Len(w) < 7) /\ Len(w) # 5 /\ Len(w) - 7 = l
      BY <1>1, <1>14
    <2> QED
      BY <1>11, <2>1, ReadFrameFacts
  <1>16. FrameIn(w, l).payload = payload
    <2>1. PICK p : p = FrameIn(w, l).payload
      OBVIOUS
    <2>2. p \in Seq(Byte) /\ Len(p) = l /\ \A k \in 1..l : p[k] = w[k + 5]
      BY <1>11, <1>14, <2>1, FrameInFacts
    <2>3. \A k \in 1..l : p[k] = payload[k]
      BY <1>13, <2>2
    <2>4. p = payload
      BY <1>1, <2>2, <2>3, SeqEqual
    <2> QED
      BY <2>1, <2>4
  <1> QED
    BY <1>1, <1>11, <1>12, <1>13, <1>14, <1>15, <1>16 DEF IsWhole

LEMMA WholeOf ==
    \A a, b, d \in Byte : \A payload \in Seq(Byte) :
        Len(payload) <= 20 => IsWhole(a, b, d, payload, Whole(a, b, d, payload))
  <1> SUFFICES ASSUME NEW a \in Byte, NEW b \in Byte, NEW d \in Byte,
                      NEW payload \in Seq(Byte), Len(payload) <= 20
               PROVE  IsWhole(a, b, d, payload, Whole(a, b, d, payload))
    OBVIOUS
  <1>1. Len(payload) <= 500
    <2>1. Len(payload) \in Nat
      BY LenProperties
    <2> QED
      BY <2>1
  <1> QED
    BY <1>1, WholeFacts

(* The bytes of a request on the line.                                     *)
LEMMA WriteFrameFacts ==
    ASSUME NEW f, f.command \in Byte, f.sequence_number \in Byte,
           f.payload \in Seq(Byte), f.payload_length = Len(f.payload),
           Len(f.payload) <= 500, f.length \in Nat, f.length >= 5,
           f.length <= IF Len(f.payload) > 0 THEN 7 + Len(f.payload) ELSE 5,
           NEW w, w = WriteFrame(f)
    PROVE  /\ w \in Seq(Byte) /\ Len(w) = f.length + 2 /\ WellChecked(w)
           /\ w[1] = f.command /\ w[2] = f.sequence_number
           /\ f.length >= 7 => FromLE16(w[6], w[7]) = Len(f.payload)
           /\ \A k \in 1..(f.length - 7) : w[k + 7] = f.payload[k]
  <1>1. PICK l \in Nat : l = Len(f.payload)
    BY LenProperties
  <1>2. PICK m \in Nat : m = f.length
    OBVIOUS
  <1>3. PICK p : p = f.payload
    OBVIOUS
  <1>4. /\ p \in Seq(Byte) /\ Len(p) = l /\ l <= 500 /\ m >= 5 /\ m <= 507
        /\ (l > 0 /\ m <= 7 + l) \/ (l = 0 /\ m = 5)
    BY <1>1, <1>2, <1>3
  <1>5. PICK x : x = <<f.command, f.sequence_number, 0>>
    OBVIOUS
  <1>6. x \in Seq(Byte) /\ Len(x) = 3 /\ x[1] = f.command /\ x[2] = f.sequence_number
    <2>1. 0 \in Byte
      BY Bytes
    <2> QED
      BY <1>5, <2>1
  <1>7. PICK y : y = LE16(m)
    OBVIOUS
  <1>8. y \in Seq(Byte) /\ Len(y) = 2
    <2>1. m \in Nat /\ m < 65536
      BY <1>4
    <2> QED
      BY <1>7, <2>1, TwoBytes
  <1>9. PICK header : header = x \o y
    OBVIOUS
  <1>10. header \in Seq(Byte) /\ Len(header) = 5 /\ \A k \in 1..3 : header[k] = x[k]
    <2>1. x \in Seq(Byte) /\ y \in Seq(Byte) /\ Len(x) = 3 /\ Len(y) = 2
      BY <1>6, <1>8
    <2>2. Joined(x, y, header)
      <3>1. x \in Seq(Byte) /\ y \in Seq(Byte)
        BY <2>1
      <3> QED
        BY <1>9, <3>1, JoinBytes
    <2> QED
      BY <2>1, <2>2 DEF Joined
  <1>11. PICK body : body = IF f.payload_length > 0 THEN LE16(f.payload_length) \o f.payload
                                                    ELSE <<>>
    OBVIOUS
  <1>12. /\ body \in Seq(Byte) /\ m <= 5 + Len(body) /\ Len(body) \in Nat
         /\ m >= 7 => /\ Len(body) = 2 + l
                      /\ body[1] = l % 256 /\ body[2] = l \div 256
                      /\ FromLE16(l % 256, l \div 256) = l
                      /\ \A k \in 1..l : body[2 + k] = p[k]
    <2>1. CASE l = 0
      <3>1. body = <<>>
        BY <1>1, <1>11, <2>1
      <3>2. <<>> \in Seq(Byte) /\ Len(<<>>) = 0
        BY EmptySeq
      <3> QED
        BY <1>4, <2>1, <3>1, <3>2
    <2>2. CASE l > 0
      <3>1. PICK z : z = LE16(l)
        OBVIOUS
      <3>2. /\ z \in Seq(Byte) /\ Len(z) = 2 /\ z[1] = l % 256 /\ z[2] = l \div 256
            /\ FromLE16(l % 256, l \div 256) = l
        <4>1. l \in Nat /\ l < 65536
          BY <1>4
        <4>2. InTwoBytes(l, z)
          BY <3>1, <4>1, TwoBytesOf
        <4> QED
          BY <4>2 DEF InTwoBytes
      <3>3. body = z \o p
        BY <1>1, <1>3, <1>11, <2>2, <3>1
      <3>4. /\ body \in Seq(Byte) /\ Len(body) = 2 + l
            /\ \A k \in 1..2 : body[k] = z[k]
            /\ \A k \in 1..l : body[2 + k] = p[k]
        <4>1. z \in Seq(Byte) /\ p \in Seq(Byte) /\ Len(z) = 2 /\ Len(p) = l
          BY <1>4, <3>2
        <4>2. Joined(z, p, body)
          <5>1. z \in Seq(Byte) /\ p \in Seq(Byte)
            BY <4>1
          <5> QED
            BY <3>3, <5>1, JoinBytes
        <4> QED
          BY <4>1, <4>2 DEF Joined
      <3>5. m <= 5 + Len(body) /\ Len(body) \in Nat
        BY <1>4, <2>2, <3>4
      <3> QED
        BY <3>2, <3>4, <3>5
    <2> QED
      BY <2>1, <2>2
  <1>13. PICK all : all = header \o body
    OBVIOUS
  <1>14. /\ all \in Seq(Byte) /\ Len(all) = 5 + Len(body)
         /\ \A k \in 1..5 : all[k] = header[k]
         /\ \A k \in 1..Len(body) : all[5 + k] = body[k]
    <2>1. header \in Seq(Byte) /\ body \in Seq(Byte) /\ Len(header) = 5
      BY <1>10, <1>12
    <2>2. Joined(header, body, all)
      <3>1. header \in Seq(Byte) /\ body \in Seq(Byte)
        BY <2>1
      <3> QED
        BY <1>13, <3>1, JoinBytes
    <2> QED
      BY <2>1, <2>2 DEF Joined
  <1>15. PICK bytes : bytes = SubSeq(all, 1, m)
    OBVIOUS
  <1>16. /\ bytes \in Seq(Byte) /\ Len(bytes) = m
         /\ \A k \in 1..m : bytes[k] = all[k]
    <2>1. 1 \in Nat /\ 0 < 1 /\ 1 <= m + 1 /\ m <= Len(all)
      BY <1>2, <1>12, <1>14
    <2>2. /\ bytes \in Seq(Byte) /\ Len(bytes) = m - 1 + 1
          /\ \A k \in 1..(m - 1 + 1) : bytes[k] = all[1 + k - 1]
      BY <1>14, <1>15, <2>1, Cut
    <2>3. m - 1 + 1 = m /\ \A k \in 1..m : 1 + k - 1 = k
      BY <1>2
    <2> QED
      BY <2>2, <2>3
  <1>17. w = Packet(bytes)
    BY <1>2, <1>5, <1>7, <1>9, <1>11, <1>13, <1>15 DEF WriteFrame
  <1>18. /\ w \in Seq(Byte) /\ Len(w) = m + 2 /\ WellChecked(w)
         /\ \A k \in 1..m : w[k] = bytes[k]
    <2>1. bytes \in Seq(Byte) /\ Len(bytes) = m
      BY <1>16
    <2>2. Packed(bytes, w)
      <3>1. bytes \in Seq(Byte)
        BY <2>1
      <3> QED
        BY <1>17, <3>1, PacketOf
    <2> QED
      BY <2>1, <2>2 DEF Packed
  <1>19. w[1] = f.command /\ w[2] = f.sequence_number
    <2>1. \A k \in {1, 2} : k \in 1..m /\ k \in 1..5 /\ k \in 1..3
      BY <1>4
    <2>2. \A k \in {1, 2} : w[k] = x[k]
      BY <1>10, <1>14, <1>16, <1>18, <2>1
    <2> QED
      BY <1>6, <2>2
  <1>20. ASSUME m >= 7 PROVE FromLE16(w[6], w[7]) = l
    <2>1. 6 \in 1..m /\ 7 \in 1..m /\ 1 \in 1..Len(body) /\ 2 \in 1..Len(body)
      BY <1>2, <1>12, <1>20
    <2>2. w[6] = all[6] /\ w[7] = all[7]
      BY <1>16, <1>18, <2>1
    <2>3. all[5 + 1] = body[1] /\ all[5 + 2] = body[2]
      BY <1>14, <2>1
    <2> QED
      BY <1>12, <1>20, <2>2, <2>3
  <1>21. \A k \in 1..(m - 7) : w[k + 7] = p[k]
    <2> SUFFICES ASSUME NEW k \in 1..(m - 7) PROVE w[k + 7] = p[k]
      OBVIOUS
    <2>1. /\ m >= 7 /\ k + 7 \in 1..m /\ k + 7 = 5 + (2 + k) /\ k \in Nat /\ k > 0
      BY <1>2
    <2>2. k \in 1..l /\ 2 + k \in 1..Len(body)
      <3>1. m <= 7 + l
        BY <1>4, <2>1
      <3>2. k <= l
        BY <2>1, <3>1
      <3>3. Len(body) = 2 + l
        BY <1>12, <2>1
      <3> QED
        BY <2>1, <3>2, <3>3
    <2>3. w[k + 7] = all[5 + (2 + k)]
      BY <1>16, <1>18, <2>1
    <2>4. all[5 + (2 + k)] = body[2 + k]
      BY <1>14, <2>2
    <2>5. body[2 + k] = p[k]
      BY <1>12, <2>1, <2>2
    <2> QED
      BY <2>3, <2>4, <2>5
  <1> QED
    BY <1>1, <1>2, <1>3, <1>18, <1>19, <1>20, <1>21
-----------------------------------------------------------------------------
LEMMA Constants ==
    /\ Parameters \subseteq Byte /\ ByteValues \subseteq Byte
    /\ MaxCalls \in Nat /\ MaxCalls <= 255
    /\ \A p \in Parameters : /\ Width[p] \in Nat /\ Width[p] > 0 /\ Width[p] <= 8
                             /\ StickWidth[p] \in Nat /\ StickWidth[p] > 0
                             /\ StickWidth[p] <= 16
    /\ Requests \subseteq {DeviceStatusRequest, NetworkJoinCreateRequest,
                           NetworkLeaveRequest, GetApsDataRequest}
  <1>1. Parameters \subseteq Byte /\ ByteValues \subseteq Byte
    BY FunctionsAssumption DEF Byte
  <1>2. MaxCalls \in Nat /\ MaxCalls <= 255
    BY FunctionsAssumption
  <1>3. \A n \in {1, 2, 4, 8} : n \in Nat /\ n > 0 /\ n <= 8
    OBVIOUS
  <1>4. \A n \in 1..16 : n \in Nat /\ n > 0 /\ n <= 16
    OBVIOUS
  <1>5. \A p \in Parameters : Width[p] \in {1, 2, 4, 8} /\ StickWidth[p] \in 1..16
    BY FunctionsAssumption
  <1>6. \A p \in Parameters : /\ Width[p] \in Nat /\ Width[p] > 0 /\ Width[p] <= 8
                              /\ StickWidth[p] \in Nat /\ StickWidth[p] > 0
                              /\ StickWidth[p] <= 16
    BY <1>3, <1>4, <1>5
  <1> QED
    BY <1>1, <1>2, <1>6, FunctionsAssumption

LEMMA ValuesAreBytes ==
    ASSUME NEW w \in Nat, NEW v \in Values(w)
    PROVE  v \in Seq(Byte) /\ Len(v) = w
  <1>1. v \in [1..w -> Byte]
    BY Constants DEF Values
  <1> QED
    BY <1>1

(* Every request a function or an application queues: whole bytes, a       *)
(* length that write_frame can meet, the parameter in front of its value.  *)
Request(f) ==
    /\ f.command \in Byte /\ f.sequence_number \in Byte
    /\ f.payload \in Seq(Byte) /\ f.payload_length = Len(f.payload)
    /\ Len(f.payload) <= 9
    /\ f.length \in Nat /\ f.length >= 5
    /\ f.length <= IF Len(f.payload) > 0 THEN 7 + Len(f.payload) ELSE 5
    /\ f.command \in {COMMAND_READ_PARAMETER, COMMAND_WRITE_PARAMETER} =>
           /\ Len(f.payload) > 0 /\ f.payload[1] \in Parameters
           /\ f.length = 7 + Len(f.payload)
    /\ f.command = COMMAND_WRITE_PARAMETER =>
           Tail(f.payload) \in Values(Width[f.payload[1]])
    /\ Requests \subseteq {GetApsDataRequest} /\ Len(f.payload) > 0 =>
           f.length = 7 + Len(f.payload)

LEMMA OneByte ==
    ASSUME NEW b \in Byte
    PROVE  <<b>> \in Seq(Byte) /\ Len(<<b>>) = 1 /\ <<b>>[1] = b
  OBVIOUS

LEMMA ReadRequest ==
    ASSUME NEW n \in Byte, NEW p \in Parameters,
           NEW g, g = [ReadParameterRequest(p) EXCEPT !.sequence_number = n]
    PROVE  Request(g)
  <1>1. p \in Byte
    BY Constants
  <1>2. PICK pay : pay = <<p>>
    OBVIOUS
  <1>3. pay \in Seq(Byte) /\ Len(pay) = 1 /\ pay[1] = p
    BY <1>1, <1>2, OneByte
  <1>4. /\ g.command = COMMAND_READ_PARAMETER /\ g.sequence_number = n /\ g.length = 8
        /\ g.payload_length = Len(pay) /\ g.payload = pay
    BY <1>2 DEF ReadParameterRequest, Frame
  <1>5. COMMAND_READ_PARAMETER \in Byte /\ COMMAND_READ_PARAMETER # COMMAND_WRITE_PARAMETER
    BY Bytes DEF COMMAND_READ_PARAMETER, COMMAND_WRITE_PARAMETER
  <1>6. g.length = 7 + Len(pay) /\ Len(pay) > 0 /\ Len(pay) <= 9 /\ g.length \in Nat /\ g.length >= 5
    BY <1>3, <1>4
  <1>7. g.length <= IF Len(g.payload) > 0 THEN 7 + Len(g.payload) ELSE 5
    BY <1>4, <1>6
  <1> QED
    BY <1>3, <1>4, <1>5, <1>6, <1>7 DEF Request

LEMMA WriteRequest ==
    ASSUME NEW n \in Byte, NEW p \in Parameters, NEW v \in Values(Width[p]),
           NEW g, g = [WriteParameterRequest(p, v) EXCEPT !.sequence_number = n]
    PROVE  Request(g)
  <1>1. PICK w \in Nat : w = Width[p] /\ w > 0 /\ w <= 8
    BY Constants
  <1>2. v \in Seq(Byte) /\ Len(v) = w
    BY <1>1, ValuesAreBytes
  <1>3. p \in Byte
    BY Constants
  <1>4. PICK one : one = <<p>>
    OBVIOUS
  <1>5. one \in Seq(Byte) /\ Len(one) = 1 /\ one[1] = p
    BY <1>3, <1>4, OneByte
  <1>6. PICK pay : pay = one \o v
    OBVIOUS
  <1>7. Joined(one, v, pay)
    <2>1. one \in Seq(Byte) /\ v \in Seq(Byte)
      BY <1>2, <1>5
    <2> QED
      BY <1>6, <2>1, JoinBytes
  <1>8. /\ pay \in Seq(Byte) /\ Len(pay) = 1 + w /\ pay[1] = p
        /\ \A k \in 1..w : pay[1 + k] = v[k]
    BY <1>1, <1>2, <1>5, <1>7 DEF Joined
  <1>9. /\ g.command = COMMAND_WRITE_PARAMETER /\ g.sequence_number = n
        /\ g.length = 8 + Len(v) /\ g.payload_length = Len(pay) /\ g.payload = pay
    BY <1>4, <1>6 DEF WriteParameterRequest, Frame
  <1>10. COMMAND_WRITE_PARAMETER \in Byte
    BY Bytes DEF COMMAND_WRITE_PARAMETER
  <1>11. Tail(pay) = v
    <2>1. pay # <<>>
      BY <1>1, <1>8, EmptySeq
    <2>2. PICK t : t = Tail(pay)
      OBVIOUS
    <2>3. /\ t \in Seq(Byte) /\ Len(t) = Len(pay) - 1
          /\ \A i \in 1..Len(t) : t[i] = pay[i + 1]
      BY <1>8, <2>1, <2>2, HeadTailProperties
    <2>4. Len(t) = w /\ \A i \in 1..w : t[i] = v[i]
      <3>1. PICK k : k = Len(pay)
        OBVIOUS
      <3>2. k = 1 + w /\ Len(t) = k - 1 /\ Len(t) = w
        BY <1>1, <1>8, <2>3, <3>1
      <3>3. ASSUME NEW i \in 1..w PROVE t[i] = v[i]
        <4>1. t[i] = pay[i + 1] /\ i + 1 = 1 + i
          BY <2>3, <3>2
        <4> QED
          BY <1>8, <4>1
      <3> QED
        BY <3>2, <3>3
    <2>5. t = v
      BY <1>2, <2>3, <2>4, SeqEqual
    <2> QED
      BY <2>2, <2>5
  <1>12. g.length = 7 + Len(pay) /\ Len(pay) > 0 /\ Len(pay) <= 9 /\ g.length \in Nat /\ g.length >= 5
    BY <1>1, <1>2, <1>8, <1>9
  <1>13. g.length <= IF Len(g.payload) > 0 THEN 7 + Len(g.payload) ELSE 5
    BY <1>9, <1>12
  <1> QED
    BY <1>8, <1>9, <1>10, <1>11, <1>12, <1>13 DEF Request

LEMMA RequestLengths ==
    \A i, j : \/ i = 0 /\ j = 5
              \/ i = 1 /\ j = 6
              \/ i = 1 /\ j = 8
              \/ i = 3 /\ j = 8
             => /\ i <= 9 /\ j \in Nat /\ j >= 5 /\ j <= IF i > 0 THEN 7 + i ELSE 5
                /\ i = 1 /\ j = 8 => j = 7 + i
  OBVIOUS

LEMMA OtherRequest ==
    ASSUME NEW n \in Byte, NEW f \in {ReadFirmwareRequest} \cup Requests,
           NEW g, g = [f EXCEPT !.sequence_number = n]
    PROVE  Request(g)
  <1> USE DEF COMMAND_READ_PARAMETER, COMMAND_WRITE_PARAMETER, COMMAND_VERSION,
              COMMAND_DEVICE_STATE, COMMAND_CHANGE_NETWORK_STATE,
              COMMAND_APS_DATA_INDICATION, NETWORK_CONNECTED, NETWORK_OFFLINE
  <1>1. \A b \in {0, 2, 7, 8, 13, 23} : b \in Byte
    BY Bytes
  <1>2. f \in {ReadFirmwareRequest, DeviceStatusRequest, NetworkJoinCreateRequest,
               NetworkLeaveRequest, GetApsDataRequest}
    BY Constants
  <1>3. CASE f = ReadFirmwareRequest
    <2>1. PICK pay : pay = <<>>
      OBVIOUS
    <2>2. pay \in Seq(Byte) /\ Len(pay) = 0
      BY <2>1
    <2>3. /\ g.command = 13 /\ g.sequence_number = n /\ g.length = 5
          /\ g.payload_length = Len(pay) /\ g.payload = pay
      BY <1>3, <2>1 DEF ReadFirmwareRequest, Frame
    <2>5. g.payload \in Seq(Byte) /\ g.payload_length = Len(g.payload)
      BY <2>2, <2>3
    <2>6. Len(g.payload) = 0 /\ g.length = 5
      BY <2>2, <2>3
    <2>7. /\ Len(g.payload) <= 9 /\ g.length \in Nat /\ g.length >= 5
          /\ g.length <= IF Len(g.payload) > 0 THEN 7 + Len(g.payload) ELSE 5
      BY <2>6, RequestLengths
    <2>8. g.command \in Byte /\ ~(g.command \in {10, 11})
      BY <1>1, <2>3
    <2>9. Requests \subseteq {GetApsDataRequest} /\ Len(g.payload) > 0 =>
              g.length = 7 + Len(g.payload)
      BY <2>6
    <2> QED
      BY <2>3, <2>5, <2>7, <2>8, <2>9 DEF Request
  <1>4. CASE f = DeviceStatusRequest
    <2>1. PICK pay : pay = <<0, 0, 0>>
      OBVIOUS
    <2>2. pay \in Seq(Byte) /\ Len(pay) = 3
      BY <1>1, <2>1
    <2>3. /\ g.command = 7 /\ g.sequence_number = n /\ g.length = 8
          /\ g.payload_length = Len(pay) /\ g.payload = pay
      BY <1>4, <2>1 DEF DeviceStatusRequest, Frame
    <2>4. ~(Requests \subseteq {GetApsDataRequest})
      <3>1. f # ReadFirmwareRequest /\ f # GetApsDataRequest
        BY <1>4 DEF DeviceStatusRequest, ReadFirmwareRequest, GetApsDataRequest, Frame
      <3> QED
        BY <3>1
    <2>5. g.payload \in Seq(Byte) /\ g.payload_length = Len(g.payload)
      BY <2>2, <2>3
    <2>6. Len(g.payload) = 3 /\ g.length = 8
      BY <2>2, <2>3
    <2>7. /\ Len(g.payload) <= 9 /\ g.length \in Nat /\ g.length >= 5
          /\ g.length <= IF Len(g.payload) > 0 THEN 7 + Len(g.payload) ELSE 5
      BY <2>6, RequestLengths
    <2>8. g.command \in Byte /\ ~(g.command \in {10, 11})
      BY <1>1, <2>3
    <2>9. Requests \subseteq {GetApsDataRequest} /\ Len(g.payload) > 0 =>
              g.length = 7 + Len(g.payload)
      BY <2>6, <2>4
    <2> QED
      BY <2>3, <2>5, <2>7, <2>8, <2>9 DEF Request
  <1>5. CASE f = NetworkJoinCreateRequest
    <2>1. PICK pay : pay = <<2>>
      OBVIOUS
    <2>2. pay \in Seq(Byte) /\ Len(pay) = 1
      BY <1>1, <2>1
    <2>3. /\ g.command = 8 /\ g.sequence_number = n /\ g.length = 6
          /\ g.payload_length = Len(pay) /\ g.payload = pay
      BY <1>5, <2>1 DEF NetworkJoinCreateRequest, Frame
    <2>4. ~(Requests \subseteq {GetApsDataRequest})
      <3>1. f # ReadFirmwareRequest /\ f # GetApsDataRequest
        BY <1>5 DEF NetworkJoinCreateRequest, ReadFirmwareRequest, GetApsDataRequest, Frame
      <3> QED
        BY <3>1
    <2>5. g.payload \in Seq(Byte) /\ g.payload_length = Len(g.payload)
      BY <2>2, <2>3
    <2>6. Len(g.payload) = 1 /\ g.length = 6
      BY <2>2, <2>3
    <2>7. /\ Len(g.payload) <= 9 /\ g.length \in Nat /\ g.length >= 5
          /\ g.length <= IF Len(g.payload) > 0 THEN 7 + Len(g.payload) ELSE 5
      BY <2>6, RequestLengths
    <2>8. g.command \in Byte /\ ~(g.command \in {10, 11})
      BY <1>1, <2>3
    <2>9. Requests \subseteq {GetApsDataRequest} /\ Len(g.payload) > 0 =>
              g.length = 7 + Len(g.payload)
      BY <2>6, <2>4
    <2> QED
      BY <2>3, <2>5, <2>7, <2>8, <2>9 DEF Request
  <1>6. CASE f = NetworkLeaveRequest
    <2>1. PICK pay : pay = <<0>>
      OBVIOUS
    <2>2. pay \in Seq(Byte) /\ Len(pay) = 1
      BY <1>1, <2>1
    <2>3. /\ g.command = 8 /\ g.sequence_number = n /\ g.length = 6
          /\ g.payload_length = Len(pay) /\ g.payload = pay
      BY <1>6, <2>1 DEF NetworkLeaveRequest, Frame
    <2>4. ~(Requests \subseteq {GetApsDataRequest})
      <3>1. f # ReadFirmwareRequest /\ f # GetApsDataRequest
        BY <1>6 DEF NetworkLeaveRequest, ReadFirmwareRequest, GetApsDataRequest, Frame
      <3> QED
        BY <3>1
    <2>5. g.payload \in Seq(Byte) /\ g.payload_length = Len(g.payload)
      BY <2>2, <2>3
    <2>6. Len(g.payload) = 1 /\ g.length = 6
      BY <2>2, <2>3
    <2>7. /\ Len(g.payload) <= 9 /\ g.length \in Nat /\ g.length >= 5
          /\ g.length <= IF Len(g.payload) > 0 THEN 7 + Len(g.payload) ELSE 5
      BY <2>6, RequestLengths
    <2>8. g.command \in Byte /\ ~(g.command \in {10, 11})
      BY <1>1, <2>3
    <2>9. Requests \subseteq {GetApsDataRequest} /\ Len(g.payload) > 0 =>
              g.length = 7 + Len(g.payload)
      BY <2>6, <2>4
    <2> QED
      BY <2>3, <2>5, <2>7, <2>8, <2>9 DEF Request
  <1>7. CASE f = GetApsDataRequest
    <2>1. PICK pay : pay = <<7>>
      OBVIOUS
    <2>2. pay \in Seq(Byte) /\ Len(pay) = 1
      BY <1>1, <2>1
    <2>3. /\ g.command = 23 /\ g.sequence_number = n /\ g.length = 8
          /\ g.payload_length = Len(pay) /\ g.payload = pay
      BY <1>7, <2>1 DEF GetApsDataRequest, Frame
    <2>5. g.payload \in Seq(Byte) /\ g.payload_length = Len(g.payload)
      BY <2>2, <2>3
    <2>6. Len(g.payload) = 1 /\ g.length = 8
      BY <2>2, <2>3
    <2>7. /\ Len(g.payload) <= 9 /\ g.length \in Nat /\ g.length >= 5
          /\ g.length <= IF Len(g.payload) > 0 THEN 7 + Len(g.payload) ELSE 5
      BY <2>6, RequestLengths
    <2>8. g.command \in Byte /\ ~(g.command \in {10, 11})
      BY <1>1, <2>3
    <2>9. Requests \subseteq {GetApsDataRequest} /\ Len(g.payload) > 0 =>
              g.length = 7 + Len(g.payload)
      BY <2>6, RequestLengths
    <2> QED
      BY <2>3, <2>5, <2>7, <2>8, <2>9 DEF Request
  <1> QED
    BY <1>2, <1>3, <1>4, <1>5, <1>6, <1>7

(* A request as the stick takes it apart.                                  *)
OnLine(f, w) ==
    /\ w \in Seq(Byte) /\ Len(w) = f.length + 2 /\ WellChecked(w)
    /\ w[1] = f.command /\ w[2] = f.sequence_number
    /\ f.length >= 7 => FromLE16(w[6], w[7]) = Len(f.payload)
    /\ \A k \in 1..(f.length - 7) : w[k + 7] = f.payload[k]

LEMMA RequestOnLine == \A f : Request(f) => OnLine(f, WriteFrame(f))
  <1> SUFFICES ASSUME NEW f, Request(f) PROVE OnLine(f, WriteFrame(f))
    OBVIOUS
  <1>1. PICK w : w = WriteFrame(f)
    OBVIOUS
  <1>2. /\ f.command \in Byte /\ f.sequence_number \in Byte
        /\ f.payload \in Seq(Byte) /\ f.payload_length = Len(f.payload)
        /\ f.length \in Nat /\ f.length >= 5
        /\ f.length <= IF Len(f.payload) > 0 THEN 7 + Len(f.payload) ELSE 5
    BY DEF Request
  <1>3. Len(f.payload) <= 500
    <2>1. Len(f.payload) \in Nat
      BY <1>2, LenProperties
    <2>2. Len(f.payload) <= 9
      BY DEF Request
    <2> QED
      BY <2>1, <2>2
  <1>4. OnLine(f, w)
    BY <1>1, <1>2, <1>3, WriteFrameFacts DEF OnLine
  <1> QED
    BY <1>1, <1>4

(* All of the payload, for every request but the three that are cut short. *)
LEMMA PayloadOnLine ==
    ASSUME NEW f, Request(f), Len(f.payload) > 0, f.length = 7 + Len(f.payload),
           NEW w, w = WriteFrame(f)
    PROVE  /\ Len(w) = 9 + Len(f.payload)
           /\ FromLE16(w[6], w[7]) = Len(f.payload)
           /\ SubSeq(w, 8, 7 + Len(f.payload)) = f.payload
           /\ w[8] = f.payload[1]
  <1>1. PICK p : p = f.payload
    OBVIOUS
  <1>2. p \in Seq(Byte)
    BY <1>1 DEF Request
  <1>3. PICK l \in Nat : l = Len(p)
    BY <1>2, LenProperties
  <1>4. l > 0 /\ f.length = 7 + l
    BY <1>1, <1>3
  <1>5. OnLine(f, w)
    BY RequestOnLine
  <1>6. /\ w \in Seq(Byte) /\ Len(w) = 7 + l + 2
        /\ 7 + l >= 7 => FromLE16(w[6], w[7]) = l
        /\ \A k \in 1..(7 + l - 7) : w[k + 7] = p[k]
    BY <1>1, <1>3, <1>4, <1>5 DEF OnLine
  <1>7. Len(w) = 9 + l /\ FromLE16(w[6], w[7]) = l /\ \A k \in 1..l : w[k + 7] = p[k]
    BY <1>6
  <1>8. w[8] = p[1]
    BY <1>4, <1>7
  <1>9. PICK part : part = SubSeq(w, 8, 7 + l)
    OBVIOUS
  <1>10. /\ part \in Seq(Byte) /\ Len(part) = 7 + l - 8 + 1
         /\ \A k \in 1..(7 + l - 8 + 1) : part[k] = w[8 + k - 1]
    <2>1. /\ w \in Seq(Byte) /\ 8 \in Nat /\ 7 + l \in Nat /\ 0 < 8 /\ 8 <= 7 + l + 1
          /\ 7 + l <= Len(w)
      BY <1>4, <1>6, <1>7
    <2> QED
      BY <1>9, <2>1, Cut
  <1>11. Len(part) = l /\ \A k \in 1..l : part[k] = p[k]
    <2>1. 7 + l - 8 + 1 = l /\ \A k \in 1..l : 8 + k - 1 = k + 7
      OBVIOUS
    <2> QED
      BY <1>7, <1>10, <2>1
  <1>12. part = p
    BY <1>2, <1>3, <1>10, <1>11, SeqEqual
  <1> QED
    BY <1>1, <1>3, <1>7, <1>8, <1>9, <1>12

(* What a write request puts in the stick.                                 *)
LEMMA ValueOnLine ==
    ASSUME NEW f, Request(f), f.command = COMMAND_WRITE_PARAMETER,
           NEW w, w = WriteFrame(f)
    PROVE  /\ w[8] = f.payload[1] /\ f.payload[1] \in Parameters
           /\ Len(w) - 10 = Width[f.payload[1]]
           /\ SubSeq(w, 9, Len(w) - 2) = Tail(f.payload)
           /\ Tail(f.payload) \in Values(Width[f.payload[1]])
  <1>1. PICK p : p = f.payload
    OBVIOUS
  <1>2. /\ p \in Seq(Byte) /\ Len(p) > 0 /\ p[1] \in Parameters /\ f.length = 7 + Len(p)
        /\ Tail(p) \in Values(Width[p[1]])
    BY <1>1 DEF Request
  <1>3. PICK l \in Nat : l = Len(p)
    BY <1>2, LenProperties
  <1>4. PICK v : v = Tail(p)
    OBVIOUS
  <1>5. v \in Seq(Byte) /\ Len(v) = Width[p[1]]
    <2>1. Width[p[1]] \in Nat
      BY <1>2, Constants
    <2> QED
      BY <1>2, <1>4, <2>1, ValuesAreBytes
  <1>6. l > 0 /\ Len(v) = l - 1 /\ \A i \in 1..(l - 1) : v[i] = p[i + 1]
    <2>1. p # <<>>
      BY <1>2, EmptySeq
    <2>2. /\ Len(v) = Len(p) - 1
          /\ \A i \in 1..Len(v) : v[i] = p[i + 1]
      BY <1>2, <1>4, <2>1, HeadTailProperties
    <2> QED
      BY <1>2, <1>3, <2>2
  <1>7. OnLine(f, w)
    BY RequestOnLine
  <1>8. /\ w \in Seq(Byte) /\ Len(w) = 7 + l + 2
        /\ \A k \in 1..(7 + l - 7) : w[k + 7] = p[k]
    BY <1>1, <1>2, <1>3, <1>7 DEF OnLine
  <1>9. Len(w) = 9 + l /\ \A k \in 1..l : w[k + 7] = p[k]
    BY <1>8
  <1>10. w[8] = p[1]
    BY <1>6, <1>9
  <1>11. Len(w) - 10 = l - 1 /\ Len(w) - 2 = 7 + l
    BY <1>9
  <1>12. PICK part : part = SubSeq(w, 9, 7 + l)
    OBVIOUS
  <1>13. /\ part \in Seq(Byte) /\ Len(part) = 7 + l - 9 + 1
         /\ \A k \in 1..(7 + l - 9 + 1) : part[k] = w[9 + k - 1]
    <2>1. /\ w \in Seq(Byte) /\ 9 \in Nat /\ 7 + l \in Nat /\ 0 < 9 /\ 9 <= 7 + l + 1
          /\ 7 + l <= Len(w)
      BY <1>6, <1>8, <1>9
    <2> QED
      BY <1>12, <2>1, Cut
  <1>14. Len(part) = l - 1 /\ \A k \in 1..(l - 1) : part[k] = v[k]
    <2>1. 7 + l - 9 + 1 = l - 1
      OBVIOUS
    <2>2. \A k \in 1..(l - 1) : part[k] = v[k]
      <3> SUFFICES ASSUME NEW k \in 1..(l - 1) PROVE part[k] = v[k]
        OBVIOUS
      <3>1. 9 + k - 1 = (k + 1) + 7 /\ k + 1 \in 1..l
        OBVIOUS
      <3>2. part[k] = w[(k + 1) + 7]
        BY <1>13, <2>1, <3>1
      <3>3. w[(k + 1) + 7] = p[k + 1]
        BY <1>9, <3>1
      <3> QED
        BY <1>6, <3>2, <3>3
    <2> QED
      BY <1>13, <2>1, <2>2
  <1>15. part = v
    BY <1>5, <1>6, <1>13, <1>14, SeqEqual
  <1> QED
    BY <1>1, <1>2, <1>4, <1>5, <1>6, <1>10, <1>11, <1>12, <1>15
-----------------------------------------------------------------------------
(* The inductive invariant, stage by stage.  Frames are counted against    *)
(* calls; the packet is the request's; what the stick sent is an answer to *)
(* the request, whole, changed in one byte or cut in two; what arrives is  *)
(* such an answer or a piece that happens to check out, and what has been  *)
(* returned was made of it.                                                *)
Typed ==
    /\ stage \in {"idle", "sent", "answered", "received", "returned", "stuck", "undefined"}
    /\ packet \in Seq(Byte) /\ answers \in Seq(Seq(Byte))
    /\ returned \in {NONE, -1} \cup Byte /\ data \in Seq(Byte)
    /\ frames \in Nat /\ calls \in Nat /\ calls <= MaxCalls /\ frames <= calls
    /\ stage \in {"sent", "answered"} => frames < calls
    /\ stage = "received" => frames > 0
    /\ status \in {STATUS_SUCCESS, STATUS_BUSY} /\ damaged \in BOOLEAN
    /\ stored \in [Parameters -> Seq(Byte)]
    /\ \A p \in Parameters : stored[p] \in Values(StickWidth[p])

Asked == stage # "idle" => Request(request) /\ packet = WriteFrame(request)

Asks(command) == request.command = command
Parameter == request.payload[1]

StickPayload(payload) ==
    /\ status = STATUS_BUSY => payload = <<>>
    /\ status = STATUS_SUCCESS =>
           /\ Asks(COMMAND_READ_PARAMETER) =>
                  /\ Len(payload) = 3 + StickWidth[Parameter]
                  /\ SubSeq(payload, 4, Len(payload)) = stored[Parameter]
           /\ Asks(COMMAND_WRITE_PARAMETER) => stored[Parameter] = Tail(request.payload)
           /\ request.command \in DOMAIN StateByteAt =>
                  Len(payload) = StateByteAt[request.command]
FromStick(a) ==
    \E payload \in Seq(Byte) :
        /\ Len(payload) <= 20 /\ StickPayload(payload)
        /\ a = Whole(request.command, request.sequence_number, status, payload)
Changed(a, t) ==
    /\ t \in Seq(Byte) /\ Len(t) = Len(a)
    /\ \E j \in 1..Len(a) : t[j] # a[j] /\ \A k \in 1..Len(a) : k # j => t[k] = a[k]
Halves(a, i) == Piece(SubSeq(a, 1, i - 1)) \o Piece(SubSeq(a, i + 1, Len(a)))

Underway ==
    /\ stage = "sent" => ~damaged
    /\ stage = "answered" =>
        \E a : /\ FromStick(a)
               /\ \/ ~damaged /\ answers = <<a>>
                  \/ damaged /\ \E t : Changed(a, t) /\ answers = <<t>>
                  \/ /\ damaged /\ "split" \in Damages
                     /\ \E i \in 1..Len(a) : answers = Halves(a, i)

Narrow == \A p \in Parameters : StickWidth[p] <= Width[p] + 1
Harmless(f) ==
    HasStatus(f, STATUS_SUCCESS) =>
        /\ Asks(COMMAND_READ_PARAMETER) => f.payload_length # 3 + Width[Parameter]
        /\ Asks(COMMAND_WRITE_PARAMETER) =>
               status = STATUS_SUCCESS /\ stored[Parameter] = Tail(request.payload)
AnswerTo(f) ==
    /\ f.command = request.command
    /\ f.payload \in Seq(Byte) /\ Len(f.payload) = f.payload_length
    /\ ~damaged => f.status = status /\ StickPayload(f.payload)
    /\ damaged => "split" \in Damages /\ (Narrow => Harmless(f))
Arrived ==
    /\ stage \in {"received", "returned"} => AnswerTo(response)
    /\ stage = "undefined" => damaged

Returned ==
    stage = "returned" =>
        /\ returned = 0 /\ Asks(COMMAND_READ_PARAMETER) =>
               /\ HasStatus(response, STATUS_SUCCESS)
               /\ HasValue(response, Width[Parameter]) /\ data = ValueOf(response)
        /\ returned = 0 /\ Asks(COMMAND_WRITE_PARAMETER) =>
               HasStatus(response, STATUS_SUCCESS)
        /\ request.command \in DOMAIN StateByteAt /\
           StateByteAt[request.command] <= response.payload_length =>
               Total(data) = response.payload[StateByteAt[request.command]] % 64

FunctionsInv == Typed /\ Asked /\ Underway /\ Arrived /\ Returned

LEMMA StateBytes ==
    /\ DOMAIN StateByteAt = {7, 14, 23}
    /\ StateByteAt[7] = 2 /\ StateByteAt[14] = 1 /\ StateByteAt[23] = 4
  BY DEF StateByteAt, COMMAND_DEVICE_STATE, COMMAND_DEVICE_STATE_CHANGED,
         COMMAND_APS_DATA_INDICATION

LEMMA InitKeeps == Init => FunctionsInv
  <1> SUFFICES ASSUME Init PROVE FunctionsInv
    OBVIOUS
  <1>1. \A p \in Parameters : stored[p] \in Values(StickWidth[p])
    <2> SUFFICES ASSUME NEW p \in Parameters PROVE stored[p] \in Values(StickWidth[p])
      OBVIOUS
    <2>1. PICK q \in Parameters : stored[p] \in Values(StickWidth[q])
      BY DEF Init
    <2>2. StickWidth[q] \in Nat
      BY Constants
    <2>3. Len(stored[p]) = StickWidth[q]
      BY <2>1, <2>2, ValuesAreBytes
    <2> QED
      BY <2>1, <2>3 DEF Init
  <1>2. stored \in [Parameters -> Seq(Byte)]
    <2>1. \A p \in Parameters : stored[p] \in Seq(Byte)
      <3> SUFFICES ASSUME NEW p \in Parameters PROVE stored[p] \in Seq(Byte)
        OBVIOUS
      <3>1. StickWidth[p] \in Nat
        BY Constants
      <3> QED
        BY <1>1, <3>1, ValuesAreBytes
    <2> QED
      BY <2>1 DEF Init
  <1>3. Typed
    <2>1. packet \in Seq(Byte) /\ answers \in Seq(Seq(Byte)) /\ data \in Seq(Byte)
      BY DEF Init
    <2>2. /\ frames \in Nat /\ calls \in Nat /\ calls <= MaxCalls /\ frames <= calls
          /\ ~(stage \in {"sent", "answered"}) /\ stage # "received"
      BY Constants DEF Init
    <2>3. damaged \in BOOLEAN
      BY DEF Init
    <2> QED
      BY <1>1, <1>2, <2>1, <2>2, <2>3 DEF Init, Typed
  <1> QED
    BY <1>3 DEF Init, FunctionsInv, Asked, Underway, Arrived, Returned

LEMMA QueueKeeps ==
    ASSUME FunctionsInv, NEW f, Queue(f),
           \A n \in Byte : Request([f EXCEPT !.sequence_number = n])
    PROVE  FunctionsInv'
  <1>1. PICK g : g = [f EXCEPT !.sequence_number = calls]
    OBVIOUS
  <1>2. /\ stage' = "sent" /\ request' = g /\ packet' = WriteFrame(g)
        /\ calls' = calls + 1 /\ calls < MaxCalls
        /\ data' = <<>> /\ returned' = NONE /\ damaged' = FALSE
        /\ UNCHANGED <<response, frames, answers, stored, status>>
    BY <1>1 DEF Queue, stickVars
  <1>3. Typed
    BY DEF FunctionsInv
  <1>4. calls \in Nat /\ calls <= MaxCalls /\ frames \in Nat /\ frames <= calls
    BY <1>3 DEF Typed
  <1>5. Request(g)
    <2>1. calls \in Byte
      BY <1>2, <1>4, Constants, Bytes
    <2> QED
      BY <1>1, <2>1
  <1>6. packet' \in Seq(Byte)
    BY <1>2, <1>5, RequestOnLine DEF OnLine
  <1>7. Typed'
    <2>1. /\ frames' \in Nat /\ calls' \in Nat /\ calls' <= MaxCalls /\ frames' <= calls'
          /\ frames' < calls'
      BY <1>2, <1>4, Constants
    <2>2. data' \in Seq(Byte)
      <3>1. PICK e : e = <<>>
        OBVIOUS
      <3>2. e \in Seq(Byte)
        BY <3>1
      <3> QED
        BY <1>2, <3>1, <3>2
    <2>3. damaged' \in BOOLEAN
      BY <1>2, Zenon
    <2>4. stage' # "received"
      BY <1>2
    <2>5. /\ returned' \in {NONE, -1} \cup Byte /\ answers' \in Seq(Seq(Byte))
          /\ status' \in {STATUS_SUCCESS, STATUS_BUSY}
          /\ stored' \in [Parameters -> Seq(Byte)]
          /\ \A p \in Parameters : stored'[p] \in Values(StickWidth[p])
      BY <1>2, <1>3 DEF Typed
    <2> QED
      BY <1>2, <1>6, <2>1, <2>2, <2>3, <2>4, <2>5 DEF Typed
  <1>8. Asked'
    BY <1>2, <1>5 DEF Asked
  <1>9. Underway' /\ Arrived' /\ Returned'
    BY <1>2 DEF Underway, Arrived, Returned
  <1> QED
    BY <1>7, <1>8, <1>9 DEF FunctionsInv

LEMMA StatusIsByte == \A s \in {STATUS_SUCCESS, STATUS_BUSY} : s \in Byte
  <1>1. \A b \in {0, 2} : b \in Byte
    BY Bytes
  <1> QED
    BY <1>1 DEF STATUS_SUCCESS, STATUS_BUSY

(* The stick, by whatever it does, leaves an answer to the request.        *)
LEMMA StickKeeps ==
    ASSUME FunctionsInv, stage = "sent", stage' = "answered",
           NEW payload \in Seq(Byte), Len(payload) <= 20, StickPayload(payload)',
           status' \in {STATUS_SUCCESS, STATUS_BUSY},
           answers' = <<Whole(packet[1], packet[2], status', payload)>>,
           UNCHANGED <<libVars, packet, damaged>>,
           stored' \in [Parameters -> Seq(Byte)],
           \A p \in Parameters : stored'[p] \in Values(StickWidth[p])
    PROVE  FunctionsInv'
  <1>1. Typed /\ Asked /\ Underway
    BY DEF FunctionsInv
  <1>2. UNCHANGED <<request, response, data, returned, frames, calls, packet, damaged>>
    BY DEF libVars
  <1>3. Request(request) /\ packet = WriteFrame(request)
    BY <1>1 DEF Asked
  <1>4. packet[1] = request.command /\ packet[2] = request.sequence_number
    BY <1>3, RequestOnLine DEF OnLine
  <1>5. PICK a : a = Whole(request.command, request.sequence_number, status', payload)
    OBVIOUS
  <1>6. answers' = <<a>> /\ ~damaged'
    BY <1>1, <1>2, <1>4, <1>5 DEF Underway
  <1>7. FromStick(a)'
    BY <1>2, <1>5 DEF FromStick
  <1>8. a \in Seq(Byte)
    <2>1. status' \in Byte
      BY StatusIsByte
    <2>2. request.command \in Byte /\ request.sequence_number \in Byte
      BY <1>3 DEF Request
    <2>3. IsWhole(request.command, request.sequence_number, status', payload, a)
      BY <1>5, <2>1, <2>2, WholeOf
    <2> QED
      BY <2>3 DEF IsWhole
  <1>9. Typed'
    <2>1. answers' \in Seq(Seq(Byte))
      BY <1>6, <1>8
    <2>2. frames < calls
      BY <1>1 DEF Typed
    <2>3. /\ packet' \in Seq(Byte) /\ returned' \in {NONE, -1} \cup Byte
          /\ data' \in Seq(Byte) /\ damaged' \in BOOLEAN
      BY <1>1, <1>2 DEF Typed
    <2>4. frames' \in Nat /\ calls' \in Nat /\ calls' <= MaxCalls /\ frames' <= calls' /\ frames' < calls'
      BY <1>1, <1>2, <2>2 DEF Typed
    <2> QED
      BY <2>1, <2>3, <2>4 DEF Typed
  <1>10. Asked'
    BY <1>2, <1>3 DEF Asked
  <1>11. Underway'
    BY <1>6, <1>7 DEF Underway
  <1>12. Arrived' /\ Returned'
    BY DEF Arrived, Returned
  <1> QED
    BY <1>9, <1>10, <1>11, <1>12 DEF FunctionsInv

LEMMA RefusesKeeps ==
    ASSUME FunctionsInv, StickRefuses
    PROVE  FunctionsInv'
  <1>1. PICK payload : payload = <<>>
    OBVIOUS
  <1>2. payload \in Seq(Byte) /\ Len(payload) <= 20
    BY <1>1
  <1>3. STATUS_SUCCESS # STATUS_BUSY
    BY DEF STATUS_SUCCESS, STATUS_BUSY
  <1>4. StickPayload(payload)'
    BY <1>1, <1>3 DEF StickRefuses, StickPayload
  <1>5. answers' = <<Whole(packet[1], packet[2], status', payload)>>
    BY <1>1 DEF StickRefuses, Answer, Whole
  <1>6. /\ stored' \in [Parameters -> Seq(Byte)]
        /\ \A p \in Parameters : stored'[p] \in Values(StickWidth[p])
    BY DEF StickRefuses, FunctionsInv, Typed
  <1>7. /\ stage = "sent" /\ stage' = "answered" /\ status' \in {STATUS_SUCCESS, STATUS_BUSY}
        /\ UNCHANGED <<libVars, packet, damaged>>
    BY DEF StickRefuses
  <1> QED
    BY <1>2, <1>4, <1>5, <1>6, <1>7, StickKeeps

LEMMA Commands ==
    /\ COMMAND_READ_PARAMETER # COMMAND_WRITE_PARAMETER
    /\ COMMAND_READ_PARAMETER # COMMAND_VERSION /\ COMMAND_WRITE_PARAMETER # COMMAND_VERSION
    /\ COMMAND_READ_PARAMETER \notin DOMAIN StateByteAt
    /\ COMMAND_WRITE_PARAMETER \notin DOMAIN StateByteAt
    /\ COMMAND_VERSION \notin DOMAIN StateByteAt
    /\ STATUS_SUCCESS # STATUS_BUSY
  BY StateBytes DEF COMMAND_READ_PARAMETER, COMMAND_WRITE_PARAMETER, COMMAND_VERSION,
                    STATUS_SUCCESS, STATUS_BUSY

(* The payload that answers a read request.                                *)
AnswersRead(n, v, payload) ==
    /\ payload \in Seq(Byte) /\ Len(payload) = 3 + n
    /\ SubSeq(payload, 4, Len(payload)) = v

LEMMA ReadPayload ==
    \A p \in Byte : \A n \in Nat : \A v \in Seq(Byte) :
        Len(v) = n /\ n <= 16 => AnswersRead(n, v, LE16(1 + n) \o <<p>> \o v)
  <1> SUFFICES ASSUME NEW p \in Byte, NEW n \in Nat, NEW v \in Seq(Byte),
                      Len(v) = n, n <= 16
               PROVE  AnswersRead(n, v, LE16(1 + n) \o <<p>> \o v)
    OBVIOUS
  <1>0. PICK payload : payload = LE16(1 + n) \o <<p>> \o v
    OBVIOUS
  <1>1. PICK z : z = LE16(1 + n)
    OBVIOUS
  <1>2. z \in Seq(Byte) /\ Len(z) = 2
    <2>1. 1 + n \in Nat /\ 1 + n < 65536
      OBVIOUS
    <2> QED
      BY <1>1, <2>1, TwoBytes
  <1>3. PICK one : one = <<p>>
    OBVIOUS
  <1>4. one \in Seq(Byte) /\ Len(one) = 1
    BY <1>3, OneByte
  <1>5. PICK zo : zo = z \o one
    OBVIOUS
  <1>6. zo \in Seq(Byte) /\ Len(zo) = 3
    <2>1. z \in Seq(Byte) /\ one \in Seq(Byte)
      BY <1>2, <1>4
    <2>2. Joined(z, one, zo)
      BY <1>5, <2>1, JoinBytes
    <2> QED
      BY <1>2, <1>4, <2>2 DEF Joined
  <1>7. Joined(zo, v, payload)
    <2>1. zo \in Seq(Byte) /\ v \in Seq(Byte)
      BY <1>6
    <2>2. payload = zo \o v
      BY <1>0, <1>1, <1>3, <1>5
    <2> QED
      BY <2>1, <2>2, JoinBytes
  <1>8. /\ payload \in Seq(Byte) /\ Len(payload) = 3 + n
        /\ \A k \in 1..n : payload[3 + k] = v[k]
    BY <1>6, <1>7 DEF Joined
  <1>9. PICK part : part = SubSeq(payload, 4, 3 + n)
    OBVIOUS
  <1>10. /\ part \in Seq(Byte) /\ Len(part) = 3 + n - 4 + 1
         /\ \A k \in 1..(3 + n - 4 + 1) : part[k] = payload[4 + k - 1]
    <2>1. 4 \in Nat /\ 3 + n \in Nat /\ 0 < 4 /\ 4 <= 3 + n + 1 /\ 3 + n <= Len(payload)
      BY <1>8
    <2> QED
      BY <1>8, <1>9, <2>1, Cut
  <1>11. Len(part) = n /\ \A k \in 1..n : part[k] = v[k]
    <2>1. 3 + n - 4 + 1 = n /\ \A k \in 1..n : 4 + k - 1 = 3 + k
      OBVIOUS
    <2> QED
      BY <1>8, <1>10, <2>1
  <1>12. part = v
    BY <1>10, <1>11, SeqEqual
  <1> QED
    BY <1>0, <1>8, <1>9, <1>12 DEF AnswersRead

LEMMA StickAnswersKeeps ==
    ASSUME FunctionsInv, StickAnswers
    PROVE  FunctionsInv'
  <1>1. /\ stage = "sent" /\ stage' = "answered" /\ status' = STATUS_SUCCESS
        /\ UNCHANGED <<libVars, packet, damaged>>
    BY DEF StickAnswers
  <1>2. status' \in {STATUS_SUCCESS, STATUS_BUSY} /\ status' # STATUS_BUSY
    BY <1>1, Commands
  <1>3. Request(request) /\ packet = WriteFrame(request)
    BY <1>1 DEF FunctionsInv, Asked
  <1>4. packet[1] = request.command /\ request' = request
    BY <1>1, <1>3, RequestOnLine DEF OnLine, libVars
  <1>5. /\ stored \in [Parameters -> Seq(Byte)]
        /\ \A p \in Parameters : stored[p] \in Values(StickWidth[p])
    BY DEF FunctionsInv, Typed
  <1>6. ASSUME packet[1] = COMMAND_READ_PARAMETER,
               answers' = <<Answer(STATUS_SUCCESS, LE16(1 + StickWidth[packet[8]])
                                      \o <<packet[8]>> \o stored[packet[8]])>>,
               stored' = stored
        PROVE  FunctionsInv'
    <2>1. PICK p \in Parameters : p = request.payload[1]
      BY <1>3, <1>4, <1>6 DEF Request
    <2>2. packet[8] = p
      <3>1. Len(request.payload) > 0 /\ request.length = 7 + Len(request.payload)
        BY <1>3, <1>4, <1>6 DEF Request
      <3> QED
        BY <1>3, <2>1, <3>1, PayloadOnLine
    <2>3. PICK n \in Nat : n = StickWidth[p] /\ n <= 16
      BY Constants
    <2>4. PICK v \in Seq(Byte) : v = stored[p] /\ Len(v) = n
      BY <1>5, <2>3, ValuesAreBytes
    <2>5. PICK payload : payload = LE16(1 + n) \o <<p>> \o v
      OBVIOUS
    <2>6. /\ payload \in Seq(Byte) /\ Len(payload) = 3 + n
          /\ SubSeq(payload, 4, Len(payload)) = v
      <3>1. p \in Byte
        BY Constants
      <3> QED
        BY <2>3, <2>4, <2>5, <3>1, ReadPayload DEF AnswersRead
    <2>7. Len(payload) <= 20
      BY <2>3, <2>6
    <2>8. StickPayload(payload)'
      <3>1. request.command = COMMAND_READ_PARAMETER
        BY <1>4, <1>6
      <3> QED
        BY <1>2, <1>4, <1>6, <2>1, <2>3, <2>4, <2>6, <3>1, Commands
           DEF StickPayload, Asks, Parameter
    <2>9. answers' = <<Whole(packet[1], packet[2], status', payload)>>
      BY <1>1, <1>6, <2>2, <2>3, <2>4, <2>5 DEF Answer, Whole
    <2>10. /\ stored' \in [Parameters -> Seq(Byte)]
           /\ \A q \in Parameters : stored'[q] \in Values(StickWidth[q])
      BY <1>5, <1>6
    <2> QED
      BY <1>1, <1>2, <2>6, <2>7, <2>8, <2>9, <2>10, StickKeeps
  <1>7. ASSUME packet[1] = COMMAND_WRITE_PARAMETER,
               Len(packet) - 10 = StickWidth[packet[8]],
               stored' = [stored EXCEPT ![packet[8]] = SubSeq(packet, 9, Len(packet) - 2)],
               answers' = <<Answer(STATUS_SUCCESS, LE16(1) \o <<packet[8]>>)>>
        PROVE  FunctionsInv'
    <2>1. request.command = COMMAND_WRITE_PARAMETER
      BY <1>4, <1>7
    <2>2. PICK p \in Parameters : p = request.payload[1]
      BY <1>3, <2>1, ValueOnLine
    <2>3. PICK v : v = Tail(request.payload)
      OBVIOUS
    <2>4. /\ packet[8] = p /\ Len(packet) - 10 = Width[p]
          /\ SubSeq(packet, 9, Len(packet) - 2) = v /\ v \in Values(Width[p])
      BY <1>3, <2>1, <2>2, <2>3, ValueOnLine
    <2>5. stored' = [stored EXCEPT ![p] = v] /\ v \in Values(StickWidth[p])
      BY <1>7, <2>4
    <2>6. v \in Seq(Byte)
      <3>1. Width[p] \in Nat
        BY Constants
      <3> QED
        BY <2>4, <3>1, ValuesAreBytes
    <2>7. /\ stored' \in [Parameters -> Seq(Byte)] /\ stored'[p] = v
          /\ \A q \in Parameters : stored'[q] \in Values(StickWidth[q])
      BY <1>5, <2>5, <2>6
    <2>8. PICK z : z = LE16(1)
      OBVIOUS
    <2>9. z \in Seq(Byte) /\ Len(z) = 2
      <3>1. 1 \in Nat /\ 1 < 65536
        OBVIOUS
      <3> QED
        BY <2>8, <3>1, TwoBytes
    <2>10. PICK one : one = <<p>>
      OBVIOUS
    <2>11. one \in Seq(Byte) /\ Len(one) = 1
      <3>1. p \in Byte
        BY Constants
      <3> QED
        BY <2>10, <3>1, OneByte
    <2>12. PICK payload : payload = z \o one
      OBVIOUS
    <2>13. payload \in Seq(Byte) /\ Len(payload) <= 20
      <3>1. z \in Seq(Byte) /\ one \in Seq(Byte)
        BY <2>9, <2>11
      <3>2. Joined(z, one, payload)
        BY <2>12, <3>1, JoinBytes
      <3> QED
        BY <2>9, <2>11, <3>2 DEF Joined
    <2>14. StickPayload(payload)'
      BY <1>2, <1>4, <2>1, <2>2, <2>3, <2>7, Commands DEF StickPayload, Asks, Parameter
    <2>15. answers' = <<Whole(packet[1], packet[2], status', payload)>>
      BY <1>1, <1>7, <2>4, <2>8, <2>10, <2>12 DEF Answer, Whole
    <2> QED
      BY <1>1, <1>2, <2>7, <2>13, <2>14, <2>15, StickKeeps
  <1>8. ASSUME packet[1] = COMMAND_VERSION,
               answers' = <<Answer(STATUS_SUCCESS, <<0, 7, 1, 2>>)>>, stored' = stored
        PROVE  FunctionsInv'
    <2>1. request.command = COMMAND_VERSION
      BY <1>4, <1>8
    <2>2. PICK payload : payload = <<0, 7, 1, 2>>
      OBVIOUS
    <2>3. payload \in Seq(Byte) /\ Len(payload) <= 20
      <3>1. \A b \in {0, 7, 1, 2} : b \in Byte
        BY Bytes
      <3> QED
        BY <2>2, <3>1
    <2>4. StickPayload(payload)'
      BY <1>2, <1>4, <2>1, Commands DEF StickPayload, Asks
    <2>5. answers' = <<Whole(packet[1], packet[2], status', payload)>>
      BY <1>1, <1>8, <2>2 DEF Answer, Whole
    <2>6. /\ stored' \in [Parameters -> Seq(Byte)]
          /\ \A q \in Parameters : stored'[q] \in Values(StickWidth[q])
      BY <1>5, <1>8
    <2> QED
      BY <1>1, <1>2, <2>3, <2>4, <2>5, <2>6, StickKeeps
  <1>9. ASSUME packet[1] \in DOMAIN StateByteAt, NEW b \in ByteValues, stored' = stored,
               answers' = <<Answer(STATUS_SUCCESS,
                                   [k \in 1..StateByteAt[packet[1]] |->
                                      IF k < StateByteAt[packet[1]] THEN 0 ELSE b])>>
        PROVE  FunctionsInv'
    <2>1. request.command \in DOMAIN StateByteAt
      BY <1>4, <1>9
    <2>2. PICK n \in Nat : n = StateByteAt[request.command] /\ n <= 4
      BY <2>1, StateBytes
    <2>3. PICK payload : payload = [k \in 1..n |-> IF k < n THEN 0 ELSE b]
      OBVIOUS
    <2>4. payload \in Seq(Byte) /\ Len(payload) = n
      <3>1. 0 \in Byte
        BY Bytes
      <3>2. b \in Byte
        BY Constants
      <3> QED
        BY <2>3, <3>1, <3>2
    <2>5. Len(payload) <= 20
      BY <2>2, <2>4
    <2>6. StickPayload(payload)'
      BY <1>2, <1>4, <2>1, <2>2, <2>4, Commands DEF StickPayload, Asks
    <2>7. answers' = <<Whole(packet[1], packet[2], status', payload)>>
      BY <1>1, <1>4, <1>9, <2>2, <2>3 DEF Answer, Whole
    <2>8. /\ stored' \in [Parameters -> Seq(Byte)]
          /\ \A q \in Parameters : stored'[q] \in Values(StickWidth[q])
      BY <1>5, <1>9
    <2> QED
      BY <1>1, <1>2, <2>4, <2>5, <2>6, <2>7, <2>8, StickKeeps
  <1> QED
    BY <1>6, <1>7, <1>8, <1>9 DEF StickAnswers

(* What the stick sent is whole: bytes that read as the frame it meant.    *)
LEMMA FromStickIsWhole ==
    ASSUME Typed, Request(request), NEW a, FromStick(a)
    PROVE  /\ a \in Seq(Byte)
           /\ \E payload \in Seq(Byte) :
                 /\ Len(payload) <= 20 /\ StickPayload(payload)
                 /\ IsWhole(request.command, request.sequence_number, status, payload, a)
  <1>1. request.command \in Byte /\ request.sequence_number \in Byte
    BY DEF Request
  <1>2. status \in Byte
    BY StatusIsByte DEF Typed
  <1>3. PICK payload \in Seq(Byte) :
            /\ Len(payload) <= 20 /\ StickPayload(payload)
            /\ a = Whole(request.command, request.sequence_number, status, payload)
    BY DEF FromStick
  <1>4. IsWhole(request.command, request.sequence_number, status, payload, a)
    BY <1>1, <1>2, <1>3, WholeOf
  <1>5. a \in Seq(Byte)
    BY <1>4 DEF IsWhole
  <1> QED
    BY <1>3, <1>4, <1>5

LEMMA LineKeeps ==
    ASSUME FunctionsInv, stage = "answered", answers' \in Seq(Seq(Byte)), damaged' = TRUE,
           UNCHANGED <<stage, libVars, packet, stickVars>>,
           NEW a, FromStick(a),
           \/ \E t : Changed(a, t) /\ answers' = <<t>>
           \/ "split" \in Damages /\ \E i \in 1..Len(a) : answers' = Halves(a, i)
    PROVE  FunctionsInv'
  <1>1. UNCHANGED <<stage, request, response, data, returned, frames, calls, packet,
                    stored, status>>
    BY DEF libVars, stickVars
  <1>2. Typed /\ Asked
    BY DEF FunctionsInv
  <1>3. Typed'
    <2>1. damaged' \in BOOLEAN
      OBVIOUS
    <2>2. /\ packet' \in Seq(Byte) /\ returned' \in {NONE, -1} \cup Byte
          /\ data' \in Seq(Byte) /\ frames' \in Nat /\ calls' \in Nat
          /\ calls' <= MaxCalls /\ frames' <= calls' /\ frames' < calls'
          /\ status' \in {STATUS_SUCCESS, STATUS_BUSY}
          /\ stored' \in [Parameters -> Seq(Byte)]
          /\ \A p \in Parameters : stored'[p] \in Values(StickWidth[p])
      BY <1>1, <1>2 DEF Typed
    <2> QED
      BY <1>1, <2>1, <2>2 DEF Typed
  <1>4. Asked'
    BY <1>1, <1>2 DEF Asked
  <1>5. FromStick(a)'
    BY <1>1 DEF FromStick, StickPayload, Asks, Parameter
  <1>6. Underway'
    BY <1>1, <1>5 DEF Underway, Changed, Halves
  <1>7. Arrived' /\ Returned'
    BY <1>1 DEF Arrived, Returned
  <1> QED
    BY <1>3, <1>4, <1>6, <1>7 DEF FunctionsInv

LEMMA ChangeKeeps ==
    ASSUME FunctionsInv, NEW i, i \in 1..(IF answers = <<>> THEN 0 ELSE Len(answers[1])),
           NEW b \in ByteValues, Change(i, b)
    PROVE  FunctionsInv'
  <1>1. PICK a : FromStick(a) /\ answers = <<a>>
    BY DEF FunctionsInv, Underway, Change
  <1>2. a \in Seq(Byte)
    BY <1>1, FromStickIsWhole DEF FunctionsInv, Asked, Change
  <1>3. PICK t : t = [a EXCEPT ![i] = b]
    OBVIOUS
  <1>4. answers' = <<t>> /\ b # a[i] /\ i \in 1..Len(a)
    BY <1>1, <1>3 DEF Change
  <1>5. b \in Byte
    BY Constants
  <1>6. t \in Seq(Byte) /\ Len(t) = Len(a)
    BY <1>2, <1>3, <1>4, <1>5
  <1>7. t[i] # a[i] /\ \A k \in 1..Len(a) : k # i => t[k] = a[k]
    BY <1>2, <1>3, <1>4
  <1>8. Changed(a, t)
    BY <1>4, <1>6, <1>7 DEF Changed
  <1>9. answers' \in Seq(Seq(Byte))
    BY <1>4, <1>6
  <1>10. /\ stage = "answered" /\ damaged' = TRUE
         /\ UNCHANGED <<stage, libVars, packet, stickVars>>
    BY DEF Change
  <1> QED
    BY <1>1, <1>4, <1>8, <1>9, <1>10, LineKeeps

LEMMA Single ==
    ASSUME NEW S, NEW x \in S
    PROVE  <<x>> \in Seq(S) /\ Len(<<x>>) = 1 /\ <<x>>[1] = x
  OBVIOUS

(* The pieces of a packet, and which of them comes first.                  *)
Before(a, i) == SubSeq(a, 1, i - 1)
After(a, i)  == SubSeq(a, i + 1, Len(a))

LEMMA PiecesOf ==
    ASSUME NEW a \in Seq(Byte), NEW i \in 1..Len(a)
    PROVE  /\ Before(a, i) \in Seq(Byte) /\ Len(Before(a, i)) = i - 1
           /\ \A k \in 1..(i - 1) : Before(a, i)[k] = a[k]
           /\ After(a, i) \in Seq(Byte) /\ Len(After(a, i)) = Len(a) - i
           /\ \A k \in 1..(Len(a) - i) : After(a, i)[k] = a[i + k]
           /\ Halves(a, i) \in Seq(Seq(Byte))
           /\ Halves(a, i) # <<>> => /\ Head(Halves(a, i)) \in {Before(a, i), After(a, i)}
                                     /\ Head(Halves(a, i)) # <<>>
                                     /\ Tail(Halves(a, i)) \in Seq(Seq(Byte))
  <1>1. PICK l \in Nat : l = Len(a)
    BY LenProperties
  <1>2. /\ i - 1 \in Nat /\ 1 \in Nat /\ i + 1 \in Nat
        /\ 0 < 1 /\ 1 <= i - 1 + 1 /\ i - 1 <= l
        /\ 0 < i + 1 /\ i + 1 <= l + 1 /\ l <= l
    BY <1>1
  <1>3. PICK u : u = Before(a, i)
    OBVIOUS
  <1>4. PICK v : v = After(a, i)
    OBVIOUS
  <1>5. /\ u \in Seq(Byte) /\ Len(u) = i - 1 - 1 + 1
        /\ \A k \in 1..(i - 1 - 1 + 1) : u[k] = a[1 + k - 1]
    BY <1>1, <1>2, <1>3, Cut DEF Before
  <1>6. /\ v \in Seq(Byte) /\ Len(v) = l - (i + 1) + 1
        /\ \A k \in 1..(l - (i + 1) + 1) : v[k] = a[i + 1 + k - 1]
    BY <1>1, <1>2, <1>4, Cut DEF After
  <1>7. Len(u) = i - 1 /\ \A k \in 1..(i - 1) : u[k] = a[k]
    <2>1. i - 1 - 1 + 1 = i - 1 /\ \A k \in 1..(i - 1) : 1 + k - 1 = k
      OBVIOUS
    <2> QED
      BY <1>5, <2>1
  <1>8. Len(v) = l - i /\ \A k \in 1..(l - i) : v[k] = a[i + k]
    <2>1. l - (i + 1) + 1 = l - i /\ \A k \in 1..(l - i) : i + 1 + k - 1 = i + k
      BY <1>1
    <2> QED
      BY <1>6, <2>1
  <1>9. PICK h : h = Halves(a, i)
    OBVIOUS
  <1>10. h = Piece(u) \o Piece(v)
    BY <1>3, <1>4, <1>9 DEF Before, After, Halves
  <1>11. /\ h \in Seq(Seq(Byte))
         /\ h # <<>> => Head(h) \in {u, v} /\ Head(h) # <<>> /\ Tail(h) \in Seq(Seq(Byte))
    <2>1. CASE u = <<>>
      <3>1. h = Piece(v)
        BY <1>6, <1>10, <2>1 DEF Piece
      <3>2. CASE v = <<>>
        BY <3>1, <3>2 DEF Piece
      <3>3. CASE v # <<>>
        <4>1. h = <<v>>
          BY <3>1, <3>3 DEF Piece
        <4> QED
          BY <1>6, <3>3, <4>1
      <3> QED
        BY <3>2, <3>3
    <2>2. CASE u # <<>>
      <3>1. CASE v = <<>>
        <4>1. h = <<u>>
          BY <1>5, <1>10, <2>2, <3>1 DEF Piece
        <4> QED
          BY <1>5, <2>2, <4>1
      <3>2. CASE v # <<>>
        <4>1. PICK p : p = <<u>> /\ p \in Seq(Seq(Byte)) /\ Len(p) = 1 /\ p[1] = u
          <5>1. u \in Seq(Byte)
            BY <1>5
          <5> QED
            BY <5>1, Single
        <4>2. PICK q : q = <<v>> /\ q \in Seq(Seq(Byte)) /\ Len(q) = 1
          <5>1. v \in Seq(Byte)
            BY <1>6
          <5> QED
            BY <5>1, Single
        <4>3. h = p \o q
          BY <1>10, <2>2, <3>2, <4>1, <4>2 DEF Piece
        <4>4. h \in Seq(Seq(Byte)) /\ Len(h) = 2 /\ h[1] = u
          <5>1. p \in Seq(Seq(Byte)) /\ q \in Seq(Seq(Byte))
            BY <4>1, <4>2
          <5>2. /\ p \o q \in Seq(Seq(Byte))
                /\ Len(p \o q) = Len(p) + Len(q)
                /\ \A k \in 1..(Len(p) + Len(q)) :
                      (p \o q)[k] = IF k <= Len(p) THEN p[k] ELSE q[k - Len(p)]
            BY <5>1, ConcatProperties
          <5> QED
            BY <4>1, <4>2, <4>3, <5>2
        <4>5. h # <<>>
          <5>1. Len(h) = 2
            BY <4>4
          <5> QED
            BY <5>1
        <4>6. Head(h) = u
          BY <4>4, <4>5
        <4>7. Tail(h) \in Seq(Seq(Byte))
          <5>1. h \in Seq(Seq(Byte))
            BY <4>4
          <5> QED
            BY <4>5, <5>1, HeadTailProperties
        <4> QED
          BY <2>2, <4>4, <4>6, <4>7
      <3> QED
        BY <3>1, <3>2
    <2> QED
      BY <2>1, <2>2
  <1> QED
    BY <1>1, <1>3, <1>4, <1>5, <1>6, <1>7, <1>8, <1>9, <1>11

LEMMA SplitKeeps ==
    ASSUME FunctionsInv, NEW i, i \in 1..(IF answers = <<>> THEN 0 ELSE Len(answers[1])),
           Split(i)
    PROVE  FunctionsInv'
  <1>1. PICK a : FromStick(a) /\ answers = <<a>>
    BY DEF FunctionsInv, Underway, Split
  <1>2. a \in Seq(Byte)
    BY <1>1, FromStickIsWhole DEF FunctionsInv, Asked, Split
  <1>3. i \in 1..Len(a) /\ answers' = Halves(a, i)
    BY <1>1 DEF Split, Halves
  <1>4. answers' \in Seq(Seq(Byte))
    BY <1>2, <1>3, PiecesOf
  <1>5. /\ stage = "answered" /\ damaged' = TRUE /\ "split" \in Damages
        /\ UNCHANGED <<stage, libVars, packet, stickVars>>
    BY DEF Split
  <1> QED
    BY <1>1, <1>3, <1>4, <1>5, LineKeeps

(* Two checksums, of a packet and of the same without its last byte: with  *)
(* a sum that is small and not 0 they cannot both be right.                *)
Both(t, x, y, z) ==
    /\ t > 0 /\ t <= 10000 /\ x <= 255 /\ y <= 255 /\ z <= 255
    /\ (65536 - (t % 65536)) % 65536 = x + 256 * y
    /\ (65536 - ((t + x) % 65536)) % 65536 = y + 256 * z
LEMMA BothChecked == \A t, x, y, z \in Nat : ~Both(t, x, y, z)
  <1> SUFFICES ASSUME NEW t \in Nat, NEW x \in Nat, NEW y \in Nat, NEW z \in Nat,
                      Both(t, x, y, z)
               PROVE  FALSE
    OBVIOUS
  <1>1. 65536 - t = x + 256 * y
    BY DEF Both
  <1>2. 65536 - (t + x) = y + 256 * z
    BY DEF Both
  <1>3. y = 256 * (y - z)
    BY <1>1, <1>2
  <1>4. y = 0
    BY <1>3 DEF Both
  <1> QED
    BY <1>1, <1>4 DEF Both

LEMMA ButLastUnchecked ==
    ASSUME NEW a \in Seq(Byte), Len(a) >= 6, Len(a) <= 30, WellChecked(a), a[1] > 0,
           NEW s \in Seq(Byte), Len(s) = Len(a) - 1, \A k \in 1..Len(s) : s[k] = a[k]
    PROVE  ~WellChecked(s)
  <1>1. PICK l \in Nat : l = Len(s) /\ l >= 5 /\ l <= 29 /\ Len(a) = l + 1
    BY LenProperties
  <1>2. PICK u : u = SubSeq(a, 1, l - 1)
    OBVIOUS
  <1>3. PICK v : v = SubSeq(s, 1, l - 2)
    OBVIOUS
  <1>4. u \in Seq(Byte) /\ Len(u) = l - 1 /\ \A k \in 1..(l - 1) : u[k] = a[k]
    <2>1. l - 1 \in Nat /\ l - 1 <= Len(a)
      BY <1>1
    <2> QED
      BY <1>2, <2>1, FirstBytes DEF IsFirst
  <1>5. v \in Seq(Byte) /\ Len(v) = l - 2 /\ \A k \in 1..(l - 2) : v[k] = s[k]
    <2>1. l - 2 \in Nat /\ l - 2 <= Len(s)
      BY <1>1
    <2> QED
      BY <1>3, <2>1, FirstBytes DEF IsFirst
  <1>8. \A k \in 1..(l - 2) : v[k] = u[k]
    <2> SUFFICES ASSUME NEW k \in 1..(l - 2) PROVE v[k] = u[k]
      OBVIOUS
    <2>1. k \in 1..(l - 1) /\ k \in 1..Len(s)
      BY <1>1
    <2> QED
      BY <1>4, <1>5, <2>1
  <1>9. Total(u) = Total(v) + u[l - 1]
    <2>1. Len(u) = Len(v) + 1 /\ (\A k \in 1..Len(v) : v[k] = u[k]) /\ Len(u) = l - 1
      BY <1>1, <1>4, <1>5, <1>8
    <2> QED
      <3>1. Total(u) = Total(v) + u[Len(u)]
        BY <1>4, <1>5, <2>1, TotalButLast
      <3> QED
        BY <2>1, <3>1
  <1>10. PICK t \in Nat : t = Total(v) /\ t <= 10000 /\ t > 0
    <2>1. Total(v) \in Nat /\ Total(v) <= 255 * Len(v) /\ (Len(v) > 0 => Total(v) >= v[1])
      BY <1>5, TotalBounds
    <2>2. v[1] = a[1]
      <3>1. 1 \in 1..(l - 2) /\ 1 \in 1..Len(s)
        BY <1>1
      <3>2. v[1] = s[1] /\ s[1] = a[1]
        BY <1>5, <3>1
      <3> QED
        BY <3>2
    <2>3. PICK n \in Nat : n = Len(v) /\ n > 0 /\ n <= 27
      BY <1>1, <1>5
    <2>4. 255 * n <= 10000
      BY <2>3
    <2>5. Total(v) \in Nat /\ Total(v) <= 255 * n /\ Total(v) >= a[1]
      BY <2>1, <2>2, <2>3
    <2>6. a[1] \in Nat
      <3>1. a[1] \in Byte
        BY <1>1
      <3> QED
        BY <3>1, Bytes
    <2> QED
      BY <2>4, <2>5, <2>6
  <1>11. PICK x \in Nat : x = a[l - 1] /\ x <= 255
    <2>1. a[l - 1] \in Byte
      BY <1>1
    <2> QED
      BY <2>1, Bytes
  <1>12. PICK y \in Nat : y = a[l] /\ y <= 255
    <2>1. a[l] \in Byte
      BY <1>1
    <2> QED
      BY <2>1, Bytes
  <1>13. PICK z \in Nat : z = a[l + 1] /\ z <= 255
    <2>1. a[l + 1] \in Byte
      BY <1>1
    <2> QED
      BY <2>1, Bytes
  <1>14. s[l - 1] = x /\ s[l] = y /\ u[l - 1] = x
    <2>1. l - 1 \in 1..Len(s) /\ l \in 1..Len(s) /\ l - 1 \in 1..(l - 1)
      BY <1>1
    <2>2. s[l - 1] = a[l - 1] /\ s[l] = a[l] /\ u[l - 1] = a[l - 1]
      BY <1>4, <2>1
    <2> QED
      BY <1>11, <1>12, <2>2
  <1>15. crc16(u) = y + 256 * z
    <2>1. Len(a) - 2 = l - 1 /\ Len(a) - 1 = l
      BY <1>1
    <2> QED
      BY <1>1, <1>2, <1>12, <1>13, <2>1 DEF WellChecked, FromLE16
  <1>16. SUFFICES ASSUME WellChecked(s) PROVE FALSE
    OBVIOUS
  <1>17. crc16(v) = x + 256 * y
    BY <1>1, <1>3, <1>14, <1>16 DEF WellChecked, FromLE16
  <1>18. (65536 - (t % 65536)) % 65536 = x + 256 * y
    BY <1>10, <1>17 DEF crc16, U16
  <1>19. (65536 - ((t + x) % 65536)) % 65536 = y + 256 * z
    BY <1>9, <1>10, <1>14, <1>15 DEF crc16, U16
  <1> QED
    <2>1. Both(t, x, y, z)
      BY <1>10, <1>11, <1>12, <1>13, <1>18, <1>19 DEF Both
    <2> QED
      BY <2>1, BothChecked

(* A piece that reads as an answer to the request: to a getter it is of    *)
(* the wrong length, to a setter it comes from a stick that has obeyed.    *)
LEMMA PieceIsHarmless ==
    ASSUME Typed, Request(request), Narrow,
           NEW payload \in Seq(Byte), Len(payload) <= 20, StickPayload(payload),
           NEW a, IsWhole(request.command, request.sequence_number, status, payload, a),
           NEW i \in 1..Len(a), NEW s \in {Before(a, i), After(a, i)},
           NEW m \in Nat,
           (Len(s) = 5 /\ m = 0) \/ (Len(s) >= 7 /\ m = Len(s) - 7), WellChecked(s),
           s[1] = request.command, s[2] = request.sequence_number, s[3] = STATUS_SUCCESS
    PROVE  /\ Asks(COMMAND_READ_PARAMETER) => m # 3 + Width[Parameter]
           /\ Asks(COMMAND_WRITE_PARAMETER) =>
                  status = STATUS_SUCCESS /\ stored[Parameter] = Tail(request.payload)
  <1>1. PICK l \in Nat : l = Len(payload) /\ l <= 20
    BY LenProperties
  <1>2. /\ a \in Seq(Byte) /\ Len(a) = 7 + l /\ WellChecked(a)
        /\ a[1] = request.command /\ a[2] = request.sequence_number /\ a[3] = status
    BY <1>1 DEF IsWhole
  <1>3. i \in 1..(7 + l)
    BY <1>2
  <1>4. /\ Before(a, i) \in Seq(Byte) /\ Len(Before(a, i)) = i - 1
        /\ \A k \in 1..(i - 1) : Before(a, i)[k] = a[k]
        /\ After(a, i) \in Seq(Byte) /\ Len(After(a, i)) = 7 + l - i
        /\ \A k \in 1..(7 + l - i) : After(a, i)[k] = a[i + k]
    <2>1. a \in Seq(Byte) /\ Len(a) = 7 + l
      BY <1>2
    <2>2. /\ Before(a, i) \in Seq(Byte) /\ Len(Before(a, i)) = i - 1
          /\ \A k \in 1..(i - 1) : Before(a, i)[k] = a[k]
          /\ After(a, i) \in Seq(Byte) /\ Len(After(a, i)) = Len(a) - i
          /\ \A k \in 1..(Len(a) - i) : After(a, i)[k] = a[i + k]
      BY <2>1, PiecesOf
    <2> QED
      BY <2>1, <2>2
  <1>5. PICK n \in Nat : /\ n = Len(s) /\ n <= 6 + l
                         /\ (n = 5 /\ m = 0) \/ (n >= 7 /\ m = n - 7)
    <2>1. s \in Seq(Byte) /\ Len(s) <= 6 + l
      BY <1>3, <1>4
    <2>2. Len(s) \in Nat
      BY <2>1, LenProperties
    <2> QED
      BY <2>1, <2>2
  <1>6. status \in {STATUS_SUCCESS, STATUS_BUSY}
    BY DEF Typed
  <1>7. status = STATUS_BUSY => l = 0
    BY <1>1, Commands DEF StickPayload
  <1>8. ASSUME Asks(COMMAND_READ_PARAMETER) PROVE m # 3 + Width[Parameter]
    <2>1. request.command = 10
      BY <1>8 DEF Asks, COMMAND_READ_PARAMETER
    <2>2. PICK p \in Parameters : p = Parameter
      BY <1>8 DEF Request, Asks, Parameter
    <2>3. PICK w \in Nat : w = Width[p] /\ w > 0
      BY Constants
    <2>4. PICK v \in Nat : v = StickWidth[p] /\ v <= w + 1
      BY <2>3, Constants DEF Narrow
    <2>5. SUFFICES ASSUME m = 3 + w PROVE FALSE
      BY <2>2, <2>3
    <2>6. n = 10 + w
      <3>1. n \in Int /\ w \in Int /\ m = 3 + w /\ w >= 0
        BY <2>5
      <3>2. m = n - 7
        BY <1>5, <3>1
      <3> QED
        BY <3>1, <3>2
    <2>7. l # 0
      BY <1>5, <2>6
    <2>8. status = STATUS_SUCCESS
      BY <1>6, <1>7, <2>7
    <2>9. l = 3 + v
      BY <1>1, <1>8, <2>2, <2>4, <2>8 DEF StickPayload
    <2>10. 7 + l = 11 + w
      <3>1. n <= 6 + l
        BY <1>5
      <3> QED
        <4>1. v <= w + 1 /\ n = 10 + w /\ l = 3 + v
          BY <2>4, <2>6, <2>9
        <4> QED
          BY <3>1, <4>1
    <2>11. CASE s = Before(a, i)
      <3>1. i - 1 = 10 + w
        BY <1>4, <1>5, <2>6, <2>11
      <3>2. s \in Seq(Byte) /\ Len(s) = 10 + w /\ \A k \in 1..(10 + w) : s[k] = a[k]
        BY <1>4, <2>11, <3>1
      <3>3. Len(a) = 11 + w /\ Len(a) <= 30 /\ Len(a) >= 6 /\ Len(s) = Len(a) - 1
        BY <1>1, <1>2, <2>10, <3>2
      <3>4. a[1] > 0
        BY <1>2, <2>1
      <3>5. \A k \in 1..Len(s) : s[k] = a[k]
        BY <3>2
      <3> QED
        BY <1>2, <3>2, <3>3, <3>4, <3>5, ButLastUnchecked
    <2>12. CASE s = After(a, i)
      <3>1. i = 1
        <4>1. Len(s) = 7 + l - i /\ Len(s) = 10 + w
          BY <1>4, <1>5, <2>6, <2>12
        <4> QED
          BY <1>3, <2>10, <4>1
      <3>2. s[1] = a[2] /\ s[2] = a[3]
        <4>1. 1 \in 1..(7 + l - i) /\ 2 \in 1..(7 + l - i)
          BY <1>1, <3>1
        <4>2. s[1] = a[i + 1] /\ s[2] = a[i + 2]
          BY <1>4, <2>12, <4>1
        <4> QED
          BY <3>1, <4>2
      <3>3. request.sequence_number = 10 /\ request.sequence_number = 0
        BY <1>2, <2>1, <2>8, <3>2 DEF STATUS_SUCCESS
      <3> QED
        BY <3>3
    <2> QED
      BY <2>11, <2>12
  <1>9. ASSUME Asks(COMMAND_WRITE_PARAMETER)
        PROVE  status = STATUS_SUCCESS /\ stored[Parameter] = Tail(request.payload)
    <2>1. request.command = 11
      BY <1>9 DEF Asks, COMMAND_WRITE_PARAMETER
    <2>2. SUFFICES ASSUME status = STATUS_BUSY PROVE FALSE
      BY <1>6, <1>9 DEF StickPayload
    <2>3. l = 0 /\ n = 5
      BY <1>5, <1>7, <2>2
    <2>4. a[3] = 2 /\ s[3] = 0
      BY <1>2, <2>2 DEF STATUS_BUSY, STATUS_SUCCESS
    <2>5. CASE s = Before(a, i)
      <3>1. i - 1 = 5
        BY <1>4, <1>5, <2>3, <2>5
      <3>2. s[3] = a[3]
        BY <1>4, <2>5, <3>1
      <3> QED
        BY <2>4, <3>2
    <2>6. CASE s = After(a, i)
      <3>1. i = 2
        <4>1. Len(s) = 7 + l - i /\ Len(s) = 5
          BY <1>4, <1>5, <2>3, <2>6
        <4> QED
          BY <1>3, <2>3, <4>1
      <3>2. 1 \in 1..(7 + l - i) /\ i + 1 = 3
        BY <1>1, <3>1
      <3>3. s[1] = a[3]
        BY <1>4, <2>6, <3>2
      <3> QED
        BY <2>1, <2>4, <3>3
    <2> QED
      BY <2>5, <2>6
  <1> QED
    BY <1>8, <1>9

LEMMA Results ==
    /\ \A r : Failed(r).result = r
    /\ \A f : Taken(f).result = "frame" /\ Taken(f).frame = f
    /\ "frame" # "undefined" /\ "frame" # "wrong crc"
  <1>1. \A r : Failed(r).result = r
    BY DEF Failed
  <1>2. \A f : Taken(f).result = "frame" /\ Taken(f).frame = f
    BY DEF Taken
  <1>3. "frame" # "undefined" /\ "frame" # "wrong crc"
    OBVIOUS
  <1> QED
    BY <1>1, <1>2, <1>3

(* What the worker makes of the first packet that arrives.                 *)
LEMMA ReadIsAnswer ==
    ASSUME FunctionsInv, stage = "answered", answers # <<>>, NEW s, s = Head(answers)
    PROVE  /\ Tail(answers) \in Seq(Seq(Byte))
           /\ ReadFrame(s).result = "undefined" => damaged
           /\ ReadFrame(s).result = "frame" /\ Matches(ReadFrame(s).frame) =>
                  AnswerTo(ReadFrame(s).frame)
  <1>1. Typed /\ Request(request) /\ Underway
    BY DEF FunctionsInv, Asked
  <1>2. PICK a : /\ FromStick(a)
                 /\ \/ ~damaged /\ answers = <<a>>
                    \/ damaged /\ \E t : Changed(a, t) /\ answers = <<t>>
                    \/ /\ damaged /\ "split" \in Damages
                       /\ \E i \in 1..Len(a) : answers = Halves(a, i)
    BY <1>1 DEF Underway
  <1>3. PICK payload \in Seq(Byte) :
            /\ Len(payload) <= 20 /\ StickPayload(payload)
            /\ IsWhole(request.command, request.sequence_number, status, payload, a)
    BY <1>1, <1>2, FromStickIsWhole
  <1>4. PICK l \in Nat : l = Len(payload) /\ l <= 20
    BY <1>3, LenProperties
  <1>5. /\ a \in Seq(Byte) /\ Len(a) = 7 + l /\ WellChecked(a)
        /\ a[1] = request.command /\ a[2] = request.sequence_number /\ a[3] = status
        /\ ReadFrame(a) = Taken(FrameIn(a, l)) /\ FrameIn(a, l).payload = payload
    BY <1>3, <1>4 DEF IsWhole
  <1>6. CASE ~damaged /\ answers = <<a>>
    <2>1. s = a
      BY <1>6
    <2>2. Tail(answers) \in Seq(Seq(Byte))
      <3>1. Tail(<<a>>) = <<>>
        OBVIOUS
      <3>2. <<>> \in Seq(Seq(Byte))
        OBVIOUS
      <3> QED
        BY <1>6, <3>1, <3>2
    <2>3. PICK f : f = FrameIn(a, l)
      OBVIOUS
    <2>4. ReadFrame(s).result = "frame" /\ ReadFrame(s).frame = f
      BY <1>5, <2>1, <2>3 DEF Taken
    <2>5. f.status = status /\ f.payload_length = l /\ f.payload = payload
      BY <1>5, <2>3 DEF FrameIn
    <2>6. Matches(f) => AnswerTo(f)
      BY <1>3, <1>4, <1>6, <2>5 DEF AnswerTo, Matches
    <2>7. "frame" # "undefined"
      OBVIOUS
    <2> QED
      BY <2>2, <2>4, <2>6, <2>7
  <1>7. ASSUME damaged, NEW t, Changed(a, t), answers = <<t>>
        PROVE  /\ Tail(answers) \in Seq(Seq(Byte))
               /\ ReadFrame(s).result = "undefined" => damaged
               /\ ReadFrame(s).result = "frame" /\ Matches(ReadFrame(s).frame) =>
                      AnswerTo(ReadFrame(s).frame)
    <2>1. s = t
      BY <1>7
    <2>2. Tail(answers) \in Seq(Seq(Byte))
      <3>1. Tail(<<t>>) = <<>>
        OBVIOUS
      <3>2. <<>> \in Seq(Seq(Byte))
        OBVIOUS
      <3> QED
        BY <1>7, <3>1, <3>2
    <2>3. PICK j \in 1..Len(a) : t[j] # a[j] /\ \A k \in 1..Len(a) : k # j => t[k] = a[k]
      BY <1>7 DEF Changed
    <2>4. t \in Seq(Byte) /\ Len(t) = Len(a)
      BY <1>7 DEF Changed
    <2>5. ~WellChecked(t)
      <3>1. Len(a) >= 2
        BY <1>4, <1>5
      <3> QED
        BY <1>5, <2>3, <2>4, <3>1, ChangeIsFound
    <2>6. Len(t) >= 1 /\ Len(t) <= 1000 /\ ~(Len(t) < 7)
      BY <1>4, <1>5, <2>4
    <2>7. ReadFrame(t) = Failed("wrong crc")
      BY <2>4, <2>5, <2>6, ReadFrameFacts
    <2>8. ReadFrame(s).result # "frame"
      BY <2>1, <2>7, Results
    <2> QED
      BY <1>7, <2>2, <2>8
  <1>8. ASSUME damaged, "split" \in Damages, NEW i \in 1..Len(a), answers = Halves(a, i)
        PROVE  /\ Tail(answers) \in Seq(Seq(Byte))
               /\ ReadFrame(s).result = "undefined" => damaged
               /\ ReadFrame(s).result = "frame" /\ Matches(ReadFrame(s).frame) =>
                      AnswerTo(ReadFrame(s).frame)
    <2>1. /\ s \in {Before(a, i), After(a, i)} /\ s # <<>>
          /\ Tail(answers) \in Seq(Seq(Byte))
          /\ Before(a, i) \in Seq(Byte) /\ Len(Before(a, i)) = i - 1
          /\ After(a, i) \in Seq(Byte) /\ Len(After(a, i)) = Len(a) - i
      BY <1>5, <1>8, PiecesOf
    <2>2. s \in Seq(Byte) /\ Len(s) >= 1 /\ Len(s) <= 1000
      <3>1. s \in Seq(Byte)
        BY <2>1
      <3>2. i \in 1..(7 + l)
        BY <1>5
      <3>3. Len(s) = i - 1 \/ Len(s) = 7 + l - i
        <4>1. Len(a) = 7 + l
          BY <1>5
        <4>2. Len(s) = Len(Before(a, i)) \/ Len(s) = Len(After(a, i))
          BY <2>1
        <4> QED
          BY <2>1, <4>1, <4>2
      <3>4. Len(s) \in Nat /\ Len(s) # 0
        BY <2>1, <3>1, EmptySeq
      <3>5. l \in Nat /\ l <= 20
        BY <1>4
      <3>6. Len(s) <= 1000
        BY <3>2, <3>3, <3>5
      <3> QED
        BY <3>1, <3>4, <3>6
    <2>3. ASSUME ReadFrame(s).result = "frame", Matches(ReadFrame(s).frame)
          PROVE  AnswerTo(ReadFrame(s).frame)
      <3>1. ReadFrame(s) # Failed("undefined") /\ ReadFrame(s) # Failed("wrong crc")
        BY <2>3, Results
      <3>2. PICK m \in Nat :
                /\ ReadFrame(s) = Taken(FrameIn(s, m)) /\ WellChecked(s)
                /\ (Len(s) = 5 /\ m = 0) \/ (Len(s) >= 7 /\ m = Len(s) - 7)
        BY <2>2, <3>1, ReadFrameFacts
      <3>3. PICK f : f = FrameIn(s, m) /\ f = ReadFrame(s).frame
        BY <3>2, Results
      <3>4. 5 + m <= Len(s)
        <4>1. PICK n \in Nat : n = Len(s)
          BY <2>2, LenProperties
        <4>2. (n = 5 /\ m = 0) \/ (n >= 7 /\ m = n - 7)
          BY <3>2, <4>1
        <4>3. 5 + m <= n
          BY <4>2
        <4> QED
          BY <4>1, <4>3
      <3>5. /\ f.command = s[1] /\ f.sequence_number = s[2] /\ f.status = s[3]
            /\ f.payload_length = m /\ f.payload \in Seq(Byte) /\ Len(f.payload) = m
        <4>1. InFrame(s, m, FrameIn(s, m))
          BY <2>2, <3>4, FrameInOf
        <4>2. InFrame(s, m, f)
          BY <3>3, <4>1
        <4> QED
          BY <4>2 DEF InFrame
      <3>6. s[1] = request.command /\ s[2] = request.sequence_number
        BY <2>3, <3>3, <3>5 DEF Matches
      <3>7. Narrow => Harmless(f)
        <4> SUFFICES ASSUME Narrow, HasStatus(f, STATUS_SUCCESS)
                     PROVE  Harmless(f)
          BY DEF Harmless
        <4>1. s[3] = STATUS_SUCCESS
          BY <3>5 DEF HasStatus
        <4>2. /\ Asks(COMMAND_READ_PARAMETER) => m # 3 + Width[Parameter]
              /\ Asks(COMMAND_WRITE_PARAMETER) =>
                     status = STATUS_SUCCESS /\ stored[Parameter] = Tail(request.payload)
          BY <1>1, <1>3, <1>8, <2>1, <3>2, <3>6, <4>1, PieceIsHarmless
        <4> QED
          BY <3>5, <4>2 DEF Harmless
      <3> QED
        BY <1>8, <3>3, <3>5, <3>6, <3>7 DEF AnswerTo
    <2> QED
      BY <1>8, <2>1, <2>3
  <1> QED
    BY <1>2, <1>6, <1>7, <1>8

LEMMA ReadAnswerKeeps ==
    ASSUME FunctionsInv, ReadAnswer
    PROVE  FunctionsInv'
  <1>1. PICK s : s = Head(answers)
    OBVIOUS
  <1>2. /\ stage = "answered" /\ answers # <<>>
        /\ frames' = frames + 1 /\ answers' = Tail(answers)
        /\ UNCHANGED <<request, data, returned, calls, packet, stored, status, damaged>>
    BY DEF ReadAnswer, stickVars
  <1>3. \/ /\ ReadFrame(s).result = "frame" /\ Matches(ReadFrame(s).frame)
           /\ response' = ReadFrame(s).frame /\ stage' = "received"
        \/ stage' = "stuck"
        \/ ReadFrame(s).result = "undefined" /\ stage' = "undefined"
    BY <1>1 DEF ReadAnswer
  <1>4. /\ Tail(answers) \in Seq(Seq(Byte))
        /\ ReadFrame(s).result = "undefined" => damaged
        /\ ReadFrame(s).result = "frame" /\ Matches(ReadFrame(s).frame) =>
               AnswerTo(ReadFrame(s).frame)
    BY <1>1, <1>2, ReadIsAnswer
  <1>5. Typed /\ Asked
    BY DEF FunctionsInv
  <1>6. stage' \in {"received", "stuck", "undefined"}
    BY <1>3
  <1>7. Typed'
    <2>1. /\ frames' \in Nat /\ calls' \in Nat /\ calls' <= MaxCalls /\ frames' <= calls'
          /\ frames' > 0
      BY <1>2, <1>5 DEF Typed
    <2>2. ~(stage' \in {"sent", "answered"})
      BY <1>6
    <2>3. /\ packet' \in Seq(Byte) /\ returned' \in {NONE, -1} \cup Byte
          /\ data' \in Seq(Byte) /\ status' \in {STATUS_SUCCESS, STATUS_BUSY}
          /\ stored' \in [Parameters -> Seq(Byte)]
          /\ \A p \in Parameters : stored'[p] \in Values(StickWidth[p])
      BY <1>2, <1>5 DEF Typed
    <2>4. damaged' \in BOOLEAN
      BY <1>2, <1>5 DEF Typed
    <2>5. answers' \in Seq(Seq(Byte))
      BY <1>2, <1>4
    <2>6. stage' \in {"idle", "sent", "answered", "received", "returned", "stuck", "undefined"}
      BY <1>6
    <2> QED
      BY <2>1, <2>2, <2>3, <2>4, <2>5, <2>6 DEF Typed
  <1>8. Asked'
    BY <1>2, <1>5 DEF Asked
  <1>9. Underway' /\ Returned'
    BY <1>6 DEF Underway, Returned
  <1>10. Arrived'
    <2>1. CASE stage' = "received"
      <3>1. AnswerTo(response')
        BY <1>3, <1>4, <2>1
      <3>2. AnswerTo(response)'
        BY <1>2, <3>1 DEF AnswerTo, StickPayload, Harmless, Asks, Parameter
      <3> QED
        BY <2>1, <3>2 DEF Arrived
    <2>2. CASE stage' = "undefined"
      BY <1>2, <1>3, <1>4, <2>2 DEF Arrived
    <2>3. CASE stage' = "stuck"
      BY <2>3 DEF Arrived
    <2> QED
      BY <1>6, <2>1, <2>2, <2>3
  <1> QED
    BY <1>7, <1>8, <1>9, <1>10 DEF FunctionsInv

(* The five fields of a device state: bytes, and together the state's six  *)
(* bits that mean something.                                               *)
LEMMA FiveBytes ==
    ASSUME NEW s, NEW a \in Byte, NEW b \in Byte, NEW d \in Byte, NEW e \in Byte,
           NEW g \in Byte, s = <<a, b, d, e, g>>
    PROVE  s \in Seq(Byte) /\ Total(s) = a + b + d + e + g
  <1>1. s \in Seq(Byte) /\ Len(s) = 5
    OBVIOUS
  <1>2. s[1] = a /\ s[2] = b /\ s[3] = d /\ s[4] = e /\ s[5] = g
    OBVIOUS
  <1>3. /\ UpTo(s)[0] = 0
        /\ \A k \in 1..5 : UpTo(s)[k] = UpTo(s)[k - 1] + s[k]
        /\ Total(s) = UpTo(s)[5]
    <2>1. s \in Seq(Byte)
      BY <1>1
    <2>2. /\ UpTo(s)[0] = 0
          /\ \A k \in 1..Len(s) : UpTo(s)[k] = UpTo(s)[k - 1] + s[k]
      BY <2>1, TotalSteps
    <2> QED
      BY <1>1, <2>2, TotalIsUpTo
  <1>4. \A x \in {a, b, d, e, g} : x \in Int
    BY Bytes
  <1>5. /\ UpTo(s)[1] = 0 + a
        /\ UpTo(s)[2] = UpTo(s)[1] + b /\ UpTo(s)[3] = UpTo(s)[2] + d
        /\ UpTo(s)[4] = UpTo(s)[3] + e /\ UpTo(s)[5] = UpTo(s)[4] + g
    <2>1. \A k \in {1, 2, 3, 4, 5} : k \in 1..5
      OBVIOUS
    <2>2. 1 - 1 = 0 /\ 2 - 1 = 1 /\ 3 - 1 = 2 /\ 4 - 1 = 3 /\ 5 - 1 = 4
      OBVIOUS
    <2> QED
      BY <1>2, <1>3, <2>1, <2>2
  <1>6. Total(s) = a + b + d + e + g
    BY <1>3, <1>4, <1>5
  <1> QED
    BY <1>1, <1>6

LEMMA StateTotal ==
    ASSUME NEW byte \in Byte, NEW s, s = StateOf(byte)
    PROVE  s \in Seq(Byte) /\ Total(s) = byte % 64
  <1>1. PICK n \in Int : n = byte /\ 0 <= n /\ n <= 255
    BY Bytes
  <1>2. PICK a \in Int : a = n % 4
    BY <1>1
  <1>3. PICK b \in Int : b = (n \div 4 % 2) * 4
    BY <1>1
  <1>4. PICK d \in Int : d = (n \div 8 % 2) * 8
    BY <1>1
  <1>5. PICK e \in Int : e = (n \div 16 % 2) * 16
    BY <1>1
  <1>6. PICK g \in Int : g = (n \div 32 % 2) * 32
    BY <1>1
  <1>7. a + b = n % 8
    BY <1>1, <1>2, <1>3
  <1>8. (n % 8) + d = n % 16
    BY <1>1, <1>4
  <1>9. (n % 16) + e = n % 32
    BY <1>1, <1>5
  <1>10. (n % 32) + g = n % 64
    BY <1>1, <1>6
  <1>11. \A x \in {a, b, d, e, g} : 0 <= x /\ x <= 255
    <2>1. 0 <= a /\ a <= 255
      BY <1>1, <1>2
    <2>2. 0 <= b /\ b <= 255
      BY <1>1, <1>3
    <2>3. 0 <= d /\ d <= 255
      BY <1>1, <1>4
    <2>4. 0 <= e /\ e <= 255
      BY <1>1, <1>5
    <2>5. 0 <= g /\ g <= 255
      BY <1>1, <1>6
    <2> QED
      BY <2>1, <2>2, <2>3, <2>4, <2>5
  <1>12. \A x \in {a, b, d, e, g} : x \in Byte
    BY <1>11, Bytes
  <1>13. s = <<a, b, d, e, g>>
    BY <1>1, <1>2, <1>3, <1>4, <1>5, <1>6 DEF StateOf, And
  <1>14. s \in Seq(Byte) /\ Total(s) = a + b + d + e + g
    BY <1>12, <1>13, FiveBytes
  <1>15. a + b + d + e + g = n % 64
    BY <1>1, <1>7, <1>8, <1>9, <1>10
  <1> QED
    BY <1>1, <1>14, <1>15

(* Whatever a function returns, with whatever it has stored.               *)
LEMMA ReturnKeeps ==
    ASSUME FunctionsInv, stage = "received", NEW value, value \in {-1} \cup Byte,
           NEW freed \in {0, 1}, Return(value, freed), data' \in Seq(Byte), Returned'
    PROVE  FunctionsInv'
  <1>1. /\ stage' = "returned" /\ returned' = value /\ frames' = frames - freed
        /\ UNCHANGED <<request, response, calls, packet, answers, stored, status, damaged>>
    BY DEF Return, stickVars
  <1>2. Typed /\ Asked /\ Arrived
    BY DEF FunctionsInv
  <1>3. Typed'
    <2>1. /\ frames' \in Nat /\ calls' \in Nat /\ calls' <= MaxCalls /\ frames' <= calls'
      BY <1>1, <1>2 DEF Typed
    <2>2. ~(stage' \in {"sent", "answered"}) /\ stage' # "received"
      BY <1>1
    <2>3. /\ packet' \in Seq(Byte) /\ answers' \in Seq(Seq(Byte))
          /\ status' \in {STATUS_SUCCESS, STATUS_BUSY}
          /\ stored' \in [Parameters -> Seq(Byte)]
          /\ \A p \in Parameters : stored'[p] \in Values(StickWidth[p])
      BY <1>1, <1>2 DEF Typed
    <2>4. damaged' \in BOOLEAN
      BY <1>1, <1>2 DEF Typed
    <2>5. returned' \in {NONE, -1} \cup Byte
      BY <1>1
    <2>6. stage' \in {"idle", "sent", "answered", "received", "returned", "stuck", "undefined"}
      BY <1>1
    <2> QED
      BY <2>1, <2>2, <2>3, <2>4, <2>5, <2>6 DEF Typed
  <1>4. Asked'
    BY <1>1, <1>2 DEF Asked
  <1>5. Underway'
    BY <1>1 DEF Underway
  <1>6. Arrived'
    <2>1. AnswerTo(response)
      BY <1>2 DEF Arrived
    <2>2. AnswerTo(response)'
      BY <1>1, <2>1 DEF AnswerTo, StickPayload, Harmless, Asks, Parameter
    <2> QED
      BY <1>1, <2>2 DEF Arrived
  <1> QED
    BY <1>3, <1>4, <1>5, <1>6 DEF FunctionsInv

LEMMA Codes ==
    /\ uint8(0) = 0 /\ uint8(-1) = 255 /\ 0 \in Byte /\ 255 \in Byte
    /\ uint8(0) \in Byte /\ uint8(-1) \in Byte /\ uint8(-1) # 0 /\ -1 # 0
  <1>1. uint8(0) = 0 /\ uint8(-1) = 255
    <2>1. \A n \in Int : n + 1 = 0 => n % 256 = 255
      OBVIOUS
    <2>2. -1 \in Int /\ -1 + 1 = 0 /\ 0 % 256 = 0
      OBVIOUS
    <2> QED
      BY <2>1, <2>2 DEF uint8
  <1>2. 0 \in Byte /\ 255 \in Byte
    BY Bytes
  <1> QED
    BY <1>1, <1>2

LEMMA ReturnRefusedKeeps ==
    ASSUME FunctionsInv, ReturnRefused
    PROVE  FunctionsInv'
  <1>1. /\ stage = "received" /\ Return(-1, 1) /\ data' = data
        /\ request.command \in {COMMAND_READ_PARAMETER, COMMAND_WRITE_PARAMETER}
    BY DEF ReturnRefused
  <1>2. returned' = -1 /\ request' = request /\ response' = response
    BY <1>1 DEF Return
  <1>3. Returned'
    BY <1>1, <1>2, Commands DEF Returned
  <1>4. data' \in Seq(Byte)
    BY <1>1 DEF FunctionsInv, Typed
  <1> QED
    BY <1>1, <1>3, <1>4, ReturnKeeps

LEMMA ReturnGetKeeps ==
    ASSUME FunctionsInv, ReturnGet
    PROVE  FunctionsInv'
  <1>1. /\ stage = "received" /\ request.command = COMMAND_READ_PARAMETER
        /\ HasStatus(response, STATUS_SUCCESS)
    BY DEF ReturnGet
  <1>2. CASE /\ HasValue(response, Width[request.payload[1]])
             /\ data' = ValueOf(response) /\ Return(uint8(0), 0)
    <2>1. /\ returned' = 0 /\ request' = request /\ response' = response
          /\ stage' = "returned"
      BY <1>2, Codes DEF Return
    <2>2. Returned'
      BY <1>1, <1>2, <2>1, Commands
         DEF Returned, Asks, Parameter, HasStatus, HasValue, ValueOf
    <2>3. PICK s : s = response.payload /\ s \in Seq(Byte) /\ Len(s) = response.payload_length
      BY <1>1 DEF FunctionsInv, Arrived, AnswerTo
    <2>4. PICK n \in Nat : n = Len(s)
      BY <2>3, LenProperties
    <2>5. PICK w \in Nat : w = Width[request.payload[1]]
      <3>1. request.payload[1] \in Parameters
        BY <1>1 DEF FunctionsInv, Asked, Request
      <3> QED
        BY <3>1, Constants
    <2>6. n = 3 + w
      BY <1>2, <2>3, <2>4, <2>5 DEF HasValue
    <2>7. data' \in Seq(Byte)
      <3>1. data' = SubSeq(s, 4, n)
        BY <1>2, <2>3, <2>4 DEF ValueOf
      <3>2. 4 \in Nat /\ 0 < 4 /\ 4 <= n + 1 /\ n <= Len(s)
        BY <2>4, <2>5, <2>6
      <3> QED
        BY <2>3, <3>1, <3>2, Cut
    <2> QED
      BY <1>1, <1>2, <2>2, <2>7, Codes, ReturnKeeps
  <1>3. CASE /\ ~HasValue(response, Width[request.payload[1]])
             /\ data' = data /\ Return(uint8(-1), 0)
    <2>1. returned' = 255 /\ request' = request /\ response' = response
      BY <1>3, Codes DEF Return
    <2>2. returned' # 0
      BY <2>1
    <2>3. Returned'
      BY <1>1, <2>1, <2>2, Commands DEF Returned
    <2>4. data' \in Seq(Byte)
      BY <1>3 DEF FunctionsInv, Typed
    <2> QED
      BY <1>1, <1>3, <2>3, <2>4, Codes, ReturnKeeps
  <1> QED
    BY <1>2, <1>3 DEF ReturnGet

LEMMA ReturnSetKeeps ==
    ASSUME FunctionsInv, ReturnSet
    PROVE  FunctionsInv'
  <1>1. /\ stage = "received" /\ Return(uint8(0), 1) /\ data' = data
        /\ request.command = COMMAND_WRITE_PARAMETER
        /\ HasStatus(response, STATUS_SUCCESS)
    BY DEF ReturnSet
  <1>2. request' = request /\ response' = response
    BY <1>1 DEF Return
  <1>3. Returned'
    BY <1>1, <1>2, Commands DEF Returned, Asks, HasStatus
  <1>4. data' \in Seq(Byte)
    BY <1>1 DEF FunctionsInv, Typed
  <1> QED
    BY <1>1, <1>3, <1>4, Codes, ReturnKeeps

LEMMA ReturnVersionKeeps ==
    ASSUME FunctionsInv, ReturnVersion
    PROVE  FunctionsInv'
  <1>1. stage = "received" /\ request.command = COMMAND_VERSION
    BY DEF ReturnVersion
  <1>2. PICK value : value \in {-1} \cup Byte /\ Return(value, 1)
    BY Codes DEF ReturnVersion
  <1>3. request' = request /\ response' = response
    BY <1>2 DEF Return
  <1>4. Returned'
    BY <1>1, <1>3, Commands DEF Returned, Asks
  <1>5. PICK s : s = response.payload /\ s \in Seq(Byte) /\ Len(s) = response.payload_length
    BY <1>1 DEF FunctionsInv, Arrived, AnswerTo
  <1>6. PICK n \in Nat : n = Len(s)
    BY <1>5, LenProperties
  <1>7. \/ data' = data
        \/ n >= 4 /\ data' = Reverse(SubSeq(s, 1, 4))
        \/ data' \in [1..4 -> ByteValues]
    BY <1>5, <1>6 DEF ReturnVersion, VersionOf
  <1>8. CASE data' = data
    <2>1. data' \in Seq(Byte)
      BY <1>8 DEF FunctionsInv, Typed
    <2> QED
      BY <1>1, <1>2, <1>4, <2>1, ReturnKeeps
  <1>9. CASE n >= 4 /\ data' = Reverse(SubSeq(s, 1, 4))
    <2>1. PICK v : v = SubSeq(s, 1, 4)
      OBVIOUS
    <2>2. v \in Seq(Byte) /\ Len(v) = 4
      <3>1. 1 \in Nat /\ 4 \in Nat /\ 0 < 1 /\ 1 <= 4 + 1 /\ 4 <= Len(s) /\ 4 - 1 + 1 = 4
        BY <1>6, <1>9
      <3>2. v \in Seq(Byte) /\ Len(v) = 4 - 1 + 1
        BY <1>5, <2>1, <3>1, Cut
      <3> QED
        BY <3>1, <3>2
    <2>3. data' = [k \in 1..4 |-> v[(4 - k) + 1]]
      BY <1>9, <2>1, <2>2 DEF Reverse
    <2>4. \A k \in 1..4 : v[(4 - k) + 1] \in Byte
      BY <2>2
    <2>5. data' \in Seq(Byte)
      BY <2>3, <2>4
    <2> QED
      BY <1>1, <1>2, <1>4, <2>5, ReturnKeeps
  <1>10. CASE data' \in [1..4 -> ByteValues]
    <2>1. 4 \in Nat /\ data' \in Values(4)
      BY <1>10 DEF Values
    <2>2. data' \in Seq(Byte)
      BY <2>1, ValuesAreBytes
    <2> QED
      BY <1>1, <1>2, <1>4, <2>2, ReturnKeeps
  <1> QED
    BY <1>7, <1>8, <1>9, <1>10

LEMMA ParseStateKeeps ==
    ASSUME FunctionsInv, ParseState
    PROVE  FunctionsInv'
  <1>1. /\ stage = "received" /\ request.command \in DOMAIN StateByteAt /\ Return(0, 1)
    BY DEF ParseState
  <1>2. request' = request /\ response' = response
    BY <1>1 DEF Return
  <1>3. PICK s : /\ s = response.payload /\ s \in Seq(Byte) /\ Len(s) = response.payload_length
                 /\ response.command = request.command
    BY <1>1 DEF FunctionsInv, Arrived, AnswerTo
  <1>4. PICK n \in Nat : n = Len(s)
    BY <1>3, LenProperties
  <1>5. PICK at \in Nat : at = StateByteAt[request.command] /\ at > 0
    BY <1>1, StateBytes
  <1>6. PICK byte : /\ data' = StateOf(byte)
                    /\ byte \in IF at <= n THEN {s[at]} ELSE ByteValues
    BY <1>3, <1>4, <1>5 DEF ParseState
  <1>7. byte \in Byte
    <2>1. CASE at <= n
      <3>1. at \in 1..Len(s)
        BY <1>4, <1>5, <2>1
      <3> QED
        BY <1>3, <1>6, <2>1, <3>1
    <2>2. CASE ~(at <= n)
      BY <1>6, <2>2, Constants
    <2> QED
      BY <2>1, <2>2
  <1>8. data' \in Seq(Byte) /\ Total(data') = byte % 64
    BY <1>6, <1>7, StateTotal
  <1>9. at <= n => byte = s[at]
    BY <1>6
  <1>10. Total(data)' = Total(data')
    BY DEF Total
  <1>11. Returned'
    BY <1>1, <1>2, <1>3, <1>4, <1>5, <1>8, <1>9, <1>10, Commands DEF Returned, Asks
  <1> QED
    BY <1>1, <1>8, <1>11, Codes, ReturnKeeps

LEMMA NextCallKeeps ==
    ASSUME FunctionsInv, NextCall
    PROVE  FunctionsInv'
  <1>1. /\ stage' = "idle"
        /\ UNCHANGED <<request, response, data, returned, frames, calls, packet, answers,
                       stored, status, damaged>>
    BY DEF NextCall, libVars, stickVars
  <1>2. Typed
    BY DEF FunctionsInv
  <1>3. damaged' \in BOOLEAN
    BY <1>1, <1>2 DEF Typed
  <1>4. Typed'
    BY <1>1, <1>2, <1>3 DEF Typed
  <1> QED
    BY <1>1, <1>4 DEF FunctionsInv, Asked, Underway, Arrived, Returned
-----------------------------------------------------------------------------
LEMMA CallKeeps ==
    ASSUME FunctionsInv,
           \/ \E p \in Parameters : Get(p) \/ \E v \in Values(Width[p]) : Set(p, v)
           \/ GetVersion
           \/ \E f \in Requests : Enqueue(f)
    PROVE  FunctionsInv'
  <1>1. ASSUME NEW p \in Parameters, Get(p) PROVE FunctionsInv'
    <2>1. PICK f : f = ReadParameterRequest(p)
      OBVIOUS
    <2>2. \A n \in Byte : Request([f EXCEPT !.sequence_number = n])
      BY <2>1, ReadRequest
    <2>3. Queue(f)
      BY <1>1, <2>1 DEF Get
    <2> QED
      BY <2>2, <2>3, QueueKeeps
  <1>2. ASSUME NEW p \in Parameters, NEW v \in Values(Width[p]), Set(p, v)
        PROVE  FunctionsInv'
    <2>1. PICK f : f = WriteParameterRequest(p, v)
      OBVIOUS
    <2>2. \A n \in Byte : Request([f EXCEPT !.sequence_number = n])
      BY <2>1, WriteRequest
    <2>3. Queue(f)
      BY <1>2, <2>1 DEF Set
    <2> QED
      BY <2>2, <2>3, QueueKeeps
  <1>3. ASSUME NEW f \in {ReadFirmwareRequest} \cup Requests, Queue(f) PROVE FunctionsInv'
    <2>1. \A n \in Byte : Request([f EXCEPT !.sequence_number = n])
      BY OtherRequest
    <2> QED
      BY <1>3, <2>1, QueueKeeps
  <1>4. CASE GetVersion
    <2>1. Queue(ReadFirmwareRequest) /\ ReadFirmwareRequest \in {ReadFirmwareRequest} \cup Requests
      BY <1>4 DEF GetVersion
    <2> QED
      BY <1>3, <2>1
  <1>5. ASSUME NEW f \in Requests, Enqueue(f) PROVE FunctionsInv'
    <2>1. Queue(f) /\ f \in {ReadFirmwareRequest} \cup Requests
      BY <1>5 DEF Enqueue
    <2> QED
      BY <1>3, <2>1
  <1> QED
    BY <1>1, <1>2, <1>4, <1>5

LEMMA StutterKeeps ==
    ASSUME FunctionsInv, UNCHANGED vars
    PROVE  FunctionsInv'
  <1>1. UNCHANGED <<stage, request, packet, answers, response, data, returned, frames,
                    calls, stored, status, damaged>>
    BY DEF vars, libVars, stickVars
  <1>2. Typed /\ Asked /\ Underway /\ Arrived /\ Returned
    BY DEF FunctionsInv
  <1>3. Typed'
    <2>1. damaged' \in BOOLEAN
      BY <1>1, <1>2 DEF Typed
    <2> QED
      BY <1>1, <1>2, <2>1 DEF Typed
  <1>4. Asked'
    BY <1>1, <1>2 DEF Asked
  <1>5. Underway'
    <2>1. \A payload : StickPayload(payload) => StickPayload(payload)'
      BY <1>1 DEF StickPayload, Asks, Parameter
    <2>2. \A a : FromStick(a) => FromStick(a)'
      BY <1>1, <2>1 DEF FromStick
    <2> QED
      BY <1>1, <1>2, <2>2, Zenon DEF Underway
  <1>6. Arrived'
    BY <1>1, <1>2 DEF Arrived, AnswerTo, Harmless, StickPayload, Asks, Parameter
  <1>7. Total(data)' = Total(data)
    BY <1>1 DEF Total
  <1>8. Returned'
    BY <1>1, <1>2, <1>7 DEF Returned, Asks, Parameter, HasStatus, HasValue, ValueOf
  <1> QED
    BY <1>3, <1>4, <1>5, <1>6, <1>8 DEF FunctionsInv

LEMMA NextKeeps == FunctionsInv /\ [Next]_vars => FunctionsInv'
  <1> SUFFICES ASSUME FunctionsInv, [Next]_vars PROVE FunctionsInv'
    OBVIOUS
  <1>1. CASE UNCHANGED vars
    BY <1>1, StutterKeeps
  <1>2. ASSUME Next PROVE FunctionsInv'
    <2>1. CASE \/ \E p \in Parameters : Get(p) \/ \E v \in Values(Width[p]) : Set(p, v)
               \/ GetVersion
               \/ \E f \in Requests : Enqueue(f)
      BY <2>1, CallKeeps
    <2>2. CASE StickAnswers
      BY <2>2, StickAnswersKeeps
    <2>3. CASE StickRefuses
      BY <2>3, RefusesKeeps
    <2>4. ASSUME NEW i \in 1..(IF answers = <<>> THEN 0 ELSE Len(answers[1])),
                 Split(i) \/ \E b \in ByteValues : Change(i, b)
          PROVE  FunctionsInv'
      <3>1. CASE Split(i)
        BY <3>1, SplitKeeps
      <3>2. ASSUME NEW b \in ByteValues, Change(i, b) PROVE FunctionsInv'
        BY <3>2, ChangeKeeps
      <3> QED
        BY <2>4, <3>1, <3>2
    <2>5. CASE ReadAnswer
      BY <2>5, ReadAnswerKeeps
    <2>6. CASE ReturnRefused
      BY <2>6, ReturnRefusedKeeps
    <2>7. CASE ReturnGet
      BY <2>7, ReturnGetKeeps
    <2>8. CASE ReturnSet
      BY <2>8, ReturnSetKeeps
    <2>9. CASE ReturnVersion
      BY <2>9, ReturnVersionKeeps
    <2>10. CASE ParseState
      BY <2>10, ParseStateKeeps
    <2>11. CASE NextCall
      BY <2>11, NextCallKeeps
    <2> QED
      BY <1>2, <2>1, <2>2, <2>3, <2>4, <2>5, <2>6, <2>7, <2>8, <2>9, <2>10, <2>11
         DEF Next
  <1> QED
    BY <1>1, <1>2

LEMMA Inductive == Spec => []FunctionsInv
  BY InitKeeps, NextKeeps, PTL DEF Spec

(* Every value the calls, the codec, the line and the stick pass on has    *)
(* its type: what is on the line are bytes, the sums included, what a      *)
(* function returns is -1 or a uint8_t, and no more frames are left        *)
(* allocated than there were calls.                                        *)
THEOREM TypeCorrect == Spec => []TypeOK
  <1>1. FunctionsInv => TypeOK
    <2> SUFFICES ASSUME FunctionsInv PROVE TypeOK
      OBVIOUS
    <2>1. Typed
      BY DEF FunctionsInv
    <2>2. frames \in 0..MaxCalls /\ calls \in 0..MaxCalls
      BY <2>1, Constants DEF Typed
    <2>3. packet \in Seq(Byte) /\ \A i \in DOMAIN answers : answers[i] \in Seq(Byte)
      BY <2>1 DEF Typed
    <2>4. damaged \in BOOLEAN
      BY <2>1 DEF Typed
    <2>5. \A p \in Parameters : stored[p] \in Values(StickWidth[p])
      BY <2>1 DEF Typed
    <2> QED
      BY <2>1, <2>2, <2>3, <2>4, <2>5 DEF Typed, TypeOK
  <1> QED
    BY <1>1, Inductive, PTL

(* Whatever the stick answers, a refusal without payload included, its     *)
(* lengths are in bounds when conbee_read_frame takes it apart.            *)
THEOREM DefinedUnlessDamaged == Spec => []UndefinedOnlyFromDamage
  <1>1. FunctionsInv => UndefinedOnlyFromDamage
    BY DEF FunctionsInv, Arrived, UndefinedOnlyFromDamage
  <1> QED
    BY <1>1, Inductive, PTL

(* The payload of a request reaches the stick whole, whatever is read or   *)
(* written, as long as the application queues no request of its own but    *)
(* the one for APS data: the others set a length that cuts them short.     *)
THEOREM RequestsWhole ==
    ASSUME Requests \subseteq {GetApsDataRequest}
    PROVE  Spec => []PayloadArrives
  <1>1. FunctionsInv => PayloadArrives
    <2> SUFFICES ASSUME FunctionsInv, stage = "sent", request.payload_length > 0
                 PROVE  /\ Len(packet) = 9 + request.payload_length
                        /\ FromLE16(packet[6], packet[7]) = request.payload_length
                        /\ SubSeq(packet, 8, 7 + request.payload_length) = request.payload
      BY DEF PayloadArrives
    <2>1. Request(request) /\ packet = WriteFrame(request)
      BY DEF FunctionsInv, Asked
    <2>2. request.payload_length = Len(request.payload)
      BY <2>1 DEF Request
    <2>3. Len(request.payload) > 0 /\ request.length = 7 + Len(request.payload)
      BY <2>1, <2>2 DEF Request
    <2> QED
      BY <2>1, <2>2, <2>3, PayloadOnLine
  <1> QED
    BY <1>1, Inductive, PTL

(* No answer with a changed byte gets as far as the caller, wherever the   *)
(* byte is, the checksum's own two included, and whatever it changes to.   *)
(* Of a packet cut in two a part may check out by coincidence, so that     *)
(* damage is left out here.                                                *)
THEOREM ChangedNeverReturned ==
    ASSUME "split" \notin Damages
    PROVE  Spec => []DamageRejected
  <1>1. FunctionsInv => DamageRejected
    BY DEF FunctionsInv, Arrived, AnswerTo, DamageRejected
  <1> QED
    BY <1>1, Inductive, PTL

(* The device state an application is given is the byte the stick sent,    *)
(* each of its six bits in one field.                                      *)
THEOREM StateWhole ==
    ASSUME "split" \notin Damages
    PROVE  Spec => []StateIsWhole
  <1>1. FunctionsInv => StateIsWhole
    <2> SUFFICES ASSUME FunctionsInv, stage = "returned",
                        request.command \in DOMAIN StateByteAt, status = STATUS_SUCCESS
                 PROVE  Total(data) = Last(response.payload) % 64
      BY DEF StateIsWhole
    <2>1. AnswerTo(response) /\ ~damaged
      BY DEF FunctionsInv, Arrived, AnswerTo
    <2>2. PICK s : s = response.payload /\ s \in Seq(Byte) /\ Len(s) = response.payload_length
      BY <2>1 DEF AnswerTo
    <2>3. PICK at \in Nat : at = StateByteAt[request.command]
      BY StateBytes
    <2>4. Len(s) = at
      BY <2>1, <2>2, <2>3 DEF AnswerTo, StickPayload
    <2>5. Total(data) = s[at] % 64
      BY <2>2, <2>3, <2>4 DEF FunctionsInv, Returned
    <2> QED
      BY <2>2, <2>4, <2>5 DEF Last
  <1> QED
    BY <1>1, Inductive, PTL

(* A getter or setter that returns 0 has done what it is for: the value in *)
(* the stick is the one the caller got or gave.  This holds even when the  *)
(* line cuts answers in two, if the stick holds no parameter in more than  *)
(* one byte over the library's width: then no part of an answer that       *)
(* checks out has the right length.                                        *)
THEOREM ZeroIsDone ==
    ASSUME "split" \notin Damages \/ Narrow
    PROVE  Spec => []ZeroMeansDone
  <1>1. FunctionsInv => ZeroMeansDone
    <2> SUFFICES ASSUME FunctionsInv, stage = "returned", returned = 0
                 PROVE  /\ request.command = COMMAND_READ_PARAMETER =>
                               data = stored[request.payload[1]]
                        /\ request.command = COMMAND_WRITE_PARAMETER =>
                               /\ status = STATUS_SUCCESS
                               /\ stored[request.payload[1]] = Tail(request.payload)
      BY DEF ZeroMeansDone
    <2>1. AnswerTo(response) /\ Returned /\ Request(request)
      BY DEF FunctionsInv, Arrived, Asked
    <2>2. ~damaged => response.status = status /\ StickPayload(response.payload)
      BY <2>1 DEF AnswerTo
    <2>3. damaged => Harmless(response)
      BY <2>1 DEF AnswerTo
    <2>4. ASSUME request.command = COMMAND_READ_PARAMETER
          PROVE  data = stored[request.payload[1]]
      <3>1. /\ HasStatus(response, STATUS_SUCCESS)
            /\ HasValue(response, Width[Parameter]) /\ data = ValueOf(response)
        BY <2>1, <2>4 DEF Returned, Asks
      <3>2. ~damaged
        <4>1. PICK n \in Nat : n = response.payload_length
          BY <2>1, LenProperties DEF AnswerTo
        <4>2. PICK w \in Nat : w = Width[Parameter]
          BY <2>1, <2>4, Constants DEF Request, Parameter
        <4>3. n = 3 + w
          BY <3>1, <4>1, <4>2 DEF HasValue
        <4> QED
          BY <2>3, <2>4, <3>1, <4>1, <4>2, <4>3 DEF Harmless, Asks
      <3>3. status = STATUS_SUCCESS
        BY <2>2, <3>1, <3>2 DEF HasStatus
      <3>4. SubSeq(response.payload, 4, Len(response.payload)) = stored[Parameter]
        BY <2>2, <2>4, <3>2, <3>3 DEF StickPayload, Asks
      <3>5. Len(response.payload) = response.payload_length
        BY <2>1 DEF AnswerTo
      <3> QED
        BY <3>1, <3>4, <3>5 DEF ValueOf, Parameter
    <2>5. ASSUME request.command = COMMAND_WRITE_PARAMETER
          PROVE  /\ status = STATUS_SUCCESS
                 /\ stored[request.payload[1]] = Tail(request.payload)
      <3>1. HasStatus(response, STATUS_SUCCESS)
        BY <2>1, <2>5 DEF Returned, Asks
      <3>2. CASE damaged
        BY <2>3, <2>5, <3>1, <3>2 DEF Harmless, Asks, Parameter
      <3>3. CASE ~damaged
        BY <2>2, <2>5, <3>1, <3>3 DEF HasStatus, StickPayload, Asks, Parameter
      <3> QED
        BY <3>2, <3>3
    <2> QED
      BY <2>4, <2>5
  <1> QED
    BY <1>1, Inductive, PTL
=============================================================================
