---------------------------- MODULE Ldap_proofs ----------------------------
(***************************************************************************)
(* The encoder and the decoder of the LDAP client, for every number, name   *)
(* and buffer, and what a client makes of the answers it hears, after one   *)
(* bind() and after several.  The encoder, the decoder and the listeners    *)
(* are recursive functions: that there is a function as the definition says *)
(* is proved first, by the least number up to which there were none; then   *)
(* what it computes, by the least number for which it would compute another *)
(* thing.                                                                  *)
(***************************************************************************)
EXTENDS Db2Module, FiniteSetTheorems, SequenceTheorems, WellFoundedInduction,
        TLAPS

\* A set of numbers that is not empty has a least one.
LEMMA LeastNumber ==
  ASSUME NEW S \in SUBSET Nat, S # {}
  PROVE  \E m \in S : \A n \in S : m <= n
<1> DEFINE R == {q \in Nat \X Nat : q[1] < q[2]}
<1>1. IsWellFoundedOn(R, Nat)
  BY NatLessThanWellFounded DEF OpToRel
<1> HIDE DEF R
<1>2. PICK m \in S : \A n \in S : <<n, m>> \notin R
  BY <1>1, WFMin, Zenon
<1>3. ASSUME NEW n \in S PROVE m <= n
  <2>1. m \in Nat /\ n \in Nat
    OBVIOUS
  <2>2. n < m => <<n, m>> \in R
    BY <2>1 DEF R
  <2>3. ~(n < m)
    BY <1>2, <2>2
  <2> QED
    BY <2>1, <2>3
<1> QED
  BY <1>3

\* A sequence is one of length m with one of length n behind it.
IsConcat(q, s, t, m, n) ==
  /\ Len(q) = m + n
  /\ \A i \in 1..m : q[i] = s[i]
  /\ \A i \in 1..n : q[m + i] = t[i]

\* What the concatenation of two sequences is.
LEMMA ConcatIs ==
  ASSUME NEW S, NEW s \in Seq(S), NEW t \in Seq(S), NEW m, NEW n,
         Len(s) = m, Len(t) = n
  PROVE  IsConcat(s \o t, s, t, m, n) /\ s \o t \in Seq(S)
<1>1. m \in Nat /\ n \in Nat
  BY LenProperties
<1>2. s \o t \in Seq(S) /\ Len(s \o t) = m + n
  BY ConcatProperties
<1>3. \A i \in 1..m : (s \o t)[i] = s[i]
  BY <1>1
<1>4. \A i \in 1..n : (s \o t)[m + i] = t[i]
  BY <1>1
<1> QED
  BY Zenon, <1>2, <1>3, <1>4 DEF IsConcat

-----------------------------------------------------------------------------
(* The bytes of a number                                                   *)

\* Division by 256, and what is left.
LEMMA Divided ==
  ASSUME NEW n \in Nat, n # 0
  PROVE  /\ n \div 256 \in Nat /\ n \div 256 < n
         /\ n % 256 \in Byte
         /\ n = (n \div 256) * 256 + (n % 256)
<1>1. n \div 256 \in Nat /\ n \div 256 < n
  OBVIOUS
<1>2. n % 256 \in 0..255
  OBVIOUS
<1>3. n = (n \div 256) * 256 + (n % 256)
  OBVIOUS
<1> QED
  BY <1>1, <1>2, <1>3 DEF Byte

\* A function is Bytes for the numbers up to N.
BytesUpTo(f, N) ==
  f = [n \in 0..N |-> IF n = 0 THEN <<>> ELSE Append(f[n \div 256], n % 256)]

\* What it is at one number.
LEMMA BytesUpToAt ==
  ASSUME NEW N, NEW f, BytesUpTo(f, N), NEW n \in 0..N
  PROVE  /\ n = 0 => f[n] = <<>>
         /\ n # 0 => f[n] = Append(f[n \div 256], n % 256)
BY Zenon DEF BytesUpTo

\* There is such a function for every N.
LEMMA BytesUpToExists ==
  ASSUME NEW N \in Nat PROVE \E f : BytesUpTo(f, N)
<1> DEFINE Bad == {k \in Nat : ~\E f : BytesUpTo(f, k)}
<1> SUFFICES ASSUME N \in Bad PROVE FALSE
  OBVIOUS
<1>1. PICK k \in Bad : \A n \in Bad : k <= n
  <2>1. Bad \in SUBSET Nat /\ Bad # {}
    OBVIOUS
  <2> HIDE DEF Bad
  <2> QED
    BY Zenon, <2>1, LeastNumber
<1>2. k \in Nat /\ ~\E f : BytesUpTo(f, k)
  OBVIOUS
<1>3. CASE k = 0
  <2> DEFINE f == [n \in 0..0 |-> <<>>]
  <2>1. f = [n \in 0..0 |-> IF n = 0 THEN <<>> ELSE Append(f[n \div 256], n % 256)]
    <3>1. \A n \in 0..0 : n = 0
      OBVIOUS
    <3> QED
      BY Zenon, <3>1
  <2> HIDE DEF f
  <2>2. BytesUpTo(f, 0)
    BY Zenon, <2>1 DEF BytesUpTo
  <2> QED
    BY Zenon, <1>2, <1>3, <2>2
<1>4. CASE k # 0
  <2>1. k - 1 \in Nat /\ ~(k <= k - 1)
    BY <1>2, <1>4
  <2>2. PICK f : BytesUpTo(f, k - 1)
    BY <1>1, <2>1
  <2> DEFINE g == [n \in 0..k |-> IF n = k THEN Append(f[k \div 256], k % 256) ELSE f[n]]
  <2>3. ASSUME NEW n \in 0..k
        PROVE  g[n] = IF n = 0 THEN <<>> ELSE Append(g[n \div 256], n % 256)
    <3>1. n # 0 => n \div 256 \in 0..k /\ n \div 256 # k
      <4>1. n \in Nat /\ n <= k
        BY <1>2
      <4>2. n # 0 => n \div 256 \in Nat /\ n \div 256 < n
        BY <4>1, Divided
      <4> QED
        BY <1>2, <4>1, <4>2
    <3>2. n # 0 => g[n \div 256] = f[n \div 256]
      BY Zenon, <3>1
    <3>3. CASE n = k
      <4>1. g[n] = Append(f[k \div 256], k % 256)
        BY Zenon, <3>3
      <4> HIDE DEF g
      <4> QED
        BY Zenon, <1>4, <3>2, <3>3, <4>1
    <3>4. CASE n # k
      <4>1. n \in 0..(k - 1)
        BY <1>2, <3>4
      <4>2. /\ n = 0 => f[n] = <<>>
            /\ n # 0 => f[n] = Append(f[n \div 256], n % 256)
        BY <2>2, <4>1, BytesUpToAt
      <4>3. g[n] = f[n]
        BY Zenon, <3>4
      <4> HIDE DEF g
      <4> QED
        BY Zenon, <3>2, <4>2, <4>3
    <3> QED
      BY <3>3, <3>4
  <2>4. g = [n \in 0..k |-> g[n]]
    OBVIOUS
  <2> HIDE DEF g
  <2>5. BytesUpTo(g, k)
    BY ZenonT(60), <2>3, <2>4 DEF BytesUpTo
  <2> QED
    BY Zenon, <1>2, <2>5
<1> QED
  BY <1>3, <1>4

\* Two such functions agree where both are defined.
LEMMA BytesUpToAgree ==
  ASSUME NEW N \in Nat, NEW M \in Nat, NEW f, NEW g,
         BytesUpTo(f, N), BytesUpTo(g, M)
  PROVE  \A n \in Nat : n <= N /\ n <= M => f[n] = g[n]
<1> DEFINE Bad == {n \in Nat : n <= N /\ n <= M /\ f[n] # g[n]}
<1> SUFFICES ASSUME Bad # {} PROVE FALSE
  OBVIOUS
<1>1. PICK k \in Bad : \A n \in Bad : k <= n
  <2>1. Bad \in SUBSET Nat
    OBVIOUS
  <2> HIDE DEF Bad
  <2> QED
    BY Zenon, <2>1, LeastNumber
<1>2. k \in Nat /\ k \in 0..N /\ k \in 0..M /\ f[k] # g[k]
  OBVIOUS
<1>3. /\ k = 0 => f[k] = <<>>
      /\ k # 0 => f[k] = Append(f[k \div 256], k % 256)
      /\ k = 0 => g[k] = <<>>
      /\ k # 0 => g[k] = Append(g[k \div 256], k % 256)
  <2> HIDE DEF Bad
  <2> QED
    BY <1>2, BytesUpToAt
<1>4. k # 0
  BY Zenon, <1>2, <1>3
<1>5. k \div 256 \in Nat /\ k \div 256 < k
  BY <1>2, <1>4, Divided
<1>6. f[k \div 256] = g[k \div 256]
  BY <1>1, <1>2, <1>5
<1> QED
  BY ZenonT(60), <1>2, <1>3, <1>4, <1>6

\* Bytes is what its definition says.
LEMMA BytesEquation ==
  \A n \in Nat : Bytes[n] = IF n = 0 THEN <<>> ELSE Append(Bytes[n \div 256], n % 256)
<1> DEFINE upTo(n) == CHOOSE f : BytesUpTo(f, n)
           all == [n \in Nat |-> upTo(n)[n]]
<1>1. \A n \in Nat : BytesUpTo(upTo(n), n)
  BY Zenon, BytesUpToExists
<1>2. ASSUME NEW n \in Nat
      PROVE  all[n] = IF n = 0 THEN <<>> ELSE Append(all[n \div 256], n % 256)
  <2>1. n \in 0..n
    OBVIOUS
  <2>2. BytesUpTo(upTo(n), n)
    BY Zenon, <1>1
  <2>3. all[n] = upTo(n)[n]
    BY Zenon
  <2>4. /\ n = 0 => upTo(n)[n] = <<>>
        /\ n # 0 => upTo(n)[n] = Append(upTo(n)[n \div 256], n % 256)
    <3> HIDE DEF upTo
    <3> QED
      BY <2>1, <2>2, BytesUpToAt
  <2>5. ASSUME n # 0 PROVE upTo(n)[n \div 256] = all[n \div 256]
    <3>1. n \div 256 \in Nat /\ n \div 256 <= n /\ n \div 256 <= n \div 256
      BY <2>5, Divided
    <3>2. PICK m \in Nat : m = n \div 256
      BY <3>1
    <3>3. BytesUpTo(upTo(m), m)
      BY Zenon, <1>1
    <3>4. all[m] = upTo(m)[m]
      BY Zenon
    <3> HIDE DEF upTo, all
    <3>5. upTo(n)[m] = upTo(m)[m]
      BY <2>2, <3>1, <3>2, <3>3, BytesUpToAgree
    <3> QED
      BY Zenon, <3>2, <3>4, <3>5
  <2> HIDE DEF upTo, all
  <2> QED
    BY Zenon, <2>3, <2>4, <2>5
<1>3. all = [n \in Nat |-> all[n]]
  OBVIOUS
<1> HIDE DEF all
<1>4. all = [n \in Nat |-> IF n = 0 THEN <<>> ELSE Append(all[n \div 256], n % 256)]
  BY ZenonT(60), <1>2, <1>3
<1>5. Bytes = [n \in Nat |-> IF n = 0 THEN <<>> ELSE Append(Bytes[n \div 256], n % 256)]
  BY ZenonT(60), <1>4 DEF Bytes
<1> QED
  BY Zenon, <1>5

\* The bytes of a number are bytes, and there are some unless it is zero.
LEMMA BytesTyped ==
  ASSUME NEW n \in Nat
  PROVE  Bytes[n] \in Seq(Byte) /\ (n # 0 => Len(Bytes[n]) > 0)
<1> DEFINE Bad == {k \in Nat : ~ Bytes[k] \in Seq(Byte)}
<1>1. Bad = {}
  <2> SUFFICES ASSUME Bad # {} PROVE FALSE
    OBVIOUS
  <2>1. PICK k \in Bad : \A m \in Bad : k <= m
    <3>1. Bad \in SUBSET Nat
      OBVIOUS
    <3> HIDE DEF Bad
    <3> QED
      BY Zenon, <3>1, LeastNumber
  <2>2. k \in Nat /\ Bytes[k] \notin Seq(Byte)
    OBVIOUS
  <2>3. k # 0
    <3>1. <<>> \in Seq(Byte)
      OBVIOUS
    <3> QED
      BY Zenon, <2>2, <3>1, BytesEquation
  <2>4. k \div 256 \in Nat /\ k \div 256 < k /\ k % 256 \in Byte
    BY <2>2, <2>3, Divided
  <2>5. Bytes[k \div 256] \in Seq(Byte)
    BY <2>1, <2>2, <2>4
  <2>6. Bytes[k] = Append(Bytes[k \div 256], k % 256)
    BY Zenon, <2>2, <2>3, BytesEquation
  <2>7. Append(Bytes[k \div 256], k % 256) \in Seq(Byte)
    BY <2>4, <2>5, AppendProperties
  <2> QED
    BY Zenon, <2>2, <2>6, <2>7
<1>2. Bytes[n] \in Seq(Byte)
  BY <1>1
<1>3. ASSUME n # 0 PROVE Len(Bytes[n]) > 0
  <2>1. n \div 256 \in Nat /\ n % 256 \in Byte
    BY <1>3, Divided
  <2>2. Bytes[n \div 256] \in Seq(Byte)
    BY <1>1, <2>1
  <2>3. Bytes[n] = Append(Bytes[n \div 256], n % 256)
    BY Zenon, <1>3, BytesEquation
  <2> QED
    BY <2>1, <2>2, <2>3, AppendProperties, LenProperties
<1> QED
  BY <1>2, <1>3

-----------------------------------------------------------------------------
(* The decoder                                                             *)

\* A function is the length read from a buffer, for its first N bytes of length.
ReadUpTo(f, buffer, N) ==
  f = [i \in 0..N |-> IF i = 0 THEN 0 ELSE ByteLeft(f[i - 1]) + buffer[i + 1]]

\* What it is at one place.
LEMMA ReadUpToAt ==
  ASSUME NEW N, NEW buffer, NEW f, ReadUpTo(f, buffer, N), NEW i \in 0..N
  PROVE  /\ i = 0 => f[i] = 0
         /\ i # 0 => f[i] = ByteLeft(f[i - 1]) + buffer[i + 1]
BY Zenon DEF ReadUpTo

\* The largest number of 32 bits, of which the first is its sign.
Most == 2147483647

\* A shift is a multiplication as long as the product fits, and leaves an integer.
LEMMA ByteLeftIs ==
  ASSUME NEW n \in Int
  PROVE  /\ ByteLeft(n) \in Int
         /\ 0 <= n /\ n * 256 <= Most => ByteLeft(n) = n * 256
<1>1. PICK low \in Nat : low = n % 16777216
  OBVIOUS
<1>2. low < 16777216 /\ (0 <= n /\ n * 256 <= Most => low = n /\ low < 8388608)
  BY <1>1 DEF Most
<1>3. ByteLeft(n) = 256 * (IF low < 8388608 THEN low ELSE low - 16777216)
  BY <1>1 DEF ByteLeft
<1>4. CASE low < 8388608
  <2>1. ByteLeft(n) = 256 * low
    BY <1>3, <1>4
  <2> QED
    BY <1>2, <2>1
<1>5. CASE ~(low < 8388608)
  <2>1. ByteLeft(n) = 256 * (low - 16777216)
    BY <1>3, <1>5
  <2> QED
    BY <1>2, <1>5, <2>1
<1> QED
  BY <1>4, <1>5

\* There is such a function for every N.
LEMMA ReadUpToExists ==
  ASSUME NEW buffer, NEW N \in Nat PROVE \E f : ReadUpTo(f, buffer, N)
<1> DEFINE Bad == {k \in Nat : ~\E f : ReadUpTo(f, buffer, k)}
<1> SUFFICES ASSUME N \in Bad PROVE FALSE
  OBVIOUS
<1>1. PICK k \in Bad : \A n \in Bad : k <= n
  <2>1. Bad \in SUBSET Nat /\ Bad # {}
    OBVIOUS
  <2> HIDE DEF Bad
  <2> QED
    BY Zenon, <2>1, LeastNumber
<1>2. k \in Nat /\ ~\E f : ReadUpTo(f, buffer, k)
  OBVIOUS
<1>3. CASE k = 0
  <2> DEFINE f == [i \in 0..0 |-> 0]
  <2>1. f = [i \in 0..0 |-> IF i = 0 THEN 0 ELSE ByteLeft(f[i - 1]) + buffer[i + 1]]
    <3>1. \A i \in 0..0 : i = 0
      OBVIOUS
    <3> QED
      BY Zenon, <3>1
  <2> HIDE DEF f
  <2>2. ReadUpTo(f, buffer, 0)
    BY Zenon, <2>1 DEF ReadUpTo
  <2> QED
    BY Zenon, <1>2, <1>3, <2>2
<1>4. CASE k # 0
  <2>1. k - 1 \in Nat /\ ~(k <= k - 1)
    BY <1>2, <1>4
  <2>2. PICK f : ReadUpTo(f, buffer, k - 1)
    BY <1>1, <2>1
  <2> DEFINE g == [i \in 0..k |-> IF i = k THEN ByteLeft(f[k - 1]) + buffer[k + 1] ELSE f[i]]
  <2>3. ASSUME NEW i \in 0..k
        PROVE  g[i] = IF i = 0 THEN 0 ELSE ByteLeft(g[i - 1]) + buffer[i + 1]
    <3>1. i # 0 => i - 1 \in 0..k /\ i - 1 # k
      BY <1>2
    <3>2. i # 0 => g[i - 1] = f[i - 1]
      BY Zenon, <3>1
    <3>3. CASE i = k
      <4>1. g[i] = ByteLeft(f[k - 1]) + buffer[k + 1]
        BY Zenon, <3>3
      <4> HIDE DEF g
      <4> QED
        BY Zenon, <1>4, <3>2, <3>3, <4>1
    <3>4. CASE i # k
      <4>1. i \in 0..(k - 1)
        BY <1>2, <3>4
      <4>2. /\ i = 0 => f[i] = 0
            /\ i # 0 => f[i] = ByteLeft(f[i - 1]) + buffer[i + 1]
        BY <2>2, <4>1, ReadUpToAt
      <4>3. g[i] = f[i]
        BY Zenon, <3>4
      <4> HIDE DEF g
      <4> QED
        BY Zenon, <3>2, <4>2, <4>3
    <3> QED
      BY <3>3, <3>4
  <2>4. g = [i \in 0..k |-> g[i]]
    OBVIOUS
  <2> HIDE DEF g
  <2>5. ReadUpTo(g, buffer, k)
    BY Zenon, <2>3, <2>4 DEF ReadUpTo
  <2> QED
    BY Zenon, <1>2, <2>5
<1> QED
  BY <1>3, <1>4

\* The decoder in the long form.
LEMMA DecodeLong ==
  ASSUME NEW buffer, ~(buffer[1] < 128), buffer[1] - 128 \in Nat
  PROVE  \E f : /\ ReadUpTo(f, buffer, buffer[1] - 128)
                /\ DecodeLength(buffer) = f[buffer[1] - 128]
<1> DEFINE N == buffer[1] - 128
           read == CHOOSE f : ReadUpTo(f, buffer, N)
<1>1. ReadUpTo(read, buffer, N)
  BY Zenon, ReadUpToExists
<1>2. DecodeLength(buffer) = read[N]
  BY Zenon DEF DecodeLength, ReadUpTo
<1> HIDE DEF read
<1> QED
  BY <1>1, <1>2

\* The bytes of a number, read from a buffer they stand in, make that number.
LEMMA BytesReadBack ==
  ASSUME NEW n \in Nat, n <= Most, NEW buffer, NEW N \in Nat, NEW f,
         ReadUpTo(f, buffer, N), Len(Bytes[n]) <= N,
         \A i \in 1..Len(Bytes[n]) : buffer[i + 1] = Bytes[n][i]
  PROVE  f[Len(Bytes[n])] = n
<1> DEFINE Same(k) == /\ Len(Bytes[k]) <= N
                      /\ \A i \in 1..Len(Bytes[k]) : buffer[i + 1] = Bytes[k][i]
           Bad == {k \in Nat : k <= Most /\ Same(k) /\ f[Len(Bytes[k])] # k}
<1> SUFFICES ASSUME n \in Bad PROVE FALSE
  OBVIOUS
<1>1. PICK k \in Bad : \A m \in Bad : k <= m
  <2>1. Bad \in SUBSET Nat /\ Bad # {}
    OBVIOUS
  <2> HIDE DEF Bad
  <2> QED
    BY Zenon, <2>1, LeastNumber
<1>2. k \in Nat /\ k <= Most /\ Same(k) /\ f[Len(Bytes[k])] # k
  OBVIOUS
<1>3. k # 0
  <2> SUFFICES ASSUME k = 0 PROVE FALSE
    OBVIOUS
  <2>1. Bytes[k] = <<>>
    BY Zenon, <1>2, BytesEquation
  <2>2. Len(Bytes[k]) = 0 /\ 0 \in 0..N
    BY <2>1
  <2>3. f[0] = 0
    BY <2>2, ReadUpToAt
  <2> QED
    BY <1>2, <2>2, <2>3
<1> DEFINE q == k \div 256
           r == k % 256
<1>4. q \in Nat /\ q < k /\ r \in Byte /\ k = q * 256 + r
  BY <1>2, <1>3, Divided
<1>40. 0 <= q /\ q * 256 <= Most /\ q <= Most
  <2> HIDE DEF q, r
  <2>1. r \in Nat
    BY <1>4 DEF Byte
  <2>2. q \in Nat /\ k \in Nat /\ k <= Most /\ k = q * 256 + r
    BY Zenon, <1>2, <1>4
  <2>3. 0 <= q /\ q <= k /\ q * 256 <= k
    BY ONLY SMT, <2>1, <2>2
  <2> QED
    BY ONLY SMT, <2>2, <2>3 DEF Most
<1>5. Bytes[k] = Append(Bytes[q], r)
  BY Zenon, <1>2, <1>3, BytesEquation
<1>6. Bytes[q] \in Seq(Byte)
  BY <1>4, BytesTyped
<1> HIDE DEF q, r
<1>7. PICK l \in Nat : l = Len(Bytes[q])
  BY <1>6, LenProperties
<1>8. /\ Len(Bytes[k]) = l + 1 /\ Bytes[k][l + 1] = r
      /\ \A i \in 1..l : Bytes[k][i] = Bytes[q][i]
  BY <1>4, <1>5, <1>6, <1>7, AppendProperties
<1>9. Same(q)
  <2>1. l <= N /\ \A i \in 1..l : i \in 1..(l + 1)
    BY <1>2, <1>7, <1>8
  <2>2. \A i \in 1..l : buffer[i + 1] = Bytes[q][i]
    BY <1>2, <1>8, <2>1
  <2> QED
    BY Zenon, <1>7, <2>1, <2>2
<1>10. f[l] = q
  <2>1. q \notin Bad
    <3> HIDE DEF Bad
    <3>1. ~(k <= q)
      BY <1>2, <1>4
    <3> QED
      BY <1>1, <3>1
  <2> QED
    BY <1>4, <1>40, <1>7, <1>9, <2>1
<1>11. buffer[(l + 1) + 1] = r
  <2>1. l + 1 \in 1..(l + 1)
    BY <1>7
  <2> QED
    BY <1>2, <1>8, <2>1
<1>12. f[l + 1] = ByteLeft(f[(l + 1) - 1]) + buffer[(l + 1) + 1]
  <2>1. l + 1 \in 0..N /\ l + 1 # 0
    BY <1>2, <1>7, <1>8
  <2> QED
    BY <2>1, ReadUpToAt
<1>13. (l + 1) - 1 = l
  BY <1>7
<1>14. f[l + 1] = k
  <2>1. f[l + 1] = ByteLeft(f[l]) + r
    BY Zenon, <1>11, <1>12, <1>13
  <2>2. ByteLeft(f[l]) = q * 256
    BY <1>4, <1>40, <1>10, ByteLeftIs
  <2> QED
    BY <1>4, <2>1, <2>2
<1> QED
  BY <1>2, <1>8, <1>14

\* What is read of bytes that have all come is an integer.
LEMMA DecodeTyped ==
  ASSUME NEW buffer \in Seq(Byte), Len(buffer) > 0, HasLength(buffer)
  PROVE  DecodeLength(buffer) \in Int
<1>1. Len(buffer) \in Nat /\ \A i \in 1..Len(buffer) : buffer[i] \in Byte
  BY LenProperties, ElementOfSeq
<1>2. PICK first \in 0..255 : buffer[1] = first
  <2>1. buffer[1] \in Byte
    BY <1>1
  <2> QED
    BY <2>1 DEF Byte
<1>3. CASE buffer[1] < 128
  <2>1. DecodeLength(buffer) = first
    BY Zenon, <1>2, <1>3 DEF DecodeLength
  <2> QED
    BY <2>1
<1>4. CASE ~(buffer[1] < 128)
  <2>0. ~(first < 128)
    BY Zenon, <1>2, <1>4
  <2>00. PICK N \in Nat : N = first - 128
    BY <2>0
  <2>1. N = buffer[1] - 128
    BY Zenon, <1>2, <2>00
  <2>3. DecodeLength(buffer) \in Int
    <3>1. Len(buffer) > N
      BY Zenon, <1>4, <2>1 DEF HasLength
    <3>2. PICK f : ReadUpTo(f, buffer, N) /\ DecodeLength(buffer) = f[N]
      BY <1>1, <1>4, <2>1, <3>1, DecodeLong
    <3> DEFINE Bad == {i \in 0..N : f[i] \notin Int}
    <3>3. Bad = {}
      <4> SUFFICES ASSUME Bad # {} PROVE FALSE
        OBVIOUS
      <4>1. PICK k \in Bad : \A m \in Bad : k <= m
        <5>1. Bad \in SUBSET Nat
          OBVIOUS
        <5> HIDE DEF Bad
        <5> QED
          BY Zenon, <5>1, LeastNumber
      <4>2. k \in 0..N /\ f[k] \notin Int
        OBVIOUS
      <4>3. k # 0
        BY <3>2, <4>2, ReadUpToAt
      <4>4. k - 1 \in 0..N /\ ~(k <= k - 1) /\ k + 1 \in 1..Len(buffer)
        BY <1>1, <3>1, <4>2, <4>3
      <4>5. f[k - 1] \in Int
        BY <4>1, <4>4
      <4>6. buffer[k + 1] \in Nat
        <5>1. buffer[k + 1] \in Byte
          BY <1>1, <4>4
        <5>2. Byte \subseteq Nat
          BY DEF Byte
        <5> QED
          BY Zenon, <5>1, <5>2
      <4>7. f[k] = ByteLeft(f[k - 1]) + buffer[k + 1]
        BY <3>2, <4>2, <4>3, ReadUpToAt
      <4>8. ByteLeft(f[k - 1]) \in Int
        BY <4>5, ByteLeftIs
      <4> QED
        BY <4>2, <4>6, <4>7, <4>8
    <3>4. f[N] \in Int
      BY <3>3
    <3> QED
      BY <3>2, <3>4
  <2> QED
    BY <2>3
<1> QED
  BY <1>3, <1>4

-----------------------------------------------------------------------------
(* What is encoded                                                         *)

\* The bytes of a length are as many as the decoder takes for it, and are numbers.
LEMMA EncodedLength ==
  ASSUME NEW n \in Nat
  PROVE  /\ EncodeLength(n) \in Seq(Nat)
         /\ Len(EncodeLength(n)) = LengthOfLength(n) /\ LengthOfLength(n) \in Nat \ {0}
<1>1. CASE n < 128
  <2>1. EncodeLength(n) = <<n>> /\ LengthOfLength(n) = 1
    BY <1>1 DEF EncodeLength, LengthOfLength
  <2> QED
    BY <2>1
<1>2. CASE ~(n < 128)
  <2> DEFINE b == Bytes[n]
  <2>1. EncodeLength(n) = <<128 + Len(b)>> \o b /\ LengthOfLength(n) = 1 + Len(b)
    BY <1>2 DEF EncodeLength, LengthOfLength
  <2>2. b \in Seq(Byte)
    BY BytesTyped
  <2> HIDE DEF b
  <2>3. b \in Seq(Nat) /\ Len(b) \in Nat
    <3>1. Byte \subseteq Nat
      BY DEF Byte
    <3> QED
      BY Zenon, <2>2, <3>1, SeqMonotonic, LenProperties
  <2>4. <<128 + Len(b)>> \in Seq(Nat) /\ Len(<<128 + Len(b)>>) = 1
    BY <2>3
  <2> QED
    BY <2>1, <2>3, <2>4, ConcatProperties
<1> QED
  BY <1>1, <1>2

\* A number of less than 32 bits has no more than four bytes.
LEMMA FewBytes ==
  ASSUME NEW n \in Nat, n <= Most
  PROVE  Len(Bytes[n]) <= 4 /\ Len(EncodeLength(n)) <= 5
<1>1. \A m \in Nat : /\ Bytes[m] \in Seq(Byte) /\ Len(Bytes[m]) \in Nat
                     /\ m = 0 => Len(Bytes[m]) = 0
                     /\ m # 0 => Len(Bytes[m]) = Len(Bytes[m \div 256]) + 1
  <2> TAKE m \in Nat
  <2>1. Bytes[m] \in Seq(Byte)
    BY BytesTyped
  <2>2. CASE m = 0
    <3>1. Bytes[m] = <<>>
      BY Zenon, <2>2, BytesEquation
    <3> QED
      BY <2>1, <2>2, <3>1
  <2>3. CASE m # 0
    <3>1. Bytes[m] = Append(Bytes[m \div 256], m % 256)
      BY Zenon, <2>3, BytesEquation
    <3>2. m \div 256 \in Nat /\ m % 256 \in Byte
      BY <2>3, Divided
    <3>3. Bytes[m \div 256] \in Seq(Byte)
      BY <3>2, BytesTyped
    <3> QED
      BY <2>1, <2>3, <3>1, <3>2, <3>3, AppendProperties, LenProperties
  <2> QED
    BY <2>2, <2>3
<1>2. n \in Nat
  OBVIOUS
<1>3. PICK a \in Nat : a = n \div 256
  OBVIOUS
<1>4. PICK b \in Nat : b = a \div 256
  OBVIOUS
<1>5. PICK c \in Nat : c = b \div 256
  OBVIOUS
<1>6. c \div 256 = 0
  BY <1>3, <1>4, <1>5 DEF Most
<1>7. Len(Bytes[c]) <= 1
  <2>1. c \in Nat /\ 0 \in Nat
    OBVIOUS
  <2>2. Len(Bytes[c \div 256]) = 0
    BY ZenonT(60), <1>1, <1>6, <2>1
  <2> QED
    BY <1>1, <2>1, <2>2
<1>8. Len(Bytes[b]) <= 2
  <2>1. b \in Nat /\ c \in Nat
    OBVIOUS
  <2>2. /\ Len(Bytes[b]) \in Nat /\ Len(Bytes[c]) \in Nat
        /\ b = 0 => Len(Bytes[b]) = 0
        /\ b # 0 => Len(Bytes[b]) = Len(Bytes[c]) + 1
    BY ZenonT(60), <1>1, <1>2, <1>5, <2>1
  <2> QED
    BY ONLY <1>7, <2>2
<1>9. Len(Bytes[a]) <= 3
  <2>1. a \in Nat /\ b \in Nat
    OBVIOUS
  <2>2. /\ Len(Bytes[a]) \in Nat /\ Len(Bytes[b]) \in Nat
        /\ a = 0 => Len(Bytes[a]) = 0
        /\ a # 0 => Len(Bytes[a]) = Len(Bytes[b]) + 1
    BY ZenonT(60), <1>1, <1>2, <1>4, <2>1
  <2> QED
    BY ONLY <1>8, <2>2
<1>10. Len(Bytes[n]) <= 4
  <2>1. a \in Nat
    OBVIOUS
  <2>2. /\ Len(Bytes[n]) \in Nat /\ Len(Bytes[a]) \in Nat
        /\ n = 0 => Len(Bytes[n]) = 0
        /\ n # 0 => Len(Bytes[n]) = Len(Bytes[a]) + 1
    BY ZenonT(60), <1>1, <1>2, <1>3, <2>1
  <2> QED
    BY ONLY <1>9, <2>2
<1>11. Len(EncodeLength(n)) <= 5
  <2>1. Len(EncodeLength(n)) = LengthOfLength(n)
    BY Zenon, <1>2, EncodedLength
  <2> QED
    BY <1>1, <1>2, <1>10, <2>1 DEF LengthOfLength
<1> QED
  BY <1>10, <1>11

\* A length that is encoded is the length that is decoded, whatever follows.
LEMMA LengthReadsBack ==
  ASSUME NEW n \in Nat, n <= Most, NEW rest \in Seq(Nat)
  PROVE  /\ HasLength(EncodeLength(n) \o rest)
         /\ DecodeLength(EncodeLength(n) \o rest) = n
<1> DEFINE buffer == EncodeLength(n) \o rest
<1>0. EncodeLength(n) \in Seq(Nat)
  <2>1. n \in Nat
    OBVIOUS
  <2> QED
    BY Zenon, <2>1, EncodedLength
<1>1. CASE n < 128
  <2>1. EncodeLength(n) = <<n>>
    BY <1>1 DEF EncodeLength
  <2>2. buffer[1] = n
    BY <2>1
  <2> HIDE DEF buffer
  <2> QED
    BY <1>1, <2>2 DEF DecodeLength, HasLength, buffer
<1>2. CASE ~(n < 128)
  <2>1. Bytes[n] \in Seq(Byte) /\ Bytes[n] \in Seq(Nat)
    <3>1. Byte \subseteq Nat
      BY DEF Byte
    <3> QED
      BY Zenon, <3>1, SeqMonotonic, BytesTyped
  <2>2. PICK l \in Nat : l = Len(Bytes[n])
    BY <2>1, LenProperties
  <2> DEFINE head == <<128 + l>>
             b == Bytes[n]
  <2>3. EncodeLength(n) = head \o b
    BY <1>2, <2>2 DEF EncodeLength
  <2>4. head \in Seq(Nat) /\ Len(head) = 1 /\ head[1] = 128 + l
    BY <2>2
  <2> HIDE DEF head, b
  <2>5. b \in Seq(Nat) /\ Len(b) = l
    BY <2>1, <2>2 DEF b
  <2> DEFINE e == EncodeLength(n)
             r == Len(rest)
  <2>6. /\ Len(e) = 1 + l /\ e[1] = 128 + l
        /\ \A i \in 1..l : e[1 + i] = b[i]
    <3>1. /\ Len(head \o b) = 1 + l
          /\ \A i \in 1..1 : (head \o b)[i] = head[i]
          /\ \A i \in 1..l : (head \o b)[1 + i] = b[i]
      <4>1. IsConcat(head \o b, head, b, 1, l)
        BY Zenon, <2>4, <2>5, ConcatIs
      <4> QED
        BY Zenon, <4>1 DEF IsConcat
    <3>2. (head \o b)[1] = head[1]
      <4>1. 1 \in 1..1
        OBVIOUS
      <4> QED
        BY Zenon, <3>1, <4>1
    <3> QED
      BY Zenon, <2>3, <2>4, <3>1, <3>2
  <2>7. /\ buffer \in Seq(Nat) /\ Len(buffer) = 1 + l + r /\ r \in Nat
        /\ \A i \in 1..(1 + l) : buffer[i] = e[i]
    <3>1. r \in Nat
      BY LenProperties
    <3> HIDE DEF e
    <3>2. e \in Seq(Nat) /\ Len(e) = 1 + l
      BY Zenon, <1>0, <2>6 DEF e
    <3>3. /\ e \o rest \in Seq(Nat) /\ Len(e \o rest) = 1 + l + r
          /\ \A i \in 1..(1 + l) : (e \o rest)[i] = e[i]
      <4>1. IsConcat(e \o rest, e, rest, 1 + l, r) /\ e \o rest \in Seq(Nat)
        BY Zenon, <3>2, ConcatIs
      <4> QED
        BY Zenon, <4>1 DEF IsConcat
    <3> QED
      BY Zenon, <3>1, <3>3 DEF e
  <2>9. buffer[1] = 128 + l /\ \A i \in 1..l : buffer[i + 1] = b[i]
    <3> HIDE DEF e, buffer
    <3>1. 1 \in 1..(1 + l)
      OBVIOUS
    <3>2. ASSUME NEW i \in 1..l PROVE buffer[i + 1] = b[i]
      <4>1. i + 1 \in 1..(1 + l) /\ 1 + i = i + 1
        OBVIOUS
      <4> QED
        BY Zenon, <2>6, <2>7, <4>1
    <3> QED
      BY Zenon, <2>6, <2>7, <3>1, <3>2
  <2>10. Len(buffer) > l /\ Len(buffer) \in Nat
    <3> HIDE DEF e, buffer, r
    <3> QED
      BY <2>7
  <2> HIDE DEF buffer
  <2>11. PICK f : ReadUpTo(f, buffer, l) /\ DecodeLength(buffer) = f[l]
    <3>1. ~(buffer[1] < 128) /\ buffer[1] - 128 = l
      BY <2>9
    <3> QED
      BY <2>10, <3>1, DecodeLong
  <2>12. f[l] = n
    BY <2>2, <2>9, <2>11, BytesReadBack DEF b
  <2>13. HasLength(buffer)
    <3>1. Len(buffer) > buffer[1] - 128
      BY <2>9, <2>10
    <3> QED
      BY Zenon, <3>1 DEF HasLength
  <2> QED
    BY <2>11, <2>12, <2>13 DEF buffer
<1> QED
  BY <1>1, <1>2

\* What is made of contents reads back: its length is that of the contents, and it
\* is as long as the tag, the length and the contents.
LEMMA SequenceReadsBack ==
  ASSUME NEW contents \in Seq(Nat), Len(contents) <= Most
  PROVE  /\ EncodeSequence(contents) \in Seq(Nat)
         /\ HasLength(Tail(EncodeSequence(contents)))
         /\ DecodeLength(Tail(EncodeSequence(contents))) = Len(contents)
         /\ Len(EncodeSequence(contents)) = 1 + LengthOfLength(Len(contents)) + Len(contents)
<1> DEFINE n == Len(contents)
           e == EncodeLength(n)
<1>1. n \in Nat
  BY LenProperties
<1>2. e \in Seq(Nat) /\ Len(e) = LengthOfLength(n) /\ LengthOfLength(n) \in Nat \ {0}
  BY <1>1, EncodedLength
<1>3. EncodeSequence(contents) = (<<48>> \o e) \o contents
  BY DEF EncodeSequence
<1>4. HasLength(e \o contents) /\ DecodeLength(e \o contents) = n
  <2>1. n \in Nat /\ n <= Most
    BY <1>1
  <2> HIDE DEF n
  <2> QED
    BY Zenon, <2>1, LengthReadsBack
<1> HIDE DEF e
<1>5. (<<48>> \o e) \o contents = <<48>> \o (e \o contents)
  BY <1>2, ConcatAssociative
<1>6. e \o contents \in Seq(Nat) /\ Len(e \o contents) = Len(e) + n
  BY <1>2, ConcatProperties
<1> DEFINE rest == e \o contents
           all == <<48>> \o rest
<1>7. all \in Seq(Nat) /\ Tail(all) = rest /\ Len(all) = 1 + Len(rest)
  <2> HIDE DEF rest
  <2>1. rest \in Seq(Nat)
    BY Zenon, <1>6 DEF rest
  <2> QED
    BY <2>1
<1>8. EncodeSequence(contents) = all
  BY Zenon, <1>3, <1>5
<1>9. Len(all) = 1 + LengthOfLength(n) + n
  <2> HIDE DEF n, rest, all
  <2>1. Len(rest) = LengthOfLength(n) + n
    BY Zenon, <1>2, <1>6 DEF rest
  <2> QED
    BY <1>1, <1>2, <1>7, <2>1
<1>10. HasLength(Tail(all)) /\ DecodeLength(Tail(all)) = n
  <2> HIDE DEF all, n
  <2> QED
    BY Zenon, <1>4, <1>7
<1> HIDE DEF all, rest
<1> QED
  BY Zenon, <1>7, <1>8, <1>9, <1>10

\* A sequence of bytes and numbers behind another.
LEMMA Behind ==
  ASSUME NEW s \in Seq(Nat), NEW t \in Seq(Nat), NEW m \in Nat, NEW n \in Nat,
         Len(s) <= m, Len(t) <= n
  PROVE  s \o t \in Seq(Nat) /\ Len(s \o t) \in Nat /\ Len(s \o t) <= m + n
<1>1. Len(s) \in Nat /\ Len(t) \in Nat
  BY LenProperties
<1>2. s \o t \in Seq(Nat) /\ Len(s \o t) = Len(s) + Len(t)
  BY ConcatProperties
<1> QED
  BY <1>1, <1>2

\* The request: its outer length is that of its content, for every number and every name
\* a string can hold.
LEMMA BindRequestReadsBack ==
  ASSUME NEW messageID \in Nat, NEW version \in Nat, NEW name \in Seq(Nat),
         Len(name) + 200 <= Most,
         NEW authentication \in Seq(Nat), Len(authentication) <= 100, NEW request,
         request = EncodeBindRequest(messageID, version, name, authentication),
         NEW length, length = DecodeLength(Tail(request))
  PROVE  HasLength(Tail(request)) /\ Len(request) = 1 + LengthOfLength(length) + length
<1>1. ASSUME NEW value \in Nat
      PROVE  EncodeInteger(2, value) \in Seq(Nat) /\ Len(EncodeInteger(2, value)) <= 3
  <2>1. value % 256 \in Nat
    OBVIOUS
  <2> QED
    BY <2>1 DEF EncodeInteger
<1>2. EncodeString(4, name) \in Seq(Nat) /\ Len(EncodeString(4, name)) <= 6 + Len(name)
  <2>1. Len(name) \in Nat /\ Len(name) <= Most
    BY LenProperties DEF Most
  <2>2. EncodeLength(Len(name)) \in Seq(Nat) /\ Len(EncodeLength(Len(name))) <= 5
    BY Zenon, <2>1, EncodedLength, FewBytes
  <2>3. <<4>> \in Seq(Nat) /\ Len(<<4>>) <= 1
    OBVIOUS
  <2> DEFINE head == <<4>> \o EncodeLength(Len(name))
  <2>4. head \in Seq(Nat) /\ Len(head) <= 6
    BY <2>2, <2>3, Behind
  <2>5. EncodeString(4, name) = head \o name
    BY DEF EncodeString
  <2> HIDE DEF head
  <2>6. head \o name \in Seq(Nat) /\ Len(head \o name) = Len(head) + Len(name)
    BY <2>4, ConcatProperties
  <2>7. Len(head) \in Nat
    BY <2>4, LenProperties
  <2>8. Len(head \o name) <= 6 + Len(name)
    BY ONLY <2>1, <2>4, <2>6, <2>7
  <2> QED
    BY Zenon, <2>5, <2>6, <2>8
<1> DEFINE inner == EncodeInteger(2, version) \o EncodeString(4, name) \o authentication
           contents == EncodeInteger(2, messageID) \o EncodeSequence(inner)
<1>3. inner \in Seq(Nat) /\ Len(inner) \in Nat /\ Len(inner) <= 109 + Len(name)
  <2> DEFINE head == EncodeInteger(2, version) \o EncodeString(4, name)
  <2>1. head \in Seq(Nat) /\ Len(head) <= 9 + Len(name)
    <3>1. EncodeInteger(2, version) \in Seq(Nat) /\ Len(EncodeInteger(2, version)) <= 3
      BY Zenon, <1>1
    <3> QED
      BY <1>2, <3>1, Behind
  <2> HIDE DEF head
  <2>2. inner = head \o authentication
    BY DEF head
  <2> HIDE DEF inner
  <2> QED
    BY <2>1, <2>2, Behind
<1>4. request = EncodeSequence(contents)
  BY Zenon DEF EncodeBindRequest
<1> HIDE DEF inner
<1>5. EncodeSequence(inner) \in Seq(Nat) /\ Len(EncodeSequence(inner)) <= 115 + Len(name)
  <2>1. Len(inner) \in Nat /\ Len(inner) <= Most
    BY <1>3, LenProperties DEF Most
  <2>2. /\ EncodeSequence(inner) \in Seq(Nat)
        /\ Len(EncodeSequence(inner)) = 1 + LengthOfLength(Len(inner)) + Len(inner)
    BY Zenon, <1>3, <2>1, SequenceReadsBack
  <2>3. LengthOfLength(Len(inner)) \in Nat /\ LengthOfLength(Len(inner)) <= 5
    <3>1. Len(EncodeLength(Len(inner))) = LengthOfLength(Len(inner))
      BY Zenon, <1>3, EncodedLength
    <3>2. Len(EncodeLength(Len(inner))) <= 5
      BY Zenon, <2>1, FewBytes
    <3>3. LengthOfLength(Len(inner)) \in Nat
      BY <1>3, EncodedLength
    <3> QED
      BY <3>1, <3>2, <3>3
  <2> QED
    BY <1>3, <2>2, <2>3
<1>6. contents \in Seq(Nat) /\ Len(contents) <= Most
  <2>1. EncodeInteger(2, messageID) \in Seq(Nat) /\ Len(EncodeInteger(2, messageID)) <= 3
    BY Zenon, <1>1
  <2>2. contents \in Seq(Nat) /\ Len(contents) \in Nat /\ Len(contents) <= 118 + Len(name)
    BY <1>5, <2>1, Behind
  <2> HIDE DEF contents
  <2> QED
    BY <2>2, LenProperties DEF Most
<1> HIDE DEF contents
<1>7. HasLength(Tail(request)) /\ length = Len(contents)
  BY Zenon, <1>4, <1>6, SequenceReadsBack
<1>8. Len(request) = 1 + LengthOfLength(Len(contents)) + Len(contents)
  BY Zenon, <1>4, <1>6, SequenceReadsBack
<1> QED
  BY Zenon, <1>7, <1>8

-----------------------------------------------------------------------------
(* What is read of an answer                                               *)

\* Where the first byte 0x0A is.
FirstTen(s, at) ==
  /\ at \in 1..Len(s) /\ s[at] = 10
  /\ \A j \in 1..(at - 1) : s[j] # 10

\* The index is that of the first 0x0A, or there is none.
LEMMA IndexIs ==
  ASSUME NEW s \in Seq(Byte)
  PROVE  \/ IndexOfResult(s) = 0 /\ \A i \in 1..Len(s) : s[i] # 10
         \/ FirstTen(s, IndexOfResult(s))
<1> DEFINE tens == {i \in 1..Len(s) : s[i] = 10}
<1>1. IndexOfResult(s) = IF tens # {} THEN Min(tens) ELSE 0
  BY Zenon DEF IndexOfResult, SelectInSeq
<1>2. Len(s) \in Nat
  BY LenProperties
<1>3. CASE tens = {}
  <2>1. \A i \in 1..Len(s) : s[i] # 10
    BY <1>3
  <2> QED
    BY Zenon, <1>1, <1>3, <2>1
<1>4. CASE tens # {}
  <2>1. \E m \in tens : \A n \in tens : m <= n
    <3>1. tens \in SUBSET Nat
      BY <1>2
    <3> HIDE DEF tens
    <3> QED
      BY Zenon, <1>4, <3>1, LeastNumber
  <2> DEFINE at == Min(tens)
  <2>2. at \in tens /\ \A n \in tens : at <= n
    <3> HIDE DEF tens
    <3> QED
      BY Zenon, <2>1 DEF Min
  <2>3. IndexOfResult(s) = at
    BY Zenon, <1>1, <1>4
  <2> HIDE DEF at
  <2>4. at \in 1..Len(s) /\ s[at] = 10
    BY <2>2
  <2>5. ASSUME NEW j \in 1..(at - 1) PROVE s[j] # 10
    <3>1. j \in 1..Len(s) /\ ~(at <= j)
      BY <1>2, <2>4
    <3>2. j \notin tens
      <4> HIDE DEF tens
      <4> QED
        BY Zenon, <2>2, <3>1
    <3> QED
      BY <3>1, <3>2
  <2> QED
    BY Zenon, <2>3, <2>4, <2>5 DEF FirstTen
<1> QED
  BY <1>3, <1>4

\* A zero stands two places behind the first 0x0A.
ZeroBehindTen(s) ==
  \E at \in Int : FirstTen(s, at) /\ at + 2 <= Len(s) /\ s[at + 2] = 0

\* A response is accepted exactly where a zero stands there.
LEMMA VerdictIs ==
  ASSUME NEW s \in Seq(Byte)
  PROVE  /\ Verdict(s) \in {"resolve", "reject"}
         /\ Verdict(s) = "resolve" => ZeroBehindTen(s)
         /\ \A at \in Nat :
              FirstTen(s, at) /\ at + 2 <= Len(s) =>
                Verdict(s) = IF s[at + 2] = 0 THEN "resolve" ELSE "reject"
<1> DEFINE at == IndexOfResult(s)
<1>1. Verdict(s) = IF at = 0 \/ at + 2 > Len(s)
                     THEN "reject"
                     ELSE IF s[at + 2] = 0 THEN "resolve" ELSE "reject"
  BY Zenon DEF Verdict
<1>2. Len(s) \in Nat
  BY LenProperties
<1>3. (at = 0 /\ \A i \in 1..Len(s) : s[i] # 10) \/ FirstTen(s, at)
  BY Zenon, IndexIs
<1> HIDE DEF at
<1>4. at # 0 => at \in 1..Len(s) /\ FirstTen(s, at)
  BY <1>3 DEF FirstTen
<1>5. Verdict(s) \in {"resolve", "reject"}
  BY <1>1
<1>6. Verdict(s) = "resolve" => at # 0 /\ at + 2 <= Len(s) /\ s[at + 2] = 0
  BY <1>1, <1>2, <1>4
<1>7. Verdict(s) = "resolve" => ZeroBehindTen(s)
  BY <1>4, <1>6 DEF ZeroBehindTen
<1>8. ASSUME NEW b \in Nat, FirstTen(s, b), b + 2 <= Len(s)
      PROVE  Verdict(s) = IF s[b + 2] = 0 THEN "resolve" ELSE "reject"
  <2>1. b \in 1..Len(s) /\ s[b] = 10 /\ \A j \in 1..(b - 1) : s[j] # 10
    BY <1>8 DEF FirstTen
  <2>2. FirstTen(s, at)
    BY <1>3, <2>1
  <2>3. at \in 1..Len(s) /\ s[at] = 10 /\ \A j \in 1..(at - 1) : s[j] # 10
    BY <2>2 DEF FirstTen
  <2>4. at = b
    <3>1. ~(at < b)
      BY <1>2, <2>1, <2>3
    <3>2. ~(b < at)
      BY <1>2, <2>1, <2>3
    <3> QED
      BY <1>2, <2>1, <2>3, <3>1, <3>2
  <2>5. ~(at = 0 \/ at + 2 > Len(s))
    BY <1>2, <1>8, <2>1, <2>4
  <2> QED
    BY Zenon, <1>1, <2>4, <2>5
<1> QED
  BY <1>5, <1>7, <1>8

\* What stands in the first bytes of a buffer stands in the buffer.
LEMMA ZeroInPart ==
  ASSUME NEW s \in Seq(Byte), NEW n \in 0..Len(s), ZeroBehindTen(SubSeq(s, 1, n))
  PROVE  ZeroBehindTen(s)
<1> DEFINE part == SubSeq(s, 1, n)
<1>1. Len(s) \in Nat /\ \A i \in 1..Len(s) : s[i] \in Byte
  BY LenProperties, ElementOfSeq
<1>2. Len(part) = n /\ \A i \in 1..n : part[i] = s[i]
  BY <1>1
<1> HIDE DEF part
<1>3. PICK at \in Int : FirstTen(part, at) /\ at + 2 <= Len(part) /\ part[at + 2] = 0
  BY Zenon DEF ZeroBehindTen, part
<1>4. at \in 1..n /\ part[at] = 10 /\ (\A j \in 1..(at - 1) : part[j] # 10) /\ at + 2 <= n
  BY <1>2, <1>3 DEF FirstTen
<1>5. at + 2 \in 1..n /\ \A j \in 1..(at - 1) : j \in 1..n
  BY <1>1, <1>4
<1>6. s[at] = 10 /\ s[at + 2] = 0 /\ (\A j \in 1..(at - 1) : s[j] # 10)
  BY Zenon, <1>2, <1>3, <1>4, <1>5
<1>7. at \in 1..Len(s) /\ at + 2 <= Len(s)
  BY <1>1, <1>4
<1> QED
  BY Zenon, <1>6, <1>7 DEF ZeroBehindTen, FirstTen

\* The fields of what handleData() leaves.
LEMMA SettlesIs ==
  ASSUME NEW v, NEW b
  PROVE  Settles(v, b).verdict = v /\ Settles(v, b).buffer = b
BY DEF Settles

\* What handleData() makes of what has come so far, which is all.
Handled(r, all) ==
  /\ r.buffer \in Seq(Byte) /\ r.verdict \in {"none", "resolve", "reject"}
  /\ r.verdict = "none" => r.buffer = all
  /\ r.verdict = "resolve" => Len(all) >= 2 /\ all[1] = 97 /\ ZeroBehindTen(all)
  /\ Len(all) < 2 => r.verdict = "none"
  /\ Len(all) >= 2 /\ all[1] = 97 /\ all[2] < 128 =>
       /\ Len(all) < 2 + all[2] => r.verdict = "none"
       /\ ~(Len(all) < 2 + all[2]) => r.verdict = Verdict(SubSeq(all, 1, 2 + all[2]))

\* It waits for the rest of a response, or settles on what its bytes say.
LEMMA HandleDataIs ==
  ASSUME NEW buffer \in Seq(Byte), NEW data \in Seq(Byte), NEW all, NEW r,
         all = buffer \o data, r = HandleData(buffer, data)
  PROVE  Handled(r, all)
<1> USE DEF Handled
<1>1. all \in Seq(Byte)
  BY ConcatProperties
<1>2. Len(all) \in Nat /\ \A i \in 1..Len(all) : all[i] \in Byte
  BY <1>1, LenProperties, ElementOfSeq
<1>3. CASE Len(all) < 2
  <2>1. r = Waits(all)
    BY <1>2, <1>3 DEF HandleData
  <2> QED
    BY <1>1, <1>2, <1>3, <2>1 DEF Waits
<1>4. CASE Len(all) >= 2 /\ all[1] # 97
  <2>1. r = Settles("reject", all)
    BY <1>2, <1>4 DEF HandleData
  <2> QED
    BY <1>1, <1>2, <1>4, <2>1 DEF Settles
<1>5. CASE Len(all) >= 2 /\ all[1] = 97
  <2>1. r = Respond(all)
    BY <1>2, <1>5 DEF HandleData
  <2>2. Tail(all) \in Seq(Byte) /\ Len(Tail(all)) > 0 /\ Tail(all)[1] = all[2]
    BY <1>1, <1>5
  <2> DEFINE length == DecodeLength(Tail(all))
             total  == 1 + LengthOfLength(length) + length
  <2>3. all[2] \in 0..255
    <3>1. 2 \in 1..Len(all)
      BY <1>2, <1>5
    <3> QED
      BY <1>2, <3>1 DEF Byte
  <2>4. all[2] < 128 =>
          length = all[2] /\ total = 2 + all[2] /\ total >= 0 /\ HasLength(Tail(all))
    <3> SUFFICES ASSUME all[2] < 128
                 PROVE  /\ length = all[2] /\ total = 2 + all[2] /\ total >= 0
                        /\ HasLength(Tail(all))
      OBVIOUS
    <3>1. length = all[2] /\ HasLength(Tail(all))
      BY Zenon, <2>2 DEF DecodeLength, HasLength
    <3>2. LengthOfLength(length) = 1
      BY Zenon, <3>1 DEF LengthOfLength
    <3>3. PICK x \in 0..255 : x = all[2]
      BY <2>3
    <3>4. total = 1 + 1 + x
      BY Zenon, <3>1, <3>2, <3>3
    <3>5. 1 + 1 + x = 2 + x /\ 2 + x >= 0
      OBVIOUS
    <3> HIDE DEF length, total
    <3> QED
      BY Zenon, <3>1, <3>3, <3>4, <3>5
  <2>5. CASE ~HasLength(Tail(all))
    <3>1. r = Settles(Verdict(<<>>), all)
      BY Zenon, <2>1, <2>5 DEF Respond
    <3>2. Verdict(<<>>) = "reject"
      <4>1. <<>> \in Seq(Byte)
        OBVIOUS
      <4>2. ~ ZeroBehindTen(<<>>)
        BY DEF ZeroBehindTen, FirstTen
      <4> QED
        BY <4>1, <4>2, VerdictIs
    <3> HIDE DEF length, total
    <3> QED
      BY <1>1, <1>2, <1>5, <2>4, <2>5, <3>1, <3>2 DEF Settles
  <2>6. CASE HasLength(Tail(all))
    <3>1. length \in Int
      BY <2>2, <2>6, DecodeTyped
    <3>2. total \in Int
      <4>1. LengthOfLength(length) \in Nat
        <5>1. CASE length < 128
          BY Zenon, <5>1 DEF LengthOfLength
        <5>2. CASE ~(length < 128)
          <6>1. length \in Nat
            <7> HIDE DEF length
            <7> QED
              BY <3>1, <5>2
          <6> QED
            BY Zenon, <6>1, EncodedLength
        <5> QED
          BY <5>1, <5>2
      <4> HIDE DEF length
      <4> QED
        BY <3>1, <4>1
    <3>3. CASE Len(all) < total
      <4>1. r = Waits(all)
        BY Zenon, <2>1, <2>6, <3>3 DEF Respond
      <4> HIDE DEF length, total
      <4> QED
        BY <1>1, <1>2, <1>5, <2>4, <3>3, <4>1 DEF Waits
    <3>4. CASE ~(Len(all) < total)
      <4>1. PICK place : place = Place(all, total)
        OBVIOUS
      <4>2. r = SettlesAt(all, place)
        BY Zenon, <2>1, <2>6, <3>4, <4>1 DEF Respond
      <4> HIDE DEF length, total
      <4>3. place \in 0..Len(all) /\ (total >= 0 => place = total)
        BY <1>2, <3>2, <3>4, <4>1 DEF Place
      <4>4. /\ SubSeq(all, 1, place) \in Seq(Byte)
            /\ SubSeq(all, place + 1, Len(all)) \in Seq(Byte)
        BY <1>1, <1>2, <4>3, SubSeqProperties
      <4>5. r.verdict = Verdict(SubSeq(all, 1, place))
            /\ r.buffer = SubSeq(all, place + 1, Len(all))
        <5>1. PICK v : v = Verdict(SubSeq(all, 1, place))
          OBVIOUS
        <5>2. PICK w : w = SubSeq(all, place + 1, Len(all))
          OBVIOUS
        <5>3. r = Settles(v, w)
          BY ZenonT(60), <4>2, <5>1, <5>2 DEF SettlesAt
        <5>4. r.verdict = v /\ r.buffer = w
          BY Zenon, <5>3, SettlesIs
        <5> QED
          BY Zenon, <5>1, <5>2, <5>4
      <4>6. r.verdict \in {"resolve", "reject"}
        BY Zenon, <4>4, <4>5, VerdictIs
      <4>7. r.verdict = "resolve" => ZeroBehindTen(all)
        BY ZenonT(60), <1>1, <4>3, <4>4, <4>5, VerdictIs, ZeroInPart
      <4>8. all[2] < 128 =>
              ~(Len(all) < 2 + all[2]) /\ r.verdict = Verdict(SubSeq(all, 1, 2 + all[2]))
        <5> SUFFICES ASSUME all[2] < 128
                     PROVE  ~(Len(all) < 2 + all[2])
                            /\ r.verdict = Verdict(SubSeq(all, 1, 2 + all[2]))
          OBVIOUS
        <5>1. total = 2 + all[2] /\ total >= 0
          BY Zenon, <2>4
        <5> QED
          BY Zenon, <3>4, <4>3, <4>5, <5>1
      <4>9. ~(Len(all) < 2) /\ r.verdict # "none" /\ r.buffer \in Seq(Byte)
        <5>1. ~(Len(all) < 2)
          BY <1>2, <1>5
        <5> QED
          BY Zenon, <4>4, <4>5, <4>6, <5>1
      <4> QED
        BY Zenon, <1>5, <4>6, <4>7, <4>8, <4>9
    <3> QED
      BY <3>3, <3>4
  <2> QED
    BY <2>5, <2>6
<1> QED
  BY ONLY <1>2, <1>3, <1>4, <1>5

-----------------------------------------------------------------------------
(* A data event, heard once for each bind()                                *)

HeardFirst(client) == [buffer |-> client.buffer, verdict |-> client.verdict]

HeardNext(before, data) ==
  LET said == HandleData(before.buffer, data)
  IN  [buffer  |-> said.buffer,
       verdict |-> IF before.verdict = "none" THEN said.verdict ELSE before.verdict]

\* A function is what the first N listeners leave, each after the one before.
HeardUpTo(f, client, data, N) ==
  f = [n \in 0..N |-> IF n = 0 THEN HeardFirst(client) ELSE HeardNext(f[n - 1], data)]

\* What it is at one place.
LEMMA HeardUpToAt ==
  ASSUME NEW N, NEW client, NEW data, NEW f, HeardUpTo(f, client, data, N), NEW n \in 0..N
  PROVE  /\ n = 0 => f[n] = HeardFirst(client)
         /\ n # 0 => f[n] = HeardNext(f[n - 1], data)
BY Zenon DEF HeardUpTo

\* There is such a function for every N.
LEMMA HeardUpToExists ==
  ASSUME NEW client, NEW data, NEW N \in Nat PROVE \E f : HeardUpTo(f, client, data, N)
<1> DEFINE Bad == {k \in Nat : ~\E f : HeardUpTo(f, client, data, k)}
<1> SUFFICES ASSUME N \in Bad PROVE FALSE
  OBVIOUS
<1>1. PICK k \in Bad : \A n \in Bad : k <= n
  <2>1. Bad \in SUBSET Nat /\ Bad # {}
    OBVIOUS
  <2> HIDE DEF Bad
  <2> QED
    BY Zenon, <2>1, LeastNumber
<1>2. k \in Nat /\ ~\E f : HeardUpTo(f, client, data, k)
  OBVIOUS
<1>3. CASE k = 0
  <2> DEFINE f == [n \in 0..0 |-> HeardFirst(client)]
  <2>1. f = [n \in 0..0 |-> IF n = 0 THEN HeardFirst(client) ELSE HeardNext(f[n - 1], data)]
    <3>1. \A n \in 0..0 : n = 0
      OBVIOUS
    <3> QED
      BY Zenon, <3>1
  <2> HIDE DEF f
  <2>2. HeardUpTo(f, client, data, 0)
    BY Zenon, <2>1 DEF HeardUpTo
  <2> QED
    BY Zenon, <1>2, <1>3, <2>2
<1>4. CASE k # 0
  <2>1. k - 1 \in Nat /\ ~(k <= k - 1)
    BY <1>2, <1>4
  <2>2. PICK f : HeardUpTo(f, client, data, k - 1)
    BY <1>1, <2>1
  <2> DEFINE g == [n \in 0..k |-> IF n = k THEN HeardNext(f[k - 1], data) ELSE f[n]]
  <2>3. ASSUME NEW n \in 0..k
        PROVE  g[n] = IF n = 0 THEN HeardFirst(client) ELSE HeardNext(g[n - 1], data)
    <3>1. n # 0 => n - 1 \in 0..k /\ n - 1 # k
      BY <1>2
    <3>2. n # 0 => g[n - 1] = f[n - 1]
      BY Zenon, <3>1
    <3>3. CASE n = k
      <4>1. g[n] = HeardNext(f[k - 1], data)
        BY Zenon, <3>3
      <4> HIDE DEF g
      <4> QED
        BY Zenon, <1>4, <3>2, <3>3, <4>1
    <3>4. CASE n # k
      <4>1. n \in 0..(k - 1)
        BY <1>2, <3>4
      <4>2. /\ n = 0 => f[n] = HeardFirst(client)
            /\ n # 0 => f[n] = HeardNext(f[n - 1], data)
        BY <2>2, <4>1, HeardUpToAt
      <4>3. g[n] = f[n]
        BY Zenon, <3>4
      <4> HIDE DEF g
      <4> QED
        BY Zenon, <3>2, <4>2, <4>3
    <3> QED
      BY <3>3, <3>4
  <2>4. g = [n \in 0..k |-> g[n]]
    OBVIOUS
  <2> HIDE DEF g
  <2>5. HeardUpTo(g, client, data, k)
    BY Zenon, <2>3, <2>4 DEF HeardUpTo
  <2> QED
    BY Zenon, <1>2, <2>5
<1> QED
  BY <1>3, <1>4

\* What a data event leaves is what the last listener leaves.
LEMMA HeardIs ==
  ASSUME NEW client, NEW data, client.listeners \in Nat
  PROVE  \E f : /\ HeardUpTo(f, client, data, client.listeners)
                /\ Heard(client, data) = f[client.listeners]
<1> DEFINE heard == CHOOSE f : HeardUpTo(f, client, data, client.listeners)
<1>1. HeardUpTo(heard, client, data, client.listeners)
  BY Zenon, HeardUpToExists
<1>2. Heard(client, data) = heard[client.listeners]
  BY Zenon DEF Heard, HeardUpTo, HeardFirst, HeardNext
<1> HIDE DEF heard
<1> QED
  BY <1>1, <1>2

\* The fields of both.
LEMMA HeardFields ==
  ASSUME NEW client, NEW before, NEW data, NEW said,
         said = HandleData(before.buffer, data)
  PROVE  /\ HeardFirst(client).buffer = client.buffer
         /\ HeardFirst(client).verdict = client.verdict
         /\ HeardNext(before, data).buffer = said.buffer
         /\ before.verdict = "none" => HeardNext(before, data).verdict = said.verdict
         /\ before.verdict # "none" => HeardNext(before, data).verdict = before.verdict
<1>1. HeardFirst(client).buffer = client.buffer /\ HeardFirst(client).verdict = client.verdict
  BY DEF HeardFirst
<1>2. PICK v : v = IF before.verdict = "none" THEN said.verdict ELSE before.verdict
  OBVIOUS
<1>3. HeardNext(before, data) = [buffer |-> said.buffer, verdict |-> v]
  BY Zenon, <1>2 DEF HeardNext
<1>4. HeardNext(before, data).buffer = said.buffer /\ HeardNext(before, data).verdict = v
  <2>1. PICK b : b = said.buffer
    OBVIOUS
  <2>2. HeardNext(before, data) = [buffer |-> b, verdict |-> v]
    BY Zenon, <1>3, <2>1
  <2>3. HeardNext(before, data).buffer = b /\ HeardNext(before, data).verdict = v
    BY <2>2
  <2> QED
    BY Zenon, <2>1, <2>3
<1> QED
  BY Zenon, <1>1, <1>2, <1>4

\* A buffer of bytes and a verdict or none stay so, and a verdict stays as it is.
LEMMA HeardTyped ==
  ASSUME NEW client, NEW data \in Seq(Byte), client.listeners \in Nat,
         client.buffer \in Seq(Byte), client.verdict \in {"none", "resolve", "reject"}
  PROVE  /\ Heard(client, data).buffer \in Seq(Byte)
         /\ Heard(client, data).verdict \in {"none", "resolve", "reject"}
         /\ client.verdict # "none" => Heard(client, data).verdict = client.verdict
<1>1. PICK N \in Nat : N = client.listeners
  OBVIOUS
<1>2. PICK f : HeardUpTo(f, client, data, N) /\ Heard(client, data) = f[N]
  BY <1>1, HeardIs
<1> DEFINE Good(n) == /\ f[n].buffer \in Seq(Byte)
                      /\ f[n].verdict \in {"none", "resolve", "reject"}
                      /\ client.verdict # "none" => f[n].verdict = client.verdict
           Bad == {n \in 0..N : ~ Good(n)}
<1>3. Bad = {}
  <2> SUFFICES ASSUME Bad # {} PROVE FALSE
    OBVIOUS
  <2>1. PICK k \in Bad : \A m \in Bad : k <= m
    <3>1. Bad \in SUBSET Nat
      OBVIOUS
    <3> HIDE DEF Bad
    <3> QED
      BY Zenon, <3>1, LeastNumber
  <2>2. k \in 0..N /\ ~ Good(k)
    OBVIOUS
  <2>3. k # 0
    <3> SUFFICES ASSUME k = 0 PROVE FALSE
      OBVIOUS
    <3>1. f[k] = HeardFirst(client)
      BY <1>2, <2>2, HeardUpToAt
    <3> HIDE DEF Bad
    <3>2. f[k].buffer = client.buffer /\ f[k].verdict = client.verdict
      BY <3>1, HeardFields
    <3> QED
      BY Zenon, <2>2, <3>2
  <2>4. k - 1 \in 0..N /\ ~(k <= k - 1)
    BY <2>2, <2>3
  <2>5. Good(k - 1)
    <3>1. k - 1 \notin Bad
      <4> HIDE DEF Bad
      <4> QED
        BY <2>1, <2>4
    <3> QED
      BY <2>4, <3>1
  <2>6. f[k] = HeardNext(f[k - 1], data)
    BY <1>2, <2>2, <2>3, HeardUpToAt
  <2> HIDE DEF Bad
  <2>7. PICK before : before = f[k - 1]
    OBVIOUS
  <2>8. PICK said : said = HandleData(before.buffer, data)
    OBVIOUS
  <2>9. said.buffer \in Seq(Byte) /\ said.verdict \in {"none", "resolve", "reject"}
    BY Zenon, <2>5, <2>7, <2>8, HandleDataIs DEF Handled
  <2>10. /\ f[k].buffer = said.buffer
         /\ before.verdict = "none" => f[k].verdict = said.verdict
         /\ before.verdict # "none" => f[k].verdict = before.verdict
    <3>1. f[k] = HeardNext(before, data)
      BY Zenon, <2>6, <2>7
    <3>2. HeardNext(before, data).buffer = said.buffer
      BY <2>8, HeardFields
    <3>3. before.verdict = "none" => HeardNext(before, data).verdict = said.verdict
      BY <2>8, HeardFields
    <3>4. before.verdict # "none" => HeardNext(before, data).verdict = before.verdict
      BY <2>8, HeardFields
    <3> QED
      BY Zenon, <3>1, <3>2, <3>3, <3>4
  <2> QED
    BY Zenon, <2>2, <2>5, <2>7, <2>9, <2>10
<1>4. N \in 0..N
  OBVIOUS
<1>5. Good(N)
  BY <1>3, <1>4
<1> QED
  BY Zenon, <1>2, <1>5

\* One listener: the handler runs once.
LEMMA HeardOnce ==
  ASSUME NEW client, NEW data, client.listeners = 1, client.verdict = "none"
  PROVE  /\ Heard(client, data).buffer = HandleData(client.buffer, data).buffer
         /\ Heard(client, data).verdict = HandleData(client.buffer, data).verdict
<1>1. PICK f : HeardUpTo(f, client, data, 1) /\ Heard(client, data) = f[1]
  BY HeardIs
<1>2. f[0] = HeardFirst(client) /\ f[1] = HeardNext(f[0], data)
  <2>1. 0 \in 0..1 /\ 1 \in 0..1 /\ 1 # 0 /\ 1 - 1 = 0
    OBVIOUS
  <2>2. f[1] = HeardNext(f[1 - 1], data)
    BY <1>1, <2>1, HeardUpToAt
  <2>3. f[0] = HeardFirst(client)
    BY <1>1, <2>1, HeardUpToAt
  <2> QED
    BY Zenon, <2>1, <2>2, <2>3
<1>3. f[0].buffer = client.buffer /\ f[0].verdict = "none"
  BY <1>2, HeardFields
<1>4. PICK before : before = f[0]
  OBVIOUS
<1>5. /\ HeardNext(before, data).buffer = HandleData(before.buffer, data).buffer
      /\ HeardNext(before, data).verdict = HandleData(before.buffer, data).verdict
  <2>1. before.verdict = "none"
    BY Zenon, <1>3, <1>4
  <2>2. PICK said : said = HandleData(before.buffer, data)
    OBVIOUS
  <2>3. /\ HeardNext(before, data).buffer = said.buffer
        /\ HeardNext(before, data).verdict = said.verdict
    BY <2>1, <2>2, HeardFields
  <2> QED
    BY Zenon, <2>2, <2>3
<1>6. before.buffer = client.buffer /\ Heard(client, data) = HeardNext(before, data)
  BY Zenon, <1>1, <1>2, <1>3, <1>4
<1> QED
  BY Zenon, <1>5, <1>6

-----------------------------------------------------------------------------
(* What a client has heard of the answers that are coming to it            *)

Answered == {"none", "resolve", "reject"}

ClientFields == {"of", "messageID", "socket", "buffer", "listeners", "promise",
                 "answers", "coming", "chunks", "verdict"}

\* Where the contents of a bind response begin.
LEMMA HeaderIs ==
  ASSUME NEW A \in Answers, A[1] = 97
  PROVE  /\ A \in Seq(Byte) /\ Len(A) \in Nat /\ \A i \in 1..Len(A) : A[i] \in Byte
         /\ HeaderLength(A) \in Nat /\ HeaderLength(A) >= 2
         /\ HeaderLength(A) + 3 <= Len(A)
         /\ A[HeaderLength(A) + 1] = 10 /\ A[HeaderLength(A) + 2] = 1
         /\ A[2] < 128 => HeaderLength(A) = 2
<1>1. A \in Seq(Byte) /\ HasResultCode(A)
  BY AnswersAssumption
<1>2. Len(A) \in Nat /\ \A i \in 1..Len(A) : A[i] \in Byte
  BY <1>1, LenProperties, ElementOfSeq
<1>3. /\ Len(A) >= 2 /\ Len(A) >= HeaderLength(A) + 3
      /\ A[HeaderLength(A) + 1] = 10 /\ A[HeaderLength(A) + 2] = 1
  BY <1>1 DEF HasResultCode
<1>4. PICK x \in 0..255 : x = A[2]
  <2>1. A[2] \in Byte
    BY <1>2, <1>3
  <2> QED
    BY <2>1 DEF Byte
<1>5. HeaderLength(A) = IF x < 128 THEN 2 ELSE 2 + x - 128
  BY Zenon, <1>4 DEF HeaderLength
<1>6. HeaderLength(A) \in Nat /\ HeaderLength(A) >= 2
  BY <1>5
<1>7. A[2] < 128 => HeaderLength(A) = 2
  BY Zenon, <1>4, <1>5
<1>8. HeaderLength(A) + 3 <= Len(A)
  BY <1>2, <1>3, <1>6
<1> QED
  BY <1>1, <1>2, <1>3, <1>6, <1>7, <1>8

\* In a header without a zero there is none behind a 0x0A.
LEMMA PlainIsLegible ==
  ASSUME NEW A \in Answers, PlainHeader(A) PROVE LegibleHeader(A)
<1> SUFFICES ASSUME A[1] = 97, NEW i \in 1..(HeaderLength(A) - 2) PROVE A[i + 2] # 0
  BY DEF LegibleHeader
<1>1. HeaderLength(A) \in Nat
  BY HeaderIs
<1>2. i + 2 \in 1..HeaderLength(A)
  BY <1>1
<1> QED
  BY Zenon, <1>2 DEF PlainHeader

\* s is the beginning of A.
BeginningOf(s, A) == Len(s) <= Len(A) /\ \A i \in 1..Len(s) : s[i] = A[i]

\* A zero behind the first 0x0A of a legible answer is its result code.
LEMMA ZeroIsSuccess ==
  ASSUME NEW A \in Answers, LegibleHeader(A), NEW s \in Seq(Byte), BeginningOf(s, A),
         Len(s) >= 2, s[1] = 97, ZeroBehindTen(s)
  PROVE  SaysSuccess(A)
<1>1. Len(s) \in Nat
  BY LenProperties
<1>2. A[1] = 97
  <2>1. 1 \in 1..Len(s)
    BY <1>1
  <2> QED
    BY Zenon, <2>1 DEF BeginningOf
<1>3. PICK L : L = Len(A)
  OBVIOUS
<1>4. PICK h : h = HeaderLength(A)
  OBVIOUS
<1>5. L \in Nat /\ h \in Nat /\ h >= 2 /\ h + 3 <= L /\ A[h + 1] = 10 /\ A[h + 2] = 1
  BY <1>2, <1>3, <1>4, HeaderIs
<1>6. PICK at \in Int : FirstTen(s, at) /\ at + 2 <= Len(s) /\ s[at + 2] = 0
  BY Zenon DEF ZeroBehindTen
<1>7. at \in 1..Len(s) /\ s[at] = 10 /\ \A j \in 1..(at - 1) : s[j] # 10
  BY <1>6 DEF FirstTen
<1>8. Len(s) <= L /\ \A i \in 1..Len(s) : s[i] = A[i]
  BY <1>3 DEF BeginningOf
<1>9. A[at] = 10 /\ A[at + 2] = 0
  <2>1. at + 2 \in 1..Len(s)
    BY <1>1, <1>6, <1>7
  <2> QED
    BY Zenon, <1>6, <1>7, <1>8, <2>1
<1>10. at <= h + 1
  <2> SUFFICES ASSUME ~(at <= h + 1) PROVE FALSE
    OBVIOUS
  <2>1. h + 1 \in 1..(at - 1) /\ h + 1 \in 1..Len(s)
    BY <1>1, <1>5, <1>7
  <2>2. s[h + 1] # 10
    BY Zenon, <1>7, <2>1
  <2>3. s[h + 1] = A[h + 1]
    BY Zenon, <1>8, <2>1
  <2> QED
    BY Zenon, <1>5, <2>2, <2>3
<1>11. at # h
  BY <1>5, <1>9
<1>12. at # h - 1
  <2> SUFFICES ASSUME at = h - 1 PROVE FALSE
    OBVIOUS
  <2>1. at + 2 = h + 1
    BY <1>5
  <2>2. A[h + 1] = 0
    BY Zenon, <1>9, <2>1
  <2> QED
    BY <1>5, <2>2
<1>13. at \notin 1..(h - 2)
  BY Zenon, <1>2, <1>4, <1>9 DEF LegibleHeader
<1>14. at = h + 1
  BY <1>1, <1>5, <1>7, <1>10, <1>11, <1>12, <1>13
<1>15. at + 2 = h + 3
  BY <1>5, <1>14
<1>16. A[h + 3] = 0
  BY Zenon, <1>9, <1>15
<1> QED
  BY Zenon, <1>2, <1>4, <1>16 DEF SaysSuccess

\* What the fields of a client range over; before a bind() there is nothing.
TalkTyped(listeners, answers, coming, buffer, verdict) ==
  /\ listeners \in Nat
  /\ answers \in Seq(Answers) /\ Len(answers) = listeners
  /\ coming \in Seq(Byte) /\ buffer \in Seq(Byte) /\ verdict \in Answered
  /\ listeners = 0 => coming = <<>> /\ buffer = <<>> /\ verdict = "none"

\* After one bind() what has come and what is to come are the answer; it is settled
\* when it has all come, if it is in the short form, and as it says.
TalkOnce(listeners, answers, coming, buffer, verdict) ==
  listeners = 1 =>
    /\ verdict = "none" => buffer \o coming = answers[1]
    /\ ShortForm(answers[1]) /\ verdict = "none" => coming # <<>>
    /\ ShortForm(answers[1]) /\ verdict # "none" =>
         /\ coming = <<>>
         /\ verdict = IF SaysSuccess(answers[1]) THEN "resolve" ELSE "reject"
    /\ LegibleHeader(answers[1]) /\ verdict = "resolve" => SaysSuccess(answers[1])

\* A new client has heard nothing.
LEMMA NewTalkOnce ==
  /\ TalkTyped(0, <<>>, <<>>, <<>>, "none")
  /\ TalkOnce(0, <<>>, <<>>, <<>>, "none")
<1>1. TalkTyped(0, <<>>, <<>>, <<>>, "none")
  BY DEF TalkTyped, Answered
<1>2. TalkOnce(0, <<>>, <<>>, <<>>, "none")
  BY DEF TalkOnce
<1> QED
  BY <1>1, <1>2

\* A bind(): one answer more is to come.
LEMMA BoundTalkOnce ==
  ASSUME NEW ls, NEW as, NEW co, NEW bu, NEW ve, NEW answer \in Answers,
         TalkTyped(ls, as, co, bu, ve), TalkOnce(ls, as, co, bu, ve)
  PROVE  /\ TalkTyped(ls + 1, Append(as, answer), co \o answer, bu, ve)
         /\ TalkOnce(ls + 1, Append(as, answer), co \o answer, bu, ve)
<1>1. /\ ls \in Nat /\ as \in Seq(Answers) /\ Len(as) = ls
      /\ co \in Seq(Byte) /\ bu \in Seq(Byte) /\ ve \in Answered
      /\ ls = 0 => co = <<>> /\ bu = <<>> /\ ve = "none"
  BY DEF TalkTyped
<1>2. answer \in Seq(Byte) /\ Len(answer) > 0
  BY AnswersAssumption
<1>3. ls + 1 \in Nat /\ ls + 1 # 0
  BY <1>1
<1>4. Append(as, answer) \in Seq(Answers) /\ Len(Append(as, answer)) = ls + 1
  BY <1>1, AppendProperties
<1>5. co \o answer \in Seq(Byte)
  BY <1>1, <1>2, ConcatProperties
<1>6. TalkTyped(ls + 1, Append(as, answer), co \o answer, bu, ve)
  BY Zenon, <1>1, <1>3, <1>4, <1>5 DEF TalkTyped
<1>7. TalkOnce(ls + 1, Append(as, answer), co \o answer, bu, ve)
  <2> SUFFICES ASSUME ls + 1 = 1
               PROVE  TalkOnce(ls + 1, Append(as, answer), co \o answer, bu, ve)
    BY Zenon DEF TalkOnce
  <2>1. ls = 0 /\ co = <<>> /\ bu = <<>> /\ ve = "none"
    BY <1>1
  <2>2. Append(as, answer)[1] = answer
    BY <1>1, <2>1, AppendProperties
  <2>3. co \o answer = answer /\ bu \o (co \o answer) = answer
    BY <1>2, <2>1, ConcatEmptySeq
  <2>4. answer # <<>>
    BY <1>2
  <2>5. ve = "none" /\ ve # "resolve"
    BY <2>1
  <2> QED
    BY Zenon, <2>2, <2>3, <2>4, <2>5 DEF TalkOnce
<1> QED
  BY <1>6, <1>7

\* The first n bytes of what is to come, and the rest.
IsCut(co, n, data, rest) ==
  /\ data \in Seq(Byte) /\ Len(data) = n /\ \A i \in 1..n : data[i] = co[i]
  /\ rest \in Seq(Byte) /\ Len(rest) = Len(co) - n
  /\ \A i \in 1..(Len(co) - n) : rest[i] = co[n + i]

\* A sequence is cut so wherever it is cut.
LEMMA CutIs ==
  ASSUME NEW co \in Seq(Byte), NEW n \in 1..Len(co), NEW data, NEW rest,
         data = SubSeq(co, 1, n), rest = SubSeq(co, n + 1, Len(co))
  PROVE  IsCut(co, n, data, rest)
<1>1. Len(co) \in Nat /\ n \in Nat /\ \A i \in 1..Len(co) : co[i] \in Byte
  BY LenProperties, ElementOfSeq
<1>2. data \in Seq(Byte) /\ Len(data) = n /\ \A i \in 1..n : data[i] = co[i]
  BY <1>1
<1>3. rest \in Seq(Byte) /\ Len(rest) = Len(co) - n
  BY <1>1
<1>4. ASSUME NEW i \in 1..(Len(co) - n) PROVE rest[i] = co[n + i]
  <2>1. i \in 1..(Len(co) - (n + 1) + 1) /\ (n + 1) + i - 1 = n + i
    BY <1>1
  <2>2. \A j \in (n + 1)..Len(co) : co[j] \in Byte
    BY <1>1
  <2>3. rest[i] = co[(n + 1) + i - 1]
    BY <1>1, <2>1, <2>2, SubSeqProperties
  <2> QED
    BY Zenon, <2>1, <2>3
<1>5. \A i \in 1..(Len(co) - n) : rest[i] = co[n + i]
  BY Zenon, <1>4
<1> QED
  BY Zenon, <1>2, <1>3, <1>5 DEF IsCut

\* What is appended leaves the first element.
LEMMA FirstStays ==
  ASSUME NEW as \in Seq(Answers), NEW answer \in Answers, Len(as) # 0
  PROVE  as[1] \in Answers /\ Append(as, answer)[1] = as[1]
<1>1. Len(as) \in Nat /\ 1 \in 1..Len(as)
  <2>1. PICK l \in Nat : l = Len(as)
    BY Zenon, LenProperties
  <2>2. l # 0
    BY Zenon, <2>1
  <2>3. 1 \in 1..l
    BY ONLY <2>2, l \in Nat
  <2> QED
    BY Zenon, <2>1, <2>3
<1>2. as[1] \in Answers
  BY Zenon, <1>1, ElementOfSeq
<1>3. Append(as, answer)[1] = as[1]
  BY <1>1, AppendProperties
<1> QED
  BY Zenon, <1>2, <1>3

\* Three sequences, one behind the other.
LEMMA ThreeBehind ==
  ASSUME NEW s \in Seq(Byte), NEW t \in Seq(Byte), NEW u \in Seq(Byte)
  PROVE  (s \o t) \o u = s \o (t \o u)
BY ConcatAssociative

\* What has come of an answer, and what it lacks.
Pieces(all, rest, A) ==
  /\ all \in Seq(Byte) /\ BeginningOf(all, A) /\ all \o rest = A
  /\ Len(rest) = Len(A) - Len(all)

\* The answer is what has come, the piece and the rest: with the piece, it has come up
\* to there, and the rest is what it lacks.
LEMMA PieceOfAnswer ==
  ASSUME NEW co \in Seq(Byte), NEW n \in 1..Len(co), NEW data, NEW rest,
         data = SubSeq(co, 1, n), rest = SubSeq(co, n + 1, Len(co)),
         NEW bu \in Seq(Byte), NEW A, A = bu \o co, NEW all, all = bu \o data
  PROVE  Pieces(all, rest, A)
<1>1. /\ data \in Seq(Byte) /\ Len(data) = n /\ \A i \in 1..n : data[i] = co[i]
      /\ rest \in Seq(Byte) /\ Len(rest) = Len(co) - n
      /\ \A i \in 1..(Len(co) - n) : rest[i] = co[n + i]
  <2>1. IsCut(co, n, data, rest)
    BY Zenon, CutIs
  <2> QED
    BY Zenon, <2>1 DEF IsCut
<1>2. PICK m : m = Len(co)
  OBVIOUS
<1>3. PICK l : l = Len(bu)
  OBVIOUS
<1>4. l \in Nat /\ m \in Nat /\ n \in 1..m
  BY <1>2, <1>3, LenProperties
<1>5. data \o rest = co
  <2>1. IsConcat(data \o rest, data, rest, n, m - n) /\ data \o rest \in Seq(Byte)
    BY Zenon, <1>1, <1>2, ConcatIs
  <2> DEFINE q == data \o rest
  <2> HIDE DEF q
  <2>2. /\ q \in Seq(Byte) /\ Len(q) = n + (m - n)
        /\ \A i \in 1..n : q[i] = data[i]
        /\ \A i \in 1..(m - n) : q[n + i] = rest[i]
    BY Zenon, <2>1 DEF q, IsConcat
  <2>3. Len(q) = Len(co)
    BY <1>2, <1>4, <2>2
  <2>4. ASSUME NEW i \in 1..m PROVE q[i] = co[i]
    <3>1. CASE i <= n
      <4>1. i \in 1..n
        BY <3>1
      <4> QED
        BY Zenon, <1>1, <2>2, <4>1
    <3>2. CASE ~(i <= n)
      <4>1. i - n \in 1..(m - n) /\ n + (i - n) = i
        BY <1>4, <3>2
      <4>2. rest[i - n] = co[n + (i - n)]
        BY Zenon, <1>1, <1>2, <4>1
      <4>3. q[n + (i - n)] = rest[i - n]
        BY Zenon, <2>2, <4>1
      <4> QED
        BY Zenon, <4>1, <4>2, <4>3
    <3> QED
      BY <3>1, <3>2
  <2>5. q = co
    BY <1>2, <2>2, <2>3, <2>4, SeqEqual
  <2> QED
    BY Zenon, <2>5 DEF q
<1>6. all \in Seq(Byte) /\ all \o rest = A
  <2>1. (bu \o data) \o rest = bu \o (data \o rest)
    BY Zenon, <1>1, ThreeBehind
  <2>2. bu \o data \in Seq(Byte)
    BY <1>1, ConcatProperties
  <2> QED
    BY Zenon, <1>5, <2>1, <2>2
<1>7. IsConcat(A, all, rest, l + n, m - n)
  <2>1. IsConcat(all, bu, data, l, n)
    BY Zenon, <1>1, <1>3, ConcatIs
  <2>2. Len(all) = l + n
    BY Zenon, <2>1 DEF IsConcat
  <2>3. IsConcat(all \o rest, all, rest, l + n, m - n)
    BY Zenon, <1>1, <1>2, <1>6, <2>2, ConcatIs
  <2> QED
    BY Zenon, <1>6, <2>3
<1>8. Len(all) = l + n
  <2>1. IsConcat(all, bu, data, l, n)
    BY Zenon, <1>1, <1>3, ConcatIs
  <2> QED
    BY Zenon, <2>1 DEF IsConcat
<1>9. Len(A) = (l + n) + (m - n) /\ \A i \in 1..(l + n) : A[i] = all[i]
  BY Zenon, <1>7 DEF IsConcat
<1>10. Len(rest) = m - n
  BY Zenon, <1>1, <1>2
<1>11. BeginningOf(all, A)
  BY <1>4, <1>8, <1>9 DEF BeginningOf
<1>12. Len(rest) = Len(A) - Len(all)
  <2>1. m - n = ((l + n) + (m - n)) - (l + n)
    BY <1>4
  <2> QED
    BY Zenon, <1>8, <1>9, <1>10, <2>1
<1> QED
  BY Zenon, <1>6, <1>11, <1>12 DEF Pieces

\* A verdict as soon as all has come, and the one the answer gives.
JudgedInTime(r, all, A) ==
  /\ r.verdict = "none" <=> Len(all) < Len(A)
  /\ r.verdict # "none" => r.verdict = IF SaysSuccess(A) THEN "resolve" ELSE "reject"

\* An answer in the short form: when the verdict falls, and which.
LEMMA ShortIsJudged ==
  ASSUME NEW A \in Answers, ShortForm(A), NEW bu \in Seq(Byte), NEW data \in Seq(Byte),
         NEW all, all = bu \o data, BeginningOf(all, A), all \in Seq(Byte),
         NEW r, r = HandleData(bu, data)
  PROVE  JudgedInTime(r, all, A)
<1> USE DEF JudgedInTime
<1>1. A[1] = 97 /\ A[2] < 128 /\ A[2] = Len(A) - 2 /\ A[2] # 10
  BY DEF ShortForm
<1>2. /\ A \in Seq(Byte) /\ HeaderLength(A) = 2 /\ Len(A) \in Nat
      /\ 2 + 3 <= Len(A) /\ A[2 + 1] = 10
  <2>1. /\ A \in Seq(Byte) /\ Len(A) \in Nat
        /\ HeaderLength(A) + 3 <= Len(A)
        /\ A[HeaderLength(A) + 1] = 10
        /\ HeaderLength(A) = 2
    BY <1>1, HeaderIs
  <2> QED
    BY Zenon, <2>1
<1>3. Len(all) \in Nat /\ Len(all) <= Len(A) /\ \A i \in 1..Len(all) : all[i] = A[i]
  BY LenProperties DEF BeginningOf
<1>0. Handled(r, all)
  BY Zenon, HandleDataIs
<1>4. /\ r.verdict \in {"none", "resolve", "reject"}
      /\ Len(all) < 2 => r.verdict = "none"
  BY Zenon, <1>0 DEF Handled
<1>5. CASE Len(all) < 2
  <2>1. Len(all) < Len(A)
    BY <1>2, <1>3, <1>5
  <2>2. r.verdict = "none"
    BY <1>4, <1>5
  <2> QED
    BY <2>1, <2>2
<1>6. CASE ~(Len(all) < 2)
  <2>1. 1 \in 1..Len(all) /\ 2 \in 1..Len(all) /\ Len(all) >= 2
    BY <1>3, <1>6
  <2>2. all[1] = 97 /\ all[2] = A[2] /\ all[2] < 128
    BY Zenon, <1>1, <1>3, <2>1
  <2>3. 2 + all[2] = Len(A)
    BY <1>1, <1>2, <2>2
  <2>4. /\ Len(all) < 2 + all[2] => r.verdict = "none"
        /\ ~(Len(all) < 2 + all[2]) => r.verdict = Verdict(SubSeq(all, 1, 2 + all[2]))
    BY Zenon, <1>0, <2>1, <2>2 DEF Handled
  <2>5. CASE Len(all) < Len(A)
    BY Zenon, <2>3, <2>4, <2>5
  <2>6. CASE ~(Len(all) < Len(A))
    <3>1. Len(all) = Len(A)
      BY <1>2, <1>3, <2>6
    <3>2. r.verdict = Verdict(SubSeq(all, 1, Len(all)))
      BY Zenon, <2>3, <2>4, <2>6, <3>1
    <3>3. SubSeq(all, 1, Len(all)) = all
      <4>1. all = [i \in 1..Len(all) |-> all[i]]
        BY LenProperties
      <4> QED
        BY <1>3
    <3>4. FirstTen(all, 3) /\ 3 + 2 <= Len(all) /\ 3 \in Nat
      <4>1. 3 \in 1..Len(all) /\ 3 + 2 <= Len(all)
        BY <1>2, <3>1
      <4>2. all[3] = 10
        <5>1. all[3] = A[3]
          BY Zenon, <1>3, <4>1
        <5>2. 2 + 1 = 3
          OBVIOUS
        <5> QED
          BY Zenon, <1>2, <5>1, <5>2
      <4>3. \A j \in 1..(3 - 1) : all[j] # 10
        <5>1. \A j \in 1..(3 - 1) : j = 1 \/ j = 2
          OBVIOUS
        <5>2. all[1] # 10 /\ all[2] # 10
          BY <1>1, <2>2
        <5> QED
          BY Zenon, <5>1, <5>2
      <4> QED
        BY Zenon, <4>1, <4>2, <4>3 DEF FirstTen
    <3>5. r.verdict = IF all[3 + 2] = 0 THEN "resolve" ELSE "reject"
      BY <3>2, <3>3, <3>4, VerdictIs
    <3>6. SaysSuccess(A) <=> all[3 + 2] = 0
      <4>1. HeaderLength(A) + 3 = 3 + 2 /\ 3 + 2 \in 1..Len(all)
        BY <1>2, <3>1
      <4>2. all[3 + 2] = A[HeaderLength(A) + 3]
        BY Zenon, <1>3, <4>1
      <4> QED
        BY Zenon, <1>1, <4>2 DEF SaysSuccess
    <3> QED
      BY <2>6, <3>5, <3>6
  <2> QED
    BY <2>5, <2>6
<1> QED
  BY <1>5, <1>6

\* A piece is heard.
LEMMA HeardTalkOnce ==
  ASSUME NEW client, NEW as, NEW co, NEW bu, NEW ve, NEW ls,
         client.listeners = ls, client.buffer = bu, client.verdict = ve,
         TalkTyped(ls, as, co, bu, ve), TalkOnce(ls, as, co, bu, ve),
         NEW n \in 1..Len(co), NEW data, NEW rest,
         data = SubSeq(co, 1, n), rest = SubSeq(co, n + 1, Len(co)),
         NEW hb, NEW hv, hb = Heard(client, data).buffer, hv = Heard(client, data).verdict
  PROVE  TalkTyped(ls, as, rest, hb, hv) /\ TalkOnce(ls, as, rest, hb, hv)
<1>1. /\ ls \in Nat /\ as \in Seq(Answers) /\ Len(as) = ls
      /\ co \in Seq(Byte) /\ bu \in Seq(Byte) /\ ve \in Answered
      /\ ls = 0 => co = <<>> /\ bu = <<>> /\ ve = "none"
  BY Zenon DEF TalkTyped
<1>2. data \in Seq(Byte) /\ rest \in Seq(Byte)
  <2>1. IsCut(co, n, data, rest)
    BY Zenon, <1>1, CutIs
  <2> QED
    BY Zenon, <2>1 DEF IsCut
<1>3. co # <<>> /\ ls # 0
  <2>1. co # <<>>
    <3> SUFFICES ASSUME co = <<>> PROVE FALSE
      OBVIOUS
    <3>1. Len(co) = 0
      BY ONLY co = <<>>
    <3>2. 1..0 = {}
      OBVIOUS
    <3> QED
      BY Zenon, <3>1, <3>2
  <2> QED
    BY Zenon, <1>1, <2>1
<1>4. /\ hb \in Seq(Byte) /\ hv \in Answered
      /\ ve # "none" => hv = ve
  <2>1. client.listeners \in Nat /\ client.buffer \in Seq(Byte)
    BY Zenon, <1>1
  <2>2. client.verdict \in {"none", "resolve", "reject"}
    BY Zenon, <1>1 DEF Answered
  <2>3. /\ Heard(client, data).buffer \in Seq(Byte)
        /\ Heard(client, data).verdict \in {"none", "resolve", "reject"}
        /\ client.verdict # "none" => Heard(client, data).verdict = client.verdict
    BY Zenon, <1>2, <2>1, <2>2, HeardTyped
  <2> QED
    BY Zenon, <2>3 DEF Answered
<1>5. TalkTyped(ls, as, rest, hb, hv)
  BY Zenon, <1>1, <1>2, <1>3, <1>4 DEF TalkTyped
<1>6. ASSUME ls = 1 PROVE TalkOnce(ls, as, rest, hb, hv)
  <2>1. PICK A : A = as[1]
    OBVIOUS
  <2>2. A \in Answers
    <3>1. 1 \in 1..Len(as)
      BY <1>1, <1>6
    <3> QED
      BY Zenon, <1>1, <2>1, <3>1, ElementOfSeq
  <2>3. /\ ve = "none" => bu \o co = A
        /\ ShortForm(A) /\ ve # "none" => co = <<>>
        /\ LegibleHeader(A) /\ ve = "resolve" => SaysSuccess(A)
    BY Zenon, <1>6, <2>1 DEF TalkOnce
  <2>4. CASE ve # "none"
    <3>1. hv = ve /\ ~ ShortForm(A)
      BY Zenon, <1>3, <1>4, <2>3, <2>4
    <3> QED
      BY Zenon, <2>1, <2>3, <2>4, <3>1 DEF TalkOnce
  <2>5. CASE ve = "none"
    <3>1. PICK r : r = HandleData(bu, data)
      OBVIOUS
    <3>2. hb = r.buffer /\ hv = r.verdict
      <4>1. client.listeners = 1 /\ client.verdict = "none" /\ client.buffer = bu
        BY Zenon, <1>6, <2>5
      <4>2. /\ Heard(client, data).buffer = HandleData(client.buffer, data).buffer
            /\ Heard(client, data).verdict = HandleData(client.buffer, data).verdict
        BY Zenon, <4>1, HeardOnce
      <4> QED
        BY Zenon, <3>1, <4>1, <4>2
    <3>3. PICK all : all = bu \o data
      OBVIOUS
    <3>4. A = bu \o co
      BY Zenon, <2>3, <2>5
    <3>5. /\ all \in Seq(Byte) /\ BeginningOf(all, A) /\ all \o rest = A
          /\ Len(rest) = Len(A) - Len(all)
      <4>1. Pieces(all, rest, A)
        BY Zenon, <1>1, <3>3, <3>4, PieceOfAnswer
      <4> QED
        BY Zenon, <4>1 DEF Pieces
    <3>6. Handled(r, all)
      BY Zenon, <1>1, <1>2, <3>1, <3>3, HandleDataIs
    <3>7. hv = "none" => hb \o rest = A
      BY Zenon, <3>2, <3>5, <3>6 DEF Handled
    <3>8. LegibleHeader(A) /\ hv = "resolve" => SaysSuccess(A)
      <4> SUFFICES ASSUME LegibleHeader(A), hv = "resolve" PROVE SaysSuccess(A)
        BY Zenon
      <4>1. Len(all) >= 2 /\ all[1] = 97 /\ ZeroBehindTen(all)
        BY Zenon, <3>2, <3>6 DEF Handled
      <4> QED
        BY Zenon, <2>2, <3>5, <4>1, ZeroIsSuccess
    <3>9. ASSUME ShortForm(A)
          PROVE  /\ hv = "none" => rest # <<>>
                 /\ hv # "none" =>
                      rest = <<>> /\ hv = IF SaysSuccess(A) THEN "resolve" ELSE "reject"
      <4>1. /\ r.verdict = "none" <=> Len(all) < Len(A)
            /\ r.verdict # "none" =>
                 r.verdict = IF SaysSuccess(A) THEN "resolve" ELSE "reject"
        <5>1. JudgedInTime(r, all, A)
          BY Zenon, <1>1, <1>2, <2>2, <3>1, <3>3, <3>5, <3>9, ShortIsJudged
        <5> QED
          BY Zenon, <5>1 DEF JudgedInTime
      <4>2. Len(all) \in Nat /\ Len(A) \in Nat /\ Len(all) <= Len(A) /\ Len(rest) \in Nat
        <5>1. A \in Seq(Byte)
          BY Zenon, <2>2, AnswersAssumption
        <5> QED
          BY Zenon, <1>2, <3>5, <5>1, LenProperties DEF BeginningOf
      <4>3. rest = <<>> <=> Len(rest) = 0
        BY ONLY <1>2, rest \in Seq(Byte)
      <4>4. Len(all) < Len(A) <=> rest # <<>>
        BY <3>5, <4>2, <4>3
      <4> QED
        BY Zenon, <3>2, <4>1, <4>4
    <3> QED
      BY Zenon, <2>1, <3>7, <3>8, <3>9 DEF TalkOnce
  <2> QED
    BY Zenon, <2>4, <2>5
<1>7. ls # 1 => TalkOnce(ls, as, rest, hb, hv)
  BY Zenon DEF TalkOnce
<1> QED
  BY Zenon, <1>5, <1>6, <1>7

-----------------------------------------------------------------------------
(* Many listeners: each piece of an answer is heard several times over.     *)
(* Where each byte of the buffer stands in the stream is at most one place  *)
(* behind its neighbour's, and whoever is past the header has passed a 0x0A. *)

\* pos says where the bytes of a buffer stand in what has been sent, of which hi bytes
\* have been heard and which begins with the answer A.
Traces(buffer, A, hi, pos) ==
  /\ pos \in [1..Len(buffer) -> 1..hi]
  /\ Len(buffer) = 0 <=> hi = 0
  /\ Len(buffer) > 0 => pos[1] = 1 /\ pos[Len(buffer)] = hi
  /\ \A i \in 1..(Len(buffer) - 1) : pos[i + 1] <= pos[i] + 1
  /\ \A i \in 1..Len(buffer) : pos[i] <= Len(A) => buffer[i] = A[pos[i]]
  /\ \A i \in 1..Len(buffer) :
       A[1] = 97 /\ pos[i] >= HeaderLength(A) + 1 => \E j \in 1..i : buffer[j] = 10

\* A piece that is heard once more, or for the first time, is followed too.
LEMMA PieceTraced ==
  ASSUME NEW A \in Answers, NEW B \in Seq(Byte), NEW data \in Seq(Byte),
         NEW lo \in Nat, NEW n \in Nat, n = Len(data), n > 0,
         NEW hi \in {lo, lo + n}, NEW pos, Traces(B, A, hi, pos),
         \A t \in 1..n : lo + t <= Len(A) => data[t] = A[lo + t]
  PROVE  \E q : Traces(B \o data, A, lo + n, q)
<1>1. PICK l \in Nat : l = Len(B)
  BY LenProperties
<1>2. PICK all : all = B \o data
  OBVIOUS
<1>3. /\ Len(all) = l + n
      /\ \A i \in 1..l : all[i] = B[i]
      /\ \A i \in 1..n : all[l + i] = data[i]
  <2>1. IsConcat(B \o data, B, data, l, n)
    BY Zenon, <1>1, ConcatIs
  <2> QED
    BY Zenon, <1>2, <2>1 DEF IsConcat
<1>4. /\ pos \in [1..l -> 1..hi]
      /\ l = 0 <=> hi = 0
      /\ l > 0 => pos[1] = 1 /\ pos[l] = hi
      /\ \A i \in 1..(l - 1) : pos[i + 1] <= pos[i] + 1
      /\ \A i \in 1..l : pos[i] <= Len(A) => B[i] = A[pos[i]]
      /\ \A i \in 1..l : A[1] = 97 /\ pos[i] >= HeaderLength(A) + 1
                           => \E j \in 1..i : B[j] = 10
  BY Zenon, <1>1 DEF Traces
<1>5. hi \in Nat /\ lo <= hi /\ hi <= lo + n
  OBVIOUS
<1> DEFINE q == [i \in 1..(l + n) |-> IF i <= l THEN pos[i] ELSE lo + (i - l)]
<1>6. \A i \in 1..l : i \in 1..(l + n) /\ q[i] = pos[i]
  BY <1>1
<1>7. \A i \in 1..n : l + i \in 1..(l + n) /\ q[l + i] = lo + i
  BY <1>1
<1>8. \A i \in 1..(l + n) : i \in 1..l \/ (i - l \in 1..n /\ i = l + (i - l))
  BY <1>1
<1>9. \A i \in 1..l : pos[i] \in 1..hi
  BY Zenon, <1>4
<1>10. q \in [1..(l + n) -> 1..(lo + n)]
  <2>1. ASSUME NEW i \in 1..(l + n)
        PROVE  (IF i <= l THEN pos[i] ELSE lo + (i - l)) \in 1..(lo + n)
    <3>1. CASE i <= l
      <4>1. pos[i] \in 1..hi
        BY <1>9, <3>1
      <4> QED
        BY <1>5, <3>1, <4>1
    <3>2. CASE ~(i <= l)
      BY <1>1, <3>2
    <3> QED
      BY <3>1, <3>2
  <2> QED
    BY <2>1
<1> HIDE DEF q
<1>11. l + n > 0 /\ lo + n > 0 /\ Len(all) # 0 /\ lo + n # 0
  BY <1>1, <1>3
<1>12. q[1] = 1 /\ q[l + n] = lo + n
  <2>1. q[l + n] = lo + n
    <3>1. n \in 1..n
      OBVIOUS
    <3> QED
      BY <1>7, <3>1
  <2>2. CASE l = 0
    <3>1. 1 \in 1..n /\ l + 1 = 1 /\ lo + 1 = 1
      BY <1>4, <1>5, <2>2
    <3> QED
      BY Zenon, <1>7, <2>1, <3>1
  <2>3. CASE l # 0
    <3>1. 1 \in 1..l /\ l > 0
      BY <1>1, <2>3
    <3> QED
      BY Zenon, <1>4, <1>6, <2>1, <3>1
  <2> QED
    BY <2>2, <2>3
<1>13. ASSUME NEW i \in 1..(l + n - 1) PROVE q[i + 1] <= q[i] + 1
  <2>1. CASE i + 1 <= l
    <3>1. i \in 1..l /\ i + 1 \in 1..l /\ i \in 1..(l - 1)
      BY <1>1, <2>1
    <3>2. q[i] = pos[i] /\ q[i + 1] = pos[i + 1] /\ pos[i + 1] <= pos[i] + 1
      BY Zenon, <1>4, <1>6, <3>1
    <3> QED
      BY Zenon, <3>2
  <2>2. CASE i = l
    <3>1. 1 \in 1..n /\ i \in 1..l /\ l > 0
      BY <1>1, <2>2
    <3>2. q[i] = hi /\ q[l + 1] = lo + 1
      BY Zenon, <1>4, <1>6, <1>7, <2>2, <3>1
    <3> QED
      BY <1>5, <2>2, <3>2
  <2>3. CASE i > l
    <3>1. i - l \in 1..n /\ (i - l) + 1 \in 1..n /\ l + (i - l) = i /\ l + ((i - l) + 1) = i + 1
      BY <1>1, <2>3
    <3>2. q[i] = lo + (i - l) /\ q[i + 1] = lo + ((i - l) + 1)
      BY <1>7, <3>1
    <3> QED
      BY <1>1, <3>2
  <2> QED
    BY <1>1, <2>1, <2>2, <2>3
<1>14. ASSUME NEW i \in 1..(l + n), q[i] <= Len(A) PROVE all[i] = A[q[i]]
  <2>1. CASE i \in 1..l
    BY Zenon, <1>3, <1>4, <1>6, <1>14, <2>1
  <2>2. CASE i - l \in 1..n /\ i = l + (i - l)
    <3>1. PICK t \in 1..n : i = l + t
      BY <2>2
    <3>2. q[i] = lo + t /\ all[i] = data[t]
      BY Zenon, <1>3, <1>7, <3>1
    <3>3. lo + t <= Len(A)
      BY Zenon, <1>14, <3>2
    <3>4. data[t] = A[lo + t]
      BY Zenon, <3>3
    <3> QED
      BY Zenon, <3>2, <3>4
  <2> QED
    BY <1>8, <2>1, <2>2
<1>15. ASSUME NEW i \in 1..(l + n), A[1] = 97, q[i] >= HeaderLength(A) + 1
       PROVE  \E j \in 1..i : all[j] = 10
  <2>1. CASE i \in 1..l
    <3>1. q[i] = pos[i]
      BY Zenon, <1>6, <2>1
    <3>2. PICK j \in 1..i : B[j] = 10
      BY <1>4, <1>15, <2>1, <3>1
    <3>3. j \in 1..l
      BY <2>1
    <3>4. all[j] = 10
      BY Zenon, <1>3, <3>2, <3>3
    <3> QED
      BY Zenon, <3>4
  <2>2. CASE i - l \in 1..n /\ i = l + (i - l)
    <3>1. PICK t \in 1..n : i = l + t
      BY <2>2
    <3>2. q[i] = lo + t
      BY Zenon, <1>7, <3>1
    <3>3. PICK h \in Nat : h = HeaderLength(A)
      BY <1>15, HeaderIs
    <3>4. h + 3 <= Len(A) /\ A[h + 1] = 10 /\ Len(A) \in Nat
      BY <1>15, <3>3, HeaderIs
    <3>5. lo + t >= h + 1
      BY <1>15, <3>2, <3>3
    <3>6. CASE lo >= h + 1
      <4>1. l # 0
        BY <1>4, <1>5, <3>6
      <4>2. l \in 1..l /\ l > 0 /\ hi >= h + 1
        BY <1>1, <1>5, <3>6, <4>1
      <4>3. pos[l] >= HeaderLength(A) + 1
        BY Zenon, <1>4, <3>3, <4>2
      <4>4. PICK j \in 1..l : B[j] = 10
        BY Zenon, <1>4, <1>15, <4>2, <4>3
      <4>5. j \in 1..i /\ all[j] = 10
        BY <1>1, <1>3, <3>1, <4>4
      <4> QED
        BY Zenon, <4>5
    <3>7. CASE ~(lo >= h + 1)
      <4>1. PICK s \in 1..n : lo + s = h + 1 /\ s <= t
        <5>1. (h + 1) - lo \in 1..n /\ lo + ((h + 1) - lo) = h + 1 /\ (h + 1) - lo <= t
          BY <3>5, <3>7
        <5> QED
          BY <5>1
      <4>2. lo + s <= Len(A)
        BY <3>4, <4>1
      <4>3. data[s] = A[h + 1]
        BY Zenon, <4>1, <4>2
      <4>4. all[l + s] = 10
        BY Zenon, <1>3, <3>4, <4>3
      <4>5. l + s \in 1..i
        BY <1>1, <3>1, <4>1
      <4> QED
        BY Zenon, <4>4, <4>5
    <3> QED
      BY <3>6, <3>7
  <2> QED
    BY <1>8, <2>1, <2>2
<1>16. Traces(all, A, lo + n, q)
  <2>1. q \in [1..Len(all) -> 1..(lo + n)]
    BY Zenon, <1>3, <1>10
  <2>2. Len(all) = 0 <=> lo + n = 0
    BY Zenon, <1>11
  <2>3. q[1] = 1 /\ q[Len(all)] = lo + n
    BY Zenon, <1>3, <1>12
  <2>4. \A i \in 1..(Len(all) - 1) : q[i + 1] <= q[i] + 1
    <3>1. Len(all) - 1 = l + n - 1
      BY <1>1, <1>3
    <3> QED
      BY Zenon, <1>13, <3>1
  <2>5. \A i \in 1..Len(all) : q[i] <= Len(A) => all[i] = A[q[i]]
    BY Zenon, <1>3, <1>14
  <2>6. \A i \in 1..Len(all) :
          A[1] = 97 /\ q[i] >= HeaderLength(A) + 1 => \E j \in 1..i : all[j] = 10
    BY Zenon, <1>3, <1>15
  <2> QED
    BY Zenon, <2>1, <2>2, <2>3, <2>4, <2>5, <2>6 DEF Traces
<1> QED
  BY Zenon, <1>2, <1>16

\* A zero behind the first 0x0A of what is followed is the result code of the answer, if
\* its header has none.
LEMMA ZeroTraced ==
  ASSUME NEW A \in Answers, PlainHeader(A), NEW B \in Seq(Byte), NEW hi \in Nat,
         NEW pos, Traces(B, A, hi, pos), Len(B) >= 2, B[1] = 97, ZeroBehindTen(B)
  PROVE  SaysSuccess(A)
<1>1. PICK l \in Nat : l = Len(B)
  BY LenProperties
<1>2. /\ pos \in [1..l -> 1..hi]
      /\ l > 0 => pos[1] = 1 /\ pos[l] = hi
      /\ \A i \in 1..(l - 1) : pos[i + 1] <= pos[i] + 1
      /\ \A i \in 1..l : pos[i] <= Len(A) => B[i] = A[pos[i]]
      /\ \A i \in 1..l : A[1] = 97 /\ pos[i] >= HeaderLength(A) + 1
                           => \E j \in 1..i : B[j] = 10
  BY Zenon, <1>1 DEF Traces
<1>3. A \in Seq(Byte) /\ Len(A) \in Nat /\ Len(A) > 0
  BY AnswersAssumption, LenProperties
<1>4. 1 \in 1..l /\ pos[1] = 1 /\ l >= 2
  <2>1. 1 \in 1..l /\ l > 0 /\ l >= 2
    BY <1>1
  <2> QED
    BY Zenon, <1>2, <2>1
<1>5. A[1] = 97
  <2>1. pos[1] <= Len(A)
    BY <1>3, <1>4
  <2>2. B[1] = A[pos[1]]
    BY Zenon, <1>2, <1>4, <2>1
  <2> QED
    BY Zenon, <1>4, <2>2
<1>6. PICK h \in Nat : h = HeaderLength(A)
  BY <1>5, HeaderIs
<1>7. h >= 2 /\ h + 3 <= Len(A) /\ A[h + 1] = 10 /\ A[h + 2] = 1
  BY <1>5, <1>6, HeaderIs
<1>8. PICK at \in Int : FirstTen(B, at) /\ at + 2 <= l /\ B[at + 2] = 0
  BY Zenon, <1>1 DEF ZeroBehindTen
<1>9. at \in 1..l /\ \A j \in 1..(at - 1) : B[j] # 10
  BY <1>1, <1>8 DEF FirstTen
<1>10. \A i \in 1..l : pos[i] \in Nat /\ pos[i] >= 1
  <2>1. \A i \in 1..l : pos[i] \in 1..hi
    BY Zenon, <1>2
  <2> QED
    BY <2>1
<1>11. pos[at] <= h + 1
  <2> SUFFICES ASSUME ~(pos[at] <= h + 1) PROVE FALSE
    OBVIOUS
  <2>1. at # 1
    BY <1>4, <1>6
  <2>2. at - 1 \in 1..(l - 1) /\ at - 1 \in 1..l /\ (at - 1) + 1 = at
    BY <1>9, <2>1
  <2>3. pos[at] <= pos[at - 1] + 1
    BY <1>2, <2>2
  <2>4. pos[at - 1] >= HeaderLength(A) + 1
    BY <1>6, <1>9, <1>10, <2>2, <2>3
  <2>5. \E j \in 1..(at - 1) : B[j] = 10
    BY Zenon, <1>2, <1>5, <2>2, <2>4
  <2> QED
    BY Zenon, <1>9, <2>5
<1>12. at \in 1..(l - 1) /\ at + 1 \in 1..(l - 1) /\ at + 2 \in 1..l /\ (at + 1) + 1 = at + 2
       /\ at + 1 \in 1..l
  BY <1>8, <1>9
<1>13. pos[at + 1] <= pos[at] + 1 /\ pos[at + 2] <= pos[at + 1] + 1
  BY <1>2, <1>12
<1>14. PICK p \in Nat : p = pos[at + 2]
  BY <1>10, <1>12
<1>15. p >= 1 /\ p <= h + 3 /\ p <= Len(A)
  <2>1. PICK x \in Nat : x = pos[at]
    BY Zenon, <1>9, <1>10
  <2>2. PICK y \in Nat : y = pos[at + 1]
    BY Zenon, <1>10, <1>12
  <2>3. x <= h + 1 /\ y <= x + 1 /\ p <= y + 1 /\ p >= 1
    BY Zenon, <1>10, <1>11, <1>12, <1>13, <1>14, <2>1, <2>2
  <2>4. p <= h + 3
    BY <2>3
  <2> QED
    BY <1>3, <1>7, <2>3, <2>4
<1>16. A[p] = 0
  BY Zenon, <1>2, <1>8, <1>12, <1>14, <1>15
<1>17. p \notin 1..h
  BY Zenon, <1>5, <1>6, <1>16 DEF PlainHeader
<1>18. p # h + 1 /\ p # h + 2
  BY <1>7, <1>16
<1>19. p = h + 3
  BY <1>15, <1>17, <1>18
<1> QED
  BY Zenon, <1>5, <1>6, <1>16, <1>19 DEF SaysSuccess


\* What is to come goes on with the answer behind its first hi bytes, up to its end.
GoesOn(coming, hi, A) ==
  /\ Len(coming) + hi >= Len(A)
  /\ \A j \in 1..Len(coming) : hi + j <= Len(A) => coming[j] = A[hi + j]

\* Up to where a buffer follows the stream, if no verdict has fallen.
Reached(heard, A, hi) ==
  /\ heard.buffer \in Seq(Byte) /\ heard.verdict \in Answered
  /\ heard.verdict = "none" => \E pos : Traces(heard.buffer, A, hi, pos)
  /\ PlainHeader(A) /\ heard.verdict = "resolve" => SaysSuccess(A)

\* However many bind() there have been on a client: what it has heard follows the first
\* answer, and a success is that of the first answer, if its header has no zero.
TalkOften(listeners, answers, coming, buffer, verdict) ==
  listeners # 0 =>
    /\ verdict = "none" =>
         \E hi \in Nat : \E pos : GoesOn(coming, hi, answers[1])
                                  /\ Traces(buffer, answers[1], hi, pos)
    /\ PlainHeader(answers[1]) /\ verdict = "resolve" => SaysSuccess(answers[1])

\* A new client has no answer to go by.
LEMMA NewTalkOften == TalkOften(0, <<>>, <<>>, <<>>, "none")
BY DEF TalkOften

\* One listener hears a piece.
LEMMA ReachesOn ==
  ASSUME NEW A \in Answers, NEW data \in Seq(Byte), NEW lo \in Nat, NEW n \in Nat,
         n = Len(data), n > 0, \A t \in 1..n : lo + t <= Len(A) => data[t] = A[lo + t],
         NEW hi \in {lo, lo + n}, NEW before, Reached(before, A, hi),
         NEW after, after = HeardNext(before, data)
  PROVE  Reached(after, A, lo + n)
<1>1. /\ before.buffer \in Seq(Byte) /\ before.verdict \in Answered
      /\ before.verdict = "none" => \E pos : Traces(before.buffer, A, hi, pos)
      /\ PlainHeader(A) /\ before.verdict = "resolve" => SaysSuccess(A)
  BY Zenon DEF Reached
<1>2. PICK said : said = HandleData(before.buffer, data)
  OBVIOUS
<1>3. PICK all : all = before.buffer \o data
  OBVIOUS
<1>4. Handled(said, all)
  BY Zenon, <1>1, <1>2, <1>3, HandleDataIs
<1>5. /\ said.buffer \in Seq(Byte) /\ said.verdict \in Answered
      /\ said.verdict = "none" => said.buffer = all
      /\ said.verdict = "resolve" => Len(all) >= 2 /\ all[1] = 97 /\ ZeroBehindTen(all)
  BY Zenon, <1>4 DEF Handled, Answered
<1>6. /\ after.buffer = said.buffer
      /\ before.verdict = "none" => after.verdict = said.verdict
      /\ before.verdict # "none" => after.verdict = before.verdict
  <2>1. PICK next : next = HeardNext(before, data)
    OBVIOUS
  <2>2. /\ next.buffer = said.buffer
        /\ before.verdict = "none" => next.verdict = said.verdict
        /\ before.verdict # "none" => next.verdict = before.verdict
    BY ONLY <1>2, <2>1, HeardFields
  <2> QED
    BY Zenon, <2>1, <2>2
<1>7. CASE before.verdict # "none"
  BY Zenon, <1>1, <1>5, <1>6, <1>7 DEF Reached
<1>8. CASE before.verdict = "none"
  <2>1. PICK pos : Traces(before.buffer, A, hi, pos)
    BY Zenon, <1>1, <1>8
  <2>2. PICK q : Traces(before.buffer \o data, A, lo + n, q)
    BY <1>1, <2>1, PieceTraced
  <2>3. Traces(all, A, lo + n, q) /\ all \in Seq(Byte) /\ lo + n \in Nat
    <3>1. before.buffer \o data \in Seq(Byte)
      BY <1>1, ConcatProperties
    <3>2. lo + n \in Nat
      OBVIOUS
    <3> QED
      BY Zenon, <1>3, <2>2, <3>1, <3>2
  <2>4. after.verdict = "none" => Traces(after.buffer, A, lo + n, q)
    BY Zenon, <1>5, <1>6, <1>8, <2>3
  <2>5. PlainHeader(A) /\ after.verdict = "resolve" => SaysSuccess(A)
    <3> SUFFICES ASSUME PlainHeader(A), after.verdict = "resolve" PROVE SaysSuccess(A)
      BY Zenon
    <3>1. Len(all) >= 2 /\ all[1] = 97 /\ ZeroBehindTen(all)
      BY Zenon, <1>5, <1>6, <1>8
    <3> QED
      BY Zenon, <2>3, <3>1, ZeroTraced
  <2> QED
    BY Zenon, <1>5, <1>6, <1>8, <2>4, <2>5 DEF Reached
<1> QED
  BY Zenon, <1>7, <1>8

\* All listeners hear it, each after the one before.
LEMMA AllReachOn ==
  ASSUME NEW A \in Answers, NEW data \in Seq(Byte), NEW lo \in Nat, NEW n \in Nat,
         n = Len(data), n > 0, \A t \in 1..n : lo + t <= Len(A) => data[t] = A[lo + t],
         NEW client, NEW N \in Nat, N # 0, NEW f, HeardUpTo(f, client, data, N),
         Reached(HeardFirst(client), A, lo)
  PROVE  Reached(f[N], A, lo + n)
<1> DEFINE Bad == {k \in 1..N : ~ Reached(f[k], A, lo + n)}
<1>1. Bad = {}
  <2> SUFFICES ASSUME Bad # {} PROVE FALSE
    OBVIOUS
  <2>1. PICK k \in Bad : \A m \in Bad : k <= m
    <3>1. Bad \in SUBSET Nat
      OBVIOUS
    <3> HIDE DEF Bad
    <3> QED
      BY Zenon, <3>1, LeastNumber
  <2>2. k \in 1..N /\ ~ Reached(f[k], A, lo + n)
    OBVIOUS
  <2>3. k \in 0..N /\ k # 0 /\ k - 1 \in 0..N /\ ~(k <= k - 1)
    BY <2>2
  <2>4. f[k] = HeardNext(f[k - 1], data)
    BY <2>3, HeardUpToAt
  <2>5. \E hi \in {lo, lo + n} : Reached(f[k - 1], A, hi)
    <3>1. CASE k - 1 = 0
      <4>1. f[k - 1] = HeardFirst(client)
        BY <2>3, <3>1, HeardUpToAt
      <4> HIDE DEF Bad
      <4> QED
        BY Zenon, <4>1
    <3>2. CASE k - 1 # 0
      <4>1. k - 1 \in 1..N
        BY <2>2, <3>2
      <4>2. k - 1 \notin Bad
        <5> HIDE DEF Bad
        <5> QED
          BY <2>1, <2>3
      <4>3. Reached(f[k - 1], A, lo + n)
        BY Zenon, <4>1, <4>2
      <4> HIDE DEF Bad
      <4> QED
        BY Zenon, <4>3
    <3> QED
      BY Zenon, <3>1, <3>2
  <2> HIDE DEF Bad
  <2>6. PICK hi \in {lo, lo + n} : Reached(f[k - 1], A, hi)
    BY Zenon, <2>5
  <2>7. Reached(f[k], A, lo + n)
    BY Zenon, <2>4, <2>6, ReachesOn
  <2> QED
    BY Zenon, <2>2, <2>7
<1>2. N \in 1..N
  OBVIOUS
<1> QED
  BY Zenon, <1>1, <1>2

\* A bind(): what is to come goes on as before, or begins.
LEMMA BoundTalkOften ==
  ASSUME NEW ls, NEW as, NEW co, NEW bu, NEW ve, NEW answer \in Answers,
         TalkTyped(ls, as, co, bu, ve), TalkOften(ls, as, co, bu, ve)
  PROVE  TalkOften(ls + 1, Append(as, answer), co \o answer, bu, ve)
<1>1. /\ ls \in Nat /\ as \in Seq(Answers) /\ Len(as) = ls
      /\ co \in Seq(Byte) /\ bu \in Seq(Byte) /\ ve \in Answered
      /\ ls = 0 => co = <<>> /\ bu = <<>> /\ ve = "none"
  BY DEF TalkTyped
<1>2. answer \in Seq(Byte) /\ Len(answer) \in Nat /\ Len(answer) > 0
  BY AnswersAssumption, LenProperties
<1>3. CASE ls = 0
  <2>1. co = <<>> /\ bu = <<>> /\ ve = "none"
    BY <1>1, <1>3
  <2>2. Append(as, answer)[1] = answer
    BY <1>1, <1>3, AppendProperties
  <2>3. co \o answer = answer
    BY <1>2, <2>1, ConcatEmptySeq
  <2>4. GoesOn(answer, 0, answer)
    BY <1>2 DEF GoesOn
  <2>5. Traces(bu, answer, 0, <<>>)
    <3>1. Len(bu) = 0
      BY <2>1
    <3> QED
      BY <3>1 DEF Traces
  <2>6. ve = "none" /\ ve # "resolve" /\ 0 \in Nat
    BY <2>1
  <2> QED
    BY Zenon, <2>2, <2>3, <2>4, <2>5, <2>6 DEF TalkOften
<1>4. CASE ls # 0
  <2>1. PICK A : A = as[1]
    OBVIOUS
  <2>2. A \in Answers /\ Append(as, answer)[1] = A
    <3>1. Len(as) # 0
      BY Zenon, <1>1, <1>4
    <3> QED
      BY Zenon, <1>1, <2>1, <3>1, FirstStays
  <2>3. ASSUME ve = "none"
        PROVE  \E hi \in Nat : \E pos : GoesOn(co \o answer, hi, A) /\ Traces(bu, A, hi, pos)
    <3>1. PICK hi \in Nat : \E pos : GoesOn(co, hi, A) /\ Traces(bu, A, hi, pos)
      BY Zenon, <1>4, <2>1, <2>3 DEF TalkOften
    <3>2. PICK pos : GoesOn(co, hi, A) /\ Traces(bu, A, hi, pos)
      BY Zenon, <3>1
    <3>3. PICK l \in Nat : l = Len(co)
      BY Zenon, <1>1, LenProperties
    <3>4. PICK m \in Nat : m = Len(answer)
      BY Zenon, <1>2
    <3>5. PICK L \in Nat : L = Len(A)
      BY Zenon, <2>2, AnswersAssumption, LenProperties
    <3>6. l + hi >= L /\ \A j \in 1..l : hi + j <= L => co[j] = A[hi + j]
      BY Zenon, <3>2, <3>3, <3>5 DEF GoesOn
    <3>7. IsConcat(co \o answer, co, answer, l, m)
      BY Zenon, <1>1, <1>2, <3>3, <3>4, ConcatIs
    <3>8. PICK s : s = co \o answer
      OBVIOUS
    <3>9. Len(s) = l + m /\ \A j \in 1..l : s[j] = co[j]
      BY Zenon, <3>7, <3>8 DEF IsConcat
    <3>10. (l + m) + hi >= L
      BY <3>6
    <3>11. ASSUME NEW j \in 1..(l + m), hi + j <= L PROVE s[j] = A[hi + j]
      <4>1. j \in 1..l
        BY <3>6, <3>11
      <4> QED
        BY Zenon, <3>6, <3>9, <3>11, <4>1
    <3>12. GoesOn(s, hi, A)
      BY Zenon, <3>5, <3>9, <3>10, <3>11 DEF GoesOn
    <3> QED
      BY Zenon, <3>2, <3>8, <3>12
  <2>4. PlainHeader(A) /\ ve = "resolve" => SaysSuccess(A)
    BY Zenon, <1>4, <2>1 DEF TalkOften
  <2> QED
    BY Zenon, <2>2, <2>3, <2>4 DEF TalkOften
<1> QED
  BY Zenon, <1>3, <1>4

\* A piece is heard by all.
LEMMA HeardTalkOften ==
  ASSUME NEW client, NEW as, NEW co, NEW bu, NEW ve, NEW ls,
         client.listeners = ls, client.buffer = bu, client.verdict = ve,
         TalkTyped(ls, as, co, bu, ve), TalkOften(ls, as, co, bu, ve),
         NEW n \in 1..Len(co), NEW data, NEW rest,
         data = SubSeq(co, 1, n), rest = SubSeq(co, n + 1, Len(co)),
         NEW hb, NEW hv, hb = Heard(client, data).buffer, hv = Heard(client, data).verdict
  PROVE  TalkOften(ls, as, rest, hb, hv)
<1>1. /\ ls \in Nat /\ as \in Seq(Answers) /\ Len(as) = ls
      /\ co \in Seq(Byte) /\ bu \in Seq(Byte) /\ ve \in Answered
  BY Zenon DEF TalkTyped
<1> SUFFICES ASSUME ls # 0 PROVE TalkOften(ls, as, rest, hb, hv)
  BY Zenon DEF TalkOften
<1>2. PICK m \in Nat : m = Len(co)
  BY Zenon, <1>1, LenProperties
<1>3. /\ data \in Seq(Byte) /\ Len(data) = n /\ \A i \in 1..n : data[i] = co[i]
      /\ rest \in Seq(Byte) /\ Len(rest) = m - n
      /\ \A i \in 1..(m - n) : rest[i] = co[n + i]
  <2>1. Len(co) - n = m - n
    BY Zenon, <1>2
  <2>2. /\ data \in Seq(Byte) /\ Len(data) = n /\ \A i \in 1..n : data[i] = co[i]
        /\ rest \in Seq(Byte) /\ Len(rest) = Len(co) - n
        /\ \A i \in 1..(Len(co) - n) : rest[i] = co[n + i]
    <3>1. IsCut(co, n, data, rest)
      BY Zenon, <1>1, CutIs
    <3> QED
      BY Zenon, <3>1 DEF IsCut
  <2> QED
    BY Zenon, <2>1, <2>2
<1>4. PICK A : A = as[1]
  OBVIOUS
<1>5. A \in Answers
  <2>1. 1 \in 1..Len(as)
    BY <1>1
  <2> QED
    BY Zenon, <1>1, <1>4, <2>1, ElementOfSeq
<1>6. PlainHeader(A) /\ ve = "resolve" => SaysSuccess(A)
  BY Zenon, <1>4 DEF TalkOften
<1>7. CASE ve # "none"
  <2>1. client.verdict \in {"none", "resolve", "reject"} /\ client.listeners \in Nat
        /\ client.buffer \in Seq(Byte)
    BY Zenon, <1>1 DEF Answered
  <2>2. hv = ve
    BY Zenon, <1>3, <1>7, <2>1, HeardTyped
  <2> QED
    BY Zenon, <1>4, <1>6, <1>7, <2>2 DEF TalkOften
<1>8. CASE ve = "none"
  <2>1. PICK lo \in Nat : \E pos : GoesOn(co, lo, A) /\ Traces(bu, A, lo, pos)
    BY Zenon, <1>4, <1>8 DEF TalkOften
  <2>2. PICK pos : GoesOn(co, lo, A) /\ Traces(bu, A, lo, pos)
    BY Zenon, <2>1
  <2>3. PICK L \in Nat : L = Len(A)
    BY Zenon, <1>5, AnswersAssumption, LenProperties
  <2>4. m + lo >= L /\ \A j \in 1..m : lo + j <= L => co[j] = A[lo + j]
    BY Zenon, <1>2, <2>2, <2>3 DEF GoesOn
  <2>5. n \in 1..m
    BY Zenon, <1>2
  <2>6. n \in Nat /\ n > 0 /\ n = Len(data) /\ \A t \in 1..n : t \in 1..m
    BY ONLY n \in 1..m, <2>5, m \in Nat, <1>3, Len(data) = n
  <2>7. \A t \in 1..n : lo + t <= Len(A) => data[t] = A[lo + t]
    BY Zenon, <1>3, <2>3, <2>4, <2>6
  <2>8. Reached(HeardFirst(client), A, lo)
    <3>1. HeardFirst(client).buffer = bu /\ HeardFirst(client).verdict = ve
      BY Zenon DEF HeardFirst
    <3> QED
      BY Zenon, <1>1, <1>8, <1>6, <2>2, <3>1 DEF Reached
  <2>9. PICK f : HeardUpTo(f, client, data, ls) /\ Heard(client, data) = f[ls]
    BY Zenon, <1>1, HeardIs
  <2>10. Reached(f[ls], A, lo + n)
    BY Zenon, <1>1, <1>3, <1>5, <2>6, <2>7, <2>8, <2>9, AllReachOn
  <2>11. /\ hv = "none" => \E q : Traces(hb, A, lo + n, q)
         /\ PlainHeader(A) /\ hv = "resolve" => SaysSuccess(A)
    BY Zenon, <2>9, <2>10 DEF Reached
  <2>12. GoesOn(rest, lo + n, A) /\ lo + n \in Nat
    <3>1. (m - n) + (lo + n) >= L /\ lo + n \in Nat
      BY ONLY <2>4, <2>5, n \in 1..m, m \in Nat, L \in Nat, lo \in Nat
    <3>2. ASSUME NEW j \in 1..(m - n), (lo + n) + j <= L PROVE rest[j] = A[(lo + n) + j]
      <4>1. n + j \in 1..m /\ lo + (n + j) = (lo + n) + j
        BY ONLY <2>5, n \in 1..m, m \in Nat, L \in Nat, lo \in Nat, j \in 1..(m - n)
      <4>2. rest[j] = co[n + j]
        BY Zenon, <1>3
      <4>3. co[n + j] = A[lo + (n + j)]
        BY Zenon, <2>4, <3>2, <4>1
      <4> QED
        BY Zenon, <4>1, <4>2, <4>3
    <3> QED
      BY Zenon, <1>3, <2>3, <3>1, <3>2 DEF GoesOn
  <2> QED
    BY Zenon, <1>4, <2>11, <2>12 DEF TalkOften
<1> QED
  BY Zenon, <1>7, <1>8

=============================================================================
