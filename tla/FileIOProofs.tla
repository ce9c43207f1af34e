---------------------------- MODULE FileIOProofs ----------------------------
(***************************************************************************)
(* What holds of the bytes behind the handles for every block size, every  *)
(* file size and every offset.                                             *)
(***************************************************************************)
EXTENDS FileIO, WellFoundedInduction, TLAPS

(* The loops of the transfers are recursive functions of the number of     *)
(* blocks.  What they compute is shown by looking at the least number for  *)
(* which it would not hold.                                                *)

\* A set of numbers has a least one.
LEMMA Least ==
    ASSUME NEW S \in SUBSET Nat, S # {}
    PROVE  \E m \in S : \A k \in S : m <= k
<1> DEFINE R == {p \in Nat \X Nat : p[1] < p[2]}
<1>1. IsWellFoundedOn(R, Nat)
  BY NatLessThanWellFounded DEF OpToRel
<1> HIDE DEF R
<1>2. PICK m \in S : \A y \in S : ~ (<<y, m>> \in R)
  BY <1>1, WFMin
<1>3. \A y \in S : ~ (y < m)
  BY <1>2 DEF R
<1>4. QED
  BY <1>3

\* A set that holds zero, and with a number the next one, holds all of them.
LEMMA Induction ==
    ASSUME NEW S \in SUBSET Nat, 0 \in S, \A n \in Nat : n \in S => n + 1 \in S
    PROVE  S = Nat
<1>1. SUFFICES ASSUME Nat \ S # {} PROVE FALSE
  OBVIOUS
<1>2. PICK m \in Nat \ S : \A k \in Nat \ S : m <= k
  BY <1>1, Least
<1>3. m # 0 /\ m - 1 \in Nat
  BY <1>2
<1>4. m - 1 \in S
  <2>1. ~ (m <= m - 1)
    BY <1>3
  <2>2. QED
    BY <1>2, <1>3, <2>1
<1>5. m - 1 + 1 = m
  BY <1>2
<1>6. QED
  BY <1>2, <1>3, <1>4, <1>5

\* A function on the naturals is defined by what it is at zero and a step.
Follows(f, S, base, step) ==
    /\ f \in [Nat -> S]
    /\ \A k \in Nat : f[k] = IF k = 0 THEN base ELSE step[<<k, f[k - 1]>>]

\* A base and a step define a function on the numbers.
LEMMA Recursion ==
    ASSUME NEW S, NEW base \in S, NEW step \in [Nat \X S -> S]
    PROVE  \E f : Follows(f, S, base, step)
<1> DEFINE Upto(n, g) == /\ g \in [0 .. n -> S]
                         /\ \A k \in 0 .. n : g[k] = IF k = 0 THEN base ELSE step[<<k, g[k - 1]>>]
           Defined == {n \in Nat : \E g : Upto(n, g)}
<1>1. Defined = Nat
  <2>1. 0 \in Defined
    <3>1. Upto(0, [k \in 0 .. 0 |-> base])
      OBVIOUS
    <3>2. QED
      BY <3>1
  <2>2. ASSUME NEW n \in Nat, n \in Defined PROVE n + 1 \in Defined
    <3>1. PICK g : Upto(n, g)
      BY <2>2
    <3> DEFINE h == [k \in 0 .. n + 1 |-> IF k = n + 1 THEN step[<<n + 1, g[n]>>] ELSE g[k]]
    <3>2. step[<<n + 1, g[n]>>] \in S
      BY <3>1
    <3>3. h \in [0 .. n + 1 -> S]
      BY <3>1, <3>2
    <3>4. h[n + 1] = step[<<n + 1, h[n]>>]
      <4>1. n + 1 \in 0 .. n + 1 /\ n \in 0 .. n + 1 /\ n # n + 1
        OBVIOUS
      <4>2. h[n + 1] = step[<<n + 1, g[n]>>] /\ h[n] = g[n]
        BY <4>1
      <4> HIDE DEF h
      <4>3. QED
        BY <4>2
    <3>5. \A k \in 0 .. n : h[k] = g[k] /\ (k # 0 => h[k - 1] = g[k - 1])
      OBVIOUS
    <3> HIDE DEF h
    <3>6. ASSUME NEW k \in 0 .. n PROVE h[k] = IF k = 0 THEN base ELSE step[<<k, h[k - 1]>>]
      <4>1. g[k] = IF k = 0 THEN base ELSE step[<<k, g[k - 1]>>]
        BY <3>1
      <4>2. QED
        BY <3>5, <4>1
    <3>7. ASSUME NEW k \in 0 .. n + 1 PROVE h[k] = IF k = 0 THEN base ELSE step[<<k, h[k - 1]>>]
      <4>1. CASE k = n + 1
        <5>1. k - 1 = n /\ k # 0
          BY <4>1
        <5>2. QED
          BY <3>4, <4>1, <5>1
      <4>2. CASE k # n + 1
        <5>1. k \in 0 .. n
          BY <4>2
        <5>2. QED
          BY <3>6, <5>1
      <4>3. QED
        BY <4>1, <4>2
    <3>8. Upto(n + 1, h)
      BY <3>3, <3>7
    <3>9. QED
      BY <3>8
  <2> HIDE DEF Defined
  <2>3. Defined \in SUBSET Nat
    BY DEF Defined
  <2>4. QED
    BY <2>1, <2>2, <2>3, Induction
<1> DEFINE part(n) == CHOOSE g : Upto(n, g)
           f == [n \in Nat |-> part(n)[n]]
<1>2. \A n \in Nat : Upto(n, part(n))
  BY <1>1
<1> HIDE DEF part
<1>3. ASSUME NEW n \in Nat PROVE part(n + 1)[n] = part(n)[n]
  <2> DEFINE Agree == {k \in Nat : k <= n => part(n + 1)[k] = part(n)[k]}
  <2>1. 0 \in Agree
    <3>1. n + 1 \in Nat /\ 0 \in 0 .. n /\ 0 \in 0 .. n + 1
      OBVIOUS
    <3>2. part(n + 1)[0] = base /\ part(n)[0] = base
      BY <1>2, <3>1
    <3>3. QED
      BY <3>2
  <2>2. ASSUME NEW k \in Nat, k \in Agree PROVE k + 1 \in Agree
    <3>1. SUFFICES ASSUME k + 1 <= n PROVE part(n + 1)[k + 1] = part(n)[k + 1]
      OBVIOUS
    <3>2. /\ k + 1 \in 0 .. n /\ k + 1 \in 0 .. n + 1 /\ k + 1 # 0 /\ k + 1 - 1 = k /\ k <= n
          /\ n + 1 \in Nat
      BY <3>1
    <3>3. part(n + 1)[k + 1] = step[<<k + 1, part(n + 1)[k]>>]
      BY <1>2, <3>2
    <3>4. part(n)[k + 1] = step[<<k + 1, part(n)[k]>>]
      BY <1>2, <3>2
    <3>5. part(n + 1)[k] = part(n)[k]
      BY <2>2, <3>2
    <3>6. QED
      BY <3>3, <3>4, <3>5
  <2> HIDE DEF Agree
  <2>3. Agree \in SUBSET Nat
    BY DEF Agree
  <2>4. Agree = Nat
    BY <2>1, <2>2, <2>3, Induction
  <2>5. n \in Agree
    BY <2>4
  <2>6. QED
    BY <2>5 DEF Agree
<1>4. ASSUME NEW k \in Nat PROVE f[k] = IF k = 0 THEN base ELSE step[<<k, f[k - 1]>>]
  <2>1. CASE k = 0
    <3>1. 0 \in 0 .. 0
      OBVIOUS
    <3>2. part(0)[0] = base
      BY <1>2, <3>1
    <3>3. QED
      BY <2>1, <3>2
  <2>2. CASE k # 0
    <3>1. k - 1 \in Nat /\ k - 1 + 1 = k /\ k \in 0 .. k
      BY <2>2
    <3>2. part(k)[k - 1] = part(k - 1)[k - 1]
      BY <1>3, <3>1
    <3>3. part(k)[k] = step[<<k, part(k)[k - 1]>>]
      BY <1>2, <2>2, <3>1
    <3>4. QED
      BY <2>2, <3>1, <3>2, <3>3
  <2>3. QED
    BY <2>1, <2>2
<1>5. ASSUME NEW k \in Nat PROVE f[k] \in S
  <2>1. part(k) \in [0 .. k -> S] /\ k \in 0 .. k
    BY <1>2
  <2>2. QED
    BY <2>1
<1>6. f \in [Nat -> S]
  BY <1>5
<1> HIDE DEF f
<1>7. QED
  BY <1>4, <1>6 DEF Follows
----------------------------------------------------------------------------
(* How far a transfer comes. *)

\* The smaller of two numbers.
LEMMA MinOfTwo ==
    ASSUME NEW a \in Int, NEW b \in Int PROVE Min({a, b}) = IF a <= b THEN a ELSE b
BY DEF Min

\* The greater of two numbers.
LEMMA MaxOfTwo ==
    ASSUME NEW a \in Int, NEW b \in Int PROVE Max({a, b}) = IF a >= b THEN a ELSE b
BY DEF Max

\* A chunk never takes more than is left, and takes something if anything is.
LEMMA Chunks ==
    ASSUME NEW position \in Nat, NEW left \in Nat
    PROVE  Chunk(position, left) \in 0 .. left /\ (left > 0 => Chunk(position, left) > 0)
<1>1. BlockSize \in Nat \ {0}
  BY FileIOAssumption
<1>2. position % BlockSize \in 0 .. BlockSize - 1
  BY <1>1
<1>3. Chunk(position, left) = IF BlockSize - (position % BlockSize) <= left
                              THEN BlockSize - (position % BlockSize) ELSE left
  BY <1>1, <1>2, MinOfTwo DEF Chunk
<1>4. QED
  BY <1>1, <1>2, <1>3

\* What the copying loops have copied after k blocks, and that it never exceeds the count.
LEMMA TotalSteps ==
    ASSUME NEW start \in Nat, NEW count \in Nat
    PROVE  /\ Total(start, count, 0) = 0
           /\ \A k \in Nat : /\ Total(start, count, k) \in 0 .. count
                             /\ Total(start, count, k + 1) = Total(start, count, k)
                                   + Chunk(start + Total(start, count, k), count - Total(start, count, k))
<1> DEFINE S == 0 .. count
           step == [p \in Nat \X S |-> p[2] + Chunk(start + p[2], count - p[2])]
           G(g) == g = [k \in Nat |-> IF k = 0 THEN 0
                                     ELSE LET t == g[k - 1] IN t + Chunk(start + t, count - t)]
           total == CHOOSE g : G(g)
<1>1. ASSUME NEW t \in S PROVE t + Chunk(start + t, count - t) \in S
  <2>1. start + t \in Nat /\ count - t \in Nat
    OBVIOUS
  <2>2. Chunk(start + t, count - t) \in 0 .. count - t
    BY <2>1, Chunks
  <2>3. QED
    BY <2>2
<1>2. step \in [Nat \X S -> S]
  BY <1>1
<1>3. PICK f : Follows(f, S, 0, step)
  <2>1. 0 \in S
    OBVIOUS
  <2> HIDE DEF S, step
  <2>2. QED
    BY <1>2, <2>1, Recursion
<1>4. ASSUME NEW k \in Nat, k # 0
      PROVE  step[<<k, f[k - 1]>>] = f[k - 1] + Chunk(start + f[k - 1], count - f[k - 1])
  <2>1. k - 1 \in Nat
    BY <1>4
  <2>2. f[k - 1] \in S
    BY <1>3, <2>1 DEF Follows
  <2>3. QED
    BY <2>2
<1> HIDE DEF step
<1>5. G(f)
  <2>1. \A k \in Nat : f[k] = IF k = 0 THEN 0
                              ELSE f[k - 1] + Chunk(start + f[k - 1], count - f[k - 1])
    BY <1>3, <1>4 DEF Follows
  <2>2. f \in [Nat -> S]
    BY <1>3 DEF Follows
  <2>3. QED
    BY <2>1, <2>2
<1>6. G(total)
  BY <1>5
<1>7. \A k : Total(start, count, k) = total[k]
  BY DEF Total
<1> HIDE DEF total
<1>8. total[0] = 0
  BY <1>6
<1>9. ASSUME NEW k \in Nat
      PROVE  total[k + 1] = total[k] + Chunk(start + total[k], count - total[k])
  <2>1. k + 1 \in Nat /\ k + 1 # 0 /\ k + 1 - 1 = k
    OBVIOUS
  <2>2. QED
    BY <1>6, <2>1
<1>10. {k \in Nat : total[k] \in S} = Nat
  <2> DEFINE T == {k \in Nat : total[k] \in S}
  <2>1. 0 \in T
    BY <1>8
  <2>2. \A k \in Nat : k \in T => k + 1 \in T
    BY <1>1, <1>9
  <2> HIDE DEF T
  <2>3. T \in SUBSET Nat
    BY DEF T
  <2>4. T = Nat
    BY <2>1, <2>2, <2>3, Induction
  <2>5. QED
    BY <2>4 DEF T
<1>11. QED
  BY <1>7, <1>8, <1>9, <1>10

\* Every block brings the transfer on until it is done, so it is done after at
\* most as many blocks as it has bytes.
LEMMA Transfers ==
    ASSUME NEW start \in Nat, NEW count \in Nat
    PROVE  /\ Touched(start, count) \in 0 .. count
           /\ Total(start, count, Touched(start, count)) = count
<1> DEFINE total(k) == Total(start, count, k)
<1>1. total(0) = 0 /\ \A k \in Nat : total(k) \in 0 .. count
  BY TotalSteps
<1>2. ASSUME NEW k \in Nat
      PROVE  total(k + 1) >= total(k) /\ (total(k) < count => total(k + 1) >= total(k) + 1)
  <2>1. total(k) \in 0 .. count
    BY <1>1
  <2>2. start + total(k) \in Nat /\ count - total(k) \in Nat
    BY <2>1
  <2>3. total(k + 1) = total(k) + Chunk(start + total(k), count - total(k))
    BY TotalSteps
  <2>4. /\ Chunk(start + total(k), count - total(k)) \in 0 .. count - total(k)
        /\ count - total(k) > 0 => Chunk(start + total(k), count - total(k)) > 0
    BY <2>2, Chunks
  <2> HIDE DEF total
  <2>5. QED
    BY <2>1, <2>2, <2>3, <2>4
<1> HIDE DEF total
<1>3. {k \in Nat : total(k) = count \/ total(k) >= k} = Nat
  <2> DEFINE T == {k \in Nat : total(k) = count \/ total(k) >= k}
  <2>1. 0 \in T
    BY <1>1
  <2>2. ASSUME NEW k \in Nat, k \in T PROVE k + 1 \in T
    <3>1. k + 1 \in Nat /\ total(k) \in 0 .. count /\ total(k + 1) \in 0 .. count
      BY <1>1
    <3>2. total(k) = count \/ total(k) >= k
      BY <2>2
    <3>3. total(k + 1) = count \/ total(k + 1) >= k + 1
      BY <1>2, <3>1, <3>2
    <3>4. QED
      BY <3>1, <3>3
  <2> HIDE DEF T
  <2>3. T \in SUBSET Nat
    BY DEF T
  <2>4. T = Nat
    BY <2>1, <2>2, <2>3, Induction
  <2>5. QED
    BY <2>4 DEF T
<1>4. total(count) = count
  <2>1. total(count) \in 0 .. count
    BY <1>1
  <2>2. total(count) = count \/ total(count) >= count
    BY <1>3
  <2>3. QED
    BY <2>1, <2>2
<1> DEFINE Done == {k \in Nat : total(k) = count}
<1>5. PICK m \in Done : \A k \in Done : m <= k
  <2>1. Done \in SUBSET Nat /\ Done # {}
    BY <1>4
  <2> HIDE DEF Done
  <2>2. QED
    BY <2>1, Least
<1>6. m \in 0 .. count /\ total(m) = count
  BY <1>4, <1>5
<1>7. \A j \in 0 .. m - 1 : total(j) < count
  <2>1. SUFFICES ASSUME NEW j \in 0 .. m - 1 PROVE total(j) < count
    OBVIOUS
  <2>2. j \in Nat /\ ~ (m <= j) /\ total(j) \in 0 .. count
    BY <1>1, <1>5
  <2>3. total(j) # count
    BY <1>5, <2>2
  <2>4. QED
    BY <2>2, <2>3
<1>8. \E k \in 0 .. count : total(k) = count /\ \A j \in 0 .. k - 1 : total(j) < count
  BY <1>6, <1>7
<1>9. QED
  BY <1>8 DEF Touched, total

\* Whatever a transfer may get through is a prefix of it, and all of it unless a
\* block fails.
LEMMA ProgressIs ==
    ASSUME NEW start \in Nat, NEW count \in Nat, NEW blocks \in Progress(start, count)
    PROVE  /\ blocks \in Nat /\ Total(start, count, blocks) \in 0 .. count
           /\ MayFail \/ Total(start, count, blocks) = count
<1>1. Touched(start, count) \in 0 .. count /\ Total(start, count, Touched(start, count)) = count
  BY Transfers
<1>2. blocks \in Nat /\ (~ MayFail => blocks = Touched(start, count))
  <2>1. CASE MayFail
    <3>1. blocks \in 0 .. Touched(start, count)
      BY <2>1 DEF Progress
    <3>2. QED
      BY <1>1, <2>1, <3>1
  <2>2. CASE ~ MayFail
    BY <1>1, <2>2 DEF Progress
  <2>3. QED
    BY <2>1, <2>2
<1>3. Total(start, count, blocks) \in 0 .. count
  BY <1>2, TotalSteps
<1>4. QED
  BY <1>1, <1>2, <1>3
----------------------------------------------------------------------------
(* What a transfer copies. *)

\* The file after a part of the data was copied into it.
Overlaid(bytes, start, data, done) ==
    [i \in 1 .. Len(bytes) |-> IF i \in start + 1 .. start + done THEN data[i - start] ELSE bytes[i]]

\* One more block of the loop is one more chunk of the data.
LEMMA OneMoreBlock ==
    ASSUME NEW bytes \in Seq(Byte), NEW data \in Seq(Byte), NEW start \in Nat, NEW k \in Nat
    PROVE  LET total == Total(start, Len(data), k) IN
           Overlaid(bytes, start, data, Total(start, Len(data), k + 1)) =
              CopyBlock(Overlaid(bytes, start, data, total), start + total, total, data)
<1> DEFINE t == Total(start, Len(data), k)
           u == Total(start, Len(data), k + 1)
           c == Chunk(start + t, Len(data) - t)
<1>1. t \in 0 .. Len(data) /\ u = t + c
  <2>1. Len(data) \in Nat
    OBVIOUS
  <2>2. QED
    BY <2>1, TotalSteps
<1>2. c \in 0 .. Len(data) - t
  <2>1. start + t \in Nat /\ Len(data) - t \in Nat
    BY <1>1
  <2>2. QED
    BY <2>1, Chunks
<1> HIDE DEF t, u, c
<1>3. DOMAIN Overlaid(bytes, start, data, t) = 1 .. Len(bytes)
  BY DEF Overlaid
<1>4. \A i \in 1 .. Len(bytes) :
         i \in start + 1 .. start + u <=>
            i \in start + t + 1 .. start + t + c \/ i \in start + 1 .. start + t
  BY <1>1, <1>2
<1>5. \A i \in 1 .. Len(bytes) : t + i - (start + t) = i - start
  BY <1>1
<1>6. CopyBlock(Overlaid(bytes, start, data, t), start + t, t, data) =
         [i \in 1 .. Len(bytes) |->
             IF i \in start + t + 1 .. start + t + c THEN data[t + i - (start + t)]
             ELSE Overlaid(bytes, start, data, t)[i]]
  BY <1>3 DEF CopyBlock, c
<1>7. Overlaid(bytes, start, data, u) =
         CopyBlock(Overlaid(bytes, start, data, t), start + t, t, data)
  BY <1>4, <1>5, <1>6 DEF Overlaid
<1>8. QED
  BY <1>7 DEF t, u

\* A copy into a file puts the bytes it got through where they belong, and keeps
\* every other byte.
LEMMA CopyInIs ==
    ASSUME NEW bytes \in Seq(Byte), NEW data \in Seq(Byte), NEW start \in Nat, NEW blocks \in Nat
    PROVE  CopyIn(bytes, start, data, blocks) =
              Overlaid(bytes, start, data, Total(start, Len(data), blocks))
<1> DEFINE G(g) == g = [k \in Nat |-> IF k = 0 THEN bytes
                          ELSE LET total == Total(start, Len(data), k - 1)
                               IN  CopyBlock(g[k - 1], start + total, total, data)]
           copy == CHOOSE g : G(g)
           state(k) == Overlaid(bytes, start, data, Total(start, Len(data), k))
           loop == [k \in Nat |-> state(k)]
<1>1. state(0) = bytes
  <2>1. Total(start, Len(data), 0) = 0
    BY TotalSteps
  <2>2. QED
    BY <2>1 DEF Overlaid
<1>2. \A k \in Nat : LET total == Total(start, Len(data), k)
                      IN  state(k + 1) = CopyBlock(state(k), start + total, total, data)
  BY OneMoreBlock
<1> HIDE DEF state
<1>3. ASSUME NEW k \in Nat, k # 0
      PROVE  LET total == Total(start, Len(data), k - 1)
             IN  state(k) = CopyBlock(state(k - 1), start + total, total, data)
  <2>1. k - 1 \in Nat /\ k - 1 + 1 = k
    BY <1>3
  <2>2. QED
    BY <1>2, <2>1
<1>4. G(loop)
  <2>1. \A k \in Nat : loop[k] = IF k = 0 THEN bytes
                                 ELSE LET total == Total(start, Len(data), k - 1)
                                      IN  CopyBlock(loop[k - 1], start + total, total, data)
    BY <1>1, <1>3
  <2>2. QED
    BY <2>1
<1>5. G(copy)
  BY <1>4
<1>6. CopyIn(bytes, start, data, blocks) = copy[blocks]
  BY DEF CopyIn
<1> HIDE DEF copy
<1>7. {k \in Nat : copy[k] = state(k)} = Nat
  <2> DEFINE T == {k \in Nat : copy[k] = state(k)}
  <2>1. 0 \in T
    BY <1>1, <1>5
  <2>2. ASSUME NEW k \in Nat, k \in T PROVE k + 1 \in T
    <3>1. k + 1 \in Nat /\ k + 1 # 0 /\ k + 1 - 1 = k
      OBVIOUS
    <3>2. copy[k + 1] = LET total == Total(start, Len(data), k)
                        IN  CopyBlock(copy[k], start + total, total, data)
      BY <1>5, <3>1
    <3>3. QED
      BY <1>2, <2>2, <3>1, <3>2
  <2> HIDE DEF T
  <2>3. T \in SUBSET Nat
    BY DEF T
  <2>4. T = Nat
    BY <2>1, <2>2, <2>3, Induction
  <2>5. QED
    BY <2>4 DEF T
<1>8. QED
  BY <1>6, <1>7 DEF state
\* The bytes of a file from a position on, with zeros behind its end.
Extract(bytes, start, length) ==
    [i \in 1 .. length |-> IF start + i <= Len(bytes) THEN bytes[start + i] ELSE 0]

\* As many bytes as were asked for.
LEMMA ExtractIsBytes ==
    ASSUME NEW bytes \in Seq(Byte), NEW start \in Nat, NEW length \in Nat
    PROVE  /\ Extract(bytes, start, length) \in Seq(Byte)
           /\ Len(Extract(bytes, start, length)) = length
<1>1. \A i \in 1 .. length : start + i <= Len(bytes) => start + i \in 1 .. Len(bytes)
  OBVIOUS
<1>2. 0 \in Byte
  BY DEF Byte
<1>3. \A i \in 1 .. length : (IF start + i <= Len(bytes) THEN bytes[start + i] ELSE 0) \in Byte
  BY <1>1, <1>2
<1>4. QED
  BY <1>3 DEF Extract

\* What was read so far and the next block's share are what is read then.
Joined(bytes, start, t, c) ==
    Extract(bytes, start, t) \o InBlock(bytes, start + t, c) = Extract(bytes, start, t + c)

\* So it is at every position and for every count.
LEMMA ExtractsJoin ==
    ASSUME NEW bytes \in Seq(Byte), NEW start \in Nat, NEW t \in Nat, NEW c \in Nat
    PROVE  Joined(bytes, start, t, c)
<1> DEFINE front == Extract(bytes, start, t)
           back == Extract(bytes, start + t, c)
           both == Extract(bytes, start, t + c)
<1>1. /\ front \in Seq(Byte) /\ Len(front) = t
      /\ back \in Seq(Byte) /\ Len(back) = c
      /\ both \in Seq(Byte) /\ Len(both) = t + c
  <2>1. start + t \in Nat /\ t + c \in Nat
    OBVIOUS
  <2>2. QED
    BY <2>1, ExtractIsBytes
<1>2. InBlock(bytes, start + t, c) = back
  BY DEF InBlock, Extract
<1>3. \A i \in 1 .. t : both[i] = front[i]
  BY DEF Extract
<1>4. \A i \in 1 .. c : both[t + i] = back[i]
  BY DEF Extract
<1> HIDE DEF front, back, both
<1>5. \A i \in 1 .. t + c : i \in 1 .. t \/ (i - t \in 1 .. c /\ i = t + (i - t))
  OBVIOUS
<1>6. \A i \in 1 .. t + c : (front \o back)[i] = both[i]
  BY <1>1, <1>3, <1>4, <1>5
<1>7. front \o back \in Seq(Byte) /\ Len(front \o back) = t + c
  <2>1. \A r, s \in Seq(Byte) : r \o s \in Seq(Byte) /\ Len(r \o s) = Len(r) + Len(s)
    OBVIOUS
  <2>2. QED
    BY <1>1, <2>1
<1>8. front \o back = both
  <2>1. \A r, s \in Seq(Byte) : Len(r) = Len(s) /\ (\A i \in 1 .. Len(r) : r[i] = s[i]) => r = s
    OBVIOUS
  <2>2. Len(front \o back) = Len(both) /\ \A i \in 1 .. Len(front \o back) : (front \o back)[i] = both[i]
    BY <1>1, <1>6, <1>7
  <2>3. QED
    BY <1>1, <1>7, <2>1, <2>2
<1>9. QED
  BY <1>2, <1>8 DEF front, both, Joined

\* A copy out of a file hands out its bytes from the position on.
LEMMA CopiesOut ==
    ASSUME NEW bytes \in Seq(Byte), NEW start \in Nat, NEW count \in Nat, NEW blocks \in Nat
    PROVE  CopyOut(bytes, start, count, blocks) =
              Extract(bytes, start, Total(start, count, blocks))
<1> DEFINE more(out) ==
              LET position == start + Len(out)
              IN  out \o InBlock(bytes, position, Chunk(position, count - Len(out)))
           G(g) == g = [k \in Nat |-> IF k = 0 THEN <<>> ELSE more(g[k - 1])]
           copy == CHOOSE g : G(g)
           state(k) == Extract(bytes, start, Total(start, count, k))
           loop == [k \in Nat |-> state(k)]
<1>1. state(0) = <<>>
  <2>1. Total(start, count, 0) = 0
    BY TotalSteps
  <2>2. QED
    BY <2>1 DEF Extract
<1>2. ASSUME NEW k \in Nat
      PROVE  state(k + 1) = more(state(k))
  <2> DEFINE t == Total(start, count, k)
             c == Chunk(start + t, count - t)
  <2>1. t \in 0 .. count /\ Total(start, count, k + 1) = t + c
    BY TotalSteps
  <2>2. c \in Nat
    <3>1. start + t \in Nat /\ count - t \in Nat
      BY <2>1
    <3> HIDE DEF t
    <3>2. c \in 0 .. count - t
      BY <3>1, Chunks
    <3>3. QED
      BY <3>1, <3>2
  <2> HIDE DEF t, c
  <2>3. t \in Nat
    BY <2>1
  <2>4. Len(Extract(bytes, start, t)) = t
    BY <2>3, ExtractIsBytes
  <2>5. Extract(bytes, start, t) \o InBlock(bytes, start + t, c) = Extract(bytes, start, t + c)
    <3>1. bytes \in Seq(Byte) /\ start \in Nat /\ t \in Nat /\ c \in Nat
      BY <2>2, <2>3
    <3>2. Joined(bytes, start, t, c)
      BY <3>1, ExtractsJoin
    <3>3. QED
      BY <3>2 DEF Joined
  <2>6. QED
    BY <2>1, <2>4, <2>5 DEF t, c
<1>3. CopyOut(bytes, start, count, blocks) = copy[blocks]
  BY DEF CopyOut
<1> HIDE DEF state, more
<1>4. ASSUME NEW k \in Nat, k # 0
      PROVE  state(k) = more(state(k - 1))
  <2>1. k - 1 \in Nat /\ k - 1 + 1 = k
    BY <1>4
  <2>2. QED
    BY <1>2, <2>1
<1>5. G(loop)
  <2>1. \A k \in Nat : loop[k] = IF k = 0 THEN <<>> ELSE more(loop[k - 1])
    <3>1. \A k \in Nat : k # 0 => k - 1 \in Nat
      OBVIOUS
    <3>2. QED
      BY <1>1, <1>4, <3>1
  <2>2. QED
    BY <2>1
<1>6. G(copy)
  BY <1>5
<1> HIDE DEF copy
<1>7. {k \in Nat : copy[k] = state(k)} = Nat
  <2> DEFINE T == {k \in Nat : copy[k] = state(k)}
  <2>1. 0 \in T
    BY <1>1, <1>6
  <2>2. ASSUME NEW k \in Nat, k \in T PROVE k + 1 \in T
    <3>1. k + 1 \in Nat /\ k + 1 # 0 /\ k + 1 - 1 = k
      OBVIOUS
    <3>2. copy[k + 1] = more(copy[k])
      BY <1>6, <3>1
    <3>3. QED
      BY <1>2, <2>2, <3>1, <3>2
  <2> HIDE DEF T
  <2>3. T \in SUBSET Nat
    BY DEF T
  <2>4. T = Nat
    BY <2>1, <2>2, <2>3, Induction
  <2>5. QED
    BY <2>4 DEF T
<1>8. QED
  BY <1>3, <1>7 DEF state
----------------------------------------------------------------------------
(* Seeking. *)

\* add_seek_offset is the sum, or fails: no step of its unsigned arithmetic wraps.
LEMMA SeekSums ==
    ASSUME NEW base \in 0 .. MaxOffset, NEW change \in -(MaxOffset + 1) .. MaxOffset
    PROVE  AddSeekOffset(base, change) =
              IF base + change \in 0 .. MaxOffset THEN base + change ELSE Failed
<1>1. MaxOffset \in Nat /\ Modulus \in Nat \ {0} /\ Modulus = 2 * (MaxOffset + 1)
  BY FileIOAssumption DEF Modulus
<1>2. \A x \in 0 .. Modulus - 1 : Wrap(x) = x
  BY <1>1 DEF Wrap
<1>3. \A x \in 0 .. MaxOffset : AsOffset(x) = x
  BY <1>1 DEF AsOffset
<1>4. CASE change >= 0
  <2>1. MaxOffset - change \in 0 .. Modulus - 1 /\ base + change \in 0 .. Modulus - 1
    BY <1>1, <1>4
  <2>2. Wrap(MaxOffset - change) = MaxOffset - change /\ Wrap(base + change) = base + change
    BY <1>2, <2>1
  <2>3. base <= MaxOffset - change => AsOffset(base + change) = base + change
    BY <1>1, <1>3, <1>4
  <2>4. AddSeekOffset(base, change) = IF base > MaxOffset - change THEN Failed
                                      ELSE AsOffset(base + change)
    BY <1>4, <2>2 DEF AddSeekOffset
  <2>5. QED
    BY <1>1, <1>4, <2>3, <2>4
<1>5. CASE ~ (change >= 0)
  <2>1. - (change + 1) \in 0 .. Modulus - 1 /\ - (change + 1) + 1 \in 0 .. Modulus - 1
    BY <1>1, <1>5
  <2>2. Wrap(- (change + 1)) = - (change + 1) /\ Wrap(- (change + 1) + 1) = - (change + 1) + 1
    BY <1>2, <2>1
  <2> DEFINE magnitude == - (change + 1) + 1
  <2>3. magnitude = - change
    BY <1>1
  <2>4. ~ (magnitude > base) => /\ base - magnitude \in 0 .. Modulus - 1
                                /\ base - magnitude \in 0 .. MaxOffset
    BY <1>1, <1>5, <2>3
  <2>5. AddSeekOffset(base, change) = IF magnitude > base THEN Failed
                                      ELSE AsOffset(Wrap(base - magnitude))
    BY <1>5, <2>2 DEF AddSeekOffset
  <2> HIDE DEF magnitude
  <2>6. ~ (magnitude > base) => AsOffset(Wrap(base - magnitude)) = base - magnitude
    BY <1>2, <1>3, <2>4
  <2>7. QED
    BY <1>1, <1>5, <2>3, <2>5, <2>6
<1>6. QED
  BY <1>4, <1>5
----------------------------------------------------------------------------
(* Writing. *)

\* The largest file fits in off_t.
LEMMA FileSizes ==
    /\ MaxFileBlocks * BlockSize \in Nat /\ MaxOffset \in Nat
    /\ MaxFileBlocks * BlockSize <= MaxOffset
    /\ \A f, size : Fits(f, size) => size <= MaxFileBlocks * BlockSize
<1>1. MaxFileBlocks \in Nat /\ BlockSize \in Nat /\ MaxOffset \in Nat
      /\ MaxFileBlocks * BlockSize <= MaxOffset
  BY FileIOAssumption
<1>2. MaxFileBlocks * BlockSize \in Nat
  BY <1>1
<1>3. QED
  BY <1>1, <1>2 DEF Fits

\* A resized file has its new size, keeps its bytes and continues with zeros.
LEMMA Resizes ==
    ASSUME NEW bytes \in Seq(Byte), NEW size \in Nat
    PROVE  /\ Resized(bytes, size) \in Seq(Byte) /\ Len(Resized(bytes, size)) = size
           /\ \A i \in 1 .. size : Resized(bytes, size)[i] = IF i <= Len(bytes) THEN bytes[i] ELSE 0
<1>1. \A i \in 1 .. size : (IF i <= Len(bytes) THEN bytes[i] ELSE 0) \in Byte
  <2>1. 0 \in Byte
    BY DEF Byte
  <2>2. \A i \in 1 .. size : i <= Len(bytes) => bytes[i] \in Byte
    OBVIOUS
  <2>3. QED
    BY <2>1, <2>2
<1>2. QED
  BY <1>1 DEF Resized

\* The file after some blocks of a write.
Written(f, start, data, blocks) == CopyIn(Grown(f, start + Len(data)), start, data, blocks)

\* A write, and a mapping written back, keep every byte they are not about.
LEMMA Writes ==
    ASSUME TypeOK, NEW f \in File, NEW start \in Nat, NEW data \in Seq(Byte),
           start + Len(data) > Len(file[f]) => Fits(f, start + Len(data)),
           NEW blocks \in Progress(start, Len(data))
    PROVE  LET new == Written(f, start, data, blocks)
               end == start + Len(data)
               done == Total(start, Len(data), blocks)
           IN  /\ new \in Seq(Byte) /\ Len(new) <= MaxFileBlocks * BlockSize
               /\ Len(new) = Max({Len(file[f]), end})
               /\ done \in 0 .. Len(data) /\ (MayFail \/ done = Len(data))
               /\ Overlay(file[f], new, start, data, done)
<1> DEFINE old == file[f]
           end == start + Len(data)
           grown == Grown(f, end)
           new == CopyIn(grown, start, data, blocks)
           done == Total(start, Len(data), blocks)
<1>1. Len(data) \in Nat /\ end \in Nat /\ old \in Seq(Byte) /\ Len(old) \in Nat
      /\ Len(old) <= MaxFileBlocks * BlockSize
  BY DEF TypeOK
<1>2. blocks \in Nat /\ done \in 0 .. Len(data) /\ (MayFail \/ done = Len(data))
  BY <1>1, ProgressIs
<1> HIDE DEF done
<1>3. grown \in Seq(Byte) /\ Len(grown) = (IF end > Len(old) THEN end ELSE Len(old))
      /\ \A i \in 1 .. Len(grown) : grown[i] = IF i <= Len(old) THEN old[i] ELSE 0
  <2>1. CASE end > Len(old)
    BY <1>1, <2>1, Resizes DEF Grown
  <2>2. CASE ~ (end > Len(old))
    BY <1>1, <2>2 DEF Grown
  <2>3. QED
    BY <2>1, <2>2
<1> HIDE DEF grown
<1>4. new = Overlaid(grown, start, data, done)
  BY <1>2, <1>3, CopyInIs DEF done
<1> HIDE DEF new
<1>5. \A i \in start + 1 .. start + done : i - start \in 1 .. Len(data)
  BY <1>1, <1>2
<1>6. \A i \in 1 .. Len(grown) :
         (IF i \in start + 1 .. start + done THEN data[i - start] ELSE grown[i]) \in Byte
  BY <1>3, <1>5
<1>7. new \in Seq(Byte) /\ Len(new) = Len(grown) /\ DOMAIN new = 1 .. Len(grown)
  <2>1. Len(grown) \in Nat
    BY <1>3
  <2>2. QED
    BY <1>4, <1>6, <2>1 DEF Overlaid
<1>8. Len(new) <= MaxFileBlocks * BlockSize
  BY <1>1, <1>3, <1>7, FileSizes
<1>9. Len(new) = Max({Len(old), end})
  <2>1. Max({Len(old), end}) = IF Len(old) >= end THEN Len(old) ELSE end
    BY <1>1, MaxOfTwo
  <2>2. QED
    BY <1>1, <1>3, <1>7, <2>1
<1>10. Overlay(old, new, start, data, done)
  <2>1. ASSUME NEW i \in DOMAIN new
        PROVE  new[i] = IF i \in start + 1 .. start + done THEN data[i - start]
                        ELSE IF i <= Len(old) THEN old[i] ELSE 0
    <3>1. i \in 1 .. Len(grown)
      BY <1>7
    <3>2. new[i] = IF i \in start + 1 .. start + done THEN data[i - start] ELSE grown[i]
      BY <1>4, <3>1 DEF Overlaid
    <3>3. QED
      BY <1>3, <3>1, <3>2
  <2>2. QED
    BY <2>1 DEF Overlay
<1>11. QED
  BY <1>2, <1>7, <1>8, <1>9, <1>10 DEF new, grown, done, Written
----------------------------------------------------------------------------
(* Type correctness. *)

Handle == [file : File, offset : 0 .. MaxOffset, flags : Flags]
Mapping == [file : File, at : Nat, bytes : Seq(Byte) \ {<<>>}, shared : BOOLEAN, writable : BOOLEAN]

\* What may be read or written is open.
LEMMA Handles ==
    ASSUME TypeOK, NEW fd \in Fd, fds[fd] # Closed \/ fds[fd].flags.reads \/ fds[fd].flags.writes
    PROVE  fds[fd] \in Handle
BY DEF TypeOK, Closed, Handle

\* What callers write is a sequence of bytes, never an empty one.
LEMMA DataAreBytes == \A data \in Data : data \in Seq(Byte) /\ data # <<>>
<1>1. \A s \in Seq(Byte \ {PrivateMark}) : s \in Seq(Byte)
  OBVIOUS
<1>2. QED
  BY <1>1, FileIOAssumption

\* A read or write starts within off_t.
LEMMA StartsInRange ==
    ASSUME TypeOK, NEW fd \in Fd, fds[fd] \in Handle
    PROVE  StartOf(fds[fd]) \in 0 .. MaxOffset
<1>1. fds[fd].file \in File /\ fds[fd].offset \in 0 .. MaxOffset
  BY DEF Handle
<1>2. file[fds[fd].file] \in Seq(Byte) /\ Len(file[fds[fd].file]) <= MaxFileBlocks * BlockSize
  BY <1>1 DEF TypeOK
<1>3. Len(file[fds[fd].file]) \in Nat
  BY <1>2
<1>4. Len(file[fds[fd].file]) \in 0 .. MaxOffset
  BY <1>2, <1>3, FileSizes
<1>5. QED
  BY <1>1, <1>4 DEF StartOf

\* Types hold at the start.
LEMMA TypesInit == Init => TypeOK
<1> SUFFICES ASSUME Init PROVE TypeOK
  OBVIOUS
<1>1. \A s \in Seq(Byte \ {PrivateMark}) : s \in Seq(Byte)
  OBVIOUS
<1>2. file \in [File -> Seq(Byte)]
  BY <1>1, FileIOAssumption DEF Init
<1>3. QED
  BY <1>2, FileIOAssumption DEF Init, TypeOK

\* The lowest free descriptor is free.
LEMMA SmallestIn ==
    ASSUME NEW S \in SUBSET Nat, S # {} PROVE Min(S) \in S
BY Least DEF Min

\* A read is cut down to what is left of the file.
LEMMA Clips ==
    ASSUME TypeOK, NEW fd \in Fd, fds[fd] \in Handle, NEW n \in Nat
    PROVE  LET h == fds[fd]
               count == ClippedCount(h, n)
               size == Len(file[h.file])
           IN  /\ h.offset \in Nat /\ count \in 0 .. n /\ h.offset + count <= MaxOffset
               /\ count = 0 \/ h.offset + count <= size
               /\ count = n \/ h.offset + count >= size
               /\ file[h.file] \in Seq(Byte)
<1> DEFINE h == fds[fd]
           size == Len(file[h.file])
           rest == Max({0, size - h.offset})
           count == ClippedCount(h, n)
<1>1. h.file \in File /\ h.offset \in 0 .. MaxOffset
  BY DEF Handle
<1>2. file[h.file] \in Seq(Byte) /\ size <= MaxFileBlocks * BlockSize
  BY <1>1 DEF TypeOK
<1>3. size \in Nat /\ size <= MaxOffset /\ MaxOffset \in Nat
  <2>1. size \in Nat
    BY <1>2
  <2>2. QED
    BY <1>2, <2>1, FileSizes
<1> HIDE DEF size
<1>4. rest = IF 0 >= size - h.offset THEN 0 ELSE size - h.offset
  BY <1>1, <1>3, MaxOfTwo
<1>5. rest \in Nat
  BY <1>1, <1>3, <1>4
<1> HIDE DEF rest
<1>6. count = IF n <= rest THEN n ELSE rest
  <2>1. Min({n, rest}) = IF n <= rest THEN n ELSE rest
    BY <1>5, MinOfTwo
  <2>2. QED
    BY <2>1 DEF ClippedCount, rest, size
<1> HIDE DEF count
<1>7. /\ h.offset \in Nat /\ count \in 0 .. n /\ h.offset + count <= MaxOffset
      /\ count = 0 \/ h.offset + count <= size
      /\ count = n \/ h.offset + count >= size
  BY <1>1, <1>3, <1>4, <1>5, <1>6
<1>8. QED
  BY <1>2, <1>7 DEF size, count

\* A read keeps the types.
LEMMA ReadTypes ==
    ASSUME TypeOK, NEW fd \in Fd, NEW data \in Data, Read(fd, Len(data)) PROVE TypeOK'
<1> DEFINE h == fds[fd]
           count == ClippedCount(h, Len(data))
<1>1. h \in Handle /\ Len(data) \in Nat
  BY Handles, DataAreBytes DEF Read
<1>2. h.offset \in Nat /\ count \in Nat /\ h.offset + count <= MaxOffset /\ MaxOffset \in Nat
  BY <1>1, Clips, FileSizes
<1> HIDE DEF count
<1>3. PICK blocks \in Progress(h.offset, count) :
         fds' = [fds EXCEPT ![fd].offset = @ + Total(h.offset, count, blocks)]
  BY DEF Read, count
<1> DEFINE done == Total(h.offset, count, blocks)
<1>4. done \in 0 .. count
  BY <1>2, ProgressIs
<1>5. fds' = [fds EXCEPT ![fd] = [h EXCEPT !.offset = h.offset + done]]
  BY <1>3
<1> HIDE DEF done
<1>6. h.offset + done \in 0 .. MaxOffset
  BY <1>2, <1>4
<1>7. [h EXCEPT !.offset = h.offset + done] \in Handle
  BY <1>1, <1>6 DEF Handle
<1>8. QED
  BY <1>5, <1>7 DEF Read, TypeOK, Handle

\* What Write and WriteBack leave in a file.
LEMMA WriteTypes ==
    ASSUME TypeOK, NEW fd \in Fd, NEW data \in Data, Write(fd, data) PROVE TypeOK'
<1> DEFINE h == fds[fd]
           start == StartOf(h)
           end == start + Len(data)
<1>1. h \in Handle /\ h.file \in File
  BY Handles DEF Write, Handle
<1>2. start \in 0 .. MaxOffset /\ MaxOffset \in Nat /\ data \in Seq(Byte) /\ Len(data) \in Nat
  BY <1>1, StartsInRange, FileSizes, DataAreBytes
<1>3. end <= MaxOffset /\ (end > Len(file[h.file]) => Fits(h.file, end))
  BY DEF Write
<1> HIDE DEF start, end
<1>4. PICK blocks \in Progress(start, Len(data)) :
         /\ file' = [file EXCEPT ![h.file] = CopyIn(Grown(h.file, end), start, data, blocks)]
         /\ fds' = [fds EXCEPT ![fd].offset = start + Total(start, Len(data), blocks)]
  BY DEF Write, start, end
<1> DEFINE new == Written(h.file, start, data, blocks)
           done == Total(start, Len(data), blocks)
<1>5. start \in Nat /\ end = start + Len(data)
  BY <1>2 DEF end
<1>6. new \in Seq(Byte) /\ Len(new) <= MaxFileBlocks * BlockSize /\ done \in 0 .. Len(data)
  BY <1>1, <1>2, <1>3, <1>5, Writes
<1> USE DEF Written
<1>7. file' = [file EXCEPT ![h.file] = new] /\ fds' = [fds EXCEPT ![fd] = [h EXCEPT !.offset = start + done]]
  BY <1>4, <1>5
<1> HIDE DEF new, done, Written
<1>8. start + done \in 0 .. MaxOffset
  BY <1>2, <1>3, <1>5, <1>6
<1>9. [h EXCEPT !.offset = start + done] \in Handle
  BY <1>1, <1>8 DEF Handle
<1>10. file' \in [File -> Seq(Byte)] /\ \A f \in File : Len(file'[f]) <= MaxFileBlocks * BlockSize
  BY <1>1, <1>6, <1>7 DEF TypeOK
<1>11. QED
  BY <1>7, <1>9, <1>10 DEF Write, TypeOK, Handle

\* A seek keeps the types: no position outside off_t is stored.
LEMMA SeekTypes ==
    ASSUME TypeOK, NEW fd \in Fd, NEW change \in Seeks, NEW whence \in {"set", "cur", "end"},
           Seek(fd, change, whence)
    PROVE  TypeOK'
<1> DEFINE h == fds[fd]
           base == CASE whence = "set" -> 0 [] whence = "cur" -> h.offset
                     [] whence = "end" -> Len(file[h.file])
<1>1. h \in Handle /\ h.file \in File /\ h.offset \in 0 .. MaxOffset
  BY Handles DEF Seek, Handle
<1>2. base \in 0 .. MaxOffset
  <2>1. file[h.file] \in Seq(Byte) /\ Len(file[h.file]) <= MaxFileBlocks * BlockSize
    BY <1>1 DEF TypeOK
  <2>2. Len(file[h.file]) \in Nat
    BY <2>1
  <2>3. Len(file[h.file]) \in 0 .. MaxOffset /\ 0 \in 0 .. MaxOffset
    BY <2>1, <2>2, FileSizes
  <2>4. QED
    BY <1>1, <2>3
<1>3. AddSeekOffset(base, change) # Failed
      /\ fds' = [fds EXCEPT ![fd] = [h EXCEPT !.offset = AddSeekOffset(base, change)]]
  BY DEF Seek
<1> HIDE DEF base
<1>4. AddSeekOffset(base, change) \in 0 .. MaxOffset
  <2>1. change \in -(MaxOffset + 1) .. MaxOffset
    BY FileIOAssumption
  <2>2. AddSeekOffset(base, change) =
           IF base + change \in 0 .. MaxOffset THEN base + change ELSE Failed
    BY <1>2, <2>1, SeekSums
  <2>3. QED
    BY <1>3, <2>2
<1>5. [h EXCEPT !.offset = AddSeekOffset(base, change)] \in Handle
  BY <1>1, <1>4 DEF Handle
<1>6. QED
  BY <1>3, <1>5 DEF Seek, TypeOK, Handle
\* A close and a refused write keep the types.
LEMMA HandleTypes ==
    ASSUME TypeOK, NEW fd \in Fd,
           \/ Close(fd)
           \/ \E data \in Data : WriteRefused(fd, data)
    PROVE  TypeOK'
<1>1. CASE Close(fd)
  BY <1>1 DEF Close, TypeOK
<1>2. CASE \E data \in Data : WriteRefused(fd, data)
  <2>1. PICK data \in Data : WriteRefused(fd, data)
    BY <1>2
  <2>2. fds[fd] \in Handle
    BY <2>1, Handles DEF WriteRefused
  <2>3. StartOf(fds[fd]) \in 0 .. MaxOffset
    BY <2>2, StartsInRange
  <2>4. fds' = [fds EXCEPT ![fd] = [fds[fd] EXCEPT !.offset = StartOf(fds[fd])]]
    BY <2>1 DEF WriteRefused
  <2>5. [fds[fd] EXCEPT !.offset = StartOf(fds[fd])] \in Handle
    BY <2>2, <2>3 DEF Handle
  <2>6. QED
    BY <2>1, <2>4, <2>5 DEF WriteRefused, TypeOK, Handle
<1>3. QED
  BY <1>1, <1>2

\* An open keeps the types.
LEMMA OpenTypes ==
    ASSUME TypeOK, NEW f \in File, NEW flags \in Flags, Open(f, flags) PROVE TypeOK'
<1>1. FreeFds \in SUBSET Nat /\ FreeFds # {} /\ FreeFds \subseteq Fd
  BY FileIOAssumption DEF Open, FreeFds, Fd
<1>2. Min(FreeFds) \in Fd
  BY <1>1, SmallestIn
<1>3. 0 \in 0 .. MaxOffset
  BY FileSizes
<1>4. [file |-> f, offset |-> 0, flags |-> flags] \in Handle
  BY <1>3 DEF Handle
<1>5. QED
  BY <1>2, <1>4 DEF Open, TypeOK, Handle

\* The memory of a new mapping: the bytes of its range, with zeros behind the end.
Memory(f, at, length) ==
    LET count == Min({length, Max({0, Len(file[f]) - at})})
    IN  Resized(CopyOut(file[f], at, count, Touched(at, count)), length)

\* The memory a mapping starts with: the file's bytes, zeros past its end.
LEMMA Memories ==
    ASSUME TypeOK, NEW f \in File, NEW at \in Nat, NEW length \in Nat
    PROVE  /\ Memory(f, at, length) \in Seq(Byte) /\ Len(Memory(f, at, length)) = length
           /\ \A i \in 1 .. length :
                 Memory(f, at, length)[i] = IF at + i <= Len(file[f]) THEN file[f][at + i] ELSE 0
<1> DEFINE size == Len(file[f])
           rest == Max({0, size - at})
           count == Min({length, rest})
           copied == CopyOut(file[f], at, count, Touched(at, count))
           bytes == Resized(copied, length)
<1>1. file[f] \in Seq(Byte) /\ size \in Nat
  BY DEF TypeOK
<1>2. rest = (IF 0 >= size - at THEN 0 ELSE size - at) /\ rest \in Nat
  BY <1>1, MaxOfTwo
<1> HIDE DEF rest
<1>3. count = IF length <= rest THEN length ELSE rest
  BY <1>2, MinOfTwo
<1>4. count \in 0 .. length /\ (count = 0 \/ at + count <= size)
      /\ (count = length \/ at + count >= size)
  BY <1>1, <1>2, <1>3
<1> HIDE DEF count, size
<1>5. Touched(at, count) \in Nat /\ Total(at, count, Touched(at, count)) = count
  <2>1. count \in Nat
    BY <1>4
  <2>2. QED
    BY <2>1, Transfers
<1>6. copied = Extract(file[f], at, count)
  BY <1>1, <1>4, <1>5, CopiesOut
<1>7. copied \in Seq(Byte) /\ Len(copied) = count
  BY <1>1, <1>4, <1>6, ExtractIsBytes
<1>8. \A i \in 1 .. count : copied[i] = IF at + i <= size THEN file[f][at + i] ELSE 0
  BY <1>6 DEF Extract, size
<1> HIDE DEF copied
<1>9. bytes \in Seq(Byte) /\ Len(bytes) = length
      /\ \A i \in 1 .. length : bytes[i] = IF i <= Len(copied) THEN copied[i] ELSE 0
  BY <1>7, Resizes
<1> HIDE DEF bytes
<1>10. ASSUME NEW i \in 1 .. length
       PROVE  bytes[i] = IF at + i <= size THEN file[f][at + i] ELSE 0
  <2>1. CASE i <= count
    BY <1>4, <1>7, <1>8, <1>9, <2>1
  <2>2. CASE ~ (i <= count)
    <3>1. ~ (at + i <= size)
      BY <1>1, <1>4, <2>2
    <3>2. QED
      BY <1>7, <1>9, <2>2, <3>1
  <2>3. QED
    BY <2>1, <2>2
<1>11. QED
  BY <1>9, <1>10 DEF bytes, copied, count, rest, size, Memory

\* A new mapping keeps the types.
LEMMA MmapTypes ==
    ASSUME TypeOK, NEW fd \in Fd, NEW at \in Nat, NEW length \in Nat \ {0},
           NEW shared \in BOOLEAN, NEW writable \in BOOLEAN, Mmap(fd, at, length, shared, writable)
    PROVE  TypeOK'
<1> DEFINE f == fds[fd].file
           bytes == Memory(f, at, length)
<1>1. f \in File
  BY Handles DEF Mmap, MmapAllowed, Handle
<1>2. bytes \in Seq(Byte) /\ Len(bytes) = length
  BY <1>1, Memories
<1>3. maps' = [maps EXCEPT ![Min(FreeSlots)] =
                 [file |-> f, at |-> at, shared |-> shared, writable |-> writable, bytes |-> bytes]]
      /\ FreeSlots # {}
  BY DEF Mmap, Memory
<1> HIDE DEF bytes, f
<1>4. FreeSlots \in SUBSET Nat /\ FreeSlots \subseteq Slot
  BY FileIOAssumption DEF FreeSlots, Slot
<1>5. Min(FreeSlots) \in Slot
  BY <1>3, <1>4, SmallestIn
<1>6. bytes # <<>>
  BY <1>2
<1>7. [file |-> f, at |-> at, shared |-> shared, writable |-> writable, bytes |-> bytes] \in Mapping
  BY <1>1, <1>2, <1>6 DEF Mapping
<1>8. QED
  BY <1>3, <1>5, <1>7 DEF Mmap, TypeOK, Mapping

\* A store to mapped memory keeps the types.
LEMMA StoreTypes ==
    ASSUME TypeOK, NEW m \in Slot, NEW i \in DOMAIN maps[m].bytes, NEW byte \in Byte,
           Store(m, i, byte)
    PROVE  TypeOK'
<1>1. maps[m] \in Mapping
  BY DEF Store, NoMapping, TypeOK, Mapping
<1>2. maps' = [maps EXCEPT ![m] = [maps[m] EXCEPT !.bytes = [maps[m].bytes EXCEPT ![i] = byte]]]
  BY DEF Store
<1>3. maps[m].bytes \in Seq(Byte) /\ maps[m].bytes # <<>>
  BY <1>1 DEF Mapping
<1>4. [maps[m].bytes EXCEPT ![i] = byte] \in Seq(Byte) /\ [maps[m].bytes EXCEPT ![i] = byte] # <<>>
  BY <1>3
<1>5. [maps[m] EXCEPT !.bytes = [maps[m].bytes EXCEPT ![i] = byte]] \in Mapping
  BY <1>1, <1>4 DEF Mapping
<1>6. QED
  BY <1>2, <1>5 DEF Store, TypeOK, Mapping

\* What writing a mapping back leaves in its file.
LEMMA WritesBack ==
    ASSUME TypeOK, NEW m \in Slot, maps[m] \in Mapping, NEW length \in 1 .. Len(maps[m].bytes),
           SyncFits(maps[m], length), NEW blocks \in Progress(maps[m].at, length),
           WriteBack(maps[m], length, blocks)
    PROVE  LET map == maps[m]
               done == Total(map.at, length, blocks)
           IN  /\ file' \in [File -> Seq(Byte)]
               /\ \A g \in File : Len(file'[g]) <= MaxFileBlocks * BlockSize
               /\ \A g \in File \ {map.file} : file'[g] = file[g]
               /\ Len(file'[map.file]) = Max({Len(file[map.file]), map.at + length})
               /\ done \in 0 .. length /\ (MayFail \/ done = length)
               /\ Overlay(file[map.file], file'[map.file], map.at, map.bytes, done)
<1> DEFINE map == maps[m]
           f == map.file
           data == SubSeq(map.bytes, 1, length)
           new == CopyIn(Grown(f, map.at + length), map.at, data, blocks)
           done == Total(map.at, length, blocks)
<1>1. f \in File /\ map.at \in Nat /\ map.bytes \in Seq(Byte)
  BY DEF Mapping
<1>2. data \in Seq(Byte) /\ Len(data) = length /\ \A i \in 1 .. length : data[i] = map.bytes[i]
  BY <1>1
<1>3. map.at + length > Len(file[f]) => Fits(f, map.at + length)
  BY DEF SyncFits
<1>4. file' = [file EXCEPT ![f] = new]
  BY DEF WriteBack
<1> HIDE DEF data
<1>5. /\ new \in Seq(Byte) /\ Len(new) <= MaxFileBlocks * BlockSize
      /\ Len(new) = Max({Len(file[f]), map.at + length})
      /\ done \in 0 .. length /\ (MayFail \/ done = length)
      /\ Overlay(file[f], new, map.at, data, done)
  <2>1. map.at + length = map.at + Len(data) /\ blocks \in Progress(map.at, Len(data))
    BY <1>2
  <2>2. map.at + Len(data) > Len(file[f]) => Fits(f, map.at + Len(data))
    BY <1>3, <2>1
  <2>3. LET copied == Written(f, map.at, data, blocks)
            total == Total(map.at, Len(data), blocks)
        IN  /\ copied \in Seq(Byte) /\ Len(copied) <= MaxFileBlocks * BlockSize
            /\ Len(copied) = Max({Len(file[f]), map.at + Len(data)})
            /\ total \in 0 .. Len(data) /\ (MayFail \/ total = Len(data))
            /\ Overlay(file[f], copied, map.at, data, total)
    <3> HIDE DEF f
    <3>1. f \in File
      BY <1>1
    <3>2. QED
      BY <1>1, <1>2, <2>1, <2>2, <3>1, Writes
  <2>4. new = Written(f, map.at, data, blocks)
    BY <1>2 DEF Written
  <2> HIDE DEF new
  <2>5. QED
    BY <1>2, <2>3, <2>4
<1> HIDE DEF new, done, f
<1>6. Overlay(file[f], new, map.at, map.bytes, done)
  <2>1. \A i \in map.at + 1 .. map.at + done : i - map.at \in 1 .. length
    BY <1>1, <1>5
  <2>2. \A i \in map.at + 1 .. map.at + done : data[i - map.at] = map.bytes[i - map.at]
    BY <1>2, <2>1
  <2>3. QED
    BY <1>5, <2>2 DEF Overlay
<1>7. file \in [File -> Seq(Byte)] /\ \A g \in File : Len(file[g]) <= MaxFileBlocks * BlockSize
  BY DEF TypeOK
<1>8. QED
  BY <1>1, <1>4, <1>5, <1>6, <1>7 DEF f, done
\* Writing a mapping back keeps the types.
LEMMA SyncTypes ==
    ASSUME TypeOK, NEW m \in Slot,
           Munmap(m) \/ \E length \in 1 .. Len(maps[m].bytes) : Msync(m, length)
    PROVE  TypeOK'
<1>1. CASE \E length \in 1 .. Len(maps[m].bytes) : Msync(m, length)
  <2>1. PICK length \in 1 .. Len(maps[m].bytes) : Msync(m, length)
    BY <1>1
  <2>2. maps[m] \in Mapping
    BY <2>1 DEF Msync, WrittenBack, NoMapping, TypeOK, Mapping
  <2>3. PICK blocks \in Progress(maps[m].at, length) : WriteBack(maps[m], length, blocks)
    BY <2>1 DEF Msync
  <2>4. SyncFits(maps[m], length)
    BY <2>1 DEF Msync
  <2>5. file' \in [File -> Seq(Byte)] /\ \A g \in File : Len(file'[g]) <= MaxFileBlocks * BlockSize
    BY <2>2, <2>3, <2>4, WritesBack
  <2>6. QED
    BY <2>1, <2>5 DEF Msync, TypeOK
<1>2. CASE Munmap(m)
  <2>1. maps[m] \in Mapping
    BY <1>2 DEF Munmap, TypeOK, Mapping
  <2>2. file' \in [File -> Seq(Byte)] /\ \A g \in File : Len(file'[g]) <= MaxFileBlocks * BlockSize
    <3>1. CASE ~ WrittenBack(maps[m])
      BY <1>2, <3>1 DEF Munmap, TypeOK
    <3>2. CASE WrittenBack(maps[m])
      <4> DEFINE length == Len(maps[m].bytes)
      <4>1. maps[m].at \in Nat /\ maps[m].bytes \in Seq(Byte) /\ maps[m].bytes # <<>>
        BY <2>1 DEF Mapping
      <4>2. length \in Nat /\ length \in 1 .. Len(maps[m].bytes)
        BY <4>1
      <4>3. SyncFits(maps[m], length)
            /\ WriteBack(maps[m], length, Touched(maps[m].at, length))
        BY <1>2, <3>2 DEF Munmap
      <4> HIDE DEF length
      <4>4. Touched(maps[m].at, length) \in Progress(maps[m].at, length)
        <5> DEFINE at == maps[m].at
        <5>1. Touched(at, length) \in Nat
          <6>1. at \in Nat /\ length \in Nat
            BY <4>1, <4>2
          <6> HIDE DEF at
          <6>2. Touched(at, length) \in 0 .. length
            BY <6>1, Transfers
          <6>3. QED
            BY <6>1, <6>2
        <5>2. Touched(maps[m].at, length) \in 0 .. Touched(maps[m].at, length)
          BY <5>1
        <5>3. QED
          BY <5>2 DEF Progress
      <4>5. QED
        BY <2>1, <4>2, <4>3, <4>4, WritesBack
    <3>3. QED
      BY <3>1, <3>2
  <2>3. QED
    BY <1>2, <2>2 DEF Munmap, TypeOK
<1>3. QED
  BY <1>1, <1>2

\* A truncation by path keeps the types.
LEMMA TruncateTypes ==
    ASSUME TypeOK, NEW f \in File, NEW size \in Nat, Truncate(f, size) PROVE TypeOK'
<1>1. file[f] \in Seq(Byte) /\ Len(file[f]) \in Nat /\ Len(file[f]) <= MaxFileBlocks * BlockSize
  BY DEF TypeOK
<1>2. Resized(file[f], size) \in Seq(Byte) /\ Len(Resized(file[f], size)) = size
  BY <1>1, Resizes
<1>3. size <= MaxFileBlocks * BlockSize
  <2>1. CASE size > Len(file[f])
    BY <2>1, FileSizes DEF Truncate
  <2>2. CASE ~ (size > Len(file[f]))
    BY <1>1, <2>2, FileSizes
  <2>3. QED
    BY <2>1, <2>2
<1>4. file' = [file EXCEPT ![f] = Resized(file[f], size)]
  BY DEF Truncate
<1>5. QED
  BY <1>2, <1>3, <1>4 DEF Truncate, TypeOK

\* Every step keeps the types.
LEMMA TypesStep == TypeOK /\ [Next]_vars => TypeOK'
<1> SUFFICES ASSUME TypeOK, [Next]_vars PROVE TypeOK'
  OBVIOUS
<1>1. CASE \E f \in File : \/ \E flags \in Flags : Open(f, flags)
                           \/ \E size \in Sizes : Truncate(f, size)
  <2>1. Sizes \subseteq Nat
    BY FileIOAssumption
  <2>2. QED
    BY <1>1, <2>1, OpenTypes, TruncateTypes
<1>2. CASE Descriptors
  <2>1. PICK fd \in Fd :
          \/ Close(fd)
          \/ \E data \in Data : Read(fd, Len(data)) \/ Write(fd, data) \/ WriteRefused(fd, data)
          \/ \E change \in Seeks, whence \in {"set", "cur", "end"} : Seek(fd, change, whence)
          \/ \E range \in Ranges, shared, writable \in BOOLEAN :
                Mmap(fd, range[1], range[2], shared, writable)
    BY <1>2 DEF Descriptors
  <2>2. CASE Close(fd) \/ \E data \in Data : WriteRefused(fd, data)
    BY <2>2, HandleTypes
  <2>3. CASE \E data \in Data : Read(fd, Len(data)) \/ Write(fd, data)
    BY <2>3, ReadTypes, WriteTypes
  <2>4. CASE \E change \in Seeks, whence \in {"set", "cur", "end"} : Seek(fd, change, whence)
    BY <2>4, SeekTypes
  <2>5. CASE \E range \in Ranges, shared, writable \in BOOLEAN :
                Mmap(fd, range[1], range[2], shared, writable)
    <3>1. \A range \in Ranges : range[1] \in Nat /\ range[2] \in Nat \ {0}
      BY FileIOAssumption
    <3>2. QED
      BY <2>5, <3>1, MmapTypes
  <2>6. QED
    BY <2>1, <2>2, <2>3, <2>4, <2>5
<1>3. CASE Mappings
  <2>1. PICK m \in Slot :
          \/ \E i \in DOMAIN maps[m].bytes :
                \E byte \in IF maps[m].shared THEN Stores ELSE {PrivateMark} : Store(m, i, byte)
          \/ \E length \in 1 .. Len(maps[m].bytes) : Msync(m, length)
          \/ Munmap(m)
    BY <1>3 DEF Mappings
  <2>2. Stores \subseteq Byte /\ PrivateMark \in Byte
    BY FileIOAssumption
  <2>3. CASE \E i \in DOMAIN maps[m].bytes : \E byte \in Byte : Store(m, i, byte)
    BY <2>3, StoreTypes
  <2>4. CASE Munmap(m) \/ \E length \in 1 .. Len(maps[m].bytes) : Msync(m, length)
    BY <2>4, SyncTypes
  <2>5. QED
    BY <2>1, <2>2, <2>3, <2>4
<1>4. CASE \E mine \in SUBSET Fd, memory \in SUBSET Slot : Die(mine, memory)
  BY <1>4 DEF Die, TypeOK
<1>5. CASE UNCHANGED vars
  BY <1>5 DEF vars, TypeOK
<1>6. QED
  BY <1>1, <1>2, <1>3, <1>4, <1>5 DEF Next

\* Files hold bytes and never more than an inode maps; offsets are in the range of
\* their type.
THEOREM FileIOTypes == Spec => []TypeOK
BY TypesInit, TypesStep, PTL DEF Spec

\* ufs_seek moves to the sum of its base and the offset, from every position and
\* every end of file a descriptor can have, or fails.
THEOREM SeekIsSum == Spec => []SeeksAreSums
<1>1. TypeOK => SeeksAreSums
  <2> SUFFICES ASSUME TypeOK,
                      NEW base \in {fds[fd].offset : fd \in Fd} \cup {Len(file[f]) : f \in File},
                      NEW change \in -(MaxOffset + 1) .. MaxOffset
               PROVE  AddSeekOffset(base, change) =
                         IF base + change \in 0 .. MaxOffset THEN base + change ELSE Failed
    BY DEF SeeksAreSums
  <2>1. ASSUME NEW f \in File PROVE Len(file[f]) \in 0 .. MaxOffset
    <3>1. file[f] \in Seq(Byte) /\ Len(file[f]) <= MaxFileBlocks * BlockSize
      BY DEF TypeOK
    <3>2. Len(file[f]) \in Nat
      BY <3>1
    <3>3. QED
      BY <3>1, <3>2, FileSizes
  <2>2. ASSUME NEW fd \in Fd PROVE fds[fd].offset \in 0 .. MaxOffset
    <3>1. 0 \in 0 .. MaxOffset
      BY FileSizes
    <3>2. QED
      BY <3>1 DEF TypeOK, Closed
  <2>3. base \in 0 .. MaxOffset
    BY <2>1, <2>2
  <2>4. QED
    BY <2>3, SeekSums
<1>2. QED
  BY <1>1, FileIOTypes, PTL

\* A read hands out the bytes of its file from its offset on, as many as it
\* reports, and stops early only where the file ends or a block fails.
LEMMA ReadIsExact ==
    ASSUME TypeOK, NEW fd \in Fd, fds[fd] \in Handle, NEW count \in Nat,
           NEW blocks \in Progress(fds[fd].offset, ClippedCount(fds[fd], count))
    PROVE  LET h == fds[fd]
               out == ReadBytes(h, count, blocks)
           IN  /\ out = <<>> \/ h.offset + Len(out) <= Len(file[h.file])
               /\ \A i \in DOMAIN out : out[i] = file[h.file][h.offset + i]
               /\ Len(out) = Total(h.offset, ClippedCount(h, count), blocks)
               /\ MayFail \/ Len(out) = count \/ h.offset + Len(out) >= Len(file[h.file])
<1> DEFINE h == fds[fd]
           bytes == file[h.file]
           clipped == ClippedCount(h, count)
           done == Total(h.offset, clipped, blocks)
           out == ReadBytes(h, count, blocks)
<1>1. /\ h.offset \in Nat /\ clipped \in 0 .. count
      /\ clipped = 0 \/ h.offset + clipped <= Len(bytes)
      /\ clipped = count \/ h.offset + clipped >= Len(bytes)
      /\ bytes \in Seq(Byte)
  BY Clips
<1>2. clipped \in Nat /\ Len(bytes) \in Nat
  BY <1>1
<1> HIDE DEF clipped
<1>3. blocks \in Nat /\ done \in 0 .. clipped /\ (MayFail \/ done = clipped)
  BY <1>1, <1>2, ProgressIs DEF clipped
<1>4. out = Extract(bytes, h.offset, done)
  BY <1>1, <1>2, <1>3, CopiesOut DEF ReadBytes, clipped
<1> HIDE DEF done, out, bytes
<1>5. out \in Seq(Byte) /\ Len(out) = done
  <2>1. h.offset \in Nat /\ done \in Nat /\ bytes \in Seq(Byte)
    BY <1>1, <1>2, <1>3 DEF bytes
  <2>2. QED
    BY <1>4, <2>1, ExtractIsBytes
<1>6. out = <<>> \/ h.offset + Len(out) <= Len(bytes)
  BY <1>1, <1>2, <1>3, <1>5
<1>7. ASSUME NEW i \in DOMAIN out PROVE out[i] = bytes[h.offset + i]
  <2>1. i \in 1 .. done
    BY <1>5
  <2>2. h.offset + i <= Len(bytes)
    BY <1>1, <1>2, <1>3, <2>1
  <2>3. QED
    BY <1>4, <2>1, <2>2 DEF Extract
<1>8. MayFail \/ Len(out) = count \/ h.offset + Len(out) >= Len(bytes)
  BY <1>1, <1>2, <1>3, <1>5
<1>9. QED
  BY <1>5, <1>6, <1>7, <1>8 DEF out, done, bytes, clipped

\* A read returns the bytes of the file between the position and its end.
THEOREM ReadsReturnTheFile == Spec => []ReadsAreExact
<1>1. TypeOK => ReadsAreExact
  <2> SUFFICES ASSUME TypeOK, NEW fd \in {x \in Fd : fds[x].flags.reads},
                      NEW count \in {Len(data) : data \in Data},
                      NEW blocks \in Progress(fds[fd].offset, ClippedCount(fds[fd], count))
               PROVE  LET h == fds[fd]
                          out == ReadBytes(h, count, blocks)
                      IN  /\ out = <<>> \/ h.offset + Len(out) <= Len(file[h.file])
                          /\ \A i \in DOMAIN out : out[i] = file[h.file][h.offset + i]
                          /\ Len(out) = Total(h.offset, ClippedCount(h, count), blocks)
                          /\ \/ MayFail \/ Len(out) = count
                             \/ h.offset + Len(out) >= Len(file[h.file])
    BY DEF ReadsAreExact
  <2>1. fd \in Fd /\ fds[fd] \in Handle
    BY Handles
  <2>2. count \in Nat
    BY DataAreBytes
  <2>3. QED
    BY <2>1, <2>2, ReadIsExact
<1>2. QED
  BY <1>1, FileIOTypes, PTL

\* A write puts its bytes where the descriptor stands, or at the end of the file
\* as it is now when the descriptor appends, and changes nothing else.
LEMMA WriteIsExact ==
    ASSUME TypeOK, NEW fd \in Fd, NEW data \in Data, Write(fd, data)
    PROVE  LET f == fds[fd].file
               start == IF fds[fd].flags.append THEN Len(file[f]) ELSE fds[fd].offset
               done == fds'[fd].offset - start
           IN  /\ done \in 0 .. Len(data) /\ (MayFail \/ done = Len(data))
               /\ Len(file'[f]) = Max({Len(file[f]), start + Len(data)})
               /\ Overlay(file[f], file'[f], start, data, done)
               /\ \A g \in File \ {f} : file'[g] = file[g]
<1> DEFINE h == fds[fd]
           start == StartOf(h)
           end == start + Len(data)
<1>1. h \in Handle /\ h.file \in File
  BY Handles DEF Write, Handle
<1>2. start \in 0 .. MaxOffset /\ MaxOffset \in Nat /\ data \in Seq(Byte) /\ Len(data) \in Nat
  BY <1>1, StartsInRange, FileSizes, DataAreBytes
<1>3. end > Len(file[h.file]) => Fits(h.file, end)
  BY DEF Write
<1>4. start = IF h.flags.append THEN Len(file[h.file]) ELSE h.offset
  BY DEF StartOf
<1> HIDE DEF start, end
<1>5. PICK blocks \in Progress(start, Len(data)) :
         /\ file' = [file EXCEPT ![h.file] = CopyIn(Grown(h.file, end), start, data, blocks)]
         /\ fds' = [fds EXCEPT ![fd].offset = start + Total(start, Len(data), blocks)]
  BY DEF Write, start, end
<1> DEFINE new == Written(h.file, start, data, blocks)
           total == Total(start, Len(data), blocks)
<1>6. start \in Nat /\ end = start + Len(data)
  BY <1>2 DEF end
<1>7. /\ Len(new) = Max({Len(file[h.file]), start + Len(data)})
      /\ total \in 0 .. Len(data) /\ (MayFail \/ total = Len(data))
      /\ Overlay(file[h.file], new, start, data, total)
  <2>1. start \in Nat /\ (start + Len(data) > Len(file[h.file]) => Fits(h.file, start + Len(data)))
    BY <1>3, <1>6
  <2>2. data \in Seq(Byte) /\ blocks \in Progress(start, Len(data))
    BY <1>2, <1>5
  <2>3. /\ Len(Written(h.file, start, data, blocks)) = Max({Len(file[h.file]), start + Len(data)})
        /\ Total(start, Len(data), blocks) \in 0 .. Len(data)
        /\ MayFail \/ Total(start, Len(data), blocks) = Len(data)
        /\ Overlay(file[h.file], Written(h.file, start, data, blocks), start, data,
                   Total(start, Len(data), blocks))
    <3> HIDE DEF h
    <3>1. QED
      BY <1>1, <2>1, <2>2, Writes
  <2>4. QED
    BY <2>3
<1>8. file' = [file EXCEPT ![h.file] = new]
  BY <1>5, <1>6 DEF Written
<1>9. fds'[fd].offset = start + total
  BY <1>1, <1>5 DEF TypeOK, Handle
<1> HIDE DEF new, total
<1>10. fds'[fd].offset - start = total
  BY <1>2, <1>7, <1>9
<1>11. file'[h.file] = new /\ \A g \in File \ {h.file} : file'[g] = file[g]
  BY <1>1, <1>8 DEF TypeOK
<1>12. QED
  BY <1>4, <1>7, <1>10, <1>11

\* A write changes the bytes it writes, to its data, and fills a gap with zeros.
THEOREM WritesWriteTheirData == Spec => WritesAreExact
<1>1. TypeOK /\ [Next]_vars =>
         [\A fd \in Fd, data \in Data :
             Write(fd, data) =>
                LET f == fds[fd].file
                    start == IF fds[fd].flags.append THEN Len(file[f]) ELSE fds[fd].offset
                    done == fds'[fd].offset - start
                IN  /\ done \in 0 .. Len(data) /\ (MayFail \/ done = Len(data))
                    /\ Len(file'[f]) = Max({Len(file[f]), start + Len(data)})
                    /\ Overlay(file[f], file'[f], start, data, done)
                    /\ \A g \in File \ {f} : file'[g] = file[g]]_vars
  BY WriteIsExact
<1>2. QED
  BY <1>1, FileIOTypes, PTL DEF Spec, WritesAreExact

\* The memory of a mapping that goes is written back to its last byte.
LEMMA LastSync ==
    ASSUME TypeOK, NEW m \in Slot, Munmap(m), WrittenBack(maps[m])
    PROVE  LET map == maps[m]
               length == Len(map.bytes)
               blocks == Touched(map.at, length)
           IN  /\ map \in Mapping /\ map.at \in Nat
               /\ length \in 1 .. Len(map.bytes) /\ length <= MaxFileBlocks * BlockSize
               /\ SyncFits(map, length) /\ WriteBack(map, length, blocks)
               /\ blocks \in Progress(map.at, length)
               /\ Total(map.at, length, blocks) = length
<1> DEFINE at == maps[m].at
           length == Len(maps[m].bytes)
<1>1. maps[m] \in Mapping
  BY DEF Munmap, TypeOK, Mapping
<1>2. at \in Nat /\ maps[m].bytes \in Seq(Byte) /\ maps[m].bytes # <<>> /\ maps[m].file \in File
  BY <1>1 DEF Mapping
<1>3. length \in Nat /\ length \in 1 .. Len(maps[m].bytes)
  BY <1>2
<1>4. SyncFits(maps[m], length) /\ WriteBack(maps[m], length, Touched(at, length))
  BY DEF Munmap
<1> HIDE DEF at, length
<1>5. Touched(at, length) \in 0 .. length /\ Total(at, length, Touched(at, length)) = length
  BY <1>2, <1>3, Transfers
<1>6. Touched(at, length) \in 0 .. Touched(at, length)
  BY <1>3, <1>5
<1>7. Touched(at, length) \in Progress(at, length)
  BY <1>6 DEF Progress
<1>8. length <= MaxFileBlocks * BlockSize
  <2> DEFINE size == Len(file[maps[m].file])
             limit == MaxFileBlocks * BlockSize
  <2>1. size \in Nat /\ size <= limit
    BY <1>2 DEF TypeOK
  <2>2. at + length > size => at + length <= limit
    BY <1>4, FileSizes DEF SyncFits, at
  <2>3. limit \in Nat
    BY FileSizes
  <2> HIDE DEF size, limit
  <2>4. length <= limit
    BY <1>2, <1>3, <2>1, <2>2, <2>3
  <2>5. QED
    BY <2>4 DEF limit
<1>9. QED
  BY <1>1, <1>2, <1>3, <1>4, <1>5, <1>7, <1>8 DEF at, length

\* Writing a mapping back changes the range it was made of and nothing else, from
\* the front on.
LEMMA SyncIsExact ==
    ASSUME TypeOK, NEW m \in Slot, NEW length,
           \/ Msync(m, length)
           \/ Munmap(m) /\ WrittenBack(maps[m]) /\ length = Len(maps[m].bytes)
    PROVE  LET map == maps[m] IN
           /\ Len(file'[map.file]) = Max({Len(file[map.file]), map.at + length})
           /\ \E done \in 0 .. length :
                 /\ MayFail \/ done = length
                 /\ Overlay(file[map.file], file'[map.file], map.at, map.bytes, done)
           /\ \A g \in File \ {map.file} : file'[g] = file[g]
<1>1. /\ maps[m] \in Mapping /\ length \in 1 .. Len(maps[m].bytes) /\ SyncFits(maps[m], length)
      /\ \E blocks \in Progress(maps[m].at, length) : WriteBack(maps[m], length, blocks)
  <2>1. CASE Msync(m, length)
    <3>1. maps[m] \in Mapping
      BY <2>1 DEF Msync, WrittenBack, NoMapping, TypeOK, Mapping
    <3>2. QED
      BY <2>1, <3>1 DEF Msync
  <2>2. CASE Munmap(m) /\ WrittenBack(maps[m]) /\ length = Len(maps[m].bytes)
    BY <2>2, LastSync
  <2>3. QED
    BY <2>1, <2>2
<1>2. PICK blocks \in Progress(maps[m].at, length) : WriteBack(maps[m], length, blocks)
  BY <1>1
<1>3. QED
  BY <1>1, <1>2, WritesBack

\* A write-back changes the bytes of its range, to the mapping's.
THEOREM SyncsWriteTheirRange == Spec => SyncsAreExact
<1>1. TypeOK /\ [Next]_vars =>
         [\A m \in Slot, length \in 1 .. MaxFileBlocks * BlockSize :
             (Msync(m, length) \/ (Munmap(m) /\ maps[m].shared /\ maps[m].writable
                                            /\ length = Len(maps[m].bytes))) =>
                 LET map == maps[m] IN
                 /\ Len(file'[map.file]) = Max({Len(file[map.file]), map.at + length})
                 /\ \E done \in 0 .. length :
                       /\ MayFail \/ done = length
                       /\ Overlay(file[map.file], file'[map.file], map.at, map.bytes, done)
                 /\ \A g \in File \ {map.file} : file'[g] = file[g]]_vars
  BY SyncIsExact DEF WrittenBack
<1>2. QED
  BY <1>1, FileIOTypes, PTL DEF Spec, SyncsAreExact

\* A byte that was copied is the one of the data.
LEMMA CopiedByte ==
    ASSUME NEW old, NEW new, NEW start \in Nat, NEW data, NEW done \in Nat, NEW i \in 1 .. done,
           start + i \in DOMAIN new, Overlay(old, new, start, data, done)
    PROVE  new[start + i] = data[i]
<1>1. start + i \in start + 1 .. start + done /\ start + i - start = i
  OBVIOUS
<1>2. QED
  BY <1>1 DEF Overlay

\* What was stored into a shared writable mapping is in its file when ufs_munmap
\* has released it.
THEOREM MappedBytesReachTheFile == Spec => NothingMappedIsLost
<1>1. ASSUME TypeOK, NEW m \in Slot, Munmap(m), maps[m].shared, maps[m].writable,
             NEW i \in DOMAIN maps[m].bytes
      PROVE  /\ maps[m].at + i <= Len(file'[maps[m].file])
             /\ file'[maps[m].file][maps[m].at + i] = maps[m].bytes[i]
  <2> DEFINE map == maps[m]
             length == Len(map.bytes)
             old == file[map.file]
             new == file'[map.file]
  <2>1. WrittenBack(map)
    BY <1>1 DEF WrittenBack
  <2>2. /\ map \in Mapping /\ map.at \in Nat /\ length \in 1 .. Len(map.bytes)
        /\ SyncFits(map, length)
        /\ WriteBack(map, length, Touched(map.at, length))
        /\ Touched(map.at, length) \in Progress(map.at, length)
        /\ Total(map.at, length, Touched(map.at, length)) = length
    BY <1>1, <2>1, LastSync
  <2>3. /\ file' \in [File -> Seq(Byte)]
        /\ Len(new) = Max({Len(old), map.at + length})
        /\ Overlay(old, new, map.at, map.bytes, length)
    BY <1>1, <2>2, WritesBack
  <2>4. map.file \in File /\ map.bytes \in Seq(Byte)
    BY <2>2 DEF Mapping
  <2>5. old \in Seq(Byte) /\ new \in Seq(Byte) /\ i \in 1 .. length /\ length \in Nat
    BY <1>1, <2>3, <2>4 DEF TypeOK
  <2> HIDE DEF old, new, length
  <2>6. Len(old) \in Nat /\ Len(new) \in Nat /\ DOMAIN new = 1 .. Len(new)
    BY <2>5
  <2>7. Len(new) >= map.at + length
    <3>1. map.at + length \in Nat /\ Len(old) \in Nat
      BY <2>2, <2>5, <2>6
    <3>2. Max({Len(old), map.at + length}) =
             IF Len(old) >= map.at + length THEN Len(old) ELSE map.at + length
      BY <3>1, MaxOfTwo
    <3>3. QED
      BY <2>3, <3>1, <3>2
  <2>8. map.at + i \in DOMAIN new /\ map.at + i <= Len(new)
    BY <2>2, <2>5, <2>6, <2>7
  <2>9. new[map.at + i] = map.bytes[i]
    <3>1. /\ map.at \in Nat /\ length \in Nat /\ i \in 1 .. length
          /\ map.at + i \in DOMAIN new /\ Overlay(old, new, map.at, map.bytes, length)
      BY <2>2, <2>3, <2>5, <2>8
    <3>2. QED
      BY <3>1, CopiedByte
  <2>10. QED
    BY <2>8, <2>9 DEF new
<1>2. TypeOK /\ [Next]_vars =>
         [\A m \in Slot : (Munmap(m) /\ maps[m].shared /\ maps[m].writable) =>
             \A i \in DOMAIN maps[m].bytes :
                /\ maps[m].at + i <= Len(file'[maps[m].file])
                /\ file'[maps[m].file][maps[m].at + i] = maps[m].bytes[i]]_vars
  BY <1>1
<1>3. QED
  BY <1>2, FileIOTypes, PTL DEF Spec, NothingMappedIsLost
----------------------------------------------------------------------------
(* Private mappings.  The mark is the byte callers store into private memory   *)
(* and nowhere else.  That it reaches no file rests on where the bytes of a     *)
(* file come from: callers, other bytes of files, zeros, and shared memory,     *)
(* which is itself filled from files and from stores without the mark.          *)

Clean(bytes) == \A i \in DOMAIN bytes : bytes[i] # PrivateMark

FilesAreClean == \A f \in File : Clean(file[f])
SharedIsClean == \A m \in Slot : maps[m].shared => Clean(maps[m].bytes)

\* Bytes free of the mark, copied over bytes free of it.
LEMMA OverlaysAreClean ==
    ASSUME NEW old \in Seq(Byte), NEW new \in Seq(Byte), NEW start \in Nat, NEW data \in Seq(Byte),
           NEW done \in 0 .. Len(data), Clean(old), Clean(data), Overlay(old, new, start, data, done)
    PROVE  Clean(new)
<1> SUFFICES ASSUME NEW i \in DOMAIN new PROVE new[i] # PrivateMark
  BY DEF Clean
<1>1. i \in Nat /\ i >= 1 /\ Len(old) \in Nat /\ Len(data) \in Nat
  OBVIOUS
<1>2. CASE i \in start + 1 .. start + done
  <2>1. i - start \in DOMAIN data
    BY <1>1, <1>2
  <2>2. QED
    BY <1>2, <2>1 DEF Overlay, Clean
<1>3. CASE i \notin start + 1 .. start + done /\ i <= Len(old)
  <2>1. i \in DOMAIN old
    BY <1>1, <1>3
  <2>2. new[i] = old[i]
    BY <1>3 DEF Overlay
  <2>3. QED
    BY <2>1, <2>2 DEF Clean
<1>4. CASE i \notin start + 1 .. start + done /\ ~ (i <= Len(old))
  <2>1. new[i] = 0
    BY <1>4 DEF Overlay
  <2>2. QED
    BY <2>1, FileIOAssumption
<1>5. QED
  BY <1>2, <1>3, <1>4

\* Callers do not write the mark.
LEMMA DataAreClean == \A data \in Data : Clean(data)
<1> SUFFICES ASSUME NEW data \in Data PROVE Clean(data)
  OBVIOUS
<1>1. data \in Seq(Byte \ {PrivateMark})
  BY FileIOAssumption
<1>2. QED
  BY <1>1 DEF Clean

\* The mark is nowhere at the start.
LEMMA CleanInit == Init => FilesAreClean /\ SharedIsClean
<1> SUFFICES ASSUME Init PROVE FilesAreClean /\ SharedIsClean
  OBVIOUS
<1>1. \A f \in File : file[f] \in Seq(Byte \ {PrivateMark})
  BY FileIOAssumption DEF Init
<1>2. FilesAreClean
  BY <1>1 DEF FilesAreClean, Clean
<1>3. SharedIsClean
  BY DEF Init, SharedIsClean, NoMapping
<1>4. QED
  BY <1>2, <1>3

\* A write brings no mark into a file.
LEMMA WriteStaysClean ==
    ASSUME TypeOK, FilesAreClean, NEW fd \in Fd, NEW data \in Data, Write(fd, data)
    PROVE  FilesAreClean'
<1> DEFINE f == fds[fd].file
           start == IF fds[fd].flags.append THEN Len(file[f]) ELSE fds[fd].offset
           done == fds'[fd].offset - start
<1>1. fds[fd] \in Handle /\ f \in File
  BY Handles DEF Write, Handle
<1>2. /\ done \in 0 .. Len(data) /\ Overlay(file[f], file'[f], start, data, done)
      /\ \A g \in File \ {f} : file'[g] = file[g]
  BY WriteIsExact
<1>3. start \in Nat
  <2>1. start = StartOf(fds[fd])
    BY DEF StartOf
  <2> HIDE DEF start
  <2>2. start \in 0 .. MaxOffset
    BY <1>1, <2>1, StartsInRange
  <2>3. QED
    BY <2>2
<1>4. file[f] \in Seq(Byte) /\ file'[f] \in Seq(Byte)
  BY <1>1, WriteTypes DEF TypeOK
<1>5. Clean(file[f]) /\ Clean(data) /\ data \in Seq(Byte)
  BY <1>1, DataAreClean, DataAreBytes DEF FilesAreClean
<1> HIDE DEF start, done, f
<1>6. Clean(file'[f])
  BY <1>2, <1>3, <1>4, <1>5, OverlaysAreClean
<1>7. QED
  BY <1>2, <1>6 DEF FilesAreClean

\* Nor does a write-back, since only shared mappings are written back.
LEMMA SyncStaysClean ==
    ASSUME TypeOK, FilesAreClean, SharedIsClean, NEW m \in Slot, NEW length,
           WrittenBack(maps[m]),
           \/ Msync(m, length)
           \/ Munmap(m) /\ length = Len(maps[m].bytes)
    PROVE  FilesAreClean'
<1> DEFINE map == maps[m]
           f == map.file
<1>1. map \in Mapping /\ length \in 1 .. Len(map.bytes)
  BY LastSync DEF Msync, WrittenBack, NoMapping, TypeOK, Mapping
<1>2. f \in File /\ map.at \in Nat /\ map.bytes \in Seq(Byte)
  BY <1>1 DEF Mapping
<1>3. PICK done \in 0 .. length : Overlay(file[f], file'[f], map.at, map.bytes, done)
  BY SyncIsExact
<1>4. \A g \in File \ {f} : file'[g] = file[g]
  BY SyncIsExact
<1>5. file[f] \in Seq(Byte) /\ file'[f] \in Seq(Byte)
  BY <1>1, <1>2, SyncTypes DEF TypeOK
<1>6. Clean(file[f]) /\ Clean(map.bytes)
  BY <1>2 DEF FilesAreClean, SharedIsClean, WrittenBack
<1>7. done \in 0 .. Len(map.bytes)
  BY <1>1, <1>2, <1>3
<1>8. Clean(file'[f])
  <2> HIDE DEF f, map
  <2>1. QED
    BY <1>2, <1>3, <1>5, <1>6, <1>7, OverlaysAreClean
<1>9. QED
  BY <1>4, <1>8 DEF FilesAreClean

\* Nor does a truncation.
LEMMA TruncateStaysClean ==
    ASSUME TypeOK, FilesAreClean, NEW f \in File, NEW size \in Nat, Truncate(f, size)
    PROVE  FilesAreClean'
<1> DEFINE old == file[f]
           new == Resized(old, size)
<1>1. old \in Seq(Byte) /\ Clean(old) /\ Len(old) \in Nat
  BY DEF TypeOK, FilesAreClean
<1>2. DOMAIN new = 1 .. size /\ \A i \in 1 .. size : new[i] = IF i <= Len(old) THEN old[i] ELSE 0
  BY DEF Resized
<1>3. file' = [file EXCEPT ![f] = new]
  BY DEF Truncate
<1> HIDE DEF new, old
<1>4. Clean(new)
  <2>1. \A i \in 1 .. size : i <= Len(old) => i \in DOMAIN old
    BY <1>1
  <2>2. QED
    BY <1>2, <2>1, <1>1, FileIOAssumption DEF Clean
<1>5. QED
  BY <1>3, <1>4 DEF FilesAreClean, TypeOK

\* A shared mapping starts without the mark.
LEMMA MmapStaysClean ==
    ASSUME TypeOK, FilesAreClean, SharedIsClean, NEW fd \in Fd, NEW at \in Nat, NEW length \in Nat \ {0},
           NEW shared \in BOOLEAN, NEW writable \in BOOLEAN, Mmap(fd, at, length, shared, writable)
    PROVE  SharedIsClean'
<1> DEFINE f == fds[fd].file
           bytes == Memory(f, at, length)
           map == [file |-> f, at |-> at, shared |-> shared, writable |-> writable, bytes |-> bytes]
<1>1. f \in File
  BY Handles DEF Mmap, MmapAllowed, Handle
<1>2. /\ bytes \in Seq(Byte) /\ Len(bytes) = length
      /\ \A i \in 1 .. length : bytes[i] = IF at + i <= Len(file[f]) THEN file[f][at + i] ELSE 0
  <2> HIDE DEF f
  <2>1. QED
    BY <1>1, Memories
<1>3. maps' = [maps EXCEPT ![Min(FreeSlots)] = map]
  BY DEF Mmap, Memory
<1> HIDE DEF bytes, f
<1>4. file[f] \in Seq(Byte) /\ Clean(file[f])
  BY <1>1 DEF TypeOK, FilesAreClean
<1>5. Clean(bytes)
  <2>1. DOMAIN bytes = 1 .. length
    BY <1>2
  <2>2. \A i \in 1 .. length : at + i <= Len(file[f]) => at + i \in DOMAIN file[f]
    BY <1>4
  <2>3. QED
    BY <1>2, <1>4, <2>1, <2>2, FileIOAssumption DEF Clean
<1>6. map.bytes = bytes
  OBVIOUS
<1> HIDE DEF map
<1>7. \A m \in Slot : maps'[m] = map \/ maps'[m] = maps[m]
  BY <1>3 DEF TypeOK
<1>8. QED
  BY <1>5, <1>6, <1>7 DEF SharedIsClean

\* A store puts the mark into private mappings only.
LEMMA StoreStaysClean ==
    ASSUME TypeOK, SharedIsClean, NEW m \in Slot, NEW i \in DOMAIN maps[m].bytes,
           NEW byte \in IF maps[m].shared THEN Stores ELSE {PrivateMark}, Store(m, i, byte)
    PROVE  SharedIsClean'
<1>1. maps[m] \in Mapping
  BY DEF Store, NoMapping, TypeOK, Mapping
<1>2. maps' = [maps EXCEPT ![m] = [maps[m] EXCEPT !.bytes = [maps[m].bytes EXCEPT ![i] = byte]]]
  BY DEF Store
<1> DEFINE bytes == [maps[m].bytes EXCEPT ![i] = byte]
<1>3. maps'[m].shared = maps[m].shared /\ maps'[m].bytes = bytes
      /\ \A n \in Slot \ {m} : maps'[n] = maps[n]
  BY <1>1, <1>2 DEF TypeOK, Mapping
<1>4. ASSUME maps[m].shared PROVE Clean(bytes)
  <2>1. byte \in Stores /\ PrivateMark \notin Stores
    BY <1>4, FileIOAssumption
  <2>2. Clean(maps[m].bytes)
    BY <1>4 DEF SharedIsClean
  <2>3. QED
    BY <2>1, <2>2 DEF Clean
<1> HIDE DEF bytes
<1>5. QED
  BY <1>3, <1>4 DEF SharedIsClean

\* No step brings the mark into a file or a shared mapping.
LEMMA CleanStep == TypeOK /\ FilesAreClean /\ SharedIsClean /\ [Next]_vars => (FilesAreClean /\ SharedIsClean)'
<1> SUFFICES ASSUME TypeOK, FilesAreClean, SharedIsClean, [Next]_vars
             PROVE  FilesAreClean' /\ SharedIsClean'
  OBVIOUS
<1>1. CASE \E f \in File : \/ \E flags \in Flags : Open(f, flags)
                           \/ \E size \in Sizes : Truncate(f, size)
  <2>1. ASSUME NEW f \in File, NEW flags \in Flags, Open(f, flags)
        PROVE  FilesAreClean' /\ SharedIsClean'
    BY <2>1 DEF Open, FilesAreClean, SharedIsClean
  <2>2. ASSUME NEW f \in File, NEW size \in Sizes, Truncate(f, size)
        PROVE  FilesAreClean' /\ SharedIsClean'
    <3>1. size \in Nat
      BY FileIOAssumption
    <3>2. FilesAreClean'
      BY <2>2, <3>1, TruncateStaysClean
    <3>3. SharedIsClean'
      BY <2>2 DEF Truncate, SharedIsClean
    <3>4. QED
      BY <3>2, <3>3
  <2>3. QED
    BY <1>1, <2>1, <2>2
<1>2. CASE Descriptors
  <2>1. PICK fd \in Fd :
          \/ Close(fd)
          \/ \E data \in Data : Read(fd, Len(data)) \/ Write(fd, data) \/ WriteRefused(fd, data)
          \/ \E change \in Seeks, whence \in {"set", "cur", "end"} : Seek(fd, change, whence)
          \/ \E range \in Ranges, shared, writable \in BOOLEAN :
                Mmap(fd, range[1], range[2], shared, writable)
    BY <1>2 DEF Descriptors
  <2>2. CASE \/ Close(fd)
             \/ \E data \in Data : Read(fd, Len(data)) \/ WriteRefused(fd, data)
             \/ \E change \in Seeks, whence \in {"set", "cur", "end"} : Seek(fd, change, whence)
    <3>1. UNCHANGED <<file, maps>>
      BY <2>2 DEF Close, Read, WriteRefused, Seek
    <3>2. QED
      BY <3>1 DEF FilesAreClean, SharedIsClean
  <2>3. CASE \E data \in Data : Write(fd, data)
    <3>1. PICK data \in Data : Write(fd, data)
      BY <2>3
    <3>2. FilesAreClean'
      BY <3>1, WriteStaysClean
    <3>3. SharedIsClean'
      BY <3>1 DEF Write, SharedIsClean
    <3>4. QED
      BY <3>2, <3>3
  <2>4. CASE \E range \in Ranges, shared, writable \in BOOLEAN :
                Mmap(fd, range[1], range[2], shared, writable)
    <3>1. PICK range \in Ranges, shared \in BOOLEAN, writable \in BOOLEAN :
             Mmap(fd, range[1], range[2], shared, writable)
      BY <2>4
    <3>2. range[1] \in Nat /\ range[2] \in Nat \ {0}
      BY FileIOAssumption
    <3>3. SharedIsClean'
      BY <3>1, <3>2, MmapStaysClean
    <3>4. FilesAreClean'
      BY <3>1 DEF Mmap, FilesAreClean
    <3>5. QED
      BY <3>3, <3>4
  <2>5. QED
    BY <2>1, <2>2, <2>3, <2>4
<1>3. CASE Mappings
  <2>1. PICK m \in Slot :
          \/ \E i \in DOMAIN maps[m].bytes :
                \E byte \in IF maps[m].shared THEN Stores ELSE {PrivateMark} : Store(m, i, byte)
          \/ \E length \in 1 .. Len(maps[m].bytes) : Msync(m, length)
          \/ Munmap(m)
    BY <1>3 DEF Mappings
  <2>2. CASE \E i \in DOMAIN maps[m].bytes :
                \E byte \in IF maps[m].shared THEN Stores ELSE {PrivateMark} : Store(m, i, byte)
    <3>1. PICK i \in DOMAIN maps[m].bytes, byte \in IF maps[m].shared THEN Stores ELSE {PrivateMark} :
             Store(m, i, byte)
      BY <2>2
    <3>2. SharedIsClean'
      BY <3>1, StoreStaysClean
    <3>3. FilesAreClean'
      BY <3>1 DEF Store, FilesAreClean
    <3>4. QED
      BY <3>2, <3>3
  <2>3. CASE \E length \in 1 .. Len(maps[m].bytes) : Msync(m, length)
    <3>1. PICK length \in 1 .. Len(maps[m].bytes) : Msync(m, length)
      BY <2>3
    <3>2. WrittenBack(maps[m]) /\ maps' = maps
      BY <3>1 DEF Msync
    <3>3. FilesAreClean'
      BY <3>1, <3>2, SyncStaysClean
    <3>4. QED
      BY <3>2, <3>3 DEF SharedIsClean
  <2>4. CASE Munmap(m)
    <3>1. FilesAreClean'
      <4>1. CASE WrittenBack(maps[m])
        BY <2>4, <4>1, SyncStaysClean
      <4>2. CASE ~ WrittenBack(maps[m])
        BY <2>4, <4>2 DEF Munmap, FilesAreClean
      <4>3. QED
        BY <4>1, <4>2
    <3>2. \A n \in Slot : maps'[n] = maps[n] \/ maps'[n] = NoMapping
      BY <2>4 DEF Munmap, TypeOK
    <3>3. SharedIsClean'
      BY <3>2 DEF SharedIsClean, NoMapping
    <3>4. QED
      BY <3>1, <3>3
  <2>5. QED
    BY <2>1, <2>2, <2>3, <2>4
<1>4. CASE \E mine \in SUBSET Fd, memory \in SUBSET Slot : Die(mine, memory)
  <2>1. UNCHANGED file /\ \A n \in Slot : maps'[n] = maps[n] \/ maps'[n] = NoMapping
    BY <1>4 DEF Die
  <2>2. QED
    BY <2>1 DEF FilesAreClean, SharedIsClean, NoMapping
<1>5. CASE UNCHANGED vars
  BY <1>5 DEF vars, FilesAreClean, SharedIsClean
<1>6. QED
  BY <1>1, <1>2, <1>3, <1>4, <1>5 DEF Next

\* What is stored into private memory reaches no file, by no sequence of mappings,
\* reads and writes.
THEOREM PrivateMemoryIsPrivate == Spec => []PrivateStaysPrivate
<1>1. FilesAreClean => PrivateStaysPrivate
  BY DEF FilesAreClean, Clean, PrivateStaysPrivate, ToSet
<1>2. Spec => [](TypeOK /\ FilesAreClean /\ SharedIsClean)
  BY TypesInit, TypesStep, CleanInit, CleanStep, PTL DEF Spec
<1>3. QED
  BY <1>1, <1>2, PTL
=============================================================================
