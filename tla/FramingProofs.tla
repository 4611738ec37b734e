---------------------------- MODULE FramingProofs ----------------------------
(***************************************************************************)
(* What holds of the codec and the stream it is used on, for every base,   *)
(* number of length digits, largest frame and set of payloads, however the *)
(* stream is split: a length is read as it was written (LengthsReadBack),  *)
(* the decoder waits for no more than a frame (BufferStaysSmall), the      *)
(* frames handed out are those sent (FramesArrive), and seen from outside  *)
(* it all is a queue of whole frames (FramesQueue).                        *)
(***************************************************************************)
EXTENDS Framing, WellFoundedInduction, SequenceTheorems, TLAPS

(* Induction up to a bound, on the set of the numbers a fact holds for.    *)
LEMMA UpTo ==
  ASSUME NEW n \in Nat, NEW P \in SUBSET (0 .. n), 0 \in P,
         \A i \in 1 .. n : i - 1 \in P => i \in P
  PROVE  P = 0 .. n
<1> DEFINE R == OpToRel(<, Nat)
           bad == (0 .. n) \ P
<1>1. IsWellFoundedOn(R, Nat)
  BY NatLessThanWellFounded
<1>2. \A y, x \in Nat : y < x => <<y, x>> \in R
  BY DEF OpToRel
<1> HIDE DEF R
<1>3. ASSUME bad # {} PROVE FALSE
  <2>1. bad \in SUBSET Nat
    OBVIOUS
  <2>2. PICK x \in bad : \A y \in bad : ~(<<y, x>> \in R)
    BY <1>1, <1>3, <2>1, WFMin
  <2>3. x \in 1 .. n /\ x - 1 \in 0 .. n /\ x - 1 < x
    BY <2>2
  <2>4. x - 1 \notin bad
    <3>1. <<x - 1, x>> \in R
      BY <1>2, <2>3
    <3> QED
      BY <2>2, <3>1
  <2> QED
    BY <2>2, <2>3, <2>4
<1> QED
  BY <1>3

(* f begins with a and goes on as step says.                               *)
Follows(f, S, a, n, step) ==
  f \in [0 .. n -> S] /\ f[0] = a /\ \A i \in 1 .. n : f[i] = step[i][f[i - 1]]

(* A function defined by recursion on the numbers up to a bound exists.    *)
LEMMA Recursion ==
  ASSUME NEW S, NEW a \in S, NEW n \in Nat, NEW step \in [1 .. n -> [S -> S]]
  PROVE  \E f : Follows(f, S, a, n, step)
<1> DEFINE Solves(f, m) == /\ f \in [0 .. m -> S] /\ f[0] = a
                           /\ \A i \in 1 .. m : f[i] = step[i][f[i - 1]]
           P == {m \in 0 .. n : \E f : Solves(f, m)}
<1>1. 0 \in P
  <2>1. Solves([i \in 0 .. 0 |-> a], 0)
    OBVIOUS
  <2> HIDE DEF Solves
  <2>2. \E f : Solves(f, 0)
    BY <2>1
  <2> QED
    BY <2>2
<1>2. ASSUME NEW m \in 1 .. n, m - 1 \in P PROVE m \in P
  <2>1. PICK g : Solves(g, m - 1)
    BY <1>2
  <2> DEFINE f == [i \in 0 .. m |-> IF i = m THEN step[m][g[m - 1]] ELSE g[i]]
  <2>2. m - 1 \in 0 .. m - 1 /\ g[m - 1] \in S
    BY <2>1
  <2>3. step[m][g[m - 1]] \in S
    BY <2>2
  <2>4. f \in [0 .. m -> S] /\ f[0] = a
    BY <2>1, <2>3
  <2>5. ASSUME NEW i \in 1 .. m PROVE f[i] = step[i][f[i - 1]]
    <3>1. i - 1 \in 0 .. m /\ i - 1 # m /\ f[i - 1] = g[i - 1]
      BY <2>5
    <3>2. CASE i = m
      BY <3>1, <3>2
    <3>3. CASE i # m
      <4>1. i \in 1 .. m - 1 /\ f[i] = g[i]
        BY <3>3
      <4> QED
        BY <2>1, <3>1, <4>1
    <3> QED
      BY <3>2, <3>3
  <2> HIDE DEF f
  <2>6. Solves(f, m)
    BY <2>4, <2>5
  <2> HIDE DEF Solves
  <2>7. \E h : Solves(h, m)
    BY <2>6
  <2> QED
    BY <2>7
<1> HIDE DEF Solves
<1>3. n \in P
  <2> HIDE DEF P
  <2>1. P \in SUBSET (0 .. n)
    BY DEF P
  <2> QED
    BY <1>1, <1>2, <2>1, UpTo
<1> QED
  BY <1>3 DEF Solves, Follows

---------------------------------------------------------------------------
(* Taking the last digit off a number: what is left, and the digit.        *)
LEMMA LastDigit ==
  ASSUME NEW m \in Nat
  PROVE  /\ m \div Base \in Nat /\ m % Base \in Byte
         /\ (m \div Base) * Base + (m % Base) = m
         /\ \A n \in Nat : m <= n => m \div Base <= n \div Base
<1>1. m \div Base \in Nat /\ m % Base \in Byte /\ (m \div Base) * Base + (m % Base) = m
  BY FramingAssumption DEF Byte
<1>2. ASSUME NEW n \in Nat, m <= n PROVE m \div Base <= n \div Base
  BY <1>2, FramingAssumption
<1> QED
  BY <1>1, <1>2

(* Upper is what its recursion says.                                       *)
LEMMA UpperIs ==
  ASSUME NEW n \in Nat
  PROVE  /\ Upper(n) \in [0 .. LengthDigits -> Nat]
         /\ Upper(n)[0] = n
         /\ \A k \in 1 .. LengthDigits : Upper(n)[k] = Upper(n)[k - 1] \div Base
<1> DEFINE D == 0 .. LengthDigits
           step == [k \in 1 .. LengthDigits |-> [m \in Nat |-> m \div Base]]
           u == Upper(n)
<1>1. LengthDigits \in Nat
  BY FramingAssumption
<1>2. step \in [1 .. LengthDigits -> [Nat -> Nat]]
  BY LastDigit
<1>3. \A k \in 1 .. LengthDigits, m \in Nat : step[k][m] = m \div Base
  OBVIOUS
<1> HIDE DEF step
<1>4. PICK f \in [D -> Nat] : f[0] = n /\ \A k \in 1 .. LengthDigits : f[k] = step[k][f[k - 1]]
  <2>1. \E f : Follows(f, Nat, n, LengthDigits, step)
    BY <1>1, <1>2, Recursion
  <2> QED
    BY <2>1 DEF Follows
<1>5. \A k \in 1 .. LengthDigits : k - 1 \in D /\ k - 1 # k /\ f[k - 1] \in Nat
  BY <1>1, <1>4
<1>6. f = [k \in D |-> IF k = 0 THEN n ELSE f[k - 1] \div Base]
  <2>1. ASSUME NEW k \in D PROVE f[k] = IF k = 0 THEN n ELSE f[k - 1] \div Base
    <3>1. CASE k = 0
      BY <1>4, <3>1
    <3>2. CASE k # 0
      <4>1. k \in 1 .. LengthDigits
        BY <1>1, <3>2
      <4> QED
        BY <1>3, <1>4, <1>5, <3>2, <4>1
    <3> QED
      BY <3>1, <3>2
  <2> QED
    BY <1>4, <2>1
<1>7. u = [k \in D |-> IF k = 0 THEN n ELSE u[k - 1] \div Base]
  BY <1>6 DEF Upper
<1> HIDE DEF u
<1>8. u[0] = n /\ \A k \in 1 .. LengthDigits : u[k] = u[k - 1] \div Base
  <2>1. ASSUME NEW k \in 1 .. LengthDigits PROVE k \in D /\ k # 0
    BY <1>1
  <2>2. 0 \in D
    BY <1>1
  <2> QED
    BY <1>7, <2>1, <2>2
<1> DEFINE P == {k \in D : u[k] \in Nat}
<1>9. 0 \in P /\ \A k \in 1 .. LengthDigits : k - 1 \in P => k \in P
  <2>1. \A k \in 1 .. LengthDigits : u[k - 1] \in Nat => u[k] \in Nat
    BY <1>8, LastDigit
  <2>2. 0 \in D /\ \A k \in 1 .. LengthDigits : k \in D
    BY <1>1
  <2> QED
    BY <1>8, <2>1, <2>2
<1>10. P = D
  <2>1. P \in SUBSET D
    OBVIOUS
  <2> HIDE DEF P
  <2> QED
    BY <1>1, <1>9, <2>1, UpTo
<1>11. u \in [D -> Nat]
  <2>1. \A k \in D : u[k] \in Nat
    BY <1>10
  <2>2. u = [k \in D |-> u[k]]
    BY <1>7
  <2> QED
    BY <2>1, <2>2
<1> QED
  BY <1>8, <1>11 DEF u

(* The length that some digits make is a number, found digit by digit.     *)
LEMMA NumberIs ==
  ASSUME NEW ds \in Seq(Byte)
  PROVE  \E v \in [0 .. Len(ds) -> Nat] :
           /\ v[0] = 0 /\ \A i \in 1 .. Len(ds) : v[i] = v[i - 1] * Base + ds[i]
           /\ Number(ds) = v[Len(ds)]
<1> DEFINE L == Len(ds)
           D == 0 .. L
           step == [i \in 1 .. L |-> [m \in Nat |-> m * Base + ds[i]]]
           v == CHOOSE g : g = [i \in D |-> IF i = 0 THEN 0 ELSE g[i - 1] * Base + ds[i]]
<1>1. L \in Nat /\ Base \in Nat /\ \A i \in 1 .. L : ds[i] \in Nat
  BY FramingAssumption DEF Byte
<1>2. Number(ds) = v[L]
  BY DEF Number
<1> HIDE DEF L
<1>3. \A i \in 1 .. L, m \in Nat : m * Base + ds[i] \in Nat
  BY <1>1
<1>4. step \in [1 .. L -> [Nat -> Nat]]
  BY <1>3
<1>5. \A i \in 1 .. L, m \in Nat : step[i][m] = m * Base + ds[i]
  OBVIOUS
<1> HIDE DEF step
<1>6. PICK f \in [D -> Nat] : f[0] = 0 /\ \A i \in 1 .. L : f[i] = step[i][f[i - 1]]
  <2>1. \E f : Follows(f, Nat, 0, L, step)
    BY <1>1, <1>4, Recursion
  <2> QED
    BY <2>1 DEF Follows
<1>7. f = [i \in D |-> IF i = 0 THEN 0 ELSE f[i - 1] * Base + ds[i]]
  <2>1. ASSUME NEW i \in D PROVE f[i] = IF i = 0 THEN 0 ELSE f[i - 1] * Base + ds[i]
    <3>1. CASE i = 0
      BY <1>6, <3>1
    <3>2. CASE i # 0
      <4>1. i \in 1 .. L /\ i - 1 \in D
        BY <1>1, <3>2
      <4>2. f[i - 1] \in Nat
        BY <1>6, <4>1
      <4> QED
        BY <1>5, <1>6, <3>2, <4>1, <4>2
    <3> QED
      BY <3>1, <3>2
  <2> QED
    BY <1>6, <2>1
<1>8. v = [i \in D |-> IF i = 0 THEN 0 ELSE v[i - 1] * Base + ds[i]]
  BY <1>7
<1> HIDE DEF v
<1>9. v[0] = 0 /\ \A i \in 1 .. L : v[i] = v[i - 1] * Base + ds[i]
  <2>1. ASSUME NEW i \in 1 .. L PROVE i \in D /\ i # 0
    BY <1>1
  <2>2. 0 \in D
    BY <1>1
  <2> QED
    BY <1>8, <2>1, <2>2
<1> DEFINE P == {i \in D : v[i] \in Nat}
<1>10. 0 \in P /\ \A i \in 1 .. L : i - 1 \in P => i \in P
  <2>1. \A i \in 1 .. L : v[i - 1] \in Nat => v[i] \in Nat
    BY <1>3, <1>9
  <2>2. 0 \in D /\ \A i \in 1 .. L : i \in D
    BY <1>1
  <2> QED
    BY <1>9, <2>1, <2>2
<1>11. P = D
  <2>1. P \in SUBSET D
    OBVIOUS
  <2> HIDE DEF P
  <2> QED
    BY <1>1, <1>10, <2>1, UpTo
<1>12. v \in [D -> Nat]
  <2>1. \A i \in D : v[i] \in Nat
    BY <1>11
  <2>2. v = [i \in D |-> v[i]]
    BY <1>8
  <2> QED
    BY <2>1, <2>2
<1> QED
  BY <1>2, <1>9, <1>12 DEF L

(* The digits of a length are bytes ...                                    *)
LEMMA DigitsAreBytes ==
  ASSUME NEW n \in Nat
  PROVE  Digits(n) \in [1 .. LengthDigits -> Byte] /\ Digits(n) \in Seq(Byte)
         /\ Len(Digits(n)) = LengthDigits
<1>1. LengthDigits \in Nat
  BY FramingAssumption
<1>2. ASSUME NEW i \in 1 .. LengthDigits PROVE Upper(n)[LengthDigits - i] % Base \in Byte
  <2>1. LengthDigits - i \in 0 .. LengthDigits
    BY <1>1
  <2>2. Upper(n)[LengthDigits - i] \in Nat
    BY <2>1, UpperIs
  <2> QED
    BY <2>2, LastDigit
<1>3. Digits(n) \in [1 .. LengthDigits -> Byte]
  BY <1>2 DEF Digits
<1> QED
  BY <1>1, <1>3

(* ... and a length within the limit is read back as it was written: the   *)
(* first digits make what the length is without the others.                *)
THEOREM LengthsReadBack ==
  ASSUME NEW n \in 0 .. MaxFrame
  PROVE  Number(Digits(n)) = n
<1> DEFINE L == LengthDigits
           D == 0 .. L
           u == Upper(n)
           w == Upper(MaxFrame)
           ds == Digits(n)
<1>1. L \in Nat /\ L # 0 /\ n \in Nat /\ MaxFrame \in Nat /\ n <= MaxFrame
  BY FramingAssumption
<1>2. u \in [D -> Nat] /\ u[0] = n /\ \A k \in 1 .. L : u[k] = u[k - 1] \div Base
  BY <1>1, UpperIs
<1>3. /\ w \in [D -> Nat] /\ w[0] = MaxFrame /\ \A k \in 1 .. L : w[k] = w[k - 1] \div Base
      /\ w[L] = 0
  BY <1>1, UpperIs, FramingAssumption
<1>4. /\ ds \in Seq(Byte) /\ Len(ds) = L
      /\ \A i \in 1 .. L : ds[i] = u[L - i] % Base
  BY <1>1, DigitsAreBytes DEF Digits
<1>5. PICK v \in [D -> Nat] :
        /\ v[0] = 0 /\ \A i \in 1 .. L : v[i] = v[i - 1] * Base + ds[i]
        /\ Number(ds) = v[L]
  BY <1>4, NumberIs
<1> HIDE DEF L, u, w, ds
<1>6. u[L] = 0
  <2> DEFINE P == {k \in D : u[k] <= w[k]}
  <2>1. 0 \in P
    BY <1>1, <1>2, <1>3
  <2>2. ASSUME NEW k \in 1 .. L, k - 1 \in P PROVE k \in P
    <3>1. u[k - 1] \in Nat /\ w[k - 1] \in Nat /\ u[k - 1] <= w[k - 1]
      BY <1>2, <1>3, <2>2
    <3>2. u[k - 1] \div Base <= w[k - 1] \div Base
      BY <3>1, LastDigit
    <3>3. k \in D
      BY <1>1
    <3> QED
      BY <1>2, <1>3, <3>2, <3>3
  <2>3. P \in SUBSET D
    OBVIOUS
  <2>4. P = D
    <3> HIDE DEF P
    <3> QED
      BY <1>1, <2>1, <2>2, <2>3, UpTo
  <2>5. L \in D
    BY <1>1
  <2> QED
    BY <1>2, <1>3, <2>4, <2>5
<1>7. v[L] = u[0]
  <2> DEFINE P == {i \in D : v[i] = u[L - i]}
  <2>1. 0 \in P
    BY <1>1, <1>5, <1>6
  <2>2. ASSUME NEW i \in 1 .. L, i - 1 \in P PROVE i \in P
    <3>1. /\ L - i \in D /\ i \in D /\ L - (i - 1) \in 1 .. L
          /\ (L - (i - 1)) - 1 = L - i
      BY <1>1
    <3>2. v[i - 1] = u[L - i] \div Base
      BY <1>2, <2>2, <3>1
    <3>3. u[L - i] \in Nat
      BY <1>2, <3>1
    <3>4. v[i] = (u[L - i] \div Base) * Base + (u[L - i] % Base)
      BY <1>4, <1>5, <3>2
    <3>5. v[i] = u[L - i]
      BY <3>3, <3>4, LastDigit
    <3> QED
      BY <3>1, <3>5
  <2>3. P \in SUBSET D
    OBVIOUS
  <2>4. P = D
    <3> HIDE DEF P
    <3> QED
      BY <1>1, <2>1, <2>2, <2>3, UpTo
  <2>5. L \in D /\ L - L = 0
    BY <1>1
  <2> QED
    BY <2>4, <2>5
<1> QED
  BY <1>2, <1>5, <1>7 DEF ds

---------------------------------------------------------------------------
(* Cutting a sequence in two.                                              *)
LEMMA Cuts ==
  ASSUME NEW S, NEW q \in Seq(S), NEW n \in 0 .. Len(q)
  PROVE  /\ SubSeq(q, 1, n) \in Seq(S) /\ Len(SubSeq(q, 1, n)) = n
         /\ \A i \in 1 .. n : SubSeq(q, 1, n)[i] = q[i]
         /\ SubSeq(q, n + 1, Len(q)) \in Seq(S) /\ Len(SubSeq(q, n + 1, Len(q))) = Len(q) - n
         /\ \A i \in 1 .. Len(q) - n : SubSeq(q, n + 1, Len(q))[i] = q[n + i]
<1>1. Len(q) \in Nat /\ \A i \in 1 .. Len(q) : q[i] \in S
  OBVIOUS
<1>2. /\ SubSeq(q, 1, n) \in Seq(S) /\ Len(SubSeq(q, 1, n)) = IF 1 <= n THEN n - 1 + 1 ELSE 0
      /\ \A i \in 1 .. n - 1 + 1 : SubSeq(q, 1, n)[i] = q[1 + i - 1]
  <2>1. \A i \in 1 .. n : q[i] \in S
    BY <1>1
  <2> QED
    BY <1>1, <2>1, SubSeqProperties
<1>3. /\ SubSeq(q, n + 1, Len(q)) \in Seq(S)
      /\ Len(SubSeq(q, n + 1, Len(q))) = IF n + 1 <= Len(q) THEN Len(q) - (n + 1) + 1 ELSE 0
      /\ \A i \in 1 .. Len(q) - (n + 1) + 1 : SubSeq(q, n + 1, Len(q))[i] = q[(n + 1) + i - 1]
  <2>1. \A i \in n + 1 .. Len(q) : q[i] \in S
    BY <1>1
  <2>2. n + 1 \in Int /\ Len(q) \in Int
    BY <1>1
  <2> QED
    BY <2>1, <2>2, SubSeqProperties
<1> QED
  BY <1>1, <1>2, <1>3

(* Putting one sequence after another.                                     *)
LEMMA Joins ==
  ASSUME NEW S, NEW q \in Seq(S), NEW r \in Seq(S)
  PROVE  /\ q \o r \in Seq(S) /\ Len(q \o r) = Len(q) + Len(r)
         /\ \A i \in 1 .. Len(q) : (q \o r)[i] = q[i]
         /\ \A i \in 1 .. Len(r) : (q \o r)[Len(q) + i] = r[i]
<1> DEFINE t == q \o r
<1>1. /\ t \in Seq(S) /\ Len(t) = Len(q) + Len(r)
      /\ \A i \in 1 .. Len(q) + Len(r) : t[i] = IF i <= Len(q) THEN q[i] ELSE r[i - Len(q)]
  BY ConcatProperties
<1>2. Len(q) \in Nat /\ Len(r) \in Nat
  OBVIOUS
<1> HIDE DEF t
<1>3. ASSUME NEW i \in 1 .. Len(q) PROVE t[i] = q[i]
  <2>1. i \in 1 .. Len(q) + Len(r) /\ i <= Len(q)
    BY <1>2
  <2> QED
    BY <1>1, <2>1
<1>4. ASSUME NEW i \in 1 .. Len(r) PROVE t[Len(q) + i] = r[i]
  <2>1. /\ Len(q) + i \in 1 .. Len(q) + Len(r) /\ ~(Len(q) + i <= Len(q))
        /\ (Len(q) + i) - Len(q) = i
    BY <1>2
  <2> QED
    BY <1>1, <2>1
<1> QED
  BY <1>1, <1>3, <1>4 DEF t

(* What a frame is.                                                        *)
LEMMA FrameIs ==
  ASSUME NEW f \in Frames
  PROVE  /\ f = [kind |-> f.kind, payload |-> f.payload]
         /\ f.kind \in {0, 1} /\ f.kind \in Byte /\ f.payload \in Seq(Byte)
         /\ f.kind = 0 => f.payload \in Commands
         /\ f \in [kind : {0, 1}, payload : Seq(Byte)] /\ f # <<>>
<1>1. 0 \in Byte /\ 1 \in Byte
  BY FramingAssumption DEF Byte
<1>2. Commands \subseteq Seq(Byte) /\ Contents \subseteq Seq(Byte)
  BY FramingAssumption DEF Byte
<1>3. \/ \E c \in Commands : f = [kind |-> 0, payload |-> c]
      \/ \E c \in Contents : f = [kind |-> 1, payload |-> c]
  BY DEF Frames, Message, Data
<1>4. /\ f = [kind |-> f.kind, payload |-> f.payload]
      /\ f.kind \in {0, 1} /\ f.kind \in Byte /\ f.payload \in Seq(Byte)
      /\ f.kind = 0 => f.payload \in Commands
  BY <1>1, <1>2, <1>3
<1>5. f # <<>>
  <2>1. DOMAIN f = {"kind", "payload"} /\ DOMAIN <<>> = {}
    BY <1>4
  <2> QED
    BY <2>1
<1> QED
  BY <1>4, <1>5

(* What encode makes of a frame: its kind, the digits of its length and    *)
(* its payload, one after the other.                                       *)
LEMMA EncodedIs ==
  ASSUME NEW f \in Frames
  PROVE  /\ Encoded(f) \in Seq(Byte) /\ Len(Encoded(f)) = Header + Len(f.payload)
         /\ Encoded(f)[1] = f.kind
         /\ \A i \in 1 .. LengthDigits : Encoded(f)[1 + i] = Digits(Len(f.payload))[i]
         /\ \A i \in 1 .. Len(f.payload) : Encoded(f)[Header + i] = f.payload[i]
<1> DEFINE k == <<f.kind>>
           d == Digits(Len(f.payload))
           p == f.payload
           h == k \o d
<1>1. /\ k \in Seq(Byte) /\ Len(k) = 1 /\ k[1] = f.kind
      /\ p \in Seq(Byte) /\ Len(p) \in Nat
  BY FrameIs
<1>2. d \in Seq(Byte) /\ Len(d) = LengthDigits /\ LengthDigits \in Nat \ {0}
  BY <1>1, DigitsAreBytes, FramingAssumption
<1>3. Encoded(f) = h \o p
  BY DEF Encoded
<1> HIDE DEF k, d, p
<1>4. /\ h \in Seq(Byte) /\ Len(h) = Header
      /\ h[1] = f.kind /\ \A i \in 1 .. LengthDigits : h[1 + i] = d[i]
  <2>1. /\ h \in Seq(Byte) /\ Len(h) = Len(k) + Len(d)
        /\ \A i \in 1 .. Len(k) : h[i] = k[i]
        /\ \A i \in 1 .. Len(d) : h[Len(k) + i] = d[i]
    <3>1. k \in Seq(Byte) /\ d \in Seq(Byte)
      BY <1>1, <1>2
    <3> QED
      BY ONLY <3>1, Joins
  <2> QED
    BY <1>1, <1>2, <2>1 DEF Header
<1> HIDE DEF h
<1> DEFINE e == h \o p
<1>5. /\ e \in Seq(Byte) /\ Len(e) = Len(h) + Len(p)
      /\ \A i \in 1 .. Len(h) : e[i] = h[i]
      /\ \A i \in 1 .. Len(p) : e[Len(h) + i] = p[i]
  <2>1. h \in Seq(Byte) /\ p \in Seq(Byte)
    BY <1>1, <1>4
  <2> QED
    BY <2>1, Joins
<1> HIDE DEF e
<1>6. ASSUME NEW i \in 1 .. LengthDigits PROVE e[1 + i] = d[i]
  <2>1. 1 + i \in 1 .. Header
    BY <1>2 DEF Header
  <2> QED
    BY <1>4, <1>5, <2>1
<1>7. e[1] = f.kind
  <2>1. 1 \in 1 .. Header
    BY <1>2 DEF Header
  <2> QED
    BY <1>4, <1>5, <2>1
<1> QED
  BY <1>3, <1>4, <1>5, <1>6, <1>7 DEF d, p, e

---------------------------------------------------------------------------
(* The inductive form of TypeOK.                                           *)
WireInv == TypeOK /\ (now # <<>> => Len(sent) < MaxSent)

(* Some digits that have come make a length, and what it is.               *)
LEMMA LengthIs ==
  ASSUME buffer \in Seq(Byte), Len(buffer) >= Header
  PROVE  /\ Length \in Nat
         /\ \A n \in 0 .. MaxFrame :
              (\A i \in 1 .. LengthDigits : buffer[1 + i] = Digits(n)[i]) => Length = n
<1> DEFINE ds == SubSeq(buffer, 2, Header)
<1>1. LengthDigits \in Nat \ {0} /\ Header \in Nat /\ Header = 1 + LengthDigits /\ MaxFrame \in Nat
  BY FramingAssumption DEF Header
<1>2. \A i \in 2 .. Header : buffer[i] \in Byte
  BY <1>1
<1>3. /\ ds \in Seq(Byte) /\ Len(ds) = LengthDigits
      /\ \A i \in 1 .. LengthDigits : ds[i] = buffer[1 + i]
  <2>1. /\ ds \in Seq(Byte) /\ Len(ds) = IF 2 <= Header THEN Header - 2 + 1 ELSE 0
        /\ \A i \in 1 .. Header - 2 + 1 : ds[i] = buffer[2 + i - 1]
    BY <1>1, <1>2, SubSeqProperties
  <2> QED
    BY <1>1, <2>1
<1> HIDE DEF ds
<1>4. Number(ds) \in Nat
  <2>1. PICK v \in [0 .. Len(ds) -> Nat] : Number(ds) = v[Len(ds)]
    BY <1>3, NumberIs
  <2> QED
    BY <1>1, <1>3, <2>1
<1>5. ASSUME NEW n \in 0 .. MaxFrame, \A i \in 1 .. LengthDigits : buffer[1 + i] = Digits(n)[i]
      PROVE  Number(ds) = n
  <2>1. Digits(n) \in Seq(Byte) /\ Len(Digits(n)) = LengthDigits
    BY <1>1, DigitsAreBytes
  <2> HIDE DEF Digits
  <2>2. \A i \in 1 .. Len(ds) : ds[i] = Digits(n)[i]
    BY <1>3, <1>5
  <2>3. ds = Digits(n)
    BY <1>3, <2>1, <2>2, SeqEqual
  <2> QED
    BY <2>3, LengthsReadBack
<1> QED
  BY <1>4, <1>5 DEF Length, ds

(* The sender.                                                             *)
LEMMA SenderTypes ==
  ASSUME WireInv,
         (\E f \in Frames : Send(f)) \/ (\E n \in 1 .. Len(out) : Flush(n)) \/ Close \/ Alter
  PROVE  WireInv'
<1>1. ASSUME NEW f \in Frames, Send(f) PROVE WireInv'
  BY <1>1, EncodedIs DEF Send, WireInv, TypeOK, readVars
<1>2. ASSUME NEW n \in 1 .. Len(out), Flush(n) PROVE WireInv'
  <2>1. out \in Seq(Byte) /\ n \in 0 .. Len(out)
    BY DEF WireInv, TypeOK
  <2>2. SubSeq(out, 1, n) \in Seq(Byte) /\ out' \in Seq(Byte)
    BY <1>2, <2>1, Cuts DEF Flush
  <2>3. wire' \in Seq(Byte)
    <3>1. wire \in Seq(Byte)
      BY DEF WireInv, TypeOK
    <3>2. wire' = wire \o SubSeq(out, 1, n)
      BY <1>2 DEF Flush
    <3> QED
      BY <2>2, <3>1, <3>2
  <2>4. /\ sent' \in Seq(Frames) /\ now' \in Frames \cup {<<>>} /\ Len(sent') <= MaxSent
        /\ now' # <<>> => Len(sent') < MaxSent
    <3>1. now \in Frames /\ sent \in Seq(Frames) /\ Len(sent) < MaxSent
      BY <1>2 DEF Flush, WireInv, TypeOK
    <3>2. CASE n = Len(out)
      <4>1. sent' = Append(sent, now) /\ now' = <<>>
        BY <1>2, <3>2 DEF Flush
      <4>2. Append(sent, now) \in Seq(Frames) /\ Len(Append(sent, now)) = Len(sent) + 1
        BY <3>1
      <4> QED
        BY <3>1, <4>1, <4>2, FramingAssumption
    <3>3. CASE n # Len(out)
      BY <1>2, <3>3 DEF Flush, WireInv, TypeOK
    <3> QED
      BY <3>2, <3>3
  <2> QED
    BY <1>2, <2>2, <2>3, <2>4 DEF Flush, WireInv, TypeOK, readVars
<1>3. CASE Close
  BY <1>3 DEF Close, WireInv, TypeOK, readVars
<1>4. CASE Alter
  <2>1. PICK i \in DOMAIN wire, b \in Byte : wire' = [wire EXCEPT ![i] = b]
    BY <1>4 DEF Alter
  <2>2. wire' \in Seq(Byte)
    BY <2>1 DEF WireInv, TypeOK
  <2>3. altered' \in 0 .. MaxAltered
    BY <1>4, FramingAssumption DEF Alter, WireInv, TypeOK
  <2> QED
    BY <1>4, <2>2, <2>3 DEF Alter, WireInv, TypeOK, sendVars, readVars
<1> QED
  BY <1>1, <1>2, <1>3, <1>4

(* A frame there is enough for is a frame, and what remains are bytes.     *)
LEMMA DecodeTypes ==
  ASSUME WireInv, DecodeFrame
  PROVE  /\ Decoded \in [kind : {0, 1}, payload : Seq(Byte)] /\ buffer' \in Seq(Byte)
         /\ Len(buffer) >= Header + Length /\ Length \in 0 .. MaxFrame
<1>1. buffer \in Seq(Byte) /\ Len(buffer) \in Nat
  BY DEF WireInv, TypeOK
<1>2. Len(buffer) >= Header /\ ~TooLarge /\ ~(Len(buffer) < Header + Length)
  BY <1>1, FramingAssumption DEF DecodeFrame, WantsMore, Header
<1>3. Length \in Nat /\ Header \in Nat /\ MaxFrame \in Nat
  BY <1>1, <1>2, LengthIs, FramingAssumption DEF Header
<1>4. Length <= MaxFrame /\ Len(buffer) >= Header + Length
  BY <1>1, <1>2, <1>3 DEF TooLarge
<1> HIDE DEF Length, Header
<1>5. Payload \in Seq(Byte)
  <2>1. \A i \in Header + 1 .. Header + Length : buffer[i] \in Byte
    BY <1>1, <1>3, <1>4
  <2>2. Header + 1 \in Int /\ Header + Length \in Int
    BY <1>3
  <2> QED
    BY <2>1, <2>2, SubSeqProperties DEF Payload
<1>6. buffer' \in Seq(Byte)
  <2>1. Header + Length \in 0 .. Len(buffer)
    BY <1>1, <1>3, <1>4
  <2>2. buffer' = SubSeq(buffer, Header + Length + 1, Len(buffer))
    BY DEF DecodeFrame
  <2> QED
    BY <1>1, <2>1, <2>2, Cuts
<1>7. Kind \in {0, 1}
  BY DEF DecodeFrame, Valid
<1> QED
  BY <1>3, <1>4, <1>5, <1>6, <1>7 DEF Decoded

(* The reading end.                                                        *)
LEMMA ReaderTypes ==
  ASSUME WireInv,
         \/ \E n \in 1 .. Len(wire) : Read(n)
         \/ ReadNothing \/ DecodeFrame \/ DecodeFails \/ DecodeNothing
  PROVE  WireInv'
<1>1. ASSUME NEW n \in 1 .. Len(wire), Read(n) PROVE WireInv'
  <2>1. wire \in Seq(Byte) /\ n \in 0 .. Len(wire) /\ buffer \in Seq(Byte)
    BY DEF WireInv, TypeOK
  <2>2. SubSeq(wire, 1, n) \in Seq(Byte) /\ wire' \in Seq(Byte)
    BY <1>1, <2>1, Cuts DEF Read
  <2>3. buffer' \in Seq(Byte)
    <3>1. buffer' = buffer \o SubSeq(wire, 1, n)
      BY <1>1 DEF Read
    <3> QED
      BY <2>1, <2>2, <3>1
  <2> QED
    BY <1>1, <2>2, <2>3 DEF Read, WireInv, TypeOK, sendVars
<1>2. CASE DecodeFrame
  <2>1. read' \in Seq([kind : {0, 1}, payload : Seq(Byte)])
    <3>1. read \in Seq([kind : {0, 1}, payload : Seq(Byte)]) /\ read' = Append(read, Decoded)
      BY <1>2 DEF DecodeFrame, WireInv, TypeOK
    <3>2. Decoded \in [kind : {0, 1}, payload : Seq(Byte)]
      BY <1>2, DecodeTypes
    <3> QED
      BY <3>1, <3>2
  <2> QED
    BY <1>2, <2>1, DecodeTypes DEF DecodeFrame, WireInv, TypeOK, sendVars
<1>3. CASE ReadNothing
  BY <1>3 DEF ReadNothing, WireInv, TypeOK, sendVars
<1>4. CASE DecodeFails
  BY <1>4 DEF DecodeFails, WireInv, TypeOK, sendVars
<1>5. CASE DecodeNothing
  BY <1>5 DEF DecodeNothing, WireInv, TypeOK, sendVars
<1> QED
  BY <1>1, <1>2, <1>3, <1>4, <1>5

(* So the shape of the state is what it should be ...                      *)
LEMMA WireInvHolds == Spec => []WireInv
<1>1. Init => WireInv
  <2> SUFFICES ASSUME Init PROVE WireInv
    OBVIOUS
  <2>1. /\ sent \in Seq(Frames) /\ read \in Seq([kind : {0, 1}, payload : Seq(Byte)])
        /\ out \in Seq(Byte) /\ wire \in Seq(Byte) /\ buffer \in Seq(Byte)
    BY DEF Init
  <2>2. Len(sent) <= MaxSent /\ altered \in 0 .. MaxAltered
    BY FramingAssumption DEF Init
  <2>3. now = <<>> /\ closed \in BOOLEAN /\ eof \in BOOLEAN /\ poll = "read"
    BY DEF Init
  <2> QED
    BY <2>1, <2>2, <2>3 DEF WireInv, TypeOK
<1>2. WireInv /\ [Next]_vars => WireInv'
  <2>1. WireInv /\ UNCHANGED vars => WireInv'
    BY DEF vars, sendVars, readVars, WireInv, TypeOK
  <2> QED
    BY <2>1, SenderTypes, ReaderTypes DEF Next
<1> QED
  BY <1>1, <1>2, PTL DEF Spec

(* Every variable has its type, whatever bytes come: what is handed out is *)
(* a frame of one of the two kinds (codec.rs:50).                          *)
THEOREM TypesHold == Spec => []TypeOK
<1>1. WireInv => TypeOK
  BY DEF WireInv
<1> QED
  BY <1>1, WireInvHolds, PTL

(* While it waits for more, the decoder holds less than one frame of the   *)
(* largest size, whatever length the stream announces (codec.rs:34).       *)
THEOREM BufferStaysSmall == Spec => []BufferBounded
<1>1. Init => BufferBounded
  BY FramingAssumption DEF Init, BufferBounded, Header
<1>2. WireInv /\ BufferBounded /\ [Next]_vars => BufferBounded'
  <2> SUFFICES ASSUME WireInv, BufferBounded, [Next]_vars, poll' = "read"
               PROVE  Len(buffer') < Header + MaxFrame
    BY DEF BufferBounded, Header
  <2>1. CASE poll = "read"
    <3>1. buffer' = buffer
      BY <2>1 DEF Next, vars, Send, Flush, Close, Alter, Read, ReadNothing, DecodeFrame,
                  DecodeFails, DecodeNothing, readVars
    <3> QED
      BY <2>1, <3>1 DEF BufferBounded
  <2>2. CASE poll # "read"
    <3>1. DecodeNothing
      BY <2>2 DEF Next, vars, Send, Flush, Close, Alter, Read, ReadNothing, DecodeFrame,
                  DecodeFails, readVars
    <3>2. WantsMore /\ buffer' = buffer
      BY <3>1 DEF DecodeNothing
    <3>3. /\ buffer \in Seq(Byte) /\ Len(buffer) \in Nat
          /\ Header \in Nat /\ MaxFrame \in Nat
      BY FramingAssumption DEF WireInv, TypeOK, Header
    <3>4. CASE Len(buffer) < Header
      BY <3>2, <3>3, <3>4
    <3>5. CASE ~(Len(buffer) < Header)
      <4>1. Length \in Nat
        BY <3>3, <3>5, LengthIs
      <4>2. ~(Length > MaxFrame) /\ Len(buffer) < Header + Length
        BY <3>2, <3>5 DEF WantsMore, TooLarge
      <4> HIDE DEF Length, Header
      <4> QED
        BY <3>2, <3>3, <4>1, <4>2
    <3> QED
      BY <3>4, <3>5
  <2> QED
    BY <2>1, <2>2
<1> QED
  BY <1>1, <1>2, WireInvHolds, PTL DEF Spec

---------------------------------------------------------------------------
(* The bytes of f are those of T after the first "at".                     *)
Lies(T, at, f) == \A i \in 1 .. Len(Encoded(f)) : T[at + i] = Encoded(f)[i]

(* T is what the frames of q but the first k are encoded to: p[i] is where *)
(* that of frame i ends.                                                   *)
Cutting(p, T, q, k) ==
  /\ p \in [k .. Len(q) -> Nat] /\ p[k] = 0 /\ p[Len(q)] = Len(T)
  /\ \A i \in k + 1 .. Len(q) :
       p[i] = p[i - 1] + Len(Encoded(q[i])) /\ Lies(T, p[i - 1], q[i])
  /\ \A i, j \in k .. Len(q) : i < j => p[i] < p[j]

(* Every frame takes at least its header.                                  *)
LEMMA FrameSize ==
  ASSUME NEW f \in Frames
  PROVE  /\ Encoded(f) \in Seq(Byte) /\ Len(Encoded(f)) \in Nat /\ Len(f.payload) \in Nat
         /\ Header \in Nat /\ Header > 0
         /\ Len(Encoded(f)) = Header + Len(f.payload) /\ Len(Encoded(f)) > 0
<1>1. LengthDigits \in Nat
  BY FramingAssumption
<1>2. f.payload \in Seq(Byte)
  BY FrameIs
<1>3. Len(f.payload) \in Nat
  BY <1>2
<1>4. Encoded(f) \in Seq(Byte) /\ Len(Encoded(f)) = Header + Len(f.payload)
  BY EncodedIs
<1>5. Header \in Nat /\ Header > 0
  BY <1>1 DEF Header
<1> QED
  BY <1>3, <1>4, <1>5

(* One more frame is sent.                                                 *)
LEMMA CuttingGrows ==
  ASSUME NEW T \in Seq(Byte), NEW q \in Seq(Frames), NEW k \in 0 .. Len(q), NEW f \in Frames,
         NEW p, Cutting(p, T, q, k)
  PROVE  \E r : Cutting(r, T \o Encoded(f), Append(q, f), k)
<1> DEFINE n == Len(q)
           e == Encoded(f)
           U == T \o e
           q2 == Append(q, f)
           r == [i \in k .. n + 1 |-> IF i <= n THEN p[i] ELSE p[n] + Len(e)]
<1>1. n \in Nat /\ k \in Nat /\ k <= n
  OBVIOUS
<1>2. /\ p \in [k .. n -> Nat] /\ p[k] = 0 /\ p[n] = Len(T)
      /\ \A i \in k + 1 .. n : p[i] = p[i - 1] + Len(Encoded(q[i])) /\ Lies(T, p[i - 1], q[i])
      /\ \A i, j \in k .. n : i < j => p[i] < p[j]
  BY DEF Cutting
<1>3. e \in Seq(Byte) /\ Len(e) \in Nat /\ Len(e) > 0
  BY FrameSize
<1>4. Len(T) \in Nat
  OBVIOUS
<1>5. /\ q2 \in Seq(Frames) /\ Len(q2) = n + 1 /\ q2[n + 1] = f
      /\ \A i \in 1 .. n : q2[i] = q[i]
  OBVIOUS
<1> HIDE DEF e
<1>6. /\ U \in Seq(Byte) /\ Len(U) = Len(T) + Len(e)
      /\ \A i \in 1 .. Len(T) : U[i] = T[i]
      /\ \A i \in 1 .. Len(e) : U[Len(T) + i] = e[i]
  BY <1>3, Joins
<1> HIDE DEF U, q2, n
<1>7. /\ \A i \in k .. n : r[i] = p[i] /\ p[i] \in Nat
      /\ r[n + 1] = Len(T) + Len(e)
  BY <1>1, <1>2
<1>8. r \in [k .. n + 1 -> Nat]
  <2>1. \A i \in k .. n + 1 : i <= n => i \in k .. n
    BY <1>1
  <2>2. n \in k .. n
    BY <1>1
  <2> QED
    BY <1>2, <1>3, <2>1, <2>2
<1> HIDE DEF r
<1>9. ASSUME NEW i \in k + 1 .. n + 1
      PROVE  r[i] = r[i - 1] + Len(Encoded(q2[i])) /\ Lies(U, r[i - 1], q2[i])
  <2>1. CASE i = n + 1
    <3>1. i - 1 = n /\ n \in k .. n /\ r[i - 1] = Len(T) /\ q2[i] = f
      BY <1>1, <1>2, <1>5, <1>7, <2>1
    <3>2. r[i] = r[i - 1] + Len(e)
      BY <1>7, <2>1, <3>1
    <3>3. \A j \in 1 .. Len(e) : U[r[i - 1] + j] = e[j]
      BY <1>6, <3>1
    <3> QED
      BY <3>1, <3>2, <3>3 DEF Lies, e
  <2>2. CASE i # n + 1
    <3>1. i \in k + 1 .. n /\ i \in k .. n /\ i - 1 \in k .. n /\ i \in 1 .. n
      BY <1>1, <2>2
    <3>2. r[i] = p[i] /\ r[i - 1] = p[i - 1] /\ q2[i] = q[i] /\ p[i - 1] \in Nat /\ p[i] \in Nat
      BY <1>5, <1>7, <3>1
    <3>3. p[i] = p[i - 1] + Len(Encoded(q[i])) /\ Lies(T, p[i - 1], q[i])
      BY <1>2, <3>1
    <3>4. p[i] <= Len(T)
      <4>1. n \in k .. n
        BY <1>1
      <4>2. CASE i = n
        BY <1>2, <1>4, <4>2
      <4>3. CASE i < n
        BY <1>2, <1>4, <3>1, <3>2, <4>1, <4>3
      <4> QED
        BY <1>1, <3>1, <4>2, <4>3
    <3>5. Len(Encoded(q[i])) \in Nat
      <4>1. q[i] \in Frames
        BY <3>1 DEF n
      <4> QED
        BY <4>1, FrameSize
    <3>6. ASSUME NEW j \in 1 .. Len(Encoded(q[i])) PROVE U[p[i - 1] + j] = Encoded(q[i])[j]
      <4>1. p[i - 1] + j \in 1 .. Len(T)
        BY <1>4, <3>2, <3>3, <3>4, <3>5
      <4> QED
        BY <1>6, <3>3, <4>1 DEF Lies
    <3> QED
      BY <3>2, <3>3, <3>6 DEF Lies
  <2> QED
    BY <2>1, <2>2
<1>10. ASSUME NEW i \in k .. n + 1, NEW j \in k .. n + 1, i < j PROVE r[i] < r[j]
  <2>1. i \in k .. n
    BY <1>1, <1>10
  <2>2. CASE j \in k .. n
    BY <1>2, <1>7, <1>10, <2>1, <2>2
  <2>3. CASE j = n + 1
    <3>1. r[i] <= Len(T)
      <4>1. n \in k .. n
        BY <1>1
      <4>2. CASE i = n
        BY <1>2, <1>4, <1>7, <2>1, <4>2
      <4>3. CASE i < n
        BY <1>2, <1>4, <1>7, <2>1, <4>1, <4>3
      <4> QED
        BY <1>1, <2>1, <4>2, <4>3
    <3>2. r[i] \in Nat
      BY <1>7, <2>1
    <3> QED
      BY <1>3, <1>4, <1>7, <2>3, <3>1, <3>2
  <2> QED
    BY <1>1, <2>2, <2>3
<1>11. r[k] = 0 /\ r[Len(q2)] = Len(U)
  <2>1. k \in k .. n
    BY <1>1
  <2> QED
    BY <1>2, <1>5, <1>6, <1>7, <2>1
<1>12. Cutting(r, U, q2, k)
  BY <1>5, <1>8, <1>9, <1>10, <1>11 DEF Cutting
<1> QED
  BY <1>12 DEF U, q2, e

(* One frame is taken off the stream.                                      *)
LEMMA CuttingShrinks ==
  ASSUME NEW T \in Seq(Byte), NEW q \in Seq(Frames), NEW k \in 0 .. Len(q) - 1,
         NEW p, Cutting(p, T, q, k),
         NEW U \in Seq(Byte), Len(U) = Len(T) - Len(Encoded(q[k + 1])),
         \A i \in 1 .. Len(U) : U[i] = T[Len(Encoded(q[k + 1])) + i]
  PROVE  \E r : Cutting(r, U, q, k + 1)
<1> DEFINE n == Len(q)
           d == Len(Encoded(q[k + 1]))
           r == [i \in k + 1 .. n |-> p[i] - d]
<1>1. n \in Nat /\ k \in Nat /\ k + 1 <= n /\ Len(T) \in Nat /\ Len(U) \in Nat
  OBVIOUS
<1>2. /\ p \in [k .. n -> Nat] /\ p[k] = 0 /\ p[n] = Len(T)
      /\ \A i \in k + 1 .. n : p[i] = p[i - 1] + Len(Encoded(q[i])) /\ Lies(T, p[i - 1], q[i])
      /\ \A i, j \in k .. n : i < j => p[i] < p[j]
  BY DEF Cutting
<1>3. d \in Nat /\ p[k + 1] = d
  <2>1. k + 1 \in k + 1 .. n /\ (k + 1) - 1 = k /\ q[k + 1] \in Frames
    BY <1>1
  <2>2. d \in Nat
    BY <2>1, FrameSize
  <2>3. p[k + 1] = p[k] + d
    BY <1>2, <2>1
  <2> QED
    BY <1>2, <2>2, <2>3
<1>4. Len(U) = Len(T) - d /\ \A i \in 1 .. Len(U) : U[i] = T[d + i]
  OBVIOUS
<1> HIDE DEF n, d
<1>5. \A i \in k + 1 .. n : p[i] \in Nat /\ d <= p[i] /\ p[i] <= Len(T)
  <2>1. ASSUME NEW i \in k + 1 .. n PROVE p[i] \in Nat /\ d <= p[i] /\ p[i] <= Len(T)
    <3>1. i \in k .. n /\ k + 1 \in k .. n /\ n \in k .. n
      BY <1>1
    <3>2. p[i] \in Nat
      BY <1>2, <3>1
    <3>3. d <= p[i]
      BY <1>2, <1>3, <3>1, <3>2
    <3>4. p[i] <= Len(T)
      <4>1. CASE i = n
        BY <1>1, <1>2, <4>1
      <4>2. CASE i < n
        BY <1>1, <1>2, <3>1, <3>2, <4>2
      <4> QED
        BY <1>1, <3>1, <4>1, <4>2
    <3> QED
      BY <3>2, <3>3, <3>4
  <2> QED
    BY <2>1
<1>6. r \in [k + 1 .. n -> Nat] /\ \A i \in k + 1 .. n : r[i] = p[i] - d
  BY <1>3, <1>5
<1> HIDE DEF r
<1>7. r[k + 1] = 0 /\ r[n] = Len(U)
  <2>1. k + 1 \in k + 1 .. n /\ n \in k + 1 .. n
    BY <1>1
  <2> QED
    BY <1>2, <1>3, <1>4, <1>6, <2>1
<1>8. ASSUME NEW i \in (k + 1) + 1 .. n
      PROVE  r[i] = r[i - 1] + Len(Encoded(q[i])) /\ Lies(U, r[i - 1], q[i])
  <2>1. i \in k + 1 .. n /\ i - 1 \in k + 1 .. n
    BY <1>1
  <2>2. Len(Encoded(q[i])) \in Nat
    <3>1. q[i] \in Frames
      BY <1>1, <2>1 DEF n
    <3> QED
      BY <3>1, FrameSize
  <2>3. p[i] = p[i - 1] + Len(Encoded(q[i])) /\ Lies(T, p[i - 1], q[i])
    BY <1>2, <2>1
  <2>4. r[i] = p[i] - d /\ r[i - 1] = p[i - 1] - d /\ r[i - 1] \in Nat /\ r[i] \in Nat
    BY <1>6, <2>1
  <2>5. p[i] \in Nat /\ p[i - 1] \in Nat /\ p[i] <= Len(T)
    BY <1>5, <2>1
  <2>6. ASSUME NEW j \in 1 .. Len(Encoded(q[i])) PROVE U[r[i - 1] + j] = Encoded(q[i])[j]
    <3>1. r[i - 1] + j \in 1 .. Len(U) /\ d + (r[i - 1] + j) = p[i - 1] + j
      <4> DEFINE a == p[i - 1]
                 b == p[i]
                 c == r[i - 1]
                 m == Len(Encoded(q[i]))
                 t == Len(T)
                 u == Len(U)
      <4>1. /\ a \in Nat /\ b \in Nat /\ c \in Nat /\ m \in Nat /\ d \in Nat
            /\ t \in Nat /\ u \in Nat
            /\ j \in 1 .. m /\ b = a + m /\ c = a - d /\ b <= t /\ u = t - d
        BY <1>1, <1>3, <1>4, <2>2, <2>3, <2>4, <2>5
      <4> HIDE DEF a, b, c, m, t, u
      <4>2. c + j \in 1 .. u /\ d + (c + j) = a + j
        BY ONLY <4>1
      <4> QED
        BY <4>2 DEF a, c, u
    <3>2. U[r[i - 1] + j] = T[p[i - 1] + j]
      BY <1>4, <3>1
    <3> QED
      BY <2>3, <3>2 DEF Lies
  <2>7. r[i] = r[i - 1] + Len(Encoded(q[i]))
    BY <1>3, <2>2, <2>3, <2>4, <2>5
  <2> QED
    BY <2>6, <2>7 DEF Lies
<1>9. ASSUME NEW i \in k + 1 .. n, NEW j \in k + 1 .. n, i < j PROVE r[i] < r[j]
  <2>1. i \in k .. n /\ j \in k .. n
    BY <1>1
  <2> QED
    BY <1>2, <1>3, <1>5, <1>6, <1>9, <2>1
<1>10. Cutting(r, U, q, k + 1)
  BY <1>6, <1>7, <1>8, <1>9 DEF Cutting, n
<1> QED
  BY <1>10

(* What decode makes of a buffer that holds the first bytes of such a      *)
(* stream: it waits exactly as long as the first frame is not all there,   *)
(* and then it makes that frame of it.                                     *)
LEMMA FirstFrame ==
  ASSUME buffer \in Seq(Byte), NEW T \in Seq(Byte),
         NEW q \in Seq(Frames), NEW k \in 0 .. Len(q) - 1, Fits(q[k + 1]),
         NEW p, Cutting(p, T, q, k),
         \A i \in 1 .. Len(buffer) : buffer[i] = T[i]
  PROVE  /\ WantsMore => Len(buffer) < Len(Encoded(q[k + 1]))
         /\ ~WantsMore => /\ ~TooLarge /\ Valid /\ Decoded = q[k + 1]
                          /\ Header + Length = Len(Encoded(q[k + 1]))
                          /\ Header + Length <= Len(buffer)
<1> DEFINE f == q[k + 1]
           e == Encoded(f)
           b == Len(buffer)
           z == Len(f.payload)
<1>1. f \in Frames /\ Fits(f)
  OBVIOUS
<1>2. \A i \in 1 .. Len(e) : T[i] = e[i]
  <2>1. k + 1 \in k + 1 .. Len(q) /\ (k + 1) - 1 = k
    OBVIOUS
  <2>2. p[k] = 0 /\ Lies(T, p[k], f)
    BY <2>1 DEF Cutting
  <2>3. \A i \in 1 .. Len(e) : T[0 + i] = e[i]
    BY <2>2 DEF Lies
  <2>4. Len(e) \in Nat
    BY <1>1, FrameSize
  <2>5. \A i \in 1 .. Len(e) : 0 + i = i
    BY <2>4
  <2> QED
    BY <2>3, <2>5
<1>3. b \in Nat /\ \A i \in 1 .. b : buffer[i] = T[i]
  OBVIOUS
<1> HIDE DEF f
<1>4. /\ e \in Seq(Byte) /\ Len(e) = Header + z /\ z \in 0 .. MaxFrame
      /\ Header \in Nat /\ Header = 1 + LengthDigits /\ LengthDigits \in Nat
      /\ e[1] = f.kind
      /\ \A i \in 1 .. LengthDigits : e[1 + i] = Digits(z)[i]
      /\ \A i \in 1 .. z : e[Header + i] = f.payload[i]
  <2>1. z <= MaxFrame /\ MaxFrame \in Nat /\ LengthDigits \in Nat
    BY <1>1, FramingAssumption DEF Fits
  <2>2. z \in Nat /\ Header \in Nat
    BY <1>1, FrameSize
  <2>3. z \in 0 .. MaxFrame
    BY <2>1, <2>2
  <2> QED
    BY <1>1, <2>1, <2>2, <2>3, EncodedIs DEF Header
<1> HIDE DEF e, z
<1>5. ASSUME b >= Header
      PROVE  Length = z /\ Kind = f.kind
  <2>1. \A i \in 1 .. LengthDigits :
          1 + i \in 1 .. b /\ 1 + i \in 1 .. Len(e)
    BY <1>3, <1>4, <1>5
  <2>2. \A i \in 1 .. LengthDigits : buffer[1 + i] = Digits(z)[i]
    BY <1>2, <1>3, <1>4, <2>1
  <2>3. 1 \in 1 .. b /\ 1 \in 1 .. Len(e)
    BY <1>3, <1>4, <1>5
  <2>4. buffer[1] = f.kind
    BY <1>2, <1>3, <1>4, <2>3
  <2>5. Length = z
    BY <1>4, <1>5, <2>2, LengthIs
  <2> QED
    BY <2>4, <2>5 DEF Kind
<1>6. WantsMore => b < Len(e)
  <2>1. CASE b < Header
    BY <1>3, <1>4, <2>1
  <2>2. CASE ~(b < Header)
    <3>1. Length = z
      BY <1>3, <1>4, <1>5, <2>2
    <3>2. WantsMore => b < Header + Length
      BY <2>2 DEF WantsMore
    <3> QED
      BY <1>4, <3>1, <3>2
  <2> QED
    BY <2>1, <2>2
<1>7. ASSUME ~WantsMore
      PROVE  ~TooLarge /\ Valid /\ Decoded = f /\ Header + Length = Len(e) /\ Header + Length <= b
  <2>1. b >= Header
    BY <1>3, <1>4, <1>7 DEF WantsMore
  <2>2. Length = z /\ Kind = f.kind
    BY <1>5, <2>1
  <2>3. ~TooLarge
    BY <1>4, <2>2, FramingAssumption DEF TooLarge
  <2>4. Header + z <= b
    BY <1>3, <1>4, <1>7, <2>1, <2>2, <2>3 DEF WantsMore
  <2>5. Payload = f.payload
    <3> DEFINE lo == Header + 1
               hi == Header + z
               w == SubSeq(buffer, lo, hi)
    <3>1. /\ lo \in Int /\ hi \in Int /\ hi - lo + 1 = z
          /\ (IF lo <= hi THEN hi - lo + 1 ELSE 0) = z
          /\ \A i \in lo .. hi : buffer[i] \in Byte
          /\ \A i \in 1 .. z : lo + i - 1 = Header + i
      BY <1>3, <1>4, <2>4
    <3> HIDE DEF lo, hi
    <3>2. /\ w \in Seq(Byte) /\ Len(w) = IF lo <= hi THEN hi - lo + 1 ELSE 0
          /\ \A i \in 1 .. hi - lo + 1 : w[i] = buffer[lo + i - 1]
      BY <3>1, SubSeqProperties
    <3> HIDE DEF w
    <3>3. /\ w \in Seq(Byte) /\ Len(w) = z
          /\ \A i \in 1 .. z : w[i] = buffer[Header + i]
      BY <3>1, <3>2
    <3>4. ASSUME NEW i \in 1 .. z PROVE w[i] = f.payload[i]
      <4>1. Header + i \in 1 .. b /\ Header + i \in 1 .. Len(e)
        BY <1>3, <1>4, <2>4
      <4>2. w[i] = buffer[Header + i]
        BY <3>3
      <4>3. buffer[Header + i] = e[Header + i]
        BY <1>2, <1>3, <4>1
      <4> QED
        BY <1>4, <4>2, <4>3
    <3>5. f.payload \in Seq(Byte) /\ Len(f.payload) = z
      BY <1>1, FrameIs DEF z
    <3>6. w = f.payload
      BY <3>3, <3>4, <3>5, SeqEqual
    <3> QED
      BY <2>2, <3>6 DEF Payload, w, lo, hi
  <2>6. Valid
    BY <1>1, <2>2, <2>5, FrameIs DEF Valid
  <2>7. Decoded = f
    BY <1>1, <2>2, <2>5, FrameIs DEF Decoded
  <2> QED
    BY <1>4, <2>2, <2>3, <2>4, <2>6, <2>7
<1> QED
  BY <1>6, <1>7 DEF e, f

(* The two parts a sequence is cut in make the sequence.                   *)
LEMMA CutJoined ==
  ASSUME NEW S, NEW q \in Seq(S), NEW n \in 0 .. Len(q)
  PROVE  SubSeq(q, 1, n) \o SubSeq(q, n + 1, Len(q)) = q
<1> DEFINE a == SubSeq(q, 1, n)
           b == SubSeq(q, n + 1, Len(q))
           t == a \o b
<1>1. /\ a \in Seq(S) /\ Len(a) = n /\ \A i \in 1 .. n : a[i] = q[i]
      /\ b \in Seq(S) /\ Len(b) = Len(q) - n
      /\ \A i \in 1 .. Len(q) - n : b[i] = q[n + i]
  BY Cuts
<1>2. Len(q) \in Nat /\ n \in Nat /\ n <= Len(q)
  OBVIOUS
<1> HIDE DEF a, b
<1>3. /\ t \in Seq(S) /\ Len(t) = Len(a) + Len(b)
      /\ \A i \in 1 .. Len(a) : t[i] = a[i]
      /\ \A i \in 1 .. Len(b) : t[Len(a) + i] = b[i]
  <2>1. a \in Seq(S) /\ b \in Seq(S)
    BY <1>1
  <2> QED
    BY <2>1, Joins
<1> HIDE DEF t
<1>4. Len(t) = Len(q)
  BY <1>1, <1>2, <1>3
<1>5. ASSUME NEW i \in 1 .. Len(t) PROVE t[i] = q[i]
  <2>1. CASE i \in 1 .. n
    BY <1>1, <1>3, <2>1
  <2>2. CASE i \notin 1 .. n
    <3>1. PICK j \in 1 .. Len(q) - n : i = n + j
      <4>1. i - n \in 1 .. Len(q) - n /\ i = n + (i - n)
        BY <1>2, <1>4, <2>2
      <4> QED
        BY <4>1
    <3>2. b[j] = q[n + j]
      BY <1>1
    <3>3. t[n + j] = b[j]
      BY <1>1, <1>3
    <3> QED
      BY <3>1, <3>2, <3>3
  <2> QED
    BY <2>1, <2>2
<1>6. t = q
  <2>1. t \in Seq(S) /\ q \in Seq(S)
    BY <1>3
  <2> QED
    BY <1>4, <1>5, <2>1, SeqEqual
<1> QED
  BY <1>6 DEF t, a, b

---------------------------------------------------------------------------
(* The frames that are sent or being sent, and the bytes not decoded yet.  *)
Begun  == IF now = <<>> THEN sent ELSE Append(sent, now)
Stream == (buffer \o wire) \o out

(* What has been handed out was sent, and what has not is what the bytes   *)
(* not decoded yet are cut in; the frame being sent still has some of its  *)
(* own at the end.  The reading end is over only when nothing can come,    *)
(* with an error only when the buffer holds a part of a frame.             *)
AsSent ==
  /\ Len(read) <= Len(sent) /\ \A i \in 1 .. Len(read) : read[i] = sent[i]
  /\ now = <<>> => out = <<>>
  /\ now # <<>> => Len(out) \in 1 .. Len(Encoded(now))
  /\ \A i \in 1 .. Len(Begun) : Fits(Begun[i])
  /\ \E p : Cutting(p, Stream, Begun, Len(read))
  /\ eof => closed /\ wire = <<>>
  /\ poll = "end" => eof /\ buffer = <<>>
  /\ poll = "error" => eof /\ buffer # <<>> /\ WantsMore

StreamInv == altered = 0 => AsSent

(* The shapes of the two, and how they begin.                              *)
LEMMA StreamIs ==
  ASSUME WireInv
  PROVE  /\ buffer \in Seq(Byte) /\ wire \in Seq(Byte) /\ out \in Seq(Byte)
         /\ Stream \in Seq(Byte) /\ Len(Stream) = Len(buffer) + Len(wire) + Len(out)
         /\ \A i \in 1 .. Len(buffer) : Stream[i] = buffer[i]
         /\ sent \in Seq(Frames) /\ Begun \in Seq(Frames)
         /\ Len(Begun) = IF now = <<>> THEN Len(sent) ELSE Len(sent) + 1
         /\ now # <<>> => Begun[Len(sent) + 1] = now /\ now \in Frames
         /\ \A i \in 1 .. Len(sent) : Begun[i] = sent[i]
<1> DEFINE u == buffer \o wire
<1>1. /\ buffer \in Seq(Byte) /\ wire \in Seq(Byte) /\ out \in Seq(Byte)
      /\ sent \in Seq(Frames) /\ now \in Frames \cup {<<>>}
  BY DEF WireInv, TypeOK
<1>2. /\ u \in Seq(Byte) /\ Len(u) = Len(buffer) + Len(wire)
      /\ \A i \in 1 .. Len(buffer) : u[i] = buffer[i]
  BY <1>1, Joins
<1> HIDE DEF u
<1>3. /\ u \o out \in Seq(Byte) /\ Len(u \o out) = Len(u) + Len(out)
      /\ \A i \in 1 .. Len(u) : (u \o out)[i] = u[i]
  <2>1. u \in Seq(Byte) /\ out \in Seq(Byte)
    BY <1>1, <1>2
  <2> QED
    BY <2>1, Joins
<1>4. /\ Stream \in Seq(Byte) /\ Len(Stream) = Len(u) + Len(out)
      /\ \A i \in 1 .. Len(u) : Stream[i] = u[i]
  BY <1>3 DEF Stream, u
<1>5. Len(buffer) \in Nat /\ Len(wire) \in Nat
  BY <1>1
<1>6. \A i \in 1 .. Len(buffer) : Stream[i] = buffer[i]
  <2>1. \A i \in 1 .. Len(buffer) : i \in 1 .. Len(u)
    BY <1>2, <1>5
  <2> QED
    BY <1>2, <1>4, <2>1
<1>7. /\ Begun \in Seq(Frames) /\ Len(Begun) = IF now = <<>> THEN Len(sent) ELSE Len(sent) + 1
      /\ now # <<>> => Begun[Len(sent) + 1] = now /\ now \in Frames
      /\ \A i \in 1 .. Len(sent) : Begun[i] = sent[i]
  <2>1. CASE now = <<>>
    BY <1>1, <2>1 DEF Begun
  <2>2. CASE now # <<>>
    <3> DEFINE q == Append(sent, now)
    <3>1. Begun = q /\ now \in Frames
      BY <1>1, <2>2 DEF Begun
    <3>2. /\ q \in Seq(Frames) /\ Len(q) = Len(sent) + 1 /\ q[Len(sent) + 1] = now
          /\ \A i \in 1 .. Len(sent) : q[i] = sent[i]
      BY <1>1, <3>1
    <3> HIDE DEF q
    <3> QED
      BY <2>2, <3>1, <3>2
  <2> QED
    BY <2>1, <2>2
<1> QED
  BY <1>1, <1>2, <1>4, <1>6, <1>7

(* A frame to send comes after all the others.                             *)
LEMMA SendKeeps ==
  ASSUME WireInv, AsSent, NEW f \in Frames, Send(f)
  PROVE  AsSent'
<1>1. /\ now = <<>> /\ out = <<>> /\ now' = f /\ out' = Encoded(f) /\ Fits(f) /\ ~closed
      /\ UNCHANGED <<sent, closed, wire, buffer, poll, eof, read>>
  BY DEF Send, AsSent, readVars
<1>2. f # <<>> /\ Encoded(f) \in Seq(Byte) /\ Len(Encoded(f)) \in Nat /\ Len(Encoded(f)) > 0
  BY FrameIs, FrameSize
<1>3. /\ Begun = sent /\ Begun \in Seq(Frames) /\ Stream \in Seq(Byte)
      /\ Len(read) <= Len(sent) /\ Len(read) \in Nat
  BY <1>1, StreamIs DEF Begun, AsSent, WireInv, TypeOK
<1>4. Begun' = Append(Begun, f)
  BY <1>1, <1>2, <1>3 DEF Begun
<1>5. Stream' = Stream \o Encoded(f)
  <2>1. buffer \o wire \in Seq(Byte)
    BY StreamIs
  <2>2. Stream = buffer \o wire
    BY <1>1, <2>1, ConcatEmptySeq DEF Stream
  <2> QED
    BY <1>1, <2>2 DEF Stream
<1>6. \E p : Cutting(p, Stream', Begun', Len(read'))
  <2>1. PICK p : Cutting(p, Stream, Begun, Len(read))
    BY DEF AsSent
  <2>2. Len(read) \in 0 .. Len(Begun)
    BY <1>3
  <2>3. \E r : Cutting(r, Stream \o Encoded(f), Append(Begun, f), Len(read))
    BY <1>3, <2>1, <2>2, CuttingGrows
  <2> QED
    BY <1>1, <1>4, <1>5, <2>3
<1>7. \A i \in 1 .. Len(Begun') : Fits(Begun'[i])
  <2> DEFINE q == Begun
             r == Append(q, f)
  <2>1. q \in Seq(Frames) /\ \A i \in 1 .. Len(q) : Fits(q[i])
    BY <1>3 DEF AsSent
  <2> HIDE DEF q
  <2>2. Len(r) = Len(q) + 1 /\ Len(q) \in Nat /\ r[Len(q) + 1] = f
        /\ \A i \in 1 .. Len(q) : r[i] = q[i]
    BY <2>1
  <2> HIDE DEF r
  <2>3. \A i \in 1 .. Len(r) : i \in 1 .. Len(q) \/ i = Len(q) + 1
    BY <2>2
  <2>4. \A i \in 1 .. Len(r) : Fits(r[i])
    BY <1>1, <2>1, <2>2, <2>3
  <2> QED
    BY <1>4, <2>4 DEF q, r
<1>8. Len(out') \in 1 .. Len(Encoded(now'))
  BY <1>1, <1>2
<1>9. WantsMore' <=> WantsMore
  BY <1>1 DEF WantsMore, TooLarge, Length
<1> QED
  BY <1>1, <1>2, <1>6, <1>7, <1>8, <1>9 DEF AsSent

(* Bytes are flushed: from what is to be sent to what is on its way.       *)
LEMMA FlushKeeps ==
  ASSUME WireInv, AsSent, NEW n \in 1 .. Len(out), Flush(n)
  PROVE  AsSent'
<1> DEFINE a == SubSeq(out, 1, n)
           b == SubSeq(out, n + 1, Len(out))
<1>1. /\ ~closed /\ now # <<>> /\ wire' = wire \o a /\ out' = b
      /\ UNCHANGED <<closed, altered, buffer, poll, eof, read>>
  BY DEF Flush, readVars
<1>2. out \in Seq(Byte) /\ wire \in Seq(Byte) /\ buffer \in Seq(Byte) /\ n \in 0 .. Len(out)
      /\ Len(out) \in Nat /\ n \in Nat
  BY StreamIs
<1>3. a \in Seq(Byte) /\ b \in Seq(Byte) /\ Len(b) = Len(out) - n /\ out = a \o b
  BY <1>2, Cuts, CutJoined
<1>4. \/ n = Len(out) /\ sent' = Append(sent, now) /\ now' = <<>>
      \/ n # Len(out) /\ UNCHANGED <<sent, now>>
  BY DEF Flush
<1> HIDE DEF a, b
<1>5. Begun' = Begun
  BY <1>1, <1>4 DEF Begun
<1>6. Stream' = Stream
  <2> DEFINE u == buffer \o wire
  <2>1. u \in Seq(Byte)
    BY <1>2
  <2>2. Stream' = (buffer \o (wire \o a)) \o b
    BY <1>1 DEF Stream
  <2>3. buffer \o (wire \o a) = u \o a
    <3>1. buffer \in Seq(Byte) /\ wire \in Seq(Byte) /\ a \in Seq(Byte)
      BY <1>2, <1>3
    <3>2. (buffer \o wire) \o a = buffer \o (wire \o a)
      BY <3>1, ConcatAssociative
    <3> QED
      BY <3>2
  <2> HIDE DEF u
  <2>4. (u \o a) \o b = u \o (a \o b)
    BY <1>3, <2>1, ConcatAssociative
  <2> QED
    BY <1>3, <2>2, <2>3, <2>4 DEF Stream, u
<1>7. /\ now' = <<>> => out' = <<>>
      /\ now' # <<>> => Len(out') \in 1 .. Len(Encoded(now'))
  <2>1. Len(out) \in 1 .. Len(Encoded(now)) /\ Len(Encoded(now)) \in Nat
    BY <1>1, StreamIs, FrameSize DEF AsSent
  <2>2. CASE n = Len(out)
    <3>1. Len(b) = 0
      BY <1>2, <1>3, <2>2
    <3>2. b = <<>>
      BY <1>3, <3>1
    <3> QED
      BY <1>1, <1>4, <2>2, <3>2
  <2>3. CASE n # Len(out)
    <3>1. Len(b) \in 1 .. Len(Encoded(now))
      BY <1>2, <1>3, <2>1, <2>3
    <3> QED
      BY <1>1, <1>4, <2>3, <3>1
  <2> QED
    BY <2>2, <2>3
<1>8. Len(read') <= Len(sent') /\ \A i \in 1 .. Len(read') : read'[i] = sent'[i]
  <2>1. /\ Len(read) \in Nat /\ Len(read) <= Len(sent) /\ Len(sent) \in Nat
        /\ \A i \in 1 .. Len(read) : read[i] = sent[i]
    BY DEF AsSent, WireInv, TypeOK
  <2>2. CASE sent' = sent
    BY <1>1, <2>1, <2>2
  <2>3. CASE sent' = Append(sent, now)
    <3> DEFINE q == Append(sent, now)
    <3>1. Len(q) = Len(sent) + 1 /\ \A i \in 1 .. Len(sent) : q[i] = sent[i]
      BY <1>1, StreamIs
    <3> HIDE DEF q
    <3>2. Len(read) <= Len(q) /\ \A i \in 1 .. Len(read) : read[i] = q[i]
      BY <2>1, <3>1
    <3> QED
      BY <1>1, <2>3, <3>2 DEF q
  <2> QED
    BY <1>4, <2>2, <2>3
<1>9. eof = FALSE
  BY <1>1 DEF AsSent, WireInv, TypeOK
<1>10. poll \notin {"end", "error"}
  BY <1>9 DEF AsSent
<1> QED
  BY <1>1, <1>5, <1>6, <1>7, <1>8, <1>9, <1>10 DEF AsSent

(* Bytes are read: from what is on its way to what is to be decoded.       *)
LEMMA ReadKeeps ==
  ASSUME WireInv, AsSent, NEW n \in 1 .. Len(wire), Read(n)
  PROVE  AsSent'
<1> DEFINE a == SubSeq(wire, 1, n)
           b == SubSeq(wire, n + 1, Len(wire))
<1>1. /\ poll' = "decode" /\ buffer' = buffer \o a /\ wire' = b
      /\ UNCHANGED <<sent, now, out, closed, eof, read>>
  BY DEF Read, sendVars
<1>2. out \in Seq(Byte) /\ wire \in Seq(Byte) /\ buffer \in Seq(Byte)
  BY StreamIs
<1>3. a \in Seq(Byte) /\ b \in Seq(Byte) /\ wire = a \o b
  <2>1. n \in 0 .. Len(wire)
    OBVIOUS
  <2> QED
    BY <1>2, <2>1, Cuts, CutJoined
<1>4. wire # <<>>
  BY <1>2
<1> HIDE DEF a, b
<1>5. Stream' = Stream
  <2>1. (buffer \o a) \o b = buffer \o (a \o b)
    <3>1. buffer \in Seq(Byte) /\ a \in Seq(Byte) /\ b \in Seq(Byte)
      BY <1>2, <1>3
    <3> QED
      BY <3>1, ConcatAssociative
  <2> QED
    BY <1>1, <1>3, <2>1 DEF Stream
<1>6. Begun' = Begun
  BY <1>1 DEF Begun
<1>7. ~eof
  BY <1>4 DEF AsSent
<1> QED
  BY <1>1, <1>5, <1>6, <1>7 DEF AsSent

(* A frame is decoded: the one that was sent after those handed out.       *)
LEMMA DecodeKeeps ==
  ASSUME WireInv, AsSent, DecodeFrame
  PROVE  AsSent'
<1> DEFINE k == Len(read)
           q == Begun
           e == Encoded(q[k + 1])
           b == Len(buffer)
<1>1. /\ poll = "decode" /\ ~WantsMore /\ read' = Append(read, Decoded)
      /\ buffer' = SubSeq(buffer, Header + Length + 1, Len(buffer))
      /\ UNCHANGED <<sent, now, out, closed, wire, poll, eof>>
  BY DEF DecodeFrame, sendVars
<1>2. /\ buffer \in Seq(Byte) /\ wire \in Seq(Byte) /\ out \in Seq(Byte)
      /\ Stream \in Seq(Byte) /\ Len(Stream) = b + Len(wire) + Len(out)
      /\ \A i \in 1 .. b : Stream[i] = buffer[i]
      /\ q \in Seq(Frames) /\ b \in Nat /\ Len(wire) \in Nat /\ Len(out) \in Nat
  BY StreamIs
<1>3. /\ k \in Nat /\ Len(sent) \in Nat /\ k <= Len(sent) /\ Len(q) \in Nat
      /\ Len(q) = IF now = <<>> THEN Len(sent) ELSE Len(sent) + 1
  BY StreamIs DEF AsSent, WireInv, TypeOK
<1>4. PICK p : Cutting(p, Stream, q, k)
  BY DEF AsSent
<1>5. b > 0
  BY <1>1, <1>2, FramingAssumption DEF WantsMore, Header
<1> HIDE DEF q
<1>6. k < Len(q)
  <2>1. CASE k = Len(q)
    <3>1. Len(Stream) = 0
      BY <1>4, <2>1 DEF Cutting
    <3> QED
      BY <1>2, <1>5, <3>1
  <2> QED
    BY <1>3, <2>1
<1>7. /\ Decoded = q[k + 1] /\ Header + Length = Len(e) /\ Len(e) <= b
      /\ k \in 0 .. Len(q) - 1 /\ Len(e) \in Nat /\ k + 1 \in 1 .. Len(q)
  <2>1. k \in 0 .. Len(q) - 1 /\ k + 1 \in 1 .. Len(q)
    BY <1>3, <1>6
  <2>2. Fits(q[k + 1]) /\ q[k + 1] \in Frames
    BY <1>2, <2>1 DEF AsSent, q
  <2>3. \A i \in 1 .. Len(buffer) : buffer[i] = Stream[i]
    BY <1>2
  <2>4. /\ Decoded = q[k + 1] /\ Header + Length = Len(Encoded(q[k + 1]))
        /\ Header + Length <= Len(buffer)
    BY <1>1, <1>2, <1>4, <2>1, <2>2, <2>3, FirstFrame
  <2> QED
    BY <2>1, <2>2, <2>4, FrameSize
<1> HIDE DEF e, k, b
<1>8. k + 1 <= Len(sent)
  <2>1. CASE k = Len(sent)
    <3>1. now # <<>> /\ k + 1 = Len(q)
      BY <1>3, <1>6, <2>1
    <3>2. q[k + 1] = now
      BY <2>1, <3>1, StreamIs DEF q
    <3>3. Len(out) >= 1
      BY <3>1, <1>2 DEF AsSent
    <3>4. Len(Stream) = Len(e)
      <4>1. k + 1 \in k + 1 .. Len(q) /\ (k + 1) - 1 = k
        BY <1>3, <3>1
      <4>2. p[k + 1] = p[k] + Len(e) /\ p[k] = 0 /\ p[Len(q)] = Len(Stream)
        BY <1>4, <4>1 DEF Cutting, e
      <4> QED
        BY <1>7, <3>1, <4>2
    <3> QED
      BY <1>2, <1>7, <3>3, <3>4
  <2> QED
    BY <1>3, <2>1
<1>9. Begun' = q
  BY <1>1 DEF Begun, q
<1>10. Len(read') = k + 1 /\ \A i \in 1 .. k + 1 : read'[i] = sent[i]
  <2> DEFINE r == Append(read, Decoded)
  <2>1. Len(r) = k + 1 /\ r[k + 1] = Decoded /\ \A i \in 1 .. k : r[i] = read[i]
    <3>1. read \in Seq([kind : {0, 1}, payload : Seq(Byte)])
      BY DEF WireInv, TypeOK
    <3>2. Decoded \in [kind : {0, 1}, payload : Seq(Byte)]
      BY DecodeTypes
    <3> QED
      BY <3>1, <3>2 DEF k
  <2> HIDE DEF r
  <2>2. q[k + 1] = sent[k + 1]
    <3>1. k + 1 \in 1 .. Len(sent)
      BY <1>3, <1>8
    <3> QED
      BY <3>1, StreamIs DEF q
  <2>3. \A i \in 1 .. k : read[i] = sent[i]
    BY DEF AsSent, k
  <2>4. \A i \in 1 .. k + 1 : i \in 1 .. k \/ i = k + 1
    BY <1>3
  <2>5. \A i \in 1 .. k + 1 : r[i] = sent[i]
    BY <1>7, <2>1, <2>2, <2>3, <2>4
  <2> QED
    BY <1>1, <2>1, <2>5 DEF r
<1>11. \E r : Cutting(r, Stream', q, k + 1)
  <2> DEFINE d == Len(e)
             lo == SubSeq(buffer, 1, d)
             hi == SubSeq(buffer, d + 1, Len(buffer))
  <2>1. d \in 0 .. Len(buffer)
    BY <1>2, <1>7 DEF b
  <2>2. lo \in Seq(Byte) /\ hi \in Seq(Byte) /\ Len(lo) = d /\ buffer = lo \o hi
    BY <1>2, <2>1, Cuts, CutJoined
  <2>3. buffer' = hi
    BY <1>1, <1>7
  <2> HIDE DEF d, lo, hi
  <2>4. (lo \o hi) \o wire = lo \o (hi \o wire)
    <3>1. lo \in Seq(Byte) /\ hi \in Seq(Byte) /\ wire \in Seq(Byte)
      BY <1>2, <2>2
    <3> QED
      BY <3>1, ConcatAssociative
  <2> DEFINE v == hi \o wire
  <2>5. v \in Seq(Byte)
    BY <1>2, <2>2
  <2> HIDE DEF v
  <2>6. (lo \o v) \o out = lo \o (v \o out)
    <3>1. lo \in Seq(Byte) /\ v \in Seq(Byte) /\ out \in Seq(Byte)
      BY <1>2, <2>2, <2>5
    <3> QED
      BY <3>1, ConcatAssociative
  <2> DEFINE w == v \o out
  <2>7. w \in Seq(Byte)
    BY <1>2, <2>5
  <2>8. Stream' = w
    BY <1>1, <2>3 DEF Stream, v
  <2> HIDE DEF w
  <2>9. Stream = lo \o w
    BY <2>2, <2>4, <2>6 DEF Stream, v, w
  <2>10. /\ Len(Stream) = d + Len(w)
         /\ \A i \in 1 .. Len(w) : Stream[d + i] = w[i]
    <3>1. lo \in Seq(Byte) /\ w \in Seq(Byte)
      BY <2>2, <2>7
    <3>2. /\ Len(lo \o w) = Len(lo) + Len(w)
          /\ \A i \in 1 .. Len(w) : (lo \o w)[Len(lo) + i] = w[i]
      BY <3>1, Joins
    <3> QED
      BY <2>2, <2>9, <3>2
  <2>11. Len(w) = Len(Stream) - d /\ \A i \in 1 .. Len(w) : w[i] = Stream[d + i]
    <3>1. Len(w) \in Nat /\ d \in Nat
      BY <2>1, <2>7
    <3> QED
      BY <2>10, <3>1
  <2>12. \E r : Cutting(r, w, q, k + 1)
    BY <1>2, <1>4, <1>7, <2>7, <2>11, CuttingShrinks DEF d, e
  <2> QED
    BY <2>8, <2>12
<1>12. /\ Len(read') <= Len(sent') /\ \A i \in 1 .. Len(read') : read'[i] = sent'[i]
  BY <1>1, <1>8, <1>10
<1>13. \E r : Cutting(r, Stream', Begun', Len(read'))
  BY <1>9, <1>10, <1>11
<1>14. \A i \in 1 .. Len(Begun') : Fits(Begun'[i])
  BY <1>9 DEF AsSent, q
<1>15. poll' \notin {"end", "error"}
  BY <1>1
<1> QED
  BY <1>1, <1>12, <1>13, <1>14, <1>15 DEF AsSent

(* What was sent is never refused.                                         *)
LEMMA NeverFails ==
  ASSUME WireInv, AsSent, DecodeFails
  PROVE  FALSE
<1> DEFINE k == Len(read)
           q == Begun
<1>1. poll = "decode" /\ ~WantsMore /\ ~(~TooLarge /\ Valid)
  BY DEF DecodeFails
<1>2. /\ buffer \in Seq(Byte) /\ Stream \in Seq(Byte) /\ q \in Seq(Frames)
      /\ Len(Stream) = Len(buffer) + Len(wire) + Len(out)
      /\ \A i \in 1 .. Len(buffer) : buffer[i] = Stream[i]
      /\ Len(buffer) \in Nat /\ Len(wire) \in Nat /\ Len(out) \in Nat
  BY StreamIs
<1>3. k \in Nat /\ k <= Len(q) /\ Len(q) \in Nat
  BY StreamIs DEF AsSent, WireInv, TypeOK
<1>4. PICK p : Cutting(p, Stream, q, k)
  BY DEF AsSent
<1>5. Len(buffer) > 0
  BY <1>1, <1>2, FramingAssumption DEF WantsMore, Header
<1> HIDE DEF q, k
<1>6. k # Len(q)
  <2>1. CASE k = Len(q)
    <3>1. Len(Stream) = 0
      BY <1>4, <2>1 DEF Cutting
    <3> QED
      BY <1>2, <1>5, <3>1
  <2> QED
    BY <2>1
<1>7. k \in 0 .. Len(q) - 1 /\ k + 1 \in 1 .. Len(q)
  BY <1>3, <1>6
<1>8. Fits(q[k + 1])
  BY <1>7 DEF AsSent, q
<1>9. ~TooLarge /\ Valid
  BY <1>1, <1>2, <1>4, <1>7, <1>8, FirstFrame
<1> QED
  BY <1>1, <1>9

(* No other step of the reading end, nor the end of the sending one, moves *)
(* a byte.                                                                 *)
LEMMA RestKeeps ==
  ASSUME WireInv, AsSent,
         ReadNothing \/ DecodeNothing \/ Close \/ UNCHANGED vars
  PROVE  AsSent'
<1>1. UNCHANGED <<sent, now, out, wire, buffer, read>>
  BY DEF ReadNothing, DecodeNothing, Close, vars, sendVars, readVars
<1>2. /\ Stream' = Stream /\ Begun' = Begun
      /\ (WantsMore' <=> WantsMore)
  BY <1>1 DEF Stream, Begun, WantsMore, TooLarge, Length
<1>3. CASE ReadNothing
  BY <1>1, <1>2, <1>3 DEF ReadNothing, AsSent, sendVars
<1>4. CASE DecodeNothing
  <2>1. /\ poll' = "end" => eof /\ buffer = <<>>
        /\ poll' = "error" => eof /\ buffer # <<>> /\ WantsMore
    <3>1. CASE ~eof
      BY <1>4, <3>1 DEF DecodeNothing
    <3>2. CASE eof /\ buffer = <<>>
      BY <1>4, <3>2 DEF DecodeNothing
    <3>3. CASE eof /\ buffer # <<>>
      BY <1>4, <3>3 DEF DecodeNothing
    <3> QED
      BY <3>1, <3>2, <3>3
  <2>2. UNCHANGED <<closed, eof>>
    BY <1>4 DEF DecodeNothing, sendVars
  <2> QED
    BY <1>1, <1>2, <2>1, <2>2 DEF AsSent
<1>5. CASE Close
  BY <1>1, <1>2, <1>5 DEF Close, AsSent, readVars
<1>6. CASE UNCHANGED vars
  BY <1>1, <1>2, <1>6 DEF AsSent, vars, sendVars, readVars
<1> QED
  BY <1>3, <1>4, <1>5, <1>6

(* So it always holds, as long as no byte is altered.                      *)
LEMMA StreamInvHolds == Spec => []StreamInv
<1>1. Init => StreamInv
  <2> SUFFICES ASSUME Init PROVE AsSent
    BY DEF StreamInv
  <2>1. /\ sent = <<>> /\ now = <<>> /\ out = <<>> /\ wire = <<>> /\ buffer = <<>>
        /\ read = <<>> /\ ~eof /\ poll = "read"
    BY DEF Init
  <2>2. Begun = <<>> /\ Len(Begun) = 0
    BY <2>1 DEF Begun
  <2>3. Stream = <<>> /\ Len(Stream) = 0
    BY <2>1 DEF Stream
  <2> DEFINE p == [i \in 0 .. 0 |-> 0]
  <2>4. Cutting(p, Stream, Begun, 0)
    BY <2>2, <2>3 DEF Cutting
  <2> HIDE DEF p
  <2>5. \E r : Cutting(r, Stream, Begun, 0)
    BY <2>4
  <2> QED
    BY <2>1, <2>2, <2>5 DEF AsSent
<1>2. WireInv /\ StreamInv /\ [Next]_vars => StreamInv'
  <2> SUFFICES ASSUME WireInv, StreamInv, [Next]_vars, altered' = 0 PROVE AsSent'
    BY DEF StreamInv
  <2>1. altered \in Nat
    BY DEF WireInv, TypeOK
  <2>2. ~Alter
    BY <2>1 DEF Alter
  <2>3. altered = 0
    BY <2>2 DEF Next, vars, Send, Flush, Close, Read, ReadNothing, DecodeFrame, DecodeFails,
                DecodeNothing
  <2>4. AsSent
    BY <2>3 DEF StreamInv
  <2> QED
    BY <2>2, <2>4, SendKeeps, FlushKeeps, ReadKeeps, DecodeKeeps, NeverFails, RestKeeps DEF Next
<1> QED
  BY <1>1, <1>2, WireInvHolds, PTL DEF Spec

(* The end of the stream: nothing is on its way, and what the buffer holds *)
(* is less than a frame, so that every frame that has left is handed out.  *)
LEMMA AtTheEnd ==
  ASSUME WireInv, AsSent, poll \in {"end", "error"}
  PROVE  /\ Len(read) = Len(sent)
         /\ Cut <=> buffer # <<>>
<1> DEFINE k == Len(read)
           n == Len(sent)
           q == Begun
           b == Len(buffer)
           o == Len(out)
           e == Len(Encoded(now))
<1>1. closed /\ wire = <<>> /\ (poll = "end" => b = 0) /\ (poll = "error" => b > 0 /\ WantsMore)
  <2>1. buffer \in Seq(Byte)
    BY StreamIs
  <2> QED
    BY <2>1 DEF AsSent
<1>2. /\ Stream \in Seq(Byte) /\ Len(Stream) = b + o /\ b \in Nat /\ o \in Nat
      /\ \A i \in 1 .. Len(buffer) : buffer[i] = Stream[i]
      /\ buffer \in Seq(Byte) /\ q \in Seq(Frames)
  <2>1. Len(wire) = 0
    BY <1>1
  <2> QED
    BY <2>1, StreamIs
<1>3. k \in Nat /\ n \in Nat /\ k <= n /\ Len(q) = IF now = <<>> THEN n ELSE n + 1
  BY StreamIs DEF AsSent, WireInv, TypeOK
<1>4. (now = <<>> => o = 0) /\ (now # <<>> => o \in 1 .. e /\ e \in Nat /\ q[n + 1] = now)
  BY StreamIs, FrameSize DEF AsSent
<1>5. PICK p : Cutting(p, Stream, q, k)
  BY DEF AsSent
<1>6. b = 0 <=> buffer = <<>>
  BY <1>2
<1> HIDE DEF k, n, q, b, o, e
<1>7. /\ p \in [k .. Len(q) -> Nat] /\ p[k] = 0 /\ p[Len(q)] = b + o
      /\ \A i \in k + 1 .. Len(q) : p[i] = p[i - 1] + Len(Encoded(q[i]))
      /\ \A i, j \in k .. Len(q) : i < j => p[i] < p[j]
  BY <1>2, <1>5 DEF Cutting
<1>8. now # <<>> => p[n] = b + o - e /\ p[n] \in Nat
  <2> SUFFICES ASSUME now # <<>> PROVE p[n] = b + o - e /\ p[n] \in Nat
    OBVIOUS
  <2>1. Len(q) = n + 1 /\ n + 1 \in k + 1 .. Len(q) /\ (n + 1) - 1 = n /\ n \in k .. Len(q)
    BY <1>3
  <2>2. p[n + 1] = p[n] + Len(Encoded(q[n + 1])) /\ p[n] \in Nat
    BY <1>7, <2>1
  <2>3. p[n + 1] = p[n] + e /\ p[n + 1] = b + o
    BY <1>4, <1>7, <2>1, <2>2 DEF e
  <2> QED
    BY <1>2, <1>4, <2>2, <2>3
<1>9. CASE poll = "end"
  <2>1. b = 0
    BY <1>1, <1>9
  <2>2. k = n
    <3>1. CASE now = <<>>
      <4>1. p[n] = 0 /\ n \in k .. Len(q) /\ k \in k .. Len(q)
        BY <1>3, <1>4, <1>7, <2>1, <3>1
      <4> QED
        BY <1>3, <1>7, <4>1
    <3>2. CASE now # <<>>
      <4>1. p[n] = 0 /\ n \in k .. Len(q) /\ k \in k .. Len(q)
        BY <1>2, <1>3, <1>4, <1>8, <2>1, <3>2
      <4> QED
        BY <1>3, <1>7, <4>1
    <3> QED
      BY <3>1, <3>2
  <2>3. ~Cut
    <3>1. now # <<>> => ~(o < e)
      BY <1>2, <1>4, <1>8, <2>1
    <3> QED
      BY <3>1 DEF Cut, o, e
  <2> QED
    BY <1>6, <2>1, <2>2, <2>3 DEF k, n
<1>10. CASE poll = "error"
  <2>1. b > 0 /\ WantsMore
    BY <1>1, <1>10
  <2>2. k < Len(q)
    <3>1. CASE k = Len(q)
      BY <1>2, <1>7, <2>1, <3>1
    <3> QED
      BY <1>3, <3>1
  <2>3. b < p[k + 1] /\ p[k + 1] \in Nat
    <3>1. k \in 0 .. Len(q) - 1 /\ k + 1 \in 1 .. Len(q) /\ k + 1 \in k + 1 .. Len(q)
          /\ (k + 1) - 1 = k /\ k + 1 \in k .. Len(q)
      BY <1>3, <2>2
    <3>2. Fits(q[k + 1]) /\ q[k + 1] \in Frames
      BY <1>2, <3>1 DEF AsSent, q
    <3>3. Len(buffer) < Len(Encoded(q[k + 1]))
      BY <1>2, <1>5, <2>1, <3>1, <3>2, FirstFrame
    <3>4. p[k + 1] = p[k] + Len(Encoded(q[k + 1])) /\ p[k + 1] \in Nat
      BY <1>7, <3>1
    <3>5. Len(Encoded(q[k + 1])) \in Nat
      BY <3>2, FrameSize
    <3> QED
      BY <1>7, <3>3, <3>4, <3>5 DEF b
  <2>4. now # <<>>
    <3>1. CASE now = <<>>
      <4>1. p[Len(q)] = b
        BY <1>2, <1>4, <1>7, <3>1
      <4>2. k + 1 \in k .. Len(q) /\ Len(q) \in k .. Len(q)
        BY <1>3, <2>2
      <4>3. k + 1 = Len(q) \/ p[k + 1] < p[Len(q)]
        BY <1>3, <1>7, <2>2, <4>2
      <4> QED
        BY <1>2, <2>3, <4>1, <4>3
    <3> QED
      BY <3>1
  <2>5. p[n] = b + o - e /\ p[n] \in Nat /\ o \in 1 .. e /\ e \in Nat
    BY <1>4, <1>8, <2>4
  <2>6. p[n] <= b
    BY <1>2, <2>5
  <2>7. k = n
    <3>1. CASE k < n
      <4>1. k + 1 \in k .. Len(q) /\ n \in k .. Len(q)
        BY <1>3, <2>4, <3>1
      <4>2. k + 1 = n \/ p[k + 1] < p[n]
        BY <1>3, <1>7, <3>1, <4>1
      <4> QED
        BY <1>2, <2>3, <2>5, <2>6, <4>2
    <3> QED
      BY <1>3, <3>1
  <2>8. o < e
    BY <1>2, <1>7, <2>1, <2>5, <2>7
  <2>9. Cut
    BY <1>1, <2>4, <2>8 DEF Cut, o, e
  <2> QED
    BY <1>2, <1>6, <2>1, <2>7, <2>9 DEF k, n
<1> QED
  BY <1>9, <1>10

(* However the stream is split and wherever it stops, as long as no byte   *)
(* is altered the frames handed out are those sent, kind and content, in   *)
(* their order, and the stream is only over without an error when all of   *)
(* them are there (codec.rs:137): what Tcp takes for granted.              *)
THEOREM FramesArrive == Spec => []FramesAsSent
<1>1. WireInv /\ StreamInv => FramesAsSent
  <2> SUFFICES ASSUME WireInv, AsSent PROVE FramesAsSent
    BY DEF StreamInv, FramesAsSent
  <2> DEFINE S == [kind : {0, 1}, payload : Seq(Byte)]
             k == Len(read)
             a == SubSeq(read, 1, k)
             b == SubSeq(sent, 1, k)
  <2>1. read \in Seq(S) /\ sent \in Seq(S)
    <3>1. Frames \subseteq S
      BY FrameIs
    <3>2. read \in Seq(S) /\ sent \in Seq(Frames)
      BY DEF WireInv, TypeOK
    <3> HIDE DEF S
    <3> QED
      BY <3>1, <3>2
  <2> HIDE DEF S
  <2>2. k \in Nat /\ Len(sent) \in Nat /\ k <= Len(sent) /\ \A i \in 1 .. k : read[i] = sent[i]
    BY <2>1 DEF AsSent
  <2>3. IsPrefix(read, sent)
    <3>1. k \in 0 .. Len(read) /\ k \in 0 .. Len(sent)
      BY <2>2
    <3>2. /\ a \in Seq(S) /\ Len(a) = k /\ \A i \in 1 .. k : a[i] = read[i]
          /\ b \in Seq(S) /\ Len(b) = k /\ \A i \in 1 .. k : b[i] = sent[i]
      BY <2>1, <3>1, Cuts
    <3> HIDE DEF a, b, k
    <3>3. a = b
      BY <2>2, <3>2, SeqEqual
    <3> QED
      BY <2>2, <3>3 DEF IsPrefix, a, b, k
  <2>4. Len(read) = Len(sent) => read = sent
    BY <2>1, <2>2, SeqEqual
  <2>5. poll = "end" => read = sent /\ ~Cut
    BY <2>4, AtTheEnd DEF AsSent
  <2>6. poll = "error" => read = sent /\ Cut
    BY <2>4, AtTheEnd DEF AsSent
  <2> QED
    BY <2>3, <2>5, <2>6 DEF FramesAsSent
<1> QED
  BY <1>1, WireInvHolds, StreamInvHolds, PTL

---------------------------------------------------------------------------
(* The codec on its stream implements the queue of frames.                 *)

(* What the queue sees does not change unless a frame leaves, is handed    *)
(* out or altered, or the stream ends.                                     *)
LEMMA QueueStays ==
  ASSUME UNCHANGED <<sent, read, closed, altered>>, QueueEnd' = QueueEnd
  PROVE  UNCHANGED Queue!vars
  BY DEF Queue!vars

(* The sending end.                                                        *)
LEMMA SenderQueues ==
  ASSUME WireInv,
         \/ \E f \in Frames : Send(f)
         \/ \E n \in 1 .. Len(out) : Flush(n)
         \/ Close \/ Alter
  PROVE  [Queue!Next]_(Queue!vars)
<1>1. CASE \E f \in Frames : Send(f)
  BY <1>1, QueueStays DEF Send, readVars, QueueEnd
<1>2. ASSUME NEW n \in 1 .. Len(out), Flush(n) PROVE [Queue!Next]_(Queue!vars)
  <2>1. ~closed /\ now # <<>> /\ UNCHANGED <<closed, altered, read, poll>>
    BY <1>2 DEF Flush, readVars
  <2>2. QueueEnd' = QueueEnd
    BY <2>1 DEF QueueEnd
  <2>3. CASE sent' = Append(sent, now)
    <3>1. now \in Frames
      BY <2>1 DEF WireInv, TypeOK
    <3>2. Queue!Put(now)
      BY <2>1, <2>2, <2>3 DEF Queue!Put
    <3> QED
      BY <3>1, <3>2 DEF Queue!Next
  <2>4. CASE sent' = sent
    BY <2>1, <2>2, <2>4, QueueStays
  <2> QED
    BY <1>2, <2>3, <2>4 DEF Flush
<1>3. CASE Close
  <2>1. QueueEnd' = QueueEnd
    BY <1>3 DEF Close, readVars, QueueEnd
  <2>2. Queue!HangUp
    BY <1>3, <2>1 DEF Close, readVars, Queue!HangUp
  <2> QED
    BY <2>2 DEF Queue!Next
<1>4. CASE Alter
  <2>1. QueueEnd' = QueueEnd
    BY <1>4 DEF Alter, readVars, QueueEnd
  <2>2. altered' > 0
    BY <1>4 DEF Alter, WireInv, TypeOK
  <2>3. Queue!Spoil
    BY <1>4, <2>1, <2>2 DEF Alter, sendVars, readVars, Queue!Spoil
  <2> QED
    BY <2>3 DEF Queue!Next
<1> QED
  BY <1>1, <1>2, <1>3, <1>4

(* A frame is decoded: the next one, if nothing was altered.               *)
LEMMA DecodeGets ==
  ASSUME WireInv, StreamInv, DecodeFrame
  PROVE  Queue!Get \/ Queue!Garble
<1> DEFINE S == [kind : {0, 1}, payload : Seq(Byte)]
           k == Len(read)
<1>1. /\ poll = "decode" /\ poll' = poll /\ read' = Append(read, Decoded)
      /\ UNCHANGED <<sent, closed, altered>>
  BY DEF DecodeFrame, sendVars
<1>2. QueueEnd = "none" /\ QueueEnd' = QueueEnd
  BY <1>1 DEF QueueEnd
<1>3. read \in Seq(S) /\ Decoded \in S /\ sent \in Seq(Frames) /\ altered \in Nat
  BY DecodeTypes DEF WireInv, TypeOK
<1> HIDE DEF S
<1>4. /\ read' \in Seq(S) /\ Len(read') = k + 1 /\ read'[k + 1] = Decoded /\ k \in Nat
      /\ \A i \in 1 .. k : read'[i] = read[i]
  <2> DEFINE r == Append(read, Decoded)
  <2>1. /\ r \in Seq(S) /\ Len(r) = k + 1 /\ r[k + 1] = Decoded /\ k \in Nat
        /\ \A i \in 1 .. k : r[i] = read[i]
    BY <1>3
  <2> HIDE DEF r
  <2> QED
    BY <1>1, <2>1 DEF r
<1>5. CASE altered = 0
  <2>1. AsSent'
    BY <1>5, DecodeKeeps DEF StreamInv
  <2>2. Len(read') <= Len(sent') /\ \A i \in 1 .. Len(read') : read'[i] = sent'[i]
    BY <2>1 DEF AsSent
  <2>3. k < Len(sent) /\ Decoded = sent[k + 1]
    <3>1. k + 1 <= Len(sent) /\ Len(sent) \in Nat /\ k + 1 \in 1 .. k + 1
      BY <1>1, <1>3, <1>4, <2>2
    <3> QED
      BY <1>1, <1>4, <2>2, <3>1
  <2>4. ~(altered > 0)
    BY <1>5
  <2> QED
    BY <1>1, <1>2, <2>3, <2>4 DEF Queue!Get
<1>6. CASE altered # 0
  <2>1. altered > 0
    BY <1>3, <1>6
  <2>2. Queue!IsPrefix(read, read')
    <3> DEFINE a == SubSeq(read, 1, k)
               b == SubSeq(read', 1, k)
    <3>1. k \in 0 .. Len(read) /\ k \in 0 .. Len(read') /\ Len(read) <= Len(read')
      BY <1>4
    <3>2. /\ a \in Seq(S) /\ Len(a) = k /\ \A i \in 1 .. k : a[i] = read[i]
          /\ b \in Seq(S) /\ Len(b) = k /\ \A i \in 1 .. k : b[i] = read'[i]
      BY <1>3, <1>4, <3>1, Cuts
    <3> HIDE DEF a, b, k
    <3>3. a = b
      BY <1>4, <3>2, SeqEqual
    <3> QED
      BY <3>1, <3>3 DEF Queue!IsPrefix, a, b, k
  <2> QED
    BY <1>1, <1>2, <2>1, <2>2 DEF Queue!Garble
<1> QED
  BY <1>5, <1>6

(* The other steps of the reading end: the stream goes on, or it ends.     *)
LEMMA ReaderQueues ==
  ASSUME WireInv, StreamInv, FramesAsSent',
         \/ \E n \in 1 .. Len(wire) : Read(n)
         \/ ReadNothing \/ DecodeFails \/ DecodeNothing
  PROVE  [Queue!Next]_(Queue!vars)
<1>1. /\ UNCHANGED <<sent, read, closed, altered>> /\ altered \in Nat
      /\ poll \in {"read", "decode"}
  BY DEF Read, ReadNothing, DecodeFails, DecodeNothing, sendVars, WireInv, TypeOK
<1>2. QueueEnd = "none"
  BY <1>1 DEF QueueEnd
<1>3. CASE poll' \in {"read", "decode"}
  <2>1. QueueEnd' = "none"
    BY <1>3 DEF QueueEnd
  <2> QED
    BY <1>1, <1>2, <2>1, QueueStays
<1>4. CASE poll' \in {"end", "error"}
  <2>1. QueueEnd' \in {"clean", "error"}
    BY <1>4 DEF QueueEnd
  <2>2. CASE altered = 0
    <3>1. read = sent
      BY <1>1, <1>4, <2>2 DEF FramesAsSent
    <3>2. closed
      <4>1. AsSent
        BY <2>2 DEF StreamInv
      <4>2. eof
        BY <1>4, <4>1, NeverFails DEF Read, ReadNothing, DecodeNothing
      <4> QED
        BY <4>1, <4>2 DEF AsSent
    <3>3. ~(altered > 0)
      BY <2>2
    <3>4. Queue!Finish
      BY <1>1, <1>2, <2>1, <3>1, <3>2, <3>3 DEF Queue!Finish
    <3> QED
      BY <3>4 DEF Queue!Next
  <2>3. CASE altered # 0
    <3>1. altered > 0
      BY <1>1, <2>3
    <3>2. Queue!Garble
      BY <1>1, <1>2, <2>1, <3>1 DEF Queue!Garble
    <3> QED
      BY <3>2 DEF Queue!Next
  <2> QED
    BY <2>2, <2>3
<1>5. poll' \in {"read", "decode", "end", "error"}
  BY DEF Read, ReadNothing, DecodeFails, DecodeNothing
<1> QED
  BY <1>3, <1>4, <1>5

(* Whatever the socket does, the two codecs and what is between them are a *)
(* queue of whole frames: each comes out once and in its turn, the end     *)
(* only after all of them, and nothing after it (codec.rs:24-88).          *)
THEOREM FramesQueue == Spec => KeepsFrames
<1>1. Init => Queue!Init
  BY DEF Init, Queue!Init, QueueEnd
<1>2. WireInv /\ StreamInv /\ FramesAsSent' /\ [Next]_vars => [Queue!Next]_(Queue!vars)
  <2> SUFFICES ASSUME WireInv, StreamInv, FramesAsSent', [Next]_vars
               PROVE  [Queue!Next]_(Queue!vars)
    OBVIOUS
  <2>1. CASE UNCHANGED vars
    BY <2>1, QueueStays DEF vars, sendVars, readVars, QueueEnd
  <2>2. CASE DecodeFrame
    BY <2>2, DecodeGets DEF Queue!Next
  <2> QED
    BY <2>1, <2>2, SenderQueues, ReaderQueues DEF Next
<1>3. Spec => Queue!Init /\ [][Queue!Next]_(Queue!vars)
  BY <1>1, <1>2, WireInvHolds, StreamInvHolds, FramesArrive, PTL DEF Spec
<1> QED
  BY <1>3 DEF KeepsFrames, Queue!Spec
=============================================================================
