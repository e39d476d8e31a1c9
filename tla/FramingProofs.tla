---------------------------- MODULE FramingProofs ----------------------------
(***************************************************************************)
(* The proofs of the invariants of Framing, for every set of payloads and  *)
(* of commands, for streams and buffers of every size.                     *)
(*                                                                         *)
(* The stream is concatenated by FlattenSeq, so where a message lies in    *)
(* its bytes is a fact by induction over the messages: it is proved first, *)
(* from the well-foundedness of < on Nat.                                  *)
(***************************************************************************)
EXTENDS Framing, WellFoundedInduction, TLAPS

(* Induction, for a set of numbers *)

Less == {ss \in Nat \X Nat : ss[1] < ss[2]}

\* There is no infinite descent in Nat.
LEMMA LessWellFounded == IsWellFoundedOn(Less, Nat)
BY NatLessThanWellFounded DEF OpToRel, Less

\* A set with 0 and the successor of each of its numbers has them all.
LEMMA Induction ==
  ASSUME NEW S, 0 \in S, \A n \in Nat : n \in S => n + 1 \in S
  PROVE  Nat \subseteq S
<1> SUFFICES ASSUME Nat \ S # {} PROVE FALSE
  OBVIOUS
<1>1. PICK m \in Nat \ S : \A n \in Nat \ S : ~ (<<n, m>> \in Less)
  BY LessWellFounded, WFMin
<1>2. m # 0 /\ m - 1 \in Nat /\ m - 1 < m
  BY <1>1
<1>3. <<m - 1, m>> \in Less
  BY <1>2 DEF Less
<1>4. m - 1 \in S
  BY <1>1, <1>2, <1>3
<1>5. (m - 1) + 1 = m
  BY <1>2
<1> QED
  BY <1>2, <1>4, <1>5

\* What concatenation does.
LEMMA Concat ==
  ASSUME NEW T, NEW a \in Seq(T), NEW b \in Seq(T), NEW c, c = a \o b
  PROVE  /\ c \in Seq(T)
         /\ Len(a) \in Nat /\ Len(b) \in Nat /\ Len(c) = Len(a) + Len(b)
         /\ \A i \in 1 .. Len(a) : c[i] = a[i]
         /\ \A i \in 1 .. Len(b) : c[Len(a) + i] = b[i]
OBVIOUS

\* What a sequence is made of.
LEMMA ElementOf ==
  ASSUME NEW T, NEW s \in Seq(T), NEW i \in 1 .. Len(s)
  PROVE  s[i] \in T
OBVIOUS

-----------------------------------------------------------------------------
(* FlattenSeq *)

\* What FlattenSeq(s) builds up.
Builds(s, g) ==
  g = [i \in 1 .. Len(s) |-> IF i = 1 THEN s[i] ELSE g[i - 1] \o s[i]]

\* The recursive function in FlattenSeq exists, for any number of sequences.
LEMMA BuildExists ==
  ASSUME NEW s
  PROVE  \A n \in Nat : \E g : g = [i \in 1 .. n |-> IF i = 1 THEN s[i] ELSE g[i - 1] \o s[i]]
<1> DEFINE B(n) == \E g : g = [i \in 1 .. n |-> IF i = 1 THEN s[i] ELSE g[i - 1] \o s[i]]
           S == {n \in Nat : B(n)}
<1>1. 0 \in S
  <2> DEFINE g == [i \in 1 .. 0 |-> s[i]]
  <2>1. g = [i \in 1 .. 0 |-> IF i = 1 THEN s[i] ELSE g[i - 1] \o s[i]]
    OBVIOUS
  <2> QED
    BY <2>1
<1>2. ASSUME NEW n \in Nat, n \in S PROVE n + 1 \in S
  <2>1. PICK g : g = [i \in 1 .. n |-> IF i = 1 THEN s[i] ELSE g[i - 1] \o s[i]]
    BY <1>2
  <2> DEFINE e == IF n + 1 = 1 THEN s[n + 1] ELSE g[n] \o s[n + 1]
             h == [i \in 1 .. n + 1 |-> IF i = n + 1 THEN e ELSE g[i]]
  <2>2. \A i \in 1 .. n : h[i] = g[i]
    OBVIOUS
  <2>3. \A i \in 1 .. n : h[i] = IF i = 1 THEN s[i] ELSE h[i - 1] \o s[i]
    <3> SUFFICES ASSUME NEW i \in 1 .. n PROVE h[i] = IF i = 1 THEN s[i] ELSE h[i - 1] \o s[i]
      OBVIOUS
    <3>1. g[i] = IF i = 1 THEN s[i] ELSE g[i - 1] \o s[i]
      BY <2>1
    <3>2. i # 1 => i - 1 \in 1 .. n
      OBVIOUS
    <3> HIDE DEF h
    <3> QED
      BY <2>2, <3>1, <3>2
  <2>4. h[n + 1] = e /\ (n + 1 # 1 => h[n] = g[n])
    OBVIOUS
  <2>5. h[n + 1] = IF n + 1 = 1 THEN s[n + 1] ELSE h[n + 1 - 1] \o s[n + 1]
    <3> HIDE DEF h
    <3> QED
      BY <2>4
  <2>6. h = [i \in 1 .. n + 1 |-> h[i]]
    OBVIOUS
  <2>7. h = [i \in 1 .. n + 1 |-> IF i = 1 THEN s[i] ELSE h[i - 1] \o s[i]]
    <3>1. \A i \in 1 .. n + 1 : i \in 1 .. n \/ i = n + 1
      OBVIOUS
    <3>2. \A i \in 1 .. n + 1 : h[i] = IF i = 1 THEN s[i] ELSE h[i - 1] \o s[i]
      <4> HIDE DEF h
      <4> QED
        BY <2>3, <2>5, <3>1
    <3> HIDE DEF h
    <3> QED
      BY <2>6, <3>2, Zenon
  <2>8. B(n + 1)
    <3> HIDE DEF h
    <3> WITNESS h
    <3> QED
      BY <2>7
  <2> HIDE DEF h, B
  <2> QED
    BY <2>8
<1> HIDE DEF B
<1>3. Nat \subseteq S
  BY <1>1, <1>2, Induction
<1>4. \A n \in Nat : B(n)
  BY <1>3
<1> QED
  BY <1>4 DEF B

\* FlattenSeq takes the last value of that function,
LEMMA Flattened ==
  ASSUME NEW s, Len(s) \in Nat, Len(s) # 0
  PROVE  \E g : Builds(s, g) /\ FlattenSeq(s) = g[Len(s)]
<1> DEFINE g == CHOOSE h : h = [i \in 1 .. Len(s) |-> IF i = 1 THEN s[i] ELSE h[i - 1] \o s[i]]
<1>1. Builds(s, g)
  BY BuildExists DEF Builds
<1>2. FlattenSeq(s) = g[Len(s)]
  BY DEF FlattenSeq
<1> QED
  BY <1>1, <1>2

\* and joins nothing to nothing.
LEMMA FlattenEmpty == \A s : Len(s) = 0 => FlattenSeq(s) = s
BY DEF FlattenSeq

\* The first k sequences of s, joined.
Joined(s, k) == FlattenSeq(SubSeq(s, 1, k))

\* One more sequence is joined at the end.
LEMMA JoinedStep ==
  ASSUME NEW T, NEW s \in Seq(Seq(T))
  PROVE  /\ Joined(s, 0) = <<>>
         /\ \A k \in 0 .. Len(s) - 1 : Joined(s, k + 1) = Joined(s, k) \o s[k + 1]
<1>1. Joined(s, 0) = <<>>
  <2>1. SubSeq(s, 1, 0) = <<>> /\ Len(<<>>) = 0
    OBVIOUS
  <2> QED
    BY <2>1, FlattenEmpty DEF Joined
<1>2. ASSUME NEW k \in 0 .. Len(s) - 1
      PROVE  Joined(s, k + 1) = Joined(s, k) \o s[k + 1]
  <2> DEFINE t == SubSeq(s, 1, k + 1)
             u == SubSeq(s, 1, k)
  <2>1. /\ t \in Seq(Seq(T)) /\ Len(t) = k + 1 /\ \A i \in 1 .. k + 1 : t[i] = s[i]
        /\ u \in Seq(Seq(T)) /\ Len(u) = k /\ \A i \in 1 .. k : u[i] = s[i]
    OBVIOUS
  <2>2. s[k + 1] \in Seq(T)
    OBVIOUS
  <2> HIDE DEF t, u
  <2>3. PICK g : Builds(t, g) /\ FlattenSeq(t) = g[k + 1]
    <3>1. Len(t) \in Nat /\ Len(t) # 0
      BY <2>1
    <3>2. \E g : Builds(t, g) /\ FlattenSeq(t) = g[Len(t)]
      BY <3>1, Flattened, Zenon
    <3> QED
      BY <2>1, <3>2
  <2>4. CASE k = 0
    <3>1. g[1] = t[1]
      BY <2>1, <2>3, <2>4 DEF Builds
    <3>2. Joined(s, k + 1) = s[k + 1]
      BY <2>1, <2>3, <2>4, <3>1 DEF Joined, t
    <3>3. Joined(s, k) = <<>>
      BY <1>1, <2>4
    <3> QED
      BY <2>2, <3>2, <3>3
  <2>5. CASE k # 0
    <3>1. PICK h : Builds(u, h) /\ FlattenSeq(u) = h[k]
      <4>1. Len(u) \in Nat /\ Len(u) # 0
        BY <2>1, <2>5
      <4>2. \E h : Builds(u, h) /\ FlattenSeq(u) = h[Len(u)]
        BY <4>1, Flattened, Zenon
      <4> QED
        BY <2>1, <4>2
    <3>2. \A i \in 1 .. k + 1 : g[i] = IF i = 1 THEN s[i] ELSE g[i - 1] \o s[i]
      BY <2>1, <2>3 DEF Builds
    <3>3. \A i \in 1 .. k : h[i] = IF i = 1 THEN s[i] ELSE h[i - 1] \o s[i]
      BY <2>1, <3>1 DEF Builds
    <3> DEFINE S == {n \in Nat : n \in 1 .. k => g[n] = h[n]}
    <3>4. 0 \in S
      OBVIOUS
    <3>5. ASSUME NEW n \in Nat, n \in S PROVE n + 1 \in S
      <4> SUFFICES ASSUME n + 1 \in 1 .. k PROVE g[n + 1] = h[n + 1]
        OBVIOUS
      <4>1. CASE n = 0
        BY <3>2, <3>3, <4>1
      <4>2. CASE n # 0
        <5>1. n \in 1 .. k /\ g[n] = h[n] /\ (n + 1) - 1 = n /\ n + 1 # 1 /\ n + 1 \in 1 .. k + 1
          BY <3>5, <4>2
        <5> QED
          BY <3>2, <3>3, <5>1
      <4> QED
        BY <4>1, <4>2
    <3>6. Nat \subseteq S
      <4> HIDE DEF S
      <4> QED
        BY <3>4, <3>5, Induction
    <3>7. g[k] = h[k]
      BY <2>5, <3>6
    <3>8. g[k + 1] = g[k] \o s[k + 1]
      <4>1. k + 1 \in 1 .. k + 1 /\ k + 1 # 1 /\ (k + 1) - 1 = k
        BY <2>5
      <4> QED
        BY <3>2, <4>1, Zenon
    <3>9. FlattenSeq(t) = Joined(s, k + 1) /\ FlattenSeq(u) = Joined(s, k)
      BY DEF Joined, t, u
    <3> QED
      BY <2>3, <3>1, <3>7, <3>8, <3>9, Zenon
  <2> QED
    BY <2>4, <2>5
<1> QED
  BY <1>1, <1>2

\* It is a sequence itself.
LEMMA JoinedType ==
  ASSUME NEW T, NEW s \in Seq(Seq(T)), NEW k \in 0 .. Len(s)
  PROVE  Joined(s, k) \in Seq(T)
<1> DEFINE S == {n \in Nat : n \in 0 .. Len(s) => Joined(s, n) \in Seq(T)}
<1>1. 0 \in S
  <2>1. Joined(s, 0) = <<>> /\ <<>> \in Seq(T)
    BY JoinedStep
  <2> QED
    BY <2>1
<1>2. ASSUME NEW n \in Nat, n \in S PROVE n + 1 \in S
  <2> SUFFICES ASSUME n + 1 \in 0 .. Len(s) PROVE Joined(s, n + 1) \in Seq(T)
    OBVIOUS
  <2>1. n \in 0 .. Len(s) - 1 /\ n \in 0 .. Len(s) /\ n + 1 \in DOMAIN s
    OBVIOUS
  <2>2. Joined(s, n) \in Seq(T) /\ s[n + 1] \in Seq(T)
    BY <1>2, <2>1
  <2>3. Joined(s, n + 1) = Joined(s, n) \o s[n + 1]
    BY <2>1, JoinedStep
  <2> QED
    BY <2>2, <2>3, Concat
<1>3. Nat \subseteq S
  <2> HIDE DEF S
  <2> QED
    BY <1>1, <1>2, Induction
<1> QED
  BY <1>3

\* What is joined behind a sequence leaves it where it is.
LEMMA JoinedAt ==
  ASSUME NEW T, NEW s \in Seq(Seq(T)), NEW k \in 1 .. Len(s)
  PROVE  /\ Len(Joined(s, k)) = Len(Joined(s, k - 1)) + Len(s[k])
         /\ \A n \in k .. Len(s) :
              /\ Len(Joined(s, n)) >= Len(Joined(s, k))
              /\ \A i \in 1 .. Len(s[k]) : Joined(s, n)[Len(Joined(s, k - 1)) + i] = s[k][i]
<1> DEFINE before == Joined(s, k - 1)
           Keeps(n) == /\ Len(Joined(s, n)) >= Len(Joined(s, k))
                       /\ \A i \in 1 .. Len(s[k]) : Joined(s, n)[Len(before) + i] = s[k][i]
           S == {n \in Nat : k + n <= Len(s) => Keeps(k + n)}
<1>1. /\ before \in Seq(T) /\ s[k] \in Seq(T) /\ Joined(s, k) = before \o s[k]
  <2>1. k - 1 \in 0 .. Len(s) - 1 /\ k - 1 \in 0 .. Len(s) /\ (k - 1) + 1 = k
    OBVIOUS
  <2>2. Joined(s, k - 1) \in Seq(T)
    BY <2>1, JoinedType, Zenon
  <2>3. Joined(s, (k - 1) + 1) = Joined(s, k - 1) \o s[(k - 1) + 1]
    BY <2>1, JoinedStep, Zenon
  <2>4. s[k] \in Seq(T)
    OBVIOUS
  <2> QED
    BY <2>1, <2>2, <2>3, <2>4, Zenon
<1>2. Len(Joined(s, k)) = Len(before) + Len(s[k])
  BY <1>1, Concat
<1>3. \A i \in 1 .. Len(s[k]) : Joined(s, k)[Len(before) + i] = s[k][i]
  BY <1>1, Concat
<1>4. 0 \in S
  <2>1. k + 0 = k
    OBVIOUS
  <2>2. Len(Joined(s, k)) \in Nat
    <3>1. k \in 0 .. Len(s)
      OBVIOUS
    <3>2. Joined(s, k) \in Seq(T)
      BY <3>1, JoinedType
    <3> QED
      BY <3>2
  <2>3. Len(Joined(s, k)) >= Len(Joined(s, k))
    BY <2>2
  <2>4. Keeps(k)
    BY <1>3, <2>3, Zenon
  <2> HIDE DEF Keeps
  <2> QED
    BY <2>1, <2>4
<1>5. ASSUME NEW n \in Nat, n \in S PROVE n + 1 \in S
  <2> SUFFICES ASSUME k + (n + 1) <= Len(s) PROVE Keeps(k + (n + 1))
    OBVIOUS
  <2> DEFINE l == k + n
  <2>1. l \in 0 .. Len(s) - 1 /\ l \in 0 .. Len(s) /\ l + 1 \in DOMAIN s /\ k + (n + 1) = l + 1
        /\ l <= Len(s)
    OBVIOUS
  <2>2. Keeps(l)
    BY <1>5, <2>1
  <2>3. Joined(s, l + 1) = Joined(s, l) \o s[l + 1]
    BY <2>1, JoinedStep
  <2>4. Joined(s, l) \in Seq(T) /\ s[l + 1] \in Seq(T)
    <3>1. s[l + 1] \in Seq(T)
      BY <2>1
    <3> QED
      BY <2>1, <3>1, JoinedType, Zenon
  <2> HIDE DEF l, before
  <2>5. Len(Joined(s, l + 1)) = Len(Joined(s, l)) + Len(s[l + 1])
    BY <2>3, <2>4, Concat
  <2>6. \A i \in 1 .. Len(Joined(s, l)) : Joined(s, l + 1)[i] = Joined(s, l)[i]
    BY <2>3, <2>4, Concat
  <2>7. Len(before) \in Nat /\ Len(s[k]) \in Nat /\ Len(Joined(s, l)) \in Nat
        /\ Len(s[l + 1]) \in Nat
    BY <1>1, <2>4, Concat
  <2>8. Len(Joined(s, l + 1)) >= Len(Joined(s, k))
    BY <1>2, <2>2, <2>5, <2>7
  <2>9. ASSUME NEW i \in 1 .. Len(s[k]) PROVE Joined(s, l + 1)[Len(before) + i] = s[k][i]
    <3>1. Len(before) + i \in 1 .. Len(Joined(s, l))
      BY <1>2, <2>2, <2>7
    <3> QED
      BY <2>2, <2>6, <3>1
  <2> QED
    BY <2>1, <2>8, <2>9
<1>6. Nat \subseteq S
  <2> HIDE DEF S
  <2> QED
    BY <1>4, <1>5, Induction
<1>7. ASSUME NEW n \in k .. Len(s) PROVE Keeps(n)
  <2>1. n - k \in Nat /\ k + (n - k) = n /\ n <= Len(s)
    OBVIOUS
  <2>2. n - k \in S
    BY <1>6, <2>1
  <2> HIDE DEF Keeps
  <2> QED
    BY <2>1, <2>2
<1> QED
  BY <1>2, <1>7

-----------------------------------------------------------------------------
(* The stream *)

\* All of s joined is what FlattenSeq makes of it.
LEMMA JoinedAll ==
  ASSUME NEW T, NEW s \in Seq(Seq(T))
  PROVE  Joined(s, Len(s)) = FlattenSeq(s) /\ FlattenSeq(s) \in Seq(T)
<1>1. SubSeq(s, 1, Len(s)) = s /\ Len(s) \in 0 .. Len(s)
  OBVIOUS
<1>2. Joined(s, Len(s)) = FlattenSeq(s)
  BY <1>1 DEF Joined
<1> QED
  BY <1>1, <1>2, JoinedType

\* The length field holds a length below 2^16 in two bytes.
LEMMA TwoBytes ==
  ASSUME NEW n \in Nat, n < 65536
  PROVE  n \div 256 \in 0 .. 255 /\ n % 256 \in 0 .. 255 /\ 256 * (n \div 256) + (n % 256) = n
OBVIOUS

\* A number below the modulus is its own remainder,
LEMMA ModBelow == \A m, x \in Nat : x < m => x % m = x
OBVIOUS

\* also when the modulus is added: size_t arithmetic that does not wrap.
LEMMA ModAbove == \A m, x \in Nat : x < m => (m + x) % m = x
OBVIOUS

\* What a message looks like: its header gives its length, by the server's count.
LEMMA FrameLooks ==
  ASSUME NEW x \in {0, 2}, NEW f \in Frames(x)
  PROVE  /\ f \in Seq(0 .. 255) /\ Len(f) \in Nat /\ Len(f) >= 7
         /\ f[1] = 103 /\ f[2] = 103 /\ f[3] # 103
         /\ f[4] \in 0 .. 255 /\ f[5] \in 0 .. 255
         /\ 256 * f[4] + f[5] + 7 = Len(f) + x
<1>1. PICK c \in Cmds, p \in Payloads : f = Frame(c, p, x)
  BY DEF Frames
<1>2. c \in 0 .. 255 /\ c # 103 /\ p \in Seq(0 .. 255) /\ Len(p) \in Nat /\ Len(p) + 2 < 65536
  BY FramingAssumption
<1>3. PICK n \in Nat : n = Len(p) + x /\ n < 65536
  BY <1>2
<1> DEFINE h == Header(c, n)
<1>4. f = h \o p
  BY <1>1, <1>3 DEF Frame
<1>5. n \div 256 \in 0 .. 255 /\ n % 256 \in 0 .. 255 /\ 256 * (n \div 256) + (n % 256) = n
  <2>1. n < 65536
    BY <1>3
  <2> QED
    BY <2>1, TwoBytes
<1>6. h \in Seq(0 .. 255)
  BY <1>2, <1>5 DEF Header
<1>7. /\ Len(h) = 7 /\ h[1] = 103 /\ h[2] = 103 /\ h[3] = c
      /\ h[4] = n \div 256 /\ h[5] = n % 256
  BY DEF Header
<1> HIDE DEF h
<1>8. f \in Seq(0 .. 255) /\ Len(f) = Len(h) + Len(p) /\ \A i \in 1 .. Len(h) : f[i] = h[i]
  BY <1>2, <1>6, <1>4, Concat
<1>9. f[1] = 103 /\ f[2] = 103 /\ f[3] = c /\ f[4] = n \div 256 /\ f[5] = n % 256
  BY <1>7, <1>8
<1> QED
  BY <1>2, <1>3, <1>5, <1>7, <1>8, <1>9

\* A message of the stream lies in its bytes, header first.
IsMessage(k) ==
  /\ Start(k) \in Nat /\ End(k) \in Nat
  /\ Start(k) + 7 <= End(k) /\ End(k) <= Len(Bytes)
  /\ Bytes[Start(k) + 1] = 103 /\ Bytes[Start(k) + 2] = 103 /\ Bytes[Start(k) + 3] # 103
  /\ 256 * Bytes[Start(k) + 4] + Bytes[Start(k) + 5] + 7 = End(k) - Start(k) + extra

\* The messages of a stream lie one behind the other in its bytes.
LEMMA Layout ==
  ASSUME extra \in {0, 2}, stream \in Seq(Frames(extra))
  PROVE  /\ Bytes \in Seq(0 .. 255) /\ Len(Bytes) \in Nat
         /\ \A k \in DOMAIN stream : IsMessage(k)
         /\ \A k \in DOMAIN stream :
              \/ k + 1 \in DOMAIN stream /\ Start(k + 1) = End(k)
              \/ End(k) = Len(Bytes)
         /\ \A j, k \in DOMAIN stream : j < k => End(j) <= Start(k)
<1> DEFINE n == Len(stream)
           J(k) == Joined(stream, k)
           T == 0 .. 255
<1>1. stream \in Seq(Seq(T)) /\ n \in Nat /\ DOMAIN stream = 1 .. n
  <2>1. \A f \in Frames(extra) : f \in Seq(T)
    BY FrameLooks
  <2> QED
    BY <2>1
<1>2. Bytes = J(n) /\ Bytes \in Seq(T)
  BY <1>1, JoinedAll DEF Bytes
<1>3. \A k \in 0 .. n : J(k) \in Seq(T) /\ Len(J(k)) \in Nat
  <2>1. \A k \in 0 .. n : J(k) \in Seq(T)
    BY <1>1, JoinedType
  <2> QED
    BY <2>1
<1>4. \A k \in 1 .. n : Start(k) = Len(J(k - 1)) /\ End(k) = Len(J(k))
  <2> SUFFICES ASSUME NEW k \in 1 .. n
               PROVE  Start(k) = Len(J(k - 1)) /\ End(k) = Len(J(k))
    OBVIOUS
  <2>1. Start(k) = Len(J(k - 1))
    BY DEF Start, Joined
  <2>2. Len(J(k)) = Len(J(k - 1)) + Len(stream[k])
    BY <1>1, JoinedAt
  <2> QED
    BY <2>1, <2>2 DEF End
<1>5. \A j \in 1 .. n : \A k \in j .. n : Len(J(k)) >= Len(J(j))
  BY <1>1, JoinedAt
<1>6. ASSUME NEW k \in 1 .. n PROVE IsMessage(k)
  <2> DEFINE f == stream[k]
  <2>1. /\ f \in Seq(T) /\ Len(f) \in Nat /\ Len(f) >= 7
        /\ f[1] = 103 /\ f[2] = 103 /\ f[3] # 103
        /\ f[4] \in 0 .. 255 /\ f[5] \in 0 .. 255
        /\ 256 * f[4] + f[5] + 7 = Len(f) + extra
    <3>1. f \in Frames(extra)
      BY <1>1
    <3> QED
      BY <3>1, FrameLooks
  <2>2. \A i \in 1 .. Len(f) : Bytes[Start(k) + i] = f[i]
    <3>1. n \in k .. n
      BY <1>1
    <3>2. \A i \in 1 .. Len(f) : J(n)[Len(J(k - 1)) + i] = f[i]
      BY <1>1, <3>1, JoinedAt
    <3> QED
      BY <1>2, <1>4, <3>2
  <2>3. /\ Bytes[Start(k) + 1] = f[1] /\ Bytes[Start(k) + 2] = f[2]
        /\ Bytes[Start(k) + 3] = f[3] /\ Bytes[Start(k) + 4] = f[4]
        /\ Bytes[Start(k) + 5] = f[5]
    <3> HIDE DEF f
    <3>1. 1 \in 1 .. Len(f) /\ 2 \in 1 .. Len(f) /\ 3 \in 1 .. Len(f)
          /\ 4 \in 1 .. Len(f) /\ 5 \in 1 .. Len(f)
      BY <2>1
    <3> QED
      BY <2>2, <3>1, Zenon
  <2>4. Start(k) \in Nat /\ End(k) \in Nat /\ End(k) <= Len(Bytes)
    <3>1. k - 1 \in 0 .. n /\ k \in 0 .. n /\ n \in k .. n
      BY <1>1
    <3> HIDE DEF n, J
    <3> QED
      BY <1>2, <1>3, <1>4, <1>5, <3>1
  <2>5. End(k) = Start(k) + Len(f)
    BY DEF End
  <2> HIDE DEF f
  <2>6. 256 * Bytes[Start(k) + 4] + Bytes[Start(k) + 5] + 7 = Len(f) + extra
    BY <2>1, <2>3, Zenon
  <2>7. Len(f) = End(k) - Start(k) /\ Start(k) + 7 <= End(k)
    BY <2>1, <2>4, <2>5
  <2>8. /\ Bytes[Start(k) + 1] = 103 /\ Bytes[Start(k) + 2] = 103
        /\ Bytes[Start(k) + 3] # 103
    BY <2>1, <2>3, Zenon
  <2> QED
    BY <2>4, <2>6, <2>7, <2>8, Zenon DEF IsMessage
<1>7. ASSUME NEW k \in 1 .. n
      PROVE  \/ k + 1 \in 1 .. n /\ Start(k + 1) = End(k)
             \/ End(k) = Len(Bytes)
  <2>1. CASE k = n
    BY <1>2, <1>4, <2>1
  <2>2. CASE k # n
    <3> HIDE DEF n
    <3>1. k + 1 \in 1 .. n /\ (k + 1) - 1 = k
      BY <1>1, <2>2
    <3> QED
      BY <1>4, <3>1
  <2> QED
    BY <2>1, <2>2
<1>8. ASSUME NEW j \in 1 .. n, NEW k \in 1 .. n, j < k PROVE End(j) <= Start(k)
  <2>1. k - 1 \in j .. n /\ k - 1 \in 0 .. n /\ j \in 0 .. n
    BY <1>1, <1>8
  <2> HIDE DEF n, J
  <2> QED
    BY <1>3, <1>4, <1>5, <2>1
<1>9. Len(Bytes) \in Nat
  BY <1>2
<1> QED
  BY <1>1, <1>2, <1>6, <1>7, <1>8, <1>9

-----------------------------------------------------------------------------
(* The invariant *)

Typed ==
  /\ extra \in Extras
  /\ stream \in Seq(Frames(extra))
  /\ taken \in Nat /\ msgLen \in 0 .. BUF /\ taken + msgLen <= Len(Bytes)
  /\ leftLen \in 0 .. SIZE_T - 1 /\ off \in 0 .. SIZE_T - 1
  /\ at \in {"recv", "loop", "overrun"}
  /\ handled \in Seq(Nat)

\* msg is in the piece, or at most two bytes behind its end: the loop test lets
\* through a message that lacks two bytes.  Behind the end leftLen has wrapped.
Position ==
  \/ off <= msgLen /\ leftLen = msgLen - off
  \/ off \in {msgLen + 1, msgLen + 2} /\ leftLen = SIZE_T + msgLen - off

\* The messages were handled in the order of the stream, inside of the piece.
Ordered ==
  /\ \A i \in DOMAIN handled : handled[i] < taken + off /\ handled[i] < taken + msgLen
  /\ \A i, j \in DOMAIN handled : i < j => handled[i] < handled[j]
  /\ Aligned => \A i \in DOMAIN handled : \E k \in Begun : handled[i] = Start(k)

\* msg is b bytes behind the start of a message, or the piece is used up.
Behind(b) == off >= msgLen \/ \E k \in DOMAIN stream : Start(k) + b = taken + off

\* How far the loop has come in a piece that starts with a message.  Of a
\* server that counts like the loop test it handles one message, and then it is
\* two bytes into the next.
Reached ==
  Aligned =>
    /\ extra = 0 => /\ Behind(0)
                    /\ \A k \in Begun : Start(k) < taken + off => Start(k) \in Handled
    /\ extra = 2 => off = 0 \/ (taken \in Handled /\ Behind(2))

Room == at = "overrun" => msgLen + MSG_HEADER_LEN > BUF

IInv == Typed /\ Position /\ Ordered /\ Reached /\ WholeHandled /\ Room

-----------------------------------------------------------------------------
(* What the code reads at msg *)

\* What Layout says, of a state with the types.
LEMMA Stream ==
  ASSUME Typed
  PROVE  /\ extra \in {0, 2} /\ Bytes \in Seq(0 .. 255) /\ Len(Bytes) \in Nat
         /\ \A k \in DOMAIN stream : k \in Nat /\ IsMessage(k)
         /\ \A k \in DOMAIN stream :
              \/ k + 1 \in DOMAIN stream /\ Start(k + 1) = End(k)
              \/ End(k) = Len(Bytes)
         /\ \A j, k \in DOMAIN stream : j < k => End(j) <= Start(k)
<1>1. extra \in {0, 2} /\ stream \in Seq(Frames(extra))
  BY FramingAssumption DEF Typed
<1>2. \A k \in DOMAIN stream : k \in Nat
  BY <1>1
<1> QED
  BY <1>1, <1>2, Layout

\* A byte of the buffer is one of the stream inside of the piece, and zero behind.
LEMMA ByteType ==
  ASSUME Typed, NEW i \in Nat
  PROVE  /\ Byte(i) \in 0 .. 255
         /\ i < msgLen => Byte(i) = Bytes[taken + i + 1]
         /\ i >= msgLen => Byte(i) = 0
<1>1. taken \in Nat /\ msgLen \in Nat /\ taken + msgLen <= Len(Bytes) /\ Bytes \in Seq(0 .. 255)
  BY Stream, FramingAssumption DEF Typed
<1>2. i < msgLen => Bytes[taken + i + 1] \in 0 .. 255
  <2> SUFFICES ASSUME i < msgLen PROVE Bytes[taken + i + 1] \in 0 .. 255
    OBVIOUS
  <2>1. taken + i + 1 \in 1 .. Len(Bytes)
    BY <1>1
  <2> QED
    BY <1>1, <2>1, ElementOf, Zenon
<1>3. CASE i < msgLen
  BY <1>1, <1>2, <1>3 DEF Byte
<1>4. CASE i >= msgLen
  BY <1>1, <1>4 DEF Byte
<1> QED
  BY <1>1, <1>3, <1>4

\* The types of what the loop computes with.
LEMMA LoopTypes ==
  ASSUME Typed
  PROVE  /\ taken \in Nat /\ msgLen \in Nat /\ leftLen \in Nat /\ off \in Nat
         /\ length \in Nat
<1>1. taken \in Nat /\ msgLen \in Nat /\ leftLen \in Nat /\ off \in Nat
  BY FramingAssumption DEF Typed
<1> DEFINE hi == Byte(off + 3)
           lo == Byte(off + 4)
<1>2. hi \in 0 .. 255 /\ lo \in 0 .. 255
  <2>1. off + 3 \in Nat /\ off + 4 \in Nat
    BY <1>1
  <2> QED
    BY <2>1, ByteType, Zenon
<1>3. length = 256 * hi + lo
  BY DEF length
<1> HIDE DEF hi, lo
<1> QED
  BY <1>1, <1>2, <1>3

\* At the start of a message whose length field is in the piece, the code finds
\* the signature and the length that the server wrote.
LEMMA AtStart ==
  ASSUME Typed, NEW k \in DOMAIN stream, Start(k) = taken + off, off + 5 <= msgLen
  PROVE  ~SignatureError /\ length + 7 = End(k) - Start(k) + extra
<1>1. taken \in Nat /\ off \in Nat /\ msgLen \in Nat
  BY LoopTypes
<1>2. \A i \in 0 .. 4 : Byte(off + i) = Bytes[taken + (off + i) + 1]
  BY <1>1, ByteType
<1>3. /\ Byte(off) = Bytes[Start(k) + 1] /\ Byte(off + 1) = Bytes[Start(k) + 2]
      /\ Byte(off + 3) = Bytes[Start(k) + 4] /\ Byte(off + 4) = Bytes[Start(k) + 5]
  <2>1. /\ taken + (off + 0) + 1 = Start(k) + 1 /\ taken + (off + 1) + 1 = Start(k) + 2
        /\ taken + (off + 3) + 1 = Start(k) + 4 /\ taken + (off + 4) + 1 = Start(k) + 5
        /\ off + 0 = off
    BY <1>1
  <2>2. 0 \in 0 .. 4 /\ 1 \in 0 .. 4 /\ 3 \in 0 .. 4 /\ 4 \in 0 .. 4
    OBVIOUS
  <2> QED
    BY <1>2, <2>1, <2>2, Zenon
<1>4. IsMessage(k)
  BY Stream
<1> QED
  BY <1>3, <1>4 DEF SignatureError, length, IsMessage

\* Two bytes into a message, or behind the piece, there is no signature.
LEMMA NotAtStart ==
  ASSUME Typed, Behind(2)
  PROVE  SignatureError
<1>1. taken \in Nat /\ off \in Nat /\ msgLen \in Nat
  BY LoopTypes
<1>2. CASE off >= msgLen
  <2>1. Byte(off) = 0
    BY <1>1, <1>2, ByteType
  <2> QED
    BY <2>1 DEF SignatureError
<1>3. CASE off < msgLen
  <2>1. PICK k \in DOMAIN stream : Start(k) + 2 = taken + off
    BY <1>1, <1>3 DEF Behind
  <2>2. IsMessage(k)
    BY Stream
  <2>3. Byte(off) = Bytes[taken + off + 1]
    BY <1>1, <1>3, ByteType
  <2>4. taken + off + 1 = Start(k) + 3
    BY <1>1, <2>1, <2>2 DEF IsMessage
  <2> QED
    BY <2>2, <2>3, <2>4 DEF IsMessage, SignatureError
<1> QED
  BY <1>1, <1>2, <1>3

\* A message that the loop takes has its length field in the piece, and msg stays
\* within two bytes of the piece.
LEMMA Advance ==
  ASSUME Typed, Position, Enough, ~SignatureError, advance, UNCHANGED msgLen
  PROVE  /\ off + 5 <= msgLen /\ off' = off + length + 7
         /\ leftLen' \in 0 .. SIZE_T - 1 /\ off' \in 0 .. SIZE_T - 1
         /\ Position'
<1>1. /\ taken \in Nat /\ msgLen \in Nat /\ leftLen \in Nat /\ off \in Nat /\ length \in Nat
      /\ BUF \in Nat /\ SIZE_T \in Nat /\ SIZE_T > BUF + 7 /\ msgLen <= BUF
  BY LoopTypes, FramingAssumption DEF Typed, MSG_HEADER_LEN
<1>2. off < msgLen
  BY <1>1, ByteType DEF SignatureError
<1>3. leftLen = msgLen - off /\ leftLen >= length + 5
  BY <1>1, <1>2 DEF Position, Enough, MSG_HEADER_LEN
<1> DEFINE left == leftLen - 7 - length
<1>4. /\ left \in Int /\ left >= 0 - 2 /\ left <= msgLen
      /\ leftLen' = (SIZE_T + left) % SIZE_T
      /\ off' = (SIZE_T + msgLen - leftLen') % SIZE_T
  <2>1. SIZE_T + leftLen - 7 - length = SIZE_T + left
    BY <1>1
  <2> QED
    BY <1>1, <1>3, <2>1 DEF advance, MSG_HEADER_LEN
<1>5. off + length + 7 = msgLen - left /\ off + 5 <= msgLen
  BY <1>1, <1>3
<1> HIDE DEF left
<1>6. CASE left >= 0
  <2>1. leftLen' = left
    BY <1>1, <1>4, <1>6, ModAbove
  <2>2. SIZE_T + msgLen - leftLen' = SIZE_T + (msgLen - left) /\ msgLen - left \in Nat
    BY <1>1, <1>4, <1>6, <2>1
  <2>3. off' = msgLen - left
    BY <1>1, <1>4, <1>6, <2>2, ModAbove
  <2> QED
    BY <1>1, <1>4, <1>5, <1>6, <2>1, <2>3 DEF Position
<1>7. CASE left < 0
  <2>1. SIZE_T + left \in Nat /\ SIZE_T + left < SIZE_T
    BY <1>1, <1>4, <1>7
  <2>2. leftLen' = SIZE_T + left
    BY <1>1, <1>4, <2>1, ModBelow
  <2>3. SIZE_T + msgLen - leftLen' = msgLen - left /\ msgLen - left \in Nat /\ msgLen - left < SIZE_T
    BY <1>1, <1>4, <1>7, <2>2
  <2>4. off' = msgLen - left
    BY <1>1, <1>4, <2>3, ModBelow
  <2> QED
    BY <1>1, <1>4, <1>5, <1>7, <2>2, <2>4 DEF Position
<1> QED
  BY <1>4, <1>6, <1>7

\* The message that the loop takes, in a piece that starts with one, is a message
\* of the stream; of a server that counts like the loop test it is the first.
LEMMA TakesMessage ==
  ASSUME Typed, Reached, Aligned, off + 5 <= msgLen, ~SignatureError
  PROVE  \E k \in Begun : Start(k) = taken + off /\ (extra = 2 => off = 0)
<1>1. taken \in Nat /\ off \in Nat /\ msgLen \in Nat /\ extra \in {0, 2}
  BY LoopTypes, Stream
<1>2. PICK k \in DOMAIN stream : Start(k) = taken + off /\ (extra = 2 => off = 0)
  <2>1. CASE extra = 0
    <3>1. \E k \in DOMAIN stream : Start(k) + 0 = taken + off
      BY <1>1, <2>1 DEF Reached, Behind
    <3>2. \A k \in DOMAIN stream : Start(k) \in Nat
      BY Stream DEF IsMessage
    <3> QED
      BY <2>1, <3>1, <3>2
  <2>2. CASE extra = 2
    <3>1. off = 0
      BY <2>2, NotAtStart DEF Reached
    <3> QED
      BY <1>1, <3>1 DEF Aligned
  <2> QED
    BY <1>1, <2>1, <2>2
<1>3. k \in Begun
  BY <1>1, <1>2 DEF Begun
<1> QED
  BY <1>2, <1>3

-----------------------------------------------------------------------------
(* The steps *)

\* An empty stream, or a stream of messages, has a number of bytes.
LEMMA StreamTypes ==
  ASSUME NEW x \in Extras, NEW s \in Seq(Frames(x))
  PROVE  /\ Len(FlattenSeq(s)) \in Nat
         /\ \A k \in DOMAIN s : Len(FlattenSeq(SubSeq(s, 1, k - 1))) \in Nat
<1> DEFINE T == 0 .. 255
<1>1. s \in Seq(Seq(T))
  <2>1. \A f \in Frames(x) : f \in Seq(T)
    BY FrameLooks, FramingAssumption
  <2> QED
    BY <2>1
<1>2. FlattenSeq(s) \in Seq(T)
  BY <1>1, JoinedAll
<1>3. \A k \in DOMAIN s : FlattenSeq(SubSeq(s, 1, k - 1)) \in Seq(T)
  <2> SUFFICES ASSUME NEW k \in DOMAIN s PROVE FlattenSeq(SubSeq(s, 1, k - 1)) \in Seq(T)
    OBVIOUS
  <2>1. k - 1 \in 0 .. Len(s)
    BY <1>1
  <2>2. Joined(s, k - 1) \in Seq(T)
    BY <1>1, <2>1, JoinedType
  <2> QED
    BY <2>2 DEF Joined
<1> QED
  BY <1>2, <1>3

\* A step within a connection leaves the messages where they are.
LEMMA SameStream ==
  ASSUME UNCHANGED <<extra, stream>>
  PROVE  Bytes' = Bytes /\ \A k : Start(k)' = Start(k) /\ End(k)' = End(k)
BY DEF Bytes, Start, End

\* Before the first connection there is no stream.
LEMMA Initial == Init => IInv
<1> SUFFICES ASSUME Init PROVE IInv
  OBVIOUS
<1>1. stream \in Seq(Frames(extra)) /\ DOMAIN stream = {} /\ handled = <<>>
  BY DEF Init
<1>2. Len(Bytes) \in Nat
  BY <1>1, StreamTypes DEF Init, Bytes
<1>3. Typed
  BY <1>1, <1>2, FramingAssumption DEF Init, Typed, MSG_HEADER_LEN
<1>4. Position /\ Room
  BY DEF Init, Position, Room
<1>5. ~Aligned
  BY <1>1 DEF Aligned
<1>6. DOMAIN handled = {}
  BY <1>1
<1> QED
  BY <1>3, <1>4, <1>5, <1>6 DEF IInv, Ordered, Reached, WholeHandled

\* A new connection has a new stream, and nothing of it was received.
LEMMA StepConnect == connect => IInv'
<1> SUFFICES ASSUME connect PROVE IInv'
  OBVIOUS
<1>1. extra' \in Extras /\ stream' \in Seq(Frames(extra'))
  BY FramingAssumption DEF connect
<1>2. /\ taken' = 0 /\ msgLen' = 0 /\ leftLen' = 0 /\ off' = 0
      /\ at' = "recv" /\ handled' = <<>>
  BY DEF connect
<1>3. Len(Bytes') \in Nat
  BY <1>1, StreamTypes DEF Bytes
<1>4. \A k \in DOMAIN stream' : Start(k)' \in Nat
  BY <1>1, StreamTypes DEF Start
<1>5. Typed'
  BY <1>1, <1>2, <1>3, FramingAssumption DEF Typed, MSG_HEADER_LEN
<1>6. Position' /\ Room'
  BY <1>2 DEF Position, Room
<1>7. Begun' = {}
  BY <1>2, <1>4 DEF Begun
<1>8. DOMAIN handled' = {}
  BY <1>2
<1>9. Ordered'
  BY <1>8 DEF Ordered
<1>10. Reached'
  BY <1>2, <1>7 DEF Reached, Behind
<1>11. WholeHandled'
  BY <1>7 DEF WholeHandled, Whole
<1> QED
  BY <1>5, <1>6, <1>9, <1>10, <1>11 DEF IInv

\* A new piece is at its start; one shorter than a header holds no whole message.
LEMMA StepRead ==
  ASSUME IInv, NEW n \in 1 .. BUF, SOC_READ(n)
  PROVE  IInv'
<1>1. /\ taken \in Nat /\ msgLen \in Nat /\ n \in Nat /\ n <= BUF
      /\ taken' = taken + msgLen /\ msgLen' = n /\ leftLen' = n /\ off' = 0
      /\ at' \in {"recv", "loop"} /\ (at' = "recv" => n < 7) /\ handled' = <<>>
      /\ extra' = extra /\ stream' = stream
  BY LoopTypes DEF IInv, SOC_READ, MSG_HEADER_LEN
<1>2. Bytes' = Bytes /\ \A k : Start(k)' = Start(k) /\ End(k)' = End(k)
  BY <1>1, SameStream
<1>3. \A k \in DOMAIN stream : Start(k) \in Nat /\ End(k) \in Nat /\ Start(k) + 7 <= End(k)
  BY Stream DEF IInv, IsMessage
<1>4. Typed'
  BY <1>1, <1>2, FramingAssumption DEF IInv, Typed, SOC_READ, MSG_HEADER_LEN
<1>5. Position' /\ Room'
  BY <1>1 DEF Position, Room
<1>6. Ordered'
  <2>1. DOMAIN handled' = {}
    BY <1>1
  <2> QED
    BY <2>1 DEF Ordered
<1>7. Reached'
  <2>1. Aligned' => Behind(0)'
    BY <1>1, <1>2, <1>3 DEF Aligned, Behind
  <2>2. \A k \in Begun' : ~(Start(k)' < taken' + off')
    BY <1>1, <1>2, <1>3 DEF Begun
  <2> QED
    BY <1>1, <2>1, <2>2 DEF Reached
<1>8. WholeHandled'
  <2>1. at' = "recv" => Whole' = {}
    BY <1>1, <1>2, <1>3 DEF Whole, Begun
  <2> QED
    BY <2>1 DEF WholeHandled
<1> QED
  BY <1>4, <1>5, <1>6, <1>7, <1>8 DEF IInv

\* A message is handled: it is the next one of the stream, and msg goes on to the
\* one behind it, or two bytes into that one.
LEMMA StepMessage ==
  ASSUME IInv, next_message
  PROVE  IInv'
<1> DEFINE h == taken + off
<1>1. /\ taken' = taken /\ msgLen' = msgLen /\ at' = "loop"
      /\ extra' = extra /\ stream' = stream /\ handled' = Append(handled, h)
      /\ ~SignatureError
  BY DEF next_message, handle_one_msg
<1>2. Bytes' = Bytes /\ \A k : Start(k)' = Start(k) /\ End(k)' = End(k)
  BY <1>1, SameStream
<1>3. /\ taken \in Nat /\ msgLen \in Nat /\ off \in Nat /\ length \in Nat
      /\ extra \in {0, 2} /\ Len(Bytes) \in Nat /\ taken + msgLen <= Len(Bytes)
      /\ handled \in Seq(Nat)
  BY LoopTypes, Stream DEF IInv, Typed
<1>4. /\ off + 5 <= msgLen /\ off' = off + length + 7
      /\ leftLen' \in 0 .. SIZE_T - 1 /\ off' \in 0 .. SIZE_T - 1 /\ Position'
  BY Advance DEF IInv, next_message
<1>5. /\ DOMAIN handled' = 1 .. Len(handled) + 1 /\ DOMAIN handled = 1 .. Len(handled)
      /\ Len(handled) \in Nat
      /\ handled'[Len(handled) + 1] = h
      /\ \A i \in DOMAIN handled : handled'[i] = handled[i] /\ handled[i] \in Nat
  BY <1>1, <1>3
<1>6. Handled' = Handled \cup {h}
  <2>1. \A i \in DOMAIN handled' : i \in DOMAIN handled \/ i = Len(handled) + 1
    BY <1>5
  <2>2. DOMAIN handled \subseteq DOMAIN handled' /\ Len(handled) + 1 \in DOMAIN handled'
    BY <1>5
  <2> HIDE DEF h
  <2> QED
    BY <1>5, <2>1, <2>2 DEF Handled
<1>7. Begun' = Begun /\ Aligned' = Aligned
  BY <1>1, <1>2 DEF Begun, Aligned
<1>8. Aligned => \E k \in Begun : Start(k) = h /\ (extra = 2 => off = 0)
  BY <1>1, <1>4, TakesMessage DEF IInv
<1>9. Typed'
  <2>1. handled' \in Seq(Nat)
    BY <1>1, <1>3
  <2> HIDE DEF h
  <2> QED
    BY <1>1, <1>2, <1>4, <2>1 DEF IInv, Typed
<1>10. Ordered'
  <2>1. \A i \in DOMAIN handled' : handled'[i] < taken' + off' /\ handled'[i] < taken' + msgLen'
    BY <1>1, <1>3, <1>4, <1>5 DEF IInv, Ordered
  <2>2. \A i, j \in DOMAIN handled' : i < j => handled'[i] < handled'[j]
    BY <1>3, <1>5 DEF IInv, Ordered
  <2>3. Aligned => \A i \in DOMAIN handled' : \E k \in Begun : handled'[i] = Start(k)
    BY <1>5, <1>8 DEF IInv, Ordered
  <2> QED
    BY <1>2, <1>7, <2>1, <2>2, <2>3 DEF Ordered
<1>11. Reached'
  <2> SUFFICES ASSUME Aligned
               PROVE  /\ extra = 0 => /\ Behind(0)'
                                      /\ \A j \in Begun : Start(j) < taken + off' => Start(j) \in Handled'
                      /\ extra = 2 => taken \in Handled' /\ Behind(2)'
    BY <1>1, <1>2, <1>7 DEF Reached
  <2>1. PICK k \in Begun : Start(k) = h /\ (extra = 2 => off = 0)
    BY <1>8
  <2>2. k \in DOMAIN stream
    BY DEF Begun
  <2>3. taken + off' = End(k) + extra /\ End(k) \in Nat
    <3>1. length + 7 = End(k) - Start(k) + extra
      BY <1>4, <2>1, <2>2, AtStart DEF IInv
    <3>2. Start(k) \in Nat /\ End(k) \in Nat
      BY <2>2, Stream DEF IInv, IsMessage
    <3>3. off' = off + length + 7 /\ Start(k) = taken + off
      BY <1>4, <2>1
    <3>4. taken \in Nat /\ off \in Nat /\ length \in Nat /\ extra \in Nat
      BY <1>3
    <3> QED
      BY <3>1, <3>2, <3>3, <3>4
  <2>4. (extra = 0 => Behind(0)') /\ (extra = 2 => Behind(2)')
    <3>1. CASE k + 1 \in DOMAIN stream /\ Start(k + 1) = End(k)
      BY <1>1, <1>2, <2>3, <3>1 DEF Behind
    <3>2. CASE End(k) = Len(Bytes)
      BY <1>1, <1>3, <1>4, <2>3, <3>2 DEF Behind
    <3> QED
      BY <2>2, <3>1, <3>2, Stream DEF IInv
  <2>5. ASSUME extra = 0, NEW j \in Begun, Start(j) < taken + off'
        PROVE  Start(j) \in Handled'
    <3>1. j \in DOMAIN stream /\ j \in Nat /\ k \in Nat
      BY <2>2, Stream DEF Begun, IInv
    <3>2. CASE j = k
      BY <1>6, <2>1, <3>2
    <3>3. CASE k < j
      <4>1. End(k) <= Start(j) /\ Start(j) \in Nat
        BY <2>2, <3>1, <3>3, Stream DEF IInv, IsMessage
      <4> QED
        BY <2>3, <2>5, <4>1
    <3>4. CASE j < k
      <4>1. End(j) <= Start(k) /\ Start(j) + 7 <= End(j) /\ Start(j) \in Nat /\ End(j) \in Nat
        BY <2>2, <3>1, <3>4, Stream DEF IInv, IsMessage
      <4>2. Start(j) < taken + off
        BY <1>3, <2>1, <4>1
      <4>3. Start(j) \in Handled
        BY <2>5, <4>2 DEF IInv, Reached
      <4> QED
        BY <1>6, <4>3
    <3> QED
      BY <3>1, <3>2, <3>3, <3>4
  <2>6. extra = 2 => taken \in Handled'
    BY <1>3, <1>6, <2>1
  <2> QED
    BY <2>4, <2>5, <2>6
<1>12. WholeHandled' /\ Room'
  BY <1>1 DEF WholeHandled, Room
<1> QED
  BY <1>4, <1>9, <1>10, <1>11, <1>12 DEF IInv

\* A step of client_proc that reads no message leaves what was said of them.
LEMMA Unmoved ==
  ASSUME Position, Ordered, Reached,
         UNCHANGED <<extra, stream, taken, msgLen, leftLen, off, handled>>
  PROVE  /\ Position' /\ Ordered' /\ Reached'
         /\ Whole' = Whole /\ Handled' = Handled /\ Aligned' = Aligned
<1>1. Bytes' = Bytes /\ \A k : Start(k)' = Start(k) /\ End(k)' = End(k)
  BY SameStream
<1>2. Begun' = Begun /\ Aligned' = Aligned /\ Handled' = Handled
  BY <1>1 DEF Begun, Aligned, Handled
<1>3. Whole' = Whole
  BY <1>1, <1>2 DEF Whole
<1>4. Behind(0)' = Behind(0) /\ Behind(2)' = Behind(2)
  BY <1>1 DEF Behind
<1>5. Position'
  BY DEF Position
<1>6. Ordered'
  BY <1>1, <1>2 DEF Ordered
<1>7. Reached'
  BY <1>1, <1>2, <1>4 DEF Reached
<1> QED
  BY <1>2, <1>3, <1>5, <1>6, <1>7

\* client_proc returns: the next message is not whole.
LEMMA StepReturn ==
  ASSUME IInv, return
  PROVE  IInv'
<1>1. /\ at' = "recv" /\ (Enough => SignatureError)
      /\ UNCHANGED <<extra, stream, taken, msgLen, leftLen, off, handled>>
  BY DEF return
<1>2. /\ Position' /\ Ordered' /\ Reached'
      /\ Whole' = Whole /\ Handled' = Handled /\ Aligned' = Aligned
  BY <1>1, Unmoved DEF IInv
<1>3. Typed'
  BY <1>1, SameStream DEF IInv, Typed
<1>4. Room'
  BY <1>1 DEF Room
<1>5. WholeHandled'
  <2> SUFFICES ASSUME Aligned, NEW k \in Whole, extra = 0 \/ Start(k) = taken,
                      Start(k) \notin Handled
               PROVE  FALSE
    BY <1>1, <1>2, SameStream DEF WholeHandled
  <2>1. /\ taken \in Nat /\ off \in Nat /\ msgLen \in Nat /\ leftLen \in Nat /\ length \in Nat
        /\ extra \in {0, 2}
    BY LoopTypes, Stream DEF IInv
  <2>2. /\ k \in DOMAIN stream /\ k \in Begun /\ IsMessage(k)
        /\ taken <= Start(k) /\ Start(k) < taken + msgLen /\ End(k) <= taken + msgLen
    BY Stream DEF Whole, Begun, IInv
  <2>3. PICK j \in DOMAIN stream : Start(j) = taken + off /\ j <= k
    <3>1. CASE extra = 0
      <4>1. Start(k) >= taken + off
        BY <2>1, <2>2, <3>1 DEF IInv, Reached, IsMessage
      <4>2. PICK j \in DOMAIN stream : Start(j) = taken + off
        <5>1. \E j \in DOMAIN stream : Start(j) + 0 = taken + off
          BY <2>1, <2>2, <3>1, <4>1 DEF IInv, Reached, Behind, IsMessage
        <5>2. \A j \in DOMAIN stream : Start(j) \in Nat
          BY Stream DEF IInv, IsMessage
        <5> QED
          BY <5>1, <5>2
      <4>3. ~(k < j)
        <5> SUFFICES ASSUME k < j PROVE FALSE
          OBVIOUS
        <5>1. End(k) <= Start(j)
          BY <2>2, Stream DEF IInv
        <5> QED
          BY <2>1, <2>2, <4>1, <4>2, <5>1 DEF IsMessage
      <4>4. j \in Nat /\ k \in Nat
        BY <2>2, Stream DEF IInv
      <4> QED
        BY <4>2, <4>3, <4>4
    <3>2. CASE extra = 2
      <4>1. Start(k) = taken /\ k \in Nat
        BY <2>2, <3>2, Stream DEF IInv
      <4>2. off = 0
        BY <3>2, <4>1 DEF IInv, Reached
      <4> QED
        BY <2>1, <2>2, <4>1, <4>2
    <3> QED
      BY <2>1, <3>1, <3>2
  <2>4. End(j) <= taken + msgLen /\ IsMessage(j)
    <3>1. IsMessage(j) /\ j \in Nat /\ k \in Nat
      BY <2>2, Stream DEF IInv
    <3>2. CASE j = k
      BY <2>2, <3>2
    <3>3. CASE j < k
      <4>1. End(j) <= Start(k)
        BY <2>2, <3>3, Stream DEF IInv
      <4> QED
        BY <2>1, <2>2, <3>1, <4>1 DEF IsMessage
    <3> QED
      BY <2>3, <3>1, <3>2, <3>3
  <2>5. off + 7 <= msgLen
    BY <2>1, <2>3, <2>4 DEF IsMessage
  <2>6. ~SignatureError /\ length + 7 = End(j) - Start(j) + extra
    <3>1. off + 5 <= msgLen
      BY <2>1, <2>5
    <3> QED
      BY <2>3, <3>1, AtStart DEF IInv
  <2>7. leftLen = msgLen - off
    BY <2>1, <2>5 DEF IInv, Position
  <2>8. Enough
    BY <2>1, <2>3, <2>4, <2>6, <2>7 DEF Enough, MSG_HEADER_LEN, IsMessage
  <2> QED
    BY <1>1, <2>6, <2>8
<1> QED
  BY <1>2, <1>3, <1>4, <1>5 DEF IInv

\* The loop test reads behind the buffer: the piece left no room for a header.
LEMMA StepOverrun ==
  ASSUME IInv, overrun
  PROVE  IInv'
<1>1. /\ at' = "overrun" /\ ~Readable
      /\ UNCHANGED <<extra, stream, taken, msgLen, leftLen, off, handled>>
  BY DEF overrun
<1>2. Position' /\ Ordered' /\ Reached'
  BY <1>1, Unmoved DEF IInv
<1>3. Typed'
  BY <1>1, SameStream DEF IInv, Typed
<1>4. WholeHandled'
  BY <1>1 DEF WholeHandled
<1>5. msgLen \in Nat /\ off \in Nat /\ BUF \in Nat
  BY LoopTypes, FramingAssumption DEF IInv
<1>6. Room'
  BY <1>1, <1>5 DEF IInv, Position, Readable, Room, MSG_HEADER_LEN
<1> QED
  BY <1>2, <1>3, <1>4, <1>6 DEF IInv

\* Stuttering changes nothing.
LEMMA StepStutter ==
  ASSUME IInv, UNCHANGED vars
  PROVE  IInv'
<1>1. UNCHANGED <<extra, stream, taken, msgLen, leftLen, off, handled>> /\ at' = at
  BY DEF vars
<1>2. /\ Position' /\ Ordered' /\ Reached'
      /\ Whole' = Whole /\ Handled' = Handled /\ Aligned' = Aligned
  BY <1>1, Unmoved DEF IInv
<1>3. Typed' /\ WholeHandled' /\ Room'
  BY <1>1, <1>2, SameStream DEF IInv, Typed, WholeHandled, Room
<1> QED
  BY <1>2, <1>3 DEF IInv

-----------------------------------------------------------------------------
(* The theorems *)

\* The invariant holds in every state of every behaviour.
THEOREM Invariance == Spec => []IInv
<1>1. Init => IInv
  BY Initial
<1>2. IInv /\ [Next]_vars => IInv'
  BY StepConnect, StepRead, StepMessage, StepReturn, StepOverrun, StepStutter DEF Next
<1> QED
  BY <1>1, <1>2, PTL DEF Spec

\* Every variable keeps its type: extra, stream, taken, msgLen, leftLen, off, at
\* and handled; leftLen and off are size_t values although they wrap.
THEOREM TypeCorrect == Spec => []TypeOK
<1>1. IInv => TypeOK
  <2> SUFFICES ASSUME IInv PROVE TypeOK
    OBVIOUS
  <2>1. \A k \in DOMAIN stream : stream[k] \in Frames(extra)
    BY DEF IInv, Typed
  <2>2. \A i \in DOMAIN handled : handled[i] \in 0 .. Len(Bytes)
    <3>1. taken \in Nat /\ msgLen \in Nat /\ Len(Bytes) \in Nat /\ taken + msgLen <= Len(Bytes)
      BY LoopTypes, Stream DEF IInv, Typed
    <3>2. \A i \in DOMAIN handled : handled[i] \in Nat /\ handled[i] < taken + msgLen
      BY DEF IInv, Typed, Ordered
    <3> QED
      BY <3>1, <3>2
  <2> QED
    BY <2>1, <2>2 DEF IInv, Typed, TypeOK
<1> QED
  BY <1>1, Invariance, PTL

\* What client_proc hands to handle_one_msg of a piece that starts with a message
\* are messages of the stream, each once and in order.
THEOREM OnlyTheorem == Spec => []OnlyMessages
<1>1. IInv => OnlyMessages
  BY DEF IInv, Ordered, OnlyMessages
<1> QED
  BY <1>1, Invariance, PTL

\* Every whole message of such a piece is handled before client_proc returns, when
\* the server counts like alloc_msg; the first one when it counts the sequence
\* number in.
THEOREM WholeTheorem == Spec => []WholeHandled
<1>1. IInv => WholeHandled
  BY DEF IInv
<1> QED
  BY <1>1, Invariance, PTL

\* The loop test stays in the buffer when a header still fits behind the piece,
\* whatever the piece holds.
THEOREM RoomTheorem == Spec => []RoomSuffices
<1>1. IInv => RoomSuffices
  <2> SUFFICES ASSUME IInv PROVE RoomSuffices
    OBVIOUS
  <2>1. msgLen \in Nat /\ BUF \in Nat
    BY LoopTypes, FramingAssumption DEF IInv
  <2> QED
    BY <2>1 DEF IInv, Room, RoomSuffices, MSG_HEADER_LEN
<1> QED
  BY <1>1, Invariance, PTL
=============================================================================
