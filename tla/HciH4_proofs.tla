----------------------------- MODULE HciH4_proofs -----------------------------
(***************************************************************************)
(* That the H4 reader delivers the controller's packets whole and in       *)
(* order, however their bytes are split over reads, for every payload      *)
(* length, every number of packets and every stream.                       *)
(*                                                                         *)
(* The argument has two parts.  The layout of a stream: there is a         *)
(* function off such that the bytes of packet k + 1 lie behind off[k] (by  *)
(* induction over the packets, the only place where one is needed).  And   *)
(* the position in it: the reader is where the packets delivered and what  *)
(* it has read of the next one say, and has stored just those bytes.       *)
(***************************************************************************)
EXTENDS HciH4, SequenceTheorems, WellFoundedInduction, TLAPS

-----------------------------------------------------------------------------
(* Packets and the layout of a stream *)

\* A packet as it is on the line, behind its type byte.
PacketBytes(p) == <<p.type>> \o p.body

\* off[k] is where the bytes of the first k packets end.
Layout(off) ==
  /\ off \in [0..Len(sent) -> Nat] /\ off[0] = 0 /\ off[Len(sent)] = Len(stream)
  /\ \A k \in 1..Len(sent) :
       /\ off[k] = off[k - 1] + 1 + Len(sent[k].body)
       /\ stream[off[k - 1] + 1] = sent[k].type
       /\ \A j \in 1..Len(sent[k].body) : stream[off[k - 1] + 1 + j] = sent[k].body[j]

\* The high and the low byte of a length give it back.
LEMMA TwoBytes ==
  ASSUME NEW n \in Nat, NEW b \in Nat \ {0}
  PROVE  n % b \in Nat /\ n \div b \in Nat /\ (n \div b) * b + (n % b) = n
  <1>1. n % b \in Nat
    OBVIOUS
  <1>2. n \div b \in Nat
    OBVIOUS
  <1>3. (n \div b) * b + (n % b) = n
    BY Z3T(30)
  <1>4. QED BY <1>1, <1>2, <1>3

\* A packet is a preamble of its type's size, which tells the length, and a payload.
LEMMA PacketIs ==
  ASSUME NEW p \in Packets
  PROVE  /\ p = [type |-> p.type, body |-> p.body]
         /\ p.type \in PacketType /\ p.body \in Seq(Nat)
         /\ PreambleSize(p.type) \in 2..4
         /\ Len(p.body) - PreambleSize(p.type) \in Lengths
         /\ \A pre : (\A i \in 1..PreambleSize(p.type) : pre[i] = p.body[i])
                       => PacketLength(p.type, pre) = Len(p.body) - PreambleSize(p.type)
  <1> USE DEF Acl, Sco, Event
  <1>1. PICK t \in PacketType, n \in Lengths : p = [type |-> t, body |-> Body(t, n)]
    BY DEF Packets
  <1>2. n \in Nat
    BY StreamAssumption
  <1>3. PICK low : low = n % Base
    OBVIOUS
  <1>4. PICK high : high = n \div Base
    OBVIOUS
  <1>5. low \in Nat /\ high \in Nat /\ high * Base + low = n
    <2>1. Base \in Nat \ {0}
      BY StreamAssumption
    <2>2. (n \div Base) * Base + (n % Base) = n /\ n % Base \in Nat /\ n \div Base \in Nat
      BY <1>2, <2>1, TwoBytes
    <2>3. QED BY <1>3, <1>4, <2>2
  <1>6. PICK pay : pay = [i \in 1..n |-> 2 + (i % 3)]
    OBVIOUS
  <1>7. pay \in Seq(Nat) /\ Len(pay) = n
    BY <1>2, <1>6
  <1>8. p.type = t /\ p.body = Body(t, n)
    BY <1>1
  <1>9. p.body = (CASE t = 2 -> <<4, 2, low, high>> [] t = 3 -> <<4, 2, n>> [] t = 4 -> <<4, n>>) \o pay
    BY <1>1, <1>3, <1>4, <1>6 DEF Body
  <1>10. CASE t = Acl
    <2>1. p.body = <<4, 2, low, high>> \o pay
      BY <1>10, <1>9
    <2>2. /\ p.body \in Seq(Nat) /\ Len(p.body) = 4 + n
          /\ p.body[1] = 4 /\ p.body[2] = 2 /\ p.body[3] = low /\ p.body[4] = high
      <3>1. PICK head : head = <<4, 2, low, high>>
        OBVIOUS
      <3>2. head \in Seq(Nat) /\ Len(head) = 4
        BY <1>5, <3>1
      <3>3. p.body = head \o pay
        BY <2>1, <3>1
      <3>4. PICK x \in Seq(Nat) : x = head
        BY <3>2
      <3>5. PICK y \in Seq(Nat) : y = pay
        BY <1>7
      <3>6. PICK z : z = x \o y
        OBVIOUS
      <3>7. z \in Seq(Nat) /\ Len(z) = Len(x) + Len(y) /\ \A i \in 1..Len(x) : z[i] = x[i]
        BY <3>6
      <3>8. Len(x) = 4 /\ Len(y) = n
        BY <1>7, <3>2, <3>4, <3>5
      <3>9. p.body = z
        BY <3>3, <3>4, <3>5, <3>6
      <3>10. p.body \in Seq(Nat) /\ Len(p.body) = 4 + n /\ \A i \in 1..4 : p.body[i] = head[i]
        BY <3>4, <3>7, <3>8, <3>9
      <3>11. head[1] = 4 /\ head[2] = 2 /\ head[3] = low /\ head[4] = high
        BY <3>1
      <3>12. 1 \in 1..4 /\ 2 \in 1..4 /\ 3 \in 1..4 /\ 4 \in 1..4
        OBVIOUS
      <3>13. QED BY <3>10, <3>11, <3>12
    <2>3. PreambleSize(t) = 4 /\ LengthOffset(t) = 2
      BY <1>10 DEF PreambleSize, LengthOffset
    <2>4. ASSUME NEW pre, \A i \in 1..4 : pre[i] = p.body[i] PROVE PacketLength(t, pre) = n
      BY <1>5, <1>10, <2>2, <2>3, <2>4 DEF PacketLength
    <2>5. QED BY <1>1, <1>2, <1>8, <2>2, <2>3, <2>4, SMTT(30)
  <1>11. CASE t = Sco
    <2>1. p.body = <<4, 2, n>> \o pay
      BY <1>11, <1>9
    <2>2. /\ p.body \in Seq(Nat) /\ Len(p.body) = 3 + n /\ p.body[3] = n
      BY <1>2, <1>7, <2>1
    <2>3. PreambleSize(t) = 3 /\ LengthOffset(t) = 2
      BY <1>11 DEF PreambleSize, LengthOffset
    <2>4. ASSUME NEW pre, \A i \in 1..3 : pre[i] = p.body[i] PROVE PacketLength(t, pre) = n
      BY <1>11, <2>2, <2>3, <2>4 DEF PacketLength
    <2>5. QED BY <1>1, <1>2, <1>8, <2>2, <2>3, <2>4
  <1>12. CASE t = Event
    <2>1. p.body = <<4, n>> \o pay
      BY <1>12, <1>9
    <2>2. /\ p.body \in Seq(Nat) /\ Len(p.body) = 2 + n /\ p.body[2] = n
      BY <1>2, <1>7, <2>1
    <2>3. PreambleSize(t) = 2 /\ LengthOffset(t) = 1
      BY <1>12 DEF PreambleSize, LengthOffset
    <2>4. ASSUME NEW pre, \A i \in 1..2 : pre[i] = p.body[i] PROVE PacketLength(t, pre) = n
      BY <1>12, <2>2, <2>3, <2>4 DEF PacketLength
    <2>5. QED BY <1>1, <1>2, <1>8, <2>2, <2>3, <2>4
  <1>13. QED BY <1>10, <1>11, <1>12 DEF PacketType

\* Every number is reached from zero.
LEMMA SetInduction ==
  ASSUME NEW S \in SUBSET Nat, 0 \in S, \A n \in S : n + 1 \in S
  PROVE  S = Nat
  <1> SUFFICES ASSUME S # Nat PROVE FALSE
    OBVIOUS
  <1> DEFINE R == OpToRel(<, Nat)
             T == Nat \ S
  <1>1. IsWellFoundedOn(R, Nat)
    BY NatLessThanWellFounded
  <1>2. T \subseteq Nat /\ T # {}
    OBVIOUS
  <1>3. \A x, y \in Nat : <<y, x>> \in R <=> y < x
    BY DEF OpToRel
  <1> HIDE DEF R
  <1>4. PICK x \in T : \A y \in T : ~(<<y, x>> \in R)
    BY <1>1, <1>2, WFMin
  <1>5. x \in Nat /\ x # 0
    OBVIOUS
  <1>6. x - 1 \in Nat /\ (x - 1) + 1 = x /\ x - 1 < x
    BY <1>5
  <1>7. x - 1 \in T
    BY <1>6
  <1>8. QED BY <1>3, <1>4, <1>5, <1>6, <1>7

\* The recursion of FlattenSeq has a value.
LEMMA FlattenExists ==
  ASSUME NEW s
  PROVE  \A m \in Nat : \E F : F = [i \in 1..m |-> IF i = 1 THEN s[i] ELSE F[i - 1] \o s[i]]
  <1> DEFINE S == {m \in Nat : \E F : F = [i \in 1..m |-> IF i = 1 THEN s[i] ELSE F[i - 1] \o s[i]]}
  <1>1. 0 \in S
    <2>1. PICK F : F = [i \in 1..0 |-> s[i]]
      OBVIOUS
    <2>2. F = [i \in 1..0 |-> IF i = 1 THEN s[i] ELSE F[i - 1] \o s[i]]
      BY <2>1
    <2>3. QED BY <2>2
  <1>2. ASSUME NEW m \in S PROVE m + 1 \in S
    <2>1. m \in Nat /\ m + 1 \in Nat
      OBVIOUS
    <2>2. PICK F : F = [i \in 1..m |-> IF i = 1 THEN s[i] ELSE F[i - 1] \o s[i]]
      OBVIOUS
    <2>3. PICK G : G = [i \in 1..m + 1 |-> IF i = 1 THEN s[i] ELSE IF i = m + 1 THEN F[m] \o s[i] ELSE F[i]]
      OBVIOUS
    <2>4. ASSUME NEW i \in 1..m + 1 PROVE G[i] = IF i = 1 THEN s[i] ELSE G[i - 1] \o s[i]
      <3>1. CASE i = 1
        BY <2>3, <3>1
      <3>2. CASE i # 1
        <4>1. i - 1 \in 1..m /\ i - 1 \in 1..m + 1 /\ i - 1 # m + 1
          BY <2>1, <3>2
        <4>2. G[i - 1] = F[i - 1]
          <5>1. CASE i - 1 = 1
            BY <2>2, <2>3, <4>1, <5>1
          <5>2. CASE i - 1 # 1
            BY <2>3, <4>1, <5>2
          <5>3. QED BY <5>1, <5>2
        <4>3. CASE i = m + 1
          <5>1. i - 1 = m
            BY <2>1, <4>3
          <5>2. G[i] = F[m] \o s[i]
            BY <2>3, <3>2, <4>3
          <5>3. QED BY <3>2, <4>2, <5>1, <5>2
        <4>4. CASE i # m + 1
          <5>1. i \in 1..m
            BY <2>1, <4>4
          <5>2. G[i] = F[i]
            BY <2>3, <3>2, <4>4
          <5>3. F[i] = F[i - 1] \o s[i]
            BY <2>2, <3>2, <5>1
          <5>4. QED BY <3>2, <4>2, <5>2, <5>3
        <4>5. QED BY <4>3, <4>4
      <3>3. QED BY <3>1, <3>2
    <2>5. G = [i \in 1..m + 1 |-> G[i]]
      BY <2>3
    <2>6. G = [i \in 1..m + 1 |-> IF i = 1 THEN s[i] ELSE G[i - 1] \o s[i]]
      BY <2>4, <2>5
    <2>7. QED BY <2>1, <2>6
  <1>3. S \in SUBSET Nat
    OBVIOUS
  <1>4. S = Nat
    <2> HIDE DEF S
    <2>1. QED BY <1>1, <1>2, <1>3, SetInduction
  <1>5. QED BY <1>4

\* The bytes of a stream, packet behind packet.
LEMMA LayoutExists ==
  ASSUME sent \in Seq(Packets), Len(sent) >= 1, stream = Bytes(sent)
  PROVE  stream \in Seq(Nat) /\ \E off : Layout(off)
  <1>1. PICK m \in Nat : m = Len(sent) /\ m >= 1
    OBVIOUS
  <1>2. \A i \in 1..m : sent[i] \in Packets
    BY <1>1
  <1>3. PICK s : s = [i \in 1..m |-> PacketBytes(sent[i])]
    OBVIOUS
  <1>4. ASSUME NEW i \in 1..m
        PROVE  /\ s[i] \in Seq(Nat) /\ Len(s[i]) = 1 + Len(sent[i].body) /\ s[i][1] = sent[i].type
               /\ \A j \in 1..Len(sent[i].body) : s[i][1 + j] = sent[i].body[j]
    <2>1. PICK t \in Nat : t = sent[i].type
      BY <1>2, PacketIs DEF PacketType, Acl, Sco, Event
    <2>2. PICK b \in Seq(Nat) : b = sent[i].body
      BY <1>2, PacketIs
    <2>3. s[i] = <<t>> \o b
      BY <1>3, <2>1, <2>2 DEF PacketBytes
    <2>4. s[i] \in Seq(Nat) /\ Len(s[i]) = 1 + Len(b) /\ s[i][1] = t /\ \A j \in 1..Len(b) : s[i][1 + j] = b[j]
      BY <2>3
    <2>5. QED BY <2>1, <2>2, <2>4
  <1>5. Len(s) = m
    BY <1>3
  <1>6. PICK F : F = CHOOSE f : f = [i \in 1..m |-> IF i = 1 THEN s[i] ELSE f[i - 1] \o s[i]]
    OBVIOUS
  <1>7. stream = F[m]
    <2>1. stream = FlattenSeq(s)
      BY <1>1, <1>3 DEF Bytes, PacketBytes
    <2>2. QED BY <1>1, <1>5, <1>6, <2>1 DEF FlattenSeq
  <1>8. F = [i \in 1..m |-> IF i = 1 THEN s[i] ELSE F[i - 1] \o s[i]]
    BY <1>6, FlattenExists
  <1> HIDE DEF Bytes
  <1>9. F[1] = s[1] /\ \A i \in 1..m : i # 1 => F[i] = F[i - 1] \o s[i]
    <2>1. 1 \in 1..m
      BY <1>1
    <2>2. F[1] = s[1]
      BY <1>8, <2>1
    <2>3. ASSUME NEW i \in 1..m, i # 1 PROVE F[i] = F[i - 1] \o s[i]
      BY <1>8, <2>3
    <2>4. QED BY <2>2, <2>3
  <1> DEFINE Good(i) == /\ F[i] \in Seq(Nat)
                        /\ \A k \in 1..i : /\ F[k] \in Seq(Nat) /\ Len(F[k]) <= Len(F[i])
                                           /\ \A j \in 1..Len(F[k]) : F[i][j] = F[k][j]
             S == {i \in Nat : i \in 1..m => Good(i)}
  <1>10. 0 \in S
    OBVIOUS
  <1>11. ASSUME NEW i \in S PROVE i + 1 \in S
    <2>1. i \in Nat /\ i + 1 \in Nat
      OBVIOUS
    <2>2. SUFFICES ASSUME i + 1 \in 1..m PROVE Good(i + 1)
      BY <2>1
    <2>3. CASE i = 0
      <3>1. F[1] \in Seq(Nat)
        BY <1>4, <1>9, <2>2, <2>3
      <3>2. i + 1 = 1 /\ \A k \in 1..1 : k = 1
        BY <2>3
      <3>3. QED BY <3>1, <3>2
    <2>4. CASE i # 0
      <3>1. i \in 1..m /\ Good(i)
        BY <1>1, <2>1, <2>2, <2>4
      <3>2. F[i + 1] = F[i] \o s[i + 1]
        <4>1. i + 1 # 1 /\ (i + 1) - 1 = i
          BY <2>1, <2>4
        <4>2. F[i + 1] = F[(i + 1) - 1] \o s[i + 1]
          BY <1>9, <2>2, <4>1
        <4>3. QED BY <4>1, <4>2
      <3>3. PICK x \in Seq(Nat) : x = F[i]
        BY <3>1
      <3>4. PICK y \in Seq(Nat) : y = s[i + 1]
        BY <1>4, <2>2
      <3>5. PICK z : z = F[i + 1]
        OBVIOUS
      <3>6. z = x \o y
        BY <3>2, <3>3, <3>4, <3>5
      <3>7. z \in Seq(Nat) /\ Len(x) <= Len(z) /\ \A j \in 1..Len(x) : z[j] = x[j]
        BY <3>6
      <3>8. ASSUME NEW k \in 1..i + 1
            PROVE  F[k] \in Seq(Nat) /\ Len(F[k]) <= Len(z) /\ \A j \in 1..Len(F[k]) : z[j] = F[k][j]
        <4>1. CASE k = i + 1
          BY <3>5, <3>7, <4>1
        <4>2. CASE k # i + 1
          <5>1. k \in 1..i
            BY <2>1, <4>2
          <5>2. F[k] \in Seq(Nat) /\ Len(F[k]) <= Len(x) /\ \A j \in 1..Len(F[k]) : x[j] = F[k][j]
            BY <3>1, <3>3, <5>1
          <5>3. PICK w \in Seq(Nat) : w = F[k]
            BY <5>2
          <5>4. Len(w) <= Len(x) /\ \A j \in 1..Len(w) : x[j] = w[j] /\ j \in 1..Len(x)
            BY <5>2, <5>3
          <5>5. Len(w) <= Len(z) /\ \A j \in 1..Len(w) : z[j] = w[j]
            BY <3>7, <5>4
          <5>6. QED BY <5>3, <5>5
        <4>3. QED BY <4>1, <4>2
      <3>9. QED BY <3>5, <3>7, <3>8
    <2>5. QED BY <2>3, <2>4
  <1>12. S \in SUBSET Nat
    OBVIOUS
  <1>13. S = Nat
    <2> HIDE DEF S
    <2>1. QED BY <1>10, <1>11, <1>12, SetInduction
  <1>14. Good(m)
    <2>1. m \in S
      BY <1>13
    <2>2. QED BY <1>1, <2>1
  <1>15. /\ stream \in Seq(Nat)
         /\ \A k \in 1..m : /\ F[k] \in Seq(Nat) /\ Len(F[k]) <= Len(stream)
                            /\ \A j \in 1..Len(F[k]) : stream[j] = F[k][j]
    BY <1>7, <1>14
  <1> HIDE DEF Good, S
  <1>16. PICK off : off = [k \in 0..m |-> IF k = 0 THEN 0 ELSE Len(F[k])]
    OBVIOUS
  <1>17. off \in [0..m -> Nat] /\ off[0] = 0 /\ off[m] = Len(stream)
    <2>1. \A k \in 0..m : k # 0 => k \in 1..m
      BY <1>1
    <2>2. \A k \in 1..m : Len(F[k]) \in Nat
      BY <1>15
    <2>3. 0 \in 0..m /\ m \in 0..m /\ m # 0
      BY <1>1
    <2>4. QED BY <1>7, <1>16, <2>1, <2>2, <2>3
  <1>18. ASSUME NEW k \in 1..m
         PROVE  /\ off[k] = off[k - 1] + 1 + Len(sent[k].body)
                /\ stream[off[k - 1] + 1] = sent[k].type
                /\ \A j \in 1..Len(sent[k].body) : stream[off[k - 1] + 1 + j] = sent[k].body[j]
    <2>1. k \in 0..m /\ k - 1 \in 0..m /\ k # 0
      BY <1>1
    <2>2. PICK y \in Seq(Nat) : y = s[k]
      BY <1>4
    <2>3. PICK z \in Seq(Nat) : z = F[k]
      BY <1>15
    <2>4. PICK n \in Nat : n = off[k - 1]
      BY <1>17, <2>1
    <2>5. Len(z) = n + Len(y) /\ \A j \in 1..Len(y) : z[n + j] = y[j]
      <3>1. CASE k = 1
        <4>1. z = y /\ n = 0
          BY <1>9, <1>17, <2>2, <2>3, <2>4, <3>1
        <4>2. QED BY <4>1
      <3>2. CASE k # 1
        <4>1. k - 1 \in 1..m /\ k - 1 # 0
          BY <1>1, <3>2
        <4>2. PICK x \in Seq(Nat) : x = F[k - 1]
          BY <1>15, <4>1
        <4>3. n = Len(x)
          BY <1>16, <2>1, <2>4, <4>1, <4>2
        <4>4. z = x \o y
          BY <1>9, <2>2, <2>3, <3>2, <4>2
        <4>5. QED BY <4>3, <4>4
      <3>3. QED BY <3>1, <3>2
    <2>6. PICK b \in Seq(Nat) : b = sent[k].body
      BY <1>2, PacketIs
    <2>7. Len(y) = 1 + Len(b) /\ y[1] = sent[k].type /\ \A j \in 1..Len(b) : y[1 + j] = b[j]
      BY <1>4, <2>2, <2>6
    <2>8. off[k] = Len(z) /\ \A j \in 1..Len(z) : stream[j] = z[j]
      BY <1>15, <1>16, <2>1, <2>3
    <2>9. off[k] = n + 1 + Len(b)
      <3>1. Len(z) = n + Len(y)
        BY <2>5
      <3>2. Len(y) = 1 + Len(b)
        BY <2>7
      <3>3. off[k] = Len(z)
        BY <2>8
      <3>4. PICK l \in Nat : l = Len(b)
        OBVIOUS
      <3>5. off[k] = n + (1 + l)
        BY <3>1, <3>2, <3>3, <3>4
      <3>6. n + (1 + l) = n + 1 + l
        OBVIOUS
      <3>7. QED BY <3>4, <3>5, <3>6
    <2>10. stream[n + 1] = sent[k].type
      <3>1. 1 \in 1..Len(y) /\ n + 1 \in 1..Len(z)
        BY <2>5, <2>7
      <3>2. QED BY <2>5, <2>7, <2>8, <3>1
    <2>11. ASSUME NEW j \in 1..Len(b) PROVE stream[n + 1 + j] = b[j]
      <3>1. 1 + j \in 1..Len(y) /\ n + (1 + j) \in 1..Len(z) /\ n + (1 + j) = n + 1 + j
        BY <2>5, <2>7
      <3>2. z[n + (1 + j)] = b[j]
        BY <2>5, <2>7, <3>1
      <3>3. QED BY <2>8, <3>1, <3>2
    <2>12. QED BY <2>4, <2>6, <2>9, <2>10, <2>11
  <1>19. Layout(off)
    BY <1>1, <1>17, <1>18 DEF Layout
  <1>20. QED BY <1>15, <1>19

-----------------------------------------------------------------------------
(* The inductive invariant *)

Types ==
  /\ sent \in Seq(Packets) /\ Len(sent) >= 1 /\ stream \in Seq(Nat)
  /\ arrived \in Nat /\ arrived <= Len(stream) /\ consumed \in Nat /\ consumed <= arrived
  /\ bytesRead \in Nat /\ delivered \in Seq(Packets)

\* What has been delivered is what was sent.
Delivered ==
  /\ Len(delivered) <= Len(sent)
  /\ \A i \in 1..Len(delivered) : delivered[i] = sent[i]

\* Between two packets the next byte to read is a type byte.
Between(off) ==
  type = Unknown =>
    st = "preamble" /\ bytesRead = 0 /\ preamble = <<>> /\ consumed = off[Len(delivered)]

\* The packet being read is the one behind those delivered.
InPacket ==
  type # Unknown =>
    /\ Len(delivered) < Len(sent) /\ type = sent[Len(delivered) + 1].type
    /\ st \in {"preamble", "payload"}

\* In a preamble its first bytesRead bytes are in place, and it is not complete.
InPreamble(off) ==
  (type # Unknown /\ st = "preamble") =>
    /\ bytesRead < PreambleSize(type) /\ consumed = off[Len(delivered)] + 1 + bytesRead
    /\ preamble \in Seq(Nat) /\ Len(preamble) = bytesRead
    /\ \A i \in 1..bytesRead : preamble[i] = sent[Len(delivered) + 1].body[i]

\* In a payload packet_ has the packet's size, its preamble and bytesRead bytes are in
\* place, and remaining of them are missing.
InPayload(off) ==
  (type # Unknown /\ st = "payload") =>
    /\ remaining \in Nat /\ (remaining > 0 \/ 0 \in Lengths)
    /\ consumed = off[Len(delivered)] + 1 + PreambleSize(type) + bytesRead
    /\ PreambleSize(type) + bytesRead + remaining = Len(sent[Len(delivered) + 1].body)
    /\ packet \in [1..Len(sent[Len(delivered) + 1].body) -> Nat]
    /\ \A i \in 1..PreambleSize(type) + bytesRead : packet[i] = sent[Len(delivered) + 1].body[i]

\* The process dies at the end of the descriptor, for a payload of no bytes, or of an error.
Ended == fatal \in {"no", "error"} \/ (fatal = "eof" /\ (closed \/ 0 \in Lengths))

\* Where the reader is in the stream.
At(off) == Layout(off) /\ Between(off) /\ InPreamble(off) /\ InPayload(off)

HInv == Types /\ Delivered /\ InPacket /\ Ended /\ \E off : At(off)

\* The reader is in packet k + 1, whose bytes behind the type byte are body.
Reading(off, k, body) ==
  /\ k \in Nat /\ k \in 0..Len(sent) /\ k + 1 \in 1..Len(sent)
  /\ off[k] \in Nat /\ off[k + 1] = off[k] + 1 + Len(body)
  /\ body \in Seq(Nat) /\ type = sent[k + 1].type
  /\ sent[k + 1] \in Packets /\ sent[k + 1] = [type |-> type, body |-> body]
  /\ PreambleSize(type) \in 2..4 /\ Len(body) - PreambleSize(type) \in Lengths
  /\ \A pre : (\A i \in 1..PreambleSize(type) : pre[i] = body[i])
                => PacketLength(type, pre) = Len(body) - PreambleSize(type)
  /\ \A j \in 1..Len(body) : stream[off[k] + 1 + j] = body[j]

\* What is known of the packet being read.
LEMMA Current ==
  ASSUME NEW off, Layout(off), Types, InPacket, type # Unknown,
         NEW k, k = Len(delivered), NEW body, body = sent[k + 1].body
  PROVE  Reading(off, k, body)
  <1>1. PICK m \in Nat : m = Len(sent)
    BY DEF Types
  <1>2. k \in Nat /\ k < m /\ type = sent[k + 1].type
    BY <1>1 DEF Types, InPacket
  <1>3. k \in 0..m /\ k + 1 \in 1..m /\ (k + 1) - 1 = k
    BY <1>1, <1>2
  <1>4. off \in [0..m -> Nat]
    BY <1>1 DEF Layout
  <1>5. /\ off[k + 1] = off[(k + 1) - 1] + 1 + Len(body)
        /\ \A j \in 1..Len(body) : stream[off[(k + 1) - 1] + 1 + j] = body[j]
    BY <1>1, <1>3 DEF Layout
  <1>6. PICK p \in Packets : p = sent[k + 1]
    BY <1>1, <1>3 DEF Types
  <1>7. /\ p = [type |-> p.type, body |-> p.body] /\ p.body \in Seq(Nat)
        /\ PreambleSize(p.type) \in 2..4 /\ Len(p.body) - PreambleSize(p.type) \in Lengths
        /\ \A pre : (\A i \in 1..PreambleSize(p.type) : pre[i] = p.body[i])
                       => PacketLength(p.type, pre) = Len(p.body) - PreambleSize(p.type)
    BY PacketIs
  <1>8. p.type = type /\ p.body = body
    BY <1>2, <1>6
  <1>9. /\ body \in Seq(Nat) /\ sent[k + 1] \in Packets /\ sent[k + 1] = [type |-> type, body |-> body]
        /\ PreambleSize(type) \in 2..4 /\ Len(body) - PreambleSize(type) \in Lengths
        /\ \A pre : (\A i \in 1..PreambleSize(type) : pre[i] = body[i])
                       => PacketLength(type, pre) = Len(body) - PreambleSize(type)
    BY <1>6, <1>7, <1>8
  <1>10. QED BY <1>1, <1>2, <1>3, <1>4, <1>5, <1>9 DEF Reading

\* The bytes of a read().
LEMMA TakenIs ==
  ASSUME Types, NEW n \in Nat, consumed + n <= arrived
  PROVE  /\ Taken(n) \in Seq(Nat) /\ Len(Taken(n)) = n
         /\ \A i \in 1..n : Taken(n)[i] = stream[consumed + i]
  <1>1. PICK s \in Seq(Nat) : s = stream
    BY DEF Types
  <1>2. PICK c \in Nat : c = consumed /\ c + n <= Len(s)
    BY <1>1 DEF Types
  <1>3. PICK t : t = SubSeq(s, c + 1, c + n)
    OBVIOUS
  <1>4. t \in Seq(Nat) /\ Len(t) = n
    BY <1>2, <1>3
  <1>5. ASSUME NEW i \in 1..n PROVE t[i] = s[c + i]
    BY <1>2, <1>3
  <1>6. Taken(n) = t
    BY <1>1, <1>2, <1>3 DEF Taken
  <1>7. QED BY <1>1, <1>2, <1>4, <1>5, <1>6

\* Init establishes the invariant.
LEMMA InitHolds == Init => HInv
  <1> SUFFICES ASSUME Init PROVE HInv
    OBVIOUS
  <1>1. sent \in Seq(Packets) /\ Len(sent) >= 1
    <2>1. PICK n \in 1..MaxPackets : sent \in [1..n -> Packets]
      BY DEF Init
    <2>2. n \in Nat /\ n >= 1
      BY <2>1, StreamAssumption
    <2>3. QED BY <2>1, <2>2
  <1>2. stream \in Seq(Nat) /\ \E off : Layout(off)
    BY <1>1, LayoutExists DEF Init
  <1>3. PICK off : Layout(off)
    BY <1>2
  <1>4. Len(delivered) = 0
    BY DEF Init
  <1>5. Types
    BY <1>1, <1>2 DEF Init, Types
  <1>6. Delivered /\ InPacket /\ Ended
    BY <1>1, <1>4 DEF Init, Delivered, InPacket, Ended
  <1>7. off[0] = 0
    BY <1>3 DEF Layout
  <1>8. Between(off) /\ InPreamble(off) /\ InPayload(off)
    BY <1>4, <1>7 DEF Init, Between, InPreamble, InPayload
  <1>9. QED BY <1>3, <1>5, <1>6, <1>8 DEF HInv, At

-----------------------------------------------------------------------------
(* The steps *)

\* The layout stays while the controller's stream does.
LEMMA LayoutStays ==
  ASSUME NEW off, Layout(off), sent' = sent, stream' = stream
  PROVE  Layout(off)'
  BY DEF Layout

\* What a concatenation is made of.
LEMMA Concatenation ==
  ASSUME NEW x \in Seq(Nat), NEW y \in Seq(Nat), NEW z, z = x \o y
  PROVE  /\ z \in Seq(Nat) /\ Len(z) = Len(x) + Len(y)
         /\ \A i \in 1..Len(x) : z[i] = x[i]
         /\ \A i \in 1..Len(y) : z[Len(x) + i] = y[i]
  <1>1. z \in Seq(Nat) /\ Len(z) = Len(x) + Len(y)
    OBVIOUS
  <1>2. \A i \in 1..Len(x) : z[i] = x[i]
    OBVIOUS
  <1>3. \A i \in 1..Len(y) : z[Len(x) + i] = y[i]
    OBVIOUS
  <1>4. QED BY <1>1, <1>2, <1>3

\* A type byte is read: it is the type of the next packet.
LEMMA ReadTypeKeeps == ASSUME HInv, fatal = "no", ReadType PROVE HInv'
  <1>1. PICK off : At(off)
    BY DEF HInv
  <1>2. Layout(off) /\ Between(off) /\ Types /\ Delivered
    BY <1>1 DEF HInv, At
  <1>3. /\ type = Unknown /\ arrived > consumed /\ consumed' = consumed + 1
        /\ sent' = sent /\ stream' = stream /\ arrived' = arrived /\ closed' = closed
        /\ st' = st /\ preamble' = preamble /\ packet' = packet /\ bytesRead' = bytesRead
        /\ remaining' = remaining /\ delivered' = delivered
        /\ stream[consumed + 1] \in PacketType =>
             type' = stream[consumed + 1] /\ fatal' = fatal
    BY DEF ReadType, line, packetizer
  <1>4. PICK k : k = Len(delivered)
    OBVIOUS
  <1>5. PICK m \in Nat : m = Len(sent)
    BY <1>2 DEF Types
  <1>6. k \in Nat /\ k <= m
    BY <1>2, <1>4, <1>5 DEF Types, Delivered
  <1>7. st = "preamble" /\ bytesRead = 0 /\ preamble = <<>> /\ consumed = off[k]
    BY <1>2, <1>3, <1>4 DEF Between
  <1>8. k # m
    <2>1. off[m] = Len(stream)
      BY <1>2, <1>5 DEF Layout
    <2>2. consumed < Len(stream) /\ consumed \in Nat
      BY <1>2, <1>3 DEF Types
    <2>3. QED BY <1>7, <2>1, <2>2
  <1>9. k + 1 \in 1..m /\ (k + 1) - 1 = k
    BY <1>6, <1>8
  <1>10. stream[off[k] + 1] = sent[k + 1].type
    BY <1>2, <1>5, <1>9 DEF Layout
  <1>11. sent[k + 1] \in Packets
    BY <1>2, <1>5, <1>9 DEF Types
  <1>12. PICK p \in Packets : p = sent[k + 1]
    BY <1>11
  <1>13. p.type \in PacketType /\ PreambleSize(p.type) \in 2..4
    BY PacketIs
  <1>14. type' = sent[k + 1].type /\ fatal' = "no" /\ type' \in PacketType /\ PreambleSize(type') \in 2..4
    BY <1>3, <1>7, <1>10, <1>12, <1>13
  <1>15. type' # Unknown
    BY <1>14 DEF PacketType, Acl, Sco, Event, Unknown
  <1>16. Types'
    BY <1>2, <1>3 DEF Types
  <1>17. Delivered'
    BY <1>2, <1>3 DEF Delivered
  <1>18. InPacket'
    BY <1>3, <1>4, <1>5, <1>6, <1>7, <1>8, <1>14 DEF InPacket
  <1>19. Ended' /\ Between(off)'
    BY <1>14, <1>15 DEF Ended, Between
  <1>20. InPreamble(off)'
    <2>1. bytesRead' < PreambleSize(type')
      BY <1>3, <1>7, <1>14
    <2>2. Len(delivered') = k
      BY <1>3, <1>4
    <2>3. off[k] \in Nat /\ bytesRead' = 0
      BY <1>2, <1>3, <1>7 DEF Types
    <2>4. consumed' = off[Len(delivered')] + 1 + bytesRead'
      BY <1>3, <1>7, <2>2, <2>3
    <2>5. preamble' \in Seq(Nat) /\ Len(preamble') = 0
      BY <1>3, <1>7
    <2>6. \A i \in 1..bytesRead' : preamble'[i] = sent'[Len(delivered') + 1].body[i]
      BY <2>3
    <2>7. QED BY <2>1, <2>3, <2>4, <2>5, <2>6 DEF InPreamble
  <1>21. InPayload(off)'
    BY <1>3, <1>7 DEF InPayload
  <1>22. Layout(off)'
    BY <1>2, <1>3, LayoutStays
  <1>23. QED BY <1>16, <1>17, <1>18, <1>19, <1>20, <1>21, <1>22 DEF HInv, At

\* Bytes of a preamble are read; the last of them give packet_ its size.
LEMMA ReadPreambleKeeps ==
  ASSUME HInv, fatal = "no", NEW n \in 1..(arrived - consumed), ReadPreamble(n) PROVE HInv'
  <1>1. PICK off : At(off)
    BY DEF HInv
  <1>2. Layout(off) /\ InPreamble(off) /\ Types /\ Delivered /\ InPacket
    BY <1>1 DEF HInv, At
  <1>3. /\ type # Unknown /\ st = "preamble" /\ arrived >= consumed + n
        /\ bytesRead + n <= PreambleSize(type)
        /\ consumed' = consumed + n /\ preamble' = preamble \o Taken(n)
        /\ sent' = sent /\ stream' = stream /\ arrived' = arrived /\ closed' = closed
        /\ type' = type /\ delivered' = delivered /\ fatal' = fatal
        /\ bytesRead + n < PreambleSize(type) => bytesRead' = bytesRead + n /\ st' = st
        /\ ~(bytesRead + n < PreambleSize(type)) =>
             /\ packet' = preamble' \o [i \in 1..PacketLength(type, preamble') |-> 0]
             /\ remaining' = PacketLength(type, preamble') /\ st' = "payload" /\ bytesRead' = 0
    BY DEF ReadPreamble, line
  <1>4. PICK k : k = Len(delivered)
    OBVIOUS
  <1>5. PICK body : body = sent[k + 1].body
    OBVIOUS
  <1>6. /\ k \in Nat /\ k \in 0..Len(sent) /\ k + 1 \in 1..Len(sent)
        /\ off[k] \in Nat /\ off[k + 1] = off[k] + 1 + Len(body)
        /\ body \in Seq(Nat) /\ type = sent[k + 1].type
        /\ PreambleSize(type) \in 2..4 /\ Len(body) - PreambleSize(type) \in Lengths
        /\ \A pre : (\A i \in 1..PreambleSize(type) : pre[i] = body[i])
                      => PacketLength(type, pre) = Len(body) - PreambleSize(type)
        /\ \A j \in 1..Len(body) : stream[off[k] + 1 + j] = body[j]
    <2>1. Layout(off) /\ Types /\ InPacket /\ type # Unknown
      BY <1>2, <1>3
    <2>2. Reading(off, k, body)
      BY <2>1, <1>4, <1>5, Current
    <2>3. QED BY <2>2 DEF Reading
  <1>7. PICK size \in 2..4 : size = PreambleSize(type)
    BY <1>6
  <1>8. PICK l \in Nat : l = Len(body)
    BY <1>6
  <1>9. l - size \in Nat /\ l - size \in Lengths
    BY <1>6, <1>7, <1>8, StreamAssumption
  <1>10. PICK r \in Nat : r = bytesRead
    BY <1>2 DEF Types
  <1>11. PICK pre \in Seq(Nat) : pre = preamble
    BY <1>2, <1>3 DEF InPreamble
  <1>12. /\ r < size /\ consumed = off[k] + 1 + r /\ Len(pre) = r
         /\ \A i \in 1..r : pre[i] = body[i]
    BY <1>2, <1>3, <1>4, <1>5, <1>7, <1>10, <1>11 DEF InPreamble
  <1>13. n \in Nat /\ n >= 1 /\ consumed + n <= arrived
    BY <1>2, <1>3 DEF Types
  <1>14. PICK t : t = Taken(n)
    OBVIOUS
  <1>15. t \in Seq(Nat) /\ Len(t) = n /\ \A i \in 1..n : t[i] = stream[consumed + i]
    BY <1>2, <1>13, <1>14, TakenIs
  <1>16. ASSUME NEW i \in 1..n PROVE t[i] = body[r + i]
    <2>1. r + i \in 1..l
      BY <1>3, <1>7, <1>9, <1>10, <1>13
    <2>2. PICK o \in Nat : o = off[k]
      BY <1>6
    <2>3. consumed + i = off[k] + 1 + (r + i)
      BY <1>12, <2>2
    <2>4. QED BY <1>6, <1>8, <1>15, <2>1, <2>3
  <1>17. PICK new : new = pre \o t
    OBVIOUS
  <1>18. new = preamble'
    BY <1>3, <1>11, <1>14, <1>17
  <1>19. /\ new \in Seq(Nat) /\ Len(new) = r + n /\ \A i \in 1..r : new[i] = pre[i]
         /\ \A i \in 1..n : new[r + i] = t[i]
    <2>1. /\ new \in Seq(Nat) /\ Len(new) = Len(pre) + Len(t) /\ \A i \in 1..Len(pre) : new[i] = pre[i]
          /\ \A i \in 1..Len(t) : new[Len(pre) + i] = t[i]
      <3>1. t \in Seq(Nat)
        BY <1>15
      <3>2. QED BY <1>17, <3>1, Concatenation
    <2>2. Len(pre) = r /\ Len(t) = n
      BY <1>12, <1>15
    <2>3. QED BY <2>1, <2>2
  <1>20. ASSUME NEW i \in 1..r + n PROVE new[i] = body[i]
    <2>1. CASE i \in 1..r
      BY <1>12, <1>19, <2>1
    <2>2. CASE i \notin 1..r
      <3>1. i - r \in 1..n /\ r + (i - r) = i
        BY <1>13, <2>2
      <3>2. QED BY <1>16, <1>19, <3>1
    <2>3. QED BY <2>1, <2>2
  <1>21. Types'
    <2>1. bytesRead' \in Nat
      BY <1>3, <1>10, <1>13
    <2>2. consumed' \in Nat /\ consumed' <= arrived'
      BY <1>2, <1>3, <1>13 DEF Types
    <2>3. QED BY <1>2, <1>3, <2>1, <2>2 DEF Types
  <1>22. Delivered' /\ Ended' /\ Between(off)'
    BY <1>2, <1>3 DEF Delivered, Ended, Between
  <1>23. InPacket'
    BY <1>2, <1>3 DEF InPacket
  <1>24. Layout(off)'
    BY <1>2, <1>3, LayoutStays
  <1>25. Len(delivered') = k /\ sent'[k + 1].body = body /\ PreambleSize(type') = size
    BY <1>3, <1>4, <1>5, <1>7
  <1>26. consumed' = off[k] + 1 + (r + n)
    BY <1>3, <1>6, <1>12, <1>13
  <1>27. CASE r + n < size
    <2>1. bytesRead' = r + n /\ st' = "preamble"
      BY <1>3, <1>7, <1>10, <1>27
    <2>2. InPreamble(off)'
      BY <1>18, <1>19, <1>20, <1>25, <1>26, <1>27, <2>1 DEF InPreamble
    <2>3. InPayload(off)'
      BY <2>1 DEF InPayload
    <2>4. QED BY <1>21, <1>22, <1>23, <1>24, <2>2, <2>3 DEF HInv, At
  <1>28. CASE ~(r + n < size)
    <2>1. r + n = size
      BY <1>3, <1>7, <1>10, <1>13, <1>28
    <2>2. PICK rest \in Nat : rest = l - size /\ rest \in Lengths
      BY <1>9
    <2>3. PacketLength(type, new) = rest
      BY <1>6, <1>7, <1>8, <1>20, <2>1, <2>2
    <2>4. PICK zeros : zeros = [i \in 1..rest |-> 0]
      OBVIOUS
    <2>5. packet' = new \o zeros /\ remaining' = rest /\ st' = "payload" /\ bytesRead' = 0
      BY <1>3, <1>7, <1>10, <1>18, <1>28, <2>3, <2>4
    <2>6. zeros \in Seq(Nat) /\ Len(zeros) = rest
      BY <2>4
    <2>7. PICK pk : pk = new \o zeros
      OBVIOUS
    <2>8. Len(new) = size /\ size + rest = l
      BY <1>19, <2>1, <2>2
    <2>9. /\ pk \in [1..Len(pk) -> Nat] /\ Len(pk) = Len(new) + Len(zeros)
          /\ \A i \in 1..Len(new) : pk[i] = new[i]
      <3>1. new \in Seq(Nat)
        BY <1>19
      <3>2. zeros \in Seq(Nat)
        BY <2>6
      <3>3. PICK x \in Seq(Nat) : x = new
        BY <3>1
      <3>4. PICK y \in Seq(Nat) : y = zeros
        BY <3>2
      <3>5. pk = x \o y
        BY <2>7, <3>3, <3>4
      <3>6. pk \in Seq(Nat) /\ Len(pk) = Len(x) + Len(y) /\ \A i \in 1..Len(x) : pk[i] = x[i]
        BY <3>5, Concatenation
      <3>7. pk \in Seq(Nat)
        BY <3>6
      <3>8. pk \in [1..Len(pk) -> Nat]
        BY <3>7, LenProperties
      <3>9. QED BY <3>3, <3>4, <3>6, <3>8
    <2>10. pk \in [1..l -> Nat] /\ packet' = pk /\ \A i \in 1..size : pk[i] = new[i]
      BY <2>5, <2>6, <2>7, <2>8, <2>9
    <2>11. \A i \in 1..size : pk[i] = body[i]
      BY <1>20, <2>1, <2>10
    <2>12. PICK o \in Nat : o = off[k]
      BY <1>6
    <2>13. consumed' = o + 1 + size
      BY <1>26, <2>1, <2>12
    <2>14. consumed' = off[k] + 1 + size + bytesRead'
      BY <2>12, <2>13, <2>5
    <2>15. size + bytesRead' + remaining' = l /\ size + bytesRead' = size
      BY <2>2, <2>5
    <2>16. remaining' \in Nat /\ (remaining' > 0 \/ 0 \in Lengths)
      BY <2>2, <2>5
    <2>17. InPayload(off)'
      BY <1>8, <1>25, <2>10, <2>11, <2>14, <2>15, <2>16 DEF InPayload
    <2>18. InPreamble(off)'
      BY <2>5 DEF InPreamble
    <2>19. QED BY <1>21, <1>22, <1>23, <1>24, <2>17, <2>18 DEF HInv, At
  <1>29. QED BY <1>27, <1>28

\* Bytes of a payload are read; with the last of them the packet is delivered.
LEMMA ReadPayloadKeeps ==
  ASSUME HInv, fatal = "no", NEW n \in 1..(arrived - consumed), ReadPayload(n) PROVE HInv'
  <1>1. PICK off : At(off)
    BY DEF HInv
  <1>2. Layout(off) /\ InPayload(off) /\ Types /\ Delivered /\ InPacket
    BY <1>1 DEF HInv, At
  <1>3. /\ type # Unknown /\ st = "payload" /\ arrived >= consumed + n /\ n <= remaining
        /\ consumed' = consumed + n /\ remaining' = remaining - n /\ packet' = Stored(n)
        /\ sent' = sent /\ stream' = stream /\ arrived' = arrived /\ closed' = closed
        /\ fatal' = fatal
        /\ n < remaining => /\ bytesRead' = bytesRead + n /\ st' = st /\ type' = type
                            /\ delivered' = delivered
        /\ ~(n < remaining) =>
             /\ delivered' = Append(delivered, [type |-> type, body |-> packet'])
             /\ st' = "preamble" /\ preamble' = <<>> /\ bytesRead' = 0 /\ type' = Unknown
    BY DEF ReadPayload, line
  <1>4. PICK k : k = Len(delivered)
    OBVIOUS
  <1>5. PICK body : body = sent[k + 1].body
    OBVIOUS
  <1>6. Reading(off, k, body)
    <2>1. Layout(off) /\ Types /\ InPacket /\ type # Unknown
      BY <1>2, <1>3
    <2>2. QED BY <2>1, <1>4, <1>5, Current
  <1>7. PICK size \in 2..4 : size = PreambleSize(type)
    BY <1>6 DEF Reading
  <1>8. PICK l \in Nat : l = Len(body)
    BY <1>6 DEF Reading
  <1>9. PICK o \in Nat : o = off[k]
    BY <1>6 DEF Reading
  <1>10. PICK r \in Nat : r = bytesRead
    BY <1>2 DEF Types
  <1>11. PICK left \in Nat : left = remaining
    BY <1>2, <1>3 DEF InPayload
  <1>12. /\ consumed = o + 1 + size + r /\ size + r + left = l /\ packet \in [1..l -> Nat]
         /\ \A i \in 1..size + r : packet[i] = body[i]
    BY <1>2, <1>3, <1>4, <1>5, <1>7, <1>8, <1>9, <1>10, <1>11 DEF InPayload
  <1>13. n \in Nat /\ n >= 1 /\ consumed + n <= arrived /\ n <= left
    BY <1>2, <1>3, <1>11 DEF Types
  <1>14. PICK pk : pk = packet
    OBVIOUS
  <1>15. PICK new : new = Stored(n)
    OBVIOUS
  <1>16. new = [i \in 1..l |-> IF i \in (size + r) + 1..(size + r) + n
                                THEN stream[consumed + i - (size + r)] ELSE pk[i]]
    BY <1>7, <1>10, <1>12, <1>14, <1>15 DEF Stored
  <1>17. ASSUME NEW i \in 1..(size + r) + n PROVE i \in 1..l /\ new[i] = body[i]
    <2>1. i \in 1..l
      BY <1>12, <1>13
    <2>2. CASE i \in 1..size + r
      <3>1. i \notin (size + r) + 1..(size + r) + n
        BY <2>2
      <3>2. QED BY <1>12, <1>14, <1>16, <2>1, <2>2, <3>1
    <2>3. CASE i \notin 1..size + r
      <3>1. i \in (size + r) + 1..(size + r) + n
        BY <1>13, <2>3
      <3>2. consumed + i - (size + r) = o + 1 + i
        BY <1>12
      <3>3. new[i] = stream[o + 1 + i]
        BY <1>16, <2>1, <3>1, <3>2
      <3>4. QED BY <1>6, <1>8, <1>9, <2>1, <3>3 DEF Reading
    <2>4. QED BY <2>2, <2>3
  <1>18. body \in Seq(Nat) /\ body \in [1..l -> Nat]
    <2>1. body \in Seq(Nat)
      BY <1>6 DEF Reading
    <2>2. QED BY <1>8, <2>1, LenProperties
  <1>19. new \in [1..l -> Nat]
    <2>1. ASSUME NEW i \in 1..l PROVE new[i] \in Nat
      <3>1. CASE i \in 1..(size + r) + n
        BY <1>17, <1>18, <3>1
      <3>2. CASE i \notin 1..(size + r) + n
        <4>1. i \notin (size + r) + 1..(size + r) + n
          BY <1>13, <3>2
        <4>2. new[i] = pk[i]
          BY <1>16, <4>1
        <4>3. QED BY <1>12, <1>14, <4>2
      <3>3. QED BY <3>1, <3>2
    <2>2. QED BY <1>16, <2>1
  <1>20. packet' = new
    BY <1>3, <1>15
  <1>21. consumed' = o + 1 + size + (r + n)
    BY <1>3, <1>12, <1>13
  <1>22. consumed' \in Nat /\ consumed' <= arrived'
    BY <1>2, <1>3, <1>13 DEF Types
  <1>23. Layout(off)'
    BY <1>2, <1>3, LayoutStays
  <1>24. Ended'
    BY <1>3 DEF Ended
  <1>25. CASE n < left
    <2>1. /\ bytesRead' = r + n /\ st' = "payload" /\ type' = type /\ delivered' = delivered
          /\ remaining' = left - n
      BY <1>3, <1>10, <1>11, <1>25
    <2>2. Types'
      <3>1. bytesRead' \in Nat
        BY <1>13, <2>1
      <3>2. QED BY <1>2, <1>3, <1>22, <2>1, <3>1 DEF Types
    <2>3. Delivered' /\ InPacket' /\ Between(off)' /\ InPreamble(off)'
      BY <1>2, <1>3, <2>1 DEF Delivered, InPacket, Between, InPreamble
    <2>4. Len(delivered') = k /\ sent'[k + 1].body = body /\ PreambleSize(type') = size
      BY <1>3, <1>4, <1>5, <1>7, <2>1
    <2>5. remaining' \in Nat /\ remaining' > 0 /\ size + bytesRead' + remaining' = l
      BY <1>12, <1>13, <1>25, <2>1
    <2>6. consumed' = off[k] + 1 + size + bytesRead'
      BY <1>9, <1>21, <2>1
    <2>7. packet' \in [1..l -> Nat] /\ \A i \in 1..size + bytesRead' : packet'[i] = body[i]
      <3>1. size + bytesRead' = (size + r) + n
        BY <1>13, <2>1
      <3>2. QED BY <1>17, <1>19, <1>20, <3>1
    <2>8. InPayload(off)'
      BY <1>8, <2>1, <2>4, <2>5, <2>6, <2>7 DEF InPayload
    <2>9. QED BY <1>23, <1>24, <2>2, <2>3, <2>8 DEF HInv, At
  <1>26. CASE ~(n < left)
    <2>1. n = left /\ (size + r) + n = l
      BY <1>12, <1>13, <1>26
    <2>2. new = body
      <3>1. \A i \in 1..l : new[i] = body[i]
        BY <1>17, <2>1
      <3>2. QED BY <1>18, <1>19, <3>1
    <2>3. PICK p \in Packets : p = sent[k + 1]
      BY <1>6 DEF Reading
    <2>4. p = [type |-> type, body |-> packet']
      BY <1>6, <1>20, <2>2, <2>3 DEF Reading
    <2>5. /\ delivered' = Append(delivered, p) /\ st' = "preamble" /\ preamble' = <<>>
          /\ bytesRead' = 0 /\ type' = Unknown
      BY <1>3, <1>11, <1>26, <2>4
    <2>6. /\ delivered' \in Seq(Packets) /\ Len(delivered') = k + 1
          /\ \A i \in 1..k + 1 : delivered'[i] = IF i = k + 1 THEN p ELSE delivered[i]
      <3>1. PICK d \in Seq(Packets) : d = delivered
        BY <1>2 DEF Types
      <3>2. delivered' = Append(d, p) /\ Len(d) = k
        BY <1>4, <2>5, <3>1
      <3>3. QED BY <3>1, <3>2
    <2>7. Types'
      BY <1>2, <1>3, <1>22, <2>5, <2>6 DEF Types
    <2>8. k \in Nat /\ k + 1 <= Len(sent)
      <3>1. PICK m \in Nat : m = Len(sent)
        BY <1>2 DEF Types
      <3>2. QED BY <1>6, <3>1 DEF Reading
    <2>9. Delivered'
      <3>1. ASSUME NEW i \in 1..k + 1 PROVE delivered'[i] = sent'[i]
        <4>1. CASE i = k + 1
          BY <1>3, <2>3, <2>6, <4>1
        <4>2. CASE i # k + 1
          <5>1. i \in 1..k
            BY <2>8, <4>2
          <5>2. delivered[i] = sent[i]
            BY <1>2, <1>4, <5>1 DEF Delivered
          <5>3. QED BY <1>3, <2>6, <4>2, <5>2
        <4>3. QED BY <4>1, <4>2
      <3>2. QED BY <1>3, <2>6, <2>8, <3>1 DEF Delivered
    <2>10. consumed' = off[k + 1]
      <3>1. off[k + 1] = o + 1 + l
        BY <1>6, <1>8, <1>9 DEF Reading
      <3>2. QED BY <1>21, <2>1, <3>1
    <2>11. Between(off)' /\ InPacket' /\ InPreamble(off)' /\ InPayload(off)'
      BY <2>5, <2>6, <2>10 DEF Between, InPacket, InPreamble, InPayload
    <2>12. QED BY <1>23, <1>24, <2>7, <2>9, <2>11 DEF HInv, At
  <1>27. QED BY <1>25, <1>26

\* A read of no bytes ends the process at the end of the descriptor only, unless a
\* payload has no bytes.
LEMMA ReadNothingKeeps == ASSUME HInv, fatal = "no", ReadNothing PROVE HInv'
  <1>1. PICK off : At(off)
    BY DEF HInv
  <1>2. /\ fatal' = "eof" /\ sent' = sent /\ stream' = stream /\ arrived' = arrived
        /\ closed' = closed /\ consumed' = consumed /\ type' = type /\ st' = st
        /\ preamble' = preamble /\ packet' = packet /\ bytesRead' = bytesRead
        /\ remaining' = remaining /\ delivered' = delivered
        /\ closed \/ (type # Unknown /\ st = "payload" /\ remaining = 0)
    BY DEF ReadNothing, line, packetizer
  <1>3. closed \/ 0 \in Lengths
    BY <1>1, <1>2 DEF At, InPayload
  <1>4. Ended'
    BY <1>2, <1>3 DEF Ended
  <1>5. Types' /\ Delivered' /\ InPacket'
    BY <1>2 DEF HInv, Types, Delivered, InPacket
  <1>6. At(off)'
    BY <1>1, <1>2 DEF At, Layout, Between, InPreamble, InPayload
  <1>7. QED BY <1>4, <1>5, <1>6 DEF HInv

\* A read that fails leaves everything else as it is.
LEMMA ReadFailsKeeps == ASSUME HInv, ReadFails PROVE HInv'
  <1>1. PICK off : At(off)
    BY DEF HInv
  <1>2. /\ fatal' = "error" /\ sent' = sent /\ stream' = stream /\ arrived' = arrived
        /\ closed' = closed /\ consumed' = consumed /\ type' = type /\ st' = st
        /\ preamble' = preamble /\ packet' = packet /\ bytesRead' = bytesRead
        /\ remaining' = remaining /\ delivered' = delivered
    BY DEF ReadFails, line, packetizer
  <1>3. Types' /\ Ended' /\ Delivered' /\ InPacket'
    BY <1>2 DEF HInv, Types, Ended, Delivered, InPacket
  <1>4. At(off)'
    BY <1>1, <1>2 DEF At, Layout, Between, InPreamble, InPayload
  <1>5. QED BY <1>3, <1>4 DEF HInv

\* Bytes arrive.
LEMMA ArriveKeeps ==
  ASSUME HInv, fatal = "no", NEW n \in 1..(Len(stream) - arrived), Arrive(n) PROVE HInv'
  <1>1. PICK off : At(off)
    BY DEF HInv
  <1>2. /\ arrived + n <= Len(stream) /\ arrived' = arrived + n
        /\ fatal' = fatal /\ sent' = sent /\ stream' = stream
        /\ closed' = closed /\ consumed' = consumed /\ type' = type /\ st' = st
        /\ preamble' = preamble /\ packet' = packet /\ bytesRead' = bytesRead
        /\ remaining' = remaining /\ delivered' = delivered
    BY DEF Arrive, packetizer
  <1>3. Types'
    <2>1. n \in Nat
      BY DEF HInv, Types
    <2>2. QED BY <1>2, <2>1 DEF HInv, Types
  <1>4. Ended' /\ Delivered' /\ InPacket'
    BY <1>2 DEF HInv, Ended, Delivered, InPacket
  <1>5. At(off)'
    BY <1>1, <1>2 DEF At, Layout, Between, InPreamble, InPayload
  <1>6. QED BY <1>3, <1>4, <1>5 DEF HInv

\* The descriptor comes to its end.
LEMMA HangUpKeeps == ASSUME HInv, fatal = "no", HangUp PROVE HInv'
  <1>1. PICK off : At(off)
    BY DEF HInv
  <1>2. /\ arrived' = arrived /\ fatal' = fatal /\ sent' = sent /\ stream' = stream
        /\ consumed' = consumed /\ type' = type /\ st' = st
        /\ preamble' = preamble /\ packet' = packet /\ bytesRead' = bytesRead
        /\ remaining' = remaining /\ delivered' = delivered
    BY DEF HangUp, packetizer
  <1>3. Types' /\ Ended' /\ Delivered' /\ InPacket'
    BY <1>2 DEF HInv, Types, Ended, Delivered, InPacket
  <1>4. At(off)'
    BY <1>1, <1>2 DEF At, Layout, Between, InPreamble, InPayload
  <1>5. QED BY <1>3, <1>4 DEF HInv

\* Every step keeps the invariant.
LEMMA StepKeeps == ASSUME HInv, [Next]_vars PROVE HInv'
  <1>1. CASE Next
    <2>1. fatal = "no"
      BY <1>1 DEF Next
    <2>2. CASE ReadType
      BY <2>1, <2>2, ReadTypeKeeps
    <2>3. CASE ReadNothing
      BY <2>1, <2>3, ReadNothingKeeps
    <2>4. ASSUME NEW n \in 1..(arrived - consumed), ReadPreamble(n) PROVE HInv'
      BY <2>1, <2>4, ReadPreambleKeeps
    <2>5. ASSUME NEW n \in 1..(arrived - consumed), ReadPayload(n) PROVE HInv'
      BY <2>1, <2>5, ReadPayloadKeeps
    <2>6. CASE HangUp
      BY <2>1, <2>6, HangUpKeeps
    <2>7. ASSUME NEW n \in 1..(Len(stream) - arrived), Arrive(n) PROVE HInv'
      BY <2>1, <2>7, ArriveKeeps
    <2>8. CASE ReadFails
      BY <2>8, ReadFailsKeeps
    <2>9. QED BY <1>1, <2>2, <2>3, <2>4, <2>5, <2>6, <2>7, <2>8 DEF Next, OnDataReady
  <1>2. CASE UNCHANGED vars
    <2>1. PICK off : At(off)
      BY DEF HInv
    <2>2. Types' /\ Ended' /\ Delivered' /\ InPacket'
      BY <1>2 DEF HInv, Types, Ended, Delivered, InPacket, vars, line, packetizer
    <2>3. At(off)'
      BY <1>2, <2>1 DEF At, Layout, Between, InPreamble, InPayload, vars, line, packetizer
    <2>4. QED BY <2>2, <2>3 DEF HInv
  <1>3. QED BY <1>1, <1>2

\* Every reachable state satisfies the invariant.
LEMMA AlwaysHInv == Spec => []HInv
  BY InitHolds, StepKeeps, PTL DEF Spec

\* However the bytes of the controller are split over reads, of any number and any
\* lengths of packets, the callbacks get the packets that were sent, whole and in order
\* (H4Protocol::OnDataReady, HciPacketizer::OnDataReady).
THEOREM PacketsAreDelivered == Spec => []DeliveredInOrder
  <1>1. HInv => DeliveredInOrder
    <2> SUFFICES ASSUME HInv PROVE DeliveredInOrder
      OBVIOUS
    <2>1. PICK d \in Seq(Packets) : d = delivered
      BY DEF HInv, Types
    <2>2. PICK s \in Seq(Packets) : s = sent
      BY DEF HInv, Types
    <2>3. Len(d) <= Len(s) /\ \A i \in 1..Len(d) : d[i] = s[i]
      BY <2>1, <2>2 DEF HInv, Delivered
    <2>4. SubSeq(d, 1, Len(d)) = SubSeq(s, 1, Len(d))
      BY <2>3
    <2>5. QED BY <2>1, <2>2, <2>3, <2>4 DEF DeliveredInOrder, IsPrefix
  <1>2. QED BY <1>1, AlwaysHInv, PTL

\* When no payload is empty, the process never dies of a byte that is no packet type, and
\* of an unexpected end only when the descriptor is at its end (the LOG_ALWAYS_FATALs
\* of h4_protocol.cc and hci_packetizer.cc); what is left are reads that fail.
THEOREM DeathIsAtEof == 0 \notin Lengths => (Spec => []FatalOnlyAtEof)
  <1> SUFFICES ASSUME 0 \notin Lengths PROVE Spec => []FatalOnlyAtEof
    OBVIOUS
  <1>1. HInv => FatalOnlyAtEof
    BY DEF HInv, Ended, FatalOnlyAtEof
  <1>2. QED BY <1>1, AlwaysHInv, PTL
=============================================================================
