----------------------------- MODULE TransferOrder -----------------------------
(***************************************************************************)
(* Proofs about the order of the blocks in Transfer: what has arrived of a *)
(* chunk, what is on its way and what is still to be sent make up the      *)
(* chunk.                                                                  *)
(*                                                                         *)
(* The invariant this rests on says who has logged in, and what may still  *)
(* be in the queues of one who has died or has come back; then which       *)
(* orders (RequestChunk, StopChunk) are on their way to the sender, and    *)
(* what its transfers have left.                                           *)
(***************************************************************************)
EXTENDS TransferProofs

LOCAL INSTANCE SequencesExt

-----------------------------------------------------------------------------
(***************************************************************************)
(* Sequences of sequences.  What FlattenSeq computes is found by taking    *)
(* the least place where it would be wrong (LeastNumber).                  *)
(***************************************************************************)

\* FlattenSeq puts the sequences together one after the other.
LEMMA FlattenSteps ==
    ASSUME NEW T, NEW s \in Seq(Seq(T)), s # <<>>
    PROVE  \E f \in [1 .. Len(s) -> Seq(T)] :
              /\ f[1] = s[1]
              /\ \A i \in 2 .. Len(s) : f[i] = f[i - 1] \o s[i]
              /\ FlattenSeq(s) = f[Len(s)]
<1> DEFINE Sums(k, f) == f = [i \in 1 .. k |-> IF i = 1 THEN s[i] ELSE f[i - 1] \o s[i]]
<1>0. PICK n : n = Len(s)
  OBVIOUS
<1>1. n \in Nat /\ n >= 1 /\ \A i \in 1 .. n : s[i] \in Seq(T)
  BY <1>0
<1>2. \A k \in 1 .. n : \E f : Sums(k, f)
  <2> SUFFICES ASSUME NEW j \in 1 .. n, ~\E f : Sums(j, f) PROVE FALSE
    OBVIOUS
  <2>1. PICK B : B = {k \in 1 .. n : ~\E f : Sums(k, f)}
    OBVIOUS
  <2>2. PICK k \in B : \A m \in B : k <= m
    <3>1. j \in B
      BY <1>1, <2>1
    <3>2. B \in SUBSET Nat
      <4>1. \A k \in B : k \in 1 .. n
        BY <2>1, Zenon
      <4> QED BY <1>1, <4>1
    <3> QED BY <3>1, <3>2, LeastNumber
  <2>3. k \in 1 .. n /\ ~\E f : Sums(k, f)
    BY <2>1, <2>2
  <2>4. CASE k = 1
    <3>1. PICK g : g = [i \in 1 .. 1 |-> s[i]]
      OBVIOUS
    <3>2. Sums(1, g)
      BY <3>1
    <3> QED BY <2>3, <2>4, <3>2
  <2>5. CASE k # 1
    <3>1. k - 1 \in 1 .. n /\ k - 1 \notin B
      BY <1>1, <2>2, <2>3, <2>5
    <3>2. PICK f : Sums(k - 1, f)
      BY <2>1, <3>1
    <3>3. PICK g : g = [i \in 1 .. k |-> IF i < k THEN f[i] ELSE f[k - 1] \o s[k]]
      OBVIOUS
    <3>4. ASSUME NEW i \in 1 .. k PROVE g[i] = IF i = 1 THEN s[i] ELSE g[i - 1] \o s[i]
      <4>1. CASE i < k
        <5>1. i \in 1 .. k - 1 /\ (i # 1 => i - 1 \in 1 .. k /\ i - 1 < k)
          BY <2>3, <4>1
        <5>2. f[i] = IF i = 1 THEN s[i] ELSE f[i - 1] \o s[i]
          BY <3>2, <5>1
        <5> QED BY <3>3, <4>1, <5>1, <5>2
      <4>2. CASE i = k
        <5>1. k - 1 \in 1 .. k /\ k - 1 < k /\ k \in 1 .. k /\ ~(k < k)
          BY <2>3, <2>5
        <5>2. g[k] = f[k - 1] \o s[k]
          BY <3>3, <5>1
        <5>3. g[k - 1] = f[k - 1]
          BY <3>3, <5>1
        <5> QED BY <2>5, <4>2, <5>2, <5>3
      <4> QED BY <2>3, <4>1, <4>2
    <3>5. Sums(k, g)
      BY <3>3, <3>4
    <3> QED BY <2>3, <3>5
  <2> QED BY <2>4, <2>5
<1>3. PICK f : f = CHOOSE g : Sums(n, g)
  OBVIOUS
<1>4. Sums(n, f)
  <2>1. n \in 1 .. n
    BY <1>1
  <2>2. \E g : Sums(n, g)
    BY <1>2, <2>1
  <2> QED BY <1>3, <2>2
<1>5. FlattenSeq(s) = f[n]
  <2>1. Len(s) # 0
    BY <1>0, <1>1
  <2> QED BY <1>0, <1>3, <2>1 DEF FlattenSeq
<1>6. f[1] = s[1] /\ \A i \in 2 .. n : f[i] = f[i - 1] \o s[i]
  <2>1. 1 \in 1 .. n /\ \A i \in 2 .. n : i \in 1 .. n /\ i # 1
    BY <1>1
  <2>2. \A i \in 1 .. n : f[i] = IF i = 1 THEN s[i] ELSE f[i - 1] \o s[i]
    BY <1>4
  <2> QED BY <2>1, <2>2
<1>7. \A i \in 1 .. n : f[i] \in Seq(T)
  <2> SUFFICES ASSUME NEW j \in 1 .. n, f[j] \notin Seq(T) PROVE FALSE
    OBVIOUS
  <2>1. PICK B : B = {k \in 1 .. n : f[k] \notin Seq(T)}
    OBVIOUS
  <2>2. PICK k \in B : \A m \in B : k <= m
    <3>1. j \in B
      BY <1>1, <2>1
    <3>2. B \in SUBSET Nat
      BY <1>1, <2>1
    <3> QED BY <3>1, <3>2, LeastNumber
  <2>3. k \in 1 .. n /\ f[k] \notin Seq(T)
    BY <2>1, <2>2
  <2>4. CASE k = 1
    BY <1>1, <1>6, <2>3, <2>4
  <2>5. CASE k # 1
    <3>1. k - 1 \in 1 .. n /\ k - 1 \notin B /\ k \in 2 .. n
      BY <1>1, <2>2, <2>3, <2>5
    <3>2. f[k - 1] \in Seq(T) /\ s[k] \in Seq(T) /\ f[k] = f[k - 1] \o s[k]
      BY <1>1, <1>6, <2>1, <2>3, <3>1
    <3> QED BY <2>3, <3>2
  <2> QED BY <2>4, <2>5
<1>8. f \in [1 .. n -> Seq(T)]
  BY <1>4, <1>7
<1> QED BY <1>0, <1>5, <1>6, <1>8

\* What is appended comes last.
LEMMA FlattenAppend ==
    ASSUME NEW T, NEW s \in Seq(Seq(T)), NEW x \in Seq(T)
    PROVE  FlattenSeq(Append(s, x)) = FlattenSeq(s) \o x /\ FlattenSeq(s) \in Seq(T)
<1>1. PICK r : r = Append(s, x)
  OBVIOUS
<1>2. PICK n \in Nat : n = Len(s)
  OBVIOUS
<1>r. r \in Seq(Seq(T)) /\ Len(r) = n + 1 /\ r # <<>>
  BY <1>1, <1>2, AppendProperties
<1>3. /\ r \in Seq(Seq(T)) /\ r # <<>> /\ Len(r) = n + 1 /\ r[n + 1] = x
      /\ \A i \in 1 .. n : r[i] = s[i]
  BY <1>r, <1>1, <1>2, AppendProperties
<1>4. PICK g \in [1 .. n + 1 -> Seq(T)] :
         g[1] = r[1] /\ (\A i \in 2 .. n + 1 : g[i] = g[i - 1] \o r[i]) /\ FlattenSeq(r) = g[n + 1]
  <2>1. \E g \in [1 .. Len(r) -> Seq(T)] :
           g[1] = r[1] /\ (\A i \in 2 .. Len(r) : g[i] = g[i - 1] \o r[i]) /\ FlattenSeq(r) = g[Len(r)]
    BY <1>r, FlattenSteps
  <2> QED BY <1>r, <2>1, Zenon
<1>5. CASE n = 0
  <2>1. s = <<>> /\ Len(s) = 0
    BY <1>2, <1>5, EmptySeq
  <2>3. FlattenSeq(s) = <<>>
    BY <2>1 DEF FlattenSeq
  <2>2. FlattenSeq(r) = x
    BY <1>3, <1>4, <1>5
  <2>4. <<>> \o x = x /\ <<>> \in Seq(T)
    BY ConcatEmptySeq
  <2> QED BY <1>1, <2>2, <2>3, <2>4
<1>6. CASE n # 0
  <2>1. s # <<>>
    BY <1>2, <1>6
  <2>2. PICK f \in [1 .. n -> Seq(T)] :
           f[1] = s[1] /\ (\A i \in 2 .. n : f[i] = f[i - 1] \o s[i]) /\ FlattenSeq(s) = f[n]
    BY <1>2, <2>1, FlattenSteps
  <2>3. \A i \in 1 .. n : g[i] = f[i]
    <3> SUFFICES ASSUME NEW j \in 1 .. n, g[j] # f[j] PROVE FALSE
      OBVIOUS
    <3>1. PICK B : B = {k \in 1 .. n : g[k] # f[k]}
      OBVIOUS
    <3>2. PICK k \in B : \A m \in B : k <= m
      <4>1. j \in B
        BY <3>1
      <4>2. B \in SUBSET Nat
        BY <3>1
      <4> QED BY <4>1, <4>2, LeastNumber
    <3>3. k \in 1 .. n /\ g[k] # f[k]
      BY <3>1, <3>2
    <3>4. k # 1
      BY <1>3, <1>4, <2>2, <3>3
    <3>5. k - 1 \in 1 .. n /\ k - 1 \notin B /\ k \in 2 .. n /\ k \in 2 .. n + 1
      BY <3>2, <3>3, <3>4
    <3>6. g[k - 1] = f[k - 1] /\ r[k] = s[k]
      BY <1>3, <3>1, <3>3, <3>5
    <3>7. g[k] = g[k - 1] \o r[k] /\ f[k] = f[k - 1] \o s[k]
      BY <1>4, <2>2, <3>5
    <3> QED BY <3>3, <3>6, <3>7
  <2>4. n \in 1 .. n /\ n + 1 \in 2 .. n + 1 /\ (n + 1) - 1 = n
    BY <1>6
  <2>5. g[n + 1] = g[n] \o r[n + 1]
    BY <1>4, <2>4
  <2>6. g[n + 1] = f[n] \o x /\ f[n] \in Seq(T)
    BY <1>3, <2>2, <2>3, <2>4, <2>5
  <2> QED BY <1>1, <1>4, <2>2, <2>6
<1> QED BY <1>5, <1>6

\* What is at the head comes first.
LEMMA FlattenHead ==
    ASSUME NEW T, NEW s \in Seq(Seq(T)), s # <<>>
    PROVE  FlattenSeq(s) = Head(s) \o FlattenSeq(Tail(s))
<1>0. \A a, b, c \in Seq(T) : (a \o b) \o c = a \o (b \o c)
  <2> TAKE a, b, c \in Seq(T)
  <2> QED OBVIOUS
<1>1. PICK r : r = Tail(s)
  OBVIOUS
<1>r. r \in Seq(Seq(T))
  BY <1>1
<1>2. PICK n \in Nat : n = Len(r)
  BY <1>r
<1>3. /\ r \in Seq(Seq(T)) /\ Len(s) = n + 1 /\ Head(s) = s[1] /\ s[1] \in Seq(T)
      /\ \A i \in 1 .. n : r[i] = s[i + 1] /\ r[i] \in Seq(T)
  BY <1>r, <1>1, <1>2
<1>4. PICK g \in [1 .. n + 1 -> Seq(T)] :
         g[1] = s[1] /\ (\A i \in 2 .. n + 1 : g[i] = g[i - 1] \o s[i]) /\ FlattenSeq(s) = g[n + 1]
  <2>1. \E g \in [1 .. Len(s) -> Seq(T)] :
           g[1] = s[1] /\ (\A i \in 2 .. Len(s) : g[i] = g[i - 1] \o s[i]) /\ FlattenSeq(s) = g[Len(s)]
    BY FlattenSteps
  <2> QED BY <1>3, <2>1, Zenon
<1>5. CASE n = 0
  <2>1. r = <<>> /\ Len(r) = 0
    BY <1>r, <1>2, <1>5, EmptySeq
  <2>2. FlattenSeq(r) = <<>>
    BY <2>1 DEF FlattenSeq
  <2>3. s[1] \o <<>> = s[1]
    BY <1>3, ConcatEmptySeq
  <2> QED BY <1>1, <1>3, <1>4, <1>5, <2>2, <2>3
<1>6. CASE n # 0
  <2>1. r # <<>>
    BY <1>2, <1>6
  <2>2. PICK f \in [1 .. n -> Seq(T)] :
           f[1] = r[1] /\ (\A i \in 2 .. n : f[i] = f[i - 1] \o r[i]) /\ FlattenSeq(r) = f[n]
    BY <1>2, <1>3, <2>1, FlattenSteps
  <2>3. \A i \in 1 .. n : g[i + 1] = s[1] \o f[i]
    <3> SUFFICES ASSUME NEW j \in 1 .. n, g[j + 1] # s[1] \o f[j] PROVE FALSE
      OBVIOUS
    <3>1. PICK B : B = {k \in 1 .. n : g[k + 1] # s[1] \o f[k]}
      OBVIOUS
    <3>2. PICK k \in B : \A m \in B : k <= m
      <4>1. j \in B
        BY <3>1
      <4>2. B \in SUBSET Nat
        BY <3>1
      <4> QED BY <4>1, <4>2, LeastNumber
    <3>3. k \in 1 .. n /\ g[k + 1] # s[1] \o f[k]
      BY <3>1, <3>2
    <3>4. k + 1 \in 2 .. n + 1 /\ (k + 1) - 1 = k
      BY <3>3
    <3>5. g[k + 1] = g[k] \o s[k + 1] /\ r[k] = s[k + 1]
      BY <1>3, <1>4, <3>3, <3>4
    <3>6. CASE k = 1
      BY <1>4, <2>2, <3>3, <3>5, <3>6
    <3>7. CASE k # 1
      <4>1. k - 1 \in 1 .. n /\ k - 1 \notin B /\ k \in 2 .. n /\ (k - 1) + 1 = k
        BY <3>2, <3>3, <3>7
      <4>2. g[k] = s[1] \o f[k - 1]
        BY <3>1, <4>1
      <4>3. f[k] = f[k - 1] \o r[k]
        BY <2>2, <4>1
      <4>4. f[k - 1] \in Seq(T) /\ r[k] \in Seq(T) /\ s[1] \in Seq(T)
        BY <1>3, <2>2, <3>3, <4>1
      <4>5. (s[1] \o f[k - 1]) \o r[k] = s[1] \o (f[k - 1] \o r[k])
        BY <1>0, <4>4
      <4> QED BY <3>3, <3>5, <4>2, <4>3, <4>5
    <3> QED BY <3>6, <3>7
  <2>4. n \in 1 .. n
    BY <1>6
  <2> QED BY <1>1, <1>3, <1>4, <2>2, <2>3, <2>4
<1> QED BY <1>5, <1>6

\* What the function F makes of the elements of s, one after the other.
Gather(F, s) == FlattenSeq([i \in DOMAIN s |-> F[s[i]]])

\* It consists of what F makes of each of them.
LEMMA GatherType ==
    ASSUME NEW T, NEW U, NEW s \in Seq(U), NEW F, \A i \in DOMAIN s : F[s[i]] \in Seq(T)
    PROVE  Gather(F, s) \in Seq(T)
<1>1. PICK d : d = [i \in DOMAIN s |-> F[s[i]]]
  OBVIOUS
<1>2. PICK V : V = Seq(T)
  OBVIOUS
<1>3. d \in Seq(V)
  <2>1. PICK n \in Nat : DOMAIN s = 1 .. n
    OBVIOUS
  <2>2. d \in [1 .. n -> V]
    BY <1>1, <1>2, <2>1
  <2> QED BY <2>2
<1>4. d \in Seq(Seq(T)) /\ <<>> \in Seq(T)
  BY <1>2, <1>3
<1>5. FlattenSeq(d) \in Seq(T)
  BY <1>4, FlattenAppend
<1> QED BY <1>1, <1>5 DEF Gather

\* Gather, message by message: none, one more at the end, one less in front.
Gathers(T, U, F, s) ==
    /\ Gather(F, s) \in Seq(T)
    /\ s = <<>> => Gather(F, s) = <<>>
    /\ \A x \in U : Gather(F, Append(s, x)) = Gather(F, s) \o F[x]
    /\ s # <<>> => Gather(F, s) = F[Head(s)] \o Gather(F, Tail(s))

\* A function that makes sequences of messages gathers sequences.
LEMMA GatherFacts ==
    ASSUME NEW T, NEW U, NEW F \in [U -> Seq(T)], NEW s \in Seq(U)
    PROVE  Gathers(T, U, F, s)
<1>1. PICK V : V = Seq(T)
  OBVIOUS
<1>2. PICK d : d = [i \in DOMAIN s |-> F[s[i]]]
  OBVIOUS
<1>3. PICK n \in Nat : n = Len(s) /\ DOMAIN s = 1 .. n
  OBVIOUS
<1>4. F \in [U -> V] /\ \A i \in 1 .. n : s[i] \in U
  BY <1>1, <1>3
<1>5. d \in [1 .. n -> V]
  BY <1>2, <1>3, <1>4
<1>6. d \in Seq(V) /\ Len(d) = n
  BY <1>5
<1>7. d \in Seq(Seq(T))
  BY <1>1, <1>6
<1>8. Gather(F, s) = FlattenSeq(d)
  BY <1>2 DEF Gather
<1>9. Gather(F, s) \in Seq(T)
  <2>1. <<>> \in Seq(T)
    OBVIOUS
  <2> QED BY <1>7, <1>8, <2>1, FlattenAppend
<1>10. ASSUME s = <<>> PROVE Gather(F, s) = <<>>
  <2>1. d = <<>> /\ Len(d) = 0
    BY <1>3, <1>6, <1>10
  <2> QED BY <1>8, <2>1 DEF FlattenSeq
<1>11. ASSUME NEW x \in U PROVE Gather(F, Append(s, x)) = Gather(F, s) \o F[x]
  <2>1. PICK r : r = Append(s, x)
    OBVIOUS
  <2>2. /\ DOMAIN r = 1 .. n + 1 /\ r[n + 1] = x
        /\ \A i \in 1 .. n : r[i] = s[i]
    BY <1>3, <2>1, AppendProperties
  <2>3. PICK v \in V : v = F[x]
    BY <1>4
  <2>4. PICK a : a = Append(d, v)
    OBVIOUS
  <2>5. /\ a \in Seq(V) /\ Len(a) = n + 1 /\ a[n + 1] = v
        /\ \A i \in 1 .. n : a[i] = d[i]
    BY <1>6, <2>4, AppendProperties
  <2>6. a = [i \in DOMAIN r |-> F[r[i]]]
    <3>1. DOMAIN a = 1 .. n + 1
      BY <2>5
    <3>2. ASSUME NEW i \in 1 .. n + 1 PROVE a[i] = F[r[i]]
      <4>1. CASE i = n + 1
        BY <2>2, <2>3, <2>5, <4>1
      <4>2. CASE i # n + 1
        <5>1. i \in 1 .. n
          BY <4>2
        <5> QED BY <1>2, <1>3, <2>2, <2>5, <5>1
      <4> QED BY <4>1, <4>2
    <3>3. a = [i \in 1 .. n + 1 |-> a[i]]
      BY <2>5
    <3> QED BY <2>2, <3>2, <3>3
  <2>7. v \in Seq(T)
    BY <1>1, <2>3
  <2>8. FlattenSeq(Append(d, v)) = FlattenSeq(d) \o v
    BY <1>7, <2>7, FlattenAppend
  <2> QED BY <1>8, <2>1, <2>3, <2>4, <2>6, <2>8 DEF Gather
<1>12. ASSUME s # <<>> PROVE Gather(F, s) = F[Head(s)] \o Gather(F, Tail(s))
  <2>1. PICK r : r = Tail(s)
    OBVIOUS
  <2>2. /\ n # 0 /\ DOMAIN r = 1 .. n - 1 /\ 1 \in 1 .. n
        /\ \A i \in 1 .. n - 1 : r[i] = s[i + 1] /\ i + 1 \in 1 .. n
        /\ Head(s) = s[1]
    BY <1>3, <1>12, <2>1
  <2>3. PICK a : a = Tail(d)
    OBVIOUS
  <2>4. /\ d # <<>> /\ Head(d) = d[1]
        /\ a \in Seq(V) /\ Len(a) = n - 1
        /\ \A i \in 1 .. n - 1 : a[i] = d[i + 1]
    BY <1>6, <2>2, <2>3
  <2>5. a = [i \in DOMAIN r |-> F[r[i]]]
    <3>1. ASSUME NEW i \in 1 .. n - 1 PROVE a[i] = F[r[i]]
      BY <1>2, <1>3, <2>2, <2>4
    <3>2. a = [i \in 1 .. n - 1 |-> a[i]]
      BY <2>2, <2>4
    <3> QED BY <2>2, <3>1, <3>2
  <2>6. FlattenSeq(d) = Head(d) \o FlattenSeq(a)
    BY <1>7, <2>3, <2>4, FlattenHead
  <2>7. Head(d) = F[Head(s)]
    BY <1>2, <1>3, <2>2, <2>4
  <2> QED BY <1>8, <2>1, <2>5, <2>6, <2>7 DEF Gather
<1> QED BY <1>9, <1>10, <1>11, <1>12 DEF Gathers

-----------------------------------------------------------------------------
(***************************************************************************)
(* Messages on their way, in order.                                        *)
(***************************************************************************)

\* The blocks among messages.
LEMMA BlocksFacts ==
    ASSUME NEW s \in Seq(Wire)
    PROVE  /\ Blocks(s) \in Seq(Byte)
           /\ s = <<>> => Blocks(s) = <<>>
           /\ \A m \in Wire : Block(m) \in Seq(Byte) /\ Blocks(Append(s, m)) = Blocks(s) \o Block(m)
           /\ s # <<>> => Blocks(s) = Block(Head(s)) \o Blocks(Tail(s))
<1>1. PICK F : F = [m \in Wire |-> Block(m)]
  OBVIOUS
<1>2. \A m \in Wire : Block(m) \in Seq(Byte)
  BY WireFacts DEF Block
<1>3. F \in [Wire -> Seq(Byte)] /\ \A m \in Wire : F[m] = Block(m)
  BY <1>1, <1>2
<1>4. ASSUME NEW r \in Seq(Wire) PROVE Blocks(r) = Gather(F, r)
  <2>1. \A i \in DOMAIN r : r[i] \in Wire
    OBVIOUS
  <2>2. [i \in DOMAIN r |-> Block(r[i])] = [i \in DOMAIN r |-> F[r[i]]]
    BY <1>3, <2>1
  <2> QED BY <2>2 DEF Blocks, Gather
<1>5. \A m \in Wire : Append(s, m) \in Seq(Wire)
  OBVIOUS
<1>6. s # <<>> => Head(s) \in Wire /\ Tail(s) \in Seq(Wire)
  OBVIOUS
<1>7. /\ Gather(F, s) \in Seq(Byte)
      /\ s = <<>> => Gather(F, s) = <<>>
      /\ \A m \in Wire : Gather(F, Append(s, m)) = Gather(F, s) \o F[m]
      /\ s # <<>> => Gather(F, s) = F[Head(s)] \o Gather(F, Tail(s))
  <2>1. Gathers(Byte, Wire, F, s)
    BY <1>3, GatherFacts
  <2> QED BY <2>1 DEF Gathers
<1>8. \A m \in Wire : Blocks(Append(s, m)) = Gather(F, Append(s, m))
  BY <1>4, <1>5
<1>9. s # <<>> => Blocks(Tail(s)) = Gather(F, Tail(s))
  BY <1>4, <1>6
<1>10. Blocks(s) = Gather(F, s)
  BY <1>4
<1> QED BY <1>2, <1>3, <1>6, <1>7, <1>8, <1>9, <1>10

\* The receiver's requests, and its wishes that there be no more.
Order(m) == IF m.type \in {"RequestChunk", "StopChunk"} THEN <<m>> ELSE <<>>

Orders(s) == Gather([m \in Wire |-> Order(m)], s)

\* Orders, message by message.
LEMMA OrdersFacts ==
    ASSUME NEW s \in Seq(Wire)
    PROVE  /\ Orders(s) \in Seq(Wire)
           /\ s = <<>> => Orders(s) = <<>>
           /\ \A m \in Wire : Order(m) \in Seq(Wire) /\ Orders(Append(s, m)) = Orders(s) \o Order(m)
           /\ s # <<>> => Orders(s) = Order(Head(s)) \o Orders(Tail(s))
<1>1. PICK F : F = [m \in Wire |-> Order(m)]
  OBVIOUS
<1>2. \A m \in Wire : Order(m) \in Seq(Wire)
  BY DEF Order
<1>3. F \in [Wire -> Seq(Wire)] /\ \A m \in Wire : F[m] = Order(m)
  BY <1>1, <1>2
<1>4. s # <<>> => Head(s) \in Wire
  OBVIOUS
<1>5. /\ Gather(F, s) \in Seq(Wire)
      /\ s = <<>> => Gather(F, s) = <<>>
      /\ \A m \in Wire : Gather(F, Append(s, m)) = Gather(F, s) \o F[m]
      /\ s # <<>> => Gather(F, s) = F[Head(s)] \o Gather(F, Tail(s))
  <2>1. PICK T : T = Wire
    OBVIOUS
  <2>2. F \in [Wire -> Seq(T)]
    BY <1>3, <2>1
  <2>3. Gathers(T, Wire, F, s)
    BY <2>1, <2>2, GatherFacts
  <2> QED BY <2>1, <2>3 DEF Gathers
<1> QED BY <1>1, <1>2, <1>3, <1>4, <1>5 DEF Orders

\* If none of the messages is of a type, none of the orders is.
LEMMA OrdersType ==
    ASSUME NEW s \in Seq(Wire), NEW type, \A i \in DOMAIN s : s[i].type # type
    PROVE  Orders(s) \in Seq({m \in Wire : m.type # type})
<1>1. PICK F : F = [m \in Wire |-> Order(m)]
  OBVIOUS
<1>2. PICK T : T = {m \in Wire : m.type # type}
  OBVIOUS
<1>3. ASSUME NEW i \in DOMAIN s PROVE F[s[i]] \in Seq(T)
  <2>1. PICK m \in Wire : m = s[i]
    OBVIOUS
  <2>2. m \in T /\ F[m] = Order(m)
    BY <1>1, <1>2, <2>1
  <2>3. <<m>> \in Seq(T) /\ <<>> \in Seq(T)
    BY <2>2
  <2> QED BY <2>1, <2>2, <2>3 DEF Order
<1>4. Gather(F, s) \in Seq(T)
  BY <1>3, GatherType
<1> QED BY <1>1, <1>2, <1>4 DEF Orders

\* Without a block among the messages there are no blocks.
LEMMA NoBlocks ==
    ASSUME NEW s \in Seq(Wire), \A i \in DOMAIN s : s[i].type # "TransmitChunk"
    PROVE  Blocks(s) = <<>>
<1>1. PICK F : F = [m \in Wire |-> Block(m)]
  OBVIOUS
<1>2. ASSUME NEW i \in DOMAIN s PROVE s[i] \in Wire /\ F[s[i]] = <<>>
  BY <1>1, <1>2 DEF Block
<1>3. PICK T : T = {}
  OBVIOUS
<1>4. Gather(F, s) \in Seq(T)
  <2>1. <<>> \in Seq(T)
    OBVIOUS
  <2>2. \A i \in DOMAIN s : F[s[i]] \in Seq(T)
    BY <1>2, <2>1
  <2> QED BY <2>2, GatherType
<1>5. Gather(F, s) = <<>>
  BY <1>3, <1>4
<1>6. [i \in DOMAIN s |-> Block(s[i])] = [i \in DOMAIN s |-> F[s[i]]]
  BY <1>1, <1>2
<1> QED BY <1>5, <1>6 DEF Gather, Blocks

\* What packets or events carry.
LEMMA PayloadsFacts ==
    ASSUME NEW U, NEW s \in Seq(U), \A x \in U : x.message \in Wire
    PROVE  /\ Payloads(s) \in Seq(Wire)
           /\ s = <<>> <=> Payloads(s) = <<>>
           /\ DOMAIN Payloads(s) = DOMAIN s
           /\ \A i \in DOMAIN s : Payloads(s)[i] = s[i].message
           /\ \A x \in U : Payloads(Append(s, x)) = Append(Payloads(s), x.message)
           /\ s # <<>> => /\ Head(Payloads(s)) = Head(s).message
                          /\ Payloads(Tail(s)) = Tail(Payloads(s))
<1>1. PICK n \in Nat : n = Len(s) /\ DOMAIN s = 1 .. n
  OBVIOUS
<1>2. PICK d : d = Payloads(s)
  OBVIOUS
<1>3. d = [i \in 1 .. n |-> s[i].message]
  BY <1>1, <1>2 DEF Payloads
<1>4. \A i \in 1 .. n : s[i] \in U
  BY <1>1
<1>5. d \in [1 .. n -> Wire]
  BY <1>3, <1>4
<1>6. d \in Seq(Wire) /\ Len(d) = n /\ DOMAIN d = 1 .. n
  BY <1>5
<1>7. s = <<>> <=> d = <<>>
  BY <1>1, <1>6
<1>8. \A i \in 1 .. n : d[i] = s[i].message
  BY <1>3
<1>9. ASSUME NEW x \in U PROVE Payloads(Append(s, x)) = Append(d, x.message)
  <2>1. PICK r : r = Append(s, x)
    OBVIOUS
  <2>2. /\ DOMAIN r = 1 .. n + 1 /\ r[n + 1] = x
        /\ \A i \in 1 .. n : r[i] = s[i]
    BY <1>1, <2>1, AppendProperties
  <2>3. PICK m \in Wire : m = x.message
    OBVIOUS
  <2>4. PICK a : a = Append(d, m)
    OBVIOUS
  <2>5. /\ a \in Seq(Wire) /\ Len(a) = n + 1 /\ a[n + 1] = m
        /\ \A i \in 1 .. n : a[i] = d[i]
    BY <1>6, <2>4, AppendProperties
  <2>6. ASSUME NEW i \in 1 .. n + 1 PROVE a[i] = r[i].message
    <3>1. CASE i = n + 1
      BY <2>2, <2>3, <2>5, <3>1
    <3>2. CASE i # n + 1
      <4>1. i \in 1 .. n
        BY <3>2
      <4> QED BY <1>8, <2>2, <2>5, <4>1
    <3> QED BY <3>1, <3>2
  <2>7. a = [i \in 1 .. n + 1 |-> a[i]]
    BY <2>5
  <2>8. a = [i \in 1 .. n + 1 |-> r[i].message]
    BY <2>6, <2>7
  <2> QED BY <2>1, <2>2, <2>3, <2>4, <2>8 DEF Payloads
<1>10. ASSUME s # <<>> PROVE Head(d) = Head(s).message /\ Payloads(Tail(s)) = Tail(d)
  <2>1. PICK r : r = Tail(s)
    OBVIOUS
  <2>2. /\ n # 0 /\ DOMAIN r = 1 .. n - 1 /\ 1 \in 1 .. n
        /\ \A i \in 1 .. n - 1 : r[i] = s[i + 1] /\ i + 1 \in 1 .. n
        /\ Head(s) = s[1]
    BY <1>1, <1>10, <2>1
  <2>3. PICK a : a = Tail(d)
    OBVIOUS
  <2>4. /\ Head(d) = d[1]
        /\ a \in Seq(Wire) /\ Len(a) = n - 1
        /\ \A i \in 1 .. n - 1 : a[i] = d[i + 1]
    BY <1>6, <2>2, <2>3
  <2>5. ASSUME NEW i \in 1 .. n - 1 PROVE a[i] = r[i].message
    BY <1>8, <2>2, <2>4
  <2>6. a = [i \in 1 .. n - 1 |-> a[i]]
    BY <2>2, <2>4
  <2>7. a = [i \in 1 .. n - 1 |-> r[i].message]
    BY <2>5, <2>6
  <2> QED BY <1>8, <2>1, <2>2, <2>3, <2>4, <2>7 DEF Payloads
<1> QED BY <1>1, <1>2, <1>6, <1>7, <1>8, <1>9, <1>10

-----------------------------------------------------------------------------
(***************************************************************************)
(* Connections.                                                            *)
(***************************************************************************)

\* Moving the head of a queue to the end of what stands before it leaves the two
\* together as they were.
LEMMA HeadMoves ==
    ASSUME NEW T, NEW a \in Seq(T), NEW b \in Seq(T), b # <<>>
    PROVE  Append(a, Head(b)) \o Tail(b) = a \o b
OBVIOUS

\* Sequences put together.
LEMMA ConcatFacts ==
    ASSUME NEW T, NEW a \in Seq(T), NEW b \in Seq(T)
    PROVE  /\ a \o b \in Seq(T)
           /\ a \o <<>> = a /\ <<>> \o a = a
           /\ a \o b = <<>> => a = <<>> /\ b = <<>>
           /\ b # <<>> => Append(a, Head(b)) \o Tail(b) = a \o b
<1>1. a \o b \in Seq(T) /\ a \o <<>> = a /\ <<>> \o a = a
  OBVIOUS
<1>2. a \o b = <<>> => a = <<>> /\ b = <<>>
  BY ConcatEqualIffEmpty
<1>3. b # <<>> => Append(a, Head(b)) \o Tail(b) = a \o b
  BY HeadMoves
<1> QED BY <1>1, <1>2, <1>3

\* Two that make up a sequence of one.
LEMMA ConcatOne ==
    ASSUME NEW T, NEW a \in Seq(T), NEW b \in Seq(T), NEW x, a \o b = <<x>>, a # <<>>
    PROVE  a = <<x>> /\ b = <<>>
<1>1. Len(a) + Len(b) = 1 /\ Len(a) \in Nat /\ Len(b) \in Nat
  <2>1. Len(a \o b) = Len(a) + Len(b)
    OBVIOUS
  <2>2. Len(<<x>>) = 1
    OBVIOUS
  <2> QED BY <2>1, <2>2
<1>2. Len(a) # 0
  OBVIOUS
<1>3. Len(b) = 0
  <2>1. PICK n \in Nat, k \in Nat : n = Len(a) /\ k = Len(b)
    BY <1>1
  <2> QED BY <1>1, <1>2, <2>1
<1>4. b = <<>>
  BY <1>3
<1>5. a \o <<>> = a
  OBVIOUS
<1> QED BY <1>4, <1>5

\* What is appended stays last.
LEMMA AppendedLast ==
    ASSUME NEW T, NEW s \in Seq(T), NEW x \in T
    PROVE  /\ Append(s, x) # <<>>
           /\ s = <<>> => Head(Append(s, x)) = x /\ Tail(Append(s, x)) = <<>>
           /\ s # <<>> => /\ Head(Append(s, x)) = Head(s)
                          /\ Tail(s) \in Seq(T) /\ Tail(Append(s, x)) = Append(Tail(s), x)
<1>1. Append(s, x) # <<>>
  BY AppendProperties
<1>2. s = <<>> => Head(Append(s, x)) = x /\ Tail(Append(s, x)) = <<>>
  OBVIOUS
<1>3. s # <<>> => Head(Append(s, x)) = Head(s)
  OBVIOUS
<1>4. s # <<>> => Tail(s) \in Seq(T) /\ Tail(Append(s, x)) = Append(Tail(s), x)
  OBVIOUS
<1> QED BY <1>1, <1>2, <1>3, <1>4

\* What the server has not handled yet of what the client r sent, in box.
SaidIn(r, box) == Gather([x \in Packet |-> IF x.from = r THEN <<x.message>> ELSE <<>>], box)

\* What r has said, message by message.
LEMMA SaidFacts ==
    ASSUME NEW r \in Role, NEW box \in Seq(Packet)
    PROVE  /\ SaidIn(r, box) \in Seq(Wire)
           /\ box = <<>> => SaidIn(r, box) = <<>>
           /\ \A x \in Packet :
                 SaidIn(r, Append(box, x)) = IF x.from = r THEN Append(SaidIn(r, box), x.message)
                                             ELSE SaidIn(r, box)
           /\ box # <<>> =>
                 IF Head(box).from = r
                 THEN /\ SaidIn(r, box) # <<>> /\ Head(SaidIn(r, box)) = Head(box).message
                      /\ SaidIn(r, Tail(box)) = Tail(SaidIn(r, box))
                 ELSE SaidIn(r, Tail(box)) = SaidIn(r, box)
<1>1. PICK F : F = [x \in Packet |-> IF x.from = r THEN <<x.message>> ELSE <<>>]
  OBVIOUS
<1>2. ASSUME NEW x \in Packet PROVE x.message \in Wire /\ F[x] \in Seq(Wire)
  <2>1. x.message \in Wire
    BY DEF Packet
  <2>2. <<x.message>> \in Seq(Wire) /\ <<>> \in Seq(Wire)
    BY <2>1
  <2> QED BY <1>1, <2>1, <2>2
<1>3. F \in [Packet -> Seq(Wire)]
  BY <1>1, <1>2
<1>4. /\ Gather(F, box) \in Seq(Wire)
      /\ box = <<>> => Gather(F, box) = <<>>
      /\ \A x \in Packet : Gather(F, Append(box, x)) = Gather(F, box) \o F[x]
      /\ box # <<>> => Gather(F, box) = F[Head(box)] \o Gather(F, Tail(box))
  <2>1. PICK T : T = Wire
    OBVIOUS
  <2>2. F \in [Packet -> Seq(T)]
    BY <1>3, <2>1
  <2>3. PICK U : U = Packet
    OBVIOUS
  <2>4. F \in [U -> Seq(T)] /\ box \in Seq(U)
    BY <2>2, <2>3
  <2>5. Gathers(T, U, F, box)
    BY <2>4, GatherFacts
  <2> QED BY <2>1, <2>3, <2>5 DEF Gathers
<1>5. \A c : SaidIn(r, c) = Gather(F, c)
  BY <1>1 DEF SaidIn
<1>6. PICK g \in Seq(Wire) : g = Gather(F, box)
  BY <1>4
<1>7. ASSUME NEW x \in Packet
      PROVE  Gather(F, Append(box, x)) = IF x.from = r THEN Append(g, x.message) ELSE g
  <2>1. PICK m \in Wire : m = x.message
    BY <1>2
  <2>2. g \o <<m>> = Append(g, m) /\ g \o <<>> = g
    OBVIOUS
  <2>3. F[x] = IF x.from = r THEN <<m>> ELSE <<>>
    BY <1>1, <2>1
  <2> QED BY <1>4, <1>6, <2>1, <2>2, <2>3
<1>8. ASSUME box # <<>>
      PROVE  IF Head(box).from = r
             THEN g # <<>> /\ Head(g) = Head(box).message /\ Gather(F, Tail(box)) = Tail(g)
             ELSE Gather(F, Tail(box)) = g
  <2>1. Head(box) \in Packet /\ Tail(box) \in Seq(Packet)
    BY <1>8
  <2>2. PICK m \in Wire : m = Head(box).message
    BY <1>2, <2>1
  <2>3. PICK h \in Seq(Wire) : h = Gather(F, Tail(box))
    <3>1. PICK T : T = Wire
      OBVIOUS
    <3>2. F \in [Packet -> Seq(T)]
      BY <1>3, <3>1
    <3>3. PICK U : U = Packet
      OBVIOUS
    <3>4. F \in [U -> Seq(T)] /\ Tail(box) \in Seq(U)
      BY <2>1, <3>2, <3>3
    <3>5. Gathers(T, U, F, Tail(box))
      BY <3>4, GatherFacts
    <3> QED BY <3>1, <3>5 DEF Gathers
  <2>4. F[Head(box)] = IF Head(box).from = r THEN <<m>> ELSE <<>>
    BY <1>1, <2>1, <2>2
  <2>5. g = F[Head(box)] \o h
    BY <1>4, <1>6, <1>8, <2>3
  <2>6. <<m>> \o h # <<>> /\ Head(<<m>> \o h) = m /\ Tail(<<m>> \o h) = h /\ <<>> \o h = h
    OBVIOUS
  <2> QED BY <2>2, <2>3, <2>4, <2>5, <2>6
<1> QED BY <1>4, <1>5, <1>6, <1>7, <1>8

\* What a client has sent and what it is going to send.
Said(r) == SaidIn(r, inbox)

Queue(r) == IF r = "Receiver" THEN up ELSE Payloads(events)

StateOf(r) == IF r = "Receiver" THEN state ELSE sender_state

\* Nothing goes on in r that would make it send something.
Idling(r) == IF r = "Receiver" THEN logged_in = 0 ELSE tasks = [t \in Task |-> NoTask]

\* There are no jobs in a transfer, so all events are messages to be sent.
Sending == [kind : {"SendMessage"}, message : S!Payload]

\* A client that has died, or has not logged in since, has nothing to send.
LifeInv ==
    /\ ~torn
    /\ events \in Seq(Sending)
    /\ \A r \in Role : StateOf(r) \in {"None", "Crashed"} => Queue(r) = <<>> /\ Idling(r)

Ordinary == {m \in Wire : m.type \notin {"Login", "ClientDisconnected"}}

\* A connection as the server knows it: who is logged in does not log in again,
\* who has connected anew has sent nothing but its Login, and the end of a
\* connection is the last of what is left of it.
GoodConn(r) ==
    /\ conn[r] = "in" => Said(r) \in Seq(Ordinary) /\ Queue(r) \in Seq(Ordinary)
    /\ conn[r] = "open" =>
          /\ Idling(r)
          /\ \/ StateOf(r) = "None" /\ Said(r) \o Queue(r) = <<>>
             \/ StateOf(r) = "Initializing" /\ Said(r) \o Queue(r) = <<[type |-> "Login"]>>
    /\ conn[r] = "dead" =>
          \E s \in Seq(Ordinary) : Said(r) = Append(s, [type |-> "ClientDisconnected"])
    /\ conn[r] = "out" => Said(r) = <<>>
    /\ conn[r] # "in" => outgoing[r] = <<>>

ConnInv == \A r \in Role : GoodConn(r)

\* The types of what the clients are going to send.
LEMMA QueueTypes ==
    ASSUME TypeOK, LifeInv
    PROVE  \A r \in Role : Queue(r) \in Seq(Wire)
<1>1. up \in Seq(Wire)
  <2>1. Message \subseteq Wire
    BY DEF Wire
  <2> QED BY <2>1 DEF TypeOK
<1>2. Payloads(events) \in Seq(Wire)
  <2>1. \A x \in Sending : x.message \in Wire
    BY DEF Sending, Wire
  <2> QED BY <2>1, PayloadsFacts DEF LifeInv
<1> QED BY <1>1, <1>2 DEF Queue

\* The receiver's share of LifeInv.
ReceiverLife == ~torn /\ (state \in {"None", "Crashed"} => up = <<>> /\ logged_in = 0)

\* Every step of the receiver keeps ReceiverLife.
LEMMA ReceiverLives ==
    ASSUME ReceiverLife, ReceiverActs \/ UNCHANGED vars
    PROVE  ReceiverLife'
<1>t. ~SaveMayTear
  BY TransferAssumption
<1>d. ASSUME Die, UNCHANGED torn PROVE ReceiverLife'
  BY <1>d DEF Die, ReceiverLife
<1>n. ~DieInSave
  BY <1>t DEF DieInSave
<1>r. ASSUME state' \in {"Initializing", "Idle", "RequestedChunk"}, UNCHANGED torn PROVE ReceiverLife'
  BY <1>r DEF ReceiverLife
<1>1. CASE LogInAsReceiver
  BY <1>1, <1>d, <1>r DEF LogInAsReceiver, NewReceiver, ReceiverLife
<1>2. CASE LoggedInAsReceiver
  BY <1>2, <1>d, <1>r DEF LoggedInAsReceiver, request_meta
<1>3. CASE DownloadStopped
  BY <1>3, <1>d, <1>r DEF DownloadStopped
<1>4. CASE \E p \in Path : \E l \in Locals(p) : FileRequested(p, l)
  BY <1>4, <1>d, <1>n, <1>r DEF FileRequested, request_chunk
<1>5. CASE \E p \in Path : FileResumed(p)
  BY <1>5, <1>d, <1>r DEF FileResumed, request_chunk
<1>6. CASE UNCHANGED vars
  BY <1>6 DEF vars, ReceiverLife
<1>7. CASE LoginSuccess
  BY <1>6, <1>7, <1>r DEF LoginSuccess, Dropped
<1>8. CASE SendMessage
  BY <1>8 DEF SendMessage, ReceiverLife
<1>9. CASE TransmitMeta(<<>>)
  BY <1>6, <1>9, <1>n, <1>r DEF TransmitMeta, Dropped
<1>10. ASSUME NEW b \in Seq(Byte), TransmitChunk(b) PROVE ReceiverLife'
  <2>1. CASE state # "RequestedChunk"
    BY <1>6, <1>10, <2>1 DEF TransmitChunk, Dropped
  <2>2. CASE state = "RequestedChunk"
    <3>1. PICK r, e : r = requesting_chunk /\ e = index[r.remote_path]
      OBVIOUS
    <3>2. Advance(r, e, b) \/ UNCHANGED <<state, torn>>
      BY <1>10, <2>2, <3>1 DEF TransmitChunk, WriteError
    <3>3. UNCHANGED torn /\ state' \in {"RequestedChunk", "Idle"}
      BY <1>n, <2>2, <3>2 DEF Advance, request_chunk
    <3> QED BY <1>r, <3>3
  <2> QED BY <2>1, <2>2
<1>11. CASE Crash
  BY <1>11, <1>d DEF Crash
<1>12. CASE Restart
  BY <1>12 DEF Restart, ReceiverLife
<1> QED BY <1>1, <1>2, <1>3, <1>4, <1>5, <1>6, <1>7, <1>8, <1>9, <1>10, <1>11, <1>12 DEF ReceiverActs

\* The sender's share of it.
SenderLife ==
    /\ events \in Seq(Sending)
    /\ sender_state \in {"None", "Crashed"} => events = <<>> /\ tasks = [t \in Task |-> NoTask]

\* A message is queued to be sent.
LEMMA QueuedFacts ==
    ASSUME events \in Seq(Sending), NEW m, events' = Append(events, S!Message(m)), SP!TypeOK'
    PROVE  events' \in Seq(Sending) /\ m \in S!Payload
<1>1. PICK x : x = S!Message(m)
  OBVIOUS
<1>2. PICK n \in Nat : n = Len(events)
  OBVIOUS
<1>3. events' \in Seq(S!Event)
  BY SameSender DEF SP!TypeOK
<1>4. x \in S!Event
  <2>1. Len(events') = n + 1 /\ events'[n + 1] = x
    BY <1>1, <1>2
  <2>2. n + 1 \in DOMAIN events'
    BY <1>3, <2>1
  <2> QED BY <1>3, <2>1, <2>2
<1>5. x.kind = "SendMessage" /\ x.message = m
  BY <1>1 DEF S!Message
<1>6. m \in S!Payload
  BY <1>4, <1>5 DEF S!Event
<1>7. x \in Sending
  BY <1>1, <1>6 DEF S!Message, Sending
<1> QED BY <1>1, <1>6, <1>7

\* Every step of the sender keeps SenderLife.
LEMMA SenderLives ==
    ASSUME SenderLife, SP!TypeOK, SP!TypeOK', SenderActs \/ UNCHANGED senderVars
    PROVE  SenderLife'
<1>e. <<>> \in Seq(Sending)
  OBVIOUS
<1>d. ASSUME S!Die PROVE SenderLife'
  BY <1>d, <1>e DEF S!Die, SenderLife
<1>t. tasks \in [Task -> SP!TaskState \cup {NoTask}]
  BY DEF SP!TypeOK, SP!TaskState
<1>1. CASE S!LogInAsSender
  <2>1. events' = Append(events, S!Message([type |-> "Login"])) /\ sender_state' = "Initializing"
    BY <1>1 DEF S!LogInAsSender
  <2>2. events' \in Seq(Sending)
    BY <2>1, QueuedFacts DEF SenderLife
  <2> QED BY <2>1, <2>2 DEF SenderLife
<1>2. CASE S!LoginSuccess
  BY <1>2 DEF S!LoginSuccess, SenderLife
<1>3. CASE S!SendMessage
  <2>1. events # <<>> /\ events' = Tail(events) /\ UNCHANGED <<sender_state, tasks>>
    BY <1>3 DEF S!SendMessage
  <2>2. events' \in Seq(Sending)
    BY <2>1 DEF SenderLife
  <2> QED BY <2>1, <2>2 DEF SenderLife
<1>4. CASE \E p \in Path : \E k \in Nat : \E h \in Seq(Byte) : S!process_request_chunk(p, k, h)
  <2>1. sender_state \in {"Initializing", "Idle"} /\ UNCHANGED <<sender_state, events>>
    BY <1>4 DEF S!process_request_chunk, S!Running
  <2> QED BY <2>1 DEF SenderLife
<1>5. CASE S!StopChunk
  <2>1. sender_state \in {"Initializing", "Idle"} /\ UNCHANGED <<sender_state, events>>
    BY <1>5 DEF S!StopChunk, S!Running
  <2> QED BY <2>1 DEF SenderLife
<1>6. ASSUME NEW t \in Task,
             \/ S!TransferReads(t) \/ S!TransferSends(t)
             \/ S!TransferFinished(t) \/ S!TransferCancelled(t)
      PROVE  SenderLife'
  <2>1. tasks[t] # NoTask /\ UNCHANGED sender_state
    BY <1>6 DEF S!TransferReads, S!TransferSends, S!TransferFinished, S!TransferCancelled,
       S!TaskOnly, S!EndTask
  <2>2. sender_state \notin {"None", "Crashed"}
    BY <2>1 DEF SenderLife
  <2>3. CASE S!TransferSends(t)
    <3>1. PICK b : events' = Append(events, S!Message([type |-> "TransmitChunk", data |-> b]))
      BY <2>3 DEF S!TransferSends
    <3> QED BY <2>1, <2>2, <3>1, QueuedFacts DEF SenderLife
  <2>4. CASE UNCHANGED events
    BY <2>1, <2>2, <2>4 DEF SenderLife
  <2> QED BY <1>6, <2>3, <2>4 DEF S!TransferReads, S!TransferFinished, S!TransferCancelled, S!EndTask
<1>7. CASE S!Crash
  BY <1>7, <1>d DEF S!Crash
<1>8. CASE S!Restart
  BY <1>8 DEF S!Restart, SenderLife
<1>9. CASE UNCHANGED senderVars
  BY <1>9 DEF senderVars, SenderLife
<1> QED BY <1>1, <1>2, <1>3, <1>4, <1>5, <1>6, <1>7, <1>8, <1>9 DEF SenderActs

\* A queue with no events has no messages.
LEMMA NoEvents == events \in Seq(Sending) => (Payloads(events) = <<>> <=> events = <<>>)
<1>1. \A x \in Sending : x.message \in Wire
  BY DEF Sending, Wire
<1> QED BY <1>1, PayloadsFacts

\* The two parts of LifeInv, before a step and after it.
LEMMA LifeParts == LifeInv <=> ReceiverLife /\ SenderLife
<1>1. Role = {"Receiver", "Sender"} /\ "Sender" # "Receiver"
  BY DEF Role
<1>2. /\ StateOf("Receiver") = state /\ Queue("Receiver") = up /\ (Idling("Receiver") <=> logged_in = 0)
      /\ StateOf("Sender") = sender_state /\ Queue("Sender") = Payloads(events)
      /\ Idling("Sender") <=> tasks = [t \in Task |-> NoTask]
  BY <1>1 DEF StateOf, Queue, Idling
<1> QED BY <1>1, <1>2, NoEvents DEF LifeInv, ReceiverLife, SenderLife

LEMMA LifePartsPrimed == LifeInv' <=> ReceiverLife' /\ SenderLife'
<1>1. Role = {"Receiver", "Sender"} /\ "Sender" # "Receiver"
  BY DEF Role
<1>2. events' \in Seq(Sending) => (Payloads(events)' = <<>> <=> events' = <<>>)
  <2>1. \A x \in Sending : x.message \in Wire
    BY DEF Sending, Wire
  <2>2. Payloads(events)' = Payloads(events')
    BY DEF Payloads
  <2> QED BY <2>1, <2>2, PayloadsFacts
<1>3. /\ StateOf("Receiver")' = state' /\ Queue("Receiver")' = up' /\ (Idling("Receiver")' <=> logged_in' = 0)
      /\ StateOf("Sender")' = sender_state' /\ Queue("Sender")' = Payloads(events)'
      /\ Idling("Sender")' <=> tasks' = [t \in Task |-> NoTask]
  BY <1>1 DEF StateOf, Queue, Idling
<1> QED BY <1>1, <1>2, <1>3 DEF LifeInv, ReceiverLife, SenderLife

\* What a client that has died or not logged in has to send: nothing.
LEMMA LifeStep ==
    ASSUME LifeInv, SP!TypeOK, SP!TypeOK', RelayInv, [TransferNext]_transferVars
    PROVE  LifeInv'
<1>1. /\ ReceiverActs \/ UNCHANGED vars
      /\ SenderActs \/ UNCHANGED senderVars
  BY ClientsStep
<1>2. ReceiverLife /\ SenderLife
  BY LifeParts
<1>3. ReceiverLife' /\ SenderLife'
  BY <1>1, <1>2, ReceiverLives, SenderLives
<1> QED BY <1>3, LifePartsPrimed

\* The receiver has one more message to send, and it is not a login.
Asks == \E m : up' = Append(up, m) /\ m.type \in {"RequestMeta", "RequestChunk", "StopChunk"}

\* A request for a block is something the receiver may say only when logged in.
LEMMA AsksChunk ==
    ASSUME NEW e, NEW p, NEW k, request_chunk(e, p, k)
    PROVE  Asks
<1>1. PICK m : m = [type |-> "RequestChunk", path |-> p, index |-> k, hash |-> e.meta.chunks[k + 1].hash]
  OBVIOUS
<1>2. up' = Append(up, m) /\ m.type = "RequestChunk"
  BY <1>1 DEF request_chunk, send_message
<1> QED BY <1>2 DEF Asks

\* What the receiver does, unless it logs in or sends, to its queue.
LEMMA ReceiverSays ==
    ASSUME \/ LoggedInAsReceiver \/ DownloadStopped
           \/ \E p \in Path : \E l \in Locals(p) : FileRequested(p, l)
           \/ \E p \in Path : FileResumed(p)
           \/ LoginSuccess \/ TransmitMeta(<<>>)
           \/ \E b \in Seq(Byte) : TransmitChunk(b)
    PROVE  up' = up \/ up' = <<>> \/ Asks
<1>d. ASSUME Die PROVE up' = <<>>
  BY <1>d DEF Die
<1>i. ASSUME DieInSave PROVE up' = <<>>
  BY <1>d, <1>i DEF DieInSave
<1>1. CASE LoggedInAsReceiver
  <2>1. CASE request_meta(get_last_updated(index))
    <3>1. PICK m : m = [type |-> "RequestMeta", after |-> get_last_updated(index)]
      OBVIOUS
    <3>2. up' = Append(up, m) /\ m.type = "RequestMeta"
      BY <2>1, <3>1 DEF request_meta, send_message
    <3> QED BY <3>2 DEF Asks
  <2> QED BY <1>1, <1>d, <2>1 DEF LoggedInAsReceiver
<1>2. CASE DownloadStopped
  <2>1. CASE send_message([type |-> "StopChunk"])
    <3>1. PICK m : m = [type |-> "StopChunk"]
      OBVIOUS
    <3>2. up' = Append(up, m) /\ m.type = "StopChunk"
      BY <2>1, <3>1 DEF send_message
    <3> QED BY <3>2 DEF Asks
  <2> QED BY <1>2, <1>d, <2>1 DEF DownloadStopped
<1>3. CASE \E p \in Path : \E l \in Locals(p) : FileRequested(p, l)
  BY <1>3, <1>d, <1>i, AsksChunk DEF FileRequested
<1>4. CASE \E p \in Path : FileResumed(p)
  BY <1>4, <1>d, AsksChunk DEF FileResumed
<1>5. CASE LoginSuccess
  BY <1>5 DEF LoginSuccess, Dropped, vars
<1>6. CASE TransmitMeta(<<>>)
  BY <1>6, <1>i DEF TransmitMeta, Dropped, vars
<1>7. ASSUME NEW b \in Seq(Byte), TransmitChunk(b) PROVE up' = up \/ up' = <<>> \/ Asks
  <2>1. PICK r, e : r = requesting_chunk /\ e = index[r.remote_path]
    OBVIOUS
  <2>2. CASE Advance(r, e, b)
    <3>1. PICK d : d = mark_received(e, r.chunk_index)
      OBVIOUS
    <3>2. \/ UNCHANGED up
          \/ DieInSave
          \/ request_chunk(d, r.remote_path, find_first_undownloaded(d))
      BY <2>2, <3>1 DEF Advance
    <3> QED BY <1>i, <3>2, AsksChunk
  <2>3. CASE UNCHANGED up
    BY <2>3
  <2> QED BY <1>7, <2>1, <2>2, <2>3 DEF TransmitChunk, WriteError, Dropped, vars
<1> QED BY <1>1, <1>2, <1>3, <1>4, <1>5, <1>6, <1>7

\* It says nothing but what is ordinary.
LEMMA ReceiverOrdinary ==
    ASSUME TypeOK', up \in Seq(Ordinary), up' = up \/ up' = <<>> \/ Asks
    PROVE  up' \in Seq(Ordinary)
<1>1. CASE up' = up \/ up' = <<>>
  <2>1. <<>> \in Seq(Ordinary)
    OBVIOUS
  <2> QED BY <1>1, <2>1
<1>2. CASE Asks
  <2>1. PICK m : up' = Append(up, m) /\ m.type \in {"RequestMeta", "RequestChunk", "StopChunk"}
    BY <1>2 DEF Asks
  <2>2. PICK n \in Nat : n = Len(up)
    OBVIOUS
  <2>3. Len(up') = n + 1 /\ up'[n + 1] = m
    BY <2>1, <2>2
  <2>4. up' \in Seq(Message)
    BY DEF TypeOK
  <2>5. m \in Message
    <3>1. n + 1 \in DOMAIN up'
      BY <2>3, <2>4
    <3> QED BY <2>3, <2>4, <3>1
  <2>6. m \in Ordinary
    BY <2>1, <2>5 DEF Ordinary, Wire
  <2> QED BY <2>1, <2>6
<1> QED BY <1>1, <1>2

\* The same of the sender's transfers.
LEMMA SenderOrdinary ==
    ASSUME LifeInv, LifeInv', SP!TypeOK', Payloads(events) \in Seq(Ordinary), NEW t \in Task, Transfers(t)
    PROVE  Payloads(events)' \in Seq(Ordinary)
<1>p. \A x \in Sending : x.message \in Wire
  BY DEF Sending, Wire
<1>1. CASE UNCHANGED events
  BY <1>1 DEF Payloads
<1>2. CASE S!TransferSends(t)
  <2>1. PICK b : events' = Append(events, S!Message([type |-> "TransmitChunk", data |-> b]))
    BY <1>2 DEF S!TransferSends
  <2>2. PICK m : m = [type |-> "TransmitChunk", data |-> b]
    OBVIOUS
  <2>3. PICK x : x = S!Message(m)
    OBVIOUS
  <2>4. m \in S!Payload
    BY <2>1, <2>2, QueuedFacts DEF LifeInv
  <2>5. x \in Sending /\ x.message = m
    BY <2>3, <2>4 DEF S!Message, Sending
  <2>6. m \in Ordinary
    BY <2>2, <2>4 DEF Ordinary, Wire
  <2>7. Payloads(events') = Append(Payloads(events), m)
    BY <1>p, <2>1, <2>2, <2>3, <2>5, PayloadsFacts DEF LifeInv
  <2>8. Payloads(events)' = Payloads(events')
    BY DEF Payloads
  <2> QED BY <2>6, <2>7, <2>8
<1> QED BY <1>1, <1>2 DEF Transfers, S!TransferReads, S!TransferFinished, S!TransferCancelled, S!EndTask

\* A step that leaves the connections and what waits for the server as it is,
\* and what a client that has just connected says.
LEMMA ClientConn ==
    ASSUME NEW r \in Role, GoodConn(r), UNCHANGED <<inbox, conn>>,
           outgoing[r] = <<>> => outgoing'[r] = <<>>,
           conn[r] = "in" => Queue(r)' \in Seq(Ordinary),
           conn[r] = "open" => /\ Queue(r)' = Queue(r) /\ StateOf(r)' = StateOf(r)
                               /\ Idling(r) => Idling(r)'
    PROVE  GoodConn(r)'
<1>1. Said(r)' = Said(r)
  BY DEF Said
<1>2. conn'[r] = conn[r]
  OBVIOUS
<1> QED BY <1>1, <1>2 DEF GoodConn

\* The two clients.
LEMMA Roles ==
    /\ Role = {"Receiver", "Sender"} /\ "Receiver" # "Sender"
    /\ Queue("Receiver") = up /\ Queue("Sender") = Payloads(events)
    /\ StateOf("Receiver") = state /\ StateOf("Sender") = sender_state
    /\ Idling("Receiver") <=> logged_in = 0
    /\ Idling("Sender") <=> tasks = [t \in Task |-> NoTask]
BY DEF Role, Queue, StateOf, Idling

\* The same after a step.
LEMMA RolesPrimed ==
    /\ Queue("Receiver")' = up' /\ Queue("Sender")' = Payloads(events')
    /\ StateOf("Receiver")' = state' /\ StateOf("Sender")' = sender_state'
    /\ Idling("Receiver")' <=> logged_in' = 0
    /\ Idling("Sender")' <=> tasks' = [t \in Task |-> NoTask]
BY DEF Role, Queue, StateOf, Idling, Payloads

\* A client sends what is first in its queue.
LEMMA PostConn ==
    ASSUME RelayInv, ConnInv, NEW q \in Role, Queue(q) \in Seq(Wire), Queue(q) # <<>>,
           Post(q, Head(Queue(q))), Queue(q)' = Tail(Queue(q)),
           \A r \in Role : /\ StateOf(r)' = StateOf(r) /\ (Idling(r) => Idling(r)')
                           /\ r # q => Queue(r)' = Queue(r)
    PROVE  ConnInv'
<1>1. PICK m \in Wire : m = Head(Queue(q))
  OBVIOUS
<1>2. PICK x \in Packet : x = [from |-> q, message |-> m]
  BY DEF Packet
<1>3. inbox' = Append(inbox, x) /\ UNCHANGED <<outgoing, conn>> /\ conn[q] \in {"in", "open"}
  BY <1>1, <1>2 DEF Post, Connected
<1>4. inbox \in Seq(Packet)
  BY DEF RelayInv
<1>5. \A r \in Role : Said(r)' = SaidIn(r, Append(inbox, x))
  BY <1>3 DEF Said, SaidIn, Gather
<1>6. \A r \in Role : Said(r)' = IF r = q THEN Append(Said(r), m) ELSE Said(r)
  BY <1>2, <1>4, <1>5, SaidFacts DEF Said
<1>7. ASSUME NEW r \in Role, r # q PROVE GoodConn(r)'
  BY <1>3, <1>6, <1>7 DEF ConnInv, GoodConn
<1>8. GoodConn(q)'
  <2>1. Said(q) \in Seq(Wire)
    BY <1>4, SaidFacts DEF Said
  <2>2. Said(q)' \o Queue(q)' = Said(q) \o Queue(q)
    <3>1. Append(Said(q), Head(Queue(q))) \o Tail(Queue(q)) = Said(q) \o Queue(q)
      BY <2>1, HeadMoves
    <3> QED BY <1>1, <1>6, <3>1
  <2>3. CASE conn[q] = "in"
    <3>1. Said(q) \in Seq(Ordinary) /\ Queue(q) \in Seq(Ordinary)
      BY <2>3 DEF ConnInv, GoodConn
    <3>2. m \in Ordinary /\ Tail(Queue(q)) \in Seq(Ordinary)
      BY <1>1, <3>1
    <3>3. Append(Said(q), m) \in Seq(Ordinary)
      BY <3>1, <3>2
    <3> QED BY <1>3, <1>6, <2>3, <3>2, <3>3 DEF GoodConn
  <2>4. CASE conn[q] = "open"
    BY <1>3, <2>2, <2>4 DEF ConnInv, GoodConn
  <2> QED BY <1>3, <2>3, <2>4
<1> QED BY <1>7, <1>8 DEF ConnInv

\* The connection of r ends, of which the server has handled what it sent up to
\* box.
LEMMA EndedConn ==
    ASSUME RelayInv, NEW box \in Seq(Packet), NEW r \in Role, Ended(box, r),
           conn[r] = "in" => SaidIn(r, box) \in Seq(Ordinary),
           conn[r] = "dead" =>
              \E s \in Seq(Ordinary) : SaidIn(r, box) = Append(s, [type |-> "ClientDisconnected"]),
           conn[r] = "out" => SaidIn(r, box) = <<>>,
           conn[r] \in {"dead", "out"} => outgoing[r] = <<>>,
           conn[r] # "open"
    PROVE  GoodConn(r)'
<1>1. CASE conn[r] \in {"out", "dead"}
  <2>1. UNCHANGED <<outgoing, conn>> /\ inbox' = box
    BY <1>1 DEF Ended
  <2>2. Said(r)' = SaidIn(r, box)
    BY <2>1 DEF Said, SaidIn, Gather
  <2> QED BY <1>1, <2>1, <2>2 DEF GoodConn
<1>2. CASE conn[r] = "in"
  <2>1. PICK x \in Packet : x = [from |-> r, message |-> [type |-> "ClientDisconnected"]]
    BY DEF Packet, Wire
  <2>2. /\ inbox' = Append(box, x)
        /\ outgoing' = [outgoing EXCEPT ![r] = <<>>]
        /\ conn' = [conn EXCEPT ![r] = "dead"]
    BY <1>2, <2>1 DEF Ended
  <2>3. Said(r)' = SaidIn(r, Append(box, x))
    BY <2>2 DEF Said, SaidIn, Gather
  <2>4. Said(r)' = Append(SaidIn(r, box), [type |-> "ClientDisconnected"])
    BY <2>1, <2>3, SaidFacts
  <2>5. conn'[r] = "dead" /\ outgoing'[r] = <<>>
    BY <2>2 DEF RelayInv
  <2> QED BY <1>2, <2>4, <2>5 DEF GoodConn
<1> QED BY <1>1, <1>2 DEF RelayInv

\* What it is to another client that the connection of r ends.
LEMMA EndedOther ==
    ASSUME RelayInv, NEW box \in Seq(Packet), NEW r \in Role, Ended(box, r), NEW q \in Role, q # r
    PROVE  conn'[q] = conn[q] /\ outgoing'[q] = outgoing[q] /\ Said(q)' = SaidIn(q, box)
<1>1. CASE conn[r] \in {"out", "dead"}
  <2>1. UNCHANGED <<outgoing, conn>> /\ inbox' = box
    BY <1>1 DEF Ended
  <2>2. Said(q)' = SaidIn(q, box)
    BY <2>1 DEF Said, SaidIn, Gather
  <2> QED BY <2>1, <2>2
<1>2. CASE conn[r] \notin {"out", "dead"}
  <2>1. PICK x \in Packet : x = [from |-> r, message |-> [type |-> "ClientDisconnected"]]
    BY DEF Packet, Wire
  <2>2. /\ inbox' = Append(box, x)
        /\ outgoing' = [outgoing EXCEPT ![r] = <<>>]
        /\ conn' = [conn EXCEPT ![r] = "dead"]
    BY <1>2, <2>1 DEF Ended
  <2>3. Said(q)' = SaidIn(q, Append(box, x))
    BY <2>2 DEF Said, SaidIn, Gather
  <2>4. Said(q)' = SaidIn(q, box)
    BY <2>1, <2>3, SaidFacts
  <2>5. conn'[q] = conn[q] /\ outgoing'[q] = outgoing[q]
    BY <2>2 DEF RelayInv
  <2> QED BY <2>4, <2>5
<1> QED BY <1>1, <1>2

\* What the server does with a message m of a: it forwards it or an answer, it
\* ends the connection of a because it cannot, or it notes a login or an end.
Forwards(a) ==
    \E r \in Role, y \in Wire :
        /\ conn[r] = "in"
        /\ outgoing' = [outgoing EXCEPT ![r] = Append(@, y)]
        /\ inbox' = Tail(inbox)
        /\ UNCHANGED conn

\* A message is forwarded or the connection it came from has ended.
LEMMA ForwardedOrNot ==
    ASSUME NEW a \in Role, NEW r \in Role, NEW y \in Wire, Forward(a, r, y)
    PROVE  Forwards(a) \/ Ended(Tail(inbox), a)
BY DEF Forward, Forwards

\* The cases of ServerHandles that who is connected depends on.
LEMMA HandlesFacts ==
    ASSUME RelayInv, ServerHandles, NEW a, NEW m, a = Head(inbox).from, m = Head(inbox).message
    PROVE  \/ m \in Ordinary /\ (Forwards(a) \/ Ended(Tail(inbox), a))
           \/ m.type = "Login" /\ handle_login(a)
           \/ m.type = "ClientDisconnected" /\ ClientDisconnected(a)
<1>1. inbox # <<>> /\ a \in Role /\ m \in Wire
  BY TakenFacts DEF ServerHandles
<1>2. "Sender" \in Role /\ "Receiver" \in Role
  BY DEF Role
<1>3. CASE m.type = "RequestChunk" /\ handle_request_chunk(a, m)
  BY <1>1, <1>2, <1>3, ForwardedOrNot DEF handle_request_chunk, Ordinary
<1>4. CASE m.type = "StopChunk" /\ handle_stop_chunk(a, m)
  BY <1>1, <1>2, <1>4, ForwardedOrNot DEF handle_stop_chunk, Ordinary
<1>5. CASE m.type = "TransmitChunk" /\ handle_transmit_chunk(a, m)
  <2>1. [type |-> "StopChunk"] \in Wire
    BY DEF Wire, Message
  <2> QED BY <1>1, <1>2, <1>5, <2>1, ForwardedOrNot DEF handle_transmit_chunk, Ordinary
<1>6. CASE m.type = "RequestMeta" /\ handle_request_meta(a)
  <2>1. [type |-> "TransmitMeta", meta |-> <<>>] \in Wire
    BY DEF Wire
  <2> QED BY <1>1, <1>6, <2>1, ForwardedOrNot DEF handle_request_meta, Ordinary
<1> QED BY <1>3, <1>4, <1>5, <1>6 DEF ServerHandles

\* A client that has just connected has said nothing but its login.
LEMMA OnlyLogin ==
    ASSUME NEW a \in Role, TypeOK, LifeInv, Said(a) \in Seq(Wire), Said(a) # <<>>,
           Said(a) \o Queue(a) = <<>> \/ Said(a) \o Queue(a) = <<[type |-> "Login"]>>
    PROVE  Said(a) = <<[type |-> "Login"]>> /\ Queue(a) = <<>>
<1>1. PICK T : T = Wire
  OBVIOUS
<1>2. PICK s \in Seq(T), q \in Seq(T) : s = Said(a) /\ q = Queue(a)
  BY <1>1, QueueTypes
<1>3. s # <<>>
  BY <1>2
<1>4. s \o q # <<>>
  BY <1>2, <1>3, ConcatFacts
<1>5. PICK x : x = [type |-> "Login"]
  OBVIOUS
<1>6. s \o q = <<x>>
  BY <1>2, <1>4, <1>5
<1>7. s = <<x>> /\ q = <<>>
  BY <1>3, <1>6, ConcatOne
<1> QED BY <1>2, <1>5, <1>7

\* Of a client whose connection has ended the end comes last.
LEMMA DeadHead ==
    ASSUME NEW s \in Seq(Ordinary), NEW g, g = Append(s, [type |-> "ClientDisconnected"])
    PROVE  /\ s = <<>> => Head(g) = [type |-> "ClientDisconnected"] /\ Tail(g) = <<>>
           /\ s # <<>> => /\ Head(g) \in Ordinary /\ Tail(s) \in Seq(Ordinary)
                          /\ Tail(g) = Append(Tail(s), [type |-> "ClientDisconnected"])
<1>1. PICK x \in Wire : x = [type |-> "ClientDisconnected"]
  BY DEF Wire
<1>2. s \in Seq(Wire)
  BY DEF Ordinary
<1>3. /\ s = <<>> => Head(g) = x /\ Tail(g) = <<>>
      /\ s # <<>> => Head(g) = Head(s) /\ Tail(g) = Append(Tail(s), x)
  <2>1. PICK T : T = Wire
    OBVIOUS
  <2>2. s \in Seq(T) /\ x \in T /\ g = Append(s, x)
    BY <1>1, <1>2, <2>1
  <2> QED BY <2>2, AppendedLast
<1>4. s # <<>> => Head(s) \in Ordinary /\ Tail(s) \in Seq(Ordinary)
  OBVIOUS
<1> QED BY <1>1, <1>3, <1>4

\* The server handles a message: what it knows of the connections stays right.
LEMMA ServerConn ==
    ASSUME RelayInv, ConnInv, TypeOK, LifeInv, ServerHandles
    PROVE  ConnInv'
<1>1. PICK a, m : a = Head(inbox).from /\ m = Head(inbox).message
  OBVIOUS
<1>2. inbox # <<>> /\ a \in Role /\ m \in Wire /\ Tail(inbox) \in Seq(Packet) /\ inbox \in Seq(Packet)
  BY <1>1, TakenFacts DEF ServerHandles, RelayInv
<1>3. PICK box \in Seq(Packet) : box = Tail(inbox)
  BY <1>2
<1>4. UNCHANGED <<vars, senderVars>>
  BY DEF ServerHandles
<1>5. \A r \in Role : Queue(r)' = Queue(r) /\ StateOf(r)' = StateOf(r) /\ (Idling(r)' <=> Idling(r))
  BY <1>4 DEF vars, senderVars, Queue, StateOf, Idling, Payloads
<1>6. \A r \in Role : Said(r) \in Seq(Wire)
  BY <1>2, SaidFacts DEF Said
<1>7. \A r \in Role : r # a => SaidIn(r, box) = Said(r)
  BY <1>1, <1>2, <1>3, SaidFacts DEF Said
<1>8. Said(a) # <<>> /\ Head(Said(a)) = m /\ SaidIn(a, box) = Tail(Said(a))
  BY <1>1, <1>2, <1>3, SaidFacts DEF Said
<1>9. ASSUME inbox' = box PROVE \A r \in Role : Said(r)' = SaidIn(r, box)
  BY <1>9 DEF Said, SaidIn, Gather
<1>10. CASE m \in Ordinary /\ Forwards(a)
  <2>1. PICK r \in Role, y \in Wire :
           /\ conn[r] = "in"
           /\ outgoing' = [outgoing EXCEPT ![r] = Append(@, y)]
           /\ inbox' = Tail(inbox)
           /\ UNCHANGED conn
    BY <1>10 DEF Forwards
  <2>2. ASSUME NEW q \in Role, conn[q] # "in" PROVE outgoing'[q] = outgoing[q]
    BY <2>1, <2>2 DEF RelayInv
  <2>3. ASSUME NEW q \in Role, q # a PROVE GoodConn(q)'
    BY <1>3, <1>5, <1>7, <1>9, <2>1, <2>2, <2>3 DEF ConnInv, GoodConn
  <2>4. GoodConn(a)'
    <3>1. Said(a)' = Tail(Said(a))
      BY <1>2, <1>3, <1>8, <1>9, <2>1
    <3>2. CASE conn[a] = "in"
      <4>1. Said(a) \in Seq(Ordinary) /\ Queue(a) \in Seq(Ordinary)
        BY <1>2, <3>2 DEF ConnInv, GoodConn
      <4>2. Tail(Said(a)) \in Seq(Ordinary)
        BY <1>8, <4>1
      <4> QED BY <1>2, <1>5, <2>1, <3>1, <3>2, <4>1, <4>2 DEF GoodConn
    <3>3. CASE conn[a] = "open"
      <4>1. Said(a) \o Queue(a) = <<>> \/ Said(a) \o Queue(a) = <<[type |-> "Login"]>>
        BY <1>2, <3>3 DEF ConnInv, GoodConn
      <4>2. Said(a) = <<[type |-> "Login"]>>
        BY <1>2, <1>6, <1>8, <4>1, OnlyLogin
      <4>3. m.type = "Login"
        BY <1>8, <4>2
      <4> QED BY <1>10, <4>3 DEF Ordinary
    <3>4. CASE conn[a] = "dead"
      <4>1. PICK s \in Seq(Ordinary) : Said(a) = Append(s, [type |-> "ClientDisconnected"])
        BY <1>2, <3>4 DEF ConnInv, GoodConn
      <4>2. s # <<>>
        BY <1>8, <1>10, <4>1, DeadHead DEF Ordinary
      <4>3. Tail(s) \in Seq(Ordinary) /\ Tail(Said(a)) = Append(Tail(s), [type |-> "ClientDisconnected"])
        BY <4>1, <4>2, DeadHead
      <4>4. outgoing'[a] = <<>>
        BY <1>2, <2>2, <3>4 DEF ConnInv, GoodConn
      <4> QED BY <1>2, <2>1, <3>1, <3>4, <4>3, <4>4 DEF GoodConn
    <3>5. CASE conn[a] = "out"
      BY <1>2, <1>8, <3>5 DEF ConnInv, GoodConn
    <3> QED BY <1>2, <3>2, <3>3, <3>4, <3>5 DEF RelayInv
  <2> QED BY <2>3, <2>4 DEF ConnInv
<1>11. CASE m \in Ordinary /\ Ended(box, a)
  <2>1. ASSUME NEW q \in Role, q # a PROVE GoodConn(q)'
    <3>1. conn'[q] = conn[q] /\ outgoing'[q] = outgoing[q] /\ Said(q)' = Said(q)
      BY <1>2, <1>7, <1>11, <2>1, EndedOther
    <3> QED BY <1>5, <3>1 DEF ConnInv, GoodConn
  <2>2. GoodConn(a)
    BY <1>2 DEF ConnInv
  <2>3. conn[a] = "in" => SaidIn(a, box) \in Seq(Ordinary)
    <3>1. SUFFICES ASSUME conn[a] = "in" PROVE Tail(Said(a)) \in Seq(Ordinary)
      BY <1>8
    <3>2. Said(a) \in Seq(Ordinary)
      BY <2>2, <3>1 DEF GoodConn
    <3> QED BY <1>8, <3>2
  <2>4. conn[a] # "open"
    <3>1. SUFFICES ASSUME conn[a] = "open" PROVE FALSE
      OBVIOUS
    <3>2. Said(a) \o Queue(a) = <<>> \/ Said(a) \o Queue(a) = <<[type |-> "Login"]>>
      BY <2>2, <3>1 DEF GoodConn
    <3>3. Said(a) = <<[type |-> "Login"]>>
      BY <1>2, <1>6, <1>8, <3>2, OnlyLogin
    <3>4. m.type = "Login"
      BY <1>8, <3>3
    <3> QED BY <1>11, <3>4 DEF Ordinary
  <2>5. conn[a] = "dead" =>
           \E s \in Seq(Ordinary) : SaidIn(a, box) = Append(s, [type |-> "ClientDisconnected"])
    <3>1. SUFFICES ASSUME conn[a] = "dead"
                   PROVE  \E s \in Seq(Ordinary) : Tail(Said(a)) = Append(s, [type |-> "ClientDisconnected"])
      BY <1>8
    <3>2. PICK s \in Seq(Ordinary) : Said(a) = Append(s, [type |-> "ClientDisconnected"])
      BY <2>2, <3>1 DEF GoodConn
    <3>3. s # <<>>
      BY <1>8, <1>11, <3>2, DeadHead DEF Ordinary
    <3>4. Tail(s) \in Seq(Ordinary) /\ Tail(Said(a)) = Append(Tail(s), [type |-> "ClientDisconnected"])
      BY <3>2, <3>3, DeadHead
    <3> QED BY <3>4
  <2>6. conn[a] # "out"
    BY <1>8, <2>2 DEF GoodConn
  <2>7. conn[a] \in {"dead", "out"} => outgoing[a] = <<>>
    BY <2>2 DEF GoodConn
  <2>8. GoodConn(a)'
    BY <1>2, <1>11, <2>3, <2>4, <2>5, <2>6, <2>7, EndedConn
  <2> QED BY <2>1, <2>8 DEF ConnInv
<1>12. CASE m.type = "Login" /\ handle_login(a)
  <2>1. /\ inbox' = Tail(inbox) /\ conn' = [conn EXCEPT ![a] = "in"]
        /\ \A q \in Role : q # a => outgoing'[q] = outgoing[q]
    BY <1>2, <1>12 DEF handle_login, RelayInv
  <2>2. ASSUME NEW q \in Role, q # a PROVE GoodConn(q)'
    <3>1. conn'[q] = conn[q] /\ outgoing'[q] = outgoing[q] /\ Said(q)' = Said(q)
      BY <1>2, <1>3, <1>7, <1>9, <2>1, <2>2 DEF RelayInv
    <3> QED BY <1>5, <3>1 DEF ConnInv, GoodConn
  <2>3. GoodConn(a)'
    <3>1. conn[a] = "open"
      <4>1. m \notin Ordinary
        BY <1>12 DEF Ordinary
      <4>2. conn[a] # "in"
        <5>1. Said(a) \in Seq(Ordinary) => Head(Said(a)) \in Ordinary
          BY <1>8
        <5> QED BY <1>2, <1>8, <4>1, <5>1 DEF ConnInv, GoodConn
      <4>3. conn[a] # "dead"
        <5>1. SUFFICES ASSUME conn[a] = "dead" PROVE FALSE
          OBVIOUS
        <5>2. PICK s \in Seq(Ordinary) : Said(a) = Append(s, [type |-> "ClientDisconnected"])
          BY <1>2, <5>1 DEF ConnInv, GoodConn
        <5>3. m = [type |-> "ClientDisconnected"] \/ m \in Ordinary
          BY <1>8, <5>2, DeadHead
        <5> QED BY <1>12, <4>1, <5>3
      <4>4. conn[a] # "out"
        BY <1>2, <1>8 DEF ConnInv, GoodConn
      <4> QED BY <1>2, <4>2, <4>3, <4>4 DEF RelayInv
    <3>2. Said(a) \o Queue(a) = <<>> \/ Said(a) \o Queue(a) = <<[type |-> "Login"]>>
      BY <1>2, <3>1 DEF ConnInv, GoodConn
    <3>3. Said(a) = <<[type |-> "Login"]>> /\ Queue(a) = <<>>
      BY <1>2, <1>6, <1>8, <3>2, OnlyLogin
    <3>4. Said(a)' = <<>>
      BY <1>2, <1>3, <1>8, <1>9, <2>1, <3>3
    <3>5. conn'[a] = "in" /\ <<>> \in Seq(Ordinary)
      BY <1>2, <2>1 DEF RelayInv
    <3> QED BY <1>2, <1>5, <3>3, <3>4, <3>5 DEF GoodConn
  <2> QED BY <2>2, <2>3 DEF ConnInv
<1>13. CASE m.type = "ClientDisconnected" /\ ClientDisconnected(a)
  <2>1. /\ inbox' = Tail(inbox) /\ conn' = [conn EXCEPT ![a] = "out"] /\ UNCHANGED outgoing
    BY <1>13 DEF ClientDisconnected
  <2>2. ASSUME NEW q \in Role, q # a PROVE GoodConn(q)'
    <3>1. conn'[q] = conn[q] /\ outgoing'[q] = outgoing[q] /\ Said(q)' = Said(q)
      BY <1>2, <1>3, <1>7, <1>9, <2>1, <2>2 DEF RelayInv
    <3> QED BY <1>5, <3>1 DEF ConnInv, GoodConn
  <2>3. GoodConn(a)'
    <3>0. m \notin Ordinary
      BY <1>13 DEF Ordinary
    <3>1. conn[a] = "dead"
      <4>2. conn[a] # "in"
        <5>1. Said(a) \in Seq(Ordinary) => Head(Said(a)) \in Ordinary
          BY <1>8
        <5> QED BY <1>2, <1>8, <3>0, <5>1 DEF ConnInv, GoodConn
      <4>3. conn[a] # "open"
        <5>1. SUFFICES ASSUME conn[a] = "open" PROVE FALSE
          OBVIOUS
        <5>2. Said(a) \o Queue(a) = <<>> \/ Said(a) \o Queue(a) = <<[type |-> "Login"]>>
          BY <1>2, <5>1 DEF ConnInv, GoodConn
        <5>3. Said(a) = <<[type |-> "Login"]>>
          BY <1>2, <1>6, <1>8, <5>2, OnlyLogin
        <5>4. m.type = "Login"
          BY <1>8, <5>3
        <5> QED BY <1>13, <5>4
      <4>4. conn[a] # "out"
        BY <1>2, <1>8 DEF ConnInv, GoodConn
      <4> QED BY <1>2, <4>2, <4>3, <4>4 DEF RelayInv
    <3>2. PICK s \in Seq(Ordinary) : Said(a) = Append(s, [type |-> "ClientDisconnected"])
      BY <1>2, <3>1 DEF ConnInv, GoodConn
    <3>3. Tail(Said(a)) = <<>>
      BY <1>8, <3>0, <3>2, DeadHead
    <3>4. Said(a)' = <<>>
      BY <1>2, <1>3, <1>8, <1>9, <2>1, <3>3
    <3>5. conn'[a] = "out"
      BY <1>2, <2>1 DEF RelayInv
    <3>6. outgoing'[a] = <<>>
      BY <1>2, <2>1, <3>1 DEF ConnInv, GoodConn
    <3> QED BY <3>4, <3>5, <3>6 DEF GoodConn
  <2> QED BY <2>2, <2>3 DEF ConnInv
<1> QED BY <1>1, <1>3, <1>10, <1>11, <1>12, <1>13, HandlesFacts

\* Only the client q does something, and it sends and receives nothing.
LEMMA OneConn ==
    ASSUME RelayInv, ConnInv, NEW q \in Role, conn[q] # "open",
           conn[q] = "in" => Queue(q)' \in Seq(Ordinary),
           UNCHANGED <<inbox, conn>>, \A r \in Role : outgoing[r] = <<>> => outgoing'[r] = <<>>,
           \A r \in Role : r # q => /\ Queue(r)' = Queue(r) /\ StateOf(r)' = StateOf(r)
                                    /\ Idling(r) => Idling(r)'
    PROVE  ConnInv'
<1> SUFFICES ASSUME NEW r \in Role PROVE GoodConn(r)'
  BY DEF ConnInv
<1>1. GoodConn(r)
  BY DEF ConnInv
<1>2. CASE r = q
  BY <1>1, <1>2, ClientConn
<1>3. CASE r # q
  BY <1>1, <1>3, ClientConn DEF GoodConn
<1> QED BY <1>2, <1>3

\* What stays the same of a client that does nothing.
LEMMA Unmoved ==
    /\ UNCHANGED vars => /\ Queue("Receiver")' = Queue("Receiver") /\ StateOf("Receiver")' = StateOf("Receiver")
                         /\ Idling("Receiver") => Idling("Receiver")'
    /\ UNCHANGED senderVars => /\ Queue("Sender")' = Queue("Sender") /\ StateOf("Sender")' = StateOf("Sender")
                               /\ Idling("Sender") => Idling("Sender")'
BY DEF Role, Queue, StateOf, Idling, Payloads, vars, senderVars

\* The steps of a receiver that has a window or is logged in keep ConnInv.
LEMMA ReceiverConn ==
    ASSUME TInv, TInv', ConnInv,
           \/ \E p \in Path : \E l \in Locals(p) : Download(p, l)
           \/ \E p \in Path : Resume(p)
           \/ Stop
           \/ ReceiverTakes
           \/ ReceiverLogsOn
    PROVE  ConnInv'
<1>0. RelayInv /\ TypeOK' /\ "Receiver" \in Role
  BY DEF TInv, IInv, Role
<1>1. /\ UNCHANGED <<senderVars, inbox, conn>>
      /\ \A r \in Role : outgoing[r] = <<>> => outgoing'[r] = <<>>
  <2>1. CASE ReceiverTakes
    BY <1>0, <2>1 DEF ReceiverTakes, Take, RelayInv
  <2>2. CASE ~ReceiverTakes
    BY <2>2 DEF Download, Resume, Stop, User, ReceiverLogsOn, relayVars
  <2> QED BY <2>1, <2>2
<1>2. conn["Receiver"] # "open"
  <2>1. CASE ReceiverTakes
    BY <1>0, <2>1 DEF ReceiverTakes, Take, ConnInv, GoodConn
  <2>2. CASE ReceiverLogsOn
    <3>1. logged_in # 0
      <4>1. logged_in > 0
        BY <2>2 DEF ReceiverLogsOn, LoggedInAsReceiver
      <4> QED BY <4>1
    <3> QED BY <1>0, <3>1, Roles DEF ConnInv, GoodConn
  <2>3. CASE ~ReceiverTakes /\ ~ReceiverLogsOn
    BY <2>3 DEF Download, Resume, Stop, User
  <2> QED BY <2>1, <2>2, <2>3
<1>3. up' = up \/ up' = <<>> \/ Asks
  <2>1. CASE ReceiverTakes
    <3>1. \/ \E b \in Seq(Byte) : TransmitChunk(b)
          \/ LoginSuccess \/ TransmitMeta(<<>>)
      <4>1. PICK m \in Wire : m = Head(outgoing["Receiver"])
        BY <1>0, <2>1, TakeFacts DEF ReceiverTakes
      <4> QED BY <2>1, <4>1, WireFacts DEF ReceiverTakes
    <3> QED BY <3>1, ReceiverSays
  <2>2. CASE ~ReceiverTakes
    <3>1. \/ LoggedInAsReceiver \/ DownloadStopped
          \/ \E p \in Path : \E l \in Locals(p) : FileRequested(p, l)
          \/ \E p \in Path : FileResumed(p)
      BY <2>2 DEF Download, Resume, Stop, User, ReceiverLogsOn
    <3> QED BY <3>1, ReceiverSays
  <2> QED BY <2>1, <2>2
<1>4. ASSUME conn["Receiver"] = "in" PROVE Queue("Receiver")' \in Seq(Ordinary)
  <2>1. up \in Seq(Ordinary)
    BY <1>0, <1>4, Roles DEF ConnInv, GoodConn
  <2>2. up' \in Seq(Ordinary)
    BY <1>0, <1>3, <2>1, ReceiverOrdinary
  <2> QED BY <2>2, RolesPrimed
<1>5. \A r \in Role : r # "Receiver" => /\ Queue(r)' = Queue(r) /\ StateOf(r)' = StateOf(r)
                                        /\ Idling(r) => Idling(r)'
  BY <1>1, Unmoved, Roles
<1> QED BY <1>0, <1>1, <1>2, <1>4, <1>5, OneConn

\* So do those of a sender that is logged in, and of its transfers.
LEMMA SenderConn ==
    ASSUME TInv, TInv', LifeInv, LifeInv', ConnInv, SenderTakes \/ \E t \in Task : Transfers(t)
    PROVE  ConnInv'
<1>0. RelayInv /\ SP!TypeOK' /\ "Sender" \in Role
  BY DEF TInv, SP!IInv, Role
<1>1. /\ UNCHANGED <<vars, inbox, conn>>
      /\ \A r \in Role : outgoing[r] = <<>> => outgoing'[r] = <<>>
  <2>1. CASE SenderTakes
    BY <1>0, <2>1 DEF SenderTakes, Take, RelayInv
  <2>2. CASE \E t \in Task : Transfers(t)
    BY <2>2 DEF Transfers, relayVars
  <2> QED BY <2>1, <2>2
<1>2. conn["Sender"] # "open"
  <2>1. CASE SenderTakes
    BY <1>0, <2>1 DEF SenderTakes, Take, ConnInv, GoodConn
  <2>2. ASSUME NEW t \in Task, Transfers(t) PROVE conn["Sender"] # "open"
    <3>1. tasks[t] # NoTask
      BY <2>2 DEF Transfers, S!TransferReads, S!TransferSends, S!TransferFinished, S!TransferCancelled
    <3>2. tasks # [u \in Task |-> NoTask]
      BY <3>1
    <3> QED BY <1>0, <3>2, Roles DEF ConnInv, GoodConn
  <2> QED BY <2>1, <2>2
<1>3. ASSUME conn["Sender"] = "in" PROVE Queue("Sender")' \in Seq(Ordinary)
  <2>1. Payloads(events) \in Seq(Ordinary)
    BY <1>0, <1>3, Roles DEF ConnInv, GoodConn
  <2>2. CASE SenderTakes
    <3>1. UNCHANGED events
      BY <2>2 DEF SenderTakes, S!process_request_chunk, S!StopChunk, S!LoginSuccess
    <3> QED BY <2>1, <3>1, RolesPrimed
  <2>3. CASE \E t \in Task : Transfers(t)
    <3>1. Payloads(events)' \in Seq(Ordinary)
      BY <1>0, <2>1, <2>3, SenderOrdinary
    <3> QED BY <3>1, RolesPrimed DEF Payloads
  <2> QED BY <2>2, <2>3
<1>4. \A r \in Role : r # "Sender" => /\ Queue(r)' = Queue(r) /\ StateOf(r)' = StateOf(r)
                                      /\ Idling(r) => Idling(r)'
  BY <1>1, Unmoved, Roles
<1> QED BY <1>0, <1>1, <1>2, <1>3, <1>4, OneConn

\* So does a message on its way to the server.
LEMMA SendsConn ==
    ASSUME TInv, LifeInv, ConnInv, ReceiverSends \/ SenderSends
    PROVE  ConnInv'
<1>0. RelayInv /\ TypeOK
  BY DEF TInv, IInv
<1>1. CASE ReceiverSends
  <2>1. PICK q \in Role : q = "Receiver"
    BY DEF Role
  <2>2. up # <<>> /\ up' = Tail(up) /\ UNCHANGED <<state, logged_in>>
    BY <1>1 DEF ReceiverSends, SendMessage
  <2>3. Queue(q) \in Seq(Wire) /\ Queue(q) # <<>> /\ Post(q, Head(Queue(q))) /\ Queue(q)' = Tail(Queue(q))
    BY <1>0, <1>1, <2>1, <2>2, QueueTypes, Roles, RolesPrimed DEF ReceiverSends
  <2>4. \A r \in Role : /\ StateOf(r)' = StateOf(r) /\ (Idling(r) => Idling(r)')
                        /\ r # q => Queue(r)' = Queue(r)
    BY <1>1, <2>1, <2>2, Unmoved, Roles, RolesPrimed DEF ReceiverSends
  <2> QED BY <1>0, <2>3, <2>4, PostConn
<1>2. CASE SenderSends
  <2>1. PICK q \in Role : q = "Sender"
    BY DEF Role
  <2>2. events # <<>> /\ events' = Tail(events) /\ UNCHANGED <<sender_state, tasks>>
    BY <1>2 DEF SenderSends, S!SendMessage
  <2>p. \A x \in Sending : x.message \in Wire
    BY DEF Sending, Wire
  <2>3. events \in Seq(Sending)
    BY DEF LifeInv
  <2>4. /\ Payloads(events) # <<>> /\ Head(Payloads(events)) = Head(events).message
        /\ Payloads(Tail(events)) = Tail(Payloads(events))
    BY <2>2, <2>3, <2>p, PayloadsFacts
  <2>5. Queue(q) \in Seq(Wire) /\ Queue(q) # <<>> /\ Post(q, Head(Queue(q))) /\ Queue(q)' = Tail(Queue(q))
    BY <1>0, <1>2, <2>1, <2>2, <2>4, QueueTypes, Roles, RolesPrimed DEF SenderSends
  <2>6. \A r \in Role : /\ StateOf(r)' = StateOf(r) /\ (Idling(r) => Idling(r)')
                        /\ r # q => Queue(r)' = Queue(r)
    BY <1>2, <2>1, <2>2, Unmoved, Roles, RolesPrimed DEF SenderSends
  <2> QED BY <1>0, <2>5, <2>6, PostConn
<1> QED BY <1>1, <1>2

\* A client dies, comes back or logs in.
LEMMA DiesConn ==
    ASSUME TInv, LifeInv, ConnInv, NEW q \in Role, Dies(q) \/ Returns(q) \/ LogsIn(q)
    PROVE  ConnInv'
<1>0. RelayInv /\ inbox \in Seq(Packet) /\ GoodConn(q)
  BY DEF TInv, RelayInv, ConnInv
<1>1. \A r \in Role : r # q => /\ Queue(r)' = Queue(r) /\ StateOf(r)' = StateOf(r)
                               /\ Idling(r) => Idling(r)'
  <2>1. CASE q = "Receiver"
    <3>1. UNCHANGED senderVars
      BY <2>1, Roles DEF Dies, Returns, LogsIn
    <3> QED BY <2>1, <3>1, Unmoved, Roles
  <2>2. CASE q = "Sender"
    <3>1. UNCHANGED vars
      BY <2>2, Roles DEF Dies, Returns, LogsIn
    <3> QED BY <2>2, <3>1, Unmoved, Roles
  <2> QED BY <2>1, <2>2, Roles
<1>2. CASE Dies(q)
  <2>1. Ended(inbox, q) /\ conn[q] # "open"
    BY <1>2 DEF Dies, Connected
  <2>2. GoodConn(q)'
    BY <1>0, <2>1, EndedConn DEF GoodConn, Said
  <2>3. ASSUME NEW r \in Role, r # q PROVE GoodConn(r)'
    <3>1. conn'[r] = conn[r] /\ outgoing'[r] = outgoing[r] /\ Said(r)' = Said(r)
      BY <1>0, <2>1, <2>3, EndedOther DEF Said
    <3> QED BY <1>1, <2>3, <3>1 DEF ConnInv, GoodConn
  <2> QED BY <2>2, <2>3 DEF ConnInv
<1>3. CASE Returns(q)
  <2>1. /\ conn[q] = "out" /\ conn' = [conn EXCEPT ![q] = "open"] /\ UNCHANGED <<inbox, outgoing>>
    BY <1>3 DEF Returns
  <2>2. \A r \in Role : Said(r)' = Said(r)
    BY <2>1 DEF Said
  <2>3. StateOf(q) = "Crashed" /\ StateOf(q)' = "None" /\ Queue(q)' = Queue(q) /\ (Idling(q) => Idling(q)')
    <3>1. CASE q = "Receiver"
      BY <1>3, <3>1, Roles, RolesPrimed DEF Returns, Restart
    <3>2. CASE q = "Sender"
      BY <1>3, <3>2, Roles, RolesPrimed DEF Returns, S!Restart
    <3> QED BY <3>1, <3>2, Roles
  <2>4. Queue(q) = <<>> /\ Idling(q)
    BY <2>3 DEF LifeInv
  <2>5. Said(q) = <<>> /\ outgoing[q] = <<>>
    BY <1>0, <2>1 DEF GoodConn
  <2>6. conn'[q] = "open"
    BY <2>1 DEF TInv, RelayInv
  <2>7. GoodConn(q)'
    BY <2>1, <2>2, <2>3, <2>4, <2>5, <2>6 DEF GoodConn
  <2>8. ASSUME NEW r \in Role, r # q PROVE GoodConn(r)'
    <3>1. conn'[r] = conn[r]
      BY <2>1, <2>8 DEF TInv, RelayInv
    <3> QED BY <1>1, <2>1, <2>2, <2>8, <3>1 DEF ConnInv, GoodConn
  <2> QED BY <2>7, <2>8 DEF ConnInv
<1>4. CASE LogsIn(q)
  <2>1. conn[q] = "open" /\ UNCHANGED <<inbox, outgoing, conn>>
    BY <1>4 DEF LogsIn, relayVars
  <2>2. \A r \in Role : Said(r)' = Said(r)
    BY <2>1 DEF Said
  <2>3. StateOf(q) = "None"
    BY <1>4, Roles DEF LogsIn
  <2>4. Said(q) \o Queue(q) = <<>> /\ Idling(q) /\ Queue(q) = <<>>
    BY <1>0, <2>1, <2>3 DEF GoodConn, LifeInv
  <2>5. Said(q) = <<>>
    <3>1. PICK s \in Seq(Wire) : s = Said(q)
      BY <1>0, SaidFacts DEF Said
    <3>2. s \o <<>> = s
      OBVIOUS
    <3> QED BY <2>4, <3>1, <3>2
  <2>6. StateOf(q)' = "Initializing" /\ Queue(q)' = <<[type |-> "Login"]>> /\ (Idling(q) => Idling(q)')
    <3>1. CASE q = "Receiver"
      <4>1. up = <<>> /\ LogInAsReceiver /\ ~torn
        BY <1>4, <2>4, <3>1, Roles DEF LogsIn, LifeInv
      <4>2. up' = Append(<<>>, [type |-> "Login"]) /\ state' = "Initializing" /\ UNCHANGED logged_in
        BY <4>1 DEF LogInAsReceiver, NewReceiver, send_message
      <4> QED BY <3>1, <4>2, Roles, RolesPrimed
    <3>2. CASE q = "Sender"
      <4>1. events = <<>> /\ S!LogInAsSender
        BY <1>4, <2>4, <3>2, NoEvents, Roles DEF LogsIn, LifeInv
      <4>2. PICK m : m = [type |-> "Login"]
        OBVIOUS
      <4>3. events' = Append(<<>>, S!Message(m)) /\ sender_state' = "Initializing" /\ UNCHANGED tasks
        BY <4>1, <4>2 DEF S!LogInAsSender
      <4>4. Payloads(events') = <<m>>
        <5>1. events' = <<S!Message(m)>> /\ DOMAIN events' = {1} /\ events'[1].message = m
          BY <4>3 DEF S!Message
        <5>2. Payloads(events') = [i \in {1} |-> m]
          BY <5>1 DEF Payloads
        <5>3. <<m>> = [i \in {1} |-> m]
          OBVIOUS
        <5> QED BY <5>2, <5>3
      <4> QED BY <3>2, <4>2, <4>3, <4>4, Roles, RolesPrimed
    <3> QED BY <3>1, <3>2, Roles
  <2>7. GoodConn(q)'
    <3>1. Said(q)' \o Queue(q)' = <<[type |-> "Login"]>>
      <4>1. PICK m : m = [type |-> "Login"]
        OBVIOUS
      <4>2. <<>> \o <<m>> = <<m>>
        OBVIOUS
      <4> QED BY <2>2, <2>5, <2>6, <4>1, <4>2
    <3>2. outgoing[q] = <<>>
      BY <1>0, <2>1 DEF GoodConn
    <3> QED BY <2>1, <2>4, <2>6, <3>1, <3>2 DEF GoodConn
  <2>8. ASSUME NEW r \in Role, r # q PROVE GoodConn(r)'
    BY <1>1, <2>1, <2>2, <2>8 DEF ConnInv, GoodConn
  <2> QED BY <2>7, <2>8 DEF ConnInv
<1> QED BY <1>2, <1>3, <1>4

\* What the server knows of the connections stays right.
LEMMA ConnStep ==
    ASSUME TInv, TInv', LifeInv, LifeInv', ConnInv, [TransferNext]_transferVars
    PROVE  ConnInv'
<1>1. CASE ReceiverSends \/ SenderSends
  BY <1>1, SendsConn
<1>2. CASE \/ \E p \in Path : \E l \in Locals(p) : Download(p, l)
           \/ \E p \in Path : Resume(p)
           \/ Stop
           \/ ReceiverTakes
           \/ ReceiverLogsOn
  BY <1>2, ReceiverConn
<1>3. CASE SenderTakes \/ \E t \in Task : Transfers(t)
  BY <1>3, SenderConn
<1>4. CASE ServerHandles
  BY <1>4, ServerConn DEF TInv, IInv
<1>5. CASE \E r \in Role : Dies(r) \/ Returns(r) \/ LogsIn(r)
  BY <1>5, DiesConn
<1>6. CASE AtRest \/ UNCHANGED transferVars
  <2>1. UNCHANGED <<vars, senderVars, inbox, outgoing, conn>>
    BY <1>6 DEF AtRest, transferVars, relayVars
  <2>2. \A r \in Role : /\ Queue(r)' = Queue(r) /\ StateOf(r)' = StateOf(r) /\ (Idling(r) => Idling(r)')
                        /\ Said(r)' = Said(r)
    BY <2>1, Unmoved, Roles DEF Said
  <2> QED BY <2>1, <2>2 DEF ConnInv, GoodConn
<1> QED BY <1>1, <1>2, <1>3, <1>4, <1>5, <1>6 DEF TransferNext

\* At the start both clients are logged in and nothing has been said.
LEMMA InitConn == TransferInit => LifeInv /\ ConnInv
<1> SUFFICES ASSUME TransferInit PROVE LifeInv /\ ConnInv
  OBVIOUS
<1>0. <<>> \in Seq(Sending) /\ <<>> \in Seq(Ordinary) /\ <<>> \in Seq(Packet)
  OBVIOUS
<1>1. events = <<>> /\ up = <<>> /\ inbox = <<>> /\ ~torn /\ state = "Idle" /\ sender_state = "Idle"
  BY DEF TransferInit
<1>2. LifeInv
  BY <1>0, <1>1, Roles DEF LifeInv
<1>3. ASSUME NEW r \in Role PROVE GoodConn(r)
  <2>1. Queue(r) = <<>>
    BY <1>0, <1>1, NoEvents, Roles
  <2>2. Said(r) = <<>>
    BY <1>0, <1>1, SaidFacts DEF Said
  <2>3. conn[r] = "in"
    BY DEF TransferInit
  <2> QED BY <1>0, <2>1, <2>2, <2>3 DEF GoodConn
<1> QED BY <1>2, <1>3 DEF ConnInv

-----------------------------------------------------------------------------
(***************************************************************************)
(* The order of the blocks.                                                *)
(***************************************************************************)

\* The chunk that is awaited, and the request for it.
Awaited == index[requesting_chunk.remote_path].meta.chunks[requesting_chunk.chunk_index + 1]

Asked == [type |-> "RequestChunk", path |-> requesting_chunk.remote_path,
          index |-> requesting_chunk.chunk_index, hash |-> Awaited.hash]

\* The blocks on their way to the receiver, the first one first.
Flow == Blocks(outgoing["Receiver"]) \o Blocks(Payloads(inbox)) \o Blocks(Payloads(events))

\* The orders on their way to the sender.
Chain == Orders(outgoing["Sender"]) \o Orders(Payloads(inbox)) \o Orders(up)

\* What every transfer has still to send.
Left == [t \in Task |-> Unsent(t)]

OtherWire == {m \in Wire : m.type # "RequestChunk"}

\* The request has not reached the sender: it is the last order on its way, no
\* other is a request, and there are no blocks.
Pending ==
    /\ \E st \in Seq(OtherWire) : Chain = st \o <<Asked>>
    /\ requesting_chunk.hashed = <<>> /\ Flow = <<>>
    /\ \A t \in Task : Left[t] = <<>>

\* It has: what was received, what is on its way and what one transfer, which
\* is not cancelled, has still to send make up the chunk.
Underway ==
    /\ Chain = <<>>
    /\ \A t, u \in Task : Left[t] # <<>> /\ Left[u] # <<>> => t = u
    /\ \A t \in Task : Left[t] # <<>> => ~tasks[t].cancelled
    /\ Awaited.hash = requesting_chunk.hashed \o (Flow \o Rest)

OrderInv ==
    fresh =>
        /\ \A r \in Role : conn[r] = "in"
        /\ state = "RequestedChunk" => Pending \/ Underway

\* Two sequences put together: the provers reason better about the name.
Cat(a, b) == a \o b

\* Sequences put together can be taken apart anywhere.
LEMMA CatAssoc ==
    ASSUME NEW T
    PROVE  \A a, b, c \in Seq(T) : Cat(a, b) \in Seq(T) /\ Cat(Cat(a, b), c) = Cat(a, Cat(b, c))
<1> TAKE a, b, c \in Seq(T)
<1>1. (a \o b) \o c = a \o (b \o c)
  OBVIOUS
<1>2. a \o b \in Seq(T)
  BY ConcatFacts
<1> QED BY <1>1, <1>2 DEF Cat

\* The ones in the next state.
LEMMA FlowPrimed ==
    /\ Flow' = Blocks(outgoing'["Receiver"]) \o Blocks(Payloads(inbox')) \o Blocks(Payloads(events'))
    /\ Chain' = Orders(outgoing'["Sender"]) \o Orders(Payloads(inbox')) \o Orders(up')
BY DEF Flow, Chain, Blocks, Orders, Gather, Payloads

\* Queues, blocks and orders have the types they should have.
LEMMA OrderTypes ==
    ASSUME TInv, LifeInv
    PROVE  /\ outgoing["Receiver"] \in Seq(Wire) /\ outgoing["Sender"] \in Seq(Wire)
           /\ inbox \in Seq(Packet) /\ Payloads(inbox) \in Seq(Wire)
           /\ events \in Seq(Sending) /\ Payloads(events) \in Seq(Wire) /\ up \in Seq(Wire)
           /\ Flow \in Seq(Byte) /\ Chain \in Seq(Wire)
<1>1. outgoing["Receiver"] \in Seq(Wire) /\ outgoing["Sender"] \in Seq(Wire) /\ inbox \in Seq(Packet)
  BY DEF TInv, RelayInv, Role
<1>2. Payloads(inbox) \in Seq(Wire)
  <2>1. \A x \in Packet : x.message \in Wire
    BY DEF Packet
  <2>2. PICK U : U = Packet
    OBVIOUS
  <2> QED BY <1>1, <2>1, <2>2, PayloadsFacts
<1>3. Payloads(events) \in Seq(Wire) /\ up \in Seq(Wire) /\ events \in Seq(Sending)
  BY QueueTypes, Roles DEF TInv, IInv, LifeInv
<1>4. Flow \in Seq(Byte)
  <2>1. PICK a \in Seq(Byte), b \in Seq(Byte), c \in Seq(Byte) :
           a = Blocks(outgoing["Receiver"]) /\ b = Blocks(Payloads(inbox)) /\ c = Blocks(Payloads(events))
    BY <1>1, <1>2, <1>3, BlocksFacts
  <2> QED BY <2>1, ConcatFacts DEF Flow
<1>5. Chain \in Seq(Wire)
  <2>1. PICK T : T = Wire
    OBVIOUS
  <2>2. PICK a \in Seq(T), b \in Seq(T), c \in Seq(T) :
           a = Orders(outgoing["Sender"]) /\ b = Orders(Payloads(inbox)) /\ c = Orders(up)
    BY <1>1, <1>2, <1>3, <2>1, OrdersFacts
  <2>3. (a \o b) \o c \in Seq(T)
    BY ConcatFacts
  <2> QED BY <2>1, <2>2, <2>3 DEF Chain
<1> QED BY <1>1, <1>2, <1>3, <1>4, <1>5

\* Files are made of blocks.
LEMMA BytesFacts == S!Bytes \subseteq Byte /\ \A d \in Seq(S!Bytes) : d \in Seq(Byte)
<1>1. S!Bytes \subseteq Byte
  <2>1. ASSUME NEW l \in DOMAIN Original, NEW i \in DOMAIN Original[l] PROVE Original[l][i] \in Byte
    BY OriginalAssumption
  <2> QED BY <2>1 DEF S!Bytes
<1> QED BY <1>1

\* The end of h, from where s ends.
LEMMA EndPart ==
    ASSUME NEW h \in Seq(Byte), NEW s \in Seq(Byte), Len(s) <= Len(h)
    PROVE  /\ SubSeq(h, Len(s) + 1, Len(h)) \in Seq(Byte)
           /\ Len(SubSeq(h, Len(s) + 1, Len(h))) = Len(h) - Len(s)
           /\ \A i \in 1 .. Len(h) - Len(s) : SubSeq(h, Len(s) + 1, Len(h))[i] = h[Len(s) + i]
<1>1. PICK k \in Nat, n \in Nat : k = Len(s) /\ n = Len(h)
  OBVIOUS
<1>2. k + 1 \in 1 .. Len(h) + 1 /\ n \in k .. Len(h)
  BY <1>1
<1>3. /\ SubSeq(h, k + 1, n) \in Seq(Byte)
      /\ Len(SubSeq(h, k + 1, n)) = n - k
      /\ \A i \in 1 .. n - k : SubSeq(h, k + 1, n)[i] = h[k + i]
  BY <1>1, <1>2, SubSeqProperties
<1> QED BY <1>1, <1>3

\* If b is what follows s in h, it is the beginning of the end of h from there.
LEMMA EndSplits ==
    ASSUME NEW h \in Seq(Byte), NEW s \in Seq(Byte), NEW b \in Seq(Byte), Len(s \o b) <= Len(h),
           \A i \in 1 .. Len(s \o b) : (s \o b)[i] = h[i]
    PROVE  SubSeq(h, Len(s) + 1, Len(h)) = b \o SubSeq(h, Len(s \o b) + 1, Len(h))
<1>1. PICK k \in Nat, n \in Nat, j \in Nat : k = Len(s) /\ n = Len(h) /\ j = Len(b)
  OBVIOUS
<1>2. PICK r \in Seq(Byte) : r = s \o b
  BY ConcatFacts
<1>3. Len(r) = k + j /\ \A i \in 1 .. j : r[k + i] = b[i]
  <2>1. Len(r) = k + j /\ \A i \in 1 .. k + j : r[i] = IF i <= k THEN s[i] ELSE b[i - k]
    BY <1>1, <1>2, ConcatProperties
  <2>2. \A i \in 1 .. j : k + i \in 1 .. k + j /\ ~(k + i <= k) /\ (k + i) - k = i
    BY <1>1
  <2> QED BY <2>1, <2>2
<1>4. k + j <= n /\ k <= n
  BY <1>1, <1>2, <1>3
<1>5. PICK e \in Seq(Byte) : e = SubSeq(h, Len(s) + 1, Len(h))
  BY <1>1, <1>4, EndPart
<1>6. PICK f \in Seq(Byte) : f = SubSeq(h, Len(r) + 1, Len(h))
  BY <1>1, <1>3, <1>4, EndPart
<1>7. Len(e) = n - k /\ \A i \in 1 .. n - k : e[i] = h[k + i]
  BY <1>1, <1>4, <1>5, EndPart
<1>8. Len(f) = n - (k + j) /\ \A i \in 1 .. n - (k + j) : f[i] = h[(k + j) + i]
  BY <1>1, <1>3, <1>4, <1>6, EndPart
<1>9. PICK g \in Seq(Byte) : g = b \o f
  BY ConcatFacts
<1>10. Len(g) = n - k /\ \A i \in 1 .. n - k : g[i] = IF i <= j THEN b[i] ELSE f[i - j]
  <2>1. PICK d \in Nat : d = Len(f)
    OBVIOUS
  <2>2. Len(g) = j + d /\ \A i \in 1 .. j + d : g[i] = IF i <= j THEN b[i] ELSE f[i - j]
    BY <1>1, <1>9, <2>1, ConcatProperties
  <2>3. j + d = n - k
    BY <1>1, <1>8, <2>1
  <2> QED BY <2>2, <2>3
<1>11. ASSUME NEW i \in 1 .. n - k PROVE g[i] = e[i]
  <2>1. CASE i <= j
    <3>1. i \in 1 .. j /\ k + i \in 1 .. Len(r)
      BY <1>3, <2>1
    <3>2. b[i] = h[k + i]
      BY <1>2, <1>3, <3>1
    <3> QED BY <1>7, <1>10, <2>1, <3>2
  <2>2. CASE ~(i <= j)
    <3>1. i - j \in 1 .. n - (k + j) /\ (k + j) + (i - j) = k + i
      BY <1>4, <2>2
    <3> QED BY <1>7, <1>8, <1>10, <2>2, <3>1
  <2> QED BY <2>1, <2>2
<1>12. g = e
  BY <1>4, <1>7, <1>10, <1>11
<1> QED BY <1>2, <1>5, <1>6, <1>9, <1>12

\* What a transfer in task r has still to send.
LeftOf(r) == IF r = NoTask THEN <<>> ELSE SubSeq(r.chunk.hash, Len(r.sent) + 1, r.chunk.size)

\* What a transfer has still to send.
LEMMA LeftFacts ==
    ASSUME TInv
    PROVE  /\ Left = [t \in Task |-> LeftOf(tasks[t])]
           /\ \A t \in Task :
                 /\ Left[t] \in Seq(Byte)
                 /\ tasks[t] # NoTask =>
                       /\ tasks[t] \in SP!TaskState /\ SP!GoodTask(tasks[t], Original[tasks[t].local])
                       /\ tasks[t].sent \in Seq(Byte) /\ tasks[t].chunk.hash \in Seq(Byte)
                       /\ Len(tasks[t].chunk.hash) = tasks[t].chunk.size
                       /\ Len(tasks[t].sent) <= Len(tasks[t].chunk.hash)
                       /\ S!Over(tasks[t]) => Left[t] = <<>>
<1>1. Left = [t \in Task |-> LeftOf(tasks[t])]
  BY DEF Left, Unsent, LeftOf
<1>2. ASSUME NEW t \in Task, tasks[t] # NoTask
      PROVE  /\ tasks[t] \in SP!TaskState /\ SP!GoodTask(tasks[t], Original[tasks[t].local])
             /\ tasks[t].sent \in Seq(Byte) /\ tasks[t].chunk.hash \in Seq(Byte)
             /\ Len(tasks[t].chunk.hash) = tasks[t].chunk.size
             /\ Len(tasks[t].sent) <= Len(tasks[t].chunk.hash)
             /\ S!Over(tasks[t]) => LeftOf(tasks[t]) = <<>>
             /\ LeftOf(tasks[t]) \in Seq(Byte)
  <2>1. PICK r : r = tasks[t]
    OBVIOUS
  <2>2. r \in SP!TaskState /\ SP!GoodTask(r, Original[r.local])
    BY <1>2, <2>1 DEF TInv, SP!IInv, SP!TypeOK, SP!TaskState, SP!TasksInv
  <2>3. r.sent \in Seq(Byte) /\ r.chunk.hash \in Seq(Byte) /\ r.chunk \in SP!Chunk
    BY <2>2, BytesFacts, SameSender DEF SP!TaskState, SP!Chunk
  <2>4. Len(r.chunk.hash) = r.chunk.size /\ Len(r.sent) <= r.chunk.size
    BY <2>2 DEF SP!GoodTask
  <2>5. S!Over(r) => Len(r.sent) = r.chunk.size
    BY <2>2 DEF SP!GoodTask, SP!Over, S!Over
  <2>6. PICK h \in Seq(Byte), s \in Seq(Byte) : h = r.chunk.hash /\ s = r.sent
    BY <2>3
  <2>7. LeftOf(r) = SubSeq(h, Len(s) + 1, Len(h))
    BY <1>2, <2>1, <2>4, <2>6 DEF LeftOf
  <2>8. LeftOf(r) \in Seq(Byte) /\ Len(LeftOf(r)) = Len(h) - Len(s)
    BY <2>4, <2>6, <2>7, EndPart
  <2>9. S!Over(r) => LeftOf(r) = <<>>
    BY <2>4, <2>5, <2>6, <2>8
  <2> QED BY <2>1, <2>2, <2>3, <2>4, <2>8, <2>9
<1>3. \A t \in Task : tasks[t] = NoTask => LeftOf(tasks[t]) = <<>> /\ <<>> \in Seq(Byte)
  BY DEF LeftOf
<1> QED BY <1>1, <1>2, <1>3

\* What the only transfer that has something left has still to send.
LEMMA RestFacts ==
    ASSUME TInv, \A t, u \in Task : Left[t] # <<>> /\ Left[u] # <<>> => t = u
    PROVE  /\ Rest \in Seq(Byte)
           /\ (\A t \in Task : Left[t] = <<>>) => Rest = <<>>
           /\ \A t \in Task : Left[t] # <<>> => Rest = Left[t]
<1>1. \A t \in Task : Left[t] = Unsent(t)
  BY DEF Left
<1>2. CASE \A t \in Task : Left[t] = <<>>
  <2>1. Rest = <<>>
    BY <1>1, <1>2 DEF Rest
  <2>2. <<>> \in Seq(Byte)
    OBVIOUS
  <2> QED BY <1>2, <2>1, <2>2
<1>3. ASSUME NEW t \in Task, Left[t] # <<>> PROVE Rest = Left[t] /\ Rest \in Seq(Byte)
  <2>1. PICK u : u = CHOOSE v \in Task : Unsent(v) # <<>>
    OBVIOUS
  <2>2. u \in Task /\ Unsent(u) # <<>>
    BY <1>1, <1>3, <2>1
  <2>3. u = t
    BY <1>1, <1>3, <2>2
  <2>4. Rest = Unsent(u)
    BY <1>1, <1>3, <2>1 DEF Rest
  <2> QED BY <1>1, <1>3, <2>3, <2>4, LeftFacts
<1> QED BY <1>2, <1>3

\* Rest after a step, if at most one transfer has something left.
LEMMA RestPrimed ==
    ASSUME \A t, u \in Task : Left'[t] # <<>> /\ Left'[u] # <<>> => t = u
    PROVE  /\ (\A t \in Task : Left'[t] = <<>>) => Rest' = <<>>
           /\ \A t \in Task : Left'[t] # <<>> => Rest' = Left'[t]
<1>1. \A t \in Task : Left'[t] = Unsent(t)'
  BY DEF Left
<1>2. CASE \A t \in Task : Left'[t] = <<>>
  BY <1>1, <1>2 DEF Rest
<1>3. ASSUME NEW t \in Task, Left'[t] # <<>> PROVE Rest' = Left'[t]
  <2>1. PICK u : u = (CHOOSE v \in Task : Unsent(v) # <<>>)'
    OBVIOUS
  <2>2. u \in Task /\ Left'[u] # <<>> /\ Left'[u] = Unsent(u)'
    BY <1>1, <1>3, <2>1
  <2>3. u = t
    BY <1>3, <2>2
  <2>4. Rest' = Unsent(CHOOSE v \in Task : Unsent(v) # <<>>)'
    BY <1>1, <1>3 DEF Rest
  <2> QED BY <1>1, <2>1, <2>2, <2>3, <2>4
<1> QED BY <1>2, <1>3

\* A step that changes nothing the order depends on.
LEMMA OrderFrame ==
    ASSUME TInv, OrderInv, fresh, UNCHANGED <<state, requesting_chunk, index, conn>>,
           Flow' = Flow, Chain' = Chain, Left' = Left,
           \A t \in Task : Left[t] # <<>> => tasks'[t].cancelled = tasks[t].cancelled
    PROVE  OrderInv'
<1>1. Awaited' = Awaited /\ Asked' = Asked
  BY DEF Awaited, Asked
<1>2. Pending => Pending'
  BY <1>1 DEF Pending
<1>3. ASSUME Underway PROVE Underway'
  <2>1. \A t, u \in Task : Left[t] # <<>> /\ Left[u] # <<>> => t = u
    BY <1>3 DEF Underway
  <2>2. Rest' = Rest
    BY <2>1, RestFacts, RestPrimed
  <2> QED BY <1>1, <1>3, <2>2 DEF Underway
<1> QED BY <1>2, <1>3 DEF OrderInv

\* The blocks and orders a message may be.
LEMMA MessageFacts ==
    ASSUME NEW m \in Wire
    PROVE  /\ Block(m) \in Seq(Byte) /\ Order(m) \in Seq(Wire)
           /\ m.type # "TransmitChunk" => Block(m) = <<>>
           /\ m.type = "TransmitChunk" => Block(m) = m.data
           /\ m.type \notin {"RequestChunk", "StopChunk"} => Order(m) = <<>>
           /\ m.type \in {"RequestChunk", "StopChunk"} => Order(m) = <<m>>
<1>1. <<>> \in Seq(Byte) /\ <<>> \in Seq(Wire)
  OBVIOUS
<1>2. Block(m) \in Seq(Byte)
  BY <1>1, WireFacts DEF Block
<1> QED BY <1>1, <1>2 DEF Block, Order

\* Blocks and orders that go from the head of a queue to the end of the one
\* before it.
BlocksKept(p, q, r) ==
    /\ q # <<>> => (Blocks(p) \o Block(Head(q))) \o Blocks(Tail(q)) = Blocks(p) \o Blocks(q)
    /\ r # <<>> => (Blocks(p) \o (Blocks(q) \o Block(Head(r)))) \o Blocks(Tail(r))
                      = (Blocks(p) \o Blocks(q)) \o Blocks(r)

\* So they do in any three queues.
LEMMA BlocksMove ==
    ASSUME NEW p \in Seq(Wire), NEW q \in Seq(Wire), NEW r \in Seq(Wire)
    PROVE  BlocksKept(p, q, r)
<1>1. PICK T : T = Byte
  OBVIOUS
<1>2. Blocks(p) \in Seq(T) /\ Blocks(q) \in Seq(T) /\ Blocks(r) \in Seq(T)
  BY <1>1, BlocksFacts
<1>3. ASSUME NEW s \in Seq(Wire), s # <<>>
      PROVE  Block(Head(s)) \in Seq(T) /\ Blocks(Tail(s)) \in Seq(T) /\ Blocks(s) = Block(Head(s)) \o Blocks(Tail(s))
  <2>1. Head(s) \in Wire /\ Tail(s) \in Seq(Wire)
    BY <1>3
  <2> QED BY <1>1, <1>3, <2>1, BlocksFacts
<1>4. ASSUME q # <<>> PROVE (Blocks(p) \o Block(Head(q))) \o Blocks(Tail(q)) = Blocks(p) \o Blocks(q)
  <2>1. PICK a \in Seq(T), x \in Seq(T), d \in Seq(T) : a = Blocks(p) /\ x = Block(Head(q)) /\ d = Blocks(Tail(q))
    BY <1>2, <1>3, <1>4
  <2>2. Cat(Cat(a, x), d) = Cat(a, Cat(x, d))
    BY CatAssoc
  <2> QED BY <1>3, <1>4, <2>1, <2>2 DEF Cat
<1>5. ASSUME r # <<>>
      PROVE  (Blocks(p) \o (Blocks(q) \o Block(Head(r)))) \o Blocks(Tail(r)) = (Blocks(p) \o Blocks(q)) \o Blocks(r)
  <2>1. PICK a \in Seq(T), b \in Seq(T), c \in Seq(T), x \in Seq(T), d \in Seq(T) :
           a = Blocks(p) /\ b = Blocks(q) /\ c = Blocks(r) /\ x = Block(Head(r)) /\ d = Blocks(Tail(r))
    BY <1>2, <1>3, <1>5
  <2>2. c = Cat(x, d)
    BY <1>3, <1>5, <2>1 DEF Cat
  <2>3. Cat(Cat(a, Cat(b, x)), d) = Cat(Cat(a, b), c)
    BY <2>2, CatAssoc
  <2> QED BY <2>1, <2>3 DEF Cat
<1> QED BY <1>4, <1>5 DEF BlocksKept

\* An order that goes on to the next queue stays in its place.
OrdersKept(p, q, r) ==
    /\ q # <<>> => (Orders(p) \o Order(Head(q))) \o Orders(Tail(q)) = Orders(p) \o Orders(q)
    /\ r # <<>> => (Orders(p) \o (Orders(q) \o Order(Head(r)))) \o Orders(Tail(r))
                      = (Orders(p) \o Orders(q)) \o Orders(r)

\* So they do in any three queues.
LEMMA OrdersMove ==
    ASSUME NEW p \in Seq(Wire), NEW q \in Seq(Wire), NEW r \in Seq(Wire)
    PROVE  OrdersKept(p, q, r)
<1>1. PICK T : T = Wire
  OBVIOUS
<1>2. Orders(p) \in Seq(T) /\ Orders(q) \in Seq(T) /\ Orders(r) \in Seq(T)
  BY <1>1, OrdersFacts
<1>3. ASSUME NEW s \in Seq(Wire), s # <<>>
      PROVE  Order(Head(s)) \in Seq(T) /\ Orders(Tail(s)) \in Seq(T) /\ Orders(s) = Order(Head(s)) \o Orders(Tail(s))
  <2>1. Head(s) \in Wire /\ Tail(s) \in Seq(Wire)
    BY <1>3
  <2> QED BY <1>1, <1>3, <2>1, OrdersFacts
<1>4. ASSUME q # <<>> PROVE (Orders(p) \o Order(Head(q))) \o Orders(Tail(q)) = Orders(p) \o Orders(q)
  <2>1. PICK a \in Seq(T), x \in Seq(T), d \in Seq(T) : a = Orders(p) /\ x = Order(Head(q)) /\ d = Orders(Tail(q))
    BY <1>2, <1>3, <1>4
  <2>2. Cat(Cat(a, x), d) = Cat(a, Cat(x, d))
    BY CatAssoc
  <2> QED BY <1>3, <1>4, <2>1, <2>2 DEF Cat
<1>5. ASSUME r # <<>>
      PROVE  (Orders(p) \o (Orders(q) \o Order(Head(r)))) \o Orders(Tail(r)) = (Orders(p) \o Orders(q)) \o Orders(r)
  <2>1. PICK a \in Seq(T), b \in Seq(T), c \in Seq(T), x \in Seq(T), d \in Seq(T) :
           a = Orders(p) /\ b = Orders(q) /\ c = Orders(r) /\ x = Order(Head(r)) /\ d = Orders(Tail(r))
    BY <1>2, <1>3, <1>5
  <2>2. c = Cat(x, d)
    BY <1>3, <1>5, <2>1 DEF Cat
  <2>3. Cat(Cat(a, Cat(b, x)), d) = Cat(Cat(a, b), c)
    BY <2>2, CatAssoc
  <2> QED BY <2>1, <2>3 DEF Cat
<1> QED BY <1>4, <1>5 DEF OrdersKept

\* A client sends a message: its blocks and orders go on.
LEMMA PostOrder ==
    ASSUME TInv, LifeInv, NEW r \in Role, NEW m \in Wire, Post(r, m)
    PROVE  /\ UNCHANGED <<outgoing, conn, fresh>>
           /\ Blocks(Payloads(inbox')) = Blocks(Payloads(inbox)) \o Block(m)
           /\ Orders(Payloads(inbox')) = Orders(Payloads(inbox)) \o Order(m)
<1>1. PICK x \in Packet : x = [from |-> r, message |-> m]
  BY DEF Packet
<1>2. inbox' = Append(inbox, x) /\ UNCHANGED <<outgoing, conn, fresh>>
  BY <1>1 DEF Post, history
<1>3. PICK U : U = Packet
  OBVIOUS
<1>4. inbox \in Seq(U) /\ x \in U /\ \A y \in U : y.message \in Wire
  BY <1>3, OrderTypes DEF Packet
<1>5. Payloads(Append(inbox, x)) = Append(Payloads(inbox), m)
  BY <1>1, <1>4, PayloadsFacts
<1>6. Payloads(inbox) \in Seq(Wire)
  BY OrderTypes
<1> QED BY <1>2, <1>5, <1>6, BlocksFacts, OrdersFacts

\* A message on its way to the server keeps the order.
LEMMA SendsOrder ==
    ASSUME TInv, LifeInv, OrderInv, fresh, ReceiverSends \/ SenderSends
    PROVE  OrderInv'
<1>0. "Receiver" \in Role /\ "Sender" \in Role
  BY DEF Role
<1>t. PICK T : T = Wire
  OBVIOUS
<1>a. PICK a \in Seq(Byte), b \in Seq(Byte), c \in Seq(Byte) :
         a = Blocks(outgoing["Receiver"]) /\ b = Blocks(Payloads(inbox)) /\ c = Blocks(Payloads(events))
  BY OrderTypes, BlocksFacts
<1>o. PICK ao \in Seq(T), bo \in Seq(T), co \in Seq(T) :
         ao = Orders(outgoing["Sender"]) /\ bo = Orders(Payloads(inbox)) /\ co = Orders(up)
  BY <1>t, OrderTypes, OrdersFacts
<1>e. bo \o <<>> = bo /\ b \o <<>> = b
  BY ConcatFacts
<1>1. CASE ReceiverSends
  <2>1. /\ up # <<>> /\ up' = Tail(up) /\ Post("Receiver", Head(up))
        /\ UNCHANGED <<state, requesting_chunk, index, events, tasks>>
    BY <1>1 DEF ReceiverSends, SendMessage, senderVars
  <2>2. up \in Seq(Message) /\ up \in Seq(Wire)
    BY OrderTypes DEF TInv, IInv, TypeOK
  <2>3. PICK m \in Message : m = Head(up)
    BY <2>1, <2>2
  <2>4. m \in Wire /\ m.type # "TransmitChunk"
    BY <2>3 DEF Wire, Message
  <2>5. /\ UNCHANGED <<outgoing, conn, fresh>>
        /\ Blocks(Payloads(inbox')) = b \o Block(m)
        /\ Orders(Payloads(inbox')) = bo \o Order(m)
    BY <1>0, <1>a, <1>o, <2>1, <2>3, <2>4, PostOrder
  <2>6. Flow' = Flow
    <3>1. Block(m) = <<>>
      BY <2>4, MessageFacts
    <3> QED BY <1>a, <1>e, <2>1, <2>5, <3>1, FlowPrimed DEF Flow
  <2>7. Chain' = Chain
    <3>1. (ao \o (bo \o Order(m))) \o Orders(Tail(up)) = (ao \o bo) \o co
      <4>1. OrdersKept(outgoing["Sender"], Payloads(inbox), up)
        BY OrderTypes, OrdersMove
      <4> QED BY <1>o, <2>1, <2>3, <4>1 DEF OrdersKept
    <3> QED BY <1>o, <2>1, <2>5, <3>1, FlowPrimed DEF Chain
  <2>8. Left' = Left
    BY <2>1 DEF Left, Unsent
  <2> QED BY <2>1, <2>5, <2>6, <2>7, <2>8, OrderFrame
<1>2. CASE SenderSends
  <2>1. /\ events # <<>> /\ events' = Tail(events) /\ Post("Sender", Head(events).message)
        /\ UNCHANGED <<state, requesting_chunk, index, up, tasks>>
    BY <1>2 DEF SenderSends, S!SendMessage, vars
  <2>2. events \in Seq(Sending) /\ Payloads(events) \in Seq(Wire)
    BY OrderTypes
  <2>3. PICK m : m = Head(events).message
    OBVIOUS
  <2>4. m \in S!Payload
    <3>1. Head(events) \in Sending
      BY <2>1, <2>2
    <3> QED BY <2>3, <3>1 DEF Sending
  <2>5. m \in Wire /\ m.type \notin {"RequestChunk", "StopChunk"}
    BY <2>4 DEF Wire, S!Payload
  <2>6. /\ UNCHANGED <<outgoing, conn, fresh>>
        /\ Blocks(Payloads(inbox')) = b \o Block(m)
        /\ Orders(Payloads(inbox')) = bo \o Order(m)
    BY <1>0, <1>a, <1>o, <2>1, <2>3, <2>5, PostOrder
  <2>7. /\ Payloads(events) # <<>> /\ Head(Payloads(events)) = m
        /\ Payloads(Tail(events)) = Tail(Payloads(events))
    <3>1. \A x \in Sending : x.message \in Wire
      BY DEF Sending, Wire
    <3> QED BY <2>1, <2>2, <2>3, <3>1, PayloadsFacts
  <2>8. Chain' = Chain
    <3>1. Order(m) = <<>>
      BY <2>5, MessageFacts
    <3> QED BY <1>o, <1>e, <2>1, <2>6, <3>1, FlowPrimed DEF Chain
  <2>9. Flow' = Flow
    <3>1. (a \o (b \o Block(m))) \o Blocks(Tail(Payloads(events))) = (a \o b) \o c
      <4>1. BlocksKept(outgoing["Receiver"], Payloads(inbox), Payloads(events))
        BY OrderTypes, BlocksMove
      <4> QED BY <1>a, <2>2, <2>7, <4>1 DEF BlocksKept
    <3> QED BY <1>a, <2>1, <2>6, <2>7, <3>1, FlowPrimed DEF Flow
  <2>10. Left' = Left
    BY <2>1 DEF Left, Unsent
  <2> QED BY <2>1, <2>6, <2>8, <2>9, <2>10, OrderFrame
<1> QED BY <1>1, <1>2

\* While both clients are logged in, the server forwards blocks to the receiver
\* and orders to the sender, and what else it sends is neither.
LEMMA CalmServer ==
    ASSUME TInv, ConnInv, ServerHandles, \A r \in Role : conn[r] = "in",
           NEW m, m = Head(inbox).message
    PROVE  /\ m \in Wire /\ inbox # <<>> /\ inbox' = Tail(inbox) /\ UNCHANGED conn
           /\ \E r \in Role, y \in Wire :
                 /\ outgoing' = [outgoing EXCEPT ![r] = Append(@, y)]
                 /\ \/ r = "Receiver" /\ Block(y) = Block(m) /\ Order(m) = <<>>
                    \/ r = "Sender" /\ Order(y) = Order(m) /\ Block(m) = <<>>
<1>0. "Receiver" \in Role /\ "Sender" \in Role /\ Role = {"Receiver", "Sender"}
  BY DEF Role
<1>1. PICK a : a = Head(inbox).from
  OBVIOUS
<1>2. inbox # <<>> /\ a \in Role /\ m \in Wire /\ inbox \in Seq(Packet)
  BY <1>1, TakenFacts DEF ServerHandles, TInv, RelayInv
<1>3. m \in Ordinary
  <2>1. Said(a) # <<>> /\ Head(Said(a)) = m
    BY <1>1, <1>2, SaidFacts DEF Said
  <2>2. Said(a) \in Seq(Ordinary)
    BY <1>2 DEF ConnInv, GoodConn
  <2> QED BY <2>1, <2>2
<1>4. ASSUME NEW r \in Role, NEW y \in Wire, Forward(a, r, y)
      PROVE  inbox' = Tail(inbox) /\ UNCHANGED conn /\ outgoing' = [outgoing EXCEPT ![r] = Append(@, y)]
  BY <1>4 DEF Forward
<1>5. CASE m.type \in {"RequestChunk", "StopChunk"}
  <2>1. Forward(a, "Sender", m)
    BY <1>1, <1>5 DEF ServerHandles, handle_request_chunk, handle_stop_chunk
  <2>2. Block(m) = <<>>
    BY <1>2, <1>5, MessageFacts
  <2> QED BY <1>0, <1>2, <1>4, <2>1, <2>2
<1>6. CASE m.type = "TransmitChunk"
  <2>1. handle_transmit_chunk(a, m)
    BY <1>1, <1>6 DEF ServerHandles
  <2>2. Forward(a, "Receiver", m)
    BY <1>0, <2>1 DEF handle_transmit_chunk
  <2>3. Order(m) = <<>>
    BY <1>2, <1>6, MessageFacts
  <2> QED BY <1>0, <1>2, <1>4, <2>2, <2>3
<1>7. CASE m.type = "RequestMeta"
  <2>1. PICK y : y = [type |-> "TransmitMeta", meta |-> <<>>]
    OBVIOUS
  <2>2. y \in Wire /\ y.type = "TransmitMeta"
    BY <2>1 DEF Wire
  <2>3. Forward(a, a, y)
    BY <1>1, <1>7, <2>1 DEF ServerHandles, handle_request_meta
  <2>4. Order(m) = <<>> /\ Block(m) = <<>> /\ Order(y) = <<>> /\ Block(y) = <<>>
    BY <1>2, <1>7, <2>2, MessageFacts
  <2> QED BY <1>0, <1>2, <1>4, <2>2, <2>3, <2>4
<1> QED BY <1>1, <1>3, <1>5, <1>6, <1>7 DEF ServerHandles, Ordinary

\* So does the server, which handles its messages in turn.
LEMMA ServerOrder ==
    ASSUME TInv, LifeInv, ConnInv, OrderInv, fresh, ServerHandles
    PROVE  OrderInv'
<1>0. "Receiver" # "Sender" /\ outgoing \in [Role -> Seq(Wire)] /\ "Receiver" \in Role /\ "Sender" \in Role
  BY DEF TInv, RelayInv, Role
<1>1. \A r \in Role : conn[r] = "in"
  BY DEF OrderInv
<1>2. PICK m : m = Head(inbox).message
  OBVIOUS
<1>3. /\ m \in Wire /\ inbox # <<>> /\ inbox' = Tail(inbox) /\ UNCHANGED conn
      /\ \E r \in Role, y \in Wire :
            /\ outgoing' = [outgoing EXCEPT ![r] = Append(@, y)]
            /\ \/ r = "Receiver" /\ Block(y) = Block(m) /\ Order(m) = <<>>
               \/ r = "Sender" /\ Order(y) = Order(m) /\ Block(m) = <<>>
  BY <1>1, <1>2, CalmServer
<1>4. UNCHANGED <<state, requesting_chunk, index, up, events, tasks>>
  BY DEF ServerHandles, vars, senderVars
<1>t. PICK T : T = Wire
  OBVIOUS
<1>a. PICK a \in Seq(Byte), b \in Seq(Byte), c \in Seq(Byte) :
         a = Blocks(outgoing["Receiver"]) /\ b = Blocks(Payloads(inbox)) /\ c = Blocks(Payloads(events))
  BY OrderTypes, BlocksFacts
<1>o. PICK ao \in Seq(T), bo \in Seq(T), co \in Seq(T) :
         ao = Orders(outgoing["Sender"]) /\ bo = Orders(Payloads(inbox)) /\ co = Orders(up)
  BY <1>t, OrderTypes, OrdersFacts
<1>5. PICK w \in Seq(Wire) : w = Payloads(inbox)
  BY OrderTypes
<1>6. w # <<>> /\ Head(w) = m /\ Payloads(inbox') = Tail(w) /\ Tail(w) \in Seq(Wire)
  <2>1. PICK U : U = Packet
    OBVIOUS
  <2>2. inbox \in Seq(U) /\ \A y \in U : y.message \in Wire
    BY <2>1, OrderTypes DEF Packet
  <2>3. w # <<>> /\ Head(w) = m /\ Payloads(Tail(inbox)) = Tail(w)
    BY <1>2, <1>3, <1>5, <2>2, PayloadsFacts
  <2> QED BY <1>3, <1>5, <2>3
<1>9. /\ (a \o Block(m)) \o Blocks(Tail(w)) = a \o b
      /\ (ao \o Order(m)) \o Orders(Tail(w)) = ao \o bo
  <2>1. /\ BlocksKept(outgoing["Receiver"], w, w)
        /\ OrdersKept(outgoing["Sender"], w, w)
    BY OrderTypes, BlocksMove, OrdersMove
  <2>2. (a \o Block(m)) \o Blocks(Tail(w)) = a \o b
    BY <1>a, <1>5, <1>6, <2>1 DEF BlocksKept
  <2>3. (ao \o Order(m)) \o Orders(Tail(w)) = ao \o bo
    BY <1>o, <1>5, <1>6, <2>1 DEF OrdersKept
  <2> QED BY <2>2, <2>3
<1>10. a \o <<>> = a /\ ao \o <<>> = ao
  BY ConcatFacts
<1>11. Blocks(outgoing'["Receiver"]) = a \o Block(m) /\ Orders(outgoing'["Sender"]) = ao \o Order(m)
  <2>1. PICK r \in Role, y \in Wire :
            /\ outgoing' = [outgoing EXCEPT ![r] = Append(@, y)]
            /\ \/ r = "Receiver" /\ Block(y) = Block(m) /\ Order(m) = <<>>
               \/ r = "Sender" /\ Order(y) = Order(m) /\ Block(m) = <<>>
    BY <1>3
  <2>2. CASE r = "Receiver"
    <3>1. outgoing'["Receiver"] = Append(outgoing["Receiver"], y) /\ outgoing'["Sender"] = outgoing["Sender"]
      BY <1>0, <2>1, <2>2
    <3>2. Blocks(outgoing'["Receiver"]) = a \o Block(y)
      BY <1>0, <1>a, <3>1, BlocksFacts
    <3> QED BY <1>0, <1>10, <1>o, <2>1, <2>2, <3>1, <3>2
  <2>3. CASE r = "Sender"
    <3>1. outgoing'["Sender"] = Append(outgoing["Sender"], y) /\ outgoing'["Receiver"] = outgoing["Receiver"]
      BY <1>0, <2>1, <2>3
    <3>2. Orders(outgoing'["Sender"]) = ao \o Order(y)
      BY <1>0, <1>o, <3>1, OrdersFacts
    <3> QED BY <1>0, <1>10, <1>a, <2>1, <2>3, <3>1, <3>2
  <2> QED BY <2>1, <2>2, <2>3
<1>12. Flow' = Flow
  BY <1>a, <1>4, <1>6, <1>9, <1>11, FlowPrimed DEF Flow
<1>13. Chain' = Chain
  BY <1>o, <1>4, <1>6, <1>9, <1>11, FlowPrimed DEF Chain
<1>14. Left' = Left
  BY <1>4 DEF Left, Unsent
<1> QED BY <1>3, <1>4, <1>12, <1>13, <1>14, OrderFrame

\* A chunk is asked for while there is no request, no block and nothing left.
LEMMA AskedPending ==
    ASSUME TInv, TInv', LifeInv, NEW e, NEW p \in Path, NEW k, request_chunk(e, p, k),
           index'[p] = e, UNCHANGED inbox, outgoing'["Sender"] = outgoing["Sender"],
           Chain \in Seq(OtherWire), Flow' = <<>>, \A t \in Task : Left'[t] = <<>>
    PROVE  Pending'
<1>1. PICK m : m = [type |-> "RequestChunk", path |-> p, index |-> k, hash |-> e.meta.chunks[k + 1].hash]
  OBVIOUS
<1>2. up' = Append(up, m)
  BY <1>1 DEF request_chunk, send_message
<1>3. requesting_chunk' = [remote_path |-> p, chunk_index |-> k,
                           current_offset |-> e.meta.chunks[k + 1].offset, hashed |-> <<>>]
  BY DEF request_chunk
<1>4. Asked' = m /\ requesting_chunk'.hashed = <<>>
  <2>1. /\ requesting_chunk'.remote_path = p /\ requesting_chunk'.chunk_index = k
        /\ requesting_chunk'.hashed = <<>>
    BY <1>3
  <2>2. Awaited' = e.meta.chunks[k + 1]
    BY <2>1 DEF Awaited
  <2> QED BY <1>1, <2>1, <2>2 DEF Asked
<1>5. m \in Wire
  <2>1. up' \in Seq(Message) /\ up \in Seq(Message)
    BY DEF TInv, IInv, TypeOK
  <2>2. PICK n \in Nat : n = Len(up)
    BY <2>1
  <2>3. Len(up') = n + 1 /\ up'[n + 1] = m
    BY <1>2, <2>1, <2>2
  <2>4. m \in Message
    BY <2>1, <2>2, <2>3, ElementOfSeq
  <2> QED BY <2>4 DEF Wire
<1>t. PICK T : T = Wire
  OBVIOUS
<1>6. PICK ao \in Seq(T), bo \in Seq(T), co \in Seq(T) :
         ao = Orders(outgoing["Sender"]) /\ bo = Orders(Payloads(inbox)) /\ co = Orders(up)
  BY <1>t, OrderTypes, OrdersFacts
<1>7. Orders(up') = co \o <<m>>
  <2>1. Order(m) = <<m>>
    BY <1>1, <1>5, MessageFacts
  <2> QED BY <1>2, <1>5, <1>6, <2>1, OrderTypes, OrdersFacts
<1>8. PICK y \in Seq(T) : y = <<m>>
  <2>1. <<m>> \in Seq(T)
    BY <1>5, <1>t
  <2> QED BY <2>1
<1>9. (ao \o bo) \o (co \o y) = ((ao \o bo) \o co) \o y
  <2>1. Cat(Cat(ao, bo), Cat(co, y)) = Cat(Cat(Cat(ao, bo), co), y)
    BY CatAssoc
  <2> QED BY <2>1 DEF Cat
<1>10. Chain' = Chain \o <<m>>
  BY <1>6, <1>7, <1>8, <1>9, FlowPrimed DEF Chain
<1>11. \E st \in Seq(OtherWire) : Chain' = st \o <<Asked'>>
  BY <1>4, <1>10
<1> QED BY <1>4, <1>11 DEF Pending

\* Without a request on its way no order is one.
LEMMA NoRequest ==
    ASSUME TInv, LifeInv, up = <<>>, ~InFlight("RequestChunk")
    PROVE  Chain \in Seq(OtherWire)
<1>0. "Receiver" \in Role /\ "Sender" \in Role
  BY DEF Role
<1>1. /\ \A i \in DOMAIN outgoing["Sender"] : outgoing["Sender"][i].type # "RequestChunk"
      /\ \A i \in DOMAIN Payloads(inbox) : Payloads(inbox)[i].type # "RequestChunk"
  <2>1. DOMAIN Payloads(inbox) = DOMAIN inbox /\ \A i \in DOMAIN inbox : Payloads(inbox)[i] = inbox[i].message
    BY DEF Payloads
  <2> QED BY <1>0, <2>1 DEF InFlight
<1>2. Orders(outgoing["Sender"]) \in Seq(OtherWire) /\ Orders(Payloads(inbox)) \in Seq(OtherWire)
  BY <1>1, OrderTypes, OrdersType DEF OtherWire
<1>3. Orders(up) = <<>>
  BY OrderTypes, OrdersFacts
<1>4. PICK T : T = OtherWire
  OBVIOUS
<1>5. PICK a \in Seq(T), b \in Seq(T) : a = Orders(outgoing["Sender"]) /\ b = Orders(Payloads(inbox))
  BY <1>2, <1>4
<1>6. a \o b \in Seq(T) /\ (a \o b) \o <<>> = a \o b
  BY ConcatFacts
<1>7. Chain \in Seq(T)
  BY <1>3, <1>5, <1>6 DEF Chain
<1> QED BY <1>4, <1>7

\* What a download finds that starts with nothing left of earlier ones.
LEMMA QuietFacts ==
    ASSUME TInv, LifeInv, Quiet
    PROVE  /\ \A r \in Role : conn[r] = "in"
           /\ Chain \in Seq(OtherWire) /\ Flow = <<>>
           /\ \A t \in Task : Left[t] = <<>>
<1>0. "Receiver" \in Role /\ "Sender" \in Role
  BY DEF Role
<1>1. \A r \in Role : conn[r] = "in"
  BY DEF Quiet
<1>2. \A t \in Task : Left[t] = <<>>
  BY DEF Quiet, Left, Unsent
<1>p. DOMAIN Payloads(inbox) = DOMAIN inbox /\ \A i \in DOMAIN inbox : Payloads(inbox)[i] = inbox[i].message
  BY DEF Payloads
<1>e. DOMAIN Payloads(events) = DOMAIN events /\ \A i \in DOMAIN events : Payloads(events)[i] = events[i].message
  BY DEF Payloads
<1>q. <<>> \o <<>> = <<>>
  OBVIOUS
<1>3. Flow = <<>>
  <2>1. /\ \A i \in DOMAIN outgoing["Receiver"] : outgoing["Receiver"][i].type # "TransmitChunk"
        /\ \A i \in DOMAIN Payloads(inbox) : Payloads(inbox)[i].type # "TransmitChunk"
        /\ \A i \in DOMAIN Payloads(events) : Payloads(events)[i].type # "TransmitChunk"
    BY <1>0, <1>p, <1>e DEF Quiet, InFlight
  <2>2. Blocks(outgoing["Receiver"]) = <<>> /\ Blocks(Payloads(inbox)) = <<>> /\ Blocks(Payloads(events)) = <<>>
    BY <2>1, OrderTypes, NoBlocks
  <2> QED BY <1>q, <2>2 DEF Flow
<1>4. Chain \in Seq(OtherWire)
  BY NoRequest DEF Quiet
<1> QED BY <1>1, <1>2, <1>3, <1>4

\* A download that starts with nothing left of earlier ones has the whole
\* chunk to come.
LEMMA StartOrder ==
    ASSUME TInv, TInv', LifeInv,
           \/ \E p \in Path : \E l \in Locals(p) : Download(p, l)
           \/ \E p \in Path : Resume(p)
    PROVE  OrderInv'
<1> SUFFICES ASSUME fresh' PROVE OrderInv'
  BY DEF OrderInv
<1>1. Quiet /\ UNCHANGED <<inbox, outgoing, conn, events, tasks>> /\ state' # "Crashed"
  BY DEF Download, Resume, User, relayVars, senderVars
<1>2. PICK p \in Path : (\E l \in Locals(p) : FileRequested(p, l)) \/ FileResumed(p)
  BY DEF Download, Resume, User
<1>3. \E e : \E k : request_chunk(e, p, k) /\ index'[p] = e
  <2>0. index \in [Path -> Entry \cup {NoEntry}] /\ ~SaveMayTear
    BY TransferAssumption DEF TInv, IInv, TypeOK
  <2>d. ~Die
    BY <1>1 DEF Die
  <2>1. ASSUME NEW l \in Locals(p), FileRequested(p, l)
        PROVE  \E e : \E k : request_chunk(e, p, k) /\ index'[p] = e
    <3>1. PICK e : e = change_local(index[p], l)
      OBVIOUS
    <3>2. index' = [index EXCEPT ![p] = e] /\ request_chunk(e, p, 0)
      BY <2>0, <2>1, <2>d, <3>1 DEF FileRequested, DieInSave
    <3>3. index'[p] = e
      BY <2>0, <3>2
    <3> QED BY <3>2, <3>3
  <2>2. ASSUME FileResumed(p)
        PROVE  \E e : \E k : request_chunk(e, p, k) /\ index'[p] = e
    <3>1. request_chunk(index[p], p, find_first_undownloaded(index[p])) /\ index' = index
      BY <2>2, <2>d DEF FileResumed
    <3> QED BY <3>1
  <2> QED BY <1>2, <2>1, <2>2
<1>4. PICK e, k : request_chunk(e, p, k) /\ index'[p] = e
  BY <1>3
<1>5. /\ \A r \in Role : conn'[r] = "in"
      /\ Chain \in Seq(OtherWire) /\ Flow = <<>>
      /\ \A t \in Task : Left[t] = <<>>
  BY <1>1, QuietFacts
<1>6. Flow' = <<>> /\ \A t \in Task : Left'[t] = <<>>
  <2>1. Flow' = Flow /\ Left' = Left
    BY <1>1, FlowPrimed DEF Flow, Left, Unsent
  <2> QED BY <1>5, <2>1
<1>7. Pending'
  BY <1>1, <1>4, <1>5, <1>6, AskedPending
<1> QED BY <1>5, <1>7 DEF OrderInv

\* The first block on its way to the receiver.
LEMMA FirstBlock ==
    ASSUME TInv, LifeInv, Take("Receiver"), UNCHANGED events, NEW m, m = Head(outgoing["Receiver"])
    PROVE  m \in Wire /\ Flow' \in Seq(Byte) /\ Flow = Block(m) \o Flow'
<1>1. outgoing["Receiver"] \in Seq(Wire) /\ outgoing["Receiver"] # <<>> /\ m \in Wire
  BY DEF Take, TInv, RelayInv, Role
<1>2. outgoing'["Receiver"] = Tail(outgoing["Receiver"]) /\ inbox' = inbox
  BY DEF Take, TInv, RelayInv, Role
<1>3. PICK x \in Seq(Byte), d \in Seq(Byte), b \in Seq(Byte), c \in Seq(Byte) :
         /\ x = Block(m) /\ d = Blocks(outgoing'["Receiver"])
         /\ b = Blocks(Payloads(inbox)) /\ c = Blocks(Payloads(events))
  <2>1. outgoing'["Receiver"] \in Seq(Wire)
    BY <1>1, <1>2
  <2> QED BY <1>1, <2>1, OrderTypes, BlocksFacts, MessageFacts
<1>4. Blocks(outgoing["Receiver"]) = x \o d
  BY <1>1, <1>2, <1>3, BlocksFacts
<1>5. Flow' = (d \o b) \o c
  <2>1. Blocks(Payloads(inbox')) = b /\ Blocks(Payloads(events')) = c
    BY <1>2, <1>3
  <2> QED BY <1>3, <2>1, FlowPrimed
<1>6. Flow = ((x \o d) \o b) \o c
  BY <1>3, <1>4 DEF Flow
<1>7. Cat(Cat(Cat(x, d), b), c) = Cat(x, Cat(Cat(d, b), c)) /\ Cat(Cat(d, b), c) \in Seq(Byte)
  BY CatAssoc
<1> QED BY <1>1, <1>3, <1>5, <1>6, <1>7 DEF Cat

\* In other states a message does not make the receiver await a chunk.
LEMMA NotAwaiting ==
    ASSUME TInv, ReceiverTakes, state # "RequestedChunk"
    PROVE  state' # "RequestedChunk"
<1>1. \/ \E b : TransmitChunk(b)
      \/ LoginSuccess
      \/ \E ms : TransmitMeta(ms)
  BY DEF ReceiverTakes
<1>2. ASSUME NEW b, TransmitChunk(b) PROVE state' = state
  BY <1>2 DEF TransmitChunk, Dropped, vars
<1>3. ASSUME LoginSuccess PROVE state' = state \/ state' = "Idle"
  BY <1>3 DEF LoginSuccess, Dropped, vars
<1>4. ASSUME NEW ms, TransmitMeta(ms) PROVE state' = state
  <2>1. ~DieInSave
    BY TransferAssumption DEF DieInSave
  <2> QED BY <1>4, <2>1 DEF TransmitMeta, Dropped, vars
<1> QED BY <1>1, <1>2, <1>3, <1>4

\* A block arrives, and more is to come.
LEMMA GoesOnOrder ==
    ASSUME TInv, OrderInv, fresh, state = "RequestedChunk",
           UNCHANGED <<state, index, tasks, conn>>, Chain' = Chain,
           NEW b \in Seq(Byte), Flow' \in Seq(Byte), Flow = b \o Flow',
           requesting_chunk' = After(requesting_chunk, b)
    PROVE  OrderInv'
<1>1. requesting_chunk \in Requesting
  BY DEF TInv, IInv, RequestInv
<1>2. PICK q : q = After(requesting_chunk, b)
  OBVIOUS
<1>3. /\ q.remote_path = requesting_chunk.remote_path /\ q.chunk_index = requesting_chunk.chunk_index
      /\ q.hashed = requesting_chunk.hashed \o b
      /\ requesting_chunk.hashed \in Seq(Byte)
  BY <1>1, <1>2, AfterFacts DEF Requesting
<1>4. Awaited' = Awaited /\ Asked' = Asked /\ requesting_chunk'.hashed = requesting_chunk.hashed \o b
  BY <1>2, <1>3 DEF Awaited, Asked
<1>5. Left' = Left
  BY DEF Left, Unsent
<1>6. ASSUME Pending PROVE Pending'
  <2>1. b = <<>> /\ Flow' = <<>>
    <3>1. PICK f \in Seq(Byte) : f = Flow'
      OBVIOUS
    <3>2. b \o f = <<>>
      BY <1>6, <3>1 DEF Pending
    <3> QED BY <3>1, <3>2, ConcatFacts
  <2>2. requesting_chunk'.hashed = <<>>
    <3>1. requesting_chunk.hashed = <<>> /\ <<>> \o <<>> = <<>>
      BY <1>6 DEF Pending
    <3> QED BY <1>4, <2>1, <3>1
  <2>3. (\E st \in Seq(OtherWire) : Chain = st \o <<Asked>>) /\ \A t \in Task : Left[t] = <<>>
    BY <1>6 DEF Pending
  <2> QED BY <1>4, <1>5, <2>1, <2>2, <2>3 DEF Pending
<1>7. ASSUME Underway PROVE Underway'
  <2>1. \A t, u \in Task : Left[t] # <<>> /\ Left[u] # <<>> => t = u
    BY <1>7 DEF Underway
  <2>2. Rest' = Rest /\ Rest \in Seq(Byte)
    BY <1>5, <2>1, RestFacts, RestPrimed
  <2>3. PICK h \in Seq(Byte), f \in Seq(Byte), e \in Seq(Byte) :
           h = requesting_chunk.hashed /\ f = Flow' /\ e = Rest
    BY <1>3, <2>2
  <2>4. Cat(h, Cat(Cat(b, f), e)) = Cat(Cat(h, b), Cat(f, e))
    BY CatAssoc
  <2>5. Awaited.hash = h \o ((b \o f) \o e)
    BY <1>7, <2>3 DEF Underway
  <2>6. Awaited'.hash = requesting_chunk'.hashed \o (Flow' \o Rest')
    BY <1>4, <2>2, <2>3, <2>4, <2>5 DEF Cat
  <2>7. \A t \in Task : Left[t] # <<>> => ~tasks[t].cancelled
    BY <1>7 DEF Underway
  <2> QED BY <1>5, <1>7, <2>1, <2>6, <2>7 DEF Underway
<1> QED BY <1>6, <1>7 DEF OrderInv

\* The block that completes the chunk is the last one there is.
LEMMA NothingMore ==
    ASSUME TInv, OrderInv, fresh, state = "RequestedChunk",
           NEW b \in Seq(Byte), Flow' \in Seq(Byte), Flow = b \o Flow',
           Awaited.hash = requesting_chunk.hashed \o b
    PROVE  Chain = <<>> /\ Flow' = <<>> /\ \A t \in Task : Left[t] = <<>>
<1>1. /\ requesting_chunk \in Requesting /\ index[requesting_chunk.remote_path] \in Entry
      /\ LET e == index[requesting_chunk.remote_path] IN
         GoodRequest(requesting_chunk, e, files[e.local_path])
  BY DEF TInv, IInv, RequestInv
<1>2. /\ Awaited.size \in Nat \ {0} /\ Awaited.hash \in Seq(Byte) /\ Len(Awaited.hash) = Awaited.size
      /\ requesting_chunk.hashed \in Seq(Byte)
  <2>1. PICK e \in Entry : e = index[requesting_chunk.remote_path]
    BY <1>1
  <2>2. RequestShape(requesting_chunk, e, files[e.local_path], Awaited)
    BY <1>1, <2>1, RequestFacts DEF Awaited
  <2> QED BY <2>2 DEF RequestShape
<1>3. PICK h \in Seq(Byte), f \in Seq(Byte) : h = requesting_chunk.hashed /\ f = Flow'
  BY <1>2
<1>4. ~Pending
  <2>1. SUFFICES ASSUME Pending PROVE FALSE
    OBVIOUS
  <2>2. b = <<>> /\ h = <<>>
    <3>1. b \o f = <<>>
      BY <1>3, <2>1 DEF Pending
    <3> QED BY <1>3, <2>1, <3>1, ConcatFacts DEF Pending
  <2>3. Awaited.hash = <<>>
    <3>1. <<>> \o <<>> = <<>>
      OBVIOUS
    <3> QED BY <1>3, <2>2, <3>1
  <2>4. Len(Awaited.hash) = 0
    BY <2>3
  <2> QED BY <1>2, <2>4
<1>5. Underway
  BY <1>4 DEF OrderInv
<1>6. \A t, u \in Task : Left[t] # <<>> /\ Left[u] # <<>> => t = u
  BY <1>5 DEF Underway
<1>7. PICK e \in Seq(Byte) : e = Rest
  BY <1>6, RestFacts
<1>8. f \o e = <<>>
  <2>1. PICK g \in Seq(Byte), w \in Seq(Byte) : g = h \o b /\ w = f \o e
    BY ConcatFacts
  <2>2. g = g \o w
    <3>1. Cat(h, Cat(Cat(b, f), e)) = Cat(Cat(h, b), Cat(f, e))
      BY CatAssoc
    <3>2. Awaited.hash = h \o ((b \o f) \o e)
      BY <1>3, <1>5, <1>7 DEF Underway
    <3> QED BY <1>3, <2>1, <3>1, <3>2 DEF Cat
  <2>3. w = <<>>
    BY <2>2, ConcatEqualIffEmpty
  <2> QED BY <2>1, <2>3
<1>9. f = <<>> /\ e = <<>>
  BY <1>8, ConcatFacts
<1>10. \A t \in Task : Left[t] = <<>>
  BY <1>6, <1>7, <1>9, RestFacts
<1> QED BY <1>3, <1>5, <1>9, <1>10 DEF Underway

\* What the receiver takes keeps the order.
LEMMA ReceiverTakesOrder ==
    ASSUME TInv, TInv', LifeInv, OrderInv, fresh, ReceiverTakes
    PROVE  OrderInv'
<1>1. PICK m : m = Head(outgoing["Receiver"])
  OBVIOUS
<1>2. /\ Take("Receiver") /\ UNCHANGED <<inbox, conn, fresh, events, tasks>>
      /\ outgoing'["Sender"] = outgoing["Sender"]
  BY DEF ReceiverTakes, Take, history, senderVars, TInv, RelayInv, Role
<1>3. m \in Wire /\ Flow' \in Seq(Byte) /\ Flow = Block(m) \o Flow'
  BY <1>1, <1>2, FirstBlock
<1>4. Left' = Left /\ \A r \in Role : conn'[r] = "in"
  BY <1>2 DEF Left, Unsent, OrderInv
<1>5. CASE state # "RequestedChunk"
  BY <1>4, <1>5, NotAwaiting DEF OrderInv
<1>6. CASE state = "RequestedChunk" /\ m.type # "TransmitChunk"
  <2>1. UNCHANGED vars
    <3>1. LoginSuccess \/ \E ms : TransmitMeta(ms)
      BY <1>1, <1>6 DEF ReceiverTakes
    <3> QED BY <1>6, <3>1 DEF LoginSuccess, TransmitMeta, Dropped
  <2>2. Flow' = Flow
    <3>1. PICK f \in Seq(Byte) : f = Flow'
      BY <1>3
    <3>2. Block(m) = <<>> /\ <<>> \o f = f
      BY <1>3, <1>6, MessageFacts, ConcatFacts
    <3> QED BY <1>3, <3>1, <3>2
  <2>3. Chain' = Chain
    BY <1>2, <2>1, FlowPrimed DEF Chain, vars
  <2> QED BY <1>2, <1>4, <2>1, <2>2, <2>3, OrderFrame DEF vars
<1>7. CASE state = "RequestedChunk" /\ m.type = "TransmitChunk"
  <2>1. PICK b \in Seq(Byte) : b = Block(m) /\ b = m.data
    BY <1>3, <1>7, MessageFacts
  <2>2. PICK r, e : r = requesting_chunk /\ e = index[r.remote_path]
    OBVIOUS
  <2>3. Advance(r, e, b)
    <3>1. TransmitChunk(b) /\ requesting_chunk' # requesting_chunk
      BY <1>1, <1>7, <2>1, WireFacts DEF ReceiverTakes
    <3>2. \A l, n, o : ~WriteError(l, n, o, b)
      BY <3>1 DEF WriteError
    <3> QED BY <1>7, <2>2, <3>1, <3>2 DEF TransmitChunk
  <2>4. PICK c, q, d : /\ c = e.meta.chunks[r.chunk_index + 1]
                       /\ q = After(r, b) /\ d = mark_received(e, r.chunk_index)
    OBVIOUS
  <2>5. ~DieInSave
    BY TransferAssumption DEF DieInSave
  <2>6. \/ requesting_chunk' = q /\ UNCHANGED <<state, index, up>>
        \/ /\ q.hashed = c.hash
           /\ index' = [index EXCEPT ![r.remote_path] = d]
           /\ \/ request_chunk(d, r.remote_path, find_first_undownloaded(d))
              \/ state' = "Idle"
    BY <2>3, <2>4, <2>5 DEF Advance, After
  <2>7. CASE requesting_chunk' = q /\ UNCHANGED <<state, index, up>>
    <3>1. Chain' = Chain
      BY <1>2, <2>7, FlowPrimed DEF Chain
    <3>2. requesting_chunk' = After(requesting_chunk, b)
      BY <2>2, <2>4, <2>7
    <3> QED BY <1>2, <1>3, <1>7, <2>1, <2>7, <3>1, <3>2, GoesOnOrder
  <2>8. CASE /\ q.hashed = c.hash
             /\ index' = [index EXCEPT ![r.remote_path] = d]
             /\ \/ request_chunk(d, r.remote_path, find_first_undownloaded(d))
                \/ state' = "Idle"
    <3>1. r \in Requesting /\ index \in [Path -> Entry \cup {NoEntry}]
      BY <1>7, <2>2 DEF TInv, IInv, RequestInv, TypeOK
    <3>2. c = Awaited /\ q.hashed = r.hashed \o b
      BY <2>2, <2>4, <3>1, AfterFacts DEF Awaited
    <3>3. Chain = <<>> /\ Flow' = <<>> /\ \A t \in Task : Left[t] = <<>>
      BY <1>3, <1>7, <2>1, <2>2, <2>8, <3>2, NothingMore
    <3>4. CASE state' = "Idle"
      BY <1>4, <3>4 DEF OrderInv
    <3>5. CASE request_chunk(d, r.remote_path, find_first_undownloaded(d))
      <4>1. PICK p \in Path : p = r.remote_path
        BY <3>1 DEF Requesting
      <4>2. index'[p] = d
        BY <2>8, <3>1, <4>1
      <4>3. Chain \in Seq(OtherWire)
        BY <3>3
      <4>4. Pending'
        BY <1>2, <1>4, <3>3, <3>5, <4>1, <4>2, <4>3, AskedPending
      <4> QED BY <1>4, <4>4 DEF OrderInv
    <3> QED BY <2>8, <3>4, <3>5
  <2> QED BY <2>6, <2>7, <2>8
<1> QED BY <1>5, <1>6, <1>7

\* The first order on its way to the sender.
LEMMA FirstOrder ==
    ASSUME TInv, LifeInv, Take("Sender"), UNCHANGED <<up, events>>, NEW m, m = Head(outgoing["Sender"])
    PROVE  /\ m \in Wire /\ Chain' \in Seq(Wire) /\ Chain = Order(m) \o Chain'
           /\ Flow' = Flow
<1>0. "Receiver" # "Sender" /\ outgoing \in [Role -> Seq(Wire)] /\ "Receiver" \in Role /\ "Sender" \in Role
  BY DEF TInv, RelayInv, Role
<1>1. outgoing["Sender"] \in Seq(Wire) /\ outgoing["Sender"] # <<>> /\ m \in Wire
  BY <1>0 DEF Take
<1>2. /\ outgoing'["Sender"] = Tail(outgoing["Sender"]) /\ inbox' = inbox
      /\ outgoing'["Receiver"] = outgoing["Receiver"]
  BY <1>0 DEF Take
<1>t. PICK T : T = Wire
  OBVIOUS
<1>3. PICK x \in Seq(T), d \in Seq(T), b \in Seq(T), c \in Seq(T) :
         /\ x = Order(m) /\ d = Orders(outgoing'["Sender"])
         /\ b = Orders(Payloads(inbox)) /\ c = Orders(up)
  <2>1. outgoing'["Sender"] \in Seq(Wire)
    BY <1>1, <1>2
  <2> QED BY <1>1, <1>t, <2>1, OrderTypes, OrdersFacts, MessageFacts
<1>4. Orders(outgoing["Sender"]) = x \o d
  BY <1>1, <1>2, <1>3, OrdersFacts
<1>5. Chain' = (d \o b) \o c
  <2>1. Orders(Payloads(inbox')) = b /\ Orders(up') = c
    BY <1>2, <1>3
  <2> QED BY <1>3, <2>1, FlowPrimed
<1>6. Chain = ((x \o d) \o b) \o c
  BY <1>3, <1>4 DEF Chain
<1>7. Cat(Cat(Cat(x, d), b), c) = Cat(x, Cat(Cat(d, b), c)) /\ Cat(Cat(d, b), c) \in Seq(T)
  BY CatAssoc
<1>8. Flow' = Flow
  BY <1>2, FlowPrimed DEF Flow
<1> QED BY <1>1, <1>t, <1>3, <1>5, <1>6, <1>7, <1>8 DEF Cat

\* If x and then c is s and then y, either there is only x, or s starts with x.
Shifted(x, c, s, y) ==
    <<x>> \o c = s \o <<y>> =>
        /\ s = <<>> => x = y /\ c = <<>>
        /\ s # <<>> => Head(s) = x /\ c = Tail(s) \o <<y>>

\* Two sequences that agree but for the first and the last element.
LEMMA FirstAndLast ==
    ASSUME NEW T, NEW x \in T, NEW y \in T, NEW c \in Seq(T), NEW s \in Seq(T)
    PROVE  Shifted(x, c, s, y)
<1> SUFFICES ASSUME <<x>> \o c = s \o <<y>>
             PROVE  /\ s = <<>> => x = y /\ c = <<>>
                    /\ s # <<>> => Head(s) = x /\ c = Tail(s) \o <<y>>
  BY DEF Shifted
<1>1. PICK a \in Seq(T), z \in Seq(T) : a = <<x>> /\ z = <<y>>
  <2>1. <<x>> \in Seq(T) /\ <<y>> \in Seq(T)
    OBVIOUS
  <2> QED BY <2>1
<1>2. ASSUME s = <<>> PROVE x = y /\ c = <<>>
  <2>1. a \o c = <<y>> /\ a # <<>>
    <3>1. s \o z = z
      BY <1>2, ConcatFacts
    <3> QED BY <1>1, <3>1
  <2>2. a = <<y>> /\ c = <<>>
    BY <2>1, ConcatOne
  <2> QED BY <1>1, <2>2
<1>3. ASSUME s # <<>> PROVE Head(s) = x /\ c = Tail(s) \o <<y>>
  <2>1. PICK h \in Seq(T), t \in Seq(T) : h = <<Head(s)>> /\ t = Tail(s) /\ s = h \o t
    <3>1. Head(s) \in T /\ Tail(s) \in Seq(T) /\ <<Head(s)>> \o Tail(s) = s
      BY <1>3
    <3>2. <<Head(s)>> \in Seq(T)
      BY <3>1
    <3> QED BY <3>1, <3>2
  <2>2. a \o c = h \o (t \o z)
    <3>1. Cat(Cat(h, t), z) = Cat(h, Cat(t, z))
      BY CatAssoc
    <3> QED BY <1>1, <2>1, <3>1 DEF Cat
  <2>3. PICK w \in Seq(T) : w = t \o z
    BY ConcatFacts
  <2>4. Head(s) = x
    <3>1. (a \o c)[1] = x /\ (h \o w)[1] = Head(s)
      <4>1. Len(a) = 1 /\ Len(h) = 1 /\ a[1] = x /\ h[1] = Head(s)
        BY <1>1, <2>1
      <4>2. Len(c) \in Nat /\ Len(w) \in Nat
        OBVIOUS
      <4>3. 1 \in 1 .. Len(a) + Len(c) /\ 1 \in 1 .. Len(h) + Len(w)
        BY <4>1, <4>2
      <4> QED BY <4>1, <4>3, ConcatProperties
    <3> QED BY <2>2, <2>3, <3>1
  <2>5. a = h
    BY <1>1, <2>1, <2>4
  <2>6. c = w
    <3>1. a \o c = a \o w
      BY <2>2, <2>3, <2>5
    <3>2. \A u, v \in Seq(T) : a \o u = a \o v => u = v
      BY ConcatSimplifications
    <3> QED BY <3>1, <3>2
  <2> QED BY <1>1, <2>1, <2>3, <2>4, <2>6
<1> QED BY <1>2, <1>3

\* The chunk that is awaited, and the request for it.
LEMMA AskedFacts ==
    ASSUME TInv, state = "RequestedChunk"
    PROVE  /\ Asked \in Wire /\ Asked.type = "RequestChunk"
           /\ Awaited.hash \in Seq(Byte) /\ Len(Awaited.hash) = Awaited.size
           /\ requesting_chunk.remote_path \in Path
           /\ requesting_chunk.chunk_index \in Nat
           /\ Awaited = Listed[requesting_chunk.remote_path].meta.chunks[requesting_chunk.chunk_index + 1]
           /\ requesting_chunk.chunk_index < Len(Listed[requesting_chunk.remote_path].meta.chunks)
           /\ Awaited \in S!Chunk
<1>1. PICK r, e : r = requesting_chunk /\ e = index[r.remote_path]
  OBVIOUS
<1>2. r \in Requesting /\ e \in Entry /\ GoodRequest(r, e, files[e.local_path])
  BY <1>1 DEF TInv, IInv, RequestInv
<1>3. Awaited = e.meta.chunks[r.chunk_index + 1]
  BY <1>1 DEF Awaited
<1>4. RequestShape(r, e, files[e.local_path], Awaited)
  BY <1>2, <1>3, RequestFacts
<1>5. /\ r.remote_path \in Path /\ r.chunk_index \in Nat
      /\ r.chunk_index + 1 \in 1 .. Len(e.meta.chunks) /\ Len(e.meta.chunks) \in Nat
      /\ Awaited.hash \in Seq(Byte) /\ Len(Awaited.hash) = Awaited.size
  BY <1>4 DEF RequestShape
<1>6. Asked \in Wire /\ Asked.type = "RequestChunk"
  <2>1. PICK k \in Nat, p \in Path, h \in Seq(Byte) : k = r.chunk_index /\ p = r.remote_path /\ h = Awaited.hash
    BY <1>5
  <2>2. Asked = [type |-> "RequestChunk", path |-> p, index |-> k, hash |-> h]
    BY <1>1, <2>1 DEF Asked
  <2> QED BY <2>2 DEF Wire, Message
<1>7. e.meta.chunks = Listed[r.remote_path].meta.chunks
  BY <1>1, <1>5 DEF TInv, MetaInv, SameMeta
<1>8. Awaited \in S!Chunk
  <2>1. Listed[r.remote_path].meta.chunks \in Seq(S!Chunk)
    BY <1>5, ListedAssumption DEF S!FileMeta
  <2> QED BY <1>3, <1>5, <1>7, <2>1, ElementOfSeq
<1>9. r.chunk_index < Len(e.meta.chunks)
  BY <1>5
<1> QED BY <1>1, <1>3, <1>5, <1>6, <1>7, <1>8, <1>9

\* The request for the chunk that is awaited is answered.
LEMMA Answered ==
    ASSUME TInv, state = "RequestedChunk", S!process_request_chunk(Asked.path, Asked.index, Asked.hash)
    PROVE  \E t \in Task :
              /\ tasks'[t] # NoTask /\ ~tasks'[t].cancelled /\ LeftOf(tasks'[t]) = Awaited.hash
              /\ \A u \in Task : u # t => tasks'[u] = tasks[u]
<1>1. PICK p, k : p = requesting_chunk.remote_path /\ k = requesting_chunk.chunk_index
  OBVIOUS
<1>2. Asked.path = p /\ Asked.index = k /\ Asked.hash = Awaited.hash
  BY <1>1 DEF Asked
<1>3. /\ p \in Path /\ k \in Nat /\ k < Len(Listed[p].meta.chunks)
      /\ Awaited = Listed[p].meta.chunks[k + 1] /\ Awaited \in S!Chunk
      /\ Awaited.hash \in Seq(Byte) /\ Len(Awaited.hash) = Awaited.size
  BY <1>1, AskedFacts
<1>4. Listed[p] # NoEntry /\ Listed[p].local_path \in DOMAIN Original
  BY <1>3, ListedAssumption, NothingAssumption
<1>5. PICK n : n = [local |-> Listed[p].local_path, chunk |-> Awaited, count |-> 0, next |-> "read",
                    read_buf |-> <<>>, sent |-> <<>>, cancelled |-> FALSE]
  OBVIOUS
<1>6. n # NoTask
  <2>1. <<>> \in Seq(S!Bytes)
    OBVIOUS
  <2>2. PICK l \in DOMAIN Original, h \in S!Chunk : l = Listed[p].local_path /\ h = Awaited
    BY <1>3, <1>4
  <2>3. n \in [local : DOMAIN Original, chunk : S!Chunk, count : Nat, next : {"read", "send", "done"},
               read_buf : Seq(S!Bytes), sent : Seq(S!Bytes), cancelled : BOOLEAN]
    BY <1>5, <2>1, <2>2
  <2> QED BY <2>3, NothingAssumption
<1>7. PICK t \in Task : tasks' = [tasks EXCEPT ![t] = n]
  BY <1>2, <1>3, <1>4, <1>5 DEF S!process_request_chunk
<1>8. tasks'[t] = n /\ \A u \in Task : u # t => tasks'[u] = tasks[u]
  BY <1>7 DEF TInv, SP!IInv, SP!TypeOK
<1>9. LeftOf(n) = Awaited.hash
  <2>1. n.chunk.hash = Awaited.hash /\ n.chunk.size = Len(Awaited.hash) /\ n.sent = <<>>
    BY <1>3, <1>5
  <2>2. Len(<<>>) + 1 = 1
    OBVIOUS
  <2>3. SubSeq(Awaited.hash, 1, Len(Awaited.hash)) = Awaited.hash
    BY <1>3, SubSeqFull
  <2> QED BY <1>6, <2>1, <2>2, <2>3 DEF LeftOf
<1>10. ~n.cancelled
  BY <1>5
<1> QED BY <1>6, <1>8, <1>9, <1>10

\* What the sender takes keeps the order: a request starts the one transfer.
LEMMA SenderTakesOrder ==
    ASSUME TInv, TInv', LifeInv, OrderInv, fresh, SenderTakes
    PROVE  OrderInv'
<1>1. PICK m : m = Head(outgoing["Sender"])
  OBVIOUS
<1>2. Take("Sender") /\ UNCHANGED <<inbox, conn, fresh, state, requesting_chunk, index, up, events>>
  BY DEF SenderTakes, Take, history, vars, S!process_request_chunk, S!StopChunk, S!LoginSuccess
<1>3. m \in Wire /\ Chain' \in Seq(Wire) /\ Chain = Order(m) \o Chain' /\ Flow' = Flow
  BY <1>1, <1>2, FirstOrder
<1>4. SUFFICES ASSUME state = "RequestedChunk" PROVE Pending' \/ Underway'
  BY <1>2 DEF OrderInv
<1>5. Awaited' = Awaited /\ Asked' = Asked
  BY <1>2 DEF Awaited, Asked
<1>t. PICK T : T = Wire
  OBVIOUS
<1>c. PICK c \in Seq(T) : c = Chain'
  BY <1>t, <1>3
<1>l. Left' = [t \in Task |-> LeftOf(tasks'[t])]
  BY DEF Left, Unsent, LeftOf
<1>6. CASE m.type = "LoginSuccess"
  <2>1. UNCHANGED tasks
    BY <1>1, <1>6 DEF SenderTakes, S!LoginSuccess
  <2>2. Chain' = Chain
    <3>1. Order(m) = <<>> /\ <<>> \o c = c
      BY <1>3, <1>6, MessageFacts, ConcatFacts
    <3> QED BY <1>3, <1>c, <3>1
  <2>3. Left' = Left
    BY <2>1 DEF Left, Unsent
  <2>4. OrderInv'
    BY <1>2, <1>3, <2>1, <2>2, <2>3, OrderFrame
  <2> QED BY <1>2, <1>4, <2>4 DEF OrderInv
<1>7. CASE m.type \in {"RequestChunk", "StopChunk"}
  <2>1. Chain = <<m>> \o c
    BY <1>3, <1>7, <1>c, MessageFacts
  <2>2. Pending
    <3>1. Chain # <<>>
      <4>1. <<m>> \in Seq(T) /\ <<m>> # <<>>
        BY <1>3, <1>t
      <4> QED BY <2>1, <4>1, ConcatFacts
    <3> QED BY <1>4, <3>1 DEF OrderInv, Underway
  <2>3. PICK s \in Seq(OtherWire) : Chain = s \o <<Asked>>
    BY <2>2 DEF Pending
  <2>5. /\ s = <<>> => m = Asked /\ Chain' = <<>>
        /\ s # <<>> => Head(s) = m /\ Chain' = Tail(s) \o <<Asked>>
    <3>1. Asked \in Wire /\ s \in Seq(Wire)
      <4>1. OtherWire \subseteq Wire
        BY DEF OtherWire
      <4> QED BY <1>4, <4>1, AskedFacts, SeqMonotonic
    <3>2. Shifted(m, Chain', s, Asked)
      BY <1>3, <3>1, FirstAndLast
    <3> QED BY <1>c, <2>1, <2>3, <3>2 DEF Shifted
  <2>6. s # <<>> => Head(s) \in OtherWire /\ Tail(s) \in Seq(OtherWire)
    OBVIOUS
  <2>7. requesting_chunk.hashed = <<>> /\ Flow = <<>> /\ \A t \in Task : Left[t] = <<>>
    BY <2>2 DEF Pending
  <2>8. CASE m.type = "RequestChunk"
    <3>1. s = <<>> /\ m = Asked /\ Chain' = <<>>
      BY <2>5, <2>6, <2>8 DEF OtherWire
    <3>2. S!process_request_chunk(Asked.path, Asked.index, Asked.hash)
      BY <1>1, <2>8, <3>1 DEF SenderTakes
    <3>3. PICK t \in Task :
              /\ tasks'[t] # NoTask /\ ~tasks'[t].cancelled /\ LeftOf(tasks'[t]) = Awaited.hash
              /\ \A u \in Task : u # t => tasks'[u] = tasks[u]
      BY <1>4, <3>2, Answered
    <3>4. \A u \in Task : u # t => Left'[u] = <<>>
      BY <1>l, <2>7, <3>3, LeftFacts
    <3>5. Left'[t] = Awaited.hash
      BY <1>l, <3>3
    <3>6. \A u, v \in Task : Left'[u] # <<>> /\ Left'[v] # <<>> => u = v
      BY <3>4
    <3>7. \A u \in Task : Left'[u] # <<>> => ~tasks'[u].cancelled
      BY <3>3, <3>4
    <3>8. Rest' = Awaited.hash
      BY <3>4, <3>5, <3>6, RestPrimed
    <3>9. Awaited'.hash = requesting_chunk'.hashed \o (Flow' \o Rest')
      <4>1. PICK h \in Seq(Byte) : h = Awaited.hash
        BY <1>4, AskedFacts
      <4>2. <<>> \o (<<>> \o h) = h
        <5>1. <<>> \o h = h
          OBVIOUS
        <5> QED BY <5>1
      <4> QED BY <1>2, <1>3, <1>5, <2>7, <3>8, <4>1, <4>2
    <3> QED BY <3>1, <3>6, <3>7, <3>9 DEF Underway
  <2>9. CASE m.type = "StopChunk"
    <3>1. s # <<>>
      BY <1>4, <2>5, <2>9, AskedFacts
    <3>2. \E st \in Seq(OtherWire) : Chain' = st \o <<Asked'>>
      BY <1>5, <2>5, <2>6, <3>1
    <3>3. ASSUME NEW t \in Task PROVE Left'[t] = <<>>
      <4>1. tasks' = [u \in Task |-> IF u = token /\ tasks[u] # NoTask
                                     THEN [tasks[u] EXCEPT !.cancelled = TRUE] ELSE tasks[u]]
        BY <1>1, <2>9 DEF SenderTakes, S!StopChunk
      <4>2. CASE tasks'[t] = tasks[t]
        BY <1>l, <2>7, <4>2, LeftFacts
      <4>3. CASE tasks[t] # NoTask /\ tasks'[t] = [tasks[t] EXCEPT !.cancelled = TRUE]
        <5>1. tasks'[t].chunk = tasks[t].chunk /\ tasks'[t].sent = tasks[t].sent
          BY <4>3, LeftFacts DEF SP!TaskState
        <5>2. LeftOf(tasks[t]) = <<>>
          BY <2>7, LeftFacts
        <5> QED BY <1>l, <4>3, <5>1, <5>2 DEF LeftOf
      <4> QED BY <4>1, <4>2, <4>3
    <3> QED BY <1>2, <1>3, <2>7, <3>2, <3>3 DEF Pending
  <2> QED BY <1>7, <2>8, <2>9
<1> QED BY <1>1, <1>6, <1>7 DEF SenderTakes

\* No transfer looks like no transfer.
LEMMA SomeTask == NoTask \notin SP!TaskState
<1>1. SP!Chunk = S!Chunk
  BY SameSender DEF S!Chunk, SP!Chunk
<1> QED BY <1>1, SameSender, NothingAssumption DEF SP!TaskState

\* A transfer reads: it has still as much to send.
LEMMA ReadOnLeft ==
    ASSUME TInv, NEW t \in Task, S!TransferReads(t)
    PROVE  /\ LeftOf(tasks'[t]) = LeftOf(tasks[t]) /\ tasks'[t].cancelled = tasks[t].cancelled
           /\ \A u \in Task : u # t => tasks'[u] = tasks[u]
<1>1. tasks \in [Task -> SP!TaskState \cup {NoTask}] /\ tasks[t] # NoTask
  BY DEF TInv, SP!IInv, SP!TypeOK, SP!TaskState, S!TransferReads
<1>2. PICK r \in SP!TaskState : r = tasks[t]
  BY <1>1
<1>3. PICK f : f = Original[r.local]
  OBVIOUS
<1>4. SP!TransferReads(t)
  BY DEF S!TransferReads, SP!TransferReads, S!FillBuf, SP!FillBuf, S!TaskOnly, SP!TaskOnly
<1>5. PICK b \in SP!FillBuf(f, r.chunk.offset + r.count) :
         tasks' = [tasks EXCEPT ![t].read_buf = b, ![t].next = "send"]
  BY <1>2, <1>3, <1>4 DEF SP!TransferReads
<1>6. PICK q : q = [r EXCEPT !.read_buf = b, !.next = "send"]
  OBVIOUS
<1>7. tasks'[t] = q /\ \A u \in Task : u # t => tasks'[u] = tasks[u]
  BY <1>1, <1>2, <1>5, <1>6
<1>8. q \in SP!TaskState
  <2>1. f \in Seq(SP!Bytes) /\ SP!GoodTask(r, f)
    BY <1>1, <1>2, <1>3, SP!TaskOfIInv, SenderConstants DEF TInv
  <2>2. r.next = "read"
    BY <1>2, <1>4 DEF SP!TransferReads
  <2> QED BY <1>5, <1>6, <2>1, <2>2, SP!ReadsGood, SenderConstants
<1>9. q # NoTask
  BY <1>8, SomeTask
<1>10. q.chunk = r.chunk /\ q.sent = r.sent /\ q.cancelled = r.cancelled
  BY <1>6 DEF SP!TaskState
<1> QED BY <1>1, <1>2, <1>7, <1>9, <1>10 DEF LeftOf

\* A transfer sends: the block is the beginning of what it had to send.
LEMMA SentOn ==
    ASSUME TInv, LifeInv, NEW t \in Task, S!TransferSends(t)
    PROVE  \E b \in Seq(Byte), m \in Wire :
              /\ Block(m) = b /\ LeftOf(tasks'[t]) \in Seq(Byte)
              /\ Payloads(events') = Append(Payloads(events), m)
              /\ LeftOf(tasks[t]) = b \o LeftOf(tasks'[t])
              /\ tasks'[t].cancelled = tasks[t].cancelled
              /\ \A u \in Task : u # t => tasks'[u] = tasks[u]
<1>1. tasks \in [Task -> SP!TaskState \cup {NoTask}] /\ tasks[t] # NoTask
  BY DEF TInv, SP!IInv, SP!TypeOK, SP!TaskState, S!TransferSends
<1>2. PICK r \in SP!TaskState : r = tasks[t]
  BY <1>1
<1>3. PICK f : f = Original[r.local]
  OBVIOUS
<1>4. SP!TransferSends(t)
  BY DEF S!TransferSends, SP!TransferSends, S!Room, SP!Room, S!Boundary, SP!Boundary,
         S!Again, SP!Again, S!Message, SP!Message, S!TaskOnly, SP!TaskOnly
<1>5. PICK b, q : b = SP!BlockOf(r) /\ q = SP!AfterBlock(r)
  OBVIOUS
<1>6. PICK m : m = [type |-> "TransmitChunk", data |-> b]
  OBVIOUS
<1>7. /\ tasks' = [tasks EXCEPT ![t] = q] /\ r.next = "send"
      /\ events' = Append(events, [kind |-> "SendMessage", message |-> m])
  BY <1>2, <1>4, <1>5, <1>6 DEF SP!TransferSends, SP!AfterBlock, SP!BlockOf, SP!Message
<1>8. tasks'[t] = q /\ \A u \in Task : u # t => tasks'[u] = tasks[u]
  BY <1>1, <1>7
<1>9. f \in Seq(SP!Bytes) /\ SP!GoodTask(r, f)
  BY <1>1, <1>2, <1>3, SP!TaskOfIInv, SenderConstants DEF TInv
<1>10. b \in Seq(SP!Bytes) /\ q \in SP!TaskState /\ SP!GoodTask(q, f)
  BY <1>5, <1>7, <1>9, SP!SendsGood, SenderConstants
<1>11. b \in Seq(Byte) /\ b \in Seq(S!Bytes)
  BY <1>10, SameSender, BytesFacts
<1>12. m \in Wire /\ Block(m) = b
  BY <1>6, <1>11 DEF Wire, S!Payload, Block
<1>13. Payloads(events') = Append(Payloads(events), m)
  <2>1. PICK U : U = Sending
    OBVIOUS
  <2>2. events \in Seq(U) /\ \A x \in U : x.message \in Wire
    BY <2>1, OrderTypes DEF Sending, Wire
  <2>3. PICK x : x = [kind |-> "SendMessage", message |-> m]
    OBVIOUS
  <2>4. x \in U
    BY <1>6, <1>11, <2>1, <2>3 DEF Sending, S!Payload
  <2>5. Payloads(Append(events, x)) = Append(Payloads(events), x.message)
    BY <2>2, <2>4, PayloadsFacts
  <2> QED BY <1>7, <2>3, <2>5
<1>14. q.chunk = r.chunk /\ q.sent = r.sent \o b /\ q.cancelled = r.cancelled
  BY <1>5 DEF SP!AfterBlock, SP!TaskState
<1>15. LeftOf(r) = b \o LeftOf(q) /\ LeftOf(q) \in Seq(Byte)
  <2>1. PICK h \in Seq(Byte), s \in Seq(Byte) : h = r.chunk.hash /\ s = r.sent
    BY <1>1, <1>2, LeftFacts
  <2>2. Len(h) = r.chunk.size
    BY <1>1, <1>2, <2>1, LeftFacts
  <2>3. Len(s \o b) <= Len(h) /\ \A i \in 1 .. Len(s \o b) : (s \o b)[i] = h[i]
    BY <1>10, <1>14, <2>1, <2>2 DEF SP!GoodTask
  <2>4. SubSeq(h, Len(s) + 1, Len(h)) = b \o SubSeq(h, Len(s \o b) + 1, Len(h))
    BY <1>11, <2>3, EndSplits
  <2>5. r # NoTask /\ q # NoTask
    BY <1>10, SomeTask
  <2>6. SubSeq(h, Len(s \o b) + 1, Len(h)) \in Seq(Byte)
    <3>1. PICK g \in Seq(Byte) : g = s \o b
      BY <1>11, ConcatFacts
    <3> QED BY <2>3, <3>1, EndPart
  <2> QED BY <1>14, <2>1, <2>2, <2>4, <2>5, <2>6 DEF LeftOf
<1> QED BY <1>2, <1>8, <1>11, <1>12, <1>13, <1>14, <1>15

\* The transfer that has something left sends a block of it.
LEMMA SendsOn ==
    ASSUME TInv, TInv', LifeInv, OrderInv, fresh, NEW t \in Task, S!TransferSends(t),
           UNCHANGED <<state, requesting_chunk, index, up, inbox, outgoing, conn>>
    PROVE  OrderInv'
<1>1. PICK b \in Seq(Byte), m \in Wire :
              /\ Block(m) = b
              /\ Payloads(events') = Append(Payloads(events), m)
              /\ LeftOf(tasks[t]) = b \o LeftOf(tasks'[t])
              /\ tasks'[t].cancelled = tasks[t].cancelled
              /\ \A u \in Task : u # t => tasks'[u] = tasks[u]
  BY SentOn
<1>2. Awaited' = Awaited /\ Asked' = Asked
  BY DEF Awaited, Asked
<1>3. Chain' = Chain
  BY FlowPrimed DEF Chain
<1>4. Flow' = Flow \o b
  <2>1. PICK x \in Seq(Byte), y \in Seq(Byte), z \in Seq(Byte) :
           x = Blocks(outgoing["Receiver"]) /\ y = Blocks(Payloads(inbox)) /\ z = Blocks(Payloads(events))
    BY OrderTypes, BlocksFacts
  <2>2. Blocks(Payloads(events')) = z \o b
    BY <1>1, <2>1, OrderTypes, BlocksFacts
  <2>3. Cat(Cat(x, y), Cat(z, b)) = Cat(Cat(Cat(x, y), z), b)
    BY CatAssoc
  <2> QED BY <2>1, <2>2, <2>3, FlowPrimed DEF Flow, Cat
<1>l. /\ Left = [u \in Task |-> LeftOf(tasks[u])] /\ Left' = [u \in Task |-> LeftOf(tasks'[u])]
  BY DEF Left, Unsent, LeftOf
<1>5. \A u \in Task : u # t => Left'[u] = Left[u]
  BY <1>1, <1>l
<1>6. PICK d \in Seq(Byte) : d = Left'[t]
  <2>1. LeftOf(tasks'[t]) \in Seq(Byte)
    BY SentOn
  <2> QED BY <1>l, <2>1
<1>7. Left[t] = b \o d
  BY <1>1, <1>6, <1>l
<1>8. ASSUME Left[t] = <<>> PROVE b = <<>> /\ d = <<>>
  <2>1. b \o d = <<>>
    BY <1>7, <1>8
  <2> QED BY <2>1, ConcatFacts
<1>9. ASSUME Pending PROVE Pending'
  <2>1. b = <<>> /\ d = <<>> /\ Flow = <<>> /\ requesting_chunk.hashed = <<>>
    BY <1>8, <1>9 DEF Pending
  <2>2. Flow' = <<>>
    <3>1. <<>> \o <<>> = <<>>
      OBVIOUS
    <3> QED BY <1>4, <2>1, <3>1
  <2>3. \A u \in Task : Left'[u] = <<>>
    BY <1>5, <1>6, <1>9, <2>1 DEF Pending
  <2>4. \E st \in Seq(OtherWire) : Chain' = st \o <<Asked'>>
    BY <1>2, <1>3, <1>9 DEF Pending
  <2> QED BY <2>1, <2>2, <2>3, <2>4 DEF Pending
<1>10. ASSUME Underway, state = "RequestedChunk" PROVE Underway'
  <2>1. \A u, v \in Task : Left[u] # <<>> /\ Left[v] # <<>> => u = v
    BY <1>10 DEF Underway
  <2>2. \A u \in Task : Left'[u] # <<>> => Left[u] # <<>> /\ (u = t => d # <<>>)
    BY <1>5, <1>6, <1>8
  <2>3. \A u, v \in Task : Left'[u] # <<>> /\ Left'[v] # <<>> => u = v
    BY <2>1, <2>2
  <2>4. \A u \in Task : Left'[u] # <<>> => ~tasks'[u].cancelled
    BY <1>1, <1>10, <2>2 DEF Underway
  <2>5. PICK h \in Seq(Byte), f \in Seq(Byte), e \in Seq(Byte) :
           h = requesting_chunk.hashed /\ f = Flow /\ e = Rest
    <3>1. requesting_chunk.hashed \in Seq(Byte)
      BY <1>10 DEF TInv, IInv, RequestInv, Requesting
    <3> QED BY <2>1, <3>1, OrderTypes, RestFacts
  <2>6. Cat(Cat(f, b), Rest') = Cat(f, e)
    <3>1. CASE Left[t] = <<>>
      <4>1. b = <<>> /\ Left' = Left
        BY <1>5, <1>6, <1>8, <1>l, <3>1
      <4>2. Rest' = e
        BY <2>1, <2>3, <2>5, <4>1, RestFacts, RestPrimed
      <4>3. f \o b = f
        BY <4>1, ConcatFacts
      <4> QED BY <4>2, <4>3 DEF Cat
    <3>2. CASE Left[t] # <<>>
      <4>1. e = Cat(b, d)
        BY <1>7, <2>1, <2>5, <3>2, RestFacts DEF Cat
      <4>2. Rest' = d
        <5>1. CASE d # <<>>
          BY <1>6, <2>3, <5>1, RestPrimed
        <5>2. CASE d = <<>>
          <6>1. \A u \in Task : Left'[u] = <<>>
            BY <2>1, <2>2, <3>2, <5>2
          <6> QED BY <2>3, <5>2, <6>1, RestPrimed
        <5> QED BY <5>1, <5>2
      <4> QED BY <4>1, <4>2, CatAssoc
    <3> QED BY <3>1, <3>2
  <2>7. Awaited'.hash = requesting_chunk'.hashed \o (Flow' \o Rest')
    BY <1>2, <1>4, <1>10, <2>5, <2>6 DEF Underway, Cat
  <2> QED BY <1>3, <1>10, <2>3, <2>4, <2>7 DEF Underway
<1> QED BY <1>9, <1>10 DEF OrderInv

\* A transfer that reads, sends or ends keeps the order.
LEMMA TransfersOrder ==
    ASSUME TInv, TInv', LifeInv, OrderInv, fresh, NEW t \in Task, Transfers(t)
    PROVE  OrderInv'
<1>1. UNCHANGED <<state, requesting_chunk, index, up, inbox, outgoing, conn>>
  BY DEF Transfers, vars, relayVars
<1>2. CASE S!TransferSends(t)
  BY <1>1, <1>2, SendsOn
<1>l. /\ Left = [u \in Task |-> LeftOf(tasks[u])] /\ Left' = [u \in Task |-> LeftOf(tasks'[u])]
  BY DEF Left, Unsent, LeftOf
<1>3. ASSUME UNCHANGED events, LeftOf(tasks'[t]) = LeftOf(tasks[t]),
             LeftOf(tasks[t]) # <<>> => tasks'[t].cancelled = tasks[t].cancelled,
             \A u \in Task : u # t => tasks'[u] = tasks[u]
      PROVE  OrderInv'
  <2>1. \A u \in Task : LeftOf(tasks'[u]) = LeftOf(tasks[u])
    BY <1>3
  <2>2. Left' = Left
    BY <1>l, <2>1
  <2>3. \A u \in Task : Left[u] # <<>> => tasks'[u].cancelled = tasks[u].cancelled
    BY <1>3, <1>l
  <2>4. Flow' = Flow /\ Chain' = Chain
    BY <1>1, <1>3, FlowPrimed DEF Flow, Chain
  <2> QED BY <1>1, <2>2, <2>3, <2>4, OrderFrame
<1>4. CASE S!TransferReads(t)
  <2>1. UNCHANGED events
    BY <1>4 DEF S!TransferReads
  <2> QED BY <1>3, <1>4, <2>1, ReadOnLeft
<1>5. CASE S!TransferFinished(t) \/ S!TransferCancelled(t)
  <2>1. tasks[t] # NoTask /\ tasks' = [tasks EXCEPT ![t] = NoTask] /\ UNCHANGED events
    BY <1>5 DEF S!TransferFinished, S!TransferCancelled, S!EndTask
  <2>2. tasks'[t] = NoTask /\ \A u \in Task : u # t => tasks'[u] = tasks[u]
    BY <2>1 DEF TInv, SP!IInv, SP!TypeOK
  <2>3. CASE LeftOf(tasks[t]) = <<>>
    BY <1>3, <2>1, <2>2, <2>3 DEF LeftOf
  <2>4. CASE LeftOf(tasks[t]) # <<>>
    <3>1. Left[t] # <<>>
      BY <1>l, <2>4
    <3>2. ~S!TransferFinished(t)
      BY <2>1, <3>1, LeftFacts DEF S!TransferFinished
    <3>3. tasks[t].cancelled
      BY <1>5, <3>2 DEF S!TransferCancelled
    <3>4. ~Pending /\ ~Underway
      BY <3>1, <3>3 DEF Pending, Underway
    <3> QED BY <1>1, <3>4 DEF OrderInv
  <2> QED BY <2>3, <2>4
<1> QED BY <1>2, <1>4, <1>5 DEF Transfers

\* The order is kept in every step.
LEMMA OrderStep ==
    ASSUME TInv, TInv', LifeInv, ConnInv, OrderInv, [TransferNext]_transferVars
    PROVE  OrderInv'
<1>1. CASE \/ \E p \in Path : \E l \in Locals(p) : Download(p, l)
           \/ \E p \in Path : Resume(p)
  BY <1>1, StartOrder
<1>2. CASE Stop \/ \E r \in Role : Dies(r)
  BY <1>2 DEF Stop, Dies, OrderInv
<1>3. CASE ~fresh /\ UNCHANGED fresh
  BY <1>3 DEF OrderInv
<1>4. CASE fresh /\ (ReceiverSends \/ SenderSends)
  BY <1>4, SendsOrder
<1>5. CASE fresh /\ ReceiverTakes
  BY <1>5, ReceiverTakesOrder
<1>6. CASE fresh /\ SenderTakes
  BY <1>6, SenderTakesOrder
<1>7. CASE fresh /\ \E t \in Task : Transfers(t)
  BY <1>7, TransfersOrder
<1>8. CASE fresh /\ ServerHandles
  BY <1>8, ServerOrder
<1>9. CASE fresh /\ ReceiverLogsOn
  <2>1. state' # "RequestedChunk" /\ UNCHANGED conn
    BY <1>9 DEF ReceiverLogsOn, LoggedInAsReceiver, request_meta, Die, relayVars
  <2> QED BY <1>9, <2>1 DEF OrderInv
<1>10. CASE fresh /\ \E r \in Role : Returns(r) \/ LogsIn(r)
  <2>1. \A r \in Role : conn[r] = "in"
    BY <1>10 DEF OrderInv
  <2> QED BY <1>10, <2>1 DEF Returns, LogsIn
<1>11. CASE fresh /\ UNCHANGED transferVars
  <2>1. UNCHANGED <<state, requesting_chunk, index, up, inbox, outgoing, conn, events, tasks>>
    BY <1>11 DEF transferVars, vars, senderVars, relayVars
  <2>2. Left' = Left /\ Flow' = Flow /\ Chain' = Chain
    BY <2>1, FlowPrimed DEF Left, Unsent, Flow, Chain
  <2> QED BY <1>11, <2>1, <2>2, OrderFrame
<1>12. fresh \in BOOLEAN
  BY DEF TInv, HistoryInv
<1>13. \/ UNCHANGED fresh
       \/ \E p \in Path : \E l \in Locals(p) : Download(p, l)
       \/ \E p \in Path : Resume(p)
       \/ Stop
       \/ \E r \in Role : Dies(r)
  <2>1. ASSUME NEW r \in Role, NEW m, Post(r, m) \/ Take(r) PROVE UNCHANGED fresh
    BY <2>1 DEF Post, Take, history
  <2>2. "Receiver" \in Role /\ "Sender" \in Role
    BY DEF Role
  <2>3. ReceiverSends \/ SenderSends \/ ReceiverTakes \/ SenderTakes => UNCHANGED fresh
    BY <2>1, <2>2 DEF ReceiverSends, SenderSends, ReceiverTakes, SenderTakes
  <2> QED BY <2>3
          DEF TransferNext, ReceiverLogsOn, Transfers, ServerHandles, Returns, LogsIn, AtRest,
              history, transferVars
<1> QED BY <1>1, <1>2, <1>3, <1>4, <1>5, <1>6, <1>7, <1>8, <1>9, <1>10, <1>11, <1>12, <1>13
        DEF TransferNext, AtRest

\* What is known of a transfer, with the order of its blocks.
OInv == TInv /\ LifeInv /\ ConnInv /\ OrderInv

\* The order of what is on its way makes up the chunk.
LEMMA OrderInOrder == OInv => InOrder
<1> SUFFICES ASSUME OInv, fresh, state = "RequestedChunk", up = <<>>, ~InFlight("RequestChunk")
             PROVE  LET c == index[requesting_chunk.remote_path].meta.chunks[requesting_chunk.chunk_index + 1] IN
                    /\ \A t, u \in Task : Unsent(t) # <<>> /\ Unsent(u) # <<>> => t = u
                    /\ c.hash = requesting_chunk.hashed \o Blocks(outgoing["Receiver"]) \o Blocks(Payloads(inbox))
                                   \o Blocks(Payloads(events)) \o Rest
  BY DEF InOrder
<1>1. TInv /\ LifeInv /\ OrderInv
  BY DEF OInv
<1>2. ~Pending
  <2>1. SUFFICES ASSUME Pending PROVE FALSE
    OBVIOUS
  <2>2. PICK s \in Seq(OtherWire) : Chain = s \o <<Asked>>
    BY <2>1 DEF Pending
  <2>3. Chain \in Seq(OtherWire)
    BY <1>1, NoRequest
  <2>4. Asked \in OtherWire
    <3>1. PICK n \in Nat : n = Len(s)
      OBVIOUS
    <3>2. (s \o <<Asked>>)[n + 1] = Asked /\ n + 1 \in 1 .. Len(s \o <<Asked>>)
      BY <3>1
    <3> QED BY <2>2, <2>3, <3>2, ElementOfSeq
  <2> QED BY <1>1, <2>4, AskedFacts DEF OtherWire
<1>3. Underway
  BY <1>1, <1>2 DEF OrderInv
<1>4. \A t, u \in Task : Left[t] # <<>> /\ Left[u] # <<>> => t = u
  BY <1>3 DEF Underway
<1>5. \A t, u \in Task : Unsent(t) # <<>> /\ Unsent(u) # <<>> => t = u
  BY <1>4 DEF Left
<1>6. PICK h \in Seq(Byte), a \in Seq(Byte), b \in Seq(Byte), c \in Seq(Byte), e \in Seq(Byte) :
         /\ h = requesting_chunk.hashed /\ a = Blocks(outgoing["Receiver"])
         /\ b = Blocks(Payloads(inbox)) /\ c = Blocks(Payloads(events)) /\ e = Rest
  <2>1. requesting_chunk.hashed \in Seq(Byte)
    BY <1>1 DEF TInv, IInv, RequestInv, Requesting
  <2> QED BY <1>1, <1>4, <2>1, OrderTypes, BlocksFacts, RestFacts
<1>7. Awaited.hash = h \o (((a \o b) \o c) \o e)
  BY <1>3, <1>6 DEF Underway, Flow
<1>8. Cat(h, Cat(Cat(Cat(a, b), c), e)) = Cat(Cat(Cat(Cat(h, a), b), c), e)
  <2>1. Cat(h, Cat(Cat(Cat(a, b), c), e)) = Cat(Cat(h, Cat(Cat(a, b), c)), e)
    BY CatAssoc
  <2>2. Cat(h, Cat(Cat(a, b), c)) = Cat(Cat(h, Cat(a, b)), c)
    BY CatAssoc
  <2>3. Cat(h, Cat(a, b)) = Cat(Cat(h, a), b)
    BY CatAssoc
  <2> QED BY <2>1, <2>2, <2>3
<1>9. Awaited.hash = (((h \o a) \o b) \o c) \o e
  BY <1>7, <1>8 DEF Cat
<1> QED BY <1>5, <1>6, <1>9 DEF Awaited

\* The invariant holds at the start, and every step keeps it.
LEMMA InitOInv == TransferInit => OInv
BY InitTInv, InitConn DEF TransferInit, OInv, OrderInv

LEMMA NextOInv == OInv /\ [TransferNext]_transferVars => OInv'
<1> SUFFICES ASSUME OInv, [TransferNext]_transferVars PROVE OInv'
  OBVIOUS
<1>1. TInv /\ LifeInv /\ ConnInv /\ OrderInv
  BY DEF OInv
<1>2. TInv'
  BY <1>1, NextTInv
<1>3. LifeInv'
  BY <1>1, <1>2, LifeStep DEF TInv, SP!IInv
<1>4. ConnInv'
  BY <1>1, <1>2, <1>3, ConnStep
<1>5. OrderInv'
  BY <1>1, <1>2, OrderStep
<1> QED BY <1>2, <1>3, <1>4, <1>5 DEF OInv

\* Once its request has reached the sender, what was received of a chunk, what
\* is on its way and what the transfer has still to send make up the chunk,
\* each block once and in order (process_request_chunk, handle_transmit_chunk,
\* process_transmit_chunk), in a download that started with nothing left of
\* earlier ones.
THEOREM BlocksInOrder == TransferSpec => []InOrder
<1>1. TransferInit => OInv
  BY InitOInv
<1>2. OInv /\ [TransferNext]_transferVars => OInv'
  BY NextOInv
<1>3. OInv => InOrder
  BY OrderInOrder
<1> QED BY <1>1, <1>2, <1>3, PTL DEF TransferSpec
=============================================================================
