------------------------ MODULE PlayerControl_proofs ------------------------
(***************************************************************************)
(* Proofs about the player of a guest, for every number of retries and of  *)
(* starts.                                                                 *)
(***************************************************************************)
EXTENDS PlayerControl, SequenceTheorems, WellFoundedInduction, TLAPS

-----------------------------------------------------------------------------
(* Induction on a set of numbers.                                          *)

\* A set of numbers that is not empty has a least one.
LEMMA LeastExists ==
  ASSUME NEW T, T \subseteq Nat, T # {}
  PROVE  \E n \in T : \A k \in T : n <= k
PROOF
  <1> DEFINE R == OpToRel(<, Nat)
  <1>1. \A x, y \in Nat : <<x, y>> \in R <=> x < y
    BY DEF OpToRel
  <1>2. IsWellFoundedOn(R, Nat)
    BY NatLessThanWellFounded
  <1> HIDE DEF R
  <1>3. PICK n \in T : \A k \in T : ~ (<<k, n>> \in R)
    BY <1>2, WFMin
  <1>4. \A k \in T : ~ (k < n)
    BY <1>1, <1>3
  <1> QED
    BY <1>4

\* A set that holds 0 and with each number the next holds all numbers.
LEMMA EveryNumber ==
  ASSUME NEW T, 0 \in T, \A n \in Nat : n \in T => n + 1 \in T
  PROVE  Nat \subseteq T
PROOF
  <1> SUFFICES ASSUME Nat \ T # {}
               PROVE  FALSE
    OBVIOUS
  <1>1. PICK n \in Nat \ T : \A k \in Nat \ T : n <= k
    BY LeastExists
  <1>2. n # 0 /\ n - 1 \in Nat /\ n - 1 \in T
    BY <1>1
  <1>3. (n - 1) + 1 \in T
    BY <1>2
  <1> QED
    BY <1>1, <1>3

-----------------------------------------------------------------------------
(* MessageQueue::Clear.                                                    *)

\* What is kept of the first messages of q, up to each place.
KeptOf(q, m, f, d) ==
    f = [n \in 0..d |-> IF n = 0 THEN <<>> ELSE IF q[n] = m THEN f[n - 1]
                                           ELSE Append(f[n - 1], q[n])]

\* All messages of q are m, none is, and the first ones are those of p.
AllAre(q, m) == \A i \in 1..Len(q) : q[i] = m
NoneIs(q, m) == \A i \in 1..Len(q) : q[i] # m
SameFirst(q, p, d) == \A n \in 1..d : q[n] = p[n]

\* There is such a function, of every length.
LEMMA KeptExists ==
  ASSUME NEW q, NEW m, NEW d \in Nat
  PROVE  \E f : KeptOf(q, m, f, d)
PROOF
  <1> DEFINE T == {k \in Nat : \E f : KeptOf(q, m, f, k)}
  <1>1. 0 \in T
    <2> DEFINE f == [n \in 0..0 |-> <<>>]
    <2>1. KeptOf(q, m, f, 0)
      BY DEF KeptOf
    <2> QED
      BY <2>1
  <1>2. ASSUME NEW k \in Nat, k \in T PROVE k + 1 \in T
    <2>1. PICK f : KeptOf(q, m, f, k)
      BY <1>2
    <2> DEFINE new == IF q[k + 1] = m THEN f[k] ELSE Append(f[k], q[k + 1])
               g == [n \in 0..(k + 1) |-> IF n = k + 1 THEN new ELSE f[n]]
               h == [n \in 0..(k + 1) |-> IF n = 0 THEN <<>>
                                          ELSE IF q[n] = m THEN g[n - 1]
                                          ELSE Append(g[n - 1], q[n])]
    <2>2. \A n \in 0..k : f[n] = IF n = 0 THEN <<>> ELSE IF q[n] = m THEN f[n - 1]
                                 ELSE Append(f[n - 1], q[n])
      BY <2>1 DEF KeptOf
    <2>3. \A n \in 0..k : g[n] = f[n]
      OBVIOUS
    <2>4. g[k + 1] = new
      OBVIOUS
    <2> HIDE DEF g
    <2>5. ASSUME NEW n \in 0..(k + 1)
          PROVE  g[n] = h[n]
      <3>1. CASE n = 0
        BY <2>2, <2>3, <3>1
      <3>2. CASE n \in 1..k
        <4>1. n \in 0..k /\ n - 1 \in 0..k
          BY <3>2
        <4>2. g[n] = f[n] /\ g[n - 1] = f[n - 1]
          BY <2>3, <4>1
        <4> QED
          BY <2>2, <4>1, <4>2, <3>2
      <3>3. CASE n = k + 1
        <4>1. g[n - 1] = f[k]
          BY <2>3, <3>3
        <4> QED
          BY <2>4, <4>1, <3>3
      <3> QED
        BY <3>1, <3>2, <3>3
    <2>6. g = h
      BY <2>5 DEF g
    <2>7. KeptOf(q, m, g, k + 1)
      BY <2>6 DEF KeptOf
    <2> QED
      BY <2>7
  <1>3. Nat \subseteq T
    <2> HIDE DEF T
    <2> QED
      BY <1>1, <1>2, EveryNumber
  <1> QED
    BY <1>3

\* Each place from the one before.
LEMMA KeptNext ==
  ASSUME NEW q, NEW m, NEW f, NEW d \in Nat, KeptOf(q, m, f, d)
  PROVE  /\ f[0] = <<>>
         /\ \A k \in Nat : k < d =>
               f[k + 1] = IF q[k + 1] = m THEN f[k] ELSE Append(f[k], q[k + 1])
PROOF
  <1>1. \A n \in 0..d : f[n] = IF n = 0 THEN <<>> ELSE IF q[n] = m THEN f[n - 1]
                               ELSE Append(f[n - 1], q[n])
    BY DEF KeptOf
  <1>2. ASSUME NEW k \in Nat, k < d
        PROVE  f[k + 1] = IF q[k + 1] = m THEN f[k] ELSE Append(f[k], q[k + 1])
    <2>1. k + 1 \in 0..d /\ k + 1 # 0 /\ (k + 1) - 1 = k
      BY <1>2
    <2> QED
      BY <1>1, <2>1
  <1> QED
    BY <1>1, <1>2

\* Two of them agree as far as the queues do.
LEMMA KeptAgree ==
  ASSUME NEW S, NEW q \in Seq(S), NEW p \in Seq(S), NEW m, NEW f, NEW g,
         NEW d \in Nat, KeptOf(q, m, f, d), KeptOf(p, m, g, d + 1),
         SameFirst(q, p, d)
  PROVE  f[d] = g[d]
PROOF
  <1> DEFINE T == {k \in Nat : k <= d => f[k] = g[k]}
  <1>1. 0 \in T
    BY KeptNext
  <1>2. ASSUME NEW k \in Nat, k \in T PROVE k + 1 \in T
    <2> SUFFICES ASSUME k + 1 <= d PROVE f[k + 1] = g[k + 1]
      OBVIOUS
    <2>1. f[k] = g[k] /\ q[k + 1] = p[k + 1]
      BY <1>2 DEF SameFirst
    <2>2. /\ f[k + 1] = IF q[k + 1] = m THEN f[k] ELSE Append(f[k], q[k + 1])
          /\ g[k + 1] = IF p[k + 1] = m THEN g[k] ELSE Append(g[k], p[k + 1])
      BY KeptNext
    <2> QED
      BY <2>1, <2>2
  <1>3. d \in T
    <2> HIDE DEF T
    <2> QED
      BY <1>1, <1>2, EveryNumber
  <1> QED
    BY <1>3

\* The queue without m is what is kept of all its messages.
LEMMA WithoutIsKept ==
  ASSUME NEW S, NEW q \in Seq(S), NEW m
  PROVE  \E f : KeptOf(q, m, f, Len(q)) /\ Without(q, m) = f[Len(q)]
PROOF
  <1> DEFINE f == CHOOSE f : KeptOf(q, m, f, Len(q))
  <1>1. KeptOf(q, m, f, Len(q))
    <2>1. Len(q) \in Nat
      OBVIOUS
    <2> QED
      BY <2>1, KeptExists
  <1>2. Without(q, m) = f[Len(q)]
    BY DEF Without, KeptOf
  <1> HIDE DEF f
  <1> QED
    BY <1>1, <1>2

\* What is kept is a queue of other messages, not longer, and all of them if
\* there was nothing to clear.
LEMMA KeptFacts ==
  ASSUME NEW S, NEW q \in Seq(S), NEW m, NEW f, KeptOf(q, m, f, Len(q))
  PROVE  /\ f[Len(q)] \in Seq(S \ {m})
         /\ Len(f[Len(q)]) <= Len(q)
         /\ AllAre(q, m) => f[Len(q)] = <<>>
         /\ NoneIs(q, m) => f[Len(q)] = q
PROOF
  <1> DEFINE R == S \ {m}
             Kept(k) == /\ f[k] \in Seq(R)
                        /\ Len(f[k]) <= k
                        /\ AllAre(q, m) => f[k] = <<>>
                        /\ NoneIs(q, m) =>
                              Len(f[k]) = k /\ \A i \in 1..k : f[k][i] = q[i]
             T == {k \in Nat : k <= Len(q) => Kept(k)}
  <1>0. Len(q) \in Nat
    OBVIOUS
  <1>1. 0 \in T
    <2>1. f[0] = <<>>
      BY <1>0, KeptNext
    <2>2. <<>> \in Seq(R) /\ Len(<<>>) = 0
      OBVIOUS
    <2> HIDE DEF R
    <2>3. Kept(0)
      BY <2>1, <2>2
    <2> HIDE DEF Kept
    <2> QED
      BY <2>3
  <1>2. ASSUME NEW k \in Nat, k \in T PROVE k + 1 \in T
    <2> SUFFICES ASSUME k + 1 <= Len(q) PROVE Kept(k + 1)
      OBVIOUS
    <2>1. Kept(k)
      BY <1>2
    <2>2. f[k + 1] = IF q[k + 1] = m THEN f[k] ELSE Append(f[k], q[k + 1])
      BY <1>0, KeptNext
    <2>3. q[k + 1] \in S /\ k + 1 \in 1..Len(q)
      BY <1>0
    <2>4. CASE q[k + 1] = m
      <3>1. f[k + 1] = f[k]
        BY <2>2, <2>4
      <3>2. ~ NoneIs(q, m)
        BY <2>3, <2>4 DEF NoneIs
      <3>3. Len(f[k]) <= k + 1
        <4> DEFINE kept == f[k]
        <4>1. kept \in Seq(R) /\ Len(kept) <= k
          BY <2>1
        <4> HIDE DEF kept, R
        <4>2. Len(kept) \in Nat
          BY <4>1
        <4> QED
          BY <4>1, <4>2 DEF kept
      <3> QED
        BY <2>1, <3>1, <3>2, <3>3
    <2>5. CASE q[k + 1] # m
      <3> DEFINE kept == f[k]  next == f[k + 1]
      <3>1. next = Append(kept, q[k + 1]) /\ q[k + 1] \in R /\ kept \in Seq(R)
        BY <2>1, <2>2, <2>3, <2>5
      <3>2. Len(kept) <= k
        BY <2>1
      <3>3. ASSUME NoneIs(q, m)
            PROVE  Len(kept) = k /\ \A i \in 1..k : kept[i] = q[i]
        BY <2>1, <3>3
      <3>4. ~ AllAre(q, m)
        BY <2>3, <2>5 DEF AllAre
      <3> HIDE DEF kept, next, R
      <3>5. /\ next \in Seq(R) /\ Len(next) = Len(kept) + 1 /\ next[Len(kept) + 1] = q[k + 1]
            /\ \A i \in 1..Len(kept) : next[i] = kept[i]
        BY <3>1
      <3>6. ASSUME NoneIs(q, m)
            PROVE  Len(next) = k + 1 /\ \A i \in 1..(k + 1) : next[i] = q[i]
        BY <3>3, <3>5, <3>6
      <3>7. Len(next) <= k + 1
        <4>1. Len(kept) \in Nat
          BY <3>1
        <4> QED
          BY <3>2, <3>5, <4>1
      <3> QED
        BY <3>4, <3>5, <3>6, <3>7 DEF next
    <2> QED
      BY <2>4, <2>5
  <1>3. Len(q) \in T
    <2> HIDE DEF T
    <2> QED
      BY <1>0, <1>1, <1>2, EveryNumber
  <1>4. Kept(Len(q))
    BY <1>0, <1>3
  <1>5. f[Len(q)] \in Seq(S)
    BY <1>4
  <1> QED
    BY <1>0, <1>4, <1>5, SeqEqual

LEMMA WithoutFacts ==
  ASSUME NEW S, NEW q \in Seq(S), NEW m
  PROVE  /\ Without(q, m) \in Seq(S \ {m})
         /\ Len(Without(q, m)) <= Len(q)
         /\ AllAre(q, m) => Without(q, m) = <<>>
         /\ NoneIs(q, m) => Without(q, m) = q
PROOF
  <1>1. PICK f : KeptOf(q, m, f, Len(q)) /\ Without(q, m) = f[Len(q)]
    BY WithoutIsKept
  <1> DEFINE p == f[Len(q)]
  <1>2. /\ p \in Seq(S \ {m})
        /\ Len(p) <= Len(q)
        /\ AllAre(q, m) => p = <<>>
        /\ NoneIs(q, m) => p = q
    BY <1>1, KeptFacts
  <1>3. Without(q, m) = p
    BY <1>1
  <1> HIDE DEF p
  <1> QED
    BY <1>2, <1>3, Zenon

\* To clear twice clears no more.
LEMMA WithoutTwice ==
  ASSUME NEW S, NEW q \in Seq(S), NEW m
  PROVE  Without(Without(q, m), m) = Without(q, m)
PROOF
  <1> DEFINE p == Without(q, m)
             R == S \ {m}
  <1>1. p \in Seq(R)
    BY WithoutFacts
  <1>2. NoneIs(p, m)
    <2>1. \A i \in 1..Len(p) : p[i] \in R
      <3> HIDE DEF p, R
      <3> QED
        BY <1>1
    <2> QED
      BY <2>1 DEF NoneIs
  <1> HIDE DEF p, R
  <1>3. Without(p, m) = p
    BY <1>1, <1>2, WithoutFacts
  <1> QED
    BY <1>3 DEF p

\* A message that is posted stays behind what is kept, unless it is m.
LEMMA WithoutAppend ==
  ASSUME NEW S, NEW q \in Seq(S), NEW m, NEW e \in S
  PROVE  Without(Append(q, e), m) =
            IF e = m THEN Without(q, m) ELSE Append(Without(q, m), e)
PROOF
  <1> DEFINE p == Append(q, e)
             d == Len(q)
  <1>1. /\ p \in Seq(S) /\ Len(p) = d + 1 /\ p[d + 1] = e /\ d \in Nat
        /\ \A n \in 1..d : q[n] = p[n]
    OBVIOUS
  <1> HIDE DEF p
  <1>2. PICK f : KeptOf(q, m, f, d) /\ Without(q, m) = f[d]
    BY WithoutIsKept
  <1>3. PICK g : KeptOf(p, m, g, Len(p)) /\ Without(p, m) = g[Len(p)]
    BY <1>1, WithoutIsKept
  <1> HIDE DEF d
  <1>4. KeptOf(p, m, g, d + 1) /\ Without(p, m) = g[d + 1]
    BY <1>1, <1>3
  <1>5. f[d] = g[d]
    <2>1. d + 1 \in Nat /\ SameFirst(q, p, d)
      BY <1>1 DEF SameFirst
    <2> QED
      BY <1>1, <1>2, <1>4, <2>1, KeptAgree
  <1>6. g[d + 1] = IF p[d + 1] = m THEN g[d] ELSE Append(g[d], p[d + 1])
    <2> DEFINE D == d + 1
    <2>1. D \in Nat /\ d < D /\ d \in Nat /\ KeptOf(p, m, g, D)
      BY <1>1, <1>4
    <2> HIDE DEF D
    <2> QED
      BY <2>1, KeptNext
  <1> QED
    BY <1>1, <1>2, <1>4, <1>5, <1>6 DEF p

\* What is kept of a queue begins with its first message, if that is kept, and
\* goes on with what is kept of the others.
LEMMA WithoutTail ==
  ASSUME NEW S, NEW q \in Seq(S), NEW m, q # <<>>
  PROVE  /\ Head(q) = m => Without(Tail(q), m) = Without(q, m)
         /\ Head(q) # m => /\ Without(q, m) # <<>>
                           /\ Head(Without(q, m)) = Head(q)
                           /\ Tail(Without(q, m)) = Without(Tail(q), m)
PROOF
  <1> DEFINE p == Tail(q)
             d == Len(p)
             h == Head(q)
             R == S \ {m}
  <1>1. /\ p \in Seq(S) /\ Len(q) = d + 1 /\ q[1] = h /\ d \in Nat /\ h \in S
        /\ \A n \in 1..d : q[n + 1] = p[n]
    OBVIOUS
  <1> HIDE DEF p
  <1>2. PICK f : KeptOf(q, m, f, Len(q)) /\ Without(q, m) = f[Len(q)]
    BY WithoutIsKept
  <1>3. PICK g : KeptOf(p, m, g, d) /\ Without(p, m) = g[d]
    BY <1>1, WithoutIsKept
  <1> HIDE DEF d, h
  <1>4. KeptOf(q, m, f, d + 1) /\ Without(q, m) = f[d + 1]
    BY <1>1, <1>2
  <1>5. /\ f[0] = <<>> /\ f[1] = IF q[1] = m THEN f[0] ELSE Append(f[0], q[1])
        /\ \A k \in Nat : k < d =>
              f[k + 2] = IF q[k + 2] = m THEN f[k + 1] ELSE Append(f[k + 1], q[k + 2])
    <2> DEFINE D == d + 1
    <2>0. D \in Nat /\ KeptOf(q, m, f, D)
      BY <1>1, <1>4
    <2> HIDE DEF D
    <2>1. ASSUME NEW k \in Nat, k < D
          PROVE  f[k + 1] = IF q[k + 1] = m THEN f[k] ELSE Append(f[k], q[k + 1])
      BY <2>0, <2>1, KeptNext
    <2>2. f[0] = <<>>
      BY <2>0, KeptNext
    <2>3. f[0 + 1] = IF q[0 + 1] = m THEN f[0] ELSE Append(f[0], q[0 + 1])
      BY <1>1, <2>1 DEF D
    <2>4. ASSUME NEW k \in Nat, k < d
          PROVE  f[k + 2] = IF q[k + 2] = m THEN f[k + 1] ELSE Append(f[k + 1], q[k + 2])
      <3>1. k + 1 \in Nat /\ k + 1 < D /\ (k + 1) + 1 = k + 2
        BY <1>1, <2>4 DEF D
      <3> QED
        BY <2>1, <3>1
    <2> QED
      BY <2>2, <2>3, <2>4
  <1>6. /\ g[0] = <<>>
        /\ \A k \in Nat : k < d =>
              g[k + 1] = IF p[k + 1] = m THEN g[k] ELSE Append(g[k], p[k + 1])
    BY <1>1, <1>3, KeptNext
  <1>7. CASE h = m
    <2> DEFINE T == {k \in Nat : k <= d => f[k + 1] = g[k]}
    <2>1. 0 \in T
      BY <1>1, <1>5, <1>6, <1>7
    <2>2. ASSUME NEW k \in Nat, k \in T PROVE k + 1 \in T
      <3>1. k < d => f[k + 2] = g[k + 1]
        <4> SUFFICES ASSUME k < d PROVE f[k + 2] = g[k + 1]
          OBVIOUS
        <4>1. f[k + 1] = g[k] /\ q[k + 2] = p[k + 1]
          BY <1>1, <2>2
        <4> QED
          BY <1>5, <1>6, <4>1
      <3> QED
        BY <1>1, <3>1
    <2>3. d \in T
      <3> HIDE DEF T
      <3> QED
        BY <1>1, <2>1, <2>2, EveryNumber
    <2>4. f[d + 1] = g[d]
      BY <1>1, <2>3
    <2> QED
      BY <1>3, <1>4, <1>7, <2>4 DEF p, h
  <1>8. CASE h # m
    <2> DEFINE Like(k) == /\ g[k] \in Seq(R)
                          /\ f[k + 1] = <<h>> \o g[k]
               T == {k \in Nat : k <= d => Like(k)}
    <2>0. h \in R
      BY <1>1, <1>8
    <2>1. 0 \in T
      <3>1. Append(<<>>, h) = <<h>> \o <<>>
        BY <2>0
      <3>2. f[1] = Append(<<>>, h) /\ g[0] = <<>>
        BY <1>1, <1>5, <1>6, <1>8
      <3>3. g[0] \in Seq(R) /\ f[0 + 1] = <<h>> \o g[0]
        BY <3>1, <3>2
      <3> QED
        BY <3>3
    <2>2. ASSUME NEW k \in Nat, k \in T PROVE k + 1 \in T
      <3> SUFFICES ASSUME k < d PROVE Like(k + 1)
        BY <1>1
      <3> DEFINE kept == g[k]
      <3>1. kept \in Seq(R) /\ f[k + 1] = <<h>> \o kept
        BY <1>1, <2>2
      <3>2. q[k + 2] = p[k + 1] /\ p[k + 1] \in S
        BY <1>1
      <3>3. /\ f[k + 2] = IF q[k + 2] = m THEN f[k + 1] ELSE Append(f[k + 1], q[k + 2])
            /\ g[k + 1] = IF p[k + 1] = m THEN g[k] ELSE Append(g[k], p[k + 1])
        BY <1>5, <1>6
      <3>4. CASE p[k + 1] = m
        BY <3>1, <3>2, <3>3, <3>4
      <3>5. CASE p[k + 1] # m
        <4> DEFINE e == p[k + 1]
        <4>1. e \in R /\ g[k + 1] = Append(kept, e) /\ f[k + 2] = Append(<<h>> \o kept, e)
          BY <3>1, <3>2, <3>3, <3>5
        <4> HIDE DEF e, kept, R
        <4>2. Append(<<h>> \o kept, e) = <<h>> \o Append(kept, e)
          BY <2>0, <3>1, <4>1
        <4>3. Append(kept, e) \in Seq(R)
          BY <3>1, <4>1
        <4>4. (k + 1) + 1 = k + 2
          OBVIOUS
        <4> QED
          BY <4>1, <4>2, <4>3, <4>4
      <3> QED
        BY <3>4, <3>5
    <2>3. d \in T
      <3> HIDE DEF T
      <3> QED
        BY <1>1, <2>1, <2>2, EveryNumber
    <2> DEFINE rest == g[d]
    <2>4. rest \in Seq(R) /\ f[d + 1] = <<h>> \o rest
      BY <1>1, <2>3
    <2> HIDE DEF rest, R
    <2>5. <<h>> \o rest # <<>> /\ Head(<<h>> \o rest) = h /\ Tail(<<h>> \o rest) = rest
      BY <2>0, <2>4
    <2> QED
      BY <1>3, <1>4, <1>8, <2>4, <2>5 DEF p, h, rest
  <1> QED
    BY <1>7, <1>8

-----------------------------------------------------------------------------
(* The inductive invariant.                                                *)

Deleting == {"delete_pull", "disconnect", "join_pull", "delete_decoder"}

AppPlaces == {"ready", "start_track", "stop_track", "stop_play", "last_track",
              "last_play", "stop_again", "quit", "join", "gone"} \cup Deleting
PlayerPlaces == {"idle", "tick"} \cup Deleting
PullPlaces == {"exit", "loop", "init", "handshaked", "connected", "read", "feed",
               "retry", "unlock"}
AudioPlaces == {"idle", "need", "decoder", "done"}

Places == [app : AppPlaces, player : PlayerPlaces, pull : PullPlaces, audio : AudioPlaces]

Messages == {"start", "stop", "tick"}

Types ==
    /\ pc \in Places
    /\ lock \in [rtmp : {"free", "pull", "player", "app"}, track : {"free", "audio"}]
    /\ started \in BOOLEAN /\ track \in BOOLEAN /\ quit \in BOOLEAN
    /\ decoder \in BOOLEAN /\ failed \in BOOLEAN
    /\ msgq \in Seq(Messages) /\ ticks \in Nat /\ starts \in Nat
    /\ rtmp_pull_ \in {"none", "live", "closing"} /\ rtmp_ \in {"none", "open", "cut"}
    /\ status \in {"init", "handshaked", "connected", "played", "closed"}
    /\ retry_ct_ \in 0..MAX_RETRY_TIME + 1
    /\ heard \in {"none", "ok", "closed"}

\* The starts and stops that the player has still to handle.
Pending == Without(msgq, "tick")

\* A tick is not yet due, due, or in the player's hands.
Ticks ==
    ticks + Len(msgq) - Len(Pending) + (IF pc["player"] = "tick" THEN 1 ELSE 0) <= starts

\* Who holds a lock; nobody but the pull thread keeps cs_rtmp_ from one step to
\* the next.
Locks ==
    /\ lock["rtmp"] = IF pc["pull"] \in {"retry", "unlock"} THEN "pull" ELSE "free"
    /\ lock["track"] = IF pc["audio"] = "idle" THEN "free" ELSE "audio"

\* How far the application is: a playback is on only between its calls, and the
\* player has ended before the application deletes anything.
Calls ==
    /\ started => pc["app"] \in {"ready", "start_track"}
    /\ pc["app"] = "start_track" => started
    /\ quit <=> pc["app"] \in {"join", "gone"} \cup Deleting
    /\ pc["app"] \in {"gone"} \cup Deleting => pc["player"] = "idle"

\* The pull exists while its thread runs and has its decoder, and at most one
\* thread deletes it.
Pulls ==
    /\ rtmp_pull_ = "none" => pc["pull"] = "exit" /\ rtmp_ = "none"
    /\ rtmp_pull_ = "live" => pc["pull"] # "exit"
    /\ rtmp_pull_ = "closing" <=> \/ pc["app"] \in {"disconnect", "join_pull"}
                                  \/ pc["player"] \in {"disconnect", "join_pull"}
    /\ pc["app"] = "delete_decoder" \/ pc["player"] = "delete_decoder" =>
          rtmp_pull_ = "none"
    /\ rtmp_pull_ # "none" => decoder

\* No connection is left when the retries are used up.
Retries ==
    /\ pc["pull"] \in {"init", "handshaked", "connected", "read", "feed"} => rtmp_ # "none"
    /\ pc["pull"] = "retry" => retry_ct_ <= MAX_RETRY_TIME /\ rtmp_ = "none"
    /\ retry_ct_ = MAX_RETRY_TIME + 1 => rtmp_ = "none"

\* The audio callback is set for a playback, and by nobody else.
Quiet == ~started /\ ~track /\ pc["audio"] = "idle"

Tracks ==
    /\ pc["app"] = "start_track" => ~track
    /\ ~started /\ pc["app"] \notin {"stop_track", "last_track"} => Quiet

\* At most one start waits, before all stops.
Order ==
    \A i \in 1..Len(Pending) : Pending[i] \in {"start", "stop"} /\ (i > 1 => Pending[i] = "stop")

StartPending == Pending # <<>> /\ Pending[1] = "start"
StopPending == \E i \in 1..Len(Pending) : Pending[i] = "stop"

Nothing == rtmp_pull_ = "none" /\ ~decoder

\* What a start that waits finds, and that only a stop follows it.
Starting ==
    StartPending => /\ Nothing /\ pc["player"] \in {"idle", "tick"}
                    /\ Len(Pending) > 1 => Quiet

\* What a stop finds that waits, or is being handled.
Stopping == StopPending \/ pc["player"] \in Deleting => failed \/ Quiet

\* A playback is ended, or its end is on the way.
Ended ==
    /\ ~started /\ pc["app"] \in {"ready", "stop_again", "quit", "join"} =>
          StopPending \/ pc["player"] \in Deleting \/ (Pending = <<>> /\ Nothing)
    /\ pc["app"] = "gone" => Nothing

\* A sound that is asked of a decoder that is gone was asked after a failure.
Sounds == ~decoder /\ pc["audio"] = "decoder" => failed

PlayerInv ==
    /\ Types /\ Ticks /\ Locks /\ Calls /\ Pulls /\ Retries
    /\ Tracks /\ Order /\ Starting /\ Stopping /\ Ended /\ Sounds

-----------------------------------------------------------------------------
(* What the steps do to the places and to the queue.                       *)

\* One thread goes on, the others stay.
LEMMA GoApp ==
  ASSUME pc \in Places, NEW from, NEW to \in AppPlaces, Go("app", from, to)
  PROVE  /\ pc' \in Places /\ pc["app"] = from /\ pc'["app"] = to
         /\ pc'["player"] = pc["player"] /\ pc'["pull"] = pc["pull"]
         /\ pc'["audio"] = pc["audio"]
PROOF
  BY DEF Places, Go

LEMMA GoPlayer ==
  ASSUME pc \in Places, NEW from, NEW to \in PlayerPlaces, Go("player", from, to)
  PROVE  /\ pc' \in Places /\ pc["player"] = from /\ pc'["player"] = to
         /\ pc'["app"] = pc["app"] /\ pc'["pull"] = pc["pull"]
         /\ pc'["audio"] = pc["audio"]
PROOF
  BY DEF Places, Go

LEMMA GoPull ==
  ASSUME pc \in Places, NEW from, NEW to \in PullPlaces, Go("pull", from, to)
  PROVE  /\ pc' \in Places /\ pc["pull"] = from /\ pc'["pull"] = to
         /\ pc'["app"] = pc["app"] /\ pc'["player"] = pc["player"]
         /\ pc'["audio"] = pc["audio"]
PROOF
  BY DEF Places, Go

LEMMA GoAudio ==
  ASSUME pc \in Places, NEW from, NEW to \in AudioPlaces, Go("audio", from, to)
  PROVE  /\ pc' \in Places /\ pc["audio"] = from /\ pc'["audio"] = to
         /\ pc'["app"] = pc["app"] /\ pc'["player"] = pc["player"]
         /\ pc'["pull"] = pc["pull"]
PROOF
  BY DEF Places, Go

\* The queue and what of it is pending.
LEMMA PendingType ==
  ASSUME msgq \in Seq(Messages)
  PROVE  /\ Pending \in Seq({"start", "stop"})
         /\ Len(Pending) \in Nat /\ Len(msgq) \in Nat /\ Len(Pending) <= Len(msgq)
PROOF
  <1> DEFINE R == Messages \ {"tick"}
  <1>1. R = {"start", "stop"}
    BY DEF Messages
  <1>2. Pending \in Seq(R) /\ Len(Pending) <= Len(msgq)
    BY WithoutFacts DEF Pending
  <1> HIDE DEF R
  <1>3. Pending \in Seq({"start", "stop"})
    BY <1>1, <1>2
  <1> QED
    BY <1>2, <1>3

LEMMA SamePending == UNCHANGED msgq => Pending' = Pending
PROOF
  BY DEF Pending

LEMMA Posted ==
  ASSUME msgq \in Seq(Messages), NEW e \in Messages, msgq' = Append(msgq, e)
  PROVE  /\ msgq' \in Seq(Messages) /\ Len(msgq') = Len(msgq) + 1
         /\ Pending' = IF e = "tick" THEN Pending ELSE Append(Pending, e)
PROOF
  <1>1. Without(Append(msgq, e), "tick") =
           IF e = "tick" THEN Without(msgq, "tick") ELSE Append(Without(msgq, "tick"), e)
    BY WithoutAppend
  <1> QED
    BY <1>1 DEF Pending

LEMMA Stopped ==
  ASSUME msgq \in Seq(Messages), quit \in BOOLEAN, StopPlay
  PROVE  /\ ticks' = 0 /\ heard' = "closed" /\ msgq' \in Seq(Messages)
         /\ Len(msgq') = Len(Pending')
         /\ Pending' = IF quit THEN Pending ELSE Append(Pending, "stop")
PROOF
  <1> DEFINE p == Without(msgq, "tick")
  <1>1. p \in Seq(Messages) /\ Without(p, "tick") = p
    <2>1. p \in Seq(Messages \ {"tick"}) /\ Without(p, "tick") = p
      BY WithoutFacts, WithoutTwice
    <2> HIDE DEF p
    <2> QED
      BY <2>1
  <1>2. Without(Append(p, "stop"), "tick") = Append(p, "stop")
    <2> HIDE DEF p
    <2>1. "stop" \in Messages /\ "stop" # "tick"
      BY DEF Messages
    <2>2. Without(Append(p, "stop"), "tick") = Append(Without(p, "tick"), "stop")
      BY <1>1, <2>1, WithoutAppend
    <2> QED
      BY <1>1, <2>2
  <1>3. msgq' = IF quit THEN p ELSE Append(p, "stop")
    BY DEF StopPlay, Post
  <1>4. Pending = p /\ Pending' = Without(msgq', "tick")
    BY DEF Pending
  <1> HIDE DEF p
  <1>5. Append(p, "stop") \in Seq(Messages)
    BY <1>1 DEF Messages
  <1> QED
    BY <1>1, <1>2, <1>3, <1>4, <1>5 DEF StopPlay

LEMMA Got ==
  ASSUME msgq \in Seq(Messages), NEW m, Get(m)
  PROVE  /\ msgq' \in Seq(Messages) /\ Len(msgq') = Len(msgq) - 1 /\ Len(msgq) > 0 /\ ~quit
         /\ m = "tick" => Pending' = Pending
         /\ m # "tick" => /\ Pending # <<>> /\ Pending[1] = m
                          /\ Pending' = Tail(Pending)
PROOF
  <1>1. msgq # <<>> /\ Head(msgq) = m /\ msgq' = Tail(msgq) /\ ~quit
    BY DEF Get
  <1>2. msgq' \in Seq(Messages) /\ Len(msgq') = Len(msgq) - 1 /\ Len(msgq) > 0
    BY <1>1
  <1> DEFINE p == Without(msgq, "tick")
             r == Without(Tail(msgq), "tick")
  <1>3. /\ Head(msgq) = "tick" => r = p
        /\ Head(msgq) # "tick" => p # <<>> /\ Head(p) = Head(msgq) /\ Tail(p) = r
    BY <1>1, WithoutTail
  <1>4. Pending = p /\ Pending' = r
    BY <1>1 DEF Pending
  <1>5. Pending \in Seq({"start", "stop"})
    BY PendingType
  <1> HIDE DEF p, r
  <1>6. Head(p) = p[1]
    BY <1>4, <1>5
  <1> QED
    BY <1>1, <1>2, <1>3, <1>4, <1>6

\* Nothing is pending once the player has handled every message.
LEMMA SettledPending ==
  ASSUME msgq \in Seq(Messages), Settled
  PROVE  Pending = <<>>
PROOF
  <1>1. AllAre(msgq, "tick")
    BY DEF Settled, AllAre
  <1> QED
    BY <1>1, WithoutFacts DEF Pending

-----------------------------------------------------------------------------
(* The pull thread.                                                        *)

\* A step that leaves the queue and the other threads where they are.
LEMMA PullAlone ==
  ASSUME PlayerInv, UNCHANGED <<calls, queue, decoder, rtmp_pull_, failed>>,
         pc'["app"] = pc["app"], pc'["player"] = pc["player"], pc'["audio"] = pc["audio"]
  PROVE  /\ Ticks' /\ Calls' /\ Tracks' /\ Order'
         /\ Starting' /\ Stopping' /\ Ended' /\ Sounds'
PROOF
  <1>1. /\ Pending' = Pending /\ ticks' = ticks /\ msgq' = msgq /\ quit' = quit
        /\ started' = started /\ track' = track /\ starts' = starts
    BY SamePending DEF queue, calls
  <1>2. Quiet' = Quiet /\ StopPending' = StopPending /\ StartPending' = StartPending
        /\ Nothing' = Nothing
    BY <1>1 DEF Quiet, StopPending, StartPending, Nothing
  <1>3. Ticks' /\ Calls' /\ Order'
    BY <1>1 DEF PlayerInv, Ticks, Calls, Order
  <1>4. Tracks' /\ Starting' /\ Stopping' /\ Ended' /\ Sounds'
    BY <1>1, <1>2 DEF PlayerInv, Tracks, Starting, Stopping, Ended, Sounds
  <1> QED
    BY <1>3, <1>4

LEMMA TurnStep == ASSUME PlayerInv, Turn PROVE PlayerInv'
PROOF
  <1>1. PICK to \in PullPlaces :
          /\ Go("pull", "loop", to)
          /\ \/ rtmp_pull_ = "closing" /\ to = "exit"
             \/ /\ rtmp_pull_ = "live" /\ rtmp_ # "none"
                /\ to \in {"init", "handshaked", "connected", "read"}
    BY DEF Turn, Stages, PullPlaces
  <1>2. /\ pc' \in Places /\ pc["pull"] = "loop" /\ pc'["pull"] = to
        /\ pc'["app"] = pc["app"] /\ pc'["player"] = pc["player"]
        /\ pc'["audio"] = pc["audio"]
    BY <1>1, GoPull DEF PlayerInv, Types
  <1>3. /\ UNCHANGED <<lock, calls, queue, decoder, rtmp_pull_, failed>>
        /\ UNCHANGED <<rtmp_, retry_ct_, status, heard>>
    BY DEF Turn, pull, told
  <1>4. Types' /\ Locks' /\ Retries' /\ Pulls'
    <2>1. Types'
      BY <1>2, <1>3 DEF PlayerInv, Types, calls, queue
    <2>2. Locks' /\ Retries' /\ Pulls'
      BY <1>1, <1>2, <1>3 DEF PlayerInv, Locks, Retries, Pulls
    <2> QED
      BY <2>1, <2>2
  <1> QED
    BY <1>2, <1>3, <1>4, PullAlone DEF PlayerInv

LEMMA StageDoneStep == ASSUME PlayerInv, StageDone PROVE PlayerInv'
PROOF
  <1>1. /\ pc["pull"] \in {"init", "handshaked", "connected"} /\ rtmp_ = "open"
        /\ Go("pull", pc["pull"], "loop")
        /\ status' \in {"handshaked", "connected", "played"}
        /\ retry_ct_' \in {0, retry_ct_} /\ heard' \in {"ok", heard}
        /\ UNCHANGED <<lock, calls, queue, decoder, rtmp_pull_, rtmp_, failed>>
    BY DEF StageDone, Stages
  <1>2. /\ pc' \in Places /\ pc'["pull"] = "loop"
        /\ pc'["app"] = pc["app"] /\ pc'["player"] = pc["player"]
        /\ pc'["audio"] = pc["audio"]
    BY <1>1, GoPull DEF PlayerInv, Types, PullPlaces
  <1>3. Types'
    BY <1>1, <1>2, PlayerAssumption DEF PlayerInv, Types, calls, queue
  <1>4. Locks' /\ Retries' /\ Pulls'
    <2>1. Locks'
      BY <1>1, <1>2 DEF PlayerInv, Locks
    <2>2. retry_ct_' # MAX_RETRY_TIME + 1
      BY <1>1, PlayerAssumption DEF PlayerInv, Retries
    <2>3. Retries' /\ Pulls'
      BY <1>1, <1>2, <2>2 DEF PlayerInv, Retries, Pulls
    <2> QED
      BY <2>1, <2>3
  <1> QED
    BY <1>1, <1>2, <1>3, <1>4, PullAlone DEF PlayerInv

LEMMA StageFailedStep == ASSUME PlayerInv, StageFailed PROVE PlayerInv'
PROOF
  <1>1. /\ pc["pull"] \in {"init", "handshaked", "connected"}
        /\ rtmp_' = "none" /\ lock' = [lock EXCEPT !["rtmp"] = "pull"]
        /\ UNCHANGED <<calls, queue, decoder, rtmp_pull_, retry_ct_, status, heard, failed>>
    BY DEF StageFailed, Stages, told
  <1>2. PICK to \in {"retry", "unlock"} : Go("pull", pc["pull"], to)
    BY DEF StageFailed
  <1>3. /\ pc' \in Places /\ pc'["pull"] = to
        /\ pc'["app"] = pc["app"] /\ pc'["player"] = pc["player"]
        /\ pc'["audio"] = pc["audio"]
    BY <1>2, GoPull DEF PlayerInv, Types, PullPlaces
  <1>4. Types'
    BY <1>1, <1>3 DEF PlayerInv, Types, calls, queue
  <1>5. Locks'
    <2>1. lock'["rtmp"] = "pull" /\ lock'["track"] = lock["track"]
      BY <1>1 DEF PlayerInv, Types
    <2> QED
      BY <1>2, <1>3, <2>1 DEF PlayerInv, Locks
  <1>6. Retries' /\ Pulls'
    <2>1. rtmp_ # "none"
      BY <1>1 DEF PlayerInv, Retries
    <2>2. rtmp_pull_ # "none" /\ retry_ct_ # MAX_RETRY_TIME + 1
      BY <2>1 DEF PlayerInv, Retries, Pulls
    <2>3. retry_ct_ <= MAX_RETRY_TIME
      BY <2>2, PlayerAssumption DEF PlayerInv, Types
    <2>4. Retries'
      BY <1>1, <1>3, <2>3 DEF Retries
    <2>5. Pulls'
      BY <1>1, <1>3, <2>2 DEF PlayerInv, Pulls
    <2> QED
      BY <2>4, <2>5
  <1> QED
    BY <1>1, <1>3, <1>4, <1>5, <1>6, PullAlone DEF PlayerInv

\* The pull that gives up still exists, so no start waits.
LEMMA RetryStep == ASSUME PlayerInv, Retry PROVE PlayerInv'
PROOF
  <1>1. /\ Go("pull", "retry", "unlock") /\ status' = "init" /\ retry_ct_' = retry_ct_ + 1
        /\ UNCHANGED <<lock, calls, quit, decoder, rtmp_pull_>>
    BY DEF Retry
  <1>2. /\ pc' \in Places /\ pc["pull"] = "retry" /\ pc'["pull"] = "unlock"
        /\ pc'["app"] = pc["app"] /\ pc'["player"] = pc["player"]
        /\ pc'["audio"] = pc["audio"]
    BY <1>1, GoPull DEF PlayerInv, Types, PullPlaces
  <1>3. rtmp_pull_ # "none" /\ retry_ct_ \in 0..MAX_RETRY_TIME /\ rtmp_ = "none"
    <2>1. rtmp_pull_ # "none"
      BY <1>2 DEF PlayerInv, Pulls
    <2>2. retry_ct_ <= MAX_RETRY_TIME /\ rtmp_ = "none"
      BY <1>2 DEF PlayerInv, Retries
    <2>3. retry_ct_ \in 0..MAX_RETRY_TIME + 1
      BY DEF PlayerInv, Types
    <2> QED
      BY <2>1, <2>2, <2>3, PlayerAssumption
  <1>4. Locks' /\ Pulls' /\ retry_ct_' \in 0..MAX_RETRY_TIME + 1
    <2>1. Locks'
      BY <1>1, <1>2 DEF PlayerInv, Locks
    <2>2. Pulls'
      BY <1>1, <1>2, <1>3 DEF PlayerInv, Pulls
    <2>3. retry_ct_' \in 0..MAX_RETRY_TIME + 1
      BY <1>1, <1>3, PlayerAssumption
    <2> QED
      BY <2>1, <2>2, <2>3
  <1>5. CASE retry_ct_' <= MAX_RETRY_TIME
    <2>1. rtmp_' = "open" /\ UNCHANGED <<ticks, msgq, told>>
      BY <1>5 DEF Retry
    <2>2. Types'
      BY <1>1, <1>2, <1>4, <2>1 DEF PlayerInv, Types, calls, told
    <2>3. Retries'
      BY <1>2, <1>4, <1>5, <2>1, PlayerAssumption DEF PlayerInv, Retries
    <2>4. UNCHANGED <<calls, queue, decoder, rtmp_pull_, failed>>
      BY <1>1, <2>1 DEF queue, told
    <2> QED
      BY <1>2, <1>4, <2>2, <2>3, <2>4, PullAlone DEF PlayerInv
  <1>6. CASE ~ (retry_ct_' <= MAX_RETRY_TIME)
    <2>1. StopPlay /\ failed' = TRUE /\ rtmp_' = "none"
      BY <1>3, <1>6 DEF Retry
    <2>2. /\ ticks' = 0 /\ heard' = "closed" /\ msgq' \in Seq(Messages)
          /\ Len(msgq') = Len(Pending')
          /\ Pending' = IF quit THEN Pending ELSE Append(Pending, "stop")
      BY <2>1, Stopped DEF PlayerInv, Types
    <2>3. Types'
      BY <1>1, <1>2, <1>4, <2>1, <2>2 DEF PlayerInv, Types, calls
    <2>4. Retries'
      BY <1>2, <2>1 DEF PlayerInv, Retries
    <2>5. /\ Pending \in Seq({"start", "stop"}) /\ Len(Pending) <= Len(msgq)
          /\ Len(Pending) \in Nat /\ Len(msgq) \in Nat /\ Len(msgq') \in Nat
      BY <2>2, PendingType DEF PlayerInv, Types
    <2>6. Ticks'
      BY <1>1, <1>2, <2>2, <2>5 DEF PlayerInv, Types, Ticks, calls
    <2>7. Calls' /\ Tracks' /\ Sounds'
      BY <1>1, <1>2, <2>1 DEF PlayerInv, Calls, Tracks, Quiet, Sounds, calls
    <2>8. Order'
      BY <2>2, <2>5 DEF PlayerInv, Order
    <2>9. Starting'
      <3>1. ~StartPending
        BY <1>3 DEF PlayerInv, Starting, Nothing
      <3>2. ~StartPending'
        BY <2>2, <2>5, <3>1 DEF StartPending
      <3> QED
        BY <3>2 DEF Starting
    <2>10. Stopping' /\ Ended'
      <3>1. StopPending => StopPending'
        BY <2>2, <2>5 DEF StopPending
      <3>2. Stopping'
        BY <2>1 DEF Stopping
      <3>3. Ended'
        BY <1>1, <1>2, <1>3, <3>1 DEF PlayerInv, Ended, Nothing, calls
      <3> QED
        BY <3>2, <3>3
    <2> QED
      BY <1>4, <2>3, <2>4, <2>6, <2>7, <2>8, <2>9, <2>10 DEF PlayerInv
  <1> QED
    BY <1>5, <1>6

LEMMA UnlockStep == ASSUME PlayerInv, Unlock PROVE PlayerInv'
PROOF
  <1>1. /\ Go("pull", "unlock", "loop") /\ lock' = [lock EXCEPT !["rtmp"] = "free"]
        /\ UNCHANGED <<calls, queue, decoder, rtmp_pull_, failed>>
        /\ UNCHANGED <<rtmp_, retry_ct_, status, heard>>
    BY DEF Unlock, pull, told
  <1>2. /\ pc' \in Places /\ pc["pull"] = "unlock" /\ pc'["pull"] = "loop"
        /\ pc'["app"] = pc["app"] /\ pc'["player"] = pc["player"]
        /\ pc'["audio"] = pc["audio"]
    BY <1>1, GoPull DEF PlayerInv, Types, PullPlaces
  <1>3. Types'
    BY <1>1, <1>2 DEF PlayerInv, Types, calls, queue
  <1>4. Locks'
    BY <1>1, <1>2 DEF PlayerInv, Types, Locks
  <1>5. Retries' /\ Pulls'
    BY <1>1, <1>2 DEF PlayerInv, Retries, Pulls
  <1> QED
    BY <1>1, <1>2, <1>3, <1>4, <1>5, PullAlone DEF PlayerInv

\* ReadData, ReadError and Fed only move the thread.
LEMMA ReadSteps ==
  ASSUME PlayerInv, ReadData \/ ReadError \/ Fed
  PROVE  PlayerInv'
PROOF
  <1>1. /\ UNCHANGED <<lock, calls, queue, decoder, rtmp_pull_, failed>>
        /\ UNCHANGED <<rtmp_, retry_ct_, status, heard>>
    BY DEF ReadData, ReadError, Fed, pull, told
  <1>2. PICK from \in {"read", "feed"}, to \in {"feed", "loop"} : Go("pull", from, to)
    BY DEF ReadData, ReadError, Fed
  <1>3. /\ pc' \in Places /\ pc["pull"] = from /\ pc'["pull"] = to
        /\ pc'["app"] = pc["app"] /\ pc'["player"] = pc["player"]
        /\ pc'["audio"] = pc["audio"]
    BY <1>2, GoPull DEF PlayerInv, Types, PullPlaces
  <1>4. Types'
    BY <1>1, <1>3 DEF PlayerInv, Types, calls, queue
  <1>5. Locks' /\ Retries' /\ Pulls'
    BY <1>1, <1>3 DEF PlayerInv, Locks, Retries, Pulls
  <1> QED
    BY <1>1, <1>3, <1>4, <1>5, PullAlone DEF PlayerInv

-----------------------------------------------------------------------------
(* The audio device.                                                       *)

\* It is quiet before and after a step, or it is not quiet before.
LEMMA AudioAlone ==
  ASSUME PlayerInv, UNCHANGED <<calls, queue, decoder, pull, told>>,
         Types', pc'["app"] = pc["app"], pc'["player"] = pc["player"],
         pc'["pull"] = pc["pull"],
         pc["audio"] # "idle" \/ track,
         lock'["rtmp"] = lock["rtmp"],
         lock'["track"] = IF pc'["audio"] = "idle" THEN "free" ELSE "audio",
         Sounds'
  PROVE  PlayerInv'
PROOF
  <1>1. /\ Pending' = Pending /\ UNCHANGED <<started, track, starts, ticks, msgq, quit>>
        /\ UNCHANGED <<decoder, rtmp_pull_, status, rtmp_, retry_ct_, heard, failed>>
    BY SamePending DEF queue, calls, pull, told
  <1>2. ~Quiet
    BY DEF Quiet
  <1>3. StopPending' = StopPending /\ StartPending' = StartPending /\ Nothing' = Nothing
    BY <1>1 DEF StopPending, StartPending, Nothing
  <1>4. Ticks' /\ Calls' /\ Order' /\ Ended'
    BY <1>1, <1>3 DEF PlayerInv, Ticks, Calls, Order, Ended
  <1>5. Locks' /\ Pulls' /\ Retries'
    <2>1. Locks'
      BY DEF PlayerInv, Locks
    <2>2. Pulls'
      BY <1>1 DEF PlayerInv, Pulls
    <2>3. Retries'
      BY <1>1 DEF PlayerInv, Retries
    <2> QED
      BY <2>1, <2>2, <2>3
  <1>6. Tracks' /\ Starting' /\ Stopping'
    BY <1>1, <1>2, <1>3 DEF PlayerInv, Tracks, Starting, Stopping
  <1> QED
    BY <1>4, <1>5, <1>6 DEF PlayerInv

LEMMA NeedStep == ASSUME PlayerInv, NeedMorePlayData PROVE PlayerInv'
PROOF
  <1>1. /\ track /\ Go("audio", "idle", "need") /\ lock' = [lock EXCEPT !["track"] = "audio"]
        /\ UNCHANGED <<calls, queue, decoder, pull, told>>
    BY DEF NeedMorePlayData
  <1>2. /\ pc' \in Places /\ pc'["audio"] = "need"
        /\ pc'["app"] = pc["app"] /\ pc'["player"] = pc["player"]
        /\ pc'["pull"] = pc["pull"]
    BY <1>1, GoAudio DEF PlayerInv, Types, AudioPlaces
  <1>3. /\ lock' \in [rtmp : {"free", "pull", "player", "app"}, track : {"free", "audio"}]
        /\ lock'["rtmp"] = lock["rtmp"] /\ lock'["track"] = "audio"
    BY <1>1 DEF PlayerInv, Types
  <1>4. Sounds'
    BY <1>2 DEF Sounds
  <1>5. Types'
    BY <1>1, <1>2, <1>3 DEF PlayerInv, Types, calls, queue, pull, told
  <1> QED
    BY <1>1, <1>2, <1>3, <1>4, <1>5, AudioAlone

LEMMA PcmStep == ASSUME PlayerInv, GetPcmData PROVE PlayerInv'
PROOF
  <1>1. /\ Go("audio", "need", IF decoder THEN "decoder" ELSE "done")
        /\ UNCHANGED <<lock, calls, queue, decoder, pull, told>>
    BY DEF GetPcmData
  <1>2. /\ pc' \in Places /\ pc["audio"] = "need"
        /\ pc'["audio"] = IF decoder THEN "decoder" ELSE "done"
        /\ pc'["app"] = pc["app"] /\ pc'["player"] = pc["player"]
        /\ pc'["pull"] = pc["pull"]
    BY <1>1, GoAudio DEF PlayerInv, Types, AudioPlaces
  <1>3. /\ lock' \in [rtmp : {"free", "pull", "player", "app"}, track : {"free", "audio"}]
        /\ lock'["rtmp"] = lock["rtmp"] /\ lock'["track"] = "audio"
    BY <1>1, <1>2 DEF PlayerInv, Types, Locks
  <1>4. Sounds'
    BY <1>1, <1>2 DEF Sounds
  <1>5. Types'
    BY <1>1, <1>2, <1>3 DEF PlayerInv, Types, calls, queue, pull, told
  <1> QED
    BY <1>1, <1>2, <1>3, <1>4, <1>5, AudioAlone

LEMMA ReturnStep == ASSUME PlayerInv, AudioReturn PROVE PlayerInv'
PROOF
  <1>1. PICK from \in {"decoder", "done"} : Go("audio", from, "idle")
    BY DEF AudioReturn
  <1>2. /\ lock' = [lock EXCEPT !["track"] = "free"]
        /\ UNCHANGED <<calls, queue, decoder, pull, told>>
    BY DEF AudioReturn
  <1>3. /\ pc' \in Places /\ pc["audio"] # "idle" /\ pc'["audio"] = "idle"
        /\ pc'["app"] = pc["app"] /\ pc'["player"] = pc["player"]
        /\ pc'["pull"] = pc["pull"]
    BY <1>1, GoAudio DEF PlayerInv, Types, AudioPlaces
  <1>4. /\ lock' \in [rtmp : {"free", "pull", "player", "app"}, track : {"free", "audio"}]
        /\ lock'["rtmp"] = lock["rtmp"] /\ lock'["track"] = "free"
    BY <1>2 DEF PlayerInv, Types
  <1>5. Sounds'
    BY <1>3 DEF Sounds
  <1>6. Types'
    BY <1>2, <1>3, <1>4 DEF PlayerInv, Types, calls, queue, pull, told
  <1> QED
    BY <1>2, <1>3, <1>4, <1>5, <1>6, AudioAlone

-----------------------------------------------------------------------------
(* The player.                                                             *)

LEMMA DueStep == ASSUME PlayerInv, Due PROVE PlayerInv'
PROOF
  <1>1. /\ ticks > 0 /\ pc["player"] = "idle" /\ ticks' = ticks - 1
        /\ msgq' = Append(msgq, "tick")
        /\ UNCHANGED <<pc, lock, started, track, starts, quit, decoder, rtmp_pull_, status,
                       rtmp_, retry_ct_, heard, failed>>
    BY DEF Due, calls, pull, told
  <1>2. /\ msgq' \in Seq(Messages) /\ Len(msgq') = Len(msgq) + 1 /\ Pending' = Pending
        /\ Len(Pending) \in Nat /\ Len(msgq) \in Nat
    <2>1. "tick" \in Messages
      BY DEF Messages
    <2> QED
      BY <1>1, <2>1, Posted, PendingType DEF PlayerInv, Types
  <1>3. Types' /\ Ticks'
    BY <1>1, <1>2 DEF PlayerInv, Types, Ticks
  <1>4. Locks' /\ Calls' /\ Pulls' /\ Retries'
    BY <1>1 DEF PlayerInv, Locks, Calls, Pulls, Retries
  <1>5. Tracks' /\ Order' /\ Starting' /\ Stopping' /\ Ended' /\ Sounds'
    BY <1>1, <1>2 DEF PlayerInv, Tracks, Order, Starting, Stopping, Ended, Sounds, Quiet,
                      StartPending, StopPending, Nothing
  <1> QED
    BY <1>3, <1>4, <1>5 DEF PlayerInv

\* The start finds nothing, and leaves only stops behind it.
LEMMA OnStartStep == ASSUME PlayerInv, OnStart PROVE PlayerInv'
PROOF
  <1>1. /\ msgq' \in Seq(Messages) /\ Len(msgq') = Len(msgq) - 1 /\ Len(msgq) > 0 /\ ~quit
        /\ Pending # <<>> /\ Pending[1] = "start" /\ Pending' = Tail(Pending)
    BY Got DEF OnStart, PlayerInv, Types
  <1>2. /\ Pending \in Seq({"start", "stop"}) /\ Len(Pending) <= Len(msgq)
        /\ Len(Pending) \in Nat /\ Len(msgq) \in Nat
    BY PendingType DEF PlayerInv, Types
  <1>3. /\ Pending' \in Seq({"start", "stop"}) /\ Len(Pending') = Len(Pending) - 1
        /\ \A i \in 1..Len(Pending') : i + 1 \in 1..Len(Pending)
                                       /\ Pending'[i] = Pending[i + 1]
    BY <1>1, <1>2
  <1>4. rtmp_pull_ = "none" /\ ~decoder /\ (Len(Pending) > 1 => Quiet)
    BY <1>1 DEF PlayerInv, Starting, StartPending, Nothing
  <1>5. /\ pc["player"] = "idle" /\ decoder' = TRUE /\ failed' = FALSE
        /\ rtmp_pull_' = "live" /\ status' = "init" /\ rtmp_' = "open"
        /\ retry_ct_' = 0
        /\ UNCHANGED <<lock, started, track, starts, ticks, quit, heard>>
    BY <1>4 DEF OnStart, calls
  <1>6. /\ pc' \in Places /\ pc'["pull"] = "loop" /\ pc'["app"] = pc["app"]
        /\ pc'["player"] = pc["player"] /\ pc'["audio"] = pc["audio"]
    BY <1>4 DEF OnStart, PlayerInv, Types, Places, PullPlaces
  <1>7. pc["pull"] = "exit" /\ pc["app"] \notin {"join", "gone"} \cup Deleting
    BY <1>1, <1>4 DEF PlayerInv, Pulls, Calls
  <1>8. Types' /\ Ticks'
    <2>1. Types'
      <3>1. /\ retry_ct_' \in 0..MAX_RETRY_TIME + 1
            /\ decoder' \in BOOLEAN /\ failed' \in BOOLEAN
        <4>1. retry_ct_' \in 0..MAX_RETRY_TIME + 1
          BY <1>5, PlayerAssumption
        <4>2. decoder' \in BOOLEAN /\ failed' \in BOOLEAN
          BY <1>5
        <4> QED
          BY <4>1, <4>2
      <3> QED
        BY <1>1, <1>5, <1>6, <3>1 DEF PlayerInv, Types
    <2>2. Ticks'
      BY <1>1, <1>2, <1>3, <1>5, <1>6 DEF PlayerInv, Types, Ticks
    <2> QED
      BY <2>1, <2>2
  <1>9. Locks' /\ Calls'
    BY <1>5, <1>6, <1>7 DEF PlayerInv, Locks, Calls
  <1>10. Pulls' /\ Retries'
    <2>1. /\ pc["app"] \notin {"disconnect", "join_pull", "delete_decoder"}
          /\ pc["player"] \notin {"disconnect", "join_pull", "delete_decoder"}
      BY <1>5, <1>7 DEF Deleting
    <2>2. Pulls'
      BY <1>5, <1>6, <2>1 DEF Pulls
    <2>3. Retries'
      BY <1>5, <1>6, PlayerAssumption DEF Retries
    <2> QED
      BY <2>2, <2>3
  <1>11. Quiet' = Quiet
    BY <1>5, <1>6 DEF Quiet
  <1>12. Tracks' /\ Sounds'
    BY <1>5, <1>6, <1>11 DEF PlayerInv, Tracks, Sounds
  <1>13. \A i \in 1..Len(Pending') : Pending'[i] = "stop"
    BY <1>3 DEF PlayerInv, Order
  <1>14. Order' /\ Starting'
    <2>1. Order'
      BY <1>13 DEF Order
    <2>2. ~StartPending'
      BY <1>3, <1>13 DEF StartPending
    <2> QED
      BY <2>1, <2>2 DEF Starting
  <1>15. Stopping'
    <2>1. StopPending' => Len(Pending) > 1
      BY <1>2, <1>3 DEF StopPending
    <2> QED
      BY <1>4, <1>5, <1>6, <1>11, <2>1 DEF Stopping, Deleting
  <1>16. Ended'
    <2>1. StopPending => StopPending'
      <3> SUFFICES ASSUME NEW i \in 1..Len(Pending), Pending[i] = "stop"
                   PROVE  StopPending'
        BY DEF StopPending
      <3>1. i # 1 /\ i - 1 \in 1..Len(Pending') /\ (i - 1) + 1 = i
        BY <1>1, <1>2, <1>3
      <3>2. Pending'[i - 1] = "stop"
        BY <1>3, <3>1
      <3> QED
        BY <3>1, <3>2 DEF StopPending
    <2> QED
      BY <1>1, <1>5, <1>6, <1>7, <2>1 DEF PlayerInv, Ended, Deleting
  <1> QED
    BY <1>8, <1>9, <1>10, <1>12, <1>14, <1>15, <1>16 DEF PlayerInv

LEMMA OnStopStep == ASSUME PlayerInv, OnStop PROVE PlayerInv'
PROOF
  <1>1. /\ msgq' \in Seq(Messages) /\ Len(msgq') = Len(msgq) - 1 /\ Len(msgq) > 0
        /\ Pending # <<>> /\ Pending[1] = "stop" /\ Pending' = Tail(Pending)
    <2>1. Get("stop") /\ msgq \in Seq(Messages)
      BY DEF OnStop, PlayerInv, Types
    <2> QED
      BY <2>1, Got
  <1>2. /\ Pending \in Seq({"start", "stop"}) /\ Len(Pending) <= Len(msgq)
        /\ Len(Pending) \in Nat /\ Len(msgq) \in Nat
    BY PendingType DEF PlayerInv, Types
  <1>3. /\ Pending' \in Seq({"start", "stop"}) /\ Len(Pending') = Len(Pending) - 1
        /\ \A i \in 1..Len(Pending') : i + 1 \in 1..Len(Pending)
                                       /\ Pending'[i] = Pending[i + 1]
    BY <1>1, <1>2
  <1>4. UNCHANGED <<lock, started, track, starts, ticks, quit, decoder, rtmp_pull_, status,
                    rtmp_, retry_ct_, heard, failed>>
    BY DEF OnStop, calls, pull, told
  <1>5. /\ pc' \in Places /\ pc["player"] = "idle" /\ pc'["player"] = "delete_pull"
        /\ pc'["app"] = pc["app"] /\ pc'["pull"] = pc["pull"]
        /\ pc'["audio"] = pc["audio"]
    <2>1. Go("player", "idle", "delete_pull")
      BY DEF OnStop
    <2> QED
      BY <2>1, GoPlayer DEF PlayerInv, Types, PlayerPlaces, Deleting
  <1>6. StopPending /\ pc["app"] \notin {"join", "gone"} \cup Deleting
    <2>1. StopPending
      BY <1>1, <1>2 DEF StopPending
    <2>2. ~quit
      BY DEF OnStop, Get
    <2>3. pc["app"] \notin {"join", "gone"} \cup Deleting
      BY <2>2 DEF PlayerInv, Calls
    <2> QED
      BY <2>1, <2>3
  <1>7. Types' /\ Ticks'
    <2>1. Types'
      <3>1. Types
        BY DEF PlayerInv
      <3>2. pc' \in Places /\ msgq' \in Seq(Messages)
        BY <1>1, <1>5
      <3>3. started' \in BOOLEAN /\ track' \in BOOLEAN /\ quit' \in BOOLEAN
            /\ decoder' \in BOOLEAN /\ failed' \in BOOLEAN
        BY <1>4, <3>1 DEF Types
      <3>4. ticks' \in Nat /\ starts' \in Nat /\ retry_ct_' \in 0..MAX_RETRY_TIME + 1
        BY <1>4, <3>1 DEF Types
      <3>5. lock' \in [rtmp : {"free", "pull", "player", "app"}, track : {"free", "audio"}]
        BY <1>4, <3>1 DEF Types
      <3> QED
        BY <1>4, <3>1, <3>2, <3>3, <3>4, <3>5 DEF Types
    <2>2. Ticks'
      <3>0. pc["player"] = "idle" /\ pc'["player"] = "delete_pull"
        BY <1>5
      <3>1. ticks + Len(msgq) - Len(Pending) <= starts
        <4>1. Ticks
          BY DEF PlayerInv
        <4>2. ticks \in Nat
          BY DEF PlayerInv, Types
        <4> QED
          BY <1>2, <3>0, <4>1, <4>2 DEF Ticks
      <3>2. ticks' + Len(msgq') - Len(Pending') <= starts'
        BY <1>1, <1>2, <1>3, <1>4, <3>1 DEF PlayerInv, Types
      <3>3. ticks' + Len(msgq') - Len(Pending') \in Int
        BY <1>1, <1>2, <1>3, <1>4, <3>1 DEF PlayerInv, Types
      <3> QED
        BY <3>0, <3>2, <3>3 DEF Ticks
    <2> QED
      BY <2>1, <2>2
  <1>8. Locks' /\ Calls'
    BY <1>4, <1>5, <1>6 DEF PlayerInv, Locks, Calls
  <1>9. Pulls' /\ Retries'
    BY <1>4, <1>5 DEF PlayerInv, Pulls, Retries
  <1>10. Quiet' = Quiet /\ Nothing' = Nothing
    BY <1>4, <1>5 DEF Quiet, Nothing
  <1>11. Tracks' /\ Sounds' /\ Stopping' /\ Ended'
    BY <1>4, <1>5, <1>6, <1>10 DEF PlayerInv, Tracks, Sounds, Stopping, Ended, Deleting
  <1>12. \A i \in 1..Len(Pending') : Pending'[i] = "stop"
    BY <1>3 DEF PlayerInv, Order
  <1>13. Order' /\ Starting'
    <2>1. Order'
      BY <1>12 DEF Order
    <2>2. ~StartPending'
      BY <1>3, <1>12 DEF StartPending
    <2> QED
      BY <2>1, <2>2 DEF Starting
  <1> QED
    BY <1>7, <1>8, <1>9, <1>11, <1>13 DEF PlayerInv

LEMMA TickSteps == ASSUME PlayerInv, OnTick \/ TickAgain PROVE PlayerInv'
PROOF
  <1>1. UNCHANGED <<lock, started, track, starts, quit, decoder, rtmp_pull_, status,
                    rtmp_, retry_ct_, heard, failed>>
    BY DEF OnTick, TickAgain, calls, pull, told
  <1>2. /\ Pending \in Seq({"start", "stop"}) /\ Len(Pending) <= Len(msgq)
        /\ Len(Pending) \in Nat /\ Len(msgq) \in Nat
    BY PendingType DEF PlayerInv, Types
  <1>3. /\ pc' \in Places /\ {pc["player"], pc'["player"]} = {"idle", "tick"}
        /\ pc'["app"] = pc["app"] /\ pc'["pull"] = pc["pull"]
        /\ pc'["audio"] = pc["audio"]
        /\ msgq' \in Seq(Messages) /\ Pending' = Pending /\ ticks' \in Nat /\ Ticks'
    <2>1. CASE OnTick
      <3>1. Go("player", "idle", "tick") /\ Get("tick") /\ ticks' = ticks
        BY <2>1 DEF OnTick
      <3>2. /\ pc' \in Places /\ pc["player"] = "idle" /\ pc'["player"] = "tick"
            /\ pc'["app"] = pc["app"] /\ pc'["pull"] = pc["pull"]
            /\ pc'["audio"] = pc["audio"]
        BY <3>1, GoPlayer DEF PlayerInv, Types, PlayerPlaces
      <3>3. msgq' \in Seq(Messages) /\ Len(msgq') = Len(msgq) - 1 /\ Pending' = Pending
        BY <3>1, Got DEF PlayerInv, Types
      <3>4. ticks' \in Nat /\ Ticks'
        BY <1>1, <1>2, <3>1, <3>2, <3>3 DEF PlayerInv, Types, Ticks
      <3> QED
        BY <3>2, <3>3, <3>4
    <2>2. CASE TickAgain
      <3>1. /\ Go("player", "tick", "idle") /\ UNCHANGED msgq
            /\ ticks' = IF quit THEN ticks ELSE ticks + 1
        BY <2>2 DEF TickAgain
      <3>2. /\ pc' \in Places /\ pc["player"] = "tick" /\ pc'["player"] = "idle"
            /\ pc'["app"] = pc["app"] /\ pc'["pull"] = pc["pull"]
            /\ pc'["audio"] = pc["audio"]
        BY <3>1, GoPlayer DEF PlayerInv, Types, PlayerPlaces
      <3>3. msgq' \in Seq(Messages) /\ Pending' = Pending
        BY <3>1, SamePending DEF PlayerInv, Types
      <3>4. ticks' \in Nat /\ Ticks'
        BY <1>1, <1>2, <3>1, <3>2, <3>3 DEF PlayerInv, Types, Ticks
      <3> QED
        BY <3>2, <3>3, <3>4
    <2> QED
      BY <2>1, <2>2
  <1>4. /\ pc["player"] \in {"idle", "tick"} /\ pc'["player"] \in {"idle", "tick"}
        /\ pc["player"] \notin Deleting /\ pc'["player"] \notin Deleting
        /\ pc["player"] = "tick" => pc'["player"] = "idle"
    BY <1>3 DEF Deleting
  <1>5. Types'
    BY <1>1, <1>3 DEF PlayerInv, Types
  <1>6. Locks' /\ Pulls' /\ Retries'
    BY <1>1, <1>3, <1>4 DEF PlayerInv, Locks, Pulls, Retries
  <1>7. Calls'
    <2>1. pc'["player"] = "tick" => ~quit
      BY <1>3 DEF OnTick, TickAgain, Get, Go, PlayerInv, Types, Places
    <2> QED
      BY <1>1, <1>3, <1>4, <2>1 DEF PlayerInv, Calls
  <1>8. /\ Quiet' = Quiet /\ Nothing' = Nothing
        /\ StopPending' = StopPending /\ StartPending' = StartPending
    BY <1>1, <1>3 DEF Quiet, Nothing, StopPending, StartPending
  <1>9. Tracks' /\ Order' /\ Starting' /\ Stopping' /\ Ended' /\ Sounds'
    BY <1>1, <1>3, <1>4, <1>8 DEF PlayerInv, Tracks, Order, Starting, Stopping, Ended, Sounds
  <1> QED
    BY <1>3, <1>5, <1>6, <1>7, <1>9 DEF PlayerInv

-----------------------------------------------------------------------------
(* Deleting the pull and the decoder.                                      *)

\* Thread t goes on with deleting, and the others stay; there is no other that
\* deletes, and what is pending has no start.
LEMMA GoDeleter ==
  ASSUME PlayerInv, NEW t \in {"app", "player"}, NEW from \in Deleting,
         NEW to \in Deleting \cup {"gone", "idle"},
         to = "gone" => t = "app", to = "idle" => t = "player",
         Go(t, from, to)
  PROVE  /\ pc' \in Places /\ pc[t] = from /\ pc'[t] = to
         /\ pc'["pull"] = pc["pull"] /\ pc'["audio"] = pc["audio"]
         /\ \A s \in {"app", "player"} \ {t} : pc'[s] = pc[s] /\ pc[s] \notin Deleting
         /\ t = "app" => pc["player"] = "idle" /\ Quiet
         /\ t = "player" => pc["app"] \notin {"gone"} \cup Deleting
PROOF
  <1>1. CASE t = "app"
    <2>1. /\ pc' \in Places /\ pc["app"] = from /\ pc'["app"] = to
          /\ pc'["player"] = pc["player"] /\ pc'["pull"] = pc["pull"]
          /\ pc'["audio"] = pc["audio"]
      BY <1>1, GoApp DEF PlayerInv, Types, AppPlaces
    <2>2. pc["player"] = "idle"
      BY <2>1 DEF PlayerInv, Calls
    <2>3. ~started /\ pc["app"] \notin {"stop_track", "last_track"}
      BY <2>1 DEF PlayerInv, Calls, Deleting
    <2>4. Quiet
      BY <2>3 DEF PlayerInv, Tracks
    <2> QED
      BY <1>1, <2>1, <2>2, <2>4 DEF Deleting
  <1>2. CASE t = "player"
    <2>1. /\ pc' \in Places /\ pc["player"] = from /\ pc'["player"] = to
          /\ pc'["app"] = pc["app"] /\ pc'["pull"] = pc["pull"]
          /\ pc'["audio"] = pc["audio"]
      BY <1>2, GoPlayer DEF PlayerInv, Types, PlayerPlaces
    <2>2. pc["app"] \notin {"gone"} \cup Deleting
      BY <2>1 DEF PlayerInv, Calls, Deleting
    <2> QED
      BY <1>2, <2>1, <2>2
  <1> QED
    BY <1>1, <1>2

\* What a step of the deleting leaves alone, whoever takes it.
LEMMA DeleteAlone ==
  ASSUME PlayerInv, NEW t \in {"app", "player"}, pc[t] \in Deleting,
         pc'[t] \in Deleting \cup {"gone", "idle"},
         pc'[t] = "gone" => t = "app", pc'[t] = "idle" => t = "player",
         pc'["audio"] = pc["audio"],
         \A s \in {"app", "player"} \ {t} : pc'[s] = pc[s],
         t = "app" => pc["player"] = "idle" /\ Quiet,
         t = "player" => pc["app"] \notin {"gone"} \cup Deleting,
         UNCHANGED <<calls, queue, failed>>
  PROVE  /\ Ticks' /\ Calls' /\ Tracks' /\ Order' /\ Stopping'
         /\ (Nothing => Nothing') => Starting'
PROOF
  <1>1. /\ Pending' = Pending /\ UNCHANGED <<ticks, msgq, quit, started, track, starts>>
    BY SamePending DEF queue, calls
  <1>2. Quiet' = Quiet /\ StopPending' = StopPending /\ StartPending' = StartPending
    BY <1>1 DEF Quiet, StopPending, StartPending
  <1>3. pc["player"] # "tick" /\ pc'["player"] # "tick"
    BY DEF Deleting
  <1>4. Ticks' /\ Order'
    <2>1. Ticks'
      BY <1>1, <1>3 DEF PlayerInv, Ticks
    <2> QED
      BY <1>1, <2>1 DEF PlayerInv, Order
  <1>5. Calls'
    BY <1>1 DEF PlayerInv, Calls, Deleting
  <1>6. Tracks'
    BY <1>1, <1>2 DEF PlayerInv, Tracks, Deleting
  <1>7. Stopping'
    BY <1>2 DEF PlayerInv, Stopping, Deleting
  <1>8. ASSUME Nothing => Nothing' PROVE Starting'
    <2>1. t = "app" => pc'["player"] = "idle"
      OBVIOUS
    <2>2. t = "player" => ~StartPending
      BY DEF PlayerInv, Starting, Deleting
    <2> QED
      BY <1>1, <1>2, <1>8, <2>1, <2>2 DEF PlayerInv, Starting
  <1> QED
    BY <1>4, <1>5, <1>6, <1>7, <1>8

LEMMA DeletePullStep ==
  ASSUME PlayerInv, NEW t \in {"app", "player"}, DeletePull(t)
  PROVE  PlayerInv'
PROOF
  <1>1. PICK to \in {"delete_decoder", "disconnect"} :
          /\ Go(t, "delete_pull", to)
          /\ to = "delete_decoder" => rtmp_pull_ = "none" /\ UNCHANGED <<rtmp_pull_, status>>
          /\ to = "disconnect" => /\ rtmp_pull_ # "none" /\ rtmp_pull_' = "closing"
                                  /\ status' = "closed"
    BY DEF DeletePull
  <1>2. /\ UNCHANGED <<lock, calls, queue, decoder, rtmp_, retry_ct_, failed>>
        /\ UNCHANGED <<started, track, starts, ticks, msgq, quit, heard>>
    BY DEF DeletePull, told, calls, queue
  <1>3. /\ pc' \in Places /\ pc[t] = "delete_pull" /\ pc'[t] = to
        /\ pc'["pull"] = pc["pull"] /\ pc'["audio"] = pc["audio"]
        /\ \A s \in {"app", "player"} \ {t} : pc'[s] = pc[s] /\ pc[s] \notin Deleting
        /\ t = "app" => pc["player"] = "idle" /\ Quiet
        /\ t = "player" => pc["app"] \notin {"gone"} \cup Deleting
    BY <1>1, GoDeleter DEF Deleting
  <1>4. Types'
    BY <1>1, <1>2, <1>3 DEF PlayerInv, Types
  <1>5. Locks' /\ Retries'
    BY <1>2, <1>3 DEF PlayerInv, Locks, Retries
  <1>6. Pulls'
    BY <1>1, <1>2, <1>3 DEF PlayerInv, Pulls, Deleting
  <1>7. Nothing' = Nothing
    BY <1>1, <1>2 DEF Nothing
  <1>8. Sounds' /\ Ended'
    <2>1. StopPending' = StopPending /\ Pending' = Pending
      BY <1>2, SamePending DEF StopPending
    <2> QED
      BY <1>1, <1>2, <1>3, <1>7, <2>1 DEF PlayerInv, Sounds, Ended, Deleting
  <1> QED
    BY <1>1, <1>2, <1>3, <1>4, <1>5, <1>6, <1>7, <1>8, DeleteAlone DEF PlayerInv, Deleting

LEMMA DisconnectStep ==
  ASSUME PlayerInv, NEW t \in {"app", "player"}, Disconnect(t)
  PROVE  PlayerInv'
PROOF
  <1>1. /\ Go(t, "disconnect", "join_pull")
        /\ rtmp_' \in {"none", "cut"} /\ (rtmp_' = "none" <=> rtmp_ = "none")
    BY DEF Disconnect, PlayerInv, Types
  <1>2. /\ UNCHANGED <<lock, calls, queue, decoder, rtmp_pull_, status, retry_ct_, failed>>
        /\ UNCHANGED <<started, track, starts, ticks, msgq, quit, heard>>
    BY DEF Disconnect, told, calls, queue
  <1>3. /\ pc' \in Places /\ pc[t] = "disconnect" /\ pc'[t] = "join_pull"
        /\ pc'["pull"] = pc["pull"] /\ pc'["audio"] = pc["audio"]
        /\ \A s \in {"app", "player"} \ {t} : pc'[s] = pc[s] /\ pc[s] \notin Deleting
        /\ t = "app" => pc["player"] = "idle" /\ Quiet
        /\ t = "player" => pc["app"] \notin {"gone"} \cup Deleting
    BY <1>1, GoDeleter DEF Deleting
  <1>4. Types'
    BY <1>1, <1>2, <1>3 DEF PlayerInv, Types
  <1>5. Locks' /\ Retries'
    BY <1>1, <1>2, <1>3 DEF PlayerInv, Locks, Retries
  <1>6. Pulls'
    BY <1>1, <1>2, <1>3 DEF PlayerInv, Pulls, Deleting
  <1>7. Nothing' = Nothing
    BY <1>2 DEF Nothing
  <1>8. Sounds' /\ Ended'
    <2>1. StopPending' = StopPending /\ Pending' = Pending
      BY <1>2, SamePending DEF StopPending
    <2> QED
      BY <1>1, <1>2, <1>3, <1>7, <2>1 DEF PlayerInv, Sounds, Ended, Deleting
  <1> QED
    BY <1>2, <1>3, <1>4, <1>5, <1>6, <1>7, <1>8, DeleteAlone DEF PlayerInv, Deleting

LEMMA JoinPullStep ==
  ASSUME PlayerInv, NEW t \in {"app", "player"}, JoinPull(t)
  PROVE  PlayerInv'
PROOF
  <1>1. /\ Go(t, "join_pull", "delete_decoder") /\ pc["pull"] = "exit"
        /\ rtmp_pull_' = "none" /\ rtmp_' = "none"
    BY DEF JoinPull
  <1>2. /\ UNCHANGED <<lock, calls, queue, decoder, status, retry_ct_, failed>>
        /\ UNCHANGED <<started, track, starts, ticks, msgq, quit, heard>>
    BY DEF JoinPull, told, calls, queue
  <1>3. /\ pc' \in Places /\ pc[t] = "join_pull" /\ pc'[t] = "delete_decoder"
        /\ pc'["pull"] = pc["pull"] /\ pc'["audio"] = pc["audio"]
        /\ \A s \in {"app", "player"} \ {t} : pc'[s] = pc[s] /\ pc[s] \notin Deleting
        /\ t = "app" => pc["player"] = "idle" /\ Quiet
        /\ t = "player" => pc["app"] \notin {"gone"} \cup Deleting
    BY <1>1, GoDeleter DEF Deleting
  <1>4. Types'
    BY <1>1, <1>2, <1>3 DEF PlayerInv, Types
  <1>5. Locks' /\ Retries'
    BY <1>1, <1>2, <1>3 DEF PlayerInv, Locks, Retries
  <1>6. Pulls'
    BY <1>1, <1>2, <1>3 DEF PlayerInv, Pulls, Deleting
  <1>7. Nothing => Nothing'
    BY <1>1, <1>2 DEF Nothing
  <1>8. Sounds' /\ Ended'
    <2>1. StopPending' = StopPending /\ Pending' = Pending
      BY <1>2, SamePending DEF StopPending
    <2> QED
      BY <1>1, <1>2, <1>3, <1>7, <2>1 DEF PlayerInv, Sounds, Ended, Deleting
  <1> QED
    BY <1>2, <1>3, <1>4, <1>5, <1>6, <1>7, <1>8, DeleteAlone DEF PlayerInv, Deleting

\* The sound that is in the decoder was asked after a failure, for what is
\* stopped is quiet otherwise.
LEMMA DeleteDecoderStep ==
  ASSUME PlayerInv, NEW t \in {"app", "player"}, DeleteDecoder(t)
  PROVE  PlayerInv'
PROOF
  <1> DEFINE to == IF t = "app" THEN "gone" ELSE "idle"
  <1>1. Go(t, "delete_decoder", to) /\ decoder' = FALSE
    BY DEF DeleteDecoder
  <1>2. /\ UNCHANGED <<lock, calls, queue, rtmp_pull_, rtmp_, status, retry_ct_, failed>>
        /\ UNCHANGED <<started, track, starts, ticks, msgq, quit, heard>>
    BY DEF DeleteDecoder, told, calls, queue, pull
  <1>3. /\ pc' \in Places /\ pc[t] = "delete_decoder" /\ pc'[t] = to
        /\ pc'["pull"] = pc["pull"] /\ pc'["audio"] = pc["audio"]
        /\ \A s \in {"app", "player"} \ {t} : pc'[s] = pc[s] /\ pc[s] \notin Deleting
        /\ t = "app" => pc["player"] = "idle" /\ Quiet
        /\ t = "player" => pc["app"] \notin {"gone"} \cup Deleting
    BY <1>1, GoDeleter DEF Deleting
  <1>4. Types'
    <2>1. decoder' \in BOOLEAN
      BY <1>1
    <2> QED
      BY <1>2, <1>3, <2>1 DEF PlayerInv, Types
  <1>5. Locks' /\ Retries'
    BY <1>1, <1>2, <1>3 DEF PlayerInv, Locks, Retries
  <1>6. rtmp_pull_ = "none" /\ Nothing'
    BY <1>1, <1>2, <1>3 DEF PlayerInv, Pulls, Nothing
  <1>7. Pulls'
    BY <1>1, <1>2, <1>3, <1>6 DEF PlayerInv, Pulls, Deleting
  <1>8. Sounds'
    BY <1>2, <1>3 DEF PlayerInv, Stopping, Sounds, Quiet, Deleting
  <1>9. Ended'
    <2>1. StopPending' = StopPending /\ Pending' = Pending
      BY <1>2, SamePending DEF StopPending
    <2>2. CASE t = "app"
      BY <1>3, <1>6, <2>2 DEF Ended
    <2>3. CASE t = "player"
      <3>1. ~StartPending
        BY <1>3, <2>3 DEF PlayerInv, Starting
      <3>2. Pending = <<>> \/ StopPending
        <4>1. Pending \in Seq({"start", "stop"})
          BY PendingType DEF PlayerInv, Types
        <4>2. Pending # <<>> => 1 \in 1..Len(Pending) /\ Pending[1] \in {"start", "stop"}
          BY <4>1
        <4> QED
          BY <3>1, <4>2 DEF StartPending, StopPending
      <3> QED
        BY <1>3, <1>6, <2>1, <2>3, <3>2 DEF Ended
    <2> QED
      BY <2>2, <2>3
  <1> QED
    BY <1>2, <1>3, <1>4, <1>5, <1>6, <1>7, <1>8, <1>9, DeleteAlone DEF PlayerInv, Deleting

-----------------------------------------------------------------------------
(* The application.                                                        *)

\* A call finds what was stopped handled, and leaves one start.
LEMMA StartStep == ASSUME PlayerInv, StartRtmpPlay PROVE PlayerInv'
PROOF
  <1>1. /\ started' = TRUE /\ ~started /\ starts' = starts + 1 /\ ticks' = ticks + 1
        /\ heard' = "none" /\ msgq' = Post(msgq, "start") /\ Settled
        /\ Go("app", "ready", "start_track")
        /\ UNCHANGED <<lock, track, quit, decoder, failed>>
        /\ UNCHANGED <<rtmp_pull_, status, rtmp_, retry_ct_>>
    BY DEF StartRtmpPlay, pull
  <1>2. /\ pc' \in Places /\ pc["app"] = "ready" /\ pc'["app"] = "start_track"
        /\ pc'["player"] = pc["player"] /\ pc'["pull"] = pc["pull"]
        /\ pc'["audio"] = pc["audio"]
    BY <1>1, GoApp DEF PlayerInv, Types, AppPlaces
  <1>3. Pending = <<>> /\ pc["player"] \in {"idle", "tick"}
    <2>1. pc["player"] \in {"idle", "tick"}
      BY <1>1 DEF Settled
    <2> QED
      BY <1>1, <2>1, SettledPending DEF PlayerInv, Types
  <1>4. ~quit /\ msgq' = Append(msgq, "start")
    BY <1>1, <1>2 DEF PlayerInv, Calls, Post, Deleting
  <1>5. /\ msgq' \in Seq(Messages) /\ Len(msgq') = Len(msgq) + 1 /\ Len(msgq) \in Nat
        /\ Pending' = <<"start">>
    <2>1. Append(<<>>, "start") = <<"start">> /\ "start" \in Messages
      BY DEF Messages
    <2>2. msgq \in Seq(Messages)
      BY DEF PlayerInv, Types
    <2> QED
      BY <1>3, <1>4, <2>1, <2>2, Posted, PendingType
  <1>6. Types'
    <2>1. started' \in BOOLEAN
      BY <1>1
    <2> QED
      BY <1>1, <1>2, <1>5, <2>1 DEF PlayerInv, Types
  <1>7. Ticks'
    BY <1>1, <1>2, <1>3, <1>5 DEF PlayerInv, Types, Ticks
  <1>8. Locks' /\ Calls' /\ Pulls' /\ Retries'
    <2>1. Locks' /\ Retries'
      BY <1>1, <1>2 DEF PlayerInv, Locks, Retries
    <2>2. Calls'
      BY <1>1, <1>2, <1>4 DEF PlayerInv, Calls, Deleting
    <2>3. Pulls'
      BY <1>1, <1>2 DEF PlayerInv, Pulls
    <2> QED
      BY <2>1, <2>2, <2>3
  <1>9. Tracks' /\ Sounds'
    <2>1. ~track
      BY <1>1, <1>2 DEF PlayerInv, Tracks, Quiet
    <2> QED
      BY <1>1, <1>2, <2>1 DEF PlayerInv, Tracks, Sounds
  <1>10. Nothing
    BY <1>1, <1>2, <1>3 DEF PlayerInv, Ended, StopPending, Deleting
  <1>11. Order' /\ Starting' /\ Stopping' /\ Ended'
    <2>1. /\ Len(Pending') = 1 /\ Pending'[1] = "start" /\ ~StopPending'
          /\ \A i \in 1..Len(Pending') : i = 1
      BY <1>5 DEF StopPending
    <2>2. Order'
      BY <2>1 DEF Order
    <2>3. Nothing'
      BY <1>1, <1>10 DEF Nothing
    <2>4. Starting'
      BY <1>2, <1>3, <2>1, <2>3 DEF Starting
    <2>5. Stopping' /\ Ended'
      BY <1>1, <1>2, <1>3, <2>1 DEF Stopping, Ended, Deleting
    <2> QED
      BY <2>2, <2>4, <2>5
  <1> QED
    BY <1>6, <1>7, <1>8, <1>9, <1>11 DEF PlayerInv

\* A step of the application that leaves the queue, the pull and the decoder.
LEMMA AppAlone ==
  ASSUME PlayerInv, NEW from \in AppPlaces \ Deleting, NEW to \in AppPlaces,
         Go("app", from, to),
         UNCHANGED <<lock, starts, ticks, msgq, decoder, pull, told>>,
         started' \in BOOLEAN, track' \in BOOLEAN, quit' \in BOOLEAN,
         Calls', Tracks', Quiet => Quiet',
         ~started' /\ to \in {"ready", "stop_again", "quit", "join"} =>
            ~started /\ from \in {"ready", "stop_again", "quit", "join"},
         to \notin {"gone", "disconnect", "join_pull", "delete_decoder"}
  PROVE  PlayerInv'
PROOF
  <1>1. /\ pc' \in Places /\ pc["app"] = from /\ pc'["app"] = to
        /\ pc'["player"] = pc["player"] /\ pc'["pull"] = pc["pull"]
        /\ pc'["audio"] = pc["audio"]
    BY GoApp DEF PlayerInv, Types
  <1>2. /\ Pending' = Pending
        /\ UNCHANGED <<rtmp_pull_, rtmp_, status, retry_ct_, heard, failed>>
    BY SamePending DEF pull, told
  <1>3. StopPending' = StopPending /\ StartPending' = StartPending /\ Nothing' = Nothing
    BY <1>2 DEF StopPending, StartPending, Nothing
  <1>4. Types'
    BY <1>1, <1>2 DEF PlayerInv, Types
  <1>5. Ticks' /\ Order'
    BY <1>1, <1>2 DEF PlayerInv, Ticks, Order
  <1>6. Locks' /\ Retries'
    BY <1>1, <1>2 DEF PlayerInv, Locks, Retries
  <1>7. Pulls'
    BY <1>1, <1>2 DEF PlayerInv, Pulls, Deleting
  <1>8. Starting' /\ Stopping' /\ Sounds'
    BY <1>1, <1>2, <1>3 DEF PlayerInv, Starting, Stopping, Sounds
  <1>9. Ended'
    BY <1>1, <1>2, <1>3 DEF PlayerInv, Ended
  <1> QED
    BY <1>4, <1>5, <1>6, <1>7, <1>8, <1>9 DEF PlayerInv

\* The track is started for a playback, which is on.
LEMMA StartTrackStep == ASSUME PlayerInv, StartAudioTrack PROVE PlayerInv'
PROOF
  <1>1. /\ Go("app", "start_track", "ready") /\ track' = TRUE /\ track' \in BOOLEAN
        /\ UNCHANGED <<started, quit, lock, starts, ticks, msgq, decoder, pull, told>>
    BY DEF StartAudioTrack, queue
  <1>2. /\ pc["app"] = "start_track" /\ pc'["app"] = "ready" /\ pc'["player"] = pc["player"]
    BY <1>1, GoApp DEF PlayerInv, Types, AppPlaces
  <1>3. started
    BY <1>2 DEF PlayerInv, Calls
  <1>4. Calls' /\ Tracks' /\ (Quiet => Quiet')
    BY <1>1, <1>2, <1>3 DEF PlayerInv, Calls, Tracks, Quiet, Deleting
  <1>5. started' \in BOOLEAN /\ quit' \in BOOLEAN
    BY <1>1 DEF PlayerInv, Types
  <1> QED
    BY <1>1, <1>3, <1>4, <1>5, AppAlone DEF AppPlaces, Deleting

\* The callback has returned when its track is stopped.
LEMMA StopTrackStep ==
  ASSUME PlayerInv, NEW from, NEW to,
         <<from, to>> \in {<<"stop_track", "stop_play">>, <<"last_track", "last_play">>},
         StopAudioTrack(from, to)
  PROVE  PlayerInv'
PROOF
  <1>1. /\ Go("app", from, to) /\ track' = FALSE /\ track' \in BOOLEAN /\ Free("track")
        /\ UNCHANGED <<started, quit, lock, starts, ticks, msgq, decoder, pull, told>>
    BY DEF StopAudioTrack, queue
  <1>2. from \in {"stop_track", "last_track"} /\ to \in {"stop_play", "last_play"}
    OBVIOUS
  <1>3. /\ pc["app"] = from /\ pc'["app"] = to /\ pc'["player"] = pc["player"]
        /\ pc'["audio"] = pc["audio"]
    BY <1>1, <1>2, GoApp DEF PlayerInv, Types, AppPlaces
  <1>4. pc["audio"] = "idle"
    BY <1>1 DEF PlayerInv, Locks, Free
  <1>5. ~started
    BY <1>2, <1>3 DEF PlayerInv, Calls
  <1>6. Quiet'
    BY <1>1, <1>3, <1>4, <1>5 DEF Quiet
  <1>7. Calls' /\ Tracks'
    <2>1. Calls'
      BY <1>1, <1>2, <1>3, <1>5 DEF PlayerInv, Calls, Deleting
    <2> QED
      BY <1>2, <1>3, <1>6, <2>1 DEF Tracks
  <1>8. started' \in BOOLEAN /\ quit' \in BOOLEAN
    BY <1>1 DEF PlayerInv, Types
  <1> QED
    BY <1>1, <1>2, <1>6, <1>7, <1>8, AppAlone DEF AppPlaces, Deleting

LEMMA StopCallStep == ASSUME PlayerInv, StopRtmpPlay \/ Clear PROVE PlayerInv'
PROOF
  <1>1. PICK to \in {"stop_track", "last_track", "stop_again"} :
          Go("app", "ready", to) /\ (started <=> to # "stop_again")
    BY DEF StopRtmpPlay, Clear
  <1>2. /\ started' = FALSE /\ started' \in BOOLEAN
        /\ UNCHANGED <<track, quit, lock, starts, ticks, msgq, decoder, pull, told>>
    BY DEF StopRtmpPlay, Clear, queue
  <1>3. /\ pc["app"] = "ready" /\ pc'["app"] = to /\ pc'["player"] = pc["player"]
        /\ pc'["audio"] = pc["audio"]
    BY <1>1, GoApp DEF PlayerInv, Types, AppPlaces
  <1>4. Quiet => Quiet'
    BY <1>2, <1>3 DEF Quiet
  <1>5. Calls'
    BY <1>2, <1>3 DEF PlayerInv, Calls, Deleting
  <1>6. Tracks'
    BY <1>1, <1>2, <1>3, <1>4 DEF PlayerInv, Tracks
  <1>7. track' \in BOOLEAN /\ quit' \in BOOLEAN
    BY <1>2 DEF PlayerInv, Types
  <1> QED
    BY <1>1, <1>2, <1>4, <1>5, <1>6, <1>7, AppAlone DEF AppPlaces, Deleting

LEMMA QuitSteps == ASSUME PlayerInv, Quit \/ JoinPlayer PROVE PlayerInv'
PROOF
  <1>1. /\ UNCHANGED <<started, track, lock, starts, ticks, msgq, decoder, pull, told>>
    BY DEF Quit, JoinPlayer, queue, calls
  <1>2. started' \in BOOLEAN /\ track' \in BOOLEAN
    BY <1>1 DEF PlayerInv, Types
  <1>3. CASE Quit
    <2>1. Go("app", "quit", "join") /\ quit' = TRUE /\ quit' \in BOOLEAN
      BY <1>3 DEF Quit
    <2>2. /\ pc["app"] = "quit" /\ pc'["app"] = "join" /\ pc'["player"] = pc["player"]
          /\ pc'["audio"] = pc["audio"]
      BY <2>1, GoApp DEF PlayerInv, Types, AppPlaces
    <2>3. Calls' /\ Tracks' /\ (Quiet => Quiet')
      BY <1>1, <2>1, <2>2 DEF PlayerInv, Calls, Tracks, Quiet, Deleting
    <2>4. ~started
      BY <2>2 DEF PlayerInv, Calls
    <2> QED
      BY <1>1, <1>2, <2>1, <2>3, <2>4, AppAlone DEF AppPlaces, Deleting
  <1>4. CASE JoinPlayer
    <2>1. Go("app", "join", "delete_pull") /\ pc["player"] = "idle" /\ quit' = quit
      BY <1>4 DEF JoinPlayer, queue
    <2>2. /\ pc["app"] = "join" /\ pc'["app"] = "delete_pull"
          /\ pc'["player"] = pc["player"] /\ pc'["audio"] = pc["audio"]
      BY <2>1, GoApp DEF PlayerInv, Types, AppPlaces, Deleting
    <2>3. Calls' /\ Tracks' /\ (Quiet => Quiet')
      BY <1>1, <2>1, <2>2 DEF PlayerInv, Calls, Tracks, Quiet, Deleting
    <2>4. quit' \in BOOLEAN
      BY <2>1 DEF PlayerInv, Types
    <2> QED
      BY <1>1, <1>2, <2>1, <2>3, <2>4, AppAlone DEF AppPlaces, Deleting
  <1> QED
    BY <1>3, <1>4

\* What is stopped is quiet, and its end is on the way.
LEMMA AppStopStep ==
  ASSUME PlayerInv, NEW from, NEW to,
         <<from, to>> \in {<<"stop_play", "ready">>, <<"last_play", "stop_again">>,
                           <<"stop_again", "quit">>},
         AppStopPlay(from, to)
  PROVE  PlayerInv'
PROOF
  <1>1. /\ Go("app", from, to) /\ StopPlay
        /\ UNCHANGED <<started, track, starts, lock, quit, decoder, failed>>
        /\ UNCHANGED <<rtmp_pull_, status, rtmp_, retry_ct_>>
    BY DEF AppStopPlay, calls, pull
  <1>2. /\ from \in {"stop_play", "last_play", "stop_again"}
        /\ to \in {"ready", "stop_again", "quit"}
    OBVIOUS
  <1>3. /\ pc' \in Places /\ pc["app"] = from /\ pc'["app"] = to
        /\ pc'["player"] = pc["player"] /\ pc'["pull"] = pc["pull"]
        /\ pc'["audio"] = pc["audio"]
    BY <1>1, <1>2, GoApp DEF PlayerInv, Types, AppPlaces
  <1>4. ~quit /\ ~started
    BY <1>2, <1>3 DEF PlayerInv, Calls, Deleting
  <1>5. Quiet /\ Quiet'
    BY <1>1, <1>2, <1>3, <1>4 DEF PlayerInv, Tracks, Quiet
  <1>6. /\ ticks' = 0 /\ heard' = "closed" /\ msgq' \in Seq(Messages)
        /\ Len(msgq') = Len(Pending') /\ Pending' = Append(Pending, "stop")
    BY <1>1, <1>4, Stopped DEF PlayerInv, Types
  <1>7. /\ Pending \in Seq({"start", "stop"}) /\ Len(Pending) <= Len(msgq)
        /\ Len(Pending) \in Nat /\ Len(msgq) \in Nat /\ Len(msgq') \in Nat
    BY <1>6, PendingType DEF PlayerInv, Types
  <1>8. Types'
    BY <1>1, <1>3, <1>6 DEF PlayerInv, Types
  <1>9. Ticks'
    BY <1>1, <1>3, <1>6, <1>7 DEF PlayerInv, Types, Ticks
  <1>10. Locks' /\ Pulls' /\ Retries'
    <2>1. Locks' /\ Retries'
      BY <1>1, <1>3 DEF PlayerInv, Locks, Retries
    <2>2. Pulls'
      BY <1>1, <1>2, <1>3 DEF PlayerInv, Pulls
    <2> QED
      BY <2>1, <2>2
  <1>11. Calls' /\ Tracks' /\ Sounds'
    <2>1. Calls'
      BY <1>1, <1>2, <1>3, <1>4 DEF PlayerInv, Calls, Deleting
    <2> QED
      BY <1>1, <1>2, <1>3, <1>5, <2>1 DEF PlayerInv, Tracks, Sounds
  <1>12. Order'
    BY <1>6, <1>7 DEF PlayerInv, Order
  <1>13. Starting'
    <2>1. StartPending' => StartPending
      BY <1>6, <1>7 DEF StartPending
    <2>2. Nothing' = Nothing
      BY <1>1 DEF Nothing
    <2> QED
      BY <1>3, <1>5, <2>1, <2>2 DEF PlayerInv, Starting
  <1>14. Stopping' /\ Ended'
    <2>1. Len(Pending) + 1 \in 1..Len(Pending') /\ Pending'[Len(Pending) + 1] = "stop"
      BY <1>6, <1>7
    <2>2. StopPending'
      BY <2>1 DEF StopPending
    <2> QED
      BY <1>2, <1>3, <1>5, <2>2 DEF Stopping, Ended
  <1> QED
    BY <1>8, <1>9, <1>10, <1>11, <1>12, <1>13, <1>14 DEF PlayerInv

-----------------------------------------------------------------------------
(* The theorems.                                                           *)

LEMMA InitPlayer == Init => PlayerInv
PROOF
  <1> SUFFICES ASSUME Init PROVE PlayerInv
    OBVIOUS
  <1>1. msgq = <<>> /\ msgq \in Seq(Messages) /\ Len(msgq) = 0
    BY DEF Init
  <1>2. Pending = <<>> /\ Len(Pending) = 0
    <2>1. AllAre(msgq, "tick")
      BY <1>1 DEF AllAre
    <2> QED
      BY <1>1, <2>1, WithoutFacts DEF Pending
  <1>3. Types
    <2>1. /\ started \in BOOLEAN /\ track \in BOOLEAN /\ quit \in BOOLEAN
          /\ decoder \in BOOLEAN /\ failed \in BOOLEAN
      BY DEF Init
    <2>2. pc \in Places
      BY DEF Init, Places, AppPlaces, PlayerPlaces, PullPlaces, AudioPlaces
    <2> QED
      BY <1>1, <2>1, <2>2, PlayerAssumption DEF Init, Types
  <1>4. /\ pc["app"] = "ready" /\ pc["player"] = "idle" /\ pc["pull"] = "exit"
        /\ pc["audio"] = "idle" /\ ~started /\ ~track /\ ~quit /\ Nothing /\ Quiet
    BY DEF Init, Nothing, Quiet
  <1>5. Ticks /\ Order
    BY <1>1, <1>2 DEF Init, Ticks, Order
  <1>6. Locks /\ Calls /\ Pulls /\ Tracks /\ Sounds
    <2>1. Locks /\ Pulls /\ Sounds
      BY <1>4 DEF Init, Locks, Pulls, Sounds
    <2>2. Calls /\ Tracks
      BY <1>4 DEF Calls, Tracks, Deleting
    <2> QED
      BY <2>1, <2>2
  <1>7. Retries
    BY PlayerAssumption DEF Init, Retries
  <1>8. Starting /\ Stopping /\ Ended
    BY <1>2, <1>4 DEF Starting, Stopping, Ended, StartPending, StopPending, Deleting
  <1> QED
    BY <1>3, <1>5, <1>6, <1>7, <1>8 DEF PlayerInv

LEMMA StepKeepsPlayer == PlayerInv /\ [Next]_vars => PlayerInv'
PROOF
  <1> SUFFICES ASSUME PlayerInv, [Next]_vars PROVE PlayerInv'
    OBVIOUS
  <1>1. CASE Call
    BY <1>1, StartStep, StopCallStep DEF Call
  <1>2. CASE AppStep
    <2>1. CASE \/ StopAudioTrack("stop_track", "stop_play")
               \/ StopAudioTrack("last_track", "last_play")
      BY <2>1, StopTrackStep
    <2>2. CASE \/ AppStopPlay("stop_play", "ready")
               \/ AppStopPlay("last_play", "stop_again")
               \/ AppStopPlay("stop_again", "quit")
      BY <2>2, AppStopStep
    <2>3. CASE StartAudioTrack \/ Quit \/ JoinPlayer
      BY <2>3, StartTrackStep, QuitSteps
    <2>4. CASE DeleteSteps("app")
      BY <2>4, DeletePullStep, DisconnectStep, JoinPullStep, DeleteDecoderStep
         DEF DeleteSteps
    <2> QED
      BY <1>2, <2>1, <2>2, <2>3, <2>4 DEF AppStep
  <1>3. CASE PlayerStep
    <2>1. CASE Due \/ OnStart \/ OnStop \/ OnTick \/ TickAgain
      BY <2>1, DueStep, OnStartStep, OnStopStep, TickSteps
    <2>2. CASE DeleteSteps("player")
      BY <2>2, DeletePullStep, DisconnectStep, JoinPullStep, DeleteDecoderStep
         DEF DeleteSteps
    <2> QED
      BY <1>3, <2>1, <2>2 DEF PlayerStep
  <1>4. CASE PullStep \/ ReadData
    BY <1>4, TurnStep, StageDoneStep, StageFailedStep, RetryStep, UnlockStep, ReadSteps
       DEF PullStep
  <1>5. CASE NeedMorePlayData \/ AudioStep
    BY <1>5, NeedStep, PcmStep, ReturnStep DEF AudioStep
  <1>6. CASE UNCHANGED vars
    <2>1. /\ UNCHANGED <<lock, calls, queue, decoder, pull, told, pc>>
          /\ UNCHANGED <<started, track, starts, ticks, msgq, quit, rtmp_pull_, status, rtmp_,
                         retry_ct_, heard, failed>>
      BY <1>6 DEF vars, calls, queue, pull, told
    <2>2. Types' /\ Locks' /\ Pulls' /\ Retries'
      <3>1. Types'
        BY <2>1 DEF PlayerInv, Types
      <3> QED
        BY <2>1, <3>1 DEF PlayerInv, Locks, Pulls, Retries
    <2> QED
      BY <2>1, <2>2, PullAlone DEF PlayerInv
  <1> QED
    BY <1>1, <1>2, <1>3, <1>4, <1>5, <1>6 DEF Next

THEOREM PlayerAlwaysConsistent == Spec => []PlayerInv
PROOF
  BY InitPlayer, StepKeepsPlayer, PTL DEF Spec

\* Every field holds what the code stores there, each start brings at most one
\* tick, and the thread of a pull does not outlive it.
THEOREM TypeCorrect == Spec => []TypeOK
PROOF
  <1>1. PlayerInv => TypeOK
    <2> SUFFICES ASSUME PlayerInv PROVE TypeOK
      OBVIOUS
    <2>1. ticks + Len(msgq) - Len(Pending) <= starts
      <3>1. /\ Len(Pending) \in Nat /\ Len(msgq) \in Nat /\ ticks \in Nat /\ starts \in Nat
        BY PendingType DEF PlayerInv, Types
      <3> QED
        BY <3>1 DEF PlayerInv, Ticks
    <2>2. pc["pull"] = "exit" \/ rtmp_pull_ # "none"
      BY DEF PlayerInv, Pulls
    <2> QED
      BY <2>1, <2>2 DEF PlayerInv, Types, TypeOK, Pending
  <1> QED
    BY <1>1, PlayerAlwaysConsistent, PTL

\* No thread is inside a decoder that is deleted, except the audio device in one
\* whose stream has failed.
THEOREM NeverInDeletedDecoder == Spec => []NoDeletedDecoder
PROOF
  <1>1. PlayerInv => NoDeletedDecoder
    BY DEF PlayerInv, Pulls, Sounds, NoDeletedDecoder
  <1> QED
    BY <1>1, PlayerAlwaysConsistent, PTL

\* What was stopped, and whose stop was handled, has left no connection, no
\* decoder and no sound.
THEOREM AlwaysStoppedClean == Spec => []StoppedClean
PROOF
  <1>1. PlayerInv => StoppedClean
    <2> SUFFICES ASSUME PlayerInv, Settled, ~started, pc["app"] \in {"ready", "gone"}
                 PROVE  Nothing /\ Quiet
      BY DEF StoppedClean, PlayerInv, Pulls, Nothing, Quiet
    <2>1. Pending = <<>> /\ Pending \in Seq({"start", "stop"}) /\ Len(Pending) = 0
      BY SettledPending, PendingType DEF PlayerInv, Types
    <2>2. ~StopPending /\ pc["player"] \notin Deleting
      BY <2>1 DEF StopPending, Settled, Deleting
    <2>3. Nothing
      BY <2>2 DEF PlayerInv, Ended
    <2>4. Quiet
      BY DEF PlayerInv, Tracks
    <2> QED
      BY <2>3, <2>4
  <1> QED
    BY <1>1, PlayerAlwaysConsistent, PTL
=============================================================================
