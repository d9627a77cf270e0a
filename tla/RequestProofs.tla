---------------------------- MODULE RequestProofs ----------------------------
(***************************************************************************)
(* Proofs about the way of a request: routing (module Routing), fan-out    *)
(* (FanOut), an attempt and the formats of its answer (Attempt), and the   *)
(* probes that tell routing what is healthy (Probes).                      *)
(*                                                                         *)
(* The modules are not composed: they share what Profile declares, and     *)
(* each theorem is about the specification of one of them.                 *)
(***************************************************************************)
EXTENDS Routing, FanOut, Attempt, Probes, TLAPS, WellFoundedInduction,
        FiniteSetTheorems, SequenceTheorems, FunctionTheorems

-----------------------------------------------------------------------------
(***************************************************************************)
(* Recursive functions over sequences.                                     *)
(***************************************************************************)
(* Induction over an interval, for a set in place of a predicate.          *)
LEMMA IntervalInduction ==
  ASSUME NEW n \in Nat, NEW Good, 0 \in Good,
         \A k \in 0..(n - 1) : k \in Good => k + 1 \in Good
  PROVE  0..n \subseteq Good
<1> DEFINE Bad == {k \in 0..n : k \notin Good}
<1>1. SUFFICES ASSUME Bad # {} PROVE FALSE
  OBVIOUS
<1>2. Bad \subseteq Nat
  OBVIOUS
<1>3. PICK x \in Bad : \A y \in Bad : ~ (y < x)
  <2> HIDE DEF Bad
  <2>1. \E x \in Bad : \A y \in Bad : ~ (<<y, x>> \in OpToRel(<, Nat))
    BY <1>1, <1>2, WFMin, NatLessThanWellFounded
  <2> QED BY <1>2, <2>1 DEF OpToRel
<1>4. x \in 1..n /\ x - 1 \in 0..(n - 1) /\ x - 1 \notin Bad
  BY <1>3
<1>5. x - 1 \in Good
  BY <1>4
<1>6. (x - 1) + 1 = x
  BY <1>4
<1> QED BY <1>3, <1>4, <1>5, <1>6

(* A function that goes on step by step from b exists.                     *)
IsSteps(f, b, L, G) == f[0] = b /\ \A k \in 1..L : f[k] = G[<<f[k - 1], k>>]

LEMMA Steps ==
  ASSUME NEW B, NEW b \in B, NEW L \in Nat, NEW G \in [B \X (1..L) -> B]
  PROVE  \E f \in [0..L -> B] : IsSteps(f, b, L, G)
<1> DEFINE Good == {n \in 0..L : \E f \in [0..n -> B] :
                      f[0] = b /\ \A k \in 1..n : f[k] = G[<<f[k - 1], k>>]}
<1>2. 0 \in Good
  <2> DEFINE f == [k \in 0..0 |-> b]
  <2>1. f \in [0..0 -> B] /\ f[0] = b /\ 1..0 = {}
    OBVIOUS
  <2> HIDE DEF f
  <2> QED BY <2>1
<1>3. ASSUME NEW n \in 0..(L - 1), n \in Good PROVE n + 1 \in Good
  <2>1. PICK f \in [0..n -> B] : f[0] = b /\ \A k \in 1..n : f[k] = G[<<f[k - 1], k>>]
    BY <1>3
  <2>2. n \in Nat /\ n + 1 \in 1..L /\ n + 1 \in 0..L /\ f[n] \in B
    OBVIOUS
  <2> DEFINE g == [k \in 0..(n + 1) |-> IF k = n + 1 THEN G[<<f[n], n + 1>>] ELSE f[k]]
  <2>3. G[<<f[n], n + 1>>] \in B
    BY <2>2
  <2>4. g \in [0..(n + 1) -> B]
    BY <2>2, <2>3
  <2>5. g[n + 1] = G[<<f[n], n + 1>>] /\ \A k \in 0..n : g[k] = f[k]
    BY <2>2
  <2> HIDE DEF g
  <2>6. g[0] = b
    BY <2>1, <2>2, <2>5
  <2>7. ASSUME NEW k \in 1..(n + 1) PROVE g[k] = G[<<g[k - 1], k>>]
    <3>1. CASE k = n + 1
      <4>1. k - 1 = n /\ n \in 0..n
        BY <2>2, <3>1
      <4>2. g[k - 1] = f[n]
        BY <2>5, <4>1
      <4> QED BY <2>5, <3>1, <4>2
    <3>2. CASE k # n + 1
      <4>1. k \in 1..n /\ k \in 0..n /\ k - 1 \in 0..n
        BY <2>2, <3>2
      <4>2. g[k - 1] = f[k - 1] /\ g[k] = f[k]
        BY <2>5, <4>1
      <4> QED BY <2>1, <4>1, <4>2
    <3> QED BY <3>1, <3>2
  <2> QED BY <2>2, <2>4, <2>6, <2>7
<1>4. 0..L \subseteq Good
  <2> HIDE DEF Good
  <2> QED BY <1>2, <1>3, IntervalInduction
<1>5. L \in Good
  <2> HIDE DEF Good
  <2> QED BY <1>4
<1>6. \E f \in [0..L -> B] : f[0] = b /\ \A k \in 1..L : f[k] = G[<<f[k - 1], k>>]
  BY <1>5, Zenon
<1> QED BY <1>6, Zenon DEF IsSteps

(* The recursive function that takes a list element by element exists.     *)
IsFold(f, s, G) == f[0] = <<>> /\ \A k \in 1..Len(s) : f[k] = G[<<f[k - 1], s[k]>>]

(* A recursive function over a sequence exists and obeys its equations. *)
LEMMA Folded ==
  ASSUME NEW T, NEW s \in Seq(T), NEW G \in [Seq(T) \X T -> Seq(T)]
  PROVE  \E f \in [0..Len(s) -> Seq(T)] : IsFold(f, s, G)
<1> DEFINE L == Len(s)
           B == Seq(T)
           H == [p \in B \X (1..L) |-> G[<<p[1], s[p[2]]>>]]
<1>1. L \in Nat /\ <<>> \in B /\ \A k \in 1..L : s[k] \in T
  OBVIOUS
<1> HIDE DEF L
<1>2. H \in [B \X (1..L) -> B]
  <2>1. ASSUME NEW p \in B \X (1..L) PROVE G[<<p[1], s[p[2]]>>] \in B
    <3>1. p[1] \in B /\ s[p[2]] \in T
      BY <1>1
    <3> QED BY <3>1
  <2> QED BY <2>1
<1>3. \A x \in B, k \in 1..L : H[<<x, k>>] = G[<<x, s[k]>>]
  OBVIOUS
<1> HIDE DEF H, B
<1>4a. PICK f \in [0..L -> B] : IsSteps(f, <<>>, L, H)
  BY <1>1, <1>2, Steps
<1>4. f[0] = <<>> /\ \A k \in 1..L : f[k] = H[<<f[k - 1], k>>]
  BY <1>4a, Zenon DEF IsSteps
<1>5. ASSUME NEW k \in 1..L PROVE f[k] = G[<<f[k - 1], s[k]>>]
  <2>1. k - 1 \in 0..L
    BY <1>1
  <2>2. f[k - 1] \in B
    BY <2>1
  <2> QED BY <1>3, <1>4, <2>2
<1> QED BY <1>4, <1>5, Zenon DEF IsFold, L, B

(* The members of a sequence up to a position.                             *)
UpTo(s, k) == {s[i] : i \in 1..k}

(* The members of a sequence that grows by one. *)
LEMMA OneMore ==
  ASSUME NEW T, NEW s \in Seq(T), NEW x \in T
  PROVE  /\ Append(s, x) \in Seq(T)
         /\ UpTo(Append(s, x), Len(Append(s, x))) = UpTo(s, Len(s)) \cup {x}
<1> DEFINE after == Append(s, x)
<1>1. /\ after \in Seq(T) /\ Len(after) = Len(s) + 1 /\ Len(s) \in Nat
      /\ after[Len(s) + 1] = x
      /\ \A i \in 1..Len(s) : after[i] = s[i]
  OBVIOUS
<1> HIDE DEF after
<1>2. \A y : y \in UpTo(after, Len(after)) <=> y \in UpTo(s, Len(s)) \/ y = x
  BY <1>1 DEF UpTo
<1> QED BY <1>1, <1>2 DEF after

(* Kept returns the members that are in the set, and nothing else.         *)
LEMMA KeptProperties ==
  ASSUME NEW T, NEW s \in Seq(T), NEW S
  PROVE  /\ Kept(s, S) \in Seq(T)
         /\ \A x : x \in UpTo(Kept(s, S), Len(Kept(s, S))) <=> x \in UpTo(s, Len(s)) /\ x \in S
<1> DEFINE L == Len(s)
           Rule(g) == [k \in 0..L |-> IF k = 0 THEN <<>>
                         ELSE IF s[k] \in S THEN Append(g[k - 1], s[k]) ELSE g[k - 1]]
           G == [p \in Seq(T) \X T |-> IF p[2] \in S THEN Append(p[1], p[2]) ELSE p[1]]
           f == CHOOSE g : g = Rule(g)
<1>1. L \in Nat /\ \A k \in 1..L : s[k] \in T
  OBVIOUS
<1>2. G \in [Seq(T) \X T -> Seq(T)]
  <2>1. ASSUME NEW p \in Seq(T) \X T PROVE G[p] \in Seq(T)
    <3>1. p[1] \in Seq(T) /\ p[2] \in T
      OBVIOUS
    <3>2. Append(p[1], p[2]) \in Seq(T)
      BY <3>1, OneMore
    <3> QED BY <3>1, <3>2
  <2> QED BY <2>1
<1>3. Kept(s, S) = f[L]
  BY DEF Kept
<1>4. \A b \in Seq(T), x \in T : G[<<b, x>>] = IF x \in S THEN Append(b, x) ELSE b
  OBVIOUS
<1> HIDE DEF G
<1> HIDE DEF f
<1>5. PICK g \in [0..Len(s) -> Seq(T)] : IsFold(g, s, G)
  BY <1>2, Folded
<1>6. g \in [0..L -> Seq(T)] /\ g[0] = <<>> /\ \A k \in 1..L : g[k] = G[<<g[k - 1], s[k]>>]
  BY <1>5, Zenon DEF IsFold
<1> HIDE DEF L
<1>7. g = Rule(g)
  <2>1. ASSUME NEW k \in 0..L PROVE g[k] = Rule(g)[k]
    <3>1. CASE k = 0
      BY <1>6, <3>1
    <3>2. CASE k # 0
      <4>1. k \in 1..L /\ k - 1 \in 0..L /\ g[k - 1] \in Seq(T) /\ s[k] \in T
        BY <1>1, <1>6, <3>2
      <4>2. g[k] = G[<<g[k - 1], s[k]>>]
        BY <1>6, <4>1
      <4> QED BY <1>4, <3>2, <4>1, <4>2
    <3> QED BY <3>1, <3>2
  <2> QED BY <1>6, <2>1
<1>8. f = Rule(f)
  BY <1>7, Zenon DEF f
<1>9. /\ f[0] = <<>>
      /\ \A k \in 1..L : f[k] = IF s[k] \in S THEN Append(f[k - 1], s[k]) ELSE f[k - 1]
  <2>1. \A k \in 0..L : f[k] = Rule(f)[k]
    BY <1>8
  <2>2. \A k \in 1..L : k \in 0..L /\ k # 0
    BY <1>1
  <2> QED BY <1>1, <2>1, <2>2
<1> DEFINE Right == {k \in 0..L : f[k] \in Seq(T) /\ UpTo(f[k], Len(f[k])) = UpTo(s, k) \cap S}
<1>10. 0 \in Right
  <2>1. UpTo(s, 0) = {} /\ UpTo(<<>>, Len(<<>>)) = {} /\ <<>> \in Seq(T)
    BY DEF UpTo
  <2>2. f[0] = <<>>
    BY <1>9
  <2>3. f[0] \in Seq(T) /\ UpTo(f[0], Len(f[0])) = UpTo(s, 0) \cap S
    BY <2>1, <2>2
  <2> QED BY <1>1, <2>3
<1>11. ASSUME NEW k \in 0..(L - 1), k \in Right PROVE k + 1 \in Right
  <2>1. k + 1 \in 1..L /\ k + 1 \in 0..L /\ (k + 1) - 1 = k /\ s[k + 1] \in T
        /\ f[k] \in Seq(T) /\ UpTo(f[k], Len(f[k])) = UpTo(s, k) \cap S
    BY <1>1, <1>11
  <2>2. UpTo(s, k + 1) = UpTo(s, k) \cup {s[k + 1]}
    BY <2>1 DEF UpTo
  <2>3. f[k + 1] = IF s[k + 1] \in S THEN Append(f[k], s[k + 1]) ELSE f[k]
    BY <1>9, <2>1
  <2> DEFINE more == Append(f[k], s[k + 1])
  <2>4. more \in Seq(T) /\ UpTo(more, Len(more)) = UpTo(f[k], Len(f[k])) \cup {s[k + 1]}
    <3> DEFINE before == f[k]  x == s[k + 1]
    <3>1. before \in Seq(T) /\ x \in T
      BY <2>1
    <3> HIDE DEF before, x
    <3>2. Append(before, x) \in Seq(T) /\ UpTo(Append(before, x), Len(Append(before, x))) = UpTo(before, Len(before)) \cup {x}
      BY <3>1, OneMore, ZenonT(40)
    <3> QED BY <3>2 DEF before, x
  <2> HIDE DEF more
  <2>5. f[k + 1] = IF s[k + 1] \in S THEN more ELSE f[k]
    BY <2>3 DEF more
  <2>6. f[k + 1] \in Seq(T) /\ UpTo(f[k + 1], Len(f[k + 1])) = UpTo(s, k + 1) \cap S
    BY <2>1, <2>2, <2>4, <2>5
  <2> QED BY <2>1, <2>6
<1>12. 0..L \subseteq Right
  <2> HIDE DEF Right
  <2> QED BY <1>1, <1>10, <1>11, IntervalInduction
<1>13. L \in Right
  BY <1>1, <1>12
<1>14. UpTo(s, L) = UpTo(s, Len(s))
  BY DEF L
<1> QED BY <1>3, <1>13, <1>14

(* The first of the kept is one of them; none is kept only if none is there. *)
LEMMA KeptHead ==
  ASSUME NEW T, NEW s \in Seq(T), NEW S
  PROVE  /\ Kept(s, S) # <<>> => Head(Kept(s, S)) \in UpTo(s, Len(s)) /\ Head(Kept(s, S)) \in S
         /\ Kept(s, S) = <<>> => \A x \in S : x \notin UpTo(s, Len(s))
<1> DEFINE K == Kept(s, S)
<1>1. K \in Seq(T) /\ \A x : x \in UpTo(K, Len(K)) <=> x \in UpTo(s, Len(s)) /\ x \in S
  BY KeptProperties
<1> HIDE DEF K
<1>2. K # <<>> => Head(K) = K[1] /\ 1 \in 1..Len(K)
  BY <1>1
<1>3. K = <<>> => UpTo(K, Len(K)) = {}
  BY DEF UpTo
<1>4. K # <<>> => Head(K) \in UpTo(K, Len(K))
  BY <1>2 DEF UpTo
<1>5. /\ K # <<>> => Head(K) \in UpTo(s, Len(s)) /\ Head(K) \in S
      /\ K = <<>> => \A x \in S : x \notin UpTo(s, Len(s))
  BY <1>1, <1>3, <1>4
<1> QED BY <1>5 DEF K

(***************************************************************************)
(* Routing.                                                                *)
(***************************************************************************)
(* The members of a list, as the model and the lemmas on Kept write them.  *)
LEMMA Members ==
  ASSUME NEW T, NEW s \in Seq(T)
  PROVE  ToSet(s) = UpTo(s, Len(s)) /\ ToSet(s) \subseteq T
<1>1. DOMAIN s = 1..Len(s) /\ \A k \in 1..Len(s) : s[k] \in T
  OBVIOUS
<1> QED BY <1>1 DEF ToSet, UpTo

(* Kept, for a typed sequence. *)
LEMMA KeptMembers ==
  ASSUME NEW T, NEW s \in Seq(T), NEW S
  PROVE  Kept(s, S) \in Seq(T) /\ ToSet(Kept(s, S)) = ToSet(s) \cap S
<1> DEFINE K == Kept(s, S)
<1>2. K \in Seq(T) /\ \A x : x \in UpTo(K, Len(K)) <=> x \in UpTo(s, Len(s)) /\ x \in S
  BY KeptProperties
<1> HIDE DEF K
<1>3. ToSet(K) = UpTo(K, Len(K)) /\ ToSet(s) = UpTo(s, Len(s))
  BY <1>2, Members
<1>4. ToSet(K) = ToSet(s) \cap S
  BY <1>2, <1>3
<1> QED BY <1>2, <1>4 DEF K

(* The members of two sequences joined. *)
LEMMA JoinedMembers ==
  ASSUME NEW T, NEW s \in Seq(T), NEW t \in Seq(T)
  PROVE  /\ s \o t \in Seq(T) /\ ToSet(s \o t) = ToSet(s) \cup ToSet(t)
         /\ s # <<>> => s \o t # <<>> /\ (s \o t)[1] = s[1] /\ s[1] \in ToSet(s)
<1> DEFINE u == s \o t
<1>1. /\ u \in Seq(T) /\ Len(u) = Len(s) + Len(t) /\ Len(s) \in Nat /\ Len(t) \in Nat
      /\ \A k \in 1..Len(s) : u[k] = s[k]
      /\ \A k \in 1..Len(t) : u[Len(s) + k] = t[k]
  OBVIOUS
<1>2. ToSet(u) = UpTo(u, Len(u)) /\ ToSet(s) = UpTo(s, Len(s)) /\ ToSet(t) = UpTo(t, Len(t))
  BY <1>1, Members
<1> HIDE DEF u
<1>3. UpTo(u, Len(u)) \subseteq UpTo(s, Len(s)) \cup UpTo(t, Len(t))
  <2> SUFFICES ASSUME NEW k \in 1..Len(u) PROVE u[k] \in UpTo(s, Len(s)) \cup UpTo(t, Len(t))
    BY DEF UpTo
  <2>1. CASE k <= Len(s)
    <3>1. k \in 1..Len(s)
      BY <1>1, <2>1
    <3> QED BY <1>1, <3>1 DEF UpTo
  <2>2. CASE ~ (k <= Len(s))
    <3>1. k - Len(s) \in 1..Len(t) /\ Len(s) + (k - Len(s)) = k
      BY <1>1, <2>2
    <3>2. u[k] = t[k - Len(s)]
      BY <1>1, <3>1
    <3> QED BY <3>1, <3>2 DEF UpTo
  <2> QED BY <2>1, <2>2
<1>4. UpTo(s, Len(s)) \subseteq UpTo(u, Len(u))
  <2>1. \A k \in 1..Len(s) : k \in 1..Len(u) /\ u[k] = s[k]
    BY <1>1
  <2> QED BY <2>1 DEF UpTo
<1>5. UpTo(t, Len(t)) \subseteq UpTo(u, Len(u))
  <2>1. \A k \in 1..Len(t) : Len(s) + k \in 1..Len(u) /\ u[Len(s) + k] = t[k]
    BY <1>1
  <2> QED BY <2>1 DEF UpTo
<1>6. s # <<>> => 1 \in 1..Len(s) /\ Len(u) # 0
  BY <1>1
<1>7. s # <<>> => u # <<>> /\ u[1] = s[1] /\ s[1] \in UpTo(s, Len(s))
  BY <1>1, <1>6 DEF UpTo
<1> QED BY <1>1, <1>2, <1>3, <1>4, <1>5, <1>7 DEF u

(* OneMore, for ToSet. *)
LEMMA OneMoreMember ==
  ASSUME NEW T, NEW s \in Seq(T), NEW x \in T
  PROVE  Append(s, x) \in Seq(T) /\ ToSet(Append(s, x)) = ToSet(s) \cup {x}
<1> DEFINE after == Append(s, x)
<1>1. after \in Seq(T) /\ UpTo(after, Len(after)) = UpTo(s, Len(s)) \cup {x}
  BY OneMore
<1> HIDE DEF after
<1>2. ToSet(after) = UpTo(after, Len(after)) /\ ToSet(s) = UpTo(s, Len(s))
  BY <1>1, Members
<1> QED BY <1>1, <1>2 DEF after

(* Distinct keeps what is in the list.                                     *)
LEMMA RDistinct ==
  ASSUME NEW T, NEW s \in Seq(T)
  PROVE  Distinct(s) \in Seq(T) /\ ToSet(Distinct(s)) = ToSet(s)
<1> DEFINE L == Len(s)
           Rule(g) == [k \in 0..L |-> IF k = 0 THEN <<>>
                         ELSE IF s[k] \in ToSet(g[k - 1]) THEN g[k - 1] ELSE Append(g[k - 1], s[k])]
           G == [p \in Seq(T) \X T |-> IF p[2] \in ToSet(p[1]) THEN p[1] ELSE Append(p[1], p[2])]
           f == CHOOSE g : g = Rule(g)
<1>1. L \in Nat /\ \A k \in 1..L : s[k] \in T
  OBVIOUS
<1>2. G \in [Seq(T) \X T -> Seq(T)]
  <2>1. ASSUME NEW p \in Seq(T) \X T PROVE G[p] \in Seq(T)
    <3>1. p[1] \in Seq(T) /\ p[2] \in T
      OBVIOUS
    <3>2. Append(p[1], p[2]) \in Seq(T)
      BY <3>1, OneMoreMember
    <3> QED BY <3>1, <3>2
  <2> QED BY <2>1
<1>3. Distinct(s) = f[L]
  BY DEF Distinct
<1>4. \A b \in Seq(T), x \in T : G[<<b, x>>] = IF x \in ToSet(b) THEN b ELSE Append(b, x)
  OBVIOUS
<1> HIDE DEF G
<1> HIDE DEF f
<1>5. PICK g \in [0..Len(s) -> Seq(T)] : IsFold(g, s, G)
  BY <1>2, Folded
<1>5a. g \in [0..L -> Seq(T)] /\ g[0] = <<>> /\ \A k \in 1..L : g[k] = G[<<g[k - 1], s[k]>>]
  BY <1>5, Zenon DEF IsFold
<1> HIDE DEF L
<1>6. g = Rule(g)
  <2>1. ASSUME NEW k \in 0..L PROVE g[k] = Rule(g)[k]
    <3>1. CASE k = 0
      BY <1>5a, <3>1
    <3>2. CASE k # 0
      <4>1. k \in 1..L /\ k - 1 \in 0..L /\ g[k - 1] \in Seq(T) /\ s[k] \in T
        BY <1>1, <1>5a, <3>2
      <4>2. g[k] = G[<<g[k - 1], s[k]>>]
        BY <1>5a, <4>1
      <4> QED BY <1>4, <3>2, <4>1, <4>2
    <3> QED BY <3>1, <3>2
  <2> QED BY <2>1
<1>7. f = Rule(f)
  BY <1>6, Zenon DEF f
<1>8. /\ f[0] = <<>>
      /\ \A k \in 1..L : f[k] = IF s[k] \in ToSet(f[k - 1]) THEN f[k - 1] ELSE Append(f[k - 1], s[k])
  <2>1. \A k \in 0..L : f[k] = Rule(f)[k]
    BY <1>7
  <2>2. \A k \in 1..L : k \in 0..L /\ k # 0
    BY <1>1
  <2> QED BY <1>1, <2>1, <2>2
<1> DEFINE Right == {k \in 0..L : f[k] \in Seq(T) /\ ToSet(f[k]) = UpTo(s, k)}
<1>9. 0 \in Right
  <2>1. UpTo(s, 0) = {} /\ ToSet(<<>>) = {} /\ <<>> \in Seq(T)
    BY DEF UpTo, ToSet
  <2>2. f[0] = <<>>
    BY <1>8
  <2>3. f[0] \in Seq(T) /\ ToSet(f[0]) = UpTo(s, 0)
    BY <2>1, <2>2, Zenon
  <2> QED BY <1>1, <2>3
<1>10. ASSUME NEW k \in 0..(L - 1), k \in Right PROVE k + 1 \in Right
  <2>1. k + 1 \in 1..L /\ k + 1 \in 0..L /\ (k + 1) - 1 = k /\ s[k + 1] \in T
        /\ f[k] \in Seq(T) /\ ToSet(f[k]) = UpTo(s, k)
    BY <1>1, <1>10
  <2>2. UpTo(s, k + 1) = UpTo(s, k) \cup {s[k + 1]}
    BY <2>1 DEF UpTo
  <2>3. f[k + 1] = IF s[k + 1] \in ToSet(f[k]) THEN f[k] ELSE Append(f[k], s[k + 1])
    BY <1>8, <2>1
  <2>4. Append(f[k], s[k + 1]) \in Seq(T) /\ ToSet(Append(f[k], s[k + 1])) = ToSet(f[k]) \cup {s[k + 1]}
    BY <2>1, OneMoreMember
  <2>5. f[k + 1] \in Seq(T) /\ ToSet(f[k + 1]) = UpTo(s, k + 1)
    BY <2>1, <2>2, <2>3, <2>4
  <2> QED BY <2>1, <2>5
<1>11. 0..L \subseteq Right
  <2> HIDE DEF Right
  <2> QED BY <1>1, <1>9, <1>10, IntervalInduction
<1>12. L \in Right
  BY <1>1, <1>11
<1>13. ToSet(s) = UpTo(s, L)
  BY Members DEF L
<1> QED BY <1>3, <1>12, <1>13

(* Ranked keeps what is in the list, too.                                  *)
LEMMA RRanked ==
  ASSUME NEW s \in Seq(Models), NEW req
  PROVE  Ranked(s, req) \in Seq(Models) /\ ToSet(Ranked(s, req)) = ToSet(s)
<1> DEFINE L == Len(s)
           preferred == Prioritized(ToSet(s), req)
           Before(m, n) == IF (m \in preferred) = (n \in preferred) THEN Rank[m] > Rank[n] ELSE m \in preferred
           worse(m) == {n \in Models : Before(m, n)}
           With(b, m) == Kept(b, Models \ worse(m)) \o <<m>> \o Kept(b, worse(m))
           Rule(g) == [k \in 0..L |-> IF k = 0 THEN <<>> ELSE With(g[k - 1], s[k])]
           G == [p \in Seq(Models) \X Models |-> With(p[1], p[2])]
           f == CHOOSE g : g = Rule(g)
<1>1. L \in Nat /\ \A k \in 1..L : s[k] \in Models
  OBVIOUS
<1>2. Ranked(s, req) = IF Virtual(req) THEN f[L] ELSE s
  BY DEF Ranked
<1>3. \A m : worse(m) \subseteq Models
  OBVIOUS
<1> HIDE DEF worse
<1>4. ASSUME NEW b \in Seq(Models), NEW m \in Models
      PROVE  With(b, m) \in Seq(Models) /\ ToSet(With(b, m)) = ToSet(b) \cup {m}
  <2> DEFINE ahead == Kept(b, Models \ worse(m))  behind == Kept(b, worse(m))
  <2>1. /\ ahead \in Seq(Models) /\ ToSet(ahead) = ToSet(b) \cap (Models \ worse(m))
        /\ behind \in Seq(Models) /\ ToSet(behind) = ToSet(b) \cap worse(m)
    BY KeptMembers
  <2>2. ToSet(b) \subseteq Models
    BY Members
  <2>3. <<m>> \in Seq(Models) /\ ToSet(<<m>>) = {m}
    BY DEF ToSet
  <2> HIDE DEF ahead, behind
  <2> DEFINE one == <<m>>  front == ahead \o one
  <2>6. With(b, m) = front \o behind
    BY DEF ahead, behind
  <2> HIDE DEF one
  <2>4. front \in Seq(Models) /\ ToSet(front) = ToSet(ahead) \cup {m}
    BY <2>1, <2>3, JoinedMembers DEF one
  <2> HIDE DEF front
  <2>5. front \o behind \in Seq(Models) /\ ToSet(front \o behind) = (ToSet(ahead) \cup {m}) \cup ToSet(behind)
    BY <2>1, <2>4, JoinedMembers
  <2> QED BY <1>3, <2>1, <2>2, <2>5, <2>6
<1> HIDE DEF With
<1>5. G \in [Seq(Models) \X Models -> Seq(Models)]
  <2>1. ASSUME NEW p \in Seq(Models) \X Models PROVE G[p] \in Seq(Models)
    BY <1>4
  <2> QED BY <2>1
<1>6. \A b \in Seq(Models), m \in Models : G[<<b, m>>] = With(b, m)
  OBVIOUS
<1> HIDE DEF G
<1> HIDE DEF f
<1>7. PICK g \in [0..Len(s) -> Seq(Models)] : IsFold(g, s, G)
  BY <1>5, Folded
<1>7a. g \in [0..L -> Seq(Models)] /\ g[0] = <<>> /\ \A k \in 1..L : g[k] = G[<<g[k - 1], s[k]>>]
  BY <1>7, Zenon DEF IsFold
<1> HIDE DEF L
<1>8. g = Rule(g)
  <2>1. ASSUME NEW k \in 0..L PROVE g[k] = Rule(g)[k]
    <3>1. CASE k = 0
      BY <1>7a, <3>1
    <3>2. CASE k # 0
      <4>1. k \in 1..L /\ k - 1 \in 0..L /\ g[k - 1] \in Seq(Models) /\ s[k] \in Models
        BY <1>1, <1>7a, <3>2
      <4>2. g[k] = G[<<g[k - 1], s[k]>>]
        BY <1>7a, <4>1
      <4> QED BY <1>6, <3>2, <4>1, <4>2
    <3> QED BY <3>1, <3>2
  <2> QED BY <1>7a, <2>1
<1>9. f = Rule(f)
  BY <1>8, Zenon DEF f
<1>10. f[0] = <<>> /\ \A k \in 1..L : f[k] = With(f[k - 1], s[k])
  <2>1. \A k \in 0..L : f[k] = Rule(f)[k]
    BY <1>9
  <2>2. \A k \in 1..L : k \in 0..L /\ k # 0
    BY <1>1
  <2> QED BY <1>1, <2>1, <2>2
<1> DEFINE Right == {k \in 0..L : f[k] \in Seq(Models) /\ ToSet(f[k]) = UpTo(s, k)}
<1>11. 0 \in Right
  <2>1. UpTo(s, 0) = {} /\ ToSet(<<>>) = {} /\ <<>> \in Seq(Models)
    BY DEF UpTo, ToSet
  <2>2. f[0] = <<>>
    BY <1>10
  <2>3. f[0] \in Seq(Models) /\ ToSet(f[0]) = UpTo(s, 0)
    BY <2>1, <2>2, Zenon
  <2> QED BY <1>1, <2>3
<1>12. ASSUME NEW k \in 0..(L - 1), k \in Right PROVE k + 1 \in Right
  <2>1. k + 1 \in 1..L /\ k + 1 \in 0..L /\ (k + 1) - 1 = k /\ s[k + 1] \in Models
        /\ f[k] \in Seq(Models) /\ ToSet(f[k]) = UpTo(s, k)
    BY <1>1, <1>12
  <2>2. UpTo(s, k + 1) = UpTo(s, k) \cup {s[k + 1]}
    BY <2>1 DEF UpTo
  <2>3. f[k + 1] = With(f[k], s[k + 1])
    <3>1. f[k + 1] = With(f[(k + 1) - 1], s[k + 1])
      BY <1>10, <2>1
    <3> QED BY <2>1, <3>1
  <2>5. With(f[k], s[k + 1]) \in Seq(Models) /\ ToSet(With(f[k], s[k + 1])) = ToSet(f[k]) \cup {s[k + 1]}
    BY <1>4, <2>1
  <2>4. f[k + 1] \in Seq(Models) /\ ToSet(f[k + 1]) = UpTo(s, k + 1)
    BY <2>1, <2>2, <2>3, <2>5
  <2> QED BY <2>1, <2>4
<1>13. 0..L \subseteq Right
  <2> HIDE DEF Right
  <2> QED BY <1>1, <1>11, <1>12, IntervalInduction
<1>14. L \in Right
  BY <1>1, <1>13
<1>15. ToSet(s) = UpTo(s, L)
  BY Members DEF L
<1> QED BY <1>2, <1>14, <1>15
(***************************************************************************)
(* Choices.                                                                *)
(***************************************************************************)
LEMMA PreferSome ==
  ASSUME NEW S, NEW T, T \subseteq S
  PROVE  Prefer(T, S) \subseteq S /\ (S # {} => Prefer(T, S) # {})
  BY DEF Prefer

(* The preferences only choose among what they are given. *)
LEMMA AbleSome == ASSUME NEW S, NEW wanted PROVE Able(S, wanted) \subseteq S
  BY DEF Able

LEMMA SlotSome == ASSUME NEW S, NEW slot PROVE InSlot(S, slot) \subseteq S
<1> DEFINE Among == {Able(S, wanted) : wanted \in {{"tools"}, {"vision"}, {"free"}, {"long"}, {"fast", "code", "tools", "long"}, {"thinking"}}}
<1>1. \A T \in Among : T \subseteq S
  BY AbleSome
<1>2. InSlot(S, slot) \in Among \cup {S}
  BY DEF InSlot
<1> QED BY <1>1, <1>2

(* Every preference leaves a part of the candidates, and some of them.     *)
LEMMA NarrowedSome ==
  ASSUME NEW S, NEW wanted
  PROVE  Narrowed(S, wanted) \subseteq S /\ (S # {} => Narrowed(S, wanted) # {})
  BY AbleSome, PreferSome DEF Narrowed

LEMMA PrioritizedSome ==
  ASSUME NEW S, NEW req
  PROVE  Prioritized(S, req) \subseteq S /\ (S # {} => Prioritized(S, req) # {})
<1> DEFINE slotted == Prefer(InSlot(S, SlotFor(req.needs)), S)
           strong == Strong(slotted, req)
           coding == Coding(strong, req)
<1>1. Prioritized(S, req) = Free(coding, req)
  BY DEF Prioritized
<1>2. slotted \subseteq S /\ (S # {} => slotted # {})
  BY SlotSome, PreferSome
<1> HIDE DEF slotted
<1>3. strong \subseteq slotted /\ (slotted # {} => strong # {})
  BY NarrowedSome DEF Strong
<1> HIDE DEF strong
<1>4. coding \subseteq strong /\ (strong # {} => coding # {})
  BY NarrowedSome DEF Coding
<1> HIDE DEF coding
<1>5. Free(coding, req) \subseteq coding /\ (coding # {} => Free(coding, req) # {})
  BY NarrowedSome DEF Free
<1> QED BY <1>1, <1>2, <1>3, <1>4, <1>5

(* The fast models: some of the given ones, and not none. *)
LEMMA BackupSome ==
  ASSUME NEW S, NEW req
  PROVE  Backup(S, req) \subseteq S /\ (S # {} => Backup(S, req) # {})
  BY NarrowedSome DEF Backup

(* Of some numbers one is the greatest.                                    *)
LEMMA Greatest ==
  ASSUME NEW n \in Nat, n # 0, NEW v \in [1..n -> Nat]
  PROVE  \E j \in 1..n : \A i \in 1..n : v[i] <= v[j]
<1> DEFINE Led(k) == \E j \in 1..k : \A i \in 1..k : v[i] <= v[j]
           Leads == {k \in 0..n : k = 0 \/ Led(k)}
<1>1. 0 \in Leads
  OBVIOUS
<1>2. ASSUME NEW k \in 0..(n - 1), k \in Leads PROVE k + 1 \in Leads
  <2>1. k + 1 \in 1..n /\ k + 1 \in 0..n /\ k + 1 \in 1..(k + 1) /\ k \in Nat
    OBVIOUS
  <2>2. \A i \in 1..(k + 1) : i \in 1..n /\ v[i] \in Nat /\ (i \in 1..k \/ i = k + 1)
    OBVIOUS
  <2>3. Led(k + 1)
    <3>1. CASE k = 0
      <4>1. \A i \in 1..(k + 1) : i = k + 1
        BY <3>1
      <4>2. v[k + 1] <= v[k + 1]
        BY <2>1, <2>2
      <4> QED BY <2>1, <4>1, <4>2
    <3>2. CASE k # 0
      <4>1. PICK j \in 1..k : \A i \in 1..k : v[i] <= v[j]
        BY <1>2, <3>2
      <4>2. j \in 1..(k + 1) /\ v[j] \in Nat /\ v[k + 1] \in Nat
        BY <2>1, <2>2
      <4>3. CASE v[k + 1] <= v[j]
        <5>1. \A i \in 1..(k + 1) : v[i] <= v[j]
          BY <2>2, <4>1, <4>3
        <5> QED BY <4>2, <5>1
      <4>4. CASE ~(v[k + 1] <= v[j])
        <5>1. ASSUME NEW i \in 1..(k + 1) PROVE v[i] <= v[k + 1]
          <6>1. i \in 1..k => v[i] <= v[j]
            BY <4>1
          <6>2. v[i] \in Nat /\ (i \in 1..k \/ i = k + 1)
            BY <2>2
          <6> QED BY <4>2, <4>4, <6>1, <6>2
        <5> QED BY <2>1, <5>1
      <4> QED BY <4>3, <4>4
    <3> QED BY <3>1, <3>2
  <2> HIDE DEF Led
  <2> QED BY <2>1, <2>3
<1>3. 0..n \subseteq Leads
  <2> HIDE DEF Leads
  <2> QED BY <1>1, <1>2, IntervalInduction
<1>4. Led(n)
  <2> HIDE DEF Led
  <2> QED BY <1>3
<1> QED BY <1>4

(* Of some models one has the greatest rank.                               *)
LEMMA BestExists ==
  ASSUME RoutingAssumption, NEW S \in SUBSET Models, S # {}
  PROVE  \E m \in S : \A n \in S : Rank[n] <= Rank[m]
<1>1. IsFiniteSet(Models) /\ Rank \in [Models -> Nat]
  BY DEF RoutingAssumption
<1>2. IsFiniteSet(S)
  BY <1>1, FS_Subset
<1>3. PICK n \in Nat : ExistsSurjection(1..n, S)
  BY <1>2, FS_NatSurjection
<1>4. PICK h \in [1..n -> S] : \A m \in S : \E k \in 1..n : h[k] = m
  BY <1>3 DEF ExistsSurjection, Surjection
<1> DEFINE v == [k \in 1..n |-> Rank[h[k]]]
<1>5. v \in [1..n -> Nat] /\ \A k \in 1..n : v[k] = Rank[h[k]] /\ h[k] \in S
  BY <1>1, <1>4
<1>6. n # 0
  BY <1>4
<1> HIDE DEF v
<1>7. PICK j \in 1..n : \A i \in 1..n : v[i] <= v[j]
  BY <1>5, <1>6, Greatest
<1>8. ASSUME NEW m \in S PROVE Rank[m] <= Rank[h[j]]
  <2>1. PICK k \in 1..n : h[k] = m
    BY <1>4
  <2> QED BY <1>5, <1>7, <2>1
<1>9. h[j] \in S
  BY <1>5
<1> QED BY <1>8, <1>9

(* The best of some models is one of them: ranks have a greatest. *)
LEMMA BestOfSome ==
  ASSUME RoutingAssumption, NEW S \in SUBSET Models, S # {}
  PROVE  Best(S) \in S
  BY BestExists DEF Best

(* What a request consists of. *)
LEMMA RequestShape ==
  ASSUME NEW req \in Requests
  PROVE  /\ req.kind \in {"name", "explicit", "bare", "none"} /\ req.session \in Sessions
         /\ req.kind \in {"explicit", "bare"} => req.name \in Models
<1>1. PICK n \in Names, t \in Asked, s \in Sessions :
        req = [kind |-> n.kind, name |-> n.name, needs |-> t, session |-> s]
  BY DEF Requests
<1>2. n.kind \in {"name", "explicit", "bare", "none"} /\ (n.kind \in {"explicit", "bare"} => n.name \in Models)
  BY DEF Names
<1> QED BY <1>1, <1>2

(* A provider that is chosen has a model.                                  *)
LEMMA ChosenModel ==
  ASSUME RoutingAssumption, NEW req \in Requests, NEW p \in ToSet(Providers)
  PROVE  Choice(p, req) \in Models
<1>1. req.kind = "bare" => req.name \in Models
  BY RequestShape
<1>2. FirstModel[p] \in Models
  BY DEF RoutingAssumption
<1> QED BY <1>1, <1>2 DEF Choice

(***************************************************************************)
(* States and requests.                                                    *)
(***************************************************************************)
(* A sequence over a set is one over a larger set. *)
LEMMA WiderSeq ==
  ASSUME NEW S, NEW T, S \subseteq T, NEW s \in Seq(S)
  PROVE  s \in Seq(T)
<1>1. Len(s) \in Nat /\ s \in [1..Len(s) -> S]
  OBVIOUS
<1>2. s \in [1..Len(s) -> T]
  BY <1>1
<1> QED BY <1>1, <1>2

(* The healthy fallbacks of a route are providers of its own. *)
LEMMA HealthyProviders ==
  ASSUME RoutingAssumption, NEW i \in DOMAIN Routes
  PROVE  /\ HealthyFallbacks(Routes[i]) \in Seq(ToSet(Providers))
         /\ ToSet(HealthyFallbacks(Routes[i])) \subseteq {p \in ToSet(Providers) : healthy[p]}
<1> DEFINE r == Routes[i]
           T == ToSet(Providers) \cup Models \cup {r.provider}
           primary == IF r.provider \in RouteStrategies \cup {""} THEN <<>> ELSE <<r.provider>>
           all == primary \o r.fallback
           healthyOnes == {p \in ToSet(Providers) : healthy[p]}
           f == Kept(all, healthyOnes)
<1>1. r.fallback \in Seq(T)
  <2>1. r.fallback \in Seq(ToSet(Providers) \cup Models)
    BY DEF RoutingAssumption
  <2> HIDE DEF r
  <2> QED BY <2>1, WiderSeq
<1>2. primary \in Seq(T)
  <2>1. <<>> \in Seq(T)
    OBVIOUS
  <2>2. <<r.provider>> \in Seq(T)
    <3> DEFINE own == r.provider
    <3>1. own \in T
      OBVIOUS
    <3> HIDE DEF own, T
    <3>2. <<own>> \in Seq(T)
      BY <3>1
    <3> QED BY <3>2 DEF own
  <2> HIDE DEF T
  <2> QED BY <2>1, <2>2
<1>3. HealthyFallbacks(r) = f
  BY DEF HealthyFallbacks
<1> HIDE DEF primary, r
<1>4. all \in Seq(T)
  BY <1>1, <1>2
<1> HIDE DEF all, T
<1>5. f \in Seq(T) /\ ToSet(f) = ToSet(all) \cap healthyOnes
  BY <1>4, KeptMembers
<1> HIDE DEF f
<1>6. f \in Seq(ToSet(Providers))
  <2>1. DOMAIN f = 1..Len(f) /\ Len(f) \in Nat /\ f = [k \in 1..Len(f) |-> f[k]]
    BY <1>5
  <2>2. \A k \in 1..Len(f) : f[k] \in ToSet(f)
    BY <2>1 DEF ToSet
  <2>3. \A k \in 1..Len(f) : f[k] \in ToSet(Providers)
    BY <1>5, <2>2
  <2> QED BY <2>1, <2>3
<1> QED BY <1>3, <1>5, <1>6 DEF r

(* A position modulo the length is in the sequence. *)
LEMMA Position ==
  ASSUME NEW T, NEW s \in Seq(T), s # <<>>, NEW n \in Nat
  PROVE  s[(n % Len(s)) + 1] \in ToSet(s) /\ s[1] \in ToSet(s)
<1>1. Len(s) \in Nat /\ Len(s) > 0 /\ DOMAIN s = 1..Len(s)
  OBVIOUS
<1>2. (n % Len(s)) + 1 \in 1..Len(s) /\ 1 \in 1..Len(s)
  BY <1>1
<1> QED BY <1>1, <1>2 DEF ToSet

(***************************************************************************)
(* Lists.                                                                  *)
(***************************************************************************)
UsableFor(req) == {m \in Models : Routable(m) /\ Eligible(m, req)}

(* A set of models in some order is a sequence of them. *)
LEMMA SomeOrder ==
  ASSUME RoutingAssumption, NEW S \in SUBSET Models
  PROVE  SetToSeq(S) \in Seq(Models) /\ ToSet(SetToSeq(S)) \subseteq S
<1>1. IsFiniteSet(Models)
  BY DEF RoutingAssumption
<1>2. IsFiniteSet(S)
  BY <1>1, FS_Subset
<1>3. Cardinality(S) \in Nat /\ ExistsBijection(1..Cardinality(S), S)
  BY <1>2, FS_CardinalityType
<1>4. PICK h \in [1..Cardinality(S) -> S] : IsInjective(h)
  BY <1>3 DEF ExistsBijection, Bijection, Injection
<1>5. SetToSeq(S) = CHOOSE f \in [1..Cardinality(S) -> S] : IsInjective(f)
  BY DEF SetToSeq
<1>6. SetToSeq(S) \in [1..Cardinality(S) -> S]
  BY <1>4, <1>5, Zenon
<1>7. ASSUME NEW n \in Nat, NEW s \in [1..n -> S] PROVE s \in Seq(Models) /\ ToSet(s) \subseteq S
  <2>1. s \in [1..n -> Models]
    OBVIOUS
  <2>2. s \in Seq(Models)
    BY <2>1
  <2>3. \A k \in 1..n : s[k] \in S
    OBVIOUS
  <2>4. ToSet(s) \subseteq S
    BY <2>3 DEF ToSet
  <2> QED BY <2>2, <2>4
<1> QED BY <1>3, <1>6, <1>7

(* The candidates of a list: usable, leaves or local models. *)
LEMMA ListCandidatesAre ==
  ASSUME RoutingAssumption, NEW l \in ListNames, NEW req
  PROVE  /\ ListCandidates(l, req) \in Seq(Models)
         /\ ToSet(ListCandidates(l, req)) \subseteq UsableFor(req)
         /\ ToSet(Leaves[l]) \cap UsableFor(req) \subseteq ToSet(ListCandidates(l, req))
         /\ \A m \in ToSet(ListCandidates(l, req)) :
              m \in ToSet(Leaves[l]) \/ (Lists[l].automatic /\ ProviderOf[m] = Brain)
<1> DEFINE usable == Kept(Leaves[l], UsableFor(req))
           local == {m \in Models \ ToSet(usable) :
                       Lists[l].automatic /\ ProviderOf[m] = Brain /\ Routable(m) /\ Eligible(m, req)}
           rest == SetToSeq(local)
<1>1. ListCandidates(l, req) = usable \o rest
  BY DEF ListCandidates, UsableFor
<1>2. Leaves[l] \in Seq(Models)
  BY DEF RoutingAssumption
<1>3. usable \in Seq(Models) /\ ToSet(usable) = ToSet(Leaves[l]) \cap UsableFor(req)
  BY <1>2, KeptMembers
<1>4. /\ local \in SUBSET Models /\ local \subseteq UsableFor(req)
      /\ \A m \in local : Lists[l].automatic /\ ProviderOf[m] = Brain
  BY DEF UsableFor
<1> HIDE DEF local
<1>5. rest \in Seq(Models) /\ ToSet(rest) \subseteq local
  BY <1>4, SomeOrder
<1> HIDE DEF usable, rest
<1>6. usable \o rest \in Seq(Models) /\ ToSet(usable \o rest) = ToSet(usable) \cup ToSet(rest)
  BY <1>3, <1>5, JoinedMembers
<1> QED BY <1>1, <1>3, <1>4, <1>5, <1>6

(* A list resolves to one of its candidates, if it has any. *)
LEMMA ListResolves ==
  ASSUME RoutingAssumption, RoutingTypeOK, NEW l \in ListNames, NEW req
  PROVE  /\ ListCandidates(l, req) = <<>> => ResolveModelList(l, req) = {NoModel}
         /\ ListCandidates(l, req) # <<>> => ResolveModelList(l, req) \subseteq ToSet(ListCandidates(l, req))
<1> DEFINE c == ListCandidates(l, req)
           S == Prioritized(ToSet(c), req)
<1>1. c \in Seq(Models) /\ ToSet(c) \subseteq Models
  BY ListCandidatesAre DEF UsableFor
<1>2. ResolveModelList(l, req) =
        IF c = <<>> THEN {NoModel}
        ELSE IF Lists[l].automatic THEN BrainChoices(S) \cup {BestScored(S, req)}
        ELSE IF Lists[l].rr THEN {Turn(l, req)} ELSE {Best(ToSet(c))}
  BY DEF ResolveModelList
<1>3. c # <<>> /\ Lists[l].rr /\ ~Lists[l].automatic => Turn(l, req) \in ToSet(c)
  <2> SUFFICES ASSUME c # <<>>, Lists[l].rr, ~Lists[l].automatic PROVE Turn(l, req) \in ToSet(c)
    OBVIOUS
  <2>1. cursor[l] \in Nat
    BY DEF RoutingTypeOK, RRLists
  <2>2. Turn(l, req) = c[(cursor[l] % Len(c)) + 1]
    BY DEF Turn
  <2> HIDE DEF c
  <2>3. c[(cursor[l] % Len(c)) + 1] \in ToSet(c)
    BY <1>1, <2>1, Position
  <2> QED BY <2>2, <2>3
<1> HIDE DEF c
<1>4. c # <<>> => ToSet(c) # {}
  BY <1>1, Position
<1>5. S \subseteq ToSet(c) /\ (c # <<>> => S # {})
  BY <1>4, PrioritizedSome
<1> HIDE DEF S
<1>6. BrainChoices(S) \subseteq S
  BY DEF BrainChoices
<1>7. c # <<>> => BestScored(S, req) \in S
  <2>1. Backup(S, req) \subseteq S /\ (S # {} => Backup(S, req) # {})
    BY BackupSome
  <2>2. Backup(S, req) \in SUBSET Models
    BY <1>1, <1>5, <2>1
  <2> QED BY <1>5, <2>1, <2>2, BestOfSome DEF BestScored
<1>8. c # <<>> => Best(ToSet(c)) \in ToSet(c)
  BY <1>1, <1>4, BestOfSome
<1>9. /\ c = <<>> => ResolveModelList(l, req) = {NoModel}
      /\ c # <<>> => ResolveModelList(l, req) \subseteq ToSet(c)
  BY <1>2, <1>3, <1>5, <1>6, <1>7, <1>8
<1> QED BY <1>9 DEF c

(***************************************************************************)
(* Policy and routes.                                                      *)
(***************************************************************************)
LEMMA PolicyModels ==
  ASSUME RoutingAssumption, NEW req
  PROVE  \A m \in BestPolicyModels(req) : m = NoModel \/ m \in PolicyCandidates(req)
<1> DEFINE S == Prioritized(PolicyCandidates(req), req)
           B == Backup(S, req)
<1>1. S \subseteq PolicyCandidates(req) /\ PolicyCandidates(req) \subseteq Models
  BY PrioritizedSome DEF PolicyCandidates
<1>2. BestPolicyModels(req) = BrainChoices(S) \cup {Best(B)}
  BY DEF BestPolicyModels, BestScored
<1> HIDE DEF S
<1>3. B \subseteq S
  BY BackupSome
<1> HIDE DEF B
<1>4. Best(B) = NoModel \/ Best(B) \in B
  <2>1. CASE B = {}
    BY <2>1 DEF Best
  <2>2. CASE B # {}
    BY <1>1, <1>3, <2>2, BestOfSome
  <2> QED BY <2>1, <2>2
<1>5. BrainChoices(S) \subseteq S
  BY DEF BrainChoices
<1> QED BY <1>1, <1>2, <1>3, <1>4, <1>5

(* The policy without a request, too, selects a configured model or none.  *)
LEMMA AnyPolicyGives ==
  ASSUME RoutingAssumption, NEW req
  PROVE  AnyPolicyModel(req) \in Models \cup {NoModel}
<1> DEFINE nothing == [req EXCEPT !.needs = {}]
           S == Prioritized(PolicyCandidates(nothing), nothing)
           B == Backup(S, nothing)
<1>1. AnyPolicyModel(req) = Best(B)
  BY DEF AnyPolicyModel, BestScored
<1>2. S \subseteq Models
  BY PrioritizedSome DEF PolicyCandidates
<1> HIDE DEF S, nothing
<1>3. B \in SUBSET Models
  BY <1>2, BackupSome
<1> HIDE DEF B
<1>4. CASE B = {}
  BY <1>1, <1>4 DEF Best
<1>5. CASE B # {}
  BY <1>1, <1>3, <1>5, BestOfSome
<1> QED BY <1>4, <1>5

(* What is known of a walk along the route table. *)
Memories == [model : Models \cup {NoModel}, cursors : [TurnPatterns -> Nat],
             table : [StickyKeys -> Models \cup {NoModel}]]

(* The pattern of a route has an entry where its strategy needs one. *)
LEMMA HasEntry ==
  ASSUME NEW i \in DOMAIN Routes, NEW s \in Sessions
  PROVE  /\ Strategy(Routes[i]) = "round-robin" => Routes[i].pattern \in TurnPatterns
         /\ Strategy(Routes[i]) = "sticky" => <<Routes[i].pattern, s>> \in StickyKeys
  BY DEF TurnPatterns, StickyKeys, PatternsOf

(* A sticky route gives nothing or a model.                                *)
LEMMA StickyGives ==
  ASSUME RoutingAssumption, NEW req \in Requests, NEW i \in DOMAIN Routes,
         Strategy(Routes[i]) = "sticky", NEW table \in [StickyKeys -> Models \cup {NoModel}]
  PROVE  StickyModel(i, req, table) \in Models \cup {NoModel}
<1> DEFINE f == HealthyFallbacks(Routes[i])
           old == table[<<Routes[i].pattern, req.session>>]
           at == (Hash[req.session] % Len(f)) + 1
<1>1. f \in Seq(ToSet(Providers)) /\ ToSet(f) \subseteq ToSet(Providers)
  BY HealthyProviders
<1>2. req.session \in Sessions
  BY RequestShape
<1>3. Hash[req.session] \in Nat
  BY <1>2 DEF RoutingAssumption
<1>4. old \in Models \cup {NoModel}
  BY <1>2, HasEntry
<1>5. StickyModel(i, req, table) = IF f = <<>> THEN NoModel
                                   ELSE IF old /= NoModel /\ ProviderOf[old] \in ToSet(f) THEN old
                                   ELSE Choice(f[at], req)
  BY DEF StickyModel
<1> HIDE DEF f, old
<1>6. f # <<>> => f[at] \in ToSet(f)
  BY <1>1, <1>3, Position
<1>7. f # <<>> => Choice(f[at], req) \in Models
  BY <1>1, <1>6, ChosenModel
<1> QED BY <1>4, <1>5, <1>7

(* So does a round-robin route.                                            *)
LEMMA RoundRobinGives ==
  ASSUME RoutingAssumption, NEW req \in Requests, NEW i \in DOMAIN Routes,
         Strategy(Routes[i]) = "round-robin", NEW cursors \in [TurnPatterns -> Nat]
  PROVE  RoundRobinModel(i, req, cursors) \in Models \cup {NoModel}
<1> DEFINE f == HealthyFallbacks(Routes[i])
           c == cursors[Routes[i].pattern]
           at == (c % Len(f)) + 1
<1>1. f \in Seq(ToSet(Providers)) /\ ToSet(f) \subseteq ToSet(Providers)
  BY HealthyProviders
<1>2. c \in Nat
  BY DEF TurnPatterns, PatternsOf
<1>3. RoundRobinModel(i, req, cursors) = IF f = <<>> THEN NoModel ELSE Choice(f[at], req)
  BY DEF RoundRobinModel
<1> HIDE DEF f, c
<1>4. f # <<>> => f[at] \in ToSet(f)
  BY <1>1, <1>2, Position
<1>5. f # <<>> => Choice(f[at], req) \in Models
  BY <1>1, <1>4, ChosenModel
<1> QED BY <1>3, <1>5

(* A route gives a model or none, whatever its strategy. *)
LEMMA RouteGives ==
  ASSUME RoutingAssumption, NEW req \in Requests, NEW i \in DOMAIN Routes, NEW memory \in Memories
  PROVE  RouteModel(i, req, memory) \in Models \cup {NoModel}
<1> DEFINE f == HealthyFallbacks(Routes[i])
           way == Strategy(Routes[i])
           first == IF f = <<>> THEN NoModel ELSE Choice(f[1], req)
           chosen == {Choice(p, req) : p \in ToSet(f)}
           default == IF f = <<>> THEN AnyPolicyModel(req) ELSE HandedOn(f[1], req)
<1>1. f \in Seq(ToSet(Providers)) /\ ToSet(f) \subseteq ToSet(Providers)
  BY HealthyProviders
<1>2. RouteModel(i, req, memory) =
        CASE way = "auto" -> AnyPolicyModel(req)
          [] way = "round-robin" -> RoundRobinModel(i, req, memory.cursors)
          [] way = "fusion" -> Best(chosen)
          [] way = "graph" -> first
          [] way = "sticky" -> StickyModel(i, req, memory.table)
          [] OTHER -> default
  BY DEF RouteModel
<1>3. AnyPolicyModel(req) \in Models \cup {NoModel}
  BY AnyPolicyGives
<1>4. way = "round-robin" => RoundRobinModel(i, req, memory.cursors) \in Models \cup {NoModel}
  BY RoundRobinGives DEF Memories
<1>5. way = "sticky" => StickyModel(i, req, memory.table) \in Models \cup {NoModel}
  BY StickyGives DEF Memories
<1> HIDE DEF f, way
<1>6. Best(chosen) \in Models \cup {NoModel}
  <2>1. chosen \in SUBSET Models
    BY <1>1, ChosenModel
  <2> HIDE DEF chosen
  <2>2. CASE chosen = {}
    BY <2>2 DEF Best
  <2>3. CASE chosen # {}
    BY <2>1, <2>3, BestOfSome
  <2> QED BY <2>2, <2>3
<1>7. first \in Models \cup {NoModel}
  <2>1. f # <<>> => f[1] \in ToSet(Providers)
    BY <1>1
  <2> QED BY <2>1, ChosenModel
<1>8. default \in Models \cup {NoModel}
  <2> DEFINE taken == {m \in Unlisted : ProviderOf[m] = f[1]}
  <2>1. req.kind = "bare" => req.name \in Models
    BY RequestShape
  <2>2. taken # {} => (CHOOSE m \in taken : TRUE) \in Models
    BY DEF RoutingAssumption
  <2>3. HandedOn(f[1], req) = IF req.kind = "bare" /\ ProviderOf[req.name] = f[1] THEN req.name
                              ELSE IF taken = {} THEN NoModel ELSE CHOOSE m \in taken : TRUE
    BY DEF HandedOn
  <2> HIDE DEF taken
  <2>4. HandedOn(f[1], req) \in Models \cup {NoModel}
    BY <2>1, <2>2, <2>3
  <2> QED BY <1>3, <2>4
<1> HIDE DEF first, chosen, default
<1> QED BY <1>2, <1>3, <1>4, <1>5, <1>6, <1>7, <1>8

(* Asking it leaves cursors and entries behind.                            *)
LEMMA AskedRoute ==
  ASSUME RoutingAssumption, NEW req \in Requests, NEW i \in DOMAIN Routes, NEW memory \in Memories
  PROVE  /\ AskRoute(i, req, memory) \in Memories
         /\ AskRoute(i, req, memory).model # NoModel => Routable(AskRoute(i, req, memory).model)
<1> DEFINE m == RouteModel(i, req, memory)
           got == IF m /= NoModel /\ Routable(m) THEN m ELSE NoModel
           cursors == memory.cursors
           table == memory.table
           f == HealthyFallbacks(Routes[i])
<1>1. m \in Models \cup {NoModel}
  BY RouteGives
<1>2. cursors \in [TurnPatterns -> Nat] /\ table \in [StickyKeys -> Models \cup {NoModel}]
  BY DEF Memories
<1>3. AskRoute(i, req, memory) = [model |-> got, cursors |-> NextCursors(i, cursors), table |-> NextTable(i, req, table)]
  BY DEF AskRoute
<1> HIDE DEF m, cursors, table
<1>4. NextCursors(i, cursors) \in [TurnPatterns -> Nat]
  <2>1. f \in Seq(ToSet(Providers))
    BY HealthyProviders
  <2>2. CASE ~ (Strategy(Routes[i]) = "round-robin" /\ f # <<>>)
    BY <1>2, <2>2 DEF NextCursors
  <2>3. CASE Strategy(Routes[i]) = "round-robin" /\ f # <<>>
    <3> DEFINE p == Routes[i].pattern
    <3>1. p \in TurnPatterns
      BY <2>3 DEF TurnPatterns, PatternsOf
    <3>2. NextCursors(i, cursors) = [cursors EXCEPT ![p] = (cursors[p] % Len(f)) + 1]
      BY <2>3 DEF NextCursors
    <3> HIDE DEF p, f
    <3>3. Len(f) \in Nat /\ Len(f) > 0
      BY <2>1, <2>3
    <3>4. (cursors[p] % Len(f)) + 1 \in Nat
      BY <1>2, <3>1, <3>3
    <3> QED BY <1>2, <3>1, <3>2, <3>4
  <2> QED BY <2>2, <2>3
<1>5. NextTable(i, req, table) \in [StickyKeys -> Models \cup {NoModel}]
  <2>1. CASE Strategy(Routes[i]) # "sticky"
    BY <1>2, <2>1 DEF NextTable
  <2>2. CASE Strategy(Routes[i]) = "sticky"
    <3> DEFINE new == StickyModel(i, req, table)
    <3>1. new \in Models \cup {NoModel}
      BY <1>2, <2>2, StickyGives
    <3>2. NextTable(i, req, table) = IF new # NoModel THEN [table EXCEPT ![<<Routes[i].pattern, req.session>>] = new] ELSE table
      BY <2>2 DEF NextTable
    <3> HIDE DEF new
    <3> QED BY <1>2, <3>1, <3>2
  <2> QED BY <2>1, <2>2
<1>6. got \in Models \cup {NoModel} /\ (got # NoModel => Routable(got))
  BY <1>1
<1> HIDE DEF got
<1>7. [model |-> got, cursors |-> NextCursors(i, cursors), table |-> NextTable(i, req, table)] \in Memories
  BY <1>4, <1>5, <1>6 DEF Memories
<1> QED BY <1>3, <1>6, <1>7

(* A walk along the route table, route by route.                           *)
StartOfWalk == [model |-> NoModel, cursors |-> routeCursor, table |-> sticky]
IsWalk(w, req) ==
  /\ w \in [0..Len(Routes) -> Memories] /\ w[0] = StartOfWalk /\ Walk(req) = w[Len(Routes)]
  /\ \A k \in 1..Len(Routes) :
       w[k] = IF k \notin Matching(req) \/ w[k - 1].model /= NoModel THEN w[k - 1] ELSE AskRoute(k, req, w[k - 1])

LEMMA WalkExists ==
  ASSUME RoutingAssumption, RoutingTypeOK, NEW req \in Requests
  PROVE  \E w : IsWalk(w, req)
<1> DEFINE L == Len(Routes)
           On(k, memory) == IF k \notin Matching(req) \/ memory.model /= NoModel THEN memory ELSE AskRoute(k, req, memory)
           G == [p \in Memories \X (1..L) |-> On(p[2], p[1])]
           Rule(g) == [k \in 0..L |-> IF k = 0 THEN StartOfWalk ELSE On(k, g[k - 1])]
           f == CHOOSE g : g = Rule(g)
<1>1. L \in Nat /\ DOMAIN Routes = 1..L
  BY DEF RoutingAssumption
<1>2. StartOfWalk \in Memories
  BY DEF StartOfWalk, Memories, RoutingTypeOK
<1>3. G \in [Memories \X (1..L) -> Memories]
  <2>1. ASSUME NEW p \in Memories \X (1..L) PROVE On(p[2], p[1]) \in Memories
    <3>1. p[1] \in Memories /\ p[2] \in DOMAIN Routes
      BY <1>1
    <3>2. AskRoute(p[2], req, p[1]) \in Memories
      BY <3>1, AskedRoute
    <3> QED BY <3>1, <3>2
  <2> QED BY <2>1
<1>4. \A m \in Memories, k \in 1..L : G[<<m, k>>] = On(k, m)
  OBVIOUS
<1>5. Walk(req) = f[L]
  BY Zenon DEF Walk, StartOfWalk
<1> HIDE DEF L, G, On
<1>6a. PICK g \in [0..L -> Memories] : IsSteps(g, StartOfWalk, L, G)
  BY <1>1, <1>2, <1>3, Steps
<1>6. g[0] = StartOfWalk /\ \A k \in 1..L : g[k] = G[<<g[k - 1], k>>]
  BY <1>6a, Zenon DEF IsSteps
<1>7. \A k \in 1..L : g[k] = On(k, g[k - 1])
  <2> SUFFICES ASSUME NEW k \in 1..L PROVE g[k] = On(k, g[k - 1])
    OBVIOUS
  <2>1. k - 1 \in 0..L
    BY <1>1
  <2>2. g[k - 1] \in Memories
    BY <2>1
  <2> QED BY <1>4, <1>6, <2>2
<1>8. g = Rule(g)
  <2>1. ASSUME NEW k \in 0..L PROVE g[k] = Rule(g)[k]
    <3>1. k # 0 => k \in 1..L
      BY <1>1
    <3> QED BY <1>6, <1>7, <3>1
  <2> QED BY <2>1
<1>9. f = Rule(f)
  BY <1>8, Zenon DEF f
<1> HIDE DEF f
<1>10. f[0] = StartOfWalk /\ \A k \in 1..L : f[k] = On(k, f[k - 1])
  <2>1. \A k \in 0..L : f[k] = Rule(f)[k]
    BY <1>9
  <2>2. \A k \in 1..L : k \in 0..L /\ k # 0
    BY <1>1
  <2> QED BY <1>1, <2>1, <2>2
<1> DEFINE Right == {k \in 0..L : f[k] \in Memories}
<1>11. 0 \in Right
  BY <1>1, <1>2, <1>10
<1>12. ASSUME NEW k \in 0..(L - 1), k \in Right PROVE k + 1 \in Right
  <2>1. k + 1 \in 1..L /\ k + 1 \in 0..L /\ (k + 1) - 1 = k /\ f[k] \in Memories
    BY <1>1, <1>12
  <2>2. f[k + 1] = On(k + 1, f[k])
    <3>1. f[k + 1] = On(k + 1, f[(k + 1) - 1])
      BY <1>10, <2>1
    <3> QED BY <2>1, <3>1
  <2>3. G[<<f[k], k + 1>>] \in Memories
    BY <1>3, <2>1
  <2>4. f[k + 1] \in Memories
    BY <1>4, <2>1, <2>2, <2>3
  <2> QED BY <2>1, <2>4
<1>13. 0..L \subseteq Right
  <2> HIDE DEF Right
  <2> QED BY <1>1, <1>11, <1>12, IntervalInduction
<1>14. f \in [0..L -> Memories]
  <2>1. f = [k \in 0..L |-> f[k]]
    BY <1>9
  <2>2. \A k \in 0..L : f[k] \in Memories
    BY <1>13
  <2> QED BY <2>1, <2>2
<1>15. IsWalk(f, req)
  BY <1>5, <1>10, <1>14 DEF IsWalk, L, On
<1> QED BY <1>15

(***************************************************************************)
(* The selection.                                                          *)
(***************************************************************************)
Listed(req) == req.kind = "name" /\ req.name \in ListNames

(* What the route table gives is routable. *)
LEMMA FromRoutesGives ==
  ASSUME RoutingAssumption, RoutingTypeOK, NEW req \in Requests
  PROVE  /\ Walk(req) \in Memories
         /\ Walk(req).model # NoModel => Walk(req).model \in Models /\ Routable(Walk(req).model)
         /\ Matching(req) = {} => Walk(req).model = NoModel
<1> DEFINE L == Len(Routes)
<1>1. PICK w : IsWalk(w, req)
  BY WalkExists
<1>2. L \in Nat /\ DOMAIN Routes = 1..L
  BY DEF RoutingAssumption
<1>3. /\ w \in [0..L -> Memories] /\ w[0] = StartOfWalk /\ Walk(req) = w[L]
      /\ \A k \in 1..L :
           w[k] = IF k \notin Matching(req) \/ w[k - 1].model /= NoModel THEN w[k - 1] ELSE AskRoute(k, req, w[k - 1])
  BY <1>1 DEF IsWalk
<1> HIDE DEF L
<1> DEFINE Good(m) == (m.model # NoModel => Routable(m.model)) /\ (Matching(req) = {} => m.model = NoModel)
           Right == {k \in 0..L : Good(w[k])}
<1>4. 0 \in Right
  BY <1>2, <1>3 DEF StartOfWalk
<1>5. ASSUME NEW k \in 0..(L - 1), k \in Right PROVE k + 1 \in Right
  <2> DEFINE before == w[k]  after == w[k + 1]
  <2>1. k + 1 \in 1..L /\ k + 1 \in 0..L /\ (k + 1) - 1 = k /\ before \in Memories /\ k \in 0..L
    BY <1>2, <1>3
  <2>2. after = IF k + 1 \notin Matching(req) \/ before.model /= NoModel THEN before ELSE AskRoute(k + 1, req, before)
    <3>1. w[k + 1] = IF k + 1 \notin Matching(req) \/ w[(k + 1) - 1].model /= NoModel THEN w[(k + 1) - 1]
                     ELSE AskRoute(k + 1, req, w[(k + 1) - 1])
      BY <1>3, <2>1
    <3> QED BY <2>1, <3>1
  <2>3. Good(before)
    BY <1>5
  <2> HIDE DEF before, after
  <2>4. CASE after = before
    <3>1. Good(after)
      BY <2>3, <2>4
    <3> QED BY <2>1, <3>1 DEF after
  <2>5. CASE after = AskRoute(k + 1, req, before) /\ k + 1 \in Matching(req)
    <3>1. k + 1 \in DOMAIN Routes
      BY <1>2, <2>1
    <3>2. after.model # NoModel => Routable(after.model)
      BY <2>1, <2>5, <3>1, AskedRoute
    <3>3. Good(after)
      BY <2>5, <3>2
    <3> QED BY <2>1, <3>3 DEF after
  <2> QED BY <2>2, <2>4, <2>5
<1>6. 0..L \subseteq Right
  <2> HIDE DEF Right
  <2> QED BY <1>2, <1>4, <1>5, IntervalInduction
<1>7. Good(Walk(req)) /\ Walk(req) \in Memories
  BY <1>2, <1>3, <1>6
<1>8. Walk(req).model \in Models \cup {NoModel}
  BY <1>7 DEF Memories
<1> QED BY <1>7, <1>8

(* What the name of a request selects is a configured model; a list gives  *)
(* an eligible one, and only a model that the client names is not healthy. *)
LEMMA NameGives ==
  ASSUME RoutingAssumption, RoutingTypeOK, NEW req \in Requests,
         NEW m \in RouteByModelName(req), m # NoModel
  PROVE  /\ m \in Models
         /\ Routable(m) \/ req.kind \in {"explicit", "bare"}
         /\ Listed(req) /\ Matching(req) = {} => Eligible(m, req)
         /\ Listed(req) /\ ListCandidates(req.name, req) # <<>> => m \in ToSet(ListCandidates(req.name, req))
<1> DEFINE listed == IF Listed(req) THEN ResolveModelList(req.name, req) ELSE {NoModel}
           other == IF req.kind = "explicit" THEN Explicit(req.name)
                    ELSE IF req.kind = "bare" /\ ExplicitlyRoutable(req.name) THEN {req.name}
                    ELSE IF req.kind = "none" THEN {NoModel} ELSE {Walk(req).model}
<1>1. RouteByModelName(req) = (listed \ {NoModel}) \cup (IF NoModel \in listed THEN other ELSE {})
  BY DEF RouteByModelName, Listed
<1>2. NoModel \notin Models
  BY DEF RoutingAssumption
<1>3. RoutingTypeOK
  BY DEF RoutingTypeOK
<1>4. CASE m \in listed
  <2>1. Listed(req) /\ m \in ResolveModelList(req.name, req)
    BY <1>4
  <2>2. req.name \in ListNames
    BY <2>1 DEF Listed
  <2>3. m \in ToSet(ListCandidates(req.name, req))
    BY <1>3, <2>1, <2>2, ListResolves
  <2>4. m \in UsableFor(req)
    BY <2>2, <2>3, ListCandidatesAre
  <2> QED BY <2>3, <2>4 DEF UsableFor
<1>5. CASE m \notin listed
  <2>1. m \in other /\ NoModel \in listed
    BY <1>1, <1>5
  <2>2. Listed(req) => ListCandidates(req.name, req) = <<>>
    <3> SUFFICES ASSUME Listed(req), ListCandidates(req.name, req) # <<>> PROVE FALSE
      OBVIOUS
    <3>1. req.name \in ListNames
      BY DEF Listed
    <3>2. NoModel \in ToSet(ListCandidates(req.name, req))
      BY <1>3, <2>1, <3>1, ListResolves
    <3>3. NoModel \in UsableFor(req)
      BY <3>1, <3>2, ListCandidatesAre
    <3> QED BY <1>2, <3>3 DEF UsableFor
  <2>3. Walk(req).model # NoModel => Walk(req).model \in Models /\ Routable(Walk(req).model)
    BY FromRoutesGives
  <2>4. Matching(req) = {} => Walk(req).model = NoModel
    BY FromRoutesGives
  <2>5. req.kind \in {"explicit", "bare"} => req.name \in Models
    BY RequestShape
  <2>6. Explicit(req.name) \subseteq {req.name, NoModel}
    BY DEF Explicit
  <2>7. Listed(req) => req.kind = "name"
    BY DEF Listed
  <2> HIDE DEF listed
  <2> QED BY <2>1, <2>2, <2>3, <2>4, <2>5, <2>6, <2>7
<1> QED BY <1>4, <1>5

(* Whatever selects it, only a model that the client names is not healthy  *)
(* or unverified.                                                          *)
LEMMA SelectionHealthy ==
  ASSUME RoutingAssumption, RoutingTypeOK, NEW req \in Requests,
         NEW m \in RouteOpenAIRequest(req), m \in Models
  PROVE  Healthy(m) \/ req.kind \in {"explicit", "bare"}
<1>1. m # NoModel
  BY DEF RoutingAssumption
<1>2. m \in RouteByModelName(req) \/ m \in BestPolicyModels(req) \/ m \in BestHealthyModel
  BY DEF RouteOpenAIRequest
<1>3. CASE m \in RouteByModelName(req)
  <2>1. Routable(m) \/ req.kind \in {"explicit", "bare"}
    BY <1>1, <1>3, NameGives
  <2> QED BY <2>1 DEF Routable, Healthy
<1>4. CASE m \in BestPolicyModels(req)
  BY <1>1, <1>4, PolicyModels DEF PolicyCandidates
<1>5. CASE m \in BestHealthyModel
  <2> DEFINE S == {n \in Models \ Unlisted : Healthy(n)}
  <2>1. m = Best(S)
    BY <1>1, <1>5 DEF BestHealthyModel
  <2>2. S # {}
    BY <1>1, <2>1 DEF Best
  <2>3. Best(S) \in S
    BY <2>2, BestOfSome
  <2> QED BY <2>1, <2>3
<1> QED BY <1>2, <1>3, <1>4, <1>5

(***************************************************************************)
(* The candidates.                                                         *)
(***************************************************************************)
LEMMA FirstMatch ==
  ASSUME RoutingAssumption, NEW S \in SUBSET DOMAIN Routes, S # {}
  PROVE  \E i \in S : \A j \in S : i <= j
<1>1. S \subseteq Nat
  <2>1. DOMAIN Routes = 1..Len(Routes) /\ Len(Routes) \in Nat
    BY DEF RoutingAssumption
  <2> QED BY <2>1
<1>2. PICK i \in S : \A j \in S : ~ (j < i)
  <2>1. \E i \in S : \A j \in S : ~ (<<j, i>> \in OpToRel(<, Nat))
    BY <1>1, WFMin, NatLessThanWellFounded
  <2> QED BY <1>1, <2>1 DEF OpToRel
<1> QED BY <1>1, <1>2

(* What is offered are models, the selected one among them. *)
LEMMA OfferedAre ==
  ASSUME RoutingAssumption, NEW req \in Requests, NEW selected
  PROVE  /\ Offered(selected, req) \in Seq(Models \cup {NoModel, selected})
         /\ selected \in ToSet(Offered(selected, req))
<1> DEFINE T == Models \cup {NoModel, selected}
           listed == IF req.kind = "name" /\ req.name \in ListNames THEN Leaves[req.name] ELSE <<>>
           first == CHOOSE i \in Matching(req) : \A j \in Matching(req) : i <= j
           named == IF Matching(req) = {} THEN <<>> ELSE Routes[first].fallback
           meant(r) == IF r \in Models THEN r ELSE IF healthy[r] THEN Choice(r, req) ELSE NoModel
           fallbacks == [k \in DOMAIN named |-> meant(named[k])]
           one == <<selected>>
           front == one \o listed
<1>1. Offered(selected, req) = front \o fallbacks
  BY DEF Offered
<1>2. listed \in Seq(T)
  BY DEF RoutingAssumption
<1>3. fallbacks \in Seq(T)
  <2>1. named \in Seq(ToSet(Providers) \cup Models)
    <3>1. CASE Matching(req) = {}
      BY <3>1
    <3>2. CASE Matching(req) # {}
      <4>1. Matching(req) \in SUBSET DOMAIN Routes
        BY DEF Matching
      <4>2. \E i \in Matching(req) : \A j \in Matching(req) : i <= j
        BY <3>2, <4>1, FirstMatch
      <4>3. first \in DOMAIN Routes
        BY <4>1, <4>2
      <4> HIDE DEF first
      <4> QED BY <3>2, <4>3 DEF RoutingAssumption
    <3> QED BY <3>1, <3>2
  <2> HIDE DEF named
  <2>2. DOMAIN named = 1..Len(named) /\ Len(named) \in Nat
        /\ \A k \in 1..Len(named) : named[k] \in ToSet(Providers) \cup Models
    BY <2>1
  <2>3. \A r \in ToSet(Providers) \cup Models : meant(r) \in T
    BY ChosenModel
  <2> HIDE DEF meant, T
  <2>4. fallbacks = [k \in 1..Len(named) |-> meant(named[k])]
    BY <2>2
  <2> QED BY <2>2, <2>3, <2>4
<1>4. one \in Seq(T) /\ ToSet(one) = {selected}
  BY DEF ToSet
<1> HIDE DEF one, listed, fallbacks
<1>5. front \in Seq(T) /\ ToSet(front) = ToSet(one) \cup ToSet(listed)
  BY <1>2, <1>4, JoinedMembers
<1> HIDE DEF front
<1>6. front \o fallbacks \in Seq(T) /\ ToSet(front \o fallbacks) = ToSet(front) \cup ToSet(fallbacks)
  BY <1>3, <1>5, JoinedMembers
<1> QED BY <1>1, <1>4, <1>5, <1>6

(* Every candidate passes the gate, and the selected one is first if it    *)
(* does.                                                                   *)
LEMMA CandidatesAre ==
  ASSUME RoutingAssumption, NEW req \in Requests, NEW selected
  PROVE  /\ \A m \in ToSet(RouteCandidates(selected, req)) : m \in Models /\ Appended(m, selected, req)
         /\ selected \in Models /\ Appended(selected, selected, req)
              => /\ RouteCandidates(selected, req) # <<>>
                 /\ RouteCandidates(selected, req)[1] = selected
                 /\ selected \in ToSet(RouteCandidates(selected, req))
<1> DEFINE offered == Offered(selected, req)
           gate == {m \in Models : Appended(m, selected, req)}
           passed == Kept(offered, gate)
           c == Distinct(passed)
           head == Kept(c, {selected})
           tail == Kept(Ranked(c, req), Models \ {selected})
<1>1. RouteCandidates(selected, req) = head \o tail
  BY DEF RouteCandidates
<1>2. offered \in Seq(Models \cup {NoModel, selected}) /\ selected \in ToSet(offered)
  BY OfferedAre
<1> HIDE DEF offered
<1>3. passed \in Seq(Models \cup {NoModel, selected}) /\ ToSet(passed) = ToSet(offered) \cap gate
  BY <1>2, KeptMembers
<1>4. passed \in Seq(Models)
  <2> HIDE DEF passed
  <2>1. DOMAIN passed = 1..Len(passed) /\ Len(passed) \in Nat /\ passed = [k \in 1..Len(passed) |-> passed[k]]
    BY <1>3
  <2>2. \A k \in 1..Len(passed) : passed[k] \in ToSet(passed)
    BY <2>1 DEF ToSet
  <2>3. \A k \in 1..Len(passed) : passed[k] \in Models
    BY <1>3, <2>2
  <2> QED BY <2>1, <2>3
<1>5. gate \subseteq Models
  OBVIOUS
<1> HIDE DEF passed
<1>6. c \in Seq(Models) /\ ToSet(c) = ToSet(offered) \cap gate
  BY <1>3, <1>4, RDistinct
<1> HIDE DEF c
<1>7. Ranked(c, req) \in Seq(Models) /\ ToSet(Ranked(c, req)) = ToSet(c)
  BY <1>6, RRanked
<1>8. /\ head \in Seq(Models) /\ ToSet(head) = ToSet(c) \cap {selected}
      /\ tail \in Seq(Models) /\ ToSet(tail) = ToSet(c) \cap (Models \ {selected})
  BY <1>6, <1>7, KeptMembers
<1> HIDE DEF head, tail
<1>9. /\ ToSet(head \o tail) = ToSet(head) \cup ToSet(tail)
      /\ head # <<>> => head \o tail # <<>> /\ (head \o tail)[1] = head[1] /\ head[1] \in ToSet(head)
  BY <1>8, JoinedMembers
<1>10. \A m \in ToSet(head \o tail) : m \in gate
  BY <1>6, <1>8, <1>9
<1>11. selected \in gate => selected \in ToSet(head)
  BY <1>2, <1>6, <1>8
<1>12. head = <<>> => ToSet(head) = {}
  BY DEF ToSet
<1>13. selected \in gate => /\ head \o tail # <<>> /\ (head \o tail)[1] = selected
                            /\ selected \in ToSet(head \o tail)
  BY <1>8, <1>9, <1>11, <1>12
<1> QED BY <1>1, <1>10, <1>13
(***************************************************************************)
(* The invariant.                                                          *)
(***************************************************************************)
LEMMA RoutingInvInit ==
  ASSUME RoutingAssumption, RoutingInit
  PROVE  RoutingTypeOK
  BY DEF RoutingAssumption, RoutingInit, RoutingTypeOK, Statuses

(* Every request and every change around them keeps the invariant. *)
LEMMA RoutingInvNext ==
  ASSUME RoutingAssumption, RoutingTypeOK, [RoutingNext]_routingVars
  PROVE  RoutingTypeOK'
<1>1. CASE UNCHANGED routingVars
  BY <1>1 DEF routingVars, envVars, RoutingTypeOK
<1>2. ASSUME NEW req \in Requests, Route(req) PROVE RoutingTypeOK'
  <2>1. UNCHANGED <<healthy, status, brainReady>>
    BY <1>2 DEF Route, envVars
  <2>2. cursor' \in [RRLists -> Nat] /\ given' \in [RRLists -> Models \cup {NoModel}]
    <3> DEFINE c == ListCandidates(req.name, req)
    <3>1. cursor \in [RRLists -> Nat] /\ given \in [RRLists -> Models \cup {NoModel}]
      BY DEF RoutingTypeOK
    <3>2. CASE ~ (Resolves(req) /\ req.name \in RRLists)
      BY <1>2, <3>1, <3>2 DEF Route, AdvanceCursor
    <3>3. CASE Resolves(req) /\ req.name \in RRLists
      <4>1. /\ cursor' = [cursor EXCEPT ![req.name] = (@ % Len(c)) + 1]
            /\ given' = [given EXCEPT ![req.name] = Turn(req.name, req)]
        BY <1>2, <3>3 DEF Route, AdvanceCursor
      <4>2. req.name \in ListNames /\ c # <<>>
        BY <3>3 DEF Resolves
      <4>3. c \in Seq(Models) /\ ToSet(c) \subseteq Models
        BY <4>2, ListCandidatesAre DEF UsableFor
      <4>4. Turn(req.name, req) = c[(cursor[req.name] % Len(c)) + 1]
        BY DEF Turn
      <4> HIDE DEF c
      <4>5. Len(c) \in Nat /\ Len(c) > 0
        BY <4>2, <4>3
      <4>6. cursor[req.name] \in Nat
        BY <3>1, <3>3
      <4>7. (cursor[req.name] % Len(c)) + 1 \in Nat
        BY <4>5, <4>6
      <4>8. c[(cursor[req.name] % Len(c)) + 1] \in ToSet(c)
        BY <4>2, <4>3, <4>6, Position
      <4>9. Turn(req.name, req) \in Models
        BY <4>3, <4>4, <4>8
      <4>10. cursor' \in [RRLists -> Nat]
        BY <3>1, <4>1, <4>7
      <4>11. given' \in [RRLists -> Models \cup {NoModel}]
        BY <3>1, <4>1, <4>9
      <4> QED BY <4>10, <4>11
    <3> QED BY <3>2, <3>3
  <2>3. routeCursor' \in [TurnPatterns -> Nat] /\ sticky' \in [StickyKeys -> Models \cup {NoModel}]
    <3>1. CASE UNCHANGED <<routeCursor, sticky>>
      BY <3>1 DEF RoutingTypeOK
    <3>2. CASE routeCursor' = Walk(req).cursors /\ sticky' = Walk(req).table
      <4>1. Walk(req) \in Memories
        BY FromRoutesGives
      <4> QED BY <3>2, <4>1 DEF Memories
    <3> QED BY <1>2, <3>1, <3>2 DEF Route, Remember
  <2> QED BY <2>1, <2>2, <2>3 DEF RoutingTypeOK
<1>3. ASSUME NEW k \in DOMAIN sticky, Forget(k) PROVE RoutingTypeOK'
  BY <1>3 DEF Forget, envVars, RoutingTypeOK
<1>4. ASSUME NEW p \in ToSet(Providers), ProviderChanges(p) PROVE RoutingTypeOK'
  BY <1>4 DEF ProviderChanges, RoutingTypeOK
<1>5. ASSUME NEW m \in Volatile, ModelChanges(m) PROVE RoutingTypeOK'
  <2>1. status' \in [Models -> Statuses]
    <3>1. PICK s \in Statuses : status' = [status EXCEPT ![m] = s]
      BY <1>5 DEF ModelChanges
    <3>2. status \in [Models -> Statuses]
      BY DEF RoutingTypeOK
    <3> QED BY <3>1, <3>2
  <2>2. UNCHANGED <<healthy, brainReady, cursor, routeCursor, sticky, given>>
    BY <1>5 DEF ModelChanges
  <2> QED BY <2>1, <2>2 DEF RoutingTypeOK
<1>6. CASE BrainStarts
  BY <1>6 DEF BrainStarts, RoutingTypeOK
<1> QED BY <1>1, <1>2, <1>3, <1>4, <1>5, <1>6 DEF RoutingNext

(***************************************************************************)
(* The properties.                                                         *)
(***************************************************************************)
LEMMA GateOfCandidates ==
  ASSUME RoutingAssumption, RoutingTypeOK, NEW req \in Requests, NEW selected \in RouteOpenAIRequest(req),
         NEW m \in ToSet(RouteCandidates(selected, req))
  PROVE  /\ healthy[ProviderOf[m]] /\ status[m] \notin {"cooldown", "unhealthy"} /\ Allowed(m)
         /\ Routable(m) \/ (m = selected /\ (Healthy(m) \/ req.kind \in {"explicit", "bare"}))
<1>1. m \in Models /\ Appended(m, selected, req)
  BY CandidatesAre
<1>2. healthy[ProviderOf[m]] /\ status[m] # "cooldown" /\ (Routable(m) \/ (m = selected /\ ExplicitlyRoutable(m)))
  BY <1>1 DEF Appended
<1>3. ExplicitlyRoutable(m)
  BY <1>2 DEF Routable
<1>4. m = selected => Healthy(m) \/ req.kind \in {"explicit", "bare"}
  BY <1>1, SelectionHealthy
<1> QED BY <1>2, <1>3, <1>4 DEF ExplicitlyRoutable

(* What is called eligible would be a candidate if selected. *)
LEMMA GateOfExplanation ==
  ASSUME RoutingAssumption, RoutingTypeOK, NEW req \in Requests, Virtual(req) => Matching(req) = {},
         NEW e \in ExplainRequest(req), NEW m \in e.eligible, healthy[ProviderOf[m]]
  PROVE  m \in ToSet(RouteCandidates(m, req))
<1>1. CASE req.kind = "none"
  <2> DEFINE S == Prioritized(PolicyCandidates(req), req)
  <2>1. S \subseteq PolicyCandidates(req) /\ Backup(S, req) \subseteq S
    BY PrioritizedSome, BackupSome
  <2>2. e.eligible = S \/ e.eligible = Backup(S, req)
    <3>1. ExplainRequest(req) = {[selected |-> n, eligible |-> S] : n \in BrainChoices(S)}
             \cup {[selected |-> BestScored(S, req), eligible |-> Backup(S, req)]}
      BY <1>1 DEF ExplainRequest
    <3> HIDE DEF S
    <3> QED BY <3>1
  <2>3. m \in PolicyCandidates(req)
    BY <2>1, <2>2
  <2>4. m \in Models /\ Allowed(m) /\ Awake(m) /\ Healthy(m)
    BY <2>3 DEF PolicyCandidates
  <2>5. m # NoModel
    BY <2>4 DEF RoutingAssumption
  <2>6. ~Virtual(req)
    BY <1>1 DEF Virtual
  <2>7. Appended(m, m, req)
    BY <2>4, <2>5, <2>6 DEF Appended, ExplicitlyRoutable, Healthy
  <2> QED BY <2>4, <2>7, CandidatesAre
<1>2. CASE req.kind # "none"
  <2>1. m \in RouteByModelName(req) /\ m # NoModel /\ ExplicitlyRoutable(m)
    <3> DEFINE Passes(n) == IF n # NoModel /\ ExplicitlyRoutable(n) /\ (Virtual(req) => RouteCandidates(n, req) = <<>>)
                            THEN {n} ELSE {}
           known == {IF n \in Unlisted THEN NoModel ELSE n : n \in RouteByModelName(req)}
    <3>1. ExplainRequest(req) = {[selected |-> n, eligible |-> Passes(n)] : n \in known}
      BY <1>2, Zenon DEF ExplainRequest
    <3>2. \A n : m \in Passes(n) => n = m /\ n # NoModel /\ ExplicitlyRoutable(n)
      OBVIOUS
    <3> HIDE DEF Passes
    <3>3. PICK n \in known : e = [selected |-> n, eligible |-> Passes(n)]
      BY <3>1
    <3>4. e.eligible = Passes(n)
      BY <3>3
    <3>5. n = m /\ m # NoModel /\ ExplicitlyRoutable(m)
      BY <3>2, <3>4
    <3>6. n \in RouteByModelName(req)
      BY <3>5
    <3> QED BY <3>5, <3>6
  <2>2. m \in Models /\ (Listed(req) /\ Matching(req) = {} => Eligible(m, req))
    BY <2>1, NameGives
  <2>3. Virtual(req) => Eligible(m, req)
    BY <2>2 DEF Virtual, Listed
  <2>4. Appended(m, m, req)
    BY <2>1, <2>3 DEF Appended, ExplicitlyRoutable
  <2> QED BY <2>2, <2>4, CandidatesAre
<1> QED BY <1>1, <1>2

(* Of what a request leaves behind, every cursor is a number and every     *)
(* remembered model is one of the configuration.                           *)
THEOREM RoutingTypeCorrect == RoutingSpec => []RoutingTypeOK
<1> USE RoutingAssumption
<1> QED BY RoutingInvInit, RoutingInvNext, PTL DEF RoutingSpec

(* docs/routing.md: whatever selects it, every candidate of a request has  *)
(* passed the one gate, and what an explanation calls eligible would.      *)
THEOREM OneGate == RoutingSpec => []GateHolds
<1> USE RoutingAssumption
<1>1. RoutingTypeOK => GateHolds
  BY GateOfCandidates, GateOfExplanation DEF GateHolds
<1> QED BY <1>1, RoutingInvInit, RoutingInvNext, PTL DEF RoutingSpec

(* A list with a servable member is served, first of all. *)
LEMMA ServedOfList ==
  ASSUME RoutingAssumption, RoutingTypeOK, NEW req \in Requests, Listed(req),
         Servable(req.name, req) # {}, NEW selected \in RouteOpenAIRequest(req)
  PROVE  LET c == RouteCandidates(selected, req)
         IN  /\ c # <<>> /\ c[1] = selected
             /\ c[1] \in Servable(req.name, req) \/ (Lists[req.name].automatic /\ ProviderOf[c[1]] = Brain)
<1> DEFINE l == req.name
           c == ListCandidates(l, req)
<1>1. l \in ListNames /\ RoutingTypeOK /\ NoModel \notin Models
  BY DEF Listed, RoutingTypeOK, RoutingAssumption
<1>2. Leaves[l] \in Seq(Models) /\ ToSet(Leaves[l]) \subseteq Models
  <2>1. Leaves[l] \in Seq(Models)
    BY <1>1 DEF RoutingAssumption
  <2> QED BY <2>1, Members
<1>3. \A m : m \in Servable(l, req) <=>
        /\ m \in ToSet(Leaves[l]) /\ healthy[ProviderOf[m]] /\ status[m] \in {"healthy", "excluded"}
        /\ Eligible(m, req) /\ Allowed(m) /\ Awake(m)
  BY DEF Servable, FunctionalMembers
<1>4. Servable(l, req) = ToSet(Leaves[l]) \cap UsableFor(req)
  <2>1. \A m \in ToSet(Leaves[l]) :
          m \in UsableFor(req) <=> /\ healthy[ProviderOf[m]] /\ status[m] = "healthy"
                                   /\ Eligible(m, req) /\ Allowed(m) /\ Awake(m)
    BY <1>2 DEF UsableFor, Routable, ExplicitlyRoutable, Allowed
  <2>2. \A m \in ToSet(Leaves[l]) : Allowed(m) <=> status[m] # "excluded"
    BY DEF Allowed
  <2> QED BY <1>3, <2>1, <2>2
<1>5. /\ c \in Seq(Models) /\ ToSet(c) \subseteq UsableFor(req) /\ Servable(l, req) \subseteq ToSet(c)
      /\ \A m \in ToSet(c) : m \in ToSet(Leaves[l]) \/ (Lists[l].automatic /\ ProviderOf[m] = Brain)
  BY <1>1, <1>4, ListCandidatesAre
<1>6. c # <<>>
  <2>1. ToSet(<<>>) = {}
    BY DEF ToSet
  <2> HIDE DEF c
  <2> QED BY <1>5, <2>1
<1>7. ResolveModelList(l, req) \subseteq ToSet(c)
  BY <1>1, <1>6, ListResolves
<1> HIDE DEF c
<1>8. NoModel \notin ResolveModelList(l, req)
  BY <1>1, <1>5, <1>7 DEF UsableFor
<1>9. RouteByModelName(req) = ResolveModelList(l, req)
  BY <1>8 DEF RouteByModelName, Listed
<1>10. RouteOpenAIRequest(req) = ResolveModelList(l, req)
  BY <1>8, <1>9 DEF RouteOpenAIRequest
<1>11. selected \in ToSet(c) /\ selected \in Models /\ Routable(selected) /\ Eligible(selected, req)
  BY <1>5, <1>7, <1>10 DEF UsableFor
<1>12. Appended(selected, selected, req)
  BY <1>1, <1>11 DEF Appended, Routable, ExplicitlyRoutable
<1>13. RouteCandidates(selected, req) # <<>> /\ RouteCandidates(selected, req)[1] = selected
  BY <1>11, <1>12, CandidatesAre
<1>14. selected \in Servable(l, req) \/ (Lists[l].automatic /\ ProviderOf[selected] = Brain)
  BY <1>4, <1>5, <1>11
<1> QED BY <1>13, <1>14

(* docs/routing.md: a list that is advertised and can serve a request does,*)
(* with one of its members first or, if it is automatic, the local brain.  *)
THEOREM ListsServe == RoutingSpec => []ListServed
<1> USE RoutingAssumption
<1>1. RoutingTypeOK => ListServed
  BY ServedOfList DEF ListServed, Listed
<1> QED BY <1>1, RoutingInvInit, RoutingInvNext, PTL DEF RoutingSpec

(* The first route of the name has the answer, the one of before. *)
LEMMA StaysOnModel ==
  ASSUME RoutingAssumption, RoutingTypeOK, NEW req \in Requests, NEW i \in DOMAIN Routes,
         req.kind = "name", req.name \notin ListNames,
         i \in Matching(req), \A j \in Matching(req) : i <= j,
         Strategy(Routes[i]) = "sticky", NEW old, old = sticky[<<Routes[i].pattern, req.session>>],
         old # NoModel, Routable(old), ProviderOf[old] \in ToSet(HealthyFallbacks(Routes[i]))
  PROVE  RouteOpenAIRequest(req) = {old}
<1> DEFINE L == Len(Routes)
           f == HealthyFallbacks(Routes[i])
<1>1. L \in Nat /\ DOMAIN Routes = 1..L /\ Matching(req) \subseteq 1..L
  BY DEF RoutingAssumption, Matching
<1>2. f # <<>>
  <2>1. ToSet(<<>>) = {}
    BY DEF ToSet
  <2> HIDE DEF f
  <2> QED BY <2>1 DEF f
<1>3. StickyModel(i, req, sticky) = old
  BY <1>2 DEF StickyModel
<1>4. ASSUME NEW memory, memory.table = sticky PROVE AskRoute(i, req, memory).model = old
  <2>1. RouteModel(i, req, memory) = old
    BY <1>3, <1>4 DEF RouteModel
  <2> QED BY <2>1 DEF AskRoute
<1>5. PICK w : IsWalk(w, req)
  BY WalkExists
<1>6. /\ w[0] = StartOfWalk /\ Walk(req) = w[L]
      /\ \A k \in 1..L :
           w[k] = IF k \notin Matching(req) \/ w[k - 1].model /= NoModel THEN w[k - 1] ELSE AskRoute(k, req, w[k - 1])
  BY <1>5 DEF IsWalk
<1> HIDE DEF L
<1> DEFINE Good(k) == IF k < i THEN w[k] = StartOfWalk ELSE w[k].model = old
           Right == {k \in 0..L : Good(k)}
<1>7. 0 \in Right
  BY <1>1, <1>6
<1>8. ASSUME NEW k \in 0..(L - 1), k \in Right PROVE k + 1 \in Right
  <2> DEFINE before == w[k]  after == w[k + 1]
  <2>1. k \in Nat /\ i \in Nat /\ k + 1 \in 1..L /\ k + 1 \in 0..L /\ (k + 1) - 1 = k
    BY <1>1
  <2>2. after = IF k + 1 \notin Matching(req) \/ before.model /= NoModel THEN before ELSE AskRoute(k + 1, req, before)
    <3>1. w[k + 1] = IF k + 1 \notin Matching(req) \/ w[(k + 1) - 1].model /= NoModel THEN w[(k + 1) - 1]
                     ELSE AskRoute(k + 1, req, w[(k + 1) - 1])
      BY <1>6, <2>1
    <3> QED BY <2>1, <3>1
  <2>3. IF k < i THEN before = StartOfWalk ELSE before.model = old
    BY <1>8
  <2> HIDE DEF before, after
  <2>4. CASE k + 1 < i
    <3>1. k + 1 \notin Matching(req) /\ k < i
      BY <1>1, <2>1, <2>4
    <3>2. after = StartOfWalk
      BY <2>2, <2>3, <3>1
    <3> QED BY <2>1, <2>4, <3>2 DEF after
  <2>5. CASE k + 1 = i
    <3>1. before = StartOfWalk /\ k + 1 \in Matching(req)
      BY <2>1, <2>3, <2>5
    <3>2. before.model = NoModel /\ before.table = sticky
      BY <3>1 DEF StartOfWalk
    <3>3. after = AskRoute(i, req, before)
      BY <2>2, <2>5, <3>1, <3>2
    <3>4. after.model = old
      BY <1>4, <3>2, <3>3
    <3> QED BY <2>1, <2>5, <3>4 DEF after
  <2>6. CASE k + 1 > i
    <3>1. before.model = old
      BY <2>1, <2>3, <2>6
    <3>2. after.model = old
      BY <2>2, <3>1
    <3> QED BY <2>1, <2>6, <3>2 DEF after
  <2> QED BY <2>1, <2>4, <2>5, <2>6
<1>9. 0..L \subseteq Right
  <2> HIDE DEF Right
  <2> QED BY <1>1, <1>7, <1>8, IntervalInduction
<1>10. Walk(req).model = old
  <2>1. i \in 1..L /\ L \in 0..L /\ ~ (L < i)
    BY <1>1
  <2>2. L \in Right
    BY <1>9, <2>1
  <2>3. w[L].model = old
    BY <2>1, <2>2
  <2> QED BY <1>6, <2>3
<1>11. RouteByModelName(req) = {old}
  BY <1>10 DEF RouteByModelName
<1>12. RouteOpenAIRequest(req) = {old}
  BY <1>11 DEF RouteOpenAIRequest
<1> QED BY <1>12

(* A session of a sticky route keeps its model while that can serve it.    *)
THEOREM SessionsStay == RoutingSpec => []SessionStays
<1> USE RoutingAssumption
<1>1. RoutingTypeOK => SessionStays
  <2> SUFFICES ASSUME RoutingTypeOK, NEW req \in Requests,
                      req.kind = "name", req.name \notin ListNames, Matching(req) # {}
               PROVE  LET first == Routes[CHOOSE i \in Matching(req) : \A j \in Matching(req) : i <= j]
                          old == sticky[<<first.pattern, req.session>>]
                      IN  ( /\ Strategy(first) = "sticky" /\ old /= NoModel
                            /\ Routable(old) /\ ProviderOf[old] \in ToSet(HealthyFallbacks(first)) )
                          => RouteOpenAIRequest(req) = {old}
    BY DEF SessionStays
  <2> DEFINE i == CHOOSE i \in Matching(req) : \A j \in Matching(req) : i <= j
  <2>1. Matching(req) \in SUBSET DOMAIN Routes
    BY DEF Matching
  <2>2. \E k \in Matching(req) : \A j \in Matching(req) : k <= j
    BY <2>1, FirstMatch
  <2>3. i \in Matching(req) /\ i \in DOMAIN Routes /\ \A j \in Matching(req) : i <= j
    BY <2>1, <2>2
  <2> HIDE DEF i
  <2> QED BY <2>3, StaysOnModel DEF i
<1> QED BY <1>1, RoutingInvInit, RoutingInvNext, PTL DEF RoutingSpec

(***************************************************************************)
(* Fan-out.                                                                *)
(***************************************************************************)
In(m, s) == \E k \in 1..Len(s) : s[k] = m

(* Before the candidates are trimmed nothing has happened.                 *)
Fresh ==
  progress = "routed" =>
    /\ \A m \in Models : worker[m] = "none"
    /\ results = <<>> /\ winner = <<>> /\ stage = 0 /\ cooling = {}

(* While parallel work is collected every usable result is in the channel  *)
(* or a winner is known, only what is tried works, and a race is over when *)
(* all have ended and all was read.                                        *)
Gathering ==
  progress \in {"race", "wait"} =>
    /\ ~Sequential
    /\ \A m \in Models : worker[m] \in Usable => In(m, results) \/ winner # <<>>
    /\ \A m \in Models : worker[m] # "none" => In(m, tried)
    /\ winner # <<>> => worker[Head(winner)] \in Usable
    /\ IF route.firstComplete THEN progress = "race" \/ (AllEnded /\ results = <<>>)
       ELSE progress = "wait" /\ winner = <<>>

(* A sequential graph has one stage at work, after stages that went well.  *)
Staging ==
  progress \in {"stage", "specialist"} =>
    /\ Sequential
    /\ stage < Stages /\ tried # <<>> /\ cooling = {}
    /\ \A m \in Models : worker[m] = "running" => progress = "specialist" /\ m = Specialist

(* What was collected is usable, and it is all there was.                  *)
Gathered ==
  progress \in {"collected", "ended"} =>
    /\ AllEnded
    /\ working # <<>> => worker[Head(working)] \in Usable
    /\ ~Sequential /\ working = <<>> => \A m \in Models : worker[m] \notin Usable

(* The answer is the first of what was collected.                          *)
Answers == {<<Head(working), content>> : content \in Usable \cup {"empty"}}
Answering ==
  /\ progress \notin {"collected", "ended"} => working = <<>> /\ sent = <<>>
  /\ progress = "collected" /\ sent # <<>> => working # <<>> /\ sent \in Answers
  /\ progress = "ended" => IF working = <<>> THEN sent = <<"failed">> ELSE sent \in Answers

(* A cooldown is for an error.                                             *)
Blamed == \A m \in cooling \ {JudgeModel} : worker[m] = "error"

FanOutInv ==
  FanOutTypeOK /\ Fresh /\ Gathering /\ Staging /\ Gathered /\ Answering /\ Blamed

(* What is left of the models of a fan-out. *)
LEMMA InKept ==
  ASSUME NEW s \in Seq(Models), NEW S
  PROVE  /\ Kept(s, S) \in Seq(Models)
         /\ Kept(s, S) # <<>> => Head(Kept(s, S)) \in S
         /\ Kept(s, S) = <<>> => \A m \in S : ~In(m, s)
<1>1. \A m : In(m, s) => m \in UpTo(s, Len(s))
  BY DEF In, UpTo
<1>2. Kept(s, S) \in Seq(Models)
  BY KeptProperties
<1>3. /\ Kept(s, S) # <<>> => Head(Kept(s, S)) \in S
      /\ Kept(s, S) = <<>> => \A m \in S : ~In(m, s)
  BY <1>1, KeptHead
<1> QED BY <1>2, <1>3

(* A task has one to three stages. *)
LEMMA StagesCounted == Stages \in 1..3
<1> DEFINE intent == Intent(request.needs)
<1>1. intent \in {"vision", "code", "reasoning", "chat"}
  BY DEF Intent
<1>2. Graph.stages = CASE intent = "vision"    -> <<"extract", "answer">>
                         [] intent = "code"      -> <<"plan", "implement", "verify">>
                         [] intent = "reasoning" -> <<"analyze", "critique", "synthesize">>
                         [] intent = "chat"      -> <<"answer">>
  BY DEF Graph, TaskGraph
<1> HIDE DEF intent
<1>3. \/ Graph.stages = <<"extract", "answer">>
      \/ Graph.stages = <<"plan", "implement", "verify">>
      \/ Graph.stages = <<"analyze", "critique", "synthesize">>
      \/ Graph.stages = <<"answer">>
  BY <1>1, <1>2
<1> QED BY <1>3 DEF Stages

(* One step of the handler or of a worker each. *)
LEMMA FanOutInitInv ==
  ASSUME FanOutAssumption, FanOutInit
  PROVE  FanOutInv
<1>1. FanOutTypeOK
  BY DEF FanOutAssumption, FanOutInit, FanOutTypeOK
<1>2. Fresh /\ Gathering /\ Staging /\ Gathered /\ Answering /\ Blamed
  BY DEF FanOutInit, Fresh, Gathering, Staging, Gathered, Answering, Blamed
<1> QED BY <1>1, <1>2 DEF FanOutInv

LEMMA BeginStep ==
  ASSUME FanOutAssumption, FanOutInv, Begin
  PROVE  FanOutInv'
<1>1. /\ FanOutTypeOK /\ Fresh /\ Answering
      /\ progress = "routed" /\ tried' = Trimmed
      /\ UNCHANGED <<request, route, results, winner, stage, working, cooling, sent>>
  BY DEF FanOutInv, Begin
<1>2. Trimmed \in Seq(Models)
  <2> DEFINE last == IF Limit < Len(tried) THEN Limit ELSE Len(tried)
             cut == SubSeq(tried, 1, last)
  <2>1. Limit \in Nat
    BY <1>1 DEF FanOutTypeOK, Limit, FanOutAssumption
  <2>2. cut \in Seq(Models)
    BY <1>1, <2>1 DEF FanOutTypeOK
  <2> HIDE DEF cut
  <2>3. Kept(cut, {m \in Models : WithinBudget(m)}) \in Seq(Models)
    BY <2>2, InKept
  <2> QED BY <2>3 DEF Trimmed, cut
<1>3. Sequential' = Sequential
  BY <1>1 DEF Sequential, Graph, Stages
<1>4. worker' \in [Models -> {"none", "running"}]
      /\ \A m \in Models : worker'[m] = "running" => ~Sequential /\ In(m, tried')
  <2>1. DOMAIN Trimmed = 1..Len(Trimmed)
    BY <1>2
  <2>2. CASE Sequential
    BY <1>1, <2>2 DEF Begin, Fresh, FanOutTypeOK
  <2>3. CASE ~Sequential
    <3>1. worker' = [m \in Models |-> IF In(m, tried') THEN "running" ELSE "none"]
      BY <1>1, <2>1, <2>3 DEF Begin, In
    <3> QED BY <2>3, <3>1
  <2> QED BY <2>2, <2>3
<1>5. progress' = IF tried' = <<>> THEN "collected"
               ELSE IF Sequential THEN "stage"
               ELSE IF route.firstComplete THEN "race" ELSE "wait"
  BY <1>1 DEF Begin
<1>6. tried' = <<>> => \A m : ~In(m, tried')
  BY DEF In
<1>7. FanOutTypeOK'
  BY <1>1, <1>2, <1>4, <1>5 DEF FanOutTypeOK
<1>8. Stages' = Stages /\ Stages \in 1..3
  BY <1>1, StagesCounted DEF Stages, Graph
<1>9. Fresh' /\ Answering' /\ Blamed'
  BY <1>1, <1>5 DEF Fresh, Answering, Blamed
<1>10. Gathering'
  BY <1>1, <1>3, <1>4, <1>5 DEF Fresh, Gathering, Usable
<1>11. Staging'
  BY <1>1, <1>3, <1>4, <1>5, <1>8 DEF Fresh, Staging, Answering
<1>12. Gathered'
  BY <1>1, <1>3, <1>4, <1>5, <1>6 DEF Gathered, Answering, AllEnded, Usable
<1> QED BY <1>7, <1>9, <1>10, <1>11, <1>12 DEF FanOutInv

(* The request and the route do not change. *)
LEMMA SequentialStays ==
  ASSUME UNCHANGED <<request, route>>
  PROVE  Sequential' = Sequential /\ Stages' = Stages
  BY DEF Sequential, Stages, Graph

(* A sequence that grows keeps its members. *)
LEMMA Lengthened ==
  ASSUME NEW T, NEW s \in Seq(T), NEW x \in T
  PROVE  Append(s, x) \in Seq(T) /\ In(x, Append(s, x)) /\ \A m : In(m, s) => In(m, Append(s, x))
  BY DEF In

(* A member is the head or in the tail. *)
LEMMA InTail ==
  ASSUME NEW T, NEW s \in Seq(T), s # <<>>
  PROVE  /\ Tail(s) \in Seq(T) /\ Head(s) \in T
         /\ Len(s) = 1 => Tail(s) = <<>>
         /\ \A m : In(m, s) => m = Head(s) \/ In(m, Tail(s))
<1>1. Tail(s) \in Seq(T) /\ Head(s) \in T /\ Head(s) = s[1]
      /\ Len(s) \in Nat /\ Len(s) >= 1 /\ Len(Tail(s)) = Len(s) - 1
      /\ \A k \in 1..(Len(s) - 1) : Tail(s)[k] = s[k + 1]
  OBVIOUS
<1>2. Len(s) = 1 => Tail(s) = <<>>
  <2> DEFINE q == Tail(s)
  <2>1. q \in Seq(T) /\ (Len(s) = 1 => Len(q) = 0)
    BY <1>1
  <2> HIDE DEF q
  <2>2. Len(q) = 0 => q = <<>>
    BY <2>1
  <2>3. Len(s) = 1 => q = <<>>
    BY <2>1, <2>2
  <2> QED BY <2>3 DEF q
<1>3. ASSUME NEW m, In(m, s), m # Head(s) PROVE In(m, Tail(s))
  <2>1. PICK k \in 1..Len(s) : s[k] = m
    BY <1>3 DEF In
  <2>2. k # 1
    BY <1>1, <1>3, <2>1
  <2>3. k - 1 \in 1..(Len(s) - 1) /\ (k - 1) + 1 = k
    BY <1>1, <2>1, <2>2
  <2>4. Tail(s)[k - 1] = m /\ k - 1 \in 1..Len(Tail(s))
    BY <1>1, <2>1, <2>3
  <2> QED BY <2>4 DEF In
<1> QED BY <1>1, <1>2, <1>3

(* An attempt runs only while the handler waits, so no worker can end      *)
(* later.                                                                  *)
LEMMA WorkerStep ==
  ASSUME FanOutAssumption, FanOutInv, NEW m \in Models, WorkerEnds(m) \/ SpecialistEnds(m)
  PROVE  FanOutInv'
<1>1. /\ FanOutTypeOK /\ Fresh /\ Gathering /\ Staging /\ Gathered /\ Answering /\ Blamed
      /\ UNCHANGED <<request, route, tried, progress, winner, stage, working, sent>>
      /\ results' = Append(results, m)
  BY DEF FanOutInv, WorkerEnds, SpecialistEnds
<1>2. Sequential' = Sequential /\ Stages' = Stages
  BY <1>1, SequentialStays
<1>3. PICK ending \in Outcomes : Returns(m, ending) /\ cooling' = Recorded(m, ending)
  BY DEF WorkerEnds, SpecialistEnds
<1>4. worker[m] = "running" /\ worker' = [worker EXCEPT ![m] = ending]
  BY <1>3 DEF Returns
<1>5. ~Sequential
  BY DEF WorkerEnds, SpecialistEnds, Sequential, FusionRoute
<1>6. progress \in {"race", "wait"}
  BY <1>1, <1>4, <1>5 DEF FanOutTypeOK, Fresh, Staging, Gathered, AllEnded
<1>7. results' \in Seq(Models) /\ In(m, results') /\ \A n : In(n, results) => In(n, results')
  BY <1>1, Lengthened DEF FanOutTypeOK
<1>8. cooling' \subseteq cooling \cup {m} /\ (m \in cooling' => ending = "error" \/ m \in cooling)
      /\ (ending \in Usable => m \notin cooling')
  BY <1>3 DEF Recorded, Usable
<1>9. FanOutTypeOK'
  BY <1>1, <1>4, <1>7, <1>8 DEF FanOutTypeOK
<1>10. Fresh' /\ Staging' /\ Gathered' /\ Answering'
  BY <1>1, <1>6 DEF Fresh, Staging, Gathered, Answering
<1>11. Gathering'
  <2>1. \A n \in Models : worker'[n] \in Usable => In(n, results') \/ winner' # <<>>
    BY <1>1, <1>4, <1>6, <1>7 DEF Gathering, FanOutTypeOK
  <2>2. \A n \in Models : worker'[n] # "none" => In(n, tried')
    BY <1>1, <1>4, <1>6 DEF Gathering, FanOutTypeOK, In
  <2>3. winner' # <<>> => worker'[Head(winner')] \in Usable
    BY <1>1, <1>4, <1>6 DEF Gathering, FanOutTypeOK, Usable
  <2>4. IF route.firstComplete THEN progress = "race" ELSE progress = "wait" /\ winner = <<>>
    BY <1>1, <1>4, <1>6 DEF Gathering, AllEnded
  <2> QED BY <1>1, <1>2, <1>5, <2>1, <2>2, <2>3, <2>4 DEF Gathering
<1>12. Blamed'
  BY <1>1, <1>4, <1>8 DEF Blamed, FanOutTypeOK
<1> QED BY <1>9, <1>10, <1>11, <1>12 DEF FanOutInv

LEMMA RaceStep ==
  ASSUME FanOutInv, Race
  PROVE  FanOutInv'
<1>1. /\ FanOutTypeOK /\ Gathering /\ Answering /\ Blamed
      /\ progress = "race" /\ results # <<>> /\ results' = Tail(results)
      /\ progress' = IF AllEnded /\ Len(results) = 1 THEN "wait" ELSE "race"
      /\ UNCHANGED <<request, route, tried, worker, stage, working, cooling, sent>>
  BY DEF FanOutInv, Race
<1>2. Sequential' = Sequential
  BY <1>1, SequentialStays
<1>3. /\ results' \in Seq(Models) /\ Head(results) \in Models
      /\ Len(results) = 1 => results' = <<>>
      /\ \A n : In(n, results) => n = Head(results) \/ In(n, results')
  BY <1>1, InTail DEF FanOutTypeOK
<1>4. \/ winner' = <<Head(results)>> /\ worker[Head(results)] \in Usable
      \/ winner' = winner /\ (winner # <<>> \/ worker[Head(results)] \notin Usable)
  BY DEF Race
<1>5. winner' \in Seq(Models) /\ (winner' # <<>> => worker[Head(winner')] \in Usable)
  <2>1. CASE winner' = <<Head(results)>> /\ worker[Head(results)] \in Usable
    BY <1>3, <2>1
  <2>2. CASE winner' = winner
    BY <1>1, <2>2 DEF FanOutTypeOK, Gathering
  <2> QED BY <1>4, <2>1, <2>2
<1>6. \A n \in Models : worker[n] \in Usable => In(n, results') \/ winner' # <<>>
  <2> SUFFICES ASSUME NEW n \in Models, worker[n] \in Usable, winner' = <<>>
               PROVE  In(n, results')
    OBVIOUS
  <2>1. winner' = winner /\ worker[Head(results)] \notin Usable
    BY <1>4
  <2>2. In(n, results)
    BY <1>1, <2>1 DEF Gathering
  <2> QED BY <1>3, <2>1, <2>2
<1>7. AllEnded' = AllEnded
  BY <1>1 DEF AllEnded
<1>8. route.firstComplete
  BY <1>1 DEF Gathering
<1>9. FanOutTypeOK' /\ Fresh' /\ Staging' /\ Gathered' /\ Answering' /\ Blamed'
  BY <1>1, <1>3, <1>5 DEF FanOutTypeOK, Fresh, Staging, Gathered, Answering, Blamed
<1>10. Gathering'
  BY <1>1, <1>2, <1>3, <1>5, <1>6, <1>7, <1>8 DEF Gathering, In
<1> QED BY <1>9, <1>10 DEF FanOutInv

LEMMA CollectStep ==
  ASSUME FanOutAssumption, FanOutInv, CollectFusion \/ CollectGraph
  PROVE  FanOutInv'
<1>1. PICK kept \in {UsableResults, Kept(tried, Answered)} : Collected(kept)
  BY DEF CollectFusion, CollectGraph
<1>2. /\ FanOutTypeOK /\ Gathering /\ Answering /\ Blamed
      /\ progress = "wait" /\ progress' = "collected" /\ AllEnded /\ results' = <<>>
      /\ working' = IF route.firstComplete THEN winner ELSE kept
      /\ UNCHANGED <<request, route, tried, worker, winner, stage, cooling, sent>>
  BY <1>1 DEF FanOutInv, Collected
<1>3. Sequential' = Sequential /\ AllEnded'
  BY <1>2, SequentialStays DEF AllEnded
<1>4. \A m \in Models : m \in Answered <=> worker[m] \in Usable
  BY DEF Answered
<1>5. /\ kept \in Seq(Models)
      /\ kept # <<>> => Head(kept) \in Answered
      /\ kept = <<>> => \A m \in Answered : ~In(m, results) \/ ~In(m, tried)
  BY <1>2, InKept DEF FanOutTypeOK, UsableResults
<1>6. Head(kept) \in Answered => worker[Head(kept)] \in Usable
  BY DEF Answered
<1>7. /\ working' \in Seq(Models)
      /\ working' # <<>> => worker[Head(working')] \in Usable
      /\ working' = <<>> => \A m \in Models : worker[m] \notin Usable
  <2>1. CASE route.firstComplete
    <3>1. results = <<>> /\ working' = winner
      BY <1>2, <2>1 DEF Gathering
    <3>2. \A m : ~In(m, results)
      BY <3>1 DEF In
    <3> QED BY <1>2, <3>1, <3>2 DEF Gathering, FanOutTypeOK
  <2>2. CASE ~route.firstComplete
    <3>1. winner = <<>> /\ working' = kept
      BY <1>2, <2>2 DEF Gathering
    <3>2. \A m \in Models : worker[m] \in Usable => In(m, results) /\ In(m, tried)
      BY <1>2, <3>1 DEF Gathering, Usable
    <3> QED BY <1>4, <1>5, <1>6, <3>1, <3>2
  <2> QED BY <2>1, <2>2
<1>8. FanOutTypeOK'
  BY <1>2, <1>7 DEF FanOutTypeOK
<1>9. Fresh' /\ Gathering' /\ Staging' /\ Answering' /\ Blamed'
  BY <1>2 DEF Fresh, Gathering, Staging, Answering, Blamed
<1>10. Gathered'
  BY <1>2, <1>3, <1>7 DEF Gathered
<1> QED BY <1>8, <1>9, <1>10 DEF FanOutInv

(* The specialist of a stage is a candidate. *)
LEMMA SpecialistTried ==
  ASSUME FanOutTypeOK, tried # <<>>
  PROVE  Specialist \in Models
<1>1. Len(tried) \in Nat /\ Len(tried) > 0 /\ stage \in Nat
  BY DEF FanOutTypeOK
<1>2. (stage % Len(tried)) + 1 \in 1..Len(tried)
  BY <1>1
<1> QED BY <1>2 DEF Specialist, FanOutTypeOK

LEMMA StageBeginsStep ==
  ASSUME FanOutInv, StageBegins
  PROVE  FanOutInv'
<1>1. /\ FanOutTypeOK /\ Staging /\ Answering /\ Blamed
      /\ progress = "stage" /\ progress' = "specialist"
      /\ worker' = [worker EXCEPT ![Specialist] = "running"]
      /\ UNCHANGED <<request, route, tried, results, winner, stage, working, cooling, sent>>
  BY DEF FanOutInv, StageBegins
<1>2. Sequential' = Sequential /\ Stages' = Stages /\ Specialist' = Specialist
  BY <1>1, SequentialStays DEF Specialist
<1>3. Specialist \in Models
  BY <1>1, SpecialistTried DEF Staging
<1>4. FanOutTypeOK' /\ Fresh' /\ Gathering' /\ Gathered' /\ Answering'
  BY <1>1, <1>3 DEF FanOutTypeOK, Fresh, Gathering, Gathered, Answering
<1>5. Staging' /\ Blamed'
  BY <1>1, <1>2, <1>3 DEF FanOutTypeOK, Staging, Blamed
<1> QED BY <1>4, <1>5 DEF FanOutInv

LEMMA StageEndsStep ==
  ASSUME FanOutInv, StageEnds
  PROVE  FanOutInv'
<1> DEFINE m == Specialist
<1>1. /\ FanOutTypeOK /\ Staging /\ Answering /\ Blamed
      /\ progress = "specialist" /\ stage' = stage + 1
      /\ UNCHANGED <<request, route, tried, results, winner, sent>>
  BY DEF FanOutInv, StageEnds
<1>2. PICK ending \in Outcomes :
        /\ Returns(m, ending) /\ cooling' = Recorded(m, ending)
        /\ progress' = IF ending \in Usable /\ stage + 1 < Stages THEN "stage" ELSE "collected"
        /\ working' = IF ending \in Usable /\ stage + 1 = Stages THEN <<m>> ELSE <<>>
  BY DEF StageEnds
<1>3. worker' = [worker EXCEPT ![m] = ending] /\ ending # "running"
  BY <1>2 DEF Returns, Outcomes, Usable
<1>4. Sequential' = Sequential /\ Stages' = Stages /\ Stages \in 1..3
  BY <1>1, SequentialStays, StagesCounted
<1>5. m \in Models /\ Sequential /\ stage < Stages /\ stage \in Nat /\ tried # <<>> /\ cooling = {}
      /\ \A n \in Models : worker[n] = "running" => n = m
  BY <1>1, SpecialistTried DEF Staging, FanOutTypeOK
<1> HIDE DEF m
<1>6. \A n \in Models : worker'[n] # "running"
  BY <1>1, <1>3, <1>5 DEF FanOutTypeOK
<1>7. IF ending = "error" THEN cooling' = {m} ELSE cooling' = {}
  BY <1>2, <1>5 DEF Recorded, Usable, Outcomes
<1>8. FanOutTypeOK'
  BY <1>1, <1>2, <1>3, <1>5, <1>7 DEF FanOutTypeOK
<1>9. Fresh' /\ Gathering' /\ Answering'
  BY <1>1, <1>2, <1>4 DEF Fresh, Gathering, Answering
<1>10. Staging'
  BY <1>1, <1>2, <1>4, <1>5, <1>6, <1>7 DEF Staging, Usable
<1>11. Gathered'
  <2>1. AllEnded'
    BY <1>6 DEF AllEnded
  <2>2. working' # <<>> => worker'[Head(working')] \in Usable
    BY <1>1, <1>2, <1>3, <1>5 DEF FanOutTypeOK
  <2> QED BY <1>4, <1>5, <2>1, <2>2 DEF Gathered
<1>12. Blamed'
  BY <1>1, <1>3, <1>5, <1>7 DEF Blamed, FanOutTypeOK
<1> QED BY <1>8, <1>9, <1>10, <1>11, <1>12 DEF FanOutInv

LEMMA JudgeStep ==
  ASSUME FanOutAssumption, FanOutInv, Judge
  PROVE  FanOutInv'
<1>1. /\ FanOutTypeOK /\ Gathered /\ Blamed
      /\ progress = "collected" /\ working # <<>>
      /\ UNCHANGED <<request, route, tried, progress, worker, results, winner, stage, working>>
  BY DEF FanOutInv, Judge
<1>2. Sequential' = Sequential /\ AllEnded' = AllEnded
  BY <1>1, SequentialStays DEF AllEnded
<1>3. sent' \in {<<Head(working), "text">>, <<Head(working), worker[Head(working)]>>}
      /\ cooling' \in {cooling, cooling \cup {JudgeModel}, cooling \ {JudgeModel}}
  BY DEF Judge, JudgeCalled, Answer
<1>4. worker[Head(working)] \in Usable
  BY <1>1 DEF Gathered
<1>5. sent' \in Answers
  BY <1>3, <1>4 DEF Answers, Usable
<1>6. FanOutTypeOK' /\ Blamed'
  BY <1>1, <1>3 DEF FanOutTypeOK, Blamed, FanOutAssumption
<1>7. Fresh' /\ Gathering' /\ Staging' /\ Gathered'
  BY <1>1, <1>2 DEF Fresh, Gathering, Staging, Gathered
<1>8. Answering'
  BY <1>1, <1>5 DEF Answering, Answers
<1> QED BY <1>6, <1>7, <1>8 DEF FanOutInv

LEMMA ReplyStep ==
  ASSUME FanOutInv, Reply
  PROVE  FanOutInv'
<1>1. /\ FanOutTypeOK /\ Gathered /\ Answering /\ Blamed
      /\ progress = "collected" /\ progress' = "ended" /\ (working = <<>> \/ sent # <<>>)
      /\ sent' = IF working = <<>> THEN <<"failed">> ELSE Body(sent)
      /\ UNCHANGED <<request, route, tried, worker, results, winner, stage, working, cooling>>
  BY DEF FanOutInv, Reply
<1>2. Sequential' = Sequential /\ AllEnded' = AllEnded
  BY <1>1, SequentialStays DEF AllEnded
<1>3. ASSUME working # <<>> PROVE Body(sent) \in Answers
  <2>1. PICK content \in Usable \cup {"empty"} : sent = <<Head(working), content>>
    BY <1>1, <1>3 DEF Answering, Answers
  <2>2. Body(sent) \in {sent, <<Head(working), "text">>, <<Head(working), "empty">>}
    BY <2>1 DEF Body, ChatBody, ResponsesBody, MessagesBody
  <2> QED BY <2>1, <2>2 DEF Answers, Usable
<1>4. Answering'
  BY <1>1, <1>3 DEF Answering, Answers
<1>5. FanOutTypeOK' /\ Blamed'
  BY <1>1 DEF FanOutTypeOK, Blamed
<1>6. Fresh' /\ Gathering' /\ Staging' /\ Gathered'
  BY <1>1, <1>2 DEF Fresh, Gathering, Staging, Gathered
<1> QED BY <1>4, <1>5, <1>6 DEF FanOutInv

(* The client's departure is recorded, and nothing else.                   *)
LEMMA QuietStep ==
  ASSUME FanOutInv, ClientLeaves \/ UNCHANGED fanOutVars
  PROVE  FanOutInv'
<1>1. UNCHANGED <<request, route, tried, progress, worker, results, winner, stage, working, cooling, sent>>
  BY DEF ClientLeaves, fanOutVars
<1>2. Sequential' = Sequential /\ Stages' = Stages /\ AllEnded' = AllEnded
      /\ Specialist' = Specialist
  BY <1>1, SequentialStays DEF AllEnded, Specialist
<1>3. FanOutTypeOK' /\ Fresh' /\ Gathering' /\ Blamed'
  BY <1>1, <1>2 DEF FanOutInv, FanOutTypeOK, Fresh, Gathering, Blamed
<1>4. Staging' /\ Gathered' /\ Answering'
  BY <1>1, <1>2 DEF FanOutInv, Staging, Gathered, Answering, Answers
<1> QED BY <1>3, <1>4 DEF FanOutInv

(* The invariant says more than Settled. *)
LEMMA FanOutSettles ==
  ASSUME FanOutInv
  PROVE  Settled
<1>1. SUFFICES ASSUME progress = "ended"
               PROVE  /\ AllEnded
                      /\ Len(sent) = 2 => worker[sent[1]] \in Usable
                      /\ Len(sent) = 1 /\ ~Sequential => \A m \in InTried : worker[m] \notin Usable
                      /\ \A m \in cooling \ {JudgeModel} : worker[m] = "error"
  BY DEF Settled
<1>2. AllEnded /\ \A m \in cooling \ {JudgeModel} : worker[m] = "error"
  BY <1>1 DEF FanOutInv, Gathered, Blamed
<1>3. CASE working = <<>>
  <2>1. Len(sent) = 1
    BY <1>1, <1>3 DEF FanOutInv, Answering
  <2>2. InTried \subseteq Models
    BY DEF FanOutInv, FanOutTypeOK, InTried
  <2> QED BY <1>1, <1>2, <1>3, <2>1, <2>2 DEF FanOutInv, Gathered
<1>4. CASE working # <<>>
  <2>1. PICK content : sent = <<Head(working), content>>
    BY <1>1, <1>4 DEF FanOutInv, Answering, Answers
  <2>2. Len(sent) = 2 /\ sent[1] = Head(working)
    BY <2>1
  <2> QED BY <1>1, <1>2, <1>4, <2>2 DEF FanOutInv, Gathered
<1> QED BY <1>3, <1>4

(* Settled, for any candidates, limits, budgets and needs: when the client *)
(* is answered (internal/server/fusion.go, graph.go) no worker runs on,    *)
(* the answer is of one that gave one, and cooldowns are for errors only.  *)
THEOREM FanOutsSettle == FanOutSpec => []Settled
<1> USE FanOutAssumption
<1>1. FanOutInit => FanOutInv
  BY FanOutInitInv
<1>2. FanOutInv /\ [FanOutNext]_fanOutVars => FanOutInv'
  BY BeginStep, WorkerStep, RaceStep, CollectStep, StageBeginsStep, StageEndsStep, JudgeStep,
     ReplyStep, QuietStep DEF FanOutNext, Handle, ReplyFusion, ReplyGraph
<1>3. FanOutInv => Settled
  BY FanOutSettles
<1> QED BY <1>1, <1>2, <1>3, PTL DEF FanOutSpec

(* The types of a fan-out: who was tried, collected and answers is a       *)
(* model, and each worker has one of the outcomes of the code.             *)
THEOREM FanOutTypeCorrect == FanOutSpec => []FanOutTypeOK
<1> USE FanOutAssumption
<1>1. FanOutInit => FanOutInv
  BY FanOutInitInv
<1>2. FanOutInv /\ [FanOutNext]_fanOutVars => FanOutInv'
  BY BeginStep, WorkerStep, RaceStep, CollectStep, StageBeginsStep, StageEndsStep, JudgeStep,
     ReplyStep, QuietStep DEF FanOutNext, Handle, ReplyFusion, ReplyGraph
<1>3. FanOutInv => FanOutTypeOK
  BY DEF FanOutInv
<1> QED BY <1>1, <1>2, <1>3, PTL DEF FanOutSpec

(***************************************************************************)
(* The grammar of the streams.                                             *)
(***************************************************************************)
(* The kinds of the events of all protocols, and what may follow what.     *)
Kinds ==
  {"role", "chunk", "finish", "error", "eof",
   "created", "in_progress", "item", "part", "delta", "text_done", "part_done", "item_done",
   "call", "completed", "failed",
   "message_start", "block_start", "ping", "block_delta", "block_stop", "message_delta",
   "message_stop"}

Sentence(s) == \A k \in 1..(Len(s) - 1) : s[k + 1] \in Follows[s[k]]
EndOf(s) == s[Len(s)]
HasPart(s) == \E k \in DOMAIN s : s[k] = "part"

(* What may follow, protocol by protocol. *)
LEMMA ChatGrammar ==
  ASSUME api = "chat"
  PROVE  /\ \A k \in {"role", "chunk"} : Follows[k] = {"chunk", "finish", "error"}
         /\ Follows["finish"] = {"eof"} /\ Follows["error"] = {"eof"}
  BY DEF Follows

LEMMA ResponsesGrammar ==
  ASSUME api = "responses"
  PROVE  /\ Follows["created"] = {"in_progress"}
         /\ Follows["in_progress"] = {"item", "call", "error"}
         /\ Follows["item"] = {"part"}
         /\ Follows["part"] = {"delta", "text_done"}
         /\ Follows["delta"] = {"delta", "text_done", "error"}
         /\ Follows["text_done"] = {"part_done"}
         /\ Follows["part_done"] = {"item_done"}
         /\ Follows["item_done"] = {"call", "completed"}
         /\ Follows["call"] = {"completed"}
         /\ Follows["completed"] = {"eof"}
         /\ Follows["error"] = {"failed"}
         /\ Follows["failed"] = {"eof"}
  BY DEF Follows

LEMMA MessagesGrammar ==
  ASSUME api = "messages"
  PROVE  /\ Follows["message_start"] = {"block_start"}
         /\ Follows["block_start"] = {"ping"}
         /\ Follows["ping"] = {"block_delta", "block_stop"}
         /\ Follows["block_delta"] = {"block_delta", "block_stop", "error"}
         /\ Follows["block_stop"] = {"message_delta"}
         /\ Follows["message_delta"] = {"message_stop"}
         /\ Follows["message_stop"] = {"error"}
  BY DEF Follows

(* Two sentences make one if the second may follow the first.              *)
LEMMA Joined ==
  ASSUME NEW s \in Seq(Kinds), NEW t \in Seq(Kinds), Sentence(s), Sentence(t),
         s = <<>> \/ t = <<>> \/ t[1] \in Follows[EndOf(s)]
  PROVE  /\ s \o t \in Seq(Kinds) /\ Sentence(s \o t)
         /\ t # <<>> => s \o t # <<>> /\ EndOf(s \o t) = EndOf(t)
         /\ t = <<>> => s \o t = s
         /\ HasPart(s \o t) <=> HasPart(s) \/ HasPart(t)
<1> DEFINE n == Len(s)  m == Len(t)  u == s \o t
<1>1. /\ n \in Nat /\ m \in Nat /\ u \in Seq(Kinds) /\ Len(u) = n + m
      /\ \A k \in 1..n : u[k] = s[k]
      /\ \A k \in 1..m : u[n + k] = t[k]
      /\ (s = <<>> <=> n = 0) /\ (t = <<>> <=> m = 0) /\ (u = <<>> <=> n + m = 0)
      /\ DOMAIN s = 1..n /\ DOMAIN t = 1..m /\ DOMAIN u = 1..(n + m)
  OBVIOUS
<1>2. t = <<>> => u = s
  OBVIOUS
<1> HIDE DEF u
<1>3. t # <<>> => u # <<>> /\ EndOf(u) = EndOf(t)
  BY <1>1 DEF EndOf
<1>4. Sentence(u)
  <2>1. SUFFICES ASSUME NEW k \in 1..(n + m - 1) PROVE u[k + 1] \in Follows[u[k]]
    BY <1>1 DEF Sentence
  <2>2. CASE k + 1 <= n
    <3>1. k \in 1..(n - 1) /\ k \in 1..n /\ k + 1 \in 1..n
      BY <1>1, <2>2
    <3>2. u[k] = s[k] /\ u[k + 1] = s[k + 1]
      BY <1>1, <3>1
    <3>3. s[k + 1] \in Follows[s[k]]
      BY <3>1 DEF Sentence
    <3> QED BY <3>2, <3>3
  <2>3. CASE k = n
    <3>1. n \in 1..n /\ 1 \in 1..m
      BY <1>1, <2>3
    <3>2. u[k] = s[n] /\ u[k + 1] = t[1] /\ s # <<>> /\ t # <<>>
      BY <1>1, <2>3, <3>1
    <3> QED BY <3>2 DEF EndOf
  <2>4. CASE k > n
    <3>1. k - n \in 1..(m - 1) /\ k - n \in 1..m /\ (k - n) + 1 \in 1..m
          /\ n + (k - n) = k /\ n + ((k - n) + 1) = k + 1
      BY <1>1, <2>4
    <3>2. u[k] = t[k - n] /\ u[k + 1] = t[(k - n) + 1]
      BY <1>1, <3>1, SMTT(40)
    <3>3. t[(k - n) + 1] \in Follows[t[k - n]]
      BY <3>1 DEF Sentence
    <3> QED BY <3>2, <3>3
  <2>5. k + 1 <= n \/ k = n \/ k > n
    <3> HIDE DEF n, m
    <3> QED BY <1>1
  <2> QED BY <2>2, <2>3, <2>4, <2>5
<1>5. HasPart(u) <=> HasPart(s) \/ HasPart(t)
  <2>1. ASSUME HasPart(u) PROVE HasPart(s) \/ HasPart(t)
    <3>1. PICK k \in 1..(n + m) : u[k] = "part"
      BY <1>1, <2>1 DEF HasPart
    <3>2. CASE k \in 1..n
      BY <1>1, <3>1, <3>2 DEF HasPart
    <3>3. CASE k \notin 1..n
      <4>1. k - n \in 1..m /\ n + (k - n) = k
        BY <1>1, <3>1, <3>3
      <4>2. t[k - n] = "part"
        BY <1>1, <3>1, <4>1
      <4> QED BY <1>1, <4>1, <4>2 DEF HasPart
    <3> QED BY <3>2, <3>3
  <2>2. ASSUME HasPart(s) PROVE HasPart(u)
    <3>1. PICK k \in 1..n : s[k] = "part"
      BY <1>1, <2>2 DEF HasPart
    <3>2. k \in 1..(n + m) /\ u[k] = "part"
      BY <1>1, <3>1
    <3> QED BY <1>1, <3>2 DEF HasPart
  <2>3. ASSUME HasPart(t) PROVE HasPart(u)
    <3>1. PICK k \in 1..m : t[k] = "part"
      BY <1>1, <2>3 DEF HasPart
    <3>2. n + k \in 1..(n + m) /\ u[n + k] = "part"
      BY <1>1, <3>1
    <3> QED BY <1>1, <3>2 DEF HasPart
  <2> QED BY <2>1, <2>2, <2>3
<1> QED BY <1>1, <1>2, <1>3, <1>4, <1>5 DEF u

(* Short sentences. *)
LEMMA One == ASSUME NEW a \in Kinds PROVE <<a>> \in Seq(Kinds) /\ Sentence(<<a>>) /\ EndOf(<<a>>) = a
                                          /\ (HasPart(<<a>>) <=> a = "part") /\ <<a>>[1] = a
  BY DEF Sentence, EndOf, HasPart

(* Sentences of two and of three words, and one word more. *)
LEMMA Two ==
  ASSUME NEW a \in Kinds, NEW b \in Kinds, b \in Follows[a]
  PROVE  /\ <<a, b>> \in Seq(Kinds) /\ Sentence(<<a, b>>) /\ EndOf(<<a, b>>) = b /\ <<a, b>>[1] = a
         /\ HasPart(<<a, b>>) <=> "part" \in {a, b}
<1> DEFINE s == <<a, b>>
<1>1. s \in Seq(Kinds) /\ Len(s) = 2 /\ s[1] = a /\ s[2] = b /\ DOMAIN s = 1..2
  OBVIOUS
<1> HIDE DEF s
<1> QED BY <1>1 DEF Sentence, EndOf, HasPart, s

LEMMA Three ==
  ASSUME NEW a \in Kinds, NEW b \in Kinds, NEW c \in Kinds, b \in Follows[a], c \in Follows[b]
  PROVE  /\ <<a, b, c>> \in Seq(Kinds) /\ Sentence(<<a, b, c>>)
         /\ EndOf(<<a, b, c>>) = c /\ <<a, b, c>>[1] = a
         /\ HasPart(<<a, b, c>>) <=> "part" \in {a, b, c}
<1> DEFINE s == <<a, b, c>>
<1>1. s \in Seq(Kinds) /\ Len(s) = 3 /\ s[1] = a /\ s[2] = b /\ s[3] = c /\ DOMAIN s = 1..3
  OBVIOUS
<1> HIDE DEF s
<1>2. Sentence(s)
  <2>1. SUFFICES ASSUME NEW k \in 1..2 PROVE s[k + 1] \in Follows[s[k]]
    BY <1>1 DEF Sentence
  <2>2. k = 1 \/ k = 2
    OBVIOUS
  <2> QED BY <1>1, <2>2
<1> QED BY <1>1, <1>2 DEF EndOf, HasPart, s

LEMMA EmptyLeft == ASSUME NEW x PROVE <<>> \o <<x>> = <<x>>
<1>1. <<x>> \in Seq({x})
  OBVIOUS
<1> QED BY <1>1, ConcatEmptySeq

LEMMA JoinedOne ==
  ASSUME NEW s \in Seq(Kinds), Sentence(s), s # <<>>, NEW a \in Kinds, a \in Follows[EndOf(s)]
  PROVE  /\ s \o <<a>> \in Seq(Kinds) /\ Sentence(s \o <<a>>) /\ s \o <<a>> # <<>>
         /\ EndOf(s \o <<a>>) = a /\ (s \o <<a>>)[1] = s[1]
         /\ HasPart(s \o <<a>>) <=> HasPart(s) \/ a = "part"
<1> DEFINE t == <<a>>
<1>1. t \in Seq(Kinds) /\ Sentence(t) /\ EndOf(t) = a /\ t # <<>> /\ t[1] = a
      /\ (HasPart(t) <=> a = "part")
  BY One
<1>2. (s \o t)[1] = s[1]
  OBVIOUS
<1> HIDE DEF t
<1>3. /\ s \o t \in Seq(Kinds) /\ Sentence(s \o t) /\ s \o t # <<>>
      /\ EndOf(s \o t) = a /\ (HasPart(s \o t) <=> HasPart(s) \/ a = "part")
  BY <1>1, Joined
<1> QED BY <1>2, <1>3 DEF t

(* A stream between two events: where it may be, by its protocol.          *)
Mid(s) ==
  /\ s \in Seq(Kinds) /\ Sentence(s)
  /\ api = "chat" => s # <<>> /\ EndOf(s) \in {"role", "chunk"}
  /\ api = "responses" => s # <<>> /\ EndOf(s) = IF HasPart(s) THEN "delta" ELSE "in_progress"
  /\ api = "messages" => s = <<>> \/ EndOf(s) = "block_delta"

(* A stream that has begun, and how it may end. *)
LEMMA OpeningMid ==
  ASSUME api \in {"chat", "responses"}
  PROVE  Mid(Opening) /\ ~HasPart(Opening)
<1>1. CASE api = "chat"
  <2>1. Opening = <<"role">> /\ "role" \in Kinds
    BY <1>1 DEF Opening, Kinds
  <2> QED BY <1>1, <2>1, One DEF Mid
<1>2. CASE api = "responses"
  <2>1. Opening = <<"created", "in_progress">> /\ "created" \in Kinds /\ "in_progress" \in Kinds
    BY <1>2 DEF Opening, Kinds
  <2>2. "in_progress" \in Follows["created"]
    BY <1>2, ResponsesGrammar
  <2> QED BY <1>2, <2>1, <2>2, Two DEF Mid
<1> QED BY <1>1, <1>2

(* What an event adds keeps a stream where it may be; ItemOpen looks at    *)
(* what was written before the opening, which opens no item.               *)
LEMMA DeltaMid ==
  ASSUME NEW s, Mid(s), api \in {"chat", "responses", "messages"},
         HasPart(s) <=> ItemOpen, s = <<>> <=> (wire = <<>> /\ api = "messages"),
         NEW event
  PROVE  Mid(s \o Delta(event))
<1>1. CASE api = "chat"
  <2>1. Delta(event) = <<>> \/ Delta(event) = <<"chunk">>
    BY <1>1 DEF Delta, ChatDelta
  <2>2. <<>> \in Seq(Kinds) /\ Sentence(<<>>) /\ "chunk" \in Kinds
    BY DEF Sentence, Kinds
  <2>3. "chunk" \in Follows[EndOf(s)]
    BY <1>1, ChatGrammar DEF Mid
  <2>4. Mid(s \o <<>>)
    BY <1>1, <2>2, Joined DEF Mid
  <2>5. Mid(s \o <<"chunk">>)
    BY <1>1, <2>2, <2>3, One, Joined DEF Mid
  <2> QED BY <2>1, <2>4, <2>5
<1>2. CASE api = "responses"
  <2>1. \/ Delta(event) = <<>>
        \/ ItemOpen /\ Delta(event) = <<>> \o <<"delta">>
        \/ ~ItemOpen /\ Delta(event) = <<"item", "part">> \o <<"delta">>
    BY <1>2 DEF Delta, ResponsesDelta, OpenItem
  <2>2. <<>> \o <<"delta">> = <<"delta">>
    BY EmptyLeft
  <2>3. <<>> \in Seq(Kinds) /\ Sentence(<<>>) /\ {"item", "part", "delta"} \subseteq Kinds
    BY DEF Sentence, Kinds
  <2>4. Mid(s \o <<>>)
    BY <1>2, <2>3, Joined DEF Mid
  <2>5. ItemOpen => Mid(s \o <<"delta">>)
    <3>1. ItemOpen => "delta" \in Follows[EndOf(s)]
      BY <1>2, ResponsesGrammar DEF Mid
    <3> QED BY <1>2, <2>3, <3>1, One, Joined DEF Mid
  <2>6. ~ItemOpen => Mid(s \o (<<"item", "part">> \o <<"delta">>))
    <3> DEFINE item == <<"item", "part">>
               first == item \o <<"delta">>
    <3>1. "part" \in Follows["item"] /\ "delta" \in Follows["part"]
      BY <1>2, ResponsesGrammar
    <3>2. item \in Seq(Kinds) /\ Sentence(item) /\ EndOf(item) = "part" /\ HasPart(item) /\ item[1] = "item"
          /\ item # <<>>
      BY <2>3, <3>1, Two
    <3>4. first \in Seq(Kinds) /\ Sentence(first) /\ EndOf(first) = "delta" /\ HasPart(first) /\ first # <<>>
      <4> HIDE DEF item
      <4> QED BY <2>3, <3>1, <3>2, JoinedOne
    <3>5. first[1] = "item"
      BY <3>2
    <3> HIDE DEF first
    <3>6. ~ItemOpen => "item" \in Follows[EndOf(s)]
      BY <1>2, ResponsesGrammar DEF Mid
    <3>7. ~ItemOpen => Mid(s \o first)
      BY <1>2, <3>4, <3>5, <3>6, Joined DEF Mid
    <3> QED BY <3>7 DEF first
  <2> QED BY <2>1, <2>2, <2>4, <2>5, <2>6
<1>3. CASE api = "messages"
  <2>1. \/ Delta(event) = <<>>
        \/ s # <<>> /\ Delta(event) = <<>> \o <<"block_delta">>
        \/ s = <<>> /\ Delta(event) = <<"message_start", "block_start", "ping">> \o <<"block_delta">>
    BY <1>3 DEF Delta, MessagesDelta, StartMessage
  <2>2. <<>> \o <<"block_delta">> = <<"block_delta">>
    BY EmptyLeft
  <2>3. <<>> \in Seq(Kinds) /\ Sentence(<<>>)
        /\ {"message_start", "block_start", "ping", "block_delta"} \subseteq Kinds
    BY DEF Sentence, Kinds
  <2>4. Mid(s \o <<>>)
    BY <1>3, <2>3, Joined DEF Mid
  <2>5. s # <<>> => Mid(s \o <<"block_delta">>)
    <3>1. s # <<>> => "block_delta" \in Follows[EndOf(s)]
      BY <1>3, MessagesGrammar DEF Mid
    <3> QED BY <1>3, <2>3, <3>1, One, Joined DEF Mid
  <2>6. s = <<>> => Mid(s \o (<<"message_start", "block_start", "ping">> \o <<"block_delta">>))
    <3> DEFINE start == <<"message_start", "block_start", "ping">>
    <3>1. "block_start" \in Follows["message_start"] /\ "ping" \in Follows["block_start"]
          /\ "block_delta" \in Follows["ping"]
      BY <1>3, MessagesGrammar
    <3>2. start \in Seq(Kinds) /\ Sentence(start) /\ EndOf(start) = "ping" /\ start # <<>>
      BY <2>3, <3>1, Three
    <3>4. start \o <<"block_delta">> \in Seq(Kinds) /\ Sentence(start \o <<"block_delta">>)
          /\ EndOf(start \o <<"block_delta">>) = "block_delta" /\ start \o <<"block_delta">> # <<>>
      <4> HIDE DEF start
      <4> QED BY <2>3, <3>1, <3>2, JoinedOne
    <3> DEFINE first == start \o <<"block_delta">>
    <3> HIDE DEF first
    <3>5. s = <<>> => Mid(s \o first)
      BY <1>3, <2>3, <3>4, Joined DEF Mid, first
    <3> QED BY <3>5 DEF first
  <2> QED BY <2>1, <2>2, <2>4, <2>5, <2>6
<1> QED BY <1>1, <1>2, <1>3

(* What ends a stream, by its protocol. *)
Closed(s, last) == s \in Seq(Kinds) /\ Sentence(s) /\ s # <<>> /\ EndOf(s) = last

(* Sentences joined: the first word, and the last. *)
LEMMA JoinedFirst ==
  ASSUME NEW s \in Seq(Kinds), NEW t \in Seq(Kinds), s # <<>>
  PROVE  (s \o t)[1] = s[1]
  OBVIOUS

LEMMA JoinedClosed ==
  ASSUME NEW s \in Seq(Kinds), Sentence(s), NEW t, NEW last, Closed(t, last),
         s = <<>> \/ t[1] \in Follows[EndOf(s)]
  PROVE  Closed(s \o t, last)
  BY Joined DEF Closed

LEMMA ClosedTwo ==
  ASSUME NEW a \in Kinds, NEW b \in Kinds, b \in Follows[a]
  PROVE  Closed(<<a, b>>, b) /\ <<a, b>>[1] = a
<1>1. <<a, b>> # <<>>
  OBVIOUS
<1> QED BY <1>1, Two DEF Closed

LEMMA ClosedThree ==
  ASSUME NEW a \in Kinds, NEW b \in Kinds, NEW c \in Kinds, b \in Follows[a], c \in Follows[b]
  PROVE  Closed(<<a, b, c>>, c) /\ <<a, b, c>>[1] = a
<1>1. <<a, b, c>> # <<>>
  OBVIOUS
<1> QED BY <1>1, Three DEF Closed

LEMMA ChatFinishes ==
  ASSUME NEW s, Mid(s), api = "chat"
  PROVE  Closed(s \o <<"finish", "eof">>, "eof") /\ Closed(s \o <<"error", "eof">>, "eof")
<1>1. {"finish", "error", "eof"} \subseteq Kinds /\ "eof" \in Follows["finish"] /\ "eof" \in Follows["error"]
      /\ "finish" \in Follows[EndOf(s)] /\ "error" \in Follows[EndOf(s)]
      /\ s \in Seq(Kinds) /\ Sentence(s)
  BY ChatGrammar DEF Kinds, Mid
<1>2. Closed(<<"finish", "eof">>, "eof") /\ <<"finish", "eof">>[1] = "finish"
  BY <1>1, ClosedTwo
<1>3. Closed(<<"error", "eof">>, "eof") /\ <<"error", "eof">>[1] = "error"
  BY <1>1, ClosedTwo
<1> QED BY <1>1, <1>2, <1>3, JoinedClosed

LEMMA ResponsesFails ==
  ASSUME NEW s, Mid(s), api = "responses"
  PROVE  Closed(s \o <<"error", "failed", "eof">>, "eof")
<1>1. {"error", "failed", "eof"} \subseteq Kinds /\ "failed" \in Follows["error"]
      /\ "eof" \in Follows["failed"] /\ s \in Seq(Kinds) /\ Sentence(s)
      /\ (s = <<>> \/ "error" \in Follows[EndOf(s)])
  BY ResponsesGrammar DEF Kinds, Mid
<1>2. Closed(<<"error", "failed", "eof">>, "eof") /\ <<"error", "failed", "eof">>[1] = "error"
  BY <1>1, ClosedThree
<1> QED BY <1>1, <1>2, JoinedClosed

LEMMA MessagesFails ==
  ASSUME NEW s, s \in Seq(Kinds), Sentence(s), s # <<>>, EndOf(s) \in {"block_delta", "message_stop"},
         api = "messages"
  PROVE  Closed(s \o <<"error">>, "error")
<1>1. "error" \in Kinds /\ "error" \in Follows[EndOf(s)]
  BY MessagesGrammar DEF Kinds
<1> QED BY <1>1, JoinedOne DEF Closed

LEMMA MessagesFinishes ==
  ASSUME Mid(wire), api = "messages"
  PROVE  Closed(wire \o MessagesStop, "message_stop")
<1> DEFINE stopping == <<"block_stop", "message_delta", "message_stop">>
           start == <<"message_start", "block_start", "ping">>
<1>1. {"block_stop", "message_delta", "message_stop", "message_start", "block_start", "ping"} \subseteq Kinds
  BY DEF Kinds
<1>2. /\ "message_delta" \in Follows["block_stop"] /\ "message_stop" \in Follows["message_delta"]
      /\ "block_start" \in Follows["message_start"] /\ "ping" \in Follows["block_start"]
      /\ "block_stop" \in Follows["ping"] /\ "block_stop" \in Follows["block_delta"]
  BY MessagesGrammar
<1>3. Closed(stopping, "message_stop") /\ stopping[1] = "block_stop"
  BY <1>1, <1>2, ClosedThree
<1>4. Closed(start, "ping") /\ start[1] = "message_start"
  BY <1>1, <1>2, ClosedThree
<1>5. <<>> \o stopping = stopping
  <2>1. stopping \in Seq(Kinds)
    BY <1>3 DEF Closed
  <2> QED BY <2>1, ConcatEmptySeq
<1>6. MessagesStop = IF wire = <<>> THEN start \o stopping ELSE <<>> \o stopping
  BY DEF MessagesStop, StartMessage
<1> HIDE DEF start, stopping
<1>7. Closed(start \o stopping, "message_stop")
  BY <1>2, <1>3, <1>4, Joined DEF Closed
<1>8. CASE wire = <<>>
  <2>1. wire \o MessagesStop = start \o stopping
    BY <1>6, <1>7, <1>8, ConcatEmptySeq DEF Closed
  <2> QED BY <1>7, <2>1
<1>9. CASE wire # <<>>
  <2>1. EndOf(wire) = "block_delta"
    BY <1>9 DEF Mid
  <2>2. Closed(wire \o stopping, "message_stop")
    BY <1>2, <1>3, <2>1, Joined DEF Closed, Mid
  <2> QED BY <1>5, <1>6, <1>9, <2>2
<1> QED BY <1>8, <1>9

LEMMA ResponsesFinishes ==
  ASSUME Mid(wire), api = "responses", tools \in BOOLEAN
  PROVE  Closed(wire \o ResponsesFinish, "eof")
<1> DEFINE close == <<"text_done", "part_done", "item_done">>
           item == <<"item", "part">>
           end == <<"completed", "eof">>
           items == CASE ItemOpen -> close
                      [] ~ItemOpen /\ tools -> <<>>
                      [] OTHER -> OpenItem \o close
           calls == IF tools THEN <<"call">> ELSE <<>>
<1>1. {"text_done", "part_done", "item_done", "item", "part", "call", "completed", "eof"} \subseteq Kinds
  BY DEF Kinds
<1>2. /\ "part_done" \in Follows["text_done"] /\ "item_done" \in Follows["part_done"]
      /\ "part" \in Follows["item"] /\ "text_done" \in Follows["part"]
      /\ "call" \in Follows["item_done"] /\ "completed" \in Follows["item_done"]
      /\ "completed" \in Follows["call"] /\ "eof" \in Follows["completed"]
      /\ "text_done" \in Follows["delta"]
      /\ "item" \in Follows["in_progress"] /\ "call" \in Follows["in_progress"]
  BY ResponsesGrammar
<1>3. Closed(close, "item_done") /\ close[1] = "text_done"
  BY <1>1, <1>2, ClosedThree
<1>4. Closed(item, "part") /\ item[1] = "item"
  BY <1>1, <1>2, ClosedTwo
<1>5. Closed(end, "eof") /\ end[1] = "completed"
  BY <1>1, <1>2, ClosedTwo
<1>6. ResponsesFinish = (items \o calls) \o end
  BY DEF ResponsesFinish
<1>7. \/ ItemOpen /\ items = close
      \/ ~ItemOpen /\ tools /\ items = <<>>
      \/ ~ItemOpen /\ ~tools /\ items = item \o close
  BY DEF OpenItem
<1>8. calls = IF tools THEN <<"call">> ELSE <<>>
  OBVIOUS
<1>9. EndOf(wire) = (IF ItemOpen THEN "delta" ELSE "in_progress") /\ wire \in Seq(Kinds)
      /\ Sentence(wire) /\ wire # <<>>
  BY DEF Mid, HasPart, ItemOpen
<1> HIDE DEF close, item, end, items, calls
<1>10. Closed(item \o close, "item_done") /\ (item \o close)[1] = "item"
  BY <1>2, <1>3, <1>4, Joined, JoinedFirst DEF Closed
<1>11. /\ items \o calls \in Seq(Kinds) /\ Sentence(items \o calls) /\ items \o calls # <<>>
       /\ EndOf(items \o calls) \in {"item_done", "call"}
       /\ (items \o calls)[1] \in Follows[EndOf(wire)]
  <2>1. CASE items = <<>> /\ tools /\ ~ItemOpen
    <3>1. items \o calls = <<"call">>
      BY <1>8, <2>1, EmptyLeft
    <3>2. <<"call">> # <<>>
      OBVIOUS
    <3> QED BY <1>1, <1>2, <1>9, <2>1, <3>1, <3>2, One
  <2>2. CASE Closed(items, "item_done") /\ items[1] \in Follows[EndOf(wire)]
    <3>1. CASE tools
      BY <1>1, <1>2, <1>8, <2>2, <3>1, JoinedOne DEF Closed
    <3>2. CASE ~tools
      <4>1. items \o calls = items
        BY <1>8, <2>2, <3>2, ConcatEmptySeq DEF Closed
      <4> QED BY <2>2, <4>1 DEF Closed
    <3> QED BY <3>1, <3>2
  <2> QED BY <1>2, <1>3, <1>7, <1>9, <1>10, <2>1, <2>2
<1>12. Closed((items \o calls) \o end, "eof") /\ ((items \o calls) \o end)[1] = (items \o calls)[1]
  <2> DEFINE most == items \o calls
  <2>1. most \in Seq(Kinds) /\ Sentence(most) /\ most # <<>> /\ EndOf(most) \in {"item_done", "call"}
    BY <1>11
  <2> HIDE DEF most
  <2>2. Closed(most \o end, "eof") /\ (most \o end)[1] = most[1]
    BY <1>2, <1>5, <2>1, Joined, JoinedFirst DEF Closed
  <2> QED BY <2>2 DEF most
<1>13. Closed(ResponsesFinish, "eof") /\ ResponsesFinish[1] \in Follows[EndOf(wire)]
  BY <1>6, <1>11, <1>12
<1> QED BY <1>9, <1>13, Joined DEF Closed

(* What was written, by where the handler is.                              *)
Stage(where, how, s) ==
  /\ where \in {"first", "body", "closing", "ended"} /\ how \in {"none", "ok", "error"}
  /\ s \in Seq(Kinds) /\ Sentence(s)
  /\ where = "first" => s = <<>> /\ api \in {"chat", "responses"}
  /\ where = "body" => Mid(s)
  /\ where = "closing" => \/ api = "responses" /\ Mid(s)
                          \/ api = "messages" /\ s # <<>> /\ EndOf(s) = "message_stop"
  /\ how = "ok" => where = "ended" /\ s # <<>> /\ EndOf(s) \in {"eof", "message_stop"}

WireInv == api \in APIs /\ tools \in BOOLEAN /\ (api # "plain" => Stage(phase, outcome, wire))

(* Nothing is a sentence. *)
LEMMA EmptyMid == Sentence(<<>>) /\ <<>> \in Seq(Kinds) /\ (api = "messages" => Mid(<<>>))
  BY DEF Sentence, Mid

(* One step of the handler each. *)
LEMMA WireInit ==
  ASSUME AttemptInit
  PROVE  WireInv
  BY EmptyMid DEF AttemptInit, APIs, WireInv, Stage

(* A step keeps the invariant if it does so for the words as they are read *)
(* now: the protocol of a stream does not change.                          *)
LEMMA WireKept ==
  ASSUME WireInv, api' = api, tools' \in BOOLEAN, api # "plain" => Stage(phase', outcome', wire')
  PROVE  WireInv'
<1>1. Follows' = Follows
  BY DEF Follows
<1> QED BY <1>1 DEF WireInv, Stage, Mid, Sentence

LEMMA TakeEventStep ==
  ASSUME WireInv, TakeEvent
  PROVE  WireInv'
<1> DEFINE event == Head(channel)
           s == wire \o (IF phase = "first" THEN Opening ELSE <<>>)
<1>1. /\ api' = api /\ api \in {"chat", "responses", "messages"} /\ tools' \in BOOLEAN
      /\ phase \in {"first", "body"} /\ phase' = "body" /\ outcome' = outcome
      /\ wire' = s \o Delta(event)
      /\ Stage(phase, outcome, wire)
  BY DEF WireInv, TakeEvent, Hears, APIs
<1>2. CASE phase = "first"
  <2>1. Mid(Opening) /\ ~HasPart(Opening) /\ wire = <<>> /\ api \in {"chat", "responses"}
    BY <1>1, <1>2, OpeningMid DEF Stage
  <2>2. s = Opening
    BY <1>2, <2>1, ConcatEmptySeq DEF Mid
  <2>3. ~ItemOpen
    BY <2>1 DEF ItemOpen
  <2> HIDE DEF event, s
  <2>4. Mid(s \o Delta(event))
    BY <1>1, <2>1, <2>2, <2>3, DeltaMid DEF Mid
  <2> QED BY <1>1, <2>4, WireKept DEF Stage, Mid
<1>3. CASE phase = "body"
  <2>1. Mid(wire)
    BY <1>1, <1>3 DEF Stage
  <2>2. s = wire
    BY <1>3, <2>1, ConcatEmptySeq DEF Mid
  <2> HIDE DEF event, s
  <2>3. HasPart(s) <=> ItemOpen
    BY <2>2 DEF HasPart, ItemOpen
  <2>4. Mid(s \o Delta(event))
    BY <1>1, <2>1, <2>2, <2>3, DeltaMid DEF Mid
  <2> QED BY <1>1, <2>4, WireKept DEF Stage, Mid
<1> QED BY <1>1, <1>2, <1>3

LEMMA ChatEndsStep ==
  ASSUME WireInv, ChatEnds
  PROVE  WireInv'
<1> DEFINE s == wire \o (IF phase = "first" THEN Opening ELSE <<>>)
<1>1. /\ api' = api /\ api = "chat" /\ tools' \in BOOLEAN
      /\ phase \in {"first", "body"} /\ phase' = "ended" /\ outcome' = "ok"
      /\ wire' = s \o <<"finish", "eof">>
      /\ Stage(phase, outcome, wire)
  BY DEF WireInv, ChatEnds, HasDone, End
<1>2. Mid(s)
  <2>1. CASE phase = "first"
    <3>1. Mid(Opening) /\ wire = <<>>
      BY <1>1, <2>1, OpeningMid DEF Stage
    <3> QED BY <2>1, <3>1, ConcatEmptySeq DEF Mid
  <2>2. CASE phase = "body"
    <3>1. Mid(wire)
      BY <1>1, <2>2 DEF Stage
    <3> QED BY <2>2, <3>1, ConcatEmptySeq DEF Mid
  <2> QED BY <1>1, <2>1, <2>2
<1> HIDE DEF s
<1>3. Closed(wire', "eof")
  BY <1>1, <1>2, ChatFinishes
<1> QED BY <1>1, <1>3, WireKept DEF Stage, Closed

LEMMA ResponsesStep ==
  ASSUME WireInv, ResponsesDone \/ ResponsesEnds
  PROVE  WireInv'
<1>1. api' = api /\ api = "responses" /\ tools' = tools /\ tools \in BOOLEAN /\ Stage(phase, outcome, wire)
  BY DEF WireInv, ResponsesDone, ResponsesEnds, HasDone
<1>2. CASE ResponsesDone
  <2>1. phase \in {"first", "body"} /\ phase' = "closing" /\ UNCHANGED <<outcome, wire>>
    BY <1>2 DEF ResponsesDone, HasDone
  <2>2. phase # "first"
    BY <1>1, <1>2 DEF ResponsesDone, HasDone, Ignored
  <2> QED BY <1>1, <2>1, <2>2, WireKept DEF Stage
<1>3. CASE ResponsesEnds
  <2>1. phase = "closing" /\ phase' = "ended" /\ outcome' = "ok" /\ wire' = wire \o ResponsesFinish
    BY <1>3 DEF ResponsesEnds, End
  <2>2. Mid(wire)
    BY <1>1, <2>1 DEF Stage
  <2>3. Closed(wire', "eof")
    BY <1>1, <2>1, <2>2, ResponsesFinishes
  <2> QED BY <1>1, <2>1, <2>3, WireKept DEF Stage, Closed
<1> QED BY <1>2, <1>3

LEMMA MessagesStep ==
  ASSUME WireInv, MessagesDone \/ MessagesEnds
  PROVE  WireInv'
<1>1. api' = api /\ api = "messages" /\ tools' = tools /\ tools \in BOOLEAN /\ Stage(phase, outcome, wire)
  BY DEF WireInv, MessagesDone, MessagesEnds, HasDone
<1>2. CASE MessagesDone
  <2>1. phase \in {"first", "body"} /\ phase' = "closing" /\ outcome' = outcome
        /\ wire' = wire \o MessagesStop
    BY <1>2 DEF MessagesDone, HasDone
  <2>2. Mid(wire)
    BY <1>1, <2>1 DEF Stage
  <2>3. Closed(wire', "message_stop")
    BY <1>1, <2>1, <2>2, MessagesFinishes
  <2> QED BY <1>1, <2>1, <2>3, WireKept DEF Stage, Closed
<1>3. CASE MessagesEnds
  <2>1. phase = "closing" /\ phase' = "ended" /\ outcome' = "ok" /\ wire' = wire
    BY <1>3 DEF MessagesEnds, End
  <2> QED BY <1>1, <2>1, WireKept DEF Stage
<1> QED BY <1>2, <1>3

LEMMA BreaksStep ==
  ASSUME WireInv, Breaks
  PROVE  WireInv'
<1>1. /\ api' = api /\ api \in APIs /\ tools' = tools /\ tools \in BOOLEAN
      /\ phase' = "ended" /\ outcome' = "error"
      /\ wire' = IF gone \/ api = "plain" \/ phase = "first" THEN wire ELSE wire \o Failure
      /\ phase \in {"first", "body", "closing"}
      /\ api # "plain" => Stage(phase, outcome, wire)
  BY DEF WireInv, Breaks, End
<1>2. CASE wire' = wire \/ api = "plain"
  BY <1>1, <1>2, WireKept DEF Stage
<1>3. CASE phase \in {"body", "closing"} /\ wire' = wire \o Failure /\ api # "plain"
  <2>1. CASE api = "chat"
    BY <1>1, <1>3, <2>1, ChatFinishes, WireKept DEF Stage, Closed, Failure
  <2>2. CASE api = "responses"
    BY <1>1, <1>3, <2>2, ResponsesFails, WireKept DEF Stage, Closed, Failure
  <2>3. CASE api = "messages" /\ wire = <<>>
    <3>1. wire' = wire
      BY <1>1, <1>3, <2>3, ConcatEmptySeq DEF Failure, Stage
    <3> QED BY <1>2, <3>1
  <2>4. CASE api = "messages" /\ wire # <<>>
    <3>1. EndOf(wire) \in {"block_delta", "message_stop"} /\ wire \in Seq(Kinds) /\ Sentence(wire)
      BY <1>1, <1>3, <2>4 DEF Stage, Mid
    <3>2. Closed(wire \o <<"error">>, "error") /\ Failure = <<"error">>
      BY <2>4, <3>1, MessagesFails DEF Failure
    <3> QED BY <1>1, <1>3, <3>2, WireKept DEF Stage, Closed
  <2> QED BY <1>1, <1>3, <2>1, <2>2, <2>3, <2>4 DEF APIs
<1> QED BY <1>1, <1>2, <1>3

LEMMA RunnerStep ==
  ASSUME WireInv, Runner \/ Leave \/ Collect \/ Respond \/ HandlerGivesUp \/ UNCHANGED attemptVars
  PROVE  WireInv'
<1>1. CASE UNCHANGED <<api, phase, tools, outcome, wire>>
  BY <1>1, WireKept DEF WireInv
<1>2. CASE Collect \/ Respond
  BY <1>2, WireKept DEF WireInv, Collect, Respond, Hears
<1>3. CASE HandlerGivesUp
  BY <1>3, WireKept DEF WireInv, HandlerGivesUp, End, Stage
<1>4. CASE Runner \/ Leave \/ UNCHANGED attemptVars
  BY <1>1, <1>4 DEF Runner, Read, Timeout, Succeed, Retry, Fail, Done, Leave, attemptVars, handler
<1> QED BY <1>2, <1>3, <1>4

(* WellFormed, for any provider, number of tries and size of the channel:  *)
(* the bytes of streamChat, streamResponses and streamAnthropic            *)
(* (internal/server) are a sentence of their protocol at every moment.     *)
THEOREM StreamsWellFormed == AttemptSpec => []WellFormed
<1> USE AttemptAssumption
<1>1. AttemptInit => WireInv
  BY WireInit
<1>2. WireInv /\ [AttemptNext]_attemptVars => WireInv'
  BY TakeEventStep, ChatEndsStep, ResponsesStep, MessagesStep, BreaksStep, RunnerStep
     DEF AttemptNext, Handler
<1>3. WireInv => WellFormed
  BY DEF WireInv, Stage, Sentence, EndOf, WellFormed, Ordered, Last
<1> QED BY <1>1, <1>2, <1>3, PTL DEF AttemptSpec

(***************************************************************************)
(* The text of an attempt.                                                 *)
(***************************************************************************)
(* The place in the channel at which a stream's handler will stop.         *)
Stops(k) ==
  /\ api # "plain" /\ "done" \in channel[k]
  /\ ~(api = "responses" /\ phase = "first" /\ k = 1)

(* The texts in the channel that it will still write.                      *)
Owed == {k \in 1..Len(channel) : "text" \in channel[k] /\ \A j \in 1..(k - 1) : ~Stops(j)}

Working == phase \in {"first", "body"}
Stream  == api # "plain"

TextType ==
  /\ api \in APIs /\ transport \in {"cli", "http", "acp", "cursor"}
  /\ try \in Nat \ {0} /\ late \in Nat /\ heard \in Nat /\ spoken \in Nat
  /\ emitted \in BOOLEAN /\ bad \in BOOLEAN /\ early \in BOOLEAN /\ gone \in BOOLEAN
  /\ run \in {"reading", "finishing", "ended", "failed"}
  /\ channel \in Seq(SUBSET Contents)
  /\ phase \in {"first", "body", "closing", "ended"} /\ outcome \in {"none", "ok", "error"}
  /\ phase = "closing" => Stream

(* Text and the end never come in one event. *)
Apart == \A k \in 1..Len(channel) : ~({"text", "done"} \subseteq channel[k])

(* A request that is over while its try runs has cut the try short. *)
Over ==
  /\ phase = "ended" => gone
  /\ outcome = "ok" => phase = "ended"
  /\ gone /\ run = "reading" => phase = "ended" \/ late = try

(* The handler will stop if and only if somebody said so: the provider, or *)
(* the runner as its last word.                                            *)
Announced ==
  /\ Stream /\ Working /\ early => \E k \in 1..Len(channel) : Stops(k)
  /\ Working /\ ~early /\ (\E k \in 1..Len(channel) : Stops(k)) => run = "ended"
  /\ phase = "closing" \/ outcome = "ok" => (Stream /\ early) \/ run = "ended"

(* A try that counts nothing as emitted was not heard.  *)
Unheard ==
  run = "reading" /\ ~emitted /\ phase # "ended" /\ (transport = "cursor" => late = 0) =>
    heard = 0 /\ \A k \in 1..Len(channel) : "text" \notin channel[k]

(* A try that lost no text, or that loses text only in order to fail.      *)
Exact == late = 0 \/ (transport \in {"cli", "http"} /\ (api = "plain" \/ ~early))
Sound ==
  \/ late = 0
  \/ /\ Exact /\ run # "failed"
     /\ run = "reading" => (transport = "cli" => late # try) /\ (transport = "http" => ~bad)

(* What was printed was written or will be.                                *)
Balanced ==
  /\ Working /\ Sound => spoken = heard + Cardinality(Owed)
  /\ (phase = "closing" \/ outcome = "ok") /\ Exact => spoken = heard

TextInv == TextType /\ Apart /\ Over /\ Announced /\ Unheard /\ Balanced

(* Counting positions. *)
LEMMA Counted ==
  ASSUME NEW n \in Nat, NEW S, S \subseteq 1..n
  PROVE  IsFiniteSet(S) /\ Cardinality(S) \in Nat /\ IsFiniteSet(S \cup {n + 1})
         /\ Cardinality(S \cup {n + 1}) = Cardinality(S) + 1
<1>1. IsFiniteSet(S)
  BY FS_Interval, FS_Subset, 1 \in Int, n \in Int
<1>2. n + 1 \notin S
  OBVIOUS
<1> QED BY <1>1, <1>2, FS_AddElement, FS_CardinalityType

(* How many are left when the head of the channel is taken. *)
LEMMA Shifted ==
  ASSUME NEW n \in Nat \ {0}, NEW S, S \subseteq 1..n, NEW T, T = {k \in 1..(n - 1) : k + 1 \in S}
  PROVE  Cardinality(S) = Cardinality(T) + (IF 1 \in S THEN 1 ELSE 0) /\ Cardinality(T) \in Nat
<1> DEFINE Rest == S \ {1}
           f == [k \in T |-> k + 1]
<1>1. IsFiniteSet(S) /\ IsFiniteSet(T)
  BY FS_Interval, FS_Subset, 1 \in Int, n \in Int, n - 1 \in Int
<1>2. Cardinality(T) = Cardinality(Rest)
  <2>1. f \in Bijection(T, Rest)
    <3>1. f \in [T -> Rest] /\ \A a, b \in T : f[a] = f[b] => a = b
      OBVIOUS
    <3>2. ASSUME NEW r \in Rest PROVE \E k \in T : f[k] = r
      <4>1. r - 1 \in T /\ f[r - 1] = r
        BY n \in Nat, r \in Int
      <4> QED BY <4>1
    <3> HIDE DEF f, Rest
    <3> QED BY <3>1, <3>2, Fun_IsBij
  <2> HIDE DEF f, Rest
  <2> QED BY <1>1, <2>1, FS_Bijection DEF ExistsBijection
<1>3. Cardinality(S) \in Nat /\ Cardinality(T) \in Nat
  BY <1>1, FS_CardinalityType
<1>4. Cardinality(Rest) = IF 1 \in S THEN Cardinality(S) - 1 ELSE Cardinality(S)
  BY <1>1, FS_RemoveElement
<1> HIDE DEF Rest
<1> QED BY <1>2, <1>3, <1>4

(* What a message turns into. *)
Shape(p) ==
  /\ p \in [sends : BOOLEAN, event : SUBSET Contents, counts : BOOLEAN, error : BOOLEAN]
  /\ "text" \in p.event => p.counts /\ "done" \notin p.event

(* What a parser makes of a message. *)
LEMMA ParseShape ==
  ASSUME AttemptAssumption, NEW m \in Messages
  PROVE  Shape(Parse(m))
<1>1. m \subseteq Contents
  BY DEF AttemptAssumption
<1>2. Shape(Failing) /\ Shape(Silent)
  BY DEF Shape, Failing, Silent
<1>3. ASSUME NEW e \in SUBSET Contents, NEW c \in BOOLEAN, "text" \in e => c /\ "done" \notin e
      PROVE  Shape(Sends(e, c))
  BY <1>3 DEF Shape, Sends
<1>4. Shape(Sends({"text"}, TRUE)) /\ Shape(Sends({"done"}, FALSE))
  BY <1>3 DEF Contents
<1>5. Shape(ParseLine(m))
  <2>1. Shape(Sends(ParseToolCalls(m) \cup {"empty"}, FALSE))
    BY <1>3 DEF Contents, ParseToolCalls
  <2>2. Shape(Sends(ParseToolCalls(m), TRUE))
    BY <1>3 DEF Contents, ParseToolCalls
  <2>3. ParseLine(m) \in {Failing, Silent, Sends({"text"}, TRUE), Sends({"done"}, FALSE),
                            Sends(ParseToolCalls(m) \cup {"empty"}, FALSE), Sends(ParseToolCalls(m), TRUE)}
    BY DEF ParseLine
  <2> QED BY <1>2, <1>4, <2>1, <2>2, <2>3
<1>6. Shape(ParseChunk(m))
  <2>1. Shape(Sends(m \cap {"text", "tools"}, TRUE))
    BY <1>3 DEF Contents
  <2>2. ParseChunk(m) \in {Failing, Silent, Sends(m \cap {"text", "tools"}, TRUE)}
    BY DEF ParseChunk
  <2> QED BY <1>2, <2>1, <2>2
<1>7. Shape(ParseUpdate(m))
  BY <1>2, <1>4 DEF ParseUpdate
<1> QED BY <1>5, <1>6, <1>7 DEF Parse

(* One step of the runner, of the handler or of the client each. *)
LEMMA TextInit ==
  ASSUME AttemptAssumption, AttemptInit
  PROVE  TextInv
<1>1. channel = <<>> /\ Len(channel) = 0 /\ 1..0 = {} /\ channel \in Seq(SUBSET Contents)
  BY DEF AttemptInit
<1>2. Owed = {}
  BY <1>1 DEF Owed
<1>3. Cardinality(Owed) = 0
  BY <1>2, FS_EmptySet
<1>4. TextType
  <2>1. api \in APIs /\ transport \in {"cli", "http", "acp", "cursor"} /\ run = "reading" /\ outcome = "none"
    BY DEF AttemptInit
  <2>2. try \in Nat \ {0} /\ late \in Nat /\ heard \in Nat /\ spoken \in Nat
    BY DEF AttemptInit
  <2>3. emitted \in BOOLEAN /\ bad \in BOOLEAN /\ early \in BOOLEAN /\ gone \in BOOLEAN
    BY DEF AttemptInit
  <2>4. phase \in {"first", "body"}
    BY DEF AttemptInit
  <2> QED BY <1>1, <2>1, <2>2, <2>3, <2>4 DEF TextType
<1>6. Apart /\ Over
  BY <1>1 DEF AttemptInit, Apart, Over
<1>5. Announced /\ Unheard /\ Balanced
  BY <1>1, <1>3 DEF AttemptInit, Announced, Unheard, Balanced
<1> QED BY <1>4, <1>5, <1>6 DEF TextInv

(* A step that touches neither the channel nor the handler, and does not   *)
(* read.                                                                   *)
LEMMA StillOwed ==
  ASSUME UNCHANGED <<api, phase, channel>>
  PROVE  Owed' = Owed /\ (\A k : Stops(k)' <=> Stops(k)) /\ (Working' <=> Working) /\ (Stream' <=> Stream)
  BY DEF Owed, Stops, Working, Stream

LEMMA RunnerQuiet ==
  ASSUME TextInv, Timeout \/ Succeed \/ Fail \/ UNCHANGED attemptVars
  PROVE  TextInv'
<1>1. UNCHANGED <<api, transport, try, emitted, bad, spoken, early, channel, phase, outcome, heard, gone>>
  BY DEF Timeout, Succeed, Fail, attemptVars, provider, handler
<1>2. Owed' = Owed /\ (\A k : Stops(k)' <=> Stops(k)) /\ (Working' <=> Working) /\ (Stream' <=> Stream)
  BY <1>1, StillOwed
<1>3. \/ run = "reading" /\ run' = "reading" /\ late' = try /\ ~gone
      \/ run = "reading" /\ run' = "finishing" /\ late' = late /\ ~bad /\ (transport = "cli" => late # try)
      \/ run = "reading" /\ run' = "failed" /\ late' = late
      \/ run' = run /\ late' = late
  BY <1>1 DEF Timeout, Succeed, Fail, attemptVars, provider, Expired, Succeeds, Complete
<1>4. TextType'
  BY <1>1, <1>2, <1>3 DEF TextInv, TextType
<1>5. Apart' /\ Over'
  BY <1>1, <1>3 DEF TextInv, Apart, Over
<1>6. Announced'
  BY <1>1, <1>2, <1>3 DEF TextInv, Announced
<1>7. Unheard'
  BY <1>1, <1>3 DEF TextInv, TextType, Unheard
<1>8. (Sound' => Sound) /\ (Exact' => Exact)
  BY <1>1, <1>3 DEF TextInv, TextType, Sound, Exact
<1>9. Balanced'
  BY <1>1, <1>2, <1>8 DEF TextInv, Balanced
<1> QED BY <1>4, <1>5, <1>6, <1>7, <1>9 DEF TextInv

(* A retry starts the account again: nothing of the last try was heard.    *)
LEMMA RetryStep ==
  ASSUME TextInv, Retry
  PROVE  TextInv'
<1>1. /\ UNCHANGED <<api, transport, late, run, early, channel, phase, outcome, heard, gone>>
      /\ run = "reading" /\ try' = try + 1 /\ bad' = FALSE /\ emitted' = FALSE /\ spoken' = 0
      /\ ~emitted /\ ~gone
  BY DEF Retry, MayRetry, handler
<1>2. Owed' = Owed /\ (\A k : Stops(k)' <=> Stops(k)) /\ (Working' <=> Working) /\ (Stream' <=> Stream)
  BY <1>1, StillOwed
<1>3. phase # "ended" /\ outcome # "ok"
  BY <1>1 DEF TextInv, Over
<1>4. TextType'
  <2>1. try' \in Nat \ {0} /\ spoken' \in Nat
    BY <1>1 DEF TextInv, TextType
  <2> QED BY <1>1, <1>2, <2>1 DEF TextInv, TextType
<1>5. Apart' /\ Over'
  BY <1>1 DEF TextInv, Apart, Over
<1>6. Announced'
  BY <1>1, <1>2 DEF TextInv, Announced
<1>7. Unheard'
  BY <1>1 DEF TextInv, Unheard
<1>8. Balanced'
  <2>1. ASSUME transport = "cursor" => late = 0 PROVE heard = 0 /\ Owed = {}
    BY <1>1, <1>3, <2>1 DEF TextInv, Unheard, Owed
  <2>2. (Sound' \/ Exact') => (transport = "cursor" => late = 0)
    BY <1>1 DEF Sound, Exact
  <2>3. Cardinality({}) = 0
    BY FS_EmptySet
  <2> QED BY <1>1, <1>2, <2>1, <2>2, <2>3 DEF Balanced
<1> QED BY <1>4, <1>5, <1>6, <1>7, <1>8 DEF TextInv

LEMMA LeaveStep ==
  ASSUME TextInv, Leave
  PROVE  TextInv'
<1>1. /\ UNCHANGED <<api, transport, try, emitted, bad, run, spoken, early, channel, phase, outcome, heard>>
      /\ ~gone /\ gone' = TRUE
      /\ late' = IF run = "reading" THEN try ELSE late
  BY DEF Leave, handler
<1>2. Owed' = Owed /\ (\A k : Stops(k)' <=> Stops(k)) /\ (Working' <=> Working) /\ (Stream' <=> Stream)
  BY <1>1, StillOwed
<1>3. TextType'
  BY <1>1, <1>2 DEF TextInv, TextType
<1>4. Apart' /\ Over'
  BY <1>1 DEF TextInv, Apart, Over
<1>5. Announced'
  BY <1>1, <1>2 DEF TextInv, Announced
<1>6. Unheard'
  BY <1>1 DEF TextInv, TextType, Unheard
<1>7. (Sound' => Sound) /\ (Exact' => Exact)
  BY <1>1 DEF TextInv, TextType, Sound, Exact
<1>8. Balanced'
  BY <1>1, <1>2, <1>7 DEF TextInv, Balanced
<1> QED BY <1>3, <1>4, <1>5, <1>6, <1>8 DEF TextInv

(* What is owed to the client when the channel grows. *)
LEMMA OwedAppended ==
  ASSUME TextType, NEW e \in SUBSET Contents, channel' = Append(channel, e), UNCHANGED <<api, phase>>
  PROVE  /\ channel' \in Seq(SUBSET Contents) /\ channel' # channel
         /\ Len(channel') = Len(channel) + 1 /\ channel'[Len(channel) + 1] = e /\ Len(channel) \in Nat
         /\ \A k \in 1..Len(channel) : channel'[k] = channel[k] /\ (Stops(k)' <=> Stops(k))
         /\ Owed' = IF "text" \in e /\ \A j \in 1..Len(channel) : ~Stops(j)
                    THEN Owed \cup {Len(channel) + 1} ELSE Owed
         /\ (Working' <=> Working) /\ (Stream' <=> Stream)
<1> DEFINE n == Len(channel)
<1>1. /\ n \in Nat /\ channel' \in Seq(SUBSET Contents) /\ Len(channel') = n + 1 /\ channel'[n + 1] = e
      /\ \A k \in 1..n : channel'[k] = channel[k]
  BY DEF TextType
<1>2. channel' # channel
  <2>1. Len(channel') # Len(channel)
    BY <1>1
  <2> QED BY <2>1
<1>3. \A k \in 1..n : Stops(k)' <=> Stops(k)
  BY <1>1 DEF Stops
<1>4. Owed' = IF "text" \in e /\ \A j \in 1..n : ~Stops(j) THEN Owed \cup {n + 1} ELSE Owed
  <2>1. Owed' = {k \in 1..(n + 1) : "text" \in channel'[k] /\ \A j \in 1..(k - 1) : ~Stops(j)'}
    BY <1>1 DEF Owed
  <2>2. \A k \in 1..n : k \in Owed' <=> k \in Owed
    <3>1. ASSUME NEW k \in 1..n PROVE (\A j \in 1..(k - 1) : ~Stops(j)') <=> (\A j \in 1..(k - 1) : ~Stops(j))
      <4>1. 1..(k - 1) \subseteq 1..n
        BY <1>1
      <4> QED BY <1>3, <4>1
    <3> QED BY <1>1, <2>1, <3>1 DEF Owed
  <2>3. n + 1 \in Owed' <=> "text" \in e /\ \A j \in 1..n : ~Stops(j)
    <3>1. (n + 1) - 1 = n /\ n + 1 \in 1..(n + 1)
      BY <1>1
    <3> QED BY <1>1, <1>3, <2>1, <3>1
  <2>4. Owed' \subseteq 1..(n + 1) /\ Owed \subseteq 1..n /\ 1..(n + 1) = 1..n \cup {n + 1} /\ n + 1 \notin 1..n
    BY <1>1, <2>1 DEF Owed
  <2>5. CASE "text" \in e /\ \A j \in 1..n : ~Stops(j)
    <3>1. Owed' = Owed \cup {n + 1}
      <4> HIDE DEF n
      <4> QED BY <2>2, <2>3, <2>4, <2>5
    <3> QED BY <2>5, <3>1
  <2>6. CASE ~("text" \in e /\ \A j \in 1..n : ~Stops(j))
    <3>1. Owed' = Owed
      <4> HIDE DEF n
      <4> QED BY <2>2, <2>3, <2>4, <2>6
    <3> QED BY <2>6, <3>1
  <2> QED BY <2>5, <2>6
<1>5. (Working' <=> Working) /\ (Stream' <=> Stream)
  BY DEF Working, Stream
<1> QED BY <1>1, <1>2, <1>3, <1>4, <1>5

(* A sequence that grows is another one. *)
LEMMA AppendDiffers == ASSUME NEW T, NEW s \in Seq(T), NEW e \in T PROVE Append(s, e) # s
<1>1. Len(Append(s, e)) = Len(s) + 1 /\ Len(s) \in Nat
  OBVIOUS
<1>2. Len(Append(s, e)) # Len(s)
  BY <1>1
<1> QED BY <1>2

(* A message that sends nothing, or whose event is dropped.                *)
LEMMA ReadNothing ==
  ASSUME TextInv, UNCHANGED <<api, transport, try, late, emitted, early, run, channel, phase, outcome, heard, gone>>,
         run = "reading", bad' \in BOOLEAN, bad => bad',
         \/ spoken' = spoken
         \/ /\ spoken' = spoken + 1 /\ (api = "plain" \/ ~early)
            /\ gone \/ late = try
            /\ transport = "http" => bad'
  PROVE  TextInv'
<1>1. Owed' = Owed /\ (\A k : Stops(k)' <=> Stops(k)) /\ (Working' <=> Working) /\ (Stream' <=> Stream)
  BY StillOwed
<1>2. TextType'
  <2>1. spoken' \in Nat
    BY DEF TextInv, TextType
  <2> QED BY <1>1, <2>1 DEF TextInv, TextType
<1>3. Apart' /\ Over'
  BY DEF TextInv, Apart, Over
<1>4. Announced'
  BY <1>1 DEF TextInv, Announced
<1>5. Unheard'
  BY DEF TextInv, Unheard
<1>6. (Sound' => Sound) /\ (Exact' => Exact)
  BY DEF Sound, Exact
<1>7. CASE spoken' = spoken
  <2>1. Balanced'
    BY <1>1, <1>6, <1>7 DEF TextInv, Balanced
  <2> QED BY <1>2, <1>3, <1>4, <1>5, <2>1 DEF TextInv
<1>8. CASE spoken' # spoken
  <2>1. ~(phase = "closing" \/ outcome = "ok")
    BY <1>8 DEF TextInv, Announced, Stream
  <2>2. ~(Working /\ Sound')
    BY <1>8 DEF TextInv, TextType, Over, Working, Sound, Exact
  <2>3. Balanced'
    BY <1>1, <2>1, <2>2 DEF Balanced
  <2> QED BY <1>2, <1>3, <1>4, <1>5, <2>3 DEF TextInv
<1> QED BY <1>7, <1>8

(* A message whose event is sent.                                          *)
LEMMA ReadSomething ==
  ASSUME TextInv, UNCHANGED <<api, transport, try, late, run, phase, outcome, heard, gone>>,
         run = "reading", bad' \in BOOLEAN, bad => bad',
         NEW e \in SUBSET Contents, "text" \in e => "done" \notin e,
         channel' = Append(channel, e),
         spoken' = IF "text" \in e /\ (api = "plain" \/ ~early) THEN spoken + 1 ELSE spoken,
         emitted' \in BOOLEAN, emitted => emitted',
         "text" \in e /\ (transport = "cursor" => ~(gone \/ late = try)) => emitted',
         early' = (early \/ Announces(e))
  PROVE  TextInv'
<1>0. PICK n : n = Len(channel)
  OBVIOUS
<1>1. /\ channel' \in Seq(SUBSET Contents)
      /\ Len(channel') = n + 1 /\ channel'[n + 1] = e /\ n \in Nat
      /\ \A k \in 1..n : channel'[k] = channel[k] /\ (Stops(k)' <=> Stops(k))
      /\ Owed' = IF "text" \in e /\ \A j \in 1..n : ~Stops(j) THEN Owed \cup {n + 1} ELSE Owed
      /\ (Working' <=> Working) /\ (Stream' <=> Stream)
  BY <1>0, OwedAppended DEF TextInv
<1>2. TextType'
  <2>1. spoken' \in Nat /\ early' \in BOOLEAN
    BY DEF TextInv, TextType
  <2> QED BY <1>1, <2>1 DEF TextInv, TextType
<1>3. 1..(n + 1) = 1..n \cup {n + 1}
  BY <1>1
<1>4. Apart'
  BY <1>0, <1>1, <1>3 DEF TextInv, Apart
<1>5. Over'
  BY DEF TextInv, Over
<1>6. Stream /\ Working => (Stops(n + 1)' <=> Announces(e))
  <2>1. n + 1 = 1 <=> channel = <<>>
    BY <1>0, <1>1 DEF TextInv, TextType
  <2> QED BY <1>1, <2>1 DEF Stops, Stream, Working, Announces, Ignored
<1>7. Announced'
  <2>1. ASSUME Stream, Working, early' PROVE \E k \in 1..(n + 1) : Stops(k)'
    <3>1. CASE early
      <4>1. PICK k \in 1..n : Stops(k)
        BY <1>0, <2>1, <3>1 DEF TextInv, Announced
      <4>2. k \in 1..(n + 1) /\ Stops(k)'
        BY <1>0, <1>1, <1>3, <4>1
      <4> QED BY <4>2
    <3>2. CASE ~early
      <4>1. n + 1 \in 1..(n + 1)
        BY <1>1
      <4>2. Stops(n + 1)'
        BY <1>6, <2>1, <3>2
      <4> QED BY <4>1, <4>2
    <3> QED BY <3>1, <3>2
  <2>2. ASSUME Working, ~early', NEW k \in 1..(n + 1), Stops(k)' PROVE FALSE
    <3>1. ~early /\ ~Announces(e)
      BY <2>2
    <3>2. Stream
      BY <2>2 DEF Stops, Stream
    <3>3. \A j \in 1..n : ~Stops(j)
      BY <1>0, <2>2, <3>1 DEF TextInv, Announced
    <3> QED BY <1>1, <1>3, <1>6, <2>2, <3>1, <3>2, <3>3
  <2>3. (phase = "closing" \/ outcome = "ok") => (Stream /\ early) \/ run = "ended"
    BY DEF TextInv, Announced
  <2> QED BY <1>1, <2>1, <2>2, <2>3 DEF Announced
<1>8. Unheard'
  <2>1. SUFFICES ASSUME ~emitted', phase # "ended", transport = "cursor" => late = 0
                 PROVE  heard = 0 /\ \A k \in 1..(n + 1) : "text" \notin channel'[k]
    BY <1>1 DEF Unheard
  <2>2. heard = 0 /\ \A k \in 1..n : "text" \notin channel[k]
    BY <1>0, <2>1 DEF TextInv, Unheard
  <2>3. "text" \notin e
    BY <2>1 DEF TextInv, TextType, Over
  <2> QED BY <1>1, <1>3, <2>2, <2>3
<1>9. (Sound' => Sound) /\ (Exact' => Exact)
  BY DEF Sound, Exact
<1>10. Balanced'
  <2>1. ASSUME Working, Sound' PROVE spoken' = heard + Cardinality(Owed')
    <3>1. spoken = heard + Cardinality(Owed)
      BY <1>9, <2>1 DEF TextInv, Balanced
    <3>2. Owed \subseteq 1..n
      BY <1>0 DEF Owed
    <3>3. Cardinality(Owed \cup {n + 1}) = Cardinality(Owed) + 1 /\ Cardinality(Owed) \in Nat
      BY <1>1, <3>2, Counted
    <3>4. (\A j \in 1..n : ~Stops(j)) <=> (api = "plain" \/ ~early)
      BY <1>0, <2>1 DEF TextInv, Announced, Stream, Stops
    <3>5. heard \in Nat
      BY DEF TextInv, TextType
    <3>6. CASE "text" \in e /\ (api = "plain" \/ ~early)
      <4>1. Owed' = Owed \cup {n + 1} /\ spoken' = spoken + 1
        BY <1>1, <3>4, <3>6
      <4>2. Cardinality(Owed') = Cardinality(Owed) + 1
        BY <3>3, <4>1
      <4> QED BY <3>1, <3>3, <3>5, <4>1, <4>2
    <3>7. CASE ~("text" \in e /\ (api = "plain" \/ ~early))
      <4>1. Owed' = Owed /\ spoken' = spoken
        BY <1>1, <3>4, <3>7
      <4> QED BY <3>1, <4>1
    <3> QED BY <3>6, <3>7
  <2>2. ASSUME phase = "closing" \/ outcome = "ok", Exact' PROVE spoken' = heard
    <3>1. Stream /\ early /\ spoken = heard
      BY <1>9, <2>2 DEF TextInv, Announced, Balanced
    <3> QED BY <3>1 DEF Stream
  <2> QED BY <1>1, <2>1, <2>2 DEF Balanced
<1> QED BY <1>2, <1>4, <1>5, <1>7, <1>8, <1>10 DEF TextInv

LEMMA ReadStep ==
  ASSUME AttemptAssumption, TextInv, NEW m \in Messages, Read(m)
  PROVE  TextInv'
<1>0. PICK p : p = Parse(m) /\ Shape(p)
  BY ParseShape
<1>1. /\ run = "reading"
      /\ UNCHANGED <<api, transport, try, late, run, phase, outcome, heard, gone>>
      /\ IF p.sends THEN Send(p.event, gone \/ late = try) /\ Speak(p.event)
                    ELSE UNCHANGED <<channel, spoken>>
      /\ early' = (early \/ (p.sends /\ Sent /\ Announces(p.event)))
      /\ emitted' = (emitted \/ (p.counts /\ Sent /\ (transport = "cursor" => ~(gone \/ late = try))))
      /\ bad' = (bad \/ p.error \/ (transport = "http" /\ p.sends /\ ~Sent))
  BY <1>0 DEF Read, handler, Expired
<1>2. /\ p.sends \in BOOLEAN /\ p.event \in SUBSET Contents /\ p.counts \in BOOLEAN /\ p.error \in BOOLEAN
      /\ "text" \in p.event => p.counts /\ "done" \notin p.event
  BY <1>0 DEF Shape
<1>3. /\ emitted \in BOOLEAN /\ bad \in BOOLEAN /\ early \in BOOLEAN
      /\ bad' \in BOOLEAN /\ (bad => bad')
  BY <1>1, <1>2 DEF TextInv, TextType
<1>4. CASE ~p.sends
  <2>1. UNCHANGED <<channel, spoken, early, emitted>>
    BY <1>1, <1>3, <1>4 DEF Sent
  <2> QED BY <1>1, <1>3, <2>1, ReadNothing
<1>5. CASE p.sends /\ channel' = channel
  <2>1. UNCHANGED <<early, emitted>>
    BY <1>1, <1>3, <1>5 DEF Sent
  <2>2. gone \/ late = try
    <3>1. Append(channel, p.event) # channel
      BY <1>2, AppendDiffers DEF TextInv, TextType
    <3> QED BY <1>1, <1>5, <3>1 DEF Send
  <2>3. transport = "http" => bad'
    BY <1>1, <1>5 DEF Sent
  <2>4. spoken' = spoken \/ (spoken' = spoken + 1 /\ (api = "plain" \/ ~early))
    BY <1>1, <1>5 DEF Speak
  <2> QED BY <1>1, <1>3, <1>5, <2>1, <2>2, <2>3, <2>4, ReadNothing
<1>6. CASE p.sends /\ channel' # channel
  <2>1. channel' = Append(channel, p.event)
    BY <1>1, <1>6 DEF Send
  <2>2. spoken' = IF "text" \in p.event /\ (api = "plain" \/ ~early) THEN spoken + 1 ELSE spoken
    BY <1>1, <1>6 DEF Speak
  <2>3. early' = (early \/ Announces(p.event))
    BY <1>1, <1>6 DEF Sent
  <2>4. emitted' = (emitted \/ (p.counts /\ (transport = "cursor" => ~(gone \/ late = try))))
    BY <1>1, <1>6 DEF Sent
  <2>5. /\ emitted' \in BOOLEAN /\ (emitted => emitted')
        /\ "text" \in p.event /\ (transport = "cursor" => ~(gone \/ late = try)) => emitted'
    BY <1>2, <1>3, <2>4
  <2> QED BY <1>1, <1>2, <1>3, <2>1, <2>2, <2>3, <2>5, ReadSomething
<1> QED BY <1>1, <1>4, <1>5, <1>6

(* The runner's last word carries no text.                                 *)
LEMMA DoneStep ==
  ASSUME TextInv, Done
  PROVE  TextInv'
<1>1. /\ UNCHANGED <<api, transport, try, late, emitted, bad, spoken, early, phase, outcome, heard, gone>>
      /\ run = "finishing" /\ run' = "ended" /\ Send({"done"}, gone)
  BY DEF Done, handler
<1>2. (Sound' => Sound) /\ (Exact' => Exact)
  BY <1>1 DEF Sound, Exact
<1>3. Over' /\ Unheard'
  BY <1>1 DEF TextInv, Over, Unheard
<1>4. CASE channel' = channel
  <2>1. Owed' = Owed /\ (\A k : Stops(k)' <=> Stops(k)) /\ (Working' <=> Working) /\ (Stream' <=> Stream)
    BY <1>1, <1>4, StillOwed
  <2>2. TextType' /\ Apart'
    BY <1>1, <1>4, <2>1 DEF TextInv, TextType, Apart
  <2>3. Announced' /\ Balanced'
    BY <1>1, <1>2, <1>4, <2>1 DEF TextInv, Announced, Balanced
  <2> QED BY <1>3, <2>2, <2>3 DEF TextInv
<1>5. CASE channel' = Append(channel, {"done"})
  <2>0. PICK n : n = Len(channel)
    OBVIOUS
  <2>1. /\ channel' \in Seq(SUBSET Contents)
        /\ Len(channel') = n + 1 /\ channel'[n + 1] = {"done"} /\ n \in Nat
        /\ \A k \in 1..n : channel'[k] = channel[k] /\ (Stops(k)' <=> Stops(k))
        /\ Owed' = Owed
        /\ (Working' <=> Working) /\ (Stream' <=> Stream)
    <3> DEFINE e == {"done"}
    <3>1. e \in SUBSET Contents /\ "text" \notin e
      BY DEF Contents
    <3>2. channel' = Append(channel, e) /\ UNCHANGED <<api, phase>> /\ TextType
      BY <1>1, <1>5 DEF TextInv
    <3> HIDE DEF e
    <3>3. /\ channel' \in Seq(SUBSET Contents)
          /\ Len(channel') = n + 1 /\ channel'[n + 1] = e /\ n \in Nat
          /\ \A k \in 1..n : channel'[k] = channel[k] /\ (Stops(k)' <=> Stops(k))
          /\ Owed' = Owed
          /\ (Working' <=> Working) /\ (Stream' <=> Stream)
      BY <2>0, <3>1, <3>2, OwedAppended
    <3> QED BY <3>3 DEF e
  <2>2. 1..(n + 1) = 1..n \cup {n + 1}
    BY <2>1
  <2>3. TextType'
    BY <1>1, <2>1 DEF TextInv, TextType
  <2>4. Apart'
    BY <2>0, <2>1, <2>2 DEF TextInv, Apart
  <2>5. Announced'
    <3>1. ASSUME Stream, Working, early PROVE \E k \in 1..(n + 1) : Stops(k)'
      <4>1. PICK k \in 1..n : Stops(k)
        BY <2>0, <3>1 DEF TextInv, Announced
      <4>2. k \in 1..(n + 1) /\ Stops(k)'
        BY <2>1, <2>2, <4>1
      <4> QED BY <4>2
    <3> QED BY <1>1, <2>1, <3>1 DEF Announced
  <2>6. Balanced'
    BY <1>1, <1>2, <2>1 DEF TextInv, Balanced
  <2> QED BY <1>3, <2>3, <2>4, <2>5, <2>6 DEF TextInv
<1> QED BY <1>1, <1>4, <1>5 DEF Send

(* What a handler takes from the channel moves everything up by one.       *)
LEMMA Taken ==
  ASSUME TextType, Apart, channel # <<>>, channel' = Tail(channel), Working, phase' = "body", UNCHANGED api,
         ~Stops(1)
  PROVE  /\ channel' \in Seq(SUBSET Contents) /\ Len(channel') = Len(channel) - 1
         /\ \A k \in 1..Len(channel') :
              k + 1 \in 1..Len(channel) /\ channel'[k] = channel[k + 1] /\ (Stops(k)' <=> Stops(k + 1))
         /\ Cardinality(Owed) = Cardinality(Owed') + (IF "text" \in Head(channel) THEN 1 ELSE 0)
         /\ Cardinality(Owed') \in Nat
<1>0. PICK n : n = Len(channel)
  OBVIOUS
<1>1. /\ n \in Nat \ {0} /\ channel' \in Seq(SUBSET Contents) /\ Len(channel') = n - 1
      /\ Head(channel) = channel[1]
      /\ \A k \in 1..(n - 1) : k + 1 \in 1..n /\ channel'[k] = channel[k + 1]
  BY <1>0 DEF TextType
<1>2. \A k \in 1..(n - 1) : Stops(k)' <=> Stops(k + 1)
  <2>1. \A k \in 1..(n - 1) : k + 1 # 1
    BY <1>1
  <2> QED BY <1>1, <2>1 DEF Stops
<1>3. Owed' = {k \in 1..(n - 1) : k + 1 \in Owed}
  <2>1. Owed' = {k \in 1..(n - 1) : "text" \in channel'[k] /\ \A j \in 1..(k - 1) : ~Stops(j)'}
    BY <1>1 DEF Owed
  <2>2. ASSUME NEW k \in 1..(n - 1)
        PROVE  (\A j \in 1..(k - 1) : ~Stops(j)') <=> (\A j \in 1..k : ~Stops(j))
    <3>1. ASSUME \A j \in 1..(k - 1) : ~Stops(j)', NEW j \in 1..k PROVE ~Stops(j)
      <4>1. CASE j = 1
        BY <4>1
      <4>2. CASE j # 1
        <5>1. j - 1 \in 1..(k - 1) /\ j - 1 \in 1..(n - 1) /\ (j - 1) + 1 = j
          BY <1>1, <4>2
        <5>2. Stops(j - 1)' <=> Stops((j - 1) + 1)
          BY <1>2, <5>1
        <5>3. ~Stops(j - 1)'
          BY <3>1, <5>1
        <5> QED BY <5>1, <5>2, <5>3
      <4> QED BY <4>1, <4>2
    <3>2. ASSUME \A j \in 1..k : ~Stops(j), NEW j \in 1..(k - 1) PROVE ~Stops(j)'
      <4>1. j + 1 \in 1..k /\ j \in 1..(n - 1)
        BY <1>1
      <4> QED BY <1>2, <3>2, <4>1
    <3> QED BY <3>1, <3>2
  <2>3. \A k \in 1..(n - 1) : k + 1 \in Owed <=> ("text" \in channel[k + 1] /\ \A j \in 1..k : ~Stops(j))
    <3>1. \A k \in 1..(n - 1) : (k + 1) - 1 = k /\ k + 1 \in 1..n
      BY <1>1
    <3> QED BY <1>0, <3>1 DEF Owed
  <2> QED BY <1>1, <2>1, <2>2, <2>3
<1>4. Owed \subseteq 1..n /\ (1 \in Owed <=> "text" \in Head(channel))
  <2>1. 1 - 1 = 0 /\ 1..0 = {} /\ 1 \in 1..n
    BY <1>1
  <2> QED BY <1>0, <1>1, <2>1 DEF Owed
<1>5. Cardinality(Owed) = Cardinality(Owed') + (IF 1 \in Owed THEN 1 ELSE 0) /\ Cardinality(Owed') \in Nat
  BY <1>1, <1>3, <1>4, Shifted
<1> QED BY <1>0, <1>1, <1>2, <1>4, <1>5

LEMMA TakeStep ==
  ASSUME TextInv, TakeEvent \/ Collect
  PROVE  TextInv'
<1>1. /\ UNCHANGED <<api, transport, try, late, emitted, bad, run, spoken, early, outcome, gone>>
      /\ phase \in {"first", "body"} /\ phase' = "body"
      /\ channel # <<>> /\ channel' = Tail(channel)
      /\ heard' = IF "text" \in Head(channel) THEN heard + 1 ELSE heard
      /\ Stream => "done" \notin Head(channel) \/ Ignored(Head(channel))
  BY DEF TakeEvent, Collect, Hears, Take, provider, Stream
<1>2. ~Stops(1)
  <2>1. Head(channel) = channel[1]
    BY DEF TextInv, TextType
  <2> QED BY <1>1, <2>1 DEF Stops, Stream, Ignored
<1>3. /\ channel' \in Seq(SUBSET Contents) /\ Len(channel') = Len(channel) - 1
      /\ \A k \in 1..Len(channel') :
           k + 1 \in 1..Len(channel) /\ channel'[k] = channel[k + 1] /\ (Stops(k)' <=> Stops(k + 1))
      /\ Cardinality(Owed) = Cardinality(Owed') + (IF "text" \in Head(channel) THEN 1 ELSE 0)
      /\ Cardinality(Owed') \in Nat
  BY <1>1, <1>2, Taken DEF TextInv, Working
<1>4. TextType'
  <2>1. heard' \in Nat
    BY <1>1 DEF TextInv, TextType
  <2> QED BY <1>1, <1>3, <2>1 DEF TextInv, TextType
<1>5. Apart' /\ Over'
  BY <1>1, <1>3 DEF TextInv, Apart, Over
<1>6. Announced'
  <2>1. ASSUME Stream, early PROVE \E k \in 1..Len(channel') : Stops(k)'
    <3>1. PICK k \in 1..Len(channel) : Stops(k)
      BY <1>1, <2>1 DEF TextInv, Announced, Working
    <3>2. k # 1 /\ Len(channel) \in Nat
      BY <1>2, <3>1 DEF TextInv, TextType
    <3>3. k - 1 \in 1..Len(channel') /\ (k - 1) + 1 = k
      BY <1>3, <3>1, <3>2
    <3>4. \E j \in 1..Len(channel') : Stops(j)'
      <4>1. PICK j \in 1..Len(channel') : j + 1 = k
        BY <3>3
      <4>2. Stops(j)'
        BY <1>3, <3>1, <4>1
      <4> QED BY <4>2
    <3> QED BY <3>4
  <2>2. ASSUME ~early, NEW k \in 1..Len(channel'), Stops(k)' PROVE run = "ended"
    <3>1. k + 1 \in 1..Len(channel) /\ Stops(k + 1)
      BY <1>3, <2>2
    <3> QED BY <1>1, <2>2, <3>1 DEF TextInv, Announced, Working
  <2>3. outcome = "ok" => (Stream /\ early) \/ run = "ended"
    BY DEF TextInv, Announced
  <2> QED BY <1>1, <2>1, <2>2, <2>3 DEF Announced, Stream
<1>7. Unheard'
  <2>1. 1 \in 1..Len(channel) /\ Head(channel) = channel[1]
    BY <1>1 DEF TextInv, TextType
  <2> QED BY <1>1, <1>3, <2>1 DEF TextInv, Unheard
<1>8. (Sound' => Sound) /\ (Exact' => Exact) /\ outcome # "ok"
  BY <1>1 DEF TextInv, Over, Sound, Exact
<1>9. Balanced'
  <2>1. Sound => spoken = heard + Cardinality(Owed)
    BY <1>1 DEF TextInv, Balanced, Working
  <2>2. heard \in Nat
    BY DEF TextInv, TextType
  <2>3. Sound' => spoken' = heard' + Cardinality(Owed')
    BY <1>1, <1>3, <1>8, <2>1, <2>2
  <2> QED BY <1>1, <1>8, <2>3 DEF Balanced
<1> QED BY <1>4, <1>5, <1>6, <1>7, <1>9 DEF TextInv

(* The handler takes the end: nothing before it is owed.                   *)
LEMMA StopStep ==
  ASSUME TextInv, ChatEnds \/ ResponsesDone \/ MessagesDone
  PROVE  TextInv'
<1>1. /\ UNCHANGED <<api, transport, try, late, emitted, bad, run, spoken, early, heard>>
      /\ api # "plain" /\ Working /\ channel # <<>> /\ channel' = Tail(channel)
      /\ "done" \in Head(channel) /\ ~Ignored(Head(channel))
  BY DEF ChatEnds, ResponsesDone, MessagesDone, HasDone, Take, provider, Working
<1>2. \/ phase' = "ended" /\ outcome' = "ok" /\ gone' = TRUE
      \/ phase' = "closing" /\ UNCHANGED <<outcome, gone>>
  BY DEF ChatEnds, ResponsesDone, MessagesDone, End
<1>3. /\ channel' \in Seq(SUBSET Contents) /\ 1 \in 1..Len(channel) /\ Head(channel) = channel[1]
      /\ \A k \in 1..Len(channel') : k + 1 \in 1..Len(channel) /\ channel'[k] = channel[k + 1]
  BY <1>1 DEF TextInv, TextType
<1>4. Stops(1) /\ "text" \notin Head(channel)
  BY <1>1, <1>3 DEF Stops, Ignored, TextInv, Apart
<1>5. Owed = {}
  <2>1. SUFFICES ASSUME NEW k \in Owed PROVE FALSE
    OBVIOUS
  <2>2. k \in 1..Len(channel) /\ "text" \in channel[k] /\ \A j \in 1..(k - 1) : ~Stops(j)
    BY <2>1 DEF Owed
  <2>3. k # 1
    BY <1>3, <1>4, <2>2
  <2>4. 1 \in 1..(k - 1)
    BY <2>2, <2>3
  <2> QED BY <1>4, <2>2, <2>4
<1>6. early \/ run = "ended"
  BY <1>1, <1>3, <1>4 DEF TextInv, TextType, Announced
<1>7. TextType'
  BY <1>1, <1>2, <1>3 DEF TextInv, TextType, Stream
<1>8. Apart' /\ Over'
  BY <1>1, <1>2, <1>3 DEF TextInv, Apart, Over, Working
<1>9. Announced'
  BY <1>1, <1>2, <1>6 DEF Announced, Working, Stream
<1>10. Unheard'
  BY <1>1, <1>2, <1>3 DEF TextInv, Unheard, Working
<1>11. Exact => Sound
  BY <1>1, <1>6 DEF Exact, Sound
<1>12. Balanced'
  <2>1. Exact' => Exact
    BY <1>1 DEF Exact
  <2>2. Sound => spoken = heard
    BY <1>1, <1>5, FS_EmptySet DEF TextInv, TextType, Balanced
  <2> QED BY <1>1, <1>2, <1>11, <2>1, <2>2 DEF Balanced, Working
<1> QED BY <1>7, <1>8, <1>9, <1>10, <1>12 DEF TextInv

(* The request ends: well, with all of it read, or not.                    *)
LEMMA EndStep ==
  ASSUME TextInv, ResponsesEnds \/ MessagesEnds \/ Respond \/ Breaks \/ HandlerGivesUp
  PROVE  TextInv'
<1>1. /\ UNCHANGED <<api, transport, try, late, emitted, bad, run, spoken, early, heard, channel>>
      /\ phase' = "ended" /\ gone' = TRUE
      /\ \/ outcome' = "error"
         \/ outcome' = "ok" /\ run = "ended" /\ phase = "closing"
         \/ outcome' = "ok" /\ run = "ended" /\ Working /\ api = "plain" /\ channel = <<>>
  BY DEF ResponsesEnds, MessagesEnds, Respond, Breaks, HandlerGivesUp, End, provider, Working
<1>2. TextType'
  BY <1>1 DEF TextInv, TextType, Stream
<1>3. Apart' /\ Over' /\ Unheard'
  BY <1>1 DEF TextInv, Apart, Over, Unheard
<1>4. Announced'
  BY <1>1 DEF Announced, Working, Stream
<1>5. Balanced'
  <2>1. Exact' => Exact
    BY <1>1 DEF Exact
  <2>2. CASE phase = "closing" \/ outcome' = "error"
    BY <1>1, <2>1, <2>2 DEF TextInv, Balanced, Working
  <2>3. CASE run = "ended" /\ Working /\ api = "plain" /\ channel = <<>>
    <3>1. Owed = {}
      <4>1. 1..Len(channel) = {}
        BY <2>3
      <4> QED BY <4>1 DEF Owed
    <3>2. Exact => Sound
      BY <2>3 DEF Exact, Sound
    <3>3. Sound => spoken = heard
      BY <2>3, <3>1, FS_EmptySet DEF TextInv, TextType, Balanced
    <3> QED BY <1>1, <2>1, <3>2, <3>3 DEF Balanced, Working
  <2> QED BY <1>1, <2>2, <2>3
<1> QED BY <1>2, <1>3, <1>4, <1>5 DEF TextInv

(* TextKept, for any provider, number of tries and size of the channel:    *)
(* what the successful try printed is what the client was written          *)
(* (internal/providers/runner.go and the handlers of internal/server).     *)
THEOREM TextsKept == AttemptSpec => []TextKept
<1> USE AttemptAssumption
<1>1. AttemptInit => TextInv
  BY TextInit
<1>2. TextInv /\ [AttemptNext]_attemptVars => TextInv'
  BY ReadStep, RunnerQuiet, RetryStep, DoneStep, TakeStep, StopStep, EndStep, LeaveStep
     DEF AttemptNext, Runner, Handler
<1>3. TextInv => TextKept
  BY DEF TextInv, Balanced, Exact, TextKept
<1> QED BY <1>1, <1>2, <1>3, PTL DEF AttemptSpec

(* A try that counts nothing as emitted has left the stream as it was,     *)
(* except for what a CLI sends uncounted.                                  *)
Untouched ==
  run = "reading" /\ ~emitted /\ phase # "ended" /\ transport # "cli" /\ (transport = "cursor" => late = 0)
    => channel = <<>> /\ wire = <<>>

(* What is sent is counted, but by a CLI.                                  *)
LEMMA Counts ==
  ASSUME transport # "cli", NEW m \in Messages, Parse(m).sends
  PROVE  Parse(m).counts
<1>1. ParseChunk(m).sends => ParseChunk(m).counts
  BY DEF ParseChunk, Failing, Silent, Sends
<1>2. ParseUpdate(m).sends => ParseUpdate(m).counts
  BY DEF ParseUpdate, Failing, Silent, Sends
<1> QED BY <1>1, <1>2 DEF Parse

LEMMA UntouchedStep ==
  ASSUME TextInv, Untouched, [AttemptNext]_attemptVars
  PROVE  Untouched'
<1> USE DEF Untouched
<1>1. ASSUME NEW m \in Messages, Read(m) PROVE Untouched'
  <2>1. UNCHANGED <<transport, late, run, phase, wire>>
    BY <1>1 DEF Read, handler
  <2> SUFFICES ASSUME run = "reading", ~emitted', phase # "ended", transport # "cli",
                      transport = "cursor" => late = 0
               PROVE  channel' = <<>> /\ wire' = <<>>
    BY <2>1
  <2>2. ~Parse(m).counts \/ ~Sent \/ (transport = "cursor" /\ Expired)
    BY <1>1 DEF Read
  <2>3. ~(transport = "cursor" /\ Expired)
    BY DEF Expired, TextInv, TextType, Over
  <2>4. UNCHANGED channel
    <3>1. CASE Parse(m).sends
      BY <2>2, <2>3, <3>1, Counts DEF Sent
    <3>2. CASE ~Parse(m).sends
      BY <1>1, <3>2 DEF Read
    <3> QED BY <3>1, <3>2
  <2>5. ~emitted
    BY <1>1 DEF Read, TextInv, TextType
  <2> QED BY <2>1, <2>4, <2>5
<1>2. CASE Timeout \/ Leave \/ UNCHANGED attemptVars
  BY <1>2 DEF Timeout, Leave, attemptVars, provider, handler, TextInv, TextType
<1>3. CASE Succeed \/ Fail \/ Done
  BY <1>3 DEF Succeed, Fail, Done
<1>4. CASE Retry
  BY <1>4 DEF Retry, MayRetry, handler
<1>5. CASE TakeEvent \/ ChatEnds \/ ResponsesDone \/ MessagesDone \/ Collect
  <2>1. channel # <<>> /\ UNCHANGED <<transport, run, emitted, late>> /\ phase # "ended"
    BY <1>5 DEF TakeEvent, ChatEnds, ResponsesDone, MessagesDone, Collect, HasDone, provider
  <2> QED BY <2>1
<1>6. CASE ResponsesEnds \/ MessagesEnds \/ Respond \/ Breaks \/ HandlerGivesUp
  BY <1>6 DEF ResponsesEnds, MessagesEnds, Respond, Breaks, HandlerGivesUp, End
<1> QED BY <1>1, <1>2, <1>3, <1>4, <1>5, <1>6 DEF AttemptNext, Runner, Handler

(* RetriesUnheard, for any provider, number of tries and size of the       *)
(* channel: executeCLI (internal/providers/runner.go:278-302) repeats only *)
(* a try of which nothing was sent, outside the exceptions it names.       *)
THEOREM RetriesNotHeard == AttemptSpec => RetriesUnheard
<1> USE AttemptAssumption
<1>1. AttemptInit => TextInv /\ Untouched
  BY TextInit DEF AttemptInit, Untouched
<1>2. TextInv /\ [AttemptNext]_attemptVars => TextInv'
  BY ReadStep, RunnerQuiet, RetryStep, DoneStep, TakeStep, StopStep, EndStep, LeaveStep
     DEF AttemptNext, Runner, Handler
<1>3. TextInv /\ Untouched /\ [AttemptNext]_attemptVars => Untouched'
  BY UntouchedStep
<1>4. TextInv /\ Untouched =>
        [Retry => \/ transport = "cursor" /\ late # 0
                  \/ /\ heard = 0
                     /\ \A k \in DOMAIN channel : "text" \notin channel[k]
                     /\ transport # "cli" => wire = <<>> /\ channel = <<>>]_attemptVars
  <2> SUFFICES ASSUME TextInv, Untouched, Retry, ~(transport = "cursor" /\ late # 0)
               PROVE  /\ heard = 0 /\ \A k \in DOMAIN channel : "text" \notin channel[k]
                      /\ transport # "cli" => wire = <<>> /\ channel = <<>>
    OBVIOUS
  <2>1. run = "reading" /\ ~emitted /\ ~gone
    BY DEF Retry, MayRetry
  <2>2. phase # "ended"
    BY <2>1 DEF TextInv, Over
  <2>3. heard = 0 /\ \A k \in 1..Len(channel) : "text" \notin channel[k]
    BY <2>1, <2>2 DEF TextInv, Unheard
  <2>4. DOMAIN channel = 1..Len(channel)
    BY DEF TextInv, TextType
  <2> QED BY <2>1, <2>2, <2>3, <2>4 DEF Untouched
<1> QED BY <1>1, <1>2, <1>3, <1>4, PTL DEF AttemptSpec, RetriesUnheard

(* The channel keeps to its buffer and the tries to their number.          *)
LEMMA AttemptTyped ==
  ASSUME AttemptAssumption, AttemptTypeOK, [AttemptNext]_attemptVars
  PROVE  AttemptTypeOK'
<1>1. /\ channel \in Seq(SUBSET Contents) /\ Len(channel) \in Nat /\ Len(channel) <= Buffer /\ Buffer \in Nat
      /\ Tries \in Nat /\ try \in 1..Tries /\ MaxMessages \in Nat /\ read \in 0..MaxMessages
  BY DEF AttemptTypeOK, AttemptAssumption
<1>2. ASSUME NEW event \in SUBSET Contents, NEW over, Send(event, over)
      PROVE  channel' \in Seq(SUBSET Contents) /\ Len(channel') <= Buffer
  <2>1. CASE channel' = channel
    BY <1>1, <2>1
  <2>2. CASE Len(channel) < Buffer /\ channel' = Append(channel, event)
    BY <1>1, <1>2, <2>2
  <2> QED BY <1>2, <2>1, <2>2 DEF Send
<1>3. ASSUME channel # <<>>, Take
      PROVE  channel' \in Seq(SUBSET Contents) /\ Len(channel') <= Buffer
  BY <1>1, <1>3 DEF Take
<1>4. ASSUME NEW m \in Messages, Read(m) PROVE AttemptTypeOK'
  <2>1. read' \in 0..MaxMessages /\ UNCHANGED <<try, run, phase, outcome>>
    BY <1>1, <1>4 DEF Read, handler
  <2>2. channel' \in Seq(SUBSET Contents) /\ Len(channel') <= Buffer
    <3>1. CASE Parse(m).sends
      <4>1. Send(Parse(m).event, Expired) /\ Parse(m).event \in SUBSET Contents
        BY <1>4, <3>1, ParseShape DEF Read, Shape
      <4> QED BY <1>2, <4>1
    <3>2. CASE ~Parse(m).sends
      BY <1>1, <1>4, <3>2 DEF Read
    <3> QED BY <3>1, <3>2
  <2> QED BY <1>1, <2>1, <2>2 DEF AttemptTypeOK
<1>5. CASE Timeout \/ Succeed \/ Fail \/ Leave \/ UNCHANGED attemptVars
  BY <1>5 DEF AttemptTypeOK, Timeout, Succeed, Fail, Leave, attemptVars, provider, handler
<1>6. CASE Retry
  BY <1>1, <1>6 DEF AttemptTypeOK, Retry, MayRetry, handler
<1>7. CASE Done
  <2>1. Send({"done"}, gone) /\ {"done"} \in SUBSET Contents
    BY <1>7 DEF Done, Contents
  <2> QED BY <1>2, <1>7, <2>1 DEF AttemptTypeOK, Done, handler
<1>8. CASE TakeEvent \/ Collect
  BY <1>3, <1>8 DEF AttemptTypeOK, TakeEvent, Collect, provider
<1>9. CASE ChatEnds \/ ResponsesDone \/ MessagesDone
  BY <1>3, <1>9 DEF AttemptTypeOK, ChatEnds, ResponsesDone, MessagesDone, HasDone, End, provider
<1>10. CASE ResponsesEnds \/ MessagesEnds \/ Respond \/ Breaks \/ HandlerGivesUp
  BY <1>10 DEF AttemptTypeOK, ResponsesEnds, MessagesEnds, Respond, Breaks, HandlerGivesUp, End, provider
<1> QED BY <1>4, <1>5, <1>6, <1>7, <1>8, <1>9, <1>10 DEF AttemptNext, Runner, Handler

(* An attempt keeps its types, and the channel its capacity.               *)
THEOREM AttemptTypeCorrect == AttemptSpec => []AttemptTypeOK
<1> USE AttemptAssumption
<1>1. AttemptInit => AttemptTypeOK
  BY DEF AttemptInit, AttemptTypeOK, AttemptAssumption
<1>2. AttemptTypeOK /\ [AttemptNext]_attemptVars => AttemptTypeOK'
  BY AttemptTyped
<1> QED BY <1>1, <1>2, PTL DEF AttemptSpec

(***************************************************************************)
(* Probes.                                                                 *)
(***************************************************************************)
(* The periodic check.  The loop's count of errors is never ahead of the   *)
(* failed checks in a row, and the status is what the count was judged to  *)
(* be.                                                                     *)
CountsAgree ==
  /\ failing \in Nat
  /\ result.errors \in Nat /\ result.errors <= failing
  /\ result.status = "unhealthy" => result.errors >= DebounceCount

ResultType == [status : HealthStatuses \cup {"none"}, errors : Nat]
DebounceInv == result \in ResultType /\ CountsAgree

(* The check of the health loop. *)
LEMMA DebounceInit ==
  ASSUME ProbesAssumption, ProbesInit
  PROVE  DebounceInv
  BY DEF ProbesAssumption, ProbesInit, DebounceInv, CountsAgree, ResultType, HealthStatuses

LEMMA DebounceStep ==
  ASSUME ProbesAssumption, DebounceInv, [ProbesNext]_allProbeVars
  PROVE  DebounceInv'
<1> USE DEF DebounceInv
<1>1. ASSUME UNCHANGED <<result, failing>> PROVE DebounceInv'
  BY <1>1 DEF CountsAgree
<1>2. ASSUME NEW lapsed \in BOOLEAN, CheckOne(lapsed) PROVE DebounceInv'
  <2> DEFINE errors == Capped(Errors(~up, lapsed))
             judged == IF up THEN "healthy" ELSE Judged(errors)
  <2>1. /\ result' = [status |-> judged, errors |-> errors]
        /\ failing' = IF up THEN 0 ELSE IF lapsed THEN 1 ELSE Capped(failing + 1)
    BY <1>2 DEF CheckOne
  <2>2. CASE up
    <3>1. errors = 0 /\ judged = "healthy"
      BY <2>2 DEF Errors, Capped, ProbesAssumption
    <3> QED BY <2>1, <2>2, <3>1 DEF CountsAgree, ResultType, HealthStatuses
  <2>3. CASE ~up
    <3>1. errors \in Nat /\ errors <= failing' /\ failing' \in Nat
      BY <2>1, <2>3 DEF Errors, Capped, ProbesAssumption, CountsAgree
    <3>2. judged \in HealthStatuses /\ (judged = "unhealthy" => errors >= DebounceCount)
      BY <2>3, <3>1 DEF Judged, HealthStatuses
    <3> QED BY <2>1, <3>1, <3>2 DEF CountsAgree, ResultType
  <2> QED BY <2>2, <2>3
<1>3. CASE RegisterProvider
  BY <1>3 DEF RegisterProvider, CountsAgree, ResultType, ProbesAssumption, HealthStatuses
<1>4. CASE Outage \/ Recovery \/ Tell
  BY <1>1, <1>4 DEF Outage, Recovery, Tell
<1>5. ASSUME NEW m \in Probed, Expire(m) PROVE DebounceInv'
  BY <1>1, <1>5 DEF Expire, loopVars
<1>6. ASSUME NEW c \in Clients, Ask(c) \/ Depart(c) PROVE DebounceInv'
  BY <1>1, <1>6 DEF Ask, Depart, loopVars
<1>7. ASSUME NEW due \in SUBSET Probed, Tick(due) PROVE DebounceInv'
  BY <1>1, <1>7 DEF Tick, loopVars
<1>8. ASSUME NEW c \in Callers, CallerStep(c) PROVE DebounceInv'
  BY <1>1, <1>8 DEF CallerStep, TestModel, Probe, Publish, Join, Finish, GiveUp, loopVars
<1>9. CASE UNCHANGED allProbeVars
  BY <1>1, <1>9 DEF allProbeVars, loopVars
<1> QED BY <1>2, <1>3, <1>4, <1>5, <1>6, <1>7, <1>8, <1>9 DEF ProbesNext

(* DebounceHonoured (internal/health/loop.go), for any DebounceCount,      *)
(* number of outages, models and clients.                                  *)
THEOREM DebounceKept == ProbesSpec => []DebounceHonoured
<1> USE ProbesAssumption
<1>1. ProbesInit => DebounceInv
  BY DebounceInit
<1>2. DebounceInv /\ [ProbesNext]_allProbeVars => DebounceInv'
  BY DebounceStep
<1>3. DebounceInv => DebounceHonoured
  BY DEF DebounceInv, CountsAgree, DebounceHonoured, ProbesAssumption
<1> QED BY <1>1, <1>2, <1>3, PTL DEF ProbesSpec
-----------------------------------------------------------------------------
(* Whoever has a model in hand, as a leader or as a follower, has one.     *)
InHand(c) == caller[c].at \in {"probe", "publish", "follow", "join"}
HandsFull == \A c \in Callers : InHand(c) => caller[c].m \in Probed

ProbesInv == ProbesTypeOK /\ HandsFull /\ FlightsOwned

(* The callers and the flights, one step each. *)
LEMMA ProbesInitInv ==
  ASSUME ProbesAssumption, ProbesInit
  PROVE  ProbesInv
<1>1. ProbesTypeOK
  BY DEF ProbesAssumption, ProbesInit, ProbesTypeOK, CallerType, Idle, HealthStatuses, Callers
<1>2. HandsFull /\ FlightsOwned
  BY DEF ProbesAssumption, ProbesInit, HandsFull, InHand, FlightsOwned, Idle
<1> QED BY <1>1, <1>2 DEF ProbesInv

(* A step that leaves the flights alone and takes up or drops no model     *)
(* keeps them.                                                             *)
LEMMA FlightsUntouched ==
  ASSUME ProbesInv, ProbesTypeOK', UNCHANGED flight,
         \A c \in Callers :
           \/ caller'[c].at = caller[c].at /\ caller'[c].m = caller[c].m
           \/ caller[c].at \notin {"probe", "publish"} /\ caller'[c].at \in {"idle", "wait", "pick"}
           \/ caller[c].at = "probe" /\ caller'[c].at = "publish" /\ caller'[c].m = caller[c].m
  PROVE  ProbesInv'
  BY DEF ProbesInv, HandsFull, InHand, FlightsOwned

LEMMA EnvironmentStep ==
  ASSUME ProbesAssumption, ProbesInv,
         \/ Outage \/ Recovery \/ Tell \/ RegisterProvider
         \/ \E lapsed \in BOOLEAN : CheckOne(lapsed)
         \/ \E m \in Probed : Expire(m)
  PROVE  ProbesInv'
<1>1. UNCHANGED <<verified, flight, list, caller, asks>>
  BY DEF Outage, Recovery, Tell, RegisterProvider, CheckOne, Expire, probeVars
<1>2. model' \in [Probed -> HealthStatuses]
  <2>1. CASE Tell
    BY <2>1 DEF Tell, OnHealthChange, ProbesInv, ProbesTypeOK
  <2>2. ASSUME NEW m \in Probed, Expire(m) PROVE model' \in [Probed -> HealthStatuses]
    BY <2>2 DEF Expire, HealthStatuses, ProbesInv, ProbesTypeOK
  <2>3. ASSUME UNCHANGED model PROVE model' \in [Probed -> HealthStatuses]
    BY <2>3 DEF ProbesInv, ProbesTypeOK
  <2> QED BY <2>1, <2>2, <2>3 DEF Outage, Recovery, RegisterProvider, CheckOne
<1>3. ProbesTypeOK'
  BY <1>1, <1>2 DEF ProbesInv, ProbesTypeOK
<1> QED BY <1>1, <1>3, FlightsUntouched

LEMMA AskStep ==
  ASSUME ProbesAssumption, ProbesInv, NEW c \in Clients, Ask(c)
  PROVE  ProbesInv'
<1>1. c \in Callers /\ caller[c].at = "idle" /\ caller \in [Callers -> CallerType]
  BY DEF Ask, Callers, ProbesInv, ProbesTypeOK
<1>2. UNCHANGED <<model, verified, flight>>
      /\ asks' \in [Clients -> Nat] /\ list' \in Clients \cup {Nobody}
  BY DEF Ask, ProbesInv, ProbesTypeOK
<1>3. \E new \in CallerType : new.at \in {"pick", "wait"} /\ caller' = [caller EXCEPT ![c] = new]
  <2> DEFINE targets == {m \in Probed : ~ModelVerified(m) /\ model[m] /= "cooldown"}
             leads == [Idle EXCEPT !.at = "pick", !.left = targets]
             waits == [caller[c] EXCEPT !.at = "wait"]
  <2>1. leads \in CallerType /\ leads.at = "pick"
    BY DEF Idle, CallerType
  <2>2. waits \in CallerType /\ waits.at = "wait"
    BY <1>1 DEF CallerType
  <2>3. caller' = [caller EXCEPT ![c] = leads] \/ caller' = [caller EXCEPT ![c] = waits]
    BY <1>1 DEF Ask, Go
  <2> QED BY <2>1, <2>2, <2>3
<1>4. ProbesTypeOK'
  BY <1>1, <1>2, <1>3 DEF ProbesInv, ProbesTypeOK
<1> QED BY <1>1, <1>2, <1>3, <1>4, FlightsUntouched

LEMMA TickStep ==
  ASSUME ProbesAssumption, ProbesInv, NEW due \in SUBSET Probed, Tick(due)
  PROVE  ProbesInv'
<1>1. Worker \in Callers /\ caller[Worker].at = "idle" /\ caller \in [Callers -> CallerType]
  BY DEF Tick, Callers, ProbesInv, ProbesTypeOK
<1>2. UNCHANGED <<model, verified, flight, list, asks>>
  BY DEF Tick
<1>3. \E new \in CallerType : new.at = "pick" /\ caller' = [caller EXCEPT ![Worker] = new]
  <2> DEFINE new == [Idle EXCEPT !.at = "pick", !.left = {m \in Probed : NeedsVerification(m, due)}]
  <2>1. new \in CallerType /\ new.at = "pick"
    BY DEF Idle, CallerType
  <2> QED BY <2>1 DEF Tick
<1>4. ProbesTypeOK'
  BY <1>1, <1>2, <1>3 DEF ProbesInv, ProbesTypeOK
<1> QED BY <1>1, <1>2, <1>3, <1>4, FlightsUntouched

LEMMA DepartStep ==
  ASSUME ProbesAssumption, ProbesInv, NEW c \in Clients, Depart(c)
  PROVE  ProbesInv'
<1>1. c \in Callers /\ caller \in [Callers -> CallerType]
  BY DEF Callers, ProbesInv, ProbesTypeOK
<1>2. caller' = [caller EXCEPT ![c] = [@ EXCEPT !.here = FALSE]]
      /\ UNCHANGED <<model, verified, flight, list, asks>>
  BY <1>1 DEF Depart
<1>3. ProbesTypeOK'
  <2>1. [caller[c] EXCEPT !.here = FALSE] \in CallerType
    BY <1>1 DEF CallerType
  <2>2. caller' \in [Callers -> CallerType]
    BY <1>1, <1>2, <2>1
  <2> QED BY <1>2, <2>2 DEF ProbesInv, ProbesTypeOK
<1>4. \A d \in Callers : caller'[d].at = caller[d].at /\ caller'[d].m = caller[d].m
  BY <1>1, <1>2 DEF CallerType
<1> QED BY <1>2, <1>3, <1>4, FlightsUntouched

(* A caller becomes the leader of a flight only where there is none.       *)
LEMMA TestModelStep ==
  ASSUME ProbesAssumption, ProbesInv, NEW c \in Callers, NEW m \in Probed, TestModel(c, m)
  PROVE  ProbesInv'
<1>1. /\ caller \in [Callers -> CallerType] /\ flight \in [Probed -> Callers \cup {Nobody}]
      /\ Nobody \notin Callers
      /\ caller[c].at = "pick"
      /\ flight' = [flight EXCEPT ![m] = IF @ = Nobody THEN c ELSE @]
      /\ UNCHANGED <<model, verified, list, asks>>
  BY DEF TestModel, ProbesInv, ProbesTypeOK, ProbesAssumption
<1> DEFINE new == [caller[c] EXCEPT !.m = m, !.left = @ \ {m},
                                    !.at = IF flight[m] = Nobody THEN "probe" ELSE "follow"]
<1>2. caller' = [caller EXCEPT ![c] = new]
  BY <1>1 DEF TestModel, CallerType
<1>3. new \in CallerType /\ new.m = m /\ new.at = IF flight[m] = Nobody THEN "probe" ELSE "follow"
  BY <1>1 DEF CallerType
<1> HIDE DEF new
<1>4. ProbesTypeOK'
  BY <1>1, <1>2, <1>3 DEF ProbesInv, ProbesTypeOK
<1>5. HandsFull'
  BY <1>1, <1>2, <1>3 DEF ProbesInv, HandsFull, InHand
<1>6. FlightsOwned'
  BY <1>1, <1>2, <1>3 DEF ProbesInv, FlightsOwned
<1> QED BY <1>4, <1>5, <1>6 DEF ProbesInv

LEMMA ProbeStep ==
  ASSUME ProbesAssumption, ProbesInv, NEW c \in Callers, Probe(c)
  PROVE  ProbesInv'
<1>1. /\ caller \in [Callers -> CallerType] /\ caller[c].at = "probe"
      /\ UNCHANGED <<verified, flight, list, asks>>
  BY DEF Probe, ProbesInv, ProbesTypeOK
<1>2. PICK told \in {"healthy", "failed", "cooldown"} :
        caller' = [caller EXCEPT ![c] = [@ EXCEPT !.at = "publish", !.last = told]]
  BY <1>1 DEF Probe
<1>3. model' \in [Probed -> HealthStatuses]
  BY DEF Probe, HealthStatuses, ProbesInv, ProbesTypeOK
<1>4. ProbesTypeOK'
  <2>1. [caller[c] EXCEPT !.at = "publish", !.last = told] \in CallerType
    BY <1>1 DEF CallerType
  <2>2. caller' \in [Callers -> CallerType]
    BY <1>1, <1>2, <2>1
  <2> QED BY <1>1, <1>3, <2>2 DEF ProbesInv, ProbesTypeOK
<1>5. \A d \in Callers : \/ caller'[d] = caller[d]
                         \/ d = c /\ caller'[c].at = "publish" /\ caller'[c].m = caller[c].m
  BY <1>1, <1>2 DEF CallerType
<1> QED BY <1>1, <1>4, <1>5, FlightsUntouched

(* The leader ends its flight and takes every follower off it.             *)
LEMMA PublishStep ==
  ASSUME ProbesAssumption, ProbesInv, NEW c \in Callers, Publish(c)
  PROVE  ProbesInv'
<1> DEFINE m == caller[c].m
           noted == Noted(caller[c], m, caller[c].last)
           told(d) == [caller[d] EXCEPT !.at = "join", !.last = caller[c].last]
           follows(d) == caller[d].at = "follow" /\ caller[d].m = m
<1>1. /\ caller \in [Callers -> CallerType] /\ flight \in [Probed -> Callers \cup {Nobody}]
      /\ Nobody \notin Callers
      /\ caller[c].at = "publish" /\ m \in Probed
      /\ flight' = [flight EXCEPT ![m] = Nobody]
      /\ UNCHANGED <<model, verified, list, asks>>
      /\ caller' = [d \in Callers |-> IF d = c THEN noted ELSE IF follows(d) THEN told(d) ELSE caller[d]]
  BY DEF Publish, ProbesInv, ProbesTypeOK, ProbesAssumption, HandsFull, InHand
<1>2. noted \in CallerType /\ noted.at = "pick"
  BY <1>1 DEF CallerType, Noted
<1>3. \A d \in Callers : told(d) \in CallerType /\ told(d).at = "join" /\ told(d).m = caller[d].m
  <2> SUFFICES ASSUME NEW d \in Callers
               PROVE  told(d) \in CallerType /\ told(d).at = "join" /\ told(d).m = caller[d].m
    OBVIOUS
  <2>1. caller[d] \in CallerType /\ caller[c] \in CallerType
    BY <1>1
  <2> QED BY <2>1 DEF CallerType
<1>4. \A d \in Callers :
        \/ d = c /\ caller'[d].at = "pick"
        \/ d # c /\ follows(d) /\ caller'[d].at = "join" /\ caller'[d].m = m
        \/ d # c /\ ~follows(d) /\ caller'[d] = caller[d]
  BY <1>1, <1>2, <1>3
<1>5. caller' \in [Callers -> CallerType]
  BY <1>1, <1>2, <1>3
<1> HIDE DEF noted, told
<1>6. ProbesTypeOK'
  BY <1>1, <1>5 DEF ProbesInv, ProbesTypeOK
<1>7. HandsFull'
  BY <1>1, <1>4 DEF ProbesInv, HandsFull, InHand
<1>8. FlightsOwned'
  BY <1>1, <1>4 DEF ProbesInv, FlightsOwned
<1> QED BY <1>6, <1>7, <1>8 DEF ProbesInv

LEMMA JoinStep ==
  ASSUME ProbesAssumption, ProbesInv, NEW c \in Callers, Join(c)
  PROVE  ProbesInv'
<1>1. /\ caller \in [Callers -> CallerType]
      /\ UNCHANGED <<model, verified, flight, list, asks>>
      /\ caller[c].at \in {"follow", "join"} /\ caller[c].m \in Probed
  BY DEF Join, ProbesInv, ProbesTypeOK, HandsFull, InHand
<1>2. PICK told \in {"none", "healthy", "failed", "cooldown"} :
        caller' = [caller EXCEPT ![c] = Noted(@, @.m, told)]
  BY <1>1 DEF Join, CallerType
<1> DEFINE new == Noted(caller[c], caller[c].m, told)
<1>3. new \in CallerType /\ new.at = "pick"
  BY <1>1 DEF CallerType, Noted
<1>4. caller' = [caller EXCEPT ![c] = new]
  BY <1>1, <1>2
<1> HIDE DEF new
<1>5. ProbesTypeOK'
  BY <1>1, <1>3, <1>4 DEF ProbesInv, ProbesTypeOK
<1> QED BY <1>1, <1>3, <1>4, <1>5, FlightsUntouched

LEMMA FinishStep ==
  ASSUME ProbesAssumption, ProbesInv, NEW c \in Callers, Finish(c)
  PROVE  ProbesInv'
<1>1. /\ caller \in [Callers -> CallerType] /\ caller[c].at = "pick"
      /\ UNCHANGED <<model, flight, asks>>
      /\ caller' = [d \in Callers |-> IF d = c \/ (list = c /\ caller[d].at = "wait") THEN Idle ELSE caller[d]]
  BY DEF Finish, ProbesInv, ProbesTypeOK
<1>2. Idle \in CallerType /\ Idle.at = "idle"
  BY DEF CallerType, Idle
<1>3. verified' \in [Probed -> BOOLEAN] /\ list' \in Clients \cup {Nobody}
  BY DEF Finish, ApplyModelVerification, ProbesInv, ProbesTypeOK
<1>4. ProbesTypeOK'
  BY <1>1, <1>2, <1>3 DEF ProbesInv, ProbesTypeOK
<1> QED BY <1>1, <1>2, <1>4, FlightsUntouched

LEMMA GiveUpStep ==
  ASSUME ProbesAssumption, ProbesInv, NEW c \in Callers, GiveUp(c)
  PROVE  ProbesInv'
<1>1. /\ caller \in [Callers -> CallerType] /\ caller[c].at = "wait"
      /\ UNCHANGED <<model, verified, flight, list, asks>>
      /\ caller' = [caller EXCEPT ![c] = Idle]
  BY DEF GiveUp, ProbesInv, ProbesTypeOK
<1>2. Idle \in CallerType /\ Idle.at = "idle"
  BY DEF CallerType, Idle
<1>3. ProbesTypeOK'
  BY <1>1, <1>2 DEF ProbesInv, ProbesTypeOK
<1> QED BY <1>1, <1>2, <1>3, FlightsUntouched

LEMMA ProbesStep ==
  ASSUME ProbesAssumption, ProbesInv, [ProbesNext]_allProbeVars
  PROVE  ProbesInv'
<1>1. CASE UNCHANGED allProbeVars
  BY <1>1 DEF allProbeVars, loopVars, probeVars, ProbesInv, ProbesTypeOK, HandsFull, InHand, FlightsOwned
<1>2. ASSUME NEW c \in Callers, CallerStep(c) PROVE ProbesInv'
  BY <1>2, TestModelStep, ProbeStep, PublishStep, JoinStep, FinishStep, GiveUpStep DEF CallerStep
<1> QED BY <1>1, <1>2, EnvironmentStep, AskStep, TickStep, DepartStep DEF ProbesNext

(* FlightsOwned (probeFlights in internal/server/server.go), for any       *)
(* models, clients and bounds.                                             *)
THEOREM OneLeaderPerFlight == ProbesSpec => []FlightsOwned
<1> USE ProbesAssumption
<1>1. ProbesInit => ProbesInv
  BY ProbesInitInv
<1>2. ProbesInv /\ [ProbesNext]_allProbeVars => ProbesInv'
  BY ProbesStep
<1>3. ProbesInv => FlightsOwned
  BY DEF ProbesInv
<1> QED BY <1>1, <1>2, <1>3, PTL DEF ProbesSpec

(* The types of the probes: every flight and list has a caller or nobody   *)
(* for a leader, and a caller works on models that are probed.             *)
THEOREM ProbesTypeCorrect == ProbesSpec => []ProbesTypeOK
<1> USE ProbesAssumption
<1>1. ProbesInit => ProbesInv
  BY ProbesInitInv
<1>2. ProbesInv /\ [ProbesNext]_allProbeVars => ProbesInv'
  BY ProbesStep
<1>3. ProbesInv => ProbesTypeOK
  BY DEF ProbesInv
<1> QED BY <1>1, <1>2, <1>3, PTL DEF ProbesSpec
=============================================================================
