----------------------------- MODULE Lists_proofs -----------------------------
(***************************************************************************)
(* What several proofs need: the least and the greatest of a set of        *)
(* naturals, induction, and what the loop of Kept leaves of a list.        *)
(***************************************************************************)
EXTENDS Lists, FiniteSetsExt, FiniteSetTheorems, WellFoundedInduction, TLAPS

Below == {ss \in Nat \X Nat : ss[1] < ss[2]}

\* A set of naturals has a least element.
LEMMA LeastNatural ==
  ASSUME NEW S \in SUBSET Nat, S # {}
  PROVE  \E m \in S : \A k \in S : m <= k
  <1>1. IsWellFoundedOn(Below, Nat) BY NatLessThanWellFounded DEF Below, OpToRel
  <1>2. PICK m \in S : \A k \in S : ~(<<k, m>> \in Below) BY <1>1, WFMin
  <1>3. ASSUME NEW k \in S PROVE m <= k
    <2>1. <<k, m>> \in Nat \X Nat OBVIOUS
    <2>2. ~(k < m) BY <1>2, <2>1 DEF Below
    <2> QED BY <2>2
  <1> QED BY <1>3

\* Of a set of naturals up to N, Max is its greatest member.
LEMMA MaxIsGreatest ==
  ASSUME NEW N \in Nat, NEW S \in SUBSET 0..N, S # {}
  PROVE  Max(S) \in S /\ \A x \in S : x <= Max(S)
  <1> DEFINE T == {d \in 0..N : N - d \in S}
  <1>1. T \in SUBSET Nat /\ T # {}
    <2>1. PICK x \in S : TRUE OBVIOUS
    <2>2. N - x \in 0..N /\ N - (N - x) = x BY <2>1
    <2>3. N - x \in T BY <2>1, <2>2
    <2>4. T \subseteq Nat OBVIOUS
    <2> HIDE DEF T
    <2> QED BY <2>3, <2>4
  <1>2. PICK m \in T : \A d \in T : m <= d
    <2> HIDE DEF T
    <2> QED BY <1>1, LeastNatural
  <1>3. ASSUME NEW x \in S PROVE x <= N - m
    <2>1. N - x \in 0..N /\ N - (N - x) = x OBVIOUS
    <2> QED BY <1>2, <2>1
  <1>4. N - m \in S BY <1>2
  <1>5. \A x \in S : N - m >= x BY <1>2, <1>3
  <1>6. \E x \in S : \A y \in S : x >= y BY <1>4, <1>5
  <1> QED BY <1>6 DEF Max

\* A set that has 0 and the successor of each of its members below N reaches N.
LEMMA Induction ==
  ASSUME NEW S \in SUBSET Nat, 0 \in S, NEW N \in Nat, \A n \in S : n < N => n + 1 \in S
  PROVE  0..N \subseteq S
  <1> SUFFICES ASSUME (0..N) \ S # {} PROVE FALSE OBVIOUS
  <1> DEFINE T == (0..N) \ S
  <1>0. T \in SUBSET Nat /\ T # {} OBVIOUS
  <1> HIDE DEF T
  <1>1. PICK m \in T : \A k \in T : m <= k BY <1>0, LeastNatural
  <1> USE DEF T
  <1>2. m # 0 /\ m - 1 \in 0..N OBVIOUS
  <1>3. m - 1 \in S BY <1>1, <1>2
  <1> QED BY <1>1, <1>2, <1>3

\* f holds what is left of q, with u removed, after each of the n steps of the loop.
Loop(q, u, f, n) ==
  f = [i \in 0..n |-> IF i = 0 THEN <<>>
                      ELSE IF q[i] # u THEN Append(f[i-1], q[i]) ELSE f[i-1]]

\* The loop has a result for a queue of any length.
LEMMA LoopEnds ==
  ASSUME NEW q, NEW u, NEW N \in Nat
  PROVE  \E f : Loop(q, u, f, N)
  <1> DEFINE S == {n \in Nat : \E f : Loop(q, u, f, n)}
  <1>1. 0 \in S
    <2>1. Loop(q, u, [i \in 0..0 |-> <<>>], 0) BY DEF Loop
    <2> QED BY <2>1
  <1>2. ASSUME NEW n \in S PROVE n + 1 \in S
    <2>1. PICK f : Loop(q, u, f, n) OBVIOUS
    <2> DEFINE g == [i \in 0..(n+1) |->
                       IF i <= n THEN f[i]
                       ELSE IF q[i] # u THEN Append(f[i-1], q[i]) ELSE f[i-1]]
    <2>2. \A i \in 0..n : g[i] = f[i] OBVIOUS
    <2>3. \A i \in 0..n : f[i] = IF i = 0 THEN <<>>
                      ELSE IF q[i] # u THEN Append(f[i-1], q[i]) ELSE f[i-1]
      BY <2>1 DEF Loop
    <2>4. ASSUME NEW i \in 0..(n+1)
          PROVE  g[i] = IF i = 0 THEN <<>>
                        ELSE IF q[i] # u THEN Append(g[i-1], q[i]) ELSE g[i-1]
      <3>1. CASE i <= n
        <4>1. i # 0 => i - 1 \in 0..n BY <3>1
        <4> QED BY <2>2, <2>3, <3>1, <4>1
      <3>2. CASE i = n + 1 BY <2>2, <3>2
      <3> QED BY <3>1, <3>2
    <2>5. Loop(q, u, g, n + 1) BY <2>4 DEF Loop
    <2> QED BY <2>5
  <1> HIDE DEF S
  <1>3. 0..N \subseteq S BY <1>1, <1>2, Induction DEF S
  <1> QED BY <1>3 DEF S

\* p is what is left of q: its elements in the same order, but u.
Sublist(p, q, u, n) ==
  \E h \in [1..Len(p) -> 1..n] :
    /\ \A k \in 1..Len(p) : p[k] = q[h[k]] /\ p[k] # u
    /\ \A k, l \in 1..Len(p) : k < l => h[k] < h[l]
    /\ \A i \in 1..n : q[i] # u => \E k \in 1..Len(p) : p[k] = q[i]

\* So the users a queue keeps are its own, in their order, and u is not one of them.
LEMMA KeptIsSublist ==
  ASSUME NEW V, NEW q \in Seq(V), NEW u
  PROVE  /\ Kept(q, u) \in Seq(V)
         /\ Len(Kept(q, u)) <= Len(q)
         /\ Sublist(Kept(q, u), q, u, Len(q))
  <1> DEFINE out == CHOOSE f : Loop(q, u, f, Len(q))
  <1>1. Kept(q, u) = out[Len(q)] BY DEF Kept, Loop
  <1>2. Loop(q, u, out, Len(q)) BY LoopEnds
  <1> HIDE DEF out
  <1> DEFINE Good(n) == /\ out[n] \in Seq(V)
                        /\ Len(out[n]) <= n
                        /\ Sublist(out[n], q, u, n)
             S == {n \in 0..Len(q) : Good(n)}
  <1>3. 0 \in S
    <2>1. out[0] = <<>> BY <1>2 DEF Loop
    <2>2. Sublist(<<>>, q, u, 0)
      <3> DEFINE none == [k \in 1..0 |-> 0]
      <3>1. none \in [1..Len(<<>>) -> 1..0] OBVIOUS
      <3>2. 1..Len(<<>>) = {} OBVIOUS
      <3> HIDE DEF none
      <3> QED BY <3>1, <3>2 DEF Sublist
    <2>3. 0 \in 0..Len(q) /\ <<>> \in Seq(V) /\ Len(<<>>) <= 0 OBVIOUS
    <2> QED BY <2>1, <2>2, <2>3
  <1>4. ASSUME NEW n \in S, n < Len(q) PROVE n + 1 \in S
    <2>0. n \in 0..Len(q) /\ n + 1 \in 1..Len(q) BY <1>4
    <2>1. Good(n) BY <1>4
    <2>2. out[n+1] = IF q[n+1] # u THEN Append(out[n], q[n+1]) ELSE out[n]
      <3>1. n + 1 \in 0..Len(q) /\ n + 1 # 0 /\ (n + 1) - 1 = n BY <2>0
      <3> QED BY <1>2, <3>1 DEF Loop
    <2>3. PICK h \in [1..Len(out[n]) -> 1..n] :
            /\ \A k \in 1..Len(out[n]) : out[n][k] = q[h[k]] /\ out[n][k] # u
            /\ \A k, l \in 1..Len(out[n]) : k < l => h[k] < h[l]
            /\ \A i \in 1..n : q[i] # u => \E k \in 1..Len(out[n]) : out[n][k] = q[i]
      BY <2>1 DEF Sublist
    <2>4. CASE q[n+1] = u
      <3>1. out[n+1] = out[n] BY <2>2, <2>4
      <3>2. h \in [1..Len(out[n]) -> 1..(n+1)] BY <2>0, <2>3
      <3>c. \A i \in 1..(n+1) : q[i] # u => \E k \in 1..Len(out[n]) : out[n][k] = q[i]
        BY <2>0, <2>3, <2>4
      <3>3. Sublist(out[n], q, u, n + 1) BY <2>3, <3>2, <3>c DEF Sublist
      <3>4. Good(n + 1) BY <2>0, <2>1, <3>1, <3>3
      <3> QED BY <2>0, <3>4
    <2>5. CASE q[n+1] # u
      <3> DEFINE p == out[n]  L == Len(p)
                 g == [k \in 1..(L+1) |-> IF k <= L THEN h[k] ELSE n + 1]
      <3>1. out[n+1] = Append(p, q[n+1]) BY <2>2, <2>5
      <3>2. p \in Seq(V) /\ L \in Nat /\ L <= n /\ q[n+1] \in V BY <2>0, <2>1
      <3>3. /\ out[n+1] \in Seq(V) /\ Len(out[n+1]) = L + 1
            /\ \A k \in 1..L : out[n+1][k] = p[k]
            /\ out[n+1][L+1] = q[n+1]
        BY <3>1, <3>2
      <3>4. g \in [1..(L+1) -> 1..(n+1)] BY <2>0, <2>3, <3>2
      <3>5. \A k \in 1..L : g[k] = h[k] /\ h[k] \in 1..n
        <4> TAKE k \in 1..L
        <4>1. k \in 1..(L+1) /\ k <= L BY <3>2
        <4> QED BY <2>3, <4>1
      <3>6. g[L+1] = n + 1 BY <3>2
      <3> HIDE DEF g
      <3>7. \A k \in 1..(L+1) : out[n+1][k] = q[g[k]] /\ out[n+1][k] # u
        <4> TAKE k \in 1..(L+1)
        <4>1. CASE k \in 1..L BY <2>3, <3>3, <3>5, <4>1
        <4>2. CASE k = L + 1 BY <2>5, <3>3, <3>6, <4>2
        <4> QED BY <3>2, <4>1, <4>2
      <3>8. \A k, l \in 1..(L+1) : k < l => g[k] < g[l]
        <4> TAKE k, l \in 1..(L+1)
        <4> HAVE k < l
        <4>1. k \in 1..L BY <3>2
        <4>2. CASE l \in 1..L BY <2>3, <3>5, <4>1, <4>2
        <4>3. CASE l = L + 1 BY <2>0, <3>5, <3>6, <4>1, <4>3
        <4> QED BY <3>2, <4>2, <4>3
      <3>c. \A i \in 1..(n+1) : q[i] # u => \E k \in 1..(L+1) : out[n+1][k] = q[i]
        <4> TAKE i \in 1..(n+1)
        <4> HAVE q[i] # u
        <4>1. CASE i \in 1..n
          <5>1. PICK k \in 1..L : p[k] = q[i] BY <2>3, <4>1
          <5> QED BY <3>2, <3>3, <5>1
        <4>2. CASE i = n + 1
          <5>1. L + 1 \in 1..(L+1) BY <3>2
          <5> QED BY <3>3, <4>2, <5>1
        <4> QED BY <2>0, <4>1, <4>2
      <3>9. Sublist(out[n+1], q, u, n + 1) BY <3>3, <3>4, <3>7, <3>8, <3>c DEF Sublist
      <3>10. Good(n + 1) BY <2>0, <3>2, <3>3, <3>9
      <3> QED BY <2>0, <3>10
    <2> QED BY <2>4, <2>5
  <1>5. Len(q) \in Nat /\ S \in SUBSET Nat OBVIOUS
  <1>6. 0..Len(q) \subseteq S
    <2> HIDE DEF S
    <2> QED BY <1>3, <1>4, <1>5, Induction
  <1>7. Good(Len(q)) BY <1>5, <1>6
  <1> QED BY <1>1, <1>7
=============================================================================
