-------------------------- MODULE ConversationProofs --------------------------
(* The request a conversation becomes, for conversations of any length, any    *)
(* blocks, profiles and tools: what strict chat templates need, that nothing   *)
(* is dropped, what a text worker is asked, and that history only grows.  And  *)
(* the message a worker's answer becomes, for any number of chunks, frames and *)
(* tool calls: nothing said is lost, calls are whole, and events and message   *)
(* agree.                                                                      *)
(*                                                                             *)
(* Up to "Texts and calls of one message" nothing is about this program: what  *)
(* a loop that keeps some elements collects, and what joining lists keeps.     *)
(* Both are recursive functions, and induction over their length is done on a  *)
(* set of naturals (NatInd).                                                   *)
EXTENDS Conversation, Answers, SequenceTheorems, FiniteSetTheorems, WellFoundedInduction, TLAPS

-----------------------------------------------------------------------------
\* Loops that keep some elements of a sequence.

\* Induction as a fact about a set of naturals, so that it can be cited by name.
LEMMA NatInd == ASSUME NEW T \in SUBSET Nat, 0 \in T, \A n \in T : n + 1 \in T PROVE Nat \subseteq T
<1> SUFFICES ASSUME Nat \ T # {} PROVE FALSE
  OBVIOUS
<1>0. IsWellFoundedOn(OpToRel(<, Nat), Nat)
  BY NatLessThanWellFounded
<1>1. PICK m \in Nat \ T : \A k \in Nat \ T : ~(<<k, m>> \in OpToRel(<, Nat))
  <2> DEFINE R == OpToRel(<, Nat)
  <2> HIDE DEF R
  <2>1. IsWellFoundedOn(R, Nat)
    BY <1>0 DEF R
  <2>2. \E m \in Nat \ T : \A k \in Nat \ T : ~(<<k, m>> \in R)
    BY <2>1, WFMin
  <2> QED BY <2>2 DEF R
<1>2. \A k \in Nat \ T : ~(k < m)
  BY <1>1 DEF OpToRel
<1>3. m # 0 /\ m-1 \in Nat
  OBVIOUS
<1>4. m-1 \in T
  BY <1>2, <1>3
<1> QED BY <1>4

\* f is what the loop of Keep(n, s, S) has pushed after each place.
Loop(f, n, s, S) == f = [k \in 0..n |-> IF k = 0 THEN <<>>
                            ELSE IF k \in S THEN Append(f[k - 1], s[k]) ELSE f[k - 1]]

\* The recursion that defines Keep has a solution ...
LEMMA LoopExists == ASSUME NEW s, NEW S, NEW n \in Nat PROVE \E f : Loop(f, n, s, S)
<1> DEFINE T == {m \in Nat : \E f : Loop(f, m, s, S)}
<1>1. 0 \in T
  <2> DEFINE f == [k \in 0..0 |-> <<>>]
  <2>1. Loop(f, 0, s, S)
    BY DEF Loop
  <2> QED BY <2>1, Zenon
<1>2. ASSUME NEW m \in T PROVE m + 1 \in T
  <2>1. PICK f : Loop(f, m, s, S)
    BY Zenon
  <2> DEFINE last == IF m + 1 \in S THEN Append(f[m], s[m + 1]) ELSE f[m]
             g == [k \in 0..(m + 1) |-> IF k = m + 1 THEN last ELSE f[k]]
  <2>2. m \in Nat /\ 0..(m+1) = (0..m) \cup {m+1}
    OBVIOUS
  <2>4. ASSUME NEW k \in 0..(m + 1)
        PROVE  g[k] = IF k = 0 THEN <<>>
                            ELSE IF k \in S THEN Append(g[k - 1], s[k]) ELSE g[k - 1]
    <3>1. CASE k = m + 1
      <4>1. g[k] = last /\ k # 0 /\ g[k - 1] = f[m] /\ k - 1 = m
        BY <2>2, <3>1
      <4> QED BY <4>1, <3>1
    <3>2. CASE k \in 0..m /\ k # 0
      <4>1. g[k] = f[k] /\ g[k - 1] = f[k - 1]
        BY <2>2, <3>2
      <4>2. f[k] = IF k = 0 THEN <<>>
                            ELSE IF k \in S THEN Append(f[k - 1], s[k]) ELSE f[k - 1]
        BY <2>1, <3>2 DEF Loop
      <4> HIDE DEF g
      <4> QED BY <4>1, <4>2, <3>2
    <3>3. CASE k = 0
      <4>1. g[k] = f[k] /\ f[k] = <<>>
        BY <2>1, <2>2, <3>3 DEF Loop
      <4> QED BY <4>1, <3>3
    <3> QED BY <3>1, <3>2, <3>3, <2>2
  <2>5. g = [k \in 0..(m + 1) |-> g[k]]
    OBVIOUS
  <2>6. Loop(g, m + 1, s, S)
    <3> HIDE DEF g
    <3> QED BY <2>4, <2>5 DEF Loop
  <2>7. m + 1 \in Nat
    OBVIOUS
  <2> HIDE DEF g
  <2> QED BY <2>6, <2>7, Zenon
<1>0. T \in SUBSET Nat
  OBVIOUS
<1> HIDE DEF T
<1>3. n \in T
  BY <1>0, <1>1, <1>2, NatInd
<1> QED BY <1>3, Zenon DEF T

\* ... and solutions for different lengths agree where both are defined.
LEMMA LoopUnique ==
  ASSUME NEW s, NEW S, NEW n \in Nat, NEW m \in Nat, n <= m, NEW f, NEW g,
         Loop(f, n, s, S), Loop(g, m, s, S)
  PROVE  \A k \in 0..n : f[k] = g[k]
<1> DEFINE T == {k \in Nat : k <= n => f[k] = g[k]}
<1>1. 0 \in T
  BY DEF Loop
<1>2. ASSUME NEW k \in T PROVE k + 1 \in T
  <2>1. CASE k + 1 <= n
    <3>1. f[k] = g[k] /\ k + 1 \in 0..n /\ k + 1 \in 0..m /\ k + 1 # 0 /\ (k + 1) - 1 = k
      BY <2>1
    <3>2. f[k + 1] = IF k + 1 \in S THEN Append(f[k], s[k + 1]) ELSE f[k]
      BY <3>1 DEF Loop
    <3>3. g[k + 1] = IF k + 1 \in S THEN Append(g[k], s[k + 1]) ELSE g[k]
      BY <3>1 DEF Loop
    <3> QED BY <3>1, <3>2, <3>3
  <2> QED BY <2>1
<1>0. T \in SUBSET Nat
  OBVIOUS
<1> HIDE DEF T
<1>3. Nat \subseteq T
  BY <1>0, <1>1, <1>2, NatInd
<1> QED BY <1>3 DEF T

\* What Keep returns is the last value of a solution.
LEMMA KeepIs ==
  ASSUME NEW s, NEW S, NEW n \in Nat PROVE \E f : Loop(f, n, s, S) /\ Keep(n, s, S) = f[n]
<1> DEFINE c == CHOOSE f : Loop(f, n, s, S)
<1>1. Loop(c, n, s, S)
  <2>1. \E f : Loop(f, n, s, S)
    BY LoopExists
  <2> QED BY <2>1, Zenon
<1>2. Keep(n, s, S) = c[n]
  BY DEF Keep, Loop
<1> QED BY <1>1, <1>2, Zenon

\* The two equations of the loop: nothing at first, and at each place the element
\* or nothing more.
LEMMA KeepSteps ==
  ASSUME NEW s, NEW S, NEW n \in Nat
  PROVE  /\ Keep(0, s, S) = <<>>
         /\ Keep(n + 1, s, S) = IF n + 1 \in S THEN Append(Keep(n, s, S), s[n + 1]) ELSE Keep(n, s, S)
<1>1. PICK z : Loop(z, 0, s, S) /\ Keep(0, s, S) = z[0]
  BY KeepIs
<1>2. PICK f : Loop(f, n, s, S) /\ Keep(n, s, S) = f[n]
  BY KeepIs
<1>3. n + 1 \in Nat /\ n <= n + 1 /\ n \in 0..n
  OBVIOUS
<1>4. PICK g : Loop(g, n + 1, s, S) /\ Keep(n + 1, s, S) = g[n + 1]
  BY KeepIs, <1>3
<1>5. f[n] = g[n]
  BY <1>2, <1>3, <1>4, LoopUnique
<1>6. z[0] = <<>>
  BY <1>1 DEF Loop
<1>7. g[n + 1] = IF n + 1 \in S THEN Append(g[n], s[n + 1]) ELSE g[n]
  <2>1. n + 1 \in 0..(n + 1) /\ n + 1 # 0 /\ (n + 1) - 1 = n
    OBVIOUS
  <2> QED BY <1>4, <2>1 DEF Loop
<1> QED BY <1>1, <1>2, <1>4, <1>5, <1>6, <1>7

\* A function on an initial segment of the naturals is a sequence of that length.
LEMMA FnIsSeq ==
  ASSUME NEW A, NEW n \in Nat, NEW f \in [1..n -> A]
  PROVE  f \in Seq(A) /\ Len(f) = n
OBVIOUS

\* The places a loop keeps, in the order it keeps them, and what it means to be
\* that list: all of them, nothing else, ascending.
Places(n, S) == Keep(n, [k \in Nat |-> k], S)

Lists(P, n, S) ==
    /\ P \in Seq(1..n)
    /\ \A k \in 1..Len(P) : P[k] \in S
    /\ \A x \in S \cap (1..n) : \E k \in 1..Len(P) : P[k] = x
    /\ \A j, k \in 1..Len(P) : j < k => P[j] < P[k]

\* The equations of Keep, for places.
LEMMA PlacesSteps ==
  ASSUME NEW S, NEW n \in Nat
  PROVE  /\ Places(0, S) = <<>>
         /\ Places(n + 1, S) = IF n + 1 \in S THEN Append(Places(n, S), n + 1) ELSE Places(n, S)
<1> DEFINE id == [k \in Nat |-> k]
<1>1. id[n + 1] = n + 1
  OBVIOUS
<1> HIDE DEF id
<1>2. /\ Keep(0, id, S) = <<>>
      /\ Keep(n + 1, id, S) = IF n + 1 \in S THEN Append(Keep(n, id, S), id[n + 1]) ELSE Keep(n, id, S)
  BY KeepSteps
<1> QED BY <1>1, <1>2 DEF Places, id

\* The list of one place more.
LEMMA ListsStep ==
  ASSUME NEW S, NEW n \in Nat, NEW P, Lists(P, n, S)
  PROVE  Lists(IF n + 1 \in S THEN Append(P, n + 1) ELSE P, n + 1, S)
<1>1. P \in Seq(1..(n + 1))
  BY DEF Lists
<1>2. CASE n + 1 \notin S
  BY <1>1, <1>2 DEF Lists
<1>3. CASE n + 1 \in S
  <2> DEFINE Q == Append(P, n + 1)
  <2>1. /\ Q \in Seq(1..(n + 1)) /\ Len(Q) = Len(P) + 1 /\ Len(P) \in Nat
        /\ Q[Len(P) + 1] = n + 1 /\ \A k \in 1..Len(P) : Q[k] = P[k]
    BY <1>1
  <2>2. \A k \in 1..Len(P) : P[k] \in 1..n /\ P[k] \in S
    BY DEF Lists
  <2> HIDE DEF Q
  <2>3. \A k \in 1..Len(Q) : Q[k] \in S
    BY <1>3, <2>1, <2>2
  <2>4. ASSUME NEW x \in S \cap (1..(n + 1)) PROVE \E k \in 1..Len(Q) : Q[k] = x
    <3>1. CASE x = n + 1
      BY <2>1, <3>1
    <3>2. CASE x \in 1..n
      <4>1. PICK k \in 1..Len(P) : P[k] = x
        BY <3>2 DEF Lists
      <4> QED BY <4>1, <2>1
    <3> QED BY <3>1, <3>2
  <2>5. ASSUME NEW j \in 1..Len(Q), NEW k \in 1..Len(Q), j < k PROVE Q[j] < Q[k]
    <3>1. j \in 1..Len(P)
      BY <2>1, <2>5
    <3>2. CASE k = Len(P) + 1
      BY <2>1, <2>2, <3>1, <3>2
    <3>3. CASE k \in 1..Len(P)
      BY <2>1, <3>1, <3>3, <2>5 DEF Lists
    <3> QED BY <2>1, <3>2, <3>3
  <2> QED BY <1>3, <2>1, <2>3, <2>4, <2>5 DEF Lists, Q
<1> QED BY <1>2, <1>3

\* What the loop collects is the ascending list of the places of S.
LEMMA PlacesList == ASSUME NEW S, NEW n \in Nat PROVE Lists(Places(n, S), n, S)
<1> DEFINE T == {m \in Nat : Lists(Places(m, S), m, S)}
<1>1. 0 \in T
  <2>1. Lists(<<>>, 0, S)
    BY DEF Lists
  <2> QED BY <2>1, PlacesSteps
<1>2. ASSUME NEW m \in T PROVE m + 1 \in T
  BY ListsStep, PlacesSteps
<1>3. T \in SUBSET Nat
  OBVIOUS
<1> HIDE DEF T
<1>4. n \in T
  BY <1>1, <1>2, <1>3, NatInd
<1> QED BY <1>4 DEF T

\* The elements of s at the places of P.
Taken(s, P) == [k \in 1..Len(P) |-> s[P[k]]]

\* Keep takes the elements at its places: a loop with a condition is a choice of
\* indices, whatever the elements are.
LEMMA KeepAt == ASSUME NEW s, NEW S, NEW n \in Nat PROVE Keep(n, s, S) = Taken(s, Places(n, S))
<1> DEFINE T == {m \in Nat : Keep(m, s, S) = Taken(s, Places(m, S))}
<1>1. 0 \in T
  <2>1. Keep(0, s, S) = <<>> /\ Places(0, S) = <<>>
    BY KeepSteps, PlacesSteps
  <2>2. Taken(s, <<>>) = <<>>
    BY DEF Taken
  <2> QED BY <2>1, <2>2
<1>2. ASSUME NEW m \in T PROVE m + 1 \in T
  <2>0. m \in Nat /\ m + 1 \in Nat
    OBVIOUS
  <2> DEFINE P == Places(m, S)
             Q == Places(m + 1, S)
  <2>1. Lists(P, m, S) /\ Keep(m, s, S) = Taken(s, P)
    BY PlacesList
  <2>2. CASE m + 1 \notin S
    <3>1. Q = P /\ Keep(m + 1, s, S) = Keep(m, s, S)
      BY <2>2, KeepSteps, PlacesSteps
    <3> QED BY <2>0, <2>1, <3>1
  <2>3. CASE m + 1 \in S
    <3>1. Q = Append(P, m + 1) /\ Keep(m + 1, s, S) = Append(Taken(s, P), s[m + 1])
      BY <2>1, <2>3, KeepSteps, PlacesSteps
    <3> HIDE DEF P, Q
    <3> DEFINE A == {s[k] : k \in 1..(m + 1)}
    <3>2. P \in Seq(1..m) /\ Len(P) \in Nat /\ P \in Seq(1..(m + 1)) /\ \A k \in 1..Len(P) : P[k] \in 1..m
      BY <2>1 DEF Lists
    <3>3. Taken(s, P) \in [1..Len(P) -> A]
      BY <3>2 DEF Taken
    <3>4. s[m + 1] \in A
      OBVIOUS
    <3> HIDE DEF A
    <3>5. Taken(s, P) \in Seq(A) /\ Len(Taken(s, P)) = Len(P)
      BY <3>2, <3>3, FnIsSeq
    <3>6. /\ Len(Q) = Len(P) + 1 /\ Q[Len(P) + 1] = m + 1
          /\ \A k \in 1..Len(P) : Q[k] = P[k]
      BY <3>1, <3>2
    <3> DEFINE a == Taken(s, P)
               b == Append(a, s[m + 1])
    <3>7. /\ DOMAIN b = 1..(Len(P) + 1) /\ b[Len(P) + 1] = s[m + 1]
          /\ \A k \in 1..Len(P) : b[k] = a[k]
          /\ b = [k \in 1..(Len(P) + 1) |-> b[k]]
      <4> HIDE DEF a
      <4> QED BY <3>4, <3>5 DEF a
    <3>8. \A k \in 1..Len(P) : a[k] = s[P[k]]
      BY DEF Taken
    <3> HIDE DEF a, b
    <3>9. \A k \in 1..(Len(P) + 1) : b[k] = s[Q[k]]
      <4> SUFFICES ASSUME NEW k \in 1..(Len(P) + 1) PROVE b[k] = s[Q[k]]
        OBVIOUS
      <4>1. CASE k = Len(P) + 1
        BY <3>6, <3>7, <4>1
      <4>2. CASE k \in 1..Len(P)
        BY <3>6, <3>7, <3>8, <4>2
      <4> QED BY <3>2, <4>1, <4>2
    <3>10. b = [k \in 1..(Len(P) + 1) |-> s[Q[k]]]
      BY <3>7, <3>9
    <3>11. Keep(m + 1, s, S) = Taken(s, Q)
      BY <3>1, <3>6, <3>10 DEF Taken, a, b
    <3> QED BY <3>11, <2>0 DEF Q
  <2> QED BY <2>2, <2>3
<1>3. T \in SUBSET Nat
  OBVIOUS
<1> HIDE DEF T
<1>4. n \in T
  BY <1>1, <1>2, <1>3, NatInd
<1> QED BY <1>4 DEF T

\* Two ascending lists of the same places do not part at their first difference ...
LEMMA SameEntry ==
  ASSUME NEW S, NEW n \in Nat, NEW P, NEW Q, Lists(P, n, S), Lists(Q, n, S),
         NEW k \in 1..Len(P), k <= Len(Q), \A j \in 1..(k - 1) : P[j] = Q[j]
  PROVE  ~(P[k] < Q[k])
<1> SUFFICES ASSUME P[k] < Q[k] PROVE FALSE
  OBVIOUS
<1>1. /\ P \in Seq(1..n) /\ Q \in Seq(1..n) /\ Len(P) \in Nat /\ Len(Q) \in Nat
      /\ k \in 1..Len(Q) /\ P[k] \in S \cap (1..n)
  BY DEF Lists
<1>2. PICK i \in 1..Len(Q) : Q[i] = P[k]
  BY <1>1 DEF Lists
<1>3. i < k
  <2> SUFFICES ASSUME ~(i < k) PROVE FALSE
    OBVIOUS
  <2>1. i = k \/ k < i
    BY <1>1
  <2>2. Q[k] <= Q[i]
    BY <1>1, <2>1 DEF Lists
  <2> QED BY <1>1, <1>2, <2>2
<1>4. P[i] = P[k] /\ i \in 1..Len(P)
  BY <1>1, <1>2, <1>3
<1>5. P[i] < P[k]
  BY <1>3, <1>4 DEF Lists
<1> QED BY <1>1, <1>4, <1>5

\* ... nor in their lengths ...
LEMMA ListsLength ==
  ASSUME NEW S, NEW n \in Nat, NEW P, NEW Q, Lists(P, n, S), Lists(Q, n, S),
         \A j \in 1..Len(P) : j <= Len(Q) => P[j] = Q[j]
  PROVE  ~(Len(P) < Len(Q))
<1> SUFFICES ASSUME Len(P) < Len(Q) PROVE FALSE
  OBVIOUS
<1> DEFINE k == Len(P) + 1
<1>1. /\ P \in Seq(1..n) /\ Q \in Seq(1..n) /\ Len(P) \in Nat /\ Len(Q) \in Nat
      /\ k \in 1..Len(Q) /\ Q[k] \in S \cap (1..n)
  BY DEF Lists
<1>2. PICK i \in 1..Len(P) : P[i] = Q[k]
  BY <1>1 DEF Lists
<1>3. Q[i] = Q[k] /\ i < k /\ i \in 1..Len(Q)
  BY <1>1, <1>2
<1>4. Q[i] < Q[k]
  BY <1>1, <1>3 DEF Lists
<1> QED BY <1>1, <1>3, <1>4

\* ... so there is only one.
LEMMA OnlyOneList ==
  ASSUME NEW S, NEW n \in Nat, NEW P, NEW Q, Lists(P, n, S), Lists(Q, n, S)
  PROVE  P = Q
<1> DEFINE T == {m \in Nat : \A j \in 1..m : j <= Len(P) /\ j <= Len(Q) => P[j] = Q[j]}
<1>0. /\ P \in Seq(1..n) /\ Q \in Seq(1..n) /\ Len(P) \in Nat /\ Len(Q) \in Nat
  BY DEF Lists
<1>1. 0 \in T
  OBVIOUS
<1>2. ASSUME NEW m \in T PROVE m + 1 \in T
  <2>1. CASE m + 1 <= Len(P) /\ m + 1 <= Len(Q)
    <3>1. m + 1 \in 1..Len(P) /\ m + 1 \in 1..Len(Q) /\ (m + 1) - 1 = m
      BY <1>0, <2>1
    <3>2. \A j \in 1..m : P[j] = Q[j]
      BY <1>0, <2>1
    <3>3. ~(P[m + 1] < Q[m + 1])
      BY <3>1, <3>2, <2>1, SameEntry
    <3>4. ~(Q[m + 1] < P[m + 1])
      BY <3>1, <3>2, <2>1, SameEntry
    <3>5. P[m + 1] = Q[m + 1]
      BY <1>0, <3>1, <3>3, <3>4
    <3> QED BY <3>2, <3>5
  <2>2. CASE ~(m + 1 <= Len(P) /\ m + 1 <= Len(Q))
    BY <1>0, <2>2
  <2> QED BY <2>1, <2>2
<1>3. T \in SUBSET Nat
  OBVIOUS
<1> HIDE DEF T
<1>4. Nat \subseteq T
  BY <1>1, <1>2, <1>3, NatInd
<1>5. \A j \in Nat \ {0} : j <= Len(P) /\ j <= Len(Q) => P[j] = Q[j]
  BY <1>4 DEF T
<1>6. ~(Len(P) < Len(Q)) /\ ~(Len(Q) < Len(P))
  <2>1. \A j \in 1..Len(P) : j <= Len(Q) => P[j] = Q[j]
    BY <1>0, <1>5
  <2>2. \A j \in 1..Len(Q) : j <= Len(P) => Q[j] = P[j]
    BY <1>0, <1>5
  <2> QED BY <2>1, <2>2, ListsLength
<1>7. Len(P) = Len(Q) /\ \A j \in 1..Len(P) : P[j] = Q[j]
  BY <1>0, <1>5, <1>6
<1> QED BY <1>0, <1>7, SeqEqual

\* A list found in another way is the one the loop collects.
LEMMA PlacesAre ==
  ASSUME NEW S, NEW n \in Nat, NEW P, Lists(P, n, S) PROVE Places(n, S) = P
BY PlacesList, OnlyOneList

\* When every place is kept ...
LEMMA PlacesOfAll ==
  ASSUME NEW n \in Nat, NEW S, 1..n \subseteq S PROVE Places(n, S) = [k \in 1..n |-> k]
<1> DEFINE P == [k \in 1..n |-> k]
<1>1. P \in [1..n -> 1..n]
  OBVIOUS
<1>2. \A k \in 1..n : P[k] = k
  OBVIOUS
<1> HIDE DEF P
<1>3. P \in Seq(1..n) /\ Len(P) = n
  BY <1>1, FnIsSeq
<1>4. Lists(P, n, S)
  BY <1>2, <1>3 DEF Lists
<1>5. Places(n, S) = P
  BY <1>4, PlacesAre
<1> QED BY <1>5 DEF P

\* ... and when all but the first are.
LEMMA PlacesBehindFirst ==
  ASSUME NEW n \in Nat, NEW S, S \cap (1..(n + 1)) = 2..(n + 1)
  PROVE  Places(n + 1, S) = [k \in 1..n |-> k + 1]
<1> DEFINE P == [k \in 1..n |-> k + 1]
<1>1. P \in [1..n -> 1..(n + 1)]
  OBVIOUS
<1>2. \A k \in 1..n : P[k] = k + 1
  OBVIOUS
<1> HIDE DEF P
<1>3. P \in Seq(1..(n + 1)) /\ Len(P) = n
  BY <1>1, FnIsSeq
<1>4. \A k \in 1..n : k + 1 \in S
  OBVIOUS
<1>5. \A x \in S \cap (1..(n + 1)) : \E k \in 1..n : P[k] = x
  <2> SUFFICES ASSUME NEW x \in 2..(n + 1) PROVE \E k \in 1..n : P[k] = x
    OBVIOUS
  <2>1. x - 1 \in 1..n /\ (x - 1) + 1 = x
    OBVIOUS
  <2> QED BY <1>2, <2>1
<1>6. Lists(P, n + 1, S)
  BY <1>2, <1>3, <1>4, <1>5 DEF Lists
<1>7. Places(n + 1, S) = P
  BY <1>6, PlacesAre
<1> QED BY <1>7 DEF P

\* A longer loop begins with what a shorter one collects.
LEMMA PlacesGrow ==
  ASSUME NEW S, NEW n \in Nat, NEW m \in Nat, n <= m
  PROVE  /\ Len(Places(n, S)) <= Len(Places(m, S))
         /\ \A k \in 1..Len(Places(n, S)) : Places(m, S)[k] = Places(n, S)[k]
<1> DEFINE N == Places(n, S)
           G(M) == Len(N) <= Len(M) /\ \A k \in 1..Len(N) : M[k] = N[k]
           T == {d \in Nat : G(Places(n + d, S))}
<1>1. \A d \in Nat : Places(n + d, S) \in Seq(1..(n + d))
  <2> SUFFICES ASSUME NEW d \in Nat PROVE Places(n + d, S) \in Seq(1..(n + d))
    OBVIOUS
  <2>1. n + d \in Nat
    OBVIOUS
  <2> QED BY <2>1, PlacesList DEF Lists
<1>2. N \in Seq(1..n)
  BY PlacesList DEF Lists
<1> HIDE DEF N
<1>3. 0 \in T
  <2>1. n + 0 = n
    OBVIOUS
  <2>2. G(N)
    BY <1>2
  <2> QED BY <2>1, <2>2 DEF N
<1>4. ASSUME NEW d \in T PROVE d + 1 \in T
  <2> DEFINE M == Places(n + d, S)
             L == Places(n + (d + 1), S)
  <2>1. d \in Nat /\ n + d \in Nat /\ n + (d + 1) = (n + d) + 1 /\ d + 1 \in Nat
    OBVIOUS
  <2>2. L = IF n + (d + 1) \in S THEN Append(M, n + (d + 1)) ELSE M
    BY <2>1, PlacesSteps
  <2>3. M \in Seq(1..(n + d)) /\ G(M)
    BY <1>1
  <2>4. M \in Seq(1..(n + (d + 1))) /\ n + (d + 1) \in 1..(n + (d + 1)) /\ n + (d + 1) \in Nat
    BY <2>3
  <2> HIDE DEF M, L
  <2>5. G(L)
    <3>1. CASE L = M
      BY <2>3, <3>1
    <3>2. CASE L = Append(M, n + (d + 1))
      <4>1. Len(L) = Len(M) + 1 /\ Len(M) \in Nat /\ \A k \in 1..Len(M) : L[k] = M[k]
        BY <2>4, <3>2
      <4> QED BY <1>2, <2>3, <4>1
    <3> QED BY <2>2, <3>1, <3>2
  <2> QED BY <2>1, <2>5 DEF L
<1>5. T \in SUBSET Nat
  OBVIOUS
<1>6. m - n \in Nat /\ n + (m - n) = m
  OBVIOUS
<1> HIDE DEF T
<1>7. m - n \in T
  BY <1>3, <1>4, <1>5, <1>6, NatInd
<1>8. G(Places(m, S))
  BY <1>6, <1>7 DEF T
<1> QED BY <1>8 DEF N

-----------------------------------------------------------------------------
\* Joining lists.

\* The greatest of finitely many places.
LEMMA MaxOf ==
  ASSUME NEW n \in Nat, NEW I \in SUBSET (1..n), I # {}
  PROVE  Max(I) \in I /\ \A x \in I : x <= Max(I)
<1> DEFINE T == {m \in Nat : \A J \in SUBSET (1..m) : J # {} => \E x \in J : \A y \in J : x >= y}
<1>1. 0 \in T
  <2>1. \A J \in SUBSET (1..0) : J = {}
    OBVIOUS
  <2> QED BY <2>1
<1>2. ASSUME NEW m \in T PROVE m + 1 \in T
  <2> SUFFICES ASSUME NEW J \in SUBSET (1..(m + 1)), J # {}
               PROVE  \E x \in J : \A y \in J : x >= y
    OBVIOUS
  <2>1. CASE m + 1 \in J
    <3>1. \A y \in J : m + 1 >= y
      OBVIOUS
    <3> QED BY <2>1, <3>1
  <2>2. CASE m + 1 \notin J
    <3>1. J \in SUBSET (1..m)
      BY <2>2
    <3> QED BY <3>1
  <2> QED BY <2>1, <2>2
<1>3. T \in SUBSET Nat
  OBVIOUS
<1> HIDE DEF T
<1>4. n \in T
  BY <1>1, <1>2, <1>3, NatInd
<1>5. \E x \in I : \A y \in I : x >= y
  BY <1>4 DEF T
<1>6. Max(I) \in I /\ \A y \in I : Max(I) >= y
  BY <1>5 DEF Max
<1>7. I \subseteq Nat
  OBVIOUS
<1> QED BY <1>6, <1>7

\* f is what FlattenSeq has joined after each list.
Flattening(f, n, ss) == f = [i \in 1..n |-> IF i = 1 THEN ss[i] ELSE f[i - 1] \o ss[i]]

\* The recursion that defines FlattenSeq has a solution.
LEMMA FlatteningExists == ASSUME NEW ss, NEW n \in Nat PROVE \E f : Flattening(f, n, ss)
<1> DEFINE T == {m \in Nat : \E f : Flattening(f, m, ss)}
<1>1. 0 \in T
  <2> DEFINE f == [i \in 1..0 |-> <<>>]
  <2>1. Flattening(f, 0, ss)
    BY DEF Flattening
  <2> QED BY <2>1, Zenon
<1>2. ASSUME NEW m \in T PROVE m + 1 \in T
  <2>1. PICK f : Flattening(f, m, ss)
    BY Zenon
  <2> DEFINE last == IF m + 1 = 1 THEN ss[m + 1] ELSE f[m] \o ss[m + 1]
             g == [i \in 1..(m + 1) |-> IF i = m + 1 THEN last ELSE f[i]]
  <2>2. m \in Nat /\ 1..(m+1) = (1..m) \cup {m+1}
    OBVIOUS
  <2>3. ASSUME NEW i \in 1..(m + 1)
        PROVE  g[i] = IF i = 1 THEN ss[i] ELSE g[i - 1] \o ss[i]
    <3>1. CASE i = m + 1
      <4>1. g[i] = last /\ i - 1 = m
        BY <2>2, <3>1
      <4>2. i # 1 => g[i - 1] = f[m]
        BY <2>2, <3>1
      <4> QED BY <4>1, <4>2, <3>1
    <3>2. CASE i \in 1..m
      <4>1. g[i] = f[i] /\ (i # 1 => g[i - 1] = f[i - 1])
        BY <2>2, <3>2
      <4>2. f[i] = IF i = 1 THEN ss[i] ELSE f[i - 1] \o ss[i]
        BY <2>1, <3>2 DEF Flattening
      <4> HIDE DEF g
      <4> QED BY <4>1, <4>2
    <3> QED BY <3>1, <3>2, <2>2
  <2>4. g = [i \in 1..(m + 1) |-> g[i]]
    OBVIOUS
  <2>5. Flattening(g, m + 1, ss)
    <3> HIDE DEF g
    <3> QED BY <2>3, <2>4 DEF Flattening
  <2>6. m + 1 \in Nat
    OBVIOUS
  <2> HIDE DEF g
  <2> QED BY <2>5, <2>6, Zenon
<1>0. T \in SUBSET Nat
  OBVIOUS
<1> HIDE DEF T
<1>3. n \in T
  BY <1>0, <1>1, <1>2, NatInd
<1> QED BY <1>3, Zenon DEF T

\* What FlattenSeq returns is the last value of a solution.
LEMMA FlattenIs ==
  ASSUME NEW ss, Len(ss) \in Nat, Len(ss) # 0
  PROVE  \E f : Flattening(f, Len(ss), ss) /\ FlattenSeq(ss) = f[Len(ss)]
<1> DEFINE c == CHOOSE f : Flattening(f, Len(ss), ss)
<1>1. Flattening(c, Len(ss), ss)
  <2>1. \E f : Flattening(f, Len(ss), ss)
    BY FlatteningExists
  <2> QED BY <2>1, Zenon
<1>2. FlattenSeq(ss) = c[Len(ss)]
  BY DEF FlattenSeq, Flattening
<1> QED BY <1>1, <1>2, Zenon

\* Every two elements, in their order, are related; the elements of the first n lists.
Ordered(q, R) == \A j, k \in 1..Len(q) : j < k => <<q[j], q[k]>> \in R
Through(ss, n) == UNION {ToSet(ss[i]) : i \in 1..n}

\* A concatenation has the elements of both.
LEMMA ConcatElements ==
  ASSUME NEW A, NEW q \in Seq(A), NEW r \in Seq(A)
  PROVE  q \o r \in Seq(A) /\ ToSet(q \o r) = ToSet(q) \cup ToSet(r)
<1> DEFINE c == q \o r
<1>1. /\ c \in Seq(A) /\ Len(c) = Len(q) + Len(r) /\ Len(q) \in Nat /\ Len(r) \in Nat
      /\ \A i \in 1..(Len(q) + Len(r)) : c[i] = IF i <= Len(q) THEN q[i] ELSE r[i - Len(q)]
      /\ DOMAIN c = 1..Len(c) /\ DOMAIN q = 1..Len(q) /\ DOMAIN r = 1..Len(r)
  BY ConcatProperties
<1> HIDE DEF c
<1>2. \A i \in 1..Len(q) : i \in 1..Len(c) /\ c[i] = q[i]
  BY <1>1
<1>3. \A i \in 1..Len(r) : i + Len(q) \in 1..Len(c) /\ c[i + Len(q)] = r[i]
  BY <1>1
<1>4. \A i \in 1..Len(c) : i \in 1..Len(q) \/ (i - Len(q) \in 1..Len(r) /\ c[i] = r[i - Len(q)])
  BY <1>1
<1>5. ToSet(c) = ToSet(q) \cup ToSet(r)
  <2>1. ASSUME NEW i \in 1..Len(c) PROVE c[i] \in ToSet(q) \cup ToSet(r)
    BY <1>1, <1>2, <1>4 DEF ToSet
  <2>2. ASSUME NEW i \in 1..Len(q) PROVE q[i] \in ToSet(c)
    BY <1>1, <1>2 DEF ToSet
  <2>3. ASSUME NEW i \in 1..Len(r) PROVE r[i] \in ToSet(c)
    BY <1>1, <1>3 DEF ToSet
  <2> QED BY <1>1, <2>1, <2>2, <2>3 DEF ToSet
<1> QED BY <1>1, <1>5 DEF c

\* It is ordered when both are and the elements of the second stand behind
\* those of the first.
LEMMA ConcatOrdered ==
  ASSUME NEW A, NEW R, NEW q \in Seq(A), NEW r \in Seq(A), Ordered(q, R), Ordered(r, R),
         \A x \in ToSet(q), y \in ToSet(r) : <<x, y>> \in R
  PROVE  Ordered(q \o r, R)
<1> DEFINE c == q \o r
<1>1. /\ c \in Seq(A) /\ Len(c) = Len(q) + Len(r) /\ Len(q) \in Nat /\ Len(r) \in Nat
      /\ \A i \in 1..(Len(q) + Len(r)) : c[i] = IF i <= Len(q) THEN q[i] ELSE r[i - Len(q)]
      /\ DOMAIN c = 1..Len(c) /\ DOMAIN q = 1..Len(q) /\ DOMAIN r = 1..Len(r)
  BY ConcatProperties
<1> HIDE DEF c
<1>2. \A i \in 1..Len(q) : i \in 1..Len(c) /\ c[i] = q[i]
  BY <1>1
<1>3. \A i \in 1..Len(c) : i \in 1..Len(q) \/ i - Len(q) \in 1..Len(r)
  BY <1>1
<1>7. \A i \in 1..Len(c) : i - Len(q) \in 1..Len(r) => c[i] = r[i - Len(q)]
  BY <1>1
<1> SUFFICES ASSUME NEW j \in 1..Len(c), NEW k \in 1..Len(c), j < k PROVE <<c[j], c[k]>> \in R
  BY DEF Ordered, c
<1>4. CASE k \in 1..Len(q)
  <2>1. j \in 1..Len(q)
    BY <1>1, <1>4
  <2> QED BY <1>2, <1>4, <2>1 DEF Ordered
<1>5. CASE j \in 1..Len(q) /\ k - Len(q) \in 1..Len(r)
  <2>1. c[j] \in ToSet(q) /\ c[k] \in ToSet(r)
    BY <1>1, <1>2, <1>5, <1>7 DEF ToSet
  <2> QED BY <2>1
<1>6. CASE j - Len(q) \in 1..Len(r) /\ k - Len(q) \in 1..Len(r)
  <2>1. c[j] = r[j - Len(q)] /\ c[k] = r[k - Len(q)] /\ j - Len(q) < k - Len(q)
    BY <1>1, <1>6, <1>7
  <2> QED BY <1>6, <2>1 DEF Ordered
<1> QED BY <1>1, <1>3, <1>4, <1>5, <1>6

\* Joining lists keeps every element, adds none, and relates any two elements as
\* the lists, and any two lists, relate them.
LEMMA FlattenFacts ==
  ASSUME NEW A, NEW R, NEW ss \in Seq(Seq(A))
  PROVE  /\ FlattenSeq(ss) \in Seq(A)
         /\ ToSet(FlattenSeq(ss)) = Through(ss, Len(ss))
         /\ /\ \A i \in 1..Len(ss) : Ordered(ss[i], R)
            /\ \A i, j \in 1..Len(ss) : i < j =>
                  \A x \in ToSet(ss[i]), y \in ToSet(ss[j]) : <<x, y>> \in R
            => Ordered(FlattenSeq(ss), R)
<1> DEFINE H == /\ \A i \in 1..Len(ss) : Ordered(ss[i], R)
                /\ \A i, j \in 1..Len(ss) : i < j =>
                      \A x \in ToSet(ss[i]), y \in ToSet(ss[j]) : <<x, y>> \in R
           G(q, m) == q \in Seq(A) /\ ToSet(q) = Through(ss, m) /\ (H => Ordered(q, R))
<1>0. Len(ss) \in Nat
  OBVIOUS
<1>1. CASE Len(ss) = 0
  <2>1. ss = <<>> /\ FlattenSeq(ss) = <<>>
    BY <1>1 DEF FlattenSeq
  <2>2. <<>> \in Seq(A) /\ ToSet(<<>>) = {} /\ Ordered(<<>>, R)
    BY DEF ToSet, Ordered
  <2>3. Through(ss, Len(ss)) = {}
    BY <1>1 DEF Through
  <2> QED BY <2>1, <2>2, <2>3
<1>2. CASE Len(ss) # 0
  <2>1. PICK f : Flattening(f, Len(ss), ss) /\ FlattenSeq(ss) = f[Len(ss)]
    BY <1>0, <1>2, FlattenIs
  <2>2. ASSUME NEW i \in 1..Len(ss) PROVE ss[i] \in Seq(A) /\ (H => Ordered(ss[i], R))
    BY DEF H
  <2> DEFINE T == {m \in Nat : m \in 1..Len(ss) => G(f[m], m)}
  <2> HIDE DEF G, H
  <2>3. 0 \in T
    OBVIOUS
  <2>4. ASSUME NEW m \in T PROVE m + 1 \in T
    <3> SUFFICES ASSUME m + 1 \in 1..Len(ss) PROVE G(f[m + 1], m + 1)
      OBVIOUS
    <3>1. CASE m = 0
      <4>1. f[1] = ss[1] /\ m + 1 = 1
        BY <2>1, <3>1 DEF Flattening
      <4>2. Through(ss, 1) = ToSet(ss[1])
        BY DEF Through
      <4>3. ss[1] \in Seq(A) /\ (H => Ordered(ss[1], R))
        BY <2>2, <1>0, <1>2
      <4> QED BY <4>1, <4>2, <4>3 DEF G
    <3>2. CASE m # 0
      <4>1. m \in 1..Len(ss) /\ m + 1 # 1 /\ (m + 1) - 1 = m
        BY <3>2
      <4>2. f[m + 1] = f[m] \o ss[m + 1]
        BY <2>1, <4>1 DEF Flattening
      <4>3. G(f[m], m)
        BY <4>1
      <4>0. f[m] \in Seq(A) /\ ToSet(f[m]) = Through(ss, m) /\ (H => Ordered(f[m], R))
        BY <4>3 DEF G
      <4>4. Through(ss, m + 1) = Through(ss, m) \cup ToSet(ss[m + 1])
        <5>1. 1..(m + 1) = (1..m) \cup {m + 1}
          OBVIOUS
        <5> QED BY <5>1 DEF Through
      <4>5. ASSUME H, NEW x \in ToSet(f[m]), NEW y \in ToSet(ss[m + 1]) PROVE <<x, y>> \in R
        <5>1. PICK i \in 1..m : x \in ToSet(ss[i])
          BY <4>0 DEF Through
        <5>2. i \in 1..Len(ss) /\ i < m + 1
          OBVIOUS
        <5>3. m + 1 \in 1..Len(ss)
          OBVIOUS
        <5> QED BY <4>5, <5>1, <5>2, <5>3 DEF H
      <4>6. ss[m + 1] \in Seq(A) /\ (H => Ordered(ss[m + 1], R))
        BY <2>2
      <4>7. /\ f[m] \o ss[m + 1] \in Seq(A)
            /\ ToSet(f[m] \o ss[m + 1]) = ToSet(f[m]) \cup ToSet(ss[m + 1])
        BY <4>0, <4>6, ConcatElements
      <4>8. ASSUME H PROVE Ordered(f[m] \o ss[m + 1], R)
        BY <4>0, <4>5, <4>6, <4>8, ConcatOrdered
      <4> QED BY <4>0, <4>2, <4>4, <4>7, <4>8 DEF G
    <3> QED BY <3>1, <3>2
  <2>5. T \in SUBSET Nat
    OBVIOUS
  <2> HIDE DEF T
  <2>6. Len(ss) \in T
    BY <1>0, <2>3, <2>4, <2>5, NatInd
  <2>7. G(f[Len(ss)], Len(ss))
    <3>1. Len(ss) \in 1..Len(ss)
      BY <1>0, <1>2
    <3> QED BY <2>6, <3>1 DEF T
  <2> QED BY <2>1, <2>7 DEF G, H
<1> QED BY <1>1, <1>2

-----------------------------------------------------------------------------
\* Texts and calls of one message.

\* What a text or a call is named by: the message and the block it stands at.
Id == Nat \X Nat

\* What is taken at the places of one message.
LEMMA TextFacts ==
  ASSUME NEW i \in Nat, NEW m, m.content \in Seq(Block)
  PROVE  LET P == Places(Len(m.content), BlocksOf(m, "text"))
         IN  /\ Lists(P, Len(m.content), BlocksOf(m, "text"))
             /\ TextOf(i, m) = [j \in 1..Len(P) |-> <<i, P[j]>>]
<1> DEFINE n == Len(m.content)
           B == BlocksOf(m, "text")
           P == Places(n, B)
           s == [k \in DOMAIN m.content |-> <<i, k>>]
<1>1. n \in Nat /\ DOMAIN m.content = 1..n
  OBVIOUS
<1>2. Lists(P, n, B)
  BY <1>1, PlacesList
<1>3. TextOf(i, m) = Taken(s, P)
  <2> HIDE DEF s, n, B
  <2>1. TextOf(i, m) = Keep(n, s, B)
    BY DEF TextOf, s, n, B
  <2> QED BY <1>1, <2>1, KeepAt
<1>4. \A j \in 1..Len(P) : P[j] \in 1..n
  BY <1>2 DEF Lists
<1> HIDE DEF P
<1>5. Taken(s, P) = [j \in 1..Len(P) |-> <<i, P[j]>>]
  BY <1>1, <1>4 DEF Taken
<1> QED BY <1>2, <1>3, <1>5 DEF P

\* The calls of a message are those of its toolCall blocks, in their order.
LEMMA CallFacts ==
  ASSUME NEW i \in Nat, NEW m, m.content \in Seq(Block)
  PROVE  LET P == Places(Len(m.content), BlocksOf(m, "toolCall"))
         IN  /\ Lists(P, Len(m.content), BlocksOf(m, "toolCall"))
             /\ CallsOf(i, m) = [j \in 1..Len(P) |-> [id |-> <<i, P[j]>>, name |-> m.content[P[j]].name]]
<1> DEFINE n == Len(m.content)
           B == BlocksOf(m, "toolCall")
           P == Places(n, B)
           s == [k \in DOMAIN m.content |-> [id |-> <<i, k>>, name |-> m.content[k].name]]
<1>1. n \in Nat /\ DOMAIN m.content = 1..n
  OBVIOUS
<1>2. Lists(P, n, B)
  BY <1>1, PlacesList
<1>3. CallsOf(i, m) = Taken(s, P)
  <2> HIDE DEF s, n, B
  <2>1. CallsOf(i, m) = Keep(n, s, B)
    BY DEF CallsOf, s, n, B
  <2> QED BY <1>1, <2>1, KeepAt
<1>4. \A j \in 1..Len(P) : P[j] \in 1..n
  BY <1>2 DEF Lists
<1> HIDE DEF P
<1>5. Taken(s, P) = [j \in 1..Len(P) |-> [id |-> <<i, P[j]>>, name |-> m.content[P[j]].name]]
  BY <1>1, <1>4 DEF Taken
<1> QED BY <1>2, <1>3, <1>5 DEF P

\* The texts of one message: where they come from, and their order.
LEMMA TextsOfMessage ==
  ASSUME NEW i \in Nat, NEW m, m.content \in Seq(Block)
  PROVE  /\ TextOf(i, m) \in Seq(Id)
         /\ ToSet(TextOf(i, m)) = {<<i, k>> : k \in BlocksOf(m, "text")}
<1> DEFINE n == Len(m.content)
           B == BlocksOf(m, "text")
           P == Places(n, B)
           q == TextOf(i, m)
<1>1. Lists(P, n, B) /\ q = [j \in 1..Len(P) |-> <<i, P[j]>>]
  BY TextFacts
<1>2. n \in Nat /\ B \subseteq 1..n
  BY DEF BlocksOf
<1> HIDE DEF P, B, n, q
<1>3. P \in Seq(1..n) /\ Len(P) \in Nat /\ \A j \in 1..Len(P) : P[j] \in Nat /\ P[j] \in B
  BY <1>1, <1>2 DEF Lists
<1>4. q \in [1..Len(P) -> Id]
  BY <1>1, <1>3 DEF Id
<1>5. q \in Seq(Id) /\ Len(q) = Len(P) /\ DOMAIN q = 1..Len(P)
  BY <1>3, <1>4, FnIsSeq
<1>6. ToSet(q) = {<<i, k>> : k \in B}
  <2>1. \A k \in B : \E j \in 1..Len(P) : P[j] = k
    BY <1>1, <1>2 DEF Lists
  <2>2. \A j \in 1..Len(P) : q[j] = <<i, P[j]>>
    BY <1>1
  <2>3. ASSUME NEW k \in B PROVE <<i, k>> \in ToSet(q)
    <3>1. PICK j \in 1..Len(P) : P[j] = k
      BY <2>1
    <3> QED BY <1>5, <2>2, <3>1 DEF ToSet
  <2>4. ASSUME NEW x \in ToSet(q) PROVE \E k \in B : x = <<i, k>>
    <3>1. PICK j \in 1..Len(P) : x = q[j]
      BY <1>5 DEF ToSet
    <3> QED BY <1>3, <2>2, <3>1
  <2> QED BY <2>3, <2>4
<1> QED BY <1>5, <1>6 DEF q, B

\* Calls as they travel.
CallIds == [id : Id, name : Tools]

\* Every toolCall block of a message is one of its calls, and nothing else is.
LEMMA CallsOfMessage ==
  ASSUME NEW i \in Nat, NEW m, m.content \in Seq(Block)
  PROVE  /\ CallsOf(i, m) \in Seq(CallIds)
         /\ {x.id : x \in ToSet(CallsOf(i, m))} = {<<i, k>> : k \in BlocksOf(m, "toolCall")}
<1> DEFINE n == Len(m.content)
           B == BlocksOf(m, "toolCall")
           P == Places(n, B)
           q == CallsOf(i, m)
<1>1. /\ Lists(P, n, B)
      /\ q = [j \in 1..Len(P) |-> [id |-> <<i, P[j]>>, name |-> m.content[P[j]].name]]
  BY CallFacts
<1>2. n \in Nat /\ B \subseteq 1..n
  BY DEF BlocksOf
<1>3. P \in Seq(1..n) /\ Len(P) \in Nat /\ \A j \in 1..Len(P) : P[j] \in Nat /\ P[j] \in B
  BY <1>1, <1>2 DEF Lists
<1>8. \A k \in B : m.content[k].name \in Tools
  <2> SUFFICES ASSUME NEW k \in B PROVE m.content[k].name \in Tools
    OBVIOUS
  <2>1. m.content[k] \in Block /\ m.content[k].type = "toolCall"
    BY DEF BlocksOf
  <2> QED BY <2>1 DEF Block
<1> HIDE DEF P, B, n, q
<1>9. \A j \in 1..Len(P) : q[j].id = <<i, P[j]>> /\ q[j] \in CallIds
  BY <1>1, <1>3, <1>8 DEF Id, CallIds
<1>4. q \in [1..Len(P) -> CallIds]
  BY <1>1, <1>9
<1>5. q \in Seq(CallIds) /\ Len(q) = Len(P) /\ DOMAIN q = 1..Len(P)
  BY <1>3, <1>4, FnIsSeq
<1>6. {x.id : x \in ToSet(q)} = {<<i, k>> : k \in B}
  <2>1. ASSUME NEW k \in B PROVE \E x \in ToSet(q) : x.id = <<i, k>>
    <3>1. PICK j \in 1..Len(P) : P[j] = k
      BY <1>1, <1>2 DEF Lists
    <3>2. q[j] \in ToSet(q) /\ q[j].id = <<i, k>>
      BY <1>5, <1>9, <3>1 DEF ToSet
    <3> QED BY <3>2
  <2>2. ASSUME NEW x \in ToSet(q) PROVE \E k \in B : x.id = <<i, k>>
    <3>1. PICK j \in 1..Len(P) : x = q[j]
      BY <1>5 DEF ToSet
    <3> QED BY <1>3, <1>9, <3>1
  <2> QED BY <2>1, <2>2
<1> QED BY <1>5, <1>6 DEF q, B

\* A message has no calls exactly when it has no toolCall block.
LEMMA NoCalls ==
  ASSUME NEW i \in Nat, NEW m, m.content \in Seq(Block)
  PROVE  CallsOf(i, m) = <<>> <=> BlocksOf(m, "toolCall") = {}
<1>1. CallsOf(i, m) \in Seq(CallIds)
  BY CallsOfMessage
<1>2. {x.id : x \in ToSet(CallsOf(i, m))} = {<<i, k>> : k \in BlocksOf(m, "toolCall")}
  BY CallsOfMessage
<1> DEFINE q == CallsOf(i, m)
<1> HIDE DEF q
<1>4. q = <<>> => ToSet(q) = {}
  BY DEF ToSet
<1>5. q # <<>> => q[1] \in ToSet(q)
  BY <1>1 DEF ToSet, q
<1> QED BY <1>2, <1>4, <1>5 DEF q

-----------------------------------------------------------------------------
\* Normalized messages and the hoisted request.

\* The messages of a conversation.
Msg == [role : {"user", "developer", "assistant"}, content : Seq(Block)]
          \cup [role : {"toolResult"}, content : Seq(Block), toolName : Tools]

\* What a normalized message keeps of its message.
LEMMA NormalizeFacts ==
  ASSUME NEW i \in Nat, NEW m \in Msg
  PROVE  LET N == NormalizeMessage(i, m)
         IN  /\ m.content \in Seq(Block)
             /\ N.content = TextOf(i, m)
             /\ IsSystem(N) <=> m.role = "developer"
             /\ IsUser(N) <=> m.role = "user"
             /\ N.role = "tool" <=> m.role = "toolResult"
             /\ HasCalls(N) <=> m.role = "assistant" /\ CallsOf(i, m) # <<>>
             /\ HasCalls(N) => N.toolCalls = CallsOf(i, m)
<1>1. m.content \in Seq(Block) /\ m.role \in {"user", "developer", "assistant", "toolResult"}
  BY DEF Msg
<1>2. CASE m.role = "user"
  <2>1. NormalizeMessage(i, m) = [role |-> "user", content |-> TextOf(i, m)]
    BY <1>2 DEF NormalizeMessage
  <2> QED BY <1>1, <1>2, <2>1 DEF IsSystem, IsUser, HasCalls
<1>3. CASE m.role = "developer"
  <2>1. NormalizeMessage(i, m) = [role |-> "system", content |-> TextOf(i, m)]
    BY <1>3 DEF NormalizeMessage
  <2> QED BY <1>1, <1>3, <2>1 DEF IsSystem, IsUser, HasCalls
<1>4. CASE m.role = "toolResult"
  <2>1. NormalizeMessage(i, m) = [role |-> "tool", content |-> TextOf(i, m), name |-> m.toolName]
    BY <1>4 DEF NormalizeMessage
  <2> QED BY <1>1, <1>4, <2>1 DEF IsSystem, IsUser, HasCalls
<1>5. CASE m.role = "assistant"
  <2>1. NormalizeMessage(i, m) = NormalizeAnswer(i, m)
    BY <1>5 DEF NormalizeMessage
  <2>2. CASE CallsOf(i, m) = <<>>
    <3>1. NormalizeMessage(i, m) = [role |-> "assistant", content |-> TextOf(i, m)]
      BY <2>1, <2>2 DEF NormalizeAnswer
    <3> QED BY <1>1, <1>5, <2>2, <3>1 DEF IsSystem, IsUser, HasCalls
  <2>3. CASE CallsOf(i, m) # <<>>
    <3>1. NormalizeMessage(i, m) =
             [role |-> "assistant", content |-> TextOf(i, m), toolCalls |-> CallsOf(i, m)]
      BY <2>1, <2>3 DEF NormalizeAnswer
    <3> QED BY <1>1, <1>5, <2>3, <3>1 DEF IsSystem, IsUser, HasCalls
  <2> QED BY <2>2, <2>3
<1> QED BY <1>1, <1>2, <1>3, <1>4, <1>5

\* The notes and the rest of a conversation.
Notes(c)  == {i \in DOMAIN c : c[i].role = "developer"}
Spoken(c) == {i \in DOMAIN c : c[i].role # "developer"}

\* The messages at the places of P, normalized; the first n messages, of which no
\* notes, as a request has them.
NormalAt(c, P) == [k \in 1..Len(P) |-> NormalizeMessage(P[k], c[P[k]])]
RestOf(c, n)   == NormalAt(c, Places(n, Spoken(c)))

\* hoistSystemMessages splits the normalized messages into notes and the rest.
LEMMA Filtered ==
  ASSUME context \in Seq(Msg)
  PROVE  /\ System(Normalized) = NormalAt(context, Places(Len(context), Notes(context)))
         /\ NonSystem(Normalized) = RestOf(context, Len(context))
<1> DEFINE n == Len(context)
<1>1. n \in Nat /\ DOMAIN context = 1..n /\ \A i \in 1..n : context[i] \in Msg
  OBVIOUS
<1>2. DOMAIN Normalized = 1..n /\ Normalized \in [1..n -> {Normalized[i] : i \in 1..n}]
  BY <1>1 DEF Normalized
<1>3. Len(Normalized) = n
  <2> DEFINE A == {Normalized[i] : i \in 1..n}
  <2>1. Normalized \in [1..n -> A]
    BY <1>2
  <2> HIDE DEF A, n
  <2> QED BY <1>1, <2>1, FnIsSeq
<1>4. \A i \in 1..n : Normalized[i] = NormalizeMessage(i, context[i])
  BY <1>1 DEF Normalized
<1>5. \A i \in 1..n : IsSystem(Normalized[i]) <=> context[i].role = "developer"
  <2> SUFFICES ASSUME NEW i \in 1..n
               PROVE  IsSystem(Normalized[i]) <=> context[i].role = "developer"
    OBVIOUS
  <2>1. i \in Nat /\ context[i] \in Msg
    BY <1>1
  <2>2. IsSystem(NormalizeMessage(i, context[i])) <=> context[i].role = "developer"
    BY <2>1, NormalizeFacts
  <2> QED BY <1>4, <2>2
<1>6. /\ {i \in DOMAIN Normalized : IsSystem(Normalized[i])} = Notes(context)
      /\ {i \in DOMAIN Normalized : ~IsSystem(Normalized[i])} = Spoken(context)
  BY <1>1, <1>2, <1>5 DEF Notes, Spoken
<1>7. /\ System(Normalized) = Taken(Normalized, Places(n, Notes(context)))
      /\ NonSystem(Normalized) = Taken(Normalized, Places(n, Spoken(context)))
  BY <1>1, <1>3, <1>6, KeepAt DEF System, NonSystem
<1>8. ASSUME NEW S PROVE Taken(Normalized, Places(n, S)) = NormalAt(context, Places(n, S))
  <2> DEFINE P == Places(n, S)
  <2>1. \A k \in 1..Len(P) : P[k] \in 1..n
    BY <1>1, PlacesList DEF Lists
  <2> HIDE DEF P
  <2>2. \A k \in 1..Len(P) : Normalized[P[k]] = NormalizeMessage(P[k], context[P[k]])
    BY <2>1, <1>4
  <2>3. Taken(Normalized, P) = NormalAt(context, P)
    BY <2>2 DEF Taken, NormalAt
  <2> QED BY <2>3 DEF P
<1> QED BY <1>7, <1>8 DEF RestOf

\* Where the request's messages come from: Heard, behind the one merged message of
\* the notes when there is any.
Heard == Places(Len(context), Spoken(context))
Noted == Places(Len(context), Notes(context))
Shift == IF Notes(context) = {} THEN 0 ELSE 1
Merged == [role |-> "system", content |-> Joined(NormalAt(context, Noted))]

\* Heard is the ascending list of all messages that are no notes ...
LEMMA HeardFacts ==
  ASSUME context \in Seq(Msg)
  PROVE  /\ Heard \in Seq(Nat) /\ Len(Heard) \in Nat
         /\ \A k \in 1..Len(Heard) : /\ Heard[k] \in DOMAIN context /\ Heard[k] \in Nat
                                     /\ context[Heard[k]] \in Msg
                                     /\ context[Heard[k]].role # "developer"
         /\ \A i \in DOMAIN context : context[i].role # "developer" =>
               \E k \in 1..Len(Heard) : Heard[k] = i
         /\ \A j, k \in 1..Len(Heard) : j < k => Heard[j] < Heard[k]
<1>1. Len(context) \in Nat /\ DOMAIN context = 1..Len(context)
  OBVIOUS
<1>2. Lists(Heard, Len(context), Spoken(context))
  BY <1>1, PlacesList DEF Heard
<1>3. Heard \in Seq(1..Len(context)) /\ \A k \in 1..Len(Heard) : Heard[k] \in Spoken(context)
  BY <1>2 DEF Lists
<1>4. \A i \in DOMAIN context : context[i] \in Msg
  OBVIOUS
<1>5. \A i \in DOMAIN context : context[i].role # "developer" => \E k \in 1..Len(Heard) : Heard[k] = i
  BY <1>1, <1>2 DEF Lists, Spoken
<1>6. \A j, k \in 1..Len(Heard) : j < k => Heard[j] < Heard[k]
  BY <1>2 DEF Lists
<1>7. Heard \in Seq(Nat) /\ Len(Heard) \in Nat
  BY <1>3
<1>8. \A k \in 1..Len(Heard) : Heard[k] \in DOMAIN context /\ context[Heard[k]].role # "developer"
  BY <1>3 DEF Spoken
<1>9. \A k \in 1..Len(Heard) : Heard[k] \in Nat /\ context[Heard[k]] \in Msg
  BY <1>1, <1>4, <1>8
<1> QED BY <1>5, <1>6, <1>7, <1>8, <1>9

\* ... and Noted that of the notes.
LEMMA NotedFacts ==
  ASSUME context \in Seq(Msg)
  PROVE  /\ Noted \in Seq(Nat) /\ Len(Noted) \in Nat
         /\ \A k \in 1..Len(Noted) : /\ Noted[k] \in DOMAIN context /\ Noted[k] \in Nat
                                     /\ context[Noted[k]] \in Msg
                                     /\ context[Noted[k]].role = "developer"
         /\ \A i \in DOMAIN context : context[i].role = "developer" =>
               \E k \in 1..Len(Noted) : Noted[k] = i
         /\ \A j, k \in 1..Len(Noted) : j < k => Noted[j] < Noted[k]
<1>1. Len(context) \in Nat /\ DOMAIN context = 1..Len(context)
  OBVIOUS
<1>2. Lists(Noted, Len(context), Notes(context))
  BY <1>1, PlacesList DEF Noted
<1>3. Noted \in Seq(1..Len(context)) /\ \A k \in 1..Len(Noted) : Noted[k] \in Notes(context)
  BY <1>2 DEF Lists
<1>4. \A i \in DOMAIN context : context[i] \in Msg
  OBVIOUS
<1>5. \A i \in DOMAIN context : context[i].role = "developer" => \E k \in 1..Len(Noted) : Noted[k] = i
  BY <1>1, <1>2 DEF Lists, Notes
<1>6. \A j, k \in 1..Len(Noted) : j < k => Noted[j] < Noted[k]
  BY <1>2 DEF Lists
<1>7. Noted \in Seq(Nat) /\ Len(Noted) \in Nat
  BY <1>3
<1>8. \A k \in 1..Len(Noted) : Noted[k] \in DOMAIN context /\ context[Noted[k]].role = "developer"
  BY <1>3 DEF Notes
<1>9. \A k \in 1..Len(Noted) : Noted[k] \in Nat /\ context[Noted[k]] \in Msg
  BY <1>1, <1>4, <1>8
<1> QED BY <1>5, <1>6, <1>7, <1>8, <1>9

\* A sequence of messages in a set of its own.
LEMMA NormalSeq ==
  ASSUME NEW c, NEW P \in Seq(Nat)
  PROVE  \E A : /\ NormalAt(c, P) \in Seq(A) /\ Len(NormalAt(c, P)) = Len(P)
                /\ DOMAIN NormalAt(c, P) = 1..Len(P)
<1> DEFINE A == {NormalizeMessage(P[k], c[P[k]]) : k \in 1..Len(P)}
<1>1. NormalAt(c, P) \in [1..Len(P) -> A]
  BY DEF NormalAt
<1>2. Len(P) \in Nat
  OBVIOUS
<1> HIDE DEF A
<1>3. NormalAt(c, P) \in Seq(A) /\ Len(NormalAt(c, P)) = Len(P)
  BY <1>1, <1>2, FnIsSeq
<1> QED BY <1>1, <1>3

\* hoistSystemMessages gives the merged note, when there is one, and the rest.
LEMMA HoistShape ==
  ASSUME context \in Seq(Msg)
  PROVE  LET H == HoistSystemMessages(Normalized)
         IN  /\ \E A : H \in Seq(A)
             /\ DOMAIN H = 1..(Len(Heard) + Shift) /\ Len(H) = Len(Heard) + Shift
             /\ Shift = 1 => H[1] = Merged
             /\ \A k \in 1..Len(Heard) :
                   H[k + Shift] = NormalizeMessage(Heard[k], context[Heard[k]])
<1> DEFINE n == Len(context)
           H == HoistSystemMessages(Normalized)
<1>1. n \in Nat /\ DOMAIN context = 1..n
  OBVIOUS
<1>2. System(Normalized) = NormalAt(context, Noted) /\ NonSystem(Normalized) = NormalAt(context, Heard)
  BY Filtered DEF RestOf, Heard, Noted
<1>3. Noted \in Seq(Nat) /\ Heard \in Seq(Nat) /\ Len(Heard) \in Nat
  BY NotedFacts, HeardFacts
<1>4. Len(System(Normalized)) = Len(Noted) /\ \E A : System(Normalized) \in Seq(A)
  BY <1>2, <1>3, NormalSeq
<1>5. CASE Notes(context) = {}
  <2>1. \A k \in 1..Len(Noted) : Noted[k] \in Notes(context)
    BY NotedFacts DEF Notes
  <2>2. Len(Noted) = 0
    BY <1>3, <1>5, <2>1
  <2>3. System(Normalized) = <<>>
    BY <1>4, <2>2
  <2>4. H = Normalized
    BY <2>3 DEF HoistSystemMessages
  <2>5. 1..n \subseteq Spoken(context)
    BY <1>1, <1>5 DEF Spoken, Notes
  <2>6. Heard = [k \in 1..n |-> k]
    BY <1>1, <2>5, PlacesOfAll DEF Heard
  <2>7. Len(Heard) = n /\ \A k \in 1..n : Heard[k] = k
    <3>1. \A k \in 1..n : Heard[k] = k
      BY <2>6
    <3>2. Heard \in [1..n -> Nat]
      BY <1>1, <2>6
    <3> HIDE DEF n
    <3>3. Len(Heard) = n
      BY <1>1, <3>2, FnIsSeq
    <3> QED BY <3>1, <3>3
  <2>8. Shift = 0
    BY <1>5 DEF Shift
  <2>9. DOMAIN H = 1..n /\ \A k \in 1..n : H[k] = NormalizeMessage(k, context[k])
    BY <1>1, <2>4 DEF Normalized
  <2>10. Len(H) = n /\ \E A : H \in Seq(A)
    <3> DEFINE A == {NormalizeMessage(i, context[i]) : i \in 1..n}
    <3>1. H \in [1..n -> A]
      BY <1>1, <2>4 DEF Normalized
    <3> HIDE DEF A, H, n
    <3>2. H \in Seq(A) /\ Len(H) = n
      BY <1>1, <3>1, FnIsSeq
    <3> QED BY <3>2
  <2> HIDE DEF H, n
  <2>11. \A k \in 1..Len(Heard) : k + Shift = k
    BY <2>8
  <2>12. Len(Heard) + Shift = Len(Heard)
    BY <1>3, <2>8
  <2> QED BY <2>7, <2>8, <2>9, <2>10, <2>11, <2>12 DEF H
<1>6. CASE Notes(context) # {}
  <2>1. Shift = 1
    BY <1>6 DEF Shift
  <2>2. Len(Noted) # 0
    BY <1>6, NotedFacts DEF Notes
  <2>3. System(Normalized) # <<>>
    BY <1>3, <1>4, <2>2
  <2>4. H = <<Merged>> \o NormalAt(context, Heard)
    BY <1>2, <2>3 DEF HoistSystemMessages, Merged
  <2> DEFINE r == NormalAt(context, Heard)
  <2>5. PICK A : r \in Seq(A) /\ Len(r) = Len(Heard) /\ DOMAIN r = 1..Len(Heard)
    BY <1>3, NormalSeq
  <2> DEFINE B == A \cup {Merged}
  <2>6. r \in Seq(B) /\ <<Merged>> \in Seq(B) /\ Len(<<Merged>>) = 1 /\ <<Merged>>[1] = Merged
    BY <2>5
  <2>7. \A k \in 1..Len(Heard) : r[k] = NormalizeMessage(Heard[k], context[Heard[k]])
    BY DEF NormalAt
  <2> HIDE DEF r, B, H
  <2>8. /\ H \in Seq(B) /\ Len(H) = 1 + Len(Heard)
        /\ \A i \in 1..(1 + Len(Heard)) : H[i] = IF i <= 1 THEN <<Merged>>[i] ELSE r[i - 1]
    BY <2>4, <2>5, <2>6, ConcatProperties DEF r
  <2>9. DOMAIN H = 1..(Len(Heard) + 1) /\ Len(H) = Len(Heard) + 1
    BY <1>3, <2>8
  <2>10. H[1] = Merged
    BY <1>3, <2>6, <2>8
  <2>11. ASSUME NEW k \in 1..Len(Heard)
         PROVE  H[k + 1] = NormalizeMessage(Heard[k], context[Heard[k]])
    <3>1. k + 1 \in 1..(1 + Len(Heard)) /\ ~(k + 1 <= 1) /\ (k + 1) - 1 = k
      BY <1>3
    <3> QED BY <2>7, <2>8, <3>1
  <2>12. \E D : H \in Seq(D)
    BY <2>8
  <2> QED BY <2>1, <2>9, <2>10, <2>11, <2>12 DEF H
<1> QED BY <1>5, <1>6

\* The messages behind the system message are what was said, one by one.
LEMMA HeardNormal ==
  ASSUME context \in Seq(Msg), NEW k \in 1..Len(Heard)
  PROVE  LET i == Heard[k]  N == NormalizeMessage(i, context[i])
         IN  /\ ~IsSystem(N) /\ N.content = TextOf(i, context[i])
             /\ IsUser(N) <=> context[i].role = "user"
             /\ N.role = "tool" <=> context[i].role = "toolResult"
             /\ HasCalls(N) <=> context[i].role = "assistant" /\ CallsOf(i, context[i]) # <<>>
             /\ HasCalls(N) => N.toolCalls = CallsOf(i, context[i])
<1>1. /\ Heard[k] \in Nat /\ context[Heard[k]] \in Msg /\ context[Heard[k]].role # "developer"
  BY HeardFacts
<1> DEFINE i == Heard[k]
<1> HIDE DEF i
<1>2. i \in Nat /\ context[i] \in Msg /\ context[i].role # "developer"
  BY <1>1 DEF i
<1>3. /\ ~IsSystem(NormalizeMessage(i, context[i]))
      /\ NormalizeMessage(i, context[i]).content = TextOf(i, context[i])
      /\ IsUser(NormalizeMessage(i, context[i])) <=> context[i].role = "user"
      /\ NormalizeMessage(i, context[i]).role = "tool" <=> context[i].role = "toolResult"
      /\ HasCalls(NormalizeMessage(i, context[i])) <=>
            context[i].role = "assistant" /\ CallsOf(i, context[i]) # <<>>
      /\ HasCalls(NormalizeMessage(i, context[i])) =>
            NormalizeMessage(i, context[i]).toolCalls = CallsOf(i, context[i])
  BY <1>2, NormalizeFacts
<1> QED BY <1>3 DEF i

\* The merged note is a system message and nothing else.
LEMMA MergedFacts == IsSystem(Merged) /\ ~HasCalls(Merged) /\ ~IsUser(Merged) /\ Merged.role # "tool"
BY DEF Merged, IsSystem, HasCalls, IsUser

\* What hoistSystemMessages promises, whichever its branch.
Shape(H) ==
    /\ \E A : H \in Seq(A)
    /\ DOMAIN H = 1..(Len(Heard) + Shift) /\ Len(H) = Len(Heard) + Shift
    /\ Shift = 1 => H[1] = Merged
    /\ \A k \in 1..Len(Heard) : H[k + Shift] = NormalizeMessage(Heard[k], context[Heard[k]])

\* It keeps that promise.
LEMMA HoistedShape == ASSUME context \in Seq(Msg) PROVE Shape(HoistSystemMessages(Normalized))
<1> DEFINE H == HoistSystemMessages(Normalized)
<1>1. /\ \E A : H \in Seq(A)
      /\ DOMAIN H = 1..(Len(Heard) + Shift) /\ Len(H) = Len(Heard) + Shift
      /\ Shift = 1 => H[1] = Merged
      /\ \A k \in 1..Len(Heard) : H[k + Shift] = NormalizeMessage(Heard[k], context[Heard[k]])
  BY HoistShape, Zenon
<1> QED BY <1>1, Zenon DEF Shape

\* Every message of the request is the merged note or one of the rest.
LEMMA ShapePlaces ==
  ASSUME context \in Seq(Msg), NEW H, Shape(H), NEW i \in DOMAIN H
  PROVE  (i = 1 /\ Shift = 1) \/ \E k \in 1..Len(Heard) : i = k + Shift
<1>1. Shift \in {0, 1} /\ Len(Heard) \in Nat
  BY HeardFacts DEF Shift
<1>2. i \in 1..(Len(Heard) + Shift)
  BY DEF Shape
<1>3. CASE i - Shift \in 1..Len(Heard)
  <2>1. i = (i - Shift) + Shift
    BY <1>1, <1>2
  <2> QED BY <1>3, <2>1
<1> QED BY <1>1, <1>2, <1>3

\* Without its system message a request is the rest of the conversation.
LEMMA RestIs ==
  ASSUME context \in Seq(Msg), NEW H, Shape(H)
  PROVE  NonSystem(H) = RestOf(context, Len(context))
<1> DEFINE S == {i \in DOMAIN H : ~IsSystem(H[i])}
           P == Places(Len(H), S)
<1>1. /\ Len(Heard) \in Nat /\ Shift \in {0, 1} /\ DOMAIN H = 1..(Len(Heard) + Shift)
      /\ Len(H) = Len(Heard) + Shift /\ Len(H) \in Nat
  BY HeardFacts DEF Shift, Shape
<1>2. \A k \in 1..Len(Heard) : k + Shift \in S
  <2> SUFFICES ASSUME NEW k \in 1..Len(Heard) PROVE k + Shift \in S
    OBVIOUS
  <2>1. ~IsSystem(NormalizeMessage(Heard[k], context[Heard[k]]))
    BY HeardNormal
  <2>2. k + Shift \in DOMAIN H
    BY <1>1
  <2> QED BY <2>1, <2>2 DEF Shape
<1>3. Shift = 1 => 1 \notin S
  BY MergedFacts DEF Shape
<1>4. NonSystem(H) = Taken(H, P)
  BY <1>1, KeepAt DEF NonSystem
<1>5. Len(P) = Len(Heard) /\ \A k \in 1..Len(Heard) : P[k] = k + Shift
  <2>1. CASE Shift = 0
    <3>1. \A k \in 1..Len(Heard) : k \in S
      BY <1>1, <1>2, <2>1
    <3>2. 1..Len(H) \subseteq S /\ Len(H) = Len(Heard)
      BY <1>1, <2>1, <3>1
    <3> HIDE DEF S
    <3>3. P = [k \in 1..Len(H) |-> k]
      BY <1>1, <3>2, PlacesOfAll
    <3>4. P \in [1..Len(H) -> Nat]
      BY <3>3
    <3> HIDE DEF P
    <3>5. Len(P) = Len(H)
      BY <1>1, <3>4, FnIsSeq
    <3> QED BY <1>1, <2>1, <3>2, <3>3, <3>5
  <2>2. CASE Shift = 1
    <3>1. \A k \in 1..Len(Heard) : k + 1 \in S
      BY <1>1, <1>2, <2>2
    <3>2. S \subseteq 1..(Len(Heard) + 1) /\ Len(H) = Len(Heard) + 1
      BY <1>1, <2>2
    <3> HIDE DEF S
    <3>3. S \cap (1..(Len(Heard) + 1)) = 2..(Len(Heard) + 1)
      <4>1. ASSUME NEW i \in 2..(Len(Heard) + 1) PROVE i \in S
        <5>1. i - 1 \in 1..Len(Heard) /\ (i - 1) + 1 = i
          BY <1>1
        <5> QED BY <3>1, <5>1
      <4>2. ASSUME NEW i \in S PROVE i \in 2..(Len(Heard) + 1)
        <5>1. i \in 1..(Len(Heard) + 1) /\ i # 1
          BY <1>3, <2>2, <3>2
        <5> QED BY <1>1, <5>1
      <4> QED BY <1>1, <4>1, <4>2
    <3>4. P = [k \in 1..Len(Heard) |-> k + 1]
      BY <1>1, <3>2, <3>3, PlacesBehindFirst
    <3>5. P \in [1..Len(Heard) -> Nat]
      BY <3>4
    <3> HIDE DEF P
    <3>6. Len(P) = Len(Heard)
      BY <1>1, <3>5, FnIsSeq
    <3> QED BY <1>1, <2>2, <3>4, <3>6
  <2> QED BY <1>1, <2>1, <2>2
<1> HIDE DEF P, S
<1>6. \A k \in 1..Len(Heard) : H[P[k]] = NormalizeMessage(Heard[k], context[Heard[k]])
  BY <1>5 DEF Shape
<1>7. Taken(H, P) = NormalAt(context, Heard)
  BY <1>5, <1>6 DEF Taken, NormalAt
<1> QED BY <1>4, <1>7 DEF RestOf, Heard

-----------------------------------------------------------------------------
\* Chat templates.

\* A tool result stands behind an answer that calls, with only notes and other
\* results between.
Called(c, i) == \E j \in DOMAIN c :
    /\ j < i /\ c[j].role = "assistant" /\ CallsOf(j, c[j]) # <<>>
    /\ \A l \in DOMAIN c : j < l /\ l < i => c[l].role \in {"developer", "toolResult"}

\* What a chat template finds at one place of a request.
LEMMA TemplateStep ==
  ASSUME context \in Seq(Msg), NEW H, Shape(H),
         \A i \in DOMAIN context : context[i].role = "toolResult" => Called(context, i),
         NEW k \in DOMAIN H
  PROVE  /\ IsSystem(H[k]) => k = 1
         /\ H[k].role = "tool" => k > 1 /\ (H[k - 1].role = "tool" \/ HasCalls(H[k - 1]))
<1>1. CASE k = 1 /\ Shift = 1
  BY <1>1, MergedFacts DEF Shape
<1>2. ASSUME NEW q \in 1..Len(Heard), k = q + Shift
      PROVE  /\ IsSystem(H[k]) => k = 1
             /\ H[k].role = "tool" => k > 1 /\ (H[k - 1].role = "tool" \/ HasCalls(H[k - 1]))
  <2> DEFINE i == Heard[q]
  <2>1. H[k] = NormalizeMessage(i, context[i])
    BY <1>2 DEF Shape
  <2>2. ~IsSystem(H[k]) /\ (H[k].role = "tool" <=> context[i].role = "toolResult")
    BY <2>1, HeardNormal
  <2>3. SUFFICES ASSUME context[i].role = "toolResult"
                 PROVE  k > 1 /\ (H[k - 1].role = "tool" \/ HasCalls(H[k - 1]))
    BY <2>2
  <2>4. i \in DOMAIN context /\ i \in Nat /\ Len(Heard) \in Nat /\ Shift \in {0, 1}
    BY HeardFacts DEF Shift
  <2>5. PICK j \in DOMAIN context :
            /\ j < i /\ context[j].role = "assistant" /\ CallsOf(j, context[j]) # <<>>
            /\ \A l \in DOMAIN context :
                  j < l /\ l < i => context[l].role \in {"developer", "toolResult"}
    BY <2>3, <2>4 DEF Called
  <2>6. PICK p \in 1..Len(Heard) : Heard[p] = j
    BY <2>5, HeardFacts
  <2>7. \A a, b \in 1..Len(Heard) : a < b => Heard[a] < Heard[b]
    BY HeardFacts
  <2>8. \A a \in 1..Len(Heard) : Heard[a] \in Nat /\ Heard[a] \in DOMAIN context
                                 /\ context[Heard[a]].role # "developer"
    BY HeardFacts
  <2>9. p < q
    <3> SUFFICES ASSUME ~(p < q) PROVE FALSE
      OBVIOUS
    <3>1. p = q \/ q < p
      BY <2>4
    <3>2. Heard[q] <= Heard[p]
      BY <2>7, <2>8, <3>1
    <3> QED BY <2>4, <2>5, <2>6, <2>8, <3>2
  <2>10. q - 1 \in 1..Len(Heard) /\ k - 1 = (q - 1) + Shift /\ k > 1 /\ p <= q - 1
    BY <1>2, <2>4, <2>9
  <2> DEFINE h == Heard[q - 1]
  <2>11. H[k - 1] = NormalizeMessage(h, context[h])
    BY <2>10 DEF Shape
  <2>12. h < i /\ h \in DOMAIN context /\ h \in Nat /\ context[h].role # "developer"
    BY <2>4, <2>7, <2>8, <2>10
  <2>13. CASE p = q - 1
    <3>1. h = j
      BY <2>6, <2>13
    <3>2. HasCalls(NormalizeMessage(h, context[h])) <=>
             context[h].role = "assistant" /\ CallsOf(h, context[h]) # <<>>
      BY <2>10, HeardNormal
    <3> QED BY <2>5, <2>10, <2>11, <3>1, <3>2
  <2>14. CASE p < q - 1
    <3>1. j < h
      BY <2>6, <2>7, <2>10, <2>14
    <3>2. context[h].role = "toolResult"
      BY <2>5, <2>12, <3>1
    <3>3. NormalizeMessage(h, context[h]).role = "tool" <=> context[h].role = "toolResult"
      BY <2>10, HeardNormal
    <3> QED BY <2>10, <2>11, <3>2, <3>3
  <2> QED BY <2>10, <2>13, <2>14
<1> QED BY <1>1, <1>2, ShapePlaces

\* Ids of two texts of the same kind are in order.
Placed == {e \in Id \X Id : (IsNote(e[1]) <=> IsNote(e[2])) => Earlier(e[1], e[2])}

\* How a pair of texts is seen to be in order.
LEMMA InPlacedIf ==
  ASSUME NEW x \in Id, NEW y \in Id, (IsNote(x) <=> IsNote(y)) => Earlier(x, y)
  PROVE  <<x, y>> \in Placed
<1> DEFINE e == <<x, y>>
<1>1. e \in Id \X Id /\ e[1] = x /\ e[2] = y
  OBVIOUS
<1> HIDE DEF e
<1> QED BY <1>1 DEF Placed

\* Texts of one message have its place and ascend.
LEMMA TextsAscend ==
  ASSUME NEW i \in Nat, NEW m, m.content \in Seq(Block),
         NEW j \in 1..Len(TextOf(i, m)), NEW k \in 1..Len(TextOf(i, m)), j < k
  PROVE  /\ TextOf(i, m)[j] \in Id /\ TextOf(i, m)[k] \in Id
         /\ TextOf(i, m)[j][1] = i /\ TextOf(i, m)[k][1] = i
         /\ TextOf(i, m)[j][2] < TextOf(i, m)[k][2]
<1> DEFINE P == Places(Len(m.content), BlocksOf(m, "text"))
<1>1. Lists(P, Len(m.content), BlocksOf(m, "text"))
  BY TextFacts
<1>2. TextOf(i, m) = [l \in 1..Len(P) |-> <<i, P[l]>>]
  BY TextFacts
<1> HIDE DEF P
<1>3. Len(P) \in Nat /\ P \in Seq(Nat) /\ P \in Seq(1..Len(m.content))
  BY <1>1 DEF Lists
<1>4. Len(TextOf(i, m)) = Len(P)
  <2>1. [l \in 1..Len(P) |-> <<i, P[l]>>] \in [1..Len(P) -> Id]
    BY <1>3 DEF Id
  <2> QED BY <1>2, <1>3, <2>1, FnIsSeq
<1>5. TextOf(i, m)[j] = <<i, P[j]>> /\ TextOf(i, m)[k] = <<i, P[k]>>
  BY <1>2, <1>4
<1>6. P[j] \in Nat /\ P[k] \in Nat /\ P[j] < P[k]
  BY <1>1, <1>3, <1>4 DEF Lists
<1> QED BY <1>5, <1>6 DEF Id

\* The texts of the messages at the places of P.
TextsAt(P) == [k \in 1..Len(P) |-> TextOf(P[k], context[P[k]])]

\* They are those of the messages' text blocks, and any two are in order.
LEMMA TextsOrdered ==
  ASSUME context \in Seq(Msg), NEW P \in Seq(Nat),
         \A k \in 1..Len(P) : P[k] \in DOMAIN context,
         \A j, k \in 1..Len(P) : j < k => P[j] < P[k]
  PROVE  /\ TextsAt(P) \in Seq(Seq(Id)) /\ Len(TextsAt(P)) = Len(P)
         /\ \A k \in 1..Len(P) :
               ToSet(TextsAt(P)[k]) = {<<P[k], b>> : b \in BlocksOf(context[P[k]], "text")}
         /\ \A k \in 1..Len(P) : Ordered(TextsAt(P)[k], Placed)
         /\ \A j, k \in 1..Len(P) : j < k =>
               \A x \in ToSet(TextsAt(P)[j]), y \in ToSet(TextsAt(P)[k]) : <<x, y>> \in Placed
<1>1. \A i \in DOMAIN context : i \in Nat /\ context[i] \in Msg /\ context[i].content \in Seq(Block)
  BY DEF Msg
<1>2. ASSUME NEW k \in 1..Len(P)
      PROVE  /\ TextsAt(P)[k] \in Seq(Id)
             /\ ToSet(TextsAt(P)[k]) = {<<P[k], b>> : b \in BlocksOf(context[P[k]], "text")}
             /\ Ordered(TextsAt(P)[k], Placed)
  <2> DEFINE i == P[k]
  <2>1. i \in Nat /\ context[i].content \in Seq(Block) /\ TextsAt(P)[k] = TextOf(i, context[i])
    BY <1>1 DEF TextsAt
  <2> HIDE DEF i
  <2>2. TextOf(i, context[i]) \in Seq(Id)
    BY <2>1, TextsOfMessage
  <2>3. ToSet(TextOf(i, context[i])) = {<<i, b>> : b \in BlocksOf(context[i], "text")}
    BY <2>1, TextsOfMessage
  <2>5. Ordered(TextOf(i, context[i]), Placed)
    <3> DEFINE t == TextOf(i, context[i])
    <3> SUFFICES ASSUME NEW a \in 1..Len(t), NEW b \in 1..Len(t), a < b
                 PROVE  <<t[a], t[b]>> \in Placed
      BY DEF Ordered
    <3>1. t[a] \in Id /\ t[b] \in Id /\ t[a][1] = i /\ t[b][1] = i /\ t[a][2] < t[b][2]
      BY <2>1, TextsAscend
    <3> HIDE DEF t
    <3>2. Earlier(t[a], t[b])
      BY <3>1 DEF Earlier
    <3> QED BY <3>1, <3>2, InPlacedIf
  <2> QED BY <2>1, <2>2, <2>3, <2>5 DEF i
<1>3. Len(P) \in Nat /\ TextsAt(P) \in [1..Len(P) -> Seq(Id)]
  BY <1>2 DEF TextsAt
<1>4. TextsAt(P) \in Seq(Seq(Id)) /\ Len(TextsAt(P)) = Len(P)
  BY <1>3, FnIsSeq
<1>5. ASSUME NEW j \in 1..Len(P), NEW k \in 1..Len(P), j < k,
             NEW x \in ToSet(TextsAt(P)[j]), NEW y \in ToSet(TextsAt(P)[k])
      PROVE  <<x, y>> \in Placed
  <2>1. PICK a \in BlocksOf(context[P[j]], "text") : x = <<P[j], a>>
    BY <1>2
  <2>2. PICK b \in BlocksOf(context[P[k]], "text") : y = <<P[k], b>>
    BY <1>2
  <2>3. P[j] \in Nat /\ P[k] \in Nat /\ P[j] < P[k]
    BY <1>1, <1>5
  <2>4. a \in Nat /\ b \in Nat
    BY <1>1 DEF BlocksOf
  <2>5. x \in Id /\ y \in Id
    BY <2>1, <2>2, <2>3, <2>4 DEF Id
  <2>6. Earlier(x, y)
    BY <2>1, <2>2, <2>3 DEF Earlier
  <2> QED BY <2>5, <2>6, InPlacedIf
<1> QED BY <1>2, <1>4, <1>5

-----------------------------------------------------------------------------
\* The texts of a request.

\* The merged note is the texts of the notes, joined in their order ...
LEMMA NoteTexts ==
  ASSUME context \in Seq(Msg)
  PROVE  /\ Merged.content = FlattenSeq(TextsAt(Noted))
         /\ Merged.content \in Seq(Id) /\ Ordered(Merged.content, Placed)
         /\ ToSet(Merged.content) = Through(TextsAt(Noted), Len(Noted))
<1> DEFINE ms == NormalAt(context, Noted)
<1>1. DOMAIN ms = 1..Len(Noted) /\ DOMAIN TextsAt(Noted) = 1..Len(Noted)
  BY DEF NormalAt, TextsAt
<1>2. \A k \in 1..Len(Noted) : ms[k].content = TextOf(Noted[k], context[Noted[k]])
  <2> SUFFICES ASSUME NEW k \in 1..Len(Noted)
               PROVE  ms[k].content = TextOf(Noted[k], context[Noted[k]])
    OBVIOUS
  <2>1. Noted[k] \in Nat /\ context[Noted[k]] \in Msg
    BY NotedFacts
  <2>2. ms[k] = NormalizeMessage(Noted[k], context[Noted[k]])
    BY DEF NormalAt
  <2> QED BY <2>1, <2>2, NormalizeFacts
<1>3. [k \in DOMAIN ms |-> ms[k].content] = TextsAt(Noted)
  BY <1>1, <1>2 DEF TextsAt
<1>4. Merged.content = FlattenSeq(TextsAt(Noted))
  BY <1>3 DEF Merged, Joined
<1>5. /\ Noted \in Seq(Nat)
      /\ \A k \in 1..Len(Noted) : Noted[k] \in DOMAIN context
      /\ \A j, k \in 1..Len(Noted) : j < k => Noted[j] < Noted[k]
  BY NotedFacts
<1>6. /\ TextsAt(Noted) \in Seq(Seq(Id)) /\ Len(TextsAt(Noted)) = Len(Noted)
      /\ \A k \in 1..Len(Noted) : Ordered(TextsAt(Noted)[k], Placed)
      /\ \A j, k \in 1..Len(Noted) : j < k =>
            \A x \in ToSet(TextsAt(Noted)[j]), y \in ToSet(TextsAt(Noted)[k]) : <<x, y>> \in Placed
  BY <1>5, TextsOrdered
<1>7. FlattenSeq(TextsAt(Noted)) \in Seq(Id)
  BY <1>6, FlattenFacts
<1>8. ToSet(FlattenSeq(TextsAt(Noted))) = Through(TextsAt(Noted), Len(Noted))
  BY <1>6, FlattenFacts
<1>9. Ordered(FlattenSeq(TextsAt(Noted)), Placed)
  BY <1>6, FlattenFacts
<1> QED BY <1>4, <1>7, <1>8, <1>9

\* ... so that its texts are those of the notes' text blocks ...
LEMMA NoteText ==
  ASSUME context \in Seq(Msg), NEW x
  PROVE  x \in ToSet(Merged.content) <=>
            \E i \in DOMAIN context, b \in Nat :
               /\ context[i].role = "developer"
               /\ b \in BlocksOf(context[i], "text") /\ x = <<i, b>>
<1>1. /\ Noted \in Seq(Nat)
      /\ \A k \in 1..Len(Noted) : Noted[k] \in DOMAIN context /\ context[Noted[k]].role = "developer"
      /\ \A j, k \in 1..Len(Noted) : j < k => Noted[j] < Noted[k]
      /\ \A i \in DOMAIN context : context[i].role = "developer" =>
               \E k \in 1..Len(Noted) : Noted[k] = i
  BY NotedFacts
<1>2. \A k \in 1..Len(Noted) :
         ToSet(TextsAt(Noted)[k]) = {<<Noted[k], b>> : b \in BlocksOf(context[Noted[k]], "text")}
  BY <1>1, TextsOrdered
<1>3. \A i \in DOMAIN context : BlocksOf(context[i], "text") \subseteq Nat
  BY DEF Msg, BlocksOf
<1>4. x \in ToSet(Merged.content) <=> \E k \in 1..Len(Noted) : x \in ToSet(TextsAt(Noted)[k])
  BY NoteTexts, Zenon DEF Through
<1>5. ASSUME NEW k \in 1..Len(Noted), x \in ToSet(TextsAt(Noted)[k])
      PROVE  \E i \in DOMAIN context, b \in Nat :
               /\ context[i].role = "developer"
               /\ b \in BlocksOf(context[i], "text") /\ x = <<i, b>>
  <2>1. PICK b \in BlocksOf(context[Noted[k]], "text") : x = <<Noted[k], b>>
    BY <1>2, <1>5
  <2> QED BY <1>1, <1>3, <2>1
<1>6. ASSUME NEW i \in DOMAIN context, NEW b \in Nat, context[i].role = "developer",
             b \in BlocksOf(context[i], "text"), x = <<i, b>>
      PROVE  \E k \in 1..Len(Noted) : x \in ToSet(TextsAt(Noted)[k])
  BY <1>1, <1>2, <1>6
<1> QED BY <1>4, <1>5, <1>6

\* ... and the other messages have the texts of the rest.
LEMMA HeardText ==
  ASSUME context \in Seq(Msg), NEW x
  PROVE  (\E k \in 1..Len(Heard) : x \in ToSet(TextsAt(Heard)[k])) <=>
            \E i \in DOMAIN context, b \in Nat :
               /\ context[i].role # "developer"
               /\ b \in BlocksOf(context[i], "text") /\ x = <<i, b>>
<1>1. /\ Heard \in Seq(Nat)
      /\ \A k \in 1..Len(Heard) : Heard[k] \in DOMAIN context /\ context[Heard[k]].role # "developer"
      /\ \A j, k \in 1..Len(Heard) : j < k => Heard[j] < Heard[k]
      /\ \A i \in DOMAIN context : context[i].role # "developer" =>
               \E k \in 1..Len(Heard) : Heard[k] = i
  BY HeardFacts
<1>2. \A k \in 1..Len(Heard) :
         ToSet(TextsAt(Heard)[k]) = {<<Heard[k], b>> : b \in BlocksOf(context[Heard[k]], "text")}
  BY <1>1, TextsOrdered
<1>3. \A i \in DOMAIN context : BlocksOf(context[i], "text") \subseteq Nat
  BY DEF Msg, BlocksOf
<1>5. ASSUME NEW k \in 1..Len(Heard), x \in ToSet(TextsAt(Heard)[k])
      PROVE  \E i \in DOMAIN context, b \in Nat :
               /\ context[i].role # "developer"
               /\ b \in BlocksOf(context[i], "text") /\ x = <<i, b>>
  <2>1. PICK b \in BlocksOf(context[Heard[k]], "text") : x = <<Heard[k], b>>
    BY <1>2, <1>5
  <2> QED BY <1>1, <1>3, <2>1
<1>6. ASSUME NEW i \in DOMAIN context, NEW b \in Nat, context[i].role # "developer",
             b \in BlocksOf(context[i], "text"), x = <<i, b>>
      PROVE  \E k \in 1..Len(Heard) : x \in ToSet(TextsAt(Heard)[k])
  BY <1>1, <1>2, <1>6
<1> QED BY <1>5, <1>6

\* The contents of a hoisted request, one by one.
LEMMA Contents ==
  ASSUME context \in Seq(Msg), NEW H, Shape(H)
  PROVE  LET cs == [k \in DOMAIN H |-> H[k].content]
         IN  /\ Shift = 1 => cs[1] = Merged.content
             /\ \A k \in 1..Len(Heard) : cs[k + Shift] = TextsAt(Heard)[k]
             /\ cs \in Seq(Seq(Id)) /\ Len(cs) = Len(Heard) + Shift
<1> DEFINE cs == [k \in DOMAIN H |-> H[k].content]
           n  == Len(Heard) + Shift
<1>1. Len(Heard) \in Nat /\ Shift \in {0, 1} /\ DOMAIN H = 1..n
  BY HeardFacts DEF Shift, Shape
<1>2. Shift = 1 => 1 \in DOMAIN H /\ cs[1] = Merged.content
  BY <1>1 DEF Shape
<1>3. ASSUME NEW k \in 1..Len(Heard)
      PROVE  k + Shift \in DOMAIN H /\ cs[k + Shift] = TextsAt(Heard)[k]
             /\ TextsAt(Heard)[k] \in Seq(Id)
  <2>1. k + Shift \in DOMAIN H /\ H[k + Shift] = NormalizeMessage(Heard[k], context[Heard[k]])
    BY <1>1 DEF Shape
  <2>2. cs[k + Shift] = TextOf(Heard[k], context[Heard[k]])
    BY <2>1, HeardNormal
  <2>3. Heard[k] \in Nat /\ context[Heard[k]].content \in Seq(Block)
    BY HeardFacts DEF Msg
  <2> QED BY <2>1, <2>2, <2>3, TextsOfMessage DEF TextsAt
<1>4. Merged.content \in Seq(Id)
  BY NoteTexts
<1>5. \A k \in 1..n : cs[k] \in Seq(Id)
  <2> SUFFICES ASSUME NEW k \in 1..n PROVE cs[k] \in Seq(Id)
    OBVIOUS
  <2>1. (k = 1 /\ Shift = 1) \/ \E j \in 1..Len(Heard) : k = j + Shift
    BY <1>1, ShapePlaces
  <2> QED BY <1>2, <1>3, <1>4, <2>1
<1>6. cs \in [1..n -> Seq(Id)] /\ n \in Nat
  BY <1>1, <1>5
<1> HIDE DEF cs, n
<1>7. cs \in Seq(Seq(Id)) /\ Len(cs) = n
  BY <1>6, FnIsSeq
<1> QED BY <1>2, <1>3, <1>7 DEF cs, n

\* AllBlocks, block by block.
LEMMA AllTexts ==
  ASSUME context \in Seq(Msg), NEW x
  PROVE  x \in AllBlocks("text") <=>
            \E i \in DOMAIN context, b \in Nat : b \in BlocksOf(context[i], "text") /\ x = <<i, b>>
<1>1. \A i \in DOMAIN context : BlocksOf(context[i], "text") \subseteq Nat
  BY DEF Msg, BlocksOf
<1>2. x \in AllBlocks("text") <=>
         \E i \in DOMAIN context : \E b \in BlocksOf(context[i], "text") : x = <<i, b>>
  BY DEF AllBlocks
<1> QED BY <1>1, <1>2

\* A request has every text of the conversation, and the notes' and the others' in
\* their order.
LEMMA TextsOfRequest ==
  ASSUME context \in Seq(Msg), NEW H, Shape(H)
  PROVE  LET ts == FlattenSeq([k \in DOMAIN H |-> H[k].content])
         IN  ts \in Seq(Id) /\ ToSet(ts) = AllBlocks("text") /\ InOrder(ts)
<1> DEFINE cs == [k \in DOMAIN H |-> H[k].content]
           n  == Len(Heard) + Shift
           ts == FlattenSeq(cs)
<1>1. Len(Heard) \in Nat /\ Shift \in {0, 1} /\ n \in Nat
  BY HeardFacts DEF Shift
<1>2. /\ Shift = 1 => cs[1] = Merged.content
      /\ \A k \in 1..Len(Heard) : cs[k + Shift] = TextsAt(Heard)[k]
      /\ cs \in Seq(Seq(Id)) /\ Len(cs) = n
  BY Contents
<1>3. \A k \in 1..n : (k = 1 /\ Shift = 1) \/ \E j \in 1..Len(Heard) : k = j + Shift
  BY ShapePlaces DEF Shape
<1> HIDE DEF cs
<1>4. /\ Heard \in Seq(Nat)
      /\ \A k \in 1..Len(Heard) : Heard[k] \in DOMAIN context /\ context[Heard[k]].role # "developer"
      /\ \A j, k \in 1..Len(Heard) : j < k => Heard[j] < Heard[k]
  BY HeardFacts
<1>5. /\ \A k \in 1..Len(Heard) : Ordered(TextsAt(Heard)[k], Placed)
      /\ \A j, k \in 1..Len(Heard) : j < k =>
            \A x \in ToSet(TextsAt(Heard)[j]), y \in ToSet(TextsAt(Heard)[k]) : <<x, y>> \in Placed
  BY <1>4, TextsOrdered
<1>6. ASSUME NEW k \in 1..n PROVE Ordered(cs[k], Placed)
  BY <1>2, <1>3, <1>5, NoteTexts
<1>7. ASSUME NEW j \in 1..n, NEW k \in 1..n, j < k, NEW x \in ToSet(cs[j]), NEW y \in ToSet(cs[k])
      PROVE  <<x, y>> \in Placed
  <2>1. PICK b \in 1..Len(Heard) : k = b + Shift
    BY <1>1, <1>3, <1>7
  <2>2. CASE j = 1 /\ Shift = 1
    <3>1. x \in ToSet(Merged.content) /\ y \in ToSet(TextsAt(Heard)[b])
      BY <1>2, <2>1, <2>2
    <3>2. PICK i \in DOMAIN context, u \in Nat : context[i].role = "developer" /\ x = <<i, u>>
      BY <3>1, NoteText
    <3>3. PICK h \in DOMAIN context, v \in Nat : context[h].role # "developer" /\ y = <<h, v>>
      BY <3>1, HeardText
    <3>4. x \in Id /\ y \in Id /\ IsNote(x) /\ ~IsNote(y)
      BY <3>2, <3>3 DEF Id, IsNote
    <3> QED BY <3>4, InPlacedIf
  <2>3. CASE ~(j = 1 /\ Shift = 1)
    <3>1. PICK a \in 1..Len(Heard) : j = a + Shift
      BY <1>3, <2>3
    <3>2. a < b
      BY <1>1, <1>7, <2>1, <3>1
    <3> QED BY <1>2, <1>5, <1>7, <2>1, <3>1, <3>2
  <2> QED BY <2>2, <2>3
<1>8. ts \in Seq(Id)
  BY <1>2, FlattenFacts
<1>9. ToSet(ts) = Through(cs, n)
  BY <1>2, FlattenFacts
<1>10. Ordered(ts, Placed)
  <2>1. \A i \in 1..Len(cs) : Ordered(cs[i], Placed)
    BY <1>2, <1>6
  <2>2. \A i, j \in 1..Len(cs) : i < j =>
           \A x \in ToSet(cs[i]), y \in ToSet(cs[j]) : <<x, y>> \in Placed
    BY <1>2, <1>7
  <2> QED BY <1>2, <2>1, <2>2, FlattenFacts
<1> HIDE DEF ts
<1>11. ASSUME NEW x PROVE x \in ToSet(ts) <=> x \in AllBlocks("text")
  <2>1. x \in ToSet(ts) <=> \E k \in 1..n : x \in ToSet(cs[k])
    BY <1>9, Zenon DEF Through
  <2>2. (\E k \in 1..n : x \in ToSet(cs[k])) <=>
           (Shift = 1 /\ x \in ToSet(Merged.content)) \/ \E k \in 1..Len(Heard) : x \in ToSet(TextsAt(Heard)[k])
    <3>1. ASSUME NEW k \in 1..n, x \in ToSet(cs[k])
          PROVE  (Shift = 1 /\ x \in ToSet(Merged.content)) \/ \E j \in 1..Len(Heard) : x \in ToSet(TextsAt(Heard)[j])
      BY <1>2, <1>3, <3>1
    <3>2. ASSUME Shift = 1, x \in ToSet(Merged.content) PROVE \E k \in 1..n : x \in ToSet(cs[k])
      <4>1. 1 \in 1..n
        BY <1>1, <3>2
      <4> QED BY <1>2, <3>2, <4>1
    <3>3. ASSUME NEW j \in 1..Len(Heard), x \in ToSet(TextsAt(Heard)[j])
          PROVE  \E k \in 1..n : x \in ToSet(cs[k])
      <4>1. j + Shift \in 1..n
        BY <1>1
      <4> QED BY <1>2, <3>3, <4>1
    <3> QED BY <3>1, <3>2, <3>3
  <2>3. x \in ToSet(Merged.content) => Shift = 1
    BY NoteText DEF Shift, Notes
  <2>4. (\E k \in 1..n : x \in ToSet(cs[k])) <=>
           \E i \in DOMAIN context, b \in Nat : b \in BlocksOf(context[i], "text") /\ x = <<i, b>>
    <3> DEFINE Note == \E i \in DOMAIN context, b \in Nat :
                         /\ context[i].role = "developer"
                         /\ b \in BlocksOf(context[i], "text") /\ x = <<i, b>>
               Speech == \E i \in DOMAIN context, b \in Nat :
                         /\ context[i].role # "developer"
                         /\ b \in BlocksOf(context[i], "text") /\ x = <<i, b>>
               Some == \E i \in DOMAIN context, b \in Nat :
                          b \in BlocksOf(context[i], "text") /\ x = <<i, b>>
    <3>1. x \in ToSet(Merged.content) <=> Note
      BY NoteText
    <3>2. (\E k \in 1..Len(Heard) : x \in ToSet(TextsAt(Heard)[k])) <=> Speech
      BY HeardText
    <3>3. Some <=> (Note \/ Speech)
      OBVIOUS
    <3> HIDE DEF Note, Speech, Some
    <3>4. (\E k \in 1..n : x \in ToSet(cs[k])) <=> Some
      BY <2>2, <2>3, <3>1, <3>2, <3>3
    <3> QED BY <3>4 DEF Some
  <2> QED BY <2>1, <2>4, AllTexts
<1>12. InOrder(ts)
  <2> SUFFICES ASSUME NEW j \in DOMAIN ts, NEW k \in DOMAIN ts, j < k,
                      IsNote(ts[j]) <=> IsNote(ts[k])
               PROVE  Earlier(ts[j], ts[k])
    BY DEF InOrder
  <2>1. DOMAIN ts = 1..Len(ts)
    BY <1>8
  <2>2. <<ts[j], ts[k]>> \in Placed
    BY <1>10, <2>1 DEF Ordered
  <2> DEFINE e == <<ts[j], ts[k]>>
  <2>3. e[1] = ts[j] /\ e[2] = ts[k] /\ e \in Placed
    BY <2>2
  <2> HIDE DEF e
  <2> QED BY <2>3 DEF Placed
<1>13. ToSet(ts) = AllBlocks("text")
  BY <1>11
<1> QED BY <1>8, <1>12, <1>13 DEF ts, cs

-----------------------------------------------------------------------------
\* The calls of a request.

\* Calls of one message are in the order of their blocks.
LEMMA CallsAscend ==
  ASSUME NEW i \in Nat, NEW m, m.content \in Seq(Block),
         NEW j \in 1..Len(CallsOf(i, m)), NEW k \in 1..Len(CallsOf(i, m)), j < k
  PROVE  Earlier(CallsOf(i, m)[j].id, CallsOf(i, m)[k].id)
<1> DEFINE P == Places(Len(m.content), BlocksOf(m, "toolCall"))
<1>1. Lists(P, Len(m.content), BlocksOf(m, "toolCall"))
  BY CallFacts
<1>2. CallsOf(i, m) = [l \in 1..Len(P) |-> [id |-> <<i, P[l]>>, name |-> m.content[P[l]].name]]
  BY CallFacts
<1> HIDE DEF P
<1>3. Len(P) \in Nat /\ P \in Seq(Nat) /\ P \in Seq(1..Len(m.content))
  BY <1>1 DEF Lists
<1>4. Len(CallsOf(i, m)) = Len(P)
  <2> DEFINE f == [l \in 1..Len(P) |-> [id |-> <<i, P[l]>>, name |-> m.content[P[l]].name]]
  <2>1. f \in [1..Len(P) -> {f[l] : l \in 1..Len(P)}]
    OBVIOUS
  <2>2. f = CallsOf(i, m)
    BY <1>2
  <2> HIDE DEF f
  <2> QED BY <1>3, <2>1, <2>2, FnIsSeq
<1>5. CallsOf(i, m)[j].id = <<i, P[j]>> /\ CallsOf(i, m)[k].id = <<i, P[k]>>
  BY <1>2, <1>4
<1>6. P[j] < P[k]
  BY <1>1, <1>4 DEF Lists
<1> QED BY <1>5, <1>6 DEF Earlier

\* Calls of which the first is made before the second.
Called1st == {e \in CallIds \X CallIds : Earlier(e[1].id, e[2].id)}

\* How a pair of calls is seen to be in order.
LEMMA InCalled1stIf ==
  ASSUME NEW x \in CallIds, NEW y \in CallIds, Earlier(x.id, y.id)
  PROVE  <<x, y>> \in Called1st
<1> DEFINE e == <<x, y>>
<1>1. e \in CallIds \X CallIds /\ e[1] = x /\ e[2] = y
  OBVIOUS
<1> HIDE DEF e
<1> QED BY <1>1 DEF Called1st

\* Only an answer calls tools.
AnswersCall == \A i \in DOMAIN context :
    context[i].role # "assistant" => BlocksOf(context[i], "toolCall") = {}

\* The calls of a request, message by message.
CallsIn(H) == [k \in DOMAIN H |-> IF HasCalls(H[k]) THEN H[k].toolCalls ELSE <<>>]

\* They are the calls of the conversation's messages.
LEMMA CallsHeard ==
  ASSUME context \in Seq(Msg), AnswersCall, NEW H, Shape(H)
  PROVE  /\ Shift = 1 => CallsIn(H)[1] = <<>>
         /\ \A k \in 1..Len(Heard) : CallsIn(H)[k + Shift] = CallsOf(Heard[k], context[Heard[k]])
         /\ CallsIn(H) \in Seq(Seq(CallIds)) /\ Len(CallsIn(H)) = Len(Heard) + Shift
<1> DEFINE cs == CallsIn(H)
           n  == Len(Heard) + Shift
<1>1. Len(Heard) \in Nat /\ Shift \in {0, 1} /\ DOMAIN H = 1..n
  BY HeardFacts DEF Shift, Shape
<1>2. Shift = 1 => cs[1] = <<>>
  BY <1>1, MergedFacts DEF Shape, CallsIn
<1>3. ASSUME NEW k \in 1..Len(Heard)
      PROVE  /\ cs[k + Shift] = CallsOf(Heard[k], context[Heard[k]])
             /\ cs[k + Shift] \in Seq(CallIds)
  <2> DEFINE i == Heard[k]
             N == NormalizeMessage(i, context[i])
  <2>1. k + Shift \in DOMAIN H /\ H[k + Shift] = N
    BY <1>1 DEF Shape
  <2>2. /\ HasCalls(N) <=> context[i].role = "assistant" /\ CallsOf(i, context[i]) # <<>>
        /\ HasCalls(N) => N.toolCalls = CallsOf(i, context[i])
    BY HeardNormal
  <2>3. i \in Nat /\ i \in DOMAIN context /\ context[i].content \in Seq(Block)
    BY HeardFacts DEF Msg
  <2>4. cs[k + Shift] = IF HasCalls(N) THEN N.toolCalls ELSE <<>>
    BY <2>1 DEF CallsIn
  <2> HIDE DEF N, i
  <2>5. context[i].role # "assistant" => CallsOf(i, context[i]) = <<>>
    BY <2>3, NoCalls DEF AnswersCall
  <2>6. cs[k + Shift] = CallsOf(i, context[i])
    BY <2>2, <2>4, <2>5
  <2>7. CallsOf(i, context[i]) \in Seq(CallIds)
    BY <2>3, CallsOfMessage
  <2> QED BY <2>6, <2>7 DEF i
<1>4. \A k \in 1..n : cs[k] \in Seq(CallIds)
  <2> SUFFICES ASSUME NEW k \in 1..n PROVE cs[k] \in Seq(CallIds)
    OBVIOUS
  <2>1. (k = 1 /\ Shift = 1) \/ \E j \in 1..Len(Heard) : k = j + Shift
    BY <1>1, ShapePlaces
  <2>2. <<>> \in Seq(CallIds)
    OBVIOUS
  <2> QED BY <1>2, <1>3, <2>1, <2>2
<1>5. DOMAIN cs = 1..n /\ n \in Nat /\ cs = [k \in 1..n |-> cs[k]]
  BY <1>1 DEF CallsIn
<1> HIDE DEF cs, n
<1>6. cs \in [1..n -> Seq(CallIds)]
  BY <1>4, <1>5
<1>7. cs \in Seq(Seq(CallIds)) /\ Len(cs) = n
  BY <1>5, <1>6, FnIsSeq
<1> QED BY <1>2, <1>3, <1>7 DEF cs, n

\* A request has every call of the conversation, and all of them in order.
LEMMA CallsOfRequest ==
  ASSUME context \in Seq(Msg), AnswersCall, NEW H, Shape(H)
  PROVE  LET calls == FlattenSeq(CallsIn(H))
             ids   == [k \in DOMAIN calls |-> calls[k].id]
         IN  ToSet(ids) = AllBlocks("toolCall") /\ InOrder(ids)
<1> DEFINE cs    == CallsIn(H)
           n     == Len(Heard) + Shift
           calls == FlattenSeq(cs)
           ids   == [k \in DOMAIN calls |-> calls[k].id]
<1>1. Len(Heard) \in Nat /\ Shift \in {0, 1} /\ n \in Nat
  BY HeardFacts DEF Shift
<1>2. /\ Shift = 1 => cs[1] = <<>>
      /\ \A k \in 1..Len(Heard) : cs[k + Shift] = CallsOf(Heard[k], context[Heard[k]])
      /\ cs \in Seq(Seq(CallIds)) /\ Len(cs) = n
  BY CallsHeard
<1>3. \A k \in 1..n : (k = 1 /\ Shift = 1) \/ \E j \in 1..Len(Heard) : k = j + Shift
  BY ShapePlaces DEF Shape
<1> HIDE DEF cs
<1>4. \A k \in 1..Len(Heard) : Heard[k] \in Nat /\ Heard[k] \in DOMAIN context
                              /\ context[Heard[k]].content \in Seq(Block)
  BY HeardFacts DEF Msg
<1>5. \A j, k \in 1..Len(Heard) : j < k => Heard[j] < Heard[k]
  BY HeardFacts
<1>6. ASSUME NEW k \in 1..n PROVE Ordered(cs[k], Called1st)
  <2>1. CASE k = 1 /\ Shift = 1
    BY <1>2, <2>1 DEF Ordered
  <2>2. ASSUME NEW j \in 1..Len(Heard), k = j + Shift PROVE Ordered(cs[k], Called1st)
    <3> DEFINE c == CallsOf(Heard[j], context[Heard[j]])
    <3>1. cs[k] = c /\ c \in Seq(CallIds)
      BY <1>2, <1>4, <2>2, CallsOfMessage
    <3>2. \A a, b \in 1..Len(c) : a < b => Earlier(c[a].id, c[b].id)
      BY <1>4, CallsAscend
    <3> HIDE DEF c
    <3>3. \A a, b \in 1..Len(c) : a < b => <<c[a], c[b]>> \in Called1st
      BY <3>1, <3>2, InCalled1stIf
    <3> QED BY <3>1, <3>3 DEF Ordered
  <2> QED BY <1>3, <2>1, <2>2
<1>7. \A j \in 1..Len(Heard) : \A x \in ToSet(CallsOf(Heard[j], context[Heard[j]])) :
         x \in CallIds /\ \E b \in BlocksOf(context[Heard[j]], "toolCall") : x.id = <<Heard[j], b>>
  <2> SUFFICES ASSUME NEW j \in 1..Len(Heard), NEW x \in ToSet(CallsOf(Heard[j], context[Heard[j]]))
               PROVE  x \in CallIds /\ \E b \in BlocksOf(context[Heard[j]], "toolCall") : x.id = <<Heard[j], b>>
    OBVIOUS
  <2>1. CallsOf(Heard[j], context[Heard[j]]) \in Seq(CallIds)
    BY <1>4, CallsOfMessage
  <2>2. x \in CallIds
    BY <2>1 DEF ToSet
  <2>0. PICK i \in Nat : i = Heard[j]
    BY <1>4
  <2>3. context[i].content \in Seq(Block) /\ x \in ToSet(CallsOf(i, context[i]))
    BY <1>4, <2>0
  <2>4. {y.id : y \in ToSet(CallsOf(i, context[i]))} = {<<i, b>> : b \in BlocksOf(context[i], "toolCall")}
    BY <2>3, CallsOfMessage
  <2> QED BY <2>0, <2>2, <2>3, <2>4
<1>8. ASSUME NEW j \in 1..n, NEW k \in 1..n, j < k, NEW x \in ToSet(cs[j]), NEW y \in ToSet(cs[k])
      PROVE  <<x, y>> \in Called1st
  <2>1. PICK b \in 1..Len(Heard) : k = b + Shift
    BY <1>1, <1>3, <1>8
  <2>2. ToSet(<<>>) = {}
    BY DEF ToSet
  <2>3. PICK a \in 1..Len(Heard) : j = a + Shift
    BY <1>2, <1>3, <1>8, <2>2
  <2>4. Heard[a] < Heard[b]
    BY <1>1, <1>5, <1>8, <2>1, <2>3
  <2>5. x \in CallIds /\ x.id[1] = Heard[a] /\ y \in CallIds /\ y.id[1] = Heard[b]
    BY <1>2, <1>7, <1>8, <2>1, <2>3
  <2> QED BY <2>4, <2>5, InCalled1stIf DEF Earlier
<1>9. calls \in Seq(CallIds)
  BY <1>2, FlattenFacts
<1>10. ToSet(calls) = Through(cs, n)
  BY <1>2, FlattenFacts
<1>11. Ordered(calls, Called1st)
  <2>1. \A i \in 1..Len(cs) : Ordered(cs[i], Called1st)
    BY <1>2, <1>6
  <2>2. \A i, j \in 1..Len(cs) : i < j =>
           \A x \in ToSet(cs[i]), y \in ToSet(cs[j]) : <<x, y>> \in Called1st
    BY <1>2, <1>8
  <2> QED BY <1>2, <2>1, <2>2, FlattenFacts
<1> HIDE DEF calls
<1>12. DOMAIN calls = 1..Len(calls) /\ DOMAIN ids = DOMAIN calls
  BY <1>9
<1>13. InOrder(ids)
  <2> SUFFICES ASSUME NEW j \in DOMAIN ids, NEW k \in DOMAIN ids, j < k
               PROVE  Earlier(ids[j], ids[k])
    BY DEF InOrder
  <2> DEFINE e == <<calls[j], calls[k]>>
  <2>1. e[1] = calls[j] /\ e[2] = calls[k] /\ e \in Called1st
    BY <1>11, <1>12 DEF Ordered
  <2> HIDE DEF e
  <2> QED BY <1>12, <2>1 DEF Called1st
<1>14. ASSUME NEW x \in ToSet(ids) PROVE x \in AllBlocks("toolCall")
  <2>1. PICK c \in ToSet(calls) : x = c.id
    BY <1>12 DEF ToSet
  <2>2. PICK k \in 1..n : c \in ToSet(cs[k])
    BY <1>10, Zenon DEF Through
  <2>3. ToSet(<<>>) = {}
    BY DEF ToSet
  <2>4. PICK j \in 1..Len(Heard) : k = j + Shift
    BY <1>2, <1>3, <2>2, <2>3
  <2>5. PICK b \in BlocksOf(context[Heard[j]], "toolCall") : x = <<Heard[j], b>>
    BY <1>2, <1>7, <2>1, <2>2, <2>4
  <2> QED BY <1>4, <2>5 DEF AllBlocks
<1>15. ASSUME NEW x \in AllBlocks("toolCall") PROVE x \in ToSet(ids)
  <2>1. PICK i \in DOMAIN context : \E b \in BlocksOf(context[i], "toolCall") : x = <<i, b>>
    BY DEF AllBlocks
  <2>2. PICK b \in BlocksOf(context[i], "toolCall") : x = <<i, b>>
    BY <2>1
  <2>3. context[i].role # "developer"
    BY <2>2 DEF AnswersCall
  <2>4. PICK j \in 1..Len(Heard) : Heard[j] = i
    BY <2>3, HeardFacts
  <2>5. PICK c \in ToSet(CallsOf(i, context[i])) : c.id = x
    <3>1. i \in Nat /\ context[i].content \in Seq(Block)
      BY <1>4, <2>4
    <3>2. {y.id : y \in ToSet(CallsOf(i, context[i]))} = {<<i, k>> : k \in BlocksOf(context[i], "toolCall")}
      BY <3>1, CallsOfMessage
    <3> QED BY <2>2, <3>2
  <2>6. j + Shift \in 1..n /\ c \in ToSet(cs[j + Shift])
    <3>1. j + Shift \in 1..n
      BY <1>1
    <3>2. cs[j + Shift] = CallsOf(i, context[i])
      BY <1>2, <2>4
    <3> QED BY <2>5, <3>1, <3>2
  <2>7. c \in ToSet(calls)
    BY <1>10, <2>6, Zenon DEF Through
  <2>8. PICK k \in DOMAIN calls : calls[k] = c
    BY <2>7 DEF ToSet
  <2> QED BY <1>12, <2>5, <2>8 DEF ToSet
<1>16. ToSet(ids) = AllBlocks("toolCall")
  BY <1>14, <1>15
<1> QED BY <1>13, <1>16 DEF calls, cs

-----------------------------------------------------------------------------
\* What a text worker is asked.

\* SelectLastInSeq and SelectInSeq, on a request.
LEMMA LatestUser ==
  ASSUME context \in Seq(Msg), NEW H, Shape(H), SelectInSeq(H, IsUser) # 0
  PROVE  \E i \in DOMAIN context :
            /\ context[i].role = "user" /\ LatestUserText(H) = TextOf(i, context[i])
            /\ \A j \in DOMAIN context : j > i => context[j].role # "user"
<1> DEFINE I == {k \in 1..Len(H) : IsUser(H[k])}
           l == SelectLastInSeq(H, IsUser)
<1>1. I # {}
  BY DEF SelectInSeq
<1>2. l = Max(I)
  BY <1>1 DEF SelectLastInSeq
<1>3. Len(Heard) \in Nat /\ Shift \in {0, 1} /\ Len(H) = Len(Heard) + Shift /\ DOMAIN H = 1..Len(H)
  BY HeardFacts DEF Shift, Shape
<1>4. I \in SUBSET (1..Len(H)) /\ Len(H) \in Nat
  BY <1>3
<1> HIDE DEF l
<1>5. l \in I /\ \A x \in I : x <= l
  BY <1>1, <1>2, <1>4, MaxOf
<1>6. PICK q \in 1..Len(Heard) : l = q + Shift
  <2>1. ~(l = 1 /\ Shift = 1)
    BY <1>5, MergedFacts DEF Shape
  <2> QED BY <1>3, <1>5, <2>1, ShapePlaces
<1>7. PICK i \in DOMAIN context : i = Heard[q] /\ i \in Nat /\ context[i] \in Msg
  BY HeardFacts
<1>8. H[l] = NormalizeMessage(i, context[i])
  BY <1>6, <1>7 DEF Shape
<1>9. context[i].role = "user" /\ H[l].content = TextOf(i, context[i])
  <2>1. IsUser(H[l])
    BY <1>5
  <2> QED BY <1>7, <1>8, <2>1, HeardNormal
<1>10. ASSUME NEW j \in DOMAIN context, j > i, context[j].role = "user" PROVE FALSE
  <2>1. PICK r \in 1..Len(Heard) : Heard[r] = j
    BY <1>10, HeardFacts
  <2>2. H[r + Shift] = NormalizeMessage(j, context[j])
    BY <2>1 DEF Shape
  <2>3. IsUser(H[r + Shift])
    BY <1>10, <2>1, <2>2, HeardNormal
  <2>4. r + Shift \in I
    BY <1>3, <2>3
  <2>5. r <= q
    BY <1>3, <1>5, <1>6, <2>4
  <2>6. Heard[r] <= Heard[q]
    <3>1. \A a, b \in 1..Len(Heard) : a < b => Heard[a] < Heard[b]
      BY HeardFacts
    <3>2. Heard[r] \in Nat /\ Heard[q] \in Nat
      BY HeardFacts
    <3> QED BY <1>3, <2>5, <3>1, <3>2
  <2>7. j \in Nat
    BY HeardFacts, <2>1
  <2> QED BY <1>7, <1>10, <2>1, <2>6, <2>7
<1>11. LatestUserText(H) = H[l].content
  BY DEF LatestUserText, l
<1> QED BY <1>9, <1>10, <1>11

-----------------------------------------------------------------------------
\* From one request to the next.

\* The request of the first n messages: their notes as one message, and the rest.
WholeOf(c, n) ==
    LET notes == NormalAt(c, Places(n, Notes(c)))
    IN  IF Places(n, Notes(c)) = <<>> THEN RestOf(c, n)
        ELSE <<[role |-> "system", content |-> Joined(notes)]>> \o RestOf(c, n)

\* That is what hoistSystemMessages makes of a conversation.
LEMMA WholeIs ==
  ASSUME context \in Seq(Msg)
  PROVE  HoistSystemMessages(Normalized) = WholeOf(context, Len(context))
<1> DEFINE H == HoistSystemMessages(Normalized)
<1>1. System(Normalized) = NormalAt(context, Noted) /\ NonSystem(Normalized) = NormalAt(context, Heard)
  BY Filtered DEF RestOf, Heard, Noted
<1>2. Noted \in Seq(Nat) /\ Heard \in Seq(Nat) /\ Len(Heard) \in Nat
  BY NotedFacts, HeardFacts
<1>3. PICK A : System(Normalized) \in Seq(A) /\ Len(System(Normalized)) = Len(Noted)
  BY <1>1, <1>2, NormalSeq
<1>4. CASE Noted = <<>>
  <2>1. Notes(context) = {}
    BY <1>4, NotedFacts DEF Notes
  <2>2. Shift = 0
    BY <2>1 DEF Shift
  <2>3. Shape(H)
    BY HoistedShape
  <2> HIDE DEF H
  <2>4. /\ \E B : H \in Seq(B)
        /\ DOMAIN H = 1..Len(Heard)
        /\ \A k \in 1..Len(Heard) : H[k] = NormalizeMessage(Heard[k], context[Heard[k]])
    <3>1. /\ DOMAIN H = 1..(Len(Heard) + Shift)
          /\ \A k \in 1..Len(Heard) : H[k + Shift] = NormalizeMessage(Heard[k], context[Heard[k]])
      BY <2>3 DEF Shape
    <3>2. Len(Heard) + Shift = Len(Heard) /\ \A k \in 1..Len(Heard) : k + Shift = k
      BY <1>2, <2>2
    <3> QED BY <2>3, <3>1, <3>2 DEF Shape
  <2>5. H = [k \in DOMAIN H |-> H[k]]
    BY <2>4
  <2>6. H = [k \in 1..Len(Heard) |-> NormalizeMessage(Heard[k], context[Heard[k]])]
    BY <2>4, <2>5
  <2>7. H = RestOf(context, Len(context))
    BY <2>6 DEF RestOf, NormalAt, Heard
  <2> QED BY <1>4, <2>7 DEF WholeOf, Noted, H
<1>5. CASE Noted # <<>>
  <2>1. System(Normalized) # <<>>
    BY <1>2, <1>3, <1>5
  <2>2. H = <<[role |-> "system", content |-> Joined(NormalAt(context, Noted))]>>
               \o RestOf(context, Len(context))
    BY <1>1, <2>1 DEF HoistSystemMessages, RestOf, Heard
  <2> QED BY <1>5, <2>2 DEF WholeOf, Noted
<1> QED BY <1>4, <1>5

\* Behind the same first message a beginning is still one.
LEMMA ConsPrefix ==
  ASSUME NEW A, NEW x \in A, NEW s \in Seq(A), NEW t \in Seq(A), IsPrefix(s, t)
  PROVE  IsPrefix(<<x>> \o s, <<x>> \o t)
<1> DEFINE u == <<x>> \o s
           v == <<x>> \o t
           l == Len(s)
<1>1. l \in Nat /\ Len(t) \in Nat /\ l <= Len(t) /\ SubSeq(s, 1, l) = SubSeq(t, 1, l)
  BY DEF IsPrefix
<1>2. \A k \in 1..l : s[k] = t[k]
  <2> SUFFICES ASSUME NEW k \in 1..l PROVE s[k] = t[k]
    OBVIOUS
  <2>1. SubSeq(s, 1, l)[k] = s[k] /\ SubSeq(t, 1, l)[k] = t[k]
    BY <1>1
  <2> QED BY <1>1, <2>1
<1>3. /\ u \in Seq(A) /\ Len(u) = l + 1 /\ u[1] = x /\ \A k \in 1..l : u[k + 1] = s[k]
      /\ v \in Seq(A) /\ Len(v) = Len(t) + 1 /\ v[1] = x /\ \A k \in 1..Len(t) : v[k + 1] = t[k]
  OBVIOUS
<1> HIDE DEF u, v, l
<1>4. \A k \in 1..(l + 1) : u[k] = v[k]
  <2> SUFFICES ASSUME NEW k \in 1..(l + 1) PROVE u[k] = v[k]
    OBVIOUS
  <2>1. CASE k = 1
    BY <1>3, <2>1
  <2>2. CASE k # 1
    <3>1. k - 1 \in 1..l /\ k - 1 \in 1..Len(t) /\ (k - 1) + 1 = k
      BY <1>1, <2>2
    <3> QED BY <1>2, <1>3, <3>1
  <2> QED BY <2>1, <2>2
<1>5. \A k \in 1..(l + 1) : u[k] \in A /\ v[k] \in A
  BY <1>1, <1>3
<1>6. /\ SubSeq(u, 1, l + 1) \in Seq(A) /\ Len(SubSeq(u, 1, l + 1)) = l + 1
      /\ \A i \in 1..(l + 1) : SubSeq(u, 1, l + 1)[i] = u[i]
  BY <1>1, <1>5, SubSeqProperties
<1>7. /\ SubSeq(v, 1, l + 1) \in Seq(A) /\ Len(SubSeq(v, 1, l + 1)) = l + 1
      /\ \A i \in 1..(l + 1) : SubSeq(v, 1, l + 1)[i] = v[i]
  BY <1>1, <1>5, SubSeqProperties
<1>8. SubSeq(u, 1, l + 1) = SubSeq(v, 1, l + 1)
  BY <1>4, <1>6, <1>7, SeqEqual
<1>9. Len(u) <= Len(v)
  BY <1>1, <1>3
<1> QED BY <1>3, <1>8, <1>9 DEF IsPrefix, u, v

\* More of a conversation gives more of a request, behind the same beginning.
LEMMA RestGrows ==
  ASSUME NEW c, NEW n \in Nat, NEW m \in Nat, n <= m
  PROVE  IsPrefix(RestOf(c, n), RestOf(c, m))
<1> DEFINE P == Places(n, Spoken(c))
           Q == Places(m, Spoken(c))
           s == RestOf(c, n)
           t == RestOf(c, m)
           l == Len(s)
           S == {s[i] : i \in 1..l}
<1>1. P \in Seq(Nat) /\ Q \in Seq(Nat)
  BY PlacesList DEF Lists
<1>2. Len(P) <= Len(Q) /\ \A k \in 1..Len(P) : Q[k] = P[k]
  BY PlacesGrow
<1>3. s = NormalAt(c, P) /\ t = NormalAt(c, Q)
  BY DEF RestOf
<1> HIDE DEF P, Q, s, t
<1>4. Len(s) = Len(P) /\ Len(t) = Len(Q)
  BY <1>1, <1>3, NormalSeq
<1>5. l \in Nat /\ l <= Len(t)
  BY <1>1, <1>2, <1>4
<1>6. \A k \in 1..l : s[k] = t[k]
  BY <1>1, <1>2, <1>3, <1>4 DEF NormalAt
<1> HIDE DEF l
<1>7. \A i \in 1..l : s[i] \in S /\ t[i] \in S
  BY <1>6
<1> HIDE DEF S
<1>8. /\ SubSeq(s, 1, l) \in Seq(S) /\ Len(SubSeq(s, 1, l)) = l
      /\ \A i \in 1..l : SubSeq(s, 1, l)[i] = s[i]
  BY <1>5, <1>7, SubSeqProperties
<1>9. /\ SubSeq(t, 1, l) \in Seq(S) /\ Len(SubSeq(t, 1, l)) = l
      /\ \A i \in 1..l : SubSeq(t, 1, l)[i] = t[i]
  BY <1>5, <1>7, SubSeqProperties
<1>10. SubSeq(s, 1, l) = SubSeq(t, 1, l)
  BY <1>6, <1>8, <1>9, SeqEqual
<1> QED BY <1>5, <1>10 DEF IsPrefix, l, s, t

\* So does the request with its system message, when no note is among what came.
LEMMA WholeGrows ==
  ASSUME NEW c, NEW n \in Nat, NEW m \in Nat, n <= m, \A i \in Notes(c) : i <= n
  PROVE  IsPrefix(WholeOf(c, n), WholeOf(c, m))
<1> DEFINE P == Places(n, Notes(c))
<1>1. Lists(P, n, Notes(c))
  BY PlacesList
<1> HIDE DEF P
<1>2. P \in Seq(1..m) /\ \A k \in 1..Len(P) : P[k] \in Notes(c)
  <2>1. P \in Seq(1..n) /\ 1..n \subseteq 1..m
    BY <1>1 DEF Lists
  <2> QED BY <1>1, <2>1 DEF Lists
<1>3. Notes(c) \cap (1..m) \subseteq Notes(c) \cap (1..n)
  OBVIOUS
<1>4. Lists(P, m, Notes(c))
  BY <1>1, <1>2, <1>3 DEF Lists
<1>5. Places(m, Notes(c)) = P
  BY <1>4, PlacesAre
<1>6. IsPrefix(RestOf(c, n), RestOf(c, m))
  BY RestGrows
<1>7. CASE P = <<>>
  BY <1>5, <1>6, <1>7 DEF WholeOf, P
<1>8. CASE P # <<>>
  <2> DEFINE x == [role |-> "system", content |-> Joined(NormalAt(c, P))]
             s == RestOf(c, n)
             t == RestOf(c, m)
  <2>1. PICK A : s \in Seq(A)
    BY PlacesList, NormalSeq DEF RestOf, Lists
  <2>2. PICK B : t \in Seq(B)
    BY PlacesList, NormalSeq DEF RestOf, Lists
  <2> DEFINE D == (A \cup B) \cup {x}
  <2>3. x \in D /\ s \in Seq(D) /\ t \in Seq(D)
    BY <2>1, <2>2
  <2>4. WholeOf(c, n) = <<x>> \o s /\ WholeOf(c, m) = <<x>> \o t
    BY <1>5, <1>8 DEF WholeOf, P
  <2> HIDE DEF x, s, t, D
  <2>5. IsPrefix(s, t)
    BY <1>6 DEF s, t
  <2> QED BY <2>3, <2>4, <2>5, ConsPrefix
<1> QED BY <1>7, <1>8

\* What is said later does not change what was said before.
LEMMA KeptAt ==
  ASSUME NEW c, NEW d, NEW S, NEW R, NEW n \in Nat, \A i \in 1..n : d[i] = c[i],
         \A i \in 1..n : i \in R <=> i \in S
  PROVE  Places(n, R) = Places(n, S) /\ NormalAt(d, Places(n, S)) = NormalAt(c, Places(n, S))
<1> DEFINE P == Places(n, S)
<1>1. Lists(P, n, S)
  BY PlacesList
<1> HIDE DEF P
<1>2. P \in Seq(1..n) /\ \A k \in 1..Len(P) : P[k] \in 1..n
  BY <1>1 DEF Lists
<1>3. Lists(P, n, R)
  BY <1>1, <1>2 DEF Lists
<1>4. Places(n, R) = P
  BY <1>3, PlacesAre
<1>5. NormalAt(d, P) = NormalAt(c, P)
  BY <1>2 DEF NormalAt
<1> QED BY <1>4, <1>5 DEF P

LEMMA RestKept ==
  ASSUME NEW c \in Seq(Msg), NEW m \in Msg, NEW n \in 0..Len(c)
  PROVE  RestOf(Append(c, m), n) = RestOf(c, n) /\ WholeOf(Append(c, m), n) = WholeOf(c, n)
<1> DEFINE d == Append(c, m)
<1>1. /\ n \in Nat /\ DOMAIN c = 1..Len(c) /\ DOMAIN d = 1..(Len(c) + 1)
      /\ \A i \in 1..n : i \in DOMAIN c /\ i \in DOMAIN d /\ d[i] = c[i]
  OBVIOUS
<1> HIDE DEF d
<1>2. \A i \in 1..n : i \in Spoken(d) <=> i \in Spoken(c)
  BY <1>1 DEF Spoken
<1>3. \A i \in 1..n : i \in Notes(d) <=> i \in Notes(c)
  BY <1>1 DEF Notes
<1>4. \A i \in 1..n : d[i] = c[i]
  BY <1>1
<1>5. /\ Places(n, Spoken(d)) = Places(n, Spoken(c))
      /\ NormalAt(d, Places(n, Spoken(c))) = NormalAt(c, Places(n, Spoken(c)))
  BY <1>1, <1>2, <1>4, KeptAt
<1>6. /\ Places(n, Notes(d)) = Places(n, Notes(c))
      /\ NormalAt(d, Places(n, Notes(c))) = NormalAt(c, Places(n, Notes(c)))
  BY <1>1, <1>3, <1>4, KeptAt
<1>7. RestOf(d, n) = RestOf(c, n)
  BY <1>5 DEF RestOf
<1>8. WholeOf(d, n) = WholeOf(c, n)
  BY <1>6, <1>7 DEF WholeOf
<1> QED BY <1>7, <1>8 DEF d

\* The last answer is an answer and no other answer came after it.
LEMMA LastAnswerIs ==
  ASSUME context \in Seq(Msg), LastAnswer # 0
  PROVE  /\ LastAnswer \in DOMAIN context /\ context[LastAnswer].role = "assistant"
         /\ \A j \in DOMAIN context : j > LastAnswer => context[j].role # "assistant"
<1> DEFINE I == {i \in 1..Len(context) : context[i].role = "assistant"}
<1>1. LastAnswer = IF I # {} THEN Max(I) ELSE 0
  BY DEF LastAnswer, SelectLastInSeq
<1>2. I \in SUBSET (1..Len(context)) /\ Len(context) \in Nat /\ DOMAIN context = 1..Len(context)
  OBVIOUS
<1>3. I # {} /\ LastAnswer = Max(I)
  BY <1>1
<1>4. Max(I) \in I /\ \A x \in I : x <= Max(I)
  BY <1>2, <1>3, MaxOf
<1> DEFINE l == LastAnswer
<1>5. l \in I /\ \A x \in I : x <= l
  BY <1>3, <1>4
<1> HIDE DEF l
<1>6. /\ l \in DOMAIN context /\ context[l].role = "assistant"
      /\ \A j \in DOMAIN context : j > l => context[j].role # "assistant"
  BY <1>2, <1>5
<1> QED BY <1>6 DEF l

\* A call that has no result yet: its answer calls, and since then only notes
\* and other results came.
LEMMA PendingCalls ==
  ASSUME context \in Seq(Msg), Pending # <<>>
  PROVE  /\ LastAnswer # 0 /\ CallsOf(LastAnswer, context[LastAnswer]) # <<>>
         /\ \A j \in DOMAIN context : j > LastAnswer => context[j].role # "user"
         /\ Head(Pending).name \in Tools
<1> DEFINE calls == IF LastAnswer = 0 THEN <<>> ELSE CallsOf(LastAnswer, context[LastAnswer])
           Since(role) == {i \in DOMAIN context : i > LastAnswer /\ context[i].role = role}
           a == Cardinality(Since("toolResult")) + 1
<1>1. Pending = IF Since("user") # {} THEN <<>> ELSE SubSeq(calls, a, Len(calls))
  BY DEF Pending
<1>2. Since("user") = {} /\ Pending = SubSeq(calls, a, Len(calls))
  BY <1>1
<1>3. a \in Nat /\ a >= 1
  <2>1. IsFiniteSet(1..Len(context)) /\ DOMAIN context = 1..Len(context)
    BY FS_Interval
  <2>2. Since("toolResult") \in SUBSET (1..Len(context))
    BY <2>1
  <2>3. Cardinality(Since("toolResult")) \in Nat
    BY <2>1, <2>2, FS_Subset, FS_CardinalityType
  <2> QED BY <2>3
<1>4. calls \in Seq(CallIds)
  <2>1. CASE LastAnswer = 0
    BY <2>1
  <2>2. CASE LastAnswer # 0
    <3>1. LastAnswer \in Nat /\ context[LastAnswer].content \in Seq(Block)
      BY <2>2, LastAnswerIs DEF Msg
    <3> QED BY <2>2, <3>1, CallsOfMessage
  <2> QED BY <2>1, <2>2
<1> HIDE DEF calls, a
<1>5. \A i \in a..Len(calls) : calls[i] \in CallIds
  BY <1>3, <1>4
<1>6. /\ SubSeq(calls, a, Len(calls)) \in Seq(CallIds)
      /\ Len(SubSeq(calls, a, Len(calls))) = IF a <= Len(calls) THEN Len(calls) - a + 1 ELSE 0
  BY <1>3, <1>4, <1>5, SubSeqProperties
<1>7. calls # <<>>
  BY <1>2, <1>3, <1>4, <1>5, <1>6
<1>8. Head(Pending) \in CallIds
  BY <1>2, <1>6
<1> QED BY <1>2, <1>7, <1>8 DEF calls, CallIds

-----------------------------------------------------------------------------
\* The inductive invariant of a conversation.

\* Every result has been asked for.
ResultsAreCalled == \A i \in DOMAIN context :
    context[i].role = "toolResult" => Called(context, i)

\* The request last built is of a beginning of the conversation.
OfFirst(n) ==
    /\ Rest(request) = RestOf(context, n) /\ Sent = WholeOf(context, n)
    /\ \A x \in ToSet(SentTexts) : x[1] <= n
OfABeginning == \E n \in 0..Len(context) : OfFirst(n)

\* A note is a text.
NotesAreTexts == \A i \in DOMAIN context :
    context[i].role = "developer" => context[i].content = OneText

\* A request at a worker is that of the conversation as it stands, and a text worker
\* got the latest user's text.
AskedNow == asked =>
    /\ Sent = HoistSystemMessages(Normalized)
    /\ (wire # <<>> /\ "text" \in DOMAIN wire[1]) =>
          wire[1].text = LatestUserText(Sent) /\ SelectInSeq(Sent, IsUser) # 0

\* The inductive invariant.
CInv ==
    /\ context \in Seq(Msg)
    /\ AnswersCall
    /\ NotesAreTexts
    /\ ResultsAreCalled
    /\ OfABeginning
    /\ AskedNow

\* It holds of an empty conversation.
LEMMA CInit == ConversationInit => CInv
<1> SUFFICES ASSUME ConversationInit PROVE CInv
  OBVIOUS
<1> USE DEF ConversationInit
<1>1. context \in Seq(Msg) /\ DOMAIN context = {} /\ Len(context) = 0 /\ ~asked
  OBVIOUS
<1>2. AnswersCall /\ ResultsAreCalled /\ AskedNow /\ NotesAreTexts
  BY <1>1 DEF AnswersCall, ResultsAreCalled, AskedNow, NotesAreTexts
<1>3. OfABeginning
  <2>1. Rest(request) = <<>>
    <3>1. request.messages = <<>>
      BY DEF NoRequest
    <3> QED BY <3>1, KeepSteps DEF Rest, NonSystem
  <2>2. RestOf(context, 0) = <<>>
    <3>1. Places(0, Spoken(context)) = <<>>
      BY PlacesSteps
    <3> QED BY <3>1 DEF RestOf, NormalAt
  <2>3. Sent = WholeOf(context, 0)
    <3>1. Places(0, Notes(context)) = <<>>
      BY PlacesSteps
    <3>2. WholeOf(context, 0) = <<>>
      BY <2>2, <3>1 DEF WholeOf
    <3> QED BY <3>2 DEF Sent, NoRequest
  <2>4. ToSet(SentTexts) = {}
    <3>1. Sent = <<>> /\ [k \in DOMAIN Sent |-> Sent[k].content] = <<>>
      BY DEF Sent, NoRequest
    <3>2. ToSet(FlattenSeq(<<>>)) = Through(<<>>, Len(<<>>)) /\ Len(<<>>) = 0
      <4>1. <<>> \in Seq(Seq(Id))
        OBVIOUS
      <4> QED BY <4>1, FlattenFacts
    <3> QED BY <3>1, <3>2 DEF SentTexts, Through
  <2> QED BY <1>1, <2>1, <2>2, <2>3, <2>4 DEF OfABeginning, OfFirst
<1> QED BY <1>1, <1>2, <1>3 DEF CInv

\* What every message does: it goes behind the others.
LEMMA CExtend ==
  ASSUME CInv, NEW m \in Msg, context' = Append(context, m), request' = request, ~asked',
         m.role # "assistant" => BlocksOf(m, "toolCall") = {},
         m.role = "developer" => m.content = OneText,
         m.role = "toolResult" => Called(context', Len(context) + 1)
  PROVE  CInv'
<1> DEFINE n == Len(context)
<1>1. /\ context \in Seq(Msg) /\ context' \in Seq(Msg) /\ n \in Nat
      /\ DOMAIN context = 1..n /\ DOMAIN context' = 1..(n + 1) /\ Len(context') = n + 1
      /\ \A i \in 1..n : context'[i] = context[i]
      /\ context'[n + 1] = m
  BY DEF CInv
<1>2. AnswersCall'
  BY <1>1 DEF CInv, AnswersCall
<1>3. ResultsAreCalled'
  <2> SUFFICES ASSUME NEW i \in DOMAIN context', context'[i].role = "toolResult"
               PROVE  Called(context', i)
    BY DEF ResultsAreCalled
  <2>1. CASE i = n + 1
    BY <1>1, <2>1
  <2>2. CASE i \in 1..n
    <3>1. Called(context, i)
      BY <1>1, <2>2 DEF CInv, ResultsAreCalled
    <3>2. PICK j \in DOMAIN context :
             /\ j < i /\ context[j].role = "assistant" /\ CallsOf(j, context[j]) # <<>>
             /\ \A l \in DOMAIN context :
                   j < l /\ l < i => context[l].role \in {"developer", "toolResult"}
      BY <3>1 DEF Called
    <3>3. j \in DOMAIN context' /\ context'[j] = context[j]
      BY <1>1
    <3>4. \A l \in DOMAIN context' :
             j < l /\ l < i => context'[l].role \in {"developer", "toolResult"}
      BY <1>1, <2>2, <3>2
    <3> QED BY <3>2, <3>3, <3>4 DEF Called
  <2> QED BY <1>1, <2>1, <2>2
<1>4. OfABeginning'
  <2>1. PICK k \in 0..n : OfFirst(k)
    BY DEF CInv, OfABeginning
  <2>2. RestOf(context', k) = RestOf(context, k) /\ WholeOf(context', k) = WholeOf(context, k)
    BY <1>1, RestKept
  <2>3. Sent' = Sent /\ SentTexts' = SentTexts /\ Rest(request') = Rest(request)
    BY DEF Sent, SentTexts
  <2>4. /\ Rest(request') = RestOf(context', k) /\ Sent' = WholeOf(context', k)
        /\ \A x \in ToSet(SentTexts') : x[1] <= k
    BY <2>1, <2>2, <2>3 DEF OfFirst
  <2>5. k \in 0..Len(context')
    BY <1>1
  <2> QED BY <2>4, <2>5 DEF OfABeginning, OfFirst
<1>5. AskedNow'
  BY DEF AskedNow
<1>6. NotesAreTexts'
  BY <1>1 DEF CInv, NotesAreTexts
<1> QED BY <1>1, <1>2, <1>3, <1>4, <1>5, <1>6 DEF CInv

\* A result that arrives while a call is pending stands where it was called for.
LEMMA CalledNow ==
  ASSUME CInv, Pending # <<>>, NEW m, context' = Append(context, m)
  PROVE  Called(context', Len(context) + 1)
<1> DEFINE n == Len(context)
           j == LastAnswer
<1>1. /\ context \in Seq(Msg) /\ n \in Nat /\ DOMAIN context = 1..n
      /\ DOMAIN context' = 1..(n + 1)
      /\ \A i \in 1..n : context'[i] = context[i]
  BY DEF CInv
<1>2. /\ j # 0 /\ CallsOf(j, context[j]) # <<>>
      /\ \A l \in DOMAIN context : l > j => context[l].role # "user"
  BY <1>1, PendingCalls
<1>3. /\ j \in DOMAIN context /\ context[j].role = "assistant"
      /\ \A l \in DOMAIN context : l > j => context[l].role # "assistant"
  BY <1>1, <1>2, LastAnswerIs
<1> HIDE DEF j
<1>4. \A l \in DOMAIN context :
         context[l].role \in {"user", "developer", "assistant", "toolResult"}
  BY <1>1 DEF Msg
<1>5. \A l \in 1..n : l > j => context[l].role \in {"developer", "toolResult"}
  BY <1>1, <1>2, <1>3, <1>4
<1>6. j < n + 1 /\ j \in DOMAIN context' /\ context'[j] = context[j]
  BY <1>1, <1>3
<1>7. \A l \in DOMAIN context' : j < l /\ l < n + 1 => context'[l].role \in {"developer", "toolResult"}
  BY <1>1, <1>5
<1> QED BY <1>2, <1>3, <1>6, <1>7 DEF Called

\* A single text is a list of blocks, none of them a call.
LEMMA BlocksOfText == OneText \in Seq(Block) /\ \A k \in DOMAIN OneText : OneText[k].type # "toolCall"
BY DEF OneText, Block

\* A request is built of the whole conversation.
LEMMA CAsk ==
  ASSUME CInv, NEW p \in Profiles, Ask(p)
  PROVE  /\ CInv'
         /\ context' = context /\ Rest(request') = RestOf(context, Len(context))
         /\ request'.messages = WholeOf(context, Len(context))
<1> DEFINE H == HoistSystemMessages(Normalized)
<1>1. PICK tools, ceiling : request' = BuildNormalizedRequest(p, H, tools, ceiling)
  BY DEF Ask
<1>2. context' = context /\ wire' = IF Encodable(p, request') THEN <<Encode(p, request')>> ELSE <<>>
  BY DEF Ask
<1>3. context \in Seq(Msg)
  BY DEF CInv
<1>4. Shape(H) /\ H = WholeOf(context, Len(context))
  BY <1>3, HoistedShape, WholeIs
<1> HIDE DEF H
<1>5. request'.messages = H /\ "text" \notin DOMAIN request'
  BY <1>1 DEF BuildNormalizedRequest, BaseRequest
<1>6. Rest(request') = RestOf(context, Len(context))
  BY <1>3, <1>4, <1>5, RestIs DEF Rest
<1>7. AskedNow'
  <2>1. request'.messages = HoistSystemMessages(Normalized)'
    <3>1. HoistSystemMessages(Normalized)' = H
      BY <1>2 DEF H, Normalized, HoistSystemMessages
    <3> QED BY <1>5, <3>1
  <2>2. ASSUME wire' # <<>>, "text" \in DOMAIN wire'[1]
        PROVE  wire'[1].text = LatestUserText(request'.messages)
               /\ SelectInSeq(request'.messages, IsUser) # 0
    <3>1. Encodable(p, request') /\ wire'[1] = Encode(p, request')
      BY <1>2, <2>2
    <3>2. p.adapter = "messages-text"
      BY <1>5, <2>2, <3>1 DEF Encode, EncodeOpenAiShaped
    <3>3. wire'[1] = [messages |-> request'.messages, text |-> LatestUserText(request'.messages)]
      BY <3>1, <3>2 DEF Encode, EncodeMessagesText
    <3>4. SelectInSeq(request'.messages, IsUser) # 0
      BY <3>1, <3>2 DEF Encodable
    <3> QED BY <3>3, <3>4
  <2> QED BY <2>1, <2>2 DEF AskedNow, Sent
<1>8. OfABeginning'
  <2>1. Len(context) \in 0..Len(context')
    BY <1>2, <1>3
  <2>2. Sent' = H
    BY <1>5 DEF Sent
  <2>3. ToSet(SentTexts') = AllBlocks("text")
    <3>1. SentTexts' = FlattenSeq([k \in DOMAIN H |-> H[k].content])
      BY <2>2 DEF SentTexts
    <3> QED BY <1>3, <1>4, <3>1, TextsOfRequest
  <2>4. \A x \in AllBlocks("text") : x[1] <= Len(context)
    <3> SUFFICES ASSUME NEW x \in AllBlocks("text") PROVE x[1] <= Len(context)
      OBVIOUS
    <3>1. PICK i \in DOMAIN context, b \in Nat : x = <<i, b>>
      BY <1>3, AllTexts
    <3> QED BY <1>3, <3>1
  <2>5. /\ Rest(request') = RestOf(context', Len(context))
        /\ Sent' = WholeOf(context', Len(context))
        /\ \A x \in ToSet(SentTexts') : x[1] <= Len(context)
    BY <1>2, <1>4, <1>6, <2>2, <2>3, <2>4
  <2> QED BY <2>1, <2>5 DEF OfABeginning, OfFirst
<1>9. AnswersCall' /\ ResultsAreCalled' /\ NotesAreTexts' /\ context' \in Seq(Msg)
  BY <1>2 DEF CInv, AnswersCall, ResultsAreCalled, NotesAreTexts
<1> QED BY <1>2, <1>4, <1>5, <1>6, <1>7, <1>8, <1>9 DEF CInv

-----------------------------------------------------------------------------
\* The theorems of a conversation.

\* Every step keeps the invariant.
LEMMA CStep ==
  ASSUME CInv, [ConversationNext]_cvars PROVE CInv'
<1> USE ConversationAssumption
<1>1. ASSUME NEW blocks \in UserBlocks, UserSays(blocks) PROVE CInv'
  <2> DEFINE m == Message("user", blocks)
  <2>1. m \in Msg /\ m.role = "user" /\ BlocksOf(m, "toolCall") = {}
    BY DEF Message, Msg, BlocksOf
  <2>2. context' = Append(context, m) /\ request' = request /\ ~asked'
    BY <1>1 DEF UserSays, Extend
  <2> QED BY <2>1, <2>2, CExtend
<1>2. ASSUME DeveloperNotes PROVE CInv'
  <2> DEFINE m == Message("developer", OneText)
  <2>1. m \in Msg /\ m.role = "developer" /\ m.content = OneText /\ BlocksOf(m, "toolCall") = {}
    BY BlocksOfText DEF Message, Msg, BlocksOf
  <2>2. context' = Append(context, m) /\ request' = request /\ ~asked'
    BY <1>2 DEF DeveloperNotes, Extend
  <2> QED BY <2>1, <2>2, CExtend
<1>3. ASSUME NEW blocks \in AnswerBlocks, AssistantAnswers(blocks) PROVE CInv'
  <2> DEFINE m == Message("assistant", blocks)
  <2>1. m \in Msg /\ m.role = "assistant"
    BY DEF Message, Msg
  <2>2. context' = Append(context, m) /\ request' = request /\ ~asked'
    BY <1>3 DEF AssistantAnswers, Extend
  <2> QED BY <2>1, <2>2, CExtend
<1>4. ASSUME TurnFails PROVE CInv'
  <2>1. context' = context /\ request' = request /\ ~asked'
    BY <1>4 DEF TurnFails
  <2> QED BY <2>1 DEF CInv, AnswersCall, NotesAreTexts, ResultsAreCalled, OfABeginning, OfFirst, AskedNow,
                      Rest, Sent, SentTexts
<1>5. ASSUME ToolReturns PROVE CInv'
  <2> DEFINE m == [role |-> "toolResult", content |-> OneText, toolName |-> Head(Pending).name]
  <2>1. Pending # <<>> /\ context' = Append(context, m) /\ request' = request /\ ~asked'
    BY <1>5 DEF ToolReturns, Extend
  <2>2. Head(Pending).name \in Tools
    BY <2>1, PendingCalls DEF CInv
  <2>3. m \in Msg /\ m.role = "toolResult" /\ BlocksOf(m, "toolCall") = {}
    BY <2>2, BlocksOfText DEF Msg, BlocksOf
  <2> HIDE DEF m
  <2>4. Called(context', Len(context) + 1)
    BY <2>1, CalledNow
  <2> QED BY <2>1, <2>3, <2>4, CExtend
<1>6. ASSUME NEW p \in Profiles, Ask(p) PROVE CInv'
  BY <1>6, CAsk
<1>7. CASE UNCHANGED cvars
  BY <1>7 DEF cvars, CInv, AnswersCall, NotesAreTexts, ResultsAreCalled, OfABeginning, OfFirst, AskedNow,
              Rest, Sent, SentTexts, Normalized
<1> QED BY <1>1, <1>2, <1>3, <1>4, <1>5, <1>6, <1>7 DEF ConversationNext

\* The inductive invariant holds of every conversation: any number of messages of any
\* blocks, any profiles and tools.
THEOREM ConversationInvariance == ConversationSpec => []CInv
<1>1. ConversationInit => CInv
  BY CInit
<1>2. CInv /\ [ConversationNext]_cvars => CInv'
  BY CStep
<1> QED BY <1>1, <1>2, PTL DEF ConversationSpec

\* Wherever developers' notes come, also between a call and its result, the request
\* has at most one system message, at its beginning, and every tool result right behind
\* its calls or another result (hoistSystemMessages, normalizeMessage).  Of the field
\* the calls are in it says nothing.
THEOREM MessagesInPlace == ConversationSpec => []MessagesPlaced
<1>1. CInv => MessagesPlaced
  <2> SUFFICES ASSUME CInv, asked, NEW k \in DOMAIN Sent
               PROVE  /\ IsSystem(Sent[k]) => k = 1
                      /\ Sent[k].role = "tool" => k > 1 /\ (Sent[k - 1].role = "tool" \/ HasCalls(Sent[k - 1]))
    BY DEF MessagesPlaced
  <2>1. context \in Seq(Msg) /\ Shape(Sent)
    BY HoistedShape DEF CInv, AskedNow
  <2>2. \A i \in DOMAIN context : context[i].role = "toolResult" => Called(context, i)
    BY DEF CInv, ResultsAreCalled
  <2> QED BY <2>1, <2>2, TemplateStep
<1> QED BY <1>1, ConversationInvariance, PTL

\* Every text and every tool call of the conversation is in the request exactly where
\* the order of the messages puts it; notes are moved to the front, nothing is dropped or
\* invented (buildNormalizedRequest).
THEOREM NothingDropped == ConversationSpec => []SameConversation
<1>1. CInv => SameConversation
  <2> SUFFICES ASSUME CInv, asked
               PROVE  /\ ToSet(SentTexts) = AllBlocks("text") /\ InOrder(SentTexts)
                      /\ LET ids == [k \in DOMAIN SentCalls |-> SentCalls[k].id]
                         IN  ToSet(ids) = AllBlocks("toolCall") /\ InOrder(ids)
    BY DEF SameConversation
  <2>1. context \in Seq(Msg) /\ AnswersCall /\ Shape(Sent)
    BY HoistedShape DEF CInv, AskedNow
  <2>2. ToSet(SentTexts) = AllBlocks("text") /\ InOrder(SentTexts)
    BY <2>1, TextsOfRequest DEF SentTexts
  <2>3. SentCalls = FlattenSeq(CallsIn(Sent))
    BY DEF SentCalls, CallsIn
  <2> DEFINE ids == [k \in DOMAIN SentCalls |-> SentCalls[k].id]
  <2>4. ToSet(ids) = AllBlocks("toolCall") /\ InOrder(ids)
    BY <2>1, <2>3, CallsOfRequest
  <2> QED BY <2>2, <2>4
<1> QED BY <1>1, ConversationInvariance, PTL

\* A text worker is asked the text of the last user message, whatever came behind it
\* (encodeMessagesText).
THEOREM LatestAsked == ConversationSpec => []AsksLatest
<1>1. CInv => AsksLatest
  <2> SUFFICES ASSUME CInv, asked, wire # <<>>, "text" \in DOMAIN wire[1]
               PROVE  \E i \in DOMAIN context :
                         /\ context[i].role = "user" /\ wire[1].text = TextOf(i, context[i])
                         /\ \A j \in DOMAIN context : j > i => context[j].role # "user"
    BY DEF AsksLatest
  <2>1. context \in Seq(Msg) /\ Shape(Sent)
    BY HoistedShape DEF CInv, AskedNow
  <2>2. wire[1].text = LatestUserText(Sent) /\ SelectInSeq(Sent, IsUser) # 0
    BY DEF CInv, AskedNow
  <2> QED BY <2>1, <2>2, LatestUser
<1> QED BY <1>1, ConversationInvariance, PTL

\* From one request to the next the messages behind the system message only grow at their
\* end, and the whole request does unless a note has been hoisted in between, whatever
\* profile is asked (buildNormalizedRequest, hoistSystemMessages).
THEOREM HistoryGrows == ConversationSpec => HistoryOnlyGrows
<1>1. ASSUME CInv, [ConversationNext]_cvars
      PROVE  [/\ IsPrefix(Rest(request), Rest(request'))
              /\ AllNotes \subseteq ToSet(SentTexts) => IsPrefix(Sent, request'.messages)]_request
  <2>1. ASSUME NEW p \in Profiles, Ask(p)
        PROVE  /\ IsPrefix(Rest(request), Rest(request'))
               /\ AllNotes \subseteq ToSet(SentTexts) => IsPrefix(Sent, request'.messages)
    <3>1. Rest(request') = RestOf(context, Len(context)) /\ request'.messages = WholeOf(context, Len(context))
      BY <1>1, <2>1, CAsk
    <3>2. PICK n \in 0..Len(context) : OfFirst(n)
      BY <1>1 DEF CInv, OfABeginning
    <3>3. Len(context) \in Nat /\ n \in Nat /\ n <= Len(context)
      BY <1>1 DEF CInv
    <3>4. IsPrefix(RestOf(context, n), RestOf(context, Len(context)))
      BY <3>3, RestGrows
    <3>5. ASSUME AllNotes \subseteq ToSet(SentTexts), NEW i \in Notes(context) PROVE i <= n
      <4>1. i \in DOMAIN context /\ context[i].role = "developer" /\ context[i].content = OneText
        BY <1>1, <3>5 DEF Notes, CInv, NotesAreTexts
      <4>2. 1 \in BlocksOf(context[i], "text")
        BY <4>1 DEF BlocksOf, OneText
      <4> DEFINE x == <<i, 1>>
      <4>3. x \in AllBlocks("text")
        BY <1>1, <4>1, <4>2, AllTexts DEF CInv
      <4>4. x[1] = i /\ IsNote(x)
        BY <4>1 DEF IsNote
      <4> HIDE DEF x
      <4>5. x \in ToSet(SentTexts)
        BY <3>5, <4>3, <4>4 DEF AllNotes
      <4> QED BY <3>2, <4>4, <4>5 DEF OfFirst
    <3>6. ASSUME AllNotes \subseteq ToSet(SentTexts) PROVE IsPrefix(Sent, request'.messages)
      <4>1. IsPrefix(WholeOf(context, n), WholeOf(context, Len(context)))
        BY <3>3, <3>5, <3>6, WholeGrows
      <4> QED BY <3>1, <3>2, <4>1 DEF OfFirst
    <3> QED BY <3>1, <3>2, <3>4, <3>6 DEF OfFirst
  <2>2. (\E p \in Profiles : Ask(p)) \/ request' = request
    BY <1>1 DEF ConversationNext, cvars, UserSays, DeveloperNotes, AssistantAnswers, TurnFails,
                ToolReturns, Extend
  <2> QED BY <2>1, <2>2
<1> QED BY <1>1, ConversationInvariance, PTL DEF ConversationSpec, HistoryOnlyGrows

-----------------------------------------------------------------------------
\* Answers: units, places and loops.

\* Places without a gap are counted up.
LEMMA PlacesRun ==
  ASSUME NEW n \in Nat, NEW lo \in Nat, NEW m \in Nat, lo + m <= n,
         NEW S, S \cap (1..n) = (lo + 1)..(lo + m)
  PROVE  Places(n, S) = [k \in 1..m |-> lo + k]
<1> DEFINE P == [k \in 1..m |-> lo + k]
<1>1. P \in [1..m -> 1..n]
  OBVIOUS
<1>2. \A k \in 1..m : P[k] = lo + k
  OBVIOUS
<1> HIDE DEF P
<1>3. P \in Seq(1..n) /\ Len(P) = m
  BY <1>1, FnIsSeq
<1>4. \A k \in 1..m : lo + k \in S
  <2> SUFFICES ASSUME NEW k \in 1..m PROVE lo + k \in S
    OBVIOUS
  <2>1. lo + k \in (lo + 1)..(lo + m)
    OBVIOUS
  <2> QED BY <2>1
<1>5. \A x \in S \cap (1..n) : \E k \in 1..m : P[k] = x
  <2> SUFFICES ASSUME NEW x \in (lo + 1)..(lo + m) PROVE \E k \in 1..m : P[k] = x
    OBVIOUS
  <2>1. x - lo \in 1..m /\ lo + (x - lo) = x
    OBVIOUS
  <2> QED BY <1>2, <2>1
<1>6. \A j, k \in 1..m : j < k => P[j] < P[k]
  BY <1>2
<1>7. \A k \in 1..m : P[k] \in S
  BY <1>2, <1>4
<1>8. Lists(P, n, S)
  BY <1>3, <1>5, <1>6, <1>7, Zenon DEF Lists
<1>9. Places(n, S) = P
  BY <1>8, PlacesAre
<1> QED BY <1>9 DEF P

\* Numbers in ascending order.
Less == {e \in Nat \X Nat : e[1] < e[2]}

\* An ascending list with the right elements is the list of the places.
LEMMA PlacesByElements ==
  ASSUME NEW n \in Nat, NEW S, NEW q \in Seq(Nat), ToSet(q) = S \cap (1..n), Ordered(q, Less)
  PROVE  q = Places(n, S)
<1>1. Len(q) \in Nat /\ DOMAIN q = 1..Len(q) /\ q \in [1..Len(q) -> Nat]
  OBVIOUS
<1>2. ToSet(q) = {q[k] : k \in 1..Len(q)}
  BY <1>1 DEF ToSet
<1>3. \A k \in 1..Len(q) : q[k] \in S \cap (1..n)
  BY <1>2
<1>4. q \in [1..Len(q) -> 1..n]
  BY <1>1, <1>3
<1>5. q \in Seq(1..n)
  BY <1>1, <1>4, FnIsSeq
<1>6. \A j, k \in 1..Len(q) : j < k => q[j] < q[k]
  <2> SUFFICES ASSUME NEW j \in 1..Len(q), NEW k \in 1..Len(q), j < k PROVE q[j] < q[k]
    OBVIOUS
  <2>1. <<q[j], q[k]>> \in Less
    BY DEF Ordered
  <2> QED BY <2>1 DEF Less
<1>7. \A x \in S \cap (1..n) : \E k \in 1..Len(q) : q[k] = x
  BY <1>2
<1>8. Lists(q, n, S)
  BY <1>3, <1>5, <1>6, <1>7 DEF Lists
<1> QED BY <1>8, PlacesAre

\* A text that is left out when it is empty is not missed.
LEMMA NothingOrOne ==
  ASSUME NEW A, NEW x \in Seq(A)
  PROVE  FlattenSeq(IF x = <<>> THEN <<>> ELSE <<x>>) = x
<1>1. FlattenSeq(<<>>) = <<>>
  <2>1. Len(<<>>) = 0
    OBVIOUS
  <2> QED BY <2>1 DEF FlattenSeq
<1>2. FlattenSeq(<<x>>) = x
  <2> DEFINE ss == <<x>>
  <2>1. Len(ss) = 1 /\ ss[1] = x
    OBVIOUS
  <2> HIDE DEF ss
  <2>2. PICK f : Flattening(f, Len(ss), ss) /\ FlattenSeq(ss) = f[Len(ss)]
    <3>1. Len(ss) \in Nat /\ Len(ss) # 0
      BY <2>1
    <3> QED BY <3>1, FlattenIs
  <2>3. f[1] = ss[1]
    BY <2>1, <2>2 DEF Flattening
  <2> QED BY <2>1, <2>2, <2>3 DEF ss
<1> QED BY <1>1, <1>2

\* A unit's part from each unit that has one, joined, is the list of these units.
LEMMA UnitsInOrder ==
  ASSUME NEW n \in Nat, NEW b \in [1..n -> BOOLEAN], NEW ss, ss = [i \in 1..n |-> Unit(i, b[i])]
  PROVE  FlattenSeq(ss) = Places(n, {i \in 1..n : b[i]})
<1> DEFINE S == {i \in 1..n : b[i]}
<1>1. ASSUME NEW i \in 1..n
      PROVE  /\ ss[i] \in Seq(Nat) /\ Ordered(ss[i], Less)
             /\ ToSet(ss[i]) = (IF b[i] THEN {i} ELSE {})
  BY DEF Unit, Ordered, ToSet
<1>2. ss \in [1..n -> Seq(Nat)]
  BY <1>1
<1>3. ss \in Seq(Seq(Nat)) /\ Len(ss) = n
  BY <1>2, FnIsSeq
<1>4. \A i \in 1..Len(ss) : Ordered(ss[i], Less)
  BY <1>1, <1>3
<1>5. ASSUME NEW i \in 1..Len(ss), NEW j \in 1..Len(ss), i < j,
             NEW x \in ToSet(ss[i]), NEW y \in ToSet(ss[j])
      PROVE  <<x, y>> \in Less
  <2>0. i \in 1..n /\ j \in 1..n
    BY <1>3
  <2>1. x \in (IF b[i] THEN {i} ELSE {}) /\ y \in (IF b[j] THEN {j} ELSE {})
    BY <1>1, <2>0
  <2>2. x = i /\ y = j
    BY <2>1
  <2> QED BY <1>5, <2>0, <2>2 DEF Less
<1>6. FlattenSeq(ss) \in Seq(Nat)
  BY <1>3, FlattenFacts
<1>7. ToSet(FlattenSeq(ss)) = Through(ss, Len(ss))
  BY <1>3, FlattenFacts
<1>8. Ordered(FlattenSeq(ss), Less)
  BY <1>3, <1>4, <1>5, FlattenFacts
<1>9. Through(ss, n) = S \cap (1..n)
  <2>1. \A i \in 1..n : ToSet(ss[i]) = IF b[i] THEN {i} ELSE {}
    BY <1>1
  <2>2. ASSUME NEW x \in Through(ss, n) PROVE x \in S
    <3>1. PICK i \in 1..n : x \in ToSet(ss[i])
      BY DEF Through
    <3>2. x \in (IF b[i] THEN {i} ELSE {})
      BY <2>1, <3>1
    <3> QED BY <3>2
  <2>3. ASSUME NEW x \in S PROVE x \in Through(ss, n)
    <3>1. x \in 1..n /\ b[x]
      OBVIOUS
    <3>2. x \in ToSet(ss[x])
      BY <2>1, <3>1
    <3> QED BY <3>1, <3>2 DEF Through
  <2> QED BY <2>2, <2>3
<1> HIDE DEF S
<1>10. FlattenSeq(ss) = Places(n, S)
  BY <1>3, <1>6, <1>7, <1>8, <1>9, PlacesByElements
<1> QED BY <1>10 DEF S

\* f is what a loop over 1..m has reached after each turn, from e by the table g.
Recursion(f, A, e, m, g) ==
    f \in [0..m -> A] /\ f[0] = e /\ \A n \in 1..m : f[n] = g[<<f[n - 1], n>>]

\* Every loop with a table for its body has such an f.
LEMMA RecursionExists ==
  ASSUME NEW A, NEW e \in A, NEW N \in Nat, NEW g, g \in [A \X (1..N) -> A]
  PROVE  \E f : Recursion(f, A, e, N, g)
<1> DEFINE Sol(f, m) == f \in [0..m -> A] /\ f[0] = e /\ \A n \in 1..m : f[n] = g[<<f[n - 1], n>>]
           T == {m \in Nat : m <= N => \E f : Sol(f, m)}
<1>1. 0 \in T
  <2> DEFINE f == [k \in 0..0 |-> e]
  <2>1. Sol(f, 0)
    OBVIOUS
  <2> HIDE DEF Sol
  <2> QED BY <2>1
<1>2. ASSUME NEW m \in T PROVE m + 1 \in T
  <2> SUFFICES ASSUME m + 1 <= N PROVE \E f : Sol(f, m + 1)
    OBVIOUS
  <2>1. m \in Nat /\ m <= N /\ \E f : Sol(f, m)
    <3> HIDE DEF Sol
    <3> QED OBVIOUS
  <2>2. PICK f : Sol(f, m)
    BY <2>1
  <2> DEFINE last == g[<<f[m], m + 1>>]
             h == [k \in 0..(m + 1) |-> IF k = m + 1 THEN last ELSE f[k]]
  <2>3. last \in A
    <3>1. f[m] \in A /\ m + 1 \in 1..N
      BY <2>1, <2>2
    <3> QED BY <3>1
  <2>4. h \in [0..(m + 1) -> A] /\ h[0] = e
    BY <2>1, <2>2, <2>3
  <2>5. ASSUME NEW n \in 1..(m + 1) PROVE h[n] = g[<<h[n - 1], n>>]
    <3>1. CASE n = m + 1
      <4>1. h[n] = last /\ h[n - 1] = f[m]
        BY <2>1, <3>1
      <4> QED BY <3>1, <4>1
    <3>2. CASE n \in 1..m
      <4>1. h[n] = f[n] /\ h[n - 1] = f[n - 1]
        BY <2>1, <3>2
      <4>2. f[n] = g[<<f[n - 1], n>>]
        BY <2>2, <3>2
      <4> HIDE DEF h
      <4> QED BY <4>1, <4>2
    <3> QED BY <2>1, <3>1, <3>2
  <2>6. Sol(h, m + 1)
    <3> HIDE DEF h, last
    <3> QED BY <2>4, <2>5
  <2> HIDE DEF Sol
  <2> QED BY <2>6
<1>3. T \in SUBSET Nat
  OBVIOUS
<1>4. \A m \in T : m <= N => \E f : Sol(f, m)
  <2> HIDE DEF Sol
  <2> QED OBVIOUS
<1> HIDE DEF T
<1>5. N \in T
  BY <1>1, <1>2, <1>3, NatInd
<1>6. \E f : Sol(f, N)
  <2> HIDE DEF Sol
  <2> QED BY <1>4, <1>5
<1> QED BY <1>6 DEF Recursion

-----------------------------------------------------------------------------
\* The blocks of a message, by kind.

\* Events and blocks, and the places of those of one kind.
Kinds == {"text", "reasoning", "toolcall", "thinking", "toolCall"}
Entry == [type : Kinds, body : Seq(Nat)]
OfType(items, t) == {k \in 1..Len(items) : items[k].type = t}

\* What Bodies collects, by places.
LEMMA BodiesAre ==
  ASSUME NEW items \in Seq(Entry), NEW t, NEW P, P = Places(Len(items), OfType(items, t))
  PROVE  Bodies(items, t) = [k \in 1..Len(P) |-> items[P[k]].body]
<1> DEFINE S == OfType(items, t)
<1>1. DOMAIN items = 1..Len(items) /\ Len(items) \in Nat
  OBVIOUS
<1>2. {k \in DOMAIN items : items[k].type = t} = S
  BY <1>1 DEF OfType
<1> HIDE DEF S
<1>3. Keep(Len(items), items, S) = Taken(items, P)
  BY <1>1, KeepAt DEF S
<1>4. P \in Seq(1..Len(items))
  BY <1>1, PlacesList DEF Lists
<1>5. DOMAIN Taken(items, P) = 1..Len(P) /\ \A k \in 1..Len(P) : Taken(items, P)[k] = items[P[k]]
  BY DEF Taken
<1> QED BY <1>2, <1>3, <1>5 DEF Bodies

\* The items of kind t are the m that follow the first lo.
RunAt(items, t, lo, m) == lo + m <= Len(items) /\ OfType(items, t) = (lo + 1)..(lo + m)

\* Items of one kind that follow each other are collected as they stand.
LEMMA RunOfBodies ==
  ASSUME NEW items \in Seq(Entry), NEW t, NEW lo \in Nat, NEW m \in Nat, RunAt(items, t, lo, m)
  PROVE  Bodies(items, t) = [k \in 1..m |-> items[lo + k].body]
<1> DEFINE P == [k \in 1..m |-> lo + k]
<1>1. Len(items) \in Nat /\ lo + m <= Len(items)
  BY DEF RunAt
<1>2. OfType(items, t) \cap (1..Len(items)) = (lo + 1)..(lo + m)
  BY DEF OfType, RunAt
<1>3. P = Places(Len(items), OfType(items, t))
  <2> DEFINE S == OfType(items, t)
  <2>1. S \cap (1..Len(items)) = (lo + 1)..(lo + m)
    BY <1>2
  <2> HIDE DEF S
  <2>2. P = Places(Len(items), S)
    BY <1>1, <2>1, PlacesRun
  <2> QED BY <2>2 DEF S
<1>4. P \in [1..m -> Nat] /\ \A k \in 1..m : P[k] = lo + k
  OBVIOUS
<1> HIDE DEF P
<1>5. Len(P) = m
  BY <1>4, FnIsSeq
<1>6. Bodies(items, t) = [k \in 1..Len(P) |-> items[P[k]].body]
  BY <1>3, BodiesAre
<1> QED BY <1>4, <1>5, <1>6

\* Items has one item for each body.
LEMMA ItemsAre ==
  ASSUME NEW t \in Kinds, NEW bodies \in Seq(Seq(Nat))
  PROVE  /\ Items(t, bodies) \in Seq(Entry) /\ Len(Items(t, bodies)) = Len(bodies)
         /\ \A k \in 1..Len(bodies) :
               Items(t, bodies)[k].type = t /\ Items(t, bodies)[k].body = bodies[k]
<1> DEFINE s == Items(t, bodies)
<1>1. DOMAIN bodies = 1..Len(bodies) /\ Len(bodies) \in Nat /\ \A k \in 1..Len(bodies) : bodies[k] \in Seq(Nat)
  OBVIOUS
<1>2. s = [k \in 1..Len(bodies) |-> [type |-> t, body |-> bodies[k]]]
  BY <1>1 DEF Items, Item
<1> HIDE DEF s
<1>3. s \in [1..Len(bodies) -> Entry]
  BY <1>1, <1>2 DEF Entry
<1>4. s \in Seq(Entry) /\ Len(s) = Len(bodies)
  BY <1>1, <1>3, FnIsSeq
<1>5. \A k \in 1..Len(bodies) : s[k].type = t /\ s[k].body = bodies[k]
  BY <1>2
<1> QED BY <1>4, <1>5 DEF s

\* A place of three joined sequences is in one of them.
LEMMA ThreeRuns ==
  ASSUME NEW l \in Nat, NEW m \in Nat, NEW n \in Nat, NEW k \in 1..(l + m + n)
  PROVE  \/ k \in 1..l
         \/ k - l \in 1..m /\ l + (k - l) = k /\ k \in (l + 1)..(l + m)
         \/ k - (l + m) \in 1..n /\ l + m + (k - (l + m)) = k /\ k \in (l + m + 1)..(l + m + n)
OBVIOUS

\* t is q, r and s, one behind the other, told by places.
InThree(t, q, r, s, l, m, n) ==
    /\ l \in Nat /\ m \in Nat /\ n \in Nat /\ DOMAIN t = 1..(l + m + n)
    /\ \A k \in 1..l : t[k] = q[k]
    /\ \A k \in 1..m : t[l + k] = r[k]
    /\ \A k \in 1..n : t[l + m + k] = s[k]

\* Joining three sequences does that ...
LEMMA ThreeJoined ==
  ASSUME NEW A, NEW q \in Seq(A), NEW r \in Seq(A), NEW s \in Seq(A)
  PROVE  /\ q \o r \o s \in Seq(A) /\ Len(q \o r \o s) = Len(q) + Len(r) + Len(s)
         /\ InThree(q \o r \o s, q, r, s, Len(q), Len(r), Len(s))
<1> DEFINE D == q \o r
           E == D \o s
           l == Len(q)
           m == Len(r)
           n == Len(s)
<1>1. l \in Nat /\ m \in Nat /\ n \in Nat
  OBVIOUS
<1>2. /\ D \in Seq(A) /\ Len(D) = l + m
      /\ \A k \in 1..(l + m) : D[k] = IF k <= l THEN q[k] ELSE r[k - l]
  BY ConcatProperties
<1> HIDE DEF D
<1> HIDE DEF l, m
<1>3. /\ E \in Seq(A) /\ Len(E) = (l + m) + n
      /\ \A k \in 1..((l + m) + n) : E[k] = IF k <= l + m THEN D[k] ELSE s[k - (l + m)]
  <2>1. D \in Seq(A) /\ Len(D) = l + m
    BY <1>2
  <2>2. /\ E \in Seq(A) /\ Len(E) = Len(D) + Len(s)
        /\ \A k \in 1..(Len(D) + Len(s)) : E[k] = IF k <= Len(D) THEN D[k] ELSE s[k - Len(D)]
    BY <2>1, ConcatProperties
  <2> QED BY <2>1, <2>2
<1>4. DOMAIN E = 1..(l + m + n)
  BY <1>3
<1> HIDE DEF E, n
<1>5. ASSUME NEW k \in 1..l PROVE E[k] = q[k]
  <2>1. k \in 1..(l + m) /\ k \in 1..((l + m) + n) /\ k <= l + m /\ k <= l
    BY <1>1
  <2> QED BY <1>2, <1>3, <2>1
<1>6. ASSUME NEW k \in 1..m PROVE E[l + k] = r[k]
  <2>1. /\ l + k \in 1..(l + m) /\ l + k \in 1..((l + m) + n) /\ l + k <= l + m
        /\ ~(l + k <= l) /\ (l + k) - l = k
    BY <1>1
  <2> QED BY <1>2, <1>3, <2>1
<1>7. ASSUME NEW k \in 1..n PROVE E[l + m + k] = s[k]
  <2>1. l + m + k \in 1..((l + m) + n) /\ ~(l + m + k <= l + m) /\ (l + m + k) - (l + m) = k
    BY <1>1
  <2> QED BY <1>3, <2>1
<1>8. InThree(E, q, r, s, l, m, n)
  BY <1>1, <1>4, <1>5, <1>6, <1>7 DEF InThree
<1> QED BY <1>3, <1>8 DEF D, E, l, m, n

\* ... and nothing else does.
LEMMA JoinedOnce ==
  ASSUME NEW t, NEW u, NEW q, NEW r, NEW s, NEW l, NEW m, NEW n,
         InThree(t, q, r, s, l, m, n), InThree(u, q, r, s, l, m, n),
         NEW k \in 1..(l + m + n)
  PROVE  t[k] = u[k]
<1>1. CASE k \in 1..l
  BY <1>1 DEF InThree
<1>2. CASE k - l \in 1..m /\ l + (k - l) = k
  <2>1. t[l + (k - l)] = r[k - l] /\ u[l + (k - l)] = r[k - l]
    BY <1>2 DEF InThree
  <2> QED BY <1>2, <2>1
<1>3. CASE k - (l + m) \in 1..n /\ l + m + (k - (l + m)) = k
  <2>1. /\ t[l + m + (k - (l + m))] = s[k - (l + m)]
        /\ u[l + m + (k - (l + m))] = s[k - (l + m)]
    BY <1>3 DEF InThree
  <2> QED BY <1>3, <2>1
<1>4. l \in Nat /\ m \in Nat /\ n \in Nat
  BY DEF InThree
<1> QED BY <1>1, <1>2, <1>3, <1>4, ThreeRuns

\* A message: l thoughts, then m texts, then n calls.
ThreeKinds(items, a, b, c, l, m, n) ==
    /\ items \in Seq(Entry) /\ Len(items) = l + m + n
    /\ l \in Nat /\ m \in Nat /\ n \in Nat
    /\ \A k \in 1..l : items[k].type = "thinking" /\ items[k].body = a[k]
    /\ \A k \in 1..m : items[l + k].type = "text" /\ items[l + k].body = b[k]
    /\ \A k \in 1..n : items[l + m + k].type = "toolCall" /\ items[l + m + k].body = c[k]

\* Each of its three kinds of block follow each other ...
LEMMA MessageRuns ==
  ASSUME NEW items, NEW a, NEW b, NEW c, NEW l, NEW m, NEW n, ThreeKinds(items, a, b, c, l, m, n)
  PROVE  /\ RunAt(items, "thinking", 0, l)
         /\ RunAt(items, "text", l, m)
         /\ RunAt(items, "toolCall", l + m, n)
<1>0. l \in Nat /\ m \in Nat /\ n \in Nat
  BY DEF ThreeKinds
<1>1. ASSUME NEW k \in 1..(l + m + n)
      PROVE  \/ k \in 1..l /\ items[k].type = "thinking"
             \/ k \in (l + 1)..(l + m) /\ items[k].type = "text"
             \/ k \in (l + m + 1)..(l + m + n) /\ items[k].type = "toolCall"
  <2>1. CASE k \in 1..l
    BY <2>1 DEF ThreeKinds
  <2>2. CASE k - l \in 1..m /\ l + (k - l) = k /\ k \in (l + 1)..(l + m)
    <3>1. items[l + (k - l)].type = "text"
      BY <2>2 DEF ThreeKinds
    <3> QED BY <2>2, <3>1
  <2>3. CASE k - (l + m) \in 1..n /\ l + m + (k - (l + m)) = k /\ k \in (l + m + 1)..(l + m + n)
    <3>1. items[l + m + (k - (l + m))].type = "toolCall"
      BY <2>3 DEF ThreeKinds
    <3> QED BY <2>3, <3>1
  <2> QED BY <1>0, <2>1, <2>2, <2>3, ThreeRuns
<1>2. /\ 1..l \subseteq 1..(l + m + n)
      /\ (l + 1)..(l + m) \subseteq 1..(l + m + n)
      /\ (l + m + 1)..(l + m + n) \subseteq 1..(l + m + n)
  BY <1>0
<1>3. /\ \A k \in (l + 1)..(l + m) : k \notin 1..l /\ k \notin (l + m + 1)..(l + m + n)
      /\ \A k \in (l + m + 1)..(l + m + n) : k \notin 1..l
  BY <1>0
<1> DEFINE X == (l + 1)..(l + m)
           Y == (l + m + 1)..(l + m + n)
           Z == 1..(l + m + n)
           W == 1..l
<1>4. \A k \in Z : \/ k \in W /\ items[k].type = "thinking"
                   \/ k \in X /\ items[k].type = "text"
                   \/ k \in Y /\ items[k].type = "toolCall"
  BY <1>1
<1>5. /\ W \subseteq Z /\ X \subseteq Z /\ Y \subseteq Z
      /\ \A k \in X : k \notin W /\ k \notin Y
      /\ \A k \in Y : k \notin W
  BY <1>2, <1>3
<1>6. \A t : OfType(items, t) = {k \in Z : items[k].type = t}
  BY DEF OfType, ThreeKinds
<1>7. OfType(items, "thinking") = W /\ OfType(items, "text") = X /\ OfType(items, "toolCall") = Y
  <2> HIDE DEF W, X, Y, Z
  <2> QED BY <1>4, <1>5, <1>6
<1>8. 0 + 1 = 1 /\ 0 + l = l /\ l <= l + m + n /\ l + m <= l + m + n /\ (l + m) + n <= l + m + n
  BY <1>0
<1>9. Len(items) = l + m + n
  BY DEF ThreeKinds
<1> QED BY <1>7, <1>8, <1>9 DEF RunAt

\* ... and can be told apart again.
LEMMA KindsApart ==
  ASSUME NEW items, NEW a, NEW b, NEW c, NEW l, NEW m, NEW n, ThreeKinds(items, a, b, c, l, m, n)
  PROVE  /\ Bodies(items, "thinking") = [k \in 1..l |-> a[k]]
         /\ Bodies(items, "text") = [k \in 1..m |-> b[k]]
         /\ Bodies(items, "toolCall") = [k \in 1..n |-> c[k]]
<1>1. items \in Seq(Entry) /\ l \in Nat /\ m \in Nat /\ n \in Nat /\ l + m \in Nat
  BY DEF ThreeKinds
<1>2. RunAt(items, "thinking", 0, l)
  BY MessageRuns
<1>3. RunAt(items, "text", l, m)
  BY MessageRuns
<1>4. RunAt(items, "toolCall", l + m, n)
  BY MessageRuns
<1>5. Bodies(items, "thinking") = [k \in 1..l |-> items[0 + k].body]
  BY <1>1, <1>2, RunOfBodies
<1>6. Bodies(items, "text") = [k \in 1..m |-> items[l + k].body]
  BY <1>1, <1>3, RunOfBodies
<1>7. Bodies(items, "toolCall") = [k \in 1..n |-> items[(l + m) + k].body]
  BY <1>1, <1>4, RunOfBodies
<1>8. \A k \in 1..l : items[0 + k].body = a[k]
  <2>1. \A k \in 1..l : 0 + k = k
    BY <1>1
  <2> QED BY <2>1 DEF ThreeKinds
<1>9. /\ \A k \in 1..m : items[l + k].body = b[k]
      /\ \A k \in 1..n : items[l + m + k].body = c[k]
  BY DEF ThreeKinds
<1> QED BY <1>5, <1>6, <1>7, <1>8, <1>9

\* The message that replayRunpodStream writes is of this kind.
LEMMA MessageOfItems ==
  ASSUME NEW a \in Seq(Seq(Nat)), NEW b \in Seq(Seq(Nat)), NEW c \in Seq(Seq(Nat))
  PROVE  ThreeKinds(Items("thinking", a) \o Items("text", b) \o Items("toolCall", c),
                 a, b, c, Len(a), Len(b), Len(c))
<1> DEFINE A == Items("thinking", a)
           B == Items("text", b)
           C == Items("toolCall", c)
           M == A \o B \o C
           l == Len(a)
           m == Len(b)
           n == Len(c)
<1>1. "thinking" \in Kinds /\ "text" \in Kinds /\ "toolCall" \in Kinds
  BY DEF Kinds
<1>2. A \in Seq(Entry) /\ Len(A) = l /\ \A k \in 1..l : A[k].type = "thinking" /\ A[k].body = a[k]
  BY <1>1, ItemsAre
<1>3. B \in Seq(Entry) /\ Len(B) = m /\ \A k \in 1..m : B[k].type = "text" /\ B[k].body = b[k]
  BY <1>1, ItemsAre
<1>4. C \in Seq(Entry) /\ Len(C) = n /\ \A k \in 1..n : C[k].type = "toolCall" /\ C[k].body = c[k]
  BY <1>1, ItemsAre
<1>5. l \in Nat /\ m \in Nat /\ n \in Nat
  OBVIOUS
<1> HIDE DEF A, B, C, l, m, n
<1>6. M \in Seq(Entry) /\ Len(M) = l + m + n
  <2>1. A \in Seq(Entry) /\ B \in Seq(Entry) /\ C \in Seq(Entry)
    BY <1>2, <1>3, <1>4
  <2>2. M \in Seq(Entry) /\ Len(M) = Len(A) + Len(B) + Len(C)
    BY <2>1
  <2> HIDE DEF M
  <2> QED BY <1>2, <1>3, <1>4, <2>2
<1>7. InThree(M, A, B, C, l, m, n)
  BY <1>2, <1>3, <1>4, ThreeJoined
<1> HIDE DEF M
<1>8. /\ \A k \in 1..l : M[k] = A[k]
      /\ \A k \in 1..m : M[l + k] = B[k]
      /\ \A k \in 1..n : M[l + m + k] = C[k]
  BY <1>7 DEF InThree
<1>9. ThreeKinds(M, a, b, c, l, m, n)
  <2>1. \A k \in 1..l : M[k].type = "thinking" /\ M[k].body = a[k]
    BY <1>2, <1>8
  <2>2. \A k \in 1..m : M[l + k].type = "text" /\ M[l + k].body = b[k]
    BY <1>3, <1>8
  <2>3. \A k \in 1..n : M[l + m + k].type = "toolCall" /\ M[l + m + k].body = c[k]
    BY <1>4, <1>8
  <2> QED BY <1>5, <1>6, <2>1, <2>2, <2>3, Zenon DEF ThreeKinds
<1> QED BY <1>9 DEF A, B, C, M, l, m, n

\* The same, as the action writes it.
Written(items, a, b, c) ==
    items = Items("thinking", a) \o Items("text", b) \o Items("toolCall", c)

\* The thoughts, the texts and the calls of a written message are those it was
\* written from, and its blocks are these in this order.
LEMMA MessageBodies ==
  ASSUME NEW a \in Seq(Seq(Nat)), NEW b \in Seq(Seq(Nat)), NEW c \in Seq(Seq(Nat)), NEW items,
         Written(items, a, b, c)
  PROVE  /\ Bodies(items, "thinking") = a
         /\ Bodies(items, "text") = b
         /\ Bodies(items, "toolCall") = c
         /\ [i \in DOMAIN items |-> items[i].body] = a \o b \o c
<1> DEFINE l == Len(a)
           m == Len(b)
           n == Len(c)
           q == [i \in DOMAIN items |-> items[i].body]
<1>1. ThreeKinds(items, a, b, c, l, m, n)
  BY MessageOfItems DEF Written
<1>2. a = [k \in 1..l |-> a[k]] /\ b = [k \in 1..m |-> b[k]] /\ c = [k \in 1..n |-> c[k]]
  OBVIOUS
<1>3. a \o b \o c \in Seq(Seq(Nat)) /\ Len(a \o b \o c) = l + m + n
  BY ThreeJoined
<1>4. InThree(a \o b \o c, a, b, c, l, m, n)
  BY ThreeJoined
<1> HIDE DEF l, m, n
<1>5. Bodies(items, "thinking") = a /\ Bodies(items, "text") = b /\ Bodies(items, "toolCall") = c
  <2>1. Bodies(items, "thinking") = [k \in 1..l |-> a[k]]
    BY <1>1, KindsApart
  <2>2. Bodies(items, "text") = [k \in 1..m |-> b[k]]
    BY <1>1, KindsApart
  <2>3. Bodies(items, "toolCall") = [k \in 1..n |-> c[k]]
    BY <1>1, KindsApart
  <2> QED BY <1>2, <2>1, <2>2, <2>3
<1>6. l \in Nat /\ m \in Nat /\ n \in Nat /\ DOMAIN items = 1..(l + m + n)
  BY <1>1 DEF ThreeKinds
<1>7. \A k \in 1..(l + m + n) : q[k] = items[k].body
  BY <1>6
<1>8. DOMAIN q = 1..(l + m + n)
  BY <1>6
<1>9. q = [k \in 1..(l + m + n) |-> q[k]]
  BY <1>6
<1> HIDE DEF q
<1>10. InThree(q, a, b, c, l, m, n)
  <2>1. /\ \A k \in 1..l : k \in 1..(l + m + n)
        /\ \A k \in 1..m : l + k \in 1..(l + m + n)
        /\ \A k \in 1..n : l + m + k \in 1..(l + m + n)
    BY <1>6
  <2>2. /\ \A k \in 1..l : items[k].body = a[k]
        /\ \A k \in 1..m : items[l + k].body = b[k]
        /\ \A k \in 1..n : items[l + m + k].body = c[k]
    BY <1>1 DEF ThreeKinds
  <2>3. /\ \A k \in 1..l : q[k] = a[k]
        /\ \A k \in 1..m : q[l + k] = b[k]
        /\ \A k \in 1..n : q[l + m + k] = c[k]
    BY <1>7, <2>1, <2>2
  <2> QED BY <1>6, <1>8, <2>3 DEF InThree
<1> DEFINE u == a \o b \o c
<1>11. u \in Seq(Seq(Nat)) /\ Len(u) = l + m + n /\ InThree(u, a, b, c, l, m, n)
  BY <1>3, <1>4
<1> HIDE DEF u
<1>14. u = [k \in 1..(l + m + n) |-> u[k]]
  BY <1>11
<1>12. \A k \in 1..(l + m + n) : q[k] = u[k]
  BY <1>10, <1>11, JoinedOnce
<1>13. q = u
  BY <1>9, <1>14, <1>12
<1> QED BY <1>5, <1>13 DEF q, u

\* Bodies finds every item of the kind and no other ...
LEMMA BodiesElements ==
  ASSUME NEW items \in Seq(Entry), NEW t
  PROVE  /\ Bodies(items, t) \in Seq(Seq(Nat))
         /\ ToSet(Bodies(items, t)) = {items[k].body : k \in OfType(items, t)}
<1> DEFINE P == Places(Len(items), OfType(items, t))
           q == Bodies(items, t)
<1>0. \A e \in Entry : e.body \in Seq(Nat)
  BY DEF Entry
<1>1. Len(items) \in Nat /\ \A k \in 1..Len(items) : items[k].body \in Seq(Nat)
  BY <1>0
<1>2. Lists(P, Len(items), OfType(items, t))
  BY <1>1, PlacesList
<1>3. q = [k \in 1..Len(P) |-> items[P[k]].body]
  BY BodiesAre
<1> HIDE DEF P, q
<1>4. P \in Seq(1..Len(items)) /\ Len(P) \in Nat /\ \A k \in 1..Len(P) : P[k] \in 1..Len(items)
  BY <1>2 DEF Lists
<1>5. q \in [1..Len(P) -> Seq(Nat)]
  BY <1>1, <1>3, <1>4
<1>6. q \in Seq(Seq(Nat)) /\ Len(q) = Len(P)
  BY <1>4, <1>5, FnIsSeq
<1>7. ToSet(q) = {items[P[k]].body : k \in 1..Len(P)}
  BY <1>3 DEF ToSet
<1>8. \A k \in 1..Len(P) : P[k] \in OfType(items, t)
  BY <1>2 DEF Lists
<1>9. \A x \in OfType(items, t) : \E k \in 1..Len(P) : P[k] = x
  BY <1>2 DEF Lists, OfType
<1>10. ToSet(q) = {items[k].body : k \in OfType(items, t)}
  BY <1>7, <1>8, <1>9
<1> QED BY <1>6, <1>10 DEF q

\* ... and keeps their order.
LEMMA BodiesOrdered ==
  ASSUME NEW items \in Seq(Entry), NEW t, NEW R, NEW Q, Ordered(items, R),
         \A d, e \in Entry : <<d, e>> \in R /\ d.type = t /\ e.type = t => <<d.body, e.body>> \in Q
  PROVE  Ordered(Bodies(items, t), Q)
<1> DEFINE P == Places(Len(items), OfType(items, t))
           q == Bodies(items, t)
<1>0. \A e \in Entry : e.body \in Seq(Nat)
  BY DEF Entry
<1>1. Len(items) \in Nat /\ \A k \in 1..Len(items) : items[k] \in Entry /\ items[k].body \in Seq(Nat)
  BY <1>0
<1>2. Lists(P, Len(items), OfType(items, t))
  BY <1>1, PlacesList
<1>3. q = [k \in 1..Len(P) |-> items[P[k]].body]
  BY BodiesAre
<1> HIDE DEF P, q
<1>4. P \in Seq(1..Len(items)) /\ Len(P) \in Nat /\ \A k \in 1..Len(P) : P[k] \in 1..Len(items)
  BY <1>2 DEF Lists
<1>5. q \in [1..Len(P) -> Seq(Nat)]
  BY <1>1, <1>3, <1>4
<1>6. Len(q) = Len(P)
  BY <1>4, <1>5, FnIsSeq
<1>7. ASSUME NEW j \in 1..Len(q), NEW k \in 1..Len(q), j < k PROVE <<q[j], q[k]>> \in Q
  <2>1. P[j] < P[k] /\ P[j] \in OfType(items, t) /\ P[k] \in OfType(items, t)
    BY <1>2, <1>6, <1>7 DEF Lists
  <2>2. P[j] \in 1..Len(items) /\ P[k] \in 1..Len(items)
    BY <1>4, <1>6
  <2>3. <<items[P[j]], items[P[k]]>> \in R
    BY <2>1, <2>2 DEF Ordered
  <2>4. items[P[j]].type = t /\ items[P[k]].type = t
    BY <2>1 DEF OfType
  <2>5. <<items[P[j]].body, items[P[k]].body>> \in Q
    BY <1>1, <2>2, <2>3, <2>4
  <2> QED BY <1>3, <1>6, <2>5
<1>8. Ordered(q, Q)
  BY <1>7 DEF Ordered
<1> QED BY <1>8 DEF q

-----------------------------------------------------------------------------
\* Events in threes.

\* Pushed events; the three events of one block; and that the three of a block stand
\* at the j-th place of a list, or those of n blocks one behind the other.
Ev == [what : {"start", "delta", "end"}, index : Nat, body : Seq(Nat)]
Three(i, delta, body) == <<Push("start", i, <<>>), Push("delta", i, delta), Push("end", i, body)>>
TripleAt(q, j, i, delta, body) ==
    q[3 * j - 2] = Push("start", i, <<>>) /\ q[3 * j - 1] = Push("delta", i, delta) /\ q[3 * j] = Push("end", i, body)
InTriples(q, deltas, bodies, n, from) ==
    q \in Seq(Ev) /\ Len(q) = 3 * n /\ \A j \in 1..n : TripleAt(q, j, from + j - 1, deltas[j], bodies[j])

\* The three events of a block.
LEMMA ThreeIs ==
  ASSUME NEW i \in Nat, NEW delta \in Seq(Nat), NEW body \in Seq(Nat)
  PROVE  /\ Three(i, delta, body) \in Seq(Ev) /\ Len(Three(i, delta, body)) = 3
         /\ Three(i, delta, body)[1] = Push("start", i, <<>>)
         /\ Three(i, delta, body)[2] = Push("delta", i, delta)
         /\ Three(i, delta, body)[3] = Push("end", i, body)
<1> DEFINE a == Push("start", i, <<>>)
           b == Push("delta", i, delta)
           c == Push("end", i, body)
<1>1. a \in Ev /\ b \in Ev /\ c \in Ev
  BY DEF Push, Ev
<1> HIDE DEF a, b, c
<1>2. <<a, b, c>> \in Seq(Ev) /\ Len(<<a, b, c>>) = 3
  BY <1>1
<1> QED BY <1>2 DEF a, b, c, Three

\* The places of two joined sequences.
LEMMA TwoJoined ==
  ASSUME NEW A, NEW q \in Seq(A), NEW r \in Seq(A)
  PROVE  /\ \A k \in 1..Len(q) : (q \o r)[k] = q[k]
         /\ \A k \in 1..Len(r) : (q \o r)[Len(q) + k] = r[k]
OBVIOUS

\* c is the first m of a, then the first n of b.
Joins(c, a, m, b, n) == (\A j \in 1..m : c[j] = a[j]) /\ (\A j \in 1..n : c[m + j] = b[j])

\* Lists of triples join, if the second goes on counting where the first ended ...
LEMMA TriplesJoin ==
  ASSUME NEW d, NEW a, NEW m \in Nat, NEW n \in Nat, NEW q, NEW r, NEW from \in Nat,
         InTriples(q, d, a, m, from),
         NEW e, NEW b, InTriples(r, e, b, n, from + m),
         NEW c, Joins(c, a, m, b, n), NEW g, Joins(g, d, m, e, n)
  PROVE  InTriples(q \o r, g, c, m + n, from)
<1> DEFINE t == q \o r
<1>1. q \in Seq(Ev) /\ Len(q) = 3 * m /\ \A j \in 1..m : TripleAt(q, j, from + j - 1, d[j], a[j])
  BY DEF InTriples
<1>2. r \in Seq(Ev) /\ Len(r) = 3 * n /\ \A j \in 1..n : TripleAt(r, j, from + m + j - 1, e[j], b[j])
  BY DEF InTriples
<1>3. t \in Seq(Ev) /\ Len(t) = 3 * m + 3 * n
  <2>1. q \in Seq(Ev) /\ r \in Seq(Ev)
    BY <1>1, <1>2
  <2>2. t \in Seq(Ev) /\ Len(t) = Len(q) + Len(r)
    BY <2>1
  <2> QED BY <1>1, <1>2, <2>2
<1>4. /\ \A k \in 1..(3 * m) : t[k] = q[k]
      /\ \A k \in 1..(3 * n) : t[3 * m + k] = r[k]
  <2>1. q \in Seq(Ev) /\ r \in Seq(Ev)
    BY <1>1, <1>2
  <2>2. /\ \A k \in 1..Len(q) : t[k] = q[k]
        /\ \A k \in 1..Len(r) : t[Len(q) + k] = r[k]
    BY <2>1, TwoJoined
  <2> HIDE DEF t
  <2>3. Len(q) = 3 * m /\ Len(r) = 3 * n
    BY <1>1, <1>2
  <2> QED BY <2>2, <2>3
<1> HIDE DEF t
<1>5. ASSUME NEW j \in 1..m PROVE TripleAt(t, j, from + j - 1, g[j], c[j])
  <2>1. 3 * j \in 1..(3 * m) /\ 3 * j - 1 \in 1..(3 * m) /\ 3 * j - 2 \in 1..(3 * m)
    OBVIOUS
  <2>2. t[3 * j] = q[3 * j] /\ t[3 * j - 1] = q[3 * j - 1] /\ t[3 * j - 2] = q[3 * j - 2]
    BY <1>4, <2>1
  <2>3. c[j] = a[j] /\ g[j] = d[j] /\ TripleAt(q, j, from + j - 1, d[j], a[j])
    BY <1>1 DEF Joins
  <2> QED BY <2>2, <2>3 DEF TripleAt
<1>6. ASSUME NEW j \in 1..n PROVE TripleAt(t, m + j, from + (m + j) - 1, g[m + j], c[m + j])
  <2>1. 3 * j \in 1..(3 * n) /\ 3 * j - 1 \in 1..(3 * n) /\ 3 * j - 2 \in 1..(3 * n)
    OBVIOUS
  <2>2. /\ t[3 * m + 3 * j] = r[3 * j] /\ t[3 * m + (3 * j - 1)] = r[3 * j - 1]
        /\ t[3 * m + (3 * j - 2)] = r[3 * j - 2]
    BY <1>4, <2>1
  <2>3. c[m + j] = b[j] /\ g[m + j] = e[j] /\ TripleAt(r, j, from + m + j - 1, e[j], b[j])
    BY <1>2 DEF Joins
  <2>4. /\ 3 * m + 3 * j = 3 * (m + j) /\ 3 * m + (3 * j - 1) = 3 * (m + j) - 1
        /\ 3 * m + (3 * j - 2) = 3 * (m + j) - 2 /\ from + m + j - 1 = from + (m + j) - 1
    OBVIOUS
  <2> QED BY <2>2, <2>3, <2>4 DEF TripleAt
<1>7. ASSUME NEW j \in 1..(m + n) PROVE TripleAt(t, j, from + j - 1, g[j], c[j])
  <2>1. CASE j \in 1..m
    BY <1>5, <2>1
  <2>2. CASE ~(j \in 1..m)
    <3>1. j - m \in 1..n /\ m + (j - m) = j
      BY <2>2
    <3> QED BY <1>6, <3>1
  <2> QED BY <2>1, <2>2
<1>8. 3 * m + 3 * n = 3 * (m + n)
  OBVIOUS
<1>9. InTriples(t, g, c, m + n, from)
  BY <1>3, <1>7, <1>8 DEF InTriples
<1> QED BY <1>9 DEF t

\* ... begin with a list of one ...
LEMMA TriplesOfOne ==
  ASSUME NEW i \in Nat, NEW delta \in Seq(Nat), NEW body \in Seq(Nat),
         NEW d, d[1] = delta, NEW b, b[1] = body
  PROVE  InTriples(Three(i, delta, body), d, b, 1, i)
<1> DEFINE t == Three(i, delta, body)
<1>1. t \in Seq(Ev) /\ Len(t) = 3 /\ t[1] = Push("start", i, <<>>) /\ t[2] = Push("delta", i, delta) /\ t[3] = Push("end", i, body)
  BY ThreeIs
<1> HIDE DEF t
<1>2. ASSUME NEW j \in 1..1 PROVE TripleAt(t, j, i + j - 1, d[j], b[j])
  <2>1. j = 1 /\ 3 * j - 2 = 1 /\ 3 * j - 1 = 2 /\ 3 * j = 3 /\ i + j - 1 = i
    OBVIOUS
  <2> QED BY <1>1, <2>1 DEF TripleAt
<1>3. InTriples(t, d, b, 1, i)
  BY <1>1, <1>2 DEF InTriples
<1> QED BY <1>3 DEF t

\* ... and are what Triples makes of any list of blocks.
LEMMA TriplesAre ==
  ASSUME NEW deltas \in Seq(Seq(Nat)), NEW bodies \in Seq(Seq(Nat)), Len(deltas) = Len(bodies),
         NEW from \in Nat
  PROVE  InTriples(Triples(deltas, bodies, from), deltas, bodies, Len(bodies), from)
<1> DEFINE ss == [i \in DOMAIN bodies |-> Three(from + i - 1, deltas[i], bodies[i])]
           N == Len(bodies)
<1>1. /\ N \in Nat /\ DOMAIN bodies = 1..N
      /\ \A i \in 1..N : bodies[i] \in Seq(Nat) /\ deltas[i] \in Seq(Nat)
  OBVIOUS
<1>2. Triples(deltas, bodies, from) = FlattenSeq(ss)
  BY DEF Triples, Concat, Three
<1>3. \A i \in 1..N : ss[i] = Three(from + i - 1, deltas[i], bodies[i]) /\ from + i - 1 \in Nat
  BY <1>1
<1>4. ss \in [1..N -> Seq(Ev)]
  <2>1. ASSUME NEW i \in 1..N PROVE ss[i] \in Seq(Ev)
    BY <1>1, <1>3, ThreeIs
  <2>2. DOMAIN ss = 1..N /\ ss = [i \in DOMAIN ss |-> ss[i]]
    BY <1>1
  <2> HIDE DEF ss, N
  <2> QED BY <2>1, <2>2
<1> HIDE DEF ss, N
<1>5. Len(ss) = N /\ ss \in Seq(Seq(Ev))
  BY <1>1, <1>4, FnIsSeq
<1>6. CASE N = 0
  <2>1. ss = <<>>
    BY <1>5, <1>6
  <2>2. FlattenSeq(ss) = <<>>
    BY <1>5, <1>6, <2>1 DEF FlattenSeq
  <2>3. InTriples(<<>>, deltas, bodies, 0, from)
    BY DEF InTriples
  <2> QED BY <1>2, <1>6, <2>2, <2>3 DEF N
<1>7. CASE N # 0
  <2>1. PICK f : Flattening(f, Len(ss), ss) /\ FlattenSeq(ss) = f[Len(ss)]
    BY <1>1, <1>5, <1>7, FlattenIs
  <2> DEFINE T == {m \in Nat : m + 1 <= N => InTriples(f[m + 1], deltas, bodies, m + 1, from)}
  <2>2. 0 \in T
    <3>1. f[1] = ss[1] /\ 1 \in 1..N
      BY <1>1, <1>5, <1>7, <2>1 DEF Flattening
    <3>2. ss[1] = Three(from, deltas[1], bodies[1]) /\ bodies[1] \in Seq(Nat) /\ deltas[1] \in Seq(Nat)
      <4>1. from + 1 - 1 = from
        OBVIOUS
      <4> QED BY <1>1, <1>3, <3>1, <4>1
    <3>3. InTriples(ss[1], deltas, bodies, 1, from)
      BY <3>2, TriplesOfOne
    <3> QED BY <3>1, <3>3
  <2>3. ASSUME NEW m \in T PROVE m + 1 \in T
    <3> DEFINE k == m + 1
    <3>0. m \in Nat /\ k \in Nat /\ (k <= N => InTriples(f[k], deltas, bodies, k, from))
      <4>1. m \in Nat /\ (m + 1 <= N => InTriples(f[m + 1], deltas, bodies, m + 1, from))
        BY Zenon
      <4> QED BY <4>1
    <3> HIDE DEF T, k
    <3>1. ASSUME k + 1 <= N PROVE InTriples(f[k + 1], deltas, bodies, k + 1, from)
      <4>1. k + 1 \in 1..N /\ (k + 1) - 1 = k /\ k + 1 # 1
        BY <1>1, <3>0, <3>1 DEF k
      <4>2. f[k + 1] = f[k] \o ss[k + 1]
        BY <1>5, <2>1, <4>1 DEF Flattening
      <4>3. /\ ss[k + 1] = Three(from + k, deltas[k + 1], bodies[k + 1])
            /\ bodies[k + 1] \in Seq(Nat) /\ deltas[k + 1] \in Seq(Nat)
        <5>1. from + (k + 1) - 1 = from + k
          BY <3>0
        <5> QED BY <1>1, <1>3, <4>1, <5>1
      <4> DEFINE b == [j \in 1..1 |-> bodies[k + 1]]
                 d == [j \in 1..1 |-> deltas[k + 1]]
      <4>4. b[1] = bodies[k + 1] /\ d[1] = deltas[k + 1]
        OBVIOUS
      <4>5. Joins(bodies, bodies, k, b, 1) /\ Joins(deltas, deltas, k, d, 1)
        BY DEF Joins
      <4> HIDE DEF b, d
      <4>6. InTriples(ss[k + 1], d, b, 1, from + k)
        BY <3>0, <4>3, <4>4, TriplesOfOne
      <4>7. InTriples(f[k], deltas, bodies, k, from)
        BY <1>1, <3>0, <3>1
      <4>8. InTriples(f[k] \o ss[k + 1], deltas, bodies, k + 1, from)
        BY <3>0, <4>5, <4>6, <4>7, TriplesJoin
      <4> QED BY <4>2, <4>8
    <3> QED BY <3>0, <3>1 DEF T, k
  <2>4. T \in SUBSET Nat
    OBVIOUS
  <2>5. \A m \in T : m + 1 <= N => InTriples(f[m + 1], deltas, bodies, m + 1, from)
    OBVIOUS
  <2> HIDE DEF T
  <2>6. N - 1 \in Nat /\ (N - 1) + 1 = N /\ N <= N
    BY <1>1, <1>7
  <2>7. N - 1 \in T
    BY <2>2, <2>3, <2>4, <2>6, NatInd
  <2>8. InTriples(f[N], deltas, bodies, N, from)
    BY <2>5, <2>6, <2>7
  <2> QED BY <1>2, <1>5, <2>1, <2>8 DEF N
<1> QED BY <1>6, <1>7

-----------------------------------------------------------------------------
\* A consumer that follows them.

\* What a consumer has; and what it has after each event.
Piece == [given : Seq(Int), block : Seq(Int)]
Built == Seq(Piece)
Following(f) ==
    f = [n \in 0..Len(emitted) |-> IF n = 0 THEN <<>> ELSE Follow(f[n - 1], emitted[n])]
\* The block that was given delta and brought body.
Got(delta, body) == [given |-> delta, block |-> body]

\* A list whose block at place k is set to w.
LEMMA PieceSet ==
  ASSUME NEW p \in Built, NEW k \in 1..Len(p), NEW w \in Piece
  PROVE  [p EXCEPT ![k] = w] \in Built
<1> DEFINE n == Len(p)
           g == [p EXCEPT ![k] = w]
<1>1. n \in Nat /\ p \in [1..n -> Piece] /\ k \in 1..n
  BY DEF Built
<1> HIDE DEF n
<1>2. g \in [1..n -> Piece]
  BY <1>1
<1> HIDE DEF g
<1>3. g \in Seq(Piece)
  BY <1>1, <1>2, FnIsSeq
<1> QED BY <1>3 DEF g, Built

\* A consumer always has a list of blocks.
LEMMA FollowTyped == ASSUME NEW p \in Built, NEW e \in Ev PROVE Follow(p, e) \in Built
<1>1. e.body \in Seq(Int) /\ e.index \in Nat
  BY DEF Ev
<1>2. Lost \in Built
  <2>1. <<-1>> \in Seq(Int)
    OBVIOUS
  <2>2. [given |-> <<-1>>, block |-> <<-1>>] \in Piece
    BY <2>1 DEF Piece
  <2> QED BY <2>2 DEF Built, Lost
<1>3. Append(p, Opened) \in Built
  <2>1. Opened \in Piece
    BY DEF Piece, Opened
  <2> QED BY <2>1 DEF Built
<1>4. ASSUME e.index + 1 \in DOMAIN p
      PROVE  /\ [p EXCEPT ![e.index + 1].given = @ \o e.body] \in Built
             /\ [p EXCEPT ![e.index + 1].block = e.body] \in Built
  <2> DEFINE i == e.index + 1
             v == p[i]
             x == [v EXCEPT !.given = @ \o e.body]
             y == [v EXCEPT !.block = e.body]
  <2>1. DOMAIN p = 1..Len(p) /\ i \in 1..Len(p) /\ v \in Piece
    BY <1>1, <1>4 DEF Built
  <2>2. v.given \o e.body \in Seq(Int)
    BY <1>1, <2>1 DEF Piece
  <2> HIDE DEF i, v
  <2>3. x \in Piece /\ y \in Piece
    BY <1>1, <2>1, <2>2 DEF Piece
  <2> HIDE DEF x, y
  <2>4. [p EXCEPT ![i] = x] \in Built
    BY <2>1, <2>3, PieceSet
  <2>5. [p EXCEPT ![i] = y] \in Built
    BY <2>1, <2>3, PieceSet
  <2> QED BY <2>4, <2>5 DEF x, y, i, v
<1> QED BY <1>2, <1>3, <1>4, Zenon DEF Follow

\* What Followed returns is what the consumer has after the last event.
LEMMA FollowedIs ==
  ASSUME emitted \in Seq(Ev)
  PROVE  \E f : Following(f) /\ Followed = f[Len(emitted)]
<1> DEFINE N == Len(emitted)
           g == [x \in Built \X (1..N) |-> Follow(x[1], emitted[x[2]])]
<1>1. N \in Nat /\ \A n \in 1..N : emitted[n] \in Ev
  OBVIOUS
<1>2. <<>> \in Built
  BY DEF Built
<1>3. g \in [Built \X (1..N) -> Built]
  <2>1. \A x \in Built \X (1..N) : x[1] \in Built /\ x[2] \in 1..N
    OBVIOUS
  <2>2. \A x \in Built \X (1..N) : Follow(x[1], emitted[x[2]]) \in Built
    BY <1>1, <2>1, FollowTyped
  <2> QED BY <2>2
<1>4. \A p \in Built, n \in 1..N : g[<<p, n>>] = Follow(p, emitted[n])
  OBVIOUS
<1> HIDE DEF g, N
<1>0. \E f : Recursion(f, Built, <<>>, N, g)
  BY <1>1, <1>2, <1>3, RecursionExists
<1>5. PICK f : f \in [0..N -> Built] /\ f[0] = <<>> /\ \A n \in 1..N : f[n] = g[<<f[n - 1], n>>]
  BY <1>0 DEF Recursion
<1>6. ASSUME NEW n \in 0..N PROVE f[n] = IF n = 0 THEN <<>> ELSE Follow(f[n - 1], emitted[n])
  <2>1. CASE n = 0
    BY <1>5, <2>1
  <2>2. CASE n # 0
    <3>1. n \in 1..N /\ n - 1 \in 0..N
      BY <1>1, <2>2
    <3>2. f[n - 1] \in Built
      BY <1>5, <3>1
    <3> QED BY <1>4, <1>5, <2>2, <3>1, <3>2
  <2> QED BY <2>1, <2>2
<1>7. f = [n \in 0..N |-> f[n]]
  BY <1>5
<1>8. Following(f)
  BY <1>6, <1>7 DEF Following, N
<1>9. \E h : Following(h)
  BY <1>8
<1> QED BY <1>9 DEF Followed, Following

\* A delta and an end change the block of their index ...
GivenAt(p, k, delta) == [p EXCEPT ![k].given = @ \o delta]
EndedAt(p, k, body) == [p EXCEPT ![k].block = body]

LEMMA FollowDelta ==
  ASSUME NEW p, NEW i, i + 1 \in DOMAIN p, NEW delta
  PROVE  Follow(p, Push("delta", i, delta)) = GivenAt(p, i + 1, delta)
<1> DEFINE e == Push("delta", i, delta)
<1>1. e.what = "delta" /\ e.index = i /\ e.body = delta
  BY DEF Push
<1> HIDE DEF e
<1>2. Follow(p, e) = [p EXCEPT ![e.index + 1].given = @ \o e.body]
  BY <1>1 DEF Follow
<1> QED BY <1>1, <1>2 DEF e, GivenAt

LEMMA FollowEnd ==
  ASSUME NEW p, NEW i, i + 1 \in DOMAIN p, NEW body
  PROVE  Follow(p, Push("end", i, body)) = EndedAt(p, i + 1, body)
<1> DEFINE e == Push("end", i, body)
<1>1. e.what = "end" /\ e.index = i /\ e.body = body
  BY DEF Push
<1> HIDE DEF e
<1>2. Follow(p, e) = [p EXCEPT ![e.index + 1].block = e.body]
  BY <1>1 DEF Follow
<1> QED BY <1>1, <1>2 DEF e, EndedAt

\* p is a function of the places up to n.
Numbered(p, n) == n \in Nat /\ DOMAIN p = 1..n /\ p = [x \in 1..n |-> p[x]]

\* An element put behind a sequence.
LEMMA AppendIs ==
  ASSUME NEW A, NEW q \in Seq(A), NEW w \in A
  PROVE  /\ Numbered(Append(q, w), Len(q) + 1) /\ Append(q, w)[Len(q) + 1] = w
         /\ \A x \in 1..Len(q) : Append(q, w)[x] = q[x]
<1> DEFINE s == Append(q, w)
           n == Len(q) + 1
<1>1. s \in Seq(A) /\ Len(s) = n /\ s[n] = w /\ \A x \in 1..Len(q) : s[x] = q[x]
  OBVIOUS
<1>2. n \in Nat
  OBVIOUS
<1> HIDE DEF s, n
<1>3. Numbered(s, n)
  BY <1>1, <1>2 DEF Numbered
<1> QED BY <1>1, <1>3 DEF s, n

\* ... and together bring a block that was open to what they say.
LEMMA OpenedToGot ==
  ASSUME NEW p, NEW n, Numbered(p, n), NEW k \in 1..n, p[k] = Opened,
         NEW delta \in Seq(Nat), NEW body
  PROVE  EndedAt(GivenAt(p, k, delta), k, body) = [x \in 1..n |-> IF x = k THEN Got(delta, body) ELSE p[x]]
<1> DEFINE a == GivenAt(p, k, delta)
           b == EndedAt(a, k, body)
<1>1. a = [x \in 1..n |-> IF x = k THEN [p[x] EXCEPT !.given = @ \o delta] ELSE p[x]]
  BY DEF GivenAt, Numbered
<1>2. <<>> \o delta = delta
  OBVIOUS
<1>3. [p[k] EXCEPT !.given = @ \o delta] = [given |-> delta, block |-> <<>>]
  <2>1. [Opened EXCEPT !.given = @ \o delta] = [given |-> delta, block |-> <<>>]
    BY <1>2 DEF Opened
  <2> QED BY <2>1
<1>4. DOMAIN a = 1..n /\ a[k] = [given |-> delta, block |-> <<>>] /\ \A x \in 1..n : x # k => a[x] = p[x]
  BY <1>1, <1>3
<1> HIDE DEF a
<1>5. b = [x \in DOMAIN a |-> IF x = k THEN [a[x] EXCEPT !.block = body] ELSE a[x]]
  <2>1. a = [x \in DOMAIN a |-> a[x]]
    BY <1>1
  <2> QED BY <2>1 DEF EndedAt
<1>6. [a[k] EXCEPT !.block = body] = Got(delta, body)
  BY <1>4 DEF Got
<1> HIDE DEF b
<1>7. \A x \in 1..n : b[x] = IF x = k THEN Got(delta, body) ELSE p[x]
  <2> SUFFICES ASSUME NEW x \in 1..n PROVE b[x] = IF x = k THEN Got(delta, body) ELSE p[x]
    OBVIOUS
  <2>1. b[x] = IF x = k THEN [a[x] EXCEPT !.block = body] ELSE a[x]
    BY <1>4, <1>5
  <2> QED BY <1>4, <1>6, <2>1
<1>8. b = [x \in 1..n |-> b[x]]
  BY <1>4, <1>5
<1> QED BY <1>7, <1>8 DEF a, b

\* The three events of the next block append it, with what it was given.
LEMMA FollowThree ==
  ASSUME NEW p \in Built, NEW delta \in Seq(Nat), NEW body \in Seq(Nat), NEW i, i = Len(p)
  PROVE  Follow(Follow(Follow(p, Push("start", i, <<>>)), Push("delta", i, delta)), Push("end", i, body))
             = Append(p, Got(delta, body))
<1> DEFINE a == Append(p, Opened)
           b == GivenAt(a, i + 1, delta)
           c == EndedAt(b, i + 1, body)
           w == Got(delta, body)
           d == Append(p, w)
           k == i + 1
<1>1. Follow(p, Push("start", i, <<>>)) = a
  BY DEF Follow, Push
<1>2. i \in Nat /\ k \in Nat /\ k \in 1..k /\ \A x \in 1..k : x # k => x \in 1..i
  BY DEF Built
<1>0. Opened \in Piece /\ w \in Piece /\ p \in Seq(Piece)
  <2>1. delta \in Seq(Int) /\ body \in Seq(Int)
    OBVIOUS
  <2> QED BY <2>1 DEF Piece, Opened, Got, Built
<1>3. Numbered(a, k) /\ a[k] = Opened /\ \A x \in 1..i : a[x] = p[x]
  BY <1>0, AppendIs
<1> HIDE DEF w
<1>4. Numbered(d, k) /\ d[k] = w /\ \A x \in 1..i : d[x] = p[x]
  BY <1>0, AppendIs
<1> HIDE DEF a, d, b, c
<1>5. DOMAIN b = 1..k
  <2> HIDE DEF k
  <2>1. DOMAIN a = 1..k
    BY <1>3 DEF Numbered
  <2> QED BY <2>1 DEF b, GivenAt
<1>6. c = [x \in 1..k |-> IF x = k THEN w ELSE a[x]]
  <2> HIDE DEF k
  <2>1. EndedAt(GivenAt(a, k, delta), k, body) = [x \in 1..k |-> IF x = k THEN Got(delta, body) ELSE a[x]]
    BY <1>2, <1>3, OpenedToGot
  <2> QED BY <2>1 DEF c, b, k, w
<1>7. k = i + 1 /\ i + 1 \in DOMAIN a /\ i + 1 \in DOMAIN b
  BY <1>2, <1>3, <1>5 DEF Numbered
<1> HIDE DEF k
<1>8. c = d
  BY <1>2, <1>3, <1>4, <1>6 DEF Numbered
<1>9. Follow(a, Push("delta", i, delta)) = b
  BY <1>7, FollowDelta DEF b
<1>10. Follow(b, Push("end", i, body)) = c
  BY <1>7, FollowEnd DEF c
<1> QED BY <1>1, <1>8, <1>9, <1>10 DEF d, w

\* Arithmetic of three events each.
LEMMA NextTriple ==
  ASSUME NEW j \in Nat, NEW N \in Nat, j + 1 <= N
  PROVE  /\ 3 * j + 1 \in 0..(3 * N) /\ 3 * j + 2 \in 0..(3 * N) /\ 3 * j + 3 \in 0..(3 * N)
         /\ (3 * j + 1) - 1 = 3 * j /\ (3 * j + 2) - 1 = 3 * j + 1 /\ (3 * j + 3) - 1 = 3 * j + 2
         /\ 3 * (j + 1) = 3 * j + 3 /\ 3 * (j + 1) - 1 = 3 * j + 2 /\ 3 * (j + 1) - 2 = 3 * j + 1
         /\ 3 * j + 1 # 0 /\ 3 * j + 2 # 0 /\ 3 * j + 3 # 0
         /\ j + 1 \in 1..N /\ (j + 1) - 1 = j /\ j <= N
OBVIOUS

\* A consumer of triples, counted up from 0, has all their blocks in order.
LEMMA FollowedBuilds ==
  ASSUME NEW deltas \in Seq(Seq(Nat)), NEW bodies \in Seq(Seq(Nat)), Len(deltas) = Len(bodies),
         InTriples(emitted, deltas, bodies, Len(bodies), 0)
  PROVE  Followed = [k \in 1..Len(bodies) |-> Got(deltas[k], bodies[k])]
<1> DEFINE N == Len(bodies)
           First(j) == [k \in 1..j |-> Got(deltas[k], bodies[k])]
<1>1. N \in Nat /\ \A k \in 1..N : bodies[k] \in Seq(Nat) /\ deltas[k] \in Seq(Nat)
  OBVIOUS
<1>2. [k \in 1..Len(bodies) |-> Got(deltas[k], bodies[k])] = First(N)
  OBVIOUS
<1>3. emitted \in Seq(Ev) /\ Len(emitted) = 3 * N /\ \A j \in 1..N : TripleAt(emitted, j, j - 1, deltas[j], bodies[j])
  <2>1. \A j \in 1..N : 0 + j - 1 = j - 1
    BY <1>1
  <2> QED BY <2>1 DEF InTriples
<1> HIDE DEF N
<1>4. PICK f : Following(f) /\ Followed = f[Len(emitted)]
  BY <1>3, FollowedIs
<1> DEFINE T == {j \in Nat : j <= N => f[3 * j] = First(j)}
<1>5. 0 \in T
  <2>1. 0 \in 0..(3 * N) /\ 3 * 0 = 0
    BY <1>1
  <2>2. f[0] = <<>>
    BY <1>3, <1>4, <2>1 DEF Following
  <2>3. First(0) = <<>>
    OBVIOUS
  <2> QED BY <2>1, <2>2, <2>3
<1>6. ASSUME NEW j \in T PROVE j + 1 \in T
  <2>1. j \in Nat /\ (j <= N => f[3 * j] = First(j))
    OBVIOUS
  <2> HIDE DEF T
  <2>2. ASSUME j + 1 <= N PROVE f[3 * (j + 1)] = First(j + 1)
    <3> DEFINE p == First(j)
               b == bodies[j + 1]
               d == deltas[j + 1]
    <3>1. /\ 3 * j + 1 \in 0..(3 * N) /\ 3 * j + 2 \in 0..(3 * N) /\ 3 * j + 3 \in 0..(3 * N)
          /\ (3 * j + 1) - 1 = 3 * j /\ (3 * j + 2) - 1 = 3 * j + 1 /\ (3 * j + 3) - 1 = 3 * j + 2
          /\ 3 * (j + 1) = 3 * j + 3 /\ 3 * (j + 1) - 1 = 3 * j + 2 /\ 3 * (j + 1) - 2 = 3 * j + 1
          /\ 3 * j + 1 # 0 /\ 3 * j + 2 # 0 /\ 3 * j + 3 # 0
          /\ j + 1 \in 1..N /\ (j + 1) - 1 = j /\ j <= N
      BY <1>1, <2>1, <2>2, NextTriple
    <3>2. f[3 * j] = p
      BY <2>1, <3>1
    <3>3. TripleAt(emitted, j + 1, j, d, b)
      <4>1. TripleAt(emitted, j + 1, (j + 1) - 1, d, b)
        BY <1>3, <3>1
      <4> QED BY <3>1, <4>1
    <3>4. /\ emitted[3 * j + 1] = Push("start", j, <<>>)
          /\ emitted[3 * j + 2] = Push("delta", j, d)
          /\ emitted[3 * j + 3] = Push("end", j, b)
      BY <3>1, <3>3 DEF TripleAt
    <3>5. \A n \in 0..(3 * N) : n # 0 => f[n] = Follow(f[n - 1], emitted[n])
      BY <1>3, <1>4 DEF Following
    <3>6. f[3 * j + 1] = Follow(f[3 * j], emitted[3 * j + 1])
      BY <3>1, <3>5
    <3>7. f[3 * j + 2] = Follow(f[3 * j + 1], emitted[3 * j + 2])
      BY <3>1, <3>5
    <3>8. f[3 * j + 3] = Follow(f[3 * j + 2], emitted[3 * j + 3])
      BY <3>1, <3>5
    <3>0. \A x \in Seq(Nat), y \in Seq(Nat) : Got(x, y) \in Piece
      <4>1. \A x \in Seq(Nat) : x \in Seq(Int)
        OBVIOUS
      <4> QED BY <4>1 DEF Got, Piece
    <3>9. p \in [1..j -> Piece]
      <4>1. \A k \in 1..j : k \in 1..N
        BY <1>1, <2>1, <3>1
      <4>2. \A k \in 1..j : Got(deltas[k], bodies[k]) \in Piece
        BY <1>1, <3>0, <4>1
      <4> QED BY <4>2
    <3>10. p \in Seq(Piece) /\ Len(p) = j
      BY <2>1, <3>9, FnIsSeq
    <3>11. b \in Seq(Nat) /\ d \in Seq(Nat)
      BY <1>1, <3>1
    <3>12. Append(p, Got(d, b)) = First(j + 1)
      <4> DEFINE w == Got(d, b)
                 q == Append(p, w)
      <4>0. w \in Piece
        BY <3>0, <3>11
      <4>6. w = Got(deltas[j + 1], bodies[j + 1])
        OBVIOUS
      <4>1. /\ q \in Seq(Piece) /\ Len(q) = j + 1 /\ q[j + 1] = w
            /\ \A k \in 1..j : q[k] = p[k]
        <5> HIDE DEF p, b, d, w, First
        <5> QED BY <3>10, <4>0
      <4>2. \A k \in 1..j : p[k] = Got(deltas[k], bodies[k])
        OBVIOUS
      <4> HIDE DEF w
      <4> HIDE DEF q, p
      <4>3. q = [k \in 1..(j + 1) |-> q[k]]
        BY <4>1
      <4>4. ASSUME NEW k \in 1..(j + 1) PROVE q[k] = Got(deltas[k], bodies[k])
        <5>1. k # j + 1 => k \in 1..j
          BY <2>1
        <5> QED BY <4>1, <4>2, <4>6, <5>1
      <4>5. q = First(j + 1)
        BY <4>3, <4>4
      <4> QED BY <4>5 DEF q, w
    <3> HIDE DEF p, b, d, First
    <3>13. Follow(Follow(Follow(p, Push("start", j, <<>>)), Push("delta", j, d)), Push("end", j, b)) = Append(p, Got(d, b))
      BY <3>10, <3>11, FollowThree DEF Built
    <3> QED BY <3>1, <3>2, <3>4, <3>6, <3>7, <3>8, <3>12, <3>13
  <2> HIDE DEF First
  <2> QED BY <2>1, <2>2 DEF T
<1>7. T \in SUBSET Nat
  OBVIOUS
<1>8. \A j \in T : j <= N => f[3 * j] = First(j)
  <2> HIDE DEF First
  <2> QED OBVIOUS
<1> HIDE DEF T, First
<1>9. N \in T
  BY <1>1, <1>5, <1>6, <1>7, NatInd
<1>10. f[3 * N] = First(N)
  BY <1>1, <1>8, <1>9
<1> QED BY <1>2, <1>3, <1>4, <1>10

-----------------------------------------------------------------------------
\* The events of a chunk, and of a stream of chunks.

\* Calls by chunk and place; texts that come from earlier units; and a relation of
\* bodies, for items of one kind.
Lex == {e \in Seq(Nat) \X Seq(Nat) :
            e[1][1] < e[2][1] \/ (e[1][1] = e[2][1] /\ e[1][2] < e[2][2])}
Before == {e \in Seq(Nat) \X Seq(Nat) : \A x \in ToSet(e[1]), y \in ToSet(e[2]) : x < y}
Among(t, Q) == {e \in Entry \X Entry : e[1].type = t /\ e[2].type = t => <<e[1].body, e[2].body>> \in Q}

\* Carriers are places.
LEMMA CarriersAre ==
  ASSUME NEW U, units \in Seq(U), NEW S PROVE Carriers(S) = Places(Len(units), S)
<1> DEFINE n == Len(units)
           s == [i \in DOMAIN units |-> i]
           P == Places(n, S)
<1>1. n \in Nat /\ DOMAIN units = 1..n
  OBVIOUS
<1>2. \A i \in 1..n : s[i] = i
  BY <1>1
<1> HIDE DEF n, s
<1>3. Keep(n, s, S) = Taken(s, P)
  BY <1>1, KeepAt
<1>4. P \in Seq(1..n)
  BY <1>1, PlacesList DEF Lists
<1> HIDE DEF P
<1>5. Taken(s, P) = [k \in 1..Len(P) |-> s[P[k]]]
  BY DEF Taken
<1>6. \A k \in 1..Len(P) : P[k] \in 1..n
  <2> DEFINE R == 1..n
  <2>1. P \in Seq(R)
    BY <1>4
  <2> HIDE DEF R
  <2>2. \A k \in 1..Len(P) : P[k] \in R
    BY <2>1
  <2> QED BY <2>2 DEF R
<1>7. P = [k \in 1..Len(P) |-> P[k]]
  BY <1>4
<1>8. Taken(s, P) = P
  BY <1>2, <1>5, <1>6, <1>7
<1> QED BY <1>3, <1>8 DEF Carriers, n, s, P

\* Decode keeps the usable calls of a completion, each once, in their order.
LEMMA UsableCalls ==
  ASSUME NEW i \in Nat, NEW m \in Chunk, NEW calls, calls = Decode(i, m).calls
  PROVE  /\ calls \in Seq(Seq(Nat))
         /\ ToSet(calls) = {<<i, k>> : k \in Usable(m)}
         /\ Ordered(calls, Lex)
<1> DEFINE n == Len(m.calls)
           s == [k \in DOMAIN m.calls |-> <<i, k>>]
           S == Usable(m)
           P == Places(n, S)
<1>0. m.calls \in Seq({"call", "cut", "bare", "broken"})
  BY DEF Chunk
<1>1. n \in Nat /\ DOMAIN m.calls = 1..n
  BY <1>0
<1>2. calls = Keep(n, s, S)
  BY DEF Decode
<1>3. \A k \in 1..n : s[k] = <<i, k>>
  BY <1>1
<1>4. S \subseteq 1..n
  BY <1>1 DEF Usable
<1> HIDE DEF n, s, S
<1>5. calls = Taken(s, P)
  BY <1>1, <1>2, KeepAt
<1>6. Lists(P, n, S)
  BY <1>1, PlacesList
<1> HIDE DEF P
<1>7. P \in Seq(1..n) /\ Len(P) \in Nat
  BY <1>6 DEF Lists
<1>8. \A k \in 1..Len(P) : P[k] \in 1..n /\ P[k] \in S
  <2> DEFINE R == 1..n
  <2>1. P \in Seq(R)
    BY <1>7
  <2> HIDE DEF R
  <2>2. \A k \in 1..Len(P) : P[k] \in R
    BY <2>1
  <2>3. \A k \in 1..Len(P) : P[k] \in S
    BY <1>6 DEF Lists
  <2> QED BY <2>2, <2>3 DEF R
<1>9. calls = [j \in 1..Len(P) |-> <<i, P[j]>>]
  BY <1>3, <1>5, <1>8 DEF Taken
<1>10. \A k \in Nat : <<i, k>> \in Seq(Nat) /\ <<i, k>>[1] = i /\ <<i, k>>[2] = k
  OBVIOUS
<1>11. \A k \in 1..n : k \in Nat
  BY <1>1
<1>12. calls \in [1..Len(P) -> Seq(Nat)]
  BY <1>8, <1>9, <1>10, <1>11
<1>13. calls \in Seq(Seq(Nat)) /\ Len(calls) = Len(P)
  BY <1>7, <1>12, FnIsSeq
<1>14. ToSet(calls) = {<<i, k>> : k \in S}
  <2>1. ToSet(calls) = {<<i, P[j]>> : j \in 1..Len(P)}
    BY <1>9 DEF ToSet
  <2>2. \A x \in S : \E j \in 1..Len(P) : P[j] = x
    BY <1>4, <1>6 DEF Lists
  <2> QED BY <1>8, <2>1, <2>2
<1>15. Ordered(calls, Lex)
  <2> SUFFICES ASSUME NEW j \in 1..Len(calls), NEW k \in 1..Len(calls), j < k
               PROVE  <<calls[j], calls[k]>> \in Lex
    BY DEF Ordered
  <2> DEFINE a == calls[j]
             b == calls[k]
  <2>1. P[j] < P[k] /\ P[j] \in Nat /\ P[k] \in Nat
    BY <1>6, <1>7, <1>8, <1>11, <1>13 DEF Lists
  <2>2. a = <<i, P[j]>> /\ b = <<i, P[k]>>
    BY <1>9, <1>13
  <2>3. a \in Seq(Nat) /\ b \in Seq(Nat) /\ a[1] = i /\ b[1] = i /\ a[2] = P[j] /\ b[2] = P[k]
    BY <1>10, <2>1, <2>2
  <2> HIDE DEF a, b
  <2>4. <<a, b>> \in Lex
    BY <2>1, <2>3 DEF Lex
  <2> QED BY <2>4 DEF a, b
<1> QED BY <1>13, <1>14, <1>15 DEF S

\* What a chunk is heard to say.
ChunkSet(i, m) ==
    {Item("text", Unit(i, m.text = "some"))}
    \cup (IF m.think THEN {Item("reasoning", <<i>>)} ELSE {})
    \cup {Item("toolcall", <<i, k>>) : k \in Usable(m)}

\* Items of a list of bodies are the bodies' items ...
LEMMA ItemsElements ==
  ASSUME NEW t \in Kinds, NEW bodies \in Seq(Seq(Nat))
  PROVE  ToSet(Items(t, bodies)) = {Item(t, b) : b \in ToSet(bodies)}
BY DEF Items, ToSet

\* ... in the order of the bodies.
LEMMA ItemsOrdered ==
  ASSUME NEW t \in Kinds, NEW bodies \in Seq(Seq(Nat)), NEW u, NEW Q, u = t => Ordered(bodies, Q)
  PROVE  Ordered(Items(t, bodies), Among(u, Q))
<1> DEFINE s == Items(t, bodies)
<1>1. s \in Seq(Entry) /\ Len(s) = Len(bodies)
  BY ItemsAre
<1>2. \A k \in 1..Len(bodies) : s[k].type = t /\ s[k].body = bodies[k]
  BY ItemsAre
<1> HIDE DEF s
<1> SUFFICES ASSUME NEW j \in 1..Len(s), NEW k \in 1..Len(s), j < k
             PROVE  <<s[j], s[k]>> \in Among(u, Q)
  BY DEF Ordered, s
<1> DEFINE a == s[j]
           b == s[k]
<1>3. a \in Entry /\ b \in Entry
  BY <1>1
<1>4. a.type = t /\ b.type = t /\ a.body = bodies[j] /\ b.body = bodies[k]
  BY <1>1, <1>2
<1>5. u = t => <<bodies[j], bodies[k]>> \in Q
  BY <1>1 DEF Ordered
<1> HIDE DEF a, b
<1>6. <<a, b>> \in Among(u, Q)
  BY <1>3, <1>4, <1>5 DEF Among
<1> QED BY <1>6 DEF a, b

\* Items of two kinds never stand in each other's way.
LEMMA KindsDiffer ==
  ASSUME NEW t \in Kinds, NEW r \in Kinds, t # r, NEW a \in Seq(Seq(Nat)), NEW b \in Seq(Seq(Nat)),
         NEW x \in ToSet(Items(t, a)), NEW y \in ToSet(Items(r, b)), NEW u, NEW Q
  PROVE  <<x, y>> \in Among(u, Q)
<1> DEFINE p == Items(t, a)
           q == Items(r, b)
<1>1. p \in Seq(Entry) /\ Len(p) = Len(a) /\ \A k \in 1..Len(a) : p[k].type = t
  BY ItemsAre
<1>2. q \in Seq(Entry) /\ Len(q) = Len(b) /\ \A k \in 1..Len(b) : q[k].type = r
  BY ItemsAre
<1>3. x \in ToSet(p) /\ y \in ToSet(q)
  OBVIOUS
<1> HIDE DEF p, q
<1>4. PICK j \in 1..Len(a) : x = p[j]
  BY <1>1, <1>3 DEF ToSet
<1>5. PICK k \in 1..Len(b) : y = q[k]
  BY <1>2, <1>3 DEF ToSet
<1>6. x \in Entry /\ y \in Entry /\ x.type = t /\ y.type = r
  BY <1>1, <1>2, <1>4, <1>5
<1> QED BY <1>6 DEF Among

\* A list of one is in order.
LEMMA AtMostOne ==
  ASSUME NEW q, NEW R, Len(q) \in Nat, Len(q) <= 1 PROVE Ordered(q, R)
BY DEF Ordered

\* The events of a chunk are what it says, its calls in their order.
LEMMA ChunkEventsAre ==
  ASSUME NEW i \in Nat, NEW m \in Chunk
  PROVE  /\ ChunkEvents(i, m) \in Seq(Entry)
         /\ ToSet(ChunkEvents(i, m)) = ChunkSet(i, m)
         /\ \A u, Q : (u = "toolcall" => Q = Lex) => Ordered(ChunkEvents(i, m), Among(u, Q))
<1> DEFINE d == Decode(i, m)
           a == IF m.think THEN <<<<i>>>> ELSE <<>>
           b == d.calls
           c == <<d.text>>
           A == Items("reasoning", a)
           B == Items("toolcall", b)
           C == Items("text", c)
<1>0. m.think \in BOOLEAN
  BY DEF Chunk
<1>1. d.text = Unit(i, m.text = "some") /\ d.think = Unit(i, m.think)
  BY DEF Decode
<1>2. b \in Seq(Seq(Nat)) /\ ToSet(b) = {<<i, k>> : k \in Usable(m)} /\ Ordered(b, Lex)
  BY UsableCalls
<1> HIDE DEF d
<1>3. a \in Seq(Seq(Nat)) /\ Len(a) \in Nat /\ Len(a) <= 1 /\ ToSet(a) = (IF m.think THEN {<<i>>} ELSE {})
  BY <1>0 DEF ToSet
<1>4. d.text \in Seq(Nat)
  BY <1>1 DEF Unit
<1>5. c \in Seq(Seq(Nat)) /\ Len(c) = 1 /\ ToSet(c) = {Unit(i, m.text = "some")}
  BY <1>1, <1>4 DEF ToSet
<1>6. A = IF d.think # <<>> THEN <<Item("reasoning", d.think)>> ELSE <<>>
  <2>1. CASE m.think
    <3>1. d.think = <<i>> /\ <<i>> # <<>> /\ a = <<<<i>>>>
      BY <1>1, <2>1 DEF Unit
    <3>2. Items("reasoning", <<<<i>>>>) = <<Item("reasoning", <<i>>)>>
      BY DEF Items
    <3> QED BY <3>1, <3>2
  <2>2. CASE ~m.think
    <3>1. d.think = <<>> /\ a = <<>>
      BY <1>1, <2>2 DEF Unit
    <3>2. Items("reasoning", <<>>) = <<>>
      BY DEF Items
    <3> QED BY <3>1, <3>2
  <2> QED BY <1>0, <2>1, <2>2
<1>7. C = <<Item("text", d.text)>>
  BY DEF Items
<1>8. ChunkEvents(i, m) = (A \o B) \o C
  BY <1>6, <1>7 DEF ChunkEvents, d
<1>9. "reasoning" \in Kinds /\ "toolcall" \in Kinds /\ "text" \in Kinds
  BY DEF Kinds
<1> HIDE DEF a, b, c
<1>10. A \in Seq(Entry) /\ B \in Seq(Entry) /\ C \in Seq(Entry)
  BY <1>2, <1>3, <1>5, <1>9, ItemsAre
<1>11. /\ ToSet(A) = {Item("reasoning", x) : x \in ToSet(a)}
       /\ ToSet(B) = {Item("toolcall", x) : x \in ToSet(b)}
       /\ ToSet(C) = {Item("text", x) : x \in ToSet(c)}
  BY <1>2, <1>3, <1>5, <1>9, ItemsElements
<1>12. ASSUME NEW u, NEW Q, u = "toolcall" => Q = Lex
       PROVE  Ordered(A, Among(u, Q)) /\ Ordered(B, Among(u, Q)) /\ Ordered(C, Among(u, Q))
  <2>0. Len(c) \in Nat /\ Len(c) <= 1
    BY <1>5
  <2>1. Ordered(a, Q) /\ Ordered(c, Q)
    BY <1>3, <2>0, AtMostOne
  <2>2. u = "toolcall" => Ordered(b, Q)
    BY <1>2, <1>12
  <2>3. Ordered(A, Among(u, Q))
    BY <1>3, <1>9, <2>1, ItemsOrdered
  <2>4. Ordered(B, Among(u, Q))
    BY <1>2, <1>9, <2>2, ItemsOrdered
  <2>5. Ordered(C, Among(u, Q))
    BY <1>5, <1>9, <2>1, ItemsOrdered
  <2> QED BY <2>3, <2>4, <2>5
<1>13. ASSUME NEW u, NEW Q, NEW x \in ToSet(A), NEW y \in ToSet(B) \cup ToSet(C) PROVE <<x, y>> \in Among(u, Q)
  BY <1>2, <1>3, <1>5, <1>9, KindsDiffer
<1>14. ASSUME NEW u, NEW Q, NEW x \in ToSet(B), NEW y \in ToSet(C) PROVE <<x, y>> \in Among(u, Q)
  BY <1>2, <1>5, <1>9, KindsDiffer
<1> HIDE DEF A, B, C
<1>15. A \o B \in Seq(Entry) /\ ToSet(A \o B) = ToSet(A) \cup ToSet(B)
  BY <1>10, ConcatElements
<1>16. (A \o B) \o C \in Seq(Entry) /\ ToSet((A \o B) \o C) = ToSet(A \o B) \cup ToSet(C)
  <2> DEFINE D == A \o B
  <2>1. D \in Seq(Entry) /\ C \in Seq(Entry)
    BY <1>10, <1>15
  <2> HIDE DEF D
  <2>2. D \o C \in Seq(Entry) /\ ToSet(D \o C) = ToSet(D) \cup ToSet(C)
    BY <2>1, ConcatElements
  <2> QED BY <2>2 DEF D
<1>17. ASSUME NEW u, NEW Q, u = "toolcall" => Q = Lex PROVE Ordered((A \o B) \o C, Among(u, Q))
  <2> DEFINE R == Among(u, Q)
  <2>1. Ordered(A, R) /\ Ordered(B, R) /\ Ordered(C, R)
    BY <1>12, <1>17
  <2>2. \A x \in ToSet(A), y \in ToSet(B) : <<x, y>> \in R
    BY <1>13
  <2>3. \A x \in ToSet(A \o B), y \in ToSet(C) : <<x, y>> \in R
    BY <1>13, <1>14, <1>15
  <2> HIDE DEF R
  <2>4. Ordered(A \o B, R)
    BY <1>10, <2>1, <2>2, ConcatOrdered
  <2>5. Ordered((A \o B) \o C, R)
    BY <1>10, <1>15, <2>1, <2>3, <2>4, ConcatOrdered
  <2> QED BY <2>5 DEF R
<1>18. ToSet((A \o B) \o C) = ChunkSet(i, m)
  <2>1. ToSet(A) = IF m.think THEN {Item("reasoning", <<i>>)} ELSE {}
    BY <1>0, <1>3, <1>11
  <2>2. ToSet(B) = {Item("toolcall", <<i, k>>) : k \in Usable(m)}
    BY <1>2, <1>11
  <2>3. ToSet(C) = {Item("text", Unit(i, m.text = "some"))}
    BY <1>5, <1>11
  <2> QED BY <1>15, <1>16, <2>1, <2>2, <2>3 DEF ChunkSet
<1> QED BY <1>8, <1>16, <1>17, <1>18

\* An event of a chunk names that chunk.
LEMMA ChunkSetIs ==
  ASSUME NEW i \in Nat, NEW m \in Chunk, NEW e \in ChunkSet(i, m)
  PROVE  /\ e.type \in {"text", "reasoning", "toolcall"}
         /\ e.type = "text" => e.body = Unit(i, m.text = "some")
         /\ e.type = "reasoning" => e.body = <<i>> /\ m.think
         /\ e.type = "toolcall" => \E k \in Usable(m) : e.body = <<i, k>>
BY DEF ChunkSet, Item

\* The elements of none and of one.
LEMMA OneUnit == ASSUME NEW i PROVE ToSet(<<>>) = {} /\ ToSet(<<i>>) = {i}
BY DEF ToSet

\* What an earlier chunk says comes before what a later one says.
LEMMA ChunksInOrder ==
  ASSUME NEW i \in Nat, NEW j \in Nat, i < j, NEW l \in Chunk, NEW m \in Chunk,
         NEW x \in ChunkSet(i, l), NEW y \in ChunkSet(j, m), x \in Entry, y \in Entry
  PROVE  /\ <<x, y>> \in Among("text", Before)
         /\ <<x, y>> \in Among("reasoning", Before)
         /\ <<x, y>> \in Among("toolcall", Lex)
<1> DEFINE a == x.body
           b == y.body
<1>1. a \in Seq(Nat) /\ b \in Seq(Nat)
  BY DEF Entry
<1>2. ASSUME NEW t \in {"text", "reasoning"}, x.type = t, y.type = t PROVE <<a, b>> \in Before
  <2>1. (a = <<>> \/ a = <<i>>) /\ (b = <<>> \/ b = <<j>>)
    BY <1>2, ChunkSetIs DEF Unit
  <2>2. ToSet(<<>>) = {} /\ ToSet(<<i>>) = {i} /\ ToSet(<<j>>) = {j}
    BY OneUnit
  <2>3. \A p \in ToSet(a), q \in ToSet(b) : p = i /\ q = j
    BY <2>1, <2>2
  <2>4. \A p \in ToSet(a), q \in ToSet(b) : p < q
    BY <2>3
  <2> HIDE DEF a, b
  <2> QED BY <1>1, <2>4 DEF Before
<1>3. ASSUME x.type = "toolcall", y.type = "toolcall" PROVE <<a, b>> \in Lex
  <2>1. PICK k \in Usable(l) : a = <<i, k>>
    BY <1>3, ChunkSetIs
  <2>2. PICK h \in Usable(m) : b = <<j, h>>
    BY <1>3, ChunkSetIs
  <2>3. a[1] = i /\ b[1] = j
    BY <2>1, <2>2
  <2> HIDE DEF a, b
  <2> QED BY <1>1, <2>3 DEF Lex
<1>4. <<x, y>> \in Among("text", Before)
  BY <1>2 DEF Among
<1>5. <<x, y>> \in Among("reasoning", Before)
  BY <1>2 DEF Among
<1>6. <<x, y>> \in Among("toolcall", Lex)
  BY <1>3 DEF Among
<1> QED BY <1>4, <1>5, <1>6

\* The events of a stream are those of its chunks, none is lost or added, and each
\* kind is in order, whatever the number of chunks.
LEMMA StreamIs ==
  ASSUME NEW n \in Nat, NEW u \in [1..n -> Chunk],
         NEW ss, ss = [i \in 1..n |-> ChunkEvents(i, u[i])]
  PROVE  /\ FlattenSeq(ss) \in Seq(Entry)
         /\ ToSet(FlattenSeq(ss)) = UNION {ChunkSet(i, u[i]) : i \in 1..n}
         /\ Ordered(FlattenSeq(ss), Among("text", Before))
         /\ Ordered(FlattenSeq(ss), Among("reasoning", Before))
         /\ Ordered(FlattenSeq(ss), Among("toolcall", Lex))
<1>1. ASSUME NEW i \in 1..n
      PROVE  /\ ss[i] \in Seq(Entry) /\ ToSet(ss[i]) = ChunkSet(i, u[i])
             /\ Ordered(ss[i], Among("text", Before))
             /\ Ordered(ss[i], Among("reasoning", Before))
             /\ Ordered(ss[i], Among("toolcall", Lex))
  <2>1. i \in Nat /\ u[i] \in Chunk /\ ss[i] = ChunkEvents(i, u[i])
    OBVIOUS
  <2>2. ss[i] \in Seq(Entry)
    BY <2>1, ChunkEventsAre
  <2>3. ToSet(ss[i]) = ChunkSet(i, u[i])
    BY <2>1, ChunkEventsAre
  <2>4. \A v, Q : (v = "toolcall" => Q = Lex) => Ordered(ChunkEvents(i, u[i]), Among(v, Q))
    BY <2>1, ChunkEventsAre
  <2> QED BY <2>1, <2>2, <2>3, <2>4
<1>2. DOMAIN ss = 1..n /\ \A i \in 1..n : ss[i] \in Seq(Entry)
  BY <1>1
<1>3. ss \in [1..n -> Seq(Entry)]
  BY <1>2
<1>4. ss \in Seq(Seq(Entry)) /\ Len(ss) = n
  BY <1>3, FnIsSeq
<1>5. ASSUME NEW i \in 1..n, NEW j \in 1..n, i < j, NEW x \in ToSet(ss[i]), NEW y \in ToSet(ss[j])
      PROVE  /\ <<x, y>> \in Among("text", Before)
             /\ <<x, y>> \in Among("reasoning", Before)
             /\ <<x, y>> \in Among("toolcall", Lex)
  <2>1. x \in ChunkSet(i, u[i]) /\ y \in ChunkSet(j, u[j])
    BY <1>1
  <2>2. x \in Entry /\ y \in Entry
    BY <1>2 DEF ToSet
  <2>3. i \in Nat /\ j \in Nat /\ u[i] \in Chunk /\ u[j] \in Chunk
    OBVIOUS
  <2> QED BY <1>5, <2>1, <2>2, <2>3, ChunksInOrder
<1>6. FlattenSeq(ss) \in Seq(Entry)
  BY <1>4, FlattenFacts
<1>7. ToSet(FlattenSeq(ss)) = Through(ss, n)
  BY <1>4, FlattenFacts
<1>8. Through(ss, n) = UNION {ChunkSet(i, u[i]) : i \in 1..n}
  BY <1>1 DEF Through
<1>9. Ordered(FlattenSeq(ss), Among("text", Before))
  BY <1>1, <1>4, <1>5, FlattenFacts
<1>10. Ordered(FlattenSeq(ss), Among("reasoning", Before))
  BY <1>1, <1>4, <1>5, FlattenFacts
<1>11. Ordered(FlattenSeq(ss), Among("toolcall", Lex))
  BY <1>1, <1>4, <1>5, FlattenFacts
<1> QED BY <1>6, <1>7, <1>8, <1>9, <1>10, <1>11

\* Texts of one unit or none, in order, join to the list of the units.
LEMMA UnitsFlattened ==
  ASSUME NEW n \in Nat, NEW S \in SUBSET (1..n), NEW ss \in Seq(Seq(Nat)), Ordered(ss, Before),
         \A x \in ToSet(ss) : x = <<>> \/ \E i \in S : x = <<i>>,
         \A i \in S : <<i>> \in ToSet(ss)
  PROVE  FlattenSeq(ss) = Places(n, S)
<1> DEFINE m == Len(ss)
<1>1. m \in Nat /\ \A k \in 1..m : ss[k] \in Seq(Nat)
  OBVIOUS
<1>0. ToSet(ss) = {ss[k] : k \in 1..m}
  BY DEF ToSet
<1>2. ASSUME NEW k \in 1..m PROVE Ordered(ss[k], Less)
  <2>0. ss[k] \in ToSet(ss)
    BY <1>0
  <2> DEFINE b == ss[k]
  <2> HIDE DEF b
  <2>2. b = <<>> \/ \E i \in S : b = <<i>>
    BY <2>0 DEF b
  <2>3. Len(b) \in Nat /\ Len(b) <= 1
    <3>1. Len(<<>>) = 0 /\ \A i : Len(<<i>>) = 1
      OBVIOUS
    <3>2. Len(b) = 0 \/ Len(b) = 1
      BY <2>2, <3>1, Zenon
    <3> DEFINE h == Len(b)
    <3>3. h = 0 \/ h = 1
      BY <3>2
    <3> HIDE DEF h
    <3>4. h \in Nat /\ h <= 1
      BY <3>3
    <3> QED BY <3>4 DEF h
  <2>1. Len(ss[k]) \in Nat /\ Len(ss[k]) <= 1
    BY <2>3 DEF b
  <2> QED BY <2>1, AtMostOne
<1>3. ASSUME NEW j \in 1..m, NEW k \in 1..m, j < k, NEW x \in ToSet(ss[j]), NEW y \in ToSet(ss[k])
      PROVE  <<x, y>> \in Less
  <2> DEFINE a == ss[j]
             b == ss[k]
  <2>1. <<a, b>> \in Before
    BY <1>3 DEF Ordered
  <2>2. x \in ToSet(a) /\ y \in ToSet(b) /\ a \in Seq(Nat) /\ b \in Seq(Nat)
    BY <1>1
  <2> HIDE DEF a, b
  <2>3. x < y
    BY <2>1, <2>2 DEF Before
  <2>4. x \in Nat /\ y \in Nat
    <3>1. \A q \in Seq(Nat) : ToSet(q) \subseteq Nat
      BY DEF ToSet
    <3> QED BY <2>2, <3>1
  <2> QED BY <2>3, <2>4 DEF Less
<1>4. FlattenSeq(ss) \in Seq(Nat)
  BY FlattenFacts
<1>5. ToSet(FlattenSeq(ss)) = Through(ss, m)
  BY FlattenFacts
<1>6. Ordered(FlattenSeq(ss), Less)
  BY <1>2, <1>3, FlattenFacts
<1>7. Through(ss, m) = S
  <2>0. ToSet(<<>>) = {} /\ \A i \in S : ToSet(<<i>>) = {i}
    BY OneUnit
  <2>1. ASSUME NEW x \in Through(ss, m) PROVE x \in S
    <3>1. PICK k \in 1..m : x \in ToSet(ss[k])
      BY DEF Through
    <3>2. ss[k] = <<>> \/ \E i \in S : ss[k] = <<i>>
      BY <1>0, <3>1
    <3>3. ToSet(ss[k]) \subseteq S
      BY <2>0, <3>2
    <3> QED BY <3>1, <3>3
  <2>2. ASSUME NEW i \in S PROVE i \in Through(ss, m)
    <3>1. PICK k \in 1..m : ss[k] = <<i>>
      BY <1>0
    <3>2. i \in ToSet(ss[k])
      BY <2>0, <3>1
    <3> QED BY <3>2 DEF Through
  <2> QED BY <2>1, <2>2
<1>8. S = S \cap (1..n)
  OBVIOUS
<1> QED BY <1>4, <1>5, <1>6, <1>7, <1>8, PlacesByElements

-----------------------------------------------------------------------------
\* Fragments of tool calls.

\* What accumulateToolCallFragments has for an index; a frame added; and the fragments
\* of all indices after each frame.
Part == [id : BOOLEAN, name : BOOLEAN, args : Seq(Nat)]
Added(p, n) ==
    IF units[n].index = -1 THEN p
    ELSE [p EXCEPT ![units[n].index] = Accumulate(@, n, units[n])]
Adding(f) ==
    f = [n \in 0..Len(units) |->
            IF n = 0 THEN [x \in Indices |-> NoParts]
            ELSE IF units[n].index = -1 THEN f[n - 1]
            ELSE [f[n - 1] EXCEPT ![units[n].index] = Accumulate(@, n, units[n])]]

\* The fields of a frame.
LEMMA FrameFields ==
  ASSUME NEW f \in Frame
  PROVE  /\ f.index = -1 \/ f.index \in Indices
         /\ f.id \in BOOLEAN /\ f.name \in BOOLEAN /\ (f.args # "none") \in BOOLEAN
         /\ f.think \in BOOLEAN /\ f.text \in BOOLEAN
BY DEF Frame, Indices

\* A fragment adds what it brings and forgets nothing ...
LEMMA AccumulateIs ==
  ASSUME NEW p \in Part, NEW n \in Nat, NEW f \in Frame
  PROVE  /\ Accumulate(p, n, f) \in Part
         /\ Accumulate(p, n, f).id = (p.id \/ f.id)
         /\ Accumulate(p, n, f).name = (p.name \/ f.name)
         /\ Accumulate(p, n, f).args = IF f.args # "none" THEN Append(p.args, n) ELSE p.args
<1>1. f.id \in BOOLEAN /\ f.name \in BOOLEAN
  BY FrameFields
<1>2. p.id \in BOOLEAN /\ p.name \in BOOLEAN /\ p.args \in Seq(Nat)
  BY DEF Part
<1>3. p.args \o Unit(n, f.args # "none") = IF f.args # "none" THEN Append(p.args, n) ELSE p.args
  <2> DEFINE a == p.args
  <2>1. a \in Seq(Nat)
    BY <1>2
  <2> HIDE DEF a
  <2>2. a \o <<>> = a /\ a \o <<n>> = Append(a, n)
    BY <2>1
  <2>3. CASE f.args # "none"
    BY <2>2, <2>3 DEF Unit, a
  <2>4. CASE f.args = "none"
    BY <2>2, <2>4 DEF Unit, a
  <2> QED BY <2>3, <2>4
<1>4. p.args \o Unit(n, f.args # "none") \in Seq(Nat)
  <2>1. Append(p.args, n) \in Seq(Nat)
    BY <1>2
  <2> QED BY <1>2, <1>3, <2>1
<1>5. (p.id \/ f.id) \in BOOLEAN /\ (p.name \/ f.name) \in BOOLEAN
  BY Zenon
<1> QED BY <1>3, <1>4, <1>5 DEF Accumulate, Part

\* ... at its own index, and leaves every other index alone.
LEMMA AddedIs ==
  ASSUME NEW p \in [Indices -> Part], NEW n \in Nat, units[n] \in Frame
  PROVE  /\ Added(p, n) \in [Indices -> Part]
         /\ \A x \in Indices :
               Added(p, n)[x] = IF units[n].index = x THEN Accumulate(p[x], n, units[n]) ELSE p[x]
<1>1. units[n].index = -1 \/ units[n].index \in Indices
  BY FrameFields
<1>2. -1 \notin Indices
  BY DEF Indices
<1>3. CASE units[n].index = -1
  BY <1>2, <1>3 DEF Added
<1>4. CASE units[n].index \in Indices
  <2>1. Accumulate(p[units[n].index], n, units[n]) \in Part
    BY <1>4, AccumulateIs
  <2> QED BY <1>2, <1>4, <2>1 DEF Added
<1> QED BY <1>1, <1>3, <1>4

\* What Parts returns is the last value of the loop.
LEMMA PartsIs == ASSUME units \in Seq(Frame) PROVE \E f : Adding(f) /\ Parts = f[Len(units)]
<1> DEFINE N == Len(units)
           A == [Indices -> Part]
           none == [x \in Indices |-> NoParts]
           g == [x \in A \X (1..N) |-> Added(x[1], x[2])]
<1>1. N \in Nat /\ \A n \in 1..N : units[n] \in Frame /\ n \in Nat
  OBVIOUS
<1>2. none \in A
  <2>1. NoParts \in Part
    BY DEF NoParts, Part
  <2> QED BY <2>1
<1>3. g \in [A \X (1..N) -> A]
  <2>1. \A x \in A \X (1..N) : x[1] \in A /\ x[2] \in 1..N
    OBVIOUS
  <2>2. \A x \in A \X (1..N) : Added(x[1], x[2]) \in A
    BY <1>1, <2>1, AddedIs
  <2> HIDE DEF A, N
  <2> QED BY <2>2
<1>4. \A p \in A, n \in 1..N : g[<<p, n>>] = Added(p, n)
  <2> HIDE DEF A, N
  <2> QED OBVIOUS
<1> HIDE DEF g, N, A, none
<1>0. \E f : Recursion(f, A, none, N, g)
  BY <1>1, <1>2, <1>3, RecursionExists
<1>5. PICK f : f \in [0..N -> A] /\ f[0] = none /\ \A n \in 1..N : f[n] = g[<<f[n - 1], n>>]
  BY <1>0 DEF Recursion
<1>6. ASSUME NEW n \in 0..N PROVE f[n] = IF n = 0 THEN none ELSE Added(f[n - 1], n)
  <2>1. CASE n = 0
    BY <1>5, <2>1
  <2>2. CASE n # 0
    <3>1. n \in 1..N /\ n - 1 \in 0..N
      BY <1>1, <2>2
    <3>2. f[n - 1] \in A
      BY <1>5, <3>1
    <3> QED BY <1>4, <1>5, <2>2, <3>1, <3>2
  <2> QED BY <2>1, <2>2
<1>7. f = [n \in 0..N |-> f[n]]
  BY <1>5
<1>8. f = [n \in 0..N |-> IF n = 0 THEN none ELSE Added(f[n - 1], n)]
  BY <1>6, <1>7
<1>9. Adding(f)
  BY <1>8 DEF Adding, Added, N, none
<1>10. \E h : Adding(h)
  BY <1>9
<1> QED BY <1>10 DEF Parts, Adding

\* The frames with arguments for index x.
Fragments(x) == {i \in DOMAIN units : units[i].index = x /\ units[i].args # "none"}

\* After any frames an index has an id, or a name, exactly when one of its frames
\* brought it, and all its arguments in the order they came, however the indices
\* were mixed.
LEMMA PartsAre ==
  ASSUME units \in Seq(Frame)
  PROVE  /\ Parts \in [Indices -> Part]
         /\ \A x \in Indices :
               /\ Parts[x].id <=> \E i \in DOMAIN units : units[i].index = x /\ units[i].id
               /\ Parts[x].name <=> \E i \in DOMAIN units : units[i].index = x /\ units[i].name
               /\ Parts[x].args = Places(Len(units), Fragments(x))
<1> DEFINE N == Len(units)
           Right(p, n) ==
               /\ p \in [Indices -> Part]
               /\ \A x \in Indices :
                     /\ p[x].id <=> \E i \in 1..n : units[i].index = x /\ units[i].id
                     /\ p[x].name <=> \E i \in 1..n : units[i].index = x /\ units[i].name
                     /\ p[x].args = Places(n, Fragments(x))
<1>1. N \in Nat /\ DOMAIN units = 1..N /\ \A n \in 1..N : units[n] \in Frame /\ n \in Nat
  OBVIOUS
<1> HIDE DEF N
<1>2. PICK f : Adding(f) /\ Parts = f[Len(units)]
  BY PartsIs
<1>3. /\ f[0] = [x \in Indices |-> NoParts]
      /\ \A n \in 1..N : f[n] = Added(f[n - 1], n)
  <2>1. 0 \in 0..N /\ \A n \in 1..N : n \in 0..N /\ n # 0
    BY <1>1
  <2> QED BY <1>2, <2>1 DEF Adding, Added, N
<1> DEFINE T == {n \in Nat : n <= N => Right(f[n], n)}
<1>4. 0 \in T
  <2>1. \A x \in Indices : Places(0, Fragments(x)) = <<>>
    BY PlacesSteps
  <2>2. NoParts \in Part /\ NoParts.id = FALSE /\ NoParts.name = FALSE /\ NoParts.args = <<>>
    BY DEF NoParts, Part
  <2>3. 1..0 = {}
    OBVIOUS
  <2>4. Right(f[0], 0)
    BY <1>3, <2>1, <2>2, <2>3
  <2> HIDE DEF Right
  <2> QED BY <2>4
<1>5. ASSUME NEW n \in T PROVE n + 1 \in T
  <2>1. n \in Nat /\ (n <= N => Right(f[n], n))
    <3> HIDE DEF Right
    <3> QED OBVIOUS
  <2> HIDE DEF T
  <2>2. ASSUME n + 1 <= N PROVE Right(f[n + 1], n + 1)
    <3> DEFINE p == f[n]
               q == f[n + 1]
               u == units[n + 1]
               k == n + 1
    <3>1. k \in 1..N /\ k \in Nat /\ k - 1 = n /\ n <= N
      BY <1>1, <2>1, <2>2
    <3>2. u \in Frame
      BY <1>1, <3>1
    <3>3. Right(p, n)
      BY <2>1, <3>1
    <3>4. p \in [Indices -> Part]
      BY <3>3
    <3>5. q = Added(p, k)
      BY <1>3, <3>1
    <3>6. /\ q \in [Indices -> Part]
          /\ \A x \in Indices : q[x] = IF u.index = x THEN Accumulate(p[x], k, u) ELSE p[x]
      <4> HIDE DEF p, q
      <4> QED BY <3>1, <3>2, <3>4, <3>5, AddedIs
    <3>7. u.id \in BOOLEAN /\ u.name \in BOOLEAN
      BY <3>2, FrameFields
    <3>8. 1..k = (1..n) \cup {k} /\ units[k] = u
      BY <2>1
    <3> HIDE DEF p, q, u
    <3>9. ASSUME NEW x \in Indices
          PROVE  /\ q[x].id <=> \E i \in 1..k : units[i].index = x /\ units[i].id
                 /\ q[x].name <=> \E i \in 1..k : units[i].index = x /\ units[i].name
                 /\ q[x].args = Places(k, Fragments(x))
      <4>1. p[x] \in Part
        BY <3>4
      <4>2. /\ p[x].id <=> \E i \in 1..n : units[i].index = x /\ units[i].id
            /\ p[x].name <=> \E i \in 1..n : units[i].index = x /\ units[i].name
            /\ p[x].args = Places(n, Fragments(x))
        BY <3>3
      <4>3. Places(k, Fragments(x)) = IF k \in Fragments(x) THEN Append(Places(n, Fragments(x)), k) ELSE Places(n, Fragments(x))
        BY <2>1, PlacesSteps
      <4>4. k \in Fragments(x) <=> u.index = x /\ u.args # "none"
        BY <1>1, <3>1, <3>8 DEF Fragments
      <4> HIDE DEF k, Right
      <4>5. CASE u.index = x
        <5>1. q[x] = Accumulate(p[x], k, u)
          BY <3>6, <4>5
        <5>2. q[x].id = (p[x].id \/ u.id)
          BY <3>1, <3>2, <4>1, <5>1, AccumulateIs
        <5>3. q[x].name = (p[x].name \/ u.name)
          BY <3>1, <3>2, <4>1, <5>1, AccumulateIs
        <5>4. q[x].args = IF u.args # "none" THEN Append(p[x].args, k) ELSE p[x].args
          BY <3>1, <3>2, <4>1, <5>1, AccumulateIs
        <5>5. q[x].id <=> \E i \in 1..k : units[i].index = x /\ units[i].id
          BY <3>8, <4>2, <4>5, <5>2, Zenon
        <5>6. q[x].name <=> \E i \in 1..k : units[i].index = x /\ units[i].name
          BY <3>8, <4>2, <4>5, <5>3, Zenon
        <5>7. q[x].args = Places(k, Fragments(x))
          BY <4>2, <4>3, <4>4, <4>5, <5>4
        <5> QED BY <5>5, <5>6, <5>7
      <4>6. CASE u.index # x
        <5>1. q[x] = p[x]
          BY <3>6, <4>6
        <5>2. q[x].id <=> \E i \in 1..k : units[i].index = x /\ units[i].id
          BY <3>8, <4>2, <4>6, <5>1, Zenon
        <5>3. q[x].name <=> \E i \in 1..k : units[i].index = x /\ units[i].name
          BY <3>8, <4>2, <4>6, <5>1, Zenon
        <5>4. q[x].args = Places(k, Fragments(x))
          BY <4>2, <4>3, <4>4, <4>6, <5>1
        <5> QED BY <5>2, <5>3, <5>4
      <4> QED BY <4>5, <4>6
    <3>10. Right(q, k)
      BY <3>6, <3>9
    <3> QED BY <3>10 DEF q
  <2> HIDE DEF Right
  <2> QED BY <2>1, <2>2 DEF T
<1>6. T \in SUBSET Nat
  OBVIOUS
<1>7. \A n \in T : n <= N => Right(f[n], n)
  <2> HIDE DEF Right
  <2> QED OBVIOUS
<1> HIDE DEF T, Right
<1>8. N \in T
  BY <1>1, <1>4, <1>5, <1>6, NatInd
<1>9. Right(Parts, N)
  BY <1>1, <1>2, <1>7, <1>8 DEF N
<1> QED BY <1>1, <1>9 DEF Right, N

-----------------------------------------------------------------------------
\* What a result tells.

\* The units with text, those with thinking, and the calls, by unit and place.
SaidAt == {i \in DOMAIN units : IF source = "frames" THEN units[i].text ELSE units[i].text = "some"}
ThoughtAt == {i \in DOMAIN units : units[i].think}
CalledAt == UNION {{<<i, k>> : k \in Usable(units[i])} : i \in DOMAIN units}
\* A result tells exactly what the units said.
Transcript ==
    /\ Texts \in Seq(Seq(Nat)) /\ Thinking \in Seq(Nat) /\ Calls \in Seq(Seq(Nat))
    /\ Concat(Texts) = Places(Len(units), SaidAt)
    /\ Thinking = Places(Len(units), ThoughtAt)
    /\ source # "frames" => ToSet(Calls) = CalledAt /\ Ordered(Calls, Lex)
    /\ source = "frames" => Calls = SseCalls

\* The one unit of a completion.
LEMMA OnlyUnit == ASSUME NEW b \in BOOLEAN, NEW S, S = IF b THEN {1} ELSE {}
                  PROVE  Unit(1, b) \in Seq(Nat) /\ Unit(1, b) = Places(1, S)
<1>1. Unit(1, b) \in Seq(Nat) /\ Len(Unit(1, b)) \in Nat /\ Len(Unit(1, b)) <= 1
  BY DEF Unit
<1>2. Ordered(Unit(1, b), Less)
  BY <1>1, AtMostOne
<1>3. ToSet(Unit(1, b)) = S \cap (1..1)
  BY OneUnit DEF Unit
<1> QED BY <1>1, <1>2, <1>3, PlacesByElements

\* Its text, as a list of texts.
LEMMA TextOrNone ==
  ASSUME NEW x \in Seq(Nat), NEW s, s = IF x = <<>> THEN <<>> ELSE <<x>>
  PROVE  s \in Seq(Seq(Nat)) /\ Concat(s) = x
<1>1. s \in Seq(Seq(Nat))
  OBVIOUS
<1>2. FlattenSeq(IF x = <<>> THEN <<>> ELSE <<x>>) = x
  BY NothingOrOne
<1> QED BY <1>1, <1>2 DEF Concat

\* The result of a completion is a transcript ...
LEMMA CompletionTranscript ==
  ASSUME source = "completion", units \in Seq(Chunk), Len(units) = 1, result = Completion
  PROVE  Transcript
<1> DEFINE m == units[1]
           d == Decode(1, m)
           b == (m.text = "some")
<1>1. m \in Chunk /\ DOMAIN units = {1}
  OBVIOUS
<1>2. m.think \in BOOLEAN /\ b \in BOOLEAN
  BY <1>1 DEF Chunk
<1>3. result.whole = TRUE /\ result.response = d
  BY DEF Completion
<1>4. d.text = Unit(1, b) /\ d.think = Unit(1, m.think)
  BY DEF Decode
<1>5. d.calls \in Seq(Seq(Nat)) /\ ToSet(d.calls) = {<<1, k>> : k \in Usable(m)} /\ Ordered(d.calls, Lex)
  BY <1>1, UsableCalls
<1>6. SaidAt = (IF b THEN {1} ELSE {}) /\ ThoughtAt = (IF m.think THEN {1} ELSE {})
  BY <1>1, <1>2 DEF SaidAt, ThoughtAt
<1>7. CalledAt = {<<1, k>> : k \in Usable(m)}
  BY <1>1 DEF CalledAt
<1> HIDE DEF d, b, m
<1>8. Unit(1, b) \in Seq(Nat) /\ Unit(1, b) = Places(1, SaidAt)
  BY <1>2, <1>6, OnlyUnit
<1>9. Unit(1, m.think) \in Seq(Nat) /\ Unit(1, m.think) = Places(1, ThoughtAt)
  BY <1>2, <1>6, OnlyUnit
<1>10. Texts = (IF d.text = <<>> THEN <<>> ELSE <<d.text>>) /\ Thinking = d.think /\ Calls = d.calls
  BY <1>3 DEF Texts, Thinking, Calls
<1>11. Texts \in Seq(Seq(Nat)) /\ Concat(Texts) = d.text
  BY <1>4, <1>8, <1>10, TextOrNone
<1> QED BY <1>4, <1>5, <1>7, <1>8, <1>9, <1>10, <1>11 DEF Transcript

\* ... and so are the events of a stream of chunks ...
LEMMA StreamTranscript ==
  ASSUME source = "chunks", units \in Seq(Chunk), result = Stream
  PROVE  Transcript
<1> DEFINE n == Len(units)
           ss == [i \in 1..n |-> ChunkEvents(i, units[i])]
           E == FlattenSeq(ss)
           X == Bodies(E, "text")
           Y == Bodies(E, "reasoning")
           Z == Bodies(E, "toolcall")
<1>1. n \in Nat /\ DOMAIN units = 1..n /\ units \in [1..n -> Chunk] /\ \A i \in 1..n : i \in Nat /\ units[i] \in Chunk
  OBVIOUS
<1>2. result.whole = FALSE /\ result.events = E
  BY <1>1 DEF Stream, Concat
<1>3. Texts = X /\ Thinking = FlattenSeq(Y) /\ Calls = Z
  BY <1>2 DEF Texts, Thinking, Calls, Concat
<1> HIDE DEF n
<1>4. E \in Seq(Entry)
  BY <1>1, StreamIs
<1>5. ToSet(E) = UNION {ChunkSet(i, units[i]) : i \in 1..n}
  BY <1>1, StreamIs
<1>6. Ordered(E, Among("text", Before))
  BY <1>1, StreamIs
<1>7. Ordered(E, Among("reasoning", Before))
  BY <1>1, StreamIs
<1>8. Ordered(E, Among("toolcall", Lex))
  BY <1>1, StreamIs
<1> HIDE DEF E, ss
<1>9. X \in Seq(Seq(Nat)) /\ Y \in Seq(Seq(Nat)) /\ Z \in Seq(Seq(Nat))
  BY <1>4, BodiesElements
<1>10. \A t : ToSet(Bodies(E, t)) = {E[k].body : k \in OfType(E, t)}
  BY <1>4, BodiesElements
<1>11. \A t, Q, d, e : <<d, e>> \in Among(t, Q) /\ d.type = t /\ e.type = t => <<d.body, e.body>> \in Q
  BY DEF Among
<1>12. Ordered(X, Before)
  BY <1>4, <1>6, <1>11, BodiesOrdered
<1>13. Ordered(Y, Before)
  BY <1>4, <1>7, <1>11, BodiesOrdered
<1>14. Ordered(Z, Lex)
  BY <1>4, <1>8, <1>11, BodiesOrdered
<1> HIDE DEF X, Y, Z
<1>15. ASSUME NEW t, NEW b \in ToSet(Bodies(E, t))
       PROVE  \E i \in 1..n : \E e \in ChunkSet(i, units[i]) : e.type = t /\ e.body = b
  <2>1. PICK k \in 1..Len(E) : E[k].type = t /\ E[k].body = b
    BY <1>10 DEF OfType
  <2>2. E[k] \in ToSet(E)
    BY <1>4, <2>1 DEF ToSet
  <2> QED BY <1>5, <2>1, <2>2
<1>16. ASSUME NEW i \in 1..n, NEW e \in ChunkSet(i, units[i]) PROVE e.body \in ToSet(Bodies(E, e.type))
  <2>1. e \in ToSet(E)
    BY <1>5
  <2>2. PICK k \in 1..Len(E) : e = E[k]
    BY <1>4, <2>1 DEF ToSet
  <2> QED BY <1>10, <2>2 DEF OfType
<1>17. SaidAt = {i \in 1..n : units[i].text = "some"} /\ ThoughtAt = {i \in 1..n : units[i].think}
  BY <1>1 DEF SaidAt, ThoughtAt
<1>18. FlattenSeq(X) = Places(n, SaidAt)
  <2>1. ASSUME NEW b \in ToSet(X) PROVE b = <<>> \/ \E i \in SaidAt : b = <<i>>
    <3>1. PICK i \in 1..n : \E e \in ChunkSet(i, units[i]) : e.type = "text" /\ e.body = b
      BY <1>15 DEF X
    <3>2. b = Unit(i, units[i].text = "some")
      BY <1>1, <3>1, ChunkSetIs
    <3> QED BY <1>17, <3>1, <3>2 DEF Unit
  <2>2. ASSUME NEW i \in SaidAt PROVE <<i>> \in ToSet(X)
    <3> DEFINE e == Item("text", Unit(i, units[i].text = "some"))
    <3>1. i \in 1..n /\ e \in ChunkSet(i, units[i])
      BY <1>17 DEF ChunkSet
    <3>2. e.type = "text" /\ e.body = <<i>>
      BY <1>17 DEF Item, Unit
    <3> HIDE DEF e
    <3> QED BY <1>16, <3>1, <3>2 DEF X
  <2>3. SaidAt \in SUBSET (1..n)
    BY <1>17
  <2> QED BY <1>1, <1>9, <1>12, <2>1, <2>2, <2>3, UnitsFlattened
<1>19. FlattenSeq(Y) = Places(n, ThoughtAt)
  <2>1. ASSUME NEW b \in ToSet(Y) PROVE b = <<>> \/ \E i \in ThoughtAt : b = <<i>>
    <3>1. PICK i \in 1..n : \E e \in ChunkSet(i, units[i]) : e.type = "reasoning" /\ e.body = b
      BY <1>15 DEF Y
    <3>2. b = <<i>> /\ units[i].think
      BY <1>1, <3>1, ChunkSetIs
    <3> QED BY <1>17, <3>1, <3>2
  <2>2. ASSUME NEW i \in ThoughtAt PROVE <<i>> \in ToSet(Y)
    <3> DEFINE e == Item("reasoning", <<i>>)
    <3>1. i \in 1..n /\ e \in ChunkSet(i, units[i])
      BY <1>17 DEF ChunkSet
    <3>2. e.type = "reasoning" /\ e.body = <<i>>
      BY DEF Item
    <3> HIDE DEF e
    <3> QED BY <1>16, <3>1, <3>2 DEF Y
  <2>3. ThoughtAt \in SUBSET (1..n)
    BY <1>17
  <2> QED BY <1>1, <1>9, <1>13, <2>1, <2>2, <2>3, UnitsFlattened
<1>20. ToSet(Z) = CalledAt
  <2>1. ASSUME NEW b \in ToSet(Z) PROVE b \in CalledAt
    <3>1. PICK i \in 1..n : \E e \in ChunkSet(i, units[i]) : e.type = "toolcall" /\ e.body = b
      BY <1>15 DEF Z
    <3>2. PICK e \in ChunkSet(i, units[i]) : e.type = "toolcall" /\ e.body = b
      BY <3>1
    <3> DEFINE m == units[i]
    <3>3. i \in Nat /\ m \in Chunk /\ e \in ChunkSet(i, m)
      BY <1>1
    <3> HIDE DEF m
    <3>4. e.type = "toolcall" => \E k \in Usable(m) : e.body = <<i, k>>
      BY <3>3, ChunkSetIs, Zenon
    <3>5. \E k \in Usable(m) : b = <<i, k>>
      BY <3>2, <3>4
    <3> QED BY <1>1, <3>5 DEF CalledAt, m
  <2>2. ASSUME NEW b \in CalledAt PROVE b \in ToSet(Z)
    <3>1. PICK i \in 1..n : b \in {<<i, k>> : k \in Usable(units[i])}
      BY <1>1 DEF CalledAt
    <3>2. PICK k \in Usable(units[i]) : b = <<i, k>>
      BY <3>1
    <3> DEFINE e == Item("toolcall", <<i, k>>)
    <3>3. e \in ChunkSet(i, units[i])
      BY DEF ChunkSet
    <3>4. e.type = "toolcall" /\ e.body = <<i, k>>
      BY DEF Item
    <3> HIDE DEF e
    <3> QED BY <1>16, <3>2, <3>3, <3>4 DEF Z
  <2> QED BY <2>1, <2>2
<1>21. FlattenSeq(Y) \in Seq(Nat)
  BY <1>9, FlattenFacts
<1> QED BY <1>3, <1>9, <1>14, <1>18, <1>19, <1>20, <1>21 DEF Transcript, Concat, n

\* An id and a name have come for the index.
IsNamed(x) ==
    /\ \E i \in DOMAIN units : units[i].index = x /\ units[i].id
    /\ \E i \in DOMAIN units : units[i].index = x /\ units[i].name

\* Indices in ascending order.
LEMMA AscendingIs == ASSUME NEW S PROVE Ascending(S) \in Seq(Indices)
<1> DEFINE n == MaxIndex + 1
           s == [k \in 1..n |-> k - 1]
           R == {x + 1 : x \in S}
           P == Places(n, R)
<1>1. n \in Nat /\ MaxIndex \in Nat
  BY AnswersAssumption
<1>2. \A k \in 1..n : s[k] \in Indices
  BY <1>1 DEF Indices
<1> HIDE DEF n, s, R
<1>3. Keep(n, s, R) = Taken(s, P)
  BY <1>1, KeepAt
<1>4. P \in Seq(1..n)
  BY <1>1, PlacesList DEF Lists
<1> HIDE DEF P
<1>5. Len(P) \in Nat /\ \A k \in 1..Len(P) : P[k] \in 1..n
  <2> DEFINE Q == 1..n
  <2>1. P \in Seq(Q)
    BY <1>4
  <2> HIDE DEF Q
  <2>2. Len(P) \in Nat /\ \A k \in 1..Len(P) : P[k] \in Q
    BY <2>1
  <2> QED BY <2>2 DEF Q
<1>6. Taken(s, P) \in [1..Len(P) -> Indices]
  BY <1>2, <1>5 DEF Taken
<1>7. Taken(s, P) \in Seq(Indices)
  BY <1>5, <1>6, FnIsSeq
<1> QED BY <1>3, <1>7 DEF Ascending, n, s, R, P

\* The typing of a sequence's elements.
LEMMA SeqIs ==
  ASSUME NEW A, NEW q \in Seq(A)
  PROVE  DOMAIN q = 1..Len(q) /\ Len(q) \in Nat /\ \A k \in 1..Len(q) : q[k] \in A
OBVIOUS

\* The arguments of an index are all its fragments.
LEMMA ArgumentsAre ==
  ASSUME units \in Seq(Frame), NEW x \in Indices
  PROVE  Parts[x].args = Carriers(Fragments(x)) /\ Parts[x].args \in Seq(Nat)
<1>1. Parts \in [Indices -> Part]
  BY PartsAre
<1>2. Parts[x].args = Places(Len(units), Fragments(x))
  BY PartsAre
<1>3. Carriers(Fragments(x)) = Places(Len(units), Fragments(x))
  BY CarriersAre
<1>4. \A p \in Part : p.args \in Seq(Nat)
  BY DEF Part
<1> QED BY <1>1, <1>2, <1>3, <1>4

\* The calls of an SSE document are the indices with an id and a name.
LEMMA SseCallsAre ==
  ASSUME units \in Seq(Frame), NEW named, named = Ascending({x \in Indices : IsNamed(x)})
  PROVE  /\ named \in Seq(Indices)
         /\ SseCalls \in Seq(Seq(Nat))
         /\ SseCalls = [k \in DOMAIN named |-> <<named[k]>>]
         /\ SseCalls = <<>> <=> named = <<>>
<1>3. Complete = {x \in Indices : IsNamed(x)}
  <2>1. \A x \in Indices : Parts[x].id <=> \E i \in DOMAIN units : units[i].index = x /\ units[i].id
    BY PartsAre
  <2>2. \A x \in Indices : Parts[x].name <=> \E i \in DOMAIN units : units[i].index = x /\ units[i].name
    BY PartsAre
  <2>3. \A x \in Indices : Parts[x].id /\ Parts[x].name <=> IsNamed(x)
    BY <2>1, <2>2, Zenon DEF IsNamed
  <2> QED BY <2>3, Zenon DEF Complete
<1>4. named \in Seq(Indices)
  BY AscendingIs
<1>5. SseCalls = [k \in DOMAIN named |-> <<named[k]>>]
  BY <1>3 DEF SseCalls
<1>6. DOMAIN named = 1..Len(named) /\ Len(named) \in Nat /\ \A k \in 1..Len(named) : named[k] \in Indices
  BY <1>4, SeqIs
<1>7. Indices \subseteq Nat
  BY AnswersAssumption DEF Indices
<1> HIDE DEF SseCalls
<1>8. SseCalls \in [1..Len(named) -> Seq(Nat)]
  <2>1. \A x \in Nat : <<x>> \in Seq(Nat)
    OBVIOUS
  <2> QED BY <1>5, <1>6, <1>7, <2>1
<1>9. SseCalls \in Seq(Seq(Nat)) /\ Len(SseCalls) = Len(named)
  BY <1>6, <1>8, FnIsSeq
<1>10. SseCalls = <<>> <=> named = <<>>
  BY <1>4, <1>9
<1> QED BY <1>4, <1>5, <1>9, <1>10

\* ... and the response of an SSE document.
LEMMA DocumentTranscript ==
  ASSUME source = "frames", units \in Seq(Frame), result = Document
  PROVE  Transcript
<1> DEFINE n == Len(units)
           b == [i \in 1..n |-> units[i].text]
           c == [i \in 1..n |-> units[i].think]
           x == Concat([i \in DOMAIN units |-> Unit(i, units[i].text)])
           y == Concat([i \in DOMAIN units |-> Unit(i, units[i].think)])
<1>1. n \in Nat /\ DOMAIN units = 1..n /\ \A i \in 1..n : units[i] \in Frame
  OBVIOUS
<1>2. \A i \in 1..n : units[i].text \in BOOLEAN /\ units[i].think \in BOOLEAN
  BY <1>1, FrameFields
<1>3. b \in [1..n -> BOOLEAN] /\ c \in [1..n -> BOOLEAN]
  BY <1>2
<1>4. /\ x = FlattenSeq([i \in 1..n |-> Unit(i, b[i])])
      /\ y = FlattenSeq([i \in 1..n |-> Unit(i, c[i])])
  BY <1>1 DEF Concat
<1>5. /\ SaidAt = {i \in 1..n : b[i]}
      /\ ThoughtAt = {i \in 1..n : c[i]}
  BY <1>1 DEF SaidAt, ThoughtAt
<1>6. result.whole = TRUE /\ result.response.text = x /\ result.response.think = y /\ result.response.calls = SseCalls
  BY DEF Document
<1> HIDE DEF n, b, c, x, y
<1>7. x = Places(n, SaidAt) /\ y = Places(n, ThoughtAt)
  BY <1>1, <1>3, <1>4, <1>5, UnitsInOrder
<1>8. \A S : Places(n, S) \in Seq(Nat)
  <2> SUFFICES ASSUME NEW S PROVE Places(n, S) \in Seq(Nat)
    OBVIOUS
  <2>1. Places(n, S) \in Seq(1..n)
    BY <1>1, PlacesList DEF Lists
  <2> QED BY <1>1, <2>1
<1>9. x \in Seq(Nat) /\ y \in Seq(Nat)
  BY <1>7, <1>8
<1>10. Texts = (IF x = <<>> THEN <<>> ELSE <<x>>) /\ Thinking = y /\ Calls = SseCalls
  BY <1>6 DEF Texts, Thinking, Calls
<1>11. Texts \in Seq(Seq(Nat)) /\ Concat(Texts) = x
  BY <1>9, <1>10, TextOrNone
<1>12. SseCalls \in Seq(Seq(Nat))
  BY SseCallsAre
<1> QED BY <1>7, <1>9, <1>10, <1>11, <1>12 DEF Transcript, n

\* Units are of the worker's form.
UnitsSent ==
    \/ source = "completion" /\ units \in Seq(Chunk) /\ Len(units) = 1
    \/ source = "chunks" /\ units \in Seq(Chunk)
    \/ source = "frames" /\ units \in Seq(Frame)

\* A result is that of the units.
ResultOfUnits ==
    phase \in {"decoded", "replayed"} =>
        /\ source = "completion" => result = Completion
        /\ source = "chunks" => result = Stream
        /\ source = "frames" => result = Document

\* A message, the arguments of its calls, its events and its stop reason are those of
\* the result.
MessageOfResult ==
    phase = "replayed" =>
        /\ content = Items("thinking", Thought) \o Items("text", Texts) \o Items("toolCall", Calls)
        /\ arguments = [k \in DOMAIN Calls |-> ParseArguments(CallsJson[k])]
        /\ emitted = Pushes
        /\ stop = (IF Calls = <<>> THEN "stop" ELSE "toolUse")

\* The inductive invariant.
AInv == UnitsSent /\ ResultOfUnits /\ MessageOfResult

\* Whichever form the answer took, the result of a replayed one is a transcript.
LEMMA TranscriptHolds == ASSUME AInv, phase = "replayed" PROVE Transcript
BY CompletionTranscript, StreamTranscript, DocumentTranscript
   DEF AInv, UnitsSent, ResultOfUnits

\* All thinking is one block, or none.
LEMMA ThoughtIs ==
  ASSUME Thinking \in Seq(Nat)
  PROVE  Thought \in Seq(Seq(Nat)) /\ Concat(Thought) = Thinking /\ Len(Thought) <= 1 /\ Len(Thought) \in Nat
<1>1. Thought = IF Thinking = <<>> THEN <<>> ELSE <<Thinking>>
  BY DEF Thought
<1>2. Thought \in Seq(Seq(Nat)) /\ Concat(Thought) = Thinking
  BY <1>1, TextOrNone
<1> QED BY <1>1, <1>2

\* What the blocks of the message hold, by kind and all together.
LEMMA ContentIs ==
  ASSUME AInv, phase = "replayed"
  PROVE  /\ Thought \in Seq(Seq(Nat)) /\ Texts \in Seq(Seq(Nat)) /\ Calls \in Seq(Seq(Nat))
         /\ Bodies(content, "thinking") = Thought
         /\ Bodies(content, "text") = Texts
         /\ Bodies(content, "toolCall") = Calls
         /\ [i \in DOMAIN content |-> content[i].body] = Thought \o Texts \o Calls
         /\ ThreeKinds(content, Thought, Texts, Calls, Len(Thought), Len(Texts), Len(Calls))
<1>1. Transcript
  BY TranscriptHolds
<1>2. Thought \in Seq(Seq(Nat)) /\ Texts \in Seq(Seq(Nat)) /\ Calls \in Seq(Seq(Nat))
  BY <1>1, ThoughtIs DEF Transcript
<1>3. content = Items("thinking", Thought) \o Items("text", Texts) \o Items("toolCall", Calls)
  BY DEF AInv, MessageOfResult
<1> DEFINE a == Thought
           b == Texts
           c == Calls
           items == content
<1> HIDE DEF a, b, c, items
<1>4. a \in Seq(Seq(Nat)) /\ b \in Seq(Seq(Nat)) /\ c \in Seq(Seq(Nat))
  BY <1>2 DEF a, b, c
<1>5. Written(items, a, b, c)
  BY <1>3 DEF a, b, c, items, Written
<1>6. Bodies(items, "thinking") = a
  BY <1>4, <1>5, MessageBodies
<1>7. Bodies(items, "text") = b
  BY <1>4, <1>5, MessageBodies
<1>8. Bodies(items, "toolCall") = c
  BY <1>4, <1>5, MessageBodies
<1>9. [i \in DOMAIN items |-> items[i].body] = a \o b \o c
  BY <1>4, <1>5, MessageBodies
<1>10. ThreeKinds(items, a, b, c, Len(a), Len(b), Len(c))
  BY <1>4, <1>5, MessageOfItems DEF Written
<1> QED BY <1>4, <1>6, <1>7, <1>8, <1>9, <1>10 DEF a, b, c, items

\* The JSON texts of the calls, one for each.
LEMMA CallsJsonIs ==
  ASSUME AInv, phase = "replayed"
  PROVE  /\ CallsJson \in Seq(Seq(Nat)) /\ Len(CallsJson) = Len(Calls)
         /\ DOMAIN CallsJson = 1..Len(Calls) /\ \A k \in 1..Len(Calls) : CallsJson[k] = ArgumentsJson(Calls[k])
<1>1. Transcript
  BY TranscriptHolds
<1>2. Calls \in Seq(Seq(Nat))
  BY <1>1 DEF Transcript
<1>3. DOMAIN Calls = 1..Len(Calls) /\ Len(Calls) \in Nat /\ \A k \in 1..Len(Calls) : Calls[k] \in Seq(Nat)
  BY <1>2, SeqIs
<1>4. ASSUME NEW k \in 1..Len(Calls) PROVE ArgumentsJson(Calls[k]) \in Seq(Nat)
  <2>1. CASE source = "frames"
    <3> DEFINE named == Ascending({x \in Indices : IsNamed(x)})
    <3>1. units \in Seq(Frame)
      BY <2>1 DEF AInv, UnitsSent
    <3>2. Calls = SseCalls
      BY <1>1, <2>1 DEF Transcript
    <3>3. Calls = [h \in DOMAIN named |-> <<named[h]>>] /\ named \in Seq(Indices)
      BY <3>1, <3>2, SseCallsAre
    <3> HIDE DEF named
    <3>4. k \in DOMAIN named /\ named[k] \in Indices /\ Calls[k] = <<named[k]>>
      <4>1. DOMAIN named = DOMAIN Calls
        BY <3>3
      <4>2. k \in DOMAIN named
        BY <1>3, <4>1
      <4> QED BY <3>3, <4>2, SeqIs
    <3>5. Calls[k][1] = named[k]
      BY <3>4
    <3>6. Parts[named[k]].args \in Seq(Nat)
      BY <3>1, <3>4, ArgumentsAre
    <3> QED BY <2>1, <3>5, <3>6 DEF ArgumentsJson
  <2>2. CASE source # "frames"
    <3>1. <<>> \in Seq(Nat)
      OBVIOUS
    <3> QED BY <1>3, <2>2, <3>1 DEF ArgumentsJson
  <2> QED BY <2>1, <2>2
<1>5. CallsJson = [k \in 1..Len(Calls) |-> ArgumentsJson(Calls[k])]
  BY <1>3 DEF CallsJson
<1>6. CallsJson \in [1..Len(Calls) -> Seq(Nat)]
  BY <1>4, <1>5
<1>7. CallsJson \in Seq(Seq(Nat)) /\ Len(CallsJson) = Len(Calls)
  BY <1>3, <1>6, FnIsSeq
<1> QED BY <1>5, <1>7

\* The blocks hold what the units said.
LEMMA NothingLostHolds == ASSUME AInv PROVE NothingLost
<1> SUFFICES ASSUME phase = "replayed" PROVE NothingLost
  BY DEF NothingLost
<1>1. Transcript
  BY TranscriptHolds
<1>2. Bodies(content, "thinking") = Thought /\ Bodies(content, "text") = Texts /\ Bodies(content, "toolCall") = Calls
  BY ContentIs
<1>3. Concat(Texts) = Carriers(SaidAt) /\ Thinking = Carriers(ThoughtAt)
  <2>1. \A S : Carriers(S) = Places(Len(units), S)
    <3>1. \E U : units \in Seq(U)
      BY DEF AInv, UnitsSent
    <3> QED BY <3>1, CarriersAre
  <2> QED BY <1>1, <2>1 DEF Transcript
<1>4. Concat(Thought) = Thinking /\ Len(Thought) <= 1
  BY <1>1, ThoughtIs DEF Transcript
<1>5. ASSUME source # "frames"
      PROVE  /\ ToSet(Calls) = UNION {{<<i, k>> : k \in Usable(units[i])} : i \in DOMAIN units}
             /\ \A j, k \in DOMAIN Calls : j < k =>
                   \/ Calls[j][1] < Calls[k][1]
                   \/ Calls[j][1] = Calls[k][1] /\ Calls[j][2] < Calls[k][2]
  <2>1. Calls \in Seq(Seq(Nat)) /\ ToSet(Calls) = CalledAt /\ Ordered(Calls, Lex)
    BY <1>1, <1>5 DEF Transcript
  <2>2. ASSUME NEW j \in DOMAIN Calls, NEW k \in DOMAIN Calls, j < k
        PROVE  \/ Calls[j][1] < Calls[k][1]
               \/ Calls[j][1] = Calls[k][1] /\ Calls[j][2] < Calls[k][2]
    <3>1. j \in 1..Len(Calls) /\ k \in 1..Len(Calls)
      BY <2>1
    <3> DEFINE a == Calls[j]
               b == Calls[k]
    <3>2. <<a, b>> \in Lex
      BY <2>1, <2>2, <3>1 DEF Ordered
    <3> HIDE DEF a, b
    <3>3. a[1] < b[1] \/ (a[1] = b[1] /\ a[2] < b[2])
      BY <3>2 DEF Lex
    <3> QED BY <3>3 DEF a, b
  <2> QED BY <2>1, <2>2 DEF CalledAt
<1>6. ASSUME source # "frames", NEW k \in DOMAIN Calls, units[Calls[k][1]].calls[Calls[k][2]] = "call"
      PROVE  arguments[k] = Calls[k]
  <2> DEFINE c == Calls[k]
  <2>1. Calls \in Seq(Seq(Nat)) /\ ToSet(Calls) = CalledAt
    BY <1>1, <1>6 DEF Transcript
  <2>2. k \in 1..Len(Calls) /\ c \in ToSet(Calls)
    BY <2>1 DEF ToSet
  <2>3. arguments[k] = ParseArguments(CallsJson[k]) /\ CallsJson[k] = ArgumentsJson(c)
    BY <2>2, CallsJsonIs DEF AInv, MessageOfResult
  <2>4. PICK i \in DOMAIN units : c \in {<<i, h>> : h \in Usable(units[i])}
    BY <2>1, <2>2 DEF CalledAt
  <2>5. PICK h \in Usable(units[i]) : c = <<i, h>>
    BY <2>4
  <2>6. c # <<>>
    BY <2>5
  <2>7. units[c[1]].calls[c[2]] = "call"
    BY <1>6
  <2> HIDE DEF c
  <2>8. ArgumentsJson(c) = c
    BY <1>6, <2>7 DEF ArgumentsJson
  <2>9. IsObject(c)
    BY <1>6, <2>6, <2>7 DEF IsObject
  <2> QED BY <2>3, <2>8, <2>9 DEF ParseArguments, c
<1> QED BY <1>2, <1>3, <1>4, <1>5, <1>6 DEF NothingLost, SaidAt, ThoughtAt

\* The calls of a document are whole.
LEMMA CallsReassembledHolds == ASSUME AInv PROVE CallsReassembled
<1> SUFFICES ASSUME phase = "replayed", source = "frames" PROVE CallsReassembled
  BY DEF CallsReassembled
<1> DEFINE named == Ascending({x \in Indices : IsNamed(x)})
<1>1. units \in Seq(Frame)
  BY DEF AInv, UnitsSent
<1>2. Transcript
  BY TranscriptHolds
<1>3. Calls = SseCalls
  BY <1>2 DEF Transcript
<1>4. Bodies(content, "toolCall") = Calls
  BY ContentIs
<1>5. Calls = [k \in DOMAIN named |-> <<named[k]>>] /\ named \in Seq(Indices)
  BY <1>1, <1>3, SseCallsAre
<1>6. Calls = <<>> <=> named = <<>>
  BY <1>1, <1>3, SseCallsAre
<1>7. stop = (IF Calls = <<>> THEN "stop" ELSE "toolUse")
  BY DEF AInv, MessageOfResult
<1>8. stop = "toolUse" <=> named # <<>>
  BY <1>6, <1>7
<1>9. arguments = [k \in DOMAIN named |-> ParseArguments(Carriers(Fragments(named[k])))]
  <2> HIDE DEF named
  <2>1. DOMAIN Calls = DOMAIN named
    BY <1>5
  <2>2. ASSUME NEW k \in DOMAIN named PROVE CallsJson[k] = Carriers(Fragments(named[k]))
    <3>1. named[k] \in Indices /\ Calls[k] = <<named[k]>> /\ Calls[k][1] = named[k]
      BY <1>5, SeqIs
    <3>2. CallsJson[k] = ArgumentsJson(Calls[k])
      BY <2>1 DEF CallsJson
    <3>3. ArgumentsJson(Calls[k]) = Parts[named[k]].args
      BY <3>1 DEF ArgumentsJson
    <3> QED BY <1>1, <3>1, <3>2, <3>3, ArgumentsAre
  <2>3. arguments = [k \in DOMAIN Calls |-> ParseArguments(CallsJson[k])]
    BY DEF AInv, MessageOfResult
  <2> QED BY <2>1, <2>2, <2>3
<1> QED BY <1>4, <1>5, <1>8, <1>9 DEF CallsReassembled, IsNamed, Fragments

\* The events are triples that count through the blocks: their deltas are those of
\* the thought, the texts and the calls, their ends the blocks.
LEMMA EmittedTriples ==
  ASSUME AInv, phase = "replayed"
  PROVE  InTriples(emitted, Thought \o Texts \o CallsJson, Thought \o Texts \o Calls,
                   Len(Thought) + Len(Texts) + Len(Calls), 0)
<1> DEFINE l == Len(Thought)
           m == Len(Texts)
           n == Len(Calls)
           q == Thought \o Texts \o Calls
           d == Thought \o Texts \o CallsJson
           A == Triples(Thought, Thought, 0)
           B == Triples(Texts, Texts, l)
           C == Triples(CallsJson, Calls, l + m)
<1>1. Thought \in Seq(Seq(Nat)) /\ Texts \in Seq(Seq(Nat)) /\ Calls \in Seq(Seq(Nat))
  BY ContentIs
<1>2. CallsJson \in Seq(Seq(Nat)) /\ Len(CallsJson) = n
  BY CallsJsonIs
<1>3. emitted = (A \o B) \o C
  BY DEF AInv, MessageOfResult, Pushes, TextPushes
<1>4. l \in Nat /\ m \in Nat /\ n \in Nat /\ 0 \in Nat
  BY <1>1
<1>5. InThree(q, Thought, Texts, Calls, l, m, n)
  BY <1>1, ThreeJoined
<1>6. InThree(d, Thought, Texts, CallsJson, l, m, n)
  BY <1>1, <1>2, ThreeJoined
<1> HIDE DEF q, d
<1>7. InTriples(A, Thought, Thought, l, 0)
  BY <1>1, TriplesAre
<1>8. InTriples(B, Texts, Texts, m, l)
  BY <1>1, <1>4, TriplesAre
<1>9. InTriples(C, CallsJson, Calls, n, l + m)
  <2>1. l + m \in Nat
    BY <1>4
  <2> HIDE DEF l, m
  <2>2. InTriples(C, CallsJson, Calls, Len(Calls), l + m)
    BY <1>1, <1>2, <2>1, TriplesAre
  <2> QED BY <2>2
<1> HIDE DEF A, B, C, l, m, n
<1>10. InTriples(A \o B, d, q, l + m, 0)
  <2>1. InTriples(B, Texts, Texts, m, 0 + l)
    BY <1>4, <1>8
  <2>2. Joins(q, Thought, l, Texts, m)
    BY <1>5 DEF InThree, Joins
  <2>3. Joins(d, Thought, l, Texts, m)
    BY <1>6 DEF InThree, Joins
  <2> QED BY <1>4, <1>7, <2>1, <2>2, <2>3, TriplesJoin
<1>11. InTriples((A \o B) \o C, d, q, (l + m) + n, 0)
  <2> DEFINE D == A \o B
             h == l + m
  <2>0. h \in Nat
    BY <1>4
  <2>1. InTriples(C, CallsJson, Calls, n, 0 + h)
    BY <1>4, <1>9, <2>0
  <2>2. Joins(q, q, h, Calls, n)
    BY <1>5 DEF InThree, Joins
  <2>5. Joins(d, d, h, CallsJson, n)
    BY <1>6 DEF InThree, Joins
  <2>3. InTriples(D, d, q, h, 0)
    BY <1>10
  <2> HIDE DEF D, h
  <2>4. InTriples(D \o C, d, q, h + n, 0)
    BY <1>4, <2>0, <2>1, <2>2, <2>3, <2>5, TriplesJoin
  <2> QED BY <2>4 DEF D, h
<1> QED BY <1>3, <1>11 DEF l, m, n, q, d

\* A consumer has the blocks of the message, each with what its deltas gave.
LEMMA FollowedMessage ==
  ASSUME AInv, phase = "replayed", NEW N, N = Len(Thought) + Len(Texts) + Len(Calls)
  PROVE  Followed = [k \in 1..N |-> Got((Thought \o Texts \o CallsJson)[k], (Thought \o Texts \o Calls)[k])]
<1> DEFINE q == Thought \o Texts \o Calls
           d == Thought \o Texts \o CallsJson
<1>1. Thought \in Seq(Seq(Nat)) /\ Texts \in Seq(Seq(Nat)) /\ Calls \in Seq(Seq(Nat))
  BY ContentIs
<1>2. CallsJson \in Seq(Seq(Nat)) /\ Len(CallsJson) = Len(Calls)
  BY CallsJsonIs
<1>3. q \in Seq(Seq(Nat)) /\ Len(q) = N
  BY <1>1, ThreeJoined
<1>4. d \in Seq(Seq(Nat)) /\ Len(d) = N
  BY <1>1, <1>2, ThreeJoined
<1>5. InTriples(emitted, d, q, N, 0)
  BY EmittedTriples
<1> HIDE DEF q, d
<1>6. Followed = [k \in 1..Len(q) |-> Got(d[k], q[k])]
  BY <1>3, <1>4, <1>5, FollowedBuilds
<1> QED BY <1>3, <1>6 DEF q, d

\* They are the blocks of the message, and parse to the arguments of its calls.
LEMMA EventsBuildHolds == ASSUME AInv PROVE EventsBuildMessage
<1> SUFFICES ASSUME phase = "replayed" PROVE EventsBuildMessage
  BY DEF EventsBuildMessage
<1> DEFINE l == Len(Thought)
           m == Len(Texts)
           n == Len(Calls)
           N == l + m + n
           q == Thought \o Texts \o Calls
           d == Thought \o Texts \o CallsJson
<1>1. Thought \in Seq(Seq(Nat)) /\ Texts \in Seq(Seq(Nat)) /\ Calls \in Seq(Seq(Nat))
  BY ContentIs
<1>2. CallsJson \in Seq(Seq(Nat)) /\ Len(CallsJson) = n
  BY CallsJsonIs
<1>3. ThreeKinds(content, Thought, Texts, Calls, l, m, n)
  BY ContentIs
<1>4. InThree(q, Thought, Texts, Calls, l, m, n)
  BY <1>1, ThreeJoined
<1>5. InThree(d, Thought, Texts, CallsJson, l, m, n)
  BY <1>1, <1>2, ThreeJoined
<1>6. Followed = [k \in 1..N |-> Got(d[k], q[k])]
  BY FollowedMessage
<1>7. arguments = [k \in 1..n |-> ParseArguments(CallsJson[k])]
  BY <1>1 DEF AInv, MessageOfResult
<1>8. l \in Nat /\ m \in Nat /\ n \in Nat /\ Len(content) = N /\ DOMAIN content = 1..N
  BY <1>1, <1>3 DEF ThreeKinds
<1> HIDE DEF q, d, l, m, n
<1>9. Len(arguments) = n
  BY <1>7, <1>8
<1>10. N \in Nat /\ N - n = l + m
  BY <1>8
<1> HIDE DEF N
<1>11. Len(Followed) = N
  BY <1>6, <1>10
<1>12. ASSUME NEW i \in 1..N
       PROVE  /\ Followed[i].block = content[i].body
              /\ IF content[i].type = "toolCall"
                 THEN ParseArguments(Followed[i].given) = arguments[i - (l + m)]
                 ELSE Followed[i].given = content[i].body
  <2>1. Followed[i].given = d[i] /\ Followed[i].block = q[i]
    BY <1>6 DEF Got
  <2>2. CASE i \in 1..l
    <3>1. q[i] = Thought[i] /\ d[i] = Thought[i] /\ content[i].body = Thought[i] /\ content[i].type = "thinking"
      BY <1>3, <1>4, <1>5, <2>2 DEF ThreeKinds, InThree
    <3> QED BY <2>1, <3>1
  <2>3. CASE i - l \in 1..m /\ l + (i - l) = i
    <3>1. /\ q[l + (i - l)] = Texts[i - l] /\ d[l + (i - l)] = Texts[i - l]
          /\ content[l + (i - l)].body = Texts[i - l] /\ content[l + (i - l)].type = "text"
      BY <1>3, <1>4, <1>5, <2>3 DEF ThreeKinds, InThree
    <3> QED BY <2>1, <2>3, <3>1
  <2>4. CASE i - (l + m) \in 1..n /\ l + m + (i - (l + m)) = i
    <3> DEFINE k == i - (l + m)
    <3>1. /\ q[l + m + k] = Calls[k] /\ d[l + m + k] = CallsJson[k]
          /\ content[l + m + k].body = Calls[k] /\ content[l + m + k].type = "toolCall"
      BY <1>3, <1>4, <1>5, <2>4 DEF ThreeKinds, InThree
    <3>2. l + m + k = i
      BY <2>4
    <3>3. arguments[k] = ParseArguments(CallsJson[k])
      BY <1>7, <2>4
    <3> HIDE DEF k
    <3>4. q[i] = Calls[k] /\ d[i] = CallsJson[k] /\ content[i].body = Calls[k] /\ content[i].type = "toolCall"
      BY <3>1, <3>2
    <3>5. Followed[i].block = content[i].body
      BY <2>1, <3>4
    <3>6. ParseArguments(Followed[i].given) = arguments[k]
      BY <2>1, <3>3, <3>4
    <3> QED BY <3>4, <3>5, <3>6 DEF k
  <2>5. i \in 1..(l + m + n)
    BY DEF N
  <2> QED BY <1>8, <2>2, <2>3, <2>4, <2>5, ThreeRuns
<1> QED BY <1>8, <1>9, <1>10, <1>11, <1>12 DEF EventsBuildMessage

-----------------------------------------------------------------------------
\* The inductive invariant of an answer, and its theorems.

\* The invariant holds before anything is decoded.
LEMMA AnswersInitially == AnswersInit => AInv
<1> SUFFICES ASSUME AnswersInit PROVE AInv
  OBVIOUS
<1>1. phase = "sent"
  BY DEF AnswersInit
<1>2. Chunks \subseteq Chunk /\ Frames \subseteq Frame
  BY AnswersAssumption
<1>3. UnitsSent
  <2>1. CASE source = "completion" /\ units \in {<<c>> : c \in Chunks}
    <3>1. PICK c \in Chunks : units = <<c>>
      BY <2>1
    <3>2. units \in Seq(Chunk) /\ Len(units) = 1
      BY <1>2, <3>1
    <3> QED BY <2>1, <3>2 DEF UnitsSent
  <2>2. CASE source = "chunks" /\ units \in UNION {[1..n -> Chunks] : n \in 1..MaxUnits}
    <3>1. PICK n \in 1..MaxUnits : units \in [1..n -> Chunks]
      BY <2>2
    <3>2. units \in [1..n -> Chunk] /\ n \in Nat
      BY <1>2, <3>1, AnswersAssumption
    <3>3. units \in Seq(Chunk)
      BY <3>2, FnIsSeq
    <3> QED BY <2>2, <3>3 DEF UnitsSent
  <2>3. CASE source = "frames" /\ units \in UNION {[1..n -> Frames] : n \in 0..MaxUnits}
    <3>1. PICK n \in 0..MaxUnits : units \in [1..n -> Frames]
      BY <2>3
    <3>2. units \in [1..n -> Frame] /\ n \in Nat
      BY <1>2, <3>1, AnswersAssumption
    <3>3. units \in Seq(Frame)
      BY <3>2, FnIsSeq
    <3> QED BY <2>3, <3>3 DEF UnitsSent
  <2> QED BY <2>1, <2>2, <2>3 DEF AnswersInit
<1> QED BY <1>1, <1>3 DEF AInv, ResultOfUnits, MessageOfResult

\* Results depend on the units alone ...
LEMMA SameUnits ==
  ASSUME units' = units
  PROVE  Completion' = Completion /\ Stream' = Stream /\ Document' = Document /\ Parts' = Parts
<1>1. Completion' = Completion
  BY DEF Completion
<1>2. Stream' = Stream
  BY DEF Stream
<1>3. Parts' = Parts
  BY DEF Parts
<1>4. SseCalls' = SseCalls
  <2>1. Complete' = Complete
    BY <1>3 DEF Complete
  <2> QED BY <1>3, <2>1 DEF SseCalls
<1>5. Document' = Document
  BY <1>4 DEF Document, FrameEvents
<1> QED BY <1>1, <1>2, <1>3, <1>5

\* ... and blocks, arguments and events on the result and its units.
LEMMA SameResult ==
  ASSUME result' = result, units' = units, source' = source
  PROVE  /\ Thought' = Thought /\ Texts' = Texts /\ Calls' = Calls /\ Pushes' = Pushes
         /\ [k \in DOMAIN Calls |-> ParseArguments(CallsJson[k])]'
                = [k \in DOMAIN Calls |-> ParseArguments(CallsJson[k])]
<1>1. Thought' = Thought
  BY DEF Thought, Thinking
<1>2. Texts' = Texts
  BY DEF Texts
<1>3. Calls' = Calls
  BY DEF Calls
<1>4. Parts' = Parts
  BY SameUnits
<1>5. CallsJson' = CallsJson
  BY <1>3, <1>4 DEF CallsJson, ArgumentsJson
<1>6. Pushes' = Pushes
  BY <1>1, <1>2, <1>3, <1>5 DEF Pushes, TextPushes
<1>8. [k \in DOMAIN Calls |-> ParseArguments(CallsJson[k])]'
          = [k \in DOMAIN Calls |-> ParseArguments(CallsJson[k])]
  BY <1>3, <1>5 DEF ParseArguments, IsObject
<1> QED BY <1>1, <1>2, <1>3, <1>6, <1>8

\* Decoding and replaying keep the invariant.
LEMMA AnswersStep == AInv /\ [AnswersNext]_avars => AInv'
<1> SUFFICES ASSUME AInv, [AnswersNext]_avars PROVE AInv'
  OBVIOUS
<1>1. CASE Transport
  <2>1. units' = units /\ source' = source
    BY <1>1 DEF Transport
  <2>2. UnitsSent'
    BY <2>1 DEF AInv, UnitsSent
  <2>3. phase' # "replayed"
    BY <1>1 DEF Transport
  <2>4. ResultOfUnits'
    <3>1. phase' = "decoded" =>
             /\ source = "completion" => result' = Completion
             /\ source = "chunks" => result' = Stream
             /\ source = "frames" => result' = Document
      BY <1>1 DEF Transport
    <3> QED BY <2>1, <2>3, <3>1, SameUnits DEF ResultOfUnits
  <2>5. MessageOfResult'
    BY <2>3 DEF MessageOfResult
  <2> QED BY <2>2, <2>4, <2>5 DEF AInv
<1>2. CASE Replay
  <2>1. units' = units /\ source' = source /\ result' = result /\ phase = "decoded" /\ phase' = "replayed"
    BY <1>2 DEF Replay
  <2>2. UnitsSent'
    BY <2>1 DEF AInv, UnitsSent
  <2>3. ResultOfUnits'
    BY <2>1, SameUnits DEF AInv, ResultOfUnits
  <2>4. MessageOfResult'
    BY <1>2, <2>1, SameResult DEF Replay, MessageOfResult
  <2> QED BY <2>2, <2>3, <2>4 DEF AInv
<1>3. CASE UNCHANGED avars
  <2>1. /\ units' = units /\ source' = source /\ result' = result /\ phase' = phase
        /\ content' = content /\ arguments' = arguments /\ emitted' = emitted /\ stop' = stop
    BY <1>3 DEF avars
  <2>2. UnitsSent'
    BY <2>1 DEF AInv, UnitsSent
  <2>3. ResultOfUnits'
    BY <2>1, SameUnits DEF AInv, ResultOfUnits
  <2>4. MessageOfResult'
    BY <2>1, SameResult DEF AInv, MessageOfResult
  <2> QED BY <2>2, <2>3, <2>4 DEF AInv
<1> QED BY <1>1, <1>2, <1>3 DEF AnswersNext

\* The inductive invariant holds of every answer: any number of chunks, frames and
\* indices of tool calls (executeStream, parseSse, replayRunpodStream).
THEOREM AnswersInvariance == AnswersSpec => []AInv
BY AnswersInitially, AnswersStep, PTL DEF AnswersSpec

\* A consumer of the stream's events ends with the blocks of the final message,
\* whatever thinking, texts and calls there are, and the deltas it was given parse to
\* the arguments of the calls: replayRunpodStream counts its content indices through
\* all three, and hands a call on as raw JSON before parseArguments has its say.
THEOREM EventsAgree == AnswersSpec => []EventsBuildMessage
BY AnswersInvariance, EventsBuildHolds, PTL

\* Nothing a worker said is dropped, repeated or reordered between its answer and the
\* message, whether it came as a completion, as chunks or as frames; arguments that were
\* cut off are (decodeOpenAiShaped, executeStream, parseSse, replayRunpodStream).
THEOREM NothingSaidLost == AnswersSpec => []NothingLost
BY AnswersInvariance, NothingLostHolds, PTL

\* The calls of an SSE document are those with an id and a name, in the order of their
\* indices, each with what all its fragments in the order they arrived parse to, however
\* the frames of several calls are mixed (accumulateToolCallFragments, parseArguments).
THEOREM CallsComplete == AnswersSpec => []CallsReassembled
BY AnswersInvariance, CallsReassembledHolds, PTL

===============================================================================
